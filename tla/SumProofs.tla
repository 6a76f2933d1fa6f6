------------------------------ MODULE SumProofs ------------------------------
(***************************************************************************)
(* The laws of SumFunctionOnSet (Functions), for sums of any integers over *)
(* any finite set: what the proofs about budgets, LAN shares and bytes per *)
(* app need.  The operator is a recursive function; that it satisfies its  *)
(* equation, and each law, is shown with a smallest counterexample.        *)
(***************************************************************************)
EXTENDS Functions, FiniteSetTheorems, TLAPS

(* A set of subsets of a finite set has a member without a smaller one.    *)
LEMMA MinimalSet ==
  ASSUME NEW S, IsFiniteSet(S), NEW Bad \in SUBSET (SUBSET S), Bad # {}
  PROVE  \E T \in Bad : \A U \in SUBSET T : U # T => U \notin Bad
<1>1. IsWellFoundedOn(StrictSubsetOrdering(S), FiniteSubsetsOf(S))
  BY FS_StrictSubsetOrderingWellFounded
<1>2. Bad \subseteq FiniteSubsetsOf(S)
  BY FS_FiniteSubsetsOfFinite
<1>3. \E T \in Bad : \A U \in Bad : ~(<<U, T>> \in StrictSubsetOrdering(S))
  BY <1>1, <1>2, WFMin
<1> QED BY <1>3 DEF StrictSubsetOrdering

-----------------------------------------------------------------------------
(* The recursive function.                                                 *)

Pick(s) == CHOOSE x \in s : TRUE

(* g[s] is the sum of f over s, for every part s of S.                     *)
Sums(f, S, g) ==
  g = [s \in SUBSET S |-> IF s = {} THEN 0 ELSE f[Pick(s)] + g[s \ {Pick(s)}]]

LEMMA PickIsIn == \A s : s # {} => Pick(s) \in s
  BY DEF Pick

LEMMA SumIsChosen ==
  ASSUME NEW f, NEW S
  PROVE  SumFunctionOnSet(f, S) = (CHOOSE g : Sums(f, S, g))[S]
BY DEF SumFunctionOnSet, FoldFunctionOnSet, MapThenFoldSet, Sums, Pick

(* Two such functions agree.                                               *)
LEMMA SumsAgree ==
  ASSUME NEW f, NEW S, IsFiniteSet(S), NEW T \in SUBSET S, NEW g, NEW h,
         Sums(f, S, g), Sums(f, T, h)
  PROVE  \A u \in SUBSET T : g[u] = h[u]
<1> DEFINE Bad == {u \in SUBSET T : g[u] # h[u]}
<1>1. SUFFICES ASSUME Bad # {} PROVE FALSE
  OBVIOUS
<1>2. IsFiniteSet(T) /\ Bad \in SUBSET (SUBSET T)
  BY FS_Subset
<1>3. PICK u \in Bad : \A v \in SUBSET u : v # u => v \notin Bad
  <2> HIDE DEF Bad
  <2> QED BY <1>1, <1>2, MinimalSet
<1>4. CASE u = {}
  <2>1. g[{}] = 0 /\ h[{}] = 0
    BY DEF Sums
  <2> QED BY <1>4, <2>1
<1>5. CASE u # {}
  <2>1. g[u] = f[Pick(u)] + g[u \ {Pick(u)}] /\ h[u] = f[Pick(u)] + h[u \ {Pick(u)}]
    BY <1>5 DEF Sums
  <2>2. u \ {Pick(u)} \in SUBSET T /\ u \ {Pick(u)} # u
    BY <1>5, PickIsIn
  <2>3. g[u \ {Pick(u)}] = h[u \ {Pick(u)}]
    BY <1>3, <2>2
  <2> QED BY <2>1, <2>3
<1> QED BY <1>4, <1>5

(* There is one: a smallest set without would get one from its parts.      *)
LEMMA SumsExist ==
  ASSUME NEW f, NEW S, IsFiniteSet(S)
  PROVE  \E g : Sums(f, S, g)
<1> DEFINE Bad == {T \in SUBSET S : ~ \E g : Sums(f, T, g)}
<1>1. SUFFICES ASSUME Bad # {} PROVE FALSE
  OBVIOUS
<1>2. PICK T \in Bad : \A U \in SUBSET T : U # T => U \notin Bad
  <2>1. Bad \in SUBSET (SUBSET S)
    OBVIOUS
  <2> HIDE DEF Bad
  <2> QED BY <1>1, <2>1, MinimalSet
<1> DEFINE part(U) == CHOOSE g : Sums(f, U, g)
           below(U) == part(U)[U]
           g == [s \in SUBSET T |->
                   IF s = {} THEN 0
                   ELSE IF s = T THEN f[Pick(T)] + below(T \ {Pick(T)})
                   ELSE below(s)]
<1>3. ASSUME NEW U \in SUBSET T, U # T PROVE Sums(f, U, part(U)) /\ IsFiniteSet(U)
  <2>1. U \notin Bad /\ U \in SUBSET S
    BY <1>2, <1>3
  <2>2. \E h : Sums(f, U, h)
    BY <2>1
  <2> QED BY <2>1, <2>2, FS_Subset
<1> HIDE DEF part
<1>4. ASSUME NEW s \in SUBSET T
      PROVE  g[s] = IF s = {} THEN 0 ELSE f[Pick(s)] + g[s \ {Pick(s)}]
  <2> DEFINE r == s \ {Pick(s)}
  <2>1. CASE s = {}
    BY <2>1
  <2>2. CASE s # {} /\ r = {}
    <3>1. g[r] = 0
      BY <2>2
    <3>2. r \in SUBSET T /\ r # T
      BY <2>2, PickIsIn
    <3>3. below(r) = 0
      <4>1. Sums(f, r, part(r))
        BY <1>3, <3>2
      <4> QED BY <2>2, <4>1 DEF Sums
    <3>4. ASSUME s # T PROVE below(s) = f[Pick(s)] + below(r)
      <4>1. Sums(f, s, part(s)) /\ Sums(f, r, part(r)) /\ IsFiniteSet(s)
        BY <1>3, <3>2, <3>4
      <4>2. part(s)[s] = f[Pick(s)] + part(s)[r]
        BY <2>2, <4>1 DEF Sums
      <4>3. part(s)[r] = part(r)[r]
        BY <4>1, SumsAgree
      <4> QED BY <4>2, <4>3
    <3> QED BY <2>2, <3>1, <3>3, <3>4
  <2>3. CASE s # {} /\ r # {}
    <3>1. r \in SUBSET T /\ r # T
      BY <2>3, PickIsIn
    <3>2. g[r] = below(r)
      BY <2>3, <3>1
    <3>3. ASSUME s # T PROVE below(s) = f[Pick(s)] + below(r)
      <4>1. Sums(f, s, part(s)) /\ Sums(f, r, part(r)) /\ IsFiniteSet(s)
        BY <1>3, <3>1, <3>3
      <4>2. part(s)[s] = f[Pick(s)] + part(s)[r]
        BY <2>3, <4>1 DEF Sums
      <4>3. part(s)[r] = part(r)[r]
        BY <4>1, SumsAgree
      <4> QED BY <4>2, <4>3
    <3> QED BY <2>3, <3>2, <3>3
  <2> QED BY <2>1, <2>2, <2>3
<1>5. Sums(f, T, g)
  <2>1. g = [s \in SUBSET T |-> g[s]]
    OBVIOUS
  <2> HIDE DEF g
  <2> QED BY <1>4, <2>1 DEF Sums
<1> QED BY <1>5

-----------------------------------------------------------------------------
(* The laws.                                                               *)

IsIntOn(f, S) == \A x \in S : f[x] \in Int

LEMMA SumsGiveSum ==
  ASSUME NEW f, NEW S, IsFiniteSet(S), NEW g, Sums(f, S, g), NEW T \in SUBSET S
  PROVE  SumFunctionOnSet(f, T) = g[T]
<1> DEFINE h == CHOOSE h : Sums(f, T, h)
<1>1. IsFiniteSet(T)
  BY FS_Subset
<1>2. Sums(f, T, h)
  BY <1>1, SumsExist
<1>3. SumFunctionOnSet(f, T) = h[T]
  BY SumIsChosen
<1> HIDE DEF h
<1>4. g[T] = h[T]
  BY <1>2, SumsAgree
<1> QED BY <1>3, <1>4

LEMMA SumEmpty ==
  ASSUME NEW f
  PROVE  SumFunctionOnSet(f, {}) = 0
<1>1. IsFiniteSet({})
  BY FS_EmptySet
<1>2. PICK g : Sums(f, {}, g)
  BY <1>1, SumsExist
<1>3. g[{}] = 0
  BY <1>2 DEF Sums
<1>4. {} \in SUBSET {}
  OBVIOUS
<1>5. SumFunctionOnSet(f, {}) = g[{}]
  BY <1>1, <1>2, <1>4, SumsGiveSum
<1> QED BY <1>3, <1>5

(* The recursive equation of the operator.                                 *)
LEMMA SumPicks ==
  ASSUME NEW f, NEW S, IsFiniteSet(S), S # {}
  PROVE  SumFunctionOnSet(f, S) = f[Pick(S)] + SumFunctionOnSet(f, S \ {Pick(S)})
<1>1. PICK g : Sums(f, S, g)
  BY SumsExist
<1> DEFINE r == S \ {Pick(S)}
<1>2. g[S] = f[Pick(S)] + g[r]
  BY <1>1 DEF Sums
<1>3. r \in SUBSET S /\ S \in SUBSET S
  OBVIOUS
<1>4. SumFunctionOnSet(f, S) = g[S] /\ SumFunctionOnSet(f, r) = g[r]
  <2> HIDE DEF r
  <2> QED BY <1>1, <1>3, SumsGiveSum
<1> QED BY <1>2, <1>4

LEMMA SumIsInt ==
  ASSUME NEW S, IsFiniteSet(S), NEW f, IsIntOn(f, S)
  PROVE  SumFunctionOnSet(f, S) \in Int
<1> DEFINE Bad == {T \in SUBSET S : SumFunctionOnSet(f, T) \notin Int}
<1>1. SUFFICES ASSUME Bad # {} PROVE FALSE
  OBVIOUS
<1>2. PICK T \in Bad : \A U \in SUBSET T : U # T => U \notin Bad
  <2>1. Bad \in SUBSET (SUBSET S)
    OBVIOUS
  <2> HIDE DEF Bad
  <2> QED BY <1>1, <2>1, MinimalSet
<1>3. IsFiniteSet(T) /\ T # {}
  <2>1. SumFunctionOnSet(f, {}) \in Int
    BY SumEmpty
  <2> QED BY <2>1, FS_Subset
<1>4. T \ {Pick(T)} \in SUBSET T /\ T \ {Pick(T)} # T /\ Pick(T) \in S
  BY <1>3, PickIsIn
<1>5. SumFunctionOnSet(f, T \ {Pick(T)}) \in Int /\ f[Pick(T)] \in Int
  BY <1>2, <1>4 DEF IsIntOn
<1> QED BY <1>3, <1>5, SumPicks

(* Any element may be taken out first.                                     *)
LEMMA SumTakeOut ==
  ASSUME NEW S, IsFiniteSet(S), NEW f, IsIntOn(f, S)
  PROVE  \A x \in S : SumFunctionOnSet(f, S) = f[x] + SumFunctionOnSet(f, S \ {x})
<1> DEFINE TakesOut(T) == \A x \in T :
             SumFunctionOnSet(f, T) = f[x] + SumFunctionOnSet(f, T \ {x})
           Bad == {T \in SUBSET S : ~TakesOut(T)}
<1>1. SUFFICES ASSUME Bad # {} PROVE FALSE
  OBVIOUS
<1>2. PICK T \in Bad : \A U \in SUBSET T : U # T => U \notin Bad
  <2>1. Bad \in SUBSET (SUBSET S)
    OBVIOUS
  <2> HIDE DEF Bad
  <2> QED BY <1>1, <2>1, MinimalSet
<1>3. PICK x \in T : SumFunctionOnSet(f, T) # f[x] + SumFunctionOnSet(f, T \ {x})
  OBVIOUS
<1> DEFINE p == Pick(T)
           both == T \ {x, p}
<1>4. T \in SUBSET S /\ T # {} /\ p \in T
  BY PickIsIn
<1> HIDE DEF p
<1>5. IsFiniteSet(T) /\ IsFiniteSet(T \ {x}) /\ IsFiniteSet(both)
  BY <1>4, FS_Subset
<1>6. SumFunctionOnSet(f, T) = f[p] + SumFunctionOnSet(f, T \ {p})
  BY <1>4, <1>5, SumPicks DEF p
<1>7. p # x
  BY <1>3, <1>6
<1>8. TakesOut(T \ {p}) /\ TakesOut(T \ {x})
  <2>1. T \ {p} \in SUBSET T /\ T \ {p} # T /\ T \ {x} \in SUBSET T /\ T \ {x} # T
    BY <1>4
  <2>2. T \ {p} \notin Bad /\ T \ {x} \notin Bad
    BY <1>2, <2>1
  <2> QED BY <2>1, <2>2
<1>9. (T \ {p}) \ {x} = both /\ (T \ {x}) \ {p} = both
  OBVIOUS
<1>10. /\ SumFunctionOnSet(f, T \ {p}) = f[x] + SumFunctionOnSet(f, both)
       /\ SumFunctionOnSet(f, T \ {x}) = f[p] + SumFunctionOnSet(f, both)
  BY <1>4, <1>7, <1>8, <1>9
<1>11. SumFunctionOnSet(f, both) \in Int /\ f[x] \in Int /\ f[p] \in Int
  <2>1. IsIntOn(f, both)
    BY <1>4 DEF IsIntOn
  <2> QED BY <1>4, <1>5, <2>1, SumIsInt DEF IsIntOn
<1> QED BY <1>3, <1>6, <1>10, <1>11

(* A new element adds its value.                                           *)
LEMMA SumAdd ==
  ASSUME NEW S, IsFiniteSet(S), NEW x, x \notin S, NEW f, IsIntOn(f, S \cup {x})
  PROVE  SumFunctionOnSet(f, S \cup {x}) = f[x] + SumFunctionOnSet(f, S)
<1>1. IsFiniteSet(S \cup {x}) /\ x \in S \cup {x} /\ (S \cup {x}) \ {x} = S
  BY FS_AddElement
<1> QED BY <1>1, SumTakeOut

(* The sum is linear in the function: of three functions, one of which is  *)
(* the sum of the others on S.                                             *)
LEMMA SumOfPlus ==
  ASSUME NEW S, IsFiniteSet(S), NEW f, NEW g, NEW h, IsIntOn(f, S), IsIntOn(g, S),
         \A x \in S : h[x] = f[x] + g[x]
  PROVE  SumFunctionOnSet(h, S) = SumFunctionOnSet(f, S) + SumFunctionOnSet(g, S)
<1> DEFINE Bad == {T \in SUBSET S : SumFunctionOnSet(h, T) #
                     SumFunctionOnSet(f, T) + SumFunctionOnSet(g, T)}
<1>1. SUFFICES ASSUME Bad # {} PROVE FALSE
  OBVIOUS
<1>2. PICK T \in Bad : \A U \in SUBSET T : U # T => U \notin Bad
  <2>1. Bad \in SUBSET (SUBSET S)
    OBVIOUS
  <2> HIDE DEF Bad
  <2> QED BY <1>1, <2>1, MinimalSet
<1>3. IsFiniteSet(T) /\ T # {}
  <2>1. SumFunctionOnSet(h, {}) = SumFunctionOnSet(f, {}) + SumFunctionOnSet(g, {})
    BY SumEmpty
  <2> QED BY <2>1, FS_Subset
<1> DEFINE x == Pick(T)
           U == T \ {x}
<1>4. x \in T /\ U \in SUBSET T /\ U # T /\ U \notin Bad /\ U \in SUBSET S /\ IsFiniteSet(U)
  <2>1. x \in T
    BY <1>3, PickIsIn
  <2> HIDE DEF x
  <2>2. U \in SUBSET T /\ U # T
    BY <2>1
  <2> QED BY <1>2, <1>3, <2>1, <2>2, FS_Subset
<1>5. SumFunctionOnSet(h, U) = SumFunctionOnSet(f, U) + SumFunctionOnSet(g, U)
  BY <1>4
<1>6. /\ SumFunctionOnSet(h, T) = h[x] + SumFunctionOnSet(h, U)
      /\ SumFunctionOnSet(f, T) = f[x] + SumFunctionOnSet(f, U)
      /\ SumFunctionOnSet(g, T) = g[x] + SumFunctionOnSet(g, U)
  BY <1>3, SumPicks
<1>7. SumFunctionOnSet(f, U) \in Int /\ SumFunctionOnSet(g, U) \in Int
  <2>1. IsIntOn(f, U) /\ IsIntOn(g, U)
    BY <1>4 DEF IsIntOn
  <2> QED BY <1>4, <2>1, SumIsInt
<1>8. f[x] \in Int /\ g[x] \in Int /\ h[x] = f[x] + g[x]
  BY <1>4 DEF IsIntOn
<1> QED BY <1>5, <1>6, <1>7, <1>8

(* A larger function has a larger sum.                                     *)
LEMMA SumMonotone ==
  ASSUME NEW S, IsFiniteSet(S), NEW f, NEW g, IsIntOn(f, S), IsIntOn(g, S),
         \A x \in S : f[x] <= g[x]
  PROVE  SumFunctionOnSet(f, S) <= SumFunctionOnSet(g, S)
<1> DEFINE Bad == {T \in SUBSET S : ~(SumFunctionOnSet(f, T) <= SumFunctionOnSet(g, T))}
<1>1. SUFFICES ASSUME Bad # {} PROVE FALSE
  OBVIOUS
<1>2. PICK T \in Bad : \A U \in SUBSET T : U # T => U \notin Bad
  <2>1. Bad \in SUBSET (SUBSET S)
    OBVIOUS
  <2> HIDE DEF Bad
  <2> QED BY <1>1, <2>1, MinimalSet
<1>3. IsFiniteSet(T) /\ T # {}
  <2>1. SumFunctionOnSet(f, {}) <= SumFunctionOnSet(g, {})
    BY SumEmpty
  <2> QED BY <2>1, FS_Subset
<1> DEFINE x == Pick(T)
           U == T \ {x}
<1>4. x \in T /\ U \in SUBSET T /\ U # T /\ U \notin Bad /\ U \in SUBSET S /\ IsFiniteSet(U)
  <2>1. x \in T
    BY <1>3, PickIsIn
  <2> HIDE DEF x
  <2>2. U \in SUBSET T /\ U # T
    BY <2>1
  <2> QED BY <1>2, <1>3, <2>1, <2>2, FS_Subset
<1>5. SumFunctionOnSet(f, U) <= SumFunctionOnSet(g, U)
  BY <1>4
<1>6. /\ SumFunctionOnSet(f, T) = f[x] + SumFunctionOnSet(f, U)
      /\ SumFunctionOnSet(g, T) = g[x] + SumFunctionOnSet(g, U)
  BY <1>3, SumPicks
<1>7. SumFunctionOnSet(f, U) \in Int /\ SumFunctionOnSet(g, U) \in Int
  <2>1. IsIntOn(f, U) /\ IsIntOn(g, U)
    BY <1>4 DEF IsIntOn
  <2> QED BY <1>4, <2>1, SumIsInt
<1>8. f[x] \in Int /\ g[x] \in Int /\ f[x] <= g[x]
  BY <1>4 DEF IsIntOn
<1> QED BY <1>5, <1>6, <1>7, <1>8

(* Functions that agree on a set have one sum.                             *)
LEMMA SumSame ==
  ASSUME NEW S, IsFiniteSet(S), NEW f, NEW g, IsIntOn(f, S), \A x \in S : f[x] = g[x]
  PROVE  SumFunctionOnSet(f, S) = SumFunctionOnSet(g, S)
<1>1. IsIntOn(g, S) /\ \A x \in S : f[x] <= g[x] /\ g[x] <= f[x]
  BY DEF IsIntOn
<1>2. /\ SumFunctionOnSet(f, S) <= SumFunctionOnSet(g, S)
      /\ SumFunctionOnSet(g, S) <= SumFunctionOnSet(f, S)
  BY <1>1, SumMonotone
<1>3. SumFunctionOnSet(f, S) \in Int /\ SumFunctionOnSet(g, S) \in Int
  BY <1>1, SumIsInt
<1> QED BY <1>2, <1>3

(* Nothing adds up to nothing.                                             *)
LEMMA SumOfZeros ==
  ASSUME NEW S, IsFiniteSet(S), NEW f, \A x \in S : f[x] = 0
  PROVE  SumFunctionOnSet(f, S) = 0
<1>1. IsIntOn(f, S) /\ \A x \in S : f[x] = f[x] + f[x]
  BY DEF IsIntOn
<1>2. SumFunctionOnSet(f, S) = SumFunctionOnSet(f, S) + SumFunctionOnSet(f, S)
  BY <1>1, SumOfPlus
<1> QED BY <1>1, <1>2, SumIsInt

LEMMA SumIsNat ==
  ASSUME NEW S, IsFiniteSet(S), NEW f, \A x \in S : f[x] \in Nat
  PROVE  SumFunctionOnSet(f, S) \in Nat
<1> DEFINE zero == [x \in S |-> 0]
<1>1. IsIntOn(f, S) /\ IsIntOn(zero, S) /\ \A x \in S : zero[x] <= f[x] /\ zero[x] = 0
  BY DEF IsIntOn
<1> HIDE DEF zero
<1>2. SumFunctionOnSet(zero, S) = 0
  BY <1>1, SumOfZeros
<1>3. SumFunctionOnSet(zero, S) <= SumFunctionOnSet(f, S)
  BY <1>1, SumMonotone
<1> QED BY <1>1, <1>2, <1>3, SumIsInt

(* One value changes.                                                      *)
LEMMA SumChange ==
  ASSUME NEW S, IsFiniteSet(S), NEW x \in S, NEW f, NEW g, IsIntOn(f, S), IsIntOn(g, S),
         \A y \in S \ {x} : f[y] = g[y]
  PROVE  SumFunctionOnSet(g, S) = SumFunctionOnSet(f, S) - f[x] + g[x]
<1>1. /\ SumFunctionOnSet(f, S) = f[x] + SumFunctionOnSet(f, S \ {x})
      /\ SumFunctionOnSet(g, S) = g[x] + SumFunctionOnSet(g, S \ {x})
  BY SumTakeOut
<1>2. IsFiniteSet(S \ {x}) /\ IsIntOn(f, S \ {x})
  BY FS_RemoveElement DEF IsIntOn
<1>3. SumFunctionOnSet(f, S \ {x}) = SumFunctionOnSet(g, S \ {x})
  BY <1>2, SumSame
<1>4. SumFunctionOnSet(f, S \ {x}) \in Int /\ f[x] \in Int /\ g[x] \in Int
  BY <1>2, SumIsInt DEF IsIntOn
<1> QED BY <1>1, <1>3, <1>4

(* A sum splits along any part of its set.                                 *)
LEMMA SumSplits ==
  ASSUME NEW S, IsFiniteSet(S), NEW T \in SUBSET S, NEW f, IsIntOn(f, S)
  PROVE  SumFunctionOnSet(f, S) = SumFunctionOnSet(f, T) + SumFunctionOnSet(f, S \ T)
<1> DEFINE Bad == {U \in SUBSET S : SumFunctionOnSet(f, U) #
                     SumFunctionOnSet(f, U \cap T) + SumFunctionOnSet(f, U \ T)}
<1>1. ASSUME Bad # {} PROVE FALSE
  <2>2. PICK U \in Bad : \A V \in SUBSET U : V # U => V \notin Bad
    <3>1. Bad \in SUBSET (SUBSET S)
      OBVIOUS
    <3> HIDE DEF Bad
    <3> QED BY <1>1, <3>1, MinimalSet
  <2>3. IsFiniteSet(U) /\ U # {} /\ U \in SUBSET S
    <3>1. {} \cap T = {} /\ {} \ T = {}
      OBVIOUS
    <3>2. SumFunctionOnSet(f, {}) = SumFunctionOnSet(f, {} \cap T) + SumFunctionOnSet(f, {} \ T)
      BY <3>1, SumEmpty
    <3> QED BY <3>2, FS_Subset
  <2>4. PICK x \in U : TRUE
    BY <2>3
  <2> DEFINE V == U \ {x}
  <2>5. V \in SUBSET U /\ V # U /\ V \in SUBSET S
    BY <2>3, <2>4
  <2>6. V \notin Bad
    BY <2>2, <2>5
  <2>7. SumFunctionOnSet(f, V) = SumFunctionOnSet(f, V \cap T) + SumFunctionOnSet(f, V \ T)
    BY <2>5, <2>6
  <2>8. /\ IsFiniteSet(V) /\ IsFiniteSet(V \cap T) /\ IsFiniteSet(V \ T)
        /\ IsFiniteSet(U \cap T) /\ IsFiniteSet(U \ T)
    BY <2>3, FS_Subset
  <2>9. /\ IsIntOn(f, U) /\ IsIntOn(f, U \cap T) /\ IsIntOn(f, U \ T)
        /\ IsIntOn(f, V \cap T) /\ IsIntOn(f, V \ T) /\ f[x] \in Int
    BY <2>3 DEF IsIntOn
  <2>10. SumFunctionOnSet(f, V \cap T) \in Int /\ SumFunctionOnSet(f, V \ T) \in Int
    BY <2>8, <2>9, SumIsInt
  <2>11. SumFunctionOnSet(f, U) = f[x] + SumFunctionOnSet(f, V)
    BY <2>3, <2>9, SumTakeOut
  <2> DEFINE whole == SumFunctionOnSet(f, U)
             inside == SumFunctionOnSet(f, U \cap T)
             outside == SumFunctionOnSet(f, U \ T)
             less == SumFunctionOnSet(f, V)
             lessIn == SumFunctionOnSet(f, V \cap T)
             lessOut == SumFunctionOnSet(f, V \ T)
  <2>0. whole # inside + outside
    OBVIOUS
  <2>12. CASE x \in T
    <3>1. U \ T = V \ T /\ x \in U \cap T /\ (U \cap T) \ {x} = V \cap T
      BY <2>12
    <3>2. SumFunctionOnSet(f, U \cap T) = f[x] + SumFunctionOnSet(f, V \cap T)
      BY <2>8, <2>9, <3>1, SumTakeOut
    <3>3. outside = lessOut /\ inside = f[x] + lessIn
      BY <3>1, <3>2
    <3>4. whole = f[x] + less /\ less = lessIn + lessOut
      BY <2>7, <2>11
    <3>5. lessIn \in Int /\ lessOut \in Int /\ f[x] \in Int
      BY <2>9, <2>10
    <3> HIDE DEF whole, inside, outside, less, lessIn, lessOut
    <3> QED BY <2>0, <3>3, <3>4, <3>5
  <2>13. CASE x \notin T
    <3>1. U \cap T = V \cap T /\ x \in U \ T /\ (U \ T) \ {x} = V \ T
      BY <2>13
    <3>2. SumFunctionOnSet(f, U \ T) = f[x] + SumFunctionOnSet(f, V \ T)
      BY <2>8, <2>9, <3>1, SumTakeOut
    <3>3. inside = lessIn /\ outside = f[x] + lessOut
      BY <3>1, <3>2
    <3>4. whole = f[x] + less /\ less = lessIn + lessOut
      BY <2>7, <2>11
    <3>5. lessIn \in Int /\ lessOut \in Int /\ f[x] \in Int
      BY <2>9, <2>10
    <3> HIDE DEF whole, inside, outside, less, lessIn, lessOut
    <3> QED BY <2>0, <3>3, <3>4, <3>5
  <2> QED BY <2>12, <2>13
<1>2. S \notin Bad /\ S \cap T = T
  BY <1>1
<1> QED BY <1>2

(* A part of what is nowhere negative is no more than the whole.           *)
LEMMA SumOfPart ==
  ASSUME NEW S, IsFiniteSet(S), NEW T \in SUBSET S, NEW f, \A x \in S : f[x] \in Nat
  PROVE  SumFunctionOnSet(f, T) <= SumFunctionOnSet(f, S)
<1>1. IsIntOn(f, S) /\ IsFiniteSet(T) /\ IsFiniteSet(S \ T)
  BY FS_Subset DEF IsIntOn
<1>2. SumFunctionOnSet(f, T) \in Nat /\ SumFunctionOnSet(f, S \ T) \in Nat
  BY <1>1, SumIsNat
<1> QED BY <1>1, <1>2, SumSplits

(* A factor can be taken out of a sum.                                     *)
LEMMA SumScaled ==
  ASSUME NEW S, IsFiniteSet(S), NEW c \in Int, NEW f, NEW h, IsIntOn(f, S),
         \A x \in S : h[x] = c * f[x]
  PROVE  SumFunctionOnSet(h, S) = c * SumFunctionOnSet(f, S)
<1> DEFINE Bad == {T \in SUBSET S : SumFunctionOnSet(h, T) # c * SumFunctionOnSet(f, T)}
<1>1. SUFFICES ASSUME Bad # {} PROVE FALSE
  OBVIOUS
<1>2. PICK T \in Bad : \A U \in SUBSET T : U # T => U \notin Bad
  <2>1. Bad \in SUBSET (SUBSET S)
    OBVIOUS
  <2> HIDE DEF Bad
  <2> QED BY <1>1, <2>1, MinimalSet
<1>3. IsFiniteSet(T) /\ T # {}
  <2>1. SumFunctionOnSet(h, {}) = 0 /\ SumFunctionOnSet(f, {}) = 0 /\ c * 0 = 0
    BY SumEmpty
  <2>2. SumFunctionOnSet(h, {}) = c * SumFunctionOnSet(f, {})
    BY <2>1
  <2> QED BY <2>2, FS_Subset
<1> DEFINE x == Pick(T)
           U == T \ {x}
<1>4. x \in T /\ U \in SUBSET T /\ U # T /\ U \notin Bad /\ U \in SUBSET S /\ IsFiniteSet(U)
  <2>1. x \in T
    BY <1>3, PickIsIn
  <2> HIDE DEF x
  <2>2. U \in SUBSET T /\ U # T
    BY <2>1
  <2> QED BY <1>2, <1>3, <2>1, <2>2, FS_Subset
<1> DEFINE whole == SumFunctionOnSet(f, T)
           less == SumFunctionOnSet(f, U)
<1>5. SumFunctionOnSet(h, U) = c * less
  BY <1>4
<1>6. SumFunctionOnSet(h, T) = h[x] + SumFunctionOnSet(h, U) /\ whole = f[x] + less
  BY <1>3, SumPicks
<1>7. less \in Int
  <2>1. IsIntOn(f, U)
    BY <1>4 DEF IsIntOn
  <2> QED BY <1>4, <2>1, SumIsInt
<1>8. f[x] \in Int /\ h[x] = c * f[x]
  BY <1>4 DEF IsIntOn
<1>9. SumFunctionOnSet(h, T) # c * whole
  OBVIOUS
<1>10. SumFunctionOnSet(h, T) = c * f[x] + c * less
  BY <1>5, <1>6, <1>8
<1> HIDE DEF whole, less, x, U, Bad
<1>11. c * (f[x] + less) = c * f[x] + c * less
  BY <1>7, <1>8
<1> QED BY <1>6, <1>9, <1>10, <1>11

(* A sum of ones counts.                                                   *)
LEMMA SumOfOnes ==
  ASSUME NEW S, IsFiniteSet(S), NEW f, \A x \in S : f[x] = 1
  PROVE  SumFunctionOnSet(f, S) = Cardinality(S)
<1> DEFINE Bad == {T \in SUBSET S : SumFunctionOnSet(f, T) # Cardinality(T)}
<1>1. SUFFICES ASSUME Bad # {} PROVE FALSE
  OBVIOUS
<1>2. PICK T \in Bad : \A U \in SUBSET T : U # T => U \notin Bad
  <2>1. Bad \in SUBSET (SUBSET S)
    OBVIOUS
  <2> HIDE DEF Bad
  <2> QED BY <1>1, <2>1, MinimalSet
<1>3. IsFiniteSet(T) /\ T # {}
  <2>1. SumFunctionOnSet(f, {}) = Cardinality({})
    BY SumEmpty, FS_EmptySet
  <2> QED BY <2>1, FS_Subset
<1> DEFINE x == Pick(T)
           U == T \ {x}
<1>4. x \in T /\ U \in SUBSET T /\ U # T /\ U \notin Bad /\ U \in SUBSET S /\ IsFiniteSet(U)
  <2>1. x \in T
    BY <1>3, PickIsIn
  <2> HIDE DEF x
  <2>2. U \in SUBSET T /\ U # T
    BY <2>1
  <2> QED BY <1>2, <1>3, <2>1, <2>2, FS_Subset
<1>5. SumFunctionOnSet(f, T) = f[x] + SumFunctionOnSet(f, U) /\ f[x] = 1
  BY <1>3, <1>4, SumPicks
<1>6. SumFunctionOnSet(f, U) = Cardinality(U)
  BY <1>4
<1>7. Cardinality(U) = Cardinality(T) - 1 /\ Cardinality(T) \in Nat
  BY <1>3, <1>4, FS_RemoveElement, FS_CardinalityType
<1> QED BY <1>5, <1>6, <1>7

(* A sum over a set that falls into parts is the sum of the sums of them.  *)
PartOf(S, part, l) == {x \in S : part[x] = l}

LEMMA SumByParts ==
  ASSUME NEW S, IsFiniteSet(S), NEW L, IsFiniteSet(L), NEW part, \A x \in S : part[x] \in L,
         NEW f, IsIntOn(f, S), NEW g,
         \A l \in L : g[l] = SumFunctionOnSet(f, PartOf(S, part, l))
  PROVE  SumFunctionOnSet(g, L) = SumFunctionOnSet(f, S)
<1> DEFINE Of(T) == {x \in S : part[x] \in T}
           Bad == {T \in SUBSET L : SumFunctionOnSet(g, T) # SumFunctionOnSet(f, Of(T))}
<1>0. Of(L) = S /\ L \in SUBSET L
  OBVIOUS
<1>1. SUFFICES ASSUME Bad # {} PROVE FALSE
  BY <1>0
<1>2. PICK T \in Bad : \A U \in SUBSET T : U # T => U \notin Bad
  <2>1. Bad \in SUBSET (SUBSET L)
    OBVIOUS
  <2> HIDE DEF Bad
  <2> QED BY <1>1, <2>1, MinimalSet
<1>3. IsFiniteSet(T) /\ T # {}
  <2>1. SumFunctionOnSet(g, {}) = 0 /\ SumFunctionOnSet(f, {}) = 0 /\ Of({}) = {}
    BY SumEmpty
  <2>2. SumFunctionOnSet(g, {}) = SumFunctionOnSet(f, Of({}))
    BY <2>1
  <2> QED BY <2>2, FS_Subset
<1> DEFINE x == Pick(T)
           U == T \ {x}
           OfX == PartOf(S, part, x)
<1>4. x \in T /\ U \in SUBSET T /\ U # T /\ U \notin Bad /\ U \in SUBSET L /\ x \in L
  <2>1. x \in T
    BY <1>3, PickIsIn
  <2> HIDE DEF x
  <2>2. U \in SUBSET T /\ U # T
    BY <2>1
  <2> QED BY <1>2, <1>3, <2>1, <2>2, FS_Subset
<1>5. SumFunctionOnSet(g, U) = SumFunctionOnSet(f, Of(U))
  BY <1>4
<1>6. SumFunctionOnSet(g, T) = g[x] + SumFunctionOnSet(g, U)
  BY <1>3, SumPicks
<1>7. g[x] = SumFunctionOnSet(f, OfX)
  BY <1>4
<1>8. Of(T) \in SUBSET S /\ Of(U) \in SUBSET Of(T) /\ Of(T) \ Of(U) = OfX
  <2> HIDE DEF x
  <2> QED BY <1>4 DEF PartOf
<1>9. SumFunctionOnSet(f, Of(T)) = SumFunctionOnSet(f, Of(U)) + SumFunctionOnSet(f, Of(T) \ Of(U))
  <2> HIDE DEF Of
  <2>1. IsFiniteSet(Of(T)) /\ IsIntOn(f, Of(T))
    BY <1>8, FS_Subset DEF IsIntOn
  <2> QED BY <1>8, <2>1, SumSplits
<1>10. SumFunctionOnSet(f, Of(U)) \in Int /\ SumFunctionOnSet(f, Of(T) \ Of(U)) \in Int
  <2>1. Of(U) \in SUBSET S /\ Of(T) \ Of(U) \in SUBSET S
    BY <1>8
  <2> HIDE DEF Of
  <2>2. IsFiniteSet(Of(U)) /\ IsIntOn(f, Of(U)) /\ IsFiniteSet(Of(T) \ Of(U)) /\ IsIntOn(f, Of(T) \ Of(U))
    BY <2>1, FS_Subset DEF IsIntOn
  <2> QED BY <2>2, SumIsInt
<1>11. SumFunctionOnSet(g, T) # SumFunctionOnSet(f, Of(T))
  OBVIOUS
<1> DEFINE ofT == Of(T)
           ofU == Of(U)
<1>12. /\ SumFunctionOnSet(f, ofT) = SumFunctionOnSet(f, ofU) + SumFunctionOnSet(f, OfX)
       /\ SumFunctionOnSet(f, ofU) \in Int /\ SumFunctionOnSet(f, OfX) \in Int
       /\ SumFunctionOnSet(g, U) = SumFunctionOnSet(f, ofU)
       /\ SumFunctionOnSet(g, T) # SumFunctionOnSet(f, ofT)
  <2> HIDE DEF x, U, Of, OfX, Bad
  <2> QED BY <1>5, <1>8, <1>9, <1>10, <1>11
<1> HIDE DEF ofT, ofU, OfX, U, x
<1> QED BY <1>6, <1>7, <1>12
=============================================================================
