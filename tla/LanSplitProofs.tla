--------------------------- MODULE LanSplitProofs ---------------------------
(***************************************************************************)
(* The invariants of LanSplit, for every set of interfaces and every       *)
(* amount of traffic.  A tick shares bytes out by division, so the first   *)
(* half is arithmetic: what one tick's LAN columns add up to, from above   *)
(* (SharesWithin) and from below (SharesKept).  The second half is the     *)
(* inductive invariant: how far the rows may lag behind the counters at    *)
(* each of the two points of a tick.                                       *)
(***************************************************************************)
EXTENDS LanSplit, SumProofs

USE LanSplitAssumption DEF LanSplitAssumption

LEMMA Division ==
  ASSUME NEW n \in Nat, NEW s \in Nat \ {0}
  PROVE  /\ n \div s \in Nat /\ n % s \in Nat
         /\ n = s * (n \div s) + (n % s) /\ n % s < s
  OBVIOUS

(* What a product of the share may be: the quotient, or one less if it is  *)
(* whole.                                                                  *)
LEMMA ShareBounds ==
  ASSUME NEW bytes \in Nat, NEW p \in Nat, NEW sum \in Nat \ {0},
         NEW s \in Share(bytes, p, sum)
  PROVE  s \in Nat /\ sum * s <= bytes * p /\ sum * s >= bytes * p - sum
<1> DEFINE n == bytes * p
           exact == n \div sum
<1>1. n \in Nat
  OBVIOUS
<1>2. s = exact \/ (n % sum = 0 /\ exact > 0 /\ s = exact - 1)
  BY DEF Share
<1> HIDE DEF n
<1>3. exact \in Nat /\ n % sum \in Nat /\ n = sum * exact + (n % sum) /\ n % sum < sum
  BY <1>1, Division
<1> HIDE DEF exact
<1>4. CASE s = exact
  BY <1>1, <1>3, <1>4 DEF n
<1>5. CASE n % sum = 0 /\ exact > 0 /\ s = exact - 1
  <2>1. sum * (exact - 1) = sum * exact - sum
    BY <1>3
  <2> QED BY <1>1, <1>3, <1>5, <2>1 DEF n
<1> QED BY <1>2, <1>4, <1>5

-----------------------------------------------------------------------------
(* One tick: totals d, LAN bytes to be shared out, and the LAN columns l.  *)

Shared == Iface \ Forced

IsTick(d, bytes, l) ==
  d \in [Iface -> Nat] /\ bytes \in Nat /\ l \in Allocations(d, bytes)

TickTotal(d) == SumFunctionOnSet(d, Iface)

LEMMA SharedIsFinite == IsFiniteSet(Shared) /\ IsFiniteSet(Forced) /\ Shared \subseteq Iface
  BY FS_Subset DEF Shared

(* The sum that LanOf divides by.                                          *)
LEMMA TickTotalIsSum ==
  ASSUME NEW d \in [Iface -> Nat]
  PROVE  /\ SumFunction(d) = TickTotal(d) /\ TickTotal(d) \in Nat
         /\ \A i \in Iface : d[i] <= TickTotal(d)
<1>1. DOMAIN d = Iface
  OBVIOUS
<1>2. SumFunction(d) = TickTotal(d)
  BY <1>1 DEF SumFunction, TickTotal
<1>3. TickTotal(d) \in Nat
  BY SumIsNat DEF TickTotal
<1>4. ASSUME NEW i \in Iface PROVE d[i] <= TickTotal(d)
  <2>1. IsIntOn(d, Iface) /\ IsFiniteSet(Iface \ {i}) /\ \A j \in Iface \ {i} : d[j] \in Nat
    BY FS_RemoveElement DEF IsIntOn
  <2>2. TickTotal(d) = d[i] + SumFunctionOnSet(d, Iface \ {i})
    BY <2>1, SumTakeOut DEF TickTotal
  <2>3. SumFunctionOnSet(d, Iface \ {i}) \in Nat
    BY <2>1, SumIsNat
  <2> QED BY <2>2, <2>3
<1> QED BY <1>2, <1>3, <1>4

(* A row's LAN: all of it if forced; else its share, capped.               *)
LEMMA RowBounds ==
  ASSUME NEW d, NEW bytes, NEW l, IsTick(d, bytes, l), NEW i \in Iface
  PROVE  /\ l[i] \in Nat /\ l[i] <= d[i]
         /\ i \in Forced => l[i] = d[i]
         /\ i \notin Forced => TickTotal(d) * l[i] <= bytes * d[i]
         /\ i \notin Forced /\ bytes <= TickTotal(d) =>
              TickTotal(d) * l[i] >= bytes * d[i] - TickTotal(d)
         /\ i \notin Forced /\ bytes > TickTotal(d) => l[i] = d[i]
<1> DEFINE sum == TickTotal(d)
           p == d[i]
<1>1. p \in Nat /\ bytes \in Nat /\ sum \in Nat /\ p <= sum /\ SumFunction(d) = sum
  BY TickTotalIsSum DEF IsTick
<1>2. l[i] \in LanOf(i, d, bytes)
  BY DEF IsTick, Allocations
<1> HIDE DEF sum, p
<1>3. CASE i \in Forced
  BY <1>1, <1>2, <1>3 DEF LanOf, p
<1>4. CASE i \notin Forced /\ p = 0
  <2>1. l[i] = 0
    BY <1>2, <1>4 DEF LanOf, p
  <2>2. sum * 0 = 0 /\ bytes * 0 = 0
    BY <1>1
  <2> QED BY <1>1, <1>4, <2>1, <2>2 DEF sum, p
<1>5. CASE i \notin Forced /\ p # 0
  <2>1. PICK s \in Share(bytes, p, sum) : l[i] = Smaller(s, p)
    BY <1>1, <1>2, <1>5 DEF LanOf, p
  <2>2. sum \in Nat \ {0}
    BY <1>1, <1>5
  <2>3. s \in Nat /\ sum * s <= bytes * p /\ sum * s >= bytes * p - sum
    BY <1>1, <2>2, ShareBounds
  <2>4. l[i] \in Nat /\ l[i] <= p /\ l[i] <= s /\ (l[i] = s \/ (l[i] = p /\ p < s))
    BY <1>1, <2>1, <2>3 DEF Smaller
  <2>5. sum * l[i] <= bytes * p
    <3>1. sum * l[i] <= sum * s
      BY <2>2, <2>3, <2>4
    <3> QED BY <1>1, <2>3, <2>4, <3>1
  <2>6. ASSUME bytes <= sum PROVE sum * l[i] >= bytes * p - sum
    <3>1. CASE l[i] = s
      BY <2>3, <3>1
    <3>2. CASE l[i] = p
      <4>1. sum * p >= bytes * p
        BY <1>1, <2>6
      <4> QED BY <1>1, <3>2, <4>1
    <3> QED BY <2>4, <3>1, <3>2
  <2>7. ASSUME bytes > sum PROVE l[i] = p
    <3>1. SUFFICES ASSUME s < p PROVE FALSE
      BY <1>1, <2>3, <2>4
    <3>2. sum * s <= sum * (p - 1)
      BY <1>1, <2>3, <3>1
    <3>3. sum * (p - 1) = sum * p - sum
      BY <1>1
    <3>4. bytes * p >= (sum + 1) * p
      BY <1>1, <2>7
    <3>5. (sum + 1) * p = sum * p + p /\ p >= 1
      BY <1>1, <1>5
    <3> QED BY <1>1, <2>3, <3>2, <3>3, <3>4, <3>5
  <2> QED BY <1>5, <2>4, <2>5, <2>6, <2>7 DEF sum, p
<1> QED BY <1>3, <1>4, <1>5

(* What the rows that are not forced get is no more than what there is.    *)
LEMMA SharesWithin ==
  ASSUME NEW d, NEW bytes, NEW l, IsTick(d, bytes, l)
  PROVE  SumFunctionOnSet(l, Shared) <= bytes /\ SumFunctionOnSet(l, Shared) \in Nat
<1> DEFINE sum == TickTotal(d)
           ofD == SumFunctionOnSet(d, Shared)
           ofL == SumFunctionOnSet(l, Shared)
           scaledD == [i \in Shared |-> bytes * d[i]]
           scaledL == [i \in Shared |-> sum * l[i]]
<1>1. d \in [Iface -> Nat] /\ bytes \in Nat /\ sum \in Nat
  BY TickTotalIsSum DEF IsTick
<1>2. \A i \in Shared : l[i] \in Nat /\ d[i] \in Nat /\ l[i] <= d[i]
  BY <1>1, RowBounds DEF Shared
<1>3. ofL \in Nat /\ ofD \in Nat /\ ofD <= sum
  <2>1. \A i \in Iface : d[i] \in Nat
    BY <1>1
  <2> QED BY <1>2, <2>1, SharedIsFinite, SumIsNat, SumOfPart DEF TickTotal
<1>4. IsIntOn(l, Shared) /\ IsIntOn(d, Shared)
  BY <1>2 DEF IsIntOn
<1>5. \A i \in Shared : sum * l[i] <= bytes * d[i] /\ sum * l[i] \in Int /\ bytes * d[i] \in Int
  <2> SUFFICES ASSUME NEW i \in Shared
               PROVE  sum * l[i] <= bytes * d[i] /\ sum * l[i] \in Int /\ bytes * d[i] \in Int
    OBVIOUS
  <2>1. l[i] \in Nat /\ d[i] \in Nat
    BY <1>2
  <2>2. sum * l[i] <= bytes * d[i]
    BY RowBounds DEF Shared
  <2> HIDE DEF sum
  <2> QED BY <1>1, <2>1, <2>2
<1>6. SumFunctionOnSet(scaledL, Shared) <= SumFunctionOnSet(scaledD, Shared)
  <2>1. IsIntOn(scaledL, Shared) /\ IsIntOn(scaledD, Shared)
        /\ \A i \in Shared : scaledL[i] <= scaledD[i]
    BY <1>5 DEF IsIntOn
  <2> HIDE DEF scaledL, scaledD
  <2> QED BY <2>1, SharedIsFinite, SumMonotone
<1>7. SumFunctionOnSet(scaledL, Shared) = sum * ofL
  <2>1. sum \in Int /\ \A i \in Shared : scaledL[i] = sum * l[i]
    BY <1>1
  <2> HIDE DEF scaledL, sum
  <2> QED BY <1>4, <2>1, SharedIsFinite, SumScaled
<1>8. SumFunctionOnSet(scaledD, Shared) = bytes * ofD
  <2>1. bytes \in Int /\ \A i \in Shared : scaledD[i] = bytes * d[i]
    BY <1>1
  <2> HIDE DEF scaledD
  <2> QED BY <1>4, <2>1, SharedIsFinite, SumScaled
<1>9. ofL <= ofD
  BY <1>2, <1>4, SharedIsFinite, SumMonotone
<1> HIDE DEF sum, ofL, ofD
<1>10. sum * ofL <= bytes * ofD
  BY <1>6, <1>7, <1>8
<1>11. CASE sum = 0
  BY <1>1, <1>3, <1>9, <1>11 DEF ofL
<1>12. CASE sum # 0
  <2>1. bytes * ofD <= bytes * sum /\ bytes * sum = sum * bytes
    BY <1>1, <1>3
  <2>2. sum * ofL <= sum * bytes
    BY <1>1, <1>3, <1>10, <2>1
  <2>3. ofL <= bytes
    BY <1>1, <1>3, <1>12, <2>2
  <2> QED BY <1>3, <2>3 DEF ofL
<1> QED BY <1>11, <1>12

(* The LAN bytes are all in the shares and the forced totals, but for what *)
(* exceeds the traffic of the tick and a byte per row.                     *)
LEMMA SharesKept ==
  ASSUME NEW d, NEW bytes, NEW l, IsTick(d, bytes, l)
  PROVE  LET kept == SumFunctionOnSet(l, Shared) + SumFunctionOnSet(d, Forced)
             rows_ == IF TickTotal(d) = 0 THEN 0 ELSE Cardinality(Shared)
         IN  /\ kept \in Nat
             /\ bytes > TickTotal(d) => kept >= TickTotal(d)
             /\ bytes <= TickTotal(d) => kept >= bytes - rows_
<1> DEFINE sum == TickTotal(d)
           ofD == SumFunctionOnSet(d, Shared)
           ofL == SumFunctionOnSet(l, Shared)
           forced == SumFunctionOnSet(d, Forced)
           card == Cardinality(Shared)
           one == [i \in Shared |-> 1]
           most == [i \in Shared |-> l[i] + 1]
           scaledD == [i \in Shared |-> bytes * d[i]]
           scaledL == [i \in Shared |-> sum * most[i]]
<1>1. d \in [Iface -> Nat] /\ bytes \in Nat /\ sum \in Nat
  BY TickTotalIsSum DEF IsTick
<1>2. \A i \in Shared : l[i] \in Nat /\ d[i] \in Nat /\ l[i] <= d[i]
  BY <1>1, RowBounds DEF Shared
<1>3. ofL \in Nat /\ ofD \in Nat /\ forced \in Nat /\ card \in Nat /\ sum = ofD + forced
  <2>1. IsIntOn(d, Iface) /\ Iface \ Shared = Forced /\ \A i \in Forced : d[i] \in Nat
    BY <1>1 DEF IsIntOn, Shared
  <2>2. sum = ofD + SumFunctionOnSet(d, Iface \ Shared)
    BY <2>1, SharedIsFinite, SumSplits DEF TickTotal
  <2> QED BY <1>2, <2>1, <2>2, SharedIsFinite, SumIsNat, FS_CardinalityType
<1>4. IsIntOn(l, Shared) /\ IsIntOn(d, Shared) /\ IsIntOn(one, Shared) /\ IsIntOn(most, Shared)
  BY <1>2 DEF IsIntOn
<1>5. SumFunctionOnSet(most, Shared) = ofL + card
  <2>1. SumFunctionOnSet(one, Shared) = card
    BY SharedIsFinite, SumOfOnes
  <2>2. \A i \in Shared : most[i] = l[i] + one[i]
    OBVIOUS
  <2> HIDE DEF one, most
  <2> QED BY <1>4, <2>1, <2>2, SharedIsFinite, SumOfPlus
<1>6. ASSUME bytes > sum PROVE ofL = ofD
  <2>1. \A i \in Shared : l[i] = d[i]
    BY <1>6, RowBounds DEF Shared
  <2> QED BY <1>4, <2>1, SharedIsFinite, SumSame
<1>7. ASSUME bytes <= sum, sum # 0 PROVE ofL + forced >= bytes - card
  <2>1. \A i \in Shared : /\ bytes * d[i] <= sum * most[i]
                          /\ bytes * d[i] \in Int /\ sum * most[i] \in Int
    <3> SUFFICES ASSUME NEW i \in Shared
                 PROVE  /\ bytes * d[i] <= sum * most[i]
                        /\ bytes * d[i] \in Int /\ sum * most[i] \in Int
      OBVIOUS
    <3>1. l[i] \in Nat /\ d[i] \in Nat /\ most[i] = l[i] + 1
      BY <1>2
    <3>2. sum * l[i] >= bytes * d[i] - sum
      BY <1>7, RowBounds DEF Shared
    <3> HIDE DEF sum, most
    <3>3. sum * (l[i] + 1) = sum * l[i] + sum
      BY <1>1, <3>1
    <3> QED BY <1>1, <3>1, <3>2, <3>3
  <2>2. SumFunctionOnSet(scaledD, Shared) <= SumFunctionOnSet(scaledL, Shared)
    <3>1. IsIntOn(scaledL, Shared) /\ IsIntOn(scaledD, Shared)
          /\ \A i \in Shared : scaledD[i] <= scaledL[i]
      BY <2>1 DEF IsIntOn
    <3> HIDE DEF scaledL, scaledD
    <3> QED BY <3>1, SharedIsFinite, SumMonotone
  <2>3. SumFunctionOnSet(scaledL, Shared) = sum * (ofL + card)
    <3>1. sum \in Int /\ \A i \in Shared : scaledL[i] = sum * most[i]
      BY <1>1
    <3> HIDE DEF scaledL, sum, most
    <3> QED BY <1>4, <1>5, <3>1, SharedIsFinite, SumScaled
  <2>4. SumFunctionOnSet(scaledD, Shared) = bytes * ofD
    <3>1. bytes \in Int /\ \A i \in Shared : scaledD[i] = bytes * d[i]
      BY <1>1
    <3> HIDE DEF scaledD
    <3> QED BY <1>4, <3>1, SharedIsFinite, SumScaled
  <2> HIDE DEF sum, ofL, ofD, forced, card
  <2>5. bytes * ofD <= sum * (ofL + card)
    BY <2>2, <2>3, <2>4
  <2>6. bytes * forced <= sum * forced
    BY <1>1, <1>3, <1>7
  <2>7. bytes * sum = bytes * ofD + bytes * forced
    BY <1>1, <1>3
  <2>8. sum * (ofL + card) + sum * forced = sum * (ofL + card + forced)
    BY <1>1, <1>3
  <2>9. sum * bytes <= sum * (ofL + card + forced)
    BY <1>1, <1>3, <2>5, <2>6, <2>7, <2>8
  <2>10. bytes <= ofL + card + forced
    BY <1>1, <1>3, <1>7, <2>9
  <2> QED BY <1>1, <1>3, <2>10
<1> HIDE DEF sum, ofL, ofD, forced, card
<1>8. ofL + forced \in Nat /\ (bytes > sum => ofL + forced >= sum)
  BY <1>1, <1>3, <1>6
<1>9. bytes <= sum => ofL + forced >= bytes - (IF sum = 0 THEN 0 ELSE card)
  BY <1>1, <1>3, <1>7
<1> QED BY <1>8, <1>9 DEF sum, ofL, forced, card

-----------------------------------------------------------------------------
(* The inductive invariant.                                                *)

TypeOK ==
  /\ total \in [Iface -> Nat] /\ read \in [Iface -> Nat] /\ prev \in [Iface -> Nat]
  /\ rows \in [Iface -> [total : Nat, lan : Nat]]
  /\ lan \in Nat /\ prevLan \in Nat /\ foreign \in Nat /\ wan \in Nat
  /\ wanRead \in Nat /\ lanRead \in Nat /\ raced \in Nat /\ racedEver \in Nat
  /\ ticks \in Nat /\ pc \in {"asleep", "read"} /\ flown \in Nat

(* Counters only grow, and a tick reads and writes them in order.          *)
InStep ==
  /\ \A i \in Iface : prev[i] <= read[i] /\ read[i] <= total[i] /\ rows[i].total = prev[i]
  /\ \A i \in Forced : rows[i].lan = rows[i].total
  /\ prevLan <= lan /\ lanRead <= lan /\ raced <= racedEver
  /\ pc = "asleep" => read = prev /\ prevLan = lanRead + raced

LanOfShared == SumFunctionOnSet([i \in Iface |-> rows[i].lan], Shared)
Kept == LanOfShared + SumFunctionOnSet([i \in Iface |-> rows[i].total], Forced)

(* LanKept, and what the totals that are yet to be written must make up    *)
(* for: the LAN bytes since the last write, up to the last read of         *)
(* /proc/net/dev and up to now.                                            *)
KeptSoFar ==
  LET due == prevLan - racedEver - foreign - ticks * Cardinality(Shared)
      since == prevLan - raced
      written == SumFunctionOnSet(prev, Iface)
  IN  /\ Kept >= due
      /\ Kept + SumFunctionOnSet(read, Iface) - written >= due + lanRead - since
      /\ Kept + SumFunctionOnSet(total, Iface) - written >= due + lan - since

(* The forced interfaces whose LAN traffic nftables counts again.          *)
Claimed == Forced \cap NftSees

(* On the interfaces that are not forced, the totals cover the WAN bytes   *)
(* and the LAN bytes nftables counted on recorded interfaces but those     *)
(* claimed already, and the rows have no more LAN than it counted.         *)
WanSoFar ==
  /\ LanOfShared <= prevLan
  /\ SumFunctionOnSet(total, Shared) + SumFunctionOnSet(total, Claimed) >= wan + lan - foreign
  /\ SumFunctionOnSet(read, Shared) + SumFunctionOnSet(read, Claimed) >= wanRead + lanRead - foreign

(* No interface has more LAN than total: a tick caps what it shares out.   *)
LanWithinTotal == \A i \in Iface : rows[i].lan <= rows[i].total

Inv == TypeOK /\ InStep /\ LanWithinTotal /\ KeptSoFar

LEMMA SumsAreNat ==
  ASSUME TypeOK, InStep
  PROVE  /\ LanOfShared \in Nat /\ Kept \in Nat /\ Cardinality(Shared) \in Nat
         /\ \A f \in {total, read, prev} :
              /\ SumFunctionOnSet(f, Iface) \in Nat /\ SumFunctionOnSet(f, Shared) \in Nat
              /\ SumFunctionOnSet(f, Claimed) \in Nat
<1>1. ASSUME NEW f \in [Iface -> Nat], NEW S \in SUBSET Iface
      PROVE  SumFunctionOnSet(f, S) \in Nat
  <2>1. IsFiniteSet(S) /\ \A i \in S : f[i] \in Nat
    BY <1>1, FS_Subset
  <2> QED BY <2>1, SumIsNat
<1>2. [i \in Iface |-> rows[i].lan] \in [Iface -> Nat] /\ [i \in Iface |-> rows[i].total] \in [Iface -> Nat]
  BY DEF TypeOK
<1>3. /\ Shared \in SUBSET Iface /\ Forced \in SUBSET Iface /\ Iface \in SUBSET Iface
      /\ Claimed \in SUBSET Iface
  BY SharedIsFinite DEF Claimed
<1>4. LanOfShared \in Nat
  BY <1>1, <1>2, <1>3 DEF LanOfShared
<1>5. Kept \in Nat
  <2>1. SumFunctionOnSet([i \in Iface |-> rows[i].total], Forced) \in Nat
    BY <1>1, <1>2, <1>3
  <2> QED BY <1>4, <2>1 DEF Kept
<1>6. \A f \in {total, read, prev} : f \in [Iface -> Nat]
  BY DEF TypeOK
<1> QED BY <1>1, <1>3, <1>4, <1>5, <1>6, SharedIsFinite, FS_CardinalityType

(* What a byte that flows adds to the totals.                              *)
LEMMA FlowSums ==
  ASSUME TypeOK, NEW i \in Iface \cup Excluded, NEW b \in Nat, Carry(i, b)
  PROVE  /\ total' \in [Iface -> Nat] /\ \A j \in Iface : total[j] <= total'[j]
         /\ SumFunctionOnSet(total', Iface) =
              SumFunctionOnSet(total, Iface) + (IF i \in Iface THEN b ELSE 0)
         /\ SumFunctionOnSet(total', Shared) =
              SumFunctionOnSet(total, Shared) + (IF i \in Shared THEN b ELSE 0)
         /\ SumFunctionOnSet(total', Claimed) =
              SumFunctionOnSet(total, Claimed) + (IF i \in Claimed THEN b ELSE 0)
<1>1. total \in [Iface -> Nat] /\ total' = IF i \in Iface THEN [total EXCEPT ![i] = @ + b] ELSE total
  BY DEF TypeOK, Carry
<1>2. total' \in [Iface -> Nat] /\ \A j \in Iface : total[j] <= total'[j]
  BY <1>1
<1>3. ASSUME NEW S \in SUBSET Iface
      PROVE  SumFunctionOnSet(total', S) = SumFunctionOnSet(total, S) + (IF i \in S THEN b ELSE 0)
  <2>1. IsFiniteSet(S) /\ IsIntOn(total, S) /\ IsIntOn(total', S)
    BY <1>1, <1>2, FS_Subset DEF IsIntOn
  <2>2. SumFunctionOnSet(total, S) \in Int
    BY <2>1, SumIsInt
  <2>3. CASE i \in S
    <3>1. \A j \in S \ {i} : total[j] = total'[j]
      BY <1>1, <2>3
    <3>2. SumFunctionOnSet(total', S) = SumFunctionOnSet(total, S) - total[i] + total'[i]
      BY <2>1, <2>3, <3>1, SumChange
    <3>3. total'[i] = total[i] + b /\ total[i] \in Nat
      BY <1>1, <2>3
    <3> QED BY <2>2, <2>3, <3>2, <3>3
  <2>4. CASE i \notin S
    <3>1. \A j \in S : total[j] = total'[j]
      BY <1>1, <2>4
    <3>2. SumFunctionOnSet(total', S) = SumFunctionOnSet(total, S)
      BY <2>1, <3>1, SumSame
    <3> QED BY <2>2, <2>4, <3>2
  <2> QED BY <2>3, <2>4
<1>4. Claimed \in SUBSET Iface
  BY DEF Claimed
<1> QED BY <1>2, <1>3, <1>4, SharedIsFinite

(* What a write adds to the rows.                                          *)
LEMMA WriteSums ==
  ASSUME TypeOK, InStep, WriteRows
  PROVE  \E d, l :
           /\ d = [i \in Iface |-> read[i] - prev[i]]
           /\ IsTick(d, lan - prevLan, l)
           /\ rows' = [i \in Iface |-> [total |-> rows[i].total + d[i], lan |-> rows[i].lan + l[i]]]
           /\ TickTotal(d) = SumFunctionOnSet(read, Iface) - SumFunctionOnSet(prev, Iface)
           /\ LanOfShared' = LanOfShared + SumFunctionOnSet(l, Shared)
           /\ Kept' = Kept + SumFunctionOnSet(l, Shared) + SumFunctionOnSet(d, Forced)
<1> DEFINE d == [i \in Iface |-> read[i] - prev[i]]
           ofLan == [i \in Iface |-> rows[i].lan]
           ofTotal == [i \in Iface |-> rows[i].total]
<1>1. d \in [Iface -> Nat] /\ lan - prevLan \in Nat
  BY DEF TypeOK, InStep
<1>2. PICK l \in Allocations(d, lan - prevLan) :
        rows' = [i \in Iface |-> [total |-> rows[i].total + d[i], lan |-> rows[i].lan + l[i]]]
  BY DEF WriteRows
<1>3. IsTick(d, lan - prevLan, l)
  BY <1>1, <1>2 DEF IsTick
<1>4. \A i \in Iface : l[i] \in Nat
  BY <1>3, RowBounds
<1>5. \A i \in Iface : /\ ofLan[i] \in Int /\ ofLan'[i] = ofLan[i] + l[i]
                       /\ ofTotal[i] \in Int /\ ofTotal'[i] = ofTotal[i] + d[i]
  BY <1>1, <1>2, <1>4 DEF TypeOK
<1>6. \A i \in Iface : read[i] = prev[i] + d[i] /\ prev[i] \in Int /\ d[i] \in Int
  BY <1>1 DEF TypeOK
<1> HIDE DEF d, ofLan, ofTotal
<1>7. IsIntOn(prev, Iface) /\ IsIntOn(d, Iface) /\ IsIntOn(ofLan, Shared) /\ IsIntOn(l, Shared)
      /\ IsIntOn(ofTotal, Forced) /\ IsIntOn(d, Forced)
  BY <1>4, <1>5, <1>6, SharedIsFinite DEF IsIntOn
<1>8. SumFunctionOnSet(read, Iface) = SumFunctionOnSet(prev, Iface) + SumFunctionOnSet(d, Iface)
      /\ SumFunctionOnSet(prev, Iface) \in Int /\ SumFunctionOnSet(d, Iface) \in Int
  BY <1>6, <1>7, SumOfPlus, SumIsInt
<1>9. SumFunctionOnSet(ofLan', Shared) = SumFunctionOnSet(ofLan, Shared) + SumFunctionOnSet(l, Shared)
      /\ SumFunctionOnSet(ofLan, Shared) \in Int /\ SumFunctionOnSet(l, Shared) \in Int
  BY <1>5, <1>7, SharedIsFinite, SumOfPlus, SumIsInt
<1>10. SumFunctionOnSet(ofTotal', Forced) = SumFunctionOnSet(ofTotal, Forced) + SumFunctionOnSet(d, Forced)
       /\ SumFunctionOnSet(ofTotal, Forced) \in Int /\ SumFunctionOnSet(d, Forced) \in Int
  BY <1>5, <1>7, SharedIsFinite, SumOfPlus, SumIsInt
<1>11. LanOfShared = SumFunctionOnSet(ofLan, Shared)
       /\ LanOfShared' = SumFunctionOnSet(ofLan', Shared)
  BY DEF LanOfShared, ofLan, Shared
<1>12. Kept = LanOfShared + SumFunctionOnSet(ofTotal, Forced)
       /\ Kept' = LanOfShared' + SumFunctionOnSet(ofTotal', Forced)
  BY DEF Kept, ofTotal
<1>13. Kept' = Kept + SumFunctionOnSet(l, Shared) + SumFunctionOnSet(d, Forced)
  BY <1>9, <1>10, <1>11, <1>12
<1>14. TickTotal(d) = SumFunctionOnSet(read, Iface) - SumFunctionOnSet(prev, Iface)
  BY <1>8 DEF TickTotal
<1>15. LanOfShared' = LanOfShared + SumFunctionOnSet(l, Shared)
  BY <1>9, <1>11
<1> QED
  <2>1. d = [i \in Iface |-> read[i] - prev[i]]
    BY DEF d
  <2> QED BY <1>2, <1>3, <1>13, <1>14, <1>15, <2>1

LEMMA InitInv == Init => Inv /\ WanSoFar
<1> SUFFICES ASSUME Init PROVE Inv /\ WanSoFar
  OBVIOUS
<1>1. TypeOK /\ InStep /\ LanWithinTotal
  BY DEF Init, TypeOK, InStep, LanWithinTotal
<1>2. LanOfShared = 0
  <2>1. \A i \in Shared : [j \in Iface |-> rows[j].lan][i] = 0
    BY DEF Init, Shared
  <2> QED BY <2>1, SharedIsFinite, SumOfZeros DEF LanOfShared
<1>3. Kept = 0
  <2>1. \A i \in Forced : [j \in Iface |-> rows[j].total][i] = 0
    BY DEF Init
  <2>2. SumFunctionOnSet([j \in Iface |-> rows[j].total], Forced) = 0
    BY <2>1, SharedIsFinite, SumOfZeros
  <2> QED BY <1>2, <2>2 DEF Kept
<1>4. /\ SumFunctionOnSet(total, Iface) = 0 /\ SumFunctionOnSet(total, Shared) = 0
      /\ SumFunctionOnSet(total, Claimed) = 0 /\ SumFunctionOnSet(read, Claimed) = 0
      /\ SumFunctionOnSet(read, Iface) = 0 /\ SumFunctionOnSet(read, Shared) = 0
      /\ SumFunctionOnSet(prev, Iface) = 0
  <2>1. \A i \in Iface : total[i] = 0 /\ read[i] = 0 /\ prev[i] = 0
    BY DEF Init
  <2>2. \A i \in Shared \cup Claimed : total[i] = 0 /\ read[i] = 0
    BY <2>1, SharedIsFinite DEF Claimed
  <2>3. IsFiniteSet(Claimed)
    BY FS_Subset DEF Claimed
  <2> QED BY <2>1, <2>2, <2>3, SharedIsFinite, SumOfZeros
<1>5. Cardinality(Shared) \in Nat
  BY SharedIsFinite, FS_CardinalityType
<1> QED BY <1>1, <1>2, <1>3, <1>4, <1>5 DEF Init, Inv, KeptSoFar, WanSoFar

(* One step, action by action.                                             *)
LEMMA FlowKeepsInv ==
  ASSUME Inv, NEW i \in Iface \cup Excluded, NEW b \in 1 .. MaxFlow,
         FlowLan(i, b) \/ FlowWan(i, b)
  PROVE  Inv' /\ (WanSoFar => WanSoFar')
<1> USE DEF Inv
<1>1. b \in Nat /\ Carry(i, b) /\ UNCHANGED daemon /\ flown' = flown + b
  BY DEF FlowLan, FlowWan, Carry
<1>2. /\ total' \in [Iface -> Nat] /\ \A j \in Iface : total[j] <= total'[j]
      /\ SumFunctionOnSet(total', Iface) =
           SumFunctionOnSet(total, Iface) + (IF i \in Iface THEN b ELSE 0)
      /\ SumFunctionOnSet(total', Shared) =
           SumFunctionOnSet(total, Shared) + (IF i \in Shared THEN b ELSE 0)
      /\ SumFunctionOnSet(total', Claimed) =
           SumFunctionOnSet(total, Claimed) + (IF i \in Claimed THEN b ELSE 0)
  BY <1>1, FlowSums
<1>3. \/ lan' = lan /\ foreign' = foreign
      \/ i \in Iface /\ i \in NftSees /\ lan' = lan + b /\ foreign' = foreign
      \/ i \notin Iface /\ lan' = lan + b /\ foreign' = foreign + b
  BY DEF FlowLan, FlowWan
<1>4. wan' = wan \/ (wan' = wan + b /\ lan' = lan /\ foreign' = foreign /\ i \in Shared)
  BY DEF FlowLan, FlowWan, Shared
<1>5. UNCHANGED <<LanOfShared, Kept>>
  BY <1>1 DEF daemon, LanOfShared, Kept
<1>6. TypeOK'
  BY <1>1, <1>2, <1>3, <1>4 DEF TypeOK, daemon
<1>7. InStep' /\ LanWithinTotal'
  <2>1. \A j \in Iface : read[j] <= total'[j]
    <3> TAKE j \in Iface
    <3>1. read[j] <= total[j] /\ total[j] <= total'[j] /\ read[j] \in Nat /\ total[j] \in Nat /\ total'[j] \in Nat
      BY <1>2 DEF InStep, TypeOK
    <3> QED BY <3>1
  <2>2. lan <= lan' /\ lan \in Nat /\ lan' \in Nat
    BY <1>1, <1>3 DEF TypeOK
  <2> QED BY <1>1, <2>1, <2>2 DEF InStep, LanWithinTotal, daemon, TypeOK
<1>8. KeptSoFar'
  <2>1. /\ SumFunctionOnSet(read, Iface)' = SumFunctionOnSet(read, Iface)
        /\ SumFunctionOnSet(prev, Iface)' = SumFunctionOnSet(prev, Iface)
        /\ SumFunctionOnSet(total, Iface)' = SumFunctionOnSet(total', Iface)
    BY <1>1 DEF daemon
  <2>2. UNCHANGED <<prevLan, racedEver, raced, ticks, lanRead>>
    BY <1>1 DEF daemon
  <2> QED BY <1>1, <1>2, <1>3, <1>5, <2>1, <2>2, SumsAreNat DEF KeptSoFar, TypeOK
<1>9. ASSUME WanSoFar PROVE WanSoFar'
  <2>1. SumFunctionOnSet(read, Shared)' = SumFunctionOnSet(read, Shared)
        /\ SumFunctionOnSet(total, Shared)' = SumFunctionOnSet(total', Shared)
        /\ SumFunctionOnSet(read, Claimed)' = SumFunctionOnSet(read, Claimed)
        /\ SumFunctionOnSet(total, Claimed)' = SumFunctionOnSet(total', Claimed)
        /\ UNCHANGED <<prevLan, wanRead, lanRead>>
    BY <1>1 DEF daemon
  <2>2. /\ i \in Iface /\ i \in NftSees => i \in Shared \/ i \in Claimed
        /\ i \in Shared => i \notin Claimed
    BY DEF Shared, Claimed
  <2> QED BY <1>1, <1>2, <1>3, <1>4, <1>5, <1>9, <2>1, <2>2, SumsAreNat DEF WanSoFar, TypeOK
<1> QED BY <1>6, <1>7, <1>8, <1>9

LEMMA ReadKeepsInv ==
  ASSUME Inv, ReadTotals
  PROVE  Inv' /\ (WanSoFar => WanSoFar')
<1> USE DEF Inv
<1>1. /\ pc = "asleep" /\ pc' = "read" /\ read' = total /\ wanRead' = wan /\ lanRead' = lan
      /\ UNCHANGED <<kernel, prev, prevLan, rows, ticks, raced, racedEver>>
  BY DEF ReadTotals
<1>2. UNCHANGED <<LanOfShared, Kept>>
  BY <1>1 DEF LanOfShared, Kept
<1>3. TypeOK' /\ InStep' /\ LanWithinTotal'
  BY <1>1 DEF TypeOK, InStep, LanWithinTotal, kernel
<1>4. SumFunctionOnSet(read, Iface)' = SumFunctionOnSet(total, Iface)
      /\ SumFunctionOnSet(total, Iface)' = SumFunctionOnSet(total, Iface)
      /\ SumFunctionOnSet(prev, Iface)' = SumFunctionOnSet(prev, Iface)
      /\ SumFunctionOnSet(read, Shared)' = SumFunctionOnSet(total, Shared)
      /\ SumFunctionOnSet(total, Shared)' = SumFunctionOnSet(total, Shared)
      /\ SumFunctionOnSet(read, Claimed)' = SumFunctionOnSet(total, Claimed)
      /\ SumFunctionOnSet(total, Claimed)' = SumFunctionOnSet(total, Claimed)
  BY <1>1 DEF kernel
<1>5. KeptSoFar'
  BY <1>1, <1>2, <1>4, SumsAreNat DEF KeptSoFar, kernel, TypeOK
<1>6. WanSoFar => WanSoFar'
  BY <1>1, <1>2, <1>4 DEF WanSoFar, kernel
<1> QED BY <1>3, <1>5, <1>6

LEMMA WriteKeepsInv ==
  ASSUME Inv, WriteRows
  PROVE  Inv' /\ (WanSoFar => WanSoFar')
<1> USE DEF Inv
<1>1. /\ pc = "read" /\ pc' = "asleep" /\ prev' = read /\ prevLan' = lan
      /\ raced' = lan - lanRead /\ racedEver' = racedEver + lan - lanRead
      /\ ticks' = (IF read = prev THEN ticks ELSE ticks + 1)
      /\ UNCHANGED <<kernel, read, wanRead, lanRead>>
  BY DEF WriteRows
<1>2. PICK d, l :
        /\ d = [i \in Iface |-> read[i] - prev[i]]
        /\ IsTick(d, lan - prevLan, l)
        /\ rows' = [i \in Iface |-> [total |-> rows[i].total + d[i], lan |-> rows[i].lan + l[i]]]
        /\ TickTotal(d) = SumFunctionOnSet(read, Iface) - SumFunctionOnSet(prev, Iface)
        /\ LanOfShared' = LanOfShared + SumFunctionOnSet(l, Shared)
        /\ Kept' = Kept + SumFunctionOnSet(l, Shared) + SumFunctionOnSet(d, Forced)
  BY WriteSums
<1>3. \A i \in Iface : /\ l[i] \in Nat /\ l[i] <= d[i] /\ d[i] \in Nat /\ (i \in Forced => l[i] = d[i])
  BY <1>2, RowBounds DEF IsTick
<1>4. TypeOK'
  BY <1>1, <1>2, <1>3 DEF TypeOK, InStep, kernel
<1>5. ASSUME NEW i \in Iface
      PROVE  /\ rows'[i].total = rows[i].total + d[i] /\ rows'[i].lan = rows[i].lan + l[i]
             /\ rows[i].total \in Nat /\ rows[i].lan \in Nat /\ d[i] = read[i] - prev[i]
             /\ read[i] \in Nat /\ prev[i] \in Nat /\ rows[i].total = prev[i]
             /\ rows[i].lan <= rows[i].total /\ (i \in Forced => rows[i].lan = rows[i].total)
  BY <1>2 DEF TypeOK, InStep, LanWithinTotal
<1>6. LanWithinTotal'
  BY <1>3, <1>5 DEF LanWithinTotal
<1>7. InStep'
  <2>1. \A i \in Iface : prev'[i] <= read'[i] /\ read'[i] <= total'[i] /\ rows'[i].total = prev'[i]
    BY <1>1, <1>5 DEF InStep, kernel
  <2>2. \A i \in Forced : rows'[i].lan = rows'[i].total
    BY <1>3, <1>5
  <2>3. prevLan' <= lan' /\ lanRead' <= lan' /\ raced' <= racedEver'
    BY <1>1 DEF InStep, kernel, TypeOK
  <2>4. read' = prev' /\ prevLan' = lanRead' + raced'
    BY <1>1 DEF TypeOK
  <2> QED BY <2>1, <2>2, <2>3, <2>4 DEF InStep
<1>8. KeptSoFar'
  <2> DEFINE bytes == lan - prevLan
             sum == TickTotal(d)
             kept == SumFunctionOnSet(l, Shared) + SumFunctionOnSet(d, Forced)
             card == Cardinality(Shared)
             rounding == IF sum = 0 THEN 0 ELSE card
             before == ticks * card
             after == ticks' * card
             ofTotal == SumFunctionOnSet(total, Iface)
             ofRead == SumFunctionOnSet(read, Iface)
             ofPrev == SumFunctionOnSet(prev, Iface)
  <2>1. /\ kept \in Nat /\ sum \in Nat
        /\ bytes > sum => kept >= sum
        /\ bytes <= sum => kept >= bytes - rounding
    <3>1. d \in [Iface -> Nat]
      BY <1>2 DEF IsTick
    <3> QED BY <1>2, <3>1, SharesKept, TickTotalIsSum
  <2>2. sum # 0 => read # prev
    <3> SUFFICES ASSUME read = prev PROVE sum = 0
      OBVIOUS
    <3>1. \A i \in Iface : d[i] = 0
      BY <1>5
    <3> QED BY <3>1, SumOfZeros DEF TickTotal
  <2>3. after >= before + rounding /\ before \in Nat /\ after \in Nat
        /\ card \in Nat
    <3>1. card \in Nat /\ ticks \in Nat
      BY SumsAreNat DEF TypeOK
    <3> HIDE DEF card, sum
    <3>2. (ticks + 1) * card = ticks * card + card
      BY <3>1
    <3> QED BY <1>1, <2>2, <3>1, <3>2
  <2>4. SumFunctionOnSet(read, Iface)' = ofRead /\ SumFunctionOnSet(total, Iface)' = ofTotal
        /\ SumFunctionOnSet(prev, Iface)' = ofRead
    BY <1>1 DEF kernel
  <2>5. ofRead \in Nat /\ ofTotal \in Nat /\ ofPrev \in Nat /\ Kept \in Nat
    BY SumsAreNat
  <2>6. kept = SumFunctionOnSet(l, Shared) + SumFunctionOnSet(d, Forced) /\ Kept' = Kept + kept
    BY <1>2, <2>1, <2>5, SharesWithin, SharedIsFinite, SumIsNat, <1>3
  <2>7. /\ lan \in Nat /\ prevLan \in Nat /\ lanRead \in Nat /\ raced \in Nat /\ racedEver \in Nat
        /\ foreign \in Nat /\ prevLan <= lan /\ lanRead <= lan
        /\ lan' = lan /\ foreign' = foreign /\ lanRead' = lanRead
    BY <1>1 DEF TypeOK, InStep, kernel
  <2>8. sum = ofRead - ofPrev
    BY <1>2
  <2>9. LET due == prevLan - racedEver - foreign - before
            since == prevLan - raced
        IN  /\ Kept >= due
            /\ Kept + ofRead - ofPrev >= due + lanRead - since
            /\ Kept + ofTotal - ofPrev >= due + lan - since
    BY DEF KeptSoFar
  <2>10. KeptSoFar' <=>
         LET due == lan - racedEver' - foreign - after
             since == lan - raced'
         IN  /\ Kept' >= due
             /\ Kept' + ofRead - ofRead >= due + lanRead - since
             /\ Kept' + ofTotal - ofRead >= due + lan - since
    BY <1>1, <2>4, <2>7 DEF KeptSoFar
  <2>11. rounding \in Nat /\ ofRead <= ofTotal
    <3>1. IsIntOn(read, Iface) /\ IsIntOn(total, Iface) /\ \A i \in Iface : read[i] <= total[i]
      BY DEF TypeOK, InStep, IsIntOn
    <3>2. ofRead <= ofTotal
      BY <3>1, SumMonotone
    <3> QED BY <2>3, <3>2 DEF rounding
  <2> HIDE DEF bytes, sum, kept, card, ofTotal, ofRead, ofPrev, rounding, before, after
  <2>12. kept >= bytes - rounding \/ kept >= sum
    BY <2>1, <1>1, <2>7 DEF bytes
  <2>13. bytes = lan - prevLan
    BY DEF bytes
  <2>14. raced' = lan - lanRead /\ racedEver' = racedEver + lan - lanRead
    BY <1>1
  <2>15. Kept' >= lan - racedEver' - foreign - after
    BY <2>1, <2>3, <2>5, <2>6, <2>7, <2>8, <2>9, <2>11, <2>12, <2>13, <2>14
  <2>16. Kept' + ofTotal - ofRead >= lan - racedEver' - foreign - after + lan - (lan - raced')
    BY <2>1, <2>3, <2>5, <2>6, <2>7, <2>8, <2>9, <2>11, <2>12, <2>13, <2>14
  <2> QED BY <2>5, <2>6, <2>7, <2>10, <2>14, <2>15, <2>16, <2>1, <2>3
<1>9. ASSUME WanSoFar PROVE WanSoFar'
  <2>1. SumFunctionOnSet(l, Shared) <= lan - prevLan /\ SumFunctionOnSet(l, Shared) \in Nat
    BY <1>2, SharesWithin
  <2>2. LanOfShared' <= prevLan'
    BY <1>1, <1>2, <1>9, <2>1, SumsAreNat DEF WanSoFar, TypeOK
  <2>3. SumFunctionOnSet(read, Shared)' = SumFunctionOnSet(read, Shared)
        /\ SumFunctionOnSet(total, Shared)' = SumFunctionOnSet(total, Shared)
        /\ SumFunctionOnSet(read, Claimed)' = SumFunctionOnSet(read, Claimed)
        /\ SumFunctionOnSet(total, Claimed)' = SumFunctionOnSet(total, Claimed)
    BY <1>1 DEF kernel
  <2> QED BY <1>1, <1>9, <2>2, <2>3 DEF WanSoFar, kernel
<1> QED BY <1>4, <1>6, <1>7, <1>8, <1>9

LEMMA NextKeepsInv == Inv /\ [Next]_vars => Inv'
<1> SUFFICES ASSUME Inv, [Next]_vars PROVE Inv'
  OBVIOUS
<1>1. CASE \E i \in Iface \cup Excluded, b \in 1 .. MaxFlow : FlowLan(i, b) \/ FlowWan(i, b)
  BY <1>1, FlowKeepsInv
<1>2. CASE ReadTotals
  BY <1>2, ReadKeepsInv
<1>3. CASE WriteRows
  BY <1>3, WriteKeepsInv
<1>4. CASE UNCHANGED vars
  BY <1>4 DEF vars, kernel, daemon, Inv, TypeOK, InStep, LanWithinTotal, KeptSoFar, Kept, LanOfShared
<1> QED BY <1>1, <1>2, <1>3, <1>4 DEF Next

LEMMA NextKeepsWan == Inv /\ WanSoFar /\ [Next]_vars => WanSoFar'
<1> SUFFICES ASSUME Inv, WanSoFar, [Next]_vars PROVE WanSoFar'
  OBVIOUS
<1>1. CASE \E i \in Iface \cup Excluded, b \in 1 .. MaxFlow : FlowLan(i, b) \/ FlowWan(i, b)
  BY <1>1, FlowKeepsInv
<1>2. CASE ReadTotals
  BY <1>2, ReadKeepsInv
<1>3. CASE WriteRows
  BY <1>3, WriteKeepsInv
<1>4. CASE UNCHANGED vars
  BY <1>4 DEF vars, kernel, daemon, WanSoFar, LanOfShared
<1> QED BY <1>1, <1>2, <1>3, <1>4 DEF Next

LEMMA InvHolds == Spec => []Inv
  BY InitInv, NextKeepsInv, PTL DEF Spec

(* The proportional split of daemon.rs loses no LAN bytes but those it     *)
(* says: a byte per row, the race of the two reads, excluded interfaces.   *)
THEOREM LanIsKept == Spec => []LanKept
<1>1. Inv => LanKept
  BY DEF Inv, KeptSoFar, LanKept, Kept, LanOfShared, Shared
<1> QED BY InvHolds, <1>1, PTL

(* WAN is never understated by more than the race of the last tick, the    *)
(* LAN bytes of excluded interfaces and those that a forced interface has  *)
(* claimed and nftables counts again, whichever interfaces these are.      *)
THEOREM WanIsNeverLow == Spec => []WanNeverLow
<1>1. Inv /\ WanSoFar => WanNeverLow
  <2> SUFFICES ASSUME Inv, WanSoFar, pc = "asleep"
               PROVE  RowTotal - LanTotal + raced + foreign
                        + SumFunctionOnSet([i \in Iface |-> rows[i].total], Claimed) >= wanRead
    BY DEF WanNeverLow, Claimed
  <2> DEFINE ofLan == [i \in Iface |-> rows[i].lan]
             ofTotal == [i \in Iface |-> rows[i].total]
  <2>1. /\ \A i \in Iface : ofLan[i] \in Int /\ ofTotal[i] \in Int /\ ofTotal[i] = read[i]
        /\ \A i \in Forced : ofLan[i] = ofTotal[i]
    BY DEF Inv, InStep, TypeOK
  <2>2. RowTotal = SumFunctionOnSet(ofTotal, Iface) /\ LanTotal = SumFunctionOnSet(ofLan, Iface)
        /\ LanOfShared = SumFunctionOnSet(ofLan, Shared)
    BY DEF RowTotal, LanTotal, LanOfShared
  <2> SUFFICES RowTotal - LanTotal + raced + foreign + SumFunctionOnSet(ofTotal, Claimed) >= wanRead
    OBVIOUS
  <2> HIDE DEF ofLan, ofTotal
  <2>3. /\ IsIntOn(ofLan, Iface) /\ IsIntOn(ofTotal, Iface) /\ IsIntOn(ofLan, Forced) /\ IsIntOn(ofTotal, Shared)
        /\ Iface \ Shared = Forced /\ Shared \in SUBSET Iface /\ IsFiniteSet(Shared) /\ IsFiniteSet(Forced)
    BY <2>1, SharedIsFinite DEF IsIntOn, Shared
  <2>4. RowTotal = SumFunctionOnSet(ofTotal, Shared) + SumFunctionOnSet(ofTotal, Forced)
    BY <2>2, <2>3, SumSplits
  <2>5. LanTotal = LanOfShared + SumFunctionOnSet(ofLan, Forced)
    BY <2>2, <2>3, SumSplits
  <2>6. SumFunctionOnSet(ofLan, Forced) = SumFunctionOnSet(ofTotal, Forced)
        /\ SumFunctionOnSet(ofLan, Forced) \in Int
    BY <2>1, <2>3, SumSame, SumIsInt
  <2>7. SumFunctionOnSet(ofTotal, Shared) = SumFunctionOnSet(read, Shared)
        /\ SumFunctionOnSet(ofTotal, Claimed) = SumFunctionOnSet(read, Claimed)
    <3>1. /\ Claimed \in SUBSET Iface /\ IsFiniteSet(Claimed)
          /\ IsIntOn(ofTotal, Claimed) /\ IsIntOn(read, Shared) /\ IsIntOn(read, Claimed)
      BY <2>1, <2>3, FS_Subset DEF Claimed, IsIntOn, Inv, TypeOK
    <3>2. (\A i \in Shared : ofTotal[i] = read[i]) /\ (\A i \in Claimed : ofTotal[i] = read[i])
      BY <2>1, <2>3, <3>1
    <3> QED BY <2>3, <3>1, <3>2, SumSame
  <2>8. SumFunctionOnSet(read, Shared) \in Nat /\ SumFunctionOnSet(read, Claimed) \in Nat
        /\ LanOfShared \in Nat
    BY SumsAreNat DEF Inv
  <2>9. LanOfShared <= lanRead + raced
        /\ SumFunctionOnSet(read, Shared) + SumFunctionOnSet(read, Claimed)
             >= wanRead + lanRead - foreign
        /\ wanRead \in Nat /\ lanRead \in Nat /\ raced \in Nat /\ foreign \in Nat
    BY DEF WanSoFar, Inv, InStep, TypeOK
  <2> QED BY <2>4, <2>5, <2>6, <2>7, <2>8, <2>9
<1>2. Spec => []WanSoFar
  BY InitInv, NextKeepsWan, InvHolds, PTL DEF Spec
<1> QED BY InvHolds, <1>1, <1>2, PTL
=============================================================================
