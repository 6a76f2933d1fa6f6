------------------------- MODULE ProcRecorderProofs -------------------------
(***************************************************************************)
(* The safety of the per-process recorder, for any interfaces, processes,  *)
(* names and timers.  A byte is looked for in four places: the scratch map *)
(* of the thread, the shared map, the daemon's hands and the table.  Every *)
(* step but one only moves bytes between them; the first half of the       *)
(* module is about that one, the counting of a frame in the scratch map.   *)
(***************************************************************************)
EXTENDS ProcRecorder, SumProofs

USE ProcAssumption DEF ProcAssumption

LEMMA LabelsAreFinite == IsFiniteSet(Label) /\ Comm \cap Unattributed = {}
<1>1. IsFiniteSet({"unknown", "other"})
  <2>1. IsFiniteSet({"other"}) /\ {"unknown", "other"} = {"other"} \cup {"unknown"}
    BY FS_Singleton
  <2> QED BY <2>1, FS_AddElement
<1> QED BY <1>1, FS_Union DEF Label, Unattributed

(* Bytes by label, and a scratch map.                                      *)
Bytes == [Label -> Nat]

IsScratch(S) ==
  /\ IsFiniteSet(DOMAIN S) /\ DOMAIN S \subseteq Pid \cup {0}
  /\ S = [s \in DOMAIN S |-> S[s]]
  /\ \A s \in DOMAIN S : S[s] \in [label : Label, bytes : Nat]

BytesOf(S) == [s \in DOMAIN S |-> S[s].bytes]
Named(S, l) == {s \in DOMAIN S : S[s].label = l}

LEMMA PlusIsBytes ==
  ASSUME NEW f \in Bytes, NEW g \in Bytes
  PROVE  /\ Plus(f, g) \in Bytes
         /\ TotalOf(Plus(f, g)) = TotalOf(f) + TotalOf(g)
         /\ TotalOf(f) \in Nat /\ TotalOf(g) \in Nat
<1>1. Plus(f, g) \in Bytes /\ \A l \in Label : Plus(f, g)[l] = f[l] + g[l]
  BY DEF Plus, Bytes
<1>2. \A l \in Label : f[l] \in Nat /\ g[l] \in Nat
  BY DEF Bytes
<1>3. IsIntOn(f, Label) /\ IsIntOn(g, Label)
  BY <1>2 DEF IsIntOn
<1>4. TotalOf(f) \in Nat /\ TotalOf(g) \in Nat
  BY <1>2, LabelsAreFinite, SumIsNat DEF TotalOf
<1>5. TotalOf(Plus(f, g)) = TotalOf(f) + TotalOf(g)
  BY <1>1, <1>3, LabelsAreFinite, SumOfPlus DEF TotalOf
<1> QED BY <1>1, <1>4, <1>5

LEMMA ByLabelIsBytes ==
  ASSUME NEW S, IsScratch(S)
  PROVE  ByLabel(S) \in Bytes
<1>1. \A l \in Label : ByLabel(S)[l] = SumFunctionOnSet(BytesOf(S), Named(S, l))
  BY DEF ByLabel, BytesOf, Named
<1>2. ASSUME NEW l \in Label PROVE SumFunctionOnSet(BytesOf(S), Named(S, l)) \in Nat
  <2>1. IsFiniteSet(Named(S, l)) /\ \A s \in Named(S, l) : BytesOf(S)[s] \in Nat
    BY FS_Subset DEF IsScratch, Named, BytesOf
  <2> QED BY <2>1, SumIsNat
<1>3. ByLabel(S) = [l \in Label |-> ByLabel(S)[l]]
  BY DEF ByLabel
<1> QED BY <1>1, <1>2, <1>3 DEF Bytes

LEMMA EmptyByLabel == IsScratch(EmptyScratch) /\ ByLabel(EmptyScratch) = Nothing
<1>1. DOMAIN EmptyScratch = {}
  BY DEF EmptyScratch
<1>2. IsScratch(EmptyScratch)
  <2>1. EmptyScratch = [s \in DOMAIN EmptyScratch |-> EmptyScratch[s]]
    BY DEF EmptyScratch
  <2> QED BY <1>1, <2>1, FS_EmptySet DEF IsScratch
<1>3. ASSUME NEW l \in Label PROVE ByLabel(EmptyScratch)[l] = 0
  <2>1. Named(EmptyScratch, l) = {}
    BY <1>1 DEF Named
  <2>2. ByLabel(EmptyScratch)[l] = SumFunctionOnSet(BytesOf(EmptyScratch), Named(EmptyScratch, l))
    BY DEF ByLabel, BytesOf, Named
  <2> QED BY <2>1, <2>2, SumEmpty
<1>4. ByLabel(EmptyScratch) = [l \in Label |-> ByLabel(EmptyScratch)[l]]
  BY DEF ByLabel
<1> QED BY <1>2, <1>3, <1>4 DEF Nothing

(* The labels share out all the bytes of a scratch map.                    *)
LEMMA TotalByLabel ==
  ASSUME NEW S, IsScratch(S)
  PROVE  TotalOf(ByLabel(S)) = SumFunctionOnSet(BytesOf(S), DOMAIN S)
<1> DEFINE labels == [s \in DOMAIN S |-> S[s].label]
           all == DOMAIN S
           bytes == BytesOf(S)
           byLabel == ByLabel(S)
<1>1. IsFiniteSet(all) /\ (\A s \in all : labels[s] \in Label) /\ IsIntOn(bytes, all)
  BY DEF IsScratch, BytesOf, IsIntOn
<1>2. \A l \in Label : byLabel[l] = SumFunctionOnSet(bytes, PartOf(all, labels, l))
  <2> TAKE l \in Label
  <2>1. PartOf(all, labels, l) = {s \in DOMAIN S : S[s].label = l}
    BY DEF PartOf
  <2> QED BY <2>1 DEF ByLabel, BytesOf
<1> HIDE DEF labels, all, bytes, byLabel
<1>3. SumFunctionOnSet(byLabel, Label) = SumFunctionOnSet(bytes, all)
  BY <1>1, <1>2, LabelsAreFinite, SumByParts
<1> QED BY <1>3 DEF TotalOf, byLabel, bytes, all

(* An entry set in a scratch map changes what is on it, and no label but   *)
(* that which the entry had and that which it has.                         *)
LEMMA SetEntry ==
  ASSUME NEW S, IsScratch(S), NEW slot \in Pid \cup {0},
         NEW entry \in [label : Label, bytes : Nat], NEW U,
         U = [s \in DOMAIN S \cup {slot} |-> IF s = slot THEN entry ELSE S[s]]
  PROVE  /\ IsScratch(U)
         /\ SumFunctionOnSet(BytesOf(U), DOMAIN U) =
              SumFunctionOnSet(BytesOf(S), DOMAIN S)
                - (IF slot \in DOMAIN S THEN S[slot].bytes ELSE 0) + entry.bytes
         /\ \A l \in Label :
              ByLabel(U)[l] = ByLabel(S)[l]
                - (IF slot \in Named(S, l) THEN S[slot].bytes ELSE 0)
                + (IF entry.label = l THEN entry.bytes ELSE 0)
<1>1. DOMAIN U = DOMAIN S \cup {slot} /\ U[slot] = entry
      /\ \A s \in DOMAIN S \ {slot} : U[s] = S[s]
  OBVIOUS
<1>2. IsScratch(U)
  <2>1. U = [s \in DOMAIN U |-> U[s]]
    BY <1>1
  <2>2. IsFiniteSet(DOMAIN U)
    BY <1>1, FS_AddElement DEF IsScratch
  <2> QED BY <1>1, <2>1, <2>2 DEF IsScratch
(* Any set of the old entries, with slot in it or not, and its new form.   *)
<1>3. ASSUME NEW A \in SUBSET DOMAIN S, NEW B \in SUBSET DOMAIN U, A \ {slot} = B \ {slot}
      PROVE  SumFunctionOnSet(BytesOf(U), B) =
               SumFunctionOnSet(BytesOf(S), A)
                 - (IF slot \in A THEN S[slot].bytes ELSE 0)
                 + (IF slot \in B THEN entry.bytes ELSE 0)
  <2> DEFINE rest == A \ {slot}
             old == BytesOf(S)
             new == BytesOf(U)
  <2>1. /\ IsFiniteSet(A) /\ IsFiniteSet(B) /\ IsFiniteSet(rest)
        /\ rest = B \ {slot}
        /\ IsIntOn(old, A) /\ IsIntOn(new, B) /\ IsIntOn(old, rest)
        /\ \A s \in rest : old[s] = new[s]
        /\ slot \in A => old[slot] = S[slot].bytes
        /\ slot \in B => new[slot] = entry.bytes
        /\ entry.bytes \in Nat /\ (slot \in A => S[slot].bytes \in Nat)
    <3>1. IsFiniteSet(A) /\ IsFiniteSet(B) /\ IsFiniteSet(rest)
      BY <1>2, FS_Subset DEF IsScratch
    <3>2. IsIntOn(old, A) /\ IsIntOn(new, B) /\ IsIntOn(old, rest)
      BY <1>2 DEF IsScratch, IsIntOn, BytesOf
    <3>3. \A s \in rest : old[s] = new[s]
      BY <1>1 DEF BytesOf
    <3> QED BY <1>1, <1>3, <3>1, <3>2, <3>3 DEF BytesOf, IsScratch
  <2> HIDE DEF rest, old, new
  <2>2. SumFunctionOnSet(old, rest) = SumFunctionOnSet(new, rest)
        /\ SumFunctionOnSet(old, rest) \in Int
    BY <2>1, SumSame, SumIsInt
  <2>3. SumFunctionOnSet(old, A) =
          SumFunctionOnSet(old, rest) + (IF slot \in A THEN S[slot].bytes ELSE 0)
    <3>1. CASE slot \in A
      <4>1. SumFunctionOnSet(old, A) = old[slot] + SumFunctionOnSet(old, A \ {slot})
        BY <2>1, <3>1, SumTakeOut
      <4> QED BY <2>1, <2>2, <3>1, <4>1 DEF rest
    <3>2. CASE slot \notin A
      <4>1. rest = A
        BY <3>2 DEF rest
      <4> QED BY <2>2, <3>2, <4>1
    <3> QED BY <3>1, <3>2
  <2>4. SumFunctionOnSet(new, B) =
          SumFunctionOnSet(new, rest) + (IF slot \in B THEN entry.bytes ELSE 0)
    <3>1. CASE slot \in B
      <4>1. SumFunctionOnSet(new, B) = new[slot] + SumFunctionOnSet(new, B \ {slot})
        BY <2>1, <3>1, SumTakeOut
      <4> QED BY <2>1, <2>2, <3>1, <4>1
    <3>2. CASE slot \notin B
      <4>1. rest = B
        BY <2>1, <3>2
      <4> QED BY <2>2, <3>2, <4>1
    <3> QED BY <3>1, <3>2
  <2> QED BY <2>1, <2>2, <2>3, <2>4 DEF old, new
<1>4. SumFunctionOnSet(BytesOf(U), DOMAIN U) =
        SumFunctionOnSet(BytesOf(S), DOMAIN S)
          - (IF slot \in DOMAIN S THEN S[slot].bytes ELSE 0) + entry.bytes
  <2>1. DOMAIN S \ {slot} = DOMAIN U \ {slot} /\ slot \in DOMAIN U
    BY <1>1
  <2> QED BY <1>3, <2>1
<1>5. ASSUME NEW l \in Label
      PROVE  ByLabel(U)[l] = ByLabel(S)[l]
               - (IF slot \in Named(S, l) THEN S[slot].bytes ELSE 0)
               + (IF entry.label = l THEN entry.bytes ELSE 0)
  <2>1. /\ Named(S, l) \in SUBSET DOMAIN S /\ Named(U, l) \in SUBSET DOMAIN U
        /\ Named(S, l) \ {slot} = Named(U, l) \ {slot}
        /\ slot \in Named(U, l) <=> entry.label = l
    BY <1>1 DEF Named
  <2>2. ByLabel(U)[l] = SumFunctionOnSet(BytesOf(U), Named(U, l))
        /\ ByLabel(S)[l] = SumFunctionOnSet(BytesOf(S), Named(S, l))
    BY DEF ByLabel, BytesOf, Named
  <2> QED BY <1>3, <2>1, <2>2
<1> QED BY <1>2, <1>4, <1>5

-----------------------------------------------------------------------------
(* The inductive invariant.                                                *)

TypeOK ==
  /\ commOf \in [Pid -> Comm] /\ snap \in [Pid -> Comm] /\ IsScratch(scratch)
  /\ shared \in Bytes /\ cur \in Bytes /\ recorded \in Bytes
  /\ attributed \in Bytes /\ lost \in Bytes
  /\ renamed \subseteq Comm

(* A thread that is dead has no scratch map, and the daemon has deltas in  *)
(* its hands only between taking and committing them.                      *)
InHand ==
  /\ capture = "dead" => scratch = EmptyScratch
  /\ daemon = "down" => capture = "dead"
  /\ daemon # "commit" => cur = Nothing

(* A label is the name of the process, or both of them are names that some *)
(* process took or left; what has no process bears no name.                *)
NamedFor(label, p) == label = commOf[p] \/ {label, commOf[p]} \subseteq renamed

InNames ==
  /\ \A p \in Pid : NamedFor(snap[p], p)
  /\ \A s \in DOMAIN scratch :
       IF s \in Pid THEN NamedFor(scratch[s].label, s) ELSE scratch[s].label \in Unattributed

Inv == TypeOK /\ InHand /\ InNames /\ EveryByteOnce /\ AppsExact

AddsUp ==
  /\ ByLabel(scratch) \in Bytes /\ Pending \in Bytes /\ Accounted \in Bytes
  /\ \A l \in Label :
       Accounted[l] = recorded[l] + lost[l] + cur[l] + shared[l] + ByLabel(scratch)[l]
  /\ TotalOf(Accounted) = TotalOf(recorded) + TotalOf(lost) + TotalOf(cur)
       + TotalOf(shared) + TotalOf(ByLabel(scratch))

LEMMA AccountedIs == TypeOK => AddsUp
<1> SUFFICES ASSUME TypeOK PROVE AddsUp
  OBVIOUS
<1> USE DEF AddsUp
<1> DEFINE way == Plus(shared, ByLabel(scratch))
<1>1. ByLabel(scratch) \in Bytes
  BY ByLabelIsBytes DEF TypeOK
<1>2. /\ shared \in Bytes /\ cur \in Bytes /\ recorded \in Bytes /\ lost \in Bytes
  BY DEF TypeOK
<1>3. way \in Bytes /\ TotalOf(way) = TotalOf(shared) + TotalOf(ByLabel(scratch))
      /\ \A l \in Label : way[l] = shared[l] + ByLabel(scratch)[l]
  BY <1>1, <1>2, PlusIsBytes DEF Plus
<1> HIDE DEF way
<1>4. Pending = Plus(cur, way)
  BY DEF Pending, way
<1>5. Pending \in Bytes /\ TotalOf(Pending) = TotalOf(cur) + TotalOf(way)
      /\ \A l \in Label : Pending[l] = cur[l] + way[l]
  BY <1>2, <1>3, <1>4, PlusIsBytes DEF Plus
<1> DEFINE end == Plus(lost, Pending)
<1>6. end \in Bytes /\ TotalOf(end) = TotalOf(lost) + TotalOf(Pending)
      /\ \A l \in Label : end[l] = lost[l] + Pending[l]
  BY <1>2, <1>5, PlusIsBytes DEF Plus
<1>7. Accounted = Plus(recorded, end)
  BY DEF Accounted
<1> HIDE DEF end
<1>8. Accounted \in Bytes /\ TotalOf(Accounted) = TotalOf(recorded) + TotalOf(end)
      /\ \A l \in Label : Accounted[l] = recorded[l] + end[l]
  BY <1>2, <1>6, <1>7, PlusIsBytes DEF Plus
<1>9. /\ TotalOf(recorded) \in Nat /\ TotalOf(lost) \in Nat /\ TotalOf(cur) \in Nat
      /\ TotalOf(shared) \in Nat /\ TotalOf(ByLabel(scratch)) \in Nat
  BY <1>1, <1>2, PlusIsBytes
<1>10. \A l \in Label : /\ recorded[l] \in Nat /\ lost[l] \in Nat /\ cur[l] \in Nat
                        /\ shared[l] \in Nat /\ ByLabel(scratch)[l] \in Nat
  BY <1>1, <1>2 DEF Bytes
<1>11. TotalOf(Accounted) = TotalOf(recorded) + TotalOf(lost) + TotalOf(cur)
              + TotalOf(shared) + TotalOf(ByLabel(scratch))
  BY <1>3, <1>5, <1>6, <1>8, <1>9
<1>12. ASSUME NEW l \in Label
       PROVE  Accounted[l] = recorded[l] + lost[l] + cur[l] + shared[l] + ByLabel(scratch)[l]
  BY <1>3, <1>5, <1>6, <1>8, <1>10
<1> QED BY <1>1, <1>5, <1>8, <1>11, <1>12

LEMMA AccountedNextIs == TypeOK' => AddsUp'
  BY AccountedIs, PTL

(* Two functions of bytes by label with the same values are one.           *)
LEMMA SameBytes ==
  ASSUME NEW f \in Bytes, NEW g \in Bytes, \A l \in Label : f[l] = g[l]
  PROVE  f = g
  BY DEF Bytes

-----------------------------------------------------------------------------
(* The one step that counts a byte.                                        *)

LEMMA AccountCounts ==
  ASSUME TypeOK, NEW slot \in Pid \cup {0}, NEW label \in Label, Account(slot, label)
  PROVE  /\ IsScratch(scratch') /\ attributed' \in Bytes
         /\ TotalOf(attributed') = TotalOf(attributed) + 1
         /\ TotalOf(ByLabel(scratch')) = TotalOf(ByLabel(scratch)) + 1
<1> DEFINE kept == slot \in DOMAIN scratch /\ scratch[slot].label \notin Unattributed
           entry == [label |-> IF kept THEN scratch[slot].label ELSE label,
                     bytes |-> 1 + IF slot \in DOMAIN scratch THEN scratch[slot].bytes ELSE 0]
<1>1. scratch' = [s \in DOMAIN scratch \cup {slot} |-> IF s = slot THEN entry ELSE scratch[s]]
      /\ attributed' = [attributed EXCEPT ![label] = @ + 1]
  BY DEF Account
<1>2. IsScratch(scratch) /\ attributed \in Bytes
  BY DEF TypeOK
<1>3. slot \in DOMAIN scratch => scratch[slot] \in [label : Label, bytes : Nat]
  BY <1>2 DEF IsScratch
<1>4. /\ entry \in [label : Label, bytes : Nat]
      /\ entry.bytes = 1 + IF slot \in DOMAIN scratch THEN scratch[slot].bytes ELSE 0
  BY <1>3
<1> HIDE DEF entry
<1>5. IsScratch(scratch') /\
      SumFunctionOnSet(BytesOf(scratch'), DOMAIN scratch') =
        SumFunctionOnSet(BytesOf(scratch), DOMAIN scratch)
          - (IF slot \in DOMAIN scratch THEN scratch[slot].bytes ELSE 0) + entry.bytes
  BY <1>1, <1>2, <1>4, SetEntry
<1>6. TotalOf(ByLabel(scratch')) = SumFunctionOnSet(BytesOf(scratch'), DOMAIN scratch')
      /\ TotalOf(ByLabel(scratch)) = SumFunctionOnSet(BytesOf(scratch), DOMAIN scratch)
  BY <1>2, <1>5, TotalByLabel
<1>7. TotalOf(ByLabel(scratch)) \in Nat
  BY <1>2, ByLabelIsBytes, PlusIsBytes
<1>8. TotalOf(ByLabel(scratch')) = TotalOf(ByLabel(scratch)) + 1
  BY <1>3, <1>4, <1>5, <1>6, <1>7
<1>9. attributed' \in Bytes /\ attributed'[label] = attributed[label] + 1 /\ attributed[label] \in Nat
      /\ \A l \in Label \ {label} : attributed[l] = attributed'[l]
  BY <1>1, <1>2 DEF Bytes
<1>10. TotalOf(attributed') = TotalOf(attributed) + 1
  <2>1. IsIntOn(attributed, Label) /\ IsIntOn(attributed', Label)
    BY <1>2, <1>9 DEF IsIntOn, Bytes
  <2>2. TotalOf(attributed') = TotalOf(attributed) - attributed[label] + attributed'[label]
    BY <1>9, <2>1, LabelsAreFinite, SumChange DEF TotalOf
  <2>3. TotalOf(attributed) \in Nat
    BY <1>2, PlusIsBytes
  <2> QED BY <1>9, <2>2, <2>3
<1> QED BY <1>5, <1>8, <1>9, <1>10

(* ... to the name it belongs to, unless that name was taken or left.      *)
LEMMA AccountNames ==
  ASSUME TypeOK, InNames, NEW slot \in Pid \cup {0}, NEW label \in Label,
         Account(slot, label),
         IF slot \in Pid THEN NamedFor(label, slot) ELSE label \in Unattributed
  PROVE  /\ \A s \in DOMAIN scratch' :
              IF s \in Pid THEN NamedFor(scratch'[s].label, s)
              ELSE scratch'[s].label \in Unattributed
         /\ \A c \in Comm \ renamed :
              ByLabel(scratch')[c] - ByLabel(scratch)[c] = attributed'[c] - attributed[c]
<1> DEFINE kept == slot \in DOMAIN scratch /\ scratch[slot].label \notin Unattributed
           entry == [label |-> IF kept THEN scratch[slot].label ELSE label,
                     bytes |-> 1 + IF slot \in DOMAIN scratch THEN scratch[slot].bytes ELSE 0]
<1>1. scratch' = [s \in DOMAIN scratch \cup {slot} |-> IF s = slot THEN entry ELSE scratch[s]]
      /\ attributed' = [attributed EXCEPT ![label] = @ + 1]
  BY DEF Account
<1>2. IsScratch(scratch) /\ attributed \in Bytes /\ commOf \in [Pid -> Comm]
  BY DEF TypeOK
<1>3. slot \in DOMAIN scratch =>
        /\ scratch[slot] \in [label : Label, bytes : Nat]
        /\ IF slot \in Pid THEN NamedFor(scratch[slot].label, slot)
           ELSE scratch[slot].label \in Unattributed
  BY <1>2 DEF IsScratch, InNames
<1>4. /\ entry \in [label : Label, bytes : Nat]
      /\ entry.bytes = 1 + IF slot \in DOMAIN scratch THEN scratch[slot].bytes ELSE 0
      /\ entry.label = label \/ (slot \in DOMAIN scratch /\ entry.label = scratch[slot].label)
      /\ IF slot \in Pid THEN NamedFor(entry.label, slot) ELSE entry.label \in Unattributed
  BY <1>2, <1>3
<1> HIDE DEF entry
<1>5. ASSUME NEW s \in DOMAIN scratch'
      PROVE  IF s \in Pid THEN NamedFor(scratch'[s].label, s)
             ELSE scratch'[s].label \in Unattributed
  <2>1. CASE s = slot
    <3>1. scratch'[s] = entry
      BY <1>1, <2>1
    <3> QED BY <1>4, <2>1, <3>1
  <2>2. CASE s # slot
    <3>1. s \in DOMAIN scratch /\ scratch'[s] = scratch[s]
      BY <1>1, <2>2
    <3> QED BY <3>1 DEF InNames
  <2> QED BY <2>1, <2>2
<1>6. \A l \in Label :
        ByLabel(scratch')[l] = ByLabel(scratch)[l]
          - (IF slot \in Named(scratch, l) THEN scratch[slot].bytes ELSE 0)
          + (IF entry.label = l THEN entry.bytes ELSE 0)
  BY <1>1, <1>2, <1>4, SetEntry
<1>7. ASSUME NEW c \in Comm \ renamed
      PROVE  ByLabel(scratch')[c] - ByLabel(scratch)[c] = attributed'[c] - attributed[c]
  <2>1. c \in Label /\ c \notin Unattributed
    BY LabelsAreFinite DEF Label
  <2>2. ByLabel(scratch)[c] \in Nat /\ attributed[c] \in Nat
    BY <1>2, <2>1, ByLabelIsBytes DEF Bytes
  <2>3. attributed'[c] = attributed[c] + (IF label = c THEN 1 ELSE 0)
    BY <1>1, <1>2, <2>1 DEF Bytes
  <2>4. slot \in Named(scratch, c) <=> slot \in DOMAIN scratch /\ scratch[slot].label = c
    BY DEF Named
  (* What is named for one process is c together or not at all.            *)
  <2>5. ASSUME slot \in Pid, NEW one, NEW other, NamedFor(one, slot), NamedFor(other, slot), one = c
        PROVE  other = c
    BY <2>5 DEF NamedFor
  <2>6. CASE slot \in Pid /\ label = c
    <3>1. entry.label = c
      BY <1>4, <2>5, <2>6
    <3>2. slot \in DOMAIN scratch => scratch[slot].label = c
      BY <1>3, <2>5, <2>6
    <3> QED BY <1>3, <1>4, <1>6, <2>1, <2>2, <2>3, <2>4, <2>6, <3>1, <3>2
  <2>7. CASE ~(slot \in Pid /\ label = c)
    <3>1. label # c
      BY <2>1, <2>7
    <3>2. slot \in DOMAIN scratch => scratch[slot].label # c
      BY <1>3, <2>1, <2>5, <2>7, <3>1
    <3>3. entry.label # c
      BY <1>4, <3>1, <3>2
    <3> QED BY <1>6, <2>1, <2>2, <2>3, <2>4, <3>1, <3>2, <3>3
  <2> QED BY <2>6, <2>7
<1> QED BY <1>5, <1>7

LEMMA SniffKeepsInv ==
  ASSUME Inv, NEW i \in Iface, NEW p \in Pid, Sniff(i, p)
  PROVE  Inv'
<1> USE DEF Inv
<1>1. PICK slot \in Pid \cup {0}, label \in Label :
        /\ Account(slot, label)
        /\ IF slot \in Pid THEN label = snap[slot] ELSE label \in Unattributed
  BY DEF Sniff, TypeOK, Label, Unattributed
<1>2. capture = "drain" /\ UNCHANGED <<kernelVars, capture, open, sinceOpen, sinceFlush, snap, shared,
                 daemonVars, lost, budgets>>
  BY DEF Sniff
<1>3. /\ IsScratch(scratch') /\ attributed' \in Bytes
      /\ TotalOf(attributed') = TotalOf(attributed) + 1
      /\ TotalOf(ByLabel(scratch')) = TotalOf(ByLabel(scratch)) + 1
  BY <1>1, AccountCounts
<1>4. TypeOK'
  BY <1>2, <1>3 DEF TypeOK, kernelVars, daemonVars, budgets
<1>5. InHand'
  BY <1>2 DEF InHand, daemonVars
<1>6. UNCHANGED <<recorded, lost, cur, shared, renamed, commOf, snap>>
  BY <1>2 DEF kernelVars, daemonVars, budgets
<1>7. EveryByteOnce'
  <2>1. TotalOf(Accounted) = TotalOf(recorded) + TotalOf(lost) + TotalOf(cur)
              + TotalOf(shared) + TotalOf(ByLabel(scratch))
    BY AccountedIs DEF AddsUp
  <2>2. TotalOf(Accounted') = TotalOf(recorded') + TotalOf(lost') + TotalOf(cur')
              + TotalOf(shared') + TotalOf(ByLabel(scratch'))
    BY <1>4, AccountedNextIs DEF AddsUp
  <2>3. /\ TotalOf(recorded) \in Nat /\ TotalOf(lost) \in Nat /\ TotalOf(cur) \in Nat
        /\ TotalOf(shared) \in Nat /\ TotalOf(ByLabel(scratch)) \in Nat
        /\ TotalOf(attributed) \in Nat
    BY AccountedIs, PlusIsBytes DEF AddsUp, TypeOK
  <2>4. TotalOf(Accounted) = TotalOf(attributed)
    BY DEF EveryByteOnce
  <2>5. TotalOf(Accounted') = TotalOf(attributed')
    BY <1>3, <1>6, <2>1, <2>2, <2>3, <2>4
  <2> QED BY <2>5 DEF EveryByteOnce
<1>8. /\ \A s \in DOMAIN scratch' :
           IF s \in Pid THEN NamedFor(scratch'[s].label, s)
           ELSE scratch'[s].label \in Unattributed
      /\ \A c \in Comm \ renamed :
           ByLabel(scratch')[c] - ByLabel(scratch)[c] = attributed'[c] - attributed[c]
  <2>1. IF slot \in Pid THEN NamedFor(label, slot) ELSE label \in Unattributed
    BY <1>1 DEF InNames
  <2> QED BY <1>1, <2>1, AccountNames
<1>9. InNames'
  BY <1>6, <1>8 DEF InNames, NamedFor
<1>10. AppsExact'
  <2> SUFFICES ASSUME NEW c \in Comm \ renamed PROVE Accounted'[c] = attributed'[c]
    BY <1>6 DEF AppsExact
  <2>1. c \in Label
    BY DEF Label
  <2>2. Accounted[c] = recorded[c] + lost[c] + cur[c] + shared[c] + ByLabel(scratch)[c]
    BY <2>1, AccountedIs DEF AddsUp
  <2>3. Accounted'[c] = recorded'[c] + lost'[c] + cur'[c] + shared'[c] + ByLabel(scratch')[c]
    BY <1>4, <2>1, AccountedNextIs DEF AddsUp
  <2>4. /\ recorded[c] \in Nat /\ lost[c] \in Nat /\ cur[c] \in Nat
        /\ shared[c] \in Nat /\ ByLabel(scratch)[c] \in Nat /\ attributed[c] \in Nat
        /\ ByLabel(scratch')[c] \in Nat /\ attributed'[c] \in Nat
    BY <1>3, <2>1, ByLabelIsBytes DEF Bytes, TypeOK
  <2>5. Accounted[c] = attributed[c]
    BY DEF AppsExact
  <2> QED BY <1>6, <1>8, <2>2, <2>3, <2>4, <2>5
<1> QED BY <1>4, <1>5, <1>7, <1>9, <1>10

-----------------------------------------------------------------------------
(* The other steps move bytes.                                             *)

(* It is enough that the types hold again and that, label by label, what   *)
(* was there still is.                                                     *)
LEMMA MoveKeepsInv ==
  ASSUME Inv, TypeOK', InHand', InNames', attributed' = attributed,
         renamed \subseteq renamed',
         \A l \in Label :
           recorded'[l] + lost'[l] + cur'[l] + shared'[l] + ByLabel(scratch')[l]
             = recorded[l] + lost[l] + cur[l] + shared[l] + ByLabel(scratch)[l]
  PROVE  Inv'
<1>1. TypeOK
  BY DEF Inv
<1>2. Accounted \in Bytes /\ \A l \in Label :
        Accounted[l] = recorded[l] + lost[l] + cur[l] + shared[l] + ByLabel(scratch)[l]
  BY <1>1, AccountedIs DEF AddsUp
<1>3. Accounted' \in Bytes /\ \A l \in Label :
        Accounted'[l] = recorded'[l] + lost'[l] + cur'[l] + shared'[l] + ByLabel(scratch')[l]
  BY AccountedNextIs DEF AddsUp
<1>4. Accounted' = Accounted
  BY <1>2, <1>3, SameBytes
<1>5. EveryByteOnce'
  BY <1>4 DEF Inv, EveryByteOnce
<1>6. AppsExact'
  BY <1>4 DEF Inv, AppsExact
<1> QED BY <1>5, <1>6 DEF Inv

LEMMA LabelValues ==
  ASSUME TypeOK
  PROVE  \A l \in Label :
           /\ recorded[l] \in Nat /\ lost[l] \in Nat /\ cur[l] \in Nat
           /\ shared[l] \in Nat /\ ByLabel(scratch)[l] \in Nat
           /\ ByLabel(EmptyScratch)[l] = 0 /\ Nothing[l] = 0
<1>1. ByLabel(scratch) \in Bytes
  BY AccountedIs DEF AddsUp
<1>2. ByLabel(EmptyScratch) = Nothing
  BY EmptyByLabel
<1> QED BY <1>1, <1>2 DEF TypeOK, Bytes, Nothing

LEMMA NothingIsBytes == Nothing \in Bytes
  BY DEF Nothing, Bytes

LEMMA InitInv == Init => Inv
<1> SUFFICES ASSUME Init PROVE Inv
  OBVIOUS
<1>1. TypeOK /\ InHand
  BY EmptyByLabel, NothingIsBytes DEF Init, TypeOK, InHand, Snapshot
<1>2. InNames
  <2>1. DOMAIN EmptyScratch = {}
    BY DEF EmptyScratch
  <2> QED BY <2>1 DEF Init, InNames, NamedFor, Snapshot
<1>3. Accounted \in Bytes /\ \A l \in Label :
        Accounted[l] = recorded[l] + lost[l] + cur[l] + shared[l] + ByLabel(scratch)[l]
  BY <1>1, AccountedIs DEF AddsUp
<1>4. \A l \in Label : Accounted[l] = Nothing[l]
  <2> TAKE l \in Label
  <2>1. recorded = Nothing /\ lost = Nothing /\ cur = Nothing /\ shared = Nothing
        /\ scratch = EmptyScratch
    BY DEF Init
  <2> QED BY <1>1, <1>3, <2>1, LabelValues
<1>5. Accounted = Nothing /\ attributed = Nothing
  BY <1>3, <1>4, NothingIsBytes, SameBytes DEF Init
<1> QED BY <1>1, <1>2, <1>5, LabelsAreFinite DEF Inv, EveryByteOnce, AppsExact

(* Steps that touch no place where bytes are.                              *)
LEMMA IdleKeepsInv ==
  ASSUME Inv, UNCHANGED <<snap, scratch, shared, cur, recorded, attributed, lost, renamed, commOf>>,
         capture' = "dead" => scratch = EmptyScratch,
         daemon' = "down" => capture' = "dead",
         daemon' # "commit" => cur = Nothing
  PROVE  Inv'
<1>1. TypeOK' /\ InHand' /\ InNames'
  BY DEF Inv, TypeOK, InHand, InNames, NamedFor
<1> QED BY <1>1, MoveKeepsInv

LEMMA CaptureKeepsInv == Inv /\ (CaptureLoop \/ Panic) => Inv'
<1> SUFFICES ASSUME Inv, CaptureLoop \/ Panic PROVE Inv'
  OBVIOUS
<1>0. TypeOK /\ InHand /\ InNames
  BY DEF Inv
<1>1. CASE Reopen \/ KeepOpen \/ ReceiverDead
  <2>1. UNCHANGED <<snap, scratch, shared, cur, recorded, attributed, lost, renamed, commOf, daemon>>
        /\ capture # "dead" /\ capture' # "dead"
    BY <1>1 DEF Reopen, KeepOpen, ReceiverDead, OpenAll, kernelVars, daemonVars, budgets
  <2> QED BY <1>0, <2>1, IdleKeepsInv DEF InHand
<1>2. CASE Drained
  <2>1. /\ capture = "drain" /\ capture' = "top" /\ snap' \in {snap, Snapshot}
        /\ UNCHANGED <<cur, recorded, attributed, lost, renamed, commOf, daemon>>
        /\ (UNCHANGED <<shared, scratch>> \/ Fold)
    BY <1>2 DEF Drained, kernelVars, daemonVars, budgets
  <2>2. CASE UNCHANGED <<shared, scratch>>
    <3>1. TypeOK' /\ InHand' /\ InNames'
      BY <1>0, <2>1, <2>2 DEF TypeOK, InHand, InNames, NamedFor, Snapshot
    <3> QED BY <2>1, <2>2, <3>1, MoveKeepsInv
  <2>3. CASE Fold
    <3>1. shared' = Plus(shared, ByLabel(scratch)) /\ scratch' = EmptyScratch
      BY <2>3 DEF Fold
    <3>2. shared' \in Bytes
      BY <1>0, <3>1, ByLabelIsBytes, PlusIsBytes DEF TypeOK
    <3>3. TypeOK' /\ InHand'
      BY <1>0, <2>1, <3>1, <3>2, EmptyByLabel DEF TypeOK, InHand, Snapshot
    <3>4. InNames'
      BY <1>0, <2>1, <3>1 DEF InNames, NamedFor, EmptyScratch, Snapshot
    <3>5. \A l \in Label : shared'[l] = shared[l] + ByLabel(scratch)[l]
      BY <3>1 DEF Plus
    <3> QED BY <1>0, <2>1, <3>1, <3>3, <3>4, <3>5, LabelValues, MoveKeepsInv
  <2> QED BY <2>1, <2>2, <2>3
<1>3. CASE \E i \in Iface, p \in Pid : Sniff(i, p)
  BY <1>3, SniffKeepsInv
<1>4. CASE Panic
  <2>1. /\ capture' = "dead" /\ scratch' = EmptyScratch /\ lost' = Plus(lost, ByLabel(scratch))
        /\ UNCHANGED <<snap, shared, cur, recorded, attributed, renamed, commOf, daemon>>
    BY <1>4 DEF Panic, kernelVars, daemonVars
  <2>2. lost' \in Bytes
    BY <1>0, <2>1, ByLabelIsBytes, PlusIsBytes DEF TypeOK
  <2>3. TypeOK' /\ InHand'
    BY <1>0, <2>1, <2>2, EmptyByLabel DEF TypeOK, InHand
  <2>4. InNames'
    BY <1>0, <2>1 DEF InNames, NamedFor, EmptyScratch
  <2>5. \A l \in Label : lost'[l] = lost[l] + ByLabel(scratch)[l]
    BY <2>1 DEF Plus
  <2> QED BY <1>0, <2>1, <2>3, <2>4, <2>5, LabelValues, MoveKeepsInv
<1> QED BY <1>1, <1>2, <1>3, <1>4 DEF CaptureLoop

LEMMA DaemonKeepsInv == Inv /\ (DaemonLoop \/ Exit) => Inv'
<1> SUFFICES ASSUME Inv, DaemonLoop \/ Exit PROVE Inv'
  OBVIOUS
<1>0. TypeOK /\ InHand /\ InNames
  BY DEF Inv
<1>1. CASE Start \/ EnsureRunning
  <2>1. /\ UNCHANGED <<shared, cur, recorded, attributed, lost, renamed, commOf>>
        /\ daemon # "commit" /\ daemon' \notin {"commit", "down"}
        /\ daemon = "down" => capture = "dead"
        /\ \/ UNCHANGED <<snap, scratch, capture>>
           \/ /\ capture = "dead" /\ capture' = "top" /\ snap' = commOf
              /\ scratch = EmptyScratch /\ scratch' = EmptyScratch
    BY <1>0, <1>1 DEF Start, EnsureRunning, Launched, InHand, kernelVars, budgets, threadVars, Snapshot
  <2>2. scratch' = scratch
    BY <2>1
  <2>3. TypeOK' /\ InHand'
    BY <1>0, <2>1, <2>2 DEF TypeOK, InHand
  <2>4. InNames'
    BY <1>0, <2>1, <2>2 DEF InNames, NamedFor, EmptyScratch
  <2> QED BY <2>1, <2>2, <2>3, <2>4, MoveKeepsInv
<1>2. CASE DrainDeltas
  <2>1. /\ daemon = "drain" /\ cur = Nothing /\ cur' = shared /\ shared' = Nothing
        /\ daemon' = (IF cur' = Nothing THEN "tick" ELSE "commit")
        /\ UNCHANGED <<snap, scratch, capture, recorded, attributed, lost, renamed, commOf>>
    BY <1>0, <1>2 DEF DrainDeltas, InHand, kernelVars, budgets, threadVars
  <2>2. TypeOK' /\ InHand' /\ InNames'
    BY <1>0, <2>1, NothingIsBytes DEF TypeOK, InHand, InNames, NamedFor
  <2> QED BY <1>0, <2>1, <2>2, LabelValues, MoveKeepsInv
<1>3. CASE Commit
  <2>1. /\ daemon = "commit" /\ daemon' = "tick" /\ cur' = Nothing
        /\ recorded' = Plus(recorded, cur)
        /\ UNCHANGED <<snap, scratch, capture, shared, attributed, lost, renamed, commOf>>
    BY <1>3 DEF Commit, kernelVars, budgets, threadVars
  <2>2. recorded' \in Bytes
    BY <1>0, <2>1, PlusIsBytes DEF TypeOK
  <2>3. TypeOK' /\ InHand' /\ InNames'
    BY <1>0, <2>1, <2>2, NothingIsBytes DEF TypeOK, InHand, InNames, NamedFor
  <2>4. \A l \in Label : recorded'[l] = recorded[l] + cur[l]
    BY <2>1 DEF Plus
  <2> QED BY <1>0, <2>1, <2>3, <2>4, LabelValues, MoveKeepsInv
<1>4. CASE Exit
  <2>1. /\ daemon' = "down" /\ capture' = "dead" /\ scratch' = EmptyScratch
        /\ cur' = Nothing /\ shared' = Nothing
        /\ lost' = Plus(lost, Pending)
        /\ UNCHANGED <<snap, recorded, attributed, renamed, commOf>>
    BY <1>4 DEF Exit, kernelVars, Pending
  <2>2. Pending \in Bytes /\ ByLabel(scratch) \in Bytes
    BY <1>0, AccountedIs DEF AddsUp
  <2>3. lost' \in Bytes
    BY <1>0, <2>1, <2>2, PlusIsBytes DEF TypeOK
  <2>4. TypeOK' /\ InHand'
    BY <1>0, <2>1, <2>3, NothingIsBytes, EmptyByLabel DEF TypeOK, InHand
  <2>5. InNames'
    BY <1>0, <2>1 DEF InNames, NamedFor, EmptyScratch
  <2>6. \A l \in Label : lost'[l] = lost[l] + (cur[l] + (shared[l] + ByLabel(scratch)[l]))
    BY <2>1 DEF Plus, Pending
  <2> QED BY <1>0, <2>1, <2>4, <2>5, <2>6, LabelValues, MoveKeepsInv
<1> QED BY <1>1, <1>2, <1>3, <1>4 DEF DaemonLoop

LEMMA MachineKeepsInv ==
  Inv /\ ((\E i \in Iface : UpOrDown(i)) \/ (\E p \in Pid, c \in Comm : Exec(p, c))) => Inv'
<1>1. ASSUME Inv, NEW i \in Iface, UpOrDown(i) PROVE Inv'
  <2>1. UNCHANGED <<snap, scratch, shared, cur, recorded, attributed, lost, renamed, commOf, capture, daemon>>
    BY <1>1 DEF UpOrDown, threadVars, daemonVars
  <2> QED BY <1>1, <2>1, IdleKeepsInv DEF Inv, InHand
<1>2. ASSUME Inv, NEW p \in Pid, NEW c \in Comm, Exec(p, c) PROVE Inv'
  <2>1. /\ UNCHANGED <<snap, scratch, shared, cur, recorded, attributed, lost, capture, daemon>>
        /\ renamed' = renamed \cup {c, commOf[p]} /\ commOf' = [commOf EXCEPT ![p] = c]
    BY <1>2 DEF Exec, threadVars, daemonVars
  <2>2. TypeOK /\ InHand /\ InNames
    BY <1>2 DEF Inv
  <2>3. TypeOK' /\ InHand'
    BY <2>1, <2>2 DEF TypeOK, InHand
  <2>4. ASSUME NEW q \in Pid, NEW label, NamedFor(label, q)
        PROVE  NamedFor(label, q)'
    <3>1. CASE q = p
      BY <2>1, <2>2, <2>4, <3>1 DEF NamedFor, TypeOK
    <3>2. CASE q # p
      BY <2>1, <2>2, <2>4, <3>2 DEF NamedFor, TypeOK
    <3> QED BY <3>1, <3>2
  <2>5. InNames'
    BY <2>1, <2>2, <2>4 DEF InNames
  <2> QED BY <1>2, <2>1, <2>3, <2>5, MoveKeepsInv
<1> QED BY <1>1, <1>2

THEOREM InvHolds == Spec => []Inv
<1>1. Inv /\ [Next]_vars => Inv'
  <2> SUFFICES ASSUME Inv, UNCHANGED vars PROVE Inv'
    BY CaptureKeepsInv, DaemonKeepsInv, MachineKeepsInv DEF Next
  <2>1. UNCHANGED <<snap, scratch, shared, cur, recorded, attributed, lost, renamed, commOf, capture, daemon>>
    BY DEF vars, kernelVars, threadVars, daemonVars, budgets
  <2> QED BY <2>1, IdleKeepsInv DEF Inv, InHand
<1> QED BY InitInv, <1>1, PTL DEF Spec

-----------------------------------------------------------------------------
(* A byte that was captured is in one place and only there: the drain that *)
(* takes the map under the mutex and the fold that adds to it neither lose *)
(* nor count twice, whoever dies in between.                               *)
THEOREM EveryByteIsOnce == Spec => []EveryByteOnce
<1>1. Inv => EveryByteOnce
  BY DEF Inv
<1> QED BY InvHolds, <1>1, PTL

(* Folding pids into names, and keeping the first name of an entry, takes  *)
(* no byte from a name and gives it none, while no process takes or leaves *)
(* that name: what the table has of it, what is on its way and what died   *)
(* with a thread is what was captured for it.                              *)
THEOREM AppsAreExact == Spec => []AppsExact
<1>1. Inv => AppsExact
  BY DEF Inv
<1> QED BY InvHolds, <1>1, PTL
=============================================================================
