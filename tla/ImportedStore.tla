--------------------------- MODULE ImportedStore ---------------------------
(***************************************************************************)
(* `netmeter import` (src/main.rs, cmd_import) next to a running daemon:   *)
(* Store, with one more writer of the daily table.                         *)
(*                                                                         *)
(* vnStat's figure of a day is in the bag of the daily table as a row of   *)
(* its own, at the start of the day and with n = 0, which no sample has.   *)
(* It stands for all the traffic vnStat saw on that day, which includes    *)
(* what netmeter has recorded of it so far, folded or not.                 *)
(* Only the rx and tx columns are meant: on a row that exists the import   *)
(* leaves lan_rx and lan_tx as they are, which no property here is about.  *)
(***************************************************************************)
EXTENDS Days

(* What only an observer knows of the last import of each day.             *)
VARIABLES
  covered,            \* the sample rows its figure includes
  waiting             \* those that were not folded by then

ivars == <<vars, covered, waiting>>

OfDay(key, R) == {r \in R : DayOf(r.ts) = key[1] /\ r.iface = key[2]}

Figure(key) == [n |-> 0, ts |-> key[1], iface |-> key[2]]

Without(T, R) == [r \in DOMAIN T \ R |-> T[r]]

(* Mutant: the figure is added to what is there.                           *)
Upsert_Adds(key) == AddRows(daily, {Figure(key)})

(* INSERT, ON CONFLICT DO UPDATE SET rx, tx.                               *)
Upsert(key) == AddRows(Without(daily, OfDay(key, DOMAIN daily)), {Figure(key)})

(* One row of vnStat's daily list, a transaction of its own.               *)
ImportDay(key) ==
  /\ daily' = Upsert(key)
  /\ covered' = covered \cup OfDay(key, committed)
  /\ waiting' = (waiting \ OfDay(key, committed)) \cup OfDay(key, Unfolded)
  /\ UNCHANGED <<now, pc, samples, hourly, monthly, marker, memory, committed, writes>>

IInit == Init /\ covered = {} /\ waiting = {}

INext ==
  \/ Next /\ UNCHANGED <<covered, waiting>>
  \/ \E key \in DaysSoFar \X Iface : ImportDay(key)

ISpec == IInit /\ [][INext]_ivars

-----------------------------------------------------------------------------
(* Correctness.                                                            *)

Imported == {r \in DOMAIN daily : r.n = 0}

(* The figure in daily that includes the traffic of row r, if any.         *)
FigureOf(r) ==
  IF r \in covered THEN {Figure(<<DayOf(r.ts), r.iface>>)} \cap Imported ELSE {}

(* An import replaces what netmeter had measured of that day and nothing   *)
(* else, also while rollups fail and the clock is set back: the traffic of *)
(* every row that monthly counts, which no import touches, is in daily,    *)
(* as the row or in a figure.  In both are only rows that were waiting for *)
(* a rollup when the figure came: that rollup adds them once more.         *)
ImportReplacesItsDays ==
  /\ \A r \in DOMAIN monthly :
       LET times == Copies(r, daily) + Cardinality(FigureOf(r))
       IN  times = 1 \/ (times = 2 /\ r \in waiting)
  /\ \A r \in DOMAIN daily : daily[r] = 1 /\ (r \in Imported \/ Copies(r, monthly) = 1)

-----------------------------------------------------------------------------
(* PRD.md:170 says of the import: "Preserves history".                     *)
ImportPreserved == [][Imported \subseteq Imported']_ivars
=============================================================================
