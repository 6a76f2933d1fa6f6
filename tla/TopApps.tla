------------------------------ MODULE TopApps ------------------------------
(***************************************************************************)
(* proc_hourly, the table of the per-process recorder, in the life of the  *)
(* store: added to by a transaction of each tick, whether or not the tick  *)
(* had samples to write (src/daemon.rs, `run`), pruned by the last DELETE  *)
(* of enforce_retention with an age of its own, and summed up by           *)
(* `top-apps`, `top-proc` and the column of `live` (query_proc of          *)
(* src/db.rs).                                                             *)
(*                                                                         *)
(* How bytes come to be counted under an app is ProcRecorder's subject, as *)
(* are those a daemon takes with it that dies before that transaction.     *)
(* Here what one tick commits is one row, told apart by its time.          *)
(***************************************************************************)
EXTENDS Views

CONSTANTS
  ProcRet,      \* proc_retention_days
  MaxDrains     \* bound: ticks that have apps to commit

ASSUME TopAppsAssumption == ProcRet \in Int /\ MaxDrains \in Nat

VARIABLES
  apps,         \* the rows that proc_hourly sums
  drained       \* every such row ever committed, known to an observer only

appVars == <<apps, drained>>

TInit == Init /\ apps = {} /\ drained = {}

(* A tick on which drain_deltas() returned something; one on which it was  *)
(* empty is WriteApps alone.                                               *)
CommitApps ==
  /\ WriteApps
  /\ Cardinality(drained) < MaxDrains
  /\ apps' = apps \cup {now}
  /\ drained' = drained \cup {now}

(* proc_retention_days, but a day at the least.                            *)
ProcWindow == IF ProcRet > DayLen THEN ProcRet ELSE DayLen

(* Mutant: an age of no days prunes what is of today.                      *)
PruneApps_NoLeastAge == apps' = {t \in apps : HourOf(t) >= now - ProcRet}

(* The rows of an hour go together.                                        *)
PruneApps == apps' = {t \in apps : HourOf(t) >= now - ProcWindow}

(* The last DELETE, on the timer or on a stop.                             *)
DeleteApps ==
  /\ RetainApps \/ StopRetainApps
  /\ PruneApps
  /\ UNCHANGED drained

Others ==
  \/ Start \/ Pass \/ Stop \/ Crash \/ StepBack
  \/ \E d \in Sleeps, s \in 0 .. MaxSuspend : Wake(d, s)
  \/ \E S \in SUBSET Iface : WriteSamples(S)
  \/ WriteApps
  \/ Rollup \/ RetainRaw \/ RetainHourly
  \/ StopRollup \/ StopRetainRaw \/ StopRetainHourly

TNext ==
  \/ CommitApps
  \/ DeleteApps
  \/ Others /\ UNCHANGED appVars

TSpec == TInit /\ [][TNext]_<<vars, appVars>>

-----------------------------------------------------------------------------
(* Rows are stamped with the hour they are of.                             *)
QueryProc(from) == {t \in apps : HourOf(t) >= from}

(* top-apps; top-proc does the same every two seconds.                     *)
AppsSince(period) == QueryProc(WindowStart(period, now))

(* The column of `live`, and the first view of top-proc.                   *)
TodayTopApps == QueryProc(DayOf(now))

(* The apps of a day, a week or a month are all that were recorded since   *)
(* it began, before and after any retention, restart or crash, as long as  *)
(* the window is no longer than proc_retention_days, and today's even if   *)
(* that is set to none.  A month of 31 days outlives the default of 30.    *)
AppsOfTheWindow ==
  /\ TodayTopApps = {t \in drained : t \in DayOf(now) .. now}
  /\ \A period \in Period \ {"hour"} :
       LET start == WindowStart(period, now)
       IN  now - start <= ProcWindow =>
             AppsSince(period) = {t \in drained : t >= start}
=============================================================================
