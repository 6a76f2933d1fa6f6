------------------------------- MODULE Store -------------------------------
(***************************************************************************)
(* The storage life of a sample: written by the tick of the daemon         *)
(* (src/daemon.rs, `run`), folded into hourly, daily and monthly by        *)
(* `rollup` (src/db.rs) behind the marker meta.last_rollup_ts, pruned by   *)
(* `enforce_retention`, across stops, crashes, suspends and clock steps.   *)
(*                                                                         *)
(* A row of a rollup table holds sums of byte counts.  It is represented   *)
(* by what it sums: a table is a bag of sample rows, a function from the   *)
(* rows counted in any of its buckets to how many times.  The bytes in     *)
(* bucket b are then the sum over the rows r of the bag with b the floor   *)
(* of r.ts; `+=` adds to the bag and deleting a bucket removes its rows.   *)
(*                                                                         *)
(* Times are in one unit; `now` is the wall clock.  Every step between two *)
(* commits of the database is a step of `pc`, so that the daemon may die   *)
(* between them.                                                           *)
(***************************************************************************)
EXTENDS Integers, FiniteSets

CONSTANTS
  Iface,
  HourLen,           \* length of a bucket of the hourly table
  RawRet,            \* retention_days_raw
  HourlyRet,         \* retention_days_hourly
  RollupEvery,       \* 3600 s in the code
  RetainEvery,       \* 6 * 3600 s
  GapLimit,          \* poll_interval_sec * 2 + 5
  Sleeps,            \* how long one sleep of the tick loop may last
  MaxSuspend,        \* the machine is suspended at most so long per rollup
  MaxClock,          \* bound: the wall clock
  MaxWrites,         \* bound: ticks that write samples
  RollupMayFail,     \* a rollup may end in an error, which the code ignores
  ClockMayStepBack   \* the wall clock may be set back

ASSUME StoreAssumption ==
  /\ HourLen \in Nat \ {0}
  /\ RawRet \in Int /\ HourlyRet \in Int
  /\ RollupEvery \in Nat /\ RetainEvery \in Nat /\ GapLimit \in Nat
  /\ Sleeps \subseteq Nat \ {0}
  /\ MaxSuspend \in Nat /\ MaxClock \in Nat /\ MaxWrites \in Nat
  /\ RollupMayFail \in BOOLEAN /\ ClockMayStepBack \in BOOLEAN

ASSUME FiniteIface == IsFiniteSet(Iface)

VARIABLES
  now,               \* wall clock
  pc,                \* where the daemon is in its loop, "down" when not running
  samples,           \* the table of raw samples
  hourly, daily, monthly,
  marker,            \* meta.last_rollup_ts, or NoMarker
  prev,              \* interfaces with a baseline, the keys of `prev`
  sinceRollup,       \* last_rollup.elapsed()
  sinceRetain        \* last_retain.elapsed()

(* What only an observer knows.                                            *)
VARIABLES
  committed,         \* every sample row ever committed
  writes,            \* how many ticks have written samples
  suspended          \* how long the machine was suspended since last_rollup

tables == <<hourly, daily, monthly, marker>>
memory == <<prev, sinceRollup, sinceRetain, suspended>>
vars == <<now, pc, samples, tables, memory, committed, writes>>

-----------------------------------------------------------------------------
(* A sample row: n tells apart rows that a set-back clock puts at one key. *)
Row == [n : Nat, ts : Nat, iface : Iface]

NoMarker == -1

(* Mutants: the row of the marker is read again; the next one is skipped.  *)
Unfolded_MarkerIncluded == {r \in samples : r.ts >= marker}

Unfolded_SkipsOne == {r \in samples : r.ts > marker + 1}

(* The rows rollup reads: those newer than the marker, or all without one. *)
Unfolded == {r \in samples : r.ts > marker}

EmptyTable == [r \in {} |-> 0]

Copies(r, T) == IF r \in DOMAIN T THEN T[r] ELSE 0

(* INSERT ... ON CONFLICT DO UPDATE SET rx = rx + excluded.rx, ...         *)
AddRows(T, R) ==
  [r \in DOMAIN T \cup R |-> Copies(r, T) + IF r \in R THEN 1 ELSE 0]

(* Mutant: the marker is set to the oldest row folded.                     *)
IsNewest_Oldest(t, R) == \A r \in R : t <= r.ts

IsNewest(t, R) == \A r \in R : r.ts <= t

HourOf(t) == t - (t % HourLen)

Min2(a, b) == IF a <= b THEN a ELSE b

-----------------------------------------------------------------------------
Init ==
  /\ now = 0
  /\ pc = "down"
  /\ samples = {}
  /\ hourly = EmptyTable /\ daily = EmptyTable /\ monthly = EmptyTable
  /\ marker = NoMarker
  /\ prev = {} /\ sinceRollup = 0 /\ sinceRetain = 0
  /\ committed = {} /\ writes = 0 /\ suspended = 0

(* The daemon starts, without a baseline.  last_rollup is set an hour back, *)
(* so that the first tick rolls up what an earlier life left behind.       *)
Start ==
  /\ pc = "down"
  /\ pc' = "asleep"
  /\ prev' = {} /\ sinceRollup' = RollupEvery /\ sinceRetain' = 0 /\ suspended' = 0
  /\ UNCHANGED <<now, samples, tables, committed, writes>>

(* Time passes while the daemon is not running.                            *)
Pass ==
  /\ pc = "down"
  /\ now' \in now + 1 .. MaxClock
  /\ UNCHANGED <<pc, samples, tables, memory, committed, writes>>

(* The sleep of the loop ends after d seconds of the monotonic clock and s *)
(* more of the wall clock, which the monotonic one does not count.  After  *)
(* a long gap the tick forgets the baseline and goes back to sleep.        *)
Wake(d, s) ==
  /\ pc = "asleep"
  /\ suspended + s <= MaxSuspend
  /\ now + d + s <= MaxClock
  /\ now' = now + d + s
  /\ suspended' = suspended + s
  /\ sinceRollup' = Min2(sinceRollup + d, RollupEvery + 1)
  /\ sinceRetain' = Min2(sinceRetain + d, RetainEvery + 1)
  /\ IF d > GapLimit THEN prev' = {} /\ pc' = "asleep" ELSE prev' = prev /\ pc' = "sample"
  /\ UNCHANGED <<samples, tables, committed, writes>>

(* One transaction writes a row for every interface with traffic since its *)
(* baseline, in place of rows with the same key (ts, iface); a tick without *)
(* traffic writes nothing.  The reading is the next baseline; one that     *)
(* fails lists no interface.                                               *)
WriteSamples(S) ==
  /\ pc = "sample"
  /\ S \subseteq prev
  /\ prev' \in {I \in SUBSET Iface : S \subseteq I}
  /\ LET new == {[n |-> writes + 1, ts |-> now, iface |-> i] : i \in S}
     IN  /\ samples' = {r \in samples : r.ts # now \/ r.iface \notin S} \cup new
         /\ committed' = committed \cup new
  /\ S # {} => writes < MaxWrites
  /\ writes' = IF S = {} THEN writes ELSE writes + 1
  /\ pc' = "apps"
  /\ UNCHANGED <<now, tables, sinceRollup, sinceRetain, suspended>>

(* What the tick has recorded per app, samples or not, is committed to     *)
(* proc_hourly in a transaction of its own: what that does is TopApps'.    *)
WriteApps ==
  /\ pc = "apps"
  /\ pc' = "rollup"
  /\ UNCHANGED <<now, samples, tables, memory, committed, writes>>

(* Mutant: every rollup rebuilds the tables from the raw rows that remain. *)
Fold_Rebuild ==
  IF Unfolded = {} THEN UNCHANGED tables
  ELSE /\ hourly' = AddRows(EmptyTable, samples)
       /\ daily' = AddRows(EmptyTable, samples)
       /\ monthly' = AddRows(EmptyTable, samples)
       /\ marker' \in {r.ts : r \in samples}
       /\ IsNewest(marker', samples)

(* db::rollup: one transaction, and none at all when there is nothing new. *)
(* Without a marker the tables are emptied first.                          *)
Fold ==
  IF Unfolded = {} THEN UNCHANGED tables
  ELSE LET base(T) == IF marker = NoMarker THEN EmptyTable ELSE T
       IN  /\ hourly' = AddRows(base(hourly), Unfolded)
           /\ daily' = AddRows(base(daily), Unfolded)
           /\ monthly' = AddRows(base(monthly), Unfolded)
           /\ marker' \in {r.ts : r \in Unfolded}
           /\ IsNewest(marker', Unfolded)

(* `let _ = db::rollup(..)`: an error leaves the tables as they were.      *)
FoldOrFail == Fold \/ (RollupMayFail /\ UNCHANGED tables)

(* The timer restarts whether or not the rollup succeeded.                 *)
Rollup ==
  /\ pc = "rollup"
  /\ pc' = "retain"
  /\ IF sinceRollup > RollupEvery
     THEN FoldOrFail /\ sinceRollup' = 0 /\ suspended' = 0
     ELSE UNCHANGED <<tables, sinceRollup, suspended>>
  /\ UNCHANGED <<now, samples, prev, sinceRetain, committed, writes>>

(* Mutant: a row exactly retention_days_raw old is pruned as well.         *)
PruneRaw_OneTooMany == samples' = {r \in samples : r.ts > now - RawRet}

(* The DELETEs of enforce_retention, each a transaction of its own; that   *)
(* of proc_hourly, the last one, is TopApps'.                              *)
PruneRaw == samples' = {r \in samples : r.ts >= now - RawRet}

PruneHourly ==
  hourly' = [r \in {q \in DOMAIN hourly : HourOf(q.ts) >= now - HourlyRet} |-> hourly[r]]

RetainRaw ==
  /\ pc = "retain"
  /\ IF sinceRetain > RetainEvery
     THEN PruneRaw /\ pc' = "retainHourly"
     ELSE UNCHANGED samples /\ pc' = "asleep"
  /\ UNCHANGED <<now, tables, memory, committed, writes>>

RetainHourly ==
  /\ pc = "retainHourly"
  /\ PruneHourly
  /\ pc' = "retainApps"
  /\ UNCHANGED <<now, samples, daily, monthly, marker, memory, committed, writes>>

RetainApps ==
  /\ pc = "retainApps"
  /\ sinceRetain' = 0
  /\ pc' = "asleep"
  /\ UNCHANGED <<now, samples, tables, prev, sinceRollup, suspended, committed, writes>>

(* Mutant: a stop goes to retention without a last rollup.                 *)
Stop_WithoutRollup ==
  /\ pc = "asleep"
  /\ pc' = "stopRetain"
  /\ UNCHANGED <<now, samples, tables, memory, committed, writes>>

(* SIGTERM, noticed in the sleep: a last rollup and a last retention.      *)
Stop ==
  /\ pc = "asleep"
  /\ pc' = "stopRollup"
  /\ UNCHANGED <<now, samples, tables, memory, committed, writes>>

StopRollup ==
  /\ pc = "stopRollup"
  /\ FoldOrFail
  /\ pc' = "stopRetain"
  /\ UNCHANGED <<now, samples, memory, committed, writes>>

StopRetainRaw ==
  /\ pc = "stopRetain"
  /\ PruneRaw
  /\ pc' = "stopRetainHourly"
  /\ UNCHANGED <<now, tables, memory, committed, writes>>

StopRetainHourly ==
  /\ pc = "stopRetainHourly"
  /\ PruneHourly
  /\ pc' = "stopRetainApps"
  /\ UNCHANGED <<now, samples, daily, monthly, marker, memory, committed, writes>>

(* What the daemon keeps in memory goes with it.                           *)
Exit ==
  /\ pc' = "down"
  /\ prev' = {} /\ sinceRollup' = 0 /\ sinceRetain' = 0 /\ suspended' = 0
  /\ UNCHANGED <<now, samples, tables, committed, writes>>

StopRetainApps == pc = "stopRetainApps" /\ Exit

(* The daemon is killed, or returns an error of one of its database calls, *)
(* or ends a stop on one.                                                  *)
Crash == pc # "down" /\ Exit

StepBack ==
  /\ ClockMayStepBack
  /\ now' \in 0 .. now - 1
  /\ UNCHANGED <<pc, samples, tables, memory, committed, writes>>

Next ==
  \/ Start \/ Pass \/ Stop \/ Crash \/ StepBack
  \/ \E d \in Sleeps, s \in 0 .. MaxSuspend : Wake(d, s)
  \/ \E S \in SUBSET Iface : WriteSamples(S)
  \/ WriteApps
  \/ Rollup \/ RetainRaw \/ RetainHourly \/ RetainApps
  \/ StopRollup \/ StopRetainRaw \/ StopRetainHourly \/ StopRetainApps

Spec == Init /\ [][Next]_vars

-----------------------------------------------------------------------------
(* Correctness.                                                            *)

IsTable(T) ==
  /\ DOMAIN T \subseteq committed
  /\ T \in [DOMAIN T -> Nat \ {0}]

PCs == {"down", "asleep", "sample", "apps", "rollup", "retain", "retainHourly",
        "retainApps", "stopRollup", "stopRetain", "stopRetainHourly", "stopRetainApps"}

TypeOK ==
  /\ now \in Nat /\ pc \in PCs
  /\ samples \subseteq committed /\ committed \subseteq Row
  /\ IsTable(hourly) /\ IsTable(daily) /\ IsTable(monthly)
  /\ marker \in Nat \cup {NoMarker}
  /\ prev \subseteq Iface
  /\ sinceRollup \in Nat /\ sinceRetain \in Nat /\ suspended \in Nat
  /\ writes \in Nat

(* No sample is ever counted twice in a table, whatever fails, crashes or  *)
(* steps: the marker and the sums are committed together (db.rs:162-189).  *)
NeverTwice ==
  \A r \in committed :
    Copies(r, hourly) <= 1 /\ Copies(r, daily) <= 1 /\ Copies(r, monthly) <= 1

(* A row waits for the next rollup or is in the history, never both: what  *)
(* `show` adds up from the tables and what the next rollup will add to     *)
(* them do not overlap.                                                    *)
PendingNotCounted ==
  \A r \in Unfolded : Copies(r, daily) = 0 /\ Copies(r, monthly) = 0 /\ Copies(r, hourly) = 0

(* No committed sample is lost to daily and monthly, which are kept        *)
(* forever: retention never prunes a row before a rollup has folded it, on *)
(* any path of stop, crash, restart, gap or suspend.                       *)
NeverLost ==
  \A r \in committed : r \in Unfolded \/ (Copies(r, daily) = 1 /\ Copies(r, monthly) = 1)

(* Each table keeps a retention of its own.  Hourly has all that is folded *)
(* of retention_days_hourly, not of retention_days_raw (regression test    *)
(* db.rs:428-457); the raw rows of retention_days_raw, which `today`, the  *)
(* budget and the fallback of `show` sum up, are all there.                *)
TablesKeepTheirWindows ==
  \A r \in committed :
    /\ r \in Unfolded \/ Copies(r, hourly) = 1 \/ HourOf(r.ts) < now - HourlyRet
    /\ r \in samples \/ r.ts < now - RawRet

(* Store implements the promise of TrafficLedger, daily being the history. *)
Promise == INSTANCE TrafficLedger WITH recorded <- committed, history <- DOMAIN daily

ImplementsLedger == Promise!LSpec

=============================================================================
