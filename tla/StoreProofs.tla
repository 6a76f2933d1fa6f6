---------------------------- MODULE StoreProofs ----------------------------
(***************************************************************************)
(* The storage of netmeter and what reads it or writes beside it, for      *)
(* every retention, rollup interval, calendar and number of interfaces.    *)
(*                                                                         *)
(* Part 1: no sample is counted twice, whatever fails.  Part 2: none is    *)
(* lost, when rollups succeed, the clock is not set back and raw rows are  *)
(* kept longer than a rollup interval and the suspends within it.  Part 3: *)
(* under the same conditions Store implements TrafficLedger.  Part 4: the  *)
(* calendar, and what the views print.  Part 5: the apps.  Part 6: the     *)
(* import.                                                                 *)
(***************************************************************************)
EXTENDS TopApps, ImportedStore, FiniteSetTheorems, TLAPS

USE StoreAssumption DEF StoreAssumption

-----------------------------------------------------------------------------
(* Part 1.  A table counts a row once, no pending row is counted, and a    *)
(* row about to be written is new.                                         *)

CountsOnce(T) ==
  /\ \A r \in DOMAIN T : T[r] = 1
  /\ Unfolded \cap DOMAIN T = {}

OnceInv ==
  /\ TypeOK
  /\ CountsOnce(hourly) /\ CountsOnce(daily) /\ CountsOnce(monthly)
  /\ \A r \in committed : r.n <= writes

(* Every row has a timestamp and the number of a write that happened, and  *)
(* the raw table holds committed rows only.                                *)
LEMMA RowsAreTyped ==
  ASSUME OnceInv
  PROVE  /\ \A r \in committed : r.ts \in Nat /\ r.n \in Nat /\ r.n <= writes
         /\ \A r \in samples : r \in committed
  BY DEF OnceInv, TypeOK, Row

(* A new database counts nothing.                                          *)
LEMMA OnceInit == Init => OnceInv
  BY DEF Init, OnceInv, TypeOK, IsTable, EmptyTable, CountsOnce, Unfolded, PCs, NoMarker

(* A step that touches neither rows nor tables.                            *)
LEMMA OnceQuiet ==
  ASSUME OnceInv, UNCHANGED <<samples, tables, committed, writes>>,
         now' \in Nat, pc' \in PCs,
         prev' \subseteq Iface,
         sinceRollup' \in Nat, sinceRetain' \in Nat, suspended' \in Nat
  PROVE  OnceInv'
  BY DEF OnceInv, TypeOK, IsTable, CountsOnce, Unfolded, tables

(* Rows just written are in no table yet: their write number is new.       *)
LEMMA OnceWrite ==
  ASSUME OnceInv, NEW S \in SUBSET Iface, WriteSamples(S)
  PROVE  OnceInv'
<1> DEFINE new == {[n |-> writes + 1, ts |-> now, iface |-> i] : i \in S}
<1> USE DEF WriteSamples, tables, memory
<1>1. /\ committed' = committed \cup new
      /\ samples' = {r \in samples : r.ts # now \/ r.iface \notin S} \cup new
  OBVIOUS
<1>2. new \subseteq Row /\ (\A r \in new : r.n = writes + 1) /\ (new # {} => writes' = writes + 1)
  BY DEF OnceInv, TypeOK, Row
<1>3. \A r \in committed' : r.n <= writes'
  BY <1>1, <1>2, RowsAreTyped DEF OnceInv, TypeOK
<1>4. TypeOK'
  BY <1>1, <1>2 DEF OnceInv, TypeOK, IsTable, PCs
<1>5. ASSUME NEW T, CountsOnce(T), DOMAIN T \subseteq committed
      PROVE  (Unfolded' \cap DOMAIN T = {})
  <2>1. \A r \in DOMAIN T : r.n <= writes
    BY <1>5, RowsAreTyped
  <2>2. new \cap DOMAIN T = {}
    BY <1>2, <2>1 DEF OnceInv, TypeOK
  <2>3. Unfolded' \subseteq Unfolded \cup new
    BY <1>1 DEF Unfolded
  <2> QED BY <1>5, <2>2, <2>3 DEF CountsOnce
<1>6. CountsOnce(hourly)' /\ CountsOnce(daily)' /\ CountsOnce(monthly)'
  BY <1>5 DEF OnceInv, TypeOK, IsTable, CountsOnce
<1> QED BY <1>3, <1>4, <1>6 DEF OnceInv

(* After a rollup nothing is pending and each row read is counted once.    *)
LEMMA FoldTable ==
  ASSUME NEW T, NEW R, IsTable(T), CountsOnce(T), R \subseteq Unfolded, OnceInv
  PROVE  /\ DOMAIN AddRows(T, R) = DOMAIN T \cup R
         /\ \A r \in DOMAIN AddRows(T, R) : AddRows(T, R)[r] = 1
         /\ IsTable(AddRows(T, R))
<1>1. DOMAIN AddRows(T, R) = DOMAIN T \cup R
  BY DEF AddRows
<1>2. \A r \in DOMAIN AddRows(T, R) : AddRows(T, R)[r] = 1
  BY DEF AddRows, Copies, CountsOnce
<1>3. R \subseteq committed
  BY DEF Unfolded, OnceInv, TypeOK
<1>4. DOMAIN AddRows(T, R) \subseteq committed
  BY <1>1, <1>3 DEF IsTable
<1>5. AddRows(T, R) \in [DOMAIN AddRows(T, R) -> Nat \ {0}]
  <2>1. AddRows(T, R) = [r \in DOMAIN AddRows(T, R) |-> AddRows(T, R)[r]]
    BY <1>1 DEF AddRows
  <2> QED BY <1>2, <2>1
<1> QED BY <1>1, <1>2, <1>4, <1>5 DEF IsTable

(* The rollup marker moves to the newest row folded, so nothing stays above *)
(* it (db.rs:126-180).                                                     *)
LEMMA FoldNothingPending ==
  ASSUME \A r \in samples : r.ts \in Nat, marker \in Nat \cup {NoMarker},
         Fold, samples' = samples
  PROVE  Unfolded' = {} /\ marker' \in Nat \cup {NoMarker}
<1>1. CASE Unfolded = {}
  BY <1>1 DEF Fold, tables, Unfolded
<1>2. CASE Unfolded # {}
  <2>1. PICK q \in Unfolded : marker' = q.ts
    BY <1>2 DEF Fold
  <2>2. \A r \in Unfolded : r.ts <= marker'
    BY <1>2 DEF Fold, IsNewest
  <2>3. marker' \in Nat /\ marker' > marker
    BY <2>1 DEF Unfolded, NoMarker
  <2>4. \A r \in samples : ~(r.ts > marker')
    BY <2>2, <2>3 DEF Unfolded, NoMarker
  <2> QED BY <2>3, <2>4 DEF Unfolded
<1> QED BY <1>1, <1>2

(* A rollup adds rows that no table counted, and leaves none pending.      *)
LEMMA OnceFold ==
  ASSUME OnceInv, Fold, UNCHANGED <<samples, committed, writes>>,
         now' \in Nat, pc' \in PCs,
         prev' \subseteq Iface,
         sinceRollup' \in Nat, sinceRetain' \in Nat, suspended' \in Nat
  PROVE  OnceInv'
<1>1. CASE Unfolded = {}
  BY <1>1, OnceQuiet DEF Fold
<1>2. CASE Unfolded # {}
  <2> DEFINE base(T) == IF marker = NoMarker THEN EmptyTable ELSE T
  <2>1. /\ hourly' = AddRows(base(hourly), Unfolded)
        /\ daily' = AddRows(base(daily), Unfolded)
        /\ monthly' = AddRows(base(monthly), Unfolded)
    BY <1>2 DEF Fold
  <2>2. IsTable(EmptyTable) /\ CountsOnce(EmptyTable)
    BY DEF IsTable, EmptyTable, CountsOnce
  <2>3. /\ IsTable(base(hourly)) /\ CountsOnce(base(hourly))
        /\ IsTable(base(daily)) /\ CountsOnce(base(daily))
        /\ IsTable(base(monthly)) /\ CountsOnce(base(monthly))
    BY <2>2 DEF OnceInv, TypeOK
  <2> HIDE DEF base
  <2>4. /\ IsTable(hourly') /\ \A r \in DOMAIN hourly' : hourly'[r] = 1
        /\ IsTable(daily') /\ \A r \in DOMAIN daily' : daily'[r] = 1
        /\ IsTable(monthly') /\ \A r \in DOMAIN monthly' : monthly'[r] = 1
    BY <2>1, <2>3, FoldTable
  <2>5. Unfolded' = {} /\ marker' \in Nat \cup {NoMarker}
    BY FoldNothingPending, RowsAreTyped DEF OnceInv, TypeOK
  <2>6. TypeOK'
    BY <2>4, <2>5 DEF OnceInv, TypeOK, IsTable
  <2> QED BY <2>4, <2>5, <2>6 DEF OnceInv, CountsOnce
<1> QED BY <1>1, <1>2

(* Dropping raw rows counts nothing more.                                  *)
LEMMA OncePruneRaw ==
  ASSUME OnceInv, PruneRaw, UNCHANGED <<tables, committed, writes>>,
         now' \in Nat, pc' \in PCs,
         prev' \subseteq Iface,
         sinceRollup' \in Nat, sinceRetain' \in Nat, suspended' \in Nat
  PROVE  OnceInv'
  BY DEF OnceInv, TypeOK, IsTable, CountsOnce, Unfolded, tables, PruneRaw

(* Dropping hourly rows counts nothing more.                               *)
LEMMA OncePruneHourly ==
  ASSUME OnceInv, PruneHourly, UNCHANGED <<samples, daily, monthly, marker, committed, writes>>,
         now' \in Nat, pc' \in PCs,
         prev' \subseteq Iface,
         sinceRollup' \in Nat, sinceRetain' \in Nat, suspended' \in Nat
  PROVE  OnceInv'
  BY DEF OnceInv, TypeOK, IsTable, CountsOnce, Unfolded, PruneHourly

(* Every step of the daemon, crashes and clock steps included, preserves   *)
(* OnceInv.                                                                *)
LEMMA OnceNext == OnceInv /\ [Next]_vars => OnceInv'
<1> SUFFICES ASSUME OnceInv, [Next]_vars PROVE OnceInv'
  OBVIOUS
<1>0. /\ now \in Nat /\ pc \in PCs
      /\ prev \subseteq Iface
      /\ sinceRollup \in Nat /\ sinceRetain \in Nat /\ suspended \in Nat
  BY DEF OnceInv, TypeOK
<1> USE DEF PCs, tables, memory
<1>1. CASE Start
  BY <1>0, <1>1, OnceQuiet DEF Start
<1>2. CASE Pass
  BY <1>0, <1>2, OnceQuiet DEF Pass
<1>3. CASE Stop
  BY <1>0, <1>3, OnceQuiet DEF Stop
<1>4. CASE Crash
  BY <1>0, <1>4, OnceQuiet DEF Crash, Exit
<1>5. CASE StepBack
  BY <1>0, <1>5, OnceQuiet DEF StepBack
<1>6. ASSUME NEW d \in Sleeps, NEW s \in 0 .. MaxSuspend, Wake(d, s) PROVE OnceInv'
  BY <1>0, <1>6, OnceQuiet DEF Wake, Min2
<1>7. ASSUME NEW S \in SUBSET Iface, WriteSamples(S) PROVE OnceInv'
  BY <1>7, OnceWrite
<1>8. CASE Rollup
  <2>1. UNCHANGED <<samples, committed, writes>> /\ now' \in Nat /\ pc' \in PCs
        /\ prev' \subseteq Iface /\ sinceRollup' \in Nat /\ sinceRetain' \in Nat /\ suspended' \in Nat
    BY <1>0, <1>8 DEF Rollup
  <2>2. CASE Fold
    BY <2>1, <2>2, OnceFold
  <2>3. CASE UNCHANGED tables
    BY <2>1, <2>3, OnceQuiet
  <2> QED BY <1>8, <2>2, <2>3 DEF Rollup, FoldOrFail
<1>9. CASE RetainRaw
  <2>1. UNCHANGED <<tables, committed, writes>> /\ now' \in Nat /\ pc' \in PCs
        /\ prev' \subseteq Iface /\ sinceRollup' \in Nat /\ sinceRetain' \in Nat /\ suspended' \in Nat
    BY <1>0, <1>9 DEF RetainRaw
  <2>2. CASE PruneRaw
    BY <2>1, <2>2, OncePruneRaw
  <2>3. CASE UNCHANGED samples
    BY <2>1, <2>3, OnceQuiet
  <2> QED BY <1>9, <2>2, <2>3 DEF RetainRaw
<1>10. CASE RetainHourly
  BY <1>0, <1>10, OncePruneHourly DEF RetainHourly
<1>11. CASE StopRollup
  <2>1. UNCHANGED <<samples, committed, writes>> /\ now' \in Nat /\ pc' \in PCs
        /\ prev' \subseteq Iface /\ sinceRollup' \in Nat /\ sinceRetain' \in Nat /\ suspended' \in Nat
    BY <1>0, <1>11 DEF StopRollup
  <2>2. CASE Fold
    BY <2>1, <2>2, OnceFold
  <2>3. CASE UNCHANGED tables
    BY <2>1, <2>3, OnceQuiet
  <2> QED BY <1>11, <2>2, <2>3 DEF StopRollup, FoldOrFail
<1>12. CASE StopRetainRaw
  BY <1>0, <1>12, OncePruneRaw DEF StopRetainRaw
<1>13. CASE StopRetainHourly
  BY <1>0, <1>13, OncePruneHourly DEF StopRetainHourly
<1>14. CASE WriteApps \/ RetainApps
  BY <1>0, <1>14, OnceQuiet DEF WriteApps, RetainApps
<1>15. CASE StopRetainApps
  BY <1>0, <1>15, OnceQuiet DEF StopRetainApps, Exit
<1>16. CASE UNCHANGED vars
  BY <1>0, <1>16, OnceQuiet DEF vars
<1> QED BY <1>1, <1>2, <1>3, <1>4, <1>5, <1>6, <1>7, <1>8, <1>9, <1>10, <1>11,
           <1>12, <1>13, <1>14, <1>15, <1>16 DEF Next

(* OnceInv holds in every state of the store, whatever fails or crashes.   *)
THEOREM StoreOnce == Spec => []OnceInv
<1>1. Init => OnceInv
  BY OnceInit
<1>2. OnceInv /\ [Next]_vars => OnceInv'
  BY OnceNext
<1> QED BY <1>1, <1>2, PTL DEF Spec

(* The rows, tables and timers of the store have their types.              *)
THEOREM StoreTypeOK == Spec => []TypeOK
<1>1. OnceInv => TypeOK
  BY DEF OnceInv
<1> QED BY <1>1, StoreOnce, PTL

(* No sample is counted twice: for every retention and interval, and with  *)
(* crashes, failing rollups and clock steps.                               *)
THEOREM StoreNeverTwice == Spec => []NeverTwice
<1>1. OnceInv => NeverTwice
  BY DEF OnceInv, CountsOnce, NeverTwice, Copies
<1> QED BY <1>1, StoreOnce, PTL

(* What waits for the next rollup is not in the tables yet.                *)
THEOREM StorePendingNotCounted == Spec => []PendingNotCounted
<1>1. OnceInv => PendingNotCounted
  BY DEF OnceInv, CountsOnce, PendingNotCounted, Copies
<1> QED BY <1>1, StoreOnce, PTL

-----------------------------------------------------------------------------
(* Part 2.  A pending row is no older than the time since the last rollup: *)
(* too young for retention.                                                *)

SaneConditions ==
  /\ ~RollupMayFail /\ ~ClockMayStepBack
  /\ RollupEvery + MaxSuspend <= RawRet

PendingIsYoung ==
  \A r \in Unfolded : now - r.ts <= sinceRollup + suspended

KeptInv ==
  /\ OnceInv
  /\ NeverLost
  /\ \A r \in committed : r.ts <= now /\ (pc = "sample" => r.ts < now)
  /\ marker <= now /\ (pc = "sample" => marker < now)
  /\ marker = NoMarker => DOMAIN hourly = {} /\ DOMAIN daily = {} /\ DOMAIN monthly = {}
  /\ suspended <= MaxSuspend
  /\ pc = "asleep" /\ sinceRollup < RollupEvery => PendingIsYoung
  /\ pc \in {"sample", "apps", "rollup", "retain"} /\ sinceRollup <= RollupEvery => PendingIsYoung
  /\ pc = "retain" => sinceRollup <= RollupEvery
  /\ pc \in {"retainHourly", "retainApps"} => (sinceRollup < RollupEvery => PendingIsYoung)
  /\ pc = "stopRetain" => Unfolded = {}

(* The types of KeptInv's parts, in the form the arithmetic below needs.   *)
LEMMA KeptTypes ==
  ASSUME KeptInv
  PROVE  /\ \A r \in committed : r.ts \in Nat
         /\ samples \subseteq committed /\ Unfolded \subseteq samples
         /\ now \in Nat /\ marker \in Int /\ marker >= NoMarker
         /\ sinceRollup \in Nat /\ suspended \in Nat
         /\ DOMAIN hourly \subseteq committed
         /\ DOMAIN daily \subseteq committed /\ DOMAIN monthly \subseteq committed
<1>1. OnceInv /\ TypeOK
  BY DEF KeptInv, OnceInv
<1>2. \A r \in committed : r.ts \in Nat
  BY <1>1, RowsAreTyped
<1>3. Unfolded \subseteq samples
  BY DEF Unfolded
<1> QED BY <1>1, <1>2, <1>3 DEF TypeOK, IsTable, NoMarker

(* A new database has lost nothing.                                        *)
LEMMA KeptInit == Init => KeptInv
<1> SUFFICES ASSUME Init PROVE KeptInv
  OBVIOUS
<1>1. OnceInv
  BY OnceInit
<1>2. committed = {} /\ Unfolded = {}
  BY DEF Init, Unfolded
<1> QED BY <1>1, <1>2 DEF Init, KeptInv, NeverLost, PendingIsYoung, NoMarker, EmptyTable

(* A step that touches neither rows nor tables loses nothing.              *)
LEMMA NeverLostQuiet ==
  ASSUME NeverLost, UNCHANGED <<samples, tables, committed>>
  PROVE  NeverLost' /\ Unfolded' = Unfolded
  BY DEF NeverLost, Unfolded, tables

(* Only time passes, in the sleep: every row becomes older by d + s, and   *)
(* the timers show it.                                                     *)
LEMMA KeptWake ==
  ASSUME KeptInv, OnceInv', NEW d \in Sleeps, NEW s \in 0 .. MaxSuspend, Wake(d, s)
  PROVE  KeptInv'
<1> USE DEF Wake
<1>1. /\ d \in Nat /\ d >= 1 /\ s \in Nat
      /\ now' = now + d + s /\ suspended' = suspended + s
      /\ sinceRollup' = Min2(sinceRollup + d, RollupEvery + 1)
      /\ pc = "asleep" /\ pc' \in {"asleep", "sample"}
  OBVIOUS
<1>2. NeverLost' /\ Unfolded' = Unfolded
  BY NeverLostQuiet DEF KeptInv
<1>3. ASSUME sinceRollup' <= RollupEvery PROVE PendingIsYoung'
  <2>1. sinceRollup' = sinceRollup + d /\ sinceRollup < RollupEvery
    BY <1>1, <1>3, KeptTypes DEF Min2
  <2>2. PendingIsYoung
    BY <1>1, <2>1 DEF KeptInv
  <2> QED BY <1>1, <1>2, <2>1, <2>2, KeptTypes DEF PendingIsYoung
<1>4. \A r \in committed' : r.ts <= now' /\ r.ts < now'
  BY <1>1, KeptTypes DEF KeptInv
<1>5. marker' <= now' /\ marker' < now'
  BY <1>1, KeptTypes DEF KeptInv, tables
<1>6. sinceRollup' < RollupEvery => sinceRollup' <= RollupEvery
  BY <1>1, KeptTypes DEF Min2
<1>7. suspended' <= MaxSuspend
  OBVIOUS
<1>8. marker' = NoMarker =>
        DOMAIN hourly' = {} /\ DOMAIN daily' = {} /\ DOMAIN monthly' = {}
  BY DEF KeptInv, tables
<1> QED BY <1>1, <1>2, <1>3, <1>4, <1>5, <1>6, <1>7, <1>8 DEF KeptInv

(* The rows a tick writes are pending, and replace none: the clock has     *)
(* moved on since the last tick.                                           *)
LEMMA KeptWrite ==
  ASSUME KeptInv, OnceInv', NEW S \in SUBSET Iface, WriteSamples(S)
  PROVE  KeptInv'
<1> DEFINE new == {[n |-> writes + 1, ts |-> now, iface |-> i] : i \in S}
<1> USE DEF WriteSamples, tables, memory
<1>1. \A r \in samples : r.ts # now
  BY KeptTypes DEF KeptInv
<1>2. samples' = samples \cup new /\ committed' = committed \cup new
  BY <1>1
<1>3. \A r \in new : r.ts = now
  OBVIOUS
<1>4. Unfolded' = Unfolded \cup new
  BY <1>2, <1>3, KeptTypes DEF KeptInv, Unfolded
<1>5. NeverLost'
  BY <1>2, <1>4 DEF KeptInv, NeverLost
<1>6. PendingIsYoung => PendingIsYoung'
  BY <1>3, <1>4, KeptTypes DEF PendingIsYoung
<1>7. \A r \in committed' : r.ts <= now'
  BY <1>2, <1>3, KeptTypes DEF KeptInv
<1>8. pc = "sample" /\ pc' = "apps"
  OBVIOUS
<1> QED BY <1>5, <1>6, <1>7, <1>8, KeptTypes DEF KeptInv

(* A rollup moves every pending row into the tables.                       *)
LEMMA FoldKeeps ==
  ASSUME KeptInv, OnceInv', Fold, UNCHANGED <<now, samples, committed>>
  PROVE  /\ NeverLost' /\ Unfolded' = {} /\ marker' <= now
         /\ marker' = NoMarker =>
              DOMAIN hourly' = {} /\ DOMAIN daily' = {} /\ DOMAIN monthly' = {}
         /\ DOMAIN daily' = committed
<1>1. Unfolded' = {}
  BY FoldNothingPending, RowsAreTyped DEF KeptInv, OnceInv, TypeOK
<1>2. CASE Unfolded = {}
  <2>1. DOMAIN daily = committed
    <3>1. \A r \in committed : Copies(r, daily) = 1
      BY <1>2 DEF KeptInv, NeverLost
    <3>2. \A r \in committed : r \in DOMAIN daily
      BY <3>1 DEF Copies
    <3> QED BY <3>2, KeptTypes
  <2> QED BY <1>1, <1>2, <2>1 DEF Fold, tables, KeptInv, NeverLost, Copies
<1>3. CASE Unfolded # {}
  <2> DEFINE base(T) == IF marker = NoMarker THEN EmptyTable ELSE T
  <2>1. /\ daily' = AddRows(base(daily), Unfolded)
        /\ monthly' = AddRows(base(monthly), Unfolded)
    BY <1>3 DEF Fold
  <2>2. DOMAIN base(daily) = DOMAIN daily /\ DOMAIN base(monthly) = DOMAIN monthly
    BY DEF KeptInv, EmptyTable
  <2>3. /\ DOMAIN daily' = DOMAIN daily \cup Unfolded
        /\ DOMAIN monthly' = DOMAIN monthly \cup Unfolded
    BY <2>1, <2>2 DEF AddRows
  <2>4. /\ \A r \in committed : r \in DOMAIN daily' /\ r \in DOMAIN monthly'
        /\ DOMAIN daily' \subseteq committed
    BY <2>3, KeptTypes DEF KeptInv, NeverLost, Copies
  <2>5. NeverLost'
    BY <2>4 DEF NeverLost, Copies, OnceInv, CountsOnce
  <2>6. PICK q \in Unfolded : marker' = q.ts
    BY <1>3 DEF Fold
  <2>7. marker' \in Nat /\ marker' <= now
    BY <2>6, KeptTypes DEF KeptInv
  <2>8. DOMAIN daily' = committed
    BY <2>4
  <2>9. marker' # NoMarker
    BY <2>7 DEF NoMarker
  <2> QED BY <1>1, <2>5, <2>7, <2>8, <2>9
<1> QED BY <1>2, <1>3

(* Retention takes only rows that are counted.                             *)
LEMMA PruneKeeps ==
  ASSUME KeptInv, PruneRaw, UNCHANGED <<now, tables, committed>>,
         \A r \in Unfolded : r.ts >= now - RawRet
  PROVE  NeverLost' /\ Unfolded' = Unfolded
  BY DEF KeptInv, NeverLost, Unfolded, PruneRaw, tables

(* Under SaneConditions every step of the daemon preserves KeptInv.        *)
LEMMA KeptNext ==
  ASSUME SaneConditions, KeptInv, [Next]_vars
  PROVE  KeptInv'
<1> USE DEF SaneConditions
<1>0. OnceInv'
  BY OnceNext DEF KeptInv
<1>1. CASE Start
  <2>1. NeverLost' /\ Unfolded' = Unfolded
    BY <1>1, NeverLostQuiet DEF KeptInv, Start
  <2>2. pc' = "asleep" /\ ~(sinceRollup' < RollupEvery)
    BY <1>1 DEF Start
  <2> QED BY <1>0, <1>1, <2>1, <2>2 DEF KeptInv, Start, tables
<1>2. CASE Pass
  <2>1. NeverLost' /\ Unfolded' = Unfolded
    BY <1>2, NeverLostQuiet DEF KeptInv, Pass
  <2>2. pc' = "down" /\ now' >= now /\ now' \in Nat /\ suspended' = suspended
    BY <1>2, KeptTypes DEF Pass, memory
  <2>3. \A r \in committed' : r.ts <= now'
    BY <1>2, <2>2, KeptTypes DEF KeptInv, Pass
  <2>4. marker' <= now'
    BY <1>2, <2>2, KeptTypes DEF KeptInv, Pass, tables
  <2> QED BY <1>0, <1>2, <2>1, <2>2, <2>3, <2>4 DEF KeptInv, Pass, tables
<1>3. CASE Stop
  <2>1. NeverLost' /\ Unfolded' = Unfolded
    BY <1>3, NeverLostQuiet DEF KeptInv, Stop
  <2> QED BY <1>0, <1>3, <2>1 DEF KeptInv, Stop, tables, memory
<1>4. CASE Crash
  <2>1. NeverLost' /\ Unfolded' = Unfolded
    BY <1>4, NeverLostQuiet DEF KeptInv, Crash, Exit
  <2> QED BY <1>0, <1>4, <2>1 DEF KeptInv, Crash, Exit, tables
<1>5. CASE StepBack
  BY <1>5 DEF StepBack
<1>6. ASSUME NEW d \in Sleeps, NEW s \in 0 .. MaxSuspend, Wake(d, s) PROVE KeptInv'
  BY <1>0, <1>6, KeptWake
<1>7. ASSUME NEW S \in SUBSET Iface, WriteSamples(S) PROVE KeptInv'
  BY <1>0, <1>7, KeptWrite
<1>8. CASE Rollup
  <2>1. /\ pc' = "retain" /\ UNCHANGED <<now, samples, committed>>
        /\ \A r \in committed : r.ts <= now
    BY <1>8 DEF Rollup, KeptInv
  <2>2. CASE sinceRollup > RollupEvery
    <3>1. Fold /\ sinceRollup' = 0 /\ suspended' = 0
      BY <1>8, <2>2 DEF Rollup, FoldOrFail
    <3>2. /\ NeverLost' /\ Unfolded' = {} /\ marker' <= now
          /\ marker' = NoMarker =>
               DOMAIN hourly' = {} /\ DOMAIN daily' = {} /\ DOMAIN monthly' = {}
      BY <1>0, <2>1, <3>1, FoldKeeps
    <3> QED BY <1>0, <2>1, <3>1, <3>2 DEF KeptInv, PendingIsYoung
  <2>3. CASE sinceRollup <= RollupEvery
    <3>1. UNCHANGED <<tables, sinceRollup, suspended>>
      BY <1>8, <2>3, KeptTypes DEF Rollup
    <3>2. NeverLost' /\ Unfolded' = Unfolded
      BY <2>1, <3>1, NeverLostQuiet DEF KeptInv
    <3>3. PendingIsYoung'
      BY <1>8, <2>1, <2>3, <3>1, <3>2 DEF KeptInv, PendingIsYoung, Rollup
    <3> QED BY <1>0, <2>1, <2>3, <3>1, <3>2, <3>3 DEF KeptInv, tables
  <2> QED BY <2>2, <2>3, KeptTypes
<1>9. CASE RetainRaw
  <2>1. /\ pc = "retain" /\ UNCHANGED <<now, tables, memory, committed>>
        /\ pc' \in {"retainHourly", "asleep"}
    BY <1>9 DEF RetainRaw
  <2>2. PendingIsYoung /\ sinceRollup <= RollupEvery
    BY <2>1 DEF KeptInv
  <2>3. \A r \in Unfolded : r.ts >= now - RawRet
    BY <2>2, KeptTypes DEF KeptInv, PendingIsYoung
  <2>4. NeverLost' /\ Unfolded' = Unfolded
    <3>1. CASE PruneRaw
      BY <2>1, <2>3, <3>1, PruneKeeps
    <3>2. CASE UNCHANGED samples
      BY <2>1, <3>2, NeverLostQuiet DEF KeptInv
    <3> QED BY <1>9, <3>1, <3>2 DEF RetainRaw
  <2>5. PendingIsYoung'
    BY <2>1, <2>2, <2>4 DEF PendingIsYoung, memory
  <2> QED BY <1>0, <2>1, <2>4, <2>5 DEF KeptInv, tables, memory
<1>10. CASE RetainHourly
  <2>1. NeverLost' /\ Unfolded' = Unfolded
    BY <1>10 DEF RetainHourly, KeptInv, NeverLost, Unfolded
  <2>2. DOMAIN hourly = {} => DOMAIN hourly' = {}
    BY <1>10 DEF RetainHourly, PruneHourly
  <2>3. sinceRollup < RollupEvery => PendingIsYoung'
    BY <1>10, <2>1 DEF RetainHourly, KeptInv, PendingIsYoung, memory
  <2> QED BY <1>0, <1>10, <2>1, <2>2, <2>3 DEF RetainHourly, KeptInv, memory
<1>11. CASE StopRollup
  <2>1. Fold /\ UNCHANGED <<now, samples, committed, suspended>> /\ pc' = "stopRetain"
    BY <1>11 DEF StopRollup, FoldOrFail, memory
  <2>2. /\ NeverLost' /\ Unfolded' = {} /\ marker' <= now
        /\ marker' = NoMarker =>
             DOMAIN hourly' = {} /\ DOMAIN daily' = {} /\ DOMAIN monthly' = {}
    BY <1>0, <2>1, FoldKeeps
  <2> QED BY <1>0, <2>1, <2>2 DEF KeptInv
<1>12. CASE StopRetainRaw
  <2>1. Unfolded = {} /\ UNCHANGED <<now, tables, memory, committed>>
    BY <1>12 DEF StopRetainRaw, KeptInv
  <2>2. NeverLost' /\ Unfolded' = Unfolded
    BY <1>12, <2>1, PruneKeeps DEF StopRetainRaw
  <2> QED BY <1>0, <1>12, <2>1, <2>2 DEF StopRetainRaw, KeptInv, tables, memory
<1>13. CASE StopRetainHourly
  <2>1. NeverLost' /\ Unfolded' = Unfolded
    BY <1>13 DEF StopRetainHourly, KeptInv, NeverLost, Unfolded
  <2>2. DOMAIN hourly = {} => DOMAIN hourly' = {}
    BY <1>13 DEF StopRetainHourly, PruneHourly
  <2> QED BY <1>0, <1>13, <2>1, <2>2 DEF StopRetainHourly, KeptInv, memory
<1>14. CASE WriteApps \/ RetainApps
  <2>1. UNCHANGED <<now, samples, tables, committed, sinceRollup, suspended>>
    BY <1>14 DEF WriteApps, RetainApps, memory
  <2>2. NeverLost' /\ Unfolded' = Unfolded
    BY <2>1, NeverLostQuiet DEF KeptInv
  <2>3. PendingIsYoung' <=> PendingIsYoung
    BY <2>1, <2>2 DEF PendingIsYoung
  <2>4. \/ pc = "apps" /\ pc' = "rollup"
        \/ pc = "retainApps" /\ pc' = "asleep"
    BY <1>14 DEF WriteApps, RetainApps
  <2> QED BY <1>0, <2>1, <2>2, <2>3, <2>4 DEF KeptInv, tables
<1>15. CASE StopRetainApps
  <2>1. NeverLost' /\ Unfolded' = Unfolded
    BY <1>15, NeverLostQuiet DEF KeptInv, StopRetainApps, Exit
  <2> QED BY <1>0, <1>15, <2>1 DEF KeptInv, StopRetainApps, Exit, tables
<1>16. CASE UNCHANGED vars
  <2>1. NeverLost' /\ Unfolded' = Unfolded
    BY <1>16, NeverLostQuiet DEF KeptInv, vars
  <2>2. PendingIsYoung' <=> PendingIsYoung
    BY <1>16, <2>1 DEF PendingIsYoung, vars, memory
  <2> QED BY <1>0, <1>16, <2>1, <2>2 DEF KeptInv, vars, tables, memory
<1> QED BY <1>1, <1>2, <1>3, <1>4, <1>5, <1>6, <1>7, <1>8, <1>9, <1>10, <1>11,
           <1>12, <1>13, <1>14, <1>15, <1>16 DEF Next

(* KeptInv holds in every state under SaneConditions: pending rows stay    *)
(* younger than raw retention, so retention never takes one.               *)
THEOREM StoreKept ==
  ASSUME SaneConditions
  PROVE  Spec => []KeptInv
<1>1. Init => KeptInv
  BY KeptInit
<1>2. KeptInv /\ [Next]_vars => KeptInv'
  BY KeptNext
<1> QED BY <1>1, <1>2, PTL DEF Spec

(* No committed sample is lost to daily and monthly, on any path of stop,  *)
(* crash, restart, gap and bounded suspend, for every poll interval, every *)
(* rollup interval and every raw retention that outlasts it.               *)
THEOREM StoreNeverLost ==
  ASSUME SaneConditions
  PROVE  Spec => []NeverLost
<1>1. KeptInv => NeverLost
  BY DEF KeptInv
<1> QED BY <1>1, StoreKept, PTL

-----------------------------------------------------------------------------
(* Under the same conditions each table keeps its window.                  *)

(* TablesKeepTheirWindows, of a table that counts nothing twice.           *)
Windows ==
  \A r \in committed :
    /\ r \in Unfolded \/ r \in DOMAIN hourly \/ HourOf(r.ts) < now - HourlyRet
    /\ r \in samples \/ r.ts < now - RawRet

LEMMA WindowsSayIt == OnceInv /\ Windows => TablesKeepTheirWindows
  BY DEF OnceInv, CountsOnce, Copies, Windows, TablesKeepTheirWindows

LEMMA HoursAreInts == \A t \in Nat : HourOf(t) \in Int
  BY DEF HourOf

(* A step that touches neither rows nor tables, and no clock set back.     *)
LEMMA WindowsQuiet ==
  ASSUME KeptInv, Windows, UNCHANGED <<samples, tables, committed>>, now' \in Nat, now' >= now
  PROVE  Windows'
<1>1. Unfolded' = Unfolded
  BY DEF Unfolded, tables
<1>2. \A r \in committed : r.ts \in Nat /\ HourOf(r.ts) \in Int
  BY KeptTypes, HoursAreInts
<1> QED BY <1>1, <1>2, KeptTypes DEF Windows, tables

(* A rollup puts what was pending into hourly.                             *)
LEMMA WindowsFold ==
  ASSUME KeptInv, OnceInv', Windows, Fold, UNCHANGED <<now, samples, committed>>
  PROVE  Windows'
<1>1. CASE Unfolded = {}
  BY <1>1, WindowsQuiet, KeptTypes DEF Fold
<1>2. CASE Unfolded # {}
  <2> DEFINE base(T) == IF marker = NoMarker THEN EmptyTable ELSE T
  <2>1. hourly' = AddRows(base(hourly), Unfolded)
    BY <1>2 DEF Fold
  <2>2. DOMAIN base(hourly) = DOMAIN hourly
    BY DEF KeptInv, EmptyTable
  <2>3. DOMAIN hourly' = DOMAIN hourly \cup Unfolded
    BY <2>1, <2>2 DEF AddRows
  <2> QED BY <2>3 DEF Windows
<1> QED BY <1>1, <1>2

(* Retention of the raw rows takes none that is pending or within the age. *)
LEMMA WindowsPruneRaw ==
  ASSUME KeptInv, Windows, PruneRaw, UNCHANGED <<now, tables, committed>>,
         \A r \in Unfolded : r.ts >= now - RawRet
  PROVE  Windows'
<1>1. Unfolded' = Unfolded
  BY PruneKeeps
<1>2. \A r \in committed : r \in samples' \/ r.ts < now - RawRet
  BY KeptTypes DEF Windows, PruneRaw
<1> QED BY <1>1, <1>2 DEF Windows, tables

(* Retention of hourly rows takes whole hours that are past the age.       *)
LEMMA WindowsPruneHourly ==
  ASSUME KeptInv, Windows, PruneHourly, UNCHANGED <<now, samples, marker, committed>>
  PROVE  Windows'
<1>1. Unfolded' = Unfolded
  BY DEF Unfolded
<1>2. \A r \in committed : HourOf(r.ts) \in Int
  BY KeptTypes, HoursAreInts
<1>3. \A r \in DOMAIN hourly : r \in DOMAIN hourly' \/ HourOf(r.ts) < now - HourlyRet
  BY <1>2, KeptTypes DEF PruneHourly
<1> QED BY <1>1, <1>3 DEF Windows

(* The rows a tick writes are in the raw table, and replace none.          *)
LEMMA WindowsWrite ==
  ASSUME KeptInv, Windows, NEW S \in SUBSET Iface, WriteSamples(S)
  PROVE  Windows'
<1> DEFINE new == {[n |-> writes + 1, ts |-> now, iface |-> i] : i \in S}
<1> USE DEF WriteSamples, tables, memory
<1>1. \A r \in samples : r.ts # now
  BY KeptTypes DEF KeptInv
<1>2. samples' = samples \cup new /\ committed' = committed \cup new
  BY <1>1
<1>3. Unfolded' = Unfolded \cup new
  <2>1. \A r \in new : r.ts > marker
    BY KeptTypes DEF KeptInv
  <2> QED BY <1>2, <2>1 DEF Unfolded
<1> QED BY <1>2, <1>3 DEF Windows

(* Under SaneConditions every step keeps the windows.                      *)
LEMMA WindowsNext ==
  ASSUME SaneConditions, KeptInv, KeptInv', Windows, [Next]_vars
  PROVE  Windows'
<1> USE DEF SaneConditions, memory
<1>1. CASE \/ Start \/ Stop \/ Crash \/ WriteApps \/ RetainApps \/ StopRetainApps
           \/ UNCHANGED vars
  BY <1>1, WindowsQuiet, KeptTypes
  DEF Start, Stop, Crash, Exit, WriteApps, RetainApps, StopRetainApps, vars
<1>2. CASE Pass
  BY <1>2, WindowsQuiet, KeptTypes DEF Pass
<1>3. CASE StepBack
  BY <1>3 DEF StepBack
<1>4. ASSUME NEW d \in Sleeps, NEW s \in 0 .. MaxSuspend, Wake(d, s) PROVE Windows'
  BY <1>4, WindowsQuiet, KeptTypes DEF Wake
<1>5. ASSUME NEW S \in SUBSET Iface, WriteSamples(S) PROVE Windows'
  BY <1>5, WindowsWrite
<1>6. CASE Rollup \/ StopRollup
  <2>1. UNCHANGED <<now, samples, committed>> /\ (Fold \/ UNCHANGED tables)
    BY <1>6 DEF Rollup, StopRollup, FoldOrFail, tables
  <2> QED BY <2>1, WindowsFold, WindowsQuiet, KeptTypes DEF KeptInv
<1>7. CASE RetainRaw
  <2>1. pc = "retain" /\ UNCHANGED <<now, tables, committed>> /\ (PruneRaw \/ UNCHANGED samples)
    BY <1>7 DEF RetainRaw
  <2>2. PendingIsYoung /\ sinceRollup <= RollupEvery
    BY <2>1 DEF KeptInv
  <2>3. \A r \in Unfolded : r.ts >= now - RawRet
    BY <2>2, KeptTypes DEF KeptInv, PendingIsYoung
  <2> QED BY <2>1, <2>3, WindowsPruneRaw, WindowsQuiet, KeptTypes
<1>8. CASE StopRetainRaw
  <2>1. Unfolded = {} /\ PruneRaw /\ UNCHANGED <<now, tables, committed>>
    BY <1>8 DEF StopRetainRaw, KeptInv
  <2> QED BY <2>1, WindowsPruneRaw
<1>9. CASE RetainHourly \/ StopRetainHourly
  BY <1>9, WindowsPruneHourly DEF RetainHourly, StopRetainHourly
<1> QED BY <1>1, <1>2, <1>3, <1>4, <1>5, <1>6, <1>7, <1>8, <1>9 DEF Next

(* Hourly keeps what is folded for retention_days_hourly and samples what  *)
(* is recorded for retention_days_raw, for every two ages and every path   *)
(* of stop, crash, restart, gap and bounded suspend.                       *)
THEOREM StoreTablesKeepTheirWindows ==
  ASSUME SaneConditions
  PROVE  Spec => []TablesKeepTheirWindows
<1> DEFINE Inv == KeptInv /\ Windows
<1>1. Init => Inv
  BY KeptInit DEF Init, Windows
<1>2. Inv /\ [Next]_vars => Inv'
  BY KeptNext, WindowsNext
<1>3. Inv => TablesKeepTheirWindows
  BY WindowsSayIt DEF KeptInv
<1> QED BY <1>1, <1>2, <1>3, PTL DEF Spec

-----------------------------------------------------------------------------
(* Part 3.  A rollup publishes every committed row; writing samples        *)
(* records; every other step is a stutter.                                 *)

Quiet == committed' = committed /\ DOMAIN daily' = DOMAIN daily

(* Each step maps to a step of TrafficLedger or to a stutter.              *)
LEMMA LedgerStep ==
  ASSUME SaneConditions, KeptInv, [Next]_vars
  PROVE  [Promise!LNext]_<<committed, DOMAIN daily>>
<1> USE DEF SaneConditions, tables, memory
<1>1. CASE Quiet
  BY <1>1 DEF Quiet
<1>2. ASSUME NEW S \in SUBSET Iface, WriteSamples(S)
      PROVE Promise!LNext
  BY <1>2 DEF WriteSamples, Promise!LNext, Promise!Record
<1>3. CASE (Rollup \/ StopRollup) /\ ~Quiet
  <2>1. UNCHANGED <<now, samples, committed>> /\ Fold
    BY <1>3 DEF Rollup, StopRollup, FoldOrFail, Quiet
  <2>2. DOMAIN daily' = committed
    BY <2>1, FoldKeeps, OnceNext DEF KeptInv
  <2> QED BY <2>1, <2>2 DEF Promise!LNext, Promise!Publish
<1>4. Quiet \/ Rollup \/ StopRollup \/ \E S \in SUBSET Iface : WriteSamples(S)
  <2>1. CASE Start \/ Pass \/ Stop \/ Crash \/ StepBack \/ UNCHANGED vars
    BY <2>1 DEF Start, Pass, Stop, Crash, Exit, StepBack, vars, Quiet
  <2>2. CASE \E d \in Sleeps, s \in 0 .. MaxSuspend : Wake(d, s)
    BY <2>2 DEF Wake, Quiet
  <2>3. CASE RetainRaw \/ RetainHourly \/ StopRetainRaw \/ StopRetainHourly
    BY <2>3 DEF RetainRaw, RetainHourly, StopRetainRaw, StopRetainHourly, Quiet
  <2>4. CASE WriteApps \/ RetainApps \/ StopRetainApps
    BY <2>4 DEF WriteApps, RetainApps, StopRetainApps, Exit, Quiet
  <2> QED BY <2>1, <2>2, <2>3, <2>4 DEF Next
<1> QED BY <1>1, <1>2, <1>3, <1>4

(* Under the same conditions the storage does as TrafficLedger promises:   *)
(* every rollup publishes all that was recorded, and nothing else changes  *)
(* what daily counts.                                                      *)
THEOREM StoreImplementsLedger ==
  ASSUME SaneConditions
  PROVE  Spec => ImplementsLedger
<1>1. Init => Promise!LInit
  BY DEF Init, EmptyTable, Promise!LInit
<1>2. KeptInv /\ [Next]_vars => [Promise!LNext]_<<committed, DOMAIN daily>>
  BY LedgerStep
<1> QED BY <1>1, <1>2, StoreKept, PTL DEF Spec, ImplementsLedger, Promise!LSpec

-----------------------------------------------------------------------------
(* Part 4.  The views.                                                     *)

USE DaysAssumption, ViewsAssumption DEF DaysAssumption, ViewsAssumption

(* Division with remainder.                                                *)
LEMMA DivMod ==
  ASSUME NEW t \in Nat, NEW n \in Nat \ {0}
  PROVE  /\ t \div n \in Nat /\ t % n \in Nat /\ t % n < n
         /\ t = n * (t \div n) + (t % n)
  OBVIOUS

(* A number is in the m-th lap when it is between m and m + 1 times n.     *)
LEMMA LapOf ==
  ASSUME NEW t \in Nat, NEW n \in Nat \ {0}, NEW m \in Nat,
         n * m <= t, t < n * m + n
  PROVE  t \div n = m /\ t % n = t - n * m
<1> DEFINE q == t \div n
           r == t % n
<1>1. q \in Nat /\ r \in Nat /\ r < n /\ t = n * q + r
  BY DivMod
<1> HIDE DEF q, r
<1>2. ~(q > m)
  <2> SUFFICES ASSUME q > m PROVE FALSE
    OBVIOUS
  <2>1. n * q >= n * (m + 1)
    BY <1>1
  <2>2. n * (m + 1) = n * m + n
    OBVIOUS
  <2>3. n * q \in Nat /\ n * m \in Nat
    BY <1>1
  <2> QED BY <1>1, <2>1, <2>2, <2>3
<1>3. ~(q < m)
  <2> SUFFICES ASSUME q < m PROVE FALSE
    OBVIOUS
  <2>1. n * (q + 1) <= n * m
    BY <1>1
  <2>2. n * (q + 1) = n * q + n
    BY <1>1
  <2>3. n * q \in Nat /\ n * m \in Nat
    BY <1>1
  <2> QED BY <1>1, <2>1, <2>2, <2>3
<1>4. q = m
  BY <1>1, <1>2, <1>3
<1> QED BY <1>1, <1>4 DEF q, r

-----------------------------------------------------------------------------
(* Every window of the calendar starts at a multiple of its length.        *)

Floor(n, t) == n * (t \div n)

(* The start of the lap of t is at most t, and the next one is later.      *)
LEMMA FloorFacts ==
  ASSUME NEW t \in Nat, NEW n \in Nat \ {0}
  PROVE  /\ Floor(n, t) \in Nat /\ Floor(n, t) <= t /\ t < Floor(n, t) + n
         /\ Floor(n, t) = t - (t % n)
<1> DEFINE q == t \div n
           r == t % n
<1>1. q \in Nat /\ r \in Nat /\ r < n /\ t = n * q + r
  BY DivMod
<1> HIDE DEF q, r
<1>2. n * q \in Nat
  BY <1>1
<1>3. n * q <= t /\ t < n * q + n /\ n * q = t - r
  BY <1>1, <1>2
<1> QED BY <1>2, <1>3 DEF Floor, q, r

(* What starts a lap is known by being a multiple.                         *)
LEMMA FloorIs ==
  ASSUME NEW t \in Nat, NEW n \in Nat \ {0}, NEW m \in Nat, n * m <= t, t < n * m + n
  PROVE  Floor(n, t) = n * m
  BY LapOf DEF Floor

(* The lap of a later time does not start earlier.                         *)
LEMMA FloorAbove ==
  ASSUME NEW t \in Nat, NEW u \in Nat, NEW n \in Nat \ {0}, Floor(n, t) <= u
  PROVE  Floor(n, t) <= Floor(n, u)
<1> DEFINE q == t \div n
           p == u \div n
<1>1. q \in Nat /\ p \in Nat
  BY DivMod
<1>2. n * q <= u
  BY DEF Floor
<1>3. u < n * p + n
  BY FloorFacts DEF Floor
<1> HIDE DEF q, p
<1>4. ~(p < q)
  <2> SUFFICES ASSUME p < q PROVE FALSE
    OBVIOUS
  <2>1. n * (p + 1) <= n * q
    BY <1>1
  <2>2. n * (p + 1) = n * p + n
    BY <1>1
  <2>3. n * q \in Nat /\ n * p \in Nat
    BY <1>1
  <2> QED BY <1>2, <1>3, <2>1, <2>2, <2>3
<1>5. n * q <= n * p
  BY <1>1, <1>4
<1> QED BY <1>5 DEF Floor, q, p

(* A lap of k times the length starts where a lap starts ...               *)
LEMMA FloorOfLonger ==
  ASSUME NEW t \in Nat, NEW n \in Nat \ {0}, NEW k \in Nat \ {0}
  PROVE  Floor(n, Floor(n * k, t)) = Floor(n * k, t)
<1> DEFINE q == t \div (n * k)
<1>1. n * k \in Nat \ {0}
  OBVIOUS
<1>2. q \in Nat
  BY <1>1, DivMod
<1> HIDE DEF q
<1>3. k * q \in Nat /\ (n * k) * q = n * (k * q)
  BY <1>2
<1>4. n * (k * q) \in Nat
  BY <1>3
<1>5. Floor(n, n * (k * q)) = n * (k * q)
  BY <1>3, <1>4, FloorIs
<1> QED BY <1>3, <1>5 DEF Floor, q

(* ... and is the same for t and for the start of the lap of t.            *)
LEMMA LongerOfFloor ==
  ASSUME NEW t \in Nat, NEW n \in Nat \ {0}, NEW k \in Nat \ {0}
  PROVE  Floor(n * k, Floor(n, t)) = Floor(n * k, t)
<1> DEFINE q == t \div (n * k)
<1>1. n * k \in Nat \ {0}
  OBVIOUS
<1>2. q \in Nat /\ Floor(n * k, t) = (n * k) * q
  BY <1>1, DivMod DEF Floor
<1>3. /\ Floor(n, t) \in Nat /\ Floor(n, t) <= t
      /\ Floor(n * k, t) \in Nat /\ Floor(n * k, t) <= t /\ t < Floor(n * k, t) + n * k
  BY <1>1, FloorFacts
<1>4. Floor(n * k, t) <= Floor(n, t)
  <2> DEFINE start == Floor(n * k, t)
  <2>0. Floor(n, start) = start
    BY FloorOfLonger
  <2>1. Floor(n, start) = start /\ start \in Nat /\ start <= t
    BY <1>3, <2>0
  <2> HIDE DEF start
  <2>2. Floor(n, start) <= Floor(n, t)
    BY <2>1, FloorAbove
  <2> QED BY <2>1, <2>2 DEF start
<1> DEFINE f == Floor(n, t)
           g == n * k
<1>5. f \in Nat /\ g * q <= f /\ f < g * q + g /\ g \in Nat \ {0} /\ q \in Nat
  BY <1>1, <1>2, <1>3, <1>4
<1> HIDE DEF f, g, q
<1>6. Floor(g, f) = g * q
  BY <1>5, FloorIs
<1> QED BY <1>2, <1>6 DEF f, g

Length(period) ==
  CASE period = "hour"  -> HourLen
    [] period = "day"   -> DayLen
    [] period = "week"  -> DayLen * DaysPerWeek
    [] period = "month" -> DayLen * DaysPerMonth

(* floor_week and floor_month count days: k days are one lap.              *)
LEMMA FloorOfDays ==
  ASSUME NEW t \in Nat, NEW n \in Nat \ {0}, NEW k \in Nat \ {0}
  PROVE  n * ((t \div n) - ((t \div n) % k)) = Floor(n * k, t)
<1> DEFINE d == t \div n
           m == d \div k
<1>1. d \in Nat
  BY DivMod
<1>2. m \in Nat /\ d - (d % k) = k * m
  BY <1>1, DivMod, FloorFacts DEF Floor
<1>3. Floor(n * k, n * d) = Floor(n * k, t)
  BY LongerOfFloor DEF Floor
<1>4. k * m <= d /\ d < k * m + k
  BY <1>1, FloorFacts DEF Floor
<1>5. d - (d % k) = k * m /\ k * m \in Nat
  BY <1>2
<1> HIDE DEF m
<1> DEFINE e == k * m
<1>6. n * e <= n * d /\ n * d < n * e + n * k
  <2>1. e \in Nat /\ e <= d /\ d + 1 <= e + k
    BY <1>1, <1>4, <1>5
  <2> HIDE DEF e, d
  <2>2. n * e <= n * d
    BY <1>1, <2>1
  <2>3. n * (d + 1) <= n * (e + k)
    BY <1>1, <2>1
  <2>4. n * (d + 1) = n * d + n /\ n * (e + k) = n * e + n * k
    BY <1>1, <2>1
  <2>5. n * d \in Nat /\ n * e \in Nat /\ n * k \in Nat
    BY <1>1, <2>1
  <2> QED BY <2>2, <2>3, <2>4, <2>5
<1>7. (n * k) * m = n * e
  BY <1>2
<1>8. n * k \in Nat \ {0} /\ n * d \in Nat
  BY <1>1
<1> HIDE DEF d, e
<1>9. Floor(n * k, n * d) = (n * k) * m
  BY <1>2, <1>6, <1>7, <1>8, FloorIs
<1> QED BY <1>3, <1>5, <1>7, <1>9 DEF d, e

(* Every window starts at a lap of its length.                             *)
LEMMA WindowIsFloor ==
  ASSUME NEW period \in Period, NEW t \in Nat
  PROVE  Length(period) \in Nat \ {0} /\ WindowStart(period, t) = Floor(Length(period), t)
<1>1. CASE period = "hour"
  BY <1>1, FloorFacts DEF Length, WindowStart, HourOf
<1>2. CASE period = "day"
  BY <1>2, FloorFacts DEF Length, WindowStart, DayOf
<1>3. CASE period = "week"
  BY <1>3, FloorOfDays DEF Length, WindowStart, WeekOf
<1>4. CASE period = "month"
  BY <1>4, FloorOfDays DEF Length, WindowStart, MonthOf
<1> QED BY <1>1, <1>2, <1>3, <1>4 DEF Period

(* What the views need of the calendar.                                    *)
LEMMA WindowFacts ==
  ASSUME NEW period \in Period, NEW t \in Nat
  PROVE  /\ WindowStart(period, t) \in Nat /\ WindowStart(period, t) <= t
         /\ t < WindowStart(period, t) + Length(period)
  BY WindowIsFloor, FloorFacts

LEMMA WindowAbove ==
  ASSUME NEW period \in Period, NEW t \in Nat, NEW u \in Nat, WindowStart(period, t) <= u
  PROVE  WindowStart(period, t) <= WindowStart(period, u)
  BY WindowIsFloor, FloorAbove

LEMMA WeekOfDay ==
  ASSUME NEW t \in Nat
  PROVE  WindowStart("week", WindowStart("day", t)) = WindowStart("week", t)
<1>1. WindowStart("day", t) = Floor(DayLen, t) /\ Floor(DayLen, t) \in Nat
  BY WindowIsFloor, FloorFacts DEF Period, Length
<1>2. \A u \in Nat : WindowStart("week", u) = Floor(DayLen * DaysPerWeek, u)
  BY WindowIsFloor DEF Period, Length
<1>3. Floor(DayLen * DaysPerWeek, Floor(DayLen, t)) = Floor(DayLen * DaysPerWeek, t)
  <2>1. DayLen \in Nat \ {0} /\ DaysPerWeek \in Nat \ {0}
    OBVIOUS
  <2>2. \A n, k \in Nat \ {0} : Floor(n * k, Floor(n, t)) = Floor(n * k, t)
    BY LongerOfFloor
  <2> QED BY <2>1, <2>2, Zenon
<1> QED BY <1>1, <1>2, <1>3

(* The lengths are within the spans of `show`.                             *)
LEMMA SpanIsLong == \A period \in Period : Span(period) \in Nat /\ Length(period) <= Span(period)
  BY DEF Period, Span, Length

-----------------------------------------------------------------------------
(* Which rows a query prints, and in which bucket.                         *)

InView(view, b, r) == b \in DOMAIN view /\ r \in view[b]

LEMMA InRows == \A view, r : r \in Rows(view) <=> \E b : InView(view, b, r)
  BY DEF Rows, InView

LEMMA InQuery ==
  ASSUME NEW R, NEW bucket, NEW from, NEW to, NEW I, NEW b, NEW r
  PROVE  InView(QueryRange(R, bucket, from, to, I), b, r)
           <=> r \in R /\ bucket[r] = b /\ b \in from .. to - 1 /\ r.iface \in I
  BY DEF InView, QueryRange, Gather

LEMMA InMerge ==
  ASSUME NEW view, NEW period, NEW b, NEW r
  PROVE  InView(Merge(view, period), b, r)
           <=> \E c : InView(view, c, r) /\ WindowStart(period, c) = b
<1> DEFINE M == Merge(view, period)
           Parts(d) == {c \in DOMAIN view : WindowStart(period, c) = d}
<1>1. DOMAIN M = {WindowStart(period, c) : c \in DOMAIN view}
  BY DEF Merge
<1>2. ASSUME b \in DOMAIN M PROVE M[b] = UNION {view[c] : c \in Parts(b)}
  BY <1>1, <1>2 DEF Merge
<1> HIDE DEF M
<1>3. InView(M, b, r) <=> b \in DOMAIN M /\ \E c \in Parts(b) : r \in view[c]
  BY <1>2 DEF InView
<1> QED BY <1>1, <1>3 DEF InView, M

(* The rollup table that `show` reads, and the period of its buckets.      *)
Table(period) ==
  CASE period = "hour"  -> DOMAIN hourly
    [] period = "month" -> DOMAIN monthly
    [] OTHER            -> DOMAIN daily

Stored(period) == IF period = "week" THEN "day" ELSE period

(* A row of a table is printed in its bucket, if its table's bucket is     *)
(* within the span.                                                        *)
LEMMA InTable ==
  ASSUME NEW period \in Period, NEW I, NEW b, NEW r, now \in Nat,
         \A q \in Table(period) : q.ts \in Nat
  PROVE  InView(FromTable(period, now, I), b, r)
           <=> /\ r \in Table(period) /\ r.iface \in I
               /\ WindowStart(period, r.ts) = b
               /\ WindowStart(Stored(period), r.ts) \in now - Span(period) .. now
<1> DEFINE R == Table(period)
           view == QueryRange(R, Buckets(R, Stored(period)), now - Span(period), now + 1, I)
<1>1. FromTable(period, now, I) = IF period = "week" THEN Merge(view, "week") ELSE view
  BY DEF FromTable, Table, Stored
<1>2. (now + 1) - 1 = now
  OBVIOUS
<1>3. \A q \in R : Buckets(R, Stored(period))[q] = WindowStart(Stored(period), q.ts)
  BY DEF Buckets
<1>4. \A c : InView(view, c, r)
               <=> /\ r \in R /\ WindowStart(Stored(period), r.ts) = c
                   /\ c \in now - Span(period) .. now /\ r.iface \in I
  BY <1>2, <1>3, InQuery
<1> HIDE DEF view
<1>5. CASE period # "week"
  BY <1>1, <1>4, <1>5 DEF Stored
<1>6. CASE period = "week"
  <2>1. InView(FromTable(period, now, I), b, r)
          <=> \E c : InView(view, c, r) /\ WindowStart("week", c) = b
    BY <1>1, <1>6, InMerge
  <2>2. ASSUME r \in R
        PROVE  WindowStart("week", WindowStart("day", r.ts)) = WindowStart("week", r.ts)
    BY <2>2, WeekOfDay
  <2> QED BY <1>4, <1>6, <2>1, <2>2 DEF Stored
<1> QED BY <1>5, <1>6

(* A raw row is printed in its bucket, if it is within the span.           *)
LEMMA InSamples ==
  ASSUME NEW period \in Period, NEW I, NEW b, NEW r, now \in Nat,
         \A q \in samples : q.ts \in Nat
  PROVE  InView(FromSamples(period, now, I), b, r)
           <=> /\ r \in samples /\ r.iface \in I
               /\ WindowStart(period, r.ts) = b
               /\ r.ts \in now - Span(period) .. now
<1> DEFINE raw == QueryRange(samples, [q \in samples |-> q.ts], now - Span(period), now + 1, I)
<1>1. (now + 1) - 1 = now
  OBVIOUS
<1>2. \A c : InView(raw, c, r)
               <=> r \in samples /\ r.ts = c /\ c \in now - Span(period) .. now /\ r.iface \in I
  <2>1. \A q \in samples : [p \in samples |-> p.ts][q] = q.ts
    OBVIOUS
  <2> QED BY <1>1, <2>1, InQuery
<1>3. FromSamples(period, now, I)
        = IF period = "week" THEN Merge(Merge(raw, "day"), "week") ELSE Merge(raw, period)
  BY DEF FromSamples
<1> HIDE DEF raw
<1>4. CASE period # "week"
  BY <1>2, <1>3, <1>4, InMerge
<1>5. CASE period = "week"
  <2>1. \A c : InView(Merge(raw, "day"), c, r)
                 <=> \E d : InView(raw, d, r) /\ WindowStart("day", d) = c
    BY InMerge
  <2>2. InView(FromSamples(period, now, I), b, r)
          <=> \E c : InView(Merge(raw, "day"), c, r) /\ WindowStart("week", c) = b
    BY <1>3, <1>5, InMerge
  <2>3. ASSUME r \in samples
        PROVE  WindowStart("week", WindowStart("day", r.ts)) = WindowStart("week", r.ts)
    BY <2>3, WeekOfDay
  <2> QED BY <1>2, <1>5, <2>1, <2>2, <2>3
<1> QED BY <1>4, <1>5

-----------------------------------------------------------------------------
(* What the commands find in every state, under SaneConditions.            *)

ViewInv == KeptInv /\ Windows /\ now <= MaxClock

LEMMA ViewNext == SaneConditions /\ ViewInv /\ [Next]_vars => ViewInv'
<1> SUFFICES ASSUME SaneConditions, ViewInv, [Next]_vars PROVE ViewInv'
  OBVIOUS
<1>1. KeptInv' /\ Windows'
  BY KeptNext, WindowsNext DEF ViewInv
<1>2. now \in Nat /\ now <= MaxClock
  BY KeptTypes DEF ViewInv
<1>3. now' <= MaxClock
  <2>1. CASE Pass
    BY <2>1 DEF Pass
  <2>2. CASE \E d \in Sleeps, s \in 0 .. MaxSuspend : Wake(d, s)
    BY <2>2 DEF Wake
  <2>3. CASE StepBack
    BY <1>2, <2>3 DEF StepBack
  <2>4. CASE \E S \in SUBSET Iface : WriteSamples(S)
    BY <1>2, <2>4 DEF WriteSamples
  <2>5. CASE Start \/ Stop \/ Crash \/ UNCHANGED vars
    BY <1>2, <2>5 DEF Start, Stop, Crash, Exit, vars
  <2>6. CASE Rollup \/ RetainRaw \/ RetainHourly \/ StopRollup \/ StopRetainRaw \/ StopRetainHourly
    BY <1>2, <2>6 DEF Rollup, RetainRaw, RetainHourly, StopRollup, StopRetainRaw, StopRetainHourly
  <2>7. CASE WriteApps \/ RetainApps \/ StopRetainApps
    BY <1>2, <2>7 DEF WriteApps, RetainApps, StopRetainApps, Exit
  <2> QED BY <2>1, <2>2, <2>3, <2>4, <2>5, <2>6, <2>7 DEF Next
<1> QED BY <1>1, <1>3 DEF ViewInv

(* ViewInv holds in every state under SaneConditions.                      *)
THEOREM ViewInvariant ==
  ASSUME SaneConditions
  PROVE  Spec => []ViewInv
<1>1. Init => ViewInv
  BY KeptInit DEF Init, Windows, ViewInv
<1>2. ViewInv /\ [Next]_vars => ViewInv'
  BY ViewNext
<1> QED BY <1>1, <1>2, PTL DEF Spec

(* The rows and where they are.                                            *)
LEMMA RowsAreKept ==
  ASSUME ViewInv
  PROVE  /\ now \in Nat /\ now <= MaxClock
         /\ \A r \in committed : r.ts \in Nat /\ r.ts <= now /\ r.iface \in Iface
         /\ samples \subseteq committed
         /\ \A period \in Period : Table(period) \subseteq committed
         /\ \A r \in committed : r \in samples \/ r.ts < now - RawRet
         /\ \A r \in committed \ Unfolded :
              /\ r \in DOMAIN daily /\ r \in DOMAIN monthly
              /\ r \in DOMAIN hourly \/ HourOf(r.ts) < now - HourlyRet
<1>1. KeptInv /\ Windows /\ TypeOK
  BY DEF ViewInv, KeptInv, OnceInv
<1>2. \A r \in committed : r.ts \in Nat /\ r.ts <= now /\ r.iface \in Iface
  BY <1>1, KeptTypes DEF KeptInv, TypeOK, Row
<1>3. \A period \in Period : Table(period) \subseteq committed
  BY <1>1, KeptTypes DEF Table
<1>4. \A r \in committed \ Unfolded : r \in DOMAIN daily /\ r \in DOMAIN monthly
  BY <1>1 DEF KeptInv, NeverLost, Copies
<1> QED BY <1>1, <1>2, <1>3, <1>4, KeptTypes DEF ViewInv, Windows

(* What `show` prints is of its bucket and of the interfaces asked for.    *)
LEMMA ShowIsSound ==
  ASSUME ViewInv, NEW period \in Period, NEW I, NEW b, NEW r, InView(Show(period, now, I), b, r)
  PROVE  r \in committed /\ r.iface \in I /\ WindowStart(period, r.ts) = b
<1>1. CASE InView(FromTable(period, now, I), b, r)
  BY <1>1, InTable, RowsAreKept
<1>2. CASE InView(FromSamples(period, now, I), b, r)
  BY <1>2, InSamples, RowsAreKept
<1> QED BY <1>1, <1>2 DEF Show

(* `show` prints every row that a rollup has counted, if its bucket begins *)
(* within the span.                                                        *)
LEMMA ShowIsComplete ==
  ASSUME ViewInv, NEW period \in Period, period = "hour" => HourSpan <= HourlyRet,
         NEW I, NEW r \in committed \ Unfolded, r.iface \in I,
         WindowStart(period, r.ts) \in now - Span(period) .. now
  PROVE  InView(Show(period, now, I), WindowStart(period, r.ts), r)
<1> DEFINE b == WindowStart(period, r.ts)
           view == FromTable(period, now, I)
<1>1. now \in Nat /\ r.ts \in Nat /\ r.ts <= now
  BY RowsAreKept
<1>2. r \in Table(period)
  <2>1. CASE period = "hour"
    <3>1. HourOf(r.ts) >= now - HourSpan
      BY <1>1, <2>1 DEF WindowStart, Span, HourOf
    <3>2. ~(HourOf(r.ts) < now - HourlyRet)
      BY <1>1, <2>1, <3>1 DEF HourOf
    <3> QED BY <2>1, <3>2, RowsAreKept DEF Table
  <2>2. CASE period # "hour"
    BY <2>2, RowsAreKept DEF Table, Period
  <2> QED BY <2>1, <2>2
<1>3. WindowStart(Stored(period), r.ts) \in now - Span(period) .. now
  <2>1. CASE period # "week"
    BY <2>1 DEF Stored
  <2>2. CASE period = "week"
    <3>1. WindowStart("week", r.ts) <= WindowStart("day", r.ts)
      <4>1. WindowStart("week", r.ts) = WindowStart("week", WindowStart("day", r.ts))
        BY <1>1, WeekOfDay
      <4>2. WindowStart("day", r.ts) \in Nat
        BY <1>1, WindowFacts DEF Period
      <4> QED BY <4>1, <4>2, WindowFacts DEF Period
    <3>2. WindowStart("day", r.ts) \in Nat /\ WindowStart("day", r.ts) <= r.ts
          /\ WindowStart("week", r.ts) \in Nat
      BY <1>1, WindowFacts DEF Period
    <3>3. Span("week") \in Nat
      BY SpanIsLong DEF Period
    <3> QED BY <1>1, <2>2, <3>1, <3>2, <3>3 DEF Stored
  <2> QED BY <2>1, <2>2
<1>4. InView(view, b, r)
  BY <1>1, <1>2, <1>3, InTable, RowsAreKept
<1> HIDE DEF view
<1>5. view # <<>>
  BY <1>4 DEF InView
<1> QED BY <1>4, <1>5 DEF Show, view

(* A window that has begun is within the span of `show`.                   *)
LEMMA WindowIsShown ==
  ASSUME NEW period \in Period, now \in Nat
  PROVE  WindowStart(period, now) \in now - Span(period) .. now
<1>1. /\ WindowStart(period, now) \in Nat /\ WindowStart(period, now) <= now
      /\ now < WindowStart(period, now) + Length(period)
  BY WindowFacts
<1>2. Span(period) \in Nat /\ Length(period) <= Span(period) /\ Length(period) \in Nat
  BY SpanIsLong, WindowIsFloor
<1> QED BY <1>1, <1>2

(* A row is of the current window when it was written since that began.    *)
LEMMA InWindow ==
  ASSUME ViewInv, NEW period \in Period, NEW r \in committed
  PROVE  /\ WindowStart(period, r.ts) \in Nat
         /\ WindowStart(period, r.ts) <= WindowStart(period, now)
         /\ r.ts >= WindowStart(period, now)
              <=> WindowStart(period, r.ts) = WindowStart(period, now)
<1>1. now \in Nat /\ r.ts \in Nat /\ r.ts <= now
  BY RowsAreKept
<1>2. /\ WindowStart(period, r.ts) \in Nat /\ WindowStart(period, r.ts) <= r.ts
      /\ WindowStart(period, now) \in Nat
  BY <1>1, WindowFacts
<1>3. WindowStart(period, r.ts) <= WindowStart(period, now)
  BY <1>1, <1>2, WindowAbove
<1>4. r.ts >= WindowStart(period, now) => WindowStart(period, now) <= WindowStart(period, r.ts)
  BY <1>1, WindowAbove
<1> QED BY <1>2, <1>3, <1>4, <1>1

(* Raw rows are kept for a day at least, so none of today's is gone.       *)
RawKeepsToday == DayLen <= RawRet

(* What the raw rows of a window add up to is what was recorded in it.     *)
LEMMA RawIsRecorded ==
  ASSUME ViewInv, NEW start \in Nat, now - start <= RawRet
  PROVE  \A r : r \in samples /\ r.ts >= start
                  <=> r \in committed /\ r.ts \in start .. now
  BY RowsAreKept

LEMMA TodayIsRecorded ==
  ASSUME ViewInv, RawKeepsToday
  PROVE  Today = Recorded(DayOf(now), now, Iface)
<1>1. now \in Nat /\ DayOf(now) \in Nat /\ DayOf(now) <= now /\ now - DayOf(now) <= RawRet
  BY RowsAreKept, WindowFacts DEF Period, WindowStart, Length, RawKeepsToday
<1>2. \A r : r \in Today <=> r \in samples /\ r.ts \in DayOf(now) .. now /\ r.iface \in Iface
  <2> DEFINE view == QueryRange(samples, [q \in samples |-> q.ts], DayOf(now), now + 1, Iface)
  <2>1. (now + 1) - 1 = now
    BY <1>1
  <2>2. \A r, b : InView(view, b, r)
                    <=> r \in samples /\ r.ts = b /\ b \in DayOf(now) .. now /\ r.iface \in Iface
    BY <2>1, InQuery
  <2>3. \A r : r \in Today <=> \E b : InView(view, b, r)
    BY InRows DEF Today
  <2> QED BY <2>2, <2>3
<1>3. \A r : r \in Today <=> r \in committed /\ r.ts \in DayOf(now) .. now /\ r.iface \in Iface
  BY <1>1, <1>2, RawIsRecorded, RowsAreKept
<1> QED BY <1>3 DEF Recorded

LEMMA ViewsSayLiveTotals == ViewInv /\ RawKeepsToday => LiveTotalsExact
<1> SUFFICES ASSUME ViewInv, RawKeepsToday PROVE LiveTotalsExact
  OBVIOUS
<1>1. now \in Nat
  BY RowsAreKept
<1>2. ASSUME NEW period \in Period, now - WindowStart(period, now) <= RawRet
      PROVE  LiveSince(WindowStart(period, now)) = Recorded(WindowStart(period, now), now, Iface)
  <2>1. WindowStart(period, now) \in Nat
    BY <1>1, WindowFacts
  <2>2. \A r : r \in LiveSince(WindowStart(period, now))
                 <=> r \in committed /\ r.ts \in WindowStart(period, now) .. now
    BY <1>2, <2>1, RawIsRecorded DEF LiveSince
  <2> QED BY <2>2, RowsAreKept DEF Recorded
<1>3. ASSUME NEW i \in Iface PROVE Recorded(now - RawRet, now, {i}) \subseteq TopByIface(i)
  BY <1>1, RowsAreKept DEF Recorded, TopByIface
<1>4. /\ "day" \in Period /\ WindowStart("day", now) = DayOf(now)
      /\ "week" \in Period /\ WindowStart("week", now) = WeekOf(now)
      /\ "month" \in Period /\ WindowStart("month", now) = MonthOf(now)
  BY DEF Period, WindowStart
<1>5. ASSUME NEW period \in BudgetPeriod
      PROVE  /\ EffectivePeriod(period) \in Period
             /\ WindowStart(EffectivePeriod(period), now) = BudgetStart(period)
  BY <1>4 DEF BudgetPeriod, EffectivePeriod, BudgetStart
<1>6. \A period \in BudgetPeriod : now - BudgetStart(period) <= RawRet =>
        QueryBudget(period) = Recorded(BudgetStart(period), now, Iface)
  BY <1>2, <1>5 DEF QueryBudget
<1>7. \A start \in {DayOf(now), WeekOf(now)} : now - start <= RawRet =>
        LiveSince(start) = Recorded(start, now, Iface)
  BY <1>2, <1>4
<1> QED BY <1>3, <1>6, <1>7, TodayIsRecorded DEF LiveTotalsExact

(* `today` and the totals of `live` are what was recorded in their window, *)
(* for every retention of a day or more and as far as it reaches, and on   *)
(* every path of stop, crash, restart, gap and bounded suspend.            *)
THEOREM ViewsLiveTotalsExact ==
  ASSUME SaneConditions, RawKeepsToday
  PROVE  Spec => []LiveTotalsExact
<1>1. ViewInv => LiveTotalsExact
  BY ViewsSayLiveTotals
<1> QED BY <1>1, ViewInvariant, PTL

LEMMA ViewsSayShowTrails == ViewInv /\ RawKeepsToday => ShowTrailsToday
<1> SUFFICES ASSUME ViewInv, RawKeepsToday, NEW I \in Filters
             PROVE  LET view == Show("day", now, I)
                        row == IF DayOf(now) \in DOMAIN view THEN view[DayOf(now)] ELSE {}
                        today == {r \in Today : r.iface \in I}
                    IN  row \subseteq today /\ today \ row \subseteq Unfolded
  BY DEF ShowTrailsToday
<1> DEFINE view == Show("day", now, I)
           row == IF DayOf(now) \in DOMAIN view THEN view[DayOf(now)] ELSE {}
           today == {r \in Today : r.iface \in I}
<1>1. "day" \in Period /\ "day" # "hour" /\ \A t : WindowStart("day", t) = DayOf(t)
  BY DEF Period, WindowStart
<1>2. \A r : r \in row <=> InView(view, DayOf(now), r)
  BY DEF InView
<1>3. \A r : r \in today
               <=> /\ r \in committed /\ r.ts \in DayOf(now) .. now
                   /\ r.iface \in Iface /\ r.iface \in I
  BY TodayIsRecorded DEF Recorded
<1>4. now \in Nat /\ DayOf(now) \in Nat
  BY <1>1, RowsAreKept, WindowFacts
<1>5. ASSUME NEW r \in row PROVE r \in today
  <2>1. InView(view, DayOf(now), r)
    BY <1>2
  <2>2. r \in committed /\ r.iface \in I /\ DayOf(r.ts) = DayOf(now)
    BY <1>1, <2>1, ShowIsSound
  <2>3. r.ts >= DayOf(now)
    BY <1>1, <2>2, InWindow
  <2> QED BY <1>3, <1>4, <2>2, <2>3, RowsAreKept
<1>6. ASSUME NEW r \in today, r \notin Unfolded PROVE r \in row
  <2>1. r \in committed \ Unfolded /\ r.ts >= DayOf(now) /\ r.iface \in I
    BY <1>3, <1>4, <1>6
  <2>2. DayOf(r.ts) = DayOf(now)
    BY <1>1, <2>1, InWindow
  <2>3. DayOf(now) \in now - Span("day") .. now
    BY <1>1, <1>4, WindowIsShown
  <2>4. InView(view, DayOf(now), r)
    BY <1>1, <2>1, <2>2, <2>3, ShowIsComplete
  <2> QED BY <1>2, <2>4
<1> HIDE DEF row, today
<1>7. row \subseteq today /\ today \ row \subseteq Unfolded
  BY <1>5, <1>6
<1> QED BY <1>7 DEF row, today

(* `show` and `today` never contradict each other, but for rows that wait  *)
(* for the next rollup.                                                    *)
THEOREM ViewsShowTrailsToday ==
  ASSUME SaneConditions, RawKeepsToday
  PROVE  Spec => []ShowTrailsToday
<1>1. ViewInv => ShowTrailsToday
  BY ViewsSayShowTrails
<1> QED BY <1>1, ViewInvariant, PTL

(* Hourly rows are kept as long as `show --period hour` looks back.        *)
HourlyKeepsSpan == HourSpan <= HourlyRet

LEMMA ViewsSayRowsComplete == ViewInv /\ HourlyKeepsSpan => RowsAreComplete
<1> SUFFICES ASSUME ViewInv, HourlyKeepsSpan PROVE RowsAreComplete
  OBVIOUS
<1>1. ASSUME NEW period \in Period, NEW I \in Filters, NEW r \in committed \ Unfolded,
             r.iface \in I, WindowStart(period, r.ts) \in now - Span(period) .. now
      PROVE  InView(Show(period, now, I), WindowStart(period, r.ts), r)
  BY <1>1, ShowIsComplete DEF HourlyKeepsSpan
<1>2. ASSUME NEW r \in committed \ Unfolded
      PROVE  InView(TopByDay, DayOf(r.ts), r)
  <2>1. /\ r.ts \in Nat /\ r.ts <= now /\ now \in Nat /\ now <= MaxClock
        /\ r.iface \in Iface /\ r \in DOMAIN daily
    BY RowsAreKept
  <2>2. DayOf(r.ts) \in Nat /\ DayOf(r.ts) <= r.ts
    BY <2>1, WindowFacts DEF Period, WindowStart
  <2>3. DayOf(r.ts) \in 0 .. (MaxClock + 1) - 1
    BY <2>1, <2>2
  <2>4. Buckets(DOMAIN daily, "day")[r] = DayOf(r.ts)
    BY <2>1 DEF Buckets, WindowStart
  <2> QED BY <2>1, <2>3, <2>4, InQuery DEF TopByDay
<1> QED BY <1>1, <1>2 DEF RowsAreComplete, InView

(* No bucket of `show` or `top --by day` is missing or short, for every    *)
(* retention of hourly rows that reaches as far back as `show` looks.      *)
THEOREM ViewsRowsAreComplete ==
  ASSUME SaneConditions, HourlyKeepsSpan
  PROVE  Spec => []RowsAreComplete
<1>1. ViewInv => RowsAreComplete
  BY ViewsSayRowsComplete
<1> QED BY <1>1, ViewInvariant, PTL

LEMMA ViewsSayBudgetBar == ViewInv => BudgetBarIsTheWindow
<1> SUFFICES ASSUME ViewInv, NEW period \in Period \ {"hour"}
             PROVE  LET used == BudgetUsed(period, Show(period, now, Iface))
                        window == Recorded(WindowStart(period, now), now, Iface)
                    IN  used \subseteq window /\ window \ used \subseteq Unfolded
  BY DEF BudgetBarIsTheWindow
<1> DEFINE start == WindowStart(period, now)
           view == Show(period, now, Iface)
           used == BudgetUsed(period, view)
           window == Recorded(start, now, Iface)
<1>1. \A r : r \in used <=> \E b : InView(view, b, r) /\ b >= start
  BY DEF BudgetUsed, InView
<1>2. now \in Nat /\ start \in Nat
  BY RowsAreKept, WindowFacts
<1>3. \A r : r \in window <=> r \in committed /\ r.ts \in start .. now /\ r.iface \in Iface
  BY DEF Recorded
<1>4. ASSUME NEW r \in used PROVE r \in window
  <2>1. PICK b : InView(view, b, r) /\ b >= start
    BY <1>1
  <2>2. r \in committed /\ r.iface \in Iface /\ WindowStart(period, r.ts) = b
    BY <2>1, ShowIsSound
  <2>3. r.ts >= start
    BY <1>2, <2>1, <2>2, InWindow
  <2> QED BY <1>2, <1>3, <2>2, <2>3, RowsAreKept
<1>5. ASSUME NEW r \in window, r \notin Unfolded PROVE r \in used
  <2>1. r \in committed \ Unfolded /\ r.ts >= start /\ r.iface \in Iface
    BY <1>2, <1>3, <1>5
  <2>2. WindowStart(period, r.ts) = start
    BY <2>1, InWindow
  <2>3. start \in now - Span(period) .. now
    BY <1>2, WindowIsShown
  <2>4. InView(view, start, r)
    BY <2>1, <2>2, <2>3, ShowIsComplete
  <2> QED BY <1>1, <1>2, <2>4
<1> HIDE DEF used, window
<1>6. used \subseteq window /\ window \ used \subseteq Unfolded
  BY <1>4, <1>5
<1> QED BY <1>6 DEF used, window

(* The budget bar of `show` is the traffic of the current window, but for  *)
(* rows that wait for the next rollup, whatever is left of the raw rows.   *)
THEOREM ViewsBudgetBarIsTheWindow ==
  ASSUME SaneConditions
  PROVE  Spec => []BudgetBarIsTheWindow
<1>1. ViewInv => BudgetBarIsTheWindow
  BY ViewsSayBudgetBar
<1> QED BY <1>1, ViewInvariant, PTL

-----------------------------------------------------------------------------
(* Part 5.  The apps of TopApps.  Retention takes whole hours that are     *)
(* past its age, and every window starts at an hour.                       *)

AppsInv ==
  /\ OnceInv
  /\ drained \subseteq Nat /\ \A t \in drained : t <= now
  /\ apps \subseteq drained
  /\ \A t \in drained : t \in apps \/ HourOf(t) < now - ProcWindow

LEMMA AppsAreTyped ==
  ASSUME AppsInv
  PROVE  /\ now \in Nat /\ ProcWindow \in Int /\ DayLen <= ProcWindow
         /\ \A t \in drained : t \in Nat /\ t <= now /\ HourOf(t) \in Nat
<1>1. now \in Nat
  BY DEF AppsInv, OnceInv, TypeOK
<1>2. ProcWindow \in Int /\ DayLen <= ProcWindow
  BY TopAppsAssumption DEF TopAppsAssumption, ProcWindow
<1>3. \A t \in Nat : HourOf(t) \in Nat
  BY WindowFacts DEF Period, WindowStart
<1> QED BY <1>1, <1>2, <1>3 DEF AppsInv

(* A step that leaves the apps alone and does not set the clock back.      *)
LEMMA AppsQuiet ==
  ASSUME AppsInv, OnceInv', UNCHANGED appVars, now' \in Nat, now' >= now
  PROVE  AppsInv'
<1>1. ProcWindow' = ProcWindow
  BY DEF ProcWindow
<1>2. \A t \in drained : t <= now' /\ (t \in apps' \/ HourOf(t) < now' - ProcWindow)
  BY AppsAreTyped DEF AppsInv, appVars
<1> QED BY <1>1, <1>2 DEF AppsInv, appVars

(* Every step of TopApps keeps AppsInv, unless it sets the clock back.     *)
LEMMA AppsNext ==
  ASSUME ~ClockMayStepBack
  PROVE  AppsInv /\ [TNext]_<<vars, appVars>> => AppsInv'
<1> SUFFICES ASSUME AppsInv, [TNext]_<<vars, appVars>> PROVE AppsInv'
  OBVIOUS
<1>1. now \in Nat
  BY AppsAreTyped
<1>2. OnceInv'
  <2>1. [Next]_vars
    BY DEF TNext, CommitApps, DeleteApps, Others, Next
  <2> QED BY <2>1, OnceNext DEF AppsInv
<1>3. ProcWindow' = ProcWindow
  BY DEF ProcWindow
<1>4. CASE CommitApps
  <2>1. now' = now /\ apps' = apps \cup {now} /\ drained' = drained \cup {now}
    BY <1>4 DEF CommitApps, WriteApps
  <2> QED BY <1>1, <1>2, <1>3, <2>1 DEF AppsInv
<1>5. CASE DeleteApps
  <2>1. now' = now /\ drained' = drained
    BY <1>5 DEF DeleteApps, RetainApps, StopRetainApps, Exit
  <2>2. apps' = {t \in apps : HourOf(t) >= now - ProcWindow}
    BY <1>5 DEF DeleteApps, PruneApps
  <2>3. \A t \in drained : t \in apps' \/ HourOf(t) < now - ProcWindow
    BY <2>2, AppsAreTyped DEF AppsInv
  <2> QED BY <1>2, <1>3, <2>1, <2>2, <2>3 DEF AppsInv
<1>6. CASE Others /\ UNCHANGED appVars
  <2>1. now' \in Nat /\ now' >= now
    BY <1>1, <1>6 DEF Others, Start, Pass, Stop, Crash, Exit, StepBack, Wake, WriteSamples,
         WriteApps, Rollup, RetainRaw, RetainHourly, StopRollup, StopRetainRaw, StopRetainHourly
  <2> QED BY <1>2, <1>6, <2>1, AppsQuiet
<1>7. CASE UNCHANGED <<vars, appVars>>
  BY <1>1, <1>2, <1>7, AppsQuiet DEF vars
<1> QED BY <1>4, <1>5, <1>6, <1>7 DEF TNext

(* Every window starts at an hour.                                         *)
LEMMA WindowStartsAnHour ==
  ASSUME NEW period \in Period, NEW t \in Nat
  PROVE  HourOf(WindowStart(period, t)) = WindowStart(period, t)
<1> DEFINE hours == DayLen \div HourLen
<1>1. hours \in Nat /\ DayLen = HourLen * hours
  BY DivMod
<1>2. hours # 0
  BY <1>1
<1> HIDE DEF hours
<1>3. PICK k \in Nat \ {0} : Length(period) = HourLen * k
  <2>1. CASE period = "hour"
    <3>1. Length(period) = HourLen * 1
      BY <2>1 DEF Length
    <3> QED BY <3>1
  <2>2. CASE period = "day"
    BY <1>1, <1>2, <2>2 DEF Length
  <2>3. ASSUME NEW days \in Nat \ {0}, Length(period) = DayLen * days
        PROVE  \E k \in Nat \ {0} : Length(period) = HourLen * k
    <3>1. hours * days \in Nat \ {0}
      BY <1>1, <1>2
    <3>2. DayLen * days = HourLen * (hours * days)
      BY <1>1
    <3> QED BY <2>3, <3>1, <3>2
  <2> QED BY <2>1, <2>2, <2>3 DEF Period, Length
<1>4. Floor(HourLen, Floor(HourLen * k, t)) = Floor(HourLen * k, t)
  BY FloorOfLonger
<1>5. WindowStart(period, t) = Floor(HourLen * k, t) /\ WindowStart(period, t) \in Nat
  BY <1>3, WindowIsFloor, WindowFacts
<1>6. \A u \in Nat : HourOf(u) = Floor(HourLen, u)
  BY FloorFacts DEF HourOf
<1> QED BY <1>4, <1>5, <1>6

(* An hour is of a window when its rows are.                               *)
LEMMA HourInWindow ==
  ASSUME NEW period \in Period, NEW t \in Nat, NEW u \in Nat
  PROVE  HourOf(u) >= WindowStart(period, t) <=> u >= WindowStart(period, t)
<1> DEFINE start == WindowStart(period, t)
<1>1. start \in Nat /\ HourOf(start) = start
  BY WindowFacts, WindowStartsAnHour
<1> HIDE DEF start
<1>2. \A v \in Nat : WindowStart("hour", v) = HourOf(v)
  BY DEF WindowStart
<1>3. HourOf(u) \in Nat /\ HourOf(u) <= u
  BY <1>2, WindowFacts DEF Period
<1>4. start <= u => start <= HourOf(u)
  BY <1>1, <1>2, WindowAbove DEF Period
<1>5. HourOf(u) >= start <=> u >= start
  BY <1>1, <1>3, <1>4
<1> QED BY <1>5 DEF start

LEMMA AppsSayTheWindow == AppsInv => AppsOfTheWindow
<1> SUFFICES ASSUME AppsInv PROVE AppsOfTheWindow
  OBVIOUS
<1>1. now \in Nat
  BY AppsAreTyped
<1>2. ASSUME NEW period \in Period, now - WindowStart(period, now) <= ProcWindow
      PROVE  QueryProc(WindowStart(period, now))
               = {t \in drained : t >= WindowStart(period, now)}
  <2> DEFINE start == WindowStart(period, now)
  <2>1. start \in Nat
    BY <1>1, WindowFacts
  <2>2. \A t \in drained : HourOf(t) >= start <=> t >= start
    BY <1>1, HourInWindow, AppsAreTyped
  <2> HIDE DEF start
  <2>3. \A t \in drained : t >= start => t \in apps
    BY <1>1, <1>2, <2>1, <2>2, AppsAreTyped DEF AppsInv, start
  <2>4. \A t : t \in apps /\ HourOf(t) >= start <=> t \in drained /\ t >= start
    BY <2>2, <2>3 DEF AppsInv
  <2> QED BY <2>4 DEF QueryProc, start
<1>3. "day" \in Period /\ WindowStart("day", now) = DayOf(now)
  BY DEF Period, WindowStart
<1>4. now - DayOf(now) <= ProcWindow /\ DayOf(now) \in Nat
  BY <1>1, <1>3, WindowFacts, AppsAreTyped DEF Length
<1>5. TodayTopApps = {t \in drained : t \in DayOf(now) .. now}
  <2>1. TodayTopApps = {t \in drained : t >= DayOf(now)}
    BY <1>2, <1>3, <1>4 DEF TodayTopApps
  <2>2. \A t \in drained : t >= DayOf(now) <=> t \in DayOf(now) .. now
    BY <1>1, <1>4, AppsAreTyped
  <2> QED BY <2>1, <2>2
<1> QED BY <1>2, <1>5 DEF AppsOfTheWindow, AppsSince

(* The apps of a window within proc_retention_days, and today's in any     *)
(* case, are all that any tick has committed since it began, on every path *)
(* of crash, stop and failing rollup between the commits of a tick and the *)
(* DELETEs of a retention, for every retention and every length of hours,  *)
(* days, weeks and months.                                                 *)
THEOREM AppsAreOfTheWindow ==
  ASSUME ~ClockMayStepBack
  PROVE  TSpec => []AppsOfTheWindow
<1>1. TInit => AppsInv
  BY OnceInit DEF TInit, Init, AppsInv
<1>2. AppsInv /\ [TNext]_<<vars, appVars>> => AppsInv'
  BY AppsNext
<1>3. AppsInv => AppsOfTheWindow
  BY AppsSayTheWindow
<1> QED BY <1>1, <1>2, <1>3, PTL DEF TSpec

(* The store does with the apps what it does without them, so all theorems *)
(* of parts 1 to 4 hold beside them.                                       *)
THEOREM AppsLeaveTheStoreAlone == TSpec => Spec
<1>1. TInit => Init
  BY DEF TInit
<1>2. [TNext]_<<vars, appVars>> => [Next]_vars
  <2>1. CommitApps => Next
    BY DEF CommitApps, Next
  <2>2. DeleteApps => Next
    BY DEF DeleteApps, Next
  <2>3. Others => Next
    BY DEF Others, Next
  <2> QED BY <2>1, <2>2, <2>3 DEF TNext
<1> QED BY <1>1, <1>2, PTL DEF TSpec, Spec

-----------------------------------------------------------------------------
(* Part 6.  The import.  A row that monthly counts is in daily or in a     *)
(* figure that is there, and a row still to be folded that a figure covers *)
(* was waiting when it came.                                               *)

(* The figure that may stand for row r.                                    *)
FigureFor(r) == Figure(<<DayOf(r.ts), r.iface>>)

ImportTypes ==
  /\ now \in Nat /\ writes \in Nat /\ marker \in Nat \cup {NoMarker}
  /\ samples \subseteq committed /\ committed \subseteq Row
  /\ \A r \in committed : r.n >= 1 /\ r.n <= writes
  /\ covered \subseteq committed /\ DOMAIN monthly \subseteq committed

(* What monthly and daily count.                                           *)
CountedOnce ==
  /\ \A r \in DOMAIN monthly : monthly[r] = 1 /\ r \notin Unfolded
  /\ \A r \in DOMAIN daily : daily[r] = 1 /\ (r \in DOMAIN monthly \/ r.n = 0)

(* Where each row is.                                                      *)
StoodFor ==
  /\ \A r \in DOMAIN monthly :
       \/ r \in DOMAIN daily
       \/ r \in covered /\ FigureFor(r) \in DOMAIN daily
  /\ \A r \in DOMAIN monthly \cap DOMAIN daily :
       r \in covered /\ FigureFor(r) \in DOMAIN daily => r \in waiting
  /\ \A r \in Unfolded : r \in covered => r \in waiting

ImportInv == ImportTypes /\ CountedOnce /\ StoodFor

LEMMA ImportRows ==
  ASSUME ImportInv
  PROVE  /\ \A r \in committed : r.ts \in Nat /\ r.n \in Nat /\ r.iface \in Iface
         /\ Unfolded \subseteq committed
         /\ Unfolded \cap DOMAIN daily = {}
         /\ \A r : FigureFor(r) \notin committed
<1>1. \A r \in committed : r.ts \in Nat /\ r.n \in Nat /\ r.iface \in Iface /\ r.n >= 1
  BY DEF ImportInv, ImportTypes, Row
<1>2. Unfolded \subseteq committed
  BY DEF ImportInv, ImportTypes, Unfolded
<1>3. \A r : FigureFor(r).n = 0
  BY DEF FigureFor, Figure
<1> QED BY <1>1, <1>2, <1>3 DEF ImportInv, CountedOnce

(* Adding rows that are not there yet.                                     *)
LEMMA AddNew ==
  ASSUME NEW T, NEW R, \A r \in DOMAIN T : T[r] = 1, R \cap DOMAIN T = {}
  PROVE  /\ DOMAIN AddRows(T, R) = DOMAIN T \cup R
         /\ \A r \in DOMAIN AddRows(T, R) : AddRows(T, R)[r] = 1
  BY DEF AddRows, Copies

LEMMA ImportInit == IInit => ImportInv
  BY DEF IInit, Init, ImportInv, ImportTypes, CountedOnce, StoodFor, EmptyTable, Unfolded, NoMarker

(* A step after which no row is pending that was not, nor counted.         *)
LEMMA ImportQuiet ==
  ASSUME ImportInv, UNCHANGED <<daily, monthly, marker, committed, writes, covered, waiting>>,
         samples' \subseteq samples, now' \in Nat
  PROVE  ImportInv'
<1>1. Unfolded' \subseteq Unfolded
  BY DEF Unfolded
<1>2. ImportTypes'
  BY DEF ImportInv, ImportTypes
<1>3. CountedOnce'
  BY <1>1 DEF ImportInv, CountedOnce
<1>4. \A r : FigureFor(r)' = FigureFor(r)
  BY DEF FigureFor, Figure, DayOf
<1>5. StoodFor'
  BY <1>1, <1>4 DEF ImportInv, StoodFor
<1> QED BY <1>2, <1>3, <1>5 DEF ImportInv

(* Rows just written are in no table, and no figure covers them.           *)
LEMMA ImportWrite ==
  ASSUME ImportInv, NEW S \in SUBSET Iface, WriteSamples(S), UNCHANGED <<covered, waiting>>
  PROVE  ImportInv'
<1> DEFINE new == {[n |-> writes + 1, ts |-> now, iface |-> i] : i \in S}
<1>1. /\ committed' = committed \cup new /\ samples' \subseteq samples \cup new
      /\ UNCHANGED <<now, hourly, daily, monthly, marker>>
      /\ writes' \in {writes, writes + 1} /\ (new # {} => writes' = writes + 1)
  BY DEF WriteSamples, tables
<1>2. writes \in Nat /\ now \in Nat
  BY DEF ImportInv, ImportTypes
<1>3. new \subseteq Row /\ (\A r \in new : r.n = writes + 1)
  BY <1>2 DEF Row
<1>4. new \cap committed = {}
  BY <1>2, <1>3 DEF ImportInv, ImportTypes
<1> HIDE DEF new
<1>5. Unfolded' \subseteq Unfolded \cup new
  BY <1>1 DEF Unfolded
<1>6. ImportTypes'
  <2>1. \A r \in committed' : r.n >= 1 /\ r.n <= writes'
    BY <1>1, <1>2, <1>3 DEF ImportInv, ImportTypes, Row
  <2> QED BY <1>1, <1>2, <1>3, <2>1 DEF ImportInv, ImportTypes
<1>7. CountedOnce'
  BY <1>1, <1>4, <1>5 DEF ImportInv, ImportTypes, CountedOnce
<1>8. \A r : FigureFor(r)' = FigureFor(r)
  BY DEF FigureFor, Figure, DayOf
<1>9. StoodFor'
  BY <1>1, <1>4, <1>5, <1>8 DEF ImportInv, ImportTypes, StoodFor
<1> QED BY <1>6, <1>7, <1>9 DEF ImportInv

(* A rollup adds to both tables what no figure covers, or was waiting.     *)
LEMMA ImportFold ==
  ASSUME ImportInv, Fold, UNCHANGED <<now, samples, committed, writes, covered, waiting>>
  PROVE  ImportInv'
<1>1. CASE Unfolded = {}
  BY <1>1, ImportQuiet DEF Fold, tables, ImportInv, ImportTypes
<1>2. CASE Unfolded # {}
  <2> DEFINE base(T) == IF marker = NoMarker THEN EmptyTable ELSE T
  <2>1. daily' = AddRows(base(daily), Unfolded) /\ monthly' = AddRows(base(monthly), Unfolded)
    BY <1>2 DEF Fold
  <2>2. /\ \A r \in DOMAIN base(daily) :
             base(daily)[r] = 1 /\ r \in DOMAIN daily /\ r \notin Unfolded
        /\ \A r \in DOMAIN base(monthly) :
             base(monthly)[r] = 1 /\ r \in DOMAIN monthly /\ r \notin Unfolded
        /\ \A r \in DOMAIN base(daily) : r \in DOMAIN base(monthly) \/ r.n = 0
        /\ \A r \in DOMAIN base(monthly) :
             \/ r \in DOMAIN base(daily)
             \/ r \in covered /\ FigureFor(r) \in DOMAIN base(daily)
    <3>1. CASE marker = NoMarker
      BY <3>1 DEF EmptyTable
    <3>2. CASE marker # NoMarker
      BY <3>2, ImportRows DEF ImportInv, CountedOnce, StoodFor
    <3> QED BY <3>1, <3>2
  <2> HIDE DEF base
  <2>3. /\ DOMAIN daily' = DOMAIN base(daily) \cup Unfolded
        /\ \A r \in DOMAIN daily' : daily'[r] = 1
        /\ DOMAIN monthly' = DOMAIN base(monthly) \cup Unfolded
        /\ \A r \in DOMAIN monthly' : monthly'[r] = 1
    <3>1. Unfolded \cap DOMAIN base(daily) = {} /\ Unfolded \cap DOMAIN base(monthly) = {}
      BY <2>2
    <3>2. /\ DOMAIN AddRows(base(daily), Unfolded) = DOMAIN base(daily) \cup Unfolded
          /\ \A r \in DOMAIN AddRows(base(daily), Unfolded) :
               AddRows(base(daily), Unfolded)[r] = 1
      BY <2>2, <3>1, AddNew
    <3>3. /\ DOMAIN AddRows(base(monthly), Unfolded) = DOMAIN base(monthly) \cup Unfolded
          /\ \A r \in DOMAIN AddRows(base(monthly), Unfolded) :
               AddRows(base(monthly), Unfolded)[r] = 1
      BY <2>2, <3>1, AddNew
    <3> QED BY <2>1, <3>2, <3>3
  <2>4. Unfolded' = {} /\ marker' \in Nat \cup {NoMarker}
    BY FoldNothingPending, ImportRows DEF ImportInv, ImportTypes
  <2>5. ImportTypes'
    BY <2>2, <2>3, <2>4, ImportRows DEF ImportInv, ImportTypes
  <2>6. CountedOnce'
    BY <2>2, <2>3, <2>4 DEF CountedOnce
  <2>7. \A r : FigureFor(r)' = FigureFor(r) /\ FigureFor(r) \notin Unfolded
    BY ImportRows DEF FigureFor, Figure, DayOf
  <2>8. StoodFor'
    <3>1. ASSUME NEW r \in DOMAIN monthly' \cap DOMAIN daily',
                 r \in covered, FigureFor(r) \in DOMAIN daily'
          PROVE  r \in waiting
      <4>1. CASE r \in Unfolded
        BY <3>1, <4>1 DEF ImportInv, StoodFor
      <4>2. CASE r \notin Unfolded
        <5>1. r \in DOMAIN monthly \cap DOMAIN daily /\ FigureFor(r) \in DOMAIN daily
          BY <2>2, <2>3, <2>7, <3>1, <4>2
        <5> QED BY <3>1, <5>1 DEF ImportInv, StoodFor
      <4> QED BY <4>1, <4>2
    <3>2. ASSUME NEW r \in DOMAIN monthly'
          PROVE  r \in DOMAIN daily' \/ (r \in covered /\ FigureFor(r) \in DOMAIN daily')
      BY <2>2, <2>3, <3>2
    <3> QED BY <2>4, <2>7, <3>1, <3>2 DEF StoodFor
  <2> QED BY <2>5, <2>6, <2>8 DEF ImportInv
<1> QED BY <1>1, <1>2

LEMMA DayOfDay == \A t \in Nat : DayOf(t) \in Nat /\ DayOf(DayOf(t)) = DayOf(t)
<1> SUFFICES ASSUME NEW t \in Nat PROVE DayOf(t) \in Nat /\ DayOf(DayOf(t)) = DayOf(t)
  OBVIOUS
<1>1. \A u \in Nat : DayOf(u) = Floor(DayLen, u)
  BY FloorFacts DEF DayOf
<1>2. DayOf(t) \in Nat
  BY <1>1, FloorFacts
<1>3. Floor(DayLen, Floor(DayLen * 1, t)) = Floor(DayLen * 1, t)
  BY FloorOfLonger
<1> QED BY <1>1, <1>2, <1>3

(* A figure takes the place of what is in daily of its day, and covers it. *)
LEMMA ImportOfDay ==
  ASSUME ImportInv, NEW key \in DaysSoFar \X Iface, ImportDay(key)
  PROVE  ImportInv'
<1> DEFINE gone == OfDay(key, DOMAIN daily)
           kept == Without(daily, gone)
           figure == Figure(key)
<1>1. /\ UNCHANGED <<now, samples, monthly, marker, committed, writes>>
      /\ daily' = AddRows(kept, {figure})
      /\ covered' = covered \cup OfDay(key, committed)
      /\ waiting' = (waiting \ OfDay(key, committed)) \cup OfDay(key, Unfolded)
  BY DEF ImportDay, Upsert
<1>2. Unfolded' = Unfolded /\ \A r : FigureFor(r)' = FigureFor(r)
  BY <1>1 DEF Unfolded, FigureFor, Figure, DayOf
<1>3. key[1] \in Nat /\ DayOf(key[1]) = key[1] /\ key[2] \in Iface
  <2>1. PICK t \in 0 .. now : key[1] = DayOf(t)
    <3>1. key[1] \in DaysSoFar
      OBVIOUS
    <3> QED BY <3>1 DEF DaysSoFar
  <2>2. t \in Nat
    BY <2>1 DEF ImportInv, ImportTypes
  <2>3. DayOf(t) \in Nat /\ DayOf(DayOf(t)) = DayOf(t)
    BY <2>2, DayOfDay
  <2>4. key[2] \in Iface
    OBVIOUS
  <2> QED BY <2>1, <2>3, <2>4
<1>4. figure.n = 0 /\ figure.ts = key[1] /\ figure.iface = key[2]
  BY DEF Figure
<1>5. DOMAIN kept = DOMAIN daily \ gone /\ \A r \in DOMAIN kept : kept[r] = daily[r]
  BY DEF Without
<1>6. \A r : r \in gone
               <=> r \in DOMAIN daily /\ DayOf(r.ts) = key[1] /\ r.iface = key[2]
  BY DEF OfDay
<1>7. \A R, r : r \in OfDay(key, R)
                  <=> r \in R /\ DayOf(r.ts) = key[1] /\ r.iface = key[2]
  BY DEF OfDay
<1> HIDE DEF gone, kept, figure
<1>8. {figure} \cap DOMAIN kept = {}
  BY <1>3, <1>4, <1>5, <1>6
<1>9. /\ DOMAIN daily' = (DOMAIN daily \ gone) \cup {figure}
      /\ \A r \in DOMAIN daily' : daily'[r] = 1
  <2>1. \A r \in DOMAIN kept : kept[r] = 1
    BY <1>5 DEF ImportInv, CountedOnce
  <2>2. /\ DOMAIN AddRows(kept, {figure}) = DOMAIN kept \cup {figure}
        /\ \A r \in DOMAIN AddRows(kept, {figure}) : AddRows(kept, {figure})[r] = 1
    BY <1>8, <2>1, AddNew
  <2> QED BY <1>1, <1>5, <2>2
<1>10. ImportTypes'
  BY <1>1, <1>7 DEF ImportInv, ImportTypes
<1>11. CountedOnce'
  BY <1>1, <1>2, <1>4, <1>9 DEF ImportInv, CountedOnce
<1>12. ASSUME NEW r \in committed
       PROVE  /\ r \notin OfDay(key, committed) =>
                   /\ r \in covered' <=> r \in covered
                   /\ r \in waiting => r \in waiting'
                   /\ r \in DOMAIN daily' <=> r \in DOMAIN daily
                   /\ FigureFor(r) \in DOMAIN daily' <=> FigureFor(r) \in DOMAIN daily
              /\ r \in OfDay(key, committed) =>
                   r \in covered' /\ FigureFor(r) \in DOMAIN daily' /\ r \notin DOMAIN daily'
  <2>1. r # figure /\ r.ts \in Nat
    BY <1>4, <1>12, ImportRows DEF ImportInv, ImportTypes
  <2>2. CASE r \in OfDay(key, committed)
    <3>1. DayOf(r.ts) = key[1] /\ r.iface = key[2]
      BY <1>7, <2>2
    <3>2. FigureFor(r) = figure
      BY <3>1 DEF FigureFor, Figure, figure
    <3> QED BY <1>1, <1>6, <1>9, <2>1, <2>2, <3>1, <3>2
  <2>3. CASE r \notin OfDay(key, committed)
    <3>1. ~(DayOf(r.ts) = key[1] /\ r.iface = key[2])
      BY <1>7, <1>12, <2>3
    <3>2. FigureFor(r).ts = DayOf(r.ts) /\ FigureFor(r).iface = r.iface
      BY DEF FigureFor, Figure
    <3>3. DayOf(DayOf(r.ts)) = DayOf(r.ts)
      BY <2>1, DayOfDay
    <3>4. FigureFor(r) # figure /\ FigureFor(r) \notin gone /\ r \notin gone
      BY <1>4, <1>6, <3>1, <3>2, <3>3
    <3> QED BY <1>1, <1>9, <2>1, <2>3, <3>4
  <2> QED BY <2>2, <2>3
<1>13. \A r \in Unfolded : r \in covered' => r \in waiting'
  <2> SUFFICES ASSUME NEW r \in Unfolded, r \in covered' PROVE r \in waiting'
    OBVIOUS
  <2>1. r \in committed
    BY ImportRows
  <2>2. CASE r \in OfDay(key, committed)
    BY <1>1, <1>7, <2>2
  <2>3. CASE r \notin OfDay(key, committed)
    BY <1>12, <2>1, <2>3 DEF ImportInv, StoodFor
  <2> QED BY <2>2, <2>3
<1>14. StoodFor'
  <2>1. DOMAIN monthly \subseteq committed
    BY DEF ImportInv, ImportTypes
  <2>2. \A r \in DOMAIN monthly :
          r \in DOMAIN daily' \/ (r \in covered' /\ FigureFor(r) \in DOMAIN daily')
    BY <1>12, <2>1 DEF ImportInv, StoodFor
  <2>3. \A r \in DOMAIN monthly \cap DOMAIN daily' :
          r \in covered' /\ FigureFor(r) \in DOMAIN daily' => r \in waiting'
    BY <1>12, <2>1 DEF ImportInv, StoodFor
  <2> QED BY <1>1, <1>2, <1>13, <2>2, <2>3 DEF StoodFor
<1> QED BY <1>10, <1>11, <1>14 DEF ImportInv

(* Every step of the daemon and every import keeps ImportInv.              *)
LEMMA ImportNext == ImportInv /\ [INext]_ivars => ImportInv'
<1> SUFFICES ASSUME ImportInv, [INext]_ivars PROVE ImportInv'
  OBVIOUS
<1>1. ASSUME NEW key \in DaysSoFar \X Iface, ImportDay(key) PROVE ImportInv'
  BY <1>1, ImportOfDay
<1>2. CASE UNCHANGED ivars
  BY <1>2, ImportQuiet DEF ivars, vars, tables, ImportInv, ImportTypes
<1>3. ASSUME Next, UNCHANGED <<covered, waiting>> PROVE ImportInv'
  <2>0. now \in Nat
    BY DEF ImportInv, ImportTypes
  <2> USE DEF tables
  <2>1. CASE Start \/ Pass \/ Stop \/ Crash \/ StepBack
    BY <1>3, <2>0, <2>1, ImportQuiet DEF Start, Pass, Stop, Crash, Exit, StepBack
  <2>2. ASSUME NEW d \in Sleeps, NEW s \in 0 .. MaxSuspend, Wake(d, s) PROVE ImportInv'
    <3>1. UNCHANGED <<tables, samples, committed, writes>> /\ now' = now + d + s
      BY <2>2 DEF Wake
    <3> QED BY <1>3, <2>0, <3>1, ImportQuiet
  <2>3. ASSUME NEW S \in SUBSET Iface, WriteSamples(S) PROVE ImportInv'
    BY <1>3, <2>3, ImportWrite
  <2>4. CASE Rollup \/ StopRollup
    <3>1. UNCHANGED <<now, samples, committed, writes>> /\ (Fold \/ UNCHANGED tables)
      BY <2>4 DEF Rollup, StopRollup, FoldOrFail
    <3> QED BY <1>3, <2>0, <3>1, ImportFold, ImportQuiet
  <2>5. CASE RetainRaw \/ StopRetainRaw
    <3>1. UNCHANGED <<now, tables, committed, writes>> /\ samples' \subseteq samples
      BY <2>5 DEF RetainRaw, StopRetainRaw, PruneRaw
    <3> QED BY <1>3, <2>0, <3>1, ImportQuiet
  <2>6. CASE RetainHourly \/ StopRetainHourly
    <3>1. UNCHANGED <<now, samples, daily, monthly, marker, committed, writes>>
      BY <2>6 DEF RetainHourly, StopRetainHourly
    <3> QED BY <1>3, <2>0, <3>1, ImportQuiet
  <2>7. CASE WriteApps \/ RetainApps \/ StopRetainApps
    BY <1>3, <2>0, <2>7, ImportQuiet DEF WriteApps, RetainApps, StopRetainApps, Exit
  <2> QED BY <1>3, <2>1, <2>2, <2>3, <2>4, <2>5, <2>6, <2>7 DEF Next
<1> QED BY <1>1, <1>2, <1>3 DEF INext

LEMMA ImportSaysReplaces == ImportInv => ImportReplacesItsDays
<1> SUFFICES ASSUME ImportInv PROVE ImportReplacesItsDays
  OBVIOUS
<1>1. ASSUME NEW r
      PROVE  /\ FigureOf(r) = IF r \in covered /\ FigureFor(r) \in DOMAIN daily
                              THEN {FigureFor(r)} ELSE {}
             /\ Cardinality(FigureOf(r))
                  = IF r \in covered /\ FigureFor(r) \in DOMAIN daily THEN 1 ELSE 0
  <2>1. FigureFor(r).n = 0
    BY DEF FigureFor, Figure
  <2>2. FigureOf(r) = IF r \in covered /\ FigureFor(r) \in DOMAIN daily
                      THEN {FigureFor(r)} ELSE {}
    BY <2>1 DEF FigureOf, Imported, FigureFor
  <2>3. Cardinality({FigureFor(r)}) = 1 /\ Cardinality({}) = 0
    BY FS_Singleton, FS_EmptySet
  <2> QED BY <2>2, <2>3
<1>2. ASSUME NEW r \in DOMAIN monthly
      PROVE  LET times == Copies(r, daily) + Cardinality(FigureOf(r))
             IN  times = 1 \/ (times = 2 /\ r \in waiting)
  <2>1. Copies(r, daily) = IF r \in DOMAIN daily THEN 1 ELSE 0
    BY DEF Copies, ImportInv, CountedOnce
  <2> QED BY <1>1, <2>1 DEF ImportInv, StoodFor
<1>3. \A r \in DOMAIN daily : daily[r] = 1 /\ (r \in Imported \/ Copies(r, monthly) = 1)
  BY DEF ImportInv, CountedOnce, Imported, Copies
<1> QED BY <1>2, <1>3 DEF ImportReplacesItsDays

(* An import replaces what was measured of its days and nothing else, for  *)
(* any days, retentions and intervals, any number of imports at any        *)
(* moment, rollups that fail and a clock that is set back.                 *)
THEOREM ImportReplaces == ISpec => []ImportReplacesItsDays
<1>1. IInit => ImportInv
  BY ImportInit
<1>2. ImportInv /\ [INext]_ivars => ImportInv'
  BY ImportNext
<1>3. ImportInv => ImportReplacesItsDays
  BY ImportSaysReplaces
<1> QED BY <1>1, <1>2, <1>3, PTL DEF ISpec
=============================================================================
