------------------------------ MODULE NftWatch ------------------------------
(***************************************************************************)
(* The watch of the daemon over the nft table that splits LAN from TOTAL   *)
(* (src/daemon.rs, `run`; read_nft, nft_table_exists and install_nft of    *)
(* src/capture.rs): reading its counters every tick, publishing in         *)
(* meta.nft_ok whether that worked, reinstalling the table when it seems   *)
(* gone for good, and keeping the last reading as the baseline of the next *)
(* LAN delta.                                                              *)
(*                                                                         *)
(* Every invocation of nft is a process of its own: an administrator, a    *)
(* firewall or `netmeter daemon install` may flush or load rulesets        *)
(* between any two of them, and each may fail on its own.                  *)
(***************************************************************************)
EXTENDS Integers

CONSTANTS
  ReinstallAfter,  \* ticks without a reading before a reinstall, 12 in the code
  Fallible,        \* the commands that may fail
  MaxFaults,       \* bound: commands that do fail
  MaxFlushes,      \* bound: rulesets flushed by others
  MaxCrashes       \* bound: crashes of the daemon

Commands == {"read", "check", "destroy", "create", "publish"}

ASSUME NftAssumption ==
  /\ ReinstallAfter \in Nat \ {0}
  /\ Fallible \subseteq Commands
  /\ MaxFaults \in Nat /\ MaxFlushes \in Nat /\ MaxCrashes \in Nat

VARIABLES
  table,      \* the table inet netmeter is loaded
  pc,         \* where the daemon is in its tick, "down" when not running
  lanNow,     \* this tick's read_nft returned counters
  prevLan,    \* prev_lan holds counters
  missing,    \* nft_missing_ticks
  reported,   \* nft_ok_reported
  metaOk      \* meta.nft_ok, which outlives the daemon

(* What only an observer knows.                                            *)
VARIABLES
  faults, flushes, crashes,
  seen,       \* a tick of the daemon has read the counters now loaded
  strikes,    \* since then, nft has failed so often in a row to show them
  rebuilt,    \* the daemon has replaced the table since prev_lan was read
  spoiled     \* this daemon's one reinstall came to nothing, or is behind it,
              \* or meta.nft_ok is not what it believes it has published

budgets == <<faults, flushes, crashes>>
readings == <<lanNow, prevLan, missing, reported, metaOk>>
vars == <<table, pc, readings, budgets, seen, strikes, rebuilt, spoiled>>

-----------------------------------------------------------------------------
Flag(some) == IF some THEN "on" ELSE "off"

(* The command works, or it fails and there is a fault less to come.       *)
Works(c) == faults' = faults

Fails(c) == c \in Fallible /\ faults < MaxFaults /\ faults' = faults + 1

(* read_nft, nft_table_exists: an error of nft counts as an absent table.  *)
Answers(c, found) ==
  \/ found = table /\ Works(c)
  \/ found = FALSE /\ Fails(c)

Init ==
  /\ table \in BOOLEAN
  /\ pc = "down"
  /\ lanNow = FALSE /\ prevLan = FALSE
  /\ missing = 0
  /\ reported = "none" /\ metaOk \in {"none", "on", "off"}
  /\ faults = 0 /\ flushes = 0 /\ crashes = 0
  /\ seen = FALSE /\ strikes = 0 /\ rebuilt = FALSE /\ spoiled = FALSE

-----------------------------------------------------------------------------
(* Others.                                                                 *)

(* `flush ruleset`, `netmeter daemon install`'s own destroy.               *)
Flush ==
  /\ table /\ flushes < MaxFlushes
  /\ table' = FALSE /\ flushes' = flushes + 1 /\ seen' = FALSE /\ strikes' = 0
  /\ spoiled' = (spoiled \/ missing >= ReinstallAfter)
  /\ UNCHANGED <<pc, readings, faults, crashes, rebuilt>>

InstallByHand ==
  /\ ~table
  /\ table' = TRUE
  /\ UNCHANGED <<pc, readings, budgets, seen, strikes, rebuilt, spoiled>>

-----------------------------------------------------------------------------
(* The daemon.                                                             *)

Start ==
  /\ pc = "down"
  /\ pc' = "startCheck"
  /\ lanNow' = FALSE /\ prevLan' = FALSE /\ missing' = 0 /\ reported' = "none"
  /\ seen' = FALSE /\ strikes' = 0 /\ rebuilt' = FALSE /\ spoiled' = FALSE
  /\ UNCHANGED <<table, metaOk, budgets>>

(* nft_table_exists, before the loop or on the tick of a reinstall.        *)
Check ==
  /\ pc \in {"startCheck", "check"}
  /\ \E found \in BOOLEAN :
       /\ Answers("check", found)
       /\ strikes' = IF seen /\ ~found THEN strikes + 1 ELSE strikes
       /\ pc' = CASE ~found /\ pc = "startCheck" -> "startDestroy"
                  [] ~found /\ pc = "check" -> "destroy"
                  [] found /\ pc = "startCheck" -> "asleep"
                  [] found /\ pc = "check" -> "measure"
  /\ UNCHANGED <<table, readings, flushes, crashes, seen, rebuilt, spoiled>>

(* install_nft: `nft destroy`, with its error ignored ...                  *)
Destroy ==
  /\ pc \in {"startDestroy", "destroy"}
  /\ \/ Works("destroy") /\ table' = FALSE /\ seen' = FALSE /\ strikes' = 0 /\ rebuilt' = TRUE
     \/ Fails("destroy") /\ UNCHANGED <<table, seen, strikes, rebuilt>>
  /\ pc' = IF pc = "destroy" THEN "create" ELSE "startCreate"
  /\ UNCHANGED <<readings, flushes, crashes, spoiled>>

(* ... then `nft -f`, one transaction that fails on a table that exists.   *)
(* Its error is logged and the daemon goes on in TOTAL-only mode.          *)
Create ==
  /\ pc \in {"startCreate", "create"}
  /\ \/ Works("create") /\ table' = TRUE /\ spoiled' = spoiled
     \/ Fails("create") /\ table' = table /\ spoiled' = (spoiled \/ pc = "create")
  /\ pc' = IF pc = "create" THEN "measure" ELSE "asleep"
  /\ UNCHANGED <<readings, flushes, crashes, seen, strikes, rebuilt>>

(* The tick reads the counters.                                            *)
Read ==
  /\ pc = "asleep"
  /\ Answers("read", lanNow')
  /\ seen' = (seen \/ lanNow')
  /\ strikes' = IF seen /\ ~lanNow' THEN strikes + 1 ELSE 0
  /\ pc' = "publish"
  /\ UNCHANGED <<table, prevLan, missing, reported, metaOk, flushes, crashes, rebuilt, spoiled>>

(* A tick after a long gap only reads the counters, as the new baseline;   *)
(* nft_missing_ticks stays.                                                *)
Gap ==
  /\ pc = "asleep"
  /\ Answers("read", prevLan')
  /\ rebuilt' = (rebuilt /\ ~prevLan')
  /\ UNCHANGED <<table, pc, lanNow, missing, reported, metaOk, flushes, crashes, seen, strikes,
                 spoiled>>

(* Mutant: only the loss of the split is published.                        *)
Publish_OnlyLoss ==
  /\ pc = "publish"
  /\ reported' = Flag(lanNow)
  /\ Works("publish")
  /\ metaOk' = IF reported' # reported /\ ~lanNow THEN reported' ELSE metaOk
  /\ pc' = "count"
  /\ UNCHANGED <<table, lanNow, prevLan, missing, flushes, crashes, seen, strikes, rebuilt, spoiled>>

(* A change is remembered and written to meta, the write's error ignored.  *)
Publish ==
  /\ pc = "publish"
  /\ reported' = Flag(lanNow)
  /\ \/ /\ Works("publish") /\ spoiled' = spoiled
        /\ metaOk' = IF reported' # reported THEN reported' ELSE metaOk
     \/ /\ reported' # reported /\ Fails("publish") /\ spoiled' = TRUE
        /\ metaOk' = metaOk
  /\ pc' = "count"
  /\ UNCHANGED <<table, lanNow, prevLan, missing, flushes, crashes, seen, strikes, rebuilt>>

(* Mutant: a good reading does not start the count again.                  *)
MissingAfter_NotReset ==
  IF lanNow \/ missing > ReinstallAfter THEN missing ELSE missing + 1

(* nft_missing_ticks; what it is beyond ReinstallAfter makes no difference. *)
MissingAfter ==
  IF lanNow THEN 0
  ELSE IF missing > ReinstallAfter THEN missing ELSE missing + 1

(* The loss looks permanent.                                               *)
Suspicious == ~lanNow /\ missing' = ReinstallAfter

Count ==
  /\ pc = "count"
  /\ missing' = MissingAfter
  /\ pc' = IF Suspicious THEN "check" ELSE "measure"
  /\ UNCHANGED <<table, lanNow, prevLan, reported, metaOk, budgets, seen, strikes, rebuilt, spoiled>>

(* Mutant: the last good reading is kept over an outage.                   *)
NewBaseline_KeptOverOutage == lanNow \/ prevLan

(* prev_lan = lan_now, even when there is no reading.                      *)
NewBaseline == lanNow

(* The LAN delta is taken if there are two readings.                       *)
Measure ==
  /\ pc = "measure"
  /\ prevLan' = NewBaseline
  /\ rebuilt' = (rebuilt /\ ~lanNow)
  /\ pc' = "asleep"
  /\ UNCHANGED <<table, lanNow, missing, reported, metaOk, budgets, seen, strikes, spoiled>>

Crash ==
  /\ pc # "down" /\ crashes < MaxCrashes
  /\ pc' = "down" /\ crashes' = crashes + 1
  /\ UNCHANGED <<table, readings, faults, flushes, seen, strikes, rebuilt, spoiled>>

Tick == Read \/ Publish \/ Count \/ Check \/ Destroy \/ Create \/ Measure

Next == Start \/ Tick \/ Gap \/ Crash \/ Flush \/ InstallByHand

Spec == Init /\ [][Next]_vars

(* The loop goes round, and systemd restarts a daemon that failed.         *)
FairSpec == Spec /\ WF_vars(Start) /\ WF_vars(Tick)

-----------------------------------------------------------------------------
(* Correctness.                                                            *)

(* "reinstalling on a transient read error would destroy healthy counters  *)
(* and zero them" (daemon.rs:164-166).  A table whose counters a tick has   *)
(* read is taken down for errors of nft alone, but for no fewer than       *)
(* ReinstallAfter readings in a row and nft_table_exists after them: any   *)
(* good reading between them starts the count again, and neither others'   *)
(* reinstalls nor a crash nor a long gap brings the point nearer.          *)
HealthyCountersKept == pc = "destroy" /\ seen => strikes > ReinstallAfter

(* No LAN delta spans a reinstall: when the daemon compares two readings   *)
(* it has not itself replaced the table between them (PRD section 7: a     *)
(* table that went away starts again from zero).                           *)
NoDeltaAcrossReinstall == pc = "measure" /\ lanNow /\ prevLan => ~rebuilt

(* The table comes back after any flush, crash or failed reading, and      *)
(* `status` says so (daemon.rs:152-168), unless the one reinstall at tick  *)
(* ReinstallAfter fails, the table is flushed after it and before the next *)
(* good reading, or the write to meta fails: those last until a restart.   *)
SplitRecovers == <>[]~spoiled => <>[](table /\ metaOk = "on")

(* README.md:36-38: "The daemon recreates the table from `lan_subnets`     *)
(* when it disappears (flushed ruleset or reboot), so the split recovers   *)
(* instead of staying TOTAL-only forever."                                 *)
NeverTotalOnlyForever == <>[](table /\ metaOk = "on")
=============================================================================
