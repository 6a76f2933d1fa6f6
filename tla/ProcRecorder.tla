---------------------------- MODULE ProcRecorder ----------------------------
(***************************************************************************)
(* Always-on per-process recording: the capture thread (src/proc_cap.rs,   *)
(* `launch`, `account`) sniffs frames and counts them by pid in a scratch  *)
(* map of its own, folds that into a map by command name that it shares    *)
(* with the daemon under a mutex, and the tick of the daemon               *)
(* (src/daemon.rs, `run`) takes that map and adds it to proc_hourly.       *)
(*                                                                         *)
(* A critical section of the mutex is one step.  A frame carries one byte. *)
(* An iteration of the capture loop is the unit of its timers.             *)
(***************************************************************************)
EXTENDS Integers, Functions, FiniteSets

CONSTANTS
  Iface,         \* interfaces that are not excluded
  Pid, Comm,     \* processes, and the command names they may have
  ReopenEvery,   \* iterations before interfaces are resolved again, 15 s
  FlushEvery,    \* iterations before the scratch map is folded, 1 s
  ScratchLimit,  \* ... or when it has more entries, 5000
  MaxFrames,     \* bound: frames captured
  MaxChanges,    \* bound: interfaces going up or down
  MaxRefusals,   \* bound: openings at which a channel fails to open
  MaxExecs,      \* bound: processes changing their name
  MaxDeaths      \* bound: capture threads and daemons that die

ASSUME ProcAssumption ==
  /\ Pid \subseteq Nat \ {0}
  /\ IsFiniteSet(Comm) /\ Comm \cap {"unknown", "other"} = {}
  /\ ReopenEvery \in Nat /\ FlushEvery \in Nat /\ ScratchLimit \in Nat
  /\ {MaxFrames, MaxChanges, MaxRefusals, MaxExecs, MaxDeaths} \subseteq Nat

VARIABLES
  up,            \* the eligible interfaces: up and not loopback
  commOf,        \* commOf[p]: the command name of p now
  capture,       \* where the capture thread is: "top", "drain" or "dead"
  open,          \* interfaces with an open receiver
  sinceOpen, sinceFlush,
  snap,          \* the names of the processes at the last snapshot of sockets
  scratch,       \* cum of the thread: pid, or 0, to a label and bytes
  shared,        \* cum of ProcRecorder: bytes by label, behind the mutex
  daemon,        \* where the daemon is: "tick", "drain", "commit" or "down"
  cur,           \* the deltas the daemon has drained and not committed
  recorded       \* proc_hourly, summed over hours

(* What only an observer knows.                                            *)
VARIABLES
  attributed,    \* bytes by the label account found for their frame
  lost,          \* bytes by label that died with a thread or the process
  renamed,       \* the names that some process took or left while it ran
  changes, refusals, execs, deaths

threadVars == <<capture, open, sinceOpen, sinceFlush, snap, scratch>>
daemonVars == <<daemon, cur, recorded>>
kernelVars == <<up, commOf, renamed>>
budgets == <<changes, refusals, execs, deaths>>
vars == <<kernelVars, threadVars, shared, daemonVars, attributed, lost, budgets>>

-----------------------------------------------------------------------------
Unattributed == {"unknown", "other"}

Label == Comm \cup Unattributed

Nothing == [l \in Label |-> 0]

Plus(f, g) == [l \in Label |-> f[l] + g[l]]

TotalOf(f) == SumFunctionOnSet(f, Label)

EmptyScratch == [s \in {} |-> [label |-> "unknown", bytes |-> 0]]

(* The scratch map by label.                                               *)
ByLabel(S) == [l \in Label |->
  SumFunctionOnSet([s \in DOMAIN S |-> S[s].bytes], {s \in DOMAIN S : S[s].label = l})]

(* Mutant: interfaces are opened once and for all.                         *)
SetChanged_OnlyAtFirst(have, want) == have = {} /\ want # {}

SetChanged(have, want) == have # want

Min2(a, b) == IF a <= b THEN a ELSE b

-----------------------------------------------------------------------------
(* The capture thread.                                                     *)

(* snapshot: the walk over /proc that finds the process of each socket, in *)
(* all network namespaces, and its name; sockets it misses are "unknown".  *)
Snapshot == commOf

Launched ==
  /\ capture' = "top" /\ open' = {} /\ sinceOpen' = 0 /\ sinceFlush' = 0
  /\ snap' = Snapshot
  /\ scratch' = EmptyScratch

Init ==
  /\ up \in SUBSET Iface /\ commOf \in [Pid -> Comm]
  /\ capture = "top" /\ open = {} /\ sinceOpen = 0 /\ sinceFlush = 0
  /\ snap = Snapshot /\ scratch = EmptyScratch
  /\ shared = Nothing
  /\ daemon = "tick" /\ cur = Nothing /\ recorded = Nothing
  /\ attributed = Nothing /\ lost = Nothing /\ renamed = {}
  /\ changes = 0 /\ refusals = 0 /\ execs = 0 /\ deaths = 0

(* open_all: a receiver for every eligible interface that can be opened.   *)
OpenAll ==
  \/ open' = up /\ refusals' = refusals
  \/ /\ refusals < MaxRefusals /\ refusals' = refusals + 1
     /\ open' \in SUBSET up \ {up}

(* The head of the loop.  With no interface to capture on it waits and     *)
(* tries again, without coming to the fold of the scratch map.             *)
Reopen ==
  /\ capture = "top"
  /\ open = {} \/ sinceOpen > ReopenEvery
  /\ IF SetChanged(open, up) THEN OpenAll ELSE UNCHANGED <<open, refusals>>
  /\ sinceOpen' = 0
  /\ capture' = IF open' = {} THEN "top" ELSE "drain"
  /\ UNCHANGED <<kernelVars, sinceFlush, snap, scratch, shared, daemonVars,
                 attributed, lost, changes, execs, deaths>>

KeepOpen ==
  /\ capture = "top"
  /\ open # {} /\ sinceOpen <= ReopenEvery
  /\ capture' = "drain"
  /\ UNCHANGED <<kernelVars, open, sinceOpen, sinceFlush, snap, scratch, shared,
                 daemonVars, attributed, lost, budgets>>

(* account: an entry keeps the name it has, unless that is no name.        *)
Account(slot, label) ==
  LET kept == slot \in DOMAIN scratch /\ scratch[slot].label \notin Unattributed
      entry == [label |-> IF kept THEN scratch[slot].label ELSE label,
                bytes |-> 1 + IF slot \in DOMAIN scratch THEN scratch[slot].bytes ELSE 0]
  IN  /\ scratch' = [s \in DOMAIN scratch \cup {slot} |->
                       IF s = slot THEN entry ELSE scratch[s]]
      /\ attributed' = [attributed EXCEPT ![label] = @ + 1]

(* A frame of a socket of p that the snapshot has, of a younger socket,    *)
(* which is "unknown", or one without ports, "other": no process is 0.     *)
Sniff(i, p) ==
  /\ capture = "drain" /\ i \in open \cap up
  /\ TotalOf(attributed) < MaxFrames
  /\ \/ Account(p, snap[p])
     \/ Account(0, "unknown")
     \/ Account(0, "other")
  /\ UNCHANGED <<kernelVars, capture, open, sinceOpen, sinceFlush, snap, shared,
                 daemonVars, lost, budgets>>

(* A receiver whose interface is gone errs, and all of them are closed.    *)
ReceiverDead ==
  /\ capture = "drain" /\ ~(open \subseteq up)
  /\ open' = {} /\ capture' = "top"
  /\ UNCHANGED <<kernelVars, sinceOpen, sinceFlush, snap, scratch, shared,
                 daemonVars, attributed, lost, budgets>>

(* Mutant: an entry of the shared map is overwritten, not added to.        *)
Fold_Overwrites ==
  /\ shared' = [l \in Label |-> IF ByLabel(scratch)[l] > 0 THEN ByLabel(scratch)[l] ELSE shared[l]]
  /\ scratch' = EmptyScratch

(* Under the mutex, the scratch map is drained into the shared one.        *)
Fold ==
  /\ shared' = Plus(shared, ByLabel(scratch))
  /\ scratch' = EmptyScratch

(* Mutant: the scratch map is folded only when it has grown too large.     *)
FlushDue_OnlyWhenLarge == Cardinality(DOMAIN scratch) > ScratchLimit

(* The sockets are quiet, or MAX_DRAIN_FRAMES have been read: a snapshot   *)
(* when it is due, the fold when it is due, and round again.               *)
FlushDue == sinceFlush > FlushEvery \/ Cardinality(DOMAIN scratch) > ScratchLimit

Drained ==
  /\ capture = "drain"
  /\ snap' \in {snap, Snapshot}
  /\ IF FlushDue THEN Fold /\ sinceFlush' = 0
     ELSE UNCHANGED <<shared, scratch>> /\ sinceFlush' = Min2(sinceFlush + 1, FlushEvery + 1)
  /\ sinceOpen' = Min2(sinceOpen + 1, ReopenEvery + 1)
  /\ capture' = "top"
  /\ UNCHANGED <<kernelVars, open, daemonVars, attributed, lost, budgets>>

Panic ==
  /\ capture # "dead" /\ deaths < MaxDeaths
  /\ capture' = "dead" /\ deaths' = deaths + 1
  /\ open' = {} /\ scratch' = EmptyScratch
  /\ lost' = Plus(lost, ByLabel(scratch))
  /\ UNCHANGED <<kernelVars, sinceOpen, sinceFlush, snap, shared, daemonVars,
                 attributed, changes, refusals, execs>>

-----------------------------------------------------------------------------
(* The daemon.                                                             *)

(* ensure_running                                                          *)
EnsureRunning ==
  /\ daemon = "tick"
  /\ daemon' = "drain"
  /\ IF capture = "dead" THEN Launched ELSE UNCHANGED threadVars
  /\ UNCHANGED <<kernelVars, shared, cur, recorded, attributed, lost, budgets>>

(* Mutant: the map is copied, not taken.                                   *)
DrainDeltas_Copies ==
  /\ daemon = "drain"
  /\ cur' = shared /\ shared' = shared
  /\ daemon' = IF cur' = Nothing THEN "tick" ELSE "commit"
  /\ UNCHANGED <<kernelVars, threadVars, recorded, attributed, lost, budgets>>

(* drain_deltas: mem::take under the mutex.                                *)
DrainDeltas ==
  /\ daemon = "drain"
  /\ cur' = shared /\ shared' = Nothing
  /\ daemon' = IF cur' = Nothing THEN "tick" ELSE "commit"
  /\ UNCHANGED <<kernelVars, threadVars, recorded, attributed, lost, budgets>>

(* One transaction adds them to the rows of this hour.                     *)
Commit ==
  /\ daemon = "commit"
  /\ recorded' = Plus(recorded, cur) /\ cur' = Nothing
  /\ daemon' = "tick"
  /\ UNCHANGED <<kernelVars, threadVars, shared, attributed, lost, budgets>>

(* The daemon stops, which drains nothing, is killed, or ends with an      *)
(* error of the database.  The thread goes with it.                        *)
Exit ==
  /\ daemon # "down" /\ deaths < MaxDeaths
  /\ daemon' = "down" /\ capture' = "dead" /\ deaths' = deaths + 1
  /\ lost' = Plus(lost, Plus(cur, Plus(shared, ByLabel(scratch))))
  /\ cur' = Nothing /\ shared' = Nothing /\ scratch' = EmptyScratch /\ open' = {}
  /\ UNCHANGED <<kernelVars, sinceOpen, sinceFlush, snap, recorded, attributed,
                 changes, refusals, execs>>

Start ==
  /\ daemon = "down"
  /\ daemon' = "tick"
  /\ Launched
  /\ UNCHANGED <<kernelVars, shared, cur, recorded, attributed, lost, budgets>>

-----------------------------------------------------------------------------
(* The machine.                                                            *)

UpOrDown(i) ==
  /\ changes < MaxChanges /\ changes' = changes + 1
  /\ up' = IF i \in up THEN up \ {i} ELSE up \cup {i}
  /\ UNCHANGED <<commOf, renamed, threadVars, shared, daemonVars, attributed, lost,
                 refusals, execs, deaths>>

Exec(p, c) ==
  /\ execs < MaxExecs /\ execs' = execs + 1
  /\ c # commOf[p]
  /\ commOf' = [commOf EXCEPT ![p] = c]
  /\ renamed' = renamed \cup {c, commOf[p]}
  /\ UNCHANGED <<up, threadVars, shared, daemonVars, attributed, lost,
                 changes, refusals, deaths>>

CaptureLoop ==
  \/ Reopen \/ KeepOpen \/ ReceiverDead \/ Drained
  \/ \E i \in Iface, p \in Pid : Sniff(i, p)

DaemonLoop == Start \/ EnsureRunning \/ DrainDeltas \/ Commit

Next ==
  \/ CaptureLoop \/ Panic
  \/ DaemonLoop \/ Exit
  \/ \E i \in Iface : UpOrDown(i)
  \/ \E p \in Pid, c \in Comm : Exec(p, c)

Spec == Init /\ [][Next]_vars

(* Both threads are scheduled; a daemon that ended is started again.       *)
FairSpec == Spec /\ WF_vars(CaptureLoop) /\ WF_vars(DaemonLoop)

-----------------------------------------------------------------------------
(* Correctness.                                                            *)

Pending == Plus(cur, Plus(shared, ByLabel(scratch)))

Accounted == Plus(recorded, Plus(lost, Pending))

(* Whatever the two threads, their deaths and the interfaces do, a byte    *)
(* that was captured is in one place only: on its way, in proc_hourly, or  *)
(* lost with a thread (`drain_deltas`: "already per-interval deltas ... do *)
(* NOT diff against the previous drain").                                  *)
EveryByteOnce == TotalOf(Accounted) = TotalOf(attributed)

(* A name that no process takes or leaves while it runs gets its own bytes *)
(* to the last one, though other processes change their names, pids are    *)
(* folded into names and an entry of the scratch map keeps the name it had *)
(* first.  Bytes of a process that changed its name may be under either.   *)
AppsExact == \A c \in Comm \ renamed : Accounted[c] = attributed[c]

(* What was captured reaches proc_hourly, once there is an interface to    *)
(* capture on: the scratch map is not kept forever by interfaces that come *)
(* and go, nor the shared one by idle ticks (daemon.rs:282).               *)
BytesReachTable == <>[](up # {}) => <>[](TotalOf(Pending) = 0)

(* "A fixed startup set silently captures the wrong pipe forever": the     *)
(* open receivers come to be those of the eligible interfaces.             *)
CapturesWhatIsThere == <>[](open = up)

=============================================================================
