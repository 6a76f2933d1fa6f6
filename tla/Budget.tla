------------------------------- MODULE Budget -------------------------------
(***************************************************************************)
(* Budgets (src/daemon.rs, `check_budget`; src/user_agent.rs): on a tick   *)
(* with traffic the daemon compares the traffic of the current window with *)
(* the budget and keeps, per window, which of the two thresholds was       *)
(* crossed; a user agent polls these flags every minute and notifies the   *)
(* user, keeping a sentinel file per window and threshold.                 *)
(*                                                                         *)
(* Every statement of check_budget commits by itself, the agent is another *)
(* process, and time passes between any two steps of either.               *)
(***************************************************************************)
EXTENDS Integers, Functions, FiniteSets, FiniteSetsExt

CONSTANTS
  Agent,          \* user agents of one user, who share the sentinel files
  Silent,         \* those told not to notify, or with no session to notify in
  WindowLen,      \* length of a budget window: day, week or month
  RawRet,         \* retention_days_raw
  Limit,          \* budget_gb, in bytes
  Traffic,        \* what a tick may measure
  MaxClock,       \* bound: the wall clock
  MaxUsed,        \* bound: traffic altogether
  MaxCrashes,     \* bound: crashes of the daemon
  MaxDeaths,      \* bound: agents killed
  MaxUnmarked     \* bound: sentinel files that cannot be written

ASSUME BudgetAssumption ==
  /\ IsFiniteSet(Agent) /\ Silent \subseteq Agent
  /\ WindowLen \in Nat \ {0} /\ RawRet \in Nat /\ Limit \in Nat \ {0}
  /\ Traffic \subseteq Nat \ {0}
  /\ {MaxClock, MaxUsed, MaxCrashes, MaxDeaths, MaxUnmarked} \subseteq Nat

VARIABLES
  now,            \* wall clock
  samples,        \* samples[t]: bytes in the raw rows of time t
  daemon,         \* where the daemon is
  check,          \* what check_budget has read: the window's key, used, flags
  events,         \* budget_events: the crossings recorded, by window and percent
  agent,          \* agent[a]: where the agent is
  view,           \* view[a]: what it has read: the key, and what is to be sent
  sentinels       \* the sentinel files: window and percent

(* What only an observer knows.                                            *)
VARIABLES
  carried,        \* carried[t]: samples[t] before pruning
  shown,          \* shown[<<w, pct>>]: how many notifications were shown
  unheard,        \* crossings of which a notification failed to be shown
  crashes, deaths,
  unmarked        \* sentinels that could not be written

daemonVars == <<samples, daemon, check, events>>
notices == <<shown, unheard>>
budgets == <<crashes, deaths, unmarked>>
agentVars == <<agent, view, sentinels>>
vars == <<now, daemonVars, agentVars, carried, notices, budgets>>

-----------------------------------------------------------------------------
Times == 0 .. MaxClock

Percent == {80, 100}

WindowStart(t) == t - (t % WindowLen)

Windows == {WindowStart(t) : t \in Times}

Since(S, start) == SumFunctionOnSet(S, {t \in DOMAIN S : t >= start})

(* frac >= 0.8, frac >= 1.0                                                *)
Reached(used, pct) == 100 * used >= pct * Limit

(* Mutant: the traffic of every row that is left.                          *)
Used_WithoutWindow == Since(samples, 0)

(* The sum over the raw rows of the window, as far as they are still there. *)
Used == Since(samples, WindowStart(now))

Init ==
  /\ now = 0
  /\ samples = [t \in Times |-> 0] /\ carried = samples
  /\ daemon = "started"
  /\ check = [key |-> 0, used |-> 0, crossed |-> {}]
  /\ events = {}
  /\ agent = [a \in Agent |-> "asleep"]
  /\ view = [a \in Agent |-> [key |-> 0, send |-> {}]]
  /\ sentinels = {}
  /\ shown = [e \in Windows \X Percent |-> 0] /\ unheard = {}
  /\ crashes = 0 /\ deaths = 0 /\ unmarked = 0

PassTime ==
  /\ now < MaxClock
  /\ now' = now + 1
  /\ UNCHANGED <<daemonVars, agentVars, carried, notices, budgets>>

-----------------------------------------------------------------------------
(* The daemon.                                                             *)

(* A tick commits its rows.                                                *)
Write(n) ==
  /\ daemon \in {"started", "idle"}
  /\ Since(carried, 0) + n <= MaxUsed
  /\ samples' = [samples EXCEPT ![now] = @ + n]
  /\ carried' = [carried EXCEPT ![now] = @ + n]
  /\ daemon' = "evaluate"
  /\ UNCHANGED <<now, check, events, agentVars, notices, budgets>>

CrossedIn(key) == {pct \in Percent : <<key, pct>> \in events}

(* check_budget: the window is that of its own reading of the clock.  A    *)
(* query that fails reads zeros.                                           *)
Evaluate ==
  /\ daemon = "evaluate"
  /\ \E used \in {Used, 0}, crossed \in {CrossedIn(WindowStart(now)), {}} :
       check' = [key |-> WindowStart(now), used |-> used, crossed |-> crossed]
  /\ daemon' = "record80"
  /\ UNCHANGED <<now, samples, events, agentVars, carried, notices, budgets>>

(* Mutant: a threshold is crossed only by going beyond it.                 *)
Crosses_Beyond(pct) == 100 * check.used > pct * Limit /\ pct \notin check.crossed

Crosses(pct) == Reached(check.used, pct) /\ pct \notin check.crossed

Record80 ==
  /\ daemon = "record80"
  /\ events' = events \cup (IF Crosses(80) THEN {<<check.key, 80>>} ELSE {})
  /\ daemon' = "record100"
  /\ UNCHANGED <<now, samples, check, agentVars, carried, notices, budgets>>

(* Mutant: a jump past both thresholds records the higher one only.        *)
Record100_Alone ==
  /\ daemon = "record100"
  /\ events' = IF Crosses(100)
               THEN (events \ {<<check.key, 80>>}) \cup {<<check.key, 100>>} ELSE events
  /\ daemon' = "idle"
  /\ UNCHANGED <<now, samples, check, agentVars, carried, notices, budgets>>

(* The row of 100% sets crossed80 as well.                                 *)
Record100 ==
  /\ daemon = "record100"
  /\ events' = events \cup (IF Crosses(100) THEN {check.key} \X Percent ELSE {})
  /\ daemon' = "idle"
  /\ UNCHANGED <<now, samples, check, agentVars, carried, notices, budgets>>

(* enforce_retention.                                                      *)
Retain ==
  /\ daemon \in {"started", "idle"}
  /\ samples' = [t \in Times |-> IF t < now - RawRet THEN 0 ELSE samples[t]]
  /\ UNCHANGED <<now, daemon, check, events, agentVars, carried, notices, budgets>>

Crash ==
  /\ crashes < MaxCrashes
  /\ crashes' = crashes + 1
  /\ daemon' = "started"
  /\ UNCHANGED <<now, samples, check, events, agentVars, carried, notices, deaths, unmarked>>

-----------------------------------------------------------------------------
(* The user agent.                                                         *)

(* Mutant: one sentinel per window, whatever the threshold.                *)
Unsent_PerWindow(key) ==
  IF \E pct \in Percent : <<key, pct>> \in sentinels THEN {} ELSE CrossedIn(key)

Unsent(key) == {pct \in CrossedIn(key) : <<key, pct>> \notin sentinels}

(* check_once: nothing for an agent that is silent; else the flags of the  *)
(* current window, then the sentinels.                                     *)
Poll(a) ==
  /\ agent[a] = "asleep" /\ a \notin Silent
  /\ LET key == WindowStart(now)
     IN  /\ Unsent(key) # {}
         /\ view' = [view EXCEPT ![a] = [key |-> key, send |-> Unsent(key)]]
  /\ agent' = [agent EXCEPT ![a] = "notify"]
  /\ UNCHANGED <<now, daemonVars, sentinels, carried, notices, budgets>>

(* 80% first                                                               *)
NextToSend(a) == Min(view[a].send)

(* notify: that both notify-rust and notify-send fail, nobody is told.     *)
Notify(a) ==
  /\ agent[a] = "notify"
  /\ LET crossing == <<view[a].key, NextToSend(a)>>
     IN  \/ shown' = [shown EXCEPT ![crossing] = @ + 1] /\ unheard' = unheard
         \/ shown' = shown /\ unheard' = unheard \cup {crossing}
  /\ agent' = [agent EXCEPT ![a] = "mark"]
  /\ UNCHANGED <<now, daemonVars, view, sentinels, carried, budgets>>

(* Errors of creating the file are ignored.                                *)
WriteSentinel(e) ==
  \/ sentinels' = sentinels \cup {e} /\ unmarked' = unmarked
  \/ /\ unmarked < MaxUnmarked /\ unmarked' = unmarked + 1
     /\ sentinels' = sentinels

(* Mutant: the sentinel is written only when everything has been sent.     *)
MarkSent_Late(a) ==
  /\ agent[a] = "mark"
  /\ LET left == view[a].send \ {NextToSend(a)}
     IN  /\ view' = [view EXCEPT ![a].send = left]
         /\ IF left = {} THEN WriteSentinel(<<view[a].key, NextToSend(a)>>)
            ELSE UNCHANGED <<sentinels, unmarked>>
         /\ agent' = [agent EXCEPT ![a] = IF left = {} THEN "asleep" ELSE "notify"]
  /\ UNCHANGED <<now, daemonVars, carried, notices, crashes, deaths>>

(* mark_sent, whether or not the notification was shown.                   *)
MarkSent(a) ==
  /\ agent[a] = "mark"
  /\ WriteSentinel(<<view[a].key, NextToSend(a)>>)
  /\ LET left == view[a].send \ {NextToSend(a)}
     IN  /\ view' = [view EXCEPT ![a].send = left]
         /\ agent' = [agent EXCEPT ![a] = IF left = {} THEN "asleep" ELSE "notify"]
  /\ UNCHANGED <<now, daemonVars, carried, notices, crashes, deaths>>

(* Killed, with the session or by the user, and started again.             *)
Die(a) ==
  /\ agent[a] # "asleep" /\ deaths < MaxDeaths
  /\ deaths' = deaths + 1
  /\ agent' = [agent EXCEPT ![a] = "asleep"]
  /\ UNCHANGED <<now, daemonVars, view, sentinels, carried, notices, crashes, unmarked>>

AgentStep(a) == Poll(a) \/ Notify(a) \/ MarkSent(a)

CheckBudget == Evaluate \/ Record80 \/ Record100

Next ==
  \/ PassTime
  \/ \E n \in Traffic : Write(n)
  \/ CheckBudget \/ Retain \/ Crash
  \/ \E a \in Agent : AgentStep(a) \/ Die(a)

Spec == Init /\ [][Next]_vars

(* The agent sleeps for a minute and polls again.                          *)
FairSpec == Spec /\ WF_vars(CheckBudget) /\ \A a \in Agent : WF_vars(AgentStep(a))

-----------------------------------------------------------------------------
(* Correctness.                                                            *)

CarriedIn(w) == SumFunctionOnSet(carried, {t \in Times : WindowStart(t) = w})

(* No false alarm: a crossing is recorded only of a window in which that   *)
(* much traffic was carried, whatever passes between the commit of the     *)
(* rows, the reading of the clock and the records.                         *)
NoFalseAlarm == \A e \in events : Reached(CarriedIn(e[1]), e[2])

(* No crossing of the current window is missed: once a tick with traffic   *)
(* is through that could read the sum, the flags say what the window has   *)
(* carried, also after crashes between the two records, while raw rows     *)
(* live longer than the window.                                            *)
CrossingsRecorded ==
  daemon = "idle" /\ check.key = WindowStart(now) /\ check.used > 0 =>
    \A pct \in Percent : Reached(CarriedIn(check.key), pct) => <<check.key, pct>> \in events

(* A notification was tried: it was shown, or it failed.                   *)
Tried(e) == shown[e] > 0 \/ e \in unheard

(* The user hears of 80% before 100%, unless telling of 80% failed, and of *)
(* nothing that is not recorded, though the flags are recorded and read    *)
(* one by one and the sentinel of 80% may be that of another agent.        *)
EightyBeforeHundred ==
  \A w \in Windows :
    /\ shown[<<w, 100>>] > 0 => Tried(<<w, 80>>)
    /\ \A pct \in Percent : shown[<<w, pct>>] > 0 => <<w, pct>> \in events

(* "notifies once per threshold" (user_agent.rs:4), for agents that share  *)
(* the sentinels and may be killed between a notification and its          *)
(* sentinel: at worst each of them that is not silent does once, and once  *)
(* more for each one restarted and each sentinel that cannot be written.   *)
NotifiedOnce ==
  \A e \in Windows \X Percent :
    shown[e] <= Cardinality(Agent \ Silent) + deaths + unmarked

(* A recorded crossing is notified, if its window lasts, by some agent     *)
(* that is not silent; it is not tried again if that fails.                *)
CrossingIsNotified ==
  \A e \in Windows \X Percent :
    (e \in events /\ WindowStart(now) = e[1] /\ Silent # Agent)
      ~> (Tried(e) \/ WindowStart(now) # e[1])

=============================================================================
