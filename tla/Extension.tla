----------------------------- MODULE Extension -----------------------------
(***************************************************************************)
(* The GNOME Shell extension (extension.js, dataSource.js): a timer starts *)
(* polls, a poll runs queries of the `netmeter` command side by side and,  *)
(* when all have answered, rebuilds the model and updates the widgets.     *)
(* The shell enables and disables the extension at any time, also while    *)
(* polls are under way: nothing cancels them.                              *)
(*                                                                         *)
(* Three of the five queries are modelled: `status`, `today`, and `show    *)
(* --period hour`, from which the day is added up when `today` fails.      *)
(* A figure is the amount of traffic of the day when the query looked.     *)
(***************************************************************************)
EXTENDS Integers, FiniteSets

CONSTANTS
  Slot,          \* bound: polls under way at once
  MaxTraffic,    \* bound: traffic
  MaxToggles,    \* bound: times the extension is disabled
  MaxChanges,    \* bound: changes of a setting
  MaxFailures    \* bound: queries that fail, and spells of the daemon down

ASSUME ExtensionAssumption ==
  /\ Slot # {} /\ MaxTraffic \in Nat /\ MaxToggles \in Nat
  /\ MaxChanges \in Nat /\ MaxFailures \in Nat

VARIABLES
  enabled,       \* between enable() and disable()
  settings,      \* this._settings is not null
  widgets,       \* this._indicator and this._tile are not null
  model,         \* this._model, or Null
  label,         \* the panel label: is it visible, and what does it say
  sources,       \* timers of the main loop that call _poll
  timeoutId,     \* this._timeoutId is not 0
  polls,         \* Slot -> Idle or the answers so far
  showLabel      \* the setting show-panel-label

(* The system behind the command.                                          *)
VARIABLES traffic, rolledUp, active

(* What only an observer knows.                                            *)
VARIABLES
  failed,        \* a property of null was read, or a destroyed widget used
  toggles, changes, failures

shell == <<enabled, settings, widgets, model, label, sources, timeoutId>>
backend == <<traffic, rolledUp, active>>
counters == <<toggles, changes, failures>>
evars == <<shell, polls, showLabel, backend, failed, counters>>

-----------------------------------------------------------------------------
Null == [null |-> TRUE]
Idle == [idle |-> TRUE]
Query == {"status", "today", "hour"}
Pending == [pending |-> TRUE]
Answer(v) == [value |-> v]
Asked == [q \in Query |-> Pending]
Hidden == [visible |-> FALSE, day |-> Null]

Current(q) ==
  CASE q = "status" -> Answer(active)
    [] q = "today"  -> Answer(traffic)
    [] q = "hour"   -> Answer(rolledUp)

(* The day of buildModel: `today`, or else the sum of the hourly rows.     *)
Day(answers) ==
  IF answers["today"] # Null THEN answers["today"] ELSE answers["hour"]

BuildModel(answers) ==
  [day |-> Day(answers), daemonActive |-> answers["status"] = Answer(TRUE)]

(* _updatePanelLabel, for the settings and the model given.                *)
Label(show, m) ==
  LET ready == m # Null /\ (m # Null => m.daemonActive /\ m.day # Null)
  IN  IF ready /\ show THEN [visible |-> TRUE, day |-> m.day] ELSE Hidden

-----------------------------------------------------------------------------
EInit ==
  /\ enabled = FALSE /\ settings = FALSE /\ widgets = FALSE /\ timeoutId = FALSE
  /\ model = Null /\ label = Hidden /\ sources = 0
  /\ polls = [s \in Slot |-> Idle]
  /\ showLabel \in BOOLEAN
  /\ traffic = 0 /\ rolledUp = 0 /\ active = TRUE
  /\ failed = FALSE
  /\ toggles = 0 /\ changes = 0 /\ failures = 0

(* Mutant: the timer that runs is left alone.                              *)
StartTimer_KeepsOld == sources' = sources + 1 /\ timeoutId' = TRUE

(* _startTimer: the timer that runs, if any, is replaced.                  *)
StartTimer ==
  /\ sources' = sources - (IF timeoutId THEN 1 ELSE 0) + 1
  /\ timeoutId' = TRUE

(* The first half of _poll, up to the await.                               *)
StartPoll(s) ==
  /\ polls[s] = Idle
  /\ polls' = [polls EXCEPT ![s] = Asked]

(* Mutant: the model of the last life is kept.                             *)
Enable_KeepsModel ==
  /\ ~enabled
  /\ \E s \in Slot : StartPoll(s)
  /\ enabled' = TRUE /\ settings' = TRUE /\ widgets' = TRUE
  /\ label' = Hidden
  /\ StartTimer
  /\ UNCHANGED <<model, showLabel, backend, failed, counters>>

(* enable().                                                               *)
Enable ==
  /\ ~enabled
  /\ \E s \in Slot : StartPoll(s)
  /\ enabled' = TRUE /\ settings' = TRUE /\ widgets' = TRUE
  /\ model' = Null /\ label' = Hidden
  /\ StartTimer
  /\ UNCHANGED <<showLabel, backend, failed, counters>>

(* disable().                                                              *)
Disable ==
  /\ enabled /\ toggles < MaxToggles
  /\ enabled' = FALSE /\ settings' = FALSE /\ widgets' = FALSE
  /\ timeoutId' = FALSE /\ sources' = sources - (IF timeoutId THEN 1 ELSE 0)
  /\ model' = Null /\ label' = Hidden
  /\ toggles' = toggles + 1
  /\ UNCHANGED <<polls, showLabel, backend, failed, changes, failures>>

(* Mutant: the callback returns SOURCE_REMOVE.                             *)
Fire_Once(s) ==
  /\ sources > 0
  /\ sources' = sources - 1
  /\ failed' = (failed \/ ~settings)
  /\ IF settings THEN StartPoll(s) ELSE polls' = polls
  /\ UNCHANGED <<enabled, settings, widgets, model, label, timeoutId, showLabel, backend, counters>>

(* The timer fires; _poll reads this._settings at once.                    *)
Fire(s) ==
  /\ sources > 0
  /\ failed' = (failed \/ ~settings)
  /\ IF settings THEN StartPoll(s) ELSE polls' = polls
  /\ UNCHANGED <<shell, showLabel, backend, counters>>

(* One command of a poll exits; `safe` makes a failure null.               *)
Reply(s, q) ==
  /\ polls[s] # Idle
  /\ polls[s] # Idle => polls[s][q] = Pending
  /\ polls' = [polls EXCEPT ![s][q] = Current(q)]
  /\ UNCHANGED <<shell, showLabel, backend, failed, counters>>

Fail(s, q) ==
  /\ polls[s] # Idle
  /\ polls[s] # Idle => polls[s][q] = Pending
  /\ failures < MaxFailures
  /\ failures' = failures + 1
  /\ polls' = [polls EXCEPT ![s][q] = Null]
  /\ UNCHANGED <<shell, showLabel, backend, failed, toggles, changes>>

Answered(s) == polls[s] # Idle /\ \A q \in Query : polls[s] # Idle => polls[s][q] # Pending

(* Mutant: the widgets are not looked at before the settings are read.     *)
Finish_Unguarded(s) ==
  /\ Answered(s)
  /\ polls' = [polls EXCEPT ![s] = Idle]
  /\ model' = BuildModel(polls[s])
  /\ label' = IF widgets THEN Label(showLabel, model') ELSE label
  /\ failed' = (failed \/ ~settings)
  /\ UNCHANGED <<enabled, settings, widgets, sources, timeoutId, showLabel, backend, counters>>

(* The second half of _poll, after the await: whatever happened meanwhile. *)
Finish(s) ==
  /\ Answered(s)
  /\ polls' = [polls EXCEPT ![s] = Idle]
  /\ model' = BuildModel(polls[s])
  /\ label' = IF widgets THEN Label(showLabel, model') ELSE label
  /\ failed' = (failed \/ (widgets /\ ~settings))
  /\ UNCHANGED <<enabled, settings, widgets, sources, timeoutId, showLabel, backend, counters>>

(* A setting changes.  The handlers run if they are connected, which they  *)
(* are between enable() and disable().                                     *)
ChangeLabelSetting ==
  /\ changes < MaxChanges
  /\ changes' = changes + 1
  /\ showLabel' = ~showLabel
  /\ IF enabled
     THEN StartTimer /\ label' = Label(showLabel', model)
     ELSE UNCHANGED <<sources, timeoutId, label>>
  /\ UNCHANGED <<enabled, settings, widgets, model, polls, backend, failed, toggles, failures>>

ChangeOtherSetting ==
  /\ changes < MaxChanges
  /\ changes' = changes + 1
  /\ IF enabled THEN StartTimer ELSE UNCHANGED <<sources, timeoutId>>
  /\ UNCHANGED <<enabled, settings, widgets, model, label, polls, showLabel, backend,
                 failed, toggles, failures>>

(* The daemon records, rolls up, stops and starts.                         *)
Record ==
  /\ active /\ traffic < MaxTraffic
  /\ traffic' = traffic + 1
  /\ UNCHANGED <<shell, polls, showLabel, rolledUp, active, failed, counters>>

RollUp ==
  /\ active /\ rolledUp # traffic
  /\ rolledUp' = traffic
  /\ UNCHANGED <<shell, polls, showLabel, traffic, active, failed, counters>>

UpOrDown ==
  /\ active => failures < MaxFailures
  /\ active' = ~active
  /\ failures' = IF active THEN failures + 1 ELSE failures
  /\ UNCHANGED <<shell, polls, showLabel, traffic, rolledUp, failed, toggles, changes>>

ENext ==
  \/ Enable \/ Disable
  \/ ChangeLabelSetting \/ ChangeOtherSetting
  \/ Record \/ RollUp \/ UpOrDown
  \/ \E s \in Slot : Fire(s) \/ Finish(s)
  \/ \E s \in Slot, q \in Query : Reply(s, q) \/ Fail(s, q)

ESpec == EInit /\ [][ENext]_evars

(* The main loop of the shell keeps its timers and its callbacks going,    *)
(* and every command exits; nobody has to change a setting.                *)
EFairSpec ==
  /\ ESpec
  /\ WF_evars(\E s \in Slot : Fire(s))
  /\ \A s \in Slot : WF_evars(Finish(s)) /\ \A q \in Query : WF_evars(Reply(s, q))
  /\ WF_evars(~active /\ UpOrDown)

-----------------------------------------------------------------------------
(* Correctness.                                                            *)

(* No step uses what disable() has torn down: no timer fires without       *)
(* settings, and a poll that ends late finds no widget or finds both.      *)
NothingTornDownIsUsed == ~failed

(* One timer polls while the extension is enabled, however often settings  *)
(* change, and none afterwards.                                            *)
OneTimerWhileEnabled == sources = IF enabled THEN 1 ELSE 0

(* TODO.md:223-224: the label "keeps in sync on every poll and reacts      *)
(* instantly to the toggle", also across a disable and enable while an old *)
(* poll is still under way.                                                *)
LabelFollowsModel == enabled => label = Label(showLabel, model)

(* While it stays enabled the panel comes to show the traffic of the day,  *)
(* although overlapping polls may finish in any order.                     *)
ShownCatchesUp ==
  <>[](enabled => model # Null /\ (model # Null => model.day = Answer(traffic)))
=============================================================================
