---------------------------- MODULE BudgetProofs ----------------------------
(***************************************************************************)
(* The safety of the budgets, for any windows, limits, traffic and number  *)
(* of agents.  The daemon's half is about sums: what check_budget reads is *)
(* no more than what the window carried, and all of it where raw rows      *)
(* outlive the window.  The agents' half is a count: an agent that is yet  *)
(* to notify took the place of one that has not.                           *)
(***************************************************************************)
EXTENDS Budget, SumProofs

USE BudgetAssumption DEF BudgetAssumption

-----------------------------------------------------------------------------
(* Windows, and the thresholds.                                            *)

LEMMA FirstToSend ==
  ASSUME NEW S \in SUBSET Percent, S # {}
  PROVE  /\ Min(S) \in S /\ Min(S) \in Percent
         /\ Min(S) = 100 => S = {100}
         /\ S \ {Min(S)} \in {{}, {100}}
<1>1. S = {80} \/ S = {100} \/ S = {80, 100}
  <2>1. \A x \in S : x = 80 \/ x = 100
    BY DEF Percent
  <2>2. CASE 80 \in S /\ 100 \in S
    BY <2>1, <2>2
  <2>3. CASE 80 \notin S
    BY <2>1, <2>3
  <2>4. CASE 100 \notin S
    BY <2>1, <2>4
  <2> QED BY <2>2, <2>3, <2>4
<1>2. \E x \in S : \A y \in S : x <= y
  <2>1. CASE 80 \in S
    BY <1>1, <2>1
  <2>2. CASE S = {100}
    BY <2>2
  <2> QED BY <1>1, <2>1, <2>2
<1>3. Min(S) \in S /\ \A y \in S : Min(S) <= y
  BY <1>2 DEF Min
<1>4. Min(S) \in {80, 100} /\ (80 \in S => Min(S) = 80)
  BY <1>1, <1>3
<1> QED BY <1>1, <1>3, <1>4 DEF Percent

LEMMA WindowBounds ==
  ASSUME NEW t \in Nat
  PROVE  /\ WindowStart(t) \in Nat /\ WindowStart(t) <= t /\ t < WindowStart(t) + WindowLen
         /\ \E q \in Nat : WindowStart(t) = WindowLen * q
<1>1. /\ t \div WindowLen \in Nat /\ t % WindowLen \in Nat
      /\ t = WindowLen * (t \div WindowLen) + (t % WindowLen) /\ t % WindowLen < WindowLen
  OBVIOUS
<1>2. WindowStart(t) = WindowLen * (t \div WindowLen)
  BY <1>1 DEF WindowStart
<1>3. \E q \in Nat : WindowStart(t) = WindowLen * q
  BY <1>1, <1>2
<1>4. WindowLen * (t \div WindowLen) \in Nat
  BY <1>1
<1>5. WindowStart(t) \in Nat /\ t = WindowStart(t) + (t % WindowLen)
  BY <1>1, <1>2, <1>4
<1> QED BY <1>1, <1>3, <1>5

(* Two windows that overlap are one, and a later time is in no earlier one. *)
LEMMA WindowIsOne ==
  ASSUME NEW a \in Nat, NEW b \in Nat, a <= b
  PROVE  /\ WindowStart(a) <= WindowStart(b)
         /\ WindowStart(b) <= a => WindowStart(b) = WindowStart(a)
<1>1. PICK p \in Nat : WindowStart(a) = WindowLen * p
  BY WindowBounds
<1>2. PICK q \in Nat : WindowStart(b) = WindowLen * q
  BY WindowBounds
<1>3. /\ WindowLen * p <= a /\ a < WindowLen * p + WindowLen
      /\ WindowLen * q <= b /\ b < WindowLen * q + WindowLen
  BY <1>1, <1>2, WindowBounds
<1>4. WindowLen * (q + 1) = WindowLen * q + WindowLen /\ WindowLen * (p + 1) = WindowLen * p + WindowLen
  BY <1>1, <1>2
<1>5. p <= q
  <2> SUFFICES ASSUME q + 1 <= p PROVE FALSE
    BY <1>1, <1>2
  <2>1. WindowLen * (q + 1) <= WindowLen * p
    BY <1>1, <1>2
  <2> QED BY <1>1, <1>2, <1>3, <1>4, <2>1
<1>6. WindowLen * p <= WindowLen * q
  BY <1>1, <1>2, <1>5
<1>7. ASSUME WindowLen * q <= a PROVE q = p
  <2> SUFFICES ASSUME p + 1 <= q PROVE FALSE
    BY <1>1, <1>2, <1>5
  <2>1. WindowLen * (p + 1) <= WindowLen * q
    BY <1>1, <1>2
  <2> QED BY <1>1, <1>2, <1>3, <1>4, <1>7, <2>1
<1> QED BY <1>1, <1>2, <1>6, <1>7

InWindow(w) == {t \in Times : WindowStart(t) = w}

LEMMA TimesAreFinite ==
  /\ IsFiniteSet(Times) /\ Times \subseteq Nat
  /\ \A w : IsFiniteSet(InWindow(w)) /\ InWindow(w) \subseteq Times
<1>1. IsFiniteSet(Times) /\ Times \subseteq Nat
  BY FS_Interval DEF Times
<1>2. \A w : InWindow(w) \in SUBSET Times
  BY DEF InWindow
<1> QED BY <1>1, <1>2, FS_Subset

-----------------------------------------------------------------------------
(* The inductive invariant: the daemon.                                    *)

Events == Windows \X Percent

TypeOK ==
  /\ now \in Times
  /\ samples \in [Times -> Nat] /\ carried \in [Times -> Nat]
  /\ daemon \in {"started", "idle", "evaluate", "record80", "record100"}
  /\ check.key \in Windows /\ check.used \in Nat /\ check.crossed \subseteq Percent
  /\ events \subseteq Events
  /\ agent \in [Agent -> {"asleep", "notify", "mark"}]
  /\ view \in [Agent -> [key : Windows, send : SUBSET Percent]]
  /\ \A a \in Agent : agent[a] # "asleep" => view[a].send # {}
  /\ sentinels \subseteq Events
  /\ shown \in [Events -> Nat] /\ unheard \subseteq Events
  /\ deaths \in Nat /\ unmarked \in Nat
  /\ \A a \in Silent : agent[a] = "asleep"

(* Rows hold nothing that was not carried, and nothing of the future.      *)
RowsAreReal ==
  /\ \A t \in Times : samples[t] <= carried[t]
  /\ \A t \in Times : t > now => carried[t] = 0

Recording == daemon \in {"record80", "record100"}

(* What check_budget has read is no more than there was.                   *)
CheckIsReal ==
  Recording => check.used <= CarriedIn(check.key) /\ check.crossed \subseteq CrossedIn(check.key)

(* The flag of 100% never stands without that of 80%.                      *)
FlagsInOrder == \A w \in Windows : <<w, 100>> \in events => <<w, 80>> \in events

DaemonInv == RowsAreReal /\ CheckIsReal /\ NoFalseAlarm /\ FlagsInOrder

(* Where raw rows outlive the window, the check misses nothing, unless its *)
(* query failed.                                                           *)
RowsAreThere == \A t \in Times : t >= WindowStart(now) => samples[t] = carried[t]

CheckIsComplete ==
  /\ Recording => check.used = 0 \/ check.used >= CarriedIn(check.key)
  /\ daemon = "record100" /\ Reached(check.used, 80) => <<check.key, 80>> \in events
  /\ daemon = "idle" /\ check.used > 0 =>
       \A pct \in Percent : Reached(CarriedIn(check.key), pct) => <<check.key, pct>> \in events

Complete == RowsAreThere /\ CheckIsComplete

-----------------------------------------------------------------------------
(* Sums of windows.                                                        *)

WindowsAreNat == \A w : CarriedIn(w) \in Nat

LEMMA CarriedIsNat == TypeOK => WindowsAreNat
<1> SUFFICES ASSUME TypeOK, NEW w PROVE CarriedIn(w) \in Nat
  BY DEF WindowsAreNat
<1>1. \A t \in InWindow(w) : carried[t] \in Nat
  BY TimesAreFinite DEF TypeOK
<1>2. SumFunctionOnSet(carried, InWindow(w)) \in Nat
  BY <1>1, TimesAreFinite, SumIsNat
<1> QED BY <1>2 DEF CarriedIn, InWindow

(* What check_budget reads, of rows that may be pruned but not invented.   *)
LEMMA UsedIs ==
  ASSUME TypeOK, RowsAreReal
  PROVE  /\ WindowStart(now) \in Windows
         /\ Used \in Nat /\ Used <= CarriedIn(WindowStart(now))
         /\ RowsAreThere => Used = CarriedIn(WindowStart(now))
<1> DEFINE start == WindowStart(now)
           read == {t \in DOMAIN samples : t >= start}
           window == InWindow(start)
<1>1. now \in Nat /\ start \in Nat /\ start <= now /\ DOMAIN samples = Times
  BY WindowBounds, TimesAreFinite DEF TypeOK
<1>2. window \in SUBSET read /\ \A t \in read \ window : t > now
  <2>1. ASSUME NEW t \in window PROVE t \in read
    <3>1. t \in Times /\ t \in Nat /\ WindowStart(t) = start
      BY <2>1, TimesAreFinite DEF InWindow
    <3> QED BY <1>1, <3>1, WindowBounds
  <2>2. ASSUME NEW t \in read, t <= now PROVE t \in window
    <3>1. t \in Times /\ t \in Nat /\ t >= start
      BY <1>1, <2>2, TimesAreFinite
    <3>2. WindowStart(t) = start
      BY <1>1, <2>2, <3>1, WindowIsOne
    <3> QED BY <3>1, <3>2 DEF InWindow
  <2>3. \A t \in read : t \in Nat
    BY <1>1, TimesAreFinite
  <2> QED BY <1>1, <2>1, <2>2, <2>3
<1>3. read \in SUBSET Times /\ IsFiniteSet(read)
  BY <1>1, TimesAreFinite, FS_Subset
<1>4. \A t \in read : samples[t] \in Nat /\ carried[t] \in Nat /\ samples[t] <= carried[t]
  BY <1>3 DEF TypeOK, RowsAreReal
<1>5. \A t \in read \ window : carried[t] = 0
  BY <1>2, <1>3 DEF RowsAreReal
<1>6. Used = SumFunctionOnSet(samples, read)
  BY DEF Used, Since
<1>7. CarriedIn(start) = SumFunctionOnSet(carried, window)
  BY DEF CarriedIn, InWindow
<1>8. RowsAreThere => \A t \in read : samples[t] = carried[t]
  BY <1>1, <1>3 DEF RowsAreThere
<1> HIDE DEF start, read, window
<1>9. IsIntOn(samples, read) /\ IsIntOn(carried, read)
  BY <1>4 DEF IsIntOn
<1>10. SumFunctionOnSet(samples, read) <= SumFunctionOnSet(carried, read)
       /\ SumFunctionOnSet(samples, read) \in Nat
  BY <1>3, <1>4, <1>9, SumMonotone, SumIsNat
<1>11. SumFunctionOnSet(carried, read) = SumFunctionOnSet(carried, window)
  <2>1. IsFiniteSet(read \ window) /\ IsFiniteSet(window) /\ IsIntOn(carried, window)
    BY <1>2, <1>3, <1>9, FS_Subset DEF IsIntOn
  <2>2. SumFunctionOnSet(carried, read \ window) = 0
    BY <1>5, <2>1, SumOfZeros
  <2>3. SumFunctionOnSet(carried, read) = SumFunctionOnSet(carried, window) + SumFunctionOnSet(carried, read \ window)
    BY <1>2, <1>3, <1>9, SumSplits
  <2>4. SumFunctionOnSet(carried, window) \in Int
    BY <2>1, SumIsInt
  <2> QED BY <2>2, <2>3, <2>4
<1>12. RowsAreThere => SumFunctionOnSet(samples, read) = SumFunctionOnSet(carried, read)
  BY <1>3, <1>8, <1>9, SumSame
<1>13. start \in Windows
  BY DEF start, Windows, TypeOK
<1> QED BY <1>6, <1>7, <1>10, <1>11, <1>12, <1>13 DEF start

(* What a tick adds to the windows.                                        *)
LEMMA CarriedGrows ==
  ASSUME TypeOK, NEW n \in Nat, carried' = [carried EXCEPT ![now] = @ + n], NEW w
  PROVE  CarriedIn(w) <= CarriedIn(w)'
<1>1. /\ \A t \in InWindow(w) : carried[t] <= carried'[t]
      /\ \A t \in InWindow(w) : carried[t] \in Nat /\ carried'[t] \in Nat
  <2>1. now \in Times /\ carried \in [Times -> Nat]
    BY DEF TypeOK
  <2>2. \A t \in Times : carried[t] \in Nat /\ carried'[t] = carried[t] + (IF t = now THEN n ELSE 0)
    BY <2>1
  <2>3. \A t \in Times : carried[t] <= carried'[t] /\ carried[t] \in Nat /\ carried'[t] \in Nat
    BY <2>2
  <2> QED BY <2>3, TimesAreFinite
<1>2. IsIntOn(carried, InWindow(w)) /\ IsIntOn(carried', InWindow(w))
  BY <1>1 DEF IsIntOn
<1>3. SumFunctionOnSet(carried, InWindow(w)) <= SumFunctionOnSet(carried', InWindow(w))
  BY <1>1, <1>2, TimesAreFinite, SumMonotone
<1> QED BY <1>3 DEF CarriedIn, InWindow

-----------------------------------------------------------------------------
(* The daemon's half.                                                      *)

LEMMA ReachedGrows ==
  ASSUME NEW a \in Nat, NEW b \in Nat, a <= b, NEW pct \in Nat, Reached(a, pct)
  PROVE  Reached(b, pct)
<1>1. pct * Limit \in Nat
  OBVIOUS
<1> QED BY <1>1 DEF Reached

LEMMA ReachedInOrder ==
  ASSUME NEW a \in Nat, Reached(a, 100)
  PROVE  Reached(a, 80)
  BY DEF Reached

LEMMA Crossed == TypeOK => check.crossed \subseteq CrossedIn(check.key) <=>
                             \A pct \in check.crossed : <<check.key, pct>> \in events
  BY DEF TypeOK, CrossedIn

LEMMA InitInv ==
  Init => TypeOK /\ DaemonInv /\ Complete
<1> SUFFICES ASSUME Init PROVE TypeOK /\ DaemonInv /\ Complete
  OBVIOUS
<1>1. 0 \in Times /\ WindowStart(0) = 0
  BY DEF Times, WindowStart
<1>2. 0 \in Windows
  BY <1>1 DEF Windows
<1>3. TypeOK
  BY <1>1, <1>2 DEF Init, TypeOK, Events
<1> QED BY <1>3 DEF Init, DaemonInv, Complete, RowsAreReal, CheckIsReal, NoFalseAlarm, FlagsInOrder,
           RowsAreThere, CheckIsComplete, Recording

LEMMA TypeIsKept == TypeOK /\ DaemonInv /\ [Next]_vars => TypeOK'
<1> SUFFICES ASSUME TypeOK, DaemonInv, [Next]_vars PROVE TypeOK'
  OBVIOUS
<1> USE DEF TypeOK
<1>0. 80 \in Percent /\ 100 \in Percent /\ now \in Nat
  BY TimesAreFinite DEF Percent
<1>1. CASE PassTime
  BY <1>1 DEF PassTime, daemonVars, agentVars, notices, budgets, Times
<1>2. ASSUME NEW n \in Traffic, Write(n) PROVE TypeOK'
  <2>0. samples[now] + n \in Nat /\ carried[now] + n \in Nat
    <3>1. n \in Nat /\ samples[now] \in Nat /\ carried[now] \in Nat
      BY <1>2
    <3> QED BY <3>1
  <2>1. samples' \in [Times -> Nat] /\ carried' \in [Times -> Nat]
    BY <1>2, <2>0 DEF Write
  <2> QED BY <1>2, <2>1 DEF Write, agentVars, notices, budgets
<1>3. CASE Evaluate
  <2>1. PICK used \in {Used, 0}, crossed \in {CrossedIn(WindowStart(now)), {}} :
          check' = [key |-> WindowStart(now), used |-> used, crossed |-> crossed]
    BY <1>3 DEF Evaluate
  <2>2. check'.key \in Windows /\ check'.used \in Nat /\ check'.crossed \subseteq Percent
    <3>1. WindowStart(now) \in Windows /\ used \in Nat
      BY UsedIs DEF DaemonInv, Windows
    <3>2. crossed \subseteq Percent
      BY DEF CrossedIn
    <3> QED BY <2>1, <3>1, <3>2
  <2> QED BY <1>3, <2>2 DEF Evaluate, agentVars, notices, budgets
<1>4. CASE Record80
  BY <1>0, <1>4 DEF Record80, agentVars, notices, budgets, Events
<1>5. CASE Record100
  BY <1>0, <1>5 DEF Record100, agentVars, notices, budgets, Events
<1>6. CASE Retain
  BY <1>6 DEF Retain, agentVars, notices, budgets
<1>7. CASE Crash
  BY <1>7 DEF Crash, agentVars, notices
<1>8. ASSUME NEW a \in Agent, Poll(a) PROVE TypeOK'
  <2>1. WindowStart(now) \in Windows /\ Unsent(WindowStart(now)) \in SUBSET Percent
    BY DEF Windows, Unsent, CrossedIn
  <2>2. view' \in [Agent -> [key : Windows, send : SUBSET Percent]]
    BY <1>8, <2>1 DEF Poll
  <2>3. /\ agent' \in [Agent -> {"asleep", "notify", "mark"}]
        /\ \A b \in Agent : agent'[b] # "asleep" => view'[b].send # {}
        /\ \A b \in Silent : agent'[b] = "asleep"
    BY <1>8 DEF Poll
  <2> QED BY <1>8, <2>2, <2>3 DEF Poll, daemonVars, notices, budgets
<1>9. ASSUME NEW a \in Agent, Notify(a) PROVE TypeOK'
  <2>1. view[a].key \in Windows /\ view[a].send \in SUBSET Percent /\ view[a].send # {}
    BY <1>9 DEF Notify
  <2>2. <<view[a].key, NextToSend(a)>> \in Events
    BY <2>1, FirstToSend DEF NextToSend, Events
  <2> DEFINE crossing == <<view[a].key, NextToSend(a)>>
  <2>3. /\ shown' \in [Events -> Nat] /\ unheard' \subseteq Events
        /\ agent' \in [Agent -> {"asleep", "notify", "mark"}]
    <3>1. /\ \/ shown' = [shown EXCEPT ![crossing] = @ + 1] /\ unheard' = unheard
             \/ shown' = shown /\ unheard' = unheard \cup {crossing}
          /\ agent' = [agent EXCEPT ![a] = "mark"]
      BY <1>9 DEF Notify
    <3> HIDE DEF crossing
    <3>2. shown[crossing] + 1 \in Nat
      BY <2>2 DEF crossing
    <3>3. crossing \in Events
      BY <2>2 DEF crossing
    <3> QED BY <3>1, <3>2, <3>3
  <2>4. /\ \A b \in Agent : agent'[b] # "asleep" => view'[b].send # {}
        /\ \A b \in Silent : agent'[b] = "asleep"
    BY <1>9, <2>1 DEF Notify
  <2> QED BY <1>9, <2>3, <2>4 DEF Notify, daemonVars, notices, budgets
<1>10. ASSUME NEW a \in Agent, MarkSent(a) PROVE TypeOK'
  <2>1. view[a].key \in Windows /\ view[a].send \in SUBSET Percent /\ view[a].send # {}
    BY <1>10 DEF MarkSent
  <2>2. view' \in [Agent -> [key : Windows, send : SUBSET Percent]]
        /\ agent' \in [Agent -> {"asleep", "notify", "mark"}]
    BY <1>10, <2>1 DEF MarkSent
  <2>3. sentinels' \subseteq Events /\ unmarked' \in Nat
    BY <1>10, <2>1, FirstToSend DEF MarkSent, WriteSentinel, NextToSend, Events
  <2>4. /\ \A b \in Agent : agent'[b] # "asleep" => view'[b].send # {}
        /\ \A b \in Silent : agent'[b] = "asleep"
    BY <1>10 DEF MarkSent
  <2> QED BY <1>10, <2>2, <2>3, <2>4 DEF MarkSent, daemonVars, notices, budgets
<1>11. ASSUME NEW a \in Agent, Die(a) PROVE TypeOK'
  BY <1>11 DEF Die, daemonVars, notices
<1>12. CASE UNCHANGED vars
  BY <1>12 DEF vars, daemonVars, agentVars, notices, budgets
<1> QED BY <1>1, <1>2, <1>3, <1>4, <1>5, <1>6, <1>7, <1>8, <1>9, <1>10, <1>11, <1>12
        DEF Next, CheckBudget, AgentStep

LEMMA DaemonStep ==
  TypeOK /\ DaemonInv /\ [Next]_vars => DaemonInv'
<1> SUFFICES ASSUME TypeOK, DaemonInv, [Next]_vars PROVE DaemonInv'
  OBVIOUS
<1> USE DEF DaemonInv
<1>0. now \in Nat /\ \A t \in Times : t \in Nat /\ carried[t] \in Nat /\ samples[t] \in Nat
  BY TimesAreFinite DEF TypeOK
<1>1. CASE PassTime
  <2>1. now' = now + 1 /\ UNCHANGED <<samples, carried, daemon, check, events>>
    BY <1>1 DEF PassTime, daemonVars
  <2>2. RowsAreReal'
    BY <1>0, <2>1 DEF RowsAreReal, TypeOK
  <2> QED BY <2>1, <2>2 DEF CheckIsReal, NoFalseAlarm, FlagsInOrder, CarriedIn, CrossedIn, Recording
<1>2. ASSUME NEW n \in Traffic, Write(n) PROVE DaemonInv'
  <2>1. /\ n \in Nat /\ now' = now /\ check' = check /\ events' = events /\ daemon' = "evaluate"
        /\ samples' = [samples EXCEPT ![now] = @ + n] /\ carried' = [carried EXCEPT ![now] = @ + n]
    BY <1>2 DEF Write
  <2>2. \A t \in Times : /\ samples'[t] = samples[t] + (IF t = now THEN n ELSE 0)
                         /\ carried'[t] = carried[t] + (IF t = now THEN n ELSE 0)
    BY <1>0, <2>1 DEF TypeOK
  <2>3. RowsAreReal'
    BY <1>0, <2>1, <2>2 DEF RowsAreReal
  <2>4. NoFalseAlarm'
    <3> SUFFICES ASSUME NEW e \in events PROVE Reached(CarriedIn(e[1])', e[2])
      BY <2>1 DEF NoFalseAlarm, Reached
    <3>1. e[2] \in Nat
      BY DEF TypeOK, Events, Percent
    <3>2. CarriedIn(e[1]) \in Nat /\ CarriedIn(e[1])' \in Nat /\ CarriedIn(e[1]) <= CarriedIn(e[1])'
      <4>1. TypeOK'
        BY TypeIsKept
      <4>2. WindowsAreNat'
        BY <4>1, CarriedIsNat, PTL
      <4> USE DEF WindowsAreNat
      <4> QED BY <2>1, <4>2, CarriedIsNat, CarriedGrows
    <3> QED BY <3>1, <3>2, ReachedGrows DEF NoFalseAlarm
  <2> QED BY <2>1, <2>3, <2>4 DEF CheckIsReal, FlagsInOrder, Recording
<1>3. CASE Evaluate
  <2>1. PICK used \in {Used, 0}, crossed \in {CrossedIn(WindowStart(now)), {}} :
          /\ UNCHANGED <<now, samples, carried, events>>
          /\ check' = [key |-> WindowStart(now), used |-> used, crossed |-> crossed]
    BY <1>3 DEF Evaluate
  <2>2. used <= CarriedIn(WindowStart(now))
    BY UsedIs, CarriedIsNat DEF WindowsAreNat
  <2> QED BY <2>1, <2>2 DEF CheckIsReal, RowsAreReal, NoFalseAlarm, FlagsInOrder, CarriedIn, CrossedIn
<1>4. CASE Record80 \/ Record100
  <2>1. /\ UNCHANGED <<now, samples, carried, check>> /\ Recording
        /\ \/ events' = events
           \/ Crosses(80) /\ events' = events \cup {<<check.key, 80>>}
           \/ Crosses(100) /\ events' = events \cup {<<check.key, 80>>, <<check.key, 100>>}
    BY <1>4 DEF Record80, Record100, Recording, Percent
  <2>2. /\ check.used \in Nat /\ CarriedIn(check.key) \in Nat /\ check.used <= CarriedIn(check.key)
    BY <2>1, CarriedIsNat DEF WindowsAreNat, CheckIsReal, TypeOK
  <2>3. /\ Crosses(80) => Reached(CarriedIn(check.key), 80)
        /\ Crosses(100) => Reached(CarriedIn(check.key), 100) /\ Reached(CarriedIn(check.key), 80)
    BY <2>2, ReachedGrows, ReachedInOrder DEF Crosses
  <2>4. \A w : CarriedIn(w)' = CarriedIn(w)
    BY <2>1 DEF CarriedIn
  <2>5. NoFalseAlarm'
    BY <2>1, <2>3, <2>4 DEF NoFalseAlarm
  <2>6. FlagsInOrder'
    BY <2>1 DEF FlagsInOrder
  <2>7. CheckIsReal'
    BY <2>1, <2>4 DEF CheckIsReal, CrossedIn
  <2>8. RowsAreReal'
    BY <2>1 DEF RowsAreReal
  <2> QED BY <2>5, <2>6, <2>7, <2>8
<1>5. CASE Retain
  <2>1. /\ UNCHANGED <<now, carried, daemon, check, events>>
        /\ samples' = [t \in Times |-> IF t < now - RawRet THEN 0 ELSE samples[t]]
    BY <1>5 DEF Retain
  <2>2. RowsAreReal'
    BY <1>0, <2>1 DEF RowsAreReal
  <2> QED BY <2>1, <2>2 DEF CheckIsReal, NoFalseAlarm, FlagsInOrder, CarriedIn, CrossedIn, Recording
<1>6. CASE UNCHANGED <<now, samples, carried, check, events>> /\ daemon' \in {daemon, "started"}
  BY <1>6 DEF RowsAreReal, CheckIsReal, NoFalseAlarm, FlagsInOrder, CarriedIn, CrossedIn, Recording
<1>7. CASE Crash \/ (\E a \in Agent : AgentStep(a) \/ Die(a)) \/ UNCHANGED vars
  <2>1. UNCHANGED <<now, samples, carried, check, events>> /\ daemon' \in {daemon, "started"}
    BY <1>7 DEF Crash, AgentStep, Poll, Notify, MarkSent, Die, vars, daemonVars
  <2> QED BY <1>6, <2>1
<1> QED BY <1>1, <1>2, <1>3, <1>4, <1>5, <1>7 DEF Next, CheckBudget

(* Raw rows of the current window are all there, if they live as long.     *)
LEMMA CompleteStep ==
  ASSUME RawRet >= WindowLen - 1
  PROVE  TypeOK /\ DaemonInv /\ Complete /\ [Next]_vars => Complete'
<1> SUFFICES ASSUME TypeOK, DaemonInv, Complete, [Next]_vars PROVE Complete'
  OBVIOUS
<1> USE DEF Complete
<1>0. /\ now \in Nat /\ WindowStart(now) \in Nat /\ now < WindowStart(now) + WindowLen
      /\ \A t \in Times : t \in Nat /\ carried[t] \in Nat /\ samples[t] \in Nat
  BY TimesAreFinite, WindowBounds DEF TypeOK
<1>1. CASE PassTime
  <2>1. now' = now + 1 /\ UNCHANGED <<samples, carried, daemon, check, events>>
    BY <1>1 DEF PassTime, daemonVars
  <2>2. WindowStart(now) <= WindowStart(now + 1) /\ WindowStart(now + 1) \in Nat
    <3>1. now + 1 \in Nat /\ now <= now + 1
      BY <1>0
    <3> QED BY <1>0, <3>1, WindowIsOne, WindowBounds
  <2>3. WindowStart(now)' = WindowStart(now + 1)
    BY <2>1 DEF WindowStart
  <2>4. RowsAreThere'
    BY <1>0, <2>1, <2>2, <2>3 DEF RowsAreThere
  <2> QED BY <2>1, <2>4 DEF CheckIsComplete, CarriedIn, Recording
<1>2. ASSUME NEW n \in Traffic, Write(n) PROVE Complete'
  <2>1. /\ n \in Nat /\ now' = now /\ daemon' = "evaluate"
        /\ samples' = [samples EXCEPT ![now] = @ + n] /\ carried' = [carried EXCEPT ![now] = @ + n]
    BY <1>2 DEF Write
  <2>2. \A t \in Times : /\ samples'[t] = samples[t] + (IF t = now THEN n ELSE 0)
                         /\ carried'[t] = carried[t] + (IF t = now THEN n ELSE 0)
    BY <1>0, <2>1 DEF TypeOK
  <2> QED BY <2>1, <2>2 DEF RowsAreThere, CheckIsComplete, Recording, WindowStart
<1>3. CASE Evaluate
  <2>1. PICK used \in {Used, 0}, crossed \in {CrossedIn(WindowStart(now)), {}} :
          /\ UNCHANGED <<now, samples, carried, events>> /\ daemon' = "record80"
          /\ check' = [key |-> WindowStart(now), used |-> used, crossed |-> crossed]
    BY <1>3 DEF Evaluate
  <2>2. Used = CarriedIn(WindowStart(now)) /\ CarriedIn(WindowStart(now)) \in Nat
    BY UsedIs, CarriedIsNat DEF DaemonInv, WindowsAreNat
  <2> QED BY <2>1, <2>2 DEF RowsAreThere, CheckIsComplete, CarriedIn, Recording, WindowStart
<1>4. CASE Record80
  <2>1. /\ UNCHANGED <<now, samples, carried, check>> /\ daemon = "record80" /\ daemon' = "record100"
        /\ events \subseteq events' /\ (Crosses(80) => <<check.key, 80>> \in events')
    BY <1>4 DEF Record80
  <2>2. Reached(check.used, 80) => <<check.key, 80>> \in events'
    <3>1. check.crossed \subseteq CrossedIn(check.key)
      BY <2>1 DEF DaemonInv, CheckIsReal, Recording
    <3> QED BY <2>1, <3>1 DEF Crosses, CrossedIn
  <2> QED BY <2>1, <2>2 DEF RowsAreThere, CheckIsComplete, CarriedIn, Recording
<1>5. CASE Record100
  <2>1. /\ UNCHANGED <<now, samples, carried, check>> /\ daemon = "record100" /\ daemon' = "idle"
        /\ events \subseteq events' /\ (Crosses(100) => <<check.key, 100>> \in events')
    BY <1>5 DEF Record100, Percent
  <2>2. Reached(check.used, 100) => <<check.key, 100>> \in events'
    <3>1. check.crossed \subseteq CrossedIn(check.key)
      BY <2>1 DEF DaemonInv, CheckIsReal, Recording
    <3> QED BY <2>1, <3>1 DEF Crosses, CrossedIn
  <2>3. Reached(check.used, 80) => <<check.key, 80>> \in events'
    BY <2>1 DEF CheckIsComplete
  <2>4. ASSUME check.used > 0
        PROVE  \A pct \in Percent : Reached(CarriedIn(check.key), pct) => <<check.key, pct>> \in events'
    <3>1. check.used \in Nat /\ CarriedIn(check.key) \in Nat /\ CarriedIn(check.key) <= check.used
      BY <2>1, <2>4, CarriedIsNat DEF WindowsAreNat, TypeOK, CheckIsComplete, Recording
    <3>2. \A pct \in Percent : Reached(CarriedIn(check.key), pct) => Reached(check.used, pct)
      BY <3>1, ReachedGrows DEF Percent
    <3> QED BY <2>2, <2>3, <3>2 DEF Percent
  <2> QED BY <2>1, <2>4 DEF RowsAreThere, CheckIsComplete, CarriedIn, Recording
<1>6. CASE Retain
  <2>1. /\ UNCHANGED <<now, carried, daemon, check, events>>
        /\ samples' = [t \in Times |-> IF t < now - RawRet THEN 0 ELSE samples[t]]
    BY <1>6 DEF Retain
  <2>2. \A t \in Times : t >= WindowStart(now) => samples'[t] = samples[t]
    BY <1>0, <2>1
  <2> QED BY <2>1, <2>2 DEF RowsAreThere, CheckIsComplete, CarriedIn, Recording, WindowStart
<1>7. CASE Crash \/ (\E a \in Agent : AgentStep(a) \/ Die(a)) \/ UNCHANGED vars
  <2>1. UNCHANGED <<now, samples, carried, check, events>> /\ daemon' \in {daemon, "started"}
    BY <1>7 DEF Crash, AgentStep, Poll, Notify, MarkSent, Die, vars, daemonVars
  <2> QED BY <2>1 DEF RowsAreThere, CheckIsComplete, CarriedIn, Recording, WindowStart
<1> QED BY <1>1, <1>2, <1>3, <1>4, <1>5, <1>6, <1>7 DEF Next, CheckBudget

-----------------------------------------------------------------------------
(* The inductive invariant: the agents.                                    *)

(* A sentinel stands for a notification, shown or failed, and what an      *)
(* agent has read was recorded; it goes on to 100% only if 80% was tried,  *)
(* by it or another.                                                       *)
ViewsAreReal ==
  /\ \A e \in sentinels : Tried(e)
  /\ \A a \in Agent : agent[a] # "asleep" =>
       /\ \A pct \in view[a].send : <<view[a].key, pct>> \in events
       /\ 80 \notin view[a].send => Tried(<<view[a].key, 80>>)
       /\ agent[a] = "mark" => Tried(<<view[a].key, NextToSend(a)>>)

(* Agents that have tried e and not marked it, and those that are yet to.  *)
IsMarking(a, e) == agent[a] = "mark" /\ view[a].key = e[1] /\ NextToSend(a) = e[2]

IsAwaiting(a, e) ==
  /\ agent[a] # "asleep" /\ view[a].key = e[1] /\ e[2] \in view[a].send
  /\ ~IsMarking(a, e)

Marking(e) == {a \in Agent : IsMarking(a, e)}
Awaiting(e) == {a \in Agent : IsAwaiting(a, e)}

Heard == Agent \ Silent

(* Without a sentinel, whoever has shown e is about to mark it, or died,   *)
(* or could not.  With one, nobody comes to e any more but those that      *)
(* await it.                                                               *)
Counted ==
  \A e \in Events :
    /\ e \notin sentinels => shown[e] <= Cardinality(Marking(e)) + deaths + unmarked
    /\ e \in sentinels => shown[e] + Cardinality(Awaiting(e)) <= Cardinality(Heard) + deaths + unmarked

AgentInv == ViewsAreReal /\ EightyBeforeHundred /\ Counted

LEMMA HeardIsFinite == IsFiniteSet(Heard) /\ Cardinality(Heard) \in Nat
  BY FS_Subset, FS_CardinalityType DEF Heard

LEMMA AgentSets ==
  \A e : /\ IsFiniteSet(Marking(e)) /\ IsFiniteSet(Awaiting(e))
         /\ Marking(e) \subseteq Agent /\ Awaiting(e) \subseteq Agent
         /\ Cardinality(Marking(e)) \in Nat /\ Cardinality(Awaiting(e)) \in Nat
<1> TAKE e
<1>1. Marking(e) \in SUBSET Agent /\ Awaiting(e) \in SUBSET Agent
  BY DEF Marking, Awaiting
<1> QED BY <1>1, FS_Subset, FS_CardinalityType

(* Two sets that differ in one agent at most.                              *)
LEMMA OneAgent ==
  ASSUME NEW S \in SUBSET Agent, NEW T \in SUBSET Agent, NEW a \in Agent, S \ {a} = T \ {a}
  PROVE  Cardinality(T) = Cardinality(S) - (IF a \in S THEN 1 ELSE 0) + (IF a \in T THEN 1 ELSE 0)
<1>1. ASSUME NEW U \in SUBSET Agent
      PROVE  /\ Cardinality(U) = Cardinality(U \ {a}) + (IF a \in U THEN 1 ELSE 0)
             /\ Cardinality(U \ {a}) \in Nat
  <2>1. IsFiniteSet(U) /\ IsFiniteSet(U \ {a})
    BY <1>1, FS_Subset
  <2>2. CASE a \in U
    <3>1. Cardinality(U \ {a}) = Cardinality(U) - 1
      BY <2>1, <2>2, FS_RemoveElement
    <3>2. Cardinality(U) \in Nat /\ Cardinality(U \ {a}) \in Nat
      BY <2>1, FS_CardinalityType
    <3> QED BY <2>2, <3>1, <3>2
  <2>3. CASE a \notin U
    <3>1. U \ {a} = U
      BY <2>3
    <3>2. Cardinality(U) \in Nat /\ Cardinality(U \ {a}) = Cardinality(U)
      BY <2>1, <3>1, FS_CardinalityType
    <3> QED BY <2>3, <3>2
  <2> QED BY <2>2, <2>3
<1> DEFINE rest == Cardinality(S \ {a})
<1>2. Cardinality(S) = rest + (IF a \in S THEN 1 ELSE 0) /\ rest \in Nat
  BY <1>1
<1>3. Cardinality(T) = rest + (IF a \in T THEN 1 ELSE 0)
  BY <1>1
<1> QED BY <1>2, <1>3

LEMMA AtMostAgents ==
  ASSUME TypeOK, Counted, NEW e \in Events
  PROVE  shown[e] + Cardinality(Awaiting(e)) <= Cardinality(Heard) + deaths + unmarked
<1>1. CASE e \in sentinels
  BY <1>1 DEF Counted
<1>2. CASE e \notin sentinels
  <2>1. Marking(e) \cap Awaiting(e) = {}
    BY DEF Marking, Awaiting, IsAwaiting
  <2>2. Cardinality(Marking(e) \cup Awaiting(e)) = Cardinality(Marking(e)) + Cardinality(Awaiting(e))
    <3>1. Cardinality({}) = 0
      BY FS_EmptySet
    <3> QED BY <2>1, <3>1, AgentSets, FS_Union
  <2>3. Cardinality(Marking(e) \cup Awaiting(e)) <= Cardinality(Heard)
    <3>1. Marking(e) \cup Awaiting(e) \in SUBSET Heard
      BY DEF TypeOK, Marking, Awaiting, IsMarking, IsAwaiting, Heard
    <3> QED BY <3>1, HeardIsFinite, FS_Subset
  <2>4. shown[e] \in Nat /\ deaths \in Nat /\ unmarked \in Nat /\ Cardinality(Heard) \in Nat
    BY HeardIsFinite DEF TypeOK
  <2> QED BY <1>2, <2>2, <2>3, <2>4, AgentSets DEF Counted
<1> QED BY <1>1, <1>2

(* A step of agent a moves nobody else between the sets.                   *)
LEMMA OthersStay ==
  ASSUME TypeOK, NEW a \in Agent,
         \A b \in Agent \ {a} : agent'[b] = agent[b] /\ view'[b] = view[b]
  PROVE  \A e :
    /\ Cardinality(Marking(e))' = Cardinality(Marking(e))
         - (IF IsMarking(a, e) THEN 1 ELSE 0) + (IF IsMarking(a, e)' THEN 1 ELSE 0)
    /\ Cardinality(Awaiting(e))' = Cardinality(Awaiting(e))
         - (IF IsAwaiting(a, e) THEN 1 ELSE 0) + (IF IsAwaiting(a, e)' THEN 1 ELSE 0)
<1> TAKE e
<1>1. \A b \in Agent \ {a} : (IsMarking(b, e)' <=> IsMarking(b, e)) /\ (IsAwaiting(b, e)' <=> IsAwaiting(b, e))
  BY DEF IsMarking, IsAwaiting, NextToSend
<1> DEFINE m == Marking(e)
           w == Awaiting(e)
<1>2. /\ m \in SUBSET Agent /\ m' \in SUBSET Agent /\ m \ {a} = m' \ {a}
      /\ w \in SUBSET Agent /\ w' \in SUBSET Agent /\ w \ {a} = w' \ {a}
      /\ (a \in m <=> IsMarking(a, e)) /\ (a \in m' <=> IsMarking(a, e)')
      /\ (a \in w <=> IsAwaiting(a, e)) /\ (a \in w' <=> IsAwaiting(a, e)')
  BY <1>1 DEF Marking, Awaiting
<1> HIDE DEF m, w
<1>3. Cardinality(m') = Cardinality(m) - (IF a \in m THEN 1 ELSE 0) + (IF a \in m' THEN 1 ELSE 0)
      /\ Cardinality(w') = Cardinality(w) - (IF a \in w THEN 1 ELSE 0) + (IF a \in w' THEN 1 ELSE 0)
  BY <1>2, OneAgent
<1> QED BY <1>2, <1>3 DEF m, w

-----------------------------------------------------------------------------
(* The agents' half.                                                       *)

LEMMA InitAgents == Init => AgentInv
<1> SUFFICES ASSUME Init PROVE AgentInv
  OBVIOUS
<1>1. ViewsAreReal
  BY DEF Init, ViewsAreReal
<1>2. EightyBeforeHundred
  BY DEF Init, EightyBeforeHundred, Percent
<1>3. Counted
  BY AgentSets, HeardIsFinite DEF Init, Counted, Events
<1> QED BY <1>1, <1>2, <1>3 DEF AgentInv

LEMMA PollKeepsAgents ==
  ASSUME TypeOK, DaemonInv, AgentInv, NEW a \in Agent, Poll(a)
  PROVE  AgentInv'
<1> DEFINE key == WindowStart(now)
<1>1. /\ agent[a] = "asleep" /\ agent' = [agent EXCEPT ![a] = "notify"]
      /\ view' = [view EXCEPT ![a] = [key |-> key, send |-> Unsent(key)]] /\ Unsent(key) # {}
      /\ UNCHANGED <<events, sentinels, notices, deaths, unmarked>>
  BY DEF Poll, daemonVars, budgets
<1>2. agent'[a] = "notify" /\ view'[a].key = key /\ view'[a].send = Unsent(key)
      /\ \A b \in Agent \ {a} : agent'[b] = agent[b] /\ view'[b] = view[b]
  BY <1>1 DEF TypeOK
<1>3. key \in Windows
  BY DEF Windows, TypeOK
<1> HIDE DEF key
<1>4. ViewsAreReal'
  <2>1. \A pct \in Unsent(key) : <<key, pct>> \in events /\ <<key, pct>> \notin sentinels
    BY DEF Unsent, CrossedIn
  <2>2. ASSUME 80 \notin Unsent(key) PROVE Tried(<<key, 80>>)
    <3>1. Unsent(key) \subseteq Percent
      BY DEF Unsent, CrossedIn
    <3>2. 100 \in Unsent(key)
      BY <1>1, <2>2, <3>1 DEF Percent
    <3>3. <<key, 80>> \in events
      BY <1>3, <2>1, <3>2 DEF DaemonInv, FlagsInOrder
    <3>4. <<key, 80>> \in sentinels
      BY <2>2, <3>3 DEF Unsent, CrossedIn, Percent
    <3> QED BY <3>4 DEF AgentInv, ViewsAreReal
  <2> SUFFICES ASSUME NEW b \in Agent, agent'[b] # "asleep"
               PROVE  /\ \A pct \in view'[b].send : <<view'[b].key, pct>> \in events
                      /\ 80 \notin view'[b].send => Tried(<<view'[b].key, 80>>)
                      /\ agent'[b] = "mark" => Tried(<<view'[b].key, NextToSend(b)'>>)
    BY <1>1 DEF AgentInv, ViewsAreReal, Tried, notices
  <2>3. CASE b = a
    BY <1>2, <2>1, <2>2, <2>3
  <2>4. CASE b # a
    BY <1>2, <2>4 DEF AgentInv, ViewsAreReal, NextToSend
  <2> QED BY <2>3, <2>4
<1>5. EightyBeforeHundred'
  BY <1>1 DEF AgentInv, EightyBeforeHundred, Tried, notices
<1>6. Counted'
  <2> SUFFICES ASSUME NEW e \in Events
               PROVE  /\ e \notin sentinels => shown[e] <= Cardinality(Marking(e))' + deaths + unmarked
                      /\ e \in sentinels => shown[e] + Cardinality(Awaiting(e))' <= Cardinality(Heard) + deaths + unmarked
    BY <1>1 DEF Counted, notices
  <2>1. ~IsMarking(a, e) /\ ~IsMarking(a, e)' /\ ~IsAwaiting(a, e)
    BY <1>1, <1>2 DEF IsMarking, IsAwaiting
  <2>2. e \in sentinels => ~IsAwaiting(a, e)'
    <3> SUFFICES ASSUME e \in sentinels, key = e[1], e[2] \in Unsent(key) PROVE FALSE
      BY <1>2 DEF IsAwaiting
    <3>1. e = <<e[1], e[2]>>
      BY DEF Events
    <3> QED BY <3>1 DEF Unsent
  <2> QED BY <1>2, <2>1, <2>2, OthersStay, AgentSets DEF AgentInv, Counted
<1> QED BY <1>4, <1>5, <1>6 DEF AgentInv

LEMMA NotifyKeepsAgents ==
  ASSUME TypeOK, DaemonInv, AgentInv, NEW a \in Agent, Notify(a)
  PROVE  AgentInv'
<1> DEFINE key == view[a].key
           next == NextToSend(a)
           sent == <<key, next>>
<1>1. /\ agent[a] = "notify" /\ agent' = [agent EXCEPT ![a] = "mark"]
      /\ \/ shown' = [shown EXCEPT ![sent] = @ + 1] /\ unheard' = unheard
         \/ shown' = shown /\ unheard' = unheard \cup {sent}
      /\ UNCHANGED <<events, sentinels, view, deaths, unmarked>>
  BY DEF Notify, daemonVars, budgets
<1>2. agent'[a] = "mark" /\ \A b \in Agent \ {a} : agent'[b] = agent[b]
  BY <1>1 DEF TypeOK
<1>3. /\ key \in Windows /\ view[a].send \in SUBSET Percent /\ next \in view[a].send
      /\ next \in Percent /\ (next = 100 => 80 \notin view[a].send) /\ sent \in Events
  <2>1. key \in Windows /\ view[a].send \in SUBSET Percent /\ view[a].send # {}
    BY <1>1 DEF TypeOK
  <2> QED BY <2>1, FirstToSend DEF NextToSend, Events
<1>4. \A b : NextToSend(b)' = NextToSend(b)
  BY <1>1 DEF NextToSend
<1> HIDE DEF key, next, sent
<1>5. /\ \A e \in Events : /\ shown[e] \in Nat
                           /\ shown'[e] = shown[e] \/ (e = sent /\ shown'[e] = shown[e] + 1)
      /\ unheard \subseteq unheard' /\ (shown'[sent] > 0 \/ sent \in unheard')
      /\ sent = <<key, next>>
  <2>1. shown \in [Events -> Nat] /\ sent = <<key, next>>
    BY DEF TypeOK, sent
  <2>2. CASE shown' = [shown EXCEPT ![sent] = @ + 1] /\ unheard' = unheard
    BY <1>3, <2>1, <2>2
  <2>3. CASE shown' = shown /\ unheard' = unheard \cup {sent}
    BY <1>3, <2>1, <2>3
  <2> QED BY <1>1, <2>2, <2>3
<1> DEFINE TriedNext(e) == shown'[e] > 0 \/ e \in unheard'
<1>6. ViewsAreReal'
  <2>1. \A e \in Events : Tried(e) => TriedNext(e)
    BY <1>5 DEF Tried
  <2>2. TriedNext(sent)
    BY <1>5
  <2>3. sentinels \subseteq Events /\ \A b \in Agent : view[b].key \in Windows
    BY DEF TypeOK
  <2>4. \A b \in Agent : <<view[b].key, 80>> \in Events
    BY <2>3 DEF Events, Percent
  <2>5. \A b \in Agent : agent[b] # "asleep" => <<view[b].key, NextToSend(b)>> \in Events
    <3> SUFFICES ASSUME NEW b \in Agent, agent[b] # "asleep"
                 PROVE  <<view[b].key, NextToSend(b)>> \in Events
      OBVIOUS
    <3>1. view[b].send \in SUBSET Percent /\ view[b].send # {}
      BY DEF TypeOK
    <3> QED BY <2>3, <3>1, FirstToSend DEF NextToSend, Events
  <2>6. \A e \in sentinels : TriedNext(e)
    BY <2>1, <2>3 DEF AgentInv, ViewsAreReal
  <2> SUFFICES ASSUME NEW b \in Agent, agent'[b] # "asleep"
               PROVE  /\ \A pct \in view[b].send : <<view[b].key, pct>> \in events
                      /\ 80 \notin view[b].send => TriedNext(<<view[b].key, 80>>)
                      /\ agent'[b] = "mark" => TriedNext(<<view[b].key, NextToSend(b)>>)
    BY <1>1, <1>4, <2>6 DEF ViewsAreReal, Tried
  <2>7. agent[b] # "asleep"
    BY <1>1, <1>2
  <2> HIDE DEF TriedNext
  <2>8. CASE b = a
    BY <1>5, <2>1, <2>2, <2>4, <2>7, <2>8 DEF AgentInv, ViewsAreReal, sent, key, next
  <2>9. CASE b # a
    BY <1>2, <2>1, <2>4, <2>5, <2>7, <2>9 DEF AgentInv, ViewsAreReal
  <2> QED BY <2>8, <2>9
<1>7. EightyBeforeHundred'
  <2>1. sent \in events
    BY <1>1, <1>3 DEF AgentInv, ViewsAreReal, sent, key
  <2>2. next = 100 => Tried(<<key, 80>>)
    BY <1>1, <1>3 DEF AgentInv, ViewsAreReal, key
  <2> SUFFICES ASSUME NEW w \in Windows
               PROVE  /\ shown'[<<w, 100>>] > 0 => TriedNext(<<w, 80>>)
                      /\ \A pct \in Percent : shown'[<<w, pct>>] > 0 => <<w, pct>> \in events
    BY <1>1 DEF EightyBeforeHundred, Tried
  <2>3. \A pct \in Percent : <<w, pct>> \in Events
    BY DEF Events
  <2>4. /\ shown[<<w, 100>>] > 0 => Tried(<<w, 80>>)
        /\ \A pct \in Percent : shown[<<w, pct>>] > 0 => <<w, pct>> \in events
    BY DEF AgentInv, EightyBeforeHundred
  <2>5. \A pct \in Percent : shown'[<<w, pct>>] > 0 => shown[<<w, pct>>] > 0 \/ <<w, pct>> = sent
    BY <1>5, <2>3
  <2>6. shown'[<<w, 100>>] > 0 => TriedNext(<<w, 80>>)
    <3>1. 80 \in Percent /\ 100 \in Percent
      BY DEF Percent
    <3>2. Tried(<<w, 80>>) => TriedNext(<<w, 80>>)
      BY <1>5, <2>3, <3>1 DEF Tried
    <3>3. CASE <<w, 100>> = sent
      BY <1>5, <2>2, <3>2, <3>3
    <3>4. CASE <<w, 100>> # sent
      BY <2>4, <2>5, <3>1, <3>2, <3>4
    <3> QED BY <3>3, <3>4
  <2>7. \A pct \in Percent : shown'[<<w, pct>>] > 0 => <<w, pct>> \in events
    BY <2>1, <2>4, <2>5
  <2> QED BY <2>6, <2>7
<1>8. Counted'
  <2> SUFFICES ASSUME NEW e \in Events
               PROVE  /\ e \notin sentinels => shown'[e] <= Cardinality(Marking(e))' + deaths + unmarked
                      /\ e \in sentinels => shown'[e] + Cardinality(Awaiting(e))' <= Cardinality(Heard) + deaths + unmarked
    BY <1>1 DEF Counted
  <2>1. e = <<e[1], e[2]>>
    BY DEF Events
  <2>2. (IsMarking(a, e)' <=> e = sent) /\ ~IsMarking(a, e)
        /\ (IsAwaiting(a, e) => (IsAwaiting(a, e)' \/ e = sent)) /\ (IsAwaiting(a, e)' => IsAwaiting(a, e) /\ e # sent)
        /\ (e = sent => IsAwaiting(a, e))
    BY <1>1, <1>2, <1>3, <1>4, <1>5, <2>1 DEF IsMarking, IsAwaiting, key, next
  <2>3. \A b \in Agent \ {a} : agent'[b] = agent[b] /\ view'[b] = view[b]
    BY <1>1, <1>2
  <2>4. /\ e \notin sentinels => shown[e] <= Cardinality(Marking(e)) + deaths + unmarked
        /\ e \in sentinels => shown[e] + Cardinality(Awaiting(e)) <= Cardinality(Heard) + deaths + unmarked
        /\ deaths \in Nat /\ unmarked \in Nat /\ Cardinality(Heard) \in Nat
    BY HeardIsFinite DEF AgentInv, Counted, TypeOK
  <2> QED BY <1>5, <2>2, <2>3, <2>4, OthersStay, AgentSets
<1> QED BY <1>6, <1>7, <1>8 DEF AgentInv

LEMMA MarkKeepsAgents ==
  ASSUME TypeOK, DaemonInv, AgentInv, NEW a \in Agent, MarkSent(a)
  PROVE  AgentInv'
<1> DEFINE key == view[a].key
           next == NextToSend(a)
           sent == <<key, next>>
           left == view[a].send \ {next}
<1>1. /\ agent[a] = "mark" /\ agent' = [agent EXCEPT ![a] = IF left = {} THEN "asleep" ELSE "notify"]
      /\ view' = [view EXCEPT ![a].send = left]
      /\ \/ sentinels' = sentinels \cup {sent} /\ unmarked' = unmarked
         \/ sentinels' = sentinels /\ unmarked' = unmarked + 1
      /\ UNCHANGED <<events, notices, deaths>>
  BY DEF MarkSent, WriteSentinel, daemonVars
<1>2. agent'[a] = (IF left = {} THEN "asleep" ELSE "notify") /\ view'[a].key = key /\ view'[a].send = left
      /\ \A b \in Agent \ {a} : agent'[b] = agent[b] /\ view'[b] = view[b]
  BY <1>1 DEF TypeOK
<1>3. /\ key \in Windows /\ view[a].send \in SUBSET Percent /\ next \in view[a].send
      /\ next \in Percent /\ (80 \in view[a].send => next = 80) /\ sent \in Events
      /\ left \subseteq view[a].send /\ next \notin left
  <2>1. key \in Windows /\ view[a].send \in SUBSET Percent /\ view[a].send # {}
    BY <1>1 DEF TypeOK
  <2>2. next \in view[a].send /\ next \in Percent /\ (next = 100 => view[a].send = {100})
    BY <2>1, FirstToSend DEF NextToSend
  <2> QED BY <2>1, <2>2 DEF Events, Percent
<1>4. Tried(sent) /\ (80 \notin view[a].send => Tried(<<key, 80>>))
  BY <1>1 DEF AgentInv, ViewsAreReal
<1> HIDE DEF key, next, left
<1>5. ViewsAreReal'
  <2> SUFFICES ASSUME NEW b \in Agent, agent'[b] # "asleep"
               PROVE  /\ \A pct \in view'[b].send : <<view'[b].key, pct>> \in events
                      /\ 80 \notin view'[b].send => Tried(<<view'[b].key, 80>>)
                      /\ agent'[b] = "mark" => Tried(<<view'[b].key, NextToSend(b)'>>)
    BY <1>1, <1>4 DEF AgentInv, ViewsAreReal, Tried, notices
  <2>1. CASE b = a
    <3>1. \A pct \in left : <<key, pct>> \in events
      BY <1>1, <1>3 DEF AgentInv, ViewsAreReal, key
    <3>2. Tried(<<key, 80>>)
      BY <1>3, <1>4
    <3> QED BY <1>2, <2>1, <3>1, <3>2
  <2>2. CASE b # a
    BY <1>2, <2>2 DEF AgentInv, ViewsAreReal, NextToSend
  <2> QED BY <2>1, <2>2
<1>6. EightyBeforeHundred'
  BY <1>1 DEF AgentInv, EightyBeforeHundred, Tried, notices
<1>7. Counted'
  <2> SUFFICES ASSUME NEW e \in Events
               PROVE  /\ e \notin sentinels' => shown[e] <= Cardinality(Marking(e))' + deaths + unmarked'
                      /\ e \in sentinels' => shown[e] + Cardinality(Awaiting(e))' <= Cardinality(Heard) + deaths + unmarked'
    BY <1>1 DEF Counted, notices
  <2>1. e = <<e[1], e[2]>>
    BY DEF Events
  <2>2. /\ IsMarking(a, e) <=> e = sent
        /\ ~IsMarking(a, e)'
        /\ IsAwaiting(a, e) <=> e[1] = key /\ e[2] \in left
        /\ IsAwaiting(a, e)' <=> e[1] = key /\ e[2] \in left
    BY <1>1, <1>2, <2>1 DEF IsMarking, IsAwaiting, key, next, left
  <2>3. Cardinality(Awaiting(e))' = Cardinality(Awaiting(e))
        /\ Cardinality(Marking(e))' = Cardinality(Marking(e)) - (IF e = sent THEN 1 ELSE 0)
    BY <1>2, <2>2, OthersStay, AgentSets
  <2>4. shown[e] + Cardinality(Awaiting(e)) <= Cardinality(Heard) + deaths + unmarked
    BY AtMostAgents DEF AgentInv
  <2>5. /\ shown[e] \in Nat /\ deaths \in Nat /\ unmarked \in Nat /\ Cardinality(Heard) \in Nat
        /\ Cardinality(Awaiting(e)) \in Nat /\ Cardinality(Marking(e)) \in Nat
        /\ e \notin sentinels => shown[e] <= Cardinality(Marking(e)) + deaths + unmarked
    BY HeardIsFinite, AgentSets DEF TypeOK, AgentInv, Counted
  <2>6. CASE sentinels' = sentinels \cup {sent} /\ unmarked' = unmarked
    BY <2>3, <2>4, <2>5, <2>6
  <2>7. CASE sentinels' = sentinels /\ unmarked' = unmarked + 1
    BY <2>3, <2>4, <2>5, <2>7
  <2> QED BY <1>1, <2>6, <2>7
<1> QED BY <1>5, <1>6, <1>7 DEF AgentInv

LEMMA DieKeepsAgents ==
  ASSUME TypeOK, DaemonInv, AgentInv, NEW a \in Agent, Die(a)
  PROVE  AgentInv'
<1>1. /\ deaths' = deaths + 1 /\ agent' = [agent EXCEPT ![a] = "asleep"]
      /\ UNCHANGED <<events, sentinels, view, notices, unmarked>>
  BY DEF Die, daemonVars
<1>2. agent'[a] = "asleep" /\ \A b \in Agent \ {a} : agent'[b] = agent[b] /\ view'[b] = view[b]
  BY <1>1 DEF TypeOK
<1>3. ViewsAreReal'
  <2>1. \A b \in Agent : agent'[b] # "asleep" => agent[b] = agent'[b]
    BY <1>2
  <2> QED BY <1>1, <2>1 DEF AgentInv, ViewsAreReal, NextToSend, Tried, notices
<1>4. EightyBeforeHundred'
  BY <1>1 DEF AgentInv, EightyBeforeHundred, Tried, notices
<1>5. Counted'
  <2> SUFFICES ASSUME NEW e \in Events
               PROVE  /\ e \notin sentinels => shown[e] <= Cardinality(Marking(e))' + deaths' + unmarked
                      /\ e \in sentinels => shown[e] + Cardinality(Awaiting(e))' <= Cardinality(Heard) + deaths' + unmarked
    BY <1>1 DEF Counted, notices
  <2>1. ~IsMarking(a, e)' /\ ~IsAwaiting(a, e)'
    BY <1>2 DEF IsMarking, IsAwaiting
  <2>2. /\ e \notin sentinels => shown[e] <= Cardinality(Marking(e)) + deaths + unmarked
        /\ e \in sentinels => shown[e] + Cardinality(Awaiting(e)) <= Cardinality(Heard) + deaths + unmarked
        /\ deaths \in Nat /\ unmarked \in Nat /\ Cardinality(Heard) \in Nat /\ shown[e] \in Nat
    BY HeardIsFinite DEF AgentInv, Counted, TypeOK
  <2> QED BY <1>1, <1>2, <2>1, <2>2, OthersStay, AgentSets
<1> QED BY <1>3, <1>4, <1>5 DEF AgentInv

LEMMA AgentsStep ==
  TypeOK /\ DaemonInv /\ AgentInv /\ [Next]_vars => AgentInv'
<1> SUFFICES ASSUME TypeOK, DaemonInv, AgentInv, [Next]_vars PROVE AgentInv'
  OBVIOUS
<1>1. CASE UNCHANGED <<agentVars, notices, deaths, unmarked>> /\ events \subseteq events'
  <2>1. \A e : Marking(e)' = Marking(e) /\ Awaiting(e)' = Awaiting(e)
    BY <1>1 DEF agentVars, Marking, Awaiting, IsMarking, IsAwaiting, NextToSend
  <2>2. Counted'
    BY <1>1, <2>1 DEF agentVars, notices, AgentInv, Counted
  <2>3. ViewsAreReal' /\ EightyBeforeHundred'
    BY <1>1 DEF agentVars, notices, AgentInv, ViewsAreReal, EightyBeforeHundred, NextToSend, Tried
  <2> QED BY <2>2, <2>3 DEF AgentInv
<1>2. CASE PassTime \/ (\E n \in Traffic : Write(n)) \/ CheckBudget \/ Retain \/ Crash \/ UNCHANGED vars
  <2>1. UNCHANGED <<agentVars, notices, deaths, unmarked>> /\ events \subseteq events'
    BY <1>2 DEF PassTime, Write, CheckBudget, Evaluate, Record80, Record100, Retain, Crash, vars,
                budgets, daemonVars
  <2> QED BY <1>1, <2>1
<1>3. ASSUME NEW a \in Agent, AgentStep(a) \/ Die(a) PROVE AgentInv'
  BY <1>3, PollKeepsAgents, NotifyKeepsAgents, MarkKeepsAgents, DieKeepsAgents DEF AgentStep
<1> QED BY <1>2, <1>3 DEF Next

-----------------------------------------------------------------------------
(* The theorems.                                                           *)

Inv == TypeOK /\ DaemonInv /\ AgentInv

LEMMA InvHolds == Spec => []Inv
<1>1. Init => Inv
  BY InitInv, InitAgents DEF Inv
<1>2. Inv /\ [Next]_vars => Inv'
  BY TypeIsKept, DaemonStep, AgentsStep DEF Inv
<1> QED BY <1>1, <1>2, PTL DEF Spec

(* check_budget never records a crossing of a window that carried less,    *)
(* whatever time passes between its reading of the clock, its sum and its  *)
(* records, and whatever retention prunes meanwhile.                       *)
THEOREM NoAlarmIsFalse == Spec => []NoFalseAlarm
<1>1. Inv => NoFalseAlarm
  BY DEF Inv, DaemonInv
<1> QED BY InvHolds, <1>1, PTL

(* It misses none either, if raw rows live at least as long as a window    *)
(* (the 30 days by default are a day less than the longest month).         *)
THEOREM CrossingsAreRecorded ==
  ASSUME RawRet >= WindowLen - 1
  PROVE  Spec => []CrossingsRecorded
<1>1. Inv /\ Complete /\ [Next]_vars => Complete'
  BY CompleteStep DEF Inv
<1>2. Complete => CrossingsRecorded
  BY DEF Complete, CheckIsComplete, CrossingsRecorded
<1> QED BY InitInv, InvHolds, <1>1, <1>2, PTL DEF Spec

(* Of a window the user hears of 80% first, unless telling of it failed,   *)
(* and of nothing unrecorded.                                              *)
THEOREM EightyComesFirst == Spec => []EightyBeforeHundred
<1>1. Inv => EightyBeforeHundred
  BY DEF Inv, AgentInv
<1> QED BY InvHolds, <1>1, PTL

(* A threshold is notified at most once by each agent that is not silent,  *)
(* and once more for every agent killed and every sentinel not written.    *)
THEOREM NotifiedOnceEach == Spec => []NotifiedOnce
<1>1. Inv => NotifiedOnce
  <2> SUFFICES ASSUME Inv, NEW e \in Events PROVE shown[e] <= Cardinality(Heard) + deaths + unmarked
    BY DEF NotifiedOnce, Events, Heard
  <2>1. shown[e] + Cardinality(Awaiting(e)) <= Cardinality(Heard) + deaths + unmarked
    BY AtMostAgents DEF Inv, AgentInv
  <2> QED BY <2>1, AgentSets, HeardIsFinite DEF Inv, TypeOK
<1> QED BY InvHolds, <1>1, PTL
=============================================================================
