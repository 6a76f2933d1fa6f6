---------------------------- MODULE WatchProofs ----------------------------
(***************************************************************************)
(* The two small loops of netmeter, for every bound.                       *)
(*                                                                         *)
(* Part 1: the watch of the daemon over the nft table, for any number of   *)
(* missing ticks before a reinstall, whichever commands fail and however   *)
(* often others flush.  Part 2: the polls of the GNOME Shell extension,    *)
(* for any number of them under way at once, settings changed and lives    *)
(* between enable() and disable().                                         *)
(***************************************************************************)
EXTENDS NftWatch, Extension, TLAPS

USE NftAssumption DEF NftAssumption, budgets, readings

-----------------------------------------------------------------------------
(* Part 1: the nft table.                                                  *)

PCs ==
  {"down", "startCheck", "startDestroy", "startCreate", "asleep", "publish", "count",
   "check", "destroy", "create", "measure"}

Flags ==
  /\ pc \in PCs
  /\ table \in BOOLEAN /\ lanNow \in BOOLEAN /\ prevLan \in BOOLEAN
  /\ seen \in BOOLEAN /\ rebuilt \in BOOLEAN
  /\ missing \in Nat /\ strikes \in Nat

(* nft_missing_ticks is no more than the failures in a row, of which Read  *)
(* counts this tick's before Count does.                                   *)
MissingIsInARow ==
  /\ seen /\ pc \notin {"down", "publish", "count"} => strikes >= missing
  /\ seen /\ pc \in {"publish", "count"} /\ ~lanNow => strikes >= missing + 1
  /\ pc = "check" => missing = ReinstallAfter

(* A table is replaced only on a tick without a reading, whose end drops   *)
(* the baseline from before, or when there is no baseline yet.             *)
WatchInv ==
  /\ Flags
  /\ MissingIsInARow
  /\ HealthyCountersKept
  /\ pc \in {"startCheck", "startDestroy", "startCreate"} => ~prevLan
  /\ pc \in {"check", "destroy", "create"} => ~lanNow
  /\ rebuilt /\ prevLan => pc = "down" \/ (pc \in {"create", "measure"} /\ ~lanNow)

(* Nothing has been read at first.                                         *)
LEMMA WatchInit == Init => WatchInv
<1> SUFFICES ASSUME Init PROVE WatchInv
  OBVIOUS
<1>1. pc = "down" /\ missing \in Nat /\ strikes \in Nat
  BY DEF Init
<1>2. Flags
  BY <1>1, Zenon DEF Init, Flags, PCs
<1>3. MissingIsInARow /\ HealthyCountersKept
  BY <1>1 DEF MissingIsInARow, HealthyCountersKept
<1> QED BY <1>1, <1>2, <1>3 DEF WatchInv

(* Each step of the daemon, of nft and of others keeps it.                 *)
LEMMA WatchNext == WatchInv /\ [Next]_vars => WatchInv'
<1> SUFFICES ASSUME WatchInv, [Next]_vars PROVE WatchInv'
  OBVIOUS
<1> USE DEF WatchInv, Flags, PCs, MissingIsInARow, HealthyCountersKept
<1>1. CASE Start
  <2>1. /\ pc' = "startCheck" /\ missing' \in Nat /\ strikes' \in Nat /\ ~seen' /\ ~prevLan'
        /\ ~rebuilt'
    BY <1>1 DEF Start
  <2>2. Flags'
    BY <1>1, <2>1, Zenon DEF Start
  <2> QED BY <2>1, <2>2
<1>2. CASE Read
  <2>1. lanNow' = table \/ lanNow' = FALSE
    BY <1>2, Zenon DEF Read, Answers
  <2>2. lanNow' \in BOOLEAN
    BY <2>1, Zenon
  <2>3. seen' = (seen \/ lanNow') /\ seen' \in BOOLEAN
    BY <1>2, <2>2, Zenon DEF Read
  <2>4. strikes' = IF seen /\ ~lanNow' THEN strikes + 1 ELSE 0
    BY <1>2, Zenon DEF Read
  <2>5. pc = "asleep" /\ pc' = "publish" /\ UNCHANGED <<table, prevLan, missing, rebuilt>>
    BY <1>2 DEF Read
  <2>6. seen' /\ ~lanNow' => seen
    BY <2>3, Zenon
  <2>7. seen' /\ ~lanNow' => strikes' >= missing' + 1
    BY <2>4, <2>5, <2>6
  <2> QED BY <2>2, <2>3, <2>4, <2>5, <2>7
<1>3. CASE Publish
  BY <1>3 DEF Publish
<1>4. CASE Count
  BY <1>4 DEF Count, MissingAfter, Suspicious
<1>5. CASE Check
  <2>1. PICK found \in BOOLEAN :
          /\ strikes' = IF seen /\ ~found THEN strikes + 1 ELSE strikes
          /\ pc' = CASE ~found /\ pc = "startCheck" -> "startDestroy"
                     [] ~found /\ pc = "check" -> "destroy"
                     [] found /\ pc = "startCheck" -> "asleep"
                     [] found /\ pc = "check" -> "measure"
    BY <1>5 DEF Check
  <2>2. /\ pc \in {"startCheck", "check"}
        /\ UNCHANGED <<table, lanNow, prevLan, missing, seen, rebuilt>>
    BY <1>5 DEF Check
  <2> QED BY <2>1, <2>2
<1>6. CASE Destroy
  <2>1. /\ pc \in {"startDestroy", "destroy"}
        /\ pc' = IF pc = "destroy" THEN "create" ELSE "startCreate"
        /\ UNCHANGED <<lanNow, prevLan, missing>>
    BY <1>6 DEF Destroy
  <2>2. CASE UNCHANGED <<table, seen, strikes, rebuilt>>
    BY <2>1, <2>2
  <2>3. CASE table' = FALSE /\ seen' = FALSE /\ strikes' = 0 /\ rebuilt' = TRUE
    <3>1. Flags'
      BY <2>1, <2>3
    <3> QED BY <2>1, <2>3, <3>1
  <2> QED BY <1>6, <2>2, <2>3 DEF Destroy
<1>7. CASE Create
  BY <1>7 DEF Create
<1>8. CASE Measure
  BY <1>8 DEF Measure, NewBaseline
<1>9. CASE Gap
  BY <1>9 DEF Gap, Answers
<1>10. CASE Crash
  BY <1>10 DEF Crash
<1>11. CASE Flush
  BY <1>11 DEF Flush
<1>12. CASE InstallByHand
  BY <1>12 DEF InstallByHand
<1>13. CASE UNCHANGED vars
  BY <1>13 DEF vars
<1> QED
  BY <1>1, <1>2, <1>3, <1>4, <1>5, <1>6, <1>7, <1>8, <1>9, <1>10, <1>11, <1>12, <1>13
  DEF Next, Tick

(* WatchInv holds in every state, whatever nft and others do.              *)
THEOREM WatchInvariant == Spec => []WatchInv
<1>1. Init => WatchInv
  BY WatchInit
<1>2. WatchInv /\ [Next]_vars => WatchInv'
  BY WatchNext
<1> QED BY <1>1, <1>2, PTL DEF Spec

(* The daemon never takes down a table whose counters a tick has read,     *)
(* before nft has failed to show them on as many ticks in a row as the     *)
(* code asks for, and once more: for every such number, whatever fails, is *)
(* flushed and comes back, and through gaps and crashes.                   *)
THEOREM WatchHealthyCountersKept == Spec => []HealthyCountersKept
<1>1. WatchInv => HealthyCountersKept
  BY DEF WatchInv
<1> QED BY <1>1, WatchInvariant, PTL

(* No LAN delta is taken between the counters of two tables, one of which  *)
(* the daemon put in place of the other.                                   *)
THEOREM WatchNoDeltaAcrossReinstall == Spec => []NoDeltaAcrossReinstall
<1>1. WatchInv => NoDeltaAcrossReinstall
  BY DEF WatchInv, NoDeltaAcrossReinstall
<1> QED BY <1>1, WatchInvariant, PTL

-----------------------------------------------------------------------------
(* Part 2: the extension.                                                  *)

(* What enable() sets up and disable() tears down comes and goes as one,   *)
(* the timer too: without that a timer could fire, or a late poll finish,  *)
(* on half of it.                                                          *)
ExtensionInv ==
  /\ enabled \in BOOLEAN
  /\ settings = enabled /\ widgets = enabled /\ timeoutId = enabled
  /\ NothingTornDownIsUsed
  /\ OneTimerWhileEnabled
  /\ LabelFollowsModel

(* The timer that runs, if any, is replaced: one runs afterwards.          *)
LEMMA StartTimerLeavesOne ==
  ASSUME ExtensionInv, StartTimer
  PROVE  sources' = 1 /\ timeoutId' = TRUE
  BY DEF ExtensionInv, StartTimer, OneTimerWhileEnabled

(* The shell loads the extension disabled.                                 *)
LEMMA ExtensionInit == EInit => ExtensionInv
  BY DEF EInit, ExtensionInv, NothingTornDownIsUsed, OneTimerWhileEnabled, LabelFollowsModel

(* Neither the shell, nor a user, nor an answer that comes late breaks it. *)
LEMMA ExtensionNext == ExtensionInv /\ [ENext]_evars => ExtensionInv'
<1> SUFFICES ASSUME ExtensionInv, [ENext]_evars PROVE ExtensionInv'
  OBVIOUS
<1> USE DEF ExtensionInv, NothingTornDownIsUsed, OneTimerWhileEnabled, LabelFollowsModel
<1>1. CASE Enable
  <2>1. sources' = 1 /\ timeoutId' = TRUE
    BY <1>1, StartTimerLeavesOne DEF Enable
  <2>2. label' = Label(showLabel', model')
    BY <1>1 DEF Enable, Label
  <2>3. enabled' = TRUE /\ settings' = TRUE /\ widgets' = TRUE /\ failed' = failed
    BY <1>1 DEF Enable
  <2> QED BY <2>1, <2>2, <2>3
<1>2. CASE Disable
  <2>1. sources = 1 /\ timeoutId
    BY <1>2 DEF Disable
  <2>2. sources' = 0
    BY <1>2, <2>1 DEF Disable
  <2>3. enabled' = FALSE /\ settings' = FALSE /\ widgets' = FALSE /\ timeoutId' = FALSE
        /\ failed' = failed
    BY <1>2 DEF Disable
  <2> QED BY <2>2, <2>3
<1>3. CASE ChangeLabelSetting
  <2>1. enabled => sources' = 1 /\ timeoutId' = TRUE
    BY <1>3, StartTimerLeavesOne DEF ChangeLabelSetting
  <2> QED BY <1>3, <2>1 DEF ChangeLabelSetting
<1>4. CASE ChangeOtherSetting
  <2>1. enabled => sources' = 1 /\ timeoutId' = TRUE
    BY <1>4, StartTimerLeavesOne DEF ChangeOtherSetting
  <2>2. UNCHANGED <<enabled, settings, widgets, model, label, showLabel, failed>>
        /\ (~enabled => UNCHANGED <<sources, timeoutId>>)
    BY <1>4 DEF ChangeOtherSetting
  <2> QED BY <2>1, <2>2
<1>5. CASE Record \/ RollUp \/ UpOrDown
  BY <1>5 DEF Record, RollUp, UpOrDown, shell
<1>6. ASSUME NEW s \in Slot, Fire(s) PROVE ExtensionInv'
  <2>1. enabled
    BY <1>6 DEF Fire
  <2>2. UNCHANGED shell /\ showLabel' = showLabel /\ ~failed'
    BY <1>6, <2>1, Zenon DEF Fire
  <2> QED BY <2>2 DEF shell
<1>7. ASSUME NEW s \in Slot, Finish(s) PROVE ExtensionInv'
  BY <1>7 DEF Finish
<1>8. ASSUME NEW s \in Slot, NEW q \in Query, Reply(s, q) \/ Fail(s, q)
      PROVE  ExtensionInv'
  BY <1>8 DEF Reply, Fail, shell
<1>9. CASE UNCHANGED evars
  BY <1>9 DEF evars, shell
<1> QED
  BY <1>1, <1>2, <1>3, <1>4, <1>5, <1>6, <1>7, <1>8, <1>9 DEF ENext

(* ExtensionInv holds in every state, whenever the shell disables it.      *)
THEOREM ExtensionInvariant == ESpec => []ExtensionInv
<1>1. EInit => ExtensionInv
  BY ExtensionInit
<1>2. ExtensionInv /\ [ENext]_evars => ExtensionInv'
  BY ExtensionNext
<1> QED BY <1>1, <1>2, PTL DEF ESpec

(* No step uses what disable() has torn down: neither a timer that fires   *)
(* nor a poll that was under way, in this life of the extension or an      *)
(* earlier one.                                                            *)
THEOREM ExtensionUsesNothingTornDown == ESpec => []NothingTornDownIsUsed
<1>1. ExtensionInv => NothingTornDownIsUsed
  BY DEF ExtensionInv
<1> QED BY <1>1, ExtensionInvariant, PTL

(* Exactly one timer polls while the extension is enabled and none while   *)
(* it is not, however often settings change and it is toggled.             *)
THEOREM ExtensionHasOneTimer == ESpec => []OneTimerWhileEnabled
<1>1. ExtensionInv => OneTimerWhileEnabled
  BY DEF ExtensionInv
<1> QED BY <1>1, ExtensionInvariant, PTL

(* The panel label shows what the model and the setting say, also after a  *)
(* poll of an earlier life has replaced the model.                         *)
THEOREM ExtensionLabelFollows == ESpec => []LabelFollowsModel
<1>1. ExtensionInv => LabelFollowsModel
  BY DEF ExtensionInv
<1> QED BY <1>1, ExtensionInvariant, PTL
=============================================================================
