--------------------------- MODULE TrafficLedger ----------------------------
(***************************************************************************)
(* What the storage of netmeter promises its readers (PRD section 8): rows *)
(* are recorded, and from time to time everything recorded so far is       *)
(* published into history.  Nothing recorded is ever lost, and nothing     *)
(* leaves history.  Store implements it.                                   *)
(***************************************************************************)
VARIABLES
  recorded,   \* every row committed so far
  history     \* those that the daily and monthly tables count

LInit == recorded = {} /\ history = {}

Record == recorded \subseteq recorded' /\ history' = history

Publish == history' = recorded /\ recorded' = recorded

LNext == Record \/ Publish

LSpec == LInit /\ [][LNext]_<<recorded, history>>
=============================================================================
