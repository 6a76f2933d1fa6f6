------------------------------ MODULE MCBudget ------------------------------
(* Small instances of Budget: of a limit of 5, 4 is 80%.                   *)
EXTENDS Budget

CONSTANTS session, byHand, headless
=============================================================================
