----------------------------- MODULE MCNftWatch -----------------------------
(* Small instances of NftWatch: a reinstall after three ticks instead of   *)
(* twelve, which leaves room for one, two, three and more failed readings. *)
EXTENDS NftWatch
=============================================================================
