-------------------------- MODULE MCImportedStore --------------------------
(* Small instances of ImportedStore: days of four units, hours of two.     *)
EXTENDS ImportedStore

CONSTANTS eth

OnePoll == {1}
=============================================================================
