---------------------------- MODULE MCExtension ----------------------------
(* Small instances of Extension: two polls may overlap.                    *)
EXTENDS Extension

CONSTANTS first, second
=============================================================================
