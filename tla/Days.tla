-------------------------------- MODULE Days --------------------------------
(***************************************************************************)
(* The calendar days of Store (floor_day of src/db.rs), which the daily    *)
(* table, its views and the import all go by.  A day has a fixed length    *)
(* here: no daylight saving.                                               *)
(***************************************************************************)
EXTENDS Store

CONSTANT DayLen       \* length of a bucket of the daily table

ASSUME DaysAssumption == DayLen \in Nat \ {0}

DayOf(t) == t - (t % DayLen)

DaysSoFar == {DayOf(t) : t \in 0 .. now}
=============================================================================
