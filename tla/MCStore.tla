------------------------------ MODULE MCStore ------------------------------
(* Small instances of Store with the views and the apps over it.  A rollup *)
(* interval is a little over an hour of two units; a day is two hours, a   *)
(* week two days and a month three; raw rows live for a day, hourly        *)
(* buckets for one more unit, and apps for a day, the least there is.      *)
EXTENDS TopApps, TLC

CONSTANTS eth, wlan

(* A poll interval, and a sleep long enough to count as a gap              *)
SleepAndGap == {1, 3}

(* No definition tells one interface from another                          *)
IfaceSymmetry == Permutations(Iface)
=============================================================================
