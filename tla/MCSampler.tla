----------------------------- MODULE MCSampler -----------------------------
(* Small instances of Sampler: 2^32 is 8, 1 MiB is 2 and 2^64 is 64.       *)
EXTENDS Sampler, TLC

CONSTANTS eth, wlan

(* eth has 32-bit counters, wlan has 64-bit counters.                      *)
BothWidths == eth :> U32 @@ wlan :> U64
WlanWidth == wlan :> U64

BothSlow == eth :> 3 @@ wlan :> 3
(* max_rate_mbit = 10000 over 5 s is 1.8 times 2^32                        *)
WlanFast == wlan :> 14

(* Plausible and implausible flows, one of them most of a lap              *)
Flows == {3, 7}
FastFlows == {2, 5}

Starts == {6}
WlanStarts == {1, 6}
=============================================================================
