------------------------------- MODULE Delta -------------------------------
(***************************************************************************)
(* The counter arithmetic of the sampler (src/daemon.rs, `delta` and       *)
(* `max_bytes_per_tick`): how many bytes one tick records for a kernel     *)
(* byte counter read as `old` on the previous tick and as `new` on this    *)
(* one.  A counter that fell has wrapped at 2^32, has been reset (iface    *)
(* flap, ruleset flush, reboot) or is not to be believed.                  *)
(*                                                                         *)
(* The powers of two are constants so that TLC can run on small ones; the  *)
(* proofs in SamplerProofs use only DeltaAssumption.                         *)
(***************************************************************************)
EXTENDS Integers

CONSTANTS
  U32,            \* 2^32 in the code
  U64,            \* 2^64 in the code
  MiB,            \* 1024 * 1024: a fallen counter below it counts as a reset
  BytesPerMbit    \* 1_000_000 / 8

ASSUME DeltaAssumption ==
  /\ U32 \in Nat /\ U64 \in Nat /\ MiB \in Nat /\ BytesPerMbit \in Nat
  /\ 0 < MiB /\ MiB < U32 /\ U32 < U64
  /\ 0 < BytesPerMbit

(* u64::saturating_sub *)
SaturatingSub(a, b) == IF a >= b THEN a - b ELSE 0

(* `old` is within one tick's worth of bytes of the 32-bit boundary, so a  *)
(* fall is explained by a wrap.                                            *)
NearWrap(old, maxb) == SaturatingSub(U32, maxb) <= old /\ old < U32

(* Mutant: a fall of the counter to near zero is always taken for a reset. *)
IsReset_IgnoresWrap(old, new, maxb) == new < old /\ new < MiB

IsReset(old, new, maxb) == new < old /\ new < MiB /\ ~NearWrap(old, maxb)

(* Mutant: a plain signed subtraction.                                     *)
Travelled_Unwrapped(old, new) == new - old

(* The distance travelled by a counter that was not reset.  The 64-bit     *)
(* branch is u64::wrapping_sub.                                            *)
Travelled(old, new) ==
  IF new >= old THEN new - old
  ELSE IF old > U32 THEN U64 - old + new
  ELSE U32 - old + new

(* Mutant: no sanity filter on implausible distances.                      *)
Delta_NoSpikeFilter(old, new, maxb) ==
  [bytes |-> IF IsReset(old, new, maxb) THEN new ELSE Travelled(old, new),
   discarded |-> FALSE]

(* Mutant: a spike counts zero without being reported as discarded.        *)
Delta_SilentSpike(old, new, maxb) ==
  [bytes |-> IF IsReset(old, new, maxb) THEN new
             ELSE IF Travelled(old, new) > maxb THEN 0 ELSE Travelled(old, new),
   discarded |-> FALSE]

(* The pair (bytes, discarded) that `delta` returns.                       *)
Delta(old, new, maxb) ==
  IF IsReset(old, new, maxb) THEN [bytes |-> new, discarded |-> FALSE]
  ELSE IF Travelled(old, new) > maxb THEN [bytes |-> 0, discarded |-> TRUE]
  ELSE [bytes |-> Travelled(old, new), discarded |-> FALSE]

(* The most bytes a link of `mbit` Mbit/s can carry in one poll interval,  *)
(* with a slack of 1.25.  `mbit` is the link speed of sysfs or, when that  *)
(* cannot be read as a number (Wi-Fi, link down, the pseudo interface      *)
(* "lan"), the configured max_rate_mbit.                                   *)
MaxBytesPerTick(mbit, interval) ==
  ((IF mbit > 1 THEN mbit ELSE 1) * BytesPerMbit * interval * 5) \div 4
=============================================================================
