------------------------------ MODULE Sampler ------------------------------
(***************************************************************************)
(* The tick loop of the daemon (src/daemon.rs, `run`) against the kernel's *)
(* interface byte counters: which bytes carried by an interface end up in  *)
(* the rows it writes to `samples`.                                        *)
(*                                                                         *)
(* The kernel side is nondeterministic: traffic flows, a driver resets its *)
(* counters, interfaces vanish and come back with counters at zero, 32-bit *)
(* counters wrap.  The daemon side keeps the readings of its last tick in  *)
(* `prev`, in memory only, and adds what Delta makes of two successive     *)
(* readings.                                                               *)
(***************************************************************************)
EXTENDS Delta, FiniteSets

CONSTANTS
  Iface,        \* the interfaces that exclude_ifaces does not match
  Dir,          \* directions of a counter: "rx", "tx"
  Width,        \* Width[i]: where the counters of i wrap, U32 or U64
  MaxB,         \* MaxB[i]: max_bytes_per_tick of i
  FlowSizes,    \* how many bytes flow at once
  InitCounter,  \* what counters may show when the daemon starts
  MaxBytes,     \* bound: bytes carried per interface and direction
  MaxFlaps,     \* bound: counter resets in a behaviour
  MaxLapses     \* bound: failed statements on meta.discarded_samples

ASSUME SamplerAssumption ==
  /\ Width \in [Iface -> {U32, U64}]
  /\ MaxB \in [Iface -> Nat] /\ \A i \in Iface : U32 + MaxB[i] < U64
  /\ FlowSizes \subseteq 1..(U32 - 1)
  /\ InitCounter \subseteq 0..(U32 - 1)
  /\ MaxBytes \in Nat /\ MaxFlaps \in Nat /\ MaxLapses \in Nat

ASSUME FiniteIface == IsFiniteSet(Iface)

VARIABLES
  present,      \* interfaces that /proc/net/dev lists
  counter,      \* counter[i][d]: the kernel's byte counter
  prev,         \* readings of the previous tick, by interface
  recorded,     \* recorded[i][d]: bytes in the rows of `samples`
  discarded     \* meta.discarded_samples

(* What only an observer of both sides knows.                              *)
VARIABLES
  carried,      \* carried[i][d]: bytes the interface really carried
  since,        \* those of them carried since the last tick
  flapped,      \* flapped[i]: the counters were reset since the last tick
  flaps,        \* how many resets so far
  owed,         \* bytes of the intervals the daemon could measure
  slack,        \* bytes that resets near the 32-bit boundary may have added
  lost,         \* measured intervals of a sound counter that left no bytes
  lapses        \* failed reads and writes of meta.discarded_samples

kernelVars == <<present, counter>>
daemonVars == <<prev, recorded, discarded>>
observerVars == <<carried, since, flapped, flaps, owed, slack, lost, lapses>>
vars == <<kernelVars, daemonVars, observerVars>>

Zero == [i \in Iface |-> [d \in Dir |-> 0]]

NoReadings == [i \in {} |-> [d \in Dir |-> 0]]

Init ==
  /\ present \in SUBSET Iface
  /\ counter \in [Iface -> [Dir -> InitCounter]]
  /\ prev = NoReadings
  /\ recorded = Zero
  /\ discarded = 0
  /\ carried = Zero
  /\ since = Zero
  /\ flapped = [i \in Iface |-> FALSE]
  /\ flaps = 0
  /\ owed = Zero
  /\ slack = Zero
  /\ lost = 0
  /\ lapses = 0

-----------------------------------------------------------------------------
(* The kernel.                                                             *)

Wrapped(i, c) == IF c >= Width[i] THEN c - Width[i] ELSE c

(* n bytes flow.  No counter comes near 2^64.                              *)
Flow(i, d, n) ==
  /\ i \in present
  /\ carried[i][d] + n <= MaxBytes
  /\ Width[i] = U64 => counter[i][d] + n + MaxB[i] < U64
  /\ counter' = [counter EXCEPT ![i][d] = Wrapped(i, @ + n)]
  /\ carried' = [carried EXCEPT ![i][d] = @ + n]
  /\ since' = [since EXCEPT ![i][d] = @ + n]
  /\ UNCHANGED <<present, daemonVars, flapped, flaps, owed, slack, lost, lapses>>

ResetCounters(i) ==
  /\ flaps < MaxFlaps
  /\ counter' = [counter EXCEPT ![i] = [d \in Dir |-> 0]]
  /\ flapped' = [flapped EXCEPT ![i] = TRUE]
  /\ flaps' = flaps + 1
  /\ UNCHANGED <<daemonVars, carried, since, owed, slack, lost, lapses>>

(* Interface down/up or a driver reset: the counters restart from zero.    *)
Flap(i) == i \in present /\ ResetCounters(i) /\ UNCHANGED present

(* A tether or VPN interface comes (back) under its name, counters at zero. *)
Appear(i) == i \notin present /\ ResetCounters(i) /\ present' = present \cup {i}

Vanish(i) ==
  /\ i \in present
  /\ present' = present \ {i}
  /\ UNCHANGED <<counter, daemonVars, observerVars>>

-----------------------------------------------------------------------------
(* The daemon.                                                             *)

(* The interfaces for which this tick has a reading and a previous one.    *)
Measured(totals) == totals \cap DOMAIN prev

TickDelta(i, d) == Delta(prev[i][d], counter[i][d], MaxB[i])

Spiked(i) == \E d \in Dir : TickDelta(i, d).discarded

(* meta.discarded_samples goes up by the number of interfaces with a spike. *)
(* The errors of both statements are ignored: a count that cannot be read  *)
(* is taken for 0, one that cannot be written stays.                       *)
NoteDiscarded(totals) ==
  LET n == Cardinality({i \in Measured(totals) : Spiked(i)})
  IN  \/ discarded' = discarded + n /\ lapses' = lapses
      \/ /\ n > 0 /\ lapses < MaxLapses
         /\ lapses' = lapses + 1
         /\ discarded' \in {n, discarded}

(* Mutant: a discarded spike keeps the old baseline.                       *)
Sample_KeepsBaseline(totals) ==
  /\ recorded' = [i \in Iface |-> [d \in Dir |->
       recorded[i][d] + IF i \in Measured(totals) THEN TickDelta(i, d).bytes ELSE 0]]
  /\ NoteDiscarded(totals)
  /\ prev' = [i \in totals |->
       IF i \in Measured(totals) /\ Spiked(i) THEN prev[i] ELSE counter[i]]

(* A tick that measures.  The readings become the new baseline whether or  *)
(* not a delta was discarded, so an interface that is missing from this    *)
(* reading has no baseline on the next tick.                               *)
Sample(totals) ==
  /\ recorded' = [i \in Iface |-> [d \in Dir |->
       recorded[i][d] + IF i \in Measured(totals) THEN TickDelta(i, d).bytes ELSE 0]]
  /\ NoteDiscarded(totals)
  /\ prev' = [i \in totals |-> counter[i]]

(* An interval the daemon can measure: a baseline, counters that were not  *)
(* reset, and no more traffic than the link can carry.                     *)
Measurable(totals, i, d) ==
  i \in Measured(totals) /\ ~flapped[i] /\ since[i][d] <= MaxB[i]

(* A reset hidden by the closeness of the old reading to the boundary.     *)
Exposed(totals, i, d) ==
  i \in Measured(totals) /\ flapped[i] /\ NearWrap(prev[i][d], MaxB[i])

(* The bytes of a 64-bit counter that was not reset left no trace.         *)
Lost(totals) ==
  {i \in Measured(totals) :
     /\ Width[i] = U64 /\ ~flapped[i]
     /\ \E d \in Dir : since[i][d] > 0 /\ recorded'[i][d] = recorded[i][d]}

ObserveTick(totals) ==
  /\ owed' = [i \in Iface |-> [d \in Dir |->
       owed[i][d] + IF Measurable(totals, i, d) THEN since[i][d] ELSE 0]]
  /\ slack' = [i \in Iface |-> [d \in Dir |->
       slack[i][d] + IF Exposed(totals, i, d) THEN MaxB[i] ELSE 0]]
  /\ since' = Zero
  /\ flapped' = [i \in Iface |-> FALSE]
  /\ lost' = lost + Cardinality(Lost(totals))
  /\ UNCHANGED <<carried, flaps>>

(* /proc/net/dev is read whole, or not at all.                             *)
Tick ==
  \E totals \in {present, {}} :
    Sample(totals) /\ ObserveTick(totals) /\ UNCHANGED kernelVars

(* The tick after a sleep longer than twice the interval plus 5 s takes no *)
(* sample and clears the baseline; a restarted daemon, after a stop, a     *)
(* crash or an error between the reading and the commit, has none either.  *)
(* A tick that ends so may have noted its spikes already.                  *)
LoseBaseline ==
  /\ prev' = NoReadings
  /\ \E totals \in {present, {}} : NoteDiscarded(totals)
  /\ UNCHANGED <<kernelVars, recorded>>
  /\ ObserveTick({})

Next ==
  \/ \E i \in Iface, d \in Dir, n \in FlowSizes : Flow(i, d, n)
  \/ \E i \in Iface : Flap(i) \/ Appear(i) \/ Vanish(i)
  \/ Tick
  \/ LoseBaseline

Spec == Init /\ [][Next]_vars

-----------------------------------------------------------------------------
(* Correctness.                                                            *)

Amounts == [Iface -> [Dir -> Nat]]

(* What the counters of i can show: a 64-bit one is never near its limit.  *)
IsReading(i, c) == c < Width[i] /\ (Width[i] = U64 => c + MaxB[i] < U64)

TypeOK ==
  /\ present \subseteq Iface
  /\ counter \in Amounts
  /\ \A i \in Iface, d \in Dir : IsReading(i, counter[i][d])
  /\ DOMAIN prev \subseteq Iface
  /\ prev \in [DOMAIN prev -> [Dir -> Nat]]
  /\ \A i \in DOMAIN prev, d \in Dir : IsReading(i, prev[i][d])
  /\ recorded \in Amounts /\ carried \in Amounts /\ since \in Amounts
  /\ owed \in Amounts /\ slack \in Amounts
  /\ discarded \in Nat /\ flaps \in Nat /\ lost \in Nat /\ lapses \in Nat
  /\ flapped \in [Iface -> BOOLEAN]

(* The baseline explains the reading: since the last tick a counter that   *)
(* was not reset has moved by exactly the bytes carried, give or take laps *)
(* of a 32-bit counter, and one that was reset shows no more than was      *)
(* carried.  Both are lost if any path of the tick takes a reading without *)
(* making it the baseline, as after a discarded spike.                     *)
BaselineExplainsReading ==
  \A i \in Iface, d \in Dir :
    /\ flapped[i] => counter[i][d] <= since[i][d]
    /\ i \in DOMAIN prev /\ ~flapped[i] =>
         LET ahead == prev[i][d] + since[i][d] - counter[i][d]
         IN  \/ ahead = 0
             \/ Width[i] = U32 /\ ahead = U32
             \/ Width[i] = U32 /\ ahead > U32 /\ since[i][d] >= U32

(* Phantom traffic (PRD section 7) is bounded: whatever flows, wraps,      *)
(* flaps, vanishes and comes back, and whenever the daemon restarts, the   *)
(* rows never hold more bytes than were carried, save one tick's maximum   *)
(* for each reset of a counter that stood within one tick of 2^32          *)
(* (`near_wrap`, daemon.rs:38).                                            *)
PhantomBounded ==
  \A i \in Iface, d \in Dir : recorded[i][d] + since[i][d] <= carried[i][d] + slack[i][d]

(* Every byte of a measurable interval is recorded: neither a wrap of a    *)
(* 32-bit counter nor the spike filter loses plausible traffic.            *)
MeasurableIsRecorded ==
  \A i \in Iface, d \in Dir :
    MaxB[i] < Width[i] => recorded[i][d] >= owed[i][d]

(* The measured traffic of a 64-bit counter that was not reset is lost only *)
(* to the spike filter, and discarded_samples, which `status` shows, has   *)
(* counted every such loss as long as no statement on it has failed.       *)
LossIsCounted == lapses = 0 => lost <= discarded

-----------------------------------------------------------------------------
(* What PRD.md says of the sampler.                                        *)

(* PRD.md:109, of the plausible-rate bound: "Prevents 4GB-phantom bug";    *)
(* daemon.rs:39: "reset: counter dropped to ~zero (iface flap / reboot)".  *)
NoPhantomTraffic ==
  \A i \in Iface, d \in Dir : recorded[i][d] <= carried[i][d]
=============================================================================
