--------------------------- MODULE SamplerProofs ---------------------------
(***************************************************************************)
(* Part 1: what `delta` promises for every pair of counter readings and    *)
(* every plausible-rate bound, facts of linear arithmetic by the cases the *)
(* code distinguishes.                                                     *)
(*                                                                         *)
(* Part 2: what the sampler records, for every set of interfaces, counter  *)
(* widths, link speeds and traffic: no phantom bytes beyond `slack`, and   *)
(* nothing measurable lost.  The inductive invariant adds to the two       *)
(* properties that a reading is explained by the baseline it will be       *)
(* compared with.                                                          *)
(***************************************************************************)
EXTENDS Sampler, FiniteSetTheorems, TLAPS

-----------------------------------------------------------------------------
(* Part 1.                                                                 *)

(* A counter reading is a u64.                                             *)
Reading == 0..(U64 - 1)

(* The result is a byte count and a flag; a discarded sample counts zero.  *)
LEMMA DeltaType ==
  ASSUME NEW old \in Reading, NEW new \in Reading, NEW maxb \in Nat
  PROVE  /\ Delta(old, new, maxb).bytes \in Nat
         /\ Delta(old, new, maxb).discarded \in BOOLEAN
         /\ Delta(old, new, maxb).discarded => Delta(old, new, maxb).bytes = 0
  BY DeltaAssumption
     DEF DeltaAssumption, Delta, IsReset, Travelled, NearWrap, SaturatingSub, Reading

(* No tick ever records more than the plausible maximum of the link, or    *)
(* less than 1 MiB for a reset (the branch of daemon.rs:40-42 that the     *)
(* spike filter does not guard).                                           *)
THEOREM DeltaBounded ==
  ASSUME NEW old \in Reading, NEW new \in Reading, NEW maxb \in Nat
  PROVE  \/ Delta(old, new, maxb).bytes <= maxb
         \/ Delta(old, new, maxb).bytes < MiB
  BY DeltaAssumption
     DEF DeltaAssumption, Delta, IsReset, Travelled, NearWrap, SaturatingSub, Reading

(* A counter that carried n bytes since the last tick, n plausible for the *)
(* link and less than one lap, is measured exactly, whether or not it      *)
(* wrapped, and the tick is not discarded.  `width` is where the driver's  *)
(* counter wraps, 2^32 or 2^64; a 64-bit counter is never seen to wrap.    *)
THEOREM DeltaExact ==
  ASSUME NEW width \in {U32, U64},
         NEW old \in 0..(width - 1), NEW n \in 0..(width - 1), NEW maxb \in Nat,
         n <= maxb, width = U32 \/ old + n < width,
         NEW new \in Nat,
         new = old + n \/ (old + n >= width /\ new = old + n - width)
  PROVE  /\ Delta(old, new, maxb).bytes = n
         /\ ~Delta(old, new, maxb).discarded
<1>1. CASE new = old + n
  <2>1. ~IsReset(old, new, maxb) /\ Travelled(old, new) = n
    BY <1>1, DeltaAssumption DEF DeltaAssumption, IsReset, Travelled
  <2> QED BY <2>1 DEF Delta
<1>2. CASE old + n >= width /\ new = old + n - width
  <2>1. /\ width = U32 /\ new = old + n - U32 /\ new < old
        /\ NearWrap(old, maxb)
    BY <1>2, DeltaAssumption DEF DeltaAssumption, NearWrap, SaturatingSub
  <2>2. ~IsReset(old, new, maxb) /\ Travelled(old, new) = n
    BY <2>1, DeltaAssumption DEF DeltaAssumption, IsReset, Travelled
  <2> QED BY <2>2 DEF Delta
<1> QED BY <1>1, <1>2

(* Away from the two boundaries a fallen counter never adds more than its  *)
(* new value: bytes that the counter itself has counted since it fell, so  *)
(* no phantom traffic (PRD section 7).                                     *)
THEOREM NoPhantomOffBoundary ==
  ASSUME NEW old \in Reading, NEW new \in Reading, NEW maxb \in Nat,
         new < old, ~NearWrap(old, maxb), old + maxb < U64
  PROVE  Delta(old, new, maxb).bytes <= new
  BY DeltaAssumption
     DEF DeltaAssumption, Delta, IsReset, Travelled, NearWrap, SaturatingSub, Reading

(* The widest a plausible-rate bound may be for a reset of any counter     *)
(* below 2^32 - maxb to be recognised: with maxb >= 2^32, the default of   *)
(* 10 Gbit/s over 5 s included, every reset of a counter below 2^32 is     *)
(* taken for a wrap.                                                       *)
THEOREM FastLinkSeesOnlyWraps ==
  ASSUME NEW old \in 0..(U32 - 1), NEW new \in Nat, NEW maxb \in Nat,
         U32 <= maxb, new < old
  PROVE  /\ Delta(old, new, maxb).bytes = U32 - old + new
         /\ ~Delta(old, new, maxb).discarded
<1>1. NearWrap(old, maxb)
  BY DeltaAssumption DEF DeltaAssumption, NearWrap, SaturatingSub
<1>2. Travelled(old, new) = U32 - old + new /\ Travelled(old, new) <= maxb
  BY DeltaAssumption DEF DeltaAssumption, Travelled
<1> QED BY <1>1, <1>2, DeltaAssumption DEF DeltaAssumption, Delta, IsReset

-----------------------------------------------------------------------------
(* Part 2.                                                                 *)

USE DeltaAssumption, SamplerAssumption DEF DeltaAssumption, SamplerAssumption

(* The inductive invariant: the readings must be known to be explained by  *)
(* the baselines for the two bounds on what a tick records to be kept.     *)
IndInv ==
  /\ TypeOK
  /\ BaselineExplainsReading
  /\ PhantomBounded
  /\ MeasurableIsRecorded

(* One tick, one direction of one interface: the delta of two readings is  *)
(* at most the bytes carried between them, plus maxb when a reset was      *)
(* hidden by the closeness of `old` to 2^32.                               *)
LEMMA TickPhantom ==
  ASSUME NEW width \in {U32, U64}, NEW maxb \in Nat, NEW carriedNow \in Nat,
         NEW old \in Nat, NEW new \in Nat, NEW reset \in BOOLEAN,
         old < width, new < width, width = U64 => old + maxb < U64,
         reset => new <= carriedNow,
         ~reset => \/ old + carriedNow - new = 0
                   \/ width = U32 /\ old + carriedNow - new >= U32
  PROVE  Delta(old, new, maxb).bytes
           <= carriedNow + (IF reset /\ NearWrap(old, maxb) THEN maxb ELSE 0)
<1>1. CASE new >= old
  <2>1. Travelled(old, new) = new - old /\ ~IsReset(old, new, maxb)
    BY <1>1 DEF Travelled, IsReset
  <2>2. Delta(old, new, maxb).bytes <= new - old
    BY <1>1, <2>1 DEF Delta
  <2>3. Delta(old, new, maxb).bytes \in Int
    BY <1>1, <2>1 DEF Delta
  <2>4. new - old <= carriedNow
    BY <1>1
  <2> QED BY <2>2, <2>3, <2>4
<1>2. CASE new < old /\ ~reset
  <2>1. width = U32 /\ old + carriedNow - new >= U32 /\ old < U32
    BY <1>2
  <2>2. Travelled(old, new) = U32 - old + new
    BY <1>2, <2>1 DEF Travelled
  <2>3. Delta(old, new, maxb).bytes \in {0, new, U32 - old + new}
    BY <2>2 DEF Delta
  <2> QED BY <1>2, <2>1, <2>3
<1>3. CASE new < old /\ reset
  <2>1. CASE NearWrap(old, maxb)
    <3>1. Delta(old, new, maxb).bytes <= maxb
      BY <1>3, <2>1 DEF Delta, IsReset, Travelled
    <3>2. Delta(old, new, maxb).bytes \in Int
      BY <1>3, <2>1 DEF Delta, IsReset, Travelled
    <3> QED BY <1>3, <2>1, <3>1, <3>2
  <2>2. CASE ~NearWrap(old, maxb)
    <3>1. Travelled(old, new) > maxb \/ Travelled(old, new) = new
      BY <1>3, <2>2 DEF Travelled, NearWrap, SaturatingSub
    <3>2. Delta(old, new, maxb).bytes \in {0, new}
      BY <3>1 DEF Delta
    <3> QED BY <1>3, <2>2, <3>2
  <2> QED BY <2>1, <2>2
<1> QED BY <1>1, <1>2, <1>3

(* One tick, one direction: a measurable interval is measured exactly.     *)
LEMMA TickExact ==
  ASSUME NEW width \in {U32, U64}, NEW maxb \in Nat, NEW carriedNow \in Nat,
         NEW old \in Nat, NEW new \in Nat,
         old < width, new < width, carriedNow <= maxb, maxb < width,
         \/ old + carriedNow - new = 0
         \/ width = U32 /\ old + carriedNow - new = U32
  PROVE  Delta(old, new, maxb).bytes = carriedNow
<1>1. width = U32 \/ old + carriedNow < width
  OBVIOUS
<1>2. \/ new = old + carriedNow
      \/ old + carriedNow >= width /\ new = old + carriedNow - width
  OBVIOUS
<1>3. old \in 0..(width - 1) /\ carriedNow \in 0..(width - 1)
  OBVIOUS
<1> QED BY <1>1, <1>2, <1>3, DeltaExact

(* The state at the start: no baseline, nothing recorded.                  *)
LEMMA InitInv == Init => IndInv
<1> SUFFICES ASSUME Init PROVE IndInv
  OBVIOUS
<1>1. /\ \A i \in Iface, d \in Dir :
           counter[i][d] \in Nat /\ counter[i][d] < U32
      /\ counter \in Amounts
  <2>1. \A c \in InitCounter : c \in Nat /\ c < U32
    OBVIOUS
  <2>2. counter \in [Iface -> [Dir -> InitCounter]]
    BY DEF Init
  <2> QED BY <2>1, <2>2 DEF Amounts
<1>2. Zero \in Amounts /\ \A i \in Iface, d \in Dir : Zero[i][d] = 0
  BY DEF Zero, Amounts
<1>3. DOMAIN prev = {} /\ prev \in [DOMAIN prev -> [Dir -> Nat]]
  BY DEF Init, NoReadings
<1>4. \A i \in Iface, d \in Dir : IsReading(i, counter[i][d])
  BY <1>1 DEF IsReading
<1>5. TypeOK
  BY <1>1, <1>2, <1>3, <1>4 DEF Init, TypeOK
<1>6. BaselineExplainsReading
  BY <1>3 DEF Init, BaselineExplainsReading
<1>7. PhantomBounded /\ MeasurableIsRecorded
  BY <1>2 DEF Init, PhantomBounded, MeasurableIsRecorded
<1> QED BY <1>5, <1>6, <1>7 DEF IndInv

(* Traffic moves the counter and `since` together, modulo a lap.           *)
LEMMA FlowInv ==
  ASSUME IndInv, NEW i \in Iface, NEW d \in Dir, NEW n \in FlowSizes, Flow(i, d, n)
  PROVE  IndInv'
<1> USE DEF IndInv, Flow, daemonVars
<1>1. /\ n \in Nat /\ 0 < n /\ n < U32
      /\ counter[i][d] \in Nat /\ counter[i][d] < Width[i]
      /\ since[i][d] \in Nat /\ carried[i][d] \in Nat
  BY DEF TypeOK, IsReading, Amounts
<1>2. \A j \in Iface, e \in Dir :
        /\ counter'[j][e] = IF j = i /\ e = d THEN Wrapped(i, counter[i][d] + n)
                            ELSE counter[j][e]
        /\ since'[j][e] = IF j = i /\ e = d THEN since[i][d] + n ELSE since[j][e]
        /\ carried'[j][e] = IF j = i /\ e = d THEN carried[i][d] + n ELSE carried[j][e]
  BY DEF TypeOK, Amounts
<1>3. /\ Wrapped(i, counter[i][d] + n) \in Nat
      /\ IsReading(i, Wrapped(i, counter[i][d] + n))
  BY <1>1 DEF Wrapped, IsReading
<1>4. TypeOK'
  BY <1>1, <1>2, <1>3 DEF TypeOK, Amounts, IsReading
<1>5. BaselineExplainsReading'
  <2> SUFFICES ASSUME NEW j \in Iface, NEW e \in Dir
      PROVE /\ flapped[j] => counter'[j][e] <= since'[j][e]
            /\ j \in DOMAIN prev /\ ~flapped[j] =>
                 \/ prev[j][e] + since'[j][e] - counter'[j][e] = 0
                 \/ Width[j] = U32 /\ prev[j][e] + since'[j][e] - counter'[j][e] = U32
                 \/ /\ Width[j] = U32 /\ prev[j][e] + since'[j][e] - counter'[j][e] > U32
                    /\ since'[j][e] >= U32
    BY DEF BaselineExplainsReading
  <2>1. CASE j = i /\ e = d
    <3>1. /\ counter'[j][e] = Wrapped(i, counter[i][d] + n)
          /\ since'[j][e] = since[i][d] + n
      BY <1>2, <2>1
    <3>2. i \in DOMAIN prev => prev[i][d] \in Nat /\ prev[i][d] < Width[i]
      BY DEF TypeOK, IsReading
    <3>3. /\ flapped[i] => counter[i][d] <= since[i][d]
          /\ i \in DOMAIN prev /\ ~flapped[i] =>
               \/ prev[i][d] + since[i][d] - counter[i][d] = 0
               \/ Width[i] = U32 /\ prev[i][d] + since[i][d] - counter[i][d] = U32
               \/ /\ Width[i] = U32 /\ prev[i][d] + since[i][d] - counter[i][d] > U32
                  /\ since[i][d] >= U32
      BY DEF BaselineExplainsReading
    <3>4. Width[i] = U32 \/ Wrapped(i, counter[i][d] + n) = counter[i][d] + n
      BY <1>1 DEF Wrapped
    <3> QED BY <1>1, <2>1, <3>1, <3>2, <3>3, <3>4 DEF Wrapped
  <2>2. CASE ~(j = i /\ e = d)
    BY <1>2, <2>2 DEF BaselineExplainsReading
  <2> QED BY <2>1, <2>2
<1>6. PhantomBounded'
  BY <1>1, <1>2 DEF PhantomBounded, TypeOK, Amounts
<1>7. MeasurableIsRecorded'
  BY DEF MeasurableIsRecorded
<1> QED BY <1>4, <1>5, <1>6, <1>7

(* A reset puts the counters of one interface at zero and is remembered.   *)
LEMMA ResetInv ==
  ASSUME IndInv, NEW i \in Iface, ResetCounters(i), present' \subseteq Iface
  PROVE  IndInv'
<1> USE DEF IndInv, ResetCounters, daemonVars
<1>1. \A j \in Iface, e \in Dir :
        /\ counter'[j][e] = IF j = i THEN 0 ELSE counter[j][e]
        /\ flapped'[j] = (j = i \/ flapped[j])
  BY DEF TypeOK, Amounts
<1>2. TypeOK'
  <2>1. counter' \in Amounts /\ flapped' \in [Iface -> BOOLEAN]
    BY DEF TypeOK, Amounts
  <2>2. \A j \in Iface, e \in Dir : IsReading(j, counter'[j][e])
    BY <1>1 DEF TypeOK, IsReading
  <2> QED BY <2>1, <2>2 DEF TypeOK, Amounts, IsReading
<1>3. BaselineExplainsReading'
  BY <1>1 DEF BaselineExplainsReading, TypeOK, Amounts
<1>4. PhantomBounded' /\ MeasurableIsRecorded'
  BY DEF PhantomBounded, MeasurableIsRecorded
<1> QED BY <1>2, <1>3, <1>4

(* The number of interfaces with a spike is a number, and so the count.    *)
LEMMA CountType ==
  ASSUME TypeOK, NEW totals \in SUBSET Iface, NoteDiscarded(totals)
  PROVE  discarded' \in Nat /\ lapses' \in Nat
<1>1. IsFiniteSet({i \in Measured(totals) : Spiked(i)})
  BY FS_Subset, FiniteIface DEF Measured
<1> QED BY <1>1, FS_CardinalityType DEF NoteDiscarded, TypeOK

LEMMA LostType ==
  ASSUME NEW totals \in SUBSET Iface
  PROVE  Cardinality(Lost(totals)) \in Nat
<1>1. IsFiniteSet(Lost(totals))
  BY FS_Subset, FiniteIface DEF Lost, Measured
<1> QED BY <1>1, FS_CardinalityType

(* A tick that measures the interfaces in totals.                          *)
LEMMA SampleInv ==
  ASSUME IndInv, NEW totals \in SUBSET Iface,
         Sample(totals), ObserveTick(totals), UNCHANGED kernelVars
  PROVE  IndInv'
<1> USE DEF IndInv, kernelVars
<1>1. /\ Zero \in Amounts
      /\ \A i \in Iface, d \in Dir : Zero[i][d] = 0
  BY DEF Zero, Amounts
<1>2. \A i \in Iface, d \in Dir :
        /\ counter[i][d] \in Nat /\ recorded[i][d] \in Nat /\ since[i][d] \in Nat
        /\ carried[i][d] \in Nat /\ owed[i][d] \in Nat /\ slack[i][d] \in Nat
        /\ IsReading(i, counter[i][d]) /\ MaxB[i] \in Nat
        /\ flapped[i] \in BOOLEAN
  BY DEF TypeOK, Amounts
<1>3. \A i \in Iface, d \in Dir : i \in Measured(totals) =>
        /\ i \in DOMAIN prev
        /\ prev[i][d] \in Nat /\ IsReading(i, prev[i][d])
  BY DEF TypeOK, Measured
<1>4. ASSUME NEW i \in Iface, NEW d \in Dir, i \in Measured(totals)
      PROVE  /\ TickDelta(i, d).bytes \in Nat
             /\ TickDelta(i, d).bytes
                  <= since[i][d] + (IF Exposed(totals, i, d) THEN MaxB[i] ELSE 0)
             /\ Measurable(totals, i, d) /\ MaxB[i] < Width[i]
                  => TickDelta(i, d).bytes = since[i][d]
  <2>1. /\ prev[i][d] \in Reading /\ counter[i][d] \in Reading
        /\ prev[i][d] < Width[i] /\ counter[i][d] < Width[i]
        /\ Width[i] \in {U32, U64} /\ (Width[i] = U64 => prev[i][d] + MaxB[i] < U64)
    BY <1>2, <1>3, <1>4 DEF Reading, IsReading
  <2>2. TickDelta(i, d).bytes \in Nat
    BY <1>2, <1>4, <2>1, DeltaType DEF TickDelta
  <2>3. /\ flapped[i] => counter[i][d] <= since[i][d]
        /\ ~flapped[i] =>
             \/ prev[i][d] + since[i][d] - counter[i][d] = 0
             \/ Width[i] = U32 /\ prev[i][d] + since[i][d] - counter[i][d] = U32
             \/ /\ Width[i] = U32 /\ prev[i][d] + since[i][d] - counter[i][d] > U32
                /\ since[i][d] >= U32
    BY <1>3, <1>4 DEF BaselineExplainsReading
  <2>4. TickDelta(i, d).bytes
          <= since[i][d] + (IF flapped[i] /\ NearWrap(prev[i][d], MaxB[i])
                            THEN MaxB[i] ELSE 0)
    <3>1. ~flapped[i] =>
            \/ prev[i][d] + since[i][d] - counter[i][d] = 0
            \/ Width[i] = U32 /\ prev[i][d] + since[i][d] - counter[i][d] >= U32
      BY <1>2, <1>3, <1>4, <2>3
    <3> QED BY <1>2, <1>3, <1>4, <2>1, <2>3, <3>1, TickPhantom DEF TickDelta
  <2>5. ASSUME Measurable(totals, i, d), MaxB[i] < Width[i]
        PROVE  TickDelta(i, d).bytes = since[i][d]
    <3>1. \/ prev[i][d] + since[i][d] - counter[i][d] = 0
          \/ Width[i] = U32 /\ prev[i][d] + since[i][d] - counter[i][d] = U32
      BY <1>2, <1>3, <1>4, <2>1, <2>3, <2>5 DEF Measurable
    <3> QED BY <1>2, <1>3, <1>4, <2>1, <2>5, <3>1, TickExact DEF TickDelta, Measurable
  <2> QED BY <1>4, <2>2, <2>4, <2>5 DEF Exposed
<1>5. \A i \in Iface, d \in Dir :
        /\ recorded'[i][d] = recorded[i][d]
             + IF i \in Measured(totals) THEN TickDelta(i, d).bytes ELSE 0
        /\ owed'[i][d] = owed[i][d]
             + IF Measurable(totals, i, d) THEN since[i][d] ELSE 0
        /\ slack'[i][d] = slack[i][d]
             + IF Exposed(totals, i, d) THEN MaxB[i] ELSE 0
  BY DEF Sample, ObserveTick
<1>6. \A i \in Iface, d \in Dir :
        recorded'[i][d] \in Nat /\ owed'[i][d] \in Nat /\ slack'[i][d] \in Nat
  BY <1>2, <1>4, <1>5
<1>7. TypeOK'
  <2>1. recorded' \in Amounts /\ owed' \in Amounts /\ slack' \in Amounts
    BY <1>6 DEF Sample, ObserveTick, Amounts
  <2>2. /\ DOMAIN prev' = totals /\ prev' \in [totals -> [Dir -> Nat]]
        /\ \A i \in totals : prev'[i] = counter[i]
    BY DEF Sample, TypeOK, Amounts
  <2>3. \A i \in DOMAIN prev', d \in Dir : IsReading(i, prev'[i][d])
    BY <1>2, <2>2
  <2>4. discarded' \in Nat /\ lapses' \in Nat
    BY CountType DEF Sample
  <2>5. lost' \in Nat
    BY LostType DEF ObserveTick, TypeOK
  <2> QED BY <1>1, <2>1, <2>2, <2>3, <2>4, <2>5 DEF TypeOK, ObserveTick, IsReading
<1>8. BaselineExplainsReading'
  BY <1>1, <1>2 DEF BaselineExplainsReading, Sample, ObserveTick
<1>9. PhantomBounded'
  <2> SUFFICES ASSUME NEW i \in Iface, NEW d \in Dir
      PROVE recorded'[i][d] + since'[i][d] <= carried'[i][d] + slack'[i][d]
    BY DEF PhantomBounded
  <2>1. since'[i][d] = 0 /\ carried'[i][d] = carried[i][d]
    BY <1>1 DEF ObserveTick
  <2>2. recorded[i][d] + since[i][d] <= carried[i][d] + slack[i][d]
    BY DEF PhantomBounded
  <2>3. CASE i \in Measured(totals)
    BY <1>2, <1>4, <1>5, <2>1, <2>2, <2>3
  <2>4. CASE i \notin Measured(totals)
    BY <1>2, <1>5, <2>1, <2>2, <2>4 DEF Exposed
  <2> QED BY <2>3, <2>4
<1>10. MeasurableIsRecorded'
  BY <1>2, <1>4, <1>5, <1>6 DEF MeasurableIsRecorded, Measurable
<1> QED BY <1>7, <1>8, <1>9, <1>10

(* Losing the baseline measures nothing.                                   *)
LEMMA LoseBaselineInv ==
  ASSUME IndInv, LoseBaseline
  PROVE  IndInv'
<1> USE DEF IndInv, kernelVars, LoseBaseline
<1>1. /\ Zero \in Amounts
      /\ \A i \in Iface, d \in Dir : Zero[i][d] = 0
  BY DEF Zero, Amounts
<1>2. \A i \in Iface, d \in Dir :
        ~Measurable({}, i, d) /\ ~Exposed({}, i, d)
  BY DEF Measurable, Exposed, Measured
<1>3. owed' = owed /\ slack' = slack
  BY <1>2 DEF ObserveTick, TypeOK, Amounts
<1>4. DOMAIN prev' = {} /\ prev' \in [DOMAIN prev' -> [Dir -> Nat]]
  BY DEF NoReadings
<1>5. TypeOK'
  <2>1. discarded' \in Nat /\ lapses' \in Nat
    BY CountType DEF TypeOK
  <2>2. lost' \in Nat
    BY LostType DEF ObserveTick, TypeOK
  <2> QED BY <1>1, <1>3, <1>4, <2>1, <2>2 DEF TypeOK, ObserveTick, IsReading
<1>6. BaselineExplainsReading'
  BY <1>4 DEF BaselineExplainsReading, ObserveTick
<1>7. PhantomBounded'
  <2>1. \A i \in Iface, d \in Dir :
          /\ recorded[i][d] \in Nat /\ since[i][d] \in Nat
          /\ carried[i][d] \in Nat /\ slack[i][d] \in Nat
    BY DEF TypeOK, Amounts
  <2>2. \A i \in Iface, d \in Dir :
          recorded[i][d] + since[i][d] <= carried[i][d] + slack[i][d]
    BY DEF PhantomBounded
  <2>3. \A i \in Iface, d \in Dir : recorded[i][d] + 0 <= carried[i][d] + slack[i][d]
    BY <2>1, <2>2
  <2>4. \A i \in Iface, d \in Dir : since'[i][d] = 0
    BY <1>1 DEF ObserveTick
  <2>5. recorded' = recorded /\ carried' = carried /\ slack' = slack
    BY <1>3 DEF ObserveTick
  <2> QED BY <2>3, <2>4, <2>5 DEF PhantomBounded
<1>8. MeasurableIsRecorded'
  BY <1>3 DEF MeasurableIsRecorded
<1> QED BY <1>5, <1>6, <1>7, <1>8

(* Every step, of the traffic, the driver or the daemon, preserves IndInv. *)
LEMMA NextInv == IndInv /\ [Next]_vars => IndInv'
<1> SUFFICES ASSUME IndInv, [Next]_vars PROVE IndInv'
  OBVIOUS
<1>1. ASSUME NEW i \in Iface, NEW d \in Dir, NEW n \in FlowSizes, Flow(i, d, n)
      PROVE IndInv'
  BY <1>1, FlowInv
<1>2. ASSUME NEW i \in Iface, Flap(i) PROVE IndInv'
  <2>1. present' \subseteq Iface
    BY <1>2 DEF Flap, IndInv, TypeOK
  <2> QED BY <1>2, <2>1, ResetInv DEF Flap
<1>3. ASSUME NEW i \in Iface, Appear(i) PROVE IndInv'
  <2>1. present' \subseteq Iface
    BY <1>3 DEF Appear, IndInv, TypeOK
  <2> QED BY <1>3, <2>1, ResetInv DEF Appear
<1>4. ASSUME NEW i \in Iface, Vanish(i) PROVE IndInv'
  BY <1>4 DEF Vanish, daemonVars, observerVars, IndInv, TypeOK, IsReading,
       BaselineExplainsReading, PhantomBounded, MeasurableIsRecorded
<1>5. CASE Tick
  <2>1. PICK totals \in {present, {}} :
          Sample(totals) /\ ObserveTick(totals) /\ UNCHANGED kernelVars
    BY <1>5 DEF Tick
  <2>2. totals \in SUBSET Iface
    BY DEF IndInv, TypeOK
  <2> QED BY <2>1, <2>2, SampleInv
<1>6. CASE LoseBaseline
  BY <1>6, LoseBaselineInv
<1>7. CASE UNCHANGED vars
  BY <1>7 DEF vars, kernelVars, daemonVars, observerVars, IndInv, TypeOK, IsReading,
       BaselineExplainsReading, PhantomBounded, MeasurableIsRecorded
<1> QED BY <1>1, <1>2, <1>3, <1>4, <1>5, <1>6, <1>7 DEF Next

(* IndInv holds in every state, for all interfaces, counter widths, links  *)
(* and patterns of wraps, resets and disappearances.                       *)
THEOREM SamplerInvariant == Spec => []IndInv
<1>1. Init => IndInv
  BY InitInv
<1>2. IndInv /\ [Next]_vars => IndInv'
  BY NextInv
<1> QED BY <1>1, <1>2, PTL DEF Spec

(* The counters, baselines and sums of the daemon have their types.        *)
THEOREM SamplerTypeOK == Spec => []TypeOK
<1>1. IndInv => TypeOK
  BY DEF IndInv
<1> QED BY <1>1, SamplerInvariant, PTL

(* The next reading of an interface is what its baseline and the traffic   *)
(* since make of it: a wrap or a reset is never older than the baseline.   *)
THEOREM SamplerBaselineExplainsReading == Spec => []BaselineExplainsReading
<1>1. IndInv => BaselineExplainsReading
  BY DEF IndInv
<1> QED BY <1>1, SamplerInvariant, PTL

(* For every link, counter width and history of traffic, flaps and         *)
(* restarts, the rows overstate the traffic by at most one tick's maximum  *)
(* per reset near the 32-bit boundary.                                     *)
THEOREM SamplerPhantomBounded == Spec => []PhantomBounded
<1>1. IndInv => PhantomBounded
  BY DEF IndInv
<1> QED BY <1>1, SamplerInvariant, PTL

(* For every such history all traffic of measurable intervals is recorded. *)
THEOREM SamplerMeasurableIsRecorded == Spec => []MeasurableIsRecorded
<1>1. IndInv => MeasurableIsRecorded
  BY DEF IndInv
<1> QED BY <1>1, SamplerInvariant, PTL

(* A 64-bit counter that was not reset stands at its baseline plus what    *)
(* flowed, so `delta` returns that, or discards it.                        *)
LEMMA UnresetIsMeasured ==
  ASSUME IndInv, NEW i \in DOMAIN prev, NEW d \in Dir,
         Width[i] = U64, ~flapped[i], since[i][d] > 0,
         TickDelta(i, d).bytes = 0
  PROVE  TickDelta(i, d).discarded
<1>1. /\ prev[i][d] \in Nat /\ counter[i][d] \in Nat /\ since[i][d] \in Nat
      /\ i \in Iface /\ MaxB[i] \in Nat
  BY SamplerAssumption DEF IndInv, TypeOK, Amounts
<1>2. U64 # U32 /\ U64 \in Nat /\ U32 \in Nat
  BY DeltaAssumption
<1>3. prev[i][d] + since[i][d] - counter[i][d] = 0
  BY <1>1, <1>2 DEF IndInv, BaselineExplainsReading
<1>4. counter[i][d] > prev[i][d]
  BY <1>1, <1>3
<1>5. /\ ~IsReset(prev[i][d], counter[i][d], MaxB[i])
      /\ Travelled(prev[i][d], counter[i][d]) = since[i][d]
  BY <1>1, <1>3, <1>4 DEF IsReset, Travelled
<1> QED BY <1>1, <1>5 DEF TickDelta, Delta

(* Every interface a tick loses bytes of has a spike, so the losses of the *)
(* tick are no more than what it notes.                                    *)
LEMMA LostIsSpiked ==
  ASSUME IndInv, NEW totals \in SUBSET Iface, Sample(totals)
  PROVE  Cardinality(Lost(totals)) <= Cardinality({i \in Measured(totals) : Spiked(i)})
<1> DEFINE S == {i \in Measured(totals) : Spiked(i)}
<1>1. ASSUME NEW i \in Lost(totals) PROVE i \in S
  <2>1. PICK d \in Dir : since[i][d] > 0 /\ recorded'[i][d] = recorded[i][d]
    BY <1>1 DEF Lost
  <2>2. /\ i \in Measured(totals) /\ i \in Iface /\ i \in DOMAIN prev
        /\ Width[i] = U64 /\ ~flapped[i]
    BY <1>1 DEF Lost, Measured
  <2>3. TickDelta(i, d).bytes \in Nat
    <3>1. prev[i][d] \in Reading /\ counter[i][d] \in Reading /\ MaxB[i] \in Nat
      BY <2>2, SamplerAssumption, DeltaAssumption
      DEF IndInv, TypeOK, Amounts, IsReading, Reading
    <3> QED BY <3>1, DeltaType DEF TickDelta
  <2>4. recorded'[i][d] = recorded[i][d] + TickDelta(i, d).bytes
    BY <2>2 DEF Sample
  <2>5. recorded[i][d] \in Nat
    BY <2>2 DEF IndInv, TypeOK, Amounts
  <2>6. TickDelta(i, d).bytes = 0
    BY <2>1, <2>3, <2>4, <2>5
  <2> QED BY <2>1, <2>2, <2>6, UnresetIsMeasured DEF Spiked
<1>2. IsFiniteSet(S)
  BY FS_Subset, FiniteIface DEF Measured
<1> QED BY <1>1, <1>2, FS_Subset

(* Losses and their count grow together, in the steps of the daemon alone. *)
LEMMA LossStep ==
  ASSUME IndInv, LossIsCounted, [Next]_vars
  PROVE  LossIsCounted'
<1> USE DEF LossIsCounted
<1>1. lost \in Nat /\ discarded \in Nat /\ lapses \in Nat
  BY DEF IndInv, TypeOK
<1>2. CASE UNCHANGED <<lost, discarded, lapses>>
  BY <1>2
<1>3. ASSUME NEW totals \in SUBSET Iface, NoteDiscarded(totals), lapses' = 0
      PROVE  /\ lapses = 0
             /\ discarded' = discarded + Cardinality({i \in Measured(totals) : Spiked(i)})
  BY <1>1, <1>3 DEF NoteDiscarded
<1>4. CASE Tick
  <2>1. PICK totals \in {present, {}} : Sample(totals) /\ ObserveTick(totals)
    BY <1>4 DEF Tick
  <2>2. totals \in SUBSET Iface
    BY DEF IndInv, TypeOK
  <2>3. Cardinality(Lost(totals)) <= Cardinality({i \in Measured(totals) : Spiked(i)})
    BY <2>1, <2>2, LostIsSpiked
  <2>4. lost' = lost + Cardinality(Lost(totals)) /\ NoteDiscarded(totals)
    BY <2>1 DEF ObserveTick, Sample
  <2>5. /\ Cardinality(Lost(totals)) \in Nat
        /\ Cardinality({i \in Measured(totals) : Spiked(i)}) \in Nat
    <3>1. IsFiniteSet({i \in Measured(totals) : Spiked(i)})
      BY <2>2, FS_Subset, FiniteIface DEF Measured
    <3> QED BY <2>2, <3>1, LostType, FS_CardinalityType
  <2> QED BY <1>1, <1>3, <2>2, <2>3, <2>4, <2>5
<1>5. CASE LoseBaseline
  <2>1. PICK totals \in {present, {}} : NoteDiscarded(totals)
    BY <1>5 DEF LoseBaseline
  <2>2. totals \in SUBSET Iface
    BY DEF IndInv, TypeOK
  <2>3. Cardinality({i \in Measured(totals) : Spiked(i)}) \in Nat
    <3>1. IsFiniteSet({i \in Measured(totals) : Spiked(i)})
      BY <2>2, FS_Subset, FiniteIface DEF Measured
    <3> QED BY <3>1, FS_CardinalityType
  <2>4. lost' = lost
    <3>1. Lost({}) = {}
      BY DEF Lost, Measured
    <3>2. lost' = lost + 0
      BY <1>5, <3>1, FS_EmptySet DEF LoseBaseline, ObserveTick
    <3> QED BY <1>1, <3>2
  <2> QED BY <1>1, <1>3, <2>1, <2>2, <2>3, <2>4
<1> QED BY <1>2, <1>4, <1>5 DEF Next, Flow, Flap, Appear, Vanish, ResetCounters,
      vars, daemonVars, observerVars

(* Whatever flows, wraps and flaps, and however often the daemon restarts, *)
(* every measured interval of a 64-bit counter that was not reset is in    *)
(* the rows or in discarded_samples, until a statement on that fails.      *)
THEOREM SamplerLossIsCounted == Spec => []LossIsCounted
<1>1. Init => LossIsCounted
  BY DEF Init, LossIsCounted
<1>2. IndInv /\ LossIsCounted /\ [Next]_vars => LossIsCounted'
  BY LossStep
<1> QED BY <1>1, <1>2, SamplerInvariant, PTL DEF Spec
=============================================================================
