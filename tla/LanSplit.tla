------------------------------ MODULE LanSplit ------------------------------
(***************************************************************************)
(* How a tick of the daemon (src/daemon.rs, `run`) splits traffic in LAN   *)
(* and WAN.  The kernel keeps a byte counter per interface and nftables    *)
(* one LAN counter for the whole machine; a tick reads the former, then    *)
(* the latter, while traffic goes on, and shares the LAN bytes out among   *)
(* the rows it writes, in proportion to their totals.  WAN is not stored:  *)
(* it is the total of a row less its LAN, and never below zero.            *)
(*                                                                         *)
(* One direction is modelled, the other is the same.  Wraps, resets and    *)
(* spikes are left to Sampler and outages of nftables to NftWatch.         *)
(***************************************************************************)
EXTENDS Integers, Functions, FiniteSets

CONSTANTS
  Iface,        \* the interfaces that are recorded
  Excluded,     \* those of exclude_ifaces: counted by the kernel all the same
  Forced,       \* force_lan_ifaces: their traffic is LAN by definition
  NftSees,      \* interfaces whose LAN traffic the nft counter counts
  MaxFlow       \* bound: bytes

ASSUME LanSplitAssumption ==
  /\ IsFiniteSet(Iface) /\ Iface \cap Excluded = {}
  /\ Forced \subseteq Iface /\ NftSees \subseteq Iface \cup Excluded
  /\ MaxFlow \in Nat

VARIABLES
  total,        \* /proc/net/dev, per recorded interface
  lan,          \* the nft counter
  pc,           \* "asleep", or "read" between the two reads
  read,         \* what this tick read in /proc/net/dev
  prev,         \* the baselines
  prevLan,
  rows,         \* sums of the total and lan columns of all rows written
  ticks         \* how many ticks have written rows

(* What only an observer knows.                                            *)
VARIABLES
  flown,        \* bytes that have flown
  wan,          \* those of them to or from the WAN over recorded interfaces
  foreign,      \* LAN bytes nftables counted on excluded interfaces
  wanRead,      \* wan when /proc/net/dev was last read
  lanRead,      \* lan when /proc/net/dev was last read
  raced,        \* LAN bytes counted between the two reads, last tick
  racedEver     \* and over all ticks

kernel == <<total, lan, flown, wan, foreign>>
daemon == <<pc, read, prev, prevLan, rows, ticks, wanRead, lanRead, raced, racedEver>>
vars == <<kernel, daemon>>

-----------------------------------------------------------------------------
Smaller(a, b) == IF a <= b THEN a ELSE b

(* (lan as f64 * (p as f64 / sum as f64)) as i64: the quotient is rounded, *)
(* so a product that should be whole may be truncated to the number below. *)
Share(bytes, p, sum) ==
  LET exact == (bytes * p) \div sum
  IN  IF (bytes * p) % sum = 0 /\ p # sum /\ exact > 0 THEN {exact - 1, exact} ELSE {exact}

(* Mutants: the sum is that of the interface itself; even shares.          *)
LanOf_NotShared(i, d, bytes) ==
  IF i \in Forced THEN {d[i]}
  ELSE IF d[i] = 0 THEN {0}
  ELSE {Smaller(s, d[i]) : s \in Share(bytes, d[i], d[i])}

LanOf_EvenShares(i, d, bytes) ==
  IF i \in Forced THEN {d[i]} ELSE {Smaller(bytes \div Cardinality(Iface), d[i])}

(* The LAN column of the row of i, d being the totals of all the rows.     *)
LanOf(i, d, bytes) ==
  IF i \in Forced THEN {d[i]}
  ELSE IF d[i] = 0 THEN {0}
  ELSE {Smaller(s, d[i]) : s \in Share(bytes, d[i], SumFunction(d))}

-----------------------------------------------------------------------------
Init ==
  /\ total = [i \in Iface |-> 0] /\ lan = 0 /\ flown = 0 /\ wan = 0 /\ foreign = 0
  /\ pc = "asleep" /\ ticks = 0
  /\ read = [i \in Iface |-> 0] /\ prev = [i \in Iface |-> 0] /\ prevLan = 0
  /\ rows = [i \in Iface |-> [total |-> 0, lan |-> 0]]
  /\ wanRead = 0 /\ lanRead = 0 /\ raced = 0 /\ racedEver = 0

Carry(i, b) ==
  /\ flown + b <= MaxFlow
  /\ flown' = flown + b
  /\ total' = IF i \in Iface THEN [total EXCEPT ![i] = @ + b] ELSE total
  /\ UNCHANGED daemon

FlowLan(i, b) ==
  /\ Carry(i, b)
  /\ lan' = IF i \in NftSees THEN lan + b ELSE lan
  /\ foreign' = IF i \in NftSees \ Iface THEN foreign + b ELSE foreign
  /\ wan' = wan

FlowWan(i, b) ==
  /\ i \notin Forced
  /\ Carry(i, b)
  /\ UNCHANGED <<lan, foreign>>
  /\ wan' = IF i \in Iface THEN wan + b ELSE wan

(* capture::read_proc                                                      *)
ReadTotals ==
  /\ pc = "asleep"
  /\ read' = total
  /\ wanRead' = wan /\ lanRead' = lan
  /\ pc' = "read"
  /\ UNCHANGED <<kernel, prev, prevLan, rows, ticks, raced, racedEver>>

Allocations(d, bytes) ==
  {f \in [Iface -> UNION {LanOf(i, d, bytes) : i \in Iface}] :
     \A i \in Iface : f[i] \in LanOf(i, d, bytes)}

(* capture::read_nft, the deltas and the transaction with the rows: one    *)
(* for every interface with traffic, and no transaction if there is none.  *)
WriteRows ==
  /\ pc = "read"
  /\ LET d == [i \in Iface |-> read[i] - prev[i]]
     IN  \E l \in Allocations(d, lan - prevLan) :
           rows' = [i \in Iface |-> [total |-> rows[i].total + d[i], lan |-> rows[i].lan + l[i]]]
  /\ prev' = read /\ prevLan' = lan
  /\ raced' = lan - lanRead /\ racedEver' = racedEver + lan - lanRead
  /\ ticks' = IF read = prev THEN ticks ELSE ticks + 1
  /\ pc' = "asleep"
  /\ UNCHANGED <<kernel, read, wanRead, lanRead>>

Next ==
  \/ \E i \in Iface \cup Excluded, b \in 1 .. MaxFlow : FlowLan(i, b) \/ FlowWan(i, b)
  \/ ReadTotals
  \/ WriteRows

Spec == Init /\ [][Next]_vars

-----------------------------------------------------------------------------
(* Correctness.                                                            *)

LanTotal == SumFunctionOnSet([i \in Iface |-> rows[i].lan], Iface)
RowTotal == SumFunctionOnSet([i \in Iface |-> rows[i].total], Iface)

(* The WAN that is recorded is never less than the WAN traffic there was   *)
(* (README.md:24-25 "WAN reads slightly **high**"), but for LAN bytes that *)
(* fell between the two reads of the last tick, for those nftables counts  *)
(* on interfaces that exclude_ifaces keeps out of the totals, and for      *)
(* those of forced interfaces, claimed already, which it counts where      *)
(* their addresses are in lan_subnets.                                     *)
WanNeverLow ==
  LET claimed == SumFunctionOnSet([i \in Iface |-> rows[i].total], Forced \cap NftSees)
  IN  pc = "asleep" => RowTotal - LanTotal + raced + foreign + claimed >= wanRead

(* The LAN bytes that nftables counted are all in some row, but for a byte *)
(* per row for the rounding, those that ever fell between two reads, those *)
(* of excluded interfaces, and at most as many as forced interfaces        *)
(* carried, whose totals stay in the sum that the others get shares of     *)
(* (daemon.rs:250 "forced-LAN ifaces (tailscale) claim LAN first").        *)
LanKept ==
  LET shared == Iface \ Forced
  IN  SumFunctionOnSet([i \in Iface |-> rows[i].lan], shared)
        + SumFunctionOnSet([i \in Iface |-> rows[i].total], Forced)
      >= prevLan - racedEver - foreign - ticks * Cardinality(shared)
=============================================================================
