------------------------------ MODULE Receiver ------------------------------
(***************************************************************************)
(* The receive path of one device for one virtual queue: iso_rx (rx.c) with *)
(* the device-wide rate estimate, the advertised rate of hierarchical RCP,  *)
(* iso_vq_enqueue and iso_vq_drain (vq.c), and the generation of feedback.  *)
(*                                                                          *)
(* Every CPU runs iso_rx on its own packets.  Time is not modelled: whether *)
(* an update interval has passed is a free choice, and a measured rate is   *)
(* any member of RxRates.  The updates of the device-wide rates take a      *)
(* trylock and are single steps; draining the virtual queue is not, because *)
(* it reads and resets counters that other CPUs increment meanwhile.        *)
(***************************************************************************)
EXTENDS Integers, FiniteSets

CONSTANTS
  Cpu, None,
  RxRates,                   \* rates that can be measured
  EcnBoosts,                 \* what ECN marks can add to a measured rate
  PktSize,                   \* skb_size of a packet
  MaxMarked,                 \* bound: marks a CPU counts between drains
  MaxSince,                  \* bound: rx_since_last_feedback without feedback
  Queues,                    \* how the queue can be configured: its weight, and
                             \* its rate if it is static, else 0
  U64, U32, U16,             \* moduli of the integer types
  Den,                       \* 1 << ECN_ALPHA_FRAC_SHIFT
  ISO_VQ_DRAIN_RATE_MBPS,
  ISO_MAX_TX_RATE,
  ISO_MIN_RFAIR,
  ISO_FEEDBACK_INTERVAL_BYTES

ASSUME ReceiverAssumption ==
  /\ IsFiniteSet(Cpu) /\ None \notin Cpu
  /\ RxRates \subseteq Nat /\ EcnBoosts \subseteq Nat
  /\ PktSize \in Nat /\ MaxMarked \in Nat /\ MaxSince \in Nat
  /\ Queues \subseteq [weight : Nat \ {0}, cap : Nat] /\ Den \in Nat \ {0}
  /\ ISO_MIN_RFAIR \in Nat \ {0} /\ ISO_MAX_TX_RATE \in Nat
  /\ ISO_VQ_DRAIN_RATE_MBPS \in Nat
  /\ ISO_MIN_RFAIR <= ISO_VQ_DRAIN_RATE_MBPS
  /\ U64 \in Nat \ {0} /\ U32 \in Nat \ {0} /\ U16 \in Nat \ {0}
  /\ ISO_FEEDBACK_INTERVAL_BYTES \in Nat

VARIABLES
  rx_rate, rcp_rate,         \* struct iso_rx_context
  vq,                        \* struct iso_vq: a member of Queues,
  alpha, feedback_rate,      \* alpha, feedback_rate,
  vq_rx_rate,                \* vq->rx_rate
  spinlock,                  \* vq->spinlock, its holder or None
  since,                     \* rx_since_last_feedback of every CPU
  marked,                    \* rx_marked_since_last_feedback of every CPU
  pc, skb,                   \* program point and packet of every CPU
  todo, at,                  \* the drain in progress: CPUs left, CPU looked at
  rx_pkts, rx_marked,        \* and its sums
  sent                       \* iph->id of the last feedback packet, or 0

ctxVars == <<rx_rate, rcp_rate>>
vqVars == <<vq, alpha, feedback_rate, vq_rx_rate>>
statVars == <<since, marked>>
drainVars == <<todo, at, rx_pkts, rx_marked>>
vars == <<ctxVars, vqVars, spinlock, statVars, pc, skb, drainVars, sent>>

Packet == {"data", "marked", "feedback"}
Label == {"idle", "rcp", "count", "mark", "due", "drain", "verdict"}

Min2(a, b) == IF a <= b THEN a ELSE b
Max2(a, b) == IF a >= b THEN a ELSE b
Clamp(lo, hi, x) == Max2(lo, Min2(hi, x))

Init ==
  /\ rx_rate = 0 /\ rcp_rate = ISO_VQ_DRAIN_RATE_MBPS
  /\ vq \in Queues
  /\ alpha = 0 /\ feedback_rate = ISO_MIN_RFAIR /\ vq_rx_rate = 0
  /\ spinlock = None
  /\ since = [c \in Cpu |-> 0] /\ marked = [c \in Cpu |-> 0]
  /\ pc = [c \in Cpu |-> "idle"] /\ skb = [c \in Cpu |-> "data"]
  /\ todo = {} /\ at = None /\ rx_pkts = 0 /\ rx_marked = 0
  /\ sent = 0

-----------------------------------------------------------------------------
Goto(c, p) == pc' = [pc EXCEPT ![c] = p]

\* A packet arrives.  iso_rx_stats_update measures the device when it is due.
RxStart(c, p, due) ==
  /\ pc[c] = "idle"
  /\ p = "marked" => marked[c] < MaxMarked
  /\ p = "feedback" => since[c] < MaxSince
  /\ skb' = [skb EXCEPT ![c] = p]
  /\ IF due THEN rx_rate' \in RxRates ELSE UNCHANGED rx_rate
  /\ Goto(c, "rcp")
  /\ UNCHANGED <<rcp_rate, vqVars, spinlock, statVars, drainVars, sent>>

\* The rate advertised after the device received at rate rx; cap2 + cap -
\* rx_rate is a u32.
RcpRate_NoFloor(r, rx) ==
  LET cap == ISO_VQ_DRAIN_RATE_MBPS
  IN  Min2(cap, (r * ((3 * cap - rx) % U32)) \div (2 * cap))
RcpRate(r, rx) ==
  LET cap == ISO_VQ_DRAIN_RATE_MBPS
  IN  Clamp(ISO_MIN_RFAIR, cap, (r * ((3 * cap - rx) % U32)) \div (2 * cap))

iso_rx_rcp_update(c, due) ==
  /\ pc[c] = "rcp"
  /\ IF due THEN rcp_rate' = RcpRate(rcp_rate, rx_rate)
            ELSE UNCHANGED rcp_rate
  /\ Goto(c, "count")
  /\ UNCHANGED <<rx_rate, vqVars, spinlock, statVars, skb, drainVars, sent>>

\* iso_vq_enqueue counts the packet, then its mark.
CountPacket(c) ==
  /\ pc[c] = "count"
  /\ since' = [since EXCEPT ![c] = @ + 1]
  /\ Goto(c, "mark")
  /\ UNCHANGED <<ctxVars, vqVars, spinlock, marked, skb, drainVars, sent>>

CountMark(c) ==
  /\ pc[c] = "mark"
  /\ marked' = [marked EXCEPT ![c] = IF skb[c] = "marked" THEN @ + 1 ELSE @]
  /\ Goto(c, "due")
  /\ UNCHANGED <<ctxVars, vqVars, spinlock, since, skb, drainVars, sent>>

\* The queue is not drained: not due, or another CPU holds the lock.
NoDrain(c) ==
  /\ pc[c] = "due"
  /\ Goto(c, "verdict")
  /\ UNCHANGED <<ctxVars, vqVars, spinlock, statVars, skb, drainVars, sent>>

DrainStart(c) ==
  /\ pc[c] = "due" /\ spinlock = None
  /\ spinlock' = c
  /\ todo' = Cpu /\ rx_pkts' = 0 /\ rx_marked' = 0
  /\ Goto(c, "drain")
  /\ UNCHANGED <<ctxVars, vqVars, statVars, skb, at, sent>>

\* One round of for_each_online_cpu, for CPU i: its counters are read ...
DrainRead(c, i) ==
  /\ pc[c] = "drain" /\ at = None /\ i \in todo
  /\ todo' = todo \ {i} /\ at' = i
  /\ rx_pkts' = rx_pkts + since[i]
  /\ rx_marked' = rx_marked + marked[i]
  /\ UNCHANGED <<ctxVars, vqVars, spinlock, statVars, pc, skb, sent>>

\* ... and reset.  What the CPU has counted in between is lost.
DrainReset(c) ==
  /\ pc[c] = "drain" /\ at # None
  /\ since' = [since EXCEPT ![at] = 0]
  /\ marked' = [marked EXCEPT ![at] = 0]
  /\ at' = None
  /\ UNCHANGED <<ctxVars, vqVars, spinlock, pc, skb, todo, rx_pkts, rx_marked,
                 sent>>

\* The fraction of marked packets in units of 1/Den.
Frac(m, n) == Min2(Den, (m * Den) \div Max2(1, n))

\* EWMA_G16
Ewma_Unscaled(old, new) == (15 * old) \div 16 + new
Ewma(old, new) == (15 * old + new) \div 16

\* The rate the queue may receive at.
VqRate ==
  IF vq.cap > 0 THEN Min2(vq.cap, vq.weight * rcp_rate)
                ELSE vq.weight * rcp_rate

\* feedback_rate after the queue received at rate rx; rate2 + rate - rx_rate
\* is a u64.
Advertise_Uncapped(rx) ==
  Max2(ISO_MIN_RFAIR,
       ((feedback_rate * ((3 * VqRate - rx) % U64)) % U64) \div (2 * VqRate))
Advertise(rx) ==
  IF ISO_VQ_DRAIN_RATE_MBPS <= ISO_MAX_TX_RATE
    THEN Clamp(ISO_MIN_RFAIR, VqRate,
               ((feedback_rate * ((3 * VqRate - rx) % U64)) % U64)
                  \div (2 * VqRate))
    ELSE ISO_MAX_TX_RATE

\* The rest of iso_vq_drain, with m the rate measured.
DrainEnd(c, m, boost) ==
  /\ pc[c] = "drain" /\ todo = {} /\ at = None
  /\ LET frac == Frac(rx_marked, rx_pkts)
         rx == IF frac > 0 THEN Min2(m + boost, 3 * VqRate) ELSE m
     IN  /\ alpha' = Ewma(alpha, frac)
         /\ feedback_rate' = Advertise(rx)
         /\ vq_rx_rate' = rx
  /\ spinlock' = None
  /\ rx_pkts' = 0 /\ rx_marked' = 0
  /\ Goto(c, "verdict")
  /\ UNCHANGED <<ctxVars, vq, statVars, skb, todo, at, sent>>

\* Without a transmit class for the packet iso_rx accepts it and does no more.
NoClass(c) ==
  /\ pc[c] = "verdict" /\ since[c] <= MaxSince
  /\ Goto(c, "idle")
  /\ skb' = [skb EXCEPT ![c] = "data"]
  /\ UNCHANGED <<ctxVars, vqVars, spinlock, statVars, drainVars, sent>>

\* The rest of iso_rx with a class.  A feedback packet is dropped if the
\* sender's state is found.  Any other packet is followed by feedback when it
\* is due, or when rx_since_last_feedback says so; the allocation of the packet
\* may fail.
Verdict(c, dropped, due) ==
  /\ pc[c] = "verdict"
  /\ dropped => skb[c] = "feedback"
  /\ IF dropped
       THEN UNCHANGED <<since, sent>>
       ELSE LET n == since[c] + PktSize
            IN  IF due \/ n >= ISO_FEEDBACK_INTERVAL_BYTES
                  THEN /\ sent' \in {sent, feedback_rate % U16}
                       /\ since' = [since EXCEPT ![c] = 0]
                  ELSE /\ since' = [since EXCEPT ![c] = n]
                       /\ UNCHANGED sent
  /\ Goto(c, "idle")
  /\ skb' = [skb EXCEPT ![c] = "data"]
  /\ UNCHANGED <<ctxVars, vqVars, spinlock, marked, drainVars>>

Next ==
  \E c \in Cpu :
    \/ \E p \in Packet, due \in BOOLEAN : RxStart(c, p, due)
    \/ \E due \in BOOLEAN : iso_rx_rcp_update(c, due)
    \/ CountPacket(c) \/ CountMark(c) \/ NoDrain(c) \/ DrainStart(c)
    \/ (\E i \in Cpu : DrainRead(c, i)) \/ DrainReset(c)
    \/ \E m \in RxRates, boost \in EcnBoosts : DrainEnd(c, m, boost)
    \/ NoClass(c)
    \/ \E dropped, due \in BOOLEAN : Verdict(c, dropped, due)

Spec == Init /\ [][Next]_vars

-----------------------------------------------------------------------------
\* Types of the variables.  The rate of hierarchical RCP stays in its range.
TypeOK ==
  /\ rx_rate \in Nat /\ rcp_rate \in ISO_MIN_RFAIR..ISO_VQ_DRAIN_RATE_MBPS
  /\ vq \in Queues
  /\ alpha \in Nat /\ feedback_rate \in Nat /\ vq_rx_rate \in Nat
  /\ spinlock \in Cpu \cup {None}
  /\ since \in [Cpu -> Nat] /\ marked \in [Cpu -> Nat]
  /\ pc \in [Cpu -> Label] /\ skb \in [Cpu -> Packet]
  /\ todo \subseteq Cpu /\ at \in Cpu \cup {None}
  /\ rx_pkts \in Nat /\ rx_marked \in Nat
  /\ sent \in 0..(U16 - 1)

\* "We ensure that numerator is an integer in [0, 1 << ECN_ALPHA_FRAC_SHIFT]"
\* although the counters it is computed from are reset at different times and
\* incremented by other CPUs during a drain.
AlphaInRange == alpha \in 0..Den

\* What a queue advertises is never below ISO_MIN_RFAIR and never above what
\* it may receive at, which is its cap if it has one and else its share of the
\* drain rate.  iph->id carries it modulo 2^16: a rate that does not fit, which
\* a weight can make, reaches the senders as another one, and as 0, which they
\* take for no feedback, if it is a multiple of 2^16.
TopRate ==
  Max2(ISO_MIN_RFAIR,
       IF vq.cap > 0 THEN vq.cap ELSE vq.weight * ISO_VQ_DRAIN_RATE_MBPS)
Advertisable ==
  IF ISO_VQ_DRAIN_RATE_MBPS <= ISO_MAX_TX_RATE
    THEN ISO_MIN_RFAIR..TopRate ELSE {ISO_MIN_RFAIR, ISO_MAX_TX_RATE}
AdvertisedInRange ==
  /\ feedback_rate \in Advertisable
  /\ sent \in {0} \cup {r % U16 : r \in Advertisable}
=============================================================================
