--------------------------- MODULE ReceiverProofs ---------------------------
(***************************************************************************)
(* Proofs about Receiver for every number of CPUs, every sequence of        *)
(* measured rates and all parameters.                                       *)
(***************************************************************************)
EXTENDS Receiver, TLAPS

-----------------------------------------------------------------------------
(* Arithmetic.                                                              *)

LEMMA ProductNat == \A a, b \in Nat : a * b \in Nat
  OBVIOUS

LEMMA ProductMono == \A w, a, b \in Nat : a <= b => w * a <= w * b
  OBVIOUS

LEMMA ProductPos == \A a, b \in Nat \ {0} : a * b \in Nat \ {0}
  OBVIOUS

LEMMA DivNat == \A a \in Nat, b \in Nat \ {0} : a \div b \in Nat
  OBVIOUS

LEMMA ModNat == \A a \in Int, b \in Nat \ {0} : a % b \in 0..(b - 1)
  OBVIOUS

LEMMA EwmaRange == \A a, b, d \in Nat : a <= d /\ b <= d => Ewma(a, b) \in 0..d
  BY DEF Ewma

LEMMA ClampRange ==
  \A lo, hi, x \in Nat : /\ Clamp(lo, hi, x) \in Nat
                         /\ lo <= Clamp(lo, hi, x)
                         /\ Clamp(lo, hi, x) <= Max2(lo, hi)
  BY DEF Clamp, Min2, Max2

-----------------------------------------------------------------------------
(* What the operators of the receive path return.                           *)

LEMMA FracRange == \A m, n \in Nat : Frac(m, n) \in 0..Den
  <1> SUFFICES ASSUME NEW m \in Nat, NEW n \in Nat
               PROVE  Frac(m, n) \in 0..Den
    OBVIOUS
  <1> DEFINE q == (m * Den) \div Max2(1, n)
  <1>1. Den \in Nat
    BY ReceiverAssumption DEF ReceiverAssumption
  <1>2. m * Den \in Nat /\ Max2(1, n) \in Nat \ {0}
    BY <1>1, ProductNat DEF Max2
  <1>3. q \in Nat
    BY <1>2, DivNat
  <1>4. Frac(m, n) = Min2(Den, q)
    BY DEF Frac
  <1> HIDE DEF q
  <1> QED
    BY <1>1, <1>3, <1>4 DEF Min2

LEMMA RcpRateRange ==
  ASSUME NEW r \in Nat, NEW rx \in Nat
  PROVE  RcpRate(r, rx) \in ISO_MIN_RFAIR..ISO_VQ_DRAIN_RATE_MBPS
  <1> DEFINE cap == ISO_VQ_DRAIN_RATE_MBPS
             room == (3 * cap - rx) % U32
             q == (r * room) \div (2 * cap)
  <1>1. /\ cap \in Nat \ {0} /\ ISO_MIN_RFAIR \in Nat /\ ISO_MIN_RFAIR <= cap
        /\ U32 \in Nat \ {0} /\ 2 * cap \in Nat \ {0}
    BY ReceiverAssumption DEF ReceiverAssumption
  <1>2. room \in Nat
    BY <1>1, ModNat
  <1>3. RcpRate(r, rx) = Clamp(ISO_MIN_RFAIR, cap, q)
    BY DEF RcpRate
  <1> HIDE DEF cap, room
  <1>4. q \in Nat
    BY <1>1, <1>2, ProductNat, DivNat
  <1> HIDE DEF q
  <1>5. RcpRate(r, rx) \in ISO_MIN_RFAIR..cap
    BY <1>1, <1>3, <1>4, ClampRange DEF Max2
  <1> QED
    BY <1>5 DEF cap

LEMMA QueueType ==
  ASSUME TypeOK PROVE vq.weight \in Nat \ {0} /\ vq.cap \in Nat
  BY ReceiverAssumption DEF ReceiverAssumption, TypeOK

LEMMA VqRateType ==
  ASSUME TypeOK
  PROVE  /\ VqRate \in Nat \ {0}
         /\ VqRate <= IF vq.cap > 0 THEN vq.cap
                                    ELSE vq.weight * ISO_VQ_DRAIN_RATE_MBPS
  <1> DEFINE share == vq.weight * rcp_rate
             top == vq.weight * ISO_VQ_DRAIN_RATE_MBPS
             cap == vq.cap
  <1>1. /\ rcp_rate \in Nat \ {0} /\ rcp_rate <= ISO_VQ_DRAIN_RATE_MBPS
        /\ ISO_VQ_DRAIN_RATE_MBPS \in Nat
    BY ReceiverAssumption DEF ReceiverAssumption, TypeOK
  <1>2. share \in Nat \ {0} /\ top \in Nat /\ share <= top /\ cap \in Nat
    BY <1>1, QueueType, ProductPos, ProductNat, ProductMono
  <1>3. VqRate = IF cap > 0 THEN Min2(cap, share) ELSE share
    BY DEF VqRate
  <1> HIDE DEF share, top, cap
  <1>4. VqRate \in Nat \ {0} /\ VqRate <= IF cap > 0 THEN cap ELSE top
    BY <1>2, <1>3 DEF Min2
  <1> QED
    BY <1>4 DEF top, cap

LEMMA AdvertiseRange ==
  ASSUME TypeOK, NEW rx \in Nat
  PROVE  /\ Advertise(rx) \in Nat
         /\ IF ISO_VQ_DRAIN_RATE_MBPS <= ISO_MAX_TX_RATE
              THEN Advertise(rx) \in ISO_MIN_RFAIR..Max2(ISO_MIN_RFAIR, VqRate)
              ELSE Advertise(rx) = ISO_MAX_TX_RATE
  <1> DEFINE room == (3 * VqRate - rx) % U64
             p == (feedback_rate * room) % U64
             q == p \div (2 * VqRate)
             c == Clamp(ISO_MIN_RFAIR, VqRate, q)
  <1>1. /\ VqRate \in Nat \ {0} /\ 2 * VqRate \in Nat \ {0}
        /\ ISO_MIN_RFAIR \in Nat /\ U64 \in Nat \ {0}
        /\ ISO_MAX_TX_RATE \in Nat /\ feedback_rate \in Nat
    BY VqRateType, ReceiverAssumption DEF ReceiverAssumption, TypeOK
  <1>2. room \in Nat
    BY <1>1, ModNat
  <1>3. Advertise(rx) = IF ISO_VQ_DRAIN_RATE_MBPS <= ISO_MAX_TX_RATE
                          THEN c ELSE ISO_MAX_TX_RATE
    BY DEF Advertise
  <1> HIDE DEF room
  <1>4. p \in Nat
    BY <1>1, <1>2, ProductNat, ModNat
  <1> HIDE DEF p
  <1>5. q \in Nat
    BY <1>1, <1>4, DivNat
  <1> HIDE DEF q
  <1>6. c \in Nat /\ c \in ISO_MIN_RFAIR..Max2(ISO_MIN_RFAIR, VqRate)
    BY <1>1, <1>5, ClampRange DEF Max2
  <1> HIDE DEF c
  <1> QED
    BY <1>1, <1>3, <1>6

-----------------------------------------------------------------------------
(* Types.                                                                   *)

LEMMA TypeInit == Init => TypeOK
  BY ReceiverAssumption DEF ReceiverAssumption, Init, TypeOK, Label, Packet

(* The end of a drain, which computes alpha and the advertised rate.        *)
LEMMA DrainEndType ==
  ASSUME TypeOK, NEW c \in Cpu, NEW m \in RxRates, NEW boost \in EcnBoosts,
         DrainEnd(c, m, boost)
  PROVE  /\ \E f \in 0..Den : alpha' = Ewma(alpha, f)
         /\ \E rx \in Nat : feedback_rate' = Advertise(rx) /\ vq_rx_rate' = rx
  <1> DEFINE frac == Frac(rx_marked, rx_pkts)
             rx == IF frac > 0 THEN Min2(m + boost, 3 * VqRate) ELSE m
  <1>1. frac \in 0..Den
    BY FracRange DEF TypeOK
  <1>2. m \in Nat /\ boost \in Nat /\ VqRate \in Nat
    BY VqRateType, ReceiverAssumption DEF ReceiverAssumption
  <1>3. /\ alpha' = Ewma(alpha, frac)
        /\ feedback_rate' = Advertise(rx) /\ vq_rx_rate' = rx
    BY DEF DrainEnd
  <1> HIDE DEF frac
  <1>4. rx \in Nat
    BY <1>2 DEF Min2
  <1> QED
    BY <1>1, <1>3, <1>4

LEMMA TypeStep == TypeOK /\ [Next]_vars => TypeOK'
  <1> SUFFICES ASSUME TypeOK, [Next]_vars PROVE TypeOK'
    OBVIOUS
  <1>0. CASE UNCHANGED vars
    BY <1>0 DEF TypeOK, vars, ctxVars, vqVars, statVars, drainVars
  <1>1. ASSUME NEW c \in Cpu, NEW p \in Packet, NEW due \in BOOLEAN,
               RxStart(c, p, due)
        PROVE  TypeOK'
    BY ZenonT(60), <1>1, ReceiverAssumption
       DEF ReceiverAssumption, RxStart, Goto, TypeOK, Label, vqVars, statVars,
           drainVars
  <1>2. ASSUME NEW c \in Cpu, NEW due \in BOOLEAN, iso_rx_rcp_update(c, due)
        PROVE  TypeOK'
    <2>0. rcp_rate \in Nat /\ rx_rate \in Nat
      BY ReceiverAssumption DEF ReceiverAssumption, TypeOK
    <2>1. RcpRate(rcp_rate, rx_rate) \in ISO_MIN_RFAIR..ISO_VQ_DRAIN_RATE_MBPS
      BY <2>0, RcpRateRange
    <2> QED
      BY <1>2, <2>1
         DEF iso_rx_rcp_update, Goto, TypeOK, Label, vqVars, statVars, drainVars
  <1>3. ASSUME NEW c \in Cpu, CountPacket(c) PROVE TypeOK'
    BY <1>3 DEF CountPacket, Goto, TypeOK, Label, ctxVars, vqVars, drainVars
  <1>4. ASSUME NEW c \in Cpu, CountMark(c) PROVE TypeOK'
    BY <1>4 DEF CountMark, Goto, TypeOK, Label, ctxVars, vqVars, drainVars
  <1>5. ASSUME NEW c \in Cpu, NoDrain(c) PROVE TypeOK'
    BY <1>5
       DEF NoDrain, Goto, TypeOK, Label, ctxVars, vqVars, statVars, drainVars
  <1>6. ASSUME NEW c \in Cpu, DrainStart(c) PROVE TypeOK'
    BY <1>6 DEF DrainStart, Goto, TypeOK, Label, ctxVars, vqVars, statVars
  <1>7. ASSUME NEW c \in Cpu, NEW i \in Cpu, DrainRead(c, i) PROVE TypeOK'
    BY <1>7 DEF DrainRead, TypeOK, ctxVars, vqVars, statVars
  <1>10. ASSUME NEW c \in Cpu, DrainReset(c) PROVE TypeOK'
    BY <1>10 DEF DrainReset, TypeOK, ctxVars, vqVars
  <1>8. ASSUME NEW c \in Cpu, NEW m \in RxRates, NEW boost \in EcnBoosts,
               DrainEnd(c, m, boost)
        PROVE  TypeOK'
    <2>1. /\ alpha' \in Nat
          /\ feedback_rate' \in Nat /\ vq_rx_rate' \in Nat
      <3>1. PICK f \in 0..Den : alpha' = Ewma(alpha, f)
        BY <1>8, DrainEndType
      <3>2. alpha' \in Nat
        BY <3>1, ReceiverAssumption DEF ReceiverAssumption, TypeOK, Ewma
      <3> QED
        BY <1>8, <3>2, DrainEndType, AdvertiseRange
    <2> QED
      BY <1>8, <2>1 DEF DrainEnd, Goto, TypeOK, Label, ctxVars, statVars
  <1>9. ASSUME NEW c \in Cpu, NEW dropped \in BOOLEAN, NEW due \in BOOLEAN,
               Verdict(c, dropped, due)
        PROVE  TypeOK'
    <2>1. feedback_rate % U16 \in 0..(U16 - 1) /\ PktSize \in Nat
      BY ModNat, ReceiverAssumption DEF ReceiverAssumption, TypeOK
    <2> QED
      BY <1>9, <2>1
         DEF Verdict, Goto, TypeOK, Label, Packet, ctxVars, vqVars, drainVars
  <1>11. ASSUME NEW c \in Cpu, NoClass(c) PROVE TypeOK'
    BY <1>11 DEF NoClass, Goto, TypeOK, Label, Packet, ctxVars, vqVars,
       statVars, drainVars
  <1> QED
    BY <1>0, <1>1, <1>2, <1>3, <1>4, <1>5, <1>6, <1>7, <1>8, <1>9, <1>10,
       <1>11
       DEF Next

(* The variables keep their types; the rate of hierarchical RCP, computed   *)
(* in wrapping u32 arithmetic, stays between the minimal and the drain rate.*)
THEOREM TypeCorrect == Spec => []TypeOK
  BY TypeInit, TypeStep, PTL DEF Spec

-----------------------------------------------------------------------------
(* alpha and the advertised rate change only at the end of a drain.         *)
LEMMA AlphaChanges ==
  ASSUME TypeOK, [Next]_vars
  PROVE  alpha' = alpha \/ \E f \in 0..Den : alpha' = Ewma(alpha, f)
  <1>1. ASSUME NEW c \in Cpu, NEW m \in RxRates, NEW boost \in EcnBoosts,
               DrainEnd(c, m, boost)
        PROVE  \E f \in 0..Den : alpha' = Ewma(alpha, f)
    BY <1>1, DrainEndType
  <1> QED
    BY <1>1 DEF Next, vars, vqVars, RxStart, iso_rx_rcp_update, CountPacket,
       CountMark, NoDrain, DrainStart, DrainRead, DrainReset, NoClass,
       Verdict

(* alpha, the smoothed fraction of marked packets, stays a fraction however *)
(* CPUs interleave counting, resetting and draining.                        *)
THEOREM AlphaBounded == Spec => []AlphaInRange
  <1>1. Init => AlphaInRange
    BY ReceiverAssumption DEF ReceiverAssumption, Init, AlphaInRange
  <1>2. TypeOK /\ AlphaInRange /\ [Next]_vars => AlphaInRange'
    <2> SUFFICES ASSUME TypeOK, AlphaInRange, [Next]_vars PROVE AlphaInRange'
      OBVIOUS
    <2>1. Den \in Nat /\ alpha \in 0..Den
      BY ReceiverAssumption DEF ReceiverAssumption, AlphaInRange
    <2>2. \A f \in 0..Den : Ewma(alpha, f) \in 0..Den
      BY <2>1, EwmaRange
    <2> QED
      BY <2>1, <2>2, AlphaChanges DEF AlphaInRange
  <1> QED
    BY <1>1, <1>2, TypeCorrect, PTL DEF Spec

-----------------------------------------------------------------------------
(* What may be advertised.                                                  *)
LEMMA TopRateType ==
  ASSUME TypeOK
  PROVE  /\ TopRate \in Nat /\ ISO_MIN_RFAIR <= TopRate
         /\ Max2(ISO_MIN_RFAIR, VqRate) <= TopRate
  <1> DEFINE top == IF vq.cap > 0 THEN vq.cap
                                  ELSE vq.weight * ISO_VQ_DRAIN_RATE_MBPS
  <1>1. /\ ISO_MIN_RFAIR \in Nat /\ vq.cap \in Nat
        /\ vq.weight * ISO_VQ_DRAIN_RATE_MBPS \in Nat
    BY ProductNat, QueueType, ReceiverAssumption DEF ReceiverAssumption
  <1>2. top \in Nat
    BY <1>1
  <1>3. TopRate = Max2(ISO_MIN_RFAIR, top)
    BY DEF TopRate
  <1>4. VqRate \in Nat /\ VqRate <= top
    BY VqRateType
  <1> HIDE DEF top
  <1> QED
    BY <1>1, <1>2, <1>3, <1>4 DEF Max2

LEMMA AdvertiseAllowed ==
  ASSUME TypeOK, NEW rx \in Nat
  PROVE  Advertise(rx) \in Advertisable
  <1>0. TopRate \in Nat /\ VqRate \in Nat /\ ISO_MIN_RFAIR \in Nat
    BY TopRateType, VqRateType, ReceiverAssumption DEF ReceiverAssumption
  <1>1. CASE ISO_VQ_DRAIN_RATE_MBPS <= ISO_MAX_TX_RATE
    <2>1. Advertise(rx) \in ISO_MIN_RFAIR..Max2(ISO_MIN_RFAIR, VqRate)
      BY <1>1, AdvertiseRange
    <2>2. Advertise(rx) \in ISO_MIN_RFAIR..TopRate
      BY <1>0, <2>1, TopRateType DEF Max2
    <2> QED
      BY <1>1, <2>2 DEF Advertisable
  <1>2. CASE ~(ISO_VQ_DRAIN_RATE_MBPS <= ISO_MAX_TX_RATE)
    BY <1>2, AdvertiseRange DEF Advertisable
  <1> QED
    BY <1>1, <1>2

LEMMA FeedbackRateChanges ==
  ASSUME TypeOK, [Next]_vars
  PROVE  \/ feedback_rate' = feedback_rate
         \/ \E rx \in Nat : feedback_rate' = Advertise(rx)
  <1>1. ASSUME NEW c \in Cpu, NEW m \in RxRates, NEW boost \in EcnBoosts,
               DrainEnd(c, m, boost)
        PROVE  \E rx \in Nat : feedback_rate' = Advertise(rx)
    BY <1>1, DrainEndType
  <1> QED
    BY <1>1 DEF Next, vars, vqVars, RxStart, iso_rx_rcp_update, CountPacket,
       CountMark, NoDrain, DrainStart, DrainRead, DrainReset, NoClass,
       Verdict

LEMMA SentChanges ==
  ASSUME [Next]_vars
  PROVE  sent' \in {sent, feedback_rate % U16}
  BY DEF Next, vars, vqVars, RxStart, iso_rx_rcp_update, CountPacket,
     CountMark, NoDrain, DrainStart, DrainRead, DrainReset, DrainEnd, NoClass,
     Verdict

(* The queue keeps its configuration.                                       *)
LEMMA QueueKept ==
  ASSUME [Next]_vars PROVE vq' = vq
  BY DEF Next, vars, vqVars, RxStart, iso_rx_rcp_update, CountPacket,
     CountMark, NoDrain, DrainStart, DrainRead, DrainReset, DrainEnd, NoClass,
     Verdict

(* No interleaving and no wrap-around in the arithmetic of the drain makes  *)
(* the receiver advertise less than the minimum or more than the queue's    *)
(* cap or share.  A feedback packet carries such a rate modulo U16.         *)
THEOREM AdvertisedBounded == Spec => []AdvertisedInRange
  <1>1. Init => AdvertisedInRange
    <2> SUFFICES ASSUME Init PROVE AdvertisedInRange
      OBVIOUS
    <2>1. ISO_MIN_RFAIR \in Nat /\ TopRate \in Nat /\ ISO_MIN_RFAIR <= TopRate
      BY TypeInit, TopRateType, ReceiverAssumption DEF ReceiverAssumption
    <2>2. ISO_MIN_RFAIR \in Advertisable
      BY <2>1 DEF Advertisable
    <2> QED
      BY <2>2 DEF Init, AdvertisedInRange
  <1>2. TypeOK /\ AdvertisedInRange /\ [Next]_vars => AdvertisedInRange'
    <2> SUFFICES ASSUME TypeOK, AdvertisedInRange, [Next]_vars
                 PROVE  AdvertisedInRange'
      OBVIOUS
    <2>1. Advertisable' = Advertisable
      BY QueueKept DEF Advertisable, TopRate
    <2>2. feedback_rate' \in Advertisable
      BY FeedbackRateChanges, AdvertiseAllowed DEF AdvertisedInRange
    <2>3. sent' \in {0} \cup {r % U16 : r \in Advertisable}
      BY SentChanges DEF AdvertisedInRange
    <2> QED
      BY <2>1, <2>2, <2>3 DEF AdvertisedInRange
  <1> QED
    BY <1>1, <1>2, TypeCorrect, PTL DEF Spec
=============================================================================
