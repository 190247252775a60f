------------------------- MODULE RateLimiterProofs -------------------------
(***************************************************************************)
(* Proofs of the safety properties of RateLimiter for every number of CPUs, *)
(* destinations and classes and every value of the parameters.              *)
(***************************************************************************)
EXTENDS RateLimiterInv, TLAPS

\* Most steps are first-order; those that need more name their prover.
USE ZenonT(180)

Assumptions == StructureAssumption /\ SizeAssumption /\ ParamAssumption

LEMMA Assumed == Assumptions
  BY StructureAssumption, SizeAssumption, ParamAssumption DEF Assumptions

LEMMA TypeInit == Init => TypeOK
  BY SMT, Assumed DEF Assumptions, Init, TypeOK, RL, Locals, NoLocals, Label,
     StructureAssumption, SizeAssumption, ParamAssumption

-----------------------------------------------------------------------------
(* Arithmetic.                                                              *)

LEMMA ProductNat == \A a, b \in Nat : a * b \in Nat
  BY SMT

LEMMA ProductMono == \A a, b, m \in Nat : a <= m => a * b <= m * b
  BY SMT

LEMMA DivNat == \A a \in Nat : a \div 8 \in Nat
  BY SMT

LEMMA DivMono == \A a, b \in Nat : a <= b => a \div 8 <= b \div 8
  BY SMT

(* Tokens are counted modulo U64.                                           *)
LEMMA WrapNat == \A n \in Int : n % U64 \in Nat
  <1>1. U64 \in Nat \ {0}
    BY ParamAssumption DEF ParamAssumption
  <1> QED
    BY SMT, <1>1

LEMMA WrapBelow == \A n \in Nat : n % U64 <= n
  <1>1. U64 \in Nat \ {0}
    BY ParamAssumption DEF ParamAssumption
  <1> QED
    BY SMT, <1>1

LEMMA WrapZero == 0 % U64 = 0
  <1>1. U64 \in Nat \ {0}
    BY ParamAssumption DEF ParamAssumption
  <1> QED
    BY SMT, <1>1

(* What iso_rl_clock stores in the pool is a natural number.                *)
LEMMA RefillNat ==
  \A t, a, b \in Nat : (t + ((a * b) % U64) \div 8) % U64 \in Nat
  <1> SUFFICES ASSUME NEW t \in Nat, NEW a \in Nat, NEW b \in Nat
               PROVE  (t + ((a * b) % U64) \div 8) % U64 \in Nat
    OBVIOUS
  <1> DEFINE m == (a * b) % U64
  <1>1. a * b \in Int
    BY SMT
  <1>2. m \in Nat
    BY <1>1, WrapNat
  <1> HIDE DEF m
  <1>3. m \div 8 \in Nat
    BY <1>2, DivNat
  <1> DEFINE d == m \div 8
  <1>4. d \in Nat
    BY <1>3
  <1> HIDE DEF d
  <1>5. t + d \in Int
    BY SMT, <1>4
  <1>6. (t + d) % U64 \in Nat
    BY <1>5, WrapNat
  <1> QED
    BY <1>6 DEF d, m

(* The cap of the token pool grows with the rate.                           *)
LEMMA Min2Below ==
  ASSUME NEW a \in Nat, NEW b \in Nat, NEW cap \in Nat, a <= cap
  PROVE  Min2(a, b) \in Nat /\ Min2(a, b) <= cap
  BY SMT DEF Min2

LEMMA Above ==
  ASSUME NEW a \in Int, NEW b \in Nat, NEW m \in Nat, a + b > m
  PROVE  ~(a + b <= m)
  BY SMT

LEMMA TokenCapMono ==
  \A rt \in 0..MaxRate : /\ TokenCap(rt) \in Nat
                         /\ TokenCap(MaxRate) \in Nat
                         /\ TokenCap(rt) <= TokenCap(MaxRate)
  <1> SUFFICES ASSUME NEW rt \in 0..MaxRate
               PROVE  /\ TokenCap(rt) \in Nat
                      /\ TokenCap(MaxRate) \in Nat
                      /\ TokenCap(rt) <= TokenCap(MaxRate)
    OBVIOUS
  <1>1. /\ MaxRate \in Nat /\ rt \in Nat /\ rt <= MaxRate
        /\ ISO_MAX_BURST_TIME_US \in Nat /\ ISO_MIN_BURST_BYTES \in Nat
    BY SMT, ParamAssumption DEF ParamAssumption
  <1> DEFINE x == rt * ISO_MAX_BURST_TIME_US
             y == MaxRate * ISO_MAX_BURST_TIME_US
  <1>2. x \in Nat /\ y \in Nat /\ x <= y
    BY <1>1, ProductNat, ProductMono
  <1> HIDE DEF x, y
  <1>3. x \div 8 \in Nat /\ y \div 8 \in Nat /\ x \div 8 <= y \div 8
    BY <1>2, DivNat, DivMono
  <1>4. /\ TokenCap(rt) = Max2(x \div 8, ISO_MIN_BURST_BYTES)
        /\ TokenCap(MaxRate) = Max2(y \div 8, ISO_MIN_BURST_BYTES)
    BY DEF TokenCap, x, y
  <1> QED
    BY SMT, <1>1, <1>3, <1>4 DEF Max2

LEMMA ClockedRateType ==
  ASSUME TypeOK, NEW r \in RL, NEW us \in Us, NEW late \in BOOLEAN
  PROVE  ClockedRate(r, us, late) \in 0..MaxRate
  BY SMT, ParamAssumption DEF TypeOK, ClockedRate, Max2, ParamAssumption

-----------------------------------------------------------------------------
(* Types.                                                                   *)

LEMMA PktNat == PktSize \subseteq Nat \ {0}
  BY SizeAssumption DEF SizeAssumption

LEMMA PktSeq ==
  ASSUME NEW s \in Seq(PktSize), s # <<>>
  PROVE  Head(s) \in PktSize /\ Head(s) \in Nat /\ Tail(s) \in Seq(PktSize)
  <1>1. Head(s) \in PktSize /\ Tail(s) \in Seq(PktSize)
    BY SMT
  <1> QED
    BY <1>1, PktNat

LEMMA NestedUpdate ==
  ASSUME NEW S, NEW f \in [RL -> [Cpu -> S]], NEW r \in RL, NEW c \in Cpu, NEW v \in S
  PROVE  [f EXCEPT ![r][c] = v] \in [RL -> [Cpu -> S]]
  OBVIOUS

(* The fields of the locals have their types.                               *)
LEMMA LocType ==
  ASSUME TypeOK, NEW c \in Cpu
  PROVE  /\ pc[c] \in Label
         /\ loc[c] \in Locals
         /\ loc[c].rl \in RL \cup {None} /\ loc[c].to \in RL \cup {None}
         /\ loc[c].skb \in PktSize \cup {0} /\ loc[c].segs \in Seq(PktSize)
         /\ loc[c].seen \in Nat /\ loc[c].sum \in Nat
         /\ loc[c].leaf \in Leaf \cup {None} /\ loc[c].leaf_sum \in Nat
         /\ loc[c].count \in Nat /\ loc[c].sent \in Nat
         /\ loc[c].timeout \in BOOLEAN /\ loc[c].leaf_timeout \in BOOLEAN
  <1>1. pc[c] \in Label /\ loc[c] \in Locals
    BY DEF TypeOK
  <1> QED
    BY <1>1 DEF Locals

(* What the operations write to the locals has the fields' types.           *)
LEMMA LocalsKept ==
  ASSUME NEW l \in Locals
  PROVE  /\ \A n \in Nat : [l EXCEPT !.seen = n] \in Locals
         /\ \A n \in Nat : [l EXCEPT !.sum = n] \in Locals
         /\ \A b \in BOOLEAN : [l EXCEPT !.timeout = b] \in Locals
         /\ \A s \in Seq(PktSize) : [l EXCEPT !.segs = s] \in Locals
         /\ \A d \in RL, s \in PktSize : [l EXCEPT !.to = d, !.skb = s] \in Locals
         /\ \A n \in Nat : [l EXCEPT !.sent = n, !.timeout = FALSE, !.sum = 0] \in Locals
  <1>1. \A n \in Nat : [l EXCEPT !.seen = n] \in Locals
    BY DEF Locals
  <1>2. \A n \in Nat : [l EXCEPT !.sum = n] \in Locals
    BY DEF Locals
  <1>3. \A b \in BOOLEAN : [l EXCEPT !.timeout = b] \in Locals
    BY DEF Locals
  <1>4. \A s \in Seq(PktSize) : [l EXCEPT !.segs = s] \in Locals
    BY DEF Locals
  <1>5. \A d \in RL, s \in PktSize : [l EXCEPT !.to = d, !.skb = s] \in Locals
    BY DEF Locals
  <1>6. \A n \in Nat : [l EXCEPT !.sent = n, !.timeout = FALSE, !.sum = 0] \in Locals
    BY DEF Locals
  <1> QED
    BY <1>1, <1>2, <1>3, <1>4, <1>5, <1>6

LEMMA BackToLeaf ==
  ASSUME NEW l \in Locals
  PROVE  [l EXCEPT !.rl = l.leaf, !.timeout = l.leaf_timeout, !.sum = l.leaf_sum,
                   !.leaf = None, !.leaf_timeout = FALSE, !.leaf_sum = 0] \in Locals
  <1>1. l.leaf \in RL \cup {None} /\ l.leaf_timeout \in BOOLEAN /\ l.leaf_sum \in Nat
    BY DEF Locals, RL
  <1>2. \A q \in RL \cup {None}, b \in BOOLEAN, n \in Nat :
          [l EXCEPT !.rl = q, !.timeout = b, !.sum = n,
                    !.leaf = None, !.leaf_timeout = FALSE, !.leaf_sum = 0] \in Locals
    BY DEF Locals
  <1> QED
    BY <1>1, <1>2

LEMMA ZeroNat == 0 \in Nat
  OBVIOUS

LEMMA GotoType ==
  ASSUME TypeOK, NEW c \in Cpu, NEW l \in Label, NEW x \in Locals, Goto(c, l, x)
  PROVE  pc' \in [Cpu -> Label] /\ loc' \in [Cpu -> Locals]
  BY DEF Goto, TypeOK

(* A turn of the transmit loop preserves the types.                         *)
LEMMA PayType ==
  ASSUME TypeOK, NEW c \in Cpu, NEW pkts \in Seq(PktSize), loc[c].rl \in RL,
         first_pkt_size[loc[c].rl][c] <= tokens[loc[c].rl][c],
         PayAndAdvance(c, pkts)
  PROVE  /\ first_pkt_size' \in [RL -> [Cpu -> PktSize \cup {0}]]
         /\ bytes_enqueued' \in [RL -> [Cpu -> Int]]
         /\ tokens' \in [RL -> [Cpu -> Nat]]
         /\ pc' \in [Cpu -> Label]
         /\ loc' \in [Cpu -> Locals]
  <1> DEFINE r == loc[c].rl
             size == first_pkt_size[r][c]
  <1>1. /\ r \in RL /\ size \in PktSize \cup {0} /\ tokens[r][c] \in Nat
        /\ bytes_enqueued[r][c] \in Int /\ size <= tokens[r][c]
    BY DEF TypeOK
  <1>2. /\ tokens' = [tokens EXCEPT ![r][c] = tokens[r][c] - size]
        /\ bytes_enqueued' = [bytes_enqueued EXCEPT ![r][c] = bytes_enqueued[r][c] - size]
    BY DEF PayAndAdvance
  <1>3. tokens[r][c] - size \in Nat /\ bytes_enqueued[r][c] - size \in Int
    <2> HIDE DEF r, size
    <2>1. size \in Nat
      BY SMTT(180), <1>1, PktNat
    <2> QED
      BY SMTT(180), <1>1, <2>1
  <1>4. tokens' \in [RL -> [Cpu -> Nat]] /\ bytes_enqueued' \in [RL -> [Cpu -> Int]]
    BY <1>1, <1>2, <1>3, NestedUpdate DEF TypeOK
  <1>5. CASE pkts = <<>>
    <2> DEFINE x == [loc[c] EXCEPT !.timeout = FALSE]
    <2>1. UNCHANGED first_pkt_size /\ Goto(c, Unlock(c), x)
      BY <1>5 DEF PayAndAdvance
    <2>2. x \in Locals /\ Unlock(c) \in Label
      BY LocType, LocalsKept DEF Unlock, Label
    <2> QED
      BY <1>4, <2>1, <2>2, GotoType DEF TypeOK
  <1>6. CASE pkts # <<>>
    <2> DEFINE x == [loc[c] EXCEPT !.sum = loc[c].sum + Head(pkts)]
    <2>1. Head(pkts) \in PktSize /\ Head(pkts) \in Nat
      BY <1>6, PktSeq
    <2>2. first_pkt_size' = [first_pkt_size EXCEPT ![r][c] = Head(pkts)] /\ Goto(c, "loop", x)
      BY <1>6 DEF PayAndAdvance
    <2>3. first_pkt_size' \in [RL -> [Cpu -> PktSize \cup {0}]]
      BY <1>1, <2>1, <2>2, NestedUpdate DEF TypeOK
    <2>4. x \in Locals /\ "loop" \in Label
      <3>1. loc[c] \in Locals /\ loc[c].sum + Head(pkts) \in Nat
        BY SMT, <2>1, LocType
      <3> QED
        BY <3>1, LocalsKept DEF Label
    <2> QED
      BY <1>4, <2>2, <2>3, <2>4, GotoType
  <1> QED
    BY <1>5, <1>6

(* The return of iso_rl_enqueue preserves the types.                        *)
LEMMA VerdictType ==
  ASSUME TypeOK, NEW c \in Cpu, NEW v \in {"SUCCESS", "DROP", "ERROR"}, ReturnVerdict(c, v)
  PROVE  pc' \in [Cpu -> Label] /\ loc' \in [Cpu -> Locals]
  <1> DEFINE rl == IF loc[c].to \in Leaf THEN loc[c].to ELSE loc[c].rl
             x == [loc[c] EXCEPT !.verdict = v, !.to = None, !.skb = 0, !.segs = <<>>, !.rl = rl]
  <1>1. rl \in RL \cup {None}
    BY LocType DEF RL
  <1> HIDE DEF rl
  <1>2. x \in Locals
    <2>1. loc[c] \in Locals
      BY LocType
    <2>2. <<>> \in Seq(PktSize) /\ 0 \in PktSize \cup {0} /\ None \in RL \cup {None}
      BY SMT
    <2> QED
      BY <1>1, <2>1, <2>2 DEF Locals
  <1>3. AfterEnqueue(c) \in Label
    BY DEF AfterEnqueue, Label
  <1> QED
    BY <1>2, <1>3, GotoType DEF ReturnVerdict, rl

LEMMA QueueTailType ==
  ASSUME TypeOK, NEW c \in Cpu, NEW r \in RL, NEW size \in PktSize, QueueTail(r, c, size)
  PROVE  /\ list' \in [RL -> [Cpu -> Seq(PktSize)]]
         /\ first_pkt_size' \in [RL -> [Cpu -> PktSize \cup {0}]]
         /\ bytes_enqueued' \in [RL -> [Cpu -> Int]]
         /\ tokens' \in [RL -> [Cpu -> Nat]]
  <1>1. list[r][c] \in Seq(PktSize) /\ bytes_enqueued[r][c] \in Int
    BY SMT DEF TypeOK
  <1>2. Append(list[r][c], size) \in Seq(PktSize) /\ bytes_enqueued[r][c] + size \in Int
    BY SMT, <1>1, PktNat
  <1> QED
    BY <1>2, NestedUpdate DEF TypeOK, QueueTail

LEMMA NoLocalsType == NoLocals \in Locals
  BY SMT DEF NoLocals, Locals

(* The larger updates of the locals preserve their type.                    *)
LEMMA LocPeek ==
  ASSUME NEW l \in Locals, NEW n \in Nat
  PROVE  [l EXCEPT !.timeout = TRUE, !.sum = n] \in Locals
  BY DEF Locals

LEMMA LocShort ==
  ASSUME NEW l \in Locals
  PROVE  [l EXCEPT !.seen = 0, !.timeout = TRUE] \in Locals
  BY DEF Locals

LEMMA LocHand ==
  ASSUME NEW l \in Locals, NEW a \in RL, NEW p \in PktSize \cup {0}
  PROVE  [l EXCEPT !.to = a, !.skb = p] \in Locals
  BY DEF Locals

LEMMA LocTrigger ==
  ASSUME NEW l \in Locals, NEW a \in RL, NEW d \in Leaf, NEW t \in BOOLEAN, NEW m \in Nat
  PROVE  [l EXCEPT !.rl = a, !.timeout = FALSE, !.sum = 0, !.leaf = d,
                   !.leaf_timeout = t, !.leaf_sum = m] \in Locals
  BY DEF Locals

LEMMA LocStart ==
  ASSUME NEW l \in Locals, NEW a \in RL \cup {None}, NEW t \in BOOLEAN
  PROVE  [l EXCEPT !.task = TRUE, !.more = t, !.first = a] \in Locals
  BY DEF Locals

LEMMA LocNext ==
  ASSUME NEW l \in Locals, NEW a \in RL, NEW n \in Nat, NEW t \in BOOLEAN
  PROVE  [l EXCEPT !.count = n, !.rl = a, !.to = a, !.more = t] \in Locals
  BY DEF Locals

(* Every step preserves the types.                                          *)
(* The two stores whose operand may be read again.                          *)
LEMMA ClockCapStore ==
  ASSUME TypeOK, FrameInv, NEW c \in Cpu, ClockCap(c)
  PROVE  /\ loc[c].to \in RL
         /\ \E sum \in Nat :
              total_tokens' = [total_tokens EXCEPT ![loc[c].to] =
                                 Min2(TokenCap(rate[loc[c].to]), sum)]
  <1>1. pc[c] = "cap"
    BY DEF ClockCap
  <1>2. loc[c].to \in RL
    BY <1>1 DEF FrameInv, Frame, EnqLabels
  <1>3. loc[c].seen \in Nat /\ total_tokens[loc[c].to] \in Nat
    BY <1>2, LocType DEF TypeOK
  <1>4. \E sum \in {loc[c].seen, total_tokens[loc[c].to]} :
          total_tokens' = [total_tokens EXCEPT ![loc[c].to] =
                             Min2(TokenCap(rate[loc[c].to]), sum)]
    BY DEF ClockCap
  <1> QED
    BY <1>2, <1>3, <1>4

LEMMA BorrowTakeStore ==
  ASSUME TypeOK, FrameInv, NEW c \in Cpu, BorrowTake(c)
  PROVE  \E pool \in {loc[c].seen, total_tokens[loc[c].rl]} :
           total_tokens' = [total_tokens EXCEPT ![loc[c].rl] = (pool - loc[c].seen) % U64]
  BY DEF BorrowTake

LEMMA TypeStep == TypeOK /\ FrameInv /\ [Next]_vars => TypeOK'
  <1> SUFFICES ASSUME TypeOK, FrameInv, [Next]_vars PROVE TypeOK'
    OBVIOUS
  <1>1. CASE UNCHANGED vars
    BY <1>1 DEF vars, rlVars, queueVars, cbVars, cpuVars, TypeOK
  <1>2. ASSUME NEW c \in Cpu, NEW d \in Leaf, NEW r \in Rates, Feedback(c, d, r) PROVE TypeOK'
    BY <1>2, ParamAssumption DEF Feedback, TypeOK, RL, ParamAssumption,
       queueVars, cbVars, cpuVars
  <1>3. ASSUME NEW c \in Cpu, NEW k \in Class, NEW r \in Rates, TxcTick(c, k, r) PROVE TypeOK'
    BY <1>3, ParamAssumption DEF TxcTick, TypeOK, RL, ParamAssumption,
       queueVars, cbVars, cpuVars
  <1>4. ASSUME NEW c \in Cpu, iso_rl_timeout(c) PROVE TypeOK'
    BY <1>4 DEF iso_rl_timeout, TypeOK, rlVars, queueVars, cpuVars
  <1>5. ASSUME NEW c \in Cpu, NEW d \in Leaf, NEW size \in PktSize, iso_tx(c, d, size) PROVE TypeOK'
    <2>1. [loc[c] EXCEPT !.to = d, !.skb = size] \in Locals /\ "clock" \in Label
      BY LocType, LocalsKept DEF Label, RL
    <2>2. arrivals' \in 0..MaxArrivals
      <3>1. arrivals \in 0..MaxArrivals
        BY DEF TypeOK
      <3>2. arrivals < MaxArrivals /\ arrivals' = arrivals + 1
        BY <1>5 DEF iso_tx
      <3>3. MaxArrivals \in Nat
        BY ParamAssumption DEF ParamAssumption
      <3> QED
        BY SMT, <3>1, <3>2, <3>3
    <2> QED
      BY <1>5, <2>1, <2>2, GotoType DEF iso_tx, TypeOK, rlVars,
         queueVars, cbVars
  <1>6. ASSUME NEW c \in Cpu, ClockNotDue(c) PROVE TypeOK'
    <2>1. loc[c] \in Locals /\ AfterClock(c) \in Label
      BY LocType DEF Locals, Label, AfterClock
    <2> QED
      BY <1>6, <2>1, GotoType DEF ClockNotDue, TypeOK, rlVars, queueVars,
         cbVars
  <1>7. ASSUME NEW c \in Cpu, ClockRead(c) PROVE TypeOK'
    <2> DEFINE r == loc[c].to
    <2>1. PICK us \in Us, late \in BOOLEAN :
            /\ rate' = [rate EXCEPT ![r] = ClockedRate(r, us, late)]
            /\ NoteRace(c, r)
            /\ Goto(c, "refill", [loc[c] EXCEPT !.seen =
                  (total_tokens[r] + ((ClockedRate(r, us, late) * us) % U64) \div 8) % U64])
      BY <1>7 DEF ClockRead
    <2>2. r \in RL /\ total_tokens[r] \in Nat
      BY <1>7 DEF ClockRead, FrameInv, Frame, EnqLabels, TypeOK
    <2> HIDE DEF r
    <2> DEFINE rt == ClockedRate(r, us, late)
               n == (total_tokens[r] + ((rt * us) % U64) \div 8) % U64
    <2>3. rt \in 0..MaxRate /\ rt \in Nat /\ us \in Nat
      BY SMT, <2>2, ClockedRateType, ParamAssumption DEF ParamAssumption
    <2> HIDE DEF rt
    <2>4. n \in Nat
      BY <2>2, <2>3, RefillNat
    <2>5. [loc[c] EXCEPT !.seen = n] \in Locals /\ "refill" \in Label
      <3> HIDE DEF n
      <3> QED
        BY <2>4, LocType, LocalsKept DEF Label
    <2>6. Goto(c, "refill", [loc[c] EXCEPT !.seen = n])
      BY <2>1 DEF rt
    <2>7. pc' \in [Cpu -> Label] /\ loc' \in [Cpu -> Locals]
      <3> HIDE DEF n
      <3> QED
        BY <2>5, <2>6, GotoType
    <2>8. rate' = [rate EXCEPT ![r] = rt]
      BY <2>1 DEF rt
    <2>9. rate' \in [RL -> 0..MaxRate]
      BY <2>2, <2>3, <2>8 DEF TypeOK
    <2>10. raced' \subseteq RL
      BY <2>1, <2>2 DEF NoteRace, TypeOK
    <2> QED
      BY <1>7, <2>7, <2>9, <2>10 DEF ClockRead, TypeOK, queueVars, cbVars
  <1>8. ASSUME NEW c \in Cpu, ClockWrite(c) PROVE TypeOK'
    <2>1. loc[c] \in Locals /\ "cap" \in Label /\ loc[c].seen \in Nat
      BY LocType DEF Label
    <2>2. total_tokens' \in [RL -> Nat]
      BY <1>8, <2>1 DEF ClockWrite, TypeOK
    <2> QED
      BY <1>8, <2>1, <2>2, GotoType DEF ClockWrite, TypeOK, queueVars, cbVars
  <1>8a. ASSUME NEW c \in Cpu, ClockCap(c) PROVE TypeOK'
    <2>1. [loc[c] EXCEPT !.seen = 0] \in Locals /\ AfterClock(c) \in Label
      BY LocType, LocalsKept, ZeroNat DEF Label, AfterClock
    <2> DEFINE r == loc[c].to
    <2>2. PICK sum \in Nat :
            total_tokens' = [total_tokens EXCEPT ![r] = Min2(TokenCap(rate[r]), sum)]
      BY <1>8a, ClockCapStore
    <2>3. r \in RL
      BY <1>8a, ClockCapStore
    <2>4. sum \in Nat /\ TokenCap(rate[r]) \in Nat
      BY <2>2, <2>3, TokenCapMono DEF TypeOK
    <2>5. Min2(TokenCap(rate[r]), sum) \in Nat
      BY <2>4 DEF Min2
    <2>6. total_tokens' \in [RL -> Nat]
      BY <2>2, <2>5 DEF TypeOK
    <2> QED
      BY <1>8a, <2>1, <2>6, GotoType DEF ClockCap, TypeOK, queueVars, cbVars
  <1>9. ASSUME NEW c \in Cpu, EnqueueDrop(c) PROVE TypeOK'
    BY <1>9, VerdictType DEF EnqueueDrop, TypeOK, rlVars,
       queueVars, cbVars
  <1>10. ASSUME NEW c \in Cpu, EnqueueError(c) PROVE TypeOK'
    BY <1>10, VerdictType DEF EnqueueError, TypeOK, rlVars, queueVars, cbVars
  <1>11. ASSUME NEW c \in Cpu, EnqueueTail(c) PROVE TypeOK'
    <2>1. loc[c].to \in RL /\ loc[c].skb \in PktSize
      BY <1>11, LocType DEF EnqueueTail, FrameInv, Frame, EnqLabels
    <2> QED
      BY <1>11, <2>1, VerdictType, QueueTailType DEF EnqueueTail, TypeOK,
         rlVars, cbVars
  <1>12. ASSUME NEW c \in Cpu, EnqueueSplit(c) PROVE TypeOK'
    <2>1. loc[c].skb \in PktSize
      BY <1>12, LocType DEF EnqueueSplit, FrameInv, Frame
    <2>2. PICK segs \in GsoSegs[loc[c].skb] : Goto(c, "segment", [loc[c] EXCEPT !.segs = segs])
      BY <1>12 DEF EnqueueSplit
    <2>3. segs \in Seq(PktSize)
      BY <2>1, SizeAssumption DEF SizeAssumption
    <2>4. [loc[c] EXCEPT !.segs = segs] \in Locals /\ "segment" \in Label
      BY <2>3, LocType, LocalsKept DEF Label
    <2> QED
      BY <1>12, <2>2, <2>4, GotoType DEF EnqueueSplit, TypeOK,
         rlVars, queueVars, cbVars
  <1>13. ASSUME NEW c \in Cpu, EnqueueSegment(c) PROVE TypeOK'
    <2> DEFINE rest == Tail(loc[c].segs)
    <2>1. /\ loc[c].to \in RL /\ loc[c].segs \in Seq(PktSize)
          /\ Head(loc[c].segs) \in PktSize /\ rest \in Seq(PktSize)
      BY <1>13, LocType, PktSeq DEF EnqueueSegment, FrameInv, Frame,
         EnqLabels
    <2>2. /\ list' \in [RL -> [Cpu -> Seq(PktSize)]]
          /\ first_pkt_size' \in [RL -> [Cpu -> PktSize \cup {0}]]
          /\ bytes_enqueued' \in [RL -> [Cpu -> Int]]
          /\ tokens' \in [RL -> [Cpu -> Nat]]
      BY <1>13, <2>1, QueueTailType DEF EnqueueSegment, queueVars, TypeOK
    <2>3. [loc[c] EXCEPT !.segs = rest] \in Locals
      BY <2>1, LocType, LocalsKept
    <2>4. pc' \in [Cpu -> Label] /\ loc' \in [Cpu -> Locals]
      BY <1>13, <2>3, LocType, GotoType, VerdictType DEF EnqueueSegment
    <2> QED
      BY <1>13, <2>2, <2>4 DEF EnqueueSegment, TypeOK, rlVars, cbVars
  <1>14. ASSUME NEW c \in Cpu, NoBorrow(c) PROVE TypeOK'
    <2>1. loc[c] \in Locals /\ "peek" \in Label
      BY LocType DEF Locals, Label
    <2> QED
      BY <1>14, <2>1, GotoType DEF NoBorrow, TypeOK, rlVars, queueVars, cbVars
  <1>15. ASSUME NEW c \in Cpu, BorrowLock(c) PROVE TypeOK'
    <2>1. loc[c].rl \in RL /\ total_tokens[loc[c].rl] \in Nat
      BY <1>15 DEF BorrowLock, FrameInv, Frame, DeqLabels, TypeOK
    <2>2. [loc[c] EXCEPT !.seen = total_tokens[loc[c].rl]] \in Locals /\ "locked" \in Label
      BY <2>1, LocType, LocalsKept DEF Label
    <2>3. raced' \subseteq RL
      BY <1>15, <2>1 DEF BorrowLock, NoteRace, TypeOK
    <2> QED
      BY <1>15, <2>2, <2>3, GotoType DEF BorrowLock, TypeOK, queueVars, cbVars
  <1>16. ASSUME NEW c \in Cpu, BorrowTake(c) PROVE TypeOK'
    <2>1. [loc[c] EXCEPT !.seen = 0] \in Locals /\ "peek" \in Label
      BY LocType, LocalsKept, ZeroNat DEF Label
    <2> DEFINE r == loc[c].rl
    <2>2. r \in RL /\ tokens[r][c] \in Nat /\ loc[c].seen \in Nat /\ total_tokens[r] \in Nat
      <3>1. pc[c] = "locked"
        BY <1>16 DEF BorrowTake
      <3>2. r \in RL
        BY <3>1 DEF FrameInv, Frame, DeqLabels
      <3>3. tokens[r][c] \in Nat /\ total_tokens[r] \in Nat
        BY <3>2 DEF TypeOK
      <3>4. loc[c].seen \in Nat
        BY LocType
      <3> QED
        BY <3>2, <3>3, <3>4
    <2>3. PICK pool \in {loc[c].seen, total_tokens[r]} :
            total_tokens' = [total_tokens EXCEPT ![r] = (pool - loc[c].seen) % U64]
      BY <1>16, BorrowTakeStore
    <2>4. tokens' = [tokens EXCEPT ![r][c] = (tokens[r][c] + loc[c].seen) % U64]
      BY <1>16 DEF BorrowTake
    <2> HIDE DEF r
    <2>5. tokens[r][c] + loc[c].seen \in Int /\ pool - loc[c].seen \in Int
      <3>1. pool \in Nat
        BY <2>2
      <3> QED
        BY SMTT(180), <2>2, <3>1
    <2>6. /\ (tokens[r][c] + loc[c].seen) % U64 \in Nat
          /\ (pool - loc[c].seen) % U64 \in Nat
      BY <2>5, WrapNat
    <2>7. tokens' \in [RL -> [Cpu -> Nat]]
      BY <2>2, <2>4, <2>6, NestedUpdate DEF TypeOK
    <2>8. total_tokens' \in [RL -> Nat]
      BY <2>2, <2>3, <2>6 DEF TypeOK
    <2> QED
      BY <1>16, <2>1, <2>7, <2>8, GotoType DEF BorrowTake, TypeOK, cbVars
  <1>16a. ASSUME NEW c \in Cpu, BorrowShort(c) PROVE TypeOK'
    <2>1. [loc[c] EXCEPT !.seen = 0, !.timeout = TRUE] \in Locals /\ "timeout" \in Label
      BY LocType, LocShort, ZeroNat DEF Label
    <2> QED
      BY <1>16a, <2>1, GotoType DEF BorrowShort, TypeOK, queueVars, cbVars
  <1>17. ASSUME NEW c \in Cpu, BorrowFail(c) PROVE TypeOK'
    <2>1. [loc[c] EXCEPT !.timeout = TRUE] \in Locals /\ "timeout" \in Label
      BY LocType, LocalsKept DEF Label
    <2> QED
      BY <1>17, <2>1, GotoType DEF BorrowFail, TypeOK, rlVars, queueVars,
         cbVars
  <1>18. ASSUME NEW c \in Cpu, PeekEmpty(c) PROVE TypeOK'
    <2>1. loc[c] \in Locals /\ Unlock(c) \in Label
      BY LocType DEF Locals, Label, Unlock
    <2> QED
      BY <1>18, <2>1, GotoType DEF PeekEmpty, TypeOK, rlVars, queueVars,
         cbVars
  <1>19. ASSUME NEW c \in Cpu, Peek(c) PROVE TypeOK'
    <2> DEFINE h == Head(list[loc[c].rl][c])
               x == [loc[c] EXCEPT !.timeout = TRUE, !.sum = h]
    <2>1. loc[c].rl \in RL
      BY <1>19 DEF Peek, FrameInv, Frame, DeqLabels
    <2>2. h \in PktSize /\ h \in Nat
      BY SMTT(180), <1>19, <2>1, PktSeq DEF Peek, TypeOK
    <2>3. x \in Locals /\ "loop" \in Label
      BY <2>2, LocType, LocPeek DEF Label
    <2>4. first_pkt_size' \in [RL -> [Cpu -> PktSize \cup {0}]]
      BY <1>19, <2>1, <2>2, NestedUpdate DEF Peek, TypeOK
    <2> QED
      BY <1>19, <2>3, <2>4, GotoType DEF Peek, TypeOK, rlVars, cbVars
  <1>20. ASSUME NEW c \in Cpu, Transmit(c) PROVE TypeOK'
    <2> DEFINE r == loc[c].rl
    <2>0. r \in RL
      BY <1>20 DEF Transmit, FrameInv, Frame, DeqLabels
    <2>1. r \in RL /\ list[r][c] \in Seq(PktSize) /\ list[r][c] # <<>>
      <3>1. list[r][c] \in Seq(PktSize)
        BY SMTT(180), <2>0 DEF TypeOK
      <3>2. list[r][c] # <<>>
        BY <1>20 DEF Transmit, FrameInv, Frame
      <3> QED
        BY <2>0, <3>1, <3>2
    <2>2. Tail(list[r][c]) \in Seq(PktSize) /\ first_pkt_size[r][c] <= tokens[r][c]
      BY <1>20, <2>1, PktSeq DEF Transmit, MaySend
    <2>3. list' \in [RL -> [Cpu -> Seq(PktSize)]]
      BY <1>20, <2>1, <2>2, NestedUpdate DEF Transmit, TypeOK
    <2> QED
      BY <1>20, <2>1, <2>2, <2>3, PayType DEF Transmit, TypeOK, rlVars, cbVars
  <1>21. ASSUME NEW c \in Cpu, HandOver(c) PROVE TypeOK'
    <2> DEFINE r == loc[c].rl
               x == [loc[c] EXCEPT !.to = txc[r], !.skb = first_pkt_size[r][c]]
    <2>1. r \in RL /\ list[r][c] \in Seq(PktSize) /\ list[r][c] # <<>>
      <3>1. r \in RL /\ list[r][c] # <<>>
        BY <1>21 DEF HandOver, FrameInv, Frame, DeqLabels
      <3>2. list \in [RL -> [Cpu -> Seq(PktSize)]]
        BY DEF TypeOK
      <3> QED
        BY <3>1, <3>2
    <2>2. /\ Tail(list[r][c]) \in Seq(PktSize) /\ txc[r] \in RL
          /\ first_pkt_size[r][c] \in PktSize \cup {0}
      BY SMT, <1>21, <2>1, PktSeq, StructureAssumption DEF HandOver,
         StructureAssumption, RL, TypeOK
    <2>3. list' \in [RL -> [Cpu -> Seq(PktSize)]]
      BY <1>21, <2>1, <2>2, NestedUpdate DEF HandOver, TypeOK
    <2>4. x \in Locals /\ "clock" \in Label
      BY <2>2, LocType, LocHand DEF Label
    <2> QED
      BY <1>21, <2>3, <2>4, GotoType DEF HandOver, TypeOK, rlVars, cbVars
  <1>22. ASSUME NEW c \in Cpu, HandedOver(c) PROVE TypeOK'
    <2> DEFINE r == loc[c].rl
    <2>1. r \in RL /\ list[r][c] \in Seq(PktSize) /\ first_pkt_size[r][c] <= tokens[r][c]
      <3>1. r \in RL /\ first_pkt_size[r][c] <= tokens[r][c]
        BY <1>22 DEF HandedOver, FrameInv, Frame, DeqLabels
      <3>2. list \in [RL -> [Cpu -> Seq(PktSize)]]
        BY DEF TypeOK
      <3> QED
        BY <3>1, <3>2
    <2> QED
      BY <1>22, <2>1, PayType DEF HandedOver, TypeOK, rlVars, cbVars
  <1>23. ASSUME NEW c \in Cpu, LoopEnd(c) PROVE TypeOK'
    <2>1. loc[c] \in Locals /\ Unlock(c) \in Label
      BY LocType DEF Locals, Label, Unlock
    <2> QED
      BY <1>23, <2>1, GotoType DEF LoopEnd, TypeOK, rlVars, queueVars, cbVars
  <1>24. ASSUME NEW c \in Cpu, TriggerParent(c) PROVE TypeOK'
    <2> DEFINE r == loc[c].rl
               x == [loc[c] EXCEPT !.rl = txc[r], !.timeout = FALSE, !.sum = 0, !.leaf = r,
                                   !.leaf_timeout = loc[c].timeout, !.leaf_sum = loc[c].sum]
    <2>1. r \in Leaf /\ txc[r] \in RL
      BY <1>24, StructureAssumption DEF TriggerParent, FrameInv,
         Frame, StructureAssumption, RL
    <2>2. x \in Locals /\ "borrow" \in Label
      BY <2>1, LocType, LocTrigger DEF Label
    <2> QED
      BY <1>24, <2>2, GotoType DEF TriggerParent, TypeOK, rlVars, queueVars,
         cbVars
  <1>25. ASSUME NEW c \in Cpu, DequeueReturn(c) PROVE TypeOK'
    <2> DEFINE l == loc[c]
               x == [l EXCEPT !.rl = l.leaf, !.timeout = l.leaf_timeout, !.sum = l.leaf_sum,
                              !.leaf = None, !.leaf_timeout = FALSE, !.leaf_sum = 0]
               y == [l EXCEPT !.sent = l.sent + l.sum, !.timeout = FALSE, !.sum = 0]
    <2>1. x \in Locals
      BY LocType, BackToLeaf
    <2>2. l \in Locals /\ l.sent + l.sum \in Nat
      BY SMTT(180), LocType
    <2>3. y \in Locals
      BY <2>2, LocalsKept
    <2>4. pc' \in [Cpu -> Label] /\ loc' \in [Cpu -> Locals]
      <3>1. NoLocals \in Locals /\ {"timeout", "tasklet", "idle"} \subseteq Label
        BY NoLocalsType DEF Label
      <3> QED
        BY <1>25, <2>1, <2>3, <3>1, GotoType DEF DequeueReturn, Return
    <2>5. l.rl \in RL
      BY <1>25 DEF DequeueReturn, FrameInv, Frame, DeqLabels
    <2>6. /\ active_list' \in [Cpu -> Seq(RL)]
          /\ timer' \in [Cpu -> BOOLEAN] /\ xmit_timeout' \in [Cpu -> BOOLEAN]
      <3>1. Append(active_list[c], l.rl) \in Seq(RL)
        BY SMT, <2>5 DEF TypeOK
      <3> QED
        BY <1>25, <3>1 DEF DequeueReturn, LinkAndArm, cbVars, TypeOK
    <2> QED
      BY <1>25, <2>4, <2>6 DEF DequeueReturn, TypeOK, rlVars,
         queueVars
  <1>26. ASSUME NEW c \in Cpu, TaskletStart(c) PROVE TypeOK'
    <2> DEFINE f == IF active_list[c] = <<>> THEN None ELSE Head(active_list[c])
               x == [loc[c] EXCEPT !.task = TRUE, !.more = active_list[c] # <<>>, !.first = f]
    <2>1. f \in RL \cup {None} /\ (active_list[c] # <<>>) \in BOOLEAN
      BY SMTT(180) DEF TypeOK
    <2> HIDE DEF f
    <2>2. x \in Locals /\ "tasklet" \in Label
      BY <2>1, LocType, LocStart DEF Label
    <2>3. Goto(c, "tasklet", x)
      BY <1>26 DEF TaskletStart, f
    <2>4. xmit_timeout' \in [Cpu -> BOOLEAN]
      BY <1>26 DEF TaskletStart, TypeOK
    <2> QED
      BY <1>26, <2>2, <2>3, <2>4, GotoType DEF TaskletStart, TypeOK, rlVars,
         queueVars
  <1>27. ASSUME NEW c \in Cpu, TaskletNext(c) PROVE TypeOK'
    <2> DEFINE q == Head(active_list[c])
               b == Tail(active_list[c]) # <<>>
               n == loc[c].count + 2
               x == [loc[c] EXCEPT !.count = n, !.rl = q, !.to = q, !.more = b]
    <2>1. active_list[c] # <<>> /\ active_list[c] \in Seq(RL)
      BY <1>27 DEF TaskletNext, FrameInv, Frame, TypeOK
    <2>2. q \in RL /\ Tail(active_list[c]) \in Seq(RL) /\ n \in Nat /\ b \in BOOLEAN
      BY SMTT(180), <2>1, LocType
    <2> HIDE DEF q, b, n
    <2>3. x \in Locals /\ "clock" \in Label
      BY <2>2, LocType, LocNext DEF Label
    <2>4. Goto(c, "clock", x)
      BY <1>27 DEF TaskletNext, q, b, n
    <2>5. active_list' \in [Cpu -> Seq(RL)]
      BY <1>27, <2>2 DEF TaskletNext, TypeOK
    <2> QED
      BY <1>27, <2>3, <2>4, <2>5, GotoType DEF TaskletNext, TypeOK, rlVars,
         queueVars
  <1>28. ASSUME NEW c \in Cpu, TaskletEnd(c) PROVE TypeOK'
    <2>1. NoLocals \in Locals /\ "idle" \in Label
      BY NoLocalsType DEF Label
    <2>2. timer' \in [Cpu -> BOOLEAN]
      BY <1>28 DEF TaskletEnd, Rearm, TypeOK
    <2> QED
      BY <1>28, <2>1, <2>2, GotoType DEF TaskletEnd, TypeOK,
         rlVars, queueVars
  <1> QED
    BY <1>1, <1>2, <1>3, <1>4, <1>5, <1>6, <1>7, <1>8, <1>8a, <1>9, <1>10, <1>11,
       <1>12, <1>13, <1>14, <1>15, <1>16, <1>16a, <1>17, <1>18, <1>19, <1>20, <1>21,
       <1>22, <1>23, <1>24, <1>25, <1>26, <1>27, <1>28 DEF Next, Step, Clock,
       Enqueue, Dequeue, Tasklet

-----------------------------------------------------------------------------
(* A step of one CPU leaves the state of the others alone.                  *)

Untouched(e) ==
  /\ pc'[e] = pc[e] /\ loc'[e] = loc[e]
  /\ active_list'[e] = active_list[e]
  /\ timer'[e] = timer[e] /\ xmit_timeout'[e] = xmit_timeout[e]
  /\ \A r \in RL : /\ list'[r][e] = list[r][e]
                   /\ first_pkt_size'[r][e] = first_pkt_size[r][e]
                   /\ bytes_enqueued'[r][e] = bytes_enqueued[r][e]
                   /\ tokens'[r][e] = tokens[r][e]

LEMMA GotoEffect ==
  ASSUME TypeOK, NEW c \in Cpu, NEW l, NEW x, Goto(c, l, x)
  PROVE  /\ pc'[c] = l /\ loc'[c] = x
         /\ \A e \in Cpu : e # c => pc'[e] = pc[e] /\ loc'[e] = loc[e]
  BY DEF Goto, TypeOK

LEMMA QueueTailEffect ==
  ASSUME TypeOK, NEW c \in Cpu, NEW r \in RL, NEW size, QueueTail(r, c, size)
  PROVE  /\ list'[r][c] = Append(list[r][c], size)
         /\ bytes_enqueued'[r][c] = bytes_enqueued[r][c] + size
         /\ \A q \in RL, e \in Cpu : e # c \/ q # r =>
              /\ list'[q][e] = list[q][e]
              /\ bytes_enqueued'[q][e] = bytes_enqueued[q][e]
         /\ UNCHANGED <<first_pkt_size, tokens>>
  BY DEF QueueTail, TypeOK

LEMMA PayEffect ==
  ASSUME TypeOK, NEW c \in Cpu, NEW pkts, NEW r \in RL, loc[c].rl = r,
         PayAndAdvance(c, pkts)
  PROVE  /\ tokens'[r][c] = tokens[r][c] - first_pkt_size[r][c]
         /\ bytes_enqueued'[r][c] = bytes_enqueued[r][c] - first_pkt_size[r][c]
         /\ pkts # <<>> => first_pkt_size'[r][c] = Head(pkts)
         /\ \A q \in RL, e \in Cpu : e # c \/ q # r =>
              /\ tokens'[q][e] = tokens[q][e]
              /\ bytes_enqueued'[q][e] = bytes_enqueued[q][e]
              /\ first_pkt_size'[q][e] = first_pkt_size[q][e]
  <1> DEFINE size == first_pkt_size[r][c]
  <1>1. /\ tokens' = [tokens EXCEPT ![r][c] = tokens[r][c] - size]
        /\ bytes_enqueued' = [bytes_enqueued EXCEPT ![r][c] = bytes_enqueued[r][c] - size]
    BY DEF PayAndAdvance
  <1>2. \/ pkts = <<>> /\ first_pkt_size' = first_pkt_size
        \/ pkts # <<>> /\ first_pkt_size' = [first_pkt_size EXCEPT ![r][c] = Head(pkts)]
    BY DEF PayAndAdvance
  <1> DEFINE next == Head(pkts)
  <1>2n. \/ pkts = <<>> /\ first_pkt_size' = first_pkt_size
         \/ pkts # <<>> /\ first_pkt_size' = [first_pkt_size EXCEPT ![r][c] = next]
    BY <1>2
  <1> HIDE DEF size, next
  <1>3. /\ pkts # <<>> => first_pkt_size'[r][c] = next
        /\ \A q \in RL, e \in Cpu : e # c \/ q # r =>
              first_pkt_size'[q][e] = first_pkt_size[q][e]
    <2>1. CASE pkts = <<>>
      BY <1>2n, <2>1
    <2>2. CASE pkts # <<>>
      <3>1. first_pkt_size' = [first_pkt_size EXCEPT ![r][c] = next]
        BY <1>2n, <2>2
      <3> QED
        BY <3>1 DEF TypeOK
    <2> QED
      BY <2>1, <2>2
  <1>4. /\ tokens'[r][c] = tokens[r][c] - size
        /\ bytes_enqueued'[r][c] = bytes_enqueued[r][c] - size
        /\ \A q \in RL, e \in Cpu : e # c \/ q # r =>
              /\ tokens'[q][e] = tokens[q][e]
              /\ bytes_enqueued'[q][e] = bytes_enqueued[q][e]
    BY <1>1 DEF TypeOK
  <1> QED
    BY <1>3, <1>4 DEF size, next

LEMMA Locality ==
  ASSUME TypeOK, FrameInv, NEW c \in Cpu, NEW e \in Cpu, e # c,
         \/ Step(c)
         \/ \E d \in Leaf, s \in PktSize : iso_tx(c, d, s)
         \/ iso_rl_timeout(c)
  PROVE  Untouched(e)
  <1>1. CASE iso_rl_timeout(c)
    BY <1>1 DEF iso_rl_timeout, Untouched, TypeOK, rlVars,
       queueVars, cpuVars
  <1>2. ASSUME NEW d \in Leaf, NEW s \in PktSize, iso_tx(c, d, s) PROVE Untouched(e)
    BY <1>2, GotoEffect DEF iso_tx, Untouched, rlVars, queueVars, cbVars
  <1>3. CASE ClockNotDue(c)
    BY <1>3, GotoEffect DEF ClockNotDue, Untouched, rlVars, queueVars,
       cbVars
  <1>4. CASE ClockRead(c)
    BY <1>4, GotoEffect DEF ClockRead, Untouched, rlVars, queueVars,
       cbVars
  <1>5. CASE ClockWrite(c)
    BY <1>5, GotoEffect DEF ClockWrite, Untouched, rlVars,
       queueVars, cbVars
  <1>5a. CASE ClockCap(c)
    BY <1>5a, GotoEffect DEF ClockCap, Untouched, rlVars,
       queueVars, cbVars
  <1>6. CASE EnqueueDrop(c)
    BY <1>6, GotoEffect DEF EnqueueDrop, Untouched, ReturnVerdict,
       rlVars, queueVars, cbVars
  <1>7. CASE EnqueueTail(c)
    <2>1. loc[c].to \in RL
      BY <1>7 DEF EnqueueTail, FrameInv, Frame, EnqLabels
    <2>2. pc'[e] = pc[e] /\ loc'[e] = loc[e]
      BY <1>7, GotoEffect DEF EnqueueTail, ReturnVerdict
    <2>3. QueueTail(loc[c].to, c, loc[c].skb) /\ UNCHANGED cbVars
      BY <1>7 DEF EnqueueTail
    <2> QED
      BY <2>1, <2>2, <2>3, QueueTailEffect DEF Untouched, cbVars
  <1>8. CASE EnqueueError(c)
    BY <1>8, GotoEffect DEF EnqueueError, Untouched, ReturnVerdict, rlVars,
       queueVars, cbVars
  <1>9. CASE EnqueueSplit(c)
    BY <1>9, GotoEffect DEF EnqueueSplit, Untouched, rlVars, queueVars, cbVars
  <1>10. CASE EnqueueSegment(c)
    <2>1. loc[c].to \in RL
      BY <1>10 DEF EnqueueSegment, FrameInv, Frame, EnqLabels
    <2>2. pc'[e] = pc[e] /\ loc'[e] = loc[e]
      BY <1>10, GotoEffect DEF EnqueueSegment, ReturnVerdict
    <2>3. \A r \in RL : /\ list'[r][e] = list[r][e]
                        /\ first_pkt_size'[r][e] = first_pkt_size[r][e]
                        /\ bytes_enqueued'[r][e] = bytes_enqueued[r][e]
                        /\ tokens'[r][e] = tokens[r][e]
      BY SMTT(180), <1>10, <2>1, QueueTailEffect DEF EnqueueSegment, queueVars
    <2> QED
      BY <1>10, <2>2, <2>3 DEF EnqueueSegment, Untouched, cbVars
  <1>11. CASE NoBorrow(c)
    BY <1>11, GotoEffect DEF NoBorrow, Untouched, rlVars, queueVars, cbVars
  <1>12. CASE BorrowLock(c)
    BY <1>12, GotoEffect DEF BorrowLock, Untouched, rlVars, queueVars, cbVars
  <1>13. CASE BorrowTake(c)
    <2>1. loc[c].rl \in RL
      BY <1>13 DEF BorrowTake, FrameInv, Frame, DeqLabels
    <2>2. pc'[e] = pc[e] /\ loc'[e] = loc[e]
      BY <1>13, GotoEffect DEF BorrowTake
    <2>3. \A r \in RL : tokens'[r][e] = tokens[r][e]
      BY <1>13, <2>1 DEF BorrowTake, TypeOK
    <2>4. UNCHANGED <<list, first_pkt_size, bytes_enqueued, active_list, timer, xmit_timeout>>
      BY <1>13 DEF BorrowTake, cbVars
    <2> QED
      BY <2>2, <2>3, <2>4 DEF Untouched
  <1>13a. CASE BorrowShort(c)
    BY <1>13a, GotoEffect DEF BorrowShort, Untouched, rlVars, queueVars, cbVars
  <1>14. CASE BorrowFail(c)
    BY <1>14, GotoEffect DEF BorrowFail, Untouched, rlVars, queueVars, cbVars
  <1>15. CASE PeekEmpty(c)
    BY <1>15, GotoEffect DEF PeekEmpty, Untouched, rlVars, queueVars, cbVars
  <1>16. CASE Peek(c)
    <2>1. loc[c].rl \in RL
      BY <1>16 DEF Peek, FrameInv, Frame, DeqLabels
    <2> QED
      BY <1>16, <2>1, GotoEffect DEF Peek, Untouched, TypeOK, rlVars, cbVars
  <1>17. CASE Transmit(c)
    <2>1. loc[c].rl \in RL
      BY <1>17 DEF Transmit, FrameInv, Frame, DeqLabels
    <2>2. pc'[e] = pc[e] /\ loc'[e] = loc[e]
      BY <1>17, GotoEffect DEF Transmit, PayAndAdvance
    <2>3. \A r \in RL : list'[r][e] = list[r][e]
      BY <1>17, <2>1 DEF Transmit, TypeOK
    <2>4. \A r \in RL : /\ first_pkt_size'[r][e] = first_pkt_size[r][e]
                        /\ bytes_enqueued'[r][e] = bytes_enqueued[r][e]
                        /\ tokens'[r][e] = tokens[r][e]
      <3>1. PayAndAdvance(c, Tail(list[loc[c].rl][c]))
        BY <1>17 DEF Transmit
      <3>2. ASSUME NEW q \in RL
            PROVE  /\ first_pkt_size'[q][e] = first_pkt_size[q][e]
                   /\ bytes_enqueued'[q][e] = bytes_enqueued[q][e]
                   /\ tokens'[q][e] = tokens[q][e]
        BY <2>1, <3>1, PayEffect
      <3> QED
        BY <3>2
    <2>5. UNCHANGED cbVars
      BY <1>17 DEF Transmit
    <2> QED
      BY <2>2, <2>3, <2>4, <2>5 DEF Untouched, cbVars
  <1>18. CASE HandOver(c)
    <2>1. loc[c].rl \in RL
      BY <1>18 DEF HandOver, FrameInv, Frame, DeqLabels
    <2> QED
      BY <1>18, <2>1, GotoEffect DEF HandOver, Untouched, TypeOK, cbVars
  <1>19. CASE HandedOver(c)
    <2>1. loc[c].rl \in RL
      BY <1>19 DEF HandedOver, FrameInv, Frame, DeqLabels
    <2>2. pc'[e] = pc[e] /\ loc'[e] = loc[e]
      BY <1>19, GotoEffect DEF HandedOver, PayAndAdvance
    <2>3. \A r \in RL : list'[r][e] = list[r][e]
      BY <1>19, <2>1 DEF HandedOver, TypeOK
    <2>4. \A r \in RL : /\ first_pkt_size'[r][e] = first_pkt_size[r][e]
                        /\ bytes_enqueued'[r][e] = bytes_enqueued[r][e]
                        /\ tokens'[r][e] = tokens[r][e]
      <3>1. PayAndAdvance(c, list[loc[c].rl][c])
        BY <1>19 DEF HandedOver
      <3>2. ASSUME NEW q \in RL
            PROVE  /\ first_pkt_size'[q][e] = first_pkt_size[q][e]
                   /\ bytes_enqueued'[q][e] = bytes_enqueued[q][e]
                   /\ tokens'[q][e] = tokens[q][e]
        BY <2>1, <3>1, PayEffect
      <3> QED
        BY <3>2
    <2>5. UNCHANGED cbVars
      BY <1>19 DEF HandedOver
    <2> QED
      BY <2>2, <2>3, <2>4, <2>5 DEF Untouched, cbVars
  <1>20. CASE LoopEnd(c)
    BY <1>20, GotoEffect DEF LoopEnd, Untouched, rlVars, queueVars, cbVars
  <1>21. CASE TriggerParent(c)
    BY <1>21, GotoEffect DEF TriggerParent, Untouched, rlVars, queueVars,
       cbVars
  <1>22. CASE DequeueReturn(c)
    <2>1. pc'[e] = pc[e] /\ loc'[e] = loc[e]
      BY <1>22, GotoEffect DEF DequeueReturn, Return
    <2>2. /\ active_list'[e] = active_list[e]
          /\ timer'[e] = timer[e] /\ xmit_timeout'[e] = xmit_timeout[e]
      BY <1>22 DEF DequeueReturn, LinkAndArm, cbVars, TypeOK
    <2> QED
      BY <1>22, <2>1, <2>2 DEF DequeueReturn, Untouched, queueVars
  <1>23. CASE TaskletStart(c)
    BY <1>23, GotoEffect DEF TaskletStart, Untouched, TypeOK, rlVars,
       queueVars, cbVars
  <1>24. CASE TaskletNext(c)
    BY <1>24, GotoEffect DEF TaskletNext, Untouched, TypeOK, rlVars,
       queueVars, cbVars
  <1>25. CASE TaskletEnd(c)
    BY <1>25, GotoEffect DEF TaskletEnd, Untouched, TypeOK, rlVars, queueVars,
       cbVars
  <1> QED
    BY <1>1, <1>2, <1>3, <1>4, <1>5, <1>5a, <1>6, <1>7, <1>8, <1>9, <1>10, <1>11,
       <1>12, <1>13, <1>13a, <1>14, <1>15, <1>16, <1>17, <1>18, <1>19, <1>20, <1>21,
       <1>22, <1>23, <1>24, <1>25 DEF Step, Clock, Enqueue, Dequeue, Tasklet

LEMMA FrameOther ==
  ASSUME TypeOK, NEW e \in Cpu, Frame(e), Untouched(e)
  PROVE  Frame(e)'
  <1>1. loc[e].leaf # None => loc[e].leaf \in RL
    BY LocType DEF Locals, RL
  <1>2. HandingOver(e)' <=> HandingOver(e)
    BY DEF HandingOver, Untouched
  <1>3. loc[e].rl \in Leaf => loc[e].rl \in RL
    BY DEF RL
  <1>4. pc[e] \in {"loop", "handed", "unlock", "timeout"} => loc[e].rl \in RL
    BY DEF Frame, DeqLabels
  <1>5. /\ pc'[e] = pc[e] /\ loc'[e] = loc[e] /\ active_list'[e] = active_list[e]
        /\ \A r \in RL : /\ list'[r][e] = list[r][e]
                         /\ first_pkt_size'[r][e] = first_pkt_size[r][e]
                         /\ tokens'[r][e] = tokens[r][e]
    BY DEF Untouched
  <1>6. (pc[e] = "loop" =>
           /\ loc[e].timeout
           /\ list[loc[e].rl][e] # <<>>
           /\ first_pkt_size[loc[e].rl][e] = Head(list[loc[e].rl][e]))'
    BY <1>4, <1>5 DEF Frame
  <1>7. (HandingOver(e) =>
           /\ loc[e].rl \in Leaf
           /\ txc[loc[e].rl] = loc[e].to
           /\ loc[e].timeout
           /\ first_pkt_size[loc[e].rl][e] <= tokens[loc[e].rl][e])'
    BY <1>2, <1>3, <1>5 DEF Frame
  <1>8. (pc[e] = "handed" =>
           /\ loc[e].rl \in Leaf
           /\ loc[e].timeout
           /\ first_pkt_size[loc[e].rl][e] <= tokens[loc[e].rl][e])'
    BY <1>4, <1>5 DEF Frame
  <1>9. (loc[e].leaf # None =>
           /\ loc[e].rl = txc[loc[e].leaf]
           /\ list[loc[e].leaf][e] # <<>> => loc[e].leaf_timeout)'
    BY <1>1, <1>5 DEF Frame
  <1>10. (pc[e] \in {"unlock", "timeout"} =>
            (list[loc[e].rl][e] # <<>> => loc[e].timeout))'
    BY <1>4, <1>5 DEF Frame
  <1> QED
    BY <1>5, <1>6, <1>7, <1>8, <1>9, <1>10 DEF Frame

LEMMA NoLocalsFields ==
  NoLocals.to = None /\ NoLocals.leaf = None /\ NoLocals.skb = 0 /\ NoLocals.more = FALSE
  /\ NoLocals.task = FALSE
  BY DEF NoLocals

LEMMA FrameInit == Init => FrameInv
  <1> SUFFICES ASSUME Init, NEW c \in Cpu PROVE Frame(c)
    BY DEF FrameInv
  <1>1. pc[c] = "idle" /\ loc[c] = NoLocals
    BY DEF Init
  <1> QED
    BY <1>1, NoLocalsFields DEF Frame, EnqLabels, DeqLabels, HandingOver

LEMMA IdleFrame ==
  ASSUME NEW c \in Cpu, pc'[c] = "idle", loc'[c] = NoLocals
  PROVE  Frame(c)'
  BY NoLocalsFields DEF Frame, EnqLabels, DeqLabels, HandingOver

LEMMA LinkedNonEmpty ==
  ASSUME TypeOK, NEW c \in Cpu, NEW r \in RL, active_list[c] # <<>>, LinkAndArm(c, r)
  PROVE  active_list'[c] # <<>>
  <1>1. active_list[c] \in Seq(RL)
    BY DEF TypeOK
  <1>2. Append(active_list[c], r) # <<>>
    BY SMTT(180), <1>1
  <1>3. \/ active_list'[c] = active_list[c]
        \/ active_list'[c] = Append(active_list[c], r)
    BY DEF TypeOK, LinkAndArm
  <1> QED
    BY <1>2, <1>3

LEMMA Structure ==
  /\ Leaf \cap Class = {} /\ None \notin Leaf \cup Class /\ None \notin Cpu
  /\ \A d \in Leaf : txc[d] \in Class
  BY StructureAssumption DEF StructureAssumption, RL

LEMMA SegsNonEmpty ==
  ASSUME NEW s \in PktSize, NEW x \in GsoSegs[s]
  PROVE  x # <<>>
  BY SizeAssumption DEF SizeAssumption

LEMMA HeadPkt ==
  ASSUME TypeOK, NEW r \in RL, NEW c \in Cpu, list[r][c] # <<>>
  PROVE  Head(list[r][c]) \in PktSize
  <1>1. list \in [RL -> [Cpu -> Seq(PktSize)]]
    BY DEF TypeOK
  <1> QED
    BY SMT, <1>1

-----------------------------------------------------------------------------
(* What each step does to the control state of its CPU.                     *)

LEMMA ClockNotDueEffect ==
  ASSUME TypeOK, NEW c \in Cpu, ClockNotDue(c)
  PROVE  /\ pc'[c] = (IF loc[c].skb # 0 THEN "enqueue" ELSE "borrow")
         /\ loc'[c].rl = loc[c].rl /\ loc'[c].to = loc[c].to
         /\ loc'[c].skb = loc[c].skb /\ loc'[c].segs = loc[c].segs
         /\ loc'[c].verdict = loc[c].verdict /\ loc'[c].timeout = loc[c].timeout
         /\ loc'[c].leaf = loc[c].leaf /\ loc'[c].leaf_timeout = loc[c].leaf_timeout
         /\ loc'[c].task = loc[c].task /\ loc'[c].more = loc[c].more
  <1>1. /\ pc'[c] = (IF loc[c].skb # 0 THEN "enqueue" ELSE "borrow")
        /\ loc'[c] = loc[c]
    BY GotoEffect DEF ClockNotDue, AfterClock
  <1>2. loc[c] \in Locals
    BY LocType
  <1> QED
    BY <1>1, <1>2 DEF Locals

LEMMA ClockReadEffect ==
  ASSUME TypeOK, NEW c \in Cpu, ClockRead(c)
  PROVE  /\ pc'[c] = "refill"
         /\ loc'[c].rl = loc[c].rl /\ loc'[c].to = loc[c].to
         /\ loc'[c].skb = loc[c].skb /\ loc'[c].segs = loc[c].segs
         /\ loc'[c].verdict = loc[c].verdict /\ loc'[c].timeout = loc[c].timeout
         /\ loc'[c].leaf = loc[c].leaf /\ loc'[c].leaf_timeout = loc[c].leaf_timeout
         /\ loc'[c].task = loc[c].task /\ loc'[c].more = loc[c].more
  <1>0. \E n : Goto(c, "refill", [loc[c] EXCEPT !.seen = n])
    BY DEF ClockRead
  <1>1. /\ pc'[c] = "refill"
        /\ \E n : loc'[c] = [loc[c] EXCEPT !.seen = n]
    BY <1>0, GotoEffect
  <1>2. loc[c] \in Locals
    BY LocType
  <1> QED
    BY <1>1, <1>2 DEF Locals

LEMMA ClockWriteEffect ==
  ASSUME TypeOK, NEW c \in Cpu, ClockWrite(c)
  PROVE  /\ pc'[c] = "cap"
         /\ loc'[c].rl = loc[c].rl /\ loc'[c].to = loc[c].to
         /\ loc'[c].skb = loc[c].skb /\ loc'[c].segs = loc[c].segs
         /\ loc'[c].verdict = loc[c].verdict /\ loc'[c].timeout = loc[c].timeout
         /\ loc'[c].leaf = loc[c].leaf /\ loc'[c].leaf_timeout = loc[c].leaf_timeout
         /\ loc'[c].task = loc[c].task /\ loc'[c].more = loc[c].more
  <1>1. /\ pc'[c] = "cap"
        /\ loc'[c] = loc[c]
    BY GotoEffect DEF ClockWrite
  <1>2. loc[c] \in Locals
    BY LocType
  <1> QED
    BY <1>1, <1>2 DEF Locals

LEMMA ClockCapEffect ==
  ASSUME TypeOK, NEW c \in Cpu, ClockCap(c)
  PROVE  /\ pc'[c] = (IF loc[c].skb # 0 THEN "enqueue" ELSE "borrow")
         /\ loc'[c].rl = loc[c].rl /\ loc'[c].to = loc[c].to
         /\ loc'[c].skb = loc[c].skb /\ loc'[c].segs = loc[c].segs
         /\ loc'[c].verdict = loc[c].verdict /\ loc'[c].timeout = loc[c].timeout
         /\ loc'[c].leaf = loc[c].leaf /\ loc'[c].leaf_timeout = loc[c].leaf_timeout
         /\ loc'[c].task = loc[c].task /\ loc'[c].more = loc[c].more
  <1>1. /\ pc'[c] = (IF loc[c].skb # 0 THEN "enqueue" ELSE "borrow")
        /\ loc'[c] = [loc[c] EXCEPT !.seen = 0]
    <2>1. Goto(c, AfterClock(c), [loc[c] EXCEPT !.seen = 0])
      BY DEF ClockCap
    <2>2. pc'[c] = AfterClock(c) /\ loc'[c] = [loc[c] EXCEPT !.seen = 0]
      BY <2>1, GotoEffect
    <2> QED
      BY <2>2 DEF AfterClock
  <1>2. loc[c] \in Locals
    BY LocType
  <1> QED
    BY <1>1, <1>2 DEF Locals

LEMMA VerdictEffect ==
  ASSUME TypeOK, NEW c \in Cpu, NEW v, ReturnVerdict(c, v)
  PROVE  /\ pc'[c] = (IF loc[c].to \in Leaf THEN "borrow" ELSE "handed")
         /\ loc'[c].rl = (IF loc[c].to \in Leaf THEN loc[c].to ELSE loc[c].rl)
         /\ loc'[c].to = None /\ loc'[c].skb = 0 /\ loc'[c].segs = <<>>
         /\ loc'[c].verdict = v /\ loc'[c].timeout = loc[c].timeout
         /\ loc'[c].leaf = loc[c].leaf /\ loc'[c].leaf_timeout = loc[c].leaf_timeout
         /\ loc'[c].task = loc[c].task /\ loc'[c].more = loc[c].more
  <1>1. pc'[c] = (IF loc[c].to \in Leaf THEN "borrow" ELSE "handed")
    BY GotoEffect DEF ReturnVerdict, AfterEnqueue
  <1>2. loc'[c] = [loc[c] EXCEPT !.verdict = v, !.to = None, !.skb = 0, !.segs = <<>>,
            !.rl = IF loc[c].to \in Leaf THEN loc[c].to ELSE loc[c].rl]
    BY SMTT(180), GotoEffect DEF ReturnVerdict
  <1>3. loc[c] \in Locals
    BY LocType
  <1> QED
    BY <1>1, <1>2, <1>3 DEF Locals

LEMMA SplitEffect ==
  ASSUME TypeOK, NEW c \in Cpu, NEW segs, Goto(c, "segment", [loc[c] EXCEPT !.segs = segs])
  PROVE  /\ pc'[c] = "segment"
         /\ loc'[c].rl = loc[c].rl /\ loc'[c].to = loc[c].to
         /\ loc'[c].skb = loc[c].skb /\ loc'[c].segs = segs
         /\ loc'[c].verdict = loc[c].verdict /\ loc'[c].timeout = loc[c].timeout
         /\ loc'[c].leaf = loc[c].leaf /\ loc'[c].leaf_timeout = loc[c].leaf_timeout
         /\ loc'[c].task = loc[c].task /\ loc'[c].more = loc[c].more
  <1>1. pc'[c] = "segment" /\ loc'[c] = [loc[c] EXCEPT !.segs = segs]
    BY GotoEffect
  <1> QED
    BY <1>1, LocType DEF Locals

LEMMA NoBorrowEffect ==
  ASSUME TypeOK, NEW c \in Cpu, NoBorrow(c)
  PROVE  /\ pc'[c] = "peek"
         /\ loc'[c].rl = loc[c].rl /\ loc'[c].to = loc[c].to
         /\ loc'[c].skb = loc[c].skb /\ loc'[c].segs = loc[c].segs
         /\ loc'[c].verdict = loc[c].verdict /\ loc'[c].timeout = loc[c].timeout
         /\ loc'[c].leaf = loc[c].leaf /\ loc'[c].leaf_timeout = loc[c].leaf_timeout
         /\ loc'[c].task = loc[c].task /\ loc'[c].more = loc[c].more
  <1>1. /\ pc'[c] = "peek"
        /\ loc'[c] = loc[c]
    BY GotoEffect DEF NoBorrow
  <1>2. loc[c] \in Locals
    BY LocType
  <1> QED
    BY <1>1, <1>2 DEF Locals

LEMMA BorrowLockEffect ==
  ASSUME TypeOK, NEW c \in Cpu, BorrowLock(c)
  PROVE  /\ pc'[c] = "locked"
         /\ loc'[c].rl = loc[c].rl /\ loc'[c].to = loc[c].to
         /\ loc'[c].skb = loc[c].skb /\ loc'[c].segs = loc[c].segs
         /\ loc'[c].verdict = loc[c].verdict /\ loc'[c].timeout = loc[c].timeout
         /\ loc'[c].leaf = loc[c].leaf /\ loc'[c].leaf_timeout = loc[c].leaf_timeout
         /\ loc'[c].task = loc[c].task /\ loc'[c].more = loc[c].more
  <1>1. /\ pc'[c] = "locked"
        /\ loc'[c] = [loc[c] EXCEPT !.seen = total_tokens[loc[c].rl]]
    BY GotoEffect DEF BorrowLock
  <1>2. loc[c] \in Locals
    BY LocType
  <1> QED
    BY <1>1, <1>2 DEF Locals

LEMMA BorrowTakeEffect ==
  ASSUME TypeOK, NEW c \in Cpu, BorrowTake(c)
  PROVE  /\ pc'[c] = "peek"
         /\ loc'[c].rl = loc[c].rl /\ loc'[c].to = loc[c].to
         /\ loc'[c].skb = loc[c].skb /\ loc'[c].segs = loc[c].segs
         /\ loc'[c].verdict = loc[c].verdict /\ loc'[c].timeout = loc[c].timeout
         /\ loc'[c].leaf = loc[c].leaf /\ loc'[c].leaf_timeout = loc[c].leaf_timeout
         /\ loc'[c].task = loc[c].task /\ loc'[c].more = loc[c].more
  <1>1. /\ pc'[c] = "peek"
        /\ loc'[c] = [loc[c] EXCEPT !.seen = 0]
    BY GotoEffect DEF BorrowTake
  <1>2. loc[c] \in Locals
    BY LocType
  <1> QED
    BY <1>1, <1>2 DEF Locals

LEMMA BorrowShortEffect ==
  ASSUME TypeOK, NEW c \in Cpu, BorrowShort(c)
  PROVE  /\ pc'[c] = "timeout"
         /\ loc'[c].rl = loc[c].rl /\ loc'[c].to = loc[c].to
         /\ loc'[c].skb = loc[c].skb /\ loc'[c].segs = loc[c].segs
         /\ loc'[c].verdict = loc[c].verdict /\ loc'[c].timeout = TRUE
         /\ loc'[c].leaf = loc[c].leaf /\ loc'[c].leaf_timeout = loc[c].leaf_timeout
         /\ loc'[c].task = loc[c].task /\ loc'[c].more = loc[c].more
  <1>1. /\ pc'[c] = "timeout"
        /\ loc'[c] = [loc[c] EXCEPT !.seen = 0, !.timeout = TRUE]
    BY GotoEffect DEF BorrowShort
  <1>2. loc[c] \in Locals
    BY LocType
  <1> QED
    BY <1>1, <1>2 DEF Locals

LEMMA BorrowFailEffect ==
  ASSUME TypeOK, NEW c \in Cpu, BorrowFail(c)
  PROVE  /\ pc'[c] = "timeout"
         /\ loc'[c].rl = loc[c].rl /\ loc'[c].to = loc[c].to
         /\ loc'[c].skb = loc[c].skb /\ loc'[c].segs = loc[c].segs
         /\ loc'[c].verdict = loc[c].verdict /\ loc'[c].timeout = TRUE
         /\ loc'[c].leaf = loc[c].leaf /\ loc'[c].leaf_timeout = loc[c].leaf_timeout
         /\ loc'[c].task = loc[c].task /\ loc'[c].more = loc[c].more
  <1>1. /\ pc'[c] = "timeout"
        /\ loc'[c] = [loc[c] EXCEPT !.timeout = TRUE]
    BY GotoEffect DEF BorrowFail
  <1>2. loc[c] \in Locals
    BY LocType
  <1> QED
    BY <1>1, <1>2 DEF Locals

LEMMA PeekEmptyEffect ==
  ASSUME TypeOK, NEW c \in Cpu, PeekEmpty(c)
  PROVE  /\ pc'[c] = (IF loc[c].rl \in Leaf THEN "unlock" ELSE "timeout")
         /\ loc'[c].rl = loc[c].rl /\ loc'[c].to = loc[c].to
         /\ loc'[c].skb = loc[c].skb /\ loc'[c].segs = loc[c].segs
         /\ loc'[c].verdict = loc[c].verdict /\ loc'[c].timeout = loc[c].timeout
         /\ loc'[c].leaf = loc[c].leaf /\ loc'[c].leaf_timeout = loc[c].leaf_timeout
         /\ loc'[c].task = loc[c].task /\ loc'[c].more = loc[c].more
  <1>1. /\ pc'[c] = (IF loc[c].rl \in Leaf THEN "unlock" ELSE "timeout")
        /\ loc'[c] = loc[c]
    BY GotoEffect DEF PeekEmpty, Unlock
  <1>2. loc[c] \in Locals
    BY LocType
  <1> QED
    BY <1>1, <1>2 DEF Locals

LEMMA PeekEffect ==
  ASSUME TypeOK, NEW c \in Cpu, Peek(c)
  PROVE  /\ pc'[c] = "loop"
         /\ loc'[c].rl = loc[c].rl /\ loc'[c].to = loc[c].to
         /\ loc'[c].skb = loc[c].skb /\ loc'[c].segs = loc[c].segs
         /\ loc'[c].verdict = loc[c].verdict /\ loc'[c].timeout = TRUE
         /\ loc'[c].leaf = loc[c].leaf /\ loc'[c].leaf_timeout = loc[c].leaf_timeout
         /\ loc'[c].task = loc[c].task /\ loc'[c].more = loc[c].more
  <1> DEFINE size == Head(list[loc[c].rl][c])
  <1>1. /\ pc'[c] = "loop"
        /\ loc'[c] = [loc[c] EXCEPT !.timeout = TRUE, !.sum = size]
    BY GotoEffect DEF Peek
  <1>2. loc[c] \in Locals
    BY LocType
  <1> HIDE DEF size
  <1> QED
    BY <1>1, <1>2 DEF Locals

LEMMA LastPktEffect ==
  ASSUME TypeOK, NEW c \in Cpu, PayAndAdvance(c, <<>>)
  PROVE  /\ pc'[c] = (IF loc[c].rl \in Leaf THEN "unlock" ELSE "timeout")
         /\ loc'[c].rl = loc[c].rl /\ loc'[c].to = loc[c].to
         /\ loc'[c].skb = loc[c].skb /\ loc'[c].segs = loc[c].segs
         /\ loc'[c].verdict = loc[c].verdict /\ loc'[c].timeout = FALSE
         /\ loc'[c].leaf = loc[c].leaf /\ loc'[c].leaf_timeout = loc[c].leaf_timeout
         /\ loc'[c].task = loc[c].task /\ loc'[c].more = loc[c].more
  <1>1. /\ pc'[c] = (IF loc[c].rl \in Leaf THEN "unlock" ELSE "timeout")
        /\ loc'[c] = [loc[c] EXCEPT !.timeout = FALSE]
    BY GotoEffect DEF PayAndAdvance, Unlock
  <1> QED
    BY <1>1, LocType DEF Locals

LEMMA NextPktEffect ==
  ASSUME TypeOK, NEW c \in Cpu, NEW pkts, pkts # <<>>, PayAndAdvance(c, pkts)
  PROVE  /\ pc'[c] = "loop"
         /\ loc'[c].rl = loc[c].rl /\ loc'[c].to = loc[c].to
         /\ loc'[c].skb = loc[c].skb /\ loc'[c].segs = loc[c].segs
         /\ loc'[c].verdict = loc[c].verdict /\ loc'[c].timeout = loc[c].timeout
         /\ loc'[c].leaf = loc[c].leaf /\ loc'[c].leaf_timeout = loc[c].leaf_timeout
         /\ loc'[c].task = loc[c].task /\ loc'[c].more = loc[c].more
  <1> DEFINE sum == loc[c].sum + Head(pkts)
  <1>1. pc'[c] = "loop" /\ loc'[c] = [loc[c] EXCEPT !.sum = sum]
    <2>1. Goto(c, "loop", [loc[c] EXCEPT !.sum = sum])
      BY DEF PayAndAdvance
    <2> QED
      BY SMTT(180), <2>1, GotoEffect
  <1> HIDE DEF sum
  <1> QED
    BY <1>1, LocType DEF Locals

LEMMA HandOverEffect ==
  ASSUME TypeOK, NEW c \in Cpu, HandOver(c)
  PROVE  /\ pc'[c] = "clock"
         /\ loc'[c].rl = loc[c].rl /\ loc'[c].to = txc[loc[c].rl]
         /\ loc'[c].skb = first_pkt_size[loc[c].rl][c] /\ loc'[c].segs = loc[c].segs
         /\ loc'[c].verdict = loc[c].verdict /\ loc'[c].timeout = loc[c].timeout
         /\ loc'[c].leaf = loc[c].leaf /\ loc'[c].leaf_timeout = loc[c].leaf_timeout
         /\ loc'[c].task = loc[c].task /\ loc'[c].more = loc[c].more
  <1>1. /\ pc'[c] = "clock"
        /\ loc'[c] = [loc[c] EXCEPT !.to = txc[loc[c].rl], !.skb = first_pkt_size[loc[c].rl][c]]
    BY GotoEffect DEF HandOver
  <1>2. loc[c] \in Locals
    BY LocType
  <1> QED
    BY <1>1, <1>2 DEF Locals

LEMMA LoopEndEffect ==
  ASSUME TypeOK, NEW c \in Cpu, LoopEnd(c)
  PROVE  /\ pc'[c] = (IF loc[c].rl \in Leaf THEN "unlock" ELSE "timeout")
         /\ loc'[c].rl = loc[c].rl /\ loc'[c].to = loc[c].to
         /\ loc'[c].skb = loc[c].skb /\ loc'[c].segs = loc[c].segs
         /\ loc'[c].verdict = loc[c].verdict /\ loc'[c].timeout = loc[c].timeout
         /\ loc'[c].leaf = loc[c].leaf /\ loc'[c].leaf_timeout = loc[c].leaf_timeout
         /\ loc'[c].task = loc[c].task /\ loc'[c].more = loc[c].more
  <1>1. /\ pc'[c] = (IF loc[c].rl \in Leaf THEN "unlock" ELSE "timeout")
        /\ loc'[c] = loc[c]
    BY GotoEffect DEF LoopEnd, Unlock
  <1>2. loc[c] \in Locals
    BY LocType
  <1> QED
    BY <1>1, <1>2 DEF Locals

LEMMA TriggerParentEffect ==
  ASSUME TypeOK, NEW c \in Cpu, TriggerParent(c)
  PROVE  /\ pc'[c] = "borrow"
         /\ loc'[c].rl = txc[loc[c].rl] /\ loc'[c].to = loc[c].to
         /\ loc'[c].skb = loc[c].skb /\ loc'[c].segs = loc[c].segs
         /\ loc'[c].verdict = loc[c].verdict /\ loc'[c].timeout = FALSE
         /\ loc'[c].leaf = loc[c].rl /\ loc'[c].leaf_timeout = loc[c].timeout
         /\ loc'[c].task = loc[c].task /\ loc'[c].more = loc[c].more
  <1>1. /\ pc'[c] = "borrow"
        /\ loc'[c] = [loc[c] EXCEPT !.rl = txc[loc[c].rl], !.timeout = FALSE, !.sum = 0,
            !.leaf = loc[c].rl, !.leaf_timeout = loc[c].timeout, !.leaf_sum = loc[c].sum]
    BY GotoEffect DEF TriggerParent
  <1>2. loc[c] \in Locals
    BY LocType
  <1> QED
    BY <1>1, <1>2 DEF Locals

LEMMA ReturnToLeafEffect ==
  ASSUME TypeOK, NEW c \in Cpu, Return(c), loc[c].leaf # None
  PROVE  /\ pc'[c] = "timeout"
         /\ loc'[c].rl = loc[c].leaf /\ loc'[c].to = loc[c].to
         /\ loc'[c].skb = loc[c].skb /\ loc'[c].segs = loc[c].segs
         /\ loc'[c].verdict = loc[c].verdict
         /\ loc'[c].timeout = loc[c].leaf_timeout /\ loc'[c].leaf = None
         /\ loc'[c].leaf_timeout = FALSE /\ loc'[c].task = loc[c].task
         /\ loc'[c].more = loc[c].more
  <1>1. /\ pc'[c] = "timeout"
        /\ loc'[c] = [loc[c] EXCEPT !.rl = loc[c].leaf, !.timeout = loc[c].leaf_timeout,
            !.sum = loc[c].leaf_sum, !.leaf = None, !.leaf_timeout = FALSE, !.leaf_sum = 0]
    <2>1. Goto(c, "timeout",
               [loc[c] EXCEPT !.rl = loc[c].leaf, !.timeout = loc[c].leaf_timeout,
            !.sum = loc[c].leaf_sum, !.leaf = None, !.leaf_timeout = FALSE, !.leaf_sum = 0])
      BY DEF Return
    <2> QED
      BY SMTT(180), <2>1, GotoEffect
  <1>2. loc[c] \in Locals
    BY LocType
  <1> QED
    BY <1>1, <1>2 DEF Locals

LEMMA ReturnToTaskletEffect ==
  ASSUME TypeOK, NEW c \in Cpu, Return(c), loc[c].leaf = None, loc[c].task
  PROVE  /\ pc'[c] = "tasklet"
         /\ loc'[c].rl = loc[c].rl /\ loc'[c].to = loc[c].to
         /\ loc'[c].skb = loc[c].skb /\ loc'[c].segs = loc[c].segs
         /\ loc'[c].verdict = loc[c].verdict /\ loc'[c].timeout = FALSE
         /\ loc'[c].leaf = loc[c].leaf /\ loc'[c].leaf_timeout = loc[c].leaf_timeout
         /\ loc'[c].task = loc[c].task /\ loc'[c].more = loc[c].more
  <1> DEFINE sent == loc[c].sent + loc[c].sum
  <1>1. /\ pc'[c] = "tasklet"
        /\ loc'[c] = [loc[c] EXCEPT !.sent = sent, !.timeout = FALSE, !.sum = 0]
    BY GotoEffect DEF Return
  <1>2. loc[c] \in Locals
    BY LocType
  <1> HIDE DEF sent
  <1>3. \A x \in Locals : LET y == [x EXCEPT !.sent = sent, !.timeout = FALSE, !.sum = 0]
                        IN /\ y.rl = x.rl /\ y.to = x.to
                           /\ y.skb = x.skb /\ y.segs = x.segs
                           /\ y.verdict = x.verdict
                           /\ y.timeout = FALSE
                           /\ y.leaf = x.leaf
                           /\ y.leaf_timeout = x.leaf_timeout
                           /\ y.task = x.task
                           /\ y.more = x.more
    BY DEF Locals
  <1> QED
    BY <1>1, <1>2, <1>3

LEMMA ReturnToTxEffect ==
  ASSUME TypeOK, NEW c \in Cpu, Return(c), loc[c].leaf = None, ~loc[c].task
  PROVE  pc'[c] = "idle" /\ loc'[c] = NoLocals
  BY GotoEffect DEF Return

LEMMA TaskletStartEffect ==
  ASSUME TypeOK, NEW c \in Cpu, loc[c] = NoLocals, TaskletStart(c)
  PROVE  /\ pc'[c] = "tasklet"
         /\ loc'[c].task /\ loc'[c].leaf = None /\ loc'[c].skb = 0 /\ loc'[c].to = None
         /\ loc'[c].more => active_list[c] # <<>>
  <1> DEFINE more == active_list[c] # <<>>
             first == IF active_list[c] = <<>> THEN None ELSE Head(active_list[c])
  <1>1. /\ pc'[c] = "tasklet"
        /\ loc'[c] = [NoLocals EXCEPT !.task = TRUE, !.more = more, !.first = first]
    <2>1. Goto(c, "tasklet", [loc[c] EXCEPT !.task = TRUE, !.more = more, !.first = first])
      BY DEF TaskletStart
    <2> QED
      BY SMTT(180), <2>1, GotoEffect
  <1> HIDE DEF more, first
  <1>2. /\ loc'[c].task /\ loc'[c].leaf = None /\ loc'[c].skb = 0 /\ loc'[c].to = None
        /\ loc'[c].more = more
    BY <1>1 DEF NoLocals
  <1>3. more => active_list[c] # <<>>
    BY DEF more
  <1> QED
    BY <1>1, <1>2, <1>3

LEMMA TaskletNextEffect ==
  ASSUME TypeOK, NEW c \in Cpu, TaskletNext(c)
  PROVE  LET q == Head(active_list[c])
         IN /\ pc'[c] = "clock"
            /\ loc'[c].rl = q /\ loc'[c].to = q
            /\ loc'[c].leaf = loc[c].leaf /\ loc'[c].skb = loc[c].skb
            /\ loc'[c].task = loc[c].task
            /\ loc'[c].more => Tail(active_list[c]) # <<>>
            /\ active_list'[c] = Tail(active_list[c])
  <1> DEFINE q == Head(active_list[c])
             more == Tail(active_list[c]) # <<>>
  <1>1. /\ pc'[c] = "clock"
        /\ loc'[c] = [loc[c] EXCEPT !.count = loc[c].count + 2, !.rl = q, !.to = q, !.more = more]
    BY GotoEffect DEF TaskletNext
  <1>2. active_list'[c] = Tail(active_list[c])
    BY DEF TaskletNext, TypeOK
  <1> HIDE DEF q, more
  <1>3. /\ loc'[c].rl = q /\ loc'[c].to = q /\ loc'[c].leaf = loc[c].leaf
        /\ loc'[c].skb = loc[c].skb /\ loc'[c].task = loc[c].task /\ loc'[c].more = more
    BY <1>1, LocType DEF Locals
  <1>4. more => Tail(active_list[c]) # <<>>
    BY DEF more
  <1> QED
    BY <1>1, <1>2, <1>3, <1>4 DEF q

LEMMA TaskletEndEffect ==
  ASSUME TypeOK, NEW c \in Cpu, TaskletEnd(c)
  PROVE  pc'[c] = "idle" /\ loc'[c] = NoLocals
  BY GotoEffect DEF TaskletEnd

-----------------------------------------------------------------------------
(* The frame of a CPU is preserved by its own steps.                        *)

LEMMA FrameOwn ==
  ASSUME TypeOK, FrameInv, NEW c \in Cpu, Step(c)
  PROVE  Frame(c)'
  <1> USE DEF EnqLabels, DeqLabels, HandingOver
  <1>1. Frame(c)
    BY DEF FrameInv
  <1>2. loc[c] \in Locals
    BY LocType
  <1>3. loc[c].leaf # None => loc[c].leaf \in Leaf /\ loc[c].rl \notin Leaf
    BY <1>1, <1>2, Structure DEF Frame, Locals
  <1>4. CASE ClockNotDue(c)
    <2>1. UNCHANGED <<list, first_pkt_size, tokens, active_list>>
      BY <1>4 DEF ClockNotDue, queueVars, cbVars
    <2> QED
      BY <1>1, <1>3, <1>4, <2>1, ClockNotDueEffect DEF Frame, ClockNotDue
  <1>5. CASE ClockRead(c)
    <2>1. UNCHANGED <<list, first_pkt_size, tokens, active_list>>
      BY <1>5 DEF ClockRead, queueVars, cbVars
    <2> QED
      BY <1>1, <1>3, <1>5, <2>1, ClockReadEffect DEF Frame, ClockRead
  <1>6. CASE ClockWrite(c)
    <2>1. UNCHANGED <<list, first_pkt_size, tokens, active_list>>
      BY <1>6 DEF ClockWrite, queueVars, cbVars
    <2> QED
      BY <1>1, <1>3, <1>6, <2>1, ClockWriteEffect DEF Frame, ClockWrite
  <1>6a. CASE ClockCap(c)
    <2>1. UNCHANGED <<list, first_pkt_size, tokens, active_list>>
      BY <1>6a DEF ClockCap, queueVars, cbVars
    <2> QED
      BY <1>1, <1>3, <1>6a, <2>1, ClockCapEffect DEF Frame, ClockCap
  <1>7. CASE EnqueueDrop(c)
    <2>1. UNCHANGED <<list, first_pkt_size, tokens, active_list>>
      BY <1>7 DEF EnqueueDrop, queueVars, cbVars
    <2>2. PICK v : ReturnVerdict(c, v)
      BY <1>7 DEF EnqueueDrop
    <2> QED
      BY <1>1, <1>7, <2>1, <2>2, VerdictEffect DEF Frame, EnqueueDrop, RL
  <1>8. CASE EnqueueTail(c)
    <2>1. UNCHANGED <<first_pkt_size, tokens, active_list>>
      BY <1>8 DEF EnqueueTail, QueueTail, cbVars
    <2>2. ReturnVerdict(c, "SUCCESS")
      BY <1>8 DEF EnqueueTail
    <2> QED
      BY <1>1, <1>8, <2>1, <2>2, VerdictEffect, Structure DEF Frame,
         EnqueueTail, RL
  <1>9. CASE EnqueueError(c)
    <2>1. UNCHANGED <<list, first_pkt_size, tokens, active_list>>
      BY <1>9 DEF EnqueueError, queueVars, cbVars
    <2>2. PICK v : ReturnVerdict(c, v)
      BY <1>9 DEF EnqueueError
    <2> QED
      BY <1>1, <1>9, <2>1, <2>2, VerdictEffect DEF Frame, EnqueueError, RL
  <1>10. CASE EnqueueSplit(c)
    <2>1. UNCHANGED <<list, first_pkt_size, tokens, active_list>>
      BY <1>10 DEF EnqueueSplit, queueVars, cbVars
    <2>2. PICK segs \in GsoSegs[loc[c].skb] : Goto(c, "segment", [loc[c] EXCEPT !.segs = segs])
      BY <1>10 DEF EnqueueSplit
    <2>3. segs # <<>>
      BY <1>1, <1>2, <1>10, SegsNonEmpty DEF Frame, EnqueueSplit,
         Locals
    <2>4. /\ pc'[c] = "segment"
          /\ loc'[c].rl = loc[c].rl /\ loc'[c].to = loc[c].to
          /\ loc'[c].skb = loc[c].skb /\ loc'[c].segs = segs
          /\ loc'[c].verdict = loc[c].verdict /\ loc'[c].timeout = loc[c].timeout
          /\ loc'[c].leaf = loc[c].leaf
          /\ loc'[c].leaf_timeout = loc[c].leaf_timeout
          /\ loc'[c].task = loc[c].task /\ loc'[c].more = loc[c].more
      BY <2>2, SplitEffect
    <2> QED
      BY <1>1, <1>10, <2>1, <2>3, <2>4 DEF Frame, EnqueueSplit
  <1>11. CASE EnqueueSegment(c)
    <2>1. UNCHANGED <<first_pkt_size, tokens, active_list>>
      BY <1>11 DEF EnqueueSegment, QueueTail, queueVars, cbVars
    <2>2. CASE ReturnVerdict(c, "SUCCESS")
      BY <1>1, <1>11, <2>1, <2>2, VerdictEffect, Structure DEF Frame,
         EnqueueSegment, RL
    <2>3. CASE /\ Tail(loc[c].segs) # <<>>
               /\ Goto(c, "segment", [loc[c] EXCEPT !.segs = Tail(loc[c].segs)])
      BY <1>1, <1>11, <2>1, <2>3, SplitEffect DEF Frame, EnqueueSegment
    <2> QED
      BY <1>11, <2>2, <2>3 DEF EnqueueSegment
  <1>12. CASE NoBorrow(c)
    <2>1. UNCHANGED <<list, first_pkt_size, tokens, active_list>>
      BY <1>12 DEF NoBorrow, queueVars, cbVars
    <2> QED
      BY <1>1, <1>3, <1>12, <2>1, NoBorrowEffect DEF Frame, NoBorrow
  <1>13. CASE BorrowLock(c)
    <2>1. UNCHANGED <<list, first_pkt_size, tokens, active_list>>
      BY <1>13 DEF BorrowLock, queueVars, cbVars
    <2> QED
      BY <1>1, <1>3, <1>13, <2>1, BorrowLockEffect DEF Frame, BorrowLock
  <1>14. CASE BorrowTake(c)
    <2>1. UNCHANGED <<list, first_pkt_size, active_list>>
      BY <1>14 DEF BorrowTake, cbVars
    <2> QED
      BY <1>1, <1>14, <2>1, BorrowTakeEffect DEF Frame, BorrowTake
  <1>14a. CASE BorrowShort(c)
    <2>1. UNCHANGED <<list, first_pkt_size, tokens, active_list>>
      BY <1>14a DEF BorrowShort, queueVars, cbVars
    <2> QED
      BY <1>1, <1>3, <1>14a, <2>1, BorrowShortEffect DEF Frame, BorrowShort
  <1>15. CASE BorrowFail(c)
    <2>1. UNCHANGED <<list, first_pkt_size, tokens, active_list>>
      BY <1>15 DEF BorrowFail, queueVars, cbVars
    <2> QED
      BY <1>1, <1>3, <1>15, <2>1, BorrowFailEffect DEF Frame, BorrowFail
  <1>16. CASE PeekEmpty(c)
    <2>1. UNCHANGED <<list, first_pkt_size, tokens, active_list>>
      BY <1>16 DEF PeekEmpty, queueVars, cbVars
    <2> QED
      BY <1>1, <1>3, <1>16, <2>1, PeekEmptyEffect DEF Frame, PeekEmpty
  <1>17. CASE Peek(c)
    <2>1. UNCHANGED <<list, tokens, active_list>>
      BY <1>17 DEF Peek, cbVars
    <2>2. loc[c].rl \in RL
      BY <1>1, <1>17 DEF Frame, Peek
    <2>3. first_pkt_size'[loc[c].rl][c] = Head(list[loc[c].rl][c])
      BY <1>17, <2>2 DEF Peek, TypeOK
    <2> QED
      BY <1>1, <1>17, <2>1, <2>2, <2>3, PeekEffect DEF Frame, Peek
  <1>18. CASE Transmit(c)
    <2> DEFINE r == loc[c].rl
                pkts == Tail(list[r][c])
    <2>1. r \in RL /\ loc[c].timeout
      BY <1>1, <1>18 DEF Frame, Transmit
    <2>2. PayAndAdvance(c, pkts) /\ UNCHANGED active_list
      BY <1>18 DEF Transmit, cbVars
    <2>3. list'[r][c] = pkts /\ \A q \in RL : q # r => list'[q][c] = list[q][c]
      BY <1>18, <2>1 DEF Transmit, TypeOK
    <2>4. loc[c].leaf # None => loc[c].leaf \in RL /\ loc[c].leaf # r
      BY <1>1, <1>2, Structure DEF Frame, Locals, RL
    <2> HIDE DEF pkts
    <2>5. CASE pkts = <<>>
      <3>1. /\ pc'[c] = (IF loc[c].rl \in Leaf THEN "unlock" ELSE "timeout")
            /\ loc'[c].rl = loc[c].rl /\ loc'[c].to = loc[c].to
            /\ loc'[c].skb = loc[c].skb /\ loc'[c].segs = loc[c].segs
            /\ loc'[c].verdict = loc[c].verdict /\ loc'[c].timeout = FALSE
            /\ loc'[c].leaf = loc[c].leaf
            /\ loc'[c].leaf_timeout = loc[c].leaf_timeout
            /\ loc'[c].task = loc[c].task /\ loc'[c].more = loc[c].more
        BY <2>2, <2>5, LastPktEffect
      <3>2. list'[r][c] = <<>>
        BY <2>3, <2>5
      <3> QED
        BY <1>1, <1>3, <1>18, <2>1, <2>2, <2>3, <2>4, <3>1, <3>2 DEF Frame,
           Transmit
    <2>6. CASE pkts # <<>>
      <3>1. first_pkt_size'[r][c] = Head(pkts)
        BY <2>1, <2>2, <2>6, PayEffect
      <3> QED
        BY <1>1, <1>3, <1>18, <2>1, <2>2, <2>3, <2>4, <2>6, <3>1,
           NextPktEffect DEF Frame, Transmit
    <2> QED
      BY <2>5, <2>6
  <1>19. CASE HandOver(c)
    <2> DEFINE r == loc[c].rl
    <2>1. /\ r \in RL /\ r \in Leaf /\ loc[c].timeout /\ loc[c].leaf = None
          /\ first_pkt_size[r][c] <= tokens[r][c]
      BY <1>1, <1>2, <1>19, Structure DEF Frame, HandOver, MaySend, Locals
    <2>2. first_pkt_size[r][c] # 0
      BY <1>1, <1>19, <2>1, PktNat, HeadPkt DEF Frame, HandOver
    <2>3. txc[r] \in RL
      BY <2>1, Structure DEF RL
    <2>4. UNCHANGED <<first_pkt_size, tokens, active_list>>
      BY <1>19 DEF HandOver, cbVars
    <2> QED
      BY <1>1, <1>19, <2>1, <2>2, <2>3, <2>4, HandOverEffect DEF Frame,
         HandOver
  <1>20. CASE HandedOver(c)
    <2> DEFINE r == loc[c].rl
                pkts == list[r][c]
    <2>1. r \in RL /\ loc[c].timeout
      BY <1>1, <1>20 DEF Frame, HandedOver
    <2>2. PayAndAdvance(c, pkts) /\ UNCHANGED active_list
      BY <1>20 DEF HandedOver, cbVars
    <2>3. list'[r][c] = pkts /\ \A q \in RL : q # r => list'[q][c] = list[q][c]
      BY <1>20, <2>1 DEF HandedOver, TypeOK
    <2>4. loc[c].leaf # None => loc[c].leaf \in RL /\ loc[c].leaf # r
      BY <1>1, <1>2, Structure DEF Frame, Locals, RL
    <2> HIDE DEF pkts
    <2>5. CASE pkts = <<>>
      <3>1. /\ pc'[c] = (IF loc[c].rl \in Leaf THEN "unlock" ELSE "timeout")
            /\ loc'[c].rl = loc[c].rl /\ loc'[c].to = loc[c].to
            /\ loc'[c].skb = loc[c].skb /\ loc'[c].segs = loc[c].segs
            /\ loc'[c].verdict = loc[c].verdict /\ loc'[c].timeout = FALSE
            /\ loc'[c].leaf = loc[c].leaf
            /\ loc'[c].leaf_timeout = loc[c].leaf_timeout
            /\ loc'[c].task = loc[c].task /\ loc'[c].more = loc[c].more
        BY <2>2, <2>5, LastPktEffect
      <3>2. list'[r][c] = <<>>
        BY <2>3, <2>5
      <3> QED
        BY <1>1, <1>3, <1>20, <2>1, <2>2, <2>3, <2>4, <3>1, <3>2 DEF Frame,
           HandedOver
    <2>6. CASE pkts # <<>>
      <3>1. first_pkt_size'[r][c] = Head(pkts)
        BY <2>1, <2>2, <2>6, PayEffect
      <3> QED
        BY <1>1, <1>3, <1>20, <2>1, <2>2, <2>3, <2>4, <2>6, <3>1,
           NextPktEffect DEF Frame, HandedOver
    <2> QED
      BY <2>5, <2>6
  <1>21. CASE LoopEnd(c)
    <2>1. UNCHANGED <<list, first_pkt_size, tokens, active_list>>
      BY <1>21 DEF LoopEnd, queueVars, cbVars
    <2> QED
      BY <1>1, <1>3, <1>21, <2>1, LoopEndEffect DEF Frame, LoopEnd
  <1>22. CASE TriggerParent(c)
    <2>1. /\ loc[c].rl \in Leaf /\ txc[loc[c].rl] \in RL
          /\ list[loc[c].rl][c] # <<>> => loc[c].timeout
      BY <1>1, <1>22, Structure DEF Frame, TriggerParent, RL
    <2>2. UNCHANGED <<list, first_pkt_size, tokens, active_list>>
      BY <1>22 DEF TriggerParent, queueVars, cbVars
    <2> QED
      BY <1>1, <1>22, <2>1, <2>2, TriggerParentEffect DEF Frame, TriggerParent
  <1>23. CASE DequeueReturn(c)
    <2>1. loc[c].more => active_list'[c] # <<>>
      BY <1>1, <1>23, LinkedNonEmpty DEF Frame, DequeueReturn, cbVars
    <2>2. UNCHANGED <<list, first_pkt_size, tokens>> /\ Return(c)
      BY <1>23 DEF DequeueReturn, queueVars
    <2>3. CASE loc[c].leaf # None
      <3>1. loc[c].leaf \in RL
        BY <1>2, <2>3 DEF Locals, RL
      <3> QED
        BY <1>1, <1>23, <2>1, <2>2, <2>3, <3>1, ReturnToLeafEffect DEF Frame,
           DequeueReturn
    <2>4. CASE loc[c].leaf = None /\ loc[c].task
      BY <1>1, <1>23, <2>1, <2>2, <2>4, ReturnToTaskletEffect DEF Frame,
         DequeueReturn
    <2>5. CASE loc[c].leaf = None /\ ~loc[c].task
      BY <2>2, <2>5, ReturnToTxEffect, IdleFrame
    <2> QED
      BY <2>3, <2>4, <2>5
  <1>24. CASE TaskletStart(c)
    <2>1. loc[c] = NoLocals /\ UNCHANGED active_list
      BY <1>1, <1>24 DEF Frame, TaskletStart
    <2> QED
      BY <1>24, <2>1, TaskletStartEffect DEF Frame
  <1>25. CASE TaskletNext(c)
    <2>1. Head(active_list[c]) \in RL /\ loc[c].leaf = None /\ loc[c].skb = 0
      <3>1. active_list[c] # <<>> /\ loc[c].leaf = None /\ loc[c].skb = 0
        BY <1>1, <1>25 DEF Frame, EnqLabels, TaskletNext
      <3>2. active_list \in [Cpu -> Seq(RL)]
        BY DEF TypeOK
      <3>3. active_list[c] \in Seq(RL)
        BY <3>2
      <3> QED
        BY SMTT(180), <3>1, <3>3
    <2> QED
      BY <1>25, <2>1, TaskletNextEffect DEF Frame
  <1>26. CASE TaskletEnd(c)
    BY <1>26, TaskletEndEffect, IdleFrame
  <1> QED
    BY <1>4, <1>5, <1>6, <1>6a, <1>7, <1>8, <1>9, <1>10, <1>11, <1>12,
       <1>13, <1>14, <1>14a, <1>15, <1>16, <1>17, <1>18, <1>19, <1>20, <1>21, <1>22,
       <1>23, <1>24, <1>25, <1>26 DEF Step, Clock, Enqueue, Dequeue, Tasklet

LEMMA FrameTx ==
  ASSUME TypeOK, FrameInv, NEW c \in Cpu, NEW d \in Leaf, NEW s \in PktSize, iso_tx(c, d, s)
  PROVE  Frame(c)'
  <1>1. loc[c] = NoLocals
    BY DEF FrameInv, Frame, iso_tx
  <1>2. pc'[c] = "clock" /\ loc'[c] = [NoLocals EXCEPT !.to = d, !.skb = s]
    BY <1>1, GotoEffect DEF iso_tx
  <1>3. /\ loc'[c].to = d /\ loc'[c].skb = s /\ loc'[c].leaf = None /\ ~loc'[c].more
    BY <1>2 DEF NoLocals
  <1>4. d \in RL /\ d \notin Class /\ s # 0
    BY Structure, PktNat DEF RL
  <1> QED
    BY <1>2, <1>3, <1>4 DEF Frame, EnqLabels, DeqLabels, HandingOver

LEMMA FrameStep == TypeOK /\ FrameInv /\ [Next]_vars => FrameInv'
  <1> SUFFICES ASSUME TypeOK, FrameInv, [Next]_vars, NEW e \in Cpu
               PROVE  Frame(e)'
    BY DEF FrameInv
  <1>1. Frame(e)
    BY DEF FrameInv
  <1>2. CASE UNCHANGED vars
    BY <1>1, <1>2, FrameOther DEF vars, cpuVars, queueVars, cbVars, Untouched
  <1>3. ASSUME NEW c \in Cpu,
               \/ \E d \in Leaf, r \in Rates : Feedback(c, d, r)
               \/ \E k \in Class, r \in Rates : TxcTick(c, k, r)
        PROVE  Frame(e)'
    BY <1>1, <1>3, FrameOther DEF Feedback, TxcTick, cpuVars, queueVars,
       cbVars, Untouched
  <1>4. ASSUME NEW c \in Cpu, iso_rl_timeout(c)
        PROVE  Frame(e)'
    BY <1>1, <1>4 DEF iso_rl_timeout, cpuVars, queueVars, Frame, HandingOver
  <1>5. ASSUME NEW c \in Cpu, NEW d \in Leaf, NEW s \in PktSize, iso_tx(c, d, s)
        PROVE  Frame(e)'
    BY <1>1, <1>5, FrameTx, Locality, FrameOther
  <1>6. ASSUME NEW c \in Cpu, Step(c)
        PROVE  Frame(e)'
    BY <1>1, <1>6, FrameOwn, Locality, FrameOther
  <1> QED
    BY <1>2, <1>3, <1>4, <1>5, <1>6 DEF Next

(* The rate limiters keep their types: in particular a queue's tokens never *)
(* become negative when iso_rl_dequeue pays for a packet, at any number of  *)
(* CPUs, whatever the races between iso_rl_clock and iso_rl_borrow_tokens.  *)
THEOREM TypeCorrect == Spec => []TypeOK
  <1>1. Init => TypeOK /\ FrameInv
    BY TypeInit, FrameInit
  <1>2. TypeOK /\ FrameInv /\ [Next]_vars => (TypeOK /\ FrameInv)'
    BY TypeStep, FrameStep
  <1> QED
    BY PTL, <1>1, <1>2 DEF Spec

-----------------------------------------------------------------------------
(* The safety properties.                                                  *)

(* iso_rl_enqueue never trims a packet: whenever the queue has no room for  *)
(* it, the condition of the drop holds.                                     *)
THEOREM OverflowAlwaysDrops ==
  \A bytes \in Int, len \in Nat : DropsOverflow(bytes, len)
  BY SMT, ParamAssumption DEF ParamAssumption, DropsOverflow, MIN_PKT_SIZE

LEMMA Invariants == Spec => [](TypeOK /\ FrameInv)
  <1>1. Init => TypeOK /\ FrameInv
    BY TypeInit, FrameInit
  <1>2. TypeOK /\ FrameInv /\ [Next]_vars => (TypeOK /\ FrameInv)'
    BY TypeStep, FrameStep
  <1> QED
    BY PTL, <1>1, <1>2 DEF Spec

-----------------------------------------------------------------------------
(* The lock of the token pool.                                              *)

(* Only iso_rl_borrow_tokens enters or leaves label locked.                 *)
LEMMA OutsideLock ==
  ASSUME TypeOK, FrameInv, NEW c \in Cpu,
         Step(c), ~BorrowLock(c), ~BorrowTake(c), ~BorrowShort(c)
  PROVE  UNCHANGED spinlock /\ pc[c] # "locked" /\ pc'[c] # "locked"
  <1>1. CASE Clock(c)
    <2>1. UNCHANGED spinlock /\ pc[c] # "locked"
      BY <1>1 DEF Clock, ClockNotDue, ClockRead, ClockWrite, ClockCap, rlVars
    <2>2. pc'[c] \in {"refill", "cap", "enqueue", "borrow"}
      BY <1>1, ClockNotDueEffect, ClockReadEffect, ClockWriteEffect, ClockCapEffect DEF Clock
    <2> QED
      BY <2>1, <2>2
  <1>2. CASE Enqueue(c)
    <2>1. CASE EnqueueSegment(c)
      BY SMT, <2>1, GotoEffect DEF EnqueueSegment, ReturnVerdict,
         AfterEnqueue, rlVars
    <2>2. CASE EnqueueSplit(c)
      BY <2>2, GotoEffect DEF EnqueueSplit, rlVars
    <2>3. CASE EnqueueDrop(c)
      BY SMT, <2>3, GotoEffect DEF EnqueueDrop, ReturnVerdict, AfterEnqueue,
         rlVars
    <2>4. CASE EnqueueTail(c)
      BY SMT, <2>4, GotoEffect DEF EnqueueTail, ReturnVerdict, AfterEnqueue,
         rlVars
    <2>5. CASE EnqueueError(c)
      BY SMT, <2>5, GotoEffect DEF EnqueueError, ReturnVerdict, AfterEnqueue,
         rlVars
    <2> QED
      BY <1>2, <2>1, <2>2, <2>3, <2>4, <2>5 DEF Enqueue
  <1>3. CASE Dequeue(c)
    <2>1. CASE NoBorrow(c) \/ BorrowFail(c) \/ PeekEmpty(c) \/ Peek(c)
      BY SMT, <2>1, GotoEffect DEF NoBorrow, BorrowFail, PeekEmpty, Peek,
         Unlock, rlVars
    <2>2. CASE Transmit(c) \/ HandedOver(c)
      <3>1. PICK pkts : PayAndAdvance(c, pkts)
        BY <2>2 DEF Transmit, HandedOver
      <3>2. \E l \in {"loop", Unlock(c)} : \E x : Goto(c, l, x)
        BY <3>1 DEF PayAndAdvance
      <3>3. pc'[c] \in {"loop", Unlock(c)}
        BY <3>2, GotoEffect
      <3>4. pc'[c] # "locked"
        BY <3>3 DEF Unlock
      <3> QED
        BY <2>2, <3>4 DEF Transmit, HandedOver, rlVars
    <2>3. CASE HandOver(c) \/ LoopEnd(c) \/ TriggerParent(c)
      BY SMT, <2>3, GotoEffect DEF HandOver, LoopEnd, TriggerParent, Unlock,
         rlVars
    <2>4. CASE DequeueReturn(c)
      BY SMT, <2>4, GotoEffect DEF DequeueReturn, Return, rlVars
    <2> QED
      BY <1>3, <2>1, <2>2, <2>3, <2>4 DEF Dequeue
  <1>4. CASE Tasklet(c)
    BY SMT, <1>4, GotoEffect DEF Tasklet, TaskletStart, TaskletNext,
       TaskletEnd, rlVars
  <1> QED
    BY <1>1, <1>2, <1>3, <1>4 DEF Step

LEMMA LockStep ==
  TypeOK /\ FrameInv /\ LockIsExclusive /\ [Next]_vars => LockIsExclusive'
  <1> SUFFICES ASSUME TypeOK, FrameInv, LockIsExclusive, [Next]_vars,
                      NEW e \in Cpu, NEW q \in RL
               PROVE  ((spinlock[q] = e) <=> (pc[e] = "locked" /\ loc[e].rl = q))'
    BY DEF LockIsExclusive
  <1>1. (spinlock[q] = e) <=> (pc[e] = "locked" /\ loc[e].rl = q)
    BY DEF LockIsExclusive
  <1>2. CASE UNCHANGED vars
    BY <1>1, <1>2 DEF vars, rlVars, cpuVars
  <1>3. ASSUME NEW c \in Cpu,
               \/ \E d \in Leaf, r \in Rates : Feedback(c, d, r)
               \/ \E k \in Class, r \in Rates : TxcTick(c, k, r)
               \/ iso_rl_timeout(c)
        PROVE  ((spinlock[q] = e) <=> (pc[e] = "locked" /\ loc[e].rl = q))'
    BY <1>1, <1>3 DEF Feedback, TxcTick, iso_rl_timeout, rlVars, cpuVars
  <1>4. ASSUME NEW c \in Cpu, NEW d \in Leaf, NEW s \in PktSize, iso_tx(c, d, s)
        PROVE  ((spinlock[q] = e) <=> (pc[e] = "locked" /\ loc[e].rl = q))'
    BY SMT, <1>1, <1>4, GotoEffect DEF iso_tx, rlVars
  <1>5. ASSUME NEW c \in Cpu, Step(c)
        PROVE  ((spinlock[q] = e) <=> (pc[e] = "locked" /\ loc[e].rl = q))'
    <2>1. e # c => pc'[e] = pc[e] /\ loc'[e] = loc[e]
      BY <1>5, Locality DEF Untouched
    <2>2. CASE BorrowLock(c)
      <3>1. pc'[c] = "locked" /\ loc'[c] = [loc[c] EXCEPT !.seen = total_tokens[loc[c].rl]]
        BY <2>2, GotoEffect DEF BorrowLock
      <3>2. loc'[c].rl = loc[c].rl
        BY <3>1, LocType DEF Locals
      <3>3. pc[c] = "borrow" /\ spinlock[loc[c].rl] = None
        BY <2>2 DEF BorrowLock, TryLock
      <3>4. spinlock' = [spinlock EXCEPT ![loc[c].rl] = c] /\ None # e
        BY <2>2, Structure DEF BorrowLock
      <3> QED
        BY <1>1, <2>1, <3>1, <3>2, <3>3, <3>4 DEF TypeOK
    <2>3. CASE BorrowTake(c)
      <3>1. pc'[c] = "peek" /\ pc[c] = "locked"
        BY <2>3, GotoEffect DEF BorrowTake
      <3>2. spinlock' = [spinlock EXCEPT ![loc[c].rl] = None] /\ None # e
        BY <2>3, Structure DEF BorrowTake
      <3>3. loc[c].rl \in RL /\ spinlock[loc[c].rl] = c
        BY SMTT(180), <3>1 DEF LockIsExclusive, FrameInv, Frame, DeqLabels
      <3> QED
        BY <1>1, <2>1, <3>1, <3>2, <3>3 DEF TypeOK
    <2>4. CASE BorrowShort(c)
      <3>1. pc'[c] = "timeout" /\ pc[c] = "locked"
        BY <2>4, GotoEffect DEF BorrowShort
      <3>2. spinlock' = [spinlock EXCEPT ![loc[c].rl] = None] /\ None # e
        BY <2>4, Structure DEF BorrowShort
      <3>3. loc[c].rl \in RL /\ spinlock[loc[c].rl] = c
        BY SMTT(180), <3>1 DEF LockIsExclusive, FrameInv, Frame, DeqLabels
      <3> QED
        BY <1>1, <2>1, <3>1, <3>2, <3>3 DEF TypeOK
    <2>5. CASE ~BorrowLock(c) /\ ~BorrowTake(c) /\ ~BorrowShort(c)
      BY <1>1, <1>5, <2>1, <2>5, OutsideLock
    <2> QED
      BY <2>2, <2>3, <2>4, <2>5
  <1> QED
    BY <1>2, <1>3, <1>4, <1>5 DEF Next

(* spin_trylock_irqsave protects the borrowing of tokens: rl->spinlock is   *)
(* held exactly by the CPU between the two halves of iso_rl_borrow_tokens.  *)
THEOREM LockExclusive == Spec => []LockIsExclusive
  <1>1. Init => LockIsExclusive
    BY Structure DEF Init, LockIsExclusive
  <1> QED
    BY PTL, <1>1, LockStep, Invariants DEF Spec

-----------------------------------------------------------------------------
(* The active lists.                                                        *)

LEMMA RangeAppend ==
  ASSUME NEW S, NEW s \in Seq(S), NEW x \in S
  PROVE  Range(Append(s, x)) = Range(s) \cup {x}
  <1>1. DOMAIN Append(s, x) = 1..(Len(s) + 1) /\ DOMAIN s = 1..Len(s) /\ Len(s) \in Nat
    BY SMT
  <1>2. Append(s, x)[Len(s) + 1] = x /\ \A i \in 1..Len(s) : Append(s, x)[i] = s[i]
    BY SMT
  <1>3. ASSUME NEW y \in Range(Append(s, x)) PROVE y \in Range(s) \cup {x}
    BY SMT, <1>1, <1>2, <1>3 DEF Range
  <1>4. ASSUME NEW y \in Range(s) \cup {x} PROVE y \in Range(Append(s, x))
    BY SMT, <1>1, <1>2, <1>4 DEF Range
  <1> QED
    BY <1>3, <1>4

LEMMA RangeTail ==
  ASSUME NEW S, NEW s \in Seq(S), s # <<>>
  PROVE  Range(s) \subseteq Range(Tail(s)) \cup {Head(s)}
  <1> SUFFICES ASSUME NEW i \in 1..Len(s), i # 1
               PROVE  s[i] \in Range(Tail(s))
    BY SMT DEF Range
  <1>1. i - 1 \in 1..Len(Tail(s)) /\ Tail(s)[i - 1] = s[i]
    BY SMT
  <1>2. DOMAIN Tail(s) = 1..Len(Tail(s))
    BY SMT
  <1> QED
    BY <1>1, <1>2 DEF Range

(* A step leaves its CPU's active list alone, appends a queue that is not   *)
(* on it, or removes its head.                                              *)
LEMMA ActiveListStep ==
  ASSUME TypeOK, FrameInv, NEW c \in Cpu, Step(c)
  PROVE  \/ active_list'[c] = active_list[c]
         \/ \E r \in RL : /\ r \notin Range(active_list[c])
                          /\ active_list'[c] = Append(active_list[c], r)
         \/ /\ active_list[c] # <<>>
            /\ active_list'[c] = Tail(active_list[c])
  <1>1. CASE Clock(c)
    BY <1>1 DEF Clock, ClockNotDue, ClockRead, ClockWrite, ClockCap, cbVars
  <1>2. CASE Enqueue(c)
    BY <1>2 DEF Enqueue, EnqueueDrop, EnqueueTail, EnqueueError, EnqueueSplit,
       EnqueueSegment, cbVars
  <1>3. CASE Dequeue(c) /\ ~DequeueReturn(c)
    BY <1>3 DEF Dequeue, NoBorrow, BorrowLock, BorrowTake, BorrowShort, BorrowFail,
       PeekEmpty, Peek, Transmit, HandOver, HandedOver, LoopEnd,
       TriggerParent, cbVars
  <1>4. CASE DequeueReturn(c)
    <2>1. loc[c].rl \in RL
      BY <1>4 DEF DequeueReturn, FrameInv, Frame, DeqLabels
    <2> QED
      BY <1>4, <2>1 DEF DequeueReturn, LinkAndArm, TypeOK, cbVars
  <1>5. CASE TaskletStart(c) \/ TaskletEnd(c)
    BY <1>5 DEF TaskletStart, TaskletEnd
  <1>6. CASE TaskletNext(c)
    BY <1>6, TaskletNextEffect DEF TaskletNext, FrameInv, Frame
  <1> QED
    BY <1>1, <1>2, <1>3, <1>4, <1>5, <1>6 DEF Step, Tasklet

Distinct(s) == \A i, j \in DOMAIN s : s[i] = s[j] => i = j

LEMMA DistinctAppend ==
  ASSUME NEW S, NEW s \in Seq(S), NEW x \in S, x \notin Range(s), Distinct(s)
  PROVE  Distinct(Append(s, x))
  BY SMT DEF Distinct, Range

LEMMA DistinctTail ==
  ASSUME NEW S, NEW s \in Seq(S), s # <<>>, Distinct(s)
  PROVE  Distinct(Tail(s))
  <1>1. DOMAIN Tail(s) = 1..(Len(s) - 1) /\ DOMAIN s = 1..Len(s)
    BY SMT
  <1>2. \A i \in DOMAIN Tail(s) : i + 1 \in DOMAIN s /\ Tail(s)[i] = s[i + 1]
    BY SMTT(180), <1>1
  <1> QED
    BY SMTT(180), <1>1, <1>2 DEF Distinct

LEMMA LinkedStep ==
  TypeOK /\ FrameInv /\ NeverLinkedTwice /\ [Next]_vars => NeverLinkedTwice'
  <1> SUFFICES ASSUME TypeOK, FrameInv, NeverLinkedTwice, [Next]_vars, NEW e \in Cpu
               PROVE  Distinct(active_list'[e])
    BY DEF NeverLinkedTwice, Distinct
  <1>1. Distinct(active_list[e]) /\ active_list[e] \in Seq(RL)
    BY DEF NeverLinkedTwice, Distinct, TypeOK
  <1>2. CASE UNCHANGED active_list
    BY <1>1, <1>2
  <1>3. ASSUME NEW c \in Cpu, Step(c)
        PROVE  Distinct(active_list'[e])
    <2>1. CASE e = c
      BY <1>1, <1>3, <2>1, ActiveListStep, DistinctAppend, DistinctTail
    <2>2. CASE e # c
      BY <1>1, <1>3, <2>2, Locality DEF Untouched
    <2> QED
      BY <2>1, <2>2
  <1> QED
    BY <1>2, <1>3 DEF Next, Feedback, TxcTick, iso_rl_timeout, iso_tx, vars,
       cbVars

(* The active list of a CPU stays a list: iso_rl_dequeue links a queue only *)
(* when it is not linked, so no entry ever occurs twice.                    *)
THEOREM LinkedOnce == Spec => []NeverLinkedTwice
  <1>1. Init => NeverLinkedTwice
    BY SMT DEF Init, NeverLinkedTwice
  <1> QED
    BY PTL, <1>1, LinkedStep, Invariants DEF Spec

-----------------------------------------------------------------------------
(* No lost wakeups.                                                         *)

Served(c) == active_list[c] # <<>> => timer[c] \/ xmit_timeout[c] \/ loc[c].task

Waiting(c) ==
  \A r \in RL : list[r][c] # <<>> => r \in Range(active_list[c]) \/ Busy(r, c)

LEMMA LinkEffect ==
  ASSUME TypeOK, NEW c \in Cpu, NEW r \in RL, LinkAndArm(c, r)
  PROVE  Range(active_list'[c]) = Range(active_list[c]) \cup {r}
  <1>1. active_list[c] \in Seq(RL)
    BY DEF TypeOK
  <1>2. CASE r \in Range(active_list[c])
    BY <1>2 DEF LinkAndArm
  <1>3. CASE r \notin Range(active_list[c])
    <2>1. active_list'[c] = Append(active_list[c], r)
      BY <1>3 DEF LinkAndArm, TypeOK
    <2> QED
      BY SMTT(180), <1>1, <2>1, RangeAppend
  <1> QED
    BY <1>2, <1>3

(* When iso_rl_enqueue returns, its caller goes on to dequeue the queue.    *)
LEMMA BusyAfterEnqueue ==
  ASSUME TypeOK, NEW c \in Cpu, Frame(c), pc[c] \in {"enqueue", "segment"},
         NEW v, ReturnVerdict(c, v), NEW r \in RL, Busy(r, c) \/ r = loc[c].to
  PROVE  Busy(r, c)'
  <1> USE DEF EnqLabels, DeqLabels, HandingOver
  <1>1. r = loc[c].to \/ (loc[c].to \in Class /\ r = loc[c].rl)
    BY Structure DEF Busy, Frame, RL
  <1>2. CASE loc[c].to \in Leaf
    BY <1>1, <1>2, VerdictEffect, Structure DEF Busy
  <1>3. CASE loc[c].to \in Class
    <2>1. loc[c].rl \in Leaf /\ txc[loc[c].rl] = loc[c].to
      BY <1>3 DEF Frame
    <2>2. pc'[c] = "handed" /\ loc'[c].rl = loc[c].rl
      BY <1>3, VerdictEffect, Structure
    <2> QED
      BY <1>1, <2>1, <2>2 DEF Busy
  <1> QED
    BY <1>2, <1>3 DEF Frame, RL

LEMMA WaitingOwn ==
  ASSUME TypeOK, FrameInv, NEW c \in Cpu, Step(c), Waiting(c)
  PROVE  Waiting(c)'
  <1> USE DEF EnqLabels, DeqLabels, HandingOver
  <1> SUFFICES ASSUME NEW r \in RL, list'[r][c] # <<>>
               PROVE  r \in Range(active_list'[c]) \/ Busy(r, c)'
    BY DEF Waiting
  <1>1. list[r][c] # <<>> => r \in Range(active_list[c]) \/ Busy(r, c)
    BY DEF Waiting
  <1>2. Frame(c)
    BY DEF FrameInv
  <1>3. loc[c].leaf # None => loc[c].leaf \in Leaf /\ loc[c].rl \notin Leaf
    BY <1>2, LocType, Structure DEF Frame, Locals
  <1>4. CASE ClockNotDue(c)
    <2>1. UNCHANGED <<list, active_list>>
      BY <1>4 DEF ClockNotDue, queueVars, cbVars
    <2> QED
      BY <1>1, <1>2, <1>3, <1>4, <2>1, ClockNotDueEffect DEF Frame, Busy,
         ClockNotDue
  <1>5. CASE ClockRead(c)
    <2>1. UNCHANGED <<list, active_list>>
      BY <1>5 DEF ClockRead, queueVars, cbVars
    <2> QED
      BY <1>1, <1>2, <1>3, <1>5, <2>1, ClockReadEffect DEF Frame, Busy,
         ClockRead
  <1>6. CASE ClockWrite(c)
    <2>1. UNCHANGED <<list, active_list>>
      BY <1>6 DEF ClockWrite, queueVars, cbVars
    <2> QED
      BY <1>1, <1>2, <1>3, <1>6, <2>1, ClockWriteEffect DEF Frame, Busy,
         ClockWrite
  <1>6a. CASE ClockCap(c)
    <2>1. UNCHANGED <<list, active_list>>
      BY <1>6a DEF ClockCap, queueVars, cbVars
    <2> QED
      BY <1>1, <1>2, <1>3, <1>6a, <2>1, ClockCapEffect DEF Frame, Busy,
         ClockCap
  <1>7. CASE EnqueueDrop(c)
    <2>1. UNCHANGED <<list, active_list>>
      BY <1>7 DEF EnqueueDrop, queueVars, cbVars
    <2>2. PICK v : ReturnVerdict(c, v)
      BY <1>7 DEF EnqueueDrop
    <2> QED
      BY <1>1, <1>2, <1>7, <2>1, <2>2, BusyAfterEnqueue DEF EnqueueDrop
  <1>8. CASE EnqueueTail(c)
    <2>1. UNCHANGED active_list /\ (r # loc[c].to => list'[r][c] = list[r][c])
      <3>1. loc[c].to \in RL /\ QueueTail(loc[c].to, c, loc[c].skb)
        BY <1>2, <1>8 DEF EnqueueTail, Frame
      <3>2. UNCHANGED active_list
        BY <1>8 DEF EnqueueTail, cbVars
      <3> QED
        BY <3>1, <3>2, QueueTailEffect
    <2>2. ReturnVerdict(c, "SUCCESS")
      BY <1>8 DEF EnqueueTail
    <2> QED
      BY <1>1, <1>2, <1>8, <2>1, <2>2, BusyAfterEnqueue DEF EnqueueTail
  <1>9. CASE EnqueueError(c)
    <2>1. UNCHANGED <<list, active_list>>
      BY <1>9 DEF EnqueueError, queueVars, cbVars
    <2>2. PICK v : ReturnVerdict(c, v)
      BY <1>9 DEF EnqueueError
    <2> QED
      BY <1>1, <1>2, <1>9, <2>1, <2>2, BusyAfterEnqueue DEF EnqueueError
  <1>10. CASE EnqueueSplit(c)
    <2>1. UNCHANGED <<list, active_list>>
      BY <1>10 DEF EnqueueSplit, queueVars, cbVars
    <2>2. PICK segs \in GsoSegs[loc[c].skb] : Goto(c, "segment", [loc[c] EXCEPT !.segs = segs])
      BY <1>10 DEF EnqueueSplit
    <2>3. /\ pc'[c] = "segment"
          /\ loc'[c].rl = loc[c].rl /\ loc'[c].to = loc[c].to
          /\ loc'[c].skb = loc[c].skb /\ loc'[c].leaf = loc[c].leaf
      BY <2>2, SplitEffect
    <2> QED
      BY <1>1, <1>2, <1>10, <2>1, <2>3 DEF Frame, Busy, EnqueueSplit
  <1>11. CASE EnqueueSegment(c)
    <2>1. UNCHANGED active_list /\ (r # loc[c].to => list'[r][c] = list[r][c])
      BY SMTT(180), <1>2, <1>11, QueueTailEffect DEF EnqueueSegment, Frame,
         queueVars, cbVars
    <2>2. CASE ReturnVerdict(c, "SUCCESS")
      BY <1>1, <1>2, <1>11, <2>1, <2>2, BusyAfterEnqueue DEF EnqueueSegment
    <2>3. CASE Goto(c, "segment", [loc[c] EXCEPT !.segs = Tail(loc[c].segs)])
      BY <1>1, <1>2, <1>11, <2>1, <2>3, SplitEffect DEF Frame, Busy,
         EnqueueSegment
    <2> QED
      BY <1>11, <2>2, <2>3 DEF EnqueueSegment
  <1>12. CASE NoBorrow(c)
    <2>1. UNCHANGED <<list, active_list>>
      BY <1>12 DEF NoBorrow, queueVars, cbVars
    <2> QED
      BY <1>1, <1>2, <1>3, <1>12, <2>1, NoBorrowEffect DEF Frame, Busy,
         NoBorrow
  <1>13. CASE BorrowLock(c)
    <2>1. UNCHANGED <<list, active_list>>
      BY <1>13 DEF BorrowLock, queueVars, cbVars
    <2> QED
      BY <1>1, <1>2, <1>3, <1>13, <2>1, BorrowLockEffect DEF Frame, Busy,
         BorrowLock
  <1>14. CASE BorrowTake(c)
    <2>1. UNCHANGED <<list, active_list>>
      BY <1>14 DEF BorrowTake, queueVars, cbVars
    <2> QED
      BY <1>1, <1>2, <1>3, <1>14, <2>1, BorrowTakeEffect DEF Frame, Busy,
         BorrowTake
  <1>14a. CASE BorrowShort(c)
    <2>1. UNCHANGED <<list, active_list>>
      BY <1>14a DEF BorrowShort, queueVars, cbVars
    <2> QED
      BY <1>1, <1>2, <1>3, <1>14a, <2>1, BorrowShortEffect DEF Frame, Busy,
         BorrowShort
  <1>15. CASE BorrowFail(c)
    <2>1. UNCHANGED <<list, active_list>>
      BY <1>15 DEF BorrowFail, queueVars, cbVars
    <2> QED
      BY <1>1, <1>2, <1>3, <1>15, <2>1, BorrowFailEffect DEF Frame, Busy,
         BorrowFail
  <1>16. CASE PeekEmpty(c)
    <2>1. UNCHANGED <<list, active_list>>
      BY <1>16 DEF PeekEmpty, queueVars, cbVars
    <2> QED
      BY <1>1, <1>2, <1>3, <1>16, <2>1, PeekEmptyEffect DEF Frame, Busy,
         PeekEmpty
  <1>17. CASE Peek(c)
    <2>1. UNCHANGED <<list, active_list>>
      BY <1>17 DEF Peek, queueVars, cbVars
    <2> QED
      BY <1>1, <1>2, <1>3, <1>17, <2>1, PeekEffect DEF Frame, Busy, Peek
  <1>18. CASE Transmit(c)
    <2>1. PICK pkts : PayAndAdvance(c, pkts) /\ list'[loc[c].rl][c] = pkts
      BY <1>2, <1>18 DEF Transmit, Frame, TypeOK
    <2>2. UNCHANGED active_list /\ (r # loc[c].rl => list'[r][c] = list[r][c])
      BY <1>2, <1>18 DEF Transmit, Frame, TypeOK, cbVars
    <2>3. CASE pkts = <<>>
      <3>1. /\ pc'[c] = (IF loc[c].rl \in Leaf THEN "unlock" ELSE "timeout")
            /\ loc'[c].rl = loc[c].rl /\ loc'[c].leaf = loc[c].leaf
        BY <2>1, <2>3, LastPktEffect
      <3>2. r # loc[c].rl
        BY <2>1, <2>3
      <3> QED
        BY <1>1, <1>2, <1>3, <1>18, <2>2, <3>1, <3>2 DEF Frame, Busy, Transmit
    <2>4. CASE pkts # <<>>
      <3>1. /\ pc'[c] = "loop"
            /\ loc'[c].rl = loc[c].rl /\ loc'[c].leaf = loc[c].leaf
        BY <2>1, <2>4, NextPktEffect
      <3> QED
        BY <1>1, <1>2, <1>3, <1>18, <2>2, <3>1 DEF Frame, Busy, Transmit
    <2> QED
      BY <2>3, <2>4
  <1>19. CASE HandOver(c)
    <2>1. UNCHANGED active_list /\ (r # loc[c].rl => list'[r][c] = list[r][c])
      BY <1>2, <1>19 DEF HandOver, Frame, TypeOK, cbVars
    <2>2. first_pkt_size[loc[c].rl][c] # 0
      BY <1>2, <1>19, PktNat, HeadPkt DEF Frame, HandOver
    <2>3. loc[c].rl \in Leaf /\ txc[loc[c].rl] \in Class
      BY <1>19, Structure DEF HandOver
    <2> QED
      BY <1>1, <1>2, <1>3, <1>19, <2>1, <2>2, <2>3, HandOverEffect DEF Frame,
         Busy, HandOver
  <1>20. CASE HandedOver(c)
    <2>1. PICK pkts : PayAndAdvance(c, pkts) /\ list'[loc[c].rl][c] = pkts
      BY <1>2, <1>20 DEF HandedOver, Frame, TypeOK
    <2>2. UNCHANGED active_list /\ (r # loc[c].rl => list'[r][c] = list[r][c])
      BY <1>2, <1>20 DEF HandedOver, Frame, TypeOK, cbVars
    <2>3. CASE pkts = <<>>
      <3>1. /\ pc'[c] = (IF loc[c].rl \in Leaf THEN "unlock" ELSE "timeout")
            /\ loc'[c].rl = loc[c].rl /\ loc'[c].leaf = loc[c].leaf
        BY <2>1, <2>3, LastPktEffect
      <3>2. r # loc[c].rl
        BY <2>1, <2>3
      <3> QED
        BY <1>1, <1>2, <1>3, <1>20, <2>2, <3>1, <3>2 DEF Frame, Busy,
           HandedOver
    <2>4. CASE pkts # <<>>
      <3>1. /\ pc'[c] = "loop"
            /\ loc'[c].rl = loc[c].rl /\ loc'[c].leaf = loc[c].leaf
        BY <2>1, <2>4, NextPktEffect
      <3> QED
        BY <1>1, <1>2, <1>3, <1>20, <2>2, <3>1 DEF Frame, Busy, HandedOver
    <2> QED
      BY <2>3, <2>4
  <1>21. CASE LoopEnd(c)
    <2>1. UNCHANGED <<list, active_list>>
      BY <1>21 DEF LoopEnd, queueVars, cbVars
    <2> QED
      BY <1>1, <1>2, <1>3, <1>21, <2>1, LoopEndEffect DEF Frame, Busy, LoopEnd
  <1>22. CASE TriggerParent(c)
    <2>1. UNCHANGED <<list, active_list>>
      BY <1>22 DEF TriggerParent, queueVars, cbVars
    <2>2. loc[c].leaf = None /\ r # None /\ pc[c] = "unlock"
      BY <1>2, <1>22, Structure DEF Frame, TriggerParent, RL
    <2> QED
      BY <1>1, <1>2, <1>22, <2>1, <2>2, TriggerParentEffect DEF Busy
  <1>23. CASE DequeueReturn(c)
    <2>1. UNCHANGED list /\ Return(c)
      BY <1>23 DEF DequeueReturn, queueVars
    <2>2. Range(active_list[c]) \subseteq Range(active_list'[c])
      <3>1. active_list[c] \in Seq(RL) /\ loc[c].rl \in RL
        BY <1>2, <1>23 DEF DequeueReturn, Frame, TypeOK
      <3> QED
        BY <1>23, <3>1, LinkEffect DEF DequeueReturn, cbVars
    <2>3. r = loc[c].rl => r \in Range(active_list'[c])
      <3>2. r = loc[c].rl => loc[c].timeout
        BY <1>2, <1>23, <2>1 DEF DequeueReturn, Frame
      <3> QED
        BY <1>23, <3>2, LinkEffect DEF DequeueReturn
    <2>4. r \in Range(active_list'[c]) \/ loc[c].leaf = r
      BY <1>1, <1>23, <2>1, <2>2, <2>3 DEF DequeueReturn, Busy
    <2> QED
      BY <2>1, <2>4, Structure, ReturnToLeafEffect DEF Busy, RL
  <1>24. CASE TaskletStart(c)
    <2>1. loc[c] = NoLocals /\ pc[c] = "idle" /\ UNCHANGED <<list, active_list>>
      BY <1>2, <1>24 DEF Frame, TaskletStart, queueVars
    <2>2. ~Busy(r, c)
      <3>1. loc[c].leaf # r
        BY <2>1, NoLocalsFields, Structure DEF RL
      <3>2. pc[c] \notin EnqLabels /\ pc[c] \notin DeqLabels
            /\ pc[c] \notin {"loop", "handed", "unlock"}
        BY <2>1 DEF EnqLabels, DeqLabels
      <3> QED
        BY <3>1, <3>2 DEF Busy, HandingOver
    <2> QED
      BY <1>1, <2>1, <2>2
  <1>25. CASE TaskletNext(c)
    <2>1. active_list[c] \in Seq(RL) /\ active_list[c] # <<>> /\ UNCHANGED list
      BY <1>2, <1>25 DEF Frame, TaskletNext, TypeOK, queueVars
    <2>2. ~Busy(r, c)
      BY <1>2, <1>25, Structure DEF Busy, TaskletNext, Frame, RL
    <2>3. r \in Range(active_list[c])
      BY <1>1, <2>1, <2>2
    <2>4. r = Head(active_list[c]) \/ r \in Range(Tail(active_list[c]))
      BY <2>1, <2>3, RangeTail
    <2> QED
      BY <1>25, <2>4, TaskletNextEffect DEF Busy
  <1>26. CASE TaskletEnd(c)
    <2>1. UNCHANGED <<list, active_list>>
      BY <1>26 DEF TaskletEnd, queueVars
    <2>2. ~Busy(r, c)
      BY <1>2, <1>26, Structure DEF Busy, TaskletEnd, Frame, RL
    <2> QED
      BY <1>1, <2>1, <2>2
  <1> QED
    BY <1>4, <1>5, <1>6, <1>6a, <1>7, <1>8, <1>9, <1>10, <1>11, <1>12, <1>13, <1>14,
       <1>14a, <1>15, <1>16, <1>17, <1>18, <1>19, <1>20, <1>21, <1>22, <1>23, <1>24,
       <1>25, <1>26 DEF Step, Clock, Enqueue, Dequeue, Tasklet

(* Only the end of a dequeue and the tasklet touch the active list, the     *)
(* timer, and whether the CPU runs the tasklet.                             *)
LEMMA SameTask ==
  ASSUME TypeOK, NEW c \in Cpu,
         Clock(c) \/ Enqueue(c) \/ (Dequeue(c) /\ ~DequeueReturn(c))
  PROVE  loc'[c].task = loc[c].task /\ UNCHANGED cbVars
  <1>1. CASE Clock(c)
    BY <1>1, ClockNotDueEffect, ClockReadEffect, ClockWriteEffect, ClockCapEffect
       DEF Clock, ClockNotDue, ClockRead, ClockWrite, ClockCap
  <1>2. CASE Enqueue(c)
    <2>1. UNCHANGED cbVars
      BY <1>2 DEF Enqueue, EnqueueDrop, EnqueueTail, EnqueueError,
         EnqueueSplit, EnqueueSegment
    <2>2. ASSUME NEW segs, Goto(c, "segment", [loc[c] EXCEPT !.segs = segs])
          PROVE  loc'[c].task = loc[c].task
      BY <2>2, SplitEffect
    <2>3. ASSUME NEW v, ReturnVerdict(c, v)
          PROVE  loc'[c].task = loc[c].task
      BY <2>3, VerdictEffect
    <2> QED
      BY <1>2, <2>1, <2>2, <2>3 DEF Enqueue, EnqueueDrop, EnqueueTail,
         EnqueueError, EnqueueSplit, EnqueueSegment
  <1>3. CASE Transmit(c) \/ HandedOver(c)
    <2>1. PICK pkts : PayAndAdvance(c, pkts)
      BY <1>3 DEF Transmit, HandedOver
    <2>2. loc'[c].task = loc[c].task
      BY <2>1, LastPktEffect, NextPktEffect
    <2> QED
      BY <1>3, <2>2 DEF Transmit, HandedOver
  <1>4. CASE \/ NoBorrow(c) \/ BorrowLock(c) \/ BorrowTake(c)
             \/ BorrowShort(c) \/ BorrowFail(c)
    BY <1>4, NoBorrowEffect, BorrowLockEffect, BorrowTakeEffect, BorrowShortEffect,
       BorrowFailEffect DEF NoBorrow, BorrowLock, BorrowTake, BorrowShort, BorrowFail
  <1>5. CASE PeekEmpty(c) \/ Peek(c) \/ HandOver(c) \/ LoopEnd(c) \/ TriggerParent(c)
    BY <1>5, PeekEmptyEffect, PeekEffect, HandOverEffect, LoopEndEffect,
       TriggerParentEffect DEF PeekEmpty, Peek, HandOver, LoopEnd,
       TriggerParent
  <1> QED
    BY <1>1, <1>2, <1>3, <1>4, <1>5 DEF Dequeue

LEMMA ServedOwn ==
  ASSUME TypeOK, FrameInv, NEW c \in Cpu, Step(c), Served(c)
  PROVE  Served(c)'
  <1>1. CASE Clock(c) \/ Enqueue(c) \/ (Dequeue(c) /\ ~DequeueReturn(c))
    BY <1>1, SameTask DEF Served, cbVars
  <1>2. CASE DequeueReturn(c)
    <2>1. Return(c)
      BY <1>2 DEF DequeueReturn
    <2>2. CASE LinkAndArm(c, loc[c].rl)
      BY <2>2 DEF LinkAndArm, Served, TypeOK
    <2>3. CASE UNCHANGED cbVars
      <3>1. loc[c].task => loc'[c].task
        BY <2>1, ReturnToLeafEffect, ReturnToTaskletEffect
      <3> QED
        BY <2>3, <3>1 DEF Served, cbVars
    <2> QED
      BY <1>2, <2>2, <2>3 DEF DequeueReturn
  <1>3. CASE TaskletStart(c)
    BY <1>3, TaskletStartEffect DEF Served, TaskletStart, FrameInv, Frame
  <1>4. CASE TaskletNext(c)
    <2>1. active_list[c] # <<>>
      BY <1>4 DEF TaskletNext, FrameInv, Frame
    <2> QED
      BY <1>4, <2>1, TaskletNextEffect DEF Served, TaskletNext
  <1>5. CASE TaskletEnd(c)
    BY <1>5 DEF TaskletEnd, Rearm, Served, TypeOK
  <1> QED
    BY <1>1, <1>2, <1>3, <1>4, <1>5 DEF Step, Tasklet

LEMMA WakeupOther ==
  ASSUME NEW e \in Cpu, Untouched(e), Served(e), Waiting(e)
  PROVE  Served(e)' /\ Waiting(e)'
  <1>1. \A r \in RL : Busy(r, e)' <=> Busy(r, e)
    BY DEF Untouched, Busy, HandingOver
  <1> QED
    BY <1>1 DEF Untouched, Served, Waiting

LEMMA IdleNotBusy ==
  ASSUME NEW c \in Cpu, loc[c] = NoLocals, pc[c] = "idle", NEW r \in RL
  PROVE  ~Busy(r, c)
  <1>1. r # None /\ "idle" \notin EnqLabels \cup DeqLabels \cup {"segment", "handed"}
    BY Structure DEF RL, EnqLabels, DeqLabels
  <1>2. loc[c].rl = None /\ loc[c].to = None /\ loc[c].leaf = None
    BY SMT DEF NoLocals
  <1> QED
    BY <1>1, <1>2 DEF Busy, HandingOver

LEMMA WakeupTx ==
  ASSUME TypeOK, FrameInv, NEW c \in Cpu, NEW d \in Leaf, NEW s \in PktSize,
         iso_tx(c, d, s), Served(c), Waiting(c)
  PROVE  Served(c)' /\ Waiting(c)'
  <1>1. loc[c] = NoLocals /\ pc[c] = "idle"
    BY DEF FrameInv, Frame, iso_tx
  <1>2. \A r \in RL : ~Busy(r, c)
    BY <1>1, IdleNotBusy
  <1>3. ~loc[c].task
    BY <1>1, NoLocalsFields
  <1> QED
    BY <1>2, <1>3 DEF Served, Waiting, iso_tx, queueVars, cbVars

LEMMA WakeupStep ==
  TypeOK /\ FrameInv /\ WakeupInv /\ [Next]_vars => WakeupInv'
  <1> SUFFICES ASSUME TypeOK, FrameInv, WakeupInv, [Next]_vars, NEW e \in Cpu
               PROVE  Served(e)' /\ Waiting(e)'
    BY DEF WakeupInv, ListedIsServed, Served, Waiting
  <1>1. Served(e) /\ Waiting(e)
    BY DEF WakeupInv, ListedIsServed, Served, Waiting
  <1>2. CASE UNCHANGED vars
    BY <1>1, <1>2, WakeupOther DEF vars, queueVars, cbVars, cpuVars, Untouched
  <1>3. ASSUME NEW c \in Cpu,
               \/ \E d \in Leaf, r \in Rates : Feedback(c, d, r)
               \/ \E k \in Class, r \in Rates : TxcTick(c, k, r)
        PROVE  Served(e)' /\ Waiting(e)'
    BY <1>1, <1>3, WakeupOther DEF Feedback, TxcTick, queueVars, cbVars,
       cpuVars, Untouched
  <1>4. ASSUME NEW c \in Cpu, iso_rl_timeout(c)
        PROVE  Served(e)' /\ Waiting(e)'
    <2>1. Served(e)'
      BY <1>1, <1>4 DEF iso_rl_timeout, Served, TypeOK, cpuVars
    <2>2. Waiting(e)'
      BY <1>1, <1>4 DEF iso_rl_timeout, Waiting, Busy, HandingOver, queueVars,
         cpuVars
    <2> QED
      BY <2>1, <2>2
  <1>5. ASSUME NEW c \in Cpu, NEW d \in Leaf, NEW s \in PktSize, iso_tx(c, d, s)
        PROVE  Served(e)' /\ Waiting(e)'
    BY <1>1, <1>5, WakeupTx, Locality, WakeupOther
  <1>6. ASSUME NEW c \in Cpu, Step(c)
        PROVE  Served(e)' /\ Waiting(e)'
    BY <1>1, <1>6, ServedOwn, WaitingOwn, Locality, WakeupOther
  <1> QED
    BY <1>2, <1>3, <1>4, <1>5, <1>6 DEF Next

LEMMA WakeupInvariant == Spec => []WakeupInv
  <1>1. Init => WakeupInv
    BY SMT DEF Init, WakeupInv, ListedIsServed
  <1> QED
    BY PTL, <1>1, WakeupStep, Invariants DEF Spec

(* No queue is forgotten with packets in it: whenever a CPU is outside the  *)
(* rate limiter, each of its backlogged queues is on its active list.       *)
THEOREM NoLostBacklog == Spec => []BacklogIsListed
  <1>1. TypeOK /\ FrameInv /\ WakeupInv => BacklogIsListed
    <2> SUFFICES ASSUME FrameInv, WakeupInv, NEW c \in Cpu, NEW r \in RL,
                        pc[c] = "idle", list[r][c] # <<>>
                 PROVE  r \in Range(active_list[c])
      BY DEF BacklogIsListed
    <2>1. loc[c] = NoLocals
      BY DEF FrameInv, Frame
    <2>2. ~Busy(r, c)
      BY <2>1, IdleNotBusy
    <2> QED
      BY <2>2 DEF WakeupInv
  <1> QED
    BY PTL, <1>1, WakeupInvariant, Invariants

(* An active list that is not empty has a timer or a tasklet that will look *)
(* at it.                                                                   *)
THEOREM NoLostTimer == Spec => []ListedIsServed
  <1>1. WakeupInv => ListedIsServed
    BY DEF WakeupInv
  <1> QED
    BY PTL, <1>1, WakeupInvariant

-----------------------------------------------------------------------------
(* The token pool.                                                          *)

LEMMA QueueTypes ==
  ASSUME TypeOK, NEW r \in RL, NEW c \in Cpu
  PROVE  /\ tokens[r][c] \in Nat
         /\ bytes_enqueued[r][c] \in Int
         /\ first_pkt_size[r][c] \in PktSize \cup {0}
         /\ first_pkt_size[r][c] \in Nat
  <1>1. /\ tokens[r][c] \in Nat
        /\ bytes_enqueued[r][c] \in Int
        /\ first_pkt_size[r][c] \in PktSize \cup {0}
    BY DEF TypeOK
  <1>2. \A x \in PktSize \cup {0} : x \in Nat
    BY SMTT(180), PktNat
  <1> QED
    BY <1>1, <1>2

LEMMA PoolStep ==
  ASSUME NEW c \in Cpu, Step(c), ~ClockWrite(c), ~ClockCap(c), ~BorrowTake(c)
  PROVE  UNCHANGED total_tokens
  BY DEF Step, Clock, Enqueue, Dequeue, Tasklet, ClockNotDue, ClockRead,
     EnqueueDrop, EnqueueTail, EnqueueError, EnqueueSplit, EnqueueSegment,
     NoBorrow, BorrowLock, BorrowShort, BorrowFail, PeekEmpty, Peek, Transmit, HandOver,
     HandedOver, LoopEnd, TriggerParent, DequeueReturn, TaskletStart,
     TaskletNext, TaskletEnd, rlVars

LEMMA TokensStep ==
  ASSUME NEW c \in Cpu, Step(c), ~BorrowTake(c), ~Transmit(c), ~HandedOver(c)
  PROVE  UNCHANGED tokens
  <1>1. CASE EnqueueDrop(c) \/ EnqueueError(c) \/ EnqueueSplit(c)
    BY <1>1 DEF EnqueueDrop, EnqueueError, EnqueueSplit, queueVars
  <1>2. CASE EnqueueTail(c)
    BY <1>2 DEF EnqueueTail, QueueTail
  <1>3. CASE EnqueueSegment(c)
    BY <1>3 DEF EnqueueSegment, QueueTail, queueVars
  <1> QED
    BY <1>1, <1>2, <1>3 DEF Step, Enqueue, Clock, Dequeue, Tasklet, ClockNotDue, ClockRead,
       ClockWrite, ClockCap, NoBorrow, BorrowLock, BorrowShort, BorrowFail, PeekEmpty, Peek,
       HandOver, LoopEnd, TriggerParent, DequeueReturn, TaskletStart,
       TaskletNext, TaskletEnd, queueVars

(* Every label belongs to one function: only the second store of            *)
(* iso_rl_clock leaves label cap.                                           *)
LEMMA LeavesCap ==
  ASSUME NEW c \in Cpu, Step(c), pc[c] = "cap"
  PROVE  ClockCap(c)
  <1>1. ~Clock(c) => FALSE
    BY DEF Step, Enqueue, Dequeue, Tasklet,
       EnqueueDrop, EnqueueTail, EnqueueError, EnqueueSplit, EnqueueSegment,
       NoBorrow, BorrowLock, BorrowTake, BorrowShort, BorrowFail, PeekEmpty, Peek,
       Transmit, HandOver, HandedOver, LoopEnd, TriggerParent, DequeueReturn,
       TaskletStart, TaskletNext, TaskletEnd
  <1> QED
    BY <1>1 DEF Clock, ClockNotDue, ClockRead, ClockWrite

(* A pool that was raced for stays so.                                      *)
LEMMA RacedKept ==
  ASSUME NEW c \in Cpu, Step(c)
  PROVE  raced \subseteq raced'
  <1>1. CASE ClockRead(c)
    BY <1>1 DEF ClockRead, NoteRace
  <1>2. CASE BorrowLock(c)
    BY <1>2 DEF BorrowLock, NoteRace
  <1>3. CASE ~ClockRead(c) /\ ~BorrowLock(c)
    <2>1. UNCHANGED raced
      BY <1>3 DEF Step, Clock, Enqueue, Dequeue, Tasklet, ClockNotDue, ClockWrite, ClockCap,
         EnqueueDrop, EnqueueTail, EnqueueError, EnqueueSplit, EnqueueSegment,
         NoBorrow, BorrowTake, BorrowShort, BorrowFail, PeekEmpty, Peek,
         Transmit, HandOver, HandedOver, LoopEnd, TriggerParent, DequeueReturn,
         TaskletStart, TaskletNext, TaskletEnd, rlVars
    <2> QED
      BY <2>1
  <1> QED
    BY <1>1, <1>2, <1>3

(* Only iso_rl_clock enters its two labels in the pool.                     *)
LEMMA OutsideClock ==
  ASSUME TypeOK, FrameInv, NEW c \in Cpu, Step(c), ~Clock(c)
  PROVE  pc'[c] \notin {"refill", "cap"}
  <1>1. CASE Enqueue(c)
    BY <1>1, VerdictEffect, SplitEffect DEF Enqueue, EnqueueDrop, EnqueueTail,
       EnqueueError, EnqueueSplit, EnqueueSegment
  <1>2. CASE HandOver(c)
    BY <1>2, HandOverEffect
  <1>3. CASE Transmit(c) \/ HandedOver(c)
    <2>1. PICK pkts : PayAndAdvance(c, pkts)
      BY <1>3 DEF Transmit, HandedOver
    <2> QED
      BY <2>1, LastPktEffect, NextPktEffect
  <1>4. CASE \/ NoBorrow(c) \/ BorrowLock(c) \/ BorrowTake(c)
             \/ BorrowShort(c) \/ BorrowFail(c)
    BY <1>4, NoBorrowEffect, BorrowLockEffect, BorrowTakeEffect,
       BorrowShortEffect, BorrowFailEffect
  <1>5. CASE PeekEmpty(c) \/ Peek(c) \/ LoopEnd(c) \/ TriggerParent(c)
    BY <1>5, PeekEmptyEffect, PeekEffect, LoopEndEffect, TriggerParentEffect
  <1>6. CASE DequeueReturn(c)
    <2>1. Return(c)
      BY <1>6 DEF DequeueReturn
    <2> QED
      BY <2>1, ReturnToLeafEffect, ReturnToTaskletEffect, ReturnToTxEffect
  <1>7. CASE TaskletStart(c) \/ TaskletEnd(c)
    BY <1>7, TaskletStartEffect, TaskletEndEffect DEF TaskletStart, FrameInv, Frame
  <1>8. CASE TaskletNext(c)
    BY <1>8, TaskletNextEffect DEF TaskletNext, FrameInv, Frame
  <1> QED
    BY <1>1, <1>2, <1>3, <1>4, <1>5, <1>6, <1>7, <1>8 DEF Step, Dequeue, Tasklet

(* A CPU that comes into a pool without a race finds nobody there.          *)
LEMMA EnterPool ==
  ASSUME TypeOK, FrameInv, NEW c \in Cpu, Step(c), NEW r \in RL,
         InPool(c, r)', r \notin raced', ~InPool(c, r)
  PROVE  \A o \in Cpu : o # c => ~InPool(o, r)
  <1>1. \/ pc'[c] \in {"refill", "cap"} /\ loc'[c].to = r
        \/ pc'[c] = "locked" /\ loc'[c].rl = r
    BY DEF InPool
  <1>2. CASE ClockRead(c)
    <2>1. pc'[c] = "refill" /\ loc'[c].to = loc[c].to
      BY <1>2, ClockReadEffect
    <2>2. loc[c].to = r
      BY <1>1, <2>1
    <2>3. NoteRace(c, r)
      BY <1>2, <2>2 DEF ClockRead
    <2> QED
      BY <2>3 DEF NoteRace
  <1>3. CASE ClockWrite(c)
    <2>1. pc[c] = "refill" /\ pc'[c] = "cap" /\ loc'[c].to = loc[c].to
      BY <1>3, ClockWriteEffect DEF ClockWrite
    <2> QED
      BY <1>1, <2>1 DEF InPool
  <1>4. CASE BorrowLock(c)
    <2>1. pc'[c] = "locked" /\ loc'[c].rl = loc[c].rl
      BY <1>4, BorrowLockEffect
    <2>2. loc[c].rl = r
      BY <1>1, <2>1
    <2>3. NoteRace(c, r)
      BY <1>4, <2>2 DEF BorrowLock
    <2> QED
      BY <2>3 DEF NoteRace
  <1>5. CASE ~ClockRead(c) /\ ~ClockWrite(c) /\ ~BorrowLock(c)
    <2>1. pc'[c] # "locked"
      BY <1>5, OutsideLock, BorrowTakeEffect, BorrowShortEffect
    <2>2. pc'[c] \notin {"refill", "cap"}
      BY <1>5, OutsideClock, ClockNotDueEffect, ClockCapEffect DEF Clock
    <2> QED
      BY <1>1, <2>1, <2>2
  <1> QED
    BY <1>2, <1>3, <1>4, <1>5

(* The pool changes only under a CPU that is in it.                         *)
LEMMA PoolChange ==
  ASSUME TypeOK, FrameInv, NEW c \in Cpu, Step(c), NEW r \in RL, ~InPool(c, r)
  PROVE  total_tokens'[r] = total_tokens[r]
  <1>1. CASE ClockWrite(c)
    <2>1. loc[c].to # r
      BY <1>1 DEF ClockWrite, InPool
    <2> QED
      BY <1>1, <2>1 DEF ClockWrite, TypeOK
  <1>2. CASE ClockCap(c)
    <2>1. loc[c].to # r
      BY <1>2 DEF ClockCap, InPool
    <2> QED
      BY <1>2, <2>1 DEF ClockCap, TypeOK
  <1>3. CASE BorrowTake(c)
    <2>1. loc[c].rl # r
      BY <1>3 DEF BorrowTake, InPool
    <2> QED
      BY <1>3, <2>1 DEF BorrowTake, TypeOK
  <1> QED
    BY <1>1, <1>2, <1>3, PoolStep

Capping(r) == \E o \in Cpu : pc[o] = "cap" /\ loc[o].to = r

Pool(r) == r \notin raced => total_tokens[r] <= TokenCap(MaxRate) \/ Capping(r)

Burst(r, c) ==
  r \notin raced => \/ tokens[r][c] <= TokenCap(MaxRate)
                    \/ \E s \in PktSize : tokens[r][c] < TokenCap(MaxRate) + s

Sole(r, c) ==
  r \notin raced => (InPool(c, r) => \A o \in Cpu : InPool(o, r) => o = c)

Borrowing(r, c) ==
  r \notin raced => (pc[c] = "locked" /\ loc[c].rl = r =>
                       loc[c].seen = total_tokens[r] /\ NeedsTokens(r, c))

(* What is known of the pool of r and the queues of c.                      *)
Bounds(r, c) == Pool(r) /\ Burst(r, c) /\ Sole(r, c) /\ Borrowing(r, c)

LEMMA BurstParts == BurstInv <=> \A r \in RL, c \in Cpu : Bounds(r, c)
  BY DEF BurstInv, BurstIsBounded, Bounds, Pool, Burst, Sole, Borrowing, Capping

LEMMA BurstPartsNext == (\A r \in RL, c \in Cpu : Bounds(r, c)') => BurstInv'
  BY DEF BurstInv, BurstIsBounded, Bounds, Pool, Burst, Sole, Borrowing, Capping

LEMMA NatIsInt == \A n \in Nat : n \in Int
  BY SMT

LEMMA CapNat == TokenCap(MaxRate) \in Nat /\ ISO_MIN_BURST_BYTES <= TokenCap(MaxRate)
  <1>1. MaxRate \in Nat /\ ISO_MAX_BURST_TIME_US \in Nat /\ ISO_MIN_BURST_BYTES \in Nat
    BY ParamAssumption DEF ParamAssumption
  <1> DEFINE burst == (MaxRate * ISO_MAX_BURST_TIME_US) \div 8
  <1>2. burst \in Nat
    BY <1>1, ProductNat, DivNat
  <1> HIDE DEF burst
  <1>3. TokenCap(MaxRate) = Max2(burst, ISO_MIN_BURST_BYTES)
    BY DEF TokenCap, burst
  <1> QED
    BY SMT, <1>1, <1>2, <1>3 DEF Max2

LEMMA ZeroBelow == \A n \in Nat : 0 <= n
  BY SMT

LEMMA NoRest == \A n \in Nat : (n - n) % U64 = 0
  <1>1. \A n \in Nat : n - n = 0
    BY SMT
  <1> QED
    BY <1>1, WrapZero

(* Who holds an unraced pool is alone in it, so nobody is about to cap it.  *)
LEMMA SoleBounded ==
  ASSUME NEW r \in RL, NEW c \in Cpu, r \notin raced, Bounds(r, c),
         InPool(c, r), pc[c] # "cap"
  PROVE  total_tokens[r] <= TokenCap(MaxRate)
  <1>1. \A o \in Cpu : InPool(o, r) => o = c
    BY DEF Bounds, Sole
  <1>2. ~Capping(r)
    BY <1>1 DEF Capping, InPool
  <1> QED
    BY <1>2 DEF Bounds, Pool

(* A CPU that is capping goes on doing so while another takes a step.       *)
LEMMA CappingKept ==
  ASSUME TypeOK, FrameInv, NEW c \in Cpu, Step(c), NEW r \in RL, Capping(r),
         ~(pc[c] = "cap" /\ loc[c].to = r)
  PROVE  Capping(r)'
  <1>1. PICK o \in Cpu : pc[o] = "cap" /\ loc[o].to = r
    BY DEF Capping
  <1>2. o # c
    BY <1>1
  <1>3. Untouched(o)
    BY <1>2, Locality
  <1>4. pc'[o] = pc[o] /\ loc'[o] = loc[o]
    BY <1>3 DEF Untouched
  <1> QED
    BY <1>1, <1>4 DEF Capping

LEMMA PoolBounded ==
  ASSUME TypeOK, FrameInv, NEW c \in Cpu, Step(c), NEW r \in RL, Bounds(r, c)
  PROVE  Pool(r)'
  <1> SUFFICES ASSUME r \notin raced'
               PROVE  total_tokens'[r] <= TokenCap(MaxRate) \/ Capping(r)'
    BY DEF Pool
  <1>1. r \notin raced
    BY RacedKept
  <1>2. total_tokens[r] <= TokenCap(MaxRate) \/ Capping(r)
    BY <1>1 DEF Bounds, Pool
  <1>3. CASE ClockWrite(c) /\ loc[c].to = r
    <2>1. pc'[c] = "cap" /\ loc'[c].to = r
      BY <1>3, ClockWriteEffect
    <2> QED
      BY <2>1 DEF Capping
  <1>4. CASE ClockCap(c) /\ loc[c].to = r
    <2>1. PICK sum \in Nat :
            total_tokens' = [total_tokens EXCEPT ![r] = Min2(TokenCap(rate[r]), sum)]
      BY <1>4, ClockCapStore
    <2>2. sum \in Nat
      BY <2>1
    <2>3. rate[r] \in 0..MaxRate
      BY DEF TypeOK
    <2>4. TokenCap(rate[r]) <= TokenCap(MaxRate) /\ TokenCap(rate[r]) \in Nat
      BY <2>3, TokenCapMono
    <2>5. Min2(TokenCap(rate[r]), sum) <= TokenCap(MaxRate)
      BY <2>2, <2>4, CapNat, Min2Below
    <2> QED
      BY <2>1, <2>5 DEF TypeOK
  <1>5. CASE BorrowTake(c) /\ loc[c].rl = r
    <2>1. loc[c].seen = total_tokens[r]
      BY <1>1, <1>5 DEF Bounds, Borrowing, BorrowTake
    <2>2. total_tokens' =
            [total_tokens EXCEPT ![r] = (total_tokens[r] - total_tokens[r]) % U64]
      BY <1>5, <2>1 DEF BorrowTake
    <2>3. total_tokens[r] \in Nat
      BY DEF TypeOK
    <2>4. total_tokens'[r] = 0
      BY <2>2, <2>3, NoRest DEF TypeOK
    <2> QED
      BY <2>4, CapNat, ZeroBelow
  <1>6. CASE ~InPool(c, r)
    <2>1. total_tokens'[r] = total_tokens[r]
      BY <1>6, PoolChange
    <2>2. ~(pc[c] = "cap" /\ loc[c].to = r)
      BY <1>6 DEF InPool
    <2> QED
      BY <1>2, <2>1, <2>2, CappingKept
  <1>7. CASE InPool(c, r) /\ ~ClockWrite(c) /\ ~ClockCap(c) /\ ~BorrowTake(c)
    <2>1. UNCHANGED total_tokens
      BY <1>7, PoolStep
    <2>2. pc[c] # "cap"
      BY <1>7, LeavesCap
    <2> QED
      BY <1>2, <2>1, <2>2, CappingKept
  <1>8. CASE InPool(c, r) /\ (ClockWrite(c) \/ ClockCap(c)) /\ loc[c].to # r
    BY <1>8 DEF InPool, ClockWrite, ClockCap
  <1>9. CASE InPool(c, r) /\ BorrowTake(c) /\ loc[c].rl # r
    BY <1>9 DEF InPool, BorrowTake
  <1> QED
    BY <1>3, <1>4, <1>5, <1>6, <1>7, <1>8, <1>9

LEMMA BorrowSum ==
  ASSUME NEW t \in Nat, NEW f \in Nat, NEW s \in Nat, NEW cap \in Nat, t < f, s <= cap
  PROVE  t + s < cap + f /\ t + s \in Nat
  BY SMT

LEMMA BelowTrans ==
  ASSUME NEW w \in Nat, NEW t \in Nat, NEW cap \in Nat, NEW f \in Nat, w <= t, t < cap + f
  PROVE  w < cap + f
  BY SMT

LEMMA NothingBelow == \A t \in Nat : ~(t < 0)
  BY SMT

LEMMA PaidLess ==
  ASSUME NEW t \in Nat, NEW f \in Nat
  PROVE  t <= t /\ t \in Int /\ t - f <= t /\ t - f \in Int
  BY SMT

LEMMA LessTrans ==
  ASSUME NEW u \in Int, NEW t \in Nat, NEW cap \in Nat, u <= t
  PROVE  /\ t <= cap => u <= cap
         /\ \A s \in Nat : t < cap + s => u < cap + s
  BY SMT

LEMMA BurstOwn ==
  ASSUME TypeOK, FrameInv, NEW c \in Cpu, Step(c), NEW r \in RL, Bounds(r, c)
  PROVE  Burst(r, c)'
  <1> SUFFICES ASSUME r \notin raced'
               PROVE  \/ tokens'[r][c] <= TokenCap(MaxRate)
                      \/ \E s \in PktSize : tokens'[r][c] < TokenCap(MaxRate) + s
    BY DEF Burst
  <1>1. r \notin raced
    BY RacedKept
  <1>2. \/ tokens[r][c] <= TokenCap(MaxRate)
        \/ \E s \in PktSize : tokens[r][c] < TokenCap(MaxRate) + s
    BY <1>1 DEF Bounds, Burst
  <1>3. CASE BorrowTake(c) /\ loc[c].rl = r
    <2>1. loc[c].seen = total_tokens[r] /\ tokens[r][c] < first_pkt_size[r][c]
      BY <1>1, <1>3 DEF BorrowTake, Bounds, Borrowing, NeedsTokens
    <2>2. total_tokens[r] <= TokenCap(MaxRate) /\ total_tokens[r] \in Nat
      <3>1. InPool(c, r) /\ pc[c] # "cap"
        BY <1>3 DEF BorrowTake, InPool
      <3> QED
        BY <1>1, <3>1, SoleBounded DEF TypeOK
    <2>3. tokens[r][c] \in Nat /\ first_pkt_size[r][c] \in PktSize \cup {0}
      BY QueueTypes
    <2>4. first_pkt_size[r][c] \in PktSize /\ first_pkt_size[r][c] \in Nat
      <3>1. first_pkt_size[r][c] # 0
        BY <2>1, <2>3, NothingBelow
      <3> QED
        BY <2>3, <3>1, PktNat
    <2> DEFINE sum == tokens[r][c] + total_tokens[r]
    <2>5. sum < TokenCap(MaxRate) + first_pkt_size[r][c] /\ sum \in Nat
      BY <2>1, <2>2, <2>3, <2>4, CapNat, BorrowSum
    <2>6. tokens' = [tokens EXCEPT ![r][c] = sum % U64]
      BY <1>3, <2>1 DEF BorrowTake
    <2> HIDE DEF sum
    <2>7. tokens'[r][c] = sum % U64
      BY <2>6 DEF TypeOK
    <2>8. sum \in Int /\ sum % U64 \in Nat /\ sum % U64 <= sum
      BY <2>5, WrapNat, WrapBelow, NatIsInt
    <2>9. tokens'[r][c] < TokenCap(MaxRate) + first_pkt_size[r][c]
      BY <2>4, <2>5, <2>7, <2>8, CapNat, BelowTrans
    <2> QED
      BY <2>4, <2>9
  <1>4. CASE BorrowTake(c) /\ loc[c].rl # r
    <2>1. loc[c].rl \in RL
      BY <1>4 DEF BorrowTake, FrameInv, Frame, DeqLabels
    <2>2. tokens'[r][c] = tokens[r][c]
      BY <1>4, <2>1 DEF BorrowTake, TypeOK
    <2> QED
      BY <1>2, <2>2
  <1>5. CASE Transmit(c) \/ HandedOver(c)
    <2>1. PICK pkts : PayAndAdvance(c, pkts)
      BY <1>5 DEF Transmit, HandedOver
    <2>2. loc[c].rl \in RL
      BY <1>5 DEF Transmit, HandedOver, FrameInv, Frame, DeqLabels
    <2>3. /\ tokens'[loc[c].rl][c] = tokens[loc[c].rl][c] - first_pkt_size[loc[c].rl][c]
          /\ r # loc[c].rl => tokens'[r][c] = tokens[r][c]
      BY <2>1, <2>2, PayEffect
    <2>4. tokens[r][c] \in Nat /\ first_pkt_size[r][c] \in Nat
      BY QueueTypes
    <2>5. tokens'[r][c] <= tokens[r][c] /\ tokens'[r][c] \in Int
      <3>1. \/ tokens'[r][c] = tokens[r][c]
            \/ tokens'[r][c] = tokens[r][c] - first_pkt_size[r][c]
        BY <2>3
      <3> QED
        BY <3>1, <2>4, PaidLess
    <2>6. TokenCap(MaxRate) \in Nat
      BY CapNat
    <2>7. CASE tokens[r][c] <= TokenCap(MaxRate)
      BY <2>4, <2>5, <2>6, <2>7, LessTrans
    <2>8. ASSUME NEW s \in PktSize, tokens[r][c] < TokenCap(MaxRate) + s
          PROVE  tokens'[r][c] < TokenCap(MaxRate) + s
      <3>1. s \in Nat
        BY PktNat
      <3> QED
        BY <2>4, <2>5, <2>6, <2>8, <3>1, LessTrans
    <2> QED
      BY <1>2, <2>7, <2>8
  <1>6. CASE ~BorrowTake(c) /\ ~Transmit(c) /\ ~HandedOver(c)
    BY <1>2, <1>6, TokensStep
  <1> QED
    BY <1>3, <1>4, <1>5, <1>6

(* What CPU e knows of the pool while c takes a step.                       *)
LEMMA SoleStep ==
  ASSUME TypeOK, FrameInv, NEW c \in Cpu, Step(c), NEW r \in RL,
         \A e \in Cpu : Bounds(r, e), NEW e \in Cpu
  PROVE  Sole(r, e)'
  <1> SUFFICES ASSUME r \notin raced', NEW o \in Cpu, InPool(e, r)', InPool(o, r)', o # e
               PROVE  FALSE
    BY DEF Sole
  <1>1. r \notin raced
    BY RacedKept
  <1>2. \A a \in Cpu : a # c => InPool(a, r)' = InPool(a, r)
    BY Locality DEF Untouched, InPool
  <1>3. \A a, b \in Cpu : InPool(a, r) /\ InPool(b, r) => a = b
    BY <1>1 DEF Bounds, Sole
  <1>4. CASE e = c
    BY <1>2, <1>3, <1>4, EnterPool
  <1>5. CASE o = c
    BY <1>2, <1>3, <1>5, EnterPool
  <1>6. CASE e # c /\ o # c
    BY <1>2, <1>3, <1>6
  <1> QED
    BY <1>4, <1>5, <1>6

LEMMA BorrowingOwn ==
  ASSUME TypeOK, FrameInv, NEW c \in Cpu, Step(c), NEW r \in RL
  PROVE  Borrowing(r, c)'
  <1>1. CASE BorrowLock(c)
    <2> DEFINE q == loc[c].rl
               pool == total_tokens[q]
    <2>1. q \in RL /\ UNCHANGED <<tokens, first_pkt_size, total_tokens>>
      BY <1>1 DEF BorrowLock, FrameInv, Frame, DeqLabels, queueVars
    <2>2. loc'[c] = [loc[c] EXCEPT !.seen = pool]
      BY <1>1, GotoEffect DEF BorrowLock
    <2>3. total_tokens'[q] = pool
      BY <2>1
    <2> HIDE DEF pool
    <2>4. loc'[c].seen = pool /\ loc'[c].rl = q
      BY <2>2, LocType DEF Locals
    <2>5. NeedsTokens(q, c)
      BY <1>1 DEF BorrowLock
    <2> QED
      BY <2>1, <2>3, <2>4, <2>5 DEF Borrowing, NeedsTokens
  <1>2. CASE ~BorrowLock(c)
    <2>1. pc'[c] # "locked"
      BY <1>2, OutsideLock, BorrowTakeEffect, BorrowShortEffect
    <2> QED
      BY <2>1 DEF Borrowing
  <1> QED
    BY <1>1, <1>2

LEMMA BorrowingOther ==
  ASSUME TypeOK, FrameInv, NEW c \in Cpu, Step(c), NEW r \in RL, NEW e \in Cpu, e # c,
         Bounds(r, e)
  PROVE  Borrowing(r, e)'
  <1> SUFFICES ASSUME r \notin raced', pc'[e] = "locked", loc'[e].rl = r
               PROVE  loc'[e].seen = total_tokens'[r] /\ NeedsTokens(r, e)'
    BY DEF Borrowing
  <1>1. Untouched(e)
    BY Locality
  <1>2. r \notin raced /\ pc[e] = "locked" /\ loc[e].rl = r
    BY <1>1, RacedKept DEF Untouched
  <1>3. loc[e].seen = total_tokens[r] /\ NeedsTokens(r, e)
    BY <1>2 DEF Bounds, Borrowing
  <1>4. ~InPool(c, r)
    BY <1>2 DEF Bounds, Sole, InPool
  <1>5. total_tokens'[r] = total_tokens[r]
    BY <1>4, PoolChange
  <1> QED
    BY <1>1, <1>3, <1>5 DEF Untouched, NeedsTokens

(* A packet's arrival takes its CPU nowhere near the pool.                  *)
LEMMA BurstTx ==
  ASSUME TypeOK, FrameInv, NEW c \in Cpu, NEW d \in Leaf, NEW s \in PktSize, iso_tx(c, d, s),
         NEW r \in RL, \A e \in Cpu : Bounds(r, e), NEW e \in Cpu
  PROVE  Bounds(r, e)'
  <1>1. UNCHANGED <<total_tokens, tokens, first_pkt_size, raced>>
    BY DEF iso_tx, rlVars, queueVars
  <1>2. pc[c] = "idle" /\ pc'[c] = "clock"
    BY GotoEffect DEF iso_tx
  <1>3. \A a \in Cpu : a # c => pc'[a] = pc[a] /\ loc'[a] = loc[a]
    BY Locality DEF Untouched
  <1>4. Capping(r) => Capping(r)'
    BY <1>2, <1>3 DEF Capping
  <1>5. \A a \in Cpu : InPool(a, r)' => InPool(a, r)
    BY <1>2, <1>3 DEF InPool
  <1>6. Pool(r)' /\ Burst(r, e)'
    BY <1>1, <1>4 DEF Bounds, Pool, Burst
  <1>7. Sole(r, e)'
    BY <1>1, <1>5 DEF Bounds, Sole
  <1>8. Borrowing(r, e)'
    <2>1. CASE e = c
      BY <1>2, <2>1 DEF Borrowing
    <2>2. CASE e # c
      BY <1>1, <1>3, <2>2 DEF Bounds, Borrowing, NeedsTokens
    <2> QED
      BY <2>1, <2>2
  <1> QED
    BY <1>6, <1>7, <1>8 DEF Bounds

LEMMA BurstStep ==
  TypeOK /\ FrameInv /\ BurstInv /\ [Next]_vars => BurstInv'
  <1> SUFFICES ASSUME TypeOK, FrameInv, BurstInv, [Next]_vars, NEW r \in RL, NEW e \in Cpu
               PROVE  Bounds(r, e)'
    BY BurstPartsNext
  <1>1. \A q \in RL, a \in Cpu : Bounds(q, a)
    BY BurstParts
  <1>2. CASE UNCHANGED <<total_tokens, raced, queueVars, cpuVars>>
    <2>1. UNCHANGED <<total_tokens, raced, tokens, first_pkt_size, pc, loc>>
      BY <1>2 DEF queueVars, cpuVars
    <2>2. Pool(r)'
      BY <1>1, <2>1 DEF Bounds, Pool, Capping
    <2>3. Burst(r, e)'
      BY <1>1, <2>1 DEF Bounds, Burst
    <2>4. Sole(r, e)'
      BY <1>1, <2>1 DEF Bounds, Sole, InPool
    <2>5. Borrowing(r, e)'
      BY <1>1, <2>1 DEF Bounds, Borrowing, NeedsTokens
    <2> QED
      BY <2>2, <2>3, <2>4, <2>5 DEF Bounds
  <1>3. ASSUME NEW c \in Cpu, NEW d \in Leaf, NEW s \in PktSize, iso_tx(c, d, s)
        PROVE  Bounds(r, e)'
    BY <1>1, <1>3, BurstTx
  <1>4. ASSUME NEW c \in Cpu, Step(c)
        PROVE  Bounds(r, e)'
    <2>1. Pool(r)'
      BY <1>1, <1>4, PoolBounded
    <2>2. Sole(r, e)'
      BY <1>1, <1>4, SoleStep
    <2>3. Borrowing(r, e)'
      BY <1>1, <1>4, BorrowingOwn, BorrowingOther
    <2>4. CASE e = c
      BY <1>1, <1>4, <2>1, <2>2, <2>3, <2>4, BurstOwn DEF Bounds
    <2>5. CASE e # c
      <3>1. Burst(r, e)'
        BY <1>1, <1>4, <2>5, Locality, RacedKept DEF Untouched, Bounds, Burst
      <3> QED
        BY <2>1, <2>2, <2>3, <3>1 DEF Bounds
    <2> QED
      BY <2>4, <2>5
  <1> QED
    BY <1>2, <1>3, <1>4 DEF Next, Feedback, TxcTick, iso_rl_timeout, vars,
       rlVars

(* As long as no two CPUs have been in the pool of a limiter at once, a     *)
(* burst through it is bounded: outside the two stores of iso_rl_clock the  *)
(* pool holds no more than the cap at the largest rate, and a queue never   *)
(* more than that and one packet, because iso_rl_dequeue borrows only when  *)
(* the queue's own tokens do not cover its first packet.                    *)
THEOREM BurstBounded == Spec => []BurstIsBounded
  <1>1. Init => BurstInv
    <2>1. InitTokens \in Nat /\ ISO_MIN_BURST_BYTES \in Nat /\ InitTokens <= ISO_MIN_BURST_BYTES
      BY ParamAssumption DEF ParamAssumption
    <2>2. InitTokens <= TokenCap(MaxRate) /\ 0 <= TokenCap(MaxRate)
      BY SMTT(180), <2>1, CapNat
    <2> QED
      BY SMT, <2>2 DEF Init, BurstInv, BurstIsBounded, InPool
  <1>2. BurstInv => BurstIsBounded
    BY DEF BurstInv
  <1> QED
    BY PTL, <1>1, <1>2, BurstStep, Invariants DEF Spec

-----------------------------------------------------------------------------
(* Room in the class.                                                       *)

(* A hand over has succeeded and the packet is the last of the queue x.     *)
Arrived(c, size, x) ==
  /\ loc[c].verdict # "DROP"
  /\ size <= ISO_GSO_MIN_SPLIT_BYTES =>
       loc[c].verdict = "SUCCESS" /\ x # <<>> /\ x[Len(x)] = size

Handed(c) ==
  pc[c] = "handed" => Arrived(c, first_pkt_size[loc[c].rl][c], list[txc[loc[c].rl]][c])

(* The class has room for the packet on its way, and only a large one is    *)
(* split.                                                                   *)
OnTheWay(c) ==
  HandingOver(c) =>
    /\ loc[c].skb = first_pkt_size[loc[c].rl][c]
    /\ pc[c] # "segment" =>
         bytes_enqueued[loc[c].to][c] + loc[c].skb <= ISO_MAX_QUEUE_LEN_BYTES
    /\ pc[c] = "segment" => loc[c].skb > ISO_GSO_MIN_SPLIT_BYTES

LEMMA RoomParts == RoomInv <=> \A c \in Cpu : Handed(c) /\ OnTheWay(c)
  BY DEF RoomInv, HandOverArrives, Handed, Arrived, OnTheWay

LEMMA RoomPartsNext == (\A c \in Cpu : Handed(c)' /\ OnTheWay(c)') => RoomInv'
  BY DEF RoomInv, HandOverArrives, Handed, Arrived, OnTheWay

LEMMA TooLarge == \A a, m \in Nat : a > m => ~(a <= m)
  BY SMT

LEMMA AppendLast ==
  ASSUME NEW S, NEW x \in Seq(S), NEW a \in S
  PROVE  Append(x, a) # <<>> /\ Append(x, a)[Len(Append(x, a))] = a
  BY SMT

(* Only HandOver, the clock and the enqueueing itself are inside a hand     *)
(* over.                                                                    *)
LEMMA OutsideHandOver ==
  ASSUME TypeOK, FrameInv, NEW c \in Cpu,
         (Dequeue(c) /\ ~HandOver(c)) \/ Tasklet(c)
  PROVE  ~HandingOver(c)' /\ pc'[c] # "handed"
  <1> USE DEF EnqLabels, HandingOver
  <1>1. CASE Transmit(c) \/ HandedOver(c)
    <2>1. PICK pkts : PayAndAdvance(c, pkts)
      BY <1>1 DEF Transmit, HandedOver
    <2> QED
      BY <2>1, LastPktEffect, NextPktEffect
  <1>2. CASE \/ NoBorrow(c) \/ BorrowLock(c) \/ BorrowTake(c)
             \/ BorrowShort(c) \/ BorrowFail(c)
    BY <1>2, NoBorrowEffect, BorrowLockEffect, BorrowTakeEffect,
       BorrowShortEffect, BorrowFailEffect
  <1>3. CASE PeekEmpty(c) \/ Peek(c) \/ LoopEnd(c) \/ TriggerParent(c)
    BY <1>3, PeekEmptyEffect, PeekEffect, LoopEndEffect, TriggerParentEffect
  <1>4. CASE DequeueReturn(c)
    <2>1. Return(c)
      BY <1>4 DEF DequeueReturn
    <2> QED
      BY <2>1, ReturnToLeafEffect, ReturnToTaskletEffect, ReturnToTxEffect
  <1>5. CASE TaskletStart(c) \/ TaskletEnd(c)
    BY <1>5, TaskletStartEffect, TaskletEndEffect DEF TaskletStart, FrameInv,
       Frame
  <1>6. CASE TaskletNext(c)
    BY <1>6, TaskletNextEffect DEF TaskletNext, FrameInv, Frame
  <1> QED
    BY <1>1, <1>2, <1>3, <1>4, <1>5, <1>6 DEF Dequeue, Tasklet

LEMMA RoomClock ==
  ASSUME TypeOK, FrameInv, NEW c \in Cpu, Clock(c), OnTheWay(c)
  PROVE  Handed(c)' /\ OnTheWay(c)'
  <1> USE DEF EnqLabels, HandingOver
  <1>1. UNCHANGED <<bytes_enqueued, first_pkt_size>> /\ pc[c] \in {"clock", "refill", "cap"}
    BY DEF Clock, ClockNotDue, ClockRead, ClockWrite, ClockCap, queueVars
  <1>2. /\ loc'[c].to = loc[c].to /\ loc'[c].skb = loc[c].skb /\ loc'[c].rl = loc[c].rl
        /\ pc'[c] \in {"refill", "cap", "enqueue", "borrow"}
    BY ClockNotDueEffect, ClockReadEffect, ClockWriteEffect, ClockCapEffect DEF Clock
  <1> QED
    BY <1>1, <1>2 DEF Handed, OnTheWay

(* The enqueue of a packet that is handed over ends at label handed, the    *)
(* enqueue of a new one does not.                                           *)
LEMMA RoomVerdict ==
  ASSUME TypeOK, FrameInv, NEW c \in Cpu, NEW v, ReturnVerdict(c, v), loc[c].to \in RL,
         loc[c].to \in Class =>
           /\ txc[loc[c].rl] = loc[c].to
           /\ v # "DROP"
           /\ UNCHANGED first_pkt_size
           /\ first_pkt_size[loc[c].rl][c] <= ISO_GSO_MIN_SPLIT_BYTES =>
                /\ v = "SUCCESS"
                /\ list'[loc[c].to][c] # <<>>
                /\ list'[loc[c].to][c][Len(list'[loc[c].to][c])] = first_pkt_size[loc[c].rl][c]
  PROVE  Handed(c)' /\ OnTheWay(c)'
  <1>1. /\ pc'[c] = (IF loc[c].to \in Leaf THEN "borrow" ELSE "handed")
        /\ loc'[c].rl = (IF loc[c].to \in Leaf THEN loc[c].to ELSE loc[c].rl)
        /\ loc'[c].skb = 0 /\ loc'[c].verdict = v
    BY VerdictEffect
  <1>2. OnTheWay(c)'
    BY <1>1 DEF OnTheWay, HandingOver
  <1>3. CASE loc[c].to \in Leaf
    BY <1>1, <1>2, <1>3 DEF Handed
  <1>4. CASE loc[c].to \notin Leaf
    <2>1. loc[c].to \in Class
      BY <1>4 DEF RL
    <2>2. pc'[c] = "handed" /\ loc'[c].rl = loc[c].rl
      BY <1>1, <1>4
    <2> QED
      BY <1>1, <1>2, <2>1, <2>2 DEF Handed, Arrived
  <1> QED
    BY <1>3, <1>4

(* A packet too large to be left whole is not promised to arrive.           *)
LEMMA RoomLarge ==
  ASSUME TypeOK, FrameInv, NEW c \in Cpu, OnTheWay(c), HandingOver(c),
         loc[c].skb > ISO_GSO_MIN_SPLIT_BYTES
  PROVE  ~(first_pkt_size[loc[c].rl][c] <= ISO_GSO_MIN_SPLIT_BYTES)
  <1>1. loc[c].skb \in Nat
    BY LocType, PktNat, ZeroNat
  <1>2. ISO_GSO_MIN_SPLIT_BYTES \in Nat
    BY ParamAssumption DEF ParamAssumption
  <1>3. ~(loc[c].skb <= ISO_GSO_MIN_SPLIT_BYTES)
    BY <1>1, <1>2, TooLarge
  <1> QED
    BY <1>3 DEF OnTheWay

LEMMA RoomSplit ==
  ASSUME TypeOK, FrameInv, NEW c \in Cpu, NEW segs, OnTheWay(c),
         Goto(c, "segment", [loc[c] EXCEPT !.segs = segs]), UNCHANGED first_pkt_size,
         pc[c] \in EnqLabels,
         HandingOver(c) => loc[c].skb > ISO_GSO_MIN_SPLIT_BYTES
  PROVE  Handed(c)' /\ OnTheWay(c)'
  <1>1. /\ pc'[c] = "segment" /\ loc'[c].rl = loc[c].rl /\ loc'[c].to = loc[c].to
        /\ loc'[c].skb = loc[c].skb
    BY SplitEffect
  <1>2. HandingOver(c)' => HandingOver(c)
    BY <1>1 DEF HandingOver
  <1> QED
    BY <1>1, <1>2 DEF Handed, OnTheWay

LEMMA RoomEnqueue ==
  ASSUME TypeOK, FrameInv, NEW c \in Cpu, Enqueue(c), OnTheWay(c)
  PROVE  Handed(c)' /\ OnTheWay(c)'
  <1>1. pc[c] \in {"enqueue", "segment"} /\ loc[c].to \in RL /\ loc[c].skb # 0
    BY DEF Enqueue, EnqueueDrop, EnqueueTail, EnqueueError, EnqueueSplit, EnqueueSegment,
       FrameInv, Frame, EnqLabels
  <1>2. loc[c].to \in Class => HandingOver(c) /\ txc[loc[c].rl] = loc[c].to
    BY <1>1 DEF HandingOver, EnqLabels, FrameInv, Frame
  <1>3. CASE EnqueueDrop(c)
    <2>1. loc[c].to \notin Class
      <3>1. bytes_enqueued[loc[c].to][c] \in Int /\ loc[c].skb \in Nat
        BY <1>1, LocType, QueueTypes, PktNat
      <3>2. /\ pc[c] = "enqueue"
            /\ bytes_enqueued[loc[c].to][c] + loc[c].skb > ISO_MAX_QUEUE_LEN_BYTES
        BY <1>3 DEF EnqueueDrop
      <3>3. ISO_MAX_QUEUE_LEN_BYTES \in Nat
        BY ParamAssumption DEF ParamAssumption
      <3>4. ~(bytes_enqueued[loc[c].to][c] + loc[c].skb <= ISO_MAX_QUEUE_LEN_BYTES)
        BY <3>1, <3>2, <3>3, Above
      <3> QED
        BY <1>2, <3>2, <3>4 DEF OnTheWay
    <2> QED
      BY <1>1, <1>3, <2>1, RoomVerdict DEF EnqueueDrop
  <1>4. CASE EnqueueTail(c)
    <2>1. QueueTail(loc[c].to, c, loc[c].skb) /\ ReturnVerdict(c, "SUCCESS")
      BY <1>4 DEF EnqueueTail
    <2>2. /\ list'[loc[c].to][c] = Append(list[loc[c].to][c], loc[c].skb)
          /\ UNCHANGED first_pkt_size
      BY <1>1, <2>1, QueueTailEffect
    <2>3. list[loc[c].to][c] \in Seq(PktSize) /\ loc[c].skb \in PktSize
      BY <1>1, LocType DEF TypeOK
    <2>4. /\ list'[loc[c].to][c] # <<>>
          /\ list'[loc[c].to][c][Len(list'[loc[c].to][c])] = loc[c].skb
      <3> DEFINE x == list[loc[c].to][c]
                 y == list'[loc[c].to][c]
                 a == loc[c].skb
      <3>1. y = Append(x, a) /\ x \in Seq(PktSize) /\ a \in PktSize
        BY <2>2, <2>3
      <3> HIDE DEF x, y, a
      <3>2. y # <<>> /\ y[Len(y)] = a
        BY <3>1, AppendLast
      <3> QED
        BY <3>2 DEF y, a
    <2>5. loc[c].to \in Class => loc[c].skb = first_pkt_size[loc[c].rl][c]
      BY <1>2 DEF OnTheWay
    <2> QED
      BY <1>1, <1>2, <2>1, <2>2, <2>4, <2>5, RoomVerdict
  <1>5. CASE EnqueueError(c)
    <2>1. loc[c].skb > ISO_GSO_MIN_SPLIT_BYTES /\ ReturnVerdict(c, "ERROR")
      BY <1>5 DEF EnqueueError, Splits
    <2>2. UNCHANGED first_pkt_size
      BY <1>5 DEF EnqueueError, queueVars
    <2> QED
      BY <1>1, <1>2, <2>1, <2>2, RoomLarge, RoomVerdict
  <1>6. CASE EnqueueSplit(c)
    <2>1. loc[c].skb > ISO_GSO_MIN_SPLIT_BYTES
      BY <1>6 DEF EnqueueSplit, Splits
    <2>2. UNCHANGED first_pkt_size
      BY <1>6 DEF EnqueueSplit, queueVars
    <2>3. PICK segs : Goto(c, "segment", [loc[c] EXCEPT !.segs = segs])
      BY <1>6 DEF EnqueueSplit
    <2> QED
      BY <1>1, <2>1, <2>2, <2>3, RoomSplit DEF EnqLabels
  <1>7. CASE EnqueueSegment(c)
    <2>1. pc[c] = "segment"
      BY <1>7 DEF EnqueueSegment
    <2>2. HandingOver(c) => loc[c].skb > ISO_GSO_MIN_SPLIT_BYTES
      BY <2>1 DEF OnTheWay
    <2>3. UNCHANGED first_pkt_size
      BY <1>7 DEF EnqueueSegment, QueueTail, queueVars
    <2>4. CASE ReturnVerdict(c, "SUCCESS")
      BY <1>1, <1>2, <2>2, <2>3, <2>4, RoomLarge, RoomVerdict
    <2>5. ASSUME NEW segs, Goto(c, "segment", [loc[c] EXCEPT !.segs = segs])
          PROVE  Handed(c)' /\ OnTheWay(c)'
      BY <1>1, <2>2, <2>3, <2>5, RoomSplit DEF EnqLabels
    <2> QED
      BY <1>7, <2>1, <2>4, <2>5 DEF EnqueueSegment
  <1> QED
    BY <1>3, <1>4, <1>5, <1>6, <1>7 DEF Enqueue

LEMMA RoomOwn ==
  ASSUME TypeOK, FrameInv, NEW c \in Cpu, Step(c), OnTheWay(c)
  PROVE  Handed(c)' /\ OnTheWay(c)'
  <1>1. CASE Clock(c) \/ Enqueue(c)
    BY <1>1, RoomClock, RoomEnqueue
  <1>2. CASE HandOver(c)
    <2> DEFINE r == loc[c].rl
               size == first_pkt_size[r][c]
               bytes == bytes_enqueued[txc[r]][c]
    <2>1. r \in Leaf /\ txc[r] \in RL /\ UNCHANGED <<bytes_enqueued, first_pkt_size>>
      BY <1>2, Structure DEF HandOver, RL
    <2>2. bytes \in Int /\ size \in Nat /\ ISO_MAX_QUEUE_LEN_BYTES \in Nat
      BY <2>1, QueueTypes, ParamAssumption DEF ParamAssumption, RL
    <2>3. bytes + size < ISO_MAX_QUEUE_LEN_BYTES
      BY <1>2 DEF HandOver, iso_rl_has_space_for
    <2>4. bytes + size <= ISO_MAX_QUEUE_LEN_BYTES
      BY SMTT(180), <2>2, <2>3
    <2>5. pc'[c] = "clock" /\ loc'[c].to = txc[r] /\ loc'[c].skb = size /\ loc'[c].rl = r
      BY <1>2, HandOverEffect
    <2> QED
      BY <2>1, <2>4, <2>5 DEF Handed, OnTheWay
  <1>3. CASE (Dequeue(c) /\ ~HandOver(c)) \/ Tasklet(c)
    BY <1>3, OutsideHandOver DEF Handed, OnTheWay
  <1> QED
    BY <1>1, <1>2, <1>3 DEF Step

LEMMA RoomStep ==
  TypeOK /\ FrameInv /\ RoomInv /\ [Next]_vars => RoomInv'
  <1> SUFFICES ASSUME TypeOK, FrameInv, RoomInv, [Next]_vars, NEW e \in Cpu
               PROVE  Handed(e)' /\ OnTheWay(e)'
    BY RoomPartsNext
  <1>1. Handed(e) /\ OnTheWay(e)
    BY RoomParts
  <1>2. CASE UNCHANGED <<queueVars, cpuVars>>
    BY <1>1, <1>2 DEF queueVars, cpuVars, Handed, Arrived, OnTheWay, HandingOver
  <1>3. ASSUME Untouched(e) PROVE Handed(e)' /\ OnTheWay(e)'
    <2>1. HandingOver(e) => loc[e].to \in RL /\ loc[e].rl \in RL
      BY DEF HandingOver, RL, FrameInv, Frame
    <2>2. pc[e] = "handed" => loc[e].rl \in RL /\ txc[loc[e].rl] \in RL
      BY Structure DEF RL, FrameInv, Frame
    <2>3. Handed(e)'
      BY <1>1, <1>3, <2>2 DEF Handed, Arrived, Untouched
    <2>4. OnTheWay(e)'
      BY <1>1, <1>3, <2>1 DEF OnTheWay, HandingOver, Untouched
    <2> QED
      BY <2>3, <2>4
  <1>4. ASSUME NEW c \in Cpu, NEW d \in Leaf, NEW s \in PktSize, iso_tx(c, d, s)
        PROVE  Handed(e)' /\ OnTheWay(e)'
    <2>1. CASE e = c
      <3>1. loc[c] = NoLocals
        BY <1>4 DEF FrameInv, Frame, iso_tx
      <3>2. pc'[c] = "clock" /\ loc'[c] = [NoLocals EXCEPT !.to = d, !.skb = s]
        BY <1>4, <3>1, GotoEffect DEF iso_tx
      <3>3. loc'[c].to = d
        BY <3>2 DEF NoLocals
      <3> QED
        BY <2>1, <3>2, <3>3, Structure DEF Handed, OnTheWay, HandingOver
    <2> QED
      BY <1>3, <1>4, <2>1, Locality
  <1>5. ASSUME NEW c \in Cpu, Step(c)
        PROVE  Handed(e)' /\ OnTheWay(e)'
    BY <1>1, <1>3, <1>5, RoomOwn, Locality
  <1> QED
    BY <1>2, <1>4, <1>5 DEF Next, Feedback, TxcTick, iso_rl_timeout, vars

(* iso_rl_dequeue may ignore the verdict of the iso_rl_enqueue into the     *)
(* class: after iso_rl_has_space_for, it is never a drop, and a packet too  *)
(* small to be split is the last in the queue of the class.                 *)
THEOREM HandOverFits == Spec => []HandOverArrives
  <1>1. Init => RoomInv
    BY DEF Init, RoomInv, HandOverArrives, HandingOver, EnqLabels
  <1>2. RoomInv => HandOverArrives
    BY DEF RoomInv
  <1> QED
    BY PTL, <1>1, <1>2, RoomStep, Invariants DEF Spec
=============================================================================
