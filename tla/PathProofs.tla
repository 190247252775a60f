----------------------------- MODULE PathProofs -----------------------------
(***************************************************************************)
(* Proof that the rate limiters implement PacketPath.  A step of a CPU      *)
(* changes the packets of that CPU only (Locality), so every step comes     *)
(* down to what the CPU has in hand, and to its queues, before and after.   *)
(* The bound of a queue is proved next.  What the steps of PacketPath do to *)
(* a queue and its bytes then gives the accounting of bytes_enqueued.       *)
(***************************************************************************)
EXTENDS PathRefinement, RateLimiterProofs

\* Most steps are first-order; those that need more name their prover.
USE ZenonT(180)

(* A sequence over a set is one over any larger set.                        *)
LEMMA WiderSeq ==
  ASSUME NEW S, NEW T, NEW s \in Seq(S), \A x \in S : x \in T
  PROVE  s \in Seq(T)
  BY SMT

(* The abstract state of a CPU is unchanged, apart from its queues.         *)
SameHand(e) == Hand(e)' = Hand(e) /\ Dest(e)' = Dest(e)
SameBytes(r, e) == Bytes(r, e)' = Bytes(r, e)

(* Nothing is in hand and nothing is being handed over.                     *)
Empty(e) == /\ pc[e] # "handed" /\ pc[e] # "segment"
            /\ pc[e] \in EnqLabels => loc[e].skb = 0

LEMMA EmptyView ==
  ASSUME NEW e \in Cpu, Empty(e)
  PROVE  Hand(e) = <<>> /\ Dest(e) = None /\ \A r \in RL : ~HandedBy(r, e)
  BY DEF Empty, Hand, Dest, HandedBy, HandingOver

LEMMA EmptyViewNext ==
  ASSUME NEW e \in Cpu, Empty(e)'
  PROVE  Hand(e)' = <<>> /\ Dest(e)' = None /\ \A r \in RL : ~HandedBy(r, e)'
  BY DEF Empty, Hand, Dest, HandedBy, HandingOver

LEMMA OtherView ==
  ASSUME NEW e \in Cpu, Untouched(e)
  PROVE  SameHand(e) /\ \A r \in RL : SameBytes(r, e)
  <1>1. SameHand(e)
    BY DEF Untouched, SameHand, Hand, Dest
  <1>2. ASSUME NEW r \in RL PROVE SameBytes(r, e)
    <2>1. HandedBy(r, e)' <=> HandedBy(r, e)
      BY DEF Untouched, HandedBy, HandingOver
    <2> QED
      BY <2>1 DEF Untouched, SameBytes, Bytes
  <1> QED
    BY <1>1, <1>2

LEMMA HoldIntro ==
  ASSUME NEW c \in Cpu, NEW pkts, NEW r,
         Hand(c)' = pkts, Dest(c)' = (IF pkts = <<>> THEN None ELSE r),
         \A e \in Cpu : e # c => SameHand(e)
  PROVE  Path!Hold(c, pkts, r)
  BY DEF Path!Hold, SameHand

LEMMA BytesUnchanged ==
  ASSUME \A r \in RL, e \in Cpu : SameBytes(r, e)
  PROVE  UNCHANGED [r \in RL |-> [e \in Cpu |-> Bytes(r, e)]]
  BY DEF SameBytes

LEMMA PutIntro ==
  ASSUME NEW c \in Cpu, NEW r \in RL, NEW size,
         list' = [list EXCEPT ![r][c] = Append(list[r][c], size)],
         Bytes(r, c)' = Bytes(r, c) + size,
         \A q \in RL, e \in Cpu : q # r \/ e # c => SameBytes(q, e)
  PROVE  Path!Put(r, c, size)
  BY DEF Path!Put, SameBytes

LEMMA TakeIntro ==
  ASSUME NEW c \in Cpu, NEW r \in RL,
         list' = [list EXCEPT ![r][c] = Tail(list[r][c])],
         Bytes(r, c)' = Bytes(r, c) - Head(list[r][c]),
         \A q \in RL, e \in Cpu : q # r \/ e # c => SameBytes(q, e)
  PROVE  Path!Take(r, c)
  BY DEF Path!Take, SameBytes

LEMMA Stutters ==
  ASSUME UNCHANGED list, \A e \in Cpu : SameHand(e),
         \A r \in RL, e \in Cpu : SameBytes(r, e)
  PROVE  UNCHANGED Path!vars
  <1>1. UNCHANGED [e \in Cpu |-> Hand(e)] /\ UNCHANGED [e \in Cpu |-> Dest(e)]
    BY DEF SameHand
  <1> QED
    BY <1>1, BytesUnchanged DEF Path!vars

-----------------------------------------------------------------------------
(* Steps that move no packet.                                               *)

LEMMA QuietView ==
  ASSUME NEW c \in Cpu, Empty(c), Empty(c)', UNCHANGED bytes_enqueued
  PROVE  SameHand(c) /\ \A r \in RL : SameBytes(r, c)
  <1>1. SameHand(c)
    BY EmptyView, EmptyViewNext DEF SameHand
  <1>2. ASSUME NEW r \in RL PROVE SameBytes(r, c)
    BY EmptyView, EmptyViewNext DEF SameBytes, Bytes
  <1> QED
    BY <1>1, <1>2

LEMMA QuietStutters ==
  ASSUME NEW c \in Cpu, UNCHANGED list,
         SameHand(c) /\ \A r \in RL : SameBytes(r, c),
         \A e \in Cpu : e # c => Untouched(e)
  PROVE  UNCHANGED Path!vars
  <1>1. ASSUME NEW e \in Cpu PROVE SameHand(e) /\ \A r \in RL : SameBytes(r, e)
    BY OtherView
  <1> QED
    BY <1>1, Stutters

(* The steps of iso_rl_dequeue and of the tasklet, save those that pass a   *)
(* packet on.                                                               *)
LEMMA QuietStep ==
  ASSUME TypeOK, FrameInv, NEW c \in Cpu,
         Dequeue(c) \/ Tasklet(c), ~Transmit(c), ~HandOver(c), ~HandedOver(c)
  PROVE  Empty(c) /\ Empty(c)' /\ UNCHANGED <<list, bytes_enqueued>>
  <1> USE DEF Empty, EnqLabels
  <1>1. CASE NoBorrow(c)
    BY <1>1, NoBorrowEffect DEF NoBorrow, queueVars
  <1>2. CASE BorrowLock(c)
    BY <1>2, BorrowLockEffect DEF BorrowLock, queueVars
  <1>3. CASE BorrowTake(c)
    BY <1>3, BorrowTakeEffect DEF BorrowTake
  <1>3a. CASE BorrowShort(c)
    BY <1>3a, BorrowShortEffect DEF BorrowShort, queueVars
  <1>4. CASE BorrowFail(c)
    BY <1>4, BorrowFailEffect DEF BorrowFail, queueVars
  <1>5. CASE PeekEmpty(c)
    BY <1>5, PeekEmptyEffect DEF PeekEmpty, queueVars
  <1>6. CASE Peek(c)
    BY <1>6, PeekEffect DEF Peek
  <1>7. CASE LoopEnd(c)
    BY <1>7, LoopEndEffect DEF LoopEnd, queueVars
  <1>8. CASE TriggerParent(c)
    <2>1. pc'[c] = "borrow" /\ pc[c] = "unlock"
      BY <1>8, TriggerParentEffect DEF TriggerParent
    <2> QED
      BY <1>8, <2>1 DEF TriggerParent, queueVars
  <1>9. CASE DequeueReturn(c)
    <2>1. pc[c] = "timeout" /\ Return(c)
      BY <1>9 DEF DequeueReturn
    <2>2. pc'[c] \in {"timeout", "tasklet", "idle"}
      BY <2>1, ReturnToLeafEffect, ReturnToTaskletEffect, ReturnToTxEffect
    <2> QED
      BY <1>9, <2>1, <2>2 DEF DequeueReturn, queueVars
  <1>10. CASE TaskletStart(c)
    <2>1. pc[c] = "idle" /\ loc[c] = NoLocals
      BY <1>10 DEF TaskletStart, FrameInv, Frame
    <2>2. pc'[c] = "tasklet"
      BY <1>10, <2>1, TaskletStartEffect
    <2> QED
      BY <1>10, <2>1, <2>2 DEF TaskletStart, queueVars
  <1>11. CASE TaskletNext(c)
    <2>1. loc[c].skb = 0
      BY <1>11 DEF TaskletNext, FrameInv, Frame
    <2>2. pc'[c] = "clock" /\ loc'[c].skb = loc[c].skb
      BY <1>11, TaskletNextEffect
    <2> QED
      BY <1>11, <2>1, <2>2 DEF TaskletNext, queueVars
  <1>12. CASE TaskletEnd(c)
    BY <1>12, GotoEffect DEF TaskletEnd, queueVars
  <1> QED
    BY <1>1, <1>2, <1>3, <1>3a, <1>4, <1>5, <1>6, <1>7, <1>8, <1>9, <1>10, <1>11,
       <1>12 DEF Dequeue, Tasklet

(* iso_rl_clock, with or without a packet in hand.                          *)
LEMMA ClockView ==
  ASSUME TypeOK, FrameInv, NEW c \in Cpu, Clock(c)
  PROVE  UNCHANGED list /\ SameHand(c) /\ \A r \in RL : SameBytes(r, c)
  <1>1. UNCHANGED queueVars /\ pc[c] \in {"clock", "refill", "cap"}
    BY DEF Clock, ClockNotDue, ClockRead, ClockWrite, ClockCap
  <1>2. /\ pc'[c] \in {"refill", "cap", IF loc[c].skb # 0 THEN "enqueue" ELSE "borrow"}
        /\ loc'[c].rl = loc[c].rl /\ loc'[c].to = loc[c].to
        /\ loc'[c].skb = loc[c].skb
    BY ClockNotDueEffect, ClockReadEffect, ClockWriteEffect, ClockCapEffect DEF Clock
  <1>3. CASE loc[c].skb = 0
    <2>1. Empty(c) /\ Empty(c)'
      BY <1>1, <1>2, <1>3 DEF Empty, EnqLabels
    <2> QED
      BY <1>1, <2>1, QuietView DEF queueVars
  <1>4. CASE loc[c].skb # 0
    <2>1. pc[c] \in EnqLabels /\ pc'[c] \in EnqLabels /\ pc[c] # "segment" /\ pc'[c] # "segment"
          /\ pc[c] # "handed" /\ pc'[c] # "handed"
      BY <1>1, <1>2, <1>4 DEF EnqLabels
    <2>2. SameHand(c)
      BY <1>2, <2>1 DEF SameHand, Hand, Dest
    <2>3. ASSUME NEW r \in RL PROVE SameBytes(r, c)
      BY <1>1, <1>2, <2>1 DEF SameBytes, Bytes, HandedBy, HandingOver,
         queueVars
    <2> QED
      BY <1>1, <2>2, <2>3 DEF queueVars
  <1> QED
    BY <1>3, <1>4

(* The leaf is done with the packet it handed over.                         *)
LEMMA PaidBytes ==
  ASSUME TypeOK, NEW c \in Cpu, NEW pkts, NEW r \in RL, loc[c].rl = r,
         PayAndAdvance(c, pkts)
  PROVE  /\ bytes_enqueued'[r][c] = bytes_enqueued[r][c] - first_pkt_size[r][c]
         /\ \A q \in RL : q # r => bytes_enqueued'[q][c] = bytes_enqueued[q][c]
  BY PayEffect

LEMMA HandedOverView ==
  ASSUME TypeOK, FrameInv, NEW c \in Cpu, HandedOver(c)
  PROVE  UNCHANGED list /\ SameHand(c) /\ \A r \in RL : SameBytes(r, c)
  <1> DEFINE r == loc[c].rl
  <1>1. pc[c] = "handed" /\ PayAndAdvance(c, list[r][c]) /\ UNCHANGED list
    BY DEF HandedOver
  <1>2. r \in RL
    BY <1>1 DEF FrameInv, Frame, RL
  <1>3. pc'[c] \in {"unlock", "timeout", "loop"}
    <2>1. CASE list[r][c] = <<>>
      BY <1>1, <2>1, LastPktEffect
    <2>2. CASE list[r][c] # <<>>
      BY <1>1, <2>2, NextPktEffect
    <2> QED
      BY <2>1, <2>2
  <1>4. Empty(c)' /\ pc[c] # "segment" /\ pc[c] \notin EnqLabels
    BY <1>1, <1>3 DEF Empty, EnqLabels
  <1>5. SameHand(c)
    BY <1>1, <1>4, EmptyViewNext DEF SameHand, Hand, Dest
  <1>5a. /\ bytes_enqueued'[r][c] = bytes_enqueued[r][c] - first_pkt_size[r][c]
           /\ \A q \in RL : q # r => bytes_enqueued'[q][c] = bytes_enqueued[q][c]
    BY <1>1, <1>2, PaidBytes
  <1>6. ASSUME NEW q \in RL PROVE SameBytes(q, c)
    <2>1. ~HandedBy(q, c)'
      BY <1>4, EmptyViewNext
    <2>2. /\ q = r => bytes_enqueued'[q][c] = bytes_enqueued[q][c] - first_pkt_size[q][c]
          /\ q # r => bytes_enqueued'[q][c] = bytes_enqueued[q][c]
      BY <1>5a
    <2>3. bytes_enqueued[q][c] \in Int /\ first_pkt_size[q][c] \in Int
      BY SMTT(180), QueueTypes
    <2>4. HandedBy(q, c) <=> q = r
      BY <1>1 DEF HandedBy
    <2>5. CASE q = r
      <3>1. Bytes(q, c) = bytes_enqueued[q][c] - first_pkt_size[q][c]
        BY <2>4, <2>5 DEF Bytes
      <3>2. Bytes(q, c)' = bytes_enqueued'[q][c] - 0
        BY <2>1 DEF Bytes
      <3> QED
        BY SMTT(180), <2>2, <2>3, <2>5, <3>1, <3>2 DEF SameBytes
    <2>6. CASE q # r
      BY <2>1, <2>2, <2>4, <2>6 DEF SameBytes, Bytes
    <2> QED
      BY <2>5, <2>6
  <1> QED
    BY <1>1, <1>5, <1>6

-----------------------------------------------------------------------------
(* Steps of iso_rl_enqueue that move a packet.                              *)

LEMMA PlainBytes ==
  ASSUME TypeOK, NEW c \in Cpu, NEW r \in RL, ~HandedBy(r, c)
  PROVE  Bytes(r, c) = bytes_enqueued[r][c] /\ bytes_enqueued[r][c] \in Int
  <1>1. Bytes(r, c) = bytes_enqueued[r][c] - 0
    BY DEF Bytes
  <1>2. bytes_enqueued[r][c] \in Int
    BY QueueTypes
  <1> QED
    BY SMTT(180), <1>1, <1>2

LEMMA EnqView ==
  ASSUME TypeOK, FrameInv, NEW c \in Cpu, pc[c] \in {"enqueue", "segment"}
  PROVE  LET r == loc[c].to
         IN /\ r \in RL /\ Dest(c) = r /\ ~HandedBy(r, c)
            /\ Hand(c) = (IF pc[c] = "segment" THEN loc[c].segs ELSE <<loc[c].skb>>)
            /\ Hand(c) # <<>>
            /\ Bytes(r, c) = bytes_enqueued[r][c] /\ bytes_enqueued[r][c] \in Int
  <1> DEFINE r == loc[c].to
  <1>1. Frame(c) /\ pc[c] \in EnqLabels /\ pc[c] # "handed"
    BY DEF FrameInv, EnqLabels
  <1>2. r \in RL /\ loc[c].skb # 0
    BY <1>1 DEF Frame
  <1>3. Hand(c) = (IF pc[c] = "segment" THEN loc[c].segs ELSE <<loc[c].skb>>)
    BY <1>1, <1>2 DEF Hand
  <1>4. <<loc[c].skb>> # <<>>
    OBVIOUS
  <1>5. Hand(c) # <<>>
    BY <1>1, <1>3, <1>4 DEF Frame
  <1>6. Dest(c) = r
    BY <1>5 DEF Dest
  <1>7. ~HandedBy(r, c)
    BY <1>1, Structure DEF HandedBy, HandingOver, Frame
  <1> QED
    BY <1>2, <1>3, <1>5, <1>6, <1>7, PlainBytes

LEMMA VerdictView ==
  ASSUME TypeOK, FrameInv, NEW c \in Cpu, pc[c] \in {"enqueue", "segment"},
         NEW v, ReturnVerdict(c, v)
  PROVE  /\ Hand(c)' = <<>> /\ Dest(c)' = None
         /\ \A r \in RL : HandedBy(r, c)' <=> HandedBy(r, c)
  <1>1. pc[c] \in EnqLabels /\ pc[c] # "handed" /\ loc[c].skb # 0 /\ loc[c].to \in RL
    BY DEF EnqLabels, FrameInv, Frame
  <1>2. /\ pc'[c] = (IF loc[c].to \in Leaf THEN "borrow" ELSE "handed")
        /\ loc'[c].rl = (IF loc[c].to \in Leaf THEN loc[c].to ELSE loc[c].rl)
    BY VerdictEffect
  <1>3. pc'[c] \notin EnqLabels /\ pc'[c] # "segment"
    BY <1>2 DEF EnqLabels
  <1>4. Hand(c)' = <<>> /\ Dest(c)' = None
    BY <1>3 DEF Hand, Dest
  <1>5. ASSUME NEW r \in RL PROVE HandedBy(r, c)' <=> HandedBy(r, c)
    <2>1. CASE loc[c].to \in Leaf
      BY <1>1, <1>2, <1>3, <2>1, Structure DEF HandedBy, HandingOver
    <2>2. CASE loc[c].to \notin Leaf
      BY <1>1, <1>2, <2>2 DEF HandedBy, HandingOver, RL
    <2> QED
      BY <2>1, <2>2
  <1> QED
    BY <1>4, <1>5

(* What iso_rl_enqueue leaves alone, and what it appends.                   *)
LEMMA StillBytes ==
  ASSUME NEW c \in Cpu, UNCHANGED queueVars, \A r \in RL : HandedBy(r, c)' <=> HandedBy(r, c)
  PROVE  \A r \in RL : SameBytes(r, c)
  BY DEF queueVars, SameBytes, Bytes

LEMMA TailHere ==
  ASSUME TypeOK, NEW c \in Cpu, NEW r \in RL, NEW size, QueueTail(r, c, size)
  PROVE  bytes_enqueued'[r][c] = bytes_enqueued[r][c] + size
  BY DEF QueueTail, TypeOK

LEMMA TailElsewhere ==
  ASSUME TypeOK, NEW c \in Cpu, NEW r \in RL, NEW size, QueueTail(r, c, size)
  PROVE  \A q \in RL : q # r => bytes_enqueued'[q][c] = bytes_enqueued[q][c]
  BY DEF QueueTail, TypeOK

LEMMA NextBytesInt ==
  ASSUME TypeOK', NEW c \in Cpu, NEW r \in RL
  PROVE  bytes_enqueued'[r][c] \in Int
  <1>1. bytes_enqueued' \in [RL -> [Cpu -> Int]]
    BY DEF TypeOK
  <1> QED
    BY <1>1

LEMMA QueuedPut ==
  ASSUME TypeOK, TypeOK', NEW c \in Cpu, NEW r \in RL, NEW size,
         QueueTail(r, c, size), ~HandedBy(r, c),
         \A q \in RL : HandedBy(q, c)' <=> HandedBy(q, c),
         \A e \in Cpu : e # c => \A q \in RL : SameBytes(q, e)
  PROVE  Path!Put(r, c, size)
  <1>1. list' = [list EXCEPT ![r][c] = Append(list[r][c], size)]
    BY DEF QueueTail
  <1>2. Bytes(r, c)' = Bytes(r, c) + size
    <2>1. Bytes(r, c) = bytes_enqueued[r][c]
      BY PlainBytes
    <2>2. Bytes(r, c)' = bytes_enqueued'[r][c]
      <3>1. Bytes(r, c)' = bytes_enqueued'[r][c] - 0
        BY DEF Bytes
      <3>2. bytes_enqueued'[r][c] \in Int
        BY NextBytesInt
      <3> QED
        BY SMTT(180), <3>1, <3>2
    <2>3. bytes_enqueued'[r][c] = bytes_enqueued[r][c] + size
      BY TailHere
    <2> QED
      BY <2>1, <2>2, <2>3
  <1>3. ASSUME NEW q \in RL, q # r PROVE SameBytes(q, c)
    BY <1>3, QueueTailEffect DEF SameBytes, Bytes
  <1> QED
    BY <1>1, <1>2, <1>3, PutIntro

(* The abstract step of a CPU whose hand and queues are known.              *)
LEMMA AcceptIntro ==
  ASSUME NEW c \in Cpu, NEW r \in RL, Hand(c) # <<>>, Dest(c) = r,
         Bytes(r, c) < ISO_MAX_QUEUE_LEN_BYTES,
         Path!Put(r, c, Head(Hand(c))), Path!Hold(c, Tail(Hand(c)), r)
  PROVE  Path!Accept(c)
  BY DEF Path!Accept

LEMMA RefuseIntro ==
  ASSUME NEW c \in Cpu, NEW r \in RL, Hand(c) # <<>>, Dest(c) = r, UNCHANGED list,
         ~(Bytes(r, c) + Head(Hand(c)) <= ISO_MAX_QUEUE_LEN_BYTES),
         Path!Hold(c, Tail(Hand(c)), r), \A q \in RL, e \in Cpu : SameBytes(q, e)
  PROVE  Path!Refuse(c)
  BY BytesUnchanged DEF Path!Refuse, Path!Room

LEMMA FitsBelow ==
  ASSUME NEW b \in Int, NEW s \in Nat, NEW m \in Nat, b + s < m
  PROVE  b + s <= m
  BY SMT

LEMMA Positive == \A n \in Nat \ {0} : n > 0
  BY SMT

LEMMA Single ==
  ASSUME NEW x
  PROVE  <<x>> # <<>> /\ Head(<<x>>) = x /\ Tail(<<x>>) = <<>> /\ Len(<<x>>) = 1
  BY SMT

LEMMA EnqueueTailPath ==
  ASSUME TypeOK, TypeOK', FrameInv, NEW c \in Cpu, EnqueueTail(c),
         \A e \in Cpu : e # c => Untouched(e)
  PROVE  Path!Accept(c)
  <1> DEFINE r == loc[c].to
             size == loc[c].skb
  <1>1. /\ pc[c] = "enqueue" /\ QueueTail(r, c, size) /\ ReturnVerdict(c, "SUCCESS")
        /\ bytes_enqueued[r][c] + size <= ISO_MAX_QUEUE_LEN_BYTES
    BY DEF EnqueueTail
  <1>2. \A e \in Cpu : e # c => SameHand(e) /\ \A q \in RL : SameBytes(q, e)
    BY OtherView
  <1>3. /\ r \in RL /\ Dest(c) = r /\ ~HandedBy(r, c) /\ Hand(c) = <<size>>
        /\ Bytes(r, c) = bytes_enqueued[r][c] /\ bytes_enqueued[r][c] \in Int
    BY <1>1, EnqView
  <1>4. size \in Nat /\ size > 0 /\ ISO_MAX_QUEUE_LEN_BYTES \in Nat
    <2>1. size \in PktSize
      BY <1>1, LocType DEF FrameInv, Frame
    <2>2. size \in Nat \ {0} /\ ISO_MAX_QUEUE_LEN_BYTES \in Nat
      BY <2>1, PktNat, ParamAssumption DEF ParamAssumption
    <2> QED
      BY <2>2, Positive
  <1>5. Bytes(r, c) < ISO_MAX_QUEUE_LEN_BYTES
    BY SMTT(180), <1>1, <1>3, <1>4
  <1>6. /\ Hand(c)' = <<>> /\ Dest(c)' = None
        /\ \A q \in RL : HandedBy(q, c)' <=> HandedBy(q, c)
    BY <1>1, VerdictView
  <1>7. Path!Put(r, c, size)
    BY <1>1, <1>2, <1>3, <1>6, QueuedPut
  <1>8. Path!Hold(c, <<>>, r)
    BY <1>2, <1>6, HoldIntro
  <1> QED
    BY <1>3, <1>5, <1>7, <1>8, AcceptIntro, Single

LEMMA EnqueueDropPath ==
  ASSUME TypeOK, FrameInv, NEW c \in Cpu, EnqueueDrop(c),
         \A e \in Cpu : e # c => Untouched(e)
  PROVE  Path!Refuse(c)
  <1> DEFINE r == loc[c].to
             size == loc[c].skb
  <1>1. /\ pc[c] = "enqueue" /\ ReturnVerdict(c, "DROP") /\ UNCHANGED queueVars
        /\ bytes_enqueued[r][c] + size > ISO_MAX_QUEUE_LEN_BYTES
    BY DEF EnqueueDrop
  <1>2. \A e \in Cpu : e # c => SameHand(e) /\ \A q \in RL : SameBytes(q, e)
    BY OtherView
  <1>3. /\ r \in RL /\ Dest(c) = r /\ Hand(c) = <<size>>
        /\ Bytes(r, c) = bytes_enqueued[r][c] /\ bytes_enqueued[r][c] \in Int
    BY <1>1, EnqView
  <1>4. size \in Int /\ ISO_MAX_QUEUE_LEN_BYTES \in Int
    <2>1. size \in Nat \cup {0} /\ ISO_MAX_QUEUE_LEN_BYTES \in Nat
      BY LocType, PktNat, ParamAssumption DEF ParamAssumption
    <2> QED
      BY SMTT(180), <2>1
  <1>5. ~(Bytes(r, c) + size <= ISO_MAX_QUEUE_LEN_BYTES)
    BY SMTT(180), <1>1, <1>3, <1>4
  <1>6. /\ Hand(c)' = <<>> /\ Dest(c)' = None
        /\ \A q \in RL : HandedBy(q, c)' <=> HandedBy(q, c)
    BY <1>1, VerdictView
  <1>7. \A q \in RL, e \in Cpu : SameBytes(q, e)
    BY <1>1, <1>2, <1>6, StillBytes
  <1>8. Path!Hold(c, <<>>, r)
    BY <1>2, <1>6, HoldIntro
  <1> QED
    BY <1>1, <1>3, <1>5, <1>7, <1>8, RefuseIntro, Single DEF queueVars

LEMMA EnqueueErrorPath ==
  ASSUME TypeOK, FrameInv, NEW c \in Cpu, EnqueueError(c),
         \A e \in Cpu : e # c => Untouched(e)
  PROVE  Path!SplitFails(c)
  <1> DEFINE r == loc[c].to
             size == loc[c].skb
  <1>1. /\ pc[c] = "enqueue" /\ ReturnVerdict(c, "ERROR") /\ UNCHANGED queueVars
        /\ size > ISO_GSO_MIN_SPLIT_BYTES
    BY DEF EnqueueError, Splits
  <1>2. \A e \in Cpu : e # c => SameHand(e) /\ \A q \in RL : SameBytes(q, e)
    BY OtherView
  <1>3. Hand(c) = <<size>>
    BY <1>1, EnqView
  <1>4. Len(Hand(c)) = 1 /\ Head(Hand(c)) > ISO_GSO_MIN_SPLIT_BYTES
    BY <1>1, <1>3, Single
  <1>6. /\ Hand(c)' = <<>> /\ Dest(c)' = None
        /\ \A q \in RL : HandedBy(q, c)' <=> HandedBy(q, c)
    BY <1>1, VerdictView
  <1>7. \A q \in RL, e \in Cpu : SameBytes(q, e)
    BY <1>1, <1>2, <1>6, StillBytes
  <1>8. Path!Hold(c, <<>>, None)
    BY <1>2, <1>6, HoldIntro
  <1> QED
    BY <1>1, <1>4, <1>7, <1>8, BytesUnchanged DEF Path!SplitFails, queueVars

LEMMA EnqueueSplitPath ==
  ASSUME TypeOK, FrameInv, NEW c \in Cpu, EnqueueSplit(c),
         \A e \in Cpu : e # c => Untouched(e)
  PROVE  Path!Split(c)
  <1> DEFINE r == loc[c].to
             size == loc[c].skb
  <1>1. /\ pc[c] = "enqueue" /\ UNCHANGED queueVars /\ size > ISO_GSO_MIN_SPLIT_BYTES
        /\ \E x \in GsoSegs[size] : Goto(c, "segment", [loc[c] EXCEPT !.segs = x])
    BY DEF EnqueueSplit, Splits
  <1> PICK segs \in GsoSegs[size] : Goto(c, "segment", [loc[c] EXCEPT !.segs = segs])
    BY <1>1
  <1>2. \A e \in Cpu : e # c => SameHand(e) /\ \A q \in RL : SameBytes(q, e)
    BY OtherView
  <1>3. r \in RL /\ Dest(c) = r /\ Hand(c) = <<size>>
    BY <1>1, EnqView
  <1>4. Len(Hand(c)) = 1 /\ Head(Hand(c)) = size
    BY <1>3, Single
  <1>5. /\ pc'[c] = "segment" /\ loc'[c].rl = loc[c].rl /\ loc'[c].to = r
        /\ loc'[c].skb = size /\ loc'[c].segs = segs
    BY SplitEffect
  <1>6. segs # <<>>
    <2>1. size \in PktSize
      BY <1>1, LocType DEF FrameInv, Frame
    <2> QED
      BY <2>1, SegsNonEmpty
  <1>7. Hand(c)' = segs /\ Dest(c)' = r
    BY <1>5, <1>6 DEF Hand, Dest
  <1>8. \A q \in RL : HandedBy(q, c)' <=> HandedBy(q, c)
    BY <1>1, <1>5 DEF HandedBy, HandingOver, EnqLabels
  <1>9. \A q \in RL, e \in Cpu : SameBytes(q, e)
    BY <1>1, <1>2, <1>8, StillBytes
  <1>10. Path!Hold(c, segs, r)
    BY <1>2, <1>6, <1>7, HoldIntro
  <1> QED
    BY <1>1, <1>3, <1>4, <1>9, <1>10, BytesUnchanged DEF Path!Split, queueVars

LEMMA SegmentView ==
  ASSUME TypeOK, FrameInv, NEW c \in Cpu, EnqueueSegment(c)
  PROVE  /\ Hand(c)' = Tail(loc[c].segs)
         /\ Dest(c)' = (IF Tail(loc[c].segs) = <<>> THEN None ELSE loc[c].to)
         /\ \A q \in RL : HandedBy(q, c)' <=> HandedBy(q, c)
  <1> DEFINE rest == Tail(loc[c].segs)
  <1>1. pc[c] = "segment"
    BY DEF EnqueueSegment
  <1>2. CASE rest = <<>>
    <2>1. ReturnVerdict(c, "SUCCESS")
      BY <1>2 DEF EnqueueSegment
    <2> QED
      BY <1>1, <1>2, <2>1, VerdictView
  <1>3. CASE rest # <<>>
    <2>1. Goto(c, "segment", [loc[c] EXCEPT !.segs = rest])
      BY <1>1, <1>3 DEF EnqueueSegment
    <2>2. /\ pc'[c] = "segment" /\ loc'[c].rl = loc[c].rl /\ loc'[c].to = loc[c].to
          /\ loc'[c].skb = loc[c].skb /\ loc'[c].segs = rest
      BY <2>1, SplitEffect
    <2>3. Hand(c)' = rest /\ Dest(c)' = loc[c].to
      BY <1>3, <2>2 DEF Hand, Dest
    <2>4. \A q \in RL : HandedBy(q, c)' <=> HandedBy(q, c)
      BY <1>1, <2>2 DEF HandedBy, HandingOver, EnqLabels
    <2> QED
      BY <1>3, <2>3, <2>4
  <1> QED
    BY <1>2, <1>3

LEMMA EnqueueSegmentPath ==
  ASSUME TypeOK, TypeOK', FrameInv, NEW c \in Cpu, EnqueueSegment(c),
         \A e \in Cpu : e # c => Untouched(e)
  PROVE  Path!Accept(c) \/ Path!Refuse(c)
  <1> DEFINE r == loc[c].to
             segs == loc[c].segs
  <1>1. pc[c] = "segment"
    BY DEF EnqueueSegment
  <1>2. \A e \in Cpu : e # c => SameHand(e) /\ \A q \in RL : SameBytes(q, e)
    BY OtherView
  <1>3. /\ r \in RL /\ Dest(c) = r /\ ~HandedBy(r, c) /\ Hand(c) = segs /\ Hand(c) # <<>>
        /\ Bytes(r, c) = bytes_enqueued[r][c] /\ bytes_enqueued[r][c] \in Int
    BY <1>1, EnqView
  <1>4. /\ Hand(c)' = Tail(segs) /\ Dest(c)' = (IF Tail(segs) = <<>> THEN None ELSE r)
        /\ \A q \in RL : HandedBy(q, c)' <=> HandedBy(q, c)
    BY SegmentView
  <1>5. Path!Hold(c, Tail(segs), r)
    BY <1>2, <1>4, HoldIntro
  <1>6. CASE SegmentFits(r, c)
    <2>1. QueueTail(r, c, Head(segs))
      BY <1>6 DEF EnqueueSegment
    <2>2. Path!Put(r, c, Head(segs))
      BY <1>2, <1>3, <1>4, <2>1, QueuedPut
    <2>3. Bytes(r, c) < ISO_MAX_QUEUE_LEN_BYTES
      BY <1>3, <1>6 DEF SegmentFits
    <2> QED
      BY <1>3, <1>5, <2>2, <2>3, AcceptIntro
  <1>7. CASE ~SegmentFits(r, c)
    <2>1. UNCHANGED queueVars
      BY <1>7 DEF EnqueueSegment
    <2>2. \A q \in RL, e \in Cpu : SameBytes(q, e)
      BY <1>2, <1>4, <2>1, StillBytes
    <2>3. Head(segs) \in Nat \ {0} /\ ISO_MAX_QUEUE_LEN_BYTES \in Nat
      <3>1. Head(segs) \in PktSize
        BY <1>3, LocType, PktSeq
      <3> QED
        BY <3>1, PktNat, ParamAssumption DEF ParamAssumption
    <2>4. ~(bytes_enqueued[r][c] < ISO_MAX_QUEUE_LEN_BYTES)
      BY <1>7 DEF SegmentFits
    <2>5. ~(Bytes(r, c) + Head(segs) <= ISO_MAX_QUEUE_LEN_BYTES)
      BY SMTT(180), <1>3, <2>3, <2>4
    <2> QED
      BY <1>3, <1>5, <2>1, <2>2, <2>5, RefuseIntro DEF queueVars
  <1> QED
    BY <1>6, <1>7

-----------------------------------------------------------------------------
(* iso_tx, and the steps of iso_rl_dequeue that move a packet.              *)

LEMMA OfferPath ==
  ASSUME TypeOK, FrameInv, NEW c \in Cpu, NEW d \in Leaf, NEW s \in PktSize, iso_tx(c, d, s),
         \A e \in Cpu : e # c => Untouched(e)
  PROVE  Path!Offer(c, d, s)
  <1>1. pc[c] = "idle" /\ loc[c] = NoLocals /\ UNCHANGED queueVars
    BY DEF iso_tx, FrameInv, Frame
  <1>2. pc'[c] = "clock" /\ loc'[c] = [NoLocals EXCEPT !.to = d, !.skb = s]
    BY <1>1, GotoEffect DEF iso_tx
  <1>3. loc'[c].to = d /\ loc'[c].skb = s
    BY <1>2 DEF NoLocals
  <1>4. s # 0 /\ d \notin Class
    BY PktNat, Structure
  <1>5. \A e \in Cpu : e # c => SameHand(e) /\ \A q \in RL : SameBytes(q, e)
    BY OtherView
  <1>6. Empty(c)
    BY <1>1 DEF Empty, EnqLabels
  <1>7. Hand(c)' = <<s>> /\ Dest(c)' = d
    <2>1. pc'[c] \in EnqLabels /\ pc'[c] # "segment"
      BY <1>2 DEF EnqLabels
    <2>2. Hand(c)' = <<s>>
      BY <1>3, <1>4, <2>1 DEF Hand
    <2> QED
      BY <1>3, <2>2, Single DEF Dest
  <1>8. \A q \in RL : HandedBy(q, c)' <=> HandedBy(q, c)
    <2>1. \A q \in RL : ~HandedBy(q, c)
      BY <1>6, EmptyView
    <2>2. \A q \in RL : ~HandedBy(q, c)'
      BY <1>2, <1>3, <1>4 DEF HandedBy, HandingOver
    <2> QED
      BY <2>1, <2>2
  <1>9. \A q \in RL, e \in Cpu : SameBytes(q, e)
    BY <1>1, <1>5, <1>8, StillBytes
  <1>10. Path!Hold(c, <<s>>, d)
    BY <1>5, <1>7, Single, HoldIntro
  <1>11. Hand(c) = <<>>
    BY <1>6, EmptyView
  <1> QED
    BY <1>1, <1>9, <1>10, <1>11, BytesUnchanged DEF Path!Offer, queueVars

LEMMA LoopView ==
  ASSUME TypeOK, FrameInv, NEW c \in Cpu, pc[c] = "loop"
  PROVE  LET r == loc[c].rl
         IN /\ r \in RL /\ Empty(c) /\ list[r][c] # <<>>
            /\ first_pkt_size[r][c] = Head(list[r][c])
            /\ Head(list[r][c]) \in Nat \ {0}
            /\ \A q \in RL : bytes_enqueued[q][c] \in Int
            /\ \A q \in RL : Bytes(q, c) = bytes_enqueued[q][c]
  <1> DEFINE r == loc[c].rl
  <1>1. Frame(c) /\ r \in RL
    BY DEF FrameInv, Frame, DeqLabels
  <1>2. list[r][c] # <<>> /\ first_pkt_size[r][c] = Head(list[r][c])
    BY <1>1 DEF Frame
  <1>3. Head(list[r][c]) \in Nat \ {0}
    BY <1>1, <1>2, HeadPkt, PktNat
  <1>4. Empty(c)
    BY DEF Empty, EnqLabels
  <1>5. \A q \in RL : Bytes(q, c) = bytes_enqueued[q][c] /\ bytes_enqueued[q][c] \in Int
    BY <1>4, EmptyView, PlainBytes
  <1> QED
    BY <1>1, <1>2, <1>3, <1>4, <1>5

LEMMA TransmitPath ==
  ASSUME TypeOK, TypeOK', FrameInv, NEW c \in Cpu, Transmit(c),
         \A e \in Cpu : e # c => Untouched(e)
  PROVE  \E k \in Class : Path!Send(c, k)
  <1>0. loc[c].rl \in RL
    BY LoopView DEF Transmit
  <1> PICK r \in RL : r = loc[c].rl
    BY <1>0
  <1> DEFINE size == first_pkt_size[r][c]
  <1>1. /\ pc[c] = "loop" /\ r \in Class /\ PayAndAdvance(c, Tail(list[r][c]))
        /\ list' = [list EXCEPT ![r][c] = Tail(list[r][c])]
    BY DEF Transmit
  <1>2. /\ r \in RL /\ Empty(c) /\ list[r][c] # <<>> /\ size = Head(list[r][c])
        /\ \A q \in RL : Bytes(q, c) = bytes_enqueued[q][c]
    BY <1>1, LoopView
  <1>3. pc'[c] \in {"unlock", "timeout", "loop"}
    <2>1. CASE Tail(list[r][c]) = <<>>
      BY <1>1, <2>1, LastPktEffect
    <2>2. CASE Tail(list[r][c]) # <<>>
      BY <1>1, <2>2, NextPktEffect
    <2> QED
      BY <2>1, <2>2
  <1>4. Empty(c)'
    BY <1>3 DEF Empty, EnqLabels
  <1>5. ASSUME NEW q \in RL PROVE Bytes(q, c)' = bytes_enqueued'[q][c]
    <2>1. Bytes(q, c)' = bytes_enqueued'[q][c] - 0
      BY <1>4, EmptyViewNext DEF Bytes
    <2>2. bytes_enqueued'[q][c] \in Int
      <3>1. bytes_enqueued' \in [RL -> [Cpu -> Int]]
        BY DEF TypeOK
      <3> QED
        BY <3>1
    <2> QED
      BY SMTT(180), <2>1, <2>2
  <1>6. bytes_enqueued'[r][c] = bytes_enqueued[r][c] - size
    BY <1>1, <1>2, PaidBytes
  <1>7. \A q \in RL : q # r => bytes_enqueued'[q][c] = bytes_enqueued[q][c]
    BY <1>1, <1>2, PaidBytes
  <1>8. \A e \in Cpu : e # c => SameHand(e) /\ \A q \in RL : SameBytes(q, e)
    BY OtherView
  <1>9. \A q \in RL, e \in Cpu : q # r \/ e # c => SameBytes(q, e)
    <2>1. ASSUME NEW q \in RL, q # r PROVE SameBytes(q, c)
      <3>1. Bytes(q, c)' = bytes_enqueued'[q][c]
        BY <1>5
      <3>2. Bytes(q, c) = bytes_enqueued[q][c]
        BY <1>2
      <3>3. bytes_enqueued'[q][c] = bytes_enqueued[q][c]
        BY <1>7, <2>1
      <3> QED
        BY <3>1, <3>2, <3>3 DEF SameBytes
    <2> QED
      BY <1>8, <2>1
  <1>10. Bytes(r, c)' = Bytes(r, c) - Head(list[r][c])
    <2>1. Bytes(r, c)' = bytes_enqueued'[r][c] /\ Bytes(r, c) = bytes_enqueued[r][c]
      BY <1>2, <1>5
    <2> QED
      BY <1>2, <1>6, <2>1
  <1>11. Path!Take(r, c)
    BY <1>1, <1>2, <1>9, <1>10, TakeIntro
  <1>12. \A e \in Cpu : SameHand(e)
    BY <1>2, <1>4, <1>8, EmptyView, EmptyViewNext DEF SameHand
  <1>13. UNCHANGED [e \in Cpu |-> Hand(e)] /\ UNCHANGED [e \in Cpu |-> Dest(e)]
    BY <1>12 DEF SameHand
  <1>14. Path!Send(c, r)
    BY <1>2, <1>11, <1>13, EmptyView DEF Path!Send
  <1> QED
    BY <1>1, <1>14

LEMMA HandOverPath ==
  ASSUME TypeOK, FrameInv, NEW c \in Cpu, HandOver(c),
         \A e \in Cpu : e # c => Untouched(e)
  PROVE  \E d \in Leaf : Path!Pass(c, d)
  <1>0. loc[c].rl \in RL
    BY LoopView DEF HandOver
  <1> PICK r \in RL : r = loc[c].rl
    BY <1>0
  <1> DEFINE k == txc[r]
             size == Head(list[r][c])
  <1>1. /\ pc[c] = "loop" /\ r \in Leaf /\ UNCHANGED <<first_pkt_size, bytes_enqueued>>
        /\ list' = [list EXCEPT ![r][c] = Tail(list[r][c])]
        /\ bytes_enqueued[k][c] + first_pkt_size[r][c] < ISO_MAX_QUEUE_LEN_BYTES
    BY DEF HandOver, iso_rl_has_space_for
  <1>2. /\ r \in RL /\ Empty(c) /\ list[r][c] # <<>> /\ first_pkt_size[r][c] = size
        /\ size \in Nat \ {0} /\ \A q \in RL : bytes_enqueued[q][c] \in Int
        /\ \A q \in RL : Bytes(q, c) = bytes_enqueued[q][c]
    BY <1>1, LoopView
  <1>3. k \in Class /\ k \in RL
    BY <1>1, Structure DEF RL
  <1>4. pc'[c] = "clock" /\ loc'[c].rl = r /\ loc'[c].to = k /\ loc'[c].skb = size
    BY <1>2, HandOverEffect
  <1>5. size # 0
    BY <1>2
  <1>6. Hand(c)' = <<size>> /\ Dest(c)' = k /\ HandingOver(c)'
    <2>1. pc'[c] \in EnqLabels /\ pc'[c] # "segment"
      BY <1>4 DEF EnqLabels
    <2>2. Hand(c)' = <<size>>
      BY <1>4, <1>5, <2>1 DEF Hand
    <2> QED
      BY <1>3, <1>4, <1>5, <2>1, <2>2, Single DEF Dest, HandingOver
  <1>7. \A q \in RL : HandedBy(q, c)' <=> q = r
    BY <1>4, <1>6 DEF HandedBy
  <1>8. Bytes(r, c)' = Bytes(r, c) - size
    <2>1. Bytes(r, c)' = bytes_enqueued'[r][c] - first_pkt_size'[r][c]
      BY <1>2, <1>7 DEF Bytes
    <2>2. Bytes(r, c) = bytes_enqueued[r][c] /\ first_pkt_size[r][c] = size
      BY <1>2
    <2> QED
      BY <1>1, <2>1, <2>2
  <1>9. ASSUME NEW q \in RL, q # r PROVE SameBytes(q, c)
    BY <1>1, <1>2, <1>7, <1>9, EmptyView DEF SameBytes, Bytes
  <1>10. \A e \in Cpu : e # c => SameHand(e) /\ \A q \in RL : SameBytes(q, e)
    BY OtherView
  <1>11. Path!Take(r, c)
    <2>1. \A q \in RL, e \in Cpu : q # r \/ e # c => SameBytes(q, e)
      BY <1>9, <1>10
    <2>2. list' = [list EXCEPT ![r][c] = Tail(list[r][c])]
      BY <1>1
    <2>3. Bytes(r, c)' = Bytes(r, c) - Head(list[r][c])
      BY <1>8
    <2> QED
      BY <1>2, <2>1, <2>2, <2>3, TakeIntro
  <1>12. Path!Hold(c, <<size>>, k)
    BY <1>6, <1>10, Single, HoldIntro
  <1>13. Bytes(k, c) + size <= ISO_MAX_QUEUE_LEN_BYTES
    <2>1. ISO_MAX_QUEUE_LEN_BYTES \in Nat /\ bytes_enqueued[k][c] \in Int
          /\ Bytes(k, c) = bytes_enqueued[k][c]
      BY <1>2, <1>3, ParamAssumption DEF ParamAssumption
    <2>2. bytes_enqueued[k][c] + size < ISO_MAX_QUEUE_LEN_BYTES /\ size \in Nat
      BY <1>1, <1>2
    <2>3. bytes_enqueued[k][c] + size <= ISO_MAX_QUEUE_LEN_BYTES
      BY <2>1, <2>2, FitsBelow
    <2> QED
      BY <2>1, <2>3
  <1>14. Path!Room(k, c, size)
    BY <1>3, <1>13 DEF Path!Room
  <1>15. Path!Pass(c, r)
    BY <1>2, <1>11, <1>12, <1>14, EmptyView DEF Path!Pass
  <1> QED
    BY <1>1, <1>15

-----------------------------------------------------------------------------
LEMMA PathInit == Init => Path!Init
  <1> SUFFICES ASSUME Init PROVE Path!Init
    OBVIOUS
  <1>1. ASSUME NEW c \in Cpu PROVE Empty(c)
    BY DEF Init, Empty, EnqLabels
  <1>2. ASSUME NEW c \in Cpu, NEW r \in RL PROVE Bytes(r, c) = 0
    <2>1. Bytes(r, c) = bytes_enqueued[r][c] - 0
      BY <1>1, EmptyView DEF Bytes
    <2>2. bytes_enqueued[r][c] = 0
      BY DEF Init
    <2> QED
      BY SMTT(180), <2>1, <2>2
  <1>3. [c \in Cpu |-> Hand(c)] = [c \in Cpu |-> <<>>]
    BY <1>1, EmptyView
  <1>4. [c \in Cpu |-> Dest(c)] = [c \in Cpu |-> None]
    BY <1>1, EmptyView
  <1>5. [r \in RL |-> [c \in Cpu |-> Bytes(r, c)]] = [r \in RL |-> [c \in Cpu |-> 0]]
    BY <1>2
  <1> QED
    BY <1>3, <1>4, <1>5 DEF Init, Path!Init, RL

LEMMA PathStep ==
  TypeOK /\ TypeOK' /\ FrameInv /\ [Next]_vars => [Path!Next]_(Path!vars)
  <1> SUFFICES ASSUME TypeOK, TypeOK', FrameInv, [Next]_vars
               PROVE  Path!Next \/ UNCHANGED Path!vars
    OBVIOUS
  <1>1. ASSUME UNCHANGED queueVars, UNCHANGED cpuVars PROVE UNCHANGED Path!vars
    <2>1. ASSUME NEW e \in Cpu
          PROVE  SameHand(e) /\ \A r \in RL : SameBytes(r, e)
      BY <1>1 DEF queueVars, cpuVars, SameHand, SameBytes, Hand, Dest, Bytes,
         HandedBy, HandingOver
    <2> QED
      BY <1>1, <2>1, Stutters DEF queueVars
  <1>2. CASE UNCHANGED vars
    BY <1>1, <1>2 DEF vars
  <1>3. ASSUME NEW c \in Cpu, NEW d \in Leaf, NEW x \in Rates, Feedback(c, d, x)
        PROVE  UNCHANGED Path!vars
    BY <1>1, <1>3 DEF Feedback
  <1>4. ASSUME NEW c \in Cpu, NEW k \in Class, NEW x \in Rates, TxcTick(c, k, x)
        PROVE  UNCHANGED Path!vars
    BY <1>1, <1>4 DEF TxcTick
  <1>5. ASSUME NEW c \in Cpu, iso_rl_timeout(c)
        PROVE  UNCHANGED Path!vars
    BY <1>1, <1>5 DEF iso_rl_timeout
  <1>6. ASSUME NEW c \in Cpu, NEW d \in Leaf, NEW s \in PktSize, iso_tx(c, d, s)
        PROVE  Path!Next
    <2>1. \A e \in Cpu : e # c => Untouched(e)
      BY <1>6, Locality
    <2> QED
      BY <1>6, <2>1, OfferPath DEF Path!Next
  <1>7. ASSUME NEW c \in Cpu, Step(c)
        PROVE  Path!Next \/ UNCHANGED Path!vars
    <2>1. \A e \in Cpu : e # c => Untouched(e)
      BY <1>7, Locality
    <2>2. CASE Clock(c)
      BY <2>1, <2>2, ClockView, QuietStutters
    <2>3. CASE Enqueue(c)
      <3>1. Path!Accept(c) \/ Path!Refuse(c) \/ Path!Split(c) \/ Path!SplitFails(c)
        BY <2>1, <2>3, EnqueueTailPath, EnqueueDropPath, EnqueueErrorPath,
           EnqueueSplitPath, EnqueueSegmentPath DEF Enqueue
      <3> QED
        BY <3>1 DEF Path!Next
    <2>4. CASE Transmit(c)
      BY <2>1, <2>4, TransmitPath DEF Path!Next
    <2>5. CASE HandOver(c)
      BY <2>1, <2>5, HandOverPath DEF Path!Next
    <2>6. CASE HandedOver(c)
      BY <2>1, <2>6, HandedOverView, QuietStutters
    <2>7. CASE (Dequeue(c) \/ Tasklet(c)) /\ ~Transmit(c) /\ ~HandOver(c) /\ ~HandedOver(c)
      BY <2>1, <2>7, QuietStep, QuietView, QuietStutters
    <2> QED
      BY <1>7, <2>2, <2>3, <2>4, <2>5, <2>6, <2>7 DEF Step
  <1> QED
    BY <1>2, <1>3, <1>4, <1>5, <1>6, <1>7 DEF Next

(* The two levels of limiters (iso_rl_enqueue, iso_rl_dequeue and the       *)
(* xmit tasklet) are a pair of FIFO queues per CPU, whatever the number of  *)
(* CPUs, destinations and classes, the packet sizes and the rates: no step  *)
(* reorders or duplicates packets, or loses one between the two levels.     *)
THEOREM PathIsKept == Spec => KeepsPacketPath
  <1>1. TypeOK /\ TypeOK' /\ FrameInv /\ [Next]_vars => [Path!Next]_(Path!vars)
    BY PathStep
  <1> QED
    BY PTL, <1>1, PathInit, Invariants DEF Spec, KeepsPacketPath, Path!Spec

-----------------------------------------------------------------------------
(* The length of a queue.                                                   *)

(* What the loop over the segments still has to queue are segments.         *)
SegsInv ==
  \A c \in Cpu : pc[c] = "segment" =>
    \A i \in DOMAIN loc[c].segs : loc[c].segs[i] \in SegSize

Bounded(r, c) ==
  \/ bytes_enqueued[r][c] <= ISO_MAX_QUEUE_LEN_BYTES
  \/ \E s \in SegSize : bytes_enqueued[r][c] < ISO_MAX_QUEUE_LEN_BYTES + s

LengthInv == SegsInv /\ QueueIsBounded

LEMMA SegsAreSizes ==
  ASSUME NEW size \in PktSize, NEW segs \in GsoSegs[size]
  PROVE  segs \in Seq(PktSize) /\ \A i \in DOMAIN segs : segs[i] \in SegSize
  <1>1. GsoSegs \in [PktSize -> SUBSET Seq(PktSize)]
    BY SizeAssumption DEF SizeAssumption
  <1>2. segs \in UNION Range(GsoSegs)
    BY <1>1 DEF Range
  <1> QED
    BY SMT, <1>1, <1>2 DEF SegSize, Range

LEMMA SegSizeNat == \A s \in SegSize : s \in Nat
  <1> SUFFICES ASSUME NEW s \in SegSize PROVE s \in Nat
    OBVIOUS
  <1>1. GsoSegs \in [PktSize -> SUBSET Seq(PktSize)]
    BY SizeAssumption DEF SizeAssumption
  <1>2. PICK g \in UNION Range(GsoSegs) : s \in Range(g)
    BY DEF SegSize
  <1>3. g \in Seq(PktSize)
    BY <1>1, <1>2 DEF Range
  <1>4. s \in PktSize
    BY SMT, <1>2, <1>3 DEF Range
  <1> QED
    BY <1>4, PktNat

LEMMA BoundedLess ==
  ASSUME TypeOK, NEW r \in RL, NEW c \in Cpu, Bounded(r, c),
         NEW n \in Nat, bytes_enqueued'[r][c] = bytes_enqueued[r][c] - n
  PROVE  Bounded(r, c)'
  <1>1. bytes_enqueued[r][c] \in Int /\ ISO_MAX_QUEUE_LEN_BYTES \in Nat
    BY QueueTypes, ParamAssumption DEF ParamAssumption
  <1> QED
    BY SMT, <1>1, SegSizeNat DEF Bounded

LEMMA BoundedSame ==
  ASSUME NEW r \in RL, NEW c \in Cpu, Bounded(r, c),
         bytes_enqueued'[r][c] = bytes_enqueued[r][c]
  PROVE  Bounded(r, c)'
  BY DEF Bounded

LEMMA LengthOwn ==
  ASSUME TypeOK, FrameInv, SegsInv, NEW c \in Cpu, Step(c),
         \A r \in RL : Bounded(r, c)
  PROVE  /\ \A r \in RL : Bounded(r, c)'
         /\ pc'[c] = "segment" =>
              \A i \in DOMAIN loc'[c].segs : loc'[c].segs[i] \in SegSize
  <1>1. ASSUME UNCHANGED bytes_enqueued PROVE \A r \in RL : Bounded(r, c)'
    BY <1>1, BoundedSame
  <1>2. CASE Clock(c)
    <2>1. UNCHANGED bytes_enqueued
      BY <1>2 DEF Clock, ClockNotDue, ClockRead, ClockWrite, ClockCap, queueVars
    <2>2. pc'[c] # "segment"
      BY <1>2, ClockNotDueEffect, ClockReadEffect, ClockWriteEffect, ClockCapEffect
         DEF Clock
    <2> QED
      BY <1>1, <2>1, <2>2
  <1>3. CASE EnqueueDrop(c) \/ EnqueueError(c)
    <2>1. UNCHANGED bytes_enqueued /\ \E v : ReturnVerdict(c, v)
      BY <1>3 DEF EnqueueDrop, EnqueueError, queueVars
    <2>2. pc'[c] # "segment"
      BY <2>1, VerdictEffect
    <2> QED
      BY <1>1, <2>1, <2>2
  <1>4. CASE EnqueueTail(c)
    <2>1. loc[c].to \in RL
      BY <1>4, EnqView DEF EnqueueTail
    <2> PICK r \in RL : r = loc[c].to
      BY <2>1
    <2> DEFINE size == loc[c].skb
    <2>2. /\ QueueTail(r, c, size) /\ ReturnVerdict(c, "SUCCESS")
          /\ bytes_enqueued[r][c] + size <= ISO_MAX_QUEUE_LEN_BYTES
      BY <1>4 DEF EnqueueTail
    <2> HIDE DEF size
    <2>3. pc'[c] # "segment"
      BY <2>2, VerdictEffect
    <2>4. /\ bytes_enqueued'[r][c] = bytes_enqueued[r][c] + size
          /\ \A q \in RL : q # r => bytes_enqueued'[q][c] = bytes_enqueued[q][c]
      BY <2>2, TailHere, TailElsewhere
    <2>5. Bounded(r, c)'
      BY <2>2, <2>4 DEF Bounded
    <2>6. ASSUME NEW q \in RL PROVE Bounded(q, c)'
      BY <2>4, <2>5, BoundedSame
    <2> QED
      BY <2>3, <2>6
  <1>5. CASE EnqueueSplit(c)
    <2> DEFINE size == loc[c].skb
    <2>1. /\ UNCHANGED bytes_enqueued /\ pc[c] = "enqueue"
          /\ \E x \in GsoSegs[size] : Goto(c, "segment", [loc[c] EXCEPT !.segs = x])
      BY <1>5 DEF EnqueueSplit, queueVars
    <2>2. size \in PktSize
      BY <2>1, LocType DEF FrameInv, Frame
    <2>3. PICK x \in GsoSegs[size] : Goto(c, "segment", [loc[c] EXCEPT !.segs = x])
      BY <2>1
    <2>4. loc'[c].segs = x
      BY <2>3, SplitEffect
    <2> QED
      BY <1>1, <2>1, <2>2, <2>4, SegsAreSizes
  <1>6. CASE EnqueueSegment(c)
    <2> DEFINE segs == loc[c].segs
    <2>1. pc[c] = "segment"
      BY <1>6 DEF EnqueueSegment
    <2>2. loc[c].to \in RL /\ segs \in Seq(PktSize) /\ segs # <<>>
      BY <2>1, EnqView, LocType
    <2> PICK r \in RL : r = loc[c].to
      BY <2>2
    <2>3. \A i \in DOMAIN segs : segs[i] \in SegSize
      BY <2>1 DEF SegsInv
    <2> HIDE DEF segs
    <2>4. /\ Head(segs) \in SegSize
          /\ \A i \in DOMAIN Tail(segs) : Tail(segs)[i] \in SegSize
      <3>1. /\ Len(segs) \in Nat /\ DOMAIN segs = 1..Len(segs) /\ 1 \in DOMAIN segs
            /\ Head(segs) = segs[1] /\ DOMAIN Tail(segs) = 1..(Len(segs) - 1)
            /\ \A i \in DOMAIN Tail(segs) : Tail(segs)[i] = segs[i + 1]
        BY SMT, <2>2
      <3>2. \A i \in DOMAIN Tail(segs) : i + 1 \in DOMAIN segs
        BY SMT, <3>1
      <3> QED
        BY <2>3, <3>1, <3>2
    <2>5. pc'[c] = "segment" => loc'[c].segs = Tail(segs)
      <3>1. \/ ReturnVerdict(c, "SUCCESS")
            \/ Goto(c, "segment", [loc[c] EXCEPT !.segs = Tail(segs)])
        BY <1>6, <2>1 DEF EnqueueSegment, segs
      <3> QED
        BY <3>1, VerdictEffect, SplitEffect
    <2>6. \A q \in RL : Bounded(q, c)'
      <3>1. CASE ~SegmentFits(r, c)
        BY <1>1, <1>6, <3>1 DEF EnqueueSegment, queueVars
      <3>2. CASE SegmentFits(r, c)
        <4>1. QueueTail(r, c, Head(segs))
          BY <1>6, <3>2 DEF EnqueueSegment, segs
        <4>2. /\ bytes_enqueued'[r][c] = bytes_enqueued[r][c] + Head(segs)
              /\ \A q \in RL : q # r => bytes_enqueued'[q][c] = bytes_enqueued[q][c]
          BY <4>1, TailHere, TailElsewhere
        <4>3. bytes_enqueued[r][c] \in Int /\ ISO_MAX_QUEUE_LEN_BYTES \in Nat
          BY QueueTypes, ParamAssumption DEF ParamAssumption
        <4>4. Head(segs) \in Nat
          BY <2>4, SegSizeNat
        <4>5. bytes_enqueued[r][c] < ISO_MAX_QUEUE_LEN_BYTES
          BY <3>2 DEF SegmentFits
        <4>6. bytes_enqueued'[r][c] < ISO_MAX_QUEUE_LEN_BYTES + Head(segs)
          BY SMT, <4>2, <4>3, <4>4, <4>5
        <4>7. Bounded(r, c)'
          BY <2>4, <4>6 DEF Bounded
        <4>8. ASSUME NEW q \in RL PROVE Bounded(q, c)'
          BY <4>2, <4>7, BoundedSame
        <4> QED
          BY <4>8
      <3> QED
        BY <3>1, <3>2
    <2> QED
      BY <2>4, <2>5, <2>6
  <1>7. CASE Transmit(c) \/ HandedOver(c)
    <2>1. PICK pkts : PayAndAdvance(c, pkts)
      BY <1>7 DEF Transmit, HandedOver
    <2>2. loc[c].rl \in RL
      BY <1>7 DEF Transmit, HandedOver, FrameInv, Frame, RL
    <2> PICK r \in RL : r = loc[c].rl
      BY <2>2
    <2>3. pc'[c] # "segment"
      BY <2>1, LastPktEffect, NextPktEffect
    <2>4. /\ bytes_enqueued'[r][c] = bytes_enqueued[r][c] - first_pkt_size[r][c]
          /\ \A q \in RL : q # r => bytes_enqueued'[q][c] = bytes_enqueued[q][c]
      BY <2>1, PaidBytes
    <2>5. first_pkt_size[r][c] \in Nat
      BY QueueTypes
    <2>6. Bounded(r, c)'
      BY <2>4, <2>5, BoundedLess
    <2>7. ASSUME NEW q \in RL PROVE Bounded(q, c)'
      BY <2>4, <2>6, BoundedSame
    <2> QED
      BY <2>3, <2>7
  <1>8. CASE HandOver(c)
    <2>1. UNCHANGED bytes_enqueued /\ pc'[c] # "segment"
      BY <1>8, HandOverEffect DEF HandOver
    <2> QED
      BY <1>1, <2>1
  <1>9. CASE (Dequeue(c) \/ Tasklet(c)) /\ ~Transmit(c) /\ ~HandOver(c) /\ ~HandedOver(c)
    <2>1. Empty(c)' /\ UNCHANGED bytes_enqueued
      BY <1>9, QuietStep
    <2>2. pc'[c] # "segment"
      BY <2>1 DEF Empty
    <2> QED
      BY <1>1, <2>1, <2>2
  <1> QED
    BY <1>2, <1>3, <1>4, <1>5, <1>6, <1>7, <1>8, <1>9 DEF Step, Enqueue

LEMMA LengthStep ==
  TypeOK /\ FrameInv /\ LengthInv /\ [Next]_vars => LengthInv'
  <1> SUFFICES ASSUME TypeOK, FrameInv, LengthInv, [Next]_vars, NEW e \in Cpu
               PROVE  /\ \A r \in RL : Bounded(r, e)'
                      /\ pc'[e] = "segment" =>
                           \A i \in DOMAIN loc'[e].segs : loc'[e].segs[i] \in SegSize
    BY DEF LengthInv, SegsInv, QueueIsBounded, Bounded
  <1>1. /\ SegsInv /\ \A r \in RL : Bounded(r, e)
        /\ pc[e] = "segment" =>
              \A i \in DOMAIN loc[e].segs : loc[e].segs[i] \in SegSize
    BY DEF LengthInv, SegsInv, QueueIsBounded, Bounded
  <1>2. CASE UNCHANGED <<queueVars, cpuVars>>
    BY <1>1, <1>2, BoundedSame DEF queueVars, cpuVars
  <1>3. CASE Untouched(e)
    BY <1>1, <1>3, BoundedSame DEF Untouched
  <1>4. ASSUME NEW c \in Cpu, NEW d \in Leaf, NEW s \in PktSize, iso_tx(c, d, s)
        PROVE  /\ \A r \in RL : Bounded(r, e)'
               /\ pc'[e] = "segment" =>
                    \A i \in DOMAIN loc'[e].segs : loc'[e].segs[i] \in SegSize
    <2>1. CASE e = c
      <3>1. UNCHANGED bytes_enqueued
        BY <1>4 DEF iso_tx, queueVars
      <3>2. pc'[c] = "clock"
        BY <1>4, GotoEffect DEF iso_tx
      <3> QED
        BY <1>1, <2>1, <3>1, <3>2, BoundedSame
    <2> QED
      BY <1>3, <1>4, <2>1, Locality
  <1>5. ASSUME NEW c \in Cpu, Step(c)
        PROVE  /\ \A r \in RL : Bounded(r, e)'
               /\ pc'[e] = "segment" =>
                    \A i \in DOMAIN loc'[e].segs : loc'[e].segs[i] \in SegSize
    BY <1>1, <1>3, <1>5, LengthOwn, Locality
  <1> QED
    BY <1>2, <1>4, <1>5 DEF Next, Feedback, TxcTick, iso_rl_timeout, vars

(* No mix of whole packets, segments and hand-overs makes a queue longer    *)
(* than ISO_MAX_QUEUE_LEN_BYTES by a segment or more: the check of          *)
(* iso_rl_enqueue is made before every segment.                             *)
THEOREM QueueBounded == Spec => []QueueIsBounded
  <1>1. Init => LengthInv
    <2>1. ISO_MAX_QUEUE_LEN_BYTES \in Nat
      BY ParamAssumption DEF ParamAssumption
    <2> QED
      BY SMT, <2>1 DEF Init, LengthInv, SegsInv, QueueIsBounded
  <1>2. LengthInv => QueueIsBounded
    BY DEF LengthInv
  <1> QED
    BY PTL, <1>1, <1>2, LengthStep, Invariants DEF Spec

-----------------------------------------------------------------------------
(* Bytes.  Seen from PacketPath a queue only ever takes a packet at its     *)
(* tail, gives one up at its head, or stays as it is.                       *)

Sum(r, c) == Total(list[r][c], DOMAIN list[r][c])

QueuedBytes == \A r \in RL, c \in Cpu : Bytes(r, c) = Sum(r, c)

SameQueue(r, c) == SameBytes(r, c) /\ list'[r][c] = list[r][c]

LEMMA ListType ==
  ASSUME TypeOK, NEW r \in RL, NEW c \in Cpu
  PROVE  list[r][c] \in Seq(PktSize) /\ list[r][c] \in Seq(Nat)
  <1>1. list[r][c] \in Seq(PktSize)
    BY SMT DEF TypeOK
  <1>2. \A x \in PktSize : x \in Nat
    BY PktNat
  <1> QED
    BY <1>1, <1>2, WiderSeq

LEMMA BytesKept ==
  ASSUME UNCHANGED [r \in RL |-> [c \in Cpu |-> Bytes(r, c)]],
         NEW r \in RL, NEW c \in Cpu
  PROVE  SameBytes(r, c)
  <1>1. [q \in RL |-> [e \in Cpu |-> Bytes(q, e)']][r][c]
          = [q \in RL |-> [e \in Cpu |-> Bytes(q, e)]][r][c]
    OBVIOUS
  <1> QED
    BY <1>1 DEF SameBytes

LEMMA PutElim ==
  ASSUME TypeOK, NEW r \in RL, NEW c \in Cpu, NEW size, Path!Put(r, c, size)
  PROVE  /\ list'[r][c] = Append(list[r][c], size)
         /\ Bytes(r, c)' = Bytes(r, c) + size
         /\ \A q \in RL, e \in Cpu : q # r \/ e # c => SameQueue(q, e)
  <1> DEFINE B == [q \in RL |-> [e \in Cpu |-> Bytes(q, e)]]
             C == [q \in RL |-> [e \in Cpu |-> Bytes(q, e)']]
             V == {Bytes(q, e) : q \in RL, e \in Cpu}
             l == Append(list[r][c], size)
             n == Bytes(r, c) + size
  <1>1. list' = [list EXCEPT ![r][c] = l]
    BY DEF Path!Put
  <1>2. C = [B EXCEPT ![r][c] = n]
    BY DEF Path!Put
  <1>3. \A q \in RL, e \in Cpu : C[q][e] = Bytes(q, e)' /\ B[q][e] = Bytes(q, e)
    OBVIOUS
  <1>4. B \in [RL -> [Cpu -> V]]
    BY SMT
  <1> HIDE DEF B, C, V, l, n
  <1>5. /\ C[r][c] = n
        /\ \A q \in RL, e \in Cpu : q # r \/ e # c => C[q][e] = B[q][e]
    BY <1>2, <1>4
  <1>6. /\ list'[r][c] = l
        /\ \A q \in RL, e \in Cpu : q # r \/ e # c => list'[q][e] = list[q][e]
    BY <1>1 DEF TypeOK
  <1>7. list'[r][c] = Append(list[r][c], size)
    BY <1>6 DEF l
  <1>8. Bytes(r, c)' = Bytes(r, c) + size
    BY <1>3, <1>5 DEF n
  <1>9. ASSUME NEW q \in RL, NEW e \in Cpu, q # r \/ e # c
        PROVE  SameQueue(q, e)
    <2>1. C[q][e] = B[q][e] /\ list'[q][e] = list[q][e]
      BY <1>5, <1>6, <1>9
    <2>2. Bytes(q, e)' = Bytes(q, e)
      BY <1>3, <2>1
    <2> QED
      BY <2>1, <2>2 DEF SameQueue, SameBytes
  <1> QED
    BY <1>7, <1>8, <1>9

LEMMA PutHere ==
  ASSUME TypeOK, NEW r \in RL, NEW c \in Cpu, NEW size, Path!Put(r, c, size)
  PROVE  /\ list'[r][c] = Append(list[r][c], size)
         /\ Bytes(r, c)' = Bytes(r, c) + size
  BY SMT, PutElim

LEMMA TakeElim ==
  ASSUME TypeOK, NEW r \in RL, NEW c \in Cpu, Path!Take(r, c)
  PROVE  /\ list'[r][c] = Tail(list[r][c])
         /\ Bytes(r, c)' = Bytes(r, c) - Head(list[r][c])
         /\ \A q \in RL, e \in Cpu : q # r \/ e # c => SameQueue(q, e)
  <1> DEFINE B == [q \in RL |-> [e \in Cpu |-> Bytes(q, e)]]
             C == [q \in RL |-> [e \in Cpu |-> Bytes(q, e)']]
             V == {Bytes(q, e) : q \in RL, e \in Cpu}
             l == Tail(list[r][c])
             n == Bytes(r, c) - Head(list[r][c])
  <1>1. list' = [list EXCEPT ![r][c] = l]
    BY DEF Path!Take
  <1>2. C = [B EXCEPT ![r][c] = n]
    BY DEF Path!Take
  <1>3. \A q \in RL, e \in Cpu : C[q][e] = Bytes(q, e)' /\ B[q][e] = Bytes(q, e)
    OBVIOUS
  <1>4. B \in [RL -> [Cpu -> V]]
    BY SMT
  <1> HIDE DEF B, C, V, l, n
  <1>5. /\ C[r][c] = n
        /\ \A q \in RL, e \in Cpu : q # r \/ e # c => C[q][e] = B[q][e]
    BY <1>2, <1>4
  <1>6. /\ list'[r][c] = l
        /\ \A q \in RL, e \in Cpu : q # r \/ e # c => list'[q][e] = list[q][e]
    BY <1>1 DEF TypeOK
  <1>7. list'[r][c] = Tail(list[r][c])
    BY <1>6 DEF l
  <1>8. Bytes(r, c)' = Bytes(r, c) - Head(list[r][c])
    BY <1>3, <1>5 DEF n
  <1>9. ASSUME NEW q \in RL, NEW e \in Cpu, q # r \/ e # c
        PROVE  SameQueue(q, e)
    <2>1. C[q][e] = B[q][e] /\ list'[q][e] = list[q][e]
      BY <1>5, <1>6, <1>9
    <2>2. Bytes(q, e)' = Bytes(q, e)
      BY <1>3, <2>1
    <2> QED
      BY <2>1, <2>2 DEF SameQueue, SameBytes
  <1> QED
    BY <1>7, <1>8, <1>9

LEMMA HandType ==
  ASSUME TypeOK, FrameInv, NEW c \in Cpu, Hand(c) # <<>>
  PROVE  Dest(c) \in RL /\ Head(Hand(c)) \in Nat
  <1>1. pc[c] \in EnqLabels /\ loc[c].to \in RL
    BY DEF Hand, EnqLabels, FrameInv, Frame
  <1>2. Dest(c) \in RL
    BY <1>1 DEF Dest
  <1>3. CASE pc[c] = "segment"
    <2>1. Hand(c) = loc[c].segs /\ loc[c].segs \in Seq(PktSize)
      BY <1>3, LocType DEF Hand
    <2> QED
      BY <1>2, <2>1, PktSeq
  <1>4. CASE pc[c] # "segment"
    <2>1. Hand(c) = <<loc[c].skb>> /\ loc[c].skb # 0
      BY <1>4 DEF Hand
    <2>2. loc[c].skb \in Nat
      BY <2>1, LocType, PktNat
    <2> QED
      BY <1>2, <2>1, <2>2, Single
  <1> QED
    BY <1>3, <1>4

LEMMA SumKept ==
  ASSUME NEW r \in RL, NEW c \in Cpu, SameQueue(r, c), Bytes(r, c) = Sum(r, c)
  PROVE  Bytes(r, c)' = Sum(r, c)'
  BY DEF SameQueue, SameBytes, Sum

(* The sums of this module are those that SumLemmas is about.               *)
Summing == INSTANCE SumLemmas

LEMMA SameTotal == \A f, T : Summing!Total(f, T) = Total(f, T)
  BY DEF Summing!Total, Summing!Units, Summing!Cardinality, Total, Units,
     Cardinality

LEMMA PutSums ==
  ASSUME TypeOK, QueuedBytes, NEW r \in RL, NEW c \in Cpu, NEW size \in Nat,
         Path!Put(r, c, size)
  PROVE  QueuedBytes'
  <1> /\ list'[r][c] = Append(list[r][c], size)
      /\ Bytes(r, c)' = Bytes(r, c) + size
    BY PutHere
  <1> SUFFICES ASSUME NEW q \in RL, NEW e \in Cpu
               PROVE  Bytes(q, e)' = Sum(q, e)'
    BY DEF QueuedBytes
  <1>1. Bytes(q, e) = Sum(q, e)
    BY DEF QueuedBytes
  <1>2. CASE q # r \/ e # c
    BY <1>1, <1>2, PutElim, SumKept
  <1>3. CASE q = r /\ e = c
    <2>1. /\ list'[q][e] = Append(list[q][e], size)
          /\ Bytes(q, e)' = Bytes(q, e) + size
      BY <1>3
    <2>2. Sum(q, e)' = Sum(q, e) + size
      BY <2>1, ListType, SameTotal, Summing!TotalAppend DEF Sum
    <2> QED
      BY <1>1, <2>1, <2>2
  <1> QED
    BY <1>2, <1>3

LEMMA TakeSums ==
  ASSUME TypeOK, QueuedBytes, NEW r \in RL, NEW c \in Cpu, list[r][c] # <<>>,
         Path!Take(r, c)
  PROVE  QueuedBytes'
  <1> SUFFICES ASSUME NEW q \in RL, NEW e \in Cpu
               PROVE  Bytes(q, e)' = Sum(q, e)'
    BY DEF QueuedBytes
  <1>1. Bytes(q, e) = Sum(q, e)
    BY DEF QueuedBytes
  <1>2. CASE q # r \/ e # c
    BY <1>1, <1>2, TakeElim, SumKept
  <1>3. CASE q = r /\ e = c
    <2>1. /\ list'[q][e] = Tail(list[q][e])
          /\ Bytes(q, e)' = Bytes(q, e) - Head(list[q][e])
      BY <1>3, TakeElim
    <2>2. list[q][e] \in Seq(Nat) /\ list[q][e] # <<>>
      BY <1>3, ListType
    <2>3. Head(list[q][e]) \in Nat /\ Tail(list[q][e]) \in Seq(Nat)
      BY SMT, <2>2
    <2>4. Sum(q, e) = Head(list[q][e]) + Sum(q, e)'
      BY <2>1, <2>2, SameTotal, Summing!TotalTail DEF Sum
    <2>5. Sum(q, e)' \in Nat
      BY <2>1, <2>3, SameTotal, Summing!SeqTotalNat DEF Sum
    <2> HIDE DEF Sum
    <2> QED
      BY SMTT(60), <1>1, <2>1, <2>3, <2>4, <2>5
  <1> QED
    BY <1>2, <1>3

LEMMA QueuedBytesStep ==
  TypeOK /\ TypeOK' /\ FrameInv /\ QueuedBytes /\ [Next]_vars => QueuedBytes'
  <1> SUFFICES ASSUME TypeOK, TypeOK', FrameInv, QueuedBytes, [Next]_vars
               PROVE  QueuedBytes'
    OBVIOUS
  <1>1. Path!Next \/ UNCHANGED Path!vars
    BY PathStep
  <1>2. ASSUME UNCHANGED list,
               UNCHANGED [r \in RL |-> [c \in Cpu |-> Bytes(r, c)]]
        PROVE  QueuedBytes'
    <2>1. ASSUME NEW r \in RL, NEW c \in Cpu PROVE Bytes(r, c)' = Sum(r, c)'
      <3>1. SameBytes(r, c)
        BY <1>2, BytesKept
      <3> QED
        BY <1>2, <3>1, SumKept DEF SameQueue, QueuedBytes
    <2> QED
      BY <2>1 DEF QueuedBytes
  <1>3. ASSUME NEW c \in Cpu, Path!Accept(c) PROVE QueuedBytes'
    <2>1. Hand(c) # <<>> /\ Path!Put(Dest(c), c, Head(Hand(c)))
      BY <1>3 DEF Path!Accept
    <2> QED
      BY <2>1, HandType, PutSums
  <1>4. ASSUME NEW c \in Cpu, NEW d \in Leaf, Path!Pass(c, d) PROVE QueuedBytes'
    BY <1>4, TakeSums DEF Path!Pass, RL
  <1>5. ASSUME NEW c \in Cpu, NEW k \in Class, Path!Send(c, k) PROVE QueuedBytes'
    BY <1>5, TakeSums DEF Path!Send, RL
  <1> QED
    BY <1>1, <1>2, <1>3, <1>4, <1>5 DEF Path!Next, Path!vars, Path!Offer,
       Path!Refuse, Path!Split, Path!SplitFails

(* bytes_enqueued, by which iso_rl_enqueue drops and iso_rl_has_space_for   *)
(* holds back, never drifts from the packets of the queue: every byte that  *)
(* iso_rl_enqueue adds, iso_rl_dequeue subtracts.                           *)
THEOREM BytesAccounted == Spec => []BytesAreAccounted
  <1>1. Init => QueuedBytes
    <2> SUFFICES ASSUME Init, NEW r \in RL, NEW c \in Cpu
                 PROVE  Bytes(r, c) = Sum(r, c)
      BY DEF QueuedBytes
    <2>1. list[r][c] = <<>> /\ DOMAIN <<>> = {}
      BY SMT DEF Init
    <2>2. Sum(r, c) = 0
      BY <2>1, SameTotal, Summing!TotalOfNone DEF Sum
    <2>3. ~HandedBy(r, c)
      BY DEF Init, HandedBy, HandingOver, EnqLabels
    <2>4. Bytes(r, c) = 0
      BY <2>3, TypeInit, PlainBytes DEF Init
    <2> QED
      BY <2>2, <2>4
  <1>2. TypeOK /\ FrameInv /\ QueuedBytes => BytesAreAccounted
    <2> SUFFICES ASSUME TypeOK, FrameInv, QueuedBytes, NEW r \in RL, NEW c \in Cpu
                 PROVE  bytes_enqueued[r][c] = Sum(r, c)
                          + (IF InHand(r, c) THEN first_pkt_size[r][c] ELSE 0)
      BY DEF BytesAreAccounted, Sum
    <2>1. InHand(r, c) <=> HandedBy(r, c)
      BY DEF InHand, HandedBy, HandingOver, EnqLabels, FrameInv, Frame
    <2>2. Sum(r, c) = bytes_enqueued[r][c]
                        - (IF InHand(r, c) THEN first_pkt_size[r][c] ELSE 0)
      BY <2>1 DEF QueuedBytes, Bytes
    <2>3. bytes_enqueued[r][c] \in Int /\ first_pkt_size[r][c] \in Nat
      BY QueueTypes
    <2> HIDE DEF Sum
    <2> QED
      BY SMTT(60), <2>2, <2>3
  <1> QED
    BY PTL, <1>1, <1>2, QueuedBytesStep, Invariants DEF Spec
=============================================================================
