----------------------------- MODULE PacketPath -----------------------------
(***************************************************************************)
(* What the two levels of rate limiters promise to packets, with tokens,    *)
(* timers and locks left out: on every CPU a packet goes through the queue  *)
(* of its destination and the queue of its class, first in first out, is    *)
(* neither lost between them nor duplicated, and is refused only by a queue *)
(* it does not fit in.  A large packet may be split, or lost in the attempt.*)
(***************************************************************************)
EXTENDS Integers, Sequences

CONSTANTS
  Cpu, Leaf, Class,
  txc,           \* [Leaf -> Class]
  None,
  PktSize,
  GsoSegs,       \* [PktSize -> the ways to split a packet]
  MaxBytes,      \* length of a queue
  MaxWhole       \* packets up to this size are not split

VARIABLES
  queue,         \* [Leaf \cup Class -> [Cpu -> Seq(PktSize)]]
  bytes,         \* [Leaf \cup Class -> [Cpu -> bytes in the queue]]
  hand,          \* [Cpu -> the packet or the segments it is about to queue]
  dest           \* [Cpu -> the queue they are for]

vars == <<queue, bytes, hand, dest>>

Init ==
  /\ queue = [r \in Leaf \cup Class |-> [c \in Cpu |-> <<>>]]
  /\ bytes = [r \in Leaf \cup Class |-> [c \in Cpu |-> 0]]
  /\ hand = [c \in Cpu |-> <<>>]
  /\ dest = [c \in Cpu |-> None]

Room(r, c, size) == bytes[r][c] + size <= MaxBytes

Put(r, c, size) ==
  /\ queue' = [queue EXCEPT ![r][c] = Append(queue[r][c], size)]
  /\ bytes' = [bytes EXCEPT ![r][c] = bytes[r][c] + size]
Take(r, c) ==
  /\ queue' = [queue EXCEPT ![r][c] = Tail(queue[r][c])]
  /\ bytes' = [bytes EXCEPT ![r][c] = bytes[r][c] - Head(queue[r][c])]

Hold(c, pkts, r) ==
  /\ hand' = [hand EXCEPT ![c] = pkts]
  /\ dest' = [dest EXCEPT ![c] = IF pkts = <<>> THEN None ELSE r]

\* A packet for destination d comes.
Offer(c, d, size) ==
  /\ hand[c] = <<>>
  /\ Hold(c, <<size>>, d)
  /\ UNCHANGED <<queue, bytes>>

\* The queue takes it.  The last segment may exceed the length of the queue.
Accept(c) ==
  /\ hand[c] # <<>>
  /\ bytes[dest[c]][c] < MaxBytes
  /\ Put(dest[c], c, Head(hand[c]))
  /\ Hold(c, Tail(hand[c]), dest[c])

Refuse(c) ==
  /\ hand[c] # <<>>
  /\ ~Room(dest[c], c, Head(hand[c]))
  /\ Hold(c, Tail(hand[c]), dest[c])
  /\ UNCHANGED <<queue, bytes>>

Split(c) ==
  /\ Len(hand[c]) = 1 /\ Head(hand[c]) > MaxWhole
  /\ \E segs \in GsoSegs[Head(hand[c])] : Hold(c, segs, dest[c])
  /\ UNCHANGED <<queue, bytes>>

SplitFails(c) ==
  /\ Len(hand[c]) = 1 /\ Head(hand[c]) > MaxWhole
  /\ Hold(c, <<>>, None)
  /\ UNCHANGED <<queue, bytes>>

\* The first packet of a leaf goes on to its class, which has room for it.
Pass(c, d) ==
  /\ hand[c] = <<>> /\ queue[d][c] # <<>>
  /\ Room(txc[d], c, Head(queue[d][c]))
  /\ Take(d, c)
  /\ Hold(c, <<Head(queue[d][c])>>, txc[d])

\* The first packet of a class goes to the device.
Send(c, k) ==
  /\ hand[c] = <<>> /\ queue[k][c] # <<>>
  /\ Take(k, c)
  /\ UNCHANGED <<hand, dest>>

Next ==
  \E c \in Cpu :
    \/ \E d \in Leaf, s \in PktSize : Offer(c, d, s)
    \/ Accept(c) \/ Refuse(c) \/ Split(c) \/ SplitFails(c)
    \/ \E d \in Leaf : Pass(c, d)
    \/ \E k \in Class : Send(c, k)

Spec == Init /\ [][Next]_vars
=============================================================================
