--------------------------- MODULE RateLimiterInv ---------------------------
(***************************************************************************)
(* The inductive invariants of RateLimiter, from which its safety           *)
(* properties are proved.                                                   *)
(***************************************************************************)
EXTENDS RateLimiter

(* Labels at which a packet or a clock is being worked on for loc.to.       *)
EnqLabels == {"clock", "refill", "cap", "enqueue", "segment"}

(* Labels of iso_rl_dequeue(loc.rl).                                        *)
DeqLabels == {"borrow", "locked", "peek", "loop", "handed", "unlock", "timeout"}

(* A leaf's dequeue is enqueueing a packet in its class.                    *)
HandingOver(c) == /\ pc[c] \in EnqLabels
                  /\ loc[c].skb # 0
                  /\ loc[c].to \in Class

(* What the locals of a CPU mean at each label.                             *)
Frame(c) ==
  /\ pc[c] = "idle" => loc[c] = NoLocals
  /\ pc[c] \in EnqLabels => loc[c].to \in RL /\ loc[c].leaf = None
  /\ pc[c] \notin EnqLabels => loc[c].skb = 0
  /\ pc[c] \in EnqLabels /\ loc[c].skb = 0 => loc[c].rl = loc[c].to
  /\ pc[c] \in {"enqueue", "segment"} => loc[c].skb # 0
  /\ pc[c] = "segment" => loc[c].segs # <<>>
  /\ HandingOver(c) =>
       /\ loc[c].rl \in Leaf
       /\ txc[loc[c].rl] = loc[c].to
       /\ loc[c].timeout
       /\ first_pkt_size[loc[c].rl][c] <= tokens[loc[c].rl][c]
  /\ pc[c] \in DeqLabels => loc[c].rl \in RL
  /\ loc[c].leaf # None =>
       /\ loc[c].rl = txc[loc[c].leaf]
       /\ list[loc[c].leaf][c] # <<>> => loc[c].leaf_timeout
  /\ pc[c] = "loop" =>
       /\ loc[c].timeout
       /\ list[loc[c].rl][c] # <<>>
       /\ first_pkt_size[loc[c].rl][c] = Head(list[loc[c].rl][c])
  /\ pc[c] = "handed" =>
       /\ loc[c].rl \in Leaf
       /\ loc[c].timeout
       /\ first_pkt_size[loc[c].rl][c] <= tokens[loc[c].rl][c]
  /\ pc[c] \in {"handed", "unlock", "tasklet"} => loc[c].leaf = None
  /\ pc[c] = "unlock" => loc[c].rl \in Leaf
  /\ pc[c] \in {"unlock", "timeout"} =>
       (list[loc[c].rl][c] # <<>> => loc[c].timeout)
  /\ loc[c].more => active_list[c] # <<>>

FrameInv == \A c \in Cpu : Frame(c)

(* A CPU is responsible for queue r: it is at work on r, or is certain to   *)
(* come to it before it becomes idle.                                       *)
Busy(r, c) ==
  \/ pc[c] \in EnqLabels /\ loc[c].to = r
  \/ HandingOver(c) /\ loc[c].rl = r
  \/ pc[c] \in DeqLabels /\ loc[c].rl = r
  \/ pc[c] \in {"loop", "handed", "unlock"} /\ loc[c].rl \in Leaf /\ txc[loc[c].rl] = r
  \/ loc[c].leaf = r

(* Every backlogged queue is listed, or its CPU is responsible for it.      *)
WakeupInv ==
  /\ ListedIsServed
  /\ \A c \in Cpu, r \in RL :
       list[r][c] # <<>> => r \in Range(active_list[c]) \/ Busy(r, c)

(* While a packet is on its way into the class, the class has room for it,  *)
(* and only a large one is split.                                           *)
RoomInv ==
  /\ HandOverArrives
  /\ \A c \in Cpu :
       HandingOver(c) =>
         /\ loc[c].skb = first_pkt_size[loc[c].rl][c]
         /\ pc[c] # "segment" =>
              bytes_enqueued[loc[c].to][c] + loc[c].skb <= ISO_MAX_QUEUE_LEN_BYTES
         /\ pc[c] = "segment" => loc[c].skb > ISO_GSO_MIN_SPLIT_BYTES

(* Only one CPU is in a pool that was not raced for, and what it has read   *)
(* in order to borrow is what is there, which it needs.                     *)
BurstInv ==
  /\ BurstIsBounded
  /\ \A r \in RL \ raced, c \in Cpu :
       /\ InPool(c, r) => \A o \in Cpu : InPool(o, r) => o = c
       /\ pc[c] = "locked" /\ loc[c].rl = r => /\ loc[c].seen = total_tokens[r]
                                               /\ NeedsTokens(r, c)
=============================================================================
