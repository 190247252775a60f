--------------------------- MODULE PathRefinement ---------------------------
(***************************************************************************)
(* The rate limiters of RateLimiter implement PacketPath.  A CPU has a      *)
(* packet in hand from the entry of iso_rl_enqueue until it is queued, and  *)
(* the segments of it while the loop over them runs.  bytes_enqueued of a   *)
(* leaf counts the packet it hands over until the class is done with it.    *)
(***************************************************************************)
EXTENDS RateLimiterInv

Hand(c) ==
  IF pc[c] = "segment" THEN loc[c].segs
  ELSE IF pc[c] \in EnqLabels /\ loc[c].skb # 0 THEN <<loc[c].skb>>
  ELSE <<>>
Dest(c) == IF Hand(c) = <<>> THEN None ELSE loc[c].to

HandedBy(r, c) == loc[c].rl = r /\ (HandingOver(c) \/ pc[c] = "handed")
Bytes(r, c) ==
  bytes_enqueued[r][c] - (IF HandedBy(r, c) THEN first_pkt_size[r][c] ELSE 0)

Path == INSTANCE PacketPath
          WITH queue <- list,
               bytes <- [r \in RL |-> [c \in Cpu |-> Bytes(r, c)]],
               hand <- [c \in Cpu |-> Hand(c)],
               dest <- [c \in Cpu |-> Dest(c)],
               MaxBytes <- ISO_MAX_QUEUE_LEN_BYTES,
               MaxWhole <- ISO_GSO_MIN_SPLIT_BYTES

(* iso_rl_enqueue and iso_rl_dequeue, called from iso_tx, from the tasklet  *)
(* and from each other, neither reorder nor duplicate packets, and lose     *)
(* none but those that PacketPath lets a full queue or a split lose.        *)
KeepsPacketPath == Path!Spec
=============================================================================
