--------------------------- MODULE MCRateLimiter ---------------------------
(***************************************************************************)
(* Small instances of RateLimiter.  A packet is small (1) or large (2); a   *)
(* large one is split into 1-byte segments, possibly with one more for the  *)
(* repeated headers.  The proportions of the parameters are those of        *)
(* params.c: a queue holds a few large packets, the minimal burst covers a  *)
(* large packet, the initial tokens do not.                                 *)
(***************************************************************************)
EXTENDS PathRefinement, TLC

MCPktSize == {1, 2}
MCGsoSegs == [s \in MCPktSize |-> IF s = 1 THEN {<<1>>}
                                  ELSE {<<1, 1>>, <<1, 1, 1>>}]

(* Packets that are not split.                                              *)
WholeSegs == [s \in PktSize |-> {<<s>>}]

(* Every destination belongs to the only class.                             *)
MCtxc == [d \in Leaf |-> CHOOSE k \in Class : TRUE]

(* The CPUs are alike.                                                      *)
CpuSymmetry == Permutations(Cpu)
=============================================================================
