------------------------------ MODULE DestMap ------------------------------
(***************************************************************************)
(* What the per-destination states of a class promise to the packet paths:  *)
(* a map from destinations to a state and a limiter, in which an entry is   *)
(* made once, is never changed, and shares nothing with another entry.      *)
(***************************************************************************)
EXTENDS Integers

CONSTANTS
  Ip,            \* destinations
  Obj            \* states, and limiters

VARIABLE map     \* [Ip -> a pair of a state and a limiter, or <<>>]

Init == map = [d \in Ip |-> <<>>]

\* Destination d gets a state and a limiter that no other one has.
Create(d) ==
  /\ map[d] = <<>> /\ map'[d] \in Obj \X Obj
  /\ map' = [map EXCEPT ![d] = map'[d]]
  /\ \A e \in Ip : map[e] # <<>> => /\ map[e][1] # map'[d][1]
                                   /\ map[e][2] # map'[d][2]

Next == \E d \in Ip : Create(d)
Spec == Init /\ [][Next]_map
=============================================================================
