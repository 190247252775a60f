-------------------------- MODULE LifecycleProofs --------------------------
(***************************************************************************)
(* Proofs about Lifecycle for any number of qdisc slots, transmit queues    *)
(* and packet paths, and for every sequence of tc operations, failures and  *)
(* writes.                                                                  *)
(***************************************************************************)
EXTENDS Lifecycle, TLAPS

\* Most steps are first-order; those that need more name their prover.
USE ZenonT(90)

(* Where tc is, or goes on once the grace period it waits for is over.      *)
Point == IF pc = "sync" THEN ret.sync ELSE pc

InitPoints == {"alloc", "contexts", "tx_init", "rx_init", "refused", "dflt",
               "fail"}
TxExitPoints == {"tx_exit", "classes", "class_free", "tx_exited"}
DestroyPoints == TxExitPoints \cup {"rx_exit", "vq_free", "unhook", "release",
                                    "oops"}
AttachPoints == {"deactivate", "replace", "delete", "graft", "swap",
                 "activate"}
SyncPoints == {"rx_init", "refused", "dflt", "class_free", "vq_free",
               "release", "replace", "delete", "graft"}

(* mq_destroy undoes a failed mq_init; mq_destroy ends the old root.        *)
Undoing == Point \in DestroyPoints /\ ret.destroy = "fail"
Ending == Point \in DestroyPoints /\ ret.destroy = "swap"

Live(i) == txc[i] = "live" /\ rxc[i] = "live"
Gone(i) == txc[i] = "none" /\ rxc[i] = "none" /\ qdiscs[i] = -1

(* What tc works on, by program point.                                      *)
ControlInv ==
  /\ pc \in {"free", "sync"} \cup InitPoints \cup DestroyPoints \cup AttachPoints
  /\ ret.sync \in SyncPoints \cup {"free"}
  /\ pc = "sync" => ret.sync # "free"
  /\ ret = [sync |-> ret.sync, destroy |-> ret.destroy]
  /\ pc = "free" => op = "none" /\ new = None /\ old = None
  /\ Point \in InitPoints =>
       op = "replace" /\ new \in Inst /\ new # qdisc /\ old = None
  /\ Point \in DestroyPoints =>
       /\ old \in Inst
       /\ \/ ret.destroy = "fail" /\ op = "replace" /\ new = old /\ old # qdisc
          \/ /\ ret.destroy = "swap" /\ old = qdisc /\ old # new
             /\ \/ op = "replace" /\ new \in Inst
                \/ op = "delete" /\ new = Default
  /\ Point \in AttachPoints =>
       /\ old = None
       /\ \/ op = "replace" /\ new \in Inst
          \/ op \in {"delete", "graft"} /\ new = Default
       /\ Point \in {"replace", "delete", "graft"} => op = Point
       /\ Point = "swap" => op # "graft"
       /\ Point # "activate" /\ op = "replace" => new # qdisc
       /\ Point # "activate" /\ op # "replace" => qdisc \in Inst
       /\ Point = "activate" /\ op # "graft" => new = qdisc
       /\ op = "graft" => qdisc \in Inst

(* The contexts of every slot, and which of them the lists hold.            *)
ContextInv ==
  /\ \A i \in Inst : i \in txctx_list => txc[i] = "live"
  /\ \A i \in Inst : i \in rxctx_list => rxc[i] = "live"
  /\ \A i \in Inst : i \notin {qdisc, new, old} => Gone(i)
  /\ qdisc \in Inst => qdiscs[qdisc] = -1
                         /\ IF Point = "swap" THEN Gone(qdisc) ELSE Live(qdisc)
  /\ Point \in {"alloc", "fail"} => Gone(new)
  /\ Point = "contexts" => txc[new] = "none" /\ rxc[new] = "none"
                          /\ qdiscs[new] \in 0..NumTx
  /\ Point = "tx_init" => txc[new] = "zeroed" /\ rxc[new] = "zeroed"
  /\ Point = "rx_init" => txc[new] = "live" /\ rxc[new] = "zeroed"
  /\ Point \in {"refused", "dflt"} => Live(new)
  /\ Point \in {"tx_init", "rx_init", "refused", "dflt"} => qdiscs[new] \in 0..NumTx
  /\ Point \in AttachPoints /\ op = "replace" => Live(new)
  /\ Ending /\ op = "replace" => Live(new) /\ qdiscs[new] = -1
  /\ Point = "swap" /\ op = "replace" => qdiscs[new] = -1
  /\ Point \in {"classes", "class_free", "tx_exited"} => txc[old] = "live"
  /\ Point \in {"vq_free", "unhook"} => rxc[old] = "live"
  /\ Point \in DestroyPoints \ {"tx_exit", "oops"} => old \notin txctx_list
  /\ Point \in {"vq_free", "unhook", "release"} => old \notin rxctx_list

(* The queues of the device belong to the root, or to the next one.         *)
QueueInv ==
  \A n \in Queue : queue[n] \in Inst =>
    queue[n] = IF Ending \/ Point = "swap" THEN new ELSE qdisc

(* Classes and queues exist in the root only, and a destruction has removed *)
(* them before it releases the contexts.                                    *)
ObjectInv ==
  /\ writer # NoWrite => writer.at \in Inst
  /\ writer.at # None /\ writer.at = new => new = qdisc
  /\ \A i \in Inst \ raced :
       /\ assoc[i] => cls[i] # "none"
       /\ cls[i] = "unhashed" => Point = "class_free" /\ i = old
       /\ i # qdisc \/ Point = "swap" => cls[i] = "none" /\ vq[i] = "none"
       /\ Ending /\ i = old /\ Point \notin TxExitPoints \ {"tx_exited"}
            => cls[i] = "none" \/ Point = "oops"
       /\ Ending /\ i = old /\ Point \in {"unhook", "release"} => vq[i] = "none"

(* The packet paths: whoever is past its check has a live root, and nobody  *)
(* is left once the paths have been shut and waited for.                    *)
PathInv ==
  /\ active <=> ~(Ending \/ Point \in AttachPoints \ {"deactivate"})
  /\ path \in [Rx \cup Tx -> {"out", "handler", "enabled", "iso_rx", "iso_tx"}]
  /\ \A c \in Rx : path[c] # "iso_tx"
  /\ \A c \in Tx : path[c] \in {"out", "iso_tx"}
  /\ \A c \in Rx \cup Tx :
       /\ ctx[c] \subseteq {qdisc}
       /\ path[c] \in {"out", "handler", "enabled"} => ctx[c] = {}
       /\ path[c] \in {"enabled", "iso_rx", "iso_tx"} =>
            qdisc \in Inst /\ Point # "swap"
  /\ ~active => \A c \in Tx : path[c] # "out" =>
       pc = "sync" /\ ret.sync \in {"replace", "delete", "graft"} /\ c \in gp
  /\ (Ending /\ Point = "release") \/ (Point = "swap" /\ qdisc \in Inst) =>
       /\ ~rx_handler
       /\ \A c \in Rx : path[c] # "out" => pc = "sync" /\ c \in gp

(* The receive handler follows the root, with the exception of a device on  *)
(* which a second root was refused.                                         *)
HookInv ==
  ~refused \/ qdisc = Default =>
    /\ Undoing /\ Point # "oops" =>
         /\ rx_handler <=> qdisc \in Inst \/ (rxc[old] = "live" /\ Point # "release")
         /\ qdisc \in Inst => rxc[old] # "live"
    /\ Ending /\ Point # "oops" =>
         op = "delete" /\ (rx_handler <=> Point # "release")
    /\ Point \in {"free", "alloc", "contexts", "tx_init", "rx_init", "fail",
               "graft", "activate"} => (rx_handler <=> qdisc \in Inst)
    /\ Point = "dflt" \/ (Point \in AttachPoints \ {"activate"} /\ op = "replace") =>
         qdisc = Default /\ rx_handler
    /\ Point \in AttachPoints \ {"activate"} /\ op # "replace" =>
         (rx_handler <=> Point # "swap")
    /\ Point # "refused"

(* So does gso_max_size, which every context saves and restores.            *)
GsoInv ==
  ~refused =>
    /\ qdisc \in Inst => prev_gso[qdisc] = "driver"
    /\ Point \in {"rx_init", "dflt"} \/ (Undoing /\ Point \in TxExitPoints
                                       /\ txc[old] = "live")
         => gso = "iso" /\ (prev_gso[new] = "iso" <=> qdisc \in Inst)
    /\ Point \in AttachPoints \ {"activate"} /\ op = "replace"
         => gso = "iso" /\ prev_gso[new] = "driver"
    /\ Undoing /\ Point # "oops" /\ (Point \in TxExitPoints => txc[old] # "live")
         => (gso = "iso" <=> qdisc \in Inst)
    /\ Ending /\ Point # "oops" => (gso = "iso" <=> Point \in TxExitPoints)
    /\ Point \in AttachPoints \ {"activate"} /\ op # "replace" =>
         (gso = "iso" <=> Point # "swap")
    /\ Point \in {"free", "alloc", "contexts", "tx_init", "fail", "activate"} =>
         (gso = "iso" <=> qdisc \in Inst)

(* What is registered, and that an absent module has no root.               *)
ModuleInv ==
  /\ module = "absent" => registered = {}
  /\ module = "init" =>
       registered \in {{}, {"sysctl"}, {"sysctl", "stats"},
                       {"sysctl", "stats", "csvstats"}}
  /\ module = "live" => registered = Entries
  /\ module # "live" => pc = "free" /\ qdisc = Default /\ writer = NoWrite

IInv ==
  /\ TypeOK /\ ControlInv /\ ContextInv /\ QueueInv /\ ObjectInv /\ PathInv
  /\ HookInv /\ GsoInv /\ ModuleInv

-----------------------------------------------------------------------------
(* The steps of tc.                                                         *)

LEMMA BusyType == Busy \subseteq Rx \cup Tx
  BY DEF Busy

LEMMA TcReplaceStep ==
  ASSUME IInv, NEW i \in Inst, TcReplace(i)
  PROVE  IInv'
  <1>1. /\ TypeOK /\ ControlInv /\ ContextInv /\ QueueInv /\ ObjectInv
        /\ PathInv /\ HookInv /\ GsoInv /\ ModuleInv
        /\ Default \notin Inst /\ None \notin Inst \cup {Default}
        /\ NumTx \in Nat /\ NumTx > 0 /\ Rx \cap Tx = {}
    BY SMT, LifecycleAssumption DEF IInv
  <1>2. /\ pc = "free" /\ Point = "free" /\ module = "live" /\ i # qdisc
        /\ writer.at # i /\ Gone(i) /\ cls[i] = "none" /\ vq[i] = "none"
        /\ Point' = "alloc" /\ pc' = "alloc" /\ op' = "replace" /\ new' = i
        /\ UNCHANGED <<registered, module, qdisc, queue, active, rx_handler, gso>>
        /\ UNCHANGED <<txc, rxc, qdiscs, prev_gso, cls, vq, assoc>>
        /\ UNCHANGED <<txctx_list, rxctx_list, old, ret, gp, path, ctx>>
        /\ UNCHANGED <<writer, reader, refused, raced>>
    BY <1>1 DEF TcReplace, Goto, Unused, Gone, others, moduleVars, devVars,
       ctxVars, objVars, pathVars, ControlInv, Point, InitPoints,
       DestroyPoints, TxExitPoints, AttachPoints
  <1> USE <1>1, <1>2
  <1>3. TypeOK'
    BY DEF TypeOK, Busy
  <1>4. ControlInv'
    BY DEF TypeOK, ControlInv, InitPoints, DestroyPoints, TxExitPoints,
       AttachPoints, SyncPoints
  <1>5. ContextInv'
    BY SMT DEF TypeOK, ControlInv, ContextInv, InitPoints, DestroyPoints,
       TxExitPoints, AttachPoints, Ending, Live, Gone
  <1>6. QueueInv'
    BY DEF TypeOK, ControlInv, QueueInv, Ending, InitPoints, DestroyPoints,
       TxExitPoints, AttachPoints
  <1>7. ObjectInv'
    BY SMT DEF TypeOK, ControlInv, ObjectInv, Ending, InitPoints,
       DestroyPoints, TxExitPoints, AttachPoints
  <1>8. PathInv'
    BY DEF TypeOK, ControlInv, PathInv, Busy, Ending, InitPoints,
       DestroyPoints, TxExitPoints, AttachPoints
  <1>9. HookInv'
    BY DEF TypeOK, ControlInv, HookInv, Ending, Undoing, InitPoints,
       DestroyPoints, TxExitPoints, AttachPoints
  <1>10. GsoInv'
    BY DEF TypeOK, ControlInv, GsoInv, Ending, Undoing, InitPoints,
       DestroyPoints, TxExitPoints, AttachPoints
  <1>11. ModuleInv'
    BY DEF ModuleInv
  <1> QED
    BY <1>3, <1>4, <1>5, <1>6, <1>7, <1>8, <1>9, <1>10, <1>11 DEF IInv

LEMMA TcDeleteStep ==
  ASSUME IInv, TcDelete
  PROVE  IInv'
  <1>1. /\ TypeOK /\ ControlInv /\ ContextInv /\ QueueInv /\ ObjectInv
        /\ PathInv /\ HookInv /\ GsoInv /\ ModuleInv
        /\ Default \notin Inst /\ None \notin Inst \cup {Default}
        /\ NumTx \in Nat /\ NumTx > 0 /\ Rx \cap Tx = {}
    BY SMT, LifecycleAssumption DEF IInv
  <1>2. /\ pc = "free" /\ Point = "free" /\ qdisc \in Inst
        /\ Point' = "deactivate" /\ pc' = "deactivate" /\ op' = "delete"
        /\ new' = Default
        /\ UNCHANGED <<registered, module, qdisc, queue, active, rx_handler, gso>>
        /\ UNCHANGED <<txc, rxc, qdiscs, prev_gso, cls, vq, assoc>>
        /\ UNCHANGED <<txctx_list, rxctx_list, old, ret, gp, path, ctx>>
        /\ UNCHANGED <<writer, reader, refused, raced>>
    BY <1>1 DEF TcDelete, Goto, others, moduleVars, devVars, ctxVars, objVars,
       pathVars, ControlInv, Point, InitPoints, DestroyPoints, TxExitPoints,
       AttachPoints
  <1> USE <1>1, <1>2
  <1>3. TypeOK'
    BY SMT DEF TypeOK, Busy
  <1>4. ControlInv'
    BY DEF TypeOK, ControlInv, InitPoints, DestroyPoints, TxExitPoints,
       AttachPoints, SyncPoints
  <1>5. ContextInv'
    BY SMT DEF TypeOK, ControlInv, ContextInv, InitPoints, DestroyPoints,
       TxExitPoints, AttachPoints, Ending, Live, Gone
  <1>6. QueueInv'
    BY DEF TypeOK, ControlInv, QueueInv, Ending, InitPoints, DestroyPoints,
       TxExitPoints, AttachPoints
  <1>7. ObjectInv'
    BY SMT DEF TypeOK, ControlInv, ObjectInv, Ending, InitPoints,
       DestroyPoints, TxExitPoints, AttachPoints
  <1>8. PathInv'
    BY DEF TypeOK, ControlInv, PathInv, Busy, Ending, InitPoints,
       DestroyPoints, TxExitPoints, AttachPoints
  <1>9. HookInv'
    BY DEF TypeOK, ControlInv, HookInv, Ending, Undoing, InitPoints,
       DestroyPoints, TxExitPoints, AttachPoints
  <1>10. GsoInv'
    BY DEF TypeOK, ControlInv, GsoInv, Ending, Undoing, InitPoints,
       DestroyPoints, TxExitPoints, AttachPoints
  <1>11. ModuleInv'
    BY DEF ModuleInv
  <1> QED
    BY <1>3, <1>4, <1>5, <1>6, <1>7, <1>8, <1>9, <1>10, <1>11 DEF IInv

LEMMA TcGraftStep ==
  ASSUME IInv, TcGraft
  PROVE  IInv'
  <1>1. /\ TypeOK /\ ControlInv /\ ContextInv /\ QueueInv /\ ObjectInv
        /\ PathInv /\ HookInv /\ GsoInv /\ ModuleInv
        /\ Default \notin Inst /\ None \notin Inst \cup {Default}
        /\ NumTx \in Nat /\ NumTx > 0 /\ Rx \cap Tx = {}
    BY SMT, LifecycleAssumption DEF IInv
  <1>2. /\ pc = "free" /\ Point = "free" /\ qdisc \in Inst
        /\ Point' = "deactivate" /\ pc' = "deactivate" /\ op' = "graft"
        /\ new' = Default
        /\ UNCHANGED <<registered, module, qdisc, queue, active, rx_handler, gso>>
        /\ UNCHANGED <<txc, rxc, qdiscs, prev_gso, cls, vq, assoc>>
        /\ UNCHANGED <<txctx_list, rxctx_list, old, ret, gp, path, ctx>>
        /\ UNCHANGED <<writer, reader, refused, raced>>
    BY <1>1 DEF TcGraft, Goto, others, moduleVars, devVars, ctxVars, objVars,
       pathVars, ControlInv, Point, InitPoints, DestroyPoints, TxExitPoints,
       AttachPoints
  <1> USE <1>1, <1>2
  <1>3. TypeOK'
    BY SMT DEF TypeOK, Busy
  <1>4. ControlInv'
    BY DEF TypeOK, ControlInv, InitPoints, DestroyPoints, TxExitPoints,
       AttachPoints, SyncPoints
  <1>5. ContextInv'
    BY SMT DEF TypeOK, ControlInv, ContextInv, InitPoints, DestroyPoints,
       TxExitPoints, AttachPoints, Ending, Live, Gone
  <1>6. QueueInv'
    BY DEF TypeOK, ControlInv, QueueInv, Ending, InitPoints, DestroyPoints,
       TxExitPoints, AttachPoints
  <1>7. ObjectInv'
    BY SMT DEF TypeOK, ControlInv, ObjectInv, Ending, InitPoints,
       DestroyPoints, TxExitPoints, AttachPoints
  <1>8. PathInv'
    BY DEF TypeOK, ControlInv, PathInv, Busy, Ending, InitPoints,
       DestroyPoints, TxExitPoints, AttachPoints
  <1>9. HookInv'
    BY DEF TypeOK, ControlInv, HookInv, Ending, Undoing, InitPoints,
       DestroyPoints, TxExitPoints, AttachPoints
  <1>10. GsoInv'
    BY DEF TypeOK, ControlInv, GsoInv, Ending, Undoing, InitPoints,
       DestroyPoints, TxExitPoints, AttachPoints
  <1>11. ModuleInv'
    BY DEF ModuleInv
  <1> QED
    BY <1>3, <1>4, <1>5, <1>6, <1>7, <1>8, <1>9, <1>10, <1>11 DEF IInv

LEMMA AllocQdiscsStep ==
  ASSUME IInv, AllocQdiscs
  PROVE  IInv'
  <1>1. /\ TypeOK /\ ControlInv /\ ContextInv /\ QueueInv /\ ObjectInv
        /\ PathInv /\ HookInv /\ GsoInv /\ ModuleInv
        /\ Default \notin Inst /\ None \notin Inst \cup {Default}
        /\ NumTx \in Nat /\ NumTx > 0 /\ Rx \cap Tx = {}
    BY SMT, LifecycleAssumption DEF IInv
  <1>2. CASE pc' = "free"
    <2>1. /\ pc = "alloc" /\ Point = "alloc" /\ new \in Inst /\ new # qdisc
          /\ Point' = "free" /\ pc' = "free" /\ op' = "none" /\ new' = None
          /\ UNCHANGED <<registered, module, qdisc, queue, active, rx_handler, gso>>
          /\ UNCHANGED <<txc, rxc, qdiscs, prev_gso, cls, vq, assoc>>
          /\ UNCHANGED <<txctx_list, rxctx_list, old, ret, gp, path, ctx>>
          /\ UNCHANGED <<writer, reader, refused, raced>>
      BY <1>1, <1>2 DEF AllocQdiscs, Goto, others, moduleVars, devVars,
         ctxVars, objVars, pathVars, ControlInv, Point, InitPoints,
         DestroyPoints, TxExitPoints, AttachPoints
    <2> USE <1>1, <2>1
    <2>2. TypeOK'
      BY SMT DEF TypeOK, Busy
    <2>3. ControlInv'
      BY DEF TypeOK, ControlInv, InitPoints, DestroyPoints, TxExitPoints,
         AttachPoints, SyncPoints
    <2>4. ContextInv'
      BY DEF TypeOK, ControlInv, ContextInv, InitPoints, DestroyPoints,
         TxExitPoints, AttachPoints, Ending, Live, Gone
    <2>5. QueueInv'
      BY DEF TypeOK, ControlInv, QueueInv, Ending, InitPoints, DestroyPoints,
         TxExitPoints, AttachPoints
    <2>6. ObjectInv'
      BY DEF TypeOK, ControlInv, ObjectInv, Ending, InitPoints,
         DestroyPoints, TxExitPoints, AttachPoints
    <2>7. PathInv'
      BY DEF TypeOK, ControlInv, PathInv, Busy, Ending, InitPoints,
         DestroyPoints, TxExitPoints, AttachPoints
    <2>8. HookInv'
      BY DEF TypeOK, ControlInv, HookInv, Ending, Undoing, InitPoints,
         DestroyPoints, TxExitPoints, AttachPoints
    <2>9. GsoInv'
      BY DEF TypeOK, ControlInv, GsoInv, Ending, Undoing, InitPoints,
         DestroyPoints, TxExitPoints, AttachPoints
    <2>10. ModuleInv'
      BY DEF ModuleInv
    <2> QED
      BY <2>2, <2>3, <2>4, <2>5, <2>6, <2>7, <2>8, <2>9, <2>10 DEF IInv
  <1>3. CASE pc' = "contexts"
    <2>1. /\ pc = "alloc" /\ Point = "alloc" /\ new \in Inst /\ new # qdisc
          /\ Point' = "contexts" /\ qdiscs' = [qdiscs EXCEPT ![new] = 0]
          /\ pc' = "contexts"
          /\ UNCHANGED <<registered, module, qdisc, queue, active, rx_handler, gso>>
          /\ UNCHANGED <<txc, rxc, prev_gso, cls, vq, assoc, txctx_list>>
          /\ UNCHANGED <<rxctx_list, op, new, old, ret, gp, path>>
          /\ UNCHANGED <<ctx, writer, reader, refused, raced>>
      BY <1>1, <1>3 DEF AllocQdiscs, Goto, others, moduleVars, devVars,
         ctxVars, objVars, pathVars, ControlInv, Point, InitPoints,
         DestroyPoints, TxExitPoints, AttachPoints
    <2> USE <1>1, <2>1
    <2>2. TypeOK'
      BY SMT DEF TypeOK, Busy
    <2>3. ControlInv'
      BY DEF TypeOK, ControlInv, InitPoints, DestroyPoints, TxExitPoints,
         AttachPoints, SyncPoints
    <2>4. ContextInv'
      BY SMT DEF TypeOK, ControlInv, ContextInv, InitPoints, DestroyPoints,
         TxExitPoints, AttachPoints, Ending, Live, Gone
    <2>5. QueueInv'
      BY DEF TypeOK, ControlInv, QueueInv, Ending, InitPoints, DestroyPoints,
         TxExitPoints, AttachPoints
    <2>6. ObjectInv'
      BY SMT DEF TypeOK, ControlInv, ObjectInv, Ending, InitPoints,
         DestroyPoints, TxExitPoints, AttachPoints
    <2>7. PathInv'
      BY DEF TypeOK, ControlInv, PathInv, Busy, Ending, InitPoints,
         DestroyPoints, TxExitPoints, AttachPoints
    <2>8. HookInv'
      BY DEF TypeOK, ControlInv, HookInv, Ending, Undoing, InitPoints,
         DestroyPoints, TxExitPoints, AttachPoints
    <2>9. GsoInv'
      BY DEF TypeOK, ControlInv, GsoInv, Ending, Undoing, InitPoints,
         DestroyPoints, TxExitPoints, AttachPoints
    <2>10. ModuleInv'
      BY DEF ModuleInv
    <2> QED
      BY <2>2, <2>3, <2>4, <2>5, <2>6, <2>7, <2>8, <2>9, <2>10 DEF IInv
  <1> QED
    BY <1>1, <1>2, <1>3 DEF AllocQdiscs, Goto, TypeOK, ControlInv, Point,
       InitPoints, DestroyPoints, TxExitPoints, AttachPoints

LEMMA AllocContextsStep ==
  ASSUME IInv, AllocContexts
  PROVE  IInv'
  <1>1. /\ TypeOK /\ ControlInv /\ ContextInv /\ QueueInv /\ ObjectInv
        /\ PathInv /\ HookInv /\ GsoInv /\ ModuleInv
        /\ Default \notin Inst /\ None \notin Inst \cup {Default}
        /\ NumTx \in Nat /\ NumTx > 0 /\ Rx \cap Tx = {}
    BY SMT, LifecycleAssumption DEF IInv
  <1>2. CASE pc' = "tx_init"
    <2>1. /\ pc = "contexts" /\ Point = "contexts"
          /\ new \in Inst /\ new # qdisc /\ Point' = "tx_init"
          /\ txc' = [txc EXCEPT ![new] = "zeroed"]
          /\ rxc' = [rxc EXCEPT ![new] = "zeroed"] /\ pc' = "tx_init"
          /\ UNCHANGED <<registered, module, qdisc, queue, active, rx_handler, gso>>
          /\ UNCHANGED <<qdiscs, prev_gso, cls, vq, assoc, txctx_list, rxctx_list>>
          /\ UNCHANGED <<op, new, old, ret, gp, path, ctx>>
          /\ UNCHANGED <<writer, reader, refused, raced>>
      BY <1>1, <1>2 DEF AllocContexts, Goto, Destroy, others, moduleVars,
         devVars, ctxVars, objVars, pathVars, ControlInv, Point, InitPoints,
         DestroyPoints, TxExitPoints, AttachPoints
    <2> USE <1>1, <2>1
    <2>2. TypeOK'
      BY SMT DEF TypeOK, Busy
    <2>3. ControlInv'
      BY DEF TypeOK, ControlInv, InitPoints, DestroyPoints, TxExitPoints,
         AttachPoints, SyncPoints
    <2>4. ContextInv'
      BY SMT DEF TypeOK, ControlInv, ContextInv, InitPoints, DestroyPoints,
         TxExitPoints, AttachPoints, Ending, Live, Gone
    <2>5. QueueInv'
      BY DEF TypeOK, ControlInv, QueueInv, Ending, InitPoints, DestroyPoints,
         TxExitPoints, AttachPoints
    <2>6. ObjectInv'
      BY SMT DEF TypeOK, ControlInv, ObjectInv, Ending, InitPoints,
         DestroyPoints, TxExitPoints, AttachPoints
    <2>7. PathInv'
      BY DEF TypeOK, ControlInv, PathInv, Busy, Ending, InitPoints,
         DestroyPoints, TxExitPoints, AttachPoints
    <2>8. HookInv'
      BY DEF TypeOK, ControlInv, HookInv, Ending, Undoing, InitPoints,
         DestroyPoints, TxExitPoints, AttachPoints
    <2>9. GsoInv'
      BY DEF TypeOK, ControlInv, GsoInv, Ending, Undoing, InitPoints,
         DestroyPoints, TxExitPoints, AttachPoints
    <2>10. ModuleInv'
      BY DEF ModuleInv
    <2> QED
      BY <2>2, <2>3, <2>4, <2>5, <2>6, <2>7, <2>8, <2>9, <2>10 DEF IInv
  <1>3. CASE pc' = "tx_exit" /\ txc' = [txc EXCEPT ![new] = "none"]
    <2>1. /\ pc = "contexts" /\ Point = "contexts"
          /\ new \in Inst /\ new # qdisc /\ Point' = "tx_exit"
          /\ txc' = [txc EXCEPT ![new] = "none"]
          /\ rxc' = [rxc EXCEPT ![new] = "none"] /\ pc' = "tx_exit"
          /\ old' = new /\ ret' = [sync |-> ret.sync, destroy |-> "fail"]
          /\ UNCHANGED <<registered, module, qdisc, queue, active, rx_handler, gso>>
          /\ UNCHANGED <<qdiscs, prev_gso, cls, vq, assoc, txctx_list, rxctx_list>>
          /\ UNCHANGED <<op, new, gp, path, ctx, writer, reader>>
          /\ UNCHANGED <<refused, raced>>
      BY <1>1, <1>3 DEF AllocContexts, Goto, Destroy, others, moduleVars,
         devVars, ctxVars, objVars, pathVars, ControlInv, Point, InitPoints,
         DestroyPoints, TxExitPoints, AttachPoints
    <2> USE <1>1, <2>1
    <2>2. TypeOK'
      BY SMT DEF TypeOK, Busy
    <2>3. ControlInv'
      BY DEF TypeOK, ControlInv, InitPoints, DestroyPoints, TxExitPoints,
         AttachPoints, SyncPoints
    <2>4. ContextInv'
      BY SMT DEF TypeOK, ControlInv, ContextInv, InitPoints, DestroyPoints,
         TxExitPoints, AttachPoints, Ending, Live, Gone
    <2>5. QueueInv'
      BY DEF TypeOK, ControlInv, QueueInv, Ending, InitPoints, DestroyPoints,
         TxExitPoints, AttachPoints
    <2>6. ObjectInv'
      BY SMT DEF TypeOK, ControlInv, ObjectInv, Ending, InitPoints,
         DestroyPoints, TxExitPoints, AttachPoints
    <2>7. PathInv'
      BY DEF TypeOK, ControlInv, PathInv, Busy, Ending, InitPoints,
         DestroyPoints, TxExitPoints, AttachPoints
    <2>8. HookInv'
      BY SMT DEF TypeOK, ControlInv, HookInv, Ending, Undoing, InitPoints,
         DestroyPoints, TxExitPoints, AttachPoints
    <2>9. GsoInv'
      BY SMT DEF TypeOK, ControlInv, GsoInv, Ending, Undoing, InitPoints,
         DestroyPoints, TxExitPoints, AttachPoints
    <2>10. ModuleInv'
      BY DEF ModuleInv
    <2> QED
      BY <2>2, <2>3, <2>4, <2>5, <2>6, <2>7, <2>8, <2>9, <2>10 DEF IInv
  <1>4. CASE pc' = "tx_exit" /\ txc' = [txc EXCEPT ![new] = "zeroed"]
    <2>1. /\ pc = "contexts" /\ Point = "contexts"
          /\ new \in Inst /\ new # qdisc /\ Point' = "tx_exit"
          /\ txc' = [txc EXCEPT ![new] = "zeroed"]
          /\ rxc' = [rxc EXCEPT ![new] = "none"] /\ pc' = "tx_exit"
          /\ old' = new /\ ret' = [sync |-> ret.sync, destroy |-> "fail"]
          /\ UNCHANGED <<registered, module, qdisc, queue, active, rx_handler, gso>>
          /\ UNCHANGED <<qdiscs, prev_gso, cls, vq, assoc, txctx_list, rxctx_list>>
          /\ UNCHANGED <<op, new, gp, path, ctx, writer, reader>>
          /\ UNCHANGED <<refused, raced>>
      BY <1>1, <1>4 DEF AllocContexts, Goto, Destroy, others, moduleVars,
         devVars, ctxVars, objVars, pathVars, ControlInv, Point, InitPoints,
         DestroyPoints, TxExitPoints, AttachPoints
    <2> USE <1>1, <2>1
    <2>2. TypeOK'
      BY SMT DEF TypeOK, Busy
    <2>3. ControlInv'
      BY DEF TypeOK, ControlInv, InitPoints, DestroyPoints, TxExitPoints,
         AttachPoints, SyncPoints
    <2>4. ContextInv'
      BY SMT DEF TypeOK, ControlInv, ContextInv, InitPoints, DestroyPoints,
         TxExitPoints, AttachPoints, Ending, Live, Gone
    <2>5. QueueInv'
      BY DEF TypeOK, ControlInv, QueueInv, Ending, InitPoints, DestroyPoints,
         TxExitPoints, AttachPoints
    <2>6. ObjectInv'
      BY DEF TypeOK, ControlInv, ObjectInv, Ending, InitPoints,
         DestroyPoints, TxExitPoints, AttachPoints
    <2>7. PathInv'
      BY DEF TypeOK, ControlInv, PathInv, Busy, Ending, InitPoints,
         DestroyPoints, TxExitPoints, AttachPoints
    <2>8. HookInv'
      BY SMT DEF TypeOK, ControlInv, HookInv, Ending, Undoing, InitPoints,
         DestroyPoints, TxExitPoints, AttachPoints
    <2>9. GsoInv'
      BY SMT DEF TypeOK, ControlInv, GsoInv, Ending, Undoing, InitPoints,
         DestroyPoints, TxExitPoints, AttachPoints
    <2>10. ModuleInv'
      BY DEF ModuleInv
    <2> QED
      BY <2>2, <2>3, <2>4, <2>5, <2>6, <2>7, <2>8, <2>9, <2>10 DEF IInv
  <1> QED
    BY <1>1, <1>2, <1>3, <1>4 DEF AllocContexts, Goto, Destroy, TypeOK,
       ControlInv, Point, InitPoints, DestroyPoints, TxExitPoints,
       AttachPoints

LEMMA TxInitStep ==
  ASSUME IInv, iso_tx_init
  PROVE  IInv'
  <1>1. /\ TypeOK /\ ControlInv /\ ContextInv /\ QueueInv /\ ObjectInv
        /\ PathInv /\ HookInv /\ GsoInv /\ ModuleInv
        /\ Default \notin Inst /\ None \notin Inst \cup {Default}
        /\ NumTx \in Nat /\ NumTx > 0 /\ Rx \cap Tx = {}
    BY SMT, LifecycleAssumption DEF IInv
  <1>2. /\ pc = "tx_init" /\ Point = "tx_init"
        /\ new \in Inst /\ new # qdisc /\ Point' = "rx_init" /\ gso' = "iso"
        /\ txc' = [txc EXCEPT ![new] = "live"]
        /\ prev_gso' = [prev_gso EXCEPT ![new] = gso]
        /\ txctx_list' = txctx_list \cup {new} /\ pc' = "sync"
        /\ ret' = [sync |-> "rx_init", destroy |-> ret.destroy]
        /\ gp' = Busy
        /\ UNCHANGED <<registered, module, qdisc, queue, active, rx_handler, rxc>>
        /\ UNCHANGED <<qdiscs, cls, vq, assoc, rxctx_list, op, new>>
        /\ UNCHANGED <<old, path, ctx, writer, reader, refused, raced>>
    BY <1>1 DEF iso_tx_init, Sync, others, moduleVars, devVars, ctxVars,
       objVars, pathVars, ControlInv, Point, InitPoints, DestroyPoints,
       TxExitPoints, AttachPoints
  <1> USE <1>1, <1>2
  <1>3. TypeOK'
    BY SMT DEF TypeOK, Busy
  <1>4. ControlInv'
    BY DEF TypeOK, ControlInv, InitPoints, DestroyPoints, TxExitPoints,
       AttachPoints, SyncPoints
  <1>5. ContextInv'
    BY SMT DEF TypeOK, ControlInv, ContextInv, InitPoints, DestroyPoints,
       TxExitPoints, AttachPoints, Ending, Live, Gone
  <1>6. QueueInv'
    BY DEF TypeOK, ControlInv, QueueInv, Ending, InitPoints, DestroyPoints,
       TxExitPoints, AttachPoints
  <1>7. ObjectInv'
    BY SMT DEF TypeOK, ControlInv, ObjectInv, Ending, InitPoints,
       DestroyPoints, TxExitPoints, AttachPoints
  <1>8. PathInv'
    BY DEF TypeOK, ControlInv, PathInv, Busy, Ending, InitPoints,
       DestroyPoints, TxExitPoints, AttachPoints
  <1>9. HookInv'
    BY DEF TypeOK, ControlInv, HookInv, Ending, Undoing, InitPoints,
       DestroyPoints, TxExitPoints, AttachPoints
  <1>10. GsoInv'
    BY SMT DEF TypeOK, ControlInv, GsoInv, Ending, Undoing, InitPoints,
       DestroyPoints, TxExitPoints, AttachPoints
  <1>11. ModuleInv'
    BY DEF ModuleInv
  <1> QED
    BY <1>3, <1>4, <1>5, <1>6, <1>7, <1>8, <1>9, <1>10, <1>11 DEF IInv

LEMMA InitNoMemoryStep ==
  ASSUME IInv, InitNoMemory
  PROVE  IInv'
  <1>1. /\ TypeOK /\ ControlInv /\ ContextInv /\ QueueInv /\ ObjectInv
        /\ PathInv /\ HookInv /\ GsoInv /\ ModuleInv
        /\ Default \notin Inst /\ None \notin Inst \cup {Default}
        /\ NumTx \in Nat /\ NumTx > 0 /\ Rx \cap Tx = {}
    BY SMT, LifecycleAssumption DEF IInv
  <1>2. CASE pc = "tx_init"
    <2>1. /\ pc = "tx_init" /\ Point = "tx_init"
          /\ new \in Inst /\ new # qdisc /\ Point' = "tx_exit"
          /\ pc' = "tx_exit" /\ old' = new
          /\ ret' = [sync |-> ret.sync, destroy |-> "fail"]
          /\ UNCHANGED <<registered, module, qdisc, queue, active, rx_handler, gso>>
          /\ UNCHANGED <<txc, rxc, qdiscs, prev_gso, cls, vq, assoc>>
          /\ UNCHANGED <<txctx_list, rxctx_list, op, new, gp, path, ctx>>
          /\ UNCHANGED <<writer, reader, refused, raced>>
      BY <1>1, <1>2 DEF InitNoMemory, Destroy, others, moduleVars, devVars,
         ctxVars, objVars, pathVars, ControlInv, Point, InitPoints,
         DestroyPoints, TxExitPoints, AttachPoints
    <2> USE <1>1, <2>1
    <2>2. TypeOK'
      BY SMT DEF TypeOK, Busy
    <2>3. ControlInv'
      BY DEF TypeOK, ControlInv, InitPoints, DestroyPoints, TxExitPoints,
         AttachPoints, SyncPoints
    <2>4. ContextInv'
      BY SMT DEF TypeOK, ControlInv, ContextInv, InitPoints, DestroyPoints,
         TxExitPoints, AttachPoints, Ending, Live, Gone
    <2>5. QueueInv'
      BY DEF TypeOK, ControlInv, QueueInv, Ending, InitPoints, DestroyPoints,
         TxExitPoints, AttachPoints
    <2>6. ObjectInv'
      BY DEF TypeOK, ControlInv, ObjectInv, Ending, InitPoints,
         DestroyPoints, TxExitPoints, AttachPoints
    <2>7. PathInv'
      BY DEF TypeOK, ControlInv, PathInv, Busy, Ending, InitPoints,
         DestroyPoints, TxExitPoints, AttachPoints
    <2>8. HookInv'
      BY DEF TypeOK, ControlInv, HookInv, Ending, Undoing, InitPoints,
         DestroyPoints, TxExitPoints, AttachPoints, ContextInv, Live
    <2>9. GsoInv'
      BY DEF TypeOK, ControlInv, GsoInv, Ending, Undoing, InitPoints,
         DestroyPoints, TxExitPoints, AttachPoints, ContextInv, HookInv, Live
    <2>10. ModuleInv'
      BY DEF ModuleInv
    <2> QED
      BY <2>2, <2>3, <2>4, <2>5, <2>6, <2>7, <2>8, <2>9, <2>10 DEF IInv
  <1>3. CASE pc = "rx_init"
    <2>1. /\ pc = "rx_init" /\ Point = "rx_init"
          /\ new \in Inst /\ new # qdisc /\ Point' = "tx_exit"
          /\ pc' = "tx_exit" /\ old' = new
          /\ ret' = [sync |-> ret.sync, destroy |-> "fail"]
          /\ UNCHANGED <<registered, module, qdisc, queue, active, rx_handler, gso>>
          /\ UNCHANGED <<txc, rxc, qdiscs, prev_gso, cls, vq, assoc>>
          /\ UNCHANGED <<txctx_list, rxctx_list, op, new, gp, path, ctx>>
          /\ UNCHANGED <<writer, reader, refused, raced>>
      BY <1>1, <1>3 DEF InitNoMemory, Destroy, others, moduleVars, devVars,
         ctxVars, objVars, pathVars, ControlInv, Point, InitPoints,
         DestroyPoints, TxExitPoints, AttachPoints
    <2> USE <1>1, <2>1
    <2>2. TypeOK'
      BY SMT DEF TypeOK, Busy
    <2>3. ControlInv'
      BY DEF TypeOK, ControlInv, InitPoints, DestroyPoints, TxExitPoints,
         AttachPoints, SyncPoints
    <2>4. ContextInv'
      BY SMT DEF TypeOK, ControlInv, ContextInv, InitPoints, DestroyPoints,
         TxExitPoints, AttachPoints, Ending, Live, Gone
    <2>5. QueueInv'
      BY DEF TypeOK, ControlInv, QueueInv, Ending, InitPoints, DestroyPoints,
         TxExitPoints, AttachPoints
    <2>6. ObjectInv'
      BY DEF TypeOK, ControlInv, ObjectInv, Ending, InitPoints,
         DestroyPoints, TxExitPoints, AttachPoints
    <2>7. PathInv'
      BY DEF TypeOK, ControlInv, PathInv, Busy, Ending, InitPoints,
         DestroyPoints, TxExitPoints, AttachPoints
    <2>8. HookInv'
      BY DEF TypeOK, ControlInv, HookInv, Ending, Undoing, InitPoints,
         DestroyPoints, TxExitPoints, AttachPoints, ContextInv, Live
    <2>9. GsoInv'
      BY DEF TypeOK, ControlInv, GsoInv, Ending, Undoing, InitPoints,
         DestroyPoints, TxExitPoints, AttachPoints, ContextInv, HookInv, Live
    <2>10. ModuleInv'
      BY DEF ModuleInv
    <2> QED
      BY <2>2, <2>3, <2>4, <2>5, <2>6, <2>7, <2>8, <2>9, <2>10 DEF IInv
  <1> QED
    BY <1>1, <1>2, <1>3 DEF InitNoMemory, Destroy, TypeOK, ControlInv, Point,
       InitPoints, DestroyPoints, TxExitPoints, AttachPoints

LEMMA RxInitStep ==
  ASSUME IInv, iso_rx_init
  PROVE  IInv'
  <1>1. /\ TypeOK /\ ControlInv /\ ContextInv /\ QueueInv /\ ObjectInv
        /\ PathInv /\ HookInv /\ GsoInv /\ ModuleInv
        /\ Default \notin Inst /\ None \notin Inst \cup {Default}
        /\ NumTx \in Nat /\ NumTx > 0 /\ Rx \cap Tx = {}
    BY SMT, LifecycleAssumption DEF IInv
  <1>2. CASE rx_handler
    <2>1. /\ rx_handler /\ pc = "rx_init" /\ Point = "rx_init"
          /\ new \in Inst /\ new # qdisc /\ Point' = "refused"
          /\ rxc' = [rxc EXCEPT ![new] = "live"]
          /\ rxctx_list' = rxctx_list \cup {new} /\ pc' = "sync"
          /\ ret' = [sync |-> "refused", destroy |-> ret.destroy]
          /\ gp' = Busy /\ refused' = TRUE
          /\ UNCHANGED <<registered, module, qdisc, queue, active, rx_handler, gso>>
          /\ UNCHANGED <<txc, qdiscs, prev_gso, cls, vq, assoc, txctx_list>>
          /\ UNCHANGED <<op, new, old, path, ctx, writer, reader>>
          /\ UNCHANGED <<raced>>
      BY <1>1, <1>2 DEF iso_rx_init, Sync, TypeOK, others, moduleVars,
         devVars, ctxVars, objVars, pathVars, ControlInv, Point, InitPoints,
         DestroyPoints, TxExitPoints, AttachPoints
    <2> USE <1>1, <2>1
    <2>2. TypeOK'
      BY SMT DEF TypeOK, Busy
    <2>3. ControlInv'
      BY DEF TypeOK, ControlInv, InitPoints, DestroyPoints, TxExitPoints,
         AttachPoints, SyncPoints
    <2>4. ContextInv'
      BY SMT DEF TypeOK, ControlInv, ContextInv, InitPoints, DestroyPoints,
         TxExitPoints, AttachPoints, Ending, Live, Gone
    <2>5. QueueInv'
      BY DEF TypeOK, ControlInv, QueueInv, Ending, InitPoints, DestroyPoints,
         TxExitPoints, AttachPoints
    <2>6. ObjectInv'
      BY DEF TypeOK, ControlInv, ObjectInv, Ending, InitPoints,
         DestroyPoints, TxExitPoints, AttachPoints
    <2>7. PathInv'
      BY DEF TypeOK, ControlInv, PathInv, Busy, Ending, InitPoints,
         DestroyPoints, TxExitPoints, AttachPoints
    <2>8. HookInv'
      BY DEF TypeOK, ControlInv, HookInv, Ending, Undoing, InitPoints,
         DestroyPoints, TxExitPoints, AttachPoints
    <2>9. GsoInv'
      BY DEF TypeOK, ControlInv, GsoInv, Ending, Undoing, InitPoints,
         DestroyPoints, TxExitPoints, AttachPoints
    <2>10. ModuleInv'
      BY DEF ModuleInv
    <2> QED
      BY <2>2, <2>3, <2>4, <2>5, <2>6, <2>7, <2>8, <2>9, <2>10 DEF IInv
  <1>3. CASE ~rx_handler
    <2>1. /\ ~rx_handler /\ pc = "rx_init" /\ Point = "rx_init"
          /\ new \in Inst /\ new # qdisc /\ Point' = "dflt"
          /\ rx_handler' = TRUE /\ rxc' = [rxc EXCEPT ![new] = "live"]
          /\ rxctx_list' = rxctx_list \cup {new} /\ pc' = "sync"
          /\ ret' = [sync |-> "dflt", destroy |-> ret.destroy] /\ gp' = Busy
          /\ UNCHANGED <<registered, module, qdisc, queue, active, gso, txc>>
          /\ UNCHANGED <<qdiscs, prev_gso, cls, vq, assoc, txctx_list, op>>
          /\ UNCHANGED <<new, old, path, ctx, writer, reader, refused>>
          /\ UNCHANGED <<raced>>
      BY <1>1, <1>3 DEF iso_rx_init, Sync, TypeOK, others, moduleVars,
         devVars, ctxVars, objVars, pathVars, ControlInv, Point, InitPoints,
         DestroyPoints, TxExitPoints, AttachPoints
    <2> USE <1>1, <2>1
    <2>2. TypeOK'
      BY SMT DEF TypeOK, Busy
    <2>3. ControlInv'
      BY DEF TypeOK, ControlInv, InitPoints, DestroyPoints, TxExitPoints,
         AttachPoints, SyncPoints
    <2>4. ContextInv'
      BY SMT DEF TypeOK, ControlInv, ContextInv, InitPoints, DestroyPoints,
         TxExitPoints, AttachPoints, Ending, Live, Gone
    <2>5. QueueInv'
      BY DEF TypeOK, ControlInv, QueueInv, Ending, InitPoints, DestroyPoints,
         TxExitPoints, AttachPoints
    <2>6. ObjectInv'
      BY SMT DEF TypeOK, ControlInv, ObjectInv, Ending, InitPoints,
         DestroyPoints, TxExitPoints, AttachPoints
    <2>7. PathInv'
      BY DEF TypeOK, ControlInv, PathInv, Busy, Ending, InitPoints,
         DestroyPoints, TxExitPoints, AttachPoints
    <2>8. HookInv'
      BY DEF TypeOK, ControlInv, HookInv, Ending, Undoing, InitPoints,
         DestroyPoints, TxExitPoints, AttachPoints
    <2>9. GsoInv'
      BY DEF TypeOK, ControlInv, GsoInv, Ending, Undoing, InitPoints,
         DestroyPoints, TxExitPoints, AttachPoints
    <2>10. ModuleInv'
      BY DEF ModuleInv
    <2> QED
      BY <2>2, <2>3, <2>4, <2>5, <2>6, <2>7, <2>8, <2>9, <2>10 DEF IInv
  <1> QED
    BY <1>1, <1>2, <1>3 DEF iso_rx_init, Sync, TypeOK, TypeOK, ControlInv,
       Point, InitPoints, DestroyPoints, TxExitPoints, AttachPoints

LEMMA RefusedStep ==
  ASSUME IInv, Refused
  PROVE  IInv'
  <1>1. /\ TypeOK /\ ControlInv /\ ContextInv /\ QueueInv /\ ObjectInv
        /\ PathInv /\ HookInv /\ GsoInv /\ ModuleInv
        /\ Default \notin Inst /\ None \notin Inst \cup {Default}
        /\ NumTx \in Nat /\ NumTx > 0 /\ Rx \cap Tx = {}
    BY SMT, LifecycleAssumption DEF IInv
  <1>2. /\ pc = "refused" /\ Point = "refused"
        /\ new \in Inst /\ new # qdisc /\ Point' = "tx_exit"
        /\ pc' = "tx_exit" /\ old' = new
        /\ ret' = [sync |-> ret.sync, destroy |-> "fail"]
        /\ UNCHANGED <<registered, module, qdisc, queue, active, rx_handler, gso>>
        /\ UNCHANGED <<txc, rxc, qdiscs, prev_gso, cls, vq, assoc>>
        /\ UNCHANGED <<txctx_list, rxctx_list, op, new, gp, path, ctx>>
        /\ UNCHANGED <<writer, reader, refused, raced>>
    BY <1>1 DEF Refused, Destroy, others, moduleVars, devVars, ctxVars,
       objVars, pathVars, ControlInv, Point, InitPoints, DestroyPoints,
       TxExitPoints, AttachPoints
  <1> USE <1>1, <1>2
  <1>3. TypeOK'
    BY SMT DEF TypeOK, Busy
  <1>4. ControlInv'
    BY DEF TypeOK, ControlInv, InitPoints, DestroyPoints, TxExitPoints,
       AttachPoints, SyncPoints
  <1>5. ContextInv'
    BY SMT DEF TypeOK, ControlInv, ContextInv, InitPoints, DestroyPoints,
       TxExitPoints, AttachPoints, Ending, Live, Gone
  <1>6. QueueInv'
    BY DEF TypeOK, ControlInv, QueueInv, Ending, InitPoints, DestroyPoints,
       TxExitPoints, AttachPoints
  <1>7. ObjectInv'
    BY SMT DEF TypeOK, ControlInv, ObjectInv, Ending, InitPoints,
       DestroyPoints, TxExitPoints, AttachPoints
  <1>8. PathInv'
    BY DEF TypeOK, ControlInv, PathInv, Busy, Ending, InitPoints,
       DestroyPoints, TxExitPoints, AttachPoints
  <1>9. HookInv'
    BY DEF TypeOK, ControlInv, HookInv, Ending, Undoing, InitPoints,
       DestroyPoints, TxExitPoints, AttachPoints, ContextInv, Live
  <1>10. GsoInv'
    BY DEF TypeOK, ControlInv, GsoInv, Ending, Undoing, InitPoints,
       DestroyPoints, TxExitPoints, AttachPoints, ContextInv, HookInv, Live
  <1>11. ModuleInv'
    BY DEF ModuleInv
  <1> QED
    BY <1>3, <1>4, <1>5, <1>6, <1>7, <1>8, <1>9, <1>10, <1>11 DEF IInv

LEMMA CreateDfltStep ==
  ASSUME IInv, CreateDflt
  PROVE  IInv'
  <1>1. /\ TypeOK /\ ControlInv /\ ContextInv /\ QueueInv /\ ObjectInv
        /\ PathInv /\ HookInv /\ GsoInv /\ ModuleInv
        /\ Default \notin Inst /\ None \notin Inst \cup {Default}
        /\ NumTx \in Nat /\ NumTx > 0 /\ Rx \cap Tx = {}
    BY SMT, LifecycleAssumption DEF IInv
  <1>2. CASE pc' = "dflt"
    <2>1. /\ pc = "dflt" /\ Point = "dflt" /\ new \in Inst /\ new # qdisc
          /\ qdiscs[new] < NumTx /\ Point' = "dflt"
          /\ qdiscs' = [qdiscs EXCEPT ![new] = qdiscs[new] + 1]
          /\ pc' = "dflt"
          /\ UNCHANGED <<registered, module, qdisc, queue, active, rx_handler, gso>>
          /\ UNCHANGED <<txc, rxc, prev_gso, cls, vq, assoc, txctx_list>>
          /\ UNCHANGED <<rxctx_list, op, new, old, ret, gp, path>>
          /\ UNCHANGED <<ctx, writer, reader, refused, raced>>
      BY <1>1, <1>2 DEF CreateDflt, Goto, Destroy, MoreQueues, others,
         moduleVars, devVars, ctxVars, objVars, pathVars, ControlInv, Point,
         InitPoints, DestroyPoints, TxExitPoints, AttachPoints
    <2> USE <1>1, <2>1
    <2>2. TypeOK'
      BY SMT DEF TypeOK, Busy
    <2>3. ControlInv'
      BY DEF TypeOK, ControlInv, InitPoints, DestroyPoints, TxExitPoints,
         AttachPoints, SyncPoints
    <2>4. ContextInv'
      BY SMT DEF TypeOK, ControlInv, ContextInv, InitPoints, DestroyPoints,
         TxExitPoints, AttachPoints, Ending, Live, Gone
    <2>5. QueueInv'
      BY DEF TypeOK, ControlInv, QueueInv, Ending, InitPoints, DestroyPoints,
         TxExitPoints, AttachPoints
    <2>6. ObjectInv'
      BY SMT DEF TypeOK, ControlInv, ObjectInv, Ending, InitPoints,
         DestroyPoints, TxExitPoints, AttachPoints
    <2>7. PathInv'
      BY DEF TypeOK, ControlInv, PathInv, Busy, Ending, InitPoints,
         DestroyPoints, TxExitPoints, AttachPoints
    <2>8. HookInv'
      BY DEF TypeOK, ControlInv, HookInv, Ending, Undoing, InitPoints,
         DestroyPoints, TxExitPoints, AttachPoints
    <2>9. GsoInv'
      BY DEF TypeOK, ControlInv, GsoInv, Ending, Undoing, InitPoints,
         DestroyPoints, TxExitPoints, AttachPoints
    <2>10. ModuleInv'
      BY DEF ModuleInv
    <2> QED
      BY <2>2, <2>3, <2>4, <2>5, <2>6, <2>7, <2>8, <2>9, <2>10 DEF IInv
  <1>3. CASE pc' = "tx_exit"
    <2>1. /\ pc = "dflt" /\ Point = "dflt" /\ new \in Inst /\ new # qdisc
          /\ Point' = "tx_exit" /\ pc' = "tx_exit" /\ old' = new
          /\ ret' = [sync |-> ret.sync, destroy |-> "fail"]
          /\ UNCHANGED <<registered, module, qdisc, queue, active, rx_handler, gso>>
          /\ UNCHANGED <<txc, rxc, qdiscs, prev_gso, cls, vq, assoc>>
          /\ UNCHANGED <<txctx_list, rxctx_list, op, new, gp, path, ctx>>
          /\ UNCHANGED <<writer, reader, refused, raced>>
      BY <1>1, <1>3 DEF CreateDflt, Goto, Destroy, MoreQueues, others,
         moduleVars, devVars, ctxVars, objVars, pathVars, ControlInv, Point,
         InitPoints, DestroyPoints, TxExitPoints, AttachPoints
    <2> USE <1>1, <2>1
    <2>2. TypeOK'
      BY SMT DEF TypeOK, Busy
    <2>3. ControlInv'
      BY DEF TypeOK, ControlInv, InitPoints, DestroyPoints, TxExitPoints,
         AttachPoints, SyncPoints
    <2>4. ContextInv'
      BY SMT DEF TypeOK, ControlInv, ContextInv, InitPoints, DestroyPoints,
         TxExitPoints, AttachPoints, Ending, Live, Gone
    <2>5. QueueInv'
      BY DEF TypeOK, ControlInv, QueueInv, Ending, InitPoints, DestroyPoints,
         TxExitPoints, AttachPoints
    <2>6. ObjectInv'
      BY DEF TypeOK, ControlInv, ObjectInv, Ending, InitPoints,
         DestroyPoints, TxExitPoints, AttachPoints
    <2>7. PathInv'
      BY DEF TypeOK, ControlInv, PathInv, Busy, Ending, InitPoints,
         DestroyPoints, TxExitPoints, AttachPoints
    <2>8. HookInv'
      BY DEF TypeOK, ControlInv, HookInv, Ending, Undoing, InitPoints,
         DestroyPoints, TxExitPoints, AttachPoints, ContextInv, Live
    <2>9. GsoInv'
      BY DEF TypeOK, ControlInv, GsoInv, Ending, Undoing, InitPoints,
         DestroyPoints, TxExitPoints, AttachPoints, ContextInv, HookInv, Live
    <2>10. ModuleInv'
      BY DEF ModuleInv
    <2> QED
      BY <2>2, <2>3, <2>4, <2>5, <2>6, <2>7, <2>8, <2>9, <2>10 DEF IInv
  <1>4. CASE pc' = "deactivate"
    <2>1. /\ pc = "dflt" /\ Point = "dflt" /\ new \in Inst /\ new # qdisc
          /\ Point' = "deactivate" /\ pc' = "deactivate"
          /\ UNCHANGED <<registered, module, qdisc, queue, active, rx_handler, gso>>
          /\ UNCHANGED <<txc, rxc, qdiscs, prev_gso, cls, vq, assoc>>
          /\ UNCHANGED <<txctx_list, rxctx_list, op, new, old, ret, gp>>
          /\ UNCHANGED <<path, ctx, writer, reader, refused, raced>>
      BY <1>1, <1>4 DEF CreateDflt, Goto, Destroy, MoreQueues, others,
         moduleVars, devVars, ctxVars, objVars, pathVars, ControlInv, Point,
         InitPoints, DestroyPoints, TxExitPoints, AttachPoints
    <2> USE <1>1, <2>1
    <2>2. TypeOK'
      BY SMT DEF TypeOK, Busy
    <2>3. ControlInv'
      BY DEF TypeOK, ControlInv, InitPoints, DestroyPoints, TxExitPoints,
         AttachPoints, SyncPoints
    <2>4. ContextInv'
      BY DEF TypeOK, ControlInv, ContextInv, InitPoints, DestroyPoints,
         TxExitPoints, AttachPoints, Ending, Live, Gone
    <2>5. QueueInv'
      BY DEF TypeOK, ControlInv, QueueInv, Ending, InitPoints, DestroyPoints,
         TxExitPoints, AttachPoints
    <2>6. ObjectInv'
      BY SMT DEF TypeOK, ControlInv, ObjectInv, Ending, InitPoints,
         DestroyPoints, TxExitPoints, AttachPoints
    <2>7. PathInv'
      BY DEF TypeOK, ControlInv, PathInv, Busy, Ending, InitPoints,
         DestroyPoints, TxExitPoints, AttachPoints
    <2>8. HookInv'
      BY DEF TypeOK, ControlInv, HookInv, Ending, Undoing, InitPoints,
         DestroyPoints, TxExitPoints, AttachPoints, ContextInv, Live
    <2>9. GsoInv'
      BY DEF TypeOK, ControlInv, GsoInv, Ending, Undoing, InitPoints,
         DestroyPoints, TxExitPoints, AttachPoints, ContextInv, HookInv, Live
    <2>10. ModuleInv'
      BY DEF ModuleInv
    <2> QED
      BY <2>2, <2>3, <2>4, <2>5, <2>6, <2>7, <2>8, <2>9, <2>10 DEF IInv
  <1> QED
    BY <1>1, <1>2, <1>3, <1>4 DEF CreateDflt, Goto, Destroy, MoreQueues,
       TypeOK, ControlInv, Point, InitPoints, DestroyPoints, TxExitPoints,
       AttachPoints

LEMMA InitFailedStep ==
  ASSUME IInv, InitFailed
  PROVE  IInv'
  <1>1. /\ TypeOK /\ ControlInv /\ ContextInv /\ QueueInv /\ ObjectInv
        /\ PathInv /\ HookInv /\ GsoInv /\ ModuleInv
        /\ Default \notin Inst /\ None \notin Inst \cup {Default}
        /\ NumTx \in Nat /\ NumTx > 0 /\ Rx \cap Tx = {}
    BY SMT, LifecycleAssumption DEF IInv
  <1>2. /\ pc = "fail" /\ Point = "fail" /\ new \in Inst /\ new # qdisc
        /\ Point' = "free" /\ pc' = "free" /\ op' = "none" /\ new' = None
        /\ UNCHANGED <<registered, module, qdisc, queue, active, rx_handler, gso>>
        /\ UNCHANGED <<txc, rxc, qdiscs, prev_gso, cls, vq, assoc>>
        /\ UNCHANGED <<txctx_list, rxctx_list, old, ret, gp, path, ctx>>
        /\ UNCHANGED <<writer, reader, refused, raced>>
    BY <1>1 DEF InitFailed, Goto, others, moduleVars, devVars, ctxVars,
       objVars, pathVars, ControlInv, Point, InitPoints, DestroyPoints,
       TxExitPoints, AttachPoints
  <1> USE <1>1, <1>2
  <1>3. TypeOK'
    BY SMT DEF TypeOK, Busy
  <1>4. ControlInv'
    BY DEF TypeOK, ControlInv, InitPoints, DestroyPoints, TxExitPoints,
       AttachPoints, SyncPoints
  <1>5. ContextInv'
    BY DEF TypeOK, ControlInv, ContextInv, InitPoints, DestroyPoints,
       TxExitPoints, AttachPoints, Ending, Live, Gone
  <1>6. QueueInv'
    BY DEF TypeOK, ControlInv, QueueInv, Ending, InitPoints, DestroyPoints,
       TxExitPoints, AttachPoints
  <1>7. ObjectInv'
    BY DEF TypeOK, ControlInv, ObjectInv, Ending, InitPoints,
       DestroyPoints, TxExitPoints, AttachPoints
  <1>8. PathInv'
    BY DEF TypeOK, ControlInv, PathInv, Busy, Ending, InitPoints,
       DestroyPoints, TxExitPoints, AttachPoints
  <1>9. HookInv'
    BY DEF TypeOK, ControlInv, HookInv, Ending, Undoing, InitPoints,
       DestroyPoints, TxExitPoints, AttachPoints
  <1>10. GsoInv'
    BY DEF TypeOK, ControlInv, GsoInv, Ending, Undoing, InitPoints,
       DestroyPoints, TxExitPoints, AttachPoints
  <1>11. ModuleInv'
    BY DEF ModuleInv
  <1> QED
    BY <1>3, <1>4, <1>5, <1>6, <1>7, <1>8, <1>9, <1>10, <1>11 DEF IInv

LEMMA EndSyncStep ==
  ASSUME IInv, EndSync
  PROVE  IInv'
  <1>1. /\ TypeOK /\ ControlInv /\ ContextInv /\ QueueInv /\ ObjectInv
        /\ PathInv /\ HookInv /\ GsoInv /\ ModuleInv
        /\ Default \notin Inst /\ None \notin Inst \cup {Default}
        /\ NumTx \in Nat /\ NumTx > 0 /\ Rx \cap Tx = {}
    BY SMT, LifecycleAssumption DEF IInv
  <1>2. /\ pc = "sync" /\ gp = {} /\ Point = ret.sync /\ Point' = Point
        /\ pc' = Point /\ ret' = [sync |-> "free", destroy |-> ret.destroy]
        /\ UNCHANGED <<registered, module, qdisc, queue, active, rx_handler, gso>>
        /\ UNCHANGED <<txc, rxc, qdiscs, prev_gso, cls, vq, assoc>>
        /\ UNCHANGED <<txctx_list, rxctx_list, op, new, old, gp, path>>
        /\ UNCHANGED <<ctx, writer, reader, refused, raced>>
    <2>1. pc = "sync" /\ gp = {} /\ Point = ret.sync /\ ret.sync # "sync"
      BY <1>1 DEF EndSync, ControlInv, Point, SyncPoints
    <2>2. /\ ret' = [sync |-> "free", destroy |-> ret.destroy]
          /\ pc' = Point /\ Point' = Point
      BY <1>1, <2>1 DEF EndSync, ControlInv, Point
    <2> QED
      BY <2>1, <2>2 DEF EndSync, others, moduleVars, devVars, ctxVars,
         objVars, pathVars
  <1> USE <1>1, <1>2
  <1>3. TypeOK'
    BY SMT DEF TypeOK, Busy
  <1>4. ControlInv'
    BY DEF TypeOK, ControlInv, InitPoints, DestroyPoints, TxExitPoints,
       AttachPoints, SyncPoints
  <1>5. ContextInv'
    BY SMT DEF TypeOK, ControlInv, ContextInv, InitPoints, DestroyPoints,
       TxExitPoints, AttachPoints, Ending, Live, Gone
  <1>6. QueueInv'
    BY DEF TypeOK, ControlInv, QueueInv, Ending, InitPoints, DestroyPoints,
       TxExitPoints, AttachPoints
  <1>7. ObjectInv'
    BY DEF TypeOK, ControlInv, ObjectInv, Ending, InitPoints,
       DestroyPoints, TxExitPoints, AttachPoints
  <1>8. PathInv'
    BY DEF TypeOK, ControlInv, PathInv, Busy, Ending, InitPoints,
       DestroyPoints, TxExitPoints, AttachPoints
  <1>9. HookInv'
    BY DEF TypeOK, ControlInv, HookInv, Ending, Undoing, InitPoints,
       DestroyPoints, TxExitPoints, AttachPoints
  <1>10. GsoInv'
    BY DEF TypeOK, ControlInv, GsoInv, Ending, Undoing, InitPoints,
       DestroyPoints, TxExitPoints, AttachPoints
  <1>11. ModuleInv'
    BY DEF ModuleInv
  <1> QED
    BY <1>3, <1>4, <1>5, <1>6, <1>7, <1>8, <1>9, <1>10, <1>11 DEF IInv

LEMMA TxExitStep ==
  ASSUME IInv, iso_tx_exit
  PROVE  IInv'
  <1>1. /\ TypeOK /\ ControlInv /\ ContextInv /\ QueueInv /\ ObjectInv
        /\ PathInv /\ HookInv /\ GsoInv /\ ModuleInv
        /\ Default \notin Inst /\ None \notin Inst \cup {Default}
        /\ NumTx \in Nat /\ NumTx > 0 /\ Rx \cap Tx = {}
    BY SMT, LifecycleAssumption DEF IInv
  <1>2. CASE txc[old] = "none"
    <2>1. /\ txc[old] = "none" /\ pc = "tx_exit" /\ Point = "tx_exit"
          /\ old \in Inst /\ Point' = "rx_exit"
          /\ txctx_list' = txctx_list \ {old} /\ pc' = "rx_exit"
          /\ UNCHANGED <<registered, module, qdisc, queue, active, rx_handler, gso>>
          /\ UNCHANGED <<txc, rxc, qdiscs, prev_gso, cls, vq, assoc>>
          /\ UNCHANGED <<rxctx_list, op, new, old, ret, gp, path>>
          /\ UNCHANGED <<ctx, writer, reader, refused, raced>>
      BY <1>1, <1>2 DEF iso_tx_exit, Goto, others, moduleVars, devVars,
         ctxVars, objVars, pathVars, ControlInv, Point, InitPoints,
         DestroyPoints, TxExitPoints, AttachPoints
    <2> USE <1>1, <2>1
    <2>2. TypeOK'
      BY SMT DEF TypeOK, Busy
    <2>3. ControlInv'
      BY DEF TypeOK, ControlInv, InitPoints, DestroyPoints, TxExitPoints,
         AttachPoints, SyncPoints
    <2>4. ContextInv'
      BY DEF TypeOK, ControlInv, ContextInv, InitPoints, DestroyPoints,
         TxExitPoints, AttachPoints, Ending, Live, Gone
    <2>5. QueueInv'
      BY DEF TypeOK, ControlInv, QueueInv, Ending, InitPoints, DestroyPoints,
         TxExitPoints, AttachPoints
    <2>6. ObjectInv'
      BY SMT DEF TypeOK, ControlInv, ObjectInv, Ending, InitPoints,
         DestroyPoints, TxExitPoints, AttachPoints, ContextInv, Live
    <2>7. PathInv'
      BY SMT DEF TypeOK, ControlInv, PathInv, Busy, Ending, InitPoints,
         DestroyPoints, TxExitPoints, AttachPoints, ContextInv, Live
    <2>8. HookInv'
      BY DEF TypeOK, ControlInv, HookInv, Ending, Undoing, InitPoints,
         DestroyPoints, TxExitPoints, AttachPoints, ContextInv, Live
    <2>9. GsoInv'
      BY DEF TypeOK, ControlInv, GsoInv, Ending, Undoing, InitPoints,
         DestroyPoints, TxExitPoints, AttachPoints, ContextInv, HookInv, Live
    <2>10. ModuleInv'
      BY DEF ModuleInv
    <2> QED
      BY <2>2, <2>3, <2>4, <2>5, <2>6, <2>7, <2>8, <2>9, <2>10 DEF IInv
  <1>3. CASE txc[old] = "zeroed"
    <2>1. /\ txc[old] = "zeroed" /\ pc = "tx_exit" /\ Point = "tx_exit"
          /\ old \in Inst /\ Point' = "oops"
          /\ txctx_list' = txctx_list \ {old} /\ pc' = "oops"
          /\ UNCHANGED <<registered, module, qdisc, queue, active, rx_handler, gso>>
          /\ UNCHANGED <<txc, rxc, qdiscs, prev_gso, cls, vq, assoc>>
          /\ UNCHANGED <<rxctx_list, op, new, old, ret, gp, path>>
          /\ UNCHANGED <<ctx, writer, reader, refused, raced>>
      BY <1>1, <1>3 DEF iso_tx_exit, Goto, others, moduleVars, devVars,
         ctxVars, objVars, pathVars, ControlInv, Point, InitPoints,
         DestroyPoints, TxExitPoints, AttachPoints
    <2> USE <1>1, <2>1
    <2>2. TypeOK'
      BY SMT DEF TypeOK, Busy
    <2>3. ControlInv'
      BY DEF TypeOK, ControlInv, InitPoints, DestroyPoints, TxExitPoints,
         AttachPoints, SyncPoints
    <2>4. ContextInv'
      BY DEF TypeOK, ControlInv, ContextInv, InitPoints, DestroyPoints,
         TxExitPoints, AttachPoints, Ending, Live, Gone
    <2>5. QueueInv'
      BY DEF TypeOK, ControlInv, QueueInv, Ending, InitPoints, DestroyPoints,
         TxExitPoints, AttachPoints
    <2>6. ObjectInv'
      BY DEF TypeOK, ControlInv, ObjectInv, Ending, InitPoints, DestroyPoints,
         TxExitPoints, AttachPoints
    <2>7. PathInv'
      BY DEF TypeOK, ControlInv, PathInv, Busy, Ending, InitPoints,
         DestroyPoints, TxExitPoints, AttachPoints
    <2>8. HookInv'
      BY DEF TypeOK, ControlInv, HookInv, Ending, Undoing, InitPoints,
         DestroyPoints, TxExitPoints, AttachPoints
    <2>9. GsoInv'
      BY DEF TypeOK, ControlInv, GsoInv, Ending, Undoing, InitPoints,
         DestroyPoints, TxExitPoints, AttachPoints
    <2>10. ModuleInv'
      BY DEF ModuleInv
    <2> QED
      BY <2>2, <2>3, <2>4, <2>5, <2>6, <2>7, <2>8, <2>9, <2>10 DEF IInv
  <1>4. CASE txc[old] = "live"
    <2>1. /\ txc[old] = "live" /\ pc = "tx_exit" /\ Point = "tx_exit"
          /\ old \in Inst /\ Point' = "classes"
          /\ txctx_list' = txctx_list \ {old} /\ pc' = "classes"
          /\ UNCHANGED <<registered, module, qdisc, queue, active, rx_handler, gso>>
          /\ UNCHANGED <<txc, rxc, qdiscs, prev_gso, cls, vq, assoc>>
          /\ UNCHANGED <<rxctx_list, op, new, old, ret, gp, path>>
          /\ UNCHANGED <<ctx, writer, reader, refused, raced>>
      BY <1>1, <1>4 DEF iso_tx_exit, Goto, others, moduleVars, devVars,
         ctxVars, objVars, pathVars, ControlInv, Point, InitPoints,
         DestroyPoints, TxExitPoints, AttachPoints
    <2> USE <1>1, <2>1
    <2>2. TypeOK'
      BY SMT DEF TypeOK, Busy
    <2>3. ControlInv'
      BY DEF TypeOK, ControlInv, InitPoints, DestroyPoints, TxExitPoints,
         AttachPoints, SyncPoints
    <2>4. ContextInv'
      BY DEF TypeOK, ControlInv, ContextInv, InitPoints, DestroyPoints,
         TxExitPoints, AttachPoints, Ending, Live, Gone
    <2>5. QueueInv'
      BY DEF TypeOK, ControlInv, QueueInv, Ending, InitPoints, DestroyPoints,
         TxExitPoints, AttachPoints
    <2>6. ObjectInv'
      BY DEF TypeOK, ControlInv, ObjectInv, Ending, InitPoints,
         DestroyPoints, TxExitPoints, AttachPoints
    <2>7. PathInv'
      BY DEF TypeOK, ControlInv, PathInv, Busy, Ending, InitPoints,
         DestroyPoints, TxExitPoints, AttachPoints
    <2>8. HookInv'
      BY DEF TypeOK, ControlInv, HookInv, Ending, Undoing, InitPoints,
         DestroyPoints, TxExitPoints, AttachPoints
    <2>9. GsoInv'
      BY DEF TypeOK, ControlInv, GsoInv, Ending, Undoing, InitPoints,
         DestroyPoints, TxExitPoints, AttachPoints
    <2>10. ModuleInv'
      BY DEF ModuleInv
    <2> QED
      BY <2>2, <2>3, <2>4, <2>5, <2>6, <2>7, <2>8, <2>9, <2>10 DEF IInv
  <1> QED
    BY SMT, <1>1, <1>2, <1>3, <1>4 DEF iso_tx_exit, Goto, TypeOK, ControlInv,
       Point, InitPoints, DestroyPoints, TxExitPoints, AttachPoints

LEMMA ClassUnhashStep ==
  ASSUME IInv, ClassUnhash
  PROVE  IInv'
  <1>1. /\ TypeOK /\ ControlInv /\ ContextInv /\ QueueInv /\ ObjectInv
        /\ PathInv /\ HookInv /\ GsoInv /\ ModuleInv
        /\ Default \notin Inst /\ None \notin Inst \cup {Default}
        /\ NumTx \in Nat /\ NumTx > 0 /\ Rx \cap Tx = {}
    BY SMT, LifecycleAssumption DEF IInv
  <1>2. CASE cls[old] = "live"
    <2>1. /\ cls[old] = "live" /\ pc = "classes" /\ Point = "classes"
          /\ old \in Inst /\ Point' = "class_free"
          /\ cls' = [cls EXCEPT ![old] = "unhashed"] /\ pc' = "sync"
          /\ ret' = [sync |-> "class_free", destroy |-> ret.destroy]
          /\ gp' = Busy
          /\ UNCHANGED <<registered, module, qdisc, queue, active, rx_handler, gso>>
          /\ UNCHANGED <<txc, rxc, qdiscs, prev_gso, vq, assoc, txctx_list>>
          /\ UNCHANGED <<rxctx_list, op, new, old, path, ctx, writer>>
          /\ UNCHANGED <<reader, refused, raced>>
      BY <1>1, <1>2 DEF ClassUnhash, Goto, Sync, others, moduleVars, devVars,
         ctxVars, objVars, pathVars, ControlInv, Point, InitPoints,
         DestroyPoints, TxExitPoints, AttachPoints
    <2> USE <1>1, <2>1
    <2>2. TypeOK'
      BY SMT DEF TypeOK, Busy
    <2>3. ControlInv'
      BY DEF TypeOK, ControlInv, InitPoints, DestroyPoints, TxExitPoints,
         AttachPoints, SyncPoints
    <2>4. ContextInv'
      BY DEF TypeOK, ControlInv, ContextInv, InitPoints, DestroyPoints,
         TxExitPoints, AttachPoints, Ending, Live, Gone
    <2>5. QueueInv'
      BY DEF TypeOK, ControlInv, QueueInv, Ending, InitPoints, DestroyPoints,
         TxExitPoints, AttachPoints
    <2>6. ObjectInv'
      BY SMT DEF TypeOK, ControlInv, ObjectInv, Ending, InitPoints,
         DestroyPoints, TxExitPoints, AttachPoints
    <2>7. PathInv'
      BY DEF TypeOK, ControlInv, PathInv, Busy, Ending, InitPoints,
         DestroyPoints, TxExitPoints, AttachPoints
    <2>8. HookInv'
      BY DEF TypeOK, ControlInv, HookInv, Ending, Undoing, InitPoints,
         DestroyPoints, TxExitPoints, AttachPoints
    <2>9. GsoInv'
      BY DEF TypeOK, ControlInv, GsoInv, Ending, Undoing, InitPoints,
         DestroyPoints, TxExitPoints, AttachPoints
    <2>10. ModuleInv'
      BY DEF ModuleInv
    <2> QED
      BY <2>2, <2>3, <2>4, <2>5, <2>6, <2>7, <2>8, <2>9, <2>10 DEF IInv
  <1>3. CASE cls[old] # "live"
    <2>1. /\ cls[old] # "live" /\ pc = "classes" /\ Point = "classes"
          /\ old \in Inst /\ Point' = "tx_exited" /\ pc' = "tx_exited"
          /\ UNCHANGED <<registered, module, qdisc, queue, active, rx_handler, gso>>
          /\ UNCHANGED <<txc, rxc, qdiscs, prev_gso, cls, vq, assoc>>
          /\ UNCHANGED <<txctx_list, rxctx_list, op, new, old, ret, gp>>
          /\ UNCHANGED <<path, ctx, writer, reader, refused, raced>>
      BY <1>1, <1>3 DEF ClassUnhash, Goto, Sync, others, moduleVars, devVars,
         ctxVars, objVars, pathVars, ControlInv, Point, InitPoints,
         DestroyPoints, TxExitPoints, AttachPoints
    <2> USE <1>1, <2>1
    <2>2. TypeOK'
      BY SMT DEF TypeOK, Busy
    <2>3. ControlInv'
      BY DEF TypeOK, ControlInv, InitPoints, DestroyPoints, TxExitPoints,
         AttachPoints, SyncPoints
    <2>4. ContextInv'
      BY DEF TypeOK, ControlInv, ContextInv, InitPoints, DestroyPoints,
         TxExitPoints, AttachPoints, Ending, Live, Gone
    <2>5. QueueInv'
      BY DEF TypeOK, ControlInv, QueueInv, Ending, InitPoints, DestroyPoints,
         TxExitPoints, AttachPoints
    <2>6. ObjectInv'
      BY SMT DEF TypeOK, ControlInv, ObjectInv, Ending, InitPoints,
         DestroyPoints, TxExitPoints, AttachPoints
    <2>7. PathInv'
      BY DEF TypeOK, ControlInv, PathInv, Busy, Ending, InitPoints,
         DestroyPoints, TxExitPoints, AttachPoints
    <2>8. HookInv'
      BY DEF TypeOK, ControlInv, HookInv, Ending, Undoing, InitPoints,
         DestroyPoints, TxExitPoints, AttachPoints
    <2>9. GsoInv'
      BY DEF TypeOK, ControlInv, GsoInv, Ending, Undoing, InitPoints,
         DestroyPoints, TxExitPoints, AttachPoints
    <2>10. ModuleInv'
      BY DEF ModuleInv
    <2> QED
      BY <2>2, <2>3, <2>4, <2>5, <2>6, <2>7, <2>8, <2>9, <2>10 DEF IInv
  <1> QED
    BY <1>1, <1>2, <1>3 DEF ClassUnhash, Goto, Sync, TypeOK, ControlInv,
       Point, InitPoints, DestroyPoints, TxExitPoints, AttachPoints

LEMMA ClassFreeStep ==
  ASSUME IInv, ClassFree
  PROVE  IInv'
  <1>1. /\ TypeOK /\ ControlInv /\ ContextInv /\ QueueInv /\ ObjectInv
        /\ PathInv /\ HookInv /\ GsoInv /\ ModuleInv
        /\ Default \notin Inst /\ None \notin Inst \cup {Default}
        /\ NumTx \in Nat /\ NumTx > 0 /\ Rx \cap Tx = {}
    BY SMT, LifecycleAssumption DEF IInv
  <1>2. /\ pc = "class_free" /\ Point = "class_free" /\ old \in Inst
        /\ Point' = "tx_exited" /\ cls' = [cls EXCEPT ![old] = "none"]
        /\ assoc' = [assoc EXCEPT ![old] = FALSE] /\ pc' = "tx_exited"
        /\ UNCHANGED <<registered, module, qdisc, queue, active, rx_handler, gso>>
        /\ UNCHANGED <<txc, rxc, qdiscs, prev_gso, vq, txctx_list, rxctx_list>>
        /\ UNCHANGED <<op, new, old, ret, gp, path, ctx>>
        /\ UNCHANGED <<writer, reader, refused, raced>>
    BY <1>1 DEF ClassFree, Goto, PutVq, others, moduleVars, devVars, ctxVars,
       objVars, pathVars, ControlInv, Point, InitPoints, DestroyPoints,
       TxExitPoints, AttachPoints
  <1> USE <1>1, <1>2
  <1>3. TypeOK'
    BY SMT DEF TypeOK, Busy
  <1>4. ControlInv'
    BY DEF TypeOK, ControlInv, InitPoints, DestroyPoints, TxExitPoints,
       AttachPoints, SyncPoints
  <1>5. ContextInv'
    BY DEF TypeOK, ControlInv, ContextInv, InitPoints, DestroyPoints,
       TxExitPoints, AttachPoints, Ending, Live, Gone
  <1>6. QueueInv'
    BY DEF TypeOK, ControlInv, QueueInv, Ending, InitPoints, DestroyPoints,
       TxExitPoints, AttachPoints
  <1>7. ObjectInv'
    BY SMT DEF TypeOK, ControlInv, ObjectInv, Ending, InitPoints,
       DestroyPoints, TxExitPoints, AttachPoints
  <1>8. PathInv'
    BY DEF TypeOK, ControlInv, PathInv, Busy, Ending, InitPoints,
       DestroyPoints, TxExitPoints, AttachPoints
  <1>9. HookInv'
    BY DEF TypeOK, ControlInv, HookInv, Ending, Undoing, InitPoints,
       DestroyPoints, TxExitPoints, AttachPoints
  <1>10. GsoInv'
    BY DEF TypeOK, ControlInv, GsoInv, Ending, Undoing, InitPoints,
       DestroyPoints, TxExitPoints, AttachPoints
  <1>11. ModuleInv'
    BY DEF ModuleInv
  <1> QED
    BY <1>3, <1>4, <1>5, <1>6, <1>7, <1>8, <1>9, <1>10, <1>11 DEF IInv

LEMMA TxExitedStep ==
  ASSUME IInv, TxExited
  PROVE  IInv'
  <1>1. /\ TypeOK /\ ControlInv /\ ContextInv /\ QueueInv /\ ObjectInv
        /\ PathInv /\ HookInv /\ GsoInv /\ ModuleInv
        /\ Default \notin Inst /\ None \notin Inst \cup {Default}
        /\ NumTx \in Nat /\ NumTx > 0 /\ Rx \cap Tx = {}
    BY SMT, LifecycleAssumption DEF IInv
  <1>2. /\ pc = "tx_exited" /\ Point = "tx_exited" /\ old \in Inst
        /\ Point' = "rx_exit" /\ gso' = prev_gso[old] /\ pc' = "rx_exit"
        /\ UNCHANGED <<registered, module, qdisc, queue, active, rx_handler, txc>>
        /\ UNCHANGED <<rxc, qdiscs, prev_gso, cls, vq, assoc, txctx_list>>
        /\ UNCHANGED <<rxctx_list, op, new, old, ret, gp, path>>
        /\ UNCHANGED <<ctx, writer, reader, refused, raced>>
    BY <1>1 DEF TxExited, Goto, RestoredGso, others, moduleVars, devVars,
       ctxVars, objVars, pathVars, ControlInv, Point, InitPoints,
       DestroyPoints, TxExitPoints, AttachPoints
  <1> USE <1>1, <1>2
  <1>3. TypeOK'
    BY SMT DEF TypeOK, Busy
  <1>4. ControlInv'
    BY DEF TypeOK, ControlInv, InitPoints, DestroyPoints, TxExitPoints,
       AttachPoints, SyncPoints
  <1>5. ContextInv'
    BY DEF TypeOK, ControlInv, ContextInv, InitPoints, DestroyPoints,
       TxExitPoints, AttachPoints, Ending, Live, Gone
  <1>6. QueueInv'
    BY DEF TypeOK, ControlInv, QueueInv, Ending, InitPoints, DestroyPoints,
       TxExitPoints, AttachPoints
  <1>7. ObjectInv'
    BY SMT DEF TypeOK, ControlInv, ObjectInv, Ending, InitPoints,
       DestroyPoints, TxExitPoints, AttachPoints
  <1>8. PathInv'
    BY DEF TypeOK, ControlInv, PathInv, Busy, Ending, InitPoints,
       DestroyPoints, TxExitPoints, AttachPoints
  <1>9. HookInv'
    BY DEF TypeOK, ControlInv, HookInv, Ending, Undoing, InitPoints,
       DestroyPoints, TxExitPoints, AttachPoints, ContextInv, Live
  <1>10. GsoInv'
    BY DEF TypeOK, ControlInv, GsoInv, Ending, Undoing, InitPoints,
       DestroyPoints, TxExitPoints, AttachPoints, ContextInv, HookInv, Live
  <1>11. ModuleInv'
    BY DEF ModuleInv
  <1> QED
    BY <1>3, <1>4, <1>5, <1>6, <1>7, <1>8, <1>9, <1>10, <1>11 DEF IInv

LEMMA RxExitStep ==
  ASSUME IInv, iso_rx_exit
  PROVE  IInv'
  <1>1. /\ TypeOK /\ ControlInv /\ ContextInv /\ QueueInv /\ ObjectInv
        /\ PathInv /\ HookInv /\ GsoInv /\ ModuleInv
        /\ Default \notin Inst /\ None \notin Inst \cup {Default}
        /\ NumTx \in Nat /\ NumTx > 0 /\ Rx \cap Tx = {}
    BY SMT, LifecycleAssumption DEF IInv
  <1>2. CASE rxc[old] = "none"
    <2>1. /\ rxc[old] = "none" /\ pc = "rx_exit" /\ Point = "rx_exit"
          /\ old \in Inst /\ Point' = "release"
          /\ rxctx_list' = rxctx_list \ {old} /\ pc' = "release"
          /\ UNCHANGED <<registered, module, qdisc, queue, active, rx_handler, gso>>
          /\ UNCHANGED <<txc, rxc, qdiscs, prev_gso, cls, vq, assoc>>
          /\ UNCHANGED <<txctx_list, op, new, old, ret, gp, path>>
          /\ UNCHANGED <<ctx, writer, reader, refused, raced>>
      BY <1>1, <1>2 DEF iso_rx_exit, Goto, Sync, others, moduleVars, devVars,
         ctxVars, objVars, pathVars, ControlInv, Point, InitPoints,
         DestroyPoints, TxExitPoints, AttachPoints
    <2> USE <1>1, <2>1
    <2>2. TypeOK'
      BY SMT DEF TypeOK, Busy
    <2>3. ControlInv'
      BY DEF TypeOK, ControlInv, InitPoints, DestroyPoints, TxExitPoints,
         AttachPoints, SyncPoints
    <2>4. ContextInv'
      BY DEF TypeOK, ControlInv, ContextInv, InitPoints, DestroyPoints,
         TxExitPoints, AttachPoints, Ending, Live, Gone
    <2>5. QueueInv'
      BY DEF TypeOK, ControlInv, QueueInv, Ending, InitPoints, DestroyPoints,
         TxExitPoints, AttachPoints
    <2>6. ObjectInv'
      BY SMT DEF TypeOK, ControlInv, ObjectInv, Ending, InitPoints,
         DestroyPoints, TxExitPoints, AttachPoints, ContextInv, Live
    <2>7. PathInv'
      BY SMT DEF TypeOK, ControlInv, PathInv, Busy, Ending, InitPoints,
         DestroyPoints, TxExitPoints, AttachPoints, ContextInv, Live
    <2>8. HookInv'
      BY DEF TypeOK, ControlInv, HookInv, Ending, Undoing, InitPoints,
         DestroyPoints, TxExitPoints, AttachPoints, ContextInv, Live
    <2>9. GsoInv'
      BY DEF TypeOK, ControlInv, GsoInv, Ending, Undoing, InitPoints,
         DestroyPoints, TxExitPoints, AttachPoints, ContextInv, HookInv, Live
    <2>10. ModuleInv'
      BY DEF ModuleInv
    <2> QED
      BY <2>2, <2>3, <2>4, <2>5, <2>6, <2>7, <2>8, <2>9, <2>10 DEF IInv
  <1>3. CASE rxc[old] = "zeroed"
    <2>1. /\ rxc[old] = "zeroed" /\ pc = "rx_exit" /\ Point = "rx_exit"
          /\ old \in Inst /\ Point' = "oops"
          /\ rxctx_list' = rxctx_list \ {old} /\ pc' = "oops"
          /\ UNCHANGED <<registered, module, qdisc, queue, active, rx_handler, gso>>
          /\ UNCHANGED <<txc, rxc, qdiscs, prev_gso, cls, vq, assoc>>
          /\ UNCHANGED <<txctx_list, op, new, old, ret, gp, path>>
          /\ UNCHANGED <<ctx, writer, reader, refused, raced>>
      BY <1>1, <1>3 DEF iso_rx_exit, Goto, Sync, others, moduleVars, devVars,
         ctxVars, objVars, pathVars, ControlInv, Point, InitPoints,
         DestroyPoints, TxExitPoints, AttachPoints
    <2> USE <1>1, <2>1
    <2>2. TypeOK'
      BY SMT DEF TypeOK, Busy
    <2>3. ControlInv'
      BY DEF TypeOK, ControlInv, InitPoints, DestroyPoints, TxExitPoints,
         AttachPoints, SyncPoints
    <2>4. ContextInv'
      BY DEF TypeOK, ControlInv, ContextInv, InitPoints, DestroyPoints,
         TxExitPoints, AttachPoints, Ending, Live, Gone
    <2>5. QueueInv'
      BY DEF TypeOK, ControlInv, QueueInv, Ending, InitPoints, DestroyPoints,
         TxExitPoints, AttachPoints
    <2>6. ObjectInv'
      BY SMT DEF TypeOK, ControlInv, ObjectInv, Ending, InitPoints,
         DestroyPoints, TxExitPoints, AttachPoints
    <2>7. PathInv'
      BY DEF TypeOK, ControlInv, PathInv, Busy, Ending, InitPoints,
         DestroyPoints, TxExitPoints, AttachPoints
    <2>8. HookInv'
      BY DEF TypeOK, ControlInv, HookInv, Ending, Undoing, InitPoints,
         DestroyPoints, TxExitPoints, AttachPoints
    <2>9. GsoInv'
      BY DEF TypeOK, ControlInv, GsoInv, Ending, Undoing, InitPoints,
         DestroyPoints, TxExitPoints, AttachPoints
    <2>10. ModuleInv'
      BY DEF ModuleInv
    <2> QED
      BY <2>2, <2>3, <2>4, <2>5, <2>6, <2>7, <2>8, <2>9, <2>10 DEF IInv
  <1>4. CASE rxc[old] = "live" /\ vq[old] = "live" /\ ~assoc[old]
    <2>1. /\ rxc[old] = "live" /\ vq[old] = "live" /\ ~assoc[old]
          /\ pc = "rx_exit" /\ Point = "rx_exit" /\ old \in Inst
          /\ Point' = "vq_free" /\ rxctx_list' = rxctx_list \ {old}
          /\ pc' = "sync"
          /\ ret' = [sync |-> "vq_free", destroy |-> ret.destroy]
          /\ gp' = Busy
          /\ UNCHANGED <<registered, module, qdisc, queue, active, rx_handler, gso>>
          /\ UNCHANGED <<txc, rxc, qdiscs, prev_gso, cls, vq, assoc>>
          /\ UNCHANGED <<txctx_list, op, new, old, path, ctx, writer>>
          /\ UNCHANGED <<reader, refused, raced>>
      BY <1>1, <1>4 DEF iso_rx_exit, Goto, Sync, others, moduleVars, devVars,
         ctxVars, objVars, pathVars, ControlInv, Point, InitPoints,
         DestroyPoints, TxExitPoints, AttachPoints
    <2> USE <1>1, <2>1
    <2>2. TypeOK'
      BY SMT DEF TypeOK, Busy
    <2>3. ControlInv'
      BY DEF TypeOK, ControlInv, InitPoints, DestroyPoints, TxExitPoints,
         AttachPoints, SyncPoints
    <2>4. ContextInv'
      BY DEF TypeOK, ControlInv, ContextInv, InitPoints, DestroyPoints,
         TxExitPoints, AttachPoints, Ending, Live, Gone
    <2>5. QueueInv'
      BY DEF TypeOK, ControlInv, QueueInv, Ending, InitPoints, DestroyPoints,
         TxExitPoints, AttachPoints
    <2>6. ObjectInv'
      BY SMT DEF TypeOK, ControlInv, ObjectInv, Ending, InitPoints,
         DestroyPoints, TxExitPoints, AttachPoints
    <2>7. PathInv'
      BY SMT DEF TypeOK, ControlInv, PathInv, Busy, Ending, InitPoints,
         DestroyPoints, TxExitPoints, AttachPoints
    <2>8. HookInv'
      BY DEF TypeOK, ControlInv, HookInv, Ending, Undoing, InitPoints,
         DestroyPoints, TxExitPoints, AttachPoints
    <2>9. GsoInv'
      BY DEF TypeOK, ControlInv, GsoInv, Ending, Undoing, InitPoints,
         DestroyPoints, TxExitPoints, AttachPoints
    <2>10. ModuleInv'
      BY DEF ModuleInv
    <2> QED
      BY <2>2, <2>3, <2>4, <2>5, <2>6, <2>7, <2>8, <2>9, <2>10 DEF IInv
  <1>5. CASE rxc[old] = "live" /\ ~(vq[old] = "live" /\ ~assoc[old])
    <2>1. /\ rxc[old] = "live" /\ ~(vq[old] = "live" /\ ~assoc[old])
          /\ pc = "rx_exit" /\ Point = "rx_exit" /\ old \in Inst
          /\ Point' = "unhook" /\ rxctx_list' = rxctx_list \ {old}
          /\ pc' = "unhook"
          /\ UNCHANGED <<registered, module, qdisc, queue, active, rx_handler, gso>>
          /\ UNCHANGED <<txc, rxc, qdiscs, prev_gso, cls, vq, assoc>>
          /\ UNCHANGED <<txctx_list, op, new, old, ret, gp, path>>
          /\ UNCHANGED <<ctx, writer, reader, refused, raced>>
      BY <1>1, <1>5 DEF iso_rx_exit, Goto, Sync, others, moduleVars, devVars,
         ctxVars, objVars, pathVars, ControlInv, Point, InitPoints,
         DestroyPoints, TxExitPoints, AttachPoints
    <2> USE <1>1, <2>1
    <2>2. TypeOK'
      BY SMT DEF TypeOK, Busy
    <2>3. ControlInv'
      BY DEF TypeOK, ControlInv, InitPoints, DestroyPoints, TxExitPoints,
         AttachPoints, SyncPoints
    <2>4. ContextInv'
      BY DEF TypeOK, ControlInv, ContextInv, InitPoints, DestroyPoints,
         TxExitPoints, AttachPoints, Ending, Live, Gone
    <2>5. QueueInv'
      BY DEF TypeOK, ControlInv, QueueInv, Ending, InitPoints, DestroyPoints,
         TxExitPoints, AttachPoints
    <2>6. ObjectInv'
      BY SMT DEF TypeOK, ControlInv, ObjectInv, Ending, InitPoints,
         DestroyPoints, TxExitPoints, AttachPoints
    <2>7. PathInv'
      BY DEF TypeOK, ControlInv, PathInv, Busy, Ending, InitPoints,
         DestroyPoints, TxExitPoints, AttachPoints
    <2>8. HookInv'
      BY DEF TypeOK, ControlInv, HookInv, Ending, Undoing, InitPoints,
         DestroyPoints, TxExitPoints, AttachPoints
    <2>9. GsoInv'
      BY DEF TypeOK, ControlInv, GsoInv, Ending, Undoing, InitPoints,
         DestroyPoints, TxExitPoints, AttachPoints
    <2>10. ModuleInv'
      BY DEF ModuleInv
    <2> QED
      BY <2>2, <2>3, <2>4, <2>5, <2>6, <2>7, <2>8, <2>9, <2>10 DEF IInv
  <1> QED
    BY <1>1, <1>2, <1>3, <1>4, <1>5 DEF iso_rx_exit, Goto, Sync, TypeOK,
       ControlInv, Point, InitPoints, DestroyPoints, TxExitPoints,
       AttachPoints

LEMMA VqFreeStep ==
  ASSUME IInv, VqFree
  PROVE  IInv'
  <1>1. /\ TypeOK /\ ControlInv /\ ContextInv /\ QueueInv /\ ObjectInv
        /\ PathInv /\ HookInv /\ GsoInv /\ ModuleInv
        /\ Default \notin Inst /\ None \notin Inst \cup {Default}
        /\ NumTx \in Nat /\ NumTx > 0 /\ Rx \cap Tx = {}
    BY SMT, LifecycleAssumption DEF IInv
  <1>2. /\ pc = "vq_free" /\ Point = "vq_free" /\ old \in Inst
        /\ Point' = "unhook" /\ vq' = [vq EXCEPT ![old] = "none"]
        /\ pc' = "unhook"
        /\ UNCHANGED <<registered, module, qdisc, queue, active, rx_handler, gso>>
        /\ UNCHANGED <<txc, rxc, qdiscs, prev_gso, cls, assoc, txctx_list>>
        /\ UNCHANGED <<rxctx_list, op, new, old, ret, gp, path>>
        /\ UNCHANGED <<ctx, writer, reader, refused, raced>>
    BY <1>1 DEF VqFree, Goto, others, moduleVars, devVars, ctxVars, objVars,
       pathVars, ControlInv, Point, InitPoints, DestroyPoints, TxExitPoints,
       AttachPoints
  <1> USE <1>1, <1>2
  <1>3. TypeOK'
    BY SMT DEF TypeOK, Busy
  <1>4. ControlInv'
    BY DEF TypeOK, ControlInv, InitPoints, DestroyPoints, TxExitPoints,
       AttachPoints, SyncPoints
  <1>5. ContextInv'
    BY DEF TypeOK, ControlInv, ContextInv, InitPoints, DestroyPoints,
       TxExitPoints, AttachPoints, Ending, Live, Gone
  <1>6. QueueInv'
    BY DEF TypeOK, ControlInv, QueueInv, Ending, InitPoints, DestroyPoints,
       TxExitPoints, AttachPoints
  <1>7. ObjectInv'
    BY SMT DEF TypeOK, ControlInv, ObjectInv, Ending, InitPoints,
       DestroyPoints, TxExitPoints, AttachPoints
  <1>8. PathInv'
    BY DEF TypeOK, ControlInv, PathInv, Busy, Ending, InitPoints,
       DestroyPoints, TxExitPoints, AttachPoints
  <1>9. HookInv'
    BY DEF TypeOK, ControlInv, HookInv, Ending, Undoing, InitPoints,
       DestroyPoints, TxExitPoints, AttachPoints
  <1>10. GsoInv'
    BY DEF TypeOK, ControlInv, GsoInv, Ending, Undoing, InitPoints,
       DestroyPoints, TxExitPoints, AttachPoints
  <1>11. ModuleInv'
    BY DEF ModuleInv
  <1> QED
    BY <1>3, <1>4, <1>5, <1>6, <1>7, <1>8, <1>9, <1>10, <1>11 DEF IInv

LEMMA RxHookExitStep ==
  ASSUME IInv, iso_rx_hook_exit
  PROVE  IInv'
  <1>1. /\ TypeOK /\ ControlInv /\ ContextInv /\ QueueInv /\ ObjectInv
        /\ PathInv /\ HookInv /\ GsoInv /\ ModuleInv
        /\ Default \notin Inst /\ None \notin Inst \cup {Default}
        /\ NumTx \in Nat /\ NumTx > 0 /\ Rx \cap Tx = {}
    BY SMT, LifecycleAssumption DEF IInv
  <1>2. /\ pc = "unhook" /\ Point = "unhook" /\ old \in Inst
        /\ Point' = "release" /\ rx_handler' = FALSE /\ pc' = "sync"
        /\ ret' = [sync |-> "release", destroy |-> ret.destroy]
        /\ gp' = Busy
        /\ UNCHANGED <<registered, module, qdisc, queue, active, gso, txc>>
        /\ UNCHANGED <<rxc, qdiscs, prev_gso, cls, vq, assoc, txctx_list>>
        /\ UNCHANGED <<rxctx_list, op, new, old, path, ctx, writer>>
        /\ UNCHANGED <<reader, refused, raced>>
    BY <1>1 DEF iso_rx_hook_exit, UnhookWait, Sync, others, moduleVars,
       devVars, ctxVars, objVars, pathVars, ControlInv, Point, InitPoints,
       DestroyPoints, TxExitPoints, AttachPoints
  <1> USE <1>1, <1>2
  <1>3. TypeOK'
    <2>1. gp' \subseteq Rx \cup Tx /\ rx_handler' \in BOOLEAN
      BY <1>2 DEF Busy
    <2> QED
      BY SMT, <1>1, <1>2, <2>1 DEF TypeOK
  <1>4. ControlInv'
    BY DEF TypeOK, ControlInv, InitPoints, DestroyPoints, TxExitPoints,
       AttachPoints, SyncPoints
  <1>5. ContextInv'
    BY DEF TypeOK, ControlInv, ContextInv, InitPoints, DestroyPoints,
       TxExitPoints, AttachPoints, Ending, Live, Gone
  <1>6. QueueInv'
    BY DEF TypeOK, ControlInv, QueueInv, Ending, InitPoints, DestroyPoints,
       TxExitPoints, AttachPoints
  <1>7. ObjectInv'
    BY DEF TypeOK, ControlInv, ObjectInv, Ending, InitPoints,
       DestroyPoints, TxExitPoints, AttachPoints
  <1>8. PathInv'
    BY DEF TypeOK, ControlInv, PathInv, Busy, Ending, InitPoints,
       DestroyPoints, TxExitPoints, AttachPoints
  <1>9. HookInv'
    BY DEF TypeOK, ControlInv, HookInv, Ending, Undoing, InitPoints,
       DestroyPoints, TxExitPoints, AttachPoints, ContextInv, Live
  <1>10. GsoInv'
    BY DEF TypeOK, ControlInv, GsoInv, Ending, Undoing, InitPoints,
       DestroyPoints, TxExitPoints, AttachPoints, ContextInv, HookInv, Live
  <1>11. ModuleInv'
    BY DEF ModuleInv
  <1> QED
    BY <1>3, <1>4, <1>5, <1>6, <1>7, <1>8, <1>9, <1>10, <1>11 DEF IInv

LEMMA ReleaseStep ==
  ASSUME IInv, Release
  PROVE  IInv'
  <1>1. /\ TypeOK /\ ControlInv /\ ContextInv /\ QueueInv /\ ObjectInv
        /\ PathInv /\ HookInv /\ GsoInv /\ ModuleInv
        /\ Default \notin Inst /\ None \notin Inst \cup {Default}
        /\ NumTx \in Nat /\ NumTx > 0 /\ Rx \cap Tx = {}
    BY SMT, LifecycleAssumption DEF IInv
  <1>2. CASE ret.destroy = "fail"
    <2>1. /\ ret.destroy = "fail" /\ pc = "release" /\ Point = "release"
          /\ old \in Inst /\ Point' = "fail"
          /\ txc' = [txc EXCEPT ![old] = "none"]
          /\ rxc' = [rxc EXCEPT ![old] = "none"]
          /\ qdiscs' = [qdiscs EXCEPT ![old] = -1]
          /\ prev_gso' = [prev_gso EXCEPT ![old] = "driver"] /\ pc' = "fail"
          /\ old' = None /\ ret' = [sync |-> ret.sync, destroy |-> "free"]
          /\ UNCHANGED <<registered, module, qdisc, queue, active, rx_handler, gso>>
          /\ UNCHANGED <<cls, vq, assoc, txctx_list, rxctx_list, op, new>>
          /\ UNCHANGED <<gp, path, ctx, writer, reader, refused, raced>>
      BY <1>1, <1>2 DEF Release, others, moduleVars, devVars, ctxVars,
         objVars, pathVars, ControlInv, Point, InitPoints, DestroyPoints,
         TxExitPoints, AttachPoints
    <2> USE <1>1, <2>1
    <2>2. TypeOK'
      BY SMT DEF TypeOK, Busy
    <2>3. ControlInv'
      BY DEF TypeOK, ControlInv, InitPoints, DestroyPoints, TxExitPoints,
         AttachPoints, SyncPoints
    <2>4. ContextInv'
      BY SMT DEF TypeOK, ControlInv, ContextInv, InitPoints, DestroyPoints,
         TxExitPoints, AttachPoints, Ending, Live, Gone
    <2>5. QueueInv'
      BY DEF TypeOK, ControlInv, QueueInv, Ending, InitPoints, DestroyPoints,
         TxExitPoints, AttachPoints
    <2>6. ObjectInv'
      BY DEF TypeOK, ControlInv, ObjectInv, Ending, InitPoints,
         DestroyPoints, TxExitPoints, AttachPoints
    <2>7. PathInv'
      BY DEF TypeOK, ControlInv, PathInv, Busy, Ending, InitPoints,
         DestroyPoints, TxExitPoints, AttachPoints
    <2>8. HookInv'
      BY DEF TypeOK, ControlInv, HookInv, Ending, Undoing, InitPoints,
         DestroyPoints, TxExitPoints, AttachPoints, ContextInv, Live
    <2>9. GsoInv'
      BY DEF TypeOK, ControlInv, GsoInv, Ending, Undoing, InitPoints,
         DestroyPoints, TxExitPoints, AttachPoints, ContextInv, HookInv, Live
    <2>10. ModuleInv'
      BY DEF ModuleInv
    <2> QED
      BY <2>2, <2>3, <2>4, <2>5, <2>6, <2>7, <2>8, <2>9, <2>10 DEF IInv
  <1>3. CASE ret.destroy = "swap"
    <2>1. /\ ret.destroy = "swap" /\ pc = "release" /\ Point = "release"
          /\ old \in Inst /\ Point' = "swap"
          /\ txc' = [txc EXCEPT ![old] = "none"]
          /\ rxc' = [rxc EXCEPT ![old] = "none"]
          /\ qdiscs' = [qdiscs EXCEPT ![old] = -1]
          /\ prev_gso' = [prev_gso EXCEPT ![old] = "driver"] /\ pc' = "swap"
          /\ old' = None /\ ret' = [sync |-> ret.sync, destroy |-> "free"]
          /\ UNCHANGED <<registered, module, qdisc, queue, active, rx_handler, gso>>
          /\ UNCHANGED <<cls, vq, assoc, txctx_list, rxctx_list, op, new>>
          /\ UNCHANGED <<gp, path, ctx, writer, reader, refused, raced>>
      BY <1>1, <1>3 DEF Release, others, moduleVars, devVars, ctxVars,
         objVars, pathVars, ControlInv, Point, InitPoints, DestroyPoints,
         TxExitPoints, AttachPoints
    <2> USE <1>1, <2>1
    <2>2. TypeOK'
      BY SMT DEF TypeOK, Busy
    <2>3. ControlInv'
      BY DEF TypeOK, ControlInv, InitPoints, DestroyPoints, TxExitPoints,
         AttachPoints, SyncPoints
    <2>4. ContextInv'
      BY SMT DEF TypeOK, ControlInv, ContextInv, InitPoints, DestroyPoints,
         TxExitPoints, AttachPoints, Ending, Live, Gone
    <2>5. QueueInv'
      BY DEF TypeOK, ControlInv, QueueInv, Ending, InitPoints, DestroyPoints,
         TxExitPoints, AttachPoints
    <2>6. ObjectInv'
      BY SMT DEF TypeOK, ControlInv, ObjectInv, Ending, InitPoints,
         DestroyPoints, TxExitPoints, AttachPoints
    <2>7. PathInv'
      BY DEF TypeOK, ControlInv, PathInv, Busy, Ending, InitPoints,
         DestroyPoints, TxExitPoints, AttachPoints
    <2>8. HookInv'
      BY DEF TypeOK, ControlInv, HookInv, Ending, Undoing, InitPoints,
         DestroyPoints, TxExitPoints, AttachPoints
    <2>9. GsoInv'
      BY DEF TypeOK, ControlInv, GsoInv, Ending, Undoing, InitPoints,
         DestroyPoints, TxExitPoints, AttachPoints, HookInv
    <2>10. ModuleInv'
      BY DEF ModuleInv
    <2> QED
      BY <2>2, <2>3, <2>4, <2>5, <2>6, <2>7, <2>8, <2>9, <2>10 DEF IInv
  <1> QED
    BY <1>1, <1>2, <1>3 DEF Release, TypeOK, ControlInv, Point, InitPoints,
       DestroyPoints, TxExitPoints, AttachPoints

LEMMA DeactivateStep ==
  ASSUME IInv, Deactivate
  PROVE  IInv'
  <1>1. /\ TypeOK /\ ControlInv /\ ContextInv /\ QueueInv /\ ObjectInv
        /\ PathInv /\ HookInv /\ GsoInv /\ ModuleInv
        /\ Default \notin Inst /\ None \notin Inst \cup {Default}
        /\ NumTx \in Nat /\ NumTx > 0 /\ Rx \cap Tx = {}
    BY SMT, LifecycleAssumption DEF IInv
  <1>2. CASE op = "replace"
    <2>1. /\ op = "replace" /\ pc = "deactivate" /\ Point = "deactivate"
          /\ Point' = "replace" /\ active' = FALSE /\ pc' = "sync"
          /\ ret' = [sync |-> "replace", destroy |-> ret.destroy]
          /\ gp' = Busy
          /\ UNCHANGED <<registered, module, qdisc, queue, rx_handler, gso, txc>>
          /\ UNCHANGED <<rxc, qdiscs, prev_gso, cls, vq, assoc, txctx_list>>
          /\ UNCHANGED <<rxctx_list, op, new, old, path, ctx, writer>>
          /\ UNCHANGED <<reader, refused, raced>>
      BY <1>1, <1>2 DEF Deactivate, Sync, others, moduleVars, devVars,
         ctxVars, objVars, pathVars, ControlInv, Point, InitPoints,
         DestroyPoints, TxExitPoints, AttachPoints
    <2> USE <1>1, <2>1
    <2>2. TypeOK'
      BY BusyType DEF TypeOK
    <2>3. ControlInv'
      BY DEF TypeOK, ControlInv, InitPoints, DestroyPoints, TxExitPoints,
         AttachPoints, SyncPoints
    <2>4. ContextInv'
      BY DEF TypeOK, ControlInv, ContextInv, InitPoints, DestroyPoints,
         TxExitPoints, AttachPoints, Ending, Live, Gone
    <2>5. QueueInv'
      BY DEF TypeOK, ControlInv, QueueInv, Ending, InitPoints, DestroyPoints,
         TxExitPoints, AttachPoints
    <2>6. ObjectInv'
      BY SMT DEF TypeOK, ControlInv, ObjectInv, Ending, InitPoints,
         DestroyPoints, TxExitPoints, AttachPoints
    <2>7. PathInv'
      BY DEF TypeOK, ControlInv, PathInv, Busy, Ending, InitPoints,
         DestroyPoints, TxExitPoints, AttachPoints
    <2>8. HookInv'
      BY DEF TypeOK, ControlInv, HookInv, Ending, Undoing, InitPoints,
         DestroyPoints, TxExitPoints, AttachPoints
    <2>9. GsoInv'
      BY DEF TypeOK, ControlInv, GsoInv, Ending, Undoing, InitPoints,
         DestroyPoints, TxExitPoints, AttachPoints
    <2>10. ModuleInv'
      BY DEF ModuleInv
    <2> QED
      BY <2>2, <2>3, <2>4, <2>5, <2>6, <2>7, <2>8, <2>9, <2>10 DEF IInv
  <1>3. CASE op = "delete"
    <2>1. /\ op = "delete" /\ pc = "deactivate" /\ Point = "deactivate"
          /\ Point' = "delete" /\ active' = FALSE /\ pc' = "sync"
          /\ ret' = [sync |-> "delete", destroy |-> ret.destroy]
          /\ gp' = Busy
          /\ UNCHANGED <<registered, module, qdisc, queue, rx_handler, gso, txc>>
          /\ UNCHANGED <<rxc, qdiscs, prev_gso, cls, vq, assoc, txctx_list>>
          /\ UNCHANGED <<rxctx_list, op, new, old, path, ctx, writer>>
          /\ UNCHANGED <<reader, refused, raced>>
      BY <1>1, <1>3 DEF Deactivate, Sync, others, moduleVars, devVars,
         ctxVars, objVars, pathVars, ControlInv, Point, InitPoints,
         DestroyPoints, TxExitPoints, AttachPoints
    <2> USE <1>1, <2>1
    <2>2. TypeOK'
      BY BusyType DEF TypeOK
    <2>3. ControlInv'
      BY DEF TypeOK, ControlInv, InitPoints, DestroyPoints, TxExitPoints,
         AttachPoints, SyncPoints
    <2>4. ContextInv'
      BY DEF TypeOK, ControlInv, ContextInv, InitPoints, DestroyPoints,
         TxExitPoints, AttachPoints, Ending, Live, Gone
    <2>5. QueueInv'
      BY DEF TypeOK, ControlInv, QueueInv, Ending, InitPoints, DestroyPoints,
         TxExitPoints, AttachPoints
    <2>6. ObjectInv'
      BY SMT DEF TypeOK, ControlInv, ObjectInv, Ending, InitPoints,
         DestroyPoints, TxExitPoints, AttachPoints
    <2>7. PathInv'
      BY DEF TypeOK, ControlInv, PathInv, Busy, Ending, InitPoints,
         DestroyPoints, TxExitPoints, AttachPoints
    <2>8. HookInv'
      BY DEF TypeOK, ControlInv, HookInv, Ending, Undoing, InitPoints,
         DestroyPoints, TxExitPoints, AttachPoints
    <2>9. GsoInv'
      BY DEF TypeOK, ControlInv, GsoInv, Ending, Undoing, InitPoints,
         DestroyPoints, TxExitPoints, AttachPoints
    <2>10. ModuleInv'
      BY DEF ModuleInv
    <2> QED
      BY <2>2, <2>3, <2>4, <2>5, <2>6, <2>7, <2>8, <2>9, <2>10 DEF IInv
  <1>4. CASE op = "graft"
    <2>1. /\ op = "graft" /\ pc = "deactivate" /\ Point = "deactivate"
          /\ Point' = "graft" /\ active' = FALSE /\ pc' = "sync"
          /\ ret' = [sync |-> "graft", destroy |-> ret.destroy]
          /\ gp' = Busy
          /\ UNCHANGED <<registered, module, qdisc, queue, rx_handler, gso, txc>>
          /\ UNCHANGED <<rxc, qdiscs, prev_gso, cls, vq, assoc, txctx_list>>
          /\ UNCHANGED <<rxctx_list, op, new, old, path, ctx, writer>>
          /\ UNCHANGED <<reader, refused, raced>>
      BY <1>1, <1>4 DEF Deactivate, Sync, others, moduleVars, devVars,
         ctxVars, objVars, pathVars, ControlInv, Point, InitPoints,
         DestroyPoints, TxExitPoints, AttachPoints
    <2> USE <1>1, <2>1
    <2>2. TypeOK'
      BY BusyType DEF TypeOK
    <2>3. ControlInv'
      BY DEF TypeOK, ControlInv, InitPoints, DestroyPoints, TxExitPoints,
         AttachPoints, SyncPoints
    <2>4. ContextInv'
      BY DEF TypeOK, ControlInv, ContextInv, InitPoints, DestroyPoints,
         TxExitPoints, AttachPoints, Ending, Live, Gone
    <2>5. QueueInv'
      BY DEF TypeOK, ControlInv, QueueInv, Ending, InitPoints, DestroyPoints,
         TxExitPoints, AttachPoints
    <2>6. ObjectInv'
      BY DEF TypeOK, ControlInv, ObjectInv, Ending, InitPoints,
         DestroyPoints, TxExitPoints, AttachPoints
    <2>7. PathInv'
      BY DEF TypeOK, ControlInv, PathInv, Busy, Ending, InitPoints,
         DestroyPoints, TxExitPoints, AttachPoints
    <2>8. HookInv'
      BY DEF TypeOK, ControlInv, HookInv, Ending, Undoing, InitPoints,
         DestroyPoints, TxExitPoints, AttachPoints
    <2>9. GsoInv'
      BY DEF TypeOK, ControlInv, GsoInv, Ending, Undoing, InitPoints,
         DestroyPoints, TxExitPoints, AttachPoints
    <2>10. ModuleInv'
      BY DEF ModuleInv
    <2> QED
      BY <2>2, <2>3, <2>4, <2>5, <2>6, <2>7, <2>8, <2>9, <2>10 DEF IInv
  <1> QED
    BY <1>1, <1>2, <1>3, <1>4 DEF Deactivate, Sync, TypeOK, ControlInv, Point,
       InitPoints, DestroyPoints, TxExitPoints, AttachPoints

LEMMA AttachStep ==
  ASSUME IInv, mq_attach
  PROVE  IInv'
  <1>1. /\ TypeOK /\ ControlInv /\ ContextInv /\ QueueInv /\ ObjectInv
        /\ PathInv /\ HookInv /\ GsoInv /\ ModuleInv
        /\ Default \notin Inst /\ None \notin Inst \cup {Default}
        /\ NumTx \in Nat /\ NumTx > 0 /\ Rx \cap Tx = {}
    BY SMT, LifecycleAssumption DEF IInv
  <1>2. CASE qdisc \in Inst
    <2>1. /\ qdisc \in Inst /\ pc = "replace" /\ Point = "replace"
          /\ new \in Inst /\ new # qdisc /\ Point' = "tx_exit"
          /\ queue' = [n \in Queue |-> new]
          /\ qdiscs' = [qdiscs EXCEPT ![new] = -1] /\ pc' = "tx_exit"
          /\ old' = qdisc /\ ret' = [sync |-> ret.sync, destroy |-> "swap"]
          /\ UNCHANGED <<registered, module, qdisc, active, rx_handler, gso, txc>>
          /\ UNCHANGED <<rxc, prev_gso, cls, vq, assoc, txctx_list, rxctx_list>>
          /\ UNCHANGED <<op, new, gp, path, ctx, writer, reader>>
          /\ UNCHANGED <<refused, raced>>
      BY <1>1, <1>2 DEF mq_attach, Goto, Destroy, others, moduleVars, devVars,
         ctxVars, objVars, pathVars, ControlInv, Point, InitPoints,
         DestroyPoints, TxExitPoints, AttachPoints
    <2> USE <1>1, <2>1
    <2>2. TypeOK'
      BY SMT DEF TypeOK, Busy
    <2>3. ControlInv'
      BY DEF TypeOK, ControlInv, InitPoints, DestroyPoints, TxExitPoints,
         AttachPoints, SyncPoints
    <2>4. ContextInv'
      BY SMT DEF TypeOK, ControlInv, ContextInv, InitPoints, DestroyPoints,
         TxExitPoints, AttachPoints, Ending, Live, Gone
    <2>5. QueueInv'
      BY DEF TypeOK, ControlInv, QueueInv, Ending, InitPoints, DestroyPoints,
         TxExitPoints, AttachPoints
    <2>6. ObjectInv'
      BY DEF TypeOK, ControlInv, ObjectInv, Ending, InitPoints,
         DestroyPoints, TxExitPoints, AttachPoints
    <2>7. PathInv'
      BY DEF TypeOK, ControlInv, PathInv, Busy, Ending, InitPoints,
         DestroyPoints, TxExitPoints, AttachPoints
    <2>8. HookInv'
      BY DEF TypeOK, ControlInv, HookInv, Ending, Undoing, InitPoints,
         DestroyPoints, TxExitPoints, AttachPoints
    <2>9. GsoInv'
      BY DEF TypeOK, ControlInv, GsoInv, Ending, Undoing, InitPoints,
         DestroyPoints, TxExitPoints, AttachPoints
    <2>10. ModuleInv'
      BY DEF ModuleInv
    <2> QED
      BY <2>2, <2>3, <2>4, <2>5, <2>6, <2>7, <2>8, <2>9, <2>10 DEF IInv
  <1>3. CASE qdisc \notin Inst
    <2>1. /\ qdisc \notin Inst /\ pc = "replace" /\ Point = "replace"
          /\ new \in Inst /\ new # qdisc /\ Point' = "swap"
          /\ queue' = [n \in Queue |-> new]
          /\ qdiscs' = [qdiscs EXCEPT ![new] = -1] /\ pc' = "swap"
          /\ UNCHANGED <<registered, module, qdisc, active, rx_handler, gso, txc>>
          /\ UNCHANGED <<rxc, prev_gso, cls, vq, assoc, txctx_list, rxctx_list>>
          /\ UNCHANGED <<op, new, old, ret, gp, path, ctx>>
          /\ UNCHANGED <<writer, reader, refused, raced>>
      BY <1>1, <1>3 DEF mq_attach, Goto, Destroy, others, moduleVars, devVars,
         ctxVars, objVars, pathVars, ControlInv, Point, InitPoints,
         DestroyPoints, TxExitPoints, AttachPoints
    <2> USE <1>1, <2>1
    <2>2. TypeOK'
      BY SMT DEF TypeOK, Busy
    <2>3. ControlInv'
      BY DEF TypeOK, ControlInv, InitPoints, DestroyPoints, TxExitPoints,
         AttachPoints, SyncPoints
    <2>4. ContextInv'
      BY SMT DEF TypeOK, ControlInv, ContextInv, InitPoints, DestroyPoints,
         TxExitPoints, AttachPoints, Ending, Live, Gone
    <2>5. QueueInv'
      BY DEF TypeOK, ControlInv, QueueInv, Ending, InitPoints, DestroyPoints,
         TxExitPoints, AttachPoints
    <2>6. ObjectInv'
      BY SMT DEF TypeOK, ControlInv, ObjectInv, Ending, InitPoints,
         DestroyPoints, TxExitPoints, AttachPoints
    <2>7. PathInv'
      BY DEF TypeOK, ControlInv, PathInv, Busy, Ending, InitPoints,
         DestroyPoints, TxExitPoints, AttachPoints
    <2>8. HookInv'
      BY DEF TypeOK, ControlInv, HookInv, Ending, Undoing, InitPoints,
         DestroyPoints, TxExitPoints, AttachPoints
    <2>9. GsoInv'
      BY DEF TypeOK, ControlInv, GsoInv, Ending, Undoing, InitPoints,
         DestroyPoints, TxExitPoints, AttachPoints
    <2>10. ModuleInv'
      BY DEF ModuleInv
    <2> QED
      BY <2>2, <2>3, <2>4, <2>5, <2>6, <2>7, <2>8, <2>9, <2>10 DEF IInv
  <1> QED
    BY <1>1, <1>2, <1>3 DEF mq_attach, Goto, Destroy, TypeOK, ControlInv,
       Point, InitPoints, DestroyPoints, TxExitPoints, AttachPoints

LEMMA DetachStep ==
  ASSUME IInv, Detach
  PROVE  IInv'
  <1>1. /\ TypeOK /\ ControlInv /\ ContextInv /\ QueueInv /\ ObjectInv
        /\ PathInv /\ HookInv /\ GsoInv /\ ModuleInv
        /\ Default \notin Inst /\ None \notin Inst \cup {Default}
        /\ NumTx \in Nat /\ NumTx > 0 /\ Rx \cap Tx = {}
    BY SMT, LifecycleAssumption DEF IInv
  <1>2. /\ pc = "delete" /\ Point = "delete" /\ qdisc \in Inst
        /\ new = Default /\ Point' = "tx_exit"
        /\ queue' = [n \in Queue |-> Default] /\ pc' = "tx_exit"
        /\ old' = qdisc /\ ret' = [sync |-> ret.sync, destroy |-> "swap"]
        /\ UNCHANGED <<registered, module, qdisc, active, rx_handler, gso, txc>>
        /\ UNCHANGED <<rxc, qdiscs, prev_gso, cls, vq, assoc, txctx_list>>
        /\ UNCHANGED <<rxctx_list, op, new, gp, path, ctx, writer>>
        /\ UNCHANGED <<reader, refused, raced>>
    BY <1>1 DEF Detach, Destroy, others, moduleVars, devVars, ctxVars,
       objVars, pathVars, ControlInv, Point, InitPoints, DestroyPoints,
       TxExitPoints, AttachPoints
  <1> USE <1>1, <1>2
  <1>3. TypeOK'
    BY SMT DEF TypeOK, Busy
  <1>4. ControlInv'
    BY DEF TypeOK, ControlInv, InitPoints, DestroyPoints, TxExitPoints,
       AttachPoints, SyncPoints
  <1>5. ContextInv'
    BY SMT DEF TypeOK, ControlInv, ContextInv, InitPoints, DestroyPoints,
       TxExitPoints, AttachPoints, Ending, Live, Gone
  <1>6. QueueInv'
    BY DEF TypeOK, ControlInv, QueueInv, Ending, InitPoints, DestroyPoints,
       TxExitPoints, AttachPoints
  <1>7. ObjectInv'
    BY SMT DEF TypeOK, ControlInv, ObjectInv, Ending, InitPoints,
       DestroyPoints, TxExitPoints, AttachPoints
  <1>8. PathInv'
    BY DEF TypeOK, ControlInv, PathInv, Busy, Ending, InitPoints,
       DestroyPoints, TxExitPoints, AttachPoints
  <1>9. HookInv'
    BY DEF TypeOK, ControlInv, HookInv, Ending, Undoing, InitPoints,
       DestroyPoints, TxExitPoints, AttachPoints
  <1>10. GsoInv'
    BY DEF TypeOK, ControlInv, GsoInv, Ending, Undoing, InitPoints,
       DestroyPoints, TxExitPoints, AttachPoints
  <1>11. ModuleInv'
    BY DEF ModuleInv
  <1> QED
    BY <1>3, <1>4, <1>5, <1>6, <1>7, <1>8, <1>9, <1>10, <1>11 DEF IInv

LEMMA GraftStep ==
  ASSUME IInv, NEW n \in Queue, mq_graft(n)
  PROVE  IInv'
  <1>1. /\ TypeOK /\ ControlInv /\ ContextInv /\ QueueInv /\ ObjectInv
        /\ PathInv /\ HookInv /\ GsoInv /\ ModuleInv
        /\ Default \notin Inst /\ None \notin Inst \cup {Default}
        /\ NumTx \in Nat /\ NumTx > 0 /\ Rx \cap Tx = {}
    BY SMT, LifecycleAssumption DEF IInv
  <1>2. /\ pc = "graft" /\ Point = "graft" /\ qdisc \in Inst
        /\ Point' = "activate" /\ queue' = [queue EXCEPT ![n] = Default]
        /\ pc' = "activate"
        /\ UNCHANGED <<registered, module, qdisc, active, rx_handler, gso, txc>>
        /\ UNCHANGED <<rxc, qdiscs, prev_gso, cls, vq, assoc, txctx_list>>
        /\ UNCHANGED <<rxctx_list, op, new, old, ret, gp, path>>
        /\ UNCHANGED <<ctx, writer, reader, refused, raced>>
    BY <1>1 DEF mq_graft, Goto, others, moduleVars, devVars, ctxVars, objVars,
       pathVars, ControlInv, Point, InitPoints, DestroyPoints, TxExitPoints,
       AttachPoints
  <1> USE <1>1, <1>2
  <1>3. TypeOK'
    BY SMT DEF TypeOK, Busy
  <1>4. ControlInv'
    BY DEF TypeOK, ControlInv, InitPoints, DestroyPoints, TxExitPoints,
       AttachPoints, SyncPoints
  <1>5. ContextInv'
    BY DEF TypeOK, ControlInv, ContextInv, InitPoints, DestroyPoints,
       TxExitPoints, AttachPoints, Ending, Live, Gone
  <1>6. QueueInv'
    BY DEF TypeOK, ControlInv, QueueInv, Ending, InitPoints,
       DestroyPoints, TxExitPoints, AttachPoints
  <1>7. ObjectInv'
    BY DEF TypeOK, ControlInv, ObjectInv, Ending, InitPoints,
       DestroyPoints, TxExitPoints, AttachPoints
  <1>8. PathInv'
    BY DEF TypeOK, ControlInv, PathInv, Busy, Ending, InitPoints,
       DestroyPoints, TxExitPoints, AttachPoints
  <1>9. HookInv'
    BY DEF TypeOK, ControlInv, HookInv, Ending, Undoing, InitPoints,
       DestroyPoints, TxExitPoints, AttachPoints
  <1>10. GsoInv'
    BY DEF TypeOK, ControlInv, GsoInv, Ending, Undoing, InitPoints,
       DestroyPoints, TxExitPoints, AttachPoints
  <1>11. ModuleInv'
    BY DEF ModuleInv
  <1> QED
    BY <1>3, <1>4, <1>5, <1>6, <1>7, <1>8, <1>9, <1>10, <1>11 DEF IInv

LEMMA SwapStep ==
  ASSUME IInv, Swap
  PROVE  IInv'
  <1>1. /\ TypeOK /\ ControlInv /\ ContextInv /\ QueueInv /\ ObjectInv
        /\ PathInv /\ HookInv /\ GsoInv /\ ModuleInv
        /\ Default \notin Inst /\ None \notin Inst \cup {Default}
        /\ NumTx \in Nat /\ NumTx > 0 /\ Rx \cap Tx = {}
    BY SMT, LifecycleAssumption DEF IInv
  <1>2. /\ pc = "swap" /\ Point = "swap" /\ Point' = "activate"
        /\ qdisc' = new /\ pc' = "activate"
        /\ UNCHANGED <<registered, module, queue, active, rx_handler, gso, txc>>
        /\ UNCHANGED <<rxc, qdiscs, prev_gso, cls, vq, assoc, txctx_list>>
        /\ UNCHANGED <<rxctx_list, op, new, old, ret, gp, path>>
        /\ UNCHANGED <<ctx, writer, reader, refused, raced>>
    BY <1>1 DEF Swap, Goto, others, moduleVars, devVars, ctxVars, objVars,
       pathVars, ControlInv, Point, InitPoints, DestroyPoints, TxExitPoints,
       AttachPoints
  <1> USE <1>1, <1>2
  <1>3. TypeOK'
    BY SMT DEF TypeOK, Busy, ControlInv, AttachPoints
  <1>4. ControlInv'
    BY DEF TypeOK, ControlInv, InitPoints, DestroyPoints, TxExitPoints,
       AttachPoints, SyncPoints
  <1>5. ContextInv'
    BY SMT DEF TypeOK, ControlInv, ContextInv, InitPoints, DestroyPoints,
       TxExitPoints, AttachPoints, Ending, Live, Gone
  <1>6. QueueInv'
    BY DEF TypeOK, ControlInv, QueueInv, Ending, InitPoints, DestroyPoints,
       TxExitPoints, AttachPoints
  <1>7. ObjectInv'
    BY DEF TypeOK, ControlInv, ObjectInv, Ending, InitPoints, DestroyPoints,
       TxExitPoints, AttachPoints
  <1>8. PathInv'
    BY DEF TypeOK, ControlInv, PathInv, Busy, Ending, InitPoints,
       DestroyPoints, TxExitPoints, AttachPoints
  <1>9. HookInv'
    BY SMT DEF TypeOK, ControlInv, HookInv, Ending, Undoing, InitPoints,
       DestroyPoints, TxExitPoints, AttachPoints, PathInv
  <1>10. GsoInv'
    BY DEF TypeOK, ControlInv, GsoInv, Ending, Undoing, InitPoints,
       DestroyPoints, TxExitPoints, AttachPoints, ContextInv, HookInv, Live
  <1>11. ModuleInv'
    BY DEF ModuleInv
  <1> QED
    BY <1>3, <1>4, <1>5, <1>6, <1>7, <1>8, <1>9, <1>10, <1>11 DEF IInv

LEMMA ActivateStep ==
  ASSUME IInv, Activate
  PROVE  IInv'
  <1>1. /\ TypeOK /\ ControlInv /\ ContextInv /\ QueueInv /\ ObjectInv
        /\ PathInv /\ HookInv /\ GsoInv /\ ModuleInv
        /\ Default \notin Inst /\ None \notin Inst \cup {Default}
        /\ NumTx \in Nat /\ NumTx > 0 /\ Rx \cap Tx = {}
    BY SMT, LifecycleAssumption DEF IInv
  <1>2. /\ pc = "activate" /\ Point = "activate" /\ Point' = "free"
        /\ active' = TRUE /\ pc' = "free" /\ op' = "none" /\ new' = None
        /\ UNCHANGED <<registered, module, qdisc, queue, rx_handler, gso, txc>>
        /\ UNCHANGED <<rxc, qdiscs, prev_gso, cls, vq, assoc, txctx_list>>
        /\ UNCHANGED <<rxctx_list, old, ret, gp, path, ctx, writer>>
        /\ UNCHANGED <<reader, refused, raced>>
    BY <1>1 DEF Activate, Goto, others, moduleVars, devVars, ctxVars, objVars,
       pathVars, ControlInv, Point, InitPoints, DestroyPoints, TxExitPoints,
       AttachPoints
  <1> USE <1>1, <1>2
  <1>3. TypeOK'
    BY DEF TypeOK, Busy
  <1>4. ControlInv'
    BY DEF TypeOK, ControlInv, InitPoints, DestroyPoints, TxExitPoints,
       AttachPoints, SyncPoints
  <1>5. ContextInv'
    BY SMT DEF TypeOK, ControlInv, ContextInv, InitPoints, DestroyPoints,
       TxExitPoints, AttachPoints, Ending, Live, Gone
  <1>6. QueueInv'
    BY DEF TypeOK, ControlInv, QueueInv, Ending, InitPoints, DestroyPoints,
       TxExitPoints, AttachPoints
  <1>7. ObjectInv'
    BY DEF TypeOK, ControlInv, ObjectInv, Ending, InitPoints,
       DestroyPoints, TxExitPoints, AttachPoints
  <1>8. PathInv'
    BY DEF TypeOK, ControlInv, PathInv, Busy, Ending, InitPoints,
       DestroyPoints, TxExitPoints, AttachPoints
  <1>9. HookInv'
    BY DEF TypeOK, ControlInv, HookInv, Ending, Undoing, InitPoints,
       DestroyPoints, TxExitPoints, AttachPoints
  <1>10. GsoInv'
    BY DEF TypeOK, ControlInv, GsoInv, Ending, Undoing, InitPoints,
       DestroyPoints, TxExitPoints, AttachPoints
  <1>11. ModuleInv'
    BY DEF ModuleInv
  <1> QED
    BY <1>3, <1>4, <1>5, <1>6, <1>7, <1>8, <1>9, <1>10, <1>11 DEF IInv

-----------------------------------------------------------------------------
(* The steps of the module and of the readers of the statistics leave       *)
(* everything else alone.                                                   *)

LEMMA ModuleFrame ==
  ASSUME IInv,
         UNCHANGED <<devVars, ctxVars, objVars, tcVars, gp, pathVars,
                     writer, refused, raced>>,
         registered' \subseteq Entries, module' \in {"absent", "init", "live"},
         reader' \in Inst \cup {None}, ModuleInv'
  PROVE  IInv'
  <1>1. /\ Point' = Point
        /\ UNCHANGED <<qdisc, queue, active, rx_handler, gso, txc, rxc, qdiscs,
                       prev_gso, txctx_list, rxctx_list, cls, vq, assoc, pc, op,
                       new, old, ret, gp, path, ctx, writer, refused, raced>>
    BY DEF Point, devVars, ctxVars, objVars, tcVars, pathVars
  <1>2. (Undoing' <=> Undoing) /\ (Ending' <=> Ending)
    BY <1>1 DEF Undoing, Ending
  <1>3. TypeOK'
    <2>1. TypeOK
      BY DEF IInv
    <2> QED
      BY SMT, <1>1, <2>1 DEF TypeOK
  <1>4. ControlInv'
    <2>1. ControlInv
      BY DEF IInv
    <2> QED
      BY <1>1, <2>1 DEF ControlInv
  <1>5. ContextInv'
    BY SMT, <1>1, <1>2 DEF IInv, ContextInv, Live, Gone
  <1>6. QueueInv'
    BY <1>1, <1>2 DEF IInv, QueueInv
  <1>7. ObjectInv'
    BY <1>1, <1>2 DEF IInv, ObjectInv
  <1>8. PathInv'
    BY <1>1, <1>2 DEF IInv, PathInv
  <1>9. HookInv'
    BY SMT, <1>1, <1>2 DEF IInv, HookInv
  <1>10. GsoInv'
    BY SMT, <1>1, <1>2 DEF IInv, GsoInv
  <1> QED
    BY <1>3, <1>4, <1>5, <1>6, <1>7, <1>8, <1>9, <1>10 DEF IInv

(* iso_init registers in one order, so that what is registered tells what   *)
(* comes next.                                                              *)
LEMMA NextEntryIs ==
  ASSUME ModuleInv, module = "init"
  PROVE  \/ registered = {} /\ NextEntry = "sysctl"
         \/ registered = {"sysctl"} /\ NextEntry = "stats"
         \/ registered = {"sysctl", "stats"} /\ NextEntry = "csvstats"
         \/ registered = {"sysctl", "stats", "csvstats"} /\ NextEntry = "qdisc"
  <1>1. /\ Order[1] = "sysctl" /\ Order[2] = "stats"
        /\ Order[3] = "csvstats" /\ Order[4] = "qdisc"
    BY DEF Order
  <1> DEFINE First(k) == /\ Order[k] \notin registered
                         /\ \A j \in 1..(k - 1) : Order[j] \in registered
  <1>2. ASSUME NEW k \in 1..4, First(k)
        PROVE  NextEntry = Order[k]
    <2>1. \A l \in 1..4 : First(l) => l = k
      <3>1. ASSUME NEW l \in 1..4, First(l), l < k PROVE FALSE
        BY SMT, <1>2, <3>1
      <3>2. ASSUME NEW l \in 1..4, First(l), k < l PROVE FALSE
        BY SMT, <1>2, <3>2
      <3> QED
        BY SMT, <3>1, <3>2
    <2>2. (CHOOSE l \in 1..4 : First(l)) = k
      BY <1>2, <2>1
    <2> QED
      BY <2>2 DEF NextEntry
  <1>3. CASE registered = {}
    BY SMT, <1>1, <1>2, <1>3
  <1>4. CASE registered = {"sysctl"}
    BY SMT, <1>1, <1>2, <1>4
  <1>5. CASE registered = {"sysctl", "stats"}
    BY SMT, <1>1, <1>2, <1>5
  <1>6. CASE registered = {"sysctl", "stats", "csvstats"}
    BY SMT, <1>1, <1>2, <1>6
  <1> QED
    BY <1>3, <1>4, <1>5, <1>6 DEF ModuleInv

LEMMA ModuleStep ==
  ASSUME IInv, Module
  PROVE  IInv'
  <1>1. TypeOK /\ ModuleInv /\ Default \notin Inst
    BY LifecycleAssumption DEF IInv
  <1>2. CASE InitStart
    <2>1. /\ module = "absent" /\ module' = "init" /\ registered' = registered
          /\ UNCHANGED <<devVars, ctxVars, objVars, tcVars, gp, pathVars, writer,
                         reader, refused, raced>>
      BY <1>2 DEF InitStart, modUnchanged
    <2>2. ModuleInv'
      BY <1>1, <2>1 DEF ModuleInv, devVars, tcVars
    <2> QED
      BY <1>1, <2>1, <2>2, ModuleFrame DEF TypeOK
  <1>3. CASE InitRegister
    <2>1. /\ module = "init" /\ registered' = registered \cup {NextEntry}
          /\ module' = IF registered' = Entries THEN "live" ELSE "init"
          /\ UNCHANGED <<devVars, ctxVars, objVars, tcVars, gp, pathVars, writer,
                         reader, refused, raced>>
      BY <1>3 DEF InitRegister, modUnchanged
    <2>2. /\ registered' \in {{"sysctl"}, {"sysctl", "stats"},
                              {"sysctl", "stats", "csvstats"}, Entries}
      BY <1>1, <2>1, NextEntryIs DEF Entries
    <2>3. ModuleInv'
      BY <1>1, <2>1, <2>2 DEF ModuleInv, devVars, tcVars
    <2>4. registered' \subseteq Entries
      BY <2>2 DEF Entries
    <2> QED
      BY <1>1, <2>1, <2>3, <2>4, ModuleFrame DEF TypeOK
  <1>4. CASE InitFails
    <2>1. /\ module = "init" /\ module' = "absent"
          /\ registered' = Rollback(NextEntry)
          /\ UNCHANGED <<devVars, ctxVars, objVars, tcVars, gp, pathVars, writer,
                         reader, refused, raced>>
      BY <1>4 DEF InitFails, modUnchanged
    <2>2. registered' = {}
      BY <1>1, <2>1, NextEntryIs DEF Rollback
    <2>3. ModuleInv'
      BY <1>1, <2>1, <2>2 DEF ModuleInv, devVars, tcVars
    <2> QED
      BY <1>1, <2>1, <2>2, <2>3, ModuleFrame DEF TypeOK
  <1>5. CASE iso_exit
    <2>1. /\ module = "live" /\ module' = "absent" /\ pc = "free"
          /\ qdisc \notin Inst /\ writer = NoWrite
          /\ registered' = registered \ {"stats", "csvstats", "sysctl", "qdisc"}
          /\ UNCHANGED <<devVars, ctxVars, objVars, tcVars, gp, pathVars, writer,
                         reader, refused, raced>>
      BY <1>5 DEF iso_exit, modUnchanged
    <2>2. registered' = {} /\ qdisc = Default
      BY SMT, <1>1, <2>1 DEF TypeOK, Entries
    <2>3. ModuleInv'
      BY <1>1, <2>1, <2>2 DEF ModuleInv, devVars, tcVars
    <2> QED
      BY <1>1, <2>1, <2>2, <2>3, ModuleFrame DEF TypeOK
  <1> QED
    BY <1>2, <1>3, <1>4, <1>5 DEF Module

LEMMA StatsStep ==
  ASSUME IInv, StatsDone \/ \E i \in Inst : StatsShow(i)
  PROVE  IInv'
  <1>1. TypeOK /\ ModuleInv
    BY DEF IInv
  <1>2. /\ reader' \in Inst \cup {None}
        /\ UNCHANGED <<moduleVars, devVars, ctxVars, objVars, tcVars, gp,
                       pathVars, writer, refused, raced>>
    BY DEF StatsDone, StatsShow
  <1>3. ModuleInv'
    BY <1>1, <1>2 DEF ModuleInv, moduleVars, devVars, tcVars
  <1> QED
    BY <1>1, <1>2, <1>3, ModuleFrame DEF TypeOK, moduleVars

-----------------------------------------------------------------------------
(* The packet paths change where they are, and what a grace period still    *)
(* waits for.                                                               *)

LEMMA PathFrame ==
  ASSUME IInv, pathUnchanged, gp' \subseteq gp,
         ctx' \in [Rx \cup Tx -> SUBSET (Inst \cup {Default})], PathInv'
  PROVE  IInv'
  <1>1. /\ Point' = Point
        /\ UNCHANGED <<registered, module, qdisc, queue, active, rx_handler, gso,
                       txc, rxc, qdiscs, prev_gso, txctx_list, rxctx_list, cls,
                       vq, assoc, pc, op, new, old, ret, writer, reader,
                       refused, raced>>
    BY DEF pathUnchanged, Point, moduleVars, devVars, ctxVars, objVars, tcVars
  <1>2. (Undoing' <=> Undoing) /\ (Ending' <=> Ending)
    BY <1>1 DEF Undoing, Ending
  <1>3. TypeOK'
    <2>1. TypeOK
      BY DEF IInv
    <2> QED
      BY SMT, <1>1, <2>1 DEF TypeOK
  <1>4. ControlInv'
    <2>1. ControlInv
      BY DEF IInv
    <2> QED
      BY <1>1, <2>1 DEF ControlInv
  <1>5. ContextInv'
    BY SMT, <1>1, <1>2 DEF IInv, ContextInv, Live, Gone
  <1>6. QueueInv'
    BY <1>1, <1>2 DEF IInv, QueueInv
  <1>7. ObjectInv'
    BY <1>1, <1>2 DEF IInv, ObjectInv
  <1>8. HookInv'
    BY <1>1, <1>2 DEF IInv, HookInv
  <1>9. GsoInv'
    BY <1>1, <1>2 DEF IInv, GsoInv
  <1>10. ModuleInv'
    BY <1>1 DEF IInv, ModuleInv
  <1> QED
    BY <1>3, <1>4, <1>5, <1>6, <1>7, <1>8, <1>9, <1>10 DEF IInv

(* A path that moves keeps PathInv if where it goes is allowed: it may      *)
(* leave, and it may be further inside while the root is live.              *)
LEMMA PathMoves ==
  ASSUME IInv, pathUnchanged, NEW c \in Rx \cup Tx,
         NEW p \in {"out", "handler", "enabled", "iso_rx", "iso_tx"},
         NEW held \in SUBSET (Inst \cup {Default}),
         At(c, p, held), gp' \in {gp, gp \ {c}},
         c \in Rx => p # "iso_tx", c \in Tx => p \in {"out", "iso_tx"},
         held \subseteq {qdisc},
         p \in {"out", "handler", "enabled"} => held = {},
         p \in {"enabled", "iso_rx", "iso_tx"} => qdisc \in Inst /\ Point # "swap",
         p # "out" => gp' = gp,
         p # "out" /\ path[c] = "out" =>
           IF c \in Rx THEN rx_handler ELSE active
  PROVE  IInv'
  <1>1. /\ TypeOK /\ PathInv /\ Rx \cap Tx = {}
    BY LifecycleAssumption DEF IInv
  <1>2. /\ Point' = Point
        /\ UNCHANGED <<qdisc, active, rx_handler, pc, ret>>
    BY DEF pathUnchanged, Point, devVars, tcVars
  <1>3. Ending' <=> Ending
    BY <1>2 DEF Ending
  <1>4. /\ path' = [path EXCEPT ![c] = p] /\ ctx' = [ctx EXCEPT ![c] = held]
    BY DEF At
  <1>5. /\ path \in [Rx \cup Tx -> {"out", "handler", "enabled", "iso_rx", "iso_tx"}]
        /\ ctx \in [Rx \cup Tx -> SUBSET (Inst \cup {Default})]
    BY <1>1 DEF TypeOK, PathInv
  <1>6. /\ path'[c] = p /\ ctx'[c] = held
        /\ \A d \in (Rx \cup Tx) \ {c} :
             path'[d] = path[d] /\ ctx'[d] = ctx[d] /\ (d \in gp' <=> d \in gp)
    BY <1>4, <1>5
  <1>7. /\ path' \in [Rx \cup Tx -> {"out", "handler", "enabled", "iso_rx", "iso_tx"}]
        /\ ctx' \in [Rx \cup Tx -> SUBSET (Inst \cup {Default})]
    BY <1>4, <1>5
  <1>8. PathInv'
    <2>1. active' <=> ~(Ending' \/ Point' \in AttachPoints \ {"deactivate"})
      BY <1>1, <1>2, <1>3 DEF PathInv
    <2>2. /\ \A d \in Rx : path'[d] # "iso_tx"
          /\ \A d \in Tx : path'[d] \in {"out", "iso_tx"}
      BY <1>1, <1>6 DEF PathInv
    <2>3. \A d \in Rx \cup Tx :
            /\ ctx'[d] \subseteq {qdisc'}
            /\ path'[d] \in {"out", "handler", "enabled"} => ctx'[d] = {}
            /\ path'[d] \in {"enabled", "iso_rx", "iso_tx"} =>
                 qdisc' \in Inst /\ Point' # "swap"
      BY <1>1, <1>2, <1>6 DEF PathInv
    <2>4. ~active' => \A d \in Tx : path'[d] # "out" =>
            /\ pc' = "sync" /\ ret'.sync \in {"replace", "delete", "graft"}
            /\ d \in gp'
      <3>1. ~active => \A d \in Tx : path[d] # "out" =>
              pc = "sync" /\ ret.sync \in {"replace", "delete", "graft"} /\ d \in gp
        BY <1>1 DEF PathInv
      <3> SUFFICES ASSUME ~active', NEW d \in Tx, path'[d] # "out"
                   PROVE  /\ pc' = "sync" /\ d \in gp'
                          /\ ret'.sync \in {"replace", "delete", "graft"}
        OBVIOUS
      <3>2. path[d] # "out" =>
              pc = "sync" /\ ret.sync \in {"replace", "delete", "graft"} /\ d \in gp
        BY <1>2, <3>1
      <3>3. CASE d = c
        BY <1>1, <1>2, <1>6, <3>2, <3>3
      <3>4. CASE d # c
        <4>1. path'[d] = path[d] /\ (d \in gp' <=> d \in gp)
          BY <1>6, <3>4
        <4> QED
          BY <1>2, <3>2, <4>1
      <3> QED
        BY <3>3, <3>4
    <2>5. (Ending' /\ Point' = "release") \/ (Point' = "swap" /\ qdisc' \in Inst) =>
            /\ ~rx_handler'
            /\ \A d \in Rx : path'[d] # "out" => pc' = "sync" /\ d \in gp'
      <3>1. (Ending /\ Point = "release") \/ (Point = "swap" /\ qdisc \in Inst) =>
              /\ ~rx_handler
              /\ \A d \in Rx : path[d] # "out" => pc = "sync" /\ d \in gp
        BY <1>1 DEF PathInv
      <3>2. ASSUME (Ending' /\ Point' = "release") \/ (Point' = "swap" /\ qdisc' \in Inst)
            PROVE  /\ ~rx_handler
                   /\ \A d \in Rx : path[d] # "out" => pc = "sync" /\ d \in gp
        BY <1>2, <1>3, <3>1, <3>2
      <3> SUFFICES ASSUME NEW d \in Rx, path'[d] # "out", ~rx_handler,
                          path[d] # "out" => pc = "sync" /\ d \in gp
                   PROVE  pc' = "sync" /\ d \in gp'
        BY <1>2, <3>2
      <3>3. CASE d = c
        BY <1>2, <1>6, <3>3
      <3>4. CASE d # c
        BY <1>2, <1>6, <3>4
      <3> QED
        BY <3>3, <3>4
    <2> QED
      BY <1>7, <2>1, <2>2, <2>3, <2>4, <2>5 DEF PathInv
  <1> QED
    BY <1>7, <1>8, PathFrame

(* The receive path.                                                        *)
LEMMA RxStep ==
  ASSUME IInv, NEW c \in Rx,
         RxEnter(c) \/ RxCheck(c) \/ RxContext(c) \/ RxLeave(c)
  PROVE  IInv'
  <1>1. /\ TypeOK /\ ControlInv /\ PathInv /\ c \in Rx \cup Tx /\ c \notin Tx
    BY LifecycleAssumption DEF IInv
  <1>2. {} \in SUBSET (Inst \cup {Default}) /\ {} \subseteq {qdisc}
    OBVIOUS
  <1>3. CASE Leaves(c) /\ pathUnchanged
    BY <1>1, <1>2, <1>3, PathMoves DEF Leaves
  <1>4. CASE RxEnter(c)
    <2>1. At(c, "handler", {}) /\ gp' = gp /\ rx_handler /\ pathUnchanged
      BY <1>4 DEF RxEnter
    <2> QED
      BY <1>1, <1>2, <2>1, PathMoves
  <1>5. CASE RxCheck(c) /\ ~Leaves(c)
    <2>1. /\ At(c, "enabled", {}) /\ gp' = gp /\ qdisc \in Inst /\ pathUnchanged
          /\ path[c] = "handler"
      BY <1>5 DEF RxCheck
    <2>2. Point # "swap"
      <3>1. SUFFICES ASSUME Point = "swap" PROVE FALSE
        OBVIOUS
      <3>2. pc # "sync"
        BY <1>1, <3>1 DEF ControlInv, Point, SyncPoints
      <3> QED
        BY <1>1, <2>1, <3>1, <3>2 DEF PathInv
    <2> QED
      BY <1>1, <1>2, <2>1, <2>2, PathMoves
  <1>6. CASE RxContext(c)
    <2>1. /\ path[c] \in {"enabled", "iso_rx"}
          /\ At(c, "iso_rx", ctx[c] \cup {qdisc}) /\ gp' = gp /\ pathUnchanged
      BY <1>6 DEF RxContext
    <2>2. qdisc \in Inst /\ Point # "swap"
      BY <1>1, <2>1 DEF PathInv
    <2>3. /\ ctx[c] \cup {qdisc} \subseteq {qdisc}
          /\ ctx[c] \cup {qdisc} \in SUBSET (Inst \cup {Default})
      BY SMT, <1>1 DEF PathInv, TypeOK
    <2> QED
      BY <1>1, <2>1, <2>2, <2>3, PathMoves
  <1>7. RxCheck(c) \/ RxLeave(c) => pathUnchanged /\ (RxLeave(c) => Leaves(c))
    BY DEF RxCheck, RxLeave
  <1> QED
    BY <1>3, <1>4, <1>5, <1>6, <1>7

(* The transmit path: it is let in while the device is active, and an       *)
(* active device with a queue of EyeQ has EyeQ as its root.                 *)
LEMMA TxStep ==
  ASSUME IInv, NEW c \in Tx, TxEnter(c) \/ TxLeave(c)
  PROVE  IInv'
  <1>1. /\ TypeOK /\ ControlInv /\ PathInv /\ QueueInv
        /\ c \in Rx \cup Tx /\ c \notin Rx /\ Default \notin Inst
    BY LifecycleAssumption DEF IInv
  <1>2. CASE TxLeave(c)
    <2>1. At(c, "out", {}) /\ gp' = gp \ {c} /\ pathUnchanged
      BY <1>2 DEF TxLeave, Leaves
    <2>2. {} \in SUBSET (Inst \cup {Default}) /\ {} \subseteq {qdisc}
      OBVIOUS
    <2> QED
      BY <1>1, <2>1, <2>2, PathMoves
  <1>3. CASE TxEnter(c)
    <2>1. /\ At(c, "iso_tx", {qdisc}) /\ gp' = gp /\ active /\ pathUnchanged
          /\ \E n \in Queue : queue[n] \in Inst
      BY <1>3 DEF TxEnter
    <2>2. ~Ending /\ Point # "swap"
      BY <1>1, <2>1 DEF PathInv, AttachPoints
    <2>3. qdisc \in Inst
      BY <1>1, <2>1, <2>2 DEF QueueInv
    <2>4. {qdisc} \in SUBSET (Inst \cup {Default}) /\ {qdisc} \subseteq {qdisc}
      BY <2>3
    <2> QED
      BY <1>1, <2>1, <2>2, <2>3, <2>4, PathMoves
  <1> QED
    BY <1>2, <1>3

-----------------------------------------------------------------------------
(* A write changes the classes and the queues only.                         *)

LEMMA WriterFrame ==
  ASSUME IInv,
         UNCHANGED <<moduleVars, devVars, ctxVars, tcVars, gp, pathVars, reader,
                     refused>>,
         cls' \in [Inst -> {"none", "live", "unhashed"}],
         vq' \in [Inst -> {"none", "live"}], assoc' \in [Inst -> BOOLEAN],
         writer'.at \in Inst \cup {None}, raced' \subseteq Inst,
         ObjectInv', ModuleInv'
  PROVE  IInv'
  <1>1. /\ Point' = Point
        /\ UNCHANGED <<registered, module, qdisc, queue, active, rx_handler, gso,
                       txc, rxc, qdiscs, prev_gso, txctx_list, rxctx_list, pc,
                       op, new, old, ret, gp, path, ctx, reader, refused>>
    BY DEF Point, moduleVars, devVars, ctxVars, tcVars, pathVars
  <1>2. (Undoing' <=> Undoing) /\ (Ending' <=> Ending)
    BY <1>1 DEF Undoing, Ending
  <1>3. TypeOK'
    <2>1. TypeOK
      BY DEF IInv
    <2> QED
      BY SMT, <1>1, <2>1 DEF TypeOK
  <1>4. ControlInv'
    <2>1. ControlInv
      BY DEF IInv
    <2> QED
      BY <1>1, <2>1 DEF ControlInv
  <1>5. ContextInv'
    BY SMT, <1>1, <1>2 DEF IInv, ContextInv, Live, Gone
  <1>6. QueueInv'
    BY <1>1, <1>2 DEF IInv, QueueInv
  <1>7. PathInv'
    BY <1>1, <1>2 DEF IInv, PathInv
  <1>8. HookInv'
    BY SMT, <1>1, <1>2 DEF IInv, HookInv
  <1>9. GsoInv'
    BY SMT, <1>1, <1>2 DEF IInv, GsoInv
  <1> QED
    BY <1>3, <1>4, <1>5, <1>6, <1>7, <1>8, <1>9 DEF IInv

LEMMA WriterFindStep ==
  ASSUME IInv, NEW o \in {"create_txc", "create_vq"}, WriterFind(o)
  PROVE  IInv'
  <1>1. TypeOK /\ ObjectInv /\ ModuleInv
    BY DEF IInv
  <1>2. /\ module = "live" /\ qdisc \in Inst
        /\ writer' = [op |-> o, at |-> qdisc]
        /\ UNCHANGED <<moduleVars, devVars, ctxVars, objVars, tcVars, gp,
                       pathVars, reader, refused, raced>>
    BY DEF WriterFind
  <1>3. /\ Point' = Point /\ writer'.at = qdisc
        /\ UNCHANGED <<qdisc, module, registered, cls, vq, assoc, new, old, ret,
                       raced>>
    BY <1>2 DEF Point, moduleVars, devVars, objVars, tcVars
  <1>4. Ending' <=> Ending
    BY <1>3 DEF Ending
  <1>5. ObjectInv'
    BY SMT, <1>1, <1>2, <1>3, <1>4 DEF ObjectInv
  <1>6. ModuleInv'
    BY <1>1, <1>2, <1>3 DEF ModuleInv
  <1>7. /\ cls' \in [Inst -> {"none", "live", "unhashed"}]
        /\ vq' \in [Inst -> {"none", "live"}] /\ assoc' \in [Inst -> BOOLEAN]
        /\ writer'.at \in Inst \cup {None} /\ raced' \subseteq Inst
    BY <1>1, <1>2, <1>3 DEF TypeOK
  <1> QED
    BY <1>2, <1>5, <1>6, <1>7, WriterFrame

(* A creation that does not overlap the end of its instance is one in the   *)
(* root.                                                                    *)
LEMMA WriterCreateStep ==
  ASSUME IInv, WriterCreate
  PROVE  IInv'
  <1> DEFINE i == writer.at
             live == txc[i] = "live" /\ rxc[i] = "live"
  <1>1. TypeOK /\ ControlInv /\ ContextInv /\ ObjectInv /\ ModuleInv
    BY DEF IInv
  <1>2. /\ writer # NoWrite /\ writer' = NoWrite /\ i \in Inst /\ i # None
        /\ raced' = IF live /\ old # i THEN raced ELSE raced \cup {i}
        /\ cls' \in {cls, [cls EXCEPT ![i] = "live"]}
        /\ vq' \in {vq, [vq EXCEPT ![i] = "live"]}
        /\ cls' # cls => cls[i] = "none"
        /\ UNCHANGED <<moduleVars, devVars, ctxVars, assoc, tcVars, gp, pathVars,
                       reader, refused>>
    BY <1>1, LifecycleAssumption DEF WriterCreate, ObjectInv
  <1>3. live /\ old # i => i = qdisc /\ Point # "swap"
    BY SMT, <1>1, <1>2 DEF ContextInv, ObjectInv, Gone
  <1>4. /\ Point' = Point
        /\ UNCHANGED <<qdisc, module, registered, assoc, pc, new, old, ret>>
    BY <1>2 DEF Point, moduleVars, devVars, tcVars
  <1>5. Ending' <=> Ending
    BY <1>4 DEF Ending
  <1>6. /\ cls' \in [Inst -> {"none", "live", "unhashed"}]
        /\ vq' \in [Inst -> {"none", "live"}] /\ assoc' \in [Inst -> BOOLEAN]
        /\ writer'.at = None /\ raced' \subseteq Inst
    BY SMT, <1>1, <1>2, <1>4 DEF TypeOK, NoWrite
  <1> HIDE DEF live
  <1>7. /\ \A j \in Inst \ {i} : cls'[j] = cls[j] /\ vq'[j] = vq[j]
        /\ cls'[i] = cls[i] \/ (cls[i] = "none" /\ cls'[i] = "live")
        /\ \A j \in Inst \ raced' : /\ j \in Inst \ raced
                                    /\ j = i => live /\ old # i
    BY SMT, <1>1, <1>2 DEF TypeOK
  <1> HIDE DEF i
  <1>8. ObjectInv'
    <2>1. ASSUME NEW j \in Inst, j \notin raced'
          PROVE  /\ assoc'[j] => cls'[j] # "none"
                 /\ cls'[j] = "unhashed" => Point' = "class_free" /\ j = old'
                 /\ j # qdisc' \/ Point' = "swap" => cls'[j] = "none" /\ vq'[j] = "none"
                 /\ Ending' /\ j = old' /\ Point' \notin TxExitPoints \ {"tx_exited"}
                      => cls'[j] = "none" \/ Point' = "oops"
                 /\ Ending' /\ j = old' /\ Point' \in {"unhook", "release"}
                      => vq'[j] = "none"
      BY <1>1, <1>3, <1>4, <1>5, <1>7, <2>1 DEF ObjectInv
    <2> QED
      BY <1>2, <1>6, <2>1 DEF ObjectInv
  <1>9. ModuleInv'
    BY <1>1, <1>2, <1>4 DEF ModuleInv
  <1> QED
    BY <1>2, <1>6, <1>8, <1>9, WriterFrame

LEMMA WriterAssocStep ==
  ASSUME IInv, NEW i \in Inst, WriterAssoc(i)
  PROVE  IInv'
  <1>1. TypeOK /\ ObjectInv /\ ModuleInv
    BY DEF IInv
  <1>2. /\ assoc' = [assoc EXCEPT ![i] = TRUE] /\ cls[i] = "live"
        /\ UNCHANGED <<moduleVars, devVars, ctxVars, cls, vq, tcVars, gp,
                       pathVars, writer, reader, refused, raced>>
    BY DEF WriterAssoc
  <1>3. /\ Point' = Point
        /\ UNCHANGED <<qdisc, module, registered, cls, vq, pc, new, old, ret,
                       writer, raced>>
    BY <1>2 DEF Point, moduleVars, devVars, tcVars
  <1>4. Ending' <=> Ending
    BY <1>3 DEF Ending
  <1>5. /\ assoc' \in [Inst -> BOOLEAN]
        /\ \A j \in Inst : assoc'[j] => assoc[j] \/ cls[j] = "live"
    BY <1>1, <1>2 DEF TypeOK
  <1>6. ObjectInv'
    BY <1>1, <1>3, <1>4, <1>5 DEF ObjectInv
  <1>7. ModuleInv'
    BY <1>1, <1>3 DEF ModuleInv
  <1>8. /\ cls' \in [Inst -> {"none", "live", "unhashed"}]
        /\ vq' \in [Inst -> {"none", "live"}]
        /\ writer'.at \in Inst \cup {None} /\ raced' \subseteq Inst
    BY <1>1, <1>3 DEF TypeOK
  <1> QED
    BY <1>2, <1>5, <1>6, <1>7, <1>8, WriterFrame

-----------------------------------------------------------------------------
LEMMA InitHolds == Init => IInv
  <1> SUFFICES ASSUME Init PROVE IInv
    OBVIOUS
  <1>1. /\ Default \notin Inst /\ None \notin Inst \cup {Default}
        /\ NumTx \in Nat /\ Rx \cap Tx = {}
    BY LifecycleAssumption
  <1>2. pc = "free" /\ Point = "free" /\ ~Undoing /\ ~Ending
    BY DEF Init, Point, Undoing, Ending, DestroyPoints, TxExitPoints
  <1>3. TypeOK
    <2>1. /\ registered \subseteq Entries /\ module \in {"absent", "init", "live"}
          /\ qdisc \in Inst \cup {Default} /\ gso \in {"driver", "iso"}
          /\ queue \in [Queue -> Inst \cup {Default}]
          /\ txctx_list \subseteq Inst /\ rxctx_list \subseteq Inst
          /\ op \in {"none", "replace", "delete", "graft"}
          /\ new \in Inst \cup {Default, None} /\ old \in Inst \cup {None}
          /\ gp \subseteq Rx \cup Tx
          /\ ctx \in [Rx \cup Tx -> SUBSET (Inst \cup {Default})]
          /\ reader \in Inst \cup {None} /\ raced \subseteq Inst
      BY DEF Init
    <2>2. active \in BOOLEAN /\ rx_handler \in BOOLEAN /\ refused \in BOOLEAN
      BY DEF Init
    <2>3. /\ txc \in [Inst -> {"none", "zeroed", "live"}]
          /\ rxc \in [Inst -> {"none", "zeroed", "live"}]
          /\ prev_gso \in [Inst -> {"driver", "iso"}]
          /\ cls \in [Inst -> {"none", "live", "unhashed"}]
          /\ vq \in [Inst -> {"none", "live"}] /\ assoc \in [Inst -> BOOLEAN]
      BY DEF Init
    <2>4. qdiscs \in [Inst -> -1..NumTx]
      BY SMT, <1>1 DEF Init
    <2>5. writer.at \in Inst \cup {None}
      BY DEF Init, NoWrite
    <2> QED
      BY <2>1, <2>2, <2>3, <2>4, <2>5 DEF TypeOK
  <1>4. ControlInv
    BY <1>2 DEF Init, ControlInv, InitPoints, DestroyPoints, TxExitPoints,
       AttachPoints
  <1>5. ContextInv
    BY <1>1, <1>2 DEF Init, ContextInv, Gone, DestroyPoints, TxExitPoints,
       AttachPoints
  <1>6. QueueInv
    BY <1>1 DEF Init, QueueInv
  <1>7. ObjectInv
    BY <1>1, <1>2 DEF Init, ObjectInv, NoWrite
  <1>8. PathInv
    BY <1>1, <1>2 DEF Init, PathInv, AttachPoints
  <1>9. HookInv
    BY <1>1, <1>2 DEF Init, HookInv, AttachPoints
  <1>10. GsoInv
    BY <1>1, <1>2 DEF Init, GsoInv, AttachPoints
  <1>11. ModuleInv
    BY DEF Init, ModuleInv
  <1> QED
    BY <1>3, <1>4, <1>5, <1>6, <1>7, <1>8, <1>9, <1>10, <1>11 DEF IInv

LEMMA Inductive == IInv /\ [Next]_vars => IInv'
  <1> SUFFICES ASSUME IInv, [Next]_vars PROVE IInv'
    OBVIOUS
  <1>1. CASE Module
    BY <1>1, ModuleStep
  <1>2. CASE TcStart
    BY <1>2, TcDeleteStep, TcGraftStep, TcReplaceStep DEF TcStart
  <1>3. CASE TcStep
    <2>1. ASSUME AllocQdiscs \/ AllocContexts \/ iso_tx_init \/ InitNoMemory
                   \/ iso_rx_init \/ Refused \/ CreateDflt \/ InitFailed
          PROVE  IInv'
      BY <2>1, AllocQdiscsStep, AllocContextsStep, TxInitStep,
         InitNoMemoryStep, RxInitStep, RefusedStep, CreateDfltStep,
         InitFailedStep
    <2>2. ASSUME EndSync \/ iso_tx_exit \/ ClassUnhash \/ ClassFree \/ TxExited
                   \/ iso_rx_exit \/ VqFree \/ iso_rx_hook_exit \/ Release
          PROVE  IInv'
      BY <2>2, EndSyncStep, TxExitStep, ClassUnhashStep, ClassFreeStep,
         TxExitedStep, RxExitStep, VqFreeStep, RxHookExitStep, ReleaseStep
    <2>3. ASSUME Deactivate \/ mq_attach \/ Detach \/ Swap \/ Activate
                   \/ \E n \in Queue : mq_graft(n)
          PROVE  IInv'
      BY <2>3, DeactivateStep, AttachStep, DetachStep, SwapStep, ActivateStep,
         GraftStep
    <2> QED
      BY <1>3, <2>1, <2>2, <2>3 DEF TcStep
  <1>4. CASE \E c \in Rx : RxEnter(c)
    BY <1>4, RxStep
  <1>5. CASE \E c \in Tx : TxEnter(c)
    BY <1>5, TxStep
  <1>6. CASE \E c \in Rx \cup Tx : PathStep(c)
    BY <1>6, RxStep, TxStep DEF PathStep
  <1>7. CASE \E o \in {"create_txc", "create_vq"} : WriterFind(o)
    BY <1>7, WriterFindStep
  <1>8. CASE WriterCreate
    BY <1>8, WriterCreateStep
  <1>9. CASE StatsDone \/ \E i \in Inst : StatsShow(i)
    BY <1>9, StatsStep
  <1>10. CASE \E i \in Inst : WriterAssoc(i)
    BY <1>10, WriterAssocStep
  <1>11. CASE UNCHANGED vars
    <2>1. UNCHANGED <<moduleVars, devVars, ctxVars, objVars, tcVars, gp, pathVars,
                      writer, reader, refused, raced>>
      BY <1>11 DEF vars
    <2>2. ModuleInv'
      BY <2>1 DEF IInv, ModuleInv, moduleVars, devVars, tcVars
    <2>3. /\ registered' \subseteq Entries /\ module' \in {"absent", "init", "live"}
          /\ reader' \in Inst \cup {None}
      BY <2>1 DEF IInv, TypeOK, moduleVars
    <2> QED
      BY <2>1, <2>2, <2>3, ModuleFrame
  <1> QED
    BY <1>1, <1>2, <1>3, <1>4, <1>5, <1>6, <1>7, <1>8, <1>9, <1>10, <1>11 DEF
       Next

LEMMA Invariant == Spec => []IInv
  BY PTL, InitHolds, Inductive DEF Spec

-----------------------------------------------------------------------------
(* Every variable of the device, of the contexts and of the writes keeps    *)
(* its type.                                                                *)
THEOREM TypeCorrect == Spec => []TypeOK
  <1>1. IInv => TypeOK
    BY DEF IInv
  <1> QED
    BY PTL, <1>1, Invariant

(* A context that iso_rx_handler or iso_enqueue got from dev->qdisc is alive *)
(* until it is done with it, for any number of CPUs in the paths, of queues  *)
(* and of roots, although mq_destroy takes no lock that they take.           *)
THEOREM PathsAreSafe == Spec => []PathsHoldLiveContexts
  <1>1. ASSUME IInv PROVE PathsHoldLiveContexts
    <2>1. TypeOK /\ PathInv /\ ContextInv
      BY <1>1 DEF IInv
    <2>2. ASSUME NEW c \in Rx \cup Tx, NEW i \in ctx[c]
          PROVE  i \in Inst /\ txc[i] = "live" /\ rxc[i] = "live"
      <3>1. i = qdisc /\ ctx[c] # {}
        BY <2>1, <2>2 DEF PathInv
      <3>2. path[c] \in {"iso_rx", "iso_tx"}
        BY <2>1, <2>2, <3>1 DEF PathInv
      <3>3. qdisc \in Inst /\ Point # "swap"
        BY <2>1, <3>2 DEF PathInv
      <3> QED
        BY <2>1, <3>1, <3>3 DEF ContextInv, Live
    <2> QED
      BY <2>2 DEF PathsHoldLiveContexts
  <1> QED
    BY PTL, <1>1, Invariant

(* mq_init that fails, and mq_destroy, give back everything they took.       *)
THEOREM TeardownIsComplete == Spec => []TeardownReleasesAll
  <1>1. ASSUME IInv PROVE TeardownReleasesAll
    <2>1. ContextInv /\ ObjectInv /\ QueueInv
      BY <1>1 DEF IInv
    <2>2. ASSUME NEW i \in Inst, i \notin raced, i \notin {qdisc, new, old}
          PROVE  /\ txc[i] = "none" /\ rxc[i] = "none" /\ qdiscs[i] = -1
                 /\ i \notin txctx_list \cup rxctx_list
      BY <2>1, <2>2 DEF ContextInv, Gone
    <2>3. ASSUME NEW i \in Inst, i \notin raced, i \notin {qdisc, new, old}
          PROVE  /\ cls[i] = "none" /\ vq[i] = "none"
                 /\ \A n \in Queue : queue[n] # i
      <3>1. i \in Inst \ raced /\ i # qdisc /\ i # new
        BY <2>3
      <3>2. cls[i] = "none" /\ vq[i] = "none"
        BY <2>1, <3>1 DEF ObjectInv
      <3>3. ASSUME NEW n \in Queue, queue[n] = i PROVE FALSE
        <4>1. queue[n] = new \/ queue[n] = qdisc
          BY <2>1, <3>1, <3>3 DEF QueueInv
        <4> QED
          BY <3>1, <3>3, <4>1
      <3> QED
        BY <3>2, <3>3
    <2> QED
      BY <2>2, <2>3 DEF TeardownReleasesAll
  <1> QED
    BY PTL, <1>1, Invariant

(* The receive handler and gso_max_size follow the root of the device        *)
(* through every mq_init, mq_attach and mq_destroy, unless a second root of  *)
(* this kind was refused.                                                    *)
THEOREM DeviceFollows == Spec => []DeviceFollowsRoot
  <1>1. ASSUME IInv PROVE DeviceFollowsRoot
    <2>1. pc = "free" => Point = "free"
      BY DEF Point
    <2> QED
      BY <1>1, <2>1 DEF IInv, HookInv, GsoInv, DeviceFollowsRoot
  <1> QED
    BY PTL, <1>1, Invariant

(* Wherever iso_init fails, and after iso_exit, nothing that leads into the  *)
(* code of the module remains: no entry, no handler, no root and no context. *)
THEOREM UnloadLeavesNothing == Spec => []UnloadedIsClean
  <1>1. ASSUME IInv, module = "absent"
        PROVE  /\ registered = {} /\ ~rx_handler /\ qdisc \notin Inst
               /\ txctx_list = {} /\ rxctx_list = {}
    <2>1. /\ registered = {} /\ pc = "free" /\ Point = "free" /\ qdisc = Default
          /\ qdisc \notin Inst
      BY <1>1, LifecycleAssumption DEF IInv, ModuleInv, Point
    <2>2. ~rx_handler
      BY <1>1, <2>1 DEF IInv, HookInv
    <2>3. new = None /\ old = None
      BY <1>1, <2>1 DEF IInv, ControlInv
    <2>4. \A i \in Inst : Gone(i)
      BY <1>1, <2>1, <2>3, LifecycleAssumption DEF IInv, ContextInv
    <2>5. txctx_list = {} /\ rxctx_list = {}
      BY SMT, <1>1, <2>4 DEF IInv, TypeOK, ContextInv, Gone
    <2> QED
      BY <2>1, <2>2, <2>5
  <1>2. IInv => UnloadedIsClean
    BY <1>1 DEF UnloadedIsClean
  <1> QED
    BY PTL, <1>2, Invariant
=============================================================================
