----------------------------- MODULE Lifecycle -----------------------------
(***************************************************************************)
(* How EyeQ comes to a device and leaves it: loading and unloading of the   *)
(* module (main.c), creation, attachment and destruction of the root qdisc  *)
(* (qdisc.c) with the transmit and receive contexts it owns (tx.c, rx.c,    *)
(* vq.c), against everybody who finds a context through dev->qdisc or       *)
(* through the context lists: the receive handler, iso_enqueue, the writes  *)
(* of parameters and the readers of the statistics.                         *)
(*                                                                          *)
(* tc runs under rtnl, one operation at a time, but shares no lock with the *)
(* others.  A member of Inst is a slot for a qdisc of this module; it is    *)
(* used again once everything it owned has been released.  A context has at *)
(* most one class and one virtual queue.  The device stays up.  The kernel  *)
(* replaces a root in this order: deactivate, attach the new one, destroy   *)
(* the old one, set dev->qdisc, activate.                                   *)
(***************************************************************************)
EXTENDS Integers

CONSTANTS
  Inst,          \* slots for qdiscs of this module
  Default,       \* any qdisc of another kind, as a root or on a queue
  None,
  Rx, Tx,        \* CPUs in the receive and in the transmit path
  NumTx          \* dev->num_tx_queues

ASSUME LifecycleAssumption ==
  /\ Default \notin Inst /\ None \notin Inst \cup {Default}
  /\ NumTx \in Nat \ {0}
  /\ Rx \cap Tx = {}

Queue == 1..NumTx
Entries == {"sysctl", "stats", "csvstats", "qdisc"}

VARIABLES
  registered,    \* what iso_init has registered so far
  module,        \* "absent", "init", "live"
  qdisc,         \* dev->qdisc
  queue,         \* qdisc of every transmit queue of the device
  active,        \* the queues are activated
  rx_handler,    \* iso_rx_handler is registered
  gso,           \* dev->gso_max_size: "driver" or "iso"
  txc, rxc,      \* [Inst -> ...]: priv->txc and priv->rxc
  qdiscs,        \* [Inst -> ...]: length of priv->qdiscs so far, -1: NULL
  prev_gso,      \* txc->__prev_ISO_GSO_MAX_SIZE
  cls, vq,       \* the class and the virtual queue of an instance
  assoc,         \* the class holds a reference on the queue
  txctx_list, rxctx_list,
  pc, op,        \* what the holder of rtnl does
  new, old,      \* the root to come, the instance being destroyed
  ret,           \* where it goes on after a grace period, a destruction
  gp,            \* readers the grace period still waits for
  path, ctx,     \* receive and transmit paths: where, and on which context
  writer,        \* a write of a parameter and the instance it has found
  reader,        \* the context a reader of the statistics is at
  refused,       \* history: a root was refused because another one runs
  raced          \* history: a write created something in a dying instance

moduleVars == <<registered, module>>
devVars == <<qdisc, queue, active, rx_handler, gso>>
ctxVars == <<txc, rxc, qdiscs, prev_gso, txctx_list, rxctx_list>>
objVars == <<cls, vq, assoc>>
tcVars == <<pc, op, new, old, ret>>
pathVars == <<path, ctx>>
vars == <<moduleVars, devVars, ctxVars, objVars, tcVars, gp, pathVars,
          writer, reader, refused, raced>>

NoWrite == [op |-> "none", at |-> None]
Busy == {c \in Rx \cup Tx : path[c] # "out"}

Init ==
  /\ registered = {} /\ module = "absent"
  /\ qdisc = Default /\ queue = [n \in Queue |-> Default] /\ active = TRUE
  /\ rx_handler = FALSE /\ gso = "driver"
  /\ txc = [i \in Inst |-> "none"] /\ rxc = [i \in Inst |-> "none"]
  /\ qdiscs = [i \in Inst |-> -1] /\ prev_gso = [i \in Inst |-> "driver"]
  /\ cls = [i \in Inst |-> "none"] /\ vq = [i \in Inst |-> "none"]
  /\ assoc = [i \in Inst |-> FALSE]
  /\ txctx_list = {} /\ rxctx_list = {}
  /\ pc = "free" /\ op = "none" /\ new = None /\ old = None
  /\ ret = [sync |-> "free", destroy |-> "free"]
  /\ gp = {}
  /\ path = [c \in Rx \cup Tx |-> "out"] /\ ctx = [c \in Rx \cup Tx |-> {}]
  /\ writer = NoWrite /\ reader = None
  /\ refused = FALSE /\ raced = {}

-----------------------------------------------------------------------------
(* The module: iso_init and iso_exit.                                       *)

Order == <<"sysctl", "stats", "csvstats", "qdisc">>
NextEntry ==
  Order[CHOOSE k \in 1..4 : /\ Order[k] \notin registered
                            /\ \A j \in 1..(k - 1) : Order[j] \in registered]

\* What stays registered when the registration of e fails: the labels out_2,
\* out_1 and out of iso_init, and iso_stats_init undoing its own first half.
\* Mutant: out_2 does not fall through to out_1.
Rollback_Out1(e) == IF e = "qdisc" THEN {"sysctl"} ELSE {}
Rollback(e) ==
  CASE e = "sysctl"   -> registered
    [] e = "stats"    -> registered \ {"sysctl"}
    [] e = "csvstats" -> registered \ {"stats", "sysctl"}
    [] e = "qdisc"    -> registered \ {"stats", "csvstats", "sysctl"}

modUnchanged == UNCHANGED <<devVars, ctxVars, objVars, tcVars, gp, pathVars,
                            writer, reader, refused, raced>>

InitStart ==
  /\ module = "absent"
  /\ module' = "init"
  /\ UNCHANGED registered /\ modUnchanged

InitRegister ==
  /\ module = "init"
  /\ registered' = registered \cup {NextEntry}
  /\ module' = IF registered' = Entries THEN "live" ELSE "init"
  /\ modUnchanged

\* remove_proc_entry waits for a show that is in progress.
InitFails ==
  /\ module = "init" /\ reader = None
  /\ registered' = Rollback(NextEntry)
  /\ module' = "absent"
  /\ modUnchanged

\* A qdisc of the module or an open statistics file pins the module.
iso_exit ==
  /\ module = "live" /\ reader = None /\ writer = NoWrite
  /\ qdisc \notin Inst /\ pc = "free"
  /\ registered' = registered \ {"stats", "csvstats", "sysctl", "qdisc"}
  /\ module' = "absent"
  /\ modUnchanged

-----------------------------------------------------------------------------
(* tc under rtnl.  Every step below is one of the operation in progress.    *)

others == <<moduleVars, objVars, pathVars, writer, reader>>

\* Wait for a grace period (synchronize_net, synchronize_rcu), then go on.
Sync(label) ==
  /\ pc' = "sync" /\ gp' = Busy
  /\ ret' = [ret EXCEPT !.sync = label]
EndSync ==
  /\ pc = "sync" /\ gp = {}
  /\ pc' = ret.sync /\ ret' = [ret EXCEPT !.sync = "free"]
  /\ UNCHANGED <<others, devVars, ctxVars, op, new, old, gp, refused, raced>>

Goto(label) == pc' = label /\ UNCHANGED <<ret, gp>>
\* mq_destroy(i), then go on.
Destroy(i, label) ==
  /\ pc' = "tx_exit" /\ old' = i
  /\ ret' = [ret EXCEPT !.destroy = label]
  /\ UNCHANGED gp

Unused(i) ==
  /\ txc[i] = "none" /\ rxc[i] = "none" /\ qdiscs[i] = -1
  /\ cls[i] = "none" /\ vq[i] = "none"
  /\ i # qdisc /\ i \notin {queue[n] : n \in Queue}
  /\ writer.at # i /\ reader # i

\* tc qdisc add or replace ... root, with a qdisc of this module.
TcReplace(i) ==
  /\ pc = "free" /\ module = "live" /\ Unused(i)
  /\ op' = "replace" /\ new' = i /\ Goto("alloc")
  /\ UNCHANGED <<others, devVars, ctxVars, old, refused, raced>>

\* tc qdisc del ... root.
TcDelete ==
  /\ pc = "free" /\ qdisc \in Inst
  /\ op' = "delete" /\ new' = Default /\ Goto("deactivate")
  /\ UNCHANGED <<others, devVars, ctxVars, old, refused, raced>>

\* tc qdisc add ... parent, on one of the queues.
TcGraft ==
  /\ pc = "free" /\ qdisc \in Inst
  /\ op' = "graft" /\ new' = Default /\ Goto("deactivate")
  /\ UNCHANGED <<others, devVars, ctxVars, old, refused, raced>>

-----------------------------------------------------------------------------
(* mq_init(new).  Every allocation may fail.                                *)

AllocQdiscs ==
  /\ pc = "alloc"
  /\ \/ Goto("free") /\ op' = "none" /\ new' = None /\ UNCHANGED qdiscs
     \/ /\ Goto("contexts") /\ UNCHANGED <<op, new>>
        /\ qdiscs' = [qdiscs EXCEPT ![new] = 0]
  /\ UNCHANGED <<others, devVars, txc, rxc, prev_gso, txctx_list, rxctx_list,
                 old, refused, raced>>

AllocContexts ==
  /\ pc = "contexts"
  /\ \E t, r \in {"none", "zeroed"} :
       /\ r = "zeroed" => t = "zeroed"
       /\ txc' = [txc EXCEPT ![new] = t] /\ rxc' = [rxc EXCEPT ![new] = r]
       /\ IF r = "zeroed" THEN Goto("tx_init") /\ UNCHANGED old
                          ELSE Destroy(new, "fail")
  /\ UNCHANGED <<others, devVars, qdiscs, prev_gso, txctx_list, rxctx_list,
                 op, new, refused, raced>>

iso_tx_init ==
  /\ pc = "tx_init"
  /\ txc' = [txc EXCEPT ![new] = "live"]
  /\ txctx_list' = txctx_list \cup {new}
  /\ prev_gso' = [prev_gso EXCEPT ![new] = gso] /\ gso' = "iso"
  /\ Sync("rx_init")
  /\ UNCHANGED <<others, qdisc, queue, active, rx_handler, rxc, qdiscs,
                 rxctx_list, op, new, old, refused, raced>>

\* iso_rl_prep, or alloc_percpu in iso_rx_init, fails.
InitNoMemory ==
  /\ pc \in {"tx_init", "rx_init"}
  /\ Destroy(new, "fail")
  /\ UNCHANGED <<others, devVars, ctxVars, op, new, refused, raced>>

\* A device has one receive handler: it is refused while one is registered.
iso_rx_init ==
  /\ pc = "rx_init"
  /\ rxc' = [rxc EXCEPT ![new] = "live"]
  /\ rxctx_list' = rxctx_list \cup {new}
  /\ rx_handler' = TRUE /\ refused' = (refused \/ rx_handler)
  /\ Sync(IF rx_handler THEN "refused" ELSE "dflt")
  /\ UNCHANGED <<others, qdisc, queue, active, gso, txc, qdiscs, prev_gso,
                 txctx_list, op, new, old, raced>>

Refused ==
  /\ pc = "refused"
  /\ Destroy(new, "fail")
  /\ UNCHANGED <<others, devVars, ctxVars, op, new, refused, raced>>

\* The bound of the loop over the transmit queues.
\* Mutant: off by one.
MoreQueues_Plus(i) == qdiscs[i] <= NumTx
MoreQueues(i) == qdiscs[i] < NumTx

\* qdisc_create_dflt for every transmit queue.
CreateDflt ==
  /\ pc = "dflt"
  /\ \/ /\ MoreQueues(new)
        /\ qdiscs' = [qdiscs EXCEPT ![new] = @ + 1]
        /\ Goto("dflt") /\ UNCHANGED old
     \/ /\ Destroy(new, "fail")        \* no memory, or tc gives up later
        /\ UNCHANGED qdiscs
     \/ /\ ~MoreQueues(new)
        /\ Goto("deactivate") /\ UNCHANGED <<qdiscs, old>>
  /\ UNCHANGED <<others, devVars, txc, rxc, prev_gso, txctx_list, rxctx_list,
                 op, new, refused, raced>>

InitFailed ==
  /\ pc = "fail"
  /\ Goto("free") /\ op' = "none" /\ new' = None
  /\ UNCHANGED <<others, devVars, ctxVars, old, refused, raced>>

-----------------------------------------------------------------------------
(* mq_destroy(old), when mq_init fails or when the root goes.               *)

\* iso_tx_exit and iso_rx_exit work on lists that iso_tx_init and iso_rx_init
\* set up.  On a context that is still all zeroes they follow NULL pointers:
\* the process dies ("oops") and rtnl is never released.
iso_tx_exit ==
  /\ pc = "tx_exit"
  /\ CASE txc[old] = "none"   -> Goto("rx_exit")
       [] txc[old] = "zeroed" -> Goto("oops")
       [] txc[old] = "live"   -> Goto("classes")
  /\ txctx_list' = txctx_list \ {old}
  /\ UNCHANGED <<others, devVars, txc, rxc, qdiscs, prev_gso, rxctx_list,
                 op, new, old, refused, raced>>

\* The class leaves its bucket, and iso_txc_free waits.
ClassUnhash ==
  /\ pc = "classes"
  /\ IF cls[old] = "live"
       THEN cls' = [cls EXCEPT ![old] = "unhashed"] /\ Sync("class_free")
       ELSE UNCHANGED cls /\ Goto("tx_exited")
  /\ UNCHANGED <<moduleVars, vq, assoc, pathVars, writer, reader, devVars,
                 ctxVars, op, new, old, refused, raced>>

\* iso_vq_put of the class's queue.
\* Mutant: the reference is kept.
PutVq_Never(i) == assoc
PutVq(i) == [assoc EXCEPT ![i] = FALSE]
ClassFree ==
  /\ pc = "class_free"
  /\ cls' = [cls EXCEPT ![old] = "none"]
  /\ assoc' = PutVq(old)
  /\ Goto("tx_exited")
  /\ UNCHANGED <<moduleVars, vq, pathVars, writer, reader, devVars, ctxVars,
                 op, new, old, refused, raced>>

\* dev->gso_max_size after iso_tx_exit.
\* Mutant: not restored.
RestoredGso_Never(i) == gso
RestoredGso(i) == prev_gso[i]
TxExited ==
  /\ pc = "tx_exited"
  /\ gso' = RestoredGso(old)
  /\ Goto("rx_exit")
  /\ UNCHANGED <<others, qdisc, queue, active, rx_handler, ctxVars,
                 op, new, old, refused, raced>>

\* A queue that a class refers to is not freed.
iso_rx_exit ==
  /\ pc = "rx_exit"
  /\ CASE rxc[old] = "none"   -> Goto("release")
       [] rxc[old] = "zeroed" -> Goto("oops")
       [] rxc[old] = "live"   -> IF vq[old] = "live" /\ ~assoc[old]
                                   THEN Sync("vq_free") ELSE Goto("unhook")
  /\ rxctx_list' = rxctx_list \ {old}
  /\ UNCHANGED <<others, devVars, txc, rxc, qdiscs, prev_gso, txctx_list,
                 op, new, old, refused, raced>>

VqFree ==
  /\ pc = "vq_free"
  /\ vq' = [vq EXCEPT ![old] = "none"]
  /\ Goto("unhook")
  /\ UNCHANGED <<moduleVars, cls, assoc, pathVars, writer, reader, devVars,
                 ctxVars, op, new, old, refused, raced>>

\* The grace period after netdev_rx_handler_unregister.
\* Mutant: none.
UnhookWait_Not == Goto("release")
UnhookWait == Sync("release")
iso_rx_hook_exit ==
  /\ pc = "unhook"
  /\ rx_handler' = FALSE
  /\ UnhookWait
  /\ UNCHANGED <<others, qdisc, queue, active, gso, ctxVars, op, new, old,
                 refused, raced>>

\* Both contexts are freed; the local qdiscs are destroyed if they have not
\* been attached.
Release ==
  /\ pc = "release"
  /\ txc' = [txc EXCEPT ![old] = "none"] /\ rxc' = [rxc EXCEPT ![old] = "none"]
  /\ qdiscs' = [qdiscs EXCEPT ![old] = -1]
  /\ prev_gso' = [prev_gso EXCEPT ![old] = "driver"]
  /\ pc' = ret.destroy /\ ret' = [ret EXCEPT !.destroy = "free"]
  /\ old' = None
  /\ UNCHANGED <<gp, others, devVars, txctx_list, rxctx_list, op, new,
                 refused, raced>>

-----------------------------------------------------------------------------
(* Attachment.                                                              *)

\* dev_deactivate: nobody enters iso_enqueue, and those inside leave.
Deactivate ==
  /\ pc = "deactivate"
  /\ active' = FALSE
  /\ Sync(op)
  /\ UNCHANGED <<others, qdisc, queue, rx_handler, gso, ctxVars, op, new, old,
                 refused, raced>>

\* mq_attach, then the kernel destroys the old root.
mq_attach ==
  /\ pc = "replace"
  /\ queue' = [n \in Queue |-> new]
  /\ qdiscs' = [qdiscs EXCEPT ![new] = -1]
  /\ IF qdisc \in Inst THEN Destroy(qdisc, "swap")
                       ELSE Goto("swap") /\ UNCHANGED old
  /\ UNCHANGED <<others, qdisc, active, rx_handler, gso, txc, rxc, prev_gso,
                 txctx_list, rxctx_list, op, new, refused, raced>>

Detach ==
  /\ pc = "delete"
  /\ queue' = [n \in Queue |-> Default]
  /\ Destroy(qdisc, "swap")
  /\ UNCHANGED <<others, qdisc, active, rx_handler, gso, ctxVars, op, new,
                 refused, raced>>

mq_graft(n) ==
  /\ pc = "graft"
  /\ queue' = [queue EXCEPT ![n] = Default]
  /\ Goto("activate")
  /\ UNCHANGED <<others, qdisc, active, rx_handler, gso, ctxVars, op, new, old,
                 refused, raced>>

Swap ==
  /\ pc = "swap"
  /\ qdisc' = new
  /\ Goto("activate")
  /\ UNCHANGED <<others, queue, active, rx_handler, gso, ctxVars, op, new, old,
                 refused, raced>>

Activate ==
  /\ pc = "activate"
  /\ active' = TRUE
  /\ Goto("free") /\ op' = "none" /\ new' = None
  /\ UNCHANGED <<others, qdisc, queue, rx_handler, gso, ctxVars, old,
                 refused, raced>>

-----------------------------------------------------------------------------
(* Those who use the contexts.                                              *)

pathUnchanged == UNCHANGED <<moduleVars, devVars, ctxVars, objVars, tcVars,
                             writer, reader, refused, raced>>

At(c, p, held) ==
  /\ path' = [path EXCEPT ![c] = p]
  /\ ctx' = [ctx EXCEPT ![c] = held]
Leaves(c) == At(c, "out", {}) /\ gp' = gp \ {c}

RxEnter(c) ==
  /\ path[c] = "out" /\ rx_handler
  /\ At(c, "handler", {}) /\ UNCHANGED gp /\ pathUnchanged

\* iso_rx_handler passes packets it has no business with, or when the root
\* is not of this kind.
RxCheck(c) ==
  /\ path[c] = "handler"
  /\ \/ Leaves(c)
     \/ qdisc \in Inst /\ At(c, "enabled", {}) /\ UNCHANGED gp
  /\ pathUnchanged

\* iso_rxctx_dev, and then iso_txctx_dev for the sender's state and again for
\* the feedback packet, read dev->qdisc once more.
RxContext(c) ==
  /\ path[c] \in {"enabled", "iso_rx"}
  /\ At(c, "iso_rx", ctx[c] \cup {qdisc})
  /\ UNCHANGED gp /\ pathUnchanged

\* Mutant: without rcu_read_unlock.
RxLeave_NoUnlock(c) ==
  /\ path[c] = "iso_rx"
  /\ At(c, "out", {}) /\ UNCHANGED gp /\ pathUnchanged
RxLeave(c) ==
  /\ path[c] = "iso_rx"
  /\ Leaves(c) /\ pathUnchanged

\* iso_enqueue of a local qdisc; the contexts are those of the root.
TxEnter(c) ==
  /\ path[c] = "out" /\ active /\ \E n \in Queue : queue[n] \in Inst
  /\ At(c, "iso_tx", {qdisc}) /\ UNCHANGED gp /\ pathUnchanged
TxLeave(c) ==
  /\ path[c] = "iso_tx"
  /\ Leaves(c) /\ pathUnchanged

\* A write of create_txc or create_vq finds the contexts of the device ...
WriterFind(o) ==
  /\ writer = NoWrite /\ module = "live" /\ qdisc \in Inst
  /\ writer' = [op |-> o, at |-> qdisc]
  /\ UNCHANGED <<moduleVars, devVars, ctxVars, objVars, tcVars, gp, pathVars,
                 reader, refused, raced>>

\* ... may sleep in an allocation, and adds the class or the queue.
WriterCreate ==
  /\ writer # NoWrite
  /\ LET i == writer.at
         live == txc[i] = "live" /\ rxc[i] = "live"
     IN  /\ cls' = IF writer.op = "create_txc" /\ live /\ cls[i] = "none"
                     THEN [cls EXCEPT ![i] = "live"] ELSE cls
         /\ vq' = IF writer.op = "create_vq" /\ live /\ vq[i] = "none"
                    THEN [vq EXCEPT ![i] = "live"] ELSE vq
         /\ raced' = IF live /\ old # i THEN raced ELSE raced \cup {i}
  /\ writer' = NoWrite
  /\ UNCHANGED <<moduleVars, devVars, ctxVars, assoc, tcVars, gp, pathVars,
                 reader, refused>>

\* assoc_txc_vq finds both under rcu_read_lock and takes the reference.
WriterAssoc(i) ==
  /\ writer = NoWrite /\ module = "live" /\ qdisc = i
  /\ cls[i] = "live" /\ vq[i] = "live" /\ ~assoc[i]
  /\ assoc' = [assoc EXCEPT ![i] = TRUE]
  /\ UNCHANGED <<moduleVars, devVars, ctxVars, cls, vq, tcVars, gp, pathVars,
                 writer, reader, refused, raced>>

\* iso_stats_proc_seq_show or iso_csvstats_proc_seq_show comes to a context of
\* one of the lists ...
StatsShow(i) ==
  /\ registered \cap {"stats", "csvstats"} # {} /\ reader = None
  /\ i \in txctx_list \cup rxctx_list
  /\ reader' = i
  /\ UNCHANGED <<moduleVars, devVars, ctxVars, objVars, tcVars, gp, pathVars,
                 writer, refused, raced>>

\* ... and is done with it.
StatsDone ==
  /\ reader # None
  /\ reader' = None
  /\ UNCHANGED <<moduleVars, devVars, ctxVars, objVars, tcVars, gp, pathVars,
                 writer, refused, raced>>

-----------------------------------------------------------------------------
Module == InitStart \/ InitRegister \/ InitFails \/ iso_exit

\* Bound: a behaviour in which a write has created something in a dying
\* instance is followed to the end of the operation in progress.
TcStart ==
  /\ raced = {}
  /\ TcDelete \/ TcGraft \/ \E i \in Inst : TcReplace(i)
TcStep ==
  \/ AllocQdiscs \/ AllocContexts \/ iso_tx_init \/ InitNoMemory \/ iso_rx_init
  \/ Refused \/ CreateDflt \/ InitFailed \/ EndSync
  \/ iso_tx_exit \/ ClassUnhash \/ ClassFree \/ TxExited \/ iso_rx_exit
  \/ VqFree \/ iso_rx_hook_exit \/ Release
  \/ Deactivate \/ mq_attach \/ Detach \/ Swap \/ Activate
  \/ \E n \in Queue : mq_graft(n)
PathStep(c) ==
  \/ c \in Rx /\ (RxCheck(c) \/ RxContext(c) \/ RxLeave(c))
  \/ c \in Tx /\ TxLeave(c)

Next ==
  \/ Module \/ TcStart \/ TcStep
  \/ \E c \in Rx : RxEnter(c)
  \/ \E c \in Tx : TxEnter(c)
  \/ \E c \in Rx \cup Tx : PathStep(c)
  \/ \E o \in {"create_txc", "create_vq"} : WriterFind(o)
  \/ WriterCreate \/ StatsDone
  \/ \E i \in Inst : WriterAssoc(i) \/ StatsShow(i)

Spec == Init /\ [][Next]_vars

\* An operation of tc that was started goes on, packet paths run to their
\* end with bottom halves disabled.
FairSpec ==
  /\ Spec
  /\ WF_vars(TcStep)
  /\ \A c \in Rx \cup Tx : WF_vars(PathStep(c))

-----------------------------------------------------------------------------
\* Types of the variables.
TypeOK ==
  /\ registered \subseteq Entries /\ module \in {"absent", "init", "live"}
  /\ qdisc \in Inst \cup {Default} /\ queue \in [Queue -> Inst \cup {Default}]
  /\ active \in BOOLEAN /\ rx_handler \in BOOLEAN /\ gso \in {"driver", "iso"}
  /\ txc \in [Inst -> {"none", "zeroed", "live"}]
  /\ rxc \in [Inst -> {"none", "zeroed", "live"}]
  /\ qdiscs \in [Inst -> -1..NumTx] /\ prev_gso \in [Inst -> {"driver", "iso"}]
  /\ cls \in [Inst -> {"none", "live", "unhashed"}]
  /\ vq \in [Inst -> {"none", "live"}] /\ assoc \in [Inst -> BOOLEAN]
  /\ txctx_list \subseteq Inst /\ rxctx_list \subseteq Inst
  /\ op \in {"none", "replace", "delete", "graft"}
  /\ new \in Inst \cup {Default, None} /\ old \in Inst \cup {None}
  /\ gp \subseteq Rx \cup Tx
  /\ ctx \in [Rx \cup Tx -> SUBSET (Inst \cup {Default})]
  /\ writer.at \in Inst \cup {None} /\ reader \in Inst \cup {None}
  /\ refused \in BOOLEAN /\ raced \subseteq Inst

\* The packet paths take no lock that tc takes and read dev->qdisc again after
\* the check of iso_enabled, or without a check; the contexts they get are
\* alive until they are done.
PathsHoldLiveContexts ==
  \A c \in Rx \cup Tx : \A i \in ctx[c] :
    i \in Inst /\ txc[i] = "live" /\ rxc[i] = "live"

\* mq_init that fails at any point it survives, and mq_destroy, give back all
\* they took: an instance that is neither the root nor in the hands of tc has
\* no memory and is on no list, unless a creation overlapped its end.
TeardownReleasesAll ==
  \A i \in Inst \ raced :
    i \notin {qdisc, new, old} =>
      /\ txc[i] = "none" /\ rxc[i] = "none" /\ qdiscs[i] = -1
      /\ cls[i] = "none" /\ vq[i] = "none"
      /\ i \notin txctx_list \cup rxctx_list
      /\ \A n \in Queue : queue[n] # i

\* Between two operations the device has the receive handler and the small
\* gso_max_size exactly while EyeQ is its root, as long as no second EyeQ
\* root has been refused on it.
DeviceFollowsRoot ==
  pc = "free" /\ ~refused =>
    (rx_handler <=> qdisc \in Inst) /\ (gso = "iso" <=> qdisc \in Inst)

\* Whatever step of iso_init failed, and after iso_exit, nothing that leads
\* into the code of the module remains.
UnloadedIsClean ==
  module = "absent" =>
    registered = {} /\ ~rx_handler /\ qdisc \notin Inst
      /\ txctx_list = {} /\ rxctx_list = {}

\* The grace periods of a destruction end although packets keep arriving: tc
\* gives rtnl back unless it has died.
OperationsEnd == pc # "free" ~> pc \in {"free", "oops"}
=============================================================================
