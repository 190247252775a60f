---------------------------- MODULE ClassConfig ----------------------------
(***************************************************************************)
(* The transmit classes and the virtual queues of one device: the sysfs     *)
(* writes of params.c that create, delete, associate and parameterise them, *)
(* the periodic rate computation iso_txc_tick of the transmit path, and the *)
(* look-ups of the packet paths iso_tx and iso_rx.                          *)
(*                                                                          *)
(* A Writer is a process writing to a parameter file.  All handlers run     *)
(* under config_mutex; the packet paths do not take it and are protected by *)
(* RCU.  A Cpu executes iso_tx or iso_rx inside an RCU read section.        *)
(*                                                                          *)
(* The k-th object allocated is index k of txc (or vq); 0 is NULL.  Memory  *)
(* that has been freed keeps its contents and is not reused: a step that    *)
(* follows a pointer to it reads what was there.  rate is txc->rl.rate,     *)
(* which iso_rl_clock also writes: it halves it about once a second, since  *)
(* nothing ever refreshes last_rate_update_time of a class, and lowers it   *)
(* when the class was idle.                                                 *)
(***************************************************************************)
EXTENDS Integers, Sequences, FiniteSets, FiniteSetsExt, Sums

CONSTANTS
  Writer,                    \* processes that write to parameter files
  Cpu,                       \* CPUs that run the packet paths
  Klass,                     \* classes (IP addresses)
  Bucket,                    \* the hash bucket of a class
  Requests,                  \* what may be written, see Request
  TxRates,                   \* total transmit rates a tick can measure
  Delays,                    \* what iso_rl_clock can find, <<idle, late>>:
                             \* the last refill, the last rate update timed out
  MaxTxc,                    \* bound: transmit classes allocated
  MaxVq,                     \* bound: virtual queues allocated
  None,                      \* no process
  U32,                       \* 2^32, the modulus of u32 arithmetic
  MaxWeight,                 \* largest weight the handlers accept (1024)
  MaxCap,                    \* largest rate set_txc_rate accepts (1024)
  ISO_MAX_TX_RATE,
  ISO_VQ_DRAIN_RATE_MBPS,
  ISO_MIN_RFAIR,
  ISO_RFAIR_INITIAL,
  ISO_IDLE_RATE

\* What a write asks for.  The form says whether the text parses and names a
\* device that has the qdisc; a is the class, b the second class of an
\* association, val a weight or a rate.
Ops == {"create_txc", "create_vq", "assoc_txc_vq", "set_txc_weight",
        "set_txc_rate", "set_vq_weight", "set_vq_rate", "delete_txc",
        "delete_vq", "recompute_dev"}
Request == [op : Ops, form : {"ok", "nodev", "malformed"},
            a : Klass, b : Klass, val : Int]

ASSUME ConfigAssumption ==
  /\ Requests # {} /\ Requests \subseteq Request
  /\ Writer \cap Cpu = {} /\ None \notin Writer \cup Cpu \cup Klass
  /\ Delays \subseteq BOOLEAN \X BOOLEAN
  /\ ISO_MIN_RFAIR \in Nat /\ ISO_RFAIR_INITIAL \in Nat /\ ISO_IDLE_RATE \in Nat
  /\ ISO_MAX_TX_RATE \in Nat \ {0} /\ ISO_MIN_RFAIR <= ISO_MAX_TX_RATE
  /\ ISO_VQ_DRAIN_RATE_MBPS \in Nat
  /\ U32 \in Nat \ {0} /\ TxRates \subseteq 0..(U32 - 1)
  /\ MaxWeight \in Nat \ {0} /\ MaxCap \in Nat /\ MaxTxc \in Nat /\ MaxVq \in Nat

VARIABLES
  \* struct iso_tx_context
  txc,               \* Seq of struct iso_tx_class, every one ever allocated
  tx_hash,           \* the classes in iso_tx_bucket
  txc_list,          \* Seq of classes
  txc_total_weight,
  txc_spinlock,      \* its holder, a Cpu, a Writer or None
  ctx_rate,          \* context->rate
  \* struct iso_rx_context
  vq,                \* Seq of struct iso_vq
  vq_hash,           \* the queues in vq_bucket
  vq_list,           \* the queues linked; their order is never used
  \* the writers
  config_mutex,      \* its holder or None
  wpc, req, obj,     \* program point, request, object worked on
  ret,               \* the value a handler is going to return, 0 or -EINVAL
  grace,             \* the read sections synchronize_rcu waits for
  \* the packet paths
  cpc,               \* program point
  cur,               \* index into txc_list of the class a tick is visiting
  held,              \* the objects a read section has looked up, and the
                     \* class it still looks for
  clk                \* the class whose limiter is clocked, its next rate

txVars == <<txc, tx_hash, txc_list, txc_total_weight>>
vqVars == <<vq, vq_hash, vq_list>>
writerVars == <<wpc, req, obj, ret, grace>>
cpuVars == <<cpc, cur, held, clk>>
vars == <<txVars, txc_spinlock, ctx_rate, vqVars, config_mutex,
          writerVars, cpuVars>>

EINVAL == 22
NoRequest == CHOOSE r \in Requests : TRUE
Nothing == [key |-> None, txc |-> 0, vq |-> 0]
NoClock == [txc |-> 0, rate |-> 0]
Min2(a, b) == IF a <= b THEN a ELSE b
Max2(a, b) == IF a >= b THEN a ELSE b

\* cut is history: iso_rl_clock was the last to write the rate.
TxClass == [klass : Klass, weight : 0..MaxWeight, min_rate : Nat,
            max_rate : Nat, is_static : BOOLEAN, rate : Nat,
            vq : 0..MaxVq, freed : BOOLEAN, cut : BOOLEAN]
VirtQueue == [klass : Klass, weight : 0..MaxWeight, rate : Nat,
              is_static : BOOLEAN, refcnt : Int, freed : BOOLEAN]

-----------------------------------------------------------------------------
\* The classes that have not been freed.
Classes == {o \in DOMAIN txc : ~txc[o].freed}

\* iso_txc_find and iso_vq_find: the entry of the class, NULL if there is none.
iso_txc_find(k) ==
  LET hits == {o \in tx_hash : txc[o].klass = k}
  IN  IF hits = {} THEN 0 ELSE Max(hits)
iso_vq_find(k) ==
  LET hits == {v \in vq_hash : vq[v].klass = k}
  IN  IF hits = {} THEN 0 ELSE Max(hits)

\* iso_txc_init with the rate of iso_rl_init
iso_txc_init(k) ==
  [klass |-> k, weight |-> 1, min_rate |-> ISO_MAX_TX_RATE,
   max_rate |-> ISO_MAX_TX_RATE, is_static |-> FALSE,
   rate |-> ISO_RFAIR_INITIAL, vq |-> 0, freed |-> FALSE, cut |-> FALSE]
iso_vq_init(k) ==
  [klass |-> k, weight |-> 1, rate |-> ISO_MIN_RFAIR, is_static |-> FALSE,
   refcnt |-> 0, freed |-> FALSE]

Recomputed_Uncapped(t, total) ==
  LET min_rate == (t.weight * ISO_MAX_TX_RATE) \div total
  IN  [t EXCEPT !.min_rate = min_rate, !.rate = min_rate, !.cut = FALSE]
\* The class t after iso_txc_recompute_rates.
Recomputed(t, total) ==
  LET min_rate == (t.weight * ISO_MAX_TX_RATE) \div total
  IN  [t EXCEPT !.min_rate = min_rate,
                !.rate = IF t.is_static THEN Min2(t.max_rate, min_rate)
                                        ELSE min_rate,
                !.cut = FALSE]

\* iso_vq_calculate_rates over the queues of list l.
iso_vq_calculate_rates(q, l) ==
  LET total == Total([v \in l |-> q[v].weight], l)
  IN  IF total = 0
        THEN q
        ELSE [v \in DOMAIN q |->
                IF v \in l /\ ~q[v].is_static
                  THEN [q[v] EXCEPT !.rate =
                          (ISO_VQ_DRAIN_RATE_MBPS * q[v].weight) \div total]
                  ELSE q[v]]

-----------------------------------------------------------------------------
(* The assignments of the handlers and of the tick.                         *)

\* vq after iso_sys_assoc_txc_vq points class o at queue v.
Associated_NoDec(o, v) == [vq EXCEPT ![v].refcnt = @ + 1]
Associated(o, v) ==
  LET dropped == IF txc[o].vq = 0 THEN vq
                 ELSE [vq EXCEPT ![txc[o].vq].refcnt = @ - 1]
  IN  [dropped EXCEPT ![v].refcnt = @ + 1]

\* vq after iso_txc_free drops the reference of class o.
Unreferred(o) ==
  IF txc[o].vq = 0 THEN vq ELSE [vq EXCEPT ![txc[o].vq].refcnt = @ - 1]

Referred(v) == vq[v].refcnt > 0

\* txc_total_weight after class o gets weight n.
Reweighted_NoAdd(o, n) == txc_total_weight - txc[o].weight
Reweighted(o, n) == txc_total_weight - txc[o].weight + n

\* vq after iso_sys_set_vq_rate; 0 makes the rate dynamic again.
RateSet_Stale(v, n) ==
  [vq EXCEPT ![v].is_static = n > 0, ![v].rate = IF n > 0 THEN n ELSE @]
RateSet(v, n) ==
  IF n > 0
    THEN [vq EXCEPT ![v].is_static = TRUE, ![v].rate = n]
    ELSE iso_vq_calculate_rates([vq EXCEPT ![v].is_static = FALSE], vq_list)

\* The read sections in progress; the tasklet, which clocks a limiter too, is
\* not one.
Readers_None == {}
Readers == {c \in Cpu : cpc[c] # "idle" /\ (cpc[c] = "clock" => held[c] # Nothing)}

RcpRate_Unclamped(r, tx) ==
  ((r * ((3 * ISO_MAX_TX_RATE - tx) % U32)) % U32) \div (2 * ISO_MAX_TX_RATE)
\* context->rate after a tick that measured tx, in u32 arithmetic.
RcpRate(r, tx) ==
  LET next == ((r * ((3 * ISO_MAX_TX_RATE - tx) % U32)) % U32)
                \div (2 * ISO_MAX_TX_RATE)
  IN  Max2(ISO_MIN_RFAIR, Min2(ISO_MAX_TX_RATE, next))

\* rl->rate of class t after its round of the tick.
TickRate(t) ==
  LET share == Max2(t.min_rate, Min2(ISO_MAX_TX_RATE, ctx_rate * t.weight))
  IN  IF t.is_static THEN Min2(t.max_rate, share) ELSE share

\* rl->rate after the idle and the feedback timeouts of iso_rl_clock.
ClockedRate(r, idle, late) ==
  LET awake == IF idle /\ r > ISO_IDLE_RATE THEN ISO_IDLE_RATE ELSE r
  IN  IF late THEN Max2(2, awake \div 2) ELSE awake

Init ==
  /\ txc = <<>> /\ tx_hash = {} /\ txc_list = <<>> /\ txc_total_weight = 0
  /\ txc_spinlock = None /\ ctx_rate = 2
  /\ vq = <<>> /\ vq_hash = {} /\ vq_list = {}
  /\ config_mutex = None
  /\ wpc = [w \in Writer |-> "idle"]
  /\ req = [w \in Writer |-> NoRequest]
  /\ obj = [w \in Writer |-> 0]
  /\ ret = [w \in Writer |-> 0]
  /\ grace = [w \in Writer |-> {}]
  /\ cpc = [c \in Cpu |-> "idle"]
  /\ cur = [c \in Cpu |-> 0]
  /\ held = [c \in Cpu |-> Nothing]
  /\ clk = [c \in Cpu |-> NoClock]

-----------------------------------------------------------------------------
(* The handlers.  Write: down_interruptible is called; Down, Interrupted:   *)
(* it returns; the body runs; the rates are recomputed; a deletion waits    *)
(* for a grace period and frees; Up: the handler releases and returns.      *)

Write(w, r) ==
  /\ wpc[w] = "idle"
  /\ wpc' = [wpc EXCEPT ![w] = "down"]
  /\ req' = [req EXCEPT ![w] = r]
  /\ UNCHANGED <<txVars, txc_spinlock, ctx_rate, vqVars, config_mutex, obj,
                 ret, grace, cpuVars>>

MutexFree_Ignored == TRUE
MutexFree == config_mutex = None
Down(w) ==
  /\ wpc[w] = "down" /\ MutexFree
  /\ config_mutex' = w
  /\ wpc' = [wpc EXCEPT ![w] = "body"]
  /\ UNCHANGED <<txVars, txc_spinlock, ctx_rate, vqVars, req, obj, ret,
                 grace, cpuVars>>

Interrupted(w) ==
  /\ wpc[w] = "down" /\ config_mutex # None
  /\ wpc' = [wpc EXCEPT ![w] = "idle"]
  /\ req' = [req EXCEPT ![w] = NoRequest]
  /\ UNCHANGED <<txVars, txc_spinlock, ctx_rate, vqVars, config_mutex, obj,
                 ret, grace, cpuVars>>

\* The body of w's handler ends at program point p, working on object o, with
\* the value e for the caller.
Finish(w, p, o, e) ==
  /\ wpc' = [wpc EXCEPT ![w] = p]
  /\ obj' = [obj EXCEPT ![w] = o]
  /\ ret' = [ret EXCEPT ![w] = e]
  /\ UNCHANGED <<txc_spinlock, ctx_rate, config_mutex, req, grace, cpuVars>>

InBody(w, op) ==
  /\ wpc[w] = "body" /\ req[w].op = op /\ req[w].form = "ok"

\* A text that does not parse, or a device that is not known, be it because
\* its name is garbled.  iso_sys_recompute_dev jumps past its up(&config_mutex)
\* when the text does not parse; iso_sys_assoc_txc_vq returns 0 for an unknown
\* device.
BadForm_Leaks(r) == IF r.form = "malformed" THEN "leaked" ELSE "up"
BadForm(r) ==
  IF r.op = "recompute_dev" /\ r.form = "malformed" THEN "leaked" ELSE "up"
BadWrite(w) ==
  /\ wpc[w] = "body" /\ req[w].form # "ok"
  /\ Finish(w, BadForm(req[w]), 0,
            IF req[w].op = "assoc_txc_vq" /\ req[w].form = "nodev"
              THEN 0 ELSE -EINVAL)
  /\ UNCHANGED <<txVars, vqVars>>

\* create_txc and create_vq do not look at what sscanf returns: names that
\* were not in the text are whatever the stack holds.
GarbledCreate(w, k) ==
  /\ wpc[w] = "body" /\ req[w].form = "malformed"
  /\ req[w].op \in {"create_txc", "create_vq"}
  /\ req' = [req EXCEPT ![w] = [@ EXCEPT !.form = "ok", !.a = k]]
  /\ UNCHANGED <<txVars, txc_spinlock, ctx_rate, vqVars, config_mutex, wpc, obj,
                 ret, grace, cpuVars>>

TxcExists(k) == iso_txc_find(k) # 0

\* iso_txc_mark_install: the check for a class that exists already ...
CreateTxc(w) ==
  /\ InBody(w, "create_txc")
  /\ IF TxcExists(req[w].a) THEN Finish(w, "up", 0, -EINVAL)
                            ELSE Finish(w, "alloc", 0, 0)
  /\ UNCHANGED <<txVars, vqVars>>

\* ... and iso_txc_alloc, which links the new class after allocations that
\* may sleep or fail.
AllocTxc(w) ==
  /\ wpc[w] = "alloc" /\ req[w].op = "create_txc"
  /\ \/ /\ Len(txc) < MaxTxc
        /\ LET o == Len(txc) + 1
           IN  /\ txc' = Append(txc, iso_txc_init(req[w].a))
               /\ tx_hash' = tx_hash \cup {o}
               /\ txc_list' = Append(txc_list, o)
               /\ txc_total_weight' = txc_total_weight + txc'[o].weight
               /\ Finish(w, "recompute", o, 0)
     \/ /\ Finish(w, "up", 0, -EINVAL)
        /\ UNCHANGED txVars
  /\ UNCHANGED vqVars

\* iso_vq_install, and iso_vq_alloc likewise.
CreateVq(w) ==
  /\ InBody(w, "create_vq")
  /\ IF iso_vq_find(req[w].a) # 0 THEN Finish(w, "up", 0, -EINVAL)
                                  ELSE Finish(w, "alloc", 0, 0)
  /\ UNCHANGED <<txVars, vqVars>>

AllocVq(w) ==
  /\ wpc[w] = "alloc" /\ req[w].op = "create_vq"
  /\ \/ /\ Len(vq) < MaxVq
        /\ LET v == Len(vq) + 1
           IN  /\ vq_hash' = vq_hash \cup {v}
               /\ vq_list' = vq_list \cup {v}
               /\ vq' = iso_vq_calculate_rates(
                          Append(vq, iso_vq_init(req[w].a)), vq_list')
        /\ Finish(w, "up", 0, 0)
     \/ /\ Finish(w, "up", 0, -EINVAL)
        /\ UNCHANGED vqVars
  /\ UNCHANGED txVars

AssocTxcVq(w) ==
  /\ InBody(w, "assoc_txc_vq")
  /\ LET o == iso_txc_find(req[w].a)
         v == iso_vq_find(req[w].b)
     IN  IF o = 0 \/ v = 0
           THEN Finish(w, "up", 0, -EINVAL) /\ UNCHANGED <<txVars, vqVars>>
           ELSE /\ vq' = Associated(o, v)
                /\ txc' = [txc EXCEPT ![o].vq = v]
                /\ Finish(w, "up", 0, 0)
                /\ UNCHANGED <<tx_hash, txc_list, txc_total_weight, vq_hash,
                               vq_list>>

WeightRefused(n) == n < 0 \/ n > MaxWeight
SetTxcWeight(w) ==
  /\ InBody(w, "set_txc_weight")
  /\ LET o == iso_txc_find(req[w].a)
         n == req[w].val
     IN  IF o = 0 \/ WeightRefused(n)
           THEN Finish(w, "up", 0, -EINVAL) /\ UNCHANGED txVars
           ELSE /\ txc_total_weight' = Reweighted(o, n)
                /\ txc' = [txc EXCEPT ![o].weight = n]
                /\ Finish(w, "recompute", o, 0)
                /\ UNCHANGED <<tx_hash, txc_list>>
  /\ UNCHANGED vqVars

CapRefused(n) == n < 0 \/ n > MaxCap
SetTxcRate(w) ==
  /\ InBody(w, "set_txc_rate")
  /\ LET o == iso_txc_find(req[w].a)
         n == req[w].val
     IN  IF o = 0 \/ CapRefused(n)
           THEN Finish(w, "up", 0, -EINVAL) /\ UNCHANGED txVars
           ELSE /\ txc' = [txc EXCEPT
                     ![o].is_static = n # 0,
                     ![o].max_rate = IF n = 0 THEN ISO_MAX_TX_RATE ELSE n]
                /\ Finish(w, "recompute", o, 0)
                /\ UNCHANGED <<tx_hash, txc_list, txc_total_weight>>
  /\ UNCHANGED vqVars

SetVqWeight(w) ==
  /\ InBody(w, "set_vq_weight")
  /\ LET v == iso_vq_find(req[w].a)
         n == req[w].val
     IN  IF v = 0 \/ WeightRefused(n)
           THEN Finish(w, "up", 0, -EINVAL) /\ UNCHANGED vq
           ELSE /\ vq' = iso_vq_calculate_rates(
                           [vq EXCEPT ![v].weight = n], vq_list)
                /\ Finish(w, "up", 0, 0)
  /\ UNCHANGED <<txVars, vq_hash, vq_list>>

SetVqRate(w) ==
  /\ InBody(w, "set_vq_rate")
  /\ LET v == iso_vq_find(req[w].a)
         n == req[w].val
     IN  IF v = 0 \/ n < 0 \/ n > ISO_VQ_DRAIN_RATE_MBPS
           THEN Finish(w, "up", 0, -EINVAL) /\ UNCHANGED vq
           ELSE /\ vq' = RateSet(v, n)
                /\ Finish(w, "up", 0, 0)
  /\ UNCHANGED <<txVars, vq_hash, vq_list>>

\* The class leaves the hash table; it stays on txc_list.
DeleteTxc(w) ==
  /\ InBody(w, "delete_txc")
  /\ LET o == iso_txc_find(req[w].a)
     IN  IF o = 0
           THEN Finish(w, "up", 0, -EINVAL) /\ UNCHANGED txVars
           ELSE /\ tx_hash' = tx_hash \ {o}
                /\ txc_total_weight' = txc_total_weight - txc[o].weight
                /\ Finish(w, "recompute", o, 0)
                /\ UNCHANGED <<txc, txc_list>>
  /\ UNCHANGED vqVars

\* Refused while a class refers to the queue; iso_vq_free asks again.
DeleteVq(w) ==
  /\ InBody(w, "delete_vq")
  /\ LET v == iso_vq_find(req[w].a)
     IN  IF v = 0 \/ Referred(v)
           THEN Finish(w, "up", 0, -EINVAL)
           ELSE Finish(w, "sync", v, 0)
  /\ UNCHANGED <<txVars, vqVars>>

RecomputeDev(w) ==
  /\ InBody(w, "recompute_dev")
  /\ Finish(w, "recompute", 0, 0)
  /\ UNCHANGED <<txVars, vqVars>>

\* iso_txc_recompute_rates, which waits for txc_spinlock unless the total
\* weight is 0, and the rest of the handler up to synchronize_rcu or up.
Recompute(w) ==
  /\ wpc[w] = "recompute"
  /\ \/ txc_total_weight = 0 /\ UNCHANGED txc
     \/ /\ txc_total_weight # 0 /\ txc_spinlock = None
        /\ txc' = [o \in DOMAIN txc |->
                     IF \E i \in DOMAIN txc_list : txc_list[i] = o
                       THEN Recomputed(txc[o], txc_total_weight)
                       ELSE txc[o]]
  /\ vq' = IF req[w].op = "recompute_dev"
             THEN iso_vq_calculate_rates(vq, vq_list) ELSE vq
  /\ IF req[w].op = "delete_txc" THEN Finish(w, "sync", obj[w], 0)
                                 ELSE Finish(w, "up", 0, 0)
  /\ UNCHANGED <<tx_hash, txc_list, txc_total_weight, vq_hash, vq_list>>

\* synchronize_rcu waits for the read sections that have begun.
Sync(w) ==
  /\ wpc[w] = "sync"
  /\ wpc' = [wpc EXCEPT ![w] = "grace"]
  /\ grace' = [grace EXCEPT ![w] = Readers]
  /\ UNCHANGED <<txVars, txc_spinlock, ctx_rate, vqVars, config_mutex, req,
                 obj, ret, cpuVars>>

\* The rest of iso_txc_free.
FreeTxc(w) ==
  /\ wpc[w] = "grace" /\ grace[w] = {} /\ req[w].op = "delete_txc"
  /\ LET o == obj[w]
     IN  /\ txc' = [txc EXCEPT ![o].freed = TRUE]
         /\ vq' = Unreferred(o)
  /\ Finish(w, "up", 0, 0)
  /\ UNCHANGED <<tx_hash, txc_list, txc_total_weight, vq_hash, vq_list>>

\* The rest of iso_vq_free: the queue leaves vq_list but not its hash bucket.
\* A second list_del of the same queue is an oops in the writing process.
FreeVq(w) ==
  /\ wpc[w] = "grace" /\ grace[w] = {} /\ req[w].op = "delete_vq"
  /\ IF vq[obj[w]].freed
       THEN Finish(w, "oops", 0, 0) /\ UNCHANGED vqVars
       ELSE /\ vq' = [vq EXCEPT ![obj[w]].freed = TRUE]
            /\ vq_list' = vq_list \ {obj[w]}
            /\ Finish(w, "up", 0, 0)
            /\ UNCHANGED vq_hash
  /\ UNCHANGED txVars

Up(w) ==
  /\ wpc[w] = "up"
  /\ config_mutex' = None
  /\ wpc' = [wpc EXCEPT ![w] = "idle"]
  /\ req' = [req EXCEPT ![w] = NoRequest]
  /\ ret' = [ret EXCEPT ![w] = 0]
  /\ UNCHANGED <<txVars, txc_spinlock, ctx_rate, vqVars, obj, grace, cpuVars>>

\* The malformed recompute_dev returns without up(&config_mutex).
ReturnLocked(w) ==
  /\ wpc[w] = "leaked"
  /\ wpc' = [wpc EXCEPT ![w] = "idle"]
  /\ req' = [req EXCEPT ![w] = NoRequest]
  /\ ret' = [ret EXCEPT ![w] = 0]
  /\ UNCHANGED <<txVars, txc_spinlock, ctx_rate, vqVars, config_mutex, obj,
                 grace, cpuVars>>

-----------------------------------------------------------------------------
(* The packet paths.                                                        *)

\* iso_txc_tick is due and its trylock succeeds.  tx is the rate measured.
TickStart(c, tx) ==
  /\ cpc[c] = "idle" /\ txc_spinlock = None
  /\ txc_spinlock' = c
  /\ ctx_rate' = RcpRate(ctx_rate, tx)
  /\ cpc' = [cpc EXCEPT ![c] = "tick"]
  /\ cur' = [cur EXCEPT ![c] = IF txc_list = <<>> THEN 0 ELSE 1]
  /\ UNCHANGED <<txVars, vqVars, config_mutex, writerVars, held, clk>>

\* One round of for_each_txc.
TickClass(c) ==
  /\ cpc[c] = "tick" /\ cur[c] # 0
  /\ LET o == txc_list[cur[c]]
     IN  txc' = [txc EXCEPT ![o].rate = TickRate(txc[o]), ![o].cut = FALSE]
  /\ cur' = [cur EXCEPT ![c] = IF @ < Len(txc_list) THEN @ + 1 ELSE 0]
  /\ UNCHANGED <<tx_hash, txc_list, txc_total_weight, txc_spinlock, ctx_rate,
                 vqVars, config_mutex, writerVars, cpc, held, clk>>

TickEnd(c) ==
  /\ cpc[c] = "tick" /\ cur[c] = 0
  /\ txc_spinlock' = None
  /\ cpc' = [cpc EXCEPT ![c] = "ticked"]
  /\ UNCHANGED <<txVars, ctx_rate, vqVars, config_mutex, writerVars, cur,
                 held, clk>>

\* The entries of the bucket of class k; hlist_add_head_rcu puts the newest
\* first.
Chain(k) == {o \in tx_hash : Bucket[txc[o].klass] = Bucket[k]}
FirstOf(S) == IF S = {} THEN 0 ELSE Max(S)

\* A look-up of class k that stands on entry o (0: the end), with queue v.
StandOn(c, k, o, v) ==
  /\ cpc' = [cpc EXCEPT ![c] = IF o = 0 THEN "reading" ELSE "walk"]
  /\ held' = [held EXCEPT ![c] = [key |-> IF o = 0 THEN None ELSE k,
                                  txc |-> o, vq |-> v]]
  /\ UNCHANGED <<txVars, txc_spinlock, ctx_rate, vqVars, config_mutex,
                 writerVars, cur, clk>>

\* iso_tx after the tick, or without one, begins to look up the class.
TxLookup(c, k) ==
  /\ cpc[c] \in {"idle", "ticked"}
  /\ StandOn(c, k, FirstOf(Chain(k)), 0)

\* iso_rx looks up the queue and, if there is one, the class.
RxLookup(c, k) ==
  /\ cpc[c] = "idle" /\ iso_vq_find(k) # 0
  /\ StandOn(c, k, FirstOf(Chain(k)), iso_vq_find(k))

\* iso_txc_find takes the entry ...
WalkFound(c) ==
  /\ cpc[c] = "walk" /\ txc[held[c].txc].klass = held[c].key
  /\ cpc' = [cpc EXCEPT ![c] = "reading"]
  /\ held' = [held EXCEPT ![c].key = None]
  /\ UNCHANGED <<txVars, txc_spinlock, ctx_rate, vqVars, config_mutex,
                 writerVars, cur, clk>>

\* ... or goes on to the next one ...
WalkNext(c) ==
  LET o == held[c].txc
      k == held[c].key
  IN  /\ cpc[c] = "walk" /\ txc[o].klass # k /\ o \in tx_hash
      /\ StandOn(c, k, FirstOf({x \in Chain(k) : x < o}), held[c].vq)

\* ... which it cannot when the entry was taken out by hlist_del, not by
\* hlist_del_rcu: the pointer to the next one is poison.
WalkPoisoned(c) ==
  /\ cpc[c] = "walk" /\ held[c].txc \notin tx_hash
  /\ txc[held[c].txc].klass # held[c].key
  /\ cpc' = [cpc EXCEPT ![c] = "oops"]
  /\ UNCHANGED <<txVars, txc_spinlock, ctx_rate, vqVars, config_mutex,
                 writerVars, cur, held, clk>>

\* iso_rl_clock on the limiter of class o, from iso_tx or from the tasklet.
\* The rate is read without a lock ...
ClockRead(c, o, idle, late) ==
  /\ \/ cpc[c] = "idle"
     \/ cpc[c] = "reading" /\ held[c].vq = 0 /\ held[c].txc = o
  /\ late \/ (idle /\ txc[o].rate > ISO_IDLE_RATE)
  /\ clk' = [clk EXCEPT ![c] = [txc |-> o,
                                rate |-> ClockedRate(txc[o].rate, idle, late)]]
  /\ cpc' = [cpc EXCEPT ![c] = "clock"]
  /\ UNCHANGED <<txVars, txc_spinlock, ctx_rate, vqVars, config_mutex,
                 writerVars, cur, held>>

\* ... and written, over what a tick or a handler has written in between.
ClockWrite(c) ==
  /\ cpc[c] = "clock"
  /\ txc' = [txc EXCEPT ![clk[c].txc].rate = clk[c].rate,
                         ![clk[c].txc].cut = TRUE]
  /\ clk' = [clk EXCEPT ![c] = NoClock]
  /\ cpc' = [cpc EXCEPT ![c] = IF held[c] = Nothing THEN "idle" ELSE "reading"]
  /\ UNCHANGED <<tx_hash, txc_list, txc_total_weight, txc_spinlock, ctx_rate,
                 vqVars, config_mutex, writerVars, cur, held>>

\* rcu_read_unlock
ReadUnlock(c) ==
  /\ cpc[c] = "reading"
  /\ cpc' = [cpc EXCEPT ![c] = "idle"]
  /\ held' = [held EXCEPT ![c] = Nothing]
  /\ grace' = [w \in Writer |-> grace[w] \ {c}]
  /\ UNCHANGED <<txVars, txc_spinlock, ctx_rate, vqVars, config_mutex, wpc,
                 req, obj, ret, cur, clk>>

-----------------------------------------------------------------------------
WriterNext(w) ==
  \/ \E r \in Requests : Write(w, r)
  \/ Down(w) \/ Interrupted(w) \/ BadWrite(w)
  \/ \E k \in Klass : GarbledCreate(w, k)
  \/ CreateTxc(w) \/ AllocTxc(w) \/ CreateVq(w) \/ AllocVq(w) \/ AssocTxcVq(w)
  \/ SetTxcWeight(w) \/ SetTxcRate(w) \/ SetVqWeight(w) \/ SetVqRate(w)
  \/ DeleteTxc(w) \/ DeleteVq(w) \/ RecomputeDev(w)
  \/ Recompute(w) \/ Sync(w) \/ FreeTxc(w) \/ FreeVq(w)
  \/ Up(w) \/ ReturnLocked(w)

CpuNext(c) ==
  \/ \E tx \in TxRates : TickStart(c, tx)
  \/ TickClass(c) \/ TickEnd(c)
  \/ \E k \in Klass : TxLookup(c, k) \/ RxLookup(c, k)
  \/ WalkFound(c) \/ WalkNext(c) \/ WalkPoisoned(c)
  \/ \E o \in Classes, d \in Delays : ClockRead(c, o, d[1], d[2])
  \/ ClockWrite(c)
  \/ ReadUnlock(c)

Next == (\E w \in Writer : WriterNext(w)) \/ (\E c \in Cpu : CpuNext(c))

Spec == Init /\ [][Next]_vars

\* A handler that runs goes on.  A semaphore and a spinlock serve their
\* waiters in order of arrival, so one that can be taken again and again is
\* taken; a packet path finishes.
Body(w) ==
  \/ BadWrite(w)
  \/ CreateTxc(w) \/ AllocTxc(w) \/ CreateVq(w) \/ AllocVq(w) \/ AssocTxcVq(w)
  \/ SetTxcWeight(w) \/ SetTxcRate(w) \/ SetVqWeight(w) \/ SetVqRate(w)
  \/ DeleteTxc(w) \/ DeleteVq(w) \/ RecomputeDev(w)
  \/ Sync(w) \/ FreeTxc(w) \/ FreeVq(w) \/ Up(w) \/ ReturnLocked(w)
TxPath(c) ==
  TickClass(c) \/ TickEnd(c) \/ WalkFound(c) \/ WalkNext(c) \/ WalkPoisoned(c)
    \/ ClockWrite(c) \/ ReadUnlock(c)
    \/ (cpc[c] = "ticked" /\ \E k \in Klass : TxLookup(c, k))
Fairness ==
  /\ \A w \in Writer : WF_vars(Body(w)) /\ SF_vars(Down(w))
                         /\ SF_vars(Recompute(w))
  /\ \A c \in Cpu : WF_vars(TxPath(c))
FairSpec == Spec /\ Fairness

-----------------------------------------------------------------------------
(* Properties.                                                              *)

\* Types of the variables; classes and queues allocated stay within bounds.
TypeOK ==
  /\ txc \in Seq(TxClass) /\ Len(txc) <= MaxTxc
  /\ tx_hash \subseteq DOMAIN txc /\ txc_list \in Seq(DOMAIN txc)
  /\ txc_total_weight \in Nat
  /\ txc_spinlock \in Writer \cup Cpu \cup {None}
  /\ ctx_rate \in 0..Max2(2, ISO_MAX_TX_RATE)
  /\ vq \in Seq(VirtQueue) /\ Len(vq) <= MaxVq
  /\ vq_hash \subseteq DOMAIN vq /\ vq_list \subseteq DOMAIN vq
  /\ config_mutex \in Writer \cup {None}
  /\ wpc \in [Writer -> {"idle", "down", "body", "alloc", "recompute", "sync",
                         "grace", "up", "leaked", "oops"}]
  /\ req \in [Writer -> Request] /\ obj \in [Writer -> Nat]
  /\ ret \in [Writer -> {0, -EINVAL}] /\ grace \in [Writer -> SUBSET Cpu]
  /\ cpc \in [Cpu -> {"idle", "tick", "ticked", "walk", "reading", "clock", "oops"}]
  /\ cur \in [Cpu -> 0..Len(txc_list)]
  /\ held \in [Cpu -> [key : Klass \cup {None}, txc : 0..Len(txc), vq : 0..Len(vq)]]
  /\ clk \in [Cpu -> [txc : 0..Len(txc), rate : Nat]]

Quiet == config_mutex = None

\* No sequence of creations, deletions and weight changes lets the running
\* sum txc_total_weight drift from the weights of the classes in the table.
WeightsAreAccounted ==
  Quiet =>
    txc_total_weight = Total([o \in tx_hash |-> txc[o].weight], tx_hash)

\* The guarantees handed out by iso_txc_recompute_rates never exceed the
\* device, whichever handler ran last and whether or not it recomputed.
GuaranteesFit ==
  Quiet =>
    Total([o \in tx_hash |-> txc[o].min_rate], tx_hash) <= ISO_MAX_TX_RATE

\* Between configuration writes a class has at least its guaranteed rate (or
\* its cap, if that is lower) and no more than its cap, although ticks compute
\* rates while handlers change weights and caps, from the tick or the write on
\* that set its rate until iso_rl_clock cuts it.  A cut class is outside: it
\* may have less than its guarantee, and more than its cap when the clock
\* stores what it read before the cap was set.  If all weights are 0
\* iso_txc_recompute_rates does nothing and this does not hold.
RatesKeepContract ==
  Quiet /\ txc_total_weight > 0 =>
    \A o \in tx_hash :
      LET cap == IF txc[o].is_static THEN txc[o].max_rate
                                     ELSE ISO_MAX_TX_RATE
      IN  ~txc[o].cut => txc[o].rate \in Min2(txc[o].min_rate, cap)..cap

\* The rates that iso_vq_calculate_rates sets; a static one is not its doing.
DynamicRates ==
  [v \in vq_list |-> IF vq[v].is_static THEN 0 ELSE vq[v].rate]

\* The dynamic rates of the linked virtual queues never exceed the drain
\* rate, although deleting a queue and capping one do not recalculate them.
\* Nothing is promised while all weights are 0.
VqSharesFit ==
  Quiet /\ (\E v \in vq_list : vq[v].weight > 0) =>
    Total(DynamicRates, vq_list) <= ISO_VQ_DRAIN_RATE_MBPS

\* refcnt is "the number of tx classes referring to this VQ" at every step of
\* re-association and of the deferred release of a class.
RefcntIsExact ==
  \A v \in DOMAIN vq : ~vq[v].freed =>
    vq[v].refcnt = Cardinality({o \in Classes : txc[o].vq = v})

\* A virtual queue is freed only when no class refers to it any more: the
\* answer of the check made before the grace period still holds after it.
FreedUnreferenced ==
  [][\A v \in DOMAIN vq : ~vq[v].freed /\ vq'[v].freed =>
       \A o \in Classes : txc[o].vq # v]_vars

\* The class on which a look-up of iso_tx or iso_rx stands, or which it has
\* found, is not freed before rcu_read_unlock: deletion takes it out of the
\* bucket and then waits for the readers.  This is about the classes reached
\* through the hash table only: the tick gets at freed classes through
\* txc_list, and the tasklet at their limiters.
ReadersHoldLiveClasses ==
  \A c \in Cpu : held[c].txc # 0 => ~txc[held[c].txc].freed

\* No class is installed twice, whichever writers race to create it and
\* however long an allocation sleeps between the check and the insertion.
InstalledOnce ==
  \A o1, o2 \in tx_hash : txc[o1].klass = txc[o2].klass => o1 = o2

\* What stops configuration for good: a malformed recompute_dev, which returns
\* with config_mutex taken, the oops of a second delete_vq, and the oops of a
\* packet path, whose read section never ends.
Stuck ==
  \/ \E w \in Writer : wpc[w] = "oops"
  \/ \E w \in Writer : /\ wpc[w] = "body" /\ req[w].op = "recompute_dev"
                        /\ req[w].form = "malformed"
  \/ \E c \in Cpu : cpc[c] = "oops"

\* As long as none of that happens every write to a parameter file returns: no
\* handler waits for ever for config_mutex, for txc_spinlock or for a grace
\* period, whatever is written, well-formed or not, and whoever reads.
WritesReturn ==
  []~Stuck => \A w \in Writer : wpc[w] = "down" ~> wpc[w] = "idle"

\* "A VQ can be removed only after all txc's pointing to it are removed": no
\* class points at a queue that has been removed.
NoDanglingVq ==
  \A o \in Classes : txc[o].vq # 0 => ~vq[txc[o].vq].freed
=============================================================================
