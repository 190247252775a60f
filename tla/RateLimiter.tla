---------------------------- MODULE RateLimiter ----------------------------
(***************************************************************************)
(* The two-level transmit rate limiter of rl.c, as iso_tx (tx.c) and the    *)
(* per-CPU transmit tasklet drive it.                                       *)
(*                                                                          *)
(* A rate limiter (struct iso_rl) is either the limiter of one destination  *)
(* (a Leaf, rl->txc # NULL) or the root limiter of a transmit class (a      *)
(* Class, rl->txc = NULL).  Each limiter has a token pool shared by all     *)
(* CPUs and one packet queue per CPU.  A queue that could not send waits on *)
(* the active list of its CPU; a high-resolution timer per CPU schedules    *)
(* the tasklet that retries the queues of that list.                        *)
(*                                                                          *)
(* A CPU runs iso_tx and the tasklet with bottom halves disabled, so the    *)
(* two never overlap on one CPU; every action below is one step of the code *)
(* on one CPU, and steps of different CPUs and timer interrupts interleave. *)
(* A packet is represented by its size, skb_size().  iso_exiting is 0       *)
(* throughout: it is set by module unload only, and a device that has the   *)
(* qdisc holds a reference on the module.                                   *)
(***************************************************************************)
EXTENDS Integers, Sequences, Functions, Sums

CONSTANTS
  Cpu,                       \* the possible CPUs
  Leaf,                      \* rate limiters of destinations
  Class,                     \* root rate limiters of transmit classes
  txc,                       \* rl->txc of every leaf
  None,                      \* a NULL pointer
  PktSize,                   \* sizes of packets and of their segments
  GsoSegs,                   \* what skb_gso_segment can return for a size
  Rates,                     \* rates that feedback and iso_txc_tick install
  MaxRate,                   \* the largest of them
  Us,                        \* microseconds between two refills of a limiter
  U64,                       \* 2^64, scaled down: tokens are u64
  InitTokens,                \* rl->total_tokens of a new limiter
  MaxArrivals,               \* bound: packets offered to iso_tx
  budget,                    \* #define budget of the tasklet
  ISO_RFAIR_INITIAL,
  ISO_MAX_QUEUE_LEN_BYTES,
  ISO_MIN_BURST_BYTES,
  ISO_MAX_BURST_TIME_US,
  ISO_GSO_THRESH_RATE,
  ISO_GSO_MIN_SPLIT_BYTES,
  ISO_IDLE_RATE,
  ISO_IDLE_TIMEOUT_US

RL == Leaf \cup Class

Max2(a, b) == IF a >= b THEN a ELSE b
Min2(a, b) == IF a <= b THEN a ELSE b

ASSUME StructureAssumption ==
  /\ Leaf \cap Class = {}
  /\ None \notin RL \cup Cpu
  /\ txc \in [Leaf -> Class]

ASSUME SizeAssumption ==
  /\ PktSize \subseteq Nat \ {0}
  /\ GsoSegs \in [PktSize -> SUBSET Seq(PktSize)]
  /\ \A s \in PktSize : <<>> \notin GsoSegs[s]

ASSUME ParamAssumption ==
  /\ MaxRate \in Nat /\ 2 <= MaxRate
  /\ Rates \subseteq 0..MaxRate
  /\ ISO_RFAIR_INITIAL \in 0..MaxRate
  /\ Us \subseteq Nat
  /\ U64 \in Nat \ {0}
  /\ InitTokens \in Nat /\ MaxArrivals \in Nat /\ budget \in Nat
  /\ ISO_MAX_QUEUE_LEN_BYTES \in Nat
  /\ ISO_MIN_BURST_BYTES \in Nat
  /\ ISO_MAX_BURST_TIME_US \in Nat
  /\ ISO_GSO_THRESH_RATE \in Nat
  /\ ISO_GSO_MIN_SPLIT_BYTES \in Nat
  /\ ISO_IDLE_RATE \in Nat
  /\ ISO_IDLE_TIMEOUT_US \in Nat
  /\ InitTokens <= ISO_MIN_BURST_BYTES

VARIABLES
  \* struct iso_rl
  rate,             \* [RL -> Nat]
  total_tokens,     \* [RL -> Nat]
  spinlock,         \* [RL -> Cpu or None], the holder
  raced,            \* history: limiters whose pool two CPUs worked on at once
  \* struct iso_rl_queue, one per limiter and CPU
  list,             \* [RL -> [Cpu -> Seq(PktSize)]]
  first_pkt_size,
  bytes_enqueued,
  tokens,
  \* struct iso_rl_cb, one per CPU
  active_list,      \* [Cpu -> Seq(RL)]
  timer,            \* [Cpu -> BOOLEAN], the hrtimer is armed
  xmit_timeout,     \* [Cpu -> BOOLEAN], the tasklet is scheduled
  \* the code each CPU is executing
  pc,               \* [Cpu -> Label]
  loc,              \* [Cpu -> Locals], its local variables
  arrivals          \* packets offered so far

rlVars == <<rate, total_tokens, spinlock, raced>>
queueVars == <<list, first_pkt_size, bytes_enqueued, tokens>>
cbVars == <<active_list, timer, xmit_timeout>>
cpuVars == <<pc, loc>>
vars == <<rlVars, queueVars, cbVars, cpuVars, arrivals>>

-----------------------------------------------------------------------------
Label ==
  {"idle",          \* no code of this module runs on the CPU
   "clock",         \* at iso_rl_clock(loc.to)
   "refill",        \* in iso_rl_clock, total_tokens has been read
   "cap",           \* in iso_rl_clock, total_tokens has not been capped yet
   "enqueue",       \* in iso_rl_enqueue(loc.to, loc.skb), after the clock
   "segment",       \* in its loop over the segments
   "handed",        \* a leaf's dequeue, back from the enqueue in the class
   "borrow",        \* at the head of iso_rl_dequeue(loc.rl)
   "locked",        \* in iso_rl_borrow_tokens, rl->spinlock taken
   "peek",          \* after the borrow
   "loop",          \* at the head of the transmit loop
   "unlock",        \* at label unlock, loc.rl is a leaf
   "timeout",       \* at label timeout
   "tasklet"}       \* at the head of the loop of iso_rl_xmit_tasklet

(* The locals of the functions on the stack.  skb = 0: no packet is being   *)
(* enqueued.  leaf # None: loc.rl is a class whose dequeue was triggered by *)
(* leaf's, whose own timeout and sum are set aside.  task: the outermost    *)
(* frame is the tasklet; first, more, count and sent are its locals.        *)
Locals ==
  [rl : RL \cup {None}, to : RL \cup {None}, skb : PktSize \cup {0},
   segs : Seq(PktSize), seen : Nat, verdict : {"SUCCESS", "DROP", "ERROR"},
   timeout : BOOLEAN, sum : Nat,
   leaf : Leaf \cup {None}, leaf_timeout : BOOLEAN, leaf_sum : Nat,
   task : BOOLEAN, first : RL \cup {None}, more : BOOLEAN,
   count : Nat, sent : Nat]

NoLocals ==
  [rl |-> None, to |-> None, skb |-> 0, segs |-> <<>>, seen |-> 0,
   verdict |-> "SUCCESS", timeout |-> FALSE, sum |-> 0,
   leaf |-> None, leaf_timeout |-> FALSE, leaf_sum |-> 0,
   task |-> FALSE, first |-> None, more |-> FALSE, count |-> 0, sent |-> 0]

Init ==
  /\ rate = [r \in RL |-> ISO_RFAIR_INITIAL]
  /\ total_tokens = [r \in RL |-> InitTokens]
  /\ spinlock = [r \in RL |-> None]
  /\ raced = {}
  /\ list = [r \in RL |-> [c \in Cpu |-> <<>>]]
  /\ first_pkt_size = [r \in RL |-> [c \in Cpu |-> 0]]
  /\ bytes_enqueued = [r \in RL |-> [c \in Cpu |-> 0]]
  /\ tokens = [r \in RL |-> [c \in Cpu |-> 0]]
  /\ active_list = [c \in Cpu |-> <<>>]
  /\ timer = [c \in Cpu |-> FALSE]
  /\ xmit_timeout = [c \in Cpu |-> FALSE]
  /\ pc = [c \in Cpu |-> "idle"]
  /\ loc = [c \in Cpu |-> NoLocals]
  /\ arrivals = 0

(* CPU c goes on at label l with locals x.                                  *)
Goto(c, l, x) == /\ pc' = [pc EXCEPT ![c] = l]
                 /\ loc' = [loc EXCEPT ![c] = x]

-----------------------------------------------------------------------------
(* The environment.                                                         *)

(* iso_rx applies the rate of a feedback packet to a destination's limiter. *)
Feedback(c, d, r) ==
  /\ pc[c] = "idle"
  /\ rate' = [rate EXCEPT ![d] = r]
  /\ UNCHANGED <<total_tokens, spinlock, raced, queueVars, cbVars, cpuVars, arrivals>>

(* iso_txc_tick sets the rate of a class.                                   *)
TxcTick(c, k, r) ==
  /\ pc[c] = "idle"
  /\ rate' = [rate EXCEPT ![k] = r]
  /\ UNCHANGED <<total_tokens, spinlock, raced, queueVars, cbVars, cpuVars, arrivals>>

(* iso_rl_timeout, from the timer interrupt: schedule the tasklet.          *)
iso_rl_timeout(c) ==
  /\ timer[c]
  /\ timer' = [timer EXCEPT ![c] = FALSE]
  /\ xmit_timeout' = [xmit_timeout EXCEPT ![c] = TRUE]
  /\ UNCHANGED <<rlVars, queueVars, active_list, cpuVars, arrivals>>

(* iso_tx has found the limiter d of the packet's destination and enters    *)
(* iso_rl_enqueue with it.                                                  *)
iso_tx(c, d, size) ==
  /\ pc[c] = "idle"
  /\ arrivals < MaxArrivals
  /\ arrivals' = arrivals + 1
  /\ Goto(c, "clock", [loc[c] EXCEPT !.to = d, !.skb = size])
  /\ UNCHANGED <<rlVars, queueVars, cbVars>>

-----------------------------------------------------------------------------
(* iso_rl_clock(loc.to).  Any time may pass between two steps, so whether a *)
(* refill is due, how many microseconds it covers and whether the last rate *)
(* update has timed out are free choices.                                   *)

(* rl->rate after the idle and the feedback timeouts of iso_rl_clock.       *)
ClockedRate(r, us, late) ==
  LET awake == IF us > ISO_IDLE_TIMEOUT_US /\ rate[r] > ISO_IDLE_RATE
               THEN ISO_IDLE_RATE ELSE rate[r]
  IN IF late THEN Max2(2, awake \div 2) ELSE awake

(* The most a token pool may hold at rate rt.                               *)
TokenCap(rt) == Max2((rt * ISO_MAX_BURST_TIME_US) \div 8, ISO_MIN_BURST_BYTES)

(* iso_rl_clock returns into iso_rl_enqueue or into the tasklet, which goes *)
(* on with iso_rl_dequeue.                                                  *)
AfterClock(c) == IF loc[c].skb # 0 THEN "enqueue" ELSE "borrow"

(* iso_rl_should_refill fails: the early return.                            *)
ClockNotDue(c) ==
  /\ pc[c] = "clock"
  /\ Goto(c, AfterClock(c), loc[c])
  /\ UNCHANGED <<rlVars, queueVars, cbVars, arrivals>>

(* CPU c is between a read of the pool of r and the store that belongs to   *)
(* it; iso_rl_clock gets there without rl->spinlock.                        *)
InPool(c, r) == \/ pc[c] \in {"refill", "cap"} /\ loc[c].to = r
                \/ pc[c] = "locked" /\ loc[c].rl = r

(* History: c starts to work on the pool of r while another CPU does.       *)
NoteRace(c, r) == raced' = IF \E o \in Cpu \ {c} : InPool(o, r)
                           THEN raced \cup {r} ELSE raced

(* A refill is due.  us is unsigned, and huge when another CPU has refilled *)
(* with a later time in between.  The pool is read without rl->spinlock ... *)
ClockRead(c) ==
  /\ pc[c] = "clock"
  /\ \E us \in Us, late \in BOOLEAN :
       LET r == loc[c].to
           rt == ClockedRate(r, us, late)
       IN /\ rate' = [rate EXCEPT ![r] = rt]
          /\ NoteRace(c, r)
          /\ Goto(c, "refill",
                  [loc[c] EXCEPT !.seen = (total_tokens[r] + ((rt * us) % U64) \div 8) % U64])
  /\ UNCHANGED <<total_tokens, spinlock, queueVars, cbVars, arrivals>>

(* ... the sum is stored as it is ...                                       *)
ClockWrite(c) ==
  /\ pc[c] = "refill"
  /\ total_tokens' = [total_tokens EXCEPT ![loc[c].to] = loc[c].seen]
  /\ Goto(c, "cap", loc[c])
  /\ UNCHANGED <<rate, spinlock, raced, queueVars, cbVars, arrivals>>

(* ... and capped by a second store, of the sum or of what is in the pool   *)
(* by then: the compiler may keep the sum in a register or read it again.   *)
ClockCap(c) ==
  LET r == loc[c].to
  IN /\ pc[c] = "cap"
     /\ \E sum \in {loc[c].seen, total_tokens[r]} :
          total_tokens' = [total_tokens EXCEPT ![r] = Min2(TokenCap(rate[r]), sum)]
     /\ Goto(c, AfterClock(c), [loc[c] EXCEPT !.seen = 0])
     /\ UNCHANGED <<rate, spinlock, raced, queueVars, cbVars, arrivals>>

-----------------------------------------------------------------------------
(* iso_rl_enqueue(loc.to, loc.skb), after its call of iso_rl_clock.         *)

(* Large packets are split when the limiter is slow.                        *)
Splits(c) == /\ rate[loc[c].to] <= ISO_GSO_THRESH_RATE
             /\ loc[c].skb > ISO_GSO_MIN_SPLIT_BYTES

(* iso_tx enqueues in leaves and goes on to dequeue the leaf; a leaf's      *)
(* dequeue enqueues in its class and goes on with its loop.                 *)
AfterEnqueue(c) == IF loc[c].to \in Leaf THEN "borrow" ELSE "handed"

ReturnVerdict(c, v) ==
  Goto(c, AfterEnqueue(c),
       [loc[c] EXCEPT !.verdict = v, !.to = None, !.skb = 0, !.segs = <<>>,
                      !.rl = IF loc[c].to \in Leaf THEN loc[c].to ELSE loc[c].rl])

(* Mutant: the packet is not counted in bytes_enqueued.                     *)
QueueTail_Uncounted(r, c, size) ==
  /\ list' = [list EXCEPT ![r][c] = Append(list[r][c], size)]
  /\ UNCHANGED <<first_pkt_size, bytes_enqueued, tokens>>

(* Mutant: the packet is put at the head of the queue.                      *)
QueueTail_AtHead(r, c, size) ==
  /\ list' = [list EXCEPT ![r][c] = <<size>> \o list[r][c]]
  /\ bytes_enqueued' = [bytes_enqueued EXCEPT ![r][c] = bytes_enqueued[r][c] + size]
  /\ UNCHANGED <<first_pkt_size, tokens>>

(* __skb_queue_tail and the accounting of the packet.                       *)
QueueTail(r, c, size) ==
  /\ list' = [list EXCEPT ![r][c] = Append(list[r][c], size)]
  /\ bytes_enqueued' = [bytes_enqueued EXCEPT ![r][c] = bytes_enqueued[r][c] + size]
  /\ UNCHANGED <<first_pkt_size, tokens>>

MIN_PKT_SIZE == 600

(* Whether a packet that does not fit is dropped.  Otherwise it would be    *)
(* trimmed and queued; that never happens (theorem OverflowAlwaysDrops), so *)
(* there is no action for it.                                               *)
DropsOverflow(bytes, len) ==
  LET diff == bytes + len - ISO_MAX_QUEUE_LEN_BYTES
  IN diff > len \/ diff - len < MIN_PKT_SIZE

(* The queue has no room.                                                   *)
EnqueueDrop(c) ==
  /\ pc[c] = "enqueue"
  /\ ~Splits(c)
  /\ bytes_enqueued[loc[c].to][c] + loc[c].skb > ISO_MAX_QUEUE_LEN_BYTES
  /\ DropsOverflow(bytes_enqueued[loc[c].to][c], loc[c].skb)
  /\ ReturnVerdict(c, "DROP")
  /\ UNCHANGED <<rlVars, queueVars, cbVars, arrivals>>

EnqueueTail(c) ==
  /\ pc[c] = "enqueue"
  /\ ~Splits(c)
  /\ bytes_enqueued[loc[c].to][c] + loc[c].skb <= ISO_MAX_QUEUE_LEN_BYTES
  /\ QueueTail(loc[c].to, c, loc[c].skb)
  /\ ReturnVerdict(c, "SUCCESS")
  /\ UNCHANGED <<rlVars, cbVars, arrivals>>

(* skb_gso_segment fails: the packet is neither queued nor freed.           *)
EnqueueError(c) ==
  /\ pc[c] = "enqueue"
  /\ Splits(c)
  /\ ReturnVerdict(c, "ERROR")
  /\ UNCHANGED <<rlVars, queueVars, cbVars, arrivals>>

EnqueueSplit(c) ==
  /\ pc[c] = "enqueue"
  /\ Splits(c)
  /\ \E segs \in GsoSegs[loc[c].skb] : Goto(c, "segment", [loc[c] EXCEPT !.segs = segs])
  /\ UNCHANGED <<rlVars, queueVars, cbVars, arrivals>>

(* Mutant: segments are queued without a look at the length of the queue.   *)
SegmentFits_Always(r, c) == TRUE

(* Whether one more segment is queued.                                      *)
SegmentFits(r, c) == bytes_enqueued[r][c] < ISO_MAX_QUEUE_LEN_BYTES

(* One turn of the loop over the segments: queue it, or free it when the    *)
(* queue is full.                                                           *)
EnqueueSegment(c) ==
  LET r == loc[c].to
      rest == Tail(loc[c].segs)
  IN /\ pc[c] = "segment"
     /\ IF SegmentFits(r, c)
        THEN QueueTail(r, c, Head(loc[c].segs))
        ELSE UNCHANGED queueVars
     /\ \/ /\ rest = <<>>
           /\ ReturnVerdict(c, "SUCCESS")
        \/ /\ rest # <<>>
           /\ Goto(c, pc[c], [loc[c] EXCEPT !.segs = rest])
     /\ UNCHANGED <<rlVars, cbVars, arrivals>>

-----------------------------------------------------------------------------
(* iso_rl_dequeue(loc.rl).                                                  *)

(* Mutant: every dequeue empties the pool into its queue.                   *)
NeedsTokens_Always(r, c) == TRUE

(* The queue's own tokens do not cover the packet that waits first.         *)
NeedsTokens(r, c) == tokens[r][c] < first_pkt_size[r][c]

(* Mutant: the result of spin_trylock_irqsave is ignored.                   *)
TryLock_Ignored(r) == TRUE

(* spin_trylock_irqsave(&rl->spinlock) succeeds.                            *)
TryLock(r) == spinlock[r] = None

NoBorrow(c) ==
  LET r == loc[c].rl
  IN /\ pc[c] = "borrow"
     /\ ~NeedsTokens(r, c)
     /\ Goto(c, "peek", loc[c])
     /\ UNCHANGED <<rlVars, queueVars, cbVars, arrivals>>

(* iso_rl_borrow_tokens gets the lock and reads the pool ...                *)
BorrowLock(c) ==
  LET r == loc[c].rl
  IN /\ pc[c] = "borrow"
     /\ NeedsTokens(r, c)
     /\ TryLock(r)
     /\ spinlock' = [spinlock EXCEPT ![r] = c]
     /\ NoteRace(c, r)
     /\ Goto(c, "locked", [loc[c] EXCEPT !.seen = total_tokens[r]])
     /\ UNCHANGED <<rate, total_tokens, queueVars, cbVars, arrivals>>

(* ... takes as much as it has read and unlocks.  A clock may write the     *)
(* pool meanwhile; the compiler may subtract from what was read before or   *)
(* read the pool again.                                                     *)
BorrowTake(c) ==
  LET r == loc[c].rl
      borrow == loc[c].seen
  IN /\ pc[c] = "locked"
     /\ tokens' = [tokens EXCEPT ![r][c] = (tokens[r][c] + borrow) % U64]
     /\ \E pool \in {borrow, total_tokens[r]} :
          total_tokens' = [total_tokens EXCEPT ![r] = (pool - borrow) % U64]
     /\ spinlock' = [spinlock EXCEPT ![r] = None]
     /\ Goto(c, "peek", [loc[c] EXCEPT !.seen = 0])
     /\ UNCHANGED <<rate, raced, list, first_pkt_size, bytes_enqueued, cbVars, arrivals>>

(* The comparison reads the pool again, and a clock has lowered it.         *)
BorrowShort(c) ==
  LET r == loc[c].rl
  IN /\ pc[c] = "locked"
     /\ total_tokens[r] < loc[c].seen
     /\ spinlock' = [spinlock EXCEPT ![r] = None]
     /\ Goto(c, "timeout", [loc[c] EXCEPT !.seen = 0, !.timeout = TRUE])
     /\ UNCHANGED <<rate, total_tokens, raced, queueVars, cbVars, arrivals>>

(* The trylock fails: the queue waits, and the class is not triggered.      *)
BorrowFail(c) ==
  LET r == loc[c].rl
  IN /\ pc[c] = "borrow"
     /\ NeedsTokens(r, c)
     /\ ~TryLock(r)
     /\ Goto(c, "timeout", [loc[c] EXCEPT !.timeout = TRUE])
     /\ UNCHANGED <<rlVars, queueVars, cbVars, arrivals>>

(* Mutant: a leaf does not trigger its class.                               *)
Unlock_Never(c) == "timeout"

(* Where label unlock leads: a leaf triggers its class, a class has none to *)
(* trigger.                                                                 *)
Unlock(c) == IF loc[c].rl \in Leaf THEN "unlock" ELSE "timeout"

PeekEmpty(c) ==
  /\ pc[c] = "peek"
  /\ list[loc[c].rl][c] = <<>>
  /\ Goto(c, Unlock(c), loc[c])
  /\ UNCHANGED <<rlVars, queueVars, cbVars, arrivals>>

Peek(c) ==
  LET r == loc[c].rl
  IN /\ pc[c] = "peek"
     /\ list[r][c] # <<>>
     /\ first_pkt_size' = [first_pkt_size EXCEPT ![r][c] = Head(list[r][c])]
     /\ Goto(c, "loop", [loc[c] EXCEPT !.timeout = TRUE, !.sum = Head(list[r][c])])
     /\ UNCHANGED <<rlVars, list, bytes_enqueued, tokens, cbVars, arrivals>>

(* Mutant: only the length of the burst is looked at.                       *)
MaySend_NoTokens(c) == loc[c].sum <= 2 * ISO_MIN_BURST_BYTES

(* The loop condition; size always equals first_pkt_size there.             *)
MaySend(c) ==
  LET r == loc[c].rl
  IN /\ first_pkt_size[r][c] <= tokens[r][c]
     /\ loc[c].sum <= 2 * ISO_MIN_BURST_BYTES

(* Mutant: the size of the packet is forgotten.                             *)
HasSpace_AnySize(k, c, size) == bytes_enqueued[k][c] < ISO_MAX_QUEUE_LEN_BYTES

iso_rl_has_space_for(k, c, size) ==
  bytes_enqueued[k][c] + size < ISO_MAX_QUEUE_LEN_BYTES

(* The end of a turn of the loop: pay for the packet sent from queue q,     *)
(* whose packets are now pkts, and look at the next one.                    *)
PayAndAdvance(c, pkts) ==
  LET r == loc[c].rl
      size == first_pkt_size[r][c]
  IN /\ tokens' = [tokens EXCEPT ![r][c] = tokens[r][c] - size]
     /\ bytes_enqueued' = [bytes_enqueued EXCEPT ![r][c] = bytes_enqueued[r][c] - size]
     /\ \/ /\ pkts = <<>>
           /\ Goto(c, Unlock(c), [loc[c] EXCEPT !.timeout = FALSE])
           /\ UNCHANGED first_pkt_size
        \/ /\ pkts # <<>>
           /\ first_pkt_size' = [first_pkt_size EXCEPT ![r][c] = Head(pkts)]
           /\ Goto(c, "loop", [loc[c] EXCEPT !.sum = loc[c].sum + Head(pkts)])

(* A class hands the packet to the device: skb_xmit, which frees it when    *)
(* the device queue is stopped.                                             *)
Transmit(c) ==
  LET r == loc[c].rl
  IN /\ pc[c] = "loop"
     /\ MaySend(c)
     /\ r \in Class
     /\ list' = [list EXCEPT ![r][c] = Tail(list[r][c])]
     /\ PayAndAdvance(c, Tail(list[r][c]))
     /\ UNCHANGED <<rlVars, cbVars, arrivals>>

(* A leaf hands the packet to its class: iso_rl_enqueue ...                 *)
HandOver(c) ==
  LET r == loc[c].rl
  IN /\ pc[c] = "loop"
     /\ MaySend(c)
     /\ r \in Leaf
     /\ iso_rl_has_space_for(txc[r], c, first_pkt_size[r][c])
     /\ list' = [list EXCEPT ![r][c] = Tail(list[r][c])]
     /\ Goto(c, "clock", [loc[c] EXCEPT !.to = txc[r], !.skb = first_pkt_size[r][c]])
     /\ UNCHANGED <<rlVars, first_pkt_size, bytes_enqueued, tokens, cbVars, arrivals>>

(* ... whose verdict is ignored.                                            *)
HandedOver(c) ==
  /\ pc[c] = "handed"
  /\ PayAndAdvance(c, list[loc[c].rl][c])
  /\ UNCHANGED <<rlVars, list, cbVars, arrivals>>

(* The loop ends: too few tokens or a full burst, or no room in the class.  *)
LoopEnd(c) ==
  LET r == loc[c].rl
  IN /\ pc[c] = "loop"
     /\ \/ ~MaySend(c)
        \/ /\ MaySend(c)
           /\ r \in Leaf
           /\ ~iso_rl_has_space_for(txc[r], c, first_pkt_size[r][c])
     /\ Goto(c, Unlock(c), loc[c])
     /\ UNCHANGED <<rlVars, queueVars, cbVars, arrivals>>

(* Label unlock: a leaf triggers the dequeue of its class.                  *)
TriggerParent(c) ==
  LET r == loc[c].rl
  IN /\ pc[c] = "unlock"
     /\ Goto(c, "borrow",
             [loc[c] EXCEPT !.rl = txc[r], !.timeout = FALSE, !.sum = 0, !.leaf = r,
                            !.leaf_timeout = loc[c].timeout, !.leaf_sum = loc[c].sum])
     /\ UNCHANGED <<rlVars, queueVars, cbVars, arrivals>>

(* Where iso_rl_dequeue returns to: the dequeue of the leaf that triggered  *)
(* it, the loop of the tasklet, or iso_tx, which returns.                   *)
Return(c) ==
  LET l == loc[c]
  IN \/ /\ l.leaf # None
        /\ Goto(c, "timeout", [l EXCEPT !.rl = l.leaf, !.timeout = l.leaf_timeout,
                                        !.sum = l.leaf_sum, !.leaf = None,
                                        !.leaf_timeout = FALSE, !.leaf_sum = 0])
     \/ /\ l.leaf = None
        /\ l.task
        /\ Goto(c, "tasklet", [l EXCEPT !.sent = l.sent + l.sum, !.timeout = FALSE, !.sum = 0])
     \/ /\ l.leaf = None
        /\ ~l.task
        /\ Goto(c, "idle", NoLocals)

(* Mutant: the queue is linked whether or not it is on the list.            *)
LinkAndArm_Twice(c, r) ==
  /\ active_list' = [active_list EXCEPT ![c] = Append(active_list[c], r)]
  /\ timer' = [timer EXCEPT ![c] = TRUE]
  /\ UNCHANGED xmit_timeout

(* Label timeout: wait on the active list, once, with the timer armed.      *)
LinkAndArm(c, r) ==
  /\ active_list' = IF r \in Range(active_list[c]) THEN active_list
                    ELSE [active_list EXCEPT ![c] = Append(active_list[c], r)]
  /\ timer' = [timer EXCEPT ![c] = TRUE]
  /\ UNCHANGED xmit_timeout

DequeueReturn(c) ==
  /\ pc[c] = "timeout"
  /\ IF loc[c].timeout THEN LinkAndArm(c, loc[c].rl) ELSE UNCHANGED cbVars
  /\ Return(c)
  /\ UNCHANGED <<rlVars, queueVars, arrivals>>

-----------------------------------------------------------------------------
(* iso_rl_xmit_tasklet.  Entries are removed at the head and added at the   *)
(* tail, so list_for_each_entry_safe always stands at the head; its         *)
(* lookahead qtmp is the second entry, or the end of the list.              *)

TaskletStart(c) ==
  /\ pc[c] = "idle"
  /\ xmit_timeout[c]
  /\ xmit_timeout' = [xmit_timeout EXCEPT ![c] = FALSE]
  /\ Goto(c, "tasklet",
          [loc[c] EXCEPT !.task = TRUE, !.more = active_list[c] # <<>>,
                         !.first = IF active_list[c] = <<>> THEN None ELSE Head(active_list[c])])
  /\ UNCHANGED <<rlVars, queueVars, active_list, timer, arrivals>>

(* The list has come round to where the tasklet started, or a limit is hit. *)
TaskletBreaks(c) ==
  \/ Len(active_list[c]) >= 2 /\ active_list[c][2] = loc[c].first
  \/ loc[c].count + 1 > budget
  \/ loc[c].sent > 2 * ISO_MIN_BURST_BYTES

TaskletNext(c) ==
  LET q == Head(active_list[c])
  IN /\ pc[c] = "tasklet"
     /\ loc[c].more
     /\ ~TaskletBreaks(c)
     /\ active_list' = [active_list EXCEPT ![c] = Tail(active_list[c])]
     /\ Goto(c, "clock", [loc[c] EXCEPT !.count = loc[c].count + 2, !.rl = q, !.to = q,
                                        !.more = Tail(active_list[c]) # <<>>])
     /\ UNCHANGED <<rlVars, queueVars, timer, xmit_timeout, arrivals>>

(* Mutant: the tasklet leaves the timer to the queues it has served.        *)
Rearm_Never(c) == timer[c]

(* The timer is armed again while queues wait.                              *)
Rearm(c) == timer[c] \/ active_list[c] # <<>>

TaskletEnd(c) ==
  /\ pc[c] = "tasklet"
  /\ ~loc[c].more \/ TaskletBreaks(c)
  /\ timer' = [timer EXCEPT ![c] = Rearm(c)]
  /\ Goto(c, "idle", NoLocals)
  /\ UNCHANGED <<rlVars, queueVars, active_list, xmit_timeout, arrivals>>

-----------------------------------------------------------------------------
Clock(c) == ClockNotDue(c) \/ ClockRead(c) \/ ClockWrite(c) \/ ClockCap(c)

Enqueue(c) == \/ EnqueueDrop(c) \/ EnqueueTail(c) \/ EnqueueError(c)
              \/ EnqueueSplit(c) \/ EnqueueSegment(c)

Dequeue(c) == \/ NoBorrow(c) \/ BorrowLock(c) \/ BorrowTake(c)
              \/ BorrowShort(c) \/ BorrowFail(c) \/ PeekEmpty(c) \/ Peek(c)
              \/ Transmit(c) \/ HandOver(c)
              \/ HandedOver(c) \/ LoopEnd(c) \/ TriggerParent(c) \/ DequeueReturn(c)

Tasklet(c) == TaskletStart(c) \/ TaskletNext(c) \/ TaskletEnd(c)

Step(c) == Clock(c) \/ Enqueue(c) \/ Dequeue(c) \/ Tasklet(c)

Next ==
  \E c \in Cpu :
    \/ \E d \in Leaf, r \in Rates : Feedback(c, d, r)
    \/ \E k \in Class, r \in Rates : TxcTick(c, k, r)
    \/ \E d \in Leaf, s \in PktSize : iso_tx(c, d, s)
    \/ iso_rl_timeout(c)
    \/ Step(c)

Spec == Init /\ [][Next]_vars

(* Interrupts and softirqs are served and code that was entered is          *)
(* executed; a limiter that is clocked again and again (at least            *)
(* ISO_TOKENBUCKET_TIMEOUT_NS apart when nothing but the timer runs, which  *)
(* exceeds ISO_RL_UPDATE_INTERVAL_US) is refilled again and again.  Nothing *)
(* obliges packets or feedback to arrive.                                   *)
FairSpec ==
  /\ Spec
  /\ \A c \in Cpu :
       /\ WF_vars(iso_rl_timeout(c))
       /\ WF_vars(Step(c))
       /\ \A r \in RL : SF_vars(loc[c].to = r /\ ClockRead(c))

-----------------------------------------------------------------------------
(* Types of the variables.                                                  *)
TypeOK ==
  /\ rate \in [RL -> 0..MaxRate]
  /\ total_tokens \in [RL -> Nat]
  /\ spinlock \in [RL -> Cpu \cup {None}]
  /\ raced \subseteq RL
  /\ list \in [RL -> [Cpu -> Seq(PktSize)]]
  /\ first_pkt_size \in [RL -> [Cpu -> PktSize \cup {0}]]
  /\ bytes_enqueued \in [RL -> [Cpu -> Int]]
  /\ tokens \in [RL -> [Cpu -> Nat]]
  /\ active_list \in [Cpu -> Seq(RL)]
  /\ timer \in [Cpu -> BOOLEAN]
  /\ xmit_timeout \in [Cpu -> BOOLEAN]
  /\ pc \in [Cpu -> Label]
  /\ loc \in [Cpu -> Locals]
  /\ arrivals \in 0..MaxArrivals

(* No queue is put on an active list twice: "don't recursively add!" in     *)
(* iso_rl_dequeue.  A second list_add_tail of a linked entry would corrupt  *)
(* the list.                                                                *)
NeverLinkedTwice ==
  \A c \in Cpu : \A i, j \in DOMAIN active_list[c] :
    active_list[c][i] = active_list[c][j] => i = j

(* No lost wakeup, part 1: on a CPU that runs none of this code, a queue    *)
(* that holds packets is on the active list.                                *)
BacklogIsListed ==
  \A c \in Cpu, r \in RL :
    pc[c] = "idle" /\ list[r][c] # <<>> => r \in Range(active_list[c])

(* No lost wakeup, part 2: while a queue waits on the active list, the      *)
(* timer is armed, the tasklet is scheduled, or the tasklet is running.     *)
ListedIsServed ==
  \A c \in Cpu :
    active_list[c] # <<>> => timer[c] \/ xmit_timeout[c] \/ loc[c].task

(* What becomes of a packet that a leaf has taken out of its queue, when    *)
(* the enqueue in its class, whose verdict iso_rl_dequeue ignores, returns. *)
(* iso_rl_has_space_for has seen to it that the class has room, so it is    *)
(* never dropped; and a packet too small to be split is the last in the     *)
(* queue of the class then, whatever the clock of the class did in between. *)
(* A large packet may be lost where a slow class splits it: the split       *)
(* fails, or the segments, headers repeated, outgrow the room.              *)
HandOverArrives ==
  \A c \in Cpu :
    pc[c] = "handed" =>
      LET r == loc[c].rl
          queue == list[txc[r]][c]
      IN /\ loc[c].verdict # "DROP"
         /\ first_pkt_size[r][c] <= ISO_GSO_MIN_SPLIT_BYTES =>
              /\ loc[c].verdict = "SUCCESS"
              /\ queue # <<>>
              /\ queue[Len(queue)] = first_pkt_size[r][c]

(* A packet leaves its leaf's queue but is still counted in it while it is  *)
(* being enqueued in the class.                                             *)
InHand(r, c) ==
  /\ loc[c].rl = r
  /\ r \in Leaf
  /\ \/ pc[c] = "handed"
     \/ /\ pc[c] \in {"clock", "refill", "cap", "enqueue", "segment"}
        /\ loc[c].skb # 0 /\ loc[c].to \in Class

(* bytes_enqueued, which decides about drops and back-pressure, is the sum  *)
(* of the sizes of the queued packets, whatever mix of whole packets and    *)
(* segments they are.                                                       *)
BytesAreAccounted ==
  \A r \in RL, c \in Cpu :
    bytes_enqueued[r][c] = Total(list[r][c], DOMAIN list[r][c])
                           + (IF InHand(r, c) THEN first_pkt_size[r][c] ELSE 0)

SegSize == UNION {Range(g) : g \in UNION Range(GsoSegs)}

(* A queue exceeds ISO_MAX_QUEUE_LEN_BYTES by less than one segment.        *)
QueueIsBounded ==
  \A r \in RL, c \in Cpu :
    \/ bytes_enqueued[r][c] <= ISO_MAX_QUEUE_LEN_BYTES
    \/ \E s \in SegSize : bytes_enqueued[r][c] < ISO_MAX_QUEUE_LEN_BYTES + s

(* The burst a queue can send is bounded unless two CPUs were in the pool   *)
(* of its limiter at once: outside the two stores of iso_rl_clock the pool  *)
(* keeps to the cap at the largest rate, and a queue borrows only when its  *)
(* own tokens do not cover the first packet.  After a race neither holds:   *)
(* the other CPU may borrow the sum before it is capped, or the pool wraps. *)
BurstIsBounded ==
  \A r \in RL \ raced, c \in Cpu :
    /\ \/ total_tokens[r] <= TokenCap(MaxRate)
       \/ \E o \in Cpu : pc[o] = "cap" /\ loc[o].to = r
    /\ \/ tokens[r][c] <= TokenCap(MaxRate)
       \/ \E s \in PktSize : tokens[r][c] < TokenCap(MaxRate) + s

(* rl->spinlock is held by the CPU in iso_rl_borrow_tokens and by no other. *)
LockIsExclusive ==
  \A c \in Cpu, r \in RL : (spinlock[r] = c) <=> (pc[c] = "locked" /\ loc[c].rl = r)

(* A backlog is worked off: once packets stop arriving, every queue of both *)
(* levels becomes and stays empty.                                          *)
BacklogDrains == <>[](\A r \in RL, c \in Cpu : list[r][c] = <<>>)
=============================================================================
