# A TLA+ verification of EyeQ (perfiso)

EyeQ is a Linux kernel module that gives the tenants of a machine guaranteed
bandwidth. The sender paces every destination with a rate limiter. The receiver
measures congestion in one virtual queue per tenant and sends the rate it can
accept back to the sender. This directory holds TLA+ models of that code, TLC
configurations that check them on small instances, and TLAPS proofs.

The model follows the build of `src/Makefile`: `-DISO_TX_CLASS_IPADDR -DQDISC`,
objects `stats rc rl vq tx rx params qdisc main`. Code under other `#ifdef`s is
left out.

## 1. Inventory

| Part | Source | State | Operations |
|---|---|---|---|
| Rate limiter | `rl.c`, `rl.h`, `tx.c` (`iso_tx`) | rate and token pool of a limiter; per CPU a queue, tokens, active list, timer, tasklet | clock, enqueue (with GSO splitting), dequeue, borrow, timer, tasklet |
| Transmit classes | `tx.c`, `params.c` | hash table and list of classes, weights, guaranteed rates, caps, reference to a virtual queue | create, delete, weight, cap, associate, periodic tick |
| Virtual queues | `vq.c`, `params.c` | hash table and list, weights, rates, `alpha`, `feedback_rate`, per-CPU counters | create, delete, weight, rate, enqueue, drain |
| Configuration | `params.c` | `config_mutex` | the ten parameter files |
| Per-destination state | `tx.c` | hash tables of states and limiters, preallocated lists | look-up, creation, allocator work item |
| Receive path | `rx.c` | device-wide rate, advertised rate | `iso_rx`, statistics, feedback generation and reception |
| Qdisc and module | `qdisc.c`, `main.c` | the contexts of a device, handlers | init, attach, destroy, load, unload |
| Legacy rate control | `rc.c` | per-state rate control | compiled, not called |

How they interact. `iso_enqueue` calls `iso_tx`, which finds the class and the
per-destination state, ticks the rates of all classes, and puts the packet in
the queue of the destination's limiter. Dequeueing a destination's limiter
moves the packet into the queue of its class's limiter, which sends it.
`iso_rx_handler` calls `iso_rx`, which finds the virtual queue, counts the
packet, drains the queue when an interval has passed, and sends feedback.
Feedback that arrives sets the rate of the destination's limiter. Parameter
files change classes and queues while all this runs.

What makes it hard. Packet paths run on all CPUs at once. Most shared state is
read without a lock or behind a trylock whose failure is a normal outcome.
Queues are woken by a timer and a tasklet, so a wakeup can be lost. Classes and
queues are freed after a grace period while pointers to them may remain.
Allocation may fail. Rates are unsigned integers that wrap.

What "correct" means here:

- no wakeup is lost, no list entry is linked twice, every backlog drains;
- a packet that left one queue is not dropped on its way into the next, and
  arrives there unless it is split;
- queue lengths stay bounded under every interleaving, and bursts until two CPUs
  are in one token pool at once;
- guaranteed rates add up to no more than the device, and the rate that a tick or
  a write gives a class is between its guarantee and its cap;
- reference counts are exact, and a look-up never holds a freed class;
- there is one state per destination, complete before it is visible;
- the rate a queue advertises stays between its minimum and the queue's share;
- a sender ends up at the rate its receiver advertises, although feedback is
  lost and overtaken, and slows down when it hears nothing;
- adding, refusing and deleting a root leaves nothing behind and frees nothing
  that a packet path uses.

`PROJECT.json` lists the hazards one by one, each at its line.

## 2. Structure

1. **Components.** `RateLimiter`, `ClassConfig`, `DestState`, `Receiver` and
   `Lifecycle` each model one part in detail, with its interleavings.
2. **Composition.** `FeedbackLoop` joins the two ends of the congestion control
   by an unreliable network, each end in one step per packet.
3. **Abstract specifications.** `PacketPath` is what the rate limiters promise
   about packets, `DestMap` what the per-destination tables promise;
   `RateLimiter` and `DestState` are shown to implement them.
4. **Proofs**, for all values of the constants: `RateLimiterProofs` and
   `PathProofs` (`RateLimiter`, with `RateLimiterInv` and `PathRefinement`),
   `ClassConfigProofs`, `DestStateProofs`, `ReceiverProofs`,
   `FeedbackLoopProofs` and `LifecycleProofs`. `SumLemmas` holds what the proofs
   need to know of the sums of module `Sums`.

## 3. Modules

`MC*.tla` modules only define constant values for TLC.

### RateLimiter (`rl.c`, and `iso_tx` of `tx.c`)

A limiter is the limiter of a destination (`Leaf`) or of a class (`Class`).
Variables have the names of the fields of `struct iso_rl`, `struct
iso_rl_queue` and `struct iso_rl_cb`. `pc[c]` says which statement CPU `c` has
reached; `loc[c]` holds its local variables, including the call stack, which is
at most leaf, class, and the tasklet below them.

| Code | Actions |
|---|---|
| `iso_tx` after the look-ups | `iso_tx` |
| `iso_rl_clock` | `ClockNotDue`, `ClockRead`, `ClockWrite`, `ClockCap` (the pool is read and written twice without a lock) |
| `iso_rl_enqueue` | `EnqueueDrop`, `EnqueueTail`, `EnqueueError`, `EnqueueSplit`, `EnqueueSegment` |
| `iso_rl_borrow_tokens` | `NoBorrow`, `BorrowLock`, `BorrowTake`, `BorrowShort`, `BorrowFail` |
| `iso_rl_dequeue` | `PeekEmpty`, `Peek`, `Transmit`, `HandOver`, `HandedOver`, `LoopEnd`, `TriggerParent`, `DequeueReturn` |
| `iso_rl_timeout` (hrtimer) | `iso_rl_timeout` |
| `iso_rl_xmit_tasklet` | `TaskletStart`, `TaskletNext`, `TaskletEnd` |
| rate written by feedback and by `iso_txc_tick` | `Feedback`, `TxcTick` |

A packet is its size. Time is a choice: whether a refill is due, and how many
microseconds have passed (`Us`), are free.

The clock takes no lock, so the pool can change between its two stores and
between the statements of a borrower. The compiler may keep `total_tokens` in a
register or read it again; `ClockCap`, `BorrowTake` and `BorrowShort` allow both,
and subtraction wraps at `U64`. `raced` is a history variable: the limiters in
whose pool two CPUs have been at once.

`PacketPath` is the abstract specification. It knows the queues, their bytes,
and the packets that each CPU has in hand; it has no tokens, rates, lists or
timers. A packet comes into a CPU's hand, is accepted at the tail of a queue
with room, refused, or split into segments; the head of a class's queue is
sent, the head of a destination's queue passes into the hand for its class.
`PathRefinement` maps `RateLimiter` to it. Two things need care in the map. The
loop over the segments of a packet keeps several in hand. And
`bytes_enqueued` of a destination still counts a packet that is being handed
over, up to the moment the class is done with it.

### ClassConfig (`params.c`, class and queue management of `tx.c` and `vq.c`)

A `Writer` is a process in a parameter file's handler. It goes through `Write`,
`Down` (or `Interrupted`), one action for the body of the handler, `Recompute`
where the handler calls `iso_txc_recompute_rates`, for a deletion `Sync` (the
grace period) and `FreeTxc` or `FreeVq`, and `Up`. A creation is two actions, the
check for an existing entry and `AllocTxc` or `AllocVq`, because the allocations
in between may sleep. `BadWrite` is a text that does not parse or names no
device; `create_txc` and `create_vq` ignore what `sscanf` returns and may go on
with whatever class the stack holds (`GarbledCreate`). `ReturnLocked` is the path
of `recompute_dev` that returns without releasing the mutex.

A `Cpu` runs the packet paths. `TickStart`, `TickClass`, `TickEnd` are
`iso_txc_tick`. `TxLookup` and `RxLookup` begin to walk a hash bucket, which goes
on entry by entry (`WalkFound`, `WalkNext`) up to `ReadUnlock`; a walk that
stands on a class which `hlist_del` takes out of its bucket follows poison
(`WalkPoisoned`, `"oops"`). `ClockRead` and `ClockWrite` are `iso_rl_clock` on the
limiter of a class, which lowers the class's rate without a lock; `cut` is
history and says that it was the last to write the rate.

Freed memory keeps its contents and is not reused, so the model follows dangling
pointers as the code would on a lucky day and the properties say where that
happens. A second deletion of a freed queue stops the writer for good with the
mutex held.

`vq_list` is only ever walked to add up, so it is a set. Sums of weights and
rates (as those of packet sizes in `RateLimiter` and of packets in
`FeedbackLoop`) are `Total` of module `Sums`: the number of pairs `<<i, k>>` with `k` from
1 to the summand of `i`. Counting needs no recursion, so the provers can use the
library's theorems on cardinalities.

### DestState (`iso_state_get`, `iso_pick_rl`, `iso_txc_allocator`)

Look-ups walk the hash bucket without a lock. Creation takes `writelock` by
trylock, looks again, takes a state and a limiter from the preallocated lists,
and publishes the state. The allocator is a work item that fills the lists one
entry at a time, and may run out of memory. A list iterator that reached its
end keeps the value that the kernel's macro gives it.

`DestMap` is the abstract specification: a map from destinations to a state and
a limiter in which an entry is made once, never changes, and shares neither with
another entry. `DestState` implements it (`KeepsDestMap`), whatever the hash
functions are. That an existing entry is the one a look-up returns is another
matter: it fails when destinations collide, which is `ds_own`.

### Receiver (`rx.c`, `vq.c`)

One virtual queue and all CPUs. `iso_rx` is split where other CPUs can come in
between: statistics, advertised rate, the two counters, the check whether a
drain is due, the drain that reads and resets the counters CPU by CPU
(`DrainRead`, `DrainReset`), and the verdict. A packet for which there is no
transmit class is accepted after it was counted and is not answered (`NoClass`).
Arithmetic is taken modulo `U64`, `U32` and `U16`, which are scaled down because
TLC has 32-bit integers; the wrap-around of `u32` differences happens within
the bounds. The weight and cap of the queue are one of `Queues` and do not change
here.

### FeedbackLoop (`iso_tx`, `iso_rl_clock`, `iso_rx` of two hosts)

The network is a bag of packets: any of them may be next, and any may be lost
(`Lose`); from some moment on nothing may reach a host (`Cut`). `iso_tx` sends
and clocks the limiter when a refill is due, which halves the rate after a
timeout without feedback. `iso_rx` finds or creates the state of the peer, sets
its rate unless the last change is too recent, drops generated feedback if the
state is known, and otherwise may answer with feedback. Outcomes of trylocks,
intervals and allocations are the parameters of the action. `Advertise` stands
for a drain of the virtual queue. A limiter comes from the preallocated list, so
it may be overdue or idle when it is put to use.

### Lifecycle (`main.c`, `qdisc.c`, `iso_tx_init` ... `iso_rx_exit`)

`tc` is one process under rtnl; `pc` is the step of the operation it runs.

| Code | Actions |
|---|---|
| `iso_init`, `iso_exit` | `InitStart`, `InitRegister`, `InitFails`, `iso_exit` |
| `mq_init` | `AllocQdiscs`, `AllocContexts`, `iso_tx_init`, `InitNoMemory`, `iso_rx_init`, `Refused`, `CreateDflt`, `InitFailed` |
| `mq_destroy` | `iso_tx_exit`, `ClassUnhash`, `ClassFree`, `TxExited`, `iso_rx_exit`, `VqFree`, `iso_rx_hook_exit`, `Release` |
| `mq_attach`, `mq_graft` | `mq_attach`, `mq_graft` |
| the kernel around them (external) | `TcReplace`, `TcDelete`, `TcGraft`, `Deactivate`, `Detach`, `Swap`, `Activate` |
| `iso_rx_handler` and `iso_rx` | `RxEnter`, `RxCheck`, `RxContext`, `RxLeave` |
| `iso_enqueue` | `TxEnter`, `TxLeave` |
| `create_txc`, `create_vq`, `assoc_txc_vq` | `WriterFind`, `WriterCreate`, `WriterAssoc` |
| both statistics files | `StatsShow`, `StatsDone` |

`Sync` starts a grace period: `gp` is the set of packet paths it waits for.
Teardown of a context that is still all zeroes follows NULL pointers; the
process then stands at `"oops"` for good. The order in which the kernel
attaches, destroys and replaces a root is that of `qdisc_graft` in kernels of
the module's time (before 3.9).

## 4. Runs

| Run | Shows |
|---|---|
| `rl_rates` | byte accounting, the bound of a queue, and that a packet handed over is not dropped and, unless it is split, arrives in the class, while rates change and packets are split; `PacketPath` is implemented |
| `rl_two_dests` | two destinations of a class on one CPU: no queue linked twice, no lost wakeup, and queues of both levels empty once packets stop (liveness) |
| `rl_two_cpus` | exclusion and no lost wakeup with two CPUs that race for the pools, and bounded bursts until they do |
| `cc_rates` | two classes of one bucket, a writer and a packet path: weights are accounted, guarantees fit the device, a rate that `iso_rl_clock` has not cut is between guarantee and cap, look-ups stand on live classes |
| `cc_shares` | two classes and two virtual queues: the shares of the queues fit the drain rate, reference counts are exact through every re-association, with garbled and refused writes |
| `cc_life` | two writers and a reader: no class installed twice, a queue is freed only when unreferenced, and every write returns unless the mutex was leaked or a process died (liveness) |
| `ds_create` | one complete state per destination, lists and counter in step, lists refilled unless memory runs out (liveness); `DestMap` is implemented |
| `rx_two` | `alpha` and the rate a queue advertises stay in range despite races and wrap-around; a feedback packet carries the rate truncated |
| `fb_loop` | a sender speeds up only when its peer told it to; feedback about feedback dies out, the sender follows its receiver, an unheard sender slows down (the last three liveness) |
| `lc_root` | packet paths hold live contexts, teardown returns everything, handler and `gso_max_size` follow the root, nothing remains after unloading, operations of tc end (liveness) |

Two runs are refuted by TLC. Each compares the code with a line of the
repository:

| Run | The line says | The code does |
|---|---|---|
| `cc_dangling` | `params.c:667` a queue is removed after the classes that point to it | the freed queue stays in its hash bucket and can be associated again |
| `ds_own` | `tx.h:20` "Per-dest state" | when no entry of a bucket matches, the last one, of another destination, is returned |

The models also reproduce these deviations, for which no run is kept:

- `iso_rl_clock` and `iso_rl_borrow_tokens` race for the token pool (`rl.c:172`):
  a borrower can take a refill before it is capped, or leave the pool wrapped.
  `BurstIsBounded` is about limiters that were not raced.
- A slow class loses a large packet that was handed over to it when the split
  fails or the segments do not all fit (`rl.c:218`, `rl.c:230`).
- `iso_rl_clock` halves the rate of a class about once a second
  (`rl.c:166`): nothing refreshes its `last_rate_update_time`. It can also store a
  rate that it read before a cap was set. Until the next tick or write the class
  may then be below its guarantee or above its cap (`cut`).
- `delete_txc` leaves the freed class on `txc_list`, and takes it out of its
  bucket by `hlist_del`, whose poison a look-up can follow (`params.c:614`).
- `create_txc` and `create_vq` do not check that their text parsed
  (`params.c:171`, `params.c:220`).
- `set_txc_weight` accepts 0 (`params.c:347`) and `set_txc_rate` refuses rates
  above 1024 (`params.c:412`), both against their own messages.
- A malformed write to `recompute_dev` leaves `config_mutex` locked
  (`params.c:722`), and a second `delete_vq` of a freed queue dies holding it.
  `WritesReturn` excepts these and the oops of a look-up (`Stuck`).
- Creation with an empty preallocated list returns the list head as a state
  (`tx.c:287`).
- A CPU that was delayed between counting its packet and draining finds that
  another one has drained everything, and prints that this should not be
  (`vq.c:193`). Marked packets can outnumber packets without a race, because
  `rx.c:209` resets one of the two counters.
- A queue that receives more than three times its rate without marks advertises
  its full rate, because an unsigned difference wraps (`vq.c:231`).
- A rate above 65535 is truncated in `iph->id` (`rx.h:90`), to 0 if it is a
  multiple of 65536, which senders take for no feedback. At the default drain
  rate of 9000 an uncapped queue of weight 8 gets there, and `set_vq_weight`
  accepts that.
- A second EyeQ root on a device is refused, and its teardown unregisters the
  receive handler of the first (`qdisc.c:407`); `gso_max_size` can stay at
  EyeQ's value afterwards. `DeviceFollowsRoot` is therefore about devices on
  which no root was refused.
- `mq_init` that runs out of memory before a context is initialised tears it
  down all the same (`qdisc.c:153`): `"oops"`.
- A parameter write that overlaps the destruction of its root creates a class or
  queue in it that nobody frees (`raced`), or works on freed memory.
- Readers of the statistics hold contexts that are freed under them; the comment
  at `tx.c:143` says that `iso_txc_show` is called with the rcu lock, and it is
  not.

**Bounds.** `MaxArrivals` is 2: enough for a queue to fill, overflow, and hold a
second packet behind one that waits for tokens, and for two of the three queues
of `rl_two_dests` to wait at once. Packet sizes 1 and 2 with splitting into 2 or 3
segments, a queue of 3 and a burst of 2 keep the order of the real parameters
(initial tokens below a large packet, a burst above one). `budget` is 1 in
`rl_two_dests`, so that a pass of the tasklet serves one queue and leaves another
waiting that only the re-armed timer can serve; it is 3 in the other two runs,
where a pass serves the destination and its class. `rl_two_cpus` has only packets
of size 2, which are not split, and one time between refills, so that its state
space stays small with two CPUs in the two-store clock; `U64` is 16 there, far
above every cap, so a pool that wraps is seen to. `MaxTxc`/`MaxVq` bound the objects ever created:
2 are two classes or queues side by side, or one and its successor under the same
name; `cc_rates` has no queues, and `cc_life` one, which cannot be created again
because it never leaves its bucket. `MaxObj`
gives the allocator of `ds_create` three batches after the first one, more than
three destinations use up. `MaxMarked` and `MaxSince` bound counters that the
code bounds only by traffic; with them marks outnumber packets and the feedback
interval is reached. `LoadLevels` of `rx_two` are just below and just above
three times the drain rate, where the computed rate reaches 0 and wraps. One of
its `TwoQueues` has a cap, below the drain rate and above the minimal rate, so
both arms of the minimum in `iso_vq_drain` are taken; the other has weight 2 and
no cap, and its rates exceed `U16`. `fb_loop` has one sender, whose peer
advertises one of two rates and changes its mind once; `MaxInFlight` is 2, so
older feedback can overtake newer, and feedback about feedback can be on its way
in both directions. `lc_root` has two instances, since two roots of EyeQ can
only meet while one replaces the other, and one transmit queue, which with the
loop over none and over all queues already fails half way; a behaviour in which a
write has created something in a dying instance is followed to the end of the
operation.

**Symmetry.** `rl_two_cpus`, `cc_rates`, `cc_shares` and `rx_two` check
invariants only, and nothing in their modules or requests tells two classes
(`KlassSymmetry`), or two CPUs (`CpuSymmetry`), apart, so states that differ by a
renaming are explored once. The other runs use none.

**Fairness.** Interrupts and softirqs that are pending run, and code that has
been entered continues (weak fairness of timers, tasklets, handler bodies, work
items). A refill that is due again and again happens (strong fairness of
`ClockRead`): the timer's period is longer than the refill interval. A
semaphore or spinlock that is free again and again is obtained (strong fairness
of `Down` and `Recompute`): both are queued in order of arrival. The allocator
gets the class's `writelock` eventually (strong fairness of `Prealloc`), since
it waits for the lock while packet paths only try it. In
`FeedbackLoop` a network that is tried again and again delivers in the end,
time passes, a trylock that is tried again and again succeeds since its holders
never sleep, and feedback that is due again and again is sent (strong fairness
of the cases of `iso_rx`); `SenderFollows` assumes that the application keeps
sending and that the network is not cut. In `Lifecycle` an operation of tc that was
started goes on, and packet paths, which run with bottom halves disabled, come
to their end. `FeedbackLoop` and `Lifecycle` may come to rest, and a `Writer` or a
`Cpu` of `ClassConfig` that dies of an oops may leave everybody else waiting, so
deadlock is not checked there. Nothing obliges packets,
feedback or configuration writes to come. `BacklogDrains` is claimed for one CPU
only: with two, `iso_rl_clock` takes no lock, and a schedule in which one CPU
always overwrites the other's refill starves it; ruling that out would need
fairness that the code does not provide.

## 5. Proofs

Every theorem holds for all values of the constants that satisfy the named
assumptions of the module. Each invariant that a proof rests on was first checked
by TLC on the instance of the component's run. Most steps are first-order, so
the large modules make Zenon their default prover (`USE ZenonT(...)` after
`EXTENDS`); a step that needs arithmetic, records or sequences names SMT.

### RateLimiter

TLAPS proves the following of `RateLimiter` for all sets of CPUs, destinations
and classes and all parameters that satisfy `StructureAssumption`,
`SizeAssumption` and `ParamAssumption`. These say that constants have their
types, that a segmented packet has at least one segment, that no rate exceeds
`MaxRate`, and that a new limiter has at most one minimal burst of tokens.

| Theorem | Statement |
|---|---|
| `TypeCorrect` | `Spec => []TypeOK` |
| `LockExclusive` | `Spec => []LockIsExclusive` |
| `LinkedOnce` | `Spec => []NeverLinkedTwice` |
| `NoLostBacklog` | `Spec => []BacklogIsListed` |
| `NoLostTimer` | `Spec => []ListedIsServed` |
| `BurstBounded` | `Spec => []BurstIsBounded` |
| `HandOverFits` | `Spec => []HandOverArrives` |
| `PathIsKept` | `Spec => KeepsPacketPath`: the limiters implement `PacketPath` |
| `BytesAccounted` | `Spec => []BytesAreAccounted` |
| `QueueBounded` | `Spec => []QueueIsBounded` |
| `OverflowAlwaysDrops` | the branch of `iso_rl_enqueue` that trims a packet is never taken |

The argument. `RateLimiterInv` holds the strengthenings. `FrameInv` says what
the local variables of a CPU mean at each label; `TypeOK` alone is not inductive
because, for example, `DequeueReturn` needs to know that `loc.rl` is a limiter.
`TypeOK /\ FrameInv` is inductive and every other proof builds on it.
`BacklogIsListed` speaks of idle CPUs only. `WakeupInv` extends it to running
CPUs: a backlogged queue is listed, or its CPU is responsible for it (`Busy`),
which means that the CPU works on it or will return to it before it becomes
idle. `RoomInv` carries the answer of `iso_rl_has_space_for` through the steps
up to the enqueue in the class; it is stable because only the CPU itself adds to
its queue. `BurstInv` says that a pool that was never raced for has one CPU in it
at most, so that what a borrower has read is what is there, and that it borrows
only when it needs to. Since almost every step changes the state of one
CPU, each invariant is a predicate per CPU, with one lemma for the CPU that
moves (`...Own`) and one for the others (`...Other`), which rest on `Locality`
and one `...Effect` lemma per action.

`PathIsKept` is a refinement proof. `PathInit` maps initial states. For every
action there is a lemma that says which step of `PacketPath` it is
(`EnqueueTailPath` an acceptance, `TransmitPath` a transmission, `HandOverPath`
the passing of a packet to its class, and so on) or that it changes nothing
`PacketPath` sees. They need `FrameInv` to know what a CPU has in hand, and two
facts that the code never checks: that `first_pkt_size` is the size of the head
of the queue while the loop of `iso_rl_dequeue` runs, and that the answer of
`iso_rl_has_space_for` means room in the queue of the class.

`BytesAccounted` follows from the refinement. Seen from `PacketPath`, a queue
takes a packet at its tail, gives one up at its head, or stays as it is, and its
bytes change with it; so `QueuedBytes`, that the bytes are the sum of the sizes,
is inductive once two facts about sums are known (`TotalAppend` and `TotalTail`
of `SumLemmas`, for sequences of any length). `bytes_enqueued` is then the sum
plus the packet that is being handed over. `QueueBounded` does not need the sum:
`LengthInv` adds to the bound that what the loop over the segments still has to
queue are segments, so the one packet that may pass the limit is one of them.

### ClassConfig

`ConfigAssumption`: the constants have their types, writers and CPUs are
different, and `ISO_MIN_RFAIR` is at most `ISO_MAX_TX_RATE`. Any number of
writers, CPUs, classes and queues; requests are any set of well-typed ones.

| Theorem | Statement |
|---|---|
| `TypeCorrect` | `Spec => []TypeOK` |
| `OneEntryPerClass` | `Spec => []InstalledOnce` |
| `NoUseAfterFree` | `Spec => []ReadersHoldLiveClasses` |
| `ExactReferences` | `Spec => []RefcntIsExact` |
| `WeightsSum` | `Spec => []WeightsAreAccounted` |
| `GuaranteesAreKept` | `Spec => []GuaranteesFit` |
| `ContractsAreKept` | `Spec => []RatesKeepContract` |
| `SharesAreKept` | `Spec => []VqSharesFit` |
| `NoReferenceToFreed` | `Spec => FreedUnreferenced` (an action property) |

`IInv` has six parts. `GuaranteesFit` and `RatesKeepContract` speak of moments
at which no handler is at work, so `TxInv` says what holds in between: the sum of
the weights is right at every step, the guarantees fit except while a class is
being created, and the contracts of classes that are not `cut` hold except while a
recomputation is pending.
`WriterInv` says that a handler past its `down` holds `config_mutex` and that
what it found is still so: the class it deletes is out of the table, the queue it
deletes has no references. `AllocInv` carries the check of a creation through its
allocations: what was missing is still missing when it is inserted. `RefInv` counts references of freed queues too, since
they can be associated again. `CpuInv` is the argument for the grace period: a
deletion that has begun to wait for it waits for every CPU that holds its class,
which is any CPU between the first entry of its walk and `rcu_read_unlock`. That
a walk always stands on an entry that was in the table needs the largest element
of a finite set (`LargestExists` of `SumLemmas`).
Each action has a lemma for each part that it can disturb. The shares need that
rounding down `weight * rate / total` for every member of a set adds up to at
most `rate` (`SumLemmas`). What the lemmas use of finite sets and sums is stated
once, as `SumFacts`, and assumed by those that need it; `SumsHold` proves it from
`SumLemmas` at the end of the module, so no theorem rests on it.

### DestState

`DestAssumption`: the hash functions are functions on the destinations (any
functions, so any collisions), and a batch of preallocated objects fits `MaxObj`.

| Theorem | Statement |
|---|---|
| `TypeCorrect` | `Spec => []TypeOK` |
| `ListsInStep` | `Spec => []FreelistsAgree` |
| `CompleteWhenPublished` | `Spec => []PublishedIsComplete` |
| `ImplementsDestMap` | `Spec => KeepsDestMap` |
| `OwnWithoutCollisions` | `NoCollisions => (Spec => []StateIsOwn)` |

`PublishedIsComplete` and `KeepsDestMap` follow from the way the two preallocated
lists move. `ListInv` says that both hold consecutive objects, in the order of
their allocation, and that outside the critical section the same number of
states and of limiters has left them. So the state that is published next and
the limiter that `iso_pick_rl` gives it have the same number (`FillInv`), which
no published state has (`HashInv`): entries share nothing. `LockInv` makes the
look-up under `writelock` decisive: nobody else fills the bucket before the
state is published. `RlInv` ties the limiters' table to the states', so
`iso_pick_rl` never finds a limiter for a destination whose state is missing.
Each step of `DestState` is shown to be a step of `DestMap` (publication) or to
leave the map as it is.

`OwnWithoutCollisions` delimits what `ds_own` refutes. `NoCollisions` says that no
two destinations have the same bucket. `HeldInv` says that a CPU that has left
`iso_state_get` holds the entry of its destination's bucket, which is inductive
because a bucket that has an entry keeps it. With `HashInv` that entry is the
destination's own. So the races of creation never mix destinations up; a shared
bucket alone does.

### Receiver

`ReceiverAssumption`: the constants have their types, word sizes are positive,
and the minimal rate is positive and at most the drain rate.

| Theorem | Statement |
|---|---|
| `TypeCorrect` | `Spec => []TypeOK` |
| `AlphaBounded` | `Spec => []AlphaInRange` |
| `AdvertisedBounded` | `Spec => []AdvertisedInRange` |

No wrap-around of the 64-bit and 32-bit arithmetic, whatever the measured rates,
takes the rate that a queue advertises out of its range. The range is that
between `ISO_MIN_RFAIR` and the queue's cap or share; where the drain rate
exceeds `ISO_MAX_TX_RATE`, `iso_vq_drain` advertises that constant (`vq.c:235`).
What a feedback packet carries is such a rate modulo `U16`, which is the rate
itself only as long as it fits. The theorem needs no assumption about weights
because the property says both.

### FeedbackLoop

`FeedbackAssumption`: two hosts, a finite set of positive advertised rates,
initial and idle rate at least 2 (the code's are 5000 and 2500). Any number of
packets in flight, of losses and of changes of the advertised rates.

| Theorem | Statement |
|---|---|
| `TypeCorrect` | `Spec => []TypeOK` |
| `SpeedsUpWhenTold` | `Spec => RaisedByPeer` (an action property) |
| `FeedbackNeverGrows` | `Spec => [][talking = {} => InFlight' <= InFlight]_vars` |

`TypeOK` is inductive: it bounds the number of all packets in flight, not only
the count of each kind, and it says that a limiter's rate is at least 2 or an
advertised one. `Sends`, `Takes` and `Answers` say what each
use of the network does to the number of packets, by the lemmas on sums; an
answer of `iso_rx` takes the place of the packet that caused it, which is also
why feedback about feedback does not grow. `RaisedByPeer` has one exception that
the proof brought up: `iso_rl_clock` takes the maximum of half the rate and 2, so
a peer that advertises 1 gets a rate that a missing feedback raises to 2.

### Lifecycle

`LifecycleAssumption`: different kinds of things are different, and a device has
a transmit queue. Any number of qdisc slots, queues and packet paths.

| Theorem | Statement |
|---|---|
| `TypeCorrect` | `Spec => []TypeOK` |
| `PathsAreSafe` | `Spec => []PathsHoldLiveContexts` |
| `TeardownIsComplete` | `Spec => []TeardownReleasesAll` |
| `DeviceFollows` | `Spec => []DeviceFollowsRoot` |
| `UnloadLeavesNothing` | `Spec => []UnloadedIsClean` |

The properties speak of moments at which tc is at rest; the invariant says what
is true at every program point of every operation. `Point` is where tc is, or
where it goes on when the grace period is over, so that waiting needs no cases of
its own. `ControlInv` says what each point works on (the new root, the old one, a
failed one that is being undone), `ContextInv` which contexts exist and are
listed, `QueueInv` whom the transmit queues belong to, `ObjectInv` where classes
and queues may still be. `PathInv` is the argument for safety: whoever is past
its check has a live root, and from the moment a root's contexts are released
nobody is left inside whom the grace periods did not wait for. It needs all the
others, because the paths are shut by different means: transmission by
deactivating the device, reception by unregistering the handler. `HookInv` and
`GsoInv` follow the handler and `gso_max_size` through the undoing of a failed
attempt; `ModuleInv` keeps the module loaded while anything is left of it.

### Only model-checked

- All liveness: `BacklogDrains`, `WritesReturn`, `Refills`, `OperationsEnd`,
  `FeedbackSettles`, `SenderFollows` and `UnheardSlowsDown`. Fairness is out of
  the provers' reach. Every invariant and every safety property of the passing
  runs is stated by a theorem.
- That `StateIsOwn` (with collisions) and `NoDanglingVq` fail.

## 6. Not modelled

- **Timer and tasklet at teardown** (`rl.c:36`): `iso_rl_exit` kills the tasklet
  before it cancels the timer that can schedule it again. `Lifecycle` leaves
  both out; with them the property that the tasklet finds its memory alive fails
  by just that step.
- **The allocator work item of a freed class** (`tx.c:500`): nothing cancels it.
- **Dump and class operations of the qdisc** (`mq_dump`, `mq_walk` and others):
  they read counters under rtnl and change nothing of EyeQ.
- **A virtual queue of weight 0** (`vq.c:231`): a drain then divides by 0.
- **Legacy rate control** (`rc.c`): `iso_rc_rx` has no caller in this build.
- **Classification** (`class.h`): pure functions of packet headers. A class is a
  model value.
- **What the statistics print** (`stats.c`, `iso_*_show`): formats counters. The
  walk of a reader over the contexts is part of `Lifecycle`.
- **`bridge.c`, `direct.c`**: not built.
- **`tools/`, `scripts/`**: user-space scripts. What they write to parameter
  files is in the requests of `ClassConfig`.
- Reuse of freed memory, real time, and the effects of memory corruption after
  a dangling pointer was followed.
