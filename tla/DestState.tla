----------------------------- MODULE DestState -----------------------------
(***************************************************************************)
(* The per-destination states of one transmit class (tx.c): the look-up by  *)
(* the packet paths, iso_state_get and iso_pick_rl, which create a state    *)
(* for a destination that sent feedback, and the work item                  *)
(* iso_txc_allocator that refills the preallocated states and limiters.     *)
(*                                                                          *)
(* The k-th state and the k-th limiter allocated are index k of state and   *)
(* of rl.  Look-ups take no lock; creation takes txc->writelock by trylock. *)
(* A list iterator that has run to its end does not hold NULL: after an     *)
(* hlist walk it is the last entry, after a walk over an empty list it is   *)
(* Bogus, the list head taken for an entry.                                 *)
(***************************************************************************)
EXTENDS Integers, Sequences, FiniteSetsExt

CONSTANTS
  Cpu,           \* CPUs in the packet paths
  Ip,            \* destinations
  StateBucket,   \* [Ip -> bucket], the hash of state_bucket
  RlBucket,      \* [Ip -> bucket], the hash of rl_bucket
  None,          \* no CPU holds the lock
  Batch,         \* states preallocated at a time (32)
  Low,           \* freelist_count at which the allocator is scheduled (10)
  MaxObj         \* bound: states ever allocated

NULL == 0
Bogus == -1

ASSUME DestAssumption ==
  /\ Ip # {} /\ DOMAIN StateBucket = Ip /\ DOMAIN RlBucket = Ip
  /\ None \notin Cpu
  /\ Batch \in Nat /\ Low \in Nat /\ MaxObj \in Nat /\ Batch <= MaxObj

VARIABLES
  state,               \* Seq of struct iso_per_dest_state: ip_key, rl
  rl,                  \* Seq of rl->ip
  state_bucket,        \* [bucket -> Seq of states], head first
  rl_bucket,           \* [bucket -> Seq of limiters]
  prealloc_state_list,
  prealloc_rl_list,
  freelist_count,
  writelock,           \* the holder or None
  pending,             \* the allocator is scheduled
  left,                \* allocations the running allocator still has to do
  scarce,              \* whether memory can run out in this behaviour
  pc, ip, found        \* [Cpu -> ...]: program point, key, result

heap == <<state, rl, prealloc_state_list, prealloc_rl_list, freelist_count>>
tables == <<state_bucket, rl_bucket>>
work == <<pending, left>>
vars == <<heap, tables, work, writelock, scarce, pc, ip, found>>

NoIp == CHOOSE x \in Ip : TRUE
StateBuckets == {StateBucket[i] : i \in Ip}
RlBuckets == {RlBucket[i] : i \in Ip}
Upto(n) == [k \in 1..n |-> k]

\* iso_txc_init and the iso_txc_prealloc of iso_txc_alloc, which stops early
\* when memory runs out.
Init ==
  /\ scarce \in BOOLEAN
  /\ \E n \in 0..Batch :
       /\ n = Batch \/ scarce
       /\ state = [k \in 1..n |-> [ip_key |-> NULL, rl |-> NULL]]
       /\ rl = [k \in 1..n |-> NULL]
       /\ prealloc_state_list = Upto(n) /\ prealloc_rl_list = Upto(n)
       /\ freelist_count = n
  /\ state_bucket = [b \in StateBuckets |-> <<>>]
  /\ rl_bucket = [b \in RlBuckets |-> <<>>]
  /\ writelock = None /\ pending = FALSE /\ left = 0
  /\ pc = [c \in Cpu |-> "idle"] /\ ip = [c \in Cpu |-> NoIp]
  /\ found = [c \in Cpu |-> NULL]

-----------------------------------------------------------------------------
\* The bucket of destination d, and where in it there are states of d.
Bucket(d) == state_bucket[StateBucket[d]]
Hits(d) == {i \in DOMAIN Bucket(d) : state[Bucket(d)[i]].ip_key = d}

\* The iterator of the walk over the bucket of destination d.
Walk(d) ==
  IF Bucket(d) = <<>> THEN NULL
  ELSE Bucket(d)[IF Hits(d) # {} THEN Min(Hits(d)) ELSE Len(Bucket(d))]

At(c, p, s) ==
  /\ pc' = [pc EXCEPT ![c] = p]
  /\ found' = [found EXCEPT ![c] = s]

\* iso_state_get up to the end of the first walk.  create says that the
\* packet carries feedback; only iso_rx creates.
Get(c, d, create) ==
  /\ pc[c] = "idle"
  /\ Walk(d) # NULL \/ create
  /\ ip' = [ip EXCEPT ![c] = d]
  /\ At(c, IF Walk(d) # NULL THEN "have" ELSE "missed", Walk(d))
  /\ UNCHANGED <<scarce, heap, tables, work, writelock>>

\* spin_trylock(&txc->writelock); without the lock the result is NULL.
TryLock(c) ==
  /\ pc[c] = "missed"
  /\ IF writelock = None
       THEN writelock' = c /\ At(c, "locked", NULL)
       ELSE UNCHANGED writelock /\ At(c, "idle", NULL)
  /\ UNCHANGED <<scarce, heap, tables, work, ip>>

Recheck_Skipped(c) == NULL
Recheck(c) == Walk(ip[c])

\* The second walk found an entry.
LostRace(c) ==
  /\ pc[c] = "locked" /\ Recheck(c) # NULL
  /\ At(c, "have", Recheck(c))
  /\ writelock' = None
  /\ UNCHANGED <<scarce, heap, tables, work, ip>>

\* Nothing preallocated is left: the loop over the list does not run.
ScheduleIfLow_Never(n) == pending
ScheduleIfLow(n) == pending \/ n <= Low
Exhausted(c) ==
  /\ pc[c] = "locked" /\ Recheck(c) = NULL /\ prealloc_state_list = <<>>
  /\ At(c, "have", Bogus)
  /\ pending' = ScheduleIfLow(freelist_count)
  /\ writelock' = None
  /\ UNCHANGED <<scarce, heap, tables, left, ip>>

\* Where in its bucket there are limiters of destination d.
OwnRl(d) ==
  LET b == rl_bucket[RlBucket[d]] IN {i \in DOMAIN b : rl[b[i]] = d}
\* iso_pick_rl: the limiter of destination d, else a preallocated one.
iso_pick_rl(d) ==
  IF OwnRl(d) # {} THEN rl_bucket[RlBucket[d]][Min(OwnRl(d))]
  ELSE IF prealloc_rl_list = <<>> THEN Bogus ELSE Head(prealloc_rl_list)

\* The new state gets its key and its limiter before it is published.
NewState_NoRl(d, r) == [ip_key |-> d, rl |-> NULL]
NewState(d, r) == [ip_key |-> d, rl |-> r]
Fill(c) ==
  /\ pc[c] = "locked" /\ Recheck(c) = NULL /\ prealloc_state_list # <<>>
  /\ LET s == Head(prealloc_state_list)
         r == iso_pick_rl(ip[c])
     IN  /\ state' = [state EXCEPT ![s] = NewState(ip[c], r)]
         /\ IF OwnRl(ip[c]) = {} /\ r # Bogus
              THEN /\ rl' = [rl EXCEPT ![r] = ip[c]]
                   /\ rl_bucket' =
                        [rl_bucket EXCEPT ![RlBucket[ip[c]]] = <<r>> \o @]
                   /\ prealloc_rl_list' = Tail(prealloc_rl_list)
              ELSE UNCHANGED <<rl, rl_bucket, prealloc_rl_list>>
         /\ At(c, "filled", s)
  /\ UNCHANGED <<scarce, state_bucket, prealloc_state_list, freelist_count,
                 work, writelock, ip>>

Freelist_Twice == freelist_count - 2
Freelist_Uncounted == freelist_count
Freelist == freelist_count - 1
\* It enters its bucket, leaves the list, and the lock is released.
Publish(c) ==
  /\ pc[c] = "filled"
  /\ state_bucket' =
       [state_bucket EXCEPT ![StateBucket[ip[c]]] = <<found[c]>> \o @]
  /\ prealloc_state_list' = Tail(prealloc_state_list)
  /\ freelist_count' = Freelist
  /\ pending' = ScheduleIfLow(freelist_count')
  /\ writelock' = None
  /\ At(c, "have", found[c])
  /\ UNCHANGED <<scarce, state, rl, prealloc_rl_list, rl_bucket, left, ip>>

\* The packet path is done with the state.
Put(c) ==
  /\ pc[c] = "have"
  /\ At(c, "idle", NULL)
  /\ ip' = [ip EXCEPT ![c] = NoIp]
  /\ UNCHANGED <<scarce, heap, tables, work, writelock>>

-----------------------------------------------------------------------------
\* The work item.  It leaves the queue when it starts to run.
AllocatorStart ==
  /\ pending /\ left = 0
  /\ pending' = FALSE /\ left' = Batch
  /\ UNCHANGED <<scarce, heap, tables, writelock, pc, ip, found>>

\* One round of iso_txc_prealloc.
Prealloc ==
  /\ left > 0 /\ writelock = None /\ Len(state) < MaxObj
  /\ LET n == Len(state) + 1
     IN  /\ state' = Append(state, [ip_key |-> NULL, rl |-> NULL])
         /\ rl' = Append(rl, NULL)
         /\ prealloc_state_list' = Append(prealloc_state_list, n)
         /\ prealloc_rl_list' = Append(prealloc_rl_list, n)
  /\ freelist_count' = freelist_count + 1
  /\ left' = left - 1
  /\ UNCHANGED <<scarce, tables, pending, writelock, pc, ip, found>>

\* A round that runs out of memory ends the loop.
PreallocFails ==
  /\ left > 0 /\ (scarce \/ Len(state) = MaxObj)
  /\ left' = 0
  /\ UNCHANGED <<scarce, heap, tables, pending, writelock, pc, ip, found>>

CpuStep(c) ==
  \/ TryLock(c) \/ LostRace(c) \/ Exhausted(c) \/ Fill(c) \/ Publish(c)
  \/ Put(c)
Worker == AllocatorStart \/ Prealloc \/ PreallocFails
Next ==
  \/ \E c \in Cpu : CpuStep(c) \/ \E d \in Ip, f \in BOOLEAN : Get(c, d, f)
  \/ Worker
Spec == Init /\ [][Next]_vars

\* A packet path runs to its end; the allocator is a kernel thread waiting
\* for a fair spinlock.
FairSpec ==
  /\ Spec
  /\ \A c \in Cpu : WF_vars(CpuStep(c))
  /\ WF_vars(AllocatorStart \/ PreallocFails) /\ SF_vars(Prealloc)

-----------------------------------------------------------------------------
Hashed == UNION {Range(state_bucket[b]) : b \in StateBuckets}

\* Types of the variables: every list and table holds allocated objects only.
TypeOK ==
  /\ state \in Seq([ip_key : Ip \cup {NULL},
                    rl : {NULL, Bogus} \cup DOMAIN rl])
  /\ rl \in Seq(Ip \cup {NULL}) /\ Len(rl) = Len(state)
  /\ state_bucket \in [StateBuckets -> Seq(DOMAIN state)]
  /\ rl_bucket \in [RlBuckets -> Seq(DOMAIN rl)]
  /\ prealloc_state_list \in Seq(DOMAIN state)
  /\ prealloc_rl_list \in Seq(DOMAIN rl)
  /\ freelist_count \in 0..MaxObj /\ writelock \in Cpu \cup {None}
  /\ pending \in BOOLEAN /\ scarce \in BOOLEAN /\ left \in 0..Batch
  /\ pc \in [Cpu -> {"idle", "missed", "locked", "filled", "have"}]
  /\ ip \in [Cpu -> Ip] /\ found \in [Cpu -> {Bogus, NULL} \cup DOMAIN state]

\* The two preallocated lists stay in step with each other and with the
\* counter that decides about refilling, whoever creates and refills.
FreelistsAgree ==
  writelock = None =>
    /\ freelist_count = Len(prealloc_state_list)
    /\ freelist_count = Len(prealloc_rl_list)

\* A state that a look-up without a lock can see is complete: it has the
\* limiter that was set up for its own destination.
PublishedIsComplete ==
  \A s \in Hashed : state[s].rl \in DOMAIN rl
                      /\ rl[state[s].rl] = state[s].ip_key

\* The entry of destination d that look-ups can find.
Entry(d) ==
  IF Hits(d) = {} THEN <<>>
  ELSE LET s == Bucket(d)[Min(Hits(d))] IN <<s, state[s].rl>>
Map == INSTANCE DestMap WITH map <- [d \in Ip |-> Entry(d)], Obj <- 1..MaxObj

\* Seen from the packet paths, the states of a class are a map whose entries
\* are made once, never change and share no limiter, whichever CPUs miss, lose
\* the race for the lock or create, and while the allocator refills.
KeepsDestMap == Map!Spec

\* Running low is always noticed: unless memory runs out, preallocated states
\* become available again.
Refills == ~scarce => []<>(freelist_count > Low)

\* "Per-dest state": the state returned belongs to the packet's destination.
StateIsOwn ==
  \A c \in Cpu : pc[c] = "have" /\ found[c] # Bogus
                   => state[found[c]].ip_key = ip[c]

=============================================================================
