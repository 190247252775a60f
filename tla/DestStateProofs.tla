-------------------------- MODULE DestStateProofs --------------------------
(***************************************************************************)
(* Proofs about DestState for every number of CPUs and destinations, every  *)
(* hash function, and every size of the preallocated lists.                 *)
(***************************************************************************)
EXTENDS DestState, SequenceTheorems, TLAPS

\* Most steps are first-order; those that need more name their prover.
USE ZenonT(90)

(* How many states, and how many limiters, have left the preallocated lists.*)
StatesUsed == Len(state) - Len(prealloc_state_list)
RlsUsed == Len(rl) - Len(prealloc_rl_list)

(* writelock is held exactly while a CPU is between trylock and unlock.     *)
LockInv == \A c \in Cpu : pc[c] \in {"locked", "filled"} <=> writelock = c

(* Objects are preallocated and used up in the order of their allocation.   *)
ListInv ==
  /\ Len(state) <= MaxObj /\ freelist_count = Len(prealloc_state_list)
  /\ Len(prealloc_state_list) <= Len(state)
  /\ Len(prealloc_rl_list) <= Len(rl)
  /\ \A k \in 1..Len(prealloc_state_list) :
       prealloc_state_list[k] = StatesUsed + k
  /\ \A k \in 1..Len(prealloc_rl_list) : prealloc_rl_list[k] = RlsUsed + k
  /\ (\A c \in Cpu : pc[c] # "filled") => RlsUsed = StatesUsed

(* A bucket has at most one state, which is complete: because the two lists *)
(* are used up in step, it has the limiter with its own number.             *)
HashInv ==
  \A b \in StateBuckets :
    /\ Len(state_bucket[b]) <= 1
    /\ \A i \in DOMAIN state_bucket[b] :
         LET s == state_bucket[b][i]
         IN  /\ s <= StatesUsed /\ s <= RlsUsed
             /\ state[s].ip_key \in Ip /\ StateBucket[state[s].ip_key] = b
             /\ state[s].rl = s /\ rl[s] = state[s].ip_key

(* A state that is about to be published.                                   *)
FillInv ==
  \A c \in Cpu : pc[c] = "filled" =>
    /\ prealloc_state_list # <<>> /\ found[c] = StatesUsed + 1
    /\ RlsUsed = StatesUsed + 1
    /\ state[found[c]] = [ip_key |-> ip[c], rl |-> found[c]]
    /\ rl[found[c]] = ip[c]
    /\ Bucket(ip[c]) = <<>>

(* A limiter in the table has a state, or will have when it is published.   *)
RlInv ==
  \A b \in RlBuckets : \A i \in DOMAIN rl_bucket[b] :
    LET r == rl_bucket[b][i]
    IN  /\ r <= RlsUsed /\ rl[r] \in Ip
        /\ \/ Bucket(rl[r]) # <<>>
           \/ \E c \in Cpu : pc[c] = "filled" /\ ip[c] = rl[r]

IInv == TypeOK /\ LockInv /\ ListInv /\ HashInv /\ FillInv /\ RlInv
-----------------------------------------------------------------------------
(* Sequences and the types of the lists.                                    *)

LEMMA ConsProperties ==
  ASSUME NEW S, NEW s \in Seq(S), NEW x \in S
  PROVE  /\ <<x>> \o s \in Seq(S) /\ Len(<<x>> \o s) = Len(s) + 1
         /\ (<<x>> \o s)[1] = x
         /\ \A i \in 1..Len(s) : (<<x>> \o s)[i + 1] = s[i]
  <1>1. <<x>> \in Seq(S) /\ Len(<<x>>) = 1 /\ <<x>>[1] = x
    BY SMT
  <1>2. Len(s) \in Nat
    BY SMT
  <1> QED
    BY SMT, <1>1, <1>2, ConcatProperties

LEMMA Singleton ==
  \A x : Len(<<x>>) = 1 /\ DOMAIN <<x>> = {1} /\ <<x>>[1] = x
  BY SMT

LEMMA NextIndex ==
  ASSUME NEW m \in Nat, NEW n \in Nat, m = n - 1, NEW k \in 1..m
  PROVE  k + 1 \in 1..n
  BY SMT

LEMMA SingletonSeq ==
  ASSUME NEW S, NEW s \in Seq(S), s # <<>>, Len(s) <= 1
  PROVE  Len(s) = 1 /\ s[1] \in S
  <1>1. Len(s) \in Nat \ {0}
    BY EmptySeq
  <1>2. Len(s) = 1
    BY SMT, <1>1
  <1> QED
    BY SMT, <1>2, ElementOfSeq

LEMMA Lengths ==
  ASSUME TypeOK
  PROVE  /\ Len(state) \in Nat /\ DOMAIN state = 1..Len(state)
         /\ Len(rl) = Len(state) /\ DOMAIN rl = 1..Len(state)
         /\ Len(prealloc_state_list) \in Nat /\ Len(prealloc_rl_list) \in Nat
         /\ StatesUsed \in Int /\ RlsUsed \in Int
  BY SMT DEF TypeOK, StatesUsed, RlsUsed

LEMMA Hashes ==
  \A d \in Ip : StateBucket[d] \in StateBuckets /\ RlBucket[d] \in RlBuckets
  BY DEF StateBuckets, RlBuckets

LEMMA BucketType ==
  ASSUME TypeOK, NEW d \in Ip
  PROVE  /\ Bucket(d) \in Seq(DOMAIN state)
         /\ rl_bucket[RlBucket[d]] \in Seq(DOMAIN rl)
  BY Hashes DEF TypeOK, Bucket

(* A walk finds nothing only in an empty bucket.                            *)

LEMMA WalkType ==
  ASSUME TypeOK, HashInv, NEW d \in Ip
  PROVE  /\ Walk(d) \in {NULL} \cup DOMAIN state
         /\ Walk(d) = NULL <=> Bucket(d) = <<>>
  <1>1. Bucket(d) \in Seq(DOMAIN state) /\ Len(Bucket(d)) <= 1
    BY BucketType, Hashes DEF HashInv, Bucket
  <1>2. CASE Bucket(d) = <<>>
    BY <1>2 DEF Walk
  <1>3. CASE Bucket(d) # <<>>
    <2>1. Len(Bucket(d)) = 1 /\ Bucket(d)[1] \in DOMAIN state
      BY <1>1, <1>3, SingletonSeq
    <2>2. Hits(d) = {} \/ Hits(d) = {1}
      BY SMT, <1>1, <2>1 DEF Hits
    <2>3. Min({1}) = 1
      BY SMT DEF Min
    <2>4. Walk(d) = Bucket(d)[1]
      BY <1>3, <2>1, <2>2, <2>3 DEF Walk
    <2> QED
      BY SMT, <1>3, <2>1, <2>4, Lengths DEF NULL
  <1> QED
    BY <1>2, <1>3

-----------------------------------------------------------------------------
(* The initial state.                                                       *)

LEMMA UptoSeq ==
  ASSUME NEW n \in Nat
  PROVE  /\ Upto(n) \in Seq(1..n) /\ Len(Upto(n)) = n
         /\ \A k \in 1..n : Upto(n)[k] = k
  BY SMT DEF Upto

LEMMA InitInv == Init => IInv
  <1> SUFFICES ASSUME Init PROVE IInv
    OBVIOUS
  <1>1. PICK n \in 0..Batch :
          /\ state = [k \in 1..n |-> [ip_key |-> NULL, rl |-> NULL]]
          /\ rl = [k \in 1..n |-> NULL]
          /\ prealloc_state_list = Upto(n) /\ prealloc_rl_list = Upto(n)
          /\ freelist_count = n
    BY DEF Init
  <1>2. n \in Nat /\ n <= MaxObj /\ MaxObj \in Nat /\ Batch \in Nat
    BY SMT, <1>1, DestAssumption DEF DestAssumption
  <1>3. /\ Len(state) = n /\ Len(rl) = n
        /\ DOMAIN state = 1..n /\ DOMAIN rl = 1..n
        /\ state \in Seq([ip_key : Ip \cup {NULL},
                          rl : {NULL, Bogus} \cup DOMAIN rl])
        /\ rl \in Seq(Ip \cup {NULL})
    BY SMT, <1>1, <1>2
  <1>4. NoIp \in Ip
    BY DestAssumption DEF DestAssumption, NoIp
  <1>5. TypeOK
    <2>1. /\ prealloc_state_list \in Seq(DOMAIN state)
          /\ prealloc_rl_list \in Seq(DOMAIN rl)
      BY <1>1, <1>2, <1>3, UptoSeq
    <2>2. /\ state_bucket \in [StateBuckets -> Seq(DOMAIN state)]
          /\ rl_bucket \in [RlBuckets -> Seq(DOMAIN rl)]
      BY SMT DEF Init
    <2>3. freelist_count \in 0..MaxObj /\ left \in 0..Batch
      BY SMT, <1>1, <1>2 DEF Init
    <2>4. pending \in BOOLEAN /\ scarce \in BOOLEAN
      BY DEF Init
    <2>5. /\ writelock \in Cpu \cup {None} /\ ip \in [Cpu -> Ip]
          /\ pc \in [Cpu -> {"idle", "missed", "locked", "filled", "have"}]
          /\ found \in [Cpu -> {Bogus, NULL} \cup DOMAIN state]
      BY <1>4 DEF Init
    <2> QED
      BY <1>3, <2>1, <2>2, <2>3, <2>4, <2>5 DEF TypeOK
  <1>6. LockInv
    BY DestAssumption DEF DestAssumption, LockInv, Init
  <1>7. StatesUsed = 0 /\ RlsUsed = 0
    BY SMT, <1>1, <1>2, <1>3, UptoSeq DEF StatesUsed, RlsUsed
  <1>8. ListInv
    <2>1. Len(Upto(n)) = n /\ n <= n /\ \A k \in 1..n : Upto(n)[k] = 0 + k
      BY SMT, <1>2, UptoSeq
    <2>2. /\ Len(prealloc_state_list) = n /\ Len(prealloc_rl_list) = n
          /\ \A k \in 1..n : /\ prealloc_state_list[k] = 0 + k
                            /\ prealloc_rl_list[k] = 0 + k
      BY <1>1, <2>1
    <2> QED
      BY <1>1, <1>2, <1>3, <1>7, <2>1, <2>2 DEF ListInv
  <1>9. HashInv
    BY SMT DEF HashInv, Init
  <1>10. FillInv /\ RlInv
    BY SMT DEF FillInv, RlInv, Init
  <1> QED
    BY <1>5, <1>6, <1>8, <1>9, <1>10 DEF IInv
-----------------------------------------------------------------------------
(* Steps that leave the lists and tables alone.                             *)

LEMMA HeapUnchanged ==
  ASSUME IInv, UNCHANGED <<heap, tables>>,
         \A c \in Cpu : pc'[c] = "filled" <=> pc[c] = "filled",
         \A c \in Cpu : pc[c] = "filled" => ip'[c] = ip[c] /\ found'[c] = found[c]
  PROVE  ListInv' /\ HashInv' /\ FillInv' /\ RlInv'
  <1>1. /\ UNCHANGED <<state, rl, prealloc_state_list, prealloc_rl_list>>
        /\ UNCHANGED <<freelist_count, state_bucket, rl_bucket>>
    BY DEF heap, tables
  <1>2. /\ UNCHANGED <<StatesUsed, RlsUsed>>
        /\ \A d : UNCHANGED Bucket(d)
    BY <1>1 DEF StatesUsed, RlsUsed, Bucket
  <1>3. ListInv'
    BY <1>1, <1>2 DEF IInv, ListInv
  <1>4. HashInv'
    BY SMT, <1>1, <1>2 DEF IInv, HashInv
  <1>5. FillInv'
    BY SMT, <1>1, <1>2 DEF IInv, FillInv
  <1>6. RlInv'
    BY SMT, <1>1, <1>2 DEF IInv, RlInv
  <1> QED
    BY <1>3, <1>4, <1>5, <1>6

LEMMA TypeUnchanged ==
  ASSUME TypeOK, UNCHANGED <<heap, tables, scarce>>,
         writelock' \in Cpu \cup {None}, pending' \in BOOLEAN,
         left' \in 0..Batch, ip' \in [Cpu -> Ip],
         pc' \in [Cpu -> {"idle", "missed", "locked", "filled", "have"}],
         found' \in [Cpu -> {Bogus, NULL} \cup DOMAIN state]
  PROVE  TypeOK'
  <1>1. /\ UNCHANGED <<state, rl, prealloc_state_list, prealloc_rl_list>>
        /\ UNCHANGED <<freelist_count, state_bucket, rl_bucket, scarce>>
    BY DEF heap, tables
  <1> QED
    BY <1>1 DEF TypeOK

LEMMA AtType ==
  ASSUME TypeOK, NEW c \in Cpu,
         NEW p \in {"idle", "missed", "locked", "filled", "have"},
         NEW s \in {Bogus, NULL} \cup DOMAIN state, At(c, p, s)
  PROVE  /\ pc' \in [Cpu -> {"idle", "missed", "locked", "filled", "have"}]
         /\ found' \in [Cpu -> {Bogus, NULL} \cup DOMAIN state]
         /\ pc'[c] = p /\ found'[c] = s
         /\ \A e \in Cpu \ {c} : pc'[e] = pc[e] /\ found'[e] = found[e]
  BY DEF At, TypeOK

LEMMA GetStep ==
  ASSUME IInv, NEW c \in Cpu, NEW d \in Ip, NEW f \in BOOLEAN, Get(c, d, f)
  PROVE  IInv'
  <1> DEFINE p == IF Walk(d) # NULL THEN "have" ELSE "missed"
  <1>1. At(c, p, Walk(d)) /\ pc[c] = "idle"
    BY DEF Get
  <1>2. Walk(d) \in {Bogus, NULL} \cup DOMAIN state
    BY WalkType DEF IInv
  <1>3. p \in {"missed", "have"}
    OBVIOUS
  <1> HIDE DEF p
  <1>4. /\ pc' \in [Cpu -> {"idle", "missed", "locked", "filled", "have"}]
        /\ found' \in [Cpu -> {Bogus, NULL} \cup DOMAIN state]
        /\ pc'[c] = p
        /\ \A e \in Cpu \ {c} : pc'[e] = pc[e] /\ found'[e] = found[e]
    BY SMT, <1>1, <1>2, <1>3, AtType DEF IInv
  <1>5. /\ ip' = [ip EXCEPT ![c] = d]
        /\ UNCHANGED <<heap, tables, scarce>>
        /\ UNCHANGED <<writelock, pending, left>>
    BY DEF Get, work
  <1>6. TypeOK'
    <2>1. /\ writelock' \in Cpu \cup {None} /\ pending' \in BOOLEAN
          /\ left' \in 0..Batch /\ ip' \in [Cpu -> Ip]
      BY <1>5 DEF IInv, TypeOK
    <2> QED
      BY <1>4, <1>5, <2>1, TypeUnchanged DEF IInv
  <1>7. \A e \in Cpu \ {c} : ip'[e] = ip[e]
    BY <1>5 DEF IInv, TypeOK
  <1>8. ListInv' /\ HashInv' /\ FillInv' /\ RlInv'
    BY <1>1, <1>3, <1>4, <1>5, <1>7, HeapUnchanged
  <1>9. LockInv'
    BY <1>1, <1>3, <1>4, <1>5 DEF IInv, LockInv
  <1> QED
    BY <1>6, <1>8, <1>9 DEF IInv

(* The same for the steps that do not change ip, with pc and found after At.*)

LEMMA CpuStepInv ==
  ASSUME IInv, NEW c \in Cpu, pc[c] # "filled",
         NEW p \in {"idle", "missed", "locked", "have"},
         NEW s \in {Bogus, NULL} \cup DOMAIN state, At(c, p, s),
         UNCHANGED <<heap, tables, scarce, left>>, pending' \in BOOLEAN,
         ip' = ip \/ ip' = [ip EXCEPT ![c] = NoIp],
         writelock' = (IF p = "locked" THEN c
                       ELSE IF pc[c] = "locked" THEN None ELSE writelock),
         p = "locked" => writelock = None
  PROVE  IInv'
  <1>1. /\ pc' \in [Cpu -> {"idle", "missed", "locked", "filled", "have"}]
        /\ found' \in [Cpu -> {Bogus, NULL} \cup DOMAIN state]
        /\ pc'[c] = p
        /\ \A e \in Cpu \ {c} : pc'[e] = pc[e] /\ found'[e] = found[e]
    BY SMT, AtType DEF IInv
  <1>2. NoIp \in Ip
    BY DestAssumption DEF DestAssumption, NoIp
  <1>3. ip' \in [Cpu -> Ip] /\ \A e \in Cpu \ {c} : ip'[e] = ip[e]
    BY <1>2 DEF IInv, TypeOK
  <1>4. /\ UNCHANGED <<heap, tables>> /\ UNCHANGED <<heap, tables, scarce>>
        /\ UNCHANGED left
    OBVIOUS
  <1>5. writelock' \in Cpu \cup {None} /\ left' \in 0..Batch
    BY <1>4 DEF IInv, TypeOK
  <1>6. TypeOK'
    BY <1>1, <1>3, <1>4, <1>5, TypeUnchanged DEF IInv
  <1>7. ListInv' /\ HashInv' /\ FillInv' /\ RlInv'
    BY <1>1, <1>3, <1>4, HeapUnchanged
  <1>8. LockInv'
    BY <1>1, DestAssumption DEF DestAssumption, IInv, LockInv
  <1> QED
    BY <1>6, <1>7, <1>8 DEF IInv

LEMMA QuietCpuStep ==
  ASSUME IInv, NEW c \in Cpu,
         TryLock(c) \/ LostRace(c) \/ Exhausted(c) \/ Put(c)
  PROVE  IInv'
  <1>1. /\ pending \in BOOLEAN /\ freelist_count \in Int /\ Low \in Int
        /\ ip[c] \in Ip
    BY SMT, DestAssumption DEF DestAssumption, IInv, TypeOK
  <1>2. Recheck(c) \in {NULL} \cup DOMAIN state
    BY <1>1, WalkType DEF IInv, Recheck
  <1>3. CASE TryLock(c)
    <2>1. /\ pc[c] = "missed" /\ UNCHANGED <<heap, tables, scarce, left>>
          /\ pending' \in BOOLEAN /\ ip' = ip
      BY <1>1, <1>3 DEF TryLock, work
    <2>2. CASE writelock = None
      BY <1>3, <2>1, <2>2, CpuStepInv DEF TryLock
    <2>3. CASE writelock # None
      BY <1>3, <2>1, <2>3, CpuStepInv DEF TryLock
    <2> QED
      BY <2>2, <2>3
  <1>4. CASE LostRace(c)
    <2>1. /\ pc[c] = "locked" /\ UNCHANGED <<heap, tables, scarce, left>>
          /\ pending' \in BOOLEAN /\ ip' = ip /\ writelock' = None
          /\ At(c, "have", Recheck(c))
      BY <1>1, <1>4 DEF LostRace, work
    <2> QED
      BY <1>2, <2>1, CpuStepInv
  <1>5. CASE Exhausted(c)
    <2>1. /\ pc[c] = "locked" /\ UNCHANGED <<heap, tables, scarce, left>>
          /\ ip' = ip /\ writelock' = None /\ At(c, "have", Bogus)
          /\ pending' = ScheduleIfLow(freelist_count)
      BY <1>5 DEF Exhausted
    <2>2. pending' \in BOOLEAN
      BY <2>1 DEF ScheduleIfLow
    <2> QED
      BY <2>1, <2>2, CpuStepInv
  <1>6. CASE Put(c)
    <2>1. /\ pc[c] = "have" /\ UNCHANGED <<heap, tables, scarce, left>>
          /\ pending' \in BOOLEAN /\ ip' = [ip EXCEPT ![c] = NoIp]
          /\ writelock' = writelock /\ At(c, "idle", NULL)
      BY <1>1, <1>6 DEF Put, work
    <2> QED
      BY <2>1, CpuStepInv
  <1> QED
    BY <1>3, <1>4, <1>5, <1>6

LEMMA QuietWorkerStep ==
  ASSUME IInv, AllocatorStart \/ PreallocFails
  PROVE  IInv'
  <1>1. /\ UNCHANGED <<heap, tables>> /\ UNCHANGED <<heap, tables, scarce>>
        /\ UNCHANGED <<writelock, pc, ip, found>>
    BY DEF AllocatorStart, PreallocFails
  <1>2. pending' \in BOOLEAN /\ left' \in 0..Batch
    <2>1. pending \in BOOLEAN /\ Batch \in Nat
      BY DestAssumption DEF DestAssumption, IInv, TypeOK
    <2>2. pending' \in BOOLEAN
      BY <2>1 DEF AllocatorStart, PreallocFails
    <2>3. left' = Batch \/ left' = 0
      BY DEF AllocatorStart, PreallocFails
    <2> QED
      BY SMT, <2>1, <2>2, <2>3
  <1>3. TypeOK'
    BY <1>1, <1>2, TypeUnchanged DEF IInv, TypeOK
  <1>4. ListInv' /\ HashInv' /\ FillInv' /\ RlInv'
    BY <1>1, HeapUnchanged
  <1>5. LockInv'
    BY <1>1 DEF IInv, LockInv
  <1> QED
    BY <1>3, <1>4, <1>5 DEF IInv

-----------------------------------------------------------------------------
(* What the tables hold, and steps that only touch unused objects.          *)

LEMMA HashEntry ==
  ASSUME IInv, NEW b \in StateBuckets, NEW i \in DOMAIN state_bucket[b]
  PROVE  LET k == state_bucket[b][i]
         IN  /\ k <= StatesUsed /\ k <= RlsUsed /\ k \in DOMAIN state
             /\ state[k].ip_key \in Ip /\ StateBucket[state[k].ip_key] = b
             /\ state[k].rl = k /\ rl[k] = state[k].ip_key
  <1>1. state_bucket[b] \in Seq(DOMAIN state)
    BY DEF IInv, TypeOK
  <1>2. state_bucket[b][i] \in DOMAIN state
    BY <1>1, LenProperties, ElementOfSeq
  <1> QED
    BY <1>2 DEF IInv, HashInv

LEMMA RlEntry ==
  ASSUME IInv, NEW b \in RlBuckets, NEW i \in DOMAIN rl_bucket[b]
  PROVE  LET r == rl_bucket[b][i]
         IN  /\ r \in DOMAIN rl /\ r <= RlsUsed /\ rl[r] \in Ip
             /\ \/ Bucket(rl[r]) # <<>>
                \/ \E c \in Cpu : pc[c] = "filled" /\ ip[c] = rl[r]
  <1>1. rl_bucket[b] \in Seq(DOMAIN rl)
    BY DEF IInv, TypeOK
  <1>2. rl_bucket[b][i] \in DOMAIN rl
    BY <1>1, LenProperties, ElementOfSeq
  <1> QED
    BY <1>2 DEF IInv, RlInv

LEMMA HashKept ==
  ASSUME IInv, state_bucket' = state_bucket,
         StatesUsed' \in Int, RlsUsed' \in Int,
         StatesUsed <= StatesUsed', RlsUsed <= RlsUsed',
         \A k \in DOMAIN state :
           k <= StatesUsed => state'[k] = state[k] /\ rl'[k] = rl[k]
  PROVE  HashInv'
  <1> SUFFICES ASSUME NEW b \in StateBuckets
               PROVE  /\ Len(state_bucket'[b]) <= 1
                      /\ \A i \in DOMAIN state_bucket'[b] :
                           LET k == state_bucket'[b][i]
                           IN  /\ k <= StatesUsed' /\ k <= RlsUsed'
                               /\ state'[k].ip_key \in Ip
                               /\ StateBucket[state'[k].ip_key] = b
                               /\ state'[k].rl = k
                               /\ rl'[k] = state'[k].ip_key
    BY SMT DEF HashInv
  <1>1. Len(state_bucket'[b]) <= 1
    BY DEF IInv, HashInv
  <1>2. ASSUME NEW i \in DOMAIN state_bucket[b]
        PROVE  LET k == state_bucket[b][i]
               IN  /\ k <= StatesUsed' /\ k <= RlsUsed'
                   /\ state'[k].ip_key \in Ip
                   /\ StateBucket[state'[k].ip_key] = b
                   /\ state'[k].rl = k /\ rl'[k] = state'[k].ip_key
    <2> DEFINE k == state_bucket[b][i]
    <2>1. /\ k <= StatesUsed /\ k <= RlsUsed /\ k \in DOMAIN state
          /\ state[k].ip_key \in Ip /\ StateBucket[state[k].ip_key] = b
          /\ state[k].rl = k /\ rl[k] = state[k].ip_key
      BY <1>2, HashEntry
    <2> HIDE DEF k
    <2>2. k \in Int /\ StatesUsed \in Int /\ RlsUsed \in Int
      BY SMT, <2>1, Lengths DEF IInv
    <2>3. k <= StatesUsed' /\ k <= RlsUsed'
      BY SMT, <2>1, <2>2
    <2>4. state'[k] = state[k] /\ rl'[k] = rl[k]
      BY <2>1
    <2> QED
      BY <2>1, <2>3, <2>4 DEF k
  <1> QED
    BY <1>1, <1>2

-----------------------------------------------------------------------------
(* Fill.                                                                    *)

(* The lock excludes other creators.                                        *)

LEMMA OneFills ==
  ASSUME LockInv, NEW c \in Cpu, pc[c] \in {"locked", "filled"}
  PROVE  \A e \in Cpu \ {c} : pc[e] \notin {"locked", "filled"}
  BY DEF LockInv

(* The state and the limiter that are used next have the same number.       *)

LEMMA FillEffect ==
  ASSUME IInv, NEW c \in Cpu, Fill(c)
  PROVE  LET s == StatesUsed + 1
         IN  /\ s \in DOMAIN state /\ RlsUsed = StatesUsed
             /\ prealloc_state_list # <<>> /\ prealloc_rl_list # <<>>
             /\ Bucket(ip[c]) = <<>>
             /\ state' = [state EXCEPT ![s] = [ip_key |-> ip[c], rl |-> s]]
             /\ rl' = [rl EXCEPT ![s] = ip[c]]
             /\ rl_bucket' =
                  [rl_bucket EXCEPT ![RlBucket[ip[c]]] = <<s>> \o @]
             /\ prealloc_rl_list' = Tail(prealloc_rl_list)
             /\ pc[c] = "locked" /\ At(c, "filled", s)
             /\ UNCHANGED <<state_bucket, prealloc_state_list, freelist_count>>
             /\ UNCHANGED <<pending, left, writelock, ip, scarce>>
  <1> DEFINE s == StatesUsed + 1
  <1>1. /\ pc[c] = "locked" /\ prealloc_state_list # <<>> /\ ip[c] \in Ip
        /\ Walk(ip[c]) = NULL
    BY DEF Fill, Recheck, IInv, TypeOK
  <1>2. Bucket(ip[c]) = <<>>
    BY <1>1, WalkType DEF IInv
  <1>3. \A e \in Cpu : pc[e] # "filled"
    BY <1>1, OneFills DEF IInv
  <1>4. RlsUsed = StatesUsed
    BY <1>3 DEF IInv, ListInv
  <1>5. /\ Len(state) \in Nat /\ DOMAIN state = 1..Len(state)
        /\ Len(rl) = Len(state) /\ Len(prealloc_rl_list) \in Nat
        /\ Len(prealloc_state_list) \in Nat
    BY Lengths DEF IInv
  <1>6. Len(prealloc_state_list) # 0
    BY SMT, <1>1 DEF IInv, TypeOK
  <1>7. /\ Len(prealloc_rl_list) = Len(prealloc_state_list)
        /\ Len(prealloc_state_list) <= Len(state)
    BY SMT, <1>4, <1>5 DEF IInv, ListInv, StatesUsed, RlsUsed
  <1>8. s \in DOMAIN state /\ s \in Nat \ {0}
    BY SMT, <1>5, <1>6, <1>7 DEF StatesUsed
  <1>9. /\ prealloc_rl_list # <<>>
        /\ Head(prealloc_state_list) = s /\ Head(prealloc_rl_list) = s
    <2>1. prealloc_state_list[1] = s /\ prealloc_rl_list[1] = s
      BY SMT, <1>4, <1>5, <1>6, <1>7 DEF IInv, ListInv
    <2> QED
      BY SMT, <1>6, <1>7, <2>1 DEF IInv, TypeOK
  <1>10. OwnRl(ip[c]) = {}
    BY <1>1, <1>2, <1>3, Hashes DEF IInv, RlInv, OwnRl
  <1>11. iso_pick_rl(ip[c]) = s /\ s # Bogus
    BY SMT, <1>8, <1>9, <1>10 DEF iso_pick_rl, Bogus
  <1>12. NewState(ip[c], s) = [ip_key |-> ip[c], rl |-> s]
    BY DEF NewState
  <1> HIDE DEF s
  <1>13. /\ state' = [state EXCEPT ![s] = [ip_key |-> ip[c], rl |-> s]]
         /\ rl' = [rl EXCEPT ![s] = ip[c]]
         /\ rl_bucket' = [rl_bucket EXCEPT ![RlBucket[ip[c]]] = <<s>> \o @]
         /\ prealloc_rl_list' = Tail(prealloc_rl_list)
         /\ At(c, "filled", s)
    BY <1>9, <1>10, <1>11, <1>12 DEF Fill
  <1>14. /\ UNCHANGED <<state_bucket, prealloc_state_list, freelist_count>>
         /\ UNCHANGED <<pending, left, writelock, ip, scarce>>
    BY DEF Fill, work
  <1> QED
    BY <1>1, <1>2, <1>4, <1>8, <1>9, <1>13, <1>14 DEF s

LEMMA FillStep ==
  ASSUME IInv, NEW c \in Cpu, Fill(c)
  PROVE  IInv'
  <1> DEFINE s == StatesUsed + 1
             St == [ip_key : Ip \cup {NULL}, rl : {NULL, Bogus} \cup DOMAIN rl]
  <1>1. /\ s \in DOMAIN state /\ RlsUsed = StatesUsed
        /\ prealloc_state_list # <<>> /\ prealloc_rl_list # <<>>
        /\ Bucket(ip[c]) = <<>>
        /\ state' = [state EXCEPT ![s] = [ip_key |-> ip[c], rl |-> s]]
        /\ rl' = [rl EXCEPT ![s] = ip[c]]
        /\ rl_bucket' = [rl_bucket EXCEPT ![RlBucket[ip[c]]] = <<s>> \o @]
        /\ prealloc_rl_list' = Tail(prealloc_rl_list)
        /\ pc[c] = "locked" /\ At(c, "filled", s)
        /\ UNCHANGED <<state_bucket, prealloc_state_list, freelist_count>>
        /\ UNCHANGED <<pending, left, writelock, ip, scarce>>
    BY FillEffect
  <1>2. /\ Len(state) \in Nat /\ DOMAIN state = 1..Len(state)
        /\ Len(rl) = Len(state) /\ DOMAIN rl = 1..Len(state)
        /\ StatesUsed \in Int /\ RlsUsed \in Int
        /\ Len(prealloc_state_list) \in Nat /\ Len(prealloc_rl_list) \in Nat
        /\ ip[c] \in Ip
    BY Lengths DEF IInv, TypeOK
  <1>3. /\ pc' \in [Cpu -> {"idle", "missed", "locked", "filled", "have"}]
        /\ found' \in [Cpu -> {Bogus, NULL} \cup DOMAIN state]
        /\ pc'[c] = "filled" /\ found'[c] = s
        /\ \A e \in Cpu \ {c} : pc'[e] = pc[e] /\ found'[e] = found[e]
    BY <1>1, AtType DEF IInv
  <1>4. /\ Len(state') = Len(state) /\ Len(rl') = Len(rl)
        /\ DOMAIN state' = DOMAIN state /\ DOMAIN rl' = DOMAIN rl
        /\ state' \in Seq(St) /\ rl' \in Seq(Ip \cup {NULL})
        /\ state'[s] = [ip_key |-> ip[c], rl |-> s] /\ rl'[s] = ip[c]
        /\ \A k \in DOMAIN state : k # s => state'[k] = state[k]
        /\ \A k \in DOMAIN state : k # s => rl'[k] = rl[k]
    <2> HIDE DEF s
    <2>1. [ip_key |-> ip[c], rl |-> s] \in St
      BY <1>1, <1>2
    <2>2. state \in Seq(St) /\ rl \in Seq(Ip \cup {NULL})
      BY DEF IInv, TypeOK
    <2> HIDE DEF St
    <2>3. /\ state' \in Seq(St) /\ Len(state') = Len(state)
          /\ \A k \in 1..Len(state) :
               state'[k] = IF k = s THEN [ip_key |-> ip[c], rl |-> s]
                                    ELSE state[k]
      BY SMT, <1>1, <1>2, <2>1, <2>2, ExceptSeq
    <2>4. /\ rl' \in Seq(Ip \cup {NULL}) /\ Len(rl') = Len(rl)
          /\ \A k \in 1..Len(rl) : rl'[k] = IF k = s THEN ip[c] ELSE rl[k]
      BY SMT, <1>1, <1>2, <2>2, ExceptSeq
    <2> QED
      BY <1>1, <1>2, <2>2, <2>3, <2>4
  <1>5. /\ prealloc_rl_list' \in Seq(DOMAIN rl)
        /\ Len(prealloc_rl_list') = Len(prealloc_rl_list) - 1
        /\ \A k \in 1..Len(prealloc_rl_list') :
             prealloc_rl_list'[k] = prealloc_rl_list[k + 1]
    <2>1. prealloc_rl_list \in Seq(DOMAIN rl)
      BY DEF IInv, TypeOK
    <2> QED
      BY SMT, <1>1, <2>1
  <1>6. StatesUsed' = StatesUsed /\ RlsUsed' = RlsUsed + 1
    <2>1. prealloc_state_list' = prealloc_state_list
      BY <1>1
    <2> QED
      BY SMT, <1>2, <1>4, <1>5, <2>1 DEF StatesUsed, RlsUsed
  <1>8. /\ rl_bucket' \in [RlBuckets -> Seq(DOMAIN rl)]
        /\ \A b \in RlBuckets : \A i \in DOMAIN rl_bucket'[b] :
             \/ rl_bucket'[b][i] = s
             \/ \E j \in DOMAIN rl_bucket[b] : rl_bucket'[b][i] = rl_bucket[b][j]
    <2> DEFINE h == RlBucket[ip[c]]
    <2>1. h \in RlBuckets /\ rl_bucket \in [RlBuckets -> Seq(DOMAIN rl)]
      BY <1>2, Hashes DEF IInv, TypeOK
    <2>2. s \in DOMAIN rl
      BY <1>1, <1>2
    <2> HIDE DEF s, h
    <2>3. /\ rl_bucket' = [rl_bucket EXCEPT ![h] = <<s>> \o @]
          /\ rl_bucket[h] \in Seq(DOMAIN rl)
      BY <1>1, <2>1 DEF h
    <2>4. /\ <<s>> \o rl_bucket[h] \in Seq(DOMAIN rl)
          /\ Len(<<s>> \o rl_bucket[h]) = Len(rl_bucket[h]) + 1
          /\ (<<s>> \o rl_bucket[h])[1] = s
          /\ \A i \in 1..Len(rl_bucket[h]) :
               (<<s>> \o rl_bucket[h])[i + 1] = rl_bucket[h][i]
      BY SMT, <2>2, <2>3, ConsProperties
    <2> DEFINE q == <<s>> \o rl_bucket[h]
    <2>5. \A i \in DOMAIN q :
            q[i] = s \/ \E j \in DOMAIN rl_bucket[h] : q[i] = rl_bucket[h][j]
      <3> HIDE DEF q
      <3> SUFFICES ASSUME NEW i \in DOMAIN q, i # 1
                   PROVE  \E j \in DOMAIN rl_bucket[h] : q[i] = rl_bucket[h][j]
        BY <2>4 DEF q
      <3>1. /\ Len(rl_bucket[h]) \in Nat
            /\ DOMAIN rl_bucket[h] = 1..Len(rl_bucket[h])
            /\ DOMAIN q = 1..Len(q)
        BY <2>3, <2>4, LenProperties DEF q
      <3>2. Len(q) = Len(rl_bucket[h]) + 1
        BY <2>4 DEF q
      <3>3. i - 1 \in 1..Len(rl_bucket[h]) /\ (i - 1) + 1 = i
        BY SMT, <3>1, <3>2
      <3>4. q[(i - 1) + 1] = rl_bucket[h][i - 1]
        BY <2>4, <3>3 DEF q
      <3> QED
        BY <3>1, <3>3, <3>4
    <2>6. q \in Seq(DOMAIN rl)
      BY <2>4
    <2> HIDE DEF q
    <2>7. rl_bucket' = [rl_bucket EXCEPT ![h] = q]
      BY <2>3 DEF q
    <2> QED
      BY SMT, <2>1, <2>5, <2>6, <2>7
  <1>9. TypeOK'
    <2>1. state_bucket' \in [StateBuckets -> Seq(DOMAIN state')]
      BY <1>1, <1>4 DEF IInv, TypeOK
    <2>2. prealloc_state_list' \in Seq(DOMAIN state')
      BY <1>1, <1>4 DEF IInv, TypeOK
    <2>3. /\ freelist_count' \in 0..MaxObj /\ writelock' \in Cpu \cup {None}
          /\ left' \in 0..Batch /\ ip' \in [Cpu -> Ip]
      BY <1>1 DEF IInv, TypeOK
    <2>4. pending' \in BOOLEAN /\ scarce' \in BOOLEAN
      BY <1>1 DEF IInv, TypeOK
    <2>5. /\ state' \in Seq([ip_key : Ip \cup {NULL},
                             rl : {NULL, Bogus} \cup DOMAIN rl'])
          /\ Len(rl') = Len(state')
      BY <1>2, <1>4
    <2> QED
      BY <1>3, <1>4, <1>5, <1>8, <2>1, <2>2, <2>3, <2>4, <2>5 DEF TypeOK
  <1>10. LockInv'
    BY <1>1, <1>3 DEF IInv, LockInv
  <1>11. /\ s = StatesUsed + 1 /\ s = RlsUsed + 1 /\ s \in Int
         /\ StatesUsed \in Int
    BY SMT, <1>1, <1>2
  <1> HIDE DEF s
  <1>12. ListInv'
    <2>1. \A k \in 1..Len(prealloc_rl_list') :
            prealloc_rl_list'[k] = RlsUsed' + k
      <3>1. \A k \in 1..Len(prealloc_rl_list) :
              prealloc_rl_list[k] = RlsUsed + k
        BY DEF IInv, ListInv
      <3> QED
        BY SMT, <1>2, <1>5, <1>6, <1>11, <3>1
    <2>2. \A k \in 1..Len(prealloc_state_list') :
            prealloc_state_list'[k] = StatesUsed' + k
      BY <1>1, <1>6 DEF IInv, ListInv
    <2>3. /\ Len(state') <= MaxObj
          /\ freelist_count' = Len(prealloc_state_list')
          /\ Len(prealloc_state_list') <= Len(state')
          /\ Len(prealloc_rl_list') <= Len(rl')
      <3>1. /\ Len(state) <= MaxObj /\ freelist_count = Len(prealloc_state_list)
            /\ Len(prealloc_state_list) <= Len(state)
            /\ Len(prealloc_rl_list) <= Len(rl)
        BY DEF IInv, ListInv
      <3> QED
        BY SMT, <1>1, <1>2, <1>4, <1>5, <3>1
    <2> QED
      BY <1>3, <2>1, <2>2, <2>3 DEF ListInv
  <1>13. HashInv'
    BY SMT, <1>1, <1>2, <1>4, <1>6, <1>11, HashKept
  <1>14. FillInv'
    <2> SUFFICES ASSUME NEW e \in Cpu, pc'[e] = "filled"
                 PROVE  /\ prealloc_state_list' # <<>>
                        /\ found'[e] = StatesUsed' + 1
                        /\ RlsUsed' = StatesUsed' + 1
                        /\ state'[found'[e]] =
                             [ip_key |-> ip'[e], rl |-> found'[e]]
                        /\ rl'[found'[e]] = ip'[e]
                        /\ state_bucket'[StateBucket[ip'[e]]] = <<>>
      BY DEF FillInv, Bucket
    <2>1. e = c
      BY <1>1, <1>3, OneFills DEF IInv
    <2> QED
      BY <1>1, <1>3, <1>4, <1>6, <1>11, <2>1 DEF Bucket
  <1>15. RlInv'
    <2> SUFFICES ASSUME NEW b \in RlBuckets, NEW i \in DOMAIN rl_bucket'[b]
                 PROVE  LET r == rl_bucket'[b][i]
                        IN  /\ r <= RlsUsed' /\ rl'[r] \in Ip
                            /\ \/ state_bucket'[StateBucket[rl'[r]]] # <<>>
                               \/ \E e \in Cpu :
                                    pc'[e] = "filled" /\ ip'[e] = rl'[r]
      BY DEF RlInv, Bucket
    <2> DEFINE r == rl_bucket'[b][i]
    <2>1. CASE r = s
      <3>1. r <= RlsUsed' /\ rl'[r] = ip[c]
        BY SMT, <1>4, <1>6, <1>11, <2>1
      <3> QED
        BY <1>1, <1>2, <1>3, <3>1
    <2>2. CASE r # s
      <3>1. PICK j \in DOMAIN rl_bucket[b] : r = rl_bucket[b][j]
        BY <1>8, <2>2
      <3>2. /\ r \in DOMAIN rl /\ r <= RlsUsed /\ rl[r] \in Ip
            /\ \/ Bucket(rl[r]) # <<>>
               \/ \E e \in Cpu : pc[e] = "filled" /\ ip[e] = rl[r]
        BY SMT, <3>1, RlEntry
      <3> HIDE DEF r
      <3>3. rl'[r] = rl[r] /\ r <= RlsUsed'
        BY SMT, <1>2, <1>4, <1>6, <1>11, <2>2, <3>2
      <3>4. /\ \/ state_bucket'[StateBucket[rl'[r]]] # <<>>
               \/ \E e \in Cpu : pc'[e] = "filled" /\ ip'[e] = rl'[r]
        BY <1>1, <1>3, <3>2, <3>3 DEF Bucket
      <3> QED
        BY <3>2, <3>3, <3>4 DEF r
    <2> QED
      BY <2>1, <2>2
  <1> QED
    BY <1>9, <1>10, <1>12, <1>13, <1>14, <1>15 DEF IInv

-----------------------------------------------------------------------------
(* Publish.                                                                 *)

LEMMA PublishEffect ==
  ASSUME IInv, NEW c \in Cpu, Publish(c)
  PROVE  LET s == StatesUsed + 1
         IN  /\ s \in DOMAIN state /\ found[c] = s /\ RlsUsed = s
             /\ state[s] = [ip_key |-> ip[c], rl |-> s] /\ rl[s] = ip[c]
             /\ ip[c] \in Ip /\ state_bucket[StateBucket[ip[c]]] = <<>>
             /\ state_bucket' =
                  [state_bucket EXCEPT ![StateBucket[ip[c]]] = <<s>>]
             /\ prealloc_state_list # <<>>
             /\ prealloc_state_list' = Tail(prealloc_state_list)
             /\ freelist_count' = freelist_count - 1
             /\ pending' \in BOOLEAN /\ writelock' = None
             /\ pc[c] = "filled" /\ At(c, "have", s)
             /\ UNCHANGED <<state, rl, prealloc_rl_list, rl_bucket>>
             /\ UNCHANGED <<left, ip, scarce>>
  <1> DEFINE s == StatesUsed + 1
             h == StateBucket[ip[c]]
  <1>1. pc[c] = "filled" /\ ip[c] \in Ip
    BY DEF Publish, IInv, TypeOK
  <1>2. /\ prealloc_state_list # <<>> /\ found[c] = s /\ RlsUsed = s
        /\ state[s] = [ip_key |-> ip[c], rl |-> s] /\ rl[s] = ip[c]
        /\ state_bucket[h] = <<>>
    BY <1>1 DEF IInv, FillInv, Bucket
  <1>3. s \in DOMAIN state
    <2>1. Len(prealloc_state_list) \in Nat \ {0}
      BY <1>2, EmptySeq DEF IInv, TypeOK
    <2> QED
      BY SMT, <2>1, Lengths DEF IInv, ListInv, StatesUsed
  <1>4. <<s>> \o <<>> = <<s>>
    BY SMT, <1>3, ConcatEmptySeq
  <1>5. h \in StateBuckets /\ state_bucket \in [StateBuckets -> Seq(DOMAIN state)]
    BY <1>1, Hashes DEF IInv, TypeOK
  <1>6. state_bucket' = [state_bucket EXCEPT ![h] = <<s>>]
    <2>1. state_bucket' = [state_bucket EXCEPT ![h] = <<found[c]>> \o @]
      BY DEF Publish
    <2> HIDE DEF s, h
    <2>2. state_bucket' = [state_bucket EXCEPT ![h] = <<s>> \o state_bucket[h]]
      BY <1>2, <2>1
    <2> QED
      BY <1>2, <1>4, <2>2
  <1>7. pending' \in BOOLEAN
    BY DEF Publish, ScheduleIfLow
  <1> QED
    BY <1>1, <1>2, <1>3, <1>6, <1>7 DEF Publish, Freelist

LEMMA PublishStep ==
  ASSUME IInv, NEW c \in Cpu, Publish(c)
  PROVE  IInv'
  <1> DEFINE s == StatesUsed + 1
             h == StateBucket[ip[c]]
  <1>1. /\ s \in DOMAIN state /\ found[c] = s /\ RlsUsed = s
        /\ state[s] = [ip_key |-> ip[c], rl |-> s] /\ rl[s] = ip[c]
        /\ ip[c] \in Ip /\ state_bucket[h] = <<>>
        /\ state_bucket' = [state_bucket EXCEPT ![h] = <<s>>]
        /\ prealloc_state_list # <<>>
        /\ prealloc_state_list' = Tail(prealloc_state_list)
        /\ freelist_count' = freelist_count - 1
        /\ pending' \in BOOLEAN /\ writelock' = None
        /\ pc[c] = "filled" /\ At(c, "have", s)
    BY PublishEffect
  <1>2. /\ UNCHANGED <<state, rl, prealloc_rl_list, rl_bucket>>
        /\ UNCHANGED <<left, ip, scarce>>
    BY PublishEffect
  <1>3. /\ Len(state) \in Nat /\ DOMAIN state = 1..Len(state)
        /\ Len(rl) = Len(state) /\ DOMAIN rl = 1..Len(state)
        /\ StatesUsed \in Int /\ RlsUsed \in Int
        /\ Len(prealloc_state_list) \in Nat /\ Len(prealloc_rl_list) \in Nat
    BY Lengths DEF IInv
  <1>4. s = StatesUsed + 1 /\ s \in Int
    BY <1>1, <1>3
  <1>5. h \in StateBuckets /\ state_bucket \in [StateBuckets -> Seq(DOMAIN state)]
    BY <1>1, Hashes DEF IInv, TypeOK
  <1> HIDE DEF s, h
  <1>6. /\ pc' \in [Cpu -> {"idle", "missed", "locked", "filled", "have"}]
        /\ found' \in [Cpu -> {Bogus, NULL} \cup DOMAIN state]
        /\ pc'[c] = "have"
        /\ \A e \in Cpu \ {c} : pc'[e] = pc[e] /\ found'[e] = found[e]
    BY <1>1, AtType DEF IInv
  <1>7. \A e \in Cpu : pc'[e] \notin {"locked", "filled"}
    BY <1>1, <1>6, OneFills DEF IInv
  <1>8. /\ prealloc_state_list' \in Seq(DOMAIN state)
        /\ Len(prealloc_state_list') = Len(prealloc_state_list) - 1
        /\ Len(prealloc_state_list') \in Nat
        /\ \A k \in 1..Len(prealloc_state_list') :
             prealloc_state_list'[k] = prealloc_state_list[k + 1]
    <2>1. prealloc_state_list \in Seq(DOMAIN state)
      BY DEF IInv, TypeOK
    <2> QED
      BY SMT, <1>1, <2>1
  <1>9. StatesUsed' = s /\ RlsUsed' = s
    <2>1. Len(state') = Len(state) /\ RlsUsed' = RlsUsed
      BY <1>2 DEF RlsUsed
    <2> QED
      BY SMT, <1>1, <1>3, <1>4, <1>8, <2>1 DEF StatesUsed
  <1>10. TypeOK'
    <2>1. <<s>> \in Seq(DOMAIN state)
      BY SMT, <1>1
    <2>2. state_bucket' \in [StateBuckets -> Seq(DOMAIN state')]
      BY <1>1, <1>2, <1>5, <2>1
    <2>3. freelist_count' \in 0..MaxObj
      <3>1. /\ freelist_count = Len(prealloc_state_list)
            /\ Len(prealloc_state_list) <= Len(state) /\ Len(state) <= MaxObj
            /\ MaxObj \in Nat
        BY DestAssumption DEF DestAssumption, IInv, ListInv
      <3>2. freelist_count' = Len(prealloc_state_list')
        BY <1>1, <1>8, <3>1
      <3> QED
        BY SMT, <1>3, <1>8, <3>1, <3>2
    <2>4. /\ writelock' \in Cpu \cup {None}
          /\ left' \in 0..Batch /\ ip' \in [Cpu -> Ip]
      BY <1>1, <1>2 DEF IInv, TypeOK
    <2>5. /\ state' \in Seq([ip_key : Ip \cup {NULL},
                             rl : {NULL, Bogus} \cup DOMAIN rl'])
          /\ rl' \in Seq(Ip \cup {NULL}) /\ Len(rl') = Len(state')
          /\ rl_bucket' \in [RlBuckets -> Seq(DOMAIN rl')]
          /\ prealloc_rl_list' \in Seq(DOMAIN rl')
          /\ scarce' \in BOOLEAN
      BY <1>2 DEF IInv, TypeOK
    <2>6. DOMAIN state' = DOMAIN state
      BY <1>2
    <2> QED
      BY <1>1, <1>6, <1>8, <2>2, <2>3, <2>4, <2>5, <2>6 DEF TypeOK
  <1>11. LockInv'
    BY <1>1, <1>7, DestAssumption DEF DestAssumption, LockInv
  <1>12. ListInv'
    <2>1. \A k \in 1..Len(prealloc_state_list') :
            prealloc_state_list'[k] = StatesUsed' + k
      <3>1. ASSUME NEW k \in 1..Len(prealloc_state_list')
            PROVE  prealloc_state_list'[k] = StatesUsed' + k
        <4>1. k + 1 \in 1..Len(prealloc_state_list)
          BY <1>3, <1>8, NextIndex
        <4>2. prealloc_state_list[k + 1] = StatesUsed + (k + 1)
          BY <4>1 DEF IInv, ListInv
        <4> QED
          BY SMT, <1>3, <1>4, <1>8, <1>9, <4>2
      <3> QED
        BY <3>1
    <2>2. \A k \in 1..Len(prealloc_rl_list') :
            prealloc_rl_list'[k] = RlsUsed' + k
      BY <1>1, <1>2, <1>9 DEF IInv, ListInv
    <2>3. /\ Len(state') <= MaxObj
          /\ freelist_count' = Len(prealloc_state_list')
          /\ Len(prealloc_state_list') <= Len(state')
          /\ Len(prealloc_rl_list') <= Len(rl')
      BY SMT, <1>1, <1>2, <1>3, <1>8 DEF IInv, ListInv
    <2> QED
      BY <1>9, <2>1, <2>2, <2>3 DEF ListInv
  <1>13. HashInv'
    <2> SUFFICES ASSUME NEW b \in StateBuckets
                 PROVE  /\ Len(state_bucket'[b]) <= 1
                        /\ \A i \in DOMAIN state_bucket'[b] :
                             LET k == state_bucket'[b][i]
                             IN  /\ k <= StatesUsed' /\ k <= RlsUsed'
                                 /\ state'[k].ip_key \in Ip
                                 /\ StateBucket[state'[k].ip_key] = b
                                 /\ state'[k].rl = k
                                 /\ rl'[k] = state'[k].ip_key
      BY SMT DEF HashInv
    <2>1. CASE b = h
      <3>1. state_bucket'[b] = <<s>>
        BY <1>1, <1>5, <2>1
      <3>2. Len(<<s>>) = 1 /\ DOMAIN <<s>> = {1} /\ <<s>>[1] = s
        BY Singleton
      <3>3. /\ state'[s].ip_key = ip[c] /\ state'[s].rl = s /\ rl'[s] = ip[c]
        BY SMT, <1>1, <1>2
      <3>4. s <= StatesUsed' /\ s <= RlsUsed'
        BY SMT, <1>4, <1>9
      <3>5. ip[c] \in Ip /\ StateBucket[ip[c]] = b
        BY <1>1, <2>1 DEF h
      <3>6. Len(state_bucket'[b]) <= 1
        BY SMT, <3>1, <3>2
      <3>7. \A i \in DOMAIN state_bucket'[b] : state_bucket'[b][i] = s
        BY <3>1, <3>2
      <3> QED
        BY <3>3, <3>4, <3>5, <3>6, <3>7
    <2>2. CASE b # h
      <3>1. state_bucket'[b] = state_bucket[b]
        BY <1>1, <1>5, <2>2
      <3>2. Len(state_bucket[b]) <= 1
        BY DEF IInv, HashInv
      <3>3. ASSUME NEW i \in DOMAIN state_bucket[b]
            PROVE  LET k == state_bucket[b][i]
                   IN  /\ k <= StatesUsed' /\ k <= RlsUsed'
                       /\ state'[k].ip_key \in Ip
                       /\ StateBucket[state'[k].ip_key] = b
                       /\ state'[k].rl = k /\ rl'[k] = state'[k].ip_key
        <4> DEFINE k == state_bucket[b][i]
        <4>1. /\ k <= StatesUsed /\ k <= RlsUsed /\ k \in DOMAIN state
              /\ state[k].ip_key \in Ip /\ StateBucket[state[k].ip_key] = b
              /\ state[k].rl = k /\ rl[k] = state[k].ip_key
          BY <3>3, HashEntry
        <4> HIDE DEF k
        <4>2. k \in Int
          BY SMT, <1>3, <4>1
        <4>3. k <= StatesUsed' /\ k <= RlsUsed'
          BY SMT, <1>3, <1>4, <1>9, <4>1, <4>2
        <4> QED
          BY <1>2, <4>1, <4>3 DEF k
      <3> QED
        BY <3>1, <3>2, <3>3
    <2> QED
      BY <2>1, <2>2
  <1>14. FillInv'
    BY <1>7 DEF FillInv
  <1>15. RlInv'
    <2> SUFFICES ASSUME NEW b \in RlBuckets, NEW i \in DOMAIN rl_bucket'[b]
                 PROVE  LET r == rl_bucket'[b][i]
                        IN  /\ r <= RlsUsed' /\ rl'[r] \in Ip
                            /\ state_bucket'[StateBucket[rl'[r]]] # <<>>
      BY DEF RlInv, Bucket
    <2> DEFINE r == rl_bucket'[b][i]
    <2>1. /\ r <= RlsUsed /\ rl[r] \in Ip
          /\ \/ Bucket(rl[r]) # <<>>
             \/ \E e \in Cpu : pc[e] = "filled" /\ ip[e] = rl[r]
      BY <1>2, RlEntry
    <2> HIDE DEF r
    <2>2. r <= RlsUsed' /\ rl'[r] = rl[r]
      BY <1>1, <1>2, <1>9, <2>1
    <2>3. state_bucket'[h] # <<>>
      BY <1>1, <1>5
    <2>4. CASE StateBucket[rl[r]] = h
      BY <2>1, <2>2, <2>3, <2>4 DEF r
    <2>5. CASE StateBucket[rl[r]] # h
      <3>1. \A e \in Cpu : pc[e] = "filled" => e = c
        BY <1>1, OneFills DEF IInv
      <3>2. Bucket(rl[r]) # <<>>
        BY <2>1, <2>5, <3>1 DEF h
      <3>3. StateBucket[rl[r]] \in StateBuckets
        BY <2>1, Hashes
      <3>4. state_bucket'[StateBucket[rl[r]]] # <<>>
        BY <1>1, <1>5, <2>5, <3>2, <3>3 DEF Bucket
      <3> QED
        BY <2>1, <2>2, <3>4 DEF r
    <2> QED
      BY <2>4, <2>5
  <1> QED
    BY <1>10, <1>11, <1>12, <1>13, <1>14, <1>15 DEF IInv

-----------------------------------------------------------------------------
(* The allocator.                                                           *)

LEMMA PreallocStep ==
  ASSUME IInv, Prealloc
  PROVE  IInv'
  <1> DEFINE n == Len(state) + 1
             St(D) == [ip_key : Ip \cup {NULL}, rl : {NULL, Bogus} \cup D]
             empty == [ip_key |-> NULL, rl |-> NULL]
  <1>1. /\ writelock = None /\ left > 0 /\ Len(state) < MaxObj
        /\ state' = Append(state, empty) /\ rl' = Append(rl, NULL)
        /\ prealloc_state_list' = Append(prealloc_state_list, n)
        /\ prealloc_rl_list' = Append(prealloc_rl_list, n)
        /\ freelist_count' = freelist_count + 1 /\ left' = left - 1
    BY DEF Prealloc
  <1>2. /\ UNCHANGED <<state_bucket, rl_bucket, pending, writelock>>
        /\ UNCHANGED <<pc, ip, found, scarce>>
    BY DEF Prealloc, tables
  <1>3. /\ Len(state) \in Nat /\ DOMAIN state = 1..Len(state)
        /\ Len(rl) = Len(state) /\ DOMAIN rl = 1..Len(state)
        /\ StatesUsed \in Int /\ RlsUsed \in Int
        /\ Len(prealloc_state_list) \in Nat /\ Len(prealloc_rl_list) \in Nat
    BY Lengths DEF IInv
  <1>4. \A c \in Cpu : pc[c] # "filled"
    BY <1>1, DestAssumption DEF DestAssumption, IInv, LockInv
  <1>5. DOMAIN state \subseteq 1..n /\ n \in 1..n /\ n \in Nat
    BY SMT, <1>3
  <1> HIDE DEF n
  <1>6. /\ state \in Seq(St(1..n)) /\ rl \in Seq(Ip \cup {NULL})
        /\ prealloc_state_list \in Seq(1..n) /\ prealloc_rl_list \in Seq(1..n)
    <2>1. St(DOMAIN rl) \subseteq St(1..n)
      BY <1>3, <1>5
    <2>2. /\ state \in Seq(St(DOMAIN rl)) /\ rl \in Seq(Ip \cup {NULL})
          /\ prealloc_state_list \in Seq(DOMAIN state)
          /\ prealloc_rl_list \in Seq(DOMAIN rl)
      BY DEF IInv, TypeOK
    <2> HIDE DEF St
    <2> QED
      BY <1>3, <1>5, <2>1, <2>2, SeqMonotonic
  <1>7. /\ state' \in Seq(St(1..n)) /\ Len(state') = n
        /\ \A k \in DOMAIN state : state'[k] = state[k]
    <2>1. empty \in St(1..n)
      OBVIOUS
    <2> HIDE DEF St, empty
    <2> QED
      BY SMT, <1>1, <1>3, <1>6, <2>1, AppendProperties DEF n
  <1>8. /\ rl' \in Seq(Ip \cup {NULL}) /\ Len(rl') = n
        /\ \A k \in DOMAIN state : rl'[k] = rl[k]
    BY SMT, <1>1, <1>3, <1>6, AppendProperties DEF n
  <1>9. DOMAIN state' = 1..n /\ DOMAIN rl' = 1..n
    <2> HIDE DEF St
    <2> QED
      BY <1>7, <1>8, LenProperties
  <1>10. /\ prealloc_state_list' \in Seq(1..n)
         /\ Len(prealloc_state_list') = Len(prealloc_state_list) + 1
         /\ \A k \in 1..Len(prealloc_state_list) :
              prealloc_state_list'[k] = prealloc_state_list[k]
         /\ prealloc_state_list'[Len(prealloc_state_list) + 1] = n
    BY SMT, <1>1, <1>5, <1>6, AppendProperties
  <1>11. /\ prealloc_rl_list' \in Seq(1..n)
         /\ Len(prealloc_rl_list') = Len(prealloc_rl_list) + 1
         /\ \A k \in 1..Len(prealloc_rl_list) :
              prealloc_rl_list'[k] = prealloc_rl_list[k]
         /\ prealloc_rl_list'[Len(prealloc_rl_list) + 1] = n
    BY SMT, <1>1, <1>5, <1>6, AppendProperties
  <1>12. /\ StatesUsed' = StatesUsed /\ RlsUsed' = RlsUsed
         /\ RlsUsed = StatesUsed
    <2>1. RlsUsed = StatesUsed
      BY <1>4 DEF IInv, ListInv
    <2> QED
      BY SMT, <1>3, <1>7, <1>8, <1>10, <1>11, <2>1 DEF StatesUsed, RlsUsed, n
  <1>13. ListInv'
    <2>1. \A k \in 1..Len(prealloc_state_list') :
            prealloc_state_list'[k] = StatesUsed' + k
      <3> SUFFICES ASSUME NEW k \in 1..Len(prealloc_state_list')
                   PROVE  prealloc_state_list'[k] = StatesUsed + k
        BY <1>12
      <3>1. \/ k \in 1..Len(prealloc_state_list)
            \/ k = Len(prealloc_state_list) + 1
        BY SMT, <1>3, <1>10
      <3>2. CASE k \in 1..Len(prealloc_state_list)
        BY <1>10, <3>2 DEF IInv, ListInv
      <3>3. CASE k = Len(prealloc_state_list) + 1
        <4>1. n = StatesUsed + k
          BY SMT, <1>3, <3>3 DEF StatesUsed, n
        <4> QED
          BY <1>10, <3>3, <4>1
      <3> QED
        BY <3>1, <3>2, <3>3
    <2>2. \A k \in 1..Len(prealloc_rl_list') :
            prealloc_rl_list'[k] = RlsUsed' + k
      <3> SUFFICES ASSUME NEW k \in 1..Len(prealloc_rl_list')
                   PROVE  prealloc_rl_list'[k] = RlsUsed + k
        BY <1>12
      <3>1. \/ k \in 1..Len(prealloc_rl_list)
            \/ k = Len(prealloc_rl_list) + 1
        BY SMT, <1>3, <1>11
      <3>2. CASE k \in 1..Len(prealloc_rl_list)
        BY <1>11, <3>2 DEF IInv, ListInv
      <3>3. CASE k = Len(prealloc_rl_list) + 1
        <4>1. n = RlsUsed + k
          BY SMT, <1>3, <3>3 DEF RlsUsed, n
        <4> QED
          BY <1>11, <3>3, <4>1
      <3> QED
        BY <3>1, <3>2, <3>3
    <2>3. MaxObj \in Nat
      BY DestAssumption DEF DestAssumption
    <2>4. /\ Len(state') <= MaxObj
          /\ freelist_count' = Len(prealloc_state_list')
          /\ Len(prealloc_state_list') <= Len(state')
          /\ Len(prealloc_rl_list') <= Len(rl')
      BY SMT, <1>1, <1>3, <1>7, <1>8, <1>10, <1>11, <2>3 DEF IInv, ListInv, n
    <2> QED
      BY <1>12, <2>1, <2>2, <2>4 DEF ListInv
  <1>14. TypeOK'
    <2>1. /\ state_bucket' \in [StateBuckets -> Seq(1..n)]
          /\ rl_bucket' \in [RlBuckets -> Seq(1..n)]
      <3>1. /\ state_bucket \in [StateBuckets -> Seq(DOMAIN state)]
            /\ rl_bucket \in [RlBuckets -> Seq(DOMAIN rl)]
        BY DEF IInv, TypeOK
      <3>2. Seq(DOMAIN state) \subseteq Seq(1..n)
        BY <1>5, SeqMonotonic
      <3> QED
        BY <1>2, <1>3, <3>1, <3>2
    <2>2. freelist_count' \in 0..MaxObj /\ left' \in 0..Batch
      <3>1. /\ MaxObj \in Nat /\ Batch \in Nat /\ left \in 0..Batch
            /\ freelist_count' = Len(prealloc_state_list')
            /\ Len(prealloc_state_list') <= Len(state')
            /\ Len(state') <= MaxObj
        BY <1>13, DestAssumption DEF DestAssumption, ListInv, IInv, TypeOK
      <3> QED
        BY SMT, <1>1, <1>3, <1>5, <1>7, <1>10, <3>1
    <2>3. /\ writelock' \in Cpu \cup {None} /\ ip' \in [Cpu -> Ip]
          /\ pc' \in [Cpu -> {"idle", "missed", "locked", "filled", "have"}]
      BY <1>2 DEF IInv, TypeOK
    <2>4. found' \in [Cpu -> {Bogus, NULL} \cup 1..n]
      BY <1>2, <1>5 DEF IInv, TypeOK
    <2>5. pending' \in BOOLEAN /\ scarce' \in BOOLEAN
      BY <1>2 DEF IInv, TypeOK
    <2> QED
      BY <1>7, <1>8, <1>9, <1>10, <1>11, <2>1, <2>2, <2>3, <2>4, <2>5 DEF
         TypeOK
  <1>15. LockInv'
    BY <1>2 DEF IInv, LockInv
  <1>16. HashInv'
    BY SMT, <1>2, <1>3, <1>7, <1>8, <1>12, HashKept
  <1>17. FillInv'
    BY <1>2, <1>4 DEF FillInv
  <1>18. RlInv'
    <2> SUFFICES ASSUME NEW b \in RlBuckets, NEW i \in DOMAIN rl_bucket'[b]
                 PROVE  LET r == rl_bucket'[b][i]
                        IN  /\ r <= RlsUsed' /\ rl'[r] \in Ip
                            /\ state_bucket'[StateBucket[rl'[r]]] # <<>>
      BY DEF RlInv, Bucket
    <2> DEFINE r == rl_bucket'[b][i]
    <2>1. /\ r \in DOMAIN rl /\ r <= RlsUsed /\ rl[r] \in Ip
          /\ Bucket(rl[r]) # <<>>
      BY <1>2, <1>4, RlEntry
    <2> HIDE DEF r
    <2>2. r <= RlsUsed' /\ rl'[r] = rl[r]
      BY <1>3, <1>8, <1>12, <2>1
    <2> QED
      BY <1>2, <2>1, <2>2 DEF r, Bucket
  <1> QED
    BY <1>13, <1>14, <1>15, <1>16, <1>17, <1>18 DEF IInv

-----------------------------------------------------------------------------
(* The theorems.                                                            *)

LEMMA StepInv == IInv /\ [Next]_vars => IInv'
  <1> SUFFICES ASSUME IInv, [Next]_vars PROVE IInv'
    OBVIOUS
  <1>1. CASE UNCHANGED vars
    <2>1. /\ UNCHANGED <<heap, tables>> /\ UNCHANGED <<heap, tables, scarce>>
          /\ UNCHANGED <<writelock, pc, ip, found, pending, left>>
      BY <1>1 DEF vars, work
    <2>2. TypeOK'
      BY <2>1, TypeUnchanged DEF IInv, TypeOK
    <2>3. ListInv' /\ HashInv' /\ FillInv' /\ RlInv'
      BY <2>1, HeapUnchanged
    <2>4. LockInv'
      BY <2>1 DEF IInv, LockInv
    <2> QED
      BY <2>2, <2>3, <2>4 DEF IInv
  <1>2. ASSUME NEW c \in Cpu, CpuStep(c) PROVE IInv'
    BY <1>2, QuietCpuStep, FillStep, PublishStep DEF CpuStep
  <1>3. ASSUME NEW c \in Cpu, NEW d \in Ip, NEW f \in BOOLEAN, Get(c, d, f)
        PROVE  IInv'
    BY <1>3, GetStep
  <1>4. CASE Worker
    BY <1>4, QuietWorkerStep, PreallocStep DEF Worker
  <1> QED
    BY <1>1, <1>2, <1>3, <1>4 DEF Next

LEMMA Invariance == Spec => []IInv
  BY PTL, InitInv, StepInv DEF Spec

(* The variables keep their types: lists and tables hold allocated objects, *)
(* the counter of free states never becomes negative.                       *)
THEOREM TypeCorrect == Spec => []TypeOK
  BY PTL, Invariance DEF IInv

(* Whenever nobody holds writelock, both preallocated lists are as long as  *)
(* the counter says that decides about refilling.                           *)
THEOREM ListsInStep == Spec => []FreelistsAgree
  <1>1. IInv => FreelistsAgree
    <2> SUFFICES ASSUME IInv, writelock = None
                 PROVE  /\ freelist_count = Len(prealloc_state_list)
                        /\ freelist_count = Len(prealloc_rl_list)
      BY DEF FreelistsAgree
    <2>1. \A c \in Cpu : pc[c] # "filled"
      BY DestAssumption DEF DestAssumption, IInv, LockInv
    <2>2. RlsUsed = StatesUsed /\ freelist_count = Len(prealloc_state_list)
      BY <2>1 DEF IInv, ListInv
    <2> QED
      BY SMT, <2>2, Lengths DEF IInv, StatesUsed, RlsUsed
  <1> QED
    BY PTL, <1>1, Invariance

(* A state that look-ups without a lock can reach has its own limiter,      *)
(* keyed by its own destination.                                            *)
THEOREM CompleteWhenPublished == Spec => []PublishedIsComplete
  <1>1. IInv => PublishedIsComplete
    <2> SUFFICES ASSUME IInv, NEW s \in Hashed
                 PROVE  /\ state[s].rl \in DOMAIN rl
                        /\ rl[state[s].rl] = state[s].ip_key
      BY DEF PublishedIsComplete
    <2>1. PICK b \in StateBuckets : s \in Range(state_bucket[b])
      BY DEF Hashed
    <2>2. PICK i \in DOMAIN state_bucket[b] : s = state_bucket[b][i]
      BY <2>1 DEF Range
    <2>3. /\ s \in DOMAIN state /\ state[s].rl = s
          /\ rl[s] = state[s].ip_key
      BY <2>2, HashEntry
    <2> QED
      BY <2>3, Lengths DEF IInv
  <1> QED
    BY PTL, <1>1, Invariance

-----------------------------------------------------------------------------
(* The refinement: seen through look-ups, a step either makes the entry of  *)
(* one destination, in Publish, or changes nothing.                         *)

LEMMA EntryIs ==
  ASSUME IInv, NEW d \in Ip
  PROVE  /\ Len(Bucket(d)) <= 1 /\ Bucket(d) \in Seq(DOMAIN state)
         /\ Entry(d) = IF Bucket(d) # <<>> /\ state[Bucket(d)[1]].ip_key = d
                         THEN <<Bucket(d)[1], Bucket(d)[1]>> ELSE <<>>
         /\ Bucket(d) # <<>> => Bucket(d)[1] \in DOMAIN state
                                  /\ Bucket(d)[1] <= StatesUsed
  <1>1. Bucket(d) \in Seq(DOMAIN state) /\ Len(Bucket(d)) <= 1
    BY BucketType, Hashes DEF IInv, HashInv, Bucket
  <1>2. CASE Bucket(d) = <<>>
    <2>1. Hits(d) = {}
      BY SMT, <1>2 DEF Hits
    <2> QED
      BY <1>1, <1>2, <2>1 DEF Entry
  <1>3. CASE Bucket(d) # <<>>
    <2>1. Len(Bucket(d)) = 1 /\ DOMAIN Bucket(d) = {1}
      BY SMT, <1>1, <1>3, SingletonSeq, LenProperties
    <2>2. /\ Bucket(d)[1] \in DOMAIN state /\ Bucket(d)[1] <= StatesUsed
          /\ state[Bucket(d)[1]].rl = Bucket(d)[1]
      BY SMT, <2>1, Hashes, HashEntry DEF Bucket
    <2>3. Hits(d) = IF state[Bucket(d)[1]].ip_key = d THEN {1} ELSE {}
      BY <2>1 DEF Hits
    <2>4. Min({1}) = 1
      BY SMT DEF Min
    <2> QED
      BY <1>1, <1>3, <2>2, <2>3, <2>4 DEF Entry
  <1> QED
    BY <1>2, <1>3

LEMMA EntryKept ==
  ASSUME IInv, IInv', NEW d \in Ip, Bucket(d)' = Bucket(d),
         \A k \in DOMAIN state : k <= StatesUsed => state'[k] = state[k]
  PROVE  Entry(d)' = Entry(d)
  <1>1. /\ Entry(d) = IF Bucket(d) # <<>> /\ state[Bucket(d)[1]].ip_key = d
                        THEN <<Bucket(d)[1], Bucket(d)[1]>> ELSE <<>>
        /\ Bucket(d) # <<>> => Bucket(d)[1] \in DOMAIN state
                                 /\ Bucket(d)[1] <= StatesUsed
    BY EntryIs
  <1>2. (Entry(d) = IF Bucket(d) # <<>> /\ state[Bucket(d)[1]].ip_key = d
                      THEN <<Bucket(d)[1], Bucket(d)[1]>> ELSE <<>>)'
    BY PTL, EntryIs
  <1> QED
    BY <1>1, <1>2

EntryForms ==
  \A d \in Ip :
    Entry(d) = IF /\ state_bucket[StateBucket[d]] # <<>>
                  /\ state[state_bucket[StateBucket[d]][1]].ip_key = d
                 THEN <<state_bucket[StateBucket[d]][1],
                        state_bucket[StateBucket[d]][1]>>
                 ELSE <<>>

LEMMA EntryForm == IInv => EntryForms
  BY EntryIs DEF Bucket, EntryForms

LEMMA PublishCreates ==
  ASSUME IInv, IInv', NEW c \in Cpu, Publish(c), NEW i \in Ip, i = ip[c]
  PROVE  /\ Entry(i) = <<>>
         /\ Entry(i)' = <<StatesUsed + 1, StatesUsed + 1>>
         /\ StatesUsed + 1 \in 1..MaxObj
         /\ \A d \in Ip \ {i} : Entry(d)' = Entry(d)
  <1> DEFINE s == StatesUsed + 1
             h == StateBucket[i]
  <1>1. /\ s \in DOMAIN state /\ state[s] = [ip_key |-> i, rl |-> s]
        /\ state_bucket[h] = <<>>
        /\ state_bucket' = [state_bucket EXCEPT ![h] = <<s>>]
    BY PublishEffect
  <1>2. state' = state
    BY DEF Publish
  <1>3. state_bucket \in [StateBuckets -> Seq(DOMAIN state)] /\ h \in StateBuckets
    BY <1>1, Hashes DEF IInv, TypeOK
  <1> HIDE DEF s
  <1>4. s \in 1..MaxObj
    <2>1. /\ s \in 1..Len(state) /\ Len(state) <= MaxObj
          /\ Len(state) \in Nat /\ MaxObj \in Nat
      BY <1>1, Lengths, DestAssumption DEF DestAssumption, IInv, ListInv
    <2> QED
      BY SMT, <2>1
  <1>5. Entry(i) = <<>>
    BY <1>1, EntryIs DEF Bucket
  <1>6. state_bucket'[h] = <<s>> /\ <<s>> # <<>> /\ <<s>>[1] = s
    BY <1>1, <1>3
  <1>7. EntryForms'
    BY PTL, EntryForm
  <1>8. \A d \in Ip :
          Entry(d)' = IF /\ state_bucket'[StateBucket[d]] # <<>>
                         /\ state'[state_bucket'[StateBucket[d]][1]].ip_key = d
                        THEN <<state_bucket'[StateBucket[d]][1],
                               state_bucket'[StateBucket[d]][1]>>
                        ELSE <<>>
    BY <1>7 DEF EntryForms
  <1>11. state'[s].ip_key = i
    <2>1. state[s].ip_key = i
      BY SMT, <1>1
    <2> QED
      BY <1>2, <2>1
  <1>9. Entry(i)' = <<s, s>>
    <2>1. Entry(i)' = IF /\ state_bucket'[h] # <<>>
                         /\ state'[state_bucket'[h][1]].ip_key = i
                        THEN <<state_bucket'[h][1], state_bucket'[h][1]>>
                        ELSE <<>>
      BY <1>8
    <2>2. state_bucket'[h][1] = s
      BY <1>6
    <2> QED
      BY <1>6, <1>11, <2>1, <2>2
  <1>10. ASSUME NEW d \in Ip \ {i} PROVE Entry(d)' = Entry(d)
    <2>1. Entry(d) = IF Bucket(d) # <<>> /\ state[Bucket(d)[1]].ip_key = d
                       THEN <<Bucket(d)[1], Bucket(d)[1]>> ELSE <<>>
      BY EntryIs
    <2>2. CASE StateBucket[d] = h
      <3>1. Entry(d) = <<>>
        BY <1>1, <2>1, <2>2 DEF Bucket
      <3>2. state_bucket'[StateBucket[d]][1] = s
        BY <1>6, <2>2
      <3>3. state'[s].ip_key # d
        BY <1>11
      <3> QED
        BY <1>8, <3>1, <3>2, <3>3
    <2>3. CASE StateBucket[d] # h
      <3>1. state_bucket'[StateBucket[d]] = state_bucket[StateBucket[d]]
        BY <1>1, <1>3, <2>3, Hashes
      <3> QED
        BY <1>2, <1>8, <2>1, <3>1 DEF Bucket
    <2> QED
      BY <2>2, <2>3
  <1> QED
    BY <1>4, <1>5, <1>9, <1>10 DEF s

LEMMA MapUnchanged ==
  ASSUME IInv, IInv', state_bucket' = state_bucket,
         \A k \in DOMAIN state : k <= StatesUsed => state'[k] = state[k]
  PROVE  \A d \in Ip : Entry(d)' = Entry(d)
  <1>1. \A d \in Ip : Bucket(d)' = Bucket(d)
    BY DEF Bucket
  <1> QED
    BY <1>1, EntryKept

(* A step of the class makes at most one entry of the map.                  *)
LEMMA MapStep ==
  ASSUME IInv, IInv', [Next]_vars
  PROVE  \/ \A d \in Ip : Entry(d)' = Entry(d)
         \/ \E i \in Ip, s \in 1..MaxObj :
              /\ Entry(i) = <<>> /\ Entry(i)' = <<s, s>>
              /\ \A d \in Ip \ {i} : Entry(d)' = Entry(d)
              /\ \A d \in Ip : Entry(d) # <<>> =>
                   Entry(d)[1] # s /\ Entry(d)[2] # s
  <1>1. CASE UNCHANGED <<heap, tables>>
    <2>1. state_bucket' = state_bucket /\ state' = state
      BY <1>1 DEF heap, tables
    <2> QED
      BY <2>1, MapUnchanged
  <1>2. ASSUME NEW c \in Cpu, Fill(c)
        PROVE  \A d \in Ip : Entry(d)' = Entry(d)
    <2>1. state_bucket' = state_bucket
      BY <1>2 DEF Fill
    <2>2. /\ StatesUsed + 1 \in DOMAIN state
          /\ state' = [state EXCEPT ![StatesUsed + 1] =
                         [ip_key |-> ip[c], rl |-> StatesUsed + 1]]
      BY <1>2, FillEffect
    <2>3. \A k \in DOMAIN state : k <= StatesUsed => state'[k] = state[k]
      BY SMT, <2>2, Lengths DEF IInv
    <2> QED
      BY <2>1, <2>3, MapUnchanged
  <1>3. ASSUME NEW c \in Cpu, Publish(c)
        PROVE  \E i \in Ip, s \in 1..MaxObj :
                 /\ Entry(i) = <<>> /\ Entry(i)' = <<s, s>>
                 /\ \A d \in Ip \ {i} : Entry(d)' = Entry(d)
                 /\ \A d \in Ip : Entry(d) # <<>> =>
                      Entry(d)[1] # s /\ Entry(d)[2] # s
    <2>1. PICK i \in Ip : i = ip[c]
      BY DEF IInv, TypeOK
    <2> DEFINE s == StatesUsed + 1
    <2>2. /\ Entry(i) = <<>> /\ Entry(i)' = <<s, s>> /\ s \in 1..MaxObj
          /\ \A d \in Ip \ {i} : Entry(d)' = Entry(d)
      BY <1>3, <2>1, PublishCreates
    <2>3. ASSUME NEW d \in Ip, Entry(d) # <<>>
          PROVE  Entry(d)[1] # s /\ Entry(d)[2] # s
      <3>1. /\ Entry(d) = <<Bucket(d)[1], Bucket(d)[1]>>
            /\ Bucket(d)[1] \in DOMAIN state /\ Bucket(d)[1] <= StatesUsed
        BY <2>3, EntryIs
      <3> QED
        BY SMT, <3>1, Lengths DEF IInv
    <2> HIDE DEF s
    <2> QED
      BY <2>2, <2>3
  <1>4. CASE Prealloc
    <2>1. /\ state_bucket' = state_bucket
          /\ state' = Append(state, [ip_key |-> NULL, rl |-> NULL])
      BY <1>4 DEF Prealloc, tables
    <2>2. state \in Seq([ip_key : Ip \cup {NULL},
                         rl : {NULL, Bogus} \cup DOMAIN rl])
      BY DEF IInv, TypeOK
    <2>3. \A k \in DOMAIN state : state'[k] = state[k]
      BY SMT, <2>1, <2>2
    <2> QED
      BY <2>1, <2>3, MapUnchanged
  <1> QED
    <2>1. ASSUME NEW c \in Cpu, CpuStep(c)
          PROVE  UNCHANGED <<heap, tables>> \/ Fill(c) \/ Publish(c)
      BY <2>1 DEF CpuStep, TryLock, LostRace, Exhausted, Put
    <2>2. ASSUME NEW c \in Cpu, NEW d \in Ip, NEW f \in BOOLEAN, Get(c, d, f)
          PROVE  UNCHANGED <<heap, tables>>
      BY <2>2 DEF Get
    <2>3. Worker => UNCHANGED <<heap, tables>> \/ Prealloc
      BY DEF Worker, AllocatorStart, PreallocFails
    <2>4. UNCHANGED vars => UNCHANGED <<heap, tables>>
      BY DEF vars
    <2>5. \/ UNCHANGED <<heap, tables>> \/ Prealloc
          \/ \E c \in Cpu : Fill(c) \/ Publish(c)
      BY <2>1, <2>2, <2>3, <2>4 DEF Next
    <2> QED
      BY <1>1, <1>2, <1>3, <1>4, <2>5

(* Seen through look-ups that take no lock, the states of a class are a map *)
(* from destinations to states and limiters in which entries are made once, *)
(* never change and share nothing, whatever the CPUs and the allocator do   *)
(* between the steps of a creation, and for every hash function.            *)
THEOREM ImplementsDestMap == Spec => KeepsDestMap
  <1> DEFINE m == [d \in Ip |-> Entry(d)]
  <1>1. Init => Map!Init
    <2> SUFFICES ASSUME Init PROVE m = [d \in Ip |-> <<>>]
      BY DEF Map!Init
    <2>1. \A d \in Ip : Entry(d) = <<>>
      <3>1. \A d \in Ip : Bucket(d) = <<>>
        BY Hashes DEF Init, Bucket
      <3> QED
        BY <3>1, InitInv, EntryIs
    <2> QED
      BY <2>1
  <1>2. IInv /\ IInv' /\ [Next]_vars => [Map!Next]_m
    <2> SUFFICES ASSUME IInv, IInv', [Next]_vars PROVE m' = m \/ Map!Next
      OBVIOUS
    <2>1. m' = [d \in Ip |-> Entry(d)']
      OBVIOUS
    <2>2. CASE \A d \in Ip : Entry(d)' = Entry(d)
      BY <2>1, <2>2
    <2>3. ASSUME NEW i \in Ip, NEW s \in 1..MaxObj,
                 Entry(i) = <<>>, Entry(i)' = <<s, s>>,
                 \A d \in Ip \ {i} : Entry(d)' = Entry(d),
                 \A d \in Ip : Entry(d) # <<>> =>
                   Entry(d)[1] # s /\ Entry(d)[2] # s
          PROVE  Map!Create(i)
      <3>1. m[i] = <<>> /\ m'[i] = <<s, s>>
        BY <2>1, <2>3
      <3>2. m' = [m EXCEPT ![i] = m'[i]]
        BY <2>1, <2>3, <3>1
      <3>3. \A e \in Ip : m[e] # <<>> => m[e][1] # s /\ m[e][2] # s
        BY <2>3
      <3>4. m'[i] \in (1..MaxObj) \X (1..MaxObj) /\ m'[i][1] = s /\ m'[i][2] = s
        BY SMT, <3>1
      <3> HIDE DEF m
      <3> QED
        BY <3>1, <3>2, <3>3, <3>4 DEF Map!Create, m
    <2> QED
      BY <2>2, <2>3, MapStep DEF Map!Next
  <1> QED
    BY PTL, <1>1, <1>2, Invariance DEF Spec, KeepsDestMap, Map!Spec

-----------------------------------------------------------------------------
(* What look-ups return.  The state that a packet path holds is the one in  *)
(* the bucket of its destination, since a bucket that has one keeps it.     *)
HeldInv ==
  \A c \in Cpu : pc[c] = "have" /\ found[c] # Bogus =>
    Bucket(ip[c]) # <<>> /\ found[c] = Bucket(ip[c])[1]

(* No two destinations of the class have the same bucket.                   *)
NoCollisions ==
  \A d, e \in Ip : StateBucket[d] = StateBucket[e] => d = e

LEMMA WalkFirst ==
  ASSUME IInv, NEW d \in Ip, Walk(d) # NULL
  PROVE  Bucket(d) # <<>> /\ Walk(d) = Bucket(d)[1]
  <1>1. Bucket(d) # <<>>
    BY WalkType DEF IInv
  <1>2. Bucket(d) \in Seq(DOMAIN state) /\ Len(Bucket(d)) <= 1
    BY EntryIs
  <1>3. Len(Bucket(d)) = 1 /\ DOMAIN Bucket(d) = {1}
    BY SMT, <1>1, <1>2, SingletonSeq, LenProperties
  <1>4. Hits(d) = {} \/ Hits(d) = {1}
    BY <1>3 DEF Hits
  <1>5. Min({1}) = 1
    BY SMT DEF Min
  <1> QED
    BY <1>1, <1>3, <1>4, <1>5 DEF Walk

(* A CPU gets to a state by a walk or by publishing it; any other step      *)
(* leaves what it holds as it is.                                           *)
LEMMA HeldGet ==
  ASSUME IInv, NEW c \in Cpu, NEW d \in Ip, NEW f \in BOOLEAN, Get(c, d, f),
         pc'[c] = "have"
  PROVE  Walk(d) # NULL /\ found'[c] = Walk(d) /\ ip'[c] = d
  <1>1. /\ pc \in [Cpu -> {"idle", "missed", "locked", "filled", "have"}]
        /\ found \in [Cpu -> {Bogus, NULL} \cup DOMAIN state]
        /\ ip \in [Cpu -> Ip]
    BY DEF IInv, TypeOK
  <1> QED
    BY <1>1 DEF Get, At

LEMMA HeldCpu ==
  ASSUME IInv, NEW c \in Cpu, CpuStep(c), ~Publish(c),
         pc'[c] = "have", found'[c] # Bogus
  PROVE  /\ Walk(ip[c]) # NULL /\ found'[c] = Walk(ip[c]) /\ ip'[c] = ip[c]
  <1>1. /\ pc \in [Cpu -> {"idle", "missed", "locked", "filled", "have"}]
        /\ found \in [Cpu -> {Bogus, NULL} \cup DOMAIN state]
    BY DEF IInv, TypeOK
  <1>2. CASE LostRace(c)
    BY <1>1, <1>2 DEF LostRace, At, Recheck
  <1>3. CASE TryLock(c)
    BY <1>1, <1>3 DEF TryLock, At
  <1>4. CASE Exhausted(c)
    BY <1>1, <1>4 DEF Exhausted, At
  <1>5. CASE Fill(c)
    BY <1>1, <1>5 DEF Fill, At
  <1>6. CASE Put(c)
    BY <1>1, <1>6 DEF Put, At
  <1> QED
    BY <1>2, <1>3, <1>4, <1>5, <1>6 DEF CpuStep

LEMMA OthersHold ==
  ASSUME IInv, NEW c \in Cpu,
         CpuStep(c) \/ \E d \in Ip, f \in BOOLEAN : Get(c, d, f),
         NEW e \in Cpu \ {c}
  PROVE  pc'[e] = pc[e] /\ found'[e] = found[e] /\ ip'[e] = ip[e]
  <1>1. /\ pc \in [Cpu -> {"idle", "missed", "locked", "filled", "have"}]
        /\ found \in [Cpu -> {Bogus, NULL} \cup DOMAIN state]
        /\ ip \in [Cpu -> Ip]
    BY DEF IInv, TypeOK
  <1>2. \E p, s : At(c, p, s)
    BY DEF CpuStep, TryLock, LostRace, Exhausted, Fill, Publish, Put, Get
  <1>3. ip' = ip \/ \E d : ip' = [ip EXCEPT ![c] = d]
    BY DEF CpuStep, TryLock, LostRace, Exhausted, Fill, Publish, Put, Get
  <1>4. pc'[e] = pc[e] /\ found'[e] = found[e]
    BY <1>1, <1>2 DEF At
  <1>5. ip'[e] = ip[e]
    BY <1>1, <1>3
  <1> QED
    BY <1>4, <1>5

LEMMA HeldStep == IInv /\ HeldInv /\ [Next]_vars => HeldInv'
  <1> SUFFICES ASSUME IInv, HeldInv, [Next]_vars,
                      NEW e \in Cpu, pc'[e] = "have", found'[e] # Bogus
               PROVE  Bucket(ip[e])' # <<>> /\ found'[e] = Bucket(ip[e])'[1]
    BY DEF HeldInv
  <1> DEFINE b(d) == state_bucket'[StateBucket[d]]
  <1>1. Bucket(ip[e])' = b(ip'[e]) /\ ip[e] \in Ip
    BY DEF Bucket, IInv, TypeOK
  <1>2. ASSUME NEW c \in Cpu, Publish(c)
        PROVE  /\ b(ip[c]) = <<found'[c]>> /\ ip' = ip
               /\ \A d \in Ip : Bucket(d) # <<>> => b(d) = Bucket(d)
    <2> DEFINE h == StateBucket[ip[c]]
               s == StatesUsed + 1
    <2>1. /\ state_bucket[h] = <<>> /\ ip[c] \in Ip /\ ip' = ip
          /\ state_bucket' = [state_bucket EXCEPT ![h] = <<s>>]
          /\ At(c, "have", s)
      BY <1>2, PublishEffect
    <2> HIDE DEF s
    <2>2. /\ state_bucket \in [StateBuckets -> Seq(DOMAIN state)]
          /\ h \in StateBuckets /\ found \in [Cpu -> {Bogus, NULL} \cup DOMAIN state]
      BY <2>1, Hashes DEF IInv, TypeOK
    <2>3. found'[c] = s /\ state_bucket'[h] = <<s>>
      BY <2>1, <2>2 DEF At
    <2>4. ASSUME NEW d \in Ip, Bucket(d) # <<>> PROVE b(d) = Bucket(d)
      BY <2>1, <2>2, <2>4, Hashes DEF Bucket
    <2> QED
      BY <2>1, <2>3, <2>4
  <1>3. state_bucket' = state_bucket \/ \E c \in Cpu : Publish(c)
    BY DEF Next, CpuStep, TryLock, LostRace, Exhausted, Fill, Put, Get, Worker,
       AllocatorStart, Prealloc, PreallocFails, tables, vars
  <1>4. \A d \in Ip : Bucket(d) # <<>> => b(d) = Bucket(d)
    BY <1>2, <1>3 DEF Bucket
  <1> HIDE DEF b
  <1>5. CASE pc'[e] = pc[e] /\ found'[e] = found[e] /\ ip'[e] = ip[e]
    BY <1>1, <1>4, <1>5 DEF HeldInv
  <1>6. CASE Publish(e)
    <2>1. Bucket(ip[e])' = <<found'[e]>>
      BY <1>1, <1>2, <1>6
    <2> QED
      BY SMT, <2>1
  <1>7. CASE CpuStep(e) /\ ~Publish(e)
    <2>1. /\ Walk(ip[e]) # NULL /\ found'[e] = Walk(ip[e]) /\ ip'[e] = ip[e]
      BY <1>7, HeldCpu
    <2> QED
      BY <1>1, <1>4, <2>1, WalkFirst
  <1>8. ASSUME NEW d \in Ip, NEW f \in BOOLEAN, Get(e, d, f)
        PROVE  Bucket(ip[e])' # <<>> /\ found'[e] = Bucket(ip[e])'[1]
    <2>1. Walk(d) # NULL /\ found'[e] = Walk(d) /\ ip'[e] = d
      BY <1>8, HeldGet
    <2> QED
      BY <1>1, <1>4, <2>1, WalkFirst
  <1>9. \/ pc'[e] = pc[e] /\ found'[e] = found[e] /\ ip'[e] = ip[e]
        \/ CpuStep(e) \/ \E d \in Ip, f \in BOOLEAN : Get(e, d, f)
    <2>1. ASSUME NEW c \in Cpu,
                 CpuStep(c) \/ \E d \in Ip, f \in BOOLEAN : Get(c, d, f)
          PROVE  \/ c = e
                 \/ pc'[e] = pc[e] /\ found'[e] = found[e] /\ ip'[e] = ip[e]
      BY <2>1, OthersHold
    <2>2. Worker \/ UNCHANGED vars => UNCHANGED <<pc, found, ip>>
      BY DEF Worker, AllocatorStart, Prealloc, PreallocFails, vars
    <2> QED
      BY <2>1, <2>2 DEF Next
  <1> QED
    BY <1>5, <1>6, <1>7, <1>8, <1>9

(* "Per-dest state" holds as long as no two destinations share a bucket:    *)
(* then every state that iso_state_get returns, found or created, is that   *)
(* of the packet's destination, whatever races its creation went through.   *)
(* Collisions are thus the only way to get another destination's state.     *)
THEOREM OwnWithoutCollisions == NoCollisions => (Spec => []StateIsOwn)
  <1> SUFFICES ASSUME NoCollisions PROVE Spec => []StateIsOwn
    OBVIOUS
  <1>1. Init => HeldInv
    BY DEF Init, HeldInv
  <1>2. IInv /\ HeldInv => StateIsOwn
    <2> SUFFICES ASSUME IInv, HeldInv, NEW c \in Cpu,
                        pc[c] = "have", found[c] # Bogus
                 PROVE  state[found[c]].ip_key = ip[c]
      BY DEF StateIsOwn
    <2>1. ip[c] \in Ip
      BY DEF IInv, TypeOK
    <2>2. Bucket(ip[c]) # <<>> /\ found[c] = Bucket(ip[c])[1]
      BY DEF HeldInv
    <2>3. 1 \in DOMAIN Bucket(ip[c])
      BY SMT, <2>1, <2>2, EntryIs, SingletonSeq, LenProperties
    <2>4. /\ state[found[c]].ip_key \in Ip
          /\ StateBucket[state[found[c]].ip_key] = StateBucket[ip[c]]
      <3>1. /\ StateBucket[ip[c]] \in StateBuckets
            /\ 1 \in DOMAIN state_bucket[StateBucket[ip[c]]]
            /\ found[c] = state_bucket[StateBucket[ip[c]]][1]
        BY <2>1, <2>2, <2>3, Hashes DEF Bucket
      <3> QED
        BY <3>1, HashEntry
    <2> QED
      BY <2>1, <2>4 DEF NoCollisions
  <1> QED
    BY PTL, <1>1, <1>2, HeldStep, Invariance DEF Spec
=============================================================================
