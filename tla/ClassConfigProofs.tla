------------------------- MODULE ClassConfigProofs -------------------------
(***************************************************************************)
(* Proofs about ClassConfig for any number of writers, packet paths,        *)
(* classes and queues, and for every sequence of writes.                    *)
(***************************************************************************)
EXTENDS ClassConfig, TLAPS

\* Most steps are first-order; those that need more name their prover.
USE ZenonT(90)

Weights == [o \in tx_hash |-> txc[o].weight]
Guarantees == [o \in tx_hash |-> txc[o].min_rate]
Referrers(v) == {o \in Classes : txc[o].vq = v}

(* A handler has changed weights, caps or classes and not yet the rates;    *)
(* a handler has installed a class and not yet its guarantee.               *)
Pending == \E w \in Writer : wpc[w] = "recompute"
Creating ==
  \E w \in Writer : wpc[w] = "recompute" /\ req[w].op = "create_txc"

Contract(t) ==
  LET cap == IF t.is_static THEN t.max_rate ELSE ISO_MAX_TX_RATE
  IN  ~t.cut => t.rate \in Min2(t.min_rate, cap)..cap

(* Where a packet path may hold a class, and what it holds.                 *)
InUse == {"walk", "reading", "clock", "oops"}
HeldType(m, n) == [key : Klass \cup {None}, txc : 0..m, vq : 0..n]
ClockType(m) == [txc : 0..m, rate : Nat]

-----------------------------------------------------------------------------
(* The parts of the type invariant.                                         *)
TxType ==
  /\ txc \in Seq(TxClass) /\ Len(txc) <= MaxTxc
  /\ tx_hash \subseteq DOMAIN txc /\ txc_list \in Seq(DOMAIN txc)
VqType ==
  /\ vq \in Seq(VirtQueue) /\ Len(vq) <= MaxVq
  /\ vq_hash = DOMAIN vq /\ vq_list \subseteq DOMAIN vq
WriterType ==
  /\ config_mutex \in Writer \cup {None}
  /\ wpc \in [Writer -> {"idle", "down", "body", "alloc", "recompute", "sync",
                         "grace", "up", "leaked", "oops"}]
  /\ req \in [Writer -> Request] /\ obj \in [Writer -> Nat]
  /\ ret \in [Writer -> {0, -EINVAL}] /\ grace \in [Writer -> SUBSET Cpu]
CpuType ==
  /\ txc_spinlock \in Writer \cup Cpu \cup {None}
  /\ ctx_rate \in 0..Max2(2, ISO_MAX_TX_RATE)
  /\ cpc \in [Cpu -> {"idle", "tick", "ticked"} \cup InUse]
  /\ cur \in [Cpu -> 0..Len(txc_list)]
  /\ held \in [Cpu -> HeldType(Len(txc), Len(vq))]
  /\ clk \in [Cpu -> ClockType(Len(txc))]

(* The classes in the table are live, distinct, on txc_list, and not        *)
(* guaranteed more than the device; txc_total_weight is the sum of their    *)
(* weights at every step;                                                   *)
(* and what the rates promise holds except between a change and its         *)
(* recomputation.                                                           *)
TxInv ==
  /\ TxType /\ InstalledOnce
  /\ \A o \in tx_hash : \E i \in DOMAIN txc_list : txc_list[i] = o
  /\ \A o \in tx_hash : ~txc[o].freed /\ txc[o].min_rate <= ISO_MAX_TX_RATE
  /\ txc_total_weight = Total(Weights, tx_hash)
  /\ Creating => txc_total_weight > 0
  /\ ~Creating => Total(Guarantees, tx_hash) <= ISO_MAX_TX_RATE
  /\ txc_total_weight > 0 /\ ~Pending => \A o \in tx_hash : Contract(txc[o])

(* The same for the queues, whose rates are set in the step that changes    *)
(* their weights.  A queue never leaves the hash table.                     *)
VqInv ==
  /\ VqType
  /\ \A v1, v2 \in DOMAIN vq : vq[v1].klass = vq[v2].klass => v1 = v2
  /\ (\E v \in vq_list : vq[v].weight > 0) =>
       Total(DynamicRates, vq_list) <= ISO_VQ_DRAIN_RATE_MBPS

(* Reference counts are exact, of freed queues too.                         *)
RefInv ==
  /\ \A o \in DOMAIN txc : txc[o].vq \in 0..Len(vq)
  /\ \A v \in DOMAIN vq : vq[v].refcnt = Cardinality(Referrers(v))

(* A handler past its down holds config_mutex, and what it works on is      *)
(* still what it found.                                                     *)
WriterInv ==
  /\ WriterType
  /\ \A w \in Writer :
       /\ wpc[w] \notin {"idle", "down"} => config_mutex = w
       /\ wpc[w] \in {"sync", "grace"} => req[w].op \in {"delete_txc", "delete_vq"}
       /\ wpc[w] \in {"recompute", "sync", "grace"} /\ req[w].op = "delete_txc"
            => obj[w] \in Classes \ tx_hash
       /\ wpc[w] \in {"sync", "grace"} /\ req[w].op = "delete_vq"
            => obj[w] \in DOMAIN vq /\ vq[obj[w]].refcnt <= 0

(* What a creation has found missing is missing until it is installed.      *)
Missing(r) ==
  /\ r.op = "create_txc" => \A o \in tx_hash : txc[o].klass # r.a
  /\ r.op = "create_vq" => \A v \in DOMAIN vq : vq[v].klass # r.a
AllocInv == \A w \in Writer : wpc[w] = "alloc" => Missing(req[w])

(* A class in use has not been freed, and a deletion that has begun to wait *)
(* waits for its user.                                                      *)
CpuInv ==
  /\ CpuType
  /\ \A c \in Cpu : held[c].txc # 0 =>
       /\ cpc[c] \in InUse /\ held[c].txc \in Classes
       /\ \A w \in Writer :
            wpc[w] = "grace" /\ req[w].op = "delete_txc"
              /\ obj[w] = held[c].txc => c \in grace[w]
  /\ \A c \in Cpu : cpc[c] = "clock" => clk[c].txc # 0

IInv == TxInv /\ VqInv /\ RefInv /\ WriterInv /\ AllocInv /\ CpuInv

-----------------------------------------------------------------------------
(* Finite sets and sums.  What is true of them is proved in SumLemmas, with *)
(* the library's theorems; this module takes them in at its end, because a  *)
(* proof is checked against all that precedes it.  Until then the lemmas    *)
(* that need these facts assume them.                                       *)

FiniteFacts ==
  /\ \A n \in Nat : IsFiniteSet(1..n)
  /\ \A S, T : IsFiniteSet(S) /\ T \subseteq S => IsFiniteSet(T)

CountFacts ==
  /\ Cardinality({}) = 0
  /\ \A S : IsFiniteSet(S) =>
       /\ Cardinality(S) \in Nat
       /\ Cardinality(S) = 0 => S = {}
       /\ \A x : Cardinality(S \cup {x}) =
                   IF x \in S THEN Cardinality(S) ELSE Cardinality(S) + 1
       /\ \A x : Cardinality(S \ {x}) =
                   IF x \in S THEN Cardinality(S) - 1 ELSE Cardinality(S)

(* The numbers f[s] can be summed up over S.                                *)
Summable(f, S) == IsFiniteSet(S) /\ \A s \in S : f[s] \in Nat

NatFact == \A S, f : Summable(f, S) => Total(f, S) \in Nat

AddFact ==
  \A S, f, x : Summable(f, S) /\ x \notin S /\ f[x] \in Nat =>
    Total(f, S \cup {x}) = Total(f, S) + f[x]

RemoveFact ==
  \A S, f, x : Summable(f, S) /\ x \in S =>
    Total(f, S \ {x}) = Total(f, S) - f[x] /\ f[x] <= Total(f, S)

MonotoneFact ==
  \A S, T, f, g :
    /\ Summable(g, T) /\ S \subseteq T
    /\ \A s \in S : f[s] \in Nat /\ f[s] <= g[s]
    => Total(f, S) <= Total(g, T)

ShareFact ==
  \A S, w, g, R :
    /\ Summable(w, S) /\ R \in Nat /\ Total(w, S) > 0
    /\ \A s \in S : g[s] = (w[s] * R) \div Total(w, S)
    => Total(g, S) <= R /\ \A s \in S : g[s] \in Nat

LargestFact ==
  \A n \in Nat : \A S \in SUBSET (1..n) :
    S # {} => \E x \in S : \A y \in S : x >= y

SumFacts ==
  /\ LargestFact
  /\ FiniteFacts /\ CountFacts
  /\ \A f : Total(f, {}) = 0
  /\ NatFact /\ AddFact /\ RemoveFact /\ MonotoneFact /\ ShareFact

LEMMA FiniteInterval ==
  ASSUME SumFacts, NEW n \in Nat PROVE IsFiniteSet(1..n)
  BY DEF SumFacts, FiniteFacts

LEMMA FiniteSubset ==
  ASSUME SumFacts, NEW S, IsFiniteSet(S), NEW T \in SUBSET S
  PROVE  IsFiniteSet(T)
  BY DEF SumFacts, FiniteFacts

LEMMA CountOfNone ==
  ASSUME SumFacts
  PROVE  /\ Cardinality({}) = 0
         /\ \A S : IsFiniteSet(S) /\ Cardinality(S) = 0 => S = {}
  BY DEF SumFacts, CountFacts

LEMMA CountNat ==
  ASSUME SumFacts, NEW S, IsFiniteSet(S) PROVE Cardinality(S) \in Nat
  BY DEF SumFacts, CountFacts

LEMMA CountAdd ==
  ASSUME SumFacts, NEW S, NEW x, IsFiniteSet(S)
  PROVE  Cardinality(S \cup {x}) =
           IF x \in S THEN Cardinality(S) ELSE Cardinality(S) + 1
  BY DEF SumFacts, CountFacts

LEMMA CountRemove ==
  ASSUME SumFacts, NEW S, NEW x, IsFiniteSet(S)
  PROVE  /\ IsFiniteSet(S \ {x})
         /\ Cardinality(S \ {x}) =
              IF x \in S THEN Cardinality(S) - 1 ELSE Cardinality(S)
  BY DEF SumFacts, FiniteFacts, CountFacts

LEMMA TotalOfNone == ASSUME SumFacts, NEW f PROVE Total(f, {}) = 0
  BY DEF SumFacts

LEMMA TotalSame ==
  ASSUME NEW S, NEW f, NEW g, \A s \in S : f[s] = g[s]
  PROVE  Total(f, S) = Total(g, S)
  <1>1. Units(f, S) = Units(g, S)
    BY DEF Units
  <1> QED
    BY <1>1 DEF Total

LEMMA TotalNat ==
  ASSUME SumFacts, NEW S, IsFiniteSet(S), NEW f, \A s \in S : f[s] \in Nat
  PROVE  Total(f, S) \in Nat
  BY DEF SumFacts, NatFact, Summable

LEMMA TotalAdd ==
  ASSUME SumFacts, NEW S, IsFiniteSet(S), NEW f, \A s \in S : f[s] \in Nat,
         NEW x, x \notin S, f[x] \in Nat
  PROVE  Total(f, S \cup {x}) = Total(f, S) + f[x]
  BY DEF SumFacts, AddFact, Summable

LEMMA TotalRemove ==
  ASSUME SumFacts, NEW S, IsFiniteSet(S), NEW f, \A s \in S : f[s] \in Nat,
         NEW x \in S
  PROVE  Total(f, S \ {x}) = Total(f, S) - f[x] /\ f[x] <= Total(f, S)
  BY DEF SumFacts, RemoveFact, Summable

LEMMA TotalChange ==
  ASSUME SumFacts, NEW S, IsFiniteSet(S), NEW x \in S,
         NEW f, \A s \in S : f[s] \in Nat,
         NEW g, \A s \in S \ {x} : g[s] = f[s], g[x] \in Nat
  PROVE  Total(g, S) = Total(f, S) - f[x] + g[x]
  <1>1. Total(f, S \ {x}) = Total(f, S) - f[x] /\ Total(f, S) \in Nat
    BY TotalRemove, TotalNat
  <1>2. \A s \in S : g[s] \in Nat
    OBVIOUS
  <1>3. Total(g, S \ {x}) = Total(g, S) - g[x] /\ Total(g, S) \in Nat
    BY <1>2, TotalRemove, TotalNat
  <1>4. Total(g, S \ {x}) = Total(f, S \ {x})
    BY TotalSame
  <1> QED
    BY SMT, <1>1, <1>3, <1>4

LEMMA TotalMonotone ==
  ASSUME SumFacts, NEW T, IsFiniteSet(T), NEW S \in SUBSET T,
         NEW f, NEW g, \A s \in T : g[s] \in Nat,
         \A s \in S : f[s] \in Nat /\ f[s] <= g[s]
  PROVE  Total(f, S) <= Total(g, T)
  BY DEF SumFacts, MonotoneFact, Summable

LEMMA SharesFit ==
  ASSUME SumFacts, NEW S, IsFiniteSet(S), NEW w, \A s \in S : w[s] \in Nat,
         NEW R \in Nat, Total(w, S) > 0,
         NEW g, \A s \in S : g[s] = (w[s] * R) \div Total(w, S)
  PROVE  Total(g, S) <= R /\ \A s \in S : g[s] \in Nat
  BY DEF SumFacts, ShareFact, Summable

-----------------------------------------------------------------------------
(* Sequences, look-ups and the types of what a write asks for.              *)

LEMMA UpdateSeq ==
  ASSUME NEW S, NEW s \in Seq(S), NEW i \in DOMAIN s, NEW x \in S,
         NEW t, t = [s EXCEPT ![i] = x]
  PROVE  /\ t \in Seq(S) /\ Len(t) = Len(s) /\ DOMAIN t = DOMAIN s
         /\ t[i] = x /\ \A j \in DOMAIN s \ {i} : t[j] = s[j]
  <1>1. Len(s) \in Nat /\ DOMAIN s = 1..Len(s)
    BY SMT
  <1>2. DOMAIN t = 1..Len(s) /\ \A j \in 1..Len(s) : t[j] \in S
    BY SMT, <1>1
  <1>3. t \in [1..Len(s) -> S]
    BY <1>1, <1>2
  <1>4. t \in Seq(S) /\ Len(t) = Len(s)
    BY SMT, <1>1, <1>3
  <1> QED
    BY <1>1, <1>2, <1>4

LEMMA MapSeq ==
  ASSUME NEW S, NEW s \in Seq(S), NEW t, DOMAIN t = DOMAIN s,
         t = [i \in DOMAIN t |-> t[i]], \A i \in DOMAIN s : t[i] \in S
  PROVE  t \in Seq(S) /\ Len(t) = Len(s)
  <1>1. Len(s) \in Nat /\ DOMAIN s = 1..Len(s)
    BY SMT
  <1>2. t \in [1..Len(s) -> S]
    BY <1>1
  <1> QED
    BY SMT, <1>1, <1>2

LEMMA AppendSeq ==
  ASSUME NEW S, NEW s \in Seq(S), NEW x \in S, NEW t, t = Append(s, x)
  PROVE  /\ t \in Seq(S) /\ Len(t) = Len(s) + 1
         /\ DOMAIN s = 1..Len(s) /\ DOMAIN t = 1..(Len(s) + 1)
         /\ Len(s) \in Nat /\ DOMAIN t = DOMAIN s \cup {Len(s) + 1}
         /\ t[Len(s) + 1] = x /\ \A j \in DOMAIN s : t[j] = s[j]
  BY SMT

LEMMA TxDomain ==
  ASSUME TxType
  PROVE  /\ Len(txc) \in Nat /\ DOMAIN txc = 1..Len(txc)
         /\ \A o \in DOMAIN txc : txc[o] \in TxClass
  BY SMT DEF TxType

LEMMA TxFinite ==
  ASSUME SumFacts, TxType
  PROVE  IsFiniteSet(DOMAIN txc) /\ IsFiniteSet(tx_hash)
  BY TxDomain, FiniteInterval, FiniteSubset DEF TxType

LEMMA VqDomain ==
  ASSUME VqType
  PROVE  /\ Len(vq) \in Nat /\ DOMAIN vq = 1..Len(vq)
         /\ \A v \in DOMAIN vq : vq[v] \in VirtQueue
  BY SMT DEF VqType

LEMMA VqFinite ==
  ASSUME SumFacts, VqType
  PROVE  IsFiniteSet(vq_list)
  BY VqDomain, FiniteInterval, FiniteSubset DEF VqType

LEMMA LeqSelf ==
  ASSUME NEW m \in Nat
  PROVE  m <= m /\ m <= m + 1 /\ m + 1 \in Nat
  BY SMT

LEMMA LeqMiddle ==
  ASSUME NEW k \in Nat, NEW m \in Nat, NEW n \in Nat, k <= m, m <= n
  PROVE  k <= n
  BY SMT

LEMMA PlusMinus ==
  ASSUME NEW n \in Nat
  PROVE  /\ n - 1 + 1 = n /\ n - 1 + 0 = n - 1
         /\ n - 0 + 1 = n + 1 /\ n - 0 + 0 = n
  BY SMT

LEMMA NotZero ==
  ASSUME NEW n \in Nat, NEW k \in 0..n, k # 0
  PROVE  k \in 1..n
  BY SMT

LEMMA NotNegative == ASSUME NEW n \in Int, ~(n < 0) PROVE n \in Nat
  BY SMT

LEMMA NobodyCounted ==
  ASSUME SumFacts,
         NEW S, IsFiniteSet(S), Cardinality(S) \in Nat, Cardinality(S) <= 0
  PROVE  S = {}
  BY SMT, CountOfNone

LEMMA TxIndex ==
  ASSUME TxInv, NEW o \in tx_hash
  PROVE  /\ o \in DOMAIN txc /\ o \in Nat /\ o \in 0..Len(txc)
         /\ txc \in Seq(TxClass) /\ txc[o] \in TxClass /\ o \in Classes
  <1>1. /\ Len(txc) \in Nat /\ DOMAIN txc = 1..Len(txc) /\ o \in DOMAIN txc
        /\ txc[o] \in TxClass /\ txc \in Seq(TxClass)
    BY TxDomain DEF TxInv, TxType
  <1>2. o \in Nat /\ o \in 0..Len(txc)
    BY SMT, <1>1
  <1>3. o \in Classes
    BY <1>1 DEF TxInv, Classes
  <1> QED
    BY <1>1, <1>2, <1>3

LEMMA ListedClass ==
  ASSUME TxType, NEW i \in 1..Len(txc_list)
  PROVE  txc_list[i] \in DOMAIN txc
  BY SMT DEF TxType

LEMMA UpdateTxc ==
  ASSUME txc \in Seq(TxClass), NEW o \in DOMAIN txc, NEW t \in TxClass,
         txc' = [txc EXCEPT ![o] = t]
  PROVE  /\ Len(txc') = Len(txc) /\ DOMAIN txc' = DOMAIN txc /\ txc'[o] = t
         /\ \A j \in DOMAIN txc \ {o} : txc'[j] = txc[j]
  BY SMT, UpdateSeq

LEMMA AppendTxc ==
  ASSUME TxType, NEW t \in TxClass, txc' = Append(txc, t)
  PROVE  /\ Len(txc') = Len(txc) + 1
         /\ DOMAIN txc' = DOMAIN txc \cup {Len(txc) + 1}
         /\ DOMAIN txc = 1..Len(txc) /\ Len(txc) \in Nat
         /\ txc'[Len(txc) + 1] = t /\ \A j \in DOMAIN txc : txc'[j] = txc[j]
  BY SMT, AppendSeq DEF TxType

LEMMA InitTxc ==
  ASSUME NEW k \in Klass
  PROVE  iso_txc_init(k) \in TxClass /\ iso_txc_init(k).vq = 0
  BY SMT, ConfigAssumption DEF ConfigAssumption, iso_txc_init, TxClass

LEMMA SameLen ==
  ASSUME TxType, TxType', DOMAIN txc' = DOMAIN txc
  PROVE  Len(txc') = Len(txc)
  BY SMT DEF TxType

LEMMA MaxOfOne == ASSUME NEW x \in Int PROVE Max({x}) = x
  BY SMT DEF Max

LEMMA FirstOfIs ==
  ASSUME SumFacts, TxType, NEW S \in SUBSET tx_hash
  PROVE  FirstOf(S) \in tx_hash \cup {0}
  <1>1. CASE S = {}
    BY <1>1 DEF FirstOf
  <1>2. CASE S # {}
    <2>1. Len(txc) \in Nat /\ S \in SUBSET (1..Len(txc))
      BY TxDomain DEF TxType
    <2>2. \E x \in S : \A y \in S : x >= y
      BY <1>2, <2>1 DEF SumFacts, LargestFact
    <2>3. Max(S) \in S
      BY <2>2 DEF Max
    <2> QED
      BY <1>2, <2>3 DEF FirstOf
  <1> QED
    BY <1>1, <1>2

(* A look-up finds the entry of the class exactly if there is one.          *)
LEMMA TxcFind ==
  ASSUME TxInv, NEW k
  PROVE  /\ iso_txc_find(k) = 0 <=> \A o \in tx_hash : txc[o].klass # k
         /\ iso_txc_find(k) # 0 => /\ iso_txc_find(k) \in tx_hash
                                   /\ txc[iso_txc_find(k)].klass = k
  <1> DEFINE hits == {o \in tx_hash : txc[o].klass = k}
  <1>1. CASE hits = {}
    BY <1>1 DEF iso_txc_find
  <1>2. CASE hits # {}
    <2>1. PICK x \in tx_hash : txc[x].klass = k
      BY <1>2
    <2>2. hits = {x}
      BY <2>1 DEF TxInv, InstalledOnce
    <2>3. x \in Nat \ {0}
      BY SMT, TxDomain DEF TxInv, TxType
    <2>4. iso_txc_find(k) = x
      BY SMT, <2>2, <2>3, MaxOfOne DEF iso_txc_find
    <2> QED
      BY <2>1, <2>3, <2>4
  <1> QED
    BY <1>1, <1>2

LEMMA VqFind ==
  ASSUME VqInv, NEW k
  PROVE  /\ iso_vq_find(k) = 0 <=> \A v \in DOMAIN vq : vq[v].klass # k
         /\ iso_vq_find(k) # 0 => /\ iso_vq_find(k) \in DOMAIN vq
                                  /\ vq[iso_vq_find(k)].klass = k
  <1> DEFINE hits == {v \in vq_hash : vq[v].klass = k}
  <1>0. vq_hash = DOMAIN vq
    BY DEF VqInv, VqType
  <1>1. CASE hits = {}
    BY <1>0, <1>1 DEF iso_vq_find
  <1>2. CASE hits # {}
    <2>1. PICK x \in DOMAIN vq : vq[x].klass = k
      BY <1>0, <1>2
    <2>2. hits = {x}
      BY <1>0, <2>1 DEF VqInv
    <2>3. x \in Nat \ {0}
      BY SMT, VqDomain DEF VqInv
    <2>4. iso_vq_find(k) = x
      BY SMT, <2>2, <2>3, MaxOfOne DEF iso_vq_find
    <2> QED
      BY <2>1, <2>3, <2>4
  <1> QED
    BY <1>1, <1>2

LEMMA RequestType ==
  ASSUME WriterType, NEW w \in Writer
  PROVE  req[w] \in Request /\ req[w].a \in Klass /\ req[w].b \in Klass
           /\ req[w].val \in Int
  BY SMT DEF WriterType, Request

LEMMA NothingHeld == Nothing.txc = 0
  BY SMT DEF Nothing

(* The initial states.                                                      *)
LEMMA Initially ==
  ASSUME SumFacts, Init PROVE IInv
  <1>1. /\ txc = <<>> /\ tx_hash = {} /\ txc_list = <<>>
        /\ txc_total_weight = 0 /\ vq = <<>> /\ vq_hash = {} /\ vq_list = {}
        /\ DOMAIN txc = {} /\ DOMAIN vq = {}
    BY SMT DEF Init
  <1>2. ~Pending /\ ~Creating
    BY DEF Init, Pending, Creating
  <1>3. /\ ISO_MAX_TX_RATE \in Nat \ {0} /\ MaxTxc \in Nat /\ MaxVq \in Nat
        /\ NoRequest \in Request
    BY ConfigAssumption DEF ConfigAssumption, NoRequest
  <1>4. TxInv
    <2>1. TxType
      BY SMT, <1>1, <1>3 DEF TxType
    <2>2. Total(Weights, tx_hash) = 0 /\ Total(Guarantees, tx_hash) = 0
      BY <1>1, TotalOfNone
    <2> QED
      BY SMT, <1>1, <1>2, <1>3, <2>1, <2>2 DEF TxInv, InstalledOnce
  <1>5. VqInv
    <2>1. VqType
      BY SMT, <1>1, <1>3 DEF VqType
    <2> QED
      BY <1>1, <2>1 DEF VqInv
  <1>6. RefInv
    BY <1>1 DEF RefInv
  <1>7. WriterInv
    <2>1. WriterType
      BY <1>3 DEF Init, WriterType
    <2> QED
      BY <2>1 DEF Init, WriterInv
  <1>8. CpuInv
    <2>1. /\ Nothing \in HeldType(0, 0) /\ Nothing.txc = 0
          /\ NoClock \in ClockType(0)
      BY SMT DEF Nothing, NoClock, HeldType, ClockType
    <2>2. /\ held \in [Cpu -> HeldType(Len(txc), Len(vq))]
          /\ clk \in [Cpu -> ClockType(Len(txc))]
      <3>1. Len(txc) = 0 /\ Len(vq) = 0
        BY <1>1
      <3> QED
        BY <2>1, <3>1 DEF Init
    <2>3. ctx_rate \in 0..Max2(2, ISO_MAX_TX_RATE)
      BY SMT, <1>3 DEF Init, Max2
    <2>4. CpuType
      BY SMT, <1>1, <2>2, <2>3 DEF Init, CpuType
    <2>5. \A c \in Cpu : held[c].txc = 0 /\ cpc[c] # "clock"
      BY <2>1 DEF Init
    <2> QED
      BY <2>4, <2>5 DEF CpuInv
  <1>9. AllocInv
    BY DEF Init, AllocInv
  <1> QED
    BY <1>4, <1>5, <1>6, <1>7, <1>8, <1>9 DEF IInv

(* What the bounds of the handlers let through.                             *)
LEMMA Accepted ==
  ASSUME WriterType, NEW w \in Writer
  PROVE  /\ ~WeightRefused(req[w].val) => req[w].val \in 0..MaxWeight
         /\ ~CapRefused(req[w].val) => req[w].val \in Nat
  <1>1. req[w].val \in Int
    BY RequestType
  <1> QED
    BY SMT, <1>1, ConfigAssumption DEF ConfigAssumption, WeightRefused,
       CapRefused

LEMMA ClassFields ==
  ASSUME NEW t \in TxClass
  PROVE  /\ t.weight \in 0..MaxWeight /\ t.weight \in Nat
         /\ t.min_rate \in Nat /\ t.max_rate \in Nat /\ t.rate \in Nat
  BY SMT, ConfigAssumption DEF ConfigAssumption, TxClass

LEMMA Summands ==
  ASSUME SumFacts, TxType
  PROVE  /\ \A o \in tx_hash : Weights[o] \in Nat /\ Guarantees[o] \in Nat
         /\ Total(Weights, tx_hash) \in Nat
         /\ Total(Guarantees, tx_hash) \in Nat
  <1>1. \A o \in tx_hash : txc[o] \in TxClass
    BY TxDomain DEF TxType
  <1>2. \A o \in tx_hash : txc[o].weight \in Nat /\ txc[o].min_rate \in Nat
    BY <1>1, ClassFields
  <1>3. \A o \in tx_hash : Weights[o] \in Nat /\ Guarantees[o] \in Nat
    BY <1>2 DEF Weights, Guarantees
  <1> QED
    BY <1>3, TotalNat, TxFinite

LEMMA TypeParts ==
  ASSUME SumFacts, IInv PROVE TypeOK
  <1> TxType /\ VqType /\ WriterType /\ CpuType
    BY DEF IInv, TxInv, VqInv, WriterInv, CpuInv
  <1>2. txc_total_weight \in Nat
    BY Summands DEF IInv, TxInv
  <1> QED
    BY <1>2 DEF TypeOK, TxType, VqType, WriterType, CpuType, HeldType,
       ClockType, InUse

-----------------------------------------------------------------------------
(* The transmit classes.                                                    *)

LEMMA TxQuiet ==
  ASSUME TxInv, UNCHANGED txVars, Pending => Pending', Creating' <=> Creating
  PROVE  TxInv'
  <1>1. UNCHANGED <<txc, tx_hash, txc_list, txc_total_weight>>
    BY DEF txVars
  <1>2. TxType' /\ InstalledOnce'
    BY <1>1 DEF TxInv, TxType, InstalledOnce
  <1>3. Weights' = Weights /\ Guarantees' = Guarantees
    BY <1>1 DEF Weights, Guarantees
  <1>4. txc_total_weight' > 0 /\ ~Pending'
          => \A o \in tx_hash' : Contract(txc'[o])
    BY <1>1 DEF TxInv
  <1>5. \A o \in tx_hash' : \E i \in DOMAIN txc_list' : txc_list'[i] = o
    BY <1>1 DEF TxInv
  <1> QED
    BY <1>1, <1>2, <1>3, <1>4, <1>5 DEF TxInv

(* Steps that change other fields of a class than what guarantees rest on.  *)
LEMMA TxKept ==
  ASSUME TxInv, UNCHANGED <<tx_hash, txc_list>>,
         txc' \in Seq(TxClass), Len(txc') = Len(txc),
         \A o \in tx_hash : /\ txc'[o].klass = txc[o].klass
                            /\ txc'[o].freed = txc[o].freed
                            /\ txc'[o].min_rate = txc[o].min_rate
  PROVE  /\ TxType' /\ InstalledOnce' /\ DOMAIN txc' = DOMAIN txc
         /\ \A o \in tx_hash' : \E i \in DOMAIN txc_list' : txc_list'[i] = o
         /\ \A o \in tx_hash' :
              ~txc'[o].freed /\ txc'[o].min_rate <= ISO_MAX_TX_RATE
         /\ Total(Guarantees', tx_hash') = Total(Guarantees, tx_hash)
  <1>1. DOMAIN txc' = DOMAIN txc
    BY SMT, TxDomain DEF TxInv, TxType
  <1>2. TxType'
    BY <1>1 DEF TxInv, TxType
  <1>3. InstalledOnce'
    BY SMT DEF TxInv, InstalledOnce
  <1>4. \A o \in tx_hash' :
          ~txc'[o].freed /\ txc'[o].min_rate <= ISO_MAX_TX_RATE
    BY DEF TxInv
  <1>5. Guarantees' = Guarantees
    BY DEF Guarantees
  <1>6. \A o \in tx_hash' : \E i \in DOMAIN txc_list' : txc_list'[i] = o
    BY DEF TxInv
  <1> QED
    BY <1>1, <1>2, <1>3, <1>4, <1>5, <1>6

LEMMA TxReweighted ==
  ASSUME SumFacts, TxInv, NEW o \in tx_hash, NEW n \in 0..MaxWeight,
         txc' = [txc EXCEPT ![o].weight = n],
         txc_total_weight' = Reweighted(o, n),
         UNCHANGED <<tx_hash, txc_list>>, Pending', ~Creating, ~Creating'
  PROVE  TxInv'
  <1> DEFINE t == [txc[o] EXCEPT !.weight = n]
  <1>1. o \in DOMAIN txc /\ txc \in Seq(TxClass) /\ txc[o] \in TxClass
    BY TxDomain DEF TxInv, TxType
  <1>2. /\ t \in TxClass /\ t.weight = n /\ t.klass = txc[o].klass
        /\ t.freed = txc[o].freed /\ t.min_rate = txc[o].min_rate
    BY <1>1 DEF TxClass
  <1>3. txc' = [txc EXCEPT ![o] = t]
    BY <1>1
  <1> HIDE DEF t
  <1>4. /\ txc' \in Seq(TxClass) /\ Len(txc') = Len(txc) /\ txc'[o] = t
        /\ \A j \in DOMAIN txc \ {o} : txc'[j] = txc[j]
    BY SMT, <1>1, <1>2, <1>3, UpdateSeq
  <1>5. tx_hash \subseteq DOMAIN txc
    BY DEF TxInv, TxType
  <1>6. /\ TxType' /\ InstalledOnce'
        /\ \A x \in tx_hash' : \E i \in DOMAIN txc_list' : txc_list'[i] = x
        /\ \A x \in tx_hash' :
             ~txc'[x].freed /\ txc'[x].min_rate <= ISO_MAX_TX_RATE
        /\ Total(Guarantees', tx_hash') = Total(Guarantees, tx_hash)
    BY <1>2, <1>4, <1>5, TxKept
  <1>7. txc_total_weight' = Total(Weights', tx_hash')
    <2>1. /\ IsFiniteSet(tx_hash) /\ \A x \in tx_hash : Weights[x] \in Nat
          /\ Total(Weights, tx_hash) \in Nat
      BY TxFinite, Summands DEF TxInv
    <2>2. /\ \A x \in tx_hash \ {o} : Weights'[x] = Weights[x]
          /\ Weights'[o] = n /\ Weights[o] = txc[o].weight
      BY <1>2, <1>4, <1>5 DEF Weights
    <2>3. n \in Nat
      BY SMT, ConfigAssumption DEF ConfigAssumption
    <2>4. Total(Weights', tx_hash) = Total(Weights, tx_hash) - Weights[o] + n
      BY SMT, <2>1, <2>2, <2>3, TotalChange
    <2> QED
      BY <2>2, <2>4 DEF TxInv, Reweighted
  <1> QED
    BY <1>6, <1>7 DEF TxInv

LEMMA TwoFields ==
  ASSUME NEW f, NEW o \in DOMAIN f, NEW s, NEW n
  PROVE  [f EXCEPT ![o].is_static = s, ![o].max_rate = n] =
           [f EXCEPT ![o] = [f[o] EXCEPT !.is_static = s, !.max_rate = n]]
  <1> DEFINE u == [f EXCEPT ![o].is_static = s]
             g == [u EXCEPT ![o].max_rate = n]
             h == [f EXCEPT ![o] =
                     [f[o] EXCEPT !.is_static = s, !.max_rate = n]]
  <1>1. /\ DOMAIN u = DOMAIN f /\ u[o] = [f[o] EXCEPT !.is_static = s]
        /\ \A j \in DOMAIN f \ {o} : u[j] = f[j]
    OBVIOUS
  <1>2. /\ DOMAIN h = DOMAIN f /\ h = [j \in DOMAIN f |-> h[j]]
        /\ h[o] = [f[o] EXCEPT !.is_static = s, !.max_rate = n]
        /\ \A j \in DOMAIN f \ {o} : h[j] = f[j]
    OBVIOUS
  <1> HIDE DEF u, h
  <1>3. /\ DOMAIN g = DOMAIN f /\ g = [j \in DOMAIN f |-> g[j]]
        /\ g[o] = [u[o] EXCEPT !.max_rate = n]
        /\ \A j \in DOMAIN f \ {o} : g[j] = u[j]
    BY <1>1
  <1> HIDE DEF g
  <1>4. g[o] = h[o]
    BY <1>1, <1>2, <1>3
  <1>5. \A j \in DOMAIN f : g[j] = h[j]
    BY <1>1, <1>2, <1>3, <1>4
  <1>6. g = h
    BY <1>2, <1>3, <1>5
  <1> QED
    BY <1>6 DEF g, h, u

LEMMA TxCapped ==
  ASSUME TxInv, NEW o \in tx_hash, NEW s \in BOOLEAN, NEW n \in Nat,
         txc' = [txc EXCEPT ![o] =
                   [txc[o] EXCEPT !.is_static = s, !.max_rate = n]],
         UNCHANGED <<tx_hash, txc_list, txc_total_weight>>,
         Pending', ~Creating, ~Creating'
  PROVE  TxInv'
  <1> DEFINE t == [txc[o] EXCEPT !.is_static = s, !.max_rate = n]
  <1>1. o \in DOMAIN txc /\ txc \in Seq(TxClass) /\ txc[o] \in TxClass
    BY TxDomain DEF TxInv, TxType
  <1>2. /\ t \in TxClass /\ t.weight = txc[o].weight
        /\ t.klass = txc[o].klass /\ t.freed = txc[o].freed
        /\ t.min_rate = txc[o].min_rate
    BY <1>1 DEF TxClass
  <1>3. txc' = [txc EXCEPT ![o] = t]
    BY <1>1
  <1> HIDE DEF t
  <1>4. /\ txc' \in Seq(TxClass) /\ Len(txc') = Len(txc) /\ txc'[o] = t
        /\ \A j \in DOMAIN txc \ {o} : txc'[j] = txc[j]
    BY SMT, <1>1, <1>2, <1>3, UpdateSeq
  <1>5. tx_hash \subseteq DOMAIN txc
    BY DEF TxInv, TxType
  <1>6. /\ TxType' /\ InstalledOnce'
        /\ \A x \in tx_hash' : \E i \in DOMAIN txc_list' : txc_list'[i] = x
        /\ \A x \in tx_hash' :
             ~txc'[x].freed /\ txc'[x].min_rate <= ISO_MAX_TX_RATE
        /\ Total(Guarantees', tx_hash') = Total(Guarantees, tx_hash)
    BY <1>2, <1>4, <1>5, TxKept
  <1>7. Weights' = Weights
    BY <1>2, <1>4, <1>5 DEF Weights
  <1> QED
    BY <1>6, <1>7 DEF TxInv

(* Steps that change what rates do not depend on, or a class that is not in *)
(* the table.                                                               *)
LEMMA TxField ==
  ASSUME TxInv, NEW o \in DOMAIN txc, NEW t \in TxClass,
         txc' = [txc EXCEPT ![o] = t],
         o \in tx_hash =>
           /\ t.klass = txc[o].klass /\ t.freed = txc[o].freed
           /\ t.min_rate = txc[o].min_rate /\ t.weight = txc[o].weight
           /\ t.is_static = txc[o].is_static /\ t.rate = txc[o].rate
           /\ t.max_rate = txc[o].max_rate /\ t.cut = txc[o].cut,
         UNCHANGED <<tx_hash, txc_list, txc_total_weight>>,
         Pending' <=> Pending, Creating' <=> Creating
  PROVE  TxInv'
  <1>1. txc \in Seq(TxClass) /\ tx_hash \subseteq DOMAIN txc
    BY DEF TxInv, TxType
  <1>4. /\ txc' \in Seq(TxClass) /\ Len(txc') = Len(txc) /\ txc'[o] = t
        /\ \A j \in DOMAIN txc \ {o} : txc'[j] = txc[j]
    BY SMT, <1>1, UpdateSeq
  <1>6. /\ TxType' /\ InstalledOnce'
        /\ \A x \in tx_hash' : \E i \in DOMAIN txc_list' : txc_list'[i] = x
        /\ \A x \in tx_hash' :
             ~txc'[x].freed /\ txc'[x].min_rate <= ISO_MAX_TX_RATE
        /\ Total(Guarantees', tx_hash') = Total(Guarantees, tx_hash)
    BY <1>1, <1>4, TxKept
  <1>7. Weights' = Weights
    BY <1>1, <1>4 DEF Weights
  <1>8. ASSUME NEW x \in tx_hash, Contract(txc[x]) PROVE Contract(txc'[x])
    BY <1>1, <1>4, <1>8 DEF Contract
  <1> QED
    BY <1>6, <1>7, <1>8 DEF TxInv

LEMMA TxCreated ==
  ASSUME SumFacts,
         TxInv, NEW k \in Klass, iso_txc_find(k) = 0, Len(txc) < MaxTxc,
         txc' = Append(txc, iso_txc_init(k)),
         tx_hash' = tx_hash \cup {Len(txc) + 1},
         txc_list' = Append(txc_list, Len(txc) + 1),
         txc_total_weight' = txc_total_weight + txc'[Len(txc) + 1].weight,
         Pending', Creating'
  PROVE  TxInv'
  <1> DEFINE n == Len(txc) + 1
             t == iso_txc_init(k)
  <1>1. /\ t \in TxClass /\ t.klass = k /\ ~t.freed /\ t.weight = 1
        /\ t.min_rate <= ISO_MAX_TX_RATE
    <2>1. 1 \in 0..MaxWeight /\ 0 \in 0..MaxVq /\ ISO_MAX_TX_RATE \in Nat
      BY SMT, ConfigAssumption DEF ConfigAssumption
    <2>2. ISO_RFAIR_INITIAL \in Nat
      BY ConfigAssumption DEF ConfigAssumption
    <2> QED
      BY SMT, <2>1, <2>2 DEF iso_txc_init, TxClass
  <1>2. /\ txc \in Seq(TxClass) /\ tx_hash \subseteq DOMAIN txc
        /\ txc_list \in Seq(DOMAIN txc)
    BY DEF TxInv, TxType
  <1> HIDE DEF t
  <1>3. /\ txc' \in Seq(TxClass) /\ Len(txc') = n /\ Len(txc) \in Nat
        /\ DOMAIN txc = 1..Len(txc) /\ DOMAIN txc' = DOMAIN txc \cup {n}
        /\ txc'[n] = t /\ \A j \in DOMAIN txc : txc'[j] = txc[j]
    BY SMT, <1>1, <1>2, AppendSeq DEF t
  <1>4. n \notin DOMAIN txc
    BY SMT, <1>3
  <1> HIDE DEF n
  <1>5. txc_list \in Seq(DOMAIN txc') /\ n \in DOMAIN txc'
    <2>1. /\ DOMAIN txc_list = 1..Len(txc_list) /\ Len(txc_list) \in Nat
          /\ \A j \in 1..Len(txc_list) : txc_list[j] \in DOMAIN txc'
      BY SMT, <1>2, <1>3
    <2> QED
      BY SMT, <1>2, <1>3, <2>1
  <1>6. /\ txc_list' \in Seq(DOMAIN txc')
        /\ DOMAIN txc_list' = DOMAIN txc_list \cup {Len(txc_list) + 1}
        /\ txc_list'[Len(txc_list) + 1] = n
        /\ \A j \in DOMAIN txc_list : txc_list'[j] = txc_list[j]
    BY SMT, <1>5, AppendSeq DEF n
  <1>7. TxType'
    <2>1. Len(txc') <= MaxTxc
      BY SMT, <1>3, ConfigAssumption DEF ConfigAssumption, n
    <2> QED
      BY <1>2, <1>3, <1>6, <2>1 DEF TxType, n
  <1>8. InstalledOnce'
    <2>1. \A o \in tx_hash : txc[o].klass # k
      BY TxcFind
    <2>2. tx_hash' = tx_hash \cup {n}
      BY DEF n
    <2> QED
      BY SMT, <1>1, <1>2, <1>3, <1>4, <2>1, <2>2 DEF TxInv, InstalledOnce
  <1>9. \A o \in tx_hash' : \E i \in DOMAIN txc_list' : txc_list'[i] = o
    BY SMT, <1>6 DEF TxInv, n
  <1>10. \A o \in tx_hash' :
           ~txc'[o].freed /\ txc'[o].min_rate <= ISO_MAX_TX_RATE
    BY SMT, <1>1, <1>2, <1>3 DEF TxInv, n
  <1>11. /\ txc_total_weight' = Total(Weights', tx_hash')
         /\ txc_total_weight' > 0
    <2>1. /\ IsFiniteSet(tx_hash) /\ \A o \in tx_hash : Weights[o] \in Nat
          /\ Total(Weights, tx_hash) \in Nat
      BY TxFinite, Summands DEF TxInv
    <2>2. /\ \A o \in tx_hash : Weights'[o] = Weights[o]
          /\ Weights'[n] = 1
      BY <1>1, <1>2, <1>3 DEF Weights, n
    <2>3. Total(Weights', tx_hash \cup {n}) = Total(Weights', tx_hash) + 1
      <3> 1 \in Nat
        BY SMT
      <3>1. /\ \A o \in tx_hash : Weights'[o] \in Nat
            /\ n \notin tx_hash /\ Weights'[n] \in Nat
        BY <1>2, <1>4, <2>1, <2>2
      <3>2. Total(Weights', tx_hash \cup {n}) =
              Total(Weights', tx_hash) + Weights'[n]
        BY <2>1, <3>1, TotalAdd
      <3> QED
        BY <2>2, <3>2
    <2>4. Total(Weights', tx_hash) = Total(Weights, tx_hash)
      BY <2>2, TotalSame
    <2>5. txc_total_weight' = Total(Weights, tx_hash) + 1
      BY <1>1, <1>3 DEF TxInv, n
    <2> QED
      BY SMT, <2>1, <2>3, <2>4, <2>5 DEF n
  <1> QED
    BY <1>7, <1>8, <1>9, <1>10, <1>11 DEF TxInv

LEMMA TxDeleted ==
  ASSUME SumFacts, TxInv, NEW o \in tx_hash, tx_hash' = tx_hash \ {o},
         txc_total_weight' = txc_total_weight - txc[o].weight,
         UNCHANGED <<txc, txc_list>>, Pending', ~Creating, ~Creating'
  PROVE  TxInv'
  <1>1. /\ IsFiniteSet(tx_hash) /\ Total(Weights, tx_hash) \in Nat
        /\ \A x \in tx_hash : Weights[x] \in Nat /\ Guarantees[x] \in Nat
    BY TxFinite, Summands DEF TxInv
  <1>2. /\ \A x \in tx_hash' : /\ Weights'[x] = Weights[x]
                               /\ Guarantees'[x] = Guarantees[x]
        /\ Weights[o] = txc[o].weight
    BY DEF Weights, Guarantees
  <1>3. txc_total_weight' = Total(Weights', tx_hash')
    <2>1. Total(Weights', tx_hash') = Total(Weights, tx_hash')
      BY <1>2, TotalSame
    <2>2. Total(Weights, tx_hash \ {o}) = Total(Weights, tx_hash) - Weights[o]
      BY <1>1, TotalRemove
    <2> QED
      BY <1>2, <2>1, <2>2 DEF TxInv
  <1>4. Total(Guarantees', tx_hash') <= ISO_MAX_TX_RATE
    <2>1. Total(Guarantees', tx_hash') = Total(Guarantees, tx_hash')
      BY <1>2, TotalSame
    <2>2. Total(Guarantees, tx_hash \ {o}) <= Total(Guarantees, tx_hash)
      BY SMT, <1>1, TotalMonotone
    <2>3. /\ Total(Guarantees, tx_hash \ {o}) \in Nat
          /\ Total(Guarantees, tx_hash) \in Nat
      BY <1>1, TotalNat, CountRemove
    <2>4. Total(Guarantees, tx_hash) <= ISO_MAX_TX_RATE
      BY DEF TxInv
    <2>5. ISO_MAX_TX_RATE \in Nat
      BY ConfigAssumption DEF ConfigAssumption
    <2> QED
      BY SMT, <2>1, <2>2, <2>3, <2>4, <2>5
  <1>5. TxType' /\ InstalledOnce'
    BY DEF TxInv, TxType, InstalledOnce
  <1>6. /\ \A x \in tx_hash' : \E i \in DOMAIN txc_list' : txc_list'[i] = x
        /\ \A x \in tx_hash' :
             ~txc'[x].freed /\ txc'[x].min_rate <= ISO_MAX_TX_RATE
    BY DEF TxInv
  <1> QED
    BY <1>3, <1>4, <1>5, <1>6 DEF TxInv

(* The guarantee that iso_txc_recompute_rates gives a class, and the rate.  *)
LEMMA RecomputedType ==
  ASSUME NEW t \in TxClass, NEW total \in Nat \ {0}
  PROVE  LET u == Recomputed(t, total)
         IN  /\ u \in TxClass
             /\ u.klass = t.klass /\ u.freed = t.freed
             /\ u.weight = t.weight /\ u.vq = t.vq
             /\ u.min_rate = (t.weight * ISO_MAX_TX_RATE) \div total
             /\ u.min_rate <= ISO_MAX_TX_RATE => Contract(u)
  <1> DEFINE m == (t.weight * ISO_MAX_TX_RATE) \div total
             r == IF t.is_static THEN Min2(t.max_rate, m) ELSE m
             u == [t EXCEPT !.min_rate = m, !.rate = r, !.cut = FALSE]
  <1>1. m \in Nat
    <2> DEFINE p == t.weight * ISO_MAX_TX_RATE
    <2>1. p \in Nat
      BY SMT, ClassFields, ConfigAssumption DEF ConfigAssumption
    <2> HIDE DEF p
    <2>2. p \div total \in Nat
      BY SMT, <2>1
    <2> QED
      BY <2>2 DEF p
  <1>2. ISO_MAX_TX_RATE \in Nat /\ t.max_rate \in Nat
    BY ClassFields, ConfigAssumption DEF ConfigAssumption
  <1> HIDE DEF m
  <1>3. r \in Nat
    BY <1>1, <1>2 DEF Min2
  <1>4. ASSUME m <= ISO_MAX_TX_RATE
        PROVE  LET cap == IF t.is_static THEN t.max_rate ELSE ISO_MAX_TX_RATE
               IN  r \in Min2(m, cap)..cap
    BY SMT, <1>1, <1>2, <1>4 DEF Min2
  <1> HIDE DEF r
  <1>5. /\ u \in TxClass /\ u.klass = t.klass /\ u.freed = t.freed
        /\ u.weight = t.weight /\ u.vq = t.vq /\ u.min_rate = m
        /\ u.rate = r /\ u.is_static = t.is_static
        /\ u.max_rate = t.max_rate
    BY <1>1, <1>3 DEF TxClass
  <1>6. u = Recomputed(t, total)
    BY DEF Recomputed, m, r
  <1> HIDE DEF u
  <1>7. u.min_rate <= ISO_MAX_TX_RATE => Contract(u)
    BY <1>4, <1>5 DEF Contract
  <1> QED
    BY <1>5, <1>6, <1>7 DEF m

LEMMA OnceKept ==
  ASSUME InstalledOnce, tx_hash' = tx_hash,
         \A o \in tx_hash : txc'[o].klass = txc[o].klass
  PROVE  InstalledOnce'
  <1> SUFFICES ASSUME NEW o1 \in tx_hash, NEW o2 \in tx_hash,
                      txc'[o1].klass = txc'[o2].klass
               PROVE  o1 = o2
    BY DEF InstalledOnce
  <1>1. txc[o1].klass = txc[o2].klass
    OBVIOUS
  <1> QED
    BY <1>1 DEF InstalledOnce

LEMMA TxRecomputed ==
  ASSUME SumFacts, TxInv, txc_total_weight # 0,
         txc' = [o \in DOMAIN txc |->
                   IF \E i \in DOMAIN txc_list : txc_list[i] = o
                     THEN Recomputed(txc[o], txc_total_weight) ELSE txc[o]],
         UNCHANGED <<tx_hash, txc_list, txc_total_weight>>,
         ~Pending', ~Creating'
  PROVE  TxInv'
  <1> DEFINE T == txc_total_weight
  <1>1. T \in Nat \ {0} /\ T = Total(Weights, tx_hash)
    BY Summands DEF TxInv
  <1>2. /\ txc \in Seq(TxClass) /\ tx_hash \subseteq DOMAIN txc
        /\ \A o \in DOMAIN txc : txc[o] \in TxClass
        /\ IsFiniteSet(tx_hash) /\ \A o \in tx_hash : Weights[o] \in Nat
    BY TxDomain, TxFinite, Summands DEF TxInv, TxType
  <1>3. \A o \in DOMAIN txc : txc'[o] \in TxClass
    BY <1>1, <1>2, RecomputedType
  <1>4. /\ txc' \in Seq(TxClass) /\ Len(txc') = Len(txc)
        /\ DOMAIN txc' = DOMAIN txc
    BY SMT, <1>2, <1>3, MapSeq
  <1>5. \A o \in tx_hash : txc'[o] = Recomputed(txc[o], T)
    BY <1>2 DEF TxInv
  <1>6. ASSUME NEW o \in tx_hash
        PROVE  /\ txc'[o].klass = txc[o].klass /\ txc'[o].freed = txc[o].freed
               /\ txc'[o].weight = txc[o].weight
               /\ txc'[o].min_rate = (txc[o].weight * ISO_MAX_TX_RATE) \div T
               /\ txc'[o].min_rate <= ISO_MAX_TX_RATE => Contract(txc'[o])
    <2>1. txc[o] \in TxClass /\ txc'[o] = Recomputed(txc[o], T)
      BY <1>2, <1>5
    <2> QED
      BY SMT, <1>1, <2>1, RecomputedType
  <1>7. Weights' = Weights
    BY SMT, <1>6 DEF Weights
  <1>8. /\ Total(Guarantees', tx_hash) <= ISO_MAX_TX_RATE
        /\ \A o \in tx_hash : Guarantees'[o] \in Nat
    <2>1. \A o \in tx_hash :
            Guarantees'[o] = (Weights[o] * ISO_MAX_TX_RATE) \div T
      BY <1>6 DEF Weights, Guarantees
    <2>2. ISO_MAX_TX_RATE \in Nat
      BY ConfigAssumption DEF ConfigAssumption
    <2>3. Total(Weights, tx_hash) > 0
      BY SMT, <1>1
    <2> QED
      BY <1>1, <1>2, <2>1, <2>2, <2>3, SharesFit
  <1>9. \A o \in tx_hash : txc'[o].min_rate <= ISO_MAX_TX_RATE
    <2> SUFFICES ASSUME NEW o \in tx_hash
                 PROVE  txc'[o].min_rate <= ISO_MAX_TX_RATE
      OBVIOUS
    <2>1. /\ Guarantees'[o] <= Total(Guarantees', tx_hash)
          /\ Total(Guarantees', tx_hash) \in Nat
      BY <1>2, <1>8, TotalRemove, TotalNat
    <2>2. Guarantees'[o] = txc'[o].min_rate
      BY DEF Guarantees
    <2>3. ISO_MAX_TX_RATE \in Nat /\ Guarantees'[o] \in Nat
      BY <1>8, ConfigAssumption DEF ConfigAssumption
    <2> QED
      BY <1>8, <2>1, <2>2, <2>3, LeqMiddle, ConfigAssumption
  <1>10. TxType' /\ InstalledOnce'
    <2>1. TxType'
      BY <1>4 DEF TxInv, TxType
    <2>2. \A o \in tx_hash : txc'[o].klass = txc[o].klass
      BY <1>6
    <2>3. InstalledOnce'
      BY <2>2, OnceKept DEF TxInv
    <2> QED
      BY <2>1, <2>3
  <1>11. \A o \in tx_hash' : \E i \in DOMAIN txc_list' : txc_list'[i] = o
    BY DEF TxInv
  <1>12. \A o \in tx_hash' :
           ~txc'[o].freed /\ txc'[o].min_rate <= ISO_MAX_TX_RATE
    BY <1>6, <1>9 DEF TxInv
  <1>13. \A o \in tx_hash' : Contract(txc'[o])
    BY <1>6, <1>9
  <1>14. txc_total_weight' = Total(Weights', tx_hash')
    BY <1>1, <1>7
  <1> QED
    BY <1>8, <1>10, <1>11, <1>12, <1>13, <1>14 DEF TxInv

LEMMA TxNotRecomputed ==
  ASSUME TxInv, txc_total_weight = 0, UNCHANGED txVars,
         ~Pending', ~Creating'
  PROVE  TxInv'
  <1>1. UNCHANGED <<txc, tx_hash, txc_list, txc_total_weight>>
    BY DEF txVars
  <1>2. ~Creating
    BY SMT DEF TxInv
  <1>3. TxType' /\ InstalledOnce'
    BY SMT, <1>1 DEF TxInv, TxType, InstalledOnce
  <1>4. Weights' = Weights /\ Guarantees' = Guarantees
    BY <1>1 DEF Weights, Guarantees
  <1>5. \A o \in tx_hash' : \E i \in DOMAIN txc_list' : txc_list'[i] = o
    BY <1>1 DEF TxInv
  <1>6. ~(txc_total_weight' > 0)
    BY SMT, <1>1
  <1> QED
    BY <1>1, <1>2, <1>3, <1>4, <1>5, <1>6 DEF TxInv

LEMMA TickRateKeepsContract ==
  ASSUME NEW t \in TxClass, NEW r, r = TickRate(t), ctx_rate \in Nat,
         t.min_rate <= ISO_MAX_TX_RATE
  PROVE  LET cap == IF t.is_static THEN t.max_rate ELSE ISO_MAX_TX_RATE
         IN  r \in Min2(t.min_rate, cap)..cap
  <1> DEFINE x == ctx_rate * t.weight
  <1>1. /\ x \in Nat /\ ISO_MAX_TX_RATE \in Nat /\ t.min_rate \in Nat
        /\ t.max_rate \in Nat
    BY SMT, ClassFields, ConfigAssumption DEF ConfigAssumption
  <1> HIDE DEF x
  <1>2. r = LET share == Max2(t.min_rate, Min2(ISO_MAX_TX_RATE, x))
            IN  IF t.is_static THEN Min2(t.max_rate, share) ELSE share
    BY DEF TickRate, x
  <1> QED
    BY SMT, <1>1, <1>2 DEF Min2, Max2

LEMMA TickRateType ==
  ASSUME NEW t \in TxClass, ctx_rate \in Nat
  PROVE  TickRate(t) \in Nat
  <1> DEFINE x == ctx_rate * t.weight
  <1>1. /\ x \in Nat /\ ISO_MAX_TX_RATE \in Nat /\ t.min_rate \in Nat
        /\ t.max_rate \in Nat
    BY SMT, ClassFields, ConfigAssumption DEF ConfigAssumption
  <1> HIDE DEF x
  <1>2. TickRate(t) = LET share == Max2(t.min_rate, Min2(ISO_MAX_TX_RATE, x))
                      IN  IF t.is_static THEN Min2(t.max_rate, share)
                                         ELSE share
    BY DEF TickRate, x
  <1> QED
    BY <1>1, <1>2 DEF Min2, Max2

LEMMA RateFields ==
  ASSUME NEW f, NEW o \in DOMAIN f, NEW r, NEW b
  PROVE  [f EXCEPT ![o].rate = r, ![o].cut = b] =
           [f EXCEPT ![o] = [f[o] EXCEPT !.rate = r, !.cut = b]]
  <1> DEFINE u == [f EXCEPT ![o].rate = r]
             g == [u EXCEPT ![o].cut = b]
             h == [f EXCEPT ![o] = [f[o] EXCEPT !.rate = r, !.cut = b]]
  <1>1. /\ DOMAIN u = DOMAIN f /\ u[o] = [f[o] EXCEPT !.rate = r]
        /\ \A j \in DOMAIN f \ {o} : u[j] = f[j]
    OBVIOUS
  <1>2. /\ DOMAIN h = DOMAIN f /\ h = [j \in DOMAIN f |-> h[j]]
        /\ h[o] = [f[o] EXCEPT !.rate = r, !.cut = b]
        /\ \A j \in DOMAIN f \ {o} : h[j] = f[j]
    OBVIOUS
  <1> HIDE DEF u, h
  <1>3. /\ DOMAIN g = DOMAIN f /\ g = [j \in DOMAIN f |-> g[j]]
        /\ g[o] = [u[o] EXCEPT !.cut = b]
        /\ \A j \in DOMAIN f \ {o} : g[j] = u[j]
    BY <1>1
  <1> HIDE DEF g
  <1>4. g[o] = h[o]
    BY <1>1, <1>2, <1>3
  <1>5. \A j \in DOMAIN f : g[j] = h[j]
    BY <1>1, <1>2, <1>3, <1>4
  <1>6. g = h
    BY <1>2, <1>3, <1>5
  <1> QED
    BY <1>6 DEF g, h, u

(* A step of the tick or of the clock: a class gets a rate.                 *)
RatedStep(o, r, b) ==
  /\ txc' = [txc EXCEPT ![o].rate = r, ![o].cut = b]
  /\ UNCHANGED <<tx_hash, txc_list, txc_total_weight>>

LEMMA RatedClasses ==
  ASSUME TxType, NEW o \in DOMAIN txc, NEW r \in Nat, NEW b \in BOOLEAN,
         RatedStep(o, r, b)
  PROVE  /\ txc' \in Seq(TxClass) /\ Len(txc') = Len(txc)
         /\ DOMAIN txc' = DOMAIN txc
         /\ txc'[o].rate = r /\ txc'[o].cut = b
         /\ \A x \in DOMAIN txc :
              /\ txc'[x].klass = txc[x].klass /\ txc'[x].vq = txc[x].vq
              /\ txc'[x].freed = txc[x].freed
              /\ txc'[x].weight = txc[x].weight
              /\ txc'[x].min_rate = txc[x].min_rate
              /\ txc'[x].is_static = txc[x].is_static
              /\ txc'[x].max_rate = txc[x].max_rate
         /\ \A x \in DOMAIN txc \ {o} : txc'[x] = txc[x]
  <1> DEFINE t == [txc[o] EXCEPT !.rate = r, !.cut = b]
  <1>1. txc \in Seq(TxClass) /\ txc[o] \in TxClass
    BY TxDomain DEF TxType
  <1>2. txc' = [txc EXCEPT ![o] = t]
    BY RateFields DEF RatedStep
  <1>3. /\ t \in TxClass /\ t.rate = r /\ t.cut = b
        /\ t.klass = txc[o].klass /\ t.vq = txc[o].vq
        /\ t.freed = txc[o].freed /\ t.weight = txc[o].weight
        /\ t.min_rate = txc[o].min_rate /\ t.is_static = txc[o].is_static
        /\ t.max_rate = txc[o].max_rate
    BY <1>1 DEF TxClass
  <1> HIDE DEF t
  <1>4. /\ txc' \in Seq(TxClass) /\ Len(txc') = Len(txc) /\ txc'[o] = t
        /\ \A x \in DOMAIN txc \ {o} : txc'[x] = txc[x]
    BY SMT, <1>1, <1>2, <1>3, UpdateSeq
  <1>5. DOMAIN txc' = DOMAIN txc
    BY <1>2
  <1> QED
    BY <1>3, <1>4, <1>5

LEMMA TxRated ==
  ASSUME TxInv, NEW o \in DOMAIN txc, NEW r \in Nat, NEW b \in BOOLEAN,
         RatedStep(o, r, b),
         o \in tx_hash /\ ~b =>
           LET cap == IF txc[o].is_static THEN txc[o].max_rate
                                          ELSE ISO_MAX_TX_RATE
           IN  r \in Min2(txc[o].min_rate, cap)..cap,
         Pending' <=> Pending, Creating' <=> Creating
  PROVE  TxInv'
  <1>1. tx_hash \subseteq DOMAIN txc /\ TxType
    BY DEF TxInv, TxType
  <1>2. UNCHANGED <<tx_hash, txc_list, txc_total_weight>>
    BY DEF RatedStep
  <1>3. /\ txc' \in Seq(TxClass) /\ Len(txc') = Len(txc)
        /\ txc'[o].rate = r /\ txc'[o].cut = b
        /\ \A x \in tx_hash :
             /\ txc'[x].klass = txc[x].klass /\ txc'[x].freed = txc[x].freed
             /\ txc'[x].weight = txc[x].weight
             /\ txc'[x].min_rate = txc[x].min_rate
             /\ txc'[x].is_static = txc[x].is_static
             /\ txc'[x].max_rate = txc[x].max_rate
        /\ \A x \in tx_hash \ {o} : txc'[x] = txc[x]
    BY <1>1, RatedClasses
  <1>4. o \in tx_hash => Contract(txc'[o])
    BY <1>3 DEF Contract
  <1>5. /\ TxType' /\ InstalledOnce'
        /\ \A x \in tx_hash' : \E i \in DOMAIN txc_list' : txc_list'[i] = x
        /\ \A x \in tx_hash' :
             ~txc'[x].freed /\ txc'[x].min_rate <= ISO_MAX_TX_RATE
        /\ Total(Guarantees', tx_hash') = Total(Guarantees, tx_hash)
    BY <1>2, <1>3, TxKept
  <1>6. Weights' = Weights
    BY <1>2, <1>3 DEF Weights
  <1>7. ASSUME NEW x \in tx_hash, Contract(txc[x]) PROVE Contract(txc'[x])
    BY <1>3, <1>4, <1>7
  <1> QED
    BY <1>2, <1>5, <1>6, <1>7 DEF TxInv

-----------------------------------------------------------------------------
(* The virtual queues.                                                      *)

LEMMA QueueFields ==
  ASSUME NEW q \in VirtQueue
  PROVE  q.weight \in Nat /\ q.rate \in Nat /\ q.refcnt \in Int
  BY SMT, ConfigAssumption DEF ConfigAssumption, VirtQueue

LEMMA QueueIndex ==
  ASSUME VqInv, NEW v \in DOMAIN vq
  PROVE  v \in 0..Len(vq) /\ v \in Nat /\ vq[v].refcnt \in Int
  <1>1. /\ Len(vq) \in Nat /\ DOMAIN vq = 1..Len(vq)
        /\ vq[v] \in VirtQueue
    BY VqDomain DEF VqInv
  <1>2. vq[v].refcnt \in Int
    BY <1>1, QueueFields
  <1>3. v \in 0..Len(vq) /\ v \in Nat
    BY SMT, <1>1
  <1> QED
    BY <1>2, <1>3

LEMMA VqQuiet ==
  ASSUME VqInv, UNCHANGED vqVars
  PROVE  VqInv'
  <1>1. UNCHANGED <<vq, vq_hash, vq_list>>
    BY DEF vqVars
  <1>2. DynamicRates' = DynamicRates
    BY <1>1 DEF DynamicRates
  <1> QED
    BY <1>1, <1>2 DEF VqInv, VqType

(* iso_vq_calculate_rates changes rates only, and if some queue of the list *)
(* has a weight its dynamic shares fit the drain rate.                      *)
LEMMA CalculatedRates ==
  ASSUME SumFacts, NEW q \in Seq(VirtQueue), NEW l \in SUBSET DOMAIN q,
         NEW r, r = iso_vq_calculate_rates(q, l)
  PROVE  /\ r \in Seq(VirtQueue) /\ Len(r) = Len(q) /\ DOMAIN r = DOMAIN q
         /\ \A v \in DOMAIN q :
              /\ r[v].klass = q[v].klass /\ r[v].weight = q[v].weight
              /\ r[v].is_static = q[v].is_static
              /\ r[v].refcnt = q[v].refcnt /\ r[v].freed = q[v].freed
         /\ (\E v \in l : r[v].weight > 0) =>
              Total([v \in l |-> IF r[v].is_static THEN 0 ELSE r[v].rate], l)
                <= ISO_VQ_DRAIN_RATE_MBPS
  <1> DEFINE R == ISO_VQ_DRAIN_RATE_MBPS
             w == [v \in l |-> q[v].weight]
             T == Total(w, l)
             g == [v \in l |-> (w[v] * R) \div T]
             d == [v \in l |-> IF r[v].is_static THEN 0 ELSE r[v].rate]
  <1>1. /\ Len(q) \in Nat /\ DOMAIN q = 1..Len(q) /\ R \in Nat
        /\ \A v \in DOMAIN q : q[v] \in VirtQueue
    BY SMT, ConfigAssumption DEF ConfigAssumption
  <1>2. IsFiniteSet(l)
    <2>1. IsFiniteSet(1..Len(q))
      BY SMT, <1>1, FiniteInterval
    <2> QED
      BY <1>1, <2>1, FiniteSubset
  <1>3. \A v \in l : w[v] \in Nat
    BY <1>1, QueueFields
  <1>4. T \in Nat
    BY <1>2, <1>3, TotalNat
  <1>5. CASE T = 0
    <2>1. r = q
      BY <1>5 DEF iso_vq_calculate_rates
    <2>2. \A v \in l : w[v] <= T
      BY <1>2, <1>3, TotalRemove
    <2>3. \A v \in l : ~(r[v].weight > 0)
      BY SMT, <1>3, <1>5, <2>1, <2>2
    <2> QED
      BY <2>1, <2>3
  <1>6. CASE T # 0
    <2> HIDE DEF T
    <2>1. r = [v \in DOMAIN q |->
                 IF v \in l /\ ~q[v].is_static
                   THEN [q[v] EXCEPT !.rate = (R * q[v].weight) \div T]
                   ELSE q[v]]
      BY <1>6 DEF iso_vq_calculate_rates, T
    <2>2. \A v \in l : (R * q[v].weight) \div T = g[v]
      <3> SUFFICES ASSUME NEW v \in l
                   PROVE  (R * q[v].weight) \div T = g[v]
        OBVIOUS
      <3>1. w[v] = q[v].weight /\ R * w[v] = w[v] * R
        BY SMT, <1>1, <1>3
      <3> QED
        BY <3>1
    <2>3. Total(w, l) > 0
      BY SMT, <1>4, <1>6 DEF T
    <2>4. Total(g, l) <= R /\ \A v \in l : g[v] \in Nat
      <3>1. \A v \in l : g[v] = (w[v] * R) \div Total(w, l)
        BY DEF T
      <3> HIDE DEF g, w
      <3> QED
        BY <1>1, <1>2, <1>3, <2>3, <3>1, SharesFit
    <2> HIDE DEF g
    <2>5. ASSUME NEW v \in DOMAIN q
          PROVE  /\ r[v] \in VirtQueue
                 /\ r[v].klass = q[v].klass /\ r[v].weight = q[v].weight
                 /\ r[v].is_static = q[v].is_static
                 /\ r[v].refcnt = q[v].refcnt /\ r[v].freed = q[v].freed
                 /\ v \in l /\ ~r[v].is_static => r[v].rate = g[v]
      <3>1. q[v] \in VirtQueue
        BY <1>1
      <3>2. CASE v \in l /\ ~q[v].is_static
        <4>1. r[v] = [q[v] EXCEPT !.rate = g[v]] /\ g[v] \in Nat
          BY <2>1, <2>2, <2>4, <3>2
        <4> QED
          BY <3>1, <4>1 DEF VirtQueue
      <3>3. CASE ~(v \in l /\ ~q[v].is_static)
        <4>1. r[v] = q[v]
          BY <2>1, <3>3
        <4> QED
          BY <3>1, <3>3, <4>1
      <3> QED
        BY <3>2, <3>3
    <2>6. DOMAIN r = DOMAIN q /\ r = [v \in DOMAIN r |-> r[v]]
      BY <2>1
    <2>7. r \in Seq(VirtQueue) /\ Len(r) = Len(q)
      BY SMT, <2>5, <2>6, MapSeq
    <2>8. \A v \in l : d[v] \in Nat /\ d[v] <= g[v]
      BY SMT, <2>4, <2>5
    <2> HIDE DEF d
    <2>9. Total(d, l) <= Total(g, l)
      BY <1>2, <2>4, <2>8, TotalMonotone
    <2>10. Total(d, l) \in Nat /\ Total(g, l) \in Nat
      BY <1>2, <2>4, <2>8, TotalNat
    <2>11. Total(d, l) <= R
      BY SMT, <1>1, <2>4, <2>9, <2>10
    <2> QED
      BY <2>5, <2>6, <2>7, <2>11 DEF d
  <1> QED
    BY <1>5, <1>6

LEMMA VqCalculated ==
  ASSUME SumFacts, NEW q \in Seq(VirtQueue), Len(q) <= MaxVq,
         \A v1, v2 \in DOMAIN q : q[v1].klass = q[v2].klass => v1 = v2,
         vq_hash' = DOMAIN q, vq_list' \subseteq DOMAIN q,
         vq' = iso_vq_calculate_rates(q, vq_list')
  PROVE  /\ VqInv' /\ Len(vq') = Len(q) /\ DOMAIN vq' = DOMAIN q
         /\ \A v \in DOMAIN q : /\ vq'[v].refcnt = q[v].refcnt
                                /\ vq'[v].freed = q[v].freed
  <1>1. /\ vq' \in Seq(VirtQueue) /\ Len(vq') = Len(q)
        /\ DOMAIN vq' = DOMAIN q
        /\ \A v \in DOMAIN q :
             /\ vq'[v].klass = q[v].klass
             /\ vq'[v].refcnt = q[v].refcnt /\ vq'[v].freed = q[v].freed
        /\ (\E v \in vq_list' : vq'[v].weight > 0) =>
             Total([v \in vq_list' |->
                      IF vq'[v].is_static THEN 0 ELSE vq'[v].rate], vq_list')
               <= ISO_VQ_DRAIN_RATE_MBPS
    BY SMT, CalculatedRates
  <1>2. DynamicRates' =
          [v \in vq_list' |-> IF vq'[v].is_static THEN 0 ELSE vq'[v].rate]
    BY DEF DynamicRates
  <1>3. VqType'
    BY <1>1 DEF VqType
  <1> QED
    BY SMT, <1>1, <1>2, <1>3 DEF VqInv

LEMMA VqCreated ==
  ASSUME SumFacts, VqInv, NEW k \in Klass, iso_vq_find(k) = 0, Len(vq) < MaxVq,
         vq_hash' = vq_hash \cup {Len(vq) + 1},
         vq_list' = vq_list \cup {Len(vq) + 1},
         vq' = iso_vq_calculate_rates(Append(vq, iso_vq_init(k)), vq_list')
  PROVE  /\ VqInv' /\ Len(vq') = Len(vq) + 1
         /\ vq'[Len(vq) + 1].refcnt = 0
         /\ \A v \in DOMAIN vq : /\ vq'[v].refcnt = vq[v].refcnt
                                 /\ vq'[v].freed = vq[v].freed
  <1> DEFINE n == Len(vq) + 1
             u == iso_vq_init(k)
             q == Append(vq, u)
  <1>1. u \in VirtQueue /\ u.klass = k /\ u.refcnt = 0
    <2>1. 1 \in 0..MaxWeight /\ ISO_MIN_RFAIR \in Nat
      BY SMT, ConfigAssumption DEF ConfigAssumption
    <2> QED
      BY SMT, <2>1 DEF iso_vq_init, VirtQueue
  <1>2. vq \in Seq(VirtQueue) /\ vq_hash = DOMAIN vq /\ vq_list \subseteq DOMAIN vq
    BY DEF VqInv, VqType
  <1> HIDE DEF u
  <1>3. /\ q \in Seq(VirtQueue) /\ Len(q) = n /\ Len(vq) \in Nat
        /\ DOMAIN vq = 1..Len(vq) /\ DOMAIN q = DOMAIN vq \cup {n}
        /\ q[n] = u /\ \A j \in DOMAIN vq : q[j] = vq[j]
    BY SMT, <1>1, <1>2, AppendSeq
  <1>4. n \notin DOMAIN vq /\ Len(q) <= MaxVq
    BY SMT, <1>3, ConfigAssumption DEF ConfigAssumption
  <1>5. vq' = iso_vq_calculate_rates(q, vq_list')
    BY DEF u
  <1> HIDE DEF q
  <1>6. \A v1, v2 \in DOMAIN q : q[v1].klass = q[v2].klass => v1 = v2
    <2>1. \A v \in DOMAIN vq : vq[v].klass # k
      BY VqFind
    <2> QED
      BY <1>1, <1>3, <1>4, <2>1 DEF VqInv
  <1>7. vq_hash' = DOMAIN q /\ vq_list' \subseteq DOMAIN q
    BY <1>2, <1>3
  <1>8. /\ VqInv' /\ Len(vq') = Len(q)
        /\ \A v \in DOMAIN q : /\ vq'[v].refcnt = q[v].refcnt
                               /\ vq'[v].freed = q[v].freed
    BY <1>3, <1>4, <1>5, <1>6, <1>7, VqCalculated
  <1> QED
    BY <1>1, <1>3, <1>8

(* A new weight, or the rate made dynamic again, and the recalculation.     *)
LEMMA VqRecalculated ==
  ASSUME SumFacts, VqInv, NEW v \in DOMAIN vq, NEW u \in VirtQueue,
         u.klass = vq[v].klass, u.refcnt = vq[v].refcnt,
         u.freed = vq[v].freed, UNCHANGED <<vq_hash, vq_list>>,
         vq' = iso_vq_calculate_rates([vq EXCEPT ![v] = u], vq_list)
  PROVE  /\ VqInv' /\ Len(vq') = Len(vq)
         /\ \A x \in DOMAIN vq : /\ vq'[x].refcnt = vq[x].refcnt
                                 /\ vq'[x].freed = vq[x].freed
  <1> DEFINE q == [vq EXCEPT ![v] = u]
  <1>1. /\ vq \in Seq(VirtQueue) /\ vq_hash = DOMAIN vq
        /\ vq_list \subseteq DOMAIN vq /\ Len(vq) <= MaxVq
    BY DEF VqInv, VqType
  <1>2. /\ q \in Seq(VirtQueue) /\ Len(q) = Len(vq) /\ DOMAIN q = DOMAIN vq
        /\ q[v] = u /\ \A j \in DOMAIN vq \ {v} : q[j] = vq[j]
    BY <1>1, UpdateSeq
  <1>3. vq' = iso_vq_calculate_rates(q, vq_list')
    OBVIOUS
  <1> HIDE DEF q
  <1>4. \A v1, v2 \in DOMAIN q : q[v1].klass = q[v2].klass => v1 = v2
    BY SMT, <1>2 DEF VqInv
  <1>5. vq_hash' = DOMAIN q /\ vq_list' \subseteq DOMAIN q /\ Len(q) <= MaxVq
    BY <1>1, <1>2
  <1>6. /\ VqInv' /\ Len(vq') = Len(q)
        /\ \A x \in DOMAIN q : /\ vq'[x].refcnt = q[x].refcnt
                               /\ vq'[x].freed = q[x].freed
    BY <1>2, <1>3, <1>4, <1>5, VqCalculated
  <1>7. \A x \in DOMAIN vq : /\ q[x].refcnt = vq[x].refcnt
                             /\ q[x].freed = vq[x].freed
    BY <1>2
  <1> QED
    BY <1>2, <1>6, <1>7

LEMMA VqAllRecalculated ==
  ASSUME SumFacts, VqInv, UNCHANGED <<vq_hash, vq_list>>,
         vq' = iso_vq_calculate_rates(vq, vq_list)
  PROVE  /\ VqInv' /\ Len(vq') = Len(vq)
         /\ \A x \in DOMAIN vq : /\ vq'[x].refcnt = vq[x].refcnt
                                 /\ vq'[x].freed = vq[x].freed
  <1>1. /\ vq \in Seq(VirtQueue) /\ vq_hash' = DOMAIN vq
        /\ vq_list' \subseteq DOMAIN vq /\ Len(vq) <= MaxVq
        /\ \A v1, v2 \in DOMAIN vq : vq[v1].klass = vq[v2].klass => v1 = v2
    BY DEF VqInv, VqType
  <1>2. vq' = iso_vq_calculate_rates(vq, vq_list')
    OBVIOUS
  <1> QED
    BY <1>1, <1>2, VqCalculated

(* One queue changes and loses no more than its share; queues may be        *)
(* unlinked.                                                                *)
LEMMA VqShrunk ==
  ASSUME SumFacts, VqInv, NEW v \in DOMAIN vq, NEW u \in VirtQueue,
         u.klass = vq[v].klass, u.weight = vq[v].weight,
         u.is_static \/ (~vq[v].is_static /\ u.rate = vq[v].rate),
         vq' = [vq EXCEPT ![v] = u], vq_hash' = vq_hash,
         vq_list' \subseteq vq_list
  PROVE  /\ VqInv' /\ Len(vq') = Len(vq) /\ vq'[v] = u
         /\ \A j \in DOMAIN vq \ {v} : vq'[j] = vq[j]
  <1>1. /\ vq \in Seq(VirtQueue) /\ vq_hash = DOMAIN vq
        /\ vq_list \subseteq DOMAIN vq /\ Len(vq) <= MaxVq
    BY DEF VqInv, VqType
  <1>2. /\ vq' \in Seq(VirtQueue) /\ Len(vq') = Len(vq)
        /\ DOMAIN vq' = DOMAIN vq
        /\ vq'[v] = u /\ \A j \in DOMAIN vq \ {v} : vq'[j] = vq[j]
    BY SMT, <1>1, UpdateSeq
  <1>3. VqType'
    BY <1>1, <1>2 DEF VqType
  <1>4. \A v1, v2 \in DOMAIN vq' : vq'[v1].klass = vq'[v2].klass => v1 = v2
    BY SMT, <1>2 DEF VqInv
  <1>5. ASSUME NEW x \in vq_list', vq'[x].weight > 0
        PROVE  Total(DynamicRates', vq_list') <= ISO_VQ_DRAIN_RATE_MBPS
    <2>1. x \in vq_list /\ vq[x].weight > 0
      BY <1>1, <1>2, <1>5
    <2>2. Total(DynamicRates, vq_list) <= ISO_VQ_DRAIN_RATE_MBPS
      BY <2>1 DEF VqInv
    <2>3. IsFiniteSet(vq_list) /\ \A j \in DOMAIN vq : vq[j] \in VirtQueue
      BY VqDomain, VqFinite DEF VqInv
    <2>4. /\ \A j \in DOMAIN vq : vq[j].rate \in Nat
          /\ u.rate \in Nat /\ ISO_VQ_DRAIN_RATE_MBPS \in Nat
      BY <2>3, QueueFields, ConfigAssumption DEF ConfigAssumption
    <2>5. \A j \in vq_list : DynamicRates[j] \in Nat
      BY <1>1, <2>4 DEF DynamicRates
    <2>6. \A j \in vq_list' : /\ DynamicRates'[j] \in Nat
                              /\ DynamicRates'[j] <= DynamicRates[j]
      BY SMT, <1>1, <1>2, <2>4 DEF DynamicRates
    <2>7. Total(DynamicRates', vq_list') <= Total(DynamicRates, vq_list)
      BY <2>3, <2>5, <2>6, TotalMonotone
    <2>8. IsFiniteSet(vq_list')
      BY <2>3, FiniteSubset
    <2>9. /\ Total(DynamicRates', vq_list') \in Nat
          /\ Total(DynamicRates, vq_list) \in Nat
      BY <2>3, <2>5, <2>6, <2>8, TotalNat
    <2> QED
      BY SMT, <2>2, <2>4, <2>7, <2>9
  <1> QED
    BY <1>2, <1>3, <1>4, <1>5 DEF VqInv

-----------------------------------------------------------------------------
(* The references of classes to queues.                                     *)

LEMMA RefKept ==
  ASSUME RefInv, DOMAIN txc' = DOMAIN txc, Len(vq') = Len(vq),
         DOMAIN vq' = DOMAIN vq,
         \A o \in DOMAIN txc : txc'[o].vq = txc[o].vq
                                 /\ txc'[o].freed = txc[o].freed,
         \A v \in DOMAIN vq : vq'[v].refcnt = vq[v].refcnt
  PROVE  RefInv'
  <1>1. \A v : Referrers(v)' = Referrers(v)
    BY DEF Referrers, Classes
  <1>2. \A v \in DOMAIN vq' : Cardinality(Referrers(v))' = Cardinality(Referrers(v))
    BY <1>1
  <1> QED
    BY <1>1, <1>2 DEF RefInv

LEMMA RefCreatedTxc ==
  ASSUME RefInv, VqType, NEW n, n \notin DOMAIN txc, UNCHANGED vq,
         DOMAIN txc' = DOMAIN txc \cup {n}, txc'[n].vq = 0,
         \A o \in DOMAIN txc : txc'[o] = txc[o]
  PROVE  RefInv'
  <1>1. 0 \notin DOMAIN vq /\ 0 \in 0..Len(vq)
    BY SMT, VqDomain
  <1>2. \A v \in DOMAIN vq : Referrers(v)' = Referrers(v)
    BY <1>1 DEF Referrers, Classes
  <1>3. \A v \in DOMAIN vq : Cardinality(Referrers(v))' = Cardinality(Referrers(v))
    BY <1>2
  <1> QED
    BY <1>1, <1>2, <1>3 DEF RefInv

LEMMA RefCreatedVq ==
  ASSUME SumFacts,
         RefInv, VqType, VqType', UNCHANGED txc, Len(vq') = Len(vq) + 1,
         vq'[Len(vq) + 1].refcnt = 0,
         \A v \in DOMAIN vq : vq'[v].refcnt = vq[v].refcnt
  PROVE  RefInv'
  <1> DEFINE n == Len(vq) + 1
  <1>1. /\ Len(vq) \in Nat /\ DOMAIN vq = 1..Len(vq)
        /\ DOMAIN vq' = 1..n
    BY SMT, VqDomain DEF VqType
  <1>2. \A v : Referrers(v)' = Referrers(v)
    BY DEF Referrers, Classes
  <1>3. Referrers(n) = {}
    BY SMT, <1>1 DEF RefInv, Referrers, Classes
  <1>4. Cardinality(Referrers(n)) = 0
    BY <1>3, CountOfNone
  <1>5. \A o \in DOMAIN txc' : txc'[o].vq \in 0..Len(vq')
    BY SMT, <1>1 DEF RefInv
  <1>6. ASSUME NEW v \in DOMAIN vq'
        PROVE  vq'[v].refcnt = Cardinality(Referrers(v)')
    <2>1. CASE v = n
      BY <1>2, <1>4, <2>1
    <2>2. CASE v # n
      <3>1. v \in DOMAIN vq
        BY SMT, <1>1, <2>2
      <3> QED
        BY <1>2, <3>1 DEF RefInv
    <2> QED
      BY <2>1, <2>2
  <1> QED
    BY <1>5, <1>6 DEF RefInv

LEMMA ReferrersFinite ==
  ASSUME SumFacts, TxType, NEW v
  PROVE  IsFiniteSet(Referrers(v)) /\ Cardinality(Referrers(v)) \in Nat
  <1>1. IsFiniteSet(DOMAIN txc) /\ Referrers(v) \subseteq DOMAIN txc
    BY TxFinite DEF Referrers, Classes
  <1>2. IsFiniteSet(Referrers(v))
    BY <1>1, FiniteSubset
  <1> QED
    BY <1>2, CountNat

(* q after the reference count of queue v is set to n, and what that means. *)
WithRefcnt(q, v, n) == [q EXCEPT ![v].refcnt = n]
OnlyRefcnt(r, q, v, n) ==
  /\ r \in Seq(VirtQueue) /\ Len(r) = Len(q) /\ DOMAIN r = DOMAIN q
  /\ \A x \in DOMAIN q :
       /\ r[x].klass = q[x].klass /\ r[x].weight = q[x].weight
       /\ r[x].is_static = q[x].is_static /\ r[x].rate = q[x].rate
       /\ r[x].freed = q[x].freed
       /\ r[x].refcnt = IF x = v THEN n ELSE q[x].refcnt

LEMMA RefcntSet ==
  ASSUME NEW q \in Seq(VirtQueue), NEW v \in DOMAIN q, NEW n \in Int,
         NEW r, r = WithRefcnt(q, v, n)
  PROVE  OnlyRefcnt(r, q, v, n)
  <1> DEFINE u == [q[v] EXCEPT !.refcnt = n]
  <1>1. q[v] \in VirtQueue
    BY SMT
  <1>2. /\ u \in VirtQueue /\ u.klass = q[v].klass /\ u.weight = q[v].weight
        /\ u.is_static = q[v].is_static /\ u.rate = q[v].rate
        /\ u.freed = q[v].freed /\ u.refcnt = n
    BY <1>1 DEF VirtQueue
  <1>3. r = [q EXCEPT ![v] = u]
    BY DEF WithRefcnt
  <1> HIDE DEF u
  <1>4. /\ r \in Seq(VirtQueue) /\ Len(r) = Len(q) /\ DOMAIN r = DOMAIN q
        /\ r[v] = u /\ \A j \in DOMAIN q \ {v} : r[j] = q[j]
    BY SMT, <1>2, <1>3, UpdateSeq
  <1> QED
    BY <1>2, <1>4 DEF OnlyRefcnt

LEMMA VqReferenced ==
  ASSUME VqInv, UNCHANGED <<vq_hash, vq_list>>, vq' \in Seq(VirtQueue),
         Len(vq') = Len(vq),
         \A x \in DOMAIN vq :
           /\ vq'[x].klass = vq[x].klass /\ vq'[x].weight = vq[x].weight
           /\ vq'[x].is_static = vq[x].is_static /\ vq'[x].rate = vq[x].rate
  PROVE  VqInv'
  <1>1. DOMAIN vq' = DOMAIN vq /\ vq_list \subseteq DOMAIN vq
    BY SMT, VqDomain DEF VqInv, VqType
  <1>2. VqType'
    BY <1>1 DEF VqInv, VqType
  <1>3. DynamicRates' = DynamicRates
    BY <1>1 DEF DynamicRates
  <1>4. \A v1, v2 \in DOMAIN vq' : vq'[v1].klass = vq'[v2].klass => v1 = v2
    BY <1>1 DEF VqInv
  <1>5. (\E v \in vq_list' : vq'[v].weight > 0) =>
          Total(DynamicRates', vq_list') <= ISO_VQ_DRAIN_RATE_MBPS
    BY <1>1, <1>3 DEF VqInv
  <1> QED
    BY <1>2, <1>4, <1>5 DEF VqInv

LEMMA UnreferredIs ==
  ASSUME VqInv, RefInv, NEW o \in DOMAIN txc, NEW r, r = Unreferred(o)
  PROVE  /\ r \in Seq(VirtQueue) /\ Len(r) = Len(vq) /\ DOMAIN r = DOMAIN vq
         /\ \A x \in DOMAIN vq :
              /\ r[x].klass = vq[x].klass /\ r[x].weight = vq[x].weight
              /\ r[x].is_static = vq[x].is_static /\ r[x].rate = vq[x].rate
              /\ r[x].freed = vq[x].freed
              /\ r[x].refcnt = IF x = txc[o].vq THEN vq[x].refcnt - 1
                                                ELSE vq[x].refcnt
  <1>1. /\ vq \in Seq(VirtQueue) /\ DOMAIN vq = 1..Len(vq)
        /\ Len(vq) \in Nat
        /\ \A x \in DOMAIN vq : vq[x].refcnt \in Int
    BY VqDomain, QueueFields DEF VqInv, VqType
  <1>2. txc[o].vq \in 0..Len(vq)
    BY DEF RefInv
  <1>3. CASE txc[o].vq = 0
    <2>1. r = vq
      BY <1>3 DEF Unreferred
    <2> QED
      BY SMT, <1>1, <1>3, <2>1
  <1>4. CASE txc[o].vq # 0
    <2> DEFINE y == txc[o].vq
               n == vq[y].refcnt - 1
    <2>1. y \in DOMAIN vq /\ n \in Int
      BY SMT, <1>1, <1>2, <1>4
    <2>2. r = WithRefcnt(vq, y, n)
      BY <1>4 DEF Unreferred, WithRefcnt
    <2> HIDE DEF y
    <2>3. n = vq[y].refcnt - 1
      OBVIOUS
    <2> HIDE DEF n
    <2>4. OnlyRefcnt(r, vq, y, n)
      BY <1>1, <2>1, <2>2, RefcntSet
    <2> QED
      BY <2>3, <2>4 DEF y, OnlyRefcnt
  <1> QED
    BY <1>3, <1>4

LEMMA UnreferredNext ==
  ASSUME VqInv, RefInv, NEW o \in DOMAIN txc, vq' = Unreferred(o)
  PROVE  /\ vq' \in Seq(VirtQueue) /\ Len(vq') = Len(vq)
         /\ \A x \in DOMAIN vq :
              /\ vq'[x].klass = vq[x].klass /\ vq'[x].weight = vq[x].weight
              /\ vq'[x].is_static = vq[x].is_static
              /\ vq'[x].rate = vq[x].rate /\ vq'[x].freed = vq[x].freed
  BY SMT, UnreferredIs

LEMMA AssociatedIs ==
  ASSUME VqInv, RefInv, NEW o \in DOMAIN txc, NEW v \in DOMAIN vq,
         NEW r, r = Associated(o, v)
  PROVE  /\ r \in Seq(VirtQueue) /\ Len(r) = Len(vq) /\ DOMAIN r = DOMAIN vq
         /\ \A x \in DOMAIN vq :
              /\ r[x].klass = vq[x].klass /\ r[x].weight = vq[x].weight
              /\ r[x].is_static = vq[x].is_static /\ r[x].rate = vq[x].rate
              /\ r[x].freed = vq[x].freed
              /\ r[x].refcnt = vq[x].refcnt - (IF x = txc[o].vq THEN 1 ELSE 0)
                                            + (IF x = v THEN 1 ELSE 0)
  <1> DEFINE d == Unreferred(o)
             n == d[v].refcnt + 1
  <1>1. /\ d \in Seq(VirtQueue) /\ Len(d) = Len(vq) /\ DOMAIN d = DOMAIN vq
        /\ \A x \in DOMAIN vq :
             /\ d[x].klass = vq[x].klass /\ d[x].weight = vq[x].weight
             /\ d[x].is_static = vq[x].is_static /\ d[x].rate = vq[x].rate
             /\ d[x].freed = vq[x].freed
             /\ d[x].refcnt = IF x = txc[o].vq THEN vq[x].refcnt - 1
                                               ELSE vq[x].refcnt
    BY SMT, UnreferredIs
  <1>2. r = WithRefcnt(d, v, n)
    BY DEF Associated, Unreferred, WithRefcnt
  <1>3. \A x \in DOMAIN vq : vq[x].refcnt \in Int
    BY VqDomain, QueueFields DEF VqInv
  <1> HIDE DEF d
  <1>4. n \in Int /\ n = d[v].refcnt + 1
    BY SMT, <1>1, <1>3
  <1> HIDE DEF n
  <1>5a. OnlyRefcnt(r, d, v, n)
    BY <1>1, <1>2, <1>4, RefcntSet
  <1>5. /\ r \in Seq(VirtQueue) /\ Len(r) = Len(d) /\ DOMAIN r = DOMAIN d
        /\ \A x \in DOMAIN d :
              /\ r[x].klass = d[x].klass /\ r[x].weight = d[x].weight
              /\ r[x].is_static = d[x].is_static /\ r[x].rate = d[x].rate
              /\ r[x].freed = d[x].freed
              /\ r[x].refcnt = IF x = v THEN n ELSE d[x].refcnt
    BY <1>5a DEF OnlyRefcnt
  <1>6. ASSUME NEW x \in DOMAIN vq
        PROVE  r[x].refcnt = vq[x].refcnt - (IF x = txc[o].vq THEN 1 ELSE 0)
                                          + (IF x = v THEN 1 ELSE 0)
    BY SMT, <1>1, <1>3, <1>4, <1>5
  <1> QED
    BY SMT, <1>1, <1>5, <1>6

LEMMA AssociatedNext ==
  ASSUME VqInv, RefInv, NEW o \in DOMAIN txc, NEW v \in DOMAIN vq,
         vq' = Associated(o, v)
  PROVE  /\ vq' \in Seq(VirtQueue) /\ Len(vq') = Len(vq)
         /\ \A x \in DOMAIN vq :
              /\ vq'[x].klass = vq[x].klass /\ vq'[x].weight = vq[x].weight
              /\ vq'[x].is_static = vq[x].is_static
              /\ vq'[x].rate = vq[x].rate /\ vq'[x].freed = vq[x].freed
  BY SMT, AssociatedIs

LEMMA RefAssociated ==
  ASSUME SumFacts,
         RefInv, TxType, VqInv, NEW o \in Classes, NEW v \in DOMAIN vq,
         vq' = Associated(o, v), DOMAIN txc' = DOMAIN txc,
         \A x \in DOMAIN txc : /\ txc'[x].freed = txc[x].freed
                               /\ txc'[x].vq = IF x = o THEN v ELSE txc[x].vq
  PROVE  RefInv'
  <1>1. o \in DOMAIN txc
    BY DEF Classes
  <1>2. /\ Len(vq') = Len(vq) /\ DOMAIN vq' = DOMAIN vq
        /\ \A x \in DOMAIN vq :
             vq'[x].refcnt = vq[x].refcnt - (IF x = txc[o].vq THEN 1 ELSE 0)
                                          + (IF x = v THEN 1 ELSE 0)
    BY SMT, <1>1, AssociatedIs
  <1>3. \A x \in DOMAIN txc' : txc'[x].vq \in 0..Len(vq')
    BY SMT, <1>2, VqDomain DEF RefInv, VqInv
  <1>4. ASSUME NEW x \in DOMAIN vq
        PROVE  vq'[x].refcnt = Cardinality(Referrers(x)')
    <2> DEFINE R == Referrers(x)
    <2>1. /\ IsFiniteSet(R) /\ Cardinality(R) \in Nat
          /\ vq[x].refcnt = Cardinality(R)
      BY ReferrersFinite DEF RefInv
    <2>2. o \in R <=> x = txc[o].vq
      BY DEF Referrers
    <2>3. Referrers(x)' = IF x = v THEN R \cup {o} ELSE R \ {o}
      BY <1>1 DEF Referrers, Classes
    <2> HIDE DEF R
    <2>4. /\ Cardinality(R \cup {o}) =
               IF o \in R THEN Cardinality(R) ELSE Cardinality(R) + 1
          /\ Cardinality(R \ {o}) =
               IF o \in R THEN Cardinality(R) - 1 ELSE Cardinality(R)
      BY <2>1, CountAdd, CountRemove
    <2>5. Cardinality(Referrers(x)') =
            Cardinality(R) - (IF x = txc[o].vq THEN 1 ELSE 0)
                           + (IF x = v THEN 1 ELSE 0)
      <3>1. CASE x = v
        <4>1. Cardinality(Referrers(x)') = Cardinality(R \cup {o})
          BY <2>3, <3>1
        <4>2. CASE o \in R
          BY <2>1, <2>2, <2>4, <3>1, <4>1, <4>2, PlusMinus
        <4>3. CASE o \notin R
          BY <2>1, <2>2, <2>4, <3>1, <4>1, <4>3, PlusMinus
        <4> QED
          BY <4>2, <4>3
      <3>2. CASE x # v
        <4>1. Cardinality(Referrers(x)') = Cardinality(R \ {o})
          BY <2>3, <3>2
        <4>2. CASE o \in R
          BY <2>1, <2>2, <2>4, <3>2, <4>1, <4>2, PlusMinus
        <4>3. CASE o \notin R
          BY <2>1, <2>2, <2>4, <3>2, <4>1, <4>3, PlusMinus
        <4> QED
          BY <4>2, <4>3
      <3> QED
        BY <3>1, <3>2
    <2> QED
      BY <1>2, <2>1, <2>5
  <1> QED
    BY <1>2, <1>3, <1>4 DEF RefInv

LEMMA RefFreed ==
  ASSUME SumFacts, RefInv, TxType, VqInv, NEW o \in Classes,
         vq' = Unreferred(o), DOMAIN txc' = DOMAIN txc,
         \A x \in DOMAIN txc : /\ txc'[x].vq = txc[x].vq
                               /\ txc'[x].freed = (x = o \/ txc[x].freed)
  PROVE  RefInv'
  <1>1. o \in DOMAIN txc /\ ~txc[o].freed
    BY DEF Classes
  <1>2. /\ Len(vq') = Len(vq) /\ DOMAIN vq' = DOMAIN vq
        /\ \A x \in DOMAIN vq :
             vq'[x].refcnt = IF x = txc[o].vq THEN vq[x].refcnt - 1
                                              ELSE vq[x].refcnt
    BY SMT, <1>1, UnreferredIs
  <1>3. \A x \in DOMAIN txc' : txc'[x].vq \in 0..Len(vq')
    BY <1>2 DEF RefInv
  <1>4. ASSUME NEW x \in DOMAIN vq
        PROVE  vq'[x].refcnt = Cardinality(Referrers(x)')
    <2> DEFINE R == Referrers(x)
    <2>1. /\ IsFiniteSet(R) /\ Cardinality(R) \in Nat
          /\ vq[x].refcnt = Cardinality(R)
      BY ReferrersFinite DEF RefInv
    <2>2. o \in R <=> x = txc[o].vq
      BY DEF Referrers
    <2>3. Referrers(x)' = R \ {o}
      BY <1>1 DEF Referrers, Classes
    <2> HIDE DEF R
    <2>4. Cardinality(R \ {o}) =
            IF o \in R THEN Cardinality(R) - 1 ELSE Cardinality(R)
      BY <2>1, CountRemove
    <2> QED
      BY <1>2, <2>1, <2>2, <2>3, <2>4
  <1> QED
    BY <1>2, <1>3, <1>4 DEF RefInv

-----------------------------------------------------------------------------
(* The writers.                                                             *)

LEMMA OthersWait ==
  ASSUME WriterInv, NEW w \in Writer, wpc[w] \notin {"idle", "down"},
         NEW x \in Writer \ {w}
  PROVE  wpc[x] \in {"idle", "down"}
  BY DEF WriterInv

(* Before its body ends a handler is alone, so nothing is pending.          *)
LEMMA NothingPending ==
  ASSUME WriterInv, NEW w \in Writer, wpc[w] \notin {"idle", "down"}
  PROVE  /\ Pending <=> wpc[w] = "recompute"
         /\ Creating <=> wpc[w] = "recompute" /\ req[w].op = "create_txc"
  <1>1. \A x \in Writer \ {w} : wpc[x] # "recompute"
    BY OthersWait
  <1> QED
    BY <1>1 DEF Pending, Creating

(* What the end of a handler's body leaves behind.                          *)
LEMMA FinishControl ==
  ASSUME WriterInv, NEW w \in Writer, wpc[w] \notin {"idle", "down"},
         NEW p \in {"alloc", "recompute", "sync", "up", "leaked", "oops"},
         NEW o \in Nat, NEW e \in {0, -EINVAL}, Finish(w, p, o, e)
  PROVE  /\ WriterType' /\ config_mutex' = w
         /\ wpc'[w] = p /\ obj'[w] = o /\ req' = req
         /\ \A x \in Writer \ {w} : wpc'[x] \in {"idle", "down"}
         /\ Pending' <=> p = "recompute"
         /\ Creating' <=> p = "recompute" /\ req[w].op = "create_txc"
  <1>1. \A x \in Writer \ {w} : wpc[x] \in {"idle", "down"}
    BY OthersWait
  <1>2. /\ wpc' = [wpc EXCEPT ![w] = p] /\ obj' = [obj EXCEPT ![w] = o]
        /\ ret' = [ret EXCEPT ![w] = e]
        /\ config_mutex' = config_mutex /\ req' = req /\ grace' = grace
    BY DEF Finish
  <1>3. WriterType
    BY DEF WriterInv
  <1>4. WriterType'
    BY <1>2, <1>3 DEF WriterType
  <1>5. config_mutex = w
    BY DEF WriterInv
  <1>6. wpc'[w] = p /\ obj'[w] = o /\ \A x \in Writer \ {w} : wpc'[x] = wpc[x]
    BY <1>2, <1>3 DEF WriterType
  <1>7. \A x \in Writer \ {w} : wpc'[x] \in {"idle", "down"}
    BY <1>1, <1>6
  <1>8. Pending' <=> p = "recompute"
    BY <1>6, <1>7 DEF Pending
  <1>9. Creating' <=> p = "recompute" /\ req[w].op = "create_txc"
    BY <1>2, <1>6, <1>7 DEF Creating
  <1> QED
    BY <1>2, <1>4, <1>5, <1>6, <1>7, <1>8, <1>9

LEMMA FinishWriter ==
  ASSUME WriterInv, NEW w \in Writer, wpc[w] \notin {"idle", "down"},
         NEW p \in {"alloc", "recompute", "sync", "up", "leaked", "oops"},
         NEW o \in Nat, NEW e \in {0, -EINVAL}, Finish(w, p, o, e),
         p = "sync" => req[w].op \in {"delete_txc", "delete_vq"},
         p \in {"recompute", "sync"} /\ req[w].op = "delete_txc"
           => o \in Classes' \ tx_hash',
         p = "sync" /\ req[w].op = "delete_vq"
           => o \in DOMAIN vq' /\ vq'[o].refcnt <= 0
  PROVE  WriterInv'
  <1>1. /\ WriterType' /\ config_mutex' = w
        /\ wpc'[w] = p /\ obj'[w] = o /\ req' = req
        /\ \A x \in Writer \ {w} : wpc'[x] \in {"idle", "down"}
    BY SMT, FinishControl
  <1>2. ASSUME NEW x \in Writer
        PROVE  /\ wpc'[x] \notin {"idle", "down"} => config_mutex' = x
               /\ wpc'[x] \in {"sync", "grace"}
                    => req'[x].op \in {"delete_txc", "delete_vq"}
               /\ wpc'[x] \in {"recompute", "sync", "grace"}
                    /\ req'[x].op = "delete_txc"
                    => obj'[x] \in Classes' \ tx_hash'
               /\ wpc'[x] \in {"sync", "grace"} /\ req'[x].op = "delete_vq"
                    => obj'[x] \in DOMAIN vq' /\ vq'[obj'[x]].refcnt <= 0
    <2>1. CASE x = w
      BY <1>1, <2>1
    <2>2. CASE x # w
      <3>1. wpc'[x] \in {"idle", "down"}
        BY <1>1, <2>2
      <3> QED
        BY <3>1
    <2> QED
      BY <2>1, <2>2
  <1> QED
    BY <1>1, <1>2 DEF WriterInv

(* A step of another process that leaves the classes' existence alone.      *)
LEMMA WriterKept ==
  ASSUME WriterInv, UNCHANGED <<config_mutex, wpc, req, obj, ret, tx_hash, vq>>,
         grace' \in [Writer -> SUBSET Cpu], Classes' = Classes
  PROVE  WriterInv' /\ (Pending' <=> Pending) /\ (Creating' <=> Creating)
  <1>1. WriterType'
    BY DEF WriterInv, WriterType
  <1>2. (Pending' <=> Pending) /\ (Creating' <=> Creating)
    BY DEF Pending, Creating
  <1> QED
    BY <1>1, <1>2 DEF WriterInv

-----------------------------------------------------------------------------
(* The packet paths.                                                        *)

(* Steps of the handlers: objects are only added, except the one freed.     *)
LEMMA FinishCpu ==
  ASSUME CpuInv, WriterInv, NEW w \in Writer, wpc[w] \notin {"idle", "down"},
         NEW p \in {"alloc", "recompute", "sync", "up", "leaked", "oops"},
         NEW o \in Nat, NEW e \in {0, -EINVAL}, Finish(w, p, o, e),
         Len(txc) \in Nat, Len(vq) \in Nat, Len(txc_list) \in Nat,
         Len(txc') \in Nat, Len(vq') \in Nat, Len(txc_list') \in Nat,
         Len(txc) <= Len(txc'), Len(vq) <= Len(vq'),
         Len(txc_list) <= Len(txc_list'),
         \A c \in Cpu : held[c].txc # 0 => held[c].txc \in Classes'
  PROVE  CpuInv'
  <1>1. UNCHANGED <<txc_spinlock, ctx_rate, cpc, cur, held, clk>>
    BY DEF Finish, cpuVars
  <1>2. CpuType
    BY DEF CpuInv
  <1>3. /\ 0..Len(txc) \subseteq 0..Len(txc') /\ 0..Len(vq) \subseteq 0..Len(vq')
        /\ 0..Len(txc_list) \subseteq 0..Len(txc_list')
    BY SMT
  <1>4. cur' \in [Cpu -> 0..Len(txc_list')]
    BY <1>1, <1>2, <1>3 DEF CpuType
  <1>5. /\ held' \in [Cpu -> HeldType(Len(txc'), Len(vq'))]
        /\ clk' \in [Cpu -> ClockType(Len(txc'))]
    <2>1. /\ HeldType(Len(txc), Len(vq)) \subseteq HeldType(Len(txc'), Len(vq'))
          /\ ClockType(Len(txc)) \subseteq ClockType(Len(txc'))
      BY <1>3 DEF HeldType, ClockType
    <2> QED
      BY <1>1, <1>2, <2>1 DEF CpuType
  <1>6. CpuType'
    BY <1>1, <1>2, <1>4, <1>5 DEF CpuType
  <1>7. \A x \in Writer : wpc'[x] # "grace"
    <2>1. wpc'[w] = p /\ \A x \in Writer \ {w} : wpc'[x] \in {"idle", "down"}
      BY SMT, FinishControl
    <2> QED
      BY <2>1
  <1> QED
    BY <1>1, <1>6, <1>7 DEF CpuInv

(* Steps that change neither the writers nor what is held.                  *)
LEMMA CpuKept ==
  ASSUME CpuInv, CpuType', UNCHANGED <<wpc, req, obj, grace>>,
         Classes' = Classes,
         \A c \in Cpu : /\ held'[c].txc = held[c].txc
                        /\ held[c].txc # 0 => cpc'[c] \in InUse
                        /\ cpc'[c] = "clock" => clk'[c].txc # 0
  PROVE  CpuInv'
  <1> SUFFICES ASSUME NEW c \in Cpu, held'[c].txc # 0
               PROVE  /\ cpc'[c] \in InUse /\ held'[c].txc \in Classes'
                      /\ \A w \in Writer :
                           wpc'[w] = "grace" /\ req'[w].op = "delete_txc"
                             /\ obj'[w] = held'[c].txc => c \in grace'[w]
    BY DEF CpuInv
  <1>1. /\ held[c].txc \in Classes
        /\ \A w \in Writer :
             wpc[w] = "grace" /\ req[w].op = "delete_txc"
               /\ obj[w] = held[c].txc => c \in grace[w]
    BY DEF CpuInv
  <1> QED
    BY <1>1

LEMMA CpuKeptAt ==
  ASSUME CpuInv, UNCHANGED <<wpc, req, obj>>, Classes' = Classes,
         NEW c \in Cpu, held[c].txc # 0, held'[c] = held[c], cpc'[c] = cpc[c],
         \A w \in Writer : c \in grace[w] => c \in grace'[w]
  PROVE  /\ cpc'[c] \in InUse /\ held'[c].txc \in Classes'
         /\ \A w \in Writer :
              wpc'[w] = "grace" /\ req'[w].op = "delete_txc"
                /\ obj'[w] = held'[c].txc => c \in grace'[w]
  BY SMT DEF CpuInv

-----------------------------------------------------------------------------
(* The steps of the handlers.                                               *)

LEMMA Lengths ==
  ASSUME IInv
  PROVE  Len(txc) \in Nat /\ Len(vq) \in Nat /\ Len(txc_list) \in Nat
  BY SMT, TxDomain, VqDomain DEF IInv, TxInv, VqInv, TxType

LEMMA SameObjects ==
  ASSUME UNCHANGED txVars, UNCHANGED vqVars
  PROVE  /\ UNCHANGED <<txc, tx_hash, txc_list, txc_total_weight>>
         /\ UNCHANGED <<vq, vq_hash, vq_list>> /\ Classes' = Classes
         /\ RefInv => RefInv'
  <1>1. /\ UNCHANGED <<txc, tx_hash, txc_list, txc_total_weight>>
        /\ UNCHANGED <<vq, vq_hash, vq_list>>
    BY DEF txVars, vqVars
  <1>2. Classes' = Classes
    BY <1>1 DEF Classes
  <1>3. RefInv => RefInv'
    BY <1>1, RefKept
  <1> QED
    BY <1>1, <1>2, <1>3

(* A handler enters, waits, gets the mutex or leaves.                       *)
LEMMA TurnStep ==
  ASSUME IInv, NEW w \in Writer,
         UNCHANGED <<txVars, txc_spinlock, ctx_rate, vqVars, obj, grace,
                     cpuVars>>,
         WriterType', wpc[w] # "recompute", wpc'[w] \in {"idle", "down", "body"},
         \A x \in Writer \ {w} : wpc'[x] = wpc[x] /\ req'[x] = req[x],
         \A x \in Writer : wpc'[x] \notin {"idle", "down"} => config_mutex' = x
  PROVE  IInv'
  <1> TxInv /\ VqInv /\ RefInv /\ WriterInv /\ AllocInv /\ CpuInv
    BY DEF IInv
  <1>2. /\ UNCHANGED <<txc, tx_hash, txc_list, txc_total_weight>>
        /\ UNCHANGED <<vq, vq_hash, vq_list>> /\ Classes' = Classes
        /\ RefInv'
    BY SameObjects
  <1>3. TxInv'
    <2>1. (Pending' <=> Pending) /\ (Creating' <=> Creating)
      BY DEF Pending, Creating
    <2> QED
      BY <2>1, TxQuiet
  <1>4. VqInv'
    BY VqQuiet
  <1>5. WriterInv'
    <2>1. ASSUME NEW x \in Writer, wpc'[x] \notin {"idle", "down", "body"}
          PROVE  wpc'[x] = wpc[x] /\ req'[x] = req[x] /\ obj'[x] = obj[x]
      BY <2>1
    <2> QED
      BY SMT, <1>2, <2>1 DEF WriterInv
  <1>6. CpuInv'
    <2>1. CpuType'
      BY <1>2 DEF CpuInv, CpuType, cpuVars
    <2>2. UNCHANGED <<cpc, held, clk>>
      BY DEF cpuVars
    <2>3. ASSUME NEW x \in Writer, wpc'[x] = "grace"
          PROVE  wpc[x] = "grace" /\ req'[x] = req[x]
      BY <2>3
    <2>4. ASSUME NEW c \in Cpu, held'[c].txc # 0
          PROVE  /\ cpc'[c] \in InUse /\ held'[c].txc \in Classes'
                 /\ \A x \in Writer :
                      wpc'[x] = "grace" /\ req'[x].op = "delete_txc"
                        /\ obj'[x] = held'[c].txc => c \in grace'[x]
      <3>1. /\ cpc[c] \in InUse /\ held[c].txc \in Classes
            /\ \A x \in Writer :
                 wpc[x] = "grace" /\ req[x].op = "delete_txc"
                   /\ obj[x] = held[c].txc => c \in grace[x]
        BY <2>2, <2>4 DEF CpuInv
      <3> QED
        BY <1>2, <2>2, <2>3, <3>1
    <2> QED
      BY <2>1, <2>2, <2>4 DEF CpuInv
  <1>7. AllocInv'
    <2> SUFFICES ASSUME NEW x \in Writer, wpc'[x] = "alloc"
                 PROVE  Missing(req[x])'
      BY DEF AllocInv
    <2>1. wpc[x] = "alloc" /\ req'[x] = req[x]
      OBVIOUS
    <2>2. Missing(req[x])
      BY <2>1 DEF AllocInv
    <2> QED
      BY <1>2, <2>1, <2>2 DEF Missing
  <1> QED
    BY <1>2, <1>3, <1>4, <1>5, <1>6, <1>7 DEF IInv

(* A handler that refuses the write, or has nothing to change but its own   *)
(* program point.                                                           *)
LEMMA ControlStep ==
  ASSUME IInv, NEW w \in Writer, wpc[w] \in {"body", "alloc", "grace"},
         NEW p \in {"alloc", "recompute", "sync", "up", "leaked", "oops"},
         NEW o \in Nat, NEW e \in {0, -EINVAL}, Finish(w, p, o, e),
         UNCHANGED txVars, UNCHANGED vqVars,
         p = "recompute" => req[w].op = "recompute_dev",
         p = "sync" => /\ req[w].op = "delete_vq"
                       /\ o \in DOMAIN vq /\ vq[o].refcnt <= 0,
         p = "alloc" => Missing(req[w])
  PROVE  IInv'
  <1> TxInv /\ VqInv /\ RefInv /\ WriterInv /\ AllocInv /\ CpuInv
    BY DEF IInv
  <1>2. /\ UNCHANGED <<txc, tx_hash, txc_list, txc_total_weight>>
        /\ UNCHANGED <<vq, vq_hash, vq_list>> /\ Classes' = Classes
        /\ RefInv'
    BY SameObjects
  <1>3. TxInv'
    <2>1. ~Pending /\ ~Creating
      BY NothingPending
    <2>2. ~Creating'
      BY SMT, FinishControl
    <2> QED
      BY <2>1, <2>2, TxQuiet
  <1>4. VqInv'
    BY VqQuiet
  <1>5. WriterInv'
    BY <1>2, FinishWriter
  <1>6. CpuInv'
    <2>1. \A c \in Cpu : held[c].txc # 0 => held[c].txc \in Classes'
      BY <1>2 DEF CpuInv
    <2> QED
      BY <1>2, <2>1, Lengths, LeqSelf, FinishCpu
  <1>7. AllocInv'
    <2>1. /\ wpc'[w] = p /\ req' = req
          /\ \A x \in Writer \ {w} : wpc'[x] \in {"idle", "down"}
      BY SMT, FinishControl
    <2>2. \A x \in Writer : wpc'[x] = "alloc" => x = w /\ p = "alloc"
      BY <2>1
    <2>3. p = "alloc" => Missing(req[w])'
      BY <1>2, <2>1 DEF Missing
    <2> QED
      BY <2>2, <2>3 DEF AllocInv
  <1> QED
    BY <1>2, <1>3, <1>4, <1>5, <1>6, <1>7 DEF IInv

LEMMA SyncStep ==
  ASSUME IInv, NEW w \in Writer, Sync(w)
  PROVE  IInv'
  <1> TxInv /\ VqInv /\ RefInv /\ WriterInv /\ AllocInv /\ CpuInv
    BY DEF IInv
  <1>2. /\ UNCHANGED <<txc, tx_hash, txc_list, txc_total_weight>>
        /\ UNCHANGED <<vq, vq_hash, vq_list>> /\ Classes' = Classes
        /\ RefInv' /\ UNCHANGED txVars /\ UNCHANGED vqVars
    BY SameObjects DEF Sync
  <1>3. /\ wpc[w] = "sync" /\ wpc'[w] = "grace" /\ grace'[w] = Readers
        /\ \A x \in Writer \ {w} : wpc'[x] = wpc[x] /\ grace'[x] = grace[x]
        /\ req' = req /\ obj' = obj /\ config_mutex' = config_mutex
        /\ cpc' = cpc /\ held' = held /\ clk' = clk
    BY DEF Sync, WriterInv, WriterType, cpuVars
  <1>4. TxInv'
    <2>1. (Pending' <=> Pending) /\ (Creating' <=> Creating)
      BY <1>3 DEF Pending, Creating
    <2> QED
      BY <1>2, <2>1, TxQuiet
  <1>5. VqInv'
    BY <1>2, VqQuiet
  <1>6. WriterType'
    <2>1. Readers \in SUBSET Cpu
      BY DEF Readers
    <2> QED
      BY <2>1 DEF Sync, WriterInv, WriterType
  <1>7. WriterInv'
    BY <1>2, <1>3, <1>6 DEF WriterInv
  <1>8. CpuInv'
    <2>1. CpuType'
      BY <1>2 DEF Sync, CpuInv, CpuType, cpuVars
    <2>2. ASSUME NEW c \in Cpu, held[c].txc # 0 PROVE c \in Readers
      <3>1. cpc[c] # "idle"
        BY <2>2 DEF CpuInv, InUse
      <3>2. held[c] # Nothing
        BY <2>2, NothingHeld
      <3> QED
        BY <3>1, <3>2 DEF Readers
    <2> QED
      BY <1>2, <1>3, <2>1, <2>2 DEF CpuInv
  <1>9. AllocInv'
    <2>1. \A x \in Writer : wpc'[x] = "alloc" => wpc[x] = "alloc"
      BY <1>3
    <2> QED
      BY <1>2, <1>3, <2>1 DEF AllocInv, Missing
  <1> QED
    BY <1>2, <1>4, <1>5, <1>7, <1>8, <1>9 DEF IInv

(* A handler's body that has done its work on classes and queues.           *)
LEMMA WorkStep ==
  ASSUME IInv, NEW w \in Writer, wpc[w] \notin {"idle", "down"},
         NEW p \in {"recompute", "sync", "up", "leaked", "oops"},
         NEW o \in Nat, NEW e \in {0, -EINVAL}, Finish(w, p, o, e),
         TxInv', VqInv', RefInv',
         Len(txc) <= Len(txc'), Len(vq) <= Len(vq'),
         Len(txc_list) <= Len(txc_list'),
         \A c \in Cpu : held[c].txc # 0 => held[c].txc \in Classes',
         p = "sync" => req[w].op = "delete_txc",
         p \in {"recompute", "sync"} /\ req[w].op = "delete_txc"
           => o \in Classes' \ tx_hash'
  PROVE  IInv'
  <1> /\ WriterInv /\ CpuInv
      /\ p \in {"alloc", "recompute", "sync", "up", "leaked", "oops"}
    BY DEF IInv
  <1>2. WriterInv'
    BY FinishWriter
  <1>3. Len(txc') \in Nat /\ Len(vq') \in Nat /\ Len(txc_list') \in Nat
    BY SMT DEF TxInv, TxType, VqInv, VqType
  <1>4. CpuInv'
    BY <1>3, Lengths, FinishCpu
  <1>5. AllocInv'
    <2>1. wpc'[w] = p /\ \A x \in Writer \ {w} : wpc'[x] \in {"idle", "down"}
      BY SMT, FinishControl
    <2>2. \A x \in Writer : wpc'[x] # "alloc"
      BY <2>1
    <2> QED
      BY <2>2 DEF AllocInv
  <1> QED
    BY <1>2, <1>4, <1>5 DEF IInv

(* Classes in use that no step frees stay live.                             *)
LEMMA HeldKept ==
  ASSUME CpuInv, DOMAIN txc \subseteq DOMAIN txc',
         \A o \in DOMAIN txc : txc'[o].freed = txc[o].freed
  PROVE  /\ Classes \subseteq Classes'
         /\ \A c \in Cpu : held[c].txc # 0 => held[c].txc \in Classes'
  <1>1. Classes \subseteq Classes'
    BY DEF Classes
  <1> QED
    BY <1>1 DEF CpuInv

(* The checks of a creation: what is not found is missing.                  *)
LEMMA CreateTxcStep ==
  ASSUME IInv, NEW w \in Writer, CreateTxc(w)
  PROVE  IInv'
  <1>1. /\ wpc[w] = "body" /\ req[w].op = "create_txc"
        /\ UNCHANGED txVars /\ UNCHANGED vqVars
        /\ 0 \in {0, -EINVAL} /\ -EINVAL \in {0, -EINVAL}
    BY DEF CreateTxc, InBody
  <1>2. CASE Finish(w, "up", 0, -EINVAL)
    BY <1>1, <1>2, ControlStep
  <1>3. CASE ~TxcExists(req[w].a) /\ Finish(w, "alloc", 0, 0)
    <2>1. \A o \in tx_hash : txc[o].klass # req[w].a
      BY <1>3, TxcFind DEF TxcExists, IInv
    <2>2. Missing(req[w])
      BY <1>1, <2>1 DEF Missing
    <2> QED
      BY <1>1, <1>3, <2>2, ControlStep
  <1> QED
    BY <1>2, <1>3 DEF CreateTxc

LEMMA CreateVqStep ==
  ASSUME IInv, NEW w \in Writer, CreateVq(w)
  PROVE  IInv'
  <1>1. /\ wpc[w] = "body" /\ req[w].op = "create_vq"
        /\ UNCHANGED txVars /\ UNCHANGED vqVars
        /\ 0 \in {0, -EINVAL} /\ -EINVAL \in {0, -EINVAL}
    BY DEF CreateVq, InBody
  <1>2. CASE Finish(w, "up", 0, -EINVAL)
    BY <1>1, <1>2, ControlStep
  <1>3. CASE ~(iso_vq_find(req[w].a) # 0) /\ Finish(w, "alloc", 0, 0)
    <2>1. \A v \in DOMAIN vq : vq[v].klass # req[w].a
      BY <1>3, VqFind DEF IInv
    <2>2. Missing(req[w])
      BY <1>1, <2>1 DEF Missing
    <2> QED
      BY <1>1, <1>3, <2>2, ControlStep
  <1> QED
    BY <1>2, <1>3 DEF CreateVq

(* The insertions.                                                          *)
LEMMA AllocTxcStep ==
  ASSUME SumFacts, IInv, NEW w \in Writer, AllocTxc(w)
  PROVE  IInv'
  <1> TxInv /\ VqInv /\ RefInv /\ WriterInv /\ CpuInv
    BY DEF IInv
  <1>2. /\ wpc[w] = "alloc" /\ req[w].op = "create_txc" /\ UNCHANGED vqVars
        /\ 0 \in {0, -EINVAL} /\ -EINVAL \in {0, -EINVAL}
    BY DEF AllocTxc
  <1>3. CASE Finish(w, "up", 0, -EINVAL) /\ UNCHANGED txVars
    BY <1>2, <1>3, ControlStep
  <1>4. CASE /\ Len(txc) < MaxTxc
             /\ LET o == Len(txc) + 1
                IN  /\ txc' = Append(txc, iso_txc_init(req[w].a))
                    /\ tx_hash' = tx_hash \cup {o}
                    /\ txc_list' = Append(txc_list, o)
                    /\ txc_total_weight' = txc_total_weight + txc'[o].weight
                    /\ Finish(w, "recompute", o, 0)
    <2> DEFINE k == req[w].a
               n == Len(txc) + 1
    <2>1. k \in Klass
      BY RequestType DEF WriterInv
    <2>2. iso_txc_find(k) = 0
      <3>1. \A o \in tx_hash : txc[o].klass # k
        BY <1>2 DEF IInv, AllocInv, Missing
      <3> QED
        BY <3>1, TxcFind
    <2>3. n \in Nat /\ Finish(w, "recompute", n, 0)
      BY SMT, <1>4, Lengths
    <2>4. Pending' /\ Creating'
      BY <1>2, <2>3, FinishControl
    <2>5. TxInv'
      BY <1>4, <2>1, <2>2, <2>4, TxCreated
    <2>6. VqInv'
      BY <1>2, VqQuiet
    <2>7. iso_txc_init(k) \in TxClass /\ iso_txc_init(k).vq = 0
      BY <2>1, InitTxc
    <2>8. /\ Len(txc') = Len(txc) + 1 /\ DOMAIN txc' = DOMAIN txc \cup {n}
          /\ DOMAIN txc = 1..Len(txc) /\ Len(txc) \in Nat
          /\ txc'[n] = iso_txc_init(k) /\ \A j \in DOMAIN txc : txc'[j] = txc[j]
      BY <1>4, <2>7, AppendTxc DEF TxInv
    <2>9. n \notin DOMAIN txc
      BY SMT, <2>8
    <2>10. RefInv'
      BY <1>2, <2>7, <2>8, <2>9, RefCreatedTxc DEF vqVars, VqInv
    <2>11. Len(txc_list) <= Len(txc_list') /\ Len(vq) <= Len(vq')
      <3>1. Len(txc_list') = Len(txc_list) + 1
        BY SMT, <1>4 DEF TxInv, TxType
      <3>2. vq' = vq
        BY <1>2 DEF vqVars
      <3> QED
        BY <3>1, <3>2, Lengths, LeqSelf
    <2>12. \A c \in Cpu : held[c].txc # 0 => held[c].txc \in Classes'
      BY <2>8, HeldKept
    <2>13. Len(txc) <= Len(txc')
      BY SMT, <2>8
    <2> HIDE DEF n, k
    <2> QED
      BY <1>2, <2>3, <2>5, <2>6, <2>10, <2>11, <2>12, <2>13, WorkStep
  <1> QED
    BY <1>3, <1>4 DEF AllocTxc

LEMMA AllocVqStep ==
  ASSUME SumFacts, IInv, NEW w \in Writer, AllocVq(w)
  PROVE  IInv'
  <1> TxInv /\ VqInv /\ RefInv /\ WriterInv /\ CpuInv
    BY DEF IInv
  <1>2. /\ wpc[w] = "alloc" /\ req[w].op = "create_vq" /\ UNCHANGED txVars
        /\ 0 \in {0, -EINVAL} /\ -EINVAL \in {0, -EINVAL}
    BY DEF AllocVq
  <1>3. CASE Finish(w, "up", 0, -EINVAL) /\ UNCHANGED vqVars
    BY <1>2, <1>3, ControlStep
  <1>4. CASE /\ Len(vq) < MaxVq
             /\ LET v == Len(vq) + 1
                IN  /\ vq_hash' = vq_hash \cup {v}
                    /\ vq_list' = vq_list \cup {v}
                    /\ vq' = iso_vq_calculate_rates(
                               Append(vq, iso_vq_init(req[w].a)), vq_list')
             /\ Finish(w, "up", 0, 0)
    <2>1. req[w].a \in Klass
      BY RequestType DEF WriterInv
    <2>0. iso_vq_find(req[w].a) = 0
      <3>1. \A v \in DOMAIN vq : vq[v].klass # req[w].a
        BY <1>2 DEF IInv, AllocInv, Missing
      <3> QED
        BY <3>1, VqFind
    <2>2. /\ VqInv' /\ Len(vq') = Len(vq) + 1
          /\ vq'[Len(vq) + 1].refcnt = 0
          /\ \A v \in DOMAIN vq : vq'[v].refcnt = vq[v].refcnt
      BY <1>4, <2>0, <2>1, VqCreated
    <2>3. ~Pending /\ ~Creating /\ ~Pending' /\ ~Creating'
      <3>1. Finish(w, "up", 0, 0)
        BY <1>4
      <3> QED
        BY <1>2, <3>1, NothingPending, FinishControl
    <2>4. TxInv'
      BY <1>2, <2>3, TxQuiet
    <2>5. txc' = txc /\ txc_list' = txc_list
      BY <1>2 DEF txVars
    <2>6. RefInv'
      BY <2>2, <2>5, RefCreatedVq DEF VqInv
    <2>7. /\ Len(txc) <= Len(txc') /\ Len(vq) <= Len(vq')
          /\ Len(txc_list) <= Len(txc_list')
      BY SMT, <2>2, <2>5, Lengths
    <2>8. \A c \in Cpu : held[c].txc # 0 => held[c].txc \in Classes'
      BY <2>5, HeldKept
    <2>9. Finish(w, "up", 0, 0)
      BY <1>4
    <2>10. VqInv'
      BY <2>2
    <2> QED
      BY <1>2, <2>4, <2>6, <2>7, <2>8, <2>9, <2>10, WorkStep
  <1> QED
    BY <1>3, <1>4 DEF AllocVq

LEMMA AssocTxcVqStep ==
  ASSUME SumFacts, IInv, NEW w \in Writer, AssocTxcVq(w)
  PROVE  IInv'
  <1> DEFINE o == iso_txc_find(req[w].a)
             v == iso_vq_find(req[w].b)
  <1> TxInv /\ VqInv /\ RefInv /\ WriterInv /\ CpuInv
    BY DEF IInv
  <1>2. /\ wpc[w] = "body" /\ req[w].op = "assoc_txc_vq"
        /\ 0 \in {0, -EINVAL} /\ -EINVAL \in {0, -EINVAL}
    BY DEF AssocTxcVq, InBody
  <1>3. CASE o = 0 \/ v = 0
    <2>1. Finish(w, "up", 0, -EINVAL) /\ UNCHANGED txVars /\ UNCHANGED vqVars
      BY <1>3 DEF AssocTxcVq
    <2> QED
      BY <1>2, <2>1, ControlStep
  <1>4. CASE o # 0 /\ v # 0
    <2>1. /\ vq' = Associated(o, v) /\ txc' = [txc EXCEPT ![o].vq = v]
          /\ Finish(w, "up", 0, 0)
          /\ UNCHANGED <<tx_hash, txc_list, txc_total_weight>>
          /\ UNCHANGED <<vq_hash, vq_list>>
      BY <1>4 DEF AssocTxcVq
    <2>2. o \in tx_hash /\ v \in DOMAIN vq
      BY <1>4, TxcFind, VqFind
    <2> HIDE DEF o, v
    <2> DEFINE t == [txc[o] EXCEPT !.vq = v]
    <2>3. /\ o \in DOMAIN txc /\ txc \in Seq(TxClass) /\ txc[o] \in TxClass
          /\ o \in Classes
      BY <2>2, TxDomain DEF TxInv, TxType, Classes
    <2>4. v \in 0..MaxVq
      BY SMT, <2>2, VqDomain, ConfigAssumption DEF ConfigAssumption,
         VqInv, VqType
    <2>5. /\ t \in TxClass /\ t.vq = v
          /\ t.klass = txc[o].klass /\ t.freed = txc[o].freed
          /\ t.min_rate = txc[o].min_rate /\ t.weight = txc[o].weight
          /\ t.is_static = txc[o].is_static /\ t.rate = txc[o].rate
          /\ t.max_rate = txc[o].max_rate /\ t.cut = txc[o].cut
      BY <2>3, <2>4 DEF TxClass
    <2>6. txc' = [txc EXCEPT ![o] = t]
      BY <2>1, <2>3
    <2> HIDE DEF t
    <2>7. /\ Len(txc') = Len(txc) /\ DOMAIN txc' = DOMAIN txc /\ txc'[o] = t
          /\ \A j \in DOMAIN txc \ {o} : txc'[j] = txc[j]
      BY <2>3, <2>5, <2>6, UpdateTxc
    <2>8. ~Pending /\ ~Creating /\ ~Pending' /\ ~Creating'
      BY <1>2, <2>1, NothingPending, FinishControl
    <2>9. TxInv'
      BY <2>1, <2>3, <2>5, <2>6, <2>8, TxField
    <2>10. /\ vq' \in Seq(VirtQueue) /\ Len(vq') = Len(vq)
           /\ \A x \in DOMAIN vq :
                /\ vq'[x].klass = vq[x].klass /\ vq'[x].weight = vq[x].weight
                /\ vq'[x].is_static = vq[x].is_static
                /\ vq'[x].rate = vq[x].rate
      BY <2>1, <2>2, <2>3, AssociatedNext
    <2>11. VqInv'
      BY <2>1, <2>10, VqReferenced
    <2>12. \A x \in DOMAIN txc :
             /\ txc'[x].freed = txc[x].freed
             /\ txc'[x].vq = IF x = o THEN v ELSE txc[x].vq
      BY <2>5, <2>7
    <2>13. RefInv'
      <3>1. vq' = Associated(o, v) /\ TxType
        BY <2>1 DEF TxInv
      <3> QED
        BY <2>2, <2>3, <2>7, <2>12, <3>1, RefAssociated
    <2>14. \A c \in Cpu : held[c].txc # 0 => held[c].txc \in Classes'
      BY <2>7, <2>12, HeldKept
    <2>15. /\ Len(txc) <= Len(txc') /\ Len(vq) <= Len(vq')
           /\ Len(txc_list) <= Len(txc_list')
      BY <2>1, <2>7, <2>10, Lengths, LeqSelf
    <2> QED
      BY <1>2, <2>1, <2>9, <2>11, <2>13, <2>14, <2>15, WorkStep
  <1> QED
    BY <1>3, <1>4

(* A handler that changes classes and leaves the queues alone.              *)
LEMMA TxWorkStep ==
  ASSUME IInv, NEW w \in Writer, wpc[w] = "body",
         NEW o \in Nat, Finish(w, "recompute", o, 0), TxInv', UNCHANGED vqVars,
         Len(txc') = Len(txc), txc_list' = txc_list,
         \A x \in DOMAIN txc : txc'[x].vq = txc[x].vq
                                 /\ txc'[x].freed = txc[x].freed,
         req[w].op = "delete_txc" => o \in Classes \ tx_hash'
  PROVE  IInv'
  <1> TxInv /\ VqInv /\ RefInv /\ WriterInv /\ CpuInv
    BY DEF IInv
  <1>2. vq' = vq /\ VqInv'
    BY VqQuiet DEF vqVars
  <1>3. DOMAIN txc' = DOMAIN txc
    BY SMT DEF TxInv, TxType
  <1>4. RefInv'
    BY <1>2, <1>3, RefKept
  <1>5. /\ Classes \subseteq Classes'
        /\ \A c \in Cpu : held[c].txc # 0 => held[c].txc \in Classes'
    BY <1>3, HeldKept
  <1>6. /\ Len(txc) <= Len(txc') /\ Len(vq) <= Len(vq')
        /\ Len(txc_list) <= Len(txc_list')
    BY <1>2, Lengths, LeqSelf
  <1>7. 0 \in {0, -EINVAL}
    OBVIOUS
  <1> QED
    BY <1>2, <1>4, <1>5, <1>6, <1>7, WorkStep

LEMMA SetTxcWeightStep ==
  ASSUME SumFacts, IInv, NEW w \in Writer, SetTxcWeight(w)
  PROVE  IInv'
  <1> DEFINE o == iso_txc_find(req[w].a)
             n == req[w].val
  <1> TxInv /\ VqInv /\ RefInv /\ WriterInv /\ CpuInv
    BY DEF IInv
  <1>2. /\ wpc[w] = "body" /\ req[w].op = "set_txc_weight" /\ UNCHANGED vqVars
        /\ 0 \in {0, -EINVAL} /\ -EINVAL \in {0, -EINVAL}
    BY DEF SetTxcWeight, InBody
  <1>3. CASE o = 0 \/ WeightRefused(n)
    <2>1. Finish(w, "up", 0, -EINVAL) /\ UNCHANGED txVars
      BY <1>3 DEF SetTxcWeight
    <2> QED
      BY <1>2, <2>1, ControlStep
  <1>4. CASE o # 0 /\ ~WeightRefused(n)
    <2>1. /\ txc_total_weight' = Reweighted(o, n)
          /\ txc' = [txc EXCEPT ![o].weight = n]
          /\ Finish(w, "recompute", o, 0) /\ UNCHANGED <<tx_hash, txc_list>>
      BY <1>4 DEF SetTxcWeight
    <2>2. o \in tx_hash
      BY <1>4, TxcFind
    <2>3. n \in 0..MaxWeight
      BY <1>4, Accepted DEF WriterInv
    <2> HIDE DEF o, n
    <2>4. o \in DOMAIN txc /\ o \in Nat /\ txc \in Seq(TxClass)
            /\ txc[o] \in TxClass
      BY <2>2, TxIndex
    <2>5. ~Creating /\ Pending' /\ ~Creating'
      BY <1>2, <2>1, <2>4, NothingPending, FinishControl
    <2>6. TxInv'
      BY <2>1, <2>2, <2>3, <2>5, TxReweighted
    <2> DEFINE t == [txc[o] EXCEPT !.weight = n]
    <2>7. t \in TxClass /\ t.vq = txc[o].vq /\ t.freed = txc[o].freed
      BY <2>3, <2>4 DEF TxClass
    <2>8. txc' = [txc EXCEPT ![o] = t]
      BY <2>1, <2>4
    <2> HIDE DEF t
    <2>9. /\ Len(txc') = Len(txc) /\ txc'[o] = t
          /\ \A j \in DOMAIN txc \ {o} : txc'[j] = txc[j]
      BY <2>4, <2>7, <2>8, UpdateTxc
    <2>10. \A x \in DOMAIN txc : txc'[x].vq = txc[x].vq
                                   /\ txc'[x].freed = txc[x].freed
      BY <2>7, <2>9
    <2> QED
      BY <1>2, <2>1, <2>4, <2>6, <2>9, <2>10, TxWorkStep
  <1> QED
    BY <1>3, <1>4

LEMMA SetTxcRateStep ==
  ASSUME IInv, NEW w \in Writer, SetTxcRate(w)
  PROVE  IInv'
  <1> DEFINE o == iso_txc_find(req[w].a)
             n == req[w].val
             s == n # 0
             m == IF n = 0 THEN ISO_MAX_TX_RATE ELSE n
  <1> TxInv /\ VqInv /\ RefInv /\ WriterInv /\ CpuInv
    BY DEF IInv
  <1>2. /\ wpc[w] = "body" /\ req[w].op = "set_txc_rate" /\ UNCHANGED vqVars
        /\ 0 \in {0, -EINVAL} /\ -EINVAL \in {0, -EINVAL}
    BY DEF SetTxcRate, InBody
  <1>3. CASE o = 0 \/ CapRefused(n)
    <2>1. Finish(w, "up", 0, -EINVAL) /\ UNCHANGED txVars
      BY <1>3 DEF SetTxcRate
    <2> QED
      BY <1>2, <2>1, ControlStep
  <1>4. CASE o # 0 /\ ~CapRefused(n)
    <2>1. /\ txc' = [txc EXCEPT ![o].is_static = s, ![o].max_rate = m]
          /\ Finish(w, "recompute", o, 0)
          /\ UNCHANGED <<tx_hash, txc_list, txc_total_weight>>
      BY <1>4 DEF SetTxcRate
    <2>2. o \in tx_hash
      BY <1>4, TxcFind
    <2>3. s \in BOOLEAN
      OBVIOUS
    <2>4. m \in Nat
      <3>1. ~CapRefused(n) => n \in Nat
        BY Accepted DEF WriterInv
      <3>2. ISO_MAX_TX_RATE \in Nat
        BY ConfigAssumption DEF ConfigAssumption
      <3> QED
        BY <1>4, <3>1, <3>2
    <2> HIDE DEF o, n, s, m
    <2>5. o \in DOMAIN txc /\ o \in Nat /\ txc \in Seq(TxClass)
            /\ txc[o] \in TxClass
      BY <2>2, TxIndex
    <2> DEFINE t == [txc[o] EXCEPT !.is_static = s, !.max_rate = m]
    <2>6. txc' = [txc EXCEPT ![o] = t]
      BY <2>1, <2>5, TwoFields
    <2>7. ~Creating /\ Pending' /\ ~Creating'
      BY <1>2, <2>1, <2>5, NothingPending, FinishControl
    <2>8. UNCHANGED <<tx_hash, txc_list, txc_total_weight>>
      BY <2>1
    <2>9. TxInv'
      BY <2>2, <2>3, <2>4, <2>6, <2>7, <2>8, TxCapped
    <2>10. t \in TxClass /\ t.vq = txc[o].vq /\ t.freed = txc[o].freed
      BY <2>3, <2>4, <2>5 DEF TxClass
    <2> HIDE DEF t
    <2>11. /\ Len(txc') = Len(txc) /\ txc'[o] = t
           /\ \A j \in DOMAIN txc \ {o} : txc'[j] = txc[j]
      BY <2>5, <2>6, <2>10, UpdateTxc
    <2>12. \A x \in DOMAIN txc : txc'[x].vq = txc[x].vq
                                   /\ txc'[x].freed = txc[x].freed
      BY <2>10, <2>11
    <2>13. Finish(w, "recompute", o, 0)
      BY <2>1
    <2> QED
      BY <1>2, <2>5, <2>8, <2>9, <2>11, <2>12, <2>13, TxWorkStep
  <1> QED
    BY <1>3, <1>4

LEMMA DeleteTxcStep ==
  ASSUME SumFacts, IInv, NEW w \in Writer, DeleteTxc(w)
  PROVE  IInv'
  <1> DEFINE o == iso_txc_find(req[w].a)
  <1> TxInv /\ VqInv /\ RefInv /\ WriterInv /\ CpuInv
    BY DEF IInv
  <1>2. /\ wpc[w] = "body" /\ req[w].op = "delete_txc" /\ UNCHANGED vqVars
        /\ 0 \in {0, -EINVAL} /\ -EINVAL \in {0, -EINVAL}
    BY DEF DeleteTxc, InBody
  <1>3. CASE o = 0
    <2>1. Finish(w, "up", 0, -EINVAL) /\ UNCHANGED txVars
      BY <1>3 DEF DeleteTxc
    <2> QED
      BY <1>2, <2>1, ControlStep
  <1>4. CASE o # 0
    <2>1. /\ tx_hash' = tx_hash \ {o}
          /\ txc_total_weight' = txc_total_weight - txc[o].weight
          /\ Finish(w, "recompute", o, 0) /\ UNCHANGED <<txc, txc_list>>
      BY <1>4 DEF DeleteTxc
    <2>2. o \in tx_hash
      BY <1>4, TxcFind
    <2> HIDE DEF o
    <2>3. o \in Nat /\ o \in Classes
      BY <2>2, TxIndex
    <2>4. ~Creating /\ Pending' /\ ~Creating'
      BY <1>2, <2>1, <2>3, NothingPending, FinishControl
    <2>5. TxInv'
      BY <2>1, <2>2, <2>4, TxDeleted
    <2> QED
      BY <1>2, <2>1, <2>3, <2>5, TxWorkStep
  <1> QED
    BY <1>3, <1>4

(* A handler that changes queues and leaves the classes alone.              *)
LEMMA VqWorkStep ==
  ASSUME IInv, NEW w \in Writer, wpc[w] \in {"body", "grace"},
         Finish(w, "up", 0, 0), VqInv', UNCHANGED txVars,
         Len(vq') = Len(vq),
         \A x \in DOMAIN vq : vq'[x].refcnt = vq[x].refcnt
  PROVE  IInv'
  <1> TxInv /\ VqInv /\ RefInv /\ WriterInv /\ CpuInv
    BY DEF IInv
  <1>2. txc' = txc /\ txc_list' = txc_list
    BY DEF txVars
  <1>3. 0 \in {0, -EINVAL}
    OBVIOUS
  <1>4. ~Pending /\ ~Creating /\ ~Pending' /\ ~Creating'
    BY <1>3, NothingPending, FinishControl
  <1>5. TxInv'
    BY <1>4, TxQuiet
  <1>6. DOMAIN vq' = DOMAIN vq
    BY SMT DEF VqInv, VqType
  <1>7. RefInv'
    BY <1>2, <1>6, RefKept
  <1>8. \A c \in Cpu : held[c].txc # 0 => held[c].txc \in Classes'
    BY <1>2, HeldKept
  <1>9. /\ Len(txc) <= Len(txc') /\ Len(vq) <= Len(vq')
        /\ Len(txc_list) <= Len(txc_list')
    BY <1>2, Lengths, LeqSelf
  <1> QED
    BY <1>3, <1>5, <1>7, <1>8, <1>9, WorkStep

LEMMA SetVqWeightStep ==
  ASSUME SumFacts, IInv, NEW w \in Writer, SetVqWeight(w)
  PROVE  IInv'
  <1> DEFINE v == iso_vq_find(req[w].a)
             n == req[w].val
  <1> TxInv /\ VqInv /\ RefInv /\ WriterInv /\ CpuInv
    BY DEF IInv
  <1>2. /\ wpc[w] = "body" /\ req[w].op = "set_vq_weight" /\ UNCHANGED txVars
        /\ UNCHANGED <<vq_hash, vq_list>>
        /\ 0 \in {0, -EINVAL} /\ -EINVAL \in {0, -EINVAL}
    BY DEF SetVqWeight, InBody
  <1>3. CASE v = 0 \/ WeightRefused(n)
    <2>1. Finish(w, "up", 0, -EINVAL) /\ UNCHANGED vqVars
      BY <1>2, <1>3 DEF SetVqWeight, vqVars
    <2> QED
      BY <1>2, <2>1, ControlStep
  <1>4. CASE v # 0 /\ ~WeightRefused(n)
    <2>1. /\ vq' = iso_vq_calculate_rates([vq EXCEPT ![v].weight = n], vq_list)
          /\ Finish(w, "up", 0, 0)
      BY <1>4 DEF SetVqWeight
    <2>2. v \in DOMAIN vq
      BY <1>4, VqFind
    <2>3. n \in 0..MaxWeight
      BY <1>4, Accepted DEF WriterInv
    <2> HIDE DEF v, n
    <2> DEFINE u == [vq[v] EXCEPT !.weight = n]
    <2>4. vq[v] \in VirtQueue
      BY <2>2, VqDomain DEF VqInv
    <2>5. /\ u \in VirtQueue /\ u.klass = vq[v].klass
          /\ u.refcnt = vq[v].refcnt /\ u.freed = vq[v].freed
      BY <2>3, <2>4 DEF VirtQueue
    <2>6. [vq EXCEPT ![v].weight = n] = [vq EXCEPT ![v] = u]
      BY <2>2
    <2> HIDE DEF u
    <2>7. vq' = iso_vq_calculate_rates([vq EXCEPT ![v] = u], vq_list)
      BY <2>1, <2>6
    <2>8. /\ VqInv' /\ Len(vq') = Len(vq)
          /\ \A x \in DOMAIN vq : vq'[x].refcnt = vq[x].refcnt
      BY <1>2, <2>2, <2>5, <2>7, VqRecalculated
    <2>9. Finish(w, "up", 0, 0)
      BY <2>1
    <2> QED
      BY <1>2, <2>8, <2>9, VqWorkStep
  <1> QED
    BY <1>3, <1>4

LEMMA CappedQueue ==
  ASSUME NEW f, NEW v \in DOMAIN f, NEW n
  PROVE  [f EXCEPT ![v].is_static = TRUE, ![v].rate = n] =
           [f EXCEPT ![v] = [f[v] EXCEPT !.is_static = TRUE, !.rate = n]]
  OBVIOUS

LEMMA SetVqRateStep ==
  ASSUME SumFacts, IInv, NEW w \in Writer, SetVqRate(w)
  PROVE  IInv'
  <1> DEFINE v == iso_vq_find(req[w].a)
             n == req[w].val
  <1> TxInv /\ VqInv /\ RefInv /\ WriterInv /\ CpuInv
    BY DEF IInv
  <1>2. /\ wpc[w] = "body" /\ req[w].op = "set_vq_rate" /\ UNCHANGED txVars
        /\ UNCHANGED <<vq_hash, vq_list>>
        /\ 0 \in {0, -EINVAL} /\ -EINVAL \in {0, -EINVAL}
    BY DEF SetVqRate, InBody
  <1>3. CASE v = 0 \/ n < 0 \/ n > ISO_VQ_DRAIN_RATE_MBPS
    <2>1. Finish(w, "up", 0, -EINVAL) /\ UNCHANGED vqVars
      BY <1>2, <1>3 DEF SetVqRate, vqVars
    <2> QED
      BY <1>2, <2>1, ControlStep
  <1>4. CASE ~(v = 0 \/ n < 0 \/ n > ISO_VQ_DRAIN_RATE_MBPS)
    <2>1. vq' = RateSet(v, n) /\ Finish(w, "up", 0, 0)
      BY <1>4 DEF SetVqRate
    <2>2. v \in DOMAIN vq
      BY <1>4, VqFind
    <2>3. n \in Nat
      BY SMT, <1>4, RequestType DEF WriterInv
    <2> HIDE DEF v, n
    <2>4. vq[v] \in VirtQueue /\ vq_list \subseteq vq_list
      BY <2>2, VqDomain DEF VqInv
    <2>5. CASE n > 0
      <3> DEFINE u == [vq[v] EXCEPT !.is_static = TRUE, !.rate = n]
      <3>1. vq' = [vq EXCEPT ![v] = u]
        BY <2>1, <2>2, <2>5, CappedQueue DEF RateSet
      <3>2. /\ u \in VirtQueue /\ u.klass = vq[v].klass
            /\ u.weight = vq[v].weight /\ u.is_static
            /\ u.refcnt = vq[v].refcnt
        BY <2>3, <2>4 DEF VirtQueue
      <3> HIDE DEF u
      <3>3. /\ VqInv' /\ Len(vq') = Len(vq) /\ vq'[v] = u
            /\ \A j \in DOMAIN vq \ {v} : vq'[j] = vq[j]
        BY <1>2, <2>2, <2>4, <3>1, <3>2, VqShrunk
      <3>4. \A x \in DOMAIN vq : vq'[x].refcnt = vq[x].refcnt
        BY <3>2, <3>3
      <3> QED
        BY <1>2, <2>1, <3>3, <3>4, VqWorkStep
    <2>6. CASE ~(n > 0)
      <3> DEFINE u == [vq[v] EXCEPT !.is_static = FALSE]
      <3>1. vq' = iso_vq_calculate_rates([vq EXCEPT ![v].is_static = FALSE],
                                         vq_list)
        BY <2>1, <2>6 DEF RateSet
      <3>2. [vq EXCEPT ![v].is_static = FALSE] = [vq EXCEPT ![v] = u]
        BY <2>2
      <3>3. /\ u \in VirtQueue /\ u.klass = vq[v].klass
            /\ u.refcnt = vq[v].refcnt /\ u.freed = vq[v].freed
        BY <2>4 DEF VirtQueue
      <3> HIDE DEF u
      <3>4. vq' = iso_vq_calculate_rates([vq EXCEPT ![v] = u], vq_list)
        BY <3>1, <3>2
      <3>5. /\ VqInv' /\ Len(vq') = Len(vq)
            /\ \A x \in DOMAIN vq : vq'[x].refcnt = vq[x].refcnt
        BY <1>2, <2>2, <3>3, <3>4, VqRecalculated
      <3> QED
        BY <1>2, <2>1, <3>5, VqWorkStep
    <2> QED
      BY <2>5, <2>6
  <1> QED
    BY <1>3, <1>4

LEMMA DeleteVqStep ==
  ASSUME IInv, NEW w \in Writer, DeleteVq(w)
  PROVE  IInv'
  <1> DEFINE v == iso_vq_find(req[w].a)
  <1> TxInv /\ VqInv /\ RefInv /\ WriterInv /\ CpuInv
    BY DEF IInv
  <1>2. /\ wpc[w] = "body" /\ req[w].op = "delete_vq"
        /\ UNCHANGED txVars /\ UNCHANGED vqVars
        /\ 0 \in {0, -EINVAL} /\ -EINVAL \in {0, -EINVAL}
    BY DEF DeleteVq, InBody
  <1>3. CASE v = 0 \/ Referred(v)
    <2>1. Finish(w, "up", 0, -EINVAL)
      BY <1>3 DEF DeleteVq
    <2> QED
      BY <1>2, <2>1, ControlStep
  <1>4. CASE v # 0 /\ ~Referred(v)
    <2>1. Finish(w, "sync", v, 0)
      BY <1>4 DEF DeleteVq
    <2>2. v \in DOMAIN vq
      BY <1>4, VqFind
    <2> HIDE DEF v
    <2>3. vq[v].refcnt \in Int /\ v \in Nat
      BY <2>2, QueueIndex
    <2>4. vq[v].refcnt <= 0
      BY SMT, <1>4, <2>3 DEF Referred
    <2> QED
      BY <1>2, <2>1, <2>2, <2>3, <2>4, ControlStep
  <1> QED
    BY <1>3, <1>4

LEMMA RecomputeStep ==
  ASSUME SumFacts, IInv, NEW w \in Writer, Recompute(w)
  PROVE  IInv'
  <1> TxInv /\ VqInv /\ RefInv /\ WriterInv /\ CpuInv
    BY DEF IInv
  <1>2. /\ wpc[w] = "recompute" /\ 0 \in {0, -EINVAL} /\ obj[w] \in Nat
        /\ UNCHANGED <<tx_hash, txc_list, txc_total_weight>>
        /\ UNCHANGED <<vq_hash, vq_list>>
    BY DEF Recompute, WriterInv, WriterType
  <1>3. \/ req[w].op = "delete_txc" /\ Finish(w, "sync", obj[w], 0)
        \/ req[w].op # "delete_txc" /\ Finish(w, "up", 0, 0)
    BY DEF Recompute
  <1>4. ~Pending' /\ ~Creating'
    BY <1>2, <1>3, FinishControl
  <1>5. /\ TxInv' /\ Len(txc') = Len(txc) /\ DOMAIN txc' = DOMAIN txc
        /\ \A o \in DOMAIN txc : txc'[o].vq = txc[o].vq
                                   /\ txc'[o].freed = txc[o].freed
    <2>1. CASE txc_total_weight = 0 /\ UNCHANGED txc
      <3>1. UNCHANGED txVars
        BY <1>2, <2>1 DEF txVars
      <3> QED
        BY <1>4, <2>1, <3>1, TxNotRecomputed
    <2>2. CASE /\ txc_total_weight # 0
               /\ txc' = [o \in DOMAIN txc |->
                            IF \E i \in DOMAIN txc_list : txc_list[i] = o
                              THEN Recomputed(txc[o], txc_total_weight)
                              ELSE txc[o]]
      <3>1. TxInv'
        BY <1>2, <1>4, <2>2, TxRecomputed
      <3>2. txc_total_weight \in Nat \ {0}
        BY <2>2, Summands DEF TxInv
      <3>3. \A o \in DOMAIN txc :
              /\ Recomputed(txc[o], txc_total_weight).vq = txc[o].vq
              /\ Recomputed(txc[o], txc_total_weight).freed = txc[o].freed
        BY <3>2, TxDomain, RecomputedType DEF TxInv
      <3>4. DOMAIN txc' = DOMAIN txc
        BY <2>2
      <3>5. Len(txc') = Len(txc)
        BY <3>1, <3>4, SameLen DEF TxInv
      <3>6. \A o \in DOMAIN txc : txc'[o].vq = txc[o].vq
                                    /\ txc'[o].freed = txc[o].freed
        BY <2>2, <3>3
      <3> QED
        BY <3>1, <3>4, <3>5, <3>6
    <2> QED
      BY <2>1, <2>2 DEF Recompute
  <1>6. /\ VqInv' /\ Len(vq') = Len(vq) /\ DOMAIN vq' = DOMAIN vq
        /\ \A v \in DOMAIN vq : vq'[v].refcnt = vq[v].refcnt
    <2>1. vq' = iso_vq_calculate_rates(vq, vq_list) \/ vq' = vq
      BY DEF Recompute
    <2>2. CASE vq' = vq
      BY <1>2, <2>2, VqQuiet DEF vqVars
    <2>3. CASE vq' = iso_vq_calculate_rates(vq, vq_list)
      <3>1. /\ VqInv' /\ Len(vq') = Len(vq)
            /\ \A v \in DOMAIN vq : vq'[v].refcnt = vq[v].refcnt
        BY <1>2, <2>3, VqAllRecalculated
      <3>2. DOMAIN vq' = DOMAIN vq
        BY SMT, <3>1 DEF VqInv, VqType
      <3> QED
        BY <3>1, <3>2
    <2> QED
      BY <2>1, <2>2, <2>3
  <1>7. RefInv'
    BY <1>5, <1>6, RefKept
  <1>8. /\ Classes \subseteq Classes'
        /\ \A c \in Cpu : held[c].txc # 0 => held[c].txc \in Classes'
    BY <1>5, HeldKept
  <1>9. /\ Len(txc) <= Len(txc') /\ Len(vq) <= Len(vq')
        /\ Len(txc_list) <= Len(txc_list')
    BY <1>2, <1>5, <1>6, Lengths, LeqSelf
  <1>10. req[w].op = "delete_txc" => obj[w] \in Classes' \ tx_hash'
    BY <1>2, <1>8 DEF WriterInv
  <1>11. TxInv' /\ VqInv'
    BY <1>5, <1>6
  <1> QED
    BY <1>2, <1>3, <1>7, <1>8, <1>9, <1>10, <1>11, WorkStep

(* Nobody uses the class that is freed: its deletion has waited for every   *)
(* path that could have found it.                                           *)
LEMMA FreeTxcStep ==
  ASSUME SumFacts, IInv, NEW w \in Writer, FreeTxc(w)
  PROVE  IInv'
  <1> DEFINE o == obj[w]
             t == [txc[o] EXCEPT !.freed = TRUE]
  <1> TxInv /\ VqInv /\ RefInv /\ WriterInv /\ CpuInv
    BY DEF IInv
  <1>2. /\ wpc[w] = "grace" /\ grace[w] = {} /\ req[w].op = "delete_txc"
        /\ 0 \in {0, -EINVAL} /\ Finish(w, "up", 0, 0)
        /\ txc' = [txc EXCEPT ![o].freed = TRUE] /\ vq' = Unreferred(o)
        /\ UNCHANGED <<tx_hash, txc_list, txc_total_weight>>
        /\ UNCHANGED <<vq_hash, vq_list>>
    BY DEF FreeTxc
  <1>3. o \in Classes /\ o \notin tx_hash /\ o \in DOMAIN txc
    BY <1>2 DEF WriterInv, Classes
  <1>4. \A c \in Cpu : held[c].txc # 0 => held[c].txc \in Classes \ {o}
    BY <1>2 DEF CpuInv
  <1> HIDE DEF o
  <1>5. txc \in Seq(TxClass) /\ txc[o] \in TxClass
    BY <1>3, TxDomain DEF TxInv, TxType
  <1>6. t \in TxClass /\ t.freed /\ t.vq = txc[o].vq
    BY <1>5 DEF TxClass
  <1>7. txc' = [txc EXCEPT ![o] = t]
    BY <1>2, <1>3
  <1> HIDE DEF t
  <1>8. /\ Len(txc') = Len(txc) /\ DOMAIN txc' = DOMAIN txc /\ txc'[o] = t
        /\ \A j \in DOMAIN txc \ {o} : txc'[j] = txc[j]
    BY <1>3, <1>5, <1>6, <1>7, UpdateTxc
  <1>9. ~Pending /\ ~Creating /\ ~Pending' /\ ~Creating'
    BY <1>2, NothingPending, FinishControl
  <1>10. UNCHANGED <<tx_hash, txc_list, txc_total_weight>>
    BY <1>2
  <1>11. TxInv'
    BY <1>3, <1>6, <1>7, <1>9, <1>10, TxField
  <1>12. /\ vq' \in Seq(VirtQueue) /\ Len(vq') = Len(vq)
         /\ \A x \in DOMAIN vq :
              /\ vq'[x].klass = vq[x].klass /\ vq'[x].weight = vq[x].weight
              /\ vq'[x].is_static = vq[x].is_static
              /\ vq'[x].rate = vq[x].rate
    BY <1>2, <1>3, UnreferredNext
  <1>13. UNCHANGED <<vq_hash, vq_list>>
    BY <1>2
  <1>14. VqInv'
    BY <1>12, <1>13, VqReferenced
  <1>15. \A x \in DOMAIN txc : /\ txc'[x].vq = txc[x].vq
                               /\ txc'[x].freed = (x = o \/ txc[x].freed)
    <2>1. \A x \in DOMAIN txc : txc[x].freed \in BOOLEAN
      BY TxDomain DEF TxInv, TxClass
    <2> QED
      BY <1>6, <1>8, <2>1
  <1>16. vq' = Unreferred(o)
    BY <1>2
  <1>17. RefInv'
    BY <1>3, <1>8, <1>15, <1>16, RefFreed DEF TxInv
  <1>18. \A c \in Cpu : held[c].txc # 0 => held[c].txc \in Classes'
    BY <1>4, <1>8 DEF Classes
  <1>19. /\ Len(txc) <= Len(txc') /\ Len(vq) <= Len(vq')
         /\ Len(txc_list) <= Len(txc_list')
    BY <1>8, <1>10, <1>12, Lengths, LeqSelf
  <1>20. Finish(w, "up", 0, 0) /\ wpc[w] \notin {"idle", "down"}
         /\ 0 \in {0, -EINVAL}
    BY <1>2
  <1> QED
    BY <1>11, <1>14, <1>17, <1>18, <1>19, <1>20, WorkStep

LEMMA FreeVqStep ==
  ASSUME SumFacts, IInv, NEW w \in Writer, FreeVq(w)
  PROVE  IInv'
  <1> DEFINE v == obj[w]
             u == [vq[v] EXCEPT !.freed = TRUE]
  <1> TxInv /\ VqInv /\ RefInv /\ WriterInv /\ CpuInv
    BY DEF IInv
  <1>2. /\ wpc[w] = "grace" /\ req[w].op = "delete_vq" /\ UNCHANGED txVars
        /\ 0 \in {0, -EINVAL}
    BY DEF FreeVq
  <1>3. v \in DOMAIN vq
    BY <1>2 DEF WriterInv
  <1>4. CASE vq[v].freed
    <2>1. Finish(w, "oops", 0, 0) /\ UNCHANGED vqVars
      BY <1>4 DEF FreeVq
    <2> QED
      BY <1>2, <2>1, ControlStep
  <1>5. CASE ~vq[v].freed
    <2>1. /\ vq' = [vq EXCEPT ![v].freed = TRUE] /\ vq_list' = vq_list \ {v}
          /\ Finish(w, "up", 0, 0) /\ vq_hash' = vq_hash
      BY <1>5 DEF FreeVq
    <2> HIDE DEF v
    <2>2. vq[v] \in VirtQueue /\ vq_list' \subseteq vq_list
      BY <1>3, <2>1, VqDomain DEF VqInv
    <2>3. /\ u \in VirtQueue /\ u.klass = vq[v].klass
          /\ u.weight = vq[v].weight /\ u.refcnt = vq[v].refcnt
          /\ u.is_static = vq[v].is_static /\ u.rate = vq[v].rate
      BY <2>2 DEF VirtQueue
    <2>4. vq' = [vq EXCEPT ![v] = u]
      BY <1>3, <2>1
    <2>5. vq[v].is_static \in BOOLEAN
      BY <2>2 DEF VirtQueue
    <2> HIDE DEF u
    <2>6. u.is_static \/ (~vq[v].is_static /\ u.rate = vq[v].rate)
      BY <2>3, <2>5
    <2>7. vq_hash' = vq_hash
      BY <2>1
    <2>8. /\ VqInv' /\ Len(vq') = Len(vq) /\ vq'[v] = u
          /\ \A j \in DOMAIN vq \ {v} : vq'[j] = vq[j]
      BY <1>3, <2>2, <2>3, <2>4, <2>6, <2>7, VqShrunk
    <2>9. \A x \in DOMAIN vq : vq'[x].refcnt = vq[x].refcnt
      BY <2>3, <2>8
    <2>10. Finish(w, "up", 0, 0) /\ VqInv' /\ Len(vq') = Len(vq)
      BY <2>1, <2>8
    <2> QED
      BY <1>2, <2>9, <2>10, VqWorkStep
  <1> QED
    BY <1>4, <1>5

LEMMA OtherWriterSteps ==
  ASSUME IInv, NEW w \in Writer,
         \/ \E r \in Requests : Write(w, r)
         \/ Down(w) \/ Interrupted(w) \/ BadWrite(w) \/ RecomputeDev(w)
         \/ \E k \in Klass : GarbledCreate(w, k)
         \/ Up(w) \/ ReturnLocked(w)
  PROVE  IInv'
  <1> WriterInv /\ WriterType
    BY DEF IInv, WriterInv
  <1>2. NoRequest \in Request /\ Requests \subseteq Request
    BY ConfigAssumption DEF ConfigAssumption, NoRequest
  <1>3. ASSUME NEW r \in Requests, Write(w, r) PROVE IInv'
    <2>1. WriterType'
      BY <1>2, <1>3 DEF Write, WriterType
    <2>2. /\ wpc[w] = "idle" /\ wpc'[w] = "down" /\ config_mutex' = config_mutex
          /\ \A x \in Writer \ {w} : wpc'[x] = wpc[x] /\ req'[x] = req[x]
          /\ UNCHANGED <<txVars, txc_spinlock, ctx_rate, vqVars, obj, grace,
                         cpuVars>>
      BY <1>3 DEF Write, WriterType
    <2>3. \A x \in Writer :
            wpc'[x] \notin {"idle", "down"} => config_mutex' = x
      BY <2>2 DEF WriterInv
    <2> QED
      BY <2>1, <2>2, <2>3, TurnStep
  <1>4. CASE Down(w)
    <2>1. WriterType'
      BY <1>4 DEF Down, MutexFree, WriterType
    <2>2. /\ wpc[w] = "down" /\ wpc'[w] = "body" /\ config_mutex' = w
          /\ config_mutex = None
          /\ \A x \in Writer \ {w} : wpc'[x] = wpc[x] /\ req'[x] = req[x]
          /\ UNCHANGED <<txVars, txc_spinlock, ctx_rate, vqVars, obj, grace,
                         cpuVars>>
      BY <1>4 DEF Down, MutexFree, WriterType
    <2>3. \A x \in Writer :
            wpc'[x] \notin {"idle", "down"} => config_mutex' = x
      BY <2>2, ConfigAssumption DEF WriterInv, ConfigAssumption
    <2> QED
      BY <2>1, <2>2, <2>3, TurnStep
  <1>5. CASE Interrupted(w)
    <2>1. WriterType'
      BY <1>2, <1>5 DEF Interrupted, WriterType
    <2>2. /\ wpc[w] = "down" /\ wpc'[w] = "idle" /\ config_mutex' = config_mutex
          /\ \A x \in Writer \ {w} : wpc'[x] = wpc[x] /\ req'[x] = req[x]
          /\ UNCHANGED <<txVars, txc_spinlock, ctx_rate, vqVars, obj, grace,
                         cpuVars>>
      BY <1>5 DEF Interrupted, WriterType
    <2>3. \A x \in Writer :
            wpc'[x] \notin {"idle", "down"} => config_mutex' = x
      BY <2>2 DEF WriterInv
    <2> QED
      BY <2>1, <2>2, <2>3, TurnStep
  <1>6. CASE BadWrite(w)
    <2>1. PICK p \in {"up", "leaked"}, e \in {0, -EINVAL} : Finish(w, p, 0, e)
      BY <1>6 DEF BadWrite, BadForm
    <2>2. wpc[w] = "body" /\ UNCHANGED txVars /\ UNCHANGED vqVars
      BY <1>6 DEF BadWrite
    <2> QED
      BY <2>1, <2>2, ControlStep
  <1>7. CASE RecomputeDev(w)
    <2>1. /\ wpc[w] = "body" /\ req[w].op = "recompute_dev"
          /\ Finish(w, "recompute", 0, 0) /\ 0 \in {0, -EINVAL}
          /\ UNCHANGED txVars /\ UNCHANGED vqVars
      BY <1>7 DEF RecomputeDev, InBody
    <2> QED
      BY <2>1, ControlStep
  <1>8. CASE Up(w) \/ ReturnLocked(w)
    <2>1. WriterType'
      BY SMT, <1>2, <1>8 DEF Up, ReturnLocked, WriterType
    <2>2. /\ wpc[w] \in {"up", "leaked"} /\ wpc'[w] = "idle"
          /\ \A x \in Writer \ {w} : wpc'[x] = wpc[x] /\ req'[x] = req[x]
          /\ UNCHANGED <<txVars, txc_spinlock, ctx_rate, vqVars, obj, grace,
                         cpuVars>>
      BY <1>8 DEF Up, ReturnLocked, WriterType
    <2>3. \A x \in Writer \ {w} : wpc[x] \in {"idle", "down"}
      BY <2>2, OthersWait
    <2>4. \A x \in Writer :
            wpc'[x] \notin {"idle", "down"} => config_mutex' = x
      BY <2>2, <2>3
    <2> QED
      BY <2>1, <2>2, <2>4, TurnStep
  <1>9. ASSUME NEW k \in Klass, GarbledCreate(w, k) PROVE IInv'
    <2> DEFINE r == [req[w] EXCEPT !.form = "ok", !.a = k]
    <2>1. r \in Request
      <3>1. req[w] \in Request
        BY RequestType
      <3> QED
        BY <3>1 DEF Request
    <2>2. /\ wpc[w] = "body" /\ req' = [req EXCEPT ![w] = r] /\ wpc' = wpc
          /\ UNCHANGED <<config_mutex, ret>>
          /\ UNCHANGED <<txVars, txc_spinlock, ctx_rate, vqVars, obj, grace,
                         cpuVars>>
      BY <1>9 DEF GarbledCreate
    <2> HIDE DEF r
    <2>3. WriterType'
      BY <2>1, <2>2 DEF WriterType
    <2>4. \A x \in Writer \ {w} : wpc'[x] = wpc[x] /\ req'[x] = req[x]
      BY <2>2 DEF WriterType
    <2>5. \A x \in Writer :
            wpc'[x] \notin {"idle", "down"} => config_mutex' = x
      BY <2>2 DEF WriterInv
    <2> QED
      BY <2>2, <2>3, <2>4, <2>5, TurnStep
  <1> QED
    BY <1>3, <1>4, <1>5, <1>6, <1>7, <1>8, <1>9

-----------------------------------------------------------------------------
(* The steps of the packet paths.                                           *)

LEMMA RcpRateType ==
  ASSUME NEW r \in Nat, NEW tx \in Nat
  PROVE  RcpRate(r, tx) \in 0..Max2(2, ISO_MAX_TX_RATE)
  <1> DEFINE a == (3 * ISO_MAX_TX_RATE - tx) % U32
             b == (r * a) % U32
             next == b \div (2 * ISO_MAX_TX_RATE)
  <1>1. /\ ISO_MAX_TX_RATE \in Nat \ {0} /\ U32 \in Nat \ {0}
        /\ ISO_MIN_RFAIR \in Nat /\ ISO_MIN_RFAIR <= ISO_MAX_TX_RATE
    BY ConfigAssumption DEF ConfigAssumption
  <1>2. a \in Nat
    BY SMT, <1>1
  <1> HIDE DEF a
  <1>3. r * a \in Nat
    BY SMT, <1>2
  <1>4. b \in Nat
    BY SMT, <1>1, <1>3
  <1> HIDE DEF b
  <1>5. next \in Int
    BY SMT, <1>1, <1>4
  <1> HIDE DEF next
  <1>6. RcpRate(r, tx) = Max2(ISO_MIN_RFAIR, Min2(ISO_MAX_TX_RATE, next))
    BY DEF RcpRate, next, b, a
  <1> QED
    BY SMT, <1>1, <1>5, <1>6 DEF Max2, Min2

(* A packet path that leaves classes and queues alone.                      *)
LEMMA PathStep ==
  ASSUME IInv, UNCHANGED txVars, UNCHANGED vqVars,
         UNCHANGED <<config_mutex, wpc, req, obj, ret>>,
         grace' \in [Writer -> SUBSET Cpu], CpuInv'
  PROVE  IInv'
  <1> TxInv /\ VqInv /\ RefInv /\ WriterInv /\ AllocInv
    BY DEF IInv
  <1>2. /\ txc' = txc /\ tx_hash' = tx_hash /\ vq' = vq
        /\ Classes' = Classes /\ RefInv'
    BY SameObjects
  <1>3. WriterInv' /\ (Pending' <=> Pending) /\ (Creating' <=> Creating)
    BY <1>2, WriterKept
  <1>4. TxInv'
    BY <1>3, TxQuiet
  <1>5. VqInv'
    BY VqQuiet
  <1>6. AllocInv'
    BY <1>2 DEF AllocInv, Missing
  <1> QED
    BY <1>2, <1>3, <1>4, <1>5, <1>6 DEF IInv

LEMMA TickStartStep ==
  ASSUME IInv, NEW c \in Cpu, NEW tx \in TxRates, TickStart(c, tx)
  PROVE  IInv'
  <1> CpuInv /\ CpuType /\ WriterType
    BY DEF IInv, CpuInv, WriterInv
  <1>2. /\ cpc[c] = "idle" /\ txc_spinlock' = c
        /\ ctx_rate' = RcpRate(ctx_rate, tx)
        /\ cpc' = [cpc EXCEPT ![c] = "tick"]
        /\ cur' = [cur EXCEPT ![c] = IF txc_list = <<>> THEN 0 ELSE 1]
        /\ UNCHANGED txVars /\ UNCHANGED vqVars
        /\ UNCHANGED <<config_mutex, wpc, req, obj, ret>>
        /\ grace' = grace /\ held' = held /\ clk' = clk
    BY DEF TickStart, writerVars
  <1>3. /\ txc' = txc /\ txc_list' = txc_list /\ vq' = vq
        /\ Classes' = Classes
    BY <1>2, SameObjects
  <1>4. tx \in Nat /\ ctx_rate \in Nat
    BY SMT, ConfigAssumption DEF ConfigAssumption, CpuType
  <1>5. ctx_rate' \in 0..Max2(2, ISO_MAX_TX_RATE)
    BY <1>2, <1>4, RcpRateType
  <1>6. cur' \in [Cpu -> 0..Len(txc_list)]
    <2>1. (IF txc_list = <<>> THEN 0 ELSE 1) \in 0..Len(txc_list)
      <3>1. txc_list \in Seq(DOMAIN txc)
        BY DEF IInv, TxInv, TxType
      <3> QED
        BY SMT, <3>1
    <2> QED
      BY <1>2, <2>1 DEF CpuType
  <1>7. CpuType'
    <2>1. cpc' \in [Cpu -> {"idle", "tick", "ticked"} \cup InUse]
      BY <1>2 DEF CpuType
    <2>2. txc_spinlock' \in Writer \cup Cpu \cup {None}
      BY <1>2
    <2> QED
      BY <1>2, <1>3, <1>5, <1>6, <2>1, <2>2 DEF CpuType
  <1>8. \A d \in Cpu : /\ held[d].txc # 0 => cpc'[d] \in InUse
                       /\ cpc'[d] = "clock" => clk'[d].txc # 0
    BY <1>2 DEF CpuInv, CpuType, InUse
  <1>9. CpuInv'
    BY <1>2, <1>3, <1>7, <1>8, CpuKept
  <1>10. grace' \in [Writer -> SUBSET Cpu]
    BY <1>2 DEF WriterType
  <1> QED
    BY <1>2, <1>9, <1>10, PathStep

(* A packet path that gives a class a rate.                                 *)
LEMMA RateStep ==
  ASSUME IInv, NEW o \in DOMAIN txc, NEW r \in Nat, NEW b \in BOOLEAN,
         RatedStep(o, r, b),
         o \in tx_hash /\ ~b =>
           LET cap == IF txc[o].is_static THEN txc[o].max_rate
                                          ELSE ISO_MAX_TX_RATE
           IN  r \in Min2(txc[o].min_rate, cap)..cap,
         UNCHANGED vqVars, UNCHANGED <<config_mutex, wpc, req, obj, ret>>,
         grace' = grace,
         Len(txc') = Len(txc) /\ Classes' = Classes => CpuInv'
  PROVE  IInv'
  <1> /\ TxInv /\ VqInv /\ RefInv /\ WriterInv /\ AllocInv
      /\ TxType /\ WriterType
    BY DEF IInv, TxInv, WriterInv
  <1>1. /\ Len(txc') = Len(txc) /\ DOMAIN txc' = DOMAIN txc
        /\ \A x \in DOMAIN txc :
             /\ txc'[x].klass = txc[x].klass /\ txc'[x].vq = txc[x].vq
             /\ txc'[x].freed = txc[x].freed
    BY RatedClasses
  <1>2. Classes' = Classes
    BY <1>1 DEF Classes
  <1>3. vq' = vq /\ tx_hash' = tx_hash
    BY DEF vqVars, RatedStep
  <1>4. RefInv'
    BY <1>1, <1>3, RefKept
  <1>5. grace' \in [Writer -> SUBSET Cpu]
    BY DEF WriterType
  <1>6. WriterInv' /\ (Pending' <=> Pending) /\ (Creating' <=> Creating)
    BY <1>2, <1>3, <1>5, WriterKept
  <1>7. TxInv'
    BY <1>6, TxRated
  <1>8. VqInv'
    BY VqQuiet
  <1>9. AllocInv'
    <2>1. \A x \in tx_hash : txc'[x].klass = txc[x].klass
      BY <1>1 DEF TxType
    <2> QED
      BY <1>3, <2>1 DEF AllocInv, Missing
  <1> QED
    BY <1>1, <1>2, <1>4, <1>6, <1>7, <1>8, <1>9 DEF IInv

LEMMA TickClassStep ==
  ASSUME IInv, NEW c \in Cpu, TickClass(c)
  PROVE  IInv'
  <1> DEFINE o == txc_list[cur[c]]
             r == TickRate(txc[o])
  <1> TxInv /\ CpuInv /\ TxType /\ CpuType
    BY DEF IInv, TxInv, CpuInv
  <1>2. /\ cur[c] # 0 /\ RatedStep(o, r, FALSE)
        /\ cur' = [cur EXCEPT ![c] =
                     IF cur[c] < Len(txc_list) THEN cur[c] + 1 ELSE 0]
        /\ txc_list' = txc_list /\ UNCHANGED vqVars
        /\ UNCHANGED <<txc_spinlock, ctx_rate, cpc, held, clk>>
        /\ UNCHANGED <<config_mutex, wpc, req, obj, ret>> /\ grace' = grace
    BY DEF TickClass, writerVars, RatedStep
  <1>3. cur[c] \in 1..Len(txc_list) /\ Len(txc_list) \in Nat
    <2>1. cur[c] \in 0..Len(txc_list) /\ Len(txc_list) \in Nat
      BY Lengths DEF CpuType
    <2> QED
      BY <1>2, <2>1, NotZero
  <1>4. o \in DOMAIN txc
    BY <1>3, ListedClass
  <1>5. ctx_rate \in Nat
    BY SMT DEF CpuType
  <1> HIDE DEF o
  <1>6. txc[o] \in TxClass
    BY <1>4, TxDomain DEF TxType
  <1>7. r \in Nat
    BY <1>5, <1>6, TickRateType
  <1>8. o \in tx_hash =>
          LET cap == IF txc[o].is_static THEN txc[o].max_rate
                                         ELSE ISO_MAX_TX_RATE
          IN  r \in Min2(txc[o].min_rate, cap)..cap
    BY <1>5, <1>6, TickRateKeepsContract DEF TxInv
  <1> HIDE DEF r
  <1>9. ASSUME Len(txc') = Len(txc), Classes' = Classes PROVE CpuInv'
    <2> DEFINE m == IF cur[c] < Len(txc_list) THEN cur[c] + 1 ELSE 0
    <2>1. m \in 0..Len(txc_list) /\ cur' = [cur EXCEPT ![c] = m]
      BY SMT, <1>2, <1>3
    <2> HIDE DEF m
    <2>2. cur' \in [Cpu -> 0..Len(txc_list)]
      BY <2>1 DEF CpuType
    <2>3. vq' = vq
      BY <1>2 DEF vqVars
    <2>4. CpuType'
      BY <1>2, <1>9, <2>2, <2>3 DEF CpuType
    <2>5. \A d \in Cpu : /\ held'[d].txc = held[d].txc
                         /\ held[d].txc # 0 => cpc'[d] \in InUse
                         /\ cpc'[d] = "clock" => clk'[d].txc # 0
      BY <1>2 DEF CpuInv
    <2>6. UNCHANGED <<wpc, req, obj, grace>>
      BY <1>2
    <2> QED
      BY <1>9, <2>4, <2>5, <2>6, CpuKept
  <1> QED
    BY <1>2, <1>4, <1>7, <1>8, <1>9, RateStep

LEMMA TickEndStep ==
  ASSUME IInv, NEW c \in Cpu, TickEnd(c)
  PROVE  IInv'
  <1> CpuInv /\ CpuType /\ WriterType
    BY DEF IInv, CpuInv, WriterInv
  <1>1. /\ cpc[c] = "tick" /\ txc_spinlock' = None
        /\ cpc' = [cpc EXCEPT ![c] = "ticked"]
        /\ UNCHANGED txVars /\ UNCHANGED vqVars
        /\ UNCHANGED <<config_mutex, wpc, req, obj, ret>>
        /\ UNCHANGED <<grace, ctx_rate, cur, held, clk>>
    BY DEF TickEnd, writerVars
  <1>2. /\ txc' = txc /\ txc_list' = txc_list /\ vq' = vq
        /\ Classes' = Classes
    BY <1>1, SameObjects
  <1>3. CpuType'
    BY <1>1, <1>2 DEF CpuType
  <1>4. \A d \in Cpu : /\ held[d].txc # 0 => cpc'[d] \in InUse
                       /\ cpc'[d] = "clock" => clk'[d].txc # 0
    BY <1>1 DEF CpuInv, CpuType, InUse
  <1>5. CpuInv'
    BY <1>1, <1>2, <1>3, <1>4, CpuKept
  <1>6. grace' \in [Writer -> SUBSET Cpu]
    BY <1>1 DEF WriterType
  <1> QED
    BY <1>1, <1>5, <1>6, PathStep

(* A look-up that stands on an entry of the table or is at the end.         *)
LEMMA StandStep ==
  ASSUME IInv, NEW c \in Cpu, NEW k \in Klass \cup {None},
         NEW o \in tx_hash \cup {0}, NEW v \in 0..Len(vq), StandOn(c, k, o, v)
  PROVE  IInv'
  <1> DEFINE h == [key |-> IF o = 0 THEN None ELSE k, txc |-> o, vq |-> v]
             q == IF o = 0 THEN "reading" ELSE "walk"
  <1> /\ TxInv /\ WriterInv /\ CpuInv /\ TxType /\ CpuType /\ WriterType
    BY DEF IInv, TxInv, WriterInv, CpuInv
  <1>1. /\ cpc' = [cpc EXCEPT ![c] = q] /\ held' = [held EXCEPT ![c] = h]
        /\ UNCHANGED txVars /\ UNCHANGED vqVars
        /\ UNCHANGED <<config_mutex, wpc, req, obj, ret>>
        /\ UNCHANGED <<grace, txc_spinlock, ctx_rate, cur, clk>>
    BY DEF StandOn, writerVars
  <1>2. q \in InUse /\ q # "clock"
    BY DEF InUse
  <1>3. o \in 0..Len(txc) /\ (o # 0 => o \in Classes /\ o \in tx_hash)
    BY SMT, TxDomain DEF TxInv, TxType, Classes
  <1>4. h \in HeldType(Len(txc), Len(vq)) /\ h.txc = o
    BY <1>3 DEF HeldType
  <1> HIDE DEF h, q
  <1>6. /\ txc' = txc /\ txc_list' = txc_list /\ vq' = vq
        /\ Classes' = Classes
    BY <1>1, SameObjects
  <1>7. CpuType'
    <2>1. held' \in [Cpu -> HeldType(Len(txc), Len(vq))]
      BY <1>1, <1>4 DEF CpuType
    <2>2. cpc' \in [Cpu -> {"idle", "tick", "ticked"} \cup InUse]
      BY <1>1, <1>2 DEF CpuType
    <2> QED
      BY <1>1, <1>6, <2>1, <2>2 DEF CpuType
  <1>8. /\ held'[c] = h /\ cpc'[c] = q
        /\ \A d \in Cpu \ {c} : held'[d] = held[d] /\ cpc'[d] = cpc[d]
    BY <1>1 DEF CpuType
  <1>9. ASSUME NEW d \in Cpu, held'[d].txc # 0
        PROVE  /\ cpc'[d] \in InUse /\ held'[d].txc \in Classes'
               /\ \A w \in Writer :
                    wpc'[w] = "grace" /\ req'[w].op = "delete_txc"
                      /\ obj'[w] = held'[d].txc => d \in grace'[w]
    <2>1. CASE d = c
      <3>1. held'[d].txc = o
        BY <1>4, <1>8, <2>1
      <3>2. cpc'[d] \in InUse
        BY <1>2, <1>8, <2>1
      <3>3. held'[d].txc \in Classes' /\ held'[d].txc \in tx_hash
        BY <1>3, <1>6, <1>9, <3>1
      <3>4. \A w \in Writer : wpc[w] = "grace" /\ req[w].op = "delete_txc"
                                => obj[w] \notin tx_hash
        BY DEF WriterInv
      <3>5. wpc' = wpc /\ req' = req /\ obj' = obj
        BY <1>1
      <3> QED
        BY <3>2, <3>3, <3>4, <3>5
    <2>2. CASE d # c
      <3>1. held'[d] = held[d] /\ cpc'[d] = cpc[d] /\ held[d].txc # 0
        BY <1>8, <1>9, <2>2
      <3>2. /\ wpc' = wpc /\ req' = req /\ obj' = obj
            /\ \A w \in Writer : d \in grace[w] => d \in grace'[w]
        BY <1>1
      <3> QED
        BY <1>6, <3>1, <3>2, CpuKeptAt
    <2> QED
      BY <2>1, <2>2
  <1>10. \A d \in Cpu : cpc'[d] = "clock" => clk'[d].txc # 0
    BY <1>1, <1>2, <1>8 DEF CpuInv
  <1>11. CpuInv'
    BY <1>7, <1>9, <1>10 DEF CpuInv
  <1>12. grace' \in [Writer -> SUBSET Cpu]
    BY <1>1 DEF WriterType
  <1> QED
    BY <1>1, <1>11, <1>12, PathStep

LEMMA LookupSteps ==
  ASSUME SumFacts, IInv, NEW c \in Cpu,
         \E k \in Klass : TxLookup(c, k) \/ RxLookup(c, k)
  PROVE  IInv'
  <1> VqInv /\ TxType
    BY DEF IInv, TxInv
  <1>1. \A k : FirstOf(Chain(k)) \in tx_hash \cup {0}
    <2>1. \A k : Chain(k) \in SUBSET tx_hash
      BY DEF Chain
    <2> QED
      BY <2>1, FirstOfIs
  <1>2. ASSUME NEW k \in Klass, TxLookup(c, k) PROVE IInv'
    <2>1. 0 \in 0..Len(vq)
      BY SMT, Lengths
    <2>2. StandOn(c, k, FirstOf(Chain(k)), 0) /\ k \in Klass \cup {None}
      BY <1>2 DEF TxLookup
    <2> QED
      BY <1>1, <2>1, <2>2, StandStep
  <1>3. ASSUME NEW k \in Klass, RxLookup(c, k) PROVE IInv'
    <2> DEFINE v == iso_vq_find(k)
    <2>1. v \in DOMAIN vq
      BY <1>3, VqFind DEF RxLookup
    <2>2. StandOn(c, k, FirstOf(Chain(k)), v) /\ k \in Klass \cup {None}
      BY <1>3 DEF RxLookup
    <2> HIDE DEF v
    <2>3. v \in 0..Len(vq)
      BY <2>1, QueueIndex
    <2> QED
      BY <1>1, <2>2, <2>3, StandStep
  <1> QED
    BY <1>2, <1>3

LEMMA WalkSteps ==
  ASSUME SumFacts, IInv, NEW c \in Cpu,
         WalkFound(c) \/ WalkNext(c) \/ WalkPoisoned(c)
  PROVE  IInv'
  <1> TxType /\ CpuInv /\ CpuType /\ WriterType
    BY DEF IInv, TxInv, CpuInv, WriterInv
  <1>1. held[c] \in HeldType(Len(txc), Len(vq))
    BY DEF CpuType
  <1>2. CASE WalkNext(c)
    <2> DEFINE o == held[c].txc
               k == held[c].key
               S == {x \in Chain(k) : x < o}
    <2>1. S \in SUBSET tx_hash
      BY DEF Chain
    <2>2. k \in Klass \cup {None} /\ held[c].vq \in 0..Len(vq)
      BY <1>1 DEF HeldType
    <2>3. StandOn(c, k, FirstOf(S), held[c].vq)
      BY <1>2 DEF WalkNext
    <2> HIDE DEF S, k, o
    <2>4. FirstOf(S) \in tx_hash \cup {0}
      BY <2>1, FirstOfIs
    <2> QED
      BY <2>2, <2>3, <2>4, StandStep
  <1>3. CASE WalkFound(c) \/ WalkPoisoned(c)
    <2>1. /\ UNCHANGED txVars /\ UNCHANGED vqVars
          /\ UNCHANGED <<config_mutex, wpc, req, obj, ret>>
          /\ UNCHANGED <<grace, txc_spinlock, ctx_rate, cur, clk>>
      BY <1>3 DEF WalkFound, WalkPoisoned, writerVars
    <2>2. PICK p \in {"reading", "oops"} : cpc' = [cpc EXCEPT ![c] = p]
      BY <1>3 DEF WalkFound, WalkPoisoned
    <2>3. /\ held' \in [Cpu -> HeldType(Len(txc), Len(vq))]
          /\ \A d \in Cpu : held'[d].txc = held[d].txc
      <3>1. CASE held' = [held EXCEPT ![c].key = None]
        <4> DEFINE h == [held[c] EXCEPT !.key = None]
        <4>1. h \in HeldType(Len(txc), Len(vq)) /\ h.txc = held[c].txc
          BY <1>1 DEF HeldType
        <4>2. held' = [held EXCEPT ![c] = h]
          BY <3>1
        <4> HIDE DEF h
        <4> QED
          BY <4>1, <4>2 DEF CpuType
      <3>2. CASE held' = held
        BY <3>2 DEF CpuType
      <3> QED
        BY <1>3, <3>1, <3>2 DEF WalkFound, WalkPoisoned
    <2>4. /\ txc' = txc /\ txc_list' = txc_list /\ vq' = vq
          /\ Classes' = Classes
      BY <2>1, SameObjects
    <2>5. p \in InUse /\ p # "clock"
      BY DEF InUse
    <2>6. CpuType'
      <3>1. cpc' \in [Cpu -> {"idle", "tick", "ticked"} \cup InUse]
        BY <2>2, <2>5 DEF CpuType
      <3> QED
        BY <2>1, <2>3, <2>4, <3>1 DEF CpuType
    <2>7. \A d \in Cpu : /\ held[d].txc # 0 => cpc'[d] \in InUse
                         /\ cpc'[d] = "clock" => clk'[d].txc # 0
      BY <2>1, <2>2, <2>5 DEF CpuInv, CpuType
    <2>8. CpuInv'
      BY <2>1, <2>3, <2>4, <2>6, <2>7, CpuKept
    <2>9. grace' \in [Writer -> SUBSET Cpu]
      BY <2>1 DEF WriterType
    <2> QED
      BY <2>1, <2>8, <2>9, PathStep
  <1> QED
    BY <1>2, <1>3

LEMMA ClockedRateType ==
  ASSUME NEW r \in Nat, NEW idle, NEW late
  PROVE  ClockedRate(r, idle, late) \in Nat
  <1> DEFINE awake == IF idle /\ r > ISO_IDLE_RATE THEN ISO_IDLE_RATE ELSE r
  <1>1. awake \in Nat
    BY ConfigAssumption DEF ConfigAssumption
  <1> HIDE DEF awake
  <1>2. Max2(2, awake \div 2) \in Nat
    BY SMT, <1>1 DEF Max2
  <1> QED
    BY <1>1, <1>2 DEF ClockedRate, awake

LEMMA ClockReadStep ==
  ASSUME IInv, NEW c \in Cpu, NEW o \in Classes, NEW idle, NEW late,
         ClockRead(c, o, idle, late)
  PROVE  IInv'
  <1> DEFINE r == ClockedRate(txc[o].rate, idle, late)
             t == [txc |-> o, rate |-> r]
  <1> TxType /\ CpuInv /\ CpuType /\ WriterType
    BY DEF IInv, TxInv, CpuInv, WriterInv
  <1>1. /\ clk' = [clk EXCEPT ![c] = t] /\ cpc' = [cpc EXCEPT ![c] = "clock"]
        /\ UNCHANGED txVars /\ UNCHANGED vqVars
        /\ UNCHANGED <<config_mutex, wpc, req, obj, ret>>
        /\ UNCHANGED <<grace, txc_spinlock, ctx_rate, cur, held>>
    BY DEF ClockRead, writerVars
  <1>2. o \in 0..Len(txc) /\ o # 0 /\ txc[o] \in TxClass
    BY SMT, TxDomain DEF Classes
  <1>3. r \in Nat
    BY <1>2, ClassFields, ClockedRateType
  <1> HIDE DEF r
  <1>4. t \in ClockType(Len(txc)) /\ t.txc # 0
    BY <1>2, <1>3 DEF ClockType
  <1> HIDE DEF t
  <1>5. /\ txc' = txc /\ txc_list' = txc_list /\ vq' = vq
        /\ Classes' = Classes
    BY <1>1, SameObjects
  <1>6. "clock" \in InUse
    BY DEF InUse
  <1>7. CpuType'
    <2>1. cpc' \in [Cpu -> {"idle", "tick", "ticked"} \cup InUse]
      BY <1>1, <1>6 DEF CpuType
    <2>2. clk' \in [Cpu -> ClockType(Len(txc))]
      BY <1>1, <1>4 DEF CpuType
    <2> QED
      BY <1>1, <1>5, <2>1, <2>2 DEF CpuType
  <1>8. \A d \in Cpu : /\ held[d].txc # 0 => cpc'[d] \in InUse
                       /\ cpc'[d] = "clock" => clk'[d].txc # 0
    <2>1. /\ cpc'[c] = "clock" /\ clk'[c] = t
          /\ \A d \in Cpu \ {c} : cpc'[d] = cpc[d] /\ clk'[d] = clk[d]
      BY <1>1 DEF CpuType
    <2> QED
      BY <1>4, <1>6, <2>1 DEF CpuInv
  <1>9. CpuInv'
    BY <1>1, <1>5, <1>7, <1>8, CpuKept
  <1>10. grace' \in [Writer -> SUBSET Cpu]
    BY <1>1 DEF WriterType
  <1> QED
    BY <1>1, <1>9, <1>10, PathStep

LEMMA ClockWriteStep ==
  ASSUME IInv, NEW c \in Cpu, ClockWrite(c)
  PROVE  IInv'
  <1> DEFINE o == clk[c].txc
             r == clk[c].rate
             p == IF held[c] = Nothing THEN "idle" ELSE "reading"
  <1> TxType /\ CpuInv /\ CpuType
    BY DEF IInv, TxInv, CpuInv
  <1>1. /\ cpc[c] = "clock" /\ RatedStep(o, r, TRUE)
        /\ clk' = [clk EXCEPT ![c] = NoClock] /\ cpc' = [cpc EXCEPT ![c] = p]
        /\ txc_list' = txc_list /\ UNCHANGED vqVars
        /\ UNCHANGED <<txc_spinlock, ctx_rate, cur, held>>
        /\ UNCHANGED <<config_mutex, wpc, req, obj, ret>> /\ grace' = grace
    BY DEF ClockWrite, writerVars, RatedStep
  <1>2. o \in 0..Len(txc) /\ o # 0 /\ r \in Nat
    BY <1>1 DEF CpuInv, CpuType, ClockType
  <1> HIDE DEF o, r
  <1>3. o \in DOMAIN txc
    BY SMT, <1>2, TxDomain
  <1>4. /\ p \in {"idle", "tick", "ticked"} \cup InUse /\ p # "clock"
        /\ held[c].txc # 0 => p \in InUse
    BY NothingHeld DEF InUse
  <1> HIDE DEF p
  <1>5. ASSUME Len(txc') = Len(txc), Classes' = Classes PROVE CpuInv'
    <2>1. vq' = vq
      BY <1>1 DEF vqVars
    <2>2. NoClock \in ClockType(Len(txc))
      BY SMT, Lengths DEF NoClock, ClockType
    <2>3. CpuType'
      <3>1. cpc' \in [Cpu -> {"idle", "tick", "ticked"} \cup InUse]
        BY <1>1, <1>4 DEF CpuType
      <3>2. clk' \in [Cpu -> ClockType(Len(txc))]
        BY <1>1, <2>2 DEF CpuType
      <3> QED
        BY <1>1, <1>5, <2>1, <3>1, <3>2 DEF CpuType
    <2>4. \A d \in Cpu : /\ held'[d].txc = held[d].txc
                         /\ held[d].txc # 0 => cpc'[d] \in InUse
                         /\ cpc'[d] = "clock" => clk'[d].txc # 0
      <3>1. /\ cpc'[c] = p
            /\ \A d \in Cpu \ {c} : cpc'[d] = cpc[d] /\ clk'[d] = clk[d]
        BY <1>1 DEF CpuType
      <3> QED
        BY <1>1, <1>4, <3>1 DEF CpuInv
    <2>5. UNCHANGED <<wpc, req, obj, grace>>
      BY <1>1
    <2> QED
      BY <1>5, <2>3, <2>4, <2>5, CpuKept
  <1> QED
    BY <1>1, <1>2, <1>3, <1>5, RateStep

LEMMA ReadUnlockStep ==
  ASSUME IInv, NEW c \in Cpu, ReadUnlock(c)
  PROVE  IInv'
  <1> CpuInv /\ CpuType /\ WriterType
    BY DEF IInv, CpuInv, WriterInv
  <1>1. /\ cpc[c] = "reading" /\ cpc' = [cpc EXCEPT ![c] = "idle"]
        /\ held' = [held EXCEPT ![c] = Nothing]
        /\ grace' = [w \in Writer |-> grace[w] \ {c}]
        /\ UNCHANGED txVars /\ UNCHANGED vqVars
        /\ UNCHANGED <<config_mutex, wpc, req, obj, ret>>
        /\ UNCHANGED <<txc_spinlock, ctx_rate, cur, clk>>
    BY DEF ReadUnlock
  <1>2. /\ txc' = txc /\ txc_list' = txc_list /\ vq' = vq
        /\ Classes' = Classes
    BY <1>1, SameObjects
  <1>3. Nothing \in HeldType(Len(txc), Len(vq)) /\ Nothing.txc = 0
    BY SMT, Lengths DEF Nothing, HeldType
  <1>4. CpuType'
    <2>1. held' \in [Cpu -> HeldType(Len(txc), Len(vq))]
      BY <1>1, <1>3 DEF CpuType
    <2>2. cpc' \in [Cpu -> {"idle", "tick", "ticked"} \cup InUse]
      BY <1>1 DEF CpuType
    <2> QED
      BY <1>1, <1>2, <2>1, <2>2 DEF CpuType
  <1>5. /\ held'[c].txc = 0 /\ cpc'[c] = "idle"
        /\ \A d \in Cpu \ {c} :
             /\ held'[d] = held[d] /\ cpc'[d] = cpc[d]
             /\ \A w \in Writer : d \in grace[w] => d \in grace'[w]
    BY <1>1, <1>3 DEF CpuType
  <1>6. ASSUME NEW d \in Cpu, held'[d].txc # 0
        PROVE  /\ cpc'[d] \in InUse /\ held'[d].txc \in Classes'
               /\ \A w \in Writer :
                    wpc'[w] = "grace" /\ req'[w].op = "delete_txc"
                      /\ obj'[w] = held'[d].txc => d \in grace'[w]
    <2>1. /\ held'[d] = held[d] /\ cpc'[d] = cpc[d] /\ held[d].txc # 0
          /\ \A w \in Writer : d \in grace[w] => d \in grace'[w]
      BY <1>5, <1>6
    <2>2. wpc' = wpc /\ req' = req /\ obj' = obj
      BY <1>1
    <2> QED
      BY <1>2, <2>1, <2>2, CpuKeptAt
  <1>7. \A d \in Cpu : cpc'[d] = "clock" => clk'[d].txc # 0
    BY <1>1, <1>5 DEF CpuInv
  <1>8. CpuInv'
    BY <1>4, <1>6, <1>7 DEF CpuInv
  <1>9. grace' \in [Writer -> SUBSET Cpu]
    BY <1>1 DEF WriterType
  <1> QED
    BY <1>1, <1>8, <1>9, PathStep

-----------------------------------------------------------------------------
(* The inductive invariant.                                                 *)

LEMMA Unchanged == IInv /\ UNCHANGED vars => IInv'
  <1> SUFFICES ASSUME IInv, UNCHANGED vars PROVE IInv'
    OBVIOUS
  <1>1. /\ UNCHANGED txVars /\ UNCHANGED vqVars
        /\ UNCHANGED <<config_mutex, wpc, req, obj, ret>>
        /\ UNCHANGED <<grace, txc_spinlock, ctx_rate, cpc, cur, held, clk>>
    BY DEF vars, writerVars, cpuVars
  <1>2. /\ txc' = txc /\ txc_list' = txc_list /\ vq' = vq
        /\ Classes' = Classes
    BY <1>1, SameObjects
  <1>3. CpuInv /\ CpuType /\ WriterType
    BY DEF IInv, CpuInv, WriterInv
  <1>4. CpuType'
    BY <1>1, <1>2, <1>3 DEF CpuType
  <1>5. CpuInv'
    <2>1. \A c \in Cpu : /\ held[c].txc # 0 => cpc[c] \in InUse
                         /\ cpc[c] = "clock" => clk[c].txc # 0
      BY <1>3 DEF CpuInv
    <2> QED
      BY <1>1, <1>2, <1>3, <1>4, <2>1, CpuKept
  <1>6. grace' \in [Writer -> SUBSET Cpu]
    BY <1>1, <1>3 DEF WriterType
  <1> QED
    BY <1>1, <1>5, <1>6, PathStep

LEMMA Inductive ==
  ASSUME SumFacts, IInv, [Next]_vars PROVE IInv'
  <1>1. CASE UNCHANGED vars
    BY <1>1, Unchanged
  <1>2. ASSUME NEW w \in Writer, WriterNext(w) PROVE IInv'
    BY <1>2, CreateTxcStep, AllocTxcStep, CreateVqStep, AllocVqStep,
       AssocTxcVqStep, SetTxcWeightStep,
       SetTxcRateStep, SetVqWeightStep, SetVqRateStep, DeleteTxcStep,
       DeleteVqStep, RecomputeStep, SyncStep, FreeTxcStep, FreeVqStep,
       OtherWriterSteps DEF WriterNext
  <1>3. ASSUME NEW c \in Cpu, CpuNext(c) PROVE IInv'
    BY <1>3, TickStartStep, TickClassStep, TickEndStep, LookupSteps, WalkSteps,
       ClockReadStep, ClockWriteStep, ReadUnlockStep DEF CpuNext
  <1> QED
    BY <1>1, <1>2, <1>3 DEF Next

(* No handler is between a change and its recomputation while config_mutex  *)
(* is free.                                                                 *)
LEMMA QuietIsSettled ==
  ASSUME IInv, Quiet
  PROVE  ~Pending /\ ~Creating
  <1>1. config_mutex = None /\ None \notin Writer
    BY ConfigAssumption DEF ConfigAssumption, Quiet
  <1>2. \A w \in Writer : wpc[w] \in {"idle", "down"}
    BY <1>1 DEF IInv, WriterInv
  <1> QED
    BY <1>2 DEF Pending, Creating

(* Only iso_vq_free sets freed of a queue.                                  *)
LEMMA OnlyFreeVqFrees ==
  ASSUME SumFacts, IInv, NEW w \in Writer, WriterNext(w), ~FreeVq(w),
         NEW v \in DOMAIN vq
  PROVE  vq'[v].freed = vq[v].freed
  <1> TxInv /\ VqInv /\ RefInv /\ WriterInv
    BY DEF IInv
  <1>2. vq \in Seq(VirtQueue) /\ vq_list \in SUBSET DOMAIN vq
    BY DEF VqInv, VqType
  <1>3. ASSUME NEW x \in DOMAIN vq, NEW u \in VirtQueue,
               u.freed = vq[x].freed, NEW q, q = [vq EXCEPT ![x] = u],
               \/ vq' = q \/ vq' = iso_vq_calculate_rates(q, vq_list)
        PROVE  vq'[v].freed = vq[v].freed
    <2>1. /\ q \in Seq(VirtQueue) /\ DOMAIN q = DOMAIN vq
          /\ q[x] = u /\ \A j \in DOMAIN vq \ {x} : q[j] = vq[j]
      BY <1>2, <1>3, UpdateSeq
    <2>2. q[v].freed = vq[v].freed
      BY <1>3, <2>1
    <2>3. CASE vq' = q
      BY <2>2, <2>3
    <2>4. CASE vq' = iso_vq_calculate_rates(q, vq_list)
      <3>1. vq_list \in SUBSET DOMAIN q /\ v \in DOMAIN q
        BY <1>2, <2>1
      <3>2. vq'[v].freed = q[v].freed
        BY <2>1, <2>4, <3>1, CalculatedRates
      <3> QED
        BY <2>2, <3>2
    <2> QED
      BY <1>3, <2>3, <2>4
  <1>4. CASE UNCHANGED vqVars
    BY <1>4 DEF vqVars
  <1>5. CASE AllocVq(w)
    <2>1. CASE UNCHANGED vqVars
      BY <1>4, <2>1
    <2>2. CASE ~UNCHANGED vqVars
      <3>1. req[w].a \in Klass
        BY RequestType DEF WriterInv
      <3>2. /\ iso_vq_find(req[w].a) = 0 /\ Len(vq) < MaxVq
            /\ vq_hash' = vq_hash \cup {Len(vq) + 1}
            /\ vq_list' = vq_list \cup {Len(vq) + 1}
            /\ vq' = iso_vq_calculate_rates(
                       Append(vq, iso_vq_init(req[w].a)), vq_list')
        <4>1. wpc[w] = "alloc" /\ req[w].op = "create_vq"
          BY <1>5 DEF AllocVq
        <4>2. \A x \in DOMAIN vq : vq[x].klass # req[w].a
          BY <4>1 DEF IInv, AllocInv, Missing
        <4>3. iso_vq_find(req[w].a) = 0
          BY <4>2, VqFind
        <4> QED
          BY <1>5, <2>2, <4>3 DEF AllocVq
      <3> QED
        BY <3>1, <3>2, VqCreated
    <2> QED
      BY <2>1, <2>2
  <1>6. CASE AssocTxcVq(w)
    <2> DEFINE o == iso_txc_find(req[w].a)
               y == iso_vq_find(req[w].b)
    <2>1. UNCHANGED vqVars \/ (o # 0 /\ y # 0 /\ vq' = Associated(o, y))
      BY <1>6 DEF AssocTxcVq
    <2>2. o # 0 => o \in tx_hash
      BY TxcFind
    <2>3. y # 0 => y \in DOMAIN vq
      BY VqFind
    <2> HIDE DEF o, y
    <2>4. o # 0 => o \in DOMAIN txc
      BY <2>2 DEF TxInv, TxType
    <2>5. ASSUME o # 0, y # 0, vq' = Associated(o, y)
          PROVE  vq'[v].freed = vq[v].freed
      BY <2>3, <2>4, <2>5, AssociatedNext
    <2> QED
      BY <1>4, <2>1, <2>5
  <1>7. CASE SetVqWeight(w)
    <2> DEFINE x == iso_vq_find(req[w].a)
               n == req[w].val
               u == [vq[x] EXCEPT !.weight = n]
               q == [vq EXCEPT ![x].weight = n]
    <2>1. \/ UNCHANGED vqVars
          \/ /\ x # 0 /\ ~WeightRefused(n)
             /\ vq' = iso_vq_calculate_rates(q, vq_list)
      BY <1>7 DEF SetVqWeight, vqVars
    <2>2. x # 0 => x \in DOMAIN vq
      BY VqFind
    <2>3. ~WeightRefused(n) => n \in 0..MaxWeight
      BY Accepted DEF WriterInv
    <2> HIDE DEF x, n
    <2>4. ASSUME x # 0, ~WeightRefused(n),
                 vq' = iso_vq_calculate_rates(q, vq_list)
          PROVE  vq'[v].freed = vq[v].freed
      <3>1. u \in VirtQueue /\ u.freed = vq[x].freed
        <4>1. vq[x] \in VirtQueue /\ n \in 0..MaxWeight
          BY <2>2, <2>3, <2>4, VqDomain DEF VqInv
        <4> QED
          BY <4>1 DEF VirtQueue
      <3>2. q = [vq EXCEPT ![x] = u]
        BY <2>2, <2>4
      <3> HIDE DEF u, q
      <3> QED
        BY <1>3, <2>2, <2>4, <3>1, <3>2
    <2> QED
      BY <1>4, <2>1, <2>4
  <1>8. CASE SetVqRate(w)
    <2> DEFINE x == iso_vq_find(req[w].a)
               n == req[w].val
    <2>1. UNCHANGED vqVars \/ (x # 0 /\ ~(n < 0) /\ vq' = RateSet(x, n))
      BY <1>8 DEF SetVqRate, vqVars
    <2>2. x # 0 => x \in DOMAIN vq
      BY VqFind
    <2>3. n \in Int
      BY RequestType DEF WriterInv
    <2> HIDE DEF x, n
    <2>4. ASSUME x # 0, ~(n < 0), vq' = RateSet(x, n)
          PROVE  vq'[v].freed = vq[v].freed
      <3>1. x \in DOMAIN vq /\ vq[x] \in VirtQueue /\ n \in Nat
        BY <2>2, <2>3, <2>4, VqDomain, NotNegative DEF VqInv
      <3>2. CASE n > 0
        <4> DEFINE u == [vq[x] EXCEPT !.is_static = TRUE, !.rate = n]
        <4>1. vq' = [vq EXCEPT ![x] = u]
          BY <2>4, <3>1, <3>2, CappedQueue DEF RateSet
        <4>2. u \in VirtQueue /\ u.freed = vq[x].freed
          BY <3>1 DEF VirtQueue
        <4> HIDE DEF u
        <4> QED
          BY <1>3, <3>1, <4>1, <4>2
      <3>3. CASE ~(n > 0)
        <4> DEFINE u == [vq[x] EXCEPT !.is_static = FALSE]
                   q == [vq EXCEPT ![x].is_static = FALSE]
        <4>1. vq' = iso_vq_calculate_rates(q, vq_list)
          BY <2>4, <3>3 DEF RateSet
        <4>2. q = [vq EXCEPT ![x] = u]
          BY <3>1
        <4>3. u \in VirtQueue /\ u.freed = vq[x].freed
          BY <3>1 DEF VirtQueue
        <4> HIDE DEF u, q
        <4> QED
          BY <1>3, <3>1, <4>1, <4>2, <4>3
      <3> QED
        BY <3>2, <3>3
    <2> QED
      BY <1>4, <2>1, <2>4
  <1>9. CASE Recompute(w)
    <2>1. vq' = vq \/ vq' = iso_vq_calculate_rates(vq, vq_list)
      BY <1>9 DEF Recompute
    <2>2. ASSUME vq' = iso_vq_calculate_rates(vq, vq_list)
          PROVE  vq'[v].freed = vq[v].freed
      BY <1>2, <2>2, CalculatedRates
    <2> QED
      BY <2>1, <2>2
  <1>10. CASE FreeTxc(w)
    <2> DEFINE o == obj[w]
    <2>1. o \in DOMAIN txc /\ vq' = Unreferred(o)
      BY <1>10 DEF FreeTxc, WriterInv, Classes
    <2> HIDE DEF o
    <2> QED
      BY <2>1, UnreferredNext
  <1>11. CASE \/ \E r \in Requests : Write(w, r)
              \/ \E k \in Klass : GarbledCreate(w, k)
              \/ Down(w) \/ Interrupted(w) \/ BadWrite(w) \/ CreateTxc(w)
              \/ AllocTxc(w) \/ CreateVq(w)
              \/ SetTxcWeight(w) \/ SetTxcRate(w) \/ DeleteTxc(w)
              \/ DeleteVq(w) \/ RecomputeDev(w) \/ Sync(w) \/ Up(w)
              \/ ReturnLocked(w)
    <2>1. UNCHANGED vqVars
      BY <1>11 DEF Write, Down, Interrupted, BadWrite, GarbledCreate,
         CreateTxc, AllocTxc, CreateVq,
         SetTxcWeight, SetTxcRate, DeleteTxc, DeleteVq, RecomputeDev, Sync,
         Up, ReturnLocked
    <2> QED
      BY <1>4, <2>1
  <1> QED
    BY <1>5, <1>6, <1>7, <1>8, <1>9, <1>10, <1>11 DEF WriterNext

(* A step frees a queue only when no class refers to it.                    *)
LEMMA FreedStep ==
  ASSUME SumFacts, IInv, Next, NEW v \in DOMAIN vq, ~vq[v].freed, vq'[v].freed,
         NEW o \in Classes
  PROVE  txc[o].vq # v
  <1>1. ASSUME NEW w \in Writer, WriterNext(w) PROVE txc[o].vq # v
    <2>1. FreeVq(w)
      BY <1>1, OnlyFreeVqFrees
    <2>2. /\ wpc[w] = "grace" /\ req[w].op = "delete_vq"
          /\ UNCHANGED vq \/ vq' = [vq EXCEPT ![obj[w]].freed = TRUE]
      BY <2>1 DEF FreeVq, vqVars
    <2>3. obj[w] = v
      BY <2>2
    <2>4. vq[v].refcnt <= 0 /\ vq[v].refcnt = Cardinality(Referrers(v))
      BY <2>2, <2>3 DEF IInv, WriterInv, RefInv
    <2>5. IsFiniteSet(Referrers(v)) /\ Cardinality(Referrers(v)) \in Nat
      BY ReferrersFinite DEF IInv, TxInv
    <2>6. Referrers(v) = {}
      BY <2>4, <2>5, NobodyCounted
    <2> QED
      BY <2>6 DEF Referrers
  <1>2. ASSUME NEW c \in Cpu, CpuNext(c) PROVE FALSE
    <2>1. vq' = vq
      BY <1>2 DEF CpuNext, TickStart, TickClass, TickEnd, TxLookup, RxLookup,
         StandOn, WalkFound, WalkNext, WalkPoisoned, ClockRead, ClockWrite,
         ReadUnlock, vqVars
    <2> QED
      BY <2>1
  <1> QED
    BY <1>1, <1>2 DEF Next

-----------------------------------------------------------------------------
(* The facts on finite sets and sums hold.                                  *)

Summing == INSTANCE SumLemmas

LEMMA SameSums ==
  \A S : /\ Summing!IsFiniteSet(S) <=> IsFiniteSet(S)
         /\ Summing!Cardinality(S) = Cardinality(S)
         /\ \A f : Summing!Total(f, S) = Total(f, S)
  BY DEF Summing!IsFiniteSet, Summing!Cardinality, Summing!Total,
     Summing!Units, IsFiniteSet, Cardinality, Total, Units

LEMMA SumsHold == SumFacts
  <1>1. FiniteFacts
    <2>1. 1 \in Int /\ \A n \in Nat : n \in Int
      BY SMT
    <2> QED
      BY <2>1, SameSums, Summing!FS_Interval, Summing!FS_Subset
         DEF FiniteFacts
  <1>2. CountFacts
    <2>1. Cardinality({}) = 0
      BY SameSums, Summing!FS_EmptySet
    <2>2. ASSUME NEW S, IsFiniteSet(S)
          PROVE  Cardinality(S) \in Nat /\ (Cardinality(S) = 0 => S = {})
      BY <2>2, SameSums, Summing!FS_CardinalityType, Summing!FS_EmptySet
    <2>3. ASSUME NEW S, IsFiniteSet(S), NEW x
          PROVE  Cardinality(S \cup {x}) =
                   IF x \in S THEN Cardinality(S) ELSE Cardinality(S) + 1
      BY <2>3, SameSums, Summing!FS_AddElement
    <2>4. ASSUME NEW S, IsFiniteSet(S), NEW x
          PROVE  Cardinality(S \ {x}) =
                   IF x \in S THEN Cardinality(S) - 1 ELSE Cardinality(S)
      BY <2>4, SameSums, Summing!FS_RemoveElement
    <2> QED
      BY <2>1, <2>2, <2>3, <2>4 DEF CountFacts
  <1>3. \A f : Total(f, {}) = 0
    BY SameSums, Summing!TotalOfNone
  <1>4. NatFact
    BY SameSums, Summing!UnitsFinite DEF NatFact, Summable
  <1>5. AddFact
    <2> SUFFICES ASSUME NEW S, NEW f, NEW x, IsFiniteSet(S), x \notin S,
                        \A s \in S : f[s] \in Nat, f[x] \in Nat
                 PROVE  Total(f, S \cup {x}) = Total(f, S) + f[x]
      BY DEF AddFact, Summable
    <2>1. Summing!IsFiniteSet(S)
      BY SameSums
    <2>2. Summing!Total(f, S \cup {x}) = Summing!Total(f, S) + f[x]
      BY <2>1, Summing!TotalAdd
    <2>3. /\ Summing!Total(f, S) = Total(f, S)
          /\ Summing!Total(f, S \cup {x}) = Total(f, S \cup {x})
      BY SameSums
    <2> QED
      BY <2>2, <2>3
  <1>6. RemoveFact
    BY SameSums, Summing!TotalRemove DEF RemoveFact, Summable
  <1>7. MonotoneFact
    BY SameSums, Summing!TotalMonotone DEF MonotoneFact, Summable
  <1>8. ShareFact
    <2> SUFFICES ASSUME NEW S, NEW w, NEW g, NEW R \in Nat, IsFiniteSet(S),
                        \A s \in S : w[s] \in Nat, Total(w, S) > 0,
                        \A s \in S : g[s] = (w[s] * R) \div Total(w, S)
                 PROVE  Total(g, S) <= R /\ \A s \in S : g[s] \in Nat
      BY DEF ShareFact, Summable
    <2>1. Summing!Total(w, S) = Total(w, S) /\ Summing!IsFiniteSet(S)
      BY SameSums
    <2>2. Summing!Total(g, S) <= R /\ \A s \in S : g[s] \in Nat
      BY <2>1, Summing!SharesFit
    <2> QED
      BY <2>2, SameSums
  <1>9. LargestFact
    BY Summing!LargestExists DEF LargestFact
  <1> QED
    BY <1>1, <1>2, <1>3, <1>4, <1>5, <1>6, <1>7, <1>8, <1>9 DEF SumFacts

LEMMA Invariant == Spec => []IInv
  <1>1. Init => IInv
    BY SumsHold, Initially
  <1>2. IInv /\ [Next]_vars => IInv'
    BY SumsHold, Inductive
  <1> QED
    BY PTL, <1>1, <1>2 DEF Spec

-----------------------------------------------------------------------------
(* What it establishes.                                                     *)

(* The classes, queues, locks and cursors keep their types whatever is      *)
(* written to the parameter files of params.c, and no more objects exist    *)
(* than were allocated.                                                     *)
THEOREM TypeCorrect == Spec => []TypeOK
  <1>1. IInv => TypeOK
    BY SumsHold, TypeParts
  <1> QED
    BY PTL, <1>1, Invariant

(* iso_txc_mark_install and iso_sys_delete_txc never leave two entries of   *)
(* one class in the hash table, whichever processes write at once and       *)
(* although the allocations of iso_txc_alloc come between the check and the *)
(* insertion.                                                               *)
THEOREM OneEntryPerClass == Spec => []InstalledOnce
  <1>1. IInv => InstalledOnce
    BY DEF IInv, TxInv
  <1> QED
    BY PTL, <1>1, Invariant

(* iso_txc_free never frees a class on which the walk of iso_txc_find       *)
(* stands, or which it has found, before the reader's rcu_read_unlock:      *)
(* removal from the bucket and synchronize_rcu suffice for any number of    *)
(* paths and of deletions.  The tick, which goes by txc_list, is outside.   *)
THEOREM NoUseAfterFree == Spec => []ReadersHoldLiveClasses
  <1>1. IInv => ReadersHoldLiveClasses
    BY DEF IInv, CpuInv, ReadersHoldLiveClasses, Classes
  <1> QED
    BY PTL, <1>1, Invariant

(* The reference counts kept by iso_sys_assoc_txc_vq and iso_txc_free are   *)
(* the numbers of classes that refer to a queue at every step.              *)
THEOREM ExactReferences == Spec => []RefcntIsExact
  <1>1. IInv => RefcntIsExact
    BY DEF IInv, RefInv, RefcntIsExact, Referrers
  <1> QED
    BY PTL, <1>1, Invariant

(* txc_total_weight, adjusted by each handler for its own change, is the    *)
(* sum of the weights of the classes in the table after any sequence of     *)
(* writes.                                                                  *)
THEOREM WeightsSum == Spec => []WeightsAreAccounted
  <1>1. IInv => WeightsAreAccounted
    BY DEF IInv, TxInv, WeightsAreAccounted, Weights
  <1> QED
    BY PTL, <1>1, Invariant

(* The rounded-down guarantees of iso_txc_recompute_rates never add up to   *)
(* more than ISO_MAX_TX_RATE, for any number of classes and any weights.    *)
THEOREM GuaranteesAreKept == Spec => []GuaranteesFit
  <1>1. ASSUME IInv PROVE GuaranteesFit
    <2>1. Quiet => ~Creating
      BY <1>1, QuietIsSettled
    <2> QED
      BY <1>1, <2>1 DEF IInv, TxInv, GuaranteesFit, Guarantees
  <1> QED
    BY PTL, <1>1, Invariant

(* Between writes every class whose rate iso_rl_clock has not cut since it  *)
(* was last set has at least its guarantee or its cap and no more than its  *)
(* cap, although iso_txc_tick computes rates from weights and caps that the *)
(* handlers are changing.                                                   *)
THEOREM ContractsAreKept == Spec => []RatesKeepContract
  <1>1. ASSUME IInv PROVE RatesKeepContract
    <2>1. Quiet => ~Pending
      BY <1>1, QuietIsSettled
    <2> QED
      BY <1>1, <2>1 DEF IInv, TxInv, RatesKeepContract, Contract
  <1> QED
    BY PTL, <1>1, Invariant

(* The shares of iso_vq_calculate_rates never add up to more than           *)
(* ISO_VQ_DRAIN_RATE_MBPS, for any number of queues, also after deletions   *)
(* and caps that do not recalculate them.                                   *)
THEOREM SharesAreKept == Spec => []VqSharesFit
  <1>1. IInv => VqSharesFit
    BY DEF IInv, VqInv, VqSharesFit
  <1> QED
    BY PTL, <1>1, Invariant

(* A queue that iso_vq_free frees is referred to by no class at that        *)
(* moment: the reference count examined before synchronize_rcu cannot have  *)
(* grown during the wait.                                                   *)
THEOREM NoReferenceToFreed == Spec => FreedUnreferenced
  <1> DEFINE Unreferenced ==
               \A v \in DOMAIN vq : ~vq[v].freed /\ vq'[v].freed =>
                 \A o \in Classes : txc[o].vq # v
  <1>1. IInv /\ [Next]_vars => [Unreferenced]_vars
    <2> SUFFICES ASSUME IInv, Next, NEW v \in DOMAIN vq,
                        ~vq[v].freed, vq'[v].freed,
                        NEW o \in Classes
                 PROVE  txc[o].vq # v
      OBVIOUS
    <2> QED
      BY SumsHold, FreedStep
  <1> QED
    BY PTL, <1>1, Invariant DEF Spec, FreedUnreferenced
=============================================================================
