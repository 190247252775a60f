------------------------ MODULE FeedbackLoopProofs -------------------------
(***************************************************************************)
(* Proofs about FeedbackLoop for any finite set of advertised rates and     *)
(* every number of packets in the network.                                  *)
(***************************************************************************)
EXTENDS FeedbackLoop, SumLemmas

LEMMA PacketsFinite == IsFiniteSet(Packet)
  <1> DEFINE I == {0} \cup Rates
             f == [x \in Host \X I |-> [to |-> x[1], id |-> x[2]]]
  <1>1. IsFiniteSet(I)
    BY FeedbackAssumption, FS_AddElement, ZenonT(60) DEF FeedbackAssumption
  <1>2. IsFiniteSet(Host \X I)
    BY <1>1, FeedbackAssumption, FS_Product DEF FeedbackAssumption
  <1>3. f \in Surjection(Host \X I, Packet)
    <2>1. f \in [Host \X I -> Packet]
      BY DEF Packet
    <2>2. ASSUME NEW p \in Packet PROVE \E x \in Host \X I : f[x] = p
      <3>1. <<p.to, p.id>> \in Host \X I /\ f[<<p.to, p.id>>] = p
        BY DEF Packet
      <3> QED
        BY <3>1
    <2> QED
      BY <2>1, <2>2 DEF Surjection
  <1> QED
    BY <1>2, <1>3, FS_Surjection

LEMMA PeerType == \A h \in Host : Peer(h) \in Host
  <1> SUFFICES ASSUME NEW h \in Host PROVE \E g \in Host : g # h
    BY DEF Peer
  <1>1. Cardinality({h}) = 1
    BY FS_Singleton
  <1>2. Host # {h}
    BY <1>1, FeedbackAssumption DEF FeedbackAssumption
  <1> QED
    BY <1>2

LEMMA OneMore ==
  ASSUME NEW n \in [Packet -> Nat], NEW p \in Packet
  PROVE  /\ [n EXCEPT ![p] = @ + 1] \in [Packet -> Nat]
         /\ Total([n EXCEPT ![p] = @ + 1], Packet) = Total(n, Packet) + 1
  <1> DEFINE m == [n EXCEPT ![p] = @ + 1]
  <1>1. /\ m \in [Packet -> Nat] /\ m[p] = n[p] + 1 /\ n[p] \in Nat
        /\ \A q \in Packet \ {p} : m[q] = n[q]
        /\ \A q \in Packet : n[q] \in Nat
    OBVIOUS
  <1> HIDE DEF m
  <1>2. /\ Total(m, Packet) = Total(n, Packet) - n[p] + m[p]
        /\ Total(n, Packet) \in Nat
    <2>1. m[p] \in Nat
      BY <1>1
    <2>2. Total(m, Packet) = Total(n, Packet) - n[p] + m[p]
      BY <1>1, <2>1, PacketsFinite, TotalChange
    <2>3. Total(n, Packet) \in Nat
      BY <1>1, PacketsFinite, UnitsFinite
    <2> QED
      BY <2>2, <2>3
  <1>3. Total(m, Packet) = Total(n, Packet) + 1
    BY <1>1, <1>2
  <1> QED
    BY <1>1, <1>3 DEF m

LEMMA OneLess ==
  ASSUME net \in [Packet -> Nat], NEW p \in Packet, net[p] > 0
  PROVE  /\ Without(p) \in [Packet -> Nat]
         /\ Total(Without(p), Packet) = InFlight - 1 /\ InFlight \in Nat
  <1> DEFINE m == Without(p)
  <1>1. /\ m \in [Packet -> Nat] /\ m[p] = net[p] - 1 /\ net[p] \in Nat
        /\ \A q \in Packet \ {p} : m[q] = net[q]
        /\ \A q \in Packet : net[q] \in Nat
    BY DEF Without
  <1> HIDE DEF m
  <1>2. /\ Total(m, Packet) = Total(net, Packet) - net[p] + m[p]
        /\ Total(net, Packet) \in Nat
    <2>1. m[p] \in Nat
      BY <1>1
    <2>2. Total(m, Packet) = Total(net, Packet) - net[p] + m[p]
      BY <1>1, <2>1, PacketsFinite, TotalChange
    <2>3. Total(net, Packet) \in Nat
      BY <1>1, PacketsFinite, UnitsFinite
    <2> QED
      BY <2>2, <2>3
  <1>3. Total(m, Packet) = Total(net, Packet) - 1
    BY <1>1, <1>2
  <1> QED
    BY <1>1, <1>2, <1>3 DEF m, InFlight

(* Every packet counts, so no packet is there more often than there are     *)
(* packets.                                                                 *)
LEMMA Counts ==
  ASSUME NEW n \in [Packet -> Nat], Total(n, Packet) <= MaxInFlight
  PROVE  n \in [Packet -> 0..MaxInFlight]
  <1> SUFFICES ASSUME NEW p \in Packet PROVE n[p] \in 0..MaxInFlight
    OBVIOUS
  <1>1. \A q \in Packet : n[q] \in Nat
    OBVIOUS
  <1>2. n[p] <= Total(n, Packet) /\ Total(n, Packet) \in Nat
    BY <1>1, PacketsFinite, TotalRemove, UnitsFinite, ZenonT(90)
  <1> QED
    BY <1>1, <1>2, FeedbackAssumption DEF FeedbackAssumption

-----------------------------------------------------------------------------
(* The network and the limiters.                                            *)
NetOK == net \in [Packet -> 0..MaxInFlight] /\ InFlight <= MaxInFlight
RlOK ==
  /\ have \in [Host -> BOOLEAN] /\ rate \in [Host -> Nat]
  /\ \A h \in Host : have[h] => rate[h] >= 2 \/ rate[h] \in Rates
  /\ recent \in [Host -> BOOLEAN] /\ overdue \in [Host -> BOOLEAN]
  /\ idle \in [Host -> BOOLEAN]
EnvOK ==
  /\ advertised \in [Host -> Rates]
  /\ talking \subseteq Host /\ cut \subseteq Host /\ changes \in 0..MaxChanges

LEMMA Parts == TypeOK <=> NetOK /\ RlOK /\ EnvOK
  BY ZenonT(90) DEF TypeOK, NetOK, RlOK, EnvOK

LEMMA NetNat == NetOK => net \in [Packet -> Nat] /\ InFlight \in Nat
  <1> SUFFICES ASSUME NetOK PROVE net \in [Packet -> Nat] /\ InFlight \in Nat
    OBVIOUS
  <1>1. net \in [Packet -> Nat]
    BY DEF NetOK
  <1>2. \A p \in Packet : net[p] \in Nat
    BY <1>1
  <1>3. Total(net, Packet) \in Nat
    BY <1>2, PacketsFinite, UnitsFinite
  <1> QED
    BY <1>1, <1>3 DEF InFlight

(* A packet that is sent; the feedback packet of iso_rx takes the place of  *)
(* the packet it answers.                                                   *)
LEMMA Sends ==
  ASSUME NetOK, InFlight < MaxInFlight, NEW p \in Packet,
         net' = [net EXCEPT ![p] = @ + 1]
  PROVE  NetOK' /\ InFlight' = InFlight + 1
  <1>1. net \in [Packet -> Nat] /\ InFlight \in Nat
    BY NetNat
  <1>2. net' \in [Packet -> Nat] /\ InFlight' = InFlight + 1
    BY <1>1, OneMore DEF InFlight
  <1>3. InFlight' <= MaxInFlight
    BY <1>1, <1>2, FeedbackAssumption DEF FeedbackAssumption
  <1>4. net' \in [Packet -> 0..MaxInFlight]
    BY <1>2, <1>3, Counts DEF InFlight
  <1> QED
    BY <1>2, <1>3, <1>4 DEF NetOK

LEMMA Takes ==
  ASSUME NetOK, NEW p \in Packet, net[p] > 0, net' = Without(p)
  PROVE  NetOK' /\ InFlight' = InFlight - 1 /\ InFlight \in Nat
  <1>1. net \in [Packet -> Nat] /\ InFlight \in Nat
    BY NetNat
  <1>2. net' \in [Packet -> Nat] /\ InFlight' = InFlight - 1
    BY <1>1, OneLess DEF InFlight
  <1>3. InFlight <= MaxInFlight
    BY DEF NetOK
  <1>4. InFlight' <= MaxInFlight
    BY <1>1, <1>2, <1>3, FeedbackAssumption DEF FeedbackAssumption
  <1>5. net' \in [Packet -> 0..MaxInFlight]
    BY <1>2, <1>4, Counts DEF InFlight
  <1> QED
    BY <1>1, <1>2, <1>4, <1>5 DEF NetOK

LEMMA Answers ==
  ASSUME NetOK, NEW p \in Packet, net[p] > 0, NEW q \in Packet,
         net' = [Without(p) EXCEPT ![q] = @ + 1]
  PROVE  NetOK' /\ InFlight' = InFlight
  <1>1. net \in [Packet -> Nat] /\ InFlight \in Nat
    BY NetNat
  <1>2. /\ Without(p) \in [Packet -> Nat]
        /\ Total(Without(p), Packet) = InFlight - 1
    BY <1>1, OneLess
  <1>3. /\ net' \in [Packet -> Nat]
        /\ InFlight' = Total(Without(p), Packet) + 1
    BY <1>2, OneMore DEF InFlight
  <1>4. InFlight' = InFlight
    BY <1>1, <1>2, <1>3
  <1>5. InFlight' <= MaxInFlight
    BY <1>4 DEF NetOK
  <1>6. net' \in [Packet -> 0..MaxInFlight]
    BY <1>3, <1>5, Counts DEF InFlight
  <1> QED
    BY <1>4, <1>5, <1>6 DEF NetOK

-----------------------------------------------------------------------------
(* The rates.                                                               *)
Going(r) == r \in Nat /\ (r >= 2 \/ r \in Rates)

LEMMA Constant ==
  /\ Going(ISO_RFAIR_INITIAL) /\ Going(ISO_IDLE_RATE)
  /\ \A r \in Rates : Going(r) /\ r # 0
  BY FeedbackAssumption DEF FeedbackAssumption, Going

LEMMA HalveGoes == \A r \in Nat : Going(Halve(r))
  BY DEF Going, Halve

LEMMA ClockedGoes ==
  ASSUME RlOK, NEW h \in Host, have[h]
  PROVE  Going(Clocked(h))
  <1> DEFINE r == IF idle[h] /\ rate[h] > ISO_IDLE_RATE THEN ISO_IDLE_RATE
                                                        ELSE rate[h]
  <1>1. Going(rate[h])
    BY DEF RlOK, Going
  <1>2. Going(r)
    BY <1>1, Constant
  <1>3. r \in Nat
    BY <1>2 DEF Going
  <1> HIDE DEF r
  <1>4. Going(IF overdue[h] THEN Halve(r) ELSE r)
    BY <1>2, <1>3, HalveGoes
  <1> QED
    BY <1>4 DEF Clocked, r

(* The limiters after a step that sets the rate of one host.                *)
LEMMA RateSet ==
  ASSUME RlOK, NEW h \in Host, NEW r, have'[h] => Going(r), r \in Nat,
         have' \in [Host -> BOOLEAN], \A g \in Host \ {h} : have'[g] = have[g],
         rate' = [rate EXCEPT ![h] = r],
         recent' \in [Host -> BOOLEAN], overdue' \in [Host -> BOOLEAN],
         idle' \in [Host -> BOOLEAN]
  PROVE  RlOK'
  <1>1. /\ rate' \in [Host -> Nat] /\ rate'[h] = r
        /\ \A g \in Host \ {h} : rate'[g] = rate[g]
    BY DEF RlOK
  <1>2. ASSUME NEW g \in Host, have'[g] PROVE rate'[g] >= 2 \/ rate'[g] \in Rates
    <2>1. CASE g = h
      BY <1>1, <1>2, <2>1 DEF Going
    <2>2. CASE g # h
      BY <1>1, <1>2, <2>2, ZenonT(90) DEF RlOK
    <2> QED
      BY <2>1, <2>2
  <1> QED
    BY <1>1, <1>2, ZenonT(90) DEF RlOK

-----------------------------------------------------------------------------
LEMMA TxStep ==
  ASSUME TypeOK, NEW h \in Host, NEW refill \in BOOLEAN, iso_tx(h, refill)
  PROVE  TypeOK' /\ InFlight' = InFlight + 1 /\ h \in talking
  <1> DEFINE p == [to |-> Peer(h), id |-> 0]
  <1>1. NetOK /\ RlOK /\ EnvOK
    BY Parts
  <1>2. p \in Packet
    BY PeerType DEF Packet
  <1> HIDE DEF p
  <1>3. NetOK' /\ InFlight' = InFlight + 1
    <2>1. InFlight < MaxInFlight /\ net' = [net EXCEPT ![p] = @ + 1]
      BY DEF iso_tx, p
    <2> QED
      BY <1>1, <1>2, <2>1, Sends
  <1>4. RlOK'
    <2>1. CASE have[h] /\ refill
      <3>1. /\ rate' = [rate EXCEPT ![h] = Clocked(h)] /\ UNCHANGED <<have, recent>>
            /\ overdue' = [overdue EXCEPT ![h] = FALSE]
            /\ idle' = [idle EXCEPT ![h] = FALSE]
        BY <2>1, ZenonT(90) DEF iso_tx
      <3>2. Going(Clocked(h)) /\ Clocked(h) \in Nat
        BY <1>1, <2>1, ClockedGoes DEF Going
      <3>3. /\ have' \in [Host -> BOOLEAN] /\ recent' \in [Host -> BOOLEAN]
            /\ overdue' \in [Host -> BOOLEAN] /\ idle' \in [Host -> BOOLEAN]
        BY <1>1, <3>1, ZenonT(90) DEF RlOK
      <3> QED
        BY <1>1, <3>1, <3>2, <3>3, RateSet, ZenonT(90)
    <2>2. CASE ~(have[h] /\ refill)
      <3>1. UNCHANGED rlVars
        BY <2>2, ZenonT(90) DEF iso_tx, rlVars
      <3> QED
        BY <1>1, <3>1, ZenonT(90) DEF RlOK, rlVars
    <2> QED
      BY <2>1, <2>2
  <1>5. EnvOK' /\ h \in talking
    BY <1>1, ZenonT(90) DEF EnvOK, iso_tx, envVars
  <1>6. TypeOK'
    BY <1>3, <1>4, <1>5, ZenonT(90) DEF TypeOK, NetOK, RlOK, EnvOK
  <1> QED
    BY <1>3, <1>5, <1>6

LEMMA RxStep ==
  ASSUME TypeOK, NEW p \in Packet, NEW locked \in BOOLEAN,
         NEW settable \in BOOLEAN, NEW due \in BOOLEAN,
         iso_rx(p, locked, settable, due)
  PROVE  TypeOK' /\ InFlight' <= InFlight
  <1> DEFINE h == p.to
             new == ~have[h] /\ Creates(p.id) /\ locked
             known == have[h] \/ new
             set == known /\ p.id # 0 /\ settable
             answer == due /\ ~Dropped(p.id, known)
             reply == [to |-> Peer(h), id |-> advertised[h]]
             r == IF set THEN p.id ELSE IF new THEN ISO_RFAIR_INITIAL ELSE rate[h]
  <1>1. NetOK /\ RlOK /\ EnvOK
    BY Parts
  <1>2. h \in Host /\ p.id \in {0} \cup Rates
    BY DEF Packet
  <1>3. reply \in Packet
    BY <1>1, <1>2, PeerType DEF Packet, EnvOK
  <1>4. /\ net[p] > 0
        /\ net' = IF answer THEN [Without(p) EXCEPT ![reply] = @ + 1]
                            ELSE Without(p)
        /\ have' = [have EXCEPT ![h] = known]
        /\ rate' = [rate EXCEPT ![h] = r]
        /\ recent' = [recent EXCEPT ![h] = @ \/ new \/ set]
        /\ UNCHANGED envVars
    BY ZenonT(90) DEF iso_rx
  <1>5. PICK old \in BOOLEAN, older \in BOOLEAN :
          /\ overdue' = [overdue EXCEPT ![h] =
                            IF set THEN FALSE ELSE IF new THEN old ELSE @]
          /\ idle' = [idle EXCEPT ![h] = IF new THEN older ELSE @]
    BY ZenonT(90) DEF iso_rx
  <1> HIDE DEF h, reply
  <1>6. NetOK' /\ InFlight' <= InFlight
    <2> HIDE DEF answer
    <2>1. CASE answer
      <3>1. NetOK' /\ InFlight' = InFlight
        BY <1>1, <1>3, <1>4, <2>1, Answers
      <3>2. InFlight \in Nat
        BY <1>1, NetNat
      <3> QED
        BY <3>1, <3>2
    <2>2. CASE ~answer
      <3>1. NetOK' /\ InFlight' = InFlight - 1 /\ InFlight \in Nat
        BY <1>1, <1>4, <2>2, Takes
      <3> QED
        BY <3>1
    <2> QED
      BY <2>1, <2>2
  <1>7. RlOK'
    <2>1. have[h] \in BOOLEAN /\ recent[h] \in BOOLEAN /\ overdue[h] \in BOOLEAN
      BY <1>1, <1>2, ZenonT(90) DEF RlOK
    <2>2. known \in BOOLEAN /\ (recent[h] \/ new \/ set) \in BOOLEAN
      BY <2>1, ZenonT(90)
    <2>3. (known => Going(r)) /\ r \in Nat
      <3>1. have[h] => Going(rate[h])
        BY <1>1, <1>2, ZenonT(90) DEF RlOK, Going
      <3>2. rate[h] \in Nat
        BY <1>1, <1>2, ZenonT(90) DEF RlOK
      <3>3. p.id # 0 => Going(p.id)
        BY <1>2, Constant, ZenonT(90)
      <3> QED
        BY <3>1, <3>2, <3>3, Constant, ZenonT(90) DEF Going
    <2> HIDE DEF known, r
    <2>4. have' \in [Host -> BOOLEAN] /\ have'[h] = known
          /\ \A g \in Host \ {h} : have'[g] = have[g]
      BY <1>1, <1>2, <1>4, <2>2, ZenonT(90) DEF RlOK
    <2>5. recent' \in [Host -> BOOLEAN]
      BY <1>1, <1>4, <2>2, ZenonT(90) DEF RlOK
    <2>6. overdue' \in [Host -> BOOLEAN] /\ idle' \in [Host -> BOOLEAN]
      BY <1>1, <1>2, <1>5, <2>1, ZenonT(90) DEF RlOK
    <2> QED
      BY <1>1, <1>2, <1>4, <2>3, <2>4, <2>5, <2>6, RateSet, ZenonT(90)
  <1>8. EnvOK'
    BY <1>1, <1>4, ZenonT(90) DEF EnvOK, envVars
  <1>9. TypeOK'
    BY <1>6, <1>7, <1>8, ZenonT(90) DEF TypeOK, NetOK, RlOK, EnvOK
  <1> QED
    BY <1>6, <1>9

(* Time passes, packets get lost, and what the hosts do around the loop.    *)
LEMMA OtherStep ==
  ASSUME TypeOK, NEW h \in Host,
         \/ IntervalPasses(h) \/ TimeoutPasses(h) \/ Finish(h) \/ Cut(h)
         \/ \E r \in Rates : Advertise(h, r)
  PROVE  TypeOK' /\ net' = net
  <1>1. NetOK /\ RlOK /\ EnvOK
    BY Parts
  <1>2. net' = net
    BY ZenonT(90) DEF IntervalPasses, TimeoutPasses, Finish, Cut, Advertise
  <1>3. NetOK'
    BY <1>1, <1>2 DEF NetOK, InFlight
  <1>4. RlOK'
    <2>1. have' = have /\ rate' = rate /\ idle' = idle
      BY ZenonT(90) DEF IntervalPasses, TimeoutPasses, Finish, Cut, Advertise, rlVars
    <2>2. recent' \in [Host -> BOOLEAN] /\ overdue' \in [Host -> BOOLEAN]
      BY <1>1, ZenonT(90) DEF RlOK, IntervalPasses, TimeoutPasses, Finish, Cut,
         Advertise, rlVars
    <2> QED
      BY <1>1, <2>1, <2>2, ZenonT(90) DEF RlOK
  <1>5. EnvOK'
    <2>1. CASE \E r \in Rates : Advertise(h, r)
      <3>1. PICK r \in Rates : Advertise(h, r)
        BY <2>1
      <3> QED
        BY <1>1, <3>1, FeedbackAssumption
        DEF EnvOK, Advertise, FeedbackAssumption
    <2>2. CASE Finish(h)
      BY <1>1, <2>2, ZenonT(90) DEF EnvOK, Finish
    <2>3. CASE Cut(h)
      BY <1>1, <2>3, FeedbackAssumption, ZenonT(90) DEF EnvOK, Cut, FeedbackAssumption
    <2>4. CASE IntervalPasses(h) \/ TimeoutPasses(h)
      BY <1>1, <2>4, ZenonT(90) DEF EnvOK, IntervalPasses, TimeoutPasses, envVars
    <2> QED
      BY <2>1, <2>2, <2>3, <2>4
  <1>6. TypeOK'
    BY <1>3, <1>4, <1>5, ZenonT(90) DEF TypeOK, NetOK, RlOK, EnvOK
  <1> QED
    BY <1>2, <1>6

LEMMA LoseStep ==
  ASSUME TypeOK, NEW p \in Packet, Lose(p)
  PROVE  TypeOK' /\ InFlight' <= InFlight
  <1>1. NetOK /\ RlOK /\ EnvOK
    BY Parts
  <1>2. /\ net[p] > 0 /\ net' = Without(p) /\ UNCHANGED <<rlVars, envVars>>
    BY DEF Lose
  <1>3. NetOK' /\ InFlight' = InFlight - 1 /\ InFlight \in Nat
    BY <1>1, <1>2, Takes
  <1>4. RlOK' /\ EnvOK'
    BY <1>1, <1>2, ZenonT(90) DEF RlOK, EnvOK, rlVars, envVars
  <1>5. TypeOK'
    BY <1>3, <1>4, ZenonT(90) DEF TypeOK, NetOK, RlOK, EnvOK
  <1> QED
    BY <1>3, <1>5

LEMMA TypeInit == Init => TypeOK
  <1> SUFFICES ASSUME Init PROVE TypeOK
    OBVIOUS
  <1>1. NetOK
    <2>1. net \in [Packet -> Nat] /\ \A p \in Packet : net[p] = 0
      BY DEF Init
    <2>2. Units(net, Packet) = {}
      <3>1. \A p \in Packet : 1..net[p] = {}
        BY <2>1
      <3> QED
        BY <3>1, UnitsIs, ZenonT(90)
    <2>3. InFlight = 0
      BY <2>2, FS_EmptySet DEF InFlight, Total
    <2>4. InFlight <= MaxInFlight
      BY <2>3, FeedbackAssumption DEF FeedbackAssumption
    <2> QED
      BY <2>1, <2>4, Counts DEF NetOK, InFlight
  <1>2. RlOK
    BY DEF Init, RlOK
  <1>3. EnvOK
    BY FeedbackAssumption DEF Init, EnvOK, FeedbackAssumption
  <1> QED
    BY <1>1, <1>2, <1>3, Parts

(* What a step can be.                                                      *)
LEMMA Steps ==
  ASSUME [Next]_vars
  PROVE  \/ \E h \in Host, refill \in BOOLEAN : iso_tx(h, refill)
         \/ \E p \in Packet, l \in BOOLEAN, s \in BOOLEAN, d \in BOOLEAN :
              iso_rx(p, l, s, d)
         \/ \E h \in Host :
              \/ IntervalPasses(h) \/ TimeoutPasses(h) \/ Finish(h) \/ Cut(h)
              \/ \E r \in Rates : Advertise(h, r)
         \/ \E p \in Packet : Lose(p)
         \/ UNCHANGED vars
  BY ZenonT(90) DEF Next

LEMMA TypeStep == TypeOK /\ [Next]_vars => TypeOK'
  <1> SUFFICES ASSUME TypeOK, [Next]_vars PROVE TypeOK'
    OBVIOUS
  <1>1. CASE UNCHANGED vars
    BY <1>1, ZenonT(90) DEF TypeOK, InFlight, vars, rlVars, envVars
  <1> QED
    BY <1>1, Steps, TxStep, RxStep, OtherStep, LoseStep, ZenonT(90)

\* A limiter keeps a rate that lets packets through, and no feedback is
\* answered with more than it was: at every step of iso_tx, iso_rx and the
\* network the variables have their types, the packets in flight are within
\* the bound, and no rate has been halved below 2.
THEOREM TypeCorrect == Spec => []TypeOK
  BY TypeInit, TypeStep, PTL DEF Spec

-----------------------------------------------------------------------------
\* iso_rx answers a packet, marked or not, with at most one feedback packet,
\* and only in its place: once no application sends, the exchange of feedback
\* about feedback never grows.
QuietNeverGrows == [][talking = {} => InFlight' <= InFlight]_vars

LEMMA QuietStep ==
  ASSUME TypeOK, [Next]_vars, talking = {}
  PROVE  InFlight' <= InFlight
  <1>1. InFlight \in Nat
    BY NetNat, Parts
  <1>2. CASE net' = net
    <2>1. InFlight' = InFlight
      BY <1>2 DEF InFlight
    <2> QED
      BY <1>1, <2>1
  <1>3. UNCHANGED vars => net' = net
    BY DEF vars
  <1> QED
    BY <1>2, <1>3, Steps, TxStep, RxStep, OtherStep, LoseStep, ZenonT(90)

\* Feedback alone never makes traffic grow: the packets in flight become more
\* only by iso_tx of a host whose application sends.
THEOREM FeedbackNeverGrows == Spec => QuietNeverGrows
  <1>1. TypeOK /\ [Next]_vars => [talking = {} => InFlight' <= InFlight]_vars
    BY QuietStep
  <1> QED
    BY <1>1, TypeCorrect, PTL DEF Spec, QuietNeverGrows

-----------------------------------------------------------------------------
LEMMA RatesNat == TypeOK => \A h \in Host : rate[h] \in Nat
  BY ZenonT(90) DEF TypeOK

LEMMA Unraised ==
  ASSUME TypeOK, NEW h \in Host, rate'[h] = rate[h]
  PROVE  Raised(h)
  BY RatesNat DEF Raised

LEMMA HalveRaises ==
  \A r \in Nat, n \in Nat : r <= n /\ Halve(r) > n => n < 2 /\ Halve(r) = 2
  BY DEF Halve

LEMMA TxRaises ==
  ASSUME TypeOK, NEW h \in Host, NEW refill \in BOOLEAN, iso_tx(h, refill),
         NEW g \in Host
  PROVE  Raised(g)
  <1> DEFINE r == IF idle[h] /\ rate[h] > ISO_IDLE_RATE THEN ISO_IDLE_RATE
                                                        ELSE rate[h]
  <1>1. rate \in [Host -> Nat]
    BY ZenonT(90) DEF TypeOK
  <1>2. CASE rate'[g] = rate[g]
    BY <1>2, Unraised
  <1>3. CASE rate'[g] # rate[g]
    <2>1. /\ have[h] /\ rate' = [rate EXCEPT ![h] = Clocked(h)]
      BY <1>3, ZenonT(90) DEF iso_tx
    <2>2. g = h /\ rate'[h] = Clocked(h)
      BY <1>1, <1>3, <2>1, ZenonT(90)
    <2>3. rate[h] \in Nat /\ ISO_IDLE_RATE \in Nat
      BY <1>1, FeedbackAssumption DEF FeedbackAssumption
    <2>4. r \in Nat /\ r <= rate[h]
      BY <2>3
    <2>5. Clocked(h) = IF overdue[h] THEN Halve(r) ELSE r
      BY ZenonT(90) DEF Clocked
    <2> HIDE DEF r
    <2>6. rate[h] > 0
      BY <2>1, <2>3, FeedbackAssumption DEF TypeOK, FeedbackAssumption
    <2>7. Clocked(h) > rate[h] => rate[h] < 2 /\ Clocked(h) = 2
      <3>1. ~(r > rate[h])
        BY <2>3, <2>4
      <3> QED
        BY <2>3, <2>4, <2>5, <3>1, HalveRaises, ZenonT(90)
    <2>8. Clocked(h) > rate[h] => rate[h] = 1 /\ Clocked(h) = 2
      BY <2>3, <2>6, <2>7
    <2> QED
      BY <2>2, <2>8, ZenonT(90) DEF Raised
  <1> QED
    BY <1>2, <1>3

LEMMA RxRaises ==
  ASSUME TypeOK, NEW p \in Packet, NEW locked \in BOOLEAN,
         NEW settable \in BOOLEAN, NEW due \in BOOLEAN,
         iso_rx(p, locked, settable, due), NEW g \in Host
  PROVE  Raised(g)
  <1> DEFINE h == p.to
             new == ~have[h] /\ Creates(p.id) /\ locked
             set == (have[h] \/ new) /\ p.id # 0 /\ settable
             r == IF set THEN p.id ELSE IF new THEN ISO_RFAIR_INITIAL ELSE rate[h]
  <1>1. rate \in [Host -> Nat]
    BY ZenonT(90) DEF TypeOK
  <1>2. p = [to |-> h, id |-> p.id] /\ h \in Host /\ p.id \in {0} \cup Rates
    BY DEF Packet
  <1>3. net[p] > 0 /\ rate' = [rate EXCEPT ![h] = r]
    BY ZenonT(90) DEF iso_rx
  <1> HIDE DEF h
  <1>4. rate'[h] = r /\ (g # h => rate'[g] = rate[g])
    BY <1>1, <1>2, <1>3, ZenonT(90)
  <1>5. CASE rate'[g] = rate[g]
    BY <1>5, Unraised
  <1>6. CASE rate'[g] # rate[g] /\ have[g]
    <2>1. g = h /\ have[h]
      BY <1>4, <1>6, ZenonT(90)
    <2>2. rate'[h] = p.id /\ p.id # 0
      BY <1>4, <1>6, <2>1, ZenonT(90)
    <2>3. rate'[h] \in Rates
      BY <1>2, <2>2, ZenonT(90)
    <2>4. p = [to |-> h, id |-> rate'[h]]
      BY <1>2, <2>2, ZenonT(90)
    <2> QED
      BY <1>3, <2>1, <2>3, <2>4, ZenonT(90) DEF Raised
  <1>7. CASE ~have[g]
    BY <1>7 DEF Raised
  <1> QED
    BY <1>5, <1>6, <1>7

LEMMA RaisedStep ==
  ASSUME TypeOK, [Next]_vars, NEW h \in Host
  PROVE  Raised(h)
  <1>1. CASE \E g \in Host, refill \in BOOLEAN : iso_tx(g, refill)
    BY <1>1, TxRaises, ZenonT(90)
  <1>2. CASE \E p \in Packet, l \in BOOLEAN, s \in BOOLEAN, d \in BOOLEAN :
               iso_rx(p, l, s, d)
    BY <1>2, RxRaises, ZenonT(90)
  <1>3. CASE rate' = rate
    BY <1>3, Unraised
  <1>4. \/ \E g \in Host :
            \/ IntervalPasses(g) \/ TimeoutPasses(g) \/ Finish(g) \/ Cut(g)
            \/ \E r \in Rates : Advertise(g, r)
        \/ \E p \in Packet : Lose(p)
        \/ UNCHANGED vars
        => rate' = rate
    BY ZenonT(90) DEF IntervalPasses, TimeoutPasses, Finish, Cut, Advertise, Lose,
       vars, rlVars
  <1> QED
    BY <1>1, <1>2, <1>3, <1>4, Steps, ZenonT(90)

\* Timeouts, losses and reordered feedback never speed a sender up: whatever
\* iso_rl_clock and iso_rx do, a limiter's rate rises only to a rate that a
\* feedback packet in the network carries to it (or from 1 to 2).
THEOREM SpeedsUpWhenTold == Spec => RaisedByPeer
  <1>1. TypeOK /\ [Next]_vars => [\A h \in Host : Raised(h)]_vars
    BY RaisedStep
  <1> QED
    BY <1>1, TypeCorrect, PTL DEF Spec, RaisedByPeer
=============================================================================
