---------------------------- MODULE FeedbackLoop ----------------------------
(***************************************************************************)
(* The congestion control loop between two hosts that run EyeQ: iso_tx and  *)
(* iso_rl_clock of a sender, iso_rx of its peer with the feedback packets   *)
(* it generates, iso_rx of the sender, which creates the state of the peer  *)
(* (iso_state_get) and sets its rate, over a network that loses and         *)
(* reorders packets and may stop to deliver to a sender for good.           *)
(*                                                                          *)
(* Each host has one class and one virtual queue, and runs iso_rx as one    *)
(* step: the races inside it are those of the modules DestState and         *)
(* Receiver.  Whether a lock was free or an interval has passed is a free   *)
(* choice, and the rate a host advertises is any member of Rates.  What     *)
(* happens to a packet inside a limiter is the subject of RateLimiter; here *)
(* it enters the network or is lost.  The age of a limiter matters when it  *)
(* is clocked, so it is not followed on a host that does not send.          *)
(***************************************************************************)
EXTENDS Integers, FiniteSets, Sums

CONSTANTS
  Host,                \* the two hosts
  Talker,              \* hosts whose applications send
  Rates,               \* advertised rates, after the truncation to iph->id
  ISO_RFAIR_INITIAL, ISO_IDLE_RATE, ISO_MIN_RFAIR,
  MaxInFlight,         \* bound: packets in the network
  MaxChanges           \* bound: changes of the advertised rates

ASSUME FeedbackAssumption ==
  /\ IsFiniteSet(Host) /\ Cardinality(Host) = 2 /\ Talker \subseteq Host
  /\ IsFiniteSet(Rates) /\ Rates \subseteq Nat \ {0} /\ ISO_MIN_RFAIR \in Rates
  /\ ISO_RFAIR_INITIAL \in Nat \ {0, 1} /\ ISO_IDLE_RATE \in Nat \ {0, 1}
  /\ MaxInFlight \in Nat \ {0} /\ MaxChanges \in Nat

\* id is 0 in a data packet and the advertised rate in a feedback packet.
Packet == [to : Host, id : {0} \cup Rates]
Peer(h) == CHOOSE g \in Host : g # h

VARIABLES
  net,                 \* [Packet -> how many are in flight]
  have,                \* [Host -> the state of the peer exists]
  rate,                \* [Host -> rl->rate of that state]
  recent,              \* ... the rate was set within the decrease interval
  overdue,             \* ... feedback timeout since the last rate update
  idle,                \* ... idle timeout since the last refill
  advertised,          \* [Host -> feedback_rate of the virtual queue]
  talking,             \* hosts that have not finished sending
  cut,                 \* hosts that nothing reaches any more
  changes              \* history: number of changes of advertised

rlVars == <<have, rate, recent, overdue, idle>>
envVars == <<advertised, talking, cut, changes>>
vars == <<net, rlVars, envVars>>

Init ==
  /\ net = [p \in Packet |-> 0]
  /\ have = [h \in Host |-> FALSE] /\ rate = [h \in Host |-> 0]
  /\ recent = [h \in Host |-> FALSE] /\ overdue = [h \in Host |-> FALSE]
  /\ idle = [h \in Host |-> FALSE]
  /\ advertised = [h \in Host |-> ISO_MIN_RFAIR]
  /\ talking = Talker /\ cut = {} /\ changes = 0

InFlight == Total(net, Packet)
Without(p) == [net EXCEPT ![p] = @ - 1]

-----------------------------------------------------------------------------
(* The sender.                                                              *)

\* iso_rl_clock: the rate after the timeouts that have passed.
\* Mutants: the timeout is not looked at; no least rate; an idle limiter gets
\* the idle rate even if its own is lower.
Halve_NoTimeout(r) == r
Halve_NoFloor(r) == r \div 2
Halve(r) == IF r \div 2 > 2 THEN r \div 2 ELSE 2
Clocked_Idle(h) ==
  LET r == IF idle[h] THEN ISO_IDLE_RATE ELSE rate[h]
  IN  IF overdue[h] THEN Halve(r) ELSE r
Clocked(h) ==
  LET r == IF idle[h] /\ rate[h] > ISO_IDLE_RATE THEN ISO_IDLE_RATE ELSE rate[h]
  IN  IF overdue[h] THEN Halve(r) ELSE r

\* iso_tx.  Without a state the packet passes unlimited: iso_tx creates none.
\* refill says that the limiter was due to be clocked.
iso_tx(h, refill) ==
  /\ h \in talking /\ InFlight < MaxInFlight
  /\ net' = [net EXCEPT ![[to |-> Peer(h), id |-> 0]] = @ + 1]
  /\ IF have[h] /\ refill
       THEN /\ rate' = [rate EXCEPT ![h] = Clocked(h)]
            /\ overdue' = [overdue EXCEPT ![h] = FALSE]
            /\ idle' = [idle EXCEPT ![h] = FALSE]
       ELSE UNCHANGED <<rate, overdue, idle>>
  /\ UNCHANGED <<have, recent, envVars>>

IntervalPasses(h) ==
  /\ recent[h]
  /\ recent' = [recent EXCEPT ![h] = FALSE]
  /\ UNCHANGED <<net, have, rate, overdue, idle, envVars>>

TimeoutPasses(h) ==
  /\ have[h] /\ h \in talking /\ ~overdue[h]
  /\ overdue' = [overdue EXCEPT ![h] = TRUE]
  /\ UNCHANGED <<net, have, rate, recent, idle, envVars>>

-----------------------------------------------------------------------------
(* iso_rx.                                                                  *)

\* iso_state_get creates a state for marked feedback only.
\* Mutant: no state is ever created.
Creates_Never(id) == FALSE
Creates(id) == id # 0

\* A generated feedback packet goes no further once the peer is known.
\* Mutant: generated feedback is handled like a packet of the peer.
Dropped_Never(id, known) == FALSE
Dropped(id, known) == known /\ id # 0

\* locked: txc->writelock was free.  settable: the decrease interval has
\* passed and rc->spinlock was free.  due: it is time for feedback, and a
\* packet could be allocated and sent.  A preallocated limiter may be old.
iso_rx(p, locked, settable, due) ==
  LET h == p.to
      new == ~have[h] /\ Creates(p.id) /\ locked
      known == have[h] \/ new
      set == known /\ p.id # 0 /\ settable
      answer == due /\ ~Dropped(p.id, known)
      reply == [to |-> Peer(h), id |-> advertised[h]]
  IN  /\ net[p] > 0 /\ h \notin cut
      /\ settable => ~recent[h]
      /\ net' = IF answer THEN [Without(p) EXCEPT ![reply] = @ + 1]
                          ELSE Without(p)
      /\ have' = [have EXCEPT ![h] = known]
      /\ rate' = [rate EXCEPT ![h] = IF set THEN p.id
                                     ELSE IF new THEN ISO_RFAIR_INITIAL ELSE @]
      /\ recent' = [recent EXCEPT ![h] = @ \/ new \/ set]
      /\ \E old, older \in BOOLEAN :
           /\ older => old
           /\ old => new /\ h \in talking
           /\ overdue' = [overdue EXCEPT ![h] =
                            IF set THEN FALSE ELSE IF new THEN old ELSE @]
           /\ idle' = [idle EXCEPT ![h] = IF new THEN older ELSE @]
      /\ UNCHANGED envVars

-----------------------------------------------------------------------------
(* Around them.                                                             *)

Lose(p) ==
  /\ net[p] > 0
  /\ net' = Without(p)
  /\ UNCHANGED <<rlVars, envVars>>

Finish(h) ==
  /\ h \in talking
  /\ talking' = talking \ {h}
  /\ UNCHANGED <<net, rlVars, advertised, cut, changes>>

Cut(h) ==
  /\ h \in Talker \ cut
  /\ cut' = cut \cup {h}
  /\ UNCHANGED <<net, rlVars, advertised, talking, changes>>

\* The virtual queue has been drained and has a new feedback_rate.
Advertise(h, r) ==
  /\ changes < MaxChanges /\ r # advertised[h]
  /\ advertised' = [advertised EXCEPT ![h] = r]
  /\ changes' = changes + 1
  /\ UNCHANGED <<net, rlVars, talking, cut>>

Next ==
  \/ \E h \in Host :
       \/ \E refill \in BOOLEAN : iso_tx(h, refill)
       \/ IntervalPasses(h) \/ TimeoutPasses(h) \/ Finish(h) \/ Cut(h)
       \/ \E r \in Rates : Advertise(h, r)
  \/ \E p \in Packet :
       \/ \E l, s, d \in BOOLEAN : iso_rx(p, l, s, d)
       \/ Lose(p)

Spec == Init /\ [][Next]_vars

\* A packet arrives or is lost, and not every packet is lost.  A trylock that
\* is tried again and again succeeds, since its holders never sleep; time
\* passes; feedback that falls due again and again is sent.
FairSpec ==
  /\ Spec
  /\ \A p \in Packet :
       WF_vars(Lose(p) \/ \E l, s, d \in BOOLEAN : iso_rx(p, l, s, d))
  /\ \A h \in Talker :
       /\ SF_vars(iso_tx(h, TRUE))
       /\ WF_vars(IntervalPasses(h)) /\ WF_vars(TimeoutPasses(h))
       /\ SF_vars(iso_rx([to |-> Peer(h), id |-> 0], FALSE, FALSE, TRUE))
       /\ SF_vars(\E d \in BOOLEAN, r \in Rates :
                    ~have[h] /\ iso_rx([to |-> h, id |-> r], TRUE, FALSE, d))
       /\ \A r \in Rates :
            SF_vars(\E d \in BOOLEAN :
                      have[h] /\ iso_rx([to |-> h, id |-> r], TRUE, TRUE, d))

-----------------------------------------------------------------------------
\* Types of the variables; the rate of a limiter is one the peer has told, or
\* 2 or more, however often iso_rl_clock has slowed it down: it never stops.
TypeOK ==
  /\ net \in [Packet -> 0..MaxInFlight] /\ InFlight <= MaxInFlight
  /\ have \in [Host -> BOOLEAN] /\ rate \in [Host -> Nat]
  /\ \A h \in Host : have[h] => rate[h] >= 2 \/ rate[h] \in Rates
  /\ recent \in [Host -> BOOLEAN] /\ overdue \in [Host -> BOOLEAN]
  /\ idle \in [Host -> BOOLEAN] /\ advertised \in [Host -> Rates]
  /\ talking \subseteq Host /\ cut \subseteq Host /\ changes \in 0..MaxChanges

\* A sender that has a limiter goes faster only because its peer said so: its
\* rate is raised to no other value than that of a feedback packet that has
\* reached it.  The exception is the least rate of iso_rl_clock, which raises
\* an advertised rate below 2 to 2 when it means to halve it.
Raised(h) ==
  have[h] /\ rate'[h] > rate[h] =>
    \/ rate[h] = 1 /\ rate'[h] = 2
    \/ rate'[h] \in Rates /\ net[[to |-> h, id |-> rate'[h]]] > 0
RaisedByPeer == [][\A h \in Host : Raised(h)]_vars

\* iso_rx answers feedback that it cannot assign to a state with feedback of
\* its own; such an exchange does not go on once the applications are quiet.
FeedbackSettles == <>[](talking = {}) => <>[](InFlight = 0)

\* The rates a limiter may have that was last set to r.
Halvings[r \in Nat] ==
  IF r = Halve(r) THEN {r} ELSE {r} \cup Halvings[Halve(r)]

\* The sender follows its peer although feedback is lost and overtaken: once
\* the peer's rate stays at r, the sender gets to r again and again, and in
\* the end uses no rate that stems from older feedback.
SenderFollows ==
  \A h \in Talker, r \in Rates :
    <>[](h \in talking /\ cut = {} /\ advertised[Peer(h)] = r)
      => []<>(rate[h] = r) /\ <>[](rate[h] \in Halvings[r])

\* A sender that nobody tells a rate any more slows down to the least rate.
UnheardSlowsDown ==
  \A h \in Talker :
    <>[](h \in talking /\ have[h] /\ h \in cut) => <>[](rate[h] = 2)
=============================================================================
