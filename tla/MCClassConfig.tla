--------------------------- MODULE MCClassConfig ---------------------------
EXTENDS ClassConfig, TLC

Req(op, form, a, b, val) ==
  [op |-> op, form |-> form, a |-> a, b |-> b, val |-> val]
Ok(op, val) == {Req(op, "ok", k, k, val) : k \in Klass}

First == CHOOSE x \in Klass : TRUE

\* All classes share a bucket.
OneBucket == [k \in Klass |-> 0]

\* The timeouts of iso_rl_clock, one at a time.
EachDelay == {<<TRUE, FALSE>>, <<FALSE, TRUE>>}

\* Weights, caps and class lifetimes on the transmit side.
TxRequests ==
  Ok("create_txc", 0) \cup Ok("delete_txc", 0)
    \cup UNION {Ok("set_txc_weight", n) : n \in {0, 3}}
    \cup UNION {Ok("set_txc_rate", n) : n \in {0, 2}}

\* The classes of TxRequests and of VqRequests are interchangeable.
KlassSymmetry == Permutations(Klass)

\* Shares and caps of the virtual queues, while classes come and go and are
\* moved from one queue to another, also by writes that are malformed.
VqRequests ==
  Ok("create_vq", 0) \cup Ok("delete_vq", 0)
    \cup Ok("create_txc", 0) \cup Ok("delete_txc", 0)
    \cup UNION {Ok("set_vq_weight", n) : n \in {2}}
    \cup UNION {Ok("set_vq_rate", n) : n \in {0, 17}}
    \cup Ok("recompute_dev", 0)
    \cup {Req("create_txc", "malformed", k, k, 0) : k \in Klass}
    \cup {Req("assoc_txc_vq", "ok", k, l, 0) : k \in Klass, l \in Klass}

\* Lifetimes and references of one class and its queue: who may free what
\* while somebody uses it.
LifeRequests ==
  {Req(op, "ok", First, First, 0) :
     op \in {"create_txc", "delete_txc", "create_vq", "delete_vq", "assoc_txc_vq"}}

\* The same with malformed writes, for processes that race for the mutex.
RaceRequests ==
  LifeRequests
    \cup {Req("assoc_txc_vq", "malformed", First, First, 0)}
    \cup {Req("recompute_dev", "malformed", First, First, 0)}
=============================================================================
