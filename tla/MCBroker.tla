------------------------------ MODULE MCBroker ------------------------------
(* Small instances of Broker for TLC. *)
EXTENDS Broker

CONSTANTS t1, t2, k1, k2, k3

Ev(id, key, t) == [id |-> id, idempotencyKey |-> key, topic |-> t]

\* A message, and a second message for the same operation.
RetryEvents == {Ev(k1, NoKey, t1), Ev(k2, k1, t1)}
\* The same message to either topic, another one, and one without any key.
TwoTopicEvents == {Ev(k1, k1, t1), Ev(k1, k1, t2), Ev(k2, k2, t1), Ev(NoKey, NoKey, t1)}
OneEvent == {Ev(NoKey, NoKey, t1)}
=============================================================================
