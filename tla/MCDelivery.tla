----------------------------- MODULE MCDelivery -----------------------------
(* Small instances of Delivery for TLC. *)
EXTENDS Delivery

CONSTANTS t1, i1, i2, i3

Ev(id) == [id |-> id, topic |-> t1]

OneEvent  == {Ev(i1)}
TwoEvents == {Ev(i1), Ev(i2)}
=============================================================================
