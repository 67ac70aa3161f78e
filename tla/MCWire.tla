------------------------------- MODULE MCWire -------------------------------
(* Small instances of Wire for TLC. *)
EXTENDS Wire

CONSTANTS s1, s2

Text(n) == [i \in 1 .. n |-> (i - 1) % Radix]
Message(type, fields) == [type |-> type, fields |-> fields]
PublishOf(n) == Message("PUBLISH", <<<<>>, <<>>, Text(1), <<>>, Text(n)>>)

\* Strings of the greatest length and one more; an event that just fits into a
\* frame and one whose data fit into writeBytes but not into the frame.
ThreeLists ==
    {<<Message("CONNECT", <<<<>>>>), Message("ERROR", <<Text(Radix ^ 2 - 1)>>)>>,
     <<Message("SHUTDOWN", <<Text(Radix ^ 2)>>), Message("ACK", <<Text(2), <<4>>, <<>>>>)>>,
     <<PublishOf(MaxPayloadSize - 12), PublishOf(MaxPayloadSize - 13)>>}
=============================================================================
