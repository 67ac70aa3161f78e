------------------------------- MODULE Stream -------------------------------
(***************************************************************************)
(* What the subscriptions of a broker promise, without how it is done: the *)
(* stream of a subscription is a bounded FIFO that ends once.              *)
(*                                                                         *)
(* An item is either kept for one subscription that is yet to come and     *)
(* replayed to it, or fanned out to several of those that exist; no stream *)
(* gets an item twice.  A stream that has ended takes nothing more, but    *)
(* what it holds can still be taken, unless the stream was cut.            *)
(***************************************************************************)
EXTENDS Naturals, Sequences

CONSTANTS
    Subs,       \* the streams
    Items,      \* what they carry
    Capacity    \* how many items a stream holds

VARIABLES
    phase,      \* "absent", "open" or "ended"
    cut,        \* the stream may lose what it holds
    pending,    \* what it holds
    taken,      \* what its reader has taken, in order
    carried,    \* everything that was ever put into it
    replayed    \* the items that a stream began with

vars == <<phase, cut, pending, taken, carried, replayed>>

Elements(seq) == {seq[i] : i \in 1 .. Len(seq)}

\* What a stream may begin with.
Replays == UNION {[1 .. n -> Items] : n \in 0 .. Capacity}

Distinct(seq) == \A i, j \in 1 .. Len(seq) : seq[i] = seq[j] => i = j

Init ==
    /\ phase = [s \in Subs |-> "absent"]
    /\ cut = [s \in Subs |-> FALSE]
    /\ pending = [s \in Subs |-> <<>>]
    /\ taken = [s \in Subs |-> <<>>]
    /\ carried = [s \in Subs |-> {}]
    /\ replayed = {}

\* A stream begins with items that no stream has carried before.
Begin(s, replay) ==
    /\ phase[s] = "absent"
    /\ Distinct(replay)
    /\ \A r \in Subs : carried[r] \cap Elements(replay) = {}
    /\ phase' = [phase EXCEPT ![s] = "open"]
    /\ pending' = [pending EXCEPT ![s] = replay]
    /\ carried' = [carried EXCEPT ![s] = Elements(replay)]
    /\ replayed' = replayed \cup Elements(replay)
    /\ UNCHANGED <<cut, taken>>

Put(s, x) ==
    /\ phase[s] = "open"
    /\ Len(pending[s]) < Capacity
    /\ x \notin carried[s] /\ x \notin replayed
    /\ pending' = [pending EXCEPT ![s] = Append(@, x)]
    /\ carried' = [carried EXCEPT ![s] = @ \cup {x}]
    /\ UNCHANGED <<phase, cut, taken, replayed>>

Take(s) ==
    /\ pending[s] # <<>>
    /\ taken' = [taken EXCEPT ![s] = Append(@, Head(pending[s]))]
    /\ pending' = [pending EXCEPT ![s] = Tail(@)]
    /\ UNCHANGED <<phase, cut, carried, replayed>>

Cut(s) ==
    /\ phase[s] = "open" /\ ~cut[s]
    /\ cut' = [cut EXCEPT ![s] = TRUE]
    /\ UNCHANGED <<phase, pending, taken, carried, replayed>>

Lose(s) ==
    /\ phase[s] = "open" /\ cut[s]
    /\ pending[s] # <<>>
    /\ pending' = [pending EXCEPT ![s] = Tail(@)]
    /\ UNCHANGED <<phase, cut, taken, carried, replayed>>

\* A stream that was cut ends empty.
End(s) ==
    /\ phase[s] = "open"
    /\ cut[s] => pending[s] = <<>>
    /\ phase' = [phase EXCEPT ![s] = "ended"]
    /\ UNCHANGED <<cut, pending, taken, carried, replayed>>

Next ==
    \E s \in Subs :
        \/ \E replay \in Replays : Begin(s, replay)
        \/ \E x \in Items : Put(s, x)
        \/ Take(s) \/ Cut(s) \/ Lose(s) \/ End(s)

Spec == Init /\ [][Next]_vars
=============================================================================
