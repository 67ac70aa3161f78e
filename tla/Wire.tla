-------------------------------- MODULE Wire --------------------------------
(***************************************************************************)
(* One direction of a connection: protocol.WriteFrame under the write      *)
(* mutex of a Client or of a server connection, the byte stream, and       *)
(* protocol.ReadFrame followed by the decoder of the frame's type.         *)
(*                                                                         *)
(* The senders are the goroutines that share the connection; each sends a  *)
(* list of messages.  A step writes some bytes or reads a part of a frame. *)
(* Writes carry no deadline, so a write fails only when the connection is  *)
(* broken, and it is then broken for every later one.                      *)
(***************************************************************************)
EXTENDS Codec, SequencesExt

CONSTANTS
    Senders,        \* goroutines that send
    NoSender,
    Lists           \* the lists of messages that a sender may have to send

ASSUME WireAssumption ==
    /\ NoSender \notin Senders
    /\ Lists \subseteq Seq(Messages)
    /\ \A list \in Lists : \A i \in 1 .. Len(list) : WellFormed(list[i])

VARIABLES
    queue,      \* the messages that a sender has yet to send
    at,         \* where a sender is
    left,       \* the bytes that writeFull has yet to write
    mutex,      \* the sender that holds the write mutex
    stream,     \* the bytes in the connection
    broken,     \* the connection is broken
    begun,      \* history: the messages whose frames were begun, in order
    header,     \* the header that ReadFrame has read
    received,   \* the messages that the reader decoded
    reader      \* "read", or why the reader stopped

sendVars == <<queue, at, left, mutex>>
readVars == <<header, received, reader>>
vars == <<sendVars, stream, broken, begun, readVars>>

Init ==
    /\ queue \in [Senders -> Lists]
    /\ at = [s \in Senders |-> "idle"] /\ left = [s \in Senders |-> <<>>]
    /\ mutex = NoSender /\ stream = <<>> /\ broken = FALSE /\ begun = <<>>
    /\ header = <<>> /\ received = <<>> /\ reader = "read"

-----------------------------------------------------------------------------
(* Client.send, connection.send and WriteFrame *)

Fits(m) == CanEncode(m) /\ Len(encode(m)) <= MaxPayloadSize

\* Mutant: the mutex stays locked when WriteFrame returns an error.
Refuse_Locked(s) ==
    /\ at[s] = "idle" /\ queue[s] # <<>> /\ ~Fits(Head(queue[s])) /\ mutex = NoSender
    /\ queue' = [queue EXCEPT ![s] = Tail(@)]
    /\ mutex' = s
    /\ UNCHANGED <<at, left, stream, broken, begun, readVars>>

\* The encoder or WriteFrame returns an error before a byte is written.
Refuse(s) ==
    /\ at[s] = "idle" /\ queue[s] # <<>> /\ ~Fits(Head(queue[s]))
    /\ queue' = [queue EXCEPT ![s] = Tail(@)]
    /\ UNCHANGED <<at, left, mutex, stream, broken, begun, readVars>>

\* Mutant: send does not take the mutex.
Free_Always(s) == TRUE

Free(s) == mutex = NoSender

Begin(s) ==
    LET m == Head(queue[s]) IN
    /\ at[s] = "idle" /\ queue[s] # <<>> /\ Fits(m) /\ Free(s)
    /\ mutex' = s
    /\ at' = [at EXCEPT ![s] = "header"]
    /\ left' = [left EXCEPT ![s] = Header(m.type, encode(m))]
    /\ begun' = Append(begun, m)
    /\ UNCHANGED <<queue, stream, broken, readVars>>

\* net.Conn.Write takes all bytes, or fewer, which writeFull then follows up.
Writes(s, n) ==
    /\ at[s] \in {"header", "payload"} /\ n \in 1 .. Len(left[s]) /\ ~broken
    /\ stream' = stream \o SubSeq(left[s], 1, n)
    /\ left' = [left EXCEPT ![s] = SubSeq(@, n + 1, Len(@))]
    /\ UNCHANGED <<queue, at, mutex, broken, begun, readVars>>

Written(s) == left[s] = <<>>

HeaderDone(s) ==
    /\ at[s] = "header" /\ Written(s)
    /\ at' = [at EXCEPT ![s] = "payload"]
    /\ left' = [left EXCEPT ![s] = encode(Head(queue[s]))]
    /\ UNCHANGED <<queue, mutex, stream, broken, begun, readVars>>

PayloadDone(s) ==
    /\ at[s] = "payload" /\ Written(s)
    /\ at' = [at EXCEPT ![s] = "idle"]
    /\ left' = [left EXCEPT ![s] = <<>>]
    /\ queue' = [queue EXCEPT ![s] = Tail(@)]
    /\ mutex' = NoSender
    /\ UNCHANGED <<stream, broken, begun, readVars>>

WriteFails(s) ==
    /\ at[s] \in {"header", "payload"} /\ ~Written(s) /\ broken
    /\ at' = [at EXCEPT ![s] = "idle"]
    /\ left' = [left EXCEPT ![s] = <<>>]
    /\ queue' = [queue EXCEPT ![s] = Tail(@)]
    /\ mutex' = NoSender
    /\ UNCHANGED <<stream, broken, begun, readVars>>

SendStep(s) ==
    \/ Refuse(s) \/ Begin(s) \/ HeaderDone(s) \/ PayloadDone(s) \/ WriteFails(s)
    \/ Writes(s, 1) \/ Writes(s, Len(left[s]))

\* The bytes that were not yet read may be lost.
Break ==
    /\ ~broken
    /\ broken' = TRUE
    /\ \E n \in 0 .. Len(stream) : stream' = SubSeq(stream, 1, n)
    /\ UNCHANGED <<sendVars, begun, readVars>>

-----------------------------------------------------------------------------
(* ReadFrame and decode *)

Size == Uint(SubSeq(header, 1, 4))

Verdict(h) ==
    IF Uint(SubSeq(h, 1, 4)) > MaxPayloadSize THEN "ErrFrameTooLarge"
    ELSE IF h[5] = 0 THEN "ErrInvalidFrame" ELSE "read"

ReadHeader ==
    LET next == ReadFull(stream, HeaderSize) IN
    /\ reader = "read" /\ header = <<>> /\ next.ok
    /\ stream' = next.rest
    /\ reader' = Verdict(next.value)
    /\ header' = IF Verdict(next.value) = "read" THEN next.value ELSE <<>>
    /\ UNCHANGED <<sendVars, broken, begun, received>>

\* What the decoder of a frame's type makes of its payload, if anything.
Decoded(code, payload) ==
    {decode(t, payload) : t \in {u \in Types : Code[u] = code /\ CanDecode(u, payload)}}

ReadPayload ==
    /\ reader = "read" /\ header # <<>> /\ Size <= Len(stream)
    /\ header' = <<>>
    /\ stream' = ReadFull(stream, Size).rest
    /\ \E messages \in {Decoded(header[5], ReadFull(stream, Size).value)} :
           /\ received' = received \o SetToSeq(messages)
           /\ reader' = IF messages = {} THEN "errInvalidPayload" ELSE "read"
    /\ UNCHANGED <<sendVars, broken, begun>>

ReadFails ==
    /\ reader = "read" /\ broken
    /\ Len(stream) < IF header = <<>> THEN HeaderSize ELSE Size
    /\ reader' = "EOF"
    /\ UNCHANGED <<sendVars, stream, broken, begun, header, received>>

ReadStep == ReadHeader \/ ReadPayload \/ ReadFails

Next == ReadStep \/ Break \/ \E s \in Senders : SendStep(s)

Fairness == WF_vars(ReadStep) /\ \A s \in Senders : WF_vars(SendStep(s))

Spec == Init /\ [][Next]_vars

FairSpec == Spec /\ Fairness

-----------------------------------------------------------------------------
(* Properties *)

\* The payload decoded last has no other reading: it is the encoding of its
\* message, and neither a part of it nor a longer payload is accepted.
OnlyReading ==
    received # <<>> =>
        LET m == Last(received) IN
        \A p \in {encode(m)} :
            /\ \A n \in 0 .. Len(p) - 1 : ~CanDecode(m.type, SubSeq(p, 1, n))
            /\ \A byte \in 0 .. Radix - 1 : ~CanDecode(m.type, Append(p, byte))

\* What the reader decodes is what the senders encoded, message by message and
\* in the order in which they took the write mutex, with no other reading, and
\* it stops only when the connection ends: no frame that a sender was allowed
\* to write is too large, invalid or malformed, and no broken one is taken for
\* another.
FramesIntact ==
    /\ IsPrefix(received, begun)
    /\ reader \in {"read", "EOF"}
    /\ OnlyReading

\* Every message that fits is received, unless the connection breaks: a long
\* or refused message of one sender does not hold up another.
AllReceived ==
    <>(broken \/ (Len(received) = Len(begun) /\ \A s \in Senders : queue[s] = <<>>))
=============================================================================
