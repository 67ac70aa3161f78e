------------------------------- MODULE Codec -------------------------------
(***************************************************************************)
(* The payload encodings of src/transport/tcp/messages.go and the frame    *)
(* header of src/protocol/frame.go, as operators on sequences of bytes.    *)
(*                                                                         *)
(* The functions of messages.go write and read the fields of a message one *)
(* after the other; here each message type has a layout, and encode and    *)
(* decode follow it.  A field is a sequence of bytes (a string, the data   *)
(* of an event) or a single byte (the status of an acknowledgement).       *)
(* Lengths are written in base Radix, 256 in the code.                     *)
(***************************************************************************)
EXTENDS Integers, Sequences

CONSTANTS
    Radix,          \* values of a length byte
    MaxPayloadSize  \* protocol.MaxPayloadSize

ASSUME CodecAssumption ==
    /\ Radix \in Nat \ {0, 1}
    /\ MaxPayloadSize \in Nat /\ MaxPayloadSize < Radix * Radix * Radix * Radix

Layout ==
    [CONNECT |-> <<"string">>, SUBSCRIBE |-> <<"string">>,
     PUBLISH |-> <<"string", "string", "string", "string", "bytes">>,
     EVENT   |-> <<"string", "string", "string", "string", "bytes">>,
     ACK     |-> <<"string", "byte", "string">>, UNSUBSCRIBE |-> <<"string">>,
     ERROR   |-> <<"string">>, SHUTDOWN |-> <<"string">>]

Types == DOMAIN Layout

\* A message has the fields of its type, and a status is one byte.
Messages == [type : Types, fields : Seq(Seq(Nat))]
WellFormed(m) ==
    /\ Len(m.fields) = Len(Layout[m.type])
    /\ \A i \in 1 .. Len(m.fields) : Layout[m.type][i] = "byte" => Len(m.fields[i]) = 1

Code == [CONNECT |-> 1, SUBSCRIBE |-> 2, PUBLISH |-> 3, EVENT |-> 4, ACK |-> 5,
         UNSUBSCRIBE |-> 6, ERROR |-> 9, SHUTDOWN |-> 10]

\* binary.BigEndian: a number in so many bytes, and back.
PutUint(size, n) ==
    LET shifted[k \in 0 .. size] == IF k = 0 THEN n ELSE shifted[k - 1] \div Radix
    IN  [i \in 1 .. size |-> shifted[size - i] % Radix]
Uint(bytes) ==
    LET value[i \in 0 .. Len(bytes)] ==
            IF i = 0 THEN 0 ELSE value[i - 1] * Radix + bytes[i]
    IN  value[Len(bytes)]

\* io.ReadFull: so many bytes and what comes after them, or an error.
Failed == [ok |-> FALSE, value |-> <<>>, rest |-> <<>>]
ReadFull(r, n) ==
    IF Len(r) < n THEN Failed
    ELSE [ok |-> TRUE, value |-> SubSeq(r, 1, n), rest |-> SubSeq(r, n + 1, Len(r))]

LengthSize == [string |-> 2, bytes |-> 4, byte |-> 0]

MaxLength == [string |-> Radix * Radix - 1, bytes |-> MaxPayloadSize, byte |-> 1]

\* writeString, writeBytes and WriteByte.
CanWrite(kind, value) == Len(value) <= MaxLength[kind]
Write(kind, value) == PutUint(LengthSize[kind], Len(value)) \o value

\* readString, readBytes and ReadByte: where a field ends that starts behind
\* position e of r; Len(r) + 1 if the field is too long or not all there.
Read(kind, r) ==
    [e \in 0 .. Len(r) + 1 |->
        LET start == e + LengthSize[kind]
            size  == IF kind = "byte" THEN 1 ELSE Uint(SubSeq(r, e + 1, start))
        IN  IF start <= Len(r) /\ size <= MaxLength[kind] /\ start + size <= Len(r)
            THEN start + size ELSE Len(r) + 1]

\* encodeConnect, encodeTopic, encodePublish, encodeEvent, encodeAck,
\* encodeError and encodeShutdown.
CanEncode(m) == \A i \in 1 .. Len(m.fields) : CanWrite(Layout[m.type][i], m.fields[i])
encode(m) ==
    LET buffer[i \in 0 .. Len(m.fields)] ==
            IF i = 0 THEN <<>>
            ELSE buffer[i - 1] \o Write(Layout[m.type][i], m.fields[i])
    IN  buffer[Len(m.fields)]

Complete(end, payload) == end = Len(payload)

\* decodeConnect and the others: every field must be there, and nothing else.
Ends(type, payload) ==
    LET end[i \in 0 .. Len(Layout[type])] ==
            IF i = 0 THEN 0 ELSE Read(Layout[type][i], payload)[end[i - 1]]
    IN  end
CanDecode(type, payload) ==
    Complete(Ends(type, payload)[Len(Layout[type])], payload)
decode(type, payload) ==
    LET end == Ends(type, payload) IN
    [type |-> type, fields |-> [i \in 1 .. Len(Layout[type]) |->
        SubSeq(payload, end[i - 1] + LengthSize[Layout[type][i]] + 1, end[i])]]

HeaderSize == 5

Header(type, payload) == Append(PutUint(4, Len(payload)), Code[type])
=============================================================================
