--------------------------- MODULE PublishProofs ---------------------------
(***************************************************************************)
(* Proofs about Publish, for any number of calls, brokers, connections,    *)
(* attempts and faults: a success was published, one broker publishes an   *)
(* event once but for the exceptions named in PublishedOnce, and the table *)
(* of pending acknowledgements never outlives its attempt.                 *)
(***************************************************************************)
EXTENDS Publish, SequenceTheorems, FiniteSetTheorems, TLAPS

\* Most leaves are first-order steps, the others need arithmetic or sequences.
USE ZenonT(4), SMTT(60), ZenonT(60)

-----------------------------------------------------------------------------
(* Type correctness *)

\* What TypeOK leaves open and the steps need: readLoop holds the
\* acknowledgement of a call, a call has a connection while it is on one, the
\* broker has subscribers and the handler an answer only for an event that is
\* handled, and the tables are finite.
TypeInv ==
    /\ TypeOK
    /\ \A c \in Conns : reader[c].at = "put" => reader[c].id \in Calls
    /\ \A p \in Calls : call[p].at \in {"register", "send", "wait", "unregister"} =>
                            call[p].conn \in Conns
    /\ \A c \in Conns : /\ routed[c] \/ answer[c] # "none" => serving[c] \in Calls
                        /\ routed[c] => answer[c] = "none"
    /\ \A b \in Brokers : IsFiniteSet(keys[b])

LEMMA TypeInit == Init => TypeInv
<1> SUFFICES ASSUME Init PROVE TypeInv
  OBVIOUS
<1> USE PublishAssumption DEF Init
<1>1. 1 \in Attempts /\ MaxConns \in Nat /\ WireSize \in Nat /\ KeysSize \in Nat
  BY DEF Attempts
<1>2. call \in [Calls -> [at : {"idle", "try", "register", "send", "wait",
                                "unregister", "pause", "returned"},
                          conn : Conns \cup {NoConn}, attempt : Attempts,
                          result : Results]]
  BY <1>1 DEF Results
<1>3. reader \in [Conns -> [at : {"read", "put", "ended"}, id : Calls \cup {NoCall},
                            attempt : Attempts, status : Acks]]
  BY <1>1 DEF Reading, Acks
<1>4. peer \in [Conns -> Brokers]
  OBVIOUS
<1>5. /\ \A c \in Conns : Len(toServer[c]) <= WireSize /\ Len(toClient[c]) <= WireSize
      /\ toServer \in [Conns -> Seq(Calls)]
      /\ toClient \in [Conns -> Seq([id : Calls, status : Acks \cup {"error"}])]
  BY <1>1
<1>6. \A b \in Brokers : IsFiniteSet(keys[b]) /\ Cardinality(keys[b]) <= KeysSize
  <2> SUFFICES ASSUME NEW b \in Brokers
               PROVE  IsFiniteSet(keys[b]) /\ Cardinality(keys[b]) <= KeysSize
    OBVIOUS
  <2>1. keys[b] = {}
    OBVIOUS
  <2>2. IsFiniteSet(keys[b]) /\ Cardinality(keys[b]) = 0
    BY <2>1, FS_EmptySet, Zenon
  <2> QED
    BY <1>1, <2>2
<1>7. /\ channel \in [Calls -> [Attempts -> {<<>>} \cup {<<k>> : k \in Acks}]]
      /\ pending \in [Conns -> [Calls -> Attempts \cup {0}]]
  OBVIOUS
<1>8. /\ done \in [Conns -> BOOLEAN] /\ link \in [Conns -> BOOLEAN]
      /\ serving \in [Conns -> Calls \cup {NoCall}] /\ routed \in [Conns -> BOOLEAN]
      /\ answer \in [Conns -> Acks \cup {"error", "none"}]
      /\ closed \in BOOLEAN /\ status \in [Brokers -> {"up", "closing", "down"}]
      /\ keys \in [Brokers -> SUBSET Calls] /\ published \in [Brokers -> [Calls -> Nat]]
      /\ evicted \in [Brokers -> SUBSET Calls] /\ overlapped \in [Brokers -> SUBSET Calls]
  OBVIOUS
<1>0. faults \in 0 .. MaxFaults /\ count \in 0 .. MaxConns /\ current \in 0 .. count
  BY <1>1 DEF NoConn
<1>9. /\ \A c \in Conns : reader[c].at = "read" /\ ~routed[c] /\ answer[c] = "none"
      /\ \A p \in Calls : call[p].at = "idle"
  BY DEF Reading
<1> QED
  BY <1>0, <1>2, <1>3, <1>4, <1>5, <1>6, <1>7, <1>8, <1>9 DEF TypeInv, TypeOK

\* TypeInv, one part for each group of variables that changes together.
CallT == /\ call \in [Calls -> [at : {"idle", "try", "register", "send", "wait",
                                      "unregister", "pause", "returned"},
                                conn : Conns \cup {NoConn}, attempt : Attempts,
                                result : Results]]
         /\ \A p \in Calls : call[p].at \in {"register", "send", "wait", "unregister"}
                                 => call[p].conn \in Conns
ChanT == channel \in [Calls -> [Attempts -> {<<>>} \cup {<<k>> : k \in Acks}]]
PendT == pending \in [Conns -> [Calls -> Attempts \cup {0}]]
ConnT == done \in [Conns -> BOOLEAN] /\ link \in [Conns -> BOOLEAN]
ReadT == /\ reader \in [Conns -> [at : {"read", "put", "ended"},
                                  id : Calls \cup {NoCall},
                                  attempt : Attempts, status : Acks]]
         /\ \A c \in Conns : reader[c].at = "put" => reader[c].id \in Calls
SendT == /\ toServer \in [Conns -> Seq(Calls)]
         /\ \A c \in Conns : Len(toServer[c]) <= WireSize
BackT == /\ toClient \in [Conns -> Seq([id : Calls, status : Acks \cup {"error"}])]
         /\ \A c \in Conns : Len(toClient[c]) <= WireSize
ServT == /\ serving \in [Conns -> Calls \cup {NoCall}] /\ routed \in [Conns -> BOOLEAN]
         /\ answer \in [Conns -> Acks \cup {"error", "none"}]
         /\ \A c \in Conns : /\ routed[c] \/ answer[c] # "none" => serving[c] \in Calls
                             /\ routed[c] => answer[c] = "none"
DialT == /\ peer \in [Conns -> Brokers] /\ count \in 0 .. MaxConns
         /\ current \in 0 .. count
ClosT == closed \in BOOLEAN
BrokT == faults \in 0 .. MaxFaults /\ status \in [Brokers -> {"up", "closing", "down"}]
KeysT == /\ keys \in [Brokers -> SUBSET Calls]
         /\ \A b \in Brokers : IsFiniteSet(keys[b]) /\ Cardinality(keys[b]) <= KeysSize
HistT == /\ published \in [Brokers -> [Calls -> Nat]]
         /\ evicted \in [Brokers -> SUBSET Calls]
         /\ overlapped \in [Brokers -> SUBSET Calls]

Parts == /\ CallT /\ ChanT /\ PendT /\ ConnT /\ ReadT /\ SendT /\ BackT /\ ServT
         /\ DialT /\ ClosT /\ BrokT /\ KeysT /\ HistT

LEMMA TypeParts == TypeInv <=> Parts
<1>1. TypeInv => Parts
  BY DEF TypeInv, TypeOK, Parts, CallT, ChanT, PendT, ConnT, ReadT, SendT, BackT, ServT,
         DialT, ClosT, BrokT, KeysT, HistT
<1>2. Parts => TypeInv
  BY DEF TypeInv, TypeOK, Parts, CallT, ChanT, PendT, ConnT, ReadT, SendT, BackT, ServT,
         DialT, ClosT, BrokT, KeysT, HistT
<1> QED
  BY <1>1, <1>2

\* An answer is an ACK or ERROR frame for the event that was handled.
LEMMA AnswerType ==
    ASSUME BackT, ConnT, ServT, NEW c \in Conns, Answer(c)
    PROVE  BackT'
<1> DEFINE frame == [id |-> serving[c], status |-> answer[c]]
           Frames == [id : Calls, status : Acks \cup {"error"}]
<1>1. frame \in Frames
  BY DEF Answer, ServT
<1> HIDE DEF frame, Frames
<1>2. WireSize \in Nat /\ toClient \in [Conns -> Seq(Frames)]
      /\ \A d \in Conns : Len(toClient[d]) <= WireSize
  BY PublishAssumption DEF BackT, Frames
<1>3. CASE ~link[c]
  BY <1>3 DEF Answer, BackT
<1>4. CASE link[c]
  <2>1. Len(toClient[c]) < WireSize /\ toClient' = [toClient EXCEPT ![c] = Append(@, frame)]
    BY <1>4 DEF Answer, CanAnswer, frame
  <2>2. /\ Append(toClient[c], frame) \in Seq(Frames) /\ Len(toClient[c]) \in Nat
        /\ Len(Append(toClient[c], frame)) = Len(toClient[c]) + 1
    BY <1>1, <1>2
  <2>3. toClient' \in [Conns -> Seq(Frames)]
    BY <1>2, <2>1, <2>2
  <2>4. \A d \in Conns : Len(toClient'[d]) <= WireSize
    BY <1>2, <2>1, <2>2
  <2> QED
    BY <2>3, <2>4 DEF BackT, Frames
<1> QED
  BY <1>3, <1>4

\* The table of keys stays within its size.
LEMMA RememberType ==
    ASSUME KeysT, NEW b \in Brokers, NEW p \in Calls,
           NEW gone \in IF Cardinality(keys[b]) >= KeysSize THEN {{k} : k \in keys[b]}
                        ELSE {{}},
           Remember(b, p, gone)
    PROVE  KeysT' /\ gone \subseteq Calls
<1> DEFINE kept == keys[b] \ gone
<1>1. /\ KeysSize \in Nat \ {0} /\ keys[b] \subseteq Calls /\ IsFiniteSet(keys[b])
      /\ Cardinality(keys[b]) <= KeysSize
  BY PublishAssumption DEF KeysT
<1>2. Cardinality(keys[b]) \in Nat
  BY <1>1, FS_CardinalityType
<1>3. /\ IsFiniteSet(kept) /\ Cardinality(kept) \in Nat /\ Cardinality(kept) < KeysSize
      /\ gone \subseteq Calls
  <2>1. CASE Cardinality(keys[b]) >= KeysSize
    <3>1. PICK k \in keys[b] : gone = {k}
      BY <2>1
    <3>2. IsFiniteSet(kept) /\ Cardinality(kept) = Cardinality(keys[b]) - 1
      BY <1>1, <3>1, FS_RemoveElement
    <3>3. Cardinality(kept) \in Nat
      BY <3>2, FS_CardinalityType
    <3> HIDE DEF kept
    <3>4. Cardinality(kept) < KeysSize
      BY <1>1, <1>2, <3>2, <3>3
    <3> QED
      BY <1>1, <3>1, <3>2, <3>3, <3>4
  <2>2. CASE ~(Cardinality(keys[b]) >= KeysSize)
    <3>1. gone = {}
      BY <2>2
    <3>2. kept = keys[b]
      BY <3>1
    <3> QED
      BY <1>1, <1>2, <2>2, <3>1, <3>2
  <2> QED
    BY <2>1, <2>2
<1>4. keys' = [keys EXCEPT ![b] = kept \cup {p}] /\ kept \subseteq Calls
  BY <1>1 DEF Remember
<1> HIDE DEF kept
<1>5. /\ IsFiniteSet(kept \cup {p})
      /\ \/ Cardinality(kept \cup {p}) = Cardinality(kept)
         \/ Cardinality(kept \cup {p}) = Cardinality(kept) + 1
  BY <1>3, FS_AddElement
<1>6. Cardinality(kept \cup {p}) <= KeysSize
  BY <1>1, <1>3, <1>5
<1>7. keys' \in [Brokers -> SUBSET Calls]
  BY <1>4 DEF KeysT
<1>8. ASSUME NEW d \in Brokers
      PROVE  IsFiniteSet(keys'[d]) /\ Cardinality(keys'[d]) <= KeysSize
  BY <1>4, <1>5, <1>6 DEF KeysT
<1> QED
  BY <1>3, <1>7, <1>8 DEF KeysT

LEMMA PartsStep == Parts /\ [Next]_vars => Parts'
<1> SUFFICES ASSUME Parts, [Next]_vars PROVE Parts'
  OBVIOUS
<1>p. CallT /\ ChanT /\ PendT /\ ConnT /\ ReadT /\ SendT /\ BackT /\ ServT
      /\ DialT /\ ClosT /\ BrokT /\ KeysT /\ HistT
  BY DEF Parts
<1>a. (UNCHANGED call => CallT') /\ (UNCHANGED channel => ChanT')
      /\ (UNCHANGED pending => PendT')
  BY <1>p DEF CallT, ChanT, PendT
<1>b. (UNCHANGED <<done, link>> => ConnT') /\ (UNCHANGED reader => ReadT')
  BY <1>p DEF ConnT, ReadT
<1>c. (UNCHANGED toServer => SendT') /\ (UNCHANGED toClient => BackT')
      /\ (UNCHANGED <<serving, routed, answer>> => ServT')
  BY <1>p DEF SendT, BackT, ServT
<1>d. (UNCHANGED <<peer, count, current>> => DialT') /\ (UNCHANGED closed => ClosT')
      /\ (UNCHANGED <<faults, status>> => BrokT')
  BY <1>p DEF DialT, ClosT, BrokT
<1>e. (UNCHANGED keys => KeysT') /\ (UNCHANGED <<published, evicted, overlapped>> => HistT')
  BY <1>p DEF KeysT, HistT
<1> USE PublishAssumption
    DEF clientVars, wireVars, dialVars, tableVars, serveVars, serverVars
\* The caller.
<1>1. ASSUME NEW p \in Calls, Begin(p) PROVE Parts'
  <2>1. CallT'
    BY <1>p, <1>1 DEF Begin, Goes, CallT
  <2> QED
    BY <1>1, <2>1, <1>a, <1>b, <1>c, <1>d, <1>e DEF Begin, Parts
<1>2. ASSUME NEW p \in Calls, Try(p) PROVE Parts'
  <2>1. current # NoConn => current \in Conns
    BY <1>p DEF DialT, Conns, NoConn
  <2>2. CallT'
    BY <1>p, <1>2, <2>1 DEF Try, Goes, CallT
  <2> QED
    BY <1>2, <2>2, <1>a, <1>b, <1>c, <1>d, <1>e DEF Try, Parts
<1>3. ASSUME NEW p \in Calls, Register(p) PROVE Parts'
  <2>1. CallT'
    BY <1>p, <1>3 DEF Register, Goes, CallT
  <2>2. call[p].attempt \in Attempts
    BY <1>p DEF CallT
  <2>3. PendT'
    BY <1>p, <1>3, <2>2 DEF Register, PendT
  <2> QED
    BY <1>3, <2>1, <2>3, <1>a, <1>b, <1>c, <1>d, <1>e DEF Register, Parts
<1>4. ASSUME NEW p \in Calls, Send(p) PROVE Parts'
  <2>1. CallT'
    BY <1>p, <1>4 DEF Send, Goes, Fails, Results, CallT
  <2>2. SendT'
    <3> DEFINE c == call[p].conn
    <3>1. CASE UNCHANGED toServer
      BY <1>c, <3>1
    <3>2. CASE Len(toServer[c]) < WireSize /\ toServer' = [toServer EXCEPT ![c] = Append(@, p)]
      <4>1. c \in Conns
        BY <1>p, <1>4 DEF Send, CallT
      <4> HIDE DEF c
      <4>2. /\ toServer[c] \in Seq(Calls) /\ Len(toServer[c]) \in Nat
            /\ Append(toServer[c], p) \in Seq(Calls)
            /\ Len(Append(toServer[c], p)) = Len(toServer[c]) + 1
        BY <1>p, <4>1 DEF SendT
      <4> QED
        BY <1>p, <3>2, <4>1, <4>2 DEF SendT
    <3> QED
      BY <1>4, <3>1, <3>2 DEF Send
  <2> QED
    BY <1>4, <2>1, <2>2, <1>a, <1>b, <1>c, <1>d, <1>e DEF Send, Parts
<1>5. ASSUME NEW p \in Calls, WaitAck(p) PROVE Parts'
  <2>1. /\ call[p].attempt \in Attempts /\ channel[p][call[p].attempt] # <<>>
        /\ channel[p][call[p].attempt] \in {<<>>} \cup {<<k>> : k \in Acks}
    BY <1>p, <1>5 DEF WaitAck, CallT, ChanT
  <2>2. Outcome(Head(channel[p][call[p].attempt])) \in Results
    BY <2>1 DEF Outcome, Acks, Results
  <2>3. CallT'
    BY <1>p, <1>5, <2>2, ZenonT(60) DEF WaitAck, CallT
  <2>4. ChanT'
    BY <1>p, <1>5, <2>1 DEF WaitAck, ChanT
  <2> QED
    BY <1>5, <2>3, <2>4, <1>a, <1>b, <1>c, <1>d, <1>e DEF WaitAck, Parts
<1>6. ASSUME NEW p \in Calls, WaitEnds(p) PROVE Parts'
  <2>1. CallT'
    BY <1>p, <1>6, ZenonT(60) DEF WaitEnds, Fails, Results, CallT
  <2> QED
    BY <1>6, <2>1, <1>a, <1>b, <1>c, <1>d, <1>e DEF WaitEnds, Parts
<1>7. ASSUME NEW p \in Calls, Unregister(p) PROVE Parts'
  <2>1. CallT'
    BY <1>p, <1>7 DEF Unregister, Goes, CallT
  <2>2. PendT'
    BY <1>p, <1>7 DEF Unregister, Entry, PendT
  <2>3. ChanT'
    <3>1. call[p].attempt \in Attempts
      BY <1>p DEF CallT
    <3> QED
      BY <1>p, <1>7, <3>1 DEF Unregister, ChanT
  <2> QED
    BY <1>7, <2>1, <2>2, <2>3, <1>a, <1>b, <1>c, <1>d, <1>e DEF Unregister, Parts
<1>8. ASSUME NEW p \in Calls, Pause(p) PROVE Parts'
  <2>1. call[p].attempt < MaxAttempts => call[p].attempt + 1 \in Attempts
    BY <1>p DEF CallT, Attempts
  <2>2. CallT'
    BY <1>p, <1>8, <2>1 DEF Pause, Fails, Results, CallT
  <2> QED
    BY <1>8, <2>2, <1>a, <1>b, <1>c, <1>d, <1>e DEF Pause, Parts
\* readLoop.
<1>9. ASSUME NEW c \in Conns, ReadAck(c) PROVE Parts'
  <2> DEFINE ack    == Head(toClient[c])
             Frames == [id : Calls, status : Acks \cup {"error"}]
  <2>1. /\ toClient[c] \in Seq(Frames) /\ toClient[c] # <<>>
        /\ Len(toClient[c]) <= WireSize
    BY <1>p, <1>9 DEF BackT, ReadAck
  <2> HIDE DEF Frames
  <2>2. /\ ack \in Frames /\ Tail(toClient[c]) \in Seq(Frames)
        /\ Len(Tail(toClient[c])) = Len(toClient[c]) - 1 /\ Len(toClient[c]) \in Nat
    BY <2>1
  <2>3. ack.id \in Calls /\ ack.status \in Acks
    BY <1>9, <2>2 DEF ReadAck, Frames
  <2>4. Len(Tail(toClient[c])) <= WireSize
    BY <2>1, <2>2
  <2>5. BackT'
    BY <1>p, <1>9, <2>2, <2>4 DEF BackT, ReadAck, Frames
  <2>6. pending[c][ack.id] # 0 => pending[c][ack.id] \in Attempts
    BY <1>p, <2>3 DEF PendT
  <2>7. ReadT'
    BY <1>p, <1>9, <2>3, <2>6 DEF ReadT, ReadAck
  <2> QED
    BY <1>9, <2>5, <2>7, <1>a, <1>b, <1>c, <1>d, <1>e DEF ReadAck, Parts
<1>10. ASSUME NEW c \in Conns, PutAck(c) PROVE Parts'
  <2>1. Reading \in [at : {"read", "put", "ended"}, id : Calls \cup {NoCall},
                     attempt : Attempts, status : Acks] /\ Reading.at # "put"
    BY DEF Reading, Acks, Attempts
  <2>2. ReadT'
    BY <1>p, <1>10, <2>1 DEF PutAck, ReadT
  <2>3. reader[c].id \in Calls /\ reader[c].attempt \in Attempts /\ reader[c].status \in Acks
    BY <1>p, <1>10 DEF PutAck, ReadT
  <2>4. ChanT'
    BY <1>p, <1>10, <2>3 DEF PutAck, ChanT
  <2> QED
    BY <1>10, <2>2, <2>4, <1>a, <1>b, <1>c, <1>d, <1>e DEF PutAck, Parts
<1>11. ASSUME NEW c \in Conns, ReadEnds(c) PROVE Parts'
  <2>1. ReadT'
    BY <1>p, <1>11 DEF ReadEnds, ReadT
  <2>2. ConnT'
    BY <1>p, <1>11 DEF ReadEnds, OnReturn, ConnT
  <2> QED
    BY <1>11, <2>1, <2>2, <1>a, <1>b, <1>c, <1>d, <1>e DEF ReadEnds, Parts
\* The server.
<1>s. ASSUME NEW c \in Conns, toServer[c] # <<>>
      PROVE  /\ Head(toServer[c]) \in Calls
             /\ toServer' = [toServer EXCEPT ![c] = Tail(@)] => SendT'
  <2>1. toServer[c] \in Seq(Calls) /\ Len(toServer[c]) <= WireSize
    BY <1>p DEF SendT
  <2>2. /\ Head(toServer[c]) \in Calls /\ Tail(toServer[c]) \in Seq(Calls)
        /\ Len(Tail(toServer[c])) = Len(toServer[c]) - 1 /\ Len(toServer[c]) \in Nat
    BY <1>s, <2>1
  <2>3. Len(Tail(toServer[c])) <= WireSize
    BY <2>1, <2>2
  <2> QED
    BY <1>p, <2>2, <2>3 DEF SendT
<1>12. ASSUME NEW c \in Conns, ServeReads(c) PROVE Parts'
  <2>1. SendT' /\ Head(toServer[c]) \in Calls
    BY <1>s, <1>12 DEF ServeReads, Serves
  <2>2. ServT'
    BY <1>p, <1>12, <2>1 DEF ServeReads, ServT
  <2> QED
    BY <1>12, <2>1, <2>2, <1>a, <1>b, <1>c, <1>d, <1>e DEF ServeReads, Parts
<1>13. ASSUME NEW c \in Conns, Route(c) PROVE Parts'
  <2>1. ServT' /\ serving[c] \in Calls
    BY <1>p, <1>13 DEF Route, ServT
  <2>2. peer[c] \in Brokers
    BY <1>p DEF DialT
  <2>3. HistT'
    BY <1>p, <1>13, <2>1, <2>2 DEF Route, HistT
  <2> QED
    BY <1>13, <2>1, <2>3, <1>a, <1>b, <1>c, <1>d, <1>e DEF Route, Parts
<1>14. ASSUME NEW c \in Conns, Refuse(c) PROVE Parts'
  <2>1. ServT'
    BY <1>p, <1>14 DEF Refuse, ServT, Acks
  <2> QED
    BY <1>14, <2>1, <1>a, <1>b, <1>c, <1>d, <1>e DEF Refuse, Parts
<1>15. ASSUME NEW c \in Conns, PublishEnds(c) PROVE Parts'
  <2>1. ServT' /\ serving[c] \in Calls
    BY <1>p, <1>15 DEF PublishEnds, ServT, Acks
  <2>3. peer[c] \in Brokers
    BY <1>p DEF DialT
  <2>4. PICK gone \in IF Cardinality(keys[peer[c]]) >= KeysSize
                      THEN {{k} : k \in keys[peer[c]]} ELSE {{}} :
               /\ Remember(peer[c], serving[c], gone)
               /\ evicted' = [evicted EXCEPT ![peer[c]] = @ \cup (gone \ {serving[c]})]
    BY <1>15 DEF PublishEnds
  <2>5. KeysT' /\ gone \subseteq Calls
    BY <1>p, <2>1, <2>3, <2>4, RememberType
  <2>6. evicted' \in [Brokers -> SUBSET Calls] /\ overlapped' \in [Brokers -> SUBSET Calls]
    BY <1>p, <1>15, <2>3, <2>4, <2>5 DEF PublishEnds, HistT
  <2>7. published' \in [Brokers -> [Calls -> Nat]]
    BY <1>p, <1>15, <2>1, <2>3 DEF PublishEnds, HistT
  <2>8. HistT'
    BY <2>6, <2>7 DEF HistT
  <2> QED
    BY <1>15, <2>1, <2>5, <2>8, <1>a, <1>b, <1>c, <1>d, <1>e DEF PublishEnds, Parts
<1>f. ASSUME faults < MaxFaults, faults' = faults + 1, status' \in [Brokers -> {"up", "closing", "down"}]
      PROVE  BrokT'
  BY <1>p, <1>f DEF BrokT
<1>g. status \in [Brokers -> {"up", "closing", "down"}]
  BY <1>p DEF BrokT
<1>16. ASSUME NEW c \in Conns, PublishFails(c) PROVE Parts'
  <2>1. ServT'
    BY <1>p, <1>16 DEF PublishFails, ServT, Acks
  <2>2. BrokT'
    BY <1>f, <1>g, <1>16 DEF PublishFails, Fault
  <2> QED
    BY <1>16, <2>1, <2>2, <1>a, <1>b, <1>c, <1>d, <1>e DEF PublishFails, Parts
<1>17. ASSUME NEW c \in Conns, ServeRefuses(c) PROVE Parts'
  <2>1. SendT' /\ Head(toServer[c]) \in Calls
    BY <1>s, <1>17 DEF ServeRefuses, Serves
  <2>3. ~routed[c]
    BY <1>p, <1>17 DEF ServeRefuses, Serves, ServT
  <2>2. ServT'
    BY <1>p, <1>17, <2>1, <2>3 DEF ServeRefuses, ServT
  <2> QED
    BY <1>17, <2>1, <2>2, <1>a, <1>b, <1>c, <1>d, <1>e DEF ServeRefuses, Parts
<1>27. ASSUME NEW c \in Conns, Answer(c) PROVE Parts'
  <2>1. ~routed[c]
    BY <1>p, <1>27 DEF Answer, ServT
  <2>2. ServT'
    BY <1>p, <1>27, <2>1 DEF Answer, ServT
  <2>3. BackT'
    BY <1>p, <1>27, AnswerType
  <2> QED
    BY <1>27, <2>2, <2>3, <1>a, <1>b, <1>c, <1>d, <1>e DEF Answer, Parts
<1>18. ASSUME NEW c \in Conns, ServeEnds(c) PROVE Parts'
  <2>1. SendT'
    BY <1>p, <1>18 DEF ServeEnds, SendT
  <2> QED
    BY <1>18, <2>1, <1>a, <1>b, <1>c, <1>d, <1>e DEF ServeEnds, Parts
\* The manager, the network and the brokers.
<1>19. ASSUME NEW c \in Conns, Cut(c) PROVE Parts'
  <2>1. ConnT'
    BY <1>p, <1>19 DEF Cut, ConnT
  <2>2. BrokT'
    BY <1>f, <1>g, <1>19 DEF Cut, Fault
  <2> QED
    BY <1>19, <2>1, <2>2, <1>a, <1>b, <1>c, <1>d, <1>e DEF Cut, Parts
<1>20. ASSUME NEW b \in Brokers, Reconnect(b) PROVE Parts'
  <2>1. ConnT'
    BY <1>p, <1>20 DEF Reconnect, ConnT
  <2>2. peer' \in [Conns -> Brokers]
    BY <1>p, <1>20 DEF Reconnect, DialT
  <2>3. count' \in 0 .. MaxConns /\ current' \in 0 .. count'
    BY <1>p, <1>20 DEF Reconnect, DialT
  <2> QED
    BY <1>20, <2>1, <2>2, <2>3, <1>a, <1>b, <1>c, <1>d, <1>e DEF Reconnect, Parts, DialT
<1>21. ASSUME NEW b \in Brokers, Shutdown(b) PROVE Parts'
  <2>1. BrokT'
    BY <1>f, <1>g, <1>21 DEF Shutdown, Fault
  <2> QED
    BY <1>21, <2>1, <1>a, <1>b, <1>c, <1>d, <1>e DEF Shutdown, Parts
<1>22. ASSUME NEW b \in Brokers, Crash(b) PROVE Parts'
  <2>1. ConnT'
    BY <1>p, <1>22 DEF Crash, ConnT
  <2>2. BrokT'
    BY <1>f, <1>g, <1>22 DEF Crash, Fault
  <2>3. SendT'
    BY <1>p, <1>22 DEF Crash, SendT
  <2>4. ServT'
    BY <1>p, <1>22 DEF Crash, ServT
  <2> QED
    BY <1>22, <2>1, <2>2, <2>3, <2>4, <1>a, <1>b, <1>c, <1>d, <1>e DEF Crash, Parts
<1>23. ASSUME NEW b \in Brokers, Evict(b) PROVE Parts'
  <2>1. BrokT'
    BY <1>f, <1>g, <1>23 DEF Evict, Fault
  <2>2. PICK k \in keys[b] : /\ keys' = [keys EXCEPT ![b] = @ \ {k}]
                             /\ evicted' = [evicted EXCEPT ![b] = @ \cup {k}]
    BY <1>23 DEF Evict
  <2>3. keys[b] \subseteq Calls /\ IsFiniteSet(keys[b]) /\ Cardinality(keys[b]) <= KeysSize
    BY <1>p DEF KeysT
  <2>4. /\ IsFiniteSet(keys[b] \ {k}) /\ Cardinality(keys[b] \ {k}) = Cardinality(keys[b]) - 1
        /\ Cardinality(keys[b]) \in Nat
    BY <2>3, FS_RemoveElement, FS_CardinalityType
  <2>5. Cardinality(keys[b] \ {k}) <= KeysSize
    BY <2>3, <2>4
  <2>6. KeysT'
    BY <1>p, <2>2, <2>3, <2>4, <2>5 DEF KeysT
  <2>7. HistT'
    BY <1>p, <1>23, <2>2, <2>3 DEF HistT, Evict
  <2> QED
    BY <1>23, <2>1, <2>6, <2>7, <1>a, <1>b, <1>c, <1>d, <1>e DEF Evict, Parts
<1>24. ASSUME Leave PROVE Parts'
  <2>0. current' = 0 /\ UNCHANGED <<peer, count>>
    BY <1>24 DEF Leave, NoConn
  <2>1. DialT'
    BY <1>p, <2>0 DEF DialT
  <2> QED
    BY <1>24, <2>1, <1>a, <1>b, <1>c, <1>d, <1>e DEF Leave, Parts
<1>25. ASSUME Close PROVE Parts'
  <2>1. DialT'
    BY <1>p, <1>25 DEF Close, DialT, NoConn
  <2>4. ClosT'
    BY <1>25 DEF Close, ClosT
  <2>2. ConnT'
    BY <1>p, <1>25 DEF Close, ConnT
  <2>3. BrokT'
    BY <1>f, <1>g, <1>25 DEF Close, Fault
  <2> QED
    BY <1>25, <2>1, <2>2, <2>3, <2>4, <1>a, <1>b, <1>c, <1>d, <1>e DEF Close, Parts
<1>26. ASSUME UNCHANGED vars PROVE Parts'
  BY <1>26, <1>a, <1>b, <1>c, <1>d, <1>e DEF vars, Parts
<1> QED
  BY <1>1, <1>2, <1>3, <1>4, <1>5, <1>6, <1>7, <1>8, <1>9, <1>10, <1>11, <1>12, <1>13,
     <1>14, <1>15, <1>16, <1>17, <1>18, <1>19, <1>20, <1>21, <1>22, <1>23, <1>24, <1>25,
     <1>26, <1>27 DEF Next, CallStep, ReadStep, ServeStep

LEMMA TypeStep == TypeInv /\ [Next]_vars => TypeInv'
  BY TypeParts, PartsStep, PTL

\* The types of TypeOK: in particular a connection never holds more frames
\* than fit, and the idempotency table never outgrows its size.
THEOREM TypeCorrect == Spec => []TypeOK
<1>1. TypeInv => TypeOK
  BY DEF TypeInv
<1> QED
  BY <1>1, TypeInit, TypeStep, PTL DEF Spec

-----------------------------------------------------------------------------
(* The table of pending acknowledgements *)

\* What a call does, by place; everything else leaves call and pending alone.
LEMMA CallChange ==
    ASSUME [Next]_vars
    PROVE  \/ UNCHANGED <<call, pending>>
           \/ \E p \in Calls :
                \/ /\ Begin(p) \/ Try(p) \/ Send(p) \/ WaitAck(p) \/ WaitEnds(p)
                      \/ Pause(p)
                   /\ UNCHANGED pending
                \/ Register(p) \/ Unregister(p)
<1> DEFINE Goal == \/ UNCHANGED <<call, pending>>
                   \/ \E p \in Calls :
                        \/ /\ Begin(p) \/ Try(p) \/ Send(p) \/ WaitAck(p)
                              \/ WaitEnds(p) \/ Pause(p)
                           /\ UNCHANGED pending
                        \/ Register(p) \/ Unregister(p)
<1>1. ASSUME NEW p \in Calls, Begin(p) \/ CallStep(p)
      PROVE  Goal
  BY <1>1 DEF CallStep, Begin, Try, Send, WaitAck, WaitEnds, Pause
<1>2. ASSUME NEW c \in Conns, ReadStep(c) \/ ServeStep(c) \/ PublishEnds(c)
                               \/ PublishFails(c) \/ Cut(c)
      PROVE  Goal
  BY <1>2 DEF ReadStep, ReadAck, PutAck, ReadEnds, ServeStep, ServeReads, Route, Refuse,
              Answer, PublishEnds, ServeRefuses, ServeEnds, PublishFails, Cut
<1>3. ASSUME NEW b \in Brokers, Reconnect(b) \/ Shutdown(b) \/ Crash(b) \/ Evict(b)
      PROVE  Goal
  BY <1>3 DEF Reconnect, Shutdown, Crash, Evict
<1>4. ASSUME Leave \/ Close \/ UNCHANGED vars
      PROVE  Goal
  BY <1>4 DEF Leave, Close, vars
<1> HIDE DEF Goal
<1>5. Goal
  BY <1>1, <1>2, <1>3, <1>4 DEF Next
<1> QED
  BY <1>5 DEF Goal

LEMMA PendingStep == TypeInv /\ PendingIsOpen /\ [Next]_vars => PendingIsOpen'
<1> SUFFICES ASSUME TypeInv, PendingIsOpen, [Next]_vars,
                    NEW c \in Conns, NEW q \in Calls, pending'[c][q] # 0
             PROVE  /\ call'[q].conn = c /\ call'[q].attempt = pending'[c][q]
                    /\ call'[q].at \in {"send", "wait", "unregister"}
  BY DEF PendingIsOpen
<1> DEFINE Open == /\ call[q].conn = c /\ call[q].attempt = pending[c][q]
                   /\ call[q].at \in {"send", "wait", "unregister"}
           Goal == /\ call'[q].conn = c /\ call'[q].attempt = pending'[c][q]
                   /\ call'[q].at \in {"send", "wait", "unregister"}
<1>t. CallT /\ PendT
  BY TypeParts DEF Parts
<1>o. pending[c][q] # 0 => Open
  BY DEF PendingIsOpen
<1>1. ASSUME NEW p \in Calls, Begin(p) \/ Try(p) \/ Send(p) \/ WaitAck(p) \/ WaitEnds(p)
                               \/ Pause(p), UNCHANGED pending
      PROVE  Goal
  <2>1. Open /\ pending'[c][q] = pending[c][q]
    BY <1>1, <1>o
  <2>2. CASE q # p
    BY <1>t, <1>1, <2>1, <2>2
    DEF Begin, Try, Send, WaitAck, WaitEnds, Pause, Goes, Fails, CallT
  <2>3. CASE q = p
    BY <1>t, <1>1, <2>1, <2>3
    DEF Begin, Try, Send, WaitAck, WaitEnds, Pause, Goes, Fails, CallT
  <2> QED
    BY <2>2, <2>3
<1>2. ASSUME NEW p \in Calls, Register(p)
      PROVE  Goal
  <2>1. CASE q = p
    <3>1. ~Open
      BY <1>2, <2>1 DEF Register
    <3>2. pending[c][q] = 0
      BY <1>o, <3>1
    <3>3. c = call[p].conn
      BY <1>t, <1>2, <2>1, <3>2 DEF Register, PendT
    <3> QED
      BY <1>t, <1>2, <2>1, <3>3 DEF Register, Goes, CallT, PendT
  <2>2. CASE q # p
    <3>1. pending'[c][q] = pending[c][q]
      BY <1>t, <1>2, <2>2 DEF Register, PendT
    <3> QED
      BY <1>t, <1>o, <1>2, <2>2, <3>1 DEF Register, Goes, CallT
  <2> QED
    BY <2>1, <2>2
<1>3. ASSUME NEW p \in Calls, Unregister(p)
      PROVE  Goal
  <2>1. CASE q = p
    <3>1. c # call[p].conn
      BY <1>t, <1>3, <2>1 DEF Unregister, Entry, PendT
    <3>2. pending'[c][q] = pending[c][q]
      BY <1>t, <1>3, <3>1 DEF Unregister, PendT
    <3> QED
      BY <1>o, <2>1, <3>1, <3>2
  <2>2. CASE q # p
    <3>1. pending'[c][q] = pending[c][q]
      BY <1>t, <1>3, <2>2 DEF Unregister, PendT
    <3> QED
      BY <1>t, <1>o, <1>3, <2>2, <3>1 DEF Unregister, Goes, CallT
  <2> QED
    BY <2>1, <2>2
<1>4. CASE UNCHANGED <<call, pending>>
  BY <1>o, <1>4
<1> QED
  BY <1>1, <1>2, <1>3, <1>4, CallChange

\* An acknowledgement can only be handed to an attempt that is being made: a
\* call takes its entry out of Client.pending on every way out.
THEOREM PendingIsOpenHolds == Spec => []PendingIsOpen
<1>1. Init => PendingIsOpen
  BY DEF Init, PendingIsOpen
<1>2. TypeInv /\ PendingIsOpen /\ [Next]_vars => TypeInv' /\ PendingIsOpen'
  BY TypeStep, PendingStep
<1> QED
  BY <1>1, <1>2, TypeInit, PTL DEF Spec

-----------------------------------------------------------------------------
(* A success was published *)

Pub  == {p \in Calls : \E b \in Brokers : published[b][p] > 0}
Good == {"published", "duplicate"}

\* Every key, and every acknowledgement that stands for a success, with the
\* handler, on its way, with readLoop, in a channel or taken, is of an event
\* that was published.
KeyP  == \A b \in Brokers : \A p \in keys[b] : published[b][p] > 0
HandP == \A c \in Conns : answer[c] \in Good => serving[c] \in Pub
WireP == \A c \in Conns : \A i \in 1 .. Len(toClient[c]) :
             toClient[c][i].status \in Good => toClient[c][i].id \in Pub
ReadP == \A c \in Conns : reader[c].at = "put" /\ reader[c].status \in Good =>
             reader[c].id \in Pub
ChanP == \A p \in Calls, a \in Attempts :
             channel[p][a] # <<>> /\ Head(channel[p][a]) \in Good => p \in Pub
CallP == \A p \in Calls : /\ call[p].result \in Good => p \in Pub
                          /\ call[p].at \in {"unregister", "returned"} =>
                                 call[p].result # "none"

SuccessInv == KeyP /\ HandP /\ WireP /\ ReadP /\ ChanP /\ CallP

LEMMA SuccessInit == Init => SuccessInv
<1> SUFFICES ASSUME Init PROVE SuccessInv
  OBVIOUS
<1>1. KeyP /\ ChanP /\ HandP
  BY DEF Init, KeyP, ChanP, HandP, Good
<1>2. WireP
  BY DEF Init, WireP
<1>3. ReadP /\ CallP
  BY DEF Init, ReadP, CallP, Reading, Good
<1> QED
  BY <1>1, <1>2, <1>3 DEF SuccessInv

\* Only the end of a handler changes what was published, and it adds to it.
LEMMA PublishedChange ==
    ASSUME [Next]_vars
    PROVE  UNCHANGED published \/ \E c \in Conns : PublishEnds(c)
<1> USE DEF tableVars, serverVars
<1>1. ASSUME NEW p \in Calls, Begin(p) \/ CallStep(p)
      PROVE  UNCHANGED published
  BY <1>1 DEF CallStep, Begin, Try, Register, Send, WaitAck, WaitEnds, Unregister, Pause
<1>2. ASSUME NEW c \in Conns, ReadStep(c) \/ ServeStep(c) \/ PublishFails(c) \/ Cut(c)
      PROVE  UNCHANGED published
  BY <1>2 DEF ReadStep, ReadAck, PutAck, ReadEnds, ServeStep, ServeReads, Route, Refuse,
              Answer, ServeRefuses, ServeEnds, PublishFails, Cut
<1>3. ASSUME NEW b \in Brokers, Reconnect(b) \/ Shutdown(b) \/ Crash(b) \/ Evict(b)
      PROVE  UNCHANGED published
  BY <1>3 DEF Reconnect, Shutdown, Crash, Evict
<1>4. ASSUME Leave \/ Close \/ UNCHANGED vars
      PROVE  UNCHANGED published
  BY <1>4 DEF Leave, Close, vars
<1> QED
  BY <1>1, <1>2, <1>3, <1>4 DEF Next

LEMMA PublishedGrows ==
    ASSUME TypeInv, [Next]_vars, NEW b \in Brokers, NEW p \in Calls, published[b][p] > 0
    PROVE  published'[b][p] > 0
<1>1. CASE UNCHANGED published
  BY <1>1
<1>2. ASSUME NEW c \in Conns, PublishEnds(c)
      PROVE  published'[b][p] > 0
  <2>1. published \in [Brokers -> [Calls -> Nat]]
    BY DEF TypeInv, TypeOK
  <2>2. published' = [published EXCEPT ![peer[c]][serving[c]] = @ + 1]
    BY <1>2 DEF PublishEnds
  <2>3. published'[b][p] = published[b][p] \/ published'[b][p] = published[b][p] + 1
    BY <2>1, <2>2
  <2> QED
    BY <2>1, <2>3
<1> QED
  BY <1>1, <1>2, PublishedChange

\* A frame of success is of an event that has been published.
LEMMA AnswerPublished ==
    ASSUME TypeInv, HandP, WireP, Pub \subseteq Pub', NEW c \in Conns, Answer(c)
    PROVE  WireP'
<1> SUFFICES ASSUME NEW d \in Conns, NEW i \in 1 .. Len(toClient'[d]),
                    toClient'[d][i].status \in Good
             PROVE  toClient'[d][i].id \in Pub'
  BY DEF WireP
<1> DEFINE Frames == [id : Calls, status : Acks \cup {"error"}]
           frame  == [id |-> serving[c], status |-> answer[c]]
<1>1. DOMAIN toClient = Conns /\ toClient[c] \in Seq(Frames) /\ toClient[d] \in Seq(Frames)
  BY DEF TypeInv, TypeOK
<1>2. ASSUME NEW j \in 1 .. Len(toClient[d]), toClient'[d][i] = toClient[d][j]
      PROVE  toClient'[d][i].id \in Pub'
  <2>1. toClient[d][j] \in Frames
    BY <1>1, <1>2, ElementOfSeq
  <2>2. toClient[d][j].id \in Pub
    BY <1>2, <2>1 DEF WireP
  <2>3. toClient[d][j].id \in Pub'
    BY <2>2, <1>2
  <2> QED
    BY <1>2, <2>2
<1>3. CASE UNCHANGED toClient \/ d # c
  BY <1>1, <1>2, <1>3 DEF Answer
<1>4. CASE toClient' = [toClient EXCEPT ![c] = Append(@, frame)] /\ d = c
  <2>1. toClient'[d] = Append(toClient[d], frame)
    BY <1>1, <1>4
  <2>2. CASE i \in 1 .. Len(toClient[d])
    <3>1. toClient'[d][i] = toClient[d][i]
      BY <1>1, <2>1, <2>2
    <3> QED
      BY <1>2, <2>2, <3>1
  <2>3. CASE i \notin 1 .. Len(toClient[d])
    <3>1. toClient'[d][i] = frame
      BY <1>1, <2>1, <2>3
    <3> QED
      BY <3>1 DEF HandP
  <2> QED
    BY <2>2, <2>3
<1> QED
  BY <1>3, <1>4 DEF Answer

LEMMA SuccessStep == TypeInv /\ SuccessInv /\ [Next]_vars => SuccessInv'
<1> SUFFICES ASSUME TypeInv, SuccessInv, [Next]_vars PROVE SuccessInv'
  OBVIOUS
<1>t. CallT /\ ChanT /\ PendT /\ ReadT /\ BackT /\ ServT /\ DialT /\ KeysT /\ HistT
  BY TypeParts DEF Parts
<1>p. KeyP /\ HandP /\ WireP /\ ReadP /\ ChanP /\ CallP
  BY DEF SuccessInv
<1>n. NoCall \notin Calls
  BY PublishAssumption
<1>g. Pub \subseteq Pub'
  BY PublishedGrows DEF Pub
<1>a. UNCHANGED keys => KeyP'
  BY <1>t, <1>p, PublishedGrows DEF KeyP, KeysT
<1>b. (UNCHANGED toClient => WireP') /\ (UNCHANGED reader => ReadP')
      /\ (UNCHANGED <<serving, answer>> => HandP')
  BY <1>g, <1>p DEF WireP, ReadP, HandP
<1>c. (UNCHANGED channel => ChanP') /\ (UNCHANGED call => CallP')
  BY <1>g, <1>p DEF ChanP, CallP
<1> USE DEF clientVars, wireVars, dialVars, tableVars, serveVars, serverVars
<1>1. ASSUME NEW p \in Calls, Begin(p) \/ Try(p) \/ Register(p) \/ Send(p) \/ WaitEnds(p)
                               \/ Unregister(p) \/ Pause(p)
      PROVE  SuccessInv'
  <2>1. UNCHANGED <<keys, toClient, reader, serving, answer>>
    BY <1>1 DEF Begin, Try, Register, Send, WaitEnds, Unregister, Pause
  <2>4. ChanP'
    <3>1. CASE UNCHANGED channel
      BY <1>c, <3>1
    <3>2. CASE channel' = [channel EXCEPT ![p][call[p].attempt] = <<>>]
      <4>1. \A q \in Calls, a \in Attempts : channel'[q][a] \in {channel[q][a], <<>>}
        BY <1>t, <3>2 DEF ChanT
      <4> QED
        BY <1>g, <1>p, <4>1 DEF ChanP
    <3> QED
      BY <1>1, <3>1, <3>2 DEF Begin, Try, Register, Send, WaitEnds, Unregister, Pause
  <2>2. ASSUME NEW q \in Calls
        PROVE  /\ \/ call'[q].result = call[q].result
                  \/ call'[q].result \in {"error", "none"}
               /\ call'[q].at \in {"unregister", "returned"} => call'[q].result # "none"
    <3>1. CASE q # p
      BY <1>1, <1>p, <1>t, <3>1 DEF Begin, Try, Register, Send, WaitEnds, Unregister, Pause,
                              Goes, Fails, CallT, CallP
    <3>2. CASE q = p
      <4>1. CASE Begin(p) \/ Try(p) \/ Register(p)
        BY <1>t, <3>2, <4>1 DEF Begin, Try, Register, Goes, CallT
      <4>2. CASE Send(p) \/ WaitEnds(p)
        BY <1>t, <3>2, <4>2 DEF Send, WaitEnds, Goes, Fails, CallT
      <4>3. CASE Unregister(p)
        BY <1>p, <1>t, <3>2, <4>3 DEF Unregister, Goes, CallT, CallP
      <4>4. CASE Pause(p)
        BY <1>t, <3>2, <4>4 DEF Pause, Fails, CallT
      <4> QED
        BY <1>1, <4>1, <4>2, <4>3, <4>4
    <3> QED
      BY <3>1, <3>2
  <2>3. CallP'
    BY <1>g, <1>p, <2>2 DEF CallP, Good
  <2> QED
    BY <1>a, <1>b, <2>1, <2>3, <2>4 DEF SuccessInv
<1>2. ASSUME NEW p \in Calls, WaitAck(p)
      PROVE  SuccessInv'
  <2> DEFINE a == call[p].attempt
  <2>1. /\ a \in Attempts /\ channel[p][a] # <<>>
        /\ channel[p][a] \in {<<>>} \cup {<<k>> : k \in Acks}
    BY <1>t, <1>2 DEF WaitAck, CallT, ChanT
  <2>2. Outcome(Head(channel[p][a])) \in Good => p \in Pub
    BY <1>p, <2>1 DEF ChanP, Outcome, Good
  <2>3. Outcome(Head(channel[p][a])) # "none"
    BY <2>1 DEF Outcome, Acks
  <2>4. call' = [call EXCEPT ![p].at = "unregister", ![p].result = Outcome(Head(channel[p][a]))]
    BY <1>2 DEF WaitAck
  <2>5. CallP'
    BY <1>t, <1>g, <1>p, <2>2, <2>3, <2>4 DEF CallP, CallT
  <2>6. ChanP'
    BY <1>t, <1>g, <1>p, <1>2, <2>1 DEF WaitAck, ChanP, ChanT
  <2> QED
    BY <1>a, <1>b, <1>2, <2>5, <2>6 DEF SuccessInv, WaitAck
<1>3. ASSUME NEW c \in Conns, ReadAck(c)
      PROVE  SuccessInv'
  <2> DEFINE Frames == [id : Calls, status : Acks \cup {"error"}]
             ack    == Head(toClient[c])
  <2>1. toClient \in [Conns -> Seq(Frames)]
    BY <1>t DEF BackT
  <2>2. toClient[c] # <<>> /\ toClient' = [toClient EXCEPT ![c] = Tail(@)]
    BY <1>3 DEF ReadAck
  <2> HIDE DEF Frames
  <2>3. /\ Len(Tail(toClient[c])) = Len(toClient[c]) - 1 /\ Len(toClient[c]) \in Nat
        /\ \A i \in 1 .. Len(toClient[c]) - 1 : Tail(toClient[c])[i] = toClient[c][i + 1]
        /\ ack = toClient[c][1] /\ Len(toClient[c]) > 0
    BY <2>1, <2>2
  <2>4. WireP'
    <3> SUFFICES ASSUME NEW d \in Conns, NEW i \in 1 .. Len(toClient'[d]),
                        toClient'[d][i].status \in Good
                 PROVE  toClient'[d][i].id \in Pub'
      BY DEF WireP
    <3>1. CASE d # c
      BY <1>g, <1>p, <2>1, <2>2, <3>1 DEF WireP
    <3>2. CASE d = c
      <4>1. i + 1 \in 1 .. Len(toClient[c]) /\ toClient'[d][i] = toClient[c][i + 1]
        BY <2>1, <2>2, <2>3, <3>2
      <4> QED
        BY <1>g, <1>p, <4>1 DEF WireP
    <3> QED
      BY <3>1, <3>2
  <2>5. ack.status \in Good => ack.id \in Pub
    <3>1. 1 \in 1 .. Len(toClient[c])
      BY <2>3
    <3> QED
      BY <1>p, <2>3, <3>1 DEF WireP
  <2>6. ReadP'
    BY <1>t, <1>g, <1>p, <1>3, <2>5 DEF ReadAck, ReadP, ReadT
  <2> QED
    BY <1>a, <1>b, <1>c, <1>3, <2>4, <2>6 DEF SuccessInv, ReadAck
<1>4. ASSUME NEW c \in Conns, PutAck(c)
      PROVE  SuccessInv'
  <2>1. ReadP'
    BY <1>t, <1>g, <1>p, <1>4 DEF PutAck, ReadP, ReadT, Reading
  <2>2. /\ \/ UNCHANGED channel
           \/ channel' = [channel EXCEPT ![reader[c].id][reader[c].attempt] =
                                             <<reader[c].status>>]
        /\ reader[c].status \in Good => reader[c].id \in Pub
    BY <1>p, <1>4 DEF PutAck, ReadP
  <2>3. ASSUME NEW q \in Calls, NEW a \in Attempts
        PROVE  \/ channel'[q][a] = channel[q][a]
               \/ channel'[q][a] = <<reader[c].status>> /\ q = reader[c].id
    BY <1>t, <2>2 DEF ChanT
  <2>4. Head(<<reader[c].status>>) = reader[c].status
    OBVIOUS
  <2>5. ChanP'
    BY <1>g, <1>p, <2>2, <2>3, <2>4 DEF ChanP
  <2> QED
    BY <1>a, <1>b, <1>c, <1>4, <2>1, <2>5 DEF SuccessInv, PutAck
<1>5. ASSUME NEW c \in Conns, ReadEnds(c)
      PROVE  SuccessInv'
  <2>1. ReadP'
    BY <1>t, <1>g, <1>p, <1>5 DEF ReadEnds, ReadP, ReadT
  <2> QED
    BY <1>a, <1>b, <1>c, <1>5, <2>1 DEF SuccessInv, ReadEnds
<1>6. ASSUME NEW c \in Conns, Refuse(c)
      PROVE  SuccessInv'
  <2>1. serving[c] \in Calls /\ peer[c] \in Brokers
    BY <1>t, <1>6 DEF Refuse, ServT, DialT
  <2>2. serving[c] \in keys[peer[c]] => serving[c] \in Pub'
    BY <1>p, <1>g, <2>1 DEF KeyP, Pub
  <2>3. HandP'
    BY <1>t, <1>g, <1>p, <1>6, <2>2 DEF Refuse, HandP, ServT, Good
  <2> QED
    BY <1>a, <1>b, <1>c, <1>6, <2>3 DEF SuccessInv, Refuse
<1>7. ASSUME NEW c \in Conns, PublishEnds(c)
      PROVE  SuccessInv'
  <2> DEFINE p == serving[c]
             b == peer[c]
  <2>1. p \in Calls /\ b \in Brokers
    BY <1>t, <1>7 DEF PublishEnds, ServT, DialT
  <2>2. published[b][p] \in Nat /\ published'[b][p] = published[b][p] + 1
    BY <1>t, <1>7, <2>1 DEF PublishEnds, HistT
  <2>3. published'[b][p] > 0
    BY <2>2
  <2>4. p \in Pub'
    BY <2>1, <2>3 DEF Pub
  <2>5. HandP'
    BY <1>t, <1>g, <1>p, <1>7, <2>4 DEF PublishEnds, HandP, ServT
  <2>6. ASSUME NEW d \in Brokers, NEW k \in keys'[d]
        PROVE  published'[d][k] > 0
    <3>1. k \in keys[d] \/ (d = b /\ k = p)
      BY <1>t, <1>7, <2>1 DEF PublishEnds, Remember, KeysT
    <3>2. k \in keys[d] => k \in Calls /\ published[d][k] > 0
      BY <1>t, <1>p DEF KeyP, KeysT
    <3> QED
      BY <2>3, <3>1, <3>2, PublishedGrows
  <2>7. KeyP'
    BY <2>6 DEF KeyP
  <2> QED
    BY <1>b, <1>c, <1>7, <2>5, <2>7 DEF SuccessInv, PublishEnds
<1>8. ASSUME NEW c \in Conns, PublishFails(c)
      PROVE  SuccessInv'
  <2>1. HandP'
    BY <1>t, <1>g, <1>p, <1>8 DEF PublishFails, HandP, ServT, Good
  <2> QED
    BY <1>a, <1>b, <1>c, <1>8, <2>1 DEF SuccessInv, PublishFails
<1>9. ASSUME NEW c \in Conns, ServeReads(c) \/ ServeRefuses(c)
      PROVE  SuccessInv'
  <2>1. answer'[c] \in {"none", "error"}
    BY <1>t, <1>n, <1>9 DEF ServeReads, ServeRefuses, Serves, ServT
  <2>2. ASSUME NEW d \in Conns, d # c
        PROVE  answer'[d] = answer[d] /\ serving'[d] = serving[d]
    BY <1>t, <1>9, <2>2 DEF ServeReads, ServeRefuses, ServT
  <2>3. HandP'
    BY <1>g, <1>p, <2>1, <2>2 DEF HandP, Good
  <2> QED
    BY <1>a, <1>b, <1>c, <1>9, <2>3 DEF SuccessInv, ServeReads, ServeRefuses
<1>14. ASSUME NEW c \in Conns, Answer(c)
       PROVE  SuccessInv'
  <2>1. HandP'
    BY <1>t, <1>g, <1>p, <1>14 DEF Answer, HandP, ServT, Good
  <2>2. WireP'
    BY <1>g, <1>p, <1>14, AnswerPublished
  <2> QED
    BY <1>a, <1>b, <1>c, <1>14, <2>1, <2>2 DEF SuccessInv, Answer
<1>10. ASSUME NEW c \in Conns, Route(c) \/ ServeEnds(c) \/ Cut(c)
       PROVE  SuccessInv'
  BY <1>a, <1>b, <1>c, <1>10 DEF SuccessInv, Route, ServeEnds, Cut
<1>11. ASSUME NEW b \in Brokers, Reconnect(b) \/ Shutdown(b) \/ Crash(b)
       PROVE  SuccessInv'
  <2>1. ASSUME NEW d \in Conns, answer'[d] \in Good
        PROVE  answer'[d] = answer[d] /\ serving'[d] = serving[d]
    BY <1>11, <2>1 DEF Reconnect, Shutdown, Crash, Good
  <2>2. HandP'
    BY <1>g, <1>p, <2>1 DEF HandP
  <2> QED
    BY <1>a, <1>b, <1>c, <1>11, <2>2 DEF SuccessInv, Reconnect, Shutdown, Crash
<1>12. ASSUME NEW b \in Brokers, Evict(b)
       PROVE  SuccessInv'
  <2>1. UNCHANGED published /\ \A d \in Brokers : keys'[d] \subseteq keys[d]
    BY <1>t, <1>12 DEF Evict, KeysT
  <2>2. KeyP'
    BY <1>p, <2>1 DEF KeyP
  <2> QED
    BY <1>b, <1>c, <1>12, <2>2 DEF SuccessInv, Evict
<1>13. ASSUME Leave \/ Close \/ UNCHANGED vars
       PROVE  SuccessInv'
  BY <1>a, <1>b, <1>c, <1>13 DEF SuccessInv, Leave, Close, vars
<1> QED
  BY <1>1, <1>2, <1>3, <1>4, <1>5, <1>6, <1>7, <1>8, <1>9, <1>10, <1>11, <1>12, <1>13,
     <1>14 DEF Next, CallStep, ReadStep, ServeStep

\* ConnectionManager.Publish returns nil only for an event that some broker
\* has put into the queues of its subscribers, however many attempts it took
\* and whichever of them the acknowledgement belongs to.
THEOREM SuccessWasPublishedHolds == Spec => []SuccessWasPublished
<1>1. TypeInv /\ SuccessInv => SuccessWasPublished
  <2> SUFFICES ASSUME TypeInv, SuccessInv, NEW p \in Calls,
                      call[p].at = "returned", call[p].result # "error"
               PROVE  p \in Pub
    BY DEF SuccessWasPublished, Pub
  <2>1. call[p].result \in Results
    BY DEF TypeInv, TypeOK
  <2> QED
    BY <2>1 DEF SuccessInv, CallP, Results, Good
<1>2. TypeInv /\ SuccessInv /\ [Next]_vars => TypeInv' /\ SuccessInv'
  BY TypeStep, SuccessStep
<1> QED
  BY <1>1, <1>2, TypeInit, SuccessInit, PTL DEF Spec

-----------------------------------------------------------------------------
(* An event is published once *)

\* What a broker published it remembers, unless it forgot it.
KnownP == \A b \in Brokers, p \in Calls :
              published[b][p] > 0 => p \in keys[b] \cup evicted[b]

\* An event that is handled was not published, but for the two exceptions; two
\* connections of a broker that handle the same event are one of them.
Excused(b, p) == p \in evicted[b] \cup overlapped[b]
HandledP == \A c \in Conns : routed[c] /\ published[peer[c]][serving[c]] > 0 =>
                Excused(peer[c], serving[c])
TwiceP == \A c, d \in Conns : /\ c # d /\ peer[c] = peer[d] /\ serving[c] = serving[d]
                              /\ routed[c] /\ routed[d]
                              => serving[c] \in overlapped[peer[c]]

\* A connection that has not been dialled carries nothing.
UnusedP == \A c \in Conns : c > count => ~link[c] /\ toServer[c] = <<>>
                                         /\ serving[c] = NoCall /\ ~routed[c]

OnceInv == KnownP /\ HandledP /\ TwiceP /\ UnusedP /\ PublishedOnce

LEMMA OnceInit == Init => OnceInv
<1> SUFFICES ASSUME Init PROVE OnceInv
  OBVIOUS
<1>1. /\ \A b \in Brokers, p \in Calls : published[b][p] = 0
      /\ \A c \in Conns : ~link[c] /\ toServer[c] = <<>> /\ serving[c] = NoCall /\ ~routed[c]
  BY DEF Init
<1>2. KnownP /\ PublishedOnce
  BY <1>1 DEF KnownP, PublishedOnce
<1>3. HandledP /\ TwiceP /\ UnusedP
  BY <1>1 DEF HandledP, TwiceP, UnusedP
<1> QED
  BY <1>2, <1>3 DEF OnceInv

\* Most steps route nothing, publish nothing and forget nothing.
LEMMA OnceSame ==
    ASSUME TypeInv, OnceInv,
           UNCHANGED <<peer, published, keys, evicted, overlapped>>,
           \A c \in Conns : routed'[c] => routed[c] /\ serving'[c] = serving[c],
           UnusedP'
    PROVE  OnceInv'
<1>1. KnownP' /\ PublishedOnce'
  BY DEF OnceInv, KnownP, PublishedOnce
<1>2. HandledP' /\ TwiceP'
  BY DEF OnceInv, HandledP, TwiceP, Excused
<1> QED
  BY <1>1, <1>2 DEF OnceInv

LEMMA OnceStep == TypeInv /\ OnceInv /\ [Next]_vars => OnceInv'
<1> SUFFICES ASSUME TypeInv, OnceInv, [Next]_vars PROVE OnceInv'
  OBVIOUS
<1>t. CallT /\ ConnT /\ SendT /\ ServT /\ DialT /\ KeysT /\ HistT
  BY TypeParts DEF Parts
<1>p. KnownP /\ HandledP /\ TwiceP /\ UnusedP /\ PublishedOnce
  BY DEF OnceInv
<1>n. NoCall \notin Calls
  BY PublishAssumption
<1> USE DEF clientVars, wireVars, dialVars, tableVars, serveVars, serverVars
<1>1. ASSUME NEW p \in Calls, Begin(p) \/ Try(p) \/ Register(p) \/ WaitAck(p)
                               \/ WaitEnds(p) \/ Unregister(p) \/ Pause(p)
      PROVE  OnceInv'
  <2>1. UNCHANGED <<link, toServer, serving, routed, count, peer, published, keys,
                    evicted, overlapped>>
    BY <1>1 DEF Begin, Try, Register, WaitAck, WaitEnds, Unregister, Pause
  <2> QED
    BY <1>p, <2>1, OnceSame DEF UnusedP
<1>2. ASSUME NEW p \in Calls, Send(p)
      PROVE  OnceInv'
  <2>1. UNCHANGED <<link, serving, routed, count, peer, published, keys, evicted, overlapped>>
    BY <1>2 DEF Send
  <2>2. \A d \in Conns : ~link[d] => toServer'[d] = toServer[d]
    BY <1>t, <1>2 DEF Send, SendT, CallT
  <2>3. UnusedP'
    BY <1>p, <2>1, <2>2 DEF UnusedP
  <2> QED
    BY <2>1, <2>3, OnceSame
<1>3. ASSUME NEW c \in Conns, ReadAck(c) \/ PutAck(c)
      PROVE  OnceInv'
  <2>1. UNCHANGED <<link, toServer, serving, routed, count, peer, published, keys,
                    evicted, overlapped>>
    BY <1>3 DEF ReadAck, PutAck
  <2> QED
    BY <1>p, <2>1, OnceSame DEF UnusedP
<1>4. ASSUME NEW c \in Conns, ReadEnds(c) \/ Cut(c)
      PROVE  OnceInv'
  <2>1. /\ link' = [link EXCEPT ![c] = FALSE]
        /\ UNCHANGED <<toServer, serving, routed, count, peer, published, keys, evicted,
                       overlapped>>
    BY <1>4 DEF ReadEnds, Cut
  <2>2. UnusedP'
    BY <1>t, <1>p, <2>1 DEF UnusedP, ConnT
  <2> QED
    BY <2>1, <2>2, OnceSame
<1>5. ASSUME NEW c \in Conns, ServeReads(c) \/ ServeRefuses(c)
      PROVE  OnceInv'
  <2>1. /\ toServer[c] # <<>> /\ serving[c] = NoCall
        /\ toServer' = [toServer EXCEPT ![c] = Tail(@)]
        /\ serving' = [serving EXCEPT ![c] = Head(toServer[c])]
        /\ UNCHANGED <<link, routed, count, peer, published, keys, evicted, overlapped>>
    BY <1>5 DEF ServeReads, ServeRefuses, Serves
  <2>2. ~routed[c] /\ ~(c > count)
    BY <1>t, <1>p, <1>n, <2>1 DEF ServT, UnusedP
  <2>3. \A d \in Conns : routed'[d] => routed[d] /\ serving'[d] = serving[d]
    BY <1>t, <2>1, <2>2 DEF ServT
  <2>4. UnusedP'
    BY <1>t, <1>p, <2>1, <2>2 DEF UnusedP, ServT, SendT
  <2> QED
    BY <2>1, <2>3, <2>4, OnceSame
<1>6. ASSUME NEW c \in Conns, Route(c)
      PROVE  OnceInv'
  <2> DEFINE p == serving[c]
             b == peer[c]
             Twin == \E d \in Conns : peer[d] = b /\ serving[d] = p /\ routed[d]
  <2>1. /\ p # NoCall /\ ~routed[c] /\ p \notin keys[b]
        /\ routed' = [routed EXCEPT ![c] = TRUE]
        /\ UNCHANGED <<link, toServer, serving, count, peer, published, keys, evicted>>
    BY <1>6 DEF Route
  <2>2. p \in Calls /\ b \in Brokers
    BY <1>t, <2>1 DEF ServT, DialT
  <2>3. /\ \A a \in Brokers : overlapped[a] \subseteq overlapped'[a]
        /\ Twin => p \in overlapped'[b]
    BY <1>t, <1>6, <2>2 DEF Route, HistT
  <2>4. \A d \in Conns : d # c => routed'[d] = routed[d]
    BY <1>t, <2>1 DEF ServT
  <2>5. KnownP' /\ PublishedOnce'
    BY <1>p, <2>1, <2>3 DEF KnownP, PublishedOnce
  <2>6. HandledP'
    <3> SUFFICES ASSUME NEW d \in Conns, routed'[d], published[peer[d]][serving[d]] > 0
                 PROVE  serving[d] \in evicted[peer[d]] \cup overlapped'[peer[d]]
      BY <2>1 DEF HandledP, Excused
    <3>1. CASE d = c
      BY <1>p, <2>1, <2>2, <3>1 DEF KnownP
    <3>2. CASE d # c
      <4>1. Excused(peer[d], serving[d]) /\ peer[d] \in Brokers
        BY <1>t, <1>p, <2>4, <3>2 DEF HandledP, DialT
      <4> QED
        BY <2>3, <4>1 DEF Excused
    <3> QED
      BY <3>1, <3>2
  <2>7. TwiceP'
    <3> SUFFICES ASSUME NEW d \in Conns, NEW f \in Conns, d # f, peer[d] = peer[f],
                        serving[d] = serving[f], routed'[d], routed'[f]
                 PROVE  serving[d] \in overlapped'[peer[d]]
      BY <2>1 DEF TwiceP
    <3>1. CASE d # c /\ f # c
      <4>1. serving[d] \in overlapped[peer[d]] /\ peer[d] \in Brokers
        BY <1>t, <1>p, <2>4, <3>1 DEF TwiceP, DialT
      <4> QED
        BY <2>3, <4>1
    <3>2. CASE d = c \/ f = c
      BY <2>3, <2>4, <3>2
    <3> QED
      BY <3>1, <3>2
  <2>8. UnusedP'
    BY <1>p, <2>1, <2>4 DEF UnusedP
  <2> QED
    BY <2>5, <2>6, <2>7, <2>8 DEF OnceInv
<1>7. ASSUME NEW c \in Conns, Refuse(c)
      PROVE  OnceInv'
  <2>1. UNCHANGED <<link, toServer, serving, routed, count, peer, published, keys, evicted,
                    overlapped>>
    BY <1>7 DEF Refuse
  <2> QED
    BY <1>p, <2>1, OnceSame DEF UnusedP
<1>8. ASSUME NEW c \in Conns, PublishEnds(c)
      PROVE  OnceInv'
  <2> DEFINE p == serving[c]
             b == peer[c]
  <2>1. /\ routed[c]
        /\ published' = [published EXCEPT ![b][p] = @ + 1]
        /\ routed' = [routed EXCEPT ![c] = FALSE]
        /\ UNCHANGED <<link, toServer, serving, count, peer, overlapped>>
    BY <1>8 DEF PublishEnds
  <2>2. p \in Calls /\ b \in Brokers
    BY <1>t, <2>1 DEF ServT, DialT
  <2>3. PICK gone : /\ keys' = [keys EXCEPT ![b] = (@ \ gone) \cup {p}]
                    /\ evicted' = [evicted EXCEPT ![b] = @ \cup (gone \ {p})]
    BY <1>8 DEF PublishEnds, Remember
  <2>4. /\ keys'[b] = (keys[b] \ gone) \cup {p}
        /\ evicted'[b] = evicted[b] \cup (gone \ {p})
        /\ \A a \in Brokers : a # b => keys'[a] = keys[a] /\ evicted'[a] = evicted[a]
    BY <1>t, <2>2, <2>3 DEF KeysT, HistT
  <2>5. ASSUME NEW a \in Brokers, NEW q \in Calls
        PROVE  /\ published[a][q] \in Nat
               /\ published'[a][q] = IF a = b /\ q = p THEN published[a][q] + 1
                                     ELSE published[a][q]
    BY <1>t, <2>1, <2>2 DEF HistT
  <2>6. \A a \in Brokers : evicted[a] \subseteq evicted'[a]
    BY <2>4
  <2>7. KnownP'
    <3> SUFFICES ASSUME NEW a \in Brokers, NEW q \in Calls, published'[a][q] > 0
                 PROVE  q \in keys'[a] \cup evicted'[a]
      BY DEF KnownP
    <3>1. CASE a = b /\ q = p
      BY <2>4, <3>1
    <3>2. CASE ~(a = b /\ q = p)
      <4>1. q \in keys[a] \cup evicted[a]
        BY <1>p, <2>5, <3>2 DEF KnownP
      <4> QED
        BY <2>4, <4>1
    <3> QED
      BY <3>1, <3>2
  <2>8. PublishedOnce'
    <3> SUFFICES ASSUME NEW a \in Brokers, NEW q \in Calls, published'[a][q] > 1
                 PROVE  q \in evicted'[a] \cup overlapped[a]
      BY <2>1 DEF PublishedOnce
    <3>1. CASE a = b /\ q = p
      <4>1. published[b][p] > 0
        BY <2>2, <2>5, <3>1
      <4>2. Excused(b, p)
        BY <1>p, <2>1, <4>1 DEF HandledP
      <4> QED
        BY <2>2, <2>6, <3>1, <4>2 DEF Excused
    <3>2. CASE ~(a = b /\ q = p)
      <4>1. q \in evicted[a] \cup overlapped[a]
        BY <1>p, <2>5, <3>2 DEF PublishedOnce
      <4> QED
        BY <2>6, <4>1
    <3> QED
      BY <3>1, <3>2
  <2>9. \A d \in Conns : routed'[d] => d # c /\ routed[d] /\ serving'[d] = serving[d]
    BY <1>t, <2>1 DEF ServT
  <2>10. HandledP'
    <3> SUFFICES ASSUME NEW d \in Conns, routed'[d], published'[peer[d]][serving[d]] > 0
                 PROVE  serving[d] \in evicted'[peer[d]] \cup overlapped[peer[d]]
      BY <2>1, <2>9 DEF HandledP, Excused
    <3>1. d # c /\ routed[d] /\ peer[d] \in Brokers /\ serving[d] \in Calls
      BY <1>t, <2>9 DEF ServT, DialT
    <3>2. CASE peer[d] = b /\ serving[d] = p
      BY <1>p, <2>1, <3>1, <3>2 DEF TwiceP
    <3>3. CASE ~(peer[d] = b /\ serving[d] = p)
      <4>1. Excused(peer[d], serving[d])
        BY <1>p, <2>5, <3>1, <3>3 DEF HandledP
      <4> QED
        BY <2>6, <3>1, <4>1 DEF Excused
    <3> QED
      BY <3>2, <3>3
  <2>11. TwiceP'
    BY <1>p, <2>1, <2>9 DEF TwiceP
  <2>12. UnusedP'
    BY <1>t, <1>p, <2>1, <2>9 DEF UnusedP, ServT
  <2> QED
    BY <2>7, <2>8, <2>10, <2>11, <2>12 DEF OnceInv
<1>9. ASSUME NEW c \in Conns, PublishFails(c) \/ Answer(c)
      PROVE  OnceInv'
  <2>1. /\ serving' \in {serving, [serving EXCEPT ![c] = NoCall]}
        /\ routed' \in {routed, [routed EXCEPT ![c] = FALSE]}
        /\ UNCHANGED <<link, toServer, count, peer, published, keys, evicted, overlapped>>
    BY <1>9 DEF PublishFails, Answer
  <2>2. ~routed'[c]
    BY <1>t, <1>9 DEF PublishFails, Answer, ServT
  <2>3. \A d \in Conns : routed'[d] => routed[d] /\ serving'[d] = serving[d]
    BY <1>t, <2>1, <2>2 DEF ServT
  <2>4. UnusedP'
    BY <1>t, <1>p, <2>1 DEF UnusedP, ServT
  <2> QED
    BY <2>1, <2>3, <2>4, OnceSame
<1>10. ASSUME NEW c \in Conns, ServeEnds(c)
       PROVE  OnceInv'
  <2>1. /\ toServer' = [toServer EXCEPT ![c] = <<>>]
        /\ UNCHANGED <<link, serving, routed, count, peer, published, keys, evicted,
                       overlapped>>
    BY <1>10 DEF ServeEnds
  <2>2. UnusedP'
    BY <1>t, <1>p, <2>1 DEF UnusedP, SendT
  <2> QED
    BY <2>1, <2>2, OnceSame
<1>11. ASSUME NEW b \in Brokers, Reconnect(b)
       PROVE  OnceInv'
  <2>1. /\ count < MaxConns /\ count' = count + 1
        /\ peer' = [peer EXCEPT ![count + 1] = b]
        /\ link' = [link EXCEPT ![count + 1] = TRUE]
        /\ UNCHANGED <<toServer, serving, routed, published, keys, evicted, overlapped>>
    BY <1>11 DEF Reconnect
  <2>2. count \in Nat /\ MaxConns \in Nat /\ count + 1 \in Conns
    BY <1>t, <2>1, PublishAssumption DEF DialT, Conns
  <2>3. ~routed[count + 1]
    BY <1>p, <2>2 DEF UnusedP
  <2>4. \A d \in Conns : routed[d] => peer'[d] = peer[d]
    BY <1>t, <2>1, <2>3 DEF DialT
  <2>5. KnownP' /\ PublishedOnce'
    BY <1>p, <2>1 DEF KnownP, PublishedOnce
  <2>6. HandledP' /\ TwiceP'
    BY <1>p, <2>1, <2>4 DEF HandledP, TwiceP, Excused
  <2>7. UnusedP'
    <3> SUFFICES ASSUME NEW d \in Conns, d > count + 1
                 PROVE  ~link'[d] /\ toServer[d] = <<>> /\ serving[d] = NoCall /\ ~routed[d]
      BY <2>1 DEF UnusedP
    <3>1. d > count /\ d # count + 1
      BY <2>2 DEF Conns
    <3>2. link'[d] = link[d]
      BY <1>t, <2>1, <3>1 DEF ConnT
    <3> QED
      BY <1>p, <3>1, <3>2 DEF UnusedP
  <2> QED
    BY <2>5, <2>6, <2>7 DEF OnceInv
<1>12. ASSUME NEW b \in Brokers, Shutdown(b) \/ Crash(b)
       PROVE  OnceInv'
  <2>1. UNCHANGED <<count, peer, published, keys, evicted, overlapped>>
    BY <1>12 DEF Shutdown, Crash
  <2>2. \A d \in Conns : /\ routed'[d] => routed[d] /\ serving'[d] = serving[d]
                         /\ link'[d] => link[d]
                         /\ serving'[d] \in {NoCall, serving[d]}
                         /\ toServer'[d] \in {<<>>, toServer[d]}
    BY <1>12 DEF Shutdown, Crash
  <2>3. UnusedP'
    BY <1>p, <2>1, <2>2 DEF UnusedP
  <2> QED
    BY <2>1, <2>2, <2>3, OnceSame
<1>13. ASSUME NEW b \in Brokers, Evict(b)
       PROVE  OnceInv'
  <2>1. UNCHANGED <<link, toServer, serving, routed, count, peer, published, overlapped>>
    BY <1>13 DEF Evict
  <2>2. PICK k \in keys[b] : /\ keys' = [keys EXCEPT ![b] = @ \ {k}]
                             /\ evicted' = [evicted EXCEPT ![b] = @ \cup {k}]
    BY <1>13 DEF Evict
  <2>3. \A a \in Brokers : /\ evicted[a] \subseteq evicted'[a]
                           /\ keys[a] \cup evicted[a] \subseteq keys'[a] \cup evicted'[a]
    BY <1>t, <2>2 DEF KeysT, HistT
  <2>4. KnownP' /\ PublishedOnce'
    BY <1>p, <2>1, <2>3 DEF KnownP, PublishedOnce
  <2>5. \A c \in Conns : peer[c] \in Brokers
    BY <1>t DEF DialT
  <2>6. HandledP' /\ TwiceP' /\ UnusedP'
    BY <1>p, <2>1, <2>3, <2>5 DEF HandledP, TwiceP, UnusedP, Excused
  <2> QED
    BY <2>4, <2>6 DEF OnceInv
<1>14. ASSUME Leave \/ Close \/ UNCHANGED vars
       PROVE  OnceInv'
  <2>1. /\ UNCHANGED <<toServer, serving, routed, count, peer, published, keys, evicted,
                       overlapped>>
        /\ \A d \in Conns : link'[d] => link[d]
    BY <1>14 DEF Leave, Close, vars
  <2>2. UnusedP'
    BY <1>p, <2>1 DEF UnusedP
  <2> QED
    BY <2>1, <2>2, OnceSame
<1> QED
  BY <1>1, <1>2, <1>3, <1>4, <1>5, <1>6, <1>7, <1>8, <1>9, <1>10, <1>11, <1>12, <1>13,
     <1>14 DEF Next, CallStep, ReadStep, ServeStep

\* However often ConnectionManager.Publish repeats an attempt, on however many
\* connections, a broker puts the event into the queues once, unless its table
\* gave the key up or two connections brought the event at the same time.
THEOREM PublishedOnceHolds == Spec => []PublishedOnce
<1>1. OnceInv => PublishedOnce
  BY DEF OnceInv
<1>2. TypeInv /\ OnceInv /\ [Next]_vars => TypeInv' /\ OnceInv'
  BY TypeStep, OnceStep
<1> QED
  BY <1>1, <1>2, TypeInit, OnceInit, PTL DEF Spec
=============================================================================
