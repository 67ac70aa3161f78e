----------------------------- MODULE WireProofs -----------------------------
(***************************************************************************)
(* Proofs about Codec and Wire, for any senders and messages, any radix    *)
(* and any payload limit: decode undoes encode, and the frames of several  *)
(* senders arrive whole, in the order in which they were begun.            *)
(***************************************************************************)
EXTENDS Wire, Loops, SequenceTheorems, FiniteSetTheorems

\* Most leaves are first-order steps, the others need arithmetic or sequences.
USE ZenonT(4), SMTT(60), ZenonT(60)

-----------------------------------------------------------------------------
(* Numbers in bytes *)

\* A byte has at least two values.
LEMMA RadixType == Radix \in Nat /\ Radix > 1
BY CodecAssumption

\* A number is its quotient and its remainder.
LEMMA Division ==
    ASSUME NEW n \in Nat
    PROVE  /\ n \div Radix \in Nat /\ n % Radix \in Nat
           /\ (n \div Radix) * Radix + (n % Radix) = n
BY RadixType

\* Each division by Radix takes a factor off a bound.
LEMMA Shift ==
    ASSUME NEW n \in Nat, NEW b \in Nat, n < Radix * b
    PROVE  n \div Radix < b
BY RadixType

\* PutUint's bytes are the remainders of repeated division.
LEMMA PutLoop ==
    ASSUME NEW size \in Nat, NEW n \in Nat
    PROVE  \E g \in [0 .. size -> Nat] :
               /\ g[0] = n /\ \A k \in 1 .. size : g[k] = g[k - 1] \div Radix
               /\ PutUint(size, n) = [i \in 1 .. size |-> g[size - i] % Radix]
<1> DEFINE Loop(g) == g = [k \in 0 .. size |-> IF k = 0 THEN n ELSE g[k - 1] \div Radix]
           step == [p \in (1 .. size) \X Nat |-> p[2] \div Radix]
           shifted == CHOOSE r : Loop(r)
<1>1. step \in Loops(size, Nat)
  BY Division DEF Loops
<1>2. \A k \in 1 .. size, v \in Nat : step[<<k, v>>] = v \div Radix
  OBVIOUS
<1> HIDE DEF step
<1>3. PICK g : Iterates(g, size, Nat, n, step)
  <2> HIDE DEF Loop, shifted
  <2> QED
    BY <1>1, Iteration
<1>4. \A k \in 1 .. size : k - 1 \in 0 .. size /\ k \in 0 .. size /\ k # 0
  OBVIOUS
<1>5. \A k \in 0 .. size : k # 0 => k \in 1 .. size
  OBVIOUS
<1>6. Loop(g)
  BY <1>2, <1>3, <1>4, <1>5 DEF Iterates
<1>7. Loop(shifted)
  <2> HIDE DEF Loop
  <2> QED
    BY <1>6
<1>8. PutUint(size, n) = [i \in 1 .. size |-> shifted[size - i] % Radix]
  BY DEF PutUint
<1> HIDE DEF shifted
<1>9. shifted[0] = n /\ \A k \in 1 .. size : shifted[k] = shifted[k - 1] \div Radix
  <2>1. 0 \in 0 .. size
    OBVIOUS
  <2>2. shifted[0] = n
    BY <1>7, <2>1
  <2> QED
    BY <1>4, <1>7, <2>2
<1>10. \A k \in 0 .. size : shifted[k] \in Nat
  <2>1. shifted[0] \in Nat
    BY <1>9
  <2>2. \A k \in 1 .. size : shifted[k - 1] \in Nat => shifted[k] \in Nat
    BY <1>9, Division
  <2> QED
    BY <2>1, <2>2, Throughout
<1>11. shifted \in [0 .. size -> Nat]
  BY <1>7, <1>10
<1> QED
  BY <1>8, <1>9, <1>11

\* Uint's value, byte by byte.
LEMMA UintLoop ==
    ASSUME NEW bytes \in Seq(Nat)
    PROVE  \E g \in [0 .. Len(bytes) -> Nat] :
               /\ g[0] = 0 /\ \A i \in 1 .. Len(bytes) : g[i] = g[i - 1] * Radix + bytes[i]
               /\ Uint(bytes) = g[Len(bytes)]
<1> DEFINE N == Len(bytes)
           Loop(g) == g = [i \in 0 .. N |-> IF i = 0 THEN 0 ELSE g[i - 1] * Radix + bytes[i]]
           step == [p \in (1 .. N) \X Nat |-> p[2] * Radix + bytes[p[1]]]
           value == CHOOSE r : Loop(r)
<1>1. N \in Nat /\ \A i \in 1 .. N : bytes[i] \in Nat
  OBVIOUS
<1>2. \A i \in 1 .. N, v \in Nat : v * Radix + bytes[i] \in Nat
  BY <1>1, RadixType
<1>3. Uint(bytes) = value[N]
  BY DEF Uint
<1> HIDE DEF N
<1>4. step \in Loops(N, Nat)
  BY <1>2 DEF Loops
<1>5. \A i \in 1 .. N, v \in Nat : step[<<i, v>>] = v * Radix + bytes[i]
  OBVIOUS
<1> HIDE DEF step
<1>6. PICK g : Iterates(g, N, Nat, 0, step)
  <2> HIDE DEF Loop, value
  <2> QED
    BY <1>1, <1>4, Iteration
<1>7. /\ \A i \in 1 .. N : i - 1 \in 0 .. N /\ i \in 0 .. N /\ i # 0
      /\ \A i \in 0 .. N : i # 0 => i \in 1 .. N
      /\ 0 \in 0 .. N
  BY <1>1
<1>8. Loop(g)
  <2>1. ASSUME NEW i \in 1 .. N
        PROVE  g[i] = g[i - 1] * Radix + bytes[i]
    <3>1. g[i - 1] \in Nat
      BY <1>6, <1>7 DEF Iterates
    <3> QED
      BY <1>5, <1>6, <3>1 DEF Iterates
  <2> QED
    BY <1>6, <1>7, <2>1 DEF Iterates
<1>9. Loop(value)
  <2> HIDE DEF Loop
  <2> QED
    BY <1>8
<1> HIDE DEF value
<1>10. value[0] = 0
  BY <1>7, <1>9
<1>11. ASSUME NEW i \in 1 .. N
       PROVE  value[i] = value[i - 1] * Radix + bytes[i]
  <2>1. i \in 0 .. N /\ i # 0
    BY <1>7
  <2> QED
    BY <1>9, <2>1
<1>12. \A k \in 0 .. N : value[k] \in Nat
  <2>1. ASSUME NEW i \in 1 .. N, value[i - 1] \in Nat
        PROVE  value[i] \in Nat
    <3>1. value[i - 1] * Radix + bytes[i] \in Nat
      BY <1>2, <2>1
    <3>2. value[i] = value[i - 1] * Radix + bytes[i]
      BY <1>11
    <3> QED
      BY <3>1, <3>2, Zenon
  <2>2. value[0] \in Nat
    BY <1>10
  <2> QED
    BY <1>1, <2>1, <2>2, Throughout
<1>13. value \in [0 .. N -> Nat]
  BY <1>9, <1>12
<1> QED
  BY <1>3, <1>10, <1>11, <1>13 DEF N

\* The lengths that fit: reading a length back gives what was written.
LEMMA UintPut ==
    ASSUME NEW size \in {2, 4}, NEW n \in Nat,
           n < IF size = 2 THEN Radix * Radix ELSE Radix * Radix * Radix * Radix
    PROVE  /\ PutUint(size, n) \in Seq(Nat) /\ Len(PutUint(size, n)) = size
           /\ Uint(PutUint(size, n)) = n
<1> DEFINE bytes == PutUint(size, n)
<1>1. PICK g \in [0 .. size -> Nat] :
         /\ g[0] = n /\ \A k \in 1 .. size : g[k] = g[k - 1] \div Radix
         /\ bytes = [i \in 1 .. size |-> g[size - i] % Radix]
  <2>1. size \in Nat
    OBVIOUS
  <2> QED
    BY <2>1, PutLoop
<1>2. \A i \in 1 .. size : size - i \in 0 .. size /\ g[size - i] \in Nat
  OBVIOUS
<1>3. /\ bytes \in Seq(Nat) /\ Len(bytes) = size
      /\ \A i \in 1 .. size : bytes[i] = g[size - i] % Radix
  <2>1. bytes \in [1 .. size -> Nat]
    BY <1>1, <1>2, Division
  <2>2. bytes \in Seq(Nat) /\ Len(bytes) = size
    <3> HIDE DEF bytes
    <3> QED
      BY <2>1
  <2> QED
    BY <1>1, <2>2
<1>4. g[size] = 0
  <2>1. \A x \in Nat : x < 1 => x = 0
    OBVIOUS
  <2>2. CASE size = 2
    <3>1. n \div Radix < Radix
      BY <2>2, RadixType, Shift
    <3>2. (n \div Radix) \div Radix < 1
      BY <3>1, Division, RadixType, Shift
    <3>3. g[1] = n \div Radix /\ g[2] = g[1] \div Radix /\ g[2] \in Nat
      BY <1>1, <2>2
    <3> QED
      BY <2>1, <2>2, <3>2, <3>3
  <2>3. CASE size = 4
    <3>1. g[1] = n \div Radix /\ g[2] = g[1] \div Radix /\ g[3] = g[2] \div Radix
          /\ g[4] = g[3] \div Radix
          /\ g[1] \in Nat /\ g[2] \in Nat /\ g[3] \in Nat /\ g[4] \in Nat
      BY <1>1, <2>3
    <3>2. n < Radix * (Radix * (Radix * Radix))
      BY <2>3, RadixType
    <3>3. Radix * Radix \in Nat /\ Radix * (Radix * Radix) \in Nat
      BY RadixType
    <3>4. g[1] < Radix * (Radix * Radix)
      BY <3>1, <3>2, <3>3, Shift
    <3>5. g[2] < Radix * Radix
      BY <3>1, <3>3, <3>4, Shift
    <3>6. g[3] < Radix
      BY <3>1, <3>5, RadixType, Shift
    <3>7. Radix * 1 = Radix
      BY RadixType
    <3>8. g[4] < 1
      BY <3>1, <3>6, <3>7, Shift
    <3> QED
      BY <2>1, <2>3, <3>1, <3>8
  <2> QED
    BY <2>2, <2>3
<1> HIDE DEF bytes
<1>5. PICK v \in [0 .. Len(bytes) -> Nat] :
         /\ v[0] = 0 /\ \A i \in 1 .. Len(bytes) : v[i] = v[i - 1] * Radix + bytes[i]
         /\ Uint(bytes) = v[Len(bytes)]
  BY <1>3, UintLoop
<1> DEFINE X == {k \in Nat : k <= size => v[k] = g[size - k]}
<1>6. Nat \subseteq X
  <2>1. 0 \in X
    BY <1>4, <1>5
  <2>2. ASSUME NEW k \in Nat, k \in X, k + 1 <= size
        PROVE  v[k + 1] = g[size - (k + 1)]
    <3> DEFINE j == size - (k + 1)
    <3>1. /\ k + 1 \in 1 .. size /\ (k + 1) - 1 = k /\ size - k \in 1 .. size
          /\ (size - k) - 1 = j /\ j \in 0 .. size /\ k <= size
      BY <2>2
    <3>2. v[k] = g[size - k] /\ g[size - k] = g[j] \div Radix /\ g[j] \in Nat
      BY <1>1, <2>2, <3>1
    <3>3. v[k + 1] = v[k] * Radix + bytes[k + 1] /\ bytes[k + 1] = g[j] % Radix
      BY <1>3, <1>5, <3>1
    <3> HIDE DEF j
    <3>4. (g[j] \div Radix) * Radix + (g[j] % Radix) = g[j]
      BY <3>2, Division
    <3>5. v[k + 1] = (g[j] \div Radix) * Radix + (g[j] % Radix)
      BY <3>2, <3>3, Zenon
    <3> QED
      BY <3>4, <3>5, Zenon DEF j
  <2>3. ASSUME NEW k \in Nat, k \in X
        PROVE  k + 1 \in X
    BY <2>2, <2>3
  <2> HIDE DEF X
  <2> QED
    BY <2>1, <2>3, SetInduction
<1>7. v[size] = g[0]
  BY <1>6
<1> QED
  BY <1>1, <1>3, <1>5, <1>7 DEF bytes

-----------------------------------------------------------------------------
(* Fields *)

\* What a field can be.
Kinds == {"string", "bytes", "byte"}

\* The layouts are made of these kinds, and no two types share a code, none of
\* which is 0.
LEMMA LayoutType ==
    /\ \A t \in Types : Layout[t] \in Seq(Kinds)
    /\ \A t, u \in Types : Code[t] = Code[u] => t = u
    /\ \A t \in Types : Code[t] \in Nat \ {0}
<1>1. Types = {"CONNECT", "SUBSCRIBE", "PUBLISH", "EVENT", "ACK", "UNSUBSCRIBE", "ERROR",
               "SHUTDOWN"}
  BY DEF Types, Layout
<1>2. \A t \in Types : Layout[t] \in Seq(Kinds)
  <2>1. \A t \in Types : \/ Layout[t] = <<"string">>
                         \/ Layout[t] = <<"string", "string", "string", "string", "bytes">>
                         \/ Layout[t] = <<"string", "byte", "string">>
    BY <1>1 DEF Layout
  <2>2. /\ <<"string">> \in Seq(Kinds)
        /\ <<"string", "string", "string", "string", "bytes">> \in Seq(Kinds)
        /\ <<"string", "byte", "string">> \in Seq(Kinds)
    BY DEF Kinds
  <2> QED
    BY <2>1, <2>2
<1>3. \A t, u \in Types : Code[t] = Code[u] => t = u
  BY <1>1 DEF Code
<1>4. \A t \in Types : Code[t] \in Nat \ {0}
  BY <1>1 DEF Code
<1> QED
  BY <1>2, <1>3, <1>4

\* How long the lengths and the values may be.
LEMMA Limits ==
    /\ LengthSize["string"] = 2 /\ LengthSize["bytes"] = 4 /\ LengthSize["byte"] = 0
    /\ MaxLength["string"] = Radix * Radix - 1 /\ MaxLength["bytes"] = MaxPayloadSize
    /\ MaxLength["byte"] = 1
BY DEF LengthSize, MaxLength

\* What the field functions write: a length that reads back, and the value.
LEMMA FieldBytes ==
    ASSUME NEW kind \in Kinds, NEW value \in Seq(Nat), CanWrite(kind, value)
    PROVE  /\ Write(kind, value) \in Seq(Nat)
           /\ Len(Write(kind, value)) = LengthSize[kind] + Len(value)
           /\ SubSeq(Write(kind, value), LengthSize[kind] + 1, LengthSize[kind] + Len(value)) = value
           /\ kind # "byte" => Uint(SubSeq(Write(kind, value), 1, LengthSize[kind])) = Len(value)
<1> DEFINE size == LengthSize[kind]
           head == PutUint(size, Len(value))
           w == head \o value
<1>1. w = Write(kind, value)
  BY DEF Write
<1>2. head \in Seq(Nat) /\ Len(head) = size /\ size \in Nat
      /\ (kind # "byte" => Uint(head) = Len(value))
  <2>1. CASE kind = "byte"
    <3>1. size = 0
      BY <2>1, Limits
    <3>2. Len(value) \in Nat /\ 0 \in Nat
      OBVIOUS
    <3>3. PICK g \in [0 .. 0 -> Nat] :
             /\ g[0] = Len(value) /\ \A k \in 1 .. 0 : g[k] = g[k - 1] \div Radix
             /\ PutUint(0, Len(value)) = [i \in 1 .. 0 |-> g[0 - i] % Radix]
      BY <3>2, PutLoop
    <3>4. head = <<>>
      BY <3>1, <3>3
    <3> QED
      BY <2>1, <3>1, <3>4
  <2>2. CASE kind = "string"
    <3>1. size = 2 /\ Len(value) \in Nat /\ Len(value) < Radix * Radix
      BY <2>2, Limits, RadixType DEF CanWrite
    <3> QED
      BY <3>1, UintPut
  <2>3. CASE kind = "bytes"
    <3>1. size = 4 /\ Len(value) \in Nat /\ Len(value) < Radix * Radix * Radix * Radix
      BY <2>3, Limits, CodecAssumption DEF CanWrite
    <3> QED
      BY <3>1, UintPut
  <2> QED
    BY <2>1, <2>2, <2>3 DEF Kinds
<1> HIDE DEF head, size
<1>3. w \in Seq(Nat) /\ Len(w) = size + Len(value)
  BY <1>2
<1>4. SubSeq(w, size + 1, size + Len(value)) = value /\ SubSeq(w, 1, size) = head
  BY <1>2, SMT
<1> QED
  BY <1>1, <1>2, <1>3, <1>4 DEF size

\* Behind position e, q has the bytes of w, or as many of them as it has room for.
Agrees(q, e, w) == \A j \in 1 .. Len(w) : e + j <= Len(q) => q[e + j] = w[j]

\* Two sequences with the same elements over a range.
LEMMA SamePart ==
    ASSUME NEW q \in Seq(Nat), NEW w \in Seq(Nat), NEW e \in Nat,
           NEW a \in Nat, NEW b \in Nat, 1 <= a, b <= Len(w), e + b <= Len(q),
           \A j \in a .. b : q[e + j] = w[j]
    PROVE  SubSeq(q, e + a, e + b) = SubSeq(w, a, b)
<1> DEFINE x == SubSeq(q, e + a, e + b)
           y == SubSeq(w, a, b)
           n == IF a <= b THEN b - a + 1 ELSE 0
<1>1. /\ x \in Seq(Nat) /\ y \in Seq(Nat) /\ Len(x) = n /\ Len(y) = n /\ n \in Nat
  OBVIOUS
<1>2. ASSUME NEW i \in 1 .. n
      PROVE  x[i] = y[i]
  <2>0. a <= b /\ i \in 1 .. b - a + 1
    OBVIOUS
  <2>1. x[i] = q[e + a + i - 1] /\ y[i] = w[a + i - 1]
    BY <2>0
  <2>2. a + i - 1 \in a .. b /\ e + (a + i - 1) = e + a + i - 1
    OBVIOUS
  <2> QED
    BY <2>1, <2>2
<1> HIDE DEF x, y, n
<1>3. x = y
  BY <1>1, <1>2, SeqEqual
<1> QED
  BY <1>3 DEF x, y

\* The field functions stay in the payload or fail, and then go on failing.
LEMMA ReadType ==
    ASSUME NEW kind \in Kinds, NEW q \in Seq(Nat)
    PROVE  /\ \A e \in 0 .. Len(q) + 1 : Read(kind, q)[e] \in 0 .. Len(q) + 1
           /\ Read(kind, q)[Len(q) + 1] = Len(q) + 1
<1>1. LengthSize[kind] \in Nat /\ Len(q) \in Nat
  BY Limits DEF Kinds
<1>2. MaxLength[kind] \in Nat
  BY Limits, RadixType, CodecAssumption DEF Kinds
<1>3. ASSUME NEW e \in 0 .. Len(q) + 1, e + LengthSize[kind] <= Len(q)
      PROVE  (IF kind = "byte" THEN 1 ELSE Uint(SubSeq(q, e + 1, e + LengthSize[kind]))) \in Nat
  <2>0. \A m \in 0 .. Len(q), n \in 0 .. Len(q) : SubSeq(q, m + 1, n) \in Seq(Nat)
    OBVIOUS
  <2>1. SubSeq(q, e + 1, e + LengthSize[kind]) \in Seq(Nat)
    <3>1. e \in 0 .. Len(q) /\ e + LengthSize[kind] \in 0 .. Len(q)
      BY <1>1, <1>3
    <3> QED
      BY <2>0, <3>1
  <2>2. ASSUME NEW b \in Seq(Nat)
        PROVE  Uint(b) \in Nat
    <3>1. PICK g \in [0 .. Len(b) -> Nat] :
             /\ g[0] = 0 /\ \A i \in 1 .. Len(b) : g[i] = g[i - 1] * Radix + b[i]
             /\ Uint(b) = g[Len(b)]
      BY UintLoop
    <3>2. Len(b) \in 0 .. Len(b)
      OBVIOUS
    <3> QED
      BY <3>1, <3>2
  <2> QED
    BY <2>1, <2>2
<1> QED
  BY <1>1, <1>3 DEF Read

\* Where a field was written, the field functions find its end, unless the payload
\* ends before.
LEMMA ReadField ==
    ASSUME NEW kind \in Kinds, NEW value \in Seq(Nat), CanWrite(kind, value),
           kind = "byte" => Len(value) = 1,
           NEW q \in Seq(Nat), NEW e \in 0 .. Len(q), Agrees(q, e, Write(kind, value))
    PROVE  Read(kind, q)[e] = IF e + Len(Write(kind, value)) <= Len(q)
                              THEN e + Len(Write(kind, value)) ELSE Len(q) + 1
<1> DEFINE ls == LengthSize[kind]
           w == Write(kind, value)
           size == IF kind = "byte" THEN 1 ELSE Uint(SubSeq(q, e + 1, e + ls))
           v == Len(value)
<1>1. ls \in Nat /\ v \in Nat /\ Len(q) \in Nat /\ Len(w) = ls + v /\ w \in Seq(Nat)
  <2>1. ls \in Nat /\ v \in Nat /\ Len(q) \in Nat
    BY Limits DEF Kinds
  <2>2. Len(w) = ls + v /\ w \in Seq(Nat)
    BY FieldBytes
  <2> QED
    BY <2>1, <2>2
<1>2. v <= MaxLength[kind]
  BY DEF CanWrite
<1>3. ASSUME e + ls <= Len(q)
      PROVE  size = v
  <2>1. CASE kind = "byte"
    BY <2>1
  <2>2. CASE kind # "byte"
    <3> HIDE DEF ls, w
    <3>1. \A j \in 1 .. ls : q[e + j] = w[j]
      BY <1>1, <1>3 DEF Agrees, w
    <3>2. SubSeq(q, e + 1, e + ls) = SubSeq(w, 1, ls)
      BY <1>1, <1>3, <3>1, SamePart
    <3>3. Uint(SubSeq(w, 1, ls)) = v
      BY <2>2, FieldBytes DEF w, ls
    <3> QED
      BY <2>2, <3>2, <3>3
  <2> QED
    BY <2>1, <2>2
<1>4. Read(kind, q)[e] = IF e + ls <= Len(q) /\ size <= MaxLength[kind] /\ e + ls + size <= Len(q)
                         THEN e + ls + size ELSE Len(q) + 1
  BY <1>1 DEF Read
<1> HIDE DEF size, ls, v, w
<1>5. CASE e + ls <= Len(q)
  <2>1. size = v
    BY <1>3, <1>5
  <2>2. e + ls + v = e + Len(w)
    BY <1>1
  <2> QED
    BY <1>2, <1>4, <1>5, <2>1, <2>2 DEF w
<1>6. CASE ~(e + ls <= Len(q))
  <2>1. ~(e + Len(w) <= Len(q))
    BY <1>1, <1>6
  <2> QED
    BY <1>4, <1>6, <2>1 DEF w
<1> QED
  BY <1>5, <1>6

-----------------------------------------------------------------------------
(* encode *)

\* The bytes of a field of a message.
FieldOf(m, i) == Write(Layout[m.type][i], m.fields[i])

\* encode's buffer, field by field.
Writing(b, m) ==
    /\ b \in [0 .. Len(m.fields) -> Seq(Nat)] /\ b[0] = <<>>
    /\ \A i \in 1 .. Len(m.fields) : b[i] = b[i - 1] \o FieldOf(m, i)
    /\ encode(m) = b[Len(m.fields)]

\* A message that is of the form the Go types give it and that can be encoded.
Sendable(m) == m \in Messages /\ WellFormed(m) /\ CanEncode(m)

\* The fields of a message that can be encoded.
LEMMA FieldsOf ==
    ASSUME NEW m, Sendable(m)
    PROVE  /\ Len(m.fields) \in Nat /\ Len(m.fields) = Len(Layout[m.type]) /\ m.type \in Types
           /\ \A i \in 1 .. Len(m.fields) :
                 /\ m.fields[i] \in Seq(Nat) /\ Layout[m.type][i] \in Kinds
                 /\ CanWrite(Layout[m.type][i], m.fields[i])
                 /\ Layout[m.type][i] = "byte" => Len(m.fields[i]) = 1
<1>1. m.type \in Types /\ m.fields \in Seq(Seq(Nat)) /\ Len(m.fields) = Len(Layout[m.type])
  BY DEF Sendable, Messages, WellFormed
<1>2. Layout[m.type] \in Seq(Kinds)
  BY <1>1, LayoutType
<1>3. /\ Len(m.fields) \in Nat
      /\ \A i \in 1 .. Len(m.fields) : m.fields[i] \in Seq(Nat)
  BY <1>1
<1>4. \A i \in 1 .. Len(m.fields) : Layout[m.type][i] \in Kinds
  BY <1>1, <1>2
<1> QED
  BY <1>1, <1>3, <1>4 DEF Sendable, CanEncode, WellFormed

\* encode goes through the fields of the message.
LEMMA EncodeLoop ==
    ASSUME NEW m, Sendable(m)
    PROVE  \E b : Writing(b, m)
<1> DEFINE N == Len(m.fields)
           V == Seq(Nat)
           Loop(g) == g = [i \in 0 .. N |-> IF i = 0 THEN <<>>
                              ELSE g[i - 1] \o Write(Layout[m.type][i], m.fields[i])]
           step == [p \in (1 .. N) \X V |-> p[2] \o FieldOf(m, p[1])]
           buffer == CHOOSE r : Loop(r)
<1>1. encode(m) = buffer[N]
  BY DEF encode
<1>2. N \in Nat /\ \A i \in 1 .. N : FieldOf(m, i) \in Seq(Nat)
  BY FieldsOf, FieldBytes DEF FieldOf
<1>3. \A i \in 1 .. N, v \in V : v \o FieldOf(m, i) \in V
  BY <1>2
<1>4. Loop(buffer)
  <2> HIDE DEF N, V
  <2>1. step \in Loops(N, V)
    BY <1>3 DEF Loops
  <2>2. \A i \in 1 .. N, v \in V : step[<<i, v>>] = v \o FieldOf(m, i)
    OBVIOUS
  <2> HIDE DEF step
  <2>3. PICK g : Iterates(g, N, V, <<>>, step)
    <3>1. <<>> \in V
      BY DEF V
    <3> HIDE DEF Loop, buffer
    <3> QED
      BY <1>2, <2>1, <3>1, Iteration
  <2>4. /\ \A i \in 1 .. N : i - 1 \in 0 .. N
        /\ \A i \in 0 .. N : i # 0 => i \in 1 .. N
    BY <1>2
  <2>5. ASSUME NEW i \in 1 .. N
        PROVE  g[i] = g[i - 1] \o FieldOf(m, i)
    <3>1. g[i - 1] \in V
      BY <2>3, <2>4 DEF Iterates
    <3> QED
      BY <2>2, <2>3, <3>1 DEF Iterates
  <2>6. Loop(g)
    BY <2>3, <2>4, <2>5 DEF Iterates, FieldOf
  <2> HIDE DEF Loop
  <2> QED
    BY <2>6
<1> HIDE DEF buffer
<1>5. buffer[0] = <<>>
  <2>1. 0 \in 0 .. N
    BY <1>2
  <2> HIDE DEF N
  <2> QED
    BY <1>4, <2>1
<1>6. ASSUME NEW i \in 1 .. N
      PROVE  buffer[i] = buffer[i - 1] \o FieldOf(m, i)
  <2>1. i \in 0 .. N /\ i # 0
    BY <1>2
  <2> HIDE DEF N
  <2> QED
    BY <1>4, <2>1 DEF FieldOf
<1>7. \A i \in 0 .. N : buffer[i] \in V
  <2>1. \A i \in 1 .. N : buffer[i - 1] \in V => buffer[i] \in V
    BY <1>3, <1>6
  <2>2. buffer[0] \in V
    BY <1>5
  <2> HIDE DEF N, V
  <2> QED
    BY <1>2, <2>1, <2>2, Throughout
<1>8. buffer \in [0 .. N -> V]
  <2> HIDE DEF N, V
  <2> QED
    BY <1>4, <1>7
<1> QED
  BY <1>1, <1>5, <1>6, <1>8 DEF Writing

-----------------------------------------------------------------------------
(* decode *)

\* Where decode's fields end.
LEMMA EndsLoop ==
    ASSUME NEW t \in Types, NEW q \in Seq(Nat)
    PROVE  /\ Ends(t, q) \in [0 .. Len(Layout[t]) -> 0 .. Len(q) + 1] /\ Ends(t, q)[0] = 0
           /\ \A i \in 1 .. Len(Layout[t]) :
                 Ends(t, q)[i] = Read(Layout[t][i], q)[Ends(t, q)[i - 1]]
<1> DEFINE N == Len(Layout[t])
           V == 0 .. Len(q) + 1
           Loop(g) == g = [i \in 0 .. N |-> IF i = 0 THEN 0 ELSE Read(Layout[t][i], q)[g[i - 1]]]
           step == [p \in (1 .. N) \X V |-> Read(Layout[t][p[1]], q)[p[2]]]
           end == CHOOSE r : Loop(r)
<1>1. Ends(t, q) = end
  BY DEF Ends
<1>2. N \in Nat /\ 0 \in V /\ \A i \in 1 .. N : Layout[t][i] \in Kinds
  <2>1. Layout[t] \in Seq(Kinds)
    BY LayoutType
  <2> QED
    BY <2>1
<1>3. \A i \in 1 .. N, v \in V : Read(Layout[t][i], q)[v] \in V
  BY <1>2, ReadType
<1> HIDE DEF N, V
<1>4. Loop(end)
  <2>1. step \in Loops(N, V)
    BY <1>3 DEF Loops
  <2>2. \A i \in 1 .. N, v \in V : step[<<i, v>>] = Read(Layout[t][i], q)[v]
    OBVIOUS
  <2> HIDE DEF step
  <2>3. PICK g : Iterates(g, N, V, 0, step)
    <3> HIDE DEF Loop, end
    <3> QED
      BY <1>2, <2>1, Iteration
  <2>4. /\ \A i \in 1 .. N : i - 1 \in 0 .. N
        /\ \A i \in 0 .. N : i # 0 => i \in 1 .. N
    BY <1>2
  <2>5. ASSUME NEW i \in 1 .. N
        PROVE  g[i] = Read(Layout[t][i], q)[g[i - 1]]
    <3>1. g[i - 1] \in V
      BY <2>3, <2>4 DEF Iterates
    <3> QED
      BY <2>2, <2>3, <3>1 DEF Iterates
  <2>6. Loop(g)
    BY <2>3, <2>4, <2>5 DEF Iterates
  <2> HIDE DEF Loop
  <2> QED
    BY <2>6
<1> HIDE DEF end
<1>5. end[0] = 0
  <2>1. 0 \in 0 .. N
    BY <1>2
  <2> QED
    BY <1>4, <2>1
<1>6. ASSUME NEW i \in 1 .. N
      PROVE  end[i] = Read(Layout[t][i], q)[end[i - 1]]
  <2>1. i \in 0 .. N /\ i # 0
    BY <1>2
  <2> QED
    BY <1>4, <2>1
<1>7. \A i \in 0 .. N : end[i] \in V
  <2>1. \A i \in 1 .. N : end[i - 1] \in V => end[i] \in V
    BY <1>3, <1>6
  <2> QED
    BY <1>2, <1>5, <2>1, Throughout
<1>8. end \in [0 .. N -> V]
  BY <1>4, <1>7
<1> QED
  BY <1>1, <1>5, <1>6, <1>8 DEF N, V

\* One sequence of bytes begins with another.
Begins(a, b) == Len(a) <= Len(b) /\ \A j \in 1 .. Len(a) : b[j] = a[j]

\* What concatenation returns.
LEMMA BeginsConcat ==
    ASSUME NEW a \in Seq(Nat), NEW b \in Seq(Nat)
    PROVE  /\ a \o b \in Seq(Nat) /\ Len(a \o b) = Len(a) + Len(b) /\ Begins(a, a \o b)
           /\ \A j \in 1 .. Len(b) : (a \o b)[Len(a) + j] = b[j]
BY DEF Begins

\* What begins with a longer beginning begins with a shorter one.
LEMMA BeginsTrans ==
    ASSUME NEW a \in Seq(Nat), NEW b \in Seq(Nat), NEW c \in Seq(Nat), Begins(a, b), Begins(b, c)
    PROVE  Begins(a, c)
<1>1. Len(a) \in Nat /\ Len(b) \in Nat /\ Len(c) \in Nat
  OBVIOUS
<1>2. Len(a) <= Len(b) /\ Len(b) <= Len(c)
  BY DEF Begins
<1>3. Len(a) <= Len(c) /\ \A j \in 1 .. Len(a) : j \in 1 .. Len(b)
  BY <1>1, <1>2
<1> QED
  BY <1>3 DEF Begins

\* What grows at its end only begins with each of its earlier values.
LEMMA Growth ==
    ASSUME NEW N \in Nat, NEW f \in [0 .. N -> Seq(Nat)],
           \A i \in 1 .. N : Begins(f[i - 1], f[i])
    PROVE  \A i \in 0 .. N : Begins(f[i], f[N])
<1> DEFINE X == {d \in Nat : d <= N => Begins(f[N - d], f[N])}
<1>1. 0 \in X
  <2>1. N - 0 = N /\ Len(f[N]) \in Nat
    OBVIOUS
  <2>2. Begins(f[N], f[N])
    BY <2>1 DEF Begins
  <2> QED
    BY <2>1, <2>2
<1>2. ASSUME NEW d \in Nat, d \in X, d + 1 <= N
      PROVE  Begins(f[N - (d + 1)], f[N])
  <2>1. /\ N - d \in 1 .. N /\ (N - d) - 1 = N - (d + 1) /\ d <= N
        /\ N - d \in 0 .. N /\ N - (d + 1) \in 0 .. N /\ N \in 0 .. N
    BY <1>2
  <2>2. Begins(f[N - (d + 1)], f[N - d]) /\ Begins(f[N - d], f[N])
    BY <1>2, <2>1
  <2>3. f[N - (d + 1)] \in Seq(Nat) /\ f[N - d] \in Seq(Nat) /\ f[N] \in Seq(Nat)
    BY <2>1
  <2> QED
    BY <2>2, <2>3, BeginsTrans
<1>3. ASSUME NEW d \in Nat, d \in X
      PROVE  d + 1 \in X
  <2>1. d + 1 <= N => Begins(f[N - (d + 1)], f[N])
    <3> HIDE DEF X
    <3> QED
      BY <1>2, <1>3
  <2> QED
    BY <2>1
<1>4. Nat \subseteq X
  <2> HIDE DEF X
  <2> QED
    BY <1>1, <1>3, SetInduction
<1> SUFFICES ASSUME NEW i \in 0 .. N PROVE Begins(f[i], f[N])
  OBVIOUS
<1>5. N - i \in Nat /\ N - i <= N /\ N - (N - i) = i
  OBVIOUS
<1>6. N - i \in X
  BY <1>4, <1>5
<1>7. Begins(f[N - (N - i)], f[N])
  BY <1>5, <1>6
<1> QED
  BY <1>5, <1>7

\* Where the fields lie in the encoding of a message.
LEMMA Fields ==
    ASSUME NEW m, Sendable(m), NEW b, Writing(b, m)
    PROVE  /\ \A i \in 0 .. Len(m.fields) : b[i] \in Seq(Nat) /\ Begins(b[i], encode(m))
           /\ encode(m) \in Seq(Nat)
           /\ \A i \in 1 .. Len(m.fields) :
                 /\ FieldOf(m, i) \in Seq(Nat)
                 /\ Len(b[i]) = Len(b[i - 1]) + Len(FieldOf(m, i))
                 /\ \A j \in 1 .. Len(FieldOf(m, i)) :
                       encode(m)[Len(b[i - 1]) + j] = FieldOf(m, i)[j]
<1> DEFINE N == Len(m.fields)
<1>1. N \in Nat /\ \A i \in 1 .. N : FieldOf(m, i) \in Seq(Nat)
  BY FieldsOf, FieldBytes DEF FieldOf
<1>2. /\ b \in [0 .. N -> Seq(Nat)] /\ encode(m) = b[N]
      /\ \A i \in 1 .. N : b[i] = b[i - 1] \o FieldOf(m, i)
  BY DEF Writing
<1> HIDE DEF N
<1>3. N \in 0 .. N /\ \A i \in 1 .. N : i \in 0 .. N /\ i - 1 \in 0 .. N
  BY <1>1
<1>4. \A i \in 0 .. N : b[i] \in Seq(Nat)
  BY <1>2
<1>5. ASSUME NEW i \in 1 .. N
      PROVE  /\ Begins(b[i - 1], b[i]) /\ Len(b[i]) = Len(b[i - 1]) + Len(FieldOf(m, i))
             /\ \A j \in 1 .. Len(FieldOf(m, i)) :
                   b[i][Len(b[i - 1]) + j] = FieldOf(m, i)[j]
  <2>1. b[i - 1] \in Seq(Nat) /\ FieldOf(m, i) \in Seq(Nat) /\ b[i] = b[i - 1] \o FieldOf(m, i)
    BY <1>1, <1>2, <1>3, <1>4
  <2> HIDE DEF FieldOf
  <2> QED
    BY <2>1, BeginsConcat
<1>6. \A i \in 0 .. N : Begins(b[i], encode(m))
  BY <1>1, <1>2, <1>5, Growth
<1>7. ASSUME NEW i \in 1 .. N, NEW j \in 1 .. Len(FieldOf(m, i))
      PROVE  encode(m)[Len(b[i - 1]) + j] = FieldOf(m, i)[j]
  <2>1. Len(b[i - 1]) \in Nat /\ Len(FieldOf(m, i)) \in Nat
    BY <1>1, <1>3, <1>4
  <2>2. Len(b[i - 1]) + j \in 1 .. Len(b[i])
    BY <1>5, <2>1
  <2>3. encode(m)[Len(b[i - 1]) + j] = b[i][Len(b[i - 1]) + j]
    BY <1>3, <1>6, <2>2 DEF Begins
  <2> QED
    BY <1>5, <2>3
<1> QED
  BY <1>1, <1>2, <1>3, <1>4, <1>5, <1>6, <1>7 DEF N

\* How far the decoder gets in bytes that agree with the encoding of a message:
\* through every field that is all there, and no further.
LEMMA Reading ==
    ASSUME NEW m, Sendable(m), NEW b, Writing(b, m),
           NEW q \in Seq(Nat), Agrees(q, 0, encode(m))
    PROVE  \A i \in 0 .. Len(m.fields) :
              Ends(m.type, q)[i] = IF Len(b[i]) <= Len(q) THEN Len(b[i]) ELSE Len(q) + 1
<1> DEFINE N == Len(m.fields)
           end == Ends(m.type, q)
           p == encode(m)
           At(i) == IF Len(b[i]) <= Len(q) THEN Len(b[i]) ELSE Len(q) + 1
           X == {i \in Nat : i <= N => end[i] = At(i)}
<1>1. N \in Nat /\ N = Len(Layout[m.type]) /\ m.type \in Types
  BY FieldsOf
<1>2. /\ end \in [0 .. N -> 0 .. Len(q) + 1] /\ end[0] = 0
      /\ \A i \in 1 .. N : end[i] = Read(Layout[m.type][i], q)[end[i - 1]]
  BY <1>1, EndsLoop
<1>3. /\ \A i \in 0 .. N : b[i] \in Seq(Nat) /\ Begins(b[i], p)
      /\ p \in Seq(Nat) /\ b[0] = <<>>
  BY Fields DEF Writing
<1>4. 0 \in X
  BY <1>2, <1>3
<1>5. ASSUME NEW k \in Nat, k + 1 <= N, end[k] = At(k)
      PROVE  end[k + 1] = At(k + 1)
  <2> DEFINE i == k + 1
             kind == Layout[m.type][i]
             value == m.fields[i]
             w == FieldOf(m, i)
  <2>1. i \in 1 .. N /\ i - 1 = k /\ k \in 0 .. N /\ i \in 0 .. N
    BY <1>1, <1>5
  <2>2. /\ value \in Seq(Nat) /\ kind \in Kinds /\ CanWrite(kind, value)
        /\ kind = "byte" => Len(value) = 1
    BY <2>1, FieldsOf
  <2>3. /\ w \in Seq(Nat) /\ Len(b[i]) = Len(b[k]) + Len(w)
        /\ \A j \in 1 .. Len(w) : p[Len(b[k]) + j] = w[j]
    <3> HIDE DEF i
    <3>1. /\ w \in Seq(Nat) /\ Len(b[i]) = Len(b[i - 1]) + Len(w)
          /\ \A j \in 1 .. Len(w) : p[Len(b[i - 1]) + j] = w[j]
      BY <2>1, Fields
    <3> QED
      BY <2>1, <3>1
  <2>4. end[i] = Read(kind, q)[end[k]]
    BY <1>2, <2>1
  <2>w. w = Write(kind, value)
    BY DEF FieldOf
  <2> HIDE DEF N, end, p, i, kind, value, w
  <2>5. /\ Len(b[k]) \in Nat /\ Len(w) \in Nat /\ Len(q) \in Nat /\ Len(p) \in Nat
        /\ Len(b[i]) <= Len(p)
    <3>1. b[k] \in Seq(Nat) /\ b[i] \in Seq(Nat) /\ Begins(b[i], p) /\ p \in Seq(Nat)
      BY <1>3, <2>1
    <3> QED
      BY <2>3, <3>1 DEF Begins
  <2>6. CASE Len(b[k]) <= Len(q)
    <3>1. end[k] = Len(b[k]) /\ Len(b[k]) \in 0 .. Len(q)
      BY <1>5, <2>5, <2>6
    <3>2. Agrees(q, Len(b[k]), w)
      <4> SUFFICES ASSUME NEW j \in 1 .. Len(w), Len(b[k]) + j <= Len(q)
                   PROVE  q[Len(b[k]) + j] = w[j]
        BY DEF Agrees
      <4>1. Len(b[k]) + j \in 1 .. Len(p) /\ 0 + (Len(b[k]) + j) = Len(b[k]) + j
        BY <2>3, <2>5
      <4>2. q[Len(b[k]) + j] = p[Len(b[k]) + j]
        BY <4>1 DEF Agrees, p
      <4> QED
        BY <2>3, <4>2
    <3>3. Read(kind, q)[Len(b[k])] = IF Len(b[k]) + Len(w) <= Len(q)
                                     THEN Len(b[k]) + Len(w) ELSE Len(q) + 1
      BY <2>2, <2>w, <3>1, <3>2, ReadField
    <3> QED
      BY <2>3, <2>4, <3>1, <3>3 DEF i
  <2>7. CASE ~(Len(b[k]) <= Len(q))
    <3>1. end[k] = Len(q) + 1
      BY <1>5, <2>7
    <3>2. Read(kind, q)[Len(q) + 1] = Len(q) + 1
      BY <2>2, ReadType
    <3>3. ~(Len(b[i]) <= Len(q))
      BY <2>3, <2>5, <2>7
    <3> QED
      BY <2>4, <3>1, <3>2, <3>3 DEF i
  <2> QED
    BY <2>6, <2>7
<1>6. ASSUME NEW k \in Nat, k \in X
      PROVE  k + 1 \in X
  <2>1. k + 1 <= N => k <= N
    BY <1>1
  <2> HIDE DEF At, end, N
  <2> QED
    BY <1>5, <1>6, <2>1
<1>7. Nat \subseteq X
  <2> HIDE DEF X
  <2> QED
    BY <1>4, <1>6, SetInduction
<1>8. \A i \in 0 .. N : i \in Nat /\ i <= N
  BY <1>1
<1> QED
  <2> HIDE DEF At, end, N
  <2>1. \A i \in 0 .. N : end[i] = At(i)
    BY <1>7, <1>8
  <2> QED
    BY <2>1 DEF At, end, N

\* Among the payloads that agree with the encoding of a message, longer or
\* shorter, the decoder accepts the encoding only.
LEMMA OnlyWhole ==
    ASSUME NEW m, Sendable(m), NEW q \in Seq(Nat), Agrees(q, 0, encode(m))
    PROVE  CanDecode(m.type, q) <=> Len(q) = Len(encode(m))
<1>1. PICK b : Writing(b, m)
  BY EncodeLoop
<1>2. Len(m.fields) \in 0 .. Len(m.fields) /\ Len(m.fields) = Len(Layout[m.type])
  BY FieldsOf
<1>3. encode(m) = b[Len(m.fields)]
  BY <1>1 DEF Writing
<1>4. Ends(m.type, q)[Len(Layout[m.type])]
        = IF Len(encode(m)) <= Len(q) THEN Len(encode(m)) ELSE Len(q) + 1
  BY <1>1, <1>2, <1>3, Reading
<1>5. Len(encode(m)) \in Nat /\ Len(q) \in Nat
  BY <1>1, Fields
<1> QED
  BY <1>4, <1>5 DEF CanDecode, Complete

\* decode undoes encode: what the encoder of a message type writes, the decoder of
\* that type accepts and reads back as the same message, whatever the fields are
\* and however long, up to the limits of writeString and writeBytes.
THEOREM RoundTrip ==
    ASSUME NEW m, Sendable(m)
    PROVE  /\ encode(m) \in Seq(Nat)
           /\ CanDecode(m.type, encode(m)) /\ decode(m.type, encode(m)) = m
<1> DEFINE p == encode(m)
           N == Len(m.fields)
           t == m.type
           end == Ends(t, p)
<1>1. PICK b : Writing(b, m)
  BY EncodeLoop
<1>2. /\ p \in Seq(Nat) /\ \A i \in 0 .. N : b[i] \in Seq(Nat) /\ Begins(b[i], p)
      /\ \A i \in 1 .. N :
            /\ FieldOf(m, i) \in Seq(Nat) /\ Len(b[i]) = Len(b[i - 1]) + Len(FieldOf(m, i))
            /\ \A j \in 1 .. Len(FieldOf(m, i)) : p[Len(b[i - 1]) + j] = FieldOf(m, i)[j]
  BY <1>1, Fields
<1>3. Agrees(p, 0, p)
  BY <1>2 DEF Agrees
<1>4. CanDecode(t, p)
  BY <1>2, <1>3, OnlyWhole
<1>5. N \in Nat /\ N = Len(Layout[t])
  BY FieldsOf
<1>6. \A i \in 0 .. N : end[i] = Len(b[i])
  <2>1. \A i \in 0 .. N : Len(b[i]) <= Len(p)
    BY <1>2 DEF Begins
  <2>2. \A i \in 0 .. N : end[i] = IF Len(b[i]) <= Len(p) THEN Len(b[i]) ELSE Len(p) + 1
    BY <1>1, <1>2, <1>3, Reading
  <2> HIDE DEF end, N, p
  <2> QED
    BY <2>1, <2>2
<1> HIDE DEF end, N, p
<1>7. ASSUME NEW i \in 1 .. N
      PROVE  SubSeq(p, end[i - 1] + LengthSize[Layout[t][i]] + 1, end[i]) = m.fields[i]
  <2> DEFINE w == FieldOf(m, i)
             e == Len(b[i - 1])
             ls == LengthSize[Layout[t][i]]
             v == m.fields[i]
  <2>1. i - 1 \in 0 .. N /\ i \in 0 .. N
    BY <1>5
  <2>2. /\ v \in Seq(Nat) /\ Layout[t][i] \in Kinds /\ CanWrite(Layout[t][i], v)
    BY FieldsOf DEF N
  <2>3. /\ w \in Seq(Nat) /\ Len(w) = ls + Len(v)
        /\ SubSeq(w, ls + 1, ls + Len(v)) = v
    BY <2>2, FieldBytes DEF FieldOf
  <2>4. ls \in Nat /\ Len(v) \in Nat
    BY <2>2, Limits DEF Kinds
  <2>5. /\ end[i - 1] = e /\ end[i] = Len(b[i]) /\ e \in Nat /\ Len(b[i]) = e + Len(w)
        /\ \A j \in 1 .. Len(w) : p[e + j] = w[j]
    BY <1>2, <1>6, <2>1
  <2>6. e + Len(w) <= Len(p)
    <3>1. Len(b[i]) <= Len(p)
      BY <1>2, <2>1 DEF Begins
    <3> QED
      BY <2>5, <3>1
  <2> HIDE DEF w, e, ls, v
  <2>7. SubSeq(p, e + (ls + 1), e + (ls + Len(v))) = SubSeq(w, ls + 1, ls + Len(v))
    <3> DEFINE lo == ls + 1
               hi == ls + Len(v)
    <3>1. \A j \in lo .. hi : p[e + j] = w[j]
      BY <2>3, <2>4, <2>5
    <3>2. lo \in Nat /\ hi \in Nat /\ 1 <= lo /\ hi <= Len(w) /\ e + hi <= Len(p)
      BY <2>3, <2>4, <2>5, <2>6
    <3>3. p \in Seq(Nat) /\ w \in Seq(Nat) /\ e \in Nat
      BY <1>2, <2>3, <2>5
    <3> HIDE DEF lo, hi, p
    <3>4. SubSeq(p, e + lo, e + hi) = SubSeq(w, lo, hi)
      BY ONLY <3>1, <3>2, <3>3, SamePart, ZenonT(30)
    <3> QED
      BY <3>4 DEF lo, hi
  <2>8. e + (ls + 1) = e + ls + 1 /\ e + (ls + Len(v)) = end[i]
    BY <2>3, <2>4, <2>5
  <2> QED
    BY <2>3, <2>5, <2>7, <2>8 DEF ls, v
<1>8. m.fields = [i \in 1 .. N |-> SubSeq(p, end[i - 1] + LengthSize[Layout[t][i]] + 1, end[i])]
  <2>1. m.fields \in Seq(Seq(Nat))
    BY DEF Sendable, Messages
  <2>2. m.fields = [i \in 1 .. N |-> m.fields[i]]
    BY <2>1 DEF N
  <2> QED
    BY <1>7, <2>2
<1>9. m = [type |-> t, fields |-> m.fields]
  BY DEF Sendable, Messages
<1>10. decode(t, p) = [type |-> t, fields |-> m.fields]
  BY <1>5, <1>8 DEF decode, end
<1> QED
  BY <1>2, <1>4, <1>9, <1>10 DEF p

-----------------------------------------------------------------------------
(* Frames *)

\* A message that a sender may send, and its frame.
Allowed(m) == Sendable(m) /\ Len(encode(m)) <= MaxPayloadSize
Frame(m) == Header(m.type, encode(m)) \o encode(m)

\* What Append returns.
LEMMA AppendBytes ==
    ASSUME NEW a \in Seq(Nat), NEW c \in Nat
    PROVE  /\ Append(a, c) \in Seq(Nat) /\ Len(Append(a, c)) = Len(a) + 1
           /\ \A i \in 1 .. Len(a) : Append(a, c)[i] = a[i]
           /\ Append(a, c)[Len(a) + 1] = c
BY SMT

\* The first bytes of a sequence.
LEMMA FirstBytes ==
    ASSUME NEW a \in Seq(Nat), NEW n \in Nat, n <= Len(a)
    PROVE  /\ SubSeq(a, 1, n) \in Seq(Nat) /\ Len(SubSeq(a, 1, n)) = n
           /\ \A i \in 1 .. n : SubSeq(a, 1, n)[i] = a[i]
BY SMT

\* The other bytes, and the whole.
LEMMA OtherBytes ==
    ASSUME NEW a \in Seq(Nat), NEW n \in Nat, n <= Len(a)
    PROVE  /\ SubSeq(a, n + 1, Len(a)) \in Seq(Nat) /\ Len(SubSeq(a, n + 1, Len(a))) = Len(a) - n
           /\ \A i \in 1 .. Len(a) - n : SubSeq(a, n + 1, Len(a))[i] = a[n + i]
           /\ SubSeq(a, 1, n) \o SubSeq(a, n + 1, Len(a)) = a
<1> DEFINE x == SubSeq(a, 1, n)
           y == SubSeq(a, n + 1, Len(a))
<1>1. /\ y \in Seq(Nat) /\ Len(y) = Len(a) - n
      /\ \A i \in 1 .. Len(a) - n : y[i] = a[n + i]
  BY SMT
<1>2. x \in Seq(Nat) /\ Len(x) = n /\ \A i \in 1 .. n : x[i] = a[i]
  BY FirstBytes
<1> HIDE DEF x, y
<1>3. /\ x \o y \in Seq(Nat) /\ Len(x \o y) = Len(x) + Len(y) /\ Begins(x, x \o y)
      /\ \A j \in 1 .. Len(y) : (x \o y)[Len(x) + j] = y[j]
  BY <1>1, <1>2, BeginsConcat
<1>4. Len(a) \in Nat /\ Len(x \o y) = Len(a)
  BY <1>1, <1>2, <1>3
<1>5. ASSUME NEW i \in 1 .. Len(a)
      PROVE  (x \o y)[i] = a[i]
  <2>1. CASE i <= n
    <3>1. i \in 1 .. n
      BY <1>4, <2>1
    <3> QED
      BY <1>2, <1>3, <3>1 DEF Begins
  <2>2. CASE ~(i <= n)
    <3>1. i - n \in 1 .. Len(a) - n /\ n + (i - n) = i
      BY <1>4, <2>2
    <3>2. (x \o y)[n + (i - n)] = y[i - n] /\ y[i - n] = a[n + (i - n)]
      BY <1>1, <1>2, <1>3, <3>1
    <3> QED
      BY <3>1, <3>2
  <2> QED
    BY <2>1, <2>2
<1>6. x \o y = a
  BY <1>3, <1>4, <1>5, SeqEqual
<1> QED
  BY <1>1, <1>6 DEF x, y

\* The header of a frame says how long the payload is and which decoder is for it.
LEMMA HeaderOf ==
    ASSUME NEW m, Allowed(m)
    PROVE  /\ Header(m.type, encode(m)) \in Seq(Nat) /\ Len(Header(m.type, encode(m))) = 5
           /\ Uint(SubSeq(Header(m.type, encode(m)), 1, 4)) = Len(encode(m))
           /\ Header(m.type, encode(m))[5] = Code[m.type]
           /\ Verdict(Header(m.type, encode(m))) = "read"
<1> DEFINE n == Len(encode(m))
           u == PutUint(4, n)
           h == Append(u, Code[m.type])
<1>1. h = Header(m.type, encode(m))
  BY DEF Header
<1>2. n \in Nat /\ n <= MaxPayloadSize /\ n < Radix * Radix * Radix * Radix
  BY RoundTrip, CodecAssumption, RadixType DEF Allowed
<1>3. u \in Seq(Nat) /\ Len(u) = 4 /\ Uint(u) = n
  <2> HIDE DEF n
  <2> QED
    BY <1>2, UintPut
<1>4. m.type \in Types /\ Code[m.type] \in Nat \ {0}
  BY FieldsOf, LayoutType DEF Allowed
<1> HIDE DEF u, n
<1>5. /\ h \in Seq(Nat) /\ Len(h) = 5 /\ h[5] = Code[m.type] /\ SubSeq(h, 1, 4) = u
  <2> DEFINE c == Code[m.type]
             a == Append(u, c)
  <2>1. c \in Nat
    BY <1>4
  <2> HIDE DEF c
  <2>2. a \in Seq(Nat) /\ Len(a) = 5 /\ a[5] = c /\ \A i \in 1 .. 4 : a[i] = u[i]
    <3>1. Len(u) + 1 = 5 /\ Len(u) = 4
      BY <1>3
    <3>2. /\ a \in Seq(Nat) /\ Len(a) = Len(u) + 1
          /\ \A i \in 1 .. Len(u) : a[i] = u[i]
          /\ a[Len(u) + 1] = c
      BY <1>3, <2>1, AppendBytes
    <3> HIDE DEF a
    <3> QED
      BY <3>1, <3>2, Zenon
  <2>3. SubSeq(a, 1, 4) = u
    <3> DEFINE x == SubSeq(a, 1, 4)
    <3> HIDE DEF a
    <3>0. 4 \in Nat /\ 4 <= Len(a) /\ a \in Seq(Nat)
      BY <2>2
    <3>1. x \in Seq(Nat) /\ Len(x) = 4 /\ \A i \in 1 .. 4 : x[i] = a[i]
      BY <3>0, FirstBytes
    <3> HIDE DEF x
    <3>2. x = u
      BY <1>3, <2>2, <3>1, SeqEqual
    <3> QED
      BY <3>2 DEF x
  <2> QED
    BY <2>2, <2>3 DEF c
<1> HIDE DEF h
<1>6. Verdict(h) = "read"
  <2>1. ~(n > MaxPayloadSize) /\ h[5] # 0
    BY <1>2, <1>4, <1>5, CodecAssumption
  <2> QED
    BY <1>3, <1>5, <2>1 DEF Verdict
<1> QED
  BY <1>1, <1>3, <1>5, <1>6 DEF n

\* A frame is its header and its payload.
LEMMA FrameBytes ==
    ASSUME NEW m, Allowed(m)
    PROVE  Frame(m) \in Seq(Nat) /\ Len(Frame(m)) = 5 + Len(encode(m))
<1> DEFINE h == Header(m.type, encode(m))
<1>1. h \in Seq(Nat) /\ Len(h) = 5 /\ encode(m) \in Seq(Nat)
  BY HeaderOf, RoundTrip DEF Allowed
<1>2. Frame(m) = h \o encode(m)
  BY DEF Frame
<1> HIDE DEF h
<1>3. h \o encode(m) \in Seq(Nat) /\ Len(h \o encode(m)) = Len(h) + Len(encode(m))
  BY <1>1, BeginsConcat
<1> QED
  BY <1>1, <1>2, <1>3

\* The decoder that the header names makes the message of the payload.
LEMMA DecodedOnce ==
    ASSUME NEW m, Sendable(m)
    PROVE  Decoded(Code[m.type], encode(m)) = {m} /\ SetToSeq({m}) = <<m>>
<1>1. m.type \in Types
  BY FieldsOf
<1>2. {u \in Types : Code[u] = Code[m.type] /\ CanDecode(u, encode(m))} = {m.type}
  BY <1>1, LayoutType, RoundTrip
<1>3. Decoded(Code[m.type], encode(m)) = {decode(t, encode(m)) : t \in {m.type}}
  BY <1>2 DEF Decoded
<1>4. Decoded(Code[m.type], encode(m)) = {m}
  BY <1>3, RoundTrip
<1>5. Cardinality({m}) = 1
  BY FS_Singleton
<1>6. <<m>> \in [1 .. 1 -> {m}] /\ IsInjective(<<m>>)
  BY DEF IsInjective
<1>7. \A f \in [1 .. 1 -> {m}] : f = <<m>>
  OBVIOUS
<1>8. SetToSeq({m}) = CHOOSE f \in [1 .. 1 -> {m}] : IsInjective(f)
  BY <1>5 DEF SetToSeq
<1>9. SetToSeq({m}) \in [1 .. 1 -> {m}]
  BY <1>6, <1>8
<1> QED
  BY <1>4, <1>7, <1>9

\* Neither a part of a payload nor a longer one can be taken for it.
LEMMA NoOtherReading ==
    ASSUME NEW m, Sendable(m)
    PROVE  \A p \in {encode(m)} :
              /\ \A n \in 0 .. Len(p) - 1 : ~CanDecode(m.type, SubSeq(p, 1, n))
              /\ \A byte \in 0 .. Radix - 1 : ~CanDecode(m.type, Append(p, byte))
<1> DEFINE p == encode(m)
<1>1. p \in Seq(Nat) /\ Len(p) \in Nat
  BY RoundTrip
<1> HIDE DEF p
<1>2. ASSUME NEW n \in 0 .. Len(p) - 1
      PROVE  ~CanDecode(m.type, SubSeq(p, 1, n))
  <2> DEFINE q == SubSeq(p, 1, n)
  <2>1. q \in Seq(Nat) /\ Len(q) = n /\ \A j \in 1 .. n : q[j] = p[j]
    BY <1>1
  <2> HIDE DEF q
  <2>2. Agrees(q, 0, p) /\ Len(q) # Len(p)
    BY <1>1, <2>1 DEF Agrees
  <2> QED
    BY <2>1, <2>2, OnlyWhole DEF p, q
<1>3. ASSUME NEW byte \in 0 .. Radix - 1
      PROVE  ~CanDecode(m.type, Append(p, byte))
  <2> DEFINE q == Append(p, byte)
  <2>1. q \in Seq(Nat) /\ Len(q) = Len(p) + 1 /\ \A j \in 1 .. Len(p) : q[j] = p[j]
    BY <1>1, RadixType
  <2> HIDE DEF q
  <2>2. Agrees(q, 0, p) /\ Len(q) # Len(p)
    BY <1>1, <2>1 DEF Agrees
  <2> QED
    BY <2>1, <2>2, OnlyWhole DEF p, q
<1> QED
  BY <1>2, <1>3 DEF p

-----------------------------------------------------------------------------
(* Cutting a sequence of bytes *)

\* Nothing added.
LEMMA Empty ==
    ASSUME NEW a \in Seq(Nat)
    PROVE  <<>> \in Seq(Nat) /\ a \o <<>> = a /\ <<>> \o a = a
BY SMT

\* Three parts.
LEMMA Concat3 ==
    ASSUME NEW a \in Seq(Nat), NEW b \in Seq(Nat), NEW c \in Seq(Nat)
    PROVE  (a \o b) \o c = a \o (b \o c)
BY ConcatAssociative

\* The same beginning leaves the same rest.
LEMMA Cancel ==
    ASSUME NEW a \in Seq(Nat), NEW b \in Seq(Nat), NEW c \in Seq(Nat), a \o b = a \o c
    PROVE  b = c
BY ConcatSimplifications

\* What begins with a is a and a rest.
LEMMA Rest ==
    ASSUME NEW a \in Seq(Nat), NEW b \in Seq(Nat), Begins(a, b)
    PROVE  /\ SubSeq(b, 1, Len(a)) = a
           /\ \E c \in Seq(Nat) : b = a \o c
<1>1. Len(a) \in Nat /\ Len(a) <= Len(b)
  BY DEF Begins
<1> DEFINE x == SubSeq(b, 1, Len(a))
           c == SubSeq(b, Len(a) + 1, Len(b))
<1>2. x \in Seq(Nat) /\ Len(x) = Len(a) /\ \A i \in 1 .. Len(a) : x[i] = b[i]
  BY <1>1, FirstBytes
<1>3. c \in Seq(Nat) /\ x \o c = b
  BY <1>1, OtherBytes
<1> HIDE DEF x, c
<1>4. x = a
  BY <1>2, SeqEqual DEF Begins
<1> QED
  BY <1>3, <1>4 DEF x

\* Two ways to cut the same bytes.
LEMMA TwoCuts ==
    ASSUME NEW a \in Seq(Nat), NEW b \in Seq(Nat), NEW c \in Seq(Nat), NEW d \in Seq(Nat),
           a \o b = c \o d, Len(c) <= Len(a)
    PROVE  SubSeq(a, 1, Len(c)) = c
<1>1. Len(a) \in Nat /\ Len(c) \in Nat
  OBVIOUS
<1>2. Begins(a, a \o b) /\ Begins(c, a \o b)
  BY BeginsConcat
<1>3. \A j \in 1 .. Len(c) : j \in 1 .. Len(a)
  BY <1>1
<1>4. Begins(c, a)
  BY <1>2, <1>3 DEF Begins
<1> QED
  BY <1>4, Rest

\* All that was written to the connection for the frames that were begun, frame
\* by frame.
Transcript(f) ==
    /\ f \in [0 .. Len(begun) -> Seq(Nat)] /\ f[0] = <<>>
    /\ \A i \in 1 .. Len(begun) : f[i] = f[i - 1] \o Frame(begun[i])

\* Bytes behind a whole number of frames begin with the next frame.
LEMMA NextFrame ==
    ASSUME begun \in Seq(Messages), \A i \in 1 .. Len(begun) : Allowed(begun[i]),
           NEW f, Transcript(f), NEW k \in 0 .. Len(begun), NEW rest \in Seq(Nat),
           f[k] \o rest = f[Len(begun)], rest # <<>>
    PROVE  /\ k < Len(begun)
           /\ \E tail \in Seq(Nat) :
                 /\ rest = Frame(begun[k + 1]) \o tail
                 /\ f[k + 1] \o tail = f[Len(begun)]
<1> DEFINE N == Len(begun)
<1>1. N \in Nat /\ N \in 0 .. N
  OBVIOUS
<1>2. /\ f \in [0 .. N -> Seq(Nat)]
      /\ \A i \in 1 .. N : f[i] = f[i - 1] \o Frame(begun[i])
  BY DEF Transcript
<1> HIDE DEF N
<1>3. \A i \in 1 .. N : Allowed(begun[i]) /\ Frame(begun[i]) \in Seq(Nat)
  BY FrameBytes DEF N
<1>4. k # N
  <2>1. ASSUME k = N
        PROVE  FALSE
    <3>1. f[N] \in Seq(Nat) /\ f[N] \o rest = f[N]
      BY <1>1, <1>2, <2>1 DEF N
    <3>2. rest = <<>>
      BY <3>1, ConcatSimplifications
    <3> QED
      BY <3>2
  <2> QED
    BY <2>1
<1>5. /\ k \in 0 .. N /\ k < N /\ k + 1 \in 1 .. N /\ k + 1 \in 0 .. N /\ (k + 1) - 1 = k
  BY <1>1, <1>4 DEF N
<1>6. /\ f[k] \in Seq(Nat) /\ f[k + 1] \in Seq(Nat) /\ f[N] \in Seq(Nat)
      /\ f[k + 1] = f[k] \o Frame(begun[k + 1]) /\ Frame(begun[k + 1]) \in Seq(Nat)
  BY <1>1, <1>2, <1>3, <1>5
<1>7. \A i \in 1 .. N : Begins(f[i - 1], f[i])
  <2>1. ASSUME NEW i \in 1 .. N
        PROVE  Begins(f[i - 1], f[i])
    <3>1. i - 1 \in 0 .. N
      BY <1>1
    <3>2. f[i - 1] \in Seq(Nat) /\ Frame(begun[i]) \in Seq(Nat) /\ f[i] = f[i - 1] \o Frame(begun[i])
      BY <1>2, <1>3, <3>1
    <3> QED
      BY <3>2, BeginsConcat
  <2> QED
    BY <2>1
<1>8. Begins(f[k + 1], f[N])
  BY <1>1, <1>2, <1>5, <1>7, Growth
<1>9. PICK tail \in Seq(Nat) : f[N] = f[k + 1] \o tail
  BY <1>6, <1>8, Rest
<1>10. f[k + 1] \o tail = f[k] \o (Frame(begun[k + 1]) \o tail)
  <2>1. f[k] \in Seq(Nat) /\ Frame(begun[k + 1]) \in Seq(Nat)
    BY <1>6
  <2>2. (f[k] \o Frame(begun[k + 1])) \o tail = f[k] \o (Frame(begun[k + 1]) \o tail)
    BY <2>1, Concat3
  <2> QED
    BY <1>6, <2>2, Zenon
<1>11. Frame(begun[k + 1]) \o tail \in Seq(Nat)
  BY <1>6, BeginsConcat
<1>12. f[k] \o rest = f[N]
  BY DEF N
<1>13. rest = Frame(begun[k + 1]) \o tail
  <2>1. f[k] \o rest = f[k] \o (Frame(begun[k + 1]) \o tail)
    BY <1>9, <1>10, <1>12, Zenon
  <2>2. f[k] \in Seq(Nat)
    BY <1>6
  <2> QED
    BY <1>11, <2>1, <2>2, Cancel
<1> QED
  BY <1>5, <1>9, <1>13 DEF N

-----------------------------------------------------------------------------
(* The inductive invariant *)

\* The senders: who holds the mutex is writing the frame of the first message
\* of its list, and nobody else is.
SendInv ==
    /\ queue \in [Senders -> Seq(Messages)]
    /\ at \in [Senders -> {"idle", "header", "payload"}]
    /\ left \in [Senders -> Seq(Nat)]
    /\ mutex \in Senders \cup {NoSender}
    /\ \A s \in Senders : \A i \in 1 .. Len(queue[s]) : WellFormed(queue[s][i])
    /\ \A s \in Senders : mutex = s <=> at[s] # "idle"
    /\ \A s \in Senders : at[s] # "idle" => queue[s] # <<>> /\ Allowed(Head(queue[s]))

\* The frames that were begun, and the reader: it has read a whole number of
\* frames, and perhaps the header of the next one.
ReadInv ==
    /\ begun \in Seq(Messages) /\ \A i \in 1 .. Len(begun) : Allowed(begun[i])
    /\ stream \in Seq(Nat) /\ broken \in BOOLEAN /\ reader \in {"read", "EOF"}
    /\ received \in Seq(Messages) /\ Len(received) <= Len(begun)
    /\ \A i \in 1 .. Len(received) : received[i] = begun[i]
    /\ header \in Seq(Nat)
    /\ header # <<>> =>
          /\ Len(received) < Len(begun)
          /\ header = Header(begun[Len(received) + 1].type, encode(begun[Len(received) + 1]))

\* What the sender that holds the mutex has yet to write.
Pending ==
    IF mutex = NoSender THEN <<>>
    ELSE IF at[mutex] = "header" THEN left[mutex] \o encode(Head(queue[mutex]))
    ELSE left[mutex]

\* What was read, what is in the connection and what is still to be written are
\* the frames that were begun, one after the other.  What is in the connection
\* when it breaks, and what is not written then, may be lost, but only from some
\* point on.
FlowInv ==
    \E f, r : /\ Transcript(f) /\ r \in Seq(Nat)
              /\ f[Len(received)] \o (header \o (stream \o r)) = f[Len(begun)]
              /\ ~broken => r = Pending

\* The invariant holds when nothing was sent yet.
LEMMA WireInit == Init => SendInv /\ ReadInv /\ FlowInv
<1> SUFFICES ASSUME Init PROVE SendInv /\ ReadInv /\ FlowInv
  OBVIOUS
<1>1. SendInv
  <2>1. queue \in [Senders -> Seq(Messages)]
    BY WireAssumption DEF Init
  <2>2. \A s \in Senders : \A i \in 1 .. Len(queue[s]) : WellFormed(queue[s][i])
    BY WireAssumption DEF Init
  <2>3. \A s \in Senders : mutex # s /\ at[s] = "idle"
    BY WireAssumption DEF Init
  <2>4. /\ at \in [Senders -> {"idle", "header", "payload"}]
        /\ left \in [Senders -> Seq(Nat)] /\ mutex \in Senders \cup {NoSender}
    BY DEF Init
  <2> QED
    BY <2>1, <2>2, <2>3, <2>4 DEF SendInv
<1>2. ReadInv
  <2>1. /\ begun = <<>> /\ stream = <<>> /\ broken = FALSE /\ reader = "read"
        /\ received = <<>> /\ header = <<>>
    BY DEF Init
  <2>2. <<>> \in Seq(Messages) /\ <<>> \in Seq(Nat) /\ Len(<<>>) = 0 /\ 0 <= 0 /\ 1 .. 0 = {}
    OBVIOUS
  <2> QED
    BY <2>1, <2>2 DEF ReadInv
<1>3. FlowInv
  <2> DEFINE f == [i \in 0 .. 0 |-> <<>>]
  <2>1. Len(begun) = 0 /\ Len(received) = 0 /\ header = <<>> /\ stream = <<>>
    BY DEF Init
  <2>2. Pending = <<>>
    BY DEF Init, Pending
  <2>3. <<>> \in Seq(Nat) /\ <<>> \o <<>> = <<>>
    BY Empty
  <2>4. f \in [0 .. 0 -> Seq(Nat)] /\ f[0] = <<>>
    BY <2>3
  <2>5. Transcript(f)
    BY <2>1, <2>4 DEF Transcript
  <2>6. f[Len(received)] \o (header \o (stream \o <<>>)) = f[Len(begun)]
    BY <2>1, <2>3, <2>4
  <2> HIDE DEF f
  <2> QED
    BY <2>2, <2>3, <2>5, <2>6 DEF FlowInv
<1> QED
  BY <1>1, <1>2, <1>3

\* The first message of a list, and the others.
LEMMA ListParts ==
    ASSUME SendInv, NEW s \in Senders, queue[s] # <<>>
    PROVE  /\ Head(queue[s]) \in Messages /\ WellFormed(Head(queue[s]))
           /\ Tail(queue[s]) \in Seq(Messages)
           /\ \A i \in 1 .. Len(Tail(queue[s])) : WellFormed(Tail(queue[s])[i])
<1> DEFINE q == queue[s]
<1>1. q \in Seq(Messages) /\ q # <<>> /\ \A i \in 1 .. Len(q) : WellFormed(q[i])
  BY DEF SendInv
<1> HIDE DEF q
<1>2. /\ Head(q) = q[1] /\ 1 \in 1 .. Len(q) /\ Head(q) \in Messages
      /\ Tail(q) \in Seq(Messages)
      /\ \A i \in 1 .. Len(Tail(q)) : i + 1 \in 1 .. Len(q) /\ Tail(q)[i] = q[i + 1]
  BY <1>1
<1> QED
  BY <1>1, <1>2 DEF q

\* Steps of a sender that has not got the mutex do not touch what is pending.
LEMMA SendInvRefuse ==
    ASSUME SendInv, NEW s \in Senders, Refuse(s)
    PROVE  SendInv' /\ Pending' = Pending
<1>1. /\ at[s] = "idle" /\ queue[s] # <<>> /\ queue' = [queue EXCEPT ![s] = Tail(@)]
      /\ UNCHANGED <<at, left, mutex>>
  BY DEF Refuse
<1>2. mutex # s
  BY <1>1 DEF SendInv
<1>3. /\ queue'[s] = Tail(queue[s]) /\ \A t \in Senders : t # s => queue'[t] = queue[t]
  BY <1>1 DEF SendInv
<1>4. queue' \in [Senders -> Seq(Messages)]
  BY <1>1, ListParts DEF SendInv
<1>5. \A t \in Senders : \A i \in 1 .. Len(queue'[t]) : WellFormed(queue'[t][i])
  BY <1>1, <1>3, ListParts DEF SendInv
<1>6. \A t \in Senders : at[t] # "idle" => queue'[t] # <<>> /\ Allowed(Head(queue'[t]))
  BY <1>1, <1>3 DEF SendInv
<1>7. SendInv'
  BY <1>1, <1>4, <1>5, <1>6 DEF SendInv
<1>8. Pending' = Pending
  BY <1>1, <1>2, <1>3 DEF Pending, SendInv
<1> QED
  BY <1>7, <1>8

-----------------------------------------------------------------------------
(* The senders *)

\* Who takes the mutex has a whole frame to write.
LEMMA SendInvBegin ==
    ASSUME SendInv, NEW s \in Senders, Begin(s)
    PROVE  /\ SendInv' /\ Allowed(Head(queue[s])) /\ Head(queue[s]) \in Messages
           /\ Pending = <<>> /\ Pending' = Frame(Head(queue[s]))
<1> DEFINE m == Head(queue[s])
           h == Header(m.type, encode(m))
<1>1. /\ at[s] = "idle" /\ queue[s] # <<>> /\ Fits(m) /\ mutex = NoSender
      /\ mutex' = s /\ at' = [at EXCEPT ![s] = "header"]
      /\ left' = [left EXCEPT ![s] = h] /\ UNCHANGED queue
  BY DEF Begin, Free
<1>2. Allowed(m) /\ m \in Messages
  BY <1>1, ListParts DEF Fits, Allowed, Sendable
<1>3. h \in Seq(Nat)
  BY <1>2, HeaderOf
<1> HIDE DEF m, h
<1>4. /\ at'[s] = "header" /\ \A t \in Senders : t # s => at'[t] = at[t]
      /\ left'[s] = h /\ left' \in [Senders -> Seq(Nat)]
      /\ at' \in [Senders -> {"idle", "header", "payload"}]
  BY <1>1, <1>3 DEF SendInv
<1>5. \A t \in Senders : at[t] = "idle"
  BY <1>1, WireAssumption DEF SendInv
<1>6. \A t \in Senders : mutex' = t <=> at'[t] # "idle"
  BY <1>1, <1>4, <1>5
<1>7. \A t \in Senders : at'[t] # "idle" => queue[t] # <<>> /\ Allowed(Head(queue[t]))
  BY <1>1, <1>2, <1>4, <1>5 DEF m
<1>8. SendInv'
  BY <1>1, <1>4, <1>6, <1>7 DEF SendInv
<1>9. Pending = <<>>
  BY <1>1 DEF Pending
<1>10. Pending' = h \o encode(m)
  <2>1. mutex' = s /\ s # NoSender /\ at'[mutex'] = "header" /\ left'[mutex'] = h
        /\ Head(queue'[mutex']) = m
    BY <1>1, <1>4, WireAssumption DEF m
  <2> QED
    BY <2>1 DEF Pending
<1> QED
  BY <1>2, <1>8, <1>9, <1>10 DEF m, h, Frame

\* A sender that is writing holds the mutex.
LEMMA Writer ==
    ASSUME SendInv, NEW s \in Senders, at[s] # "idle"
    PROVE  /\ mutex = s /\ s # NoSender /\ queue[s] # <<>> /\ Allowed(Head(queue[s]))
           /\ left[s] \in Seq(Nat) /\ encode(Head(queue[s])) \in Seq(Nat)
           /\ Pending = IF at[s] = "header" THEN left[s] \o encode(Head(queue[s])) ELSE left[s]
           /\ Pending \in Seq(Nat)
<1>1. mutex = s /\ s # NoSender /\ queue[s] # <<>> /\ Allowed(Head(queue[s])) /\ left[s] \in Seq(Nat)
  BY WireAssumption DEF SendInv
<1>2. encode(Head(queue[s])) \in Seq(Nat)
  BY <1>1, RoundTrip DEF Allowed
<1>3. Pending = IF at[s] = "header" THEN left[s] \o encode(Head(queue[s])) ELSE left[s]
  BY <1>1 DEF Pending
<1>4. left[s] \o encode(Head(queue[s])) \in Seq(Nat)
  BY <1>1, <1>2, BeginsConcat
<1> QED
  BY <1>1, <1>2, <1>3, <1>4

\* A write moves bytes from the front of what is pending.
LEMMA SendInvWrites ==
    ASSUME SendInv, NEW s \in Senders, NEW n \in 1 .. Len(left[s]), Writes(s, n)
    PROVE  /\ SendInv' /\ Pending \in Seq(Nat) /\ Pending' \in Seq(Nat)
           /\ SubSeq(left[s], 1, n) \in Seq(Nat)
           /\ SubSeq(left[s], 1, n) \o Pending' = Pending
<1> DEFINE l == left[s]
           a == SubSeq(l, 1, n)
           b == SubSeq(l, n + 1, Len(l))
           e == encode(Head(queue[s]))
<1>1. /\ at[s] # "idle" /\ UNCHANGED <<queue, at, mutex>>
      /\ left' = [left EXCEPT ![s] = b]
  BY DEF Writes
<1>2. /\ mutex = s /\ s # NoSender /\ l \in Seq(Nat) /\ e \in Seq(Nat) /\ Pending \in Seq(Nat)
      /\ Pending = IF at[s] = "header" THEN l \o e ELSE l
  BY <1>1, Writer
<1>3. a \in Seq(Nat) /\ b \in Seq(Nat) /\ a \o b = l
  <2>1. n \in Nat /\ n <= Len(l)
    BY <1>2
  <2> QED
    BY <1>2, <2>1, FirstBytes, OtherBytes
<1> HIDE DEF a, b, e, l
<1>4. left' \in [Senders -> Seq(Nat)] /\ left'[s] = b
  BY <1>1, <1>3 DEF SendInv
<1>5. SendInv'
  BY <1>1, <1>4 DEF SendInv
<1>6. Pending' = IF at[s] = "header" THEN b \o e ELSE b
  BY <1>1, <1>2, <1>4 DEF Pending, e
<1>7. b \o e \in Seq(Nat) /\ (a \o b) \o e = a \o (b \o e)
  <2>1. a \in Seq(Nat) /\ b \in Seq(Nat) /\ e \in Seq(Nat)
    BY <1>2, <1>3
  <2>2. b \o e \in Seq(Nat)
    BY <2>1, BeginsConcat
  <2> QED
    BY <2>1, <2>2, Concat3
<1>8. Pending' \in Seq(Nat) /\ a \o Pending' = Pending
  BY <1>2, <1>3, <1>6, <1>7
<1> QED
  BY <1>2, <1>3, <1>5, <1>8 DEF a, l

\* The payload comes behind the header, with nothing in between.
LEMMA SendInvHeaderDone ==
    ASSUME SendInv, NEW s \in Senders, HeaderDone(s)
    PROVE  SendInv' /\ Pending' = Pending
<1> DEFINE e == encode(Head(queue[s]))
<1>1. /\ at[s] = "header" /\ left[s] = <<>> /\ UNCHANGED <<queue, mutex>>
      /\ at' = [at EXCEPT ![s] = "payload"] /\ left' = [left EXCEPT ![s] = e]
  BY DEF HeaderDone, Written
<1>2. /\ mutex = s /\ s # NoSender /\ e \in Seq(Nat) /\ Pending = left[s] \o e
      /\ queue[s] # <<>> /\ Allowed(Head(queue[s]))
  BY <1>1, Writer
<1> HIDE DEF e
<1>3. /\ at'[s] = "payload" /\ left'[s] = e /\ left' \in [Senders -> Seq(Nat)]
      /\ at' \in [Senders -> {"idle", "header", "payload"}]
      /\ \A t \in Senders : t # s => at'[t] = at[t]
  BY <1>1, <1>2 DEF SendInv
<1>4. \A t \in Senders : mutex = t <=> at'[t] # "idle"
  BY <1>2, <1>3 DEF SendInv
<1>5. \A t \in Senders : at'[t] # "idle" => queue[t] # <<>> /\ Allowed(Head(queue[t]))
  BY <1>2, <1>3 DEF SendInv
<1>6. SendInv'
  BY <1>1, <1>3, <1>4, <1>5 DEF SendInv
<1>7. Pending' = e
  BY <1>1, <1>2, <1>3 DEF Pending
<1> QED
  BY <1>1, <1>2, <1>6, <1>7, Empty

\* A frame ends, written to its last byte or given up on a broken connection.
LEMMA SendInvEnds ==
    ASSUME SendInv, NEW s \in Senders, PayloadDone(s) \/ WriteFails(s)
    PROVE  SendInv' /\ Pending' = <<>> /\ (~broken => Pending = <<>>)
<1>1. /\ at[s] # "idle" /\ mutex' = NoSender /\ at' = [at EXCEPT ![s] = "idle"]
      /\ left' = [left EXCEPT ![s] = <<>>] /\ queue' = [queue EXCEPT ![s] = Tail(@)]
      /\ broken \/ (at[s] = "payload" /\ left[s] = <<>>)
  BY DEF PayloadDone, WriteFails, Written
<1>2. mutex = s /\ queue[s] # <<>> /\ Pending = IF at[s] = "header" THEN left[s] \o encode(Head(queue[s])) ELSE left[s]
  BY <1>1, Writer
<1>3. /\ at'[s] = "idle" /\ \A t \in Senders : t # s => at'[t] = at[t] /\ queue'[t] = queue[t]
      /\ at' \in [Senders -> {"idle", "header", "payload"}]
      /\ queue'[s] = Tail(queue[s])
  BY <1>1 DEF SendInv
<1>4. left' \in [Senders -> Seq(Nat)]
  BY <1>1, Empty DEF SendInv
<1>5. queue' \in [Senders -> Seq(Messages)]
  BY <1>1, <1>2, ListParts DEF SendInv
<1>6. \A t \in Senders : \A i \in 1 .. Len(queue'[t]) : WellFormed(queue'[t][i])
  BY <1>2, <1>3, ListParts DEF SendInv
<1>7. \A t \in Senders : at'[t] = "idle"
  BY <1>2, <1>3 DEF SendInv
<1>8. SendInv'
  BY <1>1, <1>3, <1>4, <1>5, <1>6, <1>7, WireAssumption DEF SendInv
<1>9. Pending' = <<>>
  BY <1>1 DEF Pending
<1> QED
  BY <1>1, <1>2, <1>8, <1>9

-----------------------------------------------------------------------------
(* The flow of bytes, when something is written *)

\* The transcript when one more frame is begun.
LEMMA TranscriptGrows ==
    ASSUME begun \in Seq(Messages), NEW f, Transcript(f), NEW m \in Messages, Allowed(m),
           begun' = Append(begun, m)
    PROVE  \E g : /\ Transcript(g)' /\ g[Len(begun')] = f[Len(begun)] \o Frame(m)
                  /\ \A k \in 0 .. Len(begun) : g[k] = f[k]
<1> DEFINE N == Len(begun)
<1>0. PICK g : g = [i \in 0 .. N + 1 |-> IF i = N + 1 THEN f[N] \o Frame(m) ELSE f[i]]
  OBVIOUS
<1>1. N \in Nat /\ begun' \in Seq(Messages) /\ Len(begun') = N + 1
  OBVIOUS
<1>2. /\ \A i \in 1 .. N : begun'[i] = begun[i]
      /\ begun'[N + 1] = m
  OBVIOUS
<1>3. /\ f \in [0 .. N -> Seq(Nat)] /\ f[0] = <<>>
      /\ \A i \in 1 .. N : f[i] = f[i - 1] \o Frame(begun[i])
  BY DEF Transcript
<1> HIDE DEF N
<1>4. Frame(m) \in Seq(Nat) /\ f[N] \in Seq(Nat)
  BY <1>1, <1>3, FrameBytes
<1>5. f[N] \o Frame(m) \in Seq(Nat)
  BY <1>4, BeginsConcat
<1>6. g[N + 1] = f[N] \o Frame(m) /\ \A k \in 0 .. N : g[k] = f[k]
  BY <1>0, <1>1
<1>7. g \in [0 .. N + 1 -> Seq(Nat)]
  <2>1. ASSUME NEW i \in 0 .. N + 1, i # N + 1
        PROVE  f[i] \in Seq(Nat)
    <3>1. i \in 0 .. N
      BY <1>1, <2>1
    <3> QED
      BY <1>3, <3>1
  <2> QED
    BY <1>0, <1>5, <2>1
<1>8. ASSUME NEW i \in 1 .. N + 1
      PROVE  g[i] = g[i - 1] \o Frame(begun'[i])
  <2>1. CASE i = N + 1
    <3>1. i - 1 = N /\ N \in 0 .. N
      BY <1>1, <2>1
    <3>2. g[i - 1] = f[N] /\ g[i] = f[N] \o Frame(m) /\ begun'[i] = m
      BY <1>2, <1>6, <2>1, <3>1
    <3> QED
      BY <3>2
  <2>2. CASE i # N + 1
    <3>1. i \in 1 .. N /\ i \in 0 .. N /\ i - 1 \in 0 .. N
      BY <1>1, <2>2
    <3>2. g[i - 1] = f[i - 1] /\ g[i] = f[i] /\ begun'[i] = begun[i]
      BY <1>2, <1>6, <3>1
    <3> QED
      BY <1>3, <3>1, <3>2
  <2> QED
    BY <2>1, <2>2
<1>9. g[0] = <<>>
  BY <1>1, <1>3, <1>6
<1>10. Transcript(g)'
  BY <1>1, <1>7, <1>8, <1>9 DEF Transcript
<1> QED
  BY <1>1, <1>6, <1>10 DEF N

\* Beginning a frame leaves the reader's part as it is.
LEMMA ReadInvBegin ==
    ASSUME ReadInv, NEW m \in Messages, Allowed(m), begun' = Append(begun, m),
           UNCHANGED <<stream, broken, readVars>>
    PROVE  ReadInv'
<1> DEFINE N == Len(begun)
           R == Len(received)
<1>1. begun \in Seq(Messages) /\ received \in Seq(Messages)
  BY DEF ReadInv
<1>2. N \in Nat /\ R \in Nat /\ begun' \in Seq(Messages) /\ Len(begun') = N + 1
  BY <1>1
<1>3. /\ \A i \in 1 .. N : begun'[i] = begun[i]
      /\ begun'[N + 1] = m
  BY <1>1
<1>4. /\ R <= N /\ (\A i \in 1 .. R : received[i] = begun[i]) /\ \A i \in 1 .. N : Allowed(begun[i])
      /\ header # <<>> => R < N /\ header = Header(begun[R + 1].type, encode(begun[R + 1]))
  BY DEF ReadInv
<1>5. received' = received /\ header' = header /\ stream' = stream /\ broken' = broken
      /\ reader' = reader
  BY DEF readVars
<1> HIDE DEF N, R
<1>6. \A i \in 1 .. N + 1 : i \in 1 .. N \/ i = N + 1
  BY <1>2
<1>7. \A i \in 1 .. N + 1 : Allowed(begun'[i])
  BY <1>3, <1>4, <1>6
<1>8. \A i \in 1 .. R : i \in 1 .. N
  BY <1>2, <1>4
<1>9. \A i \in 1 .. R : received[i] = begun'[i]
  BY <1>3, <1>4, <1>8
<1>10. R <= N + 1 /\ (R < N => R < N + 1 /\ R + 1 \in 1 .. N)
  BY <1>2, <1>4
<1>11. header # <<>> => R < N + 1 /\ header = Header(begun'[R + 1].type, encode(begun'[R + 1]))
  BY <1>3, <1>4, <1>10
<1>12. /\ stream' \in Seq(Nat) /\ broken' \in BOOLEAN /\ reader' \in {"read", "EOF"}
       /\ received' \in Seq(Messages) /\ header' \in Seq(Nat)
  BY <1>5 DEF ReadInv
<1>13. Len(received') = R
  BY <1>5 DEF R
<1> QED
  BY <1>2, <1>5, <1>7, <1>9, <1>10, <1>11, <1>12, <1>13 DEF ReadInv

\* The parts of FlowInv and their types.
LEMMA FlowParts ==
    ASSUME ReadInv, NEW f, Transcript(f)
    PROVE  /\ Len(received) \in 0 .. Len(begun) /\ Len(begun) \in 0 .. Len(begun)
           /\ f[Len(received)] \in Seq(Nat) /\ f[Len(begun)] \in Seq(Nat)
           /\ header \in Seq(Nat) /\ stream \in Seq(Nat)
<1>1. begun \in Seq(Messages) /\ received \in Seq(Messages) /\ Len(received) <= Len(begun)
      /\ header \in Seq(Nat) /\ stream \in Seq(Nat)
  BY DEF ReadInv
<1>2. Len(received) \in 0 .. Len(begun) /\ Len(begun) \in 0 .. Len(begun)
  BY <1>1
<1> QED
  BY <1>1, <1>2 DEF Transcript

\* The new frame comes behind everything else.
LEMMA FlowBegin ==
    ASSUME SendInv, ReadInv, FlowInv, NEW s \in Senders, Begin(s)
    PROVE  ReadInv' /\ FlowInv'
<1> DEFINE m == Head(queue[s])
           F == Frame(m)
<1>1. /\ begun' = Append(begun, m) /\ UNCHANGED <<stream, broken, readVars>>
      /\ received' = received /\ header' = header
  BY DEF Begin, readVars
<1>2. Allowed(m) /\ m \in Messages /\ Pending = <<>> /\ Pending' = F
  BY SendInvBegin
<1> HIDE DEF m
<1>3. ReadInv'
  BY <1>1, <1>2, ReadInvBegin
<1>4. PICK f, r : /\ Transcript(f) /\ r \in Seq(Nat)
                  /\ f[Len(received)] \o (header \o (stream \o r)) = f[Len(begun)]
                  /\ ~broken => r = Pending
  BY DEF FlowInv
<1>5. PICK g : /\ Transcript(g)' /\ g[Len(begun')] = f[Len(begun)] \o F
               /\ \A k \in 0 .. Len(begun) : g[k] = f[k]
  BY <1>1, <1>2, <1>4, TranscriptGrows DEF ReadInv
<1>6. F \in Seq(Nat)
  BY <1>2, FrameBytes
<1> HIDE DEF F
<1>7. /\ Len(received) \in 0 .. Len(begun)
      /\ f[Len(received)] \in Seq(Nat) /\ header \in Seq(Nat) /\ stream \in Seq(Nat)
  BY <1>4, FlowParts
<1> DEFINE a == f[Len(received)]
<1>8. a \in Seq(Nat)
  BY <1>7
<1>9. g[Len(received')] = a
  BY <1>1, <1>5, <1>7
<1> HIDE DEF a
<1>10. PICK q \in Seq(Nat) : q = r \o F
  BY <1>4, <1>6, BeginsConcat
<1>11. /\ (header \o (stream \o r)) \o F = header \o (stream \o (r \o F))
       /\ header \o (stream \o r) \in Seq(Nat)
  <2>1. header \in Seq(Nat)
    BY <1>7
  <2>2. stream \in Seq(Nat)
    BY <1>7
  <2>3. r \in Seq(Nat)
    BY <1>4
  <2>4. stream \o r \in Seq(Nat)
    BY ONLY <2>2, <2>3, BeginsConcat, Zenon
  <2>5. header \o (stream \o r) \in Seq(Nat)
    BY ONLY <2>1, <2>4, BeginsConcat, Zenon
  <2>6. (header \o (stream \o r)) \o F = header \o ((stream \o r) \o F)
    BY ONLY <1>6, <2>1, <2>4, Concat3, Zenon
  <2>7. (stream \o r) \o F = stream \o (r \o F)
    BY ONLY <1>6, <2>2, <2>3, Concat3, Zenon
  <2> QED
    BY <2>5, <2>6, <2>7
<1>12. (a \o (header \o (stream \o r))) \o F = a \o ((header \o (stream \o r)) \o F)
  BY <1>6, <1>8, <1>11, Concat3
<1>13. a \o (header \o (stream \o r)) = f[Len(begun)]
  BY <1>4 DEF a
<1>14. a \o (header \o (stream \o q)) = g[Len(begun')]
  BY <1>5, <1>10, <1>11, <1>12, <1>13, Zenon
<1>15. g[Len(received')] \o (header' \o (stream' \o q)) = g[Len(begun')]
  BY <1>1, <1>9, <1>14
<1>16. ~broken' => q = Pending'
  BY <1>1, <1>10, <1>2, <1>4, <1>6, Empty
<1>17. FlowInv'
  BY <1>5, <1>10, <1>15, <1>16 DEF FlowInv
<1> QED
  BY <1>3, <1>17

\* A step that begins no frame and reads nothing keeps the reader's part.
LEMMA ReadInvSame ==
    ASSUME ReadInv, UNCHANGED <<begun, readVars>>, stream' \in Seq(Nat), broken' \in BOOLEAN
    PROVE  ReadInv'
BY DEF ReadInv, readVars

\* Such a step keeps the flow when the bytes in the connection, the lost and
\* the pending ones are the same bytes as before.
LEMMA FlowSame ==
    ASSUME ReadInv, UNCHANGED <<begun, readVars>>, NEW f, Transcript(f), NEW r \in Seq(Nat),
           f[Len(received)] \o (header \o (stream \o r)) = f[Len(begun)],
           NEW q \in Seq(Nat), stream' \o q = stream \o r, ~broken' => q = Pending'
    PROVE  FlowInv'
<1>1. begun' = begun /\ received' = received /\ header' = header
  BY DEF readVars
<1>2. Transcript(f)'
  BY <1>1 DEF Transcript
<1>3. f[Len(received')] \o (header' \o (stream' \o q)) = f[Len(begun')]
  BY <1>1
<1> QED
  BY <1>2, <1>3 DEF FlowInv

\* What was pending is in the connection.
LEMMA FlowWrites ==
    ASSUME SendInv, ReadInv, FlowInv, NEW s \in Senders, NEW n \in 1 .. Len(left[s]), Writes(s, n)
    PROVE  ReadInv' /\ FlowInv'
<1> DEFINE w == SubSeq(left[s], 1, n)
<1>1. /\ ~broken /\ broken' = broken /\ stream' = stream \o w /\ UNCHANGED <<begun, readVars>>
  BY DEF Writes
<1>2. Pending' \in Seq(Nat) /\ w \in Seq(Nat) /\ w \o Pending' = Pending
  BY SendInvWrites
<1> HIDE DEF w
<1>3. PICK f, r : /\ Transcript(f) /\ r \in Seq(Nat)
                  /\ f[Len(received)] \o (header \o (stream \o r)) = f[Len(begun)]
                  /\ ~broken => r = Pending
  BY DEF FlowInv
<1>4. stream \in Seq(Nat)
  BY DEF ReadInv
<1>5. stream' \in Seq(Nat)
  BY <1>1, <1>2, <1>4, BeginsConcat
<1>6. PICK q \in Seq(Nat) : q = Pending'
  BY <1>2
<1>7. (stream \o w) \o q = stream \o (w \o q)
  BY <1>2, <1>4, Concat3
<1>8. stream' \o q = stream \o r
  BY <1>1, <1>2, <1>3, <1>6, <1>7
<1>9. ReadInv'
  BY <1>1, <1>5, ReadInvSame DEF ReadInv
<1>10. FlowInv'
  BY <1>1, <1>3, <1>6, <1>8, FlowSame
<1> QED
  BY <1>9, <1>10

\* A step of the senders that moves no bytes.
LEMMA FlowStill ==
    ASSUME ReadInv, FlowInv, UNCHANGED <<begun, readVars, stream, broken>>,
           ~broken => Pending' = Pending
    PROVE  ReadInv' /\ FlowInv'
<1>1. PICK f, r : /\ Transcript(f) /\ r \in Seq(Nat)
                  /\ f[Len(received)] \o (header \o (stream \o r)) = f[Len(begun)]
                  /\ ~broken => r = Pending
  BY DEF FlowInv
<1>2. stream' = stream /\ broken' = broken /\ UNCHANGED <<begun, readVars>>
  OBVIOUS
<1>3. ReadInv'
  BY <1>2, ReadInvSame DEF ReadInv
<1>4. stream' \o r = stream \o r /\ (~broken' => r = Pending')
  BY <1>1, <1>2
<1>5. FlowInv'
  BY <1>1, <1>2, <1>4, FlowSame
<1> QED
  BY <1>3, <1>5

\* What was in the connection may be lost from some point on.
LEMMA FlowBreak ==
    ASSUME ReadInv, FlowInv, Break
    PROVE  ReadInv' /\ FlowInv'
<1>1. PICK f, r : /\ Transcript(f) /\ r \in Seq(Nat)
                  /\ f[Len(received)] \o (header \o (stream \o r)) = f[Len(begun)]
                  /\ ~broken => r = Pending
  BY DEF FlowInv
<1>2. broken' = TRUE /\ UNCHANGED <<begun, readVars>>
  BY DEF Break
<1>3. PICK n \in 0 .. Len(stream) : stream' = SubSeq(stream, 1, n)
  BY DEF Break
<1>4. stream \in Seq(Nat)
  BY DEF ReadInv
<1>5. n \in Nat /\ n <= Len(stream)
  BY <1>4
<1> DEFINE b == SubSeq(stream, n + 1, Len(stream))
<1>6. stream' \in Seq(Nat) /\ b \in Seq(Nat) /\ stream' \o b = stream
  BY <1>3, <1>4, <1>5, FirstBytes, OtherBytes
<1> HIDE DEF b
<1>7. PICK q \in Seq(Nat) : q = b \o r
  BY <1>1, <1>6, BeginsConcat
<1>8. (stream' \o b) \o r = stream' \o (b \o r)
  BY <1>1, <1>6, Concat3
<1>9. stream' \o q = stream \o r
  BY <1>6, <1>7, <1>8
<1>10. ReadInv'
  BY <1>2, <1>6, ReadInvSame
<1>11. FlowInv'
  BY <1>1, <1>2, <1>7, <1>9, FlowSame
<1> QED
  BY <1>10, <1>11

-----------------------------------------------------------------------------
(* The flow of bytes, when something is read *)

\* The header at the front of the connection is that of the next frame.
LEMMA FlowReadHeader ==
    ASSUME ReadInv, FlowInv, ReadHeader
    PROVE  ReadInv' /\ FlowInv'
<1> DEFINE R == Len(received)
           N == Len(begun)
           m == begun[R + 1]
           h == Header(m.type, encode(m))
           x == SubSeq(stream, 1, 5)
           y == SubSeq(stream, 6, Len(stream))
<1>1. PICK f, r : /\ Transcript(f) /\ r \in Seq(Nat)
                  /\ f[R] \o (header \o (stream \o r)) = f[N]
                  /\ ~broken => r = Pending
  BY DEF FlowInv
<1>2. /\ R \in 0 .. N /\ f[R] \in Seq(Nat) /\ f[N] \in Seq(Nat) /\ stream \in Seq(Nat)
  BY <1>1, FlowParts
<1>3. /\ begun \in Seq(Messages) /\ received \in Seq(Messages) /\ N \in Nat /\ R \in Nat
      /\ \A i \in 1 .. N : Allowed(begun[i])
  BY DEF ReadInv
<1>4. /\ header = <<>> /\ Len(stream) >= 5 /\ stream' = y
      /\ reader' = Verdict(x) /\ header' = IF Verdict(x) = "read" THEN x ELSE <<>>
      /\ UNCHANGED <<sendVars, broken, begun, received>>
  <2>1. ReadFull(stream, HeaderSize).ok /\ HeaderSize = 5 /\ Len(stream) \in Nat
    BY <1>2 DEF ReadHeader, HeaderSize
  <2>2. Len(stream) >= 5
    BY <2>1 DEF ReadFull, Failed
  <2>3. ReadFull(stream, HeaderSize).value = x /\ ReadFull(stream, HeaderSize).rest = y
    BY <2>1, <2>2 DEF ReadFull
  <2> QED
    BY <2>2, <2>3 DEF ReadHeader
<1> DEFINE rest == stream \o r
<1>5. rest \in Seq(Nat) /\ Len(rest) = Len(stream) + Len(r)
  BY <1>1, <1>2, BeginsConcat
<1>6. rest # <<>>
  <2>1. Len(stream) \in Nat /\ Len(r) \in Nat /\ Len(<<>>) = 0
    BY <1>1, <1>2
  <2> HIDE DEF rest
  <2> QED
    BY <1>4, <1>5, <2>1
<1>7. header \o rest = rest
  BY <1>4, <1>5, Empty
<1> HIDE DEF rest, x, y, h, m, R, N
<1>8. f[R] \o rest = f[N]
  BY <1>1, <1>7 DEF rest
<1>9. R < N /\ \E tail \in Seq(Nat) : rest = Frame(m) \o tail
  BY <1>1, <1>2, <1>3, <1>5, <1>6, <1>8, NextFrame DEF N, m
<1>10. PICK tail \in Seq(Nat) : rest = Frame(m) \o tail
  BY <1>9
<1>11. R + 1 \in 1 .. N
  BY <1>3, <1>9
<1>12. Allowed(m)
  BY <1>3, <1>11 DEF m
<1>13. h \in Seq(Nat) /\ Len(h) = 5 /\ Verdict(h) = "read" /\ encode(m) \in Seq(Nat)
  BY <1>12, HeaderOf, RoundTrip DEF h, Allowed
<1>14. PICK t \in Seq(Nat) : stream \o r = h \o t
  <2>1. encode(m) \o tail \in Seq(Nat)
    BY <1>13, BeginsConcat
  <2>2. (h \o encode(m)) \o tail = h \o (encode(m) \o tail)
    BY <1>13, Concat3
  <2> QED
    BY <1>10, <2>1, <2>2 DEF Frame, h, rest
<1>15. x = h
  <2>1. Len(h) <= Len(stream)
    BY <1>4, <1>13
  <2>2. SubSeq(stream, 1, Len(h)) = h
    BY <1>1, <1>2, <1>13, <1>14, <2>1, TwoCuts
  <2> QED
    BY <1>13, <2>2 DEF x
<1>16. y \in Seq(Nat) /\ x \o y = stream
  <2>1. SubSeq(stream, 5 + 1, Len(stream)) \in Seq(Nat)
        /\ SubSeq(stream, 1, 5) \o SubSeq(stream, 5 + 1, Len(stream)) = stream
    <3>1. 5 \in Nat /\ 5 <= Len(stream)
      BY <1>4
    <3> QED
      BY <1>2, <3>1, OtherBytes
  <2>2. 5 + 1 = 6
    OBVIOUS
  <2> QED
    BY <2>1, <2>2 DEF x, y
<1>17. reader' = "read" /\ header' = h /\ stream' = y /\ begun' = begun /\ received' = received
       /\ broken' = broken
  BY <1>4, <1>13, <1>15
<1>18. ReadInv'
  <2>1. /\ stream' \in Seq(Nat) /\ reader' \in {"read", "EOF"} /\ header' \in Seq(Nat)
    BY <1>13, <1>16, <1>17
  <2>2. Len(received') < Len(begun')
        /\ header' = Header(begun'[Len(received') + 1].type, encode(begun'[Len(received') + 1]))
    BY <1>9, <1>17 DEF h, m, R, N
  <2> QED
    BY <1>17, <2>1, <2>2 DEF ReadInv
<1>19. header' \o (stream' \o r) = header \o (stream \o r)
  <2>1. (h \o y) \o r = h \o (y \o r)
    <3>1. h \in Seq(Nat)
      BY <1>13
    <3>2. y \in Seq(Nat)
      BY <1>16
    <3>3. r \in Seq(Nat)
      BY <1>1
    <3> QED
      BY ONLY <3>1, <3>2, <3>3, Concat3, Zenon
  <2> QED
    BY <1>7, <1>15, <1>16, <1>17, <2>1 DEF rest
<1>20. Transcript(f)'
  BY <1>1, <1>17 DEF Transcript
<1>21. Pending' = Pending
  BY <1>4 DEF Pending, sendVars
<1>22. f[Len(received')] \o (header' \o (stream' \o r)) = f[Len(begun')] /\ (~broken' => r = Pending')
  BY <1>1, <1>17, <1>19, <1>21 DEF R, N
<1>23. FlowInv'
  BY <1>1, <1>20, <1>22 DEF FlowInv
<1> QED
  BY <1>18, <1>23

\* One more message received.
LEMMA Longer ==
    ASSUME NEW a \in Seq(Messages), NEW m \in Messages
    PROVE  /\ a \o <<m>> \in Seq(Messages) /\ Len(a \o <<m>>) = Len(a) + 1
           /\ \A i \in 1 .. Len(a) : (a \o <<m>>)[i] = a[i]
           /\ (a \o <<m>>)[Len(a) + 1] = m
BY SMT

\* The payload behind a header is that of the same frame.
LEMMA FlowReadPayload ==
    ASSUME ReadInv, FlowInv, ReadPayload
    PROVE  ReadInv' /\ FlowInv'
<1> DEFINE R == Len(received)
           N == Len(begun)
           m == begun[R + 1]
           e == encode(m)
           x == SubSeq(stream, 1, Len(e))
           y == SubSeq(stream, Len(e) + 1, Len(stream))
<1>1. PICK f, r : /\ Transcript(f) /\ r \in Seq(Nat)
                  /\ f[R] \o (header \o (stream \o r)) = f[N]
                  /\ ~broken => r = Pending
  BY DEF FlowInv
<1>2. /\ R \in 0 .. N /\ f[R] \in Seq(Nat) /\ f[N] \in Seq(Nat) /\ stream \in Seq(Nat)
      /\ header \in Seq(Nat)
  BY <1>1, FlowParts
<1>3. /\ begun \in Seq(Messages) /\ received \in Seq(Messages) /\ N \in Nat /\ R \in Nat
      /\ (\A i \in 1 .. N : Allowed(begun[i])) /\ \A i \in 1 .. R : received[i] = begun[i]
  BY DEF ReadInv
<1>4. /\ header # <<>> /\ R < N /\ header = Header(m.type, e)
  BY DEF ReadPayload, ReadInv
<1>5. R + 1 \in 1 .. N /\ R + 1 \in 0 .. N
  BY <1>3, <1>4
<1>6. Allowed(m) /\ m \in Messages
  BY <1>3, <1>5
<1>7. /\ e \in Seq(Nat) /\ Len(e) \in Nat /\ Size = Len(e) /\ header[5] = Code[m.type]
      /\ Decoded(Code[m.type], e) = {m} /\ SetToSeq({m}) = <<m>>
  <2>1. Sendable(m)
    BY <1>6 DEF Allowed
  <2>2. e \in Seq(Nat) /\ Len(e) \in Nat
    BY <2>1, RoundTrip
  <2>3. Decoded(Code[m.type], e) = {m} /\ SetToSeq({m}) = <<m>>
    BY <2>1, DecodedOnce
  <2>4. Size = Len(e) /\ header[5] = Code[m.type]
    <3>1. Uint(SubSeq(Header(m.type, e), 1, 4)) = Len(e) /\ Header(m.type, e)[5] = Code[m.type]
      BY <1>6, HeaderOf
    <3> HIDE DEF e, m
    <3> QED
      BY <1>4, <3>1 DEF Size
  <2> QED
    BY <2>2, <2>3, <2>4
<1> HIDE DEF e, m, N, R
<1>8. /\ Len(e) <= Len(stream) /\ stream' = y /\ header' = <<>>
      /\ received' = received \o SetToSeq(Decoded(header[5], x))
      /\ reader' = IF Decoded(header[5], x) = {} THEN "errInvalidPayload" ELSE "read"
      /\ UNCHANGED <<sendVars, broken, begun>>
  <2>1. Size <= Len(stream) /\ Len(stream) \in Nat
    BY <1>2 DEF ReadPayload
  <2>2. ReadFull(stream, Size).value = x /\ ReadFull(stream, Size).rest = y
    BY <1>7, <2>1 DEF ReadFull
  <2> QED
    BY <1>7, <2>1, <2>2 DEF ReadPayload
<1> DEFINE rest == header \o (stream \o r)
<1>9. stream \o r \in Seq(Nat)
  BY <1>1, <1>2, BeginsConcat
<1>10. rest \in Seq(Nat) /\ Len(rest) = Len(header) + Len(stream \o r)
  BY <1>2, <1>9, BeginsConcat
<1>11. rest # <<>>
  <2>1. Len(header) \in Nat /\ Len(stream \o r) \in Nat /\ Len(<<>>) = 0 /\ Len(header) # 0
    BY <1>2, <1>4, <1>9
  <2> HIDE DEF rest
  <2> QED
    BY <1>10, <2>1
<1> HIDE DEF rest, x, y
<1>12. f[R] \o rest = f[N]
  BY <1>1 DEF rest
<1>13. PICK tail \in Seq(Nat) : rest = Frame(m) \o tail /\ f[R + 1] \o tail = f[N]
  BY <1>1, <1>2, <1>3, <1>10, <1>11, <1>12, NextFrame DEF N, m
<1>14. stream \o r = e \o tail
  <2>1. e \o tail \in Seq(Nat)
    BY <1>7, BeginsConcat
  <2>2. (header \o e) \o tail = header \o (e \o tail)
    <3>1. header \in Seq(Nat)
      BY <1>2
    <3>2. e \in Seq(Nat)
      BY <1>7
    <3>3. tail \in Seq(Nat)
      OBVIOUS
    <3> QED
      BY ONLY <3>1, <3>2, <3>3, Concat3, Zenon
  <2>3. header \o (stream \o r) = header \o (e \o tail)
    BY <1>4, <1>13, <2>2 DEF Frame, rest, e
  <2> QED
    BY <1>2, <1>9, <2>1, <2>3, Cancel
<1>15. x = e
  <2>1. SubSeq(stream, 1, Len(e)) = e
    BY <1>1, <1>2, <1>7, <1>8, <1>14, TwoCuts
  <2> QED
    BY <2>1 DEF x
<1>16. y \in Seq(Nat) /\ x \o y = stream
  BY <1>2, <1>7, <1>8, OtherBytes DEF x, y
<1>17. y \o r \in Seq(Nat)
  BY <1>1, <1>16, BeginsConcat
<1>18. y \o r = tail
  <2>1. (e \o y) \o r = e \o (y \o r)
    BY <1>1, <1>7, <1>16, Concat3
  <2>2. e \o (y \o r) = e \o tail
    BY <1>14, <1>15, <1>16, <2>1, Zenon
  <2> QED
    BY <1>7, <1>17, <2>2, Cancel
<1>19. received' = received \o <<m>> /\ reader' = "read"
  BY <1>7, <1>8, <1>15
<1>20. /\ received' \in Seq(Messages) /\ Len(received') = R + 1
       /\ (\A i \in 1 .. R : received'[i] = received[i]) /\ received'[R + 1] = m
  BY <1>3, <1>6, <1>19, Longer DEF R
<1>21. begun' = begun /\ broken' = broken
  BY <1>8
<1>22. ReadInv'
  <2>1. \A i \in 1 .. R + 1 : i \in 1 .. R \/ i = R + 1
    BY <1>3
  <2>2. \A i \in 1 .. R + 1 : received'[i] = begun[i]
    BY <1>3, <1>20, <2>1 DEF m
  <2>3. Len(received') <= Len(begun')
    BY <1>3, <1>4, <1>20, <1>21 DEF N
  <2>4. stream' \in Seq(Nat) /\ header' \in Seq(Nat) /\ reader' \in {"read", "EOF"}
        /\ header' = <<>>
    BY <1>8, <1>16, <1>19, Empty
  <2> QED
    BY <1>20, <1>21, <2>2, <2>3, <2>4 DEF ReadInv
<1>23. header' \o (stream' \o r) = tail
  BY <1>8, <1>17, <1>18, Empty
<1>24. Transcript(f)'
  BY <1>1, <1>21 DEF Transcript
<1>25. Pending' = Pending
  BY <1>8 DEF Pending, sendVars
<1>26. f[Len(received')] \o (header' \o (stream' \o r)) = f[Len(begun')] /\ (~broken' => r = Pending')
  BY <1>1, <1>13, <1>20, <1>21, <1>23, <1>25 DEF N
<1>27. FlowInv'
  BY <1>1, <1>24, <1>26 DEF FlowInv
<1> QED
  BY <1>22, <1>27

\* The end of the connection moves no bytes.
LEMMA FlowReadFails ==
    ASSUME ReadInv, FlowInv, ReadFails
    PROVE  ReadInv' /\ FlowInv'
<1>1. reader' = "EOF" /\ UNCHANGED <<sendVars, stream, broken, begun, header, received>>
  BY DEF ReadFails
<1>2. ReadInv'
  BY <1>1 DEF ReadInv
<1>3. Pending' = Pending
  BY <1>1 DEF Pending, sendVars
<1>4. FlowInv'
  BY <1>1, <1>3 DEF FlowInv, Transcript
<1> QED
  BY <1>2, <1>4

-----------------------------------------------------------------------------
(* The theorem *)

\* The inductive invariant: senders, reader and the bytes between them.
WireInv == SendInv /\ ReadInv /\ FlowInv

\* Every step of a sender keeps the invariant.
LEMMA SendStepInv ==
    ASSUME WireInv, NEW s \in Senders, SendStep(s)
    PROVE  WireInv'
<1> USE DEF WireInv
<1>1. CASE Refuse(s)
  <2>1. SendInv' /\ Pending' = Pending
    BY <1>1, SendInvRefuse
  <2>2. UNCHANGED <<begun, readVars, stream, broken>>
    BY <1>1 DEF Refuse
  <2> QED
    BY <2>1, <2>2, FlowStill
<1>2. CASE Begin(s)
  BY <1>2, SendInvBegin, FlowBegin
<1>3. CASE HeaderDone(s)
  <2>1. SendInv' /\ Pending' = Pending
    BY <1>3, SendInvHeaderDone
  <2>2. UNCHANGED <<begun, readVars, stream, broken>>
    BY <1>3 DEF HeaderDone
  <2> QED
    BY <2>1, <2>2, FlowStill
<1>4. CASE PayloadDone(s) \/ WriteFails(s)
  <2>1. SendInv' /\ Pending' = <<>> /\ (~broken => Pending = <<>>)
    BY <1>4, SendInvEnds
  <2>2. UNCHANGED <<begun, readVars, stream, broken>>
    BY <1>4 DEF PayloadDone, WriteFails
  <2>3. ~broken => Pending' = Pending
    BY <2>1
  <2> QED
    BY <2>1, <2>2, <2>3, FlowStill
<1>5. ASSUME NEW n, Writes(s, n)
      PROVE  WireInv'
  <2>1. n \in 1 .. Len(left[s])
    BY <1>5 DEF Writes
  <2> QED
    BY <1>5, <2>1, SendInvWrites, FlowWrites
<1> QED
  BY <1>1, <1>2, <1>3, <1>4, <1>5 DEF SendStep

\* Every step keeps it.
LEMMA WireNext ==
    ASSUME WireInv, [Next]_vars
    PROVE  WireInv'
<1>1. CASE ReadStep
  <2>1. ReadInv' /\ FlowInv'
    BY <1>1, FlowReadHeader, FlowReadPayload, FlowReadFails DEF ReadStep, WireInv
  <2>2. UNCHANGED sendVars
    BY <1>1 DEF ReadStep, ReadHeader, ReadPayload, ReadFails
  <2>3. SendInv'
    BY <2>2 DEF SendInv, sendVars, WireInv
  <2> QED
    BY <2>1, <2>3 DEF WireInv
<1>2. CASE Break
  <2>1. ReadInv' /\ FlowInv'
    BY <1>2, FlowBreak DEF WireInv
  <2>2. UNCHANGED sendVars
    BY <1>2 DEF Break
  <2>3. SendInv'
    BY <2>2 DEF SendInv, sendVars, WireInv
  <2> QED
    BY <2>1, <2>3 DEF WireInv
<1>3. ASSUME NEW s \in Senders, SendStep(s)
      PROVE  WireInv'
  BY <1>3, SendStepInv
<1>4. CASE UNCHANGED vars
  <2>1. UNCHANGED <<begun, readVars, stream, broken, sendVars>>
    BY <1>4 DEF vars
  <2>2. Pending' = Pending
    BY <2>1 DEF Pending, sendVars
  <2>3. ReadInv' /\ FlowInv'
    BY <2>1, <2>2, FlowStill DEF WireInv
  <2>4. SendInv'
    BY <2>1 DEF SendInv, sendVars, WireInv
  <2> QED
    BY <2>3, <2>4 DEF WireInv
<1> QED
  BY <1>1, <1>2, <1>3, <1>4 DEF Next

\* The reader's part gives the property.
LEMMA ReadIntact == ReadInv => FramesIntact
<1> SUFFICES ASSUME ReadInv PROVE FramesIntact
  OBVIOUS
<1> DEFINE R == Len(received)
           N == Len(begun)
<1>1. /\ begun \in Seq(Messages) /\ received \in Seq(Messages) /\ R \in Nat /\ N \in Nat
      /\ R <= N /\ \A i \in 1 .. N : Allowed(begun[i])
      /\ \A i \in 1 .. R : received[i] = begun[i]
      /\ reader \in {"read", "EOF"}
  BY DEF ReadInv
<1>2. IsPrefix(received, begun)
  <2>1. SubSeq(begun, 1, R) \in Seq(Messages) /\ Len(SubSeq(begun, 1, R)) = R
        /\ \A i \in 1 .. R : SubSeq(begun, 1, R)[i] = begun[i]
    BY <1>1
  <2>2. received = SubSeq(begun, 1, R)
    BY <1>1, <2>1, SeqEqual
  <2> QED
    BY <1>1, <2>2 DEF IsPrefix
<1>3. OnlyReading
  <2> SUFFICES ASSUME received # <<>>
      PROVE  LET m == Last(received) IN
             \A p \in {encode(m)} :
               /\ \A n \in 0 .. Len(p) - 1 : ~CanDecode(m.type, SubSeq(p, 1, n))
               /\ \A byte \in 0 .. Radix - 1 : ~CanDecode(m.type, Append(p, byte))
    BY DEF OnlyReading
  <2>1. R \in 1 .. R /\ R \in 1 .. N /\ Last(received) = received[R]
    BY <1>1 DEF Last
  <2>2. Sendable(Last(received))
    BY <1>1, <2>1 DEF Allowed
  <2> QED
    BY <2>2, NoOtherReading
<1> QED
  BY <1>1, <1>2, <1>3 DEF FramesIntact

\* Whatever the senders send, and wherever the connection breaks, the reader decodes
\* the messages whose frames were begun, in that order, and stops only at the end
\* of the connection: the write mutex around WriteFrame keeps frames whole, and
\* ReadFrame and the decoders find where each ends.
THEOREM FramesIntactHolds == Spec => []FramesIntact
<1>1. Init => WireInv
  BY WireInit DEF WireInv
<1>2. WireInv /\ [Next]_vars => WireInv'
  BY WireNext
<1>3. WireInv => FramesIntact
  BY ReadIntact DEF WireInv
<1> QED
  BY <1>1, <1>2, <1>3, PTL DEF Spec
=============================================================================
