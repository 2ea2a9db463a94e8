---------------------------- MODULE DriverProofs ----------------------------
(* Message tracing and the driver's life, for buffers of every size, every   *)
(* set of messages and every order of loads, unloads, sends and reads: who   *)
(* completes the reader's IRP, that no message is left behind, that the      *)
(* rings are queues, and that handlers find what they use.                   *)
EXTENDS Driver, FiniteSetTheorems, TLAPS

-----------------------------------------------------------------------------
(* The rings                                                                 *)

\* Positions are counted around the ring.
Wrap(r, a) == IF a < Size(r) THEN a ELSE a - Size(r)

\* The n messages of ring r are in the n buffers from the send index on, and the
\* next one goes behind them.
Shape(r, n) ==
  /\ n \in 0 .. Size(r)
  /\ \A k \in 0 .. Size(r) - 1 : slots[r][Wrap(r, send[r] + k)] # Empty <=> k < n
  /\ Wrap(r, send[r] + n) = WriteIndex(r)

RingsOK == \A r \in Rings : \E n \in 0 .. Size(r) : Shape(r, n)

\* The types that the ring operations need.
LogTypes ==
  /\ DOMAIN slots = Rings /\ write \in [Rings -> Nat] /\ send \in [Rings -> Nat]
  /\ \A r \in Rings : /\ slots[r] \in [0 .. Size(r) - 1 -> Messages \cup {Empty}]
                     /\ write[r] \in 0 .. Size(r)
                     /\ send[r] \in 0 .. Size(r) - 1

\* Both kinds of ring have room for two messages at least.
LEMMA Sizes ==
  ASSUME NEW r \in Rings
  PROVE  Size(r) \in Nat /\ Size(r) >= 2 /\ Empty \notin Messages
BY LogAssumption, Zenon DEF Size, Messages, Empty, Batch, EndOfIrps, Loaded

\* The code's remainders are one turn around the ring.
LEMMA Remainder ==
  ASSUME NEW S \in Nat, S > 0, NEW a \in Nat, a < S + S
  PROVE  a % S = IF a < S THEN a ELSE a - S
OBVIOUS

\* The remainder of an index that is at most one turn ahead.
LEMMA Turn ==
  ASSUME NEW r \in Rings, NEW s \in 0 .. Size(r) - 1, NEW k \in 0 .. Size(r)
  PROVE  (s + k) % Size(r) = Wrap(r, s + k)
<1>1. Size(r) \in Nat /\ Size(r) > 0 /\ s + k \in Nat /\ s + k < Size(r) + Size(r)
  BY Sizes
<1> QED  BY <1>1, Remainder, Zenon DEF Wrap

\* How far a buffer is from the send index, computed as a remainder.
LEMMA Distance ==
  ASSUME NEW r \in Rings, NEW s \in 0 .. Size(r) - 1, NEW k \in 0 .. Size(r) - 1
  PROVE  (Wrap(r, s + k) + (Size(r) - s)) % Size(r) = k
<1> DEFINE a == Wrap(r, s + k) + (Size(r) - s)
<1>1. /\ Size(r) \in Nat /\ Size(r) > 0 /\ a \in Nat /\ a < Size(r) + Size(r)
      /\ k = IF a < Size(r) THEN a ELSE a - Size(r)
  BY Sizes DEF Wrap
<1> HIDE DEF a
<1>2. a % Size(r) = k
  BY <1>1, Remainder, Zenon
<1> QED  BY <1>2, Zenon DEF a

\* The index behind the run of messages, as LogSendBuffer's test for the end gives it.
LEMMA NextIndex ==
  ASSUME NEW r \in Rings, NEW s \in 0 .. Size(r) - 1, NEW n \in 0 .. Size(r) - 1
  PROVE  Wrap(r, s + (n + 1)) =
           IF Wrap(r, s + n) + 1 > Size(r) - 1 THEN 0 ELSE Wrap(r, s + n) + 1
BY Sizes DEF Wrap

\* Every buffer is at one distance from the send index.
LEMMA Around ==
  ASSUME LogTypes, NEW r \in Rings
  PROVE  /\ \A k \in 0 .. Size(r) : Wrap(r, send[r] + k) \in 0 .. Size(r) - 1
         /\ \A k, j \in 0 .. Size(r) - 1 : Wrap(r, send[r] + k) = Wrap(r, send[r] + j) => k = j
         /\ \A i \in 0 .. Size(r) - 1 : \E k \in 0 .. Size(r) - 1 : i = Wrap(r, send[r] + k)
         /\ Wrap(r, send[r] + Size(r)) = send[r] /\ Wrap(r, send[r] + 0) = send[r]
<1>1. Size(r) \in Nat /\ Size(r) >= 2 /\ send[r] \in 0 .. Size(r) - 1
  BY Sizes, Zenon DEF LogTypes
<1>2. ASSUME NEW i \in 0 .. Size(r) - 1
      PROVE  \E k \in 0 .. Size(r) - 1 : i = Wrap(r, send[r] + k)
  <2>1. CASE send[r] <= i
    <3>1. i - send[r] \in 0 .. Size(r) - 1 /\ i = Wrap(r, send[r] + (i - send[r]))
      BY <1>1, <2>1 DEF Wrap
    <3> QED  BY <3>1, Zenon
  <2>2. CASE i < send[r]
    <3>1. /\ i + Size(r) - send[r] \in 0 .. Size(r) - 1
          /\ i = Wrap(r, send[r] + (i + Size(r) - send[r]))
      BY <1>1, <2>2 DEF Wrap
    <3> QED  BY <3>1, Zenon
  <2> QED  BY <1>1, <2>1, <2>2
<1>3. \A k \in 0 .. Size(r) : Wrap(r, send[r] + k) \in 0 .. Size(r) - 1
  BY <1>1 DEF Wrap
<1>4. \A k, j \in 0 .. Size(r) - 1 : Wrap(r, send[r] + k) = Wrap(r, send[r] + j) => k = j
  BY <1>1 DEF Wrap
<1>5. Wrap(r, send[r] + Size(r)) = send[r] /\ Wrap(r, send[r] + 0) = send[r]
  BY <1>1 DEF Wrap
<1> QED  BY <1>2, <1>3, <1>4, <1>5, Zenon

\* A ring that no step touches.
SameRing(r) == slots'[r] = slots[r] /\ write'[r] = write[r] /\ send'[r] = send[r]

OneRing(r, x, y, z) ==
  /\ slots' = [slots EXCEPT ![r] = x] /\ write' = [write EXCEPT ![r] = y]
  /\ send' = [send EXCEPT ![r] = z]

\* The types after a step that touches one ring.
LEMMA TypesOfOne ==
  ASSUME LogTypes, NEW r \in Rings, NEW x \in [0 .. Size(r) - 1 -> Messages \cup {Empty}],
         NEW y \in 0 .. Size(r), NEW z \in 0 .. Size(r) - 1,
         OneRing(r, x, y, z)
  PROVE  /\ LogTypes' /\ \A q \in Rings \ {r} : SameRing(q)
         /\ slots'[r] = x /\ write'[r] = y /\ send'[r] = z
<1>1. y \in Nat /\ z \in Nat
  BY Sizes
<1>2. DOMAIN slots' = Rings /\ write' \in [Rings -> Nat] /\ send' \in [Rings -> Nat]
  BY <1>1, Zenon DEF LogTypes, OneRing
<1>3. slots'[r] = x /\ write'[r] = y /\ send'[r] = z
  BY Zenon DEF LogTypes, OneRing
<1>4. \A q \in Rings \ {r} : SameRing(q)
  BY Zenon DEF LogTypes, SameRing, OneRing
<1>5. ASSUME NEW q \in Rings
      PROVE  /\ slots'[q] \in [0 .. Size(q) - 1 -> Messages \cup {Empty}]
             /\ write'[q] \in 0 .. Size(q) /\ send'[q] \in 0 .. Size(q) - 1
  <2>1. CASE q = r
    BY <1>3, <2>1, Zenon
  <2>2. CASE q # r
    BY <1>4, <2>2, Zenon DEF SameRing, LogTypes
  <2> QED  BY <2>1, <2>2, Zenon
<1> QED  BY <1>2, <1>3, <1>4, <1>5, Zenon DEF LogTypes, Size

\* LogSendBuffer keeps the types and touches one ring.
LEMMA SentTypes ==
  ASSUME LogTypes, NEW r \in Rings, NEW m \in Messages, LogSendBuffer(r, m)
  PROVE  /\ LogTypes' /\ \A q \in Rings \ {r} : SameRing(q)
         /\ WriteIndex(r) \in 0 .. Size(r) - 1
         /\ slots'[r] = [slots[r] EXCEPT ![WriteIndex(r)] = m]
         /\ write'[r] = WriteIndex(r) + 1
<1>1. /\ Size(r) \in Nat /\ Size(r) >= 2 /\ send[r] \in 0 .. Size(r) - 1
      /\ write[r] \in 0 .. Size(r) /\ slots[r] \in [0 .. Size(r) - 1 -> Messages \cup {Empty}]
  BY Sizes, Zenon DEF LogTypes
<1>2. WriteIndex(r) \in 0 .. Size(r) - 1 /\ WriteIndex(r) + 1 \in 0 .. Size(r)
  BY <1>1 DEF WriteIndex
<1>3. [slots[r] EXCEPT ![WriteIndex(r)] = m] \in [0 .. Size(r) - 1 -> Messages \cup {Empty}]
  BY <1>1, Zenon
<1> DEFINE x == [slots[r] EXCEPT ![WriteIndex(r)] = m]
           y == WriteIndex(r) + 1
<1>4. OneRing(r, x, y, send[r])
  BY Zenon DEF LogTypes, LogSendBuffer, OneRing
<1>5. x \in [0 .. Size(r) - 1 -> Messages \cup {Empty}] /\ y \in 0 .. Size(r)
  BY <1>2, <1>3, Zenon
<1> HIDE DEF x, y
<1>6. LogTypes' /\ (\A q \in Rings \ {r} : SameRing(q)) /\ slots'[r] = x /\ write'[r] = y
  BY <1>1, <1>4, <1>5, TypesOfOne, Zenon
<1> QED  BY <1>2, <1>6, Zenon DEF x, y

\* So does LogReadBuffer.
LEMMA TakenTypes ==
  ASSUME LogTypes, NEW r \in Rings, Take(r)
  PROVE  /\ LogTypes' /\ \A q \in Rings \ {r} : SameRing(q)
         /\ slots'[r] = [slots[r] EXCEPT ![send[r]] = Empty]
         /\ send'[r] = Advanced(r)
<1>1. /\ Size(r) \in Nat /\ Size(r) >= 2 /\ send[r] \in 0 .. Size(r) - 1
      /\ write[r] \in 0 .. Size(r) /\ slots[r] \in [0 .. Size(r) - 1 -> Messages \cup {Empty}]
  BY Sizes, Zenon DEF LogTypes
<1>2. Advanced(r) \in 0 .. Size(r) - 1
  BY <1>1 DEF Advanced
<1>3. [slots[r] EXCEPT ![send[r]] = Empty] \in [0 .. Size(r) - 1 -> Messages \cup {Empty}]
  BY <1>1, Zenon
<1>4. OneRing(r, [slots[r] EXCEPT ![send[r]] = Empty], write[r], Advanced(r))
  BY Zenon DEF LogTypes, Take, OneRing
<1> QED  BY <1>1, <1>2, <1>3, <1>4, TypesOfOne, Zenon

\* So does LogMarkAllAsRead.
LEMMA ClearedTypes ==
  ASSUME LogTypes, NEW p \in Pools, LogMarkAllAsRead(p), NEW r \in Rings, r = <<p, FALSE>>
  PROVE  /\ LogTypes' /\ \A q \in Rings \ {r} : SameRing(q)
         /\ slots'[r] = [i \in 0 .. Size(r) - 1 |->
                 IF (i + (Size(r) - send[r])) % Size(r) < Marked(r) THEN Empty ELSE slots[r][i]]
         /\ send'[r] = (send[r] + Marked(r)) % Size(r) /\ write'[r] = write[r]
<1> DEFINE x == [i \in 0 .. Size(r) - 1 |->
                   IF (i + (Size(r) - send[r])) % Size(r) < Marked(r) THEN Empty ELSE slots[r][i]]
           z == (send[r] + Marked(r)) % Size(r)
<1>1. /\ Size(r) \in Nat /\ Size(r) >= 2 /\ send[r] \in 0 .. Size(r) - 1
      /\ write[r] \in 0 .. Size(r) /\ slots[r] \in [0 .. Size(r) - 1 -> Messages \cup {Empty}]
  BY Sizes, Zenon DEF LogTypes
<1>2. Marked(r) \in Nat
  <2> DEFINE S == 0 .. Size(r) - 1
             M == {n \in S : \A k \in 0 .. n : slots[r][(send[r] + k) % Size(r)] # Empty}
  <2>1. 0 \in Int /\ Size(r) - 1 \in Int
    BY <1>1
  <2>2. IsFiniteSet(S)
    BY <2>1, FS_Interval, Zenon
  <2>3. IsFiniteSet(M)
    <3>1. M \subseteq S
      BY Zenon
    <3> HIDE DEF M, S
    <3> QED  BY <2>2, <3>1, FS_Subset, Zenon
  <2>4. Cardinality(M) \in Nat
    <3> HIDE DEF M
    <3> QED  BY <2>3, FS_CardinalityType, Zenon
  <2> QED  BY <2>4, Zenon DEF Marked
<1>3. x \in [0 .. Size(r) - 1 -> Messages \cup {Empty}]
  BY <1>1, Zenon
<1>4. z \in 0 .. Size(r) - 1
  BY <1>1, <1>2
<1>5. OneRing(r, x, write[r], z)
  BY <1>1, Zenon DEF LogMarkAllAsRead, LogTypes, OneRing
<1> HIDE DEF x, z
<1>7. /\ LogTypes' /\ \A q \in Rings \ {r} : SameRing(q)
      /\ slots'[r] = x /\ send'[r] = z /\ write'[r] = write[r]
  BY <1>1, <1>3, <1>4, <1>5, TypesOfOne, Zenon
<1> QED  BY <1>7, Zenon DEF x, z

\* A ring that no step touches keeps its shape.
LEMMA RingKept ==
  ASSUME NEW r \in Rings, NEW n, Shape(r, n), SameRing(r)
  PROVE  Shape(r, n)'
BY Zenon DEF Shape, SameRing, WriteIndex, Wrap, Size

\* LogSendBuffer: the message goes behind the others.
LEMMA Written ==
  ASSUME LogTypes, NEW r \in Rings, NEW n \in 0 .. Size(r), Shape(r, n), NEW m \in Messages,
         LogSendBuffer(r, m), slots[r][WriteIndex(r)] = Empty
  PROVE  /\ n < Size(r) /\ Shape(r, n + 1)'
         /\ slots'[r][Wrap(r, send[r] + n)] = m
         /\ \A k \in 0 .. n - 1 : slots'[r][Wrap(r, send[r] + k)] = slots[r][Wrap(r, send[r] + k)]
<1> DEFINE w == WriteIndex(r)
<1>1. /\ Size(r) \in Nat /\ Size(r) >= 2 /\ send[r] \in 0 .. Size(r) - 1 /\ Empty \notin Messages
      /\ write[r] \in 0 .. Size(r) /\ slots[r] \in [0 .. Size(r) - 1 -> Messages \cup {Empty}]
  BY Sizes, Zenon DEF LogTypes
<1>2. w \in 0 .. Size(r) - 1 /\ w = Wrap(r, send[r] + n)
  BY <1>1 DEF WriteIndex, Shape
<1>3. n < Size(r)
  <2> SUFFICES ASSUME n = Size(r) PROVE FALSE
    BY <1>1
  <2>1. w = Wrap(r, send[r] + 0)
    BY <1>2, Around, Zenon
  <2> QED  BY <1>1, <2>1 DEF Shape
<1>4. slots'[r] = [slots[r] EXCEPT ![w] = m] /\ write'[r] = w + 1 /\ send' = send
  BY SentTypes, Zenon DEF LogSendBuffer
<1>8. ASSUME NEW k \in 0 .. Size(r) - 1
      PROVE  slots'[r][Wrap(r, send[r] + k)] =
               IF k = n THEN m ELSE slots[r][Wrap(r, send[r] + k)]
  <2>1. Wrap(r, send[r] + k) \in 0 .. Size(r) - 1 /\ (Wrap(r, send[r] + k) = w <=> k = n)
    <3>1. n \in 0 .. Size(r) - 1 /\ k \in 0 .. Size(r)
      BY <1>1, <1>3
    <3> QED  BY <1>2, <3>1, Around
  <2> HIDE DEF w
  <2> QED  BY <1>1, <1>4, <2>1, Zenon
<1>9. Shape(r, n + 1)'
  <2>1. n + 1 \in 0 .. Size(r)
    BY <1>1, <1>3
  <2>2. \A k \in 0 .. Size(r) - 1 : slots'[r][Wrap(r, send[r] + k)] # Empty <=> k < n + 1
    <3> SUFFICES ASSUME NEW k \in 0 .. Size(r) - 1
                 PROVE  slots'[r][Wrap(r, send[r] + k)] # Empty <=> k < n + 1
      BY Zenon
    <3>1. /\ k # n => (k < n + 1 <=> k < n)
          /\ k = n => k < n + 1
      BY <1>1, <1>3
    <3>2. slots[r][Wrap(r, send[r] + k)] # Empty <=> k < n
      BY Zenon DEF Shape
    <3>3. m # Empty
      BY <1>1, Zenon
    <3> QED  BY <1>8, <3>1, <3>2, <3>3, Zenon
  <2>3. Wrap(r, send[r] + (n + 1)) = WriteIndex(r)'
    <3>1. WriteIndex(r)' = IF write'[r] > Size(r) - 1 THEN 0 ELSE write'[r]
      BY Zenon DEF WriteIndex, Size
    <3> HIDE DEF w
    <3>2. n \in 0 .. Size(r) - 1
      BY <1>1, <1>3
    <3>3. Wrap(r, send[r] + (n + 1)) = IF w + 1 > Size(r) - 1 THEN 0 ELSE w + 1
      BY <1>1, <1>2, <3>2, NextIndex, Zenon
    <3> QED  BY <1>4, <3>1, <3>3, Zenon
  <2> QED  BY <1>4, <2>1, <2>2, <2>3, Zenon DEF Shape, Wrap, Size
<1>10. slots'[r][Wrap(r, send[r] + n)] = m
  BY <1>1, <1>3, <1>8
<1>11. \A k \in 0 .. n - 1 : slots'[r][Wrap(r, send[r] + k)] = slots[r][Wrap(r, send[r] + k)]
  <2> SUFFICES ASSUME NEW k \in 0 .. n - 1
               PROVE  slots'[r][Wrap(r, send[r] + k)] = slots[r][Wrap(r, send[r] + k)]
    BY Zenon
  <2>1. k \in 0 .. Size(r) - 1 /\ k # n
    BY <1>1, <1>3
  <2> QED  BY <1>8, <2>1, Zenon
<1> QED  BY <1>3, <1>9, <1>10, <1>11, Zenon

\* The send index after LogReadBuffer, and the distances from it.
LEMMA Onward ==
  ASSUME NEW r \in Rings, NEW s \in 0 .. Size(r) - 1
  PROVE  /\ Wrap(r, s + 1) = IF s > Size(r) - 2 THEN 0 ELSE s + 1
         /\ Wrap(r, s + 1) \in 0 .. Size(r) - 1
         /\ \A k \in 0 .. Size(r) - 1 : Wrap(r, Wrap(r, s + 1) + k) = Wrap(r, s + (k + 1))
BY Sizes DEF Wrap

\* LogReadBuffer: the oldest message goes.
LEMMA Taken ==
  ASSUME LogTypes, NEW r \in Rings, NEW n \in 0 .. Size(r), Shape(r, n),
         LogCheckForNewMessage(r), Take(r)
  PROVE  /\ n > 0 /\ Shape(r, n - 1)'
         /\ \A k \in 0 .. Size(r) - 1 : Wrap(r, send'[r] + k) = Wrap(r, send[r] + (k + 1))
         /\ \A k \in 1 .. Size(r) - 1 :
              slots'[r][Wrap(r, send[r] + k)] = slots[r][Wrap(r, send[r] + k)]
<1>1. /\ Size(r) \in Nat /\ Size(r) >= 2 /\ send[r] \in 0 .. Size(r) - 1
      /\ slots[r] \in [0 .. Size(r) - 1 -> Messages \cup {Empty}]
  BY Sizes, Zenon DEF LogTypes
<1>2. slots'[r] = [slots[r] EXCEPT ![send[r]] = Empty]
  BY TakenTypes, Zenon
<1>3. send'[r] = Wrap(r, send[r] + 1)
  BY <1>1, Onward, TakenTypes, Zenon DEF Advanced
<1>5. send'[r] \in 0 .. Size(r) - 1
      /\ \A k \in 0 .. Size(r) - 1 : Wrap(r, send'[r] + k) = Wrap(r, send[r] + (k + 1))
  BY <1>1, <1>3, Onward
<1>6. n > 0
  <2>1. 0 \in 0 .. Size(r) - 1 /\ Wrap(r, send[r] + 0) = send[r]
    BY <1>1, Around
  <2> QED  BY <2>1, Zenon DEF Shape, LogCheckForNewMessage
<1>8. ASSUME NEW k \in 0 .. Size(r)
      PROVE  slots'[r][Wrap(r, send[r] + k)] =
               IF k \in {0, Size(r)} THEN Empty ELSE slots[r][Wrap(r, send[r] + k)]
  <2>1. Wrap(r, send[r] + k) \in 0 .. Size(r) - 1 /\ (Wrap(r, send[r] + k) = send[r] <=> k \in {0, Size(r)})
    <3>1. /\ 0 \in 0 .. Size(r) - 1
          /\ k = Size(r) \/ k \in 0 .. Size(r) - 1
      BY <1>1
    <3> QED  BY <3>1, Around, Zenon
  <2> QED  BY <1>1, <1>2, <2>1, Zenon
<1>9. \A k \in 1 .. Size(r) - 1 :
        slots'[r][Wrap(r, send[r] + k)] = slots[r][Wrap(r, send[r] + k)]
  <2> SUFFICES ASSUME NEW k \in 1 .. Size(r) - 1
               PROVE  slots'[r][Wrap(r, send[r] + k)] = slots[r][Wrap(r, send[r] + k)]
    BY Zenon
  <2>1. k \in 0 .. Size(r) /\ k \notin {0, Size(r)}
    BY <1>1
  <2> QED  BY <1>8, <2>1, Zenon
<1>10. Shape(r, n - 1)'
  <2>1. n - 1 \in 0 .. Size(r) /\ n - 1 \in 0 .. Size(r) - 1 /\ (n - 1) + 1 = n
    BY <1>1, <1>6
  <2>2. ASSUME NEW k \in 0 .. Size(r) - 1
        PROVE  slots'[r][Wrap(r, send'[r] + k)] # Empty <=> k < n - 1
    <3>1. k + 1 \in 0 .. Size(r) /\ (k < n - 1 <=> k + 1 < n) /\ k + 1 # 0
      BY <1>1, <1>6
    <3>2. slots'[r][Wrap(r, send'[r] + k)] =
            IF k + 1 = Size(r) THEN Empty ELSE slots[r][Wrap(r, send[r] + (k + 1))]
      BY <1>5, <1>8, <3>1, Zenon
    <3>3. CASE k + 1 = Size(r)
      BY <1>1, <3>1, <3>2, <3>3
    <3>4. CASE k + 1 # Size(r)
      <4>1. k + 1 \in 0 .. Size(r) - 1
        BY <1>1, <3>4
      <4> QED  BY <3>1, <3>2, <3>4, <4>1, Zenon DEF Shape
    <3> QED  BY <3>3, <3>4, Zenon
  <2>3. Wrap(r, send'[r] + (n - 1)) = WriteIndex(r)
    BY <1>5, <2>1, Zenon DEF Shape
  <2> QED  BY <2>1, <2>2, <2>3, Zenon DEF Shape, Wrap, Size, WriteIndex, Take
<1> QED  BY <1>5, <1>6, <1>9, <1>10, Zenon

\* LogMarkAllAsRead counts the messages of the ring.
LEMMA MarkedAll ==
  ASSUME LogTypes, NEW r \in Rings, NEW n \in 0 .. Size(r), Shape(r, n)
  PROVE  Marked(r) = n
<1> DEFINE M == {j \in 0 .. Size(r) - 1 : \A k \in 0 .. j : slots[r][(send[r] + k) % Size(r)] # Empty}
<1>1. Size(r) \in Nat /\ Size(r) >= 2 /\ send[r] \in 0 .. Size(r) - 1
  BY Sizes, Zenon DEF LogTypes
<1>2. \A k \in 0 .. Size(r) - 1 : slots[r][(send[r] + k) % Size(r)] # Empty <=> k < n
  <2> SUFFICES ASSUME NEW k \in 0 .. Size(r) - 1
               PROVE  slots[r][(send[r] + k) % Size(r)] # Empty <=> k < n
    BY Zenon
  <2>1. k \in 0 .. Size(r)
    BY <1>1
  <2>2. (send[r] + k) % Size(r) = Wrap(r, send[r] + k)
    BY <1>1, <2>1, Turn, Zenon
  <2> QED  BY <2>2, Zenon DEF Shape
<1>3. M = 0 .. n - 1
  <2>1. ASSUME NEW j \in 0 .. Size(r) - 1
        PROVE  (\A k \in 0 .. j : slots[r][(send[r] + k) % Size(r)] # Empty) <=> j < n
    <3>1. j \in 0 .. j /\ 0 .. j \subseteq 0 .. Size(r) - 1 /\ \A k \in 0 .. j : j < n => k < n
      BY <1>1
    <3> QED  BY <1>2, <3>1, Zenon
  <2>2. \A j : j \in M <=> j \in 0 .. Size(r) - 1 /\ j < n
    BY <2>1, Zenon
  <2>3. \A j : j \in 0 .. n - 1 <=> j \in 0 .. Size(r) - 1 /\ j < n
    BY <1>1
  <2> QED  BY <2>2, <2>3, Zenon
<1>4. Cardinality(0 .. n - 1) = n
  <2>1. 0 \in Int /\ n - 1 \in Int /\ n \in Nat
    BY <1>1
  <2>2. Cardinality(0 .. n - 1) = IF 0 > n - 1 THEN 0 ELSE (n - 1) - 0 + 1
    BY <2>1, FS_Interval, Zenon
  <2> QED  BY <2>1, <2>2
<1> QED  BY <1>3, <1>4, Zenon DEF Marked

\* LogMarkAllAsRead: the ring is empty afterwards.
LEMMA Cleared ==
  ASSUME LogTypes, NEW p \in Pools, NEW r \in Rings, r = <<p, FALSE>>,
         NEW n \in 0 .. Size(r), Shape(r, n), LogMarkAllAsRead(p)
  PROVE  Shape(r, 0)'
<1>1. /\ Size(r) \in Nat /\ Size(r) >= 2 /\ send[r] \in 0 .. Size(r) - 1
      /\ slots[r] \in [0 .. Size(r) - 1 -> Messages \cup {Empty}]
  BY Sizes, Zenon DEF LogTypes
<1>2. slots'[r] = [i \in 0 .. Size(r) - 1 |->
                     IF (i + (Size(r) - send[r])) % Size(r) < n THEN Empty ELSE slots[r][i]]
  <2>1. Marked(r) = n
    BY MarkedAll, Zenon
  <2> QED  BY <2>1, ClearedTypes, Zenon
<1>3. send'[r] = Wrap(r, send[r] + n)
  <2>1. Marked(r) = n
    BY MarkedAll, Zenon
  <2>2. (send[r] + n) % Size(r) = Wrap(r, send[r] + n)
    BY <1>1, Turn, Zenon
  <2> QED  BY <2>1, <2>2, ClearedTypes, Zenon
<1>4. write' = write
  BY Zenon DEF LogMarkAllAsRead
<1>6. \A i \in 0 .. Size(r) - 1 : slots'[r][i] = Empty
  <2> SUFFICES ASSUME NEW i \in 0 .. Size(r) - 1 PROVE slots'[r][i] = Empty
    BY Zenon
  <2>1. PICK k \in 0 .. Size(r) - 1 : i = Wrap(r, send[r] + k)
    BY Around, Zenon
  <2>3. (i + (Size(r) - send[r])) % Size(r) = k
    BY <1>1, <2>1, Distance, Zenon
  <2>4. slots[r][i] # Empty <=> k < n
    BY <2>1, Zenon DEF Shape
  <2> QED  BY <1>2, <2>3, <2>4, Zenon
<1>7. send'[r] \in 0 .. Size(r) - 1
  BY <1>3, Around
<1>9. Shape(r, 0)'
  <2>1. 0 \in 0 .. Size(r) /\ \A k \in 0 .. Size(r) - 1 : ~(k < 0)
    BY <1>1
  <2>2. ASSUME NEW k \in 0 .. Size(r) - 1 PROVE slots'[r][Wrap(r, send'[r] + k)] = Empty
    <3>1. Wrap(r, send'[r] + k) \in 0 .. Size(r) - 1
      BY <1>1, <1>7 DEF Wrap
    <3> QED  BY <1>6, <3>1, Zenon
  <2>3. Wrap(r, send'[r] + 0) = WriteIndex(r)
    <3>1. Wrap(r, send'[r] + 0) = send'[r]
      BY <1>1, <1>7 DEF Wrap
    <3> QED  BY <1>3, <3>1, Zenon DEF Shape
  <2>4. WriteIndex(r)' = WriteIndex(r)
    BY <1>4, Zenon DEF WriteIndex, Size
  <2> QED  BY <2>1, <2>2, <2>3, <2>4, Zenon DEF Shape, Wrap, Size
<1> QED  BY <1>9, Zenon

\* The queue that a ring stands for.
LEMMA WaitingIs ==
  ASSUME LogTypes, NEW r \in Rings, NEW n \in 0 .. Size(r), Shape(r, n)
  PROVE  Waiting(r) = [k \in 1 .. n |-> slots[r][Wrap(r, send[r] + (k - 1))]]
<1> DEFINE F == {i \in DOMAIN slots[r] : slots[r][i] # Empty}
           f == [k \in 1 .. n |-> Wrap(r, send[r] + (k - 1))]
<1>1. /\ Size(r) \in Nat /\ Size(r) >= 2 /\ send[r] \in 0 .. Size(r) - 1
      /\ DOMAIN slots[r] = 0 .. Size(r) - 1
  BY Sizes, Zenon DEF LogTypes
<1>2. \A k \in 1 .. n : k - 1 \in 0 .. Size(r) - 1 /\ k - 1 \in 0 .. Size(r) /\ k - 1 < n
  BY <1>1
<1>3. Cardinality(F) = n
  <2>1. f \in [1 .. n -> F]
    <3> SUFFICES ASSUME NEW k \in 1 .. n PROVE Wrap(r, send[r] + (k - 1)) \in F
      BY Zenon
    <3> QED  BY <1>1, <1>2, Around, Zenon DEF Shape
  <2>2. \A j, k \in 1 .. n : f[j] = f[k] => j = k
    <3> SUFFICES ASSUME NEW j \in 1 .. n, NEW k \in 1 .. n, f[j] = f[k] PROVE j = k
      BY Zenon
    <3>1. Wrap(r, send[r] + (j - 1)) = Wrap(r, send[r] + (k - 1))
      BY Zenon
    <3>2. j - 1 = k - 1
      BY <1>2, <3>1, Around, Zenon
    <3> QED  BY <3>2
  <2>3. \A i \in F : \E k \in 1 .. n : f[k] = i
    <3> SUFFICES ASSUME NEW i \in F PROVE \E k \in 1 .. n : f[k] = i
      BY Zenon
    <3>1. PICK j \in 0 .. Size(r) - 1 : i = Wrap(r, send[r] + j)
      BY <1>1, Around, Zenon
    <3>2. j < n
      BY <3>1, Zenon DEF Shape
    <3>3. j + 1 \in 1 .. n /\ (j + 1) - 1 = j
      BY <1>1, <3>2
    <3>4. f[j + 1] = i
      BY <3>1, <3>3, Zenon
    <3> QED  BY <3>3, <3>4, Zenon
  <2>4. ExistsBijection(1 .. n, F)
    <3> HIDE DEF f, F
    <3>1. f \in Bijection(1 .. n, F)
      BY <2>1, <2>2, <2>3 DEF Bijection, Injection, Surjection, IsInjective
    <3> QED  BY <3>1, Zenon DEF ExistsBijection
  <2>5. n \in Nat
    BY <1>1
  <2> HIDE DEF F
  <2> QED  BY <2>4, <2>5, FS_CountingElements, Zenon
<1>4. \A k \in 1 .. n : (send[r] + k - 1) % Size(r) = Wrap(r, send[r] + (k - 1))
  BY <1>1, <1>2, Turn, Zenon
<1> HIDE DEF F
<1>5. Waiting(r) = [k \in 1 .. n |-> slots[r][(send[r] + k - 1) % Size(r)]]
  BY <1>3, Zenon DEF Waiting, F
<1> QED  BY <1>4, <1>5, Zenon

-----------------------------------------------------------------------------
(* What a step does to the messages                                          *)

\* Everything but nonImm, which no property of the rings is about.
Unlogged == UNCHANGED <<slots, write, send, sender, record, dpc, irp>>
Sent == \E r \in Rings, m \in Messages : LogSendBuffer(r, m)
Notified == \E p \in Pools : NotifyTest(p) \/ NotifyQueue(p) \/ NotifyReset(p)
Flushed == \E p \in Pools : LogMarkAllAsRead(p)
Returned ==
  /\ irp \in Messages \cup {"failed"} /\ irp' = "none"
  /\ UNCHANGED <<slots, write, send, sender, record, dpc>>

\* Opening the device sends a message or leaves message tracing alone.
LEMMA OpenCases ==
  ASSUME NEW step, Open(step)
  PROVE  Unlogged \/ Sent
<1>1. <<"root", TRUE>> \in Rings /\ Loaded \in Messages
  BY Zenon DEF Rings, Pools, Messages
<1> QED  BY <1>1, Zenon DEF Open, DrvCreate, Unlogged, Sent, logVars

\* Every step of the driver and the application, by what it does to message tracing.
LEMMA LogCases ==
  ASSUME [Next]_vars
  PROVE  \/ Unlogged \/ Sent \/ Notified \/ LogNotifyUsermodeCallback \/ Flushed
         \/ LogRegisterIrpBasedNotification \/ RegisterRecord \/ Returned \/ DrvUnload
<1>1. CASE UNCHANGED vars
  BY <1>1, Zenon DEF vars, logVars, Unlogged
<1>2. CASE CommandLoadVmmModule
  BY <1>2, Zenon DEF CommandLoadVmmModule, logVars, Unlogged
<1>3. CASE MainStep
  <2>1. CASE LoadOpens
    <3>1. \E step : Open(step)
      BY <2>1, Zenon DEF LoadOpens
    <3> QED  BY <3>1, OpenCases, Zenon
  <2>2. CASE LoadStartsReader
    BY <2>2, Zenon DEF LoadStartsReader, logVars, Unlogged
  <2>3. CASE LoadReturns
    BY <2>3, Zenon DEF LoadReturns, logVars, Unlogged
  <2>4. CASE TerminateVmx
    BY <2>4, Zenon DEF TerminateVmx, logVars, Unlogged
  <2>5. CASE ReturnIrpAndDisallow
    <3>1. <<"nonroot", TRUE>> \in Rings /\ EndOfIrps \in Messages
      BY Zenon DEF Rings, Pools, Messages
    <3> QED  BY <2>5, <3>1, Zenon DEF ReturnIrpAndDisallow, Unlogged, Sent, logVars
  <2>6. CASE UnloadSetsFlag
    BY <2>6, Zenon DEF UnloadSetsFlag, logVars, Unlogged
  <2>7. CASE UnloadCloses
    BY <2>7, Zenon DEF UnloadCloses, logVars, Unlogged
  <2>8. CASE HyperDbgStopVmmDriver
    BY <2>8, Zenon DEF HyperDbgStopVmmDriver, logVars, Unlogged
  <2>9. CASE HyperDbgUninstallVmmDriver
    BY <2>9, Zenon DEF HyperDbgUninstallVmmDriver, logVars, Unlogged
  <2> QED  BY <1>3, <2>1, <2>2, <2>3, <2>4, <2>5, <2>6, <2>7, <2>8, <2>9, Zenon DEF MainStep
<1>4. CASE ReaderStep
  <2>1. CASE ReaderOpens
    <3>1. \E step : Open(step)
      BY <2>1, Zenon DEF ReaderOpens
    <3> QED  BY <3>1, OpenCases, Zenon
  <2>2. CASE ReadIrpBasedBuffer
    BY <2>2, Zenon DEF ReadIrpBasedBuffer, logVars, Unlogged
  <2>3. CASE ReaderRegisters
    BY <2>3, Zenon DEF ReaderRegisters, logVars, Unlogged
  <2>4. CASE ReaderReturns
    BY <2>4, Zenon DEF ReaderReturns, rings, Returned
  <2>5. CASE Registers
    BY <2>5, Zenon DEF Registers
  <2> QED  BY <1>4, <2>1, <2>2, <2>3, <2>4, <2>5, Zenon DEF ReaderStep
<1>5. CASE DrvUnload
  BY <1>5, Zenon
<1>6. CASE Sends
  <2>1. ASSUME NEW r \in Sources, NEW m \in Texts, LogSendBuffer(r, m)
        PROVE  Sent
    <3>1. r \in Rings /\ m \in Messages
      BY LogAssumption, Zenon DEF Messages
    <3> QED  BY <2>1, <3>1, Zenon DEF Sent
  <2>2. ASSUME NEW p \in Accumulated, NEW len \in Lengths, LogSendMessageToQueue(p, len)
        PROVE  Unlogged \/ Sent
    <3>1. <<p, FALSE>> \in Rings /\ Batch \in Messages
      BY LogAssumption, Zenon DEF Rings, Messages
    <3> QED  BY <2>2, <3>1, Zenon DEF LogSendMessageToQueue, Unlogged, Sent, rings
  <2> QED  BY <1>6, <2>1, <2>2, Zenon DEF Sends
<1>7. CASE NotifyStep
  BY <1>7, Zenon DEF NotifyStep, Notified
<1>8. CASE Dpc
  BY <1>8, Zenon DEF Dpc
<1>9. CASE \E remove \in BOOLEAN : CommandUnload(remove)
  BY <1>9, Zenon DEF CommandUnload, logVars, Unlogged
<1>10. CASE \E p \in Pools : Flush(p)
  BY <1>10, Zenon DEF Flush, Flushed
<1> QED  BY <1>1, <1>2, <1>3, <1>4, <1>5, <1>6, <1>7, <1>8, <1>9, <1>10, Zenon DEF Next

SameRings == slots' = slots /\ write' = write /\ send' = send

\* The DPC takes a message of its pool, one with priority first.
LEMMA DpcCases ==
  ASSUME LogNotifyUsermodeCallback, dpc \in Pools
  PROVE  \/ /\ irp' = "failed" /\ SameRings
            /\ \A prio \in BOOLEAN : ~LogCheckForNewMessage(<<dpc, prio>>)
         \/ \E prio \in BOOLEAN :
              /\ LogCheckForNewMessage(<<dpc, prio>>) /\ Take(<<dpc, prio>>)
              /\ irp' = slots[<<dpc, prio>>][send[<<dpc, prio>>]]
              /\ prio \/ ~LogCheckForNewMessage(<<dpc, TRUE>>)
<1> DEFINE ready == {prio \in BOOLEAN : LogCheckForNewMessage(<<dpc, prio>>)}
<1>1. IF ready = {}
      THEN irp' = "failed" /\ UNCHANGED rings
      ELSE /\ irp' = slots[<<dpc, TRUE \in ready>>][send[<<dpc, TRUE \in ready>>]]
           /\ Take(<<dpc, TRUE \in ready>>)
  BY Zenon DEF LogNotifyUsermodeCallback
<1>2. CASE ready = {}
  <2>1. irp' = "failed" /\ SameRings
    BY <1>1, <1>2, Zenon DEF rings, SameRings
  <2>2. \A prio \in BOOLEAN : ~LogCheckForNewMessage(<<dpc, prio>>)
    BY <1>2, Zenon
  <2> QED  BY <2>1, <2>2, Zenon
<1>3. CASE TRUE \in ready
  <2>1. (TRUE \in ready) = TRUE
    BY <1>3, Zenon
  <2>2. LogCheckForNewMessage(<<dpc, TRUE>>)
    BY <1>3, Zenon
  <2> HIDE DEF ready
  <2>3. irp' = slots[<<dpc, TRUE>>][send[<<dpc, TRUE>>]] /\ Take(<<dpc, TRUE>>)
    BY <1>1, <1>3, <2>1, Zenon
  <2> QED  BY <2>2, <2>3, Zenon
<1>4. CASE ready # {} /\ TRUE \notin ready
  <2>1. (TRUE \in ready) = FALSE
    BY <1>4
  <2>2. LogCheckForNewMessage(<<dpc, FALSE>>) /\ ~LogCheckForNewMessage(<<dpc, TRUE>>)
    BY <1>4, Zenon
  <2> HIDE DEF ready
  <2>3. irp' = slots[<<dpc, FALSE>>][send[<<dpc, FALSE>>]] /\ Take(<<dpc, FALSE>>)
    BY <1>1, <1>4, <2>1, Zenon
  <2> QED  BY <2>2, <2>3, Zenon
<1> QED  BY <1>2, <1>3, <1>4, Zenon

Fresh ==
  /\ slots = [r \in Rings |-> [i \in 0 .. Size(r) - 1 |-> Empty]]
  /\ write = [r \in Rings |-> 0] /\ send = [r \in Rings |-> 0]

\* What LogInitialize leaves: empty rings.
LEMMA FreshTypes ==
  Fresh => LogTypes /\ \A r \in Rings : Shape(r, 0)
<1> SUFFICES ASSUME Fresh PROVE LogTypes /\ \A r \in Rings : Shape(r, 0)
  OBVIOUS
<1> USE DEF Fresh
<1>1. ASSUME NEW r \in Rings
      PROVE  /\ slots[r] \in [0 .. Size(r) - 1 -> Messages \cup {Empty}]
             /\ write[r] \in 0 .. Size(r) /\ send[r] \in 0 .. Size(r) - 1
  <2>1. 0 \in 0 .. Size(r) /\ 0 \in 0 .. Size(r) - 1
    BY Sizes
  <2> QED  BY <2>1, Zenon
<1>2. DOMAIN slots = Rings /\ write \in [Rings -> Nat] /\ send \in [Rings -> Nat]
  OBVIOUS
<1>3. ASSUME NEW r \in Rings PROVE Shape(r, 0)
  <2>1. Size(r) \in Nat /\ Size(r) >= 2 /\ send[r] = 0 /\ write[r] = 0
    BY Sizes, Zenon
  <2>2. slots[r] = [i \in 0 .. Size(r) - 1 |-> Empty]
    OBVIOUS
  <2>3. ASSUME NEW k \in 0 .. Size(r) - 1
        PROVE  Wrap(r, send[r] + k) = k /\ ~(k < 0)
    BY <2>1 DEF Wrap
  <2>4. Wrap(r, send[r] + 0) = WriteIndex(r) /\ 0 \in 0 .. Size(r)
    BY <2>1 DEF Wrap, WriteIndex
  <2> QED  BY <2>2, <2>3, <2>4, Zenon DEF Shape
<1> QED  BY <1>1, <1>2, <1>3, Zenon DEF LogTypes

\* Every step keeps the types of message tracing.
LEMMA LogTypesKept ==
  ASSUME LogTypes, dpc \in Pools \cup {NoPool}, [Next]_vars
  PROVE  LogTypes'
<1>1. ASSUME SameRings PROVE LogTypes'
  BY <1>1, Zenon DEF SameRings, LogTypes, Size
<1>2. CASE Unlogged \/ Notified \/ LogRegisterIrpBasedNotification \/ RegisterRecord \/ Returned
  <2>1. SameRings
    BY <1>2, Zenon DEF SameRings, Unlogged, Notified, NotifyTest, NotifyQueue, NotifyReset, rings,
                LogRegisterIrpBasedNotification, RegisterRecord, Returned
  <2> QED  BY <1>1, <2>1, Zenon
<1>3. CASE Sent
  BY <1>3, SentTypes, Zenon DEF Sent
<1>4. CASE LogNotifyUsermodeCallback
  <2> dpc \in Pools
    BY <1>4, Zenon DEF LogNotifyUsermodeCallback
  <2>1. CASE SameRings
    BY <1>1, <2>1, Zenon
  <2>2. ASSUME NEW prio \in BOOLEAN, Take(<<dpc, prio>>)
        PROVE  LogTypes'
    <3>1. <<dpc, prio>> \in Rings
      BY Zenon DEF Rings
    <3> QED  BY <2>2, <3>1, TakenTypes, Zenon
  <2> QED  BY <1>4, <2>1, <2>2, DpcCases, Zenon
<1>5. CASE Flushed
  <2>1. PICK p \in Pools : LogMarkAllAsRead(p)
    BY <1>5, Zenon DEF Flushed
  <2>2. <<p, FALSE>> \in Rings
    BY Zenon DEF Rings
  <2> QED  BY <2>1, <2>2, ClearedTypes, Zenon
<1>6. CASE DrvUnload
  <2>1. Fresh'
    BY <1>6, Zenon DEF DrvUnload, LogUnInitialize, Fresh, Size
  <2> QED  BY <2>1, FreshTypes, PTL
<1> QED  BY <1>2, <1>3, <1>4, <1>5, <1>6, LogCases, Zenon

-----------------------------------------------------------------------------
(* The life of the driver                                                    *)

\* The reader thread and its IRP, whatever fails and however long it takes.
ReaderOK ==
  /\ "reader" \in handles <=> reader \in {"loop", "register", "wait"}
  /\ irp # "none" => reader = "wait"

\* The device is open only while the driver is loaded; the reader thread lives
\* between the opening and the closing of the main thread's handle, and opens
\* its own before the load returns.
LifeOK ==
  /\ handles \subseteq Threads
  /\ "reader" \in handles <=> reader \in {"loop", "register", "wait"}
  /\ handles # {} => service \in {"running", "stopping"}
  /\ main = "opening" => service = "running" /\ handles = {} /\ ~event
  /\ main \in {"starting", "loading", "terminate", "return", "flag", "sleep"} \/ modules =>
       "main" \in handles
  /\ main = "idle" /\ "main" \in handles => modules
  /\ main = "starting" => reader = "none" /\ ~event /\ inUse
  /\ reader # "none" => "main" \in handles
  /\ reader = "open" => main = "loading" /\ inUse /\ ~event
  /\ inUse => "main" \in handles

\* Between the opening of the device and the termination the cores are launched
\* and IOCTLs are served.
LaunchOK ==
  /\ launched <=> "main" \in handles /\ main \notin {"return", "flag", "sleep"}
  /\ "main" \in handles /\ main \notin {"flag", "sleep"} => allow
  /\ main \in {"stop", "remove"} => "main" \notin handles

\* What is allocated for the hypervisor is there while the cores are launched.
KnownOK ==
  /\ live \in [Resources -> Nat] /\ known \subseteq Resources
  /\ \A r \in VmmResources : live[r] = IF launched THEN 1 ELSE 0
  /\ \A r \in known : live[r] > 0
  /\ service \in {"running", "stopping"} => DriverEntry \subseteq known
  /\ launched => VmmResources \cup {"events"} \subseteq known

\* The record, the DPC and the senders.
OwnerOK ==
  /\ irp = "pending" <=> record \/ dpc # NoPool
  /\ \A p \in Pools : sender[p] \in {"found", "queued"} => record
  /\ \A p \in Pools : sender[p] = "queued" => dpc = p
  /\ \A p, q \in Pools : sender[p] \in {"found", "queued"} /\ sender[q] \in {"found", "queued"} => p = q
  /\ record /\ dpc # NoPool => \E p \in Pools : sender[p] = "queued"

\* While the IRP waits on its record, or is about to, the rings hold only messages
\* whose senders will look at the record.
Quiet ==
  /\ irp = "checked" => \A r \in Rings : \A i \in 0 .. Size(r) - 1 : slots[r][i] = Empty
  /\ record /\ dpc = NoPool => \A r \in Rings : \A i \in 0 .. Size(r) - 1 :
       slots[r][i] # Empty => sender[r[1]] \in {"notify", "found"}
-----------------------------------------------------------------------------
(* Who completes the IRP                                                     *)

\* A message is none of the words that stand for the state of the IRP.
LEMMA Words ==
  /\ NoPool \notin Pools
  /\ \A m \in Messages : m # "none" /\ m # "checked" /\ m # "pending" /\ m # "failed" /\ m # Empty
BY LogAssumption, Zenon DEF NoPool, Pools, Messages, Batch, EndOfIrps, Loaded, Empty

OwnTypes ==
  /\ sender \in [Pools -> {"idle", "notify", "found", "queued"}]
  /\ record \in BOOLEAN /\ dpc \in Pools \cup {NoPool}

\* Only the pool of the step changes.
LEMMA SenderAt ==
  ASSUME OwnTypes, NEW p \in Pools, NEW x \in {"idle", "notify", "found", "queued"},
         sender' = [sender EXCEPT ![p] = x]
  PROVE  /\ sender' \in [Pools -> {"idle", "notify", "found", "queued"}]
         /\ sender'[p] = x /\ \A q \in Pools \ {p} : sender'[q] = sender[q]
BY Zenon DEF OwnTypes

\* Every step keeps who completes the IRP.
LEMMA OwnerKept ==
  ASSUME LogTypes, OwnTypes, ReaderOK, OwnerOK, "notify" \notin Races, [Next]_vars
  PROVE  OwnTypes' /\ OwnerOK'
<1>1. CASE Unlogged \/ Flushed
  <2>1. sender' = sender /\ record' = record /\ dpc' = dpc /\ irp' = irp
    BY <1>1, Zenon DEF Unlogged, Flushed, LogMarkAllAsRead
  <2> QED  BY <2>1, Zenon DEF OwnTypes, OwnerOK
<1>2. CASE Sent
  <2>1. PICK r \in Rings, m \in Messages : LogSendBuffer(r, m)
    BY <1>2, Zenon DEF Sent
  <2>2. r[1] \in Pools
    BY Zenon DEF Rings
  <2>3. /\ sender[r[1]] = "idle" /\ sender' = [sender EXCEPT ![r[1]] = "notify"]
        /\ record' = record /\ dpc' = dpc /\ irp' = irp
    BY <2>1, Zenon DEF LogSendBuffer
  <2>4. /\ sender' \in [Pools -> {"idle", "notify", "found", "queued"}]
        /\ sender'[r[1]] = "notify" /\ \A q \in Pools \ {r[1]} : sender'[q] = sender[q]
    BY <2>2, <2>3, SenderAt, Zenon
  <2> QED  BY <2>2, <2>3, <2>4, Zenon DEF OwnTypes, OwnerOK
<1>3. CASE Notified
  <2>1. PICK p \in Pools : NotifyTest(p) \/ NotifyQueue(p) \/ NotifyReset(p)
    BY <1>3, Zenon DEF Notified
  <2>2. CASE NotifyTest(p)
    <3>1. /\ sender[p] = "notify" /\ record' = record /\ dpc' = dpc /\ irp' = irp
          /\ sender' = [sender EXCEPT ![p] = IF record THEN "found" ELSE "idle"]
          /\ \A q \in Pools \ {p} : sender[q] \notin {"found", "queued"}
      BY <2>2, Zenon DEF NotifyTest, OtherOutside
    <3>2. /\ sender' \in [Pools -> {"idle", "notify", "found", "queued"}]
          /\ sender'[p] = (IF record THEN "found" ELSE "idle")
          /\ \A q \in Pools \ {p} : sender'[q] = sender[q]
      BY <3>1, SenderAt, Zenon
    <3> QED  BY <3>1, <3>2 DEF OwnTypes, OwnerOK
  <2>3. CASE NotifyQueue(p)
    <3>1. /\ sender[p] = "found" /\ record' = record /\ irp' = irp
          /\ dpc' = IF record THEN p ELSE dpc
          /\ sender' = [sender EXCEPT ![p] = "queued"]
      BY <2>3, Zenon DEF NotifyQueue
    <3>2. /\ sender' \in [Pools -> {"idle", "notify", "found", "queued"}]
          /\ sender'[p] = "queued" /\ \A q \in Pools \ {p} : sender'[q] = sender[q]
      BY <3>1, SenderAt, Zenon
    <3>3. record /\ dpc' = p /\ p # NoPool
      BY <3>1, Words, Zenon DEF OwnerOK
    <3> QED  BY <3>1, <3>2, <3>3, Zenon DEF OwnTypes, OwnerOK
  <2>4. CASE NotifyReset(p)
    <3>1. /\ sender[p] = "queued" /\ record' = FALSE /\ irp' = irp /\ dpc' = dpc
          /\ sender' = [sender EXCEPT ![p] = "idle"]
      BY <2>4, Zenon DEF NotifyReset
    <3>2. /\ sender' \in [Pools -> {"idle", "notify", "found", "queued"}]
          /\ sender'[p] = "idle" /\ \A q \in Pools \ {p} : sender'[q] = sender[q]
      BY <3>1, SenderAt, Zenon
    <3>3. dpc = p /\ p # NoPool /\ irp = "pending"
      BY <3>1, Words, Zenon DEF OwnerOK
    <3> QED  BY <3>1, <3>2, <3>3, Zenon DEF OwnTypes, OwnerOK
  <2> QED  BY <2>1, <2>2, <2>3, <2>4, Zenon
<1>4. CASE LogNotifyUsermodeCallback
  <2>1. /\ dpc # NoPool /\ dpc' = NoPool /\ sender' = sender /\ record' = record
        /\ \A p \in Pools : sender[p] # "queued"
    BY <1>4, Zenon DEF LogNotifyUsermodeCallback
  <2>2. ~record
    BY <2>1, Zenon DEF OwnerOK
  <2>3. irp' # "pending"
    <3>1. dpc \in Pools
      BY <2>1, Zenon DEF OwnTypes
    <3>2. ASSUME NEW prio \in BOOLEAN, LogCheckForNewMessage(<<dpc, prio>>)
          PROVE  slots[<<dpc, prio>>][send[<<dpc, prio>>]] \in Messages
      <4>1. <<dpc, prio>> \in Rings
        BY <3>1, Zenon DEF Rings
      <4> QED  BY <3>2, <4>1, Zenon DEF LogTypes, LogCheckForNewMessage
    <3> QED  BY <1>4, <3>1, <3>2, DpcCases, Words, Zenon
  <2> QED  BY <2>1, <2>2, <2>3, Zenon DEF OwnTypes, OwnerOK
<1>5. CASE LogRegisterIrpBasedNotification
  <2>1. /\ irp = "none" /\ ~record /\ record' = record /\ sender' = sender
        /\ \/ irp' = "checked" /\ dpc' = dpc
           \/ irp' = "pending" /\ dpc' \in Pools
    BY <1>5, Zenon DEF LogRegisterIrpBasedNotification, Pools
  <2> QED  BY <2>1, Words, Zenon DEF OwnTypes, OwnerOK
<1>6. CASE RegisterRecord
  BY <1>6, Zenon DEF RegisterRecord, OwnTypes, OwnerOK
<1>7. CASE Returned
  BY <1>7, Words, Zenon DEF Returned, OwnTypes, OwnerOK
<1>8. CASE DrvUnload
  <2>1. /\ handles = {} /\ record' = FALSE /\ sender' = sender /\ dpc' = dpc /\ irp' = irp
    BY <1>8, Zenon DEF DrvUnload, LogUnInitialize
  <2>2. irp = "none"
    BY <2>1, Zenon DEF ReaderOK
  <2> QED  BY <2>1, <2>2, Zenon DEF OwnTypes, OwnerOK
<1> QED  BY <1>1, <1>2, <1>3, <1>4, <1>5, <1>6, <1>7, <1>8, LogCases, Zenon

\* Sending a message leaves the IRP alone.
LEMMA IrpSame ==
  ASSUME Unlogged \/ Sent
  PROVE  irp' = irp
BY DEF Unlogged, Sent, LogSendBuffer

\* Every step keeps that only a waiting reader has an IRP.
LEMMA ReaderKept ==
  ASSUME ReaderOK, OwnerOK, [Next]_vars
  PROVE  ReaderOK'
<1>1. ASSUME reader' = reader, irp' = irp \/ irp # "none", "reader" \in handles' <=> "reader" \in handles
      PROVE  ReaderOK'
  BY <1>1, Zenon DEF ReaderOK
<1>2. CASE \/ UNCHANGED vars \/ CommandLoadVmmModule \/ LoadReturns \/ TerminateVmx \/ UnloadSetsFlag
           \/ HyperDbgStopVmmDriver \/ HyperDbgUninstallVmmDriver
           \/ (\E remove \in BOOLEAN : CommandUnload(remove))
  <2>1. reader' = reader /\ irp' = irp /\ handles' = handles
    BY <1>2, Zenon DEF vars, logVars, lifeVars, CommandLoadVmmModule, LoadReturns, TerminateVmx, UnloadSetsFlag,
                HyperDbgStopVmmDriver, HyperDbgUninstallVmmDriver, CommandUnload
  <2> QED  BY <1>1, <2>1, Zenon
<1>3. CASE NotifyStep \/ Registers \/ Dpc \/ (\E p \in Pools : Flush(p)) \/ Sends
  <2>1. reader' = reader /\ handles' = handles
    BY <1>3, Zenon DEF lifeVars, NotifyStep, Registers, Dpc, Flush, Sends
  <2>2. irp' = irp \/ irp # "none"
    <3>1. CASE NotifyStep
      BY <3>1, Zenon DEF NotifyStep, NotifyTest, NotifyQueue, NotifyReset
    <3>2. CASE Registers
      BY <3>2, Zenon DEF Registers, RegisterRecord
    <3>3. CASE Dpc
      <4>1. dpc # NoPool
        BY <3>3, Zenon DEF Dpc, LogNotifyUsermodeCallback
      <4> QED  BY <4>1, Zenon DEF OwnerOK
    <3>4. CASE \E p \in Pools : Flush(p)
      BY <3>4, Zenon DEF Flush, LogMarkAllAsRead
    <3>5. CASE Sends
      BY <3>5, Zenon DEF Sends, LogSendMessageToQueue, LogSendBuffer
    <3> QED  BY <1>3, <3>1, <3>2, <3>3, <3>4, <3>5, Zenon
  <2> QED  BY <1>1, <2>1, <2>2, Zenon
<1>4. CASE LoadOpens
  <2>1. PICK step : Open(step) /\ reader' = reader /\ ("reader" \in handles' <=> "reader" \in handles)
    BY <1>4, Zenon DEF LoadOpens
  <2>2. irp' = irp
    BY <2>1, OpenCases, IrpSame, Zenon
  <2> QED  BY <1>1, <2>1, <2>2, Zenon
<1>5. CASE LoadStartsReader
  BY <1>5, Zenon DEF LoadStartsReader, logVars, ReaderOK
<1>6. CASE ReturnIrpAndDisallow
  <2>1. reader' = reader /\ handles' = handles /\ irp' = irp
    BY <1>6, Zenon DEF ReturnIrpAndDisallow, LogSendBuffer, logVars
  <2> QED  BY <1>1, <2>1, Zenon
<1>7. CASE UnloadCloses
  <2>1. reader' = reader /\ irp' = irp /\ ("reader" \in handles' <=> "reader" \in handles)
    BY <1>7, Zenon DEF UnloadCloses, DrvClose, logVars
  <2> QED  BY <1>1, <2>1, Zenon
<1>8. CASE ReaderOpens
  <2>1. PICK step : /\ Open(step) /\ reader = "open"
                    /\ \/ reader' = "loop" /\ "reader" \in handles'
                       \/ reader' = "none" /\ handles' = handles
    BY <1>8, Zenon DEF ReaderOpens
  <2>2. irp' = irp
    BY <2>1, OpenCases, IrpSame, Zenon
  <2> QED  BY <2>1, <2>2, Zenon DEF ReaderOK
<1>9. CASE ReadIrpBasedBuffer
  BY <1>9, Zenon DEF ReadIrpBasedBuffer, DrvClose, logVars, ReaderOK
<1>10. CASE ReaderRegisters
  <2>1. /\ reader = "register" /\ handles' = handles
        /\ reader' = "wait" \/ (reader' = "loop" /\ irp' = irp)
    BY <1>10, Zenon DEF ReaderRegisters, logVars
  <2> QED  BY <2>1, Zenon DEF ReaderOK
<1>11. CASE ReaderReturns
  BY <1>11, Zenon DEF ReaderReturns, ReaderOK
<1>12. CASE DrvUnload
  <2>1. reader' = reader /\ irp' = irp /\ handles' = handles
    BY <1>12, Zenon DEF DrvUnload, LogUnInitialize
  <2> QED  BY <1>1, <2>1, Zenon
<1> QED  BY <1>2, <1>3, <1>4, <1>5, <1>6, <1>7, <1>8, <1>9, <1>10, <1>11, <1>12, Zenon
            DEF Next, MainStep, ReaderStep

\* The IRP, the record, the DPC and the senders.
Owned == LogTypes /\ OwnTypes /\ ReaderOK /\ OwnerOK

\* Together, the invariant behind IrpHasOneOwner: it holds at first.
LEMMA OwnedInit ==
  Init => Owned
<1> SUFFICES ASSUME Init PROVE Owned
  BY Zenon
<1>1. LogTypes
  <2>1. Fresh
    BY Zenon DEF Init, LogInitialize, Fresh
  <2> QED  BY <2>1, FreshTypes, Zenon
<1>2. OwnTypes /\ ReaderOK /\ OwnerOK
  BY Zenon DEF Init, LogInitialize, OwnTypes, ReaderOK, OwnerOK
<1> QED  BY <1>1, <1>2, Zenon DEF Owned

\* Every step keeps it.
LEMMA OwnedNext ==
  ASSUME "notify" \notin Races
  PROVE  Owned /\ [Next]_vars => Owned'
<1> SUFFICES ASSUME Owned, [Next]_vars PROVE Owned'
  OBVIOUS
<1>1. LogTypes /\ OwnTypes /\ ReaderOK /\ OwnerOK /\ dpc \in Pools \cup {NoPool}
  BY Zenon DEF Owned, OwnTypes
<1> QED  BY <1>1, LogTypesKept, OwnerKept, ReaderKept, Zenon DEF Owned

\* The IRP that the reader thread waits on is always completed by exactly one of
\* LogSendBuffer's record and the queued LogNotifyUsermodeCallback, for buffers of
\* every size, full rings and late registrations included, if the two pools do not
\* race for g_GlobalNotifyRecord.
THEOREM IrpIsOwned ==
  ASSUME "notify" \notin Races
  PROVE  Spec => []IrpHasOneOwner
<1>1. Owned => IrpHasOneOwner
  BY DEF Owned, OwnerOK, IrpHasOneOwner
<1> QED  BY <1>1, OwnedInit, OwnedNext, PTL DEF Spec

-----------------------------------------------------------------------------
(* No message is left behind                                                 *)

\* Every step keeps each ring one run of messages, if no sender meets a full ring.
LEMMA RingsKept ==
  ASSUME LogTypes, OwnTypes, RingsOK, "overrun" \notin Races, [Next]_vars
  PROVE  RingsOK'
<1>1. ASSUME NEW q \in Rings, SameRing(q)
      PROVE  \E n \in 0 .. Size(q) : Shape(q, n)'
  BY <1>1, RingKept, Zenon DEF RingsOK
<1>2. ASSUME NEW r \in Rings, \A q \in Rings \ {r} : SameRing(q),
             NEW n \in 0 .. Size(r), Shape(r, n)'
      PROVE  RingsOK'
  <2>1. \A q \in Rings : \E k \in 0 .. Size(q) : Shape(q, k)'
    BY <1>1, <1>2, Zenon
  <2> QED  BY <2>1, Zenon DEF RingsOK, Size
<1>3. ASSUME SameRings PROVE RingsOK'
  <2>1. \A q \in Rings : SameRing(q)
    BY <1>3, Zenon DEF SameRings, SameRing
  <2> QED  BY <1>1, <2>1, Zenon DEF RingsOK, Size
<1>4. CASE Unlogged \/ Notified \/ LogRegisterIrpBasedNotification \/ RegisterRecord \/ Returned
  <2>1. SameRings
    BY <1>4, Zenon DEF SameRings, Unlogged, Notified, NotifyTest, NotifyQueue, NotifyReset, rings,
                LogRegisterIrpBasedNotification, RegisterRecord, Returned
  <2> QED  BY <1>3, <2>1, Zenon
<1>5. CASE Sent
  <2>1. PICK r \in Rings, m \in Messages : LogSendBuffer(r, m)
    BY <1>5, Zenon DEF Sent
  <2>2. slots[r][WriteIndex(r)] = Empty
    BY <2>1, Zenon DEF LogSendBuffer
  <2>3. PICK n \in 0 .. Size(r) : Shape(r, n)
    BY Zenon DEF RingsOK
  <2>4. n < Size(r) /\ Shape(r, n + 1)'
    BY <2>1, <2>2, <2>3, Written, Zenon
  <2>5. \A q \in Rings \ {r} : SameRing(q)
    BY <2>1, SentTypes, Zenon
  <2>6. n + 1 \in 0 .. Size(r)
    BY <2>4, Sizes
  <2> QED  BY <1>2, <2>4, <2>5, <2>6, Zenon
<1>6. CASE LogNotifyUsermodeCallback
  <2>1. dpc \in Pools
    BY <1>6, Zenon DEF LogNotifyUsermodeCallback, OwnTypes
  <2>2. ASSUME NEW prio \in BOOLEAN, LogCheckForNewMessage(<<dpc, prio>>), Take(<<dpc, prio>>)
        PROVE  RingsOK'
    <3>1. PICK r \in Rings : r = <<dpc, prio>>
      BY <2>1, Zenon DEF Rings
    <3>2. PICK n \in 0 .. Size(r) : Shape(r, n)
      BY Zenon DEF RingsOK
    <3>3. n > 0 /\ Shape(r, n - 1)' /\ \A q \in Rings \ {r} : SameRing(q)
      BY <2>2, <3>1, <3>2, Taken, TakenTypes, Zenon
    <3>4. n - 1 \in 0 .. Size(r)
      BY <3>3, Sizes
    <3> QED  BY <1>2, <3>3, <3>4, Zenon
  <2> QED  BY <1>3, <1>6, <2>1, <2>2, DpcCases, Zenon
<1>7. CASE Flushed
  <2>1. PICK p \in Pools : LogMarkAllAsRead(p)
    BY <1>7, Zenon DEF Flushed
  <2>2. PICK r \in Rings : r = <<p, FALSE>>
    BY Zenon DEF Rings
  <2>3. PICK n \in 0 .. Size(r) : Shape(r, n)
    BY Zenon DEF RingsOK
  <2>4. Shape(r, 0)' /\ \A q \in Rings \ {r} : SameRing(q)
    BY <2>1, <2>2, <2>3, Cleared, ClearedTypes, Zenon
  <2>5. 0 \in 0 .. Size(r)
    BY Sizes
  <2> QED  BY <1>2, <2>4, <2>5, Zenon
<1>8. CASE DrvUnload
  <2>1. Fresh'
    BY <1>8, Zenon DEF DrvUnload, LogUnInitialize, Fresh, Size
  <2>2. (\A r \in Rings : Shape(r, 0))'
    BY <2>1, FreshTypes, PTL
  <2>3. \A r \in Rings : 0 \in 0 .. Size(r)
    BY Sizes
  <2> QED  BY <2>2, <2>3, Zenon DEF RingsOK, Size
<1> QED  BY <1>4, <1>5, <1>6, <1>7, <1>8, LogCases, Zenon

\* LogRegisterIrpBasedNotification looks at one buffer of each ring: if that one is
\* empty, so are the others.
LEMMA EmptyRing ==
  ASSUME LogTypes, NEW r \in Rings, NEW n \in 0 .. Size(r), Shape(r, n), ~LogCheckForNewMessage(r)
  PROVE  \A i \in 0 .. Size(r) - 1 : slots[r][i] = Empty
<1> SUFFICES ASSUME NEW i \in 0 .. Size(r) - 1 PROVE slots[r][i] = Empty
  BY Zenon
<1>1. 0 \in 0 .. Size(r) - 1 /\ Wrap(r, send[r] + 0) = send[r]
  BY Around, Sizes
<1>2. ~(0 < n)
  BY <1>1, Zenon DEF Shape, LogCheckForNewMessage
<1>3. PICK k \in 0 .. Size(r) - 1 : i = Wrap(r, send[r] + k)
  BY Around, Zenon
<1>4. ~(k < n)
  BY <1>2, Sizes
<1> QED  BY <1>3, <1>4, Zenon DEF Shape

\* Every step keeps that no message waits unnoticed, if nothing races.
LEMMA QuietKept ==
  ASSUME LogTypes, OwnTypes, ReaderOK, OwnerOK, RingsOK, Quiet, "notify" \notin Races,
         "register" \notin Races, [Next]_vars
  PROVE  Quiet'
<1> DEFINE Full(r, i) == slots[r][i] # Empty
<1>0. /\ irp = "checked" => \A r \in Rings : \A i \in 0 .. Size(r) - 1 : ~Full(r, i)
      /\ record /\ dpc = NoPool => \A r \in Rings : \A i \in 0 .. Size(r) - 1 :
           Full(r, i) => sender[r[1]] \in {"notify", "found"}
  BY Zenon DEF Quiet
<1>1. ASSUME irp' = "checked" => \A r \in Rings : \A i \in 0 .. Size(r) - 1 : ~Full(r, i)',
             record' /\ dpc' = NoPool => \A r \in Rings : \A i \in 0 .. Size(r) - 1 :
               Full(r, i)' => sender'[r[1]] \in {"notify", "found"}
      PROVE  Quiet'
  BY <1>1, Zenon DEF Quiet, Size
<1>2. CASE Unlogged
  BY <1>2, Zenon DEF Unlogged, Quiet, Size
<1>3. CASE Sent
  <2>1. PICK r \in Rings, m \in Messages : LogSendBuffer(r, m)
    BY <1>3, Zenon DEF Sent
  <2>2. /\ irp # "checked" /\ irp' = irp /\ record' = record /\ dpc' = dpc
        /\ sender[r[1]] = "idle" /\ sender' = [sender EXCEPT ![r[1]] = "notify"]
    BY <2>1, Zenon DEF LogSendBuffer
  <2>3. r[1] \in Pools /\ \A q \in Rings : q[1] \in Pools
    BY Zenon DEF Rings
  <2>4. sender'[r[1]] = "notify" /\ \A p \in Pools \ {r[1]} : sender'[p] = sender[p]
    BY <2>2, <2>3, SenderAt, Zenon
  <2>5. ASSUME record, dpc = NoPool, NEW q \in Rings, NEW i \in 0 .. Size(q) - 1, Full(q, i)'
        PROVE  sender'[q[1]] \in {"notify", "found"}
    <3>1. CASE q[1] = r[1]
      BY <2>4, <3>1, Zenon
    <3>2. CASE q[1] # r[1]
      <4>1. slots'[q] = slots[q]
        BY <2>1, <3>2, SentTypes, Zenon DEF SameRing
      <4> QED  BY <1>0, <2>3, <2>4, <2>5, <3>2, <4>1, Zenon
    <3> QED  BY <3>1, <3>2, Zenon
  <2> QED  BY <1>1, <2>2, <2>5, Zenon
<1>4. CASE Notified
  <2>1. PICK p \in Pools : NotifyTest(p) \/ NotifyQueue(p) \/ NotifyReset(p)
    BY <1>4, Zenon DEF Notified
  <2>2. slots' = slots /\ irp' = irp
    BY <2>1, Zenon DEF NotifyTest, NotifyQueue, NotifyReset, rings
  <2>3. CASE NotifyTest(p)
    <3>1. /\ record' = record /\ dpc' = dpc /\ sender[p] = "notify"
          /\ sender' = [sender EXCEPT ![p] = IF record THEN "found" ELSE "idle"]
      BY <2>3, Zenon DEF NotifyTest
    <3>2. (record => sender'[p] = "found") /\ \A q \in Pools \ {p} : sender'[q] = sender[q]
      BY <3>1, SenderAt, Zenon
    <3>3. \A q \in Rings : q[1] \in Pools
      BY Zenon DEF Rings
    <3> QED  BY <1>0, <1>1, <2>2, <3>1, <3>2, <3>3
  <2>4. CASE NotifyQueue(p)
    <3>1. sender[p] = "found" /\ dpc' = IF record THEN p ELSE dpc
      BY <2>4, Zenon DEF NotifyQueue
    <3>2. dpc' = p /\ p # NoPool
      BY <3>1, Words, Zenon DEF OwnerOK
    <3> QED  BY <1>0, <1>1, <2>2, <3>2, Zenon
  <2>5. CASE NotifyReset(p)
    <3>1. record' = FALSE
      BY <2>5, Zenon DEF NotifyReset
    <3> QED  BY <1>0, <1>1, <2>2, <3>1, Zenon
  <2> QED  BY <2>1, <2>3, <2>4, <2>5, Zenon
<1>5. CASE LogNotifyUsermodeCallback
  <2>1. /\ dpc # NoPool /\ dpc' = NoPool /\ record' = record
        /\ \A p \in Pools : sender[p] # "queued"
    BY <1>5, Zenon DEF LogNotifyUsermodeCallback
  <2>2. ~record
    BY <2>1, Zenon DEF OwnerOK
  <2>3. irp' # "checked"
    <3>1. dpc \in Pools
      BY <2>1, Zenon DEF OwnTypes
    <3>2. ASSUME NEW prio \in BOOLEAN, LogCheckForNewMessage(<<dpc, prio>>)
          PROVE  slots[<<dpc, prio>>][send[<<dpc, prio>>]] \in Messages
      <4>1. <<dpc, prio>> \in Rings
        BY <3>1, Zenon DEF Rings
      <4> QED  BY <3>2, <4>1, Zenon DEF LogTypes, LogCheckForNewMessage
    <3> QED  BY <1>5, <3>1, <3>2, DpcCases, Words, Zenon
  <2> QED  BY <1>1, <2>1, <2>2, <2>3, Zenon
<1>6. CASE Flushed
  <2>1. PICK p \in Pools : LogMarkAllAsRead(p)
    BY <1>6, Zenon DEF Flushed
  <2>2. PICK r \in Rings : r = <<p, FALSE>>
    BY Zenon DEF Rings
  <2>3. irp' = irp /\ record' = record /\ dpc' = dpc /\ sender' = sender
    BY <2>1, Zenon DEF LogMarkAllAsRead
  <2>4. ASSUME NEW q \in Rings, NEW i \in 0 .. Size(q) - 1, Full(q, i)'
        PROVE  Full(q, i)
    <3>1. CASE q = r
      <4>1. slots'[r] = [j \in 0 .. Size(r) - 1 |->
              IF (j + (Size(r) - send[r])) % Size(r) < Marked(r) THEN Empty ELSE slots[r][j]]
        BY <2>1, <2>2, ClearedTypes, Zenon
      <4>2. slots'[r][i] = Empty \/ slots'[r][i] = slots[r][i]
        BY <3>1, <4>1, Zenon
      <4> QED  BY <2>4, <3>1, <4>2, Zenon
    <3>2. CASE q # r
      <4>1. slots'[q] = slots[q]
        BY <2>1, <2>2, <3>2, ClearedTypes, Zenon DEF SameRing
      <4> QED  BY <2>4, <4>1, Zenon
    <3> QED  BY <3>1, <3>2, Zenon
  <2> HIDE DEF Full
  <2> QED  BY <1>0, <1>1, <2>3, <2>4, Zenon
<1>7. CASE LogRegisterIrpBasedNotification
  <2>1. /\ ~record' /\ slots' = slots
        /\ irp' = "checked" => {r \in Rings : LogCheckForNewMessage(r)} = {}
    BY <1>7, Zenon DEF LogRegisterIrpBasedNotification, rings
  <2>2. ASSUME irp' = "checked", NEW r \in Rings
        PROVE  \A i \in 0 .. Size(r) - 1 : ~Full(r, i)
    <3>1. ~LogCheckForNewMessage(r)
      BY <2>1, <2>2, Zenon
    <3>2. PICK n \in 0 .. Size(r) : Shape(r, n)
      BY Zenon DEF RingsOK
    <3> QED  BY <3>1, <3>2, EmptyRing, Zenon
  <2>3. irp' = "checked" => \A r \in Rings : \A i \in 0 .. Size(r) - 1 : ~Full(r, i)'
    BY <2>1, <2>2, Zenon
  <2> QED  BY <1>1, <2>1, <2>3, Zenon
<1>8. CASE RegisterRecord
  <2>1. irp = "checked" /\ irp' = "pending" /\ slots' = slots
    BY <1>8, Zenon DEF RegisterRecord, rings
  <2> QED  BY <1>0, <1>1, <2>1, Zenon
<1>9. CASE Returned
  <2>1. irp' = "none" /\ record' = record /\ irp # "pending"
    BY <1>9, Words, Zenon DEF Returned
  <2> QED  BY <1>1, <2>1, Zenon DEF OwnerOK
<1>10. CASE DrvUnload
  <2>1. handles = {} /\ record' = FALSE /\ irp' = irp
    BY <1>10, Zenon DEF DrvUnload, LogUnInitialize
  <2>2. irp = "none"
    BY <2>1, Zenon DEF ReaderOK
  <2> QED  BY <1>1, <2>1, <2>2, Zenon
<1> QED  BY <1>2, <1>3, <1>4, <1>5, <1>6, <1>7, <1>8, <1>9, <1>10, LogCases, Zenon

\* The rings hold their messages from the send index on, and an IRP does not wait
\* for a message that is there.
Heard == Owned /\ RingsOK /\ Quiet

\* Together, the invariant behind NoneStranded: it holds at first.
LEMMA HeardInit ==
  Init => Heard
<1> SUFFICES ASSUME Init PROVE Heard
  BY Zenon
<1>1. Fresh /\ irp = "none" /\ ~record
  BY Zenon DEF Init, LogInitialize, Fresh
<1>2. \A r \in Rings : Shape(r, 0)
  BY <1>1, FreshTypes, Zenon
<1>3. \A r \in Rings : 0 \in 0 .. Size(r)
  BY Sizes
<1>4. RingsOK
  BY <1>2, <1>3, Zenon DEF RingsOK
<1>5. Quiet
  BY <1>1, Zenon DEF Quiet
<1> QED  BY <1>4, <1>5, OwnedInit, Zenon DEF Heard

\* Every step keeps it.
LEMMA HeardNext ==
  ASSUME Races = {}
  PROVE  Heard /\ [Next]_vars => Heard'
<1> SUFFICES ASSUME Heard, [Next]_vars PROVE Heard'
  OBVIOUS
<1>1. "notify" \notin Races /\ "overrun" \notin Races /\ "register" \notin Races
  BY Zenon
<1>2. Owned /\ LogTypes /\ OwnTypes /\ ReaderOK /\ OwnerOK /\ RingsOK /\ Quiet
  BY Zenon DEF Heard, Owned
<1>3. Owned'
  BY <1>1, <1>2, OwnedNext, Zenon
<1>4. RingsOK'
  BY <1>1, <1>2, RingsKept, Zenon
<1>5. Quiet'
  BY <1>1, <1>2, QuietKept, Zenon
<1> QED  BY <1>3, <1>4, <1>5, Zenon DEF Heard

\* While the reader's IRP waits on g_GlobalNotifyRecord, every message in a ring has
\* a sender that is about to find the record: LogRegisterIrpBasedNotification's four
\* tests of one buffer each miss no message, wherever the rings of Logging.c stand.
THEOREM NoneIsStranded ==
  ASSUME Races = {}
  PROVE  Spec => []NoneStranded
<1>1. Heard => NoneStranded
  <2> SUFFICES ASSUME Heard, record, dpc = NoPool, NEW m \in Unread
               PROVE  sender[m[1][1]] \in {"notify", "found"}
    BY Zenon DEF NoneStranded
  <2>1. m[1] \in Rings /\ m[2] \in 0 .. Size(m[1]) - 1 /\ slots[m[1]][m[2]] # Empty
    <3>1. m[1] \in Rings /\ m[2] \in Nat /\ m[2] < Size(m[1]) /\ slots[m[1]][m[2]] # Empty
      BY LogAssumption DEF Unread
    <3> QED  BY <3>1, Sizes
  <2> QED  BY <2>1, Zenon DEF Heard, Quiet
<1> QED  BY <1>1, HeardInit, HeardNext, PTL DEF Spec

-----------------------------------------------------------------------------
(* Loads and unloads                                                         *)

\* The steps of a load and what they allocate, as sets.
Steps ==
  {"mapper", "support", "eptState", "pools", "eptTable", "vmxon", "vmcs", "stack", "msrBitmap",
   "ioBitmaps", "invalidMsrs", "launch", "events", "scriptGlobals", "scriptLocals", "nmi", "attaching"}

\* The elements of a concatenation.
LEMMA SetOfTwo ==
  ASSUME NEW s \in Seq(Steps), NEW t \in Seq(Steps)
  PROVE  s \o t \in Seq(Steps) /\ ToSet(s \o t) = ToSet(s) \cup ToSet(t)
<1>1. s \o t \in Seq(Steps) /\ Len(s \o t) = Len(s) + Len(t)
  OBVIOUS
<1>2. \A i \in 1 .. Len(s) : (s \o t)[i] = s[i]
  OBVIOUS
<1>3. \A i \in 1 .. Len(t) : (s \o t)[Len(s) + i] = t[i]
  OBVIOUS
<1>4. ASSUME NEW x \in ToSet(s \o t) PROVE x \in ToSet(s) \cup ToSet(t)
  <2>1. PICK i \in 1 .. Len(s) + Len(t) : x = (s \o t)[i]
    BY <1>1 DEF ToSet
  <2>2. CASE i <= Len(s)
    BY <1>2, <2>1, <2>2 DEF ToSet
  <2>3. CASE i > Len(s)
    <3>1. i - Len(s) \in 1 .. Len(t) /\ i = Len(s) + (i - Len(s))
      BY <2>3
    <3>2. x = t[i - Len(s)]
      BY <1>3, <2>1, <3>1, Zenon
    <3> QED  BY <3>1, <3>2 DEF ToSet
  <2> QED  BY <2>2, <2>3
<1>5. ASSUME NEW x \in ToSet(s) PROVE x \in ToSet(s \o t)
  BY <1>1, <1>2 DEF ToSet
<1>6. ASSUME NEW x \in ToSet(t) PROVE x \in ToSet(s \o t)
  <2>1. PICK i \in 1 .. Len(t) : x = t[i]
    BY DEF ToSet
  <2>2. Len(s) + i \in 1 .. Len(s \o t) /\ x = (s \o t)[Len(s) + i]
    BY <1>1, <1>3, <2>1
  <2> QED  BY <1>1, <2>2 DEF ToSet
<1> QED  BY <1>1, <1>4, <1>5, <1>6, Zenon

\* The steps of a load, in the groups the code makes of them.
LEMMA StepsOfLoad ==
  /\ CreateSteps \in Seq(Steps)
  /\ ToSet(CreateSteps) = Steps
  /\ ToSet(VmxAllocateRegions) = {"vmxon", "vmcs"}
  /\ ToSet(VmxAllocatePerCore) = {"stack", "msrBitmap", "ioBitmaps"}
<1> DEFINE a == <<"mapper">>
           b == <<"support", "eptState", "pools", "eptTable">>
           c == <<"invalidMsrs", "launch">>
<1>1. a \in Seq(Steps) /\ ToSet(a) = {"mapper"}
  <2>1. a \in Seq(Steps) /\ DOMAIN a = {1} /\ a[1] = "mapper"
    BY DEF Steps
  <2> HIDE DEF a
  <2> QED  BY <2>1, Zenon DEF ToSet
<1>2. b \in Seq(Steps) /\ ToSet(b) = {"support", "eptState", "pools", "eptTable"}
  <2>1. /\ b \in Seq(Steps) /\ DOMAIN b = {1, 2, 3, 4}
        /\ b[1] = "support" /\ b[2] = "eptState" /\ b[3] = "pools" /\ b[4] = "eptTable"
    BY DEF Steps
  <2> HIDE DEF b
  <2> QED  BY <2>1, Zenon DEF ToSet
<1>3. c \in Seq(Steps) /\ ToSet(c) = {"invalidMsrs", "launch"}
  <2>1. c \in Seq(Steps) /\ DOMAIN c = {1, 2} /\ c[1] = "invalidMsrs" /\ c[2] = "launch"
    BY DEF Steps
  <2> HIDE DEF c
  <2> QED  BY <2>1, Zenon DEF ToSet
<1>4. VmxAllocateRegions \in Seq(Steps) /\ ToSet(VmxAllocateRegions) = {"vmxon", "vmcs"}
  <2>1. /\ VmxAllocateRegions \in Seq(Steps) /\ DOMAIN VmxAllocateRegions = {1, 2}
        /\ VmxAllocateRegions[1] = "vmxon" /\ VmxAllocateRegions[2] = "vmcs"
    BY DEF Steps, VmxAllocateRegions
  <2> QED  BY <2>1, Zenon DEF ToSet
<1>5. VmxAllocatePerCore \in Seq(Steps) /\ ToSet(VmxAllocatePerCore) = {"stack", "msrBitmap", "ioBitmaps"}
  <2>1. /\ VmxAllocatePerCore \in Seq(Steps) /\ DOMAIN VmxAllocatePerCore = {1, 2, 3}
        /\ VmxAllocatePerCore[1] = "stack" /\ VmxAllocatePerCore[2] = "msrBitmap"
        /\ VmxAllocatePerCore[3] = "ioBitmaps"
    BY DEF Steps, VmxAllocatePerCore
  <2> QED  BY <2>1, Zenon DEF ToSet
<1>6. /\ DebuggerInitialize \in Seq(Steps)
      /\ ToSet(DebuggerInitialize) = {"events", "scriptGlobals", "scriptLocals", "nmi", "attaching"}
  <2>1. /\ DebuggerInitialize \in Seq(Steps) /\ DOMAIN DebuggerInitialize = {1, 2, 3, 4, 5}
        /\ DebuggerInitialize[1] = "events" /\ DebuggerInitialize[2] = "scriptGlobals"
        /\ DebuggerInitialize[3] = "scriptLocals" /\ DebuggerInitialize[4] = "nmi"
        /\ DebuggerInitialize[5] = "attaching"
    BY DEF Steps, DebuggerInitialize
  <2> QED  BY <2>1, Zenon DEF ToSet
<1> HIDE DEF a, b, c
<1>7. /\ VmxPerformVirtualizationOnAllCores \in Seq(Steps)
      /\ ToSet(VmxPerformVirtualizationOnAllCores) = ToSet(b) \cup ToSet(VmxAllocateRegions)
  <2>1. VmxPerformVirtualizationOnAllCores = b \o VmxAllocateRegions
    BY Zenon DEF VmxPerformVirtualizationOnAllCores, b
  <2> QED  BY <1>2, <1>4, <2>1, SetOfTwo, Zenon
<1>8. /\ VmxInitialize \in Seq(Steps)
      /\ ToSet(VmxInitialize) = ToSet(VmxPerformVirtualizationOnAllCores) \cup ToSet(VmxAllocatePerCore) \cup ToSet(c)
  <2>1. VmxInitialize = (VmxPerformVirtualizationOnAllCores \o VmxAllocatePerCore) \o c
    BY Zenon DEF VmxInitialize, c
  <2> DEFINE d == VmxPerformVirtualizationOnAllCores \o VmxAllocatePerCore
  <2>2. /\ d \in Seq(Steps)
        /\ ToSet(d) = ToSet(VmxPerformVirtualizationOnAllCores) \cup ToSet(VmxAllocatePerCore)
    BY <1>5, <1>7, SetOfTwo, Zenon
  <2> HIDE DEF d
  <2>3. d \o c \in Seq(Steps) /\ ToSet(d \o c) = ToSet(d) \cup ToSet(c)
    BY <1>3, <2>2, SetOfTwo, Zenon
  <2> QED  BY <2>1, <2>2, <2>3, Zenon DEF d
<1>9. /\ CreateSteps \in Seq(Steps)
      /\ ToSet(CreateSteps) = ToSet(a) \cup ToSet(VmxInitialize) \cup ToSet(DebuggerInitialize)
  <2>1. CreateSteps = (a \o VmxInitialize) \o DebuggerInitialize
    BY DEF CreateSteps, a
  <2> DEFINE d == a \o VmxInitialize
  <2>2. d \in Seq(Steps) /\ ToSet(d) = ToSet(a) \cup ToSet(VmxInitialize)
    BY <1>1, <1>8, SetOfTwo, Zenon
  <2> HIDE DEF d
  <2>3. /\ d \o DebuggerInitialize \in Seq(Steps)
        /\ ToSet(d \o DebuggerInitialize) = ToSet(d) \cup ToSet(DebuggerInitialize)
    BY <1>6, <2>2, SetOfTwo, Zenon
  <2> QED  BY <2>1, <2>2, <2>3, Zenon DEF d
<1> QED  BY <1>1, <1>2, <1>3, <1>4, <1>5, <1>6, <1>7, <1>8, <1>9 DEF Steps

\* A load that does not fail does every step.
LEMMA AllDone ==
  Before("none") = ToSet(CreateSteps)
<1>1. "none" \notin ToSet(CreateSteps)
  BY StepsOfLoad, Zenon DEF Steps
<1>2. DOMAIN CreateSteps = 1 .. Len(CreateSteps) /\ Len(CreateSteps) \in Nat
  BY StepsOfLoad
<1>3. \A j \in DOMAIN CreateSteps : \A i \in 1 .. j : CreateSteps[i] # "none"
  <2> SUFFICES ASSUME NEW j \in DOMAIN CreateSteps, NEW i \in 1 .. j PROVE CreateSteps[i] # "none"
    OBVIOUS
  <2>1. i \in DOMAIN CreateSteps
    BY <1>2
  <2> QED  BY <1>1, <2>1, Zenon DEF ToSet
<1>4. {j \in DOMAIN CreateSteps : \A i \in 1 .. j : CreateSteps[i] # "none"} = DOMAIN CreateSteps
  BY <1>3, Zenon
<1> QED  BY <1>4, Zenon DEF Before, ToSet

\* The resources, those of the hypervisor, and what a complete load allocates.
LEMMA ResourceSets ==
  /\ Resources = {"mapper", "eptState", "pools", "eptTable", "vmxon", "vmcs", "stack", "msrBitmap",
                  "ioBitmaps", "invalidMsrs", "events", "scriptGlobals", "scriptLocals", "nmi",
                  "log", "guestState"}
  /\ VmmResources = {"vmxon", "vmcs", "stack", "msrBitmap", "ioBitmaps", "invalidMsrs", "eptTable",
                     "eptState", "pools", "nmi", "mapper"}
  /\ "launch" \in Before("none")
  /\ Before("none") \cap Resources = Resources \ DriverEntry
BY StepsOfLoad, AllDone
   DEF Steps, Resources, VmmResources, VmxPerformTermination, VmxTerminate, DebuggerUninitialize,
       MemoryMapperUninitialize, DriverEntry

Life == LifeOK /\ LaunchOK

\* CreateFile of a load that nothing disturbs: refused, or everything is set up.
LEMMA LoadOpensCases ==
  ASSUME Life, FailAt \subseteq {"denied"}, LoadOpens
  PROVE  /\ main = "opening" /\ service' = service /\ modules' = modules /\ event' = event
         /\ reader' = reader
         /\ \/ /\ main' = "idle" /\ handles' = handles /\ inUse' = inUse /\ allow' = allow
               /\ launched' = launched /\ live' = live /\ known' = known
            \/ /\ main' = "starting" /\ handles' = handles \cup {"main"} /\ inUse' /\ allow' /\ launched'
               /\ Allocated((Resources \ DriverEntry) \ (known \cap {"events", "scriptGlobals"}))
               /\ known' = (known \ {"scriptLocals"}) \cup (Resources \ DriverEntry)
<1>1. PICK step \in OpenOutcomes :
        /\ main = "opening" /\ Open(step)
        /\ handles' = IF Opened(step) THEN handles \cup {"main"} ELSE handles
        /\ main' = IF Opened(step) THEN "starting" ELSE "idle"
        /\ UNCHANGED <<svcVars, removing, modules, event, vmxOff, reader>>
  BY Zenon DEF LoadOpens
<1>2. step \in {"none", "denied"}
  BY Zenon DEF OpenOutcomes
<1>3. ~inUse
  BY <1>1, Zenon DEF Life, LifeOK
<1>4. service' = service /\ modules' = modules /\ event' = event /\ reader' = reader
  BY <1>1, Zenon DEF svcVars
<1>5. CASE step = "denied"
  <2>1. ~Opened(step)
    BY <1>5, Zenon DEF Opened
  <2>2. inUse' = inUse /\ allow' = allow /\ launched' = launched /\ live' = live /\ known' = known
    BY <1>1, <1>5, Zenon DEF Open, driverVars
  <2> QED  BY <1>1, <1>4, <2>1, <2>2, Zenon
<1>6. CASE step = "none"
  <2>1. Opened(step) /\ DrvCreate("none")
    BY <1>1, <1>6, Zenon DEF Opened, Open
  <2>2. /\ allow' = TRUE
        /\ Allocated((Before("none") \cap Resources) \ (known \cap {"events", "scriptGlobals"}))
        /\ known' = (known \ {"scriptLocals"}) \cup (Before("none") \cap Resources)
        /\ launched' = (launched \/ "launch" \in Before("none"))
        /\ inUse' = ("none" = "none")
    BY <1>3, <2>1, Zenon DEF DrvCreate
  <2>3. launched' /\ inUse'
    BY <2>2, ResourceSets, Zenon
  <2>4. /\ Allocated((Resources \ DriverEntry) \ (known \cap {"events", "scriptGlobals"}))
        /\ known' = (known \ {"scriptLocals"}) \cup (Resources \ DriverEntry)
    <3>1. Before("none") \cap Resources = Resources \ DriverEntry
      BY ResourceSets, Zenon
    <3> QED  BY <2>2, <3>1, Zenon
  <2> QED  BY <1>1, <1>4, <2>1, <2>2, <2>3, <2>4, Zenon
<1> QED  BY <1>2, <1>5, <1>6, Zenon

\* The reader thread finds the device open and its load complete.
LEMMA ReaderOpensCases ==
  ASSUME Life, FailAt \subseteq {"denied"}, ReaderOpens
  PROVE  /\ reader = "open" /\ reader' = "loop" /\ handles' = handles \cup {"reader"}
         /\ UNCHANGED <<logVars, svcVars, appVars, driverVars>>
<1>1. PICK step \in OpenOutcomes \ {"denied"} :
        /\ reader = "open" /\ Open(step)
        /\ handles' = IF Opened(step) THEN handles \cup {"reader"} ELSE handles
        /\ reader' = IF Opened(step) THEN "loop" ELSE "none"
        /\ UNCHANGED <<svcVars, appVars>>
  BY Zenon DEF ReaderOpens
<1>2. step = "none" /\ Opened(step)
  BY DEF OpenOutcomes, Opened
<1>3. inUse
  BY <1>1, Zenon DEF Life, LifeOK
<1>4. UNCHANGED <<logVars, driverVars>>
  BY <1>1, <1>2, <1>3, Zenon DEF Open, DrvCreate
<1> QED  BY <1>1, <1>2, <1>4, Zenon

\* Every step keeps the life of the driver in order.
LEMMA LifeKept ==
  ASSUME Life, Settle, FailAt \subseteq {"denied"}, [Next]_vars
  PROVE  Life'
<1> USE DEF Life, LifeOK, LaunchOK
<1>1. CASE UNCHANGED vars \/ Sends \/ NotifyStep \/ Dpc \/ Registers \/ \E p \in Pools : Flush(p)
  <2>1. UNCHANGED lifeVars
    BY <1>1, Zenon DEF vars, Sends, NotifyStep, Dpc, Registers, Flush
  <2> QED  BY <2>1, Zenon DEF lifeVars, svcVars, appVars, driverVars
<1>2. CASE CommandLoadVmmModule
  <2>1. /\ main = "idle" /\ "main" \notin handles /\ ~event' /\ modules' = modules /\ reader' = reader
        /\ handles' = handles /\ launched' = launched
        /\ \/ main' = "opening" /\ service' = "running"
           \/ main' = main /\ service' \in {service, "absent"} /\ (service \in {"running", "stopping"} => service' = service)
        /\ inUse' = inUse \/ inUse' = FALSE
    BY <1>2, Zenon DEF CommandLoadVmmModule, HyperDbgInstallVmmDriver, RemoveDriver
  <2> QED  BY <2>1 DEF Threads
<1>3. CASE LoadOpens
  <2> HIDE DEF Life, LifeOK, LaunchOK
  <2>1. /\ main = "opening" /\ service' = service /\ modules' = modules /\ event' = event
        /\ reader' = reader
        /\ \/ /\ main' = "idle" /\ handles' = handles /\ inUse' = inUse /\ allow' = allow
              /\ launched' = launched
           \/ main' = "starting" /\ handles' = handles \cup {"main"} /\ inUse' /\ allow' /\ launched'
    BY <1>3, LoadOpensCases, Zenon
  <2>2. /\ service = "running" /\ handles = {} /\ ~event /\ reader = "none" /\ ~modules
        /\ ~launched /\ ~inUse
    BY <2>1, Zenon DEF Life, LifeOK, LaunchOK
  <2>3. CASE main' = "idle" /\ handles' = handles /\ inUse' = inUse /\ launched' = launched
    BY <2>1, <2>2, <2>3, Zenon DEF Life, LifeOK, LaunchOK
  <2>4. CASE main' = "starting" /\ handles' = handles \cup {"main"} /\ inUse' /\ allow' /\ launched'
    <3>1. handles' = {"main"}
      BY <2>2, <2>4, Zenon
    <3>2. LifeOK'
      BY <2>1, <2>2, <2>4, <3>1, Zenon DEF LifeOK, Threads
    <3>3. LaunchOK'
      BY <2>1, <2>2, <2>4, <3>1, Zenon DEF LaunchOK
    <3> QED  BY <3>2, <3>3, Zenon DEF Life
  <2> QED  BY <2>1, <2>3, <2>4, Zenon
<1>4. CASE LoadStartsReader
  BY <1>4, Zenon DEF LoadStartsReader, svcVars, driverVars
<1>5. CASE LoadReturns
  BY <1>5, Zenon DEF LoadReturns, svcVars, driverVars
<1>6. CASE TerminateVmx
  BY <1>6, Zenon DEF TerminateVmx, svcVars
<1>7. CASE ReturnIrpAndDisallow
  BY <1>7, Zenon DEF ReturnIrpAndDisallow, svcVars
<1>8. CASE UnloadSetsFlag
  BY <1>8, Zenon DEF UnloadSetsFlag, svcVars, driverVars
<1>9. CASE UnloadCloses
  BY <1>9, Zenon DEF UnloadCloses, DrvClose, svcVars, Threads
<1>10. CASE HyperDbgStopVmmDriver
  BY <1>10, Zenon DEF HyperDbgStopVmmDriver, driverVars
<1>11. CASE HyperDbgUninstallVmmDriver
  BY <1>11, Zenon DEF HyperDbgUninstallVmmDriver, RemoveDriver, driverVars
<1>12. CASE ReaderOpens
  BY <1>12, ReaderOpensCases, Zenon DEF svcVars, appVars, driverVars, Threads
<1>13. CASE ReadIrpBasedBuffer
  BY <1>13, Zenon DEF ReadIrpBasedBuffer, DrvClose, svcVars, appVars, Threads
<1>14. CASE ReaderRegisters
  BY <1>14, Zenon DEF ReaderRegisters, svcVars, appVars, driverVars
<1>15. CASE ReaderReturns
  BY <1>15, Zenon DEF ReaderReturns, svcVars, driverVars
<1>16. CASE DrvUnload
  <2>1. /\ handles = {} /\ main' = main /\ modules' = modules /\ event' = event /\ reader' = reader
        /\ handles' = handles /\ inUse' = inUse /\ launched' = launched /\ service = "stopping"
    BY <1>16, Zenon DEF DrvUnload, appVars
  <2> QED  BY <2>1, Zenon
<1>17. CASE \E remove \in BOOLEAN : CommandUnload(remove)
  BY <1>17 DEF CommandUnload, svcVars, driverVars
<1> QED  BY <1>1, <1>2, <1>3, <1>4, <1>5, <1>6, <1>7, <1>8, <1>9, <1>10, <1>11, <1>12, <1>13, <1>14,
            <1>15, <1>16, <1>17, Zenon DEF Next, MainStep, ReaderStep

\* Allocating raises the count of just what is allocated.
LEMMA AllocatedAt ==
  ASSUME live \in [Resources -> Nat], NEW R, Allocated(R)
  PROVE  /\ live' \in [Resources -> Nat]
         /\ \A r \in Resources : /\ live'[r] >= live[r]
                                 /\ r \in R => live'[r] > 0
                                 /\ r \notin R => live'[r] = live[r]
                                 /\ r \in R /\ live[r] = 0 => live'[r] = 1
BY DriverAssumption DEF Allocated

\* Every step keeps what is allocated and known.
LEMMA KnownKept ==
  ASSUME Life, KnownOK, Settle, FailAt \subseteq {"denied"}, [Next]_vars
  PROVE  KnownOK'
<1>0. /\ live \in [Resources -> Nat] /\ known \subseteq Resources
      /\ \A r \in VmmResources : live[r] = IF launched THEN 1 ELSE 0
      /\ \A r \in known : live[r] > 0
      /\ service \in {"running", "stopping"} => DriverEntry \subseteq known
      /\ launched => VmmResources \cup {"events"} \subseteq known
  BY Zenon DEF KnownOK
<1>a. /\ VmmResources \subseteq Resources /\ DriverEntry \subseteq Resources
      /\ VmmResources \cap DriverEntry = {} /\ "scriptLocals" \notin VmmResources \cup DriverEntry
      /\ "events" \in Resources \ DriverEntry
      /\ VmmResources \cap {"events", "scriptGlobals"} = {}
  BY ResourceSets, Zenon DEF DriverEntry
<1>1. ASSUME live' = live, known' = known, launched' = launched,
             service' \in {"running", "stopping"} => service \in {"running", "stopping"}
      PROVE  KnownOK'
  BY <1>0, <1>1, Zenon DEF KnownOK
<1>2. CASE \/ UNCHANGED vars \/ Sends \/ NotifyStep \/ Dpc \/ Registers \/ (\E p \in Pools : Flush(p))
           \/ LoadStartsReader \/ LoadReturns \/ UnloadSetsFlag \/ HyperDbgStopVmmDriver
           \/ ReaderRegisters \/ ReaderReturns \/ (\E remove \in BOOLEAN : CommandUnload(remove))
           \/ ReturnIrpAndDisallow \/ UnloadCloses \/ ReadIrpBasedBuffer \/ HyperDbgUninstallVmmDriver
  <2>1. /\ live' = live /\ known' = known /\ launched' = launched
        /\ service' \in {"running", "stopping"} => service \in {"running", "stopping"}
    <3>1. CASE UNCHANGED vars \/ Sends \/ NotifyStep \/ Dpc \/ Registers \/ (\E p \in Pools : Flush(p))
      <4>1. UNCHANGED lifeVars
        BY <3>1, Zenon DEF vars, Sends, NotifyStep, Dpc, Registers, Flush
      <4> QED  BY <4>1, Zenon DEF lifeVars, svcVars, driverVars
    <3>2. CASE LoadStartsReader \/ LoadReturns \/ UnloadSetsFlag \/ HyperDbgStopVmmDriver
      BY <3>2, Zenon DEF LoadStartsReader, LoadReturns, UnloadSetsFlag, HyperDbgStopVmmDriver, svcVars, driverVars
    <3>3. CASE ReaderRegisters \/ ReaderReturns \/ (\E remove \in BOOLEAN : CommandUnload(remove))
      BY <3>3, Zenon DEF ReaderRegisters, ReaderReturns, CommandUnload, svcVars, driverVars
    <3>4. CASE ReturnIrpAndDisallow \/ UnloadCloses \/ ReadIrpBasedBuffer \/ HyperDbgUninstallVmmDriver
      BY <3>4, Zenon DEF ReturnIrpAndDisallow, UnloadCloses, ReadIrpBasedBuffer, HyperDbgUninstallVmmDriver,
                  RemoveDriver, svcVars, driverVars
    <3> QED  BY <1>2, <3>1, <3>2, <3>3, <3>4, Zenon
  <2> QED  BY <1>1, <2>1, Zenon
<1>3. CASE CommandLoadVmmModule
  <2>1. /\ launched' = launched /\ "main" \notin handles
        /\ \/ /\ live' = live /\ known' = known
              /\ service' \in {"running", "stopping"} => service \in {"running", "stopping"}
           \/ Allocated(DriverEntry) /\ known' = DriverEntry
    BY <1>3, Zenon DEF CommandLoadVmmModule, HyperDbgInstallVmmDriver, RemoveDriver
  <2>2. ~launched
    BY <2>1, Zenon DEF Life, LaunchOK
  <2>3. CASE Allocated(DriverEntry) /\ known' = DriverEntry
    <3>1. /\ live' \in [Resources -> Nat] /\ \A r \in DriverEntry : live'[r] > 0
          /\ \A r \in VmmResources : live'[r] = live[r]
      BY <1>0, <1>a, <2>3, AllocatedAt, Zenon
    <3> QED  BY <1>0, <1>a, <2>1, <2>2, <2>3, <3>1 DEF KnownOK
  <2> QED  BY <1>1, <2>1, <2>3, Zenon
<1>4. CASE LoadOpens
  <2> DEFINE R == (Resources \ DriverEntry) \ (known \cap {"events", "scriptGlobals"})
  <2>1. /\ main = "opening" /\ service' = service
        /\ \/ live' = live /\ known' = known /\ launched' = launched
           \/ launched' /\ Allocated(R) /\ known' = (known \ {"scriptLocals"}) \cup (Resources \ DriverEntry)
    BY <1>4, LoadOpensCases, Zenon
  <2>2. ~launched
    BY <2>1, Zenon DEF Life, LifeOK, LaunchOK
  <2>3. CASE launched' /\ Allocated(R) /\ known' = (known \ {"scriptLocals"}) \cup (Resources \ DriverEntry)
    <3>1. /\ live' \in [Resources -> Nat]
          /\ \A r \in Resources : /\ live'[r] >= live[r]
                                  /\ r \in R => live'[r] > 0
                                  /\ r \in R /\ live[r] = 0 => live'[r] = 1
      BY <1>0, <2>3, AllocatedAt, Zenon
    <3>2. \A r \in VmmResources : live'[r] = 1
      <4> SUFFICES ASSUME NEW r \in VmmResources PROVE live'[r] = 1
        BY Zenon
      <4>1. r \in R /\ r \in Resources /\ live[r] = 0
        BY <1>0, <1>a, <2>2, Zenon
      <4> QED  BY <3>1, <4>1, Zenon
    <3>3. \A r \in known' : live'[r] > 0
      <4> SUFFICES ASSUME NEW r \in known' PROVE live'[r] > 0
        BY Zenon
      <4>1. r \in Resources /\ (r \in R \/ r \in known)
        BY <1>0, <2>3, Zenon
      <4>2. CASE r \in known
        <5>1. live[r] > 0 /\ live[r] \in Nat /\ live'[r] \in Nat /\ live'[r] >= live[r]
          BY <1>0, <3>1, <4>1, <4>2, Zenon
        <5> QED  BY <5>1
      <4> QED  BY <3>1, <4>1, <4>2, Zenon
    <3>4. known' \subseteq Resources /\ VmmResources \cup {"events"} \subseteq known'
      BY <1>0, <1>a, <2>3, Zenon
    <3>5. service' \in {"running", "stopping"} => DriverEntry \subseteq known'
      BY <1>0, <1>a, <2>1, <2>3, Zenon
    <3> QED  BY <2>3, <3>1, <3>2, <3>3, <3>4, <3>5 DEF KnownOK
  <2> HIDE DEF R
  <2> QED  BY <1>1, <2>1, <2>3, Zenon
<1>5. CASE TerminateVmx
  <2>1. /\ service' = service /\ main = "terminate"
        /\ IF allow
           THEN launched' = FALSE /\ Freed(VmmResources) /\ known' = known \ VmmResources
           ELSE UNCHANGED <<launched, live, known>>
    BY <1>5, Zenon DEF TerminateVmx, svcVars
  <2>2. allow /\ launched
    BY <2>1, Zenon DEF Life, LifeOK, LaunchOK
  <2>3. live' = [r \in Resources |-> IF r \in VmmResources THEN live[r] - 1 ELSE live[r]]
    BY <2>1, <2>2, Zenon DEF Freed
  <2>4. /\ live' \in [Resources -> Nat] /\ \A r \in VmmResources : live'[r] = 0
        /\ \A r \in known \ VmmResources : live'[r] > 0
    BY <1>0, <1>a, <2>2, <2>3
  <2>5. launched' = FALSE /\ known' = known \ VmmResources
    BY <2>1, <2>2, Zenon
  <2> QED  BY <1>0, <1>a, <2>1, <2>4, <2>5 DEF KnownOK
<1>6. CASE ReaderOpens
  <2>1. UNCHANGED <<svcVars, driverVars>>
    BY <1>6, ReaderOpensCases, Zenon
  <2> QED  BY <1>1, <2>1, Zenon DEF svcVars, driverVars
<1>7. CASE DrvUnload
  <2>1. /\ service' \in {"absent", "stopped"} /\ known' = {} /\ launched' = launched
        /\ live' = [r \in Resources |-> IF r \in known \ VmmResources THEN live[r] - 1 ELSE live[r]]
    BY <1>7, Zenon DEF DrvUnload, Freed
  <2>2. handles = {}
    BY <1>7, Zenon DEF DrvUnload
  <2>3. ~launched
    BY <2>2, Zenon DEF Life, LaunchOK
  <2>4. live' \in [Resources -> Nat] /\ \A r \in VmmResources : live'[r] = live[r]
    BY <1>0, <1>a, <2>1
  <2> QED  BY <1>0, <2>1, <2>3, <2>4, Zenon DEF KnownOK
<1> QED  BY <1>2, <1>3, <1>4, <1>5, <1>6, <1>7, Zenon DEF Next, MainStep, ReaderStep

\* Both hold before the driver is installed.
LEMMA LifeInit ==
  Init => Life /\ KnownOK
<1> SUFFICES ASSUME Init PROVE Life /\ KnownOK
  OBVIOUS
<1>1. /\ service = "absent" /\ reader = "none" /\ handles = {} /\ main = "idle" /\ ~modules
      /\ ~event /\ ~inUse /\ ~launched /\ live = [r \in Resources |-> 0] /\ known = {}
  BY Zenon DEF Init
<1>2. Life
  BY <1>1, Zenon DEF Life, LifeOK, LaunchOK
<1>3. \A r \in VmmResources : r \in Resources
  BY ResourceSets, Zenon
<1>4. KnownOK
  BY <1>1, <1>3, Zenon DEF KnownOK
<1> QED  BY <1>2, <1>4, Zenon

\* Every load of DrvCreate launches the cores once and every IOCTL_TERMINATE_VMX
\* frees just what VmxInitialize and its companions allocated, over any number of
\* loads, unloads and removals of the driver; and the handlers that the main thread
\* can reach find what they use.  The load meets no error but the missing
\* privilege, and Sleep(1000) outlasts the reader thread; messages may race.
THEOREM ResourcesStayInPlace ==
  ASSUME Settle, FailAt \subseteq {"denied"}
  PROVE  Spec => []ResourcesInPlace
<1>1. Life /\ KnownOK => ResourcesInPlace
  <2> SUFFICES ASSUME Life, KnownOK PROVE ResourcesInPlace
    OBVIOUS
  <2>1. \A r \in VmmResources : live[r] = IF launched THEN 1 ELSE 0
    BY Zenon DEF KnownOK
  <2>2. ASSUME main = "idle", "main" \in handles, NEW h \in Handlers
        PROVE  h \subseteq Usable
    <3>1. launched /\ service \in {"running", "stopping"}
      BY <2>2, Zenon DEF Life, LifeOK, LaunchOK
    <3>2. VmmResources \cup {"events"} \cup DriverEntry \subseteq known
      BY <3>1, Zenon DEF KnownOK
    <3>3. /\ "launched" \in Usable
          /\ \A r \in VmmResources \cup {"events"} \cup DriverEntry : r \in Usable
      BY <3>1, <3>2, Zenon DEF KnownOK, Usable
    <3>4. h \subseteq {"launched", "events", "pools", "eptState", "msrBitmap", "ioBitmaps", "mapper",
                       "guestState", "log", "nmi"}
      BY Zenon DEF Handlers
    <3>5. {"events", "pools", "eptState", "msrBitmap", "ioBitmaps", "mapper", "guestState", "log", "nmi"}
            \subseteq VmmResources \cup {"events"} \cup DriverEntry
      BY ResourceSets, Zenon DEF DriverEntry
    <3> QED  BY <3>3, <3>4, <3>5, Zenon
  <2> QED  BY <2>1, <2>2, Zenon DEF ResourcesInPlace
<1>2. Life /\ KnownOK /\ [Next]_vars => (Life /\ KnownOK)'
  BY LifeKept, KnownKept, Zenon
<1> QED  BY <1>1, <1>2, LifeInit, PTL DEF Spec

-----------------------------------------------------------------------------
(* The rings are queues                                                      *)

Ordered(r, n) == [k \in 1 .. n |-> slots[r][Wrap(r, send[r] + (k - 1))]]

\* WaitingIs, of both states of a step.
WaitingInOrder ==
  \A r \in Rings : \A n \in 0 .. Size(r) : Shape(r, n) => Waiting(r) = Ordered(r, n)

\* What waits in a ring is its run of messages, from the send index on.
LEMMA InOrder ==
  LogTypes => WaitingInOrder
BY WaitingIs, Zenon DEF WaitingInOrder, Ordered

\* The run of messages as a sequence.
LEMMA OrderedIsSeq ==
  ASSUME LogTypes, NEW r \in Rings, NEW n \in 0 .. Size(r), Shape(r, n)
  PROVE  /\ Ordered(r, n) \in Seq(Messages) /\ Len(Ordered(r, n)) = n
         /\ \A k \in 1 .. n : Ordered(r, n)[k] = slots[r][Wrap(r, send[r] + (k - 1))]
<1>1. Size(r) \in Nat /\ slots[r] \in [0 .. Size(r) - 1 -> Messages \cup {Empty}]
  BY Sizes, Zenon DEF LogTypes
<1>2. ASSUME NEW k \in 1 .. n PROVE slots[r][Wrap(r, send[r] + (k - 1))] \in Messages
  <2>1. k - 1 \in 0 .. Size(r) - 1 /\ k - 1 \in 0 .. Size(r) /\ k - 1 < n
    BY <1>1
  <2>2. Wrap(r, send[r] + (k - 1)) \in 0 .. Size(r) - 1
    BY <2>1, Around, Zenon
  <2>3. slots[r][Wrap(r, send[r] + (k - 1))] # Empty
    BY <2>1, Zenon DEF Shape
  <2> QED  BY <1>1, <2>2, <2>3, Zenon
<1>3. n \in Nat
  BY <1>1
<1> QED  BY <1>2, <1>3 DEF Ordered

\* A sequence is a function on its indices.
LEMMA SeqIsFunction ==
  ASSUME NEW S, NEW s \in Seq(S)
  PROVE  s \in [1 .. Len(s) -> S]
OBVIOUS

Longer(f, s, m) ==
  /\ f = [k \in 1 .. Len(s) + 1 |-> f[k]]
  /\ (\A k \in 1 .. Len(s) : f[k] = s[k]) /\ f[Len(s) + 1] = m

\* A function that is one longer than a sequence is the sequence with one more element.
LEMMA AppendIs ==
  ASSUME NEW S, NEW s \in Seq(S), NEW m \in S, NEW f, Longer(f, s, m)
  PROVE  f = Append(s, m)
<1> USE DEF Longer
<1>1. Append(s, m) \in Seq(S) /\ Len(Append(s, m)) = Len(s) + 1 /\ Len(s) \in Nat
  OBVIOUS
<1>2. \A k \in 1 .. Len(s) + 1 : Append(s, m)[k] = f[k]
  OBVIOUS
<1>3. Append(s, m) = [k \in 1 .. Len(s) + 1 |-> Append(s, m)[k]]
  <2>1. Append(s, m) \in [1 .. Len(s) + 1 -> S]
    BY <1>1, SeqIsFunction, Zenon
  <2> QED  BY <2>1, Zenon
<1> QED  BY <1>2, <1>3, Zenon

\* A function that is one shorter, and one place on, is the tail.
LEMMA TailIs ==
  ASSUME NEW S, NEW s \in Seq(S), Len(s) > 0, NEW f, f = [k \in 1 .. Len(s) - 1 |-> f[k]],
         \A k \in 1 .. Len(s) - 1 : f[k] = s[k + 1]
  PROVE  f = Tail(s) /\ s # <<>>
<1>0. s # <<>>
  OBVIOUS
<1>1. Tail(s) \in Seq(S) /\ Len(Tail(s)) = Len(s) - 1 /\ Len(s) \in Nat
  BY <1>0
<1>2. \A k \in 1 .. Len(s) - 1 : Tail(s)[k] = f[k]
  BY <1>0
<1>3. Tail(s) = [k \in 1 .. Len(s) - 1 |-> Tail(s)[k]]
  <2>1. Tail(s) \in [1 .. Len(s) - 1 -> S]
    BY <1>1, SeqIsFunction, Zenon
  <2> QED  BY <2>1, Zenon
<1> QED  BY <1>0, <1>2, <1>3, Zenon

\* The queue of a ring that no step touches stays.
LEMMA WaitingSame ==
  ASSUME NEW r \in Rings, SameRing(r)
  PROVE  Waiting(r)' = Waiting(r)
BY DEF Waiting, SameRing, Size

\* LogSendBuffer appends to the queue.
LEMMA WaitingSent ==
  ASSUME LogTypes, LogTypes', NEW r \in Rings, NEW n \in 0 .. Size(r), Shape(r, n),
         NEW m \in Messages, LogSendBuffer(r, m), slots[r][WriteIndex(r)] = Empty
  PROVE  Waiting(r)' = Append(Waiting(r), m)
<1>1. /\ n < Size(r) /\ Shape(r, n + 1)' /\ slots'[r][Wrap(r, send[r] + n)] = m
      /\ \A k \in 0 .. n - 1 : slots'[r][Wrap(r, send[r] + k)] = slots[r][Wrap(r, send[r] + k)]
  BY Written, Zenon
<1>2. n \in Nat /\ n + 1 \in 0 .. Size(r)
  BY <1>1, Sizes
<1>3. Waiting(r) = Ordered(r, n)
  BY InOrder, Zenon DEF WaitingInOrder
<1>4. WaitingInOrder'
  BY InOrder, PTL
<1>5. Waiting(r)' = Ordered(r, n + 1)'
  BY <1>1, <1>2, <1>4, Zenon DEF WaitingInOrder, Size
<1>6. send' = send
  BY Zenon DEF LogSendBuffer
<1>7. Ordered(r, n + 1)' = [k \in 1 .. n + 1 |-> slots'[r][Wrap(r, send[r] + (k - 1))]]
  BY <1>6, Zenon DEF Ordered, Wrap, Size
<1>8. \A k \in 1 .. n : slots'[r][Wrap(r, send[r] + (k - 1))] = Ordered(r, n)[k]
  <2> SUFFICES ASSUME NEW k \in 1 .. n
               PROVE  slots'[r][Wrap(r, send[r] + (k - 1))] = Ordered(r, n)[k]
    BY Zenon
  <2>1. k - 1 \in 0 .. n - 1
    BY <1>2
  <2> QED  BY <1>1, <2>1, OrderedIsSeq, Zenon
<1>9. slots'[r][Wrap(r, send[r] + ((n + 1) - 1))] = m
  <2>1. (n + 1) - 1 = n
    BY <1>2
  <2> QED  BY <1>1, <2>1, Zenon
<1> DEFINE f == [k \in 1 .. n + 1 |-> slots'[r][Wrap(r, send[r] + (k - 1))]]
<1>10. /\ DOMAIN f = 1 .. n + 1 /\ (\A k \in 1 .. n : f[k] = Ordered(r, n)[k]) /\ f[n + 1] = m
       /\ f = [k \in 1 .. n + 1 |-> f[k]]
  BY <1>2, <1>8, <1>9
<1> HIDE DEF f
<1>11. f = Append(Ordered(r, n), m)
  <2>1. Ordered(r, n) \in Seq(Messages) /\ Len(Ordered(r, n)) = n
    BY OrderedIsSeq, Zenon
  <2>2. Longer(f, Ordered(r, n), m)
    BY <1>10, <2>1, Zenon DEF Longer
  <2> QED  BY <2>1, <2>2, AppendIs, Zenon
<1> QED  BY <1>3, <1>5, <1>7, <1>11, Zenon DEF f

\* LogReadBuffer takes the head of the queue.
LEMMA WaitingTaken ==
  ASSUME LogTypes, LogTypes', NEW r \in Rings, NEW n \in 0 .. Size(r), Shape(r, n),
         LogCheckForNewMessage(r), Take(r)
  PROVE  Waiting(r) # <<>> /\ Waiting(r)' = Tail(Waiting(r))
<1>1. /\ n > 0 /\ Shape(r, n - 1)'
      /\ \A k \in 0 .. Size(r) - 1 : Wrap(r, send'[r] + k) = Wrap(r, send[r] + (k + 1))
      /\ \A k \in 1 .. Size(r) - 1 :
           slots'[r][Wrap(r, send[r] + k)] = slots[r][Wrap(r, send[r] + k)]
  BY Taken, Zenon
<1>2. n \in Nat /\ n - 1 \in 0 .. Size(r) /\ Size(r) \in Nat /\ n <= Size(r)
  BY <1>1, Sizes
<1>3. Waiting(r) = Ordered(r, n)
  BY InOrder, Zenon DEF WaitingInOrder
<1>4. WaitingInOrder'
  BY InOrder, PTL
<1>5. Waiting(r)' = Ordered(r, n - 1)'
  BY <1>1, <1>2, <1>4, Zenon DEF WaitingInOrder, Size
<1>7. Ordered(r, n - 1)' = [k \in 1 .. n - 1 |-> slots'[r][Wrap(r, send'[r] + (k - 1))]]
  BY Zenon DEF Ordered, Wrap, Size
<1> DEFINE f == [k \in 1 .. n - 1 |-> slots'[r][Wrap(r, send'[r] + (k - 1))]]
<1>8. \A k \in 1 .. n - 1 : f[k] = Ordered(r, n)[k + 1]
  <2> SUFFICES ASSUME NEW k \in 1 .. n - 1 PROVE f[k] = Ordered(r, n)[k + 1]
    BY Zenon
  <2>1. /\ k - 1 \in 0 .. Size(r) - 1 /\ (k - 1) + 1 = k /\ k \in 1 .. Size(r) - 1
        /\ k + 1 \in 1 .. n /\ (k + 1) - 1 = k
    BY <1>2
  <2>2. f[k] = slots[r][Wrap(r, send[r] + k)]
    BY <1>1, <2>1, Zenon
  <2>3. Ordered(r, n)[k + 1] = slots[r][Wrap(r, send[r] + ((k + 1) - 1))]
    BY <2>1, OrderedIsSeq, Zenon
  <2> QED  BY <2>1, <2>2, <2>3, Zenon
<1>9. DOMAIN f = 1 .. n - 1 /\ f = [k \in 1 .. n - 1 |-> f[k]]
  BY Zenon
<1> HIDE DEF f
<1>10. f = Tail(Ordered(r, n)) /\ Ordered(r, n) # <<>>
  <2>1. Ordered(r, n) \in Seq(Messages) /\ Len(Ordered(r, n)) = n
    BY OrderedIsSeq, Zenon
  <2> QED  BY <1>1, <1>8, <1>9, <2>1, TailIs, Zenon
<1> QED  BY <1>3, <1>5, <1>7, <1>10, Zenon DEF f

\* A ring without a message is the empty queue.
LEMMA WaitingNone ==
  ASSUME NEW r \in Rings
  PROVE  WaitingInOrder /\ Shape(r, 0) => Waiting(r) = <<>>
<1>1. 0 \in 0 .. Size(r)
  BY Sizes
<1>2. Ordered(r, 0) = <<>>
  BY DEF Ordered
<1> QED  BY <1>1, <1>2, Zenon DEF WaitingInOrder

IsLoaded == service \in {"running", "stopping"}

\* Messages come and go only while the driver is loaded.
LEMMA LoadedThere ==
  ASSUME Life, Owned, FailAt \subseteq {"denied"}, [Next]_vars
  PROVE  SameRings \/ DrvUnload \/ (IsLoaded /\ IsLoaded')
<1>1. CASE \/ UNCHANGED vars \/ CommandLoadVmmModule \/ LoadStartsReader \/ LoadReturns \/ TerminateVmx
           \/ UnloadSetsFlag \/ UnloadCloses \/ HyperDbgStopVmmDriver \/ HyperDbgUninstallVmmDriver
           \/ ReadIrpBasedBuffer \/ (\E remove \in BOOLEAN : CommandUnload(remove))
  BY <1>1, Zenon DEF vars, logVars, SameRings, CommandLoadVmmModule, LoadStartsReader, LoadReturns, TerminateVmx,
              UnloadSetsFlag, UnloadCloses, HyperDbgStopVmmDriver, HyperDbgUninstallVmmDriver,
              ReadIrpBasedBuffer, CommandUnload
<1>2. CASE NotifyStep \/ Registers \/ ReaderRegisters \/ ReaderReturns
  BY <1>2, Zenon DEF NotifyStep, NotifyTest, NotifyQueue, NotifyReset, Registers, RegisterRecord, rings, SameRings,
              ReaderRegisters, LogRegisterIrpBasedNotification, ReaderReturns, logVars
<1>3. CASE LoadOpens
  <2>1. main = "opening" /\ service' = service
    BY <1>3, LoadOpensCases, Zenon
  <2> QED  BY <2>1, Zenon DEF Life, LifeOK, IsLoaded
<1>4. CASE ReturnIrpAndDisallow
  <2>1. main = "return" /\ service' = service
    BY <1>4, Zenon DEF ReturnIrpAndDisallow, svcVars
  <2> QED  BY <2>1, Zenon DEF Life, LifeOK, IsLoaded
<1>5. CASE ReaderOpens
  <2>1. UNCHANGED logVars
    BY <1>5, ReaderOpensCases, Zenon
  <2> QED  BY <2>1, Zenon DEF logVars, SameRings
<1>6. CASE Sends
  <2>1. (launched \/ "main" \in handles) /\ service' = service
    BY <1>6, Zenon DEF Sends, MayLog, lifeVars, svcVars
  <2> QED  BY <2>1, Zenon DEF Life, LifeOK, LaunchOK, IsLoaded
<1>7. CASE Dpc
  <2>1. dpc # NoPool /\ service' = service
    BY <1>7, Zenon DEF Dpc, LogNotifyUsermodeCallback, lifeVars, svcVars
  <2>2. irp = "pending"
    BY <2>1, Zenon DEF Owned, OwnerOK
  <2>3. "reader" \in handles
    BY <2>2, Zenon DEF Owned, ReaderOK
  <2> QED  BY <2>1, <2>3, Zenon DEF Life, LifeOK, IsLoaded
<1>8. CASE \E p \in Pools : Flush(p)
  <2>1. "main" \in handles /\ service' = service
    BY <1>8, Zenon DEF Flush, lifeVars, svcVars
  <2> QED  BY <2>1, Zenon DEF Life, LifeOK, IsLoaded
<1> QED  BY <1>1, <1>2, <1>3, <1>4, <1>5, <1>6, <1>7, <1>8, Zenon DEF Next, MainStep, ReaderStep

\* An empty ring is an empty queue, after a step.
LEMMA WaitingNonePrimed ==
  ASSUME WaitingInOrder', NEW r \in Rings, Shape(r, 0)'
  PROVE  Waiting(r)' = <<>>
<1>1. 0 \in 0 .. Size(r)
  BY Sizes
<1>2. Ordered(r, 0)' = <<>>
  BY DEF Ordered
<1> QED  BY <1>1, <1>2, Zenon DEF WaitingInOrder, Size

QueueOf == [r \in Rings |-> Waiting(r)]

\* A step that changes one ring is one of LogQueue's if the ring's queue is.
LEMMA QueueChange ==
  ASSUME NEW r \in Rings, \A q \in Rings \ {r} : SameRing(q), IsLoaded, IsLoaded',
         \/ \E m \in Messages : Waiting(r)' = Append(Waiting(r), m)
         \/ /\ r[2] \/ Waiting(<<r[1], TRUE>>) = <<>>
            /\ Waiting(r) # <<>> /\ Waiting(r)' = Tail(Waiting(r))
         \/ ~r[2] /\ Waiting(r)' = <<>>
  PROVE  Queue!Next
<1>1. \A q \in Rings \ {r} : Waiting(q)' = Waiting(q)
  BY WaitingSame, Zenon
<1>2. /\ \A q \in Rings : QueueOf[q] = Waiting(q)
      /\ \A q \in Rings : QueueOf'[q] = Waiting(q)'
  BY Zenon DEF QueueOf
<1>3. <<r[1], TRUE>> \in Rings
  BY Zenon DEF Rings
<1>4. Queue!Only(r, QueueOf, QueueOf')
  BY <1>1, <1>2, Zenon DEF Queue!Only, Queue!Rings, Rings
<1>5. Queue!Write(r, QueueOf, QueueOf') \/ Queue!Read(r, QueueOf, QueueOf') \/ Queue!Flush(r, QueueOf, QueueOf')
  BY <1>2, <1>3, <1>4, Zenon DEF Queue!Write, Queue!Read, Queue!Flush
<1> QED  BY <1>5, Zenon DEF Queue!Next, Queue!Rings, Rings, QueueOf, IsLoaded

\* Every step is a step of LogQueue or leaves the queues as they are.
LEMMA QueueStep ==
  ASSUME Heard, Heard', Life, Races = {}, FailAt \subseteq {"denied"}, [Next]_vars
  PROVE  Queue!Next \/ UNCHANGED QueueOf
<1>1. /\ Owned /\ LogTypes /\ OwnTypes /\ RingsOK /\ LogTypes' /\ RingsOK'
      /\ \A r \in Rings : \E n \in 0 .. Size(r) : Shape(r, n)
  BY Zenon DEF Heard, Owned, RingsOK
<1>2. CASE SameRings
  <2>1. \A r \in Rings : SameRing(r)
    BY <1>2, Zenon DEF SameRings, SameRing
  <2>2. \A r \in Rings : Waiting(r)' = Waiting(r)
    BY <2>1, WaitingSame, Zenon
  <2> QED  BY <2>2, Zenon DEF QueueOf
<1>3. CASE DrvUnload
  <2>1. Fresh'
    BY <1>3, Zenon DEF DrvUnload, LogUnInitialize, Fresh, Size
  <2>2. (LogTypes /\ \A r \in Rings : Shape(r, 0))'
    BY <2>1, FreshTypes, PTL
  <2>3. WaitingInOrder'
    BY <2>2, InOrder, PTL
  <2>4. \A r \in Rings : Waiting(r)' = <<>>
    BY <2>2, <2>3, WaitingNonePrimed, Zenon
  <2>5. IsLoaded /\ ~IsLoaded'
    BY <1>3, Zenon DEF DrvUnload, IsLoaded
  <2>6. \A r \in Rings : QueueOf'[r] = <<>>
    BY <2>4, Zenon DEF QueueOf
  <2> QED  BY <2>5, <2>6, Zenon DEF Queue!Next, Queue!Discard, Queue!Rings, Rings, QueueOf, IsLoaded
<1>4. CASE IsLoaded /\ IsLoaded' /\ Sent
  <2>1. PICK r \in Rings, m \in Messages : LogSendBuffer(r, m)
    BY <1>4, Zenon DEF Sent
  <2>2. slots[r][WriteIndex(r)] = Empty
    BY <2>1, Zenon DEF LogSendBuffer
  <2>3. PICK n \in 0 .. Size(r) : Shape(r, n)
    BY <1>1, Zenon
  <2>4. Waiting(r)' = Append(Waiting(r), m)
    BY <1>1, <2>1, <2>2, <2>3, WaitingSent, Zenon
  <2>5. \A q \in Rings \ {r} : SameRing(q)
    BY <1>1, <2>1, SentTypes, Zenon
  <2> QED  BY <1>4, <2>4, <2>5, QueueChange, Zenon
<1>5. CASE IsLoaded /\ IsLoaded' /\ LogNotifyUsermodeCallback
  <2>1. dpc \in Pools
    BY <1>1, <1>5, Zenon DEF LogNotifyUsermodeCallback, OwnTypes
  <2>2. ASSUME NEW prio \in BOOLEAN, LogCheckForNewMessage(<<dpc, prio>>), Take(<<dpc, prio>>),
               prio \/ ~LogCheckForNewMessage(<<dpc, TRUE>>)
        PROVE  Queue!Next
    <3>1. PICK r \in Rings : r = <<dpc, prio>>
      BY <2>1, Zenon DEF Rings
    <3>2. PICK n \in 0 .. Size(r) : Shape(r, n)
      BY <1>1, Zenon
    <3>3. Waiting(r) # <<>> /\ Waiting(r)' = Tail(Waiting(r))
      BY <1>1, <2>2, <3>1, <3>2, WaitingTaken, Zenon
    <3>4. \A q \in Rings \ {r} : SameRing(q)
      BY <1>1, <2>2, <3>1, TakenTypes, Zenon
    <3>5. r[1] = dpc /\ r[2] = prio
      BY <3>1, Zenon
    <3>6. ASSUME ~prio PROVE Waiting(<<dpc, TRUE>>) = <<>>
      <4>1. PICK t \in Rings : t = <<dpc, TRUE>>
        BY <2>1, Zenon DEF Rings
      <4>2. PICK j \in 0 .. Size(t) : Shape(t, j)
        BY <1>1, Zenon
      <4>3. ~LogCheckForNewMessage(t)
        BY <2>2, <3>6, <4>1, Zenon
      <4>4. j = 0
        <5>1. 0 \in 0 .. Size(t) - 1 /\ Wrap(t, send[t] + 0) = send[t]
          BY <1>1, Around, Sizes
        <5>2. ~(0 < j)
          BY <4>2, <4>3, <5>1, Zenon DEF Shape, LogCheckForNewMessage
        <5> QED  BY <5>2, Sizes
      <4>5. WaitingInOrder /\ Shape(t, 0)
        BY <1>1, <4>2, <4>4, InOrder, Zenon
      <4> QED  BY <4>1, <4>5, WaitingNone, Zenon
    <3> QED  BY <1>5, <3>3, <3>4, <3>5, <3>6, QueueChange, Zenon
  <2> QED  BY <1>2, <1>5, <2>1, <2>2, DpcCases, Zenon
<1>6. CASE IsLoaded /\ IsLoaded' /\ Flushed
  <2>1. PICK p \in Pools : LogMarkAllAsRead(p)
    BY <1>6, Zenon DEF Flushed
  <2>2. PICK r \in Rings : r = <<p, FALSE>>
    BY Zenon DEF Rings
  <2>3. PICK n \in 0 .. Size(r) : Shape(r, n)
    BY <1>1, Zenon
  <2>4. Shape(r, 0)' /\ \A q \in Rings \ {r} : SameRing(q)
    BY <1>1, <2>1, <2>2, <2>3, Cleared, ClearedTypes, Zenon
  <2>5. WaitingInOrder'
    BY <1>1, InOrder, PTL
  <2>6. Waiting(r)' = <<>>
    BY <2>4, <2>5, WaitingNonePrimed, Zenon
  <2>7. ~r[2]
    BY <2>2, Zenon
  <2> QED  BY <1>6, <2>4, <2>6, <2>7, QueueChange, Zenon
<1>7. CASE Unlogged \/ Notified \/ LogRegisterIrpBasedNotification \/ RegisterRecord \/ Returned
  <2>1. SameRings
    BY <1>7, Zenon DEF SameRings, Unlogged, Notified, NotifyTest, NotifyQueue, NotifyReset, rings,
                LogRegisterIrpBasedNotification, RegisterRecord, Returned
  <2> QED  BY <1>2, <2>1, Zenon
<1> QED  BY <1>1, <1>2, <1>3, <1>4, <1>5, <1>6, <1>7, LogCases, LoadedThere, Zenon

\* Message tracing implements LogQueue, for buffers of every size: no message is
\* lost, repeated or overtaken in its ring, and LogNotifyUsermodeCallback reads the
\* priority ring of a pool first, wherever the write and send indices wrap, over
\* any number of loads and unloads.  No sender meets a full ring, no load fails
\* half-way and Sleep(1000) outlasts the reader thread.
THEOREM RingsImplementQueues ==
  ASSUME Races = {}, Settle, FailAt \subseteq {"denied"}
  PROVE  Spec => RingsAreQueues
<1>1. Init => Queue!Init
  <2> SUFFICES ASSUME Init PROVE Queue!Init
    BY Zenon
  <2>1. Fresh
    BY Zenon DEF Init, LogInitialize, Fresh
  <2>2. WaitingInOrder /\ \A r \in Rings : Shape(r, 0)
    BY <2>1, FreshTypes, InOrder, Zenon
  <2>3. \A r \in Rings : Waiting(r) = <<>>
    BY <2>2, WaitingNone, Zenon
  <2>4. service \notin {"running", "stopping"}
    BY Zenon DEF Init
  <2> QED  BY <2>3, <2>4 DEF Queue!Init, Queue!Rings, Rings
<1>2. Heard /\ Heard' /\ Life /\ [Next]_vars => [Queue!Next]_QueueOf
  BY QueueStep, Zenon
<1>3. Life /\ [Next]_vars => Life'
  BY LifeKept, Zenon
<1>4. Init => Life
  BY LifeInit, Zenon
<1>5. Spec => [](Heard /\ Life)
  BY <1>3, <1>4, HeardInit, HeardNext, PTL DEF Spec
<1>6. Spec => Queue!Init /\ [][Queue!Next]_QueueOf
  BY <1>1, <1>2, <1>5, PTL DEF Spec
<1> QED  BY <1>6, PTL DEF RingsAreQueues, Queue!Spec, QueueOf

=============================================================================
