--------------------------- MODULE CharQueueProofs ---------------------------
(***************************************************************************)
(* The character queue is a bounded first-in first-out queue for every     *)
(* capacity that divides the range of its indices, any characters and any  *)
(* batches.                                                                *)
(***************************************************************************)
EXTENDS CharQueue, Integers, SequenceTheorems, TLAPS

(* Division *)

LEMMA Euclid ==
  ASSUME NEW N \in Nat \ {0}, NEW a \in Nat
  PROVE  a \div N \in Nat /\ a % N \in 0 .. N - 1 /\ a = (N * (a \div N)) + (a % N)
BY SMT

LEMMA Remainder ==
  ASSUME NEW N \in Nat \ {0}, NEW q \in Nat, NEW r \in 0 .. N - 1
  PROVE  ((N * q) + r) % N = r
BY SMT

LEMMA Below ==
  ASSUME NEW N \in Nat \ {0}, NEW a \in 0 .. N - 1
  PROVE  a % N = a
BY SMT

LEMMA Above ==
  ASSUME NEW N \in Nat \ {0}, NEW a \in N .. N + N - 1
  PROVE  a % N = a - N
BY SMTT(30)

LEMMA Times ==
  ASSUME NEW N \in Nat \ {0}, NEW p \in Nat, NEW q \in Nat
  PROVE  /\ N * p \in Nat
         /\ N * (p + 1) = (N * p) + N
         /\ p <= q => N * p <= N * q
         /\ N * p < N * q => p < q
BY SMTT(30)

\* The cell k places after an index, where the index may wrap on the way.
LEMMA CellAfter ==
  ASSUME NEW i \in 0 .. IndexMod - 1, NEW k \in 0 .. Capacity
  PROVE  ((i + k) % IndexMod) % Capacity =
           IF (i % Capacity) + k < Capacity THEN (i % Capacity) + k
           ELSE (i % Capacity) + k - Capacity
<1> DEFINE C == Capacity
           M == IndexMod
           q == i \div C
           h == i % C
           m == M \div C
<1>1. C \in Nat \ {0} /\ M \in Nat \ {0} /\ M % C = 0 /\ C < M
  BY RingAssumption
<1>2. q \in Nat /\ h \in 0 .. C - 1 /\ i = (C * q) + h
  <2>1. i \in Nat
    BY <1>1
  <2> QED
    BY <1>1, <2>1, Euclid
<1>3. m \in Nat /\ M = C * m
  <2>1. m \in Nat /\ M = (C * m) + (M % C)
    BY <1>1, Euclid
  <2>2. C * m \in Nat
    BY <1>1, <2>1, Times
  <2> QED
    BY <1>1, <2>1, <2>2
<1> SUFFICES ((i + k) % M) % C = IF h + k < C THEN h + k ELSE h + k - C
  OBVIOUS
<1> HIDE DEF q, h, m
<1>4. C * q \in Nat /\ C * (q + 1) = (C * q) + C /\ C * m \in Nat
  BY <1>1, <1>2, <1>3, Times
<1>5. ((C * q) + h + k) % C = IF h + k < C THEN h + k ELSE h + k - C
  <2>1. CASE h + k < C
    <3>1. ((C * q) + (h + k)) % C = h + k
      BY <1>1, <1>2, <2>1, Remainder
    <3> QED
      BY <1>2, <1>4, <2>1, <3>1
  <2>2. CASE h + k >= C
    <3>1. ((C * (q + 1)) + (h + k - C)) % C = h + k - C
      <4>1. q + 1 \in Nat /\ h + k - C \in 0 .. C - 1
        BY <1>1, <1>2, <2>2
      <4> QED
        BY <1>1, <4>1, Remainder
    <3>2. (C * (q + 1)) + (h + k - C) = (C * q) + h + k
      BY <1>1, <1>2, <1>4
    <3> QED
      BY <1>1, <1>2, <2>2, <3>1, <3>2
  <2> QED
    BY <1>1, <1>2, <2>1, <2>2
<1>6. CASE i + k < M
  <2>1. (i + k) % M = i + k
    BY <1>1, <1>6, Below
  <2>2. i + k = (C * q) + h + k
    BY <1>1, <1>2, <1>4
  <2> QED
    BY <1>5, <2>1, <2>2
<1>7. CASE i + k >= M
  <2>1. (i + k) % M = i + k - M
    BY <1>1, <1>7, Above
  <2>2. q < m
    <3>1. C * q < C * m
      BY <1>1, <1>2, <1>3, <1>4
    <3> QED
      BY <1>1, <1>2, <1>3, <3>1, Times
  <2>3. q + 1 = m
    <3>1. SUFFICES ASSUME q + 2 <= m PROVE FALSE
      BY <1>2, <1>3, <2>2
    <3>2. C * (q + 2) <= C * m
      BY <1>1, <1>2, <1>3, <3>1, Times
    <3>3. C * (q + 2) = (C * (q + 1)) + C
      <4>1. C * ((q + 1) + 1) = (C * (q + 1)) + C
        BY <1>1, <1>2, Times
      <4> QED
        BY <1>2, <4>1
    <3> QED
      BY <1>1, <1>2, <1>3, <1>4, <1>7, <3>2, <3>3
  <2>4. h + k >= C /\ i + k - M = h + k - C
    BY <1>1, <1>2, <1>3, <1>4, <1>7, <2>3
  <2>5. (h + k - C) % C = h + k - C
    BY <1>1, <1>2, <2>4, Below
  <2> QED
    BY <1>1, <1>2, <2>1, <2>4, <2>5
<1> QED
  BY <1>1, <1>6, <1>7
-----------------------------------------------------------------------------
(* Head and tail *)

\* How far an index is behind another.
Dist(h, t) == (t + IndexMod - h) % IndexMod
Where(k) == ((head + k) % IndexMod) % Capacity

LEMMA DistFacts ==
  ASSUME NEW h \in 0 .. IndexMod - 1, NEW t \in 0 .. IndexMod - 1
  PROVE  Dist(h, t) = IF h <= t THEN t - h ELSE t + IndexMod - h
<1>1. IndexMod \in Nat \ {0}
  BY RingAssumption
<1>2. CASE h <= t
  <2>1. t + IndexMod - h \in IndexMod .. IndexMod + IndexMod - 1
    BY <1>1, <1>2
  <2> QED
    BY <1>1, <1>2, <2>1, Above DEF Dist
<1>3. CASE h > t
  <2>1. t + IndexMod - h \in 0 .. IndexMod - 1
    BY <1>1, <1>3
  <2> QED
    BY <1>1, <1>3, <2>1, Below DEF Dist
<1> QED
  BY <1>1, <1>2, <1>3

LEMMA AdvancedFacts ==
  ASSUME NEW i \in 0 .. IndexMod - 1, NEW n \in 0 .. Capacity
  PROVE  /\ Advanced(i, n) \in 0 .. IndexMod - 1
         /\ Advanced(i, n) = IF i + n < IndexMod THEN i + n ELSE i + n - IndexMod
<1>1. IndexMod \in Nat \ {0} /\ Capacity \in Nat /\ Capacity < IndexMod
  BY RingAssumption
<1>2. CASE i + n < IndexMod
  <2>1. i + n \in 0 .. IndexMod - 1
    BY <1>1, <1>2
  <2> QED
    BY <1>1, <1>2, <2>1, Below DEF Advanced
<1>3. CASE i + n >= IndexMod
  <2>1. i + n \in IndexMod .. IndexMod + IndexMod - 1
    BY <1>1, <1>3
  <2> QED
    BY <1>1, <1>3, <2>1, Above DEF Advanced
<1> QED
  BY <1>1, <1>2, <1>3

\* A tail moved on by what fits, and a head moved on by one.
LEMMA Lengthened ==
  ASSUME NEW h \in 0 .. IndexMod - 1, NEW t \in 0 .. IndexMod - 1,
         NEW n \in 0 .. Capacity, Dist(h, t) + n <= Capacity
  PROVE  Dist(h, Advanced(t, n)) = Dist(h, t) + n
<1> DEFINE u == Advanced(t, n)
<1>1. IndexMod \in Nat /\ Capacity \in Nat /\ Capacity < IndexMod
  BY RingAssumption
<1>2. /\ u \in 0 .. IndexMod - 1
      /\ u = IF t + n < IndexMod THEN t + n ELSE t + n - IndexMod
  BY AdvancedFacts
<1> HIDE DEF u
<1>3. Dist(h, t) = IF h <= t THEN t - h ELSE t + IndexMod - h
  BY DistFacts
<1>4. Dist(h, u) = IF h <= u THEN u - h ELSE u + IndexMod - h
  BY <1>2, DistFacts
<1>5. Dist(h, u) = Dist(h, t) + n
  BY <1>1, <1>2, <1>3, <1>4
<1> QED
  BY <1>5 DEF u

LEMMA Shortened ==
  ASSUME NEW h \in 0 .. IndexMod - 1, NEW t \in 0 .. IndexMod - 1, h # t
  PROVE  Dist(h, t) >= 1 /\ Dist(Advanced(h, 1), t) = Dist(h, t) - 1
<1> DEFINE g == Advanced(h, 1)
<1>1. IndexMod \in Nat /\ Capacity \in Nat /\ Capacity < IndexMod /\ 1 \in 0 .. Capacity
  BY RingAssumption
<1>2. /\ g \in 0 .. IndexMod - 1
      /\ g = IF h + 1 < IndexMod THEN h + 1 ELSE h + 1 - IndexMod
  BY <1>1, AdvancedFacts
<1> HIDE DEF g
<1>3. Dist(h, t) = IF h <= t THEN t - h ELSE t + IndexMod - h
  BY DistFacts
<1>4. Dist(g, t) = IF g <= t THEN t - g ELSE t + IndexMod - g
  BY <1>2, DistFacts
<1>5. Dist(h, t) >= 1 /\ Dist(g, t) = Dist(h, t) - 1
  BY <1>1, <1>2, <1>3, <1>4
<1> QED
  BY <1>5 DEF g

\* The length is a number of cells, and the tail is that far behind the head.
LEMMA LengthFacts ==
  ASSUME TypeOK
  PROVE  /\ char_queue_length = Dist(head, tail)
         /\ char_queue_length \in 0 .. Capacity
         /\ tail = Advanced(head, char_queue_length)
<1>1. /\ head \in 0 .. IndexMod - 1 /\ tail \in 0 .. IndexMod - 1
      /\ char_queue_length = Dist(head, tail) /\ char_queue_length <= Capacity
  BY DEF TypeOK, char_queue_length, Dist
<1>2. IndexMod \in Nat /\ Capacity \in Nat /\ Capacity < IndexMod
  BY RingAssumption
<1>3. Dist(head, tail) = IF head <= tail THEN tail - head ELSE tail + IndexMod - head
  BY <1>1, DistFacts
<1>4. Dist(head, tail) \in 0 .. Capacity
  BY <1>1, <1>2, <1>3
<1>5. Advanced(head, Dist(head, tail)) =
        IF head + Dist(head, tail) < IndexMod THEN head + Dist(head, tail)
        ELSE head + Dist(head, tail) - IndexMod
  BY <1>1, <1>4, AdvancedFacts
<1>6. tail = Advanced(head, Dist(head, tail))
  BY <1>1, <1>2, <1>3, <1>5
<1> QED
  BY <1>1, <1>4, <1>6

LEMMA WhereFacts ==
  ASSUME TypeOK
  PROVE  /\ head % Capacity \in Cell /\ tail % Capacity \in Cell
         /\ \A k \in 0 .. Capacity :
              /\ Where(k) \in Cell
              /\ Where(k) = IF (head % Capacity) + k < Capacity
                            THEN (head % Capacity) + k
                            ELSE (head % Capacity) + k - Capacity
         /\ tail % Capacity = Where(char_queue_length)
<1>1. Capacity \in Nat \ {0} /\ head \in Nat /\ tail \in Nat
      /\ head \in 0 .. IndexMod - 1
  BY RingAssumption DEF TypeOK
<1>2. head % Capacity \in Cell /\ tail % Capacity \in Cell
  BY <1>1, Euclid DEF Cell
<1>3. ASSUME NEW k \in 0 .. Capacity
      PROVE  Where(k) = IF (head % Capacity) + k < Capacity
                        THEN (head % Capacity) + k
                        ELSE (head % Capacity) + k - Capacity
  BY <1>1, CellAfter DEF Where
<1>4. tail % Capacity = Where(char_queue_length)
  BY LengthFacts DEF Where, Advanced
<1> QED
  BY <1>1, <1>2, <1>3, <1>4 DEF Cell
-----------------------------------------------------------------------------
(* What an enqueue writes *)

LEMMA EnqueuedFacts ==
  ASSUME TypeOK, NEW src \in Seq(Char)
  PROVE  /\ Len(src) \in Nat /\ Enqueued(src) \in 0 .. Capacity
         /\ Enqueued(src) <= Len(src)
         /\ char_queue_length + Enqueued(src) <= Capacity
         /\ Enqueued(src) = IF Len(src) < Capacity - char_queue_length
                            THEN Len(src) ELSE Capacity - char_queue_length
<1>1. Len(src) \in Nat /\ Capacity \in Nat /\ char_queue_length \in 0 .. Capacity
  BY LenProperties, LengthFacts, RingAssumption
<1> QED
  BY <1>1 DEF Enqueued, Least, char_queue_free

\* The characters that were queued stay, and those of the batch follow them.
LEMMA EnqueuedCells ==
  ASSUME TypeOK, NEW src \in Seq(Char), char_queue_enqueue_batch(src)
  PROVE  /\ buf' \in [Cell -> Char \cup {NoChar}]
         /\ \A k \in 0 .. char_queue_length - 1 : buf'[Where(k)] = buf[Where(k)]
         /\ \A j \in 0 .. Enqueued(src) - 1 :
              buf'[Where(char_queue_length + j)] = src[j + 1]
<1> DEFINE L == char_queue_length
           num == Enqueued(src)
           h == head % Capacity
           dst == tail % Capacity
           prewrap == Least(num, char_queue_contiguous_free)
           postwrap == num - prewrap
<1>1. /\ Capacity \in Nat \ {0} /\ L \in 0 .. Capacity
      /\ num \in 0 .. Capacity /\ num <= Len(src) /\ Len(src) \in Nat
      /\ L + num <= Capacity
  BY RingAssumption, LengthFacts, EnqueuedFacts
<1>2. h \in 0 .. Capacity - 1 /\ dst \in 0 .. Capacity - 1
  BY WhereFacts DEF Cell
<1>3. \A k \in 0 .. Capacity :
        /\ Where(k) \in Cell
        /\ Where(k) = IF h + k < Capacity THEN h + k ELSE h + k - Capacity
  BY WhereFacts
<1>4. dst = IF h + L < Capacity THEN h + L ELSE h + L - Capacity
  BY <1>1, WhereFacts
<1>5. prewrap = IF num < Capacity - dst THEN num ELSE Capacity - dst
  BY <1>1, <1>2 DEF Least, char_queue_contiguous_free, char_queue_free
<1>6. buf' = [c \in Cell |->
                IF dst <= c /\ c < dst + prewrap THEN src[c - dst + 1]
                ELSE IF c < postwrap THEN src[prewrap + c + 1]
                ELSE buf[c]]
  BY DEF char_queue_enqueue_batch
<1>7. buf \in [Cell -> Char \cup {NoChar}]
  BY DEF TypeOK
<1>8. \A n \in 1 .. Len(src) : src[n] \in Char
  BY ElementOfSeq
<1> HIDE DEF L, num, h, dst, prewrap
<1>9. \A c \in Cell : buf'[c] = IF dst <= c /\ c < dst + prewrap THEN src[c - dst + 1]
                                ELSE IF c < postwrap THEN src[prewrap + c + 1]
                                ELSE buf[c]
  BY <1>6
<1>10. ASSUME NEW c \in Cell PROVE buf'[c] \in Char \cup {NoChar}
  <2>1. c \in 0 .. Capacity - 1
    BY DEF Cell
  <2>2. CASE dst <= c /\ c < dst + prewrap
    <3>1. c - dst + 1 \in 1 .. Len(src)
      BY <1>1, <1>2, <1>5, <2>1, <2>2
    <3> QED
      BY <1>8, <1>9, <2>2, <3>1
  <2>3. CASE ~(dst <= c /\ c < dst + prewrap) /\ c < postwrap
    <3>1. prewrap + c + 1 \in 1 .. Len(src)
      BY <1>1, <1>2, <1>5, <2>1, <2>3
    <3> QED
      BY <1>8, <1>9, <2>3, <3>1
  <2>4. CASE ~(dst <= c /\ c < dst + prewrap) /\ ~(c < postwrap)
    BY <1>7, <1>9, <2>4
  <2> QED
    BY <2>2, <2>3, <2>4
<1>11. buf' \in [Cell -> Char \cup {NoChar}]
  BY <1>6, <1>10
<1>12. ASSUME NEW k \in 0 .. L - 1 PROVE buf'[Where(k)] = buf[Where(k)]
  <2> DEFINE c == Where(k)
  <2>0. k \in 0 .. Capacity
    BY <1>1
  <2>1. c \in Cell /\ c \in 0 .. Capacity - 1
        /\ c = IF h + k < Capacity THEN h + k ELSE h + k - Capacity
    BY <1>3, <2>0 DEF Cell
  <2> HIDE DEF c
  <2>2. ~(dst <= c /\ c < dst + prewrap) /\ ~(c < postwrap)
    BY <1>1, <1>2, <1>4, <1>5, <2>1
  <2>3. buf'[c] = buf[c]
    BY <1>9, <2>1, <2>2
  <2> QED
    BY <2>3 DEF c
<1>13. ASSUME NEW j \in 0 .. num - 1 PROVE buf'[Where(L + j)] = src[j + 1]
  <2> DEFINE c == Where(L + j)
  <2>1. L + j \in 0 .. Capacity
    BY <1>1
  <2>2. c \in Cell /\ c \in 0 .. Capacity - 1
        /\ c = IF h + (L + j) < Capacity THEN h + (L + j) ELSE h + (L + j) - Capacity
    BY <1>3, <2>1 DEF Cell
  <2> HIDE DEF c
  <2>3. CASE j < prewrap
    <3>1. dst <= c /\ c < dst + prewrap /\ c - dst + 1 = j + 1
      BY <1>1, <1>2, <1>4, <1>5, <2>2, <2>3
    <3> QED
      BY <1>9, <2>2, <3>1 DEF c
  <2>4. CASE j >= prewrap
    <3>1. /\ ~(dst <= c /\ c < dst + prewrap) /\ c < postwrap
          /\ prewrap + c + 1 = j + 1
      BY <1>1, <1>2, <1>4, <1>5, <2>2, <2>4
    <3> QED
      BY <1>9, <2>2, <3>1 DEF c
  <2>5. prewrap \in Nat
    BY <1>1, <1>2, <1>5
  <2> QED
    BY <2>3, <2>4, <2>5
<1> QED
  BY <1>11, <1>12, <1>13 DEF L, num
-----------------------------------------------------------------------------
(* Type correctness *)

LEMMA InitType == Init => TypeOK
<1> SUFFICES ASSUME Init PROVE TypeOK
  OBVIOUS
<1>1. IndexMod \in Nat \ {0} /\ Capacity \in Nat
  BY RingAssumption
<1>2. head = 0 /\ tail = 0 /\ buf \in [Cell -> Char \cup {NoChar}]
  BY DEF Init
<1>3. head \in 0 .. IndexMod - 1 /\ tail \in 0 .. IndexMod - 1
  BY <1>1, <1>2
<1>4. Dist(head, tail) = 0
  BY <1>1, <1>2, <1>3, DistFacts
<1> QED
  BY <1>1, <1>2, <1>3, <1>4 DEF TypeOK, char_queue_length, Dist

\* What each operation does to the indices and to the length.
LEMMA EnqueueLength ==
  ASSUME TypeOK, NEW src \in Seq(Char), char_queue_enqueue_batch(src)
  PROVE  TypeOK' /\ head' = head
         /\ char_queue_length' = char_queue_length + Enqueued(src)
<1>1. head' = head /\ tail' = Advanced(tail, Enqueued(src))
  BY DEF char_queue_enqueue_batch
<1>2. head \in 0 .. IndexMod - 1 /\ tail \in 0 .. IndexMod - 1
  BY DEF TypeOK
<1>3. /\ char_queue_length = Dist(head, tail)
      /\ Enqueued(src) \in 0 .. Capacity
      /\ char_queue_length + Enqueued(src) <= Capacity
  BY LengthFacts, EnqueuedFacts
<1>4. tail' \in 0 .. IndexMod - 1
  BY <1>1, <1>2, <1>3, AdvancedFacts
<1>5. Dist(head, Advanced(tail, Enqueued(src))) = Dist(head, tail) + Enqueued(src)
  BY <1>2, <1>3, Lengthened
<1>6. char_queue_length' = char_queue_length + Enqueued(src)
  BY <1>1, <1>3, <1>5 DEF char_queue_length, Dist
<1>7. buf' \in [Cell -> Char \cup {NoChar}]
  BY EnqueuedCells
<1> QED
  BY <1>1, <1>2, <1>3, <1>4, <1>6, <1>7 DEF TypeOK

LEMMA EnqueueOneLength ==
  ASSUME TypeOK, NEW c \in Char, char_enqueue(c)
  PROVE  /\ TypeOK' /\ head' = head
         /\ char_queue_length < Capacity
         /\ char_queue_length' = char_queue_length + 1
<1>1. head' = head /\ tail' = Advanced(tail, 1) /\ char_queue_length # Capacity
  BY DEF char_enqueue, char_queue_full
<1>2. head \in 0 .. IndexMod - 1 /\ tail \in 0 .. IndexMod - 1
  BY DEF TypeOK
<1>3. char_queue_length = Dist(head, tail) /\ char_queue_length \in 0 .. Capacity
  BY LengthFacts
<1>4. Capacity \in Nat /\ 1 \in 0 .. Capacity /\ char_queue_length + 1 <= Capacity
  BY <1>1, <1>3, RingAssumption
<1>5. tail' \in 0 .. IndexMod - 1
  BY <1>1, <1>2, <1>4, AdvancedFacts
<1>6. Dist(head, Advanced(tail, 1)) = Dist(head, tail) + 1
  BY <1>2, <1>3, <1>4, Lengthened
<1>7. char_queue_length' = char_queue_length + 1
  BY <1>1, <1>3, <1>6 DEF char_queue_length, Dist
<1>8. buf' \in [Cell -> Char \cup {NoChar}]
  BY DEF char_enqueue, TypeOK
<1> QED
  BY <1>1, <1>2, <1>3, <1>4, <1>5, <1>7, <1>8 DEF TypeOK

LEMMA DequeueLength ==
  ASSUME TypeOK, char_dequeue
  PROVE  /\ TypeOK' /\ head' = Advanced(head, 1)
         /\ char_queue_length \in 1 .. Capacity
         /\ char_queue_length' = char_queue_length - 1
<1>1. head' = Advanced(head, 1) /\ tail' = tail /\ buf' = buf /\ head # tail
  BY DEF char_dequeue, char_queue_empty
<1>2. head \in 0 .. IndexMod - 1 /\ tail \in 0 .. IndexMod - 1
  BY DEF TypeOK
<1>3. char_queue_length = Dist(head, tail) /\ char_queue_length \in 0 .. Capacity
  BY LengthFacts
<1>4. Capacity \in Nat /\ 1 \in 0 .. Capacity
  BY RingAssumption
<1>5. head' \in 0 .. IndexMod - 1
  BY <1>1, <1>2, <1>4, AdvancedFacts
<1>6. /\ Dist(head, tail) >= 1
      /\ Dist(Advanced(head, 1), tail) = Dist(head, tail) - 1
  BY <1>1, <1>2, Shortened
<1>7. char_queue_length' = char_queue_length - 1
  BY <1>1, <1>3, <1>6 DEF char_queue_length, Dist
<1> QED
  BY <1>1, <1>2, <1>3, <1>4, <1>5, <1>6, <1>7 DEF TypeOK

\* Every enqueued batch is a sequence of characters.
LEMMA BatchIsSeq == Batch \subseteq Seq(Char)
BY BatchAssumption

LEMMA NextType == TypeOK /\ [Next]_queue => TypeOK'
<1> SUFFICES ASSUME TypeOK, [Next]_queue PROVE TypeOK'
  OBVIOUS
<1>1. CASE char_dequeue
  BY <1>1, DequeueLength
<1>2. ASSUME NEW c \in Char, char_enqueue(c) PROVE TypeOK'
  BY <1>2, EnqueueOneLength
<1>3. ASSUME NEW src \in Batch, char_queue_enqueue_batch(src) PROVE TypeOK'
  BY <1>3, BatchIsSeq, EnqueueLength
<1>4. CASE UNCHANGED queue
  BY <1>4 DEF TypeOK, queue, char_queue_length
<1> QED
  BY <1>1, <1>2, <1>3, <1>4 DEF Next

\* The queue never holds more characters than the ring has cells, which is what
\* char_queue_update_shared_tail asserts.
THEOREM TypeCorrect == Spec => []TypeOK
BY InitType, NextType, PTL DEF Spec
-----------------------------------------------------------------------------
(* Refinement *)

Chars == Char \cup {NoChar}

LEMMA ContentsFacts ==
  TypeOK => /\ Contents \in Seq(Chars)
            /\ Len(Contents) = char_queue_length
            /\ \A k \in 1 .. char_queue_length : Contents[k] = buf[Where(k - 1)]
<1> SUFFICES ASSUME TypeOK
             PROVE  /\ Contents \in Seq(Chars)
                    /\ Len(Contents) = char_queue_length
                    /\ \A k \in 1 .. char_queue_length : Contents[k] = buf[Where(k - 1)]
  OBVIOUS
<1>1. char_queue_length \in Nat /\ char_queue_length <= Capacity /\ Capacity \in Nat
  BY LengthFacts, RingAssumption
<1>2. ASSUME NEW k \in 1 .. char_queue_length
      PROVE  CharAt(k - 1) = buf[Where(k - 1)] /\ CharAt(k - 1) \in Chars
  <2>1. k - 1 \in 0 .. Capacity
    BY <1>1
  <2>2. Where(k - 1) \in Cell
    BY <2>1, WhereFacts
  <2> QED
    BY <2>2 DEF CharAt, Where, TypeOK, Chars
<1>3. Contents = [k \in 1 .. char_queue_length |-> CharAt(k - 1)]
  BY DEF Contents
<1>4. Contents \in [1 .. char_queue_length -> Chars]
  BY <1>2, <1>3
<1>5. Contents \in Seq(Chars) /\ Len(Contents) = char_queue_length
  BY <1>1, <1>4, LenProperties
<1> QED
  BY <1>2, <1>3, <1>5

LEMMA ContentsAfter ==
  TypeOK' => /\ Contents' \in Seq(Chars)
             /\ Len(Contents') = char_queue_length'
             /\ \A k \in 1 .. char_queue_length' : Contents'[k] = buf'[Where(k - 1)']
<1>1. (TypeOK => /\ Contents \in Seq(Chars)
                 /\ Len(Contents) = char_queue_length
                 /\ \A k \in 1 .. char_queue_length : Contents[k] = buf[Where(k - 1)])'
  BY ContentsFacts, PTL
<1> QED
  BY <1>1

LEMMA InitRefines == Init => Fifo!Init
<1> SUFFICES ASSUME Init PROVE Contents = <<>>
  BY DEF Fifo!Init
<1>1. TypeOK
  BY InitType
<1>2. char_queue_length = 0
  <2>1. char_queue_length = Dist(0, 0)
    BY DEF Init, char_queue_length, Dist
  <2>2. 0 \in 0 .. IndexMod - 1 /\ IndexMod \in Nat
    BY RingAssumption
  <2> QED
    BY <2>1, <2>2, DistFacts
<1> QED
  BY <1>1, <1>2, ContentsFacts, EmptySeq

\* A batch is appended as far as it fits.
LEMMA EnqueueRefines ==
  ASSUME TypeOK, NEW src \in Seq(Char), char_queue_enqueue_batch(src)
  PROVE  Fifo!Put(src)
<1> DEFINE L == char_queue_length
           num == Enqueued(src)
           new == SubSeq(src, 1, num)
<1>1. /\ TypeOK' /\ head' = head /\ char_queue_length' = L + num
  BY EnqueueLength
<1>2. /\ L \in Nat /\ num \in Nat /\ num <= Len(src) /\ L + num <= Capacity
      /\ Len(src) \in Nat /\ Capacity \in Nat
      /\ num = IF Len(src) < Capacity - L THEN Len(src) ELSE Capacity - L
  BY LengthFacts, EnqueuedFacts, RingAssumption
<1>3. /\ Contents \in Seq(Chars) /\ Len(Contents) = L
      /\ \A k \in 1 .. L : Contents[k] = buf[Where(k - 1)]
  BY ContentsFacts
<1>4. /\ Contents' \in Seq(Chars) /\ Len(Contents') = L + num
      /\ \A k \in 1 .. L + num : Contents'[k] = buf'[Where(k - 1)]
  BY <1>1, ContentsAfter DEF Where
<1>5. /\ \A k \in 0 .. L - 1 : buf'[Where(k)] = buf[Where(k)]
      /\ \A j \in 0 .. num - 1 : buf'[Where(L + j)] = src[j + 1]
  BY EnqueuedCells
<1>6. Fifo!Prefix(src, Capacity - Len(Contents)) = new
  BY <1>2, <1>3 DEF Fifo!Prefix
<1>7. \A i \in 1 .. num : src[i] \in Chars
  BY <1>2, ElementOfSeq DEF Chars
<1> HIDE DEF L, num
<1>8. /\ new \in Seq(Chars) /\ Len(new) = num
      /\ \A i \in 1 .. num : new[i] = src[i]
  <2>1. /\ new \in Seq(Chars) /\ Len(new) = IF 1 <= num THEN num - 1 + 1 ELSE 0
        /\ \A i \in 1 .. num - 1 + 1 : new[i] = src[1 + i - 1]
    BY <1>2, <1>7, SubSeqProperties
  <2>2. \A i \in 1 .. num : 1 + i - 1 = i
    BY <1>2
  <2>3. num - 1 + 1 = num
    BY <1>2
  <2> QED
    BY <1>2, <2>1, <2>2, <2>3
<1> HIDE DEF new
<1>9. /\ Contents \o new \in Seq(Chars) /\ Len(Contents \o new) = L + num
      /\ \A i \in 1 .. L + num : (Contents \o new)[i] =
            IF i <= L THEN Contents[i] ELSE new[i - L]
  BY <1>3, <1>8, ConcatProperties
<1>10. ASSUME NEW i \in 1 .. L + num PROVE Contents'[i] = (Contents \o new)[i]
  <2>1. CASE i <= L
    <3>1. i \in 1 .. L /\ i - 1 \in 0 .. L - 1
      BY <1>2, <2>1
    <3> QED
      BY <1>3, <1>4, <1>5, <1>9, <2>1, <3>1
  <2>2. CASE i > L
    <3>1. /\ i - L \in 1 .. num /\ i - L - 1 \in 0 .. num - 1
          /\ L + (i - L - 1) = i - 1 /\ i - L - 1 + 1 = i - L
          /\ ~(i <= L)
      BY <1>2, <2>2
    <3>2. buf'[Where(i - 1)] = src[i - L]
      BY <1>5, <3>1
    <3> QED
      BY <1>4, <1>8, <1>9, <3>1, <3>2
  <2>3. i <= L \/ i > L
    BY <1>2
  <2> QED
    BY <2>1, <2>2, <2>3
<1>11. Contents' = Contents \o new
  BY <1>4, <1>9, <1>10, SeqEqual
<1> QED
  BY <1>6, <1>11 DEF Fifo!Put

\* One character is a batch of its own, which fits unless the queue is full.
LEMMA EnqueueOneRefines ==
  ASSUME TypeOK, NEW c \in Char, char_enqueue(c)
  PROVE  Fifo!Put(<<c>>)
<1> DEFINE L == char_queue_length
<1>1. /\ TypeOK' /\ head' = head /\ L < Capacity /\ char_queue_length' = L + 1
  BY EnqueueOneLength
<1>2. L \in Nat /\ Capacity \in Nat
  BY LengthFacts, RingAssumption
<1>3. /\ Contents \in Seq(Chars) /\ Len(Contents) = L
      /\ \A k \in 1 .. L : Contents[k] = buf[Where(k - 1)]
  BY ContentsFacts
<1>4. /\ Contents' \in Seq(Chars) /\ Len(Contents') = L + 1
      /\ \A k \in 1 .. L + 1 : Contents'[k] = buf'[Where(k - 1)]
  BY <1>1, ContentsAfter DEF Where
<1>5. /\ tail % Capacity = Where(L) /\ Where(L) \in Cell
      /\ \A k \in 0 .. L - 1 : Where(k) \in Cell /\ Where(k) # Where(L)
  <2>1. L \in 0 .. Capacity /\ \A k \in 0 .. L - 1 : k \in 0 .. Capacity /\ k < L
    BY <1>1, <1>2
  <2>2. head % Capacity \in 0 .. Capacity - 1
    BY WhereFacts DEF Cell
  <2>3. \A k \in 0 .. Capacity :
          /\ Where(k) \in Cell
          /\ Where(k) = IF (head % Capacity) + k < Capacity
                        THEN (head % Capacity) + k
                        ELSE (head % Capacity) + k - Capacity
    BY WhereFacts
  <2> DEFINE h == head % Capacity
  <2> HIDE DEF h, L
  <2>4. Where(L) = IF h + L < Capacity THEN h + L ELSE h + L - Capacity
    BY <2>1, <2>3 DEF h
  <2>5. ASSUME NEW k \in 0 .. L - 1 PROVE Where(k) \in Cell /\ Where(k) # Where(L)
    <3>1. k \in 0 .. Capacity /\ k < L
      BY <2>1
    <3>2. /\ Where(k) \in Cell
          /\ Where(k) = IF h + k < Capacity THEN h + k ELSE h + k - Capacity
      BY <2>3, <3>1 DEF h
    <3>3. h \in 0 .. Capacity - 1
      BY <2>2 DEF h
    <3> QED
      BY <1>1, <1>2, <2>4, <3>1, <3>2, <3>3
  <2>6. tail % Capacity = Where(L)
    BY WhereFacts DEF L
  <2> QED
    BY <2>1, <2>3, <2>5, <2>6
<1>6. buf \in [Cell -> Chars] /\ buf' = [buf EXCEPT ![tail % Capacity] = c]
  BY DEF char_enqueue, TypeOK, Chars
<1>7. buf'[Where(L)] = c /\ \A k \in 0 .. L - 1 : buf'[Where(k)] = buf[Where(k)]
  BY <1>5, <1>6
<1>8. <<c>> \in Seq(Chars) /\ Len(<<c>>) = 1 /\ <<c>>[1] = c
  BY DEF Chars
<1>9. Fifo!Prefix(<<c>>, Capacity - Len(Contents)) = <<c>>
  <2>1. (IF Capacity - Len(Contents) < Len(<<c>>) THEN Capacity - Len(Contents)
         ELSE Len(<<c>>)) = 1
    BY <1>1, <1>2, <1>3, <1>8
  <2>2. /\ SubSeq(<<c>>, 1, 1) \in Seq(Chars)
        /\ Len(SubSeq(<<c>>, 1, 1)) = 1
        /\ SubSeq(<<c>>, 1, 1)[1] = c
    BY <1>8, 1 \in 1 .. 2, 1 \in 0 .. 1, SubSeqProperties
  <2>3. \A i \in 1 .. 1 : SubSeq(<<c>>, 1, 1)[i] = <<c>>[i]
    BY <1>8, <2>2
  <2>4. SubSeq(<<c>>, 1, 1) = <<c>>
    BY <1>8, <2>2, <2>3, SeqEqual
  <2> QED
    BY <2>1, <2>4 DEF Fifo!Prefix
<1> HIDE DEF L
<1>10. /\ Contents \o <<c>> \in Seq(Chars) /\ Len(Contents \o <<c>>) = L + 1
       /\ \A i \in 1 .. L + 1 : (Contents \o <<c>>)[i] =
             IF i <= L THEN Contents[i] ELSE <<c>>[i - L]
  BY <1>3, <1>8, ConcatProperties
<1>11. ASSUME NEW i \in 1 .. L + 1 PROVE Contents'[i] = (Contents \o <<c>>)[i]
  <2>1. CASE i <= L
    <3>1. i \in 1 .. L /\ i - 1 \in 0 .. L - 1
      BY <1>2, <2>1
    <3> QED
      BY <1>3, <1>4, <1>7, <1>10, <2>1, <3>1
  <2>2. CASE i = L + 1
    <3>1. i - 1 = L /\ i - L = 1 /\ ~(i <= L)
      BY <1>2, <2>2
    <3>2. (Contents \o <<c>>)[i] = c
      BY <1>8, <1>10, <3>1
    <3>3. Contents'[i] = c
      BY <1>4, <1>7, <3>1
    <3> QED
      BY <3>2, <3>3
  <2>3. i <= L \/ i = L + 1
    BY <1>2
  <2> QED
    BY <2>1, <2>2, <2>3
<1>12. Contents' = Contents \o <<c>>
  BY <1>4, <1>10, <1>11, SeqEqual
<1> QED
  BY <1>9, <1>12 DEF Fifo!Put

\* The character at the head leaves.
LEMMA DequeueRefines ==
  ASSUME TypeOK, char_dequeue
  PROVE  Fifo!Get
<1> DEFINE L == char_queue_length
           h == head % Capacity
<1>1. /\ TypeOK' /\ head' = Advanced(head, 1) /\ L \in 1 .. Capacity
      /\ char_queue_length' = L - 1 /\ buf' = buf
  BY DequeueLength DEF char_dequeue
<1>2. Capacity \in Nat \ {0} /\ h \in 0 .. Capacity - 1
  BY RingAssumption, WhereFacts DEF Cell
<1>3. /\ Contents \in Seq(Chars) /\ Len(Contents) = L
      /\ \A k \in 1 .. L : Contents[k] = buf[Where(k - 1)]
  BY ContentsFacts
<1>4. /\ Contents' \in Seq(Chars) /\ Len(Contents') = L - 1
      /\ \A k \in 1 .. L - 1 : Contents'[k] = buf[Where(k - 1)']
  BY <1>1, ContentsAfter
<1>5. Contents # <<>>
  BY <1>1, <1>3, EmptySeq
<1>6. /\ Tail(Contents) \in Seq(Chars) /\ Len(Tail(Contents)) = L - 1
      /\ \A k \in 1 .. L - 1 : Tail(Contents)[k] = Contents[k + 1]
  BY <1>3, <1>5, HeadTailProperties
<1>7. ASSUME NEW k \in 1 .. L - 1 PROVE Where(k - 1)' = Where(k)
  <2> DEFINE g == head' % Capacity
  <2>1. 1 \in 0 .. Capacity /\ k \in 0 .. Capacity /\ k - 1 \in 0 .. Capacity
    BY <1>1, <1>2
  <2>2. head \in 0 .. IndexMod - 1 /\ head' \in 0 .. IndexMod - 1
    BY <1>1 DEF TypeOK
  <2>3. g = IF h + 1 < Capacity THEN h + 1 ELSE h + 1 - Capacity
    BY <1>1, <2>1, <2>2, CellAfter DEF Advanced
  <2>4. Where(k - 1)' = IF g + (k - 1) < Capacity THEN g + (k - 1)
                        ELSE g + (k - 1) - Capacity
    BY <2>1, <2>2, CellAfter DEF Where
  <2>5. Where(k) = IF h + k < Capacity THEN h + k ELSE h + k - Capacity
    BY <2>1, <2>2, CellAfter DEF Where
  <2> HIDE DEF g, h, L
  <2> QED
    BY <1>1, <1>2, <2>1, <2>3, <2>4, <2>5
<1>8. ASSUME NEW k \in 1 .. L - 1 PROVE Contents'[k] = Tail(Contents)[k]
  <2>1. k + 1 \in 1 .. L /\ (k + 1) - 1 = k
    BY <1>1
  <2> QED
    BY <1>3, <1>4, <1>6, <1>7, <2>1
<1>9. Contents' = Tail(Contents)
  BY <1>4, <1>6, <1>8, SeqEqual
<1> QED
  BY <1>5, <1>9 DEF Fifo!Get

LEMMA NextRefines == TypeOK /\ [Next]_queue => [Fifo!Next]_Contents
<1> SUFFICES ASSUME TypeOK, [Next]_queue PROVE [Fifo!Next]_Contents
  OBVIOUS
<1>1. CASE char_dequeue
  BY <1>1, DequeueRefines DEF Fifo!Next
<1>2. ASSUME NEW c \in Char, char_enqueue(c) PROVE Fifo!Next
  <2>1. <<c>> \in Batch
    BY BatchAssumption
  <2> QED
    BY <1>2, <2>1, EnqueueOneRefines DEF Fifo!Next
<1>3. ASSUME NEW src \in Batch, char_queue_enqueue_batch(src) PROVE Fifo!Next
  BY <1>3, BatchIsSeq, EnqueueRefines DEF Fifo!Next
<1>4. CASE UNCHANGED queue
  BY <1>4 DEF queue, Contents, CharAt, char_queue_length
<1> QED
  BY <1>1, <1>2, <1>3, <1>4 DEF Next

\* The character queue is first in first out and loses only the end of a batch
\* that does not fit.
THEOREM Refinement == Spec => ImplementsFifo
<1>1. Spec => []TypeOK
  BY TypeCorrect
<1>2. Init => Fifo!Init
  BY InitRefines
<1>3. TypeOK /\ [Next]_queue => [Fifo!Next]_Contents
  BY NextRefines
<1> QED
  BY <1>1, <1>2, <1>3, PTL DEF Spec, ImplementsFifo, Fifo!Spec
=============================================================================
