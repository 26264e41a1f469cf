---------------------------- MODULE FifoLemmas ----------------------------
(***************************************************************************)
(* Facts about the ring of fifo.h, for every size and every alphabet.      *)
(***************************************************************************)
EXTENDS Fifo, SequenceTheorems, TLAPS


\* Every index expression of fifo.h lies within one ring length of the
\* slots, where masking is at most one subtraction or addition of Size.
LEMMA MaskCases ==
    ASSUME NEW i \in Int, -Size <= i, i < 2 * Size
    PROVE  Mask(i) = IF i < 0 THEN i + Size ELSE IF i < Size THEN i ELSE i - Size
<1>1. Size \in Nat /\ Size > 0
  BY SizeAssumption
<1>2. CASE i < 0
  BY <1>1, <1>2 DEF Mask
<1>3. CASE 0 <= i /\ i < Size
  BY <1>1, <1>3 DEF Mask
<1>4. CASE Size <= i
  BY <1>1, <1>4 DEF Mask
<1> QED
  BY <1>1, <1>2, <1>3, <1>4

\* The masks of the four index updates, and the counts, without remainders.
LEMMA RingArith ==
    ASSUME NEW r \in Ring
    PROVE  /\ r.head \in Slot /\ r.tail \in Slot /\ r.data \in [Slot -> Byte]
           /\ Mask(r.head + 1) = IF r.head + 1 = Size THEN 0 ELSE r.head + 1
           /\ Mask(r.tail + 1) = IF r.tail + 1 = Size THEN 0 ELSE r.tail + 1
           /\ Mask(r.head - 1) = IF r.head = 0 THEN Size - 1 ELSE r.head - 1
           /\ fifo_count(r) = IF r.tail <= r.head THEN r.head - r.tail
                                                 ELSE r.head - r.tail + Size
           /\ fifo_freespace(r) = IF r.head < r.tail THEN r.tail - r.head - 1
                                                     ELSE r.tail - r.head - 1 + Size
           /\ fifo_count(r) \in Slot
<1>1. r.head \in Slot /\ r.tail \in Slot /\ r.data \in [Slot -> Byte]
  BY DEF Ring
<1>2. Size \in Nat /\ Size > 0
  BY SizeAssumption
<1>3. Mask(r.head + 1) = IF r.head + 1 = Size THEN 0 ELSE r.head + 1
  BY <1>1, <1>2, MaskCases DEF Slot
<1>4. Mask(r.tail + 1) = IF r.tail + 1 = Size THEN 0 ELSE r.tail + 1
  BY <1>1, <1>2, MaskCases DEF Slot
<1>5. Mask(r.head - 1) = IF r.head = 0 THEN Size - 1 ELSE r.head - 1
  BY <1>1, <1>2, MaskCases DEF Slot
<1>6. fifo_count(r) = IF r.tail <= r.head THEN r.head - r.tail
                                          ELSE r.head - r.tail + Size
  BY <1>1, <1>2, MaskCases DEF Slot, fifo_count
<1>7. fifo_freespace(r) = IF r.head < r.tail THEN r.tail - r.head - 1
                                             ELSE r.tail - r.head - 1 + Size
  BY <1>1, <1>2, MaskCases DEF Slot, fifo_freespace
<1>8. fifo_count(r) \in Slot
  BY <1>1, <1>2, <1>6 DEF Slot
<1> QED
  BY <1>1, <1>3, <1>4, <1>5, <1>6, <1>7, <1>8

\* Each operation of fifo.h yields a ring again.
LEMMA RingClosed ==
    ASSUME NEW r \in Ring, NEW b \in Byte
    PROVE  /\ fifo_push(r, b) \in Ring
           /\ fifo_pop_back(r) \in Ring
           /\ fifo_pop_front(r) \in Ring
           /\ fifo_remove_all(r) \in Ring
           /\ fifo_remove_all_but_one(r) \in Ring
           /\ fifo_back(r) \in Byte
<1>1. /\ Mask(r.head + 1) \in Slot
      /\ Mask(r.tail + 1) \in Slot
      /\ Mask(r.head - 1) \in Slot
      /\ 0 \in Slot
  <2>1. /\ r.head \in Slot /\ r.tail \in Slot
        /\ Mask(r.head + 1) = IF r.head + 1 = Size THEN 0 ELSE r.head + 1
        /\ Mask(r.tail + 1) = IF r.tail + 1 = Size THEN 0 ELSE r.tail + 1
        /\ Mask(r.head - 1) = IF r.head = 0 THEN Size - 1 ELSE r.head - 1
    BY RingArith
  <2> QED
    BY <2>1, SizeAssumption DEF Slot
<1> QED
  BY <1>1 DEF Ring, fifo_push, fifo_pop_back, fifo_pop_front, fifo_remove_all,
              fifo_remove_all_but_one, fifo_back

\* The measures agree on every ring, reachable or not.
LEMMA Measures ==
    ASSUME NEW r \in Ring
    PROVE  /\ fifo_count(r) + fifo_freespace(r) = Size - 1
           /\ fifo_is_empty(r) <=> fifo_count(r) = 0
           /\ fifo_is_full(r) <=> fifo_freespace(r) = 0
<1>1. Size \in Nat /\ Size > 0
  BY SizeAssumption
<1>2. /\ r.head \in Slot /\ r.tail \in Slot
      /\ Mask(r.head + 1) = IF r.head + 1 = Size THEN 0 ELSE r.head + 1
      /\ fifo_count(r) = IF r.tail <= r.head THEN r.head - r.tail
                                            ELSE r.head - r.tail + Size
      /\ fifo_freespace(r) = IF r.head < r.tail THEN r.tail - r.head - 1
                                                ELSE r.tail - r.head - 1 + Size
  BY RingArith
<1> QED
  BY <1>1, <1>2 DEF Slot, fifo_is_empty, fifo_is_full

---------------------------------------------------------------------------


\* The slot that holds the i-th oldest byte.
LEMMA IndexCases ==
    ASSUME NEW r \in Ring, NEW i \in 1 .. fifo_count(r)
    PROVE  /\ Mask(r.tail + i - 1) = IF r.tail + i - 1 < Size
                                     THEN r.tail + i - 1 ELSE r.tail + i - 1 - Size
           /\ Mask(r.tail + i - 1) \in Slot
<1>1. fifo_count(r) \in Nat /\ fifo_count(r) < Size /\ Size \in Nat
      /\ r.tail \in Nat /\ r.tail < Size
  BY RingArith, SizeAssumption DEF Slot
<1> DEFINE j == r.tail + i - 1
<1>2. j \in Int /\ -Size <= j /\ j < 2 * Size /\ 0 <= j
  BY <1>1
<1> HIDE DEF j
<1>3. Mask(j) = IF j < Size THEN j ELSE j - Size
  BY <1>2, MaskCases
<1>4. Mask(j) \in Slot
  BY <1>1, <1>2, <1>3 DEF Slot
<1> QED
  BY <1>1, <1>3, <1>4 DEF j

\* The sequence a ring holds: its length and its elements.
LEMMA ContentsSeq ==
    ASSUME NEW r \in Ring
    PROVE  /\ Contents(r) \in Seq(Byte)
           /\ Len(Contents(r)) = fifo_count(r)
           /\ fifo_count(r) \in Nat
           /\ \A i \in 1 .. fifo_count(r) : Contents(r)[i] = r.data[Mask(r.tail + i - 1)]
<1>1. fifo_count(r) \in Nat /\ r.data \in [Slot -> Byte]
  BY RingArith, SizeAssumption DEF Slot
<1>2. \A i \in 1 .. fifo_count(r) : r.data[Mask(r.tail + i - 1)] \in Byte
  BY <1>1, IndexCases
<1> QED
  BY <1>1, <1>2 DEF Contents

\* fifo_push() into a ring that is not full appends.
LEMMA PushAppends ==
    ASSUME NEW r \in Ring, NEW b \in Byte, ~fifo_is_full(r)
    PROVE  /\ fifo_count(r) < Size - 1
           /\ Contents(fifo_push(r, b)) = Append(Contents(r), b)
<1> DEFINE n == fifo_count(r)
           p == fifo_push(r, b)
<1>1. /\ Size \in Nat /\ Size > 0
      /\ r.head \in Nat /\ r.head < Size /\ r.tail \in Nat /\ r.tail < Size
      /\ r.data \in [Slot -> Byte]
      /\ n = IF r.tail <= r.head THEN r.head - r.tail ELSE r.head - r.tail + Size
      /\ Mask(r.head + 1) = IF r.head + 1 = Size THEN 0 ELSE r.head + 1
  BY RingArith, SizeAssumption DEF Slot
<1>2. p \in Ring /\ p.tail = r.tail /\ p.head = Mask(r.head + 1)
      /\ p.data = [r.data EXCEPT ![r.head] = b]
  BY RingClosed DEF fifo_push, Ring
<1>3. fifo_count(p) = n + 1 /\ n < Size - 1
  <2>1. fifo_count(p) = IF p.tail <= p.head THEN p.head - p.tail
                                            ELSE p.head - p.tail + Size
    BY <1>2, RingArith
  <2> QED
    BY <1>1, <1>2, <2>1 DEF fifo_is_full
<1>4. \A i \in 1 .. n : p.data[Mask(p.tail + i - 1)] = r.data[Mask(r.tail + i - 1)]
  <2> SUFFICES ASSUME NEW i \in 1 .. n
               PROVE  Mask(r.tail + i - 1) \in Slot /\ Mask(r.tail + i - 1) # r.head
    BY <1>1, <1>2
  <2>1. /\ Mask(r.tail + i - 1) = IF r.tail + i - 1 < Size THEN r.tail + i - 1
                                                           ELSE r.tail + i - 1 - Size
        /\ Mask(r.tail + i - 1) \in Slot
    BY IndexCases
  <2> QED
    BY <1>1, <1>3, <2>1
<1>5. p.data[Mask(p.tail + (n + 1) - 1)] = b
  <2>1. Mask(r.tail + n) = r.head
    BY <1>1, <1>3, MaskCases
  <2>2. r.head \in Slot
    BY <1>1 DEF Slot
  <2> QED
    BY <1>1, <1>2, <2>1, <2>2
<1>6. /\ Contents(r) \in Seq(Byte) /\ Len(Contents(r)) = n /\ n \in Nat
      /\ \A i \in 1 .. n : Contents(r)[i] = r.data[Mask(r.tail + i - 1)]
  BY ContentsSeq
<1>7. /\ Contents(p) \in Seq(Byte) /\ Len(Contents(p)) = n + 1
      /\ \A i \in 1 .. n + 1 : Contents(p)[i] = p.data[Mask(p.tail + i - 1)]
  BY <1>2, <1>3, ContentsSeq
<1> HIDE DEF p, n
<1>8. \A i \in 1 .. n + 1 : Contents(p)[i] = Append(Contents(r), b)[i]
  BY <1>4, <1>5, <1>6, <1>7
<1>9. Contents(p) = Append(Contents(r), b)
  <2> DEFINE s == Contents(p)  t == Append(Contents(r), b)
  <2>1. s \in Seq(Byte) /\ t \in Seq(Byte) /\ Len(s) = Len(t)
    BY <1>6, <1>7
  <2>2. \A i \in 1 .. Len(s) : s[i] = t[i]
    BY <1>7, <1>8
  <2> HIDE DEF s, t
  <2> QED
    BY <2>1, <2>2, SeqEqual DEF s, t
<1> QED
  BY <1>3, <1>9 DEF n, p

\* fifo_pop_back() of a ring that is not empty takes the oldest byte.
LEMMA PopBackTakes ==
    ASSUME NEW r \in Ring, ~fifo_is_empty(r)
    PROVE  /\ Contents(r) # <<>>
           /\ Contents(fifo_pop_back(r)) = Tail(Contents(r))
<1> DEFINE n == fifo_count(r)
           p == fifo_pop_back(r)
<1>1. /\ Size \in Nat /\ Size > 0
      /\ r.head \in Nat /\ r.head < Size /\ r.tail \in Nat /\ r.tail < Size
      /\ r.data \in [Slot -> Byte]
      /\ n = IF r.tail <= r.head THEN r.head - r.tail ELSE r.head - r.tail + Size
      /\ Mask(r.tail + 1) = IF r.tail + 1 = Size THEN 0 ELSE r.tail + 1
  BY RingArith, SizeAssumption DEF Slot
<1>2. p \in Ring /\ p.head = r.head /\ p.tail = Mask(r.tail + 1) /\ p.data = r.data
  <2>1. r.data[r.tail] \in Byte
    BY <1>1 DEF Slot
  <2> QED
    BY <2>1, RingClosed DEF fifo_pop_back, Ring
<1>3. fifo_count(p) = n - 1 /\ n >= 1
  <2>1. fifo_count(p) = IF p.tail <= p.head THEN p.head - p.tail
                                            ELSE p.head - p.tail + Size
    BY <1>2, RingArith
  <2> QED
    BY <1>1, <1>2, <2>1 DEF fifo_is_empty
<1>4. \A i \in 1 .. n - 1 : Mask(p.tail + i - 1) = Mask(r.tail + (i + 1) - 1)
  <2> SUFFICES ASSUME NEW i \in 1 .. n - 1
               PROVE  Mask(p.tail + i - 1) = Mask(r.tail + (i + 1) - 1)
    OBVIOUS
  <2>1. Mask(p.tail + i - 1) = IF p.tail + i - 1 < Size THEN p.tail + i - 1
                                                        ELSE p.tail + i - 1 - Size
    BY <1>2, <1>3, IndexCases
  <2>2. i + 1 \in 1 .. n
    BY <1>1, <1>3
  <2>3. Mask(r.tail + (i + 1) - 1) =
            IF r.tail + (i + 1) - 1 < Size THEN r.tail + (i + 1) - 1
                                           ELSE r.tail + (i + 1) - 1 - Size
    BY <2>2, IndexCases
  <2> QED
    BY <1>1, <1>2, <1>3, <2>1, <2>3
<1>5. /\ Contents(r) \in Seq(Byte) /\ Len(Contents(r)) = n /\ n \in Nat
      /\ \A i \in 1 .. n : Contents(r)[i] = r.data[Mask(r.tail + i - 1)]
  BY ContentsSeq
<1>6. /\ Contents(p) \in Seq(Byte) /\ Len(Contents(p)) = n - 1
      /\ \A i \in 1 .. n - 1 : Contents(p)[i] = r.data[Mask(p.tail + i - 1)]
  BY <1>2, <1>3, ContentsSeq
<1> HIDE DEF p, n
<1>7. Contents(r) # <<>>
  BY <1>3, <1>5
<1>8. Contents(p) = Tail(Contents(r))
  <2> DEFINE s == Contents(p)  t == Tail(Contents(r))
  <2>1. /\ t \in Seq(Byte) /\ Len(t) = n - 1
        /\ \A i \in 1 .. n - 1 : t[i] = Contents(r)[i + 1]
    BY <1>5, <1>7, HeadTailProperties
  <2>2. \A i \in 1 .. n - 1 : i + 1 \in 1 .. n
    BY <1>5
  <2>3. \A i \in 1 .. n - 1 : s[i] = t[i]
    BY <1>4, <1>5, <1>6, <2>1, <2>2
  <2> HIDE DEF t
  <2> QED
    BY <1>6, <2>1, <2>3, SeqEqual DEF t
<1> QED
  BY <1>7, <1>8 DEF n, p

\* fifo_pop_front() of a ring that is not empty un-appends the newest byte.
LEMMA PopFrontUndoes ==
    ASSUME NEW r \in Ring, ~fifo_is_empty(r)
    PROVE  Contents(fifo_pop_front(r)) =
               [i \in 1 .. Len(Contents(r)) - 1 |-> Contents(r)[i]]
<1> DEFINE n == fifo_count(r)
           p == fifo_pop_front(r)
<1>1. /\ Size \in Nat /\ Size > 0
      /\ r.head \in Nat /\ r.head < Size /\ r.tail \in Nat /\ r.tail < Size
      /\ r.data \in [Slot -> Byte]
      /\ n = IF r.tail <= r.head THEN r.head - r.tail ELSE r.head - r.tail + Size
      /\ Mask(r.head - 1) = IF r.head = 0 THEN Size - 1 ELSE r.head - 1
  BY RingArith, SizeAssumption DEF Slot
<1>2. p \in Ring /\ p.tail = r.tail /\ p.head = Mask(r.head - 1) /\ p.data = r.data
  <2>1. r.data[r.tail] \in Byte
    BY <1>1 DEF Slot
  <2> QED
    BY <2>1, RingClosed DEF fifo_pop_front, Ring
<1>3. fifo_count(p) = n - 1 /\ n >= 1
  <2>1. fifo_count(p) = IF p.tail <= p.head THEN p.head - p.tail
                                            ELSE p.head - p.tail + Size
    BY <1>2, RingArith
  <2> QED
    BY <1>1, <1>2, <2>1 DEF fifo_is_empty
<1>4. /\ Len(Contents(r)) = n /\ n \in Nat
      /\ \A i \in 1 .. n : Contents(r)[i] = r.data[Mask(r.tail + i - 1)]
  BY ContentsSeq
<1>5. Contents(p) = [i \in 1 .. n - 1 |-> r.data[Mask(r.tail + i - 1)]]
  BY <1>2, <1>3 DEF Contents
<1> HIDE DEF p, n
<1> QED
  BY <1>4, <1>5 DEF n, p

\* An empty ring holds the empty sequence; fifo_remove_all_but_one() keeps
\* exactly the oldest byte.
LEMMA RemoveKeeps ==
    ASSUME NEW r \in Ring
    PROVE  /\ fifo_is_empty(r) <=> Contents(r) = <<>>
           /\ Contents(fifo_remove_all(r)) = <<>>
           /\ ~fifo_is_empty(r) =>
                  Contents(fifo_remove_all_but_one(r)) = <<Contents(r)[1]>>
<1>1. \A u \in Ring : fifo_is_empty(u) <=> Contents(u) = <<>>
  <2> SUFFICES ASSUME NEW u \in Ring PROVE fifo_is_empty(u) <=> Contents(u) = <<>>
    OBVIOUS
  <2>1. fifo_is_empty(u) <=> fifo_count(u) = 0
    BY Measures
  <2>2. Contents(u) \in Seq(Byte) /\ Len(Contents(u)) = fifo_count(u)
    BY ContentsSeq
  <2> QED
    BY <2>1, <2>2, EmptySeq
<1>2. r.data[r.tail] \in Byte /\ r.tail \in Slot
  BY RingArith
<1>3. Contents(fifo_remove_all(r)) = <<>>
  <2>1. fifo_remove_all(r) \in Ring
    BY <1>2, RingClosed
  <2>2. fifo_is_empty(fifo_remove_all(r))
    BY DEF fifo_is_empty, fifo_remove_all, Ring
  <2> QED
    BY <1>1, <2>1, <2>2
<1>4. ASSUME ~fifo_is_empty(r)
      PROVE  Contents(fifo_remove_all_but_one(r)) = <<Contents(r)[1]>>
  <2> DEFINE p == fifo_remove_all_but_one(r)
  <2>1. /\ p \in Ring /\ p.tail = r.tail /\ p.head = Mask(r.tail + 1)
        /\ p.data = r.data
    BY <1>2, <1>4, RingClosed DEF fifo_remove_all_but_one, fifo_is_empty, Ring
  <2>2. /\ Size \in Nat /\ Size > 0 /\ r.tail \in Nat /\ r.tail < Size
        /\ r.head \in Nat /\ r.head < Size
        /\ Mask(r.tail + 1) = IF r.tail + 1 = Size THEN 0 ELSE r.tail + 1
    BY RingArith, SizeAssumption DEF Slot
  <2>3. fifo_count(p) = 1
    <3>1. fifo_count(p) = IF p.tail <= p.head THEN p.head - p.tail
                                              ELSE p.head - p.tail + Size
      BY <2>1, RingArith
    <3> QED
      BY <1>4, <2>1, <2>2, <3>1 DEF fifo_is_empty
  <2>4. fifo_count(r) \in Nat /\ fifo_count(r) # 0
    BY <1>4, Measures, ContentsSeq
  <2>5. 1 \in 1 .. fifo_count(r)
    BY <2>4
  <2>6. Contents(r)[1] = r.data[Mask(r.tail + 1 - 1)] /\ Contents(r)[1] \in Byte
    <3>1. Contents(r) \in Seq(Byte) /\ Len(Contents(r)) = fifo_count(r)
      BY ContentsSeq
    <3> QED
      BY <2>5, <3>1, ContentsSeq, ElementOfSeq
  <2>7. /\ Contents(p) \in Seq(Byte) /\ Len(Contents(p)) = 1
        /\ Contents(p)[1] = r.data[Mask(r.tail + 1 - 1)]
    <3> 1 \in 1 .. fifo_count(p)
      BY <2>3
    <3> QED
      BY <2>1, <2>3, ContentsSeq
  <2> HIDE DEF p
  <2> DEFINE s == Contents(p)  t == <<Contents(r)[1]>>
  <2>8. /\ t \in Seq(Byte) /\ Len(t) = 1 /\ t[1] = Contents(r)[1]
    BY <2>6
  <2>9. \A i \in 1 .. Len(s) : s[i] = t[i]
    BY <2>6, <2>7, <2>8
  <2>10. s = t
    <3> HIDE DEF s, t
    <3> QED
      BY <2>7, <2>8, <2>9, SeqEqual DEF s
  <2> QED
    BY <2>10 DEF p
<1> QED
  BY <1>1, <1>3, <1>4

---------------------------------------------------------------------------
(* fifo_has_char() under the operations that change a ring                 *)

\* A push makes the head's slot, which was free, the only new occupied one.
LEMMA HasPush ==
    ASSUME NEW r \in Ring, NEW b \in Byte, ~fifo_is_full(r), NEW c
    PROVE  fifo_has_char(fifo_push(r, b), c) <=> fifo_has_char(r, c) \/ c = b
<1> DEFINE p == fifo_push(r, b)
<1>1. /\ Size \in Nat /\ Size > 0
      /\ r.head \in Nat /\ r.head < Size /\ r.tail \in Nat /\ r.tail < Size
      /\ r.data \in [Slot -> Byte]
      /\ Mask(r.head + 1) = IF r.head + 1 = Size THEN 0 ELSE r.head + 1
  BY RingArith, SizeAssumption DEF Slot
<1>2. /\ p.tail = r.tail /\ p.head = Mask(r.head + 1)
      /\ p.data = [r.data EXCEPT ![r.head] = b]
  BY DEF fifo_push, Ring
<1>3. Mask(r.head + 1) # r.tail
  BY DEF fifo_is_full
<1>4. \A i : i \in Occupied(p) <=> i \in Occupied(r) \/ i = r.head
  <2>1. CASE r.tail <= r.head /\ r.head + 1 < Size
    BY <1>1, <1>2, <1>3, <2>1 DEF Occupied
  <2>2. CASE r.tail <= r.head /\ r.head + 1 = Size
    BY <1>1, <1>2, <1>3, <2>2 DEF Occupied
  <2>3. CASE r.head < r.tail
    BY <1>1, <1>2, <1>3, <2>3 DEF Occupied
  <2> QED
    BY <1>1, <2>1, <2>2, <2>3
<1>5. \A i \in Occupied(r) : i \in Slot /\ i # r.head
  BY <1>1 DEF Occupied, Slot
<1>6. \A i \in Occupied(r) : p.data[i] = r.data[i]
  BY <1>1, <1>2, <1>5
<1>7. p.data[r.head] = b
  BY <1>1, <1>2 DEF Slot
<1> HIDE DEF p
<1>8. fifo_has_char(p, c) <=> fifo_has_char(r, c) \/ c = b
  BY <1>4, <1>6, <1>7 DEF fifo_has_char
<1> QED
  BY <1>8 DEF p

\* The byte that fifo_pop_back() returns is the one the ring loses.
LEMMA HasPopBack ==
    ASSUME NEW r \in Ring, ~fifo_is_empty(r), NEW c
    PROVE  fifo_has_char(r, c) <=> fifo_has_char(fifo_pop_back(r), c) \/ fifo_back(r) = c
<1> DEFINE p == fifo_pop_back(r)
<1>1. /\ Size \in Nat /\ Size > 0
      /\ r.head \in Nat /\ r.head < Size /\ r.tail \in Nat /\ r.tail < Size
      /\ Mask(r.tail + 1) = IF r.tail + 1 = Size THEN 0 ELSE r.tail + 1
  BY RingArith, SizeAssumption DEF Slot
<1>2. p.head = r.head /\ p.tail = Mask(r.tail + 1) /\ p.data = r.data
  BY DEF fifo_pop_back, Ring
<1>3. r.head # r.tail
  BY DEF fifo_is_empty
<1>4. \A i : i \in Occupied(r) <=> i \in Occupied(p) \/ i = r.tail
  <2>1. CASE r.tail < r.head
    BY <1>1, <1>2, <2>1 DEF Occupied
  <2>2. CASE r.head < r.tail /\ r.tail + 1 < Size
    BY <1>1, <1>2, <2>2 DEF Occupied
  <2>3. CASE r.head < r.tail /\ r.tail + 1 = Size
    BY <1>1, <1>2, <2>3 DEF Occupied
  <2> QED
    BY <1>1, <1>3, <2>1, <2>2, <2>3
<1> HIDE DEF p
<1>5. fifo_has_char(r, c) <=> fifo_has_char(p, c) \/ fifo_back(r) = c
  BY <1>2, <1>4 DEF fifo_has_char, fifo_back
<1> QED
  BY <1>5 DEF p

\* The byte that fifo_pop_front() un-writes is the one fifo_peek_front() shows.
LEMMA HasPopFront ==
    ASSUME NEW r \in Ring, ~fifo_is_empty(r), NEW c
    PROVE  fifo_has_char(r, c) <=>
               fifo_has_char(fifo_pop_front(r), c) \/ fifo_peek_front(r) = c
<1> DEFINE p == fifo_pop_front(r)
<1>1. /\ Size \in Nat /\ Size > 0
      /\ r.head \in Nat /\ r.head < Size /\ r.tail \in Nat /\ r.tail < Size
      /\ Mask(r.head - 1) = IF r.head = 0 THEN Size - 1 ELSE r.head - 1
  BY RingArith, SizeAssumption DEF Slot
<1>2. p.tail = r.tail /\ p.head = Mask(r.head - 1) /\ p.data = r.data
  BY DEF fifo_pop_front, Ring
<1>3. r.head # r.tail
  BY DEF fifo_is_empty
<1>4. \A i : i \in Occupied(r) <=> i \in Occupied(p) \/ i = Mask(r.head - 1)
  <2>1. CASE r.tail < r.head
    BY <1>1, <1>2, <2>1 DEF Occupied
  <2>2. CASE r.head < r.tail /\ r.head = 0
    BY <1>1, <1>2, <2>2 DEF Occupied
  <2>3. CASE r.head < r.tail /\ r.head # 0
    BY <1>1, <1>2, <2>3 DEF Occupied
  <2> QED
    BY <1>1, <1>3, <2>1, <2>2, <2>3
<1> HIDE DEF p
<1>5. fifo_has_char(r, c) <=> fifo_has_char(p, c) \/ fifo_peek_front(r) = c
  BY <1>2, <1>4 DEF fifo_has_char, fifo_peek_front
<1> QED
  BY <1>5 DEF p

\* An empty ring has no byte, and fifo_remove_all() leaves an empty ring.
LEMMA HasNone ==
    ASSUME NEW r \in Ring, NEW c
    PROVE  /\ fifo_is_empty(r) => ~fifo_has_char(r, c)
           /\ fifo_is_empty(fifo_remove_all(r))
           /\ ~fifo_has_char(fifo_remove_all(r), c)
<1>1. \A u \in Ring : fifo_is_empty(u) => ~fifo_has_char(u, c)
  BY SizeAssumption DEF Ring, Slot, fifo_is_empty, fifo_has_char, Occupied
<1>2. fifo_remove_all(r) \in Ring /\ fifo_is_empty(fifo_remove_all(r))
  <2>1. 0 \in Slot
    BY SizeAssumption DEF Slot
  <2>2. r.data[0] \in Byte
    BY <2>1 DEF Ring
  <2>3. fifo_remove_all(r) \in Ring
    BY <2>2, RingClosed
  <2>4. fifo_is_empty(fifo_remove_all(r))
    BY DEF Ring, fifo_is_empty, fifo_remove_all
  <2> QED
    BY <2>3, <2>4
<1> QED
  BY <1>1, <1>2

\* fifo_has_char() looks at what the ring holds and at nothing else.
LEMMA HasContents ==
    ASSUME NEW r \in Ring, NEW c
    PROVE  fifo_has_char(r, c) <=> \E i \in 1 .. fifo_count(r) : Contents(r)[i] = c
<1> DEFINE n == fifo_count(r)
<1>1. /\ Size \in Nat /\ Size > 0
      /\ r.head \in Nat /\ r.head < Size /\ r.tail \in Nat /\ r.tail < Size
      /\ n = IF r.tail <= r.head THEN r.head - r.tail ELSE r.head - r.tail + Size
      /\ n \in Nat
  BY RingArith, SizeAssumption DEF Slot
<1>2. \A i \in 1 .. n :
          /\ Contents(r)[i] = r.data[Mask(r.tail + i - 1)]
          /\ Mask(r.tail + i - 1) = IF r.tail + i - 1 < Size THEN r.tail + i - 1
                                                             ELSE r.tail + i - 1 - Size
  BY ContentsSeq, IndexCases
<1> HIDE DEF n
<1>3. \A i \in 1 .. n : Mask(r.tail + i - 1) \in Occupied(r)
  <2> SUFFICES ASSUME NEW i \in 1 .. n PROVE Mask(r.tail + i - 1) \in Occupied(r)
    OBVIOUS
  <2> DEFINE m == Mask(r.tail + i - 1)
  <2>1. m = IF r.tail + i - 1 < Size THEN r.tail + i - 1 ELSE r.tail + i - 1 - Size
    BY <1>2
  <2> HIDE DEF m
  <2>2. i \in Nat /\ 1 <= i /\ i <= n
    BY <1>1
  <2>3. m \in Occupied(r)
    <3>1. CASE r.tail <= r.head
      <4>1. m = r.tail + i - 1 /\ m <= r.head - 1
        BY <1>1, <2>1, <2>2, <3>1
      <4> QED
        BY <1>1, <2>2, <3>1, <4>1 DEF Occupied
    <3>2. CASE r.head < r.tail
      <4>1. \/ m \in Nat /\ r.tail <= m /\ m <= Size - 1
            \/ m \in Nat /\ 0 <= m /\ m <= r.head - 1
        BY <1>1, <2>1, <2>2, <3>2
      <4> QED
        BY <1>1, <3>2, <4>1 DEF Occupied
    <3> QED
      BY <1>1, <3>1, <3>2
  <2> QED
    BY <2>3 DEF m
<1>4. ASSUME NEW j \in Occupied(r)
      PROVE  \E i \in 1 .. n : j = Mask(r.tail + i - 1)
  <2> DEFINE i == IF r.tail <= j THEN j - r.tail + 1 ELSE j - r.tail + 1 + Size
  <2>1. j \in Nat /\ j < Size /\ i \in 1 .. n
    BY <1>1, <1>4 DEF Occupied
  <2>2. j = Mask(r.tail + i - 1)
    BY <1>1, <1>2, <2>1
  <2> QED
    BY <2>1, <2>2
<1> QED
  BY <1>2, <1>3, <1>4 DEF fifo_has_char, n

\* VKILL cuts the ring back to its k oldest bytes: a byte that is not among the
\* ones cut off is found as before.
LEMMA HasCut ==
    ASSUME NEW r \in Ring, NEW k \in 0 .. fifo_count(r), NEW c,
           \A j \in k + 1 .. fifo_count(r) : Contents(r)[j] # c
    PROVE  LET p == [r EXCEPT !.head = Mask(r.tail + k)]
           IN p \in Ring /\ (fifo_has_char(p, c) <=> fifo_has_char(r, c))
<1> DEFINE p == [r EXCEPT !.head = Mask(r.tail + k)]
           n == fifo_count(r)
<1>1. /\ Size \in Nat /\ Size > 0 /\ r.tail \in Nat /\ r.tail < Size
      /\ n \in Nat /\ n < Size
  BY RingArith, SizeAssumption DEF Slot
<1>2. Mask(r.tail + k) = IF r.tail + k < Size THEN r.tail + k ELSE r.tail + k - Size
  <2> DEFINE j == r.tail + k
  <2>1. j \in Int /\ -Size <= j /\ j < 2 * Size /\ 0 <= j
    BY <1>1
  <2> HIDE DEF j
  <2>2. Mask(j) = IF j < Size THEN j ELSE j - Size
    BY <1>1, <2>1, MaskCases
  <2> QED
    BY <1>1, <2>1, <2>2 DEF j
<1>3. /\ p \in Ring /\ p.tail = r.tail /\ p.data = r.data
      /\ p.head = Mask(r.tail + k)
  BY <1>1, <1>2 DEF Ring, Slot
<1>4. fifo_count(p) = k
  <2>1. fifo_count(p) = IF p.tail <= p.head THEN p.head - p.tail ELSE p.head - p.tail + Size
    BY <1>3, RingArith
  <2> QED
    BY <1>1, <1>2, <1>3, <2>1
<1> HIDE DEF p
<1>5. \A i \in 1 .. k : Contents(p)[i] = Contents(r)[i]
  <2> SUFFICES ASSUME NEW i \in 1 .. k PROVE Contents(p)[i] = Contents(r)[i]
    OBVIOUS
  <2>1. i \in 1 .. fifo_count(p) /\ i \in 1 .. fifo_count(r)
    BY <1>1, <1>4
  <2> QED
    BY <1>3, <2>1, ContentsSeq
<1>6. fifo_has_char(p, c) <=> \E i \in 1 .. k : Contents(p)[i] = c
  BY <1>3, <1>4, HasContents
<1>7. fifo_has_char(r, c) <=> \E i \in 1 .. n : Contents(r)[i] = c
  BY HasContents
<1>8. fifo_has_char(p, c) <=> fifo_has_char(r, c)
  BY <1>1, <1>5, <1>6, <1>7
<1> QED
  BY <1>3, <1>8 DEF p

===========================================================================
