---------------------------- MODULE KniFifoProof ----------------------------
(***************************************************************************)
(* Proofs about KniFifo for every length, element set and batch size.      *)
(***************************************************************************)
EXTENDS KniFifo, SequenceTheorems, TLAPS

(* The masked index arithmetic, with the wrap-around made explicit. *)

\* Masking an index that has not wrapped, or has wrapped once, either way.
LEMMA MaskCases ==
  ASSUME NEW x \in Int
  PROVE  /\ Mask(x) \in Slots
         /\ 0 <= x /\ x < FifoLen => Mask(x) = x
         /\ FifoLen <= x /\ x < 2 * FifoLen => Mask(x) = x - FifoLen
         /\ -FifoLen <= x /\ x < 0 => Mask(x) = x + FifoLen
<1> x % FifoLen \in 0..FifoLen - 1
  BY FifoLenAssumption
<1>1. 0 <= x /\ x < FifoLen => x % FifoLen = x
  BY FifoLenAssumption
<1>2. FifoLen <= x /\ x < 2 * FifoLen => x % FifoLen = x - FifoLen
  BY FifoLenAssumption
<1>3. -FifoLen <= x /\ x < 0 => x % FifoLen = x + FifoLen
  BY FifoLenAssumption
<1> QED
  BY <1>1, <1>2, <1>3 DEF Mask, Slots

\* The slot k places after slot a.
LEMMA MaskAdd ==
  ASSUME NEW a \in Slots, NEW k \in 0..FifoLen
  PROVE  /\ Mask(a + k) \in Slots
         /\ Mask(a + k) = IF a + k < FifoLen THEN a + k ELSE a + k - FifoLen
BY FifoLenAssumption, MaskCases DEF Slots

\* The distance between two slots.
LEMMA DistCases ==
  ASSUME NEW a \in Slots, NEW b \in Slots
  PROVE  /\ Dist(a, b) \in Slots
         /\ Dist(a, b) = IF a <= b THEN b - a ELSE b - a + FifoLen
BY FifoLenAssumption, MaskCases DEF Slots, Dist

\* The masked successor of a slot, and the slot itself, are slots.
LEMMA NextSlot ==
  ASSUME NEW a \in Slots
  PROVE  Mask(a + 1) \in Slots /\ Mask(a + 0) = a /\ Mask(a) = a
<1>1. Mask(a + 1) \in Slots
  BY MaskAdd, FifoLenAssumption
<1>2. a + 0 = a /\ Mask(a) = a
  BY MaskCases, FifoLenAssumption DEF Slots
<1> QED
  BY <1>1, <1>2

\* Advancing one slot at a time is advancing by the sum.
LEMMA MaskStep ==
  ASSUME NEW a \in Slots, NEW k \in 0..FifoLen - 1
  PROVE  Mask(Mask(a + k) + 1) = Mask(a + k + 1)
<1>1. Mask(a + k) \in Slots
      /\ Mask(a + k) = IF a + k < FifoLen THEN a + k ELSE a + k - FifoLen
  BY MaskAdd, FifoLenAssumption
<1>2. Mask(a + (k + 1))
        = IF a + (k + 1) < FifoLen THEN a + (k + 1) ELSE a + (k + 1) - FifoLen
  BY MaskAdd, FifoLenAssumption
<1>3. Mask(Mask(a + k) + 1)
        = IF Mask(a + k) + 1 < FifoLen THEN Mask(a + k) + 1
                                       ELSE Mask(a + k) + 1 - FifoLen
  BY <1>1, MaskAdd, FifoLenAssumption
<1>4. a + (k + 1) = a + k + 1
  BY FifoLenAssumption DEF Slots
<1> QED
  BY <1>1, <1>2, <1>3, <1>4, FifoLenAssumption DEF Slots

\* Fewer than FifoLen places apart, two different places are different slots.
LEMMA SlotsApart ==
  ASSUME NEW a \in Slots, NEW j \in 0..FifoLen - 1, NEW k \in 0..FifoLen - 1,
         Mask(a + j) = Mask(a + k)
  PROVE  j = k
BY MaskAdd, FifoLenAssumption DEF Slots

\* Walking k slots on from a shortens the distance to b by k.
LEMMA DistAfter ==
  ASSUME NEW a \in Slots, NEW b \in Slots, NEW k \in 0..Dist(a, b)
  PROVE  Dist(Mask(a + k), b) = Dist(a, b) - k
<1>1. Dist(a, b) \in Slots
      /\ Dist(a, b) = IF a <= b THEN b - a ELSE b - a + FifoLen
  BY DistCases
<1>2. k \in 0..FifoLen
  BY <1>1, FifoLenAssumption DEF Slots
<1>3. Mask(a + k) \in Slots
      /\ Mask(a + k) = IF a + k < FifoLen THEN a + k ELSE a + k - FifoLen
  BY <1>2, MaskAdd
<1>4. Dist(Mask(a + k), b)
        = IF Mask(a + k) <= b THEN b - Mask(a + k) ELSE b - Mask(a + k) + FifoLen
  BY <1>3, DistCases
<1> QED
  BY <1>1, <1>2, <1>3, <1>4, FifoLenAssumption DEF Slots

\* Walking k slots on from b lengthens the distance from a by k.
LEMMA DistBefore ==
  ASSUME NEW a \in Slots, NEW b \in Slots, NEW k \in Nat,
         Dist(a, b) + k <= FifoLen - 1
  PROVE  Dist(a, Mask(b + k)) = Dist(a, b) + k
<1>1. Dist(a, b) \in Slots
      /\ Dist(a, b) = IF a <= b THEN b - a ELSE b - a + FifoLen
  BY DistCases
<1>2. k \in 0..FifoLen
  BY <1>1, FifoLenAssumption DEF Slots
<1>3. Mask(b + k) \in Slots
      /\ Mask(b + k) = IF b + k < FifoLen THEN b + k ELSE b + k - FifoLen
  BY <1>2, MaskAdd
<1>4. Dist(a, Mask(b + k))
        = IF a <= Mask(b + k) THEN Mask(b + k) - a ELSE Mask(b + k) - a + FifoLen
  BY <1>3, DistCases
<1> QED
  BY <1>1, <1>2, <1>3, <1>4, FifoLenAssumption DEF Slots

\* The slots after b, seen from a: the k-th slot after b is the
\* (Dist(a, b) + k)-th slot after a.
LEMMA MaskFrom ==
  ASSUME NEW a \in Slots, NEW b \in Slots, NEW k \in Nat,
         Dist(a, b) + k <= FifoLen
  PROVE  Mask(b + k) = Mask(a + (Dist(a, b) + k))
<1>1. Dist(a, b) \in Slots
      /\ Dist(a, b) = IF a <= b THEN b - a ELSE b - a + FifoLen
  BY DistCases
<1>2. k \in 0..FifoLen /\ Dist(a, b) + k \in 0..FifoLen
  BY <1>1, FifoLenAssumption DEF Slots
<1>3. Mask(b + k) = IF b + k < FifoLen THEN b + k ELSE b + k - FifoLen
  BY <1>2, MaskAdd
<1>4. Mask(a + (Dist(a, b) + k))
        = IF a + (Dist(a, b) + k) < FifoLen THEN a + (Dist(a, b) + k)
                                            ELSE a + (Dist(a, b) + k) - FifoLen
  BY <1>2, MaskAdd
<1> QED
  BY <1>1, <1>2, <1>3, <1>4, FifoLenAssumption DEF Slots

\* The test of kni_fifo_put: while the slot after the k staged ones is not the
\* read index, there is room for one more.
LEMMA RoomForOne ==
  ASSUME NEW a \in Slots, NEW b \in Slots, NEW k \in Nat,
         Dist(a, b) + k <= FifoLen - 1, Mask(Mask(b + k) + 1) # a
  PROVE  Dist(a, b) + (k + 1) <= FifoLen - 1
<1>1. Dist(a, b) \in Slots /\ k \in 0..FifoLen - 1
  BY DistCases, FifoLenAssumption DEF Slots
<1>2. Dist(a, b) \in Nat
  BY <1>1, FifoLenAssumption DEF Slots
<1>3. CASE Dist(a, b) + (k + 1) = FifoLen
  <2>1. Mask(b + (k + 1)) = Mask(a + FifoLen)
    <3>1. k + 1 \in Nat /\ Dist(a, b) + (k + 1) <= FifoLen
      BY <1>3, FifoLenAssumption
    <3>2. Mask(b + (k + 1)) = Mask(a + (Dist(a, b) + (k + 1)))
      BY <3>1, MaskFrom
    <3> QED
      BY <1>3, <3>2
  <2>2. FifoLen \in 0..FifoLen /\ a + FifoLen >= FifoLen /\ a + FifoLen - FifoLen = a
    BY FifoLenAssumption DEF Slots
  <2>3. Mask(a + FifoLen) = a
    BY <2>2, MaskAdd, FifoLenAssumption DEF Slots
  <2>4. Mask(Mask(b + k) + 1) = Mask(b + k + 1) /\ b + k + 1 = b + (k + 1)
    BY <1>1, MaskStep, FifoLenAssumption DEF Slots
  <2> QED
    BY <2>1, <2>3, <2>4
<1>4. CASE Dist(a, b) + (k + 1) # FifoLen
  BY <1>2, <1>4, FifoLenAssumption
<1> QED
  BY <1>3, <1>4

\* The test of kni_fifo_get: the slot after the k copied ones is the write index
\* exactly when all of them have been copied.
LEMMA OneToTake ==
  ASSUME NEW a \in Slots, NEW b \in Slots, NEW k \in 0..Dist(a, b)
  PROVE  (Mask(a + k) = b) <=> (k = Dist(a, b))
<1>1. Dist(a, b) \in Slots
      /\ Dist(a, b) = IF a <= b THEN b - a ELSE b - a + FifoLen
  BY DistCases
<1>2. k \in 0..FifoLen
  BY <1>1, FifoLenAssumption DEF Slots
<1>3. Mask(a + k) = IF a + k < FifoLen THEN a + k ELSE a + k - FifoLen
  BY <1>2, MaskAdd
<1> QED
  BY <1>1, <1>2, <1>3, FifoLenAssumption DEF Slots

\* kni_fifo_free_count and kni_fifo_count are the room and the fill.
LEMMA CountsAreDistances ==
  ASSUME NEW r \in Slots, NEW w \in Slots
  PROVE  /\ Mask(r - w - 1) = FifoLen - 1 - Dist(r, w)
         /\ Mask(FifoLen + w - r) = Dist(r, w)
<1>1. Dist(r, w) \in Slots
      /\ Dist(r, w) = IF r <= w THEN w - r ELSE w - r + FifoLen
  BY DistCases
<1>2. Mask(r - w - 1) = FifoLen - 1 - Dist(r, w)
  <2>1. r - w - 1 \in Int /\ -FifoLen <= r - w - 1 /\ r - w - 1 < FifoLen
    BY FifoLenAssumption DEF Slots
  <2>2. r - w - 1 >= 0 => Mask(r - w - 1) = r - w - 1
    BY <2>1, MaskCases
  <2>3. r - w - 1 < 0 => Mask(r - w - 1) = r - w - 1 + FifoLen
    BY <2>1, MaskCases
  <2> QED
    BY <1>1, <2>1, <2>2, <2>3, FifoLenAssumption DEF Slots
<1>3. Mask(FifoLen + w - r) = Dist(r, w)
  <2>1. FifoLen + w - r \in Int /\ 0 <= FifoLen + w - r
        /\ FifoLen + w - r < 2 * FifoLen
    BY FifoLenAssumption DEF Slots
  <2>2. FifoLen + w - r < FifoLen => Mask(FifoLen + w - r) = FifoLen + w - r
    BY <2>1, MaskCases
  <2>3. FifoLen + w - r >= FifoLen => Mask(FifoLen + w - r) = w - r
    BY <2>1, MaskCases, FifoLenAssumption DEF Slots
  <2> QED
    BY <1>1, <2>1, <2>2, <2>3, FifoLenAssumption DEF Slots
<1> QED
  BY <1>2, <1>3

-----------------------------------------------------------------------------
(* The inductive invariant: one lemma per action. *)

\* kni_fifo_init sets up the invariant.
LEMMA InitInv == Init => FifoInv
<1> SUFFICES ASSUME Init PROVE FifoInv
  OBVIOUS
<1>1. Dist(0, 0) = 0 /\ 0 \in Slots
  BY DistCases, FifoLenAssumption DEF Slots
<1>2. TypeOK
  BY <1>1, MaxBatchAssumption DEF Init, TypeOK
<1>3. ProducerView
  BY <1>1, FifoLenAssumption DEF Init, ProducerView
<1>4. ConsumerView
  BY <1>1, FifoLenAssumption DEF Init, ConsumerView
<1> QED
  BY <1>2, <1>3, <1>4 DEF FifoInv

\* No load or store of either side leaves the types.
LEMMA TypeStep == TypeOK /\ [Next]_vars => TypeOK'
<1> SUFFICES ASSUME TypeOK, [Next]_vars PROVE TypeOK'
  OBVIOUS
<1> USE DEF TypeOK
<1>1. CASE FreeCount
  BY <1>1, MaskCases DEF FreeCount, shared, consumer, Slots
<1>2. CASE PutCall
  <2> PICK n \in 1..MaxBatch : pdata' \in [1..n -> Elems]
    BY <1>2 DEF PutCall, Batches
  <2>1. pdata' \in Seq(Elems) /\ Len(pdata') <= MaxBatch /\ 0 \in 0..Len(pdata')
    BY MaxBatchAssumption
  <2> QED
    BY <1>2, <2>1 DEF PutCall, shared, consumer
<1>3. CASE PutLoadRead
  BY <1>3 DEF PutLoadRead, shared, consumer
<1>4. CASE PutSlot
  <2>1. Mask(fifo_write + 1) \in Slots
    BY NextSlot
  <2>2. pdata[pi + 1] \in Elems /\ pi + 1 \in 0..Len(pdata)
    BY <1>4 DEF PutSlot
  <2> QED
    BY <1>4, <2>1, <2>2 DEF PutSlot, consumer
<1>5. CASE PutStoreWrite
  BY <1>5, FifoLenAssumption DEF PutStoreWrite, consumer, Slots
<1>6. CASE Count
  BY <1>6, MaskCases, FifoLenAssumption DEF Count, shared, producer, Slots
<1>7. CASE GetCall
  BY <1>7, MaxBatchAssumption DEF GetCall, shared, producer
<1>8. CASE GetLoadWrite
  BY <1>8 DEF GetLoadWrite, shared, producer
<1>9. CASE GetSlot
  <2>1. Mask(new_read + 1) \in Slots
    BY NextSlot
  <2>2. buffer[new_read] \in Elems
    OBVIOUS
  <2> QED
    BY <1>9, <2>1, <2>2 DEF GetSlot, shared, producer
<1>10. CASE GetStoreRead
  BY <1>10, FifoLenAssumption DEF GetStoreRead, producer, Slots
<1>11. CASE UNCHANGED vars
  BY <1>11 DEF vars
<1> QED
  BY <1>1, <1>2, <1>3, <1>4, <1>5, <1>6, <1>7, <1>8, <1>9, <1>10, <1>11
     DEF Next, Produce, Consume

\* The types in the form the arithmetic below needs.
LEMMA Ranges ==
  ASSUME TypeOK
  PROVE  /\ write \in Slots /\ read \in Slots /\ fifo_write \in Slots
         /\ fifo_read \in Slots /\ seen_write \in Slots /\ new_read \in Slots
         /\ pi \in Nat /\ Len(cdata) \in Nat /\ Len(pdata) \in Nat
         /\ room \in Nat /\ avail \in Nat
         /\ Dist(read, write) \in Nat /\ Dist(read, write) <= FifoLen - 1
         /\ Dist(fifo_read, write) \in Nat /\ Dist(fifo_read, write) <= FifoLen - 1
         /\ Dist(read, seen_write) \in Nat /\ Dist(read, seen_write) <= FifoLen - 1
         /\ FifoLen \in Nat /\ FifoLen >= 1
<1>1. /\ write \in Slots /\ read \in Slots /\ fifo_write \in Slots
      /\ fifo_read \in Slots /\ seen_write \in Slots /\ new_read \in Slots
  BY DEF TypeOK
<1>2. /\ Dist(read, write) \in Slots /\ Dist(fifo_read, write) \in Slots
      /\ Dist(read, seen_write) \in Slots
  BY <1>1, DistCases
<1>3. pi \in Nat /\ Len(cdata) \in Nat /\ Len(pdata) \in Nat
  BY DEF TypeOK
<1>4. room \in Nat /\ avail \in Nat
  BY FifoLenAssumption DEF TypeOK, Slots
<1> QED
  BY <1>1, <1>2, <1>3, <1>4, FifoLenAssumption DEF Slots

\* The steps of both sides keep the producer's picture right: its own puts, and
\* the consumer's, which only make room.
LEMMA ProducerStep == FifoInv /\ [Next]_vars => ProducerView'
<1> SUFFICES ASSUME TypeOK, ProducerView, ConsumerView, [Next]_vars
             PROVE  ProducerView'
  BY DEF FifoInv
<1>t. /\ write \in Slots /\ read \in Slots /\ fifo_write \in Slots
      /\ fifo_read \in Slots /\ seen_write \in Slots /\ new_read \in Slots
      /\ pi \in Nat /\ Len(cdata) \in Nat /\ Len(pdata) \in Nat
      /\ room \in Nat /\ avail \in Nat
      /\ Dist(read, write) \in Nat /\ Dist(read, write) <= FifoLen - 1
      /\ Dist(fifo_read, write) \in Nat /\ Dist(fifo_read, write) <= FifoLen - 1
      /\ Dist(read, seen_write) \in Nat /\ Dist(read, seen_write) <= FifoLen - 1
      /\ FifoLen \in Nat /\ FifoLen >= 1
  BY Ranges
<1>1. CASE FreeCount
  <2>1. room' = FifoLen - 1 - Dist(read, write)
    BY <1>1, <1>t, CountsAreDistances DEF FreeCount
  <2> QED
    BY <1>1, <1>t, <2>1 DEF FreeCount, shared, consumer, ProducerView, Slots
<1>2. CASE PutCall
  BY <1>2, <1>t, NextSlot DEF PutCall, shared, consumer, ProducerView
<1>3. CASE PutLoadRead
  BY <1>3, <1>t DEF PutLoadRead, shared, consumer, ProducerView, Slots
<1>4. CASE PutSlot
  <2>1. /\ fifo_write = Mask(write + pi) /\ pi < Len(pdata)
        /\ Dist(fifo_read, write) + pi <= FifoLen - 1 /\ pi \in 0..FifoLen - 1
        /\ \A k \in 1..pi : buffer[Mask(write + k - 1)] = pdata[k]
    <3>1. /\ fifo_write = Mask(write + pi) /\ pi < Len(pdata)
          /\ Dist(fifo_read, write) + pi <= FifoLen - 1
          /\ \A k \in 1..pi : buffer[Mask(write + k - 1)] = pdata[k]
      BY <1>4 DEF PutSlot, ProducerView
    <3>2. pi \in 0..FifoLen - 1
      BY <1>t, <3>1
    <3> QED
      BY <3>1, <3>2
  <2>2. Mask(fifo_write + 1) = Mask(write + (pi + 1))
    <3>1. Mask(fifo_write + 1) = Mask(write + pi + 1)
      BY <1>t, <2>1, MaskStep
    <3>2. write + pi + 1 = write + (pi + 1)
      BY <1>t DEF Slots
    <3> QED
      BY <3>1, <3>2
  <2>3. Dist(fifo_read, write) + (pi + 1) <= FifoLen - 1
    BY <1>4, <1>t, <2>1, RoomForOne DEF PutSlot
  <2>4. ASSUME NEW k \in 1..pi + 1
        PROVE  buffer'[Mask(write + k - 1)] = pdata[k]
    <3>1. k - 1 \in 0..FifoLen - 1 /\ write + (k - 1) = write + k - 1
      BY <1>t, <2>1 DEF Slots
    <3>2. Mask(write + (k - 1)) \in Slots
      BY <1>t, <3>1, MaskAdd, FifoLenAssumption
    <3>3. buffer' = [buffer EXCEPT ![Mask(write + pi)] = pdata[pi + 1]]
          /\ buffer \in [Slots -> Elems]
      BY <1>4, <2>1 DEF PutSlot, TypeOK
    <3>4. CASE k = pi + 1
      <4>1. Mask(write + (k - 1)) = Mask(write + pi)
        BY <1>t, <3>4
      <4> QED
        BY <3>1, <3>2, <3>3, <3>4, <4>1
    <3>5. CASE k # pi + 1
      <4>1. k \in 1..pi /\ k - 1 # pi
        BY <1>t, <3>5
      <4>2. Mask(write + (k - 1)) # Mask(write + pi)
        BY <1>t, <2>1, <3>1, <4>1, SlotsApart
      <4> QED
        BY <2>1, <3>1, <3>2, <3>3, <4>1, <4>2
    <3> QED
      BY <3>4, <3>5
  <2> QED
    BY <1>4, <1>t, <2>2, <2>3, <2>4 DEF PutSlot, consumer, ProducerView
<1>5. CASE PutStoreWrite
  <2>1. Dist(read, fifo_write) \in Slots
    BY <1>t, DistCases
  <2>2. Dist(read, write)' = Dist(read, fifo_write)
    BY <1>5 DEF PutStoreWrite
  <2>3. room' = 0 /\ ppc' = "idle"
    BY <1>5 DEF PutStoreWrite
  <2>4. room' <= FifoLen - 1 - Dist(read, write)'
    BY <1>t, <2>1, <2>2, <2>3 DEF Slots
  <2> QED
    BY <2>3, <2>4 DEF ProducerView
<1>6. CASE Count \/ GetCall \/ GetLoadWrite \/ GetSlot
  BY <1>6 DEF Count, GetCall, GetLoadWrite, GetSlot, shared, producer, ProducerView
<1>7. CASE GetStoreRead
  <2>1. new_read = Mask(read + Len(cdata)) /\ Len(cdata) \in 0..Dist(read, write)
    BY <1>7, <1>t, SMTT(20) DEF GetStoreRead, ConsumerView, Slots
  <2>2. Dist(new_read, write) = Dist(read, write) - Len(cdata)
    BY <1>t, <2>1, DistAfter
  <2>3. Dist(read, write)' \in Nat /\ Dist(read, write)' <= Dist(read, write)
    BY <1>7, <1>t, <2>1, <2>2 DEF GetStoreRead
  <2>4. Dist(fifo_read, write)' = Dist(fifo_read, write)
    BY <1>7 DEF GetStoreRead, producer
  <2> QED
    BY <1>7, <1>t, <2>3, <2>4 DEF GetStoreRead, producer, ProducerView
<1>8. CASE UNCHANGED vars
  BY <1>8 DEF vars, ProducerView
<1> QED
  BY <1>1, <1>2, <1>3, <1>4, <1>5, <1>6, <1>7, <1>8 DEF Next, Produce, Consume

\* The steps of both sides keep the consumer's picture right: its own gets, and
\* the producer's, which only add.
LEMMA ConsumerStep == FifoInv /\ [Next]_vars => ConsumerView'
<1> SUFFICES ASSUME TypeOK, ProducerView, ConsumerView, [Next]_vars
             PROVE  ConsumerView'
  BY DEF FifoInv
<1>t. /\ write \in Slots /\ read \in Slots /\ fifo_write \in Slots
      /\ fifo_read \in Slots /\ seen_write \in Slots /\ new_read \in Slots
      /\ pi \in Nat /\ Len(cdata) \in Nat /\ Len(pdata) \in Nat
      /\ room \in Nat /\ avail \in Nat
      /\ Dist(read, write) \in Nat /\ Dist(read, write) <= FifoLen - 1
      /\ Dist(fifo_read, write) \in Nat /\ Dist(fifo_read, write) <= FifoLen - 1
      /\ Dist(read, seen_write) \in Nat /\ Dist(read, seen_write) <= FifoLen - 1
      /\ FifoLen \in Nat /\ FifoLen >= 1
  BY Ranges
<1>1. CASE FreeCount \/ PutCall \/ PutLoadRead
  BY <1>1 DEF FreeCount, PutCall, PutLoadRead, shared, consumer, ConsumerView
<1>2. CASE PutSlot
  <2>1. /\ fifo_write = Mask(write + pi)
        /\ Dist(read, write) + pi <= FifoLen - 1
    BY <1>2, <1>t DEF PutSlot, ProducerView
  <2>2. fifo_write = Mask(read + (Dist(read, write) + pi))
    BY <1>t, <2>1, MaskFrom
  <2>3. ASSUME cpc = "copy", NEW k \in 1..Len(cdata)
        PROVE  cdata[k] = buffer'[Mask(read + k - 1)]
    <3>1. cdata[k] = buffer[Mask(read + k - 1)] /\ Len(cdata) <= Dist(read, write)
      BY <1>t, <2>3 DEF ConsumerView
    <3>2. /\ k - 1 \in 0..FifoLen - 1 /\ read + (k - 1) = read + k - 1
          /\ Dist(read, write) + pi \in 0..FifoLen - 1
          /\ k - 1 # Dist(read, write) + pi
      BY <1>t, <2>1, <3>1, SMTT(20) DEF Slots
    <3>3. Mask(read + (k - 1)) # fifo_write
      BY <1>t, <2>2, <3>2, SlotsApart
    <3> QED
      BY <1>2, <3>1, <3>2, <3>3 DEF PutSlot, TypeOK
  <2> QED
    BY <1>2, <2>3 DEF PutSlot, consumer, ConsumerView
<1>3. CASE PutStoreWrite
  <2>1. fifo_write = Mask(write + pi) /\ Dist(read, write) + pi <= FifoLen - 1
    BY <1>3, <1>t DEF PutStoreWrite, ProducerView
  <2>2. Dist(read, fifo_write) = Dist(read, write) + pi
    BY <1>t, <2>1, DistBefore
  <2>3. Dist(read, write)' >= Dist(read, write)
    BY <1>3, <1>t, <2>2 DEF PutStoreWrite
  <2>4. Dist(read, write)' \in Nat /\ Dist(read, seen_write)' = Dist(read, seen_write)
    BY <1>3, <1>t, <2>2 DEF PutStoreWrite, consumer
  <2> QED
    BY <1>3, <1>t, <2>3, <2>4 DEF PutStoreWrite, consumer, ConsumerView
<1>4. CASE Count
  <2>1. avail' = Dist(read, write)
    BY <1>4, <1>t, CountsAreDistances DEF Count
  <2> QED
    BY <1>4, <1>t, <2>1 DEF Count, shared, producer, ConsumerView
<1>5. CASE GetCall
  <2>1. new_read' = Mask(read + 0) /\ Len(cdata') = 0
    BY <1>5, <1>t, NextSlot DEF GetCall
  <2> QED
    BY <1>5, <1>t, <2>1 DEF GetCall, shared, producer, ConsumerView
<1>6. CASE GetLoadWrite
  BY <1>6, <1>t DEF GetLoadWrite, shared, producer, ConsumerView
<1>7. CASE GetSlot
  <2>1. /\ new_read = Mask(read + Len(cdata))
        /\ Len(cdata) \in 0..Dist(read, seen_write) /\ new_read # seen_write
        /\ \A k \in 1..Len(cdata) : cdata[k] = buffer[Mask(read + k - 1)]
    BY <1>7, <1>t DEF GetSlot, ConsumerView
  <2>2. Len(cdata) + 1 <= Dist(read, seen_write)
    BY <1>t, <2>1, OneToTake
  <2>3. Len(cdata') = Len(cdata) + 1 /\ cdata \in Seq(Elems)
    BY <1>7 DEF GetSlot, TypeOK
  <2>4. new_read' = Mask(read + Len(cdata'))
    <3>1. Len(cdata) \in 0..FifoLen - 1
      BY <1>t, <2>1
    <3>2. Mask(new_read + 1) = Mask(read + Len(cdata) + 1)
      BY <1>t, <2>1, <3>1, MaskStep
    <3>3. read + Len(cdata) + 1 = read + (Len(cdata) + 1)
      BY <1>t DEF Slots
    <3> QED
      BY <1>7, <2>3, <3>2, <3>3 DEF GetSlot
  <2>5. ASSUME NEW k \in 1..Len(cdata')
        PROVE  cdata'[k] = buffer[Mask(read + k - 1)]
    <3>1. CASE k = Len(cdata) + 1
      <4>1. cdata'[k] = buffer[new_read]
        BY <1>7, <2>3, <3>1 DEF GetSlot
      <4>2. read + k - 1 = read + Len(cdata)
        BY <1>t, <3>1 DEF Slots
      <4> QED
        BY <2>1, <4>1, <4>2
    <3>2. CASE k # Len(cdata) + 1
      <4>1. k \in 1..Len(cdata)
        BY <1>t, <2>3, <3>2
      <4>2. cdata'[k] = cdata[k]
        BY <1>7, <2>3, <4>1 DEF GetSlot
      <4> QED
        BY <2>1, <4>1, <4>2
    <3> QED
      BY <3>1, <3>2
  <2> QED
    BY <1>7, <1>t, <2>2, <2>3, <2>4, <2>5
       DEF GetSlot, shared, producer, ConsumerView
<1>8. CASE GetStoreRead
  <2>1. Dist(new_read, write) \in Slots
    BY <1>t, DistCases
  <2> QED
    BY <1>8, <1>t, <2>1 DEF GetStoreRead, producer, ConsumerView, Slots
<1>9. CASE UNCHANGED vars
  BY <1>9 DEF vars, ConsumerView
<1> QED
  BY <1>1, <1>2, <1>3, <1>4, <1>5, <1>6, <1>7, <1>8, <1>9
     DEF Next, Produce, Consume

\* The interleaved loads and stores of one producer and one consumer keep every
\* index, every staged element and every stale count consistent, for every FIFO
\* length and batch size.
THEOREM FifoInvariant == Spec => []FifoInv
<1>1. FifoInv /\ [Next]_vars => FifoInv'
  BY TypeStep, ProducerStep, ConsumerStep DEF FifoInv
<1> QED
  BY InitInv, <1>1, PTL DEF Spec

\* A put that kni_fifo_free_count vouched for never finds the FIFO full: the
\* branches of kni_net_tx and kni_net_rx_normal commented "Failing should not
\* happen" are never taken.
THEOREM FreeCountIsReliable == Spec => []PutAfterFreeCountFits
<1>1. FifoInv => PutAfterFreeCountFits
  <2> SUFFICES ASSUME TypeOK, ProducerView, ppc = "copy", pi < Len(pdata),
                      Len(pdata) <= room, Mask(fifo_write + 1) = fifo_read
               PROVE  FALSE
    BY DEF FifoInv, PutAfterFreeCountFits
  <2>1. /\ fifo_write = Mask(write + pi)
        /\ Dist(fifo_read, write) + (pi + 1) <= FifoLen - 1
    BY Ranges DEF ProducerView
  <2>2. pi + 1 \in Nat /\ fifo_read \in Slots /\ write \in Slots
        /\ FifoLen \in Nat /\ Dist(fifo_read, write) \in Nat
    BY Ranges
  <2>3. Mask(write + (pi + 1)) = fifo_read
    <3>1. pi \in 0..FifoLen - 1
      BY <2>1, Ranges
    <3>2. Mask(Mask(write + pi) + 1) = Mask(write + pi + 1)
      BY <2>2, <3>1, MaskStep
    <3>3. write + pi + 1 = write + (pi + 1)
      BY Ranges, <2>2, SMTT(20) DEF Slots
    <3> QED
      BY <2>1, <3>2, <3>3
  <2>4. Dist(fifo_read, Mask(write + (pi + 1))) = Dist(fifo_read, write) + (pi + 1)
    BY <2>1, <2>2, DistBefore
  <2>5. Dist(fifo_read, fifo_read) = 0
    BY <2>2, DistCases DEF Slots
  <2> QED
    BY <2>2, <2>3, <2>4, <2>5, Ranges
<1> QED
  BY FifoInvariant, <1>1, PTL

\* A get that kni_fifo_count vouched for never finds the FIFO empty.
THEOREM CountIsReliable == Spec => []GetAfterCountFinds
<1>1. FifoInv => GetAfterCountFinds
  <2> SUFFICES ASSUME TypeOK, ConsumerView, cpc = "copy", Len(cdata) < cnum,
                      cnum <= avail
               PROVE  new_read # seen_write
    BY DEF FifoInv, GetAfterCountFinds
  <2>1. new_read = Mask(read + Len(cdata)) /\ Len(cdata) < Dist(read, seen_write)
    BY Ranges DEF ConsumerView, TypeOK
  <2> QED
    BY <2>1, Ranges, OneToTake
<1> QED
  BY FifoInvariant, <1>1, PTL

-----------------------------------------------------------------------------
(* The refinement of KniQueue. *)

\* The published elements form a sequence, of the length the indices say.
LEMMA ContentsType ==
  ASSUME TypeOK
  PROVE  /\ Contents \in Seq(Elems)
         /\ Len(Contents) = Dist(read, write)
         /\ \A k \in 1..Dist(read, write) : Contents[k] = buffer[Mask(read + k - 1)]
<1>1. \A k \in 1..Dist(read, write) : buffer[Mask(read + k - 1)] \in Elems
  <2> TAKE k \in 1..Dist(read, write)
  <2>1. read + k - 1 \in Int
    BY Ranges, SMTT(20) DEF Slots
  <2>2. Mask(read + k - 1) \in Slots
    BY <2>1, MaskCases
  <2> QED
    BY <2>2 DEF TypeOK
<1>2. Dist(read, write) \in Nat
  BY Ranges
<1> QED
  BY <1>1, <1>2 DEF Contents

\* Publishing the write index appends what was copied, in order.
LEMMA PublishAppends ==
  ASSUME FifoInv, TypeOK', PutStoreWrite
  PROVE  Queue!Put
<1> USE DEF FifoInv
<1>t. /\ write \in Slots /\ read \in Slots /\ pi \in Nat /\ pi <= Len(pdata)
      /\ Dist(read, write) \in Nat /\ FifoLen \in Nat /\ pdata \in Seq(Elems)
  BY Ranges DEF TypeOK
<1>1. /\ fifo_write = Mask(write + pi) /\ Dist(read, write) + pi <= FifoLen - 1
      /\ \A k \in 1..pi : buffer[Mask(write + k - 1)] = pdata[k]
  BY Ranges DEF PutStoreWrite, ProducerView
<1>2. Dist(read, fifo_write) = Dist(read, write) + pi
  BY <1>t, <1>1, DistBefore
<1> DEFINE batch == SubSeq(pdata, 1, pi)
<1>3. batch \in [1..pi -> Elems] /\ Len(batch) = pi /\ batch \in Seq(Elems)
      /\ \A k \in 1..pi : batch[k] = pdata[k]
  <2>1. \A k \in 1..pi : pdata[k] \in Elems
    BY <1>t
  <2>2. /\ batch \in Seq(Elems) /\ Len(batch) = IF 1 <= pi THEN pi - 1 + 1 ELSE 0
        /\ \A k \in 1..pi - 1 + 1 : batch[k] = pdata[1 + k - 1]
    BY <1>t, <2>1, SubSeqProperties
  <2>3. pi - 1 + 1 = pi /\ \A k \in 1..pi : 1 + k - 1 = k
    BY <1>t
  <2>4. Len(batch) = pi
    BY <1>t, <2>2
  <2> QED
    BY <2>2, <2>3, <2>4, LenProperties
<1> HIDE DEF batch
<1>4. batch \in Queue!Batches
  <2>1. pi \in 0..FifoLen - 1
    BY <1>t, <1>1
  <2> QED
    BY <1>3, <2>1 DEF Queue!Batches
<1>5. /\ Contents \in Seq(Elems) /\ Len(Contents) = Dist(read, write)
      /\ \A k \in 1..Dist(read, write) : Contents[k] = buffer[Mask(read + k - 1)]
  BY ContentsType
<1>6. Contents' = [k \in 1..Dist(read, write) + pi |-> buffer[Mask(read + k - 1)]]
  BY <1>2 DEF Contents, PutStoreWrite
<1>7. Contents \o batch = [k \in 1..Dist(read, write) + pi |-> (Contents \o batch)[k]]
  <2>1. Contents \o batch \in Seq(Elems)
        /\ Len(Contents \o batch) = Dist(read, write) + pi
    BY <1>3, <1>5, ConcatProperties
  <2> QED
    BY <2>1, LenProperties
<1>8. ASSUME NEW k \in 1..Dist(read, write) + pi
      PROVE  buffer[Mask(read + k - 1)] = (Contents \o batch)[k]
  <2>c. (Contents \o batch)[k] = IF k <= Dist(read, write)
                                  THEN Contents[k] ELSE batch[k - Dist(read, write)]
    BY <1>3, <1>5, ConcatProperties
  <2>1. CASE k <= Dist(read, write)
    <3>1. k \in 1..Dist(read, write)
      BY <1>t, <2>1
    <3> QED
      BY <1>5, <2>c, <2>1, <3>1
  <2>2. CASE k > Dist(read, write)
    <3> DEFINE j == k - Dist(read, write)
    <3>1. j \in 1..pi /\ (Contents \o batch)[k] = batch[j]
      BY <1>t, <2>c, <2>2
    <3>2. j - 1 \in Nat /\ Dist(read, write) + (j - 1) <= FifoLen
          /\ Dist(read, write) + (j - 1) = k - 1
      BY <1>t, <1>1, <2>2
    <3>3. Mask(write + (j - 1)) = Mask(read + (k - 1))
      BY <1>t, <3>2, MaskFrom
    <3>4. write + (j - 1) = write + j - 1 /\ read + (k - 1) = read + k - 1
      BY <1>t, <3>1 DEF Slots
    <3> HIDE DEF j
    <3>5. buffer[Mask(write + j - 1)] = pdata[j] /\ batch[j] = pdata[j]
      BY <1>1, <1>3, <3>1
    <3> QED
      BY <3>1, <3>3, <3>4, <3>5
  <2>3. k <= Dist(read, write) \/ k > Dist(read, write)
    BY <1>t
  <2> QED
    BY <2>1, <2>2, <2>3
<1>9. Contents' = Contents \o batch
  BY <1>6, <1>7, <1>8
<1>10. Len(Contents) + Len(batch) <= FifoLen - 1 /\ got' = got
  BY <1>1, <1>3, <1>5 DEF PutStoreWrite, consumer
<1> QED
  BY <1>4, <1>9, <1>10 DEF Queue!Put

\* Publishing the read index removes the oldest elements, and those are what the
\* get returns.
LEMMA RetireRemoves ==
  ASSUME FifoInv, TypeOK', GetStoreRead
  PROVE  Queue!Get
<1> USE DEF FifoInv
<1> DEFINE n == Len(cdata)
           d == Dist(read, write)
<1>t. /\ write \in Slots /\ read \in Slots /\ n \in Nat /\ d \in Nat
      /\ FifoLen \in Nat /\ d <= FifoLen - 1 /\ cdata \in Seq(Elems)
  BY Ranges DEF TypeOK
<1>1. /\ new_read = Mask(read + n) /\ n \in 0..d
      /\ \A k \in 1..n : cdata[k] = buffer[Mask(read + k - 1)]
  BY <1>t, Ranges DEF GetStoreRead, ConsumerView
<1>2. Dist(new_read, write) = d - n
  BY <1>t, <1>1, DistAfter
<1>3. /\ Contents \in Seq(Elems) /\ Len(Contents) = d
      /\ \A k \in 1..d : Contents[k] = buffer[Mask(read + k - 1)]
  BY ContentsType
<1> HIDE DEF n, d
<1>4. Contents' = [k \in 1..d - n |-> buffer[Mask(new_read + k - 1)]]
  BY <1>2 DEF Contents, GetStoreRead
<1>5. SubSeq(Contents, n + 1, d) = [k \in 1..d - n |-> Contents[n + k]]
  <2>1. SubSeq(Contents, n + 1, d) = [k \in 1..d - (n + 1) + 1 |-> Contents[k + (n + 1) - 1]]
    BY <1>t, <1>1, <1>3
  <2>2. d - (n + 1) + 1 = d - n /\ \A k \in 1..d - n : k + (n + 1) - 1 = n + k
    BY <1>t, <1>1
  <2> QED
    BY <2>1, <2>2
<1>6. ASSUME NEW k \in 1..d - n
      PROVE  buffer[Mask(new_read + k - 1)] = Contents[n + k]
  <2>1. n + k \in 1..d /\ k - 1 \in Nat /\ n + (k - 1) = n + k - 1
        /\ n + (k - 1) \in 0..FifoLen /\ n \in 0..FifoLen /\ k - 1 \in 0..FifoLen
    BY <1>t, <1>1
  <2>2. Mask(read + n) \in Slots
        /\ Mask(read + n) = IF read + n < FifoLen THEN read + n ELSE read + n - FifoLen
    BY <1>t, <2>1, MaskAdd
  <2>3. Mask(new_read + (k - 1))
          = IF new_read + (k - 1) < FifoLen THEN new_read + (k - 1)
                                            ELSE new_read + (k - 1) - FifoLen
    BY <1>1, <2>1, <2>2, MaskAdd
  <2>4. Mask(read + (n + (k - 1)))
          = IF read + (n + (k - 1)) < FifoLen THEN read + (n + (k - 1))
                                              ELSE read + (n + (k - 1)) - FifoLen
    BY <1>t, <2>1, MaskAdd
  <2>5. Mask(new_read + (k - 1)) = Mask(read + (n + (k - 1)))
    BY <1>t, <1>1, <2>1, <2>2, <2>3, <2>4 DEF Slots
  <2>6. /\ new_read + (k - 1) = new_read + k - 1
        /\ read + (n + (k - 1)) = read + (n + k) - 1
    BY <1>t, <1>1, <2>2 DEF Slots
  <2> QED
    BY <1>3, <2>1, <2>5, <2>6
<1>7. Contents' = SubSeq(Contents, n + 1, d)
  BY <1>4, <1>5, <1>6
<1>8. cdata = SubSeq(Contents, 1, n)
  <2>1. SubSeq(Contents, 1, n) = [k \in 1..n |-> Contents[k]]
    BY <1>t, <1>1, <1>3
  <2>2. cdata = [k \in 1..n |-> cdata[k]]
    BY <1>t DEF n
  <2>3. ASSUME NEW k \in 1..n PROVE cdata[k] = Contents[k]
    <3>1. k \in 1..d
      BY <1>t, <1>1
    <3> QED
      BY <1>1, <1>3, <3>1
  <2> QED
    BY <2>1, <2>2, <2>3
<1>9. got' = SubSeq(Contents, 1, n) /\ n \in 0..Len(Contents)
  BY <1>1, <1>3, <1>8 DEF GetStoreRead
<1> QED
  BY <1>3, <1>7, <1>9 DEF Queue!Get

\* For every FIFO length, element set and batch size, the two sides' interleaved
\* loads and stores behave as a bounded FIFO queue.
THEOREM FifoIsQueue == Spec => ImplementsQueue
<1>1. Init => Queue!Init
  <2> SUFFICES ASSUME Init PROVE Contents = <<>> /\ got = <<>>
    BY DEF Queue!Init
  <2>1. Dist(read, write) = 0
    BY DistCases, FifoLenAssumption DEF Init, Slots
  <2> QED
    BY <2>1 DEF Contents, Init
<1>2. FifoInv /\ FifoInv' /\ [Next]_vars => [Queue!Next]_(Queue!vars)
  <2> SUFFICES ASSUME FifoInv, FifoInv', [Next]_vars
               PROVE  Queue!Put \/ Queue!Get \/ (Contents' = Contents /\ got' = got)
    BY DEF Queue!Next, Queue!vars
  <2>1. CASE PutSlot
    <3>t. TypeOK /\ ProducerView
      BY DEF FifoInv
    <3>1. /\ fifo_write = Mask(write + pi) /\ Dist(read, write) + pi <= FifoLen - 1
          /\ write \in Slots /\ read \in Slots /\ pi \in Nat /\ FifoLen \in Nat
          /\ Dist(read, write) \in Nat
      BY <2>1, <3>t, Ranges DEF PutSlot, ProducerView
    <3>2. fifo_write = Mask(read + (Dist(read, write) + pi))
      BY <3>1, MaskFrom
    <3>3. ASSUME NEW k \in 1..Dist(read, write)
          PROVE  buffer'[Mask(read + k - 1)] = buffer[Mask(read + k - 1)]
      <4>1. /\ k - 1 \in 0..FifoLen - 1 /\ read + (k - 1) = read + k - 1
            /\ Dist(read, write) + pi \in 0..FifoLen - 1
            /\ k - 1 # Dist(read, write) + pi
        BY <3>1 DEF Slots
      <4>2. Mask(read + (k - 1)) # fifo_write
        BY <3>1, <3>2, <4>1, SlotsApart
      <4> QED
        BY <2>1, <3>t, <4>1, <4>2 DEF PutSlot, TypeOK
    <3> QED
      BY <2>1, <3>3 DEF PutSlot, consumer, Contents
  <2>2. CASE PutStoreWrite
    BY <2>2, PublishAppends DEF FifoInv
  <2>3. CASE GetStoreRead
    BY <2>3, RetireRemoves DEF FifoInv
  <2>4. CASE FreeCount \/ PutCall \/ PutLoadRead
    BY <2>4 DEF FreeCount, PutCall, PutLoadRead, shared, consumer, Contents
  <2>5. CASE Count \/ GetCall \/ GetLoadWrite \/ GetSlot
    BY <2>5 DEF Count, GetCall, GetLoadWrite, GetSlot, shared, Contents
  <2>6. CASE UNCHANGED vars
    BY <2>6 DEF vars, Contents
  <2> QED
    BY <2>1, <2>2, <2>3, <2>4, <2>5, <2>6 DEF Next, Produce, Consume
<1> QED
  BY FifoInvariant, <1>1, <1>2, PTL DEF Spec, ImplementsQueue, Queue!Spec

=============================================================================
