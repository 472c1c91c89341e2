------------------------- MODULE PacketLoopService --------------------------
(***************************************************************************)
(* What PacketLoop delivers, for every size of pool, rings, FIFOs and      *)
(* bursts, on top of the types and the custody of PacketLoopProof:         *)
(*                                                                         *)
(* - neither direction runs out of mbufs: by custody every mbuf is in some *)
(*   place, so the places together are at least as long as the pool is     *)
(*   large; rings and FIFOs hold less than an adequate pool has;           *)
(* - the statistics of main.c agree with what happened to the frames;      *)
(* - the frames pass in their order of arrival, and the loop implements    *)
(*   PacketFilter as long as the kernel's pointer is not wild.             *)
(***************************************************************************)
EXTENDS PacketLoopProof, FiniteSetTheorems

-----------------------------------------------------------------------------
(* Counting mbufs *)

\* Joined sequences: type, length and elements.
LEMMA Joined ==
  ASSUME NEW s \in Seq(Mbufs), NEW t \in Seq(Mbufs)
  PROVE  /\ s \o t \in Seq(Mbufs)
         /\ Len(s \o t) = Len(s) + Len(t)
         /\ Range(s \o t) = Range(s) \cup Range(t)
BY JoinType, Join

\* A sequence that contains every mbuf is at least as long as there are mbufs.
LEMMA CoverBound ==
  ASSUME NEW w \in Seq(Mbufs), \A m \in Mbufs : m \in Range(w)
  PROVE  NumMbufs <= Len(w)
<1>1. Len(w) \in Nat /\ w \in [1..Len(w) -> Mbufs] /\ DOMAIN w = 1..Len(w)
  OBVIOUS
<1>2. w \in Surjection(1..Len(w), Mbufs)
  BY <1>1 DEF Surjection, Range
<1>3. Cardinality(Mbufs) <= Len(w)
  BY <1>1, <1>2, FS_SurjCardinalityBound DEF ExistsSurjection
<1>4. Cardinality(Mbufs) = NumMbufs
  <2>1. NumMbufs \in Nat /\ 1 \in Int /\ NumMbufs \in Int
    BY PoolAssumption
  <2>2. Cardinality(1..NumMbufs) = IF 1 > NumMbufs THEN 0 ELSE NumMbufs - 1 + 1
    BY <2>1, FS_Interval
  <2>3. (IF 1 > NumMbufs THEN 0 ELSE NumMbufs - 1 + 1) = NumMbufs
    BY <2>1
  <2> QED
    BY <2>2, <2>3 DEF Mbufs
<1> QED
  BY <1>3, <1>4

\* The places together hold all mbufs.
LEMMA Census ==
  ASSUME ShapeInv, OneHolder(Held)
  PROVE  NumMbufs <= Len(pool) + Len(refused) + Len(rxring) + Len(Pending)
                     + Len(kmbuf) + Len(apkts) + Len(rx_q) + Len(kva)
                     + Len(free_q) + Len(alloc_q) + Len(ktx) + Len(tx_q)
                     + Len(txring)
<1>t. /\ pool \in Seq(Mbufs) /\ refused \in Seq(Mbufs) /\ rxring \in Seq(Mbufs)
      /\ Pending \in Seq(Mbufs) /\ kmbuf \in Seq(Mbufs) /\ apkts \in Seq(Mbufs)
      /\ rx_q \in Seq(Mbufs) /\ kva \in Seq(Mbufs) /\ free_q \in Seq(Mbufs)
      /\ alloc_q \in Seq(Mbufs) /\ ktx \in Seq(Mbufs) /\ tx_q \in Seq(Mbufs)
      /\ txring \in Seq(Mbufs)
  BY PlaceTypes, PendingIs
<1> DEFINE a == pool \o refused
           b == a \o rxring
           c == b \o Pending
           d == c \o kmbuf
           e == d \o apkts
           f == e \o rx_q
           g == f \o kva
           h == g \o free_q
           j == h \o alloc_q
           k == j \o ktx
           l == k \o tx_q
           w == l \o txring
<1>1. /\ a \in Seq(Mbufs) /\ Len(a) = Len(pool) + Len(refused)
      /\ Range(a) = Range(pool) \cup Range(refused)
  BY <1>t, Joined
<1> HIDE DEF a
<1>2. /\ b \in Seq(Mbufs) /\ Len(b) = Len(a) + Len(rxring)
      /\ Range(b) = Range(a) \cup Range(rxring)
  BY <1>t, <1>1, Joined
<1> HIDE DEF b
<1>3. /\ c \in Seq(Mbufs) /\ Len(c) = Len(b) + Len(Pending)
      /\ Range(c) = Range(b) \cup Range(Pending)
  BY <1>t, <1>2, Joined
<1> HIDE DEF c
<1>4. /\ d \in Seq(Mbufs) /\ Len(d) = Len(c) + Len(kmbuf)
      /\ Range(d) = Range(c) \cup Range(kmbuf)
  BY <1>t, <1>3, Joined
<1> HIDE DEF d
<1>5. /\ e \in Seq(Mbufs) /\ Len(e) = Len(d) + Len(apkts)
      /\ Range(e) = Range(d) \cup Range(apkts)
  BY <1>t, <1>4, Joined
<1> HIDE DEF e
<1>6. /\ f \in Seq(Mbufs) /\ Len(f) = Len(e) + Len(rx_q)
      /\ Range(f) = Range(e) \cup Range(rx_q)
  BY <1>t, <1>5, Joined
<1> HIDE DEF f
<1>7. /\ g \in Seq(Mbufs) /\ Len(g) = Len(f) + Len(kva)
      /\ Range(g) = Range(f) \cup Range(kva)
  BY <1>t, <1>6, Joined
<1> HIDE DEF g
<1>8. /\ h \in Seq(Mbufs) /\ Len(h) = Len(g) + Len(free_q)
      /\ Range(h) = Range(g) \cup Range(free_q)
  BY <1>t, <1>7, Joined
<1> HIDE DEF h
<1>9. /\ j \in Seq(Mbufs) /\ Len(j) = Len(h) + Len(alloc_q)
      /\ Range(j) = Range(h) \cup Range(alloc_q)
  BY <1>t, <1>8, Joined
<1> HIDE DEF j
<1>10. /\ k \in Seq(Mbufs) /\ Len(k) = Len(j) + Len(ktx)
       /\ Range(k) = Range(j) \cup Range(ktx)
  BY <1>t, <1>9, Joined
<1> HIDE DEF k
<1>11. /\ l \in Seq(Mbufs) /\ Len(l) = Len(k) + Len(tx_q)
       /\ Range(l) = Range(k) \cup Range(tx_q)
  BY <1>t, <1>10, Joined
<1> HIDE DEF l
<1>12. /\ w \in Seq(Mbufs) /\ Len(w) = Len(l) + Len(txring)
       /\ Range(w) = Range(l) \cup Range(txring)
  BY <1>t, <1>11, Joined
<1> HIDE DEF w
<1>13. ASSUME NEW m \in Mbufs PROVE m \in Range(w)
  <2>1. PICK x \in Places : m \in Range(Held[x])
    BY HeldPlaces DEF OneHolder
  <2>2. \/ m \in Range(pool) \/ m \in Range(refused) \/ m \in Range(rxring)
        \/ m \in Range(Pending) \/ m \in Range(kmbuf) \/ m \in Range(apkts)
        \/ m \in Range(rx_q) \/ m \in Range(kva) \/ m \in Range(free_q)
        \/ m \in Range(alloc_q) \/ m \in Range(ktx) \/ m \in Range(tx_q)
        \/ m \in Range(txring)
    BY <2>1, HeldPlaces DEF Places
  <2> QED
    BY <2>2, <1>1, <1>2, <1>3, <1>4, <1>5, <1>6, <1>7, <1>8, <1>9, <1>10, <1>11, <1>12
<1>14. NumMbufs <= Len(w)
  BY <1>12, <1>13, CoverBound
<1> QED
  BY <1>14, <1>1, <1>2, <1>3, <1>4, <1>5, <1>6, <1>7, <1>8, <1>9, <1>10, <1>11, <1>12

\* What rings and FIFOs can hold.  An mbuf in the hands of the kernel has its
\* entry in the next FIFO reserved, so that the four FIFOs bound those too.
LEMMA Capacity ==
  ASSUME ShapeInv
  PROVE  /\ Len(rxring) = RxDesc /\ Len(txring) <= TxDesc
         /\ Len(rx_q) <= FifoLen - 1 /\ Len(alloc_q) <= FifoLen - 1
         /\ Len(kva) + Len(free_q) <= FifoLen - 1
         /\ Len(ktx) + Len(tx_q) <= FifoLen - 1
         /\ Len(kmbuf) <= 1
<1>1. DriverType /\ KniType /\ KernelPutsFit /\ LoopShape
  BY DEF ShapeInv, TypeOK
<1>2. Len(rxring) = RxDesc /\ Len(txring) <= TxDesc
  BY <1>1 DEF DriverType
<1>3. /\ Len(rx_q) <= FifoLen - 1 /\ Len(alloc_q) <= FifoLen - 1
      /\ Len(free_q) \in Nat /\ Len(tx_q) \in Nat /\ Len(kva) \in Nat /\ Len(ktx) \in Nat
      /\ FifoLen \in Nat
  BY <1>1, SizeAssumption DEF KniType, FifoType
<1>4. /\ Len(kva) <= FifoLen - 1 - Len(free_q)
      /\ Len(ktx) <= FifoLen - 1 - Len(tx_q)
  BY <1>1 DEF KernelPutsFit, Room
<1>5. Len(kva) + Len(free_q) <= FifoLen - 1 /\ Len(ktx) + Len(tx_q) <= FifoLen - 1
  BY <1>3, <1>4
<1> QED
  BY <1>1, <1>2, <1>3, <1>5 DEF LoopShape

\* The lengths of all places are numbers.
LEMMA Lengths ==
  ASSUME ShapeInv
  PROVE  /\ Len(pool) \in Nat /\ Len(refused) \in Nat /\ Len(rxring) \in Nat
         /\ Len(kmbuf) \in Nat /\ Len(apkts) \in Nat /\ Len(rx_q) \in Nat
         /\ Len(kva) \in Nat /\ Len(free_q) \in Nat /\ Len(alloc_q) \in Nat
         /\ Len(ktx) \in Nat /\ Len(tx_q) \in Nat /\ Len(txring) \in Nat
         /\ Len(<<>>) = 0
BY PlaceTypes

\* An adequate pool is not empty when the lcore is about to receive; nor when it is
\* about to refill an empty alloc_q.
LEMMA PoolNotEmpty ==
  ASSUME ShapeInv, OneHolder(Held), AdequatePool,
         pc = "rx" \/ (pc = "alloc" /\ Len(alloc_q) = 0)
  PROVE  Len(pool) > 0
<1>1. apkts = <<>> /\ Pending = <<>> /\ Len(kmbuf) <= 1
  BY PendingIs DEF ShapeInv, LoopShape
<1>2. Len(kmbuf) + Len(alloc_q) <= FifoLen - 1
  <2>1. CASE pc = "rx"
    <3>1. Len(kmbuf) = 0
      BY <2>1, Lengths DEF ShapeInv, LoopShape
    <3> QED
      BY <3>1, Capacity, Lengths
  <2>2. CASE pc = "alloc" /\ Len(alloc_q) = 0
    BY <1>1, <2>2, Lengths, SizeAssumption
  <2> QED
    BY <2>1, <2>2
<1>3. NumMbufs <= Len(pool) + Len(refused) + RxDesc + 0 + Len(kmbuf) + 0
                  + Len(rx_q) + Len(kva) + Len(free_q) + Len(alloc_q) + Len(ktx)
                  + Len(tx_q) + Len(txring)
  BY <1>1, Census, Capacity, Lengths
<1>4. NumMbufs - Len(refused) > RxDesc + TxDesc + 4 * (FifoLen - 1)
  BY DEF AdequatePool
<1>5. NumMbufs \in Nat /\ RxDesc \in Nat /\ TxDesc \in Nat /\ FifoLen \in Nat
  BY SizeAssumption, PoolAssumption
<1> QED
  BY <1>2, <1>3, <1>4, <1>5, Capacity, Lengths

\* With a pool larger than rings and FIFOs together, receive never finds it empty,
\* whatever the sizes and however long mbufs wait in free_q or in TX slots.
THEOREM ReceiveNeverStarves == Spec => []RxNeverStarves
<1>1. LoopInv => RxNeverStarves
  <2> SUFFICES ASSUME LoopInv, ~ wild, AdequatePool, pc = "rx" PROVE pool # <<>>
    BY DEF RxNeverStarves
  <2>1. ShapeInv /\ OneHolder(Held)
    BY DEF LoopInv, ShapeInv, Custody
  <2>2. Len(pool) > 0
    BY <2>1, PoolNotEmpty
  <2> QED
    BY <2>2
<1> QED
  BY <1>1, LoopInvariant, PTL

-----------------------------------------------------------------------------
(* The kernel's transmit path *)

\* What kni_fifo_put makes of the length.
LEMMA FifoPutLen ==
  ASSUME NEW q \in Seq(Mbufs), NEW s \in Seq(Mbufs), Room(q) \in Nat
  PROVE  Len(FifoPut(q, s)) = Len(q) + MinOf(Len(s), Room(q))
<1> DEFINE m == MinOf(Len(s), Room(q))
<1>1. Len(s) \in Nat /\ m \in 0..Len(s)
  BY MinOfNat DEF MinOf
<1>2. FifoPut(q, s) = q \o SubSeq(s, 1, m)
  BY DEF FifoPut
<1> HIDE DEF m
<1>3. SubSeq(s, 1, m) \in Seq(Mbufs) /\ Len(SubSeq(s, 1, m)) = m
  BY <1>1, CutType
<1>4. Len(FifoPut(q, s)) = Len(q) + m
  BY <1>2, <1>3, JoinType
<1> QED
  BY <1>4 DEF m

\* The mbufs in the circle between alloc_q and tx_q.
InTxCircle == Len(alloc_q) + Len(ktx) + Len(tx_q) + Len(apkts)

\* What a step makes of the circle, unless it is about to be refilled.
LEMMA CircleStep ==
  ASSUME ShapeInv, ShapeInv', OneHolder(Held), AdequatePool, [Next]_vars,
         pc = "alloc" \/ InTxCircle > 0
  PROVE  pc' = "alloc" \/ InTxCircle' > 0
<1>l. /\ Len(alloc_q) \in Nat /\ Len(ktx) \in Nat /\ Len(tx_q) \in Nat
      /\ Len(apkts) \in Nat /\ Len(pool) \in Nat /\ Len(<<>>) = 0
      /\ FifoLen \in Nat /\ FifoLen >= 2 /\ KniBurst \in Nat /\ KniBurst >= 1
  BY Lengths, SizeAssumption
<1>n. /\ Len(alloc_q') \in Nat /\ Len(ktx') \in Nat /\ Len(tx_q') \in Nat
      /\ Len(apkts') \in Nat
  <2>1. LoopType' /\ KniType'
    BY DEF ShapeInv, TypeOK
  <2>2. /\ alloc_q' \in Seq(Mbufs) /\ ktx' \in Seq(Mbufs) /\ tx_q' \in Seq(Mbufs)
        /\ apkts' \in Seq(Mbufs)
    BY <2>1 DEF LoopType, KniType, FifoType
  <2> QED
    BY <2>2
<1>1. CASE KniRxBurst
  <2>1. CASE kmbuf' # <<>>
    BY <1>1, <2>1 DEF KniRxBurst
  <2>2. CASE kmbuf' = <<>>
    <3>1. Len(FifoGot(tx_q, 1)) = 0
      BY <1>1, <1>l, <2>2 DEF KniRxBurst
    <3>2. MinOf(1, Len(tx_q)) = 0
      BY <3>1, PlaceTypes, FifoSplit
    <3>3. Len(tx_q) = 0
      BY <1>l, <3>2 DEF MinOf
    <3>4. /\ alloc_q' = alloc_q /\ ktx' = ktx /\ apkts' = apkts /\ pc = "kni"
      BY <1>1 DEF KniRxBurst, ksend
    <3>5. InTxCircle > 0
      BY <3>4
    <3> QED
      BY <1>l, <1>n, <3>3, <3>4, <3>5 DEF InTxCircle
  <2> QED
    BY <2>1, <2>2
<1>2. CASE KniAllocate
  <2>1. pc = "alloc" /\ alloc_q' = alloc_q /\ apkts' = Allocated(pool, AllocqFree)
    BY <1>2 DEF KniAllocate, fifos
  <2>2. CASE Len(alloc_q) > 0
    BY <1>l, <1>n, <2>1, <2>2 DEF InTxCircle
  <2>3. CASE Len(alloc_q) = 0
    <3>1. Len(pool) > 0
      BY <2>1, <2>3, PoolNotEmpty
    <3>2. AllocqFree \in Nat /\ AllocqFree >= 1
      BY <1>l, <2>3 DEF AllocqFree, MinOf, Room
    <3>3. Len(apkts') = MinOf(AllocqFree, Len(pool))
      BY <2>1, <3>2, PlaceTypes, AllocTake
    <3>4. Len(apkts') >= 1
      BY <1>l, <3>1, <3>2, <3>3 DEF MinOf
    <3> QED
      BY <1>n, <3>4 DEF InTxCircle
  <2> QED
    BY <1>l, <2>2, <2>3
<1>3. CASE KniRefill
  <2>1. /\ alloc_q' = FifoPut(alloc_q, apkts) /\ ktx' = ktx /\ tx_q' = tx_q
        /\ pc = "refill"
    BY <1>3 DEF KniRefill, ksend
  <2>2. InTxCircle > 0
    BY <2>1
  <2>3. Len(alloc_q') = Len(alloc_q) + MinOf(Len(apkts), Room(alloc_q))
    BY <2>1, PlaceTypes, FifoPutLen
  <2>4. Room(alloc_q) = FifoLen - 1 - Len(alloc_q)
    BY DEF Room
  <2>5. Len(alloc_q') >= Len(alloc_q) /\ (Len(apkts) > 0 => Len(alloc_q') > 0)
    BY <1>l, <2>3, <2>4, Capacity DEF MinOf
  <2> QED
    BY <1>l, <1>n, <2>1, <2>2, <2>5 DEF InTxCircle
<1>4. CASE KniNetTxGet
  <2>1. /\ ktx' = FifoGot(alloc_q, 1) /\ alloc_q' = FifoRest(alloc_q, 1)
        /\ Len(alloc_q) > 0
    BY <1>4 DEF KniNetTxGet
  <2>2. Len(ktx') = MinOf(1, Len(alloc_q))
    BY <2>1, PlaceTypes, FifoSplit
  <2>3. Len(ktx') = 1
    BY <1>l, <2>1, <2>2 DEF MinOf
  <2> QED
    BY <1>n, <2>3 DEF InTxCircle
<1>5. CASE KniNetTxPut
  <2>1. /\ tx_q' = FifoPut(tx_q, ktx) /\ ktx' = <<>> /\ alloc_q' = alloc_q
        /\ apkts' = apkts /\ pc' = pc
    BY <1>5 DEF KniNetTxPut, lcore
  <2>2. Len(ktx) <= Room(tx_q)
    BY DEF ShapeInv, KernelPutsFit
  <2>3. Len(tx_q') = Len(tx_q) + MinOf(Len(ktx), Room(tx_q))
    BY <2>1, PlaceTypes, FifoPutLen
  <2>4. Len(tx_q') = Len(tx_q) + Len(ktx)
    BY <2>2, <2>3 DEF MinOf
  <2> QED
    BY <1>l, <2>1, <2>4 DEF InTxCircle
<1>6. CASE EthTxBurst \/ EthTxRefused \/ EthRxBurst \/ LoopTest \/ EndBurst
  <2>1. /\ alloc_q' = alloc_q /\ ktx' = ktx /\ tx_q' = tx_q /\ apkts' = apkts
        /\ pc # "alloc"
    BY <1>6 DEF EthTxBurst, EthTxRefused, EthRxBurst, LoopTest, EndBurst, fifos, ksend
  <2> QED
    BY <2>1 DEF InTxCircle
<1>7. CASE ForwardPacket \/ FreePacket \/ KniTxBurst \/ KniFreeMbufs
  <2>1. /\ alloc_q' = alloc_q /\ ktx' = ktx /\ tx_q' = tx_q /\ apkts' = apkts
        /\ pc # "alloc"
    BY <1>7 DEF ForwardPacket, FreePacket, KniTxBurst, KniFreeMbufs, AtPacket, fifos,
                ksend
  <2> QED
    BY <2>1 DEF InTxCircle
<1>8. CASE \/ KernelThread \/ signal_handler \/ NicReceive \/ NicTransmit
           \/ UNCHANGED vars
  <2>1. /\ alloc_q' = alloc_q /\ ktx' = ktx /\ tx_q' = tx_q /\ apkts' = apkts
        /\ pc' = pc
    BY <1>8 DEF KernelThread, KniNetRxCount, KniNetRxGet, KniNetRxSkb, KniNetRxPut,
                signal_handler, NicReceive, NicTransmit, vars, fifos, ksend, lcore
  <2> QED
    BY <2>1 DEF InTxCircle
<1> QED
  BY <1>1, <1>2, <1>3, <1>4, <1>5, <1>6, <1>7, <1>8 DEF Next, Lcore, KernelSend

\* No step makes the pool adequate again, or undoes a wild free.
LEMMA AdequacyOnlyLost ==
  ASSUME ShapeInv, ShapeInv', [Next]_vars, ~ wild', AdequatePool'
  PROVE  ~ wild /\ AdequatePool
<1>1. \/ UNCHANGED <<refused, wild>>
      \/ refused' = refused \o kmbuf /\ (wild' = wild \/ wild' = TRUE)
  BY DEF Next, Lcore, KernelThread, KernelSend, LoopTest, KniRxBurst, KniAllocate,
         KniRefill, EthTxBurst, EthTxRefused, EthRxBurst, ForwardPacket, FreePacket,
         KniTxBurst, KniFreeMbufs, EndBurst, KniNetRxCount, KniNetRxGet, KniNetRxSkb,
         KniNetRxPut, KniNetTxGet, KniNetTxPut, NicReceive, NicTransmit,
         signal_handler, vars, history
<1>2. ~ wild
  BY <1>1
<1>3. Len(refused) \in Nat /\ Len(kmbuf) \in Nat /\ Len(refused') \in Nat
      /\ Len(refused') >= Len(refused)
  <2>1. Len(refused) \in Nat /\ Len(kmbuf) \in Nat
    BY Lengths
  <2>2. CASE refused' = refused
    BY <2>1, <2>2
  <2>3. CASE refused' = refused \o kmbuf
    <3>1. Len(refused') = Len(refused) + Len(kmbuf)
      BY <2>3, PlaceTypes, JoinType
    <3> QED
      BY <2>1, <3>1
  <2> QED
    BY <1>1, <2>2, <2>3
<1>4. NumMbufs - Len(refused') > RxDesc + TxDesc + 4 * (FifoLen - 1)
  BY DEF AdequatePool
<1>5. NumMbufs \in Nat /\ RxDesc \in Nat /\ TxDesc \in Nat /\ FifoLen \in Nat
  BY SizeAssumption, PoolAssumption
<1>6. NumMbufs - Len(refused) > RxDesc + TxDesc + 4 * (FifoLen - 1)
  BY <1>3, <1>4, <1>5
<1> QED
  BY <1>2, <1>6 DEF AdequatePool

\* With such a pool the circle between alloc_q and tx_q never runs empty, although
\* rte_kni_rx_burst refills alloc_q only after it has taken a packet from tx_q: the
\* kernel can always send again.
THEOREM KernelTxAlive == Spec => []KernelTxStaysAlive
<1> DEFINE Inv == LoopInv /\ KernelTxStaysAlive
<1>1. Init => Inv
  <2> SUFFICES ASSUME Init PROVE Inv
    OBVIOUS
  <2>1. LoopInv
    BY InitShape, InitCustody DEF LoopInv, ShapeInv
  <2>2. ASSUME Kni PROVE Len(alloc_q) >= 1
    <3>1. InitialRefill \in Nat /\ InitialRefill >= 1
      BY <2>2, SizeAssumption DEF InitialRefill, MinOf
    <3>2. alloc_q = [k \in 1..InitialRefill |-> RxDesc + k]
      BY DEF Init
    <3> QED
      BY <3>1, <3>2
  <2>3. ShapeInv
    BY InitShape
  <2>4. KernelTxStaysAlive
    BY <2>2, <2>3, Lengths DEF KernelTxStaysAlive
  <2> QED
    BY <2>1, <2>4
<1>2. Inv /\ [Next]_vars => Inv'
  <2> SUFFICES ASSUME LoopInv, KernelTxStaysAlive, [Next]_vars PROVE Inv'
    OBVIOUS
  <2>1. ShapeInv /\ ShapeInv' /\ Custody /\ Custody'
    BY ShapeStep, CustodyStep DEF LoopInv, ShapeInv
  <2>2. LoopInv'
    BY <2>1 DEF LoopInv, ShapeInv
  <2>3. ASSUME Kni, ~ wild', AdequatePool' PROVE pc' = "alloc" \/ InTxCircle' > 0
    <3>1. ~ wild /\ AdequatePool
      BY <2>1, <2>3, AdequacyOnlyLost
    <3>2. OneHolder(Held)
      BY <2>1, <3>1 DEF Custody
    <3>3. pc = "alloc" \/ InTxCircle > 0
      BY <2>3, <3>1 DEF KernelTxStaysAlive, InTxCircle
    <3> QED
      BY <2>1, <3>1, <3>2, <3>3, CircleStep
  <2>4. KernelTxStaysAlive'
    BY <2>3 DEF KernelTxStaysAlive, InTxCircle
  <2> QED
    BY <2>2, <2>4
<1>3. Inv => KernelTxStaysAlive
  OBVIOUS
<1> QED
  BY <1>1, <1>2, <1>3, PTL DEF Spec

-----------------------------------------------------------------------------
(* The statistics *)

\* StatsAgree, with the length of what is pending worked out.
Counted ==
  /\ total_packets + rxdone = Len(arrived)
  /\ kni_packets + kret = Len(rx_q) + (Len(kva) - (ki - 1)) + rx_dropped + Len(kern_in)
  /\ forwarded_packets + kni_packets + (nb_rx + 1 - i) <= total_packets

\* The numbers that are counted.
LEMMA CountTypes ==
  ASSUME ShapeInv
  PROVE  /\ total_packets \in Nat /\ forwarded_packets \in Nat /\ kni_packets \in Nat
         /\ rxdone \in Nat /\ rx_dropped \in Nat /\ kret \in Nat /\ kret <= 1
         /\ nb_rx \in Nat /\ i \in Nat /\ 1 <= i /\ i <= nb_rx + 1
         /\ ki \in Nat /\ 1 <= ki /\ ki <= Len(kva) + 1
         /\ Len(rx_q) \in Nat /\ Len(kva) \in Nat /\ Len(kern_in) \in Nat
         /\ Len(arrived) \in Nat
         /\ (pc # "kfree" => kret = 0) /\ (pc = "kfree" => i <= nb_rx)
         /\ (pc \notin {"pkt", "kfree"} => i = nb_rx + 1)
<1>1. LoopType /\ DriverType /\ KniType /\ WorldType /\ LoopShape
  BY DEF ShapeInv, TypeOK
<1>2. /\ total_packets \in Nat /\ forwarded_packets \in Nat /\ kni_packets \in Nat
      /\ kret \in 0..1 /\ nb_rx \in 0..Burst /\ i \in 1..nb_rx + 1
  BY <1>1 DEF LoopType
<1>3. rxdone \in 0..RxDesc /\ rx_dropped \in Nat /\ ki \in 1..Len(kva) + 1
  BY <1>1 DEF DriverType, KniType
<1>4. kern_in \in Seq(Nat) /\ arrived \in Seq(Packets)
  BY <1>1 DEF WorldType
<1>5. Len(rx_q) \in Nat /\ Len(kva) \in Nat /\ Len(kern_in) \in Nat /\ Len(arrived) \in Nat
  BY <1>4, Lengths
<1>6. RxDesc \in Nat /\ Burst \in Nat
  BY SizeAssumption
<1>7. nb_rx \in Nat /\ i \in Nat /\ 1 <= i /\ i <= nb_rx + 1
  BY <1>2, <1>6
<1>8. rxdone \in Nat /\ ki \in Nat /\ 1 <= ki /\ ki <= Len(kva) + 1
  BY <1>3, <1>5, <1>6
<1>9. /\ (pc # "kfree" => kret = 0) /\ (pc = "kfree" => i <= nb_rx)
      /\ (pc \notin {"pkt", "kfree"} => i = nb_rx + 1)
  BY <1>1 DEF LoopShape
<1> QED
  BY <1>2, <1>3, <1>5, <1>7, <1>8, <1>9

\* The two ways of saying it agree.
LEMMA CountedIs ==
  ASSUME ShapeInv
  PROVE  StatsAgree <=> Counted
<1>t. /\ total_packets \in Nat /\ forwarded_packets \in Nat /\ kni_packets \in Nat
      /\ rxdone \in Nat /\ rx_dropped \in Nat /\ kret \in Nat /\ kret <= 1
      /\ nb_rx \in Nat /\ i \in Nat /\ 1 <= i /\ i <= nb_rx + 1
      /\ ki \in Nat /\ 1 <= ki /\ ki <= Len(kva) + 1
      /\ Len(rx_q) \in Nat /\ Len(kva) \in Nat /\ Len(kern_in) \in Nat
      /\ Len(arrived) \in Nat
  BY CountTypes
<1>1. Len(Pending) = nb_rx + 1 - i - kret
  <2>1. bufs \in Seq(Mbufs) /\ nb_rx <= Len(bufs)
    BY DEF ShapeInv, TypeOK, LoopType
  <2>2. i + kret \in 1..nb_rx + 1 /\ nb_rx \in 0..Len(bufs) /\ Len(bufs) \in Nat
    <3>1. kret # 0 => i <= nb_rx
      BY CountTypes
    <3>2. i + kret <= nb_rx + 1
      BY <3>1, <1>t
    <3> QED
      BY <2>1, <3>2, <1>t
  <2>3. Len(SubSeq(bufs, i + kret, nb_rx)) = nb_rx - (i + kret) + 1
    BY <2>1, <2>2
  <2> QED
    BY <2>3, PendingIs, <1>t
<1>2. (IF pc = "kfree" THEN kret ELSE 0) = kret
  BY CountTypes
<1>3. forwarded_packets + kni_packets + kret + Len(Pending)
        = forwarded_packets + kni_packets + (nb_rx + 1 - i)
  BY <1>1, <1>t
<1> QED
  BY <1>2, <1>3 DEF StatsAgree, Counted

\* The loop starts with nothing counted.
LEMMA InitCounted == Init => Counted
<1>1. Len(<<>>) = 0
  OBVIOUS
<1> QED
  BY <1>1 DEF Init, Counted

\* rte_eth_rx_burst counts what it takes out of the ring.
LEMMA CountEthRx ==
  ASSUME ShapeInv, Counted, EthRxBurst
  PROVE  Counted'
<1>t. /\ total_packets \in Nat /\ forwarded_packets \in Nat /\ kni_packets \in Nat
      /\ rxdone \in Nat /\ rx_dropped \in Nat /\ kret \in Nat /\ kret <= 1
      /\ nb_rx \in Nat /\ i \in Nat /\ 1 <= i /\ i <= nb_rx + 1
      /\ ki \in Nat /\ 1 <= ki /\ ki <= Len(kva) + 1
      /\ Len(rx_q) \in Nat /\ Len(kva) \in Nat /\ Len(kern_in) \in Nat
      /\ Len(arrived) \in Nat
  BY CountTypes
<1> DEFINE n == MinOf(MinOf(Burst, rxdone), Len(pool))
<1>1. /\ rxdone' = rxdone - n /\ total_packets' = total_packets + n
      /\ nb_rx' = n /\ i' = 1 /\ pc = "rx" /\ kret' = kret
      /\ UNCHANGED <<forwarded_packets, kni_packets, rx_q, kva, ki, rx_dropped>>
      /\ UNCHANGED <<kern_in, arrived>>
  BY DEF EthRxBurst, fifos, kthread, world
<1>2. n \in Nat /\ n <= rxdone
  <2>1. Burst \in Nat /\ Len(pool) \in Nat
    BY SizeAssumption, Lengths
  <2> QED
    BY <2>1, <1>t DEF MinOf
<1> HIDE DEF n
<1>3. i = nb_rx + 1
  BY <1>1, CountTypes
<1>4. total_packets' + rxdone' = Len(arrived')
  BY <1>1, <1>2, <1>t DEF Counted
<1>5. forwarded_packets' + kni_packets' + (nb_rx' + 1 - i') <= total_packets'
  BY <1>1, <1>2, <1>3, <1>t DEF Counted
<1>6. kni_packets' + kret' = Len(rx_q') + (Len(kva') - (ki' - 1)) + rx_dropped' + Len(kern_in')
  BY <1>1 DEF Counted
<1> QED
  BY <1>4, <1>5, <1>6 DEF Counted

\* A packet of the burst is forwarded and counted, or dropped, or handed to KNI.
LEMMA CountPackets ==
  ASSUME ShapeInv, Counted, ForwardPacket \/ FreePacket \/ KniTxBurst \/ KniFreeMbufs
  PROVE  Counted'
<1>t. /\ total_packets \in Nat /\ forwarded_packets \in Nat /\ kni_packets \in Nat
      /\ rxdone \in Nat /\ rx_dropped \in Nat /\ kret \in Nat /\ kret <= 1
      /\ nb_rx \in Nat /\ i \in Nat /\ 1 <= i /\ i <= nb_rx + 1
      /\ ki \in Nat /\ 1 <= ki /\ ki <= Len(kva) + 1
      /\ Len(rx_q) \in Nat /\ Len(kva) \in Nat /\ Len(kern_in) \in Nat
      /\ Len(arrived) \in Nat
  BY CountTypes
<1>1. CASE ForwardPacket \/ FreePacket
  <2>1. /\ i' = i + 1 /\ i <= nb_rx
        /\ forwarded_packets' = forwarded_packets \/ forwarded_packets' = forwarded_packets + 1
        /\ UNCHANGED <<total_packets, rxdone, arrived, kni_packets, kret, rx_q, kva, ki>>
        /\ UNCHANGED <<rx_dropped, kern_in, nb_rx>>
    BY <1>1 DEF ForwardPacket, FreePacket, AtPacket, stats, rxq, fifos, kthread, world
  <2>2. forwarded_packets' + kni_packets' + (nb_rx' + 1 - i') <= total_packets'
    BY <2>1, <1>t DEF Counted
  <2> QED
    BY <2>1, <2>2 DEF Counted
<1>2. CASE KniTxBurst
  <2>1. /\ kret' = KniTxCount /\ rx_q' = FifoPut(rx_q, SubSeq(<<bufs[i]>>, 1, kret'))
        /\ i <= nb_rx /\ pc = "pkt"
        /\ UNCHANGED <<total_packets, rxdone, arrived, kni_packets, forwarded_packets>>
        /\ UNCHANGED <<kva, ki, rx_dropped, kern_in, nb_rx, i>>
    BY <1>2 DEF KniTxBurst, AtPacket, stats, rxq, kthread, world
  <2>2. kret = 0 /\ kret' \in 0..1 /\ kret' <= Room(rx_q)
    <3>1. Room(rx_q) \in Nat
      BY PlaceTypes
    <3>2. kret' = MinOf(Room(rx_q), 1)
      BY <2>1 DEF KniTxCount
    <3>3. kret' \in 0..1 /\ kret' <= Room(rx_q)
      BY <3>1, <3>2 DEF MinOf
    <3> QED
      BY <2>1, <3>3, CountTypes
  <2>3. Len(rx_q') = Len(rx_q) + kret'
    <3>1. bufs[i] \in Mbufs
      BY <2>1, <2>2, PendingHead
    <3> DEFINE u == <<bufs[i]>>
    <3>2. u \in Seq(Mbufs) /\ Len(u) = 1
      BY <3>1
    <3> HIDE DEF u
    <3>3. kret' \in 0..Len(u)
      BY <2>2, <3>2
    <3>4. SubSeq(u, 1, kret') \in Seq(Mbufs) /\ Len(SubSeq(u, 1, kret')) = kret'
      BY <3>2, <3>3, CutType
    <3>5. Len(FifoPut(rx_q, SubSeq(u, 1, kret'))) = Len(rx_q) + MinOf(kret', Room(rx_q))
      BY <3>4, PlaceTypes, FifoPutLen
    <3>6. MinOf(kret', Room(rx_q)) = kret'
      BY <2>2 DEF MinOf
    <3> QED
      BY <2>1, <3>5, <3>6 DEF u
  <2>4. kni_packets' + kret' = Len(rx_q') + (Len(kva') - (ki' - 1)) + rx_dropped' + Len(kern_in')
    BY <2>1, <2>2, <2>3, <1>t DEF Counted
  <2> QED
    BY <2>1, <2>4 DEF Counted
<1>3. CASE KniFreeMbufs
  <2>1. /\ kni_packets' = kni_packets + kret /\ kret' = 0 /\ i' = i + 1
        /\ UNCHANGED <<total_packets, rxdone, arrived, forwarded_packets>>
        /\ UNCHANGED <<rx_q, kva, ki, rx_dropped, kern_in, nb_rx>>
    BY <1>3 DEF KniFreeMbufs, rxq, kthread, world
  <2>2. forwarded_packets' + kni_packets' + (nb_rx' + 1 - i') <= total_packets'
    BY <2>1, <1>t DEF Counted
  <2>3. kni_packets' + kret' = Len(rx_q') + (Len(kva') - (ki' - 1)) + rx_dropped' + Len(kern_in')
    BY <2>1, <1>t DEF Counted
  <2> QED
    BY <2>1, <2>2, <2>3 DEF Counted
<1> QED
  BY <1>1, <1>2, <1>3

\* The kernel takes mbufs out of rx_q, and delivers or drops each one.
LEMMA CountKernel ==
  ASSUME ShapeInv, Counted, KniNetRxGet \/ KniNetRxSkb \/ KniNetRxPut
  PROVE  Counted'
<1>t. /\ total_packets \in Nat /\ forwarded_packets \in Nat /\ kni_packets \in Nat
      /\ rxdone \in Nat /\ rx_dropped \in Nat /\ kret \in Nat /\ kret <= 1
      /\ nb_rx \in Nat /\ i \in Nat /\ 1 <= i /\ i <= nb_rx + 1
      /\ ki \in Nat /\ 1 <= ki /\ ki <= Len(kva) + 1
      /\ Len(rx_q) \in Nat /\ Len(kva) \in Nat /\ Len(kern_in) \in Nat
      /\ Len(arrived) \in Nat
  BY CountTypes
<1>0. /\ UNCHANGED <<total_packets, rxdone, arrived, kni_packets, kret>>
      /\ UNCHANGED <<forwarded_packets, nb_rx, i>>
  BY DEF KniNetRxGet, KniNetRxSkb, KniNetRxPut, lcore, stats, rxq, world
<1> SUFFICES Len(rx_q') + (Len(kva') - (ki' - 1)) + rx_dropped' + Len(kern_in')
               = Len(rx_q) + (Len(kva) - (ki - 1)) + rx_dropped + Len(kern_in)
  BY <1>0 DEF Counted
<1>1. CASE KniNetRxGet
  <2>1. /\ kva' = FifoGot(rx_q, knum) /\ rx_q' = FifoRest(rx_q, knum) /\ ki' = 1
        /\ kpc = "get" /\ UNCHANGED <<rx_dropped, kern_in>>
    BY <1>1 DEF KniNetRxGet, world
  <2>2. Len(kva) = 0 /\ ki = 1
    <3>1. kva = <<>> /\ Len(<<>>) = 0
      BY <2>1 DEF ShapeInv, LoopShape
    <3> QED
      BY <3>1, CountTypes
  <2>3. knum \in Nat
    BY SizeAssumption DEF ShapeInv, TypeOK, KniType
  <2>4. /\ Len(kva') = MinOf(knum, Len(rx_q))
        /\ Len(rx_q') = Len(rx_q) - MinOf(knum, Len(rx_q))
    BY <2>1, <2>3, PlaceTypes, FifoSplit
  <2>5. MinOf(knum, Len(rx_q)) \in Nat
    BY <2>3, CountTypes, MinOfNat
  <2> QED
    BY <2>1, <2>2, <2>4, <2>5, <1>t
<1>2. CASE KniNetRxSkb
  <2>1. /\ \/ kern_in' = Append(kern_in, frame[kva[ki]]) /\ rx_dropped' = rx_dropped
           \/ rx_dropped' = rx_dropped + 1 /\ kern_in' = kern_in
        /\ ki' = ki + 1 /\ UNCHANGED <<rx_q, kva>> /\ ki <= Len(kva)
    BY <1>2 DEF KniNetRxSkb, fifos
  <2>2. kern_in \in Seq(Nat)
    BY DEF ShapeInv, TypeOK, WorldType
  <2>3. Len(rx_q') = Len(rx_q) /\ Len(kva') = Len(kva) /\ ki' = ki + 1
    BY <2>1
  <2>4. CASE kern_in' = Append(kern_in, frame[kva[ki]]) /\ rx_dropped' = rx_dropped
    <3>1. Len(kern_in') = Len(kern_in) + 1
      BY <2>2, <2>4
    <3>2. rx_dropped' = rx_dropped
      BY <2>4
    <3> QED
      BY <3>1, <3>2, <2>3, <1>t
  <2>5. CASE rx_dropped' = rx_dropped + 1 /\ kern_in' = kern_in
    <3>1. Len(kern_in') = Len(kern_in)
      BY <2>5
    <3>2. rx_dropped' = rx_dropped + 1
      BY <2>5
    <3> QED
      BY <3>1, <3>2, <2>3, <1>t
  <2> QED
    BY <2>1, <2>4, <2>5
<1>3. CASE KniNetRxPut
  <2>1. /\ kva' = <<>> /\ ki' = 1 /\ ki > Len(kva)
        /\ UNCHANGED <<rx_q, rx_dropped, kern_in>>
    BY <1>3 DEF KniNetRxPut, world
  <2>2. Len(kva') - (ki' - 1) = 0
    BY <2>1
  <2>3. Len(kva) - (ki - 1) = 0
    BY <2>1, <1>t
  <2> QED
    BY <2>1, <2>2, <2>3
<1> QED
  BY <1>1, <1>2, <1>3

\* Every step keeps the counts.
LEMMA CountStep ==
  ASSUME ShapeInv, Counted, [Next]_vars
  PROVE  Counted'
<1>t. /\ total_packets \in Nat /\ forwarded_packets \in Nat /\ kni_packets \in Nat
      /\ rxdone \in Nat /\ rx_dropped \in Nat /\ kret \in Nat /\ kret <= 1
      /\ nb_rx \in Nat /\ i \in Nat /\ 1 <= i /\ i <= nb_rx + 1
      /\ ki \in Nat /\ 1 <= ki /\ ki <= Len(kva) + 1
      /\ Len(rx_q) \in Nat /\ Len(kva) \in Nat /\ Len(kern_in) \in Nat
      /\ Len(arrived) \in Nat
  BY CountTypes
<1>1. CASE EthRxBurst
  BY <1>1, CountEthRx
<1>2. CASE ForwardPacket \/ FreePacket \/ KniTxBurst \/ KniFreeMbufs
  BY <1>2, CountPackets
<1>3. CASE KniNetRxGet \/ KniNetRxSkb \/ KniNetRxPut
  BY <1>3, CountKernel
<1>4. CASE NicReceive
  <2>1. /\ rxdone' = rxdone + 1 /\ \E p \in Packets : arrived' = Append(arrived, p)
        /\ UNCHANGED <<total_packets, kni_packets, kret, forwarded_packets, nb_rx, i>>
        /\ UNCHANGED <<rx_q, kva, ki, rx_dropped, kern_in>>
    BY <1>4 DEF NicReceive, lcore, stats, fifos, kthread
  <2>2. arrived \in Seq(Packets)
    BY DEF ShapeInv, TypeOK, WorldType
  <2>3. Len(arrived') = Len(arrived) + 1
    BY <2>1, <2>2
  <2>4. total_packets' + rxdone' = Len(arrived')
    BY <2>1, <2>3, <1>t DEF Counted
  <2> QED
    BY <2>1, <2>4 DEF Counted
<1>5. CASE \/ LoopTest \/ EndBurst \/ signal_handler \/ KniRxBurst \/ KniAllocate
           \/ KniRefill \/ EthTxBurst \/ EthTxRefused \/ KniNetRxCount
           \/ KernelSend \/ NicTransmit \/ UNCHANGED vars
  <2>1. UNCHANGED <<total_packets, kni_packets, forwarded_packets, rxdone, rx_dropped>>
    BY <1>5 DEF LoopTest, EndBurst, signal_handler, KniRxBurst, KniAllocate, KniRefill,
                EthTxBurst, EthTxRefused, KniNetRxCount, KernelSend, KniNetTxGet,
                KniNetTxPut, NicTransmit, vars, stats, rxq, kthread
  <2>2. UNCHANGED <<kret, nb_rx, i, rx_q, kva, ki, kern_in, arrived>>
    BY <1>5 DEF LoopTest, EndBurst, signal_handler, KniRxBurst, KniAllocate, KniRefill,
                EthTxBurst, EthTxRefused, KniNetRxCount, KernelSend, KniNetTxGet,
                KniNetTxPut, NicTransmit, vars, lcore, fifos, kthread, world
  <2> QED
    BY <2>1, <2>2 DEF Counted
<1> QED
  BY <1>1, <1>2, <1>3, <1>4, <1>5 DEF Next, Lcore, KernelThread

\* The statistics of main.c and of the kernel module agree with each other and with
\* what has arrived, at every moment and whatever the sizes, wild frees included.
THEOREM StatsAlwaysAgree == Spec => []StatsAgree
<1> DEFINE Inv == ShapeInv /\ Counted
<1>1. Init => Inv
  BY InitShape, InitCounted
<1>2. Inv /\ [Next]_vars => Inv'
  BY ShapeStep, CountStep
<1>3. Inv => StatsAgree
  BY CountedIs
<1> QED
  BY <1>1, <1>2, <1>3, PTL DEF Spec

-----------------------------------------------------------------------------
(* The filter *)

\* A sequence behind what is left of another.
LEMMA RestJoined ==
  ASSUME NEW s \in Seq(Mbufs), NEW t \in Seq(Mbufs), NEW n \in 1..Len(s) + 1
  PROVE  LET w == SubSeq(s, n, Len(s)) \o t
         IN /\ w \in Seq(Mbufs)
            /\ Len(w) = Len(s) - (n - 1) + Len(t)
            /\ \A k \in 1..Len(s) - (n - 1) : w[k] = s[n - 1 + k]
            /\ \A k \in 1..Len(t) : w[Len(s) - (n - 1) + k] = t[k]
            /\ Range(w) \subseteq Range(s) \cup Range(t)
<1>1. n - 1 \in 0..Len(s) /\ (n - 1) + 1 = n
  OBVIOUS
<1> DEFINE r == SubSeq(s, (n - 1) + 1, Len(s))
<1>2. /\ r \in Seq(Mbufs) /\ Len(r) = Len(s) - (n - 1)
      /\ \A k \in 1..Len(s) - (n - 1) : r[k] = s[(n - 1) + k]
  BY <1>1, CutType
<1>3. Range(r) \subseteq Range(s)
  <2>1. Range(SubSeq(s, 1, n - 1)) \cup Range(r) = Range(s)
    BY <1>1, Cut
  <2> QED
    BY <2>1
<1>4. SubSeq(s, n, Len(s)) \o t = r \o t
  BY <1>1
<1> HIDE DEF r
<1>5. Range(r \o t) = Range(r) \cup Range(t)
  BY <1>2, Join
<1>6. /\ r \o t \in Seq(Mbufs) /\ Len(r \o t) = Len(r) + Len(t)
      /\ \A k \in 1..Len(r) : (r \o t)[k] = r[k]
      /\ \A k \in 1..Len(t) : (r \o t)[Len(r) + k] = t[k]
  <2>1. r \in Seq(Mbufs)
    BY <1>2
  <2> QED
    BY <2>1, JoinType
<1> QED
  BY <1>2, <1>3, <1>4, <1>5, <1>6

\* What is on its way to the kernel: the rest of the kernel thread's batch, and
\* behind it rx_q.
LEMMA WaitingIs ==
  ASSUME ShapeInv
  PROVE  /\ Waiting \in Seq(Mbufs)
         /\ Len(Waiting) = Len(kva) - (ki - 1) + Len(rx_q)
         /\ \A k \in 1..Len(kva) - (ki - 1) : Waiting[k] = kva[ki - 1 + k]
         /\ \A k \in 1..Len(rx_q) : Waiting[Len(kva) - (ki - 1) + k] = rx_q[k]
         /\ Range(Waiting) \subseteq Range(kva) \cup Range(rx_q)
<1>1. kva \in Seq(Mbufs) /\ rx_q \in Seq(Mbufs) /\ ki \in 1..Len(kva) + 1
  BY DEF ShapeInv, TypeOK, KniType, FifoType
<1> QED
  BY <1>1, RestJoined DEF Waiting

\* The same after a step.
LEMMA WaitingIsNext ==
  ASSUME ShapeInv'
  PROVE  /\ Waiting' \in Seq(Mbufs)
         /\ Len(Waiting') = Len(kva') - (ki' - 1) + Len(rx_q')
         /\ \A k \in 1..Len(kva') - (ki' - 1) : Waiting'[k] = kva'[ki' - 1 + k]
         /\ \A k \in 1..Len(rx_q') : Waiting'[Len(kva') - (ki' - 1) + k] = rx_q'[k]
<1>1. kva' \in Seq(Mbufs) /\ rx_q' \in Seq(Mbufs) /\ ki' \in 1..Len(kva') + 1
  BY DEF ShapeInv, TypeOK, KniType, FifoType
<1> QED
  BY <1>1, RestJoined DEF Waiting

\* Two sequences with the same elements are the same.
LEMMA SameSeq ==
  ASSUME NEW s \in Seq(Mbufs), NEW t \in Seq(Mbufs), Len(s) = Len(t),
         \A k \in 1..Len(s) : s[k] = t[k]
  PROVE  s = t
OBVIOUS

\* The kernel thread's get and put leave the packets that wait as they are.
LEMMA WaitingKept ==
  ASSUME ShapeInv, ShapeInv', KniNetRxGet \/ KniNetRxPut
  PROVE  Waiting' = Waiting
<1>t. /\ ki \in Nat /\ 1 <= ki /\ ki <= Len(kva) + 1
      /\ Len(rx_q) \in Nat /\ Len(kva) \in Nat
  BY CountTypes
<1>1. CASE KniNetRxGet
  <2>1. /\ kva' = FifoGot(rx_q, knum) /\ rx_q' = FifoRest(rx_q, knum) /\ ki' = 1
        /\ kpc = "get"
    BY <1>1 DEF KniNetRxGet
  <2>2. Len(kva) = 0 /\ ki = 1
    <3>1. kva = <<>> /\ Len(<<>>) = 0
      BY <2>1 DEF ShapeInv, LoopShape
    <3> QED
      BY <3>1, <1>t
  <2>3. knum \in Nat /\ rx_q \in Seq(Mbufs)
    BY SizeAssumption, PlaceTypes DEF ShapeInv, TypeOK, KniType
  <2> DEFINE n == MinOf(knum, Len(rx_q))
  <2>4. n \in 0..Len(rx_q)
    <3>1. n \in Nat /\ n <= Len(rx_q)
      BY <2>3, <1>t, MinOfNat
    <3> QED
      BY <3>1, <1>t
  <2>5. /\ Len(kva') = n /\ Len(rx_q') = Len(rx_q) - n
        /\ \A k \in 1..n : kva'[k] = rx_q[k]
        /\ \A k \in 1..Len(rx_q) - n : rx_q'[k] = rx_q[n + k]
    BY <2>1, <2>3, <2>4, CutType DEF FifoGot, FifoRest
  <2> HIDE DEF n
  <2>6. /\ Waiting \in Seq(Mbufs) /\ Len(Waiting) = Len(rx_q)
        /\ \A k \in 1..Len(rx_q) : Waiting[k] = rx_q[k]
    BY <2>2, <1>t, WaitingIs
  <2>7. /\ Waiting' \in Seq(Mbufs)
        /\ Len(Waiting') = Len(kva') - (ki' - 1) + Len(rx_q')
        /\ \A k \in 1..Len(kva') - (ki' - 1) : Waiting'[k] = kva'[ki' - 1 + k]
        /\ \A k \in 1..Len(rx_q') : Waiting'[Len(kva') - (ki' - 1) + k] = rx_q'[k]
    BY WaitingIsNext
  <2>8. n - (1 - 1) = n /\ n + (Len(rx_q) - n) = Len(rx_q)
    BY <2>4, <1>t
  <2>9. /\ Len(Waiting') = Len(rx_q)
        /\ \A k \in 1..n : Waiting'[k] = kva'[1 - 1 + k]
        /\ \A k \in 1..Len(rx_q) - n : Waiting'[n + k] = rx_q'[k]
    BY <2>1, <2>5, <2>7, <2>8
  <2>10. ASSUME NEW k \in 1..Len(rx_q) PROVE Waiting'[k] = rx_q[k]
    <3>1. CASE k <= n
      <4>1. k \in 1..n /\ 1 - 1 + k = k
        BY <3>1, <2>4, <1>t
      <4> QED
        BY <4>1, <2>5, <2>9
    <3>2. CASE k > n
      <4>1. k - n \in 1..Len(rx_q) - n /\ n + (k - n) = k
        BY <3>2, <2>4, <1>t
      <4> QED
        BY <4>1, <2>5, <2>9
    <3> QED
      BY <3>1, <3>2, <2>4
  <2> QED
    BY <2>6, <2>7, <2>9, <2>10, SameSeq
<1>2. CASE KniNetRxPut
  <2>1. kva' = <<>> /\ ki' = 1 /\ ki > Len(kva) /\ rx_q' = rx_q /\ Len(<<>>) = 0
    BY <1>2 DEF KniNetRxPut
  <2>2. Len(kva) - (ki - 1) = 0 /\ \A k \in Nat : 0 + k = k
    BY <2>1, <1>t
  <2>3. Len(kva') - (ki' - 1) = 0
    BY <2>1
  <2>4. /\ Waiting \in Seq(Mbufs) /\ Len(Waiting) = Len(rx_q)
        /\ \A k \in 1..Len(rx_q) : Waiting[k] = rx_q[k]
    BY <2>2, <1>t, WaitingIs
  <2>5. /\ Waiting' \in Seq(Mbufs)
        /\ Len(Waiting') = Len(kva') - (ki' - 1) + Len(rx_q')
        /\ \A k \in 1..Len(rx_q') : Waiting'[Len(kva') - (ki' - 1) + k] = rx_q'[k]
    BY WaitingIsNext
  <2>6. Len(Waiting') = Len(rx_q) /\ \A k \in 1..Len(rx_q) : Waiting'[k] = rx_q[k]
    BY <2>1, <2>3, <2>5, <1>t
  <2> QED
    BY <2>4, <2>5, <2>6, SameSeq
<1> QED
  BY <1>1, <1>2

\* An mbuf handed to the stack, or dropped, is the first that waits.
LEMMA WaitingTail ==
  ASSUME ShapeInv, ShapeInv', KniNetRxSkb
  PROVE  /\ Len(Waiting) \in Nat /\ Len(Waiting) >= 1
         /\ Len(Waiting') = Len(Waiting) - 1 /\ Waiting[1] = kva[ki]
         /\ \A k \in 1..Len(Waiting) - 1 : Waiting'[k] = Waiting[k + 1]
<1>t. /\ ki \in Nat /\ 1 <= ki /\ ki <= Len(kva) + 1
      /\ Len(rx_q) \in Nat /\ Len(kva) \in Nat
  BY CountTypes
<1>1. ki <= Len(kva) /\ ki' = ki + 1 /\ kva' = kva /\ rx_q' = rx_q
  BY DEF KniNetRxSkb, fifos
<1> DEFINE n == Len(kva) - (ki - 1)
<1>2. n \in Nat /\ n >= 1 /\ Len(kva) - ((ki + 1) - 1) = n - 1
  BY <1>1, <1>t
<1>3. /\ Len(Waiting) = n + Len(rx_q)
      /\ \A k \in 1..n : Waiting[k] = kva[ki - 1 + k]
      /\ \A k \in 1..Len(rx_q) : Waiting[n + k] = rx_q[k]
  BY WaitingIs
<1>4. /\ Len(Waiting') = n - 1 + Len(rx_q)
      /\ \A k \in 1..n - 1 : Waiting'[k] = kva[(ki + 1) - 1 + k]
      /\ \A k \in 1..Len(rx_q) : Waiting'[n - 1 + k] = rx_q[k]
  BY <1>1, <1>2, WaitingIsNext
<1> HIDE DEF n
<1>5. Waiting[1] = kva[ki]
  <2>1. 1 \in 1..n /\ ki - 1 + 1 = ki
    BY <1>2, <1>t
  <2> QED
    BY <2>1, <1>3
<1>6. ASSUME NEW k \in 1..Len(Waiting) - 1 PROVE Waiting'[k] = Waiting[k + 1]
  <2>0. k \in Nat /\ 1 <= k /\ k <= n + Len(rx_q) - 1
    BY <1>2, <1>3, <1>t
  <2>1. CASE k <= n - 1
    <3>1. k \in 1..n - 1 /\ k + 1 \in 1..n /\ (ki + 1) - 1 + k = ki - 1 + (k + 1)
      BY <2>0, <2>1, <1>2, <1>t
    <3> QED
      BY <3>1, <1>3, <1>4
  <2>2. CASE k > n - 1
    <3>1. /\ k - (n - 1) \in 1..Len(rx_q)
          /\ n - 1 + (k - (n - 1)) = k /\ n + (k - (n - 1)) = k + 1
      BY <2>0, <2>2, <1>2, <1>t
    <3> QED
      BY <3>1, <1>3, <1>4
  <2> QED
    BY <2>0, <2>1, <2>2, <1>2
<1> QED
  BY <1>2, <1>3, <1>4, <1>5, <1>6, <1>t

\* rte_kni_tx_burst puts the packet, if there is room, behind those that wait.
LEMMA WaitingPut ==
  ASSUME ShapeInv, ShapeInv', KniTxBurst
  PROVE  /\ kret = 0 /\ kret' \in 0..1 /\ Len(Waiting) \in Nat
         /\ Len(Waiting') = Len(Waiting) + kret'
         /\ \A k \in 1..Len(Waiting) : Waiting'[k] = Waiting[k]
         /\ kret' = 1 => Waiting'[Len(Waiting) + 1] = bufs[i]
<1>t. /\ ki \in Nat /\ 1 <= ki /\ ki <= Len(kva) + 1
      /\ Len(rx_q) \in Nat /\ Len(kva) \in Nat
  BY CountTypes
<1>1. /\ kret' = KniTxCount /\ rx_q' = FifoPut(rx_q, SubSeq(<<bufs[i]>>, 1, kret'))
      /\ i <= nb_rx /\ pc = "pkt" /\ kva' = kva /\ ki' = ki
  BY DEF KniTxBurst, AtPacket, kthread
<1>2. kret = 0 /\ kret' \in 0..1 /\ kret' <= Room(rx_q)
  <2>1. Room(rx_q) \in Nat
    BY PlaceTypes
  <2>2. kret' = MinOf(Room(rx_q), 1)
    BY <1>1 DEF KniTxCount
  <2>3. kret' \in 0..1 /\ kret' <= Room(rx_q)
    BY <2>1, <2>2 DEF MinOf
  <2> QED
    BY <1>1, <2>3, CountTypes
<1>u. PICK u : u = SubSeq(<<bufs[i]>>, 1, kret')
  OBVIOUS
<1>3. u \in Seq(Mbufs) /\ Len(u) = kret' /\ \A k \in 1..kret' : u[k] = bufs[i]
  <2>1. bufs[i] \in Mbufs
    BY <1>1, <1>2, PendingHead
  <2> DEFINE v == <<bufs[i]>>
  <2>2. v \in Seq(Mbufs) /\ Len(v) = 1 /\ v[1] = bufs[i]
    BY <2>1
  <2> HIDE DEF v
  <2>3. kret' \in 0..Len(v)
    BY <1>2, <2>2
  <2>4. /\ SubSeq(v, 1, kret') \in Seq(Mbufs) /\ Len(SubSeq(v, 1, kret')) = kret'
        /\ \A k \in 1..kret' : SubSeq(v, 1, kret')[k] = v[k]
    BY <2>2, <2>3, CutType
  <2>5. \A k \in 1..kret' : k = 1
    BY <1>2
  <2> QED
    BY <1>u, <2>2, <2>4, <2>5 DEF v
<1>4. rx_q \in Seq(Mbufs) /\ FifoType(rx_q)
  BY PlaceTypes
<1>5. rx_q' = rx_q \o u
  BY <1>1, <1>2, <1>3, <1>4, <1>u, FifoPutFits
<1>6. /\ Len(rx_q') = Len(rx_q) + kret'
      /\ \A k \in 1..Len(rx_q) : rx_q'[k] = rx_q[k]
      /\ \A k \in 1..kret' : rx_q'[Len(rx_q) + k] = u[k]
  <2>1. u \in Seq(Mbufs) /\ Len(u) = kret'
    BY <1>3
  <2>2. /\ rx_q \o u \in Seq(Mbufs) /\ Len(rx_q \o u) = Len(rx_q) + Len(u)
        /\ \A k \in 1..Len(rx_q) : (rx_q \o u)[k] = rx_q[k]
        /\ \A k \in 1..Len(u) : (rx_q \o u)[Len(rx_q) + k] = u[k]
    <3>1. rx_q \in Seq(Mbufs) /\ u \in Seq(Mbufs)
      BY <1>4, <2>1
    <3> QED
      BY <3>1, JoinType
  <2> QED
    BY <1>5, <2>1, <2>2
<1> DEFINE n == Len(kva) - (ki - 1)
<1>7. n \in Nat
  BY <1>t
<1>8. /\ Len(Waiting) = n + Len(rx_q)
      /\ \A k \in 1..n : Waiting[k] = kva[ki - 1 + k]
      /\ \A k \in 1..Len(rx_q) : Waiting[n + k] = rx_q[k]
  BY WaitingIs
<1>9. /\ Len(Waiting') = n + Len(rx_q')
      /\ \A k \in 1..n : Waiting'[k] = kva[ki - 1 + k]
      /\ \A k \in 1..Len(rx_q') : Waiting'[n + k] = rx_q'[k]
  BY <1>1, WaitingIsNext
<1> HIDE DEF n
<1>10. ASSUME NEW k \in 1..Len(Waiting) PROVE Waiting'[k] = Waiting[k]
  <2>0. k \in Nat /\ 1 <= k /\ k <= n + Len(rx_q)
    BY <1>7, <1>8, <1>t
  <2>1. CASE k <= n
    <3>1. k \in 1..n
      BY <2>0, <2>1, <1>7
    <3> QED
      BY <3>1, <1>8, <1>9
  <2>2. CASE k > n
    <3>1. k - n \in 1..Len(rx_q) /\ k - n \in 1..Len(rx_q) + kret' /\ n + (k - n) = k
      BY <2>0, <2>2, <1>2, <1>7, <1>t
    <3> QED
      BY <3>1, <1>6, <1>8, <1>9
  <2> QED
    BY <2>0, <2>1, <2>2, <1>7
<1>11. ASSUME kret' = 1 PROVE Waiting'[Len(Waiting) + 1] = bufs[i]
  <2>1. /\ Len(rx_q) + 1 \in 1..Len(rx_q) + 1 /\ 1 \in 1..kret'
        /\ n + (Len(rx_q) + 1) = Len(Waiting) + 1
    BY <1>7, <1>8, <1>11, <1>t
  <2> QED
    BY <2>1, <1>3, <1>6, <1>9, <1>11
<1>12. Len(Waiting') = Len(Waiting) + kret' /\ Len(Waiting) \in Nat
  BY <1>2, <1>6, <1>7, <1>8, <1>9, <1>t
<1> QED
  BY <1>2, <1>10, <1>11, <1>12

\* Who waits, or is still to be looked at, is in another place than an mbuf that
\* the NIC or the kernel is about to write.
LEMMA WrittenElsewhere ==
  ASSUME ShapeInv, OneHolder(Held), NEW m,
         m \in Range(rxring) \/ m \in Range(alloc_q)
  PROVE  /\ \A k \in i + kret..nb_rx : bufs[k] # m
         /\ \A k \in 1..Len(Waiting) : Waiting[k] # m
         /\ m \in Range(alloc_q) => \A k \in 1..RxDesc : rxring[k] # m
<1>1. \A p, q \in DOMAIN Held : p # q => Range(Held[p]) \cap Range(Held[q]) = {}
  BY DEF OneHolder
<1>2. /\ Range(rxring) \cap Range(Pending) = {} /\ Range(alloc_q) \cap Range(Pending) = {}
      /\ Range(rxring) \cap Range(kva) = {} /\ Range(alloc_q) \cap Range(kva) = {}
      /\ Range(rxring) \cap Range(rx_q) = {} /\ Range(alloc_q) \cap Range(rx_q) = {}
      /\ Range(rxring) \cap Range(alloc_q) = {}
  <2>1. {"rxring", "alloc_q", "pending", "kva", "rx_q"} \subseteq DOMAIN Held
    BY HeldPlaces DEF Places
  <2> QED
    BY <1>1, <2>1, HeldPlaces
<1>3. ASSUME NEW k \in i + kret..nb_rx PROVE bufs[k] \in Range(Pending)
  <2>1. /\ nb_rx \in Nat /\ i \in Nat /\ 1 <= i /\ kret \in Nat
    BY CountTypes
  <2>2. bufs \in Seq(Mbufs) /\ nb_rx <= Len(bufs)
    BY DEF ShapeInv, TypeOK, LoopType
  <2>3. Pending = SubSeq(bufs, i + kret, nb_rx)
    BY PendingIs
  <2>4. k \in Nat /\ i + kret <= k /\ k <= nb_rx
    BY <2>1
  <2>5. i + kret \in 1..nb_rx /\ nb_rx \in 1..Len(bufs)
    BY <2>1, <2>2, <2>4
  <2>6. /\ Len(Pending) = nb_rx - (i + kret) + 1
        /\ \A j \in 1..nb_rx - (i + kret) + 1 : Pending[j] = bufs[i + kret + j - 1]
    BY <2>2, <2>3, <2>5
  <2>7. /\ k - (i + kret) + 1 \in 1..nb_rx - (i + kret) + 1
        /\ i + kret + (k - (i + kret) + 1) - 1 = k
    BY <2>1, <2>4
  <2>8. Pending[k - (i + kret) + 1] = bufs[k] /\ k - (i + kret) + 1 \in 1..Len(Pending)
    BY <2>6, <2>7
  <2>9. Pending \in Seq(Mbufs)
    BY PendingIs
  <2> QED
    BY <2>8, <2>9 DEF Range
<1>4. ASSUME NEW k \in 1..Len(Waiting) PROVE Waiting[k] \in Range(kva) \cup Range(rx_q)
  <2>1. Waiting \in Seq(Mbufs) /\ Range(Waiting) \subseteq Range(kva) \cup Range(rx_q)
    BY WaitingIs
  <2>2. Waiting[k] \in Range(Waiting)
    BY <2>1 DEF Range
  <2> QED
    BY <2>1, <2>2
<1>5. ASSUME NEW k \in 1..RxDesc PROVE rxring[k] \in Range(rxring)
  BY DEF ShapeInv, TypeOK, DriverType, Range
<1> QED
  BY <1>2, <1>3, <1>4, <1>5

\* The numbers that the order is about.
LEMMA FrameTypes ==
  ASSUME ShapeInv
  PROVE  /\ \A m \in Mbufs : frame[m] \in Nat /\ frame[m] <= Len(arrived)
         /\ \A k \in 1..Len(Waiting) : Waiting[k] \in Mbufs /\ frame[Waiting[k]] \in Nat
         /\ \A k \in 1..Len(kern_in) : kern_in[k] \in Nat
         /\ \A k \in 1..Len(fwd_out) : fwd_out[k] \in Nat
         /\ NextUp \in Int
<1>1. WorldType
  BY DEF ShapeInv, TypeOK
<1>2. Len(arrived) \in Nat
  BY CountTypes
<1>3. ASSUME NEW m \in Mbufs PROVE frame[m] \in Nat /\ frame[m] <= Len(arrived)
  <2>1. frame[m] \in 0..Len(arrived)
    BY <1>1 DEF WorldType
  <2> QED
    BY <2>1, <1>2
<1>4. \A k \in 1..Len(Waiting) : Waiting[k] \in Mbufs
  BY WaitingIs
<1>5. \A k \in 1..Len(kern_in) : kern_in[k] \in Nat
  BY <1>1 DEF WorldType
<1>6. \A k \in 1..Len(fwd_out) : fwd_out[k] \in Nat
  BY <1>1 DEF WorldType
<1>7. NextUp \in Int
  <2>1. total_packets \in Nat /\ nb_rx \in Nat /\ i \in Nat /\ kret \in Nat
    BY CountTypes
  <2> QED
    BY <2>1 DEF NextUp
<1> QED
  BY <1>3, <1>4, <1>5, <1>6, <1>7

\* The order of what goes to the kernel survives a step that leaves it alone.
LEMMA KernelFramesKept ==
  ASSUME ShapeInv, KernelFrames, Len(Waiting') = Len(Waiting),
         \A k \in 1..Len(Waiting) : Waiting'[k] = Waiting[k],
         \A k \in 1..Len(Waiting) : frame'[Waiting[k]] = frame[Waiting[k]],
         \A n : ForKernel(n) => ForKernel(n)',
         kern_in' = kern_in, NextUp' \in Int, NextUp <= NextUp'
  PROVE  KernelFrames'
<1>t. NextUp \in Int
  BY FrameTypes
<1>1. ASSUME NEW k \in 1..Len(Waiting)
      PROVE  /\ frame'[Waiting'[k]] \in DOMAIN arrived'
             /\ ~ should_forward(FilterList, arrived'[frame'[Waiting'[k]]])
             /\ frame'[Waiting'[k]] < NextUp'
             /\ \A j \in 1..k - 1 : frame'[Waiting'[j]] < frame'[Waiting'[k]]
             /\ \A j \in 1..Len(kern_in') : kern_in'[j] < frame'[Waiting'[k]]
  <2>1. frame'[Waiting'[k]] = frame[Waiting[k]]
    OBVIOUS
  <2>2. /\ ForKernel(frame[Waiting[k]]) /\ frame[Waiting[k]] < NextUp
        /\ \A j \in 1..k - 1 : frame[Waiting[j]] < frame[Waiting[k]]
        /\ \A j \in 1..Len(kern_in) : kern_in[j] < frame[Waiting[k]]
    BY DEF KernelFrames
  <2>3. frame'[Waiting'[k]] < NextUp'
    <3>1. frame[Waiting[k]] \in Nat
      BY FrameTypes
    <3> QED
      BY <2>1, <2>2, <3>1, <1>t
  <2>4. \A j \in 1..k - 1 : frame'[Waiting'[j]] = frame[Waiting[j]]
    <3>1. k \in Nat /\ k <= Len(Waiting) /\ Len(Waiting) \in Nat
      BY WaitingIs
    <3>2. \A j \in 1..k - 1 : j \in 1..Len(Waiting)
      BY <3>1
    <3> QED
      BY <3>2
  <2>5. /\ frame'[Waiting'[k]] \in DOMAIN arrived'
        /\ ~ should_forward(FilterList, arrived'[frame'[Waiting'[k]]])
    <3>1. PICK n : n = frame[Waiting[k]]
      OBVIOUS
    <3>2. n \in DOMAIN arrived' /\ ~ should_forward(FilterList, arrived'[n])
      BY <2>2, <3>1 DEF ForKernel
    <3> QED
      BY <2>1, <3>1, <3>2
  <2> QED
    BY <2>1, <2>2, <2>3, <2>4, <2>5
<1>2. ASSUME NEW k \in 1..Len(kern_in) PROVE kern_in'[k] < NextUp'
  <2>1. kern_in[k] \in Nat /\ kern_in[k] < NextUp
    BY FrameTypes DEF KernelFrames
  <2> QED
    BY <2>1, <1>t
<1> QED
  BY <1>1, <1>2 DEF KernelFrames, ForKernel

\* The order of what has been forwarded, likewise.
LEMMA ForwardFramesKept ==
  ASSUME ShapeInv, ForwardFrames, fwd_out' = fwd_out, NextUp' \in Int, NextUp <= NextUp'
  PROVE  ForwardFrames'
<1>1. ASSUME NEW k \in 1..Len(fwd_out) PROVE fwd_out'[k] < NextUp'
  <2>1. fwd_out[k] \in Nat /\ fwd_out[k] < NextUp /\ NextUp \in Int
    BY FrameTypes DEF ForwardFrames
  <2> QED
    BY <2>1
<1> QED
  BY <1>1 DEF ForwardFrames

\* The loop starts with no packet anywhere.
LEMMA InitFrames == Init => FramesInOrder
<1> SUFFICES ASSUME Init PROVE RxFrames /\ KernelFrames /\ ForwardFrames
  BY DEF FramesInOrder
<1>1. /\ nb_rx = 0 /\ total_packets = 0 /\ rxdone = 0 /\ i = 1 /\ kret = 0
      /\ kva = <<>> /\ rx_q = <<>> /\ kern_in = <<>> /\ fwd_out = <<>> /\ ki = 1
  BY DEF Init
<1>2. Len(<<>>) = 0 /\ 1..0 = {} /\ 1 + 0..0 = {} /\ 0 <= 0
  OBVIOUS
<1>3. Len(Waiting) = 0
  BY <1>1, <1>2, InitShape, WaitingIs
<1> QED
  BY <1>1, <1>2, <1>3 DEF RxFrames, KernelFrames, ForwardFrames

\* Steps that have nothing to do with the packets on their way.
LEMMA FramesUntouched ==
  ASSUME ShapeInv, ShapeInv', RxFrames, KernelFrames, ForwardFrames,
         UNCHANGED <<total_packets, nb_rx, i, kret, rxdone, rxring, bufs>>,
         UNCHANGED <<frame, arrived, kern_in, fwd_out>>, Waiting' = Waiting
  PROVE  RxFrames' /\ KernelFrames' /\ ForwardFrames'
<1>1. RxFrames'
  BY DEF RxFrames
<1>2. NextUp' = NextUp /\ NextUp \in Int /\ NextUp <= NextUp
  <2>1. NextUp' = NextUp
    BY DEF NextUp
  <2>2. NextUp \in Int
    BY FrameTypes
  <2> QED
    BY <2>1, <2>2
<1>3. \A n : ForKernel(n) => ForKernel(n)'
  BY DEF ForKernel
<1>4. KernelFrames'
  BY <1>2, <1>3, KernelFramesKept
<1>5. ForwardFrames'
  BY <1>2, ForwardFramesKept
<1> QED
  BY <1>1, <1>4, <1>5

\* rte_eth_rx_burst moves the oldest packets of the ring into the burst.
LEMMA FramesEthRx ==
  ASSUME ShapeInv, ShapeInv', RxFrames, KernelFrames, ForwardFrames, EthRxBurst
  PROVE  RxFrames' /\ KernelFrames' /\ ForwardFrames'
<1>t. /\ total_packets \in Nat /\ rxdone \in Nat /\ kret \in Nat
      /\ nb_rx \in Nat /\ i \in Nat
  BY CountTypes
<1>0. PICK n : n = MinOf(MinOf(Burst, rxdone), Len(pool))
  OBVIOUS
<1>1. /\ rxdone' = rxdone - n /\ total_packets' = total_packets + n
      /\ nb_rx' = n /\ i' = 1 /\ pc = "rx" /\ kret' = kret
      /\ rxring' = SubSeq(rxring, n + 1, RxDesc) \o Allocated(pool, n)
      /\ bufs' = SubSeq(rxring, 1, n) \o SubSeq(bufs, n + 1, Len(bufs))
      /\ UNCHANGED <<frame, arrived, kern_in, fwd_out, kva, ki, rx_q>>
  BY <1>0 DEF EthRxBurst, fifos, kthread, world
<1>2. n \in Nat /\ n <= rxdone /\ n <= Len(pool)
  <2>1. Burst \in Nat /\ Len(pool) \in Nat
    BY SizeAssumption, Lengths
  <2> QED
    BY <2>1, <1>0, <1>t DEF MinOf
<1>3. i = nb_rx + 1 /\ kret = 0
  BY <1>1, CountTypes
<1>4. NextUp' = NextUp /\ NextUp \in Int /\ NextUp <= NextUp
  <2>1. NextUp' = NextUp
    BY <1>1, <1>2, <1>3, <1>t DEF NextUp
  <2>2. NextUp \in Int
    BY FrameTypes
  <2> QED
    BY <2>1, <2>2
<1>5. Waiting' = Waiting
  BY <1>1 DEF Waiting
<1>6. \A k : ForKernel(k) => ForKernel(k)'
  BY <1>1 DEF ForKernel
<1>7. KernelFrames'
  BY <1>1, <1>4, <1>5, <1>6, KernelFramesKept
<1>8. ForwardFrames'
  BY <1>1, <1>4, ForwardFramesKept
<1>9. rxring \in Seq(Mbufs) /\ Len(rxring) = RxDesc /\ rxdone <= RxDesc /\ RxDesc \in Nat
  <2>1. DriverType /\ RxDesc \in Nat
    BY SizeAssumption DEF ShapeInv, TypeOK
  <2> QED
    BY <2>1 DEF DriverType
<1>10. n \in 0..Len(rxring)
  BY <1>2, <1>9, <1>t
<1>11. \A k \in 1..rxdone - n : rxring'[k] = rxring[n + k]
  <2> DEFINE a == SubSeq(rxring, n + 1, Len(rxring))
             b == Allocated(pool, n)
  <2>1. /\ a \in Seq(Mbufs) /\ Len(a) = RxDesc - n
        /\ \A k \in 1..RxDesc - n : a[k] = rxring[n + k]
    BY <1>9, <1>10, CutType
  <2>2. b \in Seq(Mbufs)
    BY <1>2, PlaceTypes, GotParts
  <2>3. rxring' = a \o b
    BY <1>1, <1>9
  <2> HIDE DEF a, b
  <2>4. a \in Seq(Mbufs) /\ b \in Seq(Mbufs)
    BY <2>1, <2>2
  <2>5. /\ a \o b \in Seq(Mbufs) /\ Len(a \o b) = Len(a) + Len(b)
        /\ \A k \in 1..Len(a) : (a \o b)[k] = a[k]
        /\ \A k \in 1..Len(b) : (a \o b)[Len(a) + k] = b[k]
    BY <2>4, JoinType
  <2>6. \A k \in 1..rxdone - n : k \in 1..RxDesc - n
    BY <1>2, <1>9, <1>t
  <2> QED
    BY <2>1, <2>3, <2>5, <2>6
<1>12. \A k \in 1..n : bufs'[k] = rxring[k]
  <2>0. PICK a : a = SubSeq(rxring, 1, n)
    OBVIOUS
  <2>1. a \in Seq(Mbufs) /\ Len(a) = n /\ \A k \in 1..n : a[k] = rxring[k]
    BY <2>0, <1>9, <1>10, CutType
  <2>2. PICK b : b = SubSeq(bufs, n + 1, Len(bufs))
    OBVIOUS
  <2>3. b \in Seq(Mbufs)
    <3>1. bufs \in Seq(Mbufs)
      BY DEF ShapeInv, TypeOK, LoopType
    <3> QED
      BY <2>2, <3>1, <1>2
  <2>4. bufs' = a \o b
    BY <2>0, <2>2, <1>1
  <2>5. a \in Seq(Mbufs) /\ b \in Seq(Mbufs)
    BY <2>1, <2>3
  <2>6. /\ a \o b \in Seq(Mbufs) /\ Len(a \o b) = Len(a) + Len(b)
        /\ \A k \in 1..Len(a) : (a \o b)[k] = a[k]
        /\ \A k \in 1..Len(b) : (a \o b)[Len(a) + k] = b[k]
    BY <2>5, JoinType
  <2> QED
    BY <2>1, <2>4, <2>6
<1>13. ASSUME NEW k \in 1..rxdone' PROVE frame'[rxring'[k]] = total_packets' + k
  <2>1. k \in 1..rxdone - n /\ n + k \in 1..rxdone /\ k \in Nat
    BY <1>1, <1>2, <1>t
  <2>2. frame[rxring[n + k]] = total_packets + (n + k)
    BY <2>1 DEF RxFrames
  <2>3. frame'[rxring'[k]] = total_packets + (n + k)
    BY <2>1, <2>2, <1>1, <1>11
  <2>4. total_packets' = total_packets + n /\ total_packets \in Nat /\ n \in Nat
    BY <1>1, <1>2, <1>t
  <2>5. total_packets + (n + k) = (total_packets + n) + k
    BY <2>1, <2>4
  <2> QED
    BY <2>3, <2>4, <2>5
<1>14. ASSUME NEW k \in i' + kret'..nb_rx'
       PROVE  frame'[bufs'[k]] = total_packets' - nb_rx' + k
  <2>1. k \in 1..n /\ k \in 1..rxdone /\ k \in Nat
    BY <1>1, <1>2, <1>3, <1>t
  <2>2. frame[rxring[k]] = total_packets + k
    BY <2>1 DEF RxFrames
  <2>3. frame'[bufs'[k]] = total_packets + k
    BY <2>1, <2>2, <1>1, <1>12
  <2> QED
    BY <2>1, <2>3, <1>1, <1>2, <1>t
<1>15. nb_rx' <= total_packets'
  BY <1>1, <1>2, <1>t
<1>16. RxFrames'
  BY <1>13, <1>14, <1>15 DEF RxFrames
<1> QED
  BY <1>7, <1>8, <1>16

\* The packet the loop is at: its mbuf holds the packet NextUp.
LEMMA PacketAt ==
  ASSUME ShapeInv, Counted, RxFrames, pc = "pkt", i <= nb_rx
  PROVE  /\ kret = 0 /\ frame[bufs[i]] = NextUp /\ NextUp \in DOMAIN arrived
         /\ Content(bufs[i]) = arrived[NextUp]
<1>t. /\ total_packets \in Nat /\ rxdone \in Nat /\ kret \in Nat
      /\ nb_rx \in Nat /\ i \in Nat /\ 1 <= i /\ Len(arrived) \in Nat
  BY CountTypes
<1>1. kret = 0
  BY CountTypes
<1>2. NextUp = total_packets - nb_rx + i
  BY <1>1, <1>t DEF NextUp
<1>3. i \in i + kret..nb_rx
  BY <1>1, <1>t
<1>4. frame[bufs[i]] = NextUp
  BY <1>2, <1>3 DEF RxFrames
<1>5. nb_rx <= total_packets /\ total_packets + rxdone = Len(arrived)
  BY DEF RxFrames, Counted
<1>6. NextUp \in 1..Len(arrived) /\ NextUp # 0
  BY <1>2, <1>5, <1>t
<1>7. DOMAIN arrived = 1..Len(arrived)
  BY DEF ShapeInv, TypeOK, WorldType
<1>8. Content(bufs[i]) = arrived[NextUp]
  BY <1>4, <1>6 DEF Content
<1> QED
  BY <1>1, <1>4, <1>6, <1>7, <1>8

\* The rest of a range.
LEMMA RangeRest ==
  ASSUME NEW a \in Nat, NEW b \in Nat, NEW n \in Nat, NEW t \in Nat, a <= b
  PROVE  /\ \A k \in b..n : k \in a..n
         /\ t - n + b \in Int /\ t - n + a <= t - n + b
OBVIOUS

\* Once bufs[i] is disposed of, the rest of the burst begins one further, or at the
\* same place if rte_kni_tx_burst had taken bufs[i].
LEMMA RxFramesShrink ==
  ASSUME RxFrames, UNCHANGED <<total_packets, nb_rx, rxdone, rxring, bufs, frame>>,
         NEW a \in Nat, NEW b \in Nat, a <= b, nb_rx \in Nat, total_packets \in Nat,
         a = i + kret, b = i' + kret',
         NextUp = total_packets - nb_rx + a, NextUp' = total_packets - nb_rx + b
  PROVE  RxFrames' /\ NextUp' \in Int /\ NextUp <= NextUp'
<1>1. \A k \in b..nb_rx : k \in a..nb_rx
  BY RangeRest
<1>2. \A k \in b..nb_rx : frame[bufs[k]] = total_packets - nb_rx + k
  BY <1>1 DEF RxFrames
<1>3. RxFrames'
  BY <1>2 DEF RxFrames
<1>4. NextUp' \in Int /\ NextUp <= NextUp'
  BY RangeRest
<1> QED
  BY <1>3, <1>4

\* A packet is forwarded, dropped, or handed to rx_q.
LEMMA FramesPackets ==
  ASSUME ShapeInv, ShapeInv', Counted, RxFrames, KernelFrames, ForwardFrames,
         ForwardPacket \/ FreePacket \/ KniFreeMbufs
  PROVE  RxFrames' /\ KernelFrames' /\ ForwardFrames'
<1>t. /\ total_packets \in Nat /\ kret \in Nat /\ kret <= 1 /\ nb_rx \in Nat /\ i \in Nat
  BY CountTypes
<1>1. /\ UNCHANGED <<total_packets, nb_rx, rxdone, rxring, bufs, frame>>
      /\ UNCHANGED <<arrived, kern_in, kva, ki, rx_q>>
      /\ i' = i + 1
  BY DEF ForwardPacket, FreePacket, KniFreeMbufs, stats, rxq, fifos, kthread, world
<1>2. kret' = 0
  <2>1. CASE ForwardPacket \/ FreePacket
    BY <2>1, CountTypes DEF ForwardPacket, FreePacket, AtPacket
  <2>2. CASE KniFreeMbufs
    BY <2>2 DEF KniFreeMbufs
  <2> QED
    BY <2>1, <2>2
<1>3. PICK a \in Nat : a = i + kret
  BY <1>t
<1>4. RxFrames' /\ NextUp' \in Int /\ NextUp <= NextUp'
  <2>1. PICK b \in Nat : b = i + 1
    BY <1>t
  <2>2. b = i' + kret'
    BY <2>1, <1>1, <1>2, <1>t
  <2>3. a <= b
    BY <2>1, <1>3, <1>t
  <2>4. NextUp = total_packets - nb_rx + a
    BY <1>3, <1>t DEF NextUp
  <2>5. NextUp' = total_packets - nb_rx + b
    <3>1. NextUp' = total_packets - nb_rx + (i + 1) + 0
      BY <1>1, <1>2 DEF NextUp
    <3> QED
      BY <2>1, <3>1, <1>t
  <2> QED
    BY <2>2, <2>3, <2>4, <2>5, <1>1, <1>3, <1>t, RxFramesShrink
<1>5. Waiting' = Waiting
  BY <1>1 DEF Waiting
<1>6. \A n : ForKernel(n) => ForKernel(n)'
  BY <1>1 DEF ForKernel
<1>7. KernelFrames'
  BY <1>1, <1>4, <1>5, <1>6, KernelFramesKept
<1>8. ForwardFrames'
  <2>1. CASE fwd_out' = fwd_out
    BY <2>1, <1>4, ForwardFramesKept
  <2>2. CASE ForwardPacket /\ fwd_out' = Append(fwd_out, frame[bufs[i]])
    <3>1. kret = 0 /\ frame[bufs[i]] = NextUp
      BY <2>2, PacketAt DEF ForwardPacket, AtPacket
    <3>2. NextUp' = NextUp + 1 /\ NextUp \in Int
      <4>1. NextUp' = total_packets - nb_rx + (i + 1) + 0
        BY <1>1, <1>2 DEF NextUp
      <4>2. NextUp = total_packets - nb_rx + i + 0
        BY <3>1 DEF NextUp
      <4> QED
        BY <4>1, <4>2, <1>t
    <3>3. fwd_out \in Seq(Nat) /\ NextUp \in Nat
      <4>1. fwd_out \in Seq(Nat)
        BY DEF ShapeInv, TypeOK, WorldType
      <4>2. bufs[i] \in Mbufs
        BY <2>2, <3>1, PendingHead DEF ForwardPacket, AtPacket
      <4>3. frame[bufs[i]] \in Nat
        BY <4>2, FrameTypes
      <4> QED
        BY <3>1, <4>1, <4>3
    <3>4. PICK n : n = NextUp
      OBVIOUS
    <3>5. /\ Len(Append(fwd_out, n)) = Len(fwd_out) + 1 /\ Len(fwd_out) \in Nat
          /\ \A k \in 1..Len(fwd_out) : Append(fwd_out, n)[k] = fwd_out[k]
          /\ Append(fwd_out, n)[Len(fwd_out) + 1] = n
      BY <3>3, <3>4
    <3>6. fwd_out' = Append(fwd_out, n)
      BY <2>2, <3>1, <3>4
    <3>7. ASSUME NEW k \in 1..Len(fwd_out') PROVE fwd_out'[k] < NextUp'
      <4>1. CASE k \in 1..Len(fwd_out)
        <5>1. fwd_out[k] \in Nat /\ fwd_out[k] < NextUp
          BY <4>1, FrameTypes DEF ForwardFrames
        <5>2. fwd_out'[k] = fwd_out[k]
          BY <4>1, <3>5, <3>6
        <5> QED
          BY <5>1, <5>2, <3>2
      <4>2. CASE k = Len(fwd_out) + 1
        <5>1. fwd_out'[k] = NextUp
          BY <4>2, <3>4, <3>5, <3>6
        <5> QED
          BY <5>1, <3>2
      <4>3. k \in 1..Len(fwd_out) + 1
        BY <3>5, <3>6
      <4> QED
        BY <4>1, <4>2, <4>3, <3>5
    <3> QED
      BY <3>7 DEF ForwardFrames
  <2>3. fwd_out' = fwd_out \/ (ForwardPacket /\ fwd_out' = Append(fwd_out, frame[bufs[i]]))
    BY DEF ForwardPacket, FreePacket, KniFreeMbufs, world
  <2> QED
    BY <2>1, <2>2, <2>3
<1> QED
  BY <1>4, <1>7, <1>8

LEMMA FramesKniTx ==
  ASSUME ShapeInv, ShapeInv', Counted, RxFrames, KernelFrames, ForwardFrames, KniTxBurst
  PROVE  RxFrames' /\ KernelFrames' /\ ForwardFrames'
<1>t. /\ total_packets \in Nat /\ kret \in Nat /\ kret <= 1 /\ nb_rx \in Nat /\ i \in Nat
  BY CountTypes
<1>1. /\ UNCHANGED <<total_packets, nb_rx, rxdone, rxring, bufs, frame, i>>
      /\ UNCHANGED <<arrived, kern_in, fwd_out>>
      /\ pc = "pkt" /\ i <= nb_rx
      /\ should_forward(FilterList, Content(bufs[i])) = FALSE
  BY DEF KniTxBurst, AtPacket, stats, rxq, world
<1>2. /\ kret = 0 /\ kret' \in 0..1 /\ Len(Waiting) \in Nat
      /\ Len(Waiting') = Len(Waiting) + kret'
      /\ \A k \in 1..Len(Waiting) : Waiting'[k] = Waiting[k]
      /\ kret' = 1 => Waiting'[Len(Waiting) + 1] = bufs[i]
  BY WaitingPut
<1>3. RxFrames' /\ NextUp' \in Int /\ NextUp <= NextUp'
  <2>1. PICK r \in Nat : r = kret'
    BY <1>2
  <2>2. PICK b \in Nat : b = i + r
    BY <1>t
  <2>3. PICK a \in Nat : a = i
    BY <1>t
  <2>4. a <= b
    BY <2>2, <2>3
  <2>5. a = i + kret /\ b = i' + kret'
    BY <2>1, <2>2, <2>3, <1>1, <1>2, <1>t
  <2>6. NextUp = total_packets - nb_rx + a
    BY <2>3, <1>2, <1>t DEF NextUp
  <2>7. NextUp' = total_packets - nb_rx + b
    <3>1. NextUp' = total_packets - nb_rx + i + r
      BY <1>1, <2>1 DEF NextUp
    <3> QED
      BY <2>2, <3>1, <1>t
  <2> QED
    BY <2>4, <2>5, <2>6, <2>7, <1>1, <1>t, RxFramesShrink
<1>4. ForwardFrames'
  BY <1>1, <1>3, ForwardFramesKept
<1>5. \A n : ForKernel(n) => ForKernel(n)'
  BY <1>1 DEF ForKernel
<1>6. CASE kret' = 0
  <2>1. Len(Waiting') = Len(Waiting)
    BY <1>2, <1>6
  <2> QED
    BY <1>1, <1>2, <1>3, <1>4, <1>5, <2>1, KernelFramesKept
<1>7. CASE kret' = 1
  <2>1. /\ frame[bufs[i]] = NextUp /\ NextUp \in DOMAIN arrived
        /\ Content(bufs[i]) = arrived[NextUp]
    BY <1>1, PacketAt
  <2>2. NextUp' = NextUp + 1 /\ NextUp \in Int
    <3>1. NextUp' = total_packets - nb_rx + i + 1
      BY <1>1, <1>7 DEF NextUp
    <3>2. NextUp = total_packets - nb_rx + i + 0
      BY <1>2 DEF NextUp
    <3> QED
      BY <3>1, <3>2, <1>t
  <2>3. PICK w : w = Len(Waiting)
    OBVIOUS
  <2>4. w \in Nat /\ Len(Waiting') = w + 1
    BY <1>2, <1>7, <2>3
  <2>5. ASSUME NEW k \in 1..w
        PROVE  /\ frame'[Waiting'[k]] = frame[Waiting[k]] /\ frame[Waiting[k]] \in Nat
               /\ ForKernel(frame[Waiting[k]]) /\ frame[Waiting[k]] < NextUp
               /\ \A j \in 1..k - 1 : frame[Waiting[j]] < frame[Waiting[k]]
               /\ \A j \in 1..Len(kern_in) : kern_in[j] < frame[Waiting[k]]
    <3>1. frame'[Waiting'[k]] = frame[Waiting[k]] /\ frame[Waiting[k]] \in Nat
      BY <1>1, <1>2, <2>3, FrameTypes
    <3> QED
      BY <3>1, <2>3 DEF KernelFrames
  <2>6. ASSUME NEW k \in 1..w + 1
        PROVE  /\ ForKernel(frame'[Waiting'[k]]) /\ frame'[Waiting'[k]] < NextUp'
               /\ \A j \in 1..k - 1 : frame'[Waiting'[j]] < frame'[Waiting'[k]]
               /\ \A j \in 1..Len(kern_in) : kern_in[j] < frame'[Waiting'[k]]
    <3>1. CASE k \in 1..w
      <4>1. \A j \in 1..k - 1 : frame'[Waiting'[j]] = frame[Waiting[j]]
        <5>1. \A j \in 1..k - 1 : j \in 1..w
          BY <3>1, <2>4
        <5> QED
          BY <2>5, <5>1
      <4>2. frame'[Waiting'[k]] < NextUp'
        BY <3>1, <2>2, <2>5
      <4> QED
        BY <3>1, <2>5, <4>1, <4>2
    <3>2. CASE k = w + 1
      <4>1. frame'[Waiting'[k]] = NextUp
        BY <3>2, <1>1, <1>2, <1>7, <2>1, <2>3
      <4>2. ForKernel(NextUp)
        BY <1>1, <2>1 DEF ForKernel
      <4>3. \A j \in 1..k - 1 : frame'[Waiting'[j]] < NextUp
        <5>1. \A j \in 1..k - 1 : j \in 1..w
          BY <3>2, <2>4
        <5> QED
          BY <2>5, <5>1
      <4>4. \A j \in 1..Len(kern_in) : kern_in[j] < NextUp
        BY DEF KernelFrames
      <4>5. NextUp < NextUp'
        BY <2>2
      <4> QED
        BY <4>1, <4>2, <4>3, <4>4, <4>5
    <3> QED
      BY <3>1, <3>2, <2>4
  <2>7. ASSUME NEW k \in 1..Len(kern_in) PROVE kern_in[k] < NextUp'
    <3>1. kern_in[k] \in Nat /\ kern_in[k] < NextUp
      BY FrameTypes DEF KernelFrames
    <3> QED
      BY <3>1, <2>2
  <2>8. KernelFrames'
    BY <1>1, <2>4, <2>6, <2>7 DEF KernelFrames, ForKernel
  <2> QED
    BY <1>3, <1>4, <2>8
<1> QED
  BY <1>2, <1>6, <1>7

\* The kernel delivers the first packet that waits, or drops it.
LEMMA FramesSkb ==
  ASSUME ShapeInv, ShapeInv', RxFrames, KernelFrames, ForwardFrames, KniNetRxSkb
  PROVE  RxFrames' /\ KernelFrames' /\ ForwardFrames'
<1>1. /\ UNCHANGED <<total_packets, nb_rx, rxdone, rxring, bufs, frame, i, kret>>
      /\ UNCHANGED <<arrived, fwd_out>>
      /\ kern_in' = kern_in \/ kern_in' = Append(kern_in, frame[kva[ki]])
  BY DEF KniNetRxSkb, lcore, stats, rxq
<1>2. NextUp' = NextUp /\ RxFrames' /\ ForwardFrames'
  BY <1>1 DEF NextUp, RxFrames, ForwardFrames
<1>3. PICK w : w = Len(Waiting)
  OBVIOUS
<1>4. /\ w \in Nat /\ w >= 1 /\ Len(Waiting') = w - 1 /\ Waiting[1] = kva[ki]
      /\ \A k \in 1..w - 1 : Waiting'[k] = Waiting[k + 1]
  BY <1>3, WaitingTail
<1>5. ASSUME NEW k \in 1..w
      PROVE  /\ ForKernel(frame[Waiting[k]]) /\ frame[Waiting[k]] < NextUp
             /\ \A j \in 1..k - 1 : frame[Waiting[j]] < frame[Waiting[k]]
             /\ \A j \in 1..Len(kern_in) : kern_in[j] < frame[Waiting[k]]
  BY <1>3 DEF KernelFrames
<1>6. PICK f : f = frame[Waiting[1]]
  OBVIOUS
<1>7. f \in Nat /\ f < NextUp
  <2>1. 1 \in 1..w
    BY <1>4
  <2> QED
    BY <2>1, <1>3, <1>5, <1>6, FrameTypes
<1>8. ASSUME NEW k \in 1..Len(kern_in')
      PROVE  /\ kern_in'[k] < NextUp
             /\ \A j \in 2..w : kern_in'[k] < frame[Waiting[j]]
  <2>0. kern_in \in Seq(Nat) /\ Len(kern_in) \in Nat
    BY DEF ShapeInv, TypeOK, WorldType
  <2>1. \A j \in 2..w : j \in 1..w /\ 1 \in 1..j - 1
    BY <1>4
  <2>2. CASE k \in 1..Len(kern_in) /\ kern_in'[k] = kern_in[k]
    BY <2>1, <2>2, <1>5 DEF KernelFrames
  <2>3. CASE kern_in'[k] = f
    <3>1. \A j \in 2..w : f < frame[Waiting[j]]
      BY <2>1, <1>5, <1>6
    <3> QED
      BY <2>3, <3>1, <1>7
  <2>4. CASE kern_in' = kern_in
    BY <2>2, <2>4
  <2>5. CASE kern_in' = Append(kern_in, frame[kva[ki]])
    <3>1. kern_in' = Append(kern_in, f)
      BY <2>5, <1>4, <1>6
    <3>2. /\ Len(Append(kern_in, f)) = Len(kern_in) + 1
          /\ \A j \in 1..Len(kern_in) : Append(kern_in, f)[j] = kern_in[j]
          /\ Append(kern_in, f)[Len(kern_in) + 1] = f
      BY <2>0, <1>7
    <3>3. k \in 1..Len(kern_in) \/ k = Len(kern_in) + 1
      BY <2>0, <3>1, <3>2
    <3> QED
      BY <2>2, <2>3, <3>1, <3>2, <3>3
  <2> QED
    BY <1>1, <2>4, <2>5
<1>9. ASSUME NEW k \in 1..w - 1
      PROVE  /\ ForKernel(frame'[Waiting'[k]]) /\ frame'[Waiting'[k]] < NextUp
             /\ \A j \in 1..k - 1 : frame'[Waiting'[j]] < frame'[Waiting'[k]]
             /\ \A j \in 1..Len(kern_in') : kern_in'[j] < frame'[Waiting'[k]]
  <2>1. k + 1 \in 1..w /\ k + 1 \in 2..w
    BY <1>4
  <2>2. frame'[Waiting'[k]] = frame[Waiting[k + 1]]
    BY <1>1, <1>4
  <2>3. ASSUME NEW j \in 1..k - 1 PROVE frame'[Waiting'[j]] < frame'[Waiting'[k]]
    <3>1. j \in 1..w - 1 /\ j + 1 \in 1..(k + 1) - 1
      BY <1>4
    <3>2. frame'[Waiting'[j]] = frame[Waiting[j + 1]]
      BY <1>1, <1>4, <3>1
    <3> QED
      BY <1>5, <2>1, <2>2, <3>1, <3>2
  <2> QED
    BY <1>5, <1>8, <2>1, <2>2, <2>3
<1>10. KernelFrames'
  BY <1>1, <1>2, <1>4, <1>8, <1>9 DEF KernelFrames, ForKernel
<1> QED
  BY <1>2, <1>10

\* The NIC writes the next packet into an mbuf that holds none of the others.
LEMMA FramesNic ==
  ASSUME ShapeInv, ShapeInv', Counted, OneHolder(Held), RxFrames, KernelFrames,
         ForwardFrames, NicReceive
  PROVE  RxFrames' /\ KernelFrames' /\ ForwardFrames'
<1>t. total_packets \in Nat /\ rxdone \in Nat /\ Len(arrived) \in Nat
  BY CountTypes
<1>1. /\ UNCHANGED <<total_packets, nb_rx, i, kret, rxring, bufs>>
      /\ UNCHANGED <<kern_in, fwd_out, kva, ki, rx_q>>
      /\ rxdone' = rxdone + 1 /\ rxdone < RxDesc - 1 - rx_hold
      /\ frame' = [frame EXCEPT ![rxring[rxdone + 1]] = Len(arrived) + 1]
      /\ \E p \in Packets : arrived' = Append(arrived, p)
  BY DEF NicReceive, lcore, stats, fifos, kthread
<1>2. PICK m : m = rxring[rxdone + 1]
  OBVIOUS
<1>3. rxring \in Seq(Mbufs) /\ Len(rxring) = RxDesc /\ RxDesc \in Nat /\ rx_hold \in Nat
  <2>1. DriverType /\ RxDesc \in Nat /\ RxFreeThresh \in Nat
    BY SizeAssumption DEF ShapeInv, TypeOK
  <2> QED
    BY <2>1 DEF DriverType
<1>4. rxdone + 1 \in 1..RxDesc
  BY <1>1, <1>3, <1>t
<1>5. m \in Mbufs /\ m \in Range(rxring)
  BY <1>2, <1>3, <1>4 DEF Range
<1>6. /\ frame'[m] = Len(arrived) + 1
      /\ \A x \in Mbufs : x # m => frame'[x] = frame[x]
  <2>1. frame \in [Mbufs -> 0..Len(arrived)]
    BY DEF ShapeInv, TypeOK, WorldType
  <2> QED
    BY <1>1, <1>2, <1>5, <2>1
<1>7. /\ \A k \in i + kret..nb_rx : bufs[k] # m
      /\ \A k \in 1..Len(Waiting) : Waiting[k] # m
  BY <1>5, WrittenElsewhere
<1>8. ASSUME NEW k \in 1..rxdone' PROVE frame'[rxring'[k]] = total_packets' + k
  <2>1. CASE k = rxdone + 1
    <3>1. frame'[rxring'[k]] = Len(arrived) + 1
      BY <2>1, <1>1, <1>2, <1>6
    <3>2. total_packets + rxdone = Len(arrived)
      BY DEF Counted
    <3>3. total_packets + (rxdone + 1) = Len(arrived) + 1
      BY <3>2, <1>t
    <3> QED
      BY <2>1, <3>1, <3>3, <1>1
  <2>2. CASE k # rxdone + 1
    <3>1. k \in 1..rxdone /\ k \in 1..RxDesc
      <4>1. k \in 1..rxdone + 1
        BY <1>1
      <4> QED
        BY <2>2, <4>1, <1>3, <1>4, <1>t
    <3>2. IsInjective(rxring)
      BY HeldPlaces DEF OneHolder, Places
    <3>3. rxring[k] # m /\ rxring[k] \in Mbufs
      BY <2>2, <3>1, <3>2, <1>2, <1>3, <1>4 DEF IsInjective
    <3> QED
      BY <3>1, <3>3, <1>1, <1>6 DEF RxFrames
  <2> QED
    BY <2>1, <2>2
<1>9. ASSUME NEW k \in i' + kret'..nb_rx'
      PROVE  frame'[bufs'[k]] = total_packets' - nb_rx' + k
  <2>1. k \in i + kret..nb_rx
    BY <1>1
  <2>2. bufs[k] \in Mbufs
    <3>1. nb_rx \in Nat /\ i \in Nat /\ 1 <= i /\ kret \in Nat
      BY CountTypes
    <3>2. bufs \in Seq(Mbufs) /\ nb_rx <= Len(bufs)
      BY DEF ShapeInv, TypeOK, LoopType
    <3>3. k \in 1..Len(bufs)
      BY <2>1, <3>1, <3>2
    <3> QED
      BY <3>2, <3>3
  <2> QED
    BY <2>1, <2>2, <1>1, <1>6, <1>7 DEF RxFrames
<1>10. RxFrames'
  BY <1>1, <1>8, <1>9 DEF RxFrames
<1>11. NextUp' = NextUp /\ NextUp \in Int /\ NextUp <= NextUp
  <2>1. NextUp' = NextUp
    BY <1>1 DEF NextUp
  <2>2. NextUp \in Int
    BY FrameTypes
  <2> QED
    BY <2>1, <2>2
<1>12. \A n : ForKernel(n) => ForKernel(n)'
  <2>1. PICK p \in Packets : arrived' = Append(arrived, p)
    BY <1>1
  <2>2. arrived \in Seq(Packets)
    BY DEF ShapeInv, TypeOK, WorldType
  <2>3. \A n \in DOMAIN arrived : n \in DOMAIN arrived' /\ arrived'[n] = arrived[n]
    BY <2>1, <2>2
  <2> QED
    BY <2>3 DEF ForKernel
<1>13. Waiting' = Waiting
  BY <1>1 DEF Waiting
<1>14. \A k \in 1..Len(Waiting) : frame'[Waiting[k]] = frame[Waiting[k]]
  BY <1>6, <1>7, FrameTypes
<1>15. KernelFrames'
  BY <1>1, <1>11, <1>12, <1>13, <1>14, KernelFramesKept
<1>16. ForwardFrames'
  BY <1>1, <1>11, ForwardFramesKept
<1> QED
  BY <1>10, <1>15, <1>16

\* So does the kernel when it fills an mbuf of alloc_q.
LEMMA FramesTxGet ==
  ASSUME ShapeInv, ShapeInv', OneHolder(Held), RxFrames, KernelFrames, ForwardFrames,
         KniNetTxGet
  PROVE  RxFrames' /\ KernelFrames' /\ ForwardFrames'
<1>1. /\ UNCHANGED <<total_packets, nb_rx, i, kret, rxring, rxdone, bufs>>
      /\ UNCHANGED <<arrived, kern_in, fwd_out, kva, ki, rx_q>>
      /\ Len(alloc_q) > 0 /\ frame' = [frame EXCEPT ![alloc_q[1]] = 0]
  BY DEF KniNetTxGet, lcore, stats, rxq, kthread, world
<1>2. PICK m : m = alloc_q[1]
  OBVIOUS
<1>3. m \in Mbufs /\ m \in Range(alloc_q)
  <2>1. alloc_q \in Seq(Mbufs)
    BY PlaceTypes
  <2> QED
    BY <2>1, <1>1, <1>2 DEF Range
<1>4. \A x \in Mbufs : x # m => frame'[x] = frame[x]
  <2>1. frame \in [Mbufs -> 0..Len(arrived)]
    BY DEF ShapeInv, TypeOK, WorldType
  <2> QED
    BY <1>1, <1>2, <1>3, <2>1
<1>5. /\ \A k \in i + kret..nb_rx : bufs[k] # m
      /\ \A k \in 1..Len(Waiting) : Waiting[k] # m
      /\ \A k \in 1..RxDesc : rxring[k] # m
  BY <1>3, WrittenElsewhere
<1>6. ASSUME NEW k \in 1..rxdone PROVE frame'[rxring[k]] = total_packets + k
  <2>1. DriverType /\ RxDesc \in Nat
    BY SizeAssumption DEF ShapeInv, TypeOK
  <2>2. k \in 1..RxDesc /\ rxring[k] \in Mbufs
    BY <2>1 DEF DriverType
  <2> QED
    BY <2>2, <1>4, <1>5 DEF RxFrames
<1>7. ASSUME NEW k \in i + kret..nb_rx
      PROVE  frame'[bufs[k]] = total_packets - nb_rx + k
  <2>1. bufs[k] \in Mbufs
    <3>1. nb_rx \in Nat /\ i \in Nat /\ 1 <= i /\ kret \in Nat
      BY CountTypes
    <3>2. bufs \in Seq(Mbufs) /\ nb_rx <= Len(bufs)
      BY DEF ShapeInv, TypeOK, LoopType
    <3>3. k \in 1..Len(bufs)
      BY <3>1, <3>2
    <3> QED
      BY <3>2, <3>3
  <2> QED
    BY <2>1, <1>4, <1>5 DEF RxFrames
<1>8. RxFrames'
  BY <1>1, <1>6, <1>7 DEF RxFrames
<1>9. NextUp' = NextUp /\ NextUp \in Int /\ NextUp <= NextUp
  <2>1. NextUp' = NextUp
    BY <1>1 DEF NextUp
  <2>2. NextUp \in Int
    BY FrameTypes
  <2> QED
    BY <2>1, <2>2
<1>10. \A n : ForKernel(n) => ForKernel(n)'
  BY <1>1 DEF ForKernel
<1>11. Waiting' = Waiting
  BY <1>1 DEF Waiting
<1>12. \A k \in 1..Len(Waiting) : frame'[Waiting[k]] = frame[Waiting[k]]
  BY <1>4, <1>5, FrameTypes
<1>13. KernelFrames'
  BY <1>1, <1>9, <1>10, <1>11, <1>12, KernelFramesKept
<1>14. ForwardFrames'
  BY <1>1, <1>9, ForwardFramesKept
<1> QED
  BY <1>8, <1>13, <1>14

\* A wild free is never undone.
LEMMA WildStays == [Next]_vars /\ ~ wild' => ~ wild
BY DEF Next, Lcore, KernelThread, KernelSend, LoopTest, KniRxBurst, KniAllocate,
       KniRefill, EthTxBurst, EthTxRefused, EthRxBurst, ForwardPacket, FreePacket,
       KniTxBurst, KniFreeMbufs, EndBurst, KniNetRxCount, KniNetRxGet, KniNetRxSkb,
       KniNetRxPut, KniNetTxGet, KniNetTxPut, signal_handler, NicReceive, NicTransmit,
       vars, history

\* Every step keeps the packets in order.
LEMMA FramesStep ==
  ShapeInv /\ ShapeInv' /\ Custody /\ Counted /\ FramesInOrder /\ [Next]_vars
    => FramesInOrder'
<1> SUFFICES ASSUME ShapeInv, ShapeInv', Custody, Counted, FramesInOrder, [Next]_vars,
                    ~ wild'
             PROVE  RxFrames' /\ KernelFrames' /\ ForwardFrames'
  BY DEF FramesInOrder
<1>0. OneHolder(Held) /\ RxFrames /\ KernelFrames /\ ForwardFrames
  BY WildStays DEF Custody, FramesInOrder
<1>1. CASE EthRxBurst
  BY <1>0, <1>1, FramesEthRx
<1>2. CASE ForwardPacket \/ FreePacket \/ KniFreeMbufs
  BY <1>0, <1>2, FramesPackets
<1>3. CASE KniTxBurst
  BY <1>0, <1>3, FramesKniTx
<1>4. CASE KniNetRxSkb
  BY <1>0, <1>4, FramesSkb
<1>5. CASE NicReceive
  BY <1>0, <1>5, FramesNic
<1>6. CASE KniNetTxGet
  BY <1>0, <1>6, FramesTxGet
<1>7. CASE KniNetRxGet \/ KniNetRxPut
  <2>1. /\ UNCHANGED <<total_packets, nb_rx, i, kret, rxdone, rxring, bufs>>
        /\ UNCHANGED <<frame, arrived, kern_in, fwd_out>>
    BY <1>7 DEF KniNetRxGet, KniNetRxPut, lcore, stats, rxq, world
  <2>2. Waiting' = Waiting
    BY <1>7, WaitingKept
  <2> QED
    BY <1>0, <2>1, <2>2, FramesUntouched
<1>8. CASE \/ LoopTest \/ EndBurst \/ signal_handler \/ KniRxBurst \/ KniAllocate
           \/ KniRefill \/ EthTxBurst \/ EthTxRefused \/ KniNetRxCount
           \/ KniNetTxPut \/ NicTransmit \/ UNCHANGED vars
  <2>1. UNCHANGED <<total_packets, nb_rx, i, kret, rxdone, rxring, bufs>>
    BY <1>8 DEF LoopTest, EndBurst, signal_handler, KniRxBurst, KniAllocate, KniRefill,
                EthTxBurst, EthTxRefused, KniNetRxCount, KniNetTxPut, NicTransmit,
                vars, lcore, stats, rxq
  <2>2. UNCHANGED <<frame, arrived, kern_in, fwd_out, kva, ki, rx_q>>
    BY <1>8 DEF LoopTest, EndBurst, signal_handler, KniRxBurst, KniAllocate, KniRefill,
                EthTxBurst, EthTxRefused, KniNetRxCount, KniNetTxPut, NicTransmit,
                vars, fifos, kthread, world
  <2>3. Waiting' = Waiting
    BY <2>2 DEF Waiting
  <2> QED
    BY <1>0, <2>1, <2>2, <2>3, FramesUntouched
<1> QED
  BY <1>1, <1>2, <1>3, <1>4, <1>5, <1>6, <1>7, <1>8
     DEF Next, Lcore, KernelThread, KernelSend

\* Until a wild free has happened, every packet stays in the mbuf it was stored in
\* until it is disposed of, and the packets stay in the order in which they arrived.
THEOREM FramesAlwaysInOrder == Spec => []FramesInOrder
<1> DEFINE Inv == ShapeInv /\ Custody /\ Counted /\ FramesInOrder
<1>1. Init => Inv
  BY InitShape, InitCustody, InitCounted, InitFrames
<1>2. Inv /\ [Next]_vars => Inv'
  BY ShapeStep, CustodyStep, CountStep, FramesStep
<1>3. Inv => FramesInOrder
  OBVIOUS
<1> QED
  BY <1>1, <1>2, <1>3, PTL DEF Spec

\* The abstract specification decides as the loop does.
LEMMA SameDecision ==
  \A rules, pkt : Filter!should_forward(rules, pkt) <=> should_forward(rules, pkt)
BY DEF should_forward, Filter!should_forward, match_filter_rule,
       Filter!match_filter_rule, RuleHits, Filter!RuleHits

\* A step of the loop, the kernel or the NIC is a step of the filter, or none.
LEMMA FilterStep ==
  ASSUME ShapeInv, ShapeInv', Counted, FramesInOrder, ~ wild, [Next]_vars
  PROVE  [Filter!Next]_Filter!vars
<1>0. RxFrames /\ KernelFrames /\ ForwardFrames
  BY DEF FramesInOrder
<1>1. CASE NicReceive
  BY <1>1 DEF NicReceive, Filter!Next, Filter!Arrive
<1>2. CASE ForwardPacket
  <2>1. CASE fwd_out' = fwd_out
    BY <1>2, <2>1 DEF ForwardPacket, Filter!vars
  <2>2. CASE fwd_out' = Append(fwd_out, frame[bufs[i]])
    <3>1. /\ frame[bufs[i]] = NextUp /\ NextUp \in DOMAIN arrived
          /\ Content(bufs[i]) = arrived[NextUp]
      BY <1>0, <1>2, PacketAt DEF ForwardPacket, AtPacket
    <3>2. PICK n : n = NextUp
      OBVIOUS
    <3>3. should_forward(FilterList, arrived[n])
      BY <1>2, <3>1, <3>2 DEF ForwardPacket, AtPacket
    <3>4. DOMAIN fwd_out = 1..Len(fwd_out)
      BY DEF ShapeInv, TypeOK, WorldType
    <3>5. Filter!InOrder(fwd_out, n)
      BY <1>0, <3>2, <3>4 DEF Filter!InOrder, ForwardFrames
    <3>6. UNCHANGED <<arrived, kern_in>>
      BY <1>2 DEF ForwardPacket
    <3>7. Filter!should_forward(FilterList, arrived[n])
      BY <3>3, SameDecision
    <3>8. n \in DOMAIN arrived /\ fwd_out' = Append(fwd_out, n)
      BY <2>2, <3>1, <3>2
    <3>9. Filter!Forward
      BY <3>5, <3>6, <3>7, <3>8 DEF Filter!Forward
    <3> QED
      BY <3>9 DEF Filter!Next
  <2> QED
    BY <1>2, <2>1, <2>2 DEF ForwardPacket
<1>3. CASE KniNetRxSkb
  <2>1. CASE kern_in' = kern_in
    BY <1>3, <2>1 DEF KniNetRxSkb, Filter!vars
  <2>2. CASE kern_in' = Append(kern_in, frame[kva[ki]])
    <3>1. Waiting[1] = kva[ki] /\ Len(Waiting) \in Nat /\ Len(Waiting) >= 1
      BY <1>3, WaitingTail
    <3>2. 1 \in 1..Len(Waiting)
      BY <3>1
    <3>3. PICK n : n = frame[Waiting[1]]
      OBVIOUS
    <3>4. ForKernel(n) /\ \A j \in 1..Len(kern_in) : kern_in[j] < n
      BY <1>0, <3>2, <3>3 DEF KernelFrames
    <3>5. DOMAIN kern_in = 1..Len(kern_in)
      BY DEF ShapeInv, TypeOK, WorldType
    <3>6. Filter!InOrder(kern_in, n)
      BY <3>4, <3>5 DEF Filter!InOrder
    <3>7. UNCHANGED <<arrived, fwd_out>>
      BY <1>3 DEF KniNetRxSkb
    <3>8. n \in DOMAIN arrived /\ ~ Filter!should_forward(FilterList, arrived[n])
      BY <3>4, SameDecision DEF ForKernel
    <3>9. kern_in' = Append(kern_in, n)
      BY <2>2, <3>1, <3>3
    <3>10. Filter!Deliver
      BY <3>6, <3>7, <3>8, <3>9 DEF Filter!Deliver
    <3> QED
      BY <3>10 DEF Filter!Next
  <2> QED
    BY <1>3, <2>1, <2>2 DEF KniNetRxSkb
<1>4. CASE \/ LoopTest \/ EndBurst \/ signal_handler \/ KniRxBurst \/ KniAllocate
           \/ KniRefill \/ EthTxBurst \/ EthTxRefused \/ EthRxBurst \/ FreePacket
           \/ KniTxBurst \/ KniFreeMbufs \/ KniNetRxCount \/ KniNetRxGet
           \/ KniNetRxPut \/ KernelSend \/ NicTransmit \/ UNCHANGED vars
  <2>1. UNCHANGED world
    BY <1>4 DEF LoopTest, EndBurst, signal_handler, KniRxBurst, KniAllocate, KniRefill,
                EthTxBurst, EthTxRefused, EthRxBurst, FreePacket, KniTxBurst,
                KniFreeMbufs, KniNetRxCount, KniNetRxGet, KniNetRxPut, KernelSend,
                KniNetTxGet, KniNetTxPut, NicTransmit, vars
  <2> QED
    BY <2>1 DEF world, Filter!vars
<1> QED
  BY <1>1, <1>2, <1>3, <1>4 DEF Next, Lcore, KernelThread

\* As long as no wild free happens the loop implements the filter: whatever mbufs,
\* rings and threads carry a packet, it leaves at most once, on the side that the
\* rules say, in the order of arrival.
THEOREM FilterImplemented == Spec /\ []~wild => ImplementsFilter
<1> DEFINE Inv == ShapeInv /\ Custody /\ Counted /\ FramesInOrder
<1>1. Init => Inv
  BY InitShape, InitCustody, InitCounted, InitFrames
<1>2. Inv /\ [Next]_vars => Inv'
  BY ShapeStep, CustodyStep, CountStep, FramesStep
<1>3. Init => Filter!Init
  BY DEF Init, Filter!Init
<1>4. Inv /\ Inv' /\ ~ wild /\ [Next]_vars => [Filter!Next]_Filter!vars
  BY FilterStep
<1> QED
  BY <1>1, <1>2, <1>3, <1>4, PTL DEF Spec, ImplementsFilter, Filter!Spec

\* Nothing comes from the kernel: without KNI, or as long as vEth0 is down.
QuietKernel == ~ Kni \/ MaxKernelSends = 0

\* Then kni_request_handler never has a packet to send, so none is refused.
NothingToSend ==
  /\ ktx = <<>> /\ tx_q = <<>> /\ pc \notin {"alloc", "refill", "tx"} /\ ~ wild

LEMMA NothingToSendStep ==
  ASSUME QuietKernel, ShapeInv, NothingToSend, [Next]_vars
  PROVE  NothingToSend'
<1>1. ~ KniNetTxGet
  <2>1. tx_packets \in Nat
    BY DEF ShapeInv, TypeOK, KniType
  <2>2. ~ (tx_packets < 0)
    BY <2>1
  <2> QED
    BY <2>2 DEF QuietKernel, KniNetTxGet
<1>2. CASE KniRxBurst
  <2>1. FifoGot(<<>>, 1) = <<>> /\ FifoRest(<<>>, 1) = <<>>
    <3>1. <<>> \in Seq(Mbufs) /\ Len(<<>>) = 0 /\ MinOf(1, 0) = 0
      BY DEF MinOf
    <3> QED
      BY <3>1 DEF FifoGot, FifoRest
  <2> QED
    BY <1>2, <2>1 DEF KniRxBurst, NothingToSend, history, ksend
<1>3. CASE \/ LoopTest \/ EndBurst \/ signal_handler \/ EthRxBurst \/ ForwardPacket
           \/ FreePacket \/ KniTxBurst \/ KniFreeMbufs \/ NicReceive \/ NicTransmit
           \/ UNCHANGED vars
  <2>1. ktx' = ktx /\ tx_q' = tx_q /\ wild' = wild
    BY <1>3 DEF LoopTest, EndBurst, signal_handler, EthRxBurst, ForwardPacket,
                FreePacket, KniTxBurst, KniFreeMbufs, NicReceive, NicTransmit, vars,
                fifos, ksend, history
  <2>2. pc' = pc \/ pc' \in {"test", "pkt", "kfree", "returned", "kni", "rx"}
    BY <1>3 DEF LoopTest, EndBurst, signal_handler, EthRxBurst, ForwardPacket,
                FreePacket, KniTxBurst, KniFreeMbufs, NicReceive, NicTransmit, vars,
                lcore
  <2> QED
    BY <2>1, <2>2 DEF NothingToSend
<1>4. CASE KernelThread
  BY <1>4 DEF KernelThread, KniNetRxCount, KniNetRxGet, KniNetRxSkb, KniNetRxPut,
              NothingToSend, lcore, fifos, ksend, history
<1>5. ~ (KniAllocate \/ KniRefill \/ EthTxBurst \/ EthTxRefused \/ KniNetTxPut)
  BY DEF NothingToSend, KniAllocate, KniRefill, EthTxBurst, EthTxRefused, KniNetTxPut
<1> QED
  BY <1>1, <1>2, <1>3, <1>4, <1>5 DEF Next, Lcore, KernelSend

\* Without KNI, as every documented command line runs the program, or while the
\* kernel sends nothing, the loop implements the filter without any reservation.
THEOREM FilterImplementedWhenQuiet ==
  ASSUME QuietKernel
  PROVE  Spec => ImplementsFilter
<1> DEFINE Inv == ShapeInv /\ NothingToSend
<1>1. Init => Inv
  BY InitShape DEF Init, NothingToSend
<1>2. Inv /\ [Next]_vars => Inv'
  BY ShapeStep, NothingToSendStep
<1>3. Inv => ~ wild
  BY DEF NothingToSend
<1> QED
  BY <1>1, <1>2, <1>3, FilterImplemented, PTL DEF Spec
=============================================================================
