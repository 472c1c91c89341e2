-------------------------- MODULE PacketLoopProof ---------------------------
(***************************************************************************)
(* Proofs about PacketLoop, for every size of pool, rings, FIFOs and       *)
(* bursts: facts about cutting and joining sequences of mbufs, the types,  *)
(* that the kernel's puts always fit, and the custody of the mbufs.        *)
(*                                                                         *)
(* Every action passes mbufs from one place to the end of another, once or *)
(* twice, and touches no other place (lemma Passed); LoopShape and         *)
(* KernelPutsFit say that nothing is overwritten or forgotten on the way.  *)
(***************************************************************************)
EXTENDS PacketLoop, SequenceTheorems, TLAPS

-----------------------------------------------------------------------------
(* Sequences of mbufs *)

\* The smaller of two numbers.
LEMMA MinOfNat ==
  ASSUME NEW a \in Nat, NEW b \in Nat
  PROVE  MinOf(a, b) \in Nat /\ MinOf(a, b) <= a /\ MinOf(a, b) <= b
BY DEF MinOf

\* Cutting a sequence in two: types and lengths of the parts.
LEMMA CutType ==
  ASSUME NEW S, NEW s \in Seq(S), NEW n \in 0..Len(s)
  PROVE  /\ SubSeq(s, 1, n) \in Seq(S) /\ Len(SubSeq(s, 1, n)) = n
         /\ SubSeq(s, n + 1, Len(s)) \in Seq(S)
         /\ Len(SubSeq(s, n + 1, Len(s))) = Len(s) - n
         /\ \A k \in 1..n : SubSeq(s, 1, n)[k] = s[k]
         /\ \A k \in 1..Len(s) - n : SubSeq(s, n + 1, Len(s))[k] = s[n + k]
OBVIOUS

\* Joining two sequences: type and length of the whole.
LEMMA JoinType ==
  ASSUME NEW S, NEW s \in Seq(S), NEW t \in Seq(S)
  PROVE  /\ s \o t \in Seq(S) /\ Len(s \o t) = Len(s) + Len(t)
         /\ \A k \in 1..Len(s) : (s \o t)[k] = s[k]
         /\ \A k \in 1..Len(t) : (s \o t)[Len(s) + k] = t[k]
OBVIOUS

\* Two sequences without repetition and without a common element, joined: no
\* repetition, and the elements of both.
LEMMA Join ==
  ASSUME NEW S, NEW s \in Seq(S), NEW t \in Seq(S)
  PROVE  /\ Range(s \o t) = Range(s) \cup Range(t)
         /\ IsInjective(s) /\ IsInjective(t) /\ Range(s) \cap Range(t) = {}
              => IsInjective(s \o t)
<1>1. Range(s \o t) = Range(s) \cup Range(t)
  BY RangeConcatenation
<1>2. ASSUME IsInjective(s), IsInjective(t), Range(s) \cap Range(t) = {},
             NEW a \in DOMAIN (s \o t), NEW b \in DOMAIN (s \o t),
             (s \o t)[a] = (s \o t)[b]
      PROVE  a = b
  <2>1. /\ a \in 1..Len(s) + Len(t) /\ b \in 1..Len(s) + Len(t)
        /\ DOMAIN s = 1..Len(s) /\ DOMAIN t = 1..Len(t)
        /\ Len(s) \in Nat /\ Len(t) \in Nat
    BY <1>2
  <2>2. \A k \in 1..Len(s) : (s \o t)[k] = s[k]
    BY JoinType
  <2>3. \A k \in 1..Len(s) + Len(t) : k > Len(s) =>
          k - Len(s) \in 1..Len(t) /\ (s \o t)[k] = t[k - Len(s)]
    BY <2>1
  <2>4. CASE a <= Len(s) /\ b <= Len(s)
    BY <1>2, <2>1, <2>2, <2>4 DEF IsInjective
  <2>5. CASE a > Len(s) /\ b > Len(s)
    <3>1. a - Len(s) = b - Len(s)
      BY <1>2, <2>1, <2>3, <2>5 DEF IsInjective
    <3> QED
      BY <2>1, <3>1
  <2>6. CASE a <= Len(s) /\ b > Len(s)
    <3>1. s[a] \in Range(s) /\ t[b - Len(s)] \in Range(t)
      BY <2>1, <2>3, <2>6 DEF Range
    <3>2. s[a] = t[b - Len(s)]
      BY <1>2, <2>1, <2>2, <2>3, <2>6
    <3> QED
      BY <1>2, <3>1, <3>2
  <2>7. CASE a > Len(s) /\ b <= Len(s)
    <3>1. s[b] \in Range(s) /\ t[a - Len(s)] \in Range(t)
      BY <2>1, <2>3, <2>7 DEF Range
    <3>2. s[b] = t[a - Len(s)]
      BY <1>2, <2>1, <2>2, <2>3, <2>7
    <3> QED
      BY <1>2, <3>1, <3>2
  <2> QED
    BY <2>1, <2>4, <2>5, <2>6, <2>7
<1> QED
  BY <1>1, <1>2 DEF IsInjective

\* A sequence cut in two keeps its elements, and without repetition the parts
\* have none in common.
LEMMA Cut ==
  ASSUME NEW S, NEW s \in Seq(S), NEW n \in 0..Len(s)
  PROVE  LET a == SubSeq(s, 1, n)
             b == SubSeq(s, n + 1, Len(s))
         IN /\ Range(a) \cup Range(b) = Range(s)
            /\ IsInjective(s) =>
                 IsInjective(a) /\ IsInjective(b) /\ Range(a) \cap Range(b) = {}
<1> DEFINE a == SubSeq(s, 1, n)
           b == SubSeq(s, n + 1, Len(s))
<1>1. /\ a \in Seq(S) /\ Len(a) = n /\ b \in Seq(S) /\ Len(b) = Len(s) - n
      /\ \A k \in 1..n : a[k] = s[k]
      /\ \A k \in 1..Len(s) - n : b[k] = s[n + k]
  BY CutType
<1>2. /\ DOMAIN a = 1..n /\ DOMAIN b = 1..Len(s) - n /\ DOMAIN s = 1..Len(s)
      /\ Len(s) \in Nat /\ n \in Nat /\ n <= Len(s)
  BY <1>1
<1>p. \A k \in 1..Len(s) - n : n + k \in 1..Len(s) /\ n + k > n
  BY <1>2
<1> HIDE DEF a, b
<1>3. Range(a) \subseteq Range(s) /\ Range(b) \subseteq Range(s)
  <2>1. ASSUME NEW x \in Range(a) PROVE x \in Range(s)
    BY <1>1, <1>2 DEF Range
  <2>2. ASSUME NEW x \in Range(b) PROVE x \in Range(s)
    <3>1. PICK k \in 1..Len(s) - n : x = b[k]
      BY <1>2 DEF Range
    <3>2. x = s[n + k] /\ n + k \in DOMAIN s
      BY <1>1, <1>2, <1>p, <3>1
    <3> QED
      BY <3>2 DEF Range
  <2> QED
    BY <2>1, <2>2
<1>4. ASSUME NEW x \in Range(s) PROVE x \in Range(a) \cup Range(b)
  <2>1. PICK k \in 1..Len(s) : x = s[k]
    BY <1>2 DEF Range
  <2>2. CASE k <= n
    BY <1>1, <1>2, <2>1, <2>2 DEF Range
  <2>3. CASE k > n
    <3>1. k - n \in 1..Len(s) - n /\ b[k - n] = s[k]
      BY <1>1, <1>2, <2>3
    <3> QED
      BY <1>2, <2>1, <3>1 DEF Range
  <2> QED
    BY <1>2, <2>2, <2>3
<1>5. ASSUME IsInjective(s)
      PROVE  IsInjective(a) /\ IsInjective(b) /\ Range(a) \cap Range(b) = {}
  <2>1. IsInjective(a)
    BY <1>1, <1>2, <1>5 DEF IsInjective
  <2>2. IsInjective(b)
    <3> SUFFICES ASSUME NEW j \in 1..Len(s) - n, NEW k \in 1..Len(s) - n, b[j] = b[k]
                 PROVE  j = k
      BY <1>2 DEF IsInjective
    <3>0. s[n + j] = s[n + k] /\ n + j \in DOMAIN s /\ n + k \in DOMAIN s
      <4>1. b[j] = s[n + j] /\ b[k] = s[n + k]
        BY <1>1
      <4>2. n + j \in 1..Len(s) /\ n + k \in 1..Len(s)
        BY <1>p
      <4> QED
        BY <1>2, <4>1, <4>2
    <3>1. n + j = n + k
      BY <1>5, <3>0 DEF IsInjective
    <3> QED
      BY <1>2, <3>1
  <2>3. ASSUME NEW x \in Range(a), x \in Range(b) PROVE FALSE
    <3>1. PICK j \in 1..n : x = s[j]
      BY <1>1, <1>2 DEF Range
    <3>2. PICK k \in 1..Len(s) - n : x = s[n + k]
      <4>1. PICK k \in DOMAIN b : x = b[k]
        BY <2>3 DEF Range
      <4> QED
        BY <1>1, <1>2, <4>1
    <3>3. j = n + k
      <4>1. n + k \in 1..Len(s) /\ j \in 1..Len(s)
        BY <1>2, <1>p
      <4> QED
        BY <1>2, <1>5, <3>1, <3>2, <4>1 DEF IsInjective
    <3> QED
      BY <1>2, <1>p, <3>3
  <2> QED
    BY <2>1, <2>2, <2>3
<1> QED
  BY <1>3, <1>4, <1>5 DEF a, b

\* Allocation takes distinct mbufs out of the pool and leaves the others.
LEMMA AllocTake ==
  ASSUME NEW S, NEW p \in Seq(S), NEW n \in Nat
  PROVE  LET a == Allocated(p, n)
             b == Take(p, n)
         IN /\ a \in Seq(S) /\ Len(a) = MinOf(n, Len(p))
            /\ b \in Seq(S) /\ Len(b) = Len(p) - MinOf(n, Len(p))
            /\ Range(a) \cup Range(b) = Range(p)
            /\ IsInjective(p) =>
                 IsInjective(a) /\ IsInjective(b) /\ Range(a) \cap Range(b) = {}
<1> DEFINE m == MinOf(n, Len(p))
           l == Len(p) - m
           a == Allocated(p, n)
           b == Take(p, n)
           c == SubSeq(p, l + 1, Len(p))
<1>l. Len(p) \in Nat
  OBVIOUS
<1>m. m \in Nat /\ m <= Len(p)
  BY <1>l, MinOfNat
<1>2. a = [k \in 1..m |-> p[Len(p) + 1 - k]] /\ b = SubSeq(p, 1, l)
  BY DEF Allocated, Take
<1> HIDE DEF m, a, b
<1>1. Len(p) \in Nat /\ m \in Nat /\ m <= Len(p) /\ l \in 0..Len(p) /\ Len(p) - l = m
  BY <1>l, <1>m
<1> HIDE DEF l
<1>3. /\ b \in Seq(S) /\ Len(b) = l /\ c \in Seq(S) /\ Len(c) = m
      /\ \A k \in 1..m : c[k] = p[l + k]
  BY <1>1, <1>2, CutType
<1>4. /\ Range(b) \cup Range(c) = Range(p)
      /\ IsInjective(p) =>
           IsInjective(b) /\ IsInjective(c) /\ Range(b) \cap Range(c) = {}
  BY <1>1, <1>2, Cut
<1>c. c \in Seq(S) /\ DOMAIN c = 1..m
  BY <1>1, <1>3
<1> HIDE DEF c
<1>5. \A k \in 1..m : m + 1 - k \in 1..m /\ Len(p) + 1 - k \in 1..Len(p)
                       /\ l + (m + 1 - k) = Len(p) + 1 - k /\ m + 1 - (m + 1 - k) = k
  BY <1>1
<1>6. \A k \in 1..m : a[k] = c[m + 1 - k]
  <2> TAKE k \in 1..m
  <2>1. a[k] = p[Len(p) + 1 - k]
    BY <1>2
  <2>2. m + 1 - k \in 1..m /\ l + (m + 1 - k) = Len(p) + 1 - k
    BY <1>5
  <2>3. c[m + 1 - k] = p[l + (m + 1 - k)]
    BY <1>3, <2>2
  <2> QED
    BY <2>1, <2>2, <2>3
<1>7. a \in Seq(S) /\ Len(a) = m /\ DOMAIN a = 1..m
  <2>1. \A k \in 1..m : p[Len(p) + 1 - k] \in S
    BY <1>5
  <2> QED
    BY <1>1, <1>2, <2>1
<1>8. Range(a) = Range(c)
  <2>1. ASSUME NEW x \in Range(a) PROVE x \in Range(c)
    <3>1. PICK k \in 1..m : x = a[k]
      BY <1>7 DEF Range
    <3>2. x = c[m + 1 - k] /\ m + 1 - k \in DOMAIN c
      BY <1>5, <1>6, <1>c, <3>1
    <3> QED
      BY <3>2 DEF Range
  <2>2. ASSUME NEW x \in Range(c) PROVE x \in Range(a)
    <3>1. PICK k \in 1..m : x = c[k]
      BY <1>c DEF Range
    <3>2. a[m + 1 - k] = c[k] /\ m + 1 - k \in DOMAIN a
      BY <1>5, <1>6, <1>7, SMTT(20)
    <3> QED
      BY <3>1, <3>2 DEF Range
  <2> QED
    BY <2>1, <2>2
<1>9. IsInjective(c) => IsInjective(a)
  <2> SUFFICES ASSUME IsInjective(c), NEW j \in 1..m, NEW k \in 1..m, a[j] = a[k]
               PROVE  j = k
    BY <1>7 DEF IsInjective
  <2>1. c[m + 1 - j] = c[m + 1 - k] /\ m + 1 - j \in DOMAIN c /\ m + 1 - k \in DOMAIN c
    BY <1>5, <1>6, <1>c
  <2>2. m + 1 - j = m + 1 - k
    BY <2>1 DEF IsInjective
  <2> QED
    BY <1>1, <2>2
<1>10. Len(b) = Len(p) - m
  BY <1>3 DEF l
<1> QED
  BY <1>3, <1>4, <1>7, <1>8, <1>9, <1>10 DEF a, b, m

\* kni_fifo_get splits the queue.
LEMMA FifoSplit ==
  ASSUME NEW S, NEW q \in Seq(S), NEW n \in Nat
  PROVE  LET a == FifoGot(q, n)
             b == FifoRest(q, n)
         IN /\ a \in Seq(S) /\ Len(a) = MinOf(n, Len(q))
            /\ b \in Seq(S) /\ Len(b) = Len(q) - MinOf(n, Len(q))
            /\ Range(a) \cup Range(b) = Range(q)
            /\ IsInjective(q) =>
                 IsInjective(a) /\ IsInjective(b) /\ Range(a) \cap Range(b) = {}
<1> DEFINE m == MinOf(n, Len(q))
<1>l. Len(q) \in Nat
  OBVIOUS
<1>m. m \in Nat /\ m <= Len(q)
  BY <1>l, MinOfNat
<1>2. FifoGot(q, n) = SubSeq(q, 1, m) /\ FifoRest(q, n) = SubSeq(q, m + 1, Len(q))
  BY DEF FifoGot, FifoRest
<1> HIDE DEF m
<1>1. m \in 0..Len(q)
  BY <1>l, <1>m
<1> QED
  BY <1>1, <1>2, CutType, Cut DEF m

\* kni_fifo_put stays within the FIFO, and appends all that fits.
LEMMA FifoPutFits ==
  ASSUME NEW q, FifoType(q), NEW s \in Seq(Mbufs)
  PROVE  /\ FifoType(FifoPut(q, s))
         /\ Len(s) <= Room(q) => FifoPut(q, s) = q \o s
<1>1. Room(q) \in Nat /\ Room(q) = FifoLen - 1 - Len(q) /\ q \in Seq(Mbufs)
      /\ Len(q) \in Nat /\ Len(s) \in Nat /\ FifoLen \in Nat
  BY SizeAssumption DEF FifoType, Room
<1> DEFINE m == MinOf(Len(s), Room(q))
<1>2. m \in 0..Len(s) /\ m <= Room(q) /\ (Len(s) <= Room(q) => m = Len(s))
  BY <1>1, MinOfNat DEF MinOf
<1>3. FifoPut(q, s) = q \o SubSeq(s, 1, m)
  BY DEF FifoPut
<1> HIDE DEF m
<1>4. SubSeq(s, 1, m) \in Seq(Mbufs) /\ Len(SubSeq(s, 1, m)) = m
  BY <1>2, CutType
<1>5. FifoPut(q, s) \in Seq(Mbufs) /\ Len(FifoPut(q, s)) = Len(q) + m
  BY <1>1, <1>3, <1>4, JoinType
<1>6. Len(s) <= Room(q) => SubSeq(s, 1, m) = s
  BY <1>2, SubSeqFull
<1>7. Len(q) + m <= FifoLen - 1
  BY <1>1, <1>2
<1>8. FifoType(FifoPut(q, s))
  BY <1>5, <1>7 DEF FifoType
<1> QED
  BY <1>3, <1>6, <1>8

-----------------------------------------------------------------------------
(* Types and shape *)

\* What is inductive without custody.
ShapeInv == TypeOK /\ LoopShape /\ KernelPutsFit

\* The rings, the FIFOs and the pool as main() hands them to lcore_main.
LEMMA InitShape == Init => ShapeInv
<1> SUFFICES ASSUME Init PROVE ShapeInv
  OBVIOUS
<1>1. InitialRefill \in Nat /\ InitialRefill <= FifoLen - 1 /\ NumMbufs \in Nat
      /\ RxDesc \in Nat /\ RxDesc + InitialRefill <= NumMbufs
  BY SizeAssumption, PoolAssumption, KniAssumption DEF InitialRefill, MinOf
<1>e. \A S : <<>> \in Seq(S) /\ Len(<<>>) = 0
  BY EmptySeq
<1>2. LoopType
  <2>1. /\ kmbuf \in Seq(Mbufs) /\ apkts \in Seq(Mbufs)
        /\ bufs \in Seq(Mbufs) /\ Len(bufs) = 0
    BY <1>e DEF Init
  <2>2. nb_rx = 0 /\ i = 1 /\ Burst \in Nat
    BY SizeAssumption DEF Init
  <2>3. nb_rx \in 0..Burst /\ nb_rx <= Len(bufs) /\ i \in 1..nb_rx + 1
    BY <2>1, <2>2
  <2>4. force_quit \in BOOLEAN /\ pc \in Pcs
    BY DEF Init, Pcs
  <2>5. /\ kret \in 0..1
        /\ total_packets \in Nat /\ forwarded_packets \in Nat /\ kni_packets \in Nat
    BY DEF Init
  <2> QED
    BY <2>1, <2>3, <2>4, <2>5 DEF LoopType
<1>w. WorldType
  BY <1>e DEF Init, WorldType
<1>3. PoolType
  <2> DEFINE n == NumMbufs - RxDesc - InitialRefill
  <2>1. n \in Nat /\ \A k \in 1..n : RxDesc + InitialRefill + k \in Mbufs
    BY <1>1 DEF Mbufs
  <2>2. pool = [k \in 1..n |-> RxDesc + InitialRefill + k]
    BY DEF Init
  <2> HIDE DEF n
  <2>3. pool \in Seq(Mbufs)
    BY <2>1, <2>2
  <2> QED
    BY <1>e, <2>3 DEF Init, PoolType
<1>4. DriverType
  BY <1>1, SizeAssumption DEF Init, DriverType, Mbufs
<1>5. FifoType(alloc_q)
  BY <1>1 DEF Init, FifoType, Mbufs
<1>6. KniType
  <2>1. FifoType(<<>>)
    BY <1>e, SizeAssumption DEF FifoType
  <2>2. kva = <<>> /\ ki = 1 /\ knum = 0
    BY DEF Init
  <2>3. kva \in Seq(Mbufs) /\ ki \in 1..Len(kva) + 1 /\ knum \in 0..FifoLen - 1
    BY <1>e, <2>2, SizeAssumption
  <2> QED
    BY <1>e, <1>5, <2>1, <2>3 DEF Init, KniType
<1>k. KernelPutsFit
  BY <1>e, SizeAssumption DEF Init, KernelPutsFit, Room
<1>7. LoopShape
  BY <1>e DEF Init, LoopShape
<1> QED
  BY <1>2, <1>w, <1>3, <1>4, <1>6, <1>k, <1>7 DEF ShapeInv, TypeOK

\* The lcore up to the transmit call keeps types and shape.
LEMMA ShapeLcoreTx ==
  ASSUME ShapeInv, LoopTest \/ KniRxBurst \/ KniAllocate \/ KniRefill
  PROVE  ShapeInv'
<1> USE DEF lcore, stats, rxq, txq, fifos, kthread, ksend, world, history
<1>t. /\ LoopType /\ PoolType /\ DriverType /\ KniType /\ WorldType
      /\ LoopShape /\ KernelPutsFit
  BY DEF ShapeInv, TypeOK
<1>1. CASE LoopTest
  <2>1. LoopType'
    BY <1>1, <1>t DEF LoopTest, LoopType, Pcs
  <2>2. PoolType' /\ DriverType' /\ KniType' /\ WorldType' /\ KernelPutsFit'
    BY <1>1, <1>t DEF LoopTest, PoolType, DriverType, KniType, WorldType, KernelPutsFit
  <2>3. LoopShape'
    BY <1>1, <1>t DEF LoopTest, LoopShape
  <2> QED
    BY <2>1, <2>2, <2>3 DEF ShapeInv, TypeOK
<1>2. CASE KniRxBurst
  <2>1. FifoType(tx_q) /\ tx_q \in Seq(Mbufs) /\ Len(tx_q) \in Nat
    BY <1>t DEF KniType, FifoType
  <2>2. /\ kmbuf' \in Seq(Mbufs) /\ Len(kmbuf') = MinOf(1, Len(tx_q))
        /\ tx_q' \in Seq(Mbufs) /\ Len(tx_q') = Len(tx_q) - MinOf(1, Len(tx_q))
    BY <1>2, <2>1, FifoSplit DEF KniRxBurst
  <2>3. Len(kmbuf') <= 1 /\ Len(tx_q') <= Len(tx_q) /\ Len(tx_q') \in Nat
    BY <2>1, <2>2 DEF MinOf
  <2>4. LoopType'
    BY <1>2, <1>t, <2>2 DEF KniRxBurst, LoopType, Pcs
  <2>5. KniType'
    BY <1>2, <1>t, <2>1, <2>2, <2>3, SizeAssumption DEF KniRxBurst, KniType, FifoType
  <2>6. PoolType' /\ DriverType' /\ WorldType'
    BY <1>2, <1>t DEF KniRxBurst, PoolType, DriverType, WorldType
  <2>7. KernelPutsFit'
    <3>1. Len(ktx) \in Nat /\ FifoLen \in Nat
      BY <1>t, SizeAssumption DEF KniType
    <3> QED
      BY <1>2, <1>t, <2>1, <2>3, <3>1 DEF KniRxBurst, KernelPutsFit, Room
  <2>8. LoopShape'
    BY <1>2, <1>t, <2>3 DEF KniRxBurst, LoopShape, Room
  <2> QED
    BY <2>4, <2>5, <2>6, <2>7, <2>8 DEF ShapeInv, TypeOK
<1>3. CASE KniAllocate
  <2>1. AllocqFree \in Nat /\ pool \in Seq(Mbufs)
    BY <1>t, SizeAssumption DEF AllocqFree, MinOf, Room, KniType, FifoType, PoolType
  <2>2. apkts' \in Seq(Mbufs) /\ pool' \in Seq(Mbufs)
    BY <1>3, <2>1, AllocTake DEF KniAllocate
  <2>3. LoopType' /\ PoolType'
    BY <1>3, <1>t, <2>2 DEF KniAllocate, LoopType, PoolType, Pcs
  <2>4. DriverType' /\ KniType' /\ WorldType' /\ KernelPutsFit'
    BY <1>3, <1>t DEF KniAllocate, DriverType, KniType, WorldType, KernelPutsFit
  <2>5. LoopShape'
    BY <1>3, <1>t DEF KniAllocate, LoopShape
  <2> QED
    BY <2>3, <2>4, <2>5 DEF ShapeInv, TypeOK
<1>4. CASE KniRefill
  <2>1. Room(alloc_q) \in Nat /\ FifoType(alloc_q) /\ apkts \in Seq(Mbufs)
        /\ pool \in Seq(Mbufs)
    BY <1>t, SizeAssumption DEF Room, KniType, FifoType, LoopType, PoolType
  <2>2. FifoType(alloc_q')
    BY <1>4, <2>1, FifoPutFits DEF KniRefill
  <2>3. pool' \in Seq(Mbufs)
    BY <1>4, <2>1, FifoSplit, JoinType DEF KniRefill, Give
  <2>4. LoopType' /\ PoolType'
    BY <1>4, <1>t, <2>3 DEF KniRefill, LoopType, PoolType, Pcs
  <2>5. KniType'
    BY <1>4, <1>t, <2>2 DEF KniRefill, KniType, FifoType
  <2>6. DriverType' /\ WorldType' /\ KernelPutsFit'
    BY <1>4, <1>t DEF KniRefill, DriverType, WorldType, KernelPutsFit
  <2>7. LoopShape'
    BY <1>4, <1>t DEF KniRefill, LoopShape
  <2> QED
    BY <2>4, <2>5, <2>6, <2>7 DEF ShapeInv, TypeOK
<1> QED
  BY <1>1, <1>2, <1>3, <1>4

\* The transmit call and its refusal keep types and shape.
LEMMA ShapeEthTx ==
  ASSUME ShapeInv, EthTxBurst \/ EthTxRefused
  PROVE  ShapeInv'
<1> USE DEF lcore, stats, rxq, txq, fifos, kthread, ksend, world, history
<1>t. /\ LoopType /\ PoolType /\ DriverType /\ KniType /\ WorldType
      /\ LoopShape /\ KernelPutsFit
  BY DEF ShapeInv, TypeOK
<1>e. \A S : <<>> \in Seq(S) /\ Len(<<>>) = 0
  BY EmptySeq
<1>1. CASE EthTxBurst
  <2>1. /\ txring \in Seq(Mbufs) /\ Len(txring) \in Nat /\ Len(txring) <= TxDesc
        /\ kmbuf \in Seq(Mbufs) /\ Len(kmbuf) \in Nat /\ Len(kmbuf) <= 1
        /\ pool \in Seq(Mbufs) /\ TxDesc \in Nat /\ TxDesc >= 2
    BY <1>t, SizeAssumption DEF DriverType, LoopType, PoolType, LoopShape
  <2>2. /\ SentBefore \in Seq(Mbufs)
        /\ Len(SentBefore) = IF Len(txring) = TxDesc THEN 1 ELSE 0
    BY <1>e, <2>1, CutType DEF SentBefore
  <2>3. pool' \in Seq(Mbufs)
    BY <1>1, <2>1, <2>2, JoinType DEF EthTxBurst, Give
  <2> DEFINE rest == SubSeq(txring, Len(SentBefore) + 1, Len(txring))
  <2>4. rest \in Seq(Mbufs) /\ Len(rest) = Len(txring) - Len(SentBefore)
    <3>1. Len(SentBefore) \in 0..Len(txring)
      BY <2>1, <2>2
    <3> QED
      BY <2>1, <3>1, CutType
  <2>5. txring' = rest \o kmbuf
    BY <1>1 DEF EthTxBurst
  <2> HIDE DEF rest
  <2>6. txring' \in Seq(Mbufs) /\ Len(txring') <= TxDesc
    <3>1. txring' \in Seq(Mbufs) /\ Len(txring') = Len(rest) + Len(kmbuf)
      BY <2>1, <2>4, <2>5, JoinType
    <3> QED
      BY <2>1, <2>2, <2>4, <3>1
  <2>7. nb_tx_free' \in 0..TxDesc - 1 /\ txdone' \in 0..TxDesc - 1 - nb_tx_free'
    BY <1>1, <1>t, SizeAssumption
    DEF EthTxBurst, DriverType, FreeAfterCleanup, Cleanable
  <2>8. DriverType'
    BY <1>1, <1>t, <2>6, <2>7 DEF EthTxBurst, DriverType
  <2>9. LoopType' /\ PoolType'
    BY <1>1, <1>t, <1>e, <2>3 DEF EthTxBurst, LoopType, PoolType, Pcs
  <2>10. KniType' /\ WorldType' /\ KernelPutsFit'
    BY <1>1, <1>t DEF EthTxBurst, KniType, WorldType, KernelPutsFit
  <2>11. LoopShape'
    BY <1>1, <1>t, <1>e DEF EthTxBurst, LoopShape
  <2> QED
    BY <2>8, <2>9, <2>10, <2>11 DEF ShapeInv, TypeOK
<1>2. CASE EthTxRefused
  <2>1. pool' \in Seq(Mbufs) /\ wild' \in BOOLEAN
    <3>1. pool \in Seq(Mbufs) /\ wild \in BOOLEAN /\ bufs \in Seq(Mbufs)
      BY <1>t DEF PoolType, LoopType
    <3>2. CASE UNCHANGED <<pool, wild>>
      BY <3>1, <3>2
    <3>3. CASE /\ StaleSlot <= Len(bufs) /\ pool' = Give(pool, <<bufs[StaleSlot]>>)
               /\ wild' = TRUE
      <4>1. <<bufs[StaleSlot]>> \in Seq(Mbufs)
        BY <3>1, <3>3, SizeAssumption
      <4> QED
        BY <3>1, <3>3, <4>1, JoinType DEF Give
    <3> QED
      BY <1>2, <3>2, <3>3 DEF EthTxRefused
  <2>2. refused' \in Seq(Mbufs)
    BY <1>2, <1>t, JoinType DEF EthTxRefused, PoolType, LoopType
  <2>3. LoopType' /\ PoolType'
    BY <1>2, <1>t, <1>e, <2>1, <2>2 DEF EthTxRefused, LoopType, PoolType, Pcs
  <2>4. DriverType' /\ KniType' /\ WorldType' /\ KernelPutsFit'
    BY <1>2, <1>t DEF EthTxRefused, DriverType, KniType, WorldType, KernelPutsFit
  <2>5. LoopShape'
    BY <1>2, <1>t, <1>e DEF EthTxRefused, LoopShape
  <2> QED
    BY <2>3, <2>4, <2>5 DEF ShapeInv, TypeOK
<1> QED
  BY <1>1, <1>2

\* The receive call keeps types and shape.
LEMMA ShapeEthRx ==
  ASSUME ShapeInv, EthRxBurst
  PROVE  ShapeInv'
<1> USE DEF lcore, stats, rxq, txq, fifos, kthread, ksend, world, history
<1>t. /\ LoopType /\ PoolType /\ DriverType /\ KniType /\ WorldType
      /\ LoopShape /\ KernelPutsFit
  BY DEF ShapeInv, TypeOK
<1> DEFINE n == MinOf(MinOf(Burst, rxdone), Len(pool))
           new == Allocated(pool, n)
           left == SubSeq(rxring, n + 1, RxDesc)
           taken == SubSeq(rxring, 1, n)
           stale == SubSeq(bufs, n + 1, Len(bufs))
<1>1. /\ pool \in Seq(Mbufs) /\ Len(pool) \in Nat /\ rxdone \in 0..RxDesc
      /\ rxring \in Seq(Mbufs) /\ Len(rxring) = RxDesc /\ RxDesc \in Nat
      /\ bufs \in Seq(Mbufs) /\ Len(bufs) \in Nat /\ Burst \in Nat
      /\ rx_hold \in 0..RxFreeThresh /\ RxFreeThresh \in Nat /\ total_packets \in Nat
  BY <1>t, SizeAssumption DEF PoolType, DriverType, LoopType
<1>2. n \in Nat /\ n <= Burst /\ n <= rxdone /\ n <= Len(pool) /\ n \in 0..Len(rxring)
      /\ MinOf(n, Len(pool)) = n
  BY <1>1 DEF MinOf
<1>3. /\ pool' = Take(pool, n) /\ rxring' = left \o new /\ rxdone' = rxdone - n
      /\ rx_hold' = (IF rx_hold + n > RxFreeThresh THEN 0 ELSE rx_hold + n)
      /\ bufs' = taken \o stale /\ nb_rx' = n /\ total_packets' = total_packets + n
      /\ pc' = (IF n = 0 THEN "test" ELSE "pkt") /\ i' = 1
  BY DEF EthRxBurst
<1> HIDE DEF n
<1>4. new \in Seq(Mbufs) /\ Len(new) = n /\ pool' \in Seq(Mbufs)
  BY <1>1, <1>2, <1>3, AllocTake
<1>5. /\ left \in Seq(Mbufs) /\ Len(left) = RxDesc - n
      /\ taken \in Seq(Mbufs) /\ Len(taken) = n
  BY <1>1, <1>2, CutType
<1>6. stale \in Seq(Mbufs) /\ Len(stale) \in Nat
  BY <1>1, <1>2
<1> HIDE DEF new, left, taken, stale
<1>7. rxring' \in Seq(Mbufs) /\ Len(rxring') = RxDesc
  <2>1. rxring' \in Seq(Mbufs) /\ Len(rxring') = (RxDesc - n) + n
    BY <1>3, <1>4, <1>5, JoinType, ZenonT(30)
  <2> QED
    BY <1>1, <1>2, <2>1
<1>8. bufs' \in Seq(Mbufs) /\ Len(bufs') >= n
  <2>1. bufs' \in Seq(Mbufs) /\ Len(bufs') = n + Len(stale)
    BY <1>3, <1>5, <1>6, JoinType
  <2> QED
    BY <1>2, <1>6, <2>1
<1>9. DriverType'
  <2>1. rxdone' \in 0..RxDesc /\ rx_hold' \in 0..RxFreeThresh
    BY <1>1, <1>2, <1>3
  <2> QED
    BY <1>t, <1>7, <2>1 DEF EthRxBurst, DriverType
<1>10. LoopType'
  <2>1. /\ nb_rx' \in 0..Burst /\ nb_rx' <= Len(bufs') /\ i' \in 1..nb_rx' + 1
        /\ total_packets' \in Nat /\ pc' \in Pcs
    BY <1>1, <1>2, <1>3, <1>8 DEF Pcs
  <2> QED
    BY <1>t, <1>8, <2>1 DEF EthRxBurst, LoopType
<1>11. PoolType' /\ KniType' /\ WorldType' /\ KernelPutsFit'
  BY <1>t, <1>4 DEF EthRxBurst, PoolType, KniType, WorldType, KernelPutsFit
<1>12. LoopShape'
  <2>1. pc' = "pkt" \/ (pc' = "test" /\ i' = nb_rx' + 1)
    BY <1>2, <1>3
  <2> QED
    BY <1>t, <2>1 DEF EthRxBurst, LoopShape
<1> QED
  BY <1>9, <1>10, <1>11, <1>12 DEF ShapeInv, TypeOK

\* The loop over the burst keeps types and shape.
LEMMA ShapePackets ==
  ASSUME ShapeInv, ForwardPacket \/ FreePacket \/ KniTxBurst \/ KniFreeMbufs \/ EndBurst
  PROVE  ShapeInv'
<1> USE DEF lcore, stats, rxq, txq, fifos, kthread, ksend, world, history
<1>t. /\ LoopType /\ PoolType /\ DriverType /\ KniType /\ WorldType
      /\ LoopShape /\ KernelPutsFit
  BY DEF ShapeInv, TypeOK
<1>a. /\ pool \in Seq(Mbufs) /\ bufs \in Seq(Mbufs) /\ Len(bufs) \in Nat
      /\ nb_rx \in Nat /\ nb_rx <= Len(bufs) /\ i \in Nat /\ i >= 1
  BY <1>t, SizeAssumption DEF LoopType, PoolType
<1>b. ASSUME i <= nb_rx
      PROVE  bufs[i] \in Mbufs /\ <<bufs[i]>> \in Seq(Mbufs) /\ i + 1 \in 1..nb_rx + 1
  BY <1>a, <1>b
<1>1. CASE ForwardPacket
  <2>1. i <= nb_rx /\ pc = "pkt"
    BY <1>1 DEF ForwardPacket, AtPacket
  <2>2. pool' \in Seq(Mbufs)
    BY <1>1, <1>a, <1>b, <2>1, JoinType DEF ForwardPacket, Give
  <2>3. i' \in 1..nb_rx' + 1
    BY <1>1, <1>b, <2>1 DEF ForwardPacket
  <2>4. forwarded_packets' \in Nat
    BY <1>1, <1>t DEF ForwardPacket, LoopType
  <2>5. fwd_out' \in Seq(Nat)
    <3>1. frame[bufs[i]] \in Nat /\ fwd_out \in Seq(Nat)
      BY <1>t, <1>b, <2>1 DEF WorldType
    <3>2. Append(fwd_out, frame[bufs[i]]) \in Seq(Nat)
      BY <3>1, AppendProperties
    <3> QED
      BY <1>1, <3>1, <3>2 DEF ForwardPacket
  <2>6. LoopType' /\ PoolType' /\ WorldType'
    BY <1>1, <1>t, <2>2, <2>3, <2>4, <2>5
    DEF ForwardPacket, LoopType, PoolType, WorldType
  <2>7. DriverType' /\ KniType' /\ KernelPutsFit'
    BY <1>1, <1>t DEF ForwardPacket, DriverType, KniType, KernelPutsFit
  <2>8. LoopShape'
    BY <1>1, <1>t, <2>1 DEF ForwardPacket, LoopShape
  <2> QED
    BY <2>6, <2>7, <2>8 DEF ShapeInv, TypeOK
<1>2. CASE FreePacket
  <2>1. i <= nb_rx /\ pc = "pkt"
    BY <1>2 DEF FreePacket, AtPacket
  <2>2. pool' \in Seq(Mbufs)
    BY <1>2, <1>a, <1>b, <2>1, JoinType DEF FreePacket, Give
  <2>3. i' \in 1..nb_rx' + 1
    BY <1>2, <1>b, <2>1 DEF FreePacket
  <2>4. LoopType' /\ PoolType'
    BY <1>2, <1>t, <2>2, <2>3 DEF FreePacket, LoopType, PoolType
  <2>5. WorldType' /\ DriverType' /\ KniType' /\ KernelPutsFit'
    BY <1>2, <1>t DEF FreePacket, WorldType, DriverType, KniType, KernelPutsFit
  <2>6. LoopShape'
    BY <1>2, <1>t, <2>1 DEF FreePacket, LoopShape
  <2> QED
    BY <2>4, <2>5, <2>6 DEF ShapeInv, TypeOK
<1>3. CASE KniTxBurst
  <2>1. i <= nb_rx /\ pc = "pkt"
    BY <1>3 DEF KniTxBurst, AtPacket
  <2>2. FifoType(rx_q) /\ KniTxCount \in 0..1
    <3>1. FifoType(rx_q)
      BY <1>t DEF KniType
    <3>2. Room(rx_q) \in Nat
      BY <3>1, SizeAssumption DEF Room, FifoType
    <3> QED
      BY <3>1, <3>2 DEF KniTxCount, MinOf
  <2>3. SubSeq(<<bufs[i]>>, 1, kret') \in Seq(Mbufs)
    <3>1. <<bufs[i]>> \in Seq(Mbufs) /\ Len(<<bufs[i]>>) = 1
      BY <1>b, <2>1
    <3>2. kret' \in 0..1
      BY <1>3, <2>2 DEF KniTxBurst
    <3> QED
      BY <3>1, <3>2, CutType
  <2>4. FifoType(rx_q')
    BY <1>3, <2>2, <2>3, FifoPutFits DEF KniTxBurst
  <2>5. LoopType'
    BY <1>3, <1>t, <2>2 DEF KniTxBurst, LoopType, Pcs
  <2>6. KniType'
    BY <1>3, <1>t, <2>4 DEF KniTxBurst, KniType, FifoType
  <2>7. PoolType' /\ WorldType' /\ DriverType' /\ KernelPutsFit'
    BY <1>3, <1>t DEF KniTxBurst, PoolType, WorldType, DriverType, KernelPutsFit
  <2>8. LoopShape'
    BY <1>3, <1>t, <2>1 DEF KniTxBurst, LoopShape
  <2> QED
    BY <2>5, <2>6, <2>7, <2>8 DEF ShapeInv, TypeOK
<1>4. CASE KniFreeMbufs
  <2>1. i <= nb_rx
    BY <1>4, <1>t DEF KniFreeMbufs, LoopShape
  <2>2. /\ free_q \in Seq(Mbufs) /\ Len(free_q) \in Nat /\ Len(free_q) <= FifoLen - 1
        /\ KniBurst \in Nat /\ FifoLen \in Nat
    BY <1>t, SizeAssumption DEF KniType, FifoType
  <2>3. /\ FifoGot(free_q, KniBurst) \in Seq(Mbufs) /\ free_q' \in Seq(Mbufs)
        /\ Len(free_q') = Len(free_q) - MinOf(KniBurst, Len(free_q))
    BY <1>4, <2>2, FifoSplit DEF KniFreeMbufs
  <2>4. Len(free_q') \in Nat /\ Len(free_q') <= Len(free_q)
    BY <2>2, <2>3 DEF MinOf
  <2>5. KniDropped \in Seq(Mbufs)
    BY <1>b, <2>1, EmptySeq DEF KniDropped
  <2>6. pool' \in Seq(Mbufs)
    <3>1. pool \o FifoGot(free_q, KniBurst) \in Seq(Mbufs)
      BY <1>a, <2>3, JoinType
    <3> QED
      BY <1>4, <2>5, <3>1, JoinType DEF KniFreeMbufs, Give
  <2>7. i' \in 1..nb_rx' + 1
    BY <1>4, <1>b, <2>1 DEF KniFreeMbufs
  <2>8. kni_packets' \in Nat
    BY <1>4, <1>t DEF KniFreeMbufs, LoopType
  <2>9. LoopType' /\ PoolType'
    BY <1>4, <1>t, <2>6, <2>7, <2>8 DEF KniFreeMbufs, LoopType, PoolType, Pcs
  <2>10. FifoType(free_q')
    BY <2>2, <2>3, <2>4 DEF FifoType
  <2>11. KniType'
    BY <1>4, <1>t, <2>10 DEF KniFreeMbufs, KniType, FifoType
  <2>12. WorldType' /\ DriverType'
    BY <1>4, <1>t DEF KniFreeMbufs, WorldType, DriverType
  <2>13. Room(free_q') \in Nat /\ Room(free_q) <= Room(free_q')
    BY <2>2, <2>4 DEF Room
  <2>14. KernelPutsFit'
    <3>1. Len(kva) \in Nat /\ Room(free_q) \in Nat
      BY <1>t, <2>2 DEF KniType, Room
    <3> QED
      BY <1>4, <1>t, <2>13, <3>1 DEF KniFreeMbufs, KernelPutsFit, Room
  <2>15. LoopShape'
    <3>1. knum \in Nat /\ Room(free_q) \in Nat
      BY <1>t, <2>2 DEF KniType, Room
    <3> QED
      BY <1>4, <1>t, <2>13, <3>1 DEF KniFreeMbufs, LoopShape
  <2> QED
    BY <2>9, <2>11, <2>12, <2>14, <2>15 DEF ShapeInv, TypeOK
<1>5. CASE EndBurst
  <2>1. LoopType'
    BY <1>5, <1>t DEF EndBurst, LoopType, Pcs
  <2>2. PoolType' /\ WorldType' /\ DriverType' /\ KniType' /\ KernelPutsFit'
    BY <1>5, <1>t DEF EndBurst, PoolType, WorldType, DriverType, KniType, KernelPutsFit
  <2>3. LoopShape'
    <3>1. i = nb_rx + 1
      BY <1>5, <1>t, <1>a DEF EndBurst, LoopType
    <3> QED
      BY <1>5, <1>t, <3>1 DEF EndBurst, LoopShape
  <2> QED
    BY <2>1, <2>2, <2>3 DEF ShapeInv, TypeOK
<1> QED
  BY <1>1, <1>2, <1>3, <1>4, <1>5

\* The kernel's receive thread keeps types and shape.
LEMMA ShapeKernelThread ==
  ASSUME ShapeInv, KernelThread
  PROVE  ShapeInv'
<1> USE DEF lcore, stats, rxq, txq, fifos, kthread, ksend, world, history
<1>t. /\ LoopType /\ PoolType /\ DriverType /\ KniType /\ WorldType
      /\ LoopShape /\ KernelPutsFit
  BY DEF ShapeInv, TypeOK
<1>f. /\ FifoType(rx_q) /\ FifoType(free_q) /\ rx_q \in Seq(Mbufs)
      /\ free_q \in Seq(Mbufs) /\ Len(rx_q) \in Nat /\ Len(free_q) \in Nat
      /\ Room(free_q) \in Nat /\ Room(free_q) <= FifoLen - 1 /\ FifoLen \in Nat
      /\ kva \in Seq(Mbufs) /\ Len(kva) \in Nat /\ knum \in Nat
  BY <1>t, SizeAssumption DEF KniType, FifoType, Room
<1>e. <<>> \in Seq(Mbufs) /\ Len(<<>>) = 0
  BY EmptySeq
<1>1. CASE KniNetRxCount
  <2>1. knum' \in 0..FifoLen - 1 /\ knum' <= Room(free_q)
    BY <1>1, <1>f, SizeAssumption DEF KniNetRxCount, MinOf
  <2>2. KniType'
    BY <1>1, <1>t, <2>1 DEF KniNetRxCount, KniType, FifoType
  <2>3. LoopType' /\ PoolType' /\ DriverType' /\ WorldType' /\ KernelPutsFit'
    BY <1>1, <1>t DEF KniNetRxCount, LoopType, PoolType, DriverType, WorldType,
                      KernelPutsFit
  <2>4. LoopShape'
    BY <1>1, <1>t, <2>1 DEF KniNetRxCount, LoopShape, Room
  <2> QED
    BY <2>2, <2>3, <2>4 DEF ShapeInv, TypeOK
<1>2. CASE KniNetRxGet
  <2>1. /\ kva' \in Seq(Mbufs) /\ Len(kva') = MinOf(knum, Len(rx_q))
        /\ rx_q' \in Seq(Mbufs) /\ Len(rx_q') = Len(rx_q) - MinOf(knum, Len(rx_q))
    BY <1>2, <1>f, FifoSplit DEF KniNetRxGet
  <2>2. Len(kva') \in Nat /\ Len(kva') <= knum /\ Len(rx_q') <= Len(rx_q)
    BY <1>f, <2>1 DEF MinOf
  <2>3. FifoType(rx_q')
    BY <1>f, <2>1, <2>2 DEF FifoType
  <2>4. ki' \in 1..Len(kva') + 1 /\ knum' \in 0..FifoLen - 1
    BY <1>2, <2>2, SizeAssumption DEF KniNetRxGet
  <2>5. KniType'
    BY <1>2, <1>t, <2>1, <2>3, <2>4 DEF KniNetRxGet, KniType, FifoType
  <2>6. LoopType' /\ PoolType' /\ DriverType' /\ WorldType'
    BY <1>2, <1>t DEF KniNetRxGet, LoopType, PoolType, DriverType, WorldType
  <2>7. KernelPutsFit'
    <3>1. Len(kva') <= Room(free_q)
      BY <1>2, <1>t, <1>f, <2>2 DEF KniNetRxGet, LoopShape
    <3> QED
      BY <1>2, <1>t, <3>1 DEF KniNetRxGet, KernelPutsFit, Room
  <2>8. LoopShape'
    BY <1>2, <1>t DEF KniNetRxGet, LoopShape
  <2> QED
    BY <2>5, <2>6, <2>7, <2>8 DEF ShapeInv, TypeOK
<1>3. CASE KniNetRxSkb
  <2>1. ki \in 1..Len(kva) /\ kva[ki] \in Mbufs
    BY <1>3, <1>t, <1>f DEF KniNetRxSkb, KniType
  <2>2. kern_in' \in Seq(Nat)
    <3>1. frame[kva[ki]] \in Nat /\ kern_in \in Seq(Nat)
      BY <1>t, <2>1 DEF WorldType
    <3>2. Append(kern_in, frame[kva[ki]]) \in Seq(Nat)
      BY <3>1, AppendProperties
    <3> QED
      BY <1>3, <3>1, <3>2 DEF KniNetRxSkb
  <2>3. ki' \in 1..Len(kva') + 1 /\ rx_dropped' \in Nat
    BY <1>3, <1>t, <1>f, <2>1 DEF KniNetRxSkb, KniType
  <2>4. KniType' /\ WorldType'
    BY <1>3, <1>t, <2>2, <2>3 DEF KniNetRxSkb, KniType, FifoType, WorldType
  <2>5. LoopType' /\ PoolType' /\ DriverType' /\ KernelPutsFit'
    BY <1>3, <1>t DEF KniNetRxSkb, LoopType, PoolType, DriverType, KernelPutsFit
  <2>6. LoopShape'
    BY <1>3, <1>t DEF KniNetRxSkb, LoopShape
  <2> QED
    BY <2>4, <2>5, <2>6 DEF ShapeInv, TypeOK
<1>4. CASE KniNetRxPut
  <2>1. FifoType(free_q') /\ free_q' \in Seq(Mbufs)
    BY <1>4, <1>f, FifoPutFits DEF KniNetRxPut, FifoType
  <2>2. kva' = <<>> /\ ki' = 1 /\ ktx' = ktx /\ tx_q' = tx_q /\ kpc' = "idle"
    BY <1>4 DEF KniNetRxPut
  <2>3. KniType'
    <3>1. kva' \in Seq(Mbufs) /\ ki' \in 1..Len(kva') + 1
      BY <1>e, <2>2
    <3> QED
      BY <1>4, <1>t, <2>1, <3>1 DEF KniNetRxPut, KniType, FifoType
  <2>4. LoopType' /\ PoolType' /\ DriverType' /\ WorldType'
    BY <1>4, <1>t DEF KniNetRxPut, LoopType, PoolType, DriverType, WorldType
  <2>5. KernelPutsFit'
    <3>1. Len(kva') <= FifoLen - 1 - Len(free_q')
      BY <1>e, <1>f, <2>1, <2>2 DEF FifoType
    <3> QED
      BY <1>t, <2>2, <3>1 DEF KernelPutsFit, Room
  <2>6. LoopShape'
    BY <1>4, <1>t, <2>2 DEF KniNetRxPut, LoopShape
  <2> QED
    BY <2>3, <2>4, <2>5, <2>6 DEF ShapeInv, TypeOK
<1> QED
  BY <1>1, <1>2, <1>3, <1>4 DEF KernelThread

\* Kernel senders, the NIC and signals keep types and shape.
LEMMA ShapeEnvironment ==
  ASSUME ShapeInv, KernelSend \/ NicReceive \/ NicTransmit \/ signal_handler
  PROVE  ShapeInv'
<1> USE DEF lcore, stats, rxq, txq, fifos, kthread, ksend, world, history
<1>t. /\ LoopType /\ PoolType /\ DriverType /\ KniType /\ WorldType
      /\ LoopShape /\ KernelPutsFit
  BY DEF ShapeInv, TypeOK
<1>f. /\ FifoType(alloc_q) /\ FifoType(tx_q) /\ alloc_q \in Seq(Mbufs)
      /\ tx_q \in Seq(Mbufs) /\ Len(alloc_q) \in Nat /\ Len(tx_q) \in Nat
      /\ Room(tx_q) \in Nat /\ FifoLen \in Nat
      /\ ktx \in Seq(Mbufs) /\ Len(ktx) \in Nat
  BY <1>t, SizeAssumption DEF KniType, FifoType, Room
<1>e. <<>> \in Seq(Mbufs) /\ Len(<<>>) = 0
  BY EmptySeq
<1>1. CASE KniNetTxGet
  <2>1. /\ ktx' \in Seq(Mbufs) /\ Len(ktx') = MinOf(1, Len(alloc_q))
        /\ alloc_q' \in Seq(Mbufs)
        /\ Len(alloc_q') = Len(alloc_q) - MinOf(1, Len(alloc_q))
    BY <1>1, <1>f, FifoSplit DEF KniNetTxGet
  <2>2. Len(ktx') <= 1 /\ Len(alloc_q') <= Len(alloc_q) /\ Len(ktx') \in Nat
    BY <1>f, <2>1 DEF MinOf
  <2>3. FifoType(alloc_q')
    BY <1>f, <2>1, <2>2 DEF FifoType
  <2>4. KniType'
    BY <1>1, <1>t, <2>1, <2>3 DEF KniNetTxGet, KniType, FifoType
  <2>5. WorldType'
    <3>1. frame \in [Mbufs -> 0..Len(arrived)] /\ Len(arrived) \in Nat
      BY <1>t DEF WorldType
    <3>2. 0 \in 0..Len(arrived)
      BY <3>1
    <3>3. frame' \in [Mbufs -> 0..Len(arrived)]
      BY <1>1, <3>1, <3>2 DEF KniNetTxGet
    <3>4. UNCHANGED world
      BY <1>1 DEF KniNetTxGet
    <3> QED
      BY <1>t, <3>3, <3>4 DEF world, WorldType
  <2>6. LoopType' /\ PoolType' /\ DriverType'
    BY <1>1, <1>t DEF KniNetTxGet, LoopType, PoolType, DriverType
  <2>7. KernelPutsFit'
    <3>1. Len(ktx') <= Room(tx_q)
      BY <1>1, <1>f, <2>2 DEF KniNetTxGet
    <3> QED
      BY <1>1, <1>t, <3>1 DEF KniNetTxGet, KernelPutsFit, Room
  <2>8. LoopShape'
    BY <1>1, <1>t DEF KniNetTxGet, LoopShape
  <2> QED
    BY <2>4, <2>5, <2>6, <2>7, <2>8 DEF ShapeInv, TypeOK
<1>2. CASE KniNetTxPut
  <2>1. FifoType(tx_q') /\ tx_q' \in Seq(Mbufs) /\ Len(tx_q') <= FifoLen - 1
    BY <1>2, <1>f, FifoPutFits DEF KniNetTxPut, FifoType
  <2>2. ktx' = <<>> /\ kva' = kva /\ free_q' = free_q
    BY <1>2 DEF KniNetTxPut
  <2>3. KniType'
    BY <1>2, <1>t, <1>e, <2>1 DEF KniNetTxPut, KniType, FifoType
  <2>4. LoopType' /\ PoolType' /\ DriverType' /\ WorldType'
    BY <1>2, <1>t DEF KniNetTxPut, LoopType, PoolType, DriverType, WorldType
  <2>5. KernelPutsFit'
    <3>1. Len(ktx') <= FifoLen - 1 - Len(tx_q')
      BY <1>e, <1>f, <2>1, <2>2
    <3> QED
      BY <1>t, <2>2, <3>1 DEF KernelPutsFit, Room
  <2>6. LoopShape'
    BY <1>2, <1>t DEF KniNetTxPut, LoopShape
  <2> QED
    BY <2>3, <2>4, <2>5, <2>6 DEF ShapeInv, TypeOK
<1>3. CASE NicReceive
  <2>1. /\ arrived \in Seq(Packets) /\ Len(arrived) \in Nat
        /\ arrived' \in Seq(Packets) /\ Len(arrived') = Len(arrived) + 1
    BY <1>3, <1>t DEF NicReceive, WorldType
  <2>2. frame' \in [Mbufs -> 0..Len(arrived')]
    <3>1. frame \in [Mbufs -> 0..Len(arrived')] /\ Len(arrived) + 1 \in 0..Len(arrived')
      BY <1>t, <2>1 DEF WorldType
    <3> QED
      BY <1>3, <3>1 DEF NicReceive
  <2>3. WorldType'
    BY <1>3, <1>t, <2>1, <2>2 DEF NicReceive, WorldType
  <2>4. DriverType'
    <3>1. rxdone' \in 0..RxDesc
      BY <1>3, <1>t, SizeAssumption DEF NicReceive, DriverType
    <3> QED
      BY <1>3, <1>t, <3>1 DEF NicReceive, DriverType
  <2>5. LoopType' /\ PoolType' /\ KniType' /\ KernelPutsFit'
    BY <1>3, <1>t DEF NicReceive, LoopType, PoolType, KniType, KernelPutsFit
  <2>6. LoopShape'
    BY <1>3, <1>t DEF NicReceive, LoopShape
  <2> QED
    BY <2>3, <2>4, <2>5, <2>6 DEF ShapeInv, TypeOK
<1>4. CASE NicTransmit
  <2>1. DriverType'
    <3>1. txdone' \in 0..TxDesc - 1 - nb_tx_free
      BY <1>4, <1>t, SizeAssumption DEF NicTransmit, DriverType
    <3> QED
      BY <1>4, <1>t, <3>1 DEF NicTransmit, DriverType
  <2>2. LoopType' /\ PoolType' /\ KniType' /\ WorldType' /\ KernelPutsFit'
    BY <1>4, <1>t DEF NicTransmit, LoopType, PoolType, KniType, WorldType, KernelPutsFit
  <2>3. LoopShape'
    BY <1>4, <1>t DEF NicTransmit, LoopShape
  <2> QED
    BY <2>1, <2>2, <2>3 DEF ShapeInv, TypeOK
<1>5. CASE signal_handler
  <2>1. LoopType'
    BY <1>5, <1>t DEF signal_handler, LoopType
  <2>2. PoolType' /\ DriverType' /\ KniType' /\ WorldType' /\ KernelPutsFit'
    BY <1>5, <1>t DEF signal_handler, PoolType, DriverType, KniType, WorldType,
                      KernelPutsFit
  <2>3. LoopShape'
    BY <1>5, <1>t DEF signal_handler, LoopShape
  <2> QED
    BY <2>1, <2>2, <2>3 DEF ShapeInv, TypeOK
<1> QED
  BY <1>1, <1>2, <1>3, <1>4, <1>5 DEF KernelSend

\* Every step keeps types and shape.
LEMMA ShapeStep == ShapeInv /\ [Next]_vars => ShapeInv'
<1> SUFFICES ASSUME ShapeInv, [Next]_vars PROVE ShapeInv'
  OBVIOUS
<1>1. CASE Lcore
  BY <1>1, ShapeLcoreTx, ShapeEthTx, ShapeEthRx, ShapePackets DEF Lcore
<1>2. CASE KernelThread
  BY <1>2, ShapeKernelThread
<1>3. CASE signal_handler \/ KernelSend \/ NicReceive \/ NicTransmit
  BY <1>3, ShapeEnvironment
<1>4. CASE UNCHANGED vars
  <2>1. LoopType' <=> LoopType
    BY <1>4 DEF vars, lcore, stats, LoopType
  <2>2. PoolType' <=> PoolType
    BY <1>4 DEF vars, history, PoolType
  <2>3. DriverType' <=> DriverType
    BY <1>4 DEF vars, rxq, txq, DriverType
  <2>4. KniType' <=> KniType
    BY <1>4 DEF vars, fifos, kthread, ksend, KniType
  <2>5. WorldType' <=> WorldType
    BY <1>4 DEF vars, world, WorldType
  <2>6. LoopShape' <=> LoopShape
    BY <1>4 DEF vars, lcore, kthread, fifos, LoopShape, Room
  <2>7. KernelPutsFit' <=> KernelPutsFit
    BY <1>4 DEF vars, kthread, ksend, fifos, KernelPutsFit, Room
  <2> QED
    BY <2>1, <2>2, <2>3, <2>4, <2>5, <2>6, <2>7 DEF ShapeInv, TypeOK
<1> QED
  BY <1>1, <1>2, <1>3, <1>4 DEF Next

\* The variables keep their types: no index of lcore_main, of the driver's rings
\* or of the KNI FIFOs leaves its range, whatever the sizes.
THEOREM LoopTypes == Spec => []TypeOK
<1>1. ShapeInv => TypeOK
  BY DEF ShapeInv
<1> QED
  BY <1>1, InitShape, ShapeStep, PTL DEF Spec

\* The kernel's puts into tx_q and free_q always fit, for every FIFO length and
\* burst: what kni_net_tx and kni_net_rx_normal call a failure that should not
\* happen does not.
THEOREM KernelPutsAlwaysFit == Spec => []KernelPutsFit
<1>1. ShapeInv => KernelPutsFit
  BY DEF ShapeInv
<1> QED
  BY <1>1, InitShape, ShapeStep, PTL DEF Spec

-----------------------------------------------------------------------------
(* Custody *)

\* The places of Held.
Places == {"pool", "refused", "rxring", "pending", "kmbuf", "apkts", "rx_q",
           "kva", "free_q", "alloc_q", "ktx", "tx_q", "txring"}

\* The sequence t is cut into s and r: nothing is lost or doubled.
Parts(t, s, r) ==
  /\ Range(s) \cup Range(r) = Range(t)
  /\ IsInjective(t) =>
       IsInjective(s) /\ IsInjective(r) /\ Range(s) \cap Range(r) = {}

\* g is h after the mbufs of s have gone from p to the end of q, and p is left
\* with r.
Passing(h, g, p, q, s, r) ==
  /\ p # q
  /\ DOMAIN g = DOMAIN h
  /\ g[p] = r
  /\ g[q] = h[q] \o s
  /\ \A x \in DOMAIN h : x \notin {p, q} => g[x] = h[x]

\* Passing mbufs from one place to another keeps one holder for each.
LEMMA Passed ==
  ASSUME NEW h, NEW g, OneHolder(h), NEW p \in DOMAIN h, NEW q \in DOMAIN h,
         h[q] \in Seq(Mbufs), NEW s \in Seq(Mbufs), NEW r, Parts(h[p], s, r),
         Passing(h, g, p, q, s, r)
  PROVE  OneHolder(g)
<1>1. /\ IsInjective(h[p]) /\ IsInjective(h[q])
      /\ Range(h[p]) \cap Range(h[q]) = {} /\ p # q
  BY DEF OneHolder, Passing
<1>2. /\ IsInjective(s) /\ IsInjective(r) /\ Range(s) \cap Range(r) = {}
      /\ Range(s) \cup Range(r) = Range(h[p])
  BY <1>1 DEF Parts
<1>3. Range(g[q]) = Range(h[q]) \cup Range(s) /\ IsInjective(g[q])
  <2>1. Range(h[q]) \cap Range(s) = {}
    BY <1>1, <1>2
  <2> QED
    BY <1>1, <1>2, <2>1, Join DEF Passing
<1>4. g[p] = r /\ \A x \in DOMAIN h : x # p /\ x # q => g[x] = h[x]
  BY DEF Passing
<1>5. \A x \in DOMAIN h : IsInjective(g[x])
  BY <1>2, <1>3, <1>4 DEF OneHolder
<1>6. ASSUME NEW x \in DOMAIN h, x # p, x # q
      PROVE  /\ Range(g[x]) \cap Range(g[p]) = {}
             /\ Range(g[x]) \cap Range(g[q]) = {}
  <2>1. Range(h[x]) \cap Range(h[p]) = {} /\ Range(h[x]) \cap Range(h[q]) = {}
    BY <1>6 DEF OneHolder
  <2>2. g[x] = h[x]
    BY <1>4, <1>6
  <2> QED
    BY <1>2, <1>3, <1>4, <2>1, <2>2
<1>7. Range(g[p]) \cap Range(g[q]) = {}
  BY <1>1, <1>2, <1>3, <1>4
<1>8. ASSUME NEW x \in DOMAIN h, NEW y \in DOMAIN h, x # y
      PROVE  Range(g[x]) \cap Range(g[y]) = {}
  <2>1. CASE x \notin {p, q} /\ y \notin {p, q}
    BY <1>4, <1>8, <2>1 DEF OneHolder
  <2>2. CASE x \in {p, q} /\ y \in {p, q}
    BY <1>7, <1>8, <2>2
  <2>3. CASE x \notin {p, q} /\ y \in {p, q}
    BY <1>6, <2>3
  <2>4. CASE x \in {p, q} /\ y \notin {p, q}
    BY <1>6, <2>4
  <2> QED
    BY <2>1, <2>2, <2>3, <2>4
<1>9. ASSUME NEW m \in Mbufs PROVE \E x \in DOMAIN h : m \in Range(g[x])
  <2>1. PICK x \in DOMAIN h : m \in Range(h[x])
    BY DEF OneHolder
  <2>2. CASE x \notin {p, q}
    BY <1>4, <2>1, <2>2
  <2>3. CASE x = p
    <3>1. m \in Range(s) \/ m \in Range(r)
      BY <1>2, <2>1, <2>3
    <3> QED
      BY <1>3, <1>4, <3>1
  <2>4. CASE x = q
    BY <1>3, <2>1, <2>4
  <2> QED
    BY <2>2, <2>3, <2>4
<1>10. DOMAIN g = DOMAIN h
  BY DEF Passing
<1> QED
  BY <1>5, <1>8, <1>9, <1>10 DEF OneHolder

\* The places and what they hold.
LEMMA HeldPlaces ==
  /\ DOMAIN Held = Places
  /\ Held["pool"] = pool /\ Held["refused"] = refused /\ Held["rxring"] = rxring
  /\ Held["pending"] = Pending /\ Held["kmbuf"] = kmbuf /\ Held["apkts"] = apkts
  /\ Held["rx_q"] = rx_q /\ Held["kva"] = kva /\ Held["free_q"] = free_q
  /\ Held["alloc_q"] = alloc_q /\ Held["ktx"] = ktx /\ Held["tx_q"] = tx_q
  /\ Held["txring"] = txring
BY DEF Held, Places

\* The same after a step.
LEMMA HeldPlacesNext ==
  /\ DOMAIN Held' = Places
  /\ Held'["pool"] = pool' /\ Held'["refused"] = refused' /\ Held'["rxring"] = rxring'
  /\ Held'["pending"] = Pending' /\ Held'["kmbuf"] = kmbuf' /\ Held'["apkts"] = apkts'
  /\ Held'["rx_q"] = rx_q' /\ Held'["kva"] = kva' /\ Held'["free_q"] = free_q'
  /\ Held'["alloc_q"] = alloc_q' /\ Held'["ktx"] = ktx' /\ Held'["tx_q"] = tx_q'
  /\ Held'["txring"] = txring'
BY DEF Held, Places

\* kni_fifo_get cuts a queue, an allocation cuts the pool.
LEMMA GotParts ==
  ASSUME NEW q \in Seq(Mbufs), NEW n \in Nat
  PROVE  /\ Parts(q, FifoGot(q, n), FifoRest(q, n)) /\ FifoGot(q, n) \in Seq(Mbufs)
         /\ FifoRest(q, n) \in Seq(Mbufs)
         /\ Parts(q, Allocated(q, n), Take(q, n)) /\ Allocated(q, n) \in Seq(Mbufs)
         /\ Take(q, n) \in Seq(Mbufs)
BY FifoSplit, AllocTake DEF Parts

\* A sequence passed on as a whole.
LEMMA WholeParts ==
  ASSUME NEW s \in Seq(Mbufs)
  PROVE  Parts(s, s, <<>>) /\ s \o <<>> = s /\ <<>> \o s = s
<1>1. Range(<<>>) = {} /\ IsInjective(<<>>)
  BY DEF Range, IsInjective
<1>2. s \o <<>> = s /\ <<>> \o s = s
  OBVIOUS
<1> QED
  BY <1>1, <1>2 DEF Parts

-----------------------------------------------------------------------------
(* What the actions do to the places *)

\* The part of a burst still to be disposed of begins at bufs[i], or one further
\* if rte_kni_tx_burst has just taken bufs[i].
LEMMA PendingIs ==
  ASSUME ShapeInv
  PROVE  /\ Pending = SubSeq(bufs, i + kret, nb_rx)
         /\ Pending \in Seq(Mbufs)
         /\ pc \notin {"pkt", "kfree"} => Pending = <<>>
         /\ \A k \in Nat : SubSeq(bufs, k + 1, k) = <<>>
<1>1. /\ bufs \in Seq(Mbufs) /\ nb_rx \in Nat /\ nb_rx <= Len(bufs) /\ Len(bufs) \in Nat
      /\ i \in Nat /\ i >= 1 /\ i <= nb_rx + 1 /\ kret \in 0..1
  BY SizeAssumption DEF ShapeInv, TypeOK, LoopType
<1>2. /\ pc \notin {"pkt", "kfree"} => i = nb_rx + 1
      /\ pc # "kfree" => kret = 0
  BY DEF ShapeInv, LoopShape
<1>3. Pending = SubSeq(bufs, i + kret, nb_rx)
  BY <1>1, <1>2 DEF Pending
<1>4. \A a \in 1..nb_rx + 2 : SubSeq(bufs, a, nb_rx) \in Seq(Mbufs)
  BY <1>1
<1>5. \A k \in Nat : SubSeq(bufs, k + 1, k) = <<>>
  BY <1>1
<1>6. i + kret \in 1..nb_rx + 2
  BY <1>1
<1>7. pc \notin {"pkt", "kfree"} => i + kret = nb_rx + 1
  BY <1>1, <1>2
<1> QED
  BY <1>1, <1>3, <1>4, <1>5, <1>6, <1>7

\* The same after a step.
LEMMA PendingIsNext ==
  ASSUME ShapeInv' PROVE Pending' = SubSeq(bufs', i' + kret', nb_rx')
<1>1. i' \in Nat /\ kret' \in 0..1 /\ (pc' # "kfree" => kret' = 0)
  BY SizeAssumption DEF ShapeInv, TypeOK, LoopType, LoopShape
<1>2. Pending' = SubSeq(bufs', IF pc' = "kfree" /\ kret' = 1 THEN i' + 1 ELSE i', nb_rx')
  BY DEF Pending
<1>3. (IF pc' = "kfree" /\ kret' = 1 THEN i' + 1 ELSE i') = i' + kret'
  <2>0. kret' = 0 \/ kret' = 1
    BY <1>1
  <2>1. CASE kret' = 0
    <3>1. i' \in Nat
      BY <1>1
    <3>2. \A n \in Nat : n + 0 = n
      OBVIOUS
    <3> QED
      BY <2>1, <3>1, <3>2
  <2>2. CASE kret' = 1
    <3>1. pc' = "kfree"
      BY <1>1, <2>2
    <3> QED
      BY <2>2, <3>1
  <2> QED
    BY <2>0, <2>1, <2>2
<1> QED
  BY <1>2, <1>3

\* The types of the places.
LEMMA PlaceTypes ==
  ASSUME ShapeInv
  PROVE  /\ pool \in Seq(Mbufs) /\ refused \in Seq(Mbufs) /\ rxring \in Seq(Mbufs)
         /\ kmbuf \in Seq(Mbufs) /\ apkts \in Seq(Mbufs) /\ rx_q \in Seq(Mbufs)
         /\ kva \in Seq(Mbufs) /\ free_q \in Seq(Mbufs) /\ alloc_q \in Seq(Mbufs)
         /\ ktx \in Seq(Mbufs) /\ tx_q \in Seq(Mbufs) /\ txring \in Seq(Mbufs)
         /\ FifoType(rx_q) /\ FifoType(free_q) /\ FifoType(alloc_q) /\ FifoType(tx_q)
         /\ Room(rx_q) \in Nat /\ Room(free_q) \in Nat /\ Room(alloc_q) \in Nat
         /\ Room(tx_q) \in Nat
BY SizeAssumption DEF ShapeInv, TypeOK, LoopType, PoolType, DriverType, KniType,
                      FifoType, Room

\* kni_request_handler up to the driver: a packet comes out of tx_q, and mbufs go
\* from the pool to alloc_q.
LEMMA CustodyLcoreTx ==
  ASSUME ShapeInv, ShapeInv', OneHolder(Held), KniRxBurst \/ KniAllocate \/ KniRefill
  PROVE  OneHolder(Held')
<1>p. Pending = SubSeq(bufs, i + kret, nb_rx) /\ Pending' = SubSeq(bufs', i' + kret', nb_rx')
  BY PendingIs, PendingIsNext
<1>1. CASE KniRxBurst
  <2>1. kmbuf = <<>>
    BY <1>1 DEF KniRxBurst, ShapeInv, LoopShape
  <2> DEFINE s == FifoGot(tx_q, 1)
             r == FifoRest(tx_q, 1)
  <2>2. s \in Seq(Mbufs) /\ Parts(tx_q, s, r)
    BY PlaceTypes, GotParts
  <2>3. kmbuf' = kmbuf \o s /\ tx_q' = r
    BY <1>1, <2>1, <2>2, WholeParts DEF KniRxBurst
  <2> HIDE DEF s, r
  <2>4. Passing(Held, Held', "tx_q", "kmbuf", s, r)
    BY <1>1, <1>p, <2>3, HeldPlaces, HeldPlacesNext
       DEF KniRxBurst, Passing, Places, rxq, txq, fifos, kthread, ksend, history
  <2> QED
    BY <2>2, <2>4, Passed, PlaceTypes, HeldPlaces DEF Places
<1>2. CASE KniAllocate
  <2>1. apkts = <<>>
    BY <1>2 DEF KniAllocate, ShapeInv, LoopShape
  <2>a. AllocqFree \in Nat
    BY PlaceTypes, MinOfNat, SizeAssumption DEF AllocqFree
  <2> DEFINE s == Allocated(pool, AllocqFree)
             r == Take(pool, AllocqFree)
  <2>2. s \in Seq(Mbufs) /\ Parts(pool, s, r)
    BY <2>a, PlaceTypes, GotParts
  <2>3. apkts' = apkts \o s /\ pool' = r
    BY <1>2, <2>1, <2>2, WholeParts DEF KniAllocate
  <2> HIDE DEF s, r
  <2>4. Passing(Held, Held', "pool", "apkts", s, r)
    BY <1>2, <1>p, <2>3, HeldPlaces, HeldPlacesNext
       DEF KniAllocate, Passing, Places, rxq, txq, fifos, kthread, ksend, history
  <2> QED
    BY <2>2, <2>4, Passed, PlaceTypes, HeldPlaces DEF Places
<1>3. CASE KniRefill
  <2> DEFINE n == Room(alloc_q)
             s == FifoGot(apkts, n)
             r == FifoRest(apkts, n)
             h == [Held EXCEPT !["apkts"] = r, !["alloc_q"] = alloc_q \o s]
  <2>1. /\ s \in Seq(Mbufs) /\ r \in Seq(Mbufs) /\ Parts(apkts, s, r)
        /\ Parts(r, r, <<>>)
    BY PlaceTypes, GotParts, WholeParts
  <2>2. s = SubSeq(apkts, 1, MinOf(Len(apkts), Room(alloc_q)))
    <3>1. Len(apkts) \in Nat /\ Room(alloc_q) \in Nat
      BY PlaceTypes
    <3>2. MinOf(Room(alloc_q), Len(apkts)) = MinOf(Len(apkts), Room(alloc_q))
      BY <3>1 DEF MinOf
    <3> QED
      BY <3>2 DEF FifoGot
  <2>3. alloc_q' = alloc_q \o s /\ pool' = pool \o r /\ apkts' = <<>>
    BY <1>3, <2>2 DEF KniRefill, FifoPut, Give
  <2>4. /\ DOMAIN h = Places /\ h["apkts"] = r /\ h["alloc_q"] = alloc_q \o s
        /\ \A x \in Places : x \notin {"apkts", "alloc_q"} => h[x] = Held[x]
    BY HeldPlaces DEF Places
  <2> HIDE DEF s, r, h, n
  <2>5. OneHolder(h)
    <3>1. Passing(Held, h, "apkts", "alloc_q", s, r)
      BY <2>4, HeldPlaces DEF Passing, Places
    <3> QED
      BY <2>1, <3>1, Passed, PlaceTypes, HeldPlaces DEF Places
  <2>6. Passing(h, Held', "apkts", "pool", r, <<>>)
    <3>1. /\ UNCHANGED <<refused, rxring, kmbuf, rx_q, kva, free_q, ktx, tx_q, txring>>
          /\ UNCHANGED <<bufs, i, kret, nb_rx>>
      BY <1>3 DEF KniRefill, rxq, txq, kthread, ksend, history
    <3>2. Pending' = Pending
      BY <1>p, <3>1
    <3> QED
      BY <2>3, <2>4, <3>1, <3>2, HeldPlaces, HeldPlacesNext DEF Passing, Places
  <2>7. h["pool"] = pool /\ h["apkts"] = r /\ "pool" \in DOMAIN h /\ "apkts" \in DOMAIN h
    BY <2>4, HeldPlaces DEF Places
  <2> QED
    BY <2>1, <2>5, <2>6, <2>7, Passed, PlaceTypes
<1> QED
  BY <1>1, <1>2, <1>3

\* rte_eth_tx_burst of the driver: the mbuf of the last round goes back to the
\* pool, the new one takes its slot; or the new one is refused.
LEMMA CustodyEthTx ==
  ASSUME ShapeInv, ShapeInv', OneHolder(Held), EthTxBurst \/ EthTxRefused, ~ wild'
  PROVE  OneHolder(Held')
<1>p. Pending = SubSeq(bufs, i + kret, nb_rx) /\ Pending' = SubSeq(bufs', i' + kret', nb_rx')
  BY PendingIs, PendingIsNext
<1>w. Parts(kmbuf, kmbuf, <<>>)
  BY PlaceTypes, WholeParts
<1>1. CASE EthTxBurst
  <2> DEFINE n == IF Len(txring) = TxDesc THEN 1 ELSE 0
             s == FifoGot(txring, n)
             r == FifoRest(txring, n)
             h == [Held EXCEPT !["txring"] = r, !["pool"] = pool \o s]
  <2>1. s \in Seq(Mbufs) /\ r \in Seq(Mbufs) /\ Parts(txring, s, r)
    BY PlaceTypes, GotParts
  <2>2. /\ SentBefore = s
        /\ SubSeq(txring, Len(SentBefore) + 1, Len(txring)) = r
    <3>1. txring \in Seq(Mbufs) /\ Len(txring) \in Nat /\ TxDesc \in Nat /\ TxDesc >= 2
      BY PlaceTypes, SizeAssumption
    <3>2. CASE Len(txring) = TxDesc
      <4>1. n = 1 /\ MinOf(n, Len(txring)) = 1
        BY <3>1, <3>2 DEF MinOf
      <4>2. s = SubSeq(txring, 1, 1) /\ r = SubSeq(txring, 2, Len(txring))
        BY <4>1 DEF FifoGot, FifoRest
      <4>3. SentBefore = SubSeq(txring, 1, 1)
        BY <3>2 DEF SentBefore
      <4>4. Len(SubSeq(txring, 1, 1)) = 1
        BY <3>1, <3>2
      <4> QED
        BY <4>2, <4>3, <4>4
    <3>3. CASE Len(txring) # TxDesc
      <4>1. n = 0 /\ MinOf(n, Len(txring)) = 0
        BY <3>1, <3>3 DEF MinOf
      <4>2. s = SubSeq(txring, 1, 0) /\ r = SubSeq(txring, 1, Len(txring))
        BY <4>1 DEF FifoGot, FifoRest
      <4>3. SentBefore = <<>> /\ Len(<<>>) = 0
        BY <3>3 DEF SentBefore
      <4>4. SubSeq(txring, 1, 0) = <<>>
        BY <3>1
      <4> QED
        BY <4>2, <4>3, <4>4
    <3> QED
      BY <3>2, <3>3
  <2>3. txring' = r \o kmbuf /\ pool' = pool \o s /\ kmbuf' = <<>>
    BY <1>1, <2>2 DEF EthTxBurst, Give
  <2>4. /\ DOMAIN h = Places /\ h["txring"] = r /\ h["pool"] = pool \o s
        /\ \A x \in Places : x \notin {"txring", "pool"} => h[x] = Held[x]
    BY HeldPlaces DEF Places
  <2> HIDE DEF s, r, h, n
  <2>5. OneHolder(h)
    <3>1. Passing(Held, h, "txring", "pool", s, r)
      BY <2>4, HeldPlaces DEF Passing, Places
    <3> QED
      BY <2>1, <3>1, Passed, PlaceTypes, HeldPlaces DEF Places
  <2>6. Passing(h, Held', "kmbuf", "txring", kmbuf, <<>>)
    <3>1. /\ UNCHANGED <<refused, rxring, apkts, rx_q, kva, free_q, alloc_q, ktx, tx_q>>
          /\ UNCHANGED <<bufs, i, kret, nb_rx>>
      BY <1>1 DEF EthTxBurst, rxq, fifos, kthread, ksend, history
    <3>2. Pending' = Pending
      BY <1>p, <3>1
    <3> QED
      BY <2>3, <2>4, <3>1, <3>2, HeldPlaces, HeldPlacesNext DEF Passing, Places
  <2>7. h["kmbuf"] = kmbuf /\ "kmbuf" \in DOMAIN h /\ "txring" \in DOMAIN h
    BY <2>4, HeldPlaces DEF Places
  <2> QED
    BY <1>w, <2>1, <2>4, <2>5, <2>6, <2>7, Passed, PlaceTypes
<1>2. CASE EthTxRefused
  <2>1. refused' = refused \o kmbuf /\ kmbuf' = <<>> /\ pool' = pool
    BY <1>2 DEF EthTxRefused
  <2>2. Passing(Held, Held', "kmbuf", "refused", kmbuf, <<>>)
    BY <1>2, <1>p, <2>1, HeldPlaces, HeldPlacesNext
       DEF EthTxRefused, Passing, Places, rxq, txq, fifos, kthread, ksend
  <2> QED
    BY <1>w, <2>2, Passed, PlaceTypes, HeldPlaces DEF Places
<1> QED
  BY <1>1, <1>2

\* rte_eth_rx_burst of the driver: the filled mbufs go from the ring to the burst,
\* and fresh ones from the pool take their descriptors.
LEMMA CustodyEthRx ==
  ASSUME ShapeInv, ShapeInv', OneHolder(Held), EthRxBurst
  PROVE  OneHolder(Held')
<1> DEFINE n == MinOf(MinOf(Burst, rxdone), Len(pool))
           s == FifoGot(rxring, n)
           r == FifoRest(rxring, n)
           a == Allocated(pool, n)
           b == Take(pool, n)
           h == [Held EXCEPT !["rxring"] = r, !["pending"] = s]
<1>1. /\ rxring \in Seq(Mbufs) /\ Len(rxring) = RxDesc /\ RxDesc \in Nat
      /\ rxdone \in Nat /\ rxdone <= RxDesc /\ Burst \in Nat
      /\ pool \in Seq(Mbufs) /\ Len(pool) \in Nat
      /\ bufs \in Seq(Mbufs) /\ Len(bufs) \in Nat
  <2>1. DriverType /\ PoolType /\ LoopType
    BY DEF ShapeInv, TypeOK
  <2>2. rxring \in Seq(Mbufs) /\ Len(rxring) = RxDesc /\ rxdone \in 0..RxDesc
    BY <2>1 DEF DriverType
  <2>3. pool \in Seq(Mbufs) /\ bufs \in Seq(Mbufs)
    BY <2>1 DEF PoolType, LoopType
  <2>4. RxDesc \in Nat /\ Burst \in Nat
    BY SizeAssumption
  <2> QED
    BY <2>2, <2>3, <2>4
<1>2. n \in Nat /\ n <= RxDesc
  BY <1>1 DEF MinOf
<1>3. /\ pool' = b /\ rxring' = SubSeq(rxring, n + 1, RxDesc) \o a
      /\ bufs' = SubSeq(rxring, 1, n) \o SubSeq(bufs, n + 1, Len(bufs))
      /\ nb_rx' = n /\ i' = 1 /\ kret' = kret
  BY DEF EthRxBurst
<1>4. kret = 0 /\ Pending = <<>>
  BY PendingIs DEF EthRxBurst, ShapeInv, LoopShape
<1> HIDE DEF n
<1>5. s = SubSeq(rxring, 1, n) /\ r = SubSeq(rxring, n + 1, RxDesc)
  <2>1. MinOf(n, Len(rxring)) = n
    BY <1>1, <1>2 DEF MinOf
  <2> QED
    BY <1>1, <2>1 DEF FifoGot, FifoRest
<1>6. /\ s \in Seq(Mbufs) /\ r \in Seq(Mbufs) /\ Parts(rxring, s, r)
      /\ a \in Seq(Mbufs) /\ b \in Seq(Mbufs) /\ Parts(pool, a, b)
  BY <1>1, <1>2, GotParts
<1>7. Pending' = s
  <2>1. Len(s) = n
    BY <1>1, <1>2, <1>5
  <2>2. Pending' = SubSeq(bufs', 1, n)
    <3>1. i' + kret' = 1 /\ nb_rx' = n
      BY <1>3, <1>4
    <3> QED
      BY <3>1, PendingIsNext
  <2> DEFINE t == SubSeq(bufs, n + 1, Len(bufs))
  <2>3. t \in Seq(Mbufs)
    BY <1>1, <1>2
  <2>4. bufs' = s \o t
    BY <1>3, <1>5
  <2> HIDE DEF s, t
  <2>5. SubSeq(s \o t, 1, n) = s
    BY <1>2, <1>6, <2>1, <2>3
  <2> QED
    BY <2>2, <2>4, <2>5
<1>8. /\ DOMAIN h = Places /\ h["rxring"] = r /\ h["pending"] = s
      /\ \A x \in Places : x \notin {"rxring", "pending"} => h[x] = Held[x]
  BY HeldPlaces DEF Places
<1>9. rxring' = r \o a
  BY <1>3, <1>5
<1> HIDE DEF s, r, a, b, h
<1>10. OneHolder(h)
  <2>1. Pending \o s = s /\ Pending \in Seq(Mbufs)
    BY <1>4, <1>6, WholeParts, PendingIs
  <2>2. Passing(Held, h, "rxring", "pending", s, r)
    BY <1>8, <2>1, HeldPlaces DEF Passing, Places
  <2> QED
    BY <1>6, <2>1, <2>2, Passed, HeldPlaces DEF Places
<1>11. Passing(h, Held', "pool", "rxring", a, b)
  BY <1>3, <1>7, <1>8, <1>9, HeldPlaces, HeldPlacesNext
     DEF EthRxBurst, Passing, Places, txq, fifos, kthread, ksend, history
<1>12. h["pool"] = pool /\ "pool" \in DOMAIN h /\ "rxring" \in DOMAIN h
  BY <1>8, HeldPlaces DEF Places
<1> QED
  BY <1>6, <1>8, <1>10, <1>11, <1>12, Passed

\* While a burst is being disposed of, its next packet is the head of what is
\* pending.
LEMMA PendingHead ==
  ASSUME ShapeInv, i <= nb_rx, kret = 0
  PROVE  /\ bufs[i] \in Mbufs /\ <<bufs[i]>> \in Seq(Mbufs)
         /\ Parts(Pending, <<bufs[i]>>, SubSeq(bufs, i + 1, nb_rx))
<1>1. /\ bufs \in Seq(Mbufs) /\ nb_rx \in Nat /\ nb_rx <= Len(bufs) /\ Len(bufs) \in Nat
      /\ i \in 1..nb_rx /\ i \in 1..Len(bufs)
  <2>1. LoopType /\ Burst \in Nat
    BY SizeAssumption DEF ShapeInv, TypeOK
  <2> QED
    BY <2>1 DEF LoopType
<1>2. Pending = SubSeq(bufs, i, nb_rx) /\ Pending \in Seq(Mbufs)
  <2>1. i + kret = i
    BY <1>1
  <2> QED
    BY <2>1, PendingIs
<1> DEFINE p == SubSeq(bufs, i, nb_rx)
<1>3. /\ Len(p) = nb_rx + 1 - i /\ Len(p) >= 1 /\ p[1] = bufs[i]
  BY <1>1
<1>4. SubSeq(p, 2, Len(p)) = SubSeq(bufs, i + 1, nb_rx)
  BY <1>1, <1>3
<1> HIDE DEF p
<1>5. FifoGot(p, 1) = SubSeq(p, 1, 1) /\ FifoRest(p, 1) = SubSeq(p, 2, Len(p))
  <2>1. MinOf(1, Len(p)) = 1
    BY <1>1, <1>3 DEF MinOf
  <2> QED
    BY <2>1 DEF FifoGot, FifoRest
<1>p. p \in Seq(Mbufs)
  BY <1>2 DEF p
<1>6. SubSeq(p, 1, 1) = <<p[1]>>
  <2>1. p[1] \in Mbufs /\ 1 \in 0..Len(p)
    BY <1>p, <1>3
  <2> DEFINE u == SubSeq(p, 1, 1)
             v == <<p[1]>>
  <2>2. u \in Seq(Mbufs) /\ Len(u) = 1 /\ u[1] = p[1]
    BY <1>p, <2>1, CutType
  <2>3. v \in Seq(Mbufs) /\ Len(v) = 1 /\ v[1] = p[1]
    BY <2>1
  <2> HIDE DEF u, v
  <2>4. u = v
    BY <2>2, <2>3, SeqEqual
  <2> QED
    BY <2>4 DEF u, v
<1>7. Parts(p, FifoGot(p, 1), FifoRest(p, 1))
  BY <1>2, GotParts DEF p
<1>8. bufs[i] \in Mbufs
  BY <1>1
<1>9. Parts(p, <<bufs[i]>>, SubSeq(bufs, i + 1, nb_rx))
  BY <1>3, <1>4, <1>5, <1>6, <1>7
<1>10. <<bufs[i]>> \in Seq(Mbufs)
  BY <1>8
<1> QED
  BY <1>2, <1>8, <1>9, <1>10 DEF p

\* The packets of a burst: each goes to the pool, or to rx_q; and what the kernel
\* has returned through free_q goes to the pool.
LEMMA CustodyPackets ==
  ASSUME ShapeInv, ShapeInv', OneHolder(Held),
         ForwardPacket \/ FreePacket \/ KniTxBurst \/ KniFreeMbufs
  PROVE  OneHolder(Held')
<1>p. Pending' = SubSeq(bufs', i' + kret', nb_rx') /\ Pending \in Seq(Mbufs)
  BY PendingIs, PendingIsNext
<1>i. i \in Nat /\ nb_rx \in Nat
  BY SizeAssumption DEF ShapeInv, TypeOK, LoopType
<1> DEFINE m == <<bufs[i]>>
           r == SubSeq(bufs, i + 1, nb_rx)
<1>1. CASE ForwardPacket \/ FreePacket
  <2>1. i <= nb_rx /\ pc = "pkt"
    BY <1>1 DEF ForwardPacket, FreePacket, AtPacket
  <2>2. kret = 0
    BY <2>1 DEF ShapeInv, LoopShape
  <2>3. m \in Seq(Mbufs) /\ Parts(Pending, m, r)
    BY <2>1, <2>2, PendingHead
  <2>4. /\ pool' = pool \o m
        /\ bufs' = bufs /\ nb_rx' = nb_rx /\ i' = i + 1 /\ kret' = kret
    BY <1>1 DEF ForwardPacket, FreePacket, Give
  <2>5. Pending' = r
    <3>1. i' + kret' = i + 1
      BY <1>i, <2>2, <2>4
    <3> QED
      BY <1>p, <2>4, <3>1
  <2> HIDE DEF m, r
  <2>6. Passing(Held, Held', "pending", "pool", m, r)
    BY <1>1, <2>4, <2>5, HeldPlaces, HeldPlacesNext
       DEF ForwardPacket, FreePacket, Passing, Places, rxq, txq, fifos, kthread,
           ksend, history
  <2> QED
    BY <1>p, <2>3, <2>6, Passed, PlaceTypes, HeldPlaces DEF Places
<1>2. CASE KniTxBurst
  <2>1. i <= nb_rx /\ pc = "pkt"
    BY <1>2 DEF KniTxBurst, AtPacket
  <2>2. kret = 0
    BY <2>1 DEF ShapeInv, LoopShape
  <2>3. m \in Seq(Mbufs) /\ Parts(Pending, m, r) /\ Len(m) = 1
    BY <2>1, <2>2, PendingHead
  <2>4. bufs' = bufs /\ nb_rx' = nb_rx /\ i' = i
    BY <1>2 DEF KniTxBurst
  <2>5. /\ kret' = KniTxCount /\ rx_q' = FifoPut(rx_q, SubSeq(m, 1, kret'))
    BY <1>2 DEF KniTxBurst
  <2>6. CASE Room(rx_q) = 0
    <3>1. kret' = 0 /\ Pending' = SubSeq(bufs, i + kret, nb_rx)
      BY <1>p, <2>2, <2>4, <2>5, <2>6 DEF KniTxCount, MinOf
    <3>2. Pending' = Pending
      BY <3>1, PendingIs
    <3>3. rx_q' = rx_q
      <4>1. SubSeq(m, 1, 0) = <<>> /\ <<>> \in Seq(Mbufs) /\ Len(<<>>) = 0
        BY <2>3
      <4>2. rx_q' = rx_q \o <<>>
        <5>1. FifoType(rx_q) /\ Len(<<>>) <= Room(rx_q)
          BY <2>6, <4>1, PlaceTypes
        <5>2. FifoPut(rx_q, <<>>) = rx_q \o <<>>
          BY <4>1, <5>1, FifoPutFits
        <5> QED
          BY <2>5, <3>1, <4>1, <5>2
      <4> QED
        BY <4>2, PlaceTypes, WholeParts
    <3>4. Held' = Held
      BY <1>2, <3>2, <3>3 DEF KniTxBurst, Held, rxq, txq, kthread, ksend, history
    <3> QED
      BY <3>4
  <2>7. CASE Room(rx_q) # 0
    <3>1. kret' = 1 /\ 1 <= Room(rx_q)
      <4>1. Room(rx_q) \in Nat
        BY PlaceTypes
      <4>2. MinOf(Room(rx_q), 1) = 1 /\ 1 <= Room(rx_q)
        BY <2>7, <4>1 DEF MinOf
      <4> QED
        BY <2>5, <4>2 DEF KniTxCount
    <3> HIDE DEF m
    <3>2. SubSeq(m, 1, 1) = m
      BY <2>3, SubSeqFull
    <3>3. rx_q' = rx_q \o m
      BY <2>3, <2>5, <3>1, <3>2, FifoPutFits, PlaceTypes
    <3>4. Pending' = r
      BY <1>p, <2>4, <3>1
    <3> HIDE DEF m, r
    <3>5. Passing(Held, Held', "pending", "rx_q", m, r)
      BY <1>2, <3>3, <3>4, HeldPlaces, HeldPlacesNext
         DEF KniTxBurst, Passing, Places, rxq, txq, kthread, ksend, history
    <3> QED
      BY <1>p, <2>3, <3>5, Passed, PlaceTypes, HeldPlaces DEF Places
  <2> QED
    BY <2>6, <2>7
<1>3. CASE KniFreeMbufs
  <2> DEFINE s == FifoGot(free_q, KniBurst)
             f == FifoRest(free_q, KniBurst)
             h == [Held EXCEPT !["free_q"] = f, !["pool"] = pool \o s]
  <2>1. s \in Seq(Mbufs) /\ f \in Seq(Mbufs) /\ Parts(free_q, s, f)
    BY PlaceTypes, SizeAssumption, GotParts
  <2>2. /\ free_q' = f /\ pool' = (pool \o s) \o KniDropped
        /\ bufs' = bufs /\ nb_rx' = nb_rx /\ i' = i + 1 /\ kret' = 0
    BY <1>3 DEF KniFreeMbufs, Give
  <2>3. /\ DOMAIN h = Places /\ h["free_q"] = f /\ h["pool"] = pool \o s
        /\ \A x \in Places : x \notin {"free_q", "pool"} => h[x] = Held[x]
    BY HeldPlaces DEF Places
  <2>4. Pending' = r
    <3>1. i' + kret' = i + 1
      BY <1>i, <2>2
    <3> QED
      BY <1>p, <2>2, <3>1
  <2> HIDE DEF s, f, h
  <2>5. OneHolder(h)
    <3>1. Passing(Held, h, "free_q", "pool", s, f)
      BY <2>3, HeldPlaces DEF Passing, Places
    <3> QED
      BY <2>1, <3>1, Passed, PlaceTypes, HeldPlaces DEF Places
  <2>6. i <= nb_rx /\ kret \in 0..1 /\ pool \o s \in Seq(Mbufs)
    <3>1. i <= nb_rx /\ kret \in 0..1
      BY <1>3 DEF KniFreeMbufs, ShapeInv, LoopShape, TypeOK, LoopType
    <3> QED
      BY <2>1, <3>1, PlaceTypes, JoinType
  <2>7. CASE kret = 0
    <3>1. m \in Seq(Mbufs) /\ Parts(Pending, m, r)
      BY <2>6, <2>7, PendingHead
    <3>2. pool' = (pool \o s) \o m
      BY <2>2, <2>7 DEF KniDropped
    <3> HIDE DEF m, r
    <3>3. Passing(h, Held', "pending", "pool", m, r)
      BY <1>3, <2>2, <2>3, <2>4, <3>2, HeldPlaces, HeldPlacesNext
         DEF KniFreeMbufs, Passing, Places, rxq, txq, kthread, ksend, history
    <3>4. h["pending"] = Pending /\ "pending" \in DOMAIN h /\ "pool" \in DOMAIN h
      BY <2>3, HeldPlaces DEF Places
    <3> QED
      BY <2>3, <2>5, <2>6, <3>1, <3>3, <3>4, Passed
  <2>8. CASE kret = 1
    <3>1. pool' = pool \o s
      BY <2>2, <2>6, <2>8, WholeParts DEF KniDropped
    <3>2. Pending' = Pending
      BY <2>4, <2>8, PendingIs
    <3>3. Passing(Held, Held', "free_q", "pool", s, f)
      BY <1>3, <2>2, <3>1, <3>2, HeldPlaces, HeldPlacesNext
         DEF KniFreeMbufs, Passing, Places, rxq, txq, kthread, ksend, history
    <3> QED
      BY <2>1, <3>3, Passed, PlaceTypes, HeldPlaces DEF Places
  <2> QED
    BY <2>6, <2>7, <2>8
<1> QED
  BY <1>1, <1>2, <1>3

\* The kernel module: rx_q to the polling thread to free_q, alloc_q to the
\* transmit function to tx_q.
LEMMA CustodyKernel ==
  ASSUME ShapeInv, ShapeInv', OneHolder(Held),
         KniNetRxGet \/ KniNetRxPut \/ KniNetTxGet \/ KniNetTxPut
  PROVE  OneHolder(Held')
<1>p. Pending = SubSeq(bufs, i + kret, nb_rx) /\ Pending' = SubSeq(bufs', i' + kret', nb_rx')
  BY PendingIs, PendingIsNext
<1>1. CASE KniNetRxGet
  <2>1. kva = <<>> /\ knum \in Nat
    <3>1. knum \in 0..FifoLen - 1 /\ FifoLen \in Nat
      BY SizeAssumption DEF ShapeInv, TypeOK, KniType
    <3>2. kva = <<>>
      BY <1>1 DEF KniNetRxGet, ShapeInv, LoopShape
    <3> QED
      BY <3>1, <3>2
  <2> DEFINE s == FifoGot(rx_q, knum)
             r == FifoRest(rx_q, knum)
  <2>2. s \in Seq(Mbufs) /\ Parts(rx_q, s, r)
    BY <2>1, PlaceTypes, GotParts
  <2>3. kva' = kva \o s /\ rx_q' = r
    BY <1>1, <2>1, <2>2, WholeParts DEF KniNetRxGet
  <2> HIDE DEF s, r
  <2>4. Passing(Held, Held', "rx_q", "kva", s, r)
    BY <1>1, <1>p, <2>3, HeldPlaces, HeldPlacesNext
       DEF KniNetRxGet, Passing, Places, lcore, rxq, txq, ksend, history
  <2> QED
    BY <2>2, <2>4, Passed, PlaceTypes, HeldPlaces DEF Places
<1>2. CASE KniNetRxPut
  <2>1. free_q' = free_q \o kva /\ kva' = <<>>
    <3>1. Len(kva) <= Room(free_q)
      BY DEF ShapeInv, KernelPutsFit
    <3> QED
      BY <1>2, <3>1, PlaceTypes, FifoPutFits DEF KniNetRxPut
  <2>2. Passing(Held, Held', "kva", "free_q", kva, <<>>)
    BY <1>2, <1>p, <2>1, HeldPlaces, HeldPlacesNext
       DEF KniNetRxPut, Passing, Places, lcore, rxq, txq, ksend, history
  <2> QED
    BY <2>2, Passed, PlaceTypes, WholeParts, HeldPlaces DEF Places
<1>3. CASE KniNetTxGet
  <2> DEFINE s == FifoGot(alloc_q, 1)
             r == FifoRest(alloc_q, 1)
  <2>2. s \in Seq(Mbufs) /\ Parts(alloc_q, s, r)
    BY PlaceTypes, GotParts
  <2>3. ktx' = ktx \o s /\ alloc_q' = r
    BY <1>3, <2>2, WholeParts DEF KniNetTxGet
  <2> HIDE DEF s, r
  <2>4. Passing(Held, Held', "alloc_q", "ktx", s, r)
    BY <1>3, <1>p, <2>3, HeldPlaces, HeldPlacesNext
       DEF KniNetTxGet, Passing, Places, lcore, rxq, txq, kthread, history
  <2> QED
    BY <2>2, <2>4, Passed, PlaceTypes, HeldPlaces DEF Places
<1>4. CASE KniNetTxPut
  <2>1. tx_q' = tx_q \o ktx /\ ktx' = <<>>
    <3>1. Len(ktx) <= Room(tx_q)
      BY DEF ShapeInv, KernelPutsFit
    <3> QED
      BY <1>4, <3>1, PlaceTypes, FifoPutFits DEF KniNetTxPut
  <2>2. Passing(Held, Held', "ktx", "tx_q", ktx, <<>>)
    BY <1>4, <1>p, <2>1, HeldPlaces, HeldPlacesNext
       DEF KniNetTxPut, Passing, Places, lcore, rxq, txq, kthread, history
  <2> QED
    BY <2>2, Passed, PlaceTypes, WholeParts, HeldPlaces DEF Places
<1> QED
  BY <1>1, <1>2, <1>3, <1>4

\* The other steps move no mbuf.
LEMMA CustodyUntouched ==
  ASSUME ShapeInv, ShapeInv',
         \/ LoopTest \/ EndBurst \/ signal_handler \/ KniNetRxCount \/ KniNetRxSkb
         \/ NicReceive \/ NicTransmit \/ UNCHANGED vars
  PROVE  Held' = Held
<1>1. /\ UNCHANGED <<pool, refused, rxring, txring, kmbuf, apkts>>
      /\ UNCHANGED <<rx_q, free_q, alloc_q, tx_q, kva, ktx>>
  BY DEF LoopTest, EndBurst, signal_handler, KniNetRxCount, KniNetRxSkb, NicReceive,
         NicTransmit, vars, lcore, rxq, txq, fifos, kthread, ksend, history
<1>2. UNCHANGED <<bufs, i, kret, nb_rx>>
  BY DEF LoopTest, EndBurst, signal_handler, KniNetRxCount, KniNetRxSkb, NicReceive,
         NicTransmit, vars, lcore
<1>3. Pending' = Pending
  BY <1>2, PendingIs, PendingIsNext
<1> QED
  BY <1>1, <1>3 DEF Held

-----------------------------------------------------------------------------
(* Custody *)

\* main() and rte_kni_alloc hand over the mbufs of the pool, each to one place.
LEMMA InitCustody == Init => Custody
<1> SUFFICES ASSUME Init PROVE OneHolder(Held)
  BY DEF Custody
<1> DEFINE a == RxDesc
           b == RxDesc + InitialRefill
<1>1. /\ InitialRefill \in Nat /\ NumMbufs \in Nat /\ a \in Nat /\ b \in Nat
      /\ a <= b /\ b <= NumMbufs /\ b - a = InitialRefill
      /\ NumMbufs - b = NumMbufs - RxDesc - InitialRefill
  BY SizeAssumption, PoolAssumption, KniAssumption DEF InitialRefill, MinOf
<1>2. /\ rxring = [k \in 1..a |-> k]
      /\ alloc_q = [k \in 1..b - a |-> a + k]
      /\ pool = [k \in 1..NumMbufs - b |-> b + k]
  BY <1>1 DEF Init
<1> HIDE DEF a, b
<1>3. /\ Range(rxring) = 1..a /\ Range(alloc_q) = a + 1..b
      /\ Range(pool) = b + 1..NumMbufs
  <2>1. ASSUME NEW l \in Nat, NEW n \in Nat, l <= n
        PROVE  {l + k : k \in 1..n - l} = l + 1..n
    <3>1. ASSUME NEW x \in l + 1..n PROVE x \in {l + k : k \in 1..n - l}
      <4>1. x - l \in 1..n - l /\ x = l + (x - l)
        BY <2>1, <3>1
      <4> QED
        BY <4>1
    <3>2. ASSUME NEW k \in 1..n - l PROVE l + k \in l + 1..n
      BY <2>1, <3>2
    <3> QED
      BY <3>1, <3>2
  <2>2. Range(rxring) = 1..a
    BY <1>2 DEF Range
  <2>3. Range(alloc_q) = {a + k : k \in 1..b - a}
    BY <1>2 DEF Range
  <2>4. Range(pool) = {b + k : k \in 1..NumMbufs - b}
    BY <1>2 DEF Range
  <2> QED
    BY <1>1, <2>1, <2>2, <2>3, <2>4
<1>4. IsInjective(rxring) /\ IsInjective(alloc_q) /\ IsInjective(pool)
  <2>1. IsInjective(rxring)
    BY <1>2 DEF IsInjective
  <2>2. IsInjective(alloc_q)
    BY <1>1, <1>2 DEF IsInjective
  <2>3. IsInjective(pool)
    BY <1>1, <1>2 DEF IsInjective
  <2> QED
    BY <2>1, <2>2, <2>3
<1>5. Range(<<>>) = {} /\ IsInjective(<<>>)
  BY DEF Range, IsInjective
<1>6. /\ refused = <<>> /\ Pending = <<>> /\ kmbuf = <<>> /\ apkts = <<>>
      /\ rx_q = <<>> /\ kva = <<>> /\ free_q = <<>> /\ ktx = <<>> /\ tx_q = <<>>
      /\ txring = <<>>
  BY InitShape, PendingIs DEF Init
<1>7. \A x \in Places : x \notin {"rxring", "alloc_q", "pool"} => Held[x] = <<>>
  BY <1>6, HeldPlaces DEF Places
<1>8. \A x \in Places : IsInjective(Held[x])
  BY <1>4, <1>5, <1>7, HeldPlaces
<1>9. /\ Range(rxring) \cap Range(alloc_q) = {} /\ Range(rxring) \cap Range(pool) = {}
      /\ Range(alloc_q) \cap Range(pool) = {}
      /\ \A m \in Mbufs : m \in Range(rxring) \/ m \in Range(alloc_q) \/ m \in Range(pool)
  BY <1>1, <1>3 DEF Mbufs
<1>10. ASSUME NEW x \in Places, NEW y \in Places, x # y
       PROVE  Range(Held[x]) \cap Range(Held[y]) = {}
  <2>1. CASE x \notin {"rxring", "alloc_q", "pool"} \/ y \notin {"rxring", "alloc_q", "pool"}
    BY <1>5, <1>7, <2>1
  <2>2. CASE x \in {"rxring", "alloc_q", "pool"} /\ y \in {"rxring", "alloc_q", "pool"}
    BY <1>9, <1>10, <2>2, HeldPlaces
  <2> QED
    BY <2>1, <2>2
<1>11. \A m \in Mbufs : \E x \in Places : m \in Range(Held[x])
  BY <1>9, HeldPlaces DEF Places
<1> QED
  BY <1>8, <1>10, <1>11, HeldPlaces DEF OneHolder

\* Every step keeps custody.
LEMMA CustodyStep ==
  ShapeInv /\ ShapeInv' /\ Custody /\ [Next]_vars => Custody'
<1> SUFFICES ASSUME ShapeInv, ShapeInv', Custody, [Next]_vars, ~ wild'
             PROVE  OneHolder(Held')
  BY DEF Custody
<1>1. ~ wild
  BY DEF Next, Lcore, KernelThread, KernelSend, LoopTest, KniRxBurst, KniAllocate,
         KniRefill, EthTxBurst, EthTxRefused, EthRxBurst, ForwardPacket, FreePacket,
         KniTxBurst, KniFreeMbufs, EndBurst, KniNetRxCount, KniNetRxGet, KniNetRxSkb,
         KniNetRxPut, KniNetTxGet, KniNetTxPut, NicReceive, NicTransmit,
         signal_handler, vars, history
<1>2. OneHolder(Held)
  BY <1>1 DEF Custody
<1>3. CASE \/ LoopTest \/ EndBurst \/ signal_handler \/ KniNetRxCount \/ KniNetRxSkb
           \/ NicReceive \/ NicTransmit \/ UNCHANGED vars
  BY <1>2, <1>3, CustodyUntouched
<1>4. CASE KniRxBurst \/ KniAllocate \/ KniRefill
  BY <1>2, <1>4, CustodyLcoreTx
<1>5. CASE EthTxBurst \/ EthTxRefused
  BY <1>2, <1>5, CustodyEthTx
<1>6. CASE EthRxBurst
  BY <1>2, <1>6, CustodyEthRx
<1>7. CASE ForwardPacket \/ FreePacket \/ KniTxBurst \/ KniFreeMbufs
  BY <1>2, <1>7, CustodyPackets
<1>8. CASE KniNetRxGet \/ KniNetRxPut \/ KniNetTxGet \/ KniNetTxPut
  BY <1>2, <1>8, CustodyKernel
<1> QED
  BY <1>3, <1>4, <1>5, <1>6, <1>7, <1>8 DEF Next, Lcore, KernelThread, KernelSend

\* Whatever the sizes of pool, rings, FIFOs and bursts: as long as the free of
\* kni_request_handler has not gone wild, every mbuf has exactly one holder.  No
\* step of lcore_main, the driver, the KNI library or the kernel module loses an
\* mbuf or frees it twice.
THEOREM LoopCustody == Spec => []Custody
<1> DEFINE Inv == ShapeInv /\ Custody
<1>1. Init => Inv
  BY InitShape, InitCustody
<1>2. Inv /\ [Next]_vars => Inv'
  BY ShapeStep, CustodyStep
<1>3. Inv => Custody
  OBVIOUS
<1> QED
  BY <1>1, <1>2, <1>3, PTL DEF Spec

\* The whole inductive invariant that the runs check on small instances.
THEOREM LoopInvariant == Spec => []LoopInv
<1>1. Init => LoopInv
  BY InitShape, InitCustody DEF LoopInv, ShapeInv
<1>2. LoopInv /\ [Next]_vars => LoopInv'
  <2> SUFFICES ASSUME LoopInv, [Next]_vars PROVE LoopInv'
    OBVIOUS
  <2>1. ShapeInv /\ Custody
    BY DEF LoopInv, ShapeInv
  <2>2. ShapeInv'
    BY <2>1, ShapeStep
  <2>3. Custody'
    BY <2>1, <2>2, CustodyStep
  <2> QED
    BY <2>2, <2>3 DEF LoopInv, ShapeInv
<1> QED
  BY <1>1, <1>2, PTL DEF Spec
=============================================================================
