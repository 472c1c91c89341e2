--------------------------- MODULE KniDeviceProof ---------------------------
(***************************************************************************)
(* The life of a KNI interface for every size of pool, FIFOs and bursts,   *)
(* every mode of the kernel module and every number of retries: no mbuf is *)
(* lost, nothing that was counted fails, and the kernel has let go of the  *)
(* interface when the process frees its FIFOs.                             *)
(*                                                                         *)
(* DeviceInv is inductive.  There is a lemma for each action, with a step  *)
(* for each conjunct of the invariant, and the theorems follow.            *)
(***************************************************************************)
EXTENDS KniDevice, TLAPS

\* The sizes are numbers, and the first refill of alloc_q fits.
LEMMA Sizes ==
  /\ FifoLen \in Nat /\ FifoLen >= 2 /\ Burst \in Nat \ {0}
  /\ LoopNum \in Nat \ {0} /\ Retries \in Nat /\ NumMbufs \in Nat
  /\ InitialRefill \in Nat /\ InitialRefill <= FifoLen - 1
  /\ InitialRefill <= NumMbufs
BY SizeAssumption, PoolAssumption DEF InitialRefill, Lesser

\* The parts of the mode have their types ...
LEMMA ModeTypes ==
  ASSUME TypeOK
  PROVE  /\ LoMode \in {"none", "fifo", "skb"}
         /\ Multiple \in BOOLEAN /\ Sends \in BOOLEAN
BY DEF TypeOK, AllModes, LoMode, Multiple, Sends

\* ... and stay what they are with the mode.
LEMMA ModeStays ==
  ASSUME mode' = mode
  PROVE  /\ LoMode' = LoMode /\ Multiple' = Multiple /\ Sends' = Sends
         /\ Quiet' = Quiet
BY DEF LoMode, Multiple, Sends, Quiet

\* The invariant taken apart, as every lemma on an action starts.
LEMMA Parts ==
  ASSUME DeviceInv
  PROVE  /\ TypeOK /\ Shape /\ (Quiet => Counted) /\ Accounted /\ Emptied
         /\ LoMode \in {"none", "fifo", "skb"}
         /\ Multiple \in BOOLEAN /\ Sends \in BOOLEAN
BY ModeTypes DEF DeviceInv

\* With the interface just created, nothing has been counted or taken.
LEMMA InitHolds ==
  ASSUME Init
  PROVE  DeviceInv
<1>1. TypeOK
  <2>1. mode \in AllModes
    BY ModeAssumption DEF Init
  <2>2. Sends \in BOOLEAN
    BY <2>1 DEF AllModes, Sends
  <2>3. listed \in BOOLEAN /\ up \in BOOLEAN /\ stop \in BOOLEAN
    BY <2>2, Zenon DEF Init
  <2>4. tpc \in [Callers -> {"idle", "get", "put"}]
    BY DEF Init
  <2> QED
    BY <2>1, <2>3, <2>4, Sizes DEF Init, TypeOK
<1>2. LoMode \in {"none", "fifo", "skb"} /\ Multiple \in BOOLEAN /\ Sends \in BOOLEAN
  BY <1>1, ModeTypes
<1>3. Shape
  BY <1>2 DEF Init, Shape, Callers
<1>4. Counted /\ Accounted /\ Emptied
  BY Sizes DEF Init, Counted, Accounted, Emptied, InTx, Callers
<1> QED
  BY <1>1, <1>3, <1>4 DEF DeviceInv

\* A stuttering step changes nothing of it.
LEMMA StutterKeeps ==
  ASSUME DeviceInv, UNCHANGED vars
  PROVE  DeviceInv'
BY ModeStays DEF vars, fifos, thread, device, DeviceInv, TypeOK, Shape, Counted,
   Accounted, InTx, Emptied, Room

\* The lcore puts into rx_q: what the kernel thread counted there only grows.
LEMMA KniTxBurstKeeps ==
  ASSUME DeviceInv, KniTxBurst
  PROVE  DeviceInv'
<1>1. mode' = mode
  BY DEF KniTxBurst, device
<1>2. LoMode' = LoMode /\ Multiple' = Multiple /\ Sends' = Sends /\ Quiet' = Quiet
  BY <1>1, ModeStays
<1>3. TypeOK'
  BY Parts, Sizes DEF TypeOK, KniTxBurst, Lesser, Room, thread, device
<1>4. Shape'
  BY Parts, <1>2 DEF Shape, KniTxBurst, thread, device
<1>5. Quiet => Counted'
  BY Parts, Sizes DEF Counted, TypeOK, KniTxBurst, Lesser, Room, thread
<1>6. Accounted'
  <2>1. /\ InTx("stack")' = InTx("stack") /\ InTx("stack") \in Nat
        /\ InTx("thread")' = InTx("thread") /\ InTx("thread") \in Nat
    BY DEF KniTxBurst, InTx
  <2>2. /\ rx_q' + pool' = rx_q + pool
        /\ UNCHANGED <<free_q, alloc_q, tx_q, krx, kal>>
    BY Parts, Sizes DEF TypeOK, KniTxBurst, Lesser, Room, thread
  <2> QED
    BY <2>1, <2>2, Parts, <1>2, <1>3 DEF Accounted, TypeOK
<1>7. Emptied'
  BY Parts DEF Emptied, Shape, KniTxBurst
<1> QED
  BY <1>2, <1>3, <1>4, <1>5, <1>6, <1>7 DEF DeviceInv

\* It takes from free_q: so does the room there.
LEMMA KniFreeMbufsKeeps ==
  ASSUME DeviceInv, KniFreeMbufs
  PROVE  DeviceInv'
<1>1. mode' = mode
  BY DEF KniFreeMbufs, device
<1>2. LoMode' = LoMode /\ Multiple' = Multiple /\ Sends' = Sends /\ Quiet' = Quiet
  BY <1>1, ModeStays
<1>3. TypeOK'
  BY Parts, Sizes DEF TypeOK, KniFreeMbufs, Lesser, Room, thread, device
<1>4. Shape'
  BY Parts, <1>2 DEF Shape, KniFreeMbufs, thread, device
<1>5. Quiet => Counted'
  BY Parts, Sizes DEF Counted, TypeOK, KniFreeMbufs, Lesser, Room, thread
<1>6. Accounted'
  <2>1. /\ InTx("stack")' = InTx("stack") /\ InTx("stack") \in Nat
        /\ InTx("thread")' = InTx("thread") /\ InTx("thread") \in Nat
    BY DEF KniFreeMbufs, InTx
  <2>2. /\ free_q' + pool' = free_q + pool
        /\ UNCHANGED <<rx_q, alloc_q, tx_q, krx, kal>>
    BY Parts, Sizes DEF TypeOK, KniFreeMbufs, Lesser, Room, thread
  <2> QED
    BY <2>1, <2>2, Parts, <1>2, <1>3 DEF Accounted, TypeOK
<1>7. Emptied'
  BY Parts DEF Emptied, Shape, KniFreeMbufs
<1> QED
  BY <1>2, <1>3, <1>4, <1>5, <1>6, <1>7 DEF DeviceInv

\* It takes from tx_q: so does the room kni_net_tx found there.
LEMMA KniRxBurstKeeps ==
  ASSUME DeviceInv, KniRxBurst
  PROVE  DeviceInv'
<1>1. mode' = mode
  BY DEF KniRxBurst, device
<1>2. LoMode' = LoMode /\ Multiple' = Multiple /\ Sends' = Sends /\ Quiet' = Quiet
  BY <1>1, ModeStays
<1>3. TypeOK'
  BY Parts, Sizes DEF TypeOK, KniRxBurst, Lesser, Room, thread, device
<1>4. Shape'
  BY Parts, <1>2 DEF Shape, KniRxBurst, thread, device
<1>5. Quiet => Counted'
  BY Parts, Sizes DEF Counted, TypeOK, KniRxBurst, Lesser, Room, thread
<1>6. Accounted'
  <2>1. /\ InTx("stack")' = InTx("stack") /\ InTx("stack") \in Nat
        /\ InTx("thread")' = InTx("thread") /\ InTx("thread") \in Nat
    BY DEF KniRxBurst, InTx
  <2>2. /\ tx_q' + pool' = tx_q + pool
        /\ UNCHANGED <<rx_q, free_q, alloc_q, krx, kal>>
    BY Parts, Sizes DEF TypeOK, KniRxBurst, Lesser, Room, thread
  <2> QED
    BY <2>1, <2>2, Parts, <1>2, <1>3 DEF Accounted, TypeOK
<1>7. Emptied'
  BY Parts DEF Emptied, Shape, KniRxBurst
<1> QED
  BY <1>2, <1>3, <1>4, <1>5, <1>6, <1>7 DEF DeviceInv

\* It refills alloc_q: so do the entries kni_net_tx found there.
LEMMA KniAllocateMbufsKeeps ==
  ASSUME DeviceInv, KniAllocateMbufs
  PROVE  DeviceInv'
<1>1. mode' = mode
  BY DEF KniAllocateMbufs, device
<1>2. LoMode' = LoMode /\ Multiple' = Multiple /\ Sends' = Sends /\ Quiet' = Quiet
  BY <1>1, ModeStays
<1>3. TypeOK'
  BY Parts, Sizes DEF TypeOK, KniAllocateMbufs, Lesser, Room, thread, device
<1>4. Shape'
  BY Parts, <1>2 DEF Shape, KniAllocateMbufs, thread, device
<1>5. Quiet => Counted'
  BY Parts, Sizes DEF Counted, TypeOK, KniAllocateMbufs, Lesser, Room, thread
<1>6. Accounted'
  <2>1. /\ InTx("stack")' = InTx("stack") /\ InTx("stack") \in Nat
        /\ InTx("thread")' = InTx("thread") /\ InTx("thread") \in Nat
    BY DEF KniAllocateMbufs, InTx
  <2>2. /\ alloc_q' + pool' = alloc_q + pool
        /\ UNCHANGED <<rx_q, free_q, tx_q, krx, kal>>
    BY Parts, Sizes DEF TypeOK, KniAllocateMbufs, Lesser, Room, thread
  <2> QED
    BY <2>1, <2>2, Parts, <1>2, <1>3 DEF Accounted, TypeOK
<1>7. Emptied'
  BY Parts DEF Emptied, Shape, KniAllocateMbufs
<1> QED
  BY <1>2, <1>3, <1>4, <1>5, <1>6, <1>7 DEF DeviceInv

\* A caller of kni_net_tx finds room and an entry; when the interface is quiet it
\* is the only one to use them.
LEMMA TxCheckKeeps ==
  ASSUME NEW c \in Callers, DeviceInv, TxCheck(c)
  PROVE  DeviceInv'
<1>1. mode' = mode
  BY DEF TxCheck, device
<1>2. LoMode' = LoMode /\ Multiple' = Multiple /\ Sends' = Sends /\ Quiet' = Quiet
  BY <1>1, ModeStays
<1>3. TypeOK'
  BY Parts DEF TypeOK, TxCheck, fifos, device
<1>4. Shape'
  BY Parts, <1>2 DEF Shape, TxCheck, device
<1>5. Quiet => Counted'
  BY Parts DEF Counted, TxCheck, fifos
<1>6. Accounted'
  BY Parts, <1>2 DEF Accounted, InTx, TxCheck, fifos
<1>7. Emptied'
  BY Parts DEF Emptied, Shape, TxCheck
<1> QED
  BY <1>2, <1>3, <1>4, <1>5, <1>6, <1>7 DEF DeviceInv

\* It gets the entry it found ...
LEMMA TxGetKeeps ==
  ASSUME NEW c \in Callers, DeviceInv, TxGet(c)
  PROVE  DeviceInv'
<1>1. mode' = mode
  BY DEF TxGet, device
<1>2. LoMode' = LoMode /\ Multiple' = Multiple /\ Sends' = Sends /\ Quiet' = Quiet
  BY <1>1, ModeStays
<1>3. TypeOK'
  BY Parts, Sizes DEF TypeOK, TxGet, thread, device
<1>4. Shape'
  BY Parts, <1>2 DEF Shape, TypeOK, TxGet, Callers, thread, device
<1>5. Quiet => Counted'
  BY Parts DEF Counted, Quiet, TypeOK, Shape, TxGet, Callers, thread
<1>6. Accounted'
  <2>1. InTx("stack") \in Nat /\ InTx("thread") \in Nat
    BY DEF InTx
  <2>2. InTx("stack")' + InTx("thread")' + alloc_q'
          = InTx("stack") + InTx("thread") + alloc_q
    <3>1. CASE c = "stack"
      BY <3>1, Parts, Sizes DEF InTx, TypeOK, TxGet, Callers
    <3>2. CASE c = "thread"
      BY <3>2, Parts, Sizes DEF InTx, TypeOK, TxGet, Callers
    <3> QED
      BY <3>1, <3>2 DEF Callers
  <2>3. InTx("stack")' \in Nat /\ InTx("thread")' \in Nat
    BY DEF InTx
  <2> QED
    BY <2>1, <2>2, <2>3, Parts, <1>2 DEF Accounted, TypeOK, TxGet, thread
<1>7. Emptied'
  BY Parts DEF Emptied, TxGet
<1> QED
  BY <1>2, <1>3, <1>4, <1>5, <1>6, <1>7 DEF DeviceInv

\* ... and puts it where it found room.
LEMMA TxPutKeeps ==
  ASSUME NEW c \in Callers, DeviceInv, TxPut(c)
  PROVE  DeviceInv'
<1>1. mode' = mode
  BY DEF TxPut, device
<1>2. LoMode' = LoMode /\ Multiple' = Multiple /\ Sends' = Sends /\ Quiet' = Quiet
  BY <1>1, ModeStays
<1>3. TypeOK'
  BY Parts, Sizes DEF TypeOK, TxPut, Lesser, Room, thread, device
<1>4. Shape'
  BY Parts, <1>2 DEF Shape, TxPut, thread, device
<1>5. Quiet => Counted'
  BY Parts DEF Counted, Quiet, TypeOK, Shape, TxPut, Callers, thread
<1>6. Accounted'
  BY Parts, <1>2, Sizes
     DEF Accounted, InTx, Counted, TypeOK, TxPut, Lesser, Room, Callers, thread
<1>7. Emptied'
  BY Parts DEF Emptied, Shape, TxPut, Callers
<1> QED
  BY <1>2, <1>3, <1>4, <1>5, <1>6, <1>7 DEF DeviceInv

\* The process begins to release the interface.
LEMMA ReleaseKeeps ==
  ASSUME DeviceInv, Release
  PROVE  DeviceInv'
<1>1. mode' = mode
  BY DEF Release, device
<1>2. LoMode' = LoMode /\ Multiple' = Multiple /\ Sends' = Sends /\ Quiet' = Quiet
  BY <1>1, ModeStays
<1>3. TypeOK'
  BY Parts DEF TypeOK, Release, fifos, thread, device
<1>4. Shape'
  BY Parts, <1>2 DEF Shape, Release, thread, device
<1>5. Quiet => Counted'
  BY Parts DEF Counted, Release, fifos, thread
<1>6. Accounted'
  BY Parts, <1>2 DEF Accounted, InTx, Release, fifos, thread
<1>7. Emptied'
  BY DEF Emptied, Release
<1> QED
  BY <1>2, <1>3, <1>4, <1>5, <1>6, <1>7 DEF DeviceInv

\* The ioctl fails and everything stays.
LEMMA IoctlFailsKeeps ==
  ASSUME DeviceInv, IoctlFails
  PROVE  DeviceInv'
<1>1. mode' = mode
  BY DEF IoctlFails, device
<1>2. LoMode' = LoMode /\ Multiple' = Multiple /\ Sends' = Sends /\ Quiet' = Quiet
  BY <1>1, ModeStays
<1>3. TypeOK'
  BY Parts DEF TypeOK, IoctlFails, fifos, thread, device
<1>4. Shape'
  BY Parts, <1>2 DEF Shape, IoctlFails, thread, device
<1>5. Quiet => Counted'
  BY Parts DEF Counted, IoctlFails, fifos, thread
<1>6. Accounted'
  BY Parts, <1>2 DEF Accounted, InTx, IoctlFails, fifos, thread
<1>7. Emptied'
  BY DEF Emptied, IoctlFails
<1> QED
  BY <1>2, <1>3, <1>4, <1>5, <1>6, <1>7 DEF DeviceInv

\* The kernel thread starts its rounds, for which the single thread reads under
\* the lock.
LEMMA ThreadEnterKeeps ==
  ASSUME DeviceInv, ThreadEnter
  PROVE  DeviceInv'
<1>1. mode' = mode
  BY DEF ThreadEnter
<1>2. LoMode' = LoMode /\ Multiple' = Multiple /\ Sends' = Sends /\ Quiet' = Quiet
  BY <1>1, ModeStays
<1>3. TypeOK'
  BY Parts, Sizes DEF TypeOK, ThreadEnter, fifos
<1>4. Shape'
  BY Parts, <1>2 DEF Shape, ThreadEnter
<1>5. Quiet => Counted'
  BY Parts DEF Counted, ThreadEnter, fifos
<1>6. Accounted'
  BY Parts, <1>2 DEF Accounted, InTx, ThreadEnter, fifos
<1>7. Emptied'
  BY Parts DEF Emptied, ThreadEnter, fifos
<1> QED
  BY <1>2, <1>3, <1>4, <1>5, <1>6, <1>7 DEF DeviceInv

\* It takes from rx_q what free_q has room for.
LEMMA RxNormalKeeps ==
  ASSUME DeviceInv, RxNormal
  PROVE  DeviceInv'
<1>1. mode' = mode
  BY DEF RxNormal, device
<1>2. LoMode' = LoMode /\ Multiple' = Multiple /\ Sends' = Sends /\ Quiet' = Quiet
  BY <1>1, ModeStays
<1>3. TypeOK'
  BY Parts, Sizes DEF TypeOK, RxNormal, Polls, NextRound, Lesser, Room, device
<1>4. Shape'
  BY Parts, <1>2 DEF Shape, RxNormal, Polls, NextRound, device
<1>5. Quiet => Counted'
  BY Parts, Sizes DEF Counted, TypeOK, RxNormal, NextRound, Lesser, Room
<1>6. Accounted'
  BY Parts, <1>3 DEF Accounted, InTx, Quiet, TypeOK, Shape, RxNormal, Polls
<1>7. Emptied'
  BY Parts DEF Emptied, Shape, RxNormal, Polls
<1> QED
  BY <1>2, <1>3, <1>4, <1>5, <1>6, <1>7 DEF DeviceInv

\* So it does in loopback through sk_buffs.
LEMMA RxSkbKeeps ==
  ASSUME DeviceInv, RxSkb
  PROVE  DeviceInv'
<1>1. mode' = mode
  BY DEF RxSkb, device
<1>2. LoMode' = LoMode /\ Multiple' = Multiple /\ Sends' = Sends /\ Quiet' = Quiet
  BY <1>1, ModeStays
<1>3. TypeOK'
  BY Parts, Sizes DEF TypeOK, RxSkb, Polls, NextRound, Lesser, Room, device
<1>4. Shape'
  BY Parts, <1>2 DEF Shape, RxSkb, Polls, NextRound, device
<1>5. Quiet => Counted'
  BY Parts, Sizes DEF Counted, TypeOK, RxSkb, NextRound, Lesser, Room
<1>6. Accounted'
  BY Parts, <1>2, <1>3 DEF Accounted, InTx, TypeOK, Shape, RxSkb, Polls
<1>7. Emptied'
  BY Parts DEF Emptied, Shape, RxSkb, Polls
<1> QED
  BY <1>2, <1>3, <1>4, <1>5, <1>6, <1>7 DEF DeviceInv

\* A looped packet is dropped.
LEMMA RxSkbDropKeeps ==
  ASSUME DeviceInv, RxSkbDrop
  PROVE  DeviceInv'
<1>1. mode' = mode
  BY DEF RxSkbDrop, device
<1>2. LoMode' = LoMode /\ Multiple' = Multiple /\ Sends' = Sends /\ Quiet' = Quiet
  BY <1>1, ModeStays
<1>3. TypeOK'
  BY Parts DEF TypeOK, RxSkbDrop, fifos, device
<1>4. Shape'
  BY Parts, <1>2 DEF Shape, RxSkbDrop, device
<1>5. Quiet => Counted'
  BY Parts DEF Counted, RxSkbDrop, fifos
<1>6. Accounted'
  BY Parts, <1>2 DEF Accounted, InTx, RxSkbDrop, fifos
<1>7. Emptied'
  BY Parts DEF Emptied, Shape, RxSkbDrop
<1> QED
  BY <1>2, <1>3, <1>4, <1>5, <1>6, <1>7 DEF DeviceInv

\* All looped packets have been sent.
LEMMA RxSkbDoneKeeps ==
  ASSUME DeviceInv, RxSkbDone
  PROVE  DeviceInv'
<1>1. mode' = mode
  BY DEF RxSkbDone, device
<1>2. LoMode' = LoMode /\ Multiple' = Multiple /\ Sends' = Sends /\ Quiet' = Quiet
  BY <1>1, ModeStays
<1>3. TypeOK'
  BY Parts DEF TypeOK, RxSkbDone, fifos, device
<1>4. Shape'
  BY Parts, <1>2 DEF Shape, RxSkbDone, device
<1>5. Quiet => Counted'
  BY Parts DEF Counted, RxSkbDone, fifos
<1>6. Accounted'
  BY Parts, <1>2 DEF Accounted, InTx, RxSkbDone, fifos
<1>7. Emptied'
  BY Parts DEF Emptied, Shape, RxSkbDone
<1> QED
  BY <1>2, <1>3, <1>4, <1>5, <1>6, <1>7 DEF DeviceInv

\* A loopback round counts all four FIFOs ...
LEMMA LoFifoCountKeeps ==
  ASSUME DeviceInv, LoFifoCount
  PROVE  DeviceInv'
<1>1. mode' = mode
  BY DEF LoFifoCount, device
<1>2. LoMode' = LoMode /\ Multiple' = Multiple /\ Sends' = Sends /\ Quiet' = Quiet
  BY <1>1, ModeStays
<1>3. TypeOK'
  BY Parts, Sizes
     DEF TypeOK, LoFifoCount, Polls, NextRound, Lesser, Room, fifos, device
<1>4. Shape'
  BY Parts, <1>2 DEF Shape, LoFifoCount, Polls, NextRound, device
<1>5. Quiet => Counted'
  BY Parts, Sizes
     DEF Counted, TypeOK, LoFifoCount, NextRound, Lesser, Room, fifos
<1>6. Accounted'
  BY Parts, <1>2 DEF Accounted, InTx, LoFifoCount, fifos
<1>7. Emptied'
  BY Parts DEF Emptied, Shape, LoFifoCount, Polls
<1> QED
  BY <1>2, <1>3, <1>4, <1>5, <1>6, <1>7 DEF DeviceInv

\* ... finds what it counted in rx_q ...
LEMMA LoFifoRxKeeps ==
  ASSUME DeviceInv, LoFifoRx
  PROVE  DeviceInv'
<1>1. mode' = mode
  BY DEF LoFifoRx, device
<1>2. LoMode' = LoMode /\ Multiple' = Multiple /\ Sends' = Sends /\ Quiet' = Quiet
  BY <1>1, ModeStays
<1>3. TypeOK'
  BY Parts, Sizes DEF TypeOK, Shape, LoFifoRx, NextRound, Lesser, device
<1>4. Shape'
  BY Parts, <1>2 DEF Shape, LoFifoRx, NextRound, device
<1>5. Quiet => Counted'
  BY Parts DEF Counted, TypeOK, LoFifoRx, Lesser
<1>6. Accounted'
  BY Parts, <1>2 DEF Accounted, InTx, TypeOK, Shape, LoFifoRx, Lesser
<1>7. Emptied'
  BY Parts DEF Emptied, Shape, LoFifoRx
<1> QED
  BY <1>2, <1>3, <1>4, <1>5, <1>6, <1>7 DEF DeviceInv

\* ... and in alloc_q ...
LEMMA LoFifoAllocKeeps ==
  ASSUME DeviceInv, LoFifoAlloc
  PROVE  DeviceInv'
<1>1. mode' = mode
  BY DEF LoFifoAlloc, device
<1>2. LoMode' = LoMode /\ Multiple' = Multiple /\ Sends' = Sends /\ Quiet' = Quiet
  BY <1>1, ModeStays
<1>3. TypeOK'
  BY Parts, Sizes DEF TypeOK, LoFifoAlloc, Lesser, device
<1>4. Shape'
  BY Parts, <1>2 DEF Shape, LoFifoAlloc, device
<1>5. Quiet => Counted'
  BY Parts DEF Counted, Quiet, TypeOK, Shape, LoFifoAlloc, Lesser, Callers
<1>6. Accounted'
  BY Parts, <1>2
     DEF Accounted, InTx, Counted, TypeOK, Shape, LoFifoAlloc, Lesser
<1>7. Emptied'
  BY Parts DEF Emptied, Shape, LoFifoAlloc
<1> QED
  BY <1>2, <1>3, <1>4, <1>5, <1>6, <1>7 DEF DeviceInv

\* ... and puts the copies where it counted room.
LEMMA LoFifoTxKeeps ==
  ASSUME DeviceInv, LoFifoTx
  PROVE  DeviceInv'
<1>1. mode' = mode
  BY DEF LoFifoTx, device
<1>2. LoMode' = LoMode /\ Multiple' = Multiple /\ Sends' = Sends /\ Quiet' = Quiet
  BY <1>1, ModeStays
<1>3. TypeOK'
  BY Parts, Sizes DEF TypeOK, LoFifoTx, Lesser, Room, device
<1>4. Shape'
  BY Parts, <1>2 DEF Shape, LoFifoTx, device
<1>5. Quiet => Counted'
  BY Parts DEF Counted, Quiet, Shape, LoFifoTx, Callers
<1>6. Accounted'
  BY Parts, <1>2 DEF Accounted, InTx, Counted, TypeOK, LoFifoTx, Lesser
<1>7. Emptied'
  BY Parts DEF Emptied, Shape, LoFifoTx
<1> QED
  BY <1>2, <1>3, <1>4, <1>5, <1>6, <1>7 DEF DeviceInv

\* The mbufs go to free_q, which has had room for them since it was counted.
LEMMA RxPutKeeps ==
  ASSUME DeviceInv, RxPut
  PROVE  DeviceInv'
<1>1. mode' = mode
  BY DEF RxPut, device
<1>2. LoMode' = LoMode /\ Multiple' = Multiple /\ Sends' = Sends /\ Quiet' = Quiet
  BY <1>1, ModeStays
<1>3. TypeOK'
  BY Parts, Sizes DEF TypeOK, Shape, RxPut, NextRound, Lesser, Room, device
<1>4. Shape'
  BY Parts, <1>2 DEF Shape, RxPut, NextRound, device
<1>5. Quiet => Counted'
  BY Parts DEF Counted, RxPut, NextRound
<1>6. Accounted'
  BY Parts, <1>2 DEF Accounted, InTx, Counted, TypeOK, RxPut, Lesser
<1>7. Emptied'
  BY Parts DEF Emptied, Shape, RxPut
<1> QED
  BY <1>2, <1>3, <1>4, <1>5, <1>6, <1>7 DEF DeviceInv

\* The kernel thread has made its rounds and gives the lock back.
LEMMA ThreadLeaveKeeps ==
  ASSUME DeviceInv, ThreadLeave
  PROVE  DeviceInv'
<1>1. mode' = mode
  BY DEF ThreadLeave
<1>2. LoMode' = LoMode /\ Multiple' = Multiple /\ Sends' = Sends /\ Quiet' = Quiet
  BY <1>1, ModeStays
<1>3. TypeOK'
  BY Parts DEF TypeOK, ThreadLeave, fifos
<1>4. Shape'
  BY Parts, <1>2 DEF Shape, ThreadLeave
<1>5. Quiet => Counted'
  BY Parts DEF Counted, ThreadLeave, fifos
<1>6. Accounted'
  BY Parts, <1>2 DEF Accounted, InTx, ThreadLeave, fifos
<1>7. Emptied'
  BY Parts DEF Emptied, ThreadLeave, fifos
<1> QED
  BY <1>2, <1>3, <1>4, <1>5, <1>6, <1>7 DEF DeviceInv

\* A thread of one interface has been told to stop.
LEMMA ThreadExitKeeps ==
  ASSUME DeviceInv, ThreadExit
  PROVE  DeviceInv'
<1>1. mode' = mode
  BY DEF ThreadExit, device
<1>2. LoMode' = LoMode /\ Multiple' = Multiple /\ Sends' = Sends /\ Quiet' = Quiet
  BY <1>1, ModeStays
<1>3. TypeOK'
  BY Parts DEF TypeOK, ThreadExit, fifos, device
<1>4. Shape'
  BY Parts, <1>2 DEF Shape, ThreadExit, device
<1>5. Quiet => Counted'
  BY Parts DEF Counted, ThreadExit, fifos
<1>6. Accounted'
  BY Parts, <1>2 DEF Accounted, InTx, ThreadExit, fifos
<1>7. Emptied'
  BY Parts DEF Emptied, Shape, ThreadExit
<1> QED
  BY <1>2, <1>3, <1>4, <1>5, <1>6, <1>7 DEF DeviceInv

\* With the lock for writing, the single kernel thread is outside its rounds.
LEMMA IoctlKeeps ==
  ASSUME DeviceInv, Ioctl
  PROVE  DeviceInv'
<1>1. mode' = mode
  BY DEF Ioctl
<1>2. LoMode' = LoMode /\ Multiple' = Multiple /\ Sends' = Sends /\ Quiet' = Quiet
  BY <1>1, ModeStays
<1>3. TypeOK'
  BY Parts DEF TypeOK, Ioctl, fifos, thread
<1>4. Shape'
  BY Parts, <1>2 DEF Shape, Ioctl, thread
<1>5. Quiet => Counted'
  BY Parts DEF Counted, Ioctl, fifos, thread
<1>6. Accounted'
  BY Parts, <1>2 DEF Accounted, InTx, Ioctl, fifos, thread
<1>7. Emptied'
  BY DEF Emptied, Ioctl
<1> QED
  BY <1>2, <1>3, <1>4, <1>5, <1>6, <1>7 DEF DeviceInv

\* With a thread per interface, the release goes on only when it has ended.
LEMMA StopThreadKeeps ==
  ASSUME DeviceInv, StopThread
  PROVE  DeviceInv'
<1>1. mode' = mode
  BY DEF StopThread
<1>2. LoMode' = LoMode /\ Multiple' = Multiple /\ Sends' = Sends /\ Quiet' = Quiet
  BY <1>1, ModeStays
<1>3. TypeOK'
  BY Parts DEF TypeOK, StopThread, fifos, thread
<1>4. Shape'
  BY Parts, <1>2 DEF Shape, StopThread, thread
<1>5. Quiet => Counted'
  BY Parts DEF Counted, StopThread, fifos, thread
<1>6. Accounted'
  BY Parts, <1>2 DEF Accounted, InTx, StopThread, fifos, thread
<1>7. Emptied'
  BY DEF Emptied, StopThread
<1> QED
  BY <1>2, <1>3, <1>4, <1>5, <1>6, <1>7 DEF DeviceInv

\* The stack makes no further call of kni_net_tx ...
LEMMA UnregisterKeeps ==
  ASSUME DeviceInv, Unregister
  PROVE  DeviceInv'
<1>1. mode' = mode
  BY DEF Unregister
<1>2. LoMode' = LoMode /\ Multiple' = Multiple /\ Sends' = Sends /\ Quiet' = Quiet
  BY <1>1, ModeStays
<1>3. TypeOK'
  BY Parts DEF TypeOK, Unregister, fifos, thread
<1>4. Shape'
  BY Parts, <1>2 DEF Shape, Unregister, thread
<1>5. Quiet => Counted'
  BY Parts DEF Counted, Unregister, fifos, thread
<1>6. Accounted'
  BY Parts, <1>2 DEF Accounted, InTx, Unregister, fifos, thread
<1>7. Emptied'
  BY DEF Emptied, Unregister
<1> QED
  BY <1>2, <1>3, <1>4, <1>5, <1>6, <1>7 DEF DeviceInv

\* ... and the last one has returned.
LEMMA QuiesceKeeps ==
  ASSUME DeviceInv, Quiesce
  PROVE  DeviceInv'
<1>1. mode' = mode
  BY DEF Quiesce, device
<1>2. LoMode' = LoMode /\ Multiple' = Multiple /\ Sends' = Sends /\ Quiet' = Quiet
  BY <1>1, ModeStays
<1>3. TypeOK'
  BY Parts DEF TypeOK, Quiesce, fifos, thread, device
<1>4. Shape'
  BY Parts, <1>2 DEF Shape, Quiesce, thread, device
<1>5. Quiet => Counted'
  BY Parts DEF Counted, Shape, Quiesce, Callers, thread
<1>6. Accounted'
  BY Parts, <1>2 DEF Accounted, InTx, Quiesce, fifos, thread
<1>7. Emptied'
  BY DEF Emptied, Quiesce
<1> QED
  BY <1>2, <1>3, <1>4, <1>5, <1>6, <1>7 DEF DeviceInv

\* Nobody is using the FIFOs: rx_q and alloc_q go to free_q as far as they fit, and
\* rx_q keeps an mbuf only if free_q is full.
LEMMA TransKeeps ==
  ASSUME DeviceInv, Trans
  PROVE  DeviceInv'
<1>1. mode' = mode
  BY DEF Trans, device
<1>2. LoMode' = LoMode /\ Multiple' = Multiple /\ Sends' = Sends /\ Quiet' = Quiet
  BY <1>1, ModeStays
<1>3. TypeOK'
  <2>1. /\ rx_q \in 0..FifoLen - 1 /\ free_q \in 0..FifoLen - 1
        /\ alloc_q \in 0..FifoLen - 1 /\ Room(free_q) \in Nat
    BY Parts, Sizes DEF TypeOK, Room
  <2>2. PICK n \in Nat : /\ n <= rx_q /\ n <= Room(free_q)
                         /\ n = Lesser(rx_q, Room(free_q))
    BY <2>1, Sizes DEF Lesser
  <2>3. PICK k \in Nat : /\ k <= alloc_q /\ k <= Room(free_q) - n
                         /\ k = Lesser(alloc_q, Room(free_q) - n)
    BY <2>1, <2>2, Sizes DEF Lesser
  <2>4. rx_q' = rx_q - n /\ alloc_q' = alloc_q - k /\ free_q' = free_q + n + k
    BY <2>2, <2>3 DEF Trans
  <2>5. /\ rx_q' \in 0..FifoLen - 1 /\ free_q' \in 0..FifoLen - 1
        /\ alloc_q' \in 0..FifoLen - 1
    BY <2>1, <2>2, <2>3, <2>4, Sizes DEF Room
  <2> QED
    BY <2>5, Parts DEF TypeOK, Trans, thread, device
<1>4. Shape'
  BY Parts, <1>2 DEF Shape, Trans, thread, device
<1>5. Quiet => Counted'
  BY Parts DEF Counted, Shape, Trans, Callers, thread
<1>6. Accounted'
  BY Parts, <1>2, Sizes DEF Accounted, InTx, TypeOK, Trans, Lesser, Room, thread
<1>7. Emptied'
  BY Parts, Sizes DEF Emptied, TypeOK, Trans, Lesser, Room
<1> QED
  BY <1>2, <1>3, <1>4, <1>5, <1>6, <1>7 DEF DeviceInv

\* The kernel fails for good.
LEMMA TransWildKeeps ==
  ASSUME DeviceInv, TransWild
  PROVE  DeviceInv'
<1>1. mode' = mode
  BY DEF TransWild, device
<1>2. LoMode' = LoMode /\ Multiple' = Multiple /\ Sends' = Sends /\ Quiet' = Quiet
  BY <1>1, ModeStays
<1>3. TypeOK'
  BY Parts DEF TypeOK, TransWild, fifos, thread, device
<1>4. Shape'
  BY Parts, <1>2 DEF Shape, TransWild, thread, device
<1>5. Quiet => Counted'
  BY Parts DEF Counted, Shape, TransWild, Callers, thread
<1>6. Accounted'
  BY Parts, <1>2 DEF Accounted, InTx, TransWild, fifos, thread
<1>7. Emptied'
  BY DEF Emptied, TransWild
<1> QED
  BY <1>2, <1>3, <1>4, <1>5, <1>6, <1>7 DEF DeviceInv

\* The interface is off the list; the single thread may start a round again but
\* finds nothing to poll.
LEMMA UnlistKeeps ==
  ASSUME DeviceInv, Unlist
  PROVE  DeviceInv'
<1>1. mode' = mode
  BY DEF Unlist
<1>2. LoMode' = LoMode /\ Multiple' = Multiple /\ Sends' = Sends /\ Quiet' = Quiet
  BY <1>1, ModeStays
<1>3. TypeOK'
  BY Parts DEF TypeOK, Unlist, fifos, thread
<1>4. Shape'
  BY Parts, <1>2 DEF Shape, Unlist, thread
<1>5. Quiet => Counted'
  BY Parts DEF Counted, Shape, Unlist, Callers, thread
<1>6. Accounted'
  BY Parts, <1>2 DEF Accounted, InTx, Unlist, fifos, thread
<1>7. Emptied'
  BY Parts DEF Emptied, Unlist, fifos
<1> QED
  BY <1>2, <1>3, <1>4, <1>5, <1>6, <1>7 DEF DeviceInv

\* The process waits.
LEMMA DrainKeeps ==
  ASSUME DeviceInv, Drain
  PROVE  DeviceInv'
<1>1. mode' = mode
  BY DEF Drain, device
<1>2. LoMode' = LoMode /\ Multiple' = Multiple /\ Sends' = Sends /\ Quiet' = Quiet
  BY <1>1, ModeStays
<1>3. TypeOK'
  BY Parts, Sizes DEF TypeOK, Drain, fifos, thread, device
<1>4. Shape'
  BY Parts, <1>2 DEF Shape, Drain, thread, device
<1>5. Quiet => Counted'
  BY Parts DEF Counted, Shape, Drain, Callers, thread
<1>6. Accounted'
  BY Parts, <1>2 DEF Accounted, InTx, Drain, fifos, thread
<1>7. Emptied'
  BY Parts DEF Emptied, Drain, fifos
<1> QED
  BY <1>2, <1>3, <1>4, <1>5, <1>6, <1>7 DEF DeviceInv

\* What was in three FIFOs is in the pool again.
LEMMA FreeFifosKeeps ==
  ASSUME DeviceInv, FreeFifos
  PROVE  DeviceInv'
<1>1. mode' = mode
  BY DEF FreeFifos, device
<1>2. LoMode' = LoMode /\ Multiple' = Multiple /\ Sends' = Sends /\ Quiet' = Quiet
  BY <1>1, ModeStays
<1>3. TypeOK'
  BY Parts, Sizes DEF TypeOK, FreeFifos, thread, device
<1>4. Shape'
  BY Parts, <1>2 DEF Shape, FreeFifos, thread, device
<1>5. Quiet => Counted'
  BY Parts DEF Counted, Shape, FreeFifos, Callers, thread
<1>6. Accounted'
  BY Parts, <1>2 DEF Accounted, InTx, TypeOK, FreeFifos, thread
<1>7. Emptied'
  BY DEF Emptied, FreeFifos
<1> QED
  BY <1>2, <1>3, <1>4, <1>5, <1>6, <1>7 DEF DeviceInv

\* For every size and mode: lock, release, kernel thread and counts stay in step,
\* the inductive invariant behind all of the following.
THEOREM DeviceInvariant == Spec => []DeviceInv
<1>1. DeviceInv /\ [Next]_vars => DeviceInv'
  <2> SUFFICES ASSUME DeviceInv, [Next]_vars
               PROVE  DeviceInv'
    OBVIOUS
  <2>1. CASE Lcore \/ Release \/ IoctlFails \/ RxSkbDrop
    BY <2>1, KniTxBurstKeeps, KniFreeMbufsKeeps, KniRxBurstKeeps,
       KniAllocateMbufsKeeps, ReleaseKeeps, IoctlFailsKeeps, RxSkbDropKeeps DEF Lcore
  <2>2. CASE Thread
    BY <2>2, ThreadEnterKeeps, RxNormalKeeps, RxSkbKeeps, RxSkbDoneKeeps,
       LoFifoCountKeeps, LoFifoRxKeeps, LoFifoAllocKeeps, LoFifoTxKeeps,
       RxPutKeeps, ThreadLeaveKeeps, ThreadExitKeeps DEF Thread
  <2>3. CASE \E c \in Callers : kni_net_tx(c)
    BY <2>3, TxCheckKeeps, TxGetKeeps, TxPutKeeps DEF kni_net_tx
  <2>4. CASE Releasing
    BY <2>4, IoctlKeeps, StopThreadKeeps, UnregisterKeeps, QuiesceKeeps,
       TransKeeps, TransWildKeeps, UnlistKeeps, DrainKeeps, FreeFifosKeeps DEF Releasing
  <2>5. CASE UNCHANGED vars
    BY <2>5, StutterKeeps
  <2> QED
    BY <2>1, <2>2, <2>3, <2>4, <2>5 DEF Next
<1> QED
  BY <1>1, InitHolds, PTL DEF Spec

\* No mbuf disappears and none appears, from the creation of the interface through
\* its release, in every mode in which the stack does not send during loopback.
THEOREM MbufsAccounted == Spec => []Accounted
<1>1. DeviceInv => Accounted
  BY DEF DeviceInv
<1> QED
  BY <1>1, DeviceInvariant, PTL

\* "Enqueue/dequeue failure is impossible": in those modes what was counted is
\* there when it is used.
THEOREM CountedNeverFails == Spec => []NeverFails
<1>1. DeviceInv => NeverFails
  BY Parts DEF Counted, NeverFails, TypeOK, Callers, Room
<1> QED
  BY <1>1, DeviceInvariant, PTL

\* When the process frees the FIFOs, the kernel thread is outside of any round or
\* has ended, and no sender is in kni_net_tx.
THEOREM KernelHasLetGo == Spec => []KernelLetsGo
<1>1. DeviceInv => KernelLetsGo
  <2> SUFFICES ASSUME DeviceInv, rpc = "trans" \/ Removed
               PROVE  KernelLetsGo
    BY DEF KernelLetsGo
  <2>1. ~ Multiple => kpc = "off" \/ (kpc = "round" /\ ~ listed)
    BY Parts DEF Shape, TypeOK, Removed
  <2>2. Multiple => kpc = "exited"
    BY Parts DEF Shape, Removed
  <2>3. tpc["stack"] = "idle" /\ tpc["thread"] = "idle" /\ krx = 0 /\ kal = 0 /\ ~ up
    BY <2>1, <2>2, Parts DEF Shape, Removed
  <2> QED
    BY <2>1, <2>2, <2>3, Parts DEF KernelLetsGo, Callers
<1> QED
  BY <1>1, DeviceInvariant, PTL

\* The release returns every mbuf to the pool but those for which free_q had no
\* room when the kernel let go.
THEOREM ReleaseGivesBack == Spec => []ReleaseReturns
<1>1. DeviceInv => ReleaseReturns
  BY Parts DEF ReleaseReturns, Emptied, Accounted, InTx, Shape, TypeOK
<1> QED
  BY <1>1, DeviceInvariant, PTL
=============================================================================
