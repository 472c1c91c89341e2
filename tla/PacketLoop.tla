----------------------------- MODULE PacketLoop -----------------------------
(***************************************************************************)
(* One lcore running lcore_main of main.c, with everything its mbufs pass  *)
(* through: the packet pool, the RX and TX rings of the NIC's driver, the  *)
(* four FIFOs of the KNI interface and the kernel module's two users of    *)
(* them (the polling thread and the transmit function).  The lcore, the    *)
(* kernel thread, kernel senders and the NIC run concurrently; a step is   *)
(* one library call of the lcore, or the part of a kernel function up to   *)
(* its next access to a FIFO.  KniFifo shows that a FIFO call may be       *)
(* taken as one step on a sequence.                                        *)
(*                                                                         *)
(* An mbuf is one-segment, unshared (refcnt 1), and frame[m] says which    *)
(* packet it holds: its position in arrived, or 0 for a packet that the    *)
(* kernel built.                                                           *)
(***************************************************************************)
EXTENDS Integers, Sequences, Functions, FilterRules

CONSTANTS
  NumMbufs,         \* NUM_MBUFS, the size of mbuf_pool
  Packets,          \* packets that may arrive from the wire
  KernelPacket,     \* the packet a kernel sender transmits
  FilterList,       \* filter_rules, fixed before lcore_main runs
  Kni,              \* kni # NULL
  Burst,            \* BURST_SIZE
  RxDesc,           \* RX_RING_SIZE
  RxFreeThresh,     \* rx_free_thresh of the driver
  TxDesc,           \* TX_RING_SIZE
  TxRsThresh,       \* tx_rs_thresh of the driver
  TxFreeThresh,     \* tx_free_thresh of the driver
  FifoLen,          \* length of a KNI FIFO (KNI_FIFO_COUNT_MAX)
  KniBurst,         \* MAX_MBUF_BURST_NUM and the kernel's MBUF_BURST_SZ
  StaleSlot,        \* the entry of bufs that follows &m on the stack, see
                    \* EthTxRefused (bufs[3] in the shipped binary)
  MaxArrivals,      \* bound: packets received from the wire
  MaxKernelSends    \* bound: packets sent by the kernel; 0 when vEth0 is down

ASSUME KniAssumption == Kni \in BOOLEAN
ASSUME SizeAssumption ==
  /\ Burst \in Nat \ {0} /\ KniBurst \in Nat \ {0}
  /\ RxDesc \in Nat /\ RxDesc >= 2 /\ RxFreeThresh \in 0..RxDesc - 2
  /\ TxDesc \in Nat /\ TxDesc >= 2
  /\ TxRsThresh \in 1..TxDesc - 1 /\ TxFreeThresh \in 1..TxDesc - 1
  /\ FifoLen \in Nat /\ FifoLen >= 2
  /\ StaleSlot \in 1..Burst
ASSUME BoundAssumption == MaxArrivals \in Nat /\ MaxKernelSends \in Nat

Mbufs == 1..NumMbufs

MinOf(a, b) == IF a <= b THEN a ELSE b

\* The mbufs that port_init and rte_kni_alloc take before the loop starts.
InitialRefill == IF Kni THEN MinOf(FifoLen - 1, KniBurst) ELSE 0
ASSUME PoolAssumption == NumMbufs \in Nat /\ NumMbufs >= RxDesc + InitialRefill

VARIABLES
  force_quit,
  pc, kmbuf, apkts, bufs, nb_rx, i, kret,             \* the lcore's locals
  total_packets, forwarded_packets, kni_packets,      \* main.c's statistics
  pool, frame,                                        \* mempool and mbuf data
  rxring, rxdone, rx_hold,                            \* em_rx_queue
  txring, txdone, nb_tx_free,                         \* em_tx_queue
  rx_q, free_q, alloc_q, tx_q,                        \* struct rte_kni
  kpc, knum, kva, ki, rx_dropped,                     \* kni_net_rx_normal
  ktx, tx_packets,                                    \* kni_net_tx
  arrived, fwd_out, kern_in,                          \* the outside world
  refused, wild                                       \* history of EthTxRefused

lcore == <<pc, kmbuf, apkts, bufs, nb_rx, i, kret>>
stats == <<total_packets, forwarded_packets, kni_packets>>
rxq == <<rxring, rxdone, rx_hold>>
txq == <<txring, txdone, nb_tx_free>>
fifos == <<rx_q, free_q, alloc_q, tx_q>>
kthread == <<kpc, knum, kva, ki, rx_dropped>>
ksend == <<ktx, tx_packets>>
world == <<arrived, fwd_out, kern_in>>
history == <<refused, wild>>
vars == <<force_quit, lcore, stats, pool, frame, rxq, txq, fifos, kthread,
          ksend, world, history>>

-----------------------------------------------------------------------------
(* The pool hands out the mbuf that was freed last, as the lcore's mempool *)
(* cache does.  An mbuf freed twice is in it twice.                         *)

\* rte_pktmbuf_free of every mbuf of s.
Give(p, s) == p \o s

\* Up to n allocations, one by one: fewer only when the pool runs out.
Allocated(p, n) == [k \in 1..MinOf(n, Len(p)) |-> p[Len(p) + 1 - k]]
Take(p, n) == SubSeq(p, 1, Len(p) - MinOf(n, Len(p)))

\* kni_fifo_free_count
Room(q) == FifoLen - 1 - Len(q)

\* kni_fifo_put and kni_fifo_get of up to n elements.
FifoPut(q, s) == q \o SubSeq(s, 1, MinOf(Len(s), Room(q)))
FifoGot(q, n) == SubSeq(q, 1, MinOf(n, Len(q)))
FifoRest(q, n) == SubSeq(q, MinOf(n, Len(q)) + 1, Len(q))

\* lcore_main is about to run: port_init has armed every RX descriptor and, with
\* KNI, rte_kni_alloc has filled alloc_q as far as one burst goes.
Init ==
  /\ force_quit = FALSE
  /\ pc = "test" /\ kmbuf = <<>> /\ apkts = <<>> /\ bufs = <<>>
  /\ nb_rx = 0 /\ i = 1 /\ kret = 0
  /\ total_packets = 0 /\ forwarded_packets = 0 /\ kni_packets = 0
  /\ frame = [m \in Mbufs |-> 0]
  /\ rxring = [k \in 1..RxDesc |-> k]
  /\ alloc_q = [k \in 1..InitialRefill |-> RxDesc + k]
  /\ pool = [k \in 1..NumMbufs - RxDesc - InitialRefill |->
               RxDesc + InitialRefill + k]
  /\ rxdone = 0 /\ rx_hold = 0
  /\ txring = <<>> /\ txdone = 0 /\ nb_tx_free = TxDesc - 1
  /\ rx_q = <<>> /\ free_q = <<>> /\ tx_q = <<>>
  /\ kpc = "idle" /\ knum = 0 /\ kva = <<>> /\ ki = 1 /\ rx_dropped = 0
  /\ ktx = <<>> /\ tx_packets = 0
  /\ arrived = <<>> /\ fwd_out = <<>> /\ kern_in = <<>>
  /\ refused = <<>> /\ wild = FALSE

-----------------------------------------------------------------------------
(* The lcore: the head of the loop and kni_request_handler *)

\* A crash ends the process, and with it everything described here: the kernel
\* module takes the interface down when the process's file is closed.
Running == pc # "crashed"

signal_handler ==
  /\ Running
  /\ ~ force_quit
  /\ force_quit' = TRUE
  /\ UNCHANGED <<lcore, stats, pool, frame, rxq, txq, fifos, kthread, ksend,
                 world, history>>

\* Mutant: the loop does not look at force_quit.
LoopTestForever ==
  /\ pc = "test"
  /\ pc' = IF Kni THEN "kni" ELSE "rx"
  /\ UNCHANGED <<force_quit, kmbuf, apkts, bufs, nb_rx, i, kret, stats, pool,
                 frame, rxq, txq, fifos, kthread, ksend, world, history>>

LoopTest ==
  /\ pc = "test"
  /\ pc' = IF force_quit THEN "returned" ELSE IF Kni THEN "kni" ELSE "rx"
  /\ UNCHANGED <<force_quit, kmbuf, apkts, bufs, nb_rx, i, kret, stats, pool,
                 frame, rxq, txq, fifos, kthread, ksend, world, history>>

\* Mutant: nothing from the kernel skips the rest of the iteration.
KniRxBurstContinue ==
  /\ pc = "kni"
  /\ kmbuf' = FifoGot(tx_q, 1)
  /\ tx_q' = FifoRest(tx_q, 1)
  /\ pc' = IF kmbuf' = <<>> THEN "test" ELSE "alloc"
  /\ UNCHANGED <<force_quit, apkts, bufs, nb_rx, i, kret, stats, pool, frame,
                 rxq, txq, rx_q, free_q, alloc_q, kthread, ksend, world, history>>

\* rte_kni_rx_burst of one mbuf: alloc_q is refilled only if there was one.
KniRxBurst ==
  /\ pc = "kni"
  /\ kmbuf' = FifoGot(tx_q, 1)
  /\ tx_q' = FifoRest(tx_q, 1)
  /\ pc' = IF kmbuf' = <<>> THEN "rx" ELSE "alloc"
  /\ UNCHANGED <<force_quit, apkts, bufs, nb_rx, i, kret, stats, pool, frame,
                 rxq, txq, rx_q, free_q, alloc_q, kthread, ksend, world, history>>

\* Mutant: the slot that a FIFO keeps empty is taken off a second time.
AllocqFreeShort == MinOf(Room(alloc_q) - 1, KniBurst)

\* allocq_free of kni_allocate_mbufs.
AllocqFree == MinOf(Room(alloc_q), KniBurst)

\* kni_allocate_mbufs up to kni_fifo_put ...
KniAllocate ==
  /\ pc = "alloc"
  /\ apkts' = Allocated(pool, AllocqFree)
  /\ pool' = Take(pool, AllocqFree)
  /\ pc' = "refill"
  /\ UNCHANGED <<force_quit, kmbuf, bufs, nb_rx, i, kret, stats, frame, rxq,
                 txq, fifos, kthread, ksend, world, history>>

\* ... and from there on: what does not fit goes back to the pool.
KniRefill ==
  /\ pc = "refill"
  /\ alloc_q' = FifoPut(alloc_q, apkts)
  /\ pool' = Give(pool, FifoRest(apkts, Room(alloc_q)))
  /\ apkts' = <<>>
  /\ pc' = "tx"
  /\ UNCHANGED <<force_quit, kmbuf, bufs, nb_rx, i, kret, stats, frame, rxq,
                 txq, rx_q, free_q, tx_q, kthread, ksend, world, history>>

\* em_xmit_cleanup, entered when few descriptors are free: a group of TxRsThresh
\* descriptors becomes free once the NIC has reported its last one done.
Cleanable == nb_tx_free < TxFreeThresh /\ txdone >= TxRsThresh
FreeAfterCleanup == IF Cleanable THEN nb_tx_free + TxRsThresh ELSE nb_tx_free

\* Mutant: the mbuf of the last round is overwritten, not freed.
SentBeforeLost == <<>>

\* The slot of the next descriptor may still hold the mbuf of the last round: it
\* is freed when the slot is reused, not when it was sent.
SentBefore == IF Len(txring) = TxDesc THEN SubSeq(txring, 1, 1) ELSE <<>>

\* Mutant: the caller frees what it has handed to the driver.
EthTxBurstFrees ==
  /\ pc = "tx"
  /\ FreeAfterCleanup > 0
  /\ nb_tx_free' = FreeAfterCleanup - 1
  /\ txdone' = IF Cleanable THEN txdone - TxRsThresh ELSE txdone
  /\ pool' = Give(pool, SentBefore \o kmbuf)
  /\ txring' = SubSeq(txring, Len(SentBefore) + 1, Len(txring)) \o kmbuf
  /\ kmbuf' = <<>>
  /\ pc' = "rx"
  /\ UNCHANGED <<force_quit, apkts, bufs, nb_rx, i, kret, stats, frame, rxq,
                 fifos, kthread, ksend, world, history>>

\* rte_eth_tx_burst accepts the mbuf.
EthTxBurst ==
  /\ pc = "tx"
  /\ FreeAfterCleanup > 0
  /\ nb_tx_free' = FreeAfterCleanup - 1
  /\ txdone' = IF Cleanable THEN txdone - TxRsThresh ELSE txdone
  /\ pool' = Give(pool, SentBefore)
  /\ txring' = SubSeq(txring, Len(SentBefore) + 1, Len(txring)) \o kmbuf
  /\ kmbuf' = <<>>
  /\ pc' = "rx"
  /\ UNCHANGED <<force_quit, apkts, bufs, nb_rx, i, kret, stats, frame, rxq,
                 fifos, kthread, ksend, world, history>>

\* rte_eth_tx_burst has no descriptor and returns 0.  The code then calls
\* rte_pktmbuf_free(&m): not on the mbuf, but on the stack slot that holds its
\* address.  The mbuf itself is never freed.  What the call does with the stack
\* is undefined: nothing, a crash, or, following the word it takes for m->next,
\* a second free of the mbuf an earlier burst left in bufs.
EthTxRefused ==
  /\ pc = "tx"
  /\ FreeAfterCleanup = 0
  /\ refused' = refused \o kmbuf
  /\ kmbuf' = <<>>
  /\ \/ pc' = "rx" /\ UNCHANGED <<pool, wild>>
     \/ pc' = "crashed" /\ UNCHANGED <<pool, wild>>
     \/ /\ pc' = "rx"
        /\ StaleSlot <= Len(bufs)
        /\ pool' = Give(pool, <<bufs[StaleSlot]>>)
        /\ wild' = TRUE
  /\ UNCHANGED <<force_quit, apkts, bufs, nb_rx, i, kret, stats, frame, rxq,
                 txq, fifos, kthread, ksend, world>>

-----------------------------------------------------------------------------
(* The lcore: the burst of received packets *)

\* rte_eth_rx_burst: every packet taken costs a fresh mbuf for its descriptor,
\* and the NIC learns of the rearmed descriptors once enough are held back.
EthRxBurst ==
  /\ pc = "rx"
  /\ LET n == MinOf(MinOf(Burst, rxdone), Len(pool))
     IN /\ pool' = Take(pool, n)
        /\ rxring' = SubSeq(rxring, n + 1, RxDesc) \o Allocated(pool, n)
        /\ rxdone' = rxdone - n
        /\ rx_hold' = IF rx_hold + n > RxFreeThresh THEN 0 ELSE rx_hold + n
        /\ bufs' = SubSeq(rxring, 1, n) \o SubSeq(bufs, n + 1, Len(bufs))
        /\ nb_rx' = n
        /\ total_packets' = total_packets + n
        /\ pc' = IF n = 0 THEN "test" ELSE "pkt"
  /\ i' = 1
  /\ UNCHANGED <<force_quit, kmbuf, apkts, kret, forwarded_packets, kni_packets,
                 frame, txq, fifos, kthread, ksend, world, history>>

\* The headers in an mbuf.
Content(m) == IF frame[m] = 0 THEN KernelPacket ELSE arrived[frame[m]]

\* Mutant: the first packet of the burst decides for all.
AtPacketFirst(forward) ==
  /\ pc = "pkt"
  /\ i <= nb_rx
  /\ should_forward(FilterList, Content(bufs[1])) = forward

\* The packet the loop is at is to be forwarded, or is not.
AtPacket(forward) ==
  /\ pc = "pkt"
  /\ i <= nb_rx
  /\ should_forward(FilterList, Content(bufs[i])) = forward

\* forward_to_tun or forward_to_nic, whose write may fail; a short write counts
\* as forwarded.  The mbuf is freed either way.
ForwardPacket ==
  /\ AtPacket(TRUE)
  /\ \/ /\ forwarded_packets' = forwarded_packets + 1
        /\ fwd_out' = Append(fwd_out, frame[bufs[i]])
     \/ UNCHANGED <<forwarded_packets, fwd_out>>
  /\ pool' = Give(pool, <<bufs[i]>>)
  /\ i' = i + 1
  /\ UNCHANGED <<force_quit, pc, kmbuf, apkts, bufs, nb_rx, kret, total_packets,
                 kni_packets, frame, rxq, txq, fifos, kthread, ksend, arrived,
                 kern_in, history>>

\* Mutant: the packet is dropped but not freed.
FreePacketLeaks ==
  /\ AtPacket(FALSE)
  /\ ~ Kni
  /\ i' = i + 1
  /\ UNCHANGED <<force_quit, pc, kmbuf, apkts, bufs, nb_rx, kret, stats, pool,
                 frame, rxq, txq, fifos, kthread, ksend, world, history>>

\* Without KNI every other packet is dropped.
FreePacket ==
  /\ AtPacket(FALSE)
  /\ ~ Kni
  /\ pool' = Give(pool, <<bufs[i]>>)
  /\ i' = i + 1
  /\ UNCHANGED <<force_quit, pc, kmbuf, apkts, bufs, nb_rx, kret, stats, frame,
                 rxq, txq, fifos, kthread, ksend, world, history>>

\* Mutant: rte_kni_tx_burst claims what it was asked for.
KniTxCountBlind == 1

\* What rte_kni_tx_burst returns for one mbuf.
KniTxCount == MinOf(Room(rx_q), 1)

\* With KNI: rte_kni_tx_burst of one mbuf, up to kni_free_mbufs ...
KniTxBurst ==
  /\ AtPacket(FALSE)
  /\ Kni
  /\ kret' = KniTxCount
  /\ rx_q' = FifoPut(rx_q, SubSeq(<<bufs[i]>>, 1, kret'))
  /\ pc' = "kfree"
  /\ UNCHANGED <<force_quit, kmbuf, apkts, bufs, nb_rx, i, stats, pool, frame,
                 rxq, txq, free_q, alloc_q, tx_q, kthread, ksend, world, history>>

\* Mutant: a packet that rx_q did not take is not freed.
KniDroppedLeaks == <<>>

\* The packet, if rx_q had no room for it.
KniDropped == IF kret = 0 THEN <<bufs[i]>> ELSE <<>>

\* ... which frees what the kernel has returned; then the packet is counted or,
\* if rx_q was full, freed.
KniFreeMbufs ==
  /\ pc = "kfree"
  /\ free_q' = FifoRest(free_q, KniBurst)
  /\ pool' = Give(Give(pool, FifoGot(free_q, KniBurst)), KniDropped)
  /\ kni_packets' = kni_packets + kret
  /\ kret' = 0
  /\ i' = i + 1
  /\ pc' = "pkt"
  /\ UNCHANGED <<force_quit, kmbuf, apkts, bufs, nb_rx, total_packets,
                 forwarded_packets, frame, rxq, txq, rx_q, alloc_q, tx_q, kthread,
                 ksend, world, history>>

EndBurst ==
  /\ pc = "pkt"
  /\ i > nb_rx
  /\ pc' = "test"
  /\ UNCHANGED <<force_quit, kmbuf, apkts, bufs, nb_rx, i, kret, stats, pool,
                 frame, rxq, txq, fifos, kthread, ksend, world, history>>

-----------------------------------------------------------------------------
(* The kernel module *)

\* Mutant: as many as a burst holds, whatever room free_q has.
KniNetRxCountBurst ==
  /\ Running
  /\ Kni
  /\ kpc = "idle"
  /\ Room(free_q) > 0
  /\ knum' = KniBurst
  /\ kpc' = "get"
  /\ UNCHANGED <<force_quit, lcore, stats, pool, frame, rxq, txq, fifos, kva, ki,
                 rx_dropped, ksend, world, history>>


\* kni_net_rx_normal, called over and over by the polling thread: how many mbufs
\* free_q can take back ...
KniNetRxCount ==
  /\ Running
  /\ Kni
  /\ kpc = "idle"
  /\ Room(free_q) > 0
  /\ knum' = MinOf(Room(free_q), KniBurst)
  /\ kpc' = "get"
  /\ UNCHANGED <<force_quit, lcore, stats, pool, frame, rxq, txq, fifos, kva, ki,
                 rx_dropped, ksend, world, history>>

\* ... and no more than that are taken from rx_q.
KniNetRxGet ==
  /\ Running
  /\ kpc = "get"
  /\ kva' = FifoGot(rx_q, knum)
  /\ rx_q' = FifoRest(rx_q, knum)
  /\ ki' = 1
  /\ kpc' = IF kva' = <<>> THEN "idle" ELSE "skb"
  /\ knum' = 0
  /\ UNCHANGED <<force_quit, lcore, stats, pool, frame, rxq, txq, free_q, alloc_q,
                 tx_q, rx_dropped, ksend, world, history>>

\* Each is copied into an sk_buff and handed to the stack, or dropped if there is
\* no memory for the sk_buff.
KniNetRxSkb ==
  /\ Running
  /\ kpc = "skb"
  /\ ki <= Len(kva)
  /\ \/ kern_in' = Append(kern_in, frame[kva[ki]]) /\ UNCHANGED rx_dropped
     \/ rx_dropped' = rx_dropped + 1 /\ UNCHANGED kern_in
  /\ ki' = ki + 1
  /\ UNCHANGED <<force_quit, lcore, stats, pool, frame, rxq, txq, fifos, kpc,
                 knum, kva, ksend, arrived, fwd_out, history>>

\* All go back through free_q; what does not fit is forgotten.
KniNetRxPut ==
  /\ Running
  /\ kpc = "skb"
  /\ ki > Len(kva)
  /\ free_q' = FifoPut(free_q, kva)
  /\ kva' = <<>>
  /\ ki' = 1
  /\ kpc' = "idle"
  /\ UNCHANGED <<force_quit, lcore, stats, pool, frame, rxq, txq, rx_q, alloc_q,
                 tx_q, knum, rx_dropped, ksend, world, history>>

\* kni_net_tx, serialised by the device's transmit lock: with a free entry in
\* tx_q and an mbuf in alloc_q the packet is copied (else it is dropped, which
\* changes nothing here) ...
KniNetTxGet ==
  /\ Running
  /\ Kni
  /\ tx_packets < MaxKernelSends
  /\ ktx = <<>>
  /\ Room(tx_q) > 0
  /\ Len(alloc_q) > 0
  /\ ktx' = FifoGot(alloc_q, 1)
  /\ alloc_q' = FifoRest(alloc_q, 1)
  /\ frame' = [frame EXCEPT ![alloc_q[1]] = 0]
  /\ tx_packets' = tx_packets + 1
  /\ UNCHANGED <<force_quit, lcore, stats, pool, rxq, txq, rx_q, free_q, tx_q,
                 kthread, world, history>>

\* ... and queued; an mbuf that did not fit would be forgotten.
KniNetTxPut ==
  /\ Running
  /\ ktx # <<>>
  /\ tx_q' = FifoPut(tx_q, ktx)
  /\ ktx' = <<>>
  /\ UNCHANGED <<force_quit, lcore, stats, pool, frame, rxq, txq, rx_q, free_q,
                 alloc_q, kthread, tx_packets, world, history>>

-----------------------------------------------------------------------------
(* The NIC: hardware, seen through the descriptors the driver reads *)

\* A packet is stored into the next armed descriptor the NIC knows of; one
\* descriptor always stays with the driver.
NicReceive ==
  /\ Running
  /\ Len(arrived) < MaxArrivals
  /\ rxdone < RxDesc - 1 - rx_hold
  /\ \E p \in Packets : arrived' = Append(arrived, p)
  /\ frame' = [frame EXCEPT ![rxring[rxdone + 1]] = Len(arrived) + 1]
  /\ rxdone' = rxdone + 1
  /\ UNCHANGED <<force_quit, lcore, stats, pool, rxring, rx_hold, txq, fifos,
                 kthread, ksend, fwd_out, kern_in, history>>

\* The oldest descriptor still to be sent has been sent.
NicTransmit ==
  /\ Running
  /\ txdone < TxDesc - 1 - nb_tx_free
  /\ txdone' = txdone + 1
  /\ UNCHANGED <<force_quit, lcore, stats, pool, frame, rxq, txring, nb_tx_free,
                 fifos, kthread, ksend, world, history>>

-----------------------------------------------------------------------------
Lcore ==
  \/ LoopTest \/ KniRxBurst \/ KniAllocate \/ KniRefill \/ EthTxBurst
  \/ EthTxRefused \/ EthRxBurst \/ ForwardPacket \/ FreePacket \/ KniTxBurst
  \/ KniFreeMbufs \/ EndBurst

KernelThread == KniNetRxCount \/ KniNetRxGet \/ KniNetRxSkb \/ KniNetRxPut

KernelSend == KniNetTxGet \/ KniNetTxPut

Next ==
  \/ signal_handler \/ Lcore \/ KernelThread \/ KernelSend
  \/ NicReceive \/ NicTransmit

Spec == Init /\ [][Next]_vars

\* Neither the lcore nor the kernel thread ever waits: each keeps its CPU.
FairSpec == Spec /\ WF_vars(Lcore) /\ WF_vars(KernelThread)

-----------------------------------------------------------------------------
(* Types *)

Pcs == {"test", "kni", "alloc", "refill", "tx", "rx", "pkt", "kfree",
        "returned", "crashed"}

LoopType ==
  /\ force_quit \in BOOLEAN
  /\ pc \in Pcs
  /\ kmbuf \in Seq(Mbufs) /\ apkts \in Seq(Mbufs) /\ bufs \in Seq(Mbufs)
  /\ nb_rx \in 0..Burst /\ nb_rx <= Len(bufs)
  /\ i \in 1..nb_rx + 1
  /\ kret \in 0..1
  /\ total_packets \in Nat /\ forwarded_packets \in Nat /\ kni_packets \in Nat

PoolType ==
  /\ pool \in Seq(Mbufs)
  /\ refused \in Seq(Mbufs) /\ wild \in BOOLEAN

DriverType ==
  /\ rxring \in Seq(Mbufs) /\ Len(rxring) = RxDesc
  /\ rxdone \in 0..RxDesc /\ rx_hold \in 0..RxFreeThresh
  /\ txring \in Seq(Mbufs) /\ Len(txring) <= TxDesc
  /\ nb_tx_free \in 0..TxDesc - 1 /\ txdone \in 0..TxDesc - 1 - nb_tx_free

FifoType(q) == q \in Seq(Mbufs) /\ Len(q) <= FifoLen - 1

KniType ==
  /\ FifoType(rx_q) /\ FifoType(free_q) /\ FifoType(alloc_q) /\ FifoType(tx_q)
  /\ kpc \in {"idle", "get", "skb"} /\ knum \in 0..FifoLen - 1
  /\ kva \in Seq(Mbufs) /\ ki \in 1..Len(kva) + 1 /\ rx_dropped \in Nat
  /\ ktx \in Seq(Mbufs) /\ tx_packets \in Nat

WorldType ==
  /\ arrived \in Seq(Packets)
  /\ frame \in [Mbufs -> 0..Len(arrived)]
  /\ fwd_out \in Seq(Nat) /\ kern_in \in Seq(Nat)

TypeOK == LoopType /\ PoolType /\ DriverType /\ KniType /\ WorldType

-----------------------------------------------------------------------------
(* Custody of the mbufs *)

\* The received mbufs that the burst loop still has to dispose of.
Pending ==
  SubSeq(bufs, IF pc = "kfree" /\ kret = 1 THEN i + 1 ELSE i, nb_rx)

\* Where mbufs can be.
Held ==
  [pool |-> pool, refused |-> refused, rxring |-> rxring, pending |-> Pending,
   kmbuf |-> kmbuf, apkts |-> apkts, rx_q |-> rx_q, kva |-> kva, free_q |-> free_q,
   alloc_q |-> alloc_q, ktx |-> ktx, tx_q |-> tx_q, txring |-> txring]

\* No place of h holds an mbuf twice, no two places hold the same one, and every
\* mbuf is held.
OneHolder(h) ==
  /\ \A p \in DOMAIN h : IsInjective(h[p])
  /\ \A p, q \in DOMAIN h : p # q => Range(h[p]) \cap Range(h[q]) = {}
  /\ \A m \in Mbufs : \E p \in DOMAIN h : m \in Range(h[p])

\* Until the wild free of kni_request_handler has put an mbuf into the pool that
\* did not belong there, every mbuf has exactly one holder at every moment: it is
\* in the pool once, or in one ring, FIFO or local variable once, or it is one
\* that a full TX ring refused.  No other path through the driver, the KNI
\* library, the kernel module or lcore_main leaks an mbuf or frees it twice.
Custody == ~ wild => OneHolder(Held)

\* A packet that the TX ring refuses goes back to the pool: the comment "Free
\* dropped packets" on the loop of kni_request_handler that calls
\* rte_pktmbuf_free.
DroppedPacketsFreed == refused = <<>>

\* What the kernel has taken from one FIFO always fits into the FIFO it goes to
\* next, although the lcore works on the other ends meanwhile: the puts of
\* kni_net_tx and kni_net_rx_normal cannot fail, as their comments ("Failing
\* should not happen") say.
KernelPutsFit ==
  /\ Len(ktx) <= Room(tx_q)
  /\ Len(kva) <= Room(free_q)

\* Each local holds mbufs only where the code is between taking and passing them
\* on.  This and KernelPutsFit make Custody inductive: a local that is overwritten
\* while it holds an mbuf would leak it.
LoopShape ==
  /\ pc \notin {"alloc", "refill", "tx"} => kmbuf = <<>>
  /\ Len(kmbuf) <= 1
  /\ pc # "refill" => apkts = <<>>
  /\ pc \notin {"pkt", "kfree"} => i = nb_rx + 1
  /\ pc = "kfree" => i <= nb_rx
  /\ pc # "kfree" => kret = 0
  /\ kpc # "skb" => kva = <<>>
  /\ kpc = "get" => knum <= Room(free_q)

LoopInv == TypeOK /\ LoopShape /\ KernelPutsFit /\ Custody

\* Every packet received is counted once, every packet counted as sent to KNI is
\* still in rx_q, in the kernel thread's hands or counted by the kernel as
\* delivered or dropped, and what is counted as forwarded or sent to KNI are
\* different packets of those counted in total.
StatsAgree ==
  LET sending == IF pc = "kfree" THEN kret ELSE 0
  IN /\ total_packets + rxdone = Len(arrived)
     /\ kni_packets + sending
          = Len(rx_q) + (Len(kva) - (ki - 1)) + rx_dropped + Len(kern_in)
     /\ forwarded_packets + kni_packets + sending + Len(Pending) <= total_packets

\* The pool is large enough to fill every ring and FIFO at once and have one
\* mbuf left, refused ones apart.  In main.c: 8191 mbufs against two rings of
\* 1024 and four FIFOs of 1023.
AdequatePool ==
  NumMbufs - Len(refused) > RxDesc + TxDesc + 4 * (FifoLen - 1)

\* With such a pool the receive path cannot starve: rte_eth_rx_burst always finds
\* a fresh mbuf for the first packet, even though mbufs come back from the kernel
\* only when a packet is sent to KNI.
RxNeverStarves ==
  ~ wild /\ AdequatePool /\ pc = "rx" => pool # <<>>

\* With such a pool the kernel's transmit path cannot die: rte_kni_rx_burst
\* refills alloc_q only after it has taken a packet from tx_q, so both being empty
\* with nothing on its way between them would be the end of it.
KernelTxStaysAlive ==
  Kni /\ ~ wild /\ AdequatePool =>
    \/ pc = "alloc"
    \/ Len(alloc_q) + Len(ktx) + Len(tx_q) + Len(apkts) > 0

-----------------------------------------------------------------------------
(* What the loop does for the packets, and liveness *)

Filter == INSTANCE PacketFilter

\* Whatever mbufs, rings and threads carry the packets, the loop filters: every
\* received packet leaves at most once, on the side the rules say, in order.
ImplementsFilter == Filter!Spec

\* The mbufs on their way to the kernel, the next one first.
Waiting == SubSeq(kva, ki, Len(kva)) \o rx_q

\* The packet that the burst loop, or the next burst, disposes of next.
NextUp == total_packets - nb_rx + i + kret

\* No rule selects packet n, so it belongs to the kernel.
ForKernel(n) == n \in DOMAIN arrived /\ ~ should_forward(FilterList, arrived[n])

\* The RX ring and the burst hold the packets from NextUp on without a gap.
RxFrames ==
  /\ nb_rx <= total_packets
  /\ \A k \in 1..rxdone : frame[rxring[k]] = total_packets + k
  /\ \A k \in i + kret..nb_rx : frame[bufs[k]] = total_packets - nb_rx + k

\* The packets on their way to the kernel are unselected, and come before NextUp
\* and after what the kernel has.
KernelFrames ==
  /\ \A k \in 1..Len(Waiting) :
       /\ ForKernel(frame[Waiting[k]]) /\ frame[Waiting[k]] < NextUp
       /\ \A j \in 1..k - 1 : frame[Waiting[j]] < frame[Waiting[k]]
       /\ \A j \in 1..Len(kern_in) : kern_in[j] < frame[Waiting[k]]
  /\ \A k \in 1..Len(kern_in) : kern_in[k] < NextUp

ForwardFrames == \A k \in 1..Len(fwd_out) : fwd_out[k] < NextUp

\* Packets stay in the mbufs they were stored in, and in order.  An mbuf written
\* while somebody still has to read it would break this; custody says that none is.
FramesInOrder == ~ wild => RxFrames /\ KernelFrames /\ ForwardFrames

Stopped == pc \in {"returned", "crashed"}

\* SIGINT or SIGTERM ends the loop, at whatever point it arrives and however much
\* traffic there is.
QuitReturns == force_quit ~> Stopped

\* Every packet the NIC stores is received and counted, unless the loop is told
\* to stop first.
EveryPacketReceived ==
  \A n \in 1..MaxArrivals :
    (Len(arrived) >= n) ~> (total_packets >= n \/ Stopped)

=============================================================================
