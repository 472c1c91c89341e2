----------------------------- MODULE KniDevice ------------------------------
(***************************************************************************)
(* A KNI interface from its creation to rte_kni_release: where its mbufs   *)
(* are while the lcore, the kernel thread (in each of its loopback modes)  *)
(* and kernel senders pass them on, and what becomes of them when the      *)
(* process takes the interface down.  Which mbuf is where is PacketLoop's  *)
(* subject; here a FIFO is the number of its entries, and a call on one    *)
(* FIFO is one step (KniFifo).                                             *)
(***************************************************************************)
EXTENDS Naturals

CONSTANTS
  NumMbufs,       \* mbufs outside the NIC's rings
  FifoLen,        \* length of a KNI FIFO
  Burst,          \* MAX_MBUF_BURST_NUM and the kernel's MBUF_BURST_SZ
  Modes,          \* how the kernel module is loaded and the interface used
  LoopNum,        \* KNI_RX_LOOP_NUM, rounds under one lock
  Retries         \* of the wait in rte_kni_release, 5

ASSUME SizeAssumption ==
  /\ FifoLen \in Nat /\ FifoLen >= 2 /\ Burst \in Nat \ {0}
  /\ LoopNum \in Nat \ {0} /\ Retries \in Nat

\* lo_mode; kthread_mode=multiple, that is, a kernel thread per interface; and
\* whether the interface is up and the network stack sends.
AllModes == [lo_mode : {"none", "fifo", "skb"}, multiple : BOOLEAN, sends : BOOLEAN]
ASSUME ModeAssumption == Modes \subseteq AllModes

Lesser(a, b) == IF a <= b THEN a ELSE b
Room(q) == FifoLen - 1 - q
InitialRefill == Lesser(FifoLen - 1, Burst)
ASSUME PoolAssumption == NumMbufs \in Nat /\ NumMbufs >= InitialRefill

\* Who calls kni_net_tx: the network stack, and in mode skb the kernel thread.
Callers == {"stack", "thread"}

VARIABLES
  mode,
  pool,                          \* free mbufs and those of the lcore
  rx_q, free_q, alloc_q, tx_q,   \* entries in the FIFOs
  lpc,                           \* the lcore's step in a burst
  kpc, j, num, krx, kal,         \* the kernel thread: step, round, and the
                                 \* mbufs it holds of rx_q and of alloc_q
  tpc,                           \* the step of each caller in kni_net_tx
  lock,                          \* kni_list_lock: "free", "read" or "write"
  listed, up, stop,              \* in kni_list, running, kthread_stop called
  rpc, retry                     \* the process: its step in rte_kni_release

fifos == <<rx_q, free_q, alloc_q, tx_q>>
thread == <<kpc, j, num, krx, kal>>
device == <<mode, lock, listed, up, stop>>
vars == <<pool, fifos, lpc, thread, tpc, device, rpc, retry>>

LoMode == mode.lo_mode
Multiple == mode.multiple
Sends == mode.sends

\* rte_kni_alloc has filled alloc_q as far as one burst goes.
Init ==
  /\ mode \in Modes
  /\ alloc_q = InitialRefill /\ pool = NumMbufs - InitialRefill
  /\ rx_q = 0 /\ free_q = 0 /\ tx_q = 0
  /\ lpc = "idle"
  /\ kpc = "off" /\ j = 0 /\ num = 0 /\ krx = 0 /\ kal = 0
  /\ tpc = [c \in Callers |-> "idle"]
  /\ lock = "free" /\ listed = TRUE /\ up = Sends /\ stop = FALSE
  /\ rpc = "run" /\ retry = Retries

-----------------------------------------------------------------------------
(* The lcore *)

\* Mutant: a full rx_q is not noticed.
KniTxBurstFull ==
  /\ rpc = "run" /\ lpc = "idle"
  /\ pool > 0
  /\ rx_q' = rx_q + 1 /\ pool' = pool - 1
  /\ lpc' = "free"
  /\ UNCHANGED <<free_q, alloc_q, tx_q, thread, tpc, device, rpc, retry>>

\* rte_kni_tx_burst of one packet ...
KniTxBurst ==
  /\ rpc = "run" /\ lpc = "idle"
  /\ pool > 0
  /\ LET put == Lesser(1, Room(rx_q))
     IN  rx_q' = rx_q + put /\ pool' = pool - put
  /\ lpc' = "free"
  /\ UNCHANGED <<free_q, alloc_q, tx_q, thread, tpc, device, rpc, retry>>

\* ... and kni_free_mbufs, which it ends with.
KniFreeMbufs ==
  /\ lpc = "free"
  /\ LET freed == Lesser(free_q, Burst)
     IN  free_q' = free_q - freed /\ pool' = pool + freed
  /\ lpc' = "idle"
  /\ UNCHANGED <<rx_q, alloc_q, tx_q, thread, tpc, device, rpc, retry>>

\* rte_kni_rx_burst of one packet ...
KniRxBurst ==
  /\ rpc = "run" /\ lpc = "idle"
  /\ tx_q > 0
  /\ tx_q' = tx_q - 1 /\ pool' = pool + 1
  /\ lpc' = "alloc"
  /\ UNCHANGED <<rx_q, free_q, alloc_q, thread, tpc, device, rpc, retry>>

\* ... and kni_allocate_mbufs, which follows if there was one.
KniAllocateMbufs ==
  /\ lpc = "alloc"
  /\ LET fresh == Lesser(pool, Lesser(Room(alloc_q), Burst))
     IN  alloc_q' = alloc_q + fresh /\ pool' = pool - fresh
  /\ lpc' = "idle"
  /\ UNCHANGED <<rx_q, free_q, tx_q, thread, tpc, device, rpc, retry>>

Lcore == KniTxBurst \/ KniFreeMbufs \/ KniRxBurst \/ KniAllocateMbufs

-----------------------------------------------------------------------------
(* kni_net_tx *)

\* The room in tx_q and the entry of alloc_q are looked for first.  The stack
\* calls only a running interface.
TxCheck(c) ==
  /\ tpc[c] = "idle"
  /\ IF c = "stack" THEN up ELSE kpc = "skb" /\ num > 0
  /\ Room(tx_q) > 0 /\ alloc_q > 0
  /\ tpc' = [tpc EXCEPT ![c] = "get"]
  /\ num' = IF c = "thread" THEN num - 1 ELSE num
  /\ UNCHANGED <<lpc, pool, fifos, kpc, j, krx, kal, device, rpc, retry>>

\* "Failing should not happen", twice.
TxGet(c) ==
  /\ tpc[c] = "get"
  /\ IF alloc_q > 0 THEN alloc_q' = alloc_q - 1 /\ tpc' = [tpc EXCEPT ![c] = "put"]
                    ELSE tpc' = [tpc EXCEPT ![c] = "idle"] /\ UNCHANGED alloc_q
  /\ UNCHANGED <<lpc, pool, rx_q, free_q, tx_q, thread, device, rpc, retry>>

TxPut(c) ==
  /\ tpc[c] = "put"
  /\ tx_q' = tx_q + Lesser(1, Room(tx_q))
  /\ tpc' = [tpc EXCEPT ![c] = "idle"]
  /\ UNCHANGED <<lpc, pool, rx_q, free_q, alloc_q, thread, device, rpc, retry>>

kni_net_tx(c) == TxCheck(c) \/ TxGet(c) \/ TxPut(c)

-----------------------------------------------------------------------------
(* The kernel thread: kni_thread_single, or kni_thread_multiple, which needs *)
(* no lock because it is stopped before its interface is removed.           *)

ThreadEnter ==
  /\ kpc = "off" /\ ~ stop
  /\ Multiple \/ lock = "free"
  /\ lock' = IF Multiple THEN lock ELSE "read"
  /\ kpc' = "round" /\ j' = 0
  /\ UNCHANGED <<mode, lpc, pool, fifos, num, krx, kal, tpc, listed, up, stop,
                 rpc, retry>>

Polls == kpc = "round" /\ j < LoopNum /\ (listed \/ Multiple)

NextRound == kpc' = "round" /\ j' = j + 1

\* kni_net_rx_normal up to its put.
RxNormal ==
  /\ LoMode = "none" /\ Polls
  /\ LET n == Lesser(rx_q, Lesser(Room(free_q), Burst))
     IN  /\ rx_q' = rx_q - n /\ krx' = n
         /\ IF n = 0 THEN NextRound ELSE kpc' = "put" /\ UNCHANGED j
  /\ UNCHANGED <<lpc, pool, free_q, alloc_q, tx_q, num, kal, tpc, device, rpc, retry>>

\* kni_net_rx_lo_fifo_skb up to the loop over the packets.
RxSkb ==
  /\ LoMode = "skb" /\ Polls
  /\ LET n == Lesser(rx_q, Lesser(Room(free_q), Burst))
     IN  /\ rx_q' = rx_q - n /\ krx' = n /\ num' = n
         /\ IF n = 0 THEN NextRound ELSE kpc' = "skb" /\ UNCHANGED j
  /\ UNCHANGED <<lpc, pool, free_q, alloc_q, tx_q, kal, tpc, device, rpc, retry>>

\* A packet for which there is no sk_buff or that kni_net_tx drops.
RxSkbDrop ==
  /\ kpc = "skb" /\ num > 0 /\ tpc["thread"] = "idle"
  /\ num' = num - 1
  /\ UNCHANGED <<lpc, pool, fifos, kpc, j, krx, kal, tpc, device, rpc, retry>>

RxSkbDone ==
  /\ kpc = "skb" /\ num = 0 /\ tpc["thread"] = "idle"
  /\ kpc' = "put"
  /\ UNCHANGED <<lpc, pool, fifos, j, num, krx, kal, tpc, device, rpc, retry>>

\* Mutant: the room in tx_q is not counted.
LoFifoCountNoTx ==
  /\ LoMode = "fifo" /\ Polls
  /\ LET n == Lesser(Lesser(rx_q, alloc_q), Lesser(Room(free_q), Burst))
     IN  /\ num' = n
         /\ IF n = 0 THEN NextRound ELSE kpc' = "lo_rx" /\ UNCHANGED j
  /\ UNCHANGED <<lpc, pool, fifos, krx, kal, tpc, device, rpc, retry>>

\* kni_net_rx_lo_fifo: all queues are checked at first.
LoFifoCount ==
  /\ LoMode = "fifo" /\ Polls
  /\ LET n == Lesser(Lesser(rx_q, Room(tx_q)),
                     Lesser(Lesser(alloc_q, Room(free_q)), Burst))
     IN  /\ num' = n
         /\ IF n = 0 THEN NextRound ELSE kpc' = "lo_rx" /\ UNCHANGED j
  /\ UNCHANGED <<lpc, pool, fifos, krx, kal, tpc, device, rpc, retry>>

LoFifoRx ==
  /\ kpc = "lo_rx"
  /\ LET n == Lesser(rx_q, num)
     IN  /\ rx_q' = rx_q - n /\ krx' = n
         /\ IF n = 0 THEN NextRound ELSE kpc' = "lo_alloc" /\ UNCHANGED j
  /\ UNCHANGED <<lpc, pool, free_q, alloc_q, tx_q, num, kal, tpc, device, rpc, retry>>

\* Only as many packets of rx_q are copied and passed on as alloc_q had
\* entries; the others are forgotten, and with none at all the put into free_q
\* takes what an earlier round left in va.
LoFifoAlloc ==
  /\ kpc = "lo_alloc"
  /\ LET n == Lesser(alloc_q, num)
     IN  /\ alloc_q' = alloc_q - n /\ kal' = n
         /\ num' = IF n = 0 THEN num ELSE n
         /\ krx' = IF n = 0 THEN krx ELSE Lesser(krx, n)
         /\ kpc' = IF n = 0 THEN "put" ELSE "lo_tx"
  /\ UNCHANGED <<lpc, pool, rx_q, free_q, tx_q, j, tpc, device, rpc, retry>>

LoFifoTx ==
  /\ kpc = "lo_tx"
  /\ tx_q' = tx_q + Lesser(kal, Room(tx_q))
  /\ kal' = 0
  /\ kpc' = "put"
  /\ UNCHANGED <<lpc, pool, rx_q, free_q, alloc_q, j, num, krx, tpc, device, rpc, retry>>

\* The put into free_q that ends each of the three functions; kni_net_poll_resp
\* follows.
RxPut ==
  /\ kpc = "put"
  /\ free_q' = free_q + Lesser(krx, Room(free_q))
  /\ krx' = 0
  /\ NextRound
  /\ UNCHANGED <<lpc, pool, rx_q, alloc_q, tx_q, num, kal, tpc, device, rpc, retry>>

\* Mutant: no up_read.
ThreadLeaveLocked ==
  /\ kpc = "round"
  /\ j = LoopNum \/ ~ (listed \/ Multiple)
  /\ kpc' = "off"
  /\ UNCHANGED <<lpc, pool, fifos, j, num, krx, kal, tpc, device, rpc, retry>>

ThreadLeave ==
  /\ kpc = "round"
  /\ j = LoopNum \/ ~ (listed \/ Multiple)
  /\ kpc' = "off"
  /\ lock' = IF Multiple THEN lock ELSE "free"
  /\ UNCHANGED <<mode, lpc, pool, fifos, j, num, krx, kal, tpc, listed, up, stop,
                 rpc, retry>>

ThreadExit ==
  /\ kpc = "off" /\ stop
  /\ kpc' = "exited"
  /\ UNCHANGED <<lpc, pool, fifos, j, num, krx, kal, tpc, device, rpc, retry>>

Thread ==
  \/ ThreadEnter \/ RxNormal \/ RxSkb \/ RxSkbDone \/ LoFifoCount
  \/ LoFifoRx \/ LoFifoAlloc \/ LoFifoTx \/ RxPut \/ ThreadLeave \/ ThreadExit

-----------------------------------------------------------------------------
(* rte_kni_release *)

\* The workers have returned (Lcores) and main releases the interface, which is
\* in the process's list.
Release ==
  /\ rpc = "run" /\ lpc = "idle"
  /\ rpc' = "ioctl"
  /\ UNCHANGED <<lpc, pool, fifos, thread, tpc, device, retry>>

\* Mutant: no down_write in kni_ioctl_release.
IoctlUnlocked ==
  /\ rpc = "ioctl"
  /\ rpc' = IF Multiple THEN "stop" ELSE "unregister"
  /\ UNCHANGED <<lpc, pool, fifos, thread, tpc, device, retry>>

\* kni_ioctl_release: down_write; the interface is found in the list.
Ioctl ==
  /\ rpc = "ioctl"
  /\ lock = "free"
  /\ lock' = "write"
  /\ rpc' = IF Multiple THEN "stop" ELSE "unregister"
  /\ UNCHANGED <<mode, lpc, pool, fifos, thread, tpc, listed, up, stop, retry>>

\* The ioctl fails: rte_kni_release returns -1, frees nothing and leaves the
\* interface in both lists.
IoctlFails ==
  /\ rpc = "ioctl"
  /\ rpc' = "kept"
  /\ UNCHANGED <<lpc, pool, fifos, thread, tpc, device, retry>>

\* kthread_stop, which returns when the thread has ended.
StopThread ==
  /\ rpc = "stop"
  /\ stop' = TRUE
  /\ rpc' = IF kpc = "exited" THEN "unregister" ELSE "stop"
  /\ UNCHANGED <<mode, lpc, pool, fifos, thread, tpc, lock, listed, up, retry>>

\* kni_dev_remove, unregister_netdev: kni_net_release stops the queue (and asks
\* the process, which is in the ioctl; see KniRequest) ...
Unregister ==
  /\ rpc = "unregister"
  /\ up' = FALSE
  /\ rpc' = "quiesce"
  /\ UNCHANGED <<mode, lpc, pool, fifos, thread, tpc, lock, listed, stop, retry>>

\* ... and the network core waits for the senders.
Quiesce ==
  /\ rpc = "quiesce"
  /\ tpc["stack"] = "idle"
  /\ rpc' = "trans"
  /\ UNCHANGED <<lpc, pool, fifos, thread, tpc, device, retry>>

\* Mutant: one burst of each FIFO.
TransBurst ==
  /\ rpc = "trans"
  /\ LET n == Lesser(rx_q, Lesser(Room(free_q), Burst))
         k == Lesser(alloc_q, Lesser(Room(free_q) - n, Burst))
     IN  /\ rx_q' = rx_q - n /\ alloc_q' = alloc_q - k
         /\ free_q' = free_q + n + k
  /\ rpc' = "unlist"
  /\ UNCHANGED <<lpc, pool, tx_q, thread, tpc, device, retry>>

\* kni_net_release_fifo_phy: rx_q and then alloc_q go to free_q as far as there
\* is room.  By now free_netdev has freed the structure that holds the pointers
\* to the FIFOs; this is what happens as long as its memory still is as it was.
Trans ==
  /\ rpc = "trans"
  /\ LET n == Lesser(rx_q, Room(free_q))
         k == Lesser(alloc_q, Room(free_q) - n)
     IN  /\ rx_q' = rx_q - n /\ alloc_q' = alloc_q - k
         /\ free_q' = free_q + n + k
  /\ rpc' = "unlist"
  /\ UNCHANGED <<lpc, pool, tx_q, thread, tpc, device, retry>>

\* The memory has been used again: the kernel follows a wrong pointer.
TransWild ==
  /\ rpc = "trans"
  /\ rpc' = "oops"
  /\ UNCHANGED <<lpc, pool, fifos, thread, tpc, device, retry>>

\* list_del, up_write, and back in the process TAILQ_REMOVE.
Unlist ==
  /\ rpc = "unlist"
  /\ listed' = FALSE /\ lock' = "free"
  /\ rpc' = "drain"
  /\ UNCHANGED <<mode, lpc, pool, fifos, thread, tpc, up, stop, retry>>

\* Wait until all rxq packets are processed by the kernel, some milliseconds.
Drain ==
  /\ rpc = "drain"
  /\ IF rx_q > 0 /\ retry > 0 THEN retry' = retry - 1 /\ UNCHANGED rpc
                              ELSE rpc' = "free" /\ UNCHANGED retry
  /\ UNCHANGED <<lpc, pool, fifos, thread, tpc, device>>

\* kni_free_fifo_phy(alloc_q), kni_free_fifo(tx_q), kni_free_fifo(free_q), and
\* kni_release_mz.
FreeFifos ==
  /\ rpc = "free"
  /\ pool' = pool + alloc_q + tx_q + free_q
  /\ alloc_q' = 0 /\ tx_q' = 0 /\ free_q' = 0
  /\ rpc' = "released"
  /\ UNCHANGED <<lpc, rx_q, thread, tpc, device, retry>>

Releasing ==
  \/ Ioctl \/ StopThread \/ Unregister \/ Quiesce \/ Trans \/ TransWild
  \/ Unlist \/ Drain \/ FreeFifos

Next ==
  \/ Lcore \/ Release \/ IoctlFails
  \/ Thread \/ RxSkbDrop
  \/ \E c \in Callers : kni_net_tx(c)
  \/ Releasing

Spec == Init /\ [][Next]_vars

\* The kernel thread polls, a caller inside kni_net_tx gets out of it, the
\* process goes on; kni_list_lock is a queueing lock, so a writer gets it in
\* the end (strong fairness of Ioctl).  Nobody has to send, and no ioctl has to
\* fail.
FairSpec ==
  /\ Spec
  /\ WF_vars(Thread \/ RxSkbDrop \/ kni_net_tx("thread"))
  /\ WF_vars(TxGet("stack") \/ TxPut("stack"))
  /\ WF_vars(Releasing) /\ SF_vars(Ioctl)

-----------------------------------------------------------------------------
(* Properties *)

TypeOK ==
  /\ mode \in AllModes
  /\ pool \in Nat
  /\ rx_q \in 0..FifoLen - 1 /\ free_q \in 0..FifoLen - 1
  /\ alloc_q \in 0..FifoLen - 1 /\ tx_q \in 0..FifoLen - 1
  /\ lpc \in {"idle", "free", "alloc"}
  /\ kpc \in {"off", "round", "skb", "lo_rx", "lo_alloc", "lo_tx", "put", "exited"}
  /\ j \in 0..LoopNum /\ num \in Nat /\ krx \in Nat /\ kal \in Nat
  /\ tpc \in [Callers -> {"idle", "get", "put"}]
  /\ lock \in {"free", "read", "write"}
  /\ listed \in BOOLEAN /\ up \in BOOLEAN /\ stop \in BOOLEAN
  /\ rpc \in {"run", "ioctl", "stop", "unregister", "quiesce", "trans", "unlist",
              "drain", "free", "released", "oops", "kept"}
  /\ retry \in 0..Retries

InTx(c) == IF tpc[c] = "put" THEN 1 ELSE 0

\* kni_net_tx takes no lock: a loopback round and the network stack must not
\* send at the same time.
Quiet == LoMode = "none" \/ ~ Sends

\* No mbuf disappears and none appears: pool, FIFOs, the kernel thread's hands
\* and the callers of kni_net_tx hold NumMbufs together, through every release,
\* unless the stack sends during loopback.
Accounted ==
  Quiet =>
    pool + rx_q + free_q + alloc_q + tx_q + krx + kal + InTx("stack") + InTx("thread")
      = NumMbufs

\* "Enqueue/dequeue failure is impossible, as all queues are checked at first":
\* what a loopback round, kni_net_rx_normal and kni_net_tx counted is still there
\* when they get and put, unless the stack sends during loopback.
NeverFails ==
  Quiet =>
    /\ kpc = "lo_rx" => rx_q >= num
    /\ kpc = "lo_alloc" => alloc_q >= num
    /\ kpc = "lo_tx" => Room(tx_q) >= kal
    /\ kpc = "put" => Room(free_q) >= krx
    /\ \A c \in Callers : /\ tpc[c] = "get" => alloc_q > 0
                          /\ tpc[c] = "put" => Room(tx_q) > 0

Removed == rpc \in {"unlist", "drain", "free", "released"}

\* From the transfer of the FIFOs on, when the process goes on to free them, no
\* part of the kernel is using the interface, or will again.
KernelLetsGo ==
  rpc = "trans" \/ Removed =>
    /\ kpc \in {"off", "exited"} \/ (kpc = "round" /\ ~ listed /\ ~ Multiple)
    /\ Multiple => kpc = "exited"
    /\ \A c \in Callers : tpc[c] = "idle"
    /\ krx = 0 /\ kal = 0 /\ ~ up

\* A release gives back every mbuf but those it leaves in rx_q, and it leaves some
\* there only when free_q is full to the last entry: waiting for the kernel cannot
\* help any more.
ReleaseReturns ==
  /\ rpc \in {"unlist", "drain", "free"} /\ rx_q > 0 => Room(free_q) = 0
  /\ Quiet /\ rpc = "released" => pool + rx_q = NumMbufs

\* Who holds kni_list_lock, and which part of the kernel may still be at work at
\* each step of the release.
Shape ==
  /\ lock = "write" <=> rpc \in {"stop", "unregister", "quiesce", "trans", "unlist", "oops"}
  /\ lock = "read" <=> ~ Multiple /\ kpc \notin {"off", "exited"}
  /\ lpc # "idle" => rpc = "run"
  /\ stop => Multiple
  /\ kpc = "exited" => stop
  /\ rpc = "stop" => Multiple
  /\ Multiple /\ rpc \notin {"run", "ioctl", "stop", "kept"} => kpc = "exited"
  /\ listed <=> rpc \notin {"drain", "free", "released"}
  /\ ~ listed => kpc \in {"off", "round", "exited"}
  /\ up => Sends /\ rpc \in {"run", "ioctl", "stop", "unregister", "kept"}
  /\ tpc["stack"] # "idle" =>
       Sends /\ rpc \in {"run", "ioctl", "stop", "unregister", "quiesce", "kept"}
  /\ tpc["thread"] # "idle" => kpc = "skb"
  /\ kpc = "skb" => LoMode = "skb"
  /\ kpc \in {"lo_rx", "lo_alloc", "lo_tx"} => LoMode = "fifo"
  /\ kpc \notin {"off", "exited", "round"} => j < LoopNum
  /\ krx # 0 => kpc \in {"skb", "lo_alloc", "lo_tx", "put"}
  /\ kal # 0 => kpc = "lo_tx"

\* What a round of the kernel thread and a caller of kni_net_tx may rely on.
Counted ==
  /\ kpc = "lo_rx" => /\ num > 0 /\ rx_q >= num /\ alloc_q >= num
                      /\ Room(tx_q) >= num /\ Room(free_q) >= num
  /\ kpc = "lo_alloc" => /\ num > 0 /\ krx = num /\ alloc_q >= num
                         /\ Room(tx_q) >= num /\ Room(free_q) >= num
  /\ kpc = "lo_tx" => Room(tx_q) >= kal
  /\ kpc \in {"skb", "lo_tx", "put"} => Room(free_q) >= krx
  /\ \A c \in Callers : tpc[c] # "idle" => Room(tx_q) > 0
  /\ \A c \in Callers : tpc[c] = "get" => alloc_q > 0

\* The FIFOs from the transfer on.
Emptied ==
  /\ rpc \in {"unlist", "drain", "free"} /\ rx_q > 0 => Room(free_q) = 0
  /\ rpc = "released" => alloc_q = 0 /\ tx_q = 0 /\ free_q = 0

\* The inductive invariant of the interface's life.
DeviceInv ==
  /\ TypeOK
  /\ Shape
  /\ Quiet => Counted
  /\ Accounted
  /\ Emptied

\* A release ends, although kernel thread and senders keep the interface busy: the
\* interface is gone, or the ioctl has failed.
ReleaseEnds == rpc = "ioctl" ~> rpc \in {"released", "oops", "kept"}
=============================================================================
