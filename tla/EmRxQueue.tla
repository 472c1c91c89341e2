----------------------------- MODULE EmRxQueue ------------------------------
(***************************************************************************)
(* RX queue 0 of the e1000 driver at the grain of its memory accesses: the *)
(* NIC stores packets while lcores receive them with eth_em_recv_pkts and  *)
(* then process and free them.  The queue has no lock; main.c has every    *)
(* lcore of the command line poll it.  PacketLoop takes the call of one    *)
(* lcore as one step.                                                      *)
(*                                                                         *)
(* Packets are numbered in the order in which the NIC stores them.  The    *)
(* pool counts how often an mbuf is in it, because a double free is among  *)
(* the things that may go wrong.                                           *)
(***************************************************************************)
EXTENDS Naturals, Sequences

CONSTANTS
  Lcores,         \* the lcores that run lcore_main
  NumMbufs,       \* NUM_MBUFS
  RxDesc,         \* nb_rx_desc
  RxFreeThresh,   \* rx_free_thresh
  Burst,          \* BURST_SIZE
  MaxPackets      \* bound: packets stored by the NIC

ASSUME SizeAssumption ==
  /\ RxDesc \in Nat /\ RxDesc >= 2 /\ RxFreeThresh \in 0..RxDesc - 2
  /\ NumMbufs \in Nat /\ NumMbufs >= RxDesc
  /\ Burst \in Nat \ {0} /\ MaxPackets \in Nat

Mbufs == 1..NumMbufs
Slots == 0..RxDesc - 1
NextSlot(s) == IF s + 1 = RxDesc THEN 0 ELSE s + 1
SlotBefore(s) == IF s = 0 THEN RxDesc - 1 ELSE s - 1

VARIABLES
  data,                          \* the packet in each mbuf's buffer
  pool,
  buffer_addr, status,           \* the descriptors: buffer, and DD
  rdh, rdt,                      \* the NIC's head and tail registers
  sw_ring, rx_tail, nb_rx_hold,  \* struct em_rx_queue
  pc, rx_id, nb_hold,            \* the locals of each lcore in
  nmb, rxm, rx_pkts,             \* eth_em_recv_pkts
  stored, delivered              \* packets stored, packets processed in order

nic == <<data, buffer_addr, rdh, rdt, stored>>
queue == <<sw_ring, rx_tail, nb_rx_hold>>
locals == <<rx_id, nb_hold, nmb, rxm, rx_pkts>>
vars == <<data, pool, buffer_addr, status, rdh, rdt, queue, pc, locals, stored, delivered>>

\* em_alloc_rx_queue_mbufs and eth_em_rx_init: mbuf s+1 is in slot s.
Init ==
  /\ data = [m \in Mbufs |-> 0]
  /\ pool = [m \in Mbufs |-> IF m <= RxDesc THEN 0 ELSE 1]
  /\ buffer_addr = [s \in Slots |-> s + 1]
  /\ sw_ring = [s \in Slots |-> s + 1]
  /\ status = [s \in Slots |-> FALSE]
  /\ rdh = 0 /\ rdt = RxDesc - 1
  /\ rx_tail = 0 /\ nb_rx_hold = 0
  /\ pc = [l \in Lcores |-> "idle"]
  /\ rx_id = [l \in Lcores |-> 0] /\ nb_hold = [l \in Lcores |-> 0]
  /\ nmb = [l \in Lcores |-> 0] /\ rxm = [l \in Lcores |-> 0]
  /\ rx_pkts = [l \in Lcores |-> << >>]
  /\ stored = 0 /\ delivered = << >>

\* The NIC fills the buffer of the descriptor at its head and sets DD.
NicStore ==
  /\ stored < MaxPackets
  /\ rdh # rdt
  /\ data' = [data EXCEPT ![buffer_addr[rdh]] = stored + 1]
  /\ status' = [status EXCEPT ![rdh] = TRUE]
  /\ rdh' = NextSlot(rdh)
  /\ stored' = stored + 1
  /\ UNCHANGED <<pool, buffer_addr, rdt, queue, pc, locals, delivered>>

-----------------------------------------------------------------------------
(* eth_em_recv_pkts on lcore l *)

Goto(l, step) == pc' = [pc EXCEPT ![l] = step]

RxCall(l) ==
  /\ pc[l] = "idle"
  /\ rx_id' = [rx_id EXCEPT ![l] = rx_tail]
  /\ nb_hold' = [nb_hold EXCEPT ![l] = 0]
  /\ Goto(l, "status")
  /\ UNCHANGED <<nic, pool, status, queue, nmb, rxm, rx_pkts, delivered>>

\* while (nb_rx < nb_pkts), and the DD bit of the descriptor.
RxStatus(l) ==
  /\ pc[l] = "status"
  /\ Goto(l, IF Len(rx_pkts[l]) < Burst /\ status[rx_id[l]] THEN "alloc" ELSE "tail")
  /\ UNCHANGED <<nic, pool, status, queue, locals, delivered>>

\* Mutant: without a fresh mbuf the packet is dropped and its mbuf used again.
RxAllocDrops(l) ==
  /\ pc[l] = "alloc"
  /\ \/ \E m \in Mbufs :
          /\ pool[m] > 0
          /\ pool' = [pool EXCEPT ![m] = @ - 1]
          /\ nmb' = [nmb EXCEPT ![l] = m]
          /\ Goto(l, "take")
          /\ UNCHANGED <<status, rx_id>>
     \/ /\ \A m \in Mbufs : pool[m] = 0
        /\ status' = [status EXCEPT ![rx_id[l]] = FALSE]
        /\ rx_id' = [rx_id EXCEPT ![l] = NextSlot(@)]
        /\ Goto(l, "status")
        /\ UNCHANGED <<pool, nmb>>
  /\ nb_hold' = [nb_hold EXCEPT ![l] = @ + 1]
  /\ UNCHANGED <<nic, queue, rxm, rx_pkts, delivered>>

\* rte_mbuf_raw_alloc; without a fresh mbuf the packet stays where it is.
RxAlloc(l) ==
  /\ pc[l] = "alloc"
  /\ \/ \E m \in Mbufs :
          /\ pool[m] > 0
          /\ pool' = [pool EXCEPT ![m] = @ - 1]
          /\ nmb' = [nmb EXCEPT ![l] = m]
          /\ nb_hold' = [nb_hold EXCEPT ![l] = @ + 1]
          /\ Goto(l, "take")
     \/ /\ \A m \in Mbufs : pool[m] = 0
        /\ Goto(l, "tail")
        /\ UNCHANGED <<pool, nmb, nb_hold>>
  /\ UNCHANGED <<nic, status, queue, rx_id, rxm, rx_pkts, delivered>>

RxTake(l) ==
  /\ pc[l] = "take"
  /\ rxm' = [rxm EXCEPT ![l] = sw_ring[rx_id[l]]]
  /\ Goto(l, "attach")
  /\ UNCHANGED <<nic, pool, status, queue, rx_id, nb_hold, nmb, rx_pkts, delivered>>

\* Mutant: the software ring keeps the mbuf handed on.
RxAttachMissing(l) ==
  /\ pc[l] = "attach"
  /\ Goto(l, "rearm")
  /\ UNCHANGED <<nic, pool, status, queue, locals, delivered>>

RxAttach(l) ==
  /\ pc[l] = "attach"
  /\ sw_ring' = [sw_ring EXCEPT ![rx_id[l]] = nmb[l]]
  /\ Goto(l, "rearm")
  /\ UNCHANGED <<nic, pool, status, rx_tail, nb_rx_hold, locals, delivered>>

\* Mutant: the descriptor keeps the address of the buffer handed on.
RxRearmOld(l) ==
  /\ pc[l] = "rearm"
  /\ Goto(l, "reset")
  /\ UNCHANGED <<nic, pool, status, queue, locals, delivered>>

RxRearm(l) ==
  /\ pc[l] = "rearm"
  /\ buffer_addr' = [buffer_addr EXCEPT ![rx_id[l]] = nmb[l]]
  /\ Goto(l, "reset")
  /\ UNCHANGED <<data, rdh, rdt, stored, pool, status, queue, locals, delivered>>

\* The status is zero again and the mbuf is the caller's.
RxReset(l) ==
  /\ pc[l] = "reset"
  /\ status' = [status EXCEPT ![rx_id[l]] = FALSE]
  /\ rx_pkts' = [rx_pkts EXCEPT ![l] = Append(@, rxm[l])]
  /\ rx_id' = [rx_id EXCEPT ![l] = NextSlot(@)]
  /\ Goto(l, "status")
  /\ UNCHANGED <<nic, pool, queue, nb_hold, nmb, rxm, delivered>>

RxTail(l) ==
  /\ pc[l] = "tail"
  /\ rx_tail' = rx_id[l]
  /\ Goto(l, "sum")
  /\ UNCHANGED <<nic, pool, status, sw_ring, nb_rx_hold, locals, delivered>>

\* nb_hold + rxq->nb_rx_hold
RxSum(l) ==
  /\ pc[l] = "sum"
  /\ nb_hold' = [nb_hold EXCEPT ![l] = @ + nb_rx_hold]
  /\ Goto(l, "rdt")
  /\ UNCHANGED <<nic, pool, status, queue, rx_id, nmb, rxm, rx_pkts, delivered>>

\* Mutant: the tail register gets rx_id itself.
RxRdtFull(l) ==
  /\ pc[l] = "rdt"
  /\ IF nb_hold[l] > RxFreeThresh
       THEN rdt' = rx_id[l] /\ nb_hold' = [nb_hold EXCEPT ![l] = 0]
       ELSE UNCHANGED <<rdt, nb_hold>>
  /\ Goto(l, "hold")
  /\ UNCHANGED <<data, buffer_addr, rdh, stored, pool, status, queue, rx_id, nmb,
                 rxm, rx_pkts, delivered>>

\* Mutant: the held descriptors are never given back.
RxRdtNever(l) ==
  /\ pc[l] = "rdt"
  /\ Goto(l, "hold")
  /\ UNCHANGED <<nic, pool, status, queue, locals, delivered>>

\* More descriptors held back than the threshold: the tail register gets the
\* slot before rx_id.
RxRdt(l) ==
  /\ pc[l] = "rdt"
  /\ IF nb_hold[l] > RxFreeThresh
       THEN rdt' = SlotBefore(rx_id[l]) /\ nb_hold' = [nb_hold EXCEPT ![l] = 0]
       ELSE UNCHANGED <<rdt, nb_hold>>
  /\ Goto(l, "hold")
  /\ UNCHANGED <<data, buffer_addr, rdh, stored, pool, status, queue, rx_id, nmb,
                 rxm, rx_pkts, delivered>>

RxHold(l) ==
  /\ pc[l] = "hold"
  /\ nb_rx_hold' = nb_hold[l]
  /\ Goto(l, "loop")
  /\ UNCHANGED <<nic, pool, status, sw_ring, rx_tail, locals, delivered>>

-----------------------------------------------------------------------------
(* The loop over the packets of the burst in lcore_main *)

\* A packet is looked at, sent on and freed.
Process(l) ==
  /\ pc[l] = "loop" /\ rx_pkts[l] # << >>
  /\ LET m == Head(rx_pkts[l])
     IN  /\ delivered' = Append(delivered, data[m])
         /\ pool' = [pool EXCEPT ![m] = @ + 1]
  /\ rx_pkts' = [rx_pkts EXCEPT ![l] = Tail(@)]
  /\ UNCHANGED <<nic, status, queue, pc, rx_id, nb_hold, nmb, rxm>>

EndBurst(l) ==
  /\ pc[l] = "loop" /\ rx_pkts[l] = << >>
  /\ Goto(l, "idle")
  /\ UNCHANGED <<nic, pool, status, queue, locals, delivered>>

Lcore(l) ==
  \/ RxCall(l) \/ RxStatus(l) \/ RxAlloc(l) \/ RxTake(l) \/ RxAttach(l)
  \/ RxRearm(l) \/ RxReset(l) \/ RxTail(l) \/ RxSum(l) \/ RxRdt(l) \/ RxHold(l)
  \/ Process(l) \/ EndBurst(l)

Next == NicStore \/ \E l \in Lcores : Lcore(l)

Spec == Init /\ [][Next]_vars

\* Every lcore keeps polling, and a packet on the wire is stored as soon as a
\* descriptor is free.
FairSpec == Spec /\ WF_vars(NicStore) /\ \A l \in Lcores : WF_vars(Lcore(l))

-----------------------------------------------------------------------------
(* Properties *)

Steps == {"idle", "status", "alloc", "take", "attach", "rearm", "reset", "tail",
          "sum", "rdt", "hold", "loop"}

TypeOK ==
  /\ data \in [Mbufs -> 0..MaxPackets] /\ pool \in [Mbufs -> Nat]
  /\ buffer_addr \in [Slots -> Mbufs] /\ status \in [Slots -> BOOLEAN]
  /\ rdh \in Slots /\ rdt \in Slots
  /\ sw_ring \in [Slots -> Mbufs] /\ rx_tail \in Slots /\ nb_rx_hold \in 0..RxFreeThresh
  /\ pc \in [Lcores -> Steps]
  /\ rx_id \in [Lcores -> Slots]
  /\ nb_hold \in [Lcores -> Nat]
  /\ nmb \in [Lcores -> 0..NumMbufs] /\ rxm \in [Lcores -> 0..NumMbufs]
  /\ rx_pkts \in [Lcores -> Seq(Mbufs)] /\ \A l \in Lcores : Len(rx_pkts[l]) <= Burst
  /\ stored \in 0..MaxPackets /\ delivered \in Seq(0..MaxPackets)

\* The slots that belong to the NIC, from its head up to its tail.
NicOwns(s) == IF rdh <= rdt THEN rdh <= s /\ s < rdt ELSE s >= rdh \/ s < rdt

InHand(l, m) ==
  \/ pc[l] \in {"attach", "rearm", "reset"} /\ rxm[l] = m
  \/ pc[l] \in {"take", "attach"} /\ nmb[l] = m
  \/ \E n \in DOMAIN rx_pkts[l] : rx_pkts[l][n] = m

\* The NIC never writes into a buffer that software can read or hand out: a
\* descriptor it may fill is not DD, is rearmed, and its mbuf is in no lcore's
\* hands and not in the pool.
NicWritesSafely ==
  \A s \in Slots : NicOwns(s) =>
    /\ ~ status[s] /\ buffer_addr[s] = sw_ring[s]
    /\ pool[sw_ring[s]] = 0
    /\ \A l \in Lcores : ~ InHand(l, sw_ring[s])

\* No mbuf is in the pool twice, or in the pool and also in use.
PoolIsFree ==
  \A m \in Mbufs :
    /\ pool[m] <= 1
    /\ pool[m] = 1 => /\ \A s \in Slots : sw_ring[s] # m
                      /\ \A l \in Lcores : ~ InHand(l, m)

\* Packets are processed once each, completely and in the order of arrival.
InOrder == \A n \in DOMAIN delivered : delivered[n] = n

-----------------------------------------------------------------------------
(* Why this is so when one lcore polls the queue *)

\* How far slot s is ahead of slot r on the ring, and of the slot that lcore l
\* looks at next.
Gap(r, s) == IF r <= s THEN s - r ELSE s + RxDesc - r
Ahead(l, s) == Gap(rx_id[l], s)

\* The packets that lcore l has taken from the ring so far.
Taken(l) == Len(delivered) + Len(rx_pkts[l])

\* A descriptor that lcore l has decided to take and not yet passed by.
Taking(l) == pc[l] \in {"take", "attach", "rearm", "reset"}

\* The descriptors passed by since the tail register was last written.
HeldBack(l) ==
  IF pc[l] \in {"idle", "loop"} THEN nb_rx_hold
  ELSE IF pc[l] \in {"rdt", "hold"} THEN nb_hold[l]
  ELSE nb_rx_hold + nb_hold[l] - (IF Taking(l) THEN 1 ELSE 0)

\* From rx_id on the ring holds the packets stored and not taken, then the
\* descriptors the NIC may fill, then the held back ones.
RingShape(l) ==
  /\ stored = Taken(l) + Ahead(l, rdh)
  /\ Ahead(l, rdh) <= Ahead(l, rdt)
  /\ Ahead(l, rdt) + HeldBack(l) + 1 = RxDesc
  /\ \A s \in Slots : status[s] <=> Ahead(l, s) < Ahead(l, rdh)
  /\ pc[l] \in {"idle", "sum", "rdt", "hold", "loop"} => rx_tail = rx_id[l]
  /\ Taking(l) \/ pc[l] = "alloc" => status[rx_id[l]] /\ Len(rx_pkts[l]) < Burst
  /\ Taking(l) => nb_hold[l] >= 1
  /\ pc[l] = "hold" => nb_hold[l] <= RxFreeThresh

\* Mbuf m is in no slot, not in the pool and not among the packets of the burst.
Loose(l, m) ==
  /\ m \in Mbufs /\ pool[m] = 0
  /\ \A s \in Slots : sw_ring[s] # m
  /\ \A n \in DOMAIN rx_pkts[l] : rx_pkts[l][n] # m

\* Every mbuf has one place: the pool, a slot, the burst, or a local of the driver
\* between the statements that swap the fresh mbuf for the one received.
Places(l) ==
  /\ \A m \in Mbufs : pool[m] <= 1
  /\ \A s \in Slots : pool[sw_ring[s]] = 0
  /\ \A s, t \in Slots : sw_ring[s] = sw_ring[t] => s = t
  /\ \A n \in DOMAIN rx_pkts[l] :
       /\ pool[rx_pkts[l][n]] = 0
       /\ \A s \in Slots : sw_ring[s] # rx_pkts[l][n]
       /\ \A k \in DOMAIN rx_pkts[l] : rx_pkts[l][k] = rx_pkts[l][n] => k = n
  /\ pc[l] \in {"take", "attach"} => Loose(l, nmb[l])
  /\ pc[l] = "attach" => rxm[l] = sw_ring[rx_id[l]]
  /\ pc[l] \in {"rearm", "reset"} => Loose(l, rxm[l]) /\ sw_ring[rx_id[l]] = nmb[l]
  /\ \A s \in Slots :
       buffer_addr[s] = sw_ring[s] \/ (s = rx_id[l] /\ pc[l] = "rearm")

\* The packets in the burst, in the mbuf being taken and in the filled slots follow
\* on those delivered, without a gap.
Contents(l) ==
  /\ \A n \in DOMAIN rx_pkts[l] : data[rx_pkts[l][n]] = Len(delivered) + n
  /\ \A s \in Slots :
       Ahead(l, s) < Ahead(l, rdh) =>
         data[IF s = rx_id[l] /\ pc[l] \in {"rearm", "reset"} THEN rxm[l] ELSE sw_ring[s]]
           = Taken(l) + Ahead(l, s) + 1

\* What one lcore on its own maintains at every statement of eth_em_recv_pkts.
RecvInv ==
  TypeOK /\ InOrder /\ \A l \in Lcores : RingShape(l) /\ Places(l) /\ Contents(l)

\* "Multi-core processing": no lcore processes a packet that another one has
\* processed, or a buffer that never held one.
ProcessedOnce ==
  \A n \in DOMAIN delivered :
    delivered[n] # 0 /\ \A k \in DOMAIN delivered : k # n => delivered[k] # delivered[n]

\* Every packet on the wire is processed, although descriptors are held back
\* and the pool may be empty at times.
AllProcessed == <>(Len(delivered) >= MaxPackets)
=============================================================================
