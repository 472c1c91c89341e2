--------------------------- MODULE EmRxQueueProof ---------------------------
(***************************************************************************)
(* Proofs about EmRxQueue when one lcore polls the queue, for every size   *)
(* of ring, pool and burst and every threshold.  RecvInv is inductive; its *)
(* parts are kept apart: the shape of the ring, the places of the mbufs,   *)
(* and the packets in them.                                                *)
(***************************************************************************)
EXTENDS EmRxQueue, TLAPS

-----------------------------------------------------------------------------
(* Distances on the ring *)

LEMMA Sizes ==
  /\ RxDesc \in Nat /\ RxDesc >= 2 /\ NumMbufs \in Nat /\ NumMbufs >= RxDesc
  /\ RxFreeThresh \in Nat /\ Burst \in Nat /\ Burst >= 1 /\ MaxPackets \in Nat
BY SizeAssumption

\* A distance is less than the length of the ring, and zero only to the slot itself.
LEMMA GapType ==
  ASSUME NEW r \in Slots, NEW s \in Slots
  PROVE  /\ Gap(r, s) \in Nat /\ Gap(r, s) <= RxDesc - 1
         /\ Gap(r, r) = 0 /\ (Gap(r, s) = 0 => s = r)
BY Sizes DEF Gap, Slots

\* Two slots at the same distance are the same.
LEMMA GapInjective ==
  ASSUME NEW r \in Slots, NEW s \in Slots, NEW t \in Slots, Gap(r, s) = Gap(r, t)
  PROVE  s = t
BY Sizes DEF Gap, Slots

LEMMA SlotTypes ==
  ASSUME NEW s \in Slots
  PROVE  NextSlot(s) \in Slots /\ SlotBefore(s) \in Slots
BY Sizes DEF Slots, NextSlot, SlotBefore

\* The next slot is one further, unless it is the slot itself again.
LEMMA GapNext ==
  ASSUME NEW r \in Slots, NEW s \in Slots, Gap(r, s) < RxDesc - 1
  PROVE  Gap(r, NextSlot(s)) = Gap(r, s) + 1
BY Sizes DEF Gap, Slots, NextSlot

\* From the next slot every other slot is one nearer, and the slot itself is last.
LEMMA GapFromNext ==
  ASSUME NEW r \in Slots, NEW s \in Slots
  PROVE  Gap(NextSlot(r), s) = IF s = r THEN RxDesc - 1 ELSE Gap(r, s) - 1
BY Sizes DEF Gap, Slots, NextSlot

\* The slot before is the last one.
LEMMA GapBefore ==
  ASSUME NEW r \in Slots
  PROVE  Gap(r, SlotBefore(r)) = RxDesc - 1
BY Sizes DEF Gap, Slots, SlotBefore

\* The NIC's slots, by their distance from any slot outside them.
LEMMA OwnsByGap ==
  ASSUME NEW r \in Slots, NEW s \in Slots, rdh \in Slots, rdt \in Slots,
         Gap(r, rdh) <= Gap(r, rdt)
  PROVE  NicOwns(s) <=> Gap(r, rdh) <= Gap(r, s) /\ Gap(r, s) < Gap(r, rdt)
BY Sizes DEF Gap, Slots, NicOwns

-----------------------------------------------------------------------------
(* Types *)

\* What an lcore's locals are.
LEMMA LocalTypes ==
  ASSUME NEW l \in Lcores, TypeOK
  PROVE  /\ pc[l] \in Steps /\ rx_id[l] \in Slots /\ nb_hold[l] \in Nat
         /\ rx_pkts[l] \in Seq(Mbufs) /\ Len(rx_pkts[l]) \in Nat
         /\ DOMAIN rx_pkts[l] = 1..Len(rx_pkts[l])
         /\ Len(delivered) \in Nat /\ Taken(l) \in Nat /\ stored \in Nat
         /\ rdh \in Slots /\ rdt \in Slots /\ nb_rx_hold \in Nat
         /\ \A s \in Slots : sw_ring[s] \in Mbufs
         /\ \A n \in 1..Len(rx_pkts[l]) : rx_pkts[l][n] \in Mbufs
         /\ \A m \in Mbufs : pool[m] \in Nat /\ data[m] \in Nat
<1>1. pc[l] \in Steps /\ rx_id[l] \in Slots /\ nb_hold[l] \in Nat
  BY DEF TypeOK
<1>2. rx_pkts[l] \in Seq(Mbufs) /\ delivered \in Seq(0..MaxPackets)
  BY DEF TypeOK
<1>3. /\ Len(rx_pkts[l]) \in Nat /\ DOMAIN rx_pkts[l] = 1..Len(rx_pkts[l])
      /\ Len(delivered) \in Nat /\ \A n \in 1..Len(rx_pkts[l]) : rx_pkts[l][n] \in Mbufs
  BY <1>2
<1>4. rdh \in Slots /\ rdt \in Slots /\ stored \in Nat /\ nb_rx_hold \in Nat
  BY Sizes DEF TypeOK
<1>5. \A s \in Slots : sw_ring[s] \in Mbufs
  BY DEF TypeOK
<1>6. \A m \in Mbufs : pool[m] \in Nat /\ data[m] \in Nat
  BY Sizes DEF TypeOK
<1>7. Taken(l) \in Nat
  BY <1>3 DEF Taken
<1> QED
  BY <1>1, <1>2, <1>3, <1>4, <1>5, <1>6, <1>7

LEMMA TypeInit == Init => TypeOK
<1> SUFFICES ASSUME Init PROVE TypeOK
  OBVIOUS
<1>1. data \in [Mbufs -> 0..MaxPackets] /\ pool \in [Mbufs -> Nat]
  BY Sizes DEF Init
<1>2. buffer_addr \in [Slots -> Mbufs] /\ sw_ring \in [Slots -> Mbufs]
  BY Sizes DEF Init, Slots, Mbufs
<1>3. status \in [Slots -> BOOLEAN] /\ rdh \in Slots /\ rdt \in Slots
  BY Sizes DEF Init, Slots
<1>4. rx_tail \in Slots /\ nb_rx_hold \in 0..RxFreeThresh
  BY Sizes DEF Init, Slots
<1>5. /\ pc \in [Lcores -> Steps] /\ rx_id \in [Lcores -> Slots]
      /\ nb_hold \in [Lcores -> Nat] /\ nmb \in [Lcores -> 0..NumMbufs]
      /\ rxm \in [Lcores -> 0..NumMbufs]
  BY Sizes DEF Init, Slots, Steps
<1>6. rx_pkts \in [Lcores -> Seq(Mbufs)] /\ \A l \in Lcores : Len(rx_pkts[l]) <= Burst
  BY Sizes DEF Init
<1>7. stored \in 0..MaxPackets /\ delivered \in Seq(0..MaxPackets)
  BY Sizes DEF Init
<1> QED
  BY <1>1, <1>2, <1>3, <1>4, <1>5, <1>6, <1>7 DEF TypeOK

\* Statements that keep the types whatever else holds.
LEMMA TypeEasy ==
  ASSUME NEW l \in Lcores, TypeOK,
         \/ RxCall(l) \/ RxStatus(l) \/ RxTake(l) \/ RxTail(l) \/ RxSum(l)
         \/ EndBurst(l) \/ NicStore
  PROVE  TypeOK'
<1>1. CASE RxCall(l)
  BY <1>1 DEF RxCall, Goto, TypeOK, Steps, nic, queue
<1>2. CASE RxStatus(l)
  BY <1>2 DEF RxStatus, Goto, TypeOK, Steps, nic, queue, locals
<1>3. CASE RxTake(l)
  <2>1. sw_ring[rx_id[l]] \in 0..NumMbufs
    <3>1. sw_ring[rx_id[l]] \in Mbufs
      BY LocalTypes
    <3>2. \A m \in Mbufs : m \in 0..NumMbufs
      BY Sizes DEF Mbufs
    <3> QED
      BY <3>1, <3>2
  <2> QED
    BY <1>3, <2>1 DEF RxTake, Goto, TypeOK, Steps, nic, queue
<1>4. CASE RxTail(l)
  BY <1>4 DEF RxTail, Goto, TypeOK, Steps, nic, locals
<1>5. CASE RxSum(l)
  <2>1. nb_hold[l] + nb_rx_hold \in Nat
    BY LocalTypes
  <2> QED
    BY <1>5, <2>1 DEF RxSum, Goto, TypeOK, Steps, nic, queue
<1>6. CASE EndBurst(l)
  BY <1>6 DEF EndBurst, Goto, TypeOK, Steps, nic, queue, locals
<1>7. CASE NicStore
  <2>1. stored + 1 \in 0..MaxPackets
    BY <1>7, Sizes DEF NicStore, TypeOK
  <2>2. NextSlot(rdh) \in Slots
    BY SlotTypes DEF TypeOK
  <2>3. data' \in [Mbufs -> 0..MaxPackets] /\ status' \in [Slots -> BOOLEAN]
    BY <1>7, <2>1 DEF NicStore, TypeOK
  <2> QED
    BY <1>7, <2>1, <2>2, <2>3 DEF NicStore, TypeOK, queue, locals
<1> QED
  BY <1>1, <1>2, <1>3, <1>4, <1>5, <1>6, <1>7

\* Statements that need to know what the locals hold.
LEMMA TypeRest ==
  ASSUME NEW l \in Lcores, TypeOK, RingShape(l), Places(l),
         \/ RxAlloc(l) \/ RxAttach(l) \/ RxRearm(l) \/ RxReset(l) \/ RxRdt(l)
         \/ RxHold(l) \/ Process(l)
  PROVE  TypeOK'
<1>1. CASE RxAlloc(l)
  <2>2. ASSUME NEW m \in Mbufs, pool[m] > 0, pool' = [pool EXCEPT ![m] = @ - 1]
        PROVE  pool' \in [Mbufs -> Nat]
    <3>0. pool[m] \in Nat
      BY LocalTypes
    <3>1. pool[m] - 1 \in Nat
      BY <2>2, <3>0
    <3> QED
      BY <2>2, <3>1 DEF TypeOK
  <2>3. pool' \in [Mbufs -> Nat]
    BY <1>1, <2>2 DEF RxAlloc, TypeOK
  <2>4. nmb' \in [Lcores -> 0..NumMbufs] /\ nb_hold' \in [Lcores -> Nat]
    <3>1. \A m \in Mbufs : m \in 0..NumMbufs
      BY Sizes DEF Mbufs
    <3>2. nb_hold[l] + 1 \in Nat
      BY LocalTypes
    <3>3. nmb \in [Lcores -> 0..NumMbufs] /\ nb_hold \in [Lcores -> Nat]
      BY DEF TypeOK
    <3>4. \/ nmb' = nmb /\ nb_hold' = nb_hold
          \/ \E m \in Mbufs : /\ nmb' = [nmb EXCEPT ![l] = m]
                              /\ nb_hold' = [nb_hold EXCEPT ![l] = nb_hold[l] + 1]
      BY <1>1 DEF RxAlloc
    <3> QED
      BY <3>1, <3>2, <3>3, <3>4
  <2>5. pc' \in [Lcores -> Steps]
    BY <1>1 DEF RxAlloc, Goto, TypeOK, Steps
  <2> QED
    BY <1>1, <2>3, <2>4, <2>5 DEF RxAlloc, TypeOK, nic, queue
<1>2. CASE RxAttach(l)
  <2>1. nmb[l] \in Mbufs
    BY <1>2 DEF RxAttach, Places, Loose
  <2> QED
    BY <1>2, <2>1 DEF RxAttach, Goto, TypeOK, Steps, nic, locals
<1>3. CASE RxRearm(l)
  <2>1. nmb[l] \in Mbufs
    BY <1>3, LocalTypes DEF RxRearm, Places
  <2> QED
    BY <1>3, <2>1 DEF RxRearm, Goto, TypeOK, Steps, queue, locals
<1>4. CASE RxReset(l)
  <2>1. rxm[l] \in Mbufs /\ Len(rx_pkts[l]) < Burst
    BY <1>4 DEF RxReset, Places, Loose, RingShape, Taking
  <2>2. NextSlot(rx_id[l]) \in Slots
    BY LocalTypes, SlotTypes
  <2>3. /\ Append(rx_pkts[l], rxm[l]) \in Seq(Mbufs)
        /\ Len(Append(rx_pkts[l], rxm[l])) = Len(rx_pkts[l]) + 1
    BY <2>1, LocalTypes
  <2>4. Len(rx_pkts[l]) + 1 <= Burst
    BY <2>1, Sizes, LocalTypes
  <2>5. rx_pkts' = [rx_pkts EXCEPT ![l] = Append(rx_pkts[l], rxm[l])]
    BY <1>4 DEF RxReset
  <2>6. /\ rx_pkts' \in [Lcores -> Seq(Mbufs)]
        /\ \A k \in Lcores : Len(rx_pkts'[k]) <= Burst
    <3>1. rx_pkts \in [Lcores -> Seq(Mbufs)] /\ \A k \in Lcores : Len(rx_pkts[k]) <= Burst
      BY DEF TypeOK
    <3>2. PICK a : a = Append(rx_pkts[l], rxm[l])
      OBVIOUS
    <3>3. a \in Seq(Mbufs) /\ Len(a) <= Burst
      BY <2>3, <2>4, <3>2
    <3> QED
      BY <2>5, <3>1, <3>2, <3>3
  <2> QED
    BY <1>4, <2>2, <2>6 DEF RxReset, Goto, TypeOK, Steps, nic, queue
<1>5. CASE RxRdt(l)
  <2>1. SlotBefore(rx_id[l]) \in Slots
    BY LocalTypes, SlotTypes
  <2>2. rdt' \in Slots /\ nb_hold' \in [Lcores -> Nat]
    <3>1. rdt \in Slots /\ nb_hold \in [Lcores -> Nat]
      BY DEF TypeOK
    <3>2. \/ rdt' = rdt /\ nb_hold' = nb_hold
          \/ rdt' = SlotBefore(rx_id[l]) /\ nb_hold' = [nb_hold EXCEPT ![l] = 0]
      BY <1>5 DEF RxRdt
    <3> QED
      BY <2>1, <3>1, <3>2
  <2> QED
    BY <1>5, <2>2 DEF RxRdt, Goto, TypeOK, Steps, queue
<1>6. CASE RxHold(l)
  <2>1. nb_hold[l] \in 0..RxFreeThresh
    BY <1>6, LocalTypes, Sizes DEF RxHold, RingShape
  <2> QED
    BY <1>6, <2>1 DEF RxHold, Goto, TypeOK, Steps, nic, locals
<1>7. CASE Process(l)
  <2>0. rx_pkts[l] # <<>> /\ rx_pkts[l] \in Seq(Mbufs)
    BY <1>7, LocalTypes DEF Process
  <2>1. PICK m : m = Head(rx_pkts[l])
    OBVIOUS
  <2>2. m \in Mbufs /\ Tail(rx_pkts[l]) \in Seq(Mbufs)
        /\ Len(Tail(rx_pkts[l])) = Len(rx_pkts[l]) - 1
    BY <2>0, <2>1
  <2>3. data[m] \in 0..MaxPackets /\ pool[m] + 1 \in Nat
    <3>1. data[m] \in 0..MaxPackets
      BY <2>2 DEF TypeOK
    <3>2. pool[m] \in Nat
      BY <2>2, LocalTypes
    <3> QED
      BY <3>1, <3>2
  <2>4. delivered' = Append(delivered, data[m]) /\ pool' = [pool EXCEPT ![m] = pool[m] + 1]
    BY <1>7, <2>1 DEF Process
  <2>5. delivered' \in Seq(0..MaxPackets) /\ pool' \in [Mbufs -> Nat]
    BY <2>2, <2>3, <2>4 DEF TypeOK
  <2>6. /\ rx_pkts' \in [Lcores -> Seq(Mbufs)]
        /\ \A k \in Lcores : Len(rx_pkts'[k]) <= Burst
    <3>1. rx_pkts \in [Lcores -> Seq(Mbufs)] /\ \A k \in Lcores : Len(rx_pkts[k]) <= Burst
      BY DEF TypeOK
    <3>2. PICK a : a = Tail(rx_pkts[l])
      OBVIOUS
    <3>3. a \in Seq(Mbufs) /\ Len(a) <= Burst
      <4>1. Len(rx_pkts[l]) \in Nat /\ Len(rx_pkts[l]) <= Burst
        BY <3>1, LocalTypes
      <4> QED
        BY <4>1, <2>2, <3>2, Sizes
    <3>4. rx_pkts' = [rx_pkts EXCEPT ![l] = a]
      BY <1>7, <3>2 DEF Process
    <3> QED
      BY <3>1, <3>3, <3>4
  <2> QED
    BY <1>7, <2>5, <2>6 DEF Process, TypeOK, nic, queue
<1> QED
  BY <1>1, <1>2, <1>3, <1>4, <1>5, <1>6, <1>7

-----------------------------------------------------------------------------
(* The shape of the ring *)

\* The part of RingShape that is about the locals.
LocalShape(l) ==
  /\ pc[l] \in {"idle", "sum", "rdt", "hold", "loop"} => rx_tail = rx_id[l]
  /\ Taking(l) \/ pc[l] = "alloc" => status[rx_id[l]] /\ Len(rx_pkts[l]) < Burst
  /\ Taking(l) => nb_hold[l] >= 1
  /\ pc[l] = "hold" => nb_hold[l] <= RxFreeThresh

\* A statement that does not move along the ring.
LEMMA RingSame ==
  ASSUME NEW l \in Lcores, RingShape(l), rx_id'[l] = rx_id[l],
         UNCHANGED <<status, rdh, rdt, stored>>, Taken(l)' = Taken(l),
         HeldBack(l)' = HeldBack(l), LocalShape(l)'
  PROVE  RingShape(l)'
BY DEF RingShape, LocalShape, Ahead

LEMMA RingInit ==
  ASSUME NEW l \in Lcores, Init
  PROVE  RingShape(l)
<1>1. /\ rx_id[l] = 0 /\ rdh = 0 /\ rdt = RxDesc - 1 /\ stored = 0 /\ pc[l] = "idle"
      /\ nb_rx_hold = 0 /\ rx_tail = 0 /\ delivered = <<>> /\ rx_pkts[l] = <<>>
      /\ \A s \in Slots : ~ status[s]
  BY DEF Init
<1>2. /\ Ahead(l, rdh) = 0 /\ Ahead(l, rdt) = RxDesc - 1
      /\ \A s \in Slots : Ahead(l, s) \in Nat
  BY <1>1, Sizes DEF Ahead, Gap, Slots
<1>3. Taken(l) = 0 /\ HeldBack(l) = 0
  <2>1. Len(<<>>) = 0
    OBVIOUS
  <2> QED
    BY <1>1, <2>1 DEF Taken, HeldBack
<1>4. LocalShape(l)
  BY <1>1 DEF LocalShape, Taking
<1>5. \A s \in Slots : status[s] <=> Ahead(l, s) < Ahead(l, rdh)
  <2>1. \A s \in Slots : ~ (Ahead(l, s) < Ahead(l, rdh))
    BY <1>2
  <2> QED
    BY <1>1, <2>1
<1>6. /\ stored = Taken(l) + Ahead(l, rdh) /\ Ahead(l, rdh) <= Ahead(l, rdt)
      /\ Ahead(l, rdt) + HeldBack(l) + 1 = RxDesc
  BY <1>1, <1>2, <1>3, Sizes
<1> QED
  BY <1>4, <1>5, <1>6 DEF RingShape, LocalShape

\* Statements that leave the ring alone.
LEMMA RingStill ==
  ASSUME NEW l \in Lcores, TypeOK, RingShape(l),
         \/ RxCall(l) \/ RxStatus(l) \/ RxAlloc(l) \/ RxTake(l) \/ RxAttach(l)
         \/ RxRearm(l) \/ RxTail(l) \/ RxSum(l) \/ RxHold(l) \/ EndBurst(l)
  PROVE  RingShape(l)'
<1>t. nb_hold[l] \in Nat /\ nb_rx_hold \in Nat
  BY LocalTypes
<1>f. /\ pc \in [Lcores -> Steps] /\ rx_id \in [Lcores -> Slots]
      /\ nb_hold \in [Lcores -> Nat]
  BY DEF TypeOK
<1>0. UNCHANGED <<status, rdh, rdt, stored, delivered, rx_pkts>>
  BY DEF RxCall, RxStatus, RxAlloc, RxTake, RxAttach, RxRearm, RxTail, RxSum, RxHold,
         EndBurst, nic, locals
<1>1. Taken(l)' = Taken(l)
  BY <1>0 DEF Taken
<1>2. LocalShape(l)
  BY DEF RingShape, LocalShape
<1>3. CASE RxCall(l)
  <2>1. /\ pc[l] = "idle" /\ pc'[l] = "status" /\ rx_id'[l] = rx_tail /\ nb_hold'[l] = 0
        /\ nb_rx_hold' = nb_rx_hold /\ rx_tail' = rx_tail
    BY <1>3, <1>f DEF RxCall, Goto, queue
  <2>2. rx_id'[l] = rx_id[l] /\ LocalShape(l)'
    BY <2>1, <1>2 DEF LocalShape, Taking
  <2>3. HeldBack(l) = nb_rx_hold /\ HeldBack(l)' = nb_rx_hold + 0 - 0
    BY <2>1 DEF HeldBack, Taking
  <2> QED
    BY <1>0, <1>1, <2>2, <2>3, <1>t, RingSame
<1>4. CASE RxStatus(l)
  <2>1. /\ pc[l] = "status" /\ rx_id' = rx_id /\ nb_hold' = nb_hold
        /\ nb_rx_hold' = nb_rx_hold /\ rx_tail' = rx_tail
        /\ \/ pc'[l] = "tail"
           \/ pc'[l] = "alloc" /\ Len(rx_pkts[l]) < Burst /\ status[rx_id[l]]
    BY <1>4, <1>f DEF RxStatus, Goto, queue, locals
  <2>2. LocalShape(l)'
    BY <2>1, <1>0 DEF LocalShape, Taking
  <2>3. HeldBack(l)' = HeldBack(l)
    BY <2>1 DEF HeldBack, Taking
  <2> QED
    BY <1>0, <1>1, <2>1, <2>2, <2>3, RingSame
<1>5. CASE RxAlloc(l)
  <2>1. /\ pc[l] = "alloc" /\ rx_id' = rx_id
        /\ nb_rx_hold' = nb_rx_hold /\ rx_tail' = rx_tail
        /\ \/ pc'[l] = "tail" /\ nb_hold'[l] = nb_hold[l]
           \/ pc'[l] = "take" /\ nb_hold'[l] = nb_hold[l] + 1
    BY <1>5, <1>f DEF RxAlloc, Goto, queue
  <2>2. LocalShape(l)'
    <3>1. pc'[l] = "take" => nb_hold'[l] >= 1
      BY <2>1, <1>t
    <3> QED
      BY <2>1, <3>1, <1>0, <1>2 DEF LocalShape, Taking
  <2>3. HeldBack(l)' = HeldBack(l)
    <3>1. HeldBack(l) = nb_rx_hold + nb_hold[l] - 0
      BY <2>1 DEF HeldBack, Taking
    <3>2. CASE pc'[l] = "tail" /\ nb_hold'[l] = nb_hold[l]
      BY <2>1, <3>1, <3>2 DEF HeldBack, Taking
    <3>3. CASE pc'[l] = "take" /\ nb_hold'[l] = nb_hold[l] + 1
      <4>1. HeldBack(l)' = nb_rx_hold + (nb_hold[l] + 1) - 1
        BY <2>1, <3>3 DEF HeldBack, Taking
      <4> QED
        BY <3>1, <4>1, <1>t
    <3> QED
      BY <2>1, <3>2, <3>3
  <2> QED
    BY <1>0, <1>1, <2>1, <2>2, <2>3, RingSame
<1>6. CASE RxTake(l) \/ RxAttach(l) \/ RxRearm(l)
  <2>1. /\ pc[l] \in {"take", "attach", "rearm"} /\ rx_id' = rx_id /\ nb_hold' = nb_hold
        /\ nb_rx_hold' = nb_rx_hold /\ rx_tail' = rx_tail
        /\ pc'[l] \in {"attach", "rearm", "reset"}
    BY <1>6, <1>f DEF RxTake, RxAttach, RxRearm, Goto, queue, locals
  <2>2. LocalShape(l)'
    BY <2>1, <1>0, <1>2 DEF LocalShape, Taking
  <2>3. HeldBack(l)' = HeldBack(l)
    BY <2>1 DEF HeldBack, Taking
  <2> QED
    BY <1>0, <1>1, <2>1, <2>2, <2>3, RingSame
<1>7. CASE RxTail(l)
  <2>1. /\ pc[l] = "tail" /\ pc'[l] = "sum" /\ rx_id' = rx_id /\ nb_hold' = nb_hold
        /\ nb_rx_hold' = nb_rx_hold /\ rx_tail' = rx_id[l]
    BY <1>7, <1>f DEF RxTail, Goto, locals
  <2>2. LocalShape(l)'
    BY <2>1 DEF LocalShape, Taking
  <2>3. HeldBack(l)' = HeldBack(l)
    BY <2>1 DEF HeldBack, Taking
  <2> QED
    BY <1>0, <1>1, <2>1, <2>2, <2>3, RingSame
<1>8. CASE RxSum(l)
  <2>1. /\ pc[l] = "sum" /\ pc'[l] = "rdt" /\ rx_id' = rx_id
        /\ nb_hold'[l] = nb_hold[l] + nb_rx_hold
        /\ nb_rx_hold' = nb_rx_hold /\ rx_tail' = rx_tail
    BY <1>8, <1>f DEF RxSum, Goto, queue
  <2>2. LocalShape(l)'
    BY <2>1, <1>2 DEF LocalShape, Taking
  <2>3. HeldBack(l)' = nb_hold[l] + nb_rx_hold /\ HeldBack(l) = nb_rx_hold + nb_hold[l] - 0
    BY <2>1 DEF HeldBack, Taking
  <2> QED
    BY <1>0, <1>1, <2>1, <2>2, <2>3, <1>t, RingSame
<1>9. CASE RxHold(l) \/ EndBurst(l)
  <2>1. /\ pc[l] \in {"hold", "loop"} /\ pc'[l] \in {"loop", "idle"} /\ rx_id' = rx_id
        /\ (pc[l] = "hold" => nb_rx_hold' = nb_hold[l])
        /\ (pc[l] = "loop" => nb_rx_hold' = nb_rx_hold) /\ rx_tail' = rx_tail
    BY <1>9, <1>f DEF RxHold, EndBurst, Goto, queue, locals
  <2>2. LocalShape(l)'
    BY <2>1, <1>2 DEF LocalShape, Taking
  <2>3. HeldBack(l)' = HeldBack(l)
    BY <2>1 DEF HeldBack
  <2> QED
    BY <1>0, <1>1, <2>1, <2>2, <2>3, RingSame
<1> QED
  BY <1>3, <1>4, <1>5, <1>6, <1>7, <1>8, <1>9

\* The tail register is written: nothing is held back any more.
LEMMA RingRdt ==
  ASSUME NEW l \in Lcores, TypeOK, RingShape(l), RxRdt(l)
  PROVE  RingShape(l)'
<1>t. /\ nb_hold[l] \in Nat /\ rx_id[l] \in Slots /\ rdh \in Slots /\ rdt \in Slots
  BY LocalTypes
<1>f. pc \in [Lcores -> Steps] /\ nb_hold \in [Lcores -> Nat]
  BY DEF TypeOK
<1>0. /\ UNCHANGED <<status, rdh, stored, delivered, rx_pkts, rx_id, rx_tail>>
      /\ pc[l] = "rdt" /\ pc'[l] = "hold"
      /\ \/ /\ nb_hold[l] > RxFreeThresh
            /\ rdt' = SlotBefore(rx_id[l]) /\ nb_hold'[l] = 0
         \/ ~ (nb_hold[l] > RxFreeThresh) /\ rdt' = rdt /\ nb_hold' = nb_hold
  BY <1>f DEF RxRdt, Goto, queue
<1>1. Taken(l)' = Taken(l)
  BY <1>0 DEF Taken
<1>2. LocalShape(l)'
  <2>1. nb_hold'[l] <= RxFreeThresh
    BY <1>0, <1>t, Sizes
  <2> QED
    BY <2>1, <1>0 DEF RingShape, LocalShape, Taking
<1>3. CASE rdt' = rdt /\ nb_hold' = nb_hold
  <2>1. HeldBack(l)' = HeldBack(l)
    BY <1>0, <1>3 DEF HeldBack
  <2> QED
    BY <1>0, <1>1, <1>2, <1>3, <2>1, RingSame
<1>4. CASE rdt' = SlotBefore(rx_id[l]) /\ nb_hold'[l] = 0
  <2>1. HeldBack(l)' = 0
    BY <1>0, <1>4 DEF HeldBack
  <2>2. Ahead(l, rdt)' = RxDesc - 1
    BY <1>0, <1>4, <1>t, GapBefore DEF Ahead
  <2>3. Ahead(l, rdh)' = Ahead(l, rdh) /\ Ahead(l, rdh) \in Nat /\ Ahead(l, rdh) <= RxDesc - 1
    BY <1>0, <1>t, GapType DEF Ahead
  <2>4. stored' = Taken(l)' + Ahead(l, rdh)'
    BY <1>0, <1>1, <2>3 DEF RingShape
  <2>5. Ahead(l, rdh)' <= Ahead(l, rdt)' /\ Ahead(l, rdt)' + HeldBack(l)' + 1 = RxDesc
    BY <2>1, <2>2, <2>3, Sizes
  <2>6. \A s \in Slots : status'[s] <=> Ahead(l, s)' < Ahead(l, rdh)'
    BY <1>0 DEF RingShape, Ahead
  <2> QED
    BY <1>2, <2>4, <2>5, <2>6 DEF RingShape, LocalShape
<1> QED
  BY <1>0, <1>3, <1>4

\* The slot at rx_id has been taken: every distance shrinks by one.
LEMMA RingReset ==
  ASSUME NEW l \in Lcores, TypeOK, RingShape(l), RxReset(l)
  PROVE  /\ RingShape(l)' /\ Taken(l)' = Taken(l) + 1
         /\ Ahead(l, rx_id[l]) = 0 /\ Ahead(l, rdh) >= 1
         /\ Ahead(l, rdh)' = Ahead(l, rdh) - 1
         /\ Gap(rx_id'[l], rx_id[l]) = RxDesc - 1
         /\ \A s \in Slots : s # rx_id[l] => Ahead(l, s)' = Ahead(l, s) - 1
<1>t. /\ nb_hold[l] \in Nat /\ nb_rx_hold \in Nat /\ rx_id[l] \in Slots
      /\ rdh \in Slots /\ rdt \in Slots /\ Taken(l) \in Nat /\ stored \in Nat
  BY LocalTypes
<1>f. /\ pc \in [Lcores -> Steps] /\ rx_id \in [Lcores -> Slots]
      /\ rx_pkts \in [Lcores -> Seq(Mbufs)] /\ status \in [Slots -> BOOLEAN]
  BY DEF TypeOK
<1>0. /\ UNCHANGED <<rdh, rdt, stored, delivered, nb_hold, nb_rx_hold>>
      /\ pc[l] = "reset" /\ pc'[l] = "status" /\ rx_id'[l] = NextSlot(rx_id[l])
      /\ status' = [status EXCEPT ![rx_id[l]] = FALSE]
      /\ rx_pkts'[l] = Append(rx_pkts[l], rxm[l])
  BY <1>f DEF RxReset, Goto, nic, queue
<1>1. /\ stored = Taken(l) + Ahead(l, rdh) /\ Ahead(l, rdh) <= Ahead(l, rdt)
      /\ Ahead(l, rdt) + HeldBack(l) + 1 = RxDesc
      /\ \A s \in Slots : status[s] <=> Ahead(l, s) < Ahead(l, rdh)
      /\ status[rx_id[l]]
  BY <1>0 DEF RingShape, Taking
<1>2. /\ \A s \in Slots : Ahead(l, s) \in Nat /\ Ahead(l, s) <= RxDesc - 1
      /\ \A s \in Slots : Ahead(l, s) = 0 => s = rx_id[l]
      /\ Ahead(l, rx_id[l]) = 0
  BY <1>t, GapType DEF Ahead
<1>3. \A s \in Slots : Gap(rx_id'[l], s) =
                         IF s = rx_id[l] THEN RxDesc - 1 ELSE Ahead(l, s) - 1
  BY <1>0, <1>t, GapFromNext DEF Ahead
<1>4. \A s \in Slots : Ahead(l, s)' = Gap(rx_id'[l], s)
  BY DEF Ahead
<1>5. Ahead(l, rdh) >= 1 /\ rdh # rx_id[l] /\ rdt # rx_id[l]
  <2>1. Ahead(l, rx_id[l]) < Ahead(l, rdh)
    BY <1>1, <1>t
  <2>2. Ahead(l, rdh) \in Nat /\ Ahead(l, rdt) \in Nat
    BY <1>2, <1>t
  <2>3. Ahead(l, rdh) >= 1 /\ Ahead(l, rdt) >= 1
    BY <2>1, <2>2, <1>1, <1>2
  <2> QED
    BY <2>3, <1>2
<1>6. Ahead(l, rdh)' = Ahead(l, rdh) - 1 /\ Ahead(l, rdt)' = Ahead(l, rdt) - 1
  <2>1. Ahead(l, rdh)' = Gap(rx_id'[l], rdh) /\ Ahead(l, rdt)' = Gap(rx_id'[l], rdt)
    BY <1>0 DEF Ahead
  <2> QED
    BY <2>1, <1>3, <1>5, <1>t
<1>7. Taken(l)' = Taken(l) + 1
  <2>1. rx_pkts[l] \in Seq(Mbufs) /\ Len(delivered) \in Nat
    BY LocalTypes
  <2>2. Len(rx_pkts'[l]) = Len(rx_pkts[l]) + 1 /\ Len(rx_pkts[l]) \in Nat
    BY <1>0, <2>1
  <2>3. Len(delivered') = Len(delivered)
    BY <1>0
  <2> QED
    BY <2>1, <2>2, <2>3 DEF Taken
<1>8. HeldBack(l)' = HeldBack(l) + 1
  <2>1. HeldBack(l) = nb_rx_hold + nb_hold[l] - 1
    BY <1>0 DEF HeldBack, Taking
  <2>2. HeldBack(l)' = nb_rx_hold + nb_hold[l] - 0
    BY <1>0 DEF HeldBack, Taking
  <2> QED
    BY <2>1, <2>2, <1>t
<1>9. PICK a \in Nat : a = Ahead(l, rdh)
  BY <1>2, <1>t
<1>10. PICK b \in Nat : b = Ahead(l, rdt)
  BY <1>2, <1>t
<1>11. stored' = Taken(l)' + Ahead(l, rdh)'
  <2>1. stored = Taken(l) + a
    BY <1>1, <1>9
  <2>2. stored = (Taken(l) + 1) + (a - 1)
    BY <2>1, <1>t
  <2> QED
    BY <2>2, <1>0, <1>6, <1>7, <1>9
<1>12. Ahead(l, rdh)' <= Ahead(l, rdt)'
  BY <1>1, <1>6, <1>9, <1>10
<1>13. Ahead(l, rdt)' + HeldBack(l)' + 1 = RxDesc
  <2>1. PICK h : h = nb_rx_hold + nb_hold[l] - 1
    OBVIOUS
  <2>2. h \in Nat /\ HeldBack(l) = h
    <3>1. nb_hold[l] >= 1 /\ HeldBack(l) = nb_rx_hold + nb_hold[l] - 1
      BY <1>0 DEF RingShape, HeldBack, Taking
    <3> QED
      BY <2>1, <3>1, <1>t
  <2>3. b + h + 1 = RxDesc
    BY <2>2, <1>1, <1>10
  <2>4. (b - 1) + (h + 1) + 1 = RxDesc
    BY <2>2, <2>3
  <2> QED
    BY <2>2, <2>4, <1>6, <1>8, <1>10
<1>14. ASSUME NEW s \in Slots PROVE status'[s] <=> Ahead(l, s)' < Ahead(l, rdh)'
  <2>1. CASE s = rx_id[l]
    <3>1. ~ status'[s]
      BY <1>0, <1>f, <2>1
    <3>2. Ahead(l, s)' = RxDesc - 1
      BY <1>3, <1>4, <2>1
    <3>3. a <= RxDesc - 1
      BY <1>2, <1>9, <1>t
    <3>4. ~ (RxDesc - 1 < a - 1)
      BY <3>3, Sizes
    <3> QED
      BY <3>1, <3>2, <3>4, <1>6, <1>9
  <2>2. CASE s # rx_id[l]
    <3>1. status'[s] = status[s]
      BY <1>0, <1>f, <2>2
    <3>2. Ahead(l, s)' = Ahead(l, s) - 1
      BY <1>3, <1>4, <2>2
    <3>3. Ahead(l, s) \in Nat
      BY <1>2
    <3>4. (Ahead(l, s) < a) <=> (Ahead(l, s) - 1 < a - 1)
      BY <3>3
    <3> QED
      BY <3>1, <3>2, <3>4, <1>1, <1>6, <1>9
  <2> QED
    BY <2>1, <2>2
<1>15. LocalShape(l)'
  BY <1>0 DEF LocalShape, Taking
<1>16. RingShape(l)'
  BY <1>11, <1>12, <1>13, <1>14, <1>15 DEF RingShape, LocalShape
<1>17. \A s \in Slots : s # rx_id[l] => Ahead(l, s)' = Ahead(l, s) - 1
  BY <1>3, <1>4
<1> QED
  BY <1>2, <1>3, <1>5, <1>6, <1>7, <1>16, <1>17, <1>t

\* A packet that is processed moves from the burst to what is delivered.
LEMMA RingProcess ==
  ASSUME NEW l \in Lcores, TypeOK, RingShape(l), Process(l)
  PROVE  RingShape(l)' /\ Taken(l)' = Taken(l)
<1>f. rx_pkts \in [Lcores -> Seq(Mbufs)]
  BY DEF TypeOK
<1>0. /\ UNCHANGED <<status, rdh, rdt, stored, nb_hold, nb_rx_hold, rx_id, rx_tail, pc>>
      /\ pc[l] = "loop" /\ rx_pkts[l] # <<>> /\ rx_pkts'[l] = Tail(rx_pkts[l])
      /\ delivered' = Append(delivered, data[Head(rx_pkts[l])])
  BY <1>f DEF Process, nic, queue
<1>1. Taken(l)' = Taken(l)
  <2>1. /\ rx_pkts[l] \in Seq(Mbufs) /\ Len(delivered) \in Nat
        /\ delivered \in Seq(0..MaxPackets)
    BY LocalTypes DEF TypeOK
  <2>2. Len(rx_pkts'[l]) = Len(rx_pkts[l]) - 1 /\ Len(rx_pkts[l]) \in Nat
    BY <1>0, <2>1
  <2>3. Len(delivered') = Len(delivered) + 1
    BY <1>0, <2>1
  <2>4. PICK d \in Nat : d = Len(delivered)
    BY <2>1
  <2>5. PICK n \in Nat : n = Len(rx_pkts[l])
    BY <2>2
  <2>6. Taken(l) = d + n /\ Taken(l)' = (d + 1) + (n - 1)
    BY <2>2, <2>3, <2>4, <2>5 DEF Taken
  <2> QED
    BY <2>6
<1>2. HeldBack(l)' = HeldBack(l)
  BY <1>0 DEF HeldBack
<1>3. LocalShape(l)'
  BY <1>0 DEF RingShape, LocalShape, Taking
<1> QED
  BY <1>0, <1>1, <1>2, <1>3, RingSame

\* The NIC fills the slot behind the filled ones.
LEMMA RingNic ==
  ASSUME NEW l \in Lcores, TypeOK, RingShape(l), NicStore
  PROVE  RingShape(l)' /\ Ahead(l, rdh)' = Ahead(l, rdh) + 1
<1>t. /\ rx_id[l] \in Slots /\ rdh \in Slots /\ rdt \in Slots
      /\ Taken(l) \in Nat /\ stored \in Nat
  BY LocalTypes
<1>f. status \in [Slots -> BOOLEAN]
  BY DEF TypeOK
<1>0. /\ UNCHANGED <<rdt, delivered, rx_pkts, rx_id, rx_tail, pc, nb_hold, nb_rx_hold>>
      /\ rdh # rdt /\ rdh' = NextSlot(rdh) /\ stored' = stored + 1
      /\ status' = [status EXCEPT ![rdh] = TRUE]
  BY DEF NicStore, queue, locals
<1>1. /\ stored = Taken(l) + Ahead(l, rdh) /\ Ahead(l, rdh) <= Ahead(l, rdt)
      /\ \A s \in Slots : status[s] <=> Ahead(l, s) < Ahead(l, rdh)
  BY DEF RingShape
<1>2. \A s \in Slots : Ahead(l, s) \in Nat /\ Ahead(l, s) <= RxDesc - 1
  BY <1>t, GapType DEF Ahead
<1>3. Ahead(l, rdh) # Ahead(l, rdt)
  BY <1>0, <1>t, GapInjective DEF Ahead
<1>4. Ahead(l, rdh) < Ahead(l, rdt) /\ Ahead(l, rdh) < RxDesc - 1
  BY <1>1, <1>2, <1>3, <1>t, Sizes
<1>5. Ahead(l, rdh)' = Ahead(l, rdh) + 1 /\ \A s \in Slots : Ahead(l, s)' = Ahead(l, s)
  BY <1>0, <1>4, <1>t, GapNext DEF Ahead
<1>6. Ahead(l, rdt)' = Ahead(l, rdt) /\ Taken(l)' = Taken(l) /\ HeldBack(l)' = HeldBack(l)
  BY <1>0 DEF Ahead, Taken, HeldBack, Taking
<1>7. PICK a \in Nat : a = Ahead(l, rdh)
  BY <1>2, <1>t
<1>8. stored' = Taken(l)' + Ahead(l, rdh)'
  BY <1>0, <1>1, <1>5, <1>6, <1>7, <1>t
<1>9. Ahead(l, rdh)' <= Ahead(l, rdt)'
  <2>1. Ahead(l, rdt) \in Nat
    BY <1>2, <1>t
  <2> QED
    BY <2>1, <1>4, <1>5, <1>6, <1>7
<1>10. ASSUME NEW s \in Slots PROVE status'[s] <=> Ahead(l, s)' < Ahead(l, rdh)'
  <2>1. CASE s = rdh
    <3>1. status'[s] /\ Ahead(l, s)' = a /\ Ahead(l, rdh)' = a + 1
      BY <2>1, <1>0, <1>5, <1>7, <1>f
    <3> QED
      BY <3>1
  <2>2. CASE s # rdh
    <3>1. status'[s] = status[s] /\ Ahead(l, s)' = Ahead(l, s) /\ Ahead(l, rdh)' = a + 1
      BY <2>2, <1>0, <1>5, <1>7, <1>f
    <3>2. Ahead(l, s) # a
      BY <2>2, <1>7, <1>t, GapInjective DEF Ahead
    <3>3. Ahead(l, s) \in Nat
      BY <1>2
    <3>4. (Ahead(l, s) < a) <=> (Ahead(l, s) < a + 1)
      BY <3>2, <3>3
    <3> QED
      BY <3>1, <3>4, <1>1, <1>7
  <2> QED
    BY <2>1, <2>2
<1>11. LocalShape(l)'
  <2>1. LocalShape(l)
    BY DEF RingShape, LocalShape
  <2>2. status[rx_id[l]] => status'[rx_id[l]]
    BY <1>0, <1>f, <1>t
  <2> QED
    BY <2>1, <2>2, <1>0 DEF LocalShape, Taking
<1>12. Ahead(l, rdt)' + HeldBack(l)' + 1 = RxDesc
  BY <1>6 DEF RingShape
<1> QED
  BY <1>5, <1>8, <1>9, <1>10, <1>11, <1>12 DEF RingShape, LocalShape

-----------------------------------------------------------------------------
(* The places of the mbufs *)

\* The parts of Places.
SlotPlaces ==
  /\ \A m \in Mbufs : pool[m] <= 1
  /\ \A s \in Slots : pool[sw_ring[s]] = 0
  /\ \A s, t \in Slots : sw_ring[s] = sw_ring[t] => s = t

BurstPlaces(l) ==
  \A n \in DOMAIN rx_pkts[l] :
    /\ pool[rx_pkts[l][n]] = 0
    /\ \A s \in Slots : sw_ring[s] # rx_pkts[l][n]
    /\ \A k \in DOMAIN rx_pkts[l] : rx_pkts[l][k] = rx_pkts[l][n] => k = n

HandPlaces(l) ==
  /\ pc[l] \in {"take", "attach"} => Loose(l, nmb[l])
  /\ pc[l] = "attach" => rxm[l] = sw_ring[rx_id[l]]
  /\ pc[l] \in {"rearm", "reset"} => Loose(l, rxm[l]) /\ sw_ring[rx_id[l]] = nmb[l]

BufferPlaces(l) ==
  \A s \in Slots :
    buffer_addr[s] = sw_ring[s] \/ (s = rx_id[l] /\ pc[l] = "rearm")

LEMMA PlacesParts ==
  ASSUME NEW l
  PROVE  Places(l) <=> SlotPlaces /\ BurstPlaces(l) /\ HandPlaces(l) /\ BufferPlaces(l)
BY DEF Places, SlotPlaces, BurstPlaces, HandPlaces, BufferPlaces

LEMMA PlacesInit ==
  ASSUME NEW l \in Lcores, Init
  PROVE  Places(l)
<1>1. /\ pool = [m \in Mbufs |-> IF m <= RxDesc THEN 0 ELSE 1]
      /\ buffer_addr = [s \in Slots |-> s + 1] /\ sw_ring = [s \in Slots |-> s + 1]
      /\ pc[l] = "idle" /\ rx_pkts[l] = <<>>
  BY DEF Init
<1>2. SlotPlaces
  <2>1. \A s \in Slots : s \in Nat /\ s + 1 \in Mbufs /\ s + 1 <= RxDesc
    BY Sizes DEF Slots, Mbufs
  <2>2. \A s \in Slots : sw_ring[s] = s + 1
    BY <1>1
  <2>3. \A s, t \in Slots : sw_ring[s] = sw_ring[t] => s = t
    BY <2>1, <2>2
  <2>4. \A m \in Mbufs : pool[m] <= 1
    BY <1>1
  <2>5. \A s \in Slots : pool[sw_ring[s]] = 0
    BY <1>1, <2>1, <2>2
  <2> QED
    BY <2>3, <2>4, <2>5 DEF SlotPlaces
<1>3. BurstPlaces(l)
  BY <1>1 DEF BurstPlaces
<1>4. HandPlaces(l)
  BY <1>1 DEF HandPlaces
<1>5. BufferPlaces(l)
  BY <1>1 DEF BufferPlaces
<1> QED
  BY <1>2, <1>3, <1>4, <1>5, PlacesParts

\* Statements that move no mbuf.
LEMMA PlacesStill ==
  ASSUME NEW l \in Lcores, TypeOK, RingShape(l), Places(l),
         \/ RxCall(l) \/ RxStatus(l) \/ RxTake(l) \/ RxTail(l) \/ RxSum(l) \/ RxRdt(l)
         \/ RxHold(l) \/ EndBurst(l) \/ NicStore
  PROVE  Places(l)'
<1>f. pc \in [Lcores -> Steps] /\ rx_id \in [Lcores -> Slots] /\ rxm \in [Lcores -> 0..NumMbufs]
  BY DEF TypeOK
<1>1. UNCHANGED <<pool, sw_ring, rx_pkts, buffer_addr, nmb>>
  BY DEF RxCall, RxStatus, RxTake, RxTail, RxSum, RxRdt, RxHold, EndBurst, NicStore, nic,
         queue, locals
<1>2. rx_id'[l] = rx_id[l]
  <2>1. CASE RxCall(l)
    BY <2>1, <1>f DEF RxCall, RingShape
  <2>2. CASE ~ RxCall(l)
    BY <2>2 DEF RxStatus, RxTake, RxTail, RxSum, RxRdt, RxHold, EndBurst, NicStore, locals
  <2> QED
    BY <2>1, <2>2
<1>3. \/ RxTake(l) /\ pc[l] = "take" /\ pc'[l] = "attach" /\ rxm'[l] = sw_ring[rx_id[l]]
      \/ NicStore /\ pc'[l] = pc[l] /\ rxm' = rxm
      \/ /\ pc[l] \notin {"take", "attach", "rearm", "reset"}
         /\ pc'[l] \notin {"take", "attach", "rearm", "reset"}
  BY <1>f DEF RxCall, RxStatus, RxTake, RxTail, RxSum, RxRdt, RxHold, EndBurst, NicStore,
              Goto, locals
<1>4. SlotPlaces /\ BurstPlaces(l) /\ HandPlaces(l) /\ BufferPlaces(l)
  BY PlacesParts
<1>5. SlotPlaces' /\ BurstPlaces(l)'
  BY <1>1, <1>4 DEF SlotPlaces, BurstPlaces
<1>6. HandPlaces(l)'
  BY <1>1, <1>2, <1>3, <1>4 DEF HandPlaces, Loose
<1>7. BufferPlaces(l)'
  BY <1>1, <1>2, <1>3, <1>4 DEF BufferPlaces
<1> QED
  BY <1>5, <1>6, <1>7 DEF Places, SlotPlaces, BurstPlaces, HandPlaces, BufferPlaces

\* A fresh mbuf leaves the pool.
LEMMA PlacesAlloc ==
  ASSUME NEW l \in Lcores, TypeOK, Places(l), RxAlloc(l)
  PROVE  Places(l)'
<1>f. /\ pc \in [Lcores -> Steps] /\ nmb \in [Lcores -> 0..NumMbufs]
      /\ pool \in [Mbufs -> Nat]
  BY DEF TypeOK
<1>t. /\ \A s \in Slots : sw_ring[s] \in Mbufs
      /\ \A n \in DOMAIN rx_pkts[l] : rx_pkts[l][n] \in Mbufs
  BY LocalTypes
<1>1. UNCHANGED <<sw_ring, rx_pkts, buffer_addr, rx_id>> /\ pc[l] = "alloc"
  BY DEF RxAlloc, nic, queue
<1>2. SlotPlaces /\ BurstPlaces(l) /\ BufferPlaces(l)
  BY PlacesParts
<1>3. CASE pool' = pool /\ pc'[l] = "tail"
  <2>1. SlotPlaces' /\ BurstPlaces(l)' /\ BufferPlaces(l)' /\ HandPlaces(l)'
    BY <1>1, <1>2, <1>3 DEF SlotPlaces, BurstPlaces, HandPlaces, BufferPlaces
  <2> QED
    BY <2>1 DEF Places, SlotPlaces, BurstPlaces, HandPlaces, BufferPlaces
<1>4. ASSUME NEW m \in Mbufs, pool[m] > 0, pool' = [pool EXCEPT ![m] = pool[m] - 1],
             nmb'[l] = m, pc'[l] = "take"
      PROVE  Places(l)'
  <2>1. pool[m] = 1 /\ pool'[m] = 0 /\ \A x \in Mbufs : x # m => pool'[x] = pool[x]
    <3>1. pool[m] \in Nat /\ pool[m] <= 1
      BY <1>2, <1>f DEF SlotPlaces
    <3>2. pool[m] = 1 /\ pool[m] - 1 = 0
      BY <3>1, <1>4
    <3> QED
      BY <3>2, <1>4, <1>f
  <2>2. \A s \in Slots : sw_ring[s] # m
    BY <2>1, <1>2 DEF SlotPlaces
  <2>3. \A n \in DOMAIN rx_pkts[l] : rx_pkts[l][n] # m
    BY <2>1, <1>2 DEF BurstPlaces
  <2>4. SlotPlaces'
    <3>1. \A x \in Mbufs : pool'[x] <= 1
      BY <2>1, <1>2 DEF SlotPlaces
    <3>2. \A s \in Slots : pool'[sw_ring[s]] = 0
      BY <2>1, <2>2, <1>2, <1>t DEF SlotPlaces
    <3> QED
      BY <3>1, <3>2, <1>1, <1>2 DEF SlotPlaces
  <2>5. BurstPlaces(l)'
    BY <2>1, <2>3, <1>1, <1>2, <1>t DEF BurstPlaces
  <2>6. HandPlaces(l)'
    BY <2>1, <2>2, <2>3, <1>1, <1>4 DEF HandPlaces, Loose
  <2>7. BufferPlaces(l)'
    BY <1>1, <1>2, <1>4 DEF BufferPlaces
  <2> QED
    BY <2>4, <2>5, <2>6, <2>7 DEF Places, SlotPlaces, BurstPlaces, HandPlaces, BufferPlaces
<1>5. \/ pool' = pool /\ pc'[l] = "tail"
      \/ \E m \in Mbufs : /\ pool[m] > 0 /\ pool' = [pool EXCEPT ![m] = pool[m] - 1]
                          /\ nmb'[l] = m /\ pc'[l] = "take"
  BY <1>f DEF RxAlloc, Goto
<1> QED
  BY <1>3, <1>4, <1>5

\* The fresh mbuf takes the place of the received one, first in sw_ring and then in
\* the descriptor.
LEMMA PlacesSwap ==
  ASSUME NEW l \in Lcores, TypeOK, Places(l), RxAttach(l) \/ RxRearm(l)
  PROVE  Places(l)'
<1>f. /\ pc \in [Lcores -> Steps] /\ sw_ring \in [Slots -> Mbufs]
      /\ buffer_addr \in [Slots -> Mbufs] /\ rx_id[l] \in Slots
  BY DEF TypeOK
<1>t. /\ \A s \in Slots : sw_ring[s] \in Mbufs
      /\ \A n \in DOMAIN rx_pkts[l] : rx_pkts[l][n] \in Mbufs
  BY LocalTypes
<1>1. UNCHANGED <<pool, rx_pkts, rx_id, nmb, rxm>>
  BY DEF RxAttach, RxRearm, locals
<1>2. SlotPlaces /\ BurstPlaces(l) /\ HandPlaces(l) /\ BufferPlaces(l)
  BY PlacesParts
<1>3. CASE RxAttach(l)
  <2>1. /\ pc[l] = "attach" /\ pc'[l] = "rearm" /\ buffer_addr' = buffer_addr
        /\ sw_ring' = [sw_ring EXCEPT ![rx_id[l]] = nmb[l]]
    BY <1>3, <1>f DEF RxAttach, Goto, nic
  <2>2. sw_ring'[rx_id[l]] = nmb[l] /\ \A s \in Slots : s # rx_id[l] => sw_ring'[s] = sw_ring[s]
    BY <2>1, <1>f
  <2>3. Loose(l, nmb[l]) /\ rxm[l] = sw_ring[rx_id[l]]
    BY <2>1, <1>2 DEF HandPlaces
  <2>4. SlotPlaces'
    <3>1. \A s \in Slots : pool[sw_ring'[s]] = 0
      BY <2>2, <2>3, <1>2 DEF SlotPlaces, Loose
    <3>2. \A s, t \in Slots : sw_ring'[s] = sw_ring'[t] => s = t
      BY <2>2, <2>3, <1>2 DEF SlotPlaces, Loose
    <3> QED
      BY <3>1, <3>2, <1>1, <1>2 DEF SlotPlaces
  <2>5. BurstPlaces(l)'
    BY <2>2, <2>3, <1>1, <1>2 DEF BurstPlaces, Loose
  <2>6. Loose(l, rxm[l])'
    <3>1. rxm[l] \in Mbufs /\ pool[rxm[l]] = 0
      BY <2>3, <1>2, <1>f DEF SlotPlaces
    <3>2. \A s \in Slots : sw_ring'[s] # rxm[l]
      BY <2>2, <2>3, <1>2, <1>f DEF SlotPlaces, Loose
    <3>3. \A n \in DOMAIN rx_pkts[l] : rx_pkts[l][n] # rxm[l]
      BY <2>3, <1>2, <1>f DEF BurstPlaces
    <3> QED
      BY <3>1, <3>2, <3>3, <1>1 DEF Loose
  <2>7. HandPlaces(l)' /\ BufferPlaces(l)'
    BY <2>1, <2>2, <2>6, <1>1, <1>2 DEF HandPlaces, BufferPlaces
  <2> QED
    BY <2>4, <2>5, <2>7 DEF Places, SlotPlaces, BurstPlaces, HandPlaces, BufferPlaces
<1>4. CASE RxRearm(l)
  <2>1. /\ pc[l] = "rearm" /\ pc'[l] = "reset" /\ sw_ring' = sw_ring
        /\ buffer_addr' = [buffer_addr EXCEPT ![rx_id[l]] = nmb[l]]
    BY <1>4, <1>f DEF RxRearm, Goto, queue
  <2>2. SlotPlaces' /\ BurstPlaces(l)'
    BY <2>1, <1>1, <1>2 DEF SlotPlaces, BurstPlaces
  <2>3. HandPlaces(l)'
    BY <2>1, <1>1, <1>2 DEF HandPlaces, Loose
  <2>4. BufferPlaces(l)'
    <3>1. sw_ring[rx_id[l]] = nmb[l]
      BY <2>1, <1>2 DEF HandPlaces
    <3>2. \A s \in Slots : buffer_addr'[s] = sw_ring[s]
      BY <2>1, <3>1, <1>2, <1>f DEF BufferPlaces
    <3> QED
      BY <2>1, <3>2 DEF BufferPlaces
  <2> QED
    BY <2>2, <2>3, <2>4 DEF Places, SlotPlaces, BurstPlaces, HandPlaces, BufferPlaces
<1> QED
  BY <1>3, <1>4

\* What RxReset appends to the burst.
LEMMA BurstGrows ==
  ASSUME NEW l \in Lcores, TypeOK, RxReset(l), Places(l)
  PROVE  /\ Len(rx_pkts[l]) \in Nat /\ rxm[l] \in Mbufs
         /\ DOMAIN rx_pkts'[l] = 1..Len(rx_pkts[l]) + 1
         /\ \A n \in 1..Len(rx_pkts[l]) : rx_pkts'[l][n] = rx_pkts[l][n]
         /\ rx_pkts'[l][Len(rx_pkts[l]) + 1] = rxm[l]
<1>1. rx_pkts \in [Lcores -> Seq(Mbufs)] /\ rx_pkts[l] \in Seq(Mbufs)
  BY DEF TypeOK
<1>2. rxm[l] \in Mbufs
  BY DEF RxReset, Places, Loose
<1>3. rx_pkts'[l] = Append(rx_pkts[l], rxm[l])
  BY <1>1 DEF RxReset
<1> QED
  BY <1>1, <1>2, <1>3

\* What Process takes from the burst.
LEMMA BurstShrinks ==
  ASSUME NEW l \in Lcores, TypeOK, Process(l)
  PROVE  /\ Len(rx_pkts[l]) \in Nat /\ Len(rx_pkts[l]) >= 1
         /\ DOMAIN rx_pkts'[l] = 1..Len(rx_pkts[l]) - 1
         /\ \A n \in 1..Len(rx_pkts[l]) - 1 : rx_pkts'[l][n] = rx_pkts[l][n + 1]
         /\ rx_pkts[l][1] \in Mbufs
         /\ pool' = [pool EXCEPT ![rx_pkts[l][1]] = pool[rx_pkts[l][1]] + 1]
         /\ delivered' = Append(delivered, data[rx_pkts[l][1]])
<1>1. rx_pkts \in [Lcores -> Seq(Mbufs)] /\ rx_pkts[l] \in Seq(Mbufs)
  BY DEF TypeOK
<1>2. rx_pkts[l] # <<>> /\ rx_pkts'[l] = Tail(rx_pkts[l])
  BY <1>1 DEF Process
<1>3. Head(rx_pkts[l]) = rx_pkts[l][1]
  BY <1>1, <1>2
<1>4. /\ pool' = [pool EXCEPT ![rx_pkts[l][1]] = pool[rx_pkts[l][1]] + 1]
      /\ delivered' = Append(delivered, data[rx_pkts[l][1]])
  BY <1>3 DEF Process
<1> QED
  BY <1>1, <1>2, <1>4

\* The received mbuf joins the burst.
LEMMA PlacesReset ==
  ASSUME NEW l \in Lcores, TypeOK, Places(l), RxReset(l)
  PROVE  Places(l)'
<1>1. /\ UNCHANGED <<pool, sw_ring, buffer_addr>> /\ pc[l] = "reset" /\ pc'[l] = "status"
  BY DEF RxReset, Goto, nic, queue, TypeOK
<1>2. SlotPlaces /\ BurstPlaces(l) /\ HandPlaces(l) /\ BufferPlaces(l)
  BY PlacesParts
<1>3. Loose(l, rxm[l])
  BY <1>1, <1>2 DEF HandPlaces
<1>4. PICK n \in Nat : n = Len(rx_pkts[l])
  BY BurstGrows
<1>5. /\ DOMAIN rx_pkts'[l] = 1..n + 1 /\ rx_pkts'[l][n + 1] = rxm[l]
      /\ \A k \in 1..n : rx_pkts'[l][k] = rx_pkts[l][k]
      /\ DOMAIN rx_pkts[l] = 1..n
  BY <1>4, BurstGrows, LocalTypes
<1>6. \A k \in 1..n + 1 : k \in 1..n \/ k = n + 1
  BY <1>4
<1>7. ASSUME NEW k \in 1..n + 1
      PROVE  pool[rx_pkts'[l][k]] = 0 /\ \A s \in Slots : sw_ring[s] # rx_pkts'[l][k]
  BY <1>2, <1>3, <1>5, <1>6 DEF BurstPlaces, Loose
<1>8. ASSUME NEW k \in 1..n + 1, NEW j \in 1..n + 1, rx_pkts'[l][k] = rx_pkts'[l][j]
      PROVE  k = j
  <2>1. CASE k \in 1..n /\ j \in 1..n
    BY <2>1, <1>2, <1>5, <1>8 DEF BurstPlaces
  <2>2. CASE k = n + 1 /\ j \in 1..n
    BY <2>2, <1>3, <1>5, <1>8 DEF Loose
  <2>3. CASE k \in 1..n /\ j = n + 1
    BY <2>3, <1>3, <1>5, <1>8 DEF Loose
  <2> QED
    BY <2>1, <2>2, <2>3, <1>6
<1>9. BurstPlaces(l)'
  BY <1>1, <1>5, <1>7, <1>8 DEF BurstPlaces
<1>10. SlotPlaces'
  BY <1>1, <1>2 DEF SlotPlaces
<1>11. HandPlaces(l)' /\ BufferPlaces(l)'
  BY <1>1, <1>2 DEF HandPlaces, BufferPlaces
<1> QED
  BY <1>9, <1>10, <1>11 DEF Places, SlotPlaces, BurstPlaces, HandPlaces, BufferPlaces

\* A processed mbuf goes back to the pool.
LEMMA PlacesProcess ==
  ASSUME NEW l \in Lcores, TypeOK, Places(l), Process(l)
  PROVE  Places(l)'
<1>f. pool \in [Mbufs -> Nat]
  BY DEF TypeOK
<1>t. /\ \A s \in Slots : sw_ring[s] \in Mbufs
      /\ \A k \in DOMAIN rx_pkts[l] : rx_pkts[l][k] \in Mbufs
  BY LocalTypes
<1>1. UNCHANGED <<sw_ring, buffer_addr, pc, rx_id>> /\ pc[l] = "loop"
  BY DEF Process, nic, queue
<1>2. SlotPlaces /\ BurstPlaces(l) /\ BufferPlaces(l)
  BY PlacesParts
<1>3. PICK n \in Nat : n = Len(rx_pkts[l])
  BY BurstShrinks
<1>4. PICK m \in Mbufs : m = rx_pkts[l][1]
  BY BurstShrinks
<1>5. /\ n >= 1 /\ DOMAIN rx_pkts'[l] = 1..n - 1 /\ DOMAIN rx_pkts[l] = 1..n
      /\ \A k \in 1..n - 1 : rx_pkts'[l][k] = rx_pkts[l][k + 1]
      /\ pool' = [pool EXCEPT ![m] = pool[m] + 1]
  BY <1>3, <1>4, BurstShrinks, LocalTypes
<1>6. 1 \in 1..n /\ \A k \in 1..n - 1 : k + 1 \in 1..n /\ k + 1 # 1 /\ k \in Nat
  BY <1>5
<1>7. pool[m] = 0 /\ \A s \in Slots : sw_ring[s] # m
  BY <1>2, <1>4, <1>5, <1>6 DEF BurstPlaces
<1>8. pool'[m] = 1 /\ \A x \in Mbufs : x # m => pool'[x] = pool[x]
  BY <1>5, <1>7, <1>f
<1>9. SlotPlaces'
  <2>1. \A x \in Mbufs : pool'[x] <= 1
    BY <1>2, <1>8 DEF SlotPlaces
  <2>2. \A s \in Slots : pool'[sw_ring[s]] = 0
    BY <1>2, <1>7, <1>8, <1>t DEF SlotPlaces
  <2> QED
    BY <2>1, <2>2, <1>1, <1>2 DEF SlotPlaces
<1>10. ASSUME NEW k \in 1..n - 1
       PROVE  /\ pool'[rx_pkts'[l][k]] = 0
              /\ \A s \in Slots : sw_ring[s] # rx_pkts'[l][k]
  <2>1. rx_pkts'[l][k] = rx_pkts[l][k + 1] /\ k + 1 \in 1..n /\ k + 1 # 1
    BY <1>5, <1>6
  <2>2. rx_pkts[l][k + 1] # m
    BY <2>1, <1>2, <1>4, <1>5, <1>6 DEF BurstPlaces
  <2>3. pool[rx_pkts[l][k + 1]] = 0 /\ \A s \in Slots : sw_ring[s] # rx_pkts[l][k + 1]
    BY <2>1, <1>2, <1>5 DEF BurstPlaces
  <2> QED
    BY <2>1, <2>2, <2>3, <1>5, <1>8, <1>t
<1>11. ASSUME NEW k \in 1..n - 1, NEW j \in 1..n - 1, rx_pkts'[l][k] = rx_pkts'[l][j]
       PROVE  k = j
  <2>1. /\ rx_pkts[l][k + 1] = rx_pkts[l][j + 1] /\ k + 1 \in 1..n /\ j + 1 \in 1..n
        /\ k \in Nat /\ j \in Nat
    BY <1>5, <1>6, <1>11
  <2>2. k + 1 = j + 1
    BY <2>1, <1>2, <1>5 DEF BurstPlaces
  <2> QED
    BY <2>1, <2>2
<1>12. BurstPlaces(l)'
  BY <1>1, <1>5, <1>10, <1>11 DEF BurstPlaces
<1>13. HandPlaces(l)' /\ BufferPlaces(l)'
  BY <1>1, <1>2 DEF HandPlaces, BufferPlaces
<1> QED
  BY <1>9, <1>12, <1>13 DEF Places, SlotPlaces, BurstPlaces, HandPlaces, BufferPlaces

-----------------------------------------------------------------------------
(* The packets in the mbufs *)

\* The mbuf that holds the packet of a filled slot.
HolderOf(l, s) ==
  IF s = rx_id[l] /\ pc[l] \in {"rearm", "reset"} THEN rxm[l] ELSE sw_ring[s]

LEMMA ContentsInit ==
  ASSUME NEW l \in Lcores, Init
  PROVE  Contents(l)
<1>1. rx_pkts[l] = <<>> /\ rdh = 0 /\ rx_id[l] = 0
  BY DEF Init
<1>2. 0 \in Slots
  BY Sizes DEF Slots
<1>3. \A s \in Slots : ~ (Ahead(l, s) < Ahead(l, rdh))
  <2>1. \A s \in Slots : Gap(0, s) \in Nat /\ Gap(0, 0) = 0
    BY <1>2, GapType
  <2>2. \A s \in Slots : ~ (Gap(0, s) < Gap(0, 0))
    BY <2>1
  <2> QED
    BY <1>1, <2>2 DEF Ahead
<1> QED
  BY <1>1, <1>3 DEF Contents

\* Statements that neither store, move nor hand on a packet.
LEMMA ContentsStill ==
  ASSUME NEW l \in Lcores, TypeOK, RingShape(l), Places(l), Contents(l),
         \/ RxCall(l) \/ RxStatus(l) \/ RxAlloc(l) \/ RxTake(l) \/ RxAttach(l)
         \/ RxRearm(l) \/ RxTail(l) \/ RxSum(l) \/ RxRdt(l) \/ RxHold(l) \/ EndBurst(l)
  PROVE  Contents(l)'
<1>f. /\ pc \in [Lcores -> Steps] /\ rx_id \in [Lcores -> Slots]
      /\ sw_ring \in [Slots -> Mbufs] /\ rx_id[l] \in Slots
  BY DEF TypeOK
<1>1. UNCHANGED <<data, rx_pkts, delivered, rdh>>
  BY DEF RxCall, RxStatus, RxAlloc, RxTake, RxAttach, RxRearm, RxTail, RxSum, RxRdt,
         RxHold, EndBurst, nic, queue, locals
<1>2. rx_id'[l] = rx_id[l]
  <2>1. CASE RxCall(l)
    BY <2>1, <1>f DEF RxCall, RingShape
  <2>2. CASE ~ RxCall(l)
    BY <2>2 DEF RxStatus, RxAlloc, RxTake, RxAttach, RxRearm, RxTail, RxSum, RxRdt,
                RxHold, EndBurst, locals
  <2> QED
    BY <2>1, <2>2
<1>3. Taken(l)' = Taken(l)
  BY <1>1 DEF Taken
<1>4. ASSUME NEW s \in Slots PROVE HolderOf(l, s)' = HolderOf(l, s)
  <2>1. CASE RxAttach(l)
    <3>1. /\ pc[l] = "attach" /\ pc'[l] = "rearm" /\ rxm' = rxm
          /\ sw_ring' = [sw_ring EXCEPT ![rx_id[l]] = nmb[l]]
      BY <2>1, <1>f DEF RxAttach, Goto, locals
    <3>2. rxm[l] = sw_ring[rx_id[l]]
      BY <3>1 DEF Places
    <3> QED
      BY <3>1, <3>2, <1>2, <1>f DEF HolderOf
  <2>2. CASE RxRearm(l)
    <3>1. pc[l] = "rearm" /\ pc'[l] = "reset" /\ rxm' = rxm /\ sw_ring' = sw_ring
      BY <2>2, <1>f DEF RxRearm, Goto, locals, queue
    <3> QED
      BY <3>1, <1>2 DEF HolderOf
  <2>3. CASE ~ RxAttach(l) /\ ~ RxRearm(l)
    <3>1. /\ sw_ring' = sw_ring /\ pc[l] \notin {"rearm", "reset"}
          /\ pc'[l] \notin {"rearm", "reset"}
      BY <2>3, <1>f DEF RxCall, RxStatus, RxAlloc, RxTake, RxTail, RxSum, RxRdt, RxHold,
                        EndBurst, Goto, queue
    <3> QED
      BY <3>1 DEF HolderOf
  <2> QED
    BY <2>1, <2>2, <2>3
<1>5. Ahead(l, rdh)' = Ahead(l, rdh) /\ \A s \in Slots : Ahead(l, s)' = Ahead(l, s)
  BY <1>1, <1>2 DEF Ahead
<1>6. \A s \in Slots : Ahead(l, s) < Ahead(l, rdh) =>
                         data[HolderOf(l, s)] = Taken(l) + Ahead(l, s) + 1
  BY DEF Contents, HolderOf
<1>7. \A s \in Slots : Ahead(l, s)' < Ahead(l, rdh)' =>
                         data'[HolderOf(l, s)'] = Taken(l)' + Ahead(l, s)' + 1
  BY <1>1, <1>3, <1>4, <1>5, <1>6
<1>8. \A n \in DOMAIN rx_pkts'[l] : data'[rx_pkts'[l][n]] = Len(delivered') + n
  BY <1>1 DEF Contents
<1> QED
  BY <1>7, <1>8 DEF Contents, HolderOf

\* The received mbuf joins the burst with its packet.
LEMMA ContentsReset ==
  ASSUME NEW l \in Lcores, TypeOK, RingShape(l), Places(l), Contents(l), RxReset(l)
  PROVE  Contents(l)'
<1>t. rx_id[l] \in Slots /\ rdh \in Slots /\ Taken(l) \in Nat /\ Len(delivered) \in Nat
  BY LocalTypes
<1>1. /\ UNCHANGED <<data, delivered, sw_ring, rdh>> /\ pc[l] = "reset" /\ pc'[l] = "status"
  BY DEF RxReset, Goto, nic, queue, TypeOK
<1>2. /\ Taken(l)' = Taken(l) + 1 /\ Ahead(l, rx_id[l]) = 0 /\ Ahead(l, rdh) >= 1
      /\ Ahead(l, rdh)' = Ahead(l, rdh) - 1
      /\ Gap(rx_id'[l], rx_id[l]) = RxDesc - 1
      /\ \A s \in Slots : s # rx_id[l] => Ahead(l, s)' = Ahead(l, s) - 1
  BY RingReset
<1>3. \A s \in Slots : Ahead(l, s) \in Nat /\ Ahead(l, s) <= RxDesc - 1
  BY <1>t, GapType DEF Ahead
<1>4. PICK a \in Nat : a = Ahead(l, rdh)
  BY <1>3, <1>t
<1>5. PICK n \in Nat : n = Len(rx_pkts[l])
  BY BurstGrows
<1>6. /\ DOMAIN rx_pkts'[l] = 1..n + 1 /\ rx_pkts'[l][n + 1] = rxm[l]
      /\ \A k \in 1..n : rx_pkts'[l][k] = rx_pkts[l][k]
      /\ DOMAIN rx_pkts[l] = 1..n
  BY <1>5, BurstGrows, LocalTypes
<1>7. data[rxm[l]] = Len(delivered) + (n + 1)
  <2>1. Ahead(l, rx_id[l]) < Ahead(l, rdh)
    BY <1>2, <1>4
  <2>2. data[rxm[l]] = Taken(l) + Ahead(l, rx_id[l]) + 1
    BY <2>1, <1>1, <1>t DEF Contents
  <2>3. Taken(l) = Len(delivered) + n
    BY <1>5 DEF Taken
  <2> QED
    BY <2>2, <2>3, <1>2, <1>t
<1>8. ASSUME NEW k \in DOMAIN rx_pkts'[l]
      PROVE  data'[rx_pkts'[l][k]] = Len(delivered') + k
  <2>1. k \in 1..n \/ k = n + 1
    BY <1>6
  <2>2. CASE k \in 1..n
    BY <2>2, <1>1, <1>6 DEF Contents
  <2>3. CASE k = n + 1
    BY <2>3, <1>1, <1>6, <1>7
  <2> QED
    BY <2>1, <2>2, <2>3
<1>9. ASSUME NEW s \in Slots, Ahead(l, s)' < Ahead(l, rdh)'
      PROVE  data'[HolderOf(l, s)'] = Taken(l)' + Ahead(l, s)' + 1
  <2>1. s # rx_id[l]
    <3>1. SUFFICES ASSUME s = rx_id[l] PROVE FALSE
      OBVIOUS
    <3>2. Ahead(l, s)' = RxDesc - 1
      BY <3>1, <1>2 DEF Ahead
    <3>3. RxDesc - 1 < a - 1
      BY <3>2, <1>2, <1>4, <1>9
    <3>4. a <= RxDesc - 1
      BY <1>3, <1>4, <1>t
    <3> QED
      BY <3>3, <3>4, Sizes
  <2>2. Ahead(l, s)' = Ahead(l, s) - 1 /\ Ahead(l, s) \in Nat
    BY <2>1, <1>2, <1>3
  <2>3. Ahead(l, s) < Ahead(l, rdh)
    <3>1. Ahead(l, s) - 1 < a - 1
      BY <2>2, <1>2, <1>4, <1>9
    <3> QED
      BY <2>2, <3>1, <1>4
  <2>4. data[sw_ring[s]] = Taken(l) + Ahead(l, s) + 1
    BY <2>1, <2>3 DEF Contents
  <2>5. HolderOf(l, s)' = sw_ring[s]
    BY <1>1 DEF HolderOf
  <2>6. Taken(l) + Ahead(l, s) + 1 = (Taken(l) + 1) + (Ahead(l, s) - 1) + 1
    BY <2>2, <1>t
  <2> QED
    BY <2>2, <2>4, <2>5, <2>6, <1>1, <1>2
<1> QED
  BY <1>8, <1>9 DEF Contents, HolderOf

\* The head of the burst is delivered, and it is the next packet.
LEMMA ContentsProcess ==
  ASSUME NEW l \in Lcores, TypeOK, RingShape(l), Places(l), Contents(l), InOrder,
         Process(l)
  PROVE  Contents(l)' /\ InOrder'
<1>t. delivered \in Seq(0..MaxPackets) /\ Len(delivered) \in Nat
  BY LocalTypes DEF TypeOK
<1>1. UNCHANGED <<data, sw_ring, rdh, rx_id, pc, rxm>> /\ pc[l] = "loop"
  BY DEF Process, nic, queue
<1>2. Taken(l)' = Taken(l)
  BY RingProcess
<1>3. PICK n \in Nat : n = Len(rx_pkts[l])
  BY BurstShrinks
<1>4. PICK m \in Mbufs : m = rx_pkts[l][1]
  BY BurstShrinks
<1>5. /\ n >= 1 /\ DOMAIN rx_pkts'[l] = 1..n - 1 /\ DOMAIN rx_pkts[l] = 1..n
      /\ \A k \in 1..n - 1 : rx_pkts'[l][k] = rx_pkts[l][k + 1]
      /\ delivered' = Append(delivered, data[m])
  BY <1>3, <1>4, BurstShrinks, LocalTypes
<1>6. data[m] = Len(delivered) + 1
  <2>1. 1 \in DOMAIN rx_pkts[l]
    BY <1>5
  <2> QED
    BY <2>1, <1>4 DEF Contents
<1>7. data[m] \in 0..MaxPackets
  BY DEF TypeOK
<1>8. PICK d \in Nat : d = Len(delivered)
  BY <1>t
<1>9. /\ Len(delivered') = d + 1 /\ DOMAIN delivered' = 1..d + 1
      /\ \A k \in 1..d : delivered'[k] = delivered[k]
      /\ delivered'[d + 1] = d + 1 /\ DOMAIN delivered = 1..d
  BY <1>5, <1>6, <1>7, <1>8, <1>t
<1>10. InOrder'
  <2>1. ASSUME NEW k \in 1..d + 1 PROVE delivered'[k] = k
    <3>1. k \in 1..d \/ k = d + 1
      OBVIOUS
    <3> QED
      BY <3>1, <1>9 DEF InOrder
  <2> QED
    BY <2>1, <1>9 DEF InOrder
<1>11. ASSUME NEW k \in DOMAIN rx_pkts'[l]
       PROVE  data'[rx_pkts'[l][k]] = Len(delivered') + k
  <2>1. k \in 1..n - 1 /\ k + 1 \in DOMAIN rx_pkts[l] /\ k \in Nat
    BY <1>5
  <2>2. data[rx_pkts[l][k + 1]] = d + (k + 1)
    BY <2>1, <1>8 DEF Contents
  <2>3. data'[rx_pkts'[l][k]] = d + (k + 1)
    BY <2>1, <2>2, <1>1, <1>5
  <2> QED
    BY <2>1, <2>3, <1>9
<1>12. \A s \in Slots : Ahead(l, s) < Ahead(l, rdh) =>
                          data[HolderOf(l, s)] = Taken(l) + Ahead(l, s) + 1
  BY DEF Contents, HolderOf
<1>13. /\ Ahead(l, rdh)' = Ahead(l, rdh) /\ \A s \in Slots : Ahead(l, s)' = Ahead(l, s)
       /\ \A s \in Slots : HolderOf(l, s)' = HolderOf(l, s)
  BY <1>1 DEF Ahead, HolderOf
<1>14. \A s \in Slots : Ahead(l, s)' < Ahead(l, rdh)' =>
                          data'[HolderOf(l, s)'] = Taken(l)' + Ahead(l, s)' + 1
  BY <1>1, <1>2, <1>12, <1>13
<1> QED
  BY <1>10, <1>11, <1>14 DEF Contents, HolderOf

\* The NIC stores the next packet in the mbuf of its slot, which holds no other.
LEMMA ContentsNic ==
  ASSUME NEW l \in Lcores, TypeOK, RingShape(l), Places(l), Contents(l), NicStore
  PROVE  Contents(l)'
<1>t. /\ rx_id[l] \in Slots /\ rdh \in Slots /\ Taken(l) \in Nat /\ stored \in Nat
      /\ \A s \in Slots : sw_ring[s] \in Mbufs
      /\ \A n \in DOMAIN rx_pkts[l] : rx_pkts[l][n] \in Mbufs
  BY LocalTypes
<1>f. data \in [Mbufs -> 0..MaxPackets]
  BY DEF TypeOK
<1>1. /\ UNCHANGED <<delivered, rx_pkts, rx_id, pc, rxm, sw_ring>>
      /\ data' = [data EXCEPT ![buffer_addr[rdh]] = stored + 1]
  BY DEF NicStore, queue, locals
<1>2. Ahead(l, rdh)' = Ahead(l, rdh) + 1
  BY RingNic
<1>3. /\ stored = Taken(l) + Ahead(l, rdh)
      /\ \A s \in Slots : status[s] <=> Ahead(l, s) < Ahead(l, rdh)
  BY DEF RingShape
<1>4. \A s \in Slots : Ahead(l, s) \in Nat /\ Ahead(l, s)' = Ahead(l, s)
  BY <1>t, <1>1, GapType DEF Ahead
<1>5. PICK a \in Nat : a = Ahead(l, rdh)
  BY <1>t, <1>4
<1>6. SlotPlaces /\ BurstPlaces(l) /\ HandPlaces(l) /\ BufferPlaces(l)
  BY PlacesParts
<1>7. pc[l] \in {"rearm", "reset"} => rx_id[l] # rdh
  <2>1. SUFFICES ASSUME pc[l] \in {"rearm", "reset"}, rx_id[l] = rdh PROVE FALSE
    OBVIOUS
  <2>2. status[rdh]
    BY <2>1 DEF RingShape, Taking
  <2>3. Ahead(l, rdh) < Ahead(l, rdh)
    BY <2>2, <1>3, <1>t
  <2> QED
    BY <2>3, <1>5
<1>8. buffer_addr[rdh] = sw_ring[rdh]
  BY <1>6, <1>7, <1>t DEF BufferPlaces
<1>9. PICK m \in Mbufs : m = sw_ring[rdh]
  BY <1>t
<1>10. data'[m] = stored + 1 /\ \A x \in Mbufs : x # m => data'[x] = data[x]
  BY <1>1, <1>8, <1>9, <1>f
<1>11. ASSUME NEW n \in DOMAIN rx_pkts'[l]
       PROVE  data'[rx_pkts'[l][n]] = Len(delivered') + n
  <2>1. n \in DOMAIN rx_pkts[l] /\ rx_pkts'[l][n] = rx_pkts[l][n] /\ rx_pkts[l][n] # m
    BY <1>1, <1>6, <1>9, <1>t DEF BurstPlaces
  <2>2. data'[rx_pkts[l][n]] = data[rx_pkts[l][n]]
    BY <2>1, <1>10, <1>t
  <2>3. data[rx_pkts[l][n]] = Len(delivered) + n
    BY <2>1 DEF Contents
  <2> QED
    BY <2>1, <2>2, <2>3, <1>1
<1>12. ASSUME NEW s \in Slots, Ahead(l, s)' < Ahead(l, rdh)'
       PROVE  data'[HolderOf(l, s)'] = Taken(l)' + Ahead(l, s)' + 1
  <2>0. Ahead(l, s) < a + 1 /\ HolderOf(l, s)' = HolderOf(l, s) /\ Taken(l)' = Taken(l)
    BY <1>1, <1>2, <1>4, <1>5, <1>12 DEF HolderOf, Taken
  <2>1. CASE s = rdh
    <3>1. HolderOf(l, s) = m
      BY <2>1, <1>7, <1>9 DEF HolderOf
    <3>2. data'[m] = Taken(l) + a + 1
      BY <1>3, <1>5, <1>10
    <3> QED
      BY <2>0, <2>1, <3>1, <3>2, <1>4, <1>5
  <2>2. CASE s # rdh
    <3>1. Ahead(l, s) # a
      BY <2>2, <1>5, <1>t, GapInjective DEF Ahead
    <3>2. Ahead(l, s) \in Nat
      BY <1>4
    <3>3. Ahead(l, s) < Ahead(l, rdh)
      BY <2>0, <3>1, <3>2, <1>5
    <3>4. data[HolderOf(l, s)] = Taken(l) + Ahead(l, s) + 1
      BY <3>3 DEF Contents, HolderOf
    <3>5. HolderOf(l, s) \in Mbufs /\ HolderOf(l, s) # m
      <4>1. CASE s = rx_id[l] /\ pc[l] \in {"rearm", "reset"}
        <5>1. Loose(l, rxm[l]) /\ HolderOf(l, s) = rxm[l]
          BY <4>1, <1>6 DEF HandPlaces, HolderOf
        <5> QED
          BY <5>1, <1>9, <1>t DEF Loose
      <4>2. CASE ~ (s = rx_id[l] /\ pc[l] \in {"rearm", "reset"})
        <5>1. HolderOf(l, s) = sw_ring[s]
          BY <4>2 DEF HolderOf
        <5> QED
          BY <5>1, <2>2, <1>6, <1>9, <1>t DEF SlotPlaces
      <4> QED
        BY <4>1, <4>2
    <3>6. data'[HolderOf(l, s)] = data[HolderOf(l, s)]
      BY <3>5, <1>10
    <3> QED
      BY <2>0, <3>4, <3>6, <1>4
  <2> QED
    BY <2>1, <2>2
<1> QED
  BY <1>11, <1>12 DEF Contents, HolderOf

-----------------------------------------------------------------------------
(* One lcore *)

\* The invariant of the only lcore.
LoneInv(l) == TypeOK /\ InOrder /\ RingShape(l) /\ Places(l) /\ Contents(l)

LEMMA LoneInit ==
  ASSUME NEW l \in Lcores, Init
  PROVE  LoneInv(l)
<1>1. delivered = <<>>
  BY DEF Init
<1>2. InOrder
  BY <1>1 DEF InOrder
<1> QED
  BY <1>2, TypeInit, RingInit, PlacesInit, ContentsInit DEF LoneInv

\* Every statement of the lcore and every store of the NIC keeps it.
LEMMA LoneStep ==
  ASSUME NEW l \in Lcores, LoneInv(l), NicStore \/ Lcore(l)
  PROVE  LoneInv(l)'
<1> USE DEF LoneInv
<1>0. delivered' = delivered => InOrder'
  BY DEF InOrder
<1>1. CASE \/ RxCall(l) \/ RxStatus(l) \/ RxTake(l) \/ RxTail(l) \/ RxSum(l) \/ EndBurst(l)
  <2>1. delivered' = delivered
    BY <1>1 DEF RxCall, RxStatus, RxTake, RxTail, RxSum, EndBurst
  <2> QED
    BY <1>1, <2>1, <1>0, TypeEasy, RingStill, PlacesStill, ContentsStill
<1>2. CASE NicStore
  <2>1. delivered' = delivered
    BY <1>2 DEF NicStore
  <2> QED
    BY <1>2, <2>1, <1>0, TypeEasy, RingNic, PlacesStill, ContentsNic
<1>3. CASE RxAlloc(l)
  <2>1. delivered' = delivered
    BY <1>3 DEF RxAlloc
  <2> QED
    BY <1>3, <2>1, <1>0, TypeRest, RingStill, PlacesAlloc, ContentsStill
<1>4. CASE RxAttach(l) \/ RxRearm(l)
  <2>1. delivered' = delivered
    BY <1>4 DEF RxAttach, RxRearm
  <2> QED
    BY <1>4, <2>1, <1>0, TypeRest, RingStill, PlacesSwap, ContentsStill
<1>5. CASE RxReset(l)
  <2>1. delivered' = delivered
    BY <1>5 DEF RxReset
  <2> QED
    BY <1>5, <2>1, <1>0, TypeRest, RingReset, PlacesReset, ContentsReset
<1>6. CASE RxRdt(l)
  <2>1. delivered' = delivered
    BY <1>6 DEF RxRdt
  <2> QED
    BY <1>6, <2>1, <1>0, TypeRest, RingRdt, PlacesStill, ContentsStill
<1>7. CASE RxHold(l)
  <2>1. delivered' = delivered
    BY <1>7 DEF RxHold
  <2> QED
    BY <1>7, <2>1, <1>0, TypeRest, RingStill, PlacesStill, ContentsStill
<1>8. CASE Process(l)
  BY <1>8, TypeRest, RingProcess, PlacesProcess, ContentsProcess
<1> QED
  BY <1>1, <1>2, <1>3, <1>4, <1>5, <1>6, <1>7, <1>8 DEF Lcore

LEMMA LoneStutter ==
  ASSUME NEW l \in Lcores, LoneInv(l), UNCHANGED vars
  PROVE  LoneInv(l)'
<1>1. UNCHANGED <<data, pool, buffer_addr, status, rdh, rdt, sw_ring, rx_tail, nb_rx_hold,
                  pc, rx_id, nb_hold, nmb, rxm, rx_pkts, stored, delivered>>
  BY DEF vars, queue, locals
<1>2. TypeOK' /\ InOrder'
  BY <1>1 DEF LoneInv, TypeOK, InOrder
<1>3. RingShape(l)'
  BY <1>1 DEF LoneInv, RingShape, Taken, Ahead, HeldBack, Taking
<1>4. Places(l)'
  BY <1>1 DEF LoneInv, Places, Loose
<1>5. Contents(l)'
  BY <1>1 DEF LoneInv, Contents, Taken, Ahead
<1> QED
  BY <1>2, <1>3, <1>4, <1>5 DEF LoneInv

\* The slots the NIC may fill are safe to fill.
LEMMA LoneWritesSafely ==
  ASSUME NEW l \in Lcores, LoneInv(l), NEW s \in Slots, NicOwns(s)
  PROVE  /\ ~ status[s] /\ buffer_addr[s] = sw_ring[s]
         /\ pool[sw_ring[s]] = 0 /\ ~ InHand(l, sw_ring[s])
<1>0. TypeOK /\ RingShape(l) /\ Places(l)
  BY DEF LoneInv
<1>t. rx_id[l] \in Slots /\ rdh \in Slots /\ rdt \in Slots
  BY <1>0, LocalTypes
<1>1. \A t \in Slots : Ahead(l, t) \in Nat
  BY <1>t, GapType DEF Ahead
<1>2. Ahead(l, rdh) <= Ahead(l, s)
  <2>1. Gap(rx_id[l], rdh) <= Gap(rx_id[l], rdt)
    BY <1>0 DEF RingShape, Ahead
  <2> QED
    BY <2>1, <1>t, OwnsByGap DEF Ahead
<1>3. ~ status[s]
  <2>1. ~ (Ahead(l, s) < Ahead(l, rdh))
    BY <1>1, <1>2, <1>t
  <2> QED
    BY <2>1, <1>0 DEF RingShape
<1>4. Taking(l) => s # rx_id[l]
  BY <1>0, <1>3 DEF RingShape
<1>5. SlotPlaces /\ BurstPlaces(l) /\ HandPlaces(l) /\ BufferPlaces(l)
  BY <1>0, PlacesParts
<1>6. buffer_addr[s] = sw_ring[s] /\ pool[sw_ring[s]] = 0
  BY <1>4, <1>5 DEF BufferPlaces, SlotPlaces, Taking
<1>7. pc[l] \in {"attach", "rearm", "reset"} => rxm[l] # sw_ring[s]
  BY <1>4, <1>5, <1>t DEF HandPlaces, SlotPlaces, Loose, Taking
<1>8. pc[l] \in {"take", "attach"} => nmb[l] # sw_ring[s]
  BY <1>5 DEF HandPlaces, Loose
<1>9. \A n \in DOMAIN rx_pkts[l] : rx_pkts[l][n] # sw_ring[s]
  BY <1>5 DEF BurstPlaces
<1> QED
  BY <1>3, <1>6, <1>7, <1>8, <1>9 DEF InHand

\* What is in the pool is nowhere else.
LEMMA LonePoolIsFree ==
  ASSUME NEW l \in Lcores, LoneInv(l), NEW m \in Mbufs
  PROVE  /\ pool[m] <= 1
         /\ pool[m] = 1 => /\ \A s \in Slots : sw_ring[s] # m
                           /\ ~ InHand(l, m)
<1>0. TypeOK /\ Places(l)
  BY DEF LoneInv
<1>t. rx_id[l] \in Slots
  BY <1>0, LocalTypes
<1>1. SlotPlaces /\ BurstPlaces(l) /\ HandPlaces(l)
  BY <1>0, PlacesParts
<1>2. pool[m] <= 1
  BY <1>1 DEF SlotPlaces
<1>3. ASSUME pool[m] = 1
      PROVE  (\A s \in Slots : sw_ring[s] # m) /\ ~ InHand(l, m)
  <2>0. pool[m] # 0
    BY <1>3
  <2>1. \A s \in Slots : sw_ring[s] # m
    BY <2>0, <1>1 DEF SlotPlaces
  <2>2. pc[l] \in {"attach", "rearm", "reset"} => rxm[l] # m
    BY <2>0, <2>1, <1>1, <1>t DEF HandPlaces, Loose
  <2>3. pc[l] \in {"take", "attach"} => nmb[l] # m
    BY <2>0, <1>1 DEF HandPlaces, Loose
  <2>4. \A n \in DOMAIN rx_pkts[l] : rx_pkts[l][n] # m
    BY <2>0, <1>1 DEF BurstPlaces
  <2> QED
    BY <2>1, <2>2, <2>3, <2>4 DEF InHand
<1> QED
  BY <1>2, <1>3

-----------------------------------------------------------------------------
(* The theorems *)

\* With one lcore eth_em_recv_pkts keeps RecvInv at every one of its statements,
\* whatever the NIC does in between.
THEOREM RecvInvariant ==
  ASSUME NEW l, Lcores = {l}
  PROVE  Spec => []RecvInv
<1>1. l \in Lcores
  OBVIOUS
<1>2. Init => LoneInv(l)
  BY <1>1, LoneInit
<1>3. LoneInv(l) /\ [Next]_vars => LoneInv(l)'
  <2>1. Next => NicStore \/ Lcore(l)
    BY DEF Next
  <2> QED
    BY <1>1, <2>1, LoneStep, LoneStutter
<1>4. LoneInv(l) => RecvInv
  BY DEF LoneInv, RecvInv
<1> QED
  BY <1>2, <1>3, <1>4, PTL DEF Spec

\* With one lcore the NIC never writes into a buffer that software can read or
\* hand out.
THEOREM NicAlwaysWritesSafely ==
  ASSUME NEW l, Lcores = {l}
  PROVE  Spec => []NicWritesSafely
<1>1. l \in Lcores
  OBVIOUS
<1>2. RecvInv => LoneInv(l)
  BY <1>1 DEF LoneInv, RecvInv
<1>3. LoneInv(l) => NicWritesSafely
  BY <1>1, LoneWritesSafely DEF NicWritesSafely
<1> QED
  BY <1>2, <1>3, RecvInvariant, PTL

\* With one lcore no mbuf is freed twice, or allocated while it is in use.
THEOREM PoolIsAlwaysFree ==
  ASSUME NEW l, Lcores = {l}
  PROVE  Spec => []PoolIsFree
<1>1. l \in Lcores
  OBVIOUS
<1>2. RecvInv => LoneInv(l)
  BY <1>1 DEF LoneInv, RecvInv
<1>3. LoneInv(l) => PoolIsFree
  BY <1>1, LonePoolIsFree DEF PoolIsFree
<1> QED
  BY <1>2, <1>3, RecvInvariant, PTL

\* With one lcore packets are processed once each, completely and in the order in
\* which the NIC stored them.
THEOREM PacketsAlwaysInOrder ==
  ASSUME NEW l, Lcores = {l}
  PROVE  Spec => []InOrder
<1>1. RecvInv => InOrder
  BY DEF RecvInv
<1> QED
  BY <1>1, RecvInvariant, PTL

\* What two lcores on the queue lose: with one, no packet is processed twice and no
\* buffer that never held one.
THEOREM PacketsProcessedOnce ==
  ASSUME NEW l, Lcores = {l}
  PROVE  Spec => []ProcessedOnce
<1>1. RecvInv => ProcessedOnce
  <2> SUFFICES ASSUME RecvInv PROVE ProcessedOnce
    OBVIOUS
  <2>1. delivered \in Seq(0..MaxPackets) /\ InOrder
    BY DEF RecvInv, TypeOK
  <2>2. \A n \in DOMAIN delivered : n # 0 /\ delivered[n] = n
    BY <2>1 DEF InOrder
  <2> QED
    BY <2>2 DEF ProcessedOnce
<1> QED
  BY <1>1, RecvInvariant, PTL
=============================================================================
