------------------------------- MODULE KniFifo ------------------------------
(***************************************************************************)
(* One KNI FIFO at the grain of its loads and stores.  The FIFO is shared  *)
(* memory between the DPDK process (lib/kni/rte_kni_fifo.h) and the kernel *)
(* module (kernel/linux/kni/kni_fifo.h); the two files hold the same       *)
(* algorithm.  One side only puts, the other only gets, without a lock:    *)
(* the indices are published with release stores and read with acquire     *)
(* loads, so every access below is one step and the steps of the two sides *)
(* interleave.                                                             *)
(*                                                                         *)
(* The producer may first ask kni_fifo_free_count how much room there is   *)
(* and the consumer kni_fifo_count how much there is to take.  Both answer *)
(* from a load that is stale by the time the put or the get runs: every    *)
(* caller relies on it all the same ("Failing should not happen").         *)
(***************************************************************************)
EXTENDS Integers, Sequences

CONSTANTS Elems,      \* addresses of mbufs
          FifoLen,    \* fifo->len, a power of two (kni_fifo_init panics otherwise)
          MaxBatch    \* the most elements of one put or get

ASSUME FifoLenAssumption == FifoLen \in Nat /\ FifoLen >= 1
ASSUME MaxBatchAssumption == MaxBatch \in Nat
ASSUME ElemsAssumption == Elems # {}

VARIABLES
  write, read, buffer,             \* struct rte_kni_fifo
  ppc, pdata, fifo_write, fifo_read, pi, room,
                                   \* locals of kni_fifo_put; room is the last
                                   \* kni_fifo_free_count since the last put
  cpc, cnum, new_read, seen_write, cdata, avail, got
                                   \* locals of kni_fifo_get; avail is the last
                                   \* kni_fifo_count since the last get

shared == <<write, read, buffer>>
producer == <<ppc, pdata, fifo_write, fifo_read, pi, room>>
consumer == <<cpc, cnum, new_read, seen_write, cdata, avail, got>>
vars == <<write, read, buffer, ppc, pdata, fifo_write, fifo_read, pi, room,
          cpc, cnum, new_read, seen_write, cdata, avail, got>>

Slots == 0..FifoLen - 1
Batches == UNION {[1..n -> Elems] : n \in 1..MaxBatch}

\* x & (fifo->len - 1): fifo->len is a power of two, the operands are unsigned.
Mask(x) == x % FifoLen

Init ==
  /\ write = 0
  /\ read = 0
  /\ buffer \in [Slots -> Elems]       \* whatever the memzone held
  /\ ppc = "idle" /\ pdata = <<>> /\ fifo_write = 0 /\ fifo_read = 0 /\ pi = 0
  /\ room = 0
  /\ cpc = "idle" /\ cnum = 0 /\ new_read = 0 /\ seen_write = 0 /\ cdata = <<>>
  /\ avail = 0 /\ got = <<>>

-----------------------------------------------------------------------------
(* The producer *)

\* Mutant: the slot that stays empty is counted as room.
FreeCountAll ==
  /\ ppc = "idle"
  /\ room' = Mask(read - write)
  /\ UNCHANGED <<shared, consumer, ppc, pdata, fifo_write, fifo_read, pi>>

\* kni_fifo_free_count
FreeCount ==
  /\ ppc = "idle"
  /\ room' = Mask(read - write - 1)
  /\ UNCHANGED <<shared, consumer, ppc, pdata, fifo_write, fifo_read, pi>>

\* kni_fifo_put: its arguments and the load of write, which only this side stores.
PutCall ==
  /\ ppc = "idle"
  /\ \E batch \in Batches : pdata' = batch
  /\ fifo_write' = write
  /\ pi' = 0
  /\ ppc' = "load"
  /\ UNCHANGED <<shared, consumer, fifo_read, room>>

PutLoadRead ==
  /\ ppc = "load"
  /\ fifo_read' = read
  /\ ppc' = "copy"
  /\ UNCHANGED <<shared, consumer, pdata, fifo_write, pi, room>>

\* Mutant: the full FIFO is not noticed.
PutSlotUnchecked ==
  /\ ppc = "copy"
  /\ pi < Len(pdata)
  /\ buffer' = [buffer EXCEPT ![fifo_write] = pdata[pi + 1]]
  /\ fifo_write' = Mask(fifo_write + 1)
  /\ pi' = pi + 1
  /\ UNCHANGED <<write, read, consumer, ppc, pdata, fifo_read, room>>

PutSlot ==
  /\ ppc = "copy"
  /\ pi < Len(pdata)
  /\ Mask(fifo_write + 1) # fifo_read
  /\ buffer' = [buffer EXCEPT ![fifo_write] = pdata[pi + 1]]
  /\ fifo_write' = Mask(fifo_write + 1)
  /\ pi' = pi + 1
  /\ UNCHANGED <<write, read, consumer, ppc, pdata, fifo_read, room>>

PutStoreWrite ==
  /\ ppc = "copy"
  /\ pi = Len(pdata) \/ Mask(fifo_write + 1) = fifo_read
  /\ write' = fifo_write
  /\ ppc' = "idle"
  /\ room' = 0
  /\ UNCHANGED <<read, buffer, consumer, pdata, fifo_write, fifo_read, pi>>

-----------------------------------------------------------------------------
(* The consumer *)

\* Mutant: one too many.
CountOneMore ==
  /\ cpc = "idle"
  /\ avail' = Mask(FifoLen + write - read + 1)
  /\ UNCHANGED <<shared, producer, cpc, cnum, new_read, seen_write, cdata, got>>

\* kni_fifo_count
Count ==
  /\ cpc = "idle"
  /\ avail' = Mask(FifoLen + write - read)
  /\ UNCHANGED <<shared, producer, cpc, cnum, new_read, seen_write, cdata, got>>

\* kni_fifo_get: its arguments and the load of read, which only this side stores.
GetCall ==
  /\ cpc = "idle"
  /\ cnum' \in 1..MaxBatch
  /\ new_read' = read
  /\ cdata' = <<>>
  /\ cpc' = "load"
  /\ UNCHANGED <<shared, producer, seen_write, avail, got>>

GetLoadWrite ==
  /\ cpc = "load"
  /\ seen_write' = write
  /\ cpc' = "copy"
  /\ UNCHANGED <<shared, producer, cnum, new_read, cdata, avail, got>>

GetSlot ==
  /\ cpc = "copy"
  /\ Len(cdata) < cnum
  /\ new_read # seen_write
  /\ cdata' = Append(cdata, buffer[new_read])
  /\ new_read' = Mask(new_read + 1)
  /\ UNCHANGED <<shared, producer, cpc, cnum, seen_write, avail, got>>

\* Mutant: everything seen is consumed, not everything taken.
GetStoreReadAll ==
  /\ cpc = "copy"
  /\ Len(cdata) = cnum \/ new_read = seen_write
  /\ read' = seen_write
  /\ got' = cdata
  /\ cpc' = "idle"
  /\ avail' = 0
  /\ UNCHANGED <<write, buffer, producer, cnum, new_read, seen_write, cdata>>

GetStoreRead ==
  /\ cpc = "copy"
  /\ Len(cdata) = cnum \/ new_read = seen_write
  /\ read' = new_read
  /\ got' = cdata
  /\ cpc' = "idle"
  /\ avail' = 0
  /\ UNCHANGED <<write, buffer, producer, cnum, new_read, seen_write, cdata>>

-----------------------------------------------------------------------------
Produce == FreeCount \/ PutCall \/ PutLoadRead \/ PutSlot \/ PutStoreWrite
Consume == Count \/ GetCall \/ GetLoadWrite \/ GetSlot \/ GetStoreRead

Next == Produce \/ Consume

Spec == Init /\ [][Next]_vars

-----------------------------------------------------------------------------
(* What is queued *)

\* The number of slots from index a up to index b.
Dist(a, b) == Mask(b - a)

\* The published elements, oldest first.
Contents == [k \in 1..Dist(read, write) |-> buffer[Mask(read + k - 1)]]

TypeOK ==
  /\ write \in Slots /\ read \in Slots /\ buffer \in [Slots -> Elems]
  /\ ppc \in {"idle", "load", "copy"} /\ cpc \in {"idle", "load", "copy"}
  /\ pdata \in Seq(Elems) /\ cdata \in Seq(Elems) /\ got \in Seq(Elems)
  /\ fifo_write \in Slots /\ fifo_read \in Slots
  /\ new_read \in Slots /\ seen_write \in Slots
  /\ pi \in 0..Len(pdata) /\ Len(pdata) <= MaxBatch
  /\ cnum \in 0..MaxBatch /\ Len(cdata) <= cnum
  /\ room \in Slots /\ avail \in Slots

\* The producer's picture.  Its copy of read may be old, but the consumer only
\* makes room: the slots it fills stay clear of every published element, and
\* what it has copied so far lies after the last of them.
ProducerView ==
  /\ room <= FifoLen - 1 - Dist(read, write)
  /\ ppc # "idle" => fifo_write = Mask(write + pi)
  /\ ppc = "load" => pi = 0
  /\ ppc = "copy" =>
       /\ Dist(read, write) <= Dist(fifo_read, write)
       /\ Dist(fifo_read, write) + pi <= FifoLen - 1
       /\ room <= FifoLen - 1 - Dist(fifo_read, write)
       /\ \A k \in 1..pi : buffer[Mask(write + k - 1)] = pdata[k]

\* The consumer's picture.  Its copy of write may be old, but the producer only
\* adds: what it copies are the oldest published elements, in order.
ConsumerView ==
  /\ avail <= Dist(read, write)
  /\ cpc # "idle" => new_read = Mask(read + Len(cdata))
  /\ cpc = "load" => cdata = <<>>
  /\ cpc = "copy" =>
       /\ Dist(read, seen_write) <= Dist(read, write)
       /\ Len(cdata) <= Dist(read, seen_write)
       /\ avail <= Dist(read, seen_write)
       /\ \A k \in 1..Len(cdata) : cdata[k] = buffer[Mask(read + k - 1)]

\* The strengthening that makes the properties below inductive.
FifoInv == TypeOK /\ ProducerView /\ ConsumerView

\* A put of no more elements than kni_fifo_free_count reported before it never
\* finds the FIFO full, however old that report is.  rte_kni_tx_burst,
\* kni_allocate_mbufs, kni_net_tx and kni_net_rx_normal all rely on it; the
\* last two comment the other outcome with "Failing should not happen".
PutAfterFreeCountFits ==
  ppc = "copy" /\ pi < Len(pdata) /\ Len(pdata) <= room
    => Mask(fifo_write + 1) # fifo_read

\* A get of no more elements than kni_fifo_count reported before it never finds
\* the FIFO empty: kni_net_tx dequeues from alloc_q on the strength of it.
GetAfterCountFinds ==
  cpc = "copy" /\ Len(cdata) < cnum /\ cnum <= avail
    => new_read # seen_write

\* The loads and stores of the two sides, in every order, are a bounded FIFO
\* queue: nothing put is lost, duplicated, reordered or overwritten before it is
\* taken, and a get returns the oldest elements.
Queue == INSTANCE KniQueue WITH q <- Contents, Capacity <- FifoLen - 1

ImplementsQueue == Queue!Spec
=============================================================================
