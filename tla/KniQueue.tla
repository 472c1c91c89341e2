------------------------------ MODULE KniQueue ------------------------------
(***************************************************************************)
(* What a KNI FIFO (struct rte_kni_fifo) promises to its one producer and  *)
(* its one consumer: a bounded first-in first-out queue.  A put appends a  *)
(* batch in one step, a get removes a prefix in one step and returns       *)
(* exactly what it removed, and no more than Capacity elements are ever    *)
(* queued.  KniFifo implements it; PacketLoop uses its FIFOs this way.     *)
(***************************************************************************)
EXTENDS Naturals, Sequences

CONSTANTS Elems,      \* what is queued: addresses of mbufs
          Capacity    \* the most elements the FIFO holds

VARIABLES q,          \* the queued elements, oldest first
          got         \* what the last get returned

vars == <<q, got>>

Batches == UNION {[1..n -> Elems] : n \in 0..Capacity}

Init ==
  /\ q = <<>>
  /\ got = <<>>

Put ==
  \E batch \in Batches :
    /\ Len(q) + Len(batch) <= Capacity
    /\ q' = q \o batch
    /\ UNCHANGED got

Get ==
  \E n \in 0..Len(q) :
    /\ got' = SubSeq(q, 1, n)
    /\ q' = SubSeq(q, n + 1, Len(q))

Next == Put \/ Get

Spec == Init /\ [][Next]_vars
=============================================================================
