---------------------------- MODULE PacketFilter ----------------------------
(***************************************************************************)
(* What the filter promises of every packet the NIC receives, whatever     *)
(* buffers, rings and threads carry it: it leaves at most once, through    *)
(* the forward interface when a rule selects it and towards the kernel     *)
(* when none does, and each way out keeps the order of arrival.  A packet  *)
(* may be lost (a full FIFO, a failed write, no KNI interface).            *)
(***************************************************************************)
EXTENDS FilterRules

CONSTANTS Packets,     \* the packets that may arrive
          FilterList   \* filter_rules

VARIABLES arrived,     \* the packets received, in order
          fwd_out,     \* positions in arrived of the packets forwarded
          kern_in      \* positions in arrived of the packets given to the kernel

vars == <<arrived, fwd_out, kern_in>>

Init ==
  /\ arrived = <<>>
  /\ fwd_out = <<>>
  /\ kern_in = <<>>

\* Packet n comes after everything that already left through out.
InOrder(out, n) == \A k \in DOMAIN out : out[k] < n

Arrive ==
  /\ \E p \in Packets : arrived' = Append(arrived, p)
  /\ UNCHANGED <<fwd_out, kern_in>>

Forward ==
  /\ \E n \in DOMAIN arrived :
       /\ should_forward(FilterList, arrived[n])
       /\ InOrder(fwd_out, n)
       /\ fwd_out' = Append(fwd_out, n)
  /\ UNCHANGED <<arrived, kern_in>>

Deliver ==
  /\ \E n \in DOMAIN arrived :
       /\ ~ should_forward(FilterList, arrived[n])
       /\ InOrder(kern_in, n)
       /\ kern_in' = Append(kern_in, n)
  /\ UNCHANGED <<arrived, fwd_out>>

Next == Arrive \/ Forward \/ Deliver

Spec == Init /\ [][Next]_vars
=============================================================================
