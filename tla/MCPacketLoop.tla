---------------------------- MODULE MCPacketLoop ----------------------------
(* Values for PacketLoop: a filter of one rule and packets around it.        *)
EXTENDS PacketLoop

\* -d 1:0x1234, so the list holds the port in network order.
MCFilterList == add_filter_rule(<<>>, 0, 1, htons(4660))

Tcp(dst_ip, dst_port) ==
  [ether |-> "ipv4", proto |-> "tcp", src_ip |-> 2, dst_ip |-> dst_ip,
   src_port |-> htons(80), dst_port |-> dst_port]

Selected == Tcp(1, htons(4660))
Unselected == Tcp(2, htons(4660))

\* One packet the rule selects and one it does not.
TwoPackets == {Selected, Unselected}

OnePacket == {Unselected}

\* Near misses of the rule: other protocols with the very same addresses and
\* ports, the right address with the port in host order.
ManyPackets ==
  {Selected, [Selected EXCEPT !.proto = "udp"], Tcp(1, 4660),
   [Selected EXCEPT !.ether = "arp"], [Selected EXCEPT !.proto = "icmp"]}
=============================================================================
