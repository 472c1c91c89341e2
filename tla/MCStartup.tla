------------------------------ MODULE MCStartup -----------------------------
(* Values for Startup.                                                       *)
EXTENDS Startup

\* Ports that exist, one that does not, and one that the cast makes exist.
MCPortArgs == {0, 1, 2, 65536}

MCForwardNames == {"tun0", "ens35"}
MCTunNames == {"tun0"}

Arg(ok, ip, port_val) == [ok |-> ok, ip |-> ip, port_val |-> port_val]

\* Ports at the ends of the range and just beyond, and one whose bytes differ.
MCRuleArgs ==
  {Arg(FALSE, 1, 80), Arg(TRUE, 1, 0), Arg(TRUE, 1, 4660), Arg(TRUE, 2, 65535),
   Arg(TRUE, 1, 65536)}

\* Every packet between the hosts of the rules, with a matching port in either
\* byte order or another one.
Words == {htons(4660), 4660, 65535, 80}
MCPackets ==
  {[ether |-> "ipv4", proto |-> "udp", src_ip |-> s, dst_ip |-> d,
    src_port |-> sp, dst_port |-> dp] : s, d \in {1, 2}, sp, dp \in Words}
=============================================================================
