----------------------------- MODULE FilterRules ----------------------------
(***************************************************************************)
(* The filter of main.c: the rule list built by add_filter_rule and the    *)
(* decision that lcore_main takes on a packet.  A packet is a record of    *)
(* the header fields the decision reads:                                   *)
(*   ether            "ipv4" or another EtherType                          *)
(*   proto            "tcp", "udp" or another IP protocol                  *)
(*   src_ip, dst_ip   as they stand in the header                          *)
(*   src_port, dst_port  the 16-bit words of the header, in network order  *)
(*                    as a little-endian CPU loads them                    *)
(***************************************************************************)
EXTENDS Naturals, Sequences

\* The swap of the two bytes of a 16-bit word that htons does on the
\* little-endian CPUs the program is built for.
htons(x) == (x % 256) * 256 + x \div 256

\* filter_rules after one more rule: the new entry becomes the list's head.
add_filter_rule(rules, rule_type, ip, port) ==
  <<[rule_type |-> rule_type, ip |-> ip, port |-> port]>> \o rules

\* Rule type 0 is about the destination, every other value about the source.
RuleHits(rule, pkt) ==
  IF rule.rule_type = 0
  THEN rule.ip = pkt.dst_ip /\ rule.port = pkt.dst_port
  ELSE rule.ip = pkt.src_ip /\ rule.port = pkt.src_port

\* The walk along the list stops at the first rule that hits.
match_filter_rule(rules, pkt) == \E k \in DOMAIN rules : RuleHits(rules[k], pkt)

\* What lcore_main decides: only TCP and UDP over IPv4 reach the rules.
should_forward(rules, pkt) ==
  /\ pkt.ether = "ipv4"
  /\ pkt.proto \in {"tcp", "udp"}
  /\ match_filter_rule(rules, pkt)
=============================================================================
