------------------------------- MODULE Startup ------------------------------
(***************************************************************************)
(* main() of main.c from its entry to the launch of lcore_main: the EAL,   *)
(* the options in the order they stand on the command line, the checks on  *)
(* them, and the resources acquired one after the other, each of which may *)
(* fail.  A signal may arrive at any moment; before main() has installed   *)
(* signal_handler it kills the process.                                    *)
(***************************************************************************)
EXTENDS Integers, FilterRules

\* The largest uint16_t: the type of port_id and of a rule's port.
UINT16_MAX == 65535

CONSTANTS
  PortArgs,      \* what atoi reads in the argument of -i
  ForwardNames,  \* arguments of -f ...
  TunNames,      \* ... and which of them start with "tun"
  RuleArgs,      \* arguments of -d and -s: [ok |-> a colon follows a valid IPv4
                 \* address, ip |-> address, port_val |-> what atoi reads]
  KniVdev,       \* a --vdev of the net_kni driver is among the EAL's options
  MaxRules,      \* MAX_FILTER_RULES
  Packets,       \* packets on which the rules are judged
  MaxOptions,    \* bound: options on the command line
  MaxPorts       \* bound: Ethernet ports the EAL finds

ASSUME StartupAssumption ==
  /\ PortArgs \subseteq Int
  /\ TunNames \subseteq ForwardNames
  /\ KniVdev \in BOOLEAN
  /\ MaxRules \in Nat /\ MaxOptions \in Nat /\ MaxPorts \in Nat
  /\ \A arg \in RuleArgs : arg.port_val \in Int
  /\ \A pkt \in Packets :
       pkt.src_port \in 0..UINT16_MAX /\ pkt.dst_port \in 0..UINT16_MAX

None == "none"

VARIABLES
  step,               \* where main() is
  status,             \* how the process ended
  optind,             \* options consumed
  nb_ports, kni_fd,   \* what the EAL found; kni_fd: rte_kni_init has been called
  port_id, forward_ifname, kni_name, filter_rules_args,
  started,            \* ports that port_init has started
  kni, tun_fd, raw_sock,        \* each TRUE when open
  filter_rules, next_rule,      \* the list, and how many arguments it has seen
  handlers, force_quit,
  given,              \* history: the rules as the user wrote them (opt: d or s)
  lost                \* history: rules for which calloc found no memory

environment == <<nb_ports, kni_fd>>
options == <<port_id, forward_ifname, kni_name, filter_rules_args>>
opened == <<started, kni, tun_fd, raw_sock>>
rules == <<filter_rules, next_rule>>
signals == <<handlers, force_quit>>
told == <<given, lost>>
vars == <<step, status, optind, environment, options, opened, rules, signals, told>>

Init ==
  /\ step = "eal" /\ status = None /\ optind = 0
  /\ nb_ports = 0 /\ kni_fd = FALSE
  /\ port_id = 0 /\ forward_ifname = None /\ kni_name = FALSE
  /\ filter_rules_args = <<>>
  /\ started = {} /\ kni = FALSE /\ tun_fd = FALSE /\ raw_sock = FALSE
  /\ filter_rules = <<>> /\ next_rule = 0
  /\ handlers = FALSE /\ force_quit = FALSE
  /\ given = <<>> /\ lost = {}

Exit(result) ==
  /\ step' = "ended"
  /\ status' = result

Continue(next) ==
  /\ step' = next
  /\ UNCHANGED status

-----------------------------------------------------------------------------
(* The EAL and the options *)

\* rte_eal_init panics or probes the devices.  Only the probe of a net_kni device
\* calls rte_kni_init, and that needs the kernel module.
EalInit ==
  /\ step = "eal"
  /\ \/ Exit("panic") /\ UNCHANGED environment
     \/ /\ Continue("options")
        /\ nb_ports' \in 0..MaxPorts
        /\ kni_fd' \in (IF KniVdev THEN BOOLEAN ELSE {FALSE})
  /\ UNCHANGED <<optind, options, opened, rules, signals, told>>

AtOption ==
  /\ step = "options"
  /\ optind < MaxOptions
  /\ optind' = optind + 1

\* -i: the argument is cast to uint16_t.
OptInterface ==
  /\ AtOption
  /\ \E n \in PortArgs : port_id' = n % (UINT16_MAX + 1)
  /\ UNCHANGED <<step, status, environment, forward_ifname, kni_name,
                 filter_rules_args, opened, rules, signals, told>>

OptForward ==
  /\ AtOption
  /\ forward_ifname' \in ForwardNames
  /\ UNCHANGED <<step, status, environment, port_id, kni_name,
                 filter_rules_args, opened, rules, signals, told>>

OptKni ==
  /\ AtOption
  /\ kni_name' = TRUE
  /\ UNCHANGED <<step, status, environment, port_id, forward_ifname,
                 filter_rules_args, opened, rules, signals, told>>

\* Mutant: one rule too many.
RuleAcceptedOneMore(arg) ==
  /\ Len(filter_rules_args) <= MaxRules
  /\ arg.ok
  /\ arg.port_val > 0 /\ arg.port_val <= 65535

\* The conditions under which -d and -s do not make main() return 1.
RuleAccepted(arg) ==
  /\ Len(filter_rules_args) < MaxRules
  /\ arg.ok
  /\ arg.port_val > 0 /\ arg.port_val <= 65535

\* Mutant: the port stays in host order.
RuleKeyHostOrder(rule_type, arg) ==
  [rule_type |-> rule_type, ip |-> arg.ip, port |-> arg.port_val]

\* The entry of filter_rules_args for an option: -d is rule type 0, -s is 1.
RuleKey(rule_type, arg) ==
  [rule_type |-> rule_type, ip |-> arg.ip, port |-> htons(arg.port_val)]

OptRule ==
  /\ AtOption
  /\ \E rule_type \in {0, 1}, arg \in RuleArgs :
       \/ /\ RuleAccepted(arg)
          /\ filter_rules_args' = Append(filter_rules_args, RuleKey(rule_type, arg))
          /\ given' = Append(given, [opt |-> IF rule_type = 0 THEN "d" ELSE "s",
                                     ip |-> arg.ip, port |-> arg.port_val])
          /\ UNCHANGED <<step, status>>
       \/ /\ ~ RuleAccepted(arg)
          /\ Exit("1")
          /\ UNCHANGED <<filter_rules_args, given>>
  /\ UNCHANGED <<environment, port_id, forward_ifname, kni_name, opened, rules,
                 signals, lost>>

\* -h returns 0, an unknown option 1.
OptUsage ==
  /\ AtOption
  /\ Exit("0") \/ Exit("1")
  /\ UNCHANGED <<environment, options, opened, rules, signals, told>>

-----------------------------------------------------------------------------
(* From the checks to the launch *)

\* getopt_long returns -1 and the options are checked.
CheckOptions ==
  /\ step = "options"
  /\ \/ /\ forward_ifname = None \/ filter_rules_args = <<>>
        /\ Exit("1")
     \/ /\ forward_ifname # None /\ filter_rules_args # <<>>
        /\ \/ nb_ports = 0 /\ Exit("panic")
           \/ nb_ports > 0 /\ port_id >= nb_ports /\ Exit("1")
           \/ nb_ports > 0 /\ port_id < nb_ports /\ Continue("port")
  /\ UNCHANGED <<optind, environment, options, opened, rules, signals, told>>

\* The mbuf pool and port_init: whatever fails ends in rte_panic.
PortInit ==
  /\ step = "port"
  /\ \/ Exit("panic") /\ UNCHANGED started
     \/ Continue("kni") /\ started' = started \cup {port_id}
  /\ UNCHANGED <<optind, environment, options, kni, tun_fd, raw_sock, rules,
                 signals, told>>

\* init_kni, if asked for: rte_kni_alloc returns NULL unless rte_kni_init has
\* been called, and may fail even then.  main() goes on without KNI.
InitKni ==
  /\ step = "kni"
  /\ Continue("forward")
  /\ kni' \in (IF kni_name /\ kni_fd THEN BOOLEAN ELSE {FALSE})
  /\ UNCHANGED <<optind, environment, options, started, tun_fd, raw_sock, rules,
                 signals, told>>

\* Mutant: the result of the open is not looked at.
OpenForwardUnchecked ==
  /\ step = "forward"
  /\ Continue("rules")
  /\ IF forward_ifname \in TunNames
     THEN tun_fd' \in BOOLEAN /\ UNCHANGED raw_sock
     ELSE raw_sock' \in BOOLEAN /\ UNCHANGED tun_fd
  /\ UNCHANGED <<optind, environment, options, started, kni, rules, signals, told>>

\* open_tun_device or create_raw_socket, by the name's first three letters.
\* Returning 1 here leaves the port started and the KNI interface in place.
OpenForward ==
  /\ step = "forward"
  /\ \/ Exit("1") /\ UNCHANGED <<tun_fd, raw_sock>>
     \/ /\ Continue("rules")
        /\ IF forward_ifname \in TunNames
           THEN tun_fd' = TRUE /\ UNCHANGED raw_sock
           ELSE raw_sock' = TRUE /\ UNCHANGED tun_fd
  /\ UNCHANGED <<optind, environment, options, started, kni, rules, signals, told>>

\* One call of add_filter_rule.  Its result is ignored: a rule for which there is
\* no memory is left out.
AddRule ==
  /\ step = "rules"
  /\ next_rule < Len(filter_rules_args)
  /\ next_rule' = next_rule + 1
  /\ \/ LET key == filter_rules_args[next_rule + 1]
        IN filter_rules' = add_filter_rule(filter_rules, key.rule_type, key.ip, key.port)
           /\ UNCHANGED lost
     \/ UNCHANGED filter_rules /\ lost' = lost \cup {next_rule + 1}
  /\ UNCHANGED <<step, status, optind, environment, options, opened, signals,
                 given>>

\* The handlers are installed and the lcores are launched.
Launch ==
  /\ step = "rules"
  /\ next_rule = Len(filter_rules_args)
  /\ handlers' = TRUE
  /\ Continue("run")
  /\ UNCHANGED <<optind, environment, options, opened, rules, force_quit, told>>

\* SIGINT or SIGTERM: its default action until the handlers are there.
Signal ==
  /\ step # "ended"
  /\ \/ handlers /\ force_quit' = TRUE /\ UNCHANGED <<step, status>>
     \/ ~ handlers /\ Exit("killed") /\ UNCHANGED force_quit
  /\ UNCHANGED <<optind, environment, options, opened, rules, handlers, told>>

Next ==
  \/ EalInit \/ OptInterface \/ OptForward \/ OptKni \/ OptRule \/ OptUsage
  \/ CheckOptions \/ PortInit \/ InitKni \/ OpenForward \/ AddRule \/ Launch
  \/ Signal

Spec == Init /\ [][Next]_vars

-----------------------------------------------------------------------------
(* Properties *)

Keys == [rule_type : 0..1, ip : {a.ip : a \in RuleArgs}, port : 0..UINT16_MAX]

TypeOK ==
  /\ step \in {"eal", "options", "port", "kni", "forward", "rules", "run", "ended"}
  /\ status \in {None, "0", "1", "panic", "killed"}
  /\ optind \in 0..MaxOptions /\ nb_ports \in 0..MaxPorts
  /\ port_id \in 0..UINT16_MAX /\ forward_ifname \in ForwardNames \cup {None}
  /\ kni_fd \in BOOLEAN /\ kni_name \in BOOLEAN /\ kni \in BOOLEAN
  /\ tun_fd \in BOOLEAN /\ raw_sock \in BOOLEAN
  /\ handlers \in BOOLEAN /\ force_quit \in BOOLEAN
  /\ filter_rules_args \in Seq(Keys) /\ Len(filter_rules_args) <= MaxRules
  /\ filter_rules \in Seq(Keys) /\ next_rule \in 0..Len(filter_rules_args)
  /\ started \subseteq 0..UINT16_MAX

\* A word of the header holds a port: its first byte is the port's high one, its
\* second the low one, and a little-endian CPU loads the first byte as the low one.
OnWire(word, port) == word % 256 = port \div 256 /\ word \div 256 = port % 256

\* Whether a packet is of the kind a rule names, read off the wire.
Selects(rule, pkt) ==
  IF rule.opt = "d"
  THEN pkt.dst_ip = rule.ip /\ OnWire(pkt.dst_port, rule.port)
  ELSE pkt.src_ip = rule.ip /\ OnWire(pkt.src_port, rule.port)

\* When the lcores run, the list in memory forwards exactly the packets that the
\* rules on the command line name, rules lost to a failed calloc apart: through
\* the byte-order conversion, the array of arguments and the reversed list.
RulesEnforced ==
  step = "run" =>
    \A pkt \in Packets :
      match_filter_rule(filter_rules, pkt)
        <=> \E k \in DOMAIN given \ lost : Selects(given[k], pkt)

\* When the lcores run, everything lcore_main uses without a check is there: the
\* port it polls exists and is started, the descriptor it writes to, chosen a
\* second time by the interface's name, is open, and a rule was given; the list it
\* walks is empty only if there was memory for none of them.
RunReady ==
  step = "run" =>
    /\ port_id < nb_ports /\ port_id \in started
    /\ forward_ifname # None
    /\ IF forward_ifname \in TunNames THEN tun_fd ELSE raw_sock
    /\ given # <<>>
    /\ filter_rules = <<>> => lost = DOMAIN given

\* What each step of main() has left behind for the later ones.
Acquired ==
  /\ step \in {"port", "kni", "forward", "rules", "run"} =>
       forward_ifname # None /\ filter_rules_args # <<>> /\ port_id < nb_ports
  /\ step \in {"kni", "forward", "rules", "run"} => port_id \in started
  /\ step \in {"rules", "run"} =>
       IF forward_ifname \in TunNames THEN tun_fd ELSE raw_sock
  /\ step = "run" => next_rule = Len(filter_rules_args)

\* The array of arguments has an entry for each rule the user gave ...
Translated ==
  /\ given \in Seq([opt : {"d", "s"}, ip : {a.ip : a \in RuleArgs}, port : 1..UINT16_MAX])
  /\ Len(given) = Len(filter_rules_args)
  /\ \A k \in 1..Len(given) :
       filter_rules_args[k] = [rule_type |-> IF given[k].opt = "d" THEN 0 ELSE 1,
                               ip |-> given[k].ip, port |-> htons(given[k].port)]

\* ... and the list has, in some order, those it has seen and found memory for.
Built ==
  /\ \A i \in DOMAIN filter_rules : \E k \in 1..next_rule \ lost :
       filter_rules[i] = filter_rules_args[k]
  /\ \A k \in 1..next_rule \ lost : \E i \in DOMAIN filter_rules :
       filter_rules[i] = filter_rules_args[k]
  /\ lost \subseteq 1..next_rule

\* The inductive invariant of the start-up.
StartupInv == TypeOK /\ Acquired /\ Translated /\ Built

\* With -k the KNI interface exists once the program runs: QUICK_START.md says it
\* is created automatically when the program starts.
KniAsRequested == step = "run" /\ kni_name => kni
=============================================================================
