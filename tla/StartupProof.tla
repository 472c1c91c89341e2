---------------------------- MODULE StartupProof ----------------------------
(***************************************************************************)
(* The start-up for every command line, every set of ports and every       *)
(* failure on the way: when the lcores are launched, what they use is      *)
(* there, and the list forwards exactly what the user's rules name.        *)
(***************************************************************************)
EXTENDS Startup, SequenceTheorems, TLAPS

\* A uint16_t is a natural number up to 65535.
LEMMA Word ==
  /\ UINT16_MAX \in Nat
  /\ \A x : x \in 0..UINT16_MAX <=> x \in Nat /\ x <= UINT16_MAX
<1>1. UINT16_MAX \in Nat
  BY DEF UINT16_MAX
<1> QED
  BY <1>1

\* The same with the number written out.
LEMMA UpTo ==
  ASSUME NEW n \in Nat
  PROVE  n <= UINT16_MAX <=> n <= 65535
BY DEF UINT16_MAX

\* ... for a word.
LEMMA InWord ==
  ASSUME NEW x \in 0..UINT16_MAX
  PROVE  x \in Nat /\ x <= 65535
<1>1. x \in Nat /\ x <= UINT16_MAX
  BY Word, SMT
<1> QED
  BY <1>1, UpTo, SMT

\* A 16-bit word and its two bytes.
LEMMA Bytes ==
  ASSUME NEW x \in Nat, x <= 65535
  PROVE  /\ x % 256 \in Nat /\ x % 256 <= 255
         /\ x \div 256 \in Nat /\ x \div 256 <= 255
         /\ x = 256 * (x \div 256) + (x % 256)
<1>1. x = 256 * (x \div 256) + (x % 256)
  BY SMT
<1>2. x % 256 \in Nat /\ x % 256 <= 255
  BY SMT
<1>3. x \div 256 \in Nat /\ x \div 256 <= 255
  BY SMT
<1> QED
  BY <1>1, <1>2, <1>3, SMT

\* Two words are equal exactly if their bytes are.
LEMMA BytesAgree ==
  ASSUME NEW h \in Nat, NEW l \in Nat, h <= 255, l <= 255,
         NEW a \in Nat, NEW b \in Nat, a <= 255, b <= 255
  PROVE  l * 256 + h = 256 * b + a <=> (a = h /\ b = l)
BY SMT

\* The byte swap stays within 16 bits ...
LEMMA SwapRange ==
  ASSUME NEW x \in 0..UINT16_MAX
  PROVE  htons(x) \in 0..UINT16_MAX
<1> DEFINE high == x \div 256
           low == x % 256
<1>1. x \in Nat /\ x <= 65535
  BY InWord
<1>2. high \in Nat /\ high <= 255 /\ low \in Nat /\ low <= 255
  BY <1>1, Bytes, SMT
<1>3. htons(x) = low * 256 + high
  BY SMT DEF htons
<1> HIDE DEF high, low
<1>4. htons(x) \in Nat /\ htons(x) <= 65535
  BY <1>2, <1>3, SMT
<1>5. htons(x) <= UINT16_MAX
  BY <1>4, UpTo, SMT
<1> QED
  BY <1>4, <1>5, Word, SMT

\* ... and undoes itself on the wire: a word equals the swapped port exactly if
\* its low byte is the port's high one and its high byte the port's low one.
LEMMA SwapHits ==
  ASSUME NEW x \in 0..UINT16_MAX, NEW word \in 0..UINT16_MAX
  PROVE  htons(x) = word <=> OnWire(word, x)
<1> DEFINE high == x \div 256
           low == x % 256
           whigh == word \div 256
           wlow == word % 256
<1>1. x \in Nat /\ x <= 65535 /\ word \in Nat /\ word <= 65535
  BY InWord
<1>2. high \in Nat /\ high <= 255 /\ low \in Nat /\ low <= 255
  BY <1>1, Bytes, SMT
<1>3. /\ whigh \in Nat /\ whigh <= 255 /\ wlow \in Nat /\ wlow <= 255
      /\ word = 256 * whigh + wlow
  BY <1>1, Bytes, SMT
<1>4. htons(x) = low * 256 + high
  BY SMT DEF htons
<1> HIDE DEF high, low, wlow, whigh
<1>5. htons(x) = word <=> wlow = high /\ whigh = low
  BY <1>2, <1>3, <1>4, BytesAgree, SMT
<1> QED
  BY <1>5, SMT DEF OnWire, high, low, wlow, whigh

\* What no step but those on the rules touches.
LEMMA RulesSame ==
  ASSUME Translated, Built,
         UNCHANGED <<filter_rules_args, filter_rules, next_rule, given, lost>>
  PROVE  Translated' /\ Built'
BY DEF Translated, Built

\* main() at its entry.
LEMMA InitHolds ==
  ASSUME Init
  PROVE  StartupInv
<1>1. TypeOK
  <2>1. filter_rules_args \in Seq(Keys) /\ filter_rules \in Seq(Keys)
        /\ Len(filter_rules_args) = 0
    BY DEF Init
  <2>2. /\ optind \in 0..MaxOptions /\ nb_ports \in 0..MaxPorts
        /\ port_id \in 0..UINT16_MAX /\ next_rule \in 0..Len(filter_rules_args)
        /\ Len(filter_rules_args) <= MaxRules
    BY <2>1, StartupAssumption, Word DEF Init
  <2>3. /\ kni_fd \in BOOLEAN /\ kni_name \in BOOLEAN /\ kni \in BOOLEAN
        /\ tun_fd \in BOOLEAN /\ raw_sock \in BOOLEAN
        /\ handlers \in BOOLEAN /\ force_quit \in BOOLEAN
    BY DEF Init
  <2>4. /\ step \in {"eal", "options", "port", "kni", "forward", "rules", "run", "ended"}
        /\ status \in {None, "0", "1", "panic", "killed"}
        /\ forward_ifname \in ForwardNames \cup {None} /\ started \subseteq 0..UINT16_MAX
    BY DEF Init
  <2> QED
    BY <2>1, <2>2, <2>3, <2>4 DEF TypeOK
<1>2. Acquired
  BY DEF Init, Acquired
<1>3. Translated /\ Built
  BY DEF Init, Translated, Built
<1> QED
  BY <1>1, <1>2, <1>3 DEF StartupInv

\* A stuttering step changes nothing.
LEMMA StutterKeeps ==
  ASSUME StartupInv, UNCHANGED vars
  PROVE  StartupInv'
BY RulesSame DEF vars, environment, options, opened, rules, signals, told, StartupInv,
   TypeOK, Acquired

\* The EAL finds ports.
LEMMA EalInitKeeps ==
  ASSUME StartupInv, EalInit
  PROVE  StartupInv'
<1>1. TypeOK'
  <2>1. /\ step' \in {"eal", "options", "port", "kni", "forward", "rules", "run", "ended"}
        /\ status' \in {None, "0", "1", "panic", "killed"}
        /\ nb_ports' \in 0..MaxPorts /\ kni_fd' \in BOOLEAN
    BY StartupAssumption DEF StartupInv, TypeOK, EalInit, Exit, Continue, environment
  <2>2. UNCHANGED <<optind, port_id, forward_ifname, kni_name, filter_rules_args, started,
                   kni, tun_fd, raw_sock, filter_rules, next_rule, handlers,
                   force_quit>>
    BY DEF EalInit, environment, options, opened, rules, signals
  <2> QED
    BY <2>1, <2>2 DEF StartupInv, TypeOK
<1>2. Acquired'
  BY StartupAssumption DEF StartupInv, TypeOK, Acquired, EalInit, Exit, Continue,
     environment, options, opened, rules
<1>3. Translated' /\ Built'
  BY RulesSame DEF StartupInv, EalInit, options, rules, told
<1> QED
  BY <1>1, <1>2, <1>3 DEF StartupInv

\* What is cast to uint16_t is one.
LEMMA CastIsWord ==
  ASSUME NEW n \in Int
  PROVE  n % (UINT16_MAX + 1) \in 0..UINT16_MAX
<1>1. UINT16_MAX + 1 = 65536
  BY SMT DEF UINT16_MAX
<1> DEFINE word == n % 65536
<1>2. word \in Nat /\ word <= 65535
  BY SMT
<1> HIDE DEF word
<1>3. word <= UINT16_MAX
  BY <1>2, UpTo, SMT
<1>4. word \in 0..UINT16_MAX
  BY <1>2, <1>3, Word, SMT
<1> QED
  BY <1>1, <1>4, SMT DEF word

\* An option that is not about rules leaves the rules alone.
LEMMA OptInterfaceKeeps ==
  ASSUME StartupInv, OptInterface
  PROVE  StartupInv'
<1>1. TypeOK'
  <2>1. port_id' \in 0..UINT16_MAX
    <3>1. PICK n \in PortArgs : port_id' = n % (UINT16_MAX + 1)
      BY DEF OptInterface
    <3>2. n \in Int
      BY StartupAssumption
    <3>3. n % (UINT16_MAX + 1) \in 0..UINT16_MAX
      BY <3>2, CastIsWord
    <3> QED
      BY <3>1, <3>3, Zenon
  <2> QED
    BY <2>1, StartupAssumption
       DEF StartupInv, TypeOK, OptInterface, AtOption, environment, opened, rules,
           signals
<1>2. Acquired'
  BY DEF Acquired, OptInterface, AtOption
<1>3. Translated' /\ Built'
  BY RulesSame DEF StartupInv, OptInterface, rules, told
<1> QED
  BY <1>1, <1>2, <1>3 DEF StartupInv

\* So does this one ...
LEMMA OptForwardKeeps ==
  ASSUME StartupInv, OptForward
  PROVE  StartupInv'
<1>1. TypeOK'
  BY StartupAssumption DEF StartupInv, TypeOK, OptForward, AtOption, environment,
     opened, rules, signals
<1>2. Acquired'
  BY StartupAssumption DEF StartupInv, TypeOK, Acquired, OptForward, AtOption,
     environment, opened, rules
<1>3. Translated' /\ Built'
  BY RulesSame DEF StartupInv, OptForward, rules, told
<1> QED
  BY <1>1, <1>2, <1>3 DEF StartupInv

\* ... and this one ...
LEMMA OptKniKeeps ==
  ASSUME StartupInv, OptKni
  PROVE  StartupInv'
<1>1. TypeOK'
  BY StartupAssumption DEF StartupInv, TypeOK, OptKni, AtOption, environment,
     opened, rules, signals
<1>2. Acquired'
  BY StartupAssumption DEF StartupInv, TypeOK, Acquired, OptKni, AtOption,
     environment, opened, rules
<1>3. Translated' /\ Built'
  BY RulesSame DEF StartupInv, OptKni, rules, told
<1> QED
  BY <1>1, <1>2, <1>3 DEF StartupInv

\* ... and this one ends the program.
LEMMA OptUsageKeeps ==
  ASSUME StartupInv, OptUsage
  PROVE  StartupInv'
<1>1. TypeOK'
  BY StartupAssumption DEF StartupInv, TypeOK, OptUsage, AtOption, Exit,
     environment, options, opened, rules, signals
<1>2. Acquired'
  BY StartupAssumption DEF StartupInv, TypeOK, Acquired, OptUsage, AtOption, Exit,
     environment, options, opened, rules
<1>3. Translated' /\ Built'
  BY RulesSame DEF StartupInv, OptUsage, options, rules, told
<1> QED
  BY <1>1, <1>2, <1>3 DEF StartupInv

\* A rule is translated into an entry of the array, or the program ends.
LEMMA OptRuleKeeps ==
  ASSUME StartupInv, OptRule
  PROVE  StartupInv'
<1>1. PICK rule_type \in {0, 1}, arg \in RuleArgs :
        \/ /\ RuleAccepted(arg)
           /\ filter_rules_args' = Append(filter_rules_args, RuleKey(rule_type, arg))
           /\ given' = Append(given, [opt |-> IF rule_type = 0 THEN "d" ELSE "s",
                                      ip |-> arg.ip, port |-> arg.port_val])
           /\ UNCHANGED <<step, status>>
        \/ /\ Exit("1")
           /\ UNCHANGED <<filter_rules_args, given>>
  BY DEF OptRule
<1>2. CASE Exit("1") /\ UNCHANGED <<filter_rules_args, given>>
  <2>1. TypeOK'
    BY <1>2, StartupAssumption
       DEF StartupInv, TypeOK, OptRule, AtOption, Exit, environment, opened, rules,
           signals
  <2>2. Acquired'
    BY <1>2 DEF Exit, Acquired
  <2>3. Translated' /\ Built'
    BY <1>2, RulesSame DEF StartupInv, OptRule, rules
  <2> QED
    BY <2>1, <2>2, <2>3 DEF StartupInv
<1>3. CASE /\ RuleAccepted(arg)
           /\ filter_rules_args' = Append(filter_rules_args, RuleKey(rule_type, arg))
           /\ given' = Append(given, [opt |-> IF rule_type = 0 THEN "d" ELSE "s",
                                      ip |-> arg.ip, port |-> arg.port_val])
           /\ UNCHANGED <<step, status>>
  <2>1. arg.port_val \in 1..UINT16_MAX /\ Len(filter_rules_args) < MaxRules
    <3>1. arg.port_val \in Int /\ arg.port_val > 0 /\ arg.port_val <= UINT16_MAX
      <4>1. arg.port_val \in Int /\ arg.port_val > 0 /\ arg.port_val <= 65535
        BY <1>3, StartupAssumption DEF RuleAccepted
      <4> QED
        BY <4>1, UpTo, SMT
    <3> QED
      BY <1>3, <3>1, Word, SMT DEF RuleAccepted
  <2>2. RuleKey(rule_type, arg) \in Keys
    <3>1. arg.port_val \in 0..UINT16_MAX
      BY <2>1, Word
    <3>2. htons(arg.port_val) \in 0..UINT16_MAX
      BY <3>1, SwapRange
    <3> QED
      BY <3>2 DEF RuleKey, Keys
  <2>3. filter_rules_args \in Seq(Keys) /\ filter_rules \in Seq(Keys)
        /\ next_rule \in 0..Len(filter_rules_args)
    BY DEF StartupInv, TypeOK
  <2>4. /\ filter_rules_args' \in Seq(Keys)
        /\ Len(filter_rules_args') = Len(filter_rules_args) + 1
        /\ filter_rules_args'[Len(filter_rules_args) + 1] = RuleKey(rule_type, arg)
        /\ \A k \in 1..Len(filter_rules_args) : filter_rules_args'[k] = filter_rules_args[k]
    BY <1>3, <2>2, <2>3
  <2>5. TypeOK'
    BY <1>3, <2>1, <2>3, <2>4, StartupAssumption
       DEF StartupInv, TypeOK, OptRule, AtOption, environment, opened, rules, signals
  <2>6. Acquired'
    BY <1>3 DEF Acquired, OptRule, AtOption
  <2>7. Translated'
    <3> DEFINE Given == [opt : {"d", "s"}, ip : {a.ip : a \in RuleArgs},
                       port : 1..UINT16_MAX]
               new == [opt |-> IF rule_type = 0 THEN "d" ELSE "s", ip |-> arg.ip,
                       port |-> arg.port_val]
    <3>1. new \in Given
      BY <2>1
    <3>2. given \in Seq(Given) /\ Len(given) = Len(filter_rules_args)
      BY DEF StartupInv, Translated
    <3> HIDE DEF Given, new
    <3>3. /\ given' \in Seq(Given) /\ Len(given') = Len(given) + 1
          /\ given'[Len(given) + 1] = new
          /\ \A k \in 1..Len(given) : given'[k] = given[k]
      BY <1>3, <3>1, <3>2 DEF new
    <3>4. RuleKey(rule_type, arg) = [rule_type |-> IF new.opt = "d" THEN 0 ELSE 1,
                                     ip |-> new.ip, port |-> htons(new.port)]
      BY DEF RuleKey, new
    <3>5. ASSUME NEW k \in 1..Len(given')
          PROVE  filter_rules_args'[k] = [rule_type |-> IF given'[k].opt = "d" THEN 0 ELSE 1,
                                          ip |-> given'[k].ip, port |-> htons(given'[k].port)]
      <4>1. CASE k = Len(given) + 1
        BY <4>1, <3>2, <3>3, <3>4, <2>4
      <4>2. CASE k \in 1..Len(given)
        <5>1. given'[k] = given[k] /\ filter_rules_args'[k] = filter_rules_args[k]
          BY <4>2, <3>2, <3>3, <2>4
        <5> QED
          BY <5>1, <4>2 DEF StartupInv, Translated
      <4> QED
        BY <4>1, <4>2, <3>2, <3>3
    <3> QED
      BY <3>2, <3>3, <3>5, <2>4 DEF Translated, Given
  <2>8. Built'
    <3>1. UNCHANGED <<filter_rules, next_rule, lost>>
      BY DEF OptRule, rules
    <3>2. \A k \in 1..next_rule : filter_rules_args'[k] = filter_rules_args[k]
      BY <2>3, <2>4
    <3> QED
      BY <3>1, <3>2 DEF StartupInv, Built
  <2> QED
    BY <2>5, <2>6, <2>7, <2>8 DEF StartupInv
<1> QED
  BY <1>1, <1>2, <1>3

\* The checks let a command line through only with what is required.
LEMMA CheckOptionsKeeps ==
  ASSUME StartupInv, CheckOptions
  PROVE  StartupInv'
<1>1. TypeOK'
  BY StartupAssumption DEF StartupInv, TypeOK, CheckOptions, Exit, Continue,
     environment, options, opened, rules, signals
<1>2. Acquired'
  BY StartupAssumption DEF StartupInv, TypeOK, Acquired, CheckOptions, Exit,
     Continue, environment, options, opened, rules
<1>3. Translated' /\ Built'
  BY RulesSame DEF StartupInv, CheckOptions, options, rules, told
<1> QED
  BY <1>1, <1>2, <1>3 DEF StartupInv

\* The port is started ...
LEMMA PortInitKeeps ==
  ASSUME StartupInv, PortInit
  PROVE  StartupInv'
<1>1. TypeOK'
  <2>1. /\ step' \in {"eal", "options", "port", "kni", "forward", "rules", "run", "ended"}
        /\ status' \in {None, "0", "1", "panic", "killed"}
        /\ started' \subseteq 0..UINT16_MAX
    BY StartupAssumption DEF StartupInv, TypeOK, PortInit, Exit, Continue
  <2>2. UNCHANGED <<optind, nb_ports, kni_fd, port_id, forward_ifname, kni_name,
                   filter_rules_args, kni, tun_fd, raw_sock, filter_rules,
                   next_rule, handlers, force_quit>>
    BY DEF PortInit, environment, options, opened, rules, signals
  <2> QED
    BY <2>1, <2>2 DEF StartupInv, TypeOK
<1>2. Acquired'
  BY StartupAssumption DEF StartupInv, TypeOK, Acquired, PortInit, Exit, Continue,
     environment, options, rules
<1>3. Translated' /\ Built'
  BY RulesSame DEF StartupInv, PortInit, options, rules, told
<1> QED
  BY <1>1, <1>2, <1>3 DEF StartupInv

\* ... the KNI interface is tried ...
LEMMA InitKniKeeps ==
  ASSUME StartupInv, InitKni
  PROVE  StartupInv'
<1>1. TypeOK'
  BY StartupAssumption DEF StartupInv, TypeOK, InitKni, Continue, environment,
     options, rules, signals
<1>2. Acquired'
  BY StartupAssumption DEF StartupInv, TypeOK, Acquired, InitKni, Continue,
     environment, options, rules
<1>3. Translated' /\ Built'
  BY RulesSame DEF StartupInv, InitKni, options, rules, told
<1> QED
  BY <1>1, <1>2, <1>3 DEF StartupInv

\* ... and the descriptor that belongs to the name is opened.
LEMMA OpenForwardKeeps ==
  ASSUME StartupInv, OpenForward
  PROVE  StartupInv'
<1>1. TypeOK'
  <2>1. /\ step' \in {"eal", "options", "port", "kni", "forward", "rules", "run", "ended"}
        /\ status' \in {None, "0", "1", "panic", "killed"}
        /\ tun_fd' \in BOOLEAN /\ raw_sock' \in BOOLEAN
    BY StartupAssumption DEF StartupInv, TypeOK, OpenForward, Exit, Continue
  <2>2. UNCHANGED <<optind, nb_ports, kni_fd, port_id, forward_ifname, kni_name,
                   filter_rules_args, started, kni, filter_rules, next_rule,
                   handlers, force_quit>>
    BY DEF OpenForward, environment, options, opened, rules, signals
  <2> QED
    BY <2>1, <2>2 DEF StartupInv, TypeOK
<1>2. Acquired'
  BY StartupAssumption DEF StartupInv, TypeOK, Acquired, OpenForward, Exit,
     Continue, environment, options, rules
<1>3. Translated' /\ Built'
  BY RulesSame DEF StartupInv, OpenForward, options, rules, told
<1> QED
  BY <1>1, <1>2, <1>3 DEF StartupInv

\* A rule is put at the head of the list or, without memory, is lost.
LEMMA AddRuleKeeps ==
  ASSUME StartupInv, AddRule
  PROVE  StartupInv'
<1>1. /\ filter_rules_args \in Seq(Keys) /\ filter_rules \in Seq(Keys)
      /\ next_rule \in Nat /\ next_rule + 1 \in 1..Len(filter_rules_args)
      /\ next_rule' = next_rule + 1
  BY DEF StartupInv, TypeOK, AddRule
<1>2. UNCHANGED <<filter_rules_args, given>>
  BY DEF AddRule, options
<1>3. Acquired'
  BY <1>1 DEF StartupInv, Acquired, AddRule, options, opened, environment
<1>4. Translated'
  BY <1>2 DEF StartupInv, Translated
<1> DEFINE key == filter_rules_args[next_rule + 1]
<1>5. key \in Keys
  BY <1>1
<1>6. add_filter_rule(filter_rules, key.rule_type, key.ip, key.port) = <<key>> \o filter_rules
  BY <1>5 DEF add_filter_rule, Keys
<1> HIDE DEF key
<1>7. /\ DOMAIN filter_rules = 1..Len(filter_rules)
      /\ \A m \in 1..Len(filter_rules) : \E k \in 1..next_rule \ lost :
           filter_rules[m] = filter_rules_args[k]
  <2>1. DOMAIN filter_rules = 1..Len(filter_rules)
    BY <1>1
  <2> QED
    BY <2>1, Zenon DEF StartupInv, Built
<1>8. CASE filter_rules' = <<key>> \o filter_rules /\ UNCHANGED lost
  <2>1. /\ filter_rules' \in Seq(Keys)
        /\ DOMAIN filter_rules' = 1..Len(filter_rules) + 1
        /\ filter_rules'[1] = key
        /\ \A i \in 1..Len(filter_rules) : filter_rules'[i + 1] = filter_rules[i]
    BY <1>1, <1>5, <1>8
  <2>2. TypeOK'
    BY <1>1, <1>2, <2>1, StartupAssumption
       DEF StartupInv, TypeOK, AddRule, environment, options, opened, signals
  <2>3. ASSUME NEW i \in DOMAIN filter_rules'
        PROVE  \E k \in 1..next_rule' \ lost' : filter_rules'[i] = filter_rules_args'[k]
    <3>1. CASE i = 1
      <4>1. next_rule + 1 \in 1..next_rule' \ lost'
        BY <1>1, <1>8 DEF StartupInv, Built
      <4> QED
        BY <3>1, <4>1, <2>1, <1>2 DEF key
    <3>2. CASE i # 1
      <4>1. i - 1 \in 1..Len(filter_rules) /\ filter_rules'[i] = filter_rules[i - 1]
        BY <3>2, <2>1, <1>1
      <4>2. PICK k \in 1..next_rule \ lost : filter_rules[i - 1] = filter_rules_args[k]
        BY <4>1, <1>7
      <4>3. k \in 1..next_rule' \ lost'
        BY <1>1, <1>8
      <4> QED
        BY <4>1, <4>2, <4>3, <1>2
    <3> QED
      BY <3>1, <3>2
  <2>4. ASSUME NEW k \in 1..next_rule' \ lost'
        PROVE  \E i \in DOMAIN filter_rules' : filter_rules'[i] = filter_rules_args'[k]
    <3>1. CASE k = next_rule + 1
      <4>1. 1 \in DOMAIN filter_rules'
        BY <2>1, <1>1
      <4> QED
        BY <3>1, <4>1, <2>1, <1>2 DEF key
    <3>2. CASE k # next_rule + 1
      <4>1. k \in 1..next_rule \ lost
        BY <3>2, <1>1, <1>8
      <4>2. PICK i \in DOMAIN filter_rules : filter_rules[i] = filter_rules_args[k]
        BY <4>1 DEF StartupInv, Built
      <4>3. i \in 1..Len(filter_rules) /\ Len(filter_rules) \in Nat
        BY <1>1, <1>7
      <4>4. i + 1 \in DOMAIN filter_rules' /\ filter_rules'[i + 1] = filter_rules[i]
        BY <2>1, <4>3
      <4> QED
        BY <4>2, <4>4, <1>2
    <3> QED
      BY <3>1, <3>2
  <2>5. lost' \subseteq 1..next_rule'
    BY <1>1, <1>8 DEF StartupInv, Built
  <2> QED
    BY <2>2, <2>3, <2>4, <2>5, <1>3, <1>4 DEF StartupInv, Built
<1>9. CASE UNCHANGED filter_rules /\ lost' = lost \cup {next_rule + 1}
  <2>1. TypeOK'
    BY <1>1, <1>2, <1>9, StartupAssumption
       DEF StartupInv, TypeOK, AddRule, environment, options, opened, signals
  <2>2. 1..next_rule' \ lost' = 1..next_rule \ lost /\ lost' \subseteq 1..next_rule'
    BY <1>1, <1>9 DEF StartupInv, Built
  <2>3. Built'
    BY <2>2, <1>2, <1>9 DEF StartupInv, Built
  <2> QED
    BY <2>1, <2>3, <1>3, <1>4 DEF StartupInv
<1> QED
  BY <1>6, <1>8, <1>9 DEF AddRule, key

\* The lcores are launched when all rules have been seen.
LEMMA LaunchKeeps ==
  ASSUME StartupInv, Launch
  PROVE  StartupInv'
<1>1. TypeOK'
  BY StartupAssumption DEF StartupInv, TypeOK, Launch, Continue, environment,
     options, opened, rules
<1>2. Acquired'
  BY StartupAssumption DEF StartupInv, TypeOK, Acquired, Launch, Continue,
     environment, options, opened, rules
<1>3. Translated' /\ Built'
  BY RulesSame DEF StartupInv, Launch, options, rules, told
<1> QED
  BY <1>1, <1>2, <1>3 DEF StartupInv

\* A signal kills the process or sets the flag.
LEMMA SignalKeeps ==
  ASSUME StartupInv, Signal
  PROVE  StartupInv'
<1>1. TypeOK'
  <2>1. /\ step' \in {"eal", "options", "port", "kni", "forward", "rules", "run", "ended"}
        /\ status' \in {None, "0", "1", "panic", "killed"}
        /\ force_quit' \in BOOLEAN
    BY StartupAssumption DEF StartupInv, TypeOK, Signal, Exit
  <2>2. UNCHANGED <<optind, nb_ports, kni_fd, port_id, forward_ifname, kni_name,
                   filter_rules_args, started, kni, tun_fd, raw_sock, filter_rules,
                   next_rule, handlers>>
    BY DEF Signal, environment, options, opened, rules, signals
  <2> QED
    BY <2>1, <2>2 DEF StartupInv, TypeOK
<1>2. Acquired'
  BY StartupAssumption DEF StartupInv, TypeOK, Acquired, Signal, Exit, environment,
     options, opened, rules
<1>3. Translated' /\ Built'
  BY RulesSame DEF StartupInv, Signal, options, rules, told
<1> QED
  BY <1>1, <1>2, <1>3 DEF StartupInv

\* The inductive invariant of the start-up, for every command line and failure.
THEOREM StartupInvariant == Spec => []StartupInv
<1>1. StartupInv /\ [Next]_vars => StartupInv'
  <2> SUFFICES ASSUME StartupInv, [Next]_vars
               PROVE  StartupInv'
    OBVIOUS
  <2> QED
    BY EalInitKeeps, OptInterfaceKeeps, OptForwardKeeps, OptKniKeeps, OptRuleKeeps,
       OptUsageKeeps, CheckOptionsKeeps, PortInitKeeps, InitKniKeeps, OpenForwardKeeps,
       AddRuleKeeps, LaunchKeeps, SignalKeeps, StutterKeeps DEF Next
<1> QED
  BY <1>1, InitHolds, PTL DEF Spec

\* When the lcores run, everything lcore_main uses without a check is there, and
\* rules are missing from its list only for want of memory.
THEOREM RunIsReady == Spec => []RunReady
<1>1. StartupInv => RunReady
  <2> SUFFICES ASSUME StartupInv, step = "run"
               PROVE  /\ port_id < nb_ports /\ port_id \in started
                      /\ forward_ifname # None
                      /\ IF forward_ifname \in TunNames THEN tun_fd ELSE raw_sock
                      /\ given # <<>>
                      /\ filter_rules = <<>> => lost = DOMAIN given
    BY DEF RunReady
  <2>1. given # <<>>
    <3>1. filter_rules_args # <<>> /\ filter_rules_args \in Seq(Keys)
      BY DEF StartupInv, Acquired, TypeOK
    <3>2. Len(filter_rules_args) # 0
      BY <3>1, EmptySeq
    <3>3. Len(given) # 0
      BY <3>2 DEF StartupInv, Translated
    <3> QED
      BY <3>3
  <2>2. ASSUME filter_rules = <<>>
        PROVE  lost = DOMAIN given
    <3>1. DOMAIN filter_rules = {}
      BY <2>2
    <3>2. lost = 1..next_rule
      BY <3>1 DEF StartupInv, Built
    <3>3. next_rule = Len(given)
      BY DEF StartupInv, Acquired, Translated
    <3> DEFINE Given == [opt : {"d", "s"}, ip : {a.ip : a \in RuleArgs},
                         port : 1..UINT16_MAX]
    <3>4. given \in Seq(Given)
      BY DEF StartupInv, Translated
    <3> HIDE DEF Given
    <3>5. DOMAIN given = 1..Len(given)
      BY <3>4
    <3> QED
      BY <3>2, <3>3, <3>5
  <2> QED
    BY <2>1, <2>2 DEF StartupInv, Acquired
<1> QED
  BY <1>1, StartupInvariant, PTL

\* An entry of the array hits exactly the packets that the rule it was made from
\* names.
LEMMA KeySelects ==
  ASSUME StartupInv, NEW k \in 1..Len(given), NEW pkt \in Packets
  PROVE  RuleHits(filter_rules_args[k], pkt) <=> Selects(given[k], pkt)
<1>1. /\ given[k].opt \in {"d", "s"} /\ given[k].port \in 0..UINT16_MAX
      /\ filter_rules_args[k] = [rule_type |-> IF given[k].opt = "d" THEN 0 ELSE 1,
                                 ip |-> given[k].ip, port |-> htons(given[k].port)]
  <2> DEFINE Given == [opt : {"d", "s"}, ip : {a.ip : a \in RuleArgs},
                       port : 1..UINT16_MAX]
  <2>1. given \in Seq(Given)
    BY DEF StartupInv, Translated
  <2> HIDE DEF Given
  <2>2. given[k] \in Given
    BY <2>1
  <2>3. given[k].opt \in {"d", "s"} /\ given[k].port \in 0..UINT16_MAX
    BY <2>2, Word DEF Given
  <2> QED
    BY <2>3 DEF StartupInv, Translated
<1>2. pkt.src_port \in 0..UINT16_MAX /\ pkt.dst_port \in 0..UINT16_MAX
  BY StartupAssumption
<1>3. CASE given[k].opt = "d"
  <2>1. htons(given[k].port) = pkt.dst_port <=> OnWire(pkt.dst_port, given[k].port)
    BY <1>1, <1>2, SwapHits
  <2> QED
    BY <1>1, <1>3, <2>1 DEF RuleHits, Selects
<1>4. CASE given[k].opt = "s"
  <2>1. htons(given[k].port) = pkt.src_port <=> OnWire(pkt.src_port, given[k].port)
    BY <1>1, <1>2, SwapHits
  <2> QED
    BY <1>1, <1>4, <2>1 DEF RuleHits, Selects
<1> QED
  BY <1>1, <1>3, <1>4

\* When the lcores run, the list forwards exactly the packets that the rules on the
\* command line name, but for the rules lost to a failed calloc.
THEOREM RulesAreEnforced == Spec => []RulesEnforced
<1>1. StartupInv => RulesEnforced
  <2> SUFFICES ASSUME StartupInv, step = "run", NEW pkt \in Packets
               PROVE  match_filter_rule(filter_rules, pkt)
                        <=> \E k \in DOMAIN given \ lost : Selects(given[k], pkt)
    BY DEF RulesEnforced
  <2>1. DOMAIN given = 1..Len(given) /\ next_rule = Len(given)
    <3>1. given \in Seq([opt : {"d", "s"}, ip : {a.ip : a \in RuleArgs},
                       port : 1..UINT16_MAX])
      BY DEF StartupInv, Translated
    <3>2. next_rule = Len(given)
      BY DEF StartupInv, Acquired, Translated
    <3> QED
      BY <3>1, <3>2
  <2>2. ASSUME NEW i \in DOMAIN filter_rules, RuleHits(filter_rules[i], pkt)
        PROVE  \E k \in DOMAIN given \ lost : Selects(given[k], pkt)
    <3>1. PICK k \in 1..next_rule \ lost : filter_rules[i] = filter_rules_args[k]
      BY DEF StartupInv, Built
    <3> QED
      BY <2>1, <2>2, <3>1, KeySelects
  <2>3. ASSUME NEW k \in DOMAIN given \ lost, Selects(given[k], pkt)
        PROVE  \E i \in DOMAIN filter_rules : RuleHits(filter_rules[i], pkt)
    <3>1. PICK i \in DOMAIN filter_rules : filter_rules[i] = filter_rules_args[k]
      BY <2>1 DEF StartupInv, Built
    <3> QED
      BY <2>1, <2>3, <3>1, KeySelects
  <2> QED
    BY <2>2, <2>3 DEF match_filter_rule
<1> QED
  BY <1>1, StartupInvariant, PTL
=============================================================================
