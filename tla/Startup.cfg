\* Command lines of up to five options, with and without room for their rules.
SPECIFICATION Spec
CHECK_DEADLOCK FALSE
CONSTANTS
  PortArgs <- MCPortArgs
  ForwardNames <- MCForwardNames
  TunNames <- MCTunNames
  RuleArgs <- MCRuleArgs
  KniVdev = TRUE
  MaxRules = 2
  Packets <- MCPackets
  MaxOptions = 5
  MaxPorts = 2
INVARIANTS
  StartupInv
  RulesEnforced
  RunReady
