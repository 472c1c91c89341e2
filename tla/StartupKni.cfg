\* -k on the command lines the documentation shows: none of them has a net_kni
\* device.
SPECIFICATION Spec
CHECK_DEADLOCK FALSE
CONSTANTS
  PortArgs <- MCPortArgs
  ForwardNames <- MCForwardNames
  TunNames <- MCTunNames
  RuleArgs <- MCRuleArgs
  KniVdev = FALSE
  MaxRules = 2
  Packets <- MCPackets
  MaxOptions = 3
  MaxPorts = 2
INVARIANT
  KniAsRequested
