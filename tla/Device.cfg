\* Every way to load the kernel module, with and without a sending stack.
SPECIFICATION FairSpec
CHECK_DEADLOCK FALSE
CONSTANTS
  NumMbufs = 10
  FifoLen = 4
  Burst = 2
  Modes <- AllModes
  LoopNum = 2
  Retries = 2
INVARIANT
  DeviceInv
  NeverFails
  KernelLetsGo
  ReleaseReturns
PROPERTY
  ReleaseEnds
