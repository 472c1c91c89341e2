\* Packets from the wire: bursts of up to two, both verdicts, KNI FIFOs that fill
\* up and are worked on in batches of up to two.
SPECIFICATION FairSpec
CHECK_DEADLOCK FALSE
CONSTANTS
  NumMbufs = 8
  Packets <- TwoPackets
  KernelPacket <- Unselected
  FilterList <- MCFilterList
  Kni = TRUE
  Burst = 2
  RxDesc = 3
  RxFreeThresh = 1
  TxDesc = 2
  TxRsThresh = 1
  TxFreeThresh = 1
  FifoLen = 3
  KniBurst = 2
  StaleSlot = 1
  MaxArrivals = 3
  MaxKernelSends = 0
INVARIANTS
  LoopInv
  KernelPutsFit
  StatsAgree
PROPERTIES
  ImplementsFilter
  QuitReturns
  EveryPacketReceived
  
