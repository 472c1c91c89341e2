\* The loop without KNI, as every documented command line runs it, with
\* two mbufs more than the RX ring: packets of all kinds in bursts of up to two.
SPECIFICATION FairSpec
CHECK_DEADLOCK FALSE
CONSTANTS
  NumMbufs = 5
  Packets <- ManyPackets
  KernelPacket <- Unselected
  FilterList <- MCFilterList
  Kni = FALSE
  Burst = 2
  RxDesc = 3
  RxFreeThresh = 1
  TxDesc = 2
  TxRsThresh = 1
  TxFreeThresh = 1
  FifoLen = 2
  KniBurst = 1
  StaleSlot = 1
  MaxArrivals = 3
  MaxKernelSends = 0
PROPERTIES
  ImplementsFilter
  EveryPacketReceived
