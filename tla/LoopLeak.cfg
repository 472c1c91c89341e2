\* The same traffic, to see what becomes of the packet that the TX ring refuses.
SPECIFICATION Spec
CHECK_DEADLOCK FALSE
CONSTANTS
  NumMbufs = 9
  Packets <- OnePacket
  KernelPacket <- Unselected
  FilterList <- MCFilterList
  Kni = TRUE
  Burst = 1
  RxDesc = 2
  RxFreeThresh = 0
  TxDesc = 2
  TxRsThresh = 1
  TxFreeThresh = 1
  FifoLen = 2
  KniBurst = 1
  StaleSlot = 1
  MaxArrivals = 2
  MaxKernelSends = 4
INVARIANT
  DroppedPacketsFreed
