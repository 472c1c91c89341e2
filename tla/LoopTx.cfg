\* Packets from the kernel to the wire: enough of them to fill the TX ring, to
\* reuse its slots and to have one refused.
SPECIFICATION Spec
CHECK_DEADLOCK FALSE
CONSTANTS
  NumMbufs = 9
  Packets <- OnePacket
  KernelPacket <- Unselected
  FilterList <- MCFilterList
  Kni = TRUE
  Burst = 1
  RxDesc = 2
  RxFreeThresh = 0
  TxDesc = 2
  TxRsThresh = 1
  TxFreeThresh = 1
  FifoLen = 2
  KniBurst = 1
  StaleSlot = 1
  MaxArrivals = 2
  MaxKernelSends = 4
INVARIANTS
  Custody
  KernelTxStaysAlive
  RxNeverStarves
