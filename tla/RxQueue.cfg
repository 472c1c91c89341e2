SPECIFICATION FairSpec
CONSTANTS
  Lcores = {1}
  NumMbufs = 6
  RxDesc = 4
  RxFreeThresh = 1
  Burst = 3
  MaxPackets = 7
INVARIANTS RecvInv NicWritesSafely PoolIsFree InOrder
PROPERTY AllProcessed
