SPECIFICATION Spec
CONSTANTS
  Lcores = {1, 2}
  NumMbufs = 6
  RxDesc = 3
  RxFreeThresh = 1
  Burst = 2
  MaxPackets = 2
INVARIANT ProcessedOnce
CHECK_DEADLOCK FALSE
