\* Three workers beside the main lcore, as with -l 0-3, bursts of up to two packets.
SPECIFICATION FairSpec
CHECK_DEADLOCK FALSE
CONSTANTS
  NumWorkers = 3
  Burst = 2
  MaxPackets = 2
INVARIANT
  LcoresInv
  CleanupAlone
  EveryWorkerRuns
  StatsBound
PROPERTY
  QuitExits
