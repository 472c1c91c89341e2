\* Two tasks, every set-up of process and kernel module, callbacks for
\* what main.c leaves NULL or, as in main.c, for the rest only, FIFOs of one entry.
SPECIFICATION FairSpec
CHECK_DEADLOCK FALSE
CONSTANTS
  Tasks = {t1, t2}
  Commands = {"CHANGE_MTU", "CFG_NETWORK_IF", "CHANGE_MAC_ADDR"}
  CallbackSets = {{"CHANGE_MTU", "CFG_NETWORK_IF"},
                  {"CHANGE_MAC_ADDR", "CHANGE_PROMISC", "CHANGE_ALLMULTI"}}
  FifoLen = 2
  Modes <- AllModes
  MaxRequests = 2
INVARIANT
  RequestInv
  GetFindsAnswer
  AnswerIsOwn
  DeviceAgrees
  BufferIsStable
PROPERTY
  RequestReturns
