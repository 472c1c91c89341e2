\* A FIFO of four slots, so three elements at most, with batches of up to two:
\* both indices wrap in the middle of a batch and puts meet a full FIFO.
SPECIFICATION Spec
CONSTANTS
  Elems = {e1, e2}
  FifoLen = 4
  MaxBatch = 2
INVARIANTS
  FifoInv
  PutAfterFreeCountFits
  GetAfterCountFinds
PROPERTY
  ImplementsQueue
