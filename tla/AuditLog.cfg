CONSTANTS
  Writer = {w1, w2}
  Reader = {r1}
  Batch = 2
  MaxEvents = 4
  MaxDisconnects = 2
SPECIFICATION FairSpec
INVARIANTS ChainVerifies ReaderSeesPrefix
PROPERTIES Feed ReaderCatchesUp
