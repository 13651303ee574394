\* Two goroutines, two identifiers, one foreign response key; no symmetry.
SPECIFICATION FairSpec
CONSTANTS
  c1 = c1
  c2 = c2
  f1 = f1
  Caller = {c1, c2}
  MaxCalls = 2
  Foreign = {f1}
INVARIANTS
  TypeOK
  ReaderNeverBlocks
  NoLostResponse
  PendingIsLive
PROPERTIES
  ContractSpec
  AnsweredOrCancelledReturns
