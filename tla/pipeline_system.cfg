SPECIFICATION FairSpec
CONSTANTS
  Addr <- SystemAddr
  Reg <- ThreeRegs
  Data <- Bits
  Prog <- SystemProg
  Fall <- SystemFall
  Predicted <- SystemPredicted
  ResetPc = 0
  TrapVec = 7
  FetchFault = {}
  BadTarget = {}
  BadAddr = {}
  Uncached = {}
  DmemFaults = TRUE
  SbSize = 2
  Result <- SystemResult
  Taken <- MCTaken
  JumpTo <- HazardJump
INVARIANTS
  SyncBarrier
PROPERTIES
  ImplementsIsa
  Progress
