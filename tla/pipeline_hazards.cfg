SPECIFICATION FairSpec
CONSTANTS
  Addr <- HazardAddr
  Reg <- ThreeRegs
  Data <- Bits
  Prog <- HazardProg
  Fall <- HazardFall
  Predicted <- HazardPredicted
  ResetPc = 0
  TrapVec = 0
  FetchFault = {6}
  BadTarget = {}
  BadAddr = {}
  Uncached = {}
  DmemFaults = FALSE
  SbSize = 2
  Result <- MCResult
  Taken <- MCTaken
  JumpTo <- HazardJump
INVARIANTS
  TypeOK
  EpochOrder
  NoStaleOperand
  NextPcIsSuccessor
PROPERTIES
  FlushSquashes
  ImplementsIsa
  Progress
