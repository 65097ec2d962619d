SPECIFICATION FairSpec
CONSTANTS
  Addr <- StoreAddr
  Reg <- ThreeRegs
  Data <- Bits
  Prog <- StoreProg
  Fall <- StoreFall
  Predicted <- StorePredicted
  ResetPc = 0
  TrapVec = 0
  FetchFault = {}
  BadTarget = {}
  BadAddr = {}
  Uncached = {0}
  DmemFaults = TRUE
  SbSize = 1
  Result <- MCResult
  Taken <- MCTaken
  JumpTo <- StoreJump
PROPERTIES
  Progress
