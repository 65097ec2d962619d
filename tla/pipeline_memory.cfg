SPECIFICATION Spec
CONSTANTS
  Addr <- MemoryAddr
  Reg <- ThreeRegs
  Data <- MemoryData
  Prog <- MemoryProg
  Fall <- MemoryFall
  Predicted <- MemoryPredicted
  ResetPc = 0
  TrapVec = 0
  FetchFault = {}
  BadTarget = {5}
  BadAddr = {2}
  Uncached = {3}
  DmemFaults = TRUE
  SbSize = 2
  Result <- MCResult
  Taken <- MCTaken
  JumpTo <- MemoryJump
INVARIANTS
  ResponsesPair
  StoreBufferMirrors
  WaitsAreBacked
PROPERTIES
  ImplementsIsa
