SPECIFICATION Spec
CONSTANTS
  Words = 3
  BtbDepth = 2
  RasTop = {0}
  Version = {0}
  FirstVersion = 0
  Code <- JumpToFault
  FaultWord = {1}
  FaultData = {FALSE, TRUE}
  AfterFence <- OneVersion
  AfterSfence <- OneVersion
  ResetPc = 0
  TrapVec = 0
  WbTarget <- ResumeNowhere
  IcacheDepth = 1
INVARIANTS
  FaultsReported
