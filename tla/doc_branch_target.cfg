SPECIFICATION Spec
CONSTANTS
  Words = 3
  BtbDepth = 2
  RasTop = {0}
  Version = {0, 1}
  FirstVersion = 0
  Code <- TwoTargets
  FaultWord = {}
  FaultData = {FALSE}
  AfterFence <- NoSuccessor
  AfterSfence <- Remaps
  ResetPc = 0
  TrapVec = 0
  WbTarget <- ResumeAtStart
  IcacheDepth = 1
PROPERTIES
  TargetCompared
