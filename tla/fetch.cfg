SPECIFICATION FairSpec
CONSTANTS
  Words = 4
  BtbDepth = 2
  RasTop = {0, 3}
  Version = {0, 1, 2}
  FirstVersion = 0
  Code <- TwoPrograms
  FaultWord = {3}
  FaultData = {FALSE}
  AfterFence <- FenceSwaps
  AfterSfence <- SfenceCopies
  ResetPc = 0
  TrapVec = 0
  WbTarget <- Resume
  IcacheDepth = 1
INVARIANTS
  FetchTypeOK
  SingleMatch
  PairedByOrder
  WholeInstruction
  FaultsReported
  CurrentCode
  OnProgramPath
PROPERTIES
  ImplementsPcStream
  FetchProgress
