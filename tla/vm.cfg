SPECIFICATION FairSpec
CONSTANTS
  Bits = 3
  Touched = {1, 2, 6}
  WordSize = 4
  MemorySize = 12
  Bytes = {0, 130}
  Memories <- SomeMemories
  Length = 5
INVARIANTS
  AssertionsHold
  StringsExact
PROPERTIES
  ImplementsFlatMemory
  VmProgress
