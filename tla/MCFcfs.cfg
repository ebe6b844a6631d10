SPECIFICATION Spec
CONSTANTS
  None = None
  Procs = {1, 2, 3}
  memsize = 4
  Inputs <- AllFiles
  MIN_PRIORITY = 3
  Quantum <- Quanta_1_2_3
  MaxProcs = 3
  StartTimes = {0, 3}
  MemorySizes = {1, 2, 3}
  JobTimes = {0, 4, 7}
INVARIANTS
  RunsOneByOne
PROPERTY AllTerminate
