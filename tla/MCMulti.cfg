SPECIFICATION Spec
CONSTANTS
  None = None
  Procs = {1, 2, 3, 4}
  memsize = 100
  Inputs <- MultiInputs
  MIN_PRIORITY = 3
  Quantum <- Quanta_2_4_8
  MaxProcs = 3
  StartTimes = {0, 3}
  MemorySizes = {25, 50, 75}
  JobTimes = {0, 2, 15}
INVARIANTS
  ProcessLifecycle
  DemotionAccountsForCpuTime
  StatusLinesConsistent
  SpecOutputReproduced
PROPERTIES
  AllTerminate
  ActsLikeFcfs
