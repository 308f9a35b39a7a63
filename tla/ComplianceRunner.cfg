CONSTANTS
  MemSize = 40
  Invocations <- MC_Invocations
  Numbers <- MC_Numbers
  DefaultCycles = 2
  Elfs <- MC_Elfs
  Stores <- MC_Stores
  References <- MC_References
SPECIFICATION Spec
INVARIANTS
  ExitIsVerdict
  SignatureIsMemory
  StaleNeverPasses
PROPERTIES
  RunnerExits
CHECK_DEADLOCK FALSE
