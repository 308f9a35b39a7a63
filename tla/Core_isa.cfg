CONSTANTS
  XLEN = 16
  CounterBits = 1
  MISA_VALUE = {8, 15}
  VENDOR_ID = {}
  ARCH_ID = {}
  IMPL_ID = {}
  HART_ID = {}
  Reg = {0, 1, 2}
  ResetPC = 512
  Programs <- MC_IsaPrograms
  DCells = {1, 2}
  IrqChoices <- NoIrq
  MayReset = FALSE
SPECIFICATION DisciplinedSpec
INVARIANTS
  TypeOK
PROPERTIES
  PreciseExceptions
  ImplementsIsa
CHECK_DEADLOCK FALSE
