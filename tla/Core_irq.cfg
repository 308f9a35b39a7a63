CONSTANTS
  XLEN = 16
  CounterBits = 0
  MISA_VALUE = {8, 15}
  VENDOR_ID = {}
  ARCH_ID = {}
  IMPL_ID = {}
  HART_ID = {}
  Reg = {0, 1, 2}
  ResetPC = 512
  Programs <- MC_IrqPrograms
  DCells = {1, 2}
  IrqChoices <- TimerIrq
  MayReset = TRUE
SPECIFICATION Spec
INVARIANTS
  MemForwardIsResult
  PrivilegeStillHolds
