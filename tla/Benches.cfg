SPECIFICATION BenchSpec
INVARIANT ChecksHold
CHECK_DEADLOCK FALSE
CONSTANTS
  XLEN = 30
  CounterBits = 16
  MISA_VALUE = {0, 8, 18, 20}
  VENDOR_ID = {}
  ARCH_ID = {}
  IMPL_ID = {}
  HART_ID = {}
  ENTRIES = 32
  PtrSize = 32
  Reg <- BenchReg
  ResetPC = 536870912
  Programs = {}
  DCells <- BenchCells
  IrqChoices = {}
  MayReset = TRUE
