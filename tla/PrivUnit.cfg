CONSTANTS
  XLEN = 16
  CounterBits = 0
  MISA_VALUE = {8, 15}
  VENDOR_ID = {}
  ARCH_ID = {}
  IMPL_ID = {}
  HART_ID = {}
  Reg = {0}
  Pcs <- MC_Pcs
  Exceptions <- MC_Exceptions
  Requests <- MC_Requests
  IrqChoices <- MC_IrqChoices
SPECIFICATION Spec
INVARIANTS
  TypeOK
  NoNestedInterrupt
PROPERTIES
  MachineReturnRestores
  SupervisorReturnRestores
  PrivilegeMoves
