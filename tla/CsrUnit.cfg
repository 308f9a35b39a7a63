CONSTANTS
  XLEN = 16
  CounterBits = 1
  MISA_VALUE = {8, 15}
  VENDOR_ID = {}
  ARCH_ID = {}
  IMPL_ID = {}
  HART_ID = {0}
  Ops <- MC_Ops
  Addrs <- MC_Addrs
  Masks <- MC_Masks
  Payloads <- MC_Payloads
SPECIFICATION Spec
INVARIANTS
  TypeOK
  StatusMirror
  ShortRegisters
  IllegalAccessWritesNothing
  WriteReadBack
