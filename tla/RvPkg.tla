------------------------------- MODULE RvPkg -------------------------------
(***************************************************************************)
(* Widths, encodings and addresses shared by every unit of the core        *)
(* (rtl/core/include/rv64_pkg.sv and csr_pkg.sv).                          *)
(*                                                                         *)
(* Data words live in two forms.  The data path carries them as numbers in *)
(* 0..2^XLEN-1.  The CSR unit, which only ever tests, sets, clears and     *)
(* copies bits, holds them as the SET of their 1-bits, so that  a | b  is  *)
(* a \cup b,  a & ~b  is  a \ b  and  a[i]  is  i \in a.  ToBits and       *)
(* ToWord convert at the boundary (WB stage and trap controller).          *)
(***************************************************************************)
EXTENDS Integers, FiniteSetsExt

CONSTANT
  XLEN         \* width of a register; 64 in the RTL

\* mstatus.MPP occupies bits 12:11, the cause of an interrupt the top bit.
ASSUME XlenAssumption == XLEN \in Nat /\ XLEN >= 16

-----------------------------------------------------------------------------
(* Words *)

Word   == 0 .. (2^XLEN - 1)
BitIdx == 0 .. (XLEN - 1)
Bits   == SUBSET BitIdx

ToBits(w) == {i \in BitIdx : (w \div 2^i) % 2 = 1}
ToWord(b) == MapThenSumSet(LAMBDA i : 2^i, b)

\* Faulty variant: the carry out of an addition is kept.
WrapKeepingCarry(n) == n % 2^(XLEN + 1)

Wrap(n) == n % 2^XLEN

-----------------------------------------------------------------------------
(* Privilege modes, with the 2-bit encodings of priv_mode_t *)

PRIV_U == 0
PRIV_S == 1
PRIV_M == 3
PrivMode == {PRIV_U, PRIV_S, PRIV_M}

-----------------------------------------------------------------------------
(* CSR operation codes: funct3 of the CSR instructions *)

CsrOp == 0 .. 7
IsWriteCmd(op) == op \in {1, 5}
IsSetCmd(op)   == op \in {2, 6}
IsClearCmd(op) == op \in {3, 7}
IsImmForm(op)  == op \in 4 .. 7        \* bit 2 of the op selects the zimm forms

-----------------------------------------------------------------------------
(* CSR addresses *)

CSR_FFLAGS     == \h001
CSR_FRM        == \h002
CSR_FCSR       == \h003
CSR_SSTATUS    == \h100
CSR_SIE        == \h104
CSR_STVEC      == \h105
CSR_SCOUNTEREN == \h106
CSR_SSCRATCH   == \h140
CSR_SEPC       == \h141
CSR_SCAUSE     == \h142
CSR_STVAL      == \h143
CSR_SIP        == \h144
CSR_SATP       == \h180
CSR_MSTATUS    == \h300
CSR_MISA       == \h301
CSR_MEDELEG    == \h302
CSR_MIDELEG    == \h303
CSR_MIE        == \h304
CSR_MTVEC      == \h305
CSR_MCOUNTEREN == \h306
CSR_MSCRATCH   == \h340
CSR_MEPC       == \h341
CSR_MCAUSE     == \h342
CSR_MTVAL      == \h343
CSR_MIP        == \h344
CSR_MCYCLE     == \hB00
CSR_MINSTRET   == \hB02
CSR_CYCLE      == \hC00
CSR_TIME       == \hC01
CSR_INSTRET    == \hC02
CSR_MVENDORID  == \hF11
CSR_MARCHID    == \hF12
CSR_MIMPID     == \hF13
CSR_MHARTID    == \hF14

CsrAddr == 0 .. \hFFF

-----------------------------------------------------------------------------
(* Cause codes (exceptions, then the three machine interrupts) *)

EXC_INST_ILLEGAL     == 2
EXC_BREAKPOINT       == 3
EXC_LOAD_FAULT       == 5
EXC_STORE_FAULT      == 7
EXC_ECALL_FROM_U     == 8
EXC_ECALL_FROM_S     == 9
EXC_ECALL_FROM_M     == 11
EXC_INSTR_PAGE_FAULT == 12
EXC_LOAD_PAGE_FAULT  == 13
EXC_STORE_PAGE_FAULT == 15

INTERRUPT_M_SOFTWARE == 3
INTERRUPT_M_TIMER    == 7
INTERRUPT_M_EXTERNAL == 11

IrqLine == {"external", "software", "timer"}
=============================================================================
