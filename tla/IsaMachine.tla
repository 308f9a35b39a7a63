------------------------------ MODULE IsaMachine ------------------------------
(***************************************************************************)
(* What the pipeline promises: a hart that executes one instruction at a   *)
(* time, to completion, from a state of PC, registers, CSRs and memory.    *)
(* What an instruction does is a parameter; the core supplies IsaStep's.   *)
(***************************************************************************)
CONSTANTS
  ResetPC,                 \* 0x8000_0000 in the RTL
  ResetRegs, ResetCsr,     \* registers and CSRs after reset
  After(_, _, _, _, _)     \* (imem, pc, regs, csr, dmem) -> the state after

VARIABLES
  pc,          \* address of the next instruction
  regs,        \* integer registers
  csr,         \* CSR file
  dmem,        \* data memory, by cell
  imem         \* instruction memory; never written

vars == <<pc, regs, csr, dmem, imem>>

Init ==
  /\ pc = ResetPC
  /\ regs = ResetRegs
  /\ csr = ResetCsr

Step == <<pc, regs, csr, dmem>>' = After(imem, pc, regs, csr, dmem) /\ UNCHANGED imem

Spec == Init /\ [][Step]_vars
=============================================================================
