------------------------------- MODULE WbStage -------------------------------
(***************************************************************************)
(* wb_stage.sv with its connections to the CSR unit and the trap           *)
(* controller.  'm' is the MEM/WB latch, 'c' the CSR file:                 *)
(*   m.pc, m.instr, m.alu, m.mdata, m.rs1, m.rs1_data, m.imm,              *)
(*   m.ctl (the control word), m.load_fault, m.store_fault, m.fault_addr   *)
(***************************************************************************)
EXTENDS TrapCtrl, MemStage

HasTrap(m) ==
  m.ctl.illegal \/ m.ctl.ecall \/ m.ctl.ebreak \/ m.load_fault \/ m.store_fault

\* The immediate forms take the rs1 field itself as the operand.
CsrRequest(m) ==
  [req  |-> m.ctl.is_csr /\ ~HasTrap(m),
   op   |-> m.ctl.csr_op,
   addr |-> m.imm % 4096,
   data |-> ToBits(IF IsImmForm(m.ctl.csr_op) THEN m.rs1 ELSE m.rs1_data)]

\* Faulty variant: the flag of the CSR unit does not reach the write port.
TrapBlockerDecoded(m) == HasTrap(m)

TrapBlocker(m) == HasTrap(m) \/ csr_illegal_access(CsrRequest(m))

\* wb_rd_wdata
WriteBackData(m, c) ==
  CASE m.ctl.is_csr -> ToWord(read_csr(c.reg, m.imm % 4096))
    [] ~m.ctl.is_csr /\ m.ctl.wb_sel = "alu" -> m.alu
    [] ~m.ctl.is_csr /\ m.ctl.wb_sel = "mem" -> m.mdata
    [] ~m.ctl.is_csr /\ m.ctl.wb_sel = "pc4" -> Wrap(m.pc + 4)

\* wb_reg_write_en: a trapping instruction does not write; an interrupt does
\* not stop the write.
WriteBackEnable(m) == m.ctl.reg_write_en /\ ~TrapBlocker(m)

\* The wires to trap_ctrl; page faults are stubbed to zero in the core.
WbWires(m) ==
  [pc |-> m.pc, bad_addr |-> m.fault_addr, bad_instr |-> m.instr,
   illegal |-> m.ctl.illegal \/ csr_illegal_access(CsrRequest(m)),
   ebreak |-> m.ctl.ebreak, ecall |-> m.ctl.ecall,
   load_fault |-> m.load_fault, store_fault |-> m.store_fault,
   instr_page_fault |-> FALSE, load_page_fault |-> FALSE, store_page_fault |-> FALSE,
   mret |-> m.ctl.mret, sret |-> m.ctl.sret]

-----------------------------------------------------------------------------
(* regfile.sv *)

ResetRegs == [r \in Reg |-> 0]

\* Read port without the bypass: x0 reads as zero.
RegRead(regs, a) == IF a = 0 THEN 0 ELSE regs[a]

\* Faulty variant: no bypass from the write port.
RegReadOld(regs, a, m, c) == RegRead(regs, a)

\* Read port: a register written on this edge is read as its new value.
RegReadBypass(regs, a, m, c) ==
  CASE a = 0 -> 0
    [] a # 0 /\ a = m.ctl.rd /\ WriteBackEnable(m) -> WriteBackData(m, c)
    [] OTHER -> regs[a]

\* Write port: x0 is never written.
RegWritten(regs, m, c) ==
  IF WriteBackEnable(m) /\ m.ctl.rd # 0
  THEN [regs EXCEPT ![m.ctl.rd] = WriteBackData(m, c)]
  ELSE regs

-----------------------------------------------------------------------------
\* The instruction in WB, retired: the architectural effect of one edge.
WbCommand(m, c, irq) == TrapCommand(WbWires(m), c, irq)
WbCsr(m, c, irq)     == CsrNext(c, CsrRequest(m), WbCommand(m, c, irq))
WbNextPc(m, c, irq)  == trap_next_pc(WbWires(m), c, irq)
=============================================================================
