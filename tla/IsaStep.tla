------------------------------- MODULE IsaStep -------------------------------
(***************************************************************************)
(* What one instruction does on its own, as a function of the state it     *)
(* starts from: PC, registers, CSRs and data memory.                       *)
(*                                                                         *)
(* It is built of the units the core instantiates (decoder, ALU, load and  *)
(* store lanes, write-back, trap controller, CSR unit) but has no latches, *)
(* no forwarding, no stalls and no flushes; an instruction that traps      *)
(* changes nothing but the trap CSRs, and nothing younger has begun.       *)
(***************************************************************************)
EXTENDS WbStage

\* Instruction i as it would stand in WB had it met no other.
Executed(i, pc, regs, csr, dmem) ==
  LET ctl == Decode(i, csr.priv)
      a   == RegRead(regs, Rs1Addr(i))
      b   == RegRead(regs, i.rs2)
      alu == AluResult(ctl, pc, a, b, DecodeImm(i))
  IN  [pc |-> pc, instr |-> i.word, ctl |-> ctl, alu |-> alu,
       mdata |-> MemRead(dmem, ctl, alu), rs1 |-> Rs1Addr(i), rs1_data |-> a,
       imm |-> DecodeImm(i),
       load_fault |-> LoadMisaligned(ctl, alu), store_fault |-> StoreMisaligned(ctl, alu),
       fault_addr |-> FaultAddr(ctl, alu)]

\* PC after the instruction m with second operand b: a trap or return wins
\* over a branch.
NextPc(m, b, csr) ==
  CASE trap_flush_req(WbCommand(m, csr, {})) -> WbNextPc(m, csr, {})
    [] ~trap_flush_req(WbCommand(m, csr, {})) /\ BranchTaken(m.ctl, m.rs1_data, b) ->
         BranchTarget(m.ctl, m.pc, m.rs1_data, b, m.imm)
    [] OTHER -> Wrap(m.pc + 4)

\* PC, registers, CSRs and memory after the instruction at pc.
After(imem, pc, regs, csr, dmem) ==
  LET i == Fetch(imem, pc)
      m == Executed(i, pc, regs, csr, dmem)
      b == RegRead(regs, i.rs2)
  IN  <<NextPc(m, b, csr), RegWritten(regs, m, csr), WbCsr(m, csr, {}),
        MemWritten(dmem, m.ctl, m.alu, b)>>
=============================================================================
