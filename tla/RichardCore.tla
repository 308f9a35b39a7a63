------------------------------ MODULE RichardCore ------------------------------
(***************************************************************************)
(* richard_core.sv: the five-stage pipeline.  One step is one rising clock *)
(* edge; every always_ff block of the core is one conjunct of Clock.       *)
(*                                                                         *)
(* The memories are those of the test benches: instruction and data reads  *)
(* answer in the same cycle (the core ties dmem_req_ready and              *)
(* dmem_rsp_valid to 1), a store is written in the cycle it is in MEM.     *)
(*                                                                         *)
(* Two fields are history, read by the properties only: v, TRUE while the  *)
(* instruction in a latch has not been discarded by a flush, and           *)
(* mem_wb.before, the data memory before the instruction in WB passed MEM. *)
(***************************************************************************)
EXTENDS IsaStep, HazardUnit

CONSTANTS
  ResetPC,       \* 0x8000_0000 in the RTL
  Programs,      \* instruction memories to start from: address -> instruction
  DCells,        \* cells of the data memory
  IrqChoices,    \* sets of interrupt pins the platform may drive high
  MayReset       \* whether rst may be raised again later on

ASSUME CoreAssumption ==
  /\ ResetPC \in Word
  /\ MayReset \in BOOLEAN
  /\ IrqChoices \subseteq SUBSET IrqLine
  /\ DCells \subseteq Nat
  /\ \A p \in Programs : \A a \in DOMAIN p : p[a] \in Instruction

VARIABLES
  pc,            \* pc_reg
  if_id, id_ex, ex_mem, mem_wb,      \* the pipeline latches
  regs,          \* register file
  csr,           \* CSR file
  dmem, imem     \* memories (external)

vars == <<pc, if_id, id_ex, ex_mem, mem_wb, regs, csr, dmem, imem>>

-----------------------------------------------------------------------------
(* Combinational signals *)

\* WB: the write port and the trap command.
WbEnable    == WriteBackEnable(mem_wb)
WbData      == WriteBackData(mem_wb, csr)

\* EX: the operands after the forwarding muxes. MEM forwards its ALU result.
ForwardSelOf(rs) ==
  ForwardSel(rs, ex_mem.ctl.reg_write_en, ex_mem.ctl.rd, WbEnable, mem_wb.ctl.rd)

Forwarded(rs, data) ==
  CASE ForwardSelOf(rs) = "mem" -> ex_mem.alu
    [] ForwardSelOf(rs) = "wb"  -> WbData
    [] OTHER                    -> data

ExRs1 == Forwarded(id_ex.rs1, id_ex.rs1_data)
ExRs2 == Forwarded(id_ex.rs2, id_ex.rs2_data)

ExBranchTaken == BranchTaken(id_ex.ctl, ExRs1, ExRs2)

LoadUse ==
  LoadUseStall(id_ex.ctl.is_load, id_ex.ctl.rd, Rs1Addr(if_id.instr), if_id.instr.rs2)

\* mem_stall_req is constantly 0: the memory ports are tied off.
Control(flush) == HazardControl(flush, FALSE, LoadUse, ExBranchTaken)

-----------------------------------------------------------------------------
(* The latches after the edge *)

\* if_id_reg.sv
IfIdBubble == [pc |-> 0, instr |-> NOP, v |-> FALSE]

IfIdNext(h) ==
  CASE h.if_id_flush -> IfIdBubble
    [] ~h.if_id_flush /\ ~h.if_id_stall ->
         [pc |-> pc, instr |-> Fetch(imem, pc), v |-> TRUE]
    [] OTHER -> if_id

\* id_ex_reg.sv: a flush clears instruction and control, and keeps the data.
IdExNext(h) ==
  LET i == if_id.instr
  IN  CASE h.id_ex_flush ->
             [pc |-> id_ex.pc, instr |-> 0, rs1 |-> id_ex.rs1, rs2 |-> id_ex.rs2,
              rs1_data |-> id_ex.rs1_data, rs2_data |-> id_ex.rs2_data,
              imm |-> id_ex.imm, ctl |-> IdleCtl, v |-> FALSE]
        [] ~h.id_ex_flush /\ ~h.id_ex_stall ->
             [pc |-> if_id.pc, instr |-> i.word, rs1 |-> Rs1Addr(i), rs2 |-> i.rs2,
              rs1_data |-> RegReadBypass(regs, Rs1Addr(i), mem_wb, csr),
              rs2_data |-> RegReadBypass(regs, i.rs2, mem_wb, csr),
              imm |-> DecodeImm(i), ctl |-> Decode(i, csr.priv), v |-> if_id.v]
        [] OTHER -> id_ex

\* ex_mem_reg.sv: flush_en is tied to 0, so what is in EX always moves on;
\* v records that a flush meant to discard it.
ExMemNext(h, flush) ==
  IF h.ex_mem_stall THEN ex_mem
  ELSE [pc |-> id_ex.pc, instr |-> id_ex.instr,
        alu |-> AluResult(id_ex.ctl, id_ex.pc, ExRs1, ExRs2, id_ex.imm),
        rs1 |-> id_ex.rs1, rs1_data |-> ExRs1, rs2_data |-> ExRs2,
        imm |-> id_ex.imm, ctl |-> id_ex.ctl, v |-> id_ex.v /\ ~flush]

\* mem_wb_reg.sv: a flush clears the enables and keeps the rest.
MemWbFlushed ==
  [pc |-> mem_wb.pc, instr |-> mem_wb.instr, alu |-> mem_wb.alu,
   mdata |-> mem_wb.mdata, rs1 |-> mem_wb.rs1, rs1_data |-> mem_wb.rs1_data,
   imm |-> mem_wb.imm,
   ctl |-> [IdleCtl EXCEPT !.rd = mem_wb.ctl.rd, !.wb_sel = mem_wb.ctl.wb_sel,
                           !.csr_op = mem_wb.ctl.csr_op],
   load_fault |-> FALSE, store_fault |-> FALSE, fault_addr |-> 0,
   v |-> FALSE, before |-> dmem]

MemWbNext(flush) ==
  IF flush THEN MemWbFlushed
  ELSE [pc |-> ex_mem.pc, instr |-> ex_mem.instr, alu |-> ex_mem.alu,
        mdata |-> MemRead(dmem, ex_mem.ctl, ex_mem.alu),
        rs1 |-> ex_mem.rs1, rs1_data |-> ex_mem.rs1_data, imm |-> ex_mem.imm,
        ctl |-> ex_mem.ctl,
        load_fault  |-> LoadMisaligned(ex_mem.ctl, ex_mem.alu),
        store_fault |-> StoreMisaligned(ex_mem.ctl, ex_mem.alu),
        fault_addr  |-> FaultAddr(ex_mem.ctl, ex_mem.alu),
        v |-> ex_mem.v, before |-> dmem]

-----------------------------------------------------------------------------
(* Reset and clock *)

IdExReset == [pc |-> 0, instr |-> 0, rs1 |-> 0, rs2 |-> 0, rs1_data |-> 0,
              rs2_data |-> 0, imm |-> 0, ctl |-> IdleCtl, v |-> FALSE]
ExMemReset == [pc |-> 0, instr |-> 0, alu |-> 0, rs1 |-> 0, rs1_data |-> 0,
               rs2_data |-> 0, imm |-> 0, ctl |-> IdleCtl, v |-> FALSE]
MemWbReset(mem) ==
  [pc |-> 0, instr |-> 0, alu |-> 0, mdata |-> 0, rs1 |-> 0, rs1_data |-> 0,
   imm |-> 0, ctl |-> IdleCtl, load_fault |-> FALSE, store_fault |-> FALSE,
   fault_addr |-> 0, v |-> FALSE, before |-> mem]

\* After the reset that starts the hart: memories as loaded.
Init ==
  /\ pc = ResetPC
  /\ if_id = IfIdBubble /\ id_ex = IdExReset /\ ex_mem = ExMemReset
  /\ regs = ResetRegs /\ csr = ResetCsr
  /\ dmem = [c \in DCells |-> 0]
  /\ imem \in Programs
  /\ mem_wb = MemWbReset(dmem)

\* rst high at the edge. The store in MEM still reaches the memory.
Reset ==
  /\ MayReset
  /\ pc' = ResetPC
  /\ if_id' = IfIdBubble /\ id_ex' = IdExReset /\ ex_mem' = ExMemReset
  /\ regs' = ResetRegs /\ csr' = ResetCsr
  /\ dmem' = MemWritten(dmem, ex_mem.ctl, ex_mem.alu, ex_mem.rs2_data)
  /\ mem_wb' = MemWbReset(dmem')
  /\ UNCHANGED imem

Clock(irq) ==
  LET command == WbCommand(mem_wb, csr, irq)
      flush   == trap_flush_req(command)
      h       == Control(flush)
  IN  /\ pc' = NextFetchPc(pc, h.if_stall, flush, WbNextPc(mem_wb, csr, irq),
                           ExBranchTaken,
                           BranchTarget(id_ex.ctl, id_ex.pc, ExRs1, ExRs2, id_ex.imm),
                           Wrap(pc + 4))
      /\ if_id' = IfIdNext(h)
      /\ id_ex' = IdExNext(h)
      /\ ex_mem' = ExMemNext(h, flush)
      /\ mem_wb' = MemWbNext(flush)
      /\ regs' = RegWritten(regs, mem_wb, csr)
      /\ csr' = CsrNext(csr, CsrRequest(mem_wb), command)
      /\ dmem' = MemWritten(dmem, ex_mem.ctl, ex_mem.alu, ex_mem.rs2_data)
      /\ UNCHANGED imem

Tick == \E irq \in IrqChoices : Clock(irq)

Next == Tick \/ Reset

Spec == Init /\ [][Next]_vars

-----------------------------------------------------------------------------
(* What software must do for the pipeline to be transparent.               *)

\* An instruction that does nothing beyond EX.
Inert(ctl) ==
  /\ ~ctl.reg_write_en \/ ctl.rd = 0
  /\ ~(ctl.is_load \/ ctl.is_store \/ ctl.is_csr \/ ctl.illegal)
  /\ ~(ctl.ecall \/ ctl.ebreak \/ ctl.mret \/ ctl.sret)

\* The operands an instruction really uses.
UsesRs1(ctl) ==
  \/ ctl.is_branch \/ ctl.is_load \/ ctl.is_store
  \/ ctl.reg_write_en /\ ~ctl.is_csr /\ ~ctl.src1_pc
  \/ ctl.is_csr /\ ~IsImmForm(ctl.csr_op)
UsesRs2(ctl) ==
  ctl.is_branch \/ ctl.is_store \/ (ctl.reg_write_en /\ ~ctl.is_csr /\ ~ctl.src2_imm)

\* EX takes an operand from the ALU result of the instruction in MEM.
ForwardsFromMem ==
  \/ UsesRs1(id_ex.ctl) /\ ForwardSelOf(id_ex.rs1) = "mem"
  \/ UsesRs2(id_ex.ctl) /\ ForwardSelOf(id_ex.rs2) = "mem"

\* (1) When a trap, MRET or SRET is in WB, the instruction behind it is no
\*     store and the one behind that is inert.
ShadowClear(irq) ==
  trap_flush_req(WbCommand(mem_wb, csr, irq)) =>
    ~ex_mem.ctl.is_store /\ Inert(id_ex.ctl)

\* (2) The result of a CSR instruction is not used by the next instruction.
NoCsrUse == ex_mem.ctl.is_csr => ~ForwardsFromMem

\* (3) No register is loaded from a counter. They run on in every cycle, so
\*     that what they show depends on the pipeline; writing one is harmless.
NoCounterRead ==
  WbEnable /\ mem_wb.ctl.rd # 0 /\ mem_wb.ctl.is_csr =>
    canonical_addr(mem_wb.imm % 4096) \notin Counters

\* Behaviours up to the first breach of a rule, without interrupts.
DisciplinedTick == NoCsrUse /\ NoCounterRead /\ ShadowClear({}) /\ Clock({})

DisciplinedSpec == Init /\ [][DisciplinedTick]_vars

-----------------------------------------------------------------------------
(* Refinement: the pipeline seen as a hart that executes one instruction   *)
(* at a time.  The instruction in WB is the one about to execute; the PC   *)
(* is that of the oldest instruction not discarded, and the memory is the  *)
(* one before the instruction in WB passed MEM. The counters are hidden.   *)

ArchPc ==
  CASE mem_wb.v -> mem_wb.pc
    [] ~mem_wb.v /\ ex_mem.v -> ex_mem.pc
    [] ~mem_wb.v /\ ~ex_mem.v /\ id_ex.v -> id_ex.pc
    [] ~mem_wb.v /\ ~ex_mem.v /\ ~id_ex.v /\ if_id.v -> if_id.pc
    [] OTHER -> pc

ArchMem == IF mem_wb.v THEN mem_wb.before ELSE dmem

\* A CSR file with the counters hidden.
Uncounted(c) ==
  [c EXCEPT !.reg = [a \in StoredCsr |-> IF a \in Counters THEN {} ELSE @[a]]]

ArchCsr == Uncounted(csr)

\* What an instruction does to all but the counters.
ArchAfter(mem, at, r, c, data) ==
  LET s == After(mem, at, r, c, data) IN <<s[1], s[2], Uncounted(s[3]), s[4]>>

Hart == INSTANCE IsaMachine
          WITH pc <- ArchPc, csr <- ArchCsr, dmem <- ArchMem, After <- ArchAfter

-----------------------------------------------------------------------------
(* Properties *)

CtlType ==
  [alu_op : AluOp, src1_pc : BOOLEAN, src2_imm : BOOLEAN, word_op : BOOLEAN,
   reg_write_en : BOOLEAN, rd : Reg, is_load : BOOLEAN, is_store : BOOLEAN,
   mem_size : 0 .. 7, is_branch : BOOLEAN, branch_op : 0 .. 7, is_jump : BOOLEAN,
   wb_sel : {"alu", "mem", "pc4"}, is_csr : BOOLEAN, csr_op : CsrOp,
   illegal : BOOLEAN, ecall : BOOLEAN, ebreak : BOOLEAN, mret : BOOLEAN,
   sret : BOOLEAN]

\* Type correctness of the pipeline: every data path carries XLEN-bit words
\* and every control word is one the decoder can produce.
TypeOK ==
  /\ pc \in Word
  /\ if_id \in [pc : Word, instr : Instruction, v : BOOLEAN]
  /\ id_ex \in [pc : Word, instr : Word, rs1 : Reg, rs2 : Reg, rs1_data : Word,
                rs2_data : Word, imm : Word, ctl : CtlType, v : BOOLEAN]
  /\ ex_mem \in [pc : Word, instr : Word, alu : Word, rs1 : Reg, rs1_data : Word,
                 rs2_data : Word, imm : Word, ctl : CtlType, v : BOOLEAN]
  /\ mem_wb \in [pc : Word, instr : Word, alu : Word, mdata : Word, rs1 : Reg,
                 rs1_data : Word, imm : Word, ctl : CtlType, load_fault : BOOLEAN,
                 store_fault : BOOLEAN, fault_addr : Word, v : BOOLEAN,
                 before : [DCells -> Word]]
  /\ regs \in [Reg -> Word]
  /\ csr.reg \in [StoredCsr -> Bits] /\ csr.priv \in PrivMode
  /\ dmem \in [DCells -> Word]

\* The pipeline is transparent to disciplined software: with every program
\* that respects the three rules, each edge is one whole step of
\* the one-at-a-time machine or no step at all. Forwarding, the load-use
\* stall, branch flushes and trap entry are invisible.
ImplementsIsa == Hart!Spec

\* The exception PC register a trap command writes.
EpcOf(t) == IF t.to_s THEN CSR_SEPC ELSE CSR_MEPC

\* Exceptions are precise: the edge on which the instruction in WB raises one
\* leaves in the handler's exception PC the address of the oldest instruction
\* not discarded, every register as it was, and the memory as it was before
\* that instruction: a store that faults in MEM one edge earlier has written
\* nothing, in spite of the trap being taken only in WB. MEM does write a
\* store that follows the excepting instruction directly; rule 1 keeps such
\* programs out.
PreciseExceptions ==
  [][LET command == WbCommand(mem_wb, csr, {})
     IN  command.trigger => /\ csr'.reg[EpcOf(command)] = ToBits(ArchPc)
                            /\ regs' = regs /\ dmem' = ArchMem]_vars

\* The ALU result forwarded from MEM is never that of a load, whose value is
\* not there yet, nor of a jump, whose result is PC + 4 and not its target.
MemForwardIsResult == ForwardsFromMem => ex_mem.ctl.wb_sel = "alu"

\* The privilege a CSR access, an MRET or an SRET was checked against in ID
\* is still good when it reaches WB, whatever traps, returns and interrupts
\* changed the mode in between, unless it is younger than the instruction
\* that changed it (v is cleared). Of those the flush stops the ones in IF,
\* ID and MEM; EX/MEM is not flushed, and the one in EX goes on to WB with a
\* check against the old mode. That one is the subject of FlushedNeverCommits.
PrivilegeStillHolds ==
  \A l \in {id_ex, ex_mem, mem_wb} : l.v =>
    /\ l.ctl.is_csr => csr_access_allowed(csr.priv, l.imm % 4096)
    /\ l.ctl.mret => csr.priv = PRIV_M
    /\ l.ctl.sret => priv_ge(csr.priv, PRIV_S)

-----------------------------------------------------------------------------
(* Statements of the repository that the core does not meet                *)

\* trap_ctrl.sv raises a "Global pipeline flush request" on a trap, MRET or
\* SRET: an instruction it discards must not take effect in WB later.
FlushedNeverCommits == ~mem_wb.v => Inert(mem_wb.ctl) /\ ~HasTrap(mem_wb)

\* hazard_unit.sv: "Forwarding resolves RAW hazards". The value forwarded
\* from MEM must be the result of the instruction there, of a CSR
\* instruction too.
CsrForwardIsResult == ~(ForwardsFromMem /\ ex_mem.ctl.is_csr)

\* trap_ctrl.sv: "guarantee of precise exceptions". An interrupt falls
\* between two instructions: the PC it saves is that of the first one not
\* yet executed, and the instruction it keeps from completing, which is
\* resumed at that PC, has not written its result.
PreciseInterrupts ==
  \A irq \in IrqChoices :
    LET command == WbCommand(mem_wb, csr, irq)
    IN  command.trigger => /\ command.mepc = ToBits(ArchPc)
                           /\ ~WbEnable \/ mem_wb.ctl.rd = 0
=============================================================================
