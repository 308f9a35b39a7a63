-------------------------- MODULE RefinementProofs --------------------------
(***************************************************************************)
(* The pipeline implements the one-at-a-time machine: for every program,   *)
(* register width, register file and data memory, a behaviour that keeps   *)
(* the contract of DisciplinedTick is, seen through ArchPc, ArchCsr and    *)
(* ArchMem, a behaviour of IsaMachine.                                     *)
(***************************************************************************)
EXTENDS RichardCoreProofs, CsrFileProofs

-----------------------------------------------------------------------------
(* The invariant *)

\* The instruction in WB flushes the pipeline.
Flushes == trap_flush_req(WbCommand(mem_wb, csr, {}))

\* The registers once the instruction in WB has written its result.
Committed == RegWritten(regs, mem_wb, csr)

\* PC of the oldest instruction not discarded before MEM, and before WB.
FrontPc ==
  CASE id_ex.v -> id_ex.pc
    [] ~id_ex.v /\ if_id.v -> if_id.pc
    [] OTHER -> pc
MidPc == IF ex_mem.v THEN ex_mem.pc ELSE FrontPc

\* The PC that EX chose to follow the instruction in MEM.
Resolved ==
  IF BranchTaken(ex_mem.ctl, ex_mem.rs1_data, ex_mem.rs2_data)
  THEN BranchTarget(ex_mem.ctl, ex_mem.pc, ex_mem.rs1_data, ex_mem.rs2_data, ex_mem.imm)
  ELSE Wrap(ex_mem.pc + 4)

\* Latch l carries instruction i as ID decoded it.
Carries(l, i) ==
  /\ l.instr = i.word
  /\ l.rs1 = Rs1Addr(i)
  /\ l.imm = DecodeImm(i)
  /\ l.ctl = Decode(i, csr.priv)

\* A discarded instruction does nothing any more.
DeadInv ==
  /\ ~if_id.v => if_id.instr = NOP
  /\ ~id_ex.v => Inert(id_ex.ctl) /\ ~id_ex.ctl.is_branch /\ ~id_ex.ctl.is_jump
  /\ ~ex_mem.v => Inert(ex_mem.ctl)
  /\ FlushedNeverCommits

\* ID holds what is stored at its PC, and fetching goes on behind it.
IfIdInv ==
  if_id.v => /\ if_id.instr = Fetch(imem, if_id.pc)
             /\ pc = Wrap(if_id.pc + 4)

\* EX holds what is stored at its PC, with the operands of the register
\* file as it is now; the instruction that follows it is in ID.
IdExInv ==
  id_ex.v =>
    /\ Carries(id_ex, Fetch(imem, id_ex.pc))
    /\ id_ex.rs2 = Fetch(imem, id_ex.pc).rs2
    /\ id_ex.rs1_data = RegRead(regs, id_ex.rs1)
    /\ id_ex.rs2_data = RegRead(regs, id_ex.rs2)
    /\ if_id.v /\ if_id.pc = Wrap(id_ex.pc + 4)

\* MEM holds the result for its operands, and fetching went on where that
\* result says. Unless the instruction in WB traps, the operands it uses are
\* those of the registers once WB has written.
ExMemInv ==
  ex_mem.v =>
    /\ Carries(ex_mem, Fetch(imem, ex_mem.pc))
    /\ ex_mem.alu = AluResult(ex_mem.ctl, ex_mem.pc, ex_mem.rs1_data, ex_mem.rs2_data,
                              ex_mem.imm)
    /\ FrontPc = Resolved
    /\ ~Flushes =>
         /\ UsesRs1(ex_mem.ctl) => ex_mem.rs1_data = RegRead(Committed, ex_mem.rs1)
         /\ UsesRs2(ex_mem.ctl) =>
              ex_mem.rs2_data = RegRead(Committed, Fetch(imem, ex_mem.pc).rs2)

\* Two instructions in WB that the write port, the CSR unit and the trap
\* controller cannot tell apart.
SameEffect(m, n) ==
  /\ m.pc = n.pc /\ m.instr = n.instr /\ m.ctl = n.ctl /\ m.imm = n.imm /\ m.rs1 = n.rs1
  /\ m.load_fault = n.load_fault /\ m.store_fault = n.store_fault
  /\ m.fault_addr = n.fault_addr
  /\ m.ctl.is_csr /\ ~IsImmForm(m.ctl.csr_op) => m.rs1_data = n.rs1_data
  /\ m.ctl.reg_write_en /\ ~m.ctl.is_csr => m.alu = n.alu /\ m.mdata = n.mdata

\* The instruction in WB, executed alone, and its second operand.
Alone   == Executed(Fetch(imem, mem_wb.pc), mem_wb.pc, regs, csr, mem_wb.before)
Operand == RegRead(regs, Fetch(imem, mem_wb.pc).rs2)

\* WB holds the instruction at its PC as it would be, had it been executed
\* alone from the architectural state; its store is in memory, and the next
\* instruction not discarded is the one that follows it.
MemWbInv ==
  mem_wb.v =>
    /\ SameEffect(mem_wb, Alone)
    /\ dmem = MemWritten(mem_wb.before, Alone.ctl, Alone.alu, Operand)
    /\ ~Flushes => MidPc = NextPc(Alone, Operand, csr)

\* What the provers need to know of types.
InstrOk(i) == i.rd \in Reg /\ i.rs1 \in Reg /\ i.rs2 \in Reg /\ i.f3 \in 0 .. 7 /\ i.imm \in Int
CtlOk(ctl) == ctl.rd \in Reg /\ ctl.csr_op \in CsrOp
ShapeInv ==
  /\ csr \in CsrFileType
  /\ DOMAIN regs = Reg
  /\ \A a \in DOMAIN imem : imem[a] \in Instruction
  /\ InstrOk(if_id.instr)
  /\ id_ex.rs1 \in Reg /\ id_ex.rs2 \in Reg
  /\ CtlOk(id_ex.ctl) /\ CtlOk(ex_mem.ctl) /\ CtlOk(mem_wb.ctl)
  /\ id_ex.imm \in Int /\ ex_mem.imm \in Int /\ mem_wb.imm \in Int

PipeInv ==
  ShapeInv /\ ForwardInv /\ DeadInv /\ IfIdInv /\ IdExInv /\ ExMemInv /\ MemWbInv
-----------------------------------------------------------------------------
(* What the decoder produces *)

\* Every instruction the memory can deliver has fields in range.
LEMMA FetchOk ==
  ASSUME NEW mem, \A a \in DOMAIN mem : mem[a] \in Instruction, NEW addr
  PROVE  InstrOk(Fetch(mem, addr))
<1>1. CASE addr \in DOMAIN mem
  BY <1>1 DEF Fetch, InstrOk, Instruction, Word
<1>2. CASE addr \notin DOMAIN mem
  BY <1>2, RegAssumption DEF Fetch, InstrOk, NOP
<1> QED
  BY <1>1, <1>2

\* Decoding such an instruction gives a control word in range.
LEMMA DecodeOk ==
  ASSUME NEW i, InstrOk(i), NEW priv
  PROVE  CtlOk(Decode(i, priv)) /\ Rs1Addr(i) \in Reg /\ DecodeImm(i) \in Int
<1>1. DecodeOp(i, priv).csr_op \in CsrOp /\ "rd" \in DOMAIN DecodeOp(i, priv)
  BY DEF InstrOk, DecodeOp, IdleCtl, AluCtl, SystemCtl, CsrCtl, CsrOp
<1> QED
  BY <1>1, RegAssumption DEF CtlOk, Decode, InstrOk, Rs1Addr, DecodeImm

\* The only exception a store can raise is the one of its address.
LEMMA DecodeStore ==
  ASSUME NEW i, NEW priv, NEW ctl, ctl = Decode(i, priv), ctl.is_store
  PROVE  ~ctl.illegal /\ ~ctl.ecall /\ ~ctl.ebreak /\ ~ctl.is_csr /\ ~ctl.is_load
<1>1. /\ "rd" \in DOMAIN DecodeOp(i, priv)
      /\ DecodeOp(i, priv).is_store =>
           /\ ~DecodeOp(i, priv).illegal /\ ~DecodeOp(i, priv).ecall
           /\ ~DecodeOp(i, priv).ebreak /\ ~DecodeOp(i, priv).is_csr
           /\ ~DecodeOp(i, priv).is_load
  BY DEF DecodeOp, IdleCtl, AluCtl, SystemCtl, CsrCtl
<1> QED
  BY <1>1 DEF Decode

\* Loads and jumps write a register and are no CSR instructions.
LEMMA DecodeUses ==
  ASSUME NEW i, NEW priv
  PROVE  Decode(i, priv).is_load \/ Decode(i, priv).is_jump =>
           Decode(i, priv).reg_write_en /\ ~Decode(i, priv).is_csr
<1>1. /\ "rd" \in DOMAIN DecodeOp(i, priv)
      /\ DecodeOp(i, priv).is_load \/ DecodeOp(i, priv).is_jump =>
           DecodeOp(i, priv).reg_write_en /\ ~DecodeOp(i, priv).is_csr
  BY DEF DecodeOp, IdleCtl, AluCtl, SystemCtl, CsrCtl
<1> QED
  BY <1>1 DEF Decode

\* The bubble of IF/ID decodes to an instruction that does nothing, and so
\* is the idle control word.
LEMMA BubbleInert ==
  /\ \A priv : LET ctl == Decode(NOP, priv) IN Inert(ctl) /\ ~ctl.is_branch /\ ~ctl.is_jump
  /\ Inert(IdleCtl) /\ ~IdleCtl.is_branch /\ ~IdleCtl.is_jump
<1>1. \A priv : DecodeOp(NOP, priv) = AluCtl(NOP, FALSE, FALSE)
  BY DEF DecodeOp, NOP
<1>2. \A priv : Decode(NOP, priv) = [AluCtl(NOP, FALSE, FALSE) EXCEPT !.rd = 0]
  BY <1>1 DEF Decode, NOP
<1>3. LET ctl == [AluCtl(NOP, FALSE, FALSE) EXCEPT !.rd = 0]
      IN  Inert(ctl) /\ ~ctl.is_branch /\ ~ctl.is_jump
  BY DEF AluCtl, NOP, IdleCtl, Inert
<1>4. Inert(IdleCtl) /\ ~IdleCtl.is_branch /\ ~IdleCtl.is_jump
  BY DEF IdleCtl, Inert
<1> QED
  BY <1>2, <1>3, <1>4

-----------------------------------------------------------------------------
(* Results depend on the operands an instruction uses, and on no other *)

\* An address or a result needs the operands UsesRs1 and UsesRs2 name.
LEMMA AluFromUsed ==
  ASSUME NEW i, NEW priv, NEW ctl, ctl = Decode(i, priv),
         ctl.is_load \/ ctl.is_store \/ (ctl.reg_write_en /\ ~ctl.is_csr),
         NEW at, NEW a1, NEW a2, NEW b1, NEW b2, NEW imm,
         UsesRs1(ctl) => a1 = a2, UsesRs2(ctl) => b1 = b2
  PROVE  AluResult(ctl, at, a1, b1, imm) = AluResult(ctl, at, a2, b2, imm)
<1>1. ctl.is_load => ctl.reg_write_en /\ ~ctl.is_csr
  BY DecodeUses
<1>2. (ctl.src1_pc \/ a1 = a2) /\ (ctl.src2_imm \/ b1 = b2)
  BY <1>1 DEF UsesRs1, UsesRs2
<1>3. RawResult(ctl, at, a1, b1, imm) = RawResult(ctl, at, a2, b2, imm)
  BY <1>2 DEF RawResult
<1> QED
  BY <1>3 DEF AluResult

\* So do the direction and the target of a branch or jump.
LEMMA BranchFromUsed ==
  ASSUME NEW i, NEW priv, NEW ctl, ctl = Decode(i, priv),
         NEW at, NEW a1, NEW a2, NEW b1, NEW b2, NEW imm,
         UsesRs1(ctl) => a1 = a2, UsesRs2(ctl) => b1 = b2
  PROVE  /\ BranchTaken(ctl, a1, b1) <=> BranchTaken(ctl, a2, b2)
         /\ BranchTaken(ctl, a1, b1) =>
              BranchTarget(ctl, at, a1, b1, imm) = BranchTarget(ctl, at, a2, b2, imm)
<1>1. ctl.is_jump => ctl.reg_write_en /\ ~ctl.is_csr
  BY DecodeUses
<1>2. ctl.is_branch => a1 = a2 /\ b1 = b2
  BY DEF UsesRs1, UsesRs2
<1>3. ctl.is_branch \/ ctl.is_jump => (ctl.src1_pc \/ a1 = a2) /\ (ctl.src2_imm \/ b1 = b2)
  BY <1>1, <1>2 DEF UsesRs1, UsesRs2
<1>4. ctl.is_branch \/ ctl.is_jump =>
        RawResult(ctl, at, a1, b1, imm) = RawResult(ctl, at, a2, b2, imm)
  BY <1>3 DEF RawResult
<1>5. BranchTaken(ctl, a1, b1) <=> BranchTaken(ctl, a2, b2)
  BY <1>2 DEF BranchTaken
<1>6. BranchTaken(ctl, a1, b1) => ctl.is_branch \/ ctl.is_jump
  BY DEF BranchTaken
<1> QED
  BY <1>4, <1>5, <1>6 DEF BranchTarget
-----------------------------------------------------------------------------
(* The instruction in WB *)

\* A register read after a write-back.
LEMMA ReadAfterWrite ==
  ASSUME NEW r, DOMAIN r = Reg, NEW m, m.ctl.rd \in Reg, NEW c, NEW a \in Reg
  PROVE  RegRead(RegWritten(r, m, c), a) =
           IF WriteBackEnable(m) /\ m.ctl.rd # 0 /\ m.ctl.rd = a
           THEN WriteBackData(m, c) ELSE RegRead(r, a)
BY DEF RegRead, RegWritten

\* The bypass of the register file: ID reads the registers as they are after
\* the edge.
LEMMA BypassReads ==
  ASSUME ShapeInv, NEW a \in Reg
  PROVE  RegReadBypass(regs, a, mem_wb, csr) = RegRead(Committed, a)
<1>1. RegRead(Committed, a) =
        IF WriteBackEnable(mem_wb) /\ mem_wb.ctl.rd # 0 /\ mem_wb.ctl.rd = a
        THEN WriteBackData(mem_wb, csr) ELSE RegRead(regs, a)
  BY ReadAfterWrite DEF ShapeInv, CtlOk, Committed
<1> QED
  BY <1>1 DEF RegReadBypass, RegRead

\* Instructions of the same effect write the same register, CSRs and PC.
LEMMA SameEffectWb ==
  ASSUME NEW m, NEW n, SameEffect(m, n), CtlSound(m.ctl), NEW r, NEW c
  PROVE  /\ RegWritten(r, m, c) = RegWritten(r, n, c)
         /\ WbCommand(m, c, {}) = WbCommand(n, c, {})
         /\ WbCsr(m, c, {}) = WbCsr(n, c, {})
         /\ WbNextPc(m, c, {}) = WbNextPc(n, c, {})
<1>1. HasTrap(m) <=> HasTrap(n)
  BY DEF HasTrap, SameEffect
<1>2. /\ CsrRequest(m).req = CsrRequest(n).req
      /\ CsrRequest(m).op = CsrRequest(n).op
      /\ CsrRequest(m).addr = CsrRequest(n).addr
  BY <1>1 DEF CsrRequest, SameEffect
<1>3. m.ctl.is_csr => CsrRequest(m) = CsrRequest(n)
  BY <1>1 DEF CsrRequest, SameEffect
<1>4. csr_illegal_access(CsrRequest(m)) <=> csr_illegal_access(CsrRequest(n))
  BY <1>2 DEF csr_illegal_access
<1>5. WbWires(m) = WbWires(n)
  BY <1>4 DEF WbWires, SameEffect
<1>6. WriteBackEnable(m) <=> WriteBackEnable(n)
  BY <1>1, <1>4 DEF WriteBackEnable, TrapBlocker, SameEffect
<1>7. m.ctl.reg_write_en => WriteBackData(m, c) = WriteBackData(n, c)
  BY DEF WriteBackData, SameEffect, CtlSound
<1>8. RegWritten(r, m, c) = RegWritten(r, n, c)
  BY <1>6, <1>7 DEF RegWritten, SameEffect, WriteBackEnable
<1>9. \A old, new : Written(old, new, CsrRequest(m)) = Written(old, new, CsrRequest(n))
  <2>1. CASE m.ctl.is_csr
    BY <1>3, <2>1
  <2>2. CASE ~m.ctl.is_csr
    <3>0. ~CsrRequest(m).req /\ ~CsrRequest(n).req
      BY <2>2 DEF CsrRequest, SameEffect
    <3>1. ~WriteEnable(CsrRequest(m)) /\ ~WriteEnable(CsrRequest(n))
      BY <3>0 DEF WriteEnable
    <3> QED
      BY <3>1 DEF Written
  <2> QED
    BY <2>1, <2>2
<1>10. WbCsr(m, c, {}) = WbCsr(n, c, {})
  BY <1>5, <1>9 DEF WbCsr, WbCommand, CsrNext
<1> QED
  BY <1>5, <1>8, <1>10 DEF WbCommand, WbNextPc

\* An inert instruction without a fault leaves the pipeline alone.
LEMMA InertWb ==
  ASSUME NEW m, Inert(m.ctl), ~HasTrap(m), NEW r, NEW c
  PROVE  /\ ~trap_flush_req(WbCommand(m, c, {}))
         /\ ~WbCommand(m, c, {}).trigger
         /\ ~CsrRequest(m).req
         /\ RegWritten(r, m, c) = r
<1>1. ~CsrRequest(m).req
  BY DEF CsrRequest, Inert
<1>2. ~csr_illegal_access(CsrRequest(m))
  BY <1>1 DEF csr_illegal_access
<1>3. ~HasSyncException(WbWires(m)) /\ ~WbWires(m).mret /\ ~WbWires(m).sret
  BY <1>2 DEF HasSyncException, WbWires, HasTrap, Inert
<1>4. ~HasInterrupt(c, {})
  BY DEF HasInterrupt
<1>5. ~trap_flush_req(WbCommand(m, c, {})) /\ ~WbCommand(m, c, {}).trigger
  BY <1>3, <1>4 DEF trap_flush_req, WbCommand, TrapCommand, trap_trigger
<1>6. RegWritten(r, m, c) = r
  BY DEF RegWritten, WriteBackEnable, Inert
<1> QED
  BY <1>1, <1>5, <1>6

\* What does not flush does not trap: it writes what it is meant to write.
LEMMA NoFlushWrites ==
  ASSUME NEW m, NEW c, ~trap_flush_req(WbCommand(m, c, {}))
  PROVE  WriteBackEnable(m) <=> m.ctl.reg_write_en
<1>1. ~HasSyncException(WbWires(m))
  BY DEF trap_flush_req, WbCommand, TrapCommand, trap_trigger
<1>2. ~TrapBlocker(m)
  BY <1>1 DEF HasSyncException, WbWires, TrapBlocker, HasTrap
<1> QED
  BY <1>2 DEF WriteBackEnable
-----------------------------------------------------------------------------
(* The CSR file *)

\* The command of the trap controller is typed.
LEMMA CommandTyped ==
  ASSUME NEW m, NEW c, NEW irq
  PROVE  WbCommand(m, c, irq) \in CommandType
<1>1. \A x : ToBits(x) \in Bits
  BY DEF ToBits, Bits
<1>2. {} \in Bits /\ Field(XLEN - 1, FALSE) \in Bits /\ Field(XLEN - 1, TRUE) \in Bits
  BY XlenAssumption DEF Bits, Field, BitIdx
<1>3. \A x, y \in Bits : x \cup y \in Bits
  BY DEF Bits
<1>4. \A b \in BOOLEAN : Field(XLEN - 1, b) \in Bits
  BY <1>2
<1>5. /\ HasInterrupt(c, irq) \in BOOLEAN
      /\ trap_trigger(WbWires(m), c, irq) \in BOOLEAN
      /\ trap_to_s_mode(WbWires(m), c, irq) \in BOOLEAN
  BY DEF HasInterrupt, trap_trigger, trap_to_s_mode
<1> QED
  BY <1>1, <1>2, <1>3, <1>4, <1>5 DEF WbCommand, TrapCommand, CommandType

\* So is the request of the instruction in WB.
LEMMA RequestTyped ==
  ASSUME NEW m, CtlOk(m.ctl), m.imm \in Int
  PROVE  CsrRequest(m) \in RequestType
<1>1. \A x : ToBits(x) \in Bits
  BY DEF ToBits, Bits
<1>2. m.imm % 4096 \in CsrAddr
  <2>1. \A n \in Int : n % 4096 \in 0 .. 4095
    OBVIOUS
  <2>2. \A n \in Int : n % 4096 \in CsrAddr
    BY <2>1 DEF CsrAddr
  <2> QED
    BY <2>2
<1> QED
  BY <1>1, <1>2 DEF CsrRequest, RequestType, CtlOk

-----------------------------------------------------------------------------
(* What the counters hold is seen by nobody who does not read one *)

\* Two sets of registers that agree on all but the counters.
Alike(r, s) == \A a \in StoredCsr \ Counters : r[a] = s[a]

\* Hiding the counters leaves a CSR file alike, and all the rest of it.
LEMMA UncountedFacts ==
  ASSUME NEW c \in CsrFileType
  PROVE  /\ Uncounted(c) \in CsrFileType /\ Alike(Uncounted(c).reg, c.reg)
         /\ Uncounted(c).priv = c.priv /\ Uncounted(c).trap_vector = c.trap_vector
         /\ Uncounted(c).trap_to_s = c.trap_to_s
<1>1. {} \in Bits
  BY DEF Bits
<1> QED
  BY <1>1 DEF Uncounted, CsrFileType, Alike

\* Files that differ in the counters only are the same file once these are
\* hidden.
LEMMA AlikeUncounted ==
  ASSUME NEW c \in CsrFileType, NEW d \in CsrFileType, Alike(c.reg, d.reg),
         c.priv = d.priv, c.trap_vector = d.trap_vector, c.trap_to_s = d.trap_to_s
  PROVE  Uncounted(c) = Uncounted(d)
<1> DEFINE hide(r) == [a \in StoredCsr |-> IF a \in Counters THEN {} ELSE r[a]]
<1>1. hide(c.reg) = hide(d.reg)
  BY DEF Alike
<1>2. Uncounted(c) = [c EXCEPT !.reg = hide(c.reg)] /\ Uncounted(d) = [d EXCEPT !.reg = hide(d.reg)]
  BY DEF Uncounted
<1> HIDE DEF hide
<1> QED
  BY <1>1, <1>2 DEF CsrFileType

\* No counter is a status, trap or floating-point register.
LEMMA NoCounter ==
  /\ {CSR_MSTATUS, CSR_SSTATUS, CSR_FFLAGS, CSR_FRM, CSR_MEPC, CSR_SEPC, CSR_MTVEC, CSR_STVEC,
      CSR_MEDELEG, CSR_MIDELEG, CSR_MCAUSE, CSR_MTVAL, CSR_SCAUSE, CSR_STVAL}
       \subseteq StoredCsr \ Counters
  /\ Counters \subseteq StoredCsr
<1>1. {CSR_MSTATUS, CSR_SSTATUS, CSR_FFLAGS, CSR_FRM, CSR_MEPC, CSR_SEPC, CSR_MTVEC, CSR_STVEC,
       CSR_MEDELEG, CSR_MIDELEG, CSR_MCAUSE, CSR_MTVAL, CSR_SCAUSE, CSR_STVAL} \subseteq StoredCsr
  BY DEF StoredCsr
<1>2. {CSR_MSTATUS, CSR_SSTATUS, CSR_FFLAGS, CSR_FRM, CSR_MEPC, CSR_SEPC, CSR_MTVEC, CSR_STVEC,
       CSR_MEDELEG, CSR_MIDELEG, CSR_MCAUSE, CSR_MTVAL, CSR_SCAUSE, CSR_STVAL} \cap Counters = {}
  BY DEF Counters, CSR_MCYCLE, CSR_MINSTRET, CSR_TIME, CSR_MSTATUS, CSR_SSTATUS, CSR_FFLAGS,
         CSR_FRM, CSR_MEPC, CSR_SEPC, CSR_MTVEC, CSR_STVEC, CSR_MEDELEG, CSR_MIDELEG,
         CSR_MCAUSE, CSR_MTVAL, CSR_SCAUSE, CSR_STVAL
<1>3. Counters \subseteq StoredCsr
  BY DEF StoredCsr
<1> QED
  BY <1>1, <1>2, <1>3

\* Counting changes counters only.
LEMMA CountedAlike ==
  ASSUME NEW r \in RegFile, NEW trigger
  PROVE  Alike(Counted(r, trigger), r)
BY DEF Alike, Counted, RegFile, Counters

\* The write port writes alike registers alike: its new values come from the
\* register addressed, and where that is a counter only the counter changes.
LEMMA WrittenAlike ==
  ASSUME NEW r \in RegFile, NEW s \in RegFile, Alike(r, s),
         NEW new \in RegFile, NEW other \in RegFile, Alike(new, other), NEW q
  PROVE  Alike(Written(r, new, q), Written(s, other, q))
<1> DEFINE at      == canonical_addr(q.addr)
           next(x) == csr_write_next(x[at], q.data, q.op)
           fcsr(x) == csr_write_next(compose_fcsr(x), q.data, q.op)
<1>1. /\ r[CSR_MSTATUS] = s[CSR_MSTATUS] /\ r[CSR_SSTATUS] = s[CSR_SSTATUS]
      /\ r[CSR_FFLAGS] = s[CSR_FFLAGS] /\ r[CSR_FRM] = s[CSR_FRM]
  BY NoCounter DEF Alike
<1>2. CASE ~WriteEnable(q) \/ ~csr_is_writable(at)
  BY <1>2 DEF Written
<1>3. CASE ~(~WriteEnable(q) \/ ~csr_is_writable(at)) /\ at = CSR_FCSR
  <2>1. at # CSR_MSTATUS /\ at # CSR_SSTATUS
    BY <1>3 DEF CSR_FCSR, CSR_MSTATUS, CSR_SSTATUS
  <2> DEFINE frm == {i \in 0 .. 2 : i + 5 \in fcsr(r)}
             fflags == fcsr(r) \cap (0 .. 4)
  <2>2. fcsr(r) = fcsr(s)
    BY <1>1 DEF compose_fcsr
  <2>3. /\ Written(r, new, q) = [new EXCEPT ![CSR_FFLAGS] = fflags, ![CSR_FRM] = frm]
        /\ Written(s, other, q) = [other EXCEPT ![CSR_FFLAGS] = fflags, ![CSR_FRM] = frm]
    BY <1>3, <2>1, <2>2 DEF Written
  <2> HIDE DEF frm, fflags
  <2> QED
    BY <2>3 DEF Alike, RegFile
<1>4. CASE ~(~WriteEnable(q) \/ ~csr_is_writable(at)) /\ at = CSR_MSTATUS
  <2>1. \A x, y : Written(x, y, q) =
          [y EXCEPT ![CSR_MSTATUS] = next(x),
                    ![CSR_SSTATUS] = mirror_mstatus_to_sstatus(x[CSR_SSTATUS], next(x))]
    BY <1>4, StatusAddresses DEF Written
  <2>2. next(r) = next(s)
    BY <1>1, <1>4
  <2> HIDE DEF next
  <2> QED
    BY <1>1, <2>1, <2>2 DEF Alike, RegFile
<1>5. CASE ~(~WriteEnable(q) \/ ~csr_is_writable(at)) /\ at = CSR_SSTATUS
  <2>1. \A x, y : Written(x, y, q) =
          [y EXCEPT ![CSR_SSTATUS] = next(x),
                    ![CSR_MSTATUS] = apply_sstatus_to_mstatus(x[CSR_MSTATUS], next(x))]
    BY <1>5, StatusAddresses DEF Written
  <2>2. next(r) = next(s)
    BY <1>1, <1>5
  <2> HIDE DEF next
  <2> QED
    BY <1>1, <2>1, <2>2 DEF Alike, RegFile
<1>6. CASE /\ ~(~WriteEnable(q) \/ ~csr_is_writable(at))
           /\ at \notin {CSR_FCSR, CSR_MSTATUS, CSR_SSTATUS}
  <2>1. /\ Written(r, new, q) = [new EXCEPT ![at] = next(r) \cap Implemented(at)]
        /\ Written(s, other, q) = [other EXCEPT ![at] = next(s) \cap Implemented(at)]
    BY <1>6 DEF Written
  <2>2. at \in StoredCsr \ Counters => next(r) = next(s)
    BY DEF Alike
  <2> HIDE DEF next, at
  <2>3. ASSUME NEW a \in StoredCsr \ Counters
        PROVE  Written(r, new, q)[a] = Written(s, other, q)[a]
    <3>1. new[a] = other[a]
      BY DEF Alike
    <3>2. DOMAIN new = StoredCsr /\ DOMAIN other = StoredCsr
      BY DEF RegFile
    <3> QED
      BY <2>1, <2>2, <3>1, <3>2
  <2> QED
    BY <2>3 DEF Alike
<1> QED
  BY <1>2, <1>3, <1>4, <1>5, <1>6

\* A whole edge of the CSR unit: what it does to all but the counters does
\* not depend on them.
LEMMA CsrNextAlike ==
  ASSUME NEW c \in CsrFileType, NEW q \in RequestType, NEW t \in CommandType
  PROVE  Uncounted(CsrNext(Uncounted(c), q, t)) = Uncounted(CsrNext(c, q, t))
<1> DEFINE d    == Uncounted(c)
           newC == Written(c.reg, Counted(c.reg, t.trigger), q)
           newD == Written(d.reg, Counted(d.reg, t.trigger), q)
<1>1. /\ d \in CsrFileType /\ Alike(d.reg, c.reg) /\ d.priv = c.priv
      /\ d.trap_vector = c.trap_vector /\ d.trap_to_s = c.trap_to_s
  BY UncountedFacts
<1> SUFFICES Uncounted(CsrNext(d, q, t)) = Uncounted(CsrNext(c, q, t))
  OBVIOUS
<1> HIDE DEF d
<1>2. c.reg \in RegFile /\ d.reg \in RegFile /\ t.trigger \in BOOLEAN
  BY <1>1 DEF CsrFileType, RegFile, CommandType
<1>3. Counted(c.reg, t.trigger) \in RegFile /\ Counted(d.reg, t.trigger) \in RegFile
  BY <1>2, CountedType
<1>4. Alike(Counted(d.reg, t.trigger), Counted(c.reg, t.trigger))
  BY <1>1, <1>2, CountedAlike DEF Alike
<1>5. Alike(newD, newC)
  BY <1>1, <1>2, <1>3, <1>4, WrittenAlike
<1>6. newC \in RegFile /\ newD \in RegFile
  BY <1>2, <1>3, WrittenType
<1>7. CsrNext(c, q, t) \in CsrFileType /\ CsrNext(d, q, t) \in CsrFileType
  BY <1>1, CsrNextType
<1>8. /\ CsrNext(c, q, t) = CASE t.trigger /\ t.to_s  -> TrapToS(c, newC, t)
                              [] t.trigger /\ ~t.to_s -> TrapToM(c, newC, t)
                              [] ~t.trigger /\ t.sret -> SretState(c, newC)
                              [] ~t.trigger /\ ~t.sret /\ t.mret -> MretState(c, newC)
                              [] OTHER                -> [c EXCEPT !.reg = newC]
      /\ CsrNext(d, q, t) = CASE t.trigger /\ t.to_s  -> TrapToS(d, newD, t)
                              [] t.trigger /\ ~t.to_s -> TrapToM(d, newD, t)
                              [] ~t.trigger /\ t.sret -> SretState(d, newD)
                              [] ~t.trigger /\ ~t.sret /\ t.mret -> MretState(d, newD)
                              [] OTHER                -> [d EXCEPT !.reg = newD]
  BY DEF CsrNext
<1> HIDE DEF newC, newD
<1>9. /\ d.reg[CSR_MSTATUS] = c.reg[CSR_MSTATUS] /\ d.reg[CSR_SSTATUS] = c.reg[CSR_SSTATUS]
      /\ d.reg[CSR_MTVEC] = c.reg[CSR_MTVEC] /\ d.reg[CSR_STVEC] = c.reg[CSR_STVEC]
  BY <1>1, NoCounter DEF Alike
<1>10. CASE t.trigger /\ t.to_s
  <2>1. CsrNext(c, q, t) = TrapToS(c, newC, t) /\ CsrNext(d, q, t) = TrapToS(d, newD, t)
    BY <1>8, <1>10
  <2>2. /\ Alike(TrapToS(d, newD, t).reg, TrapToS(c, newC, t).reg)
        /\ TrapToS(d, newD, t).priv = TrapToS(c, newC, t).priv
        /\ TrapToS(d, newD, t).trap_vector = TrapToS(c, newC, t).trap_vector
        /\ TrapToS(d, newD, t).trap_to_s = TrapToS(c, newC, t).trap_to_s
    BY <1>1, <1>5, <1>6, <1>9 DEF TrapToS, Alike, RegFile
  <2> QED
    BY <1>7, <2>1, <2>2, AlikeUncounted
<1>11. CASE t.trigger /\ ~t.to_s
  <2>1. CsrNext(c, q, t) = TrapToM(c, newC, t) /\ CsrNext(d, q, t) = TrapToM(d, newD, t)
    BY <1>8, <1>11
  <2>2. /\ Alike(TrapToM(d, newD, t).reg, TrapToM(c, newC, t).reg)
        /\ TrapToM(d, newD, t).priv = TrapToM(c, newC, t).priv
        /\ TrapToM(d, newD, t).trap_vector = TrapToM(c, newC, t).trap_vector
        /\ TrapToM(d, newD, t).trap_to_s = TrapToM(c, newC, t).trap_to_s
    BY <1>1, <1>5, <1>6, <1>9 DEF TrapToM, Alike, RegFile
  <2> QED
    BY <1>7, <2>1, <2>2, AlikeUncounted
<1>12. CASE ~t.trigger /\ t.sret
  <2>1. CsrNext(c, q, t) = SretState(c, newC) /\ CsrNext(d, q, t) = SretState(d, newD)
    BY <1>8, <1>12
  <2>2. /\ Alike(SretState(d, newD).reg, SretState(c, newC).reg)
        /\ SretState(d, newD).priv = SretState(c, newC).priv
        /\ SretState(d, newD).trap_vector = SretState(c, newC).trap_vector
        /\ SretState(d, newD).trap_to_s = SretState(c, newC).trap_to_s
    BY <1>1, <1>5, <1>6, <1>9 DEF SretState, Alike, RegFile, CsrFileType
  <2> QED
    BY <1>7, <2>1, <2>2, AlikeUncounted
<1>13. CASE ~t.trigger /\ ~t.sret /\ t.mret
  <2>1. CsrNext(c, q, t) = MretState(c, newC) /\ CsrNext(d, q, t) = MretState(d, newD)
    BY <1>8, <1>13
  <2>2. /\ Alike(MretState(d, newD).reg, MretState(c, newC).reg)
        /\ MretState(d, newD).priv = MretState(c, newC).priv
        /\ MretState(d, newD).trap_vector = MretState(c, newC).trap_vector
        /\ MretState(d, newD).trap_to_s = MretState(c, newC).trap_to_s
    BY <1>1, <1>5, <1>6, <1>9 DEF MretState, Alike, RegFile, CsrFileType
  <2> QED
    BY <1>7, <2>1, <2>2, AlikeUncounted
<1>14. CASE ~t.trigger /\ ~t.sret /\ ~t.mret
  <2>1. CsrNext(c, q, t) = [c EXCEPT !.reg = newC] /\ CsrNext(d, q, t) = [d EXCEPT !.reg = newD]
    BY <1>8, <1>14
  <2>2. /\ Alike([d EXCEPT !.reg = newD].reg, [c EXCEPT !.reg = newC].reg)
        /\ [d EXCEPT !.reg = newD].priv = [c EXCEPT !.reg = newC].priv
        /\ [d EXCEPT !.reg = newD].trap_vector = [c EXCEPT !.reg = newC].trap_vector
        /\ [d EXCEPT !.reg = newD].trap_to_s = [c EXCEPT !.reg = newC].trap_to_s
    BY <1>1, <1>5 DEF CsrFileType
  <2> QED
    BY <1>7, <2>1, <2>2, AlikeUncounted
<1> QED
  BY <1>10, <1>11, <1>12, <1>13, <1>14

\* An edge without request and trap changes counters only.
LEMMA IdleCsr ==
  ASSUME NEW c \in CsrFileType, NEW q, ~q.req, NEW t \in CommandType, ~trap_flush_req(t)
  PROVE  Uncounted(CsrNext(c, q, t)) = Uncounted(c)
<1> DEFINE new == Counted(c.reg, t.trigger)
<1>1. Written(c.reg, new, q) = new
  BY DEF Written, WriteEnable
<1>2. CsrNext(c, q, t) = [c EXCEPT !.reg = new]
  BY <1>1 DEF CsrNext, trap_flush_req
<1>3. c.reg \in RegFile /\ t.trigger \in BOOLEAN
  BY DEF CsrFileType, RegFile, CommandType
<1>4. new \in RegFile /\ Alike(new, c.reg)
  BY <1>3, CountedType, CountedAlike
<1> HIDE DEF new
<1>5. [c EXCEPT !.reg = new] \in CsrFileType
  BY <1>4 DEF CsrFileType, RegFile
<1>6. /\ [c EXCEPT !.reg = new].reg = new /\ [c EXCEPT !.reg = new].priv = c.priv
      /\ [c EXCEPT !.reg = new].trap_vector = c.trap_vector
      /\ [c EXCEPT !.reg = new].trap_to_s = c.trap_to_s
  BY DEF CsrFileType
<1> QED
  BY <1>2, <1>4, <1>5, <1>6, AlikeUncounted

\* The trap controller does not look at the counters.
LEMMA CommandAlike ==
  ASSUME NEW c \in CsrFileType, NEW m, NEW irq
  PROVE  /\ WbCommand(m, Uncounted(c), irq) = WbCommand(m, c, irq)
         /\ WbNextPc(m, Uncounted(c), irq) = WbNextPc(m, c, irq)
<1> DEFINE d == Uncounted(c)
           w == WbWires(m)
<1>1. /\ d.priv = c.priv /\ d.reg[CSR_MSTATUS] = c.reg[CSR_MSTATUS]
      /\ d.reg[CSR_MIDELEG] = c.reg[CSR_MIDELEG] /\ d.reg[CSR_MEDELEG] = c.reg[CSR_MEDELEG]
      /\ d.reg[CSR_MTVEC] = c.reg[CSR_MTVEC] /\ d.reg[CSR_STVEC] = c.reg[CSR_STVEC]
      /\ d.reg[CSR_MEPC] = c.reg[CSR_MEPC] /\ d.reg[CSR_SEPC] = c.reg[CSR_SEPC]
  BY UncountedFacts, NoCounter DEF Alike
<1> HIDE DEF d, w
<1>2. HasInterrupt(d, irq) = HasInterrupt(c, irq)
  BY <1>1 DEF HasInterrupt
<1>3. /\ CauseIndex(w, d, irq) = CauseIndex(w, c, irq)
      /\ trap_trigger(w, d, irq) = trap_trigger(w, c, irq)
  BY <1>1, <1>2 DEF CauseIndex, trap_trigger
<1>4. trap_to_s_mode(w, d, irq) = trap_to_s_mode(w, c, irq)
  BY <1>1, <1>2, <1>3 DEF trap_to_s_mode
<1>5. TrapCommand(w, d, irq) = TrapCommand(w, c, irq)
  BY <1>1, <1>2, <1>3, <1>4 DEF TrapCommand
<1>6. TrapVector(w, d, irq) = TrapVector(w, c, irq)
  BY <1>1, <1>2, <1>3, <1>4 DEF TrapVector
<1>7. trap_next_pc(w, d, irq) = trap_next_pc(w, c, irq)
  BY <1>1, <1>5, <1>6 DEF trap_next_pc
<1> QED
  BY <1>5, <1>7 DEF WbCommand, WbNextPc, d, w

\* A register written from anything but a counter gets the same value.
LEMMA WriteBackAlike ==
  ASSUME NEW c \in CsrFileType, NEW m, CtlSound(m.ctl), NEW r,
         WriteBackEnable(m) /\ m.ctl.rd # 0 /\ m.ctl.is_csr =>
           canonical_addr(m.imm % 4096) \notin Counters
  PROVE  RegWritten(r, m, Uncounted(c)) = RegWritten(r, m, c)
<1> DEFINE d  == Uncounted(c)
           at == m.imm % 4096
<1>1. Alike(d.reg, c.reg)
  BY UncountedFacts
<1> HIDE DEF d, at
<1>2. compose_fcsr(d.reg) = compose_fcsr(c.reg)
  BY <1>1, NoCounter DEF Alike, compose_fcsr
<1>3. canonical_addr(at) \notin Counters => read_csr(d.reg, at) = read_csr(c.reg, at)
  BY <1>1, <1>2 DEF Alike, read_csr
<1>4. CASE WriteBackEnable(m) /\ m.ctl.rd # 0
  <2>1. WriteBackData(m, d) = WriteBackData(m, c)
    <3>1. CASE m.ctl.is_csr
      <4>1. read_csr(d.reg, at) = read_csr(c.reg, at)
        BY <1>3, <1>4, <3>1 DEF at
      <4>2. \A x : WriteBackData(m, x) = ToWord(read_csr(x.reg, at))
        BY <3>1 DEF WriteBackData, at
      <4> QED
        BY <4>1, <4>2
    <3>2. CASE ~m.ctl.is_csr
      BY <1>4, <3>2 DEF WriteBackData, WriteBackEnable, CtlSound
    <3> QED
      BY <3>1, <3>2
  <2> QED
    BY <1>4, <2>1 DEF RegWritten, d
<1>5. CASE ~(WriteBackEnable(m) /\ m.ctl.rd # 0)
  BY <1>5 DEF RegWritten
<1> QED
  BY <1>4, <1>5
-----------------------------------------------------------------------------
(* The two kinds of edge *)

\* What every edge does behind EX.
LEMMA EdgeBack ==
  ASSUME Clock({})
  PROVE  /\ regs' = Committed
         /\ csr' = WbCsr(mem_wb, csr, {})
         /\ dmem' = MemWritten(dmem, ex_mem.ctl, ex_mem.alu, ex_mem.rs2_data)
         /\ imem' = imem
         /\ ex_mem' = [pc |-> id_ex.pc, instr |-> id_ex.instr,
                       alu |-> AluResult(id_ex.ctl, id_ex.pc, ExRs1, ExRs2, id_ex.imm),
                       rs1 |-> id_ex.rs1, rs1_data |-> ExRs1, rs2_data |-> ExRs2,
                       imm |-> id_ex.imm, ctl |-> id_ex.ctl, v |-> id_ex.v /\ ~Flushes]
         /\ mem_wb' = MemWbNext(Flushes)
<1>1. Flushes \in BOOLEAN
  BY FlushBoolean DEF Flushes
<1>2. ~Control(Flushes).ex_mem_stall
  BY <1>1, ControlSignals
<1>3. /\ regs' = Committed
      /\ csr' = WbCsr(mem_wb, csr, {})
      /\ dmem' = MemWritten(dmem, ex_mem.ctl, ex_mem.alu, ex_mem.rs2_data)
      /\ imem' = imem
      /\ ex_mem' = ExMemNext(Control(Flushes), Flushes)
      /\ mem_wb' = MemWbNext(Flushes)
  BY DEF Clock, Committed, WbCsr, Flushes
<1> QED
  BY <1>2, <1>3 DEF ExMemNext

\* EX/MEM keeps the control word, and what a flush finds in EX is discarded.
LEMMA EdgeExMem ==
  ASSUME Clock({})
  PROVE  /\ ex_mem'.ctl = id_ex.ctl /\ ex_mem'.imm = id_ex.imm
         /\ ex_mem'.v <=> id_ex.v /\ ~Flushes
<1>1. ex_mem' = ExMemNext(Control(Flushes), Flushes) /\ Flushes \in BOOLEAN
  BY FlushBoolean DEF Clock, Flushes
<1> QED
  BY <1>1, ExMemMoves

\* A flushed MEM/WB keeps three fields of the control word and does nothing.
LEMMA FlushedIdle ==
  /\ MemWbFlushed.ctl.rd = mem_wb.ctl.rd
  /\ MemWbFlushed.ctl.csr_op = mem_wb.ctl.csr_op
  /\ MemWbFlushed.imm = mem_wb.imm
  /\ Inert(MemWbFlushed.ctl) /\ ~HasTrap(MemWbFlushed) /\ ~MemWbFlushed.v
<1> DEFINE ctl == [IdleCtl EXCEPT !.rd = mem_wb.ctl.rd, !.wb_sel = mem_wb.ctl.wb_sel,
                                  !.csr_op = mem_wb.ctl.csr_op]
<1>1. /\ ctl.rd = mem_wb.ctl.rd /\ ctl.csr_op = mem_wb.ctl.csr_op
      /\ Inert(ctl) /\ ~ctl.illegal /\ ~ctl.ecall /\ ~ctl.ebreak
  BY DEF IdleCtl, Inert
<1>2. /\ MemWbFlushed.ctl = ctl /\ MemWbFlushed.imm = mem_wb.imm
      /\ ~MemWbFlushed.load_fault /\ ~MemWbFlushed.store_fault /\ ~MemWbFlushed.v
  BY DEF MemWbFlushed
<1> HIDE DEF ctl
<1> QED
  BY <1>1, <1>2 DEF HasTrap

\* An edge with a flush empties the four latches and fetches from the trap
\* vector or the saved PC.
LEMMA EdgeFlush ==
  ASSUME Clock({}), Flushes
  PROVE  /\ pc' = WbNextPc(mem_wb, csr, {})
         /\ if_id' = IfIdBubble
         /\ id_ex'.ctl = IdleCtl /\ ~id_ex'.v /\ id_ex'.imm = id_ex.imm
         /\ id_ex'.rs1 = id_ex.rs1 /\ id_ex'.rs2 = id_ex.rs2
         /\ ~ex_mem'.v
         /\ mem_wb' = MemWbFlushed
<1>1. Control(Flushes).if_id_flush /\ Control(Flushes).id_ex_flush
  BY DEF Control, HazardControl
<1>2. /\ if_id' = IfIdNext(Control(Flushes)) /\ id_ex' = IdExNext(Control(Flushes))
      /\ mem_wb' = MemWbNext(Flushes)
  BY DEF Clock, Flushes
<1>3. pc' = WbNextPc(mem_wb, csr, {})
  BY DEF Clock, Flushes, NextFetchPc
<1>4. ~ex_mem'.v
  BY EdgeExMem
<1> QED
  BY <1>1, <1>2, <1>3, <1>4 DEF IfIdNext, IdExNext, MemWbNext

\* ID/EX emptied by the load-use stall or a taken branch.
Emptied ==
  /\ id_ex'.ctl = IdleCtl /\ ~id_ex'.v /\ id_ex'.imm = id_ex.imm
  /\ id_ex'.rs1 = id_ex.rs1 /\ id_ex'.rs2 = id_ex.rs2

\* Without a flush the front end is redirected, held or moves on.
Redirected ==
  /\ ExBranchTaken /\ if_id' = IfIdBubble /\ Emptied
  /\ pc' = BranchTarget(id_ex.ctl, id_ex.pc, ExRs1, ExRs2, id_ex.imm)

Held == ~ExBranchTaken /\ LoadUse /\ if_id' = if_id /\ Emptied /\ pc' = pc

MovesOn ==
  /\ ~ExBranchTaken /\ ~LoadUse
  /\ pc' = Wrap(pc + 4)
  /\ if_id' = [pc |-> pc, instr |-> Fetch(imem, pc), v |-> TRUE]
  /\ id_ex' = [pc |-> if_id.pc, instr |-> if_id.instr.word, rs1 |-> Rs1Addr(if_id.instr),
               rs2 |-> if_id.instr.rs2,
               rs1_data |-> RegReadBypass(regs, Rs1Addr(if_id.instr), mem_wb, csr),
               rs2_data |-> RegReadBypass(regs, if_id.instr.rs2, mem_wb, csr),
               imm |-> DecodeImm(if_id.instr), ctl |-> Decode(if_id.instr, csr.priv),
               v |-> if_id.v]

\* An edge without a trap does one of three things to the front end.
LEMMA EdgeFront ==
  ASSUME Clock({}), ~Flushes
  PROVE  Redirected \/ Held \/ MovesOn
<1> DEFINE h == Control(Flushes)
<1>1. /\ if_id' = IfIdNext(h) /\ id_ex' = IdExNext(h)
      /\ pc' = NextFetchPc(pc, h.if_stall, Flushes, WbNextPc(mem_wb, csr, {}), ExBranchTaken,
                           BranchTarget(id_ex.ctl, id_ex.pc, ExRs1, ExRs2, id_ex.imm),
                           Wrap(pc + 4))
  BY DEF Clock, Flushes
<1>2. CASE ExBranchTaken
  <2>1. h.if_id_flush /\ h.id_ex_flush /\ ~h.if_stall
    BY <1>2 DEF Control, HazardControl
  <2> HIDE DEF h
  <2> QED
    BY <1>1, <1>2, <2>1 DEF IfIdNext, IdExNext, NextFetchPc, Redirected, Emptied
<1>3. CASE ~ExBranchTaken /\ LoadUse
  <2>1. ~h.if_id_flush /\ h.if_id_stall /\ h.id_ex_flush /\ h.if_stall
    BY <1>3 DEF Control, HazardControl
  <2> HIDE DEF h
  <2> QED
    BY <1>1, <1>3, <2>1 DEF IfIdNext, IdExNext, NextFetchPc, Held, Emptied
<1>4. CASE ~ExBranchTaken /\ ~LoadUse
  <2>1. ~h.if_id_flush /\ ~h.if_id_stall /\ ~h.id_ex_flush /\ ~h.id_ex_stall /\ ~h.if_stall
    BY <1>4 DEF Control, HazardControl
  <2> HIDE DEF h
  <2> QED
    BY <1>1, <1>4, <2>1 DEF IfIdNext, IdExNext, NextFetchPc, MovesOn
<1> QED
  BY <1>2, <1>3, <1>4

\* The mode does not change without a flush.
LEMMA ModeKept ==
  ASSUME ShapeInv, Clock({}), ~Flushes
  PROVE  csr'.priv = csr.priv
<1>1. "priv" \in DOMAIN csr
  BY DEF ShapeInv, CsrFileType
<1> QED
  BY <1>1, EdgeBack, ModeChangesFlush DEF WbCsr, Flushes
-----------------------------------------------------------------------------
(* An edge preserves the invariant *)

\* Types: the CSR file stays typed.
LEMMA ShapeStep ==
  ASSUME ShapeInv, Clock({})
  PROVE  ShapeInv'
<1>1. csr' \in CsrFileType
  <2>1. CsrRequest(mem_wb) \in RequestType /\ WbCommand(mem_wb, csr, {}) \in CommandType
    BY CommandTyped, RequestTyped DEF ShapeInv
  <2> QED
    BY <2>1, EdgeBack, CsrNextType DEF ShapeInv, WbCsr
<1>2. DOMAIN regs' = Reg
  BY EdgeBack DEF ShapeInv, Committed, RegWritten
<1>3. imem' = imem
  BY EdgeBack
<1>4. /\ CtlOk(ex_mem'.ctl) /\ ex_mem'.imm \in Int
  BY EdgeExMem DEF ShapeInv, CtlOk
<1>5. CtlOk(IdleCtl)
  BY RegAssumption DEF CtlOk, IdleCtl, CsrOp
<1>6. CtlOk(mem_wb'.ctl) /\ mem_wb'.imm \in Int
  <2>1. CASE Flushes
    BY <2>1, EdgeFlush, FlushedIdle DEF ShapeInv, CtlOk
  <2>2. CASE ~Flushes
    BY <2>2, EdgeBack DEF MemWbNext, ShapeInv, CtlOk
  <2> QED
    BY <2>1, <2>2
<1>7. InstrOk(NOP)
  BY RegAssumption DEF InstrOk, NOP
<1>8. /\ InstrOk(if_id'.instr)
      /\ id_ex'.rs1 \in Reg /\ id_ex'.rs2 \in Reg
      /\ CtlOk(id_ex'.ctl) /\ id_ex'.imm \in Int
  <2>1. CASE Flushes
    BY <1>5, <1>7, <2>1, EdgeFlush DEF ShapeInv, IfIdBubble
  <2>2. CASE Redirected
    BY <1>5, <1>7, <2>2 DEF Redirected, Emptied, ShapeInv, IfIdBubble
  <2>3. CASE Held
    BY <1>5, <2>3 DEF Held, Emptied, ShapeInv
  <2>4. CASE MovesOn
    <3>1. InstrOk(Fetch(imem, pc))
      BY FetchOk DEF ShapeInv
    <3>2. /\ CtlOk(Decode(if_id.instr, csr.priv)) /\ Rs1Addr(if_id.instr) \in Reg
          /\ DecodeImm(if_id.instr) \in Int /\ if_id.instr.rs2 \in Reg
      BY DecodeOk DEF ShapeInv, InstrOk
    <3> QED
      BY <2>4, <3>1, <3>2 DEF MovesOn
  <2> QED
    BY <2>1, <2>2, <2>3, <2>4, EdgeFront
<1> QED
  BY <1>1, <1>2, <1>3, <1>4, <1>6, <1>8 DEF ShapeInv, InstrOk, CtlOk

\* Discarded instructions: the one that EX/MEM fails to drop is inert by rule 1.
LEMMA DeadStep ==
  ASSUME DeadInv, Clock({}), ShadowClear({})
  PROVE  DeadInv'
<1>1. CASE Flushes
  <2>1. if_id'.instr = NOP
    BY <1>1, EdgeFlush DEF IfIdBubble
  <2>2. Inert(id_ex'.ctl) /\ ~id_ex'.ctl.is_branch /\ ~id_ex'.ctl.is_jump
    BY <1>1, EdgeFlush, BubbleInert
  <2>3. Inert(ex_mem'.ctl)
    BY <1>1, EdgeExMem DEF ShadowClear, Flushes
  <2>4. Inert(mem_wb'.ctl) /\ ~HasTrap(mem_wb')
    BY <1>1, EdgeFlush, FlushedIdle
  <2> QED
    BY <2>1, <2>2, <2>3, <2>4 DEF DeadInv, FlushedNeverCommits, Inert, HasTrap
<1>2. CASE ~Flushes
  <2>1. ~if_id'.v => if_id'.instr = NOP
    BY <1>2, EdgeFront DEF Redirected, Held, MovesOn, IfIdBubble, DeadInv
  <2>2. ~id_ex'.v => Inert(id_ex'.ctl) /\ ~id_ex'.ctl.is_branch /\ ~id_ex'.ctl.is_jump
    <3>1. CASE Redirected \/ Held
      BY <3>1, BubbleInert DEF Redirected, Held, Emptied
    <3>2. CASE MovesOn
      BY <3>2, BubbleInert DEF MovesOn, DeadInv
    <3> QED
      BY <1>2, <3>1, <3>2, EdgeFront
  <2>3. ~ex_mem'.v => Inert(ex_mem'.ctl)
    BY <1>2, EdgeExMem DEF DeadInv
  <2>4. ~mem_wb'.v => Inert(mem_wb'.ctl) /\ ~HasTrap(mem_wb')
    <3>1. /\ mem_wb'.v = ex_mem.v /\ mem_wb'.ctl = ex_mem.ctl
          /\ mem_wb'.load_fault = LoadMisaligned(ex_mem.ctl, ex_mem.alu)
          /\ mem_wb'.store_fault = StoreMisaligned(ex_mem.ctl, ex_mem.alu)
      BY <1>2, EdgeBack DEF MemWbNext
    <3> QED
      BY <3>1 DEF DeadInv, Inert, HasTrap, LoadMisaligned, StoreMisaligned
  <2> QED
    BY <2>1, <2>2, <2>3, <2>4 DEF DeadInv, FlushedNeverCommits, Inert, HasTrap
<1> QED
  BY <1>1, <1>2

\* ID: a fetch, a bubble or a hold.
LEMMA IfIdStep ==
  ASSUME IfIdInv, Clock({})
  PROVE  IfIdInv'
<1>1. imem' = imem
  BY EdgeBack
<1>2. CASE Flushes
  BY <1>2, EdgeFlush DEF IfIdInv, IfIdBubble
<1>3. CASE Redirected
  BY <1>3 DEF Redirected, IfIdInv, IfIdBubble
<1>4. CASE Held
  BY <1>1, <1>4 DEF Held, IfIdInv
<1>5. CASE MovesOn
  BY <1>1, <1>5 DEF MovesOn, IfIdInv
<1> QED
  BY <1>2, <1>3, <1>4, <1>5, EdgeFront

\* What is live in EX after an edge was live in ID before it.
LEMMA IdExStep ==
  ASSUME ShapeInv, IfIdInv, Clock({})
  PROVE  IdExInv'
<1> SUFFICES ASSUME id_ex'.v PROVE IdExInv'
  BY DEF IdExInv
<1>1. ~Flushes
  BY EdgeFlush
<1>2. MovesOn /\ if_id.v
  BY <1>1, EdgeFront DEF Redirected, Held, Emptied, MovesOn
<1>3. imem' = imem /\ regs' = Committed /\ csr'.priv = csr.priv
  BY <1>1, EdgeBack, ModeKept
<1>4. if_id.instr = Fetch(imem, if_id.pc) /\ pc = Wrap(if_id.pc + 4)
  BY <1>2 DEF IfIdInv
<1>5. if_id'.v /\ if_id'.pc = pc /\ id_ex'.pc = if_id.pc
  BY <1>2 DEF MovesOn
<1>6. /\ id_ex'.instr = if_id.instr.word
      /\ id_ex'.rs1 = Rs1Addr(if_id.instr)
      /\ id_ex'.rs2 = if_id.instr.rs2
      /\ id_ex'.imm = DecodeImm(if_id.instr)
      /\ id_ex'.ctl = Decode(if_id.instr, csr.priv)
      /\ id_ex'.rs1_data = RegReadBypass(regs, Rs1Addr(if_id.instr), mem_wb, csr)
      /\ id_ex'.rs2_data = RegReadBypass(regs, if_id.instr.rs2, mem_wb, csr)
  BY <1>2 DEF MovesOn
<1>7. Rs1Addr(if_id.instr) \in Reg /\ if_id.instr.rs2 \in Reg
  BY DecodeOk DEF ShapeInv, InstrOk
<1>8. /\ id_ex'.rs1_data = RegRead(regs', id_ex'.rs1)
      /\ id_ex'.rs2_data = RegRead(regs', id_ex'.rs2)
  BY <1>3, <1>6, <1>7, BypassReads
<1>9. Carries(id_ex, Fetch(imem, id_ex.pc))'
  BY <1>3, <1>4, <1>5, <1>6 DEF Carries
<1> QED
  BY <1>3, <1>4, <1>5, <1>6, <1>8, <1>9 DEF IdExInv

\* The forwarding muxes deliver the registers as they are once the two
\* instructions ahead have written, if neither of them traps.
LEMMA OperandStep ==
  ASSUME ShapeInv, Clock({}), ~Flushes, ~Flushes', NEW rs \in Reg,
         ForwardSelOf(rs) = "mem" => ~ex_mem.ctl.is_csr /\ ex_mem.ctl.wb_sel = "alu"
  PROVE  Forwarded(rs, RegRead(regs, rs)) = RegRead(Committed', rs)
<1>1. mem_wb'.ctl = ex_mem.ctl /\ mem_wb'.alu = ex_mem.alu
  BY EdgeBack DEF MemWbNext
<1>2. WriteBackEnable(mem_wb') <=> ex_mem.ctl.reg_write_en
  BY <1>1, NoFlushWrites DEF Flushes
<1>3. regs' = Committed /\ DOMAIN regs' = Reg
  BY EdgeBack DEF Committed, RegWritten, ShapeInv
<1>4. RegRead(Committed, rs) =
        IF WriteBackEnable(mem_wb) /\ mem_wb.ctl.rd # 0 /\ mem_wb.ctl.rd = rs
        THEN WriteBackData(mem_wb, csr) ELSE RegRead(regs, rs)
  BY ReadAfterWrite DEF ShapeInv, CtlOk, Committed
<1>5. RegRead(RegWritten(regs', mem_wb', csr'), rs) =
        IF WriteBackEnable(mem_wb') /\ mem_wb'.ctl.rd # 0 /\ mem_wb'.ctl.rd = rs
        THEN WriteBackData(mem_wb', csr') ELSE RegRead(regs', rs)
  BY <1>1, <1>3, ReadAfterWrite DEF ShapeInv, CtlOk
<1>6. CASE ex_mem.ctl.reg_write_en /\ ex_mem.ctl.rd # 0 /\ ex_mem.ctl.rd = rs
  <2>1. ForwardSelOf(rs) = "mem"
    BY <1>6 DEF ForwardSelOf, ForwardSel
  <2>2. WriteBackData(mem_wb', csr') = ex_mem.alu
    BY <1>1, <2>1 DEF WriteBackData
  <2> QED
    BY <1>1, <1>2, <1>5, <1>6, <2>1, <2>2 DEF Forwarded, Committed
<1>7. CASE ~(ex_mem.ctl.reg_write_en /\ ex_mem.ctl.rd # 0 /\ ex_mem.ctl.rd = rs)
  <2>1. RegRead(RegWritten(regs', mem_wb', csr'), rs) = RegRead(Committed, rs)
    BY <1>1, <1>2, <1>3, <1>5, <1>7
  <2>2. ForwardSelOf(rs) =
          IF WriteBackEnable(mem_wb) /\ mem_wb.ctl.rd # 0 /\ mem_wb.ctl.rd = rs
          THEN "wb" ELSE "reg"
    BY <1>7 DEF ForwardSelOf, ForwardSel, WbEnable
  <2> QED
    BY <1>4, <2>1, <2>2 DEF Forwarded, WbData, Committed
<1> QED
  BY <1>6, <1>7

\* MEM: the forwarding muxes gave EX the registers as WB leaves them.
LEMMA ExMemStep ==
  ASSUME ShapeInv, ForwardInv, IdExInv, Clock({}), NoCsrUse
  PROVE  ExMemInv'
<1> SUFFICES ASSUME ex_mem'.v PROVE ExMemInv'
  BY DEF ExMemInv
<1>1. ~Flushes /\ id_ex.v
  BY EdgeExMem
<1>2. imem' = imem /\ csr'.priv = csr.priv
  BY <1>1, EdgeBack, ModeKept
<1>3. /\ ex_mem'.pc = id_ex.pc /\ ex_mem'.instr = id_ex.instr /\ ex_mem'.rs1 = id_ex.rs1
      /\ ex_mem'.imm = id_ex.imm /\ ex_mem'.ctl = id_ex.ctl
      /\ ex_mem'.rs1_data = ExRs1 /\ ex_mem'.rs2_data = ExRs2
      /\ ex_mem'.alu = AluResult(id_ex.ctl, id_ex.pc, ExRs1, ExRs2, id_ex.imm)
  BY EdgeBack
<1>4. /\ Carries(id_ex, Fetch(imem, id_ex.pc))
      /\ id_ex.rs2 = Fetch(imem, id_ex.pc).rs2
      /\ id_ex.rs1_data = RegRead(regs, id_ex.rs1)
      /\ id_ex.rs2_data = RegRead(regs, id_ex.rs2)
      /\ if_id.v /\ if_id.pc = Wrap(id_ex.pc + 4)
  BY <1>1 DEF IdExInv
<1>5. Carries(ex_mem, Fetch(imem, ex_mem.pc))'
  BY <1>2, <1>3, <1>4 DEF Carries
<1>6. FrontPc' = Resolved'
  <2>1. Resolved' = IF ExBranchTaken
                    THEN BranchTarget(id_ex.ctl, id_ex.pc, ExRs1, ExRs2, id_ex.imm)
                    ELSE Wrap(id_ex.pc + 4)
    BY <1>3 DEF Resolved, ExBranchTaken
  <2>2. CASE Redirected
    BY <2>1, <2>2 DEF Redirected, Emptied, IfIdBubble, FrontPc
  <2>3. CASE Held
    BY <1>4, <2>1, <2>3 DEF Held, Emptied, FrontPc
  <2>4. CASE MovesOn
    BY <1>4, <2>1, <2>4 DEF MovesOn, FrontPc
  <2> QED
    BY <1>1, <2>2, <2>3, <2>4, EdgeFront
<1>7. ASSUME ~Flushes'
      PROVE  /\ UsesRs1(ex_mem'.ctl) => ex_mem'.rs1_data = RegRead(Committed', ex_mem'.rs1)
             /\ UsesRs2(ex_mem'.ctl) =>
                  ex_mem'.rs2_data = RegRead(Committed', Fetch(imem', ex_mem'.pc).rs2)
  <2>1. ForwardsFromMem => ~ex_mem.ctl.is_csr /\ ex_mem.ctl.wb_sel = "alu"
    BY ForwardInvSuffices DEF NoCsrUse, MemForwardIsResult
  <2>2. id_ex.rs1 \in Reg /\ id_ex.rs2 \in Reg
    BY DEF ShapeInv
  <2>3. UsesRs1(id_ex.ctl) => ExRs1 = RegRead(Committed', id_ex.rs1)
    BY <1>1, <1>4, <1>7, <2>1, <2>2, OperandStep DEF ForwardsFromMem, ExRs1
  <2>4. UsesRs2(id_ex.ctl) => ExRs2 = RegRead(Committed', id_ex.rs2)
    BY <1>1, <1>4, <1>7, <2>1, <2>2, OperandStep DEF ForwardsFromMem, ExRs2
  <2> QED
    BY <1>2, <1>3, <1>4, <2>3, <2>4
<1> QED
  BY <1>3, <1>5, <1>6, <1>7 DEF ExMemInv

\* Without a flush the oldest instruction before MEM becomes the oldest
\* before WB, and that one the architectural PC.
LEMMA PcAdvances ==
  ASSUME DeadInv, Clock({}), ~Flushes
  PROVE  MidPc' = FrontPc /\ ArchPc' = MidPc
<1>1. mem_wb'.v = ex_mem.v /\ mem_wb'.pc = ex_mem.pc
  BY EdgeBack DEF MemWbNext
<1>2. (ex_mem'.v <=> id_ex.v) /\ ex_mem'.pc = id_ex.pc
  BY EdgeBack, EdgeExMem
<1>3. MidPc' = FrontPc
  <2>1. CASE id_ex.v
    BY <1>2, <2>1 DEF MidPc, FrontPc
  <2>2. CASE ~id_ex.v
    <3>1. ~ExBranchTaken /\ ~LoadUse
      BY <2>2 DEF DeadInv, Inert, ExBranchTaken, BranchTaken, LoadUse, LoadUseStall
    <3>2. MovesOn
      BY <3>1, EdgeFront DEF Redirected, Held
    <3>3. (id_ex'.v <=> if_id.v) /\ id_ex'.pc = if_id.pc /\ if_id'.v /\ if_id'.pc = pc
      BY <3>2 DEF MovesOn
    <3> QED
      BY <1>2, <2>2, <3>3 DEF MidPc, FrontPc
  <2> QED
    BY <2>1, <2>2
<1>4. ArchPc' = IF mem_wb'.v THEN mem_wb'.pc ELSE MidPc'
  BY DEF ArchPc, MidPc, FrontPc
<1> QED
  BY <1>1, <1>3, <1>4 DEF MidPc

\* WB: MEM added memory data and faults as the instruction alone would have them.
LEMMA MemWbStep ==
  ASSUME ShapeInv, ForwardInv, DeadInv, ExMemInv, Clock({})
  PROVE  MemWbInv'
<1> SUFFICES ASSUME mem_wb'.v PROVE MemWbInv'
  BY DEF MemWbInv
<1>1. ~Flushes
  BY EdgeFlush, FlushedIdle
<1>2. /\ mem_wb'.v = ex_mem.v /\ mem_wb'.pc = ex_mem.pc /\ mem_wb'.instr = ex_mem.instr
      /\ mem_wb'.alu = ex_mem.alu /\ mem_wb'.ctl = ex_mem.ctl /\ mem_wb'.imm = ex_mem.imm
      /\ mem_wb'.rs1 = ex_mem.rs1 /\ mem_wb'.rs1_data = ex_mem.rs1_data
      /\ mem_wb'.mdata = MemRead(dmem, ex_mem.ctl, ex_mem.alu)
      /\ mem_wb'.load_fault = LoadMisaligned(ex_mem.ctl, ex_mem.alu)
      /\ mem_wb'.store_fault = StoreMisaligned(ex_mem.ctl, ex_mem.alu)
      /\ mem_wb'.fault_addr = FaultAddr(ex_mem.ctl, ex_mem.alu)
      /\ mem_wb'.before = dmem
  <2>1. mem_wb' = MemWbNext(FALSE)
    BY <1>1, EdgeBack DEF MemWbNext
  <2>2. /\ mem_wb'.v = ex_mem.v
        /\ mem_wb'.load_fault = LoadMisaligned(ex_mem.ctl, ex_mem.alu)
        /\ mem_wb'.store_fault = StoreMisaligned(ex_mem.ctl, ex_mem.alu)
    BY <2>1 DEF MemWbNext
  <2>3. /\ mem_wb'.pc = ex_mem.pc /\ mem_wb'.instr = ex_mem.instr
        /\ mem_wb'.alu = ex_mem.alu /\ mem_wb'.ctl = ex_mem.ctl /\ mem_wb'.imm = ex_mem.imm
        /\ mem_wb'.rs1 = ex_mem.rs1 /\ mem_wb'.rs1_data = ex_mem.rs1_data
        /\ mem_wb'.mdata = MemRead(dmem, ex_mem.ctl, ex_mem.alu)
        /\ mem_wb'.fault_addr = FaultAddr(ex_mem.ctl, ex_mem.alu)
        /\ mem_wb'.before = dmem
    BY <2>1 DEF MemWbNext
  <2> QED
    BY <2>2, <2>3
<1>3. /\ imem' = imem /\ regs' = Committed /\ csr'.priv = csr.priv
      /\ dmem' = MemWritten(dmem, ex_mem.ctl, ex_mem.alu, ex_mem.rs2_data)
  BY <1>1, EdgeBack, ModeKept
<1> DEFINE i   == Fetch(imem, ex_mem.pc)
           ctl == ex_mem.ctl
           a   == RegRead(Committed, Rs1Addr(i))
           b   == RegRead(Committed, i.rs2)
           alu == AluResult(ctl, ex_mem.pc, a, b, ex_mem.imm)
<1>4. /\ ex_mem.instr = i.word /\ ex_mem.rs1 = Rs1Addr(i) /\ ex_mem.imm = DecodeImm(i)
      /\ ctl = Decode(i, csr.priv)
      /\ ex_mem.alu = AluResult(ctl, ex_mem.pc, ex_mem.rs1_data, ex_mem.rs2_data, ex_mem.imm)
      /\ FrontPc = Resolved
      /\ UsesRs1(ctl) => ex_mem.rs1_data = a
      /\ UsesRs2(ctl) => ex_mem.rs2_data = b
  BY <1>1, <1>2 DEF ExMemInv, Carries
<1>5. /\ Alone'.pc = ex_mem.pc /\ Alone'.instr = i.word /\ Alone'.ctl = ctl
      /\ Alone'.alu = alu /\ Alone'.rs1 = Rs1Addr(i) /\ Alone'.rs1_data = a
      /\ Alone'.imm = ex_mem.imm /\ Alone'.mdata = MemRead(dmem, ctl, alu)
      /\ Alone'.load_fault = LoadMisaligned(ctl, alu)
      /\ Alone'.store_fault = StoreMisaligned(ctl, alu)
      /\ Alone'.fault_addr = FaultAddr(ctl, alu)
      /\ Operand' = b
  <2>1. Alone' = Executed(i, ex_mem.pc, Committed, csr', dmem) /\ Operand' = b
    BY <1>2, <1>3 DEF Alone, Operand
  <2>2. Decode(i, csr'.priv) = ctl /\ DecodeImm(i) = ex_mem.imm
    BY <1>3, <1>4
  <2>3. Executed(i, ex_mem.pc, Committed, csr', dmem) =
          [pc |-> ex_mem.pc, instr |-> i.word, ctl |-> ctl, alu |-> alu,
           mdata |-> MemRead(dmem, ctl, alu), rs1 |-> Rs1Addr(i), rs1_data |-> a,
           imm |-> ex_mem.imm, load_fault |-> LoadMisaligned(ctl, alu),
           store_fault |-> StoreMisaligned(ctl, alu), fault_addr |-> FaultAddr(ctl, alu)]
    BY <2>2 DEF Executed
  <2> HIDE DEF i, ctl, a, b, alu
  <2> QED
    BY <2>1, <2>3
<1> HIDE DEF i, ctl, a, b, alu
<1>6. ctl.is_load \/ ctl.is_store \/ (ctl.reg_write_en /\ ~ctl.is_csr) => ex_mem.alu = alu
  BY <1>4, AluFromUsed DEF alu
<1>7. SameEffect(mem_wb', Alone')
  <2>1. /\ LoadMisaligned(ctl, ex_mem.alu) = LoadMisaligned(ctl, alu)
        /\ StoreMisaligned(ctl, ex_mem.alu) = StoreMisaligned(ctl, alu)
        /\ FaultAddr(ctl, ex_mem.alu) = FaultAddr(ctl, alu)
    BY <1>6 DEF LoadMisaligned, StoreMisaligned, FaultAddr
  <2>2. ctl.is_csr /\ ~IsImmForm(ctl.csr_op) => ex_mem.rs1_data = a
    BY <1>4 DEF UsesRs1
  <2> QED
    BY <1>2, <1>4, <1>5, <1>6, <2>1, <2>2 DEF SameEffect, ctl
<1>8. dmem' = MemWritten(dmem, ctl, alu, b)
  <2>1. CASE ctl.is_store
    BY <1>3, <1>4, <1>6, <2>1 DEF UsesRs2, ctl
  <2>2. CASE ~ctl.is_store
    BY <1>3, <2>2 DEF MemWritten, dmem_write_req, ctl
  <2> QED
    BY <2>1, <2>2
<1>9. ASSUME ~Flushes'
      PROVE  MidPc' = NextPc(Alone', Operand', csr')
  <2>1. ~trap_flush_req(WbCommand(Alone', csr', {}))
    <3>1. CtlSound(mem_wb'.ctl)
      BY <1>2 DEF ForwardInv
    <3> QED
      BY <1>7, <1>9, <3>1, SameEffectWb DEF Flushes
  <2>2. NextPc(Alone', Operand', csr') =
          IF BranchTaken(ctl, a, b) THEN BranchTarget(ctl, ex_mem.pc, a, b, ex_mem.imm)
          ELSE Wrap(ex_mem.pc + 4)
    BY <1>5, <2>1 DEF NextPc
  <2>3. /\ BranchTaken(ctl, ex_mem.rs1_data, ex_mem.rs2_data) <=> BranchTaken(ctl, a, b)
        /\ BranchTaken(ctl, ex_mem.rs1_data, ex_mem.rs2_data) =>
             BranchTarget(ctl, ex_mem.pc, ex_mem.rs1_data, ex_mem.rs2_data, ex_mem.imm) =
             BranchTarget(ctl, ex_mem.pc, a, b, ex_mem.imm)
    BY <1>4, BranchFromUsed
  <2>4. MidPc' = Resolved
    BY <1>1, <1>4, PcAdvances
  <2> QED
    BY <2>2, <2>3, <2>4 DEF Resolved, ctl
<1> QED
  BY <1>2, <1>5, <1>7, <1>8, <1>9 DEF MemWbInv

\* A disciplined edge preserves the invariant, part by part.
LEMMA PipeStep ==
  ASSUME PipeInv, DisciplinedTick
  PROVE  PipeInv'
<1>1. Clock({}) /\ NoCsrUse /\ ShadowClear({})
  BY DEF DisciplinedTick
<1>2. ShapeInv' /\ ForwardInv' /\ DeadInv' /\ IfIdInv' /\ IdExInv'
  BY <1>1, ShapeStep, ForwardInvClock, DeadStep, IfIdStep, IdExStep DEF PipeInv
<1>3. ExMemInv' /\ MemWbInv'
  BY <1>1, ExMemStep, MemWbStep DEF PipeInv
<1> QED
  BY <1>2, <1>3 DEF PipeInv

\* Nothing is live after reset.
LEMMA DeadInit == Init => DeadInv
<1> SUFFICES ASSUME Init PROVE DeadInv
  OBVIOUS
<1>1. /\ if_id.instr = NOP /\ id_ex.ctl = IdleCtl /\ ex_mem.ctl = IdleCtl
      /\ mem_wb.ctl = IdleCtl /\ ~mem_wb.load_fault /\ ~mem_wb.store_fault
  BY DEF Init, IfIdBubble, IdExReset, ExMemReset, MemWbReset
<1>2. ~IdleCtl.illegal /\ ~IdleCtl.ecall /\ ~IdleCtl.ebreak
  BY DEF IdleCtl
<1> QED
  BY <1>1, <1>2, BubbleInert DEF DeadInv, FlushedNeverCommits, HasTrap

\* Software that keeps the shadow of a trap or return clear gets what
\* trap_ctrl.sv promises: no instruction a flush discards takes effect in WB.
\* (In general the core does not keep that promise.)
THEOREM ShadowContractSuffices == DisciplinedSpec => []FlushedNeverCommits
<1>1. DeadInv /\ [DisciplinedTick]_vars => DeadInv'
  <2> SUFFICES ASSUME DeadInv, [DisciplinedTick]_vars PROVE DeadInv'
    OBVIOUS
  <2>1. CASE DisciplinedTick
    BY <2>1, DeadStep DEF DisciplinedTick
  <2>2. CASE UNCHANGED vars
    BY <2>2 DEF vars, DeadInv, FlushedNeverCommits, HasTrap, Inert
  <2> QED
    BY <2>1, <2>2
<1>2. DeadInv => FlushedNeverCommits
  BY DEF DeadInv
<1> QED
  BY <1>1, <1>2, DeadInit, PTL DEF DisciplinedSpec

\* Every CSR access, MRET or SRET behind ID is admissible in the current mode,
\* whether an older instruction has flushed it or not.
NoStalePrivilege ==
  \A l \in {id_ex, ex_mem, mem_wb} : Admitted(l.ctl, l.imm, csr.priv)

\* Software that keeps the shadow clear runs nothing under a privilege it was
\* not checked for, the instruction that EX/MEM carries past a flush included.
\* (In general that instruction keeps the check against the old mode.)
THEOREM ShadowKeepsPrivilege == DisciplinedSpec => []NoStalePrivilege
<1> DEFINE Both == DeadInv /\ PrivilegeInv
<1>1. Init => Both
  BY DeadInit DEF Init, PrivilegeInv, PrivilegeStillHolds, IdExReset, ExMemReset, MemWbReset,
     ResetCsr
<1>2. Both /\ [DisciplinedTick]_vars => Both'
  <2> SUFFICES ASSUME DeadInv, PrivilegeInv, [DisciplinedTick]_vars
               PROVE  DeadInv' /\ PrivilegeInv'
    OBVIOUS
  <2>1. CASE DisciplinedTick
    BY <2>1, DeadStep, PrivilegeInvClock DEF DisciplinedTick
  <2>2. CASE UNCHANGED vars
    BY <2>2 DEF vars, DeadInv, FlushedNeverCommits, HasTrap, Inert, PrivilegeInv,
       PrivilegeStillHolds
  <2> QED
    BY <2>1, <2>2
<1>3. Both => NoStalePrivilege
  <2> SUFFICES ASSUME DeadInv, PrivilegeStillHolds PROVE NoStalePrivilege
    BY DEF PrivilegeInv
  <2>1. \A l \in {id_ex, ex_mem, mem_wb} : ~l.v => Inert(l.ctl)
    BY DEF DeadInv, FlushedNeverCommits
  <2> QED
    BY <2>1 DEF NoStalePrivilege, PrivilegeStillHolds, Admitted, Inert
<1> QED
  BY <1>1, <1>2, <1>3, PTL DEF DisciplinedSpec

-----------------------------------------------------------------------------
(* Every edge is a step of the one-at-a-time machine, or none *)

\* With nothing to retire in WB the architectural state does not move.
LEMMA BubbleEdge ==
  ASSUME PipeInv, DisciplinedTick, ~mem_wb.v
  PROVE  /\ ArchPc' = ArchPc /\ regs' = regs /\ ArchCsr' = ArchCsr /\ ArchMem' = ArchMem
         /\ imem' = imem
<1>1. Clock({}) /\ Inert(mem_wb.ctl) /\ ~HasTrap(mem_wb)
  BY DEF DisciplinedTick, PipeInv, DeadInv, FlushedNeverCommits
<1>2. /\ ~Flushes /\ ~CsrRequest(mem_wb).req
      /\ RegWritten(regs, mem_wb, csr) = regs
  BY <1>1, InertWb DEF Flushes
<1>3. regs' = regs /\ imem' = imem
  BY <1>1, <1>2, EdgeBack DEF Committed
<1>4. ArchCsr' = ArchCsr
  <2>1. WbCommand(mem_wb, csr, {}) \in CommandType /\ csr \in CsrFileType
    BY CommandTyped DEF PipeInv, ShapeInv
  <2>2. csr' = CsrNext(csr, CsrRequest(mem_wb), WbCommand(mem_wb, csr, {}))
    BY <1>1, EdgeBack DEF WbCsr
  <2> QED
    BY <1>2, <2>1, <2>2, IdleCsr DEF ArchCsr, Flushes
<1>5. ArchPc = MidPc
  BY DEF ArchPc, MidPc, FrontPc
<1>6. ArchPc' = ArchPc
  BY <1>1, <1>2, <1>5, PcAdvances DEF PipeInv
<1>7. ArchMem' = ArchMem
  <2>1. mem_wb'.v = ex_mem.v /\ mem_wb'.before = dmem
    BY <1>1, <1>2, EdgeBack DEF MemWbNext
  <2>2. ~ex_mem.v => dmem' = dmem
    BY <1>1, EdgeBack DEF PipeInv, DeadInv, Inert, MemWritten, dmem_write_req
  <2> QED
    BY <2>1, <2>2 DEF ArchMem
<1> QED
  BY <1>3, <1>4, <1>6, <1>7

\* With an instruction in WB the edge is one step of IsaMachine.
LEMMA RetireEdge ==
  ASSUME PipeInv, DisciplinedTick, mem_wb.v
  PROVE  /\ <<ArchPc', regs', ArchCsr', ArchMem'>> =
              ArchAfter(imem, ArchPc, regs, ArchCsr, ArchMem)
         /\ imem' = imem
<1>1. Clock({}) /\ ShadowClear({}) /\ NoCounterRead
  BY DEF DisciplinedTick
<1>2. ArchPc = mem_wb.pc /\ ArchMem = mem_wb.before
  BY DEF ArchPc, ArchMem
<1> DEFINE hidden == Uncounted(csr)
<1>3. ArchAfter(imem, ArchPc, regs, ArchCsr, ArchMem) =
        <<NextPc(Alone, Operand, hidden), RegWritten(regs, Alone, hidden),
          Uncounted(WbCsr(Alone, hidden, {})),
          MemWritten(mem_wb.before, Alone.ctl, Alone.alu, Operand)>>
  <2>1. csr \in CsrFileType
    BY DEF PipeInv, ShapeInv
  <2>2. hidden.priv = csr.priv
    BY <2>1, UncountedFacts
  <2>3. Executed(Fetch(imem, mem_wb.pc), mem_wb.pc, regs, hidden, mem_wb.before) = Alone
    BY <2>2 DEF Alone, Executed
  <2> QED
    BY <1>2, <2>3 DEF ArchAfter, After, ArchCsr, Operand
<1>4. /\ SameEffect(mem_wb, Alone)
      /\ dmem = MemWritten(mem_wb.before, Alone.ctl, Alone.alu, Operand)
      /\ ~Flushes => MidPc = NextPc(Alone, Operand, csr)
  BY DEF PipeInv, MemWbInv
<1>5. CtlSound(mem_wb.ctl)
  <2>1. mem_wb.ctl = Decode(Fetch(imem, mem_wb.pc), csr.priv)
    BY <1>4 DEF SameEffect, Alone, Executed
  <2> QED
    BY <2>1, DecodeSound
<1>6. /\ RegWritten(regs, mem_wb, csr) = RegWritten(regs, Alone, csr)
      /\ WbCommand(mem_wb, csr, {}) = WbCommand(Alone, csr, {})
      /\ WbCsr(mem_wb, csr, {}) = WbCsr(Alone, csr, {})
      /\ WbNextPc(mem_wb, csr, {}) = WbNextPc(Alone, csr, {})
  BY <1>4, <1>5, SameEffectWb
<1>7. /\ regs' = RegWritten(regs, Alone, hidden)
      /\ ArchCsr' = Uncounted(WbCsr(Alone, hidden, {})) /\ imem' = imem
  <2>1. /\ csr \in CsrFileType /\ CsrRequest(mem_wb) \in RequestType
        /\ WbCommand(mem_wb, csr, {}) \in CommandType
    BY CommandTyped, RequestTyped DEF PipeInv, ShapeInv
  <2>2. /\ regs' = RegWritten(regs, mem_wb, csr) /\ csr' = WbCsr(mem_wb, csr, {})
        /\ imem' = imem
    BY <1>1, EdgeBack DEF Committed
  <2>3. RegWritten(regs, mem_wb, hidden) = RegWritten(regs, mem_wb, csr)
    BY <1>1, <1>5, <2>1, WriteBackAlike DEF NoCounterRead, WbEnable
  <2>4. RegWritten(regs, mem_wb, hidden) = RegWritten(regs, Alone, hidden)
    BY <1>4, <1>5, SameEffectWb
  <2>5. WbCsr(mem_wb, hidden, {}) = WbCsr(Alone, hidden, {})
    BY <1>4, <1>5, SameEffectWb
  <2>6. Uncounted(WbCsr(mem_wb, hidden, {})) = Uncounted(WbCsr(mem_wb, csr, {}))
    BY <2>1, CommandAlike, CsrNextAlike DEF WbCsr
  <2> QED
    BY <2>2, <2>3, <2>4, <2>5, <2>6 DEF ArchCsr
<1>8. ArchPc' = NextPc(Alone, Operand, csr) /\ ArchMem' = dmem
  <2>1. CASE Flushes
    <3>1. ~mem_wb'.v /\ ~ex_mem'.v /\ ~id_ex'.v /\ ~if_id'.v
      BY <1>1, <2>1, EdgeFlush, FlushedIdle DEF IfIdBubble
    <3>2. ArchPc' = WbNextPc(mem_wb, csr, {})
      BY <1>1, <2>1, <3>1, EdgeFlush DEF ArchPc
    <3>3. NextPc(Alone, Operand, csr) = WbNextPc(Alone, csr, {})
      BY <1>6, <2>1 DEF NextPc, Flushes
    <3>4. dmem' = dmem
      BY <1>1, <2>1, EdgeBack DEF ShadowClear, Flushes, MemWritten, dmem_write_req
    <3> QED
      BY <1>6, <3>1, <3>2, <3>3, <3>4 DEF ArchMem
  <2>2. CASE ~Flushes
    <3>1. ArchPc' = NextPc(Alone, Operand, csr)
      BY <1>1, <1>4, <2>2, PcAdvances DEF PipeInv
    <3>2. mem_wb'.v = ex_mem.v /\ mem_wb'.before = dmem
      BY <1>1, <2>2, EdgeBack DEF MemWbNext
    <3>3. ~ex_mem.v => dmem' = dmem
      BY <1>1, EdgeBack DEF PipeInv, DeadInv, Inert, MemWritten, dmem_write_req
    <3> QED
      BY <3>1, <3>2, <3>3 DEF ArchMem
  <2> QED
    BY <2>1, <2>2
<1>9. NextPc(Alone, Operand, hidden) = NextPc(Alone, Operand, csr)
  <2>1. csr \in CsrFileType
    BY DEF PipeInv, ShapeInv
  <2> QED
    BY <2>1, CommandAlike DEF NextPc
<1> QED
  BY <1>3, <1>4, <1>7, <1>8, <1>9

\* The invariant holds after reset.
LEMMA PipeInit == Init => PipeInv
<1> SUFFICES ASSUME Init PROVE PipeInv
  OBVIOUS
<1>1. ~if_id.v /\ ~id_ex.v /\ ~ex_mem.v /\ ~mem_wb.v
  BY DEF Init, IfIdBubble, IdExReset, ExMemReset, MemWbReset
<1>2. /\ if_id.instr = NOP /\ id_ex.ctl = IdleCtl /\ ex_mem.ctl = IdleCtl
      /\ mem_wb.ctl = IdleCtl
      /\ id_ex.imm = 0 /\ ex_mem.imm = 0 /\ mem_wb.imm = 0 /\ id_ex.rs1 = 0 /\ id_ex.rs2 = 0
  BY DEF Init, IfIdBubble, IdExReset, ExMemReset, MemWbReset
<1>3. CtlOk(IdleCtl) /\ InstrOk(NOP)
  BY RegAssumption DEF IdleCtl, CtlOk, CsrOp, InstrOk, NOP
<1>4. DeadInv
  BY DeadInit
<1>5. csr \in CsrFileType
  BY ResetType DEF Init
<1>6. DOMAIN regs = Reg /\ \A a \in DOMAIN imem : imem[a] \in Instruction
  BY CoreAssumption DEF Init, ResetRegs
<1>7. ShapeInv
  BY <1>2, <1>3, <1>5, <1>6, RegAssumption DEF ShapeInv
<1>8. ForwardInv
  BY <1>2, IdleFacts DEF ForwardInv, IdleCtl
<1> QED
  BY <1>1, <1>4, <1>7, <1>8 DEF PipeInv, IfIdInv, IdExInv, ExMemInv, MemWbInv

\* The invariant is inductive.
LEMMA PipeInductive == PipeInv /\ [DisciplinedTick]_vars => PipeInv'
<1> SUFFICES ASSUME PipeInv, [DisciplinedTick]_vars PROVE PipeInv'
  OBVIOUS
<1>1. CASE DisciplinedTick
  BY <1>1, PipeStep
<1>2. CASE UNCHANGED vars
  BY <1>2 DEF vars, PipeInv, ShapeInv, ForwardInv, DeadInv, IfIdInv, IdExInv, ExMemInv,
     MemWbInv, Flushes, Committed, FrontPc, MidPc, Resolved, Carries, Alone, Operand,
     FlushedNeverCommits, SameEffect, HasTrap, Inert, CtlOk, InstrOk, CtlSound
<1> QED
  BY <1>1, <1>2

\* Forwarding, stalls, flushes and trap entry are invisible to software that
\* keeps the contract of DisciplinedTick: whatever the program, the pipeline
\* implements the machine that executes one instruction at a time. The cycle
\* counters, of whatever width, run on unseen.
THEOREM PipelineImplementsIsa == DisciplinedSpec => ImplementsIsa
<1>1. Init => Hart!Init
  <2>1. Uncounted(ResetCsr) = ResetCsr
    <3> DEFINE empty == [a \in StoredCsr |-> {}]
    <3>1. [a \in StoredCsr |-> IF a \in Counters THEN {} ELSE empty[a]] = empty
      OBVIOUS
    <3>2. ResetCsr = [reg |-> empty, priv |-> PRIV_M, trap_vector |-> {}, trap_to_s |-> FALSE]
      BY DEF ResetCsr
    <3>3. Uncounted(ResetCsr) =
            [ResetCsr EXCEPT !.reg = [a \in StoredCsr |-> IF a \in Counters THEN {} ELSE @[a]]]
      BY DEF Uncounted
    <3>4. Uncounted(ResetCsr) = [ResetCsr EXCEPT !.reg = empty]
      BY <3>1, <3>2, <3>3, Zenon
    <3> HIDE DEF empty
    <3> QED
      BY <3>2, <3>4
  <2>2. Init => ArchPc = ResetPC
    BY DEF Init, ArchPc, IfIdBubble, IdExReset, ExMemReset, MemWbReset
  <2> QED
    BY <2>1, <2>2 DEF Init, Hart!Init, ArchCsr
<1>2. PipeInv /\ [DisciplinedTick]_vars => [Hart!Step]_(Hart!vars)
  <2> SUFFICES ASSUME PipeInv, [DisciplinedTick]_vars PROVE [Hart!Step]_(Hart!vars)
    OBVIOUS
  <2>1. CASE DisciplinedTick /\ mem_wb.v
    BY <2>1, RetireEdge DEF Hart!Step
  <2>2. CASE DisciplinedTick /\ ~mem_wb.v
    BY <2>2, BubbleEdge DEF Hart!vars
  <2>3. CASE UNCHANGED vars
    BY <2>3 DEF vars, Hart!vars, ArchPc, ArchCsr, ArchMem
  <2> QED
    BY <2>1, <2>2, <2>3
<1> QED
  BY <1>1, <1>2, PipeInit, PipeInductive, PTL DEF DisciplinedSpec, ImplementsIsa, Hart!Spec

\* A trap writes it last, after the write port of a CSR instruction.
LEMMA TrapWritesEpc ==
  ASSUME NEW c \in CsrFileType, NEW q \in RequestType, NEW t \in CommandType, t.trigger
  PROVE  CsrNext(c, q, t).reg[EpcOf(t)] = t.mepc
<1> DEFINE new == Written(c.reg, Counted(c.reg, t.trigger), q)
<1>1. c.reg \in RegFile /\ t.trigger \in BOOLEAN /\ t.to_s \in BOOLEAN
  BY DEF CsrFileType, RegFile, CommandType
<1>2. new \in RegFile
  BY <1>1, CountedType, WrittenType
<1>3. CsrNext(c, q, t) = IF t.to_s THEN TrapToS(c, new, t) ELSE TrapToM(c, new, t)
  BY <1>1 DEF CsrNext
<1> HIDE DEF new
<1>4. CSR_SEPC \in StoredCsr /\ CSR_MEPC \in StoredCsr
  BY DEF StoredCsr, CSR_SEPC, CSR_MEPC
<1>5. TrapToS(c, new, t).reg[CSR_SEPC] = t.mepc
  BY <1>2, <1>4 DEF TrapToS, RegFile, CSR_SEPC, CSR_SCAUSE, CSR_STVAL
<1>6. TrapToM(c, new, t).reg[CSR_MEPC] = t.mepc
  BY <1>2, <1>4 DEF TrapToM, RegFile, CSR_MEPC, CSR_MCAUSE, CSR_MTVAL
<1> QED
  BY <1>1, <1>3, <1>5, <1>6 DEF EpcOf

\* Exceptions are precise for software that keeps the contract: after the
\* edge that takes one, mepc or sepc holds the PC of the instruction that
\* raised it, no register has changed, and memory is as it was before that
\* instruction. (trap_ctrl.sv promises that of interrupts too, where it does
\* not hold.)
THEOREM ExceptionsPrecise == DisciplinedSpec => PreciseExceptions
<1>1. PipeInv /\ DisciplinedTick /\ WbCommand(mem_wb, csr, {}).trigger =>
        /\ csr'.reg[EpcOf(WbCommand(mem_wb, csr, {}))] = ToBits(ArchPc)
        /\ regs' = regs /\ dmem' = ArchMem
  <2> SUFFICES ASSUME PipeInv, DisciplinedTick, WbCommand(mem_wb, csr, {}).trigger
               PROVE  /\ csr'.reg[EpcOf(WbCommand(mem_wb, csr, {}))] = ToBits(ArchPc)
                      /\ regs' = regs /\ dmem' = ArchMem
    OBVIOUS
  <2>1. mem_wb.v
    BY InertWb DEF PipeInv, DeadInv, FlushedNeverCommits
  <2>2. WbCommand(mem_wb, csr, {}).mepc = ToBits(mem_wb.pc) /\ HasSyncException(WbWires(mem_wb))
    BY DEF WbCommand, TrapCommand, trap_trigger, HasInterrupt, WbWires
  <2>3. TrapBlocker(mem_wb)
    BY <2>2 DEF HasSyncException, WbWires, TrapBlocker, HasTrap
  <2>4. SameEffect(mem_wb, Alone) /\ dmem = MemWritten(mem_wb.before, Alone.ctl, Alone.alu, Operand)
    BY <2>1 DEF PipeInv, MemWbInv
  <2>5. ~dmem_write_req(Alone.ctl, Alone.alu)
    <3> SUFFICES ASSUME Alone.ctl.is_store PROVE StoreMisaligned(Alone.ctl, Alone.alu)
      BY DEF dmem_write_req
    <3>1. /\ Alone.ctl = Decode(Fetch(imem, mem_wb.pc), csr.priv)
          /\ Alone.load_fault = LoadMisaligned(Alone.ctl, Alone.alu)
          /\ Alone.store_fault = StoreMisaligned(Alone.ctl, Alone.alu)
      BY DEF Alone, Executed
    <3>2. /\ ~Alone.ctl.illegal /\ ~Alone.ctl.ecall /\ ~Alone.ctl.ebreak
          /\ ~Alone.ctl.is_csr /\ ~Alone.ctl.is_load
      BY <3>1, DecodeStore
    <3>3. ~mem_wb.load_fault /\ ~csr_illegal_access(CsrRequest(mem_wb))
      <4>1. ~mem_wb.load_fault /\ ~mem_wb.ctl.is_csr
        BY <2>4, <3>1, <3>2 DEF SameEffect, LoadMisaligned
      <4>2. ~CsrRequest(mem_wb).req
        BY <4>1 DEF CsrRequest
      <4> QED
        BY <4>1, <4>2 DEF csr_illegal_access
    <3> QED
      BY <2>3, <2>4, <3>1, <3>2, <3>3 DEF TrapBlocker, HasTrap, SameEffect
  <2>6. Clock({}) /\ ShadowClear({})
    BY DEF DisciplinedTick
  <2>7. dmem' = ArchMem
    <3>1. dmem = ArchMem
      BY <2>1, <2>4, <2>5 DEF ArchMem, MemWritten
    <3>2. ~ex_mem.ctl.is_store
      BY <2>6 DEF ShadowClear, trap_flush_req
    <3> QED
      BY <2>6, <3>1, <3>2, EdgeBack DEF MemWritten, dmem_write_req
  <2>8. regs' = regs
    BY <2>3, <2>6, EdgeBack DEF Committed, RegWritten, WriteBackEnable
  <2>9. csr'.reg[EpcOf(WbCommand(mem_wb, csr, {}))] = ToBits(ArchPc)
    <3>1. /\ csr \in CsrFileType /\ CsrRequest(mem_wb) \in RequestType
          /\ WbCommand(mem_wb, csr, {}) \in CommandType
      BY CommandTyped, RequestTyped DEF PipeInv, ShapeInv
    <3>2. csr' = CsrNext(csr, CsrRequest(mem_wb), WbCommand(mem_wb, csr, {}))
      BY <2>6 DEF Clock
    <3>3. ArchPc = mem_wb.pc
      BY <2>1 DEF ArchPc
    <3> QED
      BY <2>2, <3>1, <3>2, <3>3, TrapWritesEpc
  <2> QED
    BY <2>7, <2>8, <2>9
<1>2. PipeInv /\ [DisciplinedTick]_vars =>
        [LET command == WbCommand(mem_wb, csr, {})
         IN  command.trigger => /\ csr'.reg[EpcOf(command)] = ToBits(ArchPc)
                                /\ regs' = regs /\ dmem' = ArchMem]_vars
  BY <1>1
<1> QED
  BY <1>2, PipeInit, PipeInductive, PTL DEF DisciplinedSpec, PreciseExceptions
=============================================================================
