-------------------------- MODULE RichardCoreProofs --------------------------
(***************************************************************************)
(* Two invariants of the pipeline for every program, register file size,   *)
(* register width, data memory and interrupt pattern, with resets.         *)
(***************************************************************************)
EXTENDS RichardCore, TLAPS

-----------------------------------------------------------------------------
(* The stall and flush signals *)

\* With the memory ports tied off nothing but the load-use stall holds a
\* latch, and EX/MEM is never held.
LEMMA ControlSignals ==
  ASSUME NEW flush \in BOOLEAN
  PROVE  /\ ~Control(flush).ex_mem_stall
         /\ ~Control(flush).id_ex_stall
         /\ flush \/ LoadUse \/ ExBranchTaken => Control(flush).id_ex_flush
BY DEF Control, HazardControl

\* ID/EX is emptied or takes what ID has decoded.
LEMMA IdExMoves ==
  ASSUME NEW flush \in BOOLEAN
  PROVE  \/ IdExNext(Control(flush)).ctl = IdleCtl /\ ~IdExNext(Control(flush)).v
         \/ /\ ~flush /\ ~LoadUse /\ ~ExBranchTaken
            /\ IdExNext(Control(flush)).ctl = Decode(if_id.instr, csr.priv)
            /\ IdExNext(Control(flush)).rs1 = Rs1Addr(if_id.instr)
            /\ IdExNext(Control(flush)).rs2 = if_id.instr.rs2
            /\ IdExNext(Control(flush)).imm = DecodeImm(if_id.instr)
<1>1. CASE Control(flush).id_ex_flush
  BY <1>1 DEF IdExNext
<1>2. CASE ~Control(flush).id_ex_flush
  BY <1>2, ControlSignals DEF IdExNext
<1> QED
  BY <1>1, <1>2

\* EX/MEM always takes what is in EX, and a flush marks it discarded.
LEMMA ExMemMoves ==
  ASSUME NEW flush \in BOOLEAN
  PROVE  /\ ExMemNext(Control(flush), flush).ctl = id_ex.ctl
         /\ ExMemNext(Control(flush), flush).imm = id_ex.imm
         /\ ExMemNext(Control(flush), flush).v = (id_ex.v /\ ~flush)
BY ControlSignals DEF ExMemNext

\* MEM/WB is emptied by a flush and takes what is in MEM otherwise.
LEMMA MemWbMoves ==
  ASSUME NEW flush \in BOOLEAN
  PROVE  /\ flush => ~MemWbNext(flush).v
         /\ ~flush => /\ MemWbNext(flush).ctl = ex_mem.ctl
                      /\ MemWbNext(flush).imm = ex_mem.imm
                      /\ MemWbNext(flush).v = ex_mem.v
BY DEF MemWbNext, MemWbFlushed

\* The flush request is a truth value.
LEMMA FlushBoolean ==
  ASSUME NEW m, NEW c, NEW irq
  PROVE  trap_flush_req(WbCommand(m, c, irq)) \in BOOLEAN
BY DEF trap_flush_req

-----------------------------------------------------------------------------
(* What the decoder produces *)

\* The write-back source follows from the kind of instruction.
CtlSound(ctl) ==
  /\ ctl.wb_sel \in {"alu", "mem", "pc4"}
  /\ ctl.wb_sel = "mem" => ctl.is_load
  /\ ctl.wb_sel = "pc4" => ctl.is_jump

\* The privilege check of ID, against the mode priv: a CSR access, an MRET
\* and an SRET are let through only where that mode may perform them.
Admitted(ctl, imm, priv) ==
  /\ ctl.is_csr => csr_access_allowed(priv, imm % 4096)
  /\ ctl.mret => priv = PRIV_M
  /\ ctl.sret => priv_ge(priv, PRIV_S)

\* The idle control word writes nothing back from anywhere and is admitted
\* in every mode.
LEMMA IdleFacts ==
  /\ CtlSound(IdleCtl)
  /\ ~UsesRs1(IdleCtl) /\ ~UsesRs2(IdleCtl)
  /\ \A imm, priv : Admitted(IdleCtl, imm, priv)
BY DEF CtlSound, IdleCtl, UsesRs1, UsesRs2, Admitted

\* Only LOAD selects memory data and only the jumps select PC + 4.
LEMMA DecodeSound ==
  ASSUME NEW i, NEW priv
  PROVE  CtlSound(Decode(i, priv))
<1>1. CtlSound(DecodeOp(i, priv)) /\ "rd" \in DOMAIN DecodeOp(i, priv)
  BY DEF CtlSound, DecodeOp, IdleCtl, AluCtl, SystemCtl, CsrCtl
<1> QED
  BY <1>1 DEF Decode, CtlSound

\* Decoded in a mode means admitted in that mode.
LEMMA DecodeAdmitted ==
  ASSUME NEW i, NEW priv
  PROVE  Admitted(Decode(i, priv), DecodeImm(i), priv)
<1> DEFINE d == DecodeOp(i, priv)
<1>1. "rd" \in DOMAIN d /\ (d.is_csr \/ d.mret \/ d.sret => i.op = "SYSTEM")
  BY DEF DecodeOp, IdleCtl, AluCtl, SystemCtl, CsrCtl
<1>2. CASE i.op = "SYSTEM" /\ i.f3 = 0
  <2>1. d = SystemCtl(i, priv)
    BY <1>2 DEF DecodeOp
  <2>2. /\ ~d.is_csr
        /\ d.mret => priv = PRIV_M
        /\ d.sret => priv_ge(priv, PRIV_S)
    <3>1. CASE i.fn = "MRET"
      BY <2>1, <3>1 DEF SystemCtl, IdleCtl
    <3>2. CASE i.fn = "SRET"
      BY <2>1, <3>2 DEF SystemCtl, IdleCtl
    <3>3. CASE i.fn \notin {"MRET", "SRET"}
      BY <2>1, <3>3 DEF SystemCtl, IdleCtl
    <3> QED
      BY <3>1, <3>2, <3>3
  <2> HIDE DEF d
  <2> QED
    BY <1>1, <2>2 DEF Admitted, Decode, d
<1>3. CASE i.op = "SYSTEM" /\ i.f3 # 0
  <2>1. d = CsrCtl(i, priv)
    BY <1>3 DEF DecodeOp
  <2>2. /\ d.is_csr => csr_access_allowed(priv, CsrAddrField(i))
        /\ ~d.mret /\ ~d.sret
    BY <2>1 DEF CsrCtl, IdleCtl
  <2>3. DecodeImm(i) = i.imm
    BY <1>3 DEF DecodeImm, HasNoImm
  <2> HIDE DEF d
  <2> QED
    BY <1>1, <2>2, <2>3 DEF Admitted, Decode, d, CsrAddrField
<1>4. CASE i.op # "SYSTEM"
  <2> HIDE DEF d
  <2> QED
    BY <1>1, <1>4 DEF Admitted, Decode, d
<1> QED
  BY <1>2, <1>3, <1>4

-----------------------------------------------------------------------------
(* MEM never forwards a value it does not have yet *)

\* Inductive strengthening. When a load is in MEM, the instruction in EX is
\* a bubble or reads neither of its operands from the load's register (the
\* load-use stall put a cycle between them); when a jump is in MEM, EX is
\* empty (the jump flushed it).
ForwardInv ==
  /\ CtlSound(id_ex.ctl) /\ CtlSound(ex_mem.ctl)
  /\ ex_mem.ctl.is_load /\ ex_mem.ctl.rd # 0 =>
       \/ id_ex.ctl = IdleCtl
       \/ id_ex.rs1 # ex_mem.ctl.rd /\ id_ex.rs2 # ex_mem.ctl.rd
  /\ ex_mem.ctl.is_jump => id_ex.ctl = IdleCtl

\* The strengthening gives the property.
LEMMA ForwardInvSuffices == ForwardInv => MemForwardIsResult
<1> SUFFICES ASSUME ForwardInv, ForwardsFromMem PROVE ex_mem.ctl.wb_sel = "alu"
  BY DEF MemForwardIsResult
<1>1. id_ex.ctl # IdleCtl
  BY IdleFacts DEF ForwardsFromMem
<1>2. ex_mem.ctl.rd # 0 /\ (ex_mem.ctl.rd = id_ex.rs1 \/ ex_mem.ctl.rd = id_ex.rs2)
  BY DEF ForwardsFromMem, ForwardSelOf, ForwardSel
<1> QED
  BY <1>1, <1>2 DEF ForwardInv, CtlSound

\* A clock edge preserves it: the load-use comparison of ID against EX is
\* next cycle's comparison of EX against MEM.
LEMMA ForwardInvClock ==
  ASSUME ForwardInv, NEW irq, Clock(irq)
  PROVE  ForwardInv'
<1> DEFINE flush == trap_flush_req(WbCommand(mem_wb, csr, irq))
<1>1. flush \in BOOLEAN
  BY FlushBoolean
<1>2. id_ex' = IdExNext(Control(flush)) /\ ex_mem' = ExMemNext(Control(flush), flush)
  BY DEF Clock
<1> HIDE DEF flush
<1>3. ex_mem'.ctl = id_ex.ctl
  BY <1>1, <1>2, ExMemMoves
<1>4. \/ id_ex'.ctl = IdleCtl
      \/ /\ ~LoadUse /\ ~ExBranchTaken
         /\ id_ex'.ctl = Decode(if_id.instr, csr.priv)
         /\ id_ex'.rs1 = Rs1Addr(if_id.instr) /\ id_ex'.rs2 = if_id.instr.rs2
  BY <1>1, <1>2, IdExMoves
<1>5. CtlSound(id_ex'.ctl) /\ CtlSound(ex_mem'.ctl)
  BY <1>3, <1>4, IdleFacts, DecodeSound DEF ForwardInv
<1>6. ex_mem'.ctl.is_load /\ ex_mem'.ctl.rd # 0 =>
        \/ id_ex'.ctl = IdleCtl
        \/ id_ex'.rs1 # ex_mem'.ctl.rd /\ id_ex'.rs2 # ex_mem'.ctl.rd
  BY <1>3, <1>4 DEF LoadUse, LoadUseStall
<1>7. ex_mem'.ctl.is_jump => id_ex'.ctl = IdleCtl
  BY <1>3, <1>4 DEF ExBranchTaken, BranchTaken
<1> QED
  BY <1>5, <1>6, <1>7 DEF ForwardInv, CtlSound

\* The value MEM forwards to EX is always the result of the instruction in
\* MEM, never a load's address or a jump's target.
THEOREM ForwardingSound == Spec => []MemForwardIsResult
<1>1. Init => ForwardInv
  BY IdleFacts DEF Init, ForwardInv, IdExReset, ExMemReset, IdleCtl
<1>2. ForwardInv /\ [Next]_vars => ForwardInv'
  <2> SUFFICES ASSUME ForwardInv, [Next]_vars PROVE ForwardInv'
    OBVIOUS
  <2>1. CASE Tick
    BY <2>1, ForwardInvClock DEF Tick
  <2>2. CASE Reset
    <3>1. id_ex' = IdExReset /\ ex_mem' = ExMemReset
      BY <2>2 DEF Reset
    <3> QED
      BY <3>1, IdleFacts DEF ForwardInv, CtlSound, IdExReset, ExMemReset, IdleCtl
  <2>3. CASE UNCHANGED vars
    BY <2>3 DEF vars, ForwardInv, CtlSound
  <2> QED
    BY <2>1, <2>2, <2>3 DEF Next
<1> QED
  BY <1>1, <1>2, ForwardInvSuffices, PTL DEF Spec

-----------------------------------------------------------------------------
(* The privilege checked in ID is still the one in WB *)

\* Inductive strengthening: only that the CSR file has a privilege mode.
PrivilegeInv == "priv" \in DOMAIN csr /\ PrivilegeStillHolds

\* The property, latch by latch.
LEMMA PrivilegeByLatch ==
  PrivilegeStillHolds <=>
    /\ id_ex.v  => Admitted(id_ex.ctl, id_ex.imm, csr.priv)
    /\ ex_mem.v => Admitted(ex_mem.ctl, ex_mem.imm, csr.priv)
    /\ mem_wb.v => Admitted(mem_wb.ctl, mem_wb.imm, csr.priv)
BY DEF PrivilegeStillHolds, Admitted

\* The mode changes on no edge without a flush.
LEMMA ModeChangesFlush ==
  ASSUME NEW c, "priv" \in DOMAIN c, NEW q, NEW t
  PROVE  /\ "priv" \in DOMAIN CsrNext(c, q, t)
         /\ ~trap_flush_req(t) => CsrNext(c, q, t).priv = c.priv
<1> DEFINE new == Written(c.reg, Counted(c.reg, t.trigger), q)
<1>1. \A n : /\ "priv" \in DOMAIN TrapToS(c, n, t)
             /\ "priv" \in DOMAIN TrapToM(c, n, t)
             /\ "priv" \in DOMAIN MretState(c, n)
             /\ "priv" \in DOMAIN SretState(c, n)
             /\ "priv" \in DOMAIN [c EXCEPT !.reg = n]
             /\ [c EXCEPT !.reg = n].priv = c.priv
  BY DEF TrapToS, TrapToM, MretState, SretState
<1> HIDE DEF new
<1>2. CsrNext(c, q, t) = CASE t.trigger /\ t.to_s  -> TrapToS(c, new, t)
                          [] t.trigger /\ ~t.to_s -> TrapToM(c, new, t)
                          [] ~t.trigger /\ t.sret -> SretState(c, new)
                          [] ~t.trigger /\ ~t.sret /\ t.mret -> MretState(c, new)
                          [] OTHER -> [c EXCEPT !.reg = new]
  BY DEF CsrNext, new
<1> QED
  BY <1>1, <1>2 DEF trap_flush_req

\* A clock edge preserves it: an edge that flushes discards everything the
\* mode could matter to, an edge that does not leaves the mode as it is and
\* moves each instruction on with its control word.
LEMMA PrivilegeInvClock ==
  ASSUME PrivilegeInv, NEW irq, Clock(irq)
  PROVE  PrivilegeInv'
<1> DEFINE flush == trap_flush_req(WbCommand(mem_wb, csr, irq))
<1>1. flush \in BOOLEAN
  BY FlushBoolean
<1>2. /\ id_ex' = IdExNext(Control(flush))
      /\ ex_mem' = ExMemNext(Control(flush), flush)
      /\ mem_wb' = MemWbNext(flush)
      /\ csr' = CsrNext(csr, CsrRequest(mem_wb), WbCommand(mem_wb, csr, irq))
  BY DEF Clock
<1>3. "priv" \in DOMAIN csr' /\ (~flush => csr'.priv = csr.priv)
  BY <1>2, ModeChangesFlush DEF PrivilegeInv
<1> HIDE DEF flush
<1>4. CASE flush
  <2>1. ~id_ex'.v /\ ~ex_mem'.v /\ ~mem_wb'.v
    BY <1>1, <1>2, <1>4, IdExMoves, ExMemMoves, MemWbMoves
  <2> QED
    BY <1>3, <2>1 DEF PrivilegeInv, PrivilegeStillHolds
<1>5. CASE ~flush
  <2>1. id_ex'.v => Admitted(id_ex'.ctl, id_ex'.imm, csr.priv)
    BY <1>1, <1>2, IdExMoves, DecodeAdmitted
  <2>2. ex_mem'.v => Admitted(ex_mem'.ctl, ex_mem'.imm, csr.priv)
    BY <1>1, <1>2, ExMemMoves, PrivilegeByLatch DEF PrivilegeInv
  <2>3. mem_wb'.v => Admitted(mem_wb'.ctl, mem_wb'.imm, csr.priv)
    BY <1>1, <1>2, <1>5, MemWbMoves, PrivilegeByLatch DEF PrivilegeInv
  <2>4. csr'.priv = csr.priv
    BY <1>3, <1>5
  <2> QED
    BY <1>3, <2>1, <2>2, <2>3, <2>4 DEF PrivilegeInv, PrivilegeStillHolds, Admitted
<1> QED
  BY <1>4, <1>5

\* No CSR access, MRET or SRET reaches WB in a mode it was not checked for,
\* but for one that was in EX when an older instruction changed the mode:
\* EX/MEM is not flushed and carries it on (see ShadowKeepsPrivilege).
THEOREM PrivilegeSound == Spec => []PrivilegeStillHolds
<1>1. Init => PrivilegeInv
  BY DEF Init, PrivilegeInv, PrivilegeStillHolds, IdExReset, ExMemReset, MemWbReset, ResetCsr
<1>2. PrivilegeInv /\ [Next]_vars => PrivilegeInv'
  <2> SUFFICES ASSUME PrivilegeInv, [Next]_vars PROVE PrivilegeInv'
    OBVIOUS
  <2>1. CASE Tick
    BY <2>1, PrivilegeInvClock DEF Tick
  <2>2. CASE Reset
    <3>1. /\ id_ex' = IdExReset /\ ex_mem' = ExMemReset
          /\ mem_wb' = MemWbReset(dmem') /\ csr' = ResetCsr
      BY <2>2 DEF Reset
    <3>2. ~id_ex'.v /\ ~ex_mem'.v /\ ~mem_wb'.v /\ "priv" \in DOMAIN csr'
      BY <3>1 DEF IdExReset, ExMemReset, MemWbReset, ResetCsr
    <3> QED
      BY <3>2 DEF PrivilegeInv, PrivilegeStillHolds
  <2>3. CASE UNCHANGED vars
    BY <2>3 DEF vars, PrivilegeInv, PrivilegeStillHolds
  <2> QED
    BY <2>1, <2>2, <2>3 DEF Next
<1> QED
  BY <1>1, <1>2, PTL DEF Spec, PrivilegeInv
=============================================================================
