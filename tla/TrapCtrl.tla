------------------------------ MODULE TrapCtrl ------------------------------
(***************************************************************************)
(* trap_ctrl.sv: purely combinational.  From the wires of the instruction  *)
(* in WB, the interrupt pins and the CSR file it computes the trap command *)
(* for the CSR unit, the pipeline flush and the next PC.                   *)
(*                                                                         *)
(* The WB wires are a record                                               *)
(*   pc, bad_addr : Word, bad_instr : the instruction word,                *)
(*   illegal, ebreak, ecall, load_fault, store_fault, instr_page_fault,    *)
(*   load_page_fault, store_page_fault, mret, sret : BOOLEAN               *)
(* and 'irq' is the set of interrupt pins that are high.                   *)
(***************************************************************************)
EXTENDS CsrFile

\* has_sync_exception
HasSyncException(w) ==
  \/ w.illegal \/ w.ebreak \/ w.ecall \/ w.load_fault \/ w.store_fault
  \/ w.instr_page_fault \/ w.load_page_fault \/ w.store_page_fault

\* sync_cause and sync_mtval: the first of the flags, in this order.
SyncTrap(w, priv) ==
  CASE w.illegal -> [cause |-> EXC_INST_ILLEGAL, tval |-> w.bad_instr]
    [] ~w.illegal /\ w.ebreak -> [cause |-> EXC_BREAKPOINT, tval |-> w.pc]
    [] ~w.illegal /\ ~w.ebreak /\ w.ecall ->
         [cause |-> CASE priv = PRIV_U -> EXC_ECALL_FROM_U
                      [] priv = PRIV_S -> EXC_ECALL_FROM_S
                      [] OTHER         -> EXC_ECALL_FROM_M,
          tval  |-> 0]
    [] OTHER ->
         [cause |-> IF w.load_fault THEN EXC_LOAD_FAULT
                    ELSE IF w.store_fault THEN EXC_STORE_FAULT
                    ELSE IF w.instr_page_fault THEN EXC_INSTR_PAGE_FAULT
                    ELSE IF w.load_page_fault THEN EXC_LOAD_PAGE_FAULT
                    ELSE EXC_STORE_PAGE_FAULT,
          tval  |-> w.bad_addr]

\* has_interrupt: only the global enable gates the pins.
HasInterrupt(c, irq) == MIE_BIT \in c.reg[CSR_MSTATUS] /\ irq # {}

InterruptCode(irq) ==
  CASE "external" \in irq -> INTERRUPT_M_EXTERNAL
    [] "external" \notin irq /\ "software" \in irq -> INTERRUPT_M_SOFTWARE
    [] OTHER -> INTERRUPT_M_TIMER

\* The cause number without the interrupt bit (trap_cause_index).
CauseIndex(w, c, irq) ==
  IF HasInterrupt(c, irq) THEN InterruptCode(irq) ELSE SyncTrap(w, c.priv).cause

trap_trigger(w, c, irq) == HasInterrupt(c, irq) \/ HasSyncException(w)

\* Faulty variant: a trap taken in M-mode is delegated too.
trap_to_s_mode_from_m(w, c, irq) ==
  /\ trap_trigger(w, c, irq)
  /\ CauseIndex(w, c, irq) \in
       c.reg[IF HasInterrupt(c, irq) THEN CSR_MIDELEG ELSE CSR_MEDELEG]

trap_to_s_mode(w, c, irq) ==
  /\ trap_trigger(w, c, irq)
  /\ c.priv # PRIV_M
  /\ CauseIndex(w, c, irq) \in
       c.reg[IF HasInterrupt(c, irq) THEN CSR_MIDELEG ELSE CSR_MEDELEG]

\* Faulty variant: the interrupt flag of the cause one position too high.
TrapCommandFlagMisplaced(w, c, irq) ==
  LET trigger == trap_trigger(w, c, irq)
      intr    == HasInterrupt(c, irq)
  IN  [trigger |-> trigger, to_s |-> trap_to_s_mode(w, c, irq),
       mepc    |-> IF trigger THEN ToBits(w.pc) ELSE {},
       mcause  |-> IF ~trigger THEN {}
                   ELSE ToBits(CauseIndex(w, c, irq)) \cup Field(XLEN, intr),
       mtval   |-> IF ~trigger \/ intr THEN {} ELSE ToBits(SyncTrap(w, c.priv).tval),
       mret    |-> w.mret /\ ~trigger, sret |-> w.sret /\ ~trigger]

\* The command to the CSR unit. Idle wires are zero.
TrapCommand(w, c, irq) ==
  LET trigger == trap_trigger(w, c, irq)
      intr    == HasInterrupt(c, irq)
  IN  [trigger |-> trigger,
       to_s    |-> trap_to_s_mode(w, c, irq),
       mepc    |-> IF trigger THEN ToBits(w.pc) ELSE {},
       mcause  |-> IF ~trigger THEN {}
                   ELSE ToBits(CauseIndex(w, c, irq)) \cup Field(XLEN - 1, intr),
       mtval   |-> IF ~trigger \/ intr THEN {} ELSE ToBits(SyncTrap(w, c.priv).tval),
       mret    |-> w.mret /\ ~trigger,
       sret    |-> w.sret /\ ~trigger]

trap_flush_req(t) == t.trigger \/ t.mret \/ t.sret

\* Vectored mode (01) applies to interrupts only.
TrapVector(w, c, irq) ==
  LET base    == c.reg[IF trap_to_s_mode(w, c, irq) THEN CSR_STVEC ELSE CSR_MTVEC]
      aligned == ToWord(base \ {0, 1})
  IN  IF base \cap {0, 1} = {0} /\ HasInterrupt(c, irq)
      THEN Wrap(aligned + 4 * CauseIndex(w, c, irq))
      ELSE aligned

trap_next_pc(w, c, irq) ==
  LET t == TrapCommand(w, c, irq)
  IN  CASE t.trigger -> TrapVector(w, c, irq)
        [] ~t.trigger /\ t.mret -> ToWord(c.reg[CSR_MEPC])
        [] ~t.trigger /\ ~t.mret /\ t.sret -> ToWord(c.reg[CSR_SEPC])
        [] OTHER -> 0
=============================================================================
