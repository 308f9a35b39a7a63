------------------------------- MODULE PrivUnit -------------------------------
(***************************************************************************)
(* The privileged half of the core: trap_ctrl.sv and csr_unit.sv wired to  *)
(* each other as richard_core.sv does, with the instruction in WB and the  *)
(* interrupt pins as the environment.  One step is one clock edge.         *)
(*                                                                         *)
(* The decoder admits MRET, SRET and CSR instructions by privilege, and a  *)
(* correct flush makes that the privilege they meet in WB; here the mode   *)
(* is therefore checked against the current one.                           *)
(*                                                                         *)
(* mctx, sctx, masked and event are history variables for the properties.  *)
(***************************************************************************)
EXTENDS TrapCtrl, Decoder

CONSTANTS
  Pcs,          \* addresses of instructions reaching WB
  Exceptions,   \* synchronous exceptions that may strike one
  Requests,     \* requests of the CSR instructions
  IrqChoices    \* sets of interrupt pins the platform may drive high

ExceptionFlag ==
  {"illegal", "ebreak", "ecall", "load_fault", "store_fault",
   "instr_page_fault", "load_page_fault", "store_page_fault"}

ASSUME PrivUnitAssumption ==
  /\ Pcs \subseteq Word
  /\ Exceptions \subseteq ExceptionFlag
  /\ Requests \subseteq [req : {TRUE}, op : CsrOp, addr : CsrAddr, data : Bits]
  /\ IrqChoices \subseteq SUBSET IrqLine

VARIABLES
  csr,      \* the CSR file
  mctx,     \* context saved by the last trap to M-mode, while software has
            \* neither returned from it nor overwritten it
  sctx,     \* the same for the last trap to S-mode
  masked,   \* a trap to M-mode was taken and neither MRET nor a write to
            \* mstatus.MIE has enabled interrupts since
  event,    \* what the last edge did
  npc       \* trap_next_pc at the last edge

vars == <<csr, mctx, sctx, masked, event, npc>>

NoContext == [none |-> TRUE]

NoRequest == [req |-> FALSE, op |-> 0, addr |-> 0, data |-> {}]

Wires(pc) ==
  [pc |-> pc, bad_addr |-> 0, bad_instr |-> 0,
   illegal |-> FALSE, ebreak |-> FALSE, ecall |-> FALSE, load_fault |-> FALSE,
   store_fault |-> FALSE, instr_page_fault |-> FALSE, load_page_fault |-> FALSE,
   store_page_fault |-> FALSE, mret |-> FALSE, sret |-> FALSE]

-----------------------------------------------------------------------------
Init ==
  /\ csr = ResetCsr
  /\ mctx = NoContext /\ sctx = NoContext
  /\ masked = FALSE
  /\ event = "reset" /\ npc = 0

\* Does a request without a trap on the same edge write this register?
Writes(q, a) == WriteEnable(q) /\ canonical_addr(q.addr) = a

\* What the edge means for software's view of the saved contexts.
Observe(q, t) ==
  /\ event' = CASE t.trigger -> "trap"
                [] ~t.trigger /\ t.mret -> "mret"
                [] ~t.trigger /\ ~t.mret /\ t.sret -> "sret"
                [] OTHER -> "commit"
  /\ mctx' = IF t.trigger /\ ~t.to_s
             THEN [epc |-> t.mepc, priv |-> csr.priv,
                   ie |-> MIE_BIT \in csr.reg[CSR_MSTATUS]]
             ELSE IF t.mret \/ Writes(q, CSR_MEPC)
                            \/ (~t.trigger /\ Writes(q, CSR_MSTATUS))
                  THEN NoContext ELSE mctx
  /\ sctx' = IF t.trigger /\ t.to_s
             THEN [epc |-> t.mepc, priv |-> csr.priv,
                   ie |-> SIE_BIT \in csr.reg[CSR_SSTATUS]]
             ELSE IF t.sret \/ Writes(q, CSR_SEPC)
                            \/ (~t.trigger /\ (Writes(q, CSR_SSTATUS)
                                               \/ Writes(q, CSR_MSTATUS)))
                  THEN NoContext ELSE sctx
  /\ masked' = \/ t.trigger /\ ~t.to_s
               \/ /\ masked /\ ~t.mret
                  /\ ~t.trigger /\ Writes(q, CSR_MSTATUS)
                       => MIE_BIT \notin csr_write_next(csr.reg[CSR_MSTATUS], q.data, q.op)

\* One edge with the instruction wires w, the CSR request q and the pins irq.
Edge(w, q, irq) ==
  LET t == TrapCommand(w, csr, irq)
  IN  /\ csr' = CsrNext(csr, q, t)
      /\ npc' = trap_next_pc(w, csr, irq)
      /\ Observe(q, t)

\* An instruction that neither traps nor touches a CSR, or a bubble.
Plain(pc, irq) == Edge(Wires(pc), NoRequest, irq)

\* A CSR instruction; an access the CSR unit rejects traps as illegal.
CsrInstr(pc, q, irq) ==
  /\ csr_access_allowed(csr.priv, q.addr)
  /\ Edge([Wires(pc) EXCEPT !.illegal = csr_illegal_access(q)], q, irq)

\* An instruction with an exception.
Except(pc, e, irq) == Edge([Wires(pc) EXCEPT ![e] = TRUE], NoRequest, irq)

MretInstr(pc, irq) ==
  csr.priv = PRIV_M /\ Edge([Wires(pc) EXCEPT !.mret = TRUE], NoRequest, irq)

SretInstr(pc, irq) ==
  priv_ge(csr.priv, PRIV_S) /\ Edge([Wires(pc) EXCEPT !.sret = TRUE], NoRequest, irq)

Next ==
  \E pc \in Pcs, irq \in IrqChoices :
    \/ Plain(pc, irq)
    \/ \E q \in Requests : CsrInstr(pc, q, irq)
    \/ \E e \in Exceptions : Except(pc, e, irq)
    \/ MretInstr(pc, irq)
    \/ SretInstr(pc, irq)

Spec == Init /\ [][Next]_vars

-----------------------------------------------------------------------------
(* Properties *)

Context == [epc : Bits, priv : PrivMode, ie : BOOLEAN] \cup {NoContext}

\* Type correctness of the composition.
TypeOK ==
  /\ csr \in CsrFileType
  /\ mctx \in Context /\ sctx \in Context
  /\ masked \in BOOLEAN
  /\ event \in {"reset", "commit", "trap", "mret", "sret"}

\* MRET takes the hart back to exactly where the trap found it: mode, global
\* interrupt enable and PC, however many delegated traps, SRETs and
\* supervisor CSR accesses came between (trap_ctrl.sv, csr_unit.sv).
MachineReturnRestores ==
  [][event' = "mret" /\ mctx # NoContext =>
       /\ csr'.priv = mctx.priv
       /\ (MIE_BIT \in csr'.reg[CSR_MSTATUS]) = mctx.ie
       /\ npc' = ToWord(mctx.epc)]_vars

\* SRET likewise undoes the last delegated trap, although the S fields are
\* kept twice and machine traps and MRETs rewrite both copies in between.
SupervisorReturnRestores ==
  [][event' = "sret" /\ sctx # NoContext =>
       /\ csr'.priv = sctx.priv
       /\ (SIE_BIT \in csr'.reg[CSR_SSTATUS]) = sctx.ie
       /\ npc' = ToWord(sctx.epc)]_vars

\* After a trap to M-mode no interrupt is accepted until software asks for
\* it with MRET or by setting mstatus.MIE: writes to sstatus, delegated
\* traps and SRET cannot let one in.
NoNestedInterrupt ==
  masked => \A irq \in IrqChoices : ~HasInterrupt(csr, irq)

\* Only MRET and SRET lower the privilege, only a trap raises it: a trap is
\* never delegated below the mode it interrupts and a return never leads
\* above the mode that executes it.
PrivilegeMoves ==
  [][/\ csr'.priv < csr.priv => event' \in {"mret", "sret"}
     /\ csr'.priv > csr.priv => event' = "trap"]_vars
=============================================================================
