------------------------------- MODULE CsrUnit -------------------------------
(***************************************************************************)
(* csr_unit.sv as a state machine: one step is one rising clock edge, with *)
(* every combination of inputs the pipeline can put on its ports.          *)
(*                                                                         *)
(* A CSR request and a trap may share an edge: an interrupt is taken while *)
(* a CSR instruction is in WB, and both the write port and the trap entry  *)
(* assign mstatus and sstatus.  MRET and SRET are instructions themselves, *)
(* so they never share an edge with a request.                             *)
(***************************************************************************)
EXTENDS CsrFile

CONSTANTS
  Ops,        \* the CSR operations requested
  Addrs,      \* the CSR addresses requested
  Masks,      \* the source operands, as sets of bits
  Payloads    \* what the trap controller saves in xepc, xcause and xtval

ASSUME CsrUnitAssumption ==
  /\ Ops \subseteq CsrOp
  /\ Addrs \subseteq CsrAddr
  /\ Masks \subseteq Bits
  /\ Payloads \subseteq Bits

VARIABLE
  csr         \* the CSR file

Request == [req : {TRUE}, op : Ops, addr : Addrs, data : Masks]
NoRequest == [req |-> FALSE, op |-> 0, addr |-> 0, data |-> {}]

NoTrap == [trigger |-> FALSE, to_s |-> FALSE, mepc |-> {}, mcause |-> {},
           mtval |-> {}, mret |-> FALSE, sret |-> FALSE]

-----------------------------------------------------------------------------
Init == csr = ResetCsr

\* rst is high at the edge.
Reset == csr' = ResetCsr

\* No instruction, or one that leaves the CSRs alone: the counters tick.
Idle == csr' = CsrNext(csr, NoRequest, NoTrap)

\* A CSR instruction in WB.
Access(q) == csr' = CsrNext(csr, q, NoTrap)

\* A trap, delegated to S-mode or not. An interrupt may coincide with a
\* CSR instruction, whose write port is not gated by the trap.
Trap(q, to_s, pc, cause, tval) ==
  /\ to_s => csr.priv # PRIV_M
  /\ csr' = CsrNext(csr, q, [trigger |-> TRUE, to_s |-> to_s, mepc |-> pc,
                             mcause |-> cause, mtval |-> tval,
                             mret |-> FALSE, sret |-> FALSE])

\* The decoder lets MRET through in M-mode only, SRET in S- and M-mode.
Mret == csr.priv = PRIV_M /\ csr' = CsrNext(csr, NoRequest, [NoTrap EXCEPT !.mret = TRUE])
Sret == csr.priv # PRIV_U /\ csr' = CsrNext(csr, NoRequest, [NoTrap EXCEPT !.sret = TRUE])

Next ==
  \/ Reset
  \/ Idle
  \/ \E q \in Request : Access(q)
  \/ \E q \in Request \cup {NoRequest}, to_s \in BOOLEAN,
        pc \in Payloads, cause \in Payloads, tval \in Payloads :
       Trap(q, to_s, pc, cause, tval)
  \/ Mret
  \/ Sret

Spec == Init /\ [][Next]_csr

-----------------------------------------------------------------------------
(* Properties *)

\* Type correctness of the CSR file: every stored register holds XLEN bits
\* and the privilege mode is never the reserved encoding 2'b10, which
\* mstatus.MPP may hold (decode_priv_mode).
TypeOK == csr \in CsrFileType

\* No register holds bits it does not implement: fflags and frm stay short
\* although fflags, frm and fcsr all write them from XLEN-wide operands, and
\* a counter never outgrows its width.
ShortRegisters == \A a \in StoredCsr : csr.reg[a] \subseteq Implemented(a)

\* mstatus and sstatus are two flip-flop banks that must present one set of
\* SIE, SPIE and SPP bits, whichever of the two software writes and however
\* writes, delegated traps, machine traps, MRET and SRET interleave or share
\* an edge.
StatusMirror ==
  csr.reg[CSR_MSTATUS] \cap SharedBits = csr.reg[CSR_SSTATUS] \cap SharedBits

\* The write enable and the illegal-access flag are decoded separately; an
\* access reported as illegal must leave every register as it was.
IllegalAccessWritesNothing ==
  \A q \in Request :
    csr_illegal_access(q) => Written(csr.reg, csr.reg, q) = csr.reg

\* What the next read returns is what a plain write (CSRRW, CSRRWI) left there,
\* through the aliases and the packed fcsr, and against the counters that run
\* on the same edge: whatever read_csr gives for one address after the edge
\* is the written operand, cut to the bits the address implements.
ReadImplemented(addr) ==
  IF addr = CSR_FCSR THEN 0 .. 7 ELSE Implemented(canonical_addr(addr))

WriteReadBack ==
  \A q \in Request :
    IsWriteCmd(q.op) /\ ~csr_illegal_access(q)
      => read_csr(CsrNext(csr, q, NoTrap).reg, q.addr)
           = q.data \cap ReadImplemented(q.addr)
=============================================================================
