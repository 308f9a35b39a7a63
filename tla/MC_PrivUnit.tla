----------------------------- MODULE MC_PrivUnit -----------------------------
(* PrivUnit for TLC. *)
EXTENDS PrivUnit

MC_Pcs == {4, 8}
MC_Exceptions == {"ecall"}

Csrrw(addr, mask) == [req |-> TRUE, op |-> 1, addr |-> addr, data |-> mask]

\* Both status registers with interrupts enabled (and SPP) or with a stacked
\* enable and S-mode as previous mode; delegation of calls and of the timer, and its
\* withdrawal at any time.
MC_Requests ==
  {Csrrw(a, m) : a \in {CSR_MSTATUS, CSR_SSTATUS},
                 m \in {{SIE_BIT, MIE_BIT, SPP_BIT}, {MPP_LO, MPIE_BIT}}}
    \cup {Csrrw(CSR_MEDELEG, {EXC_ECALL_FROM_U, EXC_ECALL_FROM_S}),
          Csrrw(CSR_MIDELEG, {INTERRUPT_M_TIMER}),
          Csrrw(CSR_MEDELEG, {}), Csrrw(CSR_MIDELEG, {})}

MC_IrqChoices == {{}, {"timer"}}
=============================================================================
