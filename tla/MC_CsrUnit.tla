----------------------------- MODULE MC_CsrUnit -----------------------------
(* CsrUnit for TLC: the two status registers together with aliases,        *)
(* packed, read-only and missing registers.                                *)
EXTENDS CsrUnit

\* Write, and clear in its immediate form (a set is a write of the union).
MC_Ops == {1, 7}

MC_Addrs == {CSR_MSTATUS, CSR_SSTATUS, CSR_FFLAGS, CSR_FRM, CSR_FCSR, CSR_CYCLE,
             CSR_MHARTID, \h7C0}

\* Operands: nothing; the interrupt-enable stack with an S field; MPP with
\* the reserved encoding 2'b10, SPP and SPIE. The last two also reach across
\* the boundary of fflags and frm.
MC_Masks == {{}, {SIE_BIT, MIE_BIT, MPIE_BIT}, {MPP_HI, SPP_BIT, SPIE_BIT}}

MC_Payloads == {{2}}
=============================================================================
