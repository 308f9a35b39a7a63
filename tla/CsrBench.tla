------------------------------- MODULE CsrBench -------------------------------
(***************************************************************************)
(* tb/unit/tb_csr.cc: the bench of the CSR unit as a sequence of steps.  A *)
(* step is one clock edge with a request and a trap command, or a list of  *)
(* reads and outputs with the values the bench asserts.  Constants lose    *)
(* the digits above XLEN; the interrupt bit is the top one.                *)
(*                                                                         *)
(* The state is [csr, illegal, mark]: the registers, csr_illegal_access at *)
(* the last evaluation, and a value of minstret the bench took note of.    *)
(***************************************************************************)
EXTENDS CsrFile, Sequences

\* drive_defaults, clear_trap_lines
NoRequest == [req |-> FALSE, op |-> 0, addr |-> 0, data |-> {}]
NoTrap    == [trigger |-> FALSE, to_s |-> FALSE, mepc |-> {}, mcause |-> {}, mtval |-> {},
              mret |-> FALSE, sret |-> FALSE]

Edge(q, t) == [do |-> "edge", req |-> q, trap |-> t]

csr_op(addr, op, data) == Edge([req |-> TRUE, op |-> op, addr |-> addr, data |-> data], NoTrap)
CSR_OP_WRITE == 1
CSR_OP_SET   == 2
CSR_OP_CLEAR == 3
write(addr, n) == csr_op(addr, CSR_OP_WRITE, ToBits(n))

\* mcause is a set of bits: INTERRUPT_BIT | code, or an exception code.
trigger_trap(mepc, mcause, mtval, to_s) ==
  Edge(NoRequest, [NoTrap EXCEPT !.trigger = TRUE, !.to_s = to_s, !.mepc = ToBits(mepc),
                                 !.mcause = mcause, !.mtval = ToBits(mtval)])
INTERRUPT(code) == ToBits(code) \cup {XLEN - 1}

mret_tick == Edge(NoRequest, [NoTrap EXCEPT !.mret = TRUE])
sret_tick == Edge(NoRequest, [NoTrap EXCEPT !.sret = TRUE])

advance_cycles(n) == [i \in 1 .. n |-> Edge(NoRequest, NoTrap)]

\* mstatus is read and written back with some bits replaced.
rewrite_mstatus(mask, bits) == [do |-> "rewrite", mask |-> mask, bits |-> bits]

force_priv_mode_via_mret(mode) == <<rewrite_mstatus(MppBits, encode_priv_mode(mode)), mret_tick>>

\* reads: <<address, bits looked at, value>>; outs: the outputs asserted.
asserts(reads, outs) == [do |-> "assert", reads |-> reads, outs |-> outs]
Is(addr, n)         == <<addr, BitIdx, ToBits(n)>>
Has(addr, bits, on) == <<addr, bits, on>>
None                == [k \in {} |-> 0]
Mark                == [do |-> "mark"]
SinceMark(n)        == [do |-> "since", n |-> n]

arbitrate_trap_priority(irq, sync_cause) ==
  CASE "external" \in irq -> INTERRUPT(INTERRUPT_M_EXTERNAL)
    [] "external" \notin irq /\ "software" \in irq -> INTERRUPT(INTERRUPT_M_SOFTWARE)
    [] irq = {"timer"} -> INTERRUPT(INTERRUPT_M_TIMER)
    [] OTHER -> sync_cause

-----------------------------------------------------------------------------
(* main() *)

\* Reset, the write port, read-only registers, the counters.
PortAndCounters ==
  <<asserts(<<Is(CSR_MSTATUS, 0), Is(CSR_MIE, 0), Is(CSR_MEPC, 0), Is(CSR_SSTATUS, 0),
             Is(CSR_SATP, 0)>>, None),
    write(CSR_MTVEC, \h1020), asserts(<<Is(CSR_MTVEC, \h1020)>>, None),
    write(CSR_MSCRATCH, \hAFEBABE), asserts(<<Is(CSR_MSCRATCH, \hAFEBABE)>>, None),
    write(CSR_MIE, 0),
    csr_op(CSR_MIE, CSR_OP_SET, ToBits(\hB)), asserts(<<Is(CSR_MIE, \hB)>>, None),
    csr_op(CSR_MIE, CSR_OP_CLEAR, ToBits(3)), asserts(<<Is(CSR_MIE, 8)>>, None),
    csr_op(CSR_MIE, CSR_OP_SET, {}), asserts(<<Is(CSR_MIE, 8)>>, None),
    write(CSR_MISA, 0), asserts(<<Has(CSR_MISA, BitIdx, MISA_VALUE)>>, None),
    write(CSR_CYCLE, \h40), asserts(<<Is(CSR_MCYCLE, \h40)>>, None)>>
  \o advance_cycles(5) \o <<asserts(<<Is(CSR_MCYCLE, \h45)>>, None), Mark>>
  \o advance_cycles(3) \o <<SinceMark(3)>>

\* A machine trap, mret, sret, ecall from each mode, a delegated ecall.
TrapsAndReturns ==
  LET Ecall(mode, pc, cause) ==
        force_priv_mode_via_mret(mode)
          \o <<trigger_trap(pc, ToBits(cause), 0, FALSE),
               asserts(<<Is(CSR_MCAUSE, cause), Is(CSR_MTVAL, 0), Is(CSR_MEPC, pc),
                        Has(CSR_MSTATUS, MppBits, encode_priv_mode(mode))>>, None)>>
  IN  <<rewrite_mstatus({MIE_BIT}, {MIE_BIT}), Mark,
        trigger_trap(\hDEAD, ToBits(EXC_INST_ILLEGAL), \hDEAD, FALSE), SinceMark(0)>>
      \o advance_cycles(1)
      \o <<SinceMark(1),
           asserts(<<Is(CSR_MEPC, \hDEAD), Is(CSR_MCAUSE, EXC_INST_ILLEGAL), Is(CSR_MTVAL, \hDEAD),
                    Has(CSR_MSTATUS, {MIE_BIT, MPIE_BIT} \cup MppBits,
                        {MPIE_BIT} \cup MppBits)>>, None),
           mret_tick,
           asserts(<<Has(CSR_MSTATUS, {MIE_BIT, MPIE_BIT} \cup MppBits, {MIE_BIT, MPIE_BIT})>>, None),
           csr_op(CSR_SSTATUS, CSR_OP_WRITE, {SIE_BIT, SPP_BIT}), sret_tick,
           asserts(<<Has(CSR_SSTATUS, SharedBits, {SPIE_BIT})>>, None)>>
      \o Ecall(PRIV_S, \h600, EXC_ECALL_FROM_S) \o Ecall(PRIV_U, \h700, EXC_ECALL_FROM_U)
      \o <<write(CSR_MEDELEG, 0), csr_op(CSR_MEDELEG, CSR_OP_SET, {EXC_ECALL_FROM_U}),
           write(CSR_STVEC, \h4000),
           asserts(<<Has(CSR_MEDELEG, {EXC_ECALL_FROM_U}, {EXC_ECALL_FROM_U})>>, None)>>
      \o force_priv_mode_via_mret(PRIV_U)
      \o <<asserts(<<>>, [priv |-> PRIV_U]),
           trigger_trap(\h900, ToBits(EXC_ECALL_FROM_U), 0, TRUE),
           asserts(<<Is(CSR_SEPC, \h900), Is(CSR_SCAUSE, EXC_ECALL_FROM_U), Is(CSR_STVAL, 0)>>,
                  [to_s |-> TRUE, vector |-> ToBits(\h4000), priv |-> PRIV_S])>>
      \o force_priv_mode_via_mret(PRIV_M)

\* Supervisor registers, the mirror of sstatus, the floating-point CSRs.
OtherRegisters ==
  LET values == <<Is(CSR_SIE, \h55), Is(CSR_SSCRATCH, \hAA), Is(CSR_SEPC, \h1234),
                  Is(CSR_SCAUSE, \h21), Is(CSR_SIP, 3), Has(CSR_SATP, BitIdx, {XLEN - 1})>>
  IN  [n \in DOMAIN values |-> csr_op(values[n][1], CSR_OP_WRITE, values[n][3])]
      \o <<asserts(values, None),
           csr_op(CSR_SSTATUS, CSR_OP_WRITE, {SIE_BIT}),
           asserts(<<Has(CSR_MSTATUS, {SIE_BIT}, {SIE_BIT})>>, None),
           write(CSR_SSTATUS, 0), asserts(<<Has(CSR_MSTATUS, {SIE_BIT}, {})>>, None),
           write(CSR_FFLAGS, \h1F), asserts(<<Is(CSR_FFLAGS, \h1F)>>, None),
           write(CSR_FRM, 7), asserts(<<Is(CSR_FRM, 7)>>, None),
           write(CSR_FCSR, \hAB), asserts(<<Is(CSR_FFLAGS, \hB), Is(CSR_FRM, 5)>>, None)>>

\* Which of several pending causes the unit is told, row by row.
interrupt_priority_matrix ==
  LET Row(irq, sync, mepc, mtval, expected) ==
        LET chosen == arbitrate_trap_priority(irq, IF sync THEN ToBits(EXC_INST_ILLEGAL) ELSE {})
            isIrq  == XLEN - 1 \in chosen
        IN  <<trigger_trap(mepc, chosen, IF sync THEN mtval ELSE 0, FALSE),
              asserts(<<Has(CSR_MCAUSE, BitIdx, expected), Is(CSR_MEPC, mepc)>>
                       \o (IF sync /\ ~isIrq THEN <<Is(CSR_MTVAL, mtval)>> ELSE <<>>),
                     [priv |-> PRIV_M, is_irq |-> isIrq])>>
  IN  Row(IrqLine, TRUE, \hA000, \h1111, INTERRUPT(INTERRUPT_M_EXTERNAL))
      \o Row({"software", "timer"}, TRUE, \hA040, \h2222, INTERRUPT(INTERRUPT_M_SOFTWARE))
      \o Row({"timer"}, TRUE, \hA080, \h3333, INTERRUPT(INTERRUPT_M_TIMER))
      \o Row({"external"}, FALSE, \hA0C0, 0, INTERRUPT(INTERRUPT_M_EXTERNAL))
      \o Row({}, TRUE, \hA100, \h4444, ToBits(EXC_INST_ILLEGAL))

delegated_multitrap_context ==
  <<write(CSR_MEDELEG, 0), csr_op(CSR_MEDELEG, CSR_OP_SET, {EXC_ECALL_FROM_U}),
    write(CSR_STVEC, \h4000), write(CSR_MTVEC, \h8000)>>
  \o force_priv_mode_via_mret(PRIV_S)
  \o <<asserts(<<>>, [priv |-> PRIV_S]),
       trigger_trap(\h900, ToBits(EXC_ECALL_FROM_U), 0, TRUE),
       asserts(<<Is(CSR_SEPC, \h900), Is(CSR_SCAUSE, EXC_ECALL_FROM_U)>>,
              [to_s |-> TRUE, vector |-> ToBits(\h4000), priv |-> PRIV_S]),
       trigger_trap(\hA00, ToBits(EXC_INST_ILLEGAL), 0, FALSE),
       asserts(<<Is(CSR_MEPC, \hA00), Is(CSR_SEPC, \h900)>>,
              [to_s |-> FALSE, vector |-> ToBits(\h8000), priv |-> PRIV_M])>>

nested_return_sequence ==
  force_priv_mode_via_mret(PRIV_U)
  \o <<csr_op(CSR_SSTATUS, CSR_OP_WRITE, {SIE_BIT}),
       trigger_trap(\hB00, ToBits(EXC_ECALL_FROM_U), 0, TRUE),
       asserts(<<Has(CSR_SSTATUS, SharedBits, {SPIE_BIT}), Is(CSR_SEPC, \hB00)>>, None),
       sret_tick,
       asserts(<<Has(CSR_SSTATUS, {SIE_BIT, SPIE_BIT}, {SIE_BIT, SPIE_BIT})>>, [priv |-> PRIV_U]),
       csr_op(CSR_MSTATUS, CSR_OP_SET, {MIE_BIT}),
       trigger_trap(\hB80, ToBits(EXC_INST_ILLEGAL), 0, FALSE),
       asserts(<<Has(CSR_MSTATUS, {MIE_BIT, MPIE_BIT} \cup MppBits, {MPIE_BIT}),
                Is(CSR_MEPC, \hB80)>>, None),
       mret_tick,
       asserts(<<Has(CSR_MSTATUS, {MIE_BIT, MPIE_BIT} \cup MppBits, {MIE_BIT, MPIE_BIT})>>,
              [priv |-> PRIV_U])>>

\* With idle trap lines csr_trap_vector_next is mtvec by definition: that
\* assertion is left out.
illegal_csr_access_guard ==
  force_priv_mode_via_mret(PRIV_M)
  \o <<asserts(<<>>, [priv |-> PRIV_M]),
       write(CSR_MISA, \h1234),
       asserts(<<Has(CSR_MISA, BitIdx, MISA_VALUE)>>,
              [illegal |-> TRUE, to_s |-> FALSE, priv |-> PRIV_M])>>
  \o advance_cycles(1) \o <<asserts(<<>>, [illegal |-> FALSE])>>

\* The same cause with its delegation bit set and cleared.
delegation_cross_over ==
  LET Probe(deleg, mode, cause, mcause, to_s, pc) ==
        <<csr_op(deleg, IF to_s THEN CSR_OP_SET ELSE CSR_OP_CLEAR, {cause})>>
        \o force_priv_mode_via_mret(mode)
        \o <<trigger_trap(pc, mcause, 0, to_s),
             asserts(<<Is(IF to_s THEN CSR_SEPC ELSE CSR_MEPC, pc)>>,
                    [to_s |-> to_s, vector |-> ToBits(IF to_s THEN \h2000 ELSE \h1000)])>>
      Ecall(to_s, pc) ==
        Probe(CSR_MEDELEG, PRIV_U, EXC_ECALL_FROM_U, ToBits(EXC_ECALL_FROM_U), to_s, pc)
      Timer(to_s, pc) ==
        Probe(CSR_MIDELEG, PRIV_S, INTERRUPT_M_TIMER, INTERRUPT(INTERRUPT_M_TIMER), to_s, pc)
  IN  <<write(CSR_MTVEC, \h1000), write(CSR_STVEC, \h2000), write(CSR_MEDELEG, 0),
        write(CSR_MIDELEG, 0)>>
      \o Ecall(TRUE, \hD000) \o Ecall(FALSE, \hD040) \o Timer(TRUE, \hD080) \o Timer(FALSE, \hD0C0)

CsrScript ==
  PortAndCounters \o TrapsAndReturns \o OtherRegisters \o interrupt_priority_matrix
    \o delegated_multitrap_context \o nested_return_sequence \o illegal_csr_access_guard
    \o delegation_cross_over

\* apply_reset: one edge in reset, one idle.
CsrBenchReset ==
  [csr |-> CsrNext(ResetCsr, NoRequest, NoTrap), illegal |-> FALSE, mark |-> {}]

CsrBenchStep(d, s) ==
  LET Tick(q, t) == [d EXCEPT !.csr = CsrNext(d.csr, q, t), !.illegal = csr_illegal_access(q)]
  IN  CASE s.do = "edge" -> Tick(s.req, s.trap)
        [] s.do = "rewrite" ->
             Tick([req |-> TRUE, op |-> CSR_OP_WRITE, addr |-> CSR_MSTATUS,
                   data |-> CopyBits(d.csr.reg[CSR_MSTATUS], s.bits, s.mask)], NoTrap)
        [] s.do = "mark" -> [d EXCEPT !.mark = d.csr.reg[CSR_MINSTRET]]
        [] OTHER         -> d

CsrBenchCheck(d, s) ==
  LET out == [priv |-> d.csr.priv, to_s |-> d.csr.trap_to_s, vector |-> d.csr.trap_vector,
              illegal |-> d.illegal, is_irq |-> XLEN - 1 \in d.csr.reg[CSR_MCAUSE]]
  IN  /\ s.do = "assert" =>
           /\ \A n \in DOMAIN s.reads :
                read_csr(d.csr.reg, s.reads[n][1]) \cap s.reads[n][2] = s.reads[n][3]
           /\ \A k \in DOMAIN s.outs : out[k] = s.outs[k]
      /\ s.do = "since" => ToWord(d.csr.reg[CSR_MINSTRET]) = ToWord(d.mark) + s.n
=============================================================================
