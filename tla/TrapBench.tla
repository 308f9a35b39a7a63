------------------------------ MODULE TrapBench ------------------------------
(***************************************************************************)
(* tb/unit/tb_trap_ctrl.cc: the inputs of each test, over the defaults,    *)
(* and the outputs it checks.  The controller has no state.  Addresses     *)
(* lose the digits above XLEN.                                             *)
(***************************************************************************)
EXTENDS TrapCtrl, Sequences, TLC

\* drive_defaults: the wires from WB, and the registers the controller sees.
QuietWb ==
  [pc |-> 0, bad_addr |-> 0, bad_instr |-> 0, illegal |-> FALSE, ebreak |-> FALSE,
   ecall |-> FALSE, load_fault |-> FALSE, store_fault |-> FALSE,
   instr_page_fault |-> FALSE, load_page_fault |-> FALSE, store_page_fault |-> FALSE,
   mret |-> FALSE, sret |-> FALSE]
DefaultCsrs ==
  [ResetCsr EXCEPT !.reg[CSR_MTVEC] = ToBits(\h800), !.reg[CSR_STVEC] = ToBits(\h400),
                   !.reg[CSR_MEPC] = ToBits(\h1000), !.reg[CSR_SEPC] = ToBits(\h2000)]

\* priv and a few registers, over the defaults.
Csrs(priv, regs) == [DefaultCsrs EXCEPT !.priv = priv, !.reg = regs @@ DefaultCsrs.reg]

Probe(wb, csrs, irq, out) == [wb |-> wb, csrs |-> csrs, irq |-> irq, out |-> out]

ExceptionTests ==
  LET Fault(flag, cause, addr) ==
        Probe(flag @@ [bad_addr |-> addr], DefaultCsrs, {},
              [mcause |-> ToBits(cause), mtval |-> ToBits(addr)])
  IN <<Probe([illegal |-> TRUE, pc |-> \h1234, bad_instr |-> \hEADBEEF],
             Csrs(PRIV_M, CSR_MTVEC :> ToBits(\h880)), {},
             [trigger |-> TRUE, mcause |-> ToBits(EXC_INST_ILLEGAL), mtval |-> ToBits(\hEADBEEF),
              mepc |-> ToBits(\h1234), to_s |-> FALSE, next_pc |-> \h880]),
       Probe([ecall |-> TRUE, pc |-> \h5678], Csrs(PRIV_S, CSR_MTVEC :> ToBits(\h440)), {},
             [trigger |-> TRUE, mcause |-> ToBits(EXC_ECALL_FROM_S), mtval |-> {},
              next_pc |-> \h440]),
       Fault([load_page_fault |-> TRUE], EXC_LOAD_PAGE_FAULT, \hC0FFEE0),
       Fault([store_page_fault |-> TRUE], EXC_STORE_PAGE_FAULT, \hDBEEF00),
       Fault([load_fault |-> TRUE], EXC_LOAD_FAULT, \hDEF0010),
       Fault([store_fault |-> TRUE], EXC_STORE_FAULT, \hDEF0020)>>

\* Interrupts: priority, mask, delegation, vectored mode.
InterruptTests ==
  LET Enabled == CSR_MSTATUS :> {MIE_BIT}
      Irq(n)  == ToBits(n) \cup {XLEN - 1}
  IN <<Probe([pc |-> \h4000], Csrs(PRIV_M, Enabled @@ CSR_MTVEC :> ToBits(\h301)), IrqLine,
             [trigger |-> TRUE, mcause |-> Irq(INTERRUPT_M_EXTERNAL), mtval |-> {},
              next_pc |-> \h300 + 4 * INTERRUPT_M_EXTERNAL]),
       Probe([pc |-> 0], DefaultCsrs, {"external"}, [trigger |-> FALSE]),
       Probe([pc |-> \hABCD],
             Csrs(PRIV_S, Enabled @@ CSR_STVEC :> ToBits(\h881)
                            @@ CSR_MIDELEG :> {INTERRUPT_M_TIMER}), {"timer"},
             [to_s |-> TRUE, next_pc |-> \h880 + 4 * INTERRUPT_M_TIMER,
              mcause |-> Irq(INTERRUPT_M_TIMER)])>>

ReturnTests ==
  <<Probe([mret |-> TRUE], Csrs(PRIV_M, CSR_MEPC :> ToBits(\hAFEBABE)), {},
          [mret |-> TRUE, next_pc |-> \hAFEBABE, flush |-> TRUE, trigger |-> FALSE]),
    Probe([sret |-> TRUE], Csrs(PRIV_S, CSR_SEPC :> ToBits(\h13579BDF)), {},
          [sret |-> TRUE, next_pc |-> \h13579BDF, flush |-> TRUE])>>

TrapScript == ExceptionTests \o InterruptTests \o ReturnTests

TrapBenchCheck(s) ==
  LET wb  == s.wb @@ QuietWb
      cmd == TrapCommand(wb, s.csrs, s.irq)
      out == cmd @@ [flush |-> trap_flush_req(cmd), next_pc |-> trap_next_pc(wb, s.csrs, s.irq)]
  IN  \A k \in DOMAIN s.out : out[k] = s.out[k]
=============================================================================
