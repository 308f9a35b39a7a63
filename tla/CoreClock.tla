------------------------------ MODULE CoreClock ------------------------------
(***************************************************************************)
(* The core driven by a free-running clock, for what must happen           *)
(* eventually.  clk changes with every edge, also with one that leaves all *)
(* registers as they are, and never stops changing: that is the only       *)
(* fairness there is, and what an oscillator guarantees.                   *)
(***************************************************************************)
EXTENDS RichardCore

VARIABLE clk

Edge == clk' = ~clk

ClockSpec ==
  /\ Init /\ clk = FALSE
  /\ [][Tick /\ Edge]_<<vars, clk>>
  /\ WF_clk(Edge)

\* Programs that keep the contract of DisciplinedTick for ever.
DisciplinedClockSpec ==
  /\ Init /\ clk = FALSE
  /\ [][DisciplinedTick /\ Edge]_<<vars, clk>>
  /\ WF_clk(Edge)

-----------------------------------------------------------------------------
ArchState == <<ArchPc, regs, ArchCsr, ArchMem>>

\* Stalls, flushes and redirects end: as long as the one-at-a-time machine
\* has an instruction that would change its state, the pipeline eventually
\* completes it. (Weak fairness of the steps of IsaMachine; a jump to itself
\* changes nothing and is where a program rests.)
MakesProgress ==
  \/ []<>(ArchAfter(imem, ArchPc, regs, ArchCsr, ArchMem) = ArchState)
  \/ []<><<TRUE>>_ArchState

\* docs/architecture.md: a trap taken in U-mode may enter S-mode by
\* "interrupt (delegated)". The S-mode handler must then run: it retires an
\* instruction or leaves S-mode.
DelegatedHandlerRuns == csr.priv = PRIV_S ~> mem_wb.v \/ csr.priv # PRIV_S
=============================================================================
