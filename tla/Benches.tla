------------------------------- MODULE Benches -------------------------------
(***************************************************************************)
(* The test benches as behaviours of the models they test.  A unit bench   *)
(* makes its steps one after the other on the state 'dut' of the unit; a   *)
(* test of the core bench clocks RichardCore through its phases.           *)
(***************************************************************************)
EXTENDS TlbBench, CsrBench, HazardBench, TrapBench, CoreBench

VARIABLES
  bench,       \* the unit bench that runs, or "core"
  test,        \* the number of the core test
  at,          \* the number of the next step, or of the phase
  ticks,       \* edges of that phase so far
  dut          \* the state of the unit under test

benchVars == <<bench, test, at, ticks, dut>>

UnitBench == {"tlb", "csr", "hazard", "trap_ctrl"}

-----------------------------------------------------------------------------
(* Unit benches *)

Script ==
  [tlb |-> TlbScript, csr |-> CsrScript, hazard |-> HazardScript, trap_ctrl |-> TrapScript]

\* The reset each bench applies; a unit without state has none.
BenchReset(b) ==
  CASE b = "tlb" -> TlbBenchReset
    [] b = "csr" -> CsrBenchReset
    [] OTHER     -> [stateless |-> TRUE]

BenchStep(b, d, s) ==
  CASE b = "tlb" -> TlbBenchStep(d, s)
    [] b = "csr" -> CsrBenchStep(d, s)
    [] OTHER     -> d

BenchCheck(b, d, s) ==
  CASE b = "tlb"       -> TlbBenchCheck(d, s)
    [] b = "csr"       -> CsrBenchCheck(d, s)
    [] b = "hazard"    -> HazardBenchCheck(s)
    [] b = "trap_ctrl" -> TrapBenchCheck(s)

UnitStep ==
  /\ bench \in UnitBench /\ at \in DOMAIN Script[bench]
  /\ dut' = BenchStep(bench, dut, Script[bench][at])
  /\ at' = at + 1
  /\ UNCHANGED <<bench, test, ticks, vars>>

-----------------------------------------------------------------------------
(* Core bench *)

Phases == IF bench = "core" THEN CoreScript[test].phases ELSE <<>>

\* The next edge; when a phase has had all of its edges, the next one begins.
CoreTick ==
  LET over == ticks = Phases[at].ticks
      n    == IF over THEN at + 1 ELSE at
  IN  /\ bench = "core" /\ n \in DOMAIN Phases
      /\ IF Phases[n].reset THEN Reset ELSE Clock(Phases[n].lines)
      /\ at' = n
      /\ ticks' = IF over THEN 1 ELSE ticks + 1
      /\ UNCHANGED <<bench, test, dut>>

-----------------------------------------------------------------------------

\* The memories of the core bench: program and data of the test.
Load(t) ==
  /\ imem = CoreScript[t].prog
  /\ dmem = [c \in DCells |-> IF 8 * c \in DOMAIN CoreScript[t].data
                              THEN CoreScript[t].data[8 * c] ELSE 0]

BenchInit ==
  /\ bench \in UnitBench \cup {"core"}
  /\ test \in IF bench = "core" THEN DOMAIN CoreScript ELSE {1}
  /\ at = 1 /\ ticks = 0
  /\ dut = BenchReset(bench)
  /\ pc = ResetPC
  /\ if_id = IfIdBubble /\ id_ex = IdExReset /\ ex_mem = ExMemReset
  /\ regs = ResetRegs /\ csr = ResetCsr
  /\ Load(test)
  /\ mem_wb = MemWbReset(dmem)

BenchNext == UnitStep \/ CoreTick

BenchSpec == BenchInit /\ [][BenchNext]_<<benchVars, vars>>

\* Every check(), assert() and ASSERT_EQ of the benches holds at the place the
\* bench makes it, of the very models of csr_unit, tlb, hazard_unit,
\* trap_ctrl and richard_core the other runs are about.
ChecksHold ==
  IF bench = "core"
  THEN at \in DOMAIN Phases /\ ticks = Phases[at].ticks =>
         \A x \in Phases[at].asserts : Asserted(x)
  ELSE at \in DOMAIN Script[bench] => BenchCheck(bench, dut, Script[bench][at])
=============================================================================
