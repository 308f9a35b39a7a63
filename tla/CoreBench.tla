------------------------------ MODULE CoreBench ------------------------------
(***************************************************************************)
(* tb/core/tb_core.cc: the programs the integration bench runs on          *)
(* richard_core, and what it asserts of them.                              *)
(*                                                                         *)
(* A test is [prog, data, phases]: an instruction memory, the data memory  *)
(* it starts from, and the stretches of clock edges it is run for, each    *)
(* with what is asserted at its end.  Constants of more than XLEN bits are *)
(* cut to their low XLEN; the boot address is ResetPC.                     *)
(***************************************************************************)
EXTENDS RichardCore, Sequences, TLC

-----------------------------------------------------------------------------
(* Instructions, with the register fields a format does not have filled by *)
(* the immediate bits that lie there.                                      *)

ImmBits(imm, low, width) == (imm \div 2^low) % 2^width

Encode(op, f3, fn, rd, rs1, rs2, imm) ==
  [word |-> 1, op |-> op, f3 |-> f3, fn |-> fn, rd |-> rd, rs1 |-> rs1, rs2 |-> rs2,
   imm |-> Wrap(imm)]

rv_i_type(imm, rs1, f3, rd, op) == Encode(op, f3, "base", rd, rs1, ImmBits(imm, 0, 5), imm)
rv_s_type(imm, rs2, rs1, f3) == Encode("STORE", f3, "base", ImmBits(imm, 0, 5), rs1, rs2, imm)
rv_u_type(imm20, rd) ==
  Encode("LUI", ImmBits(imm20, 0, 3), "base", rd, ImmBits(imm20, 3, 5), ImmBits(imm20, 8, 5),
         imm20 * 4096)
rv_j_type(imm, rd) ==
  Encode("JAL", ImmBits(imm, 12, 3), "base", rd, ImmBits(imm, 15, 5),
         2 * ImmBits(imm, 1, 4) + ImmBits(imm, 11, 1), imm)
rv_b_type(imm, rs2, rs1, f3) ==
  Encode("BRANCH", f3, "base", 2 * ImmBits(imm, 1, 4) + ImmBits(imm, 11, 1), rs1, rs2, imm)

ILLEGAL == [Encode("UNSUPPORTED", 7, "other", 31, 31, 31, 0) EXCEPT !.word = 2^XLEN - 1]
ADDI(rd, rs1, imm)  == rv_i_type(imm, rs1, 0, rd, "OP_IMM")
ADD(rd, rs1, rs2)   == Encode("OP", 0, "base", rd, rs1, rs2, 0)
SUB(rd, rs1, rs2)   == Encode("OP", 0, "alt", rd, rs1, rs2, 0)
LD(rd, rs1, imm)    == rv_i_type(imm, rs1, 3, rd, "LOAD")
SD(rs2, rs1, imm)   == rv_s_type(imm, rs2, rs1, 3)
BEQ(rs1, rs2, imm)  == rv_b_type(imm, rs2, rs1, 0)
BNE(rs1, rs2, imm)  == rv_b_type(imm, rs2, rs1, 1)
LUI(rd, imm)        == rv_u_type(imm, rd)
JAL(rd, imm)        == rv_j_type(imm, rd)
ECALL               == Encode("SYSTEM", 0, "ECALL", 0, 0, 0, 0)
MRET                == Encode("SYSTEM", 0, "MRET", 0, 0, 2, 0)
SRET                == Encode("SYSTEM", 0, "SRET", 0, 0, 2, 0)
CSRRW(rd, a, rs1)   == rv_i_type(a, rs1, 1, rd, "SYSTEM")
CSRRS(rd, a, rs1)   == rv_i_type(a, rs1, 2, rd, "SYSTEM")

nops(count) == [n \in 1 .. count |-> NOP]

\* The upper part is rounded, as the lower one is added as a signed number.
load_imm64(rd, imm) ==
  LET lower == imm % 4096
  IN  <<LUI(rd, (imm + 2048) \div 4096),
        ADDI(rd, rd, IF lower >= 2048 THEN lower - 4096 ELSE lower)>>

csrrw_imm64(tmp, a, value) == load_imm64(tmp, value) \o nops(6) \o <<CSRRW(0, a, tmp)>>

-----------------------------------------------------------------------------
(* Memories and trap handlers *)

LOG_ENTRY_STRIDE        == 24
MACHINE_TRAP_VECTOR     == 0
SUPERVISOR_TRAP_VECTOR  == \h100
MACHINE_LOG_PTR_ADDR    == \hFFF0
SUPERVISOR_LOG_PTR_ADDR == \hFFE0

load_program(base, program) ==
  [a \in {base + 4 * (n - 1) : n \in DOMAIN program} |-> program[1 + (a - base) \div 4]]

\* Appends cause, epc and tval to the log, and returns behind the instruction.
trap_handler_program(log_ptr, cause, epc, tval, ret) ==
  load_imm64(30, log_ptr) \o <<LD(5, 30, 0)>> \o nops(12)
    \o <<CSRRS(6, cause, 0)>> \o nops(4) \o <<SD(6, 5, 0)>>
    \o <<CSRRS(7, epc, 0)>> \o nops(4) \o <<SD(7, 5, 8)>>
    \o <<CSRRS(28, tval, 0)>> \o nops(4) \o <<SD(28, 5, 16)>>
    \o <<ADDI(5, 5, LOG_ENTRY_STRIDE), SD(5, 30, 0), CSRRS(29, epc, 0), ADDI(29, 29, 4)>>
    \o nops(12) \o <<CSRRW(0, epc, 29), ret, NOP, NOP>>

machine_trap_handler_program ==
  trap_handler_program(MACHINE_LOG_PTR_ADDR, CSR_MCAUSE, CSR_MEPC, CSR_MTVAL, MRET)

supervisor_trap_handler_program ==
  trap_handler_program(SUPERVISOR_LOG_PTR_ADDR, CSR_SCAUSE, CSR_SEPC, CSR_STVAL, SRET)

install_trap_handlers ==
  load_program(MACHINE_TRAP_VECTOR, machine_trap_handler_program)
    @@ load_program(SUPERVISOR_TRAP_VECTOR, supervisor_trap_handler_program)

-----------------------------------------------------------------------------
(* Running a test *)

Phase(reset, ticks, lines, asserts) ==
  [reset |-> reset, ticks |-> ticks, lines |-> lines, asserts |-> asserts]

reset(cycles)     == Phase(TRUE, cycles, {}, {})
run(n, asserts)   == Phase(FALSE, n, {}, asserts)
run_with(lines, n, asserts) == Phase(FALSE, n, lines, asserts)

\* What an ASSERT_EQ is about: the fetch address, the data port, or memory.
PcIs(offset)       == [of |-> "pc", at |-> 0, is |-> offset]
NoRead             == [of |-> "dmem_read_en", at |-> 0, is |-> 0]
NoWrite            == [of |-> "dmem_write_en", at |-> 0, is |-> 0]
MemIs(addr, value) == [of |-> "mem", at |-> addr, is |-> value]

\* The memory as the bench sees it after tick(): the store that came into
\* MEM on the edge has been written.
BenchMem == MemWritten(dmem, ex_mem.ctl, ex_mem.alu, ex_mem.rs2_data)

Asserted(x) ==
  CASE x.of = "pc"            -> pc = ResetPC + x.is
    [] x.of = "dmem_read_en"  -> dmem_read_req(ex_mem.ctl, ex_mem.alu) = (x.is = 1)
    [] x.of = "dmem_write_en" -> dmem_write_req(ex_mem.ctl, ex_mem.alu) = (x.is = 1)
    [] x.of = "mem"           -> BenchMem[Cell(x.at)] = x.is

CoreTest(program, data, phases) ==
  [prog |-> load_program(ResetPC, program), data |-> data, phases |-> phases]

Empty == [a \in {} |-> 0]

-----------------------------------------------------------------------------
(* The tests of main() *)

test_reset == CoreTest(<<>>, Empty, <<reset(3), run(1, {PcIs(4), NoRead, NoWrite})>>)

test_nop_flow ==
  CoreTest(nops(8), Empty,
    <<reset(3), run(1, {PcIs(4)}), run(1, {PcIs(8)}), run(1, {PcIs(12)}),
      run(1, {PcIs(16), NoRead, NoWrite})>>)

test_addi ==
  CoreTest(<<ADDI(1, 0, 42)>> \o nops(5), Empty,
    <<reset(3), run(7, {NoRead, NoWrite, PcIs(28)})>>)

test_forwarding_wb ==
  CoreTest(<<ADDI(1, 0, 10), NOP, NOP, ADDI(2, 1, 20)>> \o nops(5), Empty,
    <<reset(3), run(10, {NoRead, NoWrite})>>)

test_forwarding_mem ==
  CoreTest(<<ADDI(1, 0, 10), NOP, ADDI(2, 1, 5)>> \o nops(5), Empty,
    <<reset(3), run(10, {NoRead, NoWrite})>>)

\* The tests that only ask the pipeline to survive assert nothing.
test_load_use_stall ==
  CoreTest(<<ADDI(1, 0, \h100), NOP, NOP, LD(2, 1, 0), ADD(3, 2, 0)>> \o nops(5),
    \h100 :> \h0AFEBABE, <<reset(3), run(12, {})>>)

test_store ==
  CoreTest(<<ADDI(1, 0, \h200), ADDI(2, 0, \h55), NOP, NOP, NOP, SD(2, 1, 0)>> \o nops(5),
    Empty, <<reset(3), run(14, {MemIs(\h200, \h55)})>>)

test_branch_taken ==
  CoreTest(<<ADDI(1, 0, 5), ADDI(2, 0, 5), NOP, NOP, BEQ(1, 2, 8), ADDI(3, 0, 99),
             ADDI(4, 0, 77)>> \o nops(5), Empty, <<reset(3), run(12, {})>>)

test_branch_not_taken ==
  CoreTest(<<ADDI(1, 0, 5), ADDI(2, 0, 10), NOP, NOP, BEQ(1, 2, 8), ADDI(3, 0, 99),
             ADDI(4, 0, 77)>> \o nops(5), Empty, <<reset(3), run(15, {})>>)

test_pipeline_stress ==
  CoreTest(<<ADDI(1, 0, 100), ADDI(2, 0, 200), ADDI(3, 0, \h300), NOP, ADD(4, 1, 2),
             SUB(5, 2, 1), NOP, LD(6, 3, 0), NOP, ADD(7, 6, 1), SD(4, 3, 8), NOP,
             BNE(1, 2, 8), ADDI(8, 0, 255), ADDI(9, 0, \h42)>> \o nops(5),
    \h300 :> \h10ABCDEF, <<reset(3), run(25, {})>>)

test_branch_flush_timing ==
  CoreTest(<<ADDI(1, 0, 0), NOP, NOP, NOP, BEQ(1, 0, 12), ADDI(10, 0, 1), ADDI(11, 0, 2),
             ADDI(12, 0, 3)>> \o nops(4), Empty, <<reset(3), run(15, {NoRead, NoWrite})>>)

test_reset_mid_execution ==
  CoreTest(<<ADDI(1, 0, 42), ADDI(2, 0, 100), ADD(3, 1, 2)>> \o nops(5), Empty,
    <<reset(3), run(3, {}), reset(3), run(1, {PcIs(4), NoRead, NoWrite})>>)

Fib == <<0, 1, 1, 2, 3, 5, 8, 13, 21, 34>>

test_fibonacci ==
  CoreTest(<<ADDI(5, 0, 10), LUI(6, \h10000), ADDI(7, 0, 0), ADDI(8, 0, 1), BEQ(5, 0, 32),
             SD(7, 6, 0), ADD(9, 7, 8), ADDI(7, 8, 0), ADDI(8, 9, 0), ADDI(6, 6, 8),
             ADDI(5, 5, -1), JAL(0, -28), JAL(0, 0)>>,
    Empty, <<reset(3), run(200, {MemIs(\h10000000 + 8 * (n - 1), Fib[n]) : n \in 1 .. 10})>>)

-----------------------------------------------------------------------------
(* The trap and interrupt cases *)

\* Handlers installed, the log empty.
TrapCase(log_base, program, phases) ==
  LET t == CoreTest(program, MACHINE_LOG_PTR_ADDR :> log_base, phases)
  IN  [t EXCEPT !.prog = @ @@ install_trap_handlers]

set_vector == nops(8) \o csrrw_imm64(1, CSR_MTVEC, MACHINE_TRAP_VECTOR)

external_cause == 2^(XLEN - 1) + INTERRUPT_M_EXTERNAL

\* fetch_trap_record, entry 0.
CauseIs(base, value) == MemIs(base, value)
TvalIs(base, value)  == MemIs(base + 16, value)
LoggedOnce(base)     == MemIs(MACHINE_LOG_PTR_ADDR, base + LOG_ENTRY_STRIDE)

mem_fault_pipeline ==
  TrapCase(\h9000,
    set_vector \o nops(8) \o load_imm64(3, \h1003) \o <<LD(5, 3, 0), JAL(0, -4)>>,
    <<reset(3), run(80, {LoggedOnce(\h9000), CauseIs(\h9000, EXC_LOAD_FAULT),
                         TvalIs(\h9000, \h1003), MemIs(\h2000, 0)})>>)

double_exception_flush ==
  TrapCase(\h9100, set_vector \o nops(8) \o <<ILLEGAL, NOP, JAL(0, -4)>>,
    <<reset(3), run(80, {CauseIs(\h9100, EXC_INST_ILLEGAL), LoggedOnce(\h9100)})>>)

mret_sret_redirect ==
  TrapCase(\h9200,
    set_vector \o nops(8)
      \o load_imm64(11, \h9400) \o load_imm64(12, \h0AFECAFE) \o <<SD(12, 11, 0), ECALL>>
      \o load_imm64(13, \h9408) \o load_imm64(14, \h3EEFBEEF) \o <<SD(14, 13, 0), JAL(0, 0)>>,
    <<reset(3), run(300, {CauseIs(\h9200, EXC_ECALL_FROM_M), MemIs(\h9400, \h0AFECAFE)})>>)

branch_interrupt_priority ==
  TrapCase(\h9600,
    set_vector \o csrrw_imm64(2, CSR_MSTATUS, 2^3)
      \o csrrw_imm64(3, CSR_MIE, 2^INTERRUPT_M_EXTERNAL) \o <<JAL(0, 0)>>,
    <<reset(3), run(10, {}), run_with({"external"}, 40, {}),
      run(20, {CauseIs(\h9600, external_cause), TvalIs(\h9600, 0)})>>)

mie_masking_response ==
  TrapCase(\h9700,
    set_vector \o csrrw_imm64(2, CSR_MIE, 2^INTERRUPT_M_EXTERNAL)
      \o <<CSRRW(0, CSR_MSTATUS, 0)>> \o nops(56)
      \o csrrw_imm64(4, CSR_MSTATUS, 2^3) \o <<JAL(0, 0)>>,
    <<reset(3), run_with({"external"}, 20, {CauseIs(\h9700, 0)}),
      run_with({"external"}, 100, {CauseIs(\h9700, external_cause)})>>)

CoreScript ==
  <<test_reset, test_nop_flow, test_addi, test_forwarding_wb, test_forwarding_mem,
    test_load_use_stall, test_store, test_branch_taken, test_branch_not_taken,
    test_pipeline_stress, test_branch_flush_timing, test_reset_mid_execution, test_fibonacci,
    mem_fault_pipeline, double_exception_flush, mret_sret_redirect,
    branch_interrupt_priority, mie_masking_response>>

BenchReg == 0 .. 31

\* The cells the tests touch; a log holds up to four entries.
BenchCells ==
  {Cell(a) : a \in {\h100, \h200, \h300, \h308, \h2000, \h9400, \h9408,
                    MACHINE_LOG_PTR_ADDR, SUPERVISOR_LOG_PTR_ADDR}}
    \cup {Cell(b) + k : b \in {\h9000, \h9100, \h9200, \h9600, \h9700, \h10000000},
                        k \in 0 .. 11}
=============================================================================
