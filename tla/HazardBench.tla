----------------------------- MODULE HazardBench -----------------------------
(***************************************************************************)
(* tb/unit/tb_hazard_unit.cc: the inputs of each test, over the idle ones, *)
(* and the outputs it checks.  The unit has no state.                      *)
(***************************************************************************)
EXTENDS HazardUnit, Sequences, TLC

\* reset(): every input zero.
QuietInputs ==
  [id_rs1 |-> 0, id_rs2 |-> 0, ex_rs1 |-> 0, ex_rs2 |-> 0, ex_rd |-> 0, load |-> FALSE,
   taken |-> FALSE, branch_pc |-> 0, mem_rd |-> 0, mem_we |-> FALSE, stall |-> FALSE,
   flush |-> FALSE, trap_sel |-> FALSE, trap_pc |-> 0, wb_rd |-> 0, wb_we |-> FALSE]

\* The outputs of hazard_unit for inputs d.
HazardOutputs(d) ==
  HazardControl(d.flush, d.stall, LoadUseStall(d.load, d.ex_rd, d.id_rs1, d.id_rs2), d.taken)
    @@ PcRedirect(d.trap_sel, d.trap_pc, d.taken, d.branch_pc)
    @@ [a |-> ForwardSel(d.ex_rs1, d.mem_we, d.mem_rd, d.wb_we, d.wb_rd),
        b |-> ForwardSel(d.ex_rs2, d.mem_we, d.mem_rd, d.wb_we, d.wb_rd)]

Stalled(stages) ==
  [k \in {"if_stall", "if_id_stall", "id_ex_stall", "ex_mem_stall"} |-> k \in stages]
Test(inputs, outputs) == [in |-> inputs, out |-> outputs]

\* Tests 1 to 9: what is forwarded.
ForwardingTests ==
  LET MEM(r) == [mem_rd |-> r, mem_we |-> TRUE]
      WB(r)  == [wb_rd |-> r, wb_we |-> TRUE]
  IN <<Test([mem_we |-> FALSE],
            [a |-> "reg", b |-> "reg", if_stall |-> FALSE, if_id_flush |-> FALSE,
             id_ex_flush |-> FALSE, id_ex_stall |-> FALSE, ex_mem_stall |-> FALSE,
             sel |-> FALSE, is_trap |-> FALSE]),
       Test([ex_rs1 |-> 5] @@ MEM(5), [a |-> "mem", b |-> "reg"]),
       Test([ex_rs1 |-> 7] @@ WB(7), [a |-> "wb"]),
       Test([ex_rs2 |-> 10] @@ MEM(10), [b |-> "mem", a |-> "reg"]),
       Test([ex_rs2 |-> 12] @@ WB(12), [b |-> "wb"]),
       Test([ex_rs1 |-> 3] @@ MEM(3) @@ WB(3), [a |-> "mem"]),
       Test([ex_rs2 |-> 3] @@ MEM(3) @@ WB(3), [b |-> "mem"]),
       Test([ex_rs1 |-> 0] @@ MEM(0), [a |-> "reg"]),
       Test([ex_rs2 |-> 0] @@ WB(0), [b |-> "reg"]),
       Test([ex_rs1 |-> 5, mem_rd |-> 5], [a |-> "reg"]),
       Test([ex_rs2 |-> 5, wb_rd |-> 5], [b |-> "reg"]),
       Test([ex_rs1 |-> 8, ex_rs2 |-> 9] @@ MEM(8) @@ WB(9), [a |-> "mem", b |-> "wb"])>>

\* Tests 10 to 20: stalls, flushes and redirects, and which one wins.
StallTests ==
  LET Load(r)  == [load |-> TRUE, ex_rd |-> r]
      Branch   == [taken |-> TRUE]
      Bubble   == [if_stall |-> TRUE, if_id_stall |-> TRUE, id_ex_flush |-> TRUE]
      Flushes  == [if_id_flush |-> TRUE, id_ex_flush |-> TRUE]
      NoStall  == [if_stall |-> FALSE, if_id_stall |-> FALSE]
  IN <<Test([id_rs1 |-> 4] @@ Load(4), [id_ex_stall |-> FALSE] @@ Bubble),
       Test([id_rs2 |-> 6] @@ Load(6), Bubble),
       Test([id_rs1 |-> 0] @@ Load(0), [if_stall |-> FALSE]),
       Test([id_rs1 |-> 4, ex_rd |-> 4], [if_stall |-> FALSE]),
       Test([branch_pc |-> \h400] @@ Branch,
            [sel |-> TRUE, is_trap |-> FALSE, target |-> \h400] @@ Flushes @@ NoStall),
       Test([id_rs1 |-> 4] @@ Load(4) @@ Branch, Flushes @@ NoStall),
       Test([stall |-> TRUE],
            [if_id_flush |-> FALSE, id_ex_flush |-> FALSE]
              @@ Stalled({"if_stall", "if_id_stall", "id_ex_stall", "ex_mem_stall"})),
       Test([stall |-> TRUE, id_rs1 |-> 4] @@ Load(4),
            [if_stall |-> TRUE, id_ex_stall |-> TRUE, id_ex_flush |-> FALSE]),
       Test([stall |-> TRUE, branch_pc |-> \h410] @@ Branch, [if_stall |-> FALSE] @@ Flushes),
       Test([trap_sel |-> TRUE, flush |-> TRUE, trap_pc |-> \h800, branch_pc |-> \h900,
             stall |-> TRUE] @@ Branch,
            [sel |-> TRUE, is_trap |-> TRUE, target |-> \h800] @@ Flushes @@ Stalled({})),
       Test([flush |-> TRUE, id_rs1 |-> 4] @@ Load(4), Flushes @@ NoStall)>>

HazardScript == ForwardingTests \o StallTests

HazardBenchCheck(s) ==
  LET out == HazardOutputs(s.in @@ QuietInputs)
  IN  \A k \in DOMAIN s.out : out[k] = s.out[k]
=============================================================================
