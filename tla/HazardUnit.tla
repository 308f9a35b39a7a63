------------------------------ MODULE HazardUnit ------------------------------
(***************************************************************************)
(* hazard_unit.sv: forwarding selects, load-use detection, stalls, flushes *)
(* and the choice of the next PC.  Purely combinational.                   *)
(***************************************************************************)
EXTENDS Integers

\* forward_a_sel / forward_b_sel: MEM is more recent than WB.
ForwardSel(rs, mem_we, mem_rd, wb_we, wb_rd) ==
  CASE mem_we /\ mem_rd # 0 /\ mem_rd = rs -> "mem"
    [] ~(mem_we /\ mem_rd # 0 /\ mem_rd = rs)
         /\ wb_we /\ wb_rd # 0 /\ wb_rd = rs -> "wb"
    [] OTHER -> "reg"

\* Faulty variant: rs2 is not compared.
LoadUseStallRs1Only(ex_is_load, ex_rd, id_rs1, id_rs2) ==
  ex_is_load /\ ex_rd # 0 /\ ex_rd = id_rs1

\* The load in EX feeds the instruction in ID. The raw rs2 field is compared
\* whether or not the format has an rs2.
LoadUseStall(ex_is_load, ex_rd, id_rs1, id_rs2) ==
  ex_is_load /\ ex_rd # 0 /\ (ex_rd = id_rs1 \/ ex_rd = id_rs2)

\* Faulty variants: ID/EX survives a trap; the load-use stall holds ID/EX
\* instead of emptying it.
HazardControlIdExKept(trap_flush, mem_stall, load_use, branch_taken) ==
  LET stall == ~trap_flush /\ (mem_stall \/ load_use) /\ ~branch_taken
  IN  [if_stall |-> stall, if_id_stall |-> stall,
       id_ex_stall |-> ~trap_flush /\ mem_stall,
       ex_mem_stall |-> ~trap_flush /\ mem_stall,
       if_id_flush |-> trap_flush \/ branch_taken,
       id_ex_flush |-> ~trap_flush /\ ((~mem_stall /\ load_use) \/ branch_taken)]
HazardControlHoldsLoad(trap_flush, mem_stall, load_use, branch_taken) ==
  LET stall == ~trap_flush /\ (mem_stall \/ load_use) /\ ~branch_taken
  IN  [if_stall |-> stall, if_id_stall |-> stall, id_ex_stall |-> stall,
       ex_mem_stall |-> ~trap_flush /\ mem_stall,
       if_id_flush |-> trap_flush \/ branch_taken,
       id_ex_flush |-> trap_flush \/ branch_taken]

\* Stall and flush enables.
HazardControl(trap_flush, mem_stall, load_use, branch_taken) ==
  LET freeze == ~trap_flush /\ mem_stall
      bubble == ~trap_flush /\ ~mem_stall /\ load_use
      branch == ~trap_flush /\ branch_taken
  IN  [if_stall     |-> (freeze \/ bubble) /\ ~branch,
       if_id_stall  |-> (freeze \/ bubble) /\ ~branch,
       id_ex_stall  |-> freeze,
       ex_mem_stall |-> freeze,
       if_id_flush  |-> trap_flush \/ branch,
       id_ex_flush  |-> trap_flush \/ bubble \/ branch]

\* pc_redirect_sel, pc_redirect_target and pc_redirect_is_trap.
PcRedirect(trap_sel, trap_pc, branch_taken, branch_pc) ==
  [sel     |-> trap_sel \/ branch_taken,
   target  |-> CASE trap_sel -> trap_pc
                 [] ~trap_sel /\ branch_taken -> branch_pc
                 [] OTHER -> 0,
   is_trap |-> trap_sel]

\* if_stage.sv with the redirect of the hazard unit: a trap redirect acts
\* even on a stalled fetch, a branch redirect does not.
NextFetchPc(pc, stall, trap_flush, trap_pc, branch_taken, branch_pc, seq_pc) ==
  CASE trap_flush -> trap_pc
    [] ~trap_flush /\ stall -> pc
    [] ~trap_flush /\ ~stall /\ branch_taken -> branch_pc
    [] OTHER -> seq_pc
=============================================================================
