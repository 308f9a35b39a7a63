------------------------------- MODULE Decoder -------------------------------
(***************************************************************************)
(* decoder.sv: from an instruction and the current privilege mode, the     *)
(* control word of the pipeline.                                           *)
(*                                                                         *)
(* An instruction is a record of its fields                                *)
(*   word        the 32-bit encoding, opaque (only saved in xtval)         *)
(*   op          the major opcode                                          *)
(*   f3          funct3                                                    *)
(*   fn          what funct7 (with rs2 for SYSTEM) selects: "base", "alt"  *)
(*               (bit 5 set), "mext" (0000001), or the name of a           *)
(*               privileged instruction                                    *)
(*   rd, rs1, rs2   the raw register fields, present in EVERY format: the  *)
(*               hazard logic compares them even where they are immediate  *)
(*               bits                                                      *)
(*   imm         the immediate of the format, sign-extended to XLEN bits;  *)
(*               imm_i for SYSTEM, whose low 12 bits are the CSR address   *)
(***************************************************************************)
EXTENDS RvPkg

CONSTANT
  Reg          \* register numbers; 0..31 in the RTL

ASSUME RegAssumption == Reg \subseteq Nat /\ 0 \in Reg

Opcode == {"LUI", "AUIPC", "JAL", "JALR", "BRANCH", "LOAD", "STORE", "OP_IMM",
           "OP_IMM_32", "OP", "OP_32", "MISC_MEM", "SYSTEM", "UNSUPPORTED"}

Function == {"base", "alt", "mext", "ECALL", "EBREAK", "MRET", "SRET", "WFI",
             "SFENCE_VMA", "other"}

Instruction ==
  [word : Word, op : Opcode, f3 : 0 .. 7, fn : Function,
   rd : Reg, rs1 : Reg, rs2 : Reg, imm : Word]

\* addi x0, x0, 0
NOP == [word |-> 19, op |-> "OP_IMM", f3 |-> 0, fn |-> "base",
        rd |-> 0, rs1 |-> 0, rs2 |-> 0, imm |-> 0]

\* The instruction memory around the core (external): an unmapped fetch
\* returns a NOP, as in the memories of the test benches.
Fetch(imem, addr) == IF addr \in DOMAIN imem THEN imem[addr] ELSE NOP

-----------------------------------------------------------------------------
(* Privilege checks *)

priv_rank(mode) == mode      \* U = 0, S = 1, reserved = 2, M = 3

priv_ge(cur, req) == priv_rank(cur) >= priv_rank(req)

\* Bits 9:8 of a CSR address are the least privilege that may access it.
csr_access_allowed(cur, addr) == priv_ge(cur, (addr \div 256) % 4)

CsrAddrField(i) == i.imm % 4096

-----------------------------------------------------------------------------
(* The control word. wfi, sfence_vma, fence and fence_i are decoded and    *)
(* carried along, but nothing downstream reads them: they are left out.    *)

AluOp == {"ADD", "SUB", "SLL", "SLT", "SLTU", "XOR", "SRL", "SRA", "OR", "AND"}

\* The defaults: every signal inactive.
IdleCtl ==
  [alu_op |-> "ADD", src1_pc |-> FALSE, src2_imm |-> FALSE, word_op |-> FALSE,
   reg_write_en |-> FALSE, rd |-> 0,
   is_load |-> FALSE, is_store |-> FALSE, mem_size |-> 0,
   is_branch |-> FALSE, branch_op |-> 0, is_jump |-> FALSE, wb_sel |-> "alu",
   is_csr |-> FALSE, csr_op |-> 0, illegal |-> FALSE,
   ecall |-> FALSE, ebreak |-> FALSE, mret |-> FALSE, sret |-> FALSE]

\* alu_op of the register and immediate forms by funct3; SUB exists only
\* in the register forms.
AluOpOf(f3, alt, register) ==
  CASE f3 = 0 -> IF alt /\ register THEN "SUB" ELSE "ADD"
    [] f3 = 1 -> "SLL"
    [] f3 = 2 -> "SLT"
    [] f3 = 3 -> "SLTU"
    [] f3 = 4 -> "XOR"
    [] f3 = 5 -> IF alt THEN "SRA" ELSE "SRL"
    [] f3 = 6 -> "OR"
    [] OTHER  -> "AND"

\* The 32-bit forms exist for funct3 0, 1 and 5 only; funct7 = 1 selects the
\* M extension, which is not implemented. Such an instruction is illegal
\* but keeps its register write enabled.
AluCtl(i, register, word_op) ==
  LET mext   == register /\ i.fn = "mext"
      noWord == word_op /\ i.f3 \notin {0, 1, 5}
  IN  [IdleCtl EXCEPT !.reg_write_en = TRUE,
                      !.src2_imm = ~register,
                      !.word_op  = word_op,
                      !.illegal  = mext \/ noWord,
                      !.alu_op   = IF mext \/ noWord THEN "ADD"
                                   ELSE AluOpOf(i.f3, i.fn = "alt", register)]

\* Privileged instructions: funct3 = 0.
SystemCtl(i, priv) ==
  CASE i.fn = "ECALL"  -> [IdleCtl EXCEPT !.ecall = TRUE]
    [] i.fn = "EBREAK" -> [IdleCtl EXCEPT !.ebreak = TRUE]
    [] i.fn = "MRET"   -> [IdleCtl EXCEPT !.mret = (priv = PRIV_M),
                                          !.illegal = (priv # PRIV_M)]
    [] i.fn = "SRET"   -> [IdleCtl EXCEPT !.sret = priv_ge(priv, PRIV_S),
                                          !.illegal = ~priv_ge(priv, PRIV_S)]
    [] i.fn = "WFI"    -> IdleCtl
    [] i.fn = "SFENCE_VMA" -> [IdleCtl EXCEPT !.illegal = ~priv_ge(priv, PRIV_S)]
    [] OTHER           -> [IdleCtl EXCEPT !.illegal = TRUE]

\* CSR instructions: any other funct3.
CsrCtl(i, priv) ==
  LET allowed == csr_access_allowed(priv, CsrAddrField(i))
  IN  [IdleCtl EXCEPT !.reg_write_en = allowed,
                      !.is_csr       = allowed,
                      !.illegal      = ~allowed,
                      !.csr_op       = i.f3]

DecodeOp(i, priv) ==
  CASE i.op = "LUI"    -> [IdleCtl EXCEPT !.reg_write_en = TRUE, !.src2_imm = TRUE]
    [] i.op = "AUIPC"  -> [IdleCtl EXCEPT !.reg_write_en = TRUE, !.src1_pc = TRUE,
                                          !.src2_imm = TRUE]
    [] i.op = "JAL"    -> [IdleCtl EXCEPT !.reg_write_en = TRUE, !.is_jump = TRUE,
                                          !.src1_pc = TRUE, !.src2_imm = TRUE,
                                          !.wb_sel = "pc4"]
    [] i.op = "JALR"   -> [IdleCtl EXCEPT !.reg_write_en = TRUE, !.is_jump = TRUE,
                                          !.src2_imm = TRUE, !.wb_sel = "pc4"]
    [] i.op = "BRANCH" -> [IdleCtl EXCEPT !.is_branch = TRUE, !.branch_op = i.f3,
                                          !.src1_pc = TRUE, !.src2_imm = TRUE]
    [] i.op = "LOAD"   -> [IdleCtl EXCEPT !.reg_write_en = TRUE, !.is_load = TRUE,
                                          !.mem_size = i.f3, !.src2_imm = TRUE,
                                          !.wb_sel = "mem"]
    [] i.op = "STORE"  -> [IdleCtl EXCEPT !.is_store = TRUE, !.mem_size = i.f3,
                                          !.src2_imm = TRUE]
    [] i.op = "OP_IMM"    -> AluCtl(i, FALSE, FALSE)
    [] i.op = "OP_IMM_32" -> AluCtl(i, FALSE, TRUE)
    [] i.op = "OP"        -> AluCtl(i, TRUE, FALSE)
    [] i.op = "OP_32"     -> AluCtl(i, TRUE, TRUE)
    [] i.op = "MISC_MEM"  -> [IdleCtl EXCEPT !.illegal = i.f3 \notin {0, 1}]
    [] i.op = "SYSTEM"    -> IF i.f3 = 0 THEN SystemCtl(i, priv) ELSE CsrCtl(i, priv)
    [] OTHER              -> [IdleCtl EXCEPT !.illegal = TRUE]

\* rd_addr is the raw field whatever the format.
Decode(i, priv) == [DecodeOp(i, priv) EXCEPT !.rd = i.rd]

\* LUI reads x0; every other format passes the raw field.
Rs1Addr(i) == IF i.op = "LUI" THEN 0 ELSE i.rs1

\* imm stays zero in the formats without one.
HasNoImm(i) ==
  \/ i.op \in {"OP", "OP_32", "MISC_MEM", "UNSUPPORTED"}
  \/ i.op = "SYSTEM" /\ i.f3 = 0

DecodeImm(i) == IF HasNoImm(i) THEN 0 ELSE i.imm
=============================================================================
