------------------------------- MODULE ExStage -------------------------------
(***************************************************************************)
(* ex_stage.sv, alu.sv and branch_unit.sv over words of XLEN bits.  A      *)
(* "word" operation works on the lower half of the register: 32 bits of 64.*)
(***************************************************************************)
EXTENDS Decoder

HALF == XLEN \div 2

Signed(w)         == IF w >= 2^(XLEN - 1) THEN w - 2^XLEN ELSE w
Low(w, bits)      == w % 2^bits
\* Sign-extend the low 'bits' bits of w.
SignExt(w, bits)  ==
  LET l == Low(w, bits)
  IN  IF l >= 2^(bits - 1) THEN l + (2^XLEN - 2^bits) ELSE l
BoolWord(b)       == IF b THEN 1 ELSE 0

\* alu.sv: the shift amount is the low log2(XLEN) bits of the operand.
Alu(op, a, b) ==
  LET sh == b % XLEN
  IN  CASE op = "ADD"  -> Wrap(a + b)
        [] op = "SUB"  -> Wrap(a - b)
        [] op = "SLL"  -> Low(a, XLEN - sh) * 2^sh
        [] op = "SLT"  -> BoolWord(Signed(a) < Signed(b))
        [] op = "SLTU" -> BoolWord(a < b)
        [] op = "XOR"  -> ToWord((ToBits(a) \ ToBits(b)) \cup (ToBits(b) \ ToBits(a)))
        [] op = "SRL"  -> a \div 2^sh
        [] op = "SRA"  -> Wrap(Signed(a) \div 2^sh)
        [] op = "OR"   -> ToWord(ToBits(a) \cup ToBits(b))
        [] op = "AND"  -> ToWord(ToBits(a) \cap ToBits(b))

\* branch_unit.sv; funct3 2 and 3 are not branches and never taken.
BranchUnitTaken(bop, a, b) ==
  CASE bop = 0 -> a = b
    [] bop = 1 -> a # b
    [] bop = 4 -> Signed(a) < Signed(b)
    [] bop = 5 -> Signed(a) >= Signed(b)
    [] bop = 6 -> a < b
    [] bop = 7 -> a >= b
    [] OTHER   -> FALSE

Shifts == {"SLL", "SRL", "SRA"}

\* Operand A of a word operation: extended as the shift needs it.
OperandA(ctl, a) ==
  CASE ctl.word_op /\ ctl.alu_op = "SRA" -> SignExt(a, HALF)
    [] ctl.word_op /\ ctl.alu_op = "SRL" -> Low(a, HALF)
    [] OTHER -> a

OperandB(ctl, b) == IF ctl.word_op /\ ctl.alu_op \in Shifts THEN b % HALF ELSE b

\* alu_raw_result, from the (forwarded) register operands.
RawResult(ctl, pc, rs1, rs2, imm) ==
  Alu(ctl.alu_op, OperandA(ctl, IF ctl.src1_pc THEN pc ELSE rs1),
                  OperandB(ctl, IF ctl.src2_imm THEN imm ELSE rs2))

AluResult(ctl, pc, rs1, rs2, imm) ==
  LET raw == RawResult(ctl, pc, rs1, rs2, imm)
  IN  IF ctl.word_op THEN SignExt(raw, HALF) ELSE raw

\* Bit 0 of the target is cleared for every jump and branch.
BranchTarget(ctl, pc, rs1, rs2, imm) ==
  2 * (RawResult(ctl, pc, rs1, rs2, imm) \div 2)

BranchTaken(ctl, rs1, rs2) ==
  ctl.is_jump \/ (ctl.is_branch /\ BranchUnitTaken(ctl.branch_op, rs1, rs2))
=============================================================================
