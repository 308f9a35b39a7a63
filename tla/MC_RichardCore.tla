---------------------------- MODULE MC_RichardCore ----------------------------
(* RichardCore for TLC: families of small programs. *)
EXTENDS RichardCore, Sequences

\* Encodings are opaque; the templates share one that is not the NOP's.
I(op, f3, fn, rd, rs1, rs2, imm) ==
  [word |-> 1, op |-> op, f3 |-> f3, fn |-> fn, rd |-> rd, rs1 |-> rs1,
   rs2 |-> rs2, imm |-> imm % 2^XLEN]

Addi(rd, rs1, imm) == I("OP_IMM", 0, "base", rd, rs1, 0, imm)
Add(rd, rs1, rs2)  == I("OP", 0, "base", rd, rs1, rs2, 0)
Load(rd, rs1, imm) == I("LOAD", 3, "base", rd, rs1, 0, imm)
Store(rs2, rs1, imm) == I("STORE", 3, "base", 0, rs1, rs2, imm)
StoreReserved(rs2, rs1, imm) == I("STORE", 7, "base", 0, rs1, rs2, imm)
Beq(rs1, rs2, imm) == I("BRANCH", 0, "base", 0, rs1, rs2, imm)
Jal(rd, imm)       == I("JAL", 0, "base", rd, 0, 0, imm)
Jalr(rd, rs1, imm) == I("JALR", 0, "base", rd, rs1, 0, imm)
Csrrw(rd, a, rs1)  == I("SYSTEM", 1, "base", rd, rs1, 0, a)
Csrrs(rd, a, rs1)  == I("SYSTEM", 2, "base", rd, rs1, 0, a)
Priv(fn)           == I("SYSTEM", 0, fn, 0, 0, 0, 0)

Loop == Jal(0, 0)

\* A program: the slots from ResetPC on. Loops in place end it (two, for a
\* jump over one), wait at the machine trap vector, which is 0 after reset,
\* and catch jumps to small addresses.
Program(slots) ==
  [a \in {4 * k : k \in 0 .. 7} \cup {ResetPC + 4 * k : k \in -1 .. Len(slots) + 1} |->
     IF a < ResetPC \/ a >= ResetPC + 4 * Len(slots) THEN Loop
     ELSE slots[1 + (a - ResetPC) \div 4]]

\* Producers and consumers of x1 and x2 through every path: ALU, memory,
\* link register and CSR results; operands of ALU, address, store data,
\* comparison, jump target and CSR source.
DataTemplates ==
  {Addi(1, 0, 8), Addi(1, 2, -4), Add(2, 1, 2), Load(1, 0, 8), Load(2, 1, 4),
   Store(1, 0, 8), Store(2, 1, 4), Beq(1, 2, 8), Jal(1, 8), Jalr(2, 1, 4),
   Csrrw(1, CSR_MSCRATCH, 2), Csrrs(2, CSR_MSCRATCH, 1), NOP}

MC_DataPrograms == {Program(<<a, b, c, d>>) : a, b, c, d \in DataTemplates}

-----------------------------------------------------------------------------
(* Privileged programs.  A prologue enters a mode, three free slots follow *)
(* (the shadows of the second and third are padded), and the trap handlers *)
(* of both modes return behind the instruction that trapped.               *)

Slli(rd, rs1, sh) == I("OP_IMM", 1, "base", rd, rs1, 0, sh)
Illegal           == I("OP", 0, "mext", 2, 0, 0, 0)

Handler(epc, ret) ==
  <<Csrrs(1, epc, 0), NOP, Addi(1, 1, 4), Csrrw(0, epc, 1), Priv(ret), NOP, NOP, Loop>>

MHandler == Handler(CSR_MEPC, "MRET")     \* at 0
SHandler == Handler(CSR_SEPC, "SRET")     \* at 32

\* Delegate illegal instructions, breakpoints and calls from U-mode, then
\* MRET to the instruction behind the prologue; mpp is the mode entered.
EnterMode(mpp) ==
  <<Addi(2, 0, 268), Csrrw(0, CSR_MEDELEG, 2), Addi(2, 0, 32), Csrrw(0, CSR_STVEC, 2),
    Addi(2, 0, mpp), Slli(2, 2, 11), Csrrw(0, CSR_MSTATUS, 2),
    Addi(1, 0, ResetPC + 48), Csrrw(0, CSR_MEPC, 1), Priv("MRET"), NOP, NOP>>

Image(main) ==
  LET low == MHandler \o SHandler
  IN  [a \in {4 * k : k \in 0 .. 15} \cup {ResetPC + 4 * k : k \in -1 .. Len(main)} |->
         CASE a < 64 -> low[1 + a \div 4]
           [] a >= ResetPC /\ a < ResetPC + 4 * Len(main) -> main[1 + (a - ResetPC) \div 4]
           [] OTHER -> Loop]

TrapTemplates ==
  {Priv("ECALL"), Priv("EBREAK"), Priv("MRET"), Priv("SRET"), Illegal,
   Csrrw(1, CSR_MSCRATCH, 2), Csrrs(2, CSR_SSCRATCH, 1), Csrrs(1, CSR_MHARTID, 0),
   Csrrw(0, CSR_MCYCLE, 2), Csrrs(1, CSR_CYCLE, 0),
   Load(1, 0, 9), Store(2, 0, 12), Store(2, 0, 8), StoreReserved(2, 0, 9), Addi(2, 2, 1)}

MC_TrapPrograms ==
  {Image(mode \o <<a, b, NOP, NOP, c, NOP, NOP>>) :
     mode \in {<<>>, EnterMode(0), EnterMode(1)}, a, b \in TrapTemplates,
     c \in {Priv("ECALL"), Priv("MRET"), Csrrw(1, CSR_MSCRATCH, 2), Addi(2, 2, 1)}}

MC_IsaPrograms == MC_DataPrograms \cup MC_TrapPrograms

-----------------------------------------------------------------------------
(* Programs under interrupts.  The prologue sets mstatus.MIE, in M-mode or *)
(* by the MRET that enters U-mode; the handler at 0 returns at once.       *)
(* Nothing adds a register to itself, so that an instruction executed      *)
(* again and again leaves the state finite.                                *)

EnableM == <<Addi(2, 0, 8), Csrrs(0, CSR_MSTATUS, 2)>>
EnterU(mpie) ==
  <<Addi(2, 0, mpie), Csrrw(0, CSR_MSTATUS, 2), Addi(1, 0, ResetPC + 28),
    Csrrw(0, CSR_MEPC, 1), Priv("MRET"), NOP, NOP>>

WithHandler(handler, main) ==
  [a \in {4 * k : k \in 0 .. Len(handler)}
           \cup {ResetPC + 4 * k : k \in 0 .. Len(main) + 1} |->
     CASE a < 4 * Len(handler) -> handler[1 + a \div 4]
       [] a >= ResetPC /\ a < ResetPC + 4 * Len(main) -> main[1 + (a - ResetPC) \div 4]
       [] OTHER -> Loop]

IrqTemplates ==
  {Load(1, 0, 8), Add(2, 0, 1), Jal(1, 8),
   Csrrw(1, CSR_MSCRATCH, 2), Priv("ECALL"), Priv("MRET")}

MC_IrqPrograms ==
  {WithHandler(<<Priv("MRET"), NOP, NOP>>, mode \o <<a, b, c>>) :
     mode \in {EnableM, EnterU(128)}, a, b, c \in IrqTemplates}

NoIrq     == {{}}
TimerIrq  == {{}, {"timer"}}
TimerHeld == {{"timer"}}

\* U-mode code with the timer interrupt delegated and MIE set; both handlers
\* start with instructions that retire.
MC_DelegatedPrograms ==
  {WithHandler(MHandler \o SHandler,
     <<Addi(2, 0, 128), Csrrw(0, CSR_MIDELEG, 2), Csrrw(0, CSR_MSTATUS, 2),
       Addi(1, 0, 32), Csrrw(0, CSR_STVEC, 1), Addi(1, 0, ResetPC + 40),
       Csrrw(0, CSR_MEPC, 1), Priv("MRET"), NOP, NOP, Addi(1, 0, 4)>>)}
=============================================================================
