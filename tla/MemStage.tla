------------------------------- MODULE MemStage -------------------------------
(***************************************************************************)
(* mem_stage.sv: alignment checks, store lanes and load extension.         *)
(*                                                                         *)
(* The data memory behind the core is the compliance runner's: it answers  *)
(* in the same cycle, in cells of eight bytes of which the model keeps the *)
(* low XLEN bits (all of them when XLEN = 64), and a store writes as many  *)
(* bytes as its size code says.  The byte strobes of MEM do not leave the  *)
(* core.                                                                   *)
(***************************************************************************)
EXTENDS ExStage

\* Bits moved by an access of this size; funct3 4..6 are the unsigned loads.
AccessBits(size) ==
  LET bits == 8 * 2^(size % 4) IN IF bits > XLEN THEN XLEN ELSE bits

addr_misaligned(size, addr) == size # 7 /\ addr % 2^(size % 4) # 0

LoadMisaligned(ctl, addr)  == ctl.is_load /\ addr_misaligned(ctl.mem_size, addr)
StoreMisaligned(ctl, addr) == ctl.is_store /\ addr_misaligned(ctl.mem_size, addr)

dmem_read_req(ctl, addr)  == ctl.is_load /\ ~LoadMisaligned(ctl, addr)
dmem_write_req(ctl, addr) == ctl.is_store /\ ~StoreMisaligned(ctl, addr)

Cell(addr)        == addr \div 8
AlignOffset(addr) == 8 * (addr % 8)      \* in bits

\* load_data_aligned: shift the cell down, cut it to the access and extend.
LoadData(size, addr, cell) ==
  LET shifted == IF AlignOffset(addr) < XLEN THEN cell \div 2^AlignOffset(addr) ELSE 0
      bits    == AccessBits(size)
  IN  CASE size = 7        -> 0
        [] size \in 4 .. 6 -> Low(shifted, bits)
        [] OTHER           -> SignExt(shifted, bits)

\* The cell at addr after the store: the lane takes the low bits of data.
\* For the reserved size codes, which the decoder lets through, MEM drives
\* zeroes: 4 .. 6 clear their lane, and 7, whose alignment is not checked,
\* clears from addr to the end of the cell.  Lanes above the bits the model
\* keeps change nothing.
StoreData(size, addr, cell, data) ==
  LET pos    == 2^AlignOffset(addr)
      width  == 2^AccessBits(size)
      lane   == (cell \div pos) % width
      value  == IF size > 3 THEN 0 ELSE data % width
  IN  CASE AlignOffset(addr) >= XLEN              -> cell
        [] AlignOffset(addr) < XLEN /\ size = 7   -> cell % pos
        [] AlignOffset(addr) < XLEN /\ size # 7   -> cell + (value - lane) * pos

\* The following cell after an unaligned store of size code 7: the rest of its
\* eight bytes is cleared there.
SpillData(addr, cell) ==
  IF AlignOffset(addr) < XLEN THEN cell - (cell % 2^AlignOffset(addr)) ELSE 0

-----------------------------------------------------------------------------
(* What MEM hands to WB besides the fields it passes through.              *)

\* The value read is zero when no read is requested.
MemRead(dmem, ctl, addr) ==
  LoadData(ctl.mem_size, addr,
           IF dmem_read_req(ctl, addr) /\ Cell(addr) \in DOMAIN dmem
           THEN dmem[Cell(addr)] ELSE 0)

FaultAddr(ctl, addr) ==
  IF LoadMisaligned(ctl, addr) \/ StoreMisaligned(ctl, addr) THEN addr ELSE 0

\* The data memory after the edge.
MemWritten(dmem, ctl, addr, data) ==
  IF dmem_write_req(ctl, addr)
  THEN [c \in DOMAIN dmem |->
          IF c = Cell(addr) THEN StoreData(ctl.mem_size, addr, dmem[c], data)
          ELSE IF ctl.mem_size = 7 /\ c = Cell(Wrap(addr + 7)) THEN SpillData(addr, dmem[c])
          ELSE dmem[c]]
  ELSE dmem
=============================================================================
