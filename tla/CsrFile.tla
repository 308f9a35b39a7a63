------------------------------- MODULE CsrFile -------------------------------
(***************************************************************************)
(* The registers of csr_unit.sv and the combinational functions over them. *)
(*                                                                         *)
(* A CSR file is a record                                                  *)
(*   reg         : every stored CSR, as the set of its 1-bits              *)
(*   priv        : priv_mode_q                                             *)
(*   trap_vector : trap_vector_q, trap_to_s : trap_to_s_q                  *)
(* A request is [req, op, addr, data] (csr_req, csr_op, csr_addr,          *)
(* csr_rs1_data); a trap command is [trigger, to_s, mepc, mcause, mtval,   *)
(* mret, sret], the seven wires from trap_ctrl.                            *)
(***************************************************************************)
EXTENDS RvPkg

CONSTANTS
  CounterBits,   \* low bits kept of mcycle, minstret and time (XLEN in the RTL)
  MISA_VALUE, VENDOR_ID, ARCH_ID, IMPL_ID, HART_ID   \* module parameters

ASSUME CsrFileAssumption ==
  /\ CounterBits \in 0 .. XLEN
  /\ {MISA_VALUE, VENDOR_ID, ARCH_ID, IMPL_ID, HART_ID} \subseteq Bits

-----------------------------------------------------------------------------
(* Layout of mstatus and sstatus *)

MIE_BIT  == 3
MPIE_BIT == 7
MPP_LO   == 11
MPP_HI   == 12
SIE_BIT  == 1
SPIE_BIT == 5
SPP_BIT  == 8

\* Faulty variant: SPIE is forgotten.
SharedBitsWithoutSpie == {SIE_BIT, SPP_BIT}

\* The fields sstatus shares with mstatus.
SharedBits == {SIE_BIT, SPIE_BIT, SPP_BIT}
MppBits    == {MPP_LO, MPP_HI}

-----------------------------------------------------------------------------
(* Which addresses name what *)

Counters  == {CSR_MCYCLE, CSR_MINSTRET, CSR_TIME}

StoredCsr ==
  {CSR_FFLAGS, CSR_FRM, CSR_SSTATUS, CSR_SIE, CSR_STVEC, CSR_SCOUNTEREN,
   CSR_SSCRATCH, CSR_SEPC, CSR_SCAUSE, CSR_STVAL, CSR_SIP, CSR_SATP,
   CSR_MSTATUS, CSR_MEDELEG, CSR_MIDELEG, CSR_MIE, CSR_MTVEC, CSR_MCOUNTEREN,
   CSR_MSCRATCH, CSR_MEPC, CSR_MCAUSE, CSR_MTVAL, CSR_MIP} \cup Counters

IdRegisters == {CSR_MVENDORID, CSR_MARCHID, CSR_MIMPID, CSR_MHARTID}

canonical_addr(addr) ==
  CASE addr = CSR_CYCLE   -> CSR_MCYCLE
    [] addr = CSR_INSTRET -> CSR_MINSTRET
    [] OTHER              -> addr

csr_is_writable(addr) == addr \notin IdRegisters \cup {CSR_MISA, CSR_TIME}

csr_is_supported(addr) ==
  addr \in StoredCsr \cup IdRegisters
             \cup {CSR_MISA, CSR_FCSR, CSR_CYCLE, CSR_INSTRET}

\* The bits a stored register implements: fflags and frm are short.
Implemented(addr) ==
  CASE addr = CSR_FFLAGS   -> 0 .. 4
    [] addr = CSR_FRM      -> 0 .. 2
    [] addr \in Counters   -> 0 .. (CounterBits - 1)
    [] OTHER               -> BitIdx

-----------------------------------------------------------------------------
(* Helper functions of the module *)

csr_write_next(current, data, op) ==
  CASE IsWriteCmd(op) -> data
    [] IsSetCmd(op)   -> current \cup data
    [] IsClearCmd(op) -> current \ data
    [] OTHER          -> current

\* Copy the fields in 'mask' of 'src' into 'dst'.
CopyBits(dst, src, mask) == (dst \ mask) \cup (src \cap mask)

\* Faulty variants: the whole register is copied; nothing is copied.
apply_whole_sstatus(mstatus, sstatus) == sstatus
mirror_nothing(sstatus, mstatus)      == sstatus

apply_sstatus_to_mstatus(mstatus, sstatus)  == CopyBits(mstatus, sstatus, SharedBits)
mirror_mstatus_to_sstatus(sstatus, mstatus) == CopyBits(sstatus, mstatus, SharedBits)

\* A field of one bit: bit b, present when cond holds.
Field(b, cond) == IF cond THEN {b} ELSE {}

compose_fcsr(r) == r[CSR_FFLAGS] \cup {i + 5 : i \in r[CSR_FRM]}

\* Faulty variant: the reserved encoding 2'b10 is passed on.
decode_priv_mode_raw(mpp) == ToWord(mpp) \div 2^MPP_LO

decode_priv_mode(mpp) ==
  CASE mpp = {}       -> PRIV_U
    [] mpp = {MPP_LO} -> PRIV_S
    [] OTHER          -> PRIV_M

\* Faulty variant: S-mode is saved as U-mode.
encode_priv_mode_no_s(mode) == IF mode = PRIV_M THEN MppBits ELSE {}

encode_priv_mode(mode) ==
  CASE mode = PRIV_U -> {}
    [] mode = PRIV_S -> {MPP_LO}
    [] OTHER         -> MppBits

read_csr(r, addr) ==
  LET a == canonical_addr(addr)
  IN  CASE a \in StoredCsr     -> r[a]
        [] a = CSR_FCSR        -> compose_fcsr(r)
        [] a = CSR_MISA        -> MISA_VALUE
        [] a = CSR_MVENDORID   -> VENDOR_ID
        [] a = CSR_MARCHID     -> ARCH_ID
        [] a = CSR_MIMPID      -> IMPL_ID
        [] a = CSR_MHARTID     -> HART_ID
        [] OTHER               -> {}

-----------------------------------------------------------------------------
(* Request decoding *)

WriteEnable(q) ==
  /\ q.req
  /\ csr_is_supported(canonical_addr(q.addr))
  /\ \/ IsWriteCmd(q.op)
     \/ (IsSetCmd(q.op) \/ IsClearCmd(q.op)) /\ q.data # {}

\* Faulty variant: the top address bits are taken for the read-only mark,
\* although the write port accepts the aliases of the counters.
csr_illegal_by_address(q) ==
  /\ q.req
  /\ \/ ~csr_is_supported(canonical_addr(q.addr))
     \/ ~csr_is_writable(q.addr) \/ q.addr >= \hC00

csr_illegal_access(q) ==
  LET a == canonical_addr(q.addr)
  IN  /\ q.req
      /\ \/ ~csr_is_supported(a)
         \/ /\ IsWriteCmd(q.op) \/ IsSetCmd(q.op) \/ IsClearCmd(q.op)
            /\ ~csr_is_writable(a)

-----------------------------------------------------------------------------
(* The clocked part, in the order of the nonblocking assignments: a later  *)
(* one to the same register wins, and every right-hand side reads the old  *)
(* registers.                                                              *)

\* Faulty variant: one bit too wide.
IncrementedWide(b) ==
  {i \in 0 .. CounterBits : (i \in b) # (\A j \in 0 .. (i - 1) : j \in b)}

\* Add one to a counter of CounterBits bits; it wraps to zero.
Incremented(b) ==
  {i \in 0 .. (CounterBits - 1) : (i \in b) # (\A j \in 0 .. (i - 1) : j \in b)}

Counted(r, trigger) ==
  [r EXCEPT ![CSR_MCYCLE]   = Incremented(@),
            ![CSR_TIME]     = Incremented(@),
            ![CSR_MINSTRET] = IF trigger THEN @ ELSE Incremented(@)]

\* The CSR write port. 'old' are the registers before the edge, 'new' those
\* already assigned in this edge.
Written(old, new, q) ==
  LET a    == canonical_addr(q.addr)
      next == csr_write_next(old[a], q.data, q.op)
      fcsr == csr_write_next(compose_fcsr(old), q.data, q.op)
  IN  IF ~WriteEnable(q) \/ ~csr_is_writable(a) THEN new
      ELSE CASE a = CSR_MSTATUS ->
                  [new EXCEPT
                     ![CSR_MSTATUS] = next,
                     ![CSR_SSTATUS] = mirror_mstatus_to_sstatus(old[CSR_SSTATUS], next)]
             [] a = CSR_SSTATUS ->
                  [new EXCEPT
                     ![CSR_SSTATUS] = next,
                     ![CSR_MSTATUS] = apply_sstatus_to_mstatus(old[CSR_MSTATUS], next)]
             [] a = CSR_FCSR ->
                  [new EXCEPT ![CSR_FFLAGS] = fcsr \cap (0 .. 4),
                              ![CSR_FRM]    = {i \in 0 .. 2 : i + 5 \in fcsr}]
             [] OTHER -> [new EXCEPT ![a] = next \cap Implemented(a)]

\* Entry into supervisor mode: a delegated trap.
TrapToS(c, new, t) ==
  LET old     == c.reg
      sstatus == (old[CSR_SSTATUS] \ SharedBits)
                   \cup Field(SPIE_BIT, SIE_BIT \in old[CSR_SSTATUS])
                   \cup Field(SPP_BIT, c.priv = PRIV_S)
  IN  [reg |-> [new EXCEPT ![CSR_SSTATUS] = sstatus,
                           ![CSR_MSTATUS] = apply_sstatus_to_mstatus(old[CSR_MSTATUS], sstatus),
                           ![CSR_SEPC]    = t.mepc,
                           ![CSR_SCAUSE]  = t.mcause,
                           ![CSR_STVAL]   = t.mtval],
       priv |-> PRIV_S, trap_vector |-> old[CSR_STVEC], trap_to_s |-> TRUE]

\* Entry into machine mode.
TrapToM(c, new, t) ==
  LET old     == c.reg
      mstatus == (old[CSR_MSTATUS] \ ({MIE_BIT, MPIE_BIT} \cup MppBits))
                   \cup Field(MPIE_BIT, MIE_BIT \in old[CSR_MSTATUS])
                   \cup encode_priv_mode(c.priv)
  IN  [reg |-> [new EXCEPT ![CSR_MSTATUS] = mstatus,
                           ![CSR_SSTATUS] = mirror_mstatus_to_sstatus(old[CSR_SSTATUS], mstatus),
                           ![CSR_MEPC]    = t.mepc,
                           ![CSR_MCAUSE]  = t.mcause,
                           ![CSR_MTVAL]   = t.mtval],
       priv |-> PRIV_M, trap_vector |-> old[CSR_MTVEC], trap_to_s |-> FALSE]

MretState(c, new) ==
  LET old     == c.reg
      mstatus == (old[CSR_MSTATUS] \ ({MIE_BIT} \cup MppBits))
                   \cup {MPIE_BIT}
                   \cup Field(MIE_BIT, MPIE_BIT \in old[CSR_MSTATUS])
  IN  [c EXCEPT !.reg  = [new EXCEPT
                            ![CSR_MSTATUS] = mstatus,
                            ![CSR_SSTATUS] = mirror_mstatus_to_sstatus(old[CSR_SSTATUS], mstatus)],
                !.priv = decode_priv_mode(old[CSR_MSTATUS] \cap MppBits)]

SretState(c, new) ==
  LET old     == c.reg
      sstatus == (old[CSR_SSTATUS] \ {SIE_BIT, SPP_BIT})
                   \cup {SPIE_BIT}
                   \cup Field(SIE_BIT, SPIE_BIT \in old[CSR_SSTATUS])
  IN  [c EXCEPT !.reg  = [new EXCEPT
                            ![CSR_SSTATUS] = sstatus,
                            ![CSR_MSTATUS] = apply_sstatus_to_mstatus(old[CSR_MSTATUS], sstatus)],
                !.priv = IF SPP_BIT \in old[CSR_SSTATUS] THEN PRIV_S ELSE PRIV_U]

CsrFileType ==
  [reg : [StoredCsr -> Bits], priv : PrivMode,
   trap_vector : Bits, trap_to_s : BOOLEAN]

ResetCsr ==
  [reg |-> [a \in StoredCsr |-> {}], priv |-> PRIV_M,
   trap_vector |-> {}, trap_to_s |-> FALSE]

\* Faulty variant: the counters run after the write port, and a write to one
\* of them is counted up.
CsrNextCountedLast(c, q, t) ==
  LET new == Counted(Written(c.reg, c.reg, q), t.trigger)
  IN  CASE t.trigger /\ t.to_s  -> TrapToS(c, new, t)
        [] t.trigger /\ ~t.to_s -> TrapToM(c, new, t)
        [] ~t.trigger /\ t.sret -> SretState(c, new)
        [] ~t.trigger /\ ~t.sret /\ t.mret -> MretState(c, new)
        [] OTHER                -> [c EXCEPT !.reg = new]

\* One edge of the clock with reset low. mret and sret never come together
\* (one instruction in WB); if they did, the sret assignments would win.
CsrNext(c, q, t) ==
  LET new == Written(c.reg, Counted(c.reg, t.trigger), q)
  IN  CASE t.trigger /\ t.to_s  -> TrapToS(c, new, t)
        [] t.trigger /\ ~t.to_s -> TrapToM(c, new, t)
        [] ~t.trigger /\ t.sret -> SretState(c, new)
        [] ~t.trigger /\ ~t.sret /\ t.mret -> MretState(c, new)
        [] OTHER                -> [c EXCEPT !.reg = new]
=============================================================================
