---------------------------- MODULE CsrFileProofs ----------------------------
(***************************************************************************)
(* Facts about one clock edge of csr_unit.sv, for every width and every    *)
(* typed request and trap command: CsrNext is well typed, keeps the two    *)
(* status registers in agreement and the short registers short.            *)
(***************************************************************************)
EXTENDS CsrFile, TLAPS

RegFile == [StoredCsr -> Bits]

RequestType == [req : BOOLEAN, op : CsrOp, addr : CsrAddr, data : Bits]
CommandType == [trigger : BOOLEAN, to_s : BOOLEAN, mepc : Bits, mcause : Bits,
                mtval : Bits, mret : BOOLEAN, sret : BOOLEAN]

-----------------------------------------------------------------------------
(* Layout *)

\* The two status registers are stored, differ from each other and from
\* every register that a trap, a counter or the packed fcsr writes.
LEMMA StatusAddresses ==
  /\ CSR_MSTATUS \in StoredCsr /\ CSR_SSTATUS \in StoredCsr
  /\ CSR_MSTATUS # CSR_SSTATUS
  /\ {CSR_MSTATUS, CSR_SSTATUS} \cap
       (Counters \cup {CSR_FCSR, CSR_FFLAGS, CSR_FRM, CSR_MEPC, CSR_MCAUSE, CSR_MTVAL,
                       CSR_SEPC, CSR_SCAUSE, CSR_STVAL}) = {}
BY DEF StoredCsr, Counters, CSR_MSTATUS, CSR_SSTATUS, CSR_FCSR, CSR_FFLAGS, CSR_FRM, CSR_MEPC,
       CSR_MCAUSE, CSR_MTVAL, CSR_SEPC, CSR_SCAUSE, CSR_STVAL, CSR_MCYCLE,
       CSR_MINSTRET, CSR_TIME

\* The fields of the status registers are bits of a register.
LEMMA StatusBits ==
  {MIE_BIT, MPIE_BIT, MPP_LO, MPP_HI, SIE_BIT, SPIE_BIT, SPP_BIT} \subseteq BitIdx
BY XlenAssumption DEF BitIdx, MIE_BIT, MPIE_BIT, MPP_LO, MPP_HI, SIE_BIT, SPIE_BIT, SPP_BIT

\* Every address the write port stores to by its own name is a stored CSR.
LEMMA WritableIsStored ==
  ASSUME NEW addr, csr_is_supported(canonical_addr(addr)),
         csr_is_writable(canonical_addr(addr)), canonical_addr(addr) # CSR_FCSR
  PROVE  canonical_addr(addr) \in StoredCsr
BY DEF csr_is_supported, csr_is_writable, canonical_addr, IdRegisters, StoredCsr, Counters,
       CSR_MCYCLE, CSR_MINSTRET, CSR_CYCLE, CSR_INSTRET

-----------------------------------------------------------------------------
(* The clocked part is well typed *)

\* The counters stay within CounterBits bits, which fit a register.
LEMMA CountedType ==
  ASSUME NEW r \in RegFile, NEW trigger \in BOOLEAN
  PROVE  Counted(r, trigger) \in RegFile
<1>1. \A b : Incremented(b) \subseteq 0 .. (CounterBits - 1)
  BY Zenon DEF Incremented
<1>2. 0 .. (CounterBits - 1) \subseteq BitIdx
  BY CsrFileAssumption, XlenAssumption DEF BitIdx
<1>3. \A b : Incremented(b) \in Bits
  BY <1>1, <1>2, Zenon DEF Bits
<1> QED
  BY <1>3 DEF Counted, RegFile

\* Write, set and clear of one register give a register.
LEMMA WriteNextType ==
  ASSUME NEW cur \in Bits, NEW data \in Bits, NEW op
  PROVE  csr_write_next(cur, data, op) \in Bits
BY DEF csr_write_next, Bits

\* Copying fields between registers gives a register.
LEMMA CopyType ==
  ASSUME NEW dst \in Bits, NEW src \in Bits, NEW mask
  PROVE  CopyBits(dst, src, mask) \in Bits
BY DEF CopyBits, Bits

\* The write port leaves every register typed: status pair, packed fcsr and
\* plain registers, each under the case of Written that stores it.
LEMMA WrittenType ==
  ASSUME NEW old \in RegFile, NEW new \in RegFile, NEW q \in RequestType
  PROVE  Written(old, new, q) \in RegFile
<1> DEFINE a    == canonical_addr(q.addr)
           next == csr_write_next(old[a], q.data, q.op)
           fcsr == csr_write_next(compose_fcsr(old), q.data, q.op)
<1>1. CASE ~WriteEnable(q) \/ ~csr_is_writable(a)
  BY <1>1 DEF Written
<1>2. CASE ~(~WriteEnable(q) \/ ~csr_is_writable(a)) /\ a = CSR_FCSR
  <2>1. fcsr \cap (0 .. 4) \in Bits /\ {i \in 0 .. 2 : i + 5 \in fcsr} \in Bits
    BY XlenAssumption DEF Bits, BitIdx
  <2>2. a # CSR_MSTATUS /\ a # CSR_SSTATUS
    BY <1>2 DEF CSR_FCSR, CSR_MSTATUS, CSR_SSTATUS
  <2>3. Written(old, new, q) = [new EXCEPT ![CSR_FFLAGS] = fcsr \cap (0 .. 4),
                                           ![CSR_FRM]    = {i \in 0 .. 2 : i + 5 \in fcsr}]
    BY <1>2, <2>2 DEF Written
  <2> QED
    BY <2>1, <2>3 DEF RegFile
<1>3. CASE ~(~WriteEnable(q) \/ ~csr_is_writable(a)) /\ a # CSR_FCSR
  <2>1. a \in StoredCsr
    BY <1>3, WritableIsStored DEF WriteEnable
  <2>2. next \in Bits
    BY <2>1, WriteNextType DEF RegFile, RequestType
  <2>3. /\ mirror_mstatus_to_sstatus(old[CSR_SSTATUS], next) \in Bits
        /\ apply_sstatus_to_mstatus(old[CSR_MSTATUS], next) \in Bits
    BY <2>2, CopyType, StatusAddresses
       DEF RegFile, mirror_mstatus_to_sstatus, apply_sstatus_to_mstatus
  <2>4. next \cap Implemented(a) \in Bits
    BY <2>2 DEF Bits
  <2>5. CASE a = CSR_MSTATUS
    <3>1. Written(old, new, q) =
            [new EXCEPT ![CSR_MSTATUS] = next,
                        ![CSR_SSTATUS] = mirror_mstatus_to_sstatus(old[CSR_SSTATUS], next)]
      BY <1>3, <2>5, StatusAddresses DEF Written
    <3> QED
      BY <3>1, <2>2, <2>3 DEF RegFile
  <2>6. CASE a = CSR_SSTATUS
    <3>1. Written(old, new, q) =
            [new EXCEPT ![CSR_SSTATUS] = next,
                        ![CSR_MSTATUS] = apply_sstatus_to_mstatus(old[CSR_MSTATUS], next)]
      BY <1>3, <2>6, StatusAddresses DEF Written
    <3> QED
      BY <3>1, <2>2, <2>3 DEF RegFile
  <2>7. CASE a # CSR_MSTATUS /\ a # CSR_SSTATUS
    <3>1. Written(old, new, q) = [new EXCEPT ![a] = next \cap Implemented(a)]
      BY <1>3, <2>7 DEF Written
    <3> QED
      BY <3>1, <2>4 DEF RegFile
  <2> QED
    BY <2>5, <2>6, <2>7
<1> QED
  BY <1>1, <1>2, <1>3

\* A one-bit field is a register value.
LEMMA FieldType ==
  ASSUME NEW b \in BitIdx, NEW cond
  PROVE  Field(b, cond) \in Bits
BY DEF Field, Bits

\* The saved mode is a register value.
LEMMA EncodeType ==
  ASSUME NEW mode
  PROVE  encode_priv_mode(mode) \in Bits
BY StatusBits DEF encode_priv_mode, MppBits, Bits

\* Clear some fields of a register, set others.
LEMMA FieldsType ==
  ASSUME NEW r \in Bits, NEW mask, NEW x \in Bits, NEW y \in Bits
  PROVE  (r \ mask) \cup x \cup y \in Bits
BY DEF Bits

\* A delegated trap leaves the CSR file typed and enters S-mode.
LEMMA TrapToSType ==
  ASSUME NEW c \in CsrFileType, NEW new \in RegFile, NEW t \in CommandType
  PROVE  TrapToS(c, new, t) \in CsrFileType
<1> DEFINE old     == c.reg
           sstatus == (old[CSR_SSTATUS] \ SharedBits)
                        \cup Field(SPIE_BIT, SIE_BIT \in old[CSR_SSTATUS])
                        \cup Field(SPP_BIT, c.priv = PRIV_S)
           mstatus == apply_sstatus_to_mstatus(old[CSR_MSTATUS], sstatus)
           regs    == [new EXCEPT ![CSR_SSTATUS] = sstatus, ![CSR_MSTATUS] = mstatus,
                                  ![CSR_SEPC] = t.mepc, ![CSR_SCAUSE] = t.mcause,
                                  ![CSR_STVAL] = t.mtval]
<1>1. old \in RegFile
  BY DEF CsrFileType, RegFile
<1>2. sstatus \in Bits
  <2>1. Field(SPIE_BIT, SIE_BIT \in old[CSR_SSTATUS]) \in Bits /\ Field(SPP_BIT, c.priv = PRIV_S) \in Bits
    BY FieldType, EncodeType, StatusBits DEF Bits
  <2>2. old[CSR_SSTATUS] \in Bits
    BY <1>1, StatusAddresses DEF RegFile
  <2> QED
    BY <2>1, <2>2, FieldsType
<1>3. mstatus \in Bits
  BY <1>1, <1>2, StatusAddresses, CopyType DEF RegFile, apply_sstatus_to_mstatus
<1>4. regs \in RegFile
  <2> HIDE DEF sstatus, mstatus
  <2> QED BY <1>2, <1>3 DEF RegFile, CommandType
<1>5. old[CSR_STVEC] \in Bits
  BY <1>1 DEF RegFile, StoredCsr
<1>6. TrapToS(c, new, t) = [reg |-> regs, priv |-> PRIV_S,
                            trap_vector |-> old[CSR_STVEC], trap_to_s |-> TRUE]
  BY DEF TrapToS
<1> HIDE DEF regs, old
<1> QED
  BY <1>4, <1>5, <1>6 DEF CsrFileType, RegFile, PrivMode

\* A machine trap leaves the CSR file typed and enters M-mode.
LEMMA TrapToMType ==
  ASSUME NEW c \in CsrFileType, NEW new \in RegFile, NEW t \in CommandType
  PROVE  TrapToM(c, new, t) \in CsrFileType
<1> DEFINE old     == c.reg
           mstatus == (old[CSR_MSTATUS] \ ({MIE_BIT, MPIE_BIT} \cup MppBits))
                        \cup Field(MPIE_BIT, MIE_BIT \in old[CSR_MSTATUS])
                        \cup encode_priv_mode(c.priv)
           sstatus == mirror_mstatus_to_sstatus(old[CSR_SSTATUS], mstatus)
           regs    == [new EXCEPT ![CSR_MSTATUS] = mstatus, ![CSR_SSTATUS] = sstatus,
                                  ![CSR_MEPC] = t.mepc, ![CSR_MCAUSE] = t.mcause,
                                  ![CSR_MTVAL] = t.mtval]
<1>1. old \in RegFile
  BY DEF CsrFileType, RegFile
<1>2. mstatus \in Bits
  <2>1. Field(MPIE_BIT, MIE_BIT \in old[CSR_MSTATUS]) \in Bits /\ encode_priv_mode(c.priv) \in Bits
    BY FieldType, EncodeType, StatusBits DEF Bits
  <2>2. old[CSR_MSTATUS] \in Bits
    BY <1>1, StatusAddresses DEF RegFile
  <2> QED
    BY <2>1, <2>2, FieldsType
<1>3. sstatus \in Bits
  BY <1>1, <1>2, StatusAddresses, CopyType DEF RegFile, mirror_mstatus_to_sstatus
<1>4. regs \in RegFile
  <2> HIDE DEF sstatus, mstatus
  <2> QED BY <1>2, <1>3 DEF RegFile, CommandType
<1>5. old[CSR_MTVEC] \in Bits
  BY <1>1 DEF RegFile, StoredCsr
<1>6. TrapToM(c, new, t) = [reg |-> regs, priv |-> PRIV_M,
                            trap_vector |-> old[CSR_MTVEC], trap_to_s |-> FALSE]
  BY DEF TrapToM
<1> HIDE DEF regs, old
<1> QED
  BY <1>4, <1>5, <1>6 DEF CsrFileType, RegFile, PrivMode

\* MRET leaves the CSR file typed: decode_priv_mode maps all four values of
\* MPP, the reserved one too, to a mode.
LEMMA MretType ==
  ASSUME NEW c \in CsrFileType, NEW new \in RegFile
  PROVE  MretState(c, new) \in CsrFileType
<1> DEFINE old     == c.reg
           mstatus == (old[CSR_MSTATUS] \ ({MIE_BIT} \cup MppBits))
                        \cup {MPIE_BIT}
                        \cup Field(MIE_BIT, MPIE_BIT \in old[CSR_MSTATUS])
           sstatus == mirror_mstatus_to_sstatus(old[CSR_SSTATUS], mstatus)
           regs    == [new EXCEPT ![CSR_MSTATUS] = mstatus, ![CSR_SSTATUS] = sstatus]
           priv    == decode_priv_mode(old[CSR_MSTATUS] \cap MppBits)
<1>1. old \in RegFile
  BY DEF CsrFileType, RegFile
<1>2. mstatus \in Bits
  <2>1. {MPIE_BIT} \in Bits /\ Field(MIE_BIT, MPIE_BIT \in old[CSR_MSTATUS]) \in Bits
    BY FieldType, EncodeType, StatusBits DEF Bits
  <2>2. old[CSR_MSTATUS] \in Bits
    BY <1>1, StatusAddresses DEF RegFile
  <2> QED
    BY <2>1, <2>2, FieldsType
<1>3. sstatus \in Bits
  BY <1>1, <1>2, StatusAddresses, CopyType DEF RegFile, mirror_mstatus_to_sstatus
<1>4. regs \in RegFile
  <2> HIDE DEF sstatus, mstatus
  <2> QED BY <1>2, <1>3 DEF RegFile
<1>5. priv \in PrivMode
  BY DEF decode_priv_mode, PrivMode
<1>6. MretState(c, new) = [c EXCEPT !.reg = regs, !.priv = priv]
  BY DEF MretState
<1> HIDE DEF regs, priv
<1> QED
  BY <1>4, <1>5, <1>6 DEF CsrFileType, RegFile

\* SRET leaves the CSR file typed and enters S- or U-mode.
LEMMA SretType ==
  ASSUME NEW c \in CsrFileType, NEW new \in RegFile
  PROVE  SretState(c, new) \in CsrFileType
<1> DEFINE old     == c.reg
           sstatus == (old[CSR_SSTATUS] \ {SIE_BIT, SPP_BIT})
                        \cup {SPIE_BIT}
                        \cup Field(SIE_BIT, SPIE_BIT \in old[CSR_SSTATUS])
           mstatus == apply_sstatus_to_mstatus(old[CSR_MSTATUS], sstatus)
           regs    == [new EXCEPT ![CSR_SSTATUS] = sstatus, ![CSR_MSTATUS] = mstatus]
           priv    == IF SPP_BIT \in old[CSR_SSTATUS] THEN PRIV_S ELSE PRIV_U
<1>1. old \in RegFile
  BY DEF CsrFileType, RegFile
<1>2. sstatus \in Bits
  <2>1. {SPIE_BIT} \in Bits /\ Field(SIE_BIT, SPIE_BIT \in old[CSR_SSTATUS]) \in Bits
    BY FieldType, EncodeType, StatusBits DEF Bits
  <2>2. old[CSR_SSTATUS] \in Bits
    BY <1>1, StatusAddresses DEF RegFile
  <2> QED
    BY <2>1, <2>2, FieldsType
<1>3. mstatus \in Bits
  BY <1>1, <1>2, StatusAddresses, CopyType DEF RegFile, apply_sstatus_to_mstatus
<1>4. regs \in RegFile
  <2> HIDE DEF sstatus, mstatus
  <2> QED BY <1>2, <1>3 DEF RegFile
<1>5. priv \in PrivMode
  BY DEF PrivMode
<1>6. SretState(c, new) = [c EXCEPT !.reg = regs, !.priv = priv]
  BY DEF SretState
<1> HIDE DEF regs, priv
<1> QED
  BY <1>4, <1>5, <1>6 DEF CsrFileType, RegFile

\* One edge with typed inputs: the five ways an edge may end.
LEMMA CsrNextType ==
  ASSUME NEW c \in CsrFileType, NEW q \in RequestType, NEW t \in CommandType
  PROVE  CsrNext(c, q, t) \in CsrFileType
<1> DEFINE new == Written(c.reg, Counted(c.reg, t.trigger), q)
<1>1. new \in RegFile
  BY CountedType, WrittenType DEF CsrFileType, RegFile, CommandType
<1>2. /\ TrapToS(c, new, t) \in CsrFileType
      /\ TrapToM(c, new, t) \in CsrFileType
      /\ MretState(c, new) \in CsrFileType
      /\ SretState(c, new) \in CsrFileType
  BY <1>1, TrapToSType, TrapToMType, MretType, SretType
<1>3. [c EXCEPT !.reg = new] \in CsrFileType
  <2> HIDE DEF new
  <2> QED BY <1>1 DEF CsrFileType, RegFile
<1> HIDE DEF new
<1>4. CsrNext(c, q, t) \in {TrapToS(c, new, t), TrapToM(c, new, t), MretState(c, new),
                            SretState(c, new), [c EXCEPT !.reg = new]}
  BY DEF CsrNext, new, CommandType
<1> QED
  BY <1>2, <1>3, <1>4

\* The reset values are typed.
LEMMA ResetType == ResetCsr \in CsrFileType
BY DEF ResetCsr, CsrFileType, Bits, PrivMode

-----------------------------------------------------------------------------
(* The two status registers agree *)

Agree(r) == r[CSR_MSTATUS] \cap SharedBits = r[CSR_SSTATUS] \cap SharedBits

\* Copying the shared fields in either direction makes the two agree.
LEMMA CopyAgrees ==
  ASSUME NEW dst, NEW src
  PROVE  /\ mirror_mstatus_to_sstatus(dst, src) \cap SharedBits = src \cap SharedBits
         /\ apply_sstatus_to_mstatus(dst, src) \cap SharedBits = src \cap SharedBits
BY DEF mirror_mstatus_to_sstatus, apply_sstatus_to_mstatus, CopyBits

\* The counters leave the status registers alone.
LEMMA CountedKeepsStatus ==
  ASSUME NEW r \in RegFile, NEW trigger
  PROVE  /\ Counted(r, trigger)[CSR_MSTATUS] = r[CSR_MSTATUS]
         /\ Counted(r, trigger)[CSR_SSTATUS] = r[CSR_SSTATUS]
BY StatusAddresses DEF Counted, RegFile, Counters

\* The write port keeps the agreement, whatever address it is given.
LEMMA WrittenAgrees ==
  ASSUME NEW old \in RegFile, NEW new \in RegFile, NEW q \in RequestType,
         Agree(old), new[CSR_MSTATUS] = old[CSR_MSTATUS], new[CSR_SSTATUS] = old[CSR_SSTATUS]
  PROVE  Agree(Written(old, new, q))
<1> DEFINE a    == canonical_addr(q.addr)
           next == csr_write_next(old[a], q.data, q.op)
           fcsr == csr_write_next(compose_fcsr(old), q.data, q.op)
<1>1. Agree(new)
  BY DEF Agree
<1>2. CASE ~WriteEnable(q) \/ ~csr_is_writable(a)
  BY <1>1, <1>2 DEF Written
<1>3. CASE ~(~WriteEnable(q) \/ ~csr_is_writable(a)) /\ a = CSR_MSTATUS
  <2>1. Written(old, new, q) =
          [new EXCEPT ![CSR_MSTATUS] = next,
                      ![CSR_SSTATUS] = mirror_mstatus_to_sstatus(old[CSR_SSTATUS], next)]
    BY <1>3, StatusAddresses DEF Written
  <2> HIDE DEF a, next
  <2> QED
    BY <2>1, StatusAddresses, CopyAgrees DEF Agree, RegFile
<1>4. CASE ~(~WriteEnable(q) \/ ~csr_is_writable(a)) /\ a = CSR_SSTATUS
  <2>1. Written(old, new, q) =
          [new EXCEPT ![CSR_SSTATUS] = next,
                      ![CSR_MSTATUS] = apply_sstatus_to_mstatus(old[CSR_MSTATUS], next)]
    BY <1>4, StatusAddresses DEF Written
  <2> HIDE DEF a, next
  <2> QED
    BY <2>1, StatusAddresses, CopyAgrees DEF Agree, RegFile
<1>5. CASE ~(~WriteEnable(q) \/ ~csr_is_writable(a)) /\ a \notin {CSR_MSTATUS, CSR_SSTATUS}
  <2>1. \/ Written(old, new, q) = [new EXCEPT ![CSR_FFLAGS] = fcsr \cap (0 .. 4),
                                             ![CSR_FRM] = {i \in 0 .. 2 : i + 5 \in fcsr}]
        \/ Written(old, new, q) = [new EXCEPT ![a] = next \cap Implemented(a)]
    BY <1>5 DEF Written
  <2> HIDE DEF a, next, fcsr
  <2>2. /\ Written(old, new, q)[CSR_MSTATUS] = new[CSR_MSTATUS]
        /\ Written(old, new, q)[CSR_SSTATUS] = new[CSR_SSTATUS]
    BY <1>5, <2>1, StatusAddresses DEF RegFile
  <2> QED
    BY <1>1, <2>2 DEF Agree
<1> QED
  BY <1>2, <1>3, <1>4, <1>5

\* So does every edge: traps and returns recompute one register and copy the
\* shared fields to the other, and their assignments override those of the
\* write port on the same edge in both registers.
LEMMA CsrNextAgrees ==
  ASSUME NEW c \in CsrFileType, NEW q \in RequestType, NEW t \in CommandType, Agree(c.reg)
  PROVE  Agree(CsrNext(c, q, t).reg)
<1> DEFINE new == Written(c.reg, Counted(c.reg, t.trigger), q)
<1>1. c.reg \in RegFile /\ Counted(c.reg, t.trigger) \in RegFile
  BY CountedType DEF CsrFileType, RegFile, CommandType
<1>2. new \in RegFile
  BY <1>1, WrittenType
<1>3. Agree(new)
  BY <1>1, WrittenAgrees, CountedKeepsStatus
<1> HIDE DEF new
<1>4. Agree(TrapToS(c, new, t).reg)
  BY <1>2, StatusAddresses, CopyAgrees DEF TrapToS, Agree, RegFile
<1>5. Agree(TrapToM(c, new, t).reg)
  BY <1>2, StatusAddresses, CopyAgrees DEF TrapToM, Agree, RegFile
<1>6. Agree(MretState(c, new).reg)
  BY <1>2, StatusAddresses, CopyAgrees DEF MretState, Agree, RegFile, CsrFileType
<1>7. Agree(SretState(c, new).reg)
  BY <1>2, StatusAddresses, CopyAgrees DEF SretState, Agree, RegFile, CsrFileType
<1>8. Agree([c EXCEPT !.reg = new].reg)
  BY <1>3 DEF CsrFileType
<1>9. CsrNext(c, q, t) \in {TrapToS(c, new, t), TrapToM(c, new, t), MretState(c, new),
                            SretState(c, new), [c EXCEPT !.reg = new]}
  BY DEF CsrNext, new, CommandType
<1> QED
  BY <1>4, <1>5, <1>6, <1>7, <1>8, <1>9

-----------------------------------------------------------------------------
(* No register holds bits it does not implement *)

\* The registers shorter than XLEN bits; of the others, typing says it all.
ShortOnes == {CSR_FFLAGS, CSR_FRM} \cup Counters

Short(r) == \A a \in ShortOnes : r[a] \subseteq Implemented(a)

\* The short registers are stored, and no trap or return writes them.
LEMMA ShortAddresses ==
  /\ ShortOnes \subseteq StoredCsr
  /\ ShortOnes \cap {CSR_MSTATUS, CSR_SSTATUS, CSR_MEPC, CSR_MCAUSE, CSR_MTVAL, CSR_SEPC,
                     CSR_SCAUSE, CSR_STVAL} = {}
  /\ CSR_FFLAGS # CSR_FRM /\ {CSR_FFLAGS, CSR_FRM} \cap Counters = {}
BY DEF ShortOnes, StoredCsr, Counters, CSR_MSTATUS, CSR_SSTATUS, CSR_FFLAGS, CSR_FRM,
       CSR_MEPC, CSR_MCAUSE, CSR_MTVAL, CSR_SEPC, CSR_SCAUSE, CSR_STVAL, CSR_MCYCLE,
       CSR_MINSTRET, CSR_TIME

\* What each short register implements.
LEMMA ShortWidths ==
  /\ Implemented(CSR_FFLAGS) = 0 .. 4 /\ Implemented(CSR_FRM) = 0 .. 2
  /\ \A a \in Counters : Implemented(a) = 0 .. (CounterBits - 1)
BY ShortAddresses DEF Implemented

\* The counters wrap at their width.
LEMMA CountedShort ==
  ASSUME NEW r \in RegFile, NEW trigger \in BOOLEAN, Short(r)
  PROVE  Short(Counted(r, trigger))
<1>1. \A b : Incremented(b) \subseteq 0 .. (CounterBits - 1)
  BY Zenon DEF Incremented
<1>2. ASSUME NEW a \in Counters
      PROVE  \/ Counted(r, trigger)[a] = r[a]
             \/ Counted(r, trigger)[a] = Incremented(r[a])
  BY ShortAddresses DEF Counted, RegFile, Counters, CSR_MCYCLE, CSR_MINSTRET, CSR_TIME,
                        ShortOnes
<1>3. Counted(r, trigger)[CSR_FFLAGS] = r[CSR_FFLAGS] /\ Counted(r, trigger)[CSR_FRM] = r[CSR_FRM]
  BY ShortAddresses DEF Counted, RegFile, Counters, ShortOnes
<1>4. ASSUME NEW a \in Counters
      PROVE  Counted(r, trigger)[a] \subseteq Implemented(a)
  <2>1. r[a] \subseteq Implemented(a)
    BY DEF Short, ShortOnes
  <2>2. Incremented(r[a]) \subseteq Implemented(a)
    BY <1>1, ShortWidths
  <2> QED
    BY <1>2, <2>1, <2>2
<1> QED
  BY <1>3, <1>4 DEF Short, ShortOnes

\* Whatever address the write port is given, it cuts the operand to size.
LEMMA WrittenShort ==
  ASSUME NEW old \in RegFile, NEW new \in RegFile, NEW q \in RequestType, Short(new)
  PROVE  Short(Written(old, new, q))
<1> DEFINE a    == canonical_addr(q.addr)
           next == csr_write_next(old[a], q.data, q.op)
           fcsr == csr_write_next(compose_fcsr(old), q.data, q.op)
<1>1. \/ Written(old, new, q) = new
      \/ Written(old, new, q) =
           [new EXCEPT ![CSR_MSTATUS] = next,
                       ![CSR_SSTATUS] = mirror_mstatus_to_sstatus(old[CSR_SSTATUS], next)]
      \/ Written(old, new, q) =
           [new EXCEPT ![CSR_SSTATUS] = next,
                       ![CSR_MSTATUS] = apply_sstatus_to_mstatus(old[CSR_MSTATUS], next)]
      \/ Written(old, new, q) = [new EXCEPT ![CSR_FFLAGS] = fcsr \cap (0 .. 4),
                                            ![CSR_FRM] = {i \in 0 .. 2 : i + 5 \in fcsr}]
      \/ Written(old, new, q) = [new EXCEPT ![a] = next \cap Implemented(a)]
  BY DEF Written
<1> HIDE DEF a, next, fcsr
<1>2. fcsr \cap (0 .. 4) \subseteq Implemented(CSR_FFLAGS)
        /\ {i \in 0 .. 2 : i + 5 \in fcsr} \subseteq Implemented(CSR_FRM)
  BY ShortWidths
<1> QED
  BY <1>1, <1>2, ShortAddresses DEF Short, RegFile

\* Traps and returns leave the short registers as the write port left them.
LEMMA CsrNextShort ==
  ASSUME NEW c \in CsrFileType, NEW q \in RequestType, NEW t \in CommandType, Short(c.reg)
  PROVE  Short(CsrNext(c, q, t).reg)
<1> DEFINE new == Written(c.reg, Counted(c.reg, t.trigger), q)
<1>1. c.reg \in RegFile /\ Counted(c.reg, t.trigger) \in RegFile
  BY CountedType DEF CsrFileType, RegFile, CommandType
<1>2. new \in RegFile /\ Short(new)
  BY <1>1, WrittenType, WrittenShort, CountedShort DEF CommandType
<1> HIDE DEF new
<1>3. ASSUME NEW a \in ShortOnes
      PROVE  /\ TrapToS(c, new, t).reg[a] = new[a] /\ TrapToM(c, new, t).reg[a] = new[a]
             /\ MretState(c, new).reg[a] = new[a] /\ SretState(c, new).reg[a] = new[a]
  <2>1. TrapToS(c, new, t).reg[a] = new[a]
    BY <1>2, ShortAddresses DEF TrapToS, RegFile
  <2>2. TrapToM(c, new, t).reg[a] = new[a]
    BY <1>2, ShortAddresses DEF TrapToM, RegFile
  <2>3. MretState(c, new).reg[a] = new[a]
    BY <1>2, ShortAddresses DEF MretState, RegFile, CsrFileType
  <2>4. SretState(c, new).reg[a] = new[a]
    BY <1>2, ShortAddresses DEF SretState, RegFile, CsrFileType
  <2> QED
    BY <2>1, <2>2, <2>3, <2>4
<1>4. [c EXCEPT !.reg = new].reg = new
  BY DEF CsrFileType
<1>5. CsrNext(c, q, t) \in {TrapToS(c, new, t), TrapToM(c, new, t), MretState(c, new),
                            SretState(c, new), [c EXCEPT !.reg = new]}
  BY DEF CsrNext, new, CommandType
<1> QED
  BY <1>2, <1>3, <1>4, <1>5 DEF Short
=============================================================================
