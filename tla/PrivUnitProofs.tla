---------------------------- MODULE PrivUnitProofs ----------------------------
(***************************************************************************)
(* Traps and returns nest correctly for every width, every set of CSR      *)
(* requests, exceptions and interrupt pins.  The invariant says where the  *)
(* context of the last trap is kept until the return consumes it; it needs *)
(* the agreement of the two status registers, because a machine trap or    *)
(* an MRET rewrites sstatus from mstatus.                                  *)
(***************************************************************************)
EXTENDS PrivUnit, CsrFileProofs

\* The commands trap_ctrl can give in mode p, with the instructions the
\* decoder lets through in that mode.
Commands(p) ==
  {t \in CommandType :
     /\ t.trigger => ~t.mret /\ ~t.sret
     /\ ~(t.mret /\ t.sret)
     /\ t.to_s => t.trigger /\ p # PRIV_M
     /\ t.mret => p = PRIV_M
     /\ t.sret => p # PRIV_U}

\* The fields of mstatus that sstatus does not share.
MFields == {MIE_BIT, MPIE_BIT} \cup MppBits

-----------------------------------------------------------------------------
(* Every step is one clock edge with a command of the trap controller *)

\* The wires of the trap controller, whatever instruction and pins drive it.
LEMMA CommandTyped ==
  ASSUME NEW w, NEW c, NEW irq
  PROVE  /\ TrapCommand(w, c, irq) \in CommandType
         /\ TrapCommand(w, c, irq).trigger => ~TrapCommand(w, c, irq).mret /\ ~TrapCommand(w, c, irq).sret
         /\ TrapCommand(w, c, irq).to_s => TrapCommand(w, c, irq).trigger /\ c.priv # PRIV_M
         /\ TrapCommand(w, c, irq).mret => w.mret
         /\ TrapCommand(w, c, irq).sret => w.sret
<1>1. \A x : ToBits(x) \in Bits
  BY DEF ToBits, Bits
<1>2. Field(XLEN - 1, HasInterrupt(c, irq)) \in Bits
  BY XlenAssumption DEF Field, Bits, BitIdx
<1>3. ToBits(CauseIndex(w, c, irq)) \cup Field(XLEN - 1, HasInterrupt(c, irq)) \in Bits
  BY <1>1, <1>2 DEF Bits
<1>4. trap_trigger(w, c, irq) \in BOOLEAN /\ trap_to_s_mode(w, c, irq) \in BOOLEAN
  BY DEF trap_trigger, trap_to_s_mode
<1>5. {} \in Bits
  BY DEF Bits
<1>6. trap_to_s_mode(w, c, irq) => trap_trigger(w, c, irq) /\ c.priv # PRIV_M
  BY DEF trap_to_s_mode
<1> QED
  BY <1>1, <1>3, <1>4, <1>5, <1>6 DEF TrapCommand, CommandType

\* Requests and instruction wires of the actions.
LEMMA StepShape ==
  ASSUME TypeOK, Next
  PROVE  \E q \in RequestType, t \in Commands(csr.priv) :
           /\ csr' = CsrNext(csr, q, t)
           /\ Observe(q, t)
           /\ t.mret => npc' = ToWord(csr.reg[CSR_MEPC])
           /\ t.sret => npc' = ToWord(csr.reg[CSR_SEPC])
<1>1. ASSUME NEW w, NEW q \in RequestType, NEW irq, Edge(w, q, irq),
             ~(w.mret /\ w.sret), w.mret => csr.priv = PRIV_M, w.sret => csr.priv # PRIV_U
      PROVE  \E r \in RequestType, t \in Commands(csr.priv) :
               /\ csr' = CsrNext(csr, r, t)
               /\ Observe(r, t)
               /\ t.mret => npc' = ToWord(csr.reg[CSR_MEPC])
               /\ t.sret => npc' = ToWord(csr.reg[CSR_SEPC])
  <2> DEFINE t == TrapCommand(w, csr, irq)
  <2>1. t \in Commands(csr.priv)
    BY <1>1, CommandTyped DEF Commands
  <2>2. csr' = CsrNext(csr, q, t) /\ Observe(q, t) /\ npc' = trap_next_pc(w, csr, irq)
    BY <1>1 DEF Edge
  <2>3. /\ t.mret => trap_next_pc(w, csr, irq) = ToWord(csr.reg[CSR_MEPC])
        /\ t.sret => trap_next_pc(w, csr, irq) = ToWord(csr.reg[CSR_SEPC])
    <3> HIDE DEF t
    <3>1. trap_next_pc(w, csr, irq) =
            CASE t.trigger -> TrapVector(w, csr, irq)
              [] ~t.trigger /\ t.mret -> ToWord(csr.reg[CSR_MEPC])
              [] ~t.trigger /\ ~t.mret /\ t.sret -> ToWord(csr.reg[CSR_SEPC])
              [] OTHER -> 0
      BY DEF trap_next_pc, t
    <3> QED
      BY <2>1, <3>1 DEF Commands, CommandType
  <2> HIDE DEF t
  <2> QED
    BY <2>1, <2>2, <2>3
<1>2. NoRequest \in RequestType /\ Requests \subseteq RequestType
  <2>1. NoRequest \in RequestType
    BY DEF NoRequest, RequestType, CsrOp, CsrAddr, Bits
  <2>2. Requests \subseteq RequestType
    BY PrivUnitAssumption DEF RequestType
  <2> QED
    BY <2>1, <2>2
<1>3. PICK pc \in Pcs, irq \in IrqChoices :
        \/ Plain(pc, irq)
        \/ \E q \in Requests : CsrInstr(pc, q, irq)
        \/ \E e \in Exceptions : Except(pc, e, irq)
        \/ MretInstr(pc, irq)
        \/ SretInstr(pc, irq)
  BY DEF Next
<1>4. CASE Plain(pc, irq)
  BY <1>1, <1>2, <1>4 DEF Plain, Wires
<1>5. CASE \E q \in Requests : CsrInstr(pc, q, irq)
  <2>1. PICK q \in Requests : Edge([Wires(pc) EXCEPT !.illegal = csr_illegal_access(q)], q, irq)
    BY <1>5 DEF CsrInstr
  <2> QED
    BY <1>1, <1>2, <2>1 DEF Wires
<1>6. CASE \E e \in Exceptions : Except(pc, e, irq)
  <2>1. PICK e \in Exceptions : Edge([Wires(pc) EXCEPT ![e] = TRUE], NoRequest, irq)
    BY <1>6 DEF Except
  <2>2. e # "mret" /\ e # "sret"
    BY PrivUnitAssumption DEF ExceptionFlag
  <2>3. ~[Wires(pc) EXCEPT ![e] = TRUE].mret /\ ~[Wires(pc) EXCEPT ![e] = TRUE].sret
    BY <2>2 DEF Wires
  <2> QED
    BY <1>1, <1>2, <2>1, <2>3
<1>7. CASE MretInstr(pc, irq)
  BY <1>1, <1>2, <1>7 DEF MretInstr, Wires
<1>8. CASE SretInstr(pc, irq)
  <2>1. csr.priv # PRIV_U
    BY <1>8 DEF SretInstr, priv_ge, priv_rank, PRIV_U, PRIV_S, PRIV_M
  <2> QED
    BY <1>1, <1>2, <1>8, <2>1 DEF SretInstr, Wires
<1> QED
  BY <1>3, <1>4, <1>5, <1>6, <1>7, <1>8

-----------------------------------------------------------------------------
(* What the write port leaves alone *)

\* The registers that hold a context are stored and distinct.
LEMMA ContextAddresses ==
  /\ {CSR_MEPC, CSR_SEPC, CSR_MSTATUS, CSR_SSTATUS} \subseteq StoredCsr
  /\ CSR_MEPC # CSR_SEPC
  /\ {CSR_MEPC, CSR_SEPC} \cap (Counters \cup {CSR_FCSR, CSR_FFLAGS, CSR_FRM,
        CSR_MCAUSE, CSR_MTVAL, CSR_SCAUSE, CSR_STVAL, CSR_MSTATUS, CSR_SSTATUS}) = {}
BY DEF StoredCsr, Counters, CSR_MSTATUS, CSR_SSTATUS, CSR_FCSR, CSR_FFLAGS, CSR_FRM, CSR_MEPC,
       CSR_MCAUSE, CSR_MTVAL, CSR_SEPC, CSR_SCAUSE, CSR_STVAL, CSR_MCYCLE,
       CSR_MINSTRET, CSR_TIME

\* The fields of the two modes do not overlap.
LEMMA FieldsApart ==
  /\ MFields \cap SharedBits = {}
  /\ MIE_BIT # MPIE_BIT /\ MIE_BIT \notin MppBits /\ MPIE_BIT \notin MppBits
  /\ SIE_BIT # SPIE_BIT /\ SIE_BIT # SPP_BIT /\ SPIE_BIT # SPP_BIT
BY DEF MFields, SharedBits, MppBits, MIE_BIT, MPIE_BIT, MPP_LO, MPP_HI, SIE_BIT, SPIE_BIT, SPP_BIT

\* A register that the request does not name keeps its value through the
\* counters and the write port; mstatus may lose its S fields to a write of
\* sstatus, never its M fields.
LEMMA WrittenElsewhere ==
  ASSUME NEW r \in RegFile, NEW trigger \in BOOLEAN, NEW q \in RequestType
  PROVE  LET new == Written(r, Counted(r, trigger), q)
         IN  /\ ~Writes(q, CSR_MEPC) => new[CSR_MEPC] = r[CSR_MEPC]
             /\ ~Writes(q, CSR_SEPC) => new[CSR_SEPC] = r[CSR_SEPC]
             /\ ~Writes(q, CSR_MSTATUS)
                  => new[CSR_MSTATUS] \cap MFields = r[CSR_MSTATUS] \cap MFields
             /\ Writes(q, CSR_MSTATUS)
                  => new[CSR_MSTATUS] = csr_write_next(r[CSR_MSTATUS], q.data, q.op)
             /\ ~Writes(q, CSR_MSTATUS) /\ ~Writes(q, CSR_SSTATUS)
                  => new[CSR_SSTATUS] = r[CSR_SSTATUS]
<1> DEFINE k    == Counted(r, trigger)
           new  == Written(r, k, q)
           a    == canonical_addr(q.addr)
           next == csr_write_next(r[a], q.data, q.op)
           fcsr == csr_write_next(compose_fcsr(r), q.data, q.op)
           Goal(f) ==
             /\ ~Writes(q, CSR_MEPC) => f[CSR_MEPC] = r[CSR_MEPC]
             /\ ~Writes(q, CSR_SEPC) => f[CSR_SEPC] = r[CSR_SEPC]
             /\ ~Writes(q, CSR_MSTATUS) => f[CSR_MSTATUS] \cap MFields = r[CSR_MSTATUS] \cap MFields
             /\ Writes(q, CSR_MSTATUS)
                  => f[CSR_MSTATUS] = csr_write_next(r[CSR_MSTATUS], q.data, q.op)
             /\ ~Writes(q, CSR_MSTATUS) /\ ~Writes(q, CSR_SSTATUS)
                  => f[CSR_SSTATUS] = r[CSR_SSTATUS]
           Kept(f) == /\ f[CSR_MEPC] = r[CSR_MEPC] /\ f[CSR_SEPC] = r[CSR_SEPC]
                      /\ f[CSR_MSTATUS] = r[CSR_MSTATUS] /\ f[CSR_SSTATUS] = r[CSR_SSTATUS]
<1>1. k \in RegFile
  BY CountedType
<1>2. Kept(k)
  BY StatusAddresses, ContextAddresses DEF Counted, RegFile, Counters
<1> HIDE DEF k
<1>3. ASSUME ~WriteEnable(q) \/ ~csr_is_writable(a)
      PROVE  Goal(new)
  <2>1. csr_is_writable(CSR_MSTATUS)
    BY DEF csr_is_writable, IdRegisters, CSR_MSTATUS, CSR_MISA, CSR_TIME, CSR_MVENDORID,
           CSR_MARCHID, CSR_MIMPID, CSR_MHARTID
  <2>2. new = k
    BY <1>3 DEF Written
  <2>3. ~Writes(q, CSR_MSTATUS)
    BY <1>3, <2>1 DEF Writes
  <2> HIDE DEF new
  <2> QED
    BY <1>2, <2>2, <2>3
<1>4. ASSUME ~(~WriteEnable(q) \/ ~csr_is_writable(a)) /\ a = CSR_MSTATUS
      PROVE  Goal(new)
  <2>1. new = [k EXCEPT ![CSR_MSTATUS] = next,
                        ![CSR_SSTATUS] = mirror_mstatus_to_sstatus(r[CSR_SSTATUS], next)]
    BY <1>4, StatusAddresses DEF Written
  <2>2. Writes(q, CSR_MSTATUS) /\ next = csr_write_next(r[CSR_MSTATUS], q.data, q.op)
    BY <1>4 DEF Writes
  <2> HIDE DEF a, next, new
  <2>3. /\ new[CSR_MSTATUS] = next
        /\ new[CSR_MEPC] = k[CSR_MEPC] /\ new[CSR_SEPC] = k[CSR_SEPC]
    BY <1>1, <2>1, StatusAddresses, ContextAddresses DEF RegFile
  <2> QED
    BY <1>2, <2>2, <2>3
<1>5. ASSUME ~(~WriteEnable(q) \/ ~csr_is_writable(a)) /\ a = CSR_SSTATUS
      PROVE  Goal(new)
  <2>1. new = [k EXCEPT ![CSR_SSTATUS] = next,
                        ![CSR_MSTATUS] = apply_sstatus_to_mstatus(r[CSR_MSTATUS], next)]
    BY <1>5, StatusAddresses DEF Written
  <2>2. Writes(q, CSR_SSTATUS) /\ ~Writes(q, CSR_MSTATUS)
    BY <1>5, StatusAddresses DEF Writes
  <2> HIDE DEF a, next, new
  <2>3. /\ new[CSR_MSTATUS] = apply_sstatus_to_mstatus(r[CSR_MSTATUS], next)
        /\ new[CSR_MEPC] = k[CSR_MEPC] /\ new[CSR_SEPC] = k[CSR_SEPC]
    BY <1>1, <2>1, StatusAddresses, ContextAddresses DEF RegFile
  <2>4. new[CSR_MSTATUS] \cap MFields = r[CSR_MSTATUS] \cap MFields
    BY <2>3, FieldsApart DEF apply_sstatus_to_mstatus, CopyBits
  <2> QED
    BY <1>2, <2>2, <2>3, <2>4
<1>6. ASSUME ~(~WriteEnable(q) \/ ~csr_is_writable(a)) /\ a \notin {CSR_MSTATUS, CSR_SSTATUS}
      PROVE  Goal(new)
  <2>1. \/ new = [k EXCEPT ![CSR_FFLAGS] = fcsr \cap (0 .. 4),
                           ![CSR_FRM] = {i \in 0 .. 2 : i + 5 \in fcsr}]
        \/ new = [k EXCEPT ![a] = next \cap Implemented(a)]
    BY <1>6 DEF Written
  <2>2. ~Writes(q, CSR_MSTATUS) /\ ~Writes(q, CSR_SSTATUS)
    BY <1>6 DEF Writes
  <2>3. (~Writes(q, CSR_MEPC) => a # CSR_MEPC) /\ (~Writes(q, CSR_SEPC) => a # CSR_SEPC)
    BY <1>6 DEF Writes
  <2> HIDE DEF a, next, fcsr, new
  <2>4. /\ new[CSR_MSTATUS] = k[CSR_MSTATUS] /\ new[CSR_SSTATUS] = k[CSR_SSTATUS]
        /\ a # CSR_MEPC => new[CSR_MEPC] = k[CSR_MEPC]
        /\ a # CSR_SEPC => new[CSR_SEPC] = k[CSR_SEPC]
    BY <1>1, <1>6, <2>1, StatusAddresses, ContextAddresses DEF RegFile
  <2> QED
    BY <1>2, <2>2, <2>3, <2>4
<1>7. Goal(new)
  BY <1>3, <1>4, <1>5, <1>6, Zenon
<1> QED
  BY <1>7 DEF k

-----------------------------------------------------------------------------
(* What each kind of edge does to the saved contexts *)

\* Trap to M-mode: the interrupted mode and enable are stacked in mstatus.
LEMMA MachineTrap ==
  ASSUME NEW c \in CsrFileType, NEW q \in RequestType, NEW t \in CommandType,
         t.trigger, ~t.to_s
  PROVE  LET n == CsrNext(c, q, t)
         IN  /\ n.priv = PRIV_M
             /\ n.reg[CSR_MEPC] = t.mepc
             /\ MIE_BIT \notin n.reg[CSR_MSTATUS]
             /\ (MPIE_BIT \in n.reg[CSR_MSTATUS]) = (MIE_BIT \in c.reg[CSR_MSTATUS])
             /\ decode_priv_mode(n.reg[CSR_MSTATUS] \cap MppBits) = c.priv
             /\ n.reg[CSR_SSTATUS] \cap SharedBits = c.reg[CSR_MSTATUS] \cap SharedBits
             /\ ~Writes(q, CSR_SEPC) => n.reg[CSR_SEPC] = c.reg[CSR_SEPC]
<1> DEFINE new == Written(c.reg, Counted(c.reg, t.trigger), q)
           mstatus == (c.reg[CSR_MSTATUS] \ ({MIE_BIT, MPIE_BIT} \cup MppBits))
                        \cup Field(MPIE_BIT, MIE_BIT \in c.reg[CSR_MSTATUS])
                        \cup encode_priv_mode(c.priv)
           sstatus == mirror_mstatus_to_sstatus(c.reg[CSR_SSTATUS], mstatus)
           n == CsrNext(c, q, t)
<1>1. c.reg \in RegFile /\ c.priv \in PrivMode /\ t.trigger \in BOOLEAN
  BY DEF CsrFileType, RegFile, CommandType
<1>2. new \in RegFile
  BY <1>1, CountedType, WrittenType
<1>3. ~Writes(q, CSR_SEPC) => new[CSR_SEPC] = c.reg[CSR_SEPC]
  BY <1>1, WrittenElsewhere
<1>4. n = [reg |-> [new EXCEPT ![CSR_MSTATUS] = mstatus, ![CSR_SSTATUS] = sstatus,
                               ![CSR_MEPC] = t.mepc, ![CSR_MCAUSE] = t.mcause,
                               ![CSR_MTVAL] = t.mtval],
           priv |-> PRIV_M, trap_vector |-> c.reg[CSR_MTVEC], trap_to_s |-> FALSE]
  <2> HIDE DEF new
  <2> QED BY DEF CsrNext, TrapToM, new
<1> HIDE DEF new, mstatus, sstatus, n
<1>5. /\ n.priv = PRIV_M /\ n.reg[CSR_MSTATUS] = mstatus /\ n.reg[CSR_SSTATUS] = sstatus
      /\ n.reg[CSR_MEPC] = t.mepc /\ n.reg[CSR_SEPC] = new[CSR_SEPC]
  BY <1>2, <1>4, StatusAddresses, ContextAddresses DEF RegFile
<1>6. encode_priv_mode(c.priv) \subseteq MppBits
  BY DEF encode_priv_mode, MppBits
<1>7. MIE_BIT \notin mstatus /\ (MPIE_BIT \in mstatus) = (MIE_BIT \in c.reg[CSR_MSTATUS])
  BY <1>6, FieldsApart DEF mstatus, Field
<1>8. decode_priv_mode(mstatus \cap MppBits) = c.priv
  <2>1. mstatus \cap MppBits = encode_priv_mode(c.priv)
    BY <1>6, FieldsApart DEF mstatus, Field
  <2>2. decode_priv_mode(encode_priv_mode(c.priv)) = c.priv
    BY <1>1 DEF decode_priv_mode, encode_priv_mode, PrivMode, MppBits, MPP_LO, MPP_HI, PRIV_U, PRIV_S, PRIV_M
  <2> QED
    BY <2>1, <2>2
<1>9. sstatus \cap SharedBits = c.reg[CSR_MSTATUS] \cap SharedBits
  <2>1. sstatus \cap SharedBits = mstatus \cap SharedBits
    BY CopyAgrees DEF sstatus
  <2>2. mstatus \cap SharedBits = c.reg[CSR_MSTATUS] \cap SharedBits
    BY <1>6, FieldsApart DEF mstatus, Field, MFields
  <2> QED
    BY <2>1, <2>2
<1> QED
  BY <1>3, <1>5, <1>7, <1>8, <1>9 DEF n

\* Trap to S-mode: the same in sstatus, and mstatus keeps its M fields.
LEMMA SupervisorTrap ==
  ASSUME NEW c \in CsrFileType, NEW q \in RequestType, NEW t \in CommandType,
         t.trigger, t.to_s, c.priv # PRIV_M
  PROVE  LET n == CsrNext(c, q, t)
         IN  /\ n.priv = PRIV_S
             /\ n.reg[CSR_SEPC] = t.mepc
             /\ (SPIE_BIT \in n.reg[CSR_SSTATUS]) = (SIE_BIT \in c.reg[CSR_SSTATUS])
             /\ (SPP_BIT \in n.reg[CSR_SSTATUS]) = (c.priv = PRIV_S)
             /\ n.reg[CSR_MSTATUS] \cap MFields = c.reg[CSR_MSTATUS] \cap MFields
             /\ ~Writes(q, CSR_MEPC) => n.reg[CSR_MEPC] = c.reg[CSR_MEPC]
<1> DEFINE new == Written(c.reg, Counted(c.reg, t.trigger), q)
           sstatus == (c.reg[CSR_SSTATUS] \ SharedBits)
                        \cup Field(SPIE_BIT, SIE_BIT \in c.reg[CSR_SSTATUS])
                        \cup Field(SPP_BIT, c.priv = PRIV_S)
           mstatus == apply_sstatus_to_mstatus(c.reg[CSR_MSTATUS], sstatus)
           n == CsrNext(c, q, t)
<1>1. c.reg \in RegFile /\ t.trigger \in BOOLEAN
  BY DEF CsrFileType, RegFile, CommandType
<1>2. new \in RegFile
  BY <1>1, CountedType, WrittenType
<1>3. ~Writes(q, CSR_MEPC) => new[CSR_MEPC] = c.reg[CSR_MEPC]
  BY <1>1, WrittenElsewhere
<1>4. n = [reg |-> [new EXCEPT ![CSR_SSTATUS] = sstatus, ![CSR_MSTATUS] = mstatus,
                               ![CSR_SEPC] = t.mepc, ![CSR_SCAUSE] = t.mcause,
                               ![CSR_STVAL] = t.mtval],
           priv |-> PRIV_S, trap_vector |-> c.reg[CSR_STVEC], trap_to_s |-> TRUE]
  <2> HIDE DEF new
  <2> QED BY DEF CsrNext, TrapToS, new
<1> HIDE DEF new, mstatus, sstatus, n
<1>5. /\ n.priv = PRIV_S /\ n.reg[CSR_MSTATUS] = mstatus /\ n.reg[CSR_SSTATUS] = sstatus
      /\ n.reg[CSR_SEPC] = t.mepc /\ n.reg[CSR_MEPC] = new[CSR_MEPC]
  BY <1>2, <1>4, StatusAddresses, ContextAddresses DEF RegFile
<1>6. /\ (SPIE_BIT \in sstatus) = (SIE_BIT \in c.reg[CSR_SSTATUS])
      /\ (SPP_BIT \in sstatus) = (c.priv = PRIV_S)
  BY FieldsApart DEF sstatus, Field, SharedBits
<1>7. mstatus \cap MFields = c.reg[CSR_MSTATUS] \cap MFields
  BY FieldsApart DEF mstatus, apply_sstatus_to_mstatus, CopyBits
<1> QED
  BY <1>3, <1>5, <1>6, <1>7 DEF n

\* MRET unstacks mstatus; sstatus takes the S fields of mstatus.
LEMMA MachineReturn ==
  ASSUME NEW c \in CsrFileType, NEW q \in RequestType, NEW t \in CommandType,
         ~t.trigger, ~t.sret, t.mret
  PROVE  LET n == CsrNext(c, q, t)
         IN  /\ n.priv = decode_priv_mode(c.reg[CSR_MSTATUS] \cap MppBits)
             /\ (MIE_BIT \in n.reg[CSR_MSTATUS]) = (MPIE_BIT \in c.reg[CSR_MSTATUS])
             /\ n.reg[CSR_SSTATUS] \cap SharedBits = c.reg[CSR_MSTATUS] \cap SharedBits
             /\ ~Writes(q, CSR_SEPC) => n.reg[CSR_SEPC] = c.reg[CSR_SEPC]
<1> DEFINE new == Written(c.reg, Counted(c.reg, t.trigger), q)
           mstatus == (c.reg[CSR_MSTATUS] \ ({MIE_BIT} \cup MppBits))
                        \cup {MPIE_BIT}
                        \cup Field(MIE_BIT, MPIE_BIT \in c.reg[CSR_MSTATUS])
           sstatus == mirror_mstatus_to_sstatus(c.reg[CSR_SSTATUS], mstatus)
           n == CsrNext(c, q, t)
<1>1. c.reg \in RegFile /\ t.trigger \in BOOLEAN
  BY DEF CsrFileType, RegFile, CommandType
<1>2. new \in RegFile
  BY <1>1, CountedType, WrittenType
<1>3. ~Writes(q, CSR_SEPC) => new[CSR_SEPC] = c.reg[CSR_SEPC]
  BY <1>1, WrittenElsewhere
<1>4. n = [c EXCEPT !.reg  = [new EXCEPT ![CSR_MSTATUS] = mstatus, ![CSR_SSTATUS] = sstatus],
                    !.priv = decode_priv_mode(c.reg[CSR_MSTATUS] \cap MppBits)]
  <2> HIDE DEF new
  <2> QED BY DEF CsrNext, MretState, new
<1> HIDE DEF new, mstatus, sstatus, n
<1>5. /\ n.priv = decode_priv_mode(c.reg[CSR_MSTATUS] \cap MppBits)
      /\ n.reg[CSR_MSTATUS] = mstatus /\ n.reg[CSR_SSTATUS] = sstatus
      /\ n.reg[CSR_SEPC] = new[CSR_SEPC]
  BY <1>2, <1>4, StatusAddresses, ContextAddresses DEF RegFile, CsrFileType
<1>6. (MIE_BIT \in mstatus) = (MPIE_BIT \in c.reg[CSR_MSTATUS])
  BY FieldsApart DEF mstatus, Field
<1>7. sstatus \cap SharedBits = c.reg[CSR_MSTATUS] \cap SharedBits
  <2>1. sstatus \cap SharedBits = mstatus \cap SharedBits
    BY CopyAgrees DEF sstatus
  <2>2. mstatus \cap SharedBits = c.reg[CSR_MSTATUS] \cap SharedBits
    BY FieldsApart DEF mstatus, Field, MFields
  <2> QED
    BY <2>1, <2>2
<1> QED
  BY <1>3, <1>5, <1>6, <1>7 DEF n

\* SRET unstacks sstatus and leaves the M fields alone.
LEMMA SupervisorReturn ==
  ASSUME NEW c \in CsrFileType, NEW q \in RequestType, NEW t \in CommandType,
         ~t.trigger, t.sret
  PROVE  LET n == CsrNext(c, q, t)
         IN  /\ n.priv = IF SPP_BIT \in c.reg[CSR_SSTATUS] THEN PRIV_S ELSE PRIV_U
             /\ (SIE_BIT \in n.reg[CSR_SSTATUS]) = (SPIE_BIT \in c.reg[CSR_SSTATUS])
             /\ n.reg[CSR_MSTATUS] \cap MFields = c.reg[CSR_MSTATUS] \cap MFields
             /\ ~Writes(q, CSR_MEPC) => n.reg[CSR_MEPC] = c.reg[CSR_MEPC]
<1> DEFINE new == Written(c.reg, Counted(c.reg, t.trigger), q)
           sstatus == (c.reg[CSR_SSTATUS] \ {SIE_BIT, SPP_BIT})
                        \cup {SPIE_BIT}
                        \cup Field(SIE_BIT, SPIE_BIT \in c.reg[CSR_SSTATUS])
           mstatus == apply_sstatus_to_mstatus(c.reg[CSR_MSTATUS], sstatus)
           mode == IF SPP_BIT \in c.reg[CSR_SSTATUS] THEN PRIV_S ELSE PRIV_U
           n == CsrNext(c, q, t)
<1>1. c.reg \in RegFile /\ t.trigger \in BOOLEAN
  BY DEF CsrFileType, RegFile, CommandType
<1>2. new \in RegFile
  BY <1>1, CountedType, WrittenType
<1>3. ~Writes(q, CSR_MEPC) => new[CSR_MEPC] = c.reg[CSR_MEPC]
  BY <1>1, WrittenElsewhere
<1>4. n = [c EXCEPT !.reg  = [new EXCEPT ![CSR_SSTATUS] = sstatus, ![CSR_MSTATUS] = mstatus],
                    !.priv = mode]
  <2> HIDE DEF new
  <2> QED BY DEF CsrNext, SretState, new
<1> HIDE DEF new, mstatus, sstatus, n, mode
<1>5. /\ n.priv = mode
      /\ n.reg[CSR_MSTATUS] = mstatus /\ n.reg[CSR_SSTATUS] = sstatus
      /\ n.reg[CSR_MEPC] = new[CSR_MEPC]
  BY <1>2, <1>4, StatusAddresses, ContextAddresses DEF RegFile, CsrFileType
<1>6. (SIE_BIT \in sstatus) = (SPIE_BIT \in c.reg[CSR_SSTATUS])
  BY FieldsApart DEF sstatus, Field
<1>7. mstatus \cap MFields = c.reg[CSR_MSTATUS] \cap MFields
  BY FieldsApart DEF mstatus, apply_sstatus_to_mstatus, CopyBits
<1> QED
  BY <1>3, <1>5, <1>6, <1>7 DEF n, mode

\* Neither trap nor return: only the write port acts.
LEMMA PlainEdge ==
  ASSUME NEW c \in CsrFileType, NEW q \in RequestType, NEW t \in CommandType,
         ~t.trigger, ~t.sret, ~t.mret
  PROVE  LET n == CsrNext(c, q, t)
         IN  /\ n.priv = c.priv
             /\ ~Writes(q, CSR_MEPC) => n.reg[CSR_MEPC] = c.reg[CSR_MEPC]
             /\ ~Writes(q, CSR_SEPC) => n.reg[CSR_SEPC] = c.reg[CSR_SEPC]
             /\ ~Writes(q, CSR_MSTATUS)
                  => n.reg[CSR_MSTATUS] \cap MFields = c.reg[CSR_MSTATUS] \cap MFields
             /\ Writes(q, CSR_MSTATUS)
                  => n.reg[CSR_MSTATUS] = csr_write_next(c.reg[CSR_MSTATUS], q.data, q.op)
             /\ ~Writes(q, CSR_MSTATUS) /\ ~Writes(q, CSR_SSTATUS)
                  => n.reg[CSR_SSTATUS] = c.reg[CSR_SSTATUS]
<1> DEFINE new == Written(c.reg, Counted(c.reg, t.trigger), q)
<1>1. c.reg \in RegFile /\ t.trigger \in BOOLEAN
  BY DEF CsrFileType, RegFile, CommandType
<1>2. /\ ~Writes(q, CSR_MEPC) => new[CSR_MEPC] = c.reg[CSR_MEPC]
      /\ ~Writes(q, CSR_SEPC) => new[CSR_SEPC] = c.reg[CSR_SEPC]
      /\ ~Writes(q, CSR_MSTATUS)
           => new[CSR_MSTATUS] \cap MFields = c.reg[CSR_MSTATUS] \cap MFields
      /\ Writes(q, CSR_MSTATUS)
           => new[CSR_MSTATUS] = csr_write_next(c.reg[CSR_MSTATUS], q.data, q.op)
      /\ ~Writes(q, CSR_MSTATUS) /\ ~Writes(q, CSR_SSTATUS)
           => new[CSR_SSTATUS] = c.reg[CSR_SSTATUS]
  BY <1>1, WrittenElsewhere
<1> HIDE DEF new
<1>3. CsrNext(c, q, t) = [c EXCEPT !.reg = new]
  BY DEF CsrNext, new
<1>4. CsrNext(c, q, t).priv = c.priv /\ CsrNext(c, q, t).reg = new
  BY <1>3 DEF CsrFileType
<1> QED
  BY <1>2, <1>4

-----------------------------------------------------------------------------
(* The inductive invariant *)

\* The registers hold the context of the last trap to M-mode until MRET.
MachineStack ==
  mctx # NoContext =>
    /\ csr.reg[CSR_MEPC] = mctx.epc
    /\ decode_priv_mode(csr.reg[CSR_MSTATUS] \cap MppBits) = mctx.priv
    /\ (MPIE_BIT \in csr.reg[CSR_MSTATUS]) = mctx.ie

\* The same for the last trap to S-mode, which never comes from M-mode.
SupervisorStack ==
  sctx # NoContext =>
    /\ csr.reg[CSR_SEPC] = sctx.epc
    /\ sctx.priv = IF SPP_BIT \in csr.reg[CSR_SSTATUS] THEN PRIV_S ELSE PRIV_U
    /\ (SPIE_BIT \in csr.reg[CSR_SSTATUS]) = sctx.ie

Quiet == masked => MIE_BIT \notin csr.reg[CSR_MSTATUS]

PrivInv == TypeOK /\ Agree(csr.reg) /\ MachineStack /\ SupervisorStack /\ Quiet

\* The history variables stay typed.
LEMMA ObserveType ==
  ASSUME TypeOK, NEW q \in RequestType, NEW t \in CommandType,
         csr' \in CsrFileType, Observe(q, t)
  PROVE  TypeOK'
<1>1. csr.priv \in PrivMode /\ t.mepc \in Bits
  BY DEF TypeOK, CsrFileType, CommandType
<1>2. event' \in {"reset", "commit", "trap", "mret", "sret"}
  BY DEF Observe
<1>3. masked' \in BOOLEAN
  BY DEF Observe
<1>4. \A b \in BOOLEAN : [epc |-> t.mepc, priv |-> csr.priv, ie |-> b] \in Context
  BY <1>1 DEF Context
<1>5. mctx' \in Context
  <2> DEFINE ie == MIE_BIT \in csr.reg[CSR_MSTATUS]
  <2>1. \/ mctx' = [epc |-> t.mepc, priv |-> csr.priv, ie |-> ie]
        \/ mctx' = NoContext
        \/ mctx' = mctx
    BY DEF Observe
  <2>2. ie \in BOOLEAN
    OBVIOUS
  <2> HIDE DEF ie
  <2>3. NoContext \in Context /\ mctx \in Context /\ sctx \in Context
    BY DEF Context, TypeOK
  <2> QED
    BY <1>4, <2>1, <2>2, <2>3
<1>6. sctx' \in Context
  <2> DEFINE ie == SIE_BIT \in csr.reg[CSR_SSTATUS]
  <2>1. \/ sctx' = [epc |-> t.mepc, priv |-> csr.priv, ie |-> ie]
        \/ sctx' = NoContext
        \/ sctx' = sctx
    BY DEF Observe
  <2>2. ie \in BOOLEAN
    OBVIOUS
  <2> HIDE DEF ie
  <2>3. NoContext \in Context /\ mctx \in Context /\ sctx \in Context
    BY DEF Context, TypeOK
  <2> QED
    BY <1>4, <2>1, <2>2, <2>3
<1> QED
  BY <1>2, <1>3, <1>5, <1>6 DEF TypeOK

\* The invariant holds after reset and is kept by every edge.
LEMMA PrivInvInit == Init => PrivInv
<1> SUFFICES ASSUME Init PROVE PrivInv
  OBVIOUS
<1>1. TypeOK
  BY ResetType DEF Init, TypeOK, Context
<1>2. Agree(csr.reg)
  BY StatusAddresses DEF Init, ResetCsr, Agree
<1> QED
  BY <1>1, <1>2 DEF Init, PrivInv, MachineStack, SupervisorStack, Quiet

LEMMA PrivInvStep ==
  ASSUME PrivInv, NEW q \in RequestType, NEW t \in Commands(csr.priv),
         csr' = CsrNext(csr, q, t), Observe(q, t)
  PROVE  PrivInv'
<1>1. csr \in CsrFileType /\ t \in CommandType
  BY DEF PrivInv, TypeOK, Commands
<1>2. TypeOK' /\ csr' \in CsrFileType
  BY <1>1, CsrNextType, ObserveType DEF PrivInv
<1>3. Agree(csr.reg)'
  BY <1>1, CsrNextAgrees DEF PrivInv
<1>4. csr.priv \in PrivMode
  BY <1>1 DEF CsrFileType
<1>5. CASE t.trigger /\ ~t.to_s
  <2>1. /\ csr'.reg[CSR_MEPC] = t.mepc
        /\ MIE_BIT \notin csr'.reg[CSR_MSTATUS]
        /\ (MPIE_BIT \in csr'.reg[CSR_MSTATUS]) = (MIE_BIT \in csr.reg[CSR_MSTATUS])
        /\ decode_priv_mode(csr'.reg[CSR_MSTATUS] \cap MppBits) = csr.priv
        /\ csr'.reg[CSR_SSTATUS] \cap SharedBits = csr.reg[CSR_MSTATUS] \cap SharedBits
        /\ ~Writes(q, CSR_SEPC) => csr'.reg[CSR_SEPC] = csr.reg[CSR_SEPC]
    BY <1>1, <1>5, MachineTrap
  <2>2. MachineStack'
    BY <1>5, <2>1 DEF MachineStack, Observe
  <2>3. csr'.reg[CSR_SSTATUS] \cap SharedBits = csr.reg[CSR_SSTATUS] \cap SharedBits
    BY <2>1 DEF PrivInv, Agree
  <2>4. SupervisorStack'
    BY <1>5, <2>1, <2>3 DEF PrivInv, SupervisorStack, Observe, SharedBits
  <2> QED
    BY <1>2, <1>3, <2>1, <2>2, <2>4 DEF PrivInv, Quiet
<1>6. CASE t.trigger /\ t.to_s
  <2>1. csr.priv # PRIV_M /\ ~t.mret /\ ~t.sret
    BY <1>6 DEF Commands
  <2>2. /\ csr'.reg[CSR_SEPC] = t.mepc
        /\ (SPIE_BIT \in csr'.reg[CSR_SSTATUS]) = (SIE_BIT \in csr.reg[CSR_SSTATUS])
        /\ (SPP_BIT \in csr'.reg[CSR_SSTATUS]) = (csr.priv = PRIV_S)
        /\ csr'.reg[CSR_MSTATUS] \cap MFields = csr.reg[CSR_MSTATUS] \cap MFields
        /\ ~Writes(q, CSR_MEPC) => csr'.reg[CSR_MEPC] = csr.reg[CSR_MEPC]
    BY <1>1, <1>6, <2>1, SupervisorTrap
  <2>3. SupervisorStack'
    BY <1>4, <1>6, <2>1, <2>2 DEF SupervisorStack, Observe, PrivMode
  <2>4. MachineStack'
    <3>1. /\ csr'.reg[CSR_MSTATUS] \cap MppBits = csr.reg[CSR_MSTATUS] \cap MppBits
          /\ MPIE_BIT \in csr'.reg[CSR_MSTATUS] <=> MPIE_BIT \in csr.reg[CSR_MSTATUS]
      BY <2>2 DEF MFields
    <3>2. mctx' # NoContext => mctx' = mctx /\ ~Writes(q, CSR_MEPC)
      BY <1>6, <2>1 DEF Observe
    <3>3. mctx' # NoContext => csr'.reg[CSR_MEPC] = csr.reg[CSR_MEPC]
      BY <2>2, <3>2
    <3> QED
      BY <3>1, <3>2, <3>3 DEF PrivInv, MachineStack
  <2>5. Quiet'
    BY <1>6, <2>2 DEF PrivInv, Quiet, Observe, MFields
  <2> QED
    BY <1>2, <1>3, <2>3, <2>4, <2>5 DEF PrivInv
<1>7. CASE ~t.trigger /\ t.mret
  <2>1. ~t.sret
    BY <1>7 DEF Commands
  <2>2. /\ csr'.reg[CSR_SSTATUS] \cap SharedBits = csr.reg[CSR_MSTATUS] \cap SharedBits
        /\ ~Writes(q, CSR_SEPC) => csr'.reg[CSR_SEPC] = csr.reg[CSR_SEPC]
    BY <1>1, <1>7, <2>1, MachineReturn
  <2>3. csr'.reg[CSR_SSTATUS] \cap SharedBits = csr.reg[CSR_SSTATUS] \cap SharedBits
    BY <2>2 DEF PrivInv, Agree
  <2>4. SupervisorStack'
    BY <1>7, <2>1, <2>2, <2>3 DEF PrivInv, SupervisorStack, Observe, SharedBits
  <2>5. MachineStack' /\ Quiet'
    BY <1>7 DEF MachineStack, Quiet, Observe
  <2> QED
    BY <1>2, <1>3, <2>4, <2>5 DEF PrivInv
<1>8. CASE ~t.trigger /\ t.sret
  <2>1. ~t.mret
    BY <1>8 DEF Commands
  <2>2. /\ csr'.reg[CSR_MSTATUS] \cap MFields = csr.reg[CSR_MSTATUS] \cap MFields
        /\ ~Writes(q, CSR_MEPC) => csr'.reg[CSR_MEPC] = csr.reg[CSR_MEPC]
    BY <1>1, <1>8, SupervisorReturn
  <2>3. SupervisorStack'
    BY <1>8 DEF SupervisorStack, Observe
  <2>4. MachineStack'
    <3>1. csr'.reg[CSR_MSTATUS] \cap MppBits = csr.reg[CSR_MSTATUS] \cap MppBits
      BY <2>2 DEF MFields
    <3> QED
      BY <1>8, <2>1, <2>2, <3>1 DEF PrivInv, MachineStack, Observe, MFields
  <2>5. Quiet'
    BY <1>8, <2>2 DEF PrivInv, Quiet, Observe, MFields
  <2> QED
    BY <1>2, <1>3, <2>3, <2>4, <2>5 DEF PrivInv
<1>9. CASE ~t.trigger /\ ~t.mret /\ ~t.sret
  <2>1. /\ ~Writes(q, CSR_MEPC) => csr'.reg[CSR_MEPC] = csr.reg[CSR_MEPC]
        /\ ~Writes(q, CSR_SEPC) => csr'.reg[CSR_SEPC] = csr.reg[CSR_SEPC]
        /\ ~Writes(q, CSR_MSTATUS)
             => csr'.reg[CSR_MSTATUS] \cap MFields = csr.reg[CSR_MSTATUS] \cap MFields
        /\ Writes(q, CSR_MSTATUS)
             => csr'.reg[CSR_MSTATUS] = csr_write_next(csr.reg[CSR_MSTATUS], q.data, q.op)
        /\ ~Writes(q, CSR_MSTATUS) /\ ~Writes(q, CSR_SSTATUS)
             => csr'.reg[CSR_SSTATUS] = csr.reg[CSR_SSTATUS]
    BY <1>1, <1>9, PlainEdge
  <2>2. SupervisorStack'
    BY <1>9, <2>1 DEF PrivInv, SupervisorStack, Observe
  <2>3. MachineStack'
    <3>1. ~Writes(q, CSR_MSTATUS)
            => csr'.reg[CSR_MSTATUS] \cap MppBits = csr.reg[CSR_MSTATUS] \cap MppBits
      BY <2>1 DEF MFields
    <3> QED
      BY <1>9, <2>1, <3>1 DEF PrivInv, MachineStack, Observe, MFields
  <2>4. Quiet'
    BY <1>9, <2>1 DEF PrivInv, Quiet, Observe, MFields
  <2> QED
    BY <1>2, <1>3, <2>2, <2>3, <2>4 DEF PrivInv
<1> QED
  BY <1>1, <1>5, <1>6, <1>7, <1>8, <1>9 DEF CommandType

\* The invariant holds in every reachable state.
LEMMA PrivInvariant == Spec => []PrivInv
<1>1. PrivInv /\ [Next]_vars => PrivInv'
  <2> SUFFICES ASSUME PrivInv, [Next]_vars PROVE PrivInv'
    OBVIOUS
  <2>1. CASE Next
    BY <2>1, StepShape, PrivInvStep DEF PrivInv
  <2>2. CASE UNCHANGED vars
    BY <2>2 DEF vars, PrivInv, TypeOK, Context, MachineStack, SupervisorStack, Quiet
  <2> QED
    BY <2>1, <2>2
<1> QED
  BY <1>1, PrivInvInit, PTL DEF Spec

-----------------------------------------------------------------------------
(* The theorems *)

\* The CSR file and the history variables of the composition stay typed.
THEOREM PrivTypeCorrect == Spec => []TypeOK
<1>1. PrivInv => TypeOK
  BY DEF PrivInv
<1> QED
  BY <1>1, PrivInvariant, PTL

\* No interrupt enters a machine trap handler before software lets it in.
THEOREM HandlerUninterrupted == Spec => []NoNestedInterrupt
<1>1. PrivInv => NoNestedInterrupt
  BY DEF PrivInv, Quiet, NoNestedInterrupt, HasInterrupt
<1> QED
  BY <1>1, PrivInvariant, PTL

\* MRET restores mode, interrupt enable and PC of the last trap to M-mode.
THEOREM MachineReturnSound == Spec => MachineReturnRestores
<1>1. PrivInv /\ [Next]_vars =>
        [event' = "mret" /\ mctx # NoContext =>
           /\ csr'.priv = mctx.priv
           /\ (MIE_BIT \in csr'.reg[CSR_MSTATUS]) = mctx.ie
           /\ npc' = ToWord(mctx.epc)]_vars
  <2> SUFFICES ASSUME PrivInv, Next, event' = "mret", mctx # NoContext
               PROVE  /\ csr'.priv = mctx.priv
                      /\ (MIE_BIT \in csr'.reg[CSR_MSTATUS]) = mctx.ie
                      /\ npc' = ToWord(mctx.epc)
    OBVIOUS
  <2>1. PICK q \in RequestType, t \in Commands(csr.priv) :
          /\ csr' = CsrNext(csr, q, t)
          /\ Observe(q, t)
          /\ t.mret => npc' = ToWord(csr.reg[CSR_MEPC])
    BY StepShape DEF PrivInv
  <2>2. t \in CommandType /\ csr \in CsrFileType
    BY DEF Commands, PrivInv, TypeOK
  <2>3. ~t.trigger /\ t.mret /\ ~t.sret
    <3>1. ~t.trigger /\ t.mret
      BY <2>1, <2>2 DEF Observe, CommandType
    <3> QED
      BY <3>1 DEF Commands
  <2>4. /\ csr'.priv = decode_priv_mode(csr.reg[CSR_MSTATUS] \cap MppBits)
        /\ (MIE_BIT \in csr'.reg[CSR_MSTATUS]) = (MPIE_BIT \in csr.reg[CSR_MSTATUS])
    BY <2>1, <2>2, <2>3, MachineReturn
  <2> QED
    BY <2>1, <2>3, <2>4 DEF PrivInv, MachineStack
<1> QED
  BY <1>1, PrivInvariant, PTL DEF Spec, MachineReturnRestores

\* SRET restores mode, interrupt enable and PC of the last trap to S-mode.
THEOREM SupervisorReturnSound == Spec => SupervisorReturnRestores
<1>1. PrivInv /\ [Next]_vars =>
        [event' = "sret" /\ sctx # NoContext =>
           /\ csr'.priv = sctx.priv
           /\ (SIE_BIT \in csr'.reg[CSR_SSTATUS]) = sctx.ie
           /\ npc' = ToWord(sctx.epc)]_vars
  <2> SUFFICES ASSUME PrivInv, Next, event' = "sret", sctx # NoContext
               PROVE  /\ csr'.priv = sctx.priv
                      /\ (SIE_BIT \in csr'.reg[CSR_SSTATUS]) = sctx.ie
                      /\ npc' = ToWord(sctx.epc)
    OBVIOUS
  <2>1. PICK q \in RequestType, t \in Commands(csr.priv) :
          /\ csr' = CsrNext(csr, q, t)
          /\ Observe(q, t)
          /\ t.sret => npc' = ToWord(csr.reg[CSR_SEPC])
    BY StepShape DEF PrivInv
  <2>2. t \in CommandType /\ csr \in CsrFileType
    BY DEF Commands, PrivInv, TypeOK
  <2>3. ~t.trigger /\ t.sret
    BY <2>1, <2>2 DEF Observe, CommandType
  <2>4. /\ csr'.priv = IF SPP_BIT \in csr.reg[CSR_SSTATUS] THEN PRIV_S ELSE PRIV_U
        /\ (SIE_BIT \in csr'.reg[CSR_SSTATUS]) = (SPIE_BIT \in csr.reg[CSR_SSTATUS])
    BY <2>1, <2>2, <2>3, SupervisorReturn
  <2> QED
    BY <2>1, <2>3, <2>4 DEF PrivInv, SupervisorStack
<1> QED
  BY <1>1, PrivInvariant, PTL DEF Spec, SupervisorReturnRestores

\* Privilege rises only with a trap and falls only with a return.
THEOREM PrivilegeMovesSound == Spec => PrivilegeMoves
<1>1. PrivInv /\ [Next]_vars =>
        [/\ csr'.priv < csr.priv => event' \in {"mret", "sret"}
         /\ csr'.priv > csr.priv => event' = "trap"]_vars
  <2> SUFFICES ASSUME PrivInv, Next
               PROVE  /\ csr'.priv < csr.priv => event' \in {"mret", "sret"}
                      /\ csr'.priv > csr.priv => event' = "trap"
    OBVIOUS
  <2>1. PICK q \in RequestType, t \in Commands(csr.priv) :
          csr' = CsrNext(csr, q, t) /\ Observe(q, t)
    BY StepShape DEF PrivInv
  <2>2. t \in CommandType /\ csr \in CsrFileType /\ csr.priv \in {0, 1, 3}
    BY DEF Commands, PrivInv, TypeOK, CsrFileType, PrivMode, PRIV_U, PRIV_S, PRIV_M
  <2>3. CASE t.trigger /\ ~t.to_s
    <3>1. csr'.priv = 3
      BY <2>1, <2>2, <2>3, MachineTrap DEF PRIV_M
    <3>2. event' = "trap"
      BY <2>1, <2>3 DEF Observe
    <3> QED
      BY <2>2, <3>1, <3>2
  <2>4. CASE t.trigger /\ t.to_s
    <3>1. csr.priv # PRIV_M
      BY <2>4 DEF Commands
    <3> QED
      BY <2>1, <2>2, <2>4, <3>1, SupervisorTrap DEF Observe, PRIV_S, PRIV_M
  <2>5. CASE ~t.trigger /\ t.mret
    <3>1. csr.priv = PRIV_M /\ ~t.sret
      BY <2>5 DEF Commands
    <3>2. csr'.priv \in {0, 1, 3}
      BY <2>1, <2>2, <2>5, <3>1, MachineReturn DEF decode_priv_mode, PRIV_U, PRIV_S, PRIV_M
    <3> QED
      BY <2>1, <2>5, <3>1, <3>2 DEF Observe, PRIV_M
  <2>6. CASE ~t.trigger /\ t.sret
    <3>1. csr.priv # PRIV_U /\ ~t.mret
      BY <2>6 DEF Commands
    <3>2. csr'.priv \in {0, 1}
      BY <2>1, <2>2, <2>6, SupervisorReturn DEF PRIV_U, PRIV_S
    <3> QED
      BY <2>1, <2>2, <2>6, <3>1, <3>2 DEF Observe, PRIV_U
  <2>7. CASE ~t.trigger /\ ~t.mret /\ ~t.sret
    <3>1. csr'.priv = csr.priv
      BY <2>1, <2>2, <2>7, PlainEdge
    <3> QED
      BY <2>2, <3>1
  <2> QED
    BY <2>2, <2>3, <2>4, <2>5, <2>6, <2>7 DEF CommandType
<1> QED
  BY <1>1, PrivInvariant, PTL DEF Spec, PrivilegeMoves
=============================================================================
