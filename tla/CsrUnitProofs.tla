---------------------------- MODULE CsrUnitProofs ----------------------------
(***************************************************************************)
(* The invariants of CsrUnit hold for every register and counter width,    *)
(* every set of operations, addresses and operands, and all identity       *)
(* registers.                                                              *)
(***************************************************************************)
EXTENDS CsrUnit, CsrFileProofs

-----------------------------------------------------------------------------
(* Type correctness *)

\* Every step of CsrUnit is a reset or a CsrNext with typed inputs.
LEMMA StepShape ==
  ASSUME csr \in CsrFileType, Next
  PROVE  \/ csr' = ResetCsr
         \/ \E q \in RequestType, t \in CommandType : csr' = CsrNext(csr, q, t)
<1>1. NoTrap \in CommandType /\ [NoTrap EXCEPT !.mret = TRUE] \in CommandType
        /\ [NoTrap EXCEPT !.sret = TRUE] \in CommandType
  BY DEF NoTrap, CommandType, Bits
<1>2. NoRequest \in RequestType
  BY DEF NoRequest, RequestType, CsrOp, CsrAddr, Bits
<1>3. Request \subseteq RequestType
  BY CsrUnitAssumption DEF Request, RequestType
<1>4. CASE Reset
  BY <1>4 DEF Reset
<1>5. CASE Idle
  BY <1>1, <1>2, <1>5 DEF Idle
<1>6. CASE \E q \in Request : Access(q)
  BY <1>1, <1>3, <1>6 DEF Access
<1>7. CASE \E q \in Request \cup {NoRequest}, to_s \in BOOLEAN,
            pc \in Payloads, cause \in Payloads, tval \in Payloads :
             Trap(q, to_s, pc, cause, tval)
  <2>1. PICK q \in Request \cup {NoRequest}, to_s \in BOOLEAN,
             pc \in Payloads, cause \in Payloads, tval \in Payloads :
               Trap(q, to_s, pc, cause, tval)
    BY <1>7
  <2> DEFINE t == [trigger |-> TRUE, to_s |-> to_s, mepc |-> pc, mcause |-> cause,
                   mtval |-> tval, mret |-> FALSE, sret |-> FALSE]
  <2>2. t \in CommandType
    BY CsrUnitAssumption DEF CommandType
  <2>3. q \in RequestType
    BY <1>2, <1>3
  <2>4. csr' = CsrNext(csr, q, t)
    BY <2>1 DEF Trap
  <2> QED
    BY <2>2, <2>3, <2>4
<1>8. CASE Mret
  BY <1>1, <1>2, <1>8 DEF Mret
<1>9. CASE Sret
  BY <1>1, <1>2, <1>9 DEF Sret
<1> QED
  BY <1>4, <1>5, <1>6, <1>7, <1>8, <1>9 DEF Next

\* Every reachable CSR file is well typed; in particular the privilege mode
\* is always U, S or M, whatever software writes into mstatus.MPP.
THEOREM TypeCorrect == Spec => []TypeOK
<1>1. Init => TypeOK
  BY ResetType DEF Init, TypeOK
<1>2. TypeOK /\ [Next]_csr => TypeOK'
  <2> SUFFICES ASSUME TypeOK, [Next]_csr PROVE TypeOK'
    OBVIOUS
  <2>1. CASE Next
    BY <2>1, StepShape, CsrNextType, ResetType DEF TypeOK
  <2>2. CASE UNCHANGED csr
    BY <2>2 DEF TypeOK
  <2> QED
    BY <2>1, <2>2
<1> QED
  BY <1>1, <1>2, PTL DEF Spec

-----------------------------------------------------------------------------
(* The two status registers agree *)

\* mstatus and sstatus present the same SIE, SPIE and SPP for ever.
THEOREM StatusMirrored == Spec => []StatusMirror
<1>1. Init => StatusMirror
  BY StatusAddresses DEF Init, StatusMirror, ResetCsr
<1>2. TypeOK /\ StatusMirror /\ [Next]_csr => StatusMirror'
  <2> SUFFICES ASSUME TypeOK, StatusMirror, [Next]_csr PROVE StatusMirror'
    OBVIOUS
  <2>1. CASE csr' = ResetCsr
    BY <2>1, StatusAddresses DEF StatusMirror, ResetCsr
  <2>2. CASE \E q \in RequestType, t \in CommandType : csr' = CsrNext(csr, q, t)
    BY <2>2, CsrNextAgrees DEF StatusMirror, Agree, TypeOK
  <2>3. CASE UNCHANGED csr
    BY <2>3 DEF StatusMirror
  <2> QED
    BY <2>1, <2>2, <2>3, StepShape DEF TypeOK
<1> QED
  BY <1>1, <1>2, TypeCorrect, PTL DEF Spec

-----------------------------------------------------------------------------
(* No register holds bits it does not implement *)

\* fflags, frm and the counters never hold bits beyond their width.
THEOREM RegistersShort == Spec => []ShortRegisters
<1> DEFINE Inv == Short(csr.reg)
<1>1. Init => Inv
  BY ShortAddresses DEF Init, ResetCsr, Short
<1>2. TypeOK /\ Inv /\ [Next]_csr => Inv'
  <2> SUFFICES ASSUME TypeOK, Inv, [Next]_csr PROVE Inv'
    OBVIOUS
  <2>1. CASE csr' = ResetCsr
    BY <2>1, ShortAddresses DEF ResetCsr, Short
  <2>2. CASE \E q \in RequestType, t \in CommandType : csr' = CsrNext(csr, q, t)
    BY <2>2, CsrNextShort DEF TypeOK
  <2>3. CASE UNCHANGED csr
    BY <2>3
  <2> QED
    BY <2>1, <2>2, <2>3, StepShape DEF TypeOK
<1>3. TypeOK /\ Inv => ShortRegisters
  <2> SUFFICES ASSUME TypeOK, Inv, NEW a \in StoredCsr
               PROVE  csr.reg[a] \subseteq Implemented(a)
    BY DEF ShortRegisters
  <2>1. csr.reg[a] \subseteq BitIdx
    BY DEF TypeOK, CsrFileType, Bits
  <2>2. a \notin ShortOnes => Implemented(a) = BitIdx
    BY DEF Implemented, ShortOnes
  <2> QED
    BY <2>1, <2>2 DEF Short
<1> QED
  BY <1>1, <1>2, <1>3, TypeCorrect, PTL DEF Spec

-----------------------------------------------------------------------------
(* The write port and the flag of an illegal access *)

\* An access that is reported as illegal leaves the registers alone.
THEOREM IllegalAccessInert == Spec => []IllegalAccessWritesNothing
<1>1. IllegalAccessWritesNothing
  BY DEF IllegalAccessWritesNothing, csr_illegal_access, Written, WriteEnable
<1> QED
  BY <1>1, PTL

\* The arms of read_csr are disjoint.
LEMMA ReadArms ==
  /\ StoredCsr \cap ({CSR_FCSR, CSR_MISA} \cup IdRegisters) = {}
  /\ CSR_FCSR \notin {CSR_MISA} \cup IdRegisters
  /\ {CSR_MVENDORID, CSR_MARCHID, CSR_MIMPID, CSR_MHARTID} = IdRegisters
<1>1. \A a \in StoredCsr : ~(a > 3856) /\ a # CSR_FCSR /\ a # CSR_MISA
  BY DEF StoredCsr, Counters, CSR_FCSR, CSR_MISA, CSR_FFLAGS, CSR_FRM, CSR_SSTATUS,
         CSR_SIE, CSR_STVEC, CSR_SCOUNTEREN, CSR_SSCRATCH, CSR_SEPC, CSR_SCAUSE,
         CSR_STVAL, CSR_SIP, CSR_SATP, CSR_MSTATUS, CSR_MEDELEG, CSR_MIDELEG, CSR_MIE,
         CSR_MTVEC, CSR_MCOUNTEREN, CSR_MSCRATCH, CSR_MEPC, CSR_MCAUSE, CSR_MTVAL,
         CSR_MIP, CSR_MCYCLE, CSR_MINSTRET, CSR_TIME
<1>2. \A a \in IdRegisters : a > 3856
  BY DEF IdRegisters, CSR_MVENDORID, CSR_MARCHID, CSR_MIMPID, CSR_MHARTID
<1>3. CSR_FCSR \notin {CSR_MISA} \cup IdRegisters
  BY <1>2 DEF CSR_FCSR, CSR_MISA
<1> QED
  BY <1>1, <1>2, <1>3 DEF IdRegisters

\* A plain write is read back after the edge, through the aliases and the
\* packed fcsr, and whatever the counters do on that edge.
THEOREM WriteIsReadBack == Spec => []WriteReadBack
<1>1. TypeOK => WriteReadBack
  <2> SUFFICES ASSUME TypeOK, NEW q \in Request, IsWriteCmd(q.op), ~csr_illegal_access(q)
               PROVE  read_csr(CsrNext(csr, q, NoTrap).reg, q.addr)
                        = q.data \cap ReadImplemented(q.addr)
    BY DEF WriteReadBack
  <2> DEFINE a == canonical_addr(q.addr)
             r == Counted(csr.reg, FALSE)
             w == Written(csr.reg, r, q)
  <2>0. csr.reg \in RegFile /\ csr \in CsrFileType /\ q \in RequestType
    BY CsrUnitAssumption DEF TypeOK, CsrFileType, RegFile, Request, RequestType
  <2>1. r \in RegFile /\ q \in RequestType
    BY <2>0, CountedType
  <2>7. CsrNext(csr, q, NoTrap).reg = w
    <3>1. CsrNext(csr, q, NoTrap) = [csr EXCEPT !.reg = w]
      BY DEF CsrNext, NoTrap
    <3> HIDE DEF w
    <3> QED
      BY <2>0, <3>1 DEF CsrFileType
  <2> HIDE DEF r
  <2>2. q.req = TRUE /\ q.data \subseteq BitIdx
    BY <2>1 DEF Request, RequestType, Bits
  <2>3. csr_is_supported(a) /\ csr_is_writable(a) /\ WriteEnable(q)
    BY <2>2 DEF csr_illegal_access, WriteEnable
  <2>4. \A cur : csr_write_next(cur, q.data, q.op) = q.data
    <3>1. ~IsSetCmd(q.op) /\ ~IsClearCmd(q.op)
      BY DEF IsWriteCmd, IsSetCmd, IsClearCmd
    <3> QED
      BY <3>1 DEF csr_write_next
  <2>5. CASE a = CSR_FCSR
    <3>1. w = [r EXCEPT ![CSR_FFLAGS] = q.data \cap (0 .. 4),
                        ![CSR_FRM]    = {i \in 0 .. 2 : i + 5 \in q.data}]
      <4>1. a # CSR_MSTATUS /\ a # CSR_SSTATUS
        BY <2>5 DEF CSR_FCSR, CSR_MSTATUS, CSR_SSTATUS
      <4>2. csr_write_next(compose_fcsr(csr.reg), q.data, q.op) = q.data
        BY <2>4
      <4> HIDE DEF a
      <4> QED
        BY <2>3, <2>5, <4>1, <4>2 DEF Written, a
    <3>2. w[CSR_FFLAGS] = q.data \cap (0 .. 4) /\ w[CSR_FRM] = {i \in 0 .. 2 : i + 5 \in q.data}
      BY <2>1, <3>1, ShortAddresses DEF RegFile, ShortOnes
    <3>3. compose_fcsr(w) = q.data \cap (0 .. 7)
      <4> HIDE DEF w
      <4>1. ASSUME NEW i \in q.data \cap (0 .. 7)
            PROVE  i \in compose_fcsr(w)
        <5>1. CASE i \in 0 .. 4
          BY <3>2, <5>1 DEF compose_fcsr
        <5>2. CASE i \notin 0 .. 4
          <6>1. i - 5 \in 0 .. 2 /\ i = (i - 5) + 5
            BY <5>2
          <6>2. i - 5 \in w[CSR_FRM]
            BY <3>2, <6>1
          <6> QED
            BY <6>1, <6>2 DEF compose_fcsr
        <5> QED
          BY <5>1, <5>2
      <4>2. ASSUME NEW i \in compose_fcsr(w)
            PROVE  i \in q.data \cap (0 .. 7)
        BY <3>2, <4>2 DEF compose_fcsr
      <4> QED
        BY <4>1, <4>2
    <3>4. read_csr(w, q.addr) = compose_fcsr(w)
      BY <2>5, ReadArms DEF read_csr
    <3>5. q.addr = CSR_FCSR
      BY <2>5 DEF canonical_addr, CSR_FCSR, CSR_MCYCLE, CSR_MINSTRET
    <3> QED
      BY <3>3, <3>4, <3>5, <2>7 DEF ReadImplemented
  <2>6. CASE a # CSR_FCSR
    <3>1. a \in StoredCsr
      BY <2>3, <2>6, WritableIsStored
    <3>2. w[a] = q.data \cap Implemented(a)
      <4>1. CASE a \in {CSR_MSTATUS, CSR_SSTATUS}
        <5>1. Implemented(a) = BitIdx
          BY <4>1, ShortAddresses DEF Implemented, ShortOnes
        <5>2. w[a] = q.data
          BY <2>1, <2>3, <2>4, <4>1, StatusAddresses DEF Written, RegFile
        <5> QED
          BY <2>2, <5>1, <5>2
      <4>2. CASE a \notin {CSR_MSTATUS, CSR_SSTATUS}
        <5>1. w = [r EXCEPT ![a] = q.data \cap Implemented(a)]
          BY <2>3, <2>4, <2>6, <4>2 DEF Written
        <5> HIDE DEF a
        <5> QED
          BY <2>1, <3>1, <5>1 DEF RegFile
      <4> QED
        BY <4>1, <4>2
    <3>3. read_csr(w, q.addr) = w[a]
      BY <3>1, ReadArms DEF read_csr
    <3>4. q.addr # CSR_FCSR
      BY <2>6 DEF canonical_addr, CSR_FCSR, CSR_CYCLE, CSR_INSTRET
    <3> QED
      BY <3>2, <3>3, <3>4, <2>7 DEF ReadImplemented
  <2> QED
    BY <2>5, <2>6, <2>7
<1> QED
  BY <1>1, TypeCorrect, PTL
=============================================================================
