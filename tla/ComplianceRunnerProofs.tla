----------------------- MODULE ComplianceRunnerProofs -----------------------
(***************************************************************************)
(* The compliance runner and the script that judges it, for every memory   *)
(* size, command line, ELF file and sequence of stores the core can drive. *)
(***************************************************************************)
EXTENDS ComplianceRunner, TLAPS

-----------------------------------------------------------------------------
(* The invariant *)

\* Exit status for a verdict.
ExitOf(verdict) == CASE verdict = 1 -> 0 [] verdict = 3 -> 1 [] OTHER -> 3

\* Before the program runs, nothing has been observed or reported.
BeforeInv ==
  /\ phase \in {"args", "load"} => status = 0 /\ decided = 0
  /\ phase \in {"args", "load", "run", "dump"} => counted = "no" /\ sig.by # "this"

\* While it runs, the byte map is the program's memory, and tohost holds no
\* verdict. The second is what makes overlaps_tohost, which takes any store
\* of up to seven bytes below the word for one to it, harmless.
RunInv ==
  /\ phase \in {"run", "dump"} =>
       /\ Loads(elf) /\ symbols = LoadSymbols(elf) /\ mem = arch
  /\ phase = "run" =>
       /\ status = 0 /\ decided = 0
       /\ symbols.tohost # 0 => Status(mem, symbols.tohost) \notin {1, 3}
  /\ phase = "dump" => status = decided

\* After it, exit status and signature tell what happened.
AfterInv ==
  /\ Ran => /\ exit = ExitOf(decided)
            /\ sig.by = "this" => sig.lines = SignatureLines(arch, symbols)
            /\ opts.signature /\ openable => sig.by = "this"
  /\ phase \in {"exited", "judged"} /\ opts.elf /\ ~opts.help /\ ~Loads(elf) => exit = 2
  /\ counted = "passed" => /\ phase = "judged" /\ exit \in {0, 3}
                           /\ opts.elf /\ opts.signature /\ ~opts.help

RunnerInv ==
  /\ phase \in {"args", "load", "run", "dump", "exited", "judged"}
  /\ elf \in Elfs
  /\ BeforeInv /\ RunInv /\ AfterInv

-----------------------------------------------------------------------------
(* Stores *)

\* A store moves one, two, four or eight bytes, within a cell unless it has
\* the reserved size 7.
LEMMA StoreFits ==
  ASSUME NEW st \in Stores
  PROVE  /\ st.addr \in Nat
         /\ Bytes(st.size) \in {1, 2, 4, 8}
         /\ st.size \in 0 .. 7
         /\ st.size # 7 => (st.addr % 8) + Bytes(st.size) <= 8
<1>1. /\ st.size \in 0 .. 7 /\ st.addr \in Nat
      /\ st.size # 7 => st.addr % Bytes(st.size) = 0
  BY RunnerAssumption
<1>2. CASE st.size \in {0, 4}
  <2>1. Bytes(st.size) = 1
    <3>1. st.size % 4 = 0
      BY <1>2
    <3>2. 2^0 = 1
      OBVIOUS
    <3> QED
      BY <3>1, <3>2, Zenon DEF Bytes
  <2> QED
    BY <1>1, <2>1
<1>3. CASE st.size \in {1, 5}
  <2>1. Bytes(st.size) = 2
    <3>1. st.size % 4 = 1
      BY <1>3
    <3>2. 2^1 = 2
      OBVIOUS
    <3> QED
      BY <3>1, <3>2, Zenon DEF Bytes
  <2> QED
    BY <1>1, <1>3, <2>1
<1>4. CASE st.size \in {2, 6}
  <2>1. Bytes(st.size) = 4
    <3>1. st.size % 4 = 2
      BY <1>4
    <3>2. 2^2 = 4
      OBVIOUS
    <3> QED
      BY <3>1, <3>2, Zenon DEF Bytes
  <2> QED
    BY <1>1, <1>4, <2>1
<1>5. CASE st.size \in {3, 7}
  <2>1. Bytes(st.size) = 8
    <3>1. st.size % 4 = 3
      BY <1>5
    <3>2. 2^3 = 8
      OBVIOUS
    <3> QED
      BY <3>1, <3>2, Zenon DEF Bytes
  <2> QED
    BY <1>1, <1>5, <2>1
<1> QED
  BY <1>1, <1>2, <1>3, <1>4, <1>5

\* The program's memory after a store.
Stored(m, st) ==
  [a \in Addr |-> IF a \in st.addr .. st.addr + Bytes(st.size) - 1
                  THEN StoredByte(st, a - st.addr) ELSE m[a]]

\* The lanes the core drives and the bytes write_store takes from them are
\* those of the program's store.
LEMMA WriteStoreIsStore ==
  ASSUME NEW st \in Stores, NEW m
  PROVE  write_store(m, st.addr, WData(st), st.size) = Stored(m, st)
<1> DEFINE x == st.addr
           B == Bytes(st.size)
           offset == x % 8
           aligned == x - offset
           lane(a) == a - aligned
<1>1. /\ x \in Nat /\ B \in Nat /\ offset \in 0 .. 7 /\ aligned = x - offset
      /\ st.size \in 0 .. 7 /\ (st.size <= 3 => offset + B <= 8)
  BY StoreFits
<1>2. ASSUME NEW a \in Int
      PROVE  /\ lane(a) \in offset .. offset + B - 1 <=> a \in x .. x + B - 1
             /\ lane(a) - offset = a - x
             /\ lane(a) % 8 \in 0 .. 7
             /\ a \in x .. x + B - 1 => a - x \in 0 .. B - 1
             /\ a \in x .. x + B - 1 /\ st.size <= 3 => lane(a) % 8 = lane(a)
  <2> HIDE DEF x, B, offset, aligned
  <2> QED
    BY <1>1
<1>3. ASSUME NEW a \in Addr
      PROVE  (IF lane(a) \in offset .. offset + B - 1 THEN WData(st)[lane(a) % 8] ELSE m[a])
             = (IF a \in x .. x + B - 1 THEN StoredByte(st, a - x) ELSE m[a])
  <2>1. a \in Int
    BY RunnerAssumption DEF Addr
  <2>2. WData(st) = [n \in 0 .. 7 |-> IF n - offset \in 0 .. B - 1
                                      THEN StoredByte(st, n - offset) ELSE 0]
    BY DEF WData
  <2> HIDE DEF x, B, offset, lane
  <2>3. CASE st.size <= 3
    <3>1. a \in x .. x + B - 1 => WData(st)[lane(a) % 8] = StoredByte(st, a - x)
      BY <1>2, <2>1, <2>2, <2>3
    <3> QED
      BY <1>2, <2>1, <3>1
  <2>4. CASE ~(st.size <= 3)
    <3>1. \A i : StoredByte(st, i) = 0
      BY <1>1, <2>4 DEF StoredByte
    <3>2. WData(st)[lane(a) % 8] = 0
      BY <1>2, <2>1, <2>2, <3>1
    <3> QED
      BY <1>2, <2>1, <3>1, <3>2
  <2> QED
    BY <2>3, <2>4
<1> QED
  BY <1>3 DEF write_store, Stored

\* A store that touches no byte of tohost leaves the status as it was, and
\* one that touches a byte is looked at.
LEMMA StoreAndStatus ==
  ASSUME NEW st \in Stores, NEW m, NEW tohost \in Nat
  PROVE  LET hits == st.addr <= tohost + 3 /\ st.addr + Bytes(st.size) > tohost
         IN  /\ ~hits => Status(Stored(m, st), tohost) = Status(m, tohost)
             /\ hits => overlaps_tohost(st.addr, tohost)
<1> DEFINE hits == st.addr <= tohost + 3 /\ st.addr + Bytes(st.size) > tohost
<1>1. st.addr \in Nat /\ Bytes(st.size) \in {1, 2, 4, 8}
  BY StoreFits
<1>2. ASSUME ~hits PROVE read_bytes(Stored(m, st), tohost, 4) = read_bytes(m, tohost, 4)
  <2>1. \A i \in 1 .. 4 : tohost + i - 1 \notin st.addr .. st.addr + Bytes(st.size) - 1
    BY <1>1, <1>2
  <2>2. \A i \in 1 .. 4 : tohost + i - 1 \in Addr =>
          Stored(m, st)[tohost + i - 1] = m[tohost + i - 1]
    BY <2>1 DEF Stored
  <2> QED
    BY <2>2 DEF read_bytes
<1>3. hits => overlaps_tohost(st.addr, tohost)
  BY <1>1 DEF overlaps_tohost
<1> QED
  BY <1>2, <1>3 DEF Status

-----------------------------------------------------------------------------
(* The invariant is inductive *)

\* Nothing has happened yet.
LEMMA InitRunner == Init => RunnerInv
  BY DEF Init, RunnerInv, BeforeInv, RunInv, AfterInv, Ran

\* Parsing the command line ends the process or leads to the file.
LEMMA StartStep == RunnerInv /\ Start => RunnerInv'
  BY DEF Start, world, RunnerInv, BeforeInv, RunInv, AfterInv, Ran

\* The image loaded holds no verdict.
LEMMA LoadElfStep == RunnerInv /\ LoadElf => RunnerInv'
<1> SUFFICES ASSUME RunnerInv, LoadElf PROVE RunnerInv'
  OBVIOUS
<1>1. CASE Loads(elf)
  <2>1. /\ mem' = LoadSegments(elf) /\ symbols' = LoadSymbols(elf) /\ arch' = mem'
        /\ phase = "load" /\ phase' = "run"
        /\ UNCHANGED <<args, elf, openable, reference, opts, cycle, status, sig, counted, decided>>
    BY <1>1 DEF LoadElf, world
  <2>2. symbols'.tohost # 0 => Status(mem', symbols'.tohost) \notin {1, 3}
    BY <1>1, <2>1, ElfAssumption DEF RunnerInv
  <2> QED
    BY <1>1, <2>1, <2>2 DEF RunnerInv, BeforeInv, RunInv, AfterInv, Ran
<1>2. CASE ~Loads(elf)
  BY <1>2 DEF LoadElf, LoadFailureStatus, world, RunnerInv, BeforeInv, RunInv, AfterInv, Ran
<1> QED
  BY <1>1, <1>2

\* The runner stops at the first verdict the program stores, and at nothing
\* else.
LEMMA StoreTickStep == RunnerInv /\ StoreTick => RunnerInv'
<1> SUFFICES ASSUME RunnerInv, StoreTick PROVE RunnerInv'
  OBVIOUS
<1> PICK st \in Stores : TakeStore(st) /\ ObserveStore(st)
  BY DEF StoreTick
<1> DEFINE tohost == symbols.tohost
           after == Stored(mem, st)
           hits == st.addr <= tohost + 3 /\ st.addr + Bytes(st.size) > tohost
<1>1. /\ phase = "run" /\ Loads(elf) /\ elf \in Elfs /\ symbols = LoadSymbols(elf) /\ mem = arch
      /\ status = 0 /\ decided = 0
      /\ tohost # 0 => Status(mem, tohost) \notin {1, 3}
      /\ counted = "no" /\ sig.by # "this"
  BY DEF StoreTick, RunnerInv, BeforeInv, RunInv
<1>2. /\ UNCHANGED <<elf, openable, opts, symbols, exit, sig, counted>>
      /\ phase' = IF status' # 0 THEN "dump" ELSE "run"
  BY DEF StoreTick, world
<1>3. tohost \in Nat
  BY <1>1, ElfAssumption
<1>4. mem' = after /\ arch' = after
  BY <1>1, WriteStoreIsStore DEF TakeStore, ObserveStore, Stored
<1>5. /\ status' = IF tohost # 0 /\ overlaps_tohost(st.addr, tohost)
                      /\ Status(after, tohost) \in {1, 3}
                   THEN Status(after, tohost) ELSE 0
      /\ decided' = IF tohost # 0 /\ hits /\ Status(after, tohost) \in {1, 3}
                    THEN Status(after, tohost) ELSE 0
  BY <1>1, <1>4 DEF TakeStore, ObserveStore, Stored
<1>6. /\ ~hits => Status(after, tohost) = Status(mem, tohost)
      /\ hits => overlaps_tohost(st.addr, tohost)
  BY <1>3, StoreAndStatus
<1> HIDE DEF after, hits
<1>7. status' = decided'
  BY <1>1, <1>5, <1>6
<1>8. status' = 0 => (tohost # 0 => Status(after, tohost) \notin {1, 3})
  BY <1>1, <1>5, <1>6
<1> QED
  BY <1>1, <1>2, <1>4, <1>7, <1>8 DEF RunnerInv, BeforeInv, RunInv, AfterInv, Ran

\* An edge without a store counts.
LEMMA QuietTickStep == RunnerInv /\ QuietTick => RunnerInv'
  BY DEF QuietTick, world, RunnerInv, BeforeInv, RunInv, AfterInv, Ran

\* Running out of cycles leaves the verdict open.
LEMMA TimeOutStep == RunnerInv /\ TimeOut => RunnerInv'
  BY DEF TimeOut, world, RunnerInv, BeforeInv, RunInv, AfterInv, Ran

\* The signature is taken from the memory of the last edge.
LEMMA DumpAndExitStep == RunnerInv /\ DumpAndExit => RunnerInv'
<1> SUFFICES ASSUME RunnerInv, DumpAndExit PROVE RunnerInv'
  OBVIOUS
<1>1. /\ phase = "dump" /\ phase' = "exited"
      /\ Loads(elf) /\ mem = arch /\ status = decided /\ sig.by # "this" /\ counted = "no"
      /\ UNCHANGED <<elf, openable, opts, mem, symbols, status, counted, arch, decided>>
      /\ elf \in Elfs
  BY DEF DumpAndExit, world, RunnerInv, BeforeInv, RunInv
<1>2. exit' = ExitOf(decided)
  BY <1>1 DEF DumpAndExit, ExitOf
<1>3. /\ sig'.by = "this" => sig'.lines = SignatureLines(arch, symbols)
      /\ opts.signature /\ openable => sig'.by = "this"
  BY <1>1 DEF DumpAndExit
<1> QED
  BY <1>1, <1>2, <1>3 DEF RunnerInv, BeforeInv, RunInv, AfterInv, Ran

\* The script looks at exit status and file, and changes neither.
LEMMA JudgeStep == RunnerInv /\ Judge => RunnerInv'
  BY DEF Judge, world, RunnerInv, BeforeInv, RunInv, AfterInv, Ran

\* The invariant holds of every reachable state.
LEMMA RunnerInvariance == Spec => []RunnerInv
<1>1. RunnerInv /\ UNCHANGED vars => RunnerInv'
  BY DEF vars, RunnerInv, BeforeInv, RunInv, AfterInv, Ran
<1>2. RunnerInv /\ [Next]_vars => RunnerInv'
  BY <1>1, StartStep, LoadElfStep, StoreTickStep, QuietTickStep, TimeOutStep,
     DumpAndExitStep, JudgeStep DEF Next, Run
<1> QED
  BY InitRunner, <1>2, PTL DEF Spec

-----------------------------------------------------------------------------
(* Theorems *)

\* main() exits with the program's own verdict, for every ELF file, memory
\* and sequence of stores: TakeStore finds every store that decides
\* and no other, whatever its size and wherever tohost lies in its cell.
THEOREM ExitStatusIsVerdict == Spec => []ExitIsVerdict
<1>1. RunnerInv => ExitIsVerdict
  BY DEF RunnerInv, AfterInv, ExitIsVerdict, ExitOf
<1> QED
  BY <1>1, RunnerInvariance, PTL

\* The signature dump_signature writes is the memory the program's stores
\* define: write_store and the lanes of dmem_wdata cancel out for every
\* store the core can drive.
THEOREM SignatureIsProgramMemory == Spec => []SignatureIsMemory
<1>1. RunnerInv => SignatureIsMemory
  BY DEF RunnerInv, AfterInv, SignatureIsMemory
<1> QED
  BY <1>1, RunnerInvariance, PTL

\* run_suite counts no test as passed on the signature of an earlier run
\* when the new one can be written: every exit path of main() that writes
\* none is one the script does not pass, or does not get to judge.
THEOREM NoStaleSignaturePasses == Spec => []StaleNeverPasses
<1>1. RunnerInv => StaleNeverPasses
  BY DEF RunnerInv, AfterInv, Ran, StaleNeverPasses
<1> QED
  BY <1>1, RunnerInvariance, PTL
=============================================================================
