--------------------------- MODULE ComplianceRunner ---------------------------
(***************************************************************************)
(* tb/compliance/compliance_runner.cc: one process that loads an ELF file, *)
(* clocks the core and reports through its exit status and a signature     *)
(* file, and the part of scripts/run_compliance.py that judges it.         *)
(*                                                                         *)
(* The core is the environment here: on each edge it stores something      *)
(* or nothing (RichardCore says what).          Memory is by bytes; a byte *)
(* the std::map does not hold reads as 0, so the map is total.             *)
(***************************************************************************)
EXTENDS Integers, SequencesExt

CONSTANTS
  MemSize,         \* bytes of memory looked at (bound)
  Invocations,     \* command lines, as sequences of words
  Numbers,         \* std::stoull: the words that are numbers -> value (external)
  DefaultCycles,   \* Options::max_cycles; 2000 in the code
  Elfs,            \* ELF files
  Stores,          \* what the core may store on an edge: address, size, bytes
  References       \* reference signatures; <<>> when none is found

\* Bytes moved by an access of this size code.
Bytes(size) == 2^(size % 4)

\* What the core drives: every size code of the decoder, the reserved 4 .. 7
\* too, and aligned addresses but for the code 7, which is not checked.
ASSUME RunnerAssumption ==
  /\ MemSize \in Nat
  /\ DefaultCycles \in Nat
  /\ \A st \in Stores : /\ st.size \in 0 .. 7 /\ st.addr \in Nat
                        /\ st.size # 7 => st.addr % Bytes(st.size) = 0
                        /\ Len(st.data) = Bytes(st.size)

VARIABLES
  phase,       \* where the process is
  args, elf,   \* its command line and the file named there
  opts, mem, symbols, cycle, status, exit,   \* the process
  sig,         \* the signature file: who wrote it ("nobody", "earlier", "this"), lines
  openable,    \* whether that file can be opened for writing
  reference,   \* the reference signature
  counted,     \* how the script counts the test
  arch,        \* history: memory as the stores of the program define it
  decided      \* history: the first status 1 or 3 a store put into tohost

vars == <<phase, args, elf, opts, mem, symbols, cycle, status, exit, sig, openable,
          reference, counted, arch, decided>>

Addr == 0 .. MemSize - 1

-----------------------------------------------------------------------------
(* Options and ELF file *)

DefaultOptions == [max_cycles |-> DefaultCycles, elf |-> FALSE, signature |-> FALSE,
                   help |-> FALSE]

\* One word of the command line, after a flag that wants a value or not. A
\* word that is no flag is skipped, and so is a flag whose value is missing.
ParseWord(s, w) ==
  CASE s.flag = "--max-cycles" ->
         [flag |-> "none", opts |-> [s.opts EXCEPT !.max_cycles = Numbers[w]]]
    [] s.flag = "--elf" -> [flag |-> "none", opts |-> [s.opts EXCEPT !.elf = TRUE]]
    [] s.flag = "--signature" -> [flag |-> "none", opts |-> [s.opts EXCEPT !.signature = TRUE]]
    [] s.flag = "none" /\ w \in {"--help", "-h"} -> [s EXCEPT !.opts.help = TRUE]
    [] s.flag = "none" /\ w \in {"--max-cycles", "--elf", "--signature"} -> [s EXCEPT !.flag = w]
    [] OTHER -> s

parse_args(a) == FoldLeft(ParseWord, [flag |-> "none", opts |-> DefaultOptions], a).opts

\* An ELF file is [valid, segments, tables]: valid when it opens, is read
\* and its header and program header table are in order; a segment is
\* [load, paddr, vaddr, file, memsz, fits]; a usable symbol table is a
\* sequence of [name, value], in file order.
SegmentBase(s) == IF s.paddr # 0 THEN s.paddr ELSE s.vaddr

\* filesz bytes from the file, then zeroes up to memsz.
LoadSegment(m, s) ==
  LET size == IF s.memsz > Len(s.file) THEN s.memsz ELSE Len(s.file)
  IN  [a \in Addr |->
         LET j == a - SegmentBase(s)
         IN  IF ~s.load \/ j \notin 0 .. size - 1 THEN m[a]
             ELSE IF j < Len(s.file) THEN s.file[j + 1] ELSE 0]

LoadSegments(e) == FoldLeft(LoadSegment, [a \in Addr |-> 0], e.segments)

NoSymbols == [begin_signature |-> 0, end_signature |-> 0, tohost |-> 0]

\* The last definition of a name counts; other names are ignored.
LoadSymbols(e) ==
  FoldLeft(LAMBDA sy, d : IF d.name \in DOMAIN sy THEN [sy EXCEPT ![d.name] = d.value] ELSE sy,
           NoSymbols, FlattenSeq(e.tables))

\* load_elf64 returns false on the first thing that is wrong.
Loads(e) == e.valid /\ \A n \in DOMAIN e.segments : e.segments[n].load => e.segments[n].fits

-----------------------------------------------------------------------------
(* Memory *)

\* Byte i of what a store stores: of its operand, or zero for a reserved size.
StoredByte(st, i) == IF st.size > 3 THEN 0 ELSE st.data[i + 1]

\* dmem_wdata of the core: these bytes moved to the lanes they belong to.
WData(st) ==
  [lane \in 0 .. 7 |-> LET i == lane - (st.addr % 8)
                       IN  IF i \in 0 .. Bytes(st.size) - 1 THEN StoredByte(st, i) ELSE 0]

\* Faulty variant: the lanes are counted from the address, not from its cell.
write_store_unshifted(m, addr, wdata, size) ==
  [a \in Addr |-> IF a \in addr .. addr + Bytes(size) - 1 THEN wdata[a - addr] ELSE m[a]]

\* The runner sees no strobes: a reserved size writes its zeroes. With the
\* code 7 at an unaligned address the lanes run into the next cell and the shift
\* exceeds the word, which is undefined in C++; the hardware takes it modulo
\* 64, and any part of wdata is zero there.
write_store(m, addr, wdata, size) ==
  LET offset  == addr % 8
      aligned == addr - offset
  IN  [a \in Addr |-> IF a - aligned \in offset .. offset + Bytes(size) - 1
                      THEN wdata[(a - aligned) % 8] ELSE m[a]]

read_bytes(m, addr, n) == [i \in 1 .. n |-> IF addr + i - 1 \in Addr THEN m[addr + i - 1] ELSE 0]

\* Low 32 bits of the tohost cell, as a number when the upper bytes are 0.
Status(m, tohost) ==
  LET b == read_bytes(m, tohost, 4)
  IN  IF b[3] = 0 /\ b[4] = 0 THEN b[1] + 256 * b[2] ELSE -1

\* Faulty variant: a store that begins below tohost is overlooked.
overlaps_tohost_from_start(addr, tohost) == tohost <= addr /\ addr <= tohost + 3

overlaps_tohost(addr, tohost) == addr <= tohost + 3 /\ addr + 7 >= tohost

\* Whole doublewords from begin_signature on; a rest is dropped.
SignatureLines(m, sy) ==
  IF sy.begin_signature = 0 \/ sy.end_signature <= sy.begin_signature THEN <<<<0, 0, 0, 0>>>>
  ELSE [n \in 1 .. (sy.end_signature - sy.begin_signature) \div 8 |->
          read_bytes(m, sy.begin_signature + 8 * (n - 1), 8)]

\* The images of the tests define tohost as a word that is not yet a verdict.
ASSUME ElfAssumption ==
  \A e \in Elfs : Loads(e) =>
    LET tohost == LoadSymbols(e).tohost
    IN  tohost \in Nat /\ (tohost # 0 => Status(LoadSegments(e), tohost) \notin {1, 3})

-----------------------------------------------------------------------------
(* main() *)

Init ==
  /\ phase = "args" /\ args \in Invocations /\ elf \in Elfs
  /\ opts = DefaultOptions /\ mem = [a \in Addr |-> 0] /\ symbols = NoSymbols
  /\ cycle = 0 /\ status = 0 /\ exit = 0
  /\ sig \in [by : {"nobody", "earlier"}, lines : {<<<<0, 0, 0, 0>>>>}]
  /\ openable \in BOOLEAN /\ reference \in References
  /\ counted = "no" /\ arch = mem /\ decided = 0

world == <<args, elf, openable, reference>>

\* Help and smoke mode end at once with status 0.
Start ==
  /\ phase = "args"
  /\ opts' = parse_args(args)
  /\ phase' = IF opts'.help \/ ~opts'.elf THEN "exited" ELSE "load"
  /\ UNCHANGED <<world, mem, symbols, cycle, status, exit, sig, counted, arch, decided>>

\* Faulty variant: a file that does not load is reported like a test
\* without an answer.
LoadFailureStatusAsTimeout == 3

LoadFailureStatus == 2

\* Five edges in reset follow, on which the core stores nothing.
LoadElf ==
  /\ phase = "load"
  /\ IF Loads(elf)
     THEN /\ mem' = LoadSegments(elf) /\ symbols' = LoadSymbols(elf) /\ arch' = mem'
          /\ phase' = "run" /\ UNCHANGED exit
     ELSE /\ exit' = LoadFailureStatus /\ phase' = "exited"
          /\ UNCHANGED <<mem, symbols, arch>>
  /\ UNCHANGED <<world, opts, cycle, status, sig, counted, decided>>

\* What the program did, whatever the runner makes of it.
ObserveStore(st) ==
  LET next == [a \in Addr |-> IF a \in st.addr .. st.addr + Bytes(st.size) - 1
                              THEN StoredByte(st, a - st.addr) ELSE arch[a]]
      hits == /\ symbols.tohost # 0
              /\ st.addr <= symbols.tohost + 3 /\ st.addr + Bytes(st.size) > symbols.tohost
  IN  /\ arch' = next
      /\ decided' = IF decided = 0 /\ hits /\ Status(next, symbols.tohost) \in {1, 3}
                    THEN Status(next, symbols.tohost) ELSE decided

\* The runner's side of an edge with a store: memory, then tohost.
TakeStore(st) ==
  LET s == Status(mem', symbols.tohost)
  IN  /\ mem' = write_store(mem, st.addr, WData(st), st.size)
      /\ status' = IF symbols.tohost # 0 /\ overlaps_tohost(st.addr, symbols.tohost)
                      /\ s \in {1, 3}
                   THEN s ELSE 0

\* Faulty variant: a timeout on silence; any store starts the count again.
CycleAfterSilence(stored) == IF stored THEN 0 ELSE cycle + 1

CycleAfter(stored) == cycle + 1

StoreTick ==
  /\ phase = "run" /\ cycle < opts.max_cycles
  /\ \E st \in Stores : TakeStore(st) /\ ObserveStore(st)
  /\ cycle' = CycleAfter(TRUE)
  /\ phase' = IF status' # 0 THEN "dump" ELSE "run"
  /\ UNCHANGED <<world, opts, symbols, exit, sig, counted>>

QuietTick ==
  /\ phase = "run" /\ cycle < opts.max_cycles
  /\ cycle' = CycleAfter(FALSE)
  /\ UNCHANGED <<world, phase, opts, mem, symbols, status, exit, sig, counted, arch, decided>>

TimeOut ==
  /\ phase = "run" /\ cycle >= opts.max_cycles
  /\ phase' = "dump"
  /\ UNCHANGED <<world, opts, mem, symbols, cycle, status, exit, sig, counted, arch, decided>>

\* dump_signature reports nothing back: the exit status is the verdict's.
DumpAndExit ==
  /\ phase = "dump"
  /\ sig' = IF opts.signature /\ openable
            THEN [by |-> "this", lines |-> SignatureLines(mem, symbols)] ELSE sig
  /\ exit' = CASE status = 1 -> 0 [] status = 3 -> 1 [] OTHER -> 3
  /\ phase' = "exited"
  /\ UNCHANGED <<world, opts, mem, symbols, cycle, status, counted, arch, decided>>

\* run_suite, for an invocation with --elf and --signature: a status of 3
\* is left to the comparison too.
Judge ==
  /\ phase = "exited" /\ opts.elf /\ opts.signature /\ ~opts.help
  /\ counted' = IF sig.by # "nobody" /\ exit \in {0, 3}
                   /\ (reference = <<>> \/ sig.lines = reference)
                THEN "passed" ELSE "failed"
  /\ phase' = "judged"
  /\ UNCHANGED <<world, opts, mem, symbols, cycle, status, exit, sig, arch, decided>>

Run == Start \/ LoadElf \/ StoreTick \/ QuietTick \/ TimeOut \/ DumpAndExit

Next == Run \/ Judge

Spec == Init /\ [][Next]_vars /\ WF_vars(Run)

-----------------------------------------------------------------------------
(* Properties *)

Ran == phase \in {"exited", "judged"} /\ opts.elf /\ ~opts.help /\ Loads(elf)

\* The exit status is the program's own verdict: 0 and 1 say which of 1 and
\* 3 its stores first left in tohost, whatever their size and alignment and
\* wherever the word lies in its cell, and 3 that there was neither within
\* max_cycles edges.
ExitIsVerdict ==
  Ran => exit = CASE decided = 1 -> 0 [] decided = 3 -> 1 [] OTHER -> 3

\* The signature a run leaves behind is the program's memory at its end:
\* segments, bss and every store up to the last edge, which is the one that
\* ended the run.
SignatureIsMemory ==
  Ran /\ sig.by = "this" => sig.lines = SignatureLines(arch, symbols)

\* A signature left by an earlier run never makes a test pass, unless the
\* new one could not be written: no exit path that writes none ends in a
\* status the script goes on with.
StaleNeverPasses == counted = "passed" /\ openable => sig.by = "this"

\* The runner exits, whatever the program does: a test that never reports
\* costs max_cycles edges.
RunnerExits == <>(phase \in {"exited", "judged"})
=============================================================================
