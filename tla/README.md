# A TLA+ model of the Richard CPU core

Richard CPU is an in-order, five-stage RV64I core with machine, supervisor and
user mode, written in SystemVerilog (`rtl/core`). This directory models the
core as it is wired in `richard_core.sv`, one TLA+ step per rising clock edge,
checks it with TLC on families of small programs and proves its most important
invariants with TLAPS for every program, register width and interrupt pattern.
Beside the core it models the TLB in the system it is made for, the compliance
runner that judges the core, and the repository's own test benches, whose
assertions are checked of the models.

## 1. The system

| Part | State | Operations per clock edge | Talks to |
|---|---|---|---|
| IF stage (`if_stage.sv`) | `pc_reg` | advance, hold, branch redirect, trap redirect | instruction memory, hazard unit |
| Latches (`if_id_reg`, `id_ex_reg`, `ex_mem_reg`, `mem_wb_reg`) | one record each | load, hold, flush, reset; each flush clears a different set of fields | stages before and after |
| ID stage (`id_stage`, `decoder`, `regfile`) | 31 registers | decode with the current privilege mode, read with write-back bypass, write | CSR unit (mode), WB |
| EX stage (`ex_stage`, `alu`, `branch_unit`) | none | operand selection, ALU, branch decision and target | forwarding muxes, hazard unit |
| MEM stage (`mem_stage`) | none | alignment check, store lanes, load extension | data memory |
| WB stage (`wb_stage`) | none | write-back data and enable, CSR request, trap wires | CSR unit, trap controller, register file |
| Hazard unit (`hazard_unit`) | none | forwarding selects, load-use stall, flushes, redirect priority | all latches, IF |
| CSR unit (`csr_unit`) | 26 stored CSRs, privilege mode, last trap vector | CSR read and write, counters, trap entry to M or S, MRET, SRET | WB, trap controller, decoder |
| Trap controller (`trap_ctrl`) | none | cause priority, interrupts, delegation, saved values, flush request, next PC | WB, CSR unit, hazard unit, interrupt pins |
| TLB (`mmu/tlb.sv`) | entries, replacement pointer | lookup, refill, sfence | a page table walker and the core; not instantiated yet |
| Compliance runner (`tb/compliance`) | byte memory, symbols, cycle count | parse options, load ELF, tick, watch `tohost`, dump signature, exit | the core through its memory ports; `scripts/run_compliance.py` through exit status and signature file |
| Test benches (`tb/core`, `tb/unit`) | the unit, a memory | drive inputs, tick, assert | one unit or the core |

The directories for caches, bus, peripherals, SoC, FPU, debug module and page
table walker are empty.

The parts interact inside a single clock edge: everything except the latches,
`pc_reg`, the register file and the CSR unit is combinational. What makes the
core hard is that five instructions are in it at once. Values are read in ID,
computed in EX, completed in MEM or WB; privilege is checked in ID and used in
WB; stall, branch flush, trap flush and interrupt may be requested in the same
cycle; and a CSR write, a trap entry and a counter increment may assign the
same registers on the same edge.

What makes each part correct:

* CSR unit: `mstatus` and `sstatus`, two banks of flip-flops, present one set of
  shared bits; an illegal access writes nothing and a legal one is read back;
  returns undo traps.
* Trap controller with CSR unit: no interrupt inside a machine handler until
  software allows it; privilege moves only by traps and returns.
* Hazard unit and latches: the pipeline cannot be told apart from a machine that
  executes one instruction at a time, and it never stops.
* Decoder: what it admitted in ID is still admissible in WB, unless an older
  instruction flushed it in between. (One such instruction, the one in EX, is not
  stopped by the flush: section 6, `Core_shadow`.)
* TLB: no request is answered from a translation that software has changed and
  fenced; a refill answers the request it was made for; replacement is fair.
* Compliance runner: exit status and signature are the program's; an old
  signature never passes a test; the runner ends.

What is hard there: the walker reads a leaf some edges before it delivers it,
while software edits and fences, and a refill and a fence may share an edge; the
runner decides on the address of a store alone, for stores of all sizes, and
leaves files behind that the next run of the script finds.

## 2. Modules

```
RvPkg ── CsrFile ──┬── CsrUnit ──── CsrUnitProofs
   │        │      └── CsrFileProofs ──┘  └── PrivUnitProofs
   │        └────── TrapCtrl ──┬── PrivUnit ──┘
   └── Decoder ── ExStage ── MemStage ── WbStage ── IsaStep ──┐
                                           HazardUnit ────────┴── RichardCore ── CoreClock
IsaMachine  (abstract; instantiated by RichardCore)                   │
                        RichardCoreProofs ────────────────────────────┘
                          └── RefinementProofs ── CoreTypeProofs      (both use CsrFileProofs)
TlbFile ── Tlb ── TlbProofs
ComplianceRunner ── ComplianceRunnerProofs
TlbBench, CsrBench, HazardBench, TrapBench, CoreBench ── Benches
```

* **RvPkg**: widths, privilege modes, CSR addresses, cause codes. A word is a
  number on the data path and the *set of its 1-bits* in the CSR unit, which
  only tests, sets, clears and copies bits; `ToBits` and `ToWord` convert where
  WB and the trap controller meet the CSR unit.
* **CsrFile**: the registers of `csr_unit.sv` as one record and its functions
  under their own names (`canonical_addr`, `csr_write_next`, `read_csr`, ...).
  `CsrNext` is the `always_ff` block: `Counted`, then `Written`, then one of
  `TrapToS`, `TrapToM`, `MretState`, `SretState`, in the order of the
  nonblocking assignments, each reading the registers before the edge.
* **CsrUnit**: that block as a state machine with any inputs the pipeline can
  produce: `Reset`, `Idle`, `Access`, `Trap` (with or without a CSR request on
  the same edge), `Mret`, `Sret`.
* **TrapCtrl**: `trap_ctrl.sv` as operators of the WB wires, CSR file and pins.
* **PrivUnit**: trap controller and CSR unit wired together; the environment
  chooses the instruction in WB and the pins. `mctx`, `sctx`, `masked`, `event`
  are history variables.
* **Decoder**, **ExStage**, **MemStage**, **WbStage**, **HazardUnit**: the
  stages as operators. An instruction is a record of its fields; the 32-bit
  encoding stays opaque. The raw `rs2` field is kept in every format, because
  the hazard unit compares it in every format.
* **RichardCore**: `richard_core.sv`. `Clock(irq)` updates the PC, the four
  latches, register file, CSR file and data memory, one conjunct per `always_ff`
  block; `Reset` is an edge with `rst` high. Two latch fields are history: `v`
  (not discarded by a flush) and `mem_wb.before` (memory before the instruction
  in WB passed MEM).
* **IsaStep**: what one instruction does on its own: `Executed` is the
  instruction as it would stand in WB had it met no other, `After` the state it
  leaves. It is built of the units' operators, without latches, forwarding,
  stalls or flushes.
* **IsaMachine**: the abstract specification, a hart that completes one
  instruction per step. What a step computes is its constant operator `After`,
  which RichardCore gives the one of IsaStep: the instance and the pipeline then
  speak of the same operator, in TLC and in the proofs.
* **CoreClock**: RichardCore with a clock that never stops, for liveness.
* **TlbFile**: the functions of `tlb.sv` (`entry_match`, `allow_access`,
  `make_vpn_mask`, ...), the lookup and the clocked part, over page numbers held
  as one digit per level.
* **Tlb**: TlbFile at work. `table` is the page table as its set of leaves,
  `unfenced` the leaves taken out and not fenced since, `walk` the walker. The
  walker is external: `ptw.sv` is empty, and the model gives it what the TLB's
  ports require (section 3).
* **ComplianceRunner**: `compliance_runner.cc`, one action per step of `main`
  (`Start`, `LoadElf`, `StoreTick`/`QuietTick`, `TimeOut`, `DumpAndExit`), and
  `Judge`, the loop body of `run_suite`. The core is the environment: on each
  edge it stores something or nothing, with any of the eight size codes the
  decoder lets through and what `mem_stage.sv` drives for it: zeroes for the
  reserved codes 4 to 7. `arch` and `decided` are history:
  memory and verdict as the program's stores define them.
* **CoreBench**, **CsrBench**, **TlbBench**, **HazardBench**, **TrapBench**: the
  stimulus and assertions of `tb_core.cc`, `tb_csr.cc`, `tb_tlb.cc`,
  `tb_hazard_unit.cc`, `tb_trap_ctrl.cc` as sequences of steps; **Benches** runs
  them on the models. It is the calibration of this project: what the
  repository's tests assert of the RTL holds of the models (the RTL itself was
  not simulated here). Literals are cut to `XLEN`.
* **MC_***: constants for TLC; `MC_RichardCore` builds the program families.

Definitions named *Faulty variant* stand before the definition they vary; they
are used by no specification and exist to show that each property notices a
plausible error in the code it is about.

### Abstractions

* Memories are external. As in the test benches they answer in the same cycle
  (`dmem_req_ready` and `dmem_rsp_valid` are tied to 1 in the core) and an unmapped
  fetch is a NOP. Data is kept in eight-byte cells and written as the compliance
  runner does, as many bytes as the size code says: the core has no port for the
  byte strobes of `mem_stage.sv`, so a store with a reserved size code clears its
  bytes. The core bench overwrites the whole doubleword instead
  (`tb_core.cc:255-258`); its programs use only SD, for which the two are the same.
* `XLEN` is a parameter, 16 in the runs (30 in `Benches`): the smallest width holding
  `mstatus.MPP` and an interrupt bit above all cause numbers. A word operation
  works on half of it, an eight-byte access on all of it.
* `CounterBits` keeps only the low bits of `mcycle`, `minstret` and `time`: one in
  `CsrUnit`, `Core_isa` and `Core_live`, where they wrap all the time, and none
  where the counters play no part, so that time does not make every state new.
* `wfi`, `sfence.vma`, `fence` and `fence.i` are decoded; the flags they set are
  carried to WB by the RTL and read by nothing, so the model drops them.

## 3. What software must do

The core is not transparent to arbitrary programs (section 6). The refinement is
checked for programs that keep three rules, stated on the pipeline itself:

1. `ShadowClear`: when a trap, MRET or SRET is in WB, the next instruction is no
   store and the one after it has no effect.
2. `NoCsrUse`: the instruction right after a CSR instruction does not read the
   register it writes.
3. `NoCounterRead`: no register is loaded from `mcycle`, `minstret`, `time` or
   their aliases. They count clock edges, bubbles included, so what they show
   depends on the pipeline. Writing one, or naming it in an access that is
   rejected, is allowed.

`DisciplinedTick` is a clock edge at which all three hold, without interrupts. A run
of `DisciplinedSpec` follows each program up to the first breach of a rule and
ends there; this is why `Core_isa` and `Core_live` do not check for
deadlock. Programs that keep the rules to the end loop for ever.

The TLB writes the refill after the fence of the same edge, so it cannot protect
itself from a leaf read before that fence. The walker, when it is written, must
(W1) start again when a fence overtakes a walk, and (W2) not deliver on the edge
of a fence that covers the leaf it holds. `Tlb` has a walker that does, and the
theorem about stale translations depends on it. `ENTRIES` must be a power of two:
the pointer has `$clog2(ENTRIES)` bits and wraps by width (`TlbAssumption`).

`ElfAssumption` is what the linker script of the tests provides (`.tohost
(NOLOAD)`, `sw/common/link.ld:64`): the loaded image leaves no verdict in
`tohost`. A store just below `tohost` makes the runner read the word again, and an
image with a 1 there would end the run.

## 4. Model checking

| Run | Checks | Instance |
|---|---|---|
| `CsrUnit` | `TypeOK`, `StatusMirror`, `ShortRegisters`, `IllegalAccessWritesNothing`, `WriteReadBack` | write and clear-immediate of both status registers, aliases, `fcsr` and its parts, read-only and missing addresses, with operands among which are the reserved MPP encoding and a bit outside the shared fields; all traps and returns, also on one edge; one-bit counters, which wrap on every second edge |
| `PrivUnit` | `TypeOK`, `NoNestedInterrupt`, `MachineReturnRestores`, `SupervisorReturnRestores`, `PrivilegeMoves` | two PCs, ecall and timer, writes to `mstatus`, `sstatus`, `medeleg`, `mideleg` that grant and withdraw delegation; nesting of machine over supervisor traps arises |
| `Core_isa` | `TypeOK`, `PreciseExceptions`, `ImplementsIsa` | all 28 561 programs of four instructions from thirteen templates: every producer (ALU, load, link, CSR) against every consumer (ALU, address, store data, comparison, jump target, CSR source) at every distance the pipeline forwards over; and two free slots from fifteen privileged templates, a counter write, a counter read and an unaligned store of a reserved size that spans two cells among them, and a third from four of them, in M-, S- and U-mode, with delegation and handlers of both modes that return |
| `Core_irq` | `MemForwardIsResult`, `PrivilegeStillHolds` | no discipline; timer pin free at every edge; reset at any edge |
| `Core_live` | `MakesProgress` | programs of both families under `DisciplinedClockSpec` |
| `Tlb` | `TypeOK`, `NoStaleTranslation`, `KeepsRecent`, `RetryIsAnswered` | two entries; seven leaves: a page, the page moved with fewer rights, a superpage over its neighbour, another address space, two global leaves, Sv32; six fences (all, ASID, page, both); two edits; every kind of request, SUM, MXR, bypass, an unsupported mode |
| `Benches` | `ChecksHold` | 18 programs of the core bench with its logging trap handlers, for as many edges as the bench runs them, and the 4 unit benches; `XLEN` 30, 32 TLB entries, 32 registers |
| `ComplianceRunner` | `ExitIsVerdict`, `SignatureIsMemory`, `StaleNeverPasses`, `RunnerExits` | six command lines, six ELF files (`tohost` at both halves of a doubleword and missing, overlapping segments, a signature that is no multiple of eight bytes, two that do not load), fourteen stores, two of them with reserved size codes, three cycles; the signature file absent or left over, writable or not |

Two TLB entries are enough for a duplicate, a superpage beside a page, and an
eviction; two edits for a leaf that moves and moves back while a walk is under
way. Three cycles let a store below `tohost`, one beside it and the deciding one
follow each other. `Benches` and `ComplianceRunner` do not check for deadlock:
a bench and a runner end.

`ImplementsIsa` is `Hart!Spec` under the refinement mapping `ArchPc` (PC of the
oldest instruction that was not discarded), `ArchMem` (memory before the
instruction in WB) and `ArchCsr` (the CSR file with the counters hidden, also in
what a step of the hart computes, `ArchAfter`). Without rule 3 it is violated:
TLC then shows a program that loads `cycle`. Two registers besides x0 and four slots are enough for the
forwarding logic: it relates at most four instructions in flight and compares
register numbers only for equality.

**Fairness.** Of the core, the only assumption is `WF_clk(Edge)`: the clock keeps
ticking. Of the runner it is `WF_vars(Run)`: the process is scheduled; nothing
makes the program report or the script look. Nothing is assumed about
instructions or pins. `MakesProgress` says weak fairness of the abstract
machine's step: either the abstract state is again and again one that its next
instruction leaves unchanged (a jump to itself), or it changes for ever. It is
checked without interrupts: a pin that rises on exactly the right edges can keep
a handler that starts with MRET from ever letting the program proceed, which is
the platform's doing.

## 5. Proofs

All by TLAPS, for all values of the constants that satisfy the named assumptions
(`XLEN >= 16`, any register set containing x0, any program, any data memory, any
interrupt pins; any number of TLB entries, any leaves, fences and edits; any
command line, ELF file and stores the core can drive). Three theorems ask for more: a width
of 16, 32 or 64 in `CoreTypeCorrect`, `TrapSavesPc` and `MemoryIsBytes`. The named assumptions are `XlenAssumption`, `RegAssumption`,
`CsrFileAssumption`, `CoreAssumption` (memory holds instructions, `ResetPC` is a
word), `CsrUnitAssumption`, `PrivUnitAssumption`, `TlbAssumption`,
`TlbSystemAssumption`, `RunnerAssumption` (stores have passed the
alignment check of `mem_stage.sv`, which the size code 7 does at any address) and `ElfAssumption`; TLC evaluates each on the instances it runs. Every inductive
invariant below was checked by TLC on the instance of its component's run before
it was proved.

**CSR unit** (`CsrFileProofs`, `CsrUnitProofs`). One lemma per part of `CsrNext`
says what it does to the type and to `Agree`, the agreement of the status
registers; `StepShape` reduces every action to a reset or a `CsrNext` with typed
inputs.

* `TypeCorrect`: `TypeOK` is inductive as it stands.
* `StatusMirrored`: `StatusMirror`, inductive together with `TypeOK`: each
  assignment to one status register comes with a copy of the shared fields into
  the other (`CopyAgrees`), and a trap or return overrides the write port in both.
* `RegistersShort`: `ShortRegisters`. Each write passes through `Implemented`,
  and the carry out of a counter is dropped.
* `WriteIsReadBack`: `WriteReadBack` follows from `TypeOK`, by cases over the
  address classes. It is about the whole edge: the write port is assigned after
  the counters, so a write to a counter is not counted up.
* `IllegalAccessInert`: `IllegalAccessWritesNothing` needs no invariant. The flag
  and the write enable are two expressions over the request; that one excludes
  the other is shown for every request and register content.

**Trap controller and CSR unit** (`PrivUnitProofs`). The invariant is
`PrivInv == TypeOK /\ Agree(csr.reg) /\ MachineStack /\ SupervisorStack /\ Quiet`.

* `HandlerUninterrupted` (`NoNestedInterrupt`) needs `Quiet`: while `masked`,
  MIE is clear.
* `MachineReturnSound` and `SupervisorReturnSound` need the stacks: while a
  context is remembered, the registers hold it (`MPP`, `MPIE`, `mepc`, and `SPP`,
  `SPIE`, `sepc`). The supervisor's stack is kept twice, and a machine trap or
  MRET rewrites `sstatus` from `mstatus`; it survives only because the copies
  agree, hence `Agree` in the invariant.
* `PrivilegeMovesSound` (`PrivilegeMoves`) and `PrivTypeCorrect` (`TypeOK`).

**Pipeline** (`RichardCoreProofs`).

* `ForwardingSound`: `MemForwardIsResult` relates EX and MEM and is not
  inductive. `ForwardInv` adds that the write-back source of each control word
  follows from its kind, that EX is idle or independent of a load in MEM, and
  that EX is idle behind a jump. The load-use comparison of ID against EX becomes
  the comparison of EX against MEM one edge later.
* `PrivilegeSound`: `PrivilegeStillHolds`. The mode changes on no edge without a
  flush (`ModeChangesFlush`), and on a flush every instruction in the pipeline is
  younger than the one that caused it and no longer the property's concern (`v`);
  without a flush each latch takes over the control word of the one before, and
  ID has just checked the current mode. The bit `v` is history. In the RTL the
  flush stops what is in IF, ID and MEM but not what is in EX, because the
  `flush_en` of EX/MEM is tied to 0 (`richard_core.sv:434`): that instruction
  reaches WB with a check against the old mode. `FlushedNeverCommits` is about it,
  and `ShadowKeepsPrivilege` below.

**The pipeline implements the one-at-a-time machine** (`RefinementProofs`).
`PipelineImplementsIsa`: `DisciplinedSpec => ImplementsIsa`. TLC shows it for the
programs of `Core_isa`; the theorem is about every program that keeps the three
rules of section 3. The invariant `PipeInv` says, latch by latch, what an
instruction in flight has become:

* `IfIdInv`: what is in ID is stored at its PC, and fetching goes on behind it.
* `IdExInv`: EX holds the decoded instruction with the operands of the register
  file *as it is now*, stale where MEM or WB are about to write them.
* `ExMemInv`: MEM holds the ALU result for its operands, fetching went on where
  EX decided, and the operands are those of the register file once WB has written.
* `MemWbInv`: WB holds the instruction as it would be, had it been executed alone
  (`SameEffect`), its store is in memory, and the next instruction not discarded
  is the one that follows it.
* `DeadInv`: what was discarded does nothing any more.
* `ForwardInv`, from `ForwardingSound`, and `ShapeInv`, the types this needs.

Two points decided the form. The facts about operands and about the next PC hold
only while the instruction in WB does not flush, because a trap replaces the
instructions they are about. And they are stated of the operands an instruction
*uses* (`UsesRs1`, `UsesRs2`): a load in MEM ahead of an instruction whose
immediate happens to look like its `rd` forwards an address into an operand that
nobody reads, so equality of all operands is false. `AluFromUsed` and
`BranchFromUsed` then say that results depend on nothing else. `OperandStep` is
the forwarding argument: the muxes turn the register file of `IdExInv` into the
one of `ExMemInv`. A bubble in WB is a stuttering step (`BubbleEdge`), a live
instruction one step of `IsaMachine` (`RetireEdge`).

The counters are hidden by the mapping, and the proof must show that nothing else
sees them. Two CSR files that agree once uncounted (`AlikeUncounted`) give the
same trap command, next PC, decoding and write-back data (`CommandAlike`,
`WriteBackAlike`, the latter by rule 3) and agree again after the edge, also when
a CSR instruction writes or sets bits in a counter (`CsrNextAlike`): the hart may
therefore be run on the uncounted file while the pipeline runs on the real one.

* `ShadowContractSuffices`: `FlushedNeverCommits`, which the core alone violates
  (section 6, `Core_shadow`), holds for software that keeps rule 1, at every
  counter width. It is `DeadInv`, which needs none of the rest.
* `ShadowKeepsPrivilege`: for the same software the privilege check of ID holds of
  every instruction behind ID (`NoStalePrivilege`), flushed or not: by
  `PrivilegeInv` if it was not flushed, and by `DeadInv` if it was.
* `ExceptionsPrecise`: `PreciseExceptions`, a property of the edge that takes the
  trap, from `PipeInv`. `DeadInv` gives that only a live instruction raises an
  exception, so that its PC is `ArchPc`, which the trap writes after the write
  port (`TrapWritesEpc`); `MemWbInv` gives that its store, if it was one, was
  stopped in MEM by the same misalignment that traps now. A store right behind it
  would be in MEM on that edge and be written, for nothing in `mem_stage.sv` looks
  at the flush; that there is none is rule 1. The corresponding promise about
  interrupts is broken (section 6, `Core_irq_precise`).

**Widths** (`CoreTypeProofs`). `CoreTypeCorrect`: `TypeOK` of the pipeline. The
ALU's logic operations and the CSR unit work on sets of bits and return through
`ToWord`, a sum over a set, so the proof starts with arithmetic: powers of two
(`PowSucc` counts the subsets of an interval), induction over the naturals from
the well-foundedness of `<` (`Induct`, for a set in place of a predicate), the
sum (`SumExists`, `SumFacts`: any order of summands gives the same; `SumBound`:
n bits stay below 2^n). Then each unit in turn: `AluTyped`, `LoadTyped`,
`StoreTyped`, `SpillTyped`, `DecodeTyped`, `NextPcTyped`, and one lemma per latch. Two facts
are not local. A store stays within its cell because the alignment check comes
first (`AlignedLaneFits`, `LaneReplaced`; the size code 7, which is not checked,
only clears bits); this is false for a width like 24,
hence the hypothesis. And `fcsr` fits into a word because `frm` is short, so
`TypeInv` adds to `TypeOK` that the short registers are short (`CsrNextShort`).

* `WordsAreBits`: `ToBits` and `ToWord` are inverse to each other at every width.
  By induction on n, the sum of the bits of w below n is w modulo 2^n
  (`LowBitsSum`), and sets of bits with the same sum are equal (`ToWordInjective`:
  compare the highest bit, the rest stays below it).
* `TrapSavesPc`: the exception PC after a trap is the PC in WB. A trap assigns it
  after the write port does (`TrapWritesEpc`, of `RefinementProofs`), `ToBits` is what it assigns, and
  `WordsAreBits` turns it back. With `MachineReturnSound` and
  `SupervisorReturnSound`, a return fetches from that very address.
* `MemoryIsBytes`: a store sets one lane of its cell (`LaneParts`), a load depends
  on one lane only (`LoadsFromLane`); lanes above and below the one stored are
  treated separately (`DivDiv`, `SameBelow`).

**TLB** (`TlbProofs`), with `TlbInv == TypeOK /\ Cached /\ WalkSound`: every valid
entry is a leaf of the table or an unfenced one, and so is the leaf the walker
holds.

* `NoFencedTranslation` (`NoStaleTranslation`): a hit maps the request, `Cached`
  says where the entry comes from: a leaf of the table (the only one for that
  address, as tables are well formed) or an unfenced one. A fence removes from the
  entries what it removes from `unfenced`;
  a refill is covered by `WalkSound` and W2.
* `RefillAnswers` (`RetryIsAnswered`): the refill wins the edge, and it matches
  the page walked for. `TlbTypeCorrect` (`TypeOK`).
* `RecentRefillsKept` (`KeepsRecent`): replacement is fair for any power of two of
  entries. `RoundRobin` says more than the property: read from the pointer
  downwards and round (`Slot`), the entries *are* the refills from the newest to
  the oldest, with gaps where a fence struck. A refill moves the pointer, and all
  positions shift by one (`Slots`).

**Compliance runner** (`ComplianceRunnerProofs`), with `RunnerInv`: while the
program runs, the byte map is its memory (`mem = arch`) and `tohost` holds no
verdict yet. The second makes `overlaps_tohost` harmless, which takes a store of
any size up to seven bytes below the word for a store to it: the runner then reads
the word again and finds what was there. That `mem = arch` is kept rests on
`WriteStoreIsStore`: the core shifts the store into its lane, the runner shifts it
back, and for a store that passed the alignment check the two cancel; for the
reserved sizes there are only zeroes to shift.

* `ExitStatusIsVerdict` (`ExitIsVerdict`), `SignatureIsProgramMemory`
  (`SignatureIsMemory`), `NoStaleSignaturePasses` (`StaleNeverPasses`).

**Only model-checked.** Liveness (`MakesProgress`, `RunnerExits`): the prover does
not reason about fairness. `ChecksHold`: the benches are finite scripts on one
instance, and TLC runs all of it. Everything else that a passing run checks is
also a theorem.

## 6. Where the core and its documents disagree

Each is a run that TLC ends with a counterexample.

| Run | Statement | What the core does |
|---|---|---|
| `Core_shadow` | "Global pipeline flush request" (`trap_ctrl.sv:65`) | EX/MEM has `flush_en` tied to 0: the instruction in EX when a trap or return commits still completes |
| `Core_csr_use` | "Forwarding resolves RAW hazards" (`hazard_unit.sv:90`) | MEM forwards the ALU result of a CSR instruction, not the CSR value |
| `Core_irq_precise` | "guarantee of precise exceptions" (`trap_ctrl.sv:25`), "We only write back if the instruction didn't trap." (`wb_stage.sv:119`) | an instruction that takes an interrupt writes its register and is resumed; an interrupt on a bubble in WB saves the bubble's PC |
| `Core_delegated` | "interrupt (delegated)" (`docs/architecture.md:63`) | entry to S-mode leaves `mstatus.MIE` set, the only gate: with the pin held, the handler never runs |

Noticed in reading, not the subject of a run: the pins are gated by `mstatus.MIE`
only (`trap_ctrl.sv:137`) although `docs/architecture.md:76` calls `mie` the
"Interrupt enable"; when a signature file cannot be opened the runner only prints
a message and its exit status stays that of the test, so that the script may
compare a signature of an earlier run (the condition `openable` in
`StaleNeverPasses`); `minstret` counts every edge
without a trap, not every retired instruction (`docs/architecture.md:84`);
`csrr` of a read-only CSR, a CSRRS with x0 that writes nothing, traps as illegal;
a write to `sstatus` stores bits that `mstatus` does not get, although
`docs/architecture.md:93` calls it a subset; misaligned accesses raise the
access-fault causes 5 and 7; the decoder accepts STORE with the reserved `funct3`
4 to 7 (`decoder.sv:243-251`), for which `mem_stage.sv` raises no strobe, but the
strobes are not a port of the core and the runner then clears 1, 2, 4 or 8 bytes;
a store in MEM is written although the instruction ahead of it traps on that edge;
`fence.i` does nothing; the TLB knows Sv32, Sv48 and
Sv57 but not the Sv39 of the README; with a memory that can stall, a taken
branch would override the freeze of IF/ID and ID/EX.

## 7. Not modelled

* **A memory that waits.** `richard_core.sv` ties `dmem_req_ready` and
  `dmem_rsp_valid` to 1, so `mem_stall_req` is never raised and no execution of
  this core waits. `HazardControl` takes the request as an input and the steps
  of the hazard bench exercise it; with a memory that stalls, a taken branch in
  EX would override the freeze, and the branch logic would have to be revisited
  first.
* **Page table walker, caches, bus, peripherals, SoC, FPU, debug module.** Empty
  directories. The walker is the external process of `Tlb`.
* **The other unit benches** (decoder, ALU, branch unit, IF, ID, EX, MEM, WB,
  register file, latches). They probe single operators with 64-bit literals and
  32-bit instruction words, which the models abstract from; what they test is
  covered through the core bench and the refinement.
* **Of the runner**: `load_elf64`'s byte layout (a file is valid or it is not),
  the test generation, build and reference search of the script.
  `--require-reference` is off in the model.
* **Software and build files**: linker script and tool configuration.
* **Interrupts in the refinement.** IsaMachine has no interrupt step: as
  `Core_irq_precise` shows, the core has no precise one to refine it by.

Out of reach of the prover: liveness under fairness, which stays with TLC. The
induction theorems of the library, which take a predicate as a parameter, cannot
be instantiated either; where induction was needed, it was derived for sets.
