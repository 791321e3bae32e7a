# EightThirtyTwo in TLA+

A verification development for the EightThirtyTwo CPU and its tools: TLA+ models
of the core, the assembler and linker, the code generator of its C compiler, the
emulator and the thread library, written from the sources; TLC configurations
that check them on small instances; and proofs about the hardware, the thread
library and the linker for every value of their parameters.

    tlc  -config FetchPrefetch.cfg MCFetchUnit.tla     model-check a run
    tlc  -config Toolchain.cfg MCToolchain.tla
    tlc  -config Compiler.cfg MCCompiler.tla
    tlapm PipelineDataProofs.tla                       check the proofs of a module

`PROJECT.json` lists the components, the runs, the hazards they are aimed at,
and for every definition the source lines it was written from. An operator
introduced by "Faulty variant:" is the definition below it with a plausible
bug; it shows that the properties notice.


## 1. The system

EightThirtyTwo is a 32-bit CPU with one-byte instructions, eight registers and
a temporary register `tmp`; a second hardware thread can share its pipeline.
The repository holds the CPU in VHDL (about 3200 lines), its tools in C
(assembler and linker 5500 lines, emulator 2400, debugger client 1700, code
generator for vbcc 4500), a C library (2100 lines, much of it assembly) and
programs.

### 1.1 Hardware (`src/RTL`)

| component | state | operations | talks to |
|---|---|---|---|
| core, `eightthirtytwo_cpu.vhd` | per thread: program counter, registers, `tmp`, flags Z C cond sgn, the instruction in D; shared: stages E, M, W, the load/store request | every clock edge: dispatch or bubble or hold, write-back, interrupt entry, pause, sig | everything below, by signals |
| hazard unit, `_hazard.vhd` | none | says whether a thread's next instruction must wait | reads D, E, M, W |
| decoder, `_decode.vhd`, `_pkg.vhd` | none | opcode and register to control bits | D stage |
| ALU and shifter, `_alu.vhd`, `_shifter.vhd` | busy, shift counter, li streak | request, acknowledge after 1 to 32 cycles | E stage |
| fetch/load/store unit, `_fetchloadstore.vhd` | opcode buffer of two words per thread, fetch address, request, abort; arbiter state | fetch, prefetch, abort on a jump, load, store, access over a word boundary | core, RAM port |
| aligner, `_aligner.vhd`, `_aligner_le.vhd` | none | byte steering of loads and stores | fetch/load/store unit |
| debug unit, `_debug.vhd` and the end of `_cpu.vhd` | command, parameters, step and break state | read and write registers and memory, single step, break point | core (diverts its load/store port), debug FIFOs |
| debug FIFO, `debug_fifo.vhd` | 16 words, a pointer in each clock domain, two synchronisers | write, read | bridge and debug unit |
| JTAG bridges, `*/debug_bridge_jtag.vhd` | shift register, requests | shift words in and out | two debug FIFOs |

What is hard in the hardware: two threads interleave in one pipeline, and the
order depends on memory; loads write `tmp` and the flags any number of cycles
after later instructions have left E; a failing `cond` is known one cycle after
the next instruction has been dispatched; jumps overtake fetches under way;
registers cross clock domains while they change; interrupts, `cond NEX` and
`sig` come at any moment.

What makes it correct:

- core: what a program does is what executing its instructions one after the
  other would do - operands, flags, skipping, modifiers, each load and store
  once - and one thread does not disturb the other; nothing waits for ever;
- fetch/load/store: an opcode offered as valid is the one at the program
  counter; an acknowledge comes with the words asked for; the RAM port obeys its
  protocol; every fetch and every access is answered;
- FIFO: a bounded queue, whatever the clocks do;
- assembler and linker: the executable is what the sources say;
- code generator: the code does what the intermediate code says and keeps its
  caller's registers and stack;
- emulator: it does what the core does.

### 1.2 Software

| component | state | operations | hard behaviour |
|---|---|---|---|
| thread synchronisation, `lib832/dualthread.S`, `premain_dualthread.S` | sleep flag, pause bits | asleep, sleep, wake, start-up | lost wake-ups, stale answers, both asleep |
| dual Dhrystone, `vbcc/dhrystone_dual` | - | benchmark, report in turn | order of the two reports |
| rest of `lib832` | - | start-up, division, setjmp, strings, printf | numeric edges |
| assembler, `832a` | sections with their code buffers and symbols, equates, expression trees, the peephole context | a directive or instruction of a line, save an object file | forward references, references and words over two buffers, what the peephole pass may drop |
| linker, `832a/executable.c`, `832l.c` | object files, section map, sizes and addresses | load, resolve, collect constructors, relax references, lay out, write image, relocations and map | strong and weak symbols in any order of files; relaxation must reach a fixpoint in which every reference reaches |
| disassembler, `832d.c` | none | print | - |
| debugger client, `832ocd`, tcl bridges | connection, breakpoints, cached frames | request and answer over the bridge | time-outs, partial transfers |
| emulator, `832emu` | registers, flags, modifiers, memory | one instruction at a time | must agree with the hardware |
| vbcc backend, `vbcc/machines/832` | the intermediate codes, what `tmp` and `r0` are known to hold, bytes pushed and not yet popped | passes over the intermediate codes, code generation, peephole pass | stale knowledge of `tmp` and `r0`, effects moved from one intermediate code to another |
| romgen, board glue, examples | - | - | - |


## 2. What is modelled

### 2.1 `FetchUnit` - the fetch/load/store unit

One step is one rising clock edge. Every register of
`eightthirtytwo_fetchloadstore.vhd` that carries control is a variable of the
same name; where the source has `thread` and `thread2` copies (`fetch_addr`,
`fetch2_addr`), the model has a function of the thread. Its value after the edge
is one operator (`NextRamReq`, `NextAbort`, `NextValid`, ...), the assignments of
the clocked process merged, the last one winning. `Clock` is what happens on
every edge; the actions are the branches of the arbiter's state machine
(`WaitFetch`, `WaitLoad`, `WaitIdle`, `AwaitRam`, `FetchDone`, `LoadDone`,
`LoadSplit`, `Load2Done`), each of which contains `Clock`. The outputs that are
combinational in the source (`ram_req`, `ram_addr`, `ls_req`, `OpcodeValid`) are
operators.

A RAM word is represented by its address, so the opcode buffer holds the address
each half was filled from, and a load result the set of addresses it was merged
from. The core is reduced to what the unit sees of it: it consumes a valid
opcode, jumps, or raises a load or store. The RAM (external) answers any request
after any number of cycles. The registers of thread 1 that have no reset may
hold anything in the initial states.

### 2.2 `Decode` and `Pipeline` - the core

`Decode` is the decoder as operators from `[op, reg]` to the control bits `ex`.
`Pipeline` is the clocked process of the core with the hazard unit and the
handshake of ALU and shifter. A step is a clock edge, in one of three ways:
`Dispatch` (a thread's instruction goes from D to E), `InsertBubble` (no thread
can go on), `Hold` (E waits for the ALU or is in the first half of a
post-increment). All of them contain `Edge`: the M and W stages, write-back,
pause, sig, the flags, the interrupt line.

No values are computed. Beside the registers of the source the model keeps what
executing each thread's instructions one after the other would do - is the
thread skipping (`skipping`), is the modifier set (`sgnNow`), does a li chain go
on (`prevLi`), has the last access been issued (`accessDue`) - and which
registers hold the value that execution would have left there (`current`): a
register stops being current when an instruction that writes it leaves D, and
becomes current again when the newest such instruction writes it back. An
instruction that leaves D takes along what it read that was not current
(`wrong`). These variables influence nothing the source has a register for.

Which opcode follows is free within `Adjacent`, so that a run covers all
programs made of its instructions. The moment an opcode is available and the
delay of memory and shifter are free as well.

### 2.3 `DebugFifo` and `BoundedQueue`

A step is an edge of `rd_clk`, of `wr_clk`, or of both at once. When both tick
together, each bit of a pointer that is changing may be sampled old or new
(`Sampled`). The four-bit pointers are written as the number of words so far;
the circuit only ever compares or indexes with their Gray codes, which depend
on the low four bits alone. `Reader` and `Writer` drive the enables as the
bridges do. `BoundedQueue` is the abstract specification; `RefinesQueue` is the
refinement, under the mapping that takes the words between the two pointers.

### 2.4 `ThreadSync` - thread synchronisation in the library

A thread is the sequence of its instructions that touch the sleep flag or the
pause bits, in the order of `dualthread.S`, `premain_dualthread.S` and the two
parts of the dual Dhrystone; there is one action for each kind of instruction,
and between any two of them the other thread may run. `r0`, `tmp` and the zero
flag are kept because the answer of `thread_asleep` travels through them.
`longWork` distinguishes the executions in which a thread's work lasts until the
other one is asleep, which the library counts on, from all others.

### 2.5 `Expressions`, `Objects`, `Assembler`, `Linker`, `Toolchain` - 832a and 832l

A step is one source line, one command line argument, one object file, one
section of a pass. The text of a line is left out: a line is a tuple of its
mnemonic and its operands, a file name is its stem (`objname` exchanges the
extension), and a section's bytes are kept as in `codebuffer.c`, in buffers of
`CodeBufferSize` bytes.

- `Expressions`: the tree that `expressions.c` builds from the operators of a
  line, with the precedence of the code, and its value.
- `Objects`: sections, symbols, references, alignment, and what an object file
  keeps of them (`section.c`, `symbol.c`, `codebuffer.c`, `objectfile.c`); the size
  of a reference and the bytes written for it.
- `Assembler`: an action for each directive and for instructions with their
  overloads; the peephole pass; includes; several files on a command line.
- `Linker`: options, loading, search for a symbol (its own file, strong, weak),
  the sections touched, constructors and destructors, the section map, the
  relaxation (`AssignAll` and `SizeAll` alternate until no size grows), the image,
  relocations. The lists that the code searches are sets of places, `<<object,
  section>>`, with the order in which they were loaded (`Before`): `Definers` are the
  sections that define a name, and the code's first or last hit is the `First` or the
  `Latest` of a set. `NothingLeftOut`, `LayoutStands` and `ImageStands` say what resolving,
  laying out and writing are for, without following how they go about it.
- `Toolchain` puts them together: each file is assembled, the object files are
  linked. `ImageIsSource` is the specification of both: it reads the image along
  the sources, which it parses, evaluates and resolves independently of the
  tools (`Worth` for expressions, `MeaningFiles` for names), and asks at each line
  for its bytes, at each alignment for an aligned address, and of each
  reference that the opcodes written for it evaluate to the place of what it names.

### 2.6 `TempObjs`, `TempRegs`, `AddressingModes`, `InlineCopy`, `CodeGen` - the backend of vbcc

These modules are operators on the state `g` of the code generator: the
intermediate codes (ICs) and the next of them, the instructions emitted, what `r0` and
`tmp` are known to hold (`temps`, the source's `tempobjs`), the bytes pushed and
not yet popped, the registers in use.

- `TempObjs`: recording, matching and forgetting what `r0` and `tmp` hold
  (machine.c:335-581).
- `TempRegs`: bringing an address or a value to a register (tempregs.c).
- `AddressingModes`: the passes over the ICs before code is generated: deferred
  pops, merging, dropped conversions and tests, post-increment and pre-decrement
  (addressingmodes.c).
- `InlineCopy`: copies of structures, and structures pushed.
- `CodeGen`: function entry and exit with the shared tail, and an operator for
  each IC (`GenCall`, `GenPush`, `GenAssign`, ...), branch for branch.

vbcc itself is external: it hands over ICs whose operands are variables,
constants, register variables, scratch registers, or what a pointer points to.
`CodesFromLabel` is the set of IC codes whose numbers in vbcc are not smaller
than LABEL's, on which a comparison in addressingmodes.c depends. Register numbers are vbcc's,
one higher than the core's.

### 2.7 `Isa`, `Emulator`, `Compiler` - code that is executed

- `Isa` is what an instruction does once the pipeline is out of sight: register
  writes, flags, modifiers and memory, driven by the control bits of `Decode`,
  with the results of ALU, shifter and aligner computed.
- `Emulator` is the interpreter of `832e.cpp`, instruction by instruction, with its
  own decoding and flags.
- `Compiler` composes everything: the passes over the ICs and the function's entry in one
  step (`Begin`); an action for each kind of IC; the peephole pass, one deletion a step; the pass sees the
  last sixteen lines of vbcc's emit buffer, and how the lines fall into it is left open: what it
  may delete it deletes or does not; the
  instructions are placed and encoded as 832a and 832l would do it, and executed
  by `Isa` and `Emulator` side by side, one instruction a step. Functions that
  the program calls are external: they compute something of their arguments,
  count their calls, and clobber what a callee may. `Meaning` interprets the ICs
  directly on variables and memory and is the specification the code is compared to.

`follows` says what of the emulator's state is still comparable. Where the two are
known to differ (section 3.2) it drops the flag concerned, or everything for the rest
of the execution; all else must agree after each instruction.

### 2.8 How the modules relate

`MCFetchUnit` and `MCPipeline` give the small instances. `PipelinePrograms` names the
rules that a program has to keep for the core to do what its documentation says; the
theorems about the pipeline have them as hypotheses, and `MCRegular` has TLC check
that the programs of the passing runs keep them. `FetchUnit` promises a
valid opcode for the program counter, answers to loads and stores, and the next
opcode in the end; `Pipeline` takes just these from it (an opcode is there or
not, an access is answered two or more cycles later, none in the cycle after a
jump). In turn `FetchUnit` takes from the core that at most one thread advances
and one jumps in a cycle, and that a second access is only raised after the
first was answered, which is `AccessOnce` of `Pipeline`. `ThreadSync` takes the
instructions `cond NEX` and `sig` as `Pipeline` has them. `Isa` is the sequential
execution that `Pipeline` is shown to preserve without values; both take the
control bits from `Decode`. `Compiler` uses the result of what `Toolchain` checks:
lines become bytes at their addresses, references evaluate to their targets.


## 3. The runs

### 3.1 What holds

| run | instance | properties | what it shows |
|---|---|---|---|
| `FetchPrefetch` | 1 thread, prefetch, 4 words, 3 jump targets, all kinds of access | `OpcodeIsPcs LoadIsRequests WritesAreStores RamRequestStable LoadAnswered OpcodeArrives` | opcodes, loads and stores are right and are answered, through any jumps and RAM delays and from any content of the registers without reset |
| `FetchDual` | 2 threads, 2 words, one jump target | `Opcode2Arrives` | thread 2 starves only behind a thread 1 that jumps for ever |
| `DebugFifo` | 18 words through 16 slots | `NoOverrun RefinesQueue WordArrives RoomIsSeen` | the FIFO is a bounded queue past the wrap-around of its pointers |
| `PipelineSingle` | 1 thread, 19 instructions, one of every kind the stages treat differently | `OperandsCurrent CondSeesFlags SkipIsExact SkippedLeavesNoTrace AccessOnce StallIsLongEnough` | the pipeline does what sequential execution does |
| `PipelineDual` | 2 threads, 8 instructions | `LiChain SkippedSigFollowsCond` | the threads do not disturb each other's li chains, and a skipped sig wakes the other thread only right behind the cond that fails |
| `PipelineLive` | 2 threads, 4 instructions | `HazardsClear AccessIssued` | no instruction is blocked for ever and no access forgotten |
| `PipelineIrq` | 1 thread, 9 instructions, interrupts | `InterruptSavesFlags InterruptIsEntered` | the interrupt is taken with current flags, unless the ALU is still to write them; once taken it is entered, whatever jump or condition is under way |
| `ThreadsDual` | 3 benchmark runs | `ReportsInTurn CompletedMeansReported AnsweredAsleep SomebodyAwake ProgramsEnd` | the reports come in turn however the threads interleave, and a yes of `thread_asleep` to thread 1 finds thread 2 in its `thread_sleep`; with long work the whole protocol works |
| `Toolchain` | 76 builds of up to five source files | `ImageIsSource RelocsPointAtWords LinkFailsForCause NothingLeftOut LayoutStands ImageStands SizesOnlyGrow BuildEnds` | the executable is what the sources say, the relocation table is exact, the relaxation ends because sizes only grow, a link fails only for a cause; nothing that is used is left out; in the layout that is written the sections follow one another, definitions lie at their addresses and every reference has the room it takes; in the file each byte and each reference stands where the layout says, and loads or is what it means, and the table lists the words |
| `Compiler` | about 3500 functions, most of five to twenty ICs | `CodeComputesIcs FrameKept EmulatorAgrees CodeReturns` | the code does what the ICs say, keeps its caller's registers and stack, returns, and the emulator executes it as the core does |

**Bounds and why they suffice.** `FetchUnit`: the buffer has two halves chosen by
the parity of the word; four words let a thread run from one half to the other
and back and be two words ahead by prefetch, and the jump targets lie at the
first, the last and an inner byte of words of both parities. The proofs remove
the bound. `DebugFifo`: 16 slots; 18 writes overwrite the first two slots, fill
the FIFO and empty it again. The proofs remove this bound too. `Pipeline`: the
state holds four instructions at most (D, E, M, W, and one D more for the second
thread), and since any instruction of the set may follow, all windows of that
length over the set occur; registers are all alike to the stages but for r7, so
one of them is enough. The proofs remove this bound. Delays of memory (`MinLatency`, from the third cycle
on) and shifter are unbounded. `ThreadSync`: nothing depends on the number of
benchmark runs but when a thread arrives; three give each thread room to be
ahead or behind.

`Toolchain`: a filler of 8 to 30 bytes between a reference and its target moves the
distance over the boundary between one and two opcodes (32 bytes), in both
directions and across alignments, where a reference counts its own size; addresses up to
4096 need two and three. The builds differ in endianness, base, `-o`, `-r`, `-s`, the
order of files, a weak or a strong definition, and there is a build for
each way to fail. Code buffers of 8 bytes make words and references cross them
everywhere. `Compiler`: words have 16 bits in four bytes of four bits, so a byte
address still steps by four from word to word, sign extension and carry are at
work in all sizes, and TLC can multiply. Distances that the generator thinks of as
near stay below 2^15; `FuzzyChunks = 3` in place of 4 keeps the test of
machine.c for constants near to each other meaningful at that width; `UnrollBelow` keeps
the source's limit between an unrolled copy and a loop. The functions combine every
IC with operands of every kind (register variable, scratch register, local,
parameter, extern, static, constant, dereferenced register and variable), and
all sequences of three of ten, and of six, statements that leave something in `r0` and `tmp`.

**Fairness.** In the hardware models: the clock does not stop (`WF` of `Next`), the
RAM answers a request that stays up, a shift ends after at most 32 steps. For
the FIFO: neither clock stops. `WF_vars(Next /\ ram_ack')` is enough because a
request stays up until it is answered, which is `RamRequestStable`. In
`ThreadSync` each thread that is not paused gets its turn: a thread in E gives way
whenever it is blocked, which it is again and again as it has to fetch.
`FetchUnit` has no fairness for thread 2: thread 1 comes first, and the
premise of `Opcode2Arrives` says so. In `Toolchain` and `Compiler` there is one
process that runs on: `Progress` and `Running` say that it takes steps as long as
it has not finished, which is weak fairness of `Next`, since a step is possible in
every state (deadlock is checked), written so that TLC need not
evaluate `ENABLED` of steps this large.

**Programs considered.** The runs `PipelineSingle`, `PipelineDual`, `PipelineLive` and
`PipelineIrq` are over all programs that keep the rules of `PipelinePrograms`, which
`MCRegular` assumes and TLC evaluates: behind a `cond` that may fail comes no jump and no
other `cond` (`CondsApart`); behind a `byt` nothing that waits for the ALU, and no
`byt` beside a second thread (`BytApart`); behind `cond NEX` no `li` (`LiApart`). With
interrupts, what stands between a `cond`, or an instruction by which the ALU sets the
flags, and the next `mt` or `li` that an interrupt can be taken in front of must keep it
off: by writing a register, say (`IrqApart`, `FlagsApart`). Section 3.2 tells what happens
otherwise. The functions of the `Compiler` run keep clear of the
shapes listed there, too, and its sources of constructors in `Toolchain` of the one
that `LinkLateCtor.cfg` shows. `CHECK_DEADLOCK FALSE` is used in the
configurations of `ThreadSync` only, where the programs end in a pause and may
also end in one too early.

### 3.2 Where the code departs from its documentation

Two runs find a counterexample to a statement of the repository:

| run | statement | what happens |
|---|---|---|
| `PipelineTwoConds` | README.md:71: cond is "cleared by ... a subsequent cond instruction" | `cond` (fails), `cond` (passes), X in consecutive cycles: X leaves D under the outcome of the first one and is lost |
| `CompilerMod` | machine.c:2184: if the next IC is SetReturn "we can skip saving the result" | of `return a % b` the quotient is returned: the remainder goes from r1 to the result's register, the SETRETURN becomes a NOP, `r0` keeps the quotient (`ReturnsItsValue`) |

Eight more configurations are kept with the project, each of which TLC finds violated:

| configuration | statement | what happens |
|---|---|---|
| `PipelineStaleSgn.cfg`, `SgnIsForNext` | README.md:75: sgn is "cleared by the next ALU instruction" | it is cleared in M, and two instructions behind `sgn` read it in D |
| `PipelineIrqFlags.cfg`, `InterruptSavesFlags` | cpu.vhd:71: the flags "are baked into the return address" | an xor that enters the interrupt behind a `cmp` saves the flags from before the `cmp` |
| `PipelineSkippedSig.cfg`, `SigIsExecuted` | README.md:71: while the condition is not met "instructions should be skipped over" | a `sig` directly behind a failing `cond` wakes the other thread: cpu.vhd:921 does not look at `flag_cond`, which is set in that cycle |
| `PipelinePulse.cfg`, `PulseUnpauses` | README.md:95: "a momentary high pulse on the interrupt signal will unpause the CPU" | in the cycle in which the `cond NEX` is in E, the assignment at cpu.vhd:1108 overrides the one at 913, and the pulse is lost; with `interruptthread=2` every pulse is (912-918) |
| `ThreadsAsleep.cfg`, `AsleepIsDefinitive` | dualthread.S:28-31: the answer "should be definitive when positive" | it answers yes for a thread that has set the flag and is about to pause; a `sig` sent upon the answer comes before the pause |
| `ThreadsTest.cfg`, `TestsAnswer` | dualthread.S:73: "Is the other thread asleep?" | `thread_wake` tests the return address left in `tmp`, not the answer in `r0` |
| `LinkLateCtor.cfg`, `CtorsComplete` | executable.c:308: constructors are touched if "something else within the same objectfile has been referenced" | a file that only the constructor of a later file references has been passed over, and its own constructors are left out |
| `LinkOddAlign.cfg`, `ImageIsSource` | README.md:205: `.align` aligns the next item "to the a boundary of value bytes" | the address is masked with `~(value - 1)` (section.c:387): behind one byte, `.align 6` goes on at address 2 |

Further observations made with the same models; each follows by dropping one
rule of `PipelinePrograms` in `MCPipeline`, or the premise `longWork`, and checking again:

- a jump directly behind a failing `cond` (cpu.vhd:750, 948) is turned into a bubble
  before it can end the skipping, so what follows it is skipped too
  (`SkipIsExact`);
- `byt` has the ALU function of `mul` without `waitalu`; the acknowledge it causes
  (alu.vhd:104, 209) can end a stall of the other thread too early
  (`StallIsLongEnough`, two threads);
- a `li` behind `cond NEX` can be mixed into the li chain of the other thread,
  since cpu.vhd:785 lets a paused thread be overtaken anywhere (`LiChain`, two
  threads);
- a skipped `sgn` sets the modifier (cpu.vhd:693);
- an interrupt can be accepted in the cycle in which the `cond` in E turns out to
  fail (cpu.vhd:768), and the skipping is forgotten;
- without long work both threads of the dual Dhrystone can be asleep at once
  (`SomebodyAwake`), and thread 1 may announce that thread 2 has
  completed before it has reported (`CompletedMeansReported`).

Of the assembler and linker, met while writing their model; the builds of the run keep
clear of them:

- the precedence of operators follows the order of an enumeration, so `5-2+1` is 2
  and `a/b*c` is `a/(b*c)`; an operator without a left operand before `(` evaluates to 0;
- `.global` or `.weak` before `.align` or a reference, ahead of the label, places
  the symbol too early; `.global` of an imported symbol leaves its cursor at -1;
- the peephole context is not initialised at the start of a file (832a.c:312), nor the
  bytes of `.space` without a value (832a.c:104); `.incbin` as the first line of a
  section dereferences a null pointer, so does resolving a section without symbols;
- a word that refers to a constant gets a relocation (section.c:646-655);
- `mt r7` followed by `mr r7` is dropped by the peephole pass although it is a jump;
- a name with weak definitions only resolves to the last one.

Of the code generator, found with `CodeComputesIcs` and `FrameKept` on larger sets of
functions than the run's; each follows by adding such a function to `MCPrograms`:

- `t*t` with t a scratch register when operations are chained (addressingmodes.c:343);
- a conversion to a narrow type before SETRETURN masks the register of the result, not `r0`
  (machine.c:1774);
- `r2 = r + 4` counts as an adjustment of the pointer `r` (addressingmodes.c:521);
- a constant found near to the one in `r0` overwrites `r0` (tempregs.c:240: "Guaranteed
  not to modify t1 or t2 except when nominated"); a value in `r0` outlives a store
  through a pointer, a push of arguments or a reloaded extern pointer;
- a register variable held in `tmp` outlives its change; `obsoletetempobj` looks
  at the wrong record for `r0`;
- a shift right of a signed value by an unsigned count is not arithmetic;
  `ReduceDivisions` corrects the type of the function's first IC;
- a test dropped after an addition leaves a carry to `blt`, or none if the addition
  is then absorbed in a post-increment;
- DIV with the divisor behind a pointer in r1 reads it after r1 has been overwritten;
- `emit_inlinepush` increments a register variable it copies from, and pops saved registers
  over the first word;
- the function tail takes it that the registers saved are contiguous;
- the peephole pass makes `st r6; mt r6` of `st r6; mt r6; ld r6`.

The emulator differs from the core in these (`Unlike` and `FlagsLike` name them where they
matter to generated code): it has no `mul`; a halfword load starts from an unset
variable; `byt`, `hlf`, `sgn` and `ldt` do not end a chain of li; `ldt` sets no flags;
`sub` compares as signed unless `sgn` is set; logical operations clear carry; `add r7`
sets the flags; the carry of `shl` is 0; byte and halfword writes to big-endian memory.


## 4. The proofs

### 4.1 `FetchUnitProofs`

`TypeCorrect` (`TypeOK`), `FetchCorrect` (`OpcodeIsPcs`), `LoadCorrect` (`LoadIsRequests`),
`StoreCorrect` (`WritesAreStores`) and `PortProtocol` (`RamRequestStable`), for every
program size, set of jump targets and set of accesses, for one or two
threads, with and without prefetch (which no run covers). They rest on the four
assumptions of `FetchUnit` about its constants.

`OpcodeIsPcs` is not inductive: it says nothing about answers under way.
The inductive invariant `IInv` adds, for each thread, that a fetch the arbiter
is busy with is still asked for and, unless it is to be given up, goes to
`fetch_addr`; and that this is the first word not in the buffer: the word of the
program counter with an empty buffer, one further with one word, two further
with both - or, in the one cycle after the program has crossed into another word
and the half it left is still marked valid, one less (`PrefetchInv`).
`NoPrefetchInv` is the simpler form for `prefetch=false`. `ArbiterInv` ties the state of
the arbiter to the request it carries. There is a lemma for each part and each
kind of step: what the core and the RAM may do in a step (`CoreStep`), what an
edge preserves of `PrefetchInv`, `NoPrefetchInv` and `FetchingInv`, and
one step per branch of the arbiter for `ArbiterInv`.

### 4.2 `DebugFifoProofs`

`TypeCorrect`, `NeverOverruns` (`NoOverrun`), `ReadsInOrder` (`InOrder`) and
`ReadsAccepted` (`ReadIsAccepted`), for any number of words. The first lemmas are
about the Gray code: codes of numbers less than 16 apart differ, two neighbours
share the upper three bits, and a sample of a changing pointer is its old or its
new value. The invariant says that what either side has seen of the other is
a value the other pointer had, the older the further back: numbers `k1 <= k2 <=
inptr` for the reader, `q1 <= q2 <= OutPrev` for the writer. That the reader asks
only if `outptr < k1`, and that the writer stays in the pair of numbers of `q1`,
is what makes the late flags safe.

`ImplementsQueue` (`RefinesQueue`) is the refinement: initial states map to the
empty queue, and every step to a step of `BoundedQueue` or a stutter. By `IInv`
the abstract contents are the numbers from `outptr` to `inptr - 1` (`ContentsAre`), so
an edge that moves one pointer, the other or both is a put, a get or both
at once (`BetweenPut`, `BetweenGet`); that there is room for a put is `NoOverrun`.

### 4.3 `ThreadSyncProofs`

`TypeCorrect`, `ReportsAreInTurn` (`ReportsInTurn`), `CompletionIsReported`
(`CompletedMeansReported`), `AnswerIsRight` (`AnsweredAsleep`) and `NeverAllAsleep`
(`SomebodyAwake`), for any number of benchmark runs; they rest on `Number_Of_Runs` being
a natural number. The first lemmas say where the instructions of the two programs are:
up to its report, thread 1 executes only one `sig`, as its second instruction; thread 2
has a `cond NEX` as its second instruction and another just before its report.

`ReportsInTurn` says nothing of how thread 2 is held back. The invariant adds it
(`TurnInv`): until thread 1 has reported and sent the `sig` of its `thread_wake`, thread 2
has at most reached its report and is paused there; until thread 1 has executed its first
`sig`, thread 2 has at most passed its first `cond NEX` and is paused there. So that one
`sig` cannot release thread 2 twice. Up to the same point the flag is set only by the
`thread_sleep` of thread 2, and what thread 1 has read of it likewise (`AnswerInv`): when
thread 1 is told yes, thread 2 has set the flag and nobody has woken it since, which is
`AnsweredAsleep`. It need not have paused yet. Nothing is assumed here of how long a thread
works.

`CompletedMeansReported` and `SomebodyAwake` are about the executions in which work is
long, and take the whole protocol: `PhaseInv` says in which instructions of the one thread
the other one can be, and which of the two is paused, from the start to the end of both
programs. That there is never nobody left to send a `sig` can be read off it.

### 4.4 `PipelineProofs`

For one or two threads, for every set of instructions and every relation `Adjacent`
that keeps the rules named, with any delay of memory and shifter and with interrupts at
any time or none:

| theorem | property | rules |
|---|---|---|
| `PipelineTypes` | `TypeOK` | - |
| `SkippingIsExact` | `SkipIsExact` | `CondsApart`, `IrqApart` |
| `SkippedIsHarmless` | `SkippedLeavesNoTrace` | the same |
| `SkippedSigIsBehindCond` | `SkippedSigFollowsCond` | the same |
| `InterruptsAreEntered` | `InterruptIsEntered` | the same |
| `AccessesAreOnce` | `AccessOnce` | the same |
| `StallsAreLongEnough` | `StallIsLongEnough` | these and `BytApart` |
| `OperandsAreCurrent` (4.5) | `OperandsCurrent` | the same |
| `CondsSeeTheFlags` (4.5) | `CondSeesFlags` | the same |
| `InterruptsSaveFlags` (4.5) | `InterruptSavesFlags` | these and `FlagsApart` |
| `LiChainsHold` (4.5) | `LiChain` | `CondsApart`, `IrqApart`, `LiApart` |

No rule is about timing, and each one excludes one of the departures of section 3.2 and
nothing else: the jump or `cond` behind a failing `cond` (`CondsApart`), the interrupt
in the cycle in which the `cond` fails (`IrqApart`), the acknowledge of `byt`
(`BytApart`), the flags still in flight when an interrupt is taken (`FlagsApart`), the `li`
behind `cond NEX` (`LiApart`). A `sig` may stand anywhere.

The argument goes from the front of the pipeline to its end, each invariant resting on
those before it.

- *Skipping.* `flag_cond` is set one cycle after the instruction behind the `cond` has
  left D. `SkipInv` says what makes up for it: a `cond` in E finds `flag_cond` clear, and what
  comes behind it is still in D, with nothing there that acts in E. `EnteringInv` follows
  an interrupt from the cycle it is taken to the jump of its xor, and says that nothing is
  skipped meanwhile; `IntXorInv` adds that no jump is ahead of the xor, which the acceptance
  in D sees to; `ShapeInv` is what the decoder makes of E. A skipped `sig` in E has not been
  masked in D, so that the `cond` was in E when it left D (`SkippedSig`).
- *No trace.* `TraceInv`: what ought not to be executed is not in M, or `flag_cond` is there
  to stop it between E and M.
- *Accesses.* `AccessInv` follows a load or store through E, M and W: it is alone there,
  due from its dispatch until M issues it, and in the first of the two cycles of a
  post-increment E and M hold it both. That the access goes out in one of them and not in
  the other depends on the age of the one before.
- *Waiting.* `StallInv` ties the request, the busy flag and the counter of the shifter to the
  instruction in E whose they are, so that an acknowledge always answers the
  instruction that waits for it.

### 4.5 `PipelineDataProofs`

That the hazards suffice. All ways in which a step can be made are first brought to one
form (`Moves`: an edge after which the instruction of one thread, or none, has left D).
The invariants of section 4.4 are taken together (`CoreInv`); what they do not say is
where the values are.

- `NewestInv`, `SameInv`, `FinalInv`: of which registers a stage holds the newest writer;
  that a load or store in two stages is one instruction; and from which cycle on M holds the
  final result of the ALU.
- `LoadsFirst`: nothing that sets `tmp` or the flags comes into the pipeline behind a load
  under way. This is where the hazards of loads are needed, and where the order in which
  values arrive is settled.
- `Coverage`: each register of each thread holds its right value, or the newest
  instruction that writes it is in a stage from which the value is going to come.
- `Exclusive`: nothing in flight overwrites a register that holds its right value.
  Neither of the two is inductive without the other, nor without `LoadsFirst`.
- `ReadInv`, `ForwardInv`: what the hazards are told of the instruction in D is so, and a
  result is forwarded only to the next instruction of its thread.

From `Coverage`, a register that no stage is about to write is current (`TmpCurrent`,
`RegisterCurrent`, `FlagsCurrent`), and the hazards hold an instruction back until this
is so or the value is forwarded (`DispatchReads`). For the flags that an interrupt saves
there is no hazard; `FlagsInv` shows why there is no need of one as long as the
ALU has no flags to write. `LiInv` says that a li chain is the affair of the thread that
was last in E, which the other thread cannot overtake.

### 4.6 `LinkerProofs`: the relaxation

`RelaxationGrows` (`SizesOnlyGrow`), for the linker run with any arguments on any
object files (`LinkSpec`; the behaviour of the linker in `Toolchain` is one of them). Of
the object files it takes only that a section's symbols are a list (`ObjectFiles`, which
holds in every state of the `Toolchain` run); the loader gives each symbol its size
itself. The invariant is that every symbol that is no alignment has a size of at most
six, and that the size of a word is 0 or 4, in what is loaded (`LoadedInv`) and in the
executable (`ExeOK`): only from such a size is four no step back. A lemma for each
pass over a section (`SizingRelaxes`, `AssigningRelaxes`) says that it keeps this and lets no
size but an alignment's shrink, whatever addresses it comes upon, so that nothing need be
known of how the addresses follow from the sizes.

The recursive functions of the linker (offsets over a list of symbols, the assignment of
addresses over a list of sections) are reasoned about without an induction rule: the set
of the numbers for which a fact fails has a least one (`Least`), so a set of numbers that
contains 0 and with each number the next one contains them all (`SetInduction`).
`RecursionIn` gives a recursive function with values in any set its equation,
`RecursionType` one with numbers its range.

### 4.7 `LinkerProofs`: nothing is left out

`NothingIsLeftOut` (`NothingLeftOut`), for any arguments and any object files whose symbols
are lists: when the sections are laid out, every reference of a kept section means a
definition of its name in a kept section, and every kept section is in the map - but for
those of more than one kind, and constructors when nobody asks for their list, which
`sectionmap.c` passes over.

That a reference has been resolved says nothing of the references of what it means: they
come later, from a stack. `ClosureInv` says for each kept section up to where its
references have been resolved: all of it if it is no longer on the stack, to its frame's
`next` if it is; and that no section is on the stack twice, since it is touched as it is
pushed. The stack is empty when resolving ends, and a link with an unresolved reference
ends there. The invariant has to say of each resolved reference that its target is a
definition of the name, which is what `Search` is for: one lemma for each way in
which it ends. `InOrder` and `Sorted`, which list the sections of the map, neither lose
one nor name one twice (`KeptApart`); the latter is what the layout needs.

### 4.8 `LinkerLayoutProofs`

`TheLayoutStands` (`LayoutStands`): when the layout is final, each section begins where the
one before it ends (or at the base, or at the base of the uninitialised data), each
definition has the address at which it comes to lie, alignments align, and each reference
has the room that its value or its distance takes. The hypotheses are about the files on
the disk: `ObjectFiles`, and `Numbers` - what stands for a number is one, a reference
is of one kind and no constant, and an alignment is to a power of two. The last is needed:
section.c:386 masks (`Masked`), which aligns for powers of two only, where it is the
remainder that is taken off (`PaddingAligns`); `LinkOddAlign.cfg` shows what
becomes of others. Both hold in every
state of the `Toolchain` run. There is none about the length of the program, the sizes, the
number of passes, or distances: six opcodes always do.

The difficulty is that the last pass is one over the sizes: it begins with addresses that were
assigned before, and what it changes no address follows any more. The argument is that
it changes nothing. A reference of a word keeps its four bytes, an alignment is not sized
here, and a pass after which a load has grown is not the last (`SettledPass`). So the
sizes are at once those that the addresses were assigned with, and those that these
addresses ask for: `PcrelFits` and `ConstantFits` take from the latter that the value fits, the
lemmas on `AssignAddresses` from the former that each definition lies where its address
says (`AssignedOnce`, `SettledEnds`). That one section may be assigned after another without
disturbing it rests on `KeptApart`.

The invariants in order: `NumbersInv` and `ExeNumeric` carry the hypotheses from the disk
through loading and linking; `Meaningful` is the part of 4.7 that gives each
reference a target; `EntriesInv` is about the map; `SizedInv` and `LaidInv` say what
holds after a pass over the sizes and after one over the addresses; `StandsInv` and
`BeginsInv` are the two halves of the theorem.

### 4.9 `LinkerImageProofs`

`TheImageStands` (`ImageStands`): in the file that is saved, each byte of a section's code
stands at the address that the layout gives it, moved by the references before it, and each
reference at its own: an alignment is zeros, a word is its target's value in the byte
order asked for, and `li` opcodes load, sign extended from the first of them, the
value or the distance, if six opcodes can hold it (`IsWord`: 36 bits). So nothing that is written disagrees with the addresses
that references elsewhere were computed from. The relocation table, if there is one, lists
exactly the words, in ascending order. The hypotheses are those of 4.8
and `Order`: the references of a section stand in the order of its code and within
it, which is how the assembler appends them (`AddSymbol`). It holds in every state of the
`Toolchain` run, too. Without it the code between two references would be
written twice or not at all.

The argument has two halves. What is written for one section is a recursion over its
symbols (`Accumulated`); `ProducedNext` shows that after each of them the output holds the
references so far and the code before them where they belong (`RefIn`, `CodeIn`), and
that appending disturbs neither (`BehindIs`). `RefBytesAre` is about a single reference: from
the room that the layout gives it, `LoadsIs` recovers the value from six bits an opcode.
The other half is that the sections of the file follow one another as their addresses do:
an output is as long as its section's address range (`OutputsFollow`), so that the parts of
the file begin at the addresses minus the base (`FlattenIs`, `SavedIs`). The table of one
section is another recursion over its symbols (`RelocsAre`); the tables follow one another as
the sections do, so that they ascend together (`FlattenAscends`, `TableIs`).

Beside the invariants of 4.8 this needs `TidyLoaded` and `ExeTidy`, which carry `Order` from the
disk into the executable: no pass moves a reference; `DividedInv`: the map is code up
to some entry and uninitialised data, which write nothing, from there on; and
`CodeEndInv`: the code ends where the address range of the last section with contents does.

### 4.10 What is only model-checked

`ImageIsSource`, `RelocsPointAtWords` and `LinkFailsForCause` of `Toolchain`; the properties of
`Compiler`; and liveness (`LoadAnswered`, `OpcodeArrives`,
`Opcode2Arrives`, `WordArrives`, `RoomIsSeen`, `HazardsClear`, `AccessIssued`, `ProgramsEnd`,
`BuildEnds`, `CodeReturns`), which is out of the prover's reach. All other properties of the
passing runs are proved. `TypeOK` of `FetchUnit`, `Pipeline`, `DebugFifo` and `ThreadSync`, and `InOrder`
and `ReadIsAccepted` of `DebugFifo`, are proved and no longer in a run. The specifications
of the tools as a whole are recursive over trees and programs (expression trees, sources,
lists of ICs): `Expressions`, `Toolchain`, `Isa`, `AddressingModes` and `Compiler` use
`RECURSIVE` operators, and no module with a theorem depends on them.


## 5. What is not modelled

- *In the pipeline*: values, `flag_byte` and `flag_halfword` (cpu.vhd:981). `Isa` has
  both, without the pipeline. `cond` with predicate 0, a pause, is not in `Isa`:
  compiled code has none.
- *The top of the address space*: the program counter wraps at 30 bits, the fetch
  address does not (fetchloadstore.vhd:159).
- *Reset while running*, and of the FIFO the two cycles after a reset shorter than
  its synchronisers.
- *The big-endian aligner* and the masks of an access over a word boundary; the cycles of
  the shifter (`Pipeline` has their number).
- *The debug unit and the JTAG bridges* but for the FIFO's enables, and the
  debugger client: next in the plan.
- *Of 832a and 832l*: the text of a line, reading and writing files, messages; of the map
  file the symbols and their addresses, not reading one. *832d* prints and has no state.
- *Of the backend*: data sections, inline assembly, floating point, long long, the
  options that change nothing but comments, `dt.c`, the entry of
  library calls (libcalls.c). *vbcc itself* is not in the repository.
- *Of the emulator*: big-endian memory, the UART, the trace, the limit of steps.
- *The rest of lib832*: division (but for its result, which compiled code uses), setjmp,
  strings, printf are sequential code.
  Romgen, board files and example programs have no state worth a model.


## 6. Plan

Done, in this order because the rest stands on it: the fetch/load/store unit
(every instruction and every access goes through it), the debug FIFO (clock
domains, abstract specification), the pipeline (the heart of the CPU), the thread
synchronisation (the software that depends on its timing), the assembler and linker,
and the code generator with the instruction set and the emulator.

Next, to extend the model:

1. `DebugUnit`: the command interpreter, step and break, and the diversion of the
   load/store port (cpu.vhd:1174-1232), composed with two `DebugFifo`s and the
   client's requests (`832ocd_connection.c`). Properties: an access of the core is
   neither lost nor answered with the debugger's data, a command is answered once, the core
   stops at a break point exactly. Bound: two commands, two accesses.
2. `flag_byte`/`flag_halfword` in `Pipeline`; the top of the address space in `FetchUnit`.
3. `Isa` against `Pipeline`: the same short programs executed by both.
4. The assembly functions of lib832 (division, setjmp, string) as programs of `Isa`.

Next, to prove: for the assembler, that it writes object files as the hypotheses of 4.8
and 4.9 ask for, once its expressions need no recursive operators; for the linker, that it
refuses only what is wrong (`LinkFailsForCause`, whose reasons are stated from the sources).
