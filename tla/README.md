# A TLA+ verification project for AltairX

AltairX is a CPU design: a 64-bit in-order core that issues bundles of one or two
instructions, marked by a "pairing" (package) bit, and that leaves scheduling and
conflict resolution to the compiler. The repository holds two virtual machines
for it, `VM/altairx` (C, "Altair K1", with delayed branches) and
`VM/altairx_v2` (C++, the current one), sketches of a GPU and of an I/O
processor, and Verilog block RAMs. This project models the two virtual machines,
from the command line to the timing model: they are the executable definition of the
instruction set, and every compiler and program relies on what they do with control
flow, bundles, traps and memory. It also models the block RAMs.

Contents: [inventory](#1-inventory), [modules](#2-modules-and-how-they-correspond-to-the-code),
[runs](#3-runs), [bounds and fairness](#4-bounds-and-fairness), [proofs](#5-proofs),
[findings](#6-where-the-code-and-its-documentation-disagree),
[not modelled](#7-what-is-not-modelled), [plan](#8-plan).

## 1. Inventory

### Second VM (`src/VM/altairx_v2`)

**Core** (`core.cpp`, `core.hpp`, `altairx.cpp`). State: 64 integer and 64
floating-point registers, the last of each file (`REG_ZERO`, 63) the zero
register; four multiply/divide registers, flags Z and N, `pc`, `lr`, `br`, `lc`,
`ir`, two counters, and `m_syscall`. One iteration of `AltairX::run` fetches two
words, `AxCore::execute` runs slot 0, then slot 1 if the package bit is set and the second
word is not a moveix (an immediate extension), adds the bundle size to `pc`
unless a jump is recognised, and `syscall_emul` serves a raised call.
Hard here: the slots run one after the other on state they share, although a bundle
means both at once; a jump is recognised by comparing `pc` with its old value;
the zero registers are storage that is cleared lazily; CALL, SYSCALL and the
fall-through each compute an address from the package bit on their own.
Correct means: one bundle at a time, in parallel semantics; control on bundle boundaries;
a call served once.

**Datapath** (`core.cpp`, `utilities.hpp`, `opcode.hpp`). No state. Immediate extension through a
xor, sub-word masks, comparisons. Correct means: the compiler can encode every
constant, and the branch names mean what they say.

**Memory** (`memory.cpp`, `memory.hpp`). Six regions selected by the highest region bit of an
address and folded by a mask; opcode fetches go past the map. Correct means: one
flat address space.

**Start-up** (`main.cpp`, `elf.cpp`, `altairx.cpp`). `parse_args` walks the command line; "--"
takes the word before it as the executable and all behind it as arguments.
`AxELFFile::from_file` turns what LLVM parses into sections and symbols, or refuses the file.
`load_program` copies the sections, or a raw file that is no ELF; `load_hosted_program` adds a stack,
hand-assembled entry code and the host's arguments. Any check that fails is a panic.
Hard here: a token's meaning depends on the ones around it; a section has a size and contents of another length;
later symbols and symbol tables replace earlier ones; stack, code and arguments grow towards each other with
only some of the limits checked. Correct means: the options are honoured; nothing it writes damages
what it wrote before; it fails only for stated reasons; the entry code calls main and exits.

**System calls** (`syscall.cpp`). puts, clear, exit, getchar, selected by r1.

**Disassembler, I/O stubs, FPU/EFU sources**: see section 7.

### First VM (`src/VM/altairx`)

**Core** (`decode_execute.c`). State: 64 integer registers, 256 lanes, flags, `pc`, `lr`,
`br`, `ir`, and `delay`, `delayop`, `imm`: a branch is remembered and carried out by
the next call of `AX_decode_execute`, after that call has fetched its opcode and
before it steps `pc`. The bundle so fetched is the delay slot. Hard here: every
address left behind (lr of CALL, ir of SYSCALL and INT) is the address of the delay slot
and is right only together with the `pc++` that follows; branches, pairs, traps
and system calls overlap over two iterations; `AX_add_core` leaves most registers as `malloc` returned them.
Correct means: a branch acts once, with the fetch after its bundle; a call is
served with its own delay slot; control stays on bundle boundaries; the second
opcode of a bundle is the word behind the first.

**Machine, memory map, run loops** (`vm.c`, `vm.h`, `main.c`). Eight regions; modes 0 to 2 with the
system call emulation, mode 3 without.

**System calls** (`syscall.c`), **I/O registers** (`io.c`): calls with the host's files; one register
with an effect.

**Timing** (`cycle.c`, `cycle.h`). State: a counter of busy cycles per register and one for the flags, tags of an instruction
and a data cache, numbers of misses and bytes. After each bundle `AX_Pipeline_stall` takes one from every counter, stalls for the
largest among the registers the table says the opcode reads, and sets those it writes; `AX_Cache_miss` looks up the next `pc` and
the address of a memory access. Hard here: the counters lose one per *bundle* while time also passes in stalls;
they have one entry per register however many writes are under way; several are
never initialised; an index has more values than the tags that were cleared. Correct means: no operand is used
before it is there; the misses are those of the documented caches.

### Others

**Verilog block RAMs** (`verilog/src`): one with a single port, one with two ports and two clocks. State: the words
and an output register per port. Hard here: the clocks are unrelated, so any sequence of edges may fall between two accesses, and both may rise
at once on one address. Correct means: a port reads what was last written by either.

**AX-S** (`AX-S/AXS.c`), an I/O processor, and **GPU Aldebaran**, a shader processor: see section 7.
None of these interacts with the virtual machines.

### Interactions

Each VM is one thread. `run` calls the core, the core calls memory and marks a
system call, `run` calls the emulation, which changes the core's registers and calls the host
(stdio). The loader writes the memory the core will run from; the timing model reads the
opcode and registers the core leaves. The block RAMs are the only concurrent part. There are no
messages and nothing is persisted: the hard cases are orders of effects inside
and between iterations, addresses computed in two places, widths, and memory limits. PROJECT.json
lists them as hazards, each at its line.

## 2. Modules and how they correspond to the code

| Module | Models | Role |
|---|---|---|
| `AxISA` | opcode fields, opcode groups, conditions, access cells | constant definitions shared by the next two |
| `AxCore` | `AltairX::run`, `execute`, `AxCore::execute*`, `syscall_emul` | the second VM, slot by slot |
| `AxBundle` | what one instruction reads, writes and does to `pc`, and which pairs conflict | constant definitions of the promise |
| `AxVliw` | what the core promises a compiler | abstract specification, one step per bundle |
| `AxCoreVliw` | — | the refinement mapping from AxCore to AxVliw |
| `AxCoreVliw_proofs` | — | the proof of the refinement |
| `AxCore_proofs` | — | theorems about AxCore |
| `AxDatapath` | `alu_src2_value`, `execute_alu`, `lsu_imm_value`, `sext` | values at scaled widths |
| `AxOperands` | — | reference definitions of operand encoding, order and the address space, over all pairs of words |
| `AxMemoryMap` | `AxMemory::map`, the constructor's sizes, opcode fetch | addresses; its properties are in AxOperands |
| `AxOperands_proofs` | — | theorems about AxOperands |
| `AxLoader` | `parse_args`, `from_file`, `convert_elf`, `convert_symbols`, `load_program`, `load_hosted_program` | start-up |
| `AxLoader_proofs` | — | theorems about AxLoader |
| `AxHosted` | `write_entry_code` as the core decodes it | AxCore entered through the entry code |
| `K1Core` | `AX_decode_execute`, both units, run loops, `AX_syscall_emul`, `AX_IO_Read` | the first VM |
| `K1Datapath` | ALU, comparisons, lanes, `AX_Memory_Map` | values of the first VM |
| `K1Core_proofs` | — | theorems about K1Core |
| `K1Timing` | `AX_Pipeline_stall`, the table `opcode1_rw`, `AX_Cache_miss` | timing of the first VM |
| `K1Timing_proofs` | — | theorems about K1Timing |
| `Bram` | `bram_single_port.v`, `bram_dual_port.v` | the block RAMs |
| `Bram_proofs` | — | theorems about Bram |
| `MC*` | — | small instances for TLC |

### Second VM

A memory *cell* is one 32-bit word, the size of an opcode; a register is two
cells. Accesses are of one or two cells, so that narrow loads, which keep the
upper part of the register, and accesses across a region's end are kept, and byte and half-word
accesses are not told apart from word accesses. `pc` counts words modulo
`2 * Half` (2^32); the fetch masks bit 31 off (`pc % Half`) and `TrapVector` is
`Half` (0x80000000), as in `AltairX::execute` and `execute_bru_other`.
Decoder, ALU, effective address and memory map are constant operators, with
assumptions that say only that they stay within their words: the proofs hold for all of
them, and TLC runs with `AxDatapath` and `AxMemoryMap`.
The bitwise operators of `AxDatapath`, `AxMemoryMap` and `AxLoader` are constant operators as well (`And`, `Or`, `Xor`, `Mask`): the
MC modules give them those of the library module Bitwise, which the prover cannot take. What the proofs need of them is stated as
`BitAssumption` (an *or* or *xor* of bits below position m with bits from m on), and `Maskable(n)` and `RegionsFit` (masking with a size less one is the
remainder), which hold of powers of two; TLC evaluates all of it with the real operators.

The variable `phase` follows an iteration of the loop: `fetch`, `slot0`, `slot1`,
`retire` (the return of `execute` and the addition to `pc`), `emul`. An action is one
handler: `ExecuteAluResult(slot)`, `ExecuteLoad(slot)`, `ExecuteCall`, ... each clears the zero
registers first, as `execute_unit` does. `Count` is the return value of
`execute`. An `assert(false)` sets `status` to `"abort"`, `exit` to `"exit"`. What C++
leaves undefined (an index outside WRAM, an access past a region, a division by zero, a string without end) sets
it to `"wild"`, where the model ends: nothing is claimed of the process after it.
The FPU, EFU, CU and VU units are asserts in the compiled code. `br` and `lc`
are never written by the code, so JUMPBR goes to 0 and LOOP, which jumps when `lc` is 0 (`core.cpp:452`), always jumps.

`AxVliw`, with the definitions of `AxBundle`, states the promise: both instructions of a bundle read the state before
the bundle, the zero register is not state, one step per bundle, then one step
that serves a raised call. The repository's README leaves pipeline conflicts to
the compiler, so the data a bundle with a dependence computes is unspecified (`Conflict`),
while where it goes is not. Where a bundle goes that transfers to its own address is left open: the code does not carry such a transfer out,
against its own comment, and the run `self_transfer` says so (section 6). The history variable `pre` of `AxCore`, set by `Fetch` and reset when the bundle
retires, holds the state in which the current bundle was entered; in `AxCoreVliw` the abstract
registers are those of `pre` inside a bundle and the present ones outside.

`AxLoader` follows `main`: `step` is `args`, `open`, `sections`, `stack`, `entry`, `argv`, then `done`, `panic`
or `wild`, and `k` the index of the loop it is in. There is one action per token, section and
argument, for the stack, the entry code and the table, and one for each panic. A token is its text, its numeric value and
its length; a file is the sections and symbol tables LLVM finds in it, with size and length of contents apart; for each byte of WRAM the
model keeps the item it belongs to. Addresses are byte offsets from `WRAM_BEGIN`, of 64 bits (`AddrMod`), and so are the sums `load_sections` makes of
them (`End`, `Covers`): they wrap. `Address`, `InRegion` and `Fold` are `AxMemory::map` applied to `WRAM_BEGIN + addr`: the bit `WRAM_BEGIN` of the sum selects WRAM, the mask
gives the place, and the copy runs on from there. A copy that leaves WRAM (`~InWram`) ends in `wild`. Sums with the stack and the entry code do not wrap because `Wram` bounds the program before
they are made, and a WRAM within a stack's size of 2^64 bytes cannot be allocated. `asked` is a history variable: the intention (`Commands`) that `Render` turned into a command line
as `print_usage` describes. What a command means is stated apart from the code: `Grammar` says that its options start at a set of positions, each with its value behind
it, and `Meant` that the last use of each option counts; `CommandAssumption` asks this of every member of `Commands`. `LayoutIntact` is stated for the files in which the contents of no two loaded sections overlap (`SectionsApart`; the ELF format asks for it, the loader does not
check it), a WRAM size that is a power of two up to 2 GiB (`Maskable`), and arguments that stay in the stack (`InStack`), for which the code has no check either.
Two parts of it have a further condition, because the code looks at the length of contents where it should look at sizes: a `.bss` stays zero and everything up to r0 is free stack only if every section,
with its size, ends in front of the stack (`BssReserved`); the code of the entry point is in place only if the section around it has contents (`EntryHasCode`).
`LoadEnds` ties `InStack` to the lengths on the command line: the arguments stay in the stack exactly if their lengths fit (`ArgumentsFit`).

### First VM

`phase` is `fetch`, `slot0`, `pair` (the second fetch), `slot1`, `stall`, `emul`. `Fetch` reads the
opcode at `pc`, then carries out the branch pending from the bundle before
(`DelayedBranch`, `DelayedLoop`, `DelayedJump`, `DelayedCall`, `DelayedReturn`,
`DelayedTrap`) and steps `pc` (`Land`), in the order of the code.
`at` is a history variable: the address `opcode1` came from. The registers
start with `Garbage`, any content of a given set; `imm` and `delayop` start at 0
because the code reads them only after a branch has assigned them. `files` is the set of
FILE pointers open in the host: `fclose` of anything else is undefined. `printf` with the
program's string as format may do anything if the string holds a conversion.
DCMP tests a variable nobody assigned: any outcome of the comparison. Stalls are any
number of cycles up to `MaxStall`; counters are not read except by MOVEINS and MOVECYCLE.
Lanes hold integers that stand for floats. `AX_IO_Write` and all of `AX_IO_Read` but
the CPU information register only print.

`K1Timing` alternates `AX_Pipeline_stall` and `AX_Cache_miss` as the loops of modes 1 and 2 do, until the core sets an error
(`Stop`). The core is an environment: a `program` (chosen in `Init`) is a set of opcodes, of lines of `pc` and of lines of
data addresses, any of which may come next. Addresses are not tied to registers because `AX_Cache_miss` reads the registers
after the bundle has executed. The table is given as one set of rows per flag, with the rows where the code has them:
from ALU-B on they lie one above the unit they are named for. Only the first opcode of a bundle is looked at, as in the code. The misses
stand for their cycles (94 and 38 each). History variables: `due`, the cycles until a
value is really there, which loses the stall of a bundle as well as its issue cycle; `pcs`, `lines`, the lines looked up; `warm`, the lines the
garbage in the tags already stands for.

### Block RAMs

Between edges the wires of a port may take any value (`Drive`); `Posedge(clk)` is the rising edge of the clocks in `clk`, one or both, with
all assignments of the `always` blocks at once. Two ports on one address, one of them writing, is undefined (the comment at
`bram_dual_port.v:12`): the read returns, and two writes leave, any value. `written` is a history variable.

## 3. Runs

All run with `tlc -workers 2 -config <cfg> <module>`. Runs that must find no error:

| Run | Checks | Instance |
|---|---|---|
| `core_control` | `TypeOK`, `TrapPending`, `AlignmentPreserved` | all 16^4 programs over a table of transfers, package bits, stores into the text, from two entry points |
| `vliw` | `ImplementsVliw`, `CallServed` | all 15^4 programs over ALU, loads and stores into every region, multiply, divide, comparison with the zero register, call, system call, single and paired |
| `operands` | `OperandReach`, `MoveReach`, `CompareOrders`, `FlatMemory` | all pairs of 8-bit words, as values and as addresses |
| `loader` | `CommandHonoured`, `LayoutIntact`, `RefusedForCause`, `LoadEnds` | command lines in and out of the documented form; files of one or two sections (.bss, debug and rejected ones among them) with four sets of symbol tables; sections whose end wraps or whose address leaves WRAM; raw and unreadable files; WRAM sizes around each limit and beyond the bit `WRAM_BEGIN` |
| `k1_core` | `TypeOK`, `BranchPending`, `TrapPending`, `AlignmentPreserved` | all 9^4 programs over control-flow opcodes and all pairs over 32 opcodes, five register contents, both kinds of run loop |
| `k1_timing` | `TypeOK`, `NoEarlyRead`, `MissesExplained` | three programs, over register, vector and memory instructions, one for each kind of row of the table, from unset flags counter and tags |
| `bram` | `ReadsLastWrite` | both devices, two addresses, two words |

What they show:

* `AlignmentPreserved` (both cores): for every set of addresses that is closed
  under the program text, a step from a state aligned with it leads to one aligned
  with it. Control never enters the middle of a bundle, although the size of a bundle is added
  up in different places. In the first VM this is stated for
  programs whose delay slots are one word and no branch, and without jumps through `br`:
  a branch in a delay slot, or a paired slot, does land inside bundles, by the design of the code.
* `TrapPending`: a pending call belongs to the bundle just executed (v2) or the
  delay slot just executed (v1), `ir` holds its address, `pc` is where the vector says.
* `BranchPending` (v1): a pending branch is the one of the last bundle, with its own
  displacement, and is carried out with the next fetch, once.
* `ImplementsVliw`: executing slots in sequence cannot be told from executing the
  bundle at once, unless the bundle has a dependence; transfers of a bundle to itself are left out.
* `OperandReach`, `MoveReach`: every constant of the width of field plus moveix, one bit more for MOVEI and MOVEN, can be encoded.
* `CompareOrders`: after CMP, BL and BLE decide the order of operands whose sign bits agree. For the others the signed and the unsigned order differ, the two cores disagree about which one is meant, and
  neither is claimed; `branch_meaning` in section 6 shows the disagreement.
* `CallServed`: a raised call is eventually served, or the process stopped, or it waits for input.
* `FlatMemory`: no two addresses of the map's regions share a cell, and
  code is fetched from where it was stored.
* `CommandHonoured`: a command line written as `print_usage` says is read as it was meant, also when the value of
  `-entry-point` is itself "--" or an option.
* `LayoutIntact`, `RefusedForCause`, `LoadEnds`: the image is whole, start-up panics only for lack of room, of the entry point or of a good command
  line, and it ends. Three writes outside WRAM are possible and `LoadEnds` names them: a raw file longer than WRAM, arguments longer than the stack, and a section so near 2^64
  that the sum of address and length wraps past the check (`altairx.cpp:80`). In a WRAM longer than 2 GiB addresses lose the bit `WRAM_BEGIN` and any copy to its upper part goes elsewhere; nothing else is claimed of it.
* `NoEarlyRead`: no bundle is issued before the values the table makes it wait for are there. That the counters are decremented once per bundle
  makes them late, never early: stalls are over-counted. This is about the reads and writes of the table only. ADD, whose row is that of MOVEIR, leaves no trace in the counters: a read of its
  result is not waited for, and not claimed to be.
* `MissesExplained`: every line that was not in the cache at the start has missed, and lines that fit the ways of the documented caches (`Fits`) and share no tag of the code's (`Apart`) have missed no more than
  once; line 0, and lines of the upper half of the data cache, can be there from the start. Where the two differ nothing is claimed (section 6).
* `ReadsLastWrite`: a port clocked without a collision outputs the word last written by either port. The monitor `For simulation only` is part of the model (`display`) and has no property: with edges at one
  instant its condition is the collision itself, and nothing says how close other edges may come.

Runs that must find a violation are in section 6.

## 4. Bounds and fairness

* Second VM: cells of 4 bits, registers of 8, immediates of 3, a moveix of 4 in `AxOperands`, `pc` of 4 bits, four
  registers (r0 = sp, r1, r2 and the zero register), eight cells of WRAM (`Half = 8`), one or two cells of each
  other memory, programs of `CodeCells = 4` words followed by words of opcode 0. A cell value is an opcode
  of a table. Four words hold a bundle, its successor and a target, with the
  trap vector (word 0) among them; `pc` wraps within a run. Large enough for every
  action to occur, and small enough to take all programs, not samples.
* `CountMod = 1` takes the cycle and instruction counters out of the state: nothing in the
  second VM reads them, and in the first only two moves do.
* First VM: cells of 5 bits, registers of 9, `pc` modulo 16, eight registers, programs in words 1 to 4
  entered at 2, so that word 1, where SYSCALL lands, is part of the program. `MaxStall = 0` since cycles are out of the state.
* `MCStartSets`: every set of bundle addresses such a program can have (v2), and
  every choice of the words of the program that can be the second of a bundle (v1).
* Loader: addresses of 8 bits with 64 as `WRAM_BEGIN`, `-wram` counts 4 bytes, pages of 4, a stack of 16, pointers of 2, opcodes of 2, an entry code of 4. WRAM sizes from 0 to 64 bytes lie on both sides
  of the ends of program, stack and entry code, and one of 128 beyond the bit of WRAM; sections at 252 to 254 end on the last address and behind it; arguments go from fitting with room to longer than stack and program. Sections may overlap, and start at
  addresses that are no multiple of a word. Options with numbers are not negative.
* Timing: four registers of each kind, 2 the accumulator and 3 above it, two instruction tags, four data tags of which two are cleared, documented caches of one set of two ways, tags of
  3 bits so that one line (10) does not fit. `MaxBandwidth = 2200` ends a run after three instruction misses, or eighteen data misses: every line
  has then been looked up before, after and between those it shares a tag with. The counters have no bound.
* Block RAMs: two addresses let the ports meet and miss each other; the state space is complete.
* The proofs of section 5 hold without these bounds.

No symmetry is used: registers and addresses are numbers. Deadlock is not checked in the runs of
the cores, the loader and the timing model, because the process may end.

Fairness: `FairSpec` is weak fairness of `RunLoop`, every step except the one that waits in
`getchar`. The loop is one thread that never blocks anywhere else, so a step that can be
taken is taken. `Spec` of `AxLoader` has weak fairness of `Next` for the same reason. No other fairness is assumed,
and the safety properties do not use it.

## 5. Proofs

The seven `*_proofs` modules are checked by TLAPS to the last leaf. They assume
only what the modules state as named assumptions: sizes are positive (and for v1 ordered),
the constant operators of the data path map words to words, the initial memory and registers are typed. Three assumptions are facts of
arithmetic or of strings and not of the code, and are there because no installed prover knows them: `PowerAssumption` (2^(m+n) = 2^m * 2^n up to the word's
width), `BitAssumption` (section 2) and `LiteralAssumption` (three literals are strings). `AddressAssumption` says that WRAM's bit lies below half of the address space and that a mask
gives no more than itself. The theorems about AxOperands hold for every width of the field and of the moveix that together are shorter than a word: 9, 10 or 18 with 24 in 64 bits are those of the code. Those about AxLoader
hold with 2^64 and 2^31 for `AddrMod` and `WramBegin`. TLC evaluates all assumptions on the instances.

| Theorem | Statement | Argument |
|---|---|---|
| `AxCore_proofs!TypeCorrect` | `Spec => []TypeOK` | one lemma per group of actions; the arithmetic is that of `%`, of joining two cells and of splitting a word |
| `AxCore_proofs!TrapSafety` | `Spec => []TrapPending` | `TrapInv` below |
| `AxCore_proofs!Alignment` | `Spec => AlignmentPreserved` | `AlignedStep`: one step, any set `s`, from `TypeOK` |
| `AxCoreVliw_proofs!Refinement` | `Spec => ImplementsVliw` | `RefInv` below; every step but the last of a bundle stutters |
| `AxOperands_proofs!OperandsReach`, `MovesReach` | `Spec => []OperandReach`, `[]MoveReach` | the word is split at the field's sign bit; the moveix part and the sign extension put it together again |
| `AxOperands_proofs!ComparesOrder` | `Spec => []CompareOrders` | with equal sign bits the difference does not overflow, and N is its sign |
| `AxOperands_proofs!MemoryFlat` | `Spec => []FlatMemory` | the test of the region bits finds the region of the span an address lies in, and the mask takes off its first address |
| `AxLoader_proofs!LayoutSafety` | `Spec => []LayoutIntact` | `LoadInv` below |
| `AxLoader_proofs!CommandsHonoured` | `Spec => []CommandHonoured` | `CommandInv` below |
| `AxLoader_proofs!RefusalsCaused` | `Spec => []RefusedForCause` | `RefusalInv` below |
| `K1Core_proofs!TypeCorrect` | `Spec => []TypeOK` | the same shape; lanes, flags (the three low bits replaced) and the delayed branches |
| `K1Core_proofs!BranchSafety` | `Spec => []BranchPending` | inductive with `TypeOK` |
| `K1Core_proofs!TrapSafety` | `Spec => []TrapPending` | `TrapInv` below |
| `K1Core_proofs!Alignment` | `Spec => AlignmentPreserved` | `AlignedFetch` for the landing of a branch, `AlignedSlot0` for leaving slot 0 |
| `K1Timing_proofs!TypeCorrect` | `Spec => []TypeOK` | a counter is set to 3 to 8 and only goes down, to 0; a tag is reduced to its width |
| `K1Timing_proofs!ReadsInTime` | `Spec => NoEarlyRead` | `CountersSuffice` below |
| `K1Timing_proofs!MissesCounted` | `Spec => []MissesExplained` | `CacheInv` below |
| `Bram_proofs!ReadCorrect` | `Spec => ReadsLastWrite` | `Kept`: where the last word written is known, memory holds it |

The refinement. A step inside a bundle must be invisible and the retiring step must be the whole bundle, so the invariant has to say what lies between
the two. `RefInv` says, in slot 0, that nothing has changed since `pre`; in slot 1, that registers, flags and memory are those of `pre` with
the writes of the first instruction over them and that a transfer, if any, is the one `Target` gives; when retiring, the same with
the writes of both. Writes are partial functions laid over the old state (`Over`), so that the zero register, which is written and cleared
again, disappears in `Visible`. The step of slot 1 needs that the second instruction reads in the concrete state what it read in `pre`: that is
where `Conflict` is used, in one independence lemma for each kind of instruction; with a conflict only the control part is claimed, as `AxVliw` says.

Strengthenings. In the second VM `TrapPending` says nothing of the moments before the call is raised
and of what retiring adds to `pc`; `TrapInv` adds that slot 0
starts with `pc = old_pc` and that `pc` is the vector until the bundle retires. In the first VM
the second fetch adds one word to `pc` and `Passed` counts it only
for a pair; `TrapInv` adds that the phase `pair` implies the pairing bit.
`BranchPending` includes `phase # "slot0"`, which is what keeps a second
branch from finding one pending. In the timing model the stall is computed from the counters and says nothing of the cycles
really left; `CountersSuffice` adds that no value is further away than its counter (`due[r] <= busy[r]`). It is inductive
because a bundle takes one from the counter and at least one from `due`, and both are set to the same latency. In the block RAMs
`BramInv` adds `Kept` for the steps in which only one clock rises.

Counting misses. `MissesExplained` compares a counter with the size of a set of lines and says nothing of the tags that decide whether the next lookup counts. `MissInv`, for
either cache, adds that a tag stands only for a line that was looked up or was warm (so a line that is new and not warm misses), and that while no two
share a tag each line looked up is still under its tag (so an old one does not miss again). For the data cache it is claimed while no line is cut by the width of a tag.

Loading. `LayoutIntact` speaks of the end of start-up; `LoadInv` adds what holds on the way (`Laid`): before loading WRAM is free (`Blank`); the sections
copied so far are whole, their ends have not wrapped, and the bytes outside their contents are free (`Placed`); while arguments are pushed the strings lie
between r0 and the stack's end, the entry code behind it, and as long as r0 is above the program the sections are whole and the other bytes below r0 free (`Argued`). `Reached` adds that a loaded section holds the
entry point. `NoWrap` is where the 64-bit sums matter: a copy that passed the check of `load_sections` and stayed in WRAM cannot have wrapped, because an address so near 2^64, increased by
`WRAM_BEGIN`, lies below that bit and selects another memory. That the end of
the program (`TotalEnd`) bounds every section, and the last symbol of a name exists, is a maximum of a bounded set of numbers: `MaxNat` gets it
from the library's least-element theorem, without induction over data.

Reading the command line. `CommandHonoured` speaks of the end of `parse_args`. `CommandInv` adds what holds at the k-th token (`ReadSoFar`): k is a position at which an option, or
the executable, starts, and the parameters are what the options at the starts before k mean; or the executable has been read; or everything has. The set of starts replaces an induction over
the options: a step goes from one start to the next, and there is none between them.

Refusing. `RefusedForCause` speaks of the state after a panic. From `CommandInv` no panic of `parse_args` can be reached by a command of the documented form. `RefusalInv`
adds that `found` is false only if no section up to the k-th holds the entry point, and that only a hosted program gets a stack. That a section too long for WRAM makes the program too
long needs a maximum of the sections' ends: `BoundedNat` shows that finitely many numbers have a bound, by the least length for which they had none.

In `K1Core_proofs` every step is reduced once (`StepControl`) to one of eight kinds:
fetch, second fetch, a *plain* step of either slot, a branch, an end of the process, a stutter, or the rest of an iteration. The three
control theorems argue over those kinds and not over the thirty actions.

Only model-checked: `CallServed` and `LoadEnds` (liveness under fairness; that `InStack` and the sum in `ArgumentsFit` agree is an induction over the
arguments), and everything in section 6.

## 6. Where the code and its documentation disagree

Each is a run whose property states what the repository says, and which TLC refutes.

* `wram_sizes` (`memory.cpp:53`). "-wram N" takes any number of MiB (`main.cpp:141`, `memory.hpp:19`), and the map takes `addr & (size - 1)`: for
  a size that is no power of two, addresses of the upper part share cells with the lower.
* `self_transfer` (`core.cpp:55`). A jump is recognised by `old_pc != pc`; "if we jumped somewhere returns 0 so the next instruction is where we jumped!" (`core.cpp:57`). A transfer to the bundle's own
  address compares equal and falls through, so `bra .` does not loop.
* `hosted_exits` (`altairx.cpp:211`). The word commented as `movei r1, 3` has operation code 1: a hosted program
  whose main returns aborts.
* `branch_meaning` (`core.cpp:389`). The comments of the first VM give each conditional branch its relation (`decode_execute.c:223-293`), unsigned for BL to BGE, signed for BLS to BGES (`vm.h:96-100`).
  In the second, after CMP, BNE jumps on equality and BEQ on difference; BG jumps on greater or equal, BGE on greater; BL and BLE go by the sign of the difference and take a number with the top bit set for the
  lesser; BLS, BLES, BGS and BGES (`core.cpp:425-448`) look at Z only. None of the ten holds for all operands. The first VM's Z means "not equal" (`vm.h:97`); the second inverted it and kept the conditions.
* `k1_pair` (`decode_execute.c:1596`). The second opcode is read at `pc+1` after `pc++`: the word behind the first is never executed and the next bundle's
  first is executed twice.

Met while modelling, described here only: `AxCore::execute` returns 0 for a bundle that jumps where `core.hpp:65` says
"Returns the number of opcodes run (1 or 2)"; r0 is set to the stack's end minus 8 (`altairx.cpp:160`) where `altairx.hpp:27`
gives a fixed address; SYSCALL saves its own address in `ir` (`core.cpp:495`), so that a RETI at the vector makes the same call again; a `.bss` has a size but no contents, and room for it is neither checked
nor reserved: stack, entry code and arguments may lie over it, and an entry point inside it is accepted (`altairx.cpp:80-93`); a section address near 2^64 wraps past the check (`altairx.cpp:80`); the length of a raw file is not checked; N is wrong when the difference
of CMP overflows; ASR is a logical shift in both VMs. First VM: with Z "not equal", BL (`U && !Z`) is never taken after a comparison
and BG (`!U && !Z`) only on equality; CMP compares a register with itself; DIVS and REMS are unsigned; `extendSign` compares
with `>` and leaves the most negative value positive; the syscall number 2 of INT is never reset; mode 3 serves no calls;
SYSCALL lands at word 1 and INT at word 3 because `pc++` follows; the timing table has one row too many before ALU-B (`cycle.h:46`), so that ADD
has the row of MOVEIR and waits for one of its operands only; both caches are called 4-way with PLRUm replacement (`vm.h:37-38`, `src/README.md:7-14`) and are modelled by one tag per index (`cycle.c:23`, `:65`), so that two lines with one
index evict each other although four ways would hold them, and the index of the data cache has 1024 values where 32 KiB are 256 lines, so that lines stay which such a cache must evict; the address of a miss is computed from registers the bundle may have changed;
`-wram 32` asks for 32 bytes because the unit is applied before the options are read, the file name is always "prog.bin", a failing
`AX_load_prog` is ignored, mode 0 runs mode 1 and mode 4 runs nothing.

## 7. What is not modelled

* v2 `debug.cpp` prints; `io.cpp` is never called; `core_execute_fpu.cpp` and `core_execute_efu.cpp` are not in the build; `load_kernel`
  has no caller. What LLVM does to find sections and symbols in a file is the input of `AxLoader`.
* Arguments longer than the stack are excluded from `LayoutIntact` by `InStack`, a `.bss` under the stack by `BssReserved`: the code has no check for either.
* Options with negative numbers, which `get_value_for_arg` accepts.
* Byte and half-word accesses of both VMs, and floating-point values.
* v1 start-up: `AX_load_prog`, `AX_boot_rom` and the options of `main.c` give `K1Core` its initial state. `debug.c` prints; `decode.c`, `decode_x64.c`,
  `execute.c` and `AX_execute_unit1A` are not reached by the build; the table `opcode2_rw` is never read.
* AX-S has no caller: no loop runs its processor. The GPU does not compile (`processor_execution.c:338` names an undeclared variable, `:377` and
  `:616` have errors of their own), so there is no program to be faithful to. `dram_ro.v` is empty.

## 8. Plan

Order of work, most important behaviour first.

1. Done: `AxISA`, `AxCore`, `AxVliw`, `AxCoreVliw`, `AxDatapath`, `AxOperands`, `AxMemoryMap`, `AxHosted`; theorems of `AxCore_proofs`.
2. Done: `K1Core`, `K1Datapath`; theorems of `K1Core_proofs`.
3. Done: `K1Timing` and its theorems.
4. Done: `AxLoader` from the command line to the image, raw programs included.
5. Done: `Bram` and its theorems.
6. Done: the refinement `ImplementsVliw`, `MissesExplained`, `LayoutIntact`, `CommandHonoured`, `RefusedForCause` and the four statements of `AxOperands` as theorems:
   every invariant and action property of the runs that must pass is proved.
7. Theorems left: none of the safety properties the runs check; worth adding are invariants for the zero register of AxCore and for the files open in K1Core.
8. Left to model: the options and the loader of the first VM's `main.c`.
