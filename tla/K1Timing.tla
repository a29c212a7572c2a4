------------------------------- MODULE K1Timing -------------------------------
(***************************************************************************)
(* The timing model of VM/altairx (cycle.c, the table of cycle.h): what    *)
(* modes 1 and 2 do after each bundle.  AX_Pipeline_stall keeps a counter  *)
(* per register and one for the flags, takes one from each of them per     *)
(* bundle and stalls the bundle for the largest counter among what it      *)
(* reads.  AX_Cache_miss looks the next pc and the address of a memory     *)
(* access up in two arrays of tags.                                        *)
(*                                                                         *)
(* Of the core only what these two read is here: the first opcode of the   *)
(* bundle and, any of a set, the lines pc and the address fall on.         *)
(* The second opcode is never looked at (swt = 1).                         *)
(***************************************************************************)
EXTENDS Integers, FiniteSets

CONSTANTS
  RegCount,      \* AX_core_IREG_COUNT and AX_core_VREG_COUNT, 64
  Accu,          \* AX_ACCU, 61, the register that forwards
  ISets,         \* tags of the instruction cache, 64
  DSets,         \* values of the index of the data cache, 1024
  DZeroed,       \* tags AX_add_core sets to zero, 512; the rest is what malloc left
  Ways,          \* "(64 KiB , 4-way)", "(32 KiB , 4-way)": vm.h:37-38
  IWaySets,      \* sets of such an instruction cache: 64 KiB in lines of 1024, 16
  DWaySets,      \* and of such a data cache: 32 KiB in lines of 128, 64
  TagMod,        \* 2^32: values of a tag
  TagGarbage,    \* what malloc may leave in a tag
  FlagGarbage,   \* what malloc may leave in busy_flag
  Programs,      \* [ops, pcs, lines, waits]: the opcodes, lines and counts of a program
  MaxBandwidth   \* bound: no new bundle once that much was transferred

Reg == 0 .. RegCount - 1
Byte == 0 .. 255
Flag == <<"flag", 0>>
Ireg(r) == <<"ireg", r>>
Vreg(r) == <<"vreg", r>>
Res == ({"ireg", "vreg"} \X Reg) \cup {Flag}    \* what an instruction can wait for
Instr == [unit : 0 .. 127, a : Reg, b : Reg, c : Reg, hasImm : BOOLEAN]
Line == Nat                                     \* an address without its low bits

ASSUME TimingAssumption ==
  /\ RegCount \in Nat /\ RegCount >= 2 /\ Accu \in Reg
  /\ FlagGarbage \subseteq Byte
  /\ \A p \in Programs : p.ops \subseteq Instr

ASSUME CacheAssumption ==
  /\ {ISets, DSets, Ways, IWaySets, DWaySets, TagMod} \subseteq Nat \ {0} /\ DZeroed \in 0 .. DSets
  /\ TagGarbage \subseteq 0 .. TagMod - 1
  /\ \A p \in Programs :
       /\ p.pcs \subseteq 0 .. TagMod - 1       \* core->pc has 32 bits
       /\ p.lines \subseteq Line /\ p.waits \subseteq Nat

-----------------------------------------------------------------------------
(* The table opcode1_rw, one set of rows per flag.  A unit takes the row   *)
(* of its number, although the table has one row too many before "ALU-B"   *)
(* and is off by one from there: ADD, unit 16, has the row of MOVEIR.      *)

RA_W == 1 .. 10 \cup 13 .. 15 \cup 17 .. 29 \cup {33, 35, 37, 39, 41, 43, 45, 47} \cup 97 .. 127
RA_R == {34, 36, 38, 40, 42, 44, 46, 48, 65, 67, 68, 69, 70, 71, 72, 74}
RB == {1, 2, 65, 69, 70} \cup 4 .. 8 \cup 17 .. 29 \cup 41 .. 48 \cup 97 .. 114 \cup 117 .. 127
RC == 4 .. 8 \cup {16} \cup 41 .. 44 \cup 97 .. 112
VR == 69 .. 72 \cup 97 .. 127
VA == {35, 36, 39, 40, 43, 44, 47, 48}
RX == 33 .. 40
IM == 17 .. 29

STALL_CMP == 64 .. 71
STALL_BRU == 80 .. 95

AX_ALU_CYCLE == 3
AX_FPU_CYCLE == 4
AX_PQ_CYCLE == 4
FlagCycle == 3

RegA(i) == IF i.unit \in RX THEN (i.unit \div 4) % 2 ELSE i.a   \* bit 3 of the opcode

(* What the stall of an instruction looks at.  A row with VA, but not VR,  *)
(* looks at both registers of that number.                                 *)
Reads(i) ==
  (IF i.unit \in RA_R \cap (VA \cup VR) THEN {Vreg(RegA(i))} ELSE {})
    \cup (IF i.unit \in RA_R \ VR THEN {Ireg(RegA(i))} ELSE {})
    \cup (IF i.unit \in RB \cap VR THEN {Vreg(i.b)} ELSE {})
    \cup (IF i.unit \in RB \ VR THEN {Ireg(i.b)} ELSE {})
    \cup (IF i.unit \in RC \cap VR THEN {Vreg(i.c)} ELSE {})
    \cup (IF i.unit \in RC \ VR \/ (i.unit \in IM \ VR /\ ~i.hasImm) THEN {Ireg(i.c)} ELSE {})
Waits(i) ==
  (IF i.unit \in STALL_BRU THEN {Flag} ELSE {}) \cup (Reads(i) \ {Ireg(Accu), Vreg(Accu)})

Writes(i) ==
  (IF i.unit \in RA_W THEN {IF i.unit \in VA \cup VR THEN Vreg(RegA(i)) ELSE Ireg(RegA(i))} ELSE {})
    \cup (IF i.unit \in STALL_CMP THEN {Flag} ELSE {})

(* The registers above the accumulator get their value from the product    *)
(* and quotient unit.                                                      *)
Latency(i, r) ==
  IF r = Flag THEN FlagCycle
  ELSE (IF i.unit \in VA \cup VR THEN AX_FPU_CYCLE ELSE AX_ALU_CYCLE)
         + (IF i.unit \in IM \ VR /\ RegA(i) > Accu THEN AX_PQ_CYCLE ELSE 0)

-----------------------------------------------------------------------------
VARIABLES
  phase,      \* "stall", "cache": the next call of the loop; "done"
  program,    \* what the core executes
  op,         \* core->opcode1
  busy,       \* busy_reg, busy_vreg and busy_flag
  stall,      \* what the last call added to core->cycle
  due,        \* history: cycles until the value is really there
  icache, dcache,               \* tags; dcacher and dcacherw lie behind dcache
  icachemiss, dcachemiss,       \* the misses; their cycles are 94 and 38 for each
  bandwidth,                    \* bytes transferred
  warm,                         \* history: the lines dcache held at the start
  pcs, lines                    \* history: the lines looked up

pipe == <<op, busy, stall, due>>
caches == <<icache, dcache, icachemiss, dcachemiss, bandwidth, pcs, lines>>
tvars == <<phase, program, pipe, caches, warm>>

Index(l) == l % DSets

NoOp == [unit |-> 0, a |-> 0, b |-> 0, c |-> 0, hasImm |-> FALSE]

Init ==     \* AX_add_core; it leaves busy_flag and the upper tags alone
  /\ phase = "stall" /\ program \in Programs /\ op = NoOp /\ stall = 0
  /\ \E f \in FlagGarbage : busy = [r \in Res |-> IF r = Flag THEN f ELSE 0]
  /\ due = [r \in Res |-> 0]
  /\ icache = [s \in 0 .. ISets - 1 |-> 0]
  /\ dcache \in {t \in [0 .. DSets - 1 -> {0} \cup TagGarbage] :
                   \A s \in 0 .. DZeroed - 1 : t[s] = 0}
  /\ icachemiss = 0 /\ dcachemiss = 0 /\ bandwidth = 0
  /\ warm = {l \in program.lines : dcache[Index(l)] = l}
  /\ pcs = {} /\ lines = {}

(* AX_Pipeline_stall.                                                      *)
\* Mutants: a counter at zero is taken down too; each opcode of a bundle ticks.
Ticked_Wraps(b) == [r \in Res |-> b[r] - 1]
Ticked_Twice(b) == [r \in Res |-> IF b[r] > 1 THEN b[r] - 2 ELSE 0]

Ticked(b) == [r \in Res |-> IF b[r] > 0 THEN b[r] - 1 ELSE 0]

AX_Pipeline_stall(i) ==
  /\ phase = "stall" /\ phase' = "cache" /\ bandwidth < MaxBandwidth
  /\ op' = i
  /\ LET left == Ticked(busy)
     IN \E clear \in {0} \cup {left[r] : r \in Waits(i)} :
          /\ \A r \in Waits(i) : left[r] <= clear
          /\ stall' = clear
          /\ busy' = [r \in Res |-> IF r \in Writes(i) THEN Latency(i, r) ELSE left[r]]
          /\ due' = [r \in Res |-> IF r \in Writes(i) THEN Latency(i, r)
                                   ELSE IF due[r] > 1 + clear THEN due[r] - (1 + clear) ELSE 0]
  /\ UNCHANGED <<program, caches, warm>>

(* AX_Cache_miss.  The tag has 32 bits and is compared with all the bits   *)
(* of the line: a line above never hits.                                   *)
LookupI(l) ==
  /\ pcs' = pcs \cup {l}
  /\ icache' = [icache EXCEPT ![l % ISets] = l]
  /\ icachemiss' = icachemiss + (IF icache[l % ISets] # l THEN 1 ELSE 0)

\* Mutant: the tag is not replaced.
LookupD_KeepTag(l) ==
  /\ lines' = lines \cup {l} /\ UNCHANGED dcache
  /\ dcachemiss' = dcachemiss + (IF dcache[Index(l)] # l THEN 1 ELSE 0)

LookupD(l) ==
  /\ lines' = lines \cup {l}
  /\ dcache' = [dcache EXCEPT ![Index(l)] = l % TagMod]
  /\ dcachemiss' = dcachemiss + (IF dcache[Index(l)] # l THEN 1 ELSE 0)

WAIT == 74
MemoryOps == 32 .. 47     \* LDL .. STVI, by the numbers of vm.h

Transferred(n) ==
  bandwidth' = bandwidth + 1024 * (icachemiss' - icachemiss) + 128 * (dcachemiss' - dcachemiss) + n

CacheAccess(p, l) ==
  /\ phase = "cache" /\ op.unit \in MemoryOps /\ phase' = "stall"
  /\ LookupI(p) /\ LookupD(l) /\ Transferred(0)
  /\ UNCHANGED <<program, pipe, warm>>

CacheWait(p, n) ==
  /\ phase = "cache" /\ op.unit = WAIT /\ phase' = "stall"
  /\ LookupI(p) /\ UNCHANGED <<dcache, dcachemiss, lines>> /\ Transferred(64 * n)
  /\ UNCHANGED <<program, pipe, warm>>

CacheOther(p) ==
  /\ phase = "cache" /\ op.unit \notin MemoryOps \cup {WAIT} /\ phase' = "stall"
  /\ LookupI(p) /\ UNCHANGED <<dcache, dcachemiss, lines>> /\ Transferred(0)
  /\ UNCHANGED <<program, pipe, warm>>

Stop ==      \* the core has set error
  /\ phase = "stall" /\ phase' = "done"
  /\ UNCHANGED <<program, pipe, caches, warm>>

Next ==
  \/ \E i \in program.ops : AX_Pipeline_stall(i)
  \/ \E p \in program.pcs, l \in program.lines : CacheAccess(p, l)
  \/ \E p \in program.pcs, n \in program.waits : CacheWait(p, n)
  \/ \E p \in program.pcs : CacheOther(p)
  \/ Stop

Spec == Init /\ [][Next]_tvars

-----------------------------------------------------------------------------
TypeOK ==
  /\ phase \in {"stall", "cache", "done"} /\ program \in Programs
  /\ op \in Instr /\ stall \in Byte
  /\ busy \in [Res -> Byte] /\ due \in [Res -> Byte]
  /\ icache \in [0 .. ISets - 1 -> 0 .. TagMod - 1]
  /\ dcache \in [0 .. DSets - 1 -> 0 .. TagMod - 1]
  /\ icachemiss \in Nat /\ dcachemiss \in Nat /\ bandwidth \in Nat

(* The counters lose one per bundle, however long the bundle stalls: they  *)
(* may run behind the time that has passed, never ahead of it.             *)
CountersSuffice == \A r \in Res : due[r] <= busy[r]

(* A bundle is issued after the results it reads are there, whatever was   *)
(* issued and stalled in between, although AX_Pipeline_stall takes only    *)
(* one from each counter per bundle and keeps a single counter per         *)
(* register.  Reads and writes are those of the table; the accumulator     *)
(* forwards its value and is not waited for.                               *)
NoEarlyRead ==
  [][phase = "stall" /\ phase' = "cache" => \A r \in Waits(op') : due[r] <= 1 + stall']_tvars

(* The documented caches hold Ways lines in each of n sets; the code keeps *)
(* one tag for each value of an index.                                     *)
Fits(s, n) == \A x \in s : Cardinality({y \in s : y % n = x % n}) <= Ways
Apart(s, n) == \A x, y \in s : x % n = y % n => x = y

(* Where the tags of AX_Cache_miss and the 4-way caches of vm.h:37-38 must *)
(* agree, the misses counted are those of both: every line looked up and   *)
(* not there from the start has missed, and lines that fit the ways and    *)
(* share no tag have missed once.  Lines that fit and share a tag miss     *)
(* again in the code only, lines apart that do not fit in the documented   *)
(* cache only: nothing is claimed of them.  Line 0 is there from the       *)
(* start, the tag that means "empty" being its own, and so may be lines of *)
(* the upper half of the data cache, whose tags are never set.             *)
MissesExplained ==
  /\ Cardinality(pcs \ {0}) <= icachemiss
  /\ Apart(pcs, ISets) /\ Fits(pcs, IWaySets) => icachemiss <= Cardinality(pcs)
  /\ (\A l \in lines : l < TagMod) =>
       /\ Cardinality(lines \ warm) <= dcachemiss
       /\ Apart(lines, DSets) /\ Fits(lines, DWaySets) => dcachemiss <= Cardinality(lines)
=============================================================================
