-------------------------------- MODULE AxISA ---------------------------------
(***************************************************************************)
(* The instruction set of VM/altairx_v2 as far as it does not depend on    *)
(* the state of the machine: the fields of an opcode, which operations     *)
(* exist in which slot of a bundle, conditions, displacements.             *)
(*                                                                         *)
(* What the data path computes is a parameter (Alu, Src2, Addr); the       *)
(* module AxDatapath gives the values the code computes.  What the memory  *)
(* map does is a parameter too (Map); AxMemoryMap gives that of the code.  *)
(* A memory cell is one 32-bit word, the size of an opcode; a register is  *)
(* two cells wide.                                                         *)
(***************************************************************************)
EXTENDS Integers

CONSTANTS
  Half,       \* 2^31: pc is taken modulo 2*Half, the fetch index modulo Half
  ImmRadix,   \* 2^24: weight of the moveix immediate above a branch immediate
  RegCount,   \* number of general purpose registers (IREG_COUNT, 64)
  B,          \* 2^32: number of values of a memory cell
  Loc,        \* the memory cells, <<region, offset>>; <<"wram", 0>> is WRAM_BEGIN
  Decode(_),  \* the fields of an opcode (AxOpcode)
  Alu(_, _, _, _),  \* result of an ALU operation
  Src2(_, _, _),    \* alu_src2_value
  Addr(_, _, _, _), \* effective address of a load or store
  Map(_)      \* AxMemory::map: the cell an address falls on

(* Words, registers and opcodes.                                           *)

PcMod == 2 * Half
Pc    == 0 .. PcMod - 1
Cell  == 0 .. B - 1
WordMod == B * B
Word  == 0 .. WordMod - 1
Reg   == 0 .. RegCount - 1
REG_ZERO == RegCount - 1
Flags == [z : BOOLEAN, n : BOOLEAN]

\* 0x80000000u, where execute_bru_other sends a SYSCALL.
TrapVector == Half

\* The accessors of AxOpcode: "imm" is the 24-bit field of branches and of
\* moveix, "size" the number of cells a load, a store or a result covers.
Instr == [op : 0 .. 127, pkg : BOOLEAN, a : Reg, b : Reg, c : Reg,
          hasImm : BOOLEAN, imm : 0 .. ImmRadix - 1, other : 0 .. 15,
          pq : 0 .. 3, size : {1, 2}]

IsMoveix(i) == i.op = 0

\* The operation codes; COP, TEST, TESTFR, CMPBIT, SBIT and the unknown ones
\* have no case of their own.
AX_EXE_ALU_INS == 3
AX_EXE_ALU_CMP == 12
AX_EXE_ALU_CMOVEN == 30
AX_EXE_ALU_CMOVE  == 31
AluResultOps == {2, 3, 4, 5, 7, 9} \cup 16 .. 28
LoadOps  == {32, 36, 40}        \* LD, LDI, LDSP
StoreOps == {33, 37, 41}        \* ST, STI, STSP
FLoadOps  == {34, 38, 42}       \* FLD, FLDI, FLDSP
FStoreOps == {35, 39, 43}       \* FST, FSTI, FSTSP
DivOps == {96, 97}
MulOps == {98, 99}
AX_EXE_MDU_MOVETO   == 100
AX_EXE_MDU_MOVEFROM == 101
BranchOps == 112 .. 123         \* BNE .. BRA, LOOP
AX_EXE_BRU_LOOP  == 123
AX_EXE_BRU_JUMP  == 124
AX_EXE_BRU_CALL  == 125
AX_EXE_BRU_CALLR == 126
AX_EXE_BRU_OTHER == 127
JUMPBR_ID  == 1
RET_ID     == 2
RETI_ID    == 3
SYSCALL_ID == 4

\* The second opcode is an instruction of its own unless it is a moveix,
\* whose immediate then extends the one of the first.
PairOf(i, j) == i.pkg /\ ~IsMoveix(j)
ExtImm(i, j) == IF i.pkg /\ IsMoveix(j) THEN j.imm ELSE 0
ExtImms == {ExtImm(Decode(w), Decode(v)) : w, v \in Cell}

ASSUME SizesAssumption ==
  /\ Half \in Nat \ {0} /\ ImmRadix \in Nat \ {0}
  /\ RegCount \in Nat /\ RegCount >= 4
  /\ B \in Nat \ {0, 1}
  /\ <<"wram", 0>> \in Loc

ASSUME DatapathAssumption ==
  /\ \A w \in Cell : Decode(w) \in Instr
  /\ \A w \in Cell, x \in ExtImms, v \in Word : Src2(Decode(w), x, v) \in Word
  /\ \A w \in Cell, x \in ExtImms, u, v \in Word :
       /\ Alu(Decode(w), x, u, v) \in Word
       /\ Addr(Decode(w), x, u, v) \in Word
  /\ \A v \in Word : Map(v) \in Loc

-----------------------------------------------------------------------------
(* Bundles.                                                                *)

\* Number of words a bundle takes, given its first opcode.
BundleSize(i) == IF i.pkg THEN 2 ELSE 1

\* Mutant: pc wider than 32 bits.
PcAdd_NoWrap(p, d) == p + d

\* pc is a uint32_t.
PcAdd(p, d) == (p + d) % PcMod

\* The displacement of a branch is not sign extended: a backward branch relies
\* on the wrap-around of pc.
Displacement(i, j) == i.imm + ExtImm(i, j) * ImmRadix

\* execute_bru: when a branch is taken, given the flags and the loop counter.
Taken(op, f, count) ==
  CASE op = 112          -> f.z                 \* BNE
    [] op = 113          -> ~f.z                \* BEQ
    [] op = 114          -> f.n                 \* BL
    [] op = 115          -> f.z \/ f.n          \* BLE
    [] op = 116          -> ~f.n                \* BG
    [] op = 117          -> ~(f.z \/ f.n)       \* BGE
    [] op \in 118 .. 121 -> f.z                 \* BLS, BLES, BGS, BGES
    [] op = 122          -> TRUE                \* BRA
    [] op = 123          -> count = 0           \* LOOP

\* Mutant: the operands of the subtraction swapped.
CmpFlags_Swapped(u, v) ==
  LET tmp == (v - u) % WordMod
  IN [z |-> tmp = 0, n |-> 2 * tmp >= WordMod]

\* execute_alu, CMP: Z and N of the 64-bit difference.
CmpFlags(u, v) ==
  LET tmp == (u - v) % WordMod
  IN [z |-> tmp = 0, n |-> 2 * tmp >= WordMod]

\* CMOVE writes its destination when the second source is not zero, CMOVEN
\* when it is.
Moves(i, x, v) == IF i.op = AX_EXE_ALU_CMOVE THEN Src2(i, x, v) # 0
                                             ELSE Src2(i, x, v) = 0

\* execute_lsu: the register an address is based on.  AxMemory::store and load
\* copy from the mapped cell on, whether or not the region is long enough.
BaseReg(i) == IF i.op \in 40 .. 43 THEN 0 ELSE i.b
NextCell(l) == <<l[1], l[2] + 1>>
InRegion(i, l) == i.size = 2 => NextCell(l) \in Loc
AccessCells(i, l) == IF i.size = 2 THEN {l, NextCell(l)} ELSE {l}

\* A load narrower than the register overwrites only its low cell.
Loaded(i, l, m, old) ==
  IF i.size = 1 THEN m[l] + B * (old \div B) ELSE m[l] + B * m[NextCell(l)]

Stored(i, l, m, v) ==
  IF i.size = 1 THEN [m EXCEPT ![l] = v % B]
                ELSE [m EXCEPT ![l] = v % B, ![NextCell(l)] = v \div B]

\* execute_mdu masks its results to the size of the operation.
SizeMod(i) == IF i.size = 1 THEN B ELSE WordMod

\* Everything else runs into an assert(false): no unit behind the issue
\* number, an operation without a case, FPU, EFU, CU and VU, and CALLBR, which
\* falls through to the default of its switch.
Executable(slot, i) ==
  \/ i.op \in AluResultOps
  \/ i.op \in {0, AX_EXE_ALU_CMP, AX_EXE_ALU_CMOVE, AX_EXE_ALU_CMOVEN}
  \/ i.op \in 32 .. 47
  \/ slot = 0 /\ i.op \in DivOps \cup MulOps \cup {AX_EXE_MDU_MOVETO, AX_EXE_MDU_MOVEFROM}
  \/ slot = 0 /\ i.op \in 112 .. 126
  \/ /\ slot = 0 /\ i.op = AX_EXE_BRU_OTHER
     /\ i.other \in {JUMPBR_ID, RET_ID, RETI_ID, SYSCALL_ID}

\* The opcodes behind a value of pc: WRAM is indexed by pc without bit 31.
WramCell(k) == <<"wram", k>>
HasBundle(p) == WramCell(p % Half) \in Loc /\ WramCell((p % Half) + 1) \in Loc
FirstAt(m, p)  == Decode(m[WramCell(p % Half)])
SecondAt(m, p) == Decode(m[WramCell((p % Half) + 1)])

=============================================================================
