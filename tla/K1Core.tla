-------------------------------- MODULE K1Core --------------------------------
(***************************************************************************)
(* The core of VM/altairx, the first virtual machine ("Altair K1"): the    *)
(* run loops of vm.c around AX_decode_execute and AX_syscall_emul.  A      *)
(* branch acts one bundle later: it leaves delay and delayop behind, and   *)
(* the next call of AX_decode_execute moves pc after fetching, so that the *)
(* bundle it has fetched is the delay slot.                                *)
(*                                                                         *)
(* A memory cell is one 32-bit word, the size of an opcode and of a lane   *)
(* of a vector register; a register is two cells.  What the data path      *)
(* computes is a parameter, see K1Datapath.                                *)
(***************************************************************************)
EXTENDS Integers

CONSTANTS
  PcMod,      \* 2^32
  FlagMod,    \* 2^16
  CountMod,   \* modulus of the counters instruction and cycle (2^64)
  B,          \* 2^32: values of a cell
  WordMod,    \* 2^64: values of a register
  RegCount,   \* AX_core_IREG_COUNT, 64
  LoopReg,    \* 60, the register LOOP counts down
  SysReg,     \* 4, the first of the four registers of a system call
  ImmSpan,    \* 2^22: values of the immediate of a branch
  Loc,        \* memory cells, <<region, offset>>
  Decode(_),         \* fields of an opcode
  Alu(_, _, _),      \* result of an ALU operation
  FlagBits(_, _, _), \* Z + 2 S + 4 U of a comparison
  Fpu(_, _, _, _),   \* lane operation on the old lane and two others
  Addr(_, _, _),     \* effective address from a base and an index
  Map(_),            \* the cell an address falls on, perhaps outside Loc
  CpuInfo(_),        \* is it the address of the CPU information register?
  InfoWord,          \* the low word of that register
  Images, Entry,     \* initial memory and pc
  Garbage,           \* what malloc leaves: [ireg, vreg, flags, lr, br, ir]
  Handles,           \* FILE pointers
  Chars,             \* values getchar may return
  Formats,           \* cells that hold a conversion of printf
  MaxStall,          \* most cycles AX_Pipeline_stall adds
  StartSets          \* sets of bundle addresses the alignment is stated for

Lanes == 4
Pc   == 0 .. PcMod - 1
Cell == 0 .. B - 1
Word == 0 .. WordMod - 1
Reg  == 0 .. RegCount - 1
Lane == 0 .. Lanes * RegCount - 1
Flags == 0 .. FlagMod - 1
Quad  == 0 .. Lanes - 1
Instr == [unit : 0 .. 127, pair : BOOLEAN, a : Reg, b : Reg, c : Reg, hasImm : BOOLEAN,
          imm : 0 .. ImmSpan - 1, size : Quad, id : Quad, sel : [Quad -> Quad]]
InfoCell == <<"io", 0>>

ASSUME SizeAssumption ==
  /\ {PcMod, CountMod, ImmSpan, B} \subseteq Nat \ {0}
  /\ WordMod \in Nat
  /\ \A m \in {B, FlagMod, PcMod, CountMod} : m <= WordMod
  /\ PcMod > 3 /\ ImmSpan <= PcMod
  /\ FlagMod \in Nat /\ FlagMod >= 8 /\ FlagMod % 8 = 0
  /\ RegCount \in Nat /\ RegCount >= 6
  /\ LoopReg \in Reg /\ SysReg \in Reg /\ SysReg + 3 \in Reg
  /\ MaxStall \in Nat /\ InfoWord \in Cell

ASSUME StateAssumption ==
  /\ InfoCell \in Loc /\ <<"io", 1>> \in Loc
  /\ Images \subseteq [Loc -> Cell] /\ Entry \subseteq Pc
  /\ Garbage \subseteq [ireg : [Reg -> Word], vreg : [Lane -> Cell], flags : Flags,
                        lr : Pc, br : Pc, ir : Pc]
  /\ Handles \subseteq Word \ {0} /\ Chars \subseteq Word
  /\ StartSets \subseteq SUBSET Pc

ASSUME DatapathAssumption ==
  /\ \A w \in Cell : Decode(w) \in Instr
  \* byte and half-word accesses are left out
  /\ \A w \in Cell : Decode(w).unit \in {32, 33, 36, 37, 40, 41, 44, 45} => Decode(w).size \in {2, 3}
  /\ \A w \in Cell :
       /\ Decode(w).unit \in {1, 2, 3, 8, 9} \cup 16 .. 23 =>
            \A u, v \in Word : Alu(Decode(w), u, v) \in Word
       /\ Decode(w).unit \in 4 .. 7 \cup 64 .. 68 \cup {70, 71} =>
            \A u, v \in Word : FlagBits(Decode(w), u, v) \in 0 .. 7
  /\ \A w, d, x, y \in Cell : Fpu(Decode(w), d, x, y) \in Cell

(* The units, by the numbers of vm.h.                                      *)
SEXT == 1
SMOVE == 3
ResultOps == {2, 3, 8, 9} \cup 16 .. 23     \* BOOL, SMOVE, MOVEN, MOVEU, ADD .. LSR
SetOps == 4 .. 7                            \* SLTS, SLTU, SLTSI, SLTUI
Unit1Ops == {SEXT} \cup ResultOps \cup SetOps
MOVEINS == 12
MOVECYCLE == 13
MOVERI == 14
MOVEIR == 15
DivOps == 24 .. 27                          \* DIVS, DIVU, REMS, REMU
MUL == 28
LoadOps   == {32, 36, 40, 44}
StoreOps  == {33, 37, 41, 45}
VLoadOps  == {34, 38, 42, 46}
VStoreOps == {35, 39, 43, 47}
CMP == 64
CmpOps == 64 .. 67                          \* CMP, CMPFR, CMPN, CMPU
FCmpOps == {68, 70, 71}                     \* FCMP, FCMPI, DCMPI
DCMPI == 71
DCMP == 69
ENDP == 72
RET == 76
RETI == 77
SYSCALL == 78
INT == 79
BranchOps == 80 .. 90                       \* BNE, BEQ, .. , BRA
LOOP == 91
JUMP == 92
JUMPBR == 93
CALL == 94
CALLBR == 95
BruOps == 76 .. 95
ScalarOps == 96 .. 99 \cup {108}            \* FADD, FSUB, FMUL, FMULADD, FMULSUB
LaneOps   == 100 .. 103 \cup {109, 113, 118, 119, 122, 123}  \* VFADD .. VITOF
SpreadOps == 104 .. 107 \cup {110}          \* VFADDS .. VFMULADDS, VFMULSUBS
SHUFFLE == 111
MoveOps == {112, 114, 116, 117, 126, 127}   \* FMOVE, FMOVEI, FNEG, FABS, FMIN, FMAX
VFMOVEI == 115
FpuOps == ScalarOps \cup LaneOps \cup SpreadOps \cup MoveOps \cup {SHUFFLE, VFMOVEI}

VARIABLES
  ireg, vreg, flags,
  pc, lr, br, ir,
  imm, delay, delayop,   \* a branch to be taken with the next fetch
  syscall, error,
  instruction, cycle,
  mem,
  opcode1, opcode2,
  files,                 \* open files of the host
  mode,                  \* "console": modes 0 to 2 of main, "hardware": mode 3
  at,                    \* history: where opcode1 was fetched
  phase, status

regs     == <<ireg, vreg, flags>>
links    == <<lr, br, ir>>
branch   == <<imm, delay, delayop>>
counters == <<instruction, cycle>>
latch    == <<opcode1, opcode2, at>>
host     == <<files, mode>>
vars == <<regs, pc, links, branch, syscall, error, counters, mem, latch, host, phase, status>>

First  == Decode(opcode1)
Second == Decode(opcode2)
Size(i) == IF i.pair THEN 2 ELSE 1

\* Mutant: pc is not truncated.
PcAdd_NoWrap(p, d) == p + d

PcAdd(p, d) == (p + d) % PcMod
InWram(p) == <<"wram", p>> \in Loc

-----------------------------------------------------------------------------
(* AX_decode_execute up to the first instruction: the opcode is fetched,   *)
(* then executeDelayedInstruction carries out the branch of the bundle     *)
(* before, from the address of this one, and pc steps on from wherever     *)
(* that led.                                                               *)

Z == flags % 2 = 1               \* not equal
S == (flags \div 2) % 2 = 1      \* less, signed
U == (flags \div 4) % 2 = 1      \* less, unsigned

Taken ==
  CASE delayop = 80 -> Z                \* BNE
    [] delayop = 81 -> ~Z               \* BEQ
    [] delayop = 82 -> U /\ ~Z          \* BL
    [] delayop = 83 -> U                \* BLE
    [] delayop = 84 -> ~U /\ ~Z         \* BG
    [] delayop = 85 -> ~U               \* BGE
    [] delayop = 86 -> S /\ ~Z          \* BLS
    [] delayop = 87 -> S                \* BLES
    [] delayop = 88 -> ~S /\ ~Z         \* BGS
    [] delayop = 89 -> ~S \/ ~Z         \* BGES
    [] OTHER        -> TRUE             \* BRA

\* pc moves to "there" and past the word just fetched.
Land(there) == pc' = PcAdd(there, 1)

NoBranch == delay = 0 /\ Land(pc) /\ UNCHANGED <<lr, ir, syscall, ireg>>

DelayedBranch ==
  /\ delay = 1 /\ delayop \in BranchOps
  /\ Land(IF Taken THEN PcAdd(pc, imm) ELSE pc)
  /\ UNCHANGED <<lr, ir, syscall, ireg>>

DelayedLoop ==
  /\ delay = 1 /\ delayop = LOOP
  /\ \/ /\ ireg[LoopReg] # 0
        /\ ireg' = [ireg EXCEPT ![LoopReg] = @ - 1]
        /\ Land(PcAdd(pc, imm))
     \/ ireg[LoopReg] = 0 /\ Land(pc) /\ UNCHANGED ireg
  /\ UNCHANGED <<lr, ir, syscall>>

Target == IF delayop \in {JUMPBR, CALLBR} THEN PcAdd(br, imm) ELSE imm

DelayedJump ==
  /\ delay = 1 /\ delayop \in {JUMP, JUMPBR}
  /\ Land(Target)
  /\ UNCHANGED <<lr, ir, syscall, ireg>>

\* Mutant: the link register holds the address behind the delay slot.
Link_Behind == PcAdd(pc, 1)

Link == pc

DelayedCall ==
  /\ delay = 1 /\ delayop \in {CALL, CALLBR}
  /\ lr' = Link
  /\ Land(Target)
  /\ UNCHANGED <<ir, syscall, ireg>>

DelayedReturn ==
  /\ delay = 1 /\ delayop \in {RET, RETI}
  /\ Land(IF delayop = RET THEN lr ELSE ir)
  /\ UNCHANGED <<lr, ir, syscall, ireg>>

DelayedTrap ==
  /\ delay = 1 /\ delayop \in {INT, SYSCALL}
  /\ syscall' = IF delayop = INT THEN 2 ELSE 1
  /\ ir' = pc
  /\ Land(IF delayop = INT THEN 2 ELSE 0)
  /\ UNCHANGED <<lr, ireg>>

\* Mutant: the branch stays pending.
ClearDelay_Not == UNCHANGED delay

ClearDelay == delay' = 0

Fetch ==
  /\ status = "run" /\ phase = "fetch" /\ error = 0 /\ InWram(pc)
  /\ cycle' = (cycle + 1) % CountMod
  /\ instruction' = (instruction + 1) % CountMod
  /\ opcode1' = mem[<<"wram", pc>>] /\ at' = pc
  /\ ClearDelay
  /\ \/ NoBranch \/ DelayedBranch \/ DelayedLoop \/ DelayedJump \/ DelayedCall
     \/ DelayedReturn \/ DelayedTrap
  /\ phase' = "slot0"
  /\ UNCHANGED <<vreg, flags, br, imm, delayop, error, mem, opcode2, host, status>>

Stop ==
  /\ status' = "wild"
  /\ UNCHANGED <<regs, pc, links, branch, syscall, error, counters, mem, latch, host, phase>>

\* wram is indexed by pc without a check.
FetchOutside == status = "run" /\ phase = "fetch" /\ error = 0 /\ ~InWram(pc) /\ Stop

\* The second opcode of a bundle comes from behind the word pc points to.
PairAddress == PcAdd(pc, 1)

PairFetch ==
  /\ status = "run" /\ phase = "pair" /\ InWram(PairAddress)
  /\ instruction' = (instruction + 1) % CountMod
  /\ opcode2' = mem[<<"wram", PairAddress>>]
  /\ pc' = PcAdd(pc, 1)
  /\ phase' = "slot1"
  /\ UNCHANGED <<regs, links, branch, syscall, error, cycle, mem, opcode1, at, host, status>>

PairOutside == status = "run" /\ phase = "pair" /\ ~InWram(PairAddress) /\ Stop

-----------------------------------------------------------------------------
(* AX_execute_unit0 and AX_execute_unit1.                                  *)

Op(slot) == IF slot = 0 THEN First ELSE Second
Issued(slot) == status = "run" /\ phase = (IF slot = 0 THEN "slot0" ELSE "slot1")
SlotDone(slot) ==
  /\ phase' = IF slot = 0 /\ First.pair THEN "pair" ELSE "stall"
  /\ UNCHANGED <<pc, ir, syscall, counters, latch, host, status>>

\* What both units execute; SMOVE works on its own destination.
ExecuteResult(slot) ==
  /\ Issued(slot) /\ Op(slot).unit \in ResultOps
  /\ LET i == Op(slot)
     IN ireg' = [ireg EXCEPT ![i.a] = Alu(i, ireg[IF i.unit = SMOVE THEN i.a ELSE i.b], ireg[i.c])]
  /\ SlotDone(slot) /\ UNCHANGED <<vreg, flags, lr, br, branch, error, mem>>

\* SEXT extends its source in place and copies it.
ExecuteSext(slot) ==
  /\ Issued(slot) /\ Op(slot).unit = SEXT
  /\ LET i == Op(slot)
         v == Alu(i, ireg[i.b], 0)
     IN ireg' = [ireg EXCEPT ![i.b] = v, ![i.a] = v]
  /\ SlotDone(slot) /\ UNCHANGED <<vreg, flags, lr, br, branch, error, mem>>

SetFlags(bits) == flags' = flags - (flags % 8) + bits

ExecuteSet(slot) ==
  /\ Issued(slot) /\ Op(slot).unit \in SetOps
  /\ SetFlags(FlagBits(Op(slot), ireg[Op(slot).a], ireg[Op(slot).b]))
  /\ SlotDone(slot) /\ UNCHANGED <<ireg, vreg, lr, br, branch, error, mem>>

\* Unit 1 knows only the ALU; what a unit does not know it skips.
Known(slot) ==
  IF slot = 1 THEN Unit1Ops
  ELSE Unit1Ops \cup 12 .. 15 \cup DivOps \cup {MUL} \cup 32 .. 47
         \cup 64 .. 72 \cup BruOps \cup FpuOps

ExecuteNop(slot) ==
  /\ Issued(slot) /\ Op(slot).unit \notin Known(slot)
  /\ SlotDone(slot) /\ UNCHANGED <<regs, lr, br, branch, error, mem>>

\* The rest of unit 0: registers read and written as values.
ExecuteRead ==
  /\ Issued(0) /\ First.unit \in {MOVEINS, MOVECYCLE, MOVERI, MUL}
  /\ LET v == CASE First.unit = MOVEINS   -> instruction
                [] First.unit = MOVECYCLE -> cycle
                [] First.unit = MUL       -> (ireg[First.b] * ireg[First.c]) % WordMod
                [] OTHER -> CASE First.b % 4 = 0 -> lr
                              [] First.b % 4 = 1 -> br
                              [] First.b % 4 = 2 -> flags
                              [] OTHER           -> ireg[First.a]
     IN ireg' = [ireg EXCEPT ![First.a] = v]
  /\ SlotDone(0) /\ UNCHANGED <<vreg, flags, lr, br, branch, error, mem>>

ExecuteMoveir ==
  /\ Issued(0) /\ First.unit = MOVEIR
  /\ lr'    = IF First.b % 4 = 0 THEN ireg[First.a] % PcMod ELSE lr
  /\ br'    = IF First.b % 4 = 1 THEN ireg[First.a] % PcMod ELSE br
  /\ flags' = IF First.b % 4 = 2 THEN ireg[First.a] % FlagMod ELSE flags
  /\ SlotDone(0) /\ UNCHANGED <<ireg, vreg, branch, error, mem>>

\* DIVS and REMS are unsigned too; a division by zero stops the host.
ExecuteDiv ==
  /\ Issued(0) /\ First.unit \in DivOps
  /\ LET u == ireg[First.b]
         v == ireg[First.c]
     IN \/ v = 0 /\ Stop
        \/ /\ v # 0
           /\ ireg' = [ireg EXCEPT ![First.a] = IF First.unit < 26 THEN u \div v ELSE u % v]
           /\ SlotDone(0) /\ UNCHANGED <<vreg, flags, lr, br, branch, error, mem>>

-----------------------------------------------------------------------------
(* Loads and stores: executeLoad and executeStore copy cells between the   *)
(* memories and a register, a vector access 1 to 4 registers of lanes that *)
(* begin at lane a.                                                        *)

EffectiveAddress ==
  Addr(First, ireg[CASE First.unit < 36 -> 0 [] First.unit < 40 -> 1 [] OTHER -> First.b],
       ireg[First.c])
Place == Map(EffectiveAddress)
Beyond(l, k) == <<l[1], l[2] + k>>
CellCount ==
  CASE First.unit \in VLoadOps \cup VStoreOps -> Lanes * (1 + First.size)
    [] First.size = 3 -> 2
    [] OTHER          -> 1
Moved == 0 .. CellCount - 1
InRegion == \A k \in Moved : Beyond(Place, k) \in Loc

\* AX_IO_Read: reading the CPU information register first sets it.
MemRead ==
  IF CpuInfo(EffectiveAddress)
  THEN [mem EXCEPT ![InfoCell] = InfoWord, ![<<"io", 1>>] = 0] ELSE mem

ExecuteLoad ==
  /\ Issued(0) /\ First.unit \in LoadOps /\ InRegion
  /\ mem' = MemRead
  /\ LET lo == MemRead[Beyond(Place, 0)]
         hi == IF CellCount = 2 THEN MemRead[Beyond(Place, 1)] ELSE ireg[First.a] \div B
     IN ireg' = [ireg EXCEPT ![First.a] = (lo + B * hi) % WordMod]
  /\ SlotDone(0) /\ UNCHANGED <<vreg, flags, lr, br, branch, error>>

ExecuteVload ==
  /\ Issued(0) /\ First.unit \in VLoadOps /\ InRegion
  /\ mem' = MemRead
  /\ vreg' = [l \in Lane |-> IF l - First.a \in Moved
                             THEN MemRead[Beyond(Place, l - First.a)] ELSE vreg[l]]
  /\ SlotDone(0) /\ UNCHANGED <<ireg, flags, lr, br, branch, error>>

ExecuteStore ==
  /\ Issued(0) /\ First.unit \in StoreOps \cup VStoreOps /\ InRegion
  /\ LET Datum(k) == IF First.unit \in VStoreOps THEN vreg[First.a + k]
                     ELSE IF k = 0 THEN ireg[First.a] % B ELSE (ireg[First.a] \div B) % B
     IN mem' = [l \in Loc |-> IF \E k \in Moved : l = Beyond(Place, k)
                              THEN Datum(CHOOSE k \in Moved : l = Beyond(Place, k)) ELSE mem[l]]
  /\ SlotDone(0) /\ UNCHANGED <<regs, lr, br, branch, error>>

AccessOutside == Issued(0) /\ First.unit \in 32 .. 47 /\ ~InRegion /\ Stop

-----------------------------------------------------------------------------
(* Comparisons, lanes, and the instructions that leave a branch behind.    *)

\* CMP compares rega with itself; DCMP tests a variable nobody assigned.
ExecuteCmp ==
  /\ Issued(0) /\ First.unit \in CmpOps
  /\ SetFlags(FlagBits(First, ireg[First.a], ireg[First.a]))
  /\ SlotDone(0) /\ UNCHANGED <<ireg, vreg, lr, br, branch, error, mem>>

ExecuteFcmp ==
  /\ Issued(0) /\ First.unit \in FCmpOps \cup {DCMP}
  /\ LET x == vreg[IF First.unit = DCMPI THEN 2 * First.a ELSE Lanes * First.a + First.size]
         y == vreg[Lanes * First.b + First.id]
     IN \E bits \in IF First.unit = DCMP THEN {0, 1, 7} ELSE {FlagBits(First, x, y)} :
          SetFlags(bits)
  /\ SlotDone(0) /\ UNCHANGED <<ireg, vreg, lr, br, branch, error, mem>>

LaneOf(r, k) == vreg[Lanes * r + k]

\* VFSHUFFLE: four assignments, each of which may overwrite a later source.
Placed(v, k) == [v EXCEPT ![Lanes * First.a + First.sel[k]] = v[Lanes * First.b + k]]

\* The operation on one lane of the destination of a vector instruction.
LaneResult(l) ==
  LET k == l - Lanes * First.a
  IN CASE k \notin 0 .. First.size -> vreg[l]
       [] k \in 0 .. First.size /\ First.unit = VFMOVEI ->
            Fpu(First, LaneOf(First.a, 0), 0, 0)
       [] k \in 0 .. First.size /\ First.unit \in SpreadOps ->
            Fpu(First, vreg[l], LaneOf(First.b, k), LaneOf(First.c, First.id))
       [] OTHER -> Fpu(First, vreg[l], LaneOf(First.b, k), LaneOf(First.c, k))

FpuResult ==
  CASE First.unit \in ScalarOps ->
         [vreg EXCEPT ![Lanes * First.a] =
            Fpu(First, @, LaneOf(First.b, First.size), LaneOf(First.c, First.id))]
    [] First.unit \in MoveOps ->
         [vreg EXCEPT ![Lanes * First.a + First.size] =
            Fpu(First, @, LaneOf(First.b, First.id), 0)]
    [] First.unit = SHUFFLE -> Placed(Placed(Placed(Placed(vreg, 0), 1), 2), 3)
    [] OTHER -> [l \in Lane |-> LaneResult(l)]

ExecuteFpu ==
  /\ Issued(0) /\ First.unit \in FpuOps
  /\ vreg' = FpuResult
  /\ SlotDone(0) /\ UNCHANGED <<ireg, flags, lr, br, branch, error, mem>>

ExecuteEndp ==
  /\ Issued(0) /\ First.unit = ENDP
  /\ error' = 1
  /\ SlotDone(0) /\ UNCHANGED <<regs, lr, br, branch, mem>>

\* extendSign leaves the most negative displacement positive.
Displacement(i) == IF i.imm > ImmSpan \div 2 THEN PcMod - ImmSpan + i.imm ELSE i.imm

ImmOf(i) == IF i.unit \in BranchOps \cup {LOOP} THEN Displacement(i) ELSE i.imm

ExecuteBru ==
  /\ Issued(0) /\ First.unit \in BruOps
  /\ delay' = 1 /\ delayop' = First.unit
  /\ imm' = IF First.unit \in {RET, RETI, SYSCALL, INT} THEN imm ELSE ImmOf(First)
  /\ SlotDone(0) /\ UNCHANGED <<regs, lr, br, error, mem>>

-----------------------------------------------------------------------------
(* The rest of an iteration of the run loop.                               *)

\* AX_Pipeline_stall in console mode; mode 3 only counts and serves no calls.
Stall ==
  /\ status = "run" /\ phase = "stall" /\ mode = "console"
  /\ \E n \in 0 .. MaxStall : cycle' = (cycle + n) % CountMod
  /\ phase' = "emul"
  /\ UNCHANGED <<regs, pc, links, branch, syscall, error, instruction, mem, latch, host, status>>

HardwareTick ==
  /\ status = "run" /\ phase = "stall" /\ mode = "hardware"
  /\ cycle' = (cycle + 1) % CountMod
  /\ phase' = "fetch"
  /\ UNCHANGED <<regs, pc, links, branch, syscall, error, instruction, mem, latch, host, status>>

Call == ireg[SysReg] % 256
Serving == status = "run" /\ phase = "emul" /\ syscall = 1
Served == UNCHANGED <<vreg, flags, pc, links, branch, error, counters, mem, latch, mode, status>>

\* Mutant: syscall is not reset.
EmulDone_KeepCall == phase' = "fetch" /\ UNCHANGED syscall /\ Served

EmulDone == phase' = "fetch" /\ syscall' = 0 /\ Served

NoSyscall ==
  /\ status = "run" /\ phase = "emul" /\ syscall # 1
  /\ phase' = "fetch" /\ Served /\ UNCHANGED <<ireg, syscall, files>>

Behind(l) == {c \in Loc : c[1] = l[1] /\ c[2] >= l[2]}
Terminated(l) == \E c \in Behind(l) : mem[c] = 0
Text(l) == {c \in Behind(l) : \A d \in Behind(l) : d[2] <= c[2] => mem[d] # 0}

\* printf with the program's string as format.
SysPrintf ==
  /\ Serving /\ Call = 1
  /\ LET l == Map(ireg[SysReg + 1])
     IN \/ Terminated(l) /\ EmulDone /\ UNCHANGED <<ireg, files>>
        \/ ~Terminated(l) /\ Stop
        \/ (\E c \in Text(l) : mem[c] \in Formats) /\ Stop

SysClear ==
  /\ Serving /\ Call = 2
  /\ ireg' = [ireg EXCEPT ![SysReg] = 0, ![SysReg + 1] = 0]
  /\ EmulDone /\ UNCHANGED files

SysFopen ==
  /\ Serving /\ Call = 8
  /\ \/ /\ Terminated(Map(ireg[SysReg + 2])) /\ Terminated(Map(ireg[SysReg + 3]))
        /\ \/ \E h \in Handles \ files :
                ireg' = [ireg EXCEPT ![SysReg] = h] /\ files' = files \cup {h}
           \/ ireg' = [ireg EXCEPT ![SysReg] = 0] /\ UNCHANGED files
        /\ EmulDone
     \/ ~(Terminated(Map(ireg[SysReg + 2])) /\ Terminated(Map(ireg[SysReg + 3]))) /\ Stop

\* fclose, fseek and ftell of whatever the register holds; the results of the
\* last two are dropped.
SysFile ==
  /\ Serving /\ Call \in {11, 12, 13}
  /\ LET h == ireg[SysReg + 1]
     IN \/ /\ h \in files
           /\ files' = IF Call = 11 THEN files \ {h} ELSE files
           /\ EmulDone /\ UNCHANGED ireg
        \/ h \notin files /\ Stop

SysGetchar ==
  /\ Serving /\ Call = 14
  /\ \E c \in Chars : ireg' = [ireg EXCEPT ![SysReg] = c]
  /\ EmulDone /\ UNCHANGED files

SysOther ==
  /\ Serving /\ Call \notin {1, 2, 8, 11, 12, 13, 14}
  /\ EmulDone /\ UNCHANGED <<ireg, files>>

-----------------------------------------------------------------------------

\* AX_add_core: malloc'ed, with a few fields assigned.  imm and delayop are
\* read only after a branch has assigned them.
Init ==
  /\ \E g \in Garbage :
       /\ ireg = g.ireg /\ vreg = g.vreg /\ flags = g.flags
       /\ lr = g.lr /\ br = g.br /\ ir = g.ir
  /\ pc \in Entry /\ mem \in Images /\ mode \in {"console", "hardware"}
  /\ imm = 0 /\ delay = 0 /\ delayop = 0 /\ syscall = 0 /\ error = 0
  /\ instruction = 0 /\ cycle = 0 /\ opcode1 = 0 /\ opcode2 = 0
  /\ files = {} /\ at = 0
  /\ phase = "fetch" /\ status = "run"

ExecuteSlot(slot) ==
  ExecuteResult(slot) \/ ExecuteSext(slot) \/ ExecuteSet(slot) \/ ExecuteNop(slot)

ExecuteUnit0 ==
  \/ ExecuteRead \/ ExecuteMoveir \/ ExecuteDiv
  \/ ExecuteLoad \/ ExecuteVload \/ ExecuteStore \/ AccessOutside
  \/ ExecuteCmp \/ ExecuteFcmp \/ ExecuteFpu \/ ExecuteEndp \/ ExecuteBru

Emulate ==
  \/ NoSyscall \/ SysPrintf \/ SysClear \/ SysFopen \/ SysFile \/ SysGetchar \/ SysOther

Next ==
  \/ Fetch \/ FetchOutside \/ PairFetch \/ PairOutside
  \/ \E slot \in {0, 1} : ExecuteSlot(slot)
  \/ ExecuteUnit0
  \/ Stall \/ HardwareTick \/ Emulate

Spec == Init /\ [][Next]_vars

-----------------------------------------------------------------------------
(* Properties.                                                             *)

\* The state stays in its types: registers, flags, counters and pc keep the
\* width of their fields and a run stays within the phases of the loop.
TypeOK ==
  /\ ireg \in [Reg -> Word] /\ vreg \in [Lane -> Cell] /\ flags \in Flags
  /\ pc \in Pc /\ lr \in Pc /\ br \in Pc /\ ir \in Pc /\ at \in Pc
  /\ imm \in Pc /\ delay \in {0, 1} /\ delayop \in 0 .. 127
  /\ syscall \in 0 .. 2 /\ error \in {0, 1}
  /\ instruction \in 0 .. CountMod - 1 /\ cycle \in 0 .. CountMod - 1
  /\ mem \in [Loc -> Cell] /\ opcode1 \in Cell /\ opcode2 \in Cell
  /\ files \subseteq Handles /\ mode \in {"console", "hardware"}
  /\ phase \in {"fetch", "slot0", "pair", "slot1", "stall", "emul"}
  /\ status \in {"run", "wild"}

\* A pending branch is the one of the bundle executed last: it is carried out
\* with the next fetch and never again, and nothing in between, a system call
\* included, changes what it is.
BranchPending ==
  delay = 1 =>
    /\ phase # "slot0"
    /\ First.unit \in BruOps /\ delayop = First.unit
    /\ First.unit \notin {RET, RETI, SYSCALL, INT} => imm = ImmOf(First)

\* Words of the bundle pc has passed.
Passed == IF phase \in {"slot0", "pair"} THEN 1 ELSE Size(First)

\* A system call raised by the SYSCALL before a delay slot is served before the
\* next bundle is fetched.  ir is the address of the delay slot, so that RETI
\* goes back behind it, and execution goes on behind as many words of the
\* vector as the delay slot has.
TrapPending ==
  mode = "console" /\ syscall = 1 =>
    /\ phase # "fetch"
    /\ ir = at /\ pc = PcAdd(0, Passed)

\* What may not stand in a program whose control flow is to be read off its
\* text: branches through br and moves to lr and br.
Indirect(i) == i.unit \in {JUMPBR, CALLBR} \/ (i.unit = MOVEIR /\ i.b % 4 \in {0, 1})

CodeAt(m, p) == Decode(m[<<"wram", p>>])

\* A branch with its delay slot at q: the slot is one word and no branch, and
\* the addresses behind it and where the branch may lead are in s.
SlotOK(s, m, q, unit, d) ==
  /\ InWram(q) => ~CodeAt(m, q).pair /\ CodeAt(m, q).unit \notin BruOps /\ ~Indirect(CodeAt(m, q))
  /\ PcAdd(q, 1) \in s
  /\ unit \in BranchOps \cup {LOOP} => PcAdd(PcAdd(q, d), 1) \in s
  /\ unit \in {JUMP, CALL} => PcAdd(d, 1) \in s

ClosedAt(s, m, i, q) ==
  /\ ~Indirect(i)
  /\ IF i.unit \in BruOps THEN SlotOK(s, m, q, i.unit, ImmOf(i)) ELSE q \in s

\* A set s of bundle addresses is closed under the program text in m.
Closed(s, m) ==
  /\ 1 \in s /\ 3 \in s
  /\ \A p \in s : InWram(p) => ClosedAt(s, m, CodeAt(m, p), PcAdd(p, Size(CodeAt(m, p))))

\* The bundle at q is next.
Pending(s, q) ==
  IF delay = 1 THEN delayop \notin {JUMPBR, CALLBR} /\ SlotOK(s, mem, q, delayop, imm)
  ELSE q \in s

Aligned(s) ==
  /\ PcAdd(lr, 1) \in s /\ PcAdd(ir, 1) \in s
  /\ phase = "slot0" => delay = 0 /\ ClosedAt(s, mem, First, PcAdd(pc, Size(First) - 1))
  /\ phase = "pair" => First.pair /\ Pending(s, PcAdd(pc, 1))
  /\ phase \notin {"slot0", "pair"} => Pending(s, pc)

\* Control stays on bundle boundaries: in a program with one-word delay slots
\* that are no branches themselves, a step from a state aligned with the text
\* leads to one aligned with it.  The address CALL leaves in lr and SYSCALL in
\* ir, the words the delay slot adds to a destination and the second opcode of
\* a bundle all agree, a store into the text and garbage in the registers
\* included.
AlignmentPreserved ==
  [][\A s \in StartSets : Closed(s, mem) /\ Aligned(s) => Aligned(s)']_vars

\* "The number of instructions is done via a "Pairing" bit, when it is equal
\* to 1, there is another instruction to be executed in parallel" (README.md):
\* the second opcode is the word behind the first.
PairExecutesNext ==
  [][phase = "pair" /\ phase' = "slot1" => opcode2' = mem[<<"wram", PcAdd(at, 1)>>]]_vars

=============================================================================
