---------------------------- MODULE AxCore_proofs -----------------------------
(***************************************************************************)
(* Theorems about AxCore for every size of words and register file, every  *)
(* data path, memory map and program.                                      *)
(***************************************************************************)
EXTENDS AxCore, TLAPS

-----------------------------------------------------------------------------
(* Arithmetic of machine words.                                            *)

\* Reduction modulo n, as every machine word of the core does it, stays below n.
LEMMA ModRange ==
  ASSUME NEW x \in Int, NEW m \in Nat \ {0}
  PROVE  x % m \in 0 .. m - 1
OBVIOUS

\* Two cells make a word, and a word splits into two cells.
LEMMA JoinCells ==
  ASSUME NEW lo \in Cell, NEW hi \in Cell
  PROVE  lo + B * hi \in Word
<1>1. B \in Nat /\ lo \in 0 .. B - 1 /\ hi \in 0 .. B - 1
  BY SizesAssumption DEF Cell
<1>2. B * hi <= B * (B - 1)
  BY <1>1
<1>3. lo + B * hi <= B * B - 1
  BY <1>1, <1>2
<1>4. QED
  BY <1>1, <1>3 DEF Word, WordMod

\* The upper half of a register, what a store of two cells writes second.
LEMMA HighCell ==
  ASSUME NEW w \in Word
  PROVE  w \div B \in Cell
<1>1. B \in Nat \ {0} /\ w \in 0 .. B * B - 1
  BY SizesAssumption DEF Word, WordMod
<1>2. w \div B >= 0 /\ w \div B < B /\ w \div B \in Int
  BY <1>1
<1>3. QED
  BY <1>1, <1>2 DEF Cell

\* The value of a cleared register.
LEMMA ZeroWord == 0 \in Word
<1>1. B \in Nat /\ B >= 1
  BY SizesAssumption
<1>2. B * B >= 1
  BY <1>1
<1>3. QED
  BY <1>1, <1>2 DEF Word, WordMod

\* Adding a displacement to pc yields a pc: the 32-bit register wraps.
LEMMA PcAddType ==
  ASSUME NEW p \in Int, NEW d \in Int
  PROVE  PcAdd(p, d) \in Pc
BY ModRange, SizesAssumption DEF PcAdd, Pc, PcMod

-----------------------------------------------------------------------------
(* The bundle under execution.                                             *)

\* The fields of the bundle under execution: its instructions, the moveix
\* immediate, the displacement and its length of one or two words.
LEMMA BundleType ==
  ASSUME TypeOK
  PROVE  /\ First \in Instr /\ Second \in Instr
         /\ \A slot \in {0, 1} : Op(slot) \in Instr
         /\ Imm24 \in ExtImms
         /\ BranchImm \in Nat
         /\ BundleSize(First) \in {1, 2}
<1>1. First \in Instr /\ Second \in Instr
  BY DatapathAssumption DEF TypeOK, First, Second
<1>2. Imm24 \in ExtImms /\ Imm24 \in Nat
  <2>1. Imm24 \in ExtImms
    BY DEF TypeOK, Imm24, ExtImms, First, Second
  <2>2. Imm24 \in Nat
    BY <1>1, SizesAssumption DEF Imm24, ExtImm, Instr
  <2>3. QED
    BY <2>1, <2>2
<1>3. BranchImm \in Nat
  <2>1. First.imm \in Nat /\ ImmRadix \in Nat /\ Imm24 \in Nat
    BY <1>1, <1>2, SizesAssumption DEF Instr
  <2>2. QED
    BY <2>1 DEF BranchImm, Displacement, Imm24
<1>4. QED
  BY <1>1, <1>2, <1>3 DEF Op, BundleSize

\* Clearing the zero register on entry of execute_unit yields a register file.
LEMMA ZeroedType ==
  ASSUME NEW r \in [Reg -> Word]
  PROVE  Zeroed(r) \in [Reg -> Word]
BY ZeroWord DEF Zeroed

\* What the data path yields for either opcode of the bundle.
LEMMA DatapathType ==
  ASSUME TypeOK, NEW slot \in {0, 1}, NEW u \in Word, NEW v \in Word
  PROVE  /\ Alu(Op(slot), Imm24, u, v) \in Word
         /\ Src2(Op(slot), Imm24, v) \in Word
         /\ Addr(Op(slot), Imm24, u, v) \in Word
         /\ Map(Addr(Op(slot), Imm24, u, v)) \in Loc
<1>1. PICK w \in Cell : Op(slot) = Decode(w)
  BY DEF Op, First, Second, TypeOK
<1>2. Imm24 \in ExtImms
  BY BundleType
<1>3. QED
  BY <1>1, <1>2, DatapathAssumption

\* What a load and a store of the bundle yield.
LEMMA AccessType ==
  ASSUME TypeOK, NEW slot \in {0, 1}, Op(slot).op \in 32 .. 43
  PROVE  /\ AccessBase(Op(slot)) \in Loc
         /\ InRegion(Op(slot), AccessBase(Op(slot))) =>
              /\ \A old \in Word : Loaded(Op(slot), AccessBase(Op(slot)), mem, old) \in Word
              /\ \A v \in Word :
                   Stored(Op(slot), AccessBase(Op(slot)), mem, v) \in [Loc -> Cell]
<1> DEFINE i == Op(slot)
           l == AccessBase(i)
<1>1. i \in Instr
  BY BundleType
<1>2. l \in Loc
  <2>1. Zeroed(gpi) \in [Reg -> Word]
    BY ZeroedType DEF TypeOK
  <2>2. BaseReg(i) \in Reg /\ i.c \in Reg
    BY <1>1, SizesAssumption DEF BaseReg, Instr, Reg
  <2>3. Zeroed(gpi)[BaseReg(i)] \in Word /\ Zeroed(gpi)[i.c] \in Word
    BY <2>1, <2>2
  <2>4. QED
    BY <2>3, DatapathType DEF AccessBase
<1>3. i.size \in {1, 2}
  BY <1>1 DEF Instr
<1>4. ASSUME InRegion(i, l), NEW old \in Word
      PROVE  Loaded(i, l, mem, old) \in Word
  <2>1. CASE i.size = 1
    <3>1. mem[l] \in Cell /\ old \div B \in Cell
      BY <1>2, <1>4, HighCell DEF TypeOK
    <3>2. mem[l] + B * (old \div B) \in Word
      BY <3>1, JoinCells
    <3>3. QED
      BY <2>1, <3>2 DEF Loaded
  <2>2. CASE i.size = 2
    <3>1. mem[l] \in Cell /\ mem[NextCell(l)] \in Cell
      BY <1>2, <1>4, <2>2 DEF TypeOK, InRegion
    <3>2. mem[l] + B * mem[NextCell(l)] \in Word
      BY <3>1, JoinCells
    <3>3. QED
      BY <2>2, <3>2 DEF Loaded
  <2>3. QED
    BY <1>3, <2>1, <2>2
<1>5. ASSUME InRegion(i, l), NEW v \in Word
      PROVE  Stored(i, l, mem, v) \in [Loc -> Cell]
  <2>1. v % B \in Cell /\ v \div B \in Cell
    <3>1. v \in Int /\ B \in Nat \ {0}
      BY SizesAssumption DEF Word, WordMod
    <3>2. QED
      BY <3>1, ModRange, HighCell, <1>5 DEF Cell
  <2>2. QED
    BY <2>1, <1>2, <1>3, <1>5 DEF Stored, TypeOK
<1>6. QED
  BY <1>2, <1>4, <1>5

-----------------------------------------------------------------------------
(* Type correctness.                                                       *)

\* Ending the process keeps the state in its types.
LEMMA StopType ==
  ASSUME TypeOK, NEW why \in {"exit", "abort", "wild"}, Stop(why)
  PROVE  TypeOK'
BY DEF Stop, TypeOK, flow, counters, latch

\* Leaving a slot leads to a phase of the run loop.
LEMMA SlotDoneType ==
  ASSUME NEW slot \in {0, 1}, SlotDone(slot)
  PROVE  phase' \in {"slot1", "retire"}
BY DEF SlotDone

\* An instruction keeps the types when it keeps them for what it writes.
LEMMA SlotType ==
  ASSUME TypeOK, NEW slot \in {0, 1}, ExecuteSlot(slot)
  PROVE  TypeOK'
<1> DEFINE i == Op(slot)
           r == Zeroed(gpi)
<1>1. i \in Instr
  BY BundleType
<1>2. r \in [Reg -> Word] /\ Zeroed(gpf) \in [Reg -> Word]
  BY ZeroedType DEF TypeOK
<1>3. r[i.a] \in Word /\ r[i.b] \in Word /\ r[i.c] \in Word /\ Zeroed(gpf)[i.a] \in Word
  BY <1>1, <1>2 DEF Instr
<1>4. CASE ExecuteAluResult(slot)
  <2>1. Alu(i, Imm24, r[i.b], IF i.op = AX_EXE_ALU_INS THEN r[i.a] ELSE r[i.c]) \in Word
    BY <1>3, DatapathType
  <2>2. gpi' \in [Reg -> Word] /\ gpf' \in [Reg -> Word]
    BY <1>2, <1>4, <2>1 DEF ExecuteAluResult
  <2>3. QED
    BY <1>4, <2>2, SlotDoneType DEF ExecuteAluResult, TypeOK, flow, counters, latch
<1>5. CASE ExecuteCmove(slot)
  <2>1. Alu(i, Imm24, r[i.b], r[i.c]) \in Word
    BY <1>3, DatapathType
  <2>2. gpi' \in [Reg -> Word] /\ gpf' \in [Reg -> Word]
    BY <1>2, <1>5, <2>1 DEF ExecuteCmove
  <2>3. QED
    BY <1>5, <2>2, SlotDoneType DEF ExecuteCmove, TypeOK, flow, counters, latch
<1>6. CASE ExecuteCmp(slot)
  <2>1. gpi' \in [Reg -> Word] /\ gpf' \in [Reg -> Word]
    BY <1>2, <1>6 DEF ExecuteCmp, ClearZeroRegs
  <2>2. fr' \in Flags
    BY <1>6 DEF ExecuteCmp, CmpFlags, Flags
  <2>3. QED
    BY <1>6, <2>1, <2>2, SlotDoneType DEF ExecuteCmp, TypeOK, flow, counters, latch
<1>7. CASE ExecuteNop(slot)
  <2>1. gpi' \in [Reg -> Word] /\ gpf' \in [Reg -> Word]
    BY <1>2, <1>7 DEF ExecuteNop, ClearZeroRegs
  <2>2. QED
    BY <1>7, <2>1, SlotDoneType DEF ExecuteNop, TypeOK, flow, counters, latch
<1>8. CASE ExecuteLoad(slot)
  <2>1. i.op \in 32 .. 43 /\ InRegion(i, AccessBase(i))
    BY <1>8 DEF ExecuteLoad, LoadOps, FLoadOps
  <2>2. \A old \in Word : Loaded(i, AccessBase(i), mem, old) \in Word
    BY <2>1, AccessType
  <2>3. /\ Loaded(i, AccessBase(i), mem, r[i.a]) \in Word
        /\ Loaded(i, AccessBase(i), mem, Zeroed(gpf)[i.a]) \in Word
    BY <2>2, <1>3
  <2>4. gpi' \in [Reg -> Word] /\ gpf' \in [Reg -> Word]
    BY <1>2, <1>8, <2>3 DEF ExecuteLoad
  <2>5. QED
    BY <1>8, <2>4, SlotDoneType DEF ExecuteLoad, TypeOK, flow, counters, latch
<1>9. CASE ExecuteStore(slot)
  <2>1. i.op \in 32 .. 43 /\ InRegion(i, AccessBase(i))
    BY <1>9 DEF ExecuteStore, StoreOps, FStoreOps
  <2>2. \A v \in Word : Stored(i, AccessBase(i), mem, v) \in [Loc -> Cell]
    BY <2>1, AccessType
  <2>3. mem' \in [Loc -> Cell]
    BY <2>2, <1>3, <1>9 DEF ExecuteStore
  <2>4. gpi' \in [Reg -> Word] /\ gpf' \in [Reg -> Word]
    BY <1>2, <1>9 DEF ExecuteStore, ClearZeroRegs
  <2>5. QED
    BY <1>9, <2>3, <2>4, SlotDoneType DEF ExecuteStore, TypeOK, flow, counters, latch
<1>10. CASE AccessOutside(slot) \/ AssertFails(slot)
  BY <1>10, StopType DEF AccessOutside, AssertFails
<1>11. QED
  BY <1>4, <1>5, <1>6, <1>7, <1>8, <1>9, <1>10 DEF ExecuteSlot

\* The units only slot 0 may use, MDU and BRU, keep the types.
LEMMA Slot0Type ==
  ASSUME TypeOK, ExecuteSlot0Only
  PROVE  TypeOK'
<1> DEFINE r == Zeroed(gpi)
<1>1. First \in Instr /\ First = Op(0)
  BY BundleType DEF Op
<1>2. r \in [Reg -> Word] /\ Zeroed(gpf) \in [Reg -> Word]
  BY ZeroedType DEF TypeOK
<1>3. r[First.b] \in Word /\ r[First.c] \in Word
  BY <1>1, <1>2 DEF Instr
<1>4. BranchImm \in Nat /\ BundleSize(First) \in {1, 2}
  BY BundleType
<1>5. CASE ExecuteDivMul
  <2>1. Divisor \in Word
    BY <1>1, <1>3, DatapathType DEF Divisor
  <2>2. SizeMod(First) \in Nat \ {0} /\ SizeMod(First) <= WordMod
    <3>1. B \in Nat /\ B >= 1
      BY SizesAssumption
    <3>2. B * B >= B /\ B * B \in Nat
      BY <3>1
    <3>3. QED
      BY <3>1, <3>2 DEF SizeMod, WordMod
  <2>3. \A x \in Int : x % SizeMod(First) \in Word
    <3> TAKE x \in Int
    <3>1. x % SizeMod(First) \in 0 .. SizeMod(First) - 1
      BY <2>2, ModRange
    <3>2. WordMod \in Int
      BY SizesAssumption DEF WordMod
    <3>3. QED
      BY <2>2, <3>1, <3>2 DEF Word
  <2>4. First.op \in DivOps =>
          /\ (r[First.b] \div Divisor) \in Int
          /\ (r[First.b] % Divisor) \in Int
    <3>1. r[First.b] \in Nat /\ Divisor \in Nat
      BY <1>3, <2>1, SizesAssumption DEF Word, WordMod
    <3>2. First.op \in DivOps => Divisor # 0
      BY <1>5 DEF ExecuteDivMul
    <3>3. QED
      BY <3>1, <3>2
  <2>5. (r[First.b] * Divisor) \in Int
    BY <1>3, <2>1, SizesAssumption DEF Word, WordMod
  <2>6. mdu' \in [0 .. 3 -> Word]
    <3>1. CASE First.op \in DivOps
      BY <3>1, <1>5, <2>3, <2>4 DEF ExecuteDivMul, TypeOK
    <3>2. CASE First.op \notin DivOps
      BY <3>2, <1>5, <2>3, <2>5 DEF ExecuteDivMul, TypeOK
    <3>3. QED
      BY <3>1, <3>2
  <2>7. gpi' \in [Reg -> Word] /\ gpf' \in [Reg -> Word]
    BY <1>2, <1>5 DEF ExecuteDivMul, ClearZeroRegs
  <2>8. QED
    BY <1>5, <2>6, <2>7, SlotDoneType DEF ExecuteDivMul, TypeOK, flow, counters, latch
<1>6. CASE DivideByZero
  BY <1>6, StopType DEF DivideByZero
<1>7. CASE ExecuteMduMove
  <2>1. First.pq \in 0 .. 3 /\ mdu[First.pq] \in Word
    BY <1>1 DEF Instr, TypeOK
  <2>2. gpi' \in [Reg -> Word] /\ gpf' \in [Reg -> Word] /\ mdu' \in [0 .. 3 -> Word]
    BY <1>2, <1>3, <1>7, <2>1 DEF ExecuteMduMove, TypeOK
  <2>3. QED
    BY <1>7, <2>2, SlotDoneType DEF ExecuteMduMove, TypeOK, flow, counters, latch
<1>8. CASE ExecuteBranch
  <2>1. pc' \in Pc
    <3>1. pc \in Pc /\ pc \in Int
      BY DEF TypeOK, Pc
    <3>2. PcAdd(pc, BranchImm) \in Pc
      BY <1>4, <3>1, PcAddType
    <3>3. QED
      BY <1>8, <3>1, <3>2 DEF ExecuteBranch
  <2>2. lc' \in Nat
    BY <1>8 DEF ExecuteBranch, TypeOK
  <2>3. gpi' \in [Reg -> Word] /\ gpf' \in [Reg -> Word]
    BY <1>2, <1>8 DEF ExecuteBranch, ClearZeroRegs
  <2>4. QED
    BY <1>8, <2>1, <2>2, <2>3, SlotDoneType DEF ExecuteBranch, TypeOK, counters, latch
<1>9. CASE ExecuteJump
  <2>1. pc' \in Pc
    BY <1>4, <1>9, PcAddType DEF ExecuteJump
  <2>2. gpi' \in [Reg -> Word] /\ gpf' \in [Reg -> Word]
    BY <1>2, <1>9 DEF ExecuteJump, ClearZeroRegs
  <2>3. QED
    BY <1>9, <2>1, <2>2, SlotDoneType DEF ExecuteJump, TypeOK, counters, latch
<1>10. CASE ExecuteCall
  <2>1. pc \in Int
    BY DEF TypeOK, Pc
  <2>2. pc' \in Pc /\ lr' \in Pc
    BY <1>4, <1>10, <2>1, PcAddType DEF ExecuteCall, ReturnAddress
  <2>3. gpi' \in [Reg -> Word] /\ gpf' \in [Reg -> Word]
    BY <1>2, <1>10 DEF ExecuteCall, ClearZeroRegs
  <2>4. QED
    BY <1>10, <2>2, <2>3, SlotDoneType DEF ExecuteCall, TypeOK, counters, latch
<1>11. CASE ExecuteReturn
  <2>1. gpi' \in [Reg -> Word] /\ gpf' \in [Reg -> Word]
    BY <1>2, <1>11 DEF ExecuteReturn, ClearZeroRegs
  <2>2. QED
    BY <1>11, <2>1, SlotDoneType DEF ExecuteReturn, TypeOK, counters, latch
<1>12. CASE ExecuteSyscall
  <2>1. TrapVector \in Pc
    BY SizesAssumption DEF TrapVector, Pc, PcMod
  <2>2. gpi' \in [Reg -> Word] /\ gpf' \in [Reg -> Word]
    BY <1>2, <1>12 DEF ExecuteSyscall, ClearZeroRegs
  <2>3. QED
    BY <1>12, <2>1, <2>2, SlotDoneType DEF ExecuteSyscall, TypeOK, counters, latch
<1>13. QED
  BY <1>5, <1>6, <1>7, <1>8, <1>9, <1>10, <1>11, <1>12 DEF ExecuteSlot0Only

\* The run loop around the slots: fetch, retire and the system calls.
LEMMA LoopType ==
  ASSUME TypeOK, Fetch \/ FetchOutside \/ Retire \/ Emulate \/ SysGetchar
  PROVE  TypeOK'
<1>1. CASE Fetch
  <2>1. op1' \in Cell /\ op2' \in Cell
    BY <1>1 DEF Fetch, HasBundle, TypeOK
  <2>2. QED
    BY <1>1, <2>1 DEF Fetch, TypeOK, flow, counters
<1>2. CASE FetchOutside \/ SysExit
  BY <1>2, StopType DEF FetchOutside, SysExit
<1>3. CASE Retire
  <2>1. Count \in {0, 1, 2}
    BY DEF Count, BundleSize
  <2>2. cc \in Int /\ ic \in Int /\ pc \in Int /\ Count \in Int
    BY <2>1, SizesAssumption, CoreAssumption DEF TypeOK, Pc, PcMod
  <2>3. pc' \in Pc
    BY <1>3, <2>2, PcAddType DEF Retire
  <2>4. (cc + 1) % CountMod \in 0 .. CountMod - 1
    BY <2>2, ModRange, CoreAssumption
  <2>5. (ic + Count) % CountMod \in 0 .. CountMod - 1
    BY <2>2, ModRange, CoreAssumption
  <2>6. QED
    BY <1>3, <2>3, <2>4, <2>5 DEF Retire, TypeOK, latch
<1>4. CASE NoSyscall \/ SysOther
  BY <1>4 DEF NoSyscall, SysOther, EmulDone, TypeOK, flow, counters, latch
<1>5. CASE SysPuts
  <2>1. CASE EmulDone /\ UNCHANGED gpi
    BY <2>1 DEF EmulDone, TypeOK, flow, counters, latch
  <2>2. QED
    BY <1>5, <2>1, StopType DEF SysPuts
<1>6. CASE SysClear
  <2>1. gpi' \in [Reg -> Word]
    BY <1>6, ZeroWord DEF SysClear, TypeOK
  <2>2. QED
    BY <1>6, <2>1 DEF SysClear, EmulDone, TypeOK, flow, counters, latch
<1>7. CASE SysGetchar
  <2>1. gpi' \in [Reg -> Word]
    BY <1>7, CoreAssumption DEF SysGetchar, TypeOK
  <2>2. QED
    BY <1>7, <2>1 DEF SysGetchar, EmulDone, TypeOK, flow, counters, latch
<1>8. QED
  BY <1>1, <1>2, <1>3, <1>4, <1>5, <1>6, <1>7 DEF Emulate

\* The state RegisterSet's initialisers leave is well typed.
LEMMA InitType == Init => TypeOK
<1> SUFFICES ASSUME Init PROVE TypeOK
  OBVIOUS
<1>1. 0 \in Pc /\ pc \in Pc
  BY SizesAssumption, CoreAssumption DEF Init, Pc, PcMod
<1>2. 0 \in 0 .. CountMod - 1
  BY CoreAssumption
<1>3. 0 \in Cell
  BY SizesAssumption DEF Cell
<1>4. gpi \in [Reg -> Word] /\ gpf \in [Reg -> Word] /\ mdu \in [0 .. 3 -> Word]
  BY ZeroWord DEF Init
<1>5. fr \in Flags
  BY DEF Init, Flags
<1>6. mem \in [Loc -> Cell]
  BY CoreAssumption DEF Init
<1>7. QED
  BY <1>1, <1>2, <1>3, <1>4, <1>5, <1>6 DEF Init, TypeOK

\* Every step of the run loop keeps the types.
LEMMA NextType == TypeOK /\ [Next]_vars => TypeOK'
<1> SUFFICES ASSUME TypeOK, [Next]_vars PROVE TypeOK'
  OBVIOUS
<1>1. CASE UNCHANGED vars
  BY <1>1 DEF vars, TypeOK, flow, counters, latch
<1>2. CASE Next
  BY <1>2, SlotType, Slot0Type, LoopType DEF Next, RunLoop
<1>3. QED
  BY <1>1, <1>2

\* Registers, counters, pc and memory stay within their machine words for any
\* word size, any program and any data path and memory map that stay in theirs.
THEOREM TypeCorrect == Spec => []TypeOK
BY InitType, NextType, PTL DEF Spec

-----------------------------------------------------------------------------
(* Traps and alignment.  Only the branch unit touches what control depends *)
(* on, and only from slot 0.                                               *)

\* The trap vector is an address.
LEMMA VectorInPc == TrapVector \in Pc /\ PcAdd(TrapVector, 0) = TrapVector
BY SizesAssumption DEF TrapVector, PcAdd, Pc, PcMod

\* Adding nothing to pc leaves it alone.
LEMMA PcAddZero ==
  ASSUME NEW p \in Pc
  PROVE  PcAdd(p, 0) = p
BY SizesAssumption DEF PcAdd, Pc, PcMod

\* ALU and LSU instructions leave the control state alone.
LEMMA SlotControl ==
  ASSUME NEW slot \in {0, 1}, ExecuteSlot(slot)
  PROVE  /\ UNCHANGED <<flow, msys, latch>>
         /\ phase = SlotPhase(slot)
         /\ phase' = phase \/ phase' \in {"slot1", "retire"}
<1>1. CASE AccessOutside(slot) \/ AssertFails(slot)
  BY <1>1 DEF AccessOutside, AssertFails, Stop, Issued
<1>2. CASE ExecuteLoad(slot) \/ ExecuteStore(slot)
  BY <1>2, SlotDoneType DEF ExecuteLoad, ExecuteStore, Issued
<1>3. CASE \/ ExecuteAluResult(slot) \/ ExecuteCmove(slot)
           \/ ExecuteCmp(slot) \/ ExecuteNop(slot)
  BY <1>3, SlotDoneType DEF ExecuteAluResult, ExecuteCmove, ExecuteCmp, ExecuteNop, Issued
<1>4. QED
  BY <1>1, <1>2, <1>3 DEF ExecuteSlot

\* The system call emulation leaves it alone too and hands over to a fetch.
LEMMA EmulateControl ==
  ASSUME Emulate \/ SysGetchar
  PROVE  /\ UNCHANGED <<flow, latch>>
         /\ \/ phase' = "fetch" /\ msys' = 0
            \/ phase' = phase /\ msys' = msys
<1>1. CASE SysGetchar \/ SysClear \/ NoSyscall \/ SysOther
  BY <1>1 DEF SysGetchar, SysClear, NoSyscall, SysOther, EmulDone
<1>2. CASE SysPuts \/ SysExit
  BY <1>2 DEF SysPuts, SysExit, EmulDone, Stop
<1>3. QED
  BY <1>1, <1>2 DEF Emulate

\* TrapPending is not inductive: the step that raises the call needs that slot
\* 0 starts with pc at the bundle and no call pending, and the retiring step
\* that pc is still the vector.
TrapInv ==
  /\ TrapPending
  /\ phase = "slot0" => pc = old_pc
  /\ msys = 1 /\ phase \in {"slot1", "retire"} => pc = TrapVector

\* No system call is pending at the start.
LEMMA InitTrap == Init => TrapInv
BY DEF Init, TrapInv, TrapPending

\* Every step of the run loop keeps the strengthened trap invariant.
LEMMA NextTrap == TypeOK /\ TrapInv /\ [Next]_vars => TrapInv'
<1> SUFFICES ASSUME TypeOK, TrapInv, [Next]_vars PROVE TrapInv'
  OBVIOUS
<1> USE DEF TrapInv, TrapPending
<1>1. CASE UNCHANGED vars
  BY <1>1 DEF vars, flow, latch, First
<1>2. ASSUME NEW slot \in {0, 1}, ExecuteSlot(slot) PROVE TrapInv'
  BY <1>2, SlotControl DEF flow, latch, First, SlotPhase
<1>3. CASE DivideByZero
  BY <1>3 DEF DivideByZero, Stop, flow, latch, First
<1>4. CASE ExecuteDivMul \/ ExecuteMduMove
  BY <1>4, SlotDoneType DEF ExecuteDivMul, ExecuteMduMove, Issued, SlotPhase, flow, latch, First
<1>5. CASE ExecuteBranch \/ ExecuteJump \/ ExecuteCall \/ ExecuteReturn
  <2>1. phase = "slot0" /\ phase' \in {"slot1", "retire"} /\ msys' = msys
    BY <1>5, SlotDoneType DEF ExecuteBranch, ExecuteJump, ExecuteCall, ExecuteReturn,
                              Issued, SlotPhase
  <2>2. msys = 0
    BY <2>1 DEF TypeOK
  <2>3. QED
    BY <2>1, <2>2
<1>6. CASE ExecuteSyscall
  <2>1. phase' \in {"slot1", "retire"} /\ First' = First
    BY <1>6, SlotDoneType DEF ExecuteSyscall, latch, First
  <2>2. QED
    BY <1>6, <2>1 DEF ExecuteSyscall, Issued, SlotPhase, latch
<1>7. CASE Fetch
  BY <1>7 DEF Fetch, TypeOK, flow
<1>8. CASE FetchOutside
  BY <1>8 DEF FetchOutside, Stop, flow, latch, First
<1>9. CASE Retire
  <2>1. phase = "retire" /\ phase' = "emul" /\ msys' = msys /\ ir' = ir
        /\ old_pc' = old_pc /\ First' = First /\ pc' = PcAdd(pc, Count)
    BY <1>9 DEF Retire, latch, First
  <2>2. CASE msys = 1
    <3>1. pc = TrapVector /\ ir = old_pc
      BY <2>1, <2>2
    <3>2. CASE pc # old_pc
      <4>1. Count = 0
        BY <3>2 DEF Count
      <4>2. pc' = TrapVector
        BY <2>1, <3>1, <4>1, VectorInPc
      <4>3. QED
        BY <2>1, <2>2, <4>2
    <3>3. CASE pc = old_pc
      <4>1. pc' = PcAdd(TrapVector, BundleSize(First))
        BY <2>1, <3>1, <3>3 DEF Count
      <4>2. QED
        BY <2>1, <2>2, <3>1, <3>3, <4>1
    <3>4. QED
      BY <3>2, <3>3
  <2>3. CASE msys # 1
    BY <2>1, <2>3
  <2>4. QED
    BY <2>2, <2>3
<1>10. CASE Emulate \/ SysGetchar
  BY <1>10, EmulateControl DEF flow, latch, First
<1>11. QED
  BY <1>1, <1>2, <1>3, <1>4, <1>5, <1>6, <1>7, <1>8, <1>9, <1>10
  DEF Next, RunLoop, ExecuteSlot0Only

\* A pending system call is always the one of the bundle just executed, its
\* address is in ir and pc is at the vector, or one bundle past it when the
\* SYSCALL sits at the vector itself; a call is never lost or served twice.
THEOREM TrapSafety == Spec => []TrapPending
<1>1. TrapInv => TrapPending
  BY DEF TrapInv
<1>2. QED
  BY <1>1, TypeCorrect, InitTrap, NextTrap, PTL DEF Spec

\* One step keeps the core aligned with any closed set of bundle addresses.
LEMMA AlignedStep ==
  ASSUME TypeOK, NEW s, Closed(s, mem), Aligned(s), [Next]_vars
  PROVE  Aligned(s)'
<1> USE DEF Aligned
<1>1. CASE UNCHANGED vars
  BY <1>1 DEF vars, flow, latch, First, Second
<1>2. ASSUME NEW slot \in {0, 1}, ExecuteSlot(slot) PROVE Aligned(s)'
  <2>1. First' = First /\ Second' = Second /\ UNCHANGED <<pc, lr, br, ir, old_pc>>
    BY <1>2, SlotControl DEF flow, latch, First, Second
  <2>2. phase \in {"slot0", "slot1"} /\ (phase' = phase \/ phase' \in {"slot1", "retire"})
    BY <1>2, SlotControl DEF SlotPhase
  <2>3. QED
    BY <2>1, <2>2
<1>3. CASE DivideByZero
  BY <1>3 DEF DivideByZero, Stop, flow, latch, First, Second
<1>4. CASE ExecuteDivMul \/ ExecuteMduMove
  BY <1>4, SlotDoneType
  DEF ExecuteDivMul, ExecuteMduMove, Issued, SlotPhase, flow, latch, First, Second
<1>5. CASE \/ ExecuteBranch \/ ExecuteJump \/ ExecuteCall \/ ExecuteReturn
           \/ ExecuteSyscall
  <2>1. /\ phase = "slot0" /\ phase' \in {"slot1", "retire"}
        /\ old_pc' = old_pc /\ First' = First
    BY <1>5, SlotDoneType DEF ExecuteBranch, ExecuteJump, ExecuteCall, ExecuteReturn,
                              ExecuteSyscall, Issued, SlotPhase, latch, First
  <2>2. ClosedAt(s, pc, First, Second) /\ pc \in s /\ PcAdd(pc, BundleSize(First)) \in s
    BY <2>1
  <2>3. pc' \in s /\ lr' \in s /\ br' \in s /\ ir' \in s
    <3>1. CASE ExecuteBranch
      BY <3>1, <2>2 DEF ExecuteBranch, ClosedAt, BranchImm
    <3>2. CASE ExecuteJump
      BY <3>2, <2>2 DEF ExecuteJump, ClosedAt, BranchImm
    <3>3. CASE ExecuteCall
      BY <3>3, <2>2 DEF ExecuteCall, ReturnAddress, ClosedAt, BranchImm
    <3>4. CASE ExecuteReturn
      BY <3>4 DEF ExecuteReturn
    <3>5. CASE ExecuteSyscall
      BY <3>5 DEF ExecuteSyscall, Closed
    <3>6. QED
      BY <1>5, <3>1, <3>2, <3>3, <3>4, <3>5
  <2>4. QED
    BY <2>1, <2>3
<1>6. CASE Fetch
  <2>1. First' = FirstAt(mem, pc) /\ Second' = SecondAt(mem, pc)
    BY <1>6 DEF Fetch, First, Second, FirstAt, SecondAt
  <2>2. ClosedAt(s, pc, FirstAt(mem, pc), SecondAt(mem, pc))
    BY <1>6 DEF Fetch, Closed
  <2>3. UNCHANGED <<pc, lr, br, ir>> /\ old_pc' = pc /\ phase' = "slot0"
    BY <1>6 DEF Fetch, flow
  <2>4. ClosedAt(s, pc, First', Second') /\ PcAdd(pc, BundleSize(First')) \in s
    BY <2>1, <2>2 DEF ClosedAt
  <2>5. QED
    BY <2>3, <2>4 DEF ClosedAt
<1>7. CASE FetchOutside
  BY <1>7 DEF FetchOutside, Stop, flow, latch, First, Second
<1>8. CASE Retire
  <2>1. pc' = PcAdd(pc, Count) /\ phase = "retire" /\ phase' = "emul"
        /\ UNCHANGED <<lr, br, ir>>
    BY <1>8 DEF Retire
  <2>2. pc' \in s
    <3>1. CASE pc # old_pc
      <4>1. Count = 0 /\ pc \in Pc
        BY <3>1 DEF Count, TypeOK
      <4>2. QED
        BY <2>1, <4>1, PcAddZero
    <3>2. CASE pc = old_pc
      BY <3>2, <2>1 DEF Count
    <3>3. QED
      BY <3>1, <3>2
  <2>3. QED
    BY <2>1, <2>2
<1>9. CASE Emulate \/ SysGetchar
  BY <1>9, EmulateControl DEF flow, latch, First, Second
<1>10. QED
  BY <1>1, <1>2, <1>3, <1>4, <1>5, <1>6, <1>7, <1>8, <1>9
  DEF Next, RunLoop, ExecuteSlot0Only

\* Control never enters the middle of a bundle, whatever the program: from a
\* state aligned with a set of bundle addresses that is closed under the text,
\* every step, a trap or a store into the text included, stays aligned.
THEOREM Alignment == Spec => AlignmentPreserved
<1>1. TypeOK /\ [Next]_vars =>
        [\A s \in StartSets : Closed(s, mem) /\ Aligned(s) => Aligned(s)']_vars
  BY AlignedStep
<1>2. QED
  BY <1>1, TypeCorrect, PTL DEF Spec, AlignmentPreserved

=============================================================================
