---------------------------- MODULE K1Core_proofs -----------------------------
(***************************************************************************)
(* Proofs about K1Core, for every program, every word width and every data *)
(* path that stays within its words.                                       *)
(***************************************************************************)
EXTENDS K1Core, TLAPS

\* Reduction modulo m, as every register of the core does it, stays below m.
LEMMA ModRange ==
  ASSUME NEW n \in Int, NEW m \in Nat \ {0}
  PROVE  n % m \in 0 .. m - 1
OBVIOUS

\* The widths are positive.
LEMMA Widths ==
  /\ PcMod \in Nat \ {0} /\ CountMod \in Nat \ {0} /\ B \in Nat \ {0}
  /\ WordMod \in Nat \ {0} /\ FlagMod \in Nat \ {0}
  /\ PcMod > 3 /\ B <= WordMod /\ PcMod <= WordMod /\ FlagMod <= WordMod /\ CountMod <= WordMod
BY SizeAssumption

\* Adding to pc yields a pc: the 32-bit register wraps.
LEMMA PcAddType ==
  ASSUME NEW p \in Int, NEW d \in Int
  PROVE  PcAdd(p, d) \in Pc
BY ModRange, Widths DEF PcAdd, Pc

\* The fields of the instructions under execution.
LEMMA InstrType ==
  ASSUME TypeOK
  PROVE  /\ First \in Instr /\ Second \in Instr
         /\ \A slot \in {0, 1} : Op(slot) \in Instr
<1>1. First \in Instr /\ Second \in Instr
  BY DatapathAssumption DEF TypeOK, First, Second
<1>2. QED
  BY <1>1 DEF Op

\* A comparison replaces the three low bits of flags and keeps the others.
LEMMA FlagsType ==
  ASSUME flags \in Flags, NEW bits \in 0 .. 7, SetFlags(bits)
  PROVE  flags' \in Flags
<1>1. FlagMod \in Nat /\ FlagMod % 8 = 0
  BY SizeAssumption
<1>2. flags \in Nat /\ flags < FlagMod
  BY <1>1 DEF Flags
<1>3. flags - (flags % 8) + bits \in Nat /\ flags - (flags % 8) + bits < FlagMod
  BY <1>1, <1>2
<1>4. QED
  BY <1>1, <1>3 DEF SetFlags, Flags

\* Ending the process keeps the state in its types.
LEMMA StopType ==
  ASSUME TypeOK, Stop
  PROVE  TypeOK'
BY DEF Stop, TypeOK, regs, links, branch, counters, latch, host

\* Leaving a slot leads to a phase of the loop.
LEMMA SlotDoneType ==
  ASSUME NEW slot \in {0, 1}, SlotDone(slot)
  PROVE  /\ phase' \in {"pair", "stall"}
         /\ UNCHANGED <<pc, ir, syscall, instruction, cycle, opcode1, opcode2, at, files, mode,
                        status>>
BY DEF SlotDone, counters, latch, host

\* A branch carried out with the fetch keeps pc, lr and ir addresses.
LEMMA FetchType ==
  ASSUME TypeOK, Fetch
  PROVE  TypeOK'
<1> USE DEF TypeOK
<1>1. cycle' \in 0 .. CountMod - 1 /\ instruction' \in 0 .. CountMod - 1
  <2>1. cycle + 1 \in Int /\ instruction + 1 \in Int
    BY Widths
  <2>2. QED
    BY <2>1, ModRange, Widths DEF Fetch
<1>2. opcode1' \in Cell /\ at' \in Pc /\ delay' \in {0, 1}
  BY DEF Fetch, InWram, ClearDelay
<1>3. \A p \in Pc : p \in Int /\ PcAdd(p, 1) \in Pc /\ PcAdd(p, imm) \in Pc
  BY Widths, PcAddType DEF Pc
<1>4. /\ pc' \in Pc /\ lr' \in Pc /\ ir' \in Pc
      /\ syscall' \in 0 .. 2 /\ ireg' \in [Reg -> Word]
  <2>1. CASE NoBranch \/ DelayedBranch
    BY <2>1, <1>3 DEF NoBranch, DelayedBranch, Land
  <2>2. CASE DelayedLoop
    <3>1. ireg[LoopReg] \in Word
      BY SizeAssumption
    <3>2. ireg[LoopReg] # 0 => ireg[LoopReg] - 1 \in Word
      BY <3>1, Widths DEF Word
    <3>3. pc' \in Pc /\ lr' \in Pc /\ ir' \in Pc /\ syscall' \in 0 .. 2
      BY <2>2, <1>3 DEF DelayedLoop, Land
    <3>4. ireg' \in [Reg -> Word]
      BY <2>2, <3>2 DEF DelayedLoop
    <3>5. QED
      BY <3>3, <3>4
  <2>3. CASE DelayedJump \/ DelayedCall
    <3>1. Target \in Pc
      BY <1>3 DEF Target
    <3>2. QED
      BY <2>3, <3>1, <1>3 DEF DelayedJump, DelayedCall, Link, Land
  <2>4. CASE DelayedReturn
    BY <2>4, <1>3 DEF DelayedReturn, Land
  <2>5. CASE DelayedTrap
    <3>1. PcAdd(2, 1) \in Pc /\ PcAdd(0, 1) \in Pc
      BY PcAddType
    <3>2. QED
      BY <2>5, <3>1 DEF DelayedTrap, Land
  <2>6. QED
    BY <2>1, <2>2, <2>3, <2>4, <2>5 DEF Fetch
<1>5. QED
  BY <1>1, <1>2, <1>4 DEF Fetch, host

\* What both units execute keeps the types.
LEMMA SlotType ==
  ASSUME TypeOK, NEW slot \in {0, 1}, ExecuteSlot(slot)
  PROVE  TypeOK'
<1> USE DEF TypeOK
<1>1. /\ SlotDone(slot)
      /\ UNCHANGED <<vreg, lr, br, imm, delay, delayop, error, mem>>
  BY DEF ExecuteSlot, ExecuteResult, ExecuteSext, ExecuteSet, ExecuteNop, branch, regs
<1>2. /\ phase' \in {"pair", "stall"}
      /\ UNCHANGED <<pc, ir, syscall, instruction, cycle, opcode1, opcode2, at, files, mode, status>>
  BY <1>1, SlotDoneType
<1>3. PICK w \in Cell : Op(slot) = Decode(w)
  BY DEF Op, First, Second
<1>4. Op(slot) \in Instr
  BY InstrType
<1>5. Op(slot).a \in Reg /\ Op(slot).b \in Reg /\ Op(slot).c \in Reg
  BY <1>4 DEF Instr
<1>6. ireg' \in [Reg -> Word] /\ flags' \in Flags
  <2>1. CASE ExecuteResult(slot)
    <3>1. \A u, v \in Word : Alu(Op(slot), u, v) \in Word
      BY <1>3, <2>1, DatapathAssumption DEF ExecuteResult, ResultOps
    <3>2. Alu(Op(slot), ireg[IF Op(slot).unit = SMOVE THEN Op(slot).a ELSE Op(slot).b],
              ireg[Op(slot).c]) \in Word
      BY <3>1, <1>5
    <3>3. QED
      BY <2>1, <3>2, <1>5 DEF ExecuteResult
  <2>2. CASE ExecuteSext(slot)
    <3>1. \A u, v \in Word : Alu(Op(slot), u, v) \in Word
      BY <1>3, <2>2, DatapathAssumption DEF ExecuteSext, SEXT
    <3>2. Alu(Op(slot), ireg[Op(slot).b], 0) \in Word
      <4>1. 0 \in Word /\ ireg[Op(slot).b] \in Word
        BY <1>5, Widths DEF Word
      <4>2. QED
        BY <3>1, <4>1
    <3> DEFINE v == Alu(Op(slot), ireg[Op(slot).b], 0)
    <3>3. ireg' = [ireg EXCEPT ![Op(slot).b] = v, ![Op(slot).a] = v] /\ flags' = flags
      BY <2>2 DEF ExecuteSext
    <3>4. v \in Word
      BY <3>2
    <3> HIDE DEF v
    <3>5. [ireg EXCEPT ![Op(slot).b] = v] \in [Reg -> Word]
      BY <3>4, <1>5
    <3>6. QED
      BY <3>3, <3>4, <3>5, <1>5
  <2>3. CASE ExecuteSet(slot)
    <3>1. \A u, v \in Word : FlagBits(Op(slot), u, v) \in 0 .. 7
      BY <1>3, <2>3, DatapathAssumption DEF ExecuteSet, SetOps
    <3>2. FlagBits(Op(slot), ireg[Op(slot).a], ireg[Op(slot).b]) \in 0 .. 7
      BY <3>1, <1>5
    <3>3. flags' \in Flags
      BY <2>3, <3>2, FlagsType DEF ExecuteSet
    <3>4. QED
      BY <2>3, <3>3 DEF ExecuteSet
  <2>4. CASE ExecuteNop(slot)
    BY <2>4 DEF ExecuteNop, regs
  <2>5. QED
    BY <2>1, <2>2, <2>3, <2>4 DEF ExecuteSlot
<1>7. QED
  BY <1>1, <1>2, <1>6

\* The cells of an access lie in the memories, and a lane register holds as
\* many as a vector access moves.
LEMMA AccessType ==
  ASSUME TypeOK, InRegion, First.unit \in 32 .. 47
  PROVE  /\ CellCount \in {1, 2, 4, 8, 12, 16}
         /\ \A k \in Moved : Beyond(Place, k) \in Loc /\ First.a + k \in Lane
         /\ MemRead \in [Loc -> Cell]
<1>1. First.a \in Reg /\ First.size \in 0 .. 3
  BY InstrType DEF Instr, Quad, Lanes
<1>2. CellCount \in {1, 2, 4, 8, 12, 16}
  BY <1>1 DEF CellCount, Lanes
<1>3. \A k \in Moved : First.a + k \in Lane
  BY <1>1, <1>2, SizeAssumption DEF Reg, Lane, Lanes, Moved
<1>4. MemRead \in [Loc -> Cell]
  <2>1. InfoWord \in Cell /\ 0 \in Cell
    BY SizeAssumption DEF Cell
  <2>2. QED
    BY <2>1 DEF MemRead, TypeOK
<1>5. QED
  BY <1>2, <1>3, <1>4 DEF InRegion

\* A division, or a read of a special register, yields a word.
LEMMA QuotientType ==
  ASSUME NEW u \in Word, NEW v \in Word, v # 0
  PROVE  u \div v \in Word /\ u % v \in Word
<1>1. u \in Nat /\ v \in Nat \ {0} /\ u < WordMod
  BY Widths DEF Word
<1>2. u \div v \in Nat /\ u \div v <= u /\ u % v \in Nat /\ u % v <= u
  BY <1>1
<1>3. QED
  BY <1>1, <1>2, Widths DEF Word

\* Instructions of unit 0 that write an integer register or a special one.
LEMMA MoveType ==
  ASSUME TypeOK, ExecuteRead \/ ExecuteMoveir \/ ExecuteDiv
  PROVE  TypeOK'
<1> USE DEF TypeOK
<1>1. First.a \in Reg /\ First.b \in Reg /\ First.c \in Reg
  BY InstrType DEF Instr
<1>2. \A r \in Reg : ireg[r] \in Word /\ ireg[r] \in Int
  BY Widths DEF Word
<1>3. CASE ExecuteRead
  <2>1. instruction \in Word /\ cycle \in Word /\ lr \in Word /\ br \in Word /\ flags \in Word
    BY Widths DEF Word, Pc, Flags
  <2>2. (ireg[First.b] * ireg[First.c]) % WordMod \in Word
    <3>1. ireg[First.b] * ireg[First.c] \in Int
      BY <1>1, <1>2
    <3>2. QED
      BY <3>1, ModRange, Widths DEF Word
  <2>3. ireg' \in [Reg -> Word]
    BY <1>3, <1>1, <1>2, <2>1, <2>2 DEF ExecuteRead
  <2>4. SlotDone(0) /\ UNCHANGED <<vreg, flags, lr, br, branch, error, mem>>
    BY <1>3 DEF ExecuteRead
  <2>5. QED
    BY <2>3, <2>4, SlotDoneType DEF branch
<1>4. CASE ExecuteMoveir
  <2>1. ireg[First.a] % PcMod \in Pc /\ ireg[First.a] % FlagMod \in Flags
    BY <1>1, <1>2, ModRange, Widths DEF Pc, Flags
  <2>2. lr' \in Pc /\ br' \in Pc /\ flags' \in Flags
    BY <1>4, <2>1 DEF ExecuteMoveir
  <2>3. SlotDone(0) /\ UNCHANGED <<ireg, vreg, branch, error, mem>>
    BY <1>4 DEF ExecuteMoveir
  <2>4. QED
    BY <2>2, <2>3, SlotDoneType DEF branch
<1>5. CASE ExecuteDiv
  <2>1. CASE Stop
    BY <2>1, StopType
  <2>2. CASE ~Stop
    <3>1. ireg[First.c] # 0 /\ SlotDone(0) /\ UNCHANGED <<vreg, flags, lr, br, branch, error, mem>>
      BY <1>5, <2>2 DEF ExecuteDiv
    <3>2. /\ ireg[First.b] \div ireg[First.c] \in Word
          /\ ireg[First.b] % ireg[First.c] \in Word
      BY <3>1, <1>1, <1>2, QuotientType
    <3>3. ireg' \in [Reg -> Word]
      BY <1>5, <2>2, <3>2, <1>1 DEF ExecuteDiv
    <3>4. QED
      BY <3>1, <3>3, SlotDoneType DEF branch
  <2>3. QED
    BY <2>1, <2>2
<1>6. QED
  BY <1>3, <1>4, <1>5

\* Loads and stores keep registers and memory in their types.
LEMMA MemoryType ==
  ASSUME TypeOK, ExecuteLoad \/ ExecuteVload \/ ExecuteStore
  PROVE  TypeOK'
<1> USE DEF TypeOK
<1>1. First.a \in Reg /\ First.unit \in 32 .. 47 /\ InRegion
  BY InstrType DEF Instr, ExecuteLoad, ExecuteVload, ExecuteStore,
                   LoadOps, VLoadOps, StoreOps, VStoreOps
<1>2. /\ CellCount \in {1, 2, 4, 8, 12, 16}
      /\ \A k \in Moved : Beyond(Place, k) \in Loc /\ First.a + k \in Lane
      /\ MemRead \in [Loc -> Cell]
  BY <1>1, AccessType
<1>3. CASE ExecuteLoad
  <2> DEFINE lo == MemRead[Beyond(Place, 0)]
             hi == IF CellCount = 2 THEN MemRead[Beyond(Place, 1)] ELSE ireg[First.a] \div B
  <2>1. lo \in Int /\ hi \in Int
    <3>1. ireg[First.a] \in Nat
      BY <1>1, Widths DEF Word
    <3>2. ireg[First.a] \div B \in Int
      BY <3>1, Widths
    <3>3. \A k \in Moved : MemRead[Beyond(Place, k)] \in Int
      BY <1>2 DEF Cell
    <3>4. 0 \in Moved /\ (CellCount = 2 => 1 \in Moved)
      BY <1>2 DEF Moved
    <3>5. QED
      BY <3>2, <3>3, <3>4
  <2>2. ireg' = [ireg EXCEPT ![First.a] = (lo + B * hi) % WordMod] /\ mem' = MemRead
    BY <1>3 DEF ExecuteLoad
  <2>3. SlotDone(0) /\ UNCHANGED <<vreg, flags, lr, br, branch, error>>
    BY <1>3 DEF ExecuteLoad
  <2> HIDE DEF lo, hi
  <2>4. (lo + B * hi) % WordMod \in Word
    <3>1. lo + B * hi \in Int
      BY <2>1, Widths
    <3>2. QED
      BY <3>1, ModRange, Widths DEF Word
  <2>5. ireg' \in [Reg -> Word]
    BY <2>2, <2>4, <1>1
  <2>6. QED
    BY <2>2, <2>3, <2>5, <1>2, SlotDoneType DEF branch
<1>4. CASE ExecuteVload
  <2>1. \A l \in Lane : l - First.a \in Moved => MemRead[Beyond(Place, l - First.a)] \in Cell
    BY <1>2
  <2>2. vreg' \in [Lane -> Cell]
    BY <1>4, <2>1 DEF ExecuteVload
  <2>3. mem' = MemRead /\ SlotDone(0) /\ UNCHANGED <<ireg, flags, lr, br, branch, error>>
    BY <1>4 DEF ExecuteVload
  <2>4. QED
    BY <2>2, <2>3, <1>2, SlotDoneType DEF branch
<1>5. CASE ExecuteStore
  <2> DEFINE Datum(k) == IF First.unit \in VStoreOps THEN vreg[First.a + k]
                         ELSE IF k = 0 THEN ireg[First.a] % B ELSE (ireg[First.a] \div B) % B
             At(l) == CHOOSE k \in Moved : l = Beyond(Place, k)
  <2>1. \A k \in Moved : Datum(k) \in Cell
    <3>1. ireg[First.a] \in Int /\ ireg[First.a] \div B \in Int
      BY <1>1, Widths DEF Word
    <3>2. ireg[First.a] % B \in Cell /\ (ireg[First.a] \div B) % B \in Cell
      BY <3>1, ModRange, Widths DEF Cell
    <3>3. QED
      BY <3>2, <1>2
  <2>2. mem' = [l \in Loc |-> IF \E k \in Moved : l = Beyond(Place, k) THEN Datum(At(l)) ELSE mem[l]]
    BY <1>5 DEF ExecuteStore
  <2>3. \A l : (\E k \in Moved : l = Beyond(Place, k)) => At(l) \in Moved
    OBVIOUS
  <2>4. SlotDone(0) /\ UNCHANGED <<regs, lr, br, branch, error>>
    BY <1>5 DEF ExecuteStore
  <2> HIDE DEF Datum, At
  <2>5. mem' \in [Loc -> Cell]
    BY <2>1, <2>2, <2>3
  <2>6. QED
    BY <2>4, <2>5, SlotDoneType DEF branch, regs
<1>6. QED
  BY <1>3, <1>4, <1>5

\* Comparisons keep the width of flags.
LEMMA CompareType ==
  ASSUME TypeOK, ExecuteCmp \/ ExecuteFcmp
  PROVE  TypeOK'
<1> USE DEF TypeOK
<1>1. First \in Instr
  BY InstrType
<1>2. /\ First.a \in Reg /\ First.b \in Reg
      /\ First.size \in 0 .. 3 /\ First.id \in 0 .. 3
  BY <1>1 DEF Instr, Quad, Lanes
<1>3. SlotDone(0) /\ UNCHANGED <<ireg, vreg, lr, br, branch, error, mem>>
  BY DEF ExecuteCmp, ExecuteFcmp
<1>4. First.unit \in 64 .. 68 \cup {70, 71} => \A u, v \in Word : FlagBits(First, u, v) \in 0 .. 7
  BY DatapathAssumption DEF First
<1>5. \E bits \in 0 .. 7 : SetFlags(bits)
  <2>1. CASE ExecuteCmp
    BY <2>1, <1>2, <1>4 DEF ExecuteCmp, CmpOps
  <2>2. CASE ExecuteFcmp
    <3> DEFINE x == vreg[IF First.unit = DCMPI THEN 2 * First.a ELSE Lanes * First.a + First.size]
               y == vreg[Lanes * First.b + First.id]
    <3>1. x \in Word /\ y \in Word
      <4>1. /\ 2 * First.a \in Lane /\ Lanes * First.a + First.size \in Lane
            /\ Lanes * First.b + First.id \in Lane
        <5>1. \A r \in Reg, k \in 0 .. 3 : 2 * r \in Lane /\ Lanes * r + k \in Lane
          BY SizeAssumption DEF Lane, Lanes, Reg
        <5>2. QED
          BY <1>2, <5>1
      <4>2. x \in Cell /\ y \in Cell
        BY <4>1
      <4>3. QED
        BY <4>2, Widths DEF Cell, Word
    <3>2. PICK bits \in IF First.unit = DCMP THEN {0, 1, 7} ELSE {FlagBits(First, x, y)} :
            SetFlags(bits)
      BY <2>2 DEF ExecuteFcmp
    <3>3. First.unit # DCMP => First.unit \in 64 .. 68 \cup {70, 71}
      BY <2>2 DEF ExecuteFcmp, FCmpOps
    <3> HIDE DEF x, y
    <3>4. bits \in 0 .. 7
      BY <1>4, <3>1, <3>2, <3>3
    <3>5. QED
      BY <3>2, <3>4
  <2>3. QED
    BY <2>1, <2>2
<1>6. flags' \in Flags
  BY <1>5, FlagsType
<1>7. QED
  BY <1>3, <1>6, SlotDoneType DEF branch

\* The vector unit keeps lanes cells.
LEMMA FpuType ==
  ASSUME TypeOK, ExecuteFpu
  PROVE  TypeOK'
<1> USE DEF TypeOK
<1>1. First \in Instr
  BY InstrType
<1>2. /\ First.a \in Reg /\ First.b \in Reg /\ First.c \in Reg
      /\ First.size \in 0 .. 3 /\ First.id \in 0 .. 3
      /\ \A k \in 0 .. 3 : First.sel[k] \in 0 .. 3
  BY <1>1 DEF Instr, Quad, Lanes
<1>3. \A r \in Reg, k \in 0 .. 3 : Lanes * r + k \in Lane
  BY SizeAssumption DEF Lane, Lanes, Reg
<1>4. \A d, x, y \in Cell : Fpu(First, d, x, y) \in Cell
  BY DatapathAssumption DEF First
<1>5. \A r \in Reg, k \in 0 .. 3 : LaneOf(r, k) \in Cell
  BY <1>3 DEF LaneOf
<1>6. 0 \in Cell /\ 0 \in 0 .. 3
  BY Widths DEF Cell
<1>7. FpuResult \in [Lane -> Cell]
  <2>1. CASE First.unit \in ScalarOps
    <3> DEFINE v == Fpu(First, vreg[Lanes * First.a], LaneOf(First.b, First.size),
                        LaneOf(First.c, First.id))
    <3>1. FpuResult = [vreg EXCEPT ![Lanes * First.a] = v]
      <4>1. First.unit \notin MoveOps /\ First.unit # SHUFFLE
        BY <2>1 DEF ScalarOps, MoveOps, SHUFFLE
      <4>2. QED
        BY <2>1, <4>1 DEF FpuResult
    <3>2. vreg[Lanes * First.a] \in Cell
      <4>1. Lanes * First.a \in Lane
        BY <1>2, SizeAssumption DEF Lane, Lanes, Reg
      <4>2. QED
        BY <4>1
    <3>3. LaneOf(First.b, First.size) \in Cell /\ LaneOf(First.c, First.id) \in Cell
      BY <1>2, <1>5
    <3>4. v \in Cell
      BY <3>2, <3>3, <1>4
    <3> HIDE DEF v
    <3>5. QED
      BY <3>1, <3>4
  <2>2. CASE First.unit \notin ScalarOps /\ First.unit \in MoveOps
    <3> DEFINE v == Fpu(First, vreg[Lanes * First.a + First.size], LaneOf(First.b, First.id), 0)
    <3>1. FpuResult = [vreg EXCEPT ![Lanes * First.a + First.size] = v]
      <4>1. First.unit # SHUFFLE
        BY <2>2 DEF MoveOps, SHUFFLE
      <4>2. QED
        BY <2>2, <4>1 DEF FpuResult
    <3>2. vreg[Lanes * First.a + First.size] \in Cell /\ LaneOf(First.b, First.id) \in Cell
      BY <1>2, <1>3, <1>5
    <3>3. v \in Cell
      BY <3>2, <1>4, <1>6
    <3> HIDE DEF v
    <3>4. QED
      BY <3>1, <3>3
  <2>3. CASE First.unit \notin ScalarOps \cup MoveOps /\ First.unit = SHUFFLE
    <3>1. ASSUME NEW v \in [Lane -> Cell], NEW k \in 0 .. 3
          PROVE  Placed(v, k) \in [Lane -> Cell]
      <4>1. v[Lanes * First.b + k] \in Cell
        BY <1>2, <1>3
      <4>2. QED
        BY <4>1 DEF Placed
    <3>2. Placed(Placed(Placed(Placed(vreg, 0), 1), 2), 3) \in [Lane -> Cell]
      BY <3>1
    <3>3. QED
      BY <2>3, <3>2 DEF FpuResult
  <2>4. CASE First.unit \notin ScalarOps \cup MoveOps \cup {SHUFFLE}
    <3>1. ASSUME NEW l \in Lane
          PROVE  LaneResult(l) \in Cell
      <4> DEFINE k == l - Lanes * First.a
      <4>1. vreg[l] \in Cell
        OBVIOUS
      <4>2. CASE k \notin 0 .. First.size
        BY <4>1, <4>2 DEF LaneResult
      <4>3. CASE k \in 0 .. First.size
        <5>1. k \in 0 .. 3
          BY <4>3, <1>2
        <5>2. /\ LaneOf(First.a, 0) \in Cell /\ LaneOf(First.b, k) \in Cell
              /\ LaneOf(First.c, k) \in Cell /\ LaneOf(First.c, First.id) \in Cell
          BY <5>1, <1>2, <1>5, <1>6
        <5>3. /\ Fpu(First, LaneOf(First.a, 0), 0, 0) \in Cell
              /\ Fpu(First, vreg[l], LaneOf(First.b, k), LaneOf(First.c, First.id)) \in Cell
              /\ Fpu(First, vreg[l], LaneOf(First.b, k), LaneOf(First.c, k)) \in Cell
          BY <5>2, <4>1, <1>4, <1>6
        <5>4. QED
          BY <5>3, <4>3 DEF LaneResult
      <4>4. QED
        BY <4>2, <4>3
    <3>2. FpuResult = [l \in Lane |-> LaneResult(l)]
      BY <2>4 DEF FpuResult
    <3>3. QED
      BY <3>1, <3>2
  <2>5. QED
    BY <2>1, <2>2, <2>3, <2>4
<1>8. QED
  BY <1>7, SlotDoneType DEF ExecuteFpu, branch

\* The rest of unit 0.
LEMMA Unit0Type ==
  ASSUME TypeOK, ExecuteUnit0
  PROVE  TypeOK'
<1>1. CASE ExecuteEndp
  BY <1>1, SlotDoneType DEF TypeOK, ExecuteEndp, branch, regs
<1>2. CASE ExecuteBru
  <2>1. First.unit \in 0 .. 127 /\ First.imm \in 0 .. ImmSpan - 1
    BY InstrType DEF Instr
  <2>2. ImmOf(First) \in Pc
    BY <2>1, SizeAssumption DEF ImmOf, Displacement, Pc
  <2>3. imm' \in Pc
    BY <1>2, <2>2 DEF TypeOK, ExecuteBru
  <2>4. delay' = 1 /\ delayop' \in 0 .. 127
    BY <1>2, <2>1 DEF ExecuteBru
  <2>5. QED
    BY <1>2, <2>3, <2>4, SlotDoneType DEF TypeOK, ExecuteBru, regs
<1>3. CASE AccessOutside
  BY <1>3, StopType DEF AccessOutside
<1>4. QED
  BY <1>1, <1>2, <1>3, MoveType, MemoryType, CompareType, FpuType DEF ExecuteUnit0

\* The second fetch and the end of an iteration without a call.
LEMMA LoopType ==
  ASSUME TypeOK, FetchOutside \/ PairFetch \/ PairOutside \/ Stall \/ HardwareTick
  PROVE  TypeOK'
<1> USE DEF TypeOK
<1>1. \A n \in Nat : (instruction + n) % CountMod \in 0 .. CountMod - 1
                   /\ (cycle + n) % CountMod \in 0 .. CountMod - 1
  BY ModRange, Widths
<1>2. CASE FetchOutside \/ PairOutside
  BY <1>2, StopType DEF FetchOutside, PairOutside
<1>3. CASE PairFetch
  <2>1. pc' \in Pc
    BY <1>3, PcAddType, Widths DEF PairFetch, Pc
  <2>2. opcode2' \in Cell
    BY <1>3 DEF PairFetch, InWram
  <2>3. QED
    BY <1>1, <1>3, <2>1, <2>2 DEF PairFetch, regs, links, branch, host
<1>4. CASE Stall
  <2>1. cycle' \in 0 .. CountMod - 1
    BY <1>1, <1>4, SizeAssumption DEF Stall
  <2>2. QED
    BY <1>4, <2>1 DEF Stall, regs, links, branch, latch, host
<1>5. CASE HardwareTick
  <2>1. cycle' \in 0 .. CountMod - 1
    BY <1>1, <1>5 DEF HardwareTick
  <2>2. QED
    BY <1>5, <2>1 DEF HardwareTick, regs, links, branch, latch, host
<1>6. QED
  BY <1>2, <1>3, <1>4, <1>5

\* Serving a call, or finding that there is none.
LEMMA EmulateType ==
  ASSUME TypeOK, Emulate
  PROVE  TypeOK'
<1> USE DEF TypeOK
<1>1. CASE Stop
  BY <1>1, StopType
<1>2. CASE ~Stop
  <2>1. Served /\ phase' = "fetch" /\ syscall' \in 0 .. 2
    BY <1>2 DEF Emulate, NoSyscall, SysPrintf, SysClear, SysFopen, SysFile, SysGetchar, SysOther,
                EmulDone
  <2>2. 0 \in Word
    BY Widths DEF Word
  <2>3. ireg' \in [Reg -> Word] /\ files' \subseteq Handles
    <3>1. CASE SysFopen
      BY <3>1, <1>2, <2>2, StateAssumption DEF SysFopen
    <3>2. CASE SysGetchar
      BY <3>2, <1>2, StateAssumption DEF SysGetchar
    <3>3. CASE SysClear
      BY <3>3, <1>2, <2>2 DEF SysClear
    <3>4. CASE NoSyscall \/ SysPrintf \/ SysFile \/ SysOther
      BY <3>4, <1>2 DEF NoSyscall, SysPrintf, SysFile, SysOther
    <3>5. QED
      BY <3>1, <3>2, <3>3, <3>4 DEF Emulate
  <2>4. QED
    BY <2>1, <2>3 DEF Served, links, branch, counters, latch
<1>3. QED
  BY <1>1, <1>2

\* A new core is well typed, whatever malloc left in it.
LEMMA InitType == Init => TypeOK
<1> SUFFICES ASSUME Init PROVE TypeOK
  OBVIOUS
<1>1. /\ ireg \in [Reg -> Word] /\ vreg \in [Lane -> Cell] /\ flags \in Flags
      /\ lr \in Pc /\ br \in Pc /\ ir \in Pc
  BY StateAssumption DEF Init
<1>2. 0 \in Pc /\ 0 \in Cell /\ 0 \in 0 .. CountMod - 1
  BY Widths DEF Pc, Cell
<1>3. pc \in Pc /\ mem \in [Loc -> Cell]
  BY StateAssumption DEF Init
<1>4. QED
  BY <1>1, <1>2, <1>3 DEF Init, TypeOK

\* Every step of the core keeps the state in its types.
LEMMA NextType == TypeOK /\ [Next]_vars => TypeOK'
<1> SUFFICES ASSUME TypeOK, [Next]_vars PROVE TypeOK'
  OBVIOUS
<1>1. CASE UNCHANGED vars
  BY <1>1 DEF TypeOK, vars, regs, links, branch, counters, latch, host
<1>2. CASE Next
  BY <1>2, FetchType, SlotType, Unit0Type, LoopType, EmulateType DEF Next
<1>3. QED
  BY <1>1, <1>2

\* Type correctness: registers, flags, pc and counters of the first VM's core
\* keep the widths of their C types.
THEOREM TypeCorrect == Spec => []TypeOK
<1>1. QED
  BY InitType, NextType, PTL DEF Spec

-----------------------------------------------------------------------------
(* Branches, traps and alignment.  Only Fetch, PairFetch and the branches  *)
(* of slot 0 touch what control depends on.                                *)

\* A step of either unit that is no branch of the core.
Plain(slot) ==
  /\ Issued(slot) /\ SlotDone(slot) /\ UNCHANGED branch
  /\ slot = 0 => First.unit \notin BruOps
  /\ slot = 1 => UNCHANGED <<lr, mem>>
  /\ lr' = lr \/ Indirect(First)

\* The ALU instructions, in either slot, are plain.
LEMMA SlotControl ==
  ASSUME NEW slot \in {0, 1}, ExecuteSlot(slot)
  PROVE  Plain(slot)
<1>1. Issued(slot) /\ SlotDone(slot) /\ UNCHANGED <<lr, branch, mem>>
  BY DEF ExecuteSlot, ExecuteResult, ExecuteSext, ExecuteSet, ExecuteNop
<1>2. slot = 0 => First.unit \notin BruOps
  <2>1. CASE ExecuteNop(slot)
    BY <2>1 DEF ExecuteNop, Known, Op
  <2>2. CASE ExecuteResult(slot) \/ ExecuteSext(slot) \/ ExecuteSet(slot)
    BY <2>2 DEF ExecuteResult, ExecuteSext, ExecuteSet, Op, ResultOps, SEXT, SetOps, BruOps
  <2>3. QED
    BY <2>1, <2>2 DEF ExecuteSlot
<1>3. QED
  BY <1>1, <1>2 DEF Plain

\* What only unit 0 executes is plain, leaves a branch behind or ends the
\* process.
LEMMA Unit0Control ==
  ASSUME ExecuteUnit0
  PROVE  Plain(0) \/ ExecuteBru \/ Stop
<1>1. CASE ExecuteRead \/ ExecuteLoad \/ ExecuteVload \/ ExecuteStore
  <2>1. Issued(0) /\ SlotDone(0) /\ UNCHANGED <<lr, branch>>
    BY <1>1 DEF ExecuteRead, ExecuteLoad, ExecuteVload, ExecuteStore
  <2>2. First.unit \notin BruOps
    BY <1>1 DEF ExecuteRead, ExecuteLoad, ExecuteVload, ExecuteStore, MOVEINS, MOVECYCLE, MOVERI,
                MUL, LoadOps, VLoadOps, StoreOps, VStoreOps, BruOps
  <2>3. QED
    BY <2>1, <2>2 DEF Plain
<1>2. CASE ExecuteCmp \/ ExecuteFcmp \/ ExecuteFpu \/ ExecuteEndp
  <2>1. Issued(0) /\ SlotDone(0) /\ UNCHANGED <<lr, branch>>
    BY <1>2 DEF ExecuteCmp, ExecuteFcmp, ExecuteFpu, ExecuteEndp
  <2>2. First.unit \notin BruOps
    BY <1>2 DEF ExecuteCmp, ExecuteFcmp, ExecuteFpu, ExecuteEndp, CmpOps, FCmpOps, DCMP, FpuOps,
                ScalarOps, LaneOps, SpreadOps, MoveOps, SHUFFLE, VFMOVEI, ENDP, BruOps
  <2>3. QED
    BY <2>1, <2>2 DEF Plain
<1>3. CASE ExecuteMoveir
  <2>1. Issued(0) /\ SlotDone(0) /\ UNCHANGED branch /\ First.unit = MOVEIR
    BY <1>3 DEF ExecuteMoveir
  <2>2. First.unit \notin BruOps
    BY <2>1 DEF MOVEIR, BruOps
  <2>3. lr' = lr \/ First.b % 4 = 0
    BY <1>3 DEF ExecuteMoveir
  <2>4. QED
    BY <2>1, <2>2, <2>3 DEF Plain, Indirect
<1>4. CASE ExecuteDiv /\ ~Stop
  <2>1. Issued(0) /\ SlotDone(0) /\ UNCHANGED <<lr, branch>>
    BY <1>4 DEF ExecuteDiv
  <2>2. First.unit \notin BruOps
    BY <1>4 DEF ExecuteDiv, DivOps, BruOps
  <2>3. QED
    BY <2>1, <2>2 DEF Plain
<1>5. QED
  BY <1>1, <1>2, <1>3, <1>4 DEF ExecuteUnit0, AccessOutside

\* The rest of an iteration leaves control alone.
LEMMA LoopControl ==
  ASSUME Stall \/ HardwareTick \/ Emulate
  PROVE  \/ /\ phase \in {"stall", "emul"} /\ phase' \in {"emul", "fetch"}
            /\ syscall' = syscall \/ syscall' = 0
            /\ phase' = "fetch" => mode = "hardware" \/ syscall # 1 \/ syscall' = 0
            /\ UNCHANGED <<pc, links, branch, mem, latch, mode>>
         \/ Stop
<1>1. CASE Stall \/ HardwareTick
  BY <1>1 DEF Stall, HardwareTick, host
<1>2. CASE NoSyscall
  BY <1>2 DEF NoSyscall, Served
<1>3. CASE SysClear \/ SysGetchar \/ SysOther
  BY <1>3 DEF SysClear, SysGetchar, SysOther, Serving, EmulDone, Served
<1>4. CASE SysPrintf \/ SysFopen \/ SysFile
  BY <1>4 DEF SysPrintf, SysFopen, SysFile, Serving, EmulDone, Served
<1>5. QED
  BY <1>1, <1>2, <1>3, <1>4 DEF Emulate

\* Every step is one of these.
LEMMA StepControl ==
  ASSUME [Next]_vars
  PROVE  \/ Fetch \/ PairFetch \/ Plain(0) \/ Plain(1) \/ ExecuteBru \/ Stop \/ UNCHANGED vars
         \/ /\ phase \in {"stall", "emul"} /\ phase' \in {"emul", "fetch"}
            /\ syscall' = syscall \/ syscall' = 0
            /\ phase' = "fetch" => mode = "hardware" \/ syscall # 1 \/ syscall' = 0
            /\ UNCHANGED <<pc, links, branch, mem, latch, mode>>
BY SlotControl, Unit0Control, LoopControl DEF Next, FetchOutside, PairOutside

\* Every step keeps the pending branch the one of the last bundle.
LEMMA NextBranch == TypeOK /\ BranchPending /\ [Next]_vars => BranchPending'
<1> SUFFICES ASSUME TypeOK, BranchPending, [Next]_vars PROVE BranchPending'
  OBVIOUS
<1> USE DEF BranchPending
<1>1. CASE Fetch
  BY <1>1 DEF Fetch, ClearDelay
<1>2. CASE PairFetch
  BY <1>2 DEF PairFetch, branch, First, ImmOf, Displacement
<1>3. ASSUME NEW slot \in {0, 1}, Plain(slot) PROVE BranchPending'
  BY <1>3, SlotDoneType DEF Plain, branch, First, ImmOf, Displacement
<1>4. CASE ExecuteBru
  <2>1. phase' \in {"pair", "stall"} /\ opcode1' = opcode1
    BY <1>4, SlotDoneType DEF ExecuteBru
  <2>2. QED
    BY <1>4, <2>1 DEF ExecuteBru, First, ImmOf, Displacement
<1>5. CASE Stop \/ UNCHANGED vars
  BY <1>5 DEF Stop, vars, branch, latch, First, ImmOf, Displacement
<1>6. CASE /\ phase' \in {"emul", "fetch"}
           /\ UNCHANGED <<branch, latch>>
  BY <1>6 DEF branch, latch, First, ImmOf, Displacement
<1>7. QED
  BY <1>1, <1>2, <1>3, <1>4, <1>5, <1>6, StepControl

\* A branch is carried out exactly with the fetch that follows its bundle: at
\* any time the pending one is the branch of the bundle executed last, with the
\* displacement of its opcode, whatever the delay slot or a system call does.
THEOREM BranchSafety == Spec => []BranchPending
<1>1. Init => BranchPending
  BY DEF Init, BranchPending
<1>2. QED
  BY <1>1, TypeCorrect, NextBranch, PTL DEF Spec

\* A number below the modulus is its own remainder.
LEMMA SmallMod ==
  ASSUME NEW m \in Nat \ {0}, NEW n \in 0 .. m - 1
  PROVE  n % m = n
OBVIOUS

\* The words behind the vectors.
LEMMA VectorWords ==
  PcAdd(0, 1) = 1 /\ PcAdd(0, 2) = 2 /\ PcAdd(1, 1) = 2 /\ PcAdd(2, 1) = 3
<1>1. PcMod \in Nat \ {0} /\ PcMod > 3
  BY Widths
<1>2. 1 % PcMod = 1 /\ 2 % PcMod = 2 /\ 3 % PcMod = 3
  BY <1>1, SmallMod
<1>3. QED
  BY <1>2 DEF PcAdd

\* TrapPending is not inductive: the second fetch adds to pc the word that
\* Passed counts only if the bundle is a pair.
TrapInv ==
  /\ TrapPending
  /\ phase = "pair" => First.pair

\* Every step keeps the pending call with its delay slot.
LEMMA NextTrap == TypeOK /\ TrapInv /\ [Next]_vars => TrapInv'
<1> SUFFICES ASSUME TypeOK, TrapInv, [Next]_vars PROVE TrapInv'
  OBVIOUS
<1> USE DEF TrapInv, TrapPending
<1>1. CASE Fetch
  <2>1. phase = "fetch" /\ phase' = "slot0" /\ mode' = mode /\ at' = pc
    BY <1>1 DEF Fetch, host
  <2>2. CASE DelayedTrap
    BY <2>1, <2>2 DEF DelayedTrap, Land, Passed, SYSCALL, INT
  <2>3. CASE syscall' = syscall
    BY <2>1, <2>3
  <2>4. QED
    BY <1>1, <2>2, <2>3 DEF Fetch, NoBranch, DelayedBranch, DelayedLoop, DelayedJump, DelayedCall,
                            DelayedReturn
<1>2. CASE PairFetch
  <2>1. /\ phase = "pair" /\ phase' = "slot1" /\ pc' = PcAdd(pc, 1)
        /\ UNCHANGED <<syscall, ir, at, mode>> /\ First' = First
    BY <1>2 DEF PairFetch, links, host, First
  <2>2. Passed = 1 /\ Passed' = 2
    BY <2>1 DEF Passed, Size
  <2>3. QED
    BY <2>1, <2>2, VectorWords
<1>3. ASSUME NEW slot \in {0, 1}, Plain(slot) \/ (slot = 0 /\ ExecuteBru) PROVE TrapInv'
  <2>1. Issued(slot) /\ SlotDone(slot)
    BY <1>3 DEF Plain, ExecuteBru
  <2>2. UNCHANGED <<syscall, ir, at, mode, pc>> /\ First' = First
    BY <2>1 DEF SlotDone, latch, host, First
  <2>3. /\ phase = IF slot = 0 THEN "slot0" ELSE "slot1"
        /\ phase' = IF slot = 0 /\ First.pair THEN "pair" ELSE "stall"
    BY <2>1 DEF SlotDone, Issued
  <2>4. Passed' = Passed
    BY <2>2, <2>3 DEF Passed, Size
  <2>5. QED
    BY <2>2, <2>3, <2>4
<1>4. CASE Stop \/ UNCHANGED vars
  BY <1>4 DEF Stop, vars, links, latch, host, First, Passed, Size
<1>5. CASE /\ phase \in {"stall", "emul"} /\ phase' \in {"emul", "fetch"}
           /\ syscall' = syscall \/ syscall' = 0
           /\ phase' = "fetch" => mode = "hardware" \/ syscall # 1 \/ syscall' = 0
           /\ UNCHANGED <<pc, links, branch, mem, latch, mode>>
  <2>1. UNCHANGED <<ir, at, mode, pc>> /\ First' = First
    BY <1>5 DEF links, latch, First
  <2>2. Passed' = Passed
    BY <1>5, <2>1 DEF Passed, Size
  <2>3. QED
    BY <1>5, <2>1, <2>2
<1>6. QED
  BY <1>1, <1>2, <1>3, <1>4, <1>5, StepControl

\* Under the console modes a system call is served before the next bundle is
\* fetched; ir then holds the address of the delay slot, and pc is as many words
\* behind the vector as the delay slot has.
THEOREM TrapSafety == Spec => []TrapPending
<1>1. Init => TrapInv
  BY DEF Init, TrapInv, TrapPending
<1>2. TrapInv => TrapPending
  BY DEF TrapInv
<1>3. QED
  BY <1>1, <1>2, TypeCorrect, NextTrap, PTL DEF Spec

\* Adding nothing to pc leaves it alone.
LEMMA PcAddZero ==
  ASSUME NEW p \in Pc
  PROVE  PcAdd(p, 0) = p
BY SmallMod, Widths DEF PcAdd, Pc

\* Two steps of one word are a step of two.
LEMMA PcAddTwice ==
  ASSUME NEW p \in Pc
  PROVE  PcAdd(PcAdd(p, 1), 1) = PcAdd(p, 2)
<1>1. PcMod \in Nat /\ PcMod > 3 /\ p \in 0 .. PcMod - 1
  BY Widths DEF Pc
<1>2. CASE p + 2 < PcMod
  BY <1>1, <1>2, SmallMod, Widths DEF PcAdd
<1>3. CASE p + 2 = PcMod
  <2>1. (p + 1) % PcMod = p + 1
    BY <1>1, <1>3, SmallMod, Widths
  <2>2. QED
    BY <1>1, <2>1 DEF PcAdd
<1>4. CASE p + 1 = PcMod
  <2>1. (p + 1) % PcMod = 0
    BY <1>1, <1>4
  <2>2. (p + 2) % PcMod = 1
    BY <1>1, <1>4
  <2>3. QED
    BY <2>1, <2>2, VectorWords DEF PcAdd
<1>5. QED
  BY <1>1, <1>2, <1>3, <1>4

\* Leaving slot 0 for the second fetch or the end of the bundle.
LEMMA AlignedSlot0 ==
  ASSUME TypeOK, NEW s, Aligned(s), phase = "slot0", SlotDone(0),
         PcAdd(lr', 1) \in s,
         Pending(s, PcAdd(pc, Size(First) - 1))'
  PROVE  Aligned(s)'
<1> DEFINE q == PcAdd(pc, Size(First) - 1)
<1>1. UNCHANGED <<pc, ir>> /\ First' = First
  BY DEF SlotDone, latch, First
<1>2. CASE First.pair
  <2>1. q = PcAdd(pc, 1) /\ phase' = "pair"
    BY <1>2 DEF Size, SlotDone
  <2>2. QED
    BY <1>1, <1>2, <2>1 DEF Aligned
<1>3. CASE ~First.pair
  <2>1. q = pc
    BY <1>3, PcAddZero DEF Size, TypeOK
  <2>2. phase' = "stall"
    BY <1>3 DEF SlotDone
  <2>3. QED
    BY <1>1, <2>1, <2>2 DEF Aligned
<1>4. QED
  BY <1>2, <1>3

\* Fetching the bundle at a start in s, or a delay slot, and landing in s.
LEMMA AlignedFetch ==
  ASSUME TypeOK, NEW s, Closed(s, mem), Aligned(s), Fetch
  PROVE  Aligned(s)'
<1>1. /\ phase = "fetch" /\ phase' = "slot0" /\ delay' = 0 /\ mem' = mem /\ InWram(pc)
      /\ First' = CodeAt(mem, pc)
  BY DEF Fetch, ClearDelay, First, CodeAt
<1>2. PcAdd(lr, 1) \in s /\ PcAdd(ir, 1) \in s /\ Pending(s, pc)
  BY <1>1 DEF Aligned
<1>3. pc \in Pc /\ PcAdd(pc, 1) \in Pc
  BY PcAddType, Widths DEF TypeOK, Pc
<1>4. SUFFICES /\ PcAdd(lr', 1) \in s /\ PcAdd(ir', 1) \in s
               /\ ClosedAt(s, mem, CodeAt(mem, pc), PcAdd(pc', Size(CodeAt(mem, pc)) - 1))
  BY <1>1 DEF Aligned, ClosedAt, SlotOK, CodeAt, InWram
<1>5. CASE delay = 0
  <2>1. ClosedAt(s, mem, CodeAt(mem, pc), PcAdd(pc, Size(CodeAt(mem, pc))))
    BY <1>1, <1>2, <1>5 DEF Pending, Closed
  <2>2. pc' = PcAdd(pc, 1) /\ UNCHANGED <<lr, ir>>
    BY <1>5 DEF Fetch, NoBranch, DelayedBranch, DelayedLoop, DelayedJump, DelayedCall,
                DelayedReturn, DelayedTrap, Land
  <2>3. PcAdd(pc', Size(CodeAt(mem, pc)) - 1) = PcAdd(pc, Size(CodeAt(mem, pc)))
    <3>1. PcAdd(pc', 0) = PcAdd(pc, 1)
      BY <1>3, <2>2, PcAddZero
    <3>2. PcAdd(pc', 1) = PcAdd(pc, 2)
      BY <1>3, <2>2, PcAddTwice
    <3>3. QED
      BY <3>1, <3>2 DEF Size
  <2>4. QED
    BY <1>2, <2>1, <2>2, <2>3
<1>6. CASE delay = 1
  <2>1. delayop \notin {JUMPBR, CALLBR} /\ SlotOK(s, mem, pc, delayop, imm)
    BY <1>2, <1>6 DEF Pending
  <2>2. ~CodeAt(mem, pc).pair /\ CodeAt(mem, pc).unit \notin BruOps /\ ~Indirect(CodeAt(mem, pc))
    BY <1>1, <2>1 DEF SlotOK
  <2>3. PcAdd(pc, 1) \in s
    BY <2>1 DEF SlotOK
  <2>4. pc' \in s /\ PcAdd(lr', 1) \in s /\ PcAdd(ir', 1) \in s
    <3>1. CASE DelayedBranch
      BY <3>1, <1>2, <2>1, <2>3 DEF DelayedBranch, Land, SlotOK
    <3>2. CASE DelayedLoop
      BY <3>2, <1>2, <2>1, <2>3 DEF DelayedLoop, Land, SlotOK
    <3>3. CASE DelayedJump \/ DelayedCall
      <4>1. Target = imm /\ PcAdd(imm, 1) \in s
        BY <3>3, <2>1 DEF DelayedJump, DelayedCall, Target, SlotOK
      <4>2. QED
        BY <3>3, <4>1, <1>2, <2>3 DEF DelayedJump, DelayedCall, Land, Link
    <3>4. CASE DelayedReturn
      BY <3>4, <1>2 DEF DelayedReturn, Land
    <3>5. CASE DelayedTrap
      <4>1. PcAdd(2, 1) \in s /\ PcAdd(0, 1) \in s
        BY VectorWords DEF Closed
      <4>2. QED
        BY <3>5, <4>1, <1>2, <2>3 DEF DelayedTrap, Land
    <3>6. QED
      BY <1>6, <3>1, <3>2, <3>3, <3>4, <3>5 DEF Fetch, NoBranch
  <2>5. pc' \in Pc
    BY FetchType DEF TypeOK
  <2>6. PcAdd(pc', Size(CodeAt(mem, pc)) - 1) = pc'
    BY <2>2, <2>5, PcAddZero DEF Size
  <2>7. QED
    BY <2>2, <2>4, <2>6 DEF ClosedAt
<1>7. QED
  BY <1>5, <1>6 DEF TypeOK

\* One step keeps the core aligned with any closed set of bundle addresses.
LEMMA AlignedStep ==
  ASSUME TypeOK, NEW s, Closed(s, mem), Aligned(s), [Next]_vars
  PROVE  Aligned(s)'
<1>1. CASE Fetch
  BY <1>1, AlignedFetch
<1>2. CASE PairFetch
  <2>1. /\ phase = "pair" /\ phase' = "slot1" /\ pc' = PcAdd(pc, 1)
        /\ UNCHANGED <<lr, ir, delay, delayop, imm, mem>> /\ First' = First
    BY <1>2 DEF PairFetch, links, branch, First
  <2>2. QED
    BY <2>1 DEF Aligned, Pending, SlotOK, CodeAt, InWram
<1>3. CASE Plain(0)
  <2>1. /\ phase = "slot0" /\ SlotDone(0) /\ UNCHANGED <<imm, delay, delayop>>
        /\ First.unit \notin BruOps /\ (lr' = lr \/ Indirect(First))
    BY <1>3 DEF Plain, Issued, branch
  <2>2. delay = 0 /\ ClosedAt(s, mem, First, PcAdd(pc, Size(First) - 1)) /\ PcAdd(lr, 1) \in s
    BY <2>1 DEF Aligned
  <2>3. PcAdd(pc, Size(First) - 1) \in s /\ lr' = lr
    BY <2>1, <2>2 DEF ClosedAt
  <2>4. Pending(s, PcAdd(pc, Size(First) - 1))'
    <3>1. UNCHANGED pc /\ First' = First
      BY <2>1 DEF SlotDone, latch, First
    <3>2. QED
      BY <2>1, <2>2, <2>3, <3>1 DEF Pending, Size, PcAdd
  <2>5. QED
    BY <2>1, <2>2, <2>3, <2>4, AlignedSlot0
<1>4. CASE Plain(1)
  <2>1. phase = "slot1" /\ phase' = "stall" /\ UNCHANGED <<pc, lr, ir, mem, imm, delay, delayop>>
    BY <1>4 DEF Plain, Issued, SlotDone, branch
  <2>2. QED
    BY <2>1 DEF Aligned, Pending, SlotOK, CodeAt, InWram
<1>5. CASE ExecuteBru
  <2>1. /\ phase = "slot0" /\ SlotDone(0) /\ UNCHANGED <<lr, mem>>
        /\ delay' = 1 /\ delayop' = First.unit /\ First.unit \in BruOps
    BY <1>5 DEF ExecuteBru, Issued
  <2>2. ClosedAt(s, mem, First, PcAdd(pc, Size(First) - 1)) /\ PcAdd(lr, 1) \in s
    BY <2>1 DEF Aligned
  <2> DEFINE q == PcAdd(pc, Size(First) - 1)
  <2>3. First.unit \notin {JUMPBR, CALLBR} /\ SlotOK(s, mem, q, First.unit, ImmOf(First))
    BY <2>1, <2>2 DEF ClosedAt, Indirect
  <2>4. UNCHANGED pc /\ First' = First
    BY <2>1 DEF SlotDone, latch, First
  <2>5. q' = q
    BY <2>4 DEF PcAdd, Size
  <2>6. SlotOK(s, mem, q, First.unit, imm')
    <3>1. CASE First.unit \in {RET, RETI, SYSCALL, INT}
      <4>1. First.unit \notin BranchOps \cup {LOOP} /\ First.unit \notin {JUMP, CALL}
        BY <3>1 DEF RET, RETI, SYSCALL, INT, BranchOps, LOOP, JUMP, CALL
      <4>2. QED
        BY <2>3, <4>1 DEF SlotOK
    <3>2. CASE First.unit \notin {RET, RETI, SYSCALL, INT}
      BY <3>2, <2>3, <1>5 DEF ExecuteBru
    <3>3. QED
      BY <3>1, <3>2
  <2> HIDE DEF q
  <2>7. Pending(s, q)'
    BY <2>1, <2>3, <2>5, <2>6 DEF Pending, SlotOK, CodeAt, InWram
  <2>8. QED
    BY <2>1, <2>2, <2>7, AlignedSlot0 DEF q
<1>6. CASE Stop \/ UNCHANGED vars
  <2>1. UNCHANGED <<pc, lr, ir, mem, imm, delay, delayop, phase, opcode1>>
    BY <1>6 DEF Stop, vars, links, branch, latch
  <2>2. QED
    BY <2>1 DEF Aligned, Pending, ClosedAt, SlotOK, CodeAt, InWram, First, Size, PcAdd, ImmOf,
                Displacement, Indirect
<1>7. CASE /\ phase \in {"stall", "emul"} /\ phase' \in {"emul", "fetch"}
           /\ UNCHANGED <<pc, links, branch, mem, latch, mode>>
  <2>1. UNCHANGED <<pc, lr, ir, mem, imm, delay, delayop>>
    BY <1>7 DEF links, branch
  <2>2. QED
    BY <1>7, <2>1 DEF Aligned, Pending, SlotOK, CodeAt, InWram
<1>8. QED
  BY <1>1, <1>2, <1>3, <1>4, <1>5, <1>6, <1>7, StepControl

\* Control stays on bundle boundaries, whatever the program with one-word delay
\* slots: every step, a branch, call, return or trap carried out with the delay
\* slot's fetch and a store into the text included, keeps the core aligned.
THEOREM Alignment == Spec => AlignmentPreserved
<1>1. TypeOK /\ [Next]_vars =>
        [\A s \in StartSets : Closed(s, mem) /\ Aligned(s) => Aligned(s)']_vars
  BY AlignedStep
<1>2. QED
  BY <1>1, TypeCorrect, PTL DEF Spec, AlignmentPreserved

=============================================================================
