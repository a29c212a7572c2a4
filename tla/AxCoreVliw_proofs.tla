-------------------------- MODULE AxCoreVliw_proofs ---------------------------
(***************************************************************************)
(* Proof that AxCore implements AxVliw (ImplementsVliw), for every word    *)
(* size, memory, program, data path and memory map.                        *)
(*                                                                         *)
(* Inside a bundle the abstract machine still shows the state pre in which *)
(* the bundle was entered; RefInv says how far the concrete state is from  *)
(* it.  Retiring the bundle is then one step of AxVliw.                    *)
(***************************************************************************)
EXTENDS AxCoreVliw, AxBundle, AxCore_proofs, TLAPS

-----------------------------------------------------------------------------
(* Writes to registers and memory as partial functions.                    *)

\* Reading a register behind the cleared zero register is what Read does.
LEMMA ReadVisible ==
  ASSUME NEW r \in [Reg -> Word], NEW k \in Reg
  PROVE  Zeroed(r)[k] = Read(Visible(r), k)
  BY SizesAssumption DEF Zeroed, Read, Visible, Reg, REG_ZERO

\* Clearing the zero register cannot be seen.
LEMMA VisibleZeroed ==
  ASSUME NEW r \in [Reg -> Word]
  PROVE  Visible(Zeroed(r)) = Visible(r)
  BY DEF Zeroed, Visible

\* A write to a register, the zero register included.
LEMMA VisibleWrite ==
  ASSUME NEW r \in [Reg -> Word], NEW a \in Reg, NEW w
  PROVE  Visible([Zeroed(r) EXCEPT ![a] = w]) = Over(Visible(r), At(a, w))
  BY DEF Zeroed, Visible, Over, At

\* Writing nothing changes nothing.
LEMMA OverNothing ==
  ASSUME NEW D, NEW R, NEW f \in [D -> R]
  PROVE  Over(f, Nothing) = f
  BY DEF Over, Nothing

\* Writing one place.
LEMMA OverAt ==
  ASSUME NEW D, NEW R, NEW f \in [D -> R], NEW k \in D, NEW w
  PROVE  Over(f, At(k, w)) = [f EXCEPT ![k] = w]
  BY DEF Over, At

\* What is visible of a register file: every register but the zero register.
LEMMA VisibleType ==
  ASSUME NEW r \in [Reg -> Word]
  PROVE  Visible(r) \in [GReg -> Word]
  BY DEF Visible, GReg

\* A store changes the cells it accesses and no other.
LEMMA StoredOver ==
  ASSUME NEW m \in [Loc -> Cell], NEW i, NEW l \in Loc, NEW v, i.size \in {1, 2}, InRegion(i, l)
  PROVE  Stored(i, l, m, v) = Over(m, [c \in AccessCells(i, l) |-> Stored(i, l, m, v)[c]])
  <1>1. CASE i.size = 1
    BY <1>1 DEF Stored, Over, AccessCells
  <1>2. CASE i.size = 2
    <2>1. NextCell(l) \in Loc
      BY <1>2 DEF InRegion
    <2>2. QED
      BY <1>2, <2>1 DEF Stored, Over, AccessCells
  <1>3. QED
    BY <1>1, <1>2

-----------------------------------------------------------------------------
(* An instruction writes only what its operation code says.                *)

\* An instruction outside the operations that write a place leaves it alone.
LEMMA WritesNothing ==
  ASSUME NEW s, NEW i, NEW x, NEW f
  PROVE  /\ i.op \notin AluResultOps \cup LoadOps
              \cup {AX_EXE_ALU_CMOVE, AX_EXE_ALU_CMOVEN, AX_EXE_MDU_MOVETO} =>
              GpiWrites(s, i, x) = Nothing
         /\ i.op \notin FLoadOps => GpfWrites(s, i, x) = Nothing
         /\ i.op \notin DivOps \cup MulOps \cup {AX_EXE_MDU_MOVEFROM} =>
              MduWrites(s, i, x) = Nothing
         /\ i.op # AX_EXE_ALU_CMP => FlagsAfter(s, i, f) = f
         /\ i.op \notin StoreOps \cup FStoreOps => MemWrites(s, i, x) = Nothing
  BY Zenon DEF GpiWrites, GpfWrites, MduWrites, FlagsAfter, MemWrites

-----------------------------------------------------------------------------
(* One slot: what it writes is what AxBundle says of the state it starts   *)
(* in.                                                                     *)

\* The step wrote what instruction i writes in state s.
Wrote(s, i, x) ==
  /\ Visible(gpi') = Over(s.gpi, GpiWrites(s, i, x))
  /\ Visible(gpf') = Over(s.gpf, GpfWrites(s, i, x))
  /\ mdu' = Over(s.mdu, MduWrites(s, i, x))
  /\ fr' = FlagsAfter(s, i, s.fr)
  /\ mem' = Over(s.mem, MemWrites(s, i, x))

\* The operations of both slots that do not stop the process.
ExecutesAny(slot) ==
  \/ ExecuteAluResult(slot) \/ ExecuteCmove(slot) \/ ExecuteCmp(slot)
  \/ ExecuteNop(slot) \/ ExecuteLoad(slot) \/ ExecuteStore(slot)

Branches == ExecuteBranch \/ ExecuteJump \/ ExecuteCall \/ ExecuteReturn \/ ExecuteSyscall

\* What the current state shows.
LEMMA SnapshotReads ==
  ASSUME TypeOK, NEW s, s = Snapshot, NEW slot \in {0, 1}
  PROVE  /\ s.gpi = Visible(gpi) /\ s.gpf = Visible(gpf) /\ s.mdu = mdu /\ s.fr = fr /\ s.mem = mem
         /\ \A k \in Reg : Zeroed(gpi)[k] = Read(s.gpi, k) /\ Zeroed(gpf)[k] = Read(s.gpf, k)
         /\ AccessBase(Op(slot)) = Place(s, Op(slot), Imm24)
  <1>1. /\ s.gpi = Visible(gpi) /\ s.gpf = Visible(gpf) /\ s.mdu = mdu
        /\ s.fr = fr /\ s.mem = mem
    BY DEF Snapshot
  <1>2. \A k \in Reg : Zeroed(gpi)[k] = Read(s.gpi, k) /\ Zeroed(gpf)[k] = Read(s.gpf, k)
    BY <1>1, ReadVisible DEF TypeOK
  <1>3. Op(slot).c \in Reg /\ BaseReg(Op(slot)) \in Reg
    BY BundleType, SizesAssumption DEF Instr, BaseReg, Reg
  <1>. QED
    BY <1>1, <1>2, <1>3, Zenon DEF AccessBase, Place

\* Nothing but the zero registers is written.
LEMMA NoData ==
  ASSUME TypeOK, NEW s, s = Snapshot, NEW i, NEW x, ClearZeroRegs,
         UNCHANGED <<mdu, fr, mem>>,
         i.op \in {0} \cup 44 .. 47 \cup 112 .. 127
  PROVE  Wrote(s, i, x)
  <1>1. /\ GpiWrites(s, i, x) = Nothing /\ GpfWrites(s, i, x) = Nothing
        /\ MduWrites(s, i, x) = Nothing /\ FlagsAfter(s, i, s.fr) = s.fr
        /\ MemWrites(s, i, x) = Nothing
    <2>1. /\ i.op \notin AluResultOps \cup LoadOps
               \cup {AX_EXE_ALU_CMOVE, AX_EXE_ALU_CMOVEN, AX_EXE_MDU_MOVETO}
          /\ i.op \notin FLoadOps /\ i.op \notin DivOps \cup MulOps \cup {AX_EXE_MDU_MOVEFROM}
          /\ i.op # AX_EXE_ALU_CMP /\ i.op \notin StoreOps \cup FStoreOps
      BY DEF AluResultOps, LoadOps, AX_EXE_ALU_CMOVE, AX_EXE_ALU_CMOVEN, AX_EXE_MDU_MOVETO, FLoadOps,
             DivOps, MulOps, AX_EXE_MDU_MOVEFROM, AX_EXE_ALU_CMP, StoreOps, FStoreOps
    <2>. QED
      BY <2>1, WritesNothing
  <1>2. Visible(gpi') = s.gpi /\ Visible(gpf') = s.gpf
    BY VisibleZeroed, SnapshotReads DEF ClearZeroRegs, TypeOK
  <1>3. /\ s.gpi \in [GReg -> Word] /\ s.gpf \in [GReg -> Word]
        /\ s.mdu \in [0 .. 3 -> Word] /\ s.mem \in [Loc -> Cell]
        /\ s.mdu = mdu /\ s.fr = fr /\ s.mem = mem
    BY VisibleType, SnapshotReads DEF TypeOK
  <1>. QED
    BY <1>1, <1>2, <1>3, OverNothing DEF Wrote

\* An operation of either slot that goes through writes what its instruction
\* writes in the state it starts in.
LEMMA SlotEffect ==
  ASSUME TypeOK, NEW slot \in {0, 1}, NEW s, s = Snapshot, ExecutesAny(slot)
  PROVE  Wrote(s, Op(slot), Imm24) /\ ~Faults(s, slot, Op(slot), Imm24)
  <1>. DEFINE i == Op(slot)
              r == Zeroed(gpi)
              x == Imm24
  <1>1. i \in Instr /\ i.a \in Reg /\ i.b \in Reg /\ i.c \in Reg /\ i.size \in {1, 2}
    BY BundleType DEF Instr
  <1>2. /\ s.gpi = Visible(gpi) /\ s.gpf = Visible(gpf) /\ s.mdu = mdu /\ s.fr = fr /\ s.mem = mem
        /\ AccessBase(i) = Place(s, i, x)
        /\ \A k \in Reg : r[k] = Read(s.gpi, k) /\ Zeroed(gpf)[k] = Read(s.gpf, k)
    BY SnapshotReads
  <1>3. /\ s.gpi \in [GReg -> Word] /\ s.gpf \in [GReg -> Word]
        /\ s.mdu \in [0 .. 3 -> Word] /\ s.mem \in [Loc -> Cell]
    BY <1>2, VisibleType DEF TypeOK
  <1>4. /\ Over(s.gpi, Nothing) = s.gpi /\ Over(s.gpf, Nothing) = s.gpf
        /\ Over(s.mdu, Nothing) = s.mdu /\ Over(s.mem, Nothing) = s.mem
    BY <1>3, OverNothing
  <1>5. /\ Visible(r) = s.gpi /\ Visible(Zeroed(gpf)) = s.gpf
        /\ \A w : Visible([r EXCEPT ![i.a] = w]) = Over(s.gpi, At(i.a, w))
        /\ \A w : Visible([Zeroed(gpf) EXCEPT ![i.a] = w]) = Over(s.gpf, At(i.a, w))
    BY <1>1, <1>2, VisibleZeroed, VisibleWrite DEF TypeOK
  <1>6. CASE ExecuteAluResult(slot) \/ ExecuteCmove(slot)
    <2>1. /\ i.op \in AluResultOps \cup {AX_EXE_ALU_CMOVE, AX_EXE_ALU_CMOVEN}
          /\ UNCHANGED <<mdu, fr, mem>> /\ gpf' = Zeroed(gpf)
      BY <1>6 DEF ExecuteAluResult, ExecuteCmove
    <2>2. /\ i.op \notin FLoadOps /\ i.op \notin DivOps \cup MulOps \cup {AX_EXE_MDU_MOVEFROM}
          /\ i.op # AX_EXE_ALU_CMP /\ i.op \notin StoreOps \cup FStoreOps
          /\ i.op \notin 32 .. 43
      BY <2>1 DEF AluResultOps, AX_EXE_ALU_CMOVE, AX_EXE_ALU_CMOVEN, FLoadOps,
                  DivOps, MulOps, AX_EXE_MDU_MOVEFROM, AX_EXE_ALU_CMP, StoreOps, FStoreOps
    <2>3. Visible(gpi') = Over(s.gpi, GpiWrites(s, i, x))
      <3>1. CASE ExecuteAluResult(slot)
        <4>1. i.op \in AluResultOps
          BY <3>1 DEF ExecuteAluResult
        <4>2. gpi' = [r EXCEPT ![i.a] = Alu(i, x, Read(s.gpi, i.b),
                             Read(s.gpi, IF i.op = AX_EXE_ALU_INS THEN i.a ELSE i.c))]
          BY <1>1, <1>2, <3>1, Zenon DEF ExecuteAluResult
        <4>. QED
          BY <1>5, <4>1, <4>2, Zenon DEF GpiWrites
      <3>2. CASE ExecuteCmove(slot)
        <4>1. /\ i.op \in {AX_EXE_ALU_CMOVE, AX_EXE_ALU_CMOVEN} /\ i.op # AX_EXE_ALU_INS
              /\ i.op \notin AluResultOps /\ i.op \notin LoadOps /\ i.op # AX_EXE_MDU_MOVETO
          BY <3>2 DEF ExecuteCmove, AX_EXE_ALU_CMOVE, AX_EXE_ALU_CMOVEN, AX_EXE_ALU_INS,
                      AluResultOps, LoadOps, AX_EXE_MDU_MOVETO
        <4>2. gpi' = IF Moves(i, x, Read(s.gpi, i.c))
                     THEN [r EXCEPT ![i.a] = Alu(i, x, Read(s.gpi, i.b), Read(s.gpi, i.c))] ELSE r
          BY <1>1, <1>2, <3>2, Zenon DEF ExecuteCmove
        <4>. QED
          BY <1>4, <1>5, <4>1, <4>2, Zenon DEF GpiWrites
      <3>. QED
        BY <1>6, <3>1, <3>2
    <2>4. Wrote(s, i, x)
      BY <1>2, <1>4, <1>5, <2>1, <2>2, <2>3, WritesNothing DEF Wrote
    <2>. QED
      BY <2>1, <2>2, <2>4 DEF Faults, Executable
  <1>7. CASE ExecuteCmp(slot)
    <2>1. i.op = AX_EXE_ALU_CMP /\ UNCHANGED <<mdu, mem>> /\ ClearZeroRegs
      BY <1>7 DEF ExecuteCmp
    <2>2. fr' = FlagsAfter(s, i, s.fr)
      BY <1>1, <1>2, <1>7, Zenon DEF ExecuteCmp, FlagsAfter
    <2>3. /\ i.op \notin AluResultOps \cup LoadOps
               \cup {AX_EXE_ALU_CMOVE, AX_EXE_ALU_CMOVEN, AX_EXE_MDU_MOVETO}
          /\ i.op \notin FLoadOps /\ i.op \notin DivOps \cup MulOps \cup {AX_EXE_MDU_MOVEFROM}
          /\ i.op \notin StoreOps \cup FStoreOps /\ i.op \notin 32 .. 43
      BY <2>1 DEF AluResultOps, LoadOps, AX_EXE_ALU_CMOVE, AX_EXE_ALU_CMOVEN, AX_EXE_MDU_MOVETO,
                  FLoadOps, DivOps, MulOps, AX_EXE_MDU_MOVEFROM, AX_EXE_ALU_CMP, StoreOps, FStoreOps
    <2>4. Wrote(s, i, x)
      BY <1>2, <1>4, <1>5, <2>1, <2>2, <2>3, WritesNothing DEF Wrote, ClearZeroRegs
    <2>. QED
      BY <2>1, <2>3, <2>4 DEF Faults, Executable
  <1>8. CASE ExecuteNop(slot)
    <2>1. i.op \in {0} \cup 44 .. 47 /\ UNCHANGED <<mdu, fr, mem>> /\ ClearZeroRegs
      BY <1>8 DEF ExecuteNop
    <2>2. Wrote(s, i, x)
      BY <2>1, NoData
    <2>. QED
      BY <2>1, <2>2 DEF Faults, Executable, DivOps
  <1>9. CASE ExecuteLoad(slot)
    <2>1. /\ i.op \in LoadOps \cup FLoadOps /\ UNCHANGED <<mdu, fr, mem>>
          /\ InRegion(i, Place(s, i, x))
      BY <1>2, <1>9, Zenon DEF ExecuteLoad
    <2>2. /\ i.op \notin AluResultOps \cup {AX_EXE_ALU_CMOVE, AX_EXE_ALU_CMOVEN, AX_EXE_MDU_MOVETO}
          /\ i.op \notin DivOps \cup MulOps \cup {AX_EXE_MDU_MOVEFROM}
          /\ i.op # AX_EXE_ALU_CMP /\ i.op \notin StoreOps \cup FStoreOps
          /\ i.op \in 32 .. 43 /\ (i.op \in LoadOps => i.op \notin FLoadOps)
      BY <2>1 DEF AluResultOps, LoadOps, AX_EXE_ALU_CMOVE, AX_EXE_ALU_CMOVEN, AX_EXE_MDU_MOVETO,
                  FLoadOps, DivOps, MulOps, AX_EXE_MDU_MOVEFROM, AX_EXE_ALU_CMP, StoreOps, FStoreOps
    <2>3. Visible(gpi') = Over(s.gpi, GpiWrites(s, i, x))
      <3>1. CASE i.op \in LoadOps
        <4>1. gpi' = [r EXCEPT ![i.a] = Loaded(i, Place(s, i, x), s.mem, Read(s.gpi, i.a))]
          BY <1>1, <1>2, <1>9, <3>1, Zenon DEF ExecuteLoad
        <4>. QED
          BY <1>5, <2>2, <3>1, <4>1, Zenon DEF GpiWrites
      <3>2. CASE i.op \notin LoadOps
        BY <1>4, <1>5, <1>9, <2>2, <3>2, WritesNothing DEF ExecuteLoad
      <3>. QED
        BY <3>1, <3>2
    <2>4. Visible(gpf') = Over(s.gpf, GpfWrites(s, i, x))
      <3>1. CASE i.op \in FLoadOps
        <4>1. gpf' = [Zeroed(gpf) EXCEPT ![i.a] = Loaded(i, Place(s, i, x), s.mem, Read(s.gpf, i.a))]
          BY <1>1, <1>2, <1>9, <3>1, Zenon DEF ExecuteLoad
        <4>. QED
          BY <1>5, <3>1, <4>1, Zenon DEF GpfWrites
      <3>2. CASE i.op \notin FLoadOps
        BY <1>4, <1>5, <1>9, <3>2, WritesNothing DEF ExecuteLoad
      <3>. QED
        BY <3>1, <3>2
    <2>5. Wrote(s, i, x)
      BY <1>2, <1>4, <2>1, <2>2, <2>3, <2>4, WritesNothing DEF Wrote
    <2>. QED
      BY <2>1, <2>2, <2>5 DEF Faults, Executable
  <1>10. CASE ExecuteStore(slot)
    <2>1. /\ i.op \in StoreOps \cup FStoreOps /\ UNCHANGED <<mdu, fr>> /\ ClearZeroRegs
          /\ InRegion(i, Place(s, i, x))
      BY <1>2, <1>10, Zenon DEF ExecuteStore
    <2>2. /\ i.op \notin AluResultOps \cup LoadOps
               \cup {AX_EXE_ALU_CMOVE, AX_EXE_ALU_CMOVEN, AX_EXE_MDU_MOVETO}
          /\ i.op \notin FLoadOps /\ i.op \notin DivOps \cup MulOps \cup {AX_EXE_MDU_MOVEFROM}
          /\ i.op # AX_EXE_ALU_CMP /\ i.op \in 32 .. 43
      BY <2>1 DEF AluResultOps, LoadOps, AX_EXE_ALU_CMOVE, AX_EXE_ALU_CMOVEN, AX_EXE_MDU_MOVETO,
                  FLoadOps, DivOps, MulOps, AX_EXE_MDU_MOVEFROM, AX_EXE_ALU_CMP, StoreOps, FStoreOps
    <2>3. mem' = Over(s.mem, MemWrites(s, i, x))
      <3>. DEFINE l == Place(s, i, x)
                  v == Read(IF i.op \in StoreOps THEN s.gpi ELSE s.gpf, i.a)
      <3>1. mem' = Stored(i, l, s.mem, v)
        BY <1>1, <1>2, <1>10, Zenon DEF ExecuteStore
      <3>2. l \in Loc
        BY <1>2, <2>2, AccessType
      <3>3. Stored(i, l, s.mem, v) = Over(s.mem, [c \in AccessCells(i, l) |-> Stored(i, l, s.mem, v)[c]])
        BY <1>1, <1>3, <2>1, <3>2, StoredOver
      <3>. QED
        BY <2>1, <3>1, <3>3, Zenon DEF MemWrites
    <2>4. Wrote(s, i, x)
      BY <1>2, <1>4, <1>5, <2>1, <2>2, <2>3, WritesNothing DEF Wrote, ClearZeroRegs
    <2>. QED
      BY <2>1, <2>2, <2>4 DEF Faults, Executable
  <1>. QED
    BY <1>6, <1>7, <1>8, <1>9, <1>10 DEF ExecutesAny

\* The MDU writes its own registers, or one register from them.
LEMMA MduEffect ==
  ASSUME TypeOK, NEW s, s = Snapshot, ExecuteDivMul \/ ExecuteMduMove
  PROVE  Wrote(s, First, Imm24) /\ ~Faults(s, 0, First, Imm24)
  <1>. DEFINE i == First
              r == Zeroed(gpi)
              x == Imm24
  <1>1. i \in Instr /\ i = Op(0) /\ i.a \in Reg /\ i.b \in Reg /\ i.c \in Reg /\ i.pq \in 0 .. 3
    BY BundleType DEF Instr, Op
  <1>2. /\ s.gpi = Visible(gpi) /\ s.gpf = Visible(gpf) /\ s.mdu = mdu /\ s.fr = fr /\ s.mem = mem
        /\ \A k \in Reg : r[k] = Read(s.gpi, k)
    BY SnapshotReads
  <1>3. /\ s.gpi \in [GReg -> Word] /\ s.gpf \in [GReg -> Word]
        /\ s.mdu \in [0 .. 3 -> Word] /\ s.mem \in [Loc -> Cell]
    BY <1>2, VisibleType DEF TypeOK
  <1>4. /\ Over(s.gpi, Nothing) = s.gpi /\ Over(s.gpf, Nothing) = s.gpf
        /\ Over(s.mdu, Nothing) = s.mdu /\ Over(s.mem, Nothing) = s.mem
    BY <1>3, OverNothing
  <1>5. /\ Visible(r) = s.gpi /\ Visible(Zeroed(gpf)) = s.gpf
        /\ \A w : Visible([r EXCEPT ![i.a] = w]) = Over(s.gpi, At(i.a, w))
    BY <1>1, <1>2, VisibleZeroed, VisibleWrite DEF TypeOK
  <1>6. /\ i.op \in DivOps \cup MulOps \cup {AX_EXE_MDU_MOVETO, AX_EXE_MDU_MOVEFROM}
        /\ UNCHANGED <<fr, mem>>
    BY DEF ExecuteDivMul, ExecuteMduMove
  <1>7. /\ i.op \notin AluResultOps \cup LoadOps \cup {AX_EXE_ALU_CMOVE, AX_EXE_ALU_CMOVEN}
        /\ i.op \notin FLoadOps /\ i.op # AX_EXE_ALU_CMP
        /\ i.op \notin StoreOps \cup FStoreOps /\ i.op \notin 32 .. 43
    BY <1>6 DEF AluResultOps, LoadOps, AX_EXE_ALU_CMOVE, AX_EXE_ALU_CMOVEN, AX_EXE_MDU_MOVETO,
                FLoadOps, DivOps, MulOps, AX_EXE_MDU_MOVEFROM, AX_EXE_ALU_CMP, StoreOps, FStoreOps
  <1>8. Visible(gpf') = s.gpf
    BY <1>5 DEF ExecuteDivMul, ExecuteMduMove, ClearZeroRegs
  <1>9. Divisor = Src2(i, x, Read(s.gpi, i.c))
    BY <1>1, <1>2, Zenon DEF Divisor
  <1>10. /\ Visible(gpf') = Over(s.gpf, GpfWrites(s, i, x))
         /\ fr' = FlagsAfter(s, i, s.fr) /\ mem' = Over(s.mem, MemWrites(s, i, x))
    BY <1>2, <1>4, <1>6, <1>7, <1>8, WritesNothing
  <1>11. CASE ExecuteDivMul
    <2>1. Visible(gpi') = s.gpi /\ i.op \in DivOps \cup MulOps /\ i.op # AX_EXE_MDU_MOVETO
      BY <1>5, <1>11 DEF ExecuteDivMul, ClearZeroRegs, DivOps, MulOps, AX_EXE_MDU_MOVETO
    <2>2. mdu' = Over(s.mdu, MduWrites(s, i, x))
      <3>. DEFINE u == Read(s.gpi, i.b)
                  v == Src2(i, x, Read(s.gpi, i.c))
                  q == (u \div v) % SizeMod(i)
                  m == (u % v) % SizeMod(i)
      <3>1. CASE i.op \in DivOps
        <4>1. mdu' = [s.mdu EXCEPT ![0] = q, ![1] = m]
          BY <1>1, <1>2, <1>9, <1>11, <3>1, Zenon DEF ExecuteDivMul
        <4>2. MduWrites(s, i, x) = [k \in {0, 1} |-> (IF k = 0 THEN u \div v ELSE u % v) % SizeMod(i)]
          BY <3>1, Zenon DEF MduWrites
        <4>3. DOMAIN MduWrites(s, i, x) = {0, 1} /\ MduWrites(s, i, x)[0] = q
          BY <4>2
        <4>4. MduWrites(s, i, x)[1] = m
          BY <4>2
        <4>. HIDE DEF q, m
        <4>. QED
          BY <1>3, <4>1, <4>3, <4>4 DEF Over
      <3>2. CASE i.op \notin DivOps
        <4>1. i.op \in MulOps
          BY <2>1, <3>2
        <4>. DEFINE w == (u * v) % SizeMod(i)
        <4>2. mdu' = [s.mdu EXCEPT ![2] = w]
          BY <1>1, <1>2, <1>9, <1>11, <3>2, Zenon DEF ExecuteDivMul
        <4>3. MduWrites(s, i, x) = At(2, w)
          BY <3>2, <4>1, Zenon DEF MduWrites
        <4>. HIDE DEF w
        <4>. QED
          BY <1>3, <4>2, <4>3 DEF Over, At
      <3>. QED
        BY <3>1, <3>2
    <2>3. Wrote(s, i, x)
      BY <1>2, <1>4, <1>6, <1>7, <1>8, <2>1, <2>2, WritesNothing DEF Wrote
    <2>4. i.op \in DivOps => Src2(i, x, Read(s.gpi, i.c)) # 0
      BY <1>9, <1>11 DEF ExecuteDivMul
    <2>. QED
      BY <1>6, <1>7, <2>3, <2>4 DEF Faults, Executable
  <1>12. CASE ExecuteMduMove
    <2>1. i.op \in {AX_EXE_MDU_MOVETO, AX_EXE_MDU_MOVEFROM} /\ i.op \notin DivOps \cup MulOps
      BY <1>12 DEF ExecuteMduMove, DivOps, MulOps, AX_EXE_MDU_MOVETO, AX_EXE_MDU_MOVEFROM
    <2>2. ASSUME i.op = AX_EXE_MDU_MOVETO PROVE Wrote(s, i, x)
      <3>1. i.op # AX_EXE_MDU_MOVEFROM /\ i.op \notin DivOps \cup MulOps \cup {AX_EXE_MDU_MOVEFROM}
        BY <2>1, <2>2 DEF AX_EXE_MDU_MOVETO, AX_EXE_MDU_MOVEFROM
      <3>2. Visible(gpi') = Over(s.gpi, At(i.a, s.mdu[i.pq])) /\ mdu' = s.mdu
        BY <1>2, <1>5, <1>12, <2>2, <3>1 DEF ExecuteMduMove
      <3>3. GpiWrites(s, i, x) = At(i.a, s.mdu[i.pq])
        BY <1>7, <2>2, Zenon DEF GpiWrites
      <3>4. MduWrites(s, i, x) = Nothing
        BY <3>1, WritesNothing
      <3>. QED
        BY <1>4, <1>10, <3>2, <3>3, <3>4 DEF Wrote
    <2>3. ASSUME i.op = AX_EXE_MDU_MOVEFROM PROVE Wrote(s, i, x)
      <3>1. /\ i.op # AX_EXE_MDU_MOVETO
            /\ i.op \notin AluResultOps \cup LoadOps
                 \cup {AX_EXE_ALU_CMOVE, AX_EXE_ALU_CMOVEN, AX_EXE_MDU_MOVETO}
        BY <1>7, <2>3 DEF AX_EXE_MDU_MOVETO, AX_EXE_MDU_MOVEFROM
      <3>2. Visible(gpi') = s.gpi /\ mdu' = [s.mdu EXCEPT ![i.pq] = Read(s.gpi, i.b)]
        BY <1>1, <1>2, <1>5, <1>12, <2>3, <3>1 DEF ExecuteMduMove
      <3>3. MduWrites(s, i, x) = At(i.pq, Read(s.gpi, i.b))
        BY <2>1, <2>3, Zenon DEF MduWrites
      <3>4. mdu' = Over(s.mdu, MduWrites(s, i, x))
        BY <1>1, <1>3, <3>2, <3>3 DEF Over, At
      <3>5. GpiWrites(s, i, x) = Nothing
        BY <3>1, WritesNothing
      <3>. QED
        BY <1>4, <1>10, <3>2, <3>4, <3>5 DEF Wrote
    <2>4. Wrote(s, i, x)
      BY <2>1, <2>2, <2>3
    <2>. QED
      BY <1>6, <1>7, <2>1, <2>4 DEF Faults, Executable
  <1>. QED
    BY <1>11, <1>12

\* The branch unit writes no data.
LEMMA BranchEffect ==
  ASSUME TypeOK, NEW s, s = Snapshot, Branches
  PROVE  Wrote(s, First, Imm24) /\ ~Faults(s, 0, First, Imm24)
  <1>1. /\ First.op \in 112 .. 127 /\ ClearZeroRegs /\ UNCHANGED <<mdu, fr, mem>>
        /\ First.op = AX_EXE_BRU_OTHER => First.other \in {JUMPBR_ID, RET_ID, RETI_ID, SYSCALL_ID}
    BY DEF Branches, ExecuteBranch, ExecuteJump, ExecuteCall, ExecuteReturn, ExecuteSyscall, BranchOps,
           AX_EXE_BRU_JUMP, AX_EXE_BRU_CALL, AX_EXE_BRU_CALLR, AX_EXE_BRU_OTHER
  <1>2. Wrote(s, First, Imm24)
    BY <1>1, NoData
  <1>3. First.op \notin 32 .. 43 /\ First.op \notin DivOps
    BY <1>1 DEF DivOps
  <1>4. Executable(0, First)
    BY <1>1 DEF Executable, AX_EXE_BRU_OTHER
  <1>. QED
    BY <1>2, <1>3, <1>4 DEF Faults

-----------------------------------------------------------------------------
(* Independent instructions: what the second reads is what was there       *)
(* before the first.                                                       *)

\* The states of the abstract machine.
States ==
  [gpi : [GReg -> Word], gpf : [GReg -> Word], mdu : [0 .. 3 -> Word], fr : Flags,
   pc : Pc, lr : Pc, br : Pc, lc : Nat, ir : Pc, mem : [Loc -> Cell], trap : BOOLEAN]

\* What the core shows between bundles is a state of the abstract machine.
LEMMA SnapshotState ==
  ASSUME TypeOK
  PROVE  Snapshot \in States
  BY VisibleType DEF TypeOK, Snapshot, States

\* An instruction writes nothing but its destination.
LEMMA WriteDomains ==
  ASSUME NEW s, NEW i, NEW x
  PROVE  /\ DOMAIN GpiWrites(s, i, x) \subseteq GpiDest(i)
         /\ DOMAIN GpfWrites(s, i, x) \subseteq (IF i.op \in FLoadOps THEN {i.a} ELSE {})
         /\ DOMAIN MemWrites(s, i, x) \subseteq
              (IF i.op \in StoreOps \cup FStoreOps THEN AccessCells(i, Place(s, i, x)) ELSE {})
  <1>1. DOMAIN Nothing = {} /\ \A k, v : DOMAIN At(k, v) = {k}
    BY DEF Nothing, At
  <1>2. \/ GpiWrites(s, i, x) = Nothing
        \/ i.a \in GpiDest(i) /\ DOMAIN GpiWrites(s, i, x) = {i.a}
    BY <1>1, Zenon DEF GpiWrites, GpiDest
  <1>3. \/ GpfWrites(s, i, x) = Nothing
        \/ i.op \in FLoadOps /\ DOMAIN GpfWrites(s, i, x) = {i.a}
    BY <1>1, Zenon DEF GpfWrites
  <1>4. \/ MemWrites(s, i, x) = Nothing
        \/ /\ i.op \in StoreOps \cup FStoreOps
           /\ DOMAIN MemWrites(s, i, x) = AccessCells(i, Place(s, i, x))
    BY Zenon DEF MemWrites
  <1>. QED
    BY <1>1, <1>2, <1>3, <1>4

\* t is what the first instruction i makes of s.
After(t, s, i) ==
  /\ t.gpi = Over(s.gpi, GpiWrites(s, i, 0))
  /\ t.gpf = Over(s.gpf, GpfWrites(s, i, 0))
  /\ t.mem = Over(s.mem, MemWrites(s, i, 0))

\* What an independent second instruction reads.
LEMMA SecondReads ==
  ASSUME NEW s \in States, NEW t, NEW i \in Instr, NEW j \in Instr,
         After(t, s, i), Independent(s, i, j)
  PROVE  /\ \A k \in GpiReads(j) : Read(t.gpi, k) = Read(s.gpi, k)
         /\ \A k \in GpfUses(j) : Read(t.gpf, k) = Read(s.gpf, k)
         /\ \A l \in Touches(s, j) \cap Loc : t.mem[l] = s.mem[l]
         /\ j.op \in 32 .. 43 => Place(t, j, 0) = Place(s, j, 0)
  <1>1. /\ s.gpi \in [GReg -> Word] /\ s.gpf \in [GReg -> Word] /\ s.mem \in [Loc -> Cell]
    BY DEF States
  <1>2. GpiReads(j) \subseteq Reg /\ GpfUses(j) \subseteq Reg
    <2>1. 0 \in Reg /\ j.a \in Reg /\ j.b \in Reg /\ j.c \in Reg
      BY SizesAssumption DEF Instr, Reg
    <2>. QED
      BY <2>1 DEF GpiReads, GpfUses
  <1>3. \A k \in GpiReads(j) : Read(t.gpi, k) = Read(s.gpi, k)
    <2>. TAKE k \in GpiReads(j)
    <2>1. k # REG_ZERO => k \in GReg /\ k \notin DOMAIN GpiWrites(s, i, 0)
      BY <1>2, WriteDomains DEF Independent, GReg
    <2>. QED
      BY <1>1, <2>1 DEF Read, Over, After
  <1>4. \A k \in GpfUses(j) : Read(t.gpf, k) = Read(s.gpf, k)
    <2>. TAKE k \in GpfUses(j)
    <2>1. k # REG_ZERO => k \in GReg /\ k \notin DOMAIN GpfWrites(s, i, 0)
      BY <1>2, WriteDomains DEF Independent, GReg, GpfUses
    <2>. QED
      BY <1>1, <2>1 DEF Read, Over, After
  <1>5. \A l \in Touches(s, j) \cap Loc : t.mem[l] = s.mem[l]
    <2>. TAKE l \in Touches(s, j) \cap Loc
    <2>1. l \notin DOMAIN MemWrites(s, i, 0)
      <3>1. CASE i.op \in StoreOps \cup FStoreOps
        <4>1. i.op \in 32 .. 43
          BY <3>1 DEF StoreOps, FStoreOps
        <4>2. DOMAIN MemWrites(s, i, 0) \subseteq Touches(s, i)
          BY <3>1, <4>1, WriteDomains DEF Touches
        <4>. QED
          BY <3>1, <4>2 DEF Independent
      <3>2. CASE i.op \notin StoreOps \cup FStoreOps
        BY <3>2, WriteDomains
      <3>. QED
        BY <3>1, <3>2
    <2>. QED
      BY <1>1, <2>1 DEF Over, After
  <1>6. j.op \in 32 .. 43 => Place(t, j, 0) = Place(s, j, 0)
    <2>1. j.c \in GpiReads(j) /\ BaseReg(j) \in GpiReads(j)
      BY DEF GpiReads, BaseReg
    <2>. QED
      BY <1>3, <2>1, Zenon DEF Place
  <1>. QED
    BY <1>3, <1>4, <1>5, <1>6

\* The operations slot 1 executes.
Slot1Ops == AluResultOps \cup {0, AX_EXE_ALU_CMP, AX_EXE_ALU_CMOVE, AX_EXE_ALU_CMOVEN} \cup 32 .. 47

\* So an independent second instruction writes, and faults, as if the first had
\* not been executed yet.
LEMMA SecondEffects ==
  ASSUME NEW s \in States, NEW t \in States, NEW i \in Instr, NEW j \in Instr, NEW f,
         After(t, s, i), Independent(s, i, j), j.op \in Slot1Ops,
         j.op \in 32 .. 43 => Place(s, j, 0) \in Loc /\ InRegion(j, Place(s, j, 0))
  PROVE  /\ GpiWrites(t, j, 0) = GpiWrites(s, j, 0)
         /\ GpfWrites(t, j, 0) = GpfWrites(s, j, 0)
         /\ MemWrites(t, j, 0) = MemWrites(s, j, 0)
         /\ FlagsAfter(t, j, f) = FlagsAfter(s, j, f)
  <1>1. /\ \A k \in GpiReads(j) : Read(t.gpi, k) = Read(s.gpi, k)
        /\ \A k \in GpfUses(j) : Read(t.gpf, k) = Read(s.gpf, k)
        /\ \A l \in Touches(s, j) \cap Loc : t.mem[l] = s.mem[l]
        /\ j.op \in 32 .. 43 => Place(t, j, 0) = Place(s, j, 0)
    BY SecondReads
  <1>2. j.b \in GpiReads(j) /\ j.c \in GpiReads(j) /\ j.size \in {1, 2}
    BY DEF GpiReads, Instr
  <1>3. Read(t.gpi, j.b) = Read(s.gpi, j.b) /\ Read(t.gpi, j.c) = Read(s.gpi, j.c)
    BY <1>1, <1>2
  <1>4. ASSUME j.op \in LoadOps \cup FLoadOps, NEW old
        PROVE  Loaded(j, Place(t, j, 0), t.mem, old) = Loaded(j, Place(s, j, 0), s.mem, old)
    <2>. DEFINE l == Place(s, j, 0)
    <2>1. j.op \in 32 .. 43 /\ Place(t, j, 0) = l
      BY <1>1, <1>4 DEF LoadOps, FLoadOps
    <2>2. t.mem[l] = s.mem[l]
      BY <1>1, <2>1 DEF Touches, AccessCells
    <2>3. j.size = 2 => t.mem[NextCell(l)] = s.mem[NextCell(l)]
      BY <1>1, <2>1 DEF Touches, AccessCells, InRegion
    <2>. QED
      BY <1>2, <2>1, <2>2, <2>3, Zenon DEF Loaded
  <1>5. GpiWrites(t, j, 0) = GpiWrites(s, j, 0)
    <2>1. CASE j.op \in AluResultOps \cup {AX_EXE_ALU_CMOVE, AX_EXE_ALU_CMOVEN}
      <3>1. j.op = AX_EXE_ALU_INS => Read(t.gpi, j.a) = Read(s.gpi, j.a)
        BY <1>1 DEF GpiReads
      <3>2. j.op \notin LoadOps /\ j.op # AX_EXE_MDU_MOVETO
        BY <2>1 DEF AluResultOps, LoadOps, AX_EXE_ALU_CMOVE, AX_EXE_ALU_CMOVEN, AX_EXE_MDU_MOVETO
      <3>. QED
        BY <1>3, <3>1, <3>2, Zenon DEF GpiWrites
    <2>2. CASE j.op \in LoadOps
      <3>1. Read(t.gpi, j.a) = Read(s.gpi, j.a)
        BY <1>1, <2>2 DEF GpiReads
      <3>2. \A old : Loaded(j, Place(t, j, 0), t.mem, old) = Loaded(j, Place(s, j, 0), s.mem, old)
        BY <1>4, <2>2
      <3>3. j.op \notin AluResultOps /\ j.op \notin {AX_EXE_ALU_CMOVE, AX_EXE_ALU_CMOVEN}
        BY <2>2 DEF AluResultOps, LoadOps, AX_EXE_ALU_CMOVE, AX_EXE_ALU_CMOVEN
      <3>. QED
        BY <2>2, <3>1, <3>2, <3>3, Zenon DEF GpiWrites
    <2>3. CASE j.op \notin AluResultOps \cup LoadOps \cup {AX_EXE_ALU_CMOVE, AX_EXE_ALU_CMOVEN}
      <3>1. j.op # AX_EXE_MDU_MOVETO
        BY DEF Slot1Ops, AluResultOps, AX_EXE_ALU_CMP, AX_EXE_ALU_CMOVE, AX_EXE_ALU_CMOVEN,
               AX_EXE_MDU_MOVETO
      <3>2. j.op \notin AluResultOps \cup LoadOps
              \cup {AX_EXE_ALU_CMOVE, AX_EXE_ALU_CMOVEN, AX_EXE_MDU_MOVETO}
        BY <2>3, <3>1
      <3>. QED
        BY <3>2, WritesNothing
    <2>. QED
      BY <2>1, <2>2, <2>3
  <1>6. GpfWrites(t, j, 0) = GpfWrites(s, j, 0)
    <2>1. CASE j.op \in FLoadOps
      <3>1. Read(t.gpf, j.a) = Read(s.gpf, j.a)
        BY <1>1, <2>1 DEF GpfUses
      <3>2. \A old : Loaded(j, Place(t, j, 0), t.mem, old) = Loaded(j, Place(s, j, 0), s.mem, old)
        BY <1>4, <2>1
      <3>. QED
        BY <2>1, <3>1, <3>2, Zenon DEF GpfWrites
    <2>2. CASE j.op \notin FLoadOps
      BY <2>2, WritesNothing
    <2>. QED
      BY <2>1, <2>2
  <1>7. MemWrites(t, j, 0) = MemWrites(s, j, 0)
    <2>1. CASE j.op \in StoreOps \cup FStoreOps
      <3>. DEFINE l == Place(s, j, 0)
                  v == Read(IF j.op \in StoreOps THEN s.gpi ELSE s.gpf, j.a)
      <3>1. j.op \in 32 .. 43 /\ Place(t, j, 0) = l
        BY <1>1, <2>1 DEF StoreOps, FStoreOps
      <3>2. v = Read(IF j.op \in StoreOps THEN t.gpi ELSE t.gpf, j.a)
        <4>1. CASE j.op \in StoreOps
          <5>1. j.a \in GpiReads(j)
            BY <4>1 DEF GpiReads
          <5>. QED
            BY <1>1, <4>1, <5>1
        <4>2. CASE j.op \notin StoreOps
          <5>1. j.a \in GpfUses(j)
            BY <2>1, <4>2 DEF GpfUses
          <5>. QED
            BY <1>1, <4>2, <5>1
        <4>. QED
          BY <4>1, <4>2
      <3>3. \A c \in AccessCells(j, l) : Stored(j, l, t.mem, v)[c] = Stored(j, l, s.mem, v)[c]
        <4>1. s.mem \in [Loc -> Cell] /\ t.mem \in [Loc -> Cell] /\ l \in Loc
              /\ (j.size = 2 => NextCell(l) \in Loc)
          BY <3>1 DEF States, InRegion
        <4>. QED
          BY <1>2, <4>1 DEF Stored, AccessCells
      <3>4. /\ MemWrites(t, j, 0) = [c \in AccessCells(j, l) |-> Stored(j, l, t.mem, v)[c]]
            /\ MemWrites(s, j, 0) = [c \in AccessCells(j, l) |-> Stored(j, l, s.mem, v)[c]]
        BY <2>1, <3>1, <3>2, Zenon DEF MemWrites
      <3>. HIDE DEF l, v
      <3>. QED
        BY <3>3, <3>4
    <2>2. CASE j.op \notin StoreOps \cup FStoreOps
      BY <2>2, WritesNothing
    <2>. QED
      BY <2>1, <2>2
  <1>8. FlagsAfter(t, j, f) = FlagsAfter(s, j, f)
    BY <1>3, Zenon DEF FlagsAfter
  <1>. QED
    BY <1>5, <1>6, <1>7, <1>8

-----------------------------------------------------------------------------
(* The invariant of the refinement.                                        *)

\* The bundle under execution is the one at pre.pc in pre.mem, and no call was
\* pending when it was entered.
Entered ==
  /\ pre \in States /\ ~pre.trap /\ pre.pc = old_pc /\ HasBundle(pre.pc)
  /\ First = FirstAt(pre.mem, pre.pc) /\ Second = SecondAt(pre.mem, pre.pc)

\* Control has gone where the first instruction sends it.
Turned ==
  /\ Target(pre, First, Second) # pre.pc => PcAdd(pc, Count) = Target(pre, First, Second)
  /\ lr = NextLr(pre, First) /\ ir = NextIr(pre, First) /\ lc = NextLc(pre, First)
  /\ br = pre.br
  /\ (msys = 1) = Traps(First)

\* The data the first instruction writes have been written.
FirstDone ==
  /\ ~Faults(pre, 0, First, Imm24)
  /\ Visible(gpi) = Over(pre.gpi, GpiWrites(pre, First, Imm24))
  /\ Visible(gpf) = Over(pre.gpf, GpfWrites(pre, First, Imm24))
  /\ mdu = Over(pre.mdu, MduWrites(pre, First, Imm24))
  /\ fr  = FlagsAfter(pre, First, pre.fr)
  /\ mem = Over(pre.mem, MemWrites(pre, First, Imm24))

\* Both instructions have been executed and were independent: each wrote what
\* it computes from the state before the bundle.
Parallel ==
  /\ ~Faults(pre, 1, Second, 0)
  /\ Visible(gpi) = Over(Over(pre.gpi, GpiWrites(pre, First, 0)), GpiWrites(pre, Second, 0))
  /\ Visible(gpf) = Over(Over(pre.gpf, GpfWrites(pre, First, 0)), GpfWrites(pre, Second, 0))
  /\ fr  = FlagsAfter(pre, Second, FlagsAfter(pre, First, pre.fr))
  /\ mem = Over(Over(pre.mem, MemWrites(pre, First, 0)), MemWrites(pre, Second, 0))

\* They were not: what neither of them writes is still as before the bundle.
Clash ==
  /\ \A r \in GReg \ {First.a, Second.a} :
       Visible(gpi)[r] = pre.gpi[r] /\ Visible(gpf)[r] = pre.gpf[r]
  /\ fr # pre.fr => AX_EXE_ALU_CMP \in {First.op, Second.op}
  /\ mem # pre.mem => {First.op, Second.op} \cap (StoreOps \cup FStoreOps) # {}

BothDone ==
  /\ ~Faults(pre, 0, First, 0)
  /\ mdu = Over(pre.mdu, MduWrites(pre, First, 0))
  /\ IF Independent(pre, First, Second) THEN Parallel ELSE Clash

\* How far the core is from the state in which it entered the bundle.
RefInv ==
  /\ InBundle => Entered
  /\ phase = "slot0"  => pre = Snapshot
  /\ phase = "slot1"  => Paired /\ FirstDone /\ Turned
  /\ phase = "retire" => Turned /\ IF Paired THEN BothDone ELSE FirstDone

\* What slot 0 does to pc and Count together is a transfer to Target, unless that
\* is where the bundle is.
LEMMA TurnedStep ==
  ASSUME TypeOK, TypeOK', pre = Snapshot, old_pc = pc,
         UNCHANGED <<latch, br>>,
         \/ pc' = Target(pre, First, Second)
         \/ pc' = pc /\ Target(pre, First, Second) = Behind(pre, First),
         lr' = NextLr(pre, First), ir' = NextIr(pre, First), lc' = NextLc(pre, First),
         (msys' = 1) = Traps(First)
  PROVE  Turned'
  <1>1. First' = First /\ Second' = Second /\ pre' = pre /\ old_pc' = pc
    BY DEF latch, First, Second
  <1>2. pre.pc = pc /\ pre.br = br
    BY DEF Snapshot
  <1>3. Count' = IF pc' # pc THEN 0 ELSE BundleSize(First)
    BY <1>1 DEF Count
  <1>4. Behind(pre, First) = PcAdd(pc, BundleSize(First))
    BY <1>2 DEF Behind
  <1>5. ASSUME Target(pre, First, Second) # pc
        PROVE  PcAdd(pc', Count') = Target(pre, First, Second)
    <2>1. CASE pc' = pc
      <3>1. Target(pre, First, Second) = Behind(pre, First)
        BY <1>5, <2>1
      <3>. QED
        BY <1>3, <1>4, <2>1, <3>1
    <2>2. CASE pc' # pc
      <3>1. Target(pre, First, Second) = pc'
        BY <2>2
      <3>2. PcAdd(pc', 0) = pc'
        BY PcAddZero DEF TypeOK
      <3>. QED
        BY <1>3, <2>2, <3>1, <3>2
    <2>. QED
      BY <2>1, <2>2
  <1>. QED
    BY <1>1, <1>2, <1>5 DEF Turned

\* An instruction that is not one of the branch unit turns nothing.
LEMMA StraightOn ==
  ASSUME NEW s, NEW i, NEW j, i.op \notin 112 .. 127
  PROVE  /\ Target(s, i, j) = Behind(s, i)
         /\ NextLr(s, i) = s.lr /\ NextIr(s, i) = s.ir /\ NextLc(s, i) = s.lc
  <1>1. /\ i.op \notin BranchOps /\ i.op # AX_EXE_BRU_LOOP
        /\ i.op \notin {AX_EXE_BRU_JUMP, AX_EXE_BRU_CALL} /\ i.op # AX_EXE_BRU_CALLR
        /\ i.op # AX_EXE_BRU_OTHER /\ i.op \notin {AX_EXE_BRU_CALL, AX_EXE_BRU_CALLR}
    BY DEF BranchOps, AX_EXE_BRU_JUMP, AX_EXE_BRU_CALL, AX_EXE_BRU_CALLR, AX_EXE_BRU_OTHER,
           AX_EXE_BRU_LOOP
  <1>. QED
    BY <1>1, Zenon DEF Target, Calls, Traps, NextLr, NextIr, NextLc

\* Slot 0 sends control where AxBundle says.
LEMMA Slot0Turns ==
  ASSUME TypeOK, TypeOK', pre = Snapshot, old_pc = pc, msys = 0,
         ExecutesAny(0) \/ ExecuteDivMul \/ ExecuteMduMove \/ Branches
  PROVE  Turned'
  <1>1. /\ pre.pc = pc /\ pre.lr = lr /\ pre.br = br /\ pre.ir = ir /\ pre.lc = lc
        /\ pre.fr = fr
    BY DEF Snapshot
  <1>2. CASE ExecutesAny(0) \/ ExecuteDivMul \/ ExecuteMduMove
    <2>1. First.op \notin 112 .. 127 /\ UNCHANGED <<flow, latch, msys>>
      BY <1>2 DEF ExecutesAny, ExecuteAluResult, ExecuteCmove, ExecuteCmp, ExecuteNop, ExecuteLoad,
                  ExecuteStore, ExecuteDivMul, ExecuteMduMove, Op, AluResultOps, AX_EXE_ALU_CMOVE,
                  AX_EXE_ALU_CMOVEN, AX_EXE_ALU_CMP, LoadOps, FLoadOps, StoreOps, FStoreOps, DivOps,
                  MulOps, AX_EXE_MDU_MOVETO, AX_EXE_MDU_MOVEFROM
    <2>2. (msys' = 1) = Traps(First)
      BY <2>1 DEF Traps, AX_EXE_BRU_OTHER
    <2>. QED
      BY <1>1, <2>1, <2>2, StraightOn, TurnedStep DEF flow
  <1>3. CASE ExecuteBranch
    <2>1. /\ First.op \in BranchOps /\ First.op \notin {AX_EXE_BRU_JUMP, AX_EXE_BRU_CALL}
          /\ First.op # AX_EXE_BRU_CALLR /\ First.op # AX_EXE_BRU_OTHER
          /\ First.op \notin {AX_EXE_BRU_CALL, AX_EXE_BRU_CALLR}
      BY <1>3 DEF ExecuteBranch, BranchOps, AX_EXE_BRU_JUMP, AX_EXE_BRU_CALL, AX_EXE_BRU_CALLR,
                  AX_EXE_BRU_OTHER
    <2>2. UNCHANGED <<latch, br>> /\ msys' = msys /\ lr' = lr /\ ir' = ir
      BY <1>3 DEF ExecuteBranch
    <2>3. lc' = NextLc(pre, First) /\ lr' = NextLr(pre, First) /\ ir' = NextIr(pre, First)
          /\ (msys' = 1) = Traps(First)
      BY <1>1, <1>3, <2>1, <2>2 DEF ExecuteBranch, NextLc, NextLr, NextIr, Traps, Calls
    <2>4. \/ pc' = Target(pre, First, Second)
          \/ pc' = pc /\ Target(pre, First, Second) = Behind(pre, First)
      BY <1>1, <1>3, <2>1, Zenon DEF ExecuteBranch, BranchImm, Target
    <2>. QED
      BY <2>2, <2>3, <2>4, TurnedStep
  <1>4. CASE ExecuteJump \/ ExecuteCall
    <2>1. /\ First.op \in {AX_EXE_BRU_JUMP, AX_EXE_BRU_CALL, AX_EXE_BRU_CALLR}
          /\ First.op \notin BranchOps /\ First.op # AX_EXE_BRU_LOOP /\ First.op # AX_EXE_BRU_OTHER
          /\ AX_EXE_BRU_JUMP # AX_EXE_BRU_CALL /\ AX_EXE_BRU_CALL # AX_EXE_BRU_CALLR
          /\ AX_EXE_BRU_JUMP # AX_EXE_BRU_CALLR
      BY <1>4 DEF ExecuteJump, ExecuteCall, BranchOps, AX_EXE_BRU_JUMP, AX_EXE_BRU_CALL,
                  AX_EXE_BRU_CALLR, AX_EXE_BRU_OTHER, AX_EXE_BRU_LOOP
    <2>2. UNCHANGED <<latch, br>> /\ msys' = msys /\ lc' = lc /\ ir' = ir
      BY <1>4 DEF ExecuteJump, ExecuteCall
    <2>3. lc' = NextLc(pre, First) /\ ir' = NextIr(pre, First) /\ (msys' = 1) = Traps(First)
      BY <1>1, <2>1, <2>2 DEF NextLc, NextIr, Traps
    <2>4. lr' = NextLr(pre, First)
      BY <1>1, <1>4, <2>1, Zenon DEF ExecuteJump, ExecuteCall, NextLr, Calls, Behind, ReturnAddress
    <2>5. pc' = Target(pre, First, Second)
      BY <1>1, <1>4, <2>1, Zenon DEF ExecuteJump, ExecuteCall, BranchImm, Target
    <2>. QED
      BY <2>2, <2>3, <2>4, <2>5, TurnedStep
  <1>5. CASE ExecuteReturn \/ ExecuteSyscall
    <2>1. /\ First.op = AX_EXE_BRU_OTHER /\ First.op \notin BranchOps /\ First.op # AX_EXE_BRU_LOOP
          /\ First.op \notin {AX_EXE_BRU_JUMP, AX_EXE_BRU_CALL} /\ First.op # AX_EXE_BRU_CALLR
          /\ First.op \notin {AX_EXE_BRU_CALL, AX_EXE_BRU_CALLR}
          /\ JUMPBR_ID # RET_ID /\ JUMPBR_ID # RETI_ID /\ RET_ID # RETI_ID
          /\ SYSCALL_ID # JUMPBR_ID /\ SYSCALL_ID # RET_ID /\ SYSCALL_ID # RETI_ID
      BY <1>5 DEF ExecuteReturn, ExecuteSyscall, BranchOps, AX_EXE_BRU_JUMP, AX_EXE_BRU_CALL,
                  AX_EXE_BRU_CALLR, AX_EXE_BRU_OTHER, AX_EXE_BRU_LOOP, JUMPBR_ID, RET_ID, RETI_ID,
                  SYSCALL_ID
    <2>2. UNCHANGED <<latch, br>> /\ lc' = lc /\ lr' = lr
      BY <1>5 DEF ExecuteReturn, ExecuteSyscall
    <2>3. lc' = NextLc(pre, First) /\ lr' = NextLr(pre, First)
      BY <1>1, <2>1, <2>2 DEF NextLc, NextLr, Calls
    <2>4. ir' = NextIr(pre, First) /\ (msys' = 1) = Traps(First)
      BY <1>1, <1>5, <2>1 DEF ExecuteReturn, ExecuteSyscall, NextIr, Traps
    <2>5. pc' = Target(pre, First, Second)
      BY <1>1, <1>5, <2>1, Zenon DEF ExecuteReturn, ExecuteSyscall, OtherTarget, Target
    <2>. QED
      BY <2>2, <2>3, <2>4, <2>5, TurnedStep
  <1>. QED
    BY <1>2, <1>3, <1>4, <1>5 DEF Branches

-----------------------------------------------------------------------------
(* RefInv is inductive.                                                    *)

\* Executing slot 0 brings the core to FirstDone and Turned.
LEMMA Slot0Ref ==
  ASSUME TypeOK, TypeOK', TrapInv, RefInv, phase = "slot0",
         ExecutesAny(0) \/ ExecuteDivMul \/ ExecuteMduMove \/ Branches
  PROVE  RefInv'
  <1>1. UNCHANGED latch /\ SlotDone(0)
    BY DEF ExecutesAny, Branches, ExecuteAluResult, ExecuteCmove, ExecuteCmp, ExecuteNop, ExecuteLoad,
           ExecuteStore, ExecuteDivMul, ExecuteMduMove, ExecuteBranch, ExecuteJump, ExecuteCall,
           ExecuteReturn, ExecuteSyscall
  <1>2. /\ First' = First /\ Second' = Second /\ Imm24' = Imm24 /\ Paired' = Paired
        /\ pre' = pre /\ old_pc' = old_pc
    BY <1>1 DEF latch, First, Second, Imm24, Paired
  <1>3. Entered /\ pre = Snapshot
    BY DEF RefInv, InBundle
  <1>4. Entered'
    BY <1>2, <1>3 DEF Entered
  <1>5. FirstDone'
    <2>1. Wrote(pre, First, Imm24) /\ ~Faults(pre, 0, First, Imm24)
      BY <1>3, SlotEffect, MduEffect, BranchEffect DEF Op
    <2>. QED
      BY <1>2, <2>1, Zenon DEF Wrote, FirstDone
  <1>6. Turned'
    <2>1. pc = old_pc /\ msys = 0
      BY DEF TrapInv, TrapPending, TypeOK
    <2>. QED
      BY <1>3, <2>1, Slot0Turns
  <1>7. phase' = IF Paired' THEN "slot1" ELSE "retire"
    BY <1>1, <1>2 DEF SlotDone
  <1>. QED
    BY <1>4, <1>5, <1>6, <1>7 DEF RefInv

\* Executing slot 1 brings it to BothDone.
LEMMA Slot1Ref ==
  ASSUME TypeOK, RefInv, phase = "slot1", ExecutesAny(1)
  PROVE  RefInv'
  <1>. DEFINE t == Snapshot
              j == Second
  <1>1. UNCHANGED <<flow, msys, latch>> /\ SlotDone(1)
    BY DEF ExecutesAny, ExecuteAluResult, ExecuteCmove, ExecuteCmp, ExecuteNop, ExecuteLoad, ExecuteStore
  <1>2. /\ First' = First /\ Second' = Second /\ Paired' = Paired
        /\ pre' = pre /\ old_pc' = old_pc /\ UNCHANGED <<pc, lr, br, lc, ir, msys>>
    BY <1>1 DEF latch, flow, First, Second, Paired
  <1>3. Entered /\ Paired /\ FirstDone /\ Turned
    BY DEF RefInv, InBundle
  <1>4. Imm24 = 0
    BY <1>3 DEF Paired, PairOf, Imm24, ExtImm
  <1>5. First \in Instr /\ j \in Instr /\ j = Op(1) /\ pre \in States
    BY <1>3, BundleType DEF Op, Entered
  <1>6. /\ t \in States /\ t.gpi = Visible(gpi) /\ t.gpf = Visible(gpf)
        /\ t.mdu = mdu /\ t.fr = fr /\ t.mem = mem
    BY SnapshotState DEF Snapshot
  <1>7. Wrote(t, j, 0) /\ ~Faults(t, 1, j, 0)
    BY <1>4, <1>5, SlotEffect
  <1>8. /\ j.op \in Slot1Ops /\ j.op \notin DivOps
        /\ j.op \notin DivOps \cup MulOps \cup {AX_EXE_MDU_MOVEFROM}
    <2>1. j.op \in Slot1Ops
      BY <1>7 DEF Faults, Executable, Slot1Ops
    <2>. QED
      BY <2>1 DEF Slot1Ops, AluResultOps, AX_EXE_ALU_CMP, AX_EXE_ALU_CMOVE, AX_EXE_ALU_CMOVEN, DivOps,
                  MulOps, AX_EXE_MDU_MOVEFROM
  <1>9. After(t, pre, First)
    BY <1>3, <1>4, <1>6 DEF After, FirstDone
  <1>10. Turned' /\ Entered'
    BY <1>2, <1>3 DEF Turned, Entered, Count
  <1>11. mdu' = Over(pre.mdu, MduWrites(pre, First, 0))
    <2>1. mdu' = Over(mdu, Nothing)
      BY <1>6, <1>7, <1>8, WritesNothing DEF Wrote
    <2>2. mdu \in [0 .. 3 -> Word]
      BY DEF TypeOK
    <2>. QED
      BY <1>3, <1>4, <2>1, <2>2, OverNothing DEF FirstDone
  <1>12. ~Faults(pre, 0, First, 0)
    BY <1>3, <1>4 DEF FirstDone
  <1>13. ASSUME Independent(pre, First, j) PROVE BothDone'
    <2>1. j.op \in 32 .. 43 => Place(pre, j, 0) = Place(t, j, 0)
      BY <1>5, <1>9, <1>13, SecondReads
    <2>2. j.op \in 32 .. 43 => Place(pre, j, 0) \in Loc /\ InRegion(j, Place(pre, j, 0))
      <3>1. j.op \in 32 .. 43 => Place(t, j, 0) \in Loc
        BY <1>4, <1>5, AccessType, SnapshotReads
      <3>. QED
        BY <1>7, <2>1, <3>1 DEF Faults
    <2>3. /\ GpiWrites(t, j, 0) = GpiWrites(pre, j, 0) /\ GpfWrites(t, j, 0) = GpfWrites(pre, j, 0)
          /\ MemWrites(t, j, 0) = MemWrites(pre, j, 0)
          /\ FlagsAfter(t, j, fr) = FlagsAfter(pre, j, fr)
      BY <1>5, <1>6, <1>8, <1>9, <1>13, <2>2, SecondEffects
    <2>4. ~Faults(pre, 1, j, 0)
      BY <1>7, <1>8, <2>2 DEF Faults
    <2>5. Parallel'
      BY <1>2, <1>3, <1>4, <1>6, <1>7, <2>3, <2>4 DEF Parallel, Wrote, FirstDone
    <2>. QED
      BY <1>2, <1>11, <1>12, <1>13, <2>5 DEF BothDone
  <1>14. ASSUME ~Independent(pre, First, j) PROVE BothDone'
    <2>1. /\ DOMAIN GpiWrites(pre, First, 0) \subseteq {First.a} /\ DOMAIN GpiWrites(t, j, 0) \subseteq {j.a}
          /\ DOMAIN GpfWrites(pre, First, 0) \subseteq {First.a} /\ DOMAIN GpfWrites(t, j, 0) \subseteq {j.a}
      BY WriteDomains DEF GpiDest
    <2>2. ASSUME NEW r \in GReg \ {First.a, j.a}
          PROVE  Visible(gpi')[r] = pre.gpi[r] /\ Visible(gpf')[r] = pre.gpf[r]
      <3>1. pre.gpi \in [GReg -> Word] /\ pre.gpf \in [GReg -> Word]
        BY <1>5 DEF States
      <3>2. t.gpi \in [GReg -> Word] /\ t.gpf \in [GReg -> Word]
        BY <1>6 DEF States
      <3>3. t.gpi[r] = pre.gpi[r] /\ t.gpf[r] = pre.gpf[r]
        BY <1>9, <2>1, <3>1 DEF After, Over
      <3>4. /\ Visible(gpi') = Over(t.gpi, GpiWrites(t, j, 0))
            /\ Visible(gpf') = Over(t.gpf, GpfWrites(t, j, 0))
        BY <1>7 DEF Wrote
      <3>. HIDE DEF t
      <3>. QED
        BY <2>1, <3>2, <3>3, <3>4 DEF Over
    <2>3. fr' # pre.fr => AX_EXE_ALU_CMP \in {First.op, j.op}
      <3>1. First.op # AX_EXE_ALU_CMP => t.fr = pre.fr
        BY <1>3, <1>6, WritesNothing DEF FirstDone
      <3>2. j.op # AX_EXE_ALU_CMP => fr' = t.fr
        BY <1>7, WritesNothing DEF Wrote
      <3>. QED
        BY <3>1, <3>2
    <2>4. mem' # pre.mem => {First.op, j.op} \cap (StoreOps \cup FStoreOps) # {}
      <3>1. First.op \notin StoreOps \cup FStoreOps => t.mem = pre.mem
        <4>1. pre.mem \in [Loc -> Cell]
          BY <1>5 DEF States
        <4>. QED
          BY <1>9, <4>1, WritesNothing, OverNothing DEF After
      <3>2. j.op \notin StoreOps \cup FStoreOps => mem' = t.mem
        <4>1. t.mem \in [Loc -> Cell]
          BY <1>6 DEF States
        <4>. QED
          BY <1>7, <4>1, WritesNothing, OverNothing DEF Wrote
      <3>. QED
        BY <3>1, <3>2
    <2>5. Clash'
      BY <1>2, <2>2, <2>3, <2>4 DEF Clash
    <2>. QED
      BY <1>2, <1>11, <1>12, <1>14, <2>5 DEF BothDone
  <1>15. BothDone'
    BY <1>13, <1>14
  <1>16. phase' = "retire" /\ Paired'
    BY <1>1, <1>2, <1>3 DEF SlotDone
  <1>. QED
    BY <1>10, <1>15, <1>16 DEF RefInv

\* A step that leaves the registers, the memory and the bundle alone.
LEMMA StillRef ==
  ASSUME RefInv, UNCHANGED <<gpi, gpf, mdu, fr, flow, msys, mem, latch, phase>>
  PROVE  RefInv'
  <1>1. /\ First' = First /\ Second' = Second /\ Imm24' = Imm24 /\ Paired' = Paired /\ Count' = Count
        /\ Snapshot' = Snapshot /\ UNCHANGED <<gpi, gpf, mdu, fr, mem, msys, pc, lr, br, lc, ir, pre, old_pc>>
    BY DEF First, Second, Imm24, Paired, Count, Snapshot, flow, latch
  <1>2. /\ Entered' = Entered /\ FirstDone' = FirstDone /\ Turned' = Turned /\ BothDone' = BothDone
    BY <1>1 DEF Entered, FirstDone, Turned, BothDone, Parallel, Clash
  <1>. QED
    BY <1>1, <1>2 DEF RefInv, InBundle

\* Every step of the run loop keeps RefInv.
LEMMA NextRef == TypeOK /\ TypeOK' /\ TrapInv /\ RefInv /\ [Next]_vars => RefInv'
  <1>. SUFFICES ASSUME TypeOK, TypeOK', TrapInv, RefInv, [Next]_vars PROVE RefInv'
    OBVIOUS
  <1>1. CASE UNCHANGED vars
    BY <1>1, StillRef DEF vars
  <1>2. ASSUME NEW why, Stop(why) PROVE RefInv'
    BY <1>2, StillRef DEF Stop
  <1>3. CASE \/ ExecutesAny(0) \/ ExecuteDivMul \/ ExecuteMduMove \/ Branches
    <2>1. phase = "slot0"
      BY <1>3 DEF ExecutesAny, Branches, ExecuteAluResult, ExecuteCmove, ExecuteCmp, ExecuteNop,
                  ExecuteLoad, ExecuteStore, ExecuteDivMul, ExecuteMduMove, ExecuteBranch, ExecuteJump,
                  ExecuteCall, ExecuteReturn, ExecuteSyscall, Issued, SlotPhase
    <2>. QED
      BY <1>3, <2>1, Slot0Ref
  <1>4. CASE ExecutesAny(1)
    <2>1. phase = "slot1"
      BY <1>4 DEF ExecutesAny, ExecuteAluResult, ExecuteCmove, ExecuteCmp, ExecuteNop, ExecuteLoad,
                  ExecuteStore, Issued, SlotPhase
    <2>. QED
      BY <1>4, <2>1, Slot1Ref
  <1>5. ASSUME NEW slot \in {0, 1}, ExecuteSlot(slot) PROVE RefInv'
    BY <1>2, <1>3, <1>4, <1>5 DEF ExecuteSlot, ExecutesAny, AccessOutside, AssertFails
  <1>6. CASE ExecuteSlot0Only
    BY <1>2, <1>3, <1>6 DEF ExecuteSlot0Only, Branches, DivideByZero
  <1>7. CASE Fetch
    <2>1. /\ phase' = "slot0" /\ pre' = Snapshot /\ old_pc' = pc /\ HasBundle(pc) /\ Snapshot' = Snapshot
          /\ First' = FirstAt(mem, pc) /\ Second' = SecondAt(mem, pc) /\ msys # 1
      BY <1>7 DEF Fetch, First, Second, FirstAt, SecondAt, Snapshot, flow, TrapInv, TrapPending, TypeOK
    <2>2. Snapshot \in States /\ Snapshot.pc = pc /\ Snapshot.mem = mem /\ ~Snapshot.trap
      <3>1. Snapshot.pc = pc /\ Snapshot.mem = mem
        BY DEF Snapshot
      <3>2. ~Snapshot.trap
        BY <2>1, Zenon DEF Snapshot
      <3>. QED
        BY <3>1, <3>2, SnapshotState
    <2>3. Entered'
      BY <2>1, <2>2 DEF Entered
    <2>. QED
      BY <2>1, <2>3 DEF RefInv
  <1>8. CASE Retire
    BY <1>8 DEF Retire, RefInv, InBundle
  <1>9. CASE EmulDone
    BY <1>9 DEF EmulDone, RefInv, InBundle
  <1>10. CASE Emulate \/ SysGetchar
    BY <1>2, <1>9, <1>10 DEF Emulate, NoSyscall, SysPuts, SysClear, SysExit, SysOther, SysGetchar
  <1>. QED
    BY <1>1, <1>2, <1>5, <1>6, <1>7, <1>8, <1>10 DEF Next, RunLoop, FetchOutside

\* No bundle is under execution at the start.
LEMMA InitRef == Init => RefInv
  BY DEF Init, RefInv, InBundle

-----------------------------------------------------------------------------
(* The operators of AxVliw, instantiated, are those of AxBundle and AxISA. *)

\* Codes, sets and the text of the program.
LEMMA SameCodes ==
  /\ V!AX_EXE_ALU_INS = AX_EXE_ALU_INS /\ V!AX_EXE_ALU_CMP = AX_EXE_ALU_CMP /\ V!AX_EXE_ALU_CMOVEN = AX_EXE_ALU_CMOVEN
  /\ V!AX_EXE_ALU_CMOVE = AX_EXE_ALU_CMOVE /\ V!AluResultOps = AluResultOps /\ V!LoadOps = LoadOps
  /\ V!StoreOps = StoreOps /\ V!FLoadOps = FLoadOps /\ V!FStoreOps = FStoreOps
  /\ V!DivOps = DivOps /\ V!MulOps = MulOps /\ V!AX_EXE_MDU_MOVETO = AX_EXE_MDU_MOVETO
  /\ V!AX_EXE_MDU_MOVEFROM = AX_EXE_MDU_MOVEFROM /\ V!BranchOps = BranchOps /\ V!AX_EXE_BRU_LOOP = AX_EXE_BRU_LOOP
  /\ V!AX_EXE_BRU_JUMP = AX_EXE_BRU_JUMP /\ V!AX_EXE_BRU_CALL = AX_EXE_BRU_CALL /\ V!AX_EXE_BRU_CALLR = AX_EXE_BRU_CALLR
  /\ V!AX_EXE_BRU_OTHER = AX_EXE_BRU_OTHER /\ V!JUMPBR_ID = JUMPBR_ID /\ V!RET_ID = RET_ID
  /\ V!RETI_ID = RETI_ID /\ V!SYSCALL_ID = SYSCALL_ID /\ V!TrapVector = TrapVector
  /\ V!REG_ZERO = REG_ZERO
  /\ V!GReg = GReg /\ V!Word = Word /\ V!Cell = Cell /\ V!Flags = Flags /\ V!Pc = Pc
  /\ \A p : V!HasBundle(p) = HasBundle(p)
  /\ \A m, p : V!FirstAt(m, p) = FirstAt(m, p) /\ V!SecondAt(m, p) = SecondAt(m, p)
  /\ \A i, j : V!PairOf(i, j) = PairOf(i, j) /\ V!ExtImm(i, j) = ExtImm(i, j)
  BY Zenon DEF V!AX_EXE_ALU_INS, AX_EXE_ALU_INS, V!AX_EXE_ALU_CMP, AX_EXE_ALU_CMP,
               V!AX_EXE_ALU_CMOVEN, AX_EXE_ALU_CMOVEN, V!AX_EXE_ALU_CMOVE, AX_EXE_ALU_CMOVE,
               V!AluResultOps, AluResultOps, V!LoadOps, LoadOps, V!StoreOps, StoreOps, V!FLoadOps,
               FLoadOps, V!FStoreOps, FStoreOps, V!DivOps, DivOps, V!MulOps, MulOps,
               V!AX_EXE_MDU_MOVETO, AX_EXE_MDU_MOVETO, V!AX_EXE_MDU_MOVEFROM, AX_EXE_MDU_MOVEFROM,
               V!BranchOps, BranchOps, V!AX_EXE_BRU_LOOP, AX_EXE_BRU_LOOP, V!AX_EXE_BRU_JUMP,
               AX_EXE_BRU_JUMP, V!AX_EXE_BRU_CALL, AX_EXE_BRU_CALL, V!AX_EXE_BRU_CALLR,
               AX_EXE_BRU_CALLR, V!AX_EXE_BRU_OTHER, AX_EXE_BRU_OTHER, V!JUMPBR_ID, JUMPBR_ID,
               V!RET_ID, RET_ID, V!RETI_ID, RETI_ID, V!SYSCALL_ID, SYSCALL_ID, V!TrapVector,
               TrapVector, V!REG_ZERO, REG_ZERO, V!GReg, GReg, V!Reg, Reg, V!Word, Word,
               V!WordMod, WordMod, V!Cell, Cell, V!Flags, Flags, V!Pc, Pc, V!PcMod, PcMod,
               V!HasBundle, HasBundle, V!WramCell, WramCell, V!FirstAt, FirstAt, V!SecondAt,
               SecondAt, V!PairOf, PairOf, V!ExtImm, ExtImm, V!IsMoveix, IsMoveix

\* What instructions write, read and depend on, and where they go.
LEMMA SameEffects ==
  ASSUME NEW s, NEW i, NEW j, NEW x, NEW f, NEW g, NEW slot
  PROVE  /\ V!Over(f, g) = Over(f, g)
         /\ V!GpiWrites(s, i, x) = GpiWrites(s, i, x)
         /\ V!GpfWrites(s, i, x) = GpfWrites(s, i, x)
         /\ V!MduWrites(s, i, x) = MduWrites(s, i, x)
         /\ V!MemWrites(s, i, x) = MemWrites(s, i, x)
         /\ V!FlagsAfter(s, i, f) = FlagsAfter(s, i, f)
         /\ V!Faults(s, slot, i, x) = Faults(s, slot, i, x)
         /\ V!Independent(s, i, j) = Independent(s, i, j)
         /\ V!Target(s, i, j) = Target(s, i, j) /\ V!Traps(i) = Traps(i) /\ V!Pc = Pc
         /\ V!NextLr(s, i) = NextLr(s, i) /\ V!NextIr(s, i) = NextIr(s, i)
         /\ V!NextLc(s, i) = NextLc(s, i)
  <1>. USE SameCodes
  <1>1. /\ V!Over(f, g) = Over(f, g) /\ V!Nothing = Nothing
        /\ \A k, v : V!At(k, v) = At(k, v) /\ V!Read(k, v) = Read(k, v)
        /\ \A k, l : V!InRegion(k, l) = InRegion(k, l) /\ V!AccessCells(k, l) = AccessCells(k, l)
        /\ \A k, l, m, v : V!Stored(k, l, m, v) = Stored(k, l, m, v) /\ V!Loaded(k, l, m, v) = Loaded(k, l, m, v)
        /\ V!SizeMod(i) = SizeMod(i) /\ V!BundleSize(i) = BundleSize(i)
        /\ \A u, v : V!CmpFlags(u, v) = CmpFlags(u, v) /\ V!Moves(i, u, v) = Moves(i, u, v) /\ V!PcAdd(u, v) = PcAdd(u, v)
    BY Zenon DEF V!Over, Over, V!Nothing, Nothing, V!At, At, V!Read, Read, V!InRegion, InRegion,
                 V!AccessCells, AccessCells, V!NextCell, NextCell, V!Stored, Stored, V!Loaded,
                 Loaded, V!SizeMod, SizeMod, V!WordMod, WordMod, V!BundleSize, BundleSize,
                 V!CmpFlags, CmpFlags, V!Moves, Moves, V!PcAdd, PcAdd, V!PcMod, PcMod
  <1>2. \A k, v : V!Place(s, k, v) = Place(s, k, v)
    BY <1>1, Zenon DEF V!Place, Place, V!BaseReg, BaseReg
  <1>3. V!GpiWrites(s, i, x) = GpiWrites(s, i, x)
    BY <1>1, <1>2, Zenon DEF V!GpiWrites, GpiWrites
  <1>4. V!GpfWrites(s, i, x) = GpfWrites(s, i, x)
    BY <1>1, <1>2, Zenon DEF V!GpfWrites, GpfWrites
  <1>5. V!MduWrites(s, i, x) = MduWrites(s, i, x)
    BY <1>1, Zenon DEF V!MduWrites, MduWrites
  <1>6. V!MemWrites(s, i, x) = MemWrites(s, i, x)
    BY <1>1, <1>2, Zenon DEF V!MemWrites, MemWrites
  <1>7. V!FlagsAfter(s, i, f) = FlagsAfter(s, i, f)
    BY <1>1, Zenon DEF V!FlagsAfter, FlagsAfter
  <1>8. V!Faults(s, slot, i, x) = Faults(s, slot, i, x)
    BY <1>1, <1>2, Zenon DEF V!Faults, Faults, V!Executable, Executable
  <1>9. V!Independent(s, i, j) = Independent(s, i, j)
    BY <1>1, <1>2, Zenon DEF V!Independent, Independent, V!GpiDest, GpiDest, V!GpiReads, GpiReads,
                             V!GpfUses, GpfUses, V!Touches, Touches
  <1>10. V!Taken(i.op, s.fr, s.lc) = Taken(i.op, s.fr, s.lc)
    BY Zenon DEF V!Taken, Taken
  <1>11. V!Target(s, i, j) = Target(s, i, j) /\ V!Behind(s, i) = Behind(s, i)
    BY <1>1, <1>10, Zenon DEF V!Target, Target, V!Behind, Behind, V!OtherTarget, OtherTarget,
                              V!Displacement, Displacement
  <1>12. V!Pc = Pc
    BY Zenon DEF V!Pc, Pc, V!PcMod, PcMod
  <1>13. /\ V!NextLr(s, i) = NextLr(s, i) /\ V!NextIr(s, i) = NextIr(s, i)
         /\ V!NextLc(s, i) = NextLc(s, i) /\ V!Traps(i) = Traps(i)
    BY <1>11, Zenon DEF V!NextLr, NextLr, V!NextIr, NextIr, V!NextLc, NextLc, V!Calls, Calls,
                       V!Traps, Traps
  <1>. QED
    BY <1>1, <1>3, <1>4, <1>5, <1>6, <1>7, <1>8, <1>9, <1>11, <1>12, <1>13

-----------------------------------------------------------------------------
(* Every step of AxCore is a step of AxVliw or none.                       *)

\* A state of the abstract machine is the record of its parts.
LEMMA StateParts ==
  ASSUME NEW s \in States
  PROVE  s = [gpi |-> s.gpi, gpf |-> s.gpf, mdu |-> s.mdu, fr |-> s.fr, pc |-> s.pc, lr |-> s.lr,
              br |-> s.br, lc |-> s.lc, ir |-> s.ir, mem |-> s.mem, trap |-> s.trap]
  BY DEF States

\* What the abstract machine sees.
LEMMA AbstractState ==
  ASSUME Seen \in States
  PROVE  /\ V!S = Seen
         /\ V!I1 = FirstAt(Seen.mem, Seen.pc) /\ V!I2 = SecondAt(Seen.mem, Seen.pc)
         /\ V!X = ExtImm(FirstAt(Seen.mem, Seen.pc), SecondAt(Seen.mem, Seen.pc))
         /\ V!Ready <=> status = "run" /\ ~Seen.trap
  <1>1. V!S = Seen
    BY StateParts, Zenon DEF V!S
  <1>. QED
    BY <1>1, SameCodes, Zenon DEF V!I1, V!I2, V!X, V!Ready

\* In a bundle it still sees the state before the bundle.
LEMMA SeenInBundle ==
  ASSUME RefInv, InBundle
  PROVE  /\ Seen = pre /\ Seen \in States /\ ~Seen.trap /\ HasBundle(Seen.pc)
         /\ First = FirstAt(Seen.mem, Seen.pc) /\ Second = SecondAt(Seen.mem, Seen.pc)
  BY DEF RefInv, Entered, Seen

\* What it does not see is no step.
LEMMA SeenStill ==
  ASSUME Seen' = Seen, status' = status
  PROVE  UNCHANGED V!vars
  BY DEF V!vars, V!data, V!control

\* An instruction that stops the process is a crash of the bundle.
LEMMA CrashStep ==
  ASSUME TypeOK, RefInv, InBundle, status = "run", NEW why \in {"abort", "wild"}, Stop(why),
         \/ Faults(pre, 0, First, Imm24)
         \/ Paired /\ (~Independent(pre, First, Second) \/ Faults(pre, 1, Second, 0))
  PROVE  V!Crash
  <1>1. Seen' = Seen /\ status' = why
    BY DEF Stop, Seen, InBundle, latch
  <1>2. /\ V!S = pre /\ V!I1 = First /\ V!I2 = Second /\ V!X = Imm24 /\ V!Ready
    BY SeenInBundle, AbstractState DEF Imm24
  <1>3. \/ V!Faults(V!S, 0, V!I1, V!X)
        \/ V!PairOf(V!I1, V!I2) /\ (~V!Independent(V!S, V!I1, V!I2) \/ V!Faults(V!S, 1, V!I2, 0))
    BY <1>2, SameCodes, SameEffects, Zenon DEF Paired
  <1>. QED
    BY <1>1, <1>2, <1>3 DEF V!Crash, V!data, V!control

\* The instructions that stop the process are those AxBundle names.
LEMMA StopStep ==
  ASSUME TypeOK, RefInv,
         (\E slot \in {0, 1} : AccessOutside(slot) \/ AssertFails(slot)) \/ DivideByZero
  PROVE  V!Crash
  <1>. DEFINE t == Snapshot
  <1>1. t \in States
    BY SnapshotState
  <1>2. CASE AccessOutside(0) \/ AssertFails(0) \/ DivideByZero
    <2>1. phase = "slot0" /\ InBundle /\ status = "run"
      BY <1>2 DEF AccessOutside, AssertFails, DivideByZero, Issued, SlotPhase, InBundle
    <2>2. pre = t /\ First = Op(0)
      BY <2>1 DEF RefInv, Op
    <2>3. Faults(t, 0, First, Imm24)
      <3>1. CASE AccessOutside(0)
        <4>1. First.op \in 32 .. 43 /\ ~InRegion(First, Place(t, First, Imm24))
          BY <2>2, <3>1, SnapshotReads DEF AccessOutside
        <4>. QED
          BY <4>1 DEF Faults
      <3>2. CASE AssertFails(0)
        BY <2>2, <3>2 DEF AssertFails, Faults
      <3>3. CASE DivideByZero
        <4>1. First.c \in Reg
          BY <2>2, BundleType DEF Instr
        <4>2. First.op \in DivOps /\ Src2(First, Imm24, Read(t.gpi, First.c)) = 0
          BY <3>3, <4>1, SnapshotReads DEF DivideByZero, Divisor
        <4>. QED
          BY <4>2 DEF Faults
      <3>. QED
        BY <1>2, <3>1, <3>2, <3>3
    <2>4. Stop("abort") \/ Stop("wild")
      BY <1>2 DEF AccessOutside, AssertFails, DivideByZero
    <2>. QED
      BY <2>1, <2>2, <2>3, <2>4, CrashStep
  <1>3. CASE AccessOutside(1) \/ AssertFails(1)
    <2>1. phase = "slot1" /\ InBundle /\ status = "run"
      BY <1>3 DEF AccessOutside, AssertFails, Issued, SlotPhase, InBundle
    <2>2. Paired /\ Entered /\ FirstDone /\ Second = Op(1)
      BY <2>1 DEF RefInv, Op
    <2>3. Imm24 = 0
      BY <2>2 DEF Paired, PairOf, Imm24, ExtImm
    <2>4. ASSUME Independent(pre, First, Second) PROVE Faults(pre, 1, Second, 0)
      <3>1. CASE AccessOutside(1)
        <4>1. Second.op \in 32 .. 43 /\ ~InRegion(Second, Place(t, Second, 0))
          BY <2>2, <2>3, <3>1, SnapshotReads DEF AccessOutside
        <4>2. After(t, pre, First)
          BY <2>2, <2>3 DEF After, FirstDone, Snapshot
        <4>3. First \in Instr /\ Second \in Instr /\ pre \in States
          BY <2>2, BundleType DEF Entered
        <4>4. Place(t, Second, 0) = Place(pre, Second, 0)
          BY <2>4, <4>1, <4>2, <4>3, SecondReads
        <4>. QED
          BY <4>1, <4>4 DEF Faults
      <3>2. CASE AssertFails(1)
        BY <2>2, <3>2 DEF AssertFails, Faults
      <3>. QED
        BY <1>3, <3>1, <3>2
    <2>5. Stop("abort") \/ Stop("wild")
      BY <1>3 DEF AccessOutside, AssertFails
    <2>. QED
      BY <2>1, <2>2, <2>4, <2>5, CrashStep
  <1>. QED
    BY <1>2, <1>3

\* Retiring a bundle is the step of the abstract machine that executes it.
LEMMA RetireStep ==
  ASSUME TypeOK, TypeOK', RefInv, Retire
  PROVE  V!Single \/ V!Pair \/ V!Conflict
  <1>. DEFINE t == Seen'
  <1>1. /\ InBundle /\ Turned /\ status = "run" /\ status' = status /\ phase' = "emul"
        /\ IF Paired THEN BothDone ELSE FirstDone
    BY DEF Retire, InBundle, RefInv
  <1>2. t = Snapshot'
    BY <1>1 DEF Seen, InBundle
  <1>3. /\ t.gpi = Visible(gpi) /\ t.gpf = Visible(gpf) /\ t.mdu = mdu /\ t.fr = fr /\ t.mem = mem
        /\ t.pc = PcAdd(pc, Count) /\ t.lr = lr /\ t.br = br /\ t.lc = lc /\ t.ir = ir
        /\ t.trap = (msys = 1)
    BY <1>2 DEF Retire, Snapshot
  <1>4. /\ Seen = pre /\ V!S = pre /\ V!I1 = First /\ V!I2 = Second /\ V!X = Imm24
        /\ V!Ready /\ V!HasBundle(Seen.pc) /\ V!PairOf(V!I1, V!I2) = Paired
    BY <1>1, SeenInBundle, AbstractState, SameCodes, Zenon DEF Imm24, Paired
  <1>5. V!Transfer
    <2>1. /\ Target(pre, First, Second) # pre.pc => t.pc = Target(pre, First, Second)
          /\ t.lr = NextLr(pre, First)
          /\ t.ir = NextIr(pre, First) /\ t.lc = NextLc(pre, First)
          /\ t.trap = Traps(First) /\ t.br = pre.br
      BY <1>1, <1>3, Zenon DEF Turned
    <2>2. t.pc \in Pc
      BY <1>2 DEF Snapshot, TypeOK
    <2>. QED
      BY <1>1, <1>4, <2>1, <2>2, SameEffects, Zenon DEF V!Transfer
  <1>6. /\ \A f, g : V!Over(f, g) = Over(f, g)
        /\ \A i, x : V!GpiWrites(pre, i, x) = GpiWrites(pre, i, x) /\ V!GpfWrites(pre, i, x) = GpfWrites(pre, i, x)
        /\ \A i, x : V!MduWrites(pre, i, x) = MduWrites(pre, i, x) /\ V!MemWrites(pre, i, x) = MemWrites(pre, i, x)
        /\ \A i, f : V!FlagsAfter(pre, i, f) = FlagsAfter(pre, i, f)
        /\ \A slot, i, x : V!Faults(pre, slot, i, x) = Faults(pre, slot, i, x)
        /\ \A i, j : V!Independent(pre, i, j) = Independent(pre, i, j)
    BY SameEffects, Zenon
  <1>7. CASE ~Paired
    <2>1. FirstDone
      BY <1>1, <1>7
    <2>2. /\ t.gpi = V!Over(Seen.gpi, V!GpiWrites(V!S, V!I1, V!X))
          /\ t.gpf = V!Over(Seen.gpf, V!GpfWrites(V!S, V!I1, V!X))
      BY <1>3, <1>4, <1>6, <2>1, Zenon DEF FirstDone
    <2>3. /\ t.mdu = V!Over(Seen.mdu, V!MduWrites(V!S, V!I1, V!X))
          /\ t.mem = V!Over(Seen.mem, V!MemWrites(V!S, V!I1, V!X))
      BY <1>3, <1>4, <1>6, <2>1, Zenon DEF FirstDone
    <2>4. t.fr = V!FlagsAfter(V!S, V!I1, Seen.fr) /\ ~V!Faults(V!S, 0, V!I1, V!X)
      BY <1>3, <1>4, <1>6, <2>1, Zenon DEF FirstDone
    <2>. QED
      BY <1>4, <1>5, <1>7, <2>2, <2>3, <2>4, Zenon DEF V!Single
  <1>8. CASE Paired /\ Independent(pre, First, Second)
    <2>1. BothDone /\ Parallel
      BY <1>1, <1>8 DEF BothDone
    <2>2. t.gpi = V!Over(V!Over(Seen.gpi, V!GpiWrites(V!S, V!I1, 0)), V!GpiWrites(V!S, V!I2, 0))
      BY <1>3, <1>4, <1>6, <2>1, Zenon DEF Parallel
    <2>3. t.gpf = V!Over(V!Over(Seen.gpf, V!GpfWrites(V!S, V!I1, 0)), V!GpfWrites(V!S, V!I2, 0))
      BY <1>3, <1>4, <1>6, <2>1, Zenon DEF Parallel
    <2>4. t.mem = V!Over(V!Over(Seen.mem, V!MemWrites(V!S, V!I1, 0)), V!MemWrites(V!S, V!I2, 0))
      BY <1>3, <1>4, <1>6, <2>1, Zenon DEF Parallel
    <2>5. t.fr = V!FlagsAfter(V!S, V!I2, V!FlagsAfter(V!S, V!I1, Seen.fr))
      BY <1>3, <1>4, <1>6, <2>1, Zenon DEF Parallel
    <2>6. t.mdu = V!Over(Seen.mdu, V!MduWrites(V!S, V!I1, 0))
      BY <1>3, <1>4, <1>6, <2>1, Zenon DEF BothDone
    <2>7. /\ ~V!Faults(V!S, 0, V!I1, 0) /\ ~V!Faults(V!S, 1, V!I2, 0)
          /\ V!Independent(V!S, V!I1, V!I2)
      BY <1>4, <1>8, <1>6, <2>1, Zenon DEF BothDone, Parallel
    <2>. QED
      BY <1>4, <1>5, <1>8, <2>2, <2>3, <2>4, <2>5, <2>6, <2>7, Zenon DEF V!Pair
  <1>9. CASE Paired /\ ~Independent(pre, First, Second)
    <2>1. BothDone /\ Clash
      BY <1>1, <1>9 DEF BothDone
    <2>2. /\ t.gpi \in [GReg -> Word] /\ t.gpf \in [GReg -> Word]
          /\ t.fr \in Flags /\ t.mem \in [Loc -> Cell]
      BY <1>3, VisibleType DEF TypeOK
    <2>3. /\ ~V!Faults(V!S, 0, V!I1, 0) /\ ~V!Independent(V!S, V!I1, V!I2)
          /\ t.mdu = V!Over(Seen.mdu, V!MduWrites(V!S, V!I1, 0))
      BY <1>3, <1>4, <1>9, <1>6, <2>1, Zenon DEF BothDone
    <2>4. /\ \A r \in GReg \ {First.a, Second.a} : t.gpi[r] = Seen.gpi[r] /\ t.gpf[r] = Seen.gpf[r]
          /\ t.fr # Seen.fr => AX_EXE_ALU_CMP \in {First.op, Second.op}
          /\ t.mem # Seen.mem => {First.op, Second.op} \cap (StoreOps \cup FStoreOps) # {}
      BY <1>3, <1>4, <2>1, Zenon DEF Clash
    <2>. QED
      BY <1>4, <1>5, <1>9, <2>2, <2>3, <2>4, SameCodes, Zenon DEF V!Conflict
  <1>. QED
    BY <1>7, <1>8, <1>9

\* The emulation of a system call is one step, and no step without a call.
LEMMA EmulateStep ==
  ASSUME TypeOK, TypeOK', Emulate \/ SysGetchar
  PROVE  V!Serve \/ UNCHANGED V!vars
  <1>1. phase = "emul" /\ status = "run"
    BY DEF Emulate, NoSyscall, SysPuts, SysClear, SysExit, SysOther, SysGetchar, Serving
  <1>2. Seen = Snapshot
    BY <1>1 DEF Seen, InBundle
  <1>3. /\ Snapshot.gpi = Visible(gpi) /\ Snapshot.gpf = Visible(gpf) /\ Snapshot.mdu = mdu
        /\ Snapshot.fr = fr /\ Snapshot.mem = mem /\ Snapshot.pc = pc /\ Snapshot.lr = lr
        /\ Snapshot.br = br /\ Snapshot.lc = lc /\ Snapshot.ir = ir /\ Snapshot.trap = (msys = 1)
    BY DEF Snapshot
  <1>4. CASE NoSyscall
    <2>1. phase' = "fetch" /\ Snapshot' = Snapshot /\ status' = status
      BY <1>4 DEF NoSyscall, EmulDone, Snapshot, flow
    <2>2. Seen' = Seen
      BY <1>2, <2>1 DEF Seen, InBundle
    <2>. QED
      BY <2>1, <2>2, SeenStill
  <1>5. ASSUME Serving, NEW why \in {"exit", "wild"}, Stop(why) PROVE V!Serve
    <2>1. Seen' = Seen /\ status' = why
      BY <1>1, <1>5 DEF Stop, Seen, InBundle, Snapshot, flow, latch
    <2>2. Seen.trap
      BY <1>2, <1>3, <1>5 DEF Serving
    <2>. QED
      BY <1>1, <2>1, <2>2 DEF V!Serve, V!control
  <1>6. ASSUME Serving, EmulDone, \A r \in Reg \ {1, 2} : gpi'[r] = gpi[r] PROVE V!Serve
    <2>. DEFINE t == Seen'
    <2>1. /\ t = Snapshot' /\ status' = status /\ msys' = 0
      BY <1>6 DEF EmulDone, Seen, InBundle
    <2>2. /\ t.gpi = Visible(gpi') /\ t.gpf = Seen.gpf /\ t.mdu = Seen.mdu
          /\ t.fr = Seen.fr /\ t.mem = Seen.mem /\ t.pc = Seen.pc /\ t.lr = Seen.lr
          /\ t.br = Seen.br /\ t.lc = Seen.lc /\ t.ir = Seen.ir
      BY <1>2, <1>3, <1>6, <2>1 DEF EmulDone, Snapshot, flow
    <2>3. t.trap = FALSE /\ Seen.trap
      <3>1. t.trap = (msys' = 1)
        BY <2>1, Zenon DEF Snapshot
      <3>2. Seen.trap
        BY <1>2, <1>3, <1>6 DEF Serving
      <3>3. ~(msys' = 1)
        BY <2>1
      <3>. QED
        BY <3>1, <3>2, <3>3, Zenon
    <2>4. t.gpi \in [GReg -> Word] /\ \A r \in GReg \ {1, 2} : t.gpi[r] = Seen.gpi[r]
      BY <1>2, <1>3, <1>6, <2>2, VisibleType DEF TypeOK, Visible, GReg
    <2>. QED
      BY <1>1, <2>1, <2>2, <2>3, <2>4, SameCodes DEF V!Serve, V!control
  <1>7. CASE SysPuts \/ SysExit \/ SysOther
    BY <1>5, <1>6, <1>7 DEF SysPuts, SysExit, SysOther
  <1>8. CASE SysClear \/ SysGetchar
    <2>1. Serving /\ EmulDone /\ \A r \in Reg \ {1, 2} : gpi'[r] = gpi[r]
      BY <1>8 DEF SysClear, SysGetchar, TypeOK
    <2>. QED
      BY <1>6, <2>1
  <1>. QED
    BY <1>4, <1>7, <1>8 DEF Emulate

\* Every step of the core is a step of the abstract machine or none.
LEMMA StepRefines ==
  TypeOK /\ TypeOK' /\ TrapInv /\ RefInv /\ [Next]_vars => [V!Next]_(V!vars)
  <1>. SUFFICES ASSUME TypeOK, TypeOK', TrapInv, RefInv, [Next]_vars
                PROVE  V!Next \/ UNCHANGED V!vars
    OBVIOUS
  <1>1. CASE UNCHANGED vars
    <2>1. Seen' = Seen /\ status' = status
      BY <1>1 DEF vars, flow, latch, Seen, InBundle, Snapshot
    <2>. QED
      BY <2>1, SeenStill
  <1>2. CASE Fetch
    <2>1. Seen' = Seen /\ status' = status
      BY <1>2 DEF Fetch, Seen, InBundle
    <2>. QED
      BY <2>1, SeenStill
  <1>3. CASE FetchOutside
    <2>1. /\ Seen = Snapshot /\ Seen' = Seen /\ status = "run" /\ status' = "wild" /\ ~HasBundle(pc)
      BY <1>3 DEF FetchOutside, Stop, Seen, InBundle, Snapshot, flow
    <2>2. Seen \in States /\ Seen.pc = pc
      BY <2>1, SnapshotState DEF Snapshot
    <2>3. msys # 1
      BY <1>3 DEF FetchOutside, TrapInv, TrapPending
    <2>4. ~Seen.trap
      BY <2>1, <2>3, Zenon DEF Snapshot
    <2>5. V!Crash
      BY <2>1, <2>2, <2>4, AbstractState, SameCodes DEF V!Crash, V!data, V!control
    <2>. QED
      BY <2>5 DEF V!Next
  <1>4. CASE (\E slot \in {0, 1} : AccessOutside(slot) \/ AssertFails(slot)) \/ DivideByZero
    BY <1>4, StopStep DEF V!Next
  <1>5. CASE (\E slot \in {0, 1} : ExecutesAny(slot)) \/ ExecuteDivMul \/ ExecuteMduMove \/ Branches
    <2>1. InBundle /\ phase' \in {"slot1", "retire"} /\ UNCHANGED latch /\ status' = status
      BY <1>5, SlotDoneType
      DEF ExecutesAny, Branches, ExecuteAluResult, ExecuteCmove, ExecuteCmp, ExecuteNop, ExecuteLoad,
          ExecuteStore, ExecuteDivMul, ExecuteMduMove, ExecuteBranch, ExecuteJump, ExecuteCall,
          ExecuteReturn, ExecuteSyscall, Issued, SlotPhase, InBundle
    <2>2. Seen' = Seen
      BY <2>1 DEF Seen, InBundle, latch
    <2>. QED
      BY <2>1, <2>2, SeenStill
  <1>6. CASE Retire
    BY <1>6, RetireStep DEF V!Next
  <1>7. CASE Emulate \/ SysGetchar
    BY <1>7, EmulateStep DEF V!Next
  <1>. QED
    BY <1>1, <1>2, <1>3, <1>4, <1>5, <1>6, <1>7
    DEF Next, RunLoop, ExecuteSlot, ExecuteSlot0Only, ExecutesAny, Branches

\* The core starts where the abstract machine starts.
LEMMA InitRefines == Init => V!Init
  <1>. SUFFICES ASSUME Init PROVE V!Init
    OBVIOUS
  <1>1. Seen = Snapshot /\ TypeOK
    BY InitType DEF Init, Seen, InBundle
  <1>2. /\ Seen.gpi = [r \in GReg |-> 0] /\ Seen.gpf = [r \in GReg |-> 0]
        /\ Seen.mdu = [r \in 0 .. 3 |-> 0] /\ Seen.fr = [z |-> FALSE, n |-> FALSE]
        /\ Seen.pc \in Pc /\ Seen.lr = 0 /\ Seen.br = 0 /\ Seen.lc = 0 /\ Seen.ir = 0
        /\ Seen.mem \in [Loc -> Cell]
    BY <1>1 DEF Init, Snapshot, Visible, GReg, TypeOK
  <1>3. msys # 1
    BY DEF Init
  <1>4. Seen.trap = FALSE
    BY <1>1, <1>3, Zenon DEF Snapshot
  <1>5. status = "run"
    BY DEF Init
  <1>. QED
    BY <1>2, <1>4, <1>5, SameCodes DEF V!Init

\* The interpreter of VM/altairx_v2, which executes a bundle slot by slot on
\* one register file, implements the machine that executes it in parallel, for
\* every program and every data path.
THEOREM Refinement == Spec => ImplementsVliw
  <1>1. TypeOK /\ TypeOK' /\ TrapInv /\ RefInv /\ [Next]_vars => RefInv'
    BY NextRef
  <1>. QED
    BY <1>1, InitType, NextType, InitTrap, NextTrap, InitRef, InitRefines, StepRefines, PTL
    DEF Spec, ImplementsVliw, V!Spec

=============================================================================
