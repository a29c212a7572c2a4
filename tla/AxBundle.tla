------------------------------- MODULE AxBundle -------------------------------
(***************************************************************************)
(* What the instructions of VM/altairx_v2 do to a machine whose zero       *)
(* register is not state: it reads as 0 and swallows writes.  A state s is *)
(* a record [gpi, gpf, mdu, fr, pc, lr, br, lc, ir, mem, trap]; s.gpi and  *)
(* s.gpf have no entry for the zero register.  x is the moveix immediate.  *)
(***************************************************************************)
EXTENDS AxISA

GReg == Reg \ {REG_ZERO}
Read(f, r) == IF r = REG_ZERO THEN 0 ELSE f[r]

-----------------------------------------------------------------------------
(* What an instruction writes, as partial functions of the places written. *)

Nothing == [k \in {} |-> 0]
At(k, v) == [p \in {k} |-> v]
Over(f, g) == [k \in DOMAIN f |-> IF k \in DOMAIN g THEN g[k] ELSE f[k]]

Place(s, i, x) == Map(Addr(i, x, Read(s.gpi, BaseReg(i)), Read(s.gpi, i.c)))

GpiWrites(s, i, x) ==
  LET u == Read(s.gpi, i.b)
      v == Read(s.gpi, IF i.op = AX_EXE_ALU_INS THEN i.a ELSE i.c)
  IN IF \/ i.op \in AluResultOps
        \/ i.op \in {AX_EXE_ALU_CMOVE, AX_EXE_ALU_CMOVEN} /\ Moves(i, x, v)
     THEN At(i.a, Alu(i, x, u, v))
     ELSE IF i.op \in LoadOps
     THEN At(i.a, Loaded(i, Place(s, i, x), s.mem, Read(s.gpi, i.a)))
     ELSE IF i.op = AX_EXE_MDU_MOVETO THEN At(i.a, s.mdu[i.pq]) ELSE Nothing

GpfWrites(s, i, x) ==
  IF i.op \in FLoadOps
  THEN At(i.a, Loaded(i, Place(s, i, x), s.mem, Read(s.gpf, i.a))) ELSE Nothing

MduWrites(s, i, x) ==
  LET u == Read(s.gpi, i.b)
      v == Src2(i, x, Read(s.gpi, i.c))
  IN IF i.op \in DivOps
     THEN [k \in {0, 1} |-> (IF k = 0 THEN u \div v ELSE u % v) % SizeMod(i)]
     ELSE IF i.op \in MulOps THEN At(2, (u * v) % SizeMod(i))
     ELSE IF i.op = AX_EXE_MDU_MOVEFROM THEN At(i.pq, u) ELSE Nothing

MemWrites(s, i, x) ==
  IF i.op \in StoreOps \cup FStoreOps
  THEN LET l == Place(s, i, x)
           v == Read(IF i.op \in StoreOps THEN s.gpi ELSE s.gpf, i.a)
       IN [c \in AccessCells(i, l) |-> Stored(i, l, s.mem, v)[c]]
  ELSE Nothing

\* The flags when they were f before the instruction.
FlagsAfter(s, i, f) ==
  IF i.op = AX_EXE_ALU_CMP THEN CmpFlags(Read(s.gpi, i.b), Read(s.gpi, i.c)) ELSE f

\* Why an instruction may stop the machine.
Faults(s, slot, i, x) ==
  \/ ~Executable(slot, i)
  \/ i.op \in 32 .. 43 /\ ~InRegion(i, Place(s, i, x))
  \/ i.op \in DivOps /\ Src2(i, x, Read(s.gpi, i.c)) = 0

-----------------------------------------------------------------------------
(* Dependences within a bundle.                                            *)

\* The registers an instruction names as sources and as destination, used or
\* not, and the cells it accesses.
GpiReads(i) ==
  {i.b, i.c} \cup (IF i.op \in {AX_EXE_ALU_INS} \cup LoadOps \cup StoreOps THEN {i.a} ELSE {})
             \cup (IF i.op \in 40 .. 43 THEN {0} ELSE {})
GpiDest(i) ==
  IF i.op \in AluResultOps \cup LoadOps
              \cup {AX_EXE_ALU_CMOVE, AX_EXE_ALU_CMOVEN, AX_EXE_MDU_MOVETO}
  THEN {i.a} ELSE {}
GpfUses(i) == IF i.op \in FLoadOps \cup FStoreOps THEN {i.a} ELSE {}
Touches(s, i) == IF i.op \in 32 .. 43 THEN AccessCells(i, Place(s, i, 0)) ELSE {}

\* The second instruction neither reads nor overwrites what the first writes.
Independent(s, i, j) ==
  /\ GpiDest(i) \cap (GpiReads(j) \cup GpiDest(j)) \subseteq {REG_ZERO}
  /\ i.op \in FLoadOps => GpfUses(i) \cap GpfUses(j) \subseteq {REG_ZERO}
  /\ ~(i.op = AX_EXE_ALU_CMP /\ j.op = AX_EXE_ALU_CMP)
  /\ i.op \in StoreOps \cup FStoreOps => Touches(s, i) \cap Touches(s, j) = {}

-----------------------------------------------------------------------------
(* Where control goes after a bundle of i and, if i has the package bit,   *)
(* j.                                                                      *)

\* JUMPBR, RET, RETI and SYSCALL.
OtherTarget(s, i) ==
  IF i.other = JUMPBR_ID THEN s.br
  ELSE IF i.other = RET_ID THEN s.lr
  ELSE IF i.other = RETI_ID THEN s.ir ELSE TrapVector

Behind(s, i) == PcAdd(s.pc, BundleSize(i))

Target(s, i, j) ==
  LET there == Displacement(i, j)
  IN IF i.op \in BranchOps /\ Taken(i.op, s.fr, s.lc) THEN PcAdd(s.pc, there)
     ELSE IF i.op \in {AX_EXE_BRU_JUMP, AX_EXE_BRU_CALL} THEN PcAdd(0, there)
     ELSE IF i.op = AX_EXE_BRU_CALLR THEN PcAdd(s.pc, there)
     ELSE IF i.op = AX_EXE_BRU_OTHER THEN OtherTarget(s, i)
     ELSE Behind(s, i)

Calls(i) == i.op \in {AX_EXE_BRU_CALL, AX_EXE_BRU_CALLR}
Traps(i) == i.op = AX_EXE_BRU_OTHER /\ i.other = SYSCALL_ID
NextLr(s, i) == IF Calls(i) THEN Behind(s, i) ELSE s.lr
NextIr(s, i) == IF Traps(i) THEN s.pc ELSE s.ir
NextLc(s, i) == IF i.op = AX_EXE_BRU_LOOP /\ s.lc # 0 THEN s.lc - 1 ELSE s.lc

=============================================================================
