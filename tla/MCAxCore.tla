------------------------------- MODULE MCAxCore -------------------------------
(***************************************************************************)
(* AxCore on small words: 4-bit cells, 3-bit immediates, 8-bit registers,  *)
(* four registers (r0 = sp, r1, r2, zero), eight cells of WRAM and two of  *)
(* scratchpad.  A cell value is an opcode; the tables say which.           *)
(***************************************************************************)
EXTENDS AxCore

LOCAL BW == INSTANCE Bitwise
BitAnd(u, v) == BW!&(u, v)
BitOr(u, v)  == BW!|(u, v)
BitXor(u, v) == BW!^^(u, v)

D == INSTANCE AxDatapath WITH
       CellBits <- 4, ImmBits <- 3, IntBits <- 8, UpShift <- 1,
       And <- BitAnd, Or <- BitOr, Xor <- BitXor
M == INSTANCE AxMemoryMap WITH
       IO_BEGIN <- 2, Mask <- BitAnd,
       RegionSize <- [wram |-> 8, spm2 |-> 1, spmt |-> 1, rom |-> 1, io |-> 1, spm |-> 2]

MCLoc == M!MemCells
MCMap(v) == M!MapAddr(v)
MCAlu(i, x, u, v) ==
  D!AluValue(i.op, i.size, i.hasImm, i.imm, 2, x, u, v)
MCSrc2(i, x, v) == D!Src2Value(i.hasImm, i.imm, x, v)
MCAddr(i, x, base, off) == D!AddrValue(i.op, i.imm, x, base, off)

MCEntry == {0, 2}
MCChars == {2, 3, 255}  \* characters, and EOF converted to uint64_t

\* Sets of bundle addresses of a program of CodeCells cells: no two adjacent
\* words are both skipped, and a word has the same role with and without bit 31.
CodeCells == 4
MCStartSets ==
  {{p \in 0 .. 15 : p % 8 \in s} :
     s \in {t \cup {0} \cup CodeCells .. 7 :
              t \in {u \in SUBSET (1 .. CodeCells - 1) :
                       \A k \in 1 .. CodeCells - 2 : k \in u \/ k + 1 \in u}}}

\* All programs of CodeCells words over n opcodes; the rest of WRAM is the word 0, rom holds the word
\* 14 and the other memories are zero.
Programs(n) ==
  {[l \in MCLoc |-> CASE l[1] = "wram" /\ l[2] < CodeCells -> code[l[2]]
                     [] l[1] = "rom" -> 14
                     [] OTHER -> 0] :
     code \in [0 .. CodeCells - 1 -> 0 .. n - 1]}
MCImages == Programs(16)

-----------------------------------------------------------------------------
(* Opcode tables.                                                          *)

I(op) == [op |-> op, pkg |-> FALSE, a |-> 3, b |-> 3, c |-> 3, hasImm |-> TRUE,
          imm |-> 0, other |-> 0, pq |-> 0, size |-> 2]
Nop == I(0)
Movei(r, k) == [I(4) EXCEPT !.a = r, !.imm = k]
Bru(op, k) == [I(op) EXCEPT !.imm = k]
Other(id) == [I(127) EXCEPT !.other = id]
Pkg(i) == [i EXCEPT !.pkg = TRUE]

\* Transfers of control of every kind, package bits, what they depend on and
\* what runs into an assert.
ControlTable ==
  <<Nop,
    Pkg(Bru(125, 3)),                               \* call 3
    Other(2),                                       \* ret
    Other(4),                                       \* syscall
    Other(3),                                       \* reti
    Bru(122, 0),                                    \* bra .
    Pkg(Bru(126, 2)),                               \* callr .+2
    Pkg([I(0) EXCEPT !.imm = 1]),                   \* moveix 1, packaged
    Pkg(Bru(124, 2)),                               \* jump 2
    Other(1),                                       \* jumpbr
    Pkg(Bru(123, 2)),                               \* loop .+2
    Bru(113, 3),                                    \* beq .+3
    Pkg(I(12)),                                     \* cmp zero, zero
    Other(5),                                       \* callbr
    [I(31) EXCEPT !.a = 1, !.b = 1, !.c = 1],       \* cmove r1, r1, 0
    Pkg([I(37) EXCEPT !.a = 1, !.size = 1])>>       \* st.w r1, [zero]
ControlDecode(w) == ControlTable[w + 1]

\* ALU, memory, multiply and divide, conditional moves, floating-point registers
\* and system calls: stores and loads into every region, the program included,
\* writes to the zero register and reads of it.  r1 selects the call: 0 and most
\* sums do nothing, 1 is puts, 14 (from rom) is getchar, which may return 2, clear,
\* and 3, exit.
MixTable ==
  <<[I(0) EXCEPT !.imm = 4],                                   \* moveix 4
    Pkg(Movei(1, 1)),                                          \* movei r1, 1
    Pkg([I(37) EXCEPT !.a = 2, !.b = 1, !.size = 1]),          \* st.w r2, [r1]
    [I(16) EXCEPT !.a = 2, !.b = 1, !.imm = 3],                \* add r2, r1, 3
    Pkg([I(17) EXCEPT !.b = 1, !.hasImm = FALSE]),             \* sub zero, r1, zero
    [I(36) EXCEPT !.a = 1, !.b = 1, !.imm = 3, !.size = 1],    \* ld.w r1, [r1 + 3]
    Pkg([I(12) EXCEPT !.b = 1]),                               \* cmp r1, zero
    Pkg([I(96) EXCEPT !.b = 1, !.c = 2, !.hasImm = FALSE]),    \* div r1, r2
    Pkg([I(99) EXCEPT !.b = 1, !.imm = 3, !.size = 1]),        \* mulu.w r1, 3
    Pkg([I(100) EXCEPT !.a = 1, !.pq = 2]),                    \* moveto r1, pl
    Other(3),                                                  \* reti
    Pkg([I(43) EXCEPT !.a = 2, !.size = 1]),                   \* fst.w f2, [sp]
    [I(42) EXCEPT !.a = 2, !.imm = 1],                         \* fld.d f2, [sp + 1]
    Pkg(Other(4)),                                             \* syscall
    Pkg(Bru(125, 3))>>                                         \* call 3
MixDecode(w) == IF w < 15 THEN MixTable[w + 1] ELSE Nop
MixImages == Programs(15)
MixEntry == {0}

=============================================================================
