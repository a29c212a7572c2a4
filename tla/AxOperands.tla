------------------------------ MODULE AxOperands ------------------------------
(***************************************************************************)
(* The operand encodings, the comparisons and the memory map of            *)
(* VM/altairx_v2 against what a compiler expects of them, over all pairs   *)
(* of words u and v.                                                       *)
(***************************************************************************)
EXTENDS AxDatapath, AxMemoryMap

CONSTANT MoveixBits \* the immediate of a moveix, 24 bits in the code

ASSUME OperandAssumption == MoveixBits \in Nat /\ ImmBits + MoveixBits < Bits

MoveixRadix == 2 ^ MoveixBits

VARIABLES u, v

NoDecode(w) == w
NoAlu(i, x, a, b) == 0
NoSrc2(i, x, a) == 0
NoMap(a) == <<"wram", 0>>
ISA == INSTANCE AxISA WITH
         Half <- 1, ImmRadix <- Radix, RegCount <- 4, B <- 2 ^ CellBits,
         Loc <- {<<"wram", 0>>}, Decode <- NoDecode, Alu <- NoAlu,
         Src2 <- NoSrc2, Addr <- NoAlu, Map <- NoMap

Init == u = 0 /\ v = 0
Next == \/ u' = (u + 1) % W /\ v' = v
        \/ v' = (v + 1) % W /\ u' = u
Spec == Init /\ [][Next]_<<u, v>>

-----------------------------------------------------------------------------
(* The reference: how a compiler splits a constant over an immediate field *)
(* and the moveix that follows.                                            *)

SignOf(c) == IF Signed(c) < 0 THEN 1 ELSE 0

\* n low bits in the field, the others in the moveix, complemented when the
\* constant is negative.
MoveixPart(c, n) ==
  LET high == (c \div 2 ^ n) % MoveixRadix
  IN IF Signed(c) < 0 THEN MoveixRadix - 1 - high ELSE high
InSignedRange(c, bits) == Signed(c) \in -(2 ^ (bits - 1)) .. 2 ^ (bits - 1) - 1

\* Every constant of the width of field plus moveix can be an ALU or LSU
\* operand: the moveix flips the extension of the field's sign bit, so that its
\* lowest bit lands on the sign bit and no value is lost or doubled.
OperandReach ==
  InSignedRange(u, ImmBits + MoveixBits) =>
    LET k == (u % 2 ^ (ImmBits - 1)) + SignOf(u) * 2 ^ (ImmBits - 1)
    IN Src2Value(TRUE, k, MoveixPart(u, ImmBits - 1), v) = u

\* MOVEI and MOVEN load every constant of one bit more than field plus moveix.
MoveReach ==
  InSignedRange(u, ImmBits + MoveixBits + 1) =>
    AluValue(IF Signed(u) < 0 THEN 5 ELSE 4, 2, TRUE, u % Radix, 0,
             MoveixPart(u, ImmBits), v, v) = u

\* The order of two words as "unsigned" and as "signed" numbers (vm.h:96-100,
\* the flags U and S).  It is one order where the sign bits agree.
SameSign == u < W \div 2 <=> v < W \div 2

\* CMP followed by BL or BLE decides the order of operands whose sign bits are
\* equal: there the signed and the unsigned order, which the repository's two
\* cores disagree about (see BranchMeaning), are the same.
CompareOrders ==
  SameSign =>
    /\ ISA!Taken(114, ISA!CmpFlags(u, v), 0) <=> u < v
    /\ ISA!Taken(115, ISA!CmpFlags(u, v), 0) <=> u <= v

\* The addresses of a region: RegionSize cells from its first address on.
Span(r) == Begin[r] .. Begin[r] + RegionSize[r] - 1

\* The sizes are powers of two, which the map's mask expresses, and no region
\* is longer than its first address, or the least region bit, allows.
RegionsFit ==
  \A r \in Regions :
    /\ RegionSize[r] <= (IF r = "spm" THEN IO_BEGIN ELSE Begin[r])
    /\ Begin[r] % RegionSize[r] = 0
    /\ \A a \in 0 .. 2 * WRAM_BEGIN - 1 : Mask(a, RegionSize[r] - 1) = a % RegionSize[r]

\* Memories of fitting sizes are one flat address space: the map's mask
\* and its order of region bits give two addresses of the space two cells, each
\* of the memory that belongs to it, and WRAM cell k is where AltairX::execute,
\* which indexes m_wram_begin past the map, fetches opcode k.
FlatMemory ==
  RegionsFit =>
    \A r, s \in Regions : u \in Span(r) /\ v \in Span(s) =>
      /\ MapAddr(u) \in MemCells /\ MapAddr(u)[1] = r
      /\ MapAddr(u) = MapAddr(v) => u = v
      /\ r = "wram" => MapAddr(u)[2] = u - WRAM_BEGIN

\* "WRAM size (MiB): -wram N": a WRAM of any size has that many cells, no two
\* addresses below the size share one.
WramWhole ==
  u \in Span("wram") /\ v \in Span("wram") /\ MapAddr(u) = MapAddr(v) => u = v

\* What VM/altairx writes beside its conditions (decode_execute.c:223-293),
\* on the unsigned flag U for BL .. BGE and on the signed flag S for BLS .. BGES:
\* CMP u, v and the branch jump exactly when the relation holds.
BranchMeaning ==
  LET Jumps(op) == ISA!Taken(op, ISA!CmpFlags(u, v), 0)
  IN /\ Jumps(112) <=> u # v                         \* BNE  "// !="
     /\ Jumps(113) <=> u = v                         \* BEQ  "// =="
     /\ Jumps(114) <=> u < v                         \* BL   "// <"
     /\ Jumps(115) <=> u <= v                        \* BLE  "// <="
     /\ Jumps(116) <=> u > v                         \* BG   "// >"
     /\ Jumps(117) <=> u >= v                        \* BGE  "// >="
     /\ Jumps(118) <=> Signed(u) < Signed(v)         \* BLS
     /\ Jumps(119) <=> Signed(u) <= Signed(v)        \* BLES
     /\ Jumps(120) <=> Signed(u) > Signed(v)         \* BGS
     /\ Jumps(121) <=> Signed(u) >= Signed(v)        \* BGES

=============================================================================
