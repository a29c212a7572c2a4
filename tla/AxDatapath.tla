------------------------------ MODULE AxDatapath ------------------------------
(***************************************************************************)
(* The values AxCore (VM/altairx_v2) computes: execute_alu, the operand    *)
(* helpers alu_src2_value and lsu_imm_value, and sext.  Words are scaled:  *)
(* a register has 2 * CellBits bits (64 in the code), an immediate field   *)
(* ImmBits (9, 10, 16 or 18, one width here), a 32-bit int IntBits.        *)
(***************************************************************************)
EXTENDS Integers

CONSTANTS CellBits, ImmBits, IntBits,
          UpShift, \* 42 - 32: where MOVEUP puts the moveix immediate
          And(_, _), Or(_, _), Xor(_, _)   \* the bitwise operators

ASSUME WidthAssumption ==
       /\ CellBits \in Nat \ {0} /\ ImmBits \in Nat \ {0}
       /\ IntBits \in 1 .. 2 * CellBits
       /\ UpShift \in 0 .. ImmBits

Bits  == 2 * CellBits
W     == 2 ^ Bits
Radix == 2 ^ ImmBits

\* The laws of powers, for the widths there are.
ASSUME PowerAssumption ==
  /\ \A m \in 0 .. Bits : 2 ^ m \in Nat \ {0}
  /\ \A m, n \in 0 .. Bits : m + n <= Bits => 2 ^ (m + n) = 2 ^ m * 2 ^ n

\* What the operators do to bits low below bit m and bits high from there on,
\* below zeros or, for exclusive or, below ones.
ASSUME BitAssumption ==
  \A m \in 0 .. Bits - 1 : \A low \in 0 .. 2 ^ m - 1, high \in 0 .. 2 ^ (Bits - m) - 1 :
    /\ Or(low, high * 2 ^ m) = low + high * 2 ^ m
    /\ Xor(low, high * 2 ^ m) = low + high * 2 ^ m
    /\ Xor(W - 2 ^ m + low, high * 2 ^ m) = W - 2 ^ m + low - high * 2 ^ m

Shl(v, n) == (v * 2 ^ (n % Bits)) % W      \* x86 takes the count modulo the width
Shr(v, n) == v \div 2 ^ (n % Bits)
SizeMask(size) == IF size = 1 THEN 2 ^ CellBits ELSE W
Masked(v, size) == v % SizeMask(size)
Signed(v) == IF v >= W \div 2 THEN v - W ELSE v
BoolWord(b) == IF b THEN 1 ELSE 0

\* sext: the xor-and-subtract idiom on a value of "from" bits.
Sext(v, from) ==
  LET mask == 2 ^ (from - 1) IN (Xor(v, mask) - mask) % W

\* sext_insize: the sizes kept in the model are one cell and two.
InBits(k) == IF k = 0 THEN CellBits ELSE Bits

\* (1 << n) - 1, computed in int and widened to 64 bits.
IntMask(n) == 2 ^ (n % IntBits) - 1

\* Mutant: the moveix immediate one bit too high.
SignedImm_Above(k, x) ==
  Xor(IF k >= Radix \div 2 THEN (k - Radix) % W ELSE k, Shl(x, ImmBits))

\* A signed immediate field, its sign bit flipped or extended by the moveix
\* immediate, whose lowest bit lines up with the sign bit.
SignedImm(k, x) ==
  Xor(IF k >= Radix \div 2 THEN (k - Radix) % W ELSE k, Shl(x, ImmBits - 1))

\* alu_src2_value: "k" is the immediate field or, for a register, the shift.
Src2Value(hasImm, k, x, v) ==
  IF hasImm THEN SignedImm(k, x) ELSE Shl(v, k)

\* MOVEN: the field under ones, the moveix bits flipped.
MovenValue_Or(k, x) == Or((k - Radix) % W, Shl(x, ImmBits))    \* mutant: or for xor
MovenValue(k, x) == Xor((k - Radix) % W, Shl(x, ImmBits))

(* execute_alu: u is src1, v is src2, or the old destination for INS.      *)
AluValue(op, size, hasImm, k, len, x, u, v) ==
  LET s == Src2Value(hasImm, k, x, v)
  IN CASE op = 2  -> And(Shr(u, k), IntMask(len))                    \* EXT
       [] op = 3  -> Or(v, And(Shl(u, k), IntMask(len)))             \* INS
       [] op = 4  -> Or(k, Shl(x, ImmBits)) % W                      \* MOVEI
       [] op = 5  -> MovenValue(k, x)                              \* MOVEN
       [] op = 7  -> Or(Shl(k, CellBits), Shl(x, CellBits + UpShift)) \* MOVEUP
       [] op = 9  -> Masked(Sext(u, InBits(k)), size)             \* SEXT
       [] op = 16 -> Masked((u + s) % W, size)                      \* ADD
       [] op = 17 -> Masked((u - s) % W, size)                      \* SUB
       [] op = 18 -> Masked(Xor(u, s), size)                         \* XOR
       [] op = 19 -> Masked(Or(u, s), size)                          \* OR
       [] op = 20 -> Masked(And(u, s), size)                         \* AND
       [] op = 21 -> Masked(Shl(u, s), size)                        \* LSL
       [] op \in {22, 23} -> Masked(Shr(u, s), size)                \* ASR, LSR
       [] op = 24 -> BoolWord(u = s)                                \* SE
       [] op = 25 -> BoolWord(u # s)                                \* SEN
       [] op = 26 -> BoolWord(Signed(u) < Signed(s))                \* SLTS
       [] op = 27 -> BoolWord(u < s)                                \* SLTU
       [] op = 28 -> And(u, s)                                       \* SAND
       [] op \in {30, 31} -> Masked(u, size)                        \* CMOVEN, CMOVE
       [] OTHER   -> 0

(* execute_lsu: base is a register or r0, off the index register.          *)
AddrValue(op, k, x, base, off) ==
  CASE op \in 32 .. 35 -> (base + Shl(off, k)) % W                 \* reg version
    [] op \in 36 .. 39 -> (base + SignedImm(k, x)) % W             \* imm version
    [] op \in 40 .. 43 -> (base + Xor(k, Shl(x, ImmBits))) % W     \* sp version
    [] OTHER           -> 0

=============================================================================
