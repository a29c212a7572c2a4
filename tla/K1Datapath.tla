------------------------------ MODULE K1Datapath ------------------------------
(***************************************************************************)
(* The values K1Core (VM/altairx) computes: the ALU operations and         *)
(* comparisons of decode_execute.c, and the memory map of vm.c.  A         *)
(* register has WordBits bits (64), a cell CellBits (32), an immediate     *)
(* ImmBits (9, 10, 16 or 18, one width here).                              *)
(***************************************************************************)
EXTENDS Integers, Bitwise

CONSTANTS WordBits, CellBits, ImmBits,
          Step,         \* 16, the shift of SMOVE for each unit of its size
          IO_BEGIN,     \* the least region bit; the others are the next powers of two
          IoSpan,       \* 0x80000, what an I/O address is masked to
          RegionSize    \* cells of each memory

W == 2 ^ WordBits
Cut(v, size) == IF size = 3 THEN v ELSE v % 2 ^ CellBits    \* v & sizemask[size]
Signed(v) == IF v >= W \div 2 THEN v - W ELSE v
Shl(v, n) == (v * 2 ^ (n % WordBits)) % W                   \* as the host shifts
Shr(v, n) == v \div 2 ^ (n % WordBits)
BoolWord(b) == IF b THEN 1 ELSE 0

\* extendSign: the most negative value stays positive.
ExtendSign(v, bits) == IF v > 2 ^ (bits - 1) THEN (v - 2 ^ bits) % W ELSE v

\* A comparison sign extends operands shorter than a register.
Extended(v, size) == IF size = 3 THEN v ELSE ExtendSign(v % 2 ^ CellBits, CellBits)

AluValue(i, u, v) ==
  LET s == IF i.hasImm THEN i.imm ELSE v      \* value_immediate9
  IN CASE i.unit = 1  -> IF i.size = 3 \/ (u \div 2 ^ (CellBits - 1)) % 2 = 0 THEN u
                         ELSE u | (W - 2 ^ CellBits)                 \* SEXT
       [] i.unit = 2  -> BoolWord(Cut(u, i.size) # 0)                \* BOOL
       [] i.unit = 3  -> u | Shl(i.imm, i.size * Step)               \* SMOVE
       [] i.unit = 8  -> (i.imm - 2 ^ ImmBits) % W                   \* MOVEN
       [] i.unit = 9  -> i.imm                                       \* MOVEU
       [] i.unit = 16 -> Cut((u + s) % W, i.size)                    \* ADD
       [] i.unit = 17 -> Cut((u - s) % W, i.size)                    \* SUB
       [] i.unit = 18 -> Cut(u ^^ s, i.size)                         \* XOR
       [] i.unit = 19 -> Cut(u | s, i.size)                          \* OR
       [] i.unit = 20 -> Cut(u & s, i.size)                          \* AND
       [] i.unit = 21 -> Cut(Shl(u, s), i.size)                      \* LSL
       [] i.unit \in {22, 23} -> Cut(Shr(u, s), i.size)              \* ASR, LSR
       [] OTHER -> 0

\* Z (not equal), S and U.  The SLT group sets only U, and compares sign
\* extended values as unsigned numbers.
CompareBits(i, u, v) ==
  LET Bits(x, y) == BoolWord(x # y) + 2 * BoolWord(Signed(x) < Signed(y)) + 4 * BoolWord(x < y)
      k == ExtendSign(i.imm, ImmBits)
  IN CASE i.unit = 4  -> 4 * BoolWord(Extended(u, i.size) < Extended(v, i.size))  \* SLTS
       [] i.unit = 5  -> 4 * BoolWord(Cut(u, i.size) < Cut(v, i.size))            \* SLTU
       [] i.unit = 6  -> 4 * BoolWord(Extended(u, i.size) < k)                    \* SLTSI
       [] i.unit = 7  -> 4 * BoolWord(Cut(u, i.size) < k)                         \* SLTUI
       [] i.unit = 64 -> Bits(Cut(u, i.size), Cut(v, i.size))                     \* CMP
       [] i.unit = 66 -> Bits(Cut(u, i.size), (i.imm - 2 ^ ImmBits) % W)          \* CMPN
       [] i.unit = 67 -> Bits(Cut(u, i.size), i.imm)                              \* CMPU
       [] i.unit = 68 -> IF u = v THEN 0 ELSE IF u < v THEN 7 ELSE 1              \* FCMP
       [] i.unit \in {70, 71} -> IF u = i.imm THEN 0 ELSE IF u < i.imm THEN 7 ELSE 1
       [] OTHER -> 0                                                              \* CMPFR

\* Lanes are floating point in the code; integers modulo a cell stand for them.
LaneValue(i, d, x, y) ==
  LET m == 2 ^ CellBits
  IN CASE i.unit \in {96, 100, 104} -> (x + y) % m                   \* add
       [] i.unit \in {97, 101, 105} -> (x - y) % m                   \* sub
       [] i.unit \in {98, 102, 106} -> (x * y) % m                   \* mul
       [] i.unit \in {99, 103, 107} -> (d * (x + y)) % m             \* muladd
       [] i.unit \in 108 .. 110 -> (d * (x - y)) % m                 \* mulsub
       [] i.unit \in {112, 113, 122, 123} -> x                       \* move, convert
       [] i.unit \in {114, 115} -> (d - i.imm) % m                   \* movei
       [] i.unit \in {116, 118} -> (0 - x) % m                       \* neg
       [] i.unit \in {117, 119} -> IF x >= m \div 2 THEN m - x ELSE d \* abs of a negative lane
       [] i.unit = 126 -> IF d > x THEN x ELSE d                     \* FMIN
       [] i.unit = 127 -> IF d < x THEN x ELSE d                     \* FMAX
       [] OTHER -> d

AddrValue(i, base, off) ==
  CASE i.unit \in 32 .. 39 -> (base + i.imm) % W
    [] i.unit \in 40 .. 43 -> (base + off) % W
    [] OTHER -> (base + ExtendSign(i.imm, ImmBits)) % W

-----------------------------------------------------------------------------
(* AX_Memory_Map, and the same chain in executeLoad and executeStore.      *)

Regions == {"wram", "vram", "sram", "spm2", "spmt", "rom", "io", "spm"}
MemCells == UNION {{<<r, k>> : k \in 0 .. RegionSize[r] - 1} : r \in Regions}

RegionBits == <<"io", "rom", "spmt", "spm2", "sram", "vram", "wram">>

\* The region of the highest region bit set, the scratchpad if there is none.
RegionOf(addr) ==
  LET set == {k \in DOMAIN RegionBits : (addr \div (IO_BEGIN * 2 ^ (k - 1))) % 2 = 1}
  IN IF set = {} THEN "spm" ELSE RegionBits[CHOOSE k \in set : \A j \in set : j <= k]

\* The offset is masked with the size of the memory minus one, for I/O with a
\* span larger than the memory behind it.
MapAddr(addr) ==
  LET r == RegionOf(addr)
  IN <<r, addr & ((IF r = "io" THEN IoSpan ELSE RegionSize[r]) - 1)>>

\* AX_IO_Read decodes 20 bits of the offset where the map takes 19.
InfoAddr(addr) == RegionOf(addr) = "io" /\ addr % (2 * IoSpan) = 0

=============================================================================
