------------------------------- MODULE AxMemoryMap -----------------------------
(***************************************************************************)
(* AxMemory of VM/altairx_v2: the memories of the machine and the map from *)
(* addresses to them.  Addresses and sizes are counted in cells of one     *)
(* 32-bit word.  A region is selected by the highest address bit set among *)
(* WRAM, SPM2, SPMT, ROM and IO, and the offset in it is addr & (size - 1),*)
(* whatever the size is; nothing is checked.                               *)
(***************************************************************************)
EXTENDS Integers

CONSTANTS
  IO_BEGIN,     \* the least region bit; the others are the next powers of two
  RegionSize,   \* cells of each region
  Mask(_, _)    \* bitwise and

Regions == {"wram", "spm2", "spmt", "rom", "io", "spm"}

ASSUME MapAssumption ==
       /\ IO_BEGIN \in Nat \ {0} /\ \E k \in 0 .. 30 : IO_BEGIN = 2 ^ k
       /\ RegionSize \in [Regions -> Nat \ {0}]

ROM_BEGIN  == 2 * IO_BEGIN
SPMT_BEGIN == 4 * IO_BEGIN
SPM2_BEGIN == 8 * IO_BEGIN
WRAM_BEGIN == 16 * IO_BEGIN

Begin == [wram |-> WRAM_BEGIN, spm2 |-> SPM2_BEGIN, spmt |-> SPMT_BEGIN,
          rom |-> ROM_BEGIN, io |-> IO_BEGIN, spm |-> 0]

MemCells == UNION {{<<r, k>> : k \in 0 .. RegionSize[r] - 1} : r \in Regions}

Has(addr, bit) == (addr \div bit) % 2 = 1

\* Mutant: the test of one region bit is missing.
RegionOf_NoSpmt(addr) ==
  IF Has(addr, WRAM_BEGIN) THEN "wram"
  ELSE IF Has(addr, SPM2_BEGIN) THEN "spm2"
  ELSE IF Has(addr, ROM_BEGIN) THEN "rom"
  ELSE IF Has(addr, IO_BEGIN) THEN "io"
  ELSE "spm"

RegionOf(addr) ==
  IF Has(addr, WRAM_BEGIN) THEN "wram"
  ELSE IF Has(addr, SPM2_BEGIN) THEN "spm2"
  ELSE IF Has(addr, SPMT_BEGIN) THEN "spmt"
  ELSE IF Has(addr, ROM_BEGIN) THEN "rom"
  ELSE IF Has(addr, IO_BEGIN) THEN "io"
  ELSE "spm"

\* AxMemory::map: base of the region plus the masked address.
MapAddr(addr) ==
  LET r == RegionOf(addr) IN <<r, Mask(addr, RegionSize[r] - 1)>>

=============================================================================
