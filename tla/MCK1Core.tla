------------------------------- MODULE MCK1Core -------------------------------
(***************************************************************************)
(* K1Core on small words: 5-bit cells, 9-bit registers, 3-bit immediates,  *)
(* addresses modulo 16, eight registers and eight cells of WRAM.  A cell   *)
(* value is an opcode.                                                     *)
(***************************************************************************)
EXTENDS K1Core, Sequences

MCRegionSize == [wram |-> 8, vram |-> 1, sram |-> 1, spm2 |-> 2, spmt |-> 1,
                 rom |-> 3, io |-> 2, spm |-> 2]
D == INSTANCE K1Datapath WITH
       WordBits <- 9, CellBits <- 5, ImmBits <- 3, Step <- 3,
       IO_BEGIN <- 4, IoSpan <- 2, RegionSize <- MCRegionSize

MCLoc == D!MemCells
MCAlu(i, u, v) == D!AluValue(i, u, v)
MCFlagBits(i, u, v) == D!CompareBits(i, u, v)
MCFpu(i, d, x, y) == D!LaneValue(i, d, x, y)
MCAddr(i, base, off) == D!AddrValue(i, base, off)
MCMap(v) == D!MapAddr(v)
MCCpuInfo(v) == D!InfoAddr(v)

I(unit) == [unit |-> unit, pair |-> FALSE, a |-> 2, b |-> 1, c |-> 2, hasImm |-> FALSE,
            imm |-> 0, size |-> 3, id |-> 1, sel |-> <<1, 0, 3, 3>>]
Instruction(i) == [i EXCEPT !.sel = [k \in Quad |-> i.sel[k + 1]]]
Imm(i, k) == [i EXCEPT !.imm = k, !.hasImm = TRUE]
Paired(i) == [i EXCEPT !.pair = TRUE]

Table ==
  <<I(0),                                      \* 0  nop
    Imm(I(94), 3),                             \* 1  call 3
    I(76),                                     \* 2  ret
    I(78),                                     \* 3  syscall
    I(77),                                     \* 4  reti
    Paired(Imm(I(80), 1)),                     \* 5  bne .+1, paired
    Paired(Imm([I(67) EXCEPT !.a = 1], 1)),    \* 6  cmpu r1, 1, paired
    I(79),                                     \* 7  int
    Imm([I(45) EXCEPT !.size = 2], 1),         \* 8  sti.w r2, [r1 + 1]
    Imm(I(90), 7),                             \* 9  bra .-1
    Imm(I(91), 6),                             \* 10 loop .-2
    Paired(Imm([I(9) EXCEPT !.a = 1], 1)),     \* 11 moveu r1, 1, paired
    Imm(I(92), 2),                             \* 12 jump 2
    Imm(I(93), 1),                             \* 13 jumpbr 1
    Imm(I(95), 4),                             \* 14 callbr 4
    [I(15) EXCEPT !.b = 0],                    \* 15 moveir lr, r2
    [I(15) EXCEPT !.b = 2],                    \* 16 moveir flags, r2
    [I(14) EXCEPT !.b = 1],                    \* 17 moveri r2, br
    Paired(Imm([I(3) EXCEPT !.a = 1, !.size = 2], 4)),   \* 18 smove r1, 4 << 6, paired
    [I(1) EXCEPT !.size = 2],                  \* 19 sext.w r2, r1
    [I(4) EXCEPT !.a = 1, !.b = 2],            \* 20 slts r1, r2
    [I(26) EXCEPT !.a = 1],                    \* 21 rems r1, r1, r2
    I(44),                                     \* 22 ldi r2, [r1]
    [I(46) EXCEPT !.a = 3, !.size = 0],        \* 23 ldvi v, [r1]
    [I(43) EXCEPT !.a = 1, !.size = 1],        \* 24 stv v, [r1 + r2]
    [I(68) EXCEPT !.a = 0],                    \* 25 fcmp
    I(69),                                     \* 26 dcmp
    [I(100) EXCEPT !.size = 2],                \* 27 vfadd
    [I(111) EXCEPT !.b = 2],                   \* 28 vfshuffle onto itself
    I(72),                                     \* 29 endp
    I(28),                                     \* 30 mul r2, r1, r2
    [I(104) EXCEPT !.a = 0]>>                  \* 31 vfadds
MCDecode(w) == Instruction(Table[w + 1])

\* Programs at 1 .. 4, the first word in reach of a trap, entered at 2: all of
\* them over the first nine opcodes, and all pairs over all opcodes.
Code(c) == [l \in MCLoc |-> CASE l[1] = "wram" /\ l[2] \in 1 .. 4 -> c[l[2]]
                             [] l = <<"rom", 0>> -> 5       \* a string with a conversion
                             [] l[1] = "spmt" -> 1          \* a string without end
                             [] OTHER -> 0]
MCImages ==
  {Code(c) : c \in [1 .. 4 -> 0 .. 8]}
    \cup {Code(<<0, v, w, x>>) : v, w \in 0 .. 31, x \in {11, 29}}
MCEntry == {2}

\* What the registers may hold: calls 1 (printf), 8 (fopen) and 14 (getchar),
\* with good and bad strings.
Start(r1, call, arg, name, loop) ==
  [ireg |-> [r \in Reg |-> CASE r = 1 -> r1 [] r = 3 -> loop [] r = 4 -> call [] r = 5 -> arg
                             [] r = 6 -> name [] OTHER -> 0],
   vreg |-> [l \in Lane |-> l], flags |-> 8, lr |-> 2, br |-> 3, ir |-> 0]
MCGarbage == {Start(0, 1, 8, 0, 1), Start(1, 1, 16, 0, 0), Start(4, 8, 11, 256, 0),
              Start(2, 8, 11, 16, 1), Start(256, 14, 0, 0, 2)}
MCHandles == {11}
MCChars == {2, 511}
MCFormats == {5}

\* Sets of bundle addresses: the two a trap leads to, any of the words that may
\* be the second of a bundle, and everything behind them.
MCStartSets == {t \cup {1, 3} \cup 6 .. 15 : t \in SUBSET {2, 4, 5}} \cup {0 .. 15}

=============================================================================
