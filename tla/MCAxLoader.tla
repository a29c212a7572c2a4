------------------------------ MODULE MCAxLoader ------------------------------
(***************************************************************************)
(* AxLoader with pages of 4 bytes, a stack of 16 and an entry code of 4:   *)
(* executables of up to two sections with allocated, .bss and other        *)
(* sections, apart or overlapping, duplicate and missing symbols, raw and  *)
(* unreadable files, and memories from none to large enough for it all;    *)
(* addresses of 8 bits, the bit 64 for WRAM, sections at the end of the    *)
(* address space and a memory longer than that bit allows.                 *)
(***************************************************************************)
EXTENDS AxLoader
LOCAL BW == INSTANCE Bitwise

MCMask(a, b) == BW!&(a, b)

Sect(a, n) == [alloc |-> TRUE, addr |-> a, size |-> n, len |-> n, ok |-> TRUE]
MCSections ==
  {Sect(a, n) : a \in {0, 4, 7}, n \in {0, 3, 4}}
    \cup {[Sect(4, 3) EXCEPT !.len = 0],          \* a .bss without contents
          [Sect(0, 4) EXCEPT !.alloc = FALSE],    \* debug information
          [Sect(1, 3) EXCEPT !.ok = FALSE]}       \* contents LLVM rejects

Symbol(name, type, value, size) == [name |-> name, type |-> type, value |-> value, size |-> size]
MCTables ==
  {<<>>,
   <<[ok |-> TRUE, symbols |-> <<Symbol("main", "func", 0, 1)>>]>>,
   <<[ok |-> TRUE, symbols |-> <<Symbol("main", "object", 0, 1), Symbol("main", "func", 5, 2)>>],
     [ok |-> FALSE, symbols |-> <<>>]>>,
   <<[ok |-> TRUE, symbols |-> <<Symbol("main", "func", 5, 1), Symbol("boot", "func", 0, 2),
                                 Symbol("boot", "object", 4, 1)>>]>>}
\* Sections whose end wraps, exactly and into WRAM, whose address selects
\* another memory, and that push the stack's end there.
FarSections ==
  {<<Sect(0, 3), Sect(a, 4)>> : a \in {253, 252, 64, 40}} \cup {<<Sect(254, 1), Sect(254, 4)>>}
FarTables ==
  {<<[ok |-> TRUE, symbols |-> <<Symbol("main", "func", v, 2)>>]>> : v \in {1, 40, 255}}
Elf(s, t) == [opened |-> TRUE, elf |-> TRUE, sections |-> s, tables |-> t, bytes |-> 6]
MCFiles ==
  {Elf(s, t) : s \in {<<s>> : s \in MCSections} \cup (MCSections \X MCSections), t \in MCTables}
    \cup {Elf(s, t) : s \in FarSections, t \in FarTables}
    \cup {[opened |-> o, elf |-> FALSE, sections |-> <<>>, tables |-> <<>>, bytes |-> n] :
            o \in BOOLEAN, n \in {0, 6, 20}}

Option(o, n) == <<Word(o), Token("n", n, 1)>>
\* Commands: options with what they should lead to.
Cmd(options, wram, entry, hosted, exeLen, lens) ==
  [options |-> options, wram |-> wram, entry |-> entry, hosted |-> hosted, exe |-> "prog",
   exeLen |-> exeLen, forwarded |-> [j \in DOMAIN lens |-> Token("x", -1, lens[j])]]
Host == <<Word("-hosted")>>
MCCommands ==
  {Cmd(Option("-wram", n) \o Host, n, "main", TRUE, 1, <<>>) : n \in {0, 2, 6, 7, 8, 16, 32}}
    \cup {Cmd(Option("-wram", 2) \o Option("-wram", n) \o Host, n, "main", TRUE, e, l) :
            n \in {8, 10}, e \in {1, 3}, l \in {<<2>>, <<1, 0>>, <<4>>, <<9>>, <<30>>}}
    \cup {Cmd(Option(o, 3), DefaultWram, "main", FALSE, 1, <<>>) : o \in {"-ncore", "-spmt", "-spm2"}}
    \cup {Cmd(<<Word("-entry-point"), Word(e)>>, DefaultWram, e, FALSE, 1, l) :
            e \in {"boot", "--", "-hosted"}, l \in {<<>>, <<1>>}}
    \cup {Cmd(Host \o <<Word("-entry-point"), Word("x"), Word("-entry-point"), Word("-wram")>> \o Host,
              DefaultWram, "-wram", TRUE, 1, <<1>>)}
    \cup {Cmd(Option("-mode", 1) \o Option("-wram", 2), 2, "main", FALSE, 1, <<>>)}
MCBadArgs ==
  {<<>>, <<Word("-wram")>>, <<Word("-wram"), Word("prog")>>, <<Word("prog"), Word("-entry-point")>>,
   <<Word("--"), Word("x")>>, <<Word("prog"), Word("-hosted"), Word("--"), Word("x")>>}

=============================================================================
