------------------------------- MODULE AxLoader -------------------------------
(***************************************************************************)
(* Start-up of VM/altairx_v2: parse_args reads the command line, AxELFFile *)
(* the executable, and load_program or load_hosted_program lays out in     *)
(* WRAM the sections of an ELF file, or a raw file, and for a hosted       *)
(* program a stack, the code that calls main and the arguments.            *)
(*                                                                         *)
(* Addresses are byte offsets from WRAM_BEGIN and have 64 bits, as the     *)
(* sums the code makes of them; a byte's contents are the name of the item *)
(* it belongs to.  What LLVM makes of an executable is part of the input:  *)
(* a section has the size its header says and the length of the contents   *)
(* LLVM returns, which differ for a .bss.                                  *)
(***************************************************************************)
EXTENDS Integers, SequencesExt

CONSTANTS
  AddrMod,    \* 2^64
  WramBegin,  \* 2^31, the bit that makes AxMemory::map choose WRAM
  Unit,       \* 0x100000, what -wram counts
  Page,       \* 0x10000, the stack starts on the page after the program
  StackSize,  \* 0x100000
  Pointer,    \* 8, size of a pointer and distance of sp from the stack's end
  WordBytes,  \* 4, bytes of an opcode
  EntryLen,   \* 32, bytes of the entry code
  DefaultWram,\* 16
  Commands,   \* what a user may ask for, see Render
  BadArgs,    \* other command lines
  Files,      \* what the executable may hold
  Mask(_, _)  \* bitwise and

Tokens == [text : STRING, num : Int, len : Nat]
Word64 == 0 .. AddrMod - 1
Sections == [alloc : BOOLEAN, addr : Word64, size : Word64, len : Word64, ok : BOOLEAN]
SymbolTables ==
  [ok : BOOLEAN, symbols : Seq([name : STRING, type : STRING, value : Word64, size : Word64])]
ElfFiles == [opened : BOOLEAN, elf : BOOLEAN, sections : Seq(Sections),
             tables : Seq(SymbolTables), bytes : Nat]

ASSUME LayoutAssumption ==
  /\ {Unit, Page, StackSize, Pointer, WordBytes, EntryLen} \subseteq Nat \ {0}
  /\ DefaultWram \in Nat
  /\ Pointer <= StackSize
  /\ Page % WordBytes = 0 /\ StackSize % WordBytes = 0

ASSUME AddressAssumption ==
  /\ WramBegin \in Nat \ {0} /\ AddrMod \in Nat /\ 2 * WramBegin < AddrMod
  /\ \A a, b \in Word64 : Mask(a, b) \in 0 .. b

ASSUME InputAssumption ==
  /\ \A c \in Commands : /\ c.options \in Seq(Tokens) /\ c.forwarded \in Seq(Tokens)
                         /\ c.exe \in STRING /\ c.exeLen \in Nat
  /\ BadArgs \subseteq Seq(Tokens)
  /\ Files \subseteq ElfFiles
  /\ \A f \in Files : \A j \in DOMAIN f.sections :
       f.sections[j].len \in {0, f.sections[j].size}

\* The literals below are strings, which no prover knows by itself.
ASSUME LiteralAssumption == {"", "main", "--"} \subseteq STRING

VARIABLES
  asked,      \* history: the command behind args, NoCommand for other lines
  args,       \* the command line without the program's name
  par,        \* AxParameters
  file,       \* the executable
  step,       \* what the program does next
  k,          \* index of the loop it is in
  found,      \* entry_point_allocated
  own,        \* what each byte of WRAM holds
  sp, pc,     \* r0, and pc in words
  table       \* argv_buffer: the addresses of the strings copied so far

image == <<found, own, sp, pc, table>>
lvars == <<asked, args, par, file, step, k, image>>

-----------------------------------------------------------------------------
(* The command line: tokens are [text, num, len], num is -1 if the text is *)
(* not a number.                                                           *)

Sep == "--"
ValueOptions == {"-ncore", "-wram", "-spmt", "-spm2", "-mode"}
Reserved == ValueOptions \cup {"-entry-point", "-hosted", Sep}
Defaults == [wram |-> DefaultWram, entry |-> "main", hosted |-> FALSE,
             exe |-> "", exeLen |-> 0, forwarded |-> <<>>]
NoCommand == [exe |-> ""]

Token(text, num, len) == [text |-> text, num |-> num, len |-> len]
Word(text) == Token(text, -1, 1)

\* The line a user writes for a command, as print_usage says: options, the
\* executable, and the arguments to forward behind "--".
Render(c) ==
  c.options \o <<Token(c.exe, -1, c.exeLen)>>
    \o (IF c.forwarded = <<>> THEN <<>> ELSE <<Word(Sep)>> \o c.forwarded)

\* c.options is a list of options that start at the positions in starts, each
\* with its value behind it.
Grammar(c, starts) ==
  /\ 1 \in starts /\ starts \subseteq 1 .. Len(c.options) + 1
  /\ \A p \in starts \ {Len(c.options) + 1} :
       \/ c.options[p].text = "-hosted" /\ p + 1 \in starts
       \/ /\ c.options[p].text \in ValueOptions \cup {"-entry-point"}
          /\ c.options[p].text # "-entry-point" => c.options[p + 1].num >= 0
          /\ p + 1 \notin starts /\ p + 2 \in starts

\* The positions at which a list of options has option o.
Uses(c, starts, o) == {p \in starts : p <= Len(c.options) /\ c.options[p].text = o}

\* What the options at starts ask for: the last of repeated options counts.
Meant(c, starts, p) ==
  LET wram  == Uses(c, starts, "-wram")
      entry == Uses(c, starts, "-entry-point")
  IN /\ p.hosted <=> Uses(c, starts, "-hosted") # {}
     /\ p.wram = IF wram = {} THEN DefaultWram ELSE c.options[Max(wram) + 1].num
     /\ p.entry = IF entry = {} THEN "main" ELSE c.options[Max(entry) + 1].text

\* A command is of the documented form and says what its options mean.
ASSUME CommandAssumption ==
  \A c \in Commands :
    /\ c.exe \notin Reserved \cup {""} /\ c.hosted \in BOOLEAN
    /\ \E starts \in SUBSET (1 .. Len(c.options) + 1) : Grammar(c, starts) /\ Meant(c, starts, c)

Arg == args[k]
Panic ==
  /\ step' = "panic"
  /\ UNCHANGED <<asked, args, par, file, k, image>>

Parsing(text) == step = "args" /\ k <= Len(args) /\ Arg.text = text
Parsed(p, n) ==
  /\ par' = p /\ k' = k + n
  /\ UNCHANGED <<asked, args, file, step, image>>

\* get_value_for_arg.
HasValue == k < Len(args) /\ args[k + 1].num >= 0

\* Options with a number; only -wram matters to the loader.
ParseValue(o) ==
  /\ Parsing(o)
  /\ HasValue
  /\ Parsed(IF o = "-wram" THEN [par EXCEPT !.wram = args[k + 1].num] ELSE par, 2)

NoValue(o) == Parsing(o) /\ ~HasValue /\ Panic

ParseEntryPoint ==
  /\ Parsing("-entry-point")
  /\ \/ k < Len(args) /\ Parsed([par EXCEPT !.entry = args[k + 1].text], 2)
     \/ k = Len(args) /\ Panic

ParseHosted == Parsing("-hosted") /\ Parsed([par EXCEPT !.hosted = TRUE], 1)

\* Mutant: the separator is forwarded too.
Forwarded_WithSep == SubSeq(args, k, Len(args))
Forwarded == SubSeq(args, k + 1, Len(args))

\* "--": whatever stands before it is the executable.
ParseSeparator ==
  /\ Parsing(Sep)
  /\ LET p == [par EXCEPT !.forwarded = Forwarded]
     IN Parsed(IF k > 1 THEN [p EXCEPT !.exe = args[k - 1].text, !.exeLen = args[k - 1].len] ELSE p,
               Len(args) + 1 - k)

ParseName ==
  /\ step = "args" /\ k <= Len(args)
  /\ Arg.text \notin Reserved
  /\ Parsed([par EXCEPT !.exe = Arg.text, !.exeLen = Arg.len], 1)

Wram == (par.wram * Unit) % AddrMod       \* wram_bytesize

\* AxMemory, with all bytes free.
ArgsParsed ==
  /\ step = "args" /\ k > Len(args)
  /\ par.exe # ""
  /\ own' = [x \in 0 .. Wram - 1 |-> <<"free", 0>>]
  /\ step' = "open"
  /\ UNCHANGED <<asked, args, par, file, k, found, sp, pc, table>>

MissingExecutable == step = "args" /\ k > Len(args) /\ par.exe = "" /\ Panic

-----------------------------------------------------------------------------
(* AxELFFile::from_file and get_entry_point.                               *)

\* AxMemory::map looks at the bit WRAM_BEGIN of an address and folds it into
\* WRAM by a mask (all ones for no WRAM); a copy then runs on from there without
\* further folding.
Address(a) == (WramBegin + a) % AddrMod
InRegion(a) == (Address(a) \div WramBegin) % 2 = 1
Fold(a) == IF Wram = 0 THEN Address(a) ELSE Mask(Address(a), Wram - 1)

\* A copy of n bytes to a stays in WRAM.
InWram(a, n) == n = 0 \/ (InRegion(a) /\ Fold(a) + n <= Wram)
Put(a, n, item) ==
  LET f == Fold(a)
  IN own' = [x \in DOMAIN own |-> IF f <= x /\ x < f + n THEN item ELSE own[x]]

\* convert_elf: an allocated section whose contents LLVM cannot return spoils
\* the file; the last symbol table it can convert counts.
IsElf ==
  /\ file.opened /\ file.elf
  /\ \A j \in DOMAIN file.sections : file.sections[j].alloc => file.sections[j].ok
Symbols ==
  LET good == {j \in DOMAIN file.tables : file.tables[j].ok}
  IN IF good = {} THEN <<>> ELSE file.tables[Max(good)].symbols

EntryName == IF par.hosted THEN "main" ELSE par.entry
Named == {j \in DOMAIN Symbols : Symbols[j].name = EntryName}

EntryPoint == Symbols[Max(Named)]

HasEntryPoint == Named # {} /\ EntryPoint.type = "func"

OpenElf ==
  /\ step = "open" /\ IsElf /\ HasEntryPoint
  /\ step' = "sections" /\ k' = 1
  /\ UNCHANGED <<asked, args, par, file, image>>

BadEntryPoint == step = "open" /\ IsElf /\ ~HasEntryPoint /\ Panic

\* load_program with a file that is no ELF: a raw image, its length unchecked.
LoadRaw ==
  /\ step = "open" /\ ~IsElf /\ ~par.hosted /\ file.opened
  /\ InWram(0, file.bytes)
  /\ Put(0, file.bytes, <<"raw", 0>>)
  /\ pc' = 4
  /\ step' = "done"
  /\ UNCHANGED <<asked, args, par, file, k, found, sp, table>>

LoadRawOutside ==
  /\ step = "open" /\ ~IsElf /\ ~par.hosted /\ file.opened
  /\ ~InWram(0, file.bytes)
  /\ step' = "wild"
  /\ UNCHANGED <<asked, args, par, file, k, image>>

CannotOpen == step = "open" /\ ~IsElf /\ (par.hosted \/ ~file.opened) /\ Panic

-----------------------------------------------------------------------------
(* load_sections: one section at a time.  The sums wrap.                   *)

Section == file.sections[k]
End(j) == (file.sections[j].addr + file.sections[j].len) % AddrMod
Covers(s, m) ==
  s.addr <= m.value /\ (s.addr + s.size) % AddrMod >= (m.value + m.size) % AddrMod
Loading == step = "sections" /\ k <= Len(file.sections)

\* Mutant: the loop does not go on.
SkipSection_Stays == Loading /\ ~Section.alloc /\ UNCHANGED lvars

SkipSection ==
  /\ Loading /\ ~Section.alloc
  /\ k' = k + 1
  /\ UNCHANGED <<asked, args, par, file, step, image>>

LoadSection ==
  /\ Loading /\ Section.alloc
  /\ End(k) <= Wram /\ InWram(Section.addr, Section.len)
  /\ Put(Section.addr, Section.len, <<"section", k>>)
  /\ found' = (found \/ Covers(Section, EntryPoint))
  /\ k' = k + 1
  /\ UNCHANGED <<asked, args, par, file, step, sp, pc, table>>

\* The end has wrapped, or the address selects another memory.
LoadSectionOutside ==
  /\ Loading /\ Section.alloc
  /\ End(k) <= Wram /\ ~InWram(Section.addr, Section.len)
  /\ step' = "wild"
  /\ UNCHANGED <<asked, args, par, file, k, image>>

SectionTooLong == Loading /\ Section.alloc /\ End(k) > Wram /\ Panic

SectionsLoaded ==
  /\ step = "sections" /\ k > Len(file.sections)
  /\ found
  /\ pc' = EntryPoint.value \div WordBytes
  /\ step' = IF par.hosted THEN "stack" ELSE "done"
  /\ UNCHANGED <<asked, args, par, file, k, found, own, sp, table>>

NoEntryPoint == step = "sections" /\ k > Len(file.sections) /\ ~found /\ Panic

-----------------------------------------------------------------------------
(* setup_stack, write_entry_code and load_host_argv.                       *)

Allocated == {j \in DOMAIN file.sections : file.sections[j].alloc}
TotalEnd == Max({End(j) : j \in Allocated} \cup {0})
StackEnd == ((TotalEnd \div Page) + 1) * Page + StackSize

SetupStack ==
  /\ step = "stack"
  /\ Wram >= StackEnd
  /\ sp' = StackEnd - Pointer
  /\ step' = "entry"
  /\ UNCHANGED <<asked, args, par, file, k, found, own, pc, table>>

NoRoomForStack == step = "stack" /\ Wram < StackEnd /\ Panic

WriteEntryCode ==
  /\ step = "entry"
  /\ Wram >= StackEnd + EntryLen /\ InWram(StackEnd, EntryLen)
  /\ Put(StackEnd, EntryLen, <<"entry", 0>>)
  /\ pc' = StackEnd \div WordBytes
  /\ k' = 1
  /\ step' = "argv"
  /\ UNCHANGED <<asked, args, par, file, found, sp, table>>

\* A WRAM so large that its end is beyond the bit WRAM_BEGIN.
WriteEntryCodeOutside ==
  /\ step = "entry"
  /\ Wram >= StackEnd + EntryLen /\ ~InWram(StackEnd, EntryLen)
  /\ step' = "wild"
  /\ UNCHANGED <<asked, args, par, file, k, image>>

\* Mutant: a WRAM that just fits is refused.
NoRoomForEntry_Exact == step = "entry" /\ Wram <= StackEnd + EntryLen /\ Panic

NoRoomForEntry == step = "entry" /\ Wram < StackEnd + EntryLen /\ Panic

\* The strings with their NUL, then the table of pointers, each below the last.
\* Nothing checks that the stack is long enough.
Lengths == <<par.exeLen>> \o [j \in DOMAIN par.forwarded |-> par.forwarded[j].len]

\* Mutant: no room for the NUL.
ArgBytes_NoNul == Lengths[k]

ArgBytes == Lengths[k] + 1

AddArgument ==
  /\ step = "argv" /\ k <= Len(Lengths)
  /\ sp >= ArgBytes /\ InWram(sp - ArgBytes, ArgBytes)
  /\ sp' = sp - ArgBytes
  /\ Put(sp', Lengths[k] + 1, <<"arg", k>>)
  /\ table' = Append(table, sp')
  /\ k' = k + 1
  /\ UNCHANGED <<asked, args, par, file, step, found, pc>>

TableBytes == (Len(table) + 1) * Pointer

WriteArgv ==
  /\ step = "argv" /\ k > Len(Lengths)
  /\ sp >= TableBytes /\ InWram(sp - TableBytes, TableBytes)
  /\ sp' = sp - TableBytes
  /\ Put(sp', TableBytes, <<"argv", 0>>)
  /\ step' = "done"
  /\ UNCHANGED <<asked, args, par, file, k, found, pc, table>>

\* Below WRAM_BEGIN lies another memory.
BelowWram ==
  /\ step = "argv"
  /\ LET n == IF k > Len(Lengths) THEN TableBytes ELSE ArgBytes
     IN sp < n \/ ~InWram(sp - n, n)
  /\ step' = "wild"
  /\ UNCHANGED <<asked, args, par, file, k, image>>

-----------------------------------------------------------------------------

Init ==
  /\ \/ asked \in Commands /\ args = Render(asked)
     \/ asked = NoCommand /\ args \in BadArgs
  /\ par = Defaults
  /\ file \in Files
  /\ step = "args" /\ k = 1
  /\ found = FALSE /\ own = <<>> /\ sp = 0 /\ pc = 0 /\ table = <<>>

ParseArgs ==
  \/ \E o \in ValueOptions : ParseValue(o) \/ NoValue(o)
  \/ ParseEntryPoint \/ ParseHosted \/ ParseSeparator \/ ParseName
  \/ ArgsParsed \/ MissingExecutable

LoadFile ==
  \/ OpenElf \/ BadEntryPoint \/ LoadRaw \/ LoadRawOutside \/ CannotOpen
  \/ SkipSection \/ LoadSection \/ LoadSectionOutside \/ SectionTooLong
  \/ SectionsLoaded \/ NoEntryPoint

SetUpHost ==
  \/ SetupStack \/ NoRoomForStack
  \/ WriteEntryCode \/ WriteEntryCodeOutside \/ NoRoomForEntry
  \/ AddArgument \/ WriteArgv \/ BelowWram

Next == ParseArgs \/ LoadFile \/ SetUpHost

\* main is one thread that never waits.
Spec == Init /\ [][Next]_lvars /\ WF_lvars(Next)

-----------------------------------------------------------------------------
(* Properties.                                                             *)

\* A command line of the form print_usage gives means what the user asked for:
\* parse_args finds the executable in front of "--" or at the end, forwards
\* what follows and takes the last of repeated options, whatever words the
\* values of options are.
CommandHonoured ==
  step \notin {"args", "panic"} /\ asked # NoCommand =>
    /\ par.exe = asked.exe /\ par.forwarded = asked.forwarded
    /\ par.hosted = asked.hosted /\ par.wram = asked.wram /\ par.entry = asked.entry

\* Everything the host passes fits in the stack, below the first sp.
ArgumentsFit ==
  FoldSeq(LAMBDA n, sum : sum + n + 1, 0, Lengths) + (Len(Lengths) + 2) * Pointer <= StackSize

\* What setup_stack set aside was enough: r0 is still in it.
InStack == sp >= StackEnd - StackSize

\* WRAM has a size, a power of two up to the bit WRAM_BEGIN, that the mask of
\* AxMemory::map can express.
Maskable(n) ==
  n \in 1 .. WramBegin /\ \A a \in 0 .. n : Mask(WramBegin + a, n - 1) = a % n

\* The contents of no two sections of the executable claim a byte.
SectionsApart ==
  \A i, j \in Allocated :
    LET s == file.sections[i]
        t == file.sections[j]
    IN \/ i = j \/ 0 \in {s.len, t.len}
       \/ s.addr + s.len <= t.addr \/ t.addr + t.len <= s.addr

\* Every section, with or without contents, lies in front of the stack, or in
\* WRAM without one, and apart from the contents of others.  setup_stack sees to
\* it for contents only: a .bss behind them is not reserved.
BssReserved ==
  \A j \in Allocated :
    LET s == file.sections[j]
    IN /\ s.addr + s.size <= IF par.hosted THEN TotalEnd ELSE Wram
       /\ \A i \in Allocated \ {j} :
            LET t == file.sections[i]
            IN t.len = 0 \/ t.addr + t.len <= s.addr \/ s.addr + s.size <= t.addr

\* What holds the entry point is no .bss; its last address does not wrap.
EntryHasCode ==
  /\ EntryPoint.value + EntryPoint.size < AddrMod
  /\ \A j \in Allocated : Covers(file.sections[j], EntryPoint) =>
       file.sections[j].len = file.sections[j].size

Holds(a, n, item) == \A x \in a .. a + n - 1 : x \in DOMAIN own /\ own[x] = item

\* The contents of a loaded program are whole: no later write of the loader has
\* damaged those of a section or the raw image, pc is at the last function of
\* the entry name, and the code of that function is in place; in a hosted
\* program whose arguments stayed in the stack, the entry code, the strings and
\* the table are whole too, all in WRAM.  If the sections without contents have
\* a place of their own, they are still zero, and everything between the program
\* and r0 is free stack; otherwise a .bss may lie under stack and entry code.
LayoutIntact ==
  step = "done" /\ Maskable(Wram) /\ SectionsApart /\ (par.hosted => InStack) =>
    /\ IsElf => \A j \in Allocated :
         Holds(file.sections[j].addr, file.sections[j].len, <<"section", j>>)
    /\ IsElf /\ BssReserved => \A j \in Allocated :
         file.sections[j].len = 0 =>
           Holds(file.sections[j].addr, file.sections[j].size, <<"free", 0>>)
    /\ IsElf /\ EntryHasCode => \E j \in Allocated :
         Holds(EntryPoint.value, EntryPoint.size, <<"section", j>>)
    /\ ~IsElf => Holds(0, file.bytes, <<"raw", 0>>)
    /\ IsElf /\ ~par.hosted =>
         \E j \in Named : /\ pc = Symbols[j].value \div WordBytes
                          /\ Symbols[j].type = "func"
                          /\ \A i \in Named : i <= j
    /\ par.hosted =>
         /\ Holds(pc * WordBytes, EntryLen, <<"entry", 0>>)
         /\ \A j \in DOMAIN Lengths : Holds(table[j], Lengths[j] + 1, <<"arg", j>>)
         /\ Holds(sp, (Len(Lengths) + 1) * Pointer, <<"argv", 0>>)
    /\ par.hosted /\ BssReserved => \A x \in TotalEnd .. sp - 1 : own[x] = <<"free", 0>>

\* A command of the documented form that asks for an executable with the entry
\* point is refused only if WRAM is too short for program, stack and entry code,
\* or if no section it loads holds the entry point.
RefusedForCause ==
  step = "panic" /\ asked # NoCommand /\ IsElf /\ HasEntryPoint =>
    \/ Wram < IF par.hosted THEN StackEnd + EntryLen ELSE TotalEnd
    \/ \A j \in Allocated : ~Covers(file.sections[j], EntryPoint)

\* WRAM is longer than the bit WRAM_BEGIN; the end of a section wraps.
LongWram == \E x \in DOMAIN own : x >= WramBegin
EndWraps ==
  \E j \in Allocated : file.sections[j].addr + file.sections[j].len >= AddrMod

\* Start-up ends; in a WRAM that keeps below the bit WRAM_BEGIN nothing is
\* written outside it but a raw file longer than it, arguments longer than the
\* stack, and a section so near 2^64 that its end wraps past the check of
\* load_sections; and the arguments stay in the stack exactly when they fit.
LoadEnds ==
  <>(\/ step = "done" /\ (par.hosted => (InStack <=> ArgumentsFit))
     \/ step = "panic"
     \/ step = "wild" /\ (IF IsElf THEN LongWram \/ EndWraps \/ (par.hosted /\ ~ArgumentsFit)
                                    ELSE LongWram \/ file.bytes > Wram))

=============================================================================
