---------------------------- MODULE AxLoader_proofs ----------------------------
(***************************************************************************)
(* Start-up lays out a whole program and does what the command line says:  *)
(* LayoutIntact and CommandHonoured of AxLoader hold for every executable, *)
(* every command line and all sizes of WRAM and of the stack.              *)
(*                                                                         *)
(* The first invariant says, for each phase of the loader, what is in      *)
(* place already and what is still free, so that the next copy, which      *)
(* lands in free bytes, damages nothing.  A copy that stayed in WRAM has   *)
(* not wrapped.  The second says what the tokens read so far mean, by the  *)
(* positions at which the options start.                                   *)
(***************************************************************************)
EXTENDS AxLoader, SequenceTheorems, WellFoundedInduction, TLAPS

-----------------------------------------------------------------------------
(* Numbers.                                                                *)

\* A set of natural numbers has a least member.
LEMMA LeastNat ==
  ASSUME NEW T \in SUBSET Nat, T # {}
  PROVE  \E x \in T : \A y \in T : x <= y
<1>1. PICK x \in T : \A y \in T : ~ (<<y, x>> \in OpToRel(<, Nat))
  <2>1. T \subseteq Nat  OBVIOUS
  <2> QED BY <2>1, WFMin, NatLessThanWellFounded, Zenon
<1>2. \A i, j \in Nat : i < j => <<i, j>> \in OpToRel(<, Nat)
  <2> TAKE i, j \in Nat
  <2> HAVE i < j
  <2> DEFINE p == <<i, j>>
  <2>1. p \in Nat \X Nat /\ p[1] = i /\ p[2] = j  OBVIOUS
  <2>2. p[1] < p[2]  BY <2>1
  <2> HIDE DEF p
  <2>3. p \in OpToRel(<, Nat)  BY <2>1, <2>2, Zenon DEF OpToRel
  <2> QED BY <2>3 DEF p
<1>3. \A y \in T : ~(y < x)  BY <1>1, <1>2, Zenon
<1> QED BY <1>3

\* What Max chooses of a bounded set.
LEMMA MaxNat ==
  ASSUME NEW S \in SUBSET Nat, S # {}, NEW b \in Nat, \A x \in S : x <= b
  PROVE  Max(S) \in S /\ \A y \in S : y <= Max(S)
<1> DEFINE T == {b - x : x \in S}
<1>1. T \in SUBSET Nat
  <2> SUFFICES ASSUME NEW x \in S PROVE b - x \in Nat  OBVIOUS
  <2> QED OBVIOUS
<1>2. T # {}  OBVIOUS
<1>3. PICK t \in T : \A y \in T : t <= y  BY <1>1, <1>2, LeastNat
<1>4. PICK m \in S : t = b - m  OBVIOUS
<1>5. ASSUME NEW y \in S PROVE m >= y
  <2>1. t <= b - y  BY <1>3
  <2> QED BY <2>1, <1>4
<1> QED BY <1>5 DEF Max

\* Finitely many numbers have a bound: otherwise there is a least m such that
\* the first m have none.
LEMMA BoundedNat ==
  ASSUME NEW n \in Nat, NEW e, \A j \in 1 .. n : e[j] \in Nat
  PROVE  \E b \in Nat : \A j \in 1 .. n : e[j] <= b
<1> DEFINE Bounded(m) == \E b \in Nat : \A j \in 1 .. m : e[j] <= b
           T == {m \in 0 .. n : ~Bounded(m)}
<1>1. Bounded(0)
  <2>1. \A j \in 1 .. 0 : e[j] <= 0  OBVIOUS
  <2> QED BY <2>1
<1>2. ASSUME NEW m \in 1 .. n, Bounded(m - 1) PROVE Bounded(m)
  <2>1. PICK b \in Nat : \A j \in 1 .. m - 1 : e[j] <= b  BY <1>2
  <2>2. e[m] \in Nat  OBVIOUS
  <2>3. ASSUME NEW j \in 1 .. m PROVE e[j] <= b + e[m]
    <3>1. e[j] \in Nat  OBVIOUS
    <3>2. j \in 1 .. m - 1 \/ j = m  OBVIOUS
    <3>3. e[j] <= b \/ e[j] = e[m]  BY <2>1, <3>2
    <3> QED BY <2>2, <3>1, <3>3
  <2>4. b + e[m] \in Nat  BY <2>2
  <2> QED BY <2>3, <2>4
<1> HIDE DEF Bounded
<1>3. T = {}
  <2> SUFFICES ASSUME T # {} PROVE FALSE  OBVIOUS
  <2>1. T \in SUBSET Nat  OBVIOUS
  <2>2. PICK m \in T : \A y \in T : m <= y  BY <2>1, LeastNat
  <2>3. m \in 0 .. n /\ ~Bounded(m)  BY <2>2
  <2>4. m \in 1 .. n  BY <1>1, <2>3
  <2>5. m - 1 \in 0 .. n /\ ~(m <= m - 1)  BY <2>4
  <2>6. m - 1 \notin T  BY <2>2, <2>5
  <2>7. Bounded(m - 1)  BY <2>5, <2>6
  <2> QED BY <1>2, <2>3, <2>4, <2>7
<1>4. n \in 0 .. n  OBVIOUS
<1>5. Bounded(n)  BY <1>3, <1>4
<1> QED BY <1>5 DEF Bounded

\* The page after an address.
LEMMA NextPage ==
  ASSUME NEW a \in Nat, NEW b \in Nat \ {0}
  PROVE  a \div b \in Nat /\ a < ((a \div b) + 1) * b
OBVIOUS

\* A multiple divides back.
LEMMA Multiple ==
  ASSUME NEW n \in Nat, NEW b \in Nat \ {0}
  PROVE  (n * b) \div b = n
OBVIOUS

\* A number without remainder is a multiple.
LEMMA NoRemainder ==
  ASSUME NEW a \in Nat, NEW b \in Nat \ {0}, a % b = 0
  PROVE  a \div b \in Nat /\ a = (a \div b) * b
OBVIOUS

\* Remainders at the mask's two ends and of a sum that wraps once.
LEMMA Remainders ==
  ASSUME NEW a \in Nat, NEW b \in Nat \ {0}
  PROVE  /\ a < b => a % b = a
         /\ b % b = 0
         /\ b <= a /\ a < 2 * b => a % b = a - b
         /\ a % b \in 0 .. b - 1
OBVIOUS

\* The quotient of a number below the divisor.
LEMMA SmallQuotient ==
  ASSUME NEW a \in Nat, NEW b \in Nat \ {0}, a < b
  PROVE  a \div b = 0
OBVIOUS

-----------------------------------------------------------------------------
(* The invariant.                                                          *)

Parameters == [wram : Nat, entry : STRING, hosted : BOOLEAN, exe : STRING,
               exeLen : Nat, forwarded : Seq(Tokens)]
Steps == {"args", "panic", "open", "sections", "stack", "entry", "argv", "done", "wild"}

\* Types; every section behind load_sections ends in WRAM.
TypeOK ==
  /\ args \in Seq(Tokens) /\ par \in Parameters /\ file \in Files
  /\ step \in Steps /\ k \in Nat \ {0} /\ sp \in Nat /\ table \in Seq(Nat)
  /\ step \in Steps \ {"args", "panic", "wild"} => DOMAIN own = 0 .. Wram - 1
  /\ step \in {"args", "open", "sections", "stack", "entry"} => table = <<>>
  /\ step = "sections" => \A j \in Allocated : j < k => End(j) <= Wram
  /\ step \in {"stack", "entry", "argv"} => \A j \in Allocated : End(j) <= Wram

\* A section is in place: its end has not wrapped.
Whole(j) ==
  /\ End(j) = file.sections[j].addr + file.sections[j].len
  /\ Holds(file.sections[j].addr, file.sections[j].len, <<"section", j>>)

\* A byte that belongs to the contents of none of the sections in J.
Vacant(x, J) ==
  \A j \in J : x < file.sections[j].addr \/ x >= file.sections[j].addr + file.sections[j].len
Before(n) == {j \in Allocated : j < n}

\* Before the first copy WRAM is free.
Blank == step = "open" => \A x \in DOMAIN own : own[x] = <<"free", 0>>

\* From load_sections on: the sections before the k-th are whole, the other
\* bytes free.
Placed ==
  step \in {"sections", "stack", "entry"} =>
    /\ IsElf /\ HasEntryPoint
    /\ step # "sections" => par.hosted /\ k > Len(file.sections)
    /\ step = "entry" => sp = StackEnd - Pointer
    /\ \A j \in Allocated : j < k => Whole(j)
    /\ \A x \in DOMAIN own : Vacant(x, Before(k)) => own[x] = <<"free", 0>>

\* In load_host_argv: the strings lie between r0 and the first sp, the entry
\* code at the stack's end, and as long as r0 is above the program, the sections
\* are whole and the bytes below r0 free.
Argued ==
  step = "argv" =>
    /\ IsElf /\ HasEntryPoint /\ par.hosted
    /\ Wram >= StackEnd + EntryLen
    /\ pc = StackEnd \div WordBytes
    /\ Holds(StackEnd, EntryLen, <<"entry", 0>>)
    /\ sp <= StackEnd - Pointer
    /\ sp >= TotalEnd => \A j \in Allocated : Whole(j)
    /\ sp >= TotalEnd =>
         \A x \in 0 .. TotalEnd - 1 : Vacant(x, Allocated) => own[x] = <<"free", 0>>
    /\ \A x \in TotalEnd .. sp - 1 : own[x] = <<"free", 0>>
    /\ Len(table) = k - 1 /\ k <= Len(Lengths) + 1
    /\ \A j \in 1 .. k - 1 : /\ sp <= table[j]
                             /\ table[j] + Lengths[j] + 1 <= StackEnd - Pointer
                             /\ Holds(table[j], Lengths[j] + 1, <<"arg", j>>)

Laid == Maskable(Wram) /\ SectionsApart => Blank /\ Placed /\ Argued

\* load_sections has found the entry point in a section it loads, or goes no
\* further.
Reached ==
  /\ step \in {"args", "open"} => ~found
  /\ step \in {"stack", "entry", "argv"} => found
  /\ step \in {"sections", "stack", "entry", "argv"} /\ found =>
       \E j \in Allocated : Covers(file.sections[j], EntryPoint)

LoadInv == TypeOK /\ Laid /\ Reached /\ LayoutIntact

-----------------------------------------------------------------------------
(* The operators of the model.                                             *)

\* The members of a sequence.
LEMMA Members ==
  ASSUME NEW R, NEW s \in Seq(R)
  PROVE  Len(s) \in Nat /\ DOMAIN s = 1 .. Len(s) /\ \A j \in DOMAIN s : s[j] \in R
OBVIOUS

\* WRAM's size is a number.
LEMMA WramNat == TypeOK => Wram \in Nat /\ Wram \in Word64
<1> SUFFICES ASSUME TypeOK PROVE Wram \in Nat /\ Wram \in Word64  OBVIOUS
<1> DEFINE w == par.wram * Unit
<1>1. w \in Nat  BY LayoutAssumption DEF TypeOK, Parameters
<1>2. AddrMod \in Nat \ {0}  BY AddressAssumption
<1>3. Wram = w % AddrMod  BY DEF Wram
<1> HIDE DEF w
<1>4. w % AddrMod \in 0 .. AddrMod - 1  BY <1>1, <1>2, Remainders
<1> QED BY <1>2, <1>3, <1>4 DEF Word64

\* Where the mask puts an address of WRAM.
LEMMA FoldIs ==
  ASSUME TypeOK, Maskable(Wram), NEW a \in 0 .. Wram
  PROVE  Fold(a) = a % Wram
<1>1. Wram \in 1 .. WramBegin  BY DEF Maskable
<1>2. WramBegin + a \in Nat /\ WramBegin + a < AddrMod /\ AddrMod \in Nat \ {0}
  BY <1>1, AddressAssumption
<1>3. Address(a) = WramBegin + a  BY <1>2, Remainders DEF Address
<1> QED BY <1>1, <1>3 DEF Maskable, Fold

\* A copy that fits in WRAM lands where its address says.
LEMMA FoldFits ==
  ASSUME TypeOK, Maskable(Wram), NEW a \in Nat, NEW n \in Nat, a + n <= Wram
  PROVE  \A x \in 0 .. Wram - 1 :
           (Fold(a) <= x /\ x < Fold(a) + n) <=> (a <= x /\ x < a + n)
<1>1. Wram \in Nat \ {0}  BY WramNat DEF Maskable
<1>2. Fold(a) = a % Wram
  <2>1. a \in 0 .. Wram  BY <1>1
  <2> QED BY <2>1, FoldIs
<1>3. CASE a < Wram
  BY <1>1, <1>2, <1>3, Remainders
<1>4. CASE a = Wram
  <2>1. n = 0  BY <1>1, <1>4
  <2>2. Fold(a) = 0  BY <1>1, <1>2, <1>4, Remainders
  <2> QED BY <2>1, <2>2, <1>1, <1>4
<1> QED BY <1>1, <1>3, <1>4

\* A copy that passes the check of load_sections and stays in WRAM has not
\* wrapped: an address so near the end of the address space that it does, with
\* no more bytes than WRAM has, lies below the bit WRAM_BEGIN.
LEMMA NoWrap ==
  ASSUME TypeOK, Maskable(Wram), NEW a \in Word64, NEW n \in Word64,
         (a + n) % AddrMod <= Wram, InWram(a, n)
  PROVE  (a + n) % AddrMod = a + n
<1>1. /\ Wram \in 1 .. WramBegin /\ WramBegin \in Nat \ {0} /\ AddrMod \in Nat \ {0}
      /\ 2 * WramBegin < AddrMod /\ a \in Nat /\ n \in Nat /\ a < AddrMod /\ n < AddrMod
  BY AddressAssumption DEF Maskable, Word64
<1>2. CASE a + n < AddrMod
  <2> DEFINE e == a + n
  <2>1. e \in Nat /\ e < AddrMod  BY <1>1, <1>2
  <2> HIDE DEF e
  <2>2. e % AddrMod = e  BY <1>1, <2>1, Remainders
  <2> QED BY <2>2 DEF e
<1>3. CASE a + n >= AddrMod
  <2>1. n # 0  BY <1>1, <1>3
  <2>2. InRegion(a) /\ Fold(a) + n <= Wram  BY <2>1 DEF InWram
  <2>3. Fold(a) \in Nat
    <3>1. WramBegin + a \in Nat  BY <1>1
    <3>2. Address(a) \in Word64  BY <1>1, <3>1, Remainders DEF Address, Word64
    <3>3. Wram - 1 \in Word64 /\ Wram # 0  BY <1>1 DEF Word64
    <3>4. Mask(Address(a), Wram - 1) \in 0 .. Wram - 1  BY <3>2, <3>3, AddressAssumption
    <3> QED BY <3>3, <3>4 DEF Fold
  <2>4. n <= WramBegin  BY <1>1, <2>2, <2>3
  <2>5. AddrMod <= WramBegin + a /\ WramBegin + a < 2 * AddrMod /\ WramBegin + a \in Nat
    BY <1>1, <1>3, <2>4
  <2>6. Address(a) = (WramBegin + a) - AddrMod
    <3> DEFINE e == WramBegin + a
    <3>1. e \in Nat /\ AddrMod <= e /\ e < 2 * AddrMod  BY <2>5
    <3>2. Address(a) = e % AddrMod  BY DEF Address
    <3> HIDE DEF e
    <3>3. e % AddrMod = e - AddrMod  BY <1>1, <3>1, Remainders
    <3>4. Address(a) = e - AddrMod  BY <3>2, <3>3
    <3> QED BY <3>4 DEF e
  <2>7. Address(a) \in Nat /\ Address(a) < WramBegin  BY <1>1, <2>5, <2>6
  <2>8. Address(a) \div WramBegin = 0  BY <1>1, <2>7, SmallQuotient
  <2>9. ~InRegion(a)  BY <2>8 DEF InRegion
  <2> QED BY <2>2, <2>9
<1> QED BY <1>1, <1>2, <1>3

\* The lengths of the strings load_host_argv copies.
LEMMA LengthsType ==
  ASSUME TypeOK
  PROVE  Lengths \in Seq(Nat)
<1> DEFINE f == [j \in DOMAIN par.forwarded |-> par.forwarded[j].len]
<1>1. par.forwarded \in Seq(Tokens) /\ par.exeLen \in Nat  BY DEF TypeOK, Parameters
<1>2. \A j \in DOMAIN par.forwarded : par.forwarded[j].len \in Nat
  <2>1. \A j \in DOMAIN par.forwarded : par.forwarded[j] \in Tokens  BY <1>1, Members
  <2> QED BY <2>1 DEF Tokens
<1>3. f \in Seq(Nat)
  <2>1. DOMAIN par.forwarded = 1 .. Len(par.forwarded) /\ Len(par.forwarded) \in Nat  BY <1>1
  <2>2. f \in [1 .. Len(par.forwarded) -> Nat]  BY <1>2, <2>1
  <2> QED BY <2>1, <2>2
<1>4. <<par.exeLen>> \in Seq(Nat)  BY <1>1
<1> HIDE DEF f
<1>5. <<par.exeLen>> \o f \in Seq(Nat)  BY <1>3, <1>4
<1> QED BY <1>5 DEF Lengths, f

\* The symbols are a sequence, whichever table counts.
LEMMA NamedType ==
  ASSUME TypeOK
  PROVE  /\ Named \in SUBSET Nat
         /\ \E b \in Nat : \A j \in Named : j <= b
<1> DEFINE good == {j \in DOMAIN file.tables : file.tables[j].ok}
<1>1. file.tables \in Seq(SymbolTables)  BY InputAssumption DEF TypeOK, ElfFiles
<1>2. good \in SUBSET Nat /\ Len(file.tables) \in Nat /\ \A j \in good : j <= Len(file.tables)
  BY <1>1
<1>3. ASSUME good # {} PROVE Max(good) \in good
  BY <1>2, <1>3, MaxNat
<1>4. Symbols = IF good = {} THEN <<>> ELSE file.tables[Max(good)].symbols
  BY Zenon DEF Symbols
<1>5. DOMAIN Symbols \in SUBSET Nat /\ \E b \in Nat : \A j \in DOMAIN Symbols : j <= b
  <2>1. CASE good = {}
    <3>1. Symbols = <<>>  BY <1>4, <2>1, Zenon
    <3> QED BY <3>1
  <2>2. CASE good # {}
    <3>1. Symbols = file.tables[Max(good)].symbols  BY <1>4, <2>2, Zenon
    <3>2. Max(good) \in DOMAIN file.tables  BY <1>3, <2>2
    <3> DEFINE m == Max(good)
    <3> HIDE DEF m
    <3>3. file.tables[m] \in SymbolTables  BY <1>1, <3>2, Members DEF m
    <3>4. PICK R : file.tables[m].symbols \in Seq(R)  BY <3>3 DEF SymbolTables
    <3>5. DOMAIN Symbols = 1 .. Len(Symbols) /\ Len(Symbols) \in Nat  BY <3>1, <3>4 DEF m
    <3> QED BY <3>5
  <2> QED BY <2>1, <2>2
<1> QED BY <1>5 DEF Named

\* The numbers of a symbol.
LEMMA SymbolsType ==
  ASSUME TypeOK, NEW i \in DOMAIN Symbols
  PROVE  Symbols[i].value \in Nat /\ Symbols[i].size \in Nat
<1> DEFINE good == {j \in DOMAIN file.tables : file.tables[j].ok}
           m == Max(good)
           R == [name : STRING, type : STRING, value : Word64, size : Word64]
<1>1. file.tables \in Seq(SymbolTables)  BY InputAssumption DEF TypeOK, ElfFiles
<1>2. Symbols = IF good = {} THEN <<>> ELSE file.tables[m].symbols  BY Zenon DEF Symbols
<1>3. good # {}
  <2> SUFFICES ASSUME good = {} PROVE FALSE  OBVIOUS
  <2>1. Symbols = <<>>  BY <1>2, Zenon
  <2> QED BY <2>1
<1>4. good \in SUBSET Nat /\ Len(file.tables) \in Nat /\ \A j \in good : j <= Len(file.tables)
  BY <1>1
<1>5. m \in good  BY <1>3, <1>4, MaxNat
<1>6. m \in DOMAIN file.tables  BY <1>5
<1>7. Symbols = file.tables[m].symbols  BY <1>2, <1>3, Zenon
<1> HIDE DEF m, good
<1>8. file.tables[m] \in SymbolTables  BY <1>1, <1>6, Members
<1>9. Symbols \in Seq(R)  BY <1>7, <1>8 DEF SymbolTables
<1> HIDE DEF R
<1>10. Symbols[i] \in R  BY <1>9, Members
<1> QED BY <1>10, AddressAssumption DEF R, Word64

\* get_entry_point finds the last symbol of the name.
LEMMA EntryPointLast ==
  ASSUME TypeOK, HasEntryPoint
  PROVE  \E j \in Named : /\ EntryPoint = Symbols[j] /\ Symbols[j].type = "func"
                          /\ \A i \in Named : i <= j
<1>1. Max(Named) \in Named /\ \A i \in Named : i <= Max(Named)
  <2>1. PICK b \in Nat : \A j \in Named : j <= b  BY NamedType
  <2> QED BY <2>1, NamedType, MaxNat DEF HasEntryPoint
<1> QED BY <1>1 DEF HasEntryPoint, EntryPoint

\* The numbers of an executable's sections.
LEMMA SectionsType ==
  ASSUME TypeOK
  PROVE  /\ Len(file.sections) \in Nat /\ DOMAIN file.sections = 1 .. Len(file.sections)
         /\ \A j \in DOMAIN file.sections :
              /\ file.sections[j].alloc \in BOOLEAN
              /\ file.sections[j].addr \in Word64 /\ file.sections[j].len \in Word64
              /\ file.sections[j].addr \in Nat /\ file.sections[j].len \in Nat
              /\ file.sections[j].size \in Nat
              /\ file.sections[j].len \in {0, file.sections[j].size}
              /\ End(j) \in Nat
<1>1. file.sections \in Seq(Sections)  BY InputAssumption DEF TypeOK, ElfFiles
<1>2. /\ Len(file.sections) \in Nat /\ DOMAIN file.sections = 1 .. Len(file.sections)
      /\ \A j \in DOMAIN file.sections : file.sections[j] \in Sections
  BY <1>1, Members
<1>3. \A j \in DOMAIN file.sections : file.sections[j].len \in {0, file.sections[j].size}
  BY InputAssumption DEF TypeOK
<1>4. Word64 \subseteq Nat /\ AddrMod \in Nat \ {0}  BY AddressAssumption DEF Word64
<1>5. ASSUME NEW a \in Nat, NEW n \in Nat PROVE (a + n) % AddrMod \in Nat
  <2> DEFINE e == a + n
  <2>1. e \in Nat  OBVIOUS
  <2> HIDE DEF e
  <2>2. e % AddrMod \in 0 .. AddrMod - 1  BY <1>4, <2>1, Remainders
  <2> QED BY <1>4, <2>2 DEF e
<1> QED BY <1>2, <1>3, <1>4, <1>5 DEF Sections, End

\* The sections of an executable are finitely many: their ends have a bound.
LEMMA SectionsBounded ==
  ASSUME TypeOK
  PROVE  \E b \in Nat : \A j \in DOMAIN file.sections : End(j) <= b
<1> DEFINE e == [j \in DOMAIN file.sections |-> End(j)]
<1>1. /\ Len(file.sections) \in Nat /\ DOMAIN file.sections = 1 .. Len(file.sections)
      /\ \A j \in DOMAIN file.sections : e[j] = End(j) /\ e[j] \in Nat
  BY SectionsType
<1> HIDE DEF e
<1>2. \E b \in Nat : \A j \in 1 .. Len(file.sections) : e[j] <= b  BY <1>1, BoundedNat
<1> QED BY <1>1, <1>2

\* setup_stack leaves a stack between the program and a word-aligned end.
LEMMA StackBehind ==
  ASSUME TypeOK
  PROVE  /\ TotalEnd \in Nat /\ \A j \in Allocated : End(j) <= TotalEnd
         /\ \A x \in Nat : (\A j \in Allocated : End(j) <= x) => TotalEnd <= x
         /\ StackEnd \in Nat /\ TotalEnd < StackEnd - StackSize
         /\ (StackEnd \div WordBytes) * WordBytes = StackEnd
<1> DEFINE S == {End(j) : j \in Allocated} \cup {0}
<1>0. \A j \in Allocated : End(j) \in Nat  BY SectionsType DEF Allocated
<1>1. TotalEnd = Max(S)  BY DEF TotalEnd
<1>b. PICK b \in Nat : \A j \in Allocated : End(j) <= b  BY SectionsBounded DEF Allocated
<1>2. S \in SUBSET Nat /\ S # {} /\ \A x \in S : x <= b
  <2> SUFFICES ASSUME NEW x \in S PROVE x \in Nat /\ x <= b  OBVIOUS
  <2> QED BY <1>0, <1>b
<1>3. Max(S) \in S /\ \A y \in S : y <= Max(S)  BY <1>2, MaxNat
<1>4. TotalEnd \in Nat /\ TotalEnd \in S /\ \A j \in Allocated : End(j) <= TotalEnd
  BY <1>1, <1>2, <1>3
<1>5. \A x \in Nat : (\A j \in Allocated : End(j) <= x) => TotalEnd <= x
  BY <1>4
<1> DEFINE p == (TotalEnd \div Page) + 1
<1>6. p \in Nat /\ TotalEnd < p * Page /\ StackEnd = p * Page + StackSize
  BY <1>4, NextPage, LayoutAssumption DEF StackEnd
<1> HIDE DEF p
<1>7. PICK q \in Nat : Page = q * WordBytes  BY LayoutAssumption, NoRemainder
<1>8. PICK t \in Nat : StackSize = t * WordBytes  BY LayoutAssumption, NoRemainder
<1>9. p * q + t \in Nat /\ StackEnd = (p * q + t) * WordBytes
  BY <1>6, <1>7, <1>8, LayoutAssumption
<1>10. StackEnd \div WordBytes = p * q + t
  BY <1>9, Multiple, LayoutAssumption
<1>11. p * Page \in Nat  BY <1>6, LayoutAssumption
<1>12. StackEnd \in Nat /\ TotalEnd < StackEnd - StackSize
  BY <1>4, <1>6, <1>11, LayoutAssumption
<1> QED BY <1>4, <1>5, <1>9, <1>10, <1>12

-----------------------------------------------------------------------------
(* Types.                                                                  *)

\* What follows from the command line and the executable stays when they do.
LEMMA Frozen ==
  ASSUME par' = par, file' = file
  PROVE  /\ Wram' = Wram /\ TotalEnd' = TotalEnd /\ StackEnd' = StackEnd
         /\ Allocated' = Allocated /\ Lengths' = Lengths
         /\ IsElf' = IsElf /\ HasEntryPoint' = HasEntryPoint
         /\ Named' = Named /\ Symbols' = Symbols /\ EntryPoint' = EntryPoint
         /\ (Maskable(Wram) /\ SectionsApart)' = (Maskable(Wram) /\ SectionsApart)
         /\ BssReserved' = BssReserved /\ EntryHasCode' = EntryHasCode
         /\ (\A j : End(j)' = End(j)) /\ (\A x, J : Vacant(x, J)' = Vacant(x, J))
BY Zenon DEF Wram, TotalEnd, StackEnd, Allocated, Lengths, IsElf, HasEntryPoint, Named, Symbols,
             EntryPoint, EntryName, Maskable, SectionsApart, End, BssReserved, EntryHasCode, Covers,
             Vacant

\* What is in place stays when no byte changes.
LEMMA FrozenBytes ==
  ASSUME par' = par, file' = file, own' = own, NEW m, k' = m
  PROVE  /\ \A j : Whole(j)' = Whole(j)
         /\ \A x : Vacant(x, Before(k))' = Vacant(x, Before(m))
         /\ \A x : Vacant(x, Allocated)' = Vacant(x, Allocated)
         /\ \A a, n, item : Holds(a, n, item)' = Holds(a, n, item)
<1>1. Allocated' = Allocated /\ \A j : End(j)' = End(j)  BY Frozen
<1>2. \A a, n, item : Holds(a, n, item)' = Holds(a, n, item)  BY Zenon DEF Holds
<1>3. \A j : Whole(j)' = Whole(j)  BY <1>1, Zenon DEF Whole, Holds
<1>4. Before(k)' = Before(m)  BY <1>1, Zenon DEF Before
<1>5. \A x : Vacant(x, Before(k))' = Vacant(x, Before(m))  BY <1>4, Zenon DEF Vacant
<1>6. \A x : Vacant(x, Allocated)' = Vacant(x, Allocated)  BY <1>1, Zenon DEF Vacant
<1> QED BY <1>2, <1>3, <1>5, <1>6

\* The command line is a sequence of words.
LEMMA InitLoad == Init => LoadInv
<1> SUFFICES ASSUME Init PROVE LoadInv  OBVIOUS
<1>1. step = "args" /\ k = 1 /\ sp = 0 /\ table = <<>> /\ file \in Files /\ par = Defaults
  BY DEF Init
<1>2. args \in Seq(Tokens)
  <2>1. CASE asked \in Commands /\ args = Render(asked)
    <3>1. /\ asked.options \in Seq(Tokens) /\ asked.forwarded \in Seq(Tokens)
          /\ asked.exe \in STRING /\ asked.exeLen \in Nat
      BY <2>1, InputAssumption
    <3>2. Token(asked.exe, -1, asked.exeLen) \in Tokens /\ Word(Sep) \in Tokens
      <4>1. ASSUME NEW x \in STRING, NEW n \in Nat PROVE Token(x, -1, n) \in Tokens
        BY DEF Token, Tokens
      <4>2. Sep \in STRING  BY LiteralAssumption DEF Sep
      <4> QED BY <3>1, <4>1, <4>2 DEF Word
    <3>3. <<Token(asked.exe, -1, asked.exeLen)>> \in Seq(Tokens) /\ <<Word(Sep)>> \in Seq(Tokens)
      BY <3>2
    <3>4. (IF asked.forwarded = <<>> THEN <<>> ELSE <<Word(Sep)>> \o asked.forwarded) \in Seq(Tokens)
      BY <3>1, <3>3
    <3> QED BY <2>1, <3>1, <3>3, <3>4 DEF Render
  <2>2. CASE asked = NoCommand /\ args \in BadArgs
    BY <2>2, InputAssumption
  <2> QED BY <2>1, <2>2 DEF Init
<1>3. par \in Parameters
  <2>1. "main" \in STRING /\ "" \in STRING  BY LiteralAssumption
  <2>2. <<>> \in Seq(Tokens)  OBVIOUS
  <2>3. ASSUME NEW x \in STRING, NEW y \in STRING, NEW f \in Seq(Tokens)
        PROVE [wram |-> DefaultWram, entry |-> x, hosted |-> FALSE, exe |-> y, exeLen |-> 0,
               forwarded |-> f] \in Parameters
    BY LayoutAssumption DEF Parameters
  <2> QED BY <1>1, <2>1, <2>2, <2>3, Zenon DEF Defaults
<1>4. ~found  BY DEF Init
<1> QED BY <1>1, <1>2, <1>3, <1>4
        DEF LoadInv, TypeOK, Steps, Laid, Blank, Placed, Argued, Reached, LayoutIntact

\* parse_args builds parameters of the right types.
LEMMA ParseType == TypeOK /\ ParseArgs => TypeOK'
<1> SUFFICES ASSUME TypeOK, ParseArgs PROVE TypeOK'  OBVIOUS
<1>1. /\ Len(args) \in Nat /\ DOMAIN args = 1 .. Len(args) /\ \A j \in 1 .. Len(args) : args[j] \in Tokens
  BY Members DEF TypeOK
<1>2. \A j \in 1 .. Len(args) : args[j].text \in STRING /\ args[j].num \in Int /\ args[j].len \in Nat
  BY <1>1 DEF Tokens
<1>3. par.wram \in Nat /\ k \in Nat \ {0}  BY DEF TypeOK, Parameters
<1>4. ASSUME NEW p \in Parameters, NEW n \in Nat \ {0}, step = "args", Parsed(p, n) PROVE TypeOK'
  BY <1>3, <1>4 DEF Parsed, TypeOK, image, Steps
<1>5. ASSUME Panic PROVE TypeOK'
  BY <1>5 DEF Panic, TypeOK, image, Steps
<1>6. ASSUME NEW o \in ValueOptions, ParseValue(o) PROVE TypeOK'
  <2>1. args[k + 1].num \in Nat  BY <1>2, <1>3, <1>6 DEF ParseValue, HasValue
  <2>2. [par EXCEPT !.wram = args[k + 1].num] \in Parameters  BY <2>1 DEF TypeOK, Parameters
  <2>3. par \in Parameters  BY DEF TypeOK
  <2> QED BY <1>4, <1>6, <2>2, <2>3 DEF ParseValue, Parsing
<1>7. ASSUME ParseEntryPoint PROVE TypeOK'
  <2>1. CASE k < Len(args) /\ Parsed([par EXCEPT !.entry = args[k + 1].text], 2)
    <3>1. args[k + 1].text \in STRING  BY <1>2, <1>3, <2>1
    <3>2. [par EXCEPT !.entry = args[k + 1].text] \in Parameters  BY <3>1 DEF TypeOK, Parameters
    <3> QED BY <1>4, <1>7, <2>1, <3>2 DEF ParseEntryPoint, Parsing
  <2> QED BY <1>5, <1>7, <2>1 DEF ParseEntryPoint
<1>8. ASSUME ParseHosted PROVE TypeOK'
  <2>1. [par EXCEPT !.hosted = TRUE] \in Parameters  BY DEF TypeOK, Parameters
  <2> QED BY <1>4, <1>8, <2>1 DEF ParseHosted, Parsing
<1>9. ASSUME ParseSeparator PROVE TypeOK'
  <2> DEFINE p == [par EXCEPT !.forwarded = Forwarded]
             q == [p EXCEPT !.exe = args[k - 1].text, !.exeLen = args[k - 1].len]
  <2>1. k <= Len(args) /\ step = "args"  BY <1>9 DEF ParseSeparator, Parsing
  <2>2. Forwarded \in Seq(Tokens)  BY <1>1, <1>3, <2>1 DEF Forwarded, TypeOK
  <2>3. p \in Parameters  BY <2>2 DEF TypeOK, Parameters
  <2>4. Len(args) + 1 - k \in Nat \ {0}  BY <1>1, <1>3, <2>1
  <2>5. CASE k > 1
    <3>1. args[k - 1].text \in STRING /\ args[k - 1].len \in Nat  BY <1>2, <1>3, <2>1, <2>5
    <3> HIDE DEF p
    <3>2. q \in Parameters  BY <2>3, <3>1 DEF Parameters
    <3>3. Parsed(q, Len(args) + 1 - k)  BY <1>9, <2>5 DEF ParseSeparator, p
    <3> QED BY <1>4, <2>1, <2>4, <3>2, <3>3
  <2>6. CASE ~(k > 1)
    <3>1. Parsed(p, Len(args) + 1 - k)  BY <1>9, <2>6 DEF ParseSeparator
    <3> QED BY <1>4, <2>1, <2>3, <2>4, <3>1
  <2> QED BY <2>5, <2>6
<1>10. ASSUME ParseName PROVE TypeOK'
  <2>1. Arg.text \in STRING /\ Arg.len \in Nat  BY <1>2, <1>3, <1>10 DEF ParseName, Arg
  <2>2. [par EXCEPT !.exe = Arg.text, !.exeLen = Arg.len] \in Parameters
    BY <2>1 DEF TypeOK, Parameters
  <2> QED BY <1>4, <1>10, <2>2 DEF ParseName
<1>11. ASSUME ArgsParsed PROVE TypeOK'
  BY <1>11 DEF ArgsParsed, TypeOK, Wram, Steps
<1> QED BY <1>5, <1>6, <1>7, <1>8, <1>9, <1>10, <1>11
        DEF ParseArgs, NoValue, MissingExecutable

\* So do the steps of the loader.
LEMMA LoadType == TypeOK /\ (LoadFile \/ SetUpHost) => TypeOK'
<1> SUFFICES ASSUME TypeOK, LoadFile \/ SetUpHost PROVE TypeOK'  OBVIOUS
<1>1. ASSUME Panic PROVE TypeOK'
  BY <1>1 DEF Panic, TypeOK, image, Steps
<1>2. CASE OpenElf
  <2>1. \A j \in Allocated : ~(j < 1)  BY SectionsType DEF Allocated
  <2> QED BY <1>2, <2>1, Frozen DEF OpenElf, TypeOK, image, Steps
<1>3. CASE LoadRawOutside \/ LoadSectionOutside \/ WriteEntryCodeOutside \/ BelowWram
  BY <1>3 DEF LoadRawOutside, LoadSectionOutside, WriteEntryCodeOutside, BelowWram, TypeOK, image, Steps
<1>4. CASE SkipSection \/ LoadSection
  <2>1. \A j \in Allocated : j < k + 1 => j < k \/ j = k
    BY SectionsType DEF Allocated, TypeOK
  <2>2. /\ step' = step /\ step = "sections" /\ k' = k + 1
        /\ args' = args /\ par' = par /\ file' = file /\ sp' = sp /\ table' = table
        /\ k \in Allocated => End(k) <= Wram
    BY <1>4 DEF SkipSection, LoadSection, Loading, Section, Allocated, End, image
  <2>3. DOMAIN own' = DOMAIN own  BY <1>4 DEF SkipSection, LoadSection, Put, image
  <2> QED BY <2>1, <2>2, <2>3, Frozen DEF TypeOK, Steps
<1>5. CASE SectionsLoaded
  <2>1. \A j \in Allocated : j < k
    BY <1>5, SectionsType DEF SectionsLoaded, Allocated, TypeOK
  <2> QED BY <1>5, <2>1, Frozen DEF SectionsLoaded, TypeOK, Steps
<1>6. CASE LoadRaw \/ WriteEntryCode
  <2>1. DOMAIN own' = DOMAIN own  BY <1>6 DEF LoadRaw, WriteEntryCode, Put
  <2> QED BY <1>6, <2>1, Frozen DEF LoadRaw, WriteEntryCode, TypeOK, Steps
<1>7. CASE SetupStack
  <2>1. sp' \in Nat
    BY <1>7, StackBehind, LayoutAssumption DEF SetupStack, TypeOK
  <2> QED BY <1>7, <2>1, Frozen DEF SetupStack, TypeOK, Steps
<1>8. CASE AddArgument
  <2>1. DOMAIN own' = DOMAIN own  BY <1>8 DEF AddArgument, Put
  <2>2. ArgBytes \in Nat  BY <1>8, LengthsType DEF AddArgument, ArgBytes, TypeOK
  <2>3. sp' \in Nat  BY <1>8, <2>2 DEF AddArgument, TypeOK
  <2>4. table' \in Seq(Nat)  BY <1>8, <2>3 DEF AddArgument, TypeOK
  <2> QED BY <1>8, <2>1, <2>3, <2>4, Frozen DEF AddArgument, TypeOK, Steps
<1>9. CASE WriteArgv
  <2>1. DOMAIN own' = DOMAIN own  BY <1>9 DEF WriteArgv, Put
  <2>2. TableBytes \in Nat  BY LayoutAssumption DEF TableBytes, TypeOK
  <2>3. sp' \in Nat  BY <1>9, <2>2 DEF WriteArgv, TypeOK
  <2> QED BY <1>9, <2>1, <2>3, Frozen DEF WriteArgv, TypeOK, Steps
<1> QED BY <1>1, <1>2, <1>3, <1>4, <1>5, <1>6, <1>7, <1>8, <1>9
        DEF LoadFile, SetUpHost, BadEntryPoint, CannotOpen, SectionTooLong, NoEntryPoint,
            NoRoomForStack, NoRoomForEntry

-----------------------------------------------------------------------------
(* Each copy leaves what is in place alone.                                *)

\* A step changes no byte but the n from a on.
Kept(a, n) ==
  /\ DOMAIN own' = DOMAIN own
  /\ \A x \in DOMAIN own : (x < a \/ x >= a + n) => own'[x] = own[x]

\* After a step the n bytes from a on hold an item.
Held(a, n, item) == \A x \in a .. a + n - 1 : x \in DOMAIN own' /\ own'[x] = item

\* What Put does to WRAM, byte by byte, when the copy fits.
LEMMA PutFits ==
  ASSUME TypeOK, Maskable(Wram), DOMAIN own = 0 .. Wram - 1,
         NEW a \in Nat, NEW n \in Nat, a + n <= Wram, NEW item,
         own' = [x \in DOMAIN own |-> IF Fold(a) <= x /\ x < Fold(a) + n THEN item ELSE own[x]]
  PROVE  Held(a, n, item) /\ Kept(a, n)
<1>1. DOMAIN own' = DOMAIN own  OBVIOUS
<1>2. ASSUME NEW x \in a .. a + n - 1 PROVE x \in DOMAIN own /\ own'[x] = item
  <2>1. x \in 0 .. Wram - 1 /\ a <= x /\ x < a + n  BY WramNat
  <2>2. Fold(a) <= x /\ x < Fold(a) + n  BY <2>1, FoldFits
  <2> QED BY <2>1, <2>2
<1>3. ASSUME NEW x \in DOMAIN own, x < a \/ x >= a + n PROVE own'[x] = own[x]
  <2>1. x \in 0 .. Wram - 1 /\ ~(a <= x /\ x < a + n)  BY <1>3, WramNat
  <2>2. ~(Fold(a) <= x /\ x < Fold(a) + n)  BY <2>1, FoldFits
  <2> QED BY <2>2
<1> QED BY <1>1, <1>2, <1>3 DEF Held, Kept

\* A range of bytes away from a copy keeps its item.
LEMMA HoldsOn ==
  ASSUME NEW b \in Nat, NEW n \in Nat, NEW item, NEW lo \in Nat, NEW len \in Nat,
         Kept(lo, len), DOMAIN own \subseteq Nat,
         Holds(b, n, item), b + n <= lo \/ b >= lo + len \/ n = 0 \/ len = 0
  PROVE  Held(b, n, item)
<1> SUFFICES ASSUME NEW x \in b .. b + n - 1 PROVE x \in DOMAIN own /\ own'[x] = item
  BY DEF Held, Kept
<1>1. x \in DOMAIN own /\ own[x] = item  BY DEF Holds
<1>2. x < lo \/ x >= lo + len  OBVIOUS
<1> QED BY <1>1, <1>2 DEF Kept

\* LoadSection adds one section to those in place: no other reaches into it.
LEMMA LoadSectionPlaces ==
  ASSUME TypeOK, Maskable(Wram), SectionsApart, Placed, LoadSection
  PROVE  Placed'
<1> DEFINE a == file.sections[k].addr
           n == file.sections[k].len
<1>1. /\ step = "sections" /\ step' = "sections" /\ k' = k + 1
      /\ par' = par /\ file' = file /\ k \in Allocated
      /\ End(k) <= Wram /\ InWram(a, n)
      /\ own' = [x \in DOMAIN own |-> IF Fold(a) <= x /\ x < Fold(a) + n THEN <<"section", k>> ELSE own[x]]
  BY SectionsType DEF LoadSection, Loading, Section, Put, Allocated, TypeOK
<1>2. /\ a \in Nat /\ n \in Nat /\ k \in Nat
      /\ \A j \in Allocated : /\ file.sections[j].addr \in Nat /\ file.sections[j].len \in Nat
                              /\ j \in Nat
  BY <1>1, SectionsType DEF Allocated, TypeOK
<1>end. End(k) = a + n
  <2>1. a \in Word64 /\ n \in Word64  BY <1>1, SectionsType DEF Allocated
  <2>2. End(k) = (a + n) % AddrMod  BY DEF End
  <2> HIDE DEF a, n
  <2> QED BY <1>1, <2>1, <2>2, NoWrap
<1>3. DOMAIN own = 0 .. Wram - 1  BY <1>1 DEF TypeOK, Steps
<1> HIDE DEF a, n
<1>4. Held(a, n, <<"section", k>>) /\ Kept(a, n)
  <2>1. a + n <= Wram  BY <1>1, <1>end
  <2> QED BY <1>1, <1>2, <1>3, <2>1, PutFits
<1>5. ASSUME NEW j \in Allocated, j < k + 1 PROVE Whole(j)'
  <2> DEFINE b == file.sections[j].addr
             m == file.sections[j].len
  <2> SUFFICES End(j) = b + m /\ Held(b, m, <<"section", j>>)
    <3>1. End(j)' = End(j)  BY <1>1, Frozen
    <3> QED BY <1>1, <3>1 DEF Whole, Holds, Held
  <2>1. CASE j = k
    BY <1>4, <1>end, <2>1 DEF a, n
  <2>2. CASE j < k
    <3>1. End(j) = b + m /\ Holds(b, m, <<"section", j>>)  BY <1>1, <2>2 DEF Placed, Whole
    <3>2. b + m <= a \/ b >= a + n \/ m = 0 \/ n = 0
      <4>1. \/ j = k \/ 0 \in {m, n} \/ b + m <= a \/ a + n <= b
        BY <1>1 DEF SectionsApart, a, n
      <4> QED BY <1>2, <2>2, <4>1
    <3>3. b \in Nat /\ m \in Nat /\ DOMAIN own \subseteq Nat
      BY <1>2, <1>3
    <3> HIDE DEF b, m
    <3> QED BY <1>2, <1>4, <3>1, <3>2, <3>3, HoldsOn
  <2> QED BY <1>2, <1>5, <2>1, <2>2
<1>6. ASSUME NEW x \in DOMAIN own, Vacant(x, Before(k + 1))
      PROVE  own'[x] = <<"free", 0>>
  <2>1. Vacant(x, Before(k)) /\ k \in Before(k + 1)  BY <1>1, <1>2, <1>6 DEF Vacant, Before
  <2>2. own[x] = <<"free", 0>>  BY <1>1, <2>1 DEF Placed
  <2>3. x < a \/ x >= a + n  BY <1>6, <2>1 DEF Vacant, a, n
  <2> QED BY <1>4, <2>2, <2>3 DEF Kept
<1>7. Allocated' = Allocated /\ IsElf' = IsElf /\ HasEntryPoint' = HasEntryPoint
      /\ \A x : Vacant(x, Before(k))' = Vacant(x, Before(k + 1))
  <2>1. Before(k)' = Before(k + 1)  BY <1>1, Frozen DEF Before
  <2> QED BY <1>1, <2>1, Frozen DEF Vacant
<1>8. IsElf /\ HasEntryPoint  BY <1>1 DEF Placed
<1> QED BY <1>1, <1>4, <1>5, <1>6, <1>7, <1>8 DEF Placed, Kept

\* Once all sections are in place, the bytes of none of them are free, and so
\* are those from TotalEnd on.
LEMMA BehindFree ==
  ASSUME TypeOK, Placed, step \in {"stack", "entry"}
  PROVE  /\ \A j \in Allocated : Whole(j)
         /\ \A x \in DOMAIN own : Vacant(x, Allocated) => own[x] = <<"free", 0>>
         /\ \A x \in DOMAIN own : x >= TotalEnd => own[x] = <<"free", 0>>
<1>1. \A j \in Allocated : j < k /\ End(j) <= TotalEnd /\ End(j) \in Nat /\ TotalEnd \in Nat
  BY SectionsType, StackBehind DEF Placed, Allocated, TypeOK
<1>2. \A x \in DOMAIN own : x \in Nat  BY WramNat DEF TypeOK, Steps
<1>3. Before(k) = Allocated /\ \A j \in Allocated : Whole(j)  BY <1>1 DEF Placed, Before
<1>4. ASSUME NEW x \in DOMAIN own, x >= TotalEnd PROVE Vacant(x, Allocated)
  <2> SUFFICES ASSUME NEW j \in Allocated
               PROVE  x >= file.sections[j].addr + file.sections[j].len
    BY DEF Vacant
  <2>1. End(j) = file.sections[j].addr + file.sections[j].len  BY <1>3 DEF Whole
  <2> QED BY <1>1, <1>2, <1>4, <2>1
<1> QED BY <1>3, <1>4 DEF Placed

\* write_entry_code starts the arguments' phase: its code lies behind the stack.
LEMMA EntryCodePlaces ==
  ASSUME TypeOK, Maskable(Wram), Placed, WriteEntryCode
  PROVE  Argued'
<1>1. /\ step = "entry" /\ step' = "argv" /\ k' = 1 /\ sp' = sp /\ table' = table
      /\ par' = par /\ file' = file /\ Wram >= StackEnd + EntryLen
      /\ pc' = StackEnd \div WordBytes
      /\ own' = [x \in DOMAIN own |-> IF Fold(StackEnd) <= x /\ x < Fold(StackEnd) + EntryLen
                                        THEN <<"entry", 0>> ELSE own[x]]
  BY DEF WriteEntryCode, Put
<1>2. /\ TotalEnd \in Nat /\ StackEnd \in Nat /\ TotalEnd < StackEnd - StackSize
      /\ \A j \in Allocated : End(j) <= TotalEnd
  BY <1>1, StackBehind DEF TypeOK
<1>3. EntryLen \in Nat /\ Pointer \in Nat /\ StackSize \in Nat /\ Pointer <= StackSize
  BY LayoutAssumption
<1>4. DOMAIN own = 0 .. Wram - 1 /\ table = <<>>  BY <1>1 DEF TypeOK, Steps
<1>5. Held(StackEnd, EntryLen, <<"entry", 0>>) /\ Kept(StackEnd, EntryLen)
  BY <1>1, <1>2, <1>3, <1>4, PutFits
<1>6. IsElf /\ HasEntryPoint /\ par.hosted /\ sp = StackEnd - Pointer  BY <1>1 DEF Placed
<1>7. ASSUME NEW j \in Allocated PROVE Whole(j)'
  <2> DEFINE b == file.sections[j].addr
             m == file.sections[j].len
  <2>1. End(j) = b + m /\ Holds(b, m, <<"section", j>>)  BY <1>1, BehindFree DEF Whole
  <2>2. b \in Nat /\ m \in Nat /\ b + m <= StackEnd
    BY <1>2, <1>3, <2>1, SectionsType DEF Allocated
  <2> HIDE DEF b, m
  <2>3. DOMAIN own \subseteq Nat  BY <1>4
  <2>4. Held(b, m, <<"section", j>>)
    BY <1>2, <1>3, <1>5, <2>1, <2>2, <2>3, HoldsOn
  <2>5. End(j)' = End(j)  BY <1>1, Frozen
  <2> QED BY <1>1, <2>1, <2>4, <2>5 DEF Whole, Holds, Held, b, m
<1>vac. ASSUME NEW x \in 0 .. TotalEnd - 1, Vacant(x, Allocated) PROVE own'[x] = <<"free", 0>>
  <2>1. x \in DOMAIN own /\ x < StackEnd  BY <1>1, <1>2, <1>3, <1>4, WramNat
  <2> QED BY <1>1, <1>5, <1>vac, <2>1, BehindFree DEF Kept
<1>8. ASSUME NEW x \in TotalEnd .. sp - 1 PROVE own'[x] = <<"free", 0>>
  <2>1. x \in DOMAIN own /\ x >= TotalEnd /\ x < StackEnd
    BY <1>1, <1>2, <1>3, <1>4, <1>6, WramNat
  <2> QED BY <1>1, <1>5, <2>1, BehindFree DEF Kept
<1>9. /\ StackEnd' = StackEnd /\ TotalEnd' = TotalEnd /\ Wram' = Wram /\ Lengths' = Lengths
      /\ Allocated' = Allocated /\ IsElf' = IsElf /\ HasEntryPoint' = HasEntryPoint
      /\ \A x : Vacant(x, Allocated)' = Vacant(x, Allocated)
  <2>1. Allocated' = Allocated  BY <1>1, Frozen
  <2>2. \A x : Vacant(x, Allocated)' = Vacant(x, Allocated)  BY <1>1, <2>1 DEF Vacant
  <2> QED BY <1>1, <2>1, <2>2, Frozen
<1>10. Len(Lengths) \in Nat  BY LengthsType
<1>11. Holds(StackEnd, EntryLen, <<"entry", 0>>)'  BY <1>5, <1>9 DEF Holds, Held
<1>12. /\ Wram' >= StackEnd' + EntryLen /\ sp' <= StackEnd' - Pointer
       /\ Len(table') = k' - 1 /\ k' <= Len(Lengths') + 1 /\ 1 .. k' - 1 = {}
  BY <1>1, <1>2, <1>3, <1>4, <1>6, <1>9, <1>10
<1>13. \A x \in TotalEnd' .. sp' - 1 : own'[x] = <<"free", 0>>  BY <1>1, <1>8, <1>9
<1>14. \A x \in 0 .. TotalEnd' - 1 : Vacant(x, Allocated)' => own'[x] = <<"free", 0>>
  BY <1>9, <1>vac
<1> QED BY <1>1, <1>6, <1>7, <1>9, <1>11, <1>12, <1>13, <1>14, Zenon DEF Argued

\* add_argument copies a string just below the last one.
LEMMA AddArgumentPlaces ==
  ASSUME TypeOK, Maskable(Wram), Argued, AddArgument
  PROVE  Argued'
<1> DEFINE a == sp - ArgBytes
<1>1. /\ step = "argv" /\ step' = "argv" /\ k' = k + 1 /\ sp' = a /\ table' = Append(table, a)
      /\ par' = par /\ file' = file /\ pc' = pc
  BY DEF AddArgument
<1>put. /\ ArgBytes = Lengths[k] + 1 /\ sp >= ArgBytes /\ k <= Len(Lengths)
      /\ own' = [x \in DOMAIN own |-> IF Fold(a) <= x /\ x < Fold(a) + (Lengths[k] + 1)
                                        THEN <<"arg", k>> ELSE own[x]]
  BY <1>1 DEF AddArgument, Put, ArgBytes
<1>2. /\ TotalEnd \in Nat /\ StackEnd \in Nat /\ TotalEnd < StackEnd - StackSize
      /\ \A j \in Allocated : End(j) <= TotalEnd
  BY <1>1, StackBehind DEF TypeOK
<1>3. /\ EntryLen \in Nat \ {0} /\ Pointer \in Nat \ {0} /\ sp <= StackEnd - Pointer
      /\ Wram >= StackEnd + EntryLen /\ sp \in Nat /\ k \in Nat \ {0} /\ table \in Seq(Nat)
      /\ Len(table) = k - 1
  BY <1>1, LayoutAssumption DEF Argued, TypeOK
<1>4. /\ Len(Lengths) \in Nat /\ \A j \in 1 .. Len(Lengths) : Lengths[j] \in Nat
      /\ ArgBytes \in Nat
  <2>1. Len(Lengths) \in Nat /\ \A j \in 1 .. Len(Lengths) : Lengths[j] \in Nat
    BY LengthsType, Members
  <2>2. k \in 1 .. Len(Lengths)  BY <1>put, <1>3, <2>1
  <2> QED BY <1>put, <2>1, <2>2
<1>5. DOMAIN own = 0 .. Wram - 1  BY <1>1 DEF TypeOK, Steps
<1>6. a \in Nat /\ a + ArgBytes = sp /\ sp <= Wram  BY <1>put, <1>2, <1>3, <1>4, WramNat
<1> HIDE DEF a
<1>7. Held(a, ArgBytes, <<"arg", k>>) /\ Kept(a, ArgBytes)
  BY <1>put, <1>4, <1>5, <1>6, PutFits
<1>8. ASSUME NEW b \in Nat, NEW n \in Nat, NEW item, Holds(b, n, item), b + n <= a \/ b >= sp
      PROVE  Held(b, n, item)
  <2>1. DOMAIN own \subseteq Nat  BY <1>5
  <2> QED BY <1>4, <1>6, <1>7, <1>8, <2>1, HoldsOn
<1>9. /\ StackEnd' = StackEnd /\ TotalEnd' = TotalEnd /\ Wram' = Wram /\ Lengths' = Lengths
      /\ Allocated' = Allocated /\ IsElf' = IsElf /\ HasEntryPoint' = HasEntryPoint
      /\ \A x : Vacant(x, Allocated)' = Vacant(x, Allocated)
  <2>1. Allocated' = Allocated  BY <1>1, Frozen
  <2>2. \A x : Vacant(x, Allocated)' = Vacant(x, Allocated)  BY <1>1, <2>1 DEF Vacant
  <2> QED BY <1>1, <2>1, <2>2, Frozen
<1>10. Holds(StackEnd, EntryLen, <<"entry", 0>>)'
  <2>1. Holds(StackEnd, EntryLen, <<"entry", 0>>)  BY <1>1 DEF Argued
  <2>2. StackEnd >= sp  BY <1>2, <1>3
  <2>3. Held(StackEnd, EntryLen, <<"entry", 0>>)  BY <1>2, <1>3, <1>8, <2>1, <2>2
  <2> QED BY <1>9, <2>3 DEF Holds, Held
<1>11. ASSUME a >= TotalEnd, NEW j \in Allocated PROVE Whole(j)'
  <2> DEFINE b == file.sections[j].addr
             m == file.sections[j].len
  <2>0. sp >= TotalEnd  BY <1>2, <1>3, <1>4, <1>6, <1>11
  <2>1. End(j) = b + m /\ Holds(b, m, <<"section", j>>)  BY <1>1, <2>0 DEF Argued, Whole
  <2>2. b \in Nat /\ m \in Nat /\ b + m <= a
    BY <1>2, <1>6, <1>11, <2>1, SectionsType DEF Allocated
  <2> HIDE DEF b, m
  <2>3. Held(b, m, <<"section", j>>)
    BY <1>8, <2>1, <2>2
  <2>4. End(j)' = End(j)  BY <1>1, Frozen
  <2> QED BY <1>1, <2>1, <2>3, <2>4 DEF Whole, Holds, Held, b, m
<1>vac. ASSUME a >= TotalEnd, NEW x \in 0 .. TotalEnd - 1, Vacant(x, Allocated)
        PROVE  own'[x] = <<"free", 0>>
  <2>1. x \in DOMAIN own /\ x < a /\ sp >= TotalEnd
    BY <1>vac, <1>2, <1>4, <1>5, <1>6, WramNat
  <2> QED BY <1>1, <1>7, <1>vac, <2>1 DEF Argued, Kept
<1>12. ASSUME NEW x \in TotalEnd .. a - 1 PROVE own'[x] = <<"free", 0>>
  <2>1. x \in DOMAIN own /\ x \in TotalEnd .. sp - 1 /\ x < a
    BY <1>2, <1>4, <1>5, <1>6, WramNat
  <2> QED BY <1>1, <1>7, <2>1 DEF Argued, Kept
<1>13. ASSUME NEW j \in 1 .. k
       PROVE  /\ a <= table'[j] /\ table'[j] + Lengths[j] + 1 <= StackEnd - Pointer
              /\ Held(table'[j], Lengths[j] + 1, <<"arg", j>>)
  <2>1. CASE j = k
    <3>1. table'[j] = a  BY <1>1, <1>3, <1>6, <2>1
    <3>2. Held(table'[j], Lengths[j] + 1, <<"arg", j>>)  BY <1>put, <1>7, <2>1, <3>1, Zenon
    <3>3. Lengths[k] \in Nat  BY <1>put, <1>3, <1>4
    <3>4. a + Lengths[k] + 1 <= StackEnd - Pointer  BY <1>put, <1>2, <1>3, <1>6, <3>3
    <3> QED BY <1>6, <2>1, <3>1, <3>2, <3>4
  <2>2. CASE j < k
    <3>1. j \in 1 .. k - 1 /\ table'[j] = table[j] /\ table[j] \in Nat /\ Lengths[j] \in Nat
      <4>1. j \in 1 .. k - 1 /\ j \in 1 .. Len(Lengths)  BY <1>put, <1>3, <1>4, <2>2
      <4>2. j \in 1 .. Len(table)  BY <1>3, <4>1
      <4> QED BY <1>1, <1>3, <1>4, <1>6, <4>1, <4>2
    <3>2. /\ sp <= table[j] /\ table[j] + Lengths[j] + 1 <= StackEnd - Pointer
          /\ Holds(table[j], Lengths[j] + 1, <<"arg", j>>)
      BY <1>1, <3>1 DEF Argued
    <3>3. Held(table[j], Lengths[j] + 1, <<"arg", j>>)
      BY <1>8, <3>1, <3>2
    <3>4. a <= table[j]  BY <1>3, <1>4, <1>6, <3>1, <3>2
    <3> QED BY <3>1, <3>2, <3>3, <3>4, Zenon
  <2> QED BY <1>3, <2>1, <2>2
<1>14. Len(table') = k' - 1 /\ k' <= Len(Lengths) + 1 /\ k' - 1 = k
  BY <1>put, <1>1, <1>3, <1>4, <1>6
<1>15. a <= StackEnd - Pointer  BY <1>2, <1>3, <1>4, <1>6
<1>16. IsElf /\ HasEntryPoint /\ par.hosted /\ pc = StackEnd \div WordBytes  BY <1>1 DEF Argued
<1>17. \A j \in 1 .. k' - 1 : Holds(table[j], Lengths[j] + 1, <<"arg", j>>)'
  BY <1>9, <1>13, <1>14 DEF Holds, Held
<1>18. a >= TotalEnd => \A x \in 0 .. TotalEnd - 1 : Vacant(x, Allocated)' => own'[x] = <<"free", 0>>
  BY <1>9, <1>vac
<1> QED BY <1>1, <1>3, <1>9, <1>10, <1>11, <1>12, <1>13, <1>14, <1>15, <1>16, <1>17, <1>18 DEF Argued

\* A section without contents that has a place of its own claims the bytes of
\* no other.
LEMMA BssVacant ==
  ASSUME TypeOK, BssReserved, NEW j \in Allocated, file.sections[j].len = 0,
         NEW x \in file.sections[j].addr .. file.sections[j].addr + file.sections[j].size - 1
  PROVE  /\ Vacant(x, Allocated) /\ x \in Nat
         /\ x < IF par.hosted THEN TotalEnd ELSE Wram
<1> DEFINE a == file.sections[j].addr
           n == file.sections[j].size
           lim == IF par.hosted THEN TotalEnd ELSE Wram
<1>1. a \in Nat /\ n \in Nat  BY SectionsType DEF Allocated
<1>2. /\ a + n <= lim
      /\ \A i \in Allocated \ {j} :
           \/ file.sections[i].len = 0
           \/ file.sections[i].addr + file.sections[i].len <= a
           \/ a + n <= file.sections[i].addr
  BY DEF BssReserved
<1>3. lim \in Nat  BY StackBehind, WramNat
<1>4. x \in Nat /\ a <= x /\ x < a + n  BY <1>1
<1>5. ASSUME NEW i \in Allocated
      PROVE  x < file.sections[i].addr \/ x >= file.sections[i].addr + file.sections[i].len
  <2>1. file.sections[i].addr \in Nat /\ file.sections[i].len \in Nat  BY SectionsType DEF Allocated
  <2>2. CASE i = j  BY <1>1, <1>4, <2>2
  <2>3. CASE i # j
    <3>1. \/ file.sections[i].len = 0 \/ file.sections[i].addr + file.sections[i].len <= a
          \/ a + n <= file.sections[i].addr
      BY <1>2, <2>3
    <3> HIDE DEF a, n
    <3> QED BY <1>1, <1>4, <2>1, <3>1
  <2> QED BY <2>2, <2>3
<1>6. x < lim
  <2> HIDE DEF a, n, lim
  <2> QED BY <1>1, <1>2, <1>3, <1>4
<1> QED BY <1>4, <1>5, <1>6 DEF Vacant

\* Once all sections are whole, the function that is the entry point lies in the
\* contents of one of them.
LEMMA EntryInSection ==
  ASSUME TypeOK, HasEntryPoint, EntryHasCode, \A j \in Allocated : Whole(j),
         \E j \in Allocated : Covers(file.sections[j], EntryPoint)
  PROVE  /\ EntryPoint.value \in Nat /\ EntryPoint.size \in Nat
         /\ \E j \in Allocated :
              /\ file.sections[j].addr <= EntryPoint.value
              /\ EntryPoint.value + EntryPoint.size <= file.sections[j].addr + file.sections[j].len
<1> DEFINE v == EntryPoint.value
           z == EntryPoint.size
<1>1. v \in Nat /\ z \in Nat
  <2>1. PICK i \in Named : EntryPoint = Symbols[i]  BY EntryPointLast
  <2>2. i \in DOMAIN Symbols  BY DEF Named
  <2> QED BY <2>1, <2>2, SymbolsType
<1>2. PICK j \in Allocated : Covers(file.sections[j], EntryPoint)  OBVIOUS
<1> DEFINE a == file.sections[j].addr
           n == file.sections[j].len
<1>3. a \in Nat /\ n \in Nat /\ n = file.sections[j].size
  BY <1>2, SectionsType DEF Allocated, EntryHasCode
<1>4. a <= v /\ (a + n) % AddrMod >= (v + z) % AddrMod  BY <1>2, <1>3 DEF Covers
<1>5. (a + n) % AddrMod = a + n  BY DEF Whole, End
<1>6. (v + z) % AddrMod = v + z
  <2> DEFINE e == v + z
  <2>1. e \in Nat /\ e < AddrMod  BY <1>1 DEF EntryHasCode
  <2> HIDE DEF e
  <2>2. e % AddrMod = e  BY <2>1, AddressAssumption, Remainders
  <2> QED BY <2>2 DEF e
<1>7. v + z <= a + n
  <2> HIDE DEF v, z, a, n
  <2> QED BY <1>1, <1>3, <1>4, <1>5, <1>6
<1> QED BY <1>1, <1>4, <1>7

\* The part of a range that holds an item holds it.
LEMMA HeldPart ==
  ASSUME NEW a \in Nat, NEW n \in Nat, NEW b \in Nat, NEW m \in Nat, NEW item,
         Held(a, n, item), a <= b, b + m <= a + n
  PROVE  Held(b, m, item)
<1> SUFFICES ASSUME NEW x \in b .. b + m - 1 PROVE x \in DOMAIN own' /\ own'[x] = item
  BY DEF Held
<1>1. x \in a .. a + n - 1  OBVIOUS
<1> QED BY <1>1 DEF Held

\* The table ends the layout of a hosted program.
LEMMA WriteArgvIntact ==
  ASSUME TypeOK, Laid, Reached, WriteArgv
  PROVE  LayoutIntact'
<1> DEFINE a == sp - TableBytes
<1>1. /\ step = "argv" /\ step' = "done" /\ k > Len(Lengths) /\ sp' = a /\ table' = table
      /\ par' = par /\ file' = file /\ pc' = pc
  BY DEF WriteArgv
<1>2. /\ StackEnd' = StackEnd /\ TotalEnd' = TotalEnd /\ Wram' = Wram /\ Lengths' = Lengths
      /\ Allocated' = Allocated /\ IsElf' = IsElf /\ EntryPoint' = EntryPoint
      /\ BssReserved' = BssReserved /\ EntryHasCode' = EntryHasCode
      /\ (Maskable(Wram) /\ SectionsApart)' = (Maskable(Wram) /\ SectionsApart)
  BY <1>1, Frozen
<1> SUFFICES ASSUME Maskable(Wram), SectionsApart, par.hosted => a >= StackEnd - StackSize
             PROVE  LayoutIntact'
  BY <1>1, <1>2 DEF LayoutIntact, InStack
<1>3. Argued  BY DEF Laid
<1>4. /\ IsElf /\ HasEntryPoint /\ par.hosted /\ pc = StackEnd \div WordBytes
      /\ Holds(StackEnd, EntryLen, <<"entry", 0>>)
  BY <1>1, <1>3 DEF Argued
<1>5. /\ TotalEnd \in Nat /\ StackEnd \in Nat /\ TotalEnd < StackEnd - StackSize
      /\ (\A j \in Allocated : End(j) <= TotalEnd)
      /\ (StackEnd \div WordBytes) * WordBytes = StackEnd
  BY <1>1, StackBehind DEF TypeOK
<1>6. /\ EntryLen \in Nat \ {0} /\ Pointer \in Nat \ {0} /\ StackSize \in Nat
      /\ sp <= StackEnd - Pointer /\ Wram >= StackEnd + EntryLen
      /\ sp \in Nat /\ k \in Nat \ {0} /\ table \in Seq(Nat) /\ Len(table) = k - 1
      /\ k <= Len(Lengths) + 1
  BY <1>1, <1>3, LayoutAssumption DEF Argued, TypeOK
<1>7. /\ Len(Lengths) \in Nat /\ DOMAIN Lengths = 1 .. Len(Lengths)
      /\ \A j \in 1 .. Len(Lengths) : Lengths[j] \in Nat
  BY LengthsType, Members
<1>8. k = Len(Lengths) + 1 /\ Len(table) = Len(Lengths)  BY <1>1, <1>6, <1>7
<1>9. TableBytes = (Len(Lengths) + 1) * Pointer /\ TableBytes \in Nat
  BY <1>6, <1>7, <1>8 DEF TableBytes
<1>10. a \in Nat /\ a + TableBytes = sp /\ a > TotalEnd /\ sp <= Wram /\ sp < StackEnd
       /\ sp >= TotalEnd
  BY <1>4, <1>5, <1>6, <1>9, WramNat
<1>11. DOMAIN own = 0 .. Wram - 1  BY <1>1 DEF TypeOK, Steps
<1>12. own' = [x \in DOMAIN own |-> IF Fold(a) <= x /\ x < Fold(a) + TableBytes
                                      THEN <<"argv", 0>> ELSE own[x]]
  BY <1>1 DEF WriteArgv, Put
<1> HIDE DEF a
<1>13. Held(a, TableBytes, <<"argv", 0>>) /\ Kept(a, TableBytes)
  BY <1>9, <1>10, <1>11, <1>12, PutFits
<1>14. ASSUME NEW b \in Nat, NEW n \in Nat, NEW item, Holds(b, n, item), b + n <= a \/ b >= sp
       PROVE  Held(b, n, item)
  <2>1. DOMAIN own \subseteq Nat  BY <1>11
  <2> QED BY <1>9, <1>10, <1>13, <1>14, <2>1, HoldsOn
<1>15. \A j \in Allocated : Held(file.sections[j].addr, file.sections[j].len, <<"section", j>>)
  <2> TAKE j \in Allocated
  <2> DEFINE b == file.sections[j].addr
             m == file.sections[j].len
  <2>1. End(j) = b + m /\ Holds(b, m, <<"section", j>>)  BY <1>1, <1>3, <1>10 DEF Argued, Whole
  <2>2. b \in Nat /\ m \in Nat /\ b + m <= a
    BY <1>5, <1>10, <2>1, SectionsType DEF Allocated
  <2> HIDE DEF b, m
  <2>3. Held(b, m, <<"section", j>>)  BY <1>14, <2>1, <2>2
  <2> QED BY <2>3 DEF b, m
<1>16. Held(StackEnd, EntryLen, <<"entry", 0>>)
  BY <1>4, <1>5, <1>6, <1>10, <1>14
<1>17. \A j \in DOMAIN Lengths : Held(table[j], Lengths[j] + 1, <<"arg", j>>)
  <2> TAKE j \in DOMAIN Lengths
  <2>1. j \in 1 .. k - 1 /\ j \in 1 .. Len(table) /\ Lengths[j] + 1 \in Nat  BY <1>6, <1>7, <1>8
  <2>2. table[j] \in Nat  BY <1>6, <2>1
  <2>3. table[j] >= sp /\ Holds(table[j], Lengths[j] + 1, <<"arg", j>>)
    BY <1>1, <1>3, <1>6, <2>1, <2>2 DEF Argued
  <2> QED BY <1>14, <2>1, <2>2, <2>3
<1>18. Held(a, (Len(Lengths) + 1) * Pointer, <<"argv", 0>>)  BY <1>9, <1>13
<1>19. \A x \in TotalEnd .. a - 1 : own'[x] = <<"free", 0>>
  <2> TAKE x \in TotalEnd .. a - 1
  <2>1. x \in DOMAIN own /\ x \in TotalEnd .. sp - 1 /\ x < a
    BY <1>5, <1>9, <1>10, <1>11, WramNat
  <2> QED BY <1>1, <1>3, <1>13, <2>1 DEF Argued, Kept
<1>20. Held(pc * WordBytes, EntryLen, <<"entry", 0>>)  BY <1>4, <1>5, <1>16
<1>bss. ASSUME BssReserved, NEW j \in Allocated, file.sections[j].len = 0
        PROVE  Held(file.sections[j].addr, file.sections[j].size, <<"free", 0>>)
  <2> SUFFICES ASSUME NEW x \in file.sections[j].addr .. file.sections[j].addr + file.sections[j].size - 1
               PROVE  x \in DOMAIN own' /\ own'[x] = <<"free", 0>>
    BY DEF Held
  <2>1. Vacant(x, Allocated) /\ x \in Nat /\ x < TotalEnd  BY <1>4, <1>bss, BssVacant
  <2>2. x \in 0 .. TotalEnd - 1 /\ x < a /\ x \in DOMAIN own
    BY <1>5, <1>9, <1>10, <1>11, <2>1, WramNat
  <2>3. own[x] = <<"free", 0>>  BY <1>1, <1>3, <1>10, <2>1, <2>2 DEF Argued
  <2> QED BY <1>13, <2>2, <2>3 DEF Kept
<1>code. ASSUME EntryHasCode
         PROVE  \E j \in Allocated : Held(EntryPoint.value, EntryPoint.size, <<"section", j>>)
  <2>1. \A j \in Allocated : Whole(j)  BY <1>1, <1>3, <1>10 DEF Argued
  <2>2. \E j \in Allocated : Covers(file.sections[j], EntryPoint)  BY <1>1 DEF Reached
  <2>3. PICK j \in Allocated :
          /\ file.sections[j].addr <= EntryPoint.value
          /\ EntryPoint.value + EntryPoint.size <= file.sections[j].addr + file.sections[j].len
    BY <1>4, <1>code, <2>1, <2>2, EntryInSection
  <2>4. EntryPoint.value \in Nat /\ EntryPoint.size \in Nat
    BY <1>4, <1>code, <2>1, <2>2, EntryInSection
  <2>5. file.sections[j].addr \in Nat /\ file.sections[j].len \in Nat  BY SectionsType DEF Allocated
  <2> QED BY <1>15, <2>3, <2>4, <2>5, HeldPart
<1>21. /\ IsElf' /\ par'.hosted
       /\ \A j \in Allocated' :
            Holds(file.sections[j].addr, file.sections[j].len, <<"section", j>>)'
       /\ Holds(pc * WordBytes, EntryLen, <<"entry", 0>>)'
       /\ \A j \in DOMAIN Lengths' : Holds(table[j], Lengths[j] + 1, <<"arg", j>>)'
       /\ Holds(sp, (Len(Lengths) + 1) * Pointer, <<"argv", 0>>)'
       /\ \A x \in TotalEnd' .. sp' - 1 : own'[x] = <<"free", 0>>
  BY <1>1, <1>2, <1>4, <1>15, <1>17, <1>18, <1>19, <1>20 DEF Holds, Held
<1>22. /\ BssReserved' => \A j \in Allocated' :
            file'.sections[j].len = 0 =>
              Holds(file.sections[j].addr, file.sections[j].size, <<"free", 0>>)'
       /\ EntryHasCode' => \E j \in Allocated' :
            Holds(EntryPoint.value, EntryPoint.size, <<"section", j>>)'
  BY <1>1, <1>2, <1>bss, <1>code DEF Holds, Held
<1> QED BY <1>21, <1>22, Zenon DEF LayoutIntact

\* A raw file is copied to WRAM's start.
LEMMA LoadRawIntact ==
  ASSUME TypeOK, LoadRaw
  PROVE  LayoutIntact'
<1>1. /\ step = "open" /\ step' = "done" /\ ~IsElf /\ ~par.hosted /\ par' = par /\ file' = file
      /\ InWram(0, file.bytes)
      /\ own' = [x \in DOMAIN own |-> IF Fold(0) <= x /\ x < Fold(0) + file.bytes
                                        THEN <<"raw", 0>> ELSE own[x]]
  BY DEF LoadRaw, Put
<1>2. Wram' = Wram /\ IsElf' = IsElf
      /\ (Maskable(Wram) /\ SectionsApart)' = (Maskable(Wram) /\ SectionsApart)
  BY <1>1, Frozen
<1> SUFFICES ASSUME Maskable(Wram) PROVE LayoutIntact'
  BY <1>2 DEF LayoutIntact
<1>3. file.bytes \in Nat /\ DOMAIN own = 0 .. Wram - 1
  BY <1>1, InputAssumption DEF TypeOK, ElfFiles, Steps
<1>fits. 0 + file.bytes <= Wram
  <2>1. Wram \in Nat \ {0}  BY WramNat DEF Maskable
  <2>2. 0 \in 0 .. Wram /\ 0 % Wram = 0  BY <2>1, Remainders
  <2>3. Fold(0) = 0  BY <2>2, FoldIs
  <2> QED BY <1>1, <1>3, <2>1, <2>3 DEF InWram
<1>4. Held(0, file.bytes, <<"raw", 0>>)  BY <1>1, <1>3, <1>fits, PutFits
<1>5. ~IsElf' /\ ~par'.hosted /\ Holds(0, file.bytes, <<"raw", 0>>)'
  BY <1>1, <1>2, <1>4 DEF Holds, Held
<1> QED BY <1>5, Zenon DEF LayoutIntact

\* A program that runs on the bare machine is complete with its sections.
LEMMA SectionsIntact ==
  ASSUME TypeOK, Laid, Reached, SectionsLoaded, ~par.hosted
  PROVE  LayoutIntact'
<1>1. /\ step = "sections" /\ step' = "done" /\ k > Len(file.sections) /\ found
      /\ par' = par /\ file' = file /\ own' = own /\ pc' = EntryPoint.value \div WordBytes
  BY DEF SectionsLoaded
<1>2. /\ Allocated' = Allocated /\ IsElf' = IsElf /\ Named' = Named /\ Symbols' = Symbols
      /\ BssReserved' = BssReserved /\ EntryHasCode' = EntryHasCode /\ EntryPoint' = EntryPoint
      /\ (Maskable(Wram) /\ SectionsApart)' = (Maskable(Wram) /\ SectionsApart)
  BY <1>1, Frozen
<1> SUFFICES ASSUME Maskable(Wram), SectionsApart PROVE LayoutIntact'
  BY <1>2 DEF LayoutIntact
<1>3. Placed  BY DEF Laid
<1>4. \A j \in Allocated : j < k  BY <1>1, SectionsType DEF Allocated, TypeOK
<1>5. IsElf /\ HasEntryPoint /\ \A j \in Allocated : Whole(j)  BY <1>1, <1>3, <1>4 DEF Placed
<1>6. PICK j \in Named : /\ EntryPoint = Symbols[j] /\ Symbols[j].type = "func"
                         /\ \A i \in Named : i <= j
  BY <1>5, EntryPointLast
<1>7. \A i \in Allocated' :
        Holds(file.sections[i].addr, file.sections[i].len, <<"section", i>>)'
  BY <1>1, <1>2, <1>5 DEF Whole, Holds
<1>8. \E i \in Named' : /\ pc' = Symbols'[i].value \div WordBytes
                        /\ Symbols'[i].type = "func"
                        /\ \A h \in Named' : h <= i
  BY <1>1, <1>2, <1>6, Zenon
<1>9. IsElf' /\ ~par'.hosted  BY <1>1, <1>2, <1>5
<1>bss. ASSUME BssReserved, NEW i \in Allocated, file.sections[i].len = 0
        PROVE  Held(file.sections[i].addr, file.sections[i].size, <<"free", 0>>)
  <2> SUFFICES ASSUME NEW x \in file.sections[i].addr .. file.sections[i].addr + file.sections[i].size - 1
               PROVE  x \in DOMAIN own /\ own[x] = <<"free", 0>>
    BY <1>1 DEF Held
  <2>1. Vacant(x, Allocated) /\ x \in Nat /\ x < Wram  BY <1>bss, BssVacant
  <2>2. x \in DOMAIN own  BY <1>1, <2>1, WramNat DEF TypeOK, Steps
  <2>3. Before(k) = Allocated  BY <1>4 DEF Before
  <2> QED BY <1>1, <1>3, <2>1, <2>2, <2>3 DEF Placed
<1>code. ASSUME EntryHasCode
         PROVE  \E i \in Allocated : Held(EntryPoint.value, EntryPoint.size, <<"section", i>>)
  <2>2. \E i \in Allocated : Covers(file.sections[i], EntryPoint)  BY <1>1 DEF Reached
  <2>3. PICK i \in Allocated :
          /\ file.sections[i].addr <= EntryPoint.value
          /\ EntryPoint.value + EntryPoint.size <= file.sections[i].addr + file.sections[i].len
    BY <1>5, <1>code, <2>2, EntryInSection
  <2>4. EntryPoint.value \in Nat /\ EntryPoint.size \in Nat
    BY <1>5, <1>code, <2>2, EntryInSection
  <2>5. file.sections[i].addr \in Nat /\ file.sections[i].len \in Nat  BY SectionsType DEF Allocated
  <2>6. Held(file.sections[i].addr, file.sections[i].len, <<"section", i>>)
    BY <1>1, <1>5 DEF Whole, Holds, Held
  <2> QED BY <2>3, <2>4, <2>5, <2>6, HeldPart
<1>10. /\ BssReserved' => \A i \in Allocated' :
            file'.sections[i].len = 0 =>
              Holds(file.sections[i].addr, file.sections[i].size, <<"free", 0>>)'
       /\ EntryHasCode' => \E i \in Allocated' :
            Holds(EntryPoint.value, EntryPoint.size, <<"section", i>>)'
  BY <1>1, <1>2, <1>bss, <1>code DEF Holds, Held
<1> QED BY <1>7, <1>8, <1>9, <1>10, Zenon DEF LayoutIntact

-----------------------------------------------------------------------------

\* load_sections goes on to the stack or to the end only if it has found the
\* entry point.
LEMMA NextReached ==
  ASSUME TypeOK, Reached, [Next]_lvars
  PROVE  Reached'
<1>1. CASE ParseArgs
  <2>1. step = "args" /\ step' \in {"args", "open", "panic"} /\ found' = found
    BY <1>1 DEF ParseArgs, ParseValue, NoValue, ParseEntryPoint, ParseHosted, ParseSeparator, ParseName,
       ArgsParsed, MissingExecutable, Parsed, Parsing, Panic, image
  <2> QED BY <2>1 DEF Reached
<1>2. CASE LoadFile \/ SetUpHost \/ UNCHANGED lvars
  <2>1. par' = par /\ file' = file
    BY <1>2 DEF lvars, LoadFile, SetUpHost, Panic, OpenElf, BadEntryPoint, LoadRaw,
       LoadRawOutside, CannotOpen, SkipSection, LoadSection, LoadSectionOutside, SectionTooLong, SectionsLoaded,
       NoEntryPoint, SetupStack, NoRoomForStack, WriteEntryCode, WriteEntryCodeOutside, NoRoomForEntry,
       AddArgument, WriteArgv, BelowWram
  <2> DEFINE Has == \E j \in Allocated : Covers(file.sections[j], EntryPoint)
  <2>2. Has' = Has
    <3>1. Allocated' = Allocated /\ EntryPoint' = EntryPoint  BY <2>1, Frozen
    <3> QED BY <2>1, <3>1, Zenon DEF Covers
  <2>3. CASE LoadSection
    <3>1. /\ step = "sections" /\ step' = "sections" /\ k \in Allocated
          /\ found' = (found \/ Covers(file.sections[k], EntryPoint))
      BY <2>3, SectionsType DEF LoadSection, Loading, Section, Allocated, TypeOK
    <3>2. found' => Has  BY <3>1, Zenon DEF Reached
    <3> QED BY <2>2, <3>1, <3>2 DEF Reached
  <2>4. CASE ~LoadSection
    <3>1. found' = found
      BY <1>2, <2>4 DEF lvars, LoadFile, SetUpHost, Panic, OpenElf, BadEntryPoint, LoadRaw,
         LoadRawOutside, CannotOpen, SkipSection, LoadSectionOutside, SectionTooLong, SectionsLoaded,
         NoEntryPoint, SetupStack, NoRoomForStack, WriteEntryCode, WriteEntryCodeOutside, NoRoomForEntry,
         AddArgument, WriteArgv, BelowWram, image
    <3>2. \/ step' = step \/ step' \in {"panic", "wild", "done"}
          \/ step = "open" /\ step' = "sections"
          \/ step = "sections" /\ found /\ step' = "stack"
          \/ step = "stack" /\ step' = "entry"
          \/ step = "entry" /\ step' = "argv"
      BY <1>2, <2>4 DEF lvars, LoadFile, SetUpHost, Panic, OpenElf, BadEntryPoint, LoadRaw,
         LoadRawOutside, CannotOpen, SkipSection, LoadSectionOutside, SectionTooLong, SectionsLoaded,
         NoEntryPoint, SetupStack, NoRoomForStack, WriteEntryCode, WriteEntryCodeOutside, NoRoomForEntry,
         AddArgument, WriteArgv, BelowWram, Loading
    <3> HIDE DEF Has
    <3>3. /\ step \in {"args", "open"} => ~found
          /\ step \in {"stack", "entry", "argv"} => found
          /\ step \in {"sections", "stack", "entry", "argv"} /\ found => Has
      BY DEF Reached, Has
    <3>4. /\ step' \in {"args", "open"} => ~found'
          /\ step' \in {"stack", "entry", "argv"} => found'
          /\ step' \in {"sections", "stack", "entry", "argv"} /\ found' => Has'
      BY <2>2, <3>1, <3>2, <3>3
    <3> QED BY <3>4 DEF Reached, Has
  <2> QED BY <2>3, <2>4
<1> QED BY <1>1, <1>2 DEF Next

\* Every step of start-up keeps the invariant.
LEMMA NextLoad == LoadInv /\ [Next]_lvars => LoadInv'
<1> SUFFICES ASSUME LoadInv, [Next]_lvars PROVE LoadInv'  OBVIOUS
<1>1. TypeOK /\ Laid /\ Reached /\ LayoutIntact  BY DEF LoadInv
<1>reached. Reached'  BY <1>1, NextReached
<1>2. CASE UNCHANGED lvars
  <2>1. /\ step' = step /\ k' = k /\ args' = args /\ par' = par /\ file' = file /\ own' = own
        /\ sp' = sp /\ pc' = pc /\ table' = table
    BY <1>2 DEF lvars, image
  <2>2. TypeOK'  BY <1>1, <2>1, Frozen DEF TypeOK
  <2>3. /\ \A j : Whole(j)' = Whole(j)
        /\ \A x : Vacant(x, Before(k))' = Vacant(x, Before(k))
        /\ \A x : Vacant(x, Allocated)' = Vacant(x, Allocated)
    BY <2>1, FrozenBytes
  <2>4. Laid'  BY <1>1, <2>1, <2>3, Frozen DEF Laid, Blank, Placed, Argued, Holds
  <2>5. LayoutIntact'  BY <1>1, <2>1, Frozen DEF LayoutIntact, InStack, Holds
  <2> QED BY <1>reached, <2>2, <2>4, <2>5 DEF LoadInv
<1>3. CASE Next
  <2>1. TypeOK'  BY <1>1, <1>3, ParseType, LoadType DEF Next
  <2> SUFFICES Laid' /\ LayoutIntact'  BY <1>reached, <2>1 DEF LoadInv
  <2>2. ASSUME step' \in {"args", "panic", "wild"} PROVE Laid' /\ LayoutIntact'
    BY <2>2 DEF Laid, Blank, Placed, Argued, LayoutIntact
  <2>3. CASE ParseArgs
    <3>1. CASE ArgsParsed
      BY <3>1 DEF ArgsParsed, Laid, Blank, Placed, Argued, LayoutIntact
    <3>2. CASE ~ArgsParsed
      <4>1. step' \in {"args", "panic"}
        BY <2>3, <3>2 DEF ParseArgs, ParseValue, NoValue, ParseEntryPoint, ParseHosted,
             ParseSeparator, ParseName, MissingExecutable, Parsing, Parsed, Panic
      <4> QED BY <2>2, <4>1
    <3> QED BY <3>1, <3>2
  <2>4. CASE LoadFile
    <3>1. CASE \/ BadEntryPoint \/ LoadRawOutside \/ CannotOpen
               \/ LoadSectionOutside \/ SectionTooLong \/ NoEntryPoint
      BY <2>2, <3>1 DEF BadEntryPoint, LoadRawOutside, CannotOpen, LoadSectionOutside, SectionTooLong,
         NoEntryPoint, Panic
    <3>2. CASE OpenElf
      <4>1. /\ step = "open" /\ step' = "sections" /\ k' = 1 /\ par' = par /\ file' = file
            /\ own' = own /\ IsElf /\ HasEntryPoint
        BY <3>2 DEF OpenElf, image
      <4>2. \A j \in Allocated : ~(j < 1)  BY <1>1, SectionsType DEF Allocated
      <4>3. Maskable(Wram)' /\ SectionsApart' => Placed'
        BY <1>1, <4>1, <4>2, Frozen DEF Laid, Blank, Placed
      <4> QED BY <4>1, <4>3 DEF Laid, Blank, Argued, LayoutIntact
    <3>3. CASE LoadRaw
      <4>1. Laid'  BY <3>3 DEF LoadRaw, Laid, Blank, Placed, Argued
      <4> QED BY <1>1, <3>3, <4>1, LoadRawIntact
    <3>4. CASE SkipSection
      <4>1. /\ step = "sections" /\ step' = "sections" /\ k' = k + 1 /\ par' = par /\ file' = file
            /\ own' = own /\ k \notin Allocated
        BY <3>4 DEF SkipSection, Loading, Section, Allocated, image
      <4>2. \A j \in Allocated : j < k + 1 <=> j < k
        BY <1>1, <4>1, SectionsType DEF Allocated, TypeOK
      <4>3. /\ \A j : Whole(j)' = Whole(j)
            /\ \A x : Vacant(x, Before(k))' = Vacant(x, Before(k + 1))
            /\ Before(k + 1) = Before(k)
        BY <4>1, <4>2, FrozenBytes DEF Before
      <4>4. Maskable(Wram)' /\ SectionsApart' => Placed'
        BY <1>1, <4>1, <4>2, <4>3, Frozen DEF Laid, Placed
      <4> QED BY <4>1, <4>4 DEF Laid, Blank, Argued, LayoutIntact
    <3>5. CASE LoadSection
      <4>1. /\ step = "sections" /\ step' = "sections" /\ par' = par /\ file' = file
        BY <3>5 DEF LoadSection, Loading
      <4>2. Maskable(Wram)' /\ SectionsApart' => Placed'
        BY <1>1, <3>5, <4>1, Frozen, LoadSectionPlaces DEF Laid
      <4> QED BY <4>1, <4>2 DEF Laid, Blank, Argued, LayoutIntact
    <3>6. CASE SectionsLoaded
      <4>1. CASE par.hosted
        <5>1. /\ step = "sections" /\ step' = "stack" /\ k' = k /\ par' = par /\ file' = file
              /\ own' = own /\ k > Len(file.sections)
          BY <3>6, <4>1 DEF SectionsLoaded
        <5>2. /\ \A j : Whole(j)' = Whole(j)
              /\ \A x : Vacant(x, Before(k))' = Vacant(x, Before(k))
          BY <5>1, FrozenBytes
        <5>3. Maskable(Wram)' /\ SectionsApart' => Placed'
          BY <1>1, <4>1, <5>1, <5>2, Frozen DEF Laid, Placed
        <5> QED BY <5>1, <5>3 DEF Laid, Blank, Argued, LayoutIntact
      <4>2. CASE ~par.hosted
        <5>1. Laid'  BY <3>6, <4>2 DEF SectionsLoaded, Laid, Blank, Placed, Argued
        <5> QED BY <1>1, <3>6, <4>2, <5>1, SectionsIntact
      <4> QED BY <4>1, <4>2
    <3> QED BY <2>4, <3>1, <3>2, <3>3, <3>4, <3>5, <3>6 DEF LoadFile
  <2>5. CASE SetUpHost
    <3>1. CASE NoRoomForStack \/ WriteEntryCodeOutside \/ NoRoomForEntry \/ BelowWram
      BY <2>2, <3>1 DEF NoRoomForStack, WriteEntryCodeOutside, NoRoomForEntry, BelowWram, Panic
    <3>2. CASE SetupStack
      <4>1. /\ step = "stack" /\ step' = "entry" /\ k' = k /\ par' = par /\ file' = file
            /\ own' = own /\ sp' = StackEnd - Pointer
        BY <3>2 DEF SetupStack
      <4>2. /\ \A j : Whole(j)' = Whole(j)
            /\ \A x : Vacant(x, Before(k))' = Vacant(x, Before(k))
        BY <4>1, FrozenBytes
      <4>3. Maskable(Wram)' /\ SectionsApart' => Placed'
        BY <1>1, <4>1, <4>2, Frozen DEF Laid, Placed
      <4> QED BY <4>1, <4>3 DEF Laid, Blank, Argued, LayoutIntact
    <3>3. CASE WriteEntryCode
      <4>1. step = "entry" /\ step' = "argv" /\ par' = par /\ file' = file
        BY <3>3 DEF WriteEntryCode
      <4>2. Maskable(Wram)' /\ SectionsApart' => Argued'
        BY <1>1, <3>3, <4>1, Frozen, EntryCodePlaces DEF Laid
      <4> QED BY <4>1, <4>2 DEF Laid, Blank, Placed, LayoutIntact
    <3>4. CASE AddArgument
      <4>1. step = "argv" /\ step' = "argv" /\ par' = par /\ file' = file
        BY <3>4 DEF AddArgument
      <4>2. Maskable(Wram)' /\ SectionsApart' => Argued'
        BY <1>1, <3>4, <4>1, Frozen, AddArgumentPlaces DEF Laid
      <4> QED BY <4>1, <4>2 DEF Laid, Blank, Placed, LayoutIntact
    <3>5. CASE WriteArgv
      <4>1. Laid'  BY <3>5 DEF WriteArgv, Laid, Blank, Placed, Argued
      <4> QED BY <1>1, <3>5, <4>1, WriteArgvIntact
    <3> QED BY <2>5, <3>1, <3>2, <3>3, <3>4, <3>5 DEF SetUpHost
  <2> QED BY <1>3, <2>3, <2>4, <2>5 DEF Next
<1> QED BY <1>2, <1>3

\* Start-up leaves a whole program.
THEOREM LayoutSafety == Spec => []LayoutIntact
<1>1. LoadInv => LayoutIntact  BY DEF LoadInv
<1> QED BY InitLoad, NextLoad, <1>1, PTL DEF Spec

-----------------------------------------------------------------------------
(* The command line.                                                       *)

\* What parse_args has made of the tokens before the k-th, where the command's
\* options start at the positions in starts: it is among the options or at the
\* executable, or behind the executable, or behind the forwarded arguments.
Upto(starts) == {p \in starts : p < k}
ReadSoFar(starts) ==
  \/ /\ k \in starts
     /\ Meant(asked, Upto(starts), par) /\ par.forwarded = <<>>
  \/ /\ k = Len(asked.options) + 2
     /\ Meant(asked, starts, par) /\ par.exe = asked.exe /\ par.forwarded = <<>>
  \/ /\ k = Len(args) + 1
     /\ Meant(asked, starts, par) /\ par.exe = asked.exe
     /\ par.forwarded = asked.forwarded

CommandInv ==
  /\ asked # NoCommand => asked \in Commands /\ args = Render(asked)
  /\ step = "args" /\ asked # NoCommand =>
       \A starts \in SUBSET (1 .. Len(asked.options) + 1) :
         Grammar(asked, starts) => ReadSoFar(starts)
  /\ CommandHonoured

\* The tokens of a command line of the documented form.
LEMMA RenderParts ==
  ASSUME NEW c \in Commands
  PROVE  LET n == Len(c.options)
             a == Render(c)
         IN /\ n \in Nat /\ a \in Seq(Tokens)
            /\ \A p \in 1 .. n : a[p] = c.options[p]
            /\ a[n + 1].text = c.exe
            /\ c.forwarded = <<>> => Len(a) = n + 1
            /\ c.forwarded # <<>> =>
                 /\ Len(a) >= n + 2 /\ a[n + 2].text = Sep
                 /\ SubSeq(a, n + 3, Len(a)) = c.forwarded
<1> DEFINE n == Len(c.options)
           e == <<Token(c.exe, -1, c.exeLen)>>
           f == c.forwarded
           s == <<Word(Sep)>>
<1>1. c.options \in Seq(Tokens) /\ f \in Seq(Tokens) /\ c.exe \in STRING /\ c.exeLen \in Nat
  BY InputAssumption
<1>2. n \in Nat /\ Len(f) \in Nat  BY <1>1
<1>3. Token(c.exe, -1, c.exeLen) \in Tokens /\ Token(c.exe, -1, c.exeLen).text = c.exe
  BY <1>1 DEF Token, Tokens
<1>4. Word(Sep) \in Tokens /\ Word(Sep).text = Sep
  <2>1. Sep \in STRING  BY LiteralAssumption DEF Sep
  <2> QED BY <2>1 DEF Word, Token, Tokens
<1>5. e \in Seq(Tokens) /\ Len(e) = 1 /\ e[1].text = c.exe
  BY <1>3
<1>6. s \in Seq(Tokens) /\ Len(s) = 1 /\ s[1].text = Sep
  BY <1>4
<1> DEFINE oe == c.options \o e
<1> HIDE DEF e, s, n, f
<1>7. /\ oe \in Seq(Tokens) /\ Len(oe) = n + 1
      /\ \A p \in 1 .. n + 1 : oe[p] = IF p <= n THEN c.options[p] ELSE e[p - n]
  <2>1. /\ oe \in Seq(Tokens) /\ Len(oe) = Len(c.options) + Len(e)
        /\ \A p \in 1 .. Len(c.options) + Len(e) :
             oe[p] = IF p <= Len(c.options) THEN c.options[p] ELSE e[p - Len(c.options)]
    BY <1>1, <1>5, ConcatProperties
  <2> QED BY <2>1, <1>2, <1>5 DEF n
<1>8. /\ \A p \in 1 .. n : oe[p] = c.options[p]
      /\ oe[n + 1] = e[1]
  <2>1. n + 1 \in 1 .. n + 1 /\ ~(n + 1 <= n) /\ (n + 1) - n = 1  BY <1>2
  <2>2. \A p \in 1 .. n : p \in 1 .. n + 1 /\ p <= n  BY <1>2
  <2> QED BY <1>7, <2>1, <2>2
<1> HIDE DEF oe
<1>9. CASE f = <<>>
  <2>1. Render(c) = oe \o <<>>  BY <1>9 DEF Render, oe, e, f
  <2>2. Render(c) = oe  BY <1>7, <2>1, ConcatEmptySeq
  <2> QED BY <1>2, <1>5, <1>7, <1>8, <1>9, <2>2 DEF n, f
<1>10. CASE f # <<>>
  <2> DEFINE os == oe \o s
             a  == os \o f
  <2>1. Render(c) = a
    <3>1. Render(c) = oe \o (s \o f)  BY <1>10 DEF Render, oe, e, s, f
    <3>2. oe \in Seq(Tokens) /\ s \in Seq(Tokens) /\ f \in Seq(Tokens)  BY <1>1, <1>6, <1>7
    <3>3. (oe \o s) \o f = oe \o (s \o f)  BY <3>2, ConcatAssociative
    <3> QED BY <3>1, <3>3, Zenon DEF a, os
  <2>2. /\ os \in Seq(Tokens) /\ Len(os) = n + 2
        /\ \A p \in 1 .. n + 2 : os[p] = IF p <= n + 1 THEN oe[p] ELSE s[p - (n + 1)]
    <3>1. /\ os \in Seq(Tokens) /\ Len(os) = Len(oe) + Len(s)
          /\ \A p \in 1 .. Len(oe) + Len(s) :
               os[p] = IF p <= Len(oe) THEN oe[p] ELSE s[p - Len(oe)]
      BY <1>6, <1>7, ConcatProperties
    <3>2. Len(oe) = n + 1 /\ Len(oe) + Len(s) = n + 2  BY <1>2, <1>6, <1>7
    <3> QED BY <3>1, <3>2
  <2> HIDE DEF os
  <2>3. /\ a \in Seq(Tokens) /\ Len(a) = (n + 2) + Len(f)
        /\ \A p \in 1 .. (n + 2) + Len(f) : a[p] = IF p <= n + 2 THEN os[p] ELSE f[p - (n + 2)]
    <3>1. /\ a \in Seq(Tokens) /\ Len(a) = Len(os) + Len(f)
          /\ \A p \in 1 .. Len(os) + Len(f) :
               a[p] = IF p <= Len(os) THEN os[p] ELSE f[p - Len(os)]
      BY <1>1, <2>2, ConcatProperties
    <3> QED BY <3>1, <2>2
  <2>4. SubSeq(a, n + 3, Len(a)) = f
    <3>1. Len(f) \in Nat \ {0}  BY <1>1, <1>10, EmptySeq
    <3>2. /\ n + 3 \in Len(os) + 1 .. Len(os) + Len(f)
          /\ Len(a) \in Len(os) + 1 .. Len(os) + Len(f)
          /\ (n + 3) - Len(os) = 1 /\ Len(a) - Len(os) = Len(f)
      BY <1>2, <2>2, <2>3, <3>1
    <3>3. SubSeq(a, n + 3, Len(a)) = SubSeq(f, (n + 3) - Len(os), Len(a) - Len(os))
      BY <1>1, <2>2, <3>2, SubSeqOfConcat2
    <3>4. SubSeq(f, 1, Len(f)) = f  BY <1>1, SubSeqFull
    <3> QED BY <3>2, <3>3, <3>4
  <2> HIDE DEF a
  <2>5. \A p \in 1 .. n + 2 : a[p] = os[p]
    <3>1. \A p \in 1 .. n + 2 : p \in 1 .. (n + 2) + Len(f) /\ p <= n + 2  BY <1>2
    <3> QED BY <2>3, <3>1
  <2>6. \A p \in 1 .. n + 1 : a[p] = oe[p]
    <3>1. \A p \in 1 .. n + 1 : p \in 1 .. n + 2 /\ p <= n + 1  BY <1>2
    <3> QED BY <2>2, <2>5, <3>1
  <2>7. a[n + 2] = s[1]
    <3>1. n + 2 \in 1 .. n + 2 /\ ~(n + 2 <= n + 1) /\ (n + 2) - (n + 1) = 1  BY <1>2
    <3> QED BY <2>2, <2>5, <3>1
  <2>8. a[n + 1] = e[1] /\ \A p \in 1 .. n : a[p] = c.options[p]
    <3>1. n + 1 \in 1 .. n + 1 /\ \A p \in 1 .. n : p \in 1 .. n + 1  BY <1>2
    <3> QED BY <1>8, <2>6, <3>1
  <2>9. Len(a) >= n + 2  BY <1>2, <2>3
  <2> QED BY <1>2, <1>5, <1>6, <1>10, <2>1, <2>3, <2>4, <2>7, <2>8, <2>9 DEF n, f
<1> QED BY <1>9, <1>10

\* A position behind all others is their maximum.
LEMMA MaxLast ==
  ASSUME NEW S \in SUBSET Nat, NEW p \in Nat, \A x \in S : x < p
  PROVE  Max(S \cup {p}) = p
<1>1. Max(S \cup {p}) \in S \cup {p} /\ \A y \in S \cup {p} : y <= Max(S \cup {p})
  <2>1. S \cup {p} \in SUBSET Nat /\ S \cup {p} # {} /\ \A x \in S \cup {p} : x <= p
    OBVIOUS
  <2> QED BY <2>1, MaxNat
<1> DEFINE m == Max(S \cup {p})
<1>2. p <= m /\ m \in S \cup {p}  BY <1>1
<1> HIDE DEF m
<1>3. m = p  BY <1>2
<1> QED BY <1>3 DEF m

\* An option of the grammar does to the parameters what it means.
LEMMA MeantNext ==
  ASSUME NEW c \in Commands, NEW S \in SUBSET Nat, NEW p \in 1 .. Len(c.options),
         \A x \in S : x < p,
         NEW old \in Parameters, NEW new \in Parameters, Meant(c, S, old),
         LET o == c.options[p].text
         IN /\ new.hosted <=> old.hosted \/ o = "-hosted"
            /\ new.wram = IF o = "-wram" THEN c.options[p + 1].num ELSE old.wram
            /\ new.entry = IF o = "-entry-point" THEN c.options[p + 1].text ELSE old.entry
  PROVE  Meant(c, S \cup {p}, new)
<1>1. p \in Nat /\ p <= Len(c.options)  BY RenderParts
<1>2. \A o : Uses(c, S, o) \in SUBSET Nat /\ \A x \in Uses(c, S, o) : x < p  BY DEF Uses
<1>3. \A o : Uses(c, S \cup {p}, o) =
               Uses(c, S, o) \cup (IF c.options[p].text = o THEN {p} ELSE {})
  <2> TAKE o
  <2> QED BY <1>1 DEF Uses
<1>4. \A o : c.options[p].text = o => Max(Uses(c, S \cup {p}, o)) = p /\ Uses(c, S \cup {p}, o) # {}
  <2> TAKE o
  <2> HAVE c.options[p].text = o
  <2>1. Uses(c, S \cup {p}, o) = Uses(c, S, o) \cup {p}  BY <1>3
  <2> QED BY <1>1, <1>2, <2>1, MaxLast
<1>5. \A o : c.options[p].text # o => Uses(c, S \cup {p}, o) = Uses(c, S, o)
  <2> TAKE o
  <2> HAVE c.options[p].text # o
  <2>1. Uses(c, S \cup {p}, o) = Uses(c, S, o) \cup {}  BY <1>3
  <2> QED BY <2>1
<1>6. new.hosted <=> Uses(c, S \cup {p}, "-hosted") # {}
  BY <1>4, <1>5 DEF Meant
<1>7. LET u == Uses(c, S \cup {p}, "-wram")
      IN new.wram = IF u = {} THEN DefaultWram ELSE c.options[Max(u) + 1].num
  BY <1>4, <1>5 DEF Meant
<1>8. LET u == Uses(c, S \cup {p}, "-entry-point")
      IN new.entry = IF u = {} THEN "main" ELSE c.options[Max(u) + 1].text
  BY <1>4, <1>5 DEF Meant
<1> QED BY <1>6, <1>7, <1>8 DEF Meant

\* The same of the command line there is.
LEMMA ArgsParts ==
  ASSUME TypeOK, asked \in Commands, args = Render(asked)
  PROVE  /\ Len(asked.options) \in Nat /\ Len(args) \in Nat /\ k \in Nat \ {0}
         /\ \A p \in 1 .. Len(asked.options) : args[p] = asked.options[p]
         /\ args[Len(asked.options) + 1].text = asked.exe
         /\ Len(args) >= Len(asked.options) + 1
         /\ asked.forwarded = <<>> => Len(args) = Len(asked.options) + 1
         /\ asked.forwarded # <<>> =>
              /\ Len(args) >= Len(asked.options) + 2 /\ args[Len(asked.options) + 2].text = Sep
              /\ SubSeq(args, Len(asked.options) + 3, Len(args)) = asked.forwarded
<1> DEFINE n == Len(asked.options)
<1>1. /\ n \in Nat /\ args[n + 1].text = asked.exe
      /\ \A p \in 1 .. n : args[p] = asked.options[p]
      /\ asked.forwarded = <<>> => Len(args) = n + 1
      /\ asked.forwarded # <<>> =>
           /\ Len(args) >= n + 2 /\ args[n + 2].text = Sep
           /\ SubSeq(args, n + 3, Len(args)) = asked.forwarded
  BY RenderParts
<1>2. Len(args) \in Nat /\ k \in Nat \ {0}  BY DEF TypeOK
<1> HIDE DEF n
<1>3. Len(args) >= n + 1
  <2>1. CASE asked.forwarded = <<>>  BY <1>1, <1>2, <2>1
  <2>2. CASE asked.forwarded # <<>>
    <3>1. Len(args) >= n + 2 /\ n \in Nat  BY <1>1, <2>2
    <3> QED BY <3>1, <1>2
  <2> QED BY <2>1, <2>2
<1> QED BY <1>1, <1>2, <1>3 DEF n

\* The options before a position, the next of which stands at k.
LEMMA UptoNext ==
  ASSUME NEW S \in SUBSET Nat, NEW q \in Nat, NEW d \in {1, 2}, q \in S,
         d = 2 => q + 1 \notin S
  PROVE  {p \in S : p < q + d} = {p \in S : p < q} \cup {q}
<1>1. \A p \in Nat : p < q + 1 <=> p < q \/ p = q  OBVIOUS
<1>2. \A p \in Nat : p < q + 2 <=> p < q \/ p = q \/ p = q + 1  OBVIOUS
<1>3. CASE d = 1
  <2>1. \A p \in S : p < q + d <=> p < q \/ p = q  BY <1>1, <1>3
  <2> QED BY <2>1
<1>4. CASE d = 2
  <2>1. \A p \in S : p < q + d <=> p < q \/ p = q  BY <1>2, <1>4
  <2> QED BY <2>1
<1> QED BY <1>3, <1>4

\* While parse_args reads on, the text of the token decides what it does.
LEMMA TokenTaken ==
  ASSUME ParseArgs, step' = "args"
  PROVE  /\ k <= Len(args)
         /\ \/ \E o \in ValueOptions : Arg.text = o /\ ParseValue(o)
            \/ Arg.text = "-entry-point" /\ ParseEntryPoint
            \/ Arg.text = "-hosted" /\ ParseHosted
            \/ Arg.text = Sep /\ ParseSeparator
            \/ Arg.text \notin Reserved /\ ParseName
<1>1. CASE \E o \in ValueOptions : ParseValue(o)
  BY <1>1 DEF ParseValue, Parsing
<1>2. CASE \E o \in ValueOptions : NoValue(o)
  BY <1>2 DEF NoValue, Panic
<1>3. CASE ParseEntryPoint
  BY <1>3 DEF ParseEntryPoint, Parsing
<1>4. CASE ParseHosted
  BY <1>4 DEF ParseHosted, Parsing
<1>5. CASE ParseSeparator
  BY <1>5 DEF ParseSeparator, Parsing
<1>6. CASE ParseName
  BY <1>6 DEF ParseName
<1>7. CASE ArgsParsed \/ MissingExecutable
  BY <1>7 DEF ArgsParsed, MissingExecutable, Panic
<1> QED BY <1>1, <1>2, <1>3, <1>4, <1>5, <1>6, <1>7 DEF ParseArgs

\* A token of the command line that parse_args takes as option, executable or
\* separator brings it to the next one.
LEMMA ReadOption ==
  ASSUME TypeOK, TypeOK', asked \in Commands, args = Render(asked),
         NEW S \in SUBSET (1 .. Len(asked.options) + 1), Grammar(asked, S),
         k \in S, k <= Len(asked.options),
         Meant(asked, Upto(S), par), par.forwarded = <<>>,
         ParseArgs, step = "args", step' = "args", UNCHANGED <<asked, args>>
  PROVE  ReadSoFar(S)'
<1> DEFINE n == Len(asked.options)
           o == asked.options[k].text
<1>1. /\ n \in Nat /\ k \in 1 .. n /\ args[k] = asked.options[k] /\ S \in SUBSET Nat
      /\ \A p \in 1 .. n : args[p] = asked.options[p]
      /\ Len(args) >= n + 1 /\ Len(args) \in Nat /\ k \in Nat
  BY ArgsParts
<1>2. Parameters = Parameters' /\ par \in Parameters /\ par' \in Parameters
  BY DEF TypeOK, Parameters
<1>3. \/ o = "-hosted" /\ k + 1 \in S
      \/ /\ o \in ValueOptions \cup {"-entry-point"}
         /\ k + 1 \notin S /\ k + 2 \in S
  BY <1>1 DEF Grammar
<1>4. Upto(S) \in SUBSET Nat /\ \A x \in Upto(S) : x < k  BY <1>1 DEF Upto
<1>5. \A d \in {1, 2} : (d = 2 => k + 1 \notin S) /\ k' = k + d => Upto(S)' = Upto(S) \cup {k}
  <2> SUFFICES ASSUME NEW d \in {1, 2}, d = 2 => k + 1 \notin S, k' = k + d
               PROVE  Upto(S)' = Upto(S) \cup {k}
    OBVIOUS
  <2>1. {p \in S : p < k + d} = {p \in S : p < k} \cup {k}  BY <1>1, UptoNext
  <2> QED BY <2>1 DEF Upto
<1>6. ASSUME NEW d \in {1, 2}, k' = k + d, k + d \in S, d = 2 => k + 1 \notin S,
             par'.forwarded = par.forwarded,
             par'.hosted <=> par.hosted \/ o = "-hosted",
             par'.wram = IF o = "-wram" THEN asked.options[k + 1].num ELSE par.wram,
             par'.entry = IF o = "-entry-point" THEN asked.options[k + 1].text ELSE par.entry
      PROVE  ReadSoFar(S)'
  <2>1. Meant(asked, Upto(S) \cup {k}, par')  BY <1>1, <1>2, <1>4, <1>6, MeantNext
  <2>2. Upto(S)' = Upto(S) \cup {k}  BY <1>5, <1>6
  <2>3. Meant(asked, Upto(S), par)'  BY <2>1, <2>2 DEF Meant, Uses
  <2> QED BY <1>6, <2>3 DEF ReadSoFar
<1>7. Arg.text = o /\ k <= Len(args)  BY <1>1 DEF Arg
<1>8. CASE o = "-hosted"
  <2>1. ParseHosted
    BY <1>7, <1>8, TokenTaken DEF Reserved, ValueOptions, Sep
  <2>2. k' = k + 1 /\ par' = [par EXCEPT !.hosted = TRUE]  BY <2>1 DEF ParseHosted, Parsed
  <2> QED BY <1>2, <1>3, <1>6, <1>8, <2>2 DEF ValueOptions, Parameters
<1>9. CASE o = "-entry-point"
  <2>1. ParseEntryPoint
    BY <1>7, <1>9, TokenTaken DEF Reserved, ValueOptions, Sep
  <2>2. k' = k + 2 /\ par' = [par EXCEPT !.entry = args[k + 1].text]
    BY <2>1 DEF ParseEntryPoint, Parsed, Panic
  <2>3. k + 1 \notin S /\ k + 2 \in S  BY <1>3, <1>9
  <2>4. args[k + 1] = asked.options[k + 1]  BY <1>1, <2>3
  <2> QED BY <1>2, <1>6, <1>9, <2>2, <2>3, <2>4 DEF Parameters
<1>10. CASE o \in ValueOptions
  <2>1. ParseValue(o)
    BY <1>7, <1>10, TokenTaken DEF Reserved, ValueOptions, Sep
  <2>2. k' = k + 2 /\ par' = IF o = "-wram" THEN [par EXCEPT !.wram = args[k + 1].num] ELSE par
    BY <2>1 DEF ParseValue, Parsed
  <2>3. k + 1 \notin S /\ k + 2 \in S  BY <1>3, <1>10 DEF ValueOptions
  <2>4. args[k + 1] = asked.options[k + 1]  BY <1>1, <2>3
  <2>5. o # "-hosted" /\ o # "-entry-point"  BY <1>10 DEF ValueOptions
  <2> QED BY <1>2, <1>6, <2>2, <2>3, <2>4, <2>5 DEF Parameters
<1> QED BY <1>3, <1>8, <1>9, <1>10

\* The executable, and the separator behind it.
LEMMA ReadRest ==
  ASSUME TypeOK, TypeOK', asked \in Commands, args = Render(asked),
         NEW S \in SUBSET (1 .. Len(asked.options) + 1), Grammar(asked, S),
         ReadSoFar(S), k \in S => k = Len(asked.options) + 1,
         ParseArgs, step = "args", step' = "args", UNCHANGED <<asked, args>>
  PROVE  ReadSoFar(S)'
<1> DEFINE n == Len(asked.options)
<1>1. /\ n \in Nat /\ args[n + 1].text = asked.exe /\ k \in Nat \ {0}
      /\ Len(args) >= n + 1 /\ Len(args) \in Nat
      /\ asked.forwarded = <<>> => Len(args) = n + 1
      /\ asked.forwarded # <<>> =>
           /\ Len(args) >= n + 2 /\ args[n + 2].text = Sep
           /\ SubSeq(args, n + 3, Len(args)) = asked.forwarded
  BY ArgsParts
<1>2. par \in Parameters /\ par' \in Parameters  BY DEF TypeOK, Parameters
<1>3. k <= Len(args)  BY TokenTaken
<1>4. CASE k \in S
  <2>1. k = n + 1  BY <1>4
  <2>2. Meant(asked, Upto(S), par) /\ par.forwarded = <<>>
    BY <1>1, <2>1 DEF ReadSoFar
  <2>3. asked.exe \notin Reserved  BY CommandAssumption
  <2>4. ParseName
    BY <1>1, <2>1, <2>3, TokenTaken DEF Reserved, Arg
  <2>5. k' = n + 2 /\ par' = [par EXCEPT !.exe = args[n + 1].text, !.exeLen = args[n + 1].len]
    BY <1>1, <2>1, <2>4 DEF ParseName, Parsed, Arg
  <2>6. /\ par'.exe = asked.exe /\ par'.forwarded = <<>> /\ par'.hosted = par.hosted
        /\ par'.wram = par.wram /\ par'.entry = par.entry
    BY <1>1, <1>2, <2>2, <2>5 DEF Parameters
  <2>7. \A o : Uses(asked, Upto(S), o) = Uses(asked, S, o)
    <3>1. \A p \in S : p <= n <=> p < k  BY <1>1, <2>1
    <3> QED BY <3>1 DEF Uses, Upto
  <2>8. Meant(asked, S, par)  BY <2>2, <2>7 DEF Meant
  <2>9. Meant(asked, S, par)'  BY <2>6, <2>8 DEF Meant, Uses
  <2> QED BY <2>5, <2>6, <2>9 DEF ReadSoFar
<1>5. CASE k \notin S
  <2>1. k = n + 2 /\ Meant(asked, S, par) /\ asked.forwarded # <<>>
    BY <1>1, <1>3, <1>5 DEF ReadSoFar
  <2>2. ParseSeparator
    BY <1>1, <2>1, TokenTaken DEF Reserved, ValueOptions, Sep, Arg
  <2>3. k' = Len(args) + 1 /\ par'.forwarded = asked.forwarded /\ par'.exe = asked.exe
        /\ par'.hosted = par.hosted /\ par'.wram = par.wram /\ par'.entry = par.entry
    <3>1. k > 1 /\ k - 1 = n + 1 /\ k + 1 = n + 3  BY <1>1, <2>1
    <3>2. Forwarded = asked.forwarded  BY <1>1, <2>1, <3>1 DEF Forwarded
    <3>3. k' = k + (Len(args) + 1 - k)
          /\ par' = [[par EXCEPT !.forwarded = Forwarded]
                       EXCEPT !.exe = args[k - 1].text, !.exeLen = args[k - 1].len]
      BY <2>2, <3>1 DEF ParseSeparator, Parsed
    <3>4. k' = Len(args) + 1  BY <1>1, <3>3
    <3> QED BY <1>1, <1>2, <3>1, <3>2, <3>3, <3>4 DEF Parameters
  <2>4. Meant(asked, S, par)'  BY <2>1, <2>3 DEF Meant, Uses
  <2> QED BY <2>3, <2>4 DEF ReadSoFar
<1> QED BY <1>4, <1>5

\* When all tokens are read, the parameters are what was asked for.
LEMMA ReadAll ==
  ASSUME TypeOK, CommandInv, step = "args", asked # NoCommand, k > Len(args)
  PROVE  /\ par.exe = asked.exe /\ par.forwarded = asked.forwarded
         /\ par.hosted = asked.hosted /\ par.wram = asked.wram /\ par.entry = asked.entry
<1>1. asked \in Commands /\ args = Render(asked)  BY DEF CommandInv
<1>2. PICK S \in SUBSET (1 .. Len(asked.options) + 1) : Grammar(asked, S) /\ Meant(asked, S, asked)
  BY <1>1, CommandAssumption
<1>3. ReadSoFar(S)  BY <1>2 DEF CommandInv
<1>4. /\ Len(asked.options) \in Nat /\ Len(args) >= Len(asked.options) + 1 /\ Len(args) \in Nat
      /\ asked.forwarded # <<>> => Len(args) >= Len(asked.options) + 2
  BY <1>1, ArgsParts
<1>5. k \notin S /\ k \in Nat  BY <1>4 DEF TypeOK
<1>6. Meant(asked, S, par) /\ par.exe = asked.exe
  BY <1>3, <1>5 DEF ReadSoFar
<1>7. par.forwarded = asked.forwarded
  BY <1>3, <1>4, <1>5 DEF ReadSoFar
<1>8. par.hosted \in BOOLEAN /\ asked.hosted \in BOOLEAN
  BY <1>1, CommandAssumption DEF TypeOK, Parameters
<1>9. par.hosted <=> asked.hosted  BY <1>2, <1>6 DEF Meant
<1>10. par.wram = asked.wram /\ par.entry = asked.entry  BY <1>2, <1>6 DEF Meant
<1> QED BY <1>6, <1>7, <1>8, <1>9, <1>10

\* parse_args starts at the first option.
LEMMA InitCommand == Init => CommandInv
<1> SUFFICES ASSUME Init PROVE CommandInv  OBVIOUS
<1>1. asked # NoCommand => asked \in Commands /\ args = Render(asked)  BY DEF Init
<1>2. step = "args" /\ k = 1 /\ par = Defaults  BY DEF Init
<1>3. ASSUME asked # NoCommand, NEW S \in SUBSET (1 .. Len(asked.options) + 1), Grammar(asked, S)
      PROVE  ReadSoFar(S)
  <2>1. Upto(S) = {}
    <3>1. Len(asked.options) \in Nat  BY <1>1, <1>3, RenderParts
    <3>2. \A p \in S : ~(p < 1)  BY <3>1
    <3> QED BY <1>2, <3>2 DEF Upto
  <2>2. \A o : Uses(asked, {}, o) = {}  BY DEF Uses
  <2>3. Meant(asked, {}, par)  BY <1>2, <2>2 DEF Meant, Defaults
  <2> QED BY <1>2, <1>3, <2>1, <2>3 DEF ReadSoFar, Grammar, Defaults
<1> QED BY <1>1, <1>2, <1>3 DEF CommandInv, CommandHonoured

\* Every step keeps what has been read.
LEMMA NextCommand == TypeOK /\ TypeOK' /\ CommandInv /\ [Next]_lvars => CommandInv'
<1> SUFFICES ASSUME TypeOK, TypeOK', CommandInv, [Next]_lvars PROVE CommandInv'  OBVIOUS
<1>1. UNCHANGED <<asked, args>>
  BY DEF Next, lvars, ParseArgs, LoadFile, SetUpHost, ParseValue, NoValue, ParseEntryPoint, ParseHosted,
     ParseSeparator, ParseName, ArgsParsed, MissingExecutable, Parsed, Panic, OpenElf, BadEntryPoint, LoadRaw,
     LoadRawOutside, CannotOpen, SkipSection, LoadSection, LoadSectionOutside, SectionTooLong, SectionsLoaded,
     NoEntryPoint, SetupStack, NoRoomForStack, WriteEntryCode, WriteEntryCodeOutside, NoRoomForEntry, AddArgument, WriteArgv, BelowWram
<1>2. (asked # NoCommand => asked \in Commands /\ args = Render(asked))'
  BY <1>1 DEF CommandInv, NoCommand, Render
<1>3. CASE ParseArgs
  <2>1. CASE step' = "args"
    <3>1. step = "args"  BY <1>3 DEF ParseArgs, ParseValue, NoValue, ParseEntryPoint, ParseHosted,
            ParseSeparator, ParseName, ArgsParsed, MissingExecutable, Parsing
    <3>2. ASSUME asked # NoCommand, NEW S \in SUBSET (1 .. Len(asked.options) + 1), Grammar(asked, S)
          PROVE  ReadSoFar(S)'
      <4>1. asked \in Commands /\ args = Render(asked) /\ ReadSoFar(S)
        BY <3>1, <3>2 DEF CommandInv
      <4>2. Len(asked.options) \in Nat /\ k \in Nat  BY <4>1, ArgsParts
      <4>3. CASE k \in S /\ k <= Len(asked.options)
        <5>1. Meant(asked, Upto(S), par) /\ par.forwarded = <<>>
          <6>1. Len(args) >= Len(asked.options) + 1 /\ Len(args) \in Nat
            BY <4>1, ArgsParts
          <6> QED BY <4>1, <4>2, <4>3, <6>1 DEF ReadSoFar
        <5> QED BY <1>1, <1>3, <2>1, <3>1, <3>2, <4>1, <4>3, <5>1, ReadOption
      <4>4. CASE k \in S => k = Len(asked.options) + 1
        BY <1>1, <1>3, <2>1, <3>1, <3>2, <4>1, <4>4, ReadRest
      <4> QED BY <4>2, <4>3, <4>4
    <3>3. (\A S \in SUBSET (1 .. Len(asked.options) + 1) : Grammar(asked, S) => ReadSoFar(S))'
          \/ asked = NoCommand
      BY <1>1, <3>2 DEF Grammar
    <3> QED BY <1>1, <1>2, <2>1, <3>3 DEF CommandInv, CommandHonoured, NoCommand
  <2>2. CASE step' # "args"
    <3>1. step' = "panic" \/ ArgsParsed
      BY <1>3, <2>2 DEF ParseArgs, ParseValue, NoValue, ParseEntryPoint, ParseHosted, ParseSeparator,
         ParseName, MissingExecutable, Parsed, Parsing, Panic
    <3>2. CASE step' = "panic"  BY <1>2, <3>2 DEF CommandInv, CommandHonoured
    <3>3. CASE ArgsParsed
      <4>1. step = "args" /\ k > Len(args) /\ par' = par  BY <3>3 DEF ArgsParsed
      <4>2. CommandHonoured'  BY <1>1, <4>1, ReadAll DEF CommandHonoured, NoCommand
      <4> QED BY <1>2, <2>2, <4>2 DEF CommandInv
    <3> QED BY <3>1, <3>2, <3>3
  <2> QED BY <2>1, <2>2
<1>4. CASE LoadFile \/ SetUpHost \/ UNCHANGED lvars
  <2>1. /\ par' = par /\ (step = "args" => UNCHANGED lvars)
        /\ (step = "panic" => step' = "panic") /\ (step' = "args" => UNCHANGED lvars)
    BY <1>4 DEF lvars, LoadFile, SetUpHost, Panic, OpenElf, BadEntryPoint, LoadRaw,
       LoadRawOutside, CannotOpen, SkipSection, LoadSection, LoadSectionOutside, SectionTooLong, SectionsLoaded,
       NoEntryPoint, SetupStack, NoRoomForStack, WriteEntryCode, WriteEntryCodeOutside, NoRoomForEntry, AddArgument, WriteArgv, BelowWram, Loading
  <2>2. CASE UNCHANGED lvars
    BY <2>2 DEF lvars, CommandInv, CommandHonoured, ReadSoFar, Upto
  <2>3. CASE step' # "args" /\ step # "args"
    BY <1>1, <1>2, <2>1, <2>3 DEF CommandInv, CommandHonoured, NoCommand
  <2> QED BY <2>1, <2>2, <2>3
<1> QED BY <1>3, <1>4 DEF Next

\* A command line of the documented form is read as it was meant.
THEOREM CommandsHonoured == Spec => []CommandHonoured
<1>1. LoadInv => TypeOK  BY DEF LoadInv
<1>2. CommandInv => CommandHonoured  BY DEF CommandInv
<1> QED BY InitLoad, NextLoad, InitCommand, NextCommand, <1>1, <1>2, PTL DEF Spec

-----------------------------------------------------------------------------
(* Refusals.                                                               *)

\* Besides what is proved: load_sections has not overlooked a section with the
\* entry point, and only a hosted program gets a stack.
RefusalInv ==
  /\ step = "sections" =>
       found \/ \A j \in Allocated : j < k => ~Covers(file.sections[j], EntryPoint)
  /\ step \in {"stack", "entry"} => par.hosted
  /\ RefusedForCause

\* parse_args panics for want of a value or of the executable only.
LEMMA ParsePanics ==
  ASSUME ParseArgs, step' = "panic"
  PROVE  \/ k <= Len(args) /\ Arg.text \in ValueOptions /\ ~HasValue
         \/ k = Len(args) /\ Arg.text = "-entry-point"
         \/ k > Len(args) /\ par.exe = ""
<1>1. CASE \E o \in ValueOptions : ParseValue(o)
  BY <1>1 DEF ParseValue, Parsing, Parsed
<1>2. CASE \E o \in ValueOptions : NoValue(o)
  BY <1>2 DEF NoValue, Parsing
<1>3. CASE ParseEntryPoint
  BY <1>3 DEF ParseEntryPoint, Parsing, Parsed
<1>4. CASE ParseHosted \/ ParseSeparator \/ ParseName
  BY <1>4 DEF ParseHosted, ParseSeparator, ParseName, Parsing, Parsed
<1>5. CASE ArgsParsed
  BY <1>5 DEF ArgsParsed
<1>6. CASE MissingExecutable
  BY <1>6 DEF MissingExecutable
<1> QED BY <1>1, <1>2, <1>3, <1>4, <1>5, <1>6 DEF ParseArgs

\* A command line of the documented form is not refused.
LEMMA NeverRefused ==
  ASSUME TypeOK, CommandInv, step = "args", asked # NoCommand, ParseArgs
  PROVE  step' # "panic"
<1> SUFFICES ASSUME step' = "panic" PROVE FALSE  OBVIOUS
<1> DEFINE n == Len(asked.options)
<1>1. asked \in Commands /\ args = Render(asked)  BY DEF CommandInv
<1>2. PICK S \in SUBSET (1 .. Len(asked.options) + 1) : Grammar(asked, S) /\ Meant(asked, S, asked)
  BY <1>1, CommandAssumption
<1>3. ReadSoFar(S)  BY <1>2 DEF CommandInv
<1>4. /\ n \in Nat /\ Len(args) \in Nat /\ k \in Nat \ {0} /\ Len(args) >= n + 1
      /\ \A p \in 1 .. n : args[p] = asked.options[p]
      /\ args[n + 1].text = asked.exe
      /\ asked.forwarded = <<>> => Len(args) = n + 1
      /\ asked.forwarded # <<>> => args[n + 2].text = Sep
  BY <1>1, ArgsParts
<1>5. asked.exe \notin Reserved /\ asked.exe # ""  BY <1>1, CommandAssumption
<1>6. CASE k > Len(args)
  <2>1. par.exe = asked.exe  BY <1>6, ReadAll
  <2>2. ~(k <= Len(args)) /\ k # Len(args)  BY <1>4, <1>6
  <2> QED BY <1>5, <2>1, <2>2, ParsePanics
<1>7. CASE k <= Len(args) /\ k \in S /\ k <= n
  <2>1. k \in 1 .. n /\ k \in S \ {n + 1} /\ k # Len(args) /\ ~(k > Len(args))  BY <1>4, <1>7
  <2>2. Arg = asked.options[k]  BY <1>4, <2>1 DEF Arg
  <2>3. Arg.text \in ValueOptions /\ ~HasValue  BY <2>1, ParsePanics
  <2>4. asked.options[k + 1].num >= 0 /\ k + 2 \in S
    BY <1>2, <2>1, <2>2, <2>3 DEF Grammar, ValueOptions
  <2>5. k + 1 \in 1 .. n  BY <1>4, <2>1, <2>4
  <2>6. args[k + 1].num >= 0 /\ k < Len(args)  BY <1>4, <2>1, <2>4, <2>5
  <2> QED BY <2>3, <2>6 DEF HasValue
<1>8. CASE k <= Len(args) /\ k = n + 1
  <2>1. Arg.text = asked.exe  BY <1>4, <1>8 DEF Arg
  <2>2. ~(k > Len(args)) /\ k = n + 1  BY <1>4, <1>8
  <2> QED BY <1>5, <2>1, <2>2, ParsePanics DEF Reserved
<1>9. CASE k <= Len(args) /\ k \notin S
  <2>1. k = n + 2  BY <1>3, <1>4, <1>9 DEF ReadSoFar
  <2>2. asked.forwarded # <<>> /\ ~(k > Len(args))  BY <1>4, <1>9, <2>1
  <2>3. Arg.text = Sep  BY <1>4, <2>1, <2>2 DEF Arg
  <2> QED BY <2>2, <2>3, ParsePanics DEF Sep, ValueOptions
<1>10. k \in S => k <= n \/ k = n + 1  BY <1>4
<1> QED BY <1>4, <1>6, <1>7, <1>8, <1>9, <1>10

\* Nothing is refused before it is read.
LEMMA InitRefusal == Init => RefusalInv
BY DEF Init, RefusalInv, RefusedForCause

\* Every step refuses for cause.
LEMMA NextRefusal == TypeOK /\ CommandInv /\ RefusalInv /\ [Next]_lvars => RefusalInv'
<1> SUFFICES ASSUME TypeOK, CommandInv, RefusalInv, [Next]_lvars PROVE RefusalInv'  OBVIOUS
<1>1. CASE ParseArgs
  <2>1. step = "args" /\ step' \in {"args", "open", "panic"} /\ asked' = asked
    BY <1>1 DEF ParseArgs, ParseValue, NoValue, ParseEntryPoint, ParseHosted, ParseSeparator, ParseName,
       ArgsParsed, MissingExecutable, Parsed, Parsing, Panic
  <2>2. step' # "panic" \/ asked' = NoCommand  BY <1>1, <2>1, NeverRefused
  <2> QED BY <2>1, <2>2 DEF RefusalInv, RefusedForCause, NoCommand
<1>2. CASE LoadFile \/ SetUpHost \/ UNCHANGED lvars
  <2>1. par' = par /\ file' = file /\ asked' = asked
    BY <1>2 DEF lvars, LoadFile, SetUpHost, Panic, OpenElf, BadEntryPoint, LoadRaw,
       LoadRawOutside, CannotOpen, SkipSection, LoadSection, LoadSectionOutside, SectionTooLong, SectionsLoaded,
       NoEntryPoint, SetupStack, NoRoomForStack, WriteEntryCode, WriteEntryCodeOutside, NoRoomForEntry, AddArgument, WriteArgv, BelowWram
  <2>2. /\ Wram' = Wram /\ TotalEnd' = TotalEnd /\ StackEnd' = StackEnd /\ Allocated' = Allocated
        /\ IsElf' = IsElf /\ HasEntryPoint' = HasEntryPoint /\ EntryPoint' = EntryPoint
    BY <2>1, Frozen
  <2>3. ASSUME step' = "panic",
               step # "panic" => \/ ~IsElf \/ ~HasEntryPoint
                                 \/ Wram < IF par.hosted THEN StackEnd + EntryLen ELSE TotalEnd
                                 \/ \A j \in Allocated : ~Covers(file.sections[j], EntryPoint)
        PROVE  RefusalInv'
    BY <2>1, <2>2, <2>3 DEF RefusalInv, RefusedForCause, NoCommand, Covers
  <2>4. /\ TotalEnd \in Nat /\ StackEnd \in Nat /\ TotalEnd < StackEnd - StackSize /\ Wram \in Nat
        /\ \A j \in Allocated : End(j) <= TotalEnd
        /\ StackSize \in Nat /\ EntryLen \in Nat
    BY StackBehind, WramNat, LayoutAssumption
  <2>5. CASE SkipSection \/ LoadSection
    <3>1. /\ step = "sections" /\ step' = "sections" /\ k' = k + 1 /\ k \in Nat
          /\ found' <=> found \/ (Section.alloc /\ Covers(Section, EntryPoint))
          /\ k \in Allocated <=> Section.alloc
      <4>1. k \in DOMAIN file.sections
        BY <2>5, SectionsType DEF SkipSection, LoadSection, Loading, TypeOK
      <4>2. found' <=> found \/ (Section.alloc /\ Covers(Section, EntryPoint))
        <5>1. CASE SkipSection
          <6>1. ~Section.alloc /\ found' = found  BY <5>1 DEF SkipSection, image
          <6> QED BY <6>1
        <5>2. CASE LoadSection
          <6>1. Section.alloc /\ found' = (found \/ Covers(Section, EntryPoint))  BY <5>2 DEF LoadSection
          <6> QED BY <6>1, Zenon
        <5> QED BY <2>5, <5>1, <5>2
      <4> QED BY <2>5, <4>1, <4>2 DEF SkipSection, LoadSection, Loading, Allocated, Section, TypeOK
    <3>2. \A j \in Allocated : j \in Nat  BY SectionsType DEF Allocated
    <3>3. ASSUME ~found', NEW j \in Allocated, j < k + 1 PROVE ~Covers(file.sections[j], EntryPoint)
      <4>1. CASE j = k  BY <3>1, <3>3, <4>1 DEF Section
      <4>2. CASE j < k  BY <3>1, <3>3, <4>2 DEF RefusalInv
      <4> QED BY <3>1, <3>2, <3>3, <4>1, <4>2
    <3> QED BY <2>1, <2>2, <3>1, <3>3 DEF RefusalInv, RefusedForCause, Covers
  <2>6. CASE OpenElf
    <3>1. step' = "sections" /\ k' = 1  BY <2>6 DEF OpenElf
    <3>2. \A j \in Allocated' : ~(j < 1)  BY <2>2, SectionsType DEF Allocated
    <3> QED BY <3>1, <3>2 DEF RefusalInv, RefusedForCause
  <2>7. CASE BadEntryPoint \/ CannotOpen
    BY <2>3, <2>7 DEF BadEntryPoint, CannotOpen, Panic
  <2>8. CASE SectionTooLong
    <3>1. step' = "panic" /\ k \in Allocated /\ End(k) > Wram
      BY <2>8, SectionsType DEF SectionTooLong, Loading, Section, Allocated, End, Panic, TypeOK
    <3>2. End(k) \in Nat /\ End(k) <= TotalEnd  BY <2>4, <3>1, SectionsType DEF Allocated
    <3>3. Wram < TotalEnd /\ Wram < StackEnd + EntryLen  BY <2>4, <3>1, <3>2
    <3> QED BY <2>3, <3>1, <3>3
  <2>9. CASE NoEntryPoint
    <3>1. step' = "panic" /\ step = "sections" /\ k > Len(file.sections) /\ ~found
      BY <2>9 DEF NoEntryPoint, Panic
    <3>2. \A j \in Allocated : j < k  BY <3>1, SectionsType DEF Allocated, TypeOK
    <3> QED BY <2>3, <3>1, <3>2 DEF RefusalInv
  <2>10. CASE NoRoomForStack \/ NoRoomForEntry
    <3>1. step' = "panic" /\ step \in {"stack", "entry"} /\ (Wram < StackEnd \/ Wram < StackEnd + EntryLen)
      BY <2>10 DEF NoRoomForStack, NoRoomForEntry, Panic
    <3>2. par.hosted  BY <3>1 DEF RefusalInv
    <3>3. Wram < StackEnd + EntryLen  BY <2>4, <3>1
    <3> QED BY <2>3, <3>1, <3>2, <3>3
  <2>11. CASE SectionsLoaded
    BY <2>1, <2>11 DEF SectionsLoaded, RefusalInv, RefusedForCause
  <2>12. CASE SetupStack
    BY <2>1, <2>12 DEF SetupStack, RefusalInv, RefusedForCause
  <2>13. CASE \/ LoadRaw \/ LoadRawOutside \/ LoadSectionOutside
              \/ WriteEntryCode \/ WriteEntryCodeOutside \/ AddArgument \/ WriteArgv \/ BelowWram
    <3>1. step' \in {"argv", "done", "wild"}
      BY <2>13 DEF LoadRaw, LoadRawOutside, LoadSectionOutside, WriteEntryCode, WriteEntryCodeOutside,
         AddArgument, WriteArgv, BelowWram
    <3> QED BY <3>1 DEF RefusalInv, RefusedForCause
  <2>14. CASE UNCHANGED lvars
    <3>1. step' = step /\ k' = k /\ found' = found  BY <2>14 DEF lvars, image
    <3> QED BY <2>1, <2>2, <3>1 DEF RefusalInv, RefusedForCause, Covers, NoCommand
  <2> QED BY <1>2, <2>5, <2>6, <2>7, <2>8, <2>9, <2>10, <2>11, <2>12, <2>13, <2>14 DEF LoadFile, SetUpHost
<1> QED BY <1>1, <1>2 DEF Next

\* Start-up refuses a command of the documented form only for want of room or of
\* the entry point in the sections it loads.
THEOREM RefusalsCaused == Spec => []RefusedForCause
<1>1. LoadInv => TypeOK  BY DEF LoadInv
<1>2. RefusalInv => RefusedForCause  BY DEF RefusalInv
<1> QED BY InitLoad, NextLoad, InitCommand, NextCommand, InitRefusal, NextRefusal, <1>1, <1>2, PTL DEF Spec

=============================================================================
