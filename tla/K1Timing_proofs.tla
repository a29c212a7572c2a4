---------------------------- MODULE K1Timing_proofs ----------------------------
(***************************************************************************)
(* Proofs about K1Timing, for any number of registers and any program:     *)
(* TypeOK is an invariant, no bundle is issued before what the table makes *)
(* it wait for is there, and the misses are those of a direct-mapped cache.*)
(*                                                                         *)
(* The third rests on MissInv: a tag stands for a line that was looked up  *)
(* or was there from the start, and without conflicts every line looked up *)
(* is still there.                                                         *)
(*                                                                         *)
(* The second rests on CountersSuffice: the time still to pass until a     *)
(* value is there is at most its counter, because a bundle takes one from  *)
(* the counter and at least one from the time.                             *)
(***************************************************************************)
EXTENDS K1Timing, FiniteSetTheorems, TLAPS

IndInv == TypeOK /\ CountersSuffice

-----------------------------------------------------------------------------
(* The register an opcode names first is a register.                       *)
LEMMA RegAType ==
  ASSUME NEW i \in Instr
  PROVE  RegA(i) \in Reg
  <1>1. i.a \in Reg /\ i.unit \in 0 .. 127
    BY DEF Instr
  <1>2. (i.unit \div 4) % 2 \in {0, 1}
    BY <1>1
  <1>3. {0, 1} \subseteq Reg
    BY TimingAssumption DEF Reg
  <1>. QED
    BY <1>1, <1>2, <1>3 DEF RegA

(* What an instruction waits for has a counter.                            *)
LEMMA WaitsType ==
  ASSUME NEW i \in Instr
  PROVE  Waits(i) \subseteq Res
  <1>1. i.b \in Reg /\ i.c \in Reg /\ RegA(i) \in Reg
    BY RegAType DEF Instr
  <1>2. \A r \in Reg : Ireg(r) \in Res /\ Vreg(r) \in Res
    BY DEF Ireg, Vreg, Res
  <1>3. Reads(i) \subseteq Res
    BY <1>1, <1>2, Zenon DEF Reads
  <1>4. Flag \in Res
    BY DEF Res
  <1>. QED
    BY <1>3, <1>4, Zenon DEF Waits

(* The latencies fit a counter.                                            *)
LEMMA LatencyType ==
  ASSUME NEW i \in Instr, NEW r
  PROVE  Latency(i, r) \in 3 .. 8
  BY DEF Latency, FlagCycle, AX_ALU_CYCLE, AX_FPU_CYCLE, AX_PQ_CYCLE

(* The counters of a bundle: each is a byte and lost at most one.          *)
LEMMA TickedType ==
  ASSUME NEW b \in [Res -> Byte]
  PROVE  /\ Ticked(b) \in [Res -> Byte]
         /\ \A r \in Res : b[r] - 1 <= Ticked(b)[r]
  BY DEF Ticked, Byte

-----------------------------------------------------------------------------
(* The initial state of AX_add_core satisfies the invariant.               *)
LEMMA InitIndInv == Init => IndInv
  <1>. SUFFICES ASSUME Init PROVE IndInv
    OBVIOUS
  <1>1. op \in Instr
    <2>1. 0 \in Reg
      BY TimingAssumption DEF Reg
    <2>. QED
      BY <2>1 DEF Init, NoOp, Instr
  <1>2. busy \in [Res -> Byte] /\ due = [r \in Res |-> 0]
    BY TimingAssumption DEF Init, Byte
  <1>3. due \in [Res -> Byte] /\ CountersSuffice
    BY <1>2 DEF CountersSuffice, Byte
  <1>4. 0 \in 0 .. TagMod - 1
    BY CacheAssumption
  <1>5. dcache \in [0 .. DSets - 1 -> 0 .. TagMod - 1]
    <2>1. dcache \in [0 .. DSets - 1 -> {0} \cup TagGarbage]
      BY DEF Init
    <2>2. {0} \cup TagGarbage \subseteq 0 .. TagMod - 1
      BY <1>4, CacheAssumption
    <2>. QED
      BY <2>1, <2>2
  <1>6. icache \in [0 .. ISets - 1 -> 0 .. TagMod - 1]
    BY <1>4 DEF Init
  <1>7. stall \in Byte /\ icachemiss \in Nat /\ dcachemiss \in Nat /\ bandwidth \in Nat
    BY DEF Init, Byte
  <1>. QED
    BY <1>1, <1>2, <1>3, <1>5, <1>6, <1>7 DEF Init, IndInv, TypeOK

(* A byte is a number.                                                     *)
LEMMA ByteNat == \A x \in Byte : x \in Nat
  BY DEF Byte

(* AX_Pipeline_stall keeps it, and waits long enough.                      *)
LEMMA StallStep ==
  ASSUME IndInv, NEW i \in Instr, AX_Pipeline_stall(i)
  PROVE  /\ IndInv'
         /\ \A r \in Waits(i) : due[r] <= 1 + stall'
  <1>. DEFINE left == Ticked(busy)
  <1>1. busy \in [Res -> Byte] /\ due \in [Res -> Byte] /\ \A r \in Res : due[r] <= busy[r]
    BY DEF IndInv, TypeOK, CountersSuffice
  <1>2. left \in [Res -> Byte] /\ \A r \in Res : busy[r] - 1 <= left[r]
    BY <1>1, TickedType
  <1>3. PICK clear \in {0} \cup {left[r] : r \in Waits(i)} :
           /\ \A r \in Waits(i) : left[r] <= clear
           /\ stall' = clear
           /\ busy' = [r \in Res |-> IF r \in Writes(i) THEN Latency(i, r) ELSE left[r]]
           /\ due' = [r \in Res |-> IF r \in Writes(i) THEN Latency(i, r)
                                    ELSE IF due[r] > 1 + clear THEN due[r] - (1 + clear) ELSE 0]
    BY DEF AX_Pipeline_stall
  <1>. HIDE DEF left
  <1>4. Waits(i) \subseteq Res
    BY WaitsType
  <1>5. clear \in Byte
    <2>1. CASE clear = 0
      BY <2>1 DEF Byte
    <2>2. CASE \E r \in Waits(i) : clear = left[r]
      BY <2>2, <1>2, <1>4
    <2>. QED
      BY <2>1, <2>2, <1>3
  <1>6. \A r : Latency(i, r) \in Byte
    BY LatencyType DEF Byte
  <1>7. busy' \in [Res -> Byte]
    BY <1>2, <1>3, <1>6
  <1>8. due' \in [Res -> Byte]
    <2>1. \A x, y \in Byte : (IF x > 1 + y THEN x - (1 + y) ELSE 0) \in Byte
      BY DEF Byte
    <2>2. \A r \in Res : (IF r \in Writes(i) THEN Latency(i, r)
                            ELSE IF due[r] > 1 + clear THEN due[r] - (1 + clear) ELSE 0) \in Byte
      BY <2>1, <1>1, <1>5, <1>6, Zenon
    <2>. QED
      BY <2>2, <1>3
  <1>9. \A r \in Res : due'[r] <= busy'[r]
    <2>. SUFFICES ASSUME NEW r \in Res PROVE due'[r] <= busy'[r]
      OBVIOUS
    <2>1. CASE r \in Writes(i)
      <3>1. due'[r] = Latency(i, r) /\ busy'[r] = Latency(i, r)
        BY <2>1, <1>3
      <3>. QED
        BY <3>1, <1>6 DEF Byte
    <2>2. CASE r \notin Writes(i)
      <3>1. busy'[r] = left[r]
        BY <2>2, <1>3
      <3>2. due'[r] = IF due[r] > 1 + clear THEN due[r] - (1 + clear) ELSE 0
        BY <2>2, <1>3
      <3>3. due[r] \in Nat /\ busy[r] \in Nat /\ left[r] \in Nat /\ clear \in Nat
        <4>1. due[r] \in Byte /\ busy[r] \in Byte /\ left[r] \in Byte
          BY <1>1, <1>2
        <4>. QED
          BY <4>1, <1>5, ByteNat
      <3>4. due[r] <= busy[r] /\ busy[r] - 1 <= left[r]
        BY <1>1, <1>2
      <3>. QED
        BY <3>1, <3>2, <3>3, <3>4
    <2>. QED
      BY <2>1, <2>2
  <1>10. \A r \in Waits(i) : due[r] <= 1 + stall'
    <2>. SUFFICES ASSUME NEW r \in Waits(i) PROVE due[r] <= 1 + stall'
      OBVIOUS
    <2>1. due[r] \in Nat /\ busy[r] \in Nat /\ left[r] \in Nat /\ clear \in Nat
      <3>1. due[r] \in Byte /\ busy[r] \in Byte /\ left[r] \in Byte
        BY <1>1, <1>2, <1>4
      <3>. QED
        BY <3>1, <1>5, ByteNat
    <2>2. due[r] <= busy[r] /\ busy[r] - 1 <= left[r] /\ left[r] <= clear
      BY <1>1, <1>2, <1>3, <1>4
    <2>. QED
      BY <2>1, <2>2, <1>3
  <1>11. TypeOK'
    <2>1. op' = i /\ phase' = "cache" /\ UNCHANGED <<program, caches, warm>>
      BY DEF AX_Pipeline_stall
    <2>2. UNCHANGED <<icache, dcache, icachemiss, dcachemiss, bandwidth>>
      BY <2>1 DEF caches
    <2>. QED
      BY <2>1, <2>2, <1>3, <1>5, <1>7, <1>8 DEF IndInv, TypeOK
  <1>. QED
    BY <1>9, <1>10, <1>11 DEF IndInv, CountersSuffice

(* Facts of arithmetic.                                                    *)
LEMMA DifferenceNat == \A x, y \in Nat : x <= y => y - x \in Nat
  OBVIOUS

(* A counter of misses grows by one.                                       *)
LEMMA IncrementNat == \A x \in Nat : x + 1 \in Nat /\ x <= x + 1 /\ x <= x
  OBVIOUS

(* A lookup keeps the tags in range and never lowers a count.              *)
LEMMA LookupType ==
  ASSUME TypeOK
  PROVE  /\ \A l \in 0 .. TagMod - 1 : LookupI(l) =>
              /\ icache' \in [0 .. ISets - 1 -> 0 .. TagMod - 1]
              /\ icachemiss' \in Nat /\ icachemiss <= icachemiss'
         /\ \A l \in Line : LookupD(l) =>
              /\ dcache' \in [0 .. DSets - 1 -> 0 .. TagMod - 1]
              /\ dcachemiss' \in Nat /\ dcachemiss <= dcachemiss'
  <1>1. ASSUME NEW l \in 0 .. TagMod - 1, LookupI(l)
        PROVE  /\ icache' \in [0 .. ISets - 1 -> 0 .. TagMod - 1]
               /\ icachemiss' \in Nat /\ icachemiss <= icachemiss'
    <2>1. icache' = [icache EXCEPT ![l % ISets] = l] /\ icache \in [0 .. ISets - 1 -> 0 .. TagMod - 1]
      BY <1>1 DEF LookupI, TypeOK
    <2>2. icachemiss \in Nat /\ icachemiss' \in {icachemiss, icachemiss + 1}
      BY <1>1 DEF LookupI, TypeOK
    <2>3. icachemiss' \in Nat /\ icachemiss <= icachemiss'
      BY <2>2, IncrementNat, Zenon
    <2>4. icache' \in [0 .. ISets - 1 -> 0 .. TagMod - 1]
      BY <2>1
    <2>. QED
      BY <2>3, <2>4
  <1>2. ASSUME NEW l \in Line, LookupD(l)
        PROVE  /\ dcache' \in [0 .. DSets - 1 -> 0 .. TagMod - 1]
               /\ dcachemiss' \in Nat /\ dcachemiss <= dcachemiss'
    <2>1. l % TagMod \in 0 .. TagMod - 1
      BY CacheAssumption DEF Line
    <2>2. /\ dcache' = [dcache EXCEPT ![Index(l)] = l % TagMod]
          /\ dcache \in [0 .. DSets - 1 -> 0 .. TagMod - 1]
      BY <1>2 DEF LookupD, TypeOK
    <2>3. dcachemiss \in Nat /\ dcachemiss' \in {dcachemiss, dcachemiss + 1}
      BY <1>2 DEF LookupD, TypeOK
    <2>4. dcachemiss' \in Nat /\ dcachemiss <= dcachemiss'
      BY <2>3, IncrementNat, Zenon
    <2>5. dcache' \in [0 .. DSets - 1 -> 0 .. TagMod - 1]
      BY <2>1, <2>2
    <2>. QED
      BY <2>4, <2>5
  <1>. QED
    BY <1>1, <1>2

(* A transfer leaves the bandwidth a natural number.                       *)
LEMMA TransferType ==
  ASSUME NEW n \in Nat, Transferred(n), bandwidth \in Nat,
         icachemiss \in Nat, icachemiss' \in Nat, icachemiss <= icachemiss',
         dcachemiss \in Nat, dcachemiss' \in Nat, dcachemiss <= dcachemiss'
  PROVE  bandwidth' \in Nat
  <1>. DEFINE x == icachemiss' - icachemiss
              y == dcachemiss' - dcachemiss
  <1>1. x \in Nat /\ y \in Nat
    BY DifferenceNat, Zenon
  <1>2. bandwidth' = bandwidth + 1024 * x + 128 * y + n
    BY DEF Transferred
  <1>. HIDE DEF x, y
  <1>. QED
    BY <1>1, <1>2

(* The pipeline is not touched by AX_Cache_miss.                           *)
LEMMA CacheKeeps ==
  ASSUME IndInv, UNCHANGED <<program, pipe, warm>>, phase' \in {"stall", "done"},
         icache' \in [0 .. ISets - 1 -> 0 .. TagMod - 1],
         dcache' \in [0 .. DSets - 1 -> 0 .. TagMod - 1],
         icachemiss' \in Nat, dcachemiss' \in Nat, bandwidth' \in Nat
  PROVE  IndInv'
  BY DEF IndInv, TypeOK, CountersSuffice, pipe

(* Every step of the loop keeps the invariant.                             *)
LEMMA NextIndInv ==
  ASSUME IndInv, [Next]_tvars
  PROVE  IndInv'
  <1>1. /\ icachemiss \in Nat /\ dcachemiss \in Nat /\ bandwidth \in Nat
        /\ icache \in [0 .. ISets - 1 -> 0 .. TagMod - 1]
        /\ dcache \in [0 .. DSets - 1 -> 0 .. TagMod - 1]
        /\ program.ops \subseteq Instr /\ program.pcs \subseteq 0 .. TagMod - 1
        /\ program.lines \subseteq Line /\ program.waits \subseteq Nat
    BY TimingAssumption, CacheAssumption DEF IndInv, TypeOK
  <1>2. TypeOK
    BY DEF IndInv
  <1>3. ASSUME NEW i \in program.ops, AX_Pipeline_stall(i) PROVE IndInv'
    BY <1>1, <1>3, StallStep
  <1>4. ASSUME NEW p \in program.pcs, NEW l \in program.lines, CacheAccess(p, l) PROVE IndInv'
    <2>1. /\ LookupI(p) /\ LookupD(l) /\ Transferred(0)
          /\ phase' = "stall" /\ UNCHANGED <<program, pipe, warm>>
      BY <1>4 DEF CacheAccess
    <2>2. /\ icache' \in [0 .. ISets - 1 -> 0 .. TagMod - 1]
          /\ icachemiss' \in Nat /\ icachemiss <= icachemiss'
      BY <1>1, <1>2, <2>1, LookupType
    <2>3. /\ dcache' \in [0 .. DSets - 1 -> 0 .. TagMod - 1]
          /\ dcachemiss' \in Nat /\ dcachemiss <= dcachemiss'
      BY <1>1, <1>2, <2>1, LookupType
    <2>4. bandwidth' \in Nat
      BY <1>1, <2>1, <2>2, <2>3, TransferType
    <2>. QED
      BY <2>1, <2>2, <2>3, <2>4, CacheKeeps
  <1>5. ASSUME NEW p \in program.pcs, NEW n \in Nat, LookupI(p), Transferred(n),
               UNCHANGED <<dcache, dcachemiss, lines>>,
               phase' = "stall", UNCHANGED <<program, pipe, warm>>
        PROVE  IndInv'
    <2>2. /\ icache' \in [0 .. ISets - 1 -> 0 .. TagMod - 1]
          /\ icachemiss' \in Nat /\ icachemiss <= icachemiss'
      BY <1>1, <1>2, <1>5, LookupType
    <2>3. dcache' = dcache /\ dcachemiss' = dcachemiss
      BY <1>5
    <2>4. bandwidth' \in Nat
      BY <1>1, <1>5, <2>2, <2>3, TransferType
    <2>. QED
      BY <1>1, <1>5, <2>2, <2>3, <2>4, CacheKeeps
  <1>6. ASSUME NEW p \in program.pcs, NEW n \in program.waits, CacheWait(p, n) PROVE IndInv'
    <2>1. 64 * n \in Nat
      BY <1>1
    <2>. QED
      BY <1>5, <1>6, <2>1 DEF CacheWait
  <1>7. ASSUME NEW p \in program.pcs, CacheOther(p) PROVE IndInv'
    BY <1>5, <1>7 DEF CacheOther
  <1>8. CASE Stop
    BY <1>1, <1>8, CacheKeeps DEF Stop, caches
  <1>9. CASE UNCHANGED tvars
    BY <1>9 DEF IndInv, TypeOK, CountersSuffice, tvars, pipe, caches
  <1>. QED
    BY <1>3, <1>4, <1>6, <1>7, <1>8, <1>9 DEF Next

-----------------------------------------------------------------------------
(* The counters of AX_Pipeline_stall are bytes and those of AX_Cache_miss  *)
(* natural numbers, the tags have 32 bits, and no counter of a register    *)
(* runs ahead of the time that has passed.                                 *)
THEOREM Invariance == Spec => []IndInv
  <1>1. IndInv /\ [Next]_tvars => IndInv'
    BY NextIndInv
  <1>. QED
    BY InitIndInv, <1>1, PTL DEF Spec

(* Every variable of the timing model keeps its type; in particular a      *)
(* stall is less than 256 cycles, the bound K1Core takes from here.        *)
THEOREM TypeCorrect == Spec => []TypeOK
  <1>1. IndInv => TypeOK
    BY DEF IndInv
  <1>. QED
    BY Invariance, <1>1, PTL

(* No bundle is issued before what it waits for is there.                  *)
THEOREM ReadsInTime == Spec => NoEarlyRead
  <1>1. IndInv /\ [Next]_tvars =>
          [phase = "stall" /\ phase' = "cache" => \A r \in Waits(op') : due[r] <= 1 + stall']_tvars
    <2>. SUFFICES ASSUME IndInv, Next, phase = "stall", phase' = "cache"
                  PROVE  \A r \in Waits(op') : due[r] <= 1 + stall'
      OBVIOUS
    <2>1. PICK i \in program.ops : AX_Pipeline_stall(i)
      BY DEF Next, CacheAccess, CacheWait, CacheOther, Stop
    <2>2. i \in Instr
      BY TimingAssumption DEF IndInv, TypeOK
    <2>3. op' = i
      BY <2>1 DEF AX_Pipeline_stall
    <2>. QED
      BY <2>1, <2>2, <2>3, StallStep
  <1>. QED
    BY Invariance, <1>1, PTL DEF Spec, NoEarlyRead

-----------------------------------------------------------------------------
(* The misses of a direct-mapped cache of n tags that has been looked up    *)
(* for the lines of s, among those of p: what it held at the start, w,      *)
(* explains every hit that is not a repetition.                            *)
MissInv(p, n, tag, s, w, m) ==
  /\ IsFiniteSet(s) /\ m \in Nat
  /\ \A l \in p : tag[l % n] = l => l \in s \cup w
  /\ Cardinality(s \ w) <= m
  /\ Apart(s, n) => /\ \A l \in s : tag[l % n] = l
                    /\ m <= Cardinality(s)

(* Looking a line up and replacing the tag.                                *)
LEMMA LookupMisses ==
  ASSUME NEW n \in Nat \ {0}, NEW R, NEW tag \in [0 .. n - 1 -> R],
         NEW p \in SUBSET Nat, NEW s \in SUBSET p, NEW w, NEW m, NEW l \in p,
         MissInv(p, n, tag, s, w, m)
  PROVE  MissInv(p, n, [tag EXCEPT ![l % n] = l], s \cup {l}, w,
                 m + (IF tag[l % n] # l THEN 1 ELSE 0))
  <1>. DEFINE t == [tag EXCEPT ![l % n] = l]
              u == s \cup {l}
              k == m + (IF tag[l % n] # l THEN 1 ELSE 0)
  <1>1. \A x \in p : x \in Nat /\ x % n \in 0 .. n - 1
    OBVIOUS
  <1>2. \A x \in p : t[x % n] = IF x % n = l % n THEN l ELSE tag[x % n]
    BY <1>1
  <1>3. IsFiniteSet(s) /\ m \in Nat /\ Cardinality(s) \in Nat
    BY FS_CardinalityType DEF MissInv
  <1>4. IsFiniteSet(u) /\ Cardinality(u) \in Nat
    BY <1>3, FS_AddElement, FS_CardinalityType
  <1>5. Cardinality(u) = IF l \in s THEN Cardinality(s) ELSE Cardinality(s) + 1
    BY <1>3, FS_AddElement
  <1>6. k \in Nat
    BY <1>3
  <1>7. \A x \in p : t[x % n] = x => x \in u \cup w
    BY <1>2 DEF MissInv
  <1>8. Cardinality(u \ w) <= k
    <2>. DEFINE a == s \ w
                b == u \ w
    <2>1. IsFiniteSet(a) /\ Cardinality(a) \in Nat /\ Cardinality(a) <= m
      BY <1>3, FS_Difference, FS_CardinalityType DEF MissInv
    <2>2. CASE tag[l % n] = l
      <3>1. b = a
        BY <2>2 DEF MissInv
      <3>2. k = m
        BY <1>3, <2>2
      <3>. QED
        BY <2>1, <3>1, <3>2
    <2>3. ASSUME tag[l % n] # l PROVE Cardinality(b) <= k
      <3>1. b \subseteq a \cup {l}
        OBVIOUS
      <3>2. k = m + 1
        BY <1>3, <2>3
      <3>. HIDE DEF a, b, k
      <3>3. /\ IsFiniteSet(a \cup {l})
            /\ Cardinality(a \cup {l}) = IF l \in a THEN Cardinality(a) ELSE Cardinality(a) + 1
        BY <2>1, FS_AddElement
      <3>4. Cardinality(a \cup {l}) \in Nat /\ Cardinality(a \cup {l}) <= Cardinality(a) + 1
        BY <2>1, <3>3
      <3>5. Cardinality(b) <= Cardinality(a \cup {l}) /\ Cardinality(b) \in Nat
        BY <3>1, <3>3, FS_Subset, FS_CardinalityType
      <3>. QED
        BY <1>3, <2>1, <3>2, <3>4, <3>5
    <2>. QED
      BY <2>2, <2>3
  <1>9. ASSUME Apart(u, n) PROVE (\A x \in u : t[x % n] = x) /\ k <= Cardinality(u)
    <2>1. Apart(s, n) /\ \A x \in s : x % n = l % n => x = l
      BY <1>9 DEF Apart
    <2>2. (\A x \in s : tag[x % n] = x) /\ m <= Cardinality(s)
      BY <2>1 DEF MissInv
    <2>3. \A x \in u : t[x % n] = x
      BY <1>2, <2>1, <2>2
    <2>4. k <= Cardinality(u)
      <3>1. CASE tag[l % n] = l
        BY <1>3, <1>5, <2>2, <3>1
      <3>2. CASE tag[l % n] # l
        <4>1. l \notin s
          BY <2>2, <3>2
        <4>. QED
          BY <1>3, <1>5, <2>2, <3>2, <4>1
      <3>. QED
        BY <3>1, <3>2
    <2>. QED
      BY <2>3, <2>4
  <1>. QED
    BY <1>4, <1>6, <1>7, <1>8, <1>9 DEF MissInv

(* The misses both caches have counted; lines whose tag does not fit are    *)
(* outside what MissesExplained says of the data cache.                    *)
CacheInv ==
  /\ pcs \subseteq program.pcs /\ lines \subseteq program.lines
  /\ MissInv(program.pcs, ISets, icache, pcs, {0}, icachemiss)
  /\ (\A l \in lines : l < TagMod) =>
       MissInv(program.lines, DSets, dcache, lines, warm, dcachemiss)

(* Nothing has been looked up, and what the data cache holds is warm.      *)
LEMMA InitCache == Init => CacheInv
  <1>. SUFFICES ASSUME Init PROVE CacheInv
    OBVIOUS
  <1>1. program.pcs \subseteq Nat /\ program.lines \subseteq Nat
    BY CacheAssumption DEF Init, Line
  <1>2. \A l \in Nat : l % ISets \in 0 .. ISets - 1
    BY CacheAssumption
  <1>3. \A l \in program.pcs : icache[l % ISets] = l => l \in {0}
    BY <1>1, <1>2 DEF Init
  <1>4. \A l \in program.lines : dcache[l % DSets] = l => l \in warm
    BY DEF Init, Index
  <1>5. \A n, w : {} \ w = {} /\ IsFiniteSet({}) /\ Cardinality({}) = 0 /\ Apart({}, n)
    BY FS_EmptySet DEF Apart
  <1>6. pcs = {} /\ lines = {} /\ icachemiss = 0 /\ dcachemiss = 0
    BY DEF Init
  <1>7. MissInv(program.pcs, ISets, icache, {}, {0}, 0)
    BY <1>3, <1>5 DEF MissInv
  <1>8. MissInv(program.lines, DSets, dcache, {}, warm, 0)
    BY <1>4, <1>5 DEF MissInv
  <1>. QED
    BY <1>6, <1>7, <1>8 DEF CacheInv

(* A lookup of the next pc, and of a line of data.                         *)
LEMMA StepCacheI ==
  ASSUME TypeOK, CacheInv, NEW p \in program.pcs, LookupI(p)
  PROVE  MissInv(program.pcs, ISets, icache', pcs', {0}, icachemiss')
  <1>1. program.pcs \in SUBSET Nat /\ pcs \in SUBSET program.pcs
    BY CacheAssumption DEF TypeOK, CacheInv
  <1>2. icache \in [0 .. ISets - 1 -> 0 .. TagMod - 1] /\ ISets \in Nat \ {0}
    BY CacheAssumption DEF TypeOK
  <1>. QED
    BY <1>1, <1>2, LookupMisses DEF LookupI, CacheInv

(* A data access keeps MissInv while no line is cut by the tag's width.    *)
LEMMA StepCacheD ==
  ASSUME TypeOK, CacheInv, NEW l \in program.lines, LookupD(l), \A x \in lines' : x < TagMod
  PROVE  MissInv(program.lines, DSets, dcache', lines', warm, dcachemiss')
  <1>1. program.lines \in SUBSET Nat /\ lines \in SUBSET program.lines
    BY CacheAssumption DEF TypeOK, CacheInv, Line
  <1>2. dcache \in [0 .. DSets - 1 -> 0 .. TagMod - 1] /\ DSets \in Nat \ {0}
    BY CacheAssumption DEF TypeOK
  <1>3. lines' = lines \cup {l} /\ l < TagMod
    BY DEF LookupD
  <1>4. l % TagMod = l
    <2>1. TagMod \in Nat \ {0} /\ l \in Nat
      BY <1>1, CacheAssumption
    <2>. QED
      BY <1>3, <2>1
  <1>5. MissInv(program.lines, DSets, dcache, lines, warm, dcachemiss)
    BY <1>3 DEF CacheInv
  <1>6. /\ dcache' = [dcache EXCEPT ![l % DSets] = l]
        /\ dcachemiss' = dcachemiss + (IF dcache[l % DSets] # l THEN 1 ELSE 0)
    BY <1>4 DEF LookupD, Index
  <1>7. MissInv(program.lines, DSets, [dcache EXCEPT ![l % DSets] = l], lines \cup {l}, warm,
                dcachemiss + (IF dcache[l % DSets] # l THEN 1 ELSE 0))
    BY <1>1, <1>2, <1>5, LookupMisses
  <1>. QED
    BY <1>3, <1>6, <1>7

(* Every step of the loop keeps it.                                        *)
LEMMA NextCache ==
  ASSUME TypeOK, CacheInv, [Next]_tvars
  PROVE  CacheInv'
  <1>1. ASSUME NEW p \in program.pcs, NEW l \in program.lines, CacheAccess(p, l) PROVE CacheInv'
    <2>1. /\ LookupI(p) /\ LookupD(l) /\ UNCHANGED <<program, warm>>
          /\ pcs' = pcs \cup {p} /\ lines' = lines \cup {l}
      BY <1>1 DEF CacheAccess, LookupI, LookupD
    <2>. QED
      BY <2>1, StepCacheI, StepCacheD DEF CacheInv
  <1>2. ASSUME NEW p \in program.pcs, LookupI(p), UNCHANGED <<dcache, dcachemiss, lines, program, warm>>
        PROVE  CacheInv'
    <2>1. pcs' = pcs \cup {p}
      BY <1>2 DEF LookupI
    <2>. QED
      BY <1>2, <2>1, StepCacheI DEF CacheInv
  <1>3. ASSUME UNCHANGED <<program, caches, warm>> PROVE CacheInv'
    BY <1>3 DEF CacheInv, caches
  <1>. QED
    BY <1>1, <1>2, <1>3 DEF Next, CacheWait, CacheOther, AX_Pipeline_stall, Stop, tvars

(* AX_Cache_miss counts the misses of a direct-mapped cache: at least one  *)
(* for every line that was not there at the start, and no more than one    *)
(* while the lines do not share a tag, for any number of tags and program. *)
THEOREM MissesCounted == Spec => []MissesExplained
  <1>1. TypeOK /\ CacheInv /\ [Next]_tvars => CacheInv'
    BY NextCache
  <1>2. CacheInv => MissesExplained
    BY DEF CacheInv, MissInv, MissesExplained
  <1>. QED
    BY InitCache, <1>1, <1>2, TypeCorrect, PTL DEF Spec

===============================================================================
