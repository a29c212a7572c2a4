------------------------------- MODULE AxVliw --------------------------------
(***************************************************************************)
(* What the core of VM/altairx_v2 promises a compiler: a machine that      *)
(* executes one bundle per step, both instructions reading the registers   *)
(* and the memory as they were before the bundle.  A bundle whose second   *)
(* instruction depends on the first promises nothing about the data, since *)
(* resolving such conflicts is left to the compiler (README.md), but       *)
(* control still goes where the first instruction says.  Where a transfer  *)
(* to the bundle's own address goes is not promised either: the core does  *)
(* not carry it out (JumpLands of AxCoreVliw).                             *)
(***************************************************************************)
EXTENDS AxBundle

VARIABLES gpi, gpf, mdu, fr,    \* registers, without the zero registers
          pc, lr, br, lc, ir,
          mem,
          trap,                 \* a system call waits to be served
          stat                  \* "run", or why the machine stopped

data    == <<gpi, gpf, mdu, fr, mem>>
control == <<pc, lr, br, lc, ir>>
vars    == <<data, control, trap, stat>>

\* The state a bundle is entered in.
S == [gpi |-> gpi, gpf |-> gpf, mdu |-> mdu, fr |-> fr,
      pc |-> pc, lr |-> lr, br |-> br, lc |-> lc, ir |-> ir, mem |-> mem, trap |-> trap]

Ready == stat = "run" /\ ~trap
I1 == FirstAt(mem, pc)
I2 == SecondAt(mem, pc)
X  == ExtImm(I1, I2)

Transfer ==
  /\ pc' \in Pc /\ (Target(S, I1, I2) # pc => pc' = Target(S, I1, I2))
  /\ lr' = NextLr(S, I1)
  /\ ir' = NextIr(S, I1) /\ lc' = NextLc(S, I1)
  /\ trap' = Traps(I1)
  /\ UNCHANGED <<br, stat>>

\* One instruction, its immediate extended if a moveix follows.
Single ==
  /\ Ready /\ HasBundle(pc) /\ ~PairOf(I1, I2)
  /\ ~Faults(S, 0, I1, X)
  /\ gpi' = Over(gpi, GpiWrites(S, I1, X)) /\ gpf' = Over(gpf, GpfWrites(S, I1, X))
  /\ mdu' = Over(mdu, MduWrites(S, I1, X)) /\ fr' = FlagsAfter(S, I1, fr)
  /\ mem' = Over(mem, MemWrites(S, I1, X))
  /\ Transfer

\* Two independent instructions in parallel.
Pair ==
  /\ Ready /\ HasBundle(pc) /\ PairOf(I1, I2)
  /\ ~Faults(S, 0, I1, 0) /\ Independent(S, I1, I2) /\ ~Faults(S, 1, I2, 0)
  /\ gpi' = Over(Over(gpi, GpiWrites(S, I1, 0)), GpiWrites(S, I2, 0))
  /\ gpf' = Over(Over(gpf, GpfWrites(S, I1, 0)), GpfWrites(S, I2, 0))
  /\ mdu' = Over(mdu, MduWrites(S, I1, 0))
  /\ fr'  = FlagsAfter(S, I2, FlagsAfter(S, I1, fr))
  /\ mem' = Over(Over(mem, MemWrites(S, I1, 0)), MemWrites(S, I2, 0))
  /\ Transfer

\* Two dependent ones: the data they write may be anything.
Conflict ==
  /\ Ready /\ HasBundle(pc) /\ PairOf(I1, I2)
  /\ ~Faults(S, 0, I1, 0) /\ ~Independent(S, I1, I2)
  /\ gpi' \in [GReg -> Word] /\ \A r \in GReg \ {I1.a, I2.a} : gpi'[r] = gpi[r]
  /\ gpf' \in [GReg -> Word] /\ \A r \in GReg \ {I1.a, I2.a} : gpf'[r] = gpf[r]
  /\ mdu' = Over(mdu, MduWrites(S, I1, 0))
  /\ fr' \in Flags /\ (fr' # fr => AX_EXE_ALU_CMP \in {I1.op, I2.op})
  /\ mem' \in [Loc -> Cell]
  /\ mem' # mem => {I1.op, I2.op} \cap (StoreOps \cup FStoreOps) # {}
  /\ Transfer

Crash ==
  /\ Ready
  /\ \/ ~HasBundle(pc)
     \/ Faults(S, 0, I1, X)
     \/ PairOf(I1, I2) /\ (~Independent(S, I1, I2) \/ Faults(S, 1, I2, 0))
  /\ stat' \in {"abort", "wild"}
  /\ UNCHANGED <<data, control, trap>>

\* The host serves a system call through r1 and r2, or stops the machine.
Serve ==
  /\ stat = "run" /\ trap
  /\ \/ /\ gpi' \in [GReg -> Word] /\ \A r \in GReg \ {1, 2} : gpi'[r] = gpi[r]
        /\ trap' = FALSE /\ UNCHANGED stat
     \/ stat' \in {"exit", "wild"} /\ UNCHANGED <<gpi, trap>>
  /\ UNCHANGED <<gpf, mdu, fr, mem, control>>

Init ==
  /\ gpi = [r \in GReg |-> 0] /\ gpf = [r \in GReg |-> 0]
  /\ mdu = [r \in 0 .. 3 |-> 0] /\ fr = [z |-> FALSE, n |-> FALSE]
  /\ pc \in Pc /\ lr = 0 /\ br = 0 /\ lc = 0 /\ ir = 0
  /\ mem \in [Loc -> Cell]
  /\ trap = FALSE /\ stat = "run"

Next == Single \/ Pair \/ Conflict \/ Crash \/ Serve

Spec == Init /\ [][Next]_vars

=============================================================================
