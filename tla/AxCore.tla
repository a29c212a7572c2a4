-------------------------------- MODULE AxCore --------------------------------
(***************************************************************************)
(* The AltairX core of VM/altairx_v2: the run loop of AltairX::run, which  *)
(* fetches a bundle of one or two opcodes from WRAM, executes it slot by   *)
(* slot and then emulates a pending system call on the host.               *)
(***************************************************************************)
EXTENDS AxISA

CONSTANTS
  CountMod,   \* 2^32: modulus of the counters cc and ic
  Images,     \* initial contents of the memory
  Entry,      \* initial values of pc
  Chars,      \* values getchar may return
  StartSets   \* sets of bundle addresses the alignment property is stated for

ASSUME CoreAssumption ==
  /\ CountMod \in Nat \ {0}
  /\ Images \subseteq [Loc -> Cell]
  /\ Entry \subseteq Pc
  /\ Chars \subseteq Word
  /\ StartSets \subseteq SUBSET Pc

VARIABLES
  gpi, gpf,   \* general purpose registers
  mdu,        \* MDU registers Q, QR, PL, PH
  fr,         \* flag register, only Z and N are ever written
  pc, lr, br, lc, ir,
  cc, ic,     \* cycle and instruction counters
  msys,       \* m_syscall
  mem,        \* the memories behind AxMemory
  op1, op2,   \* opcode1 and opcode2 of the bundle under execution
  old_pc,     \* pc when the bundle was entered
  pre,        \* history: the registers and the memory when it was entered
  phase,      \* where the run loop is
  status      \* "run", or why the process is no longer running

flow     == <<pc, lr, br, lc, ir>>
counters == <<cc, ic>>
latch    == <<op1, op2, old_pc, pre>>
vars == <<gpi, gpf, mdu, fr, flow, counters, msys, mem, latch, phase, status>>

-----------------------------------------------------------------------------
(* The bundle under execution.                                             *)

First  == Decode(op1)
Second == Decode(op2)
Paired == PairOf(First, Second)
Imm24  == ExtImm(First, Second)
BranchImm == Displacement(First, Second)

Op(slot) == IF slot = 0 THEN First ELSE Second
SlotPhase(slot) == IF slot = 0 THEN "slot0" ELSE "slot1"
Issued(slot) == status = "run" /\ phase = SlotPhase(slot)
SlotDone(slot) == phase' = IF slot = 0 /\ Paired THEN "slot1" ELSE "retire"

\* Mutant: the zero registers are not cleared.
Zeroed_Not(r) == r

\* execute_unit clears the zero registers before it dispatches.
Zeroed(r) == [r EXCEPT ![REG_ZERO] = 0]
ClearZeroRegs == gpi' = Zeroed(gpi) /\ gpf' = Zeroed(gpf)

\* The process is gone: nothing it still holds matters.
Stop(why) ==
  /\ status' = why
  /\ UNCHANGED <<gpi, gpf, mdu, fr, flow, counters, msys, mem, latch, phase>>

-----------------------------------------------------------------------------
(* AltairX::execute, first half: both opcodes are read before either is    *)
(* executed.  WRAM is indexed without a check: an index past its end reads *)
(* whatever the process has there.                                         *)

\* What a program can see; the zero registers are not part of it.
Visible(r) == [k \in Reg \ {REG_ZERO} |-> r[k]]
Snapshot ==
  [gpi |-> Visible(gpi), gpf |-> Visible(gpf), mdu |-> mdu, fr |-> fr,
   pc |-> pc, lr |-> lr, br |-> br, lc |-> lc, ir |-> ir, mem |-> mem,
   trap |-> msys = 1]
NoBundle == <<>>

Fetch ==
  /\ status = "run" /\ phase = "fetch"
  /\ HasBundle(pc)
  /\ op1' = mem[WramCell(pc % Half)]
  /\ op2' = mem[WramCell((pc % Half) + 1)]
  /\ old_pc' = pc /\ pre' = Snapshot
  /\ phase' = "slot0"
  /\ UNCHANGED <<gpi, gpf, mdu, fr, flow, counters, msys, mem, status>>

FetchOutside ==
  /\ status = "run" /\ phase = "fetch"
  /\ ~HasBundle(pc)
  /\ Stop("wild")

-----------------------------------------------------------------------------
(* execute_unit: one action per unit and kind of operation.  A slot 1      *)
(* instruction sees what slot 0 wrote.                                     *)

\* execute_alu, the operations that write a register; INS also reads it.
ExecuteAluResult(slot) ==
  LET i == Op(slot)
      r == Zeroed(gpi)
      v == IF i.op = AX_EXE_ALU_INS THEN r[i.a] ELSE r[i.c]
  IN /\ Issued(slot) /\ i.op \in AluResultOps
     /\ gpi' = [r EXCEPT ![i.a] = Alu(i, Imm24, r[i.b], v)]
     /\ gpf' = Zeroed(gpf)
     /\ SlotDone(slot)
     /\ UNCHANGED <<mdu, fr, flow, counters, msys, mem, latch, status>>

\* execute_alu, CMOVE and CMOVEN: the register is written or left alone.
ExecuteCmove(slot) ==
  LET i == Op(slot)
      r == Zeroed(gpi)
  IN /\ Issued(slot) /\ i.op \in {AX_EXE_ALU_CMOVE, AX_EXE_ALU_CMOVEN}
     /\ gpi' = IF Moves(i, Imm24, r[i.c])
               THEN [r EXCEPT ![i.a] = Alu(i, Imm24, r[i.b], r[i.c])] ELSE r
     /\ gpf' = Zeroed(gpf)
     /\ SlotDone(slot)
     /\ UNCHANGED <<mdu, fr, flow, counters, msys, mem, latch, status>>

\* execute_alu, CMP.
ExecuteCmp(slot) ==
  LET i == Op(slot)
      r == Zeroed(gpi)
  IN /\ Issued(slot) /\ i.op = AX_EXE_ALU_CMP
     /\ fr' = CmpFlags(r[i.b], r[i.c])
     /\ ClearZeroRegs
     /\ SlotDone(slot)
     /\ UNCHANGED <<mdu, flow, counters, msys, mem, latch, status>>

\* MOVEIX, and the LSU operations that have no case (LDC, STC, FLDC, FSTC).
ExecuteNop(slot) ==
  /\ Issued(slot) /\ Op(slot).op \in {0} \cup 44 .. 47
  /\ ClearZeroRegs
  /\ SlotDone(slot)
  /\ UNCHANGED <<mdu, fr, flow, counters, msys, mem, latch, status>>

\* execute_lsu.
AccessBase(i) == LET r == Zeroed(gpi) IN Map(Addr(i, Imm24, r[BaseReg(i)], r[i.c]))

ExecuteLoad(slot) ==
  LET i == Op(slot)
      l == AccessBase(i)
  IN /\ Issued(slot) /\ i.op \in LoadOps \cup FLoadOps
     /\ InRegion(i, l)
     /\ gpi' = IF i.op \in LoadOps
               THEN [Zeroed(gpi) EXCEPT ![i.a] = Loaded(i, l, mem, Zeroed(gpi)[i.a])]
               ELSE Zeroed(gpi)
     /\ gpf' = IF i.op \in FLoadOps
               THEN [Zeroed(gpf) EXCEPT ![i.a] = Loaded(i, l, mem, Zeroed(gpf)[i.a])]
               ELSE Zeroed(gpf)
     /\ SlotDone(slot)
     /\ UNCHANGED <<mdu, fr, flow, counters, msys, mem, latch, status>>

ExecuteStore(slot) ==
  LET i == Op(slot)
      l == AccessBase(i)
      v == IF i.op \in StoreOps THEN Zeroed(gpi)[i.a] ELSE Zeroed(gpf)[i.a]
  IN /\ Issued(slot) /\ i.op \in StoreOps \cup FStoreOps
     /\ InRegion(i, l)
     /\ mem' = Stored(i, l, mem, v)
     /\ ClearZeroRegs
     /\ SlotDone(slot)
     /\ UNCHANGED <<mdu, fr, flow, counters, msys, latch, status>>

AccessOutside(slot) ==
  /\ Issued(slot) /\ Op(slot).op \in 32 .. 43
  /\ ~InRegion(Op(slot), AccessBase(Op(slot)))
  /\ Stop("wild")

\* execute_mdu (slot 0 only): DIV is DIVU and MUL is MULU.
Divisor == Src2(First, Imm24, Zeroed(gpi)[First.c])

ExecuteDivMul ==
  LET i == First
      u == Zeroed(gpi)[i.b]
  IN /\ Issued(0) /\ i.op \in DivOps \cup MulOps
     /\ i.op \in DivOps => Divisor # 0
     /\ mdu' = IF i.op \in DivOps
               THEN [mdu EXCEPT ![0] = (u \div Divisor) % SizeMod(i),
                                ![1] = (u % Divisor) % SizeMod(i)]
               ELSE [mdu EXCEPT ![2] = (u * Divisor) % SizeMod(i)]
     /\ ClearZeroRegs
     /\ SlotDone(0)
     /\ UNCHANGED <<fr, flow, counters, msys, mem, latch, status>>

DivideByZero ==
  /\ Issued(0) /\ First.op \in DivOps
  /\ Divisor = 0
  /\ Stop("wild")

ExecuteMduMove ==
  LET i == First
      r == Zeroed(gpi)
  IN /\ Issued(0) /\ i.op \in {AX_EXE_MDU_MOVETO, AX_EXE_MDU_MOVEFROM}
     /\ gpi' = IF i.op = AX_EXE_MDU_MOVETO THEN [r EXCEPT ![i.a] = mdu[i.pq]] ELSE r
     /\ mdu' = IF i.op = AX_EXE_MDU_MOVEFROM THEN [mdu EXCEPT ![i.pq] = r[i.b]] ELSE mdu
     /\ gpf' = Zeroed(gpf)
     /\ SlotDone(0)
     /\ UNCHANGED <<fr, flow, counters, msys, mem, latch, status>>

-----------------------------------------------------------------------------
(* execute_bru (slot 0 only).                                              *)

ExecuteBranch ==
  /\ Issued(0) /\ First.op \in BranchOps
  /\ pc' = IF Taken(First.op, fr, lc) THEN PcAdd(pc, BranchImm) ELSE pc
  /\ lc' = IF First.op = AX_EXE_BRU_LOOP /\ lc # 0 THEN lc - 1 ELSE lc
  /\ ClearZeroRegs
  /\ SlotDone(0)
  /\ UNCHANGED <<mdu, fr, lr, br, ir, counters, msys, mem, latch, status>>

ExecuteJump ==
  /\ Issued(0) /\ First.op = AX_EXE_BRU_JUMP
  /\ pc' = PcAdd(0, BranchImm)
  /\ ClearZeroRegs
  /\ SlotDone(0)
  /\ UNCHANGED <<mdu, fr, lr, br, lc, ir, counters, msys, mem, latch, status>>

\* Mutant: the package bit is not counted in lr.
ReturnAddress_OneWord == PcAdd(pc, 1)

ReturnAddress == PcAdd(pc, BundleSize(First))

ExecuteCall ==
  /\ Issued(0) /\ First.op \in {AX_EXE_BRU_CALL, AX_EXE_BRU_CALLR}
  /\ lr' = ReturnAddress
  /\ pc' = PcAdd(IF First.op = AX_EXE_BRU_CALL THEN 0 ELSE pc, BranchImm)
  /\ ClearZeroRegs
  /\ SlotDone(0)
  /\ UNCHANGED <<mdu, fr, br, lc, ir, counters, msys, mem, latch, status>>

\* execute_bru_other: JUMPBR, RET and RETI.
ExecuteReturn ==
  /\ Issued(0) /\ First.op = AX_EXE_BRU_OTHER
  /\ \/ First.other = JUMPBR_ID /\ pc' = br
     \/ First.other = RET_ID    /\ pc' = lr
     \/ First.other = RETI_ID   /\ pc' = ir
  /\ ClearZeroRegs
  /\ SlotDone(0)
  /\ UNCHANGED <<mdu, fr, lr, br, lc, ir, counters, msys, mem, latch, status>>

ExecuteSyscall ==
  /\ Issued(0) /\ First.op = AX_EXE_BRU_OTHER /\ First.other = SYSCALL_ID
  /\ ir' = pc
  /\ pc' = TrapVector
  /\ msys' = 1
  /\ ClearZeroRegs
  /\ SlotDone(0)
  /\ UNCHANGED <<mdu, fr, lr, br, lc, counters, mem, latch, status>>

AssertFails(slot) ==
  /\ Issued(slot)
  /\ ~Executable(slot, Op(slot))
  /\ Stop("abort")

-----------------------------------------------------------------------------
(* AltairX::execute, second half: a bundle that left pc alone moves it past *)
(* its words; one that changed pc counts no instruction.                    *)

Count == IF pc # old_pc THEN 0 ELSE BundleSize(First)

Retire ==
  /\ status = "run" /\ phase = "retire"
  /\ cc' = (cc + 1) % CountMod
  /\ ic' = (ic + Count) % CountMod
  /\ pc' = PcAdd(pc, Count)
  /\ phase' = "emul"
  /\ pre' = NoBundle
  /\ UNCHANGED <<gpi, gpf, mdu, fr, lr, br, lc, ir, msys, mem, op1, op2, old_pc, status>>

-----------------------------------------------------------------------------
(* syscall_emul: the host serves a pending call, chosen by r1; execution   *)
(* goes on wherever pc points, the trap vector.                            *)

KernelCall == gpi[1] % 256
Serving == status = "run" /\ phase = "emul" /\ msys = 1
\* Mutant: m_syscall is not reset.
EmulDone_KeepCall ==
  /\ phase' = "fetch"
  /\ UNCHANGED <<msys, gpf, mdu, fr, flow, counters, mem, latch, status>>

EmulDone ==
  /\ phase' = "fetch"
  /\ msys' = 0
  /\ UNCHANGED <<gpf, mdu, fr, flow, counters, mem, latch, status>>

NoSyscall ==
  /\ status = "run" /\ phase = "emul" /\ msys = 0
  /\ EmulDone /\ UNCHANGED gpi

\* puts reads from the mapped address up to the next NUL.
Terminated(l) == \E c \in Loc : c[1] = l[1] /\ c[2] >= l[2] /\ mem[c] = 0

SysPuts ==
  /\ Serving /\ KernelCall = 1
  /\ \/ Terminated(Map(gpi[2])) /\ EmulDone /\ UNCHANGED gpi
     \/ ~Terminated(Map(gpi[2])) /\ Stop("wild")

SysClear ==
  /\ Serving /\ KernelCall = 2
  /\ gpi' = [gpi EXCEPT ![1] = 0, ![2] = 0]
  /\ EmulDone

\* exit(reg1): the exit status is the value of r2.
SysExit == Serving /\ KernelCall = 3 /\ Stop("exit")

SysGetchar ==
  /\ Serving /\ KernelCall = 14
  /\ \E c \in Chars : gpi' = [gpi EXCEPT ![1] = c]
  /\ EmulDone

\* Call 0 prints, every other one does nothing.
SysOther ==
  /\ Serving /\ KernelCall \notin {1, 2, 3, 14}
  /\ EmulDone /\ UNCHANGED gpi

-----------------------------------------------------------------------------

Init ==
  /\ gpi = [r \in Reg |-> 0] /\ gpf = [r \in Reg |-> 0]
  /\ mdu = [r \in 0 .. 3 |-> 0]
  /\ fr = [z |-> FALSE, n |-> FALSE]
  /\ pc \in Entry
  /\ lr = 0 /\ br = 0 /\ lc = 0 /\ ir = 0 /\ cc = 0 /\ ic = 0
  /\ msys = 0
  /\ mem \in Images
  /\ op1 = 0 /\ op2 = 0 /\ old_pc = 0 /\ pre = NoBundle
  /\ phase = "fetch"
  /\ status = "run"

ExecuteSlot(slot) ==
  \/ ExecuteAluResult(slot) \/ ExecuteCmove(slot) \/ ExecuteCmp(slot)
  \/ ExecuteNop(slot)
  \/ ExecuteLoad(slot) \/ ExecuteStore(slot) \/ AccessOutside(slot)
  \/ AssertFails(slot)

ExecuteSlot0Only ==
  \/ ExecuteDivMul \/ DivideByZero \/ ExecuteMduMove
  \/ ExecuteBranch \/ ExecuteJump \/ ExecuteCall \/ ExecuteReturn \/ ExecuteSyscall

Emulate == NoSyscall \/ SysPuts \/ SysClear \/ SysExit \/ SysOther

\* Everything but the wait for input.
RunLoop ==
  \/ Fetch \/ FetchOutside
  \/ \E slot \in {0, 1} : ExecuteSlot(slot)
  \/ ExecuteSlot0Only
  \/ Retire
  \/ Emulate

Next == RunLoop \/ SysGetchar

Spec == Init /\ [][Next]_vars

\* The run loop is a single thread that never blocks, except in getchar.
FairSpec == Spec /\ WF_vars(RunLoop)

-----------------------------------------------------------------------------
(* Properties.                                                             *)

\* The state stays in its types: registers, counters and pc never leave the
\* range of their machine word and a run never leaves the phases of the loop.
TypeOK ==
  /\ gpi \in [Reg -> Word] /\ gpf \in [Reg -> Word]
  /\ mdu \in [0 .. 3 -> Word]
  /\ fr \in Flags
  /\ pc \in Pc /\ lr \in Pc /\ br \in Pc /\ ir \in Pc /\ old_pc \in Pc
  /\ lc \in Nat
  /\ cc \in 0 .. CountMod - 1 /\ ic \in 0 .. CountMod - 1
  /\ msys \in {0, 1}
  /\ mem \in [Loc -> Cell]
  /\ op1 \in Cell /\ op2 \in Cell
  /\ phase \in {"fetch", "slot0", "slot1", "retire", "emul"}
  /\ status \in {"run", "exit", "abort", "wild"}

\* At most one system call is pending, it is the one of the bundle just
\* executed, and ir holds that bundle's address.  pc is then the trap vector,
\* unless the SYSCALL itself sits at the vector: execute takes the unchanged
\* pc for a bundle that did not jump and steps past it.
TrapPending ==
  msys = 1 =>
    /\ phase \in {"slot1", "retire", "emul"}
    /\ First.op = AX_EXE_BRU_OTHER /\ First.other = SYSCALL_ID
    /\ ir = old_pc
    /\ \/ pc = TrapVector
       \/ old_pc = TrapVector /\ pc = PcAdd(TrapVector, BundleSize(First))

\* A set s of addresses is closed under the program text in m: it holds the
\* trap vector and, with a bundle, the bundle after it and its static targets.
ClosedAt(s, p, i, j) ==
  /\ PcAdd(p, BundleSize(i)) \in s
  /\ i.op \in BranchOps \cup {AX_EXE_BRU_CALLR} => PcAdd(p, Displacement(i, j)) \in s
  /\ i.op \in {AX_EXE_BRU_JUMP, AX_EXE_BRU_CALL} => PcAdd(0, Displacement(i, j)) \in s

Closed(s, m) ==
  /\ TrapVector \in s
  /\ \A p \in s : HasBundle(p) => ClosedAt(s, p, FirstAt(m, p), SecondAt(m, p))

\* The core is aligned with s: it is at, or in the middle of, a bundle of s
\* and every register control can return through holds an address of s.
Aligned(s) ==
  /\ pc \in s /\ lr \in s /\ br \in s /\ ir \in s
  /\ phase \in {"slot0", "slot1", "retire"} => PcAdd(old_pc, BundleSize(First)) \in s
  /\ phase = "slot0" => pc = old_pc /\ ClosedAt(s, pc, First, Second)

\* Control never enters the middle of a bundle.  Whatever set of bundle
\* addresses the program text is closed under, a step from a state aligned
\* with it leads to one aligned with it: the package bit counted in lr by CALL
\* and in the fall-through by execute, ir and the trap vector all agree on
\* where bundles begin, a store into the text included.
AlignmentPreserved ==
  [][\A s \in StartSets : Closed(s, mem) /\ Aligned(s) => Aligned(s)']_vars

\* A system call is eventually served, or the process has stopped, or it waits
\* in getchar: a trap raised in slot 0 is not lost whatever slot 1 and the
\* emulation do with the registers.
CallServed ==
  (msys = 1) ~> (msys = 0 \/ status # "run" \/ (Serving /\ KernelCall = 14))

=============================================================================
