------------------------------ MODULE Bram_proofs ------------------------------
(***************************************************************************)
(* Proofs about Bram, for any addresses and words: without a collision a   *)
(* port outputs the word last written to its address.                      *)
(***************************************************************************)
EXTENDS Bram, TLAPS

(* What was last written, if that is known, is in the memory.              *)
Kept == \A m \in Addr : written[m] # X => mem[m] = written[m]

BramInv ==
  /\ ports \in {{"a"}, {"a", "b"}} /\ in \in [ports -> Wires]
  /\ mem \in [Addr -> Word] /\ written \in [Addr -> Word] /\ Kept

-----------------------------------------------------------------------------
(* An address with a single writer takes its word; one with none keeps it. *)
LEMMA PosedgeStores ==
  ASSUME NEW clk, Posedge(clk), NEW m \in Addr
  PROVE  /\ mem'[m] \in Stored(clk, m)
         /\ Writers(clk, m) = {} => written'[m] = written[m]
         /\ \A p \in clk : Writers(clk, m) = {p} => written'[m] = in[p].din
         /\ Writers(clk, m) # {} /\ (\A p \in clk : Writers(clk, m) # {p}) => written'[m] = X
  <1>. DEFINE W == Writers(clk, m)
              one == CHOOSE p \in clk : W = {p}
  <1>1. mem'[m] \in Stored(clk, m)
    BY Zenon DEF Posedge
  <1>2. written'[m] = IF W = {} THEN written[m]
                      ELSE IF \E p \in clk : W = {p} THEN in[one].din ELSE X
    BY Zenon DEF Posedge
  <1>3. ASSUME NEW p \in clk, W = {p} PROVE written'[m] = in[p].din
    <2>1. one \in clk /\ W = {one}
      BY <1>3, Zenon
    <2>2. one = p
      BY <1>3, <2>1, Zenon
    <2>3. W # {}
      BY <1>3, Zenon
    <2>. QED
      BY <1>2, <1>3, <2>2, <2>3, Zenon
  <1>. QED
    BY <1>1, <1>2, <1>3, Zenon

(* An edge keeps the invariant.                                            *)
LEMMA PosedgeKeeps ==
  ASSUME BramInv, NEW clk \in SUBSET ports, Posedge(clk)
  PROVE  BramInv'
  <1>1. ports' = ports /\ in' = in
    BY Zenon DEF Posedge
  <1>2. mem' \in [Addr -> Word]
    BY Zenon DEF Posedge
  <1>3. \A p \in clk : in[p].din \in Data
    BY DEF BramInv, Wires
  <1>4. ASSUME NEW m \in Addr
        PROVE  written'[m] \in Word /\ (written'[m] # X => mem'[m] = written'[m])
    <2>0. /\ mem'[m] \in Stored(clk, m)
          /\ Writers(clk, m) = {} => written'[m] = written[m]
          /\ \A p \in clk : Writers(clk, m) = {p} => written'[m] = in[p].din
          /\ Writers(clk, m) # {} /\ (\A p \in clk : Writers(clk, m) # {p}) => written'[m] = X
      BY PosedgeStores, SMT
    <2>. DEFINE W == Writers(clk, m)
    <2>1. CASE W = {}
      <3>1. mem'[m] = mem[m] /\ written'[m] = written[m]
        BY <2>0, <2>1, Zenon DEF Stored
      <3>. QED
        BY <3>1 DEF BramInv, Kept
    <2>2. ASSUME NEW p \in clk, W = {p}
          PROVE  written'[m] \in Word /\ (written'[m] # X => mem'[m] = written'[m])
      <3>1. written'[m] = in[p].din
        BY <2>0, <2>2, Zenon
      <3>2. Stored(clk, m) = {in[q].din : q \in W}
        <4>1. W # {} /\ \E q \in W : W = {q}
          BY <2>2, Zenon
        <4>. QED
          BY <4>1, Zenon DEF Stored
      <3>3. Stored(clk, m) = {in[p].din}
        BY <2>2, <3>2
      <3>4. mem'[m] = in[p].din
        BY <2>0, <3>3, Zenon
      <3>. QED
        BY <1>3, <3>1, <3>4 DEF Word
    <2>3. CASE W # {} /\ \A p \in clk : W # {p}
      <3>1. written'[m] = X
        BY <2>0, <2>3, Zenon
      <3>. QED
        BY <3>1 DEF Word
    <2>. QED
      BY <2>1, <2>2, <2>3, Zenon
  <1>5. written' \in [Addr -> Word]
    <2>1. written' = [m \in Addr |-> written'[m]]
      BY DEF Posedge
    <2>. QED
      BY <1>4, <2>1
  <1>. QED
    BY <1>1, <1>2, <1>4, <1>5, Zenon DEF BramInv, Kept

(* The edges of Next are edges of a set of ports.                          *)
LEMMA EdgesOfPorts ==
  ASSUME BramInv, EdgeOfOne \/ EdgeOfBoth
  PROVE  \E clk \in SUBSET ports : Posedge(clk)
  <1>1. ASSUME NEW p \in ports, Posedge({p}) PROVE \E clk \in SUBSET ports : Posedge(clk)
    <2>1. {p} \in SUBSET ports
      OBVIOUS
    <2>. QED
      BY <1>1, <2>1, Zenon
  <1>2. ASSUME Posedge(ports) PROVE \E clk \in SUBSET ports : Posedge(clk)
    <2>1. ports \in SUBSET ports
      OBVIOUS
    <2>. QED
      BY <1>2, <2>1, Zenon
  <1>. QED
    BY <1>1, <1>2, Zenon DEF EdgeOfOne, EdgeOfBoth

(* Every step keeps the invariant.                                         *)
LEMMA NextKeeps ==
  ASSUME BramInv, [Next]_bvars
  PROVE  BramInv'
  <1>1. ASSUME NEW p \in ports, NEW w \in Wires, Drive(p, w) PROVE BramInv'
    <2>1. in' = [in EXCEPT ![p] = w] /\ UNCHANGED <<ports, mem, written>>
      BY <1>1, Zenon DEF Drive
    <2>2. in' \in [ports -> Wires]
      BY <2>1 DEF BramInv
    <2>. QED
      BY <2>1, <2>2 DEF BramInv, Kept
  <1>2. CASE EdgeOfOne \/ EdgeOfBoth
    BY <1>2, EdgesOfPorts, PosedgeKeeps, Zenon
  <1>3. CASE UNCHANGED bvars
    BY <1>3 DEF BramInv, Kept, bvars
  <1>. QED
    BY <1>1, <1>2, <1>3, Zenon DEF Next

(* The memory starts out unknown.                                          *)
LEMMA InitKept == Init => BramInv
  BY DEF Init, BramInv, Kept, Word

(* What was last written to an address, by either port, stays there until  *)
(* the next write, unless two writes collide.                              *)
THEOREM MemoryKept == Spec => []BramInv
  <1>1. BramInv /\ [Next]_bvars => BramInv'
    BY NextKeeps
  <1>. QED
    BY InitKept, <1>1, PTL DEF Spec

(* A port clocked without a collision outputs the word last written to its *)
(* address, the write of its own included.                                 *)
THEOREM ReadCorrect == Spec => ReadsLastWrite
  <1>1. BramInv /\ [Next]_bvars =>
          [\A p \in ticked' : ~Collision(ticked') /\ written'[in[p].addr] # X =>
              dout'[p] = written'[in[p].addr]]_bvars
    <2>. SUFFICES ASSUME BramInv, Next, NEW p \in ticked', ~Collision(ticked'),
                         written'[in[p].addr] # X
                  PROVE  dout'[p] = written'[in[p].addr]
      BY Zenon
    <2>. DEFINE m == in[p].addr
    <2>1. EdgeOfOne \/ EdgeOfBoth
      BY Zenon DEF Next, Drive
    <2>2. PICK clk \in SUBSET ports : Posedge(clk)
      BY <2>1, EdgesOfPorts
    <2>3. ticked' = clk /\ p \in clk /\ p \in ports
      BY <2>2, Zenon DEF Posedge
    <2>4. m \in Addr
      BY <2>3 DEF BramInv, Wires
    <2>5. dout'[p] \in Output(clk, p)
      BY <2>2, <2>3, Zenon DEF Posedge
    <2>6. \A q \in clk : q # p /\ in[q].addr = m => ~in[q].wr /\ ~in[p].wr
      BY <2>3, Zenon DEF Collision
    <2>7. CASE in[p].wr
      <3>1. p \in Writers(clk, m)
        BY <2>3, <2>7, Zenon DEF Writers
      <3>2. \A q \in Writers(clk, m) : q = p
        BY <2>6, Zenon DEF Writers
      <3>3. Writers(clk, m) = {p}
        BY <3>1, <3>2
      <3>4. written'[m] = in[p].din
        BY <2>2, <2>3, <2>4, <3>3, PosedgeStores
      <3>5. dout'[p] = in[p].din
        BY <2>5, <2>7, Zenon DEF Output
      <3>. QED
        BY <3>4, <3>5
    <2>8. CASE ~in[p].wr
      <3>1. \A q \in clk : ~(in[q].wr /\ in[q].addr = m)
        BY <2>6, <2>8, Zenon
      <3>2. Writers(clk, m) = {}
        BY <3>1, Zenon DEF Writers
      <3>3. written'[m] = written[m]
        BY <2>2, <2>4, <3>2, PosedgeStores
      <3>4. mem[m] = written[m]
        BY <2>4, <3>3 DEF BramInv, Kept
      <3>5. dout'[p] = mem[m]
        BY <2>5, <2>8, <3>2, Zenon DEF Output
      <3>. QED
        BY <3>3, <3>4, <3>5
    <2>. QED
      BY <2>7, <2>8
  <1>. QED
    BY MemoryKept, <1>1, PTL DEF Spec, ReadsLastWrite
===============================================================================
