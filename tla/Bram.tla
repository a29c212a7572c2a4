--------------------------------- MODULE Bram ---------------------------------
(***************************************************************************)
(* The block RAMs of verilog/src: bram_single_port.v, one port, and        *)
(* bram_dual_port.v, two ports with clocks of their own.  The wires of a   *)
(* port change at any time between the edges; a rising edge of a clock, or *)
(* of both at once, makes the assignments of its always blocks.            *)
(*                                                                         *)
(* Two ports clocked at once on one address, one of them writing, is       *)
(* undefined (comment of a_addr): what such a read returns, and what two   *)
(* such writes leave, is any value.                                        *)
(***************************************************************************)
EXTENDS Naturals

CONSTANTS
  Addr, Data,   \* addresses and words
  X             \* the unknown value of a register never assigned

ASSUME UnknownAssumption == X \notin Data

Word == Data \cup {X}
Wires == [wr : BOOLEAN, addr : Addr, din : Data]

VARIABLES
  ports,     \* the ports of the device
  in,        \* the wires wr, addr and din of each port
  mem,       \* the words
  dout,      \* the output register of each port
  display,   \* did the last edge print "Error simultanous memory access"?
  ticked,    \* history: the ports clocked by the last step
  written    \* history: what was last written to each address, X if unknown

bvars == <<ports, in, mem, dout, display, ticked, written>>

Init ==
  /\ ports \in {{"a"}, {"a", "b"}}
  /\ in \in [ports -> {w \in Wires : ~w.wr}]
  /\ mem = [m \in Addr |-> X] /\ dout = [p \in ports |-> X]
  /\ display = FALSE /\ ticked = {}
  /\ written = [m \in Addr |-> X]

Drive(p, w) ==
  /\ in' = [in EXCEPT ![p] = w] /\ ticked' = {} /\ display' = FALSE
  /\ UNCHANGED <<ports, mem, dout, written>>

Writers(clk, m) == {p \in clk : in[p].wr /\ in[p].addr = m}

\* Mutant: the writes of port b are lost while port a is clocked.
Stored_OneWrite(clk, m) ==
  LET W == Writers(clk, m)
  IN IF W = {} \/ (W = {"b"} /\ "a" \in clk) THEN {mem[m]} ELSE {in[p].din : p \in W}

\* The values an always block may leave in mem[m], all edges of clk at once.
Stored(clk, m) ==
  LET W == Writers(clk, m)
  IN IF W = {} THEN {mem[m]}
     ELSE IF \E p \in W : W = {p} THEN {in[p].din : p \in W} ELSE Word

\* The values it may leave in the output register of p.
Output(clk, p) ==
  IF in[p].wr THEN {in[p].din}
  ELSE IF Writers(clk, in[p].addr) = {} THEN {mem[in[p].addr]} ELSE Word

\* The block "For simulation only", on the clock of port b.
Monitor(clk) ==
  "b" \in clk /\ in["a"].addr = in["b"].addr /\ (in["b"].wr \/ in["a"].wr)

Posedge(clk) ==
  /\ ticked' = clk /\ display' = Monitor(clk)
  /\ mem' \in {c \in [Addr -> Word] : \A m \in Addr : c[m] \in Stored(clk, m)}
  /\ dout' \in {d \in [ports -> Word] :
                  \A p \in ports : IF p \in clk THEN d[p] \in Output(clk, p) ELSE d[p] = dout[p]}
  /\ written' = [m \in Addr |->
                   IF Writers(clk, m) = {} THEN written[m]
                   ELSE IF \E p \in clk : Writers(clk, m) = {p}
                        THEN in[CHOOSE p \in clk : Writers(clk, m) = {p}].din
                        ELSE X]
  /\ UNCHANGED <<ports, in>>

EdgeOfOne == \E p \in ports : Posedge({p})
EdgeOfBoth == ports = {"a", "b"} /\ Posedge(ports)

Next ==
  \/ \E p \in ports, w \in Wires : Drive(p, w)
  \/ EdgeOfOne
  \/ EdgeOfBoth

Spec == Init /\ [][Next]_bvars

-----------------------------------------------------------------------------
(* Two ports access one address at once and one of them writes.            *)
Collision(clk) ==
  \E p, q \in clk : p # q /\ in[p].addr = in[q].addr /\ (in[p].wr \/ in[q].wr)

(* After an edge without a collision the output of a port is the word last *)
(* written to its address, by whichever port and however the clocks of the *)
(* two ran in between, its own write of this edge included; only what two  *)
(* colliding writes left is unknown.                                       *)
ReadsLastWrite ==
  [][\A p \in ticked' : ~Collision(ticked') /\ written'[in[p].addr] # X =>
        dout'[p] = written'[in[p].addr]]_bvars
===============================================================================
