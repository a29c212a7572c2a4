----------------------------- MODULE MCAxCoreVliw -----------------------------
(***************************************************************************)
(* The refinement of AxVliw on the machines of MCAxCore.                   *)
(***************************************************************************)
EXTENDS MCAxCore, AxCoreVliw

\* A program that waits in a loop of one instruction: "bra ." (opcode 5 of
\* ControlTable) at its entry point 2.
LoopImages == {[l \in MCLoc |-> IF l = <<"wram", 2>> THEN 5 ELSE 0]}
LoopEntry == {2}

=============================================================================
