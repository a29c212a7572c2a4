------------------------------ MODULE AxCoreVliw ------------------------------
(***************************************************************************)
(* AxCore implements AxVliw: to the abstract machine nothing happens until *)
(* the bundle retires, so inside a bundle it still sees the state in which *)
(* the bundle was entered.                                                 *)
(***************************************************************************)
EXTENDS AxCore

InBundle == phase \in {"slot0", "slot1", "retire"}

Seen == IF InBundle THEN pre ELSE Snapshot

V == INSTANCE AxVliw WITH
       gpi <- Seen.gpi, gpf <- Seen.gpf, mdu <- Seen.mdu, fr <- Seen.fr,
       pc <- Seen.pc, lr <- Seen.lr, br <- Seen.br, lc <- Seen.lc, ir <- Seen.ir,
       mem <- Seen.mem, trap <- Seen.trap, stat <- status

\* The slot-by-slot interpreter implements the parallel machine: for bundles
\* without a dependence executing slot 1 after slot 0 is not observable, the
\* lazily cleared zero registers read as zero everywhere, and pc, lr, ir and
\* the pending call end up where the bundle says, with one step per bundle.
\* Transfers of a bundle to its own address are left out, see JumpLands.
ImplementsVliw == V!Spec

\* "if we jumped somewhere returns 0 so the next instruction is where we
\* jumped!" (AxCore::execute): when a bundle retires, pc is where its first
\* instruction goes, be that the bundle itself, as in a loop that waits.
JumpLands == [][Retire => pc' = V!Target(pre, First, Second)]_vars

=============================================================================
