------------------------------ MODULE MCK1Timing ------------------------------
(***************************************************************************)
(* K1Timing on four registers, of which 2 is the accumulator and 3 lies    *)
(* above it, two instruction tags and four data tags; the documented       *)
(* caches hold two lines each.                                             *)
(***************************************************************************)
EXTENDS K1Timing

Op(u, a, b, c, imm) == [unit |-> u, a |-> a, b |-> b, c |-> c, hasImm |-> imm]

(* Register instructions, one for each kind of row, on a single line of    *)
(* code: chains through registers, the accumulator, the registers of the   *)
(* product unit, the flags.                                                *)
Arithmetic ==
  [ops   |-> {Op(4, 0, 0, 1, FALSE), Op(17, 3, 0, 1, FALSE), Op(17, 0, 3, 3, TRUE),
              Op(18, 2, 2, 0, FALSE), Op(3, 1, 0, 0, FALSE), Op(64, 0, 0, 0, FALSE), Op(80, 0, 0, 0, FALSE),
              Op(16, 0, 1, 3, FALSE), Op(24, 1, 2, 3, FALSE)},
   pcs |-> {0}, lines |-> {0}, waits |-> {0}]

(* Vector instructions, loads and stores: the two register files together. *)
Vectors ==
  [ops   |-> {Op(97, 0, 1, 3, FALSE), Op(115, 1, 0, 0, FALSE), Op(70, 0, 2, 0, FALSE), Op(81, 0, 0, 0, FALSE),
              Op(36, 3, 0, 0, FALSE), Op(35, 0, 0, 0, FALSE), Op(44, 1, 0, 1, FALSE), Op(45, 0, 1, 0, FALSE)},
   pcs |-> {0}, lines |-> {0}, waits |-> {0}]

(* Memory instructions over lines that share a tag, in both halves of the  *)
(* data cache, and one whose tag does not fit.                             *)
Memory ==
  [ops   |-> {Op(32, 0, 0, 0, FALSE), Op(74, 0, 0, 0, FALSE), NoOp},
   pcs |-> {0, 1, 3}, lines |-> {0, 2, 3, 6, 10}, waits |-> {0, 2}]

MCPrograms == {Arithmetic, Vectors, Memory}
===============================================================================
