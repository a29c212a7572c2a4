----------------------------- MODULE MCAxOperands -----------------------------
(***************************************************************************)
(* AxOperands on 8-bit words, with regions that fill their part of the     *)
(* address space and regions that do not.                                  *)
(***************************************************************************)
EXTENDS AxOperands
LOCAL BW == INSTANCE Bitwise

BitAnd(a, b) == BW!&(a, b)
BitOr(a, b)  == BW!|(a, b)
BitXor(a, b) == BW!^^(a, b)

MCRegionSize == [wram |-> 64, spm2 |-> 16, spmt |-> 16, rom |-> 4, io |-> 1, spm |-> 4]

\* As with -wram 24: a WRAM whose size is no power of two.
UnevenRegionSize == [MCRegionSize EXCEPT !["wram"] = 48]

=============================================================================
