------------------------------ MODULE MCAxHosted ------------------------------
(***************************************************************************)
(* A hosted program on the machine of MCAxCore: main, at 0, returns at     *)
(* once; the entry code is at 1.                                           *)
(***************************************************************************)
EXTENDS MCAxCore, AxHosted

HostedDecode(w) == IF w < 7 THEN EntryCode(0)[w + 1] ELSE Other(2)
HostedImages ==
  {[l \in MCLoc |-> IF l[1] # "wram" THEN 0 ELSE IF l[2] = 0 THEN 7 ELSE l[2] - 1]}
HostedEntry == {1}

=============================================================================
