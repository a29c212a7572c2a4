-------------------------------- MODULE MCBram --------------------------------
(* Bram with two addresses, so that the ports meet and miss each other, and *)
(* two words.                                                               *)
EXTENDS Bram

MCAddr == {0, 1}
MCData == {0, 1}
===============================================================================
