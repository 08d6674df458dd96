-------------------------------- MODULE MCArena ---------------------------------
(* Instances of Arena for TLC. *)
EXTENDS Arena

(* Nothing, one byte, more than one unit of alignment. *)
MCSizes == {0, 1, 5}
================================================================================
