------------------------------ MODULE MCSpmcQueue ------------------------------
(* Instances of SpmcQueue for TLC. *)
EXTENDS SpmcQueue, TLC

(* The consumers run the same code. *)
Symmetry == Permutations(Consumers)
================================================================================
