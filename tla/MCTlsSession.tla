------------------------------ MODULE MCTlsSession ------------------------------
(* Instances of TlsSession for TLC. *)
EXTENDS TlsSession

(* Without "junk", which the engine treats as "fatal" but for its number. *)
AllKinds == {"hello", "finished", "data", "closing", "fatal"}
================================================================================
