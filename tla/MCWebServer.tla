------------------------------ MODULE MCWebServer ------------------------------
(* Instances of WebServer for TLC. *)
EXTENDS WebServer, TLC

(* Clients behave alike, and workers run the same code. *)
Symmetry == Permutations(Clients) \cup Permutations(Workers)
================================================================================
