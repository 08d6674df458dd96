----------------------------- MODULE MCServerStart -----------------------------
(* Instances of ServerStart for TLC. *)
EXTENDS ServerStart

(* Three threads share the slot: one may be late for the other two. *)
MCCapacity == 3
================================================================================
