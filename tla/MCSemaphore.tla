------------------------------ MODULE MCSemaphore ------------------------------
(* Instances of Semaphore for TLC. *)
EXTENDS Semaphore, TLC

CONSTANTS p1, p2, w1, w2, w3

(* Three permits for three waiters, two of them in one post. *)
MCPosters == {p1, p2}
MCWaiters == {w1, w2, w3}
MCTimed   == {w3}
MCAmount  == (p1 :> 2) @@ (p2 :> 1)
================================================================================
