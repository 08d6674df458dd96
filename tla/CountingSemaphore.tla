--------------------------- MODULE CountingSemaphore ---------------------------
(***************************************************************************)
(* What a semaphore promises to the callers of os_semaphorePost and        *)
(* os_semaphoreWait: a count of permits; a post adds all of its permits at *)
(* once, a wait takes one, a timed wait may instead give up and then takes *)
(* none.  A timed wait may give up although a permit is there.             *)
(***************************************************************************)
EXTENDS Integers

CONSTANTS Posters, Waiters,
  Timed,   \* the waiters whose wait has a timeout
  Amount   \* the permits each poster adds

VARIABLES permits, result

Init ==
  /\ permits = 0
  /\ result = [t \in Posters \cup Waiters |-> "none"]

Post(p) ==
  /\ result[p] = "none"
  /\ permits' = permits + Amount[p]
  /\ result' = [result EXCEPT ![p] = "posted"]

Acquire(w) ==
  /\ result[w] = "none"
  /\ permits > 0
  /\ permits' = permits - 1
  /\ result' = [result EXCEPT ![w] = "ok"]

GiveUp(w) ==
  /\ w \in Timed
  /\ result[w] = "none"
  /\ result' = [result EXCEPT ![w] = "timeout"]
  /\ UNCHANGED permits

Next == (\E p \in Posters : Post(p)) \/ (\E w \in Waiters : Acquire(w) \/ GiveUp(w))

Spec == Init /\ [][Next]_<<permits, result>>
================================================================================
