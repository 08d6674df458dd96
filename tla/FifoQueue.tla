------------------------------- MODULE FifoQueue -------------------------------
(***************************************************************************)
(* What the socket queue promises the accept loop and the workers: a       *)
(* bounded first-in first-out queue.  A dequeue takes effect in one step,  *)
(* which removes the oldest item; the consumer is handed that very item    *)
(* when the call returns.                                                  *)
(***************************************************************************)
EXTENDS Naturals, Sequences

CONSTANTS Consumers, Bound, Item, NoItem

VARIABLES
  queue,   \* what is queued, oldest first
  held,    \* what each consumer removed and has not been handed yet
  got      \* what each consumer was handed, in order

vars == <<queue, held, got>>

Init ==
  /\ queue = << >>
  /\ held = [c \in Consumers |-> NoItem]
  /\ got = [c \in Consumers |-> << >>]

Put(v) ==
  /\ Len(queue) < Bound
  /\ queue' = Append(queue, v)
  /\ UNCHANGED <<held, got>>

Take(c) ==
  /\ held[c] = NoItem
  /\ queue # << >>
  /\ queue' = Tail(queue)
  /\ held' = [held EXCEPT ![c] = Head(queue)]
  /\ UNCHANGED got

HandOver(c) ==
  /\ held[c] # NoItem
  /\ got' = [got EXCEPT ![c] = Append(@, held[c])]
  /\ held' = [held EXCEPT ![c] = NoItem]
  /\ UNCHANGED queue

Next ==
  \/ \E v \in Item : Put(v)
  \/ \E c \in Consumers : Take(c) \/ HandOver(c)

Spec == Init /\ [][Next]_vars
================================================================================
