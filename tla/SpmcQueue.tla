------------------------------- MODULE SpmcQueue -------------------------------
(***************************************************************************)
(* The ring of accepted sockets between the accept loop and the workers:   *)
(* SpmcQueueI32 of kit_webServer.h, one producer (ws_run) and any number   *)
(* of consumers (ws__worker).  One action is one access to shared memory:  *)
(* the a32 loads, stores and the compare-and-swap are sequentially         *)
(* consistent, the slots are plain memory.                                 *)
(*                                                                         *)
(* An item stands for an accepted socket and is known by its place in the  *)
(* order of successful enqueues, 0, 1, 2, ...                              *)
(***************************************************************************)
EXTENDS Integers, Sequences

CONSTANTS
  Capacity,     \* queue->capacity
  Consumers,    \* the threads that call spmcI32_dequeue
  MaxItems      \* bound: how many items the producer publishes

ASSUME CapacityAssumption == Capacity \in Nat \ {0}
ASSUME MaxItemsAssumption == MaxItems \in Nat

VARIABLES
  items,        \* queue->items; Garbage until a slot is written
  head, tail,   \* queue->head, queue->tail
  ppc,          \* where the producer is in spmcI32_enqueue
  cpc,          \* where each consumer is in spmcI32_dequeue
  chead,        \* the local currentHead of each consumer
  got,          \* history: the items each consumer was handed, in order
  enqueued,     \* history: how many items were published
  taken,        \* history: how many compare-and-swaps of head succeeded
  snap,         \* history: what `taken` was when a consumer loaded head
  overtaken     \* history: a consumer was overtaken by the producer

ring    == <<items, head, tail>>
history == <<got, enqueued, taken, snap, overtaken>>
vars    == <<ring, ppc, cpc, chead, history>>

Garbage == -1
Slots   == 0 .. Capacity - 1
Items   == 0 .. MaxItems - 1

After(i) == (i + 1) % Capacity

--------------------------------------------------------------------------------
(* A consumer in the middle of a dequeue is overtaken when the producer has  *)
(* come round to it: before its compare-and-swap, once Capacity items have   *)
(* been published from the one that was oldest when it loaded head (head may *)
(* then hold the same index again); after it, once the producer is cleared   *)
(* to write the next, into the slot the consumer has still to read.  With a  *)
(* full ring that is a take by another consumer and one enqueue away.        *)

Cleared == enqueued + (IF ppc = "idle" THEN 0 ELSE 1)

Overtaken(c) ==
  \/ cpc[c] \in {"tail", "cas"} /\ enqueued >= snap[c] + Capacity
  \/ cpc[c] = "read" /\ Cleared > snap[c] + Capacity

(* Another consumer has taken an item since c loaded head.                  *)
Passed(c) == taken > snap[c] + (IF cpc[c] = "read" THEN 1 ELSE 0)

RecordOvertaking == overtaken' = (overtaken \/ \E c \in Consumers : Overtaken(c)')

--------------------------------------------------------------------------------
(* spmcI32_init.                                                            *)
Init ==
  /\ items = [s \in Slots |-> Garbage]
  /\ head = 0
  /\ tail = 0
  /\ ppc = "idle"
  /\ cpc = [c \in Consumers |-> "load"]
  /\ chead = [c \in Consumers |-> 0]
  /\ got = [c \in Consumers |-> << >>]
  /\ enqueued = 0
  /\ taken = 0
  /\ snap = [c \in Consumers |-> 0]
  /\ overtaken = FALSE

(* Mutants of the enqueue: no test for a full ring; the item goes to the slot *)
(* the tail will move to.                                                   *)
EnqueueCheck_NoFullTest ==
  /\ ppc = "idle"
  /\ enqueued < MaxItems
  /\ ppc' = "write"
  /\ UNCHANGED <<ring, cpc, chead, got, enqueued, taken, snap>>
  /\ RecordOvertaking

EnqueueWrite_NextSlot ==
  /\ ppc = "write"
  /\ items' = [items EXCEPT ![After(tail)] = enqueued]
  /\ ppc' = "publish"
  /\ UNCHANGED <<head, tail, cpc, chead, history>>

(* spmcI32_enqueue.  Only the producer stores tail, so its load of tail and *)
(* the load of head that follows are one step; a full ring ends the call.   *)
EnqueueCheck ==
  /\ ppc = "idle"
  /\ enqueued < MaxItems
  /\ After(tail) # head
  /\ ppc' = "write"
  /\ UNCHANGED <<ring, cpc, chead, got, enqueued, taken, snap>>
  /\ RecordOvertaking

EnqueueFull ==
  /\ ppc = "idle"
  /\ After(tail) = head
  /\ UNCHANGED vars

EnqueueWrite ==
  /\ ppc = "write"
  /\ items' = [items EXCEPT ![tail] = enqueued]
  /\ ppc' = "publish"
  /\ UNCHANGED <<head, tail, cpc, chead, history>>

EnqueuePublish ==
  /\ ppc = "publish"
  /\ tail' = After(tail)
  /\ enqueued' = enqueued + 1
  /\ ppc' = "idle"
  /\ UNCHANGED <<items, head, cpc, chead, got, taken, snap>>
  /\ RecordOvertaking

(* Mutants of the dequeue: "empty" with one item left; a plain store of head  *)
(* for the compare-and-swap; head moved by two; the slot before the current  *)
(* head read instead of the claimed one.                                    *)
DequeueEmpty_OneLeft(c) ==
  /\ cpc[c] = "tail"
  /\ chead[c] = tail \/ After(chead[c]) = tail
  /\ cpc' = [cpc EXCEPT ![c] = "load"]
  /\ UNCHANGED <<ring, ppc, chead, history>>

DequeueCas_Store(c) ==
  /\ cpc[c] = "cas"
  /\ head' = After(chead[c])
  /\ taken' = taken + 1
  /\ cpc' = [cpc EXCEPT ![c] = "read"]
  /\ UNCHANGED <<items, tail, ppc, chead, got, enqueued, snap, overtaken>>

DequeueCas_Skips(c) ==
  /\ cpc[c] = "cas"
  /\ head = chead[c]
  /\ head' = After(After(chead[c]))
  /\ taken' = taken + 1
  /\ cpc' = [cpc EXCEPT ![c] = "read"]
  /\ UNCHANGED <<items, tail, ppc, chead, got, enqueued, snap, overtaken>>

DequeueRead_AtHead(c) ==
  /\ cpc[c] = "read"
  /\ got' = [got EXCEPT ![c] = Append(@, items[(head - 1) % Capacity])]
  /\ cpc' = [cpc EXCEPT ![c] = "load"]
  /\ UNCHANGED <<ring, ppc, chead, enqueued, taken, snap, overtaken>>

(* spmcI32_dequeue.                                                         *)
DequeueLoadHead(c) ==
  /\ cpc[c] = "load"
  /\ chead' = [chead EXCEPT ![c] = head]
  /\ snap' = [snap EXCEPT ![c] = taken]
  /\ cpc' = [cpc EXCEPT ![c] = "tail"]
  /\ UNCHANGED <<ring, ppc, got, enqueued, taken, overtaken>>

DequeueEmpty(c) ==
  /\ cpc[c] = "tail"
  /\ chead[c] = tail
  /\ cpc' = [cpc EXCEPT ![c] = "load"]
  /\ UNCHANGED <<ring, ppc, chead, history>>

DequeueNonempty(c) ==
  /\ cpc[c] = "tail"
  /\ chead[c] # tail
  /\ cpc' = [cpc EXCEPT ![c] = "cas"]
  /\ UNCHANGED <<ring, ppc, chead, history>>

DequeueCasFails(c) ==
  /\ cpc[c] = "cas"
  /\ head # chead[c]
  /\ cpc' = [cpc EXCEPT ![c] = "load"]
  /\ UNCHANGED <<ring, ppc, chead, history>>

DequeueCas(c) ==
  /\ cpc[c] = "cas"
  /\ head = chead[c]
  /\ head' = After(chead[c])
  /\ taken' = taken + 1
  /\ cpc' = [cpc EXCEPT ![c] = "read"]
  /\ UNCHANGED <<items, tail, ppc, chead, got, enqueued, snap, overtaken>>

DequeueRead(c) ==
  /\ cpc[c] = "read"
  /\ got' = [got EXCEPT ![c] = Append(@, items[chead[c]])]
  /\ cpc' = [cpc EXCEPT ![c] = "load"]
  /\ UNCHANGED <<ring, ppc, chead, enqueued, taken, snap, overtaken>>

Enqueue == EnqueueCheck \/ EnqueueFull \/ EnqueueWrite \/ EnqueuePublish

Dequeue(c) ==
  \/ DequeueLoadHead(c) \/ DequeueEmpty(c) \/ DequeueNonempty(c)
  \/ DequeueCasFails(c) \/ DequeueCas(c) \/ DequeueRead(c)

Next == Enqueue \/ \E c \in Consumers : Dequeue(c)

Spec == Init /\ [][Next]_vars

(* Every thread is scheduled; the caller of dequeue polls for ever.         *)
FairSpec ==
  /\ Spec
  /\ WF_vars(Enqueue)
  /\ \A c \in Consumers : WF_vars(Dequeue(c))

--------------------------------------------------------------------------------
(* The variables stay in their types; the slots hold items or Garbage.      *)
TypeOK ==
  /\ items \in [Slots -> Items \cup {Garbage}]
  /\ head \in Slots
  /\ tail \in Slots
  /\ ppc \in {"idle", "write", "publish"}
  /\ cpc \in [Consumers -> {"load", "tail", "cas", "read"}]
  /\ chead \in [Consumers -> Slots]
  /\ got \in [Consumers -> Seq(Items \cup {Garbage})]
  /\ enqueued \in 0 .. MaxItems
  /\ taken \in Nat
  /\ snap \in [Consumers -> Nat]
  /\ overtaken \in BOOLEAN

Delivered(k) == \E c \in Consumers : \E i \in 1 .. Len(got[c]) : got[c][i] = k

(* Indices and counts agree: head = tail only on an empty ring, and the      *)
(* refusal of spmcI32_enqueue comes only with Capacity - 1 items queued.     *)
RingAgrees ==
  ~overtaken =>
    /\ taken <= enqueued
    /\ enqueued - taken < Capacity
    /\ (head = tail) <=> (taken = enqueued)
    /\ (After(tail) = head) <=> (enqueued - taken = Capacity - 1)

(* No socket is handed to two workers, nor twice to one, and no worker is    *)
(* handed a slot that was never written.                                    *)
DeliveredOnce ==
  ~overtaken =>
    \A c, d \in Consumers : \A i \in 1 .. Len(got[c]), j \in 1 .. Len(got[d]) :
      /\ got[c][i] # Garbage
      /\ got[c][i] = got[d][j] => c = d /\ i = j

(* A worker is handed the sockets in the order they were accepted.           *)
DeliveredInOrder ==
  ~overtaken =>
    \A c \in Consumers : \A i, j \in 1 .. Len(got[c]) :
      i < j => got[c][i] < got[c][j]

(* A socket that left the queue is with a worker, or with the one worker     *)
(* about to read it from its slot, which still holds it.                     *)
NothingLost ==
  ~overtaken =>
    \A k \in 0 .. taken - 1 :
      \/ Delivered(k)
      \/ \E c \in Consumers : cpc[c] = "read" /\ snap[c] = k /\ items[chead[c]] = k

(* A consumer is overtaken, and so the slot it has claimed written while it  *)
(* may still read it, only after another consumer took an item since it      *)
(* loaded head: the slot that the full test of spmcI32_enqueue keeps free    *)
(* protects, alone, every consumer that nobody has passed.                   *)
OvertakenOnlyIfPassed ==
  [][~overtaken => \A c \in Consumers : Overtaken(c)' => Passed(c)']_vars

(* A consumer is told that the queue is empty only when it is, at that step. *)
EmptyMeansEmpty ==
  [][\A c \in Consumers :
       cpc[c] = "tail" /\ cpc'[c] = "load" /\ ~overtaken => taken = enqueued]_vars

(* Whatever is published is handed to some consumer, however often the       *)
(* consumers take the compare-and-swap away from each other; unless one of   *)
(* them is overtaken.                                                       *)
EventuallyDelivered ==
  \A k \in Items : (enqueued > k) ~> (Delivered(k) \/ overtaken)

(* With one consumer the slot that is kept free is enough: the producer      *)
(* cannot come round to a slot that is being read.                           *)
NeverOvertaken == ~overtaken

--------------------------------------------------------------------------------
(* Schedules in which no consumer is overtaken.                              *)
TimelySpec == Init /\ [][Next /\ ~overtaken']_vars

(* The queue as its callers see it: the slots from head to tail, and the     *)
(* slot a consumer has claimed, as memory holds them now.                    *)
Contents == [i \in 1 .. (tail - head) % Capacity |-> items[(head + i - 1) % Capacity]]
Claimed  == [c \in Consumers |-> IF cpc[c] = "read" THEN items[chead[c]] ELSE Garbage]

Fifo == INSTANCE FifoQueue
          WITH Bound <- Capacity - 1, Item <- Items, NoItem <- Garbage,
               queue <- Contents, held <- Claimed

(* The ring implements the bounded FIFO queue of FifoQueue: for one consumer *)
(* always, for several in the schedules of TimelySpec.                       *)
ImplementsFifo == Fifo!Spec

(* With several consumers and in every schedule the ring does what the queue *)
(* does until a consumer is overtaken.                                      *)
FifoUntilOvertaken == Fifo!Init /\ [][overtaken' \/ Fifo!Next]_(Fifo!vars)

(* What SpmcQueueI32, a queue for a single producer and multiple consumers,  *)
(* has to give whatever the schedule: an item reaches one consumer, once.    *)
EachItemOnce ==
  \A c, d \in Consumers : \A i \in 1 .. Len(got[c]), j \in 1 .. Len(got[d]) :
    got[c][i] = got[d][j] => c = d /\ i = j

--------------------------------------------------------------------------------
(* Why the queue is correct while nobody is overtaken: the strengthening of  *)
(* the invariants above that every step preserves.                          *)

(* The indices are the counts modulo Capacity, whatever the schedule.        *)
Counts ==
  /\ head = taken % Capacity
  /\ tail = enqueued % Capacity
  /\ ppc # "idle" => enqueued < MaxItems
  /\ \A c \in Consumers : cpc[c] # "load" =>
       chead[c] = snap[c] % Capacity /\ snap[c] <= taken

(* A slot stays free for the producer; a consumer at the compare-and-swap    *)
(* has an item ahead of it; a claimed item has left the queue.               *)
InStep ==
  /\ taken <= enqueued
  /\ Cleared - taken < Capacity
  /\ \A c \in Consumers :
       /\ ~Overtaken(c)
       /\ cpc[c] = "cas" => snap[c] < enqueued
       /\ cpc[c] = "read" => snap[c] < taken

(* Queued, published next and claimed items are in their slots.              *)
Memory ==
  /\ \A k \in taken .. enqueued - 1 : items[k % Capacity] = k
  /\ ppc = "publish" => items[tail] = enqueued
  /\ \A c \in Consumers : cpc[c] = "read" => items[chead[c]] = snap[c]

(* What was handed out is behind head and apart from what is claimed; no two *)
(* consumers claim the same item; whatever is behind head is one or other.   *)
Handed ==
  \A c \in Consumers : \A i \in 1 .. Len(got[c]) :
    /\ got[c][i] \in 0 .. taken - 1
    /\ cpc[c] = "read" => got[c][i] < snap[c]
    /\ \A d \in Consumers : cpc[d] = "read" => got[c][i] # snap[d]

Unique ==
  \A c, d \in Consumers : \A i \in 1 .. Len(got[c]), j \in 1 .. Len(got[d]) :
    got[c][i] = got[d][j] => c = d /\ i = j

Ordered ==
  \A c \in Consumers : \A i, j \in 1 .. Len(got[c]) : i < j => got[c][i] < got[c][j]

ClaimedApart ==
  \A c, d \in Consumers :
    cpc[c] = "read" /\ cpc[d] = "read" /\ snap[c] = snap[d] => c = d

Accounted ==
  \A k \in 0 .. taken - 1 :
    Delivered(k) \/ \E c \in Consumers : cpc[c] = "read" /\ snap[c] = k

Delivery == Handed /\ Unique /\ Ordered /\ ClaimedApart /\ Accounted

(* The inductive invariant.                                                  *)
IInv ==
  /\ TypeOK
  /\ Counts
  /\ ~overtaken => InStep /\ Memory /\ Delivery

(* One consumer alone: nobody else moves head under it.                      *)
Alone ==
  \A c \in Consumers :
    /\ cpc[c] \in {"tail", "cas"} => snap[c] = taken
    /\ cpc[c] = "read" => snap[c] + 1 = taken
================================================================================
