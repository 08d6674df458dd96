---------------------------- MODULE SpmcQueueProofs ----------------------------
(***************************************************************************)
(* Proofs about SpmcQueue, for every Capacity, MaxItems and set Consumers, *)
(* and that it implements FifoQueue: without condition for one consumer,   *)
(* and for any number of them while none is overtaken.                     *)
(***************************************************************************)
EXTENDS SpmcQueue, SequenceTheorems, TLAPS

--------------------------------------------------------------------------------
(* Remainders: what the indices of a ring need of %.                         *)

(* A number is its quotient times the divisor, plus its remainder.           *)
LEMMA DivMod ==
  ASSUME NEW N \in Nat \ {0}, NEW a \in Nat
  PROVE  a % N \in 0 .. N - 1 /\ a \div N \in Nat /\ a = N * (a \div N) + (a % N)
  BY Z3

(* The remainder is the only rest below the divisor.                         *)
LEMMA Rest ==
  ASSUME NEW N \in Nat \ {0}, NEW p \in Nat, NEW r \in 0 .. N - 1
  PROVE  (N * p + r) % N = r
<1> DEFINE a == N * p + r
           q == a \div N
           s == a % N
<1>1. a \in Nat
  <2>1. N * p \in Nat
    BY Z3
  <2> QED BY <2>1
<1>2. s \in 0 .. N - 1 /\ q \in Nat /\ a = N * q + s
  BY <1>1, DivMod
<1> HIDE DEF q, s
<1>3. s - r = N * (p - q)
  BY <1>2
<1>4. CASE p - q >= 1
  <2>1. N * (p - q) >= N
    BY <1>4, <1>2, Z3
  <2> QED BY <2>1, <1>2, <1>3
<1>5. CASE p - q <= -1
  <2>1. N * (p - q) <= -N
    BY <1>5, <1>2, Z3
  <2> QED BY <2>1, <1>2, <1>3
<1>6. CASE p = q
  BY <1>2, <1>3, <1>6
<1>7. s = r
  BY <1>2, <1>4, <1>5, <1>6
<1> QED BY <1>7 DEF s

(* Two different numbers less than a whole divisor apart have different      *)
(* remainders.                                                               *)
LEMMA Apart ==
  ASSUME NEW N \in Nat \ {0}, NEW a \in Nat, NEW b \in Nat, a < b, b < a + N
  PROVE  a % N # b % N
<1> SUFFICES ASSUME a % N = b % N
             PROVE  FALSE
  OBVIOUS
<1> DEFINE p == a \div N
           q == b \div N
<1>1. p \in Nat /\ q \in Nat /\ a = N * p + (a % N) /\ b = N * q + (b % N)
  BY DivMod
<1>2. b - a = N * (q - p)
  BY <1>1
<1>3. CASE q - p >= 1
  <2>1. N * (q - p) >= N
    BY <1>3, <1>1, Z3
  <2> QED BY <2>1, <1>2
<1>4. CASE q - p <= -1
  <2>1. N * (q - p) <= -N
    BY <1>4, <1>1, Z3
  <2> QED BY <2>1, <1>2
<1>5. CASE q = p
  BY <1>1, <1>5
<1> QED BY <1>1, <1>3, <1>4, <1>5

(* Taking the remainder before adding one changes nothing.                   *)
LEMMA Step ==
  ASSUME NEW N \in Nat \ {0}, NEW a \in Nat
  PROVE  ((a % N) + 1) % N = (a + 1) % N
<1> DEFINE r == a % N
           p == a \div N
<1>1. r \in 0 .. N - 1 /\ p \in Nat /\ a = N * p + r
  BY DivMod
<1> HIDE DEF r, p
<1>2. CASE r + 1 < N
  <2>1. (N * p + (r + 1)) % N = r + 1 /\ (N * 0 + (r + 1)) % N = r + 1
    BY <1>1, <1>2, Rest
  <2>2. a + 1 = N * p + (r + 1) /\ r + 1 = N * 0 + (r + 1)
    BY <1>1
  <2>3. (r + 1) % N = (a + 1) % N
    BY <2>1, <2>2
  <2> QED BY <2>3 DEF r
<1>3. CASE r + 1 = N
  <2>1. (N * (p + 1) + 0) % N = 0 /\ (N * 1 + 0) % N = 0
    BY <1>1, Rest
  <2>2. a + 1 = N * (p + 1) + 0 /\ r + 1 = N * 1 + 0
    BY <1>1, <1>3
  <2>3. (r + 1) % N = (a + 1) % N
    BY <2>1, <2>2
  <2> QED BY <2>3 DEF r
<1> QED BY <1>1, <1>2, <1>3

(* A whole divisor more leaves the remainder.                                *)
LEMMA Round ==
  ASSUME NEW N \in Nat \ {0}, NEW a \in Nat
  PROVE  (a + N) % N = a % N
<1> DEFINE r == a % N
           p == a \div N
<1>1. r \in 0 .. N - 1 /\ p \in Nat /\ a = N * p + r
  BY DivMod
<1> HIDE DEF r, p
<1>2. (N * (p + 1) + r) % N = r
  BY <1>1, Rest
<1>3. a + N = N * (p + 1) + r
  BY <1>1
<1> QED BY <1>2, <1>3 DEF r

--------------------------------------------------------------------------------
(* Types and indices, whatever the schedule.                                 *)

(* spmcI32_init sets up the types and the index counts.                     *)
LEMMA InitTypes == Init => TypeOK /\ Counts
<1> SUFFICES ASSUME Init
             PROVE  TypeOK /\ Counts
  OBVIOUS
<1>1. 0 % Capacity = 0
  <2>1. (Capacity * 0 + 0) % Capacity = 0
    BY CapacityAssumption, Rest
  <2> QED BY <2>1, CapacityAssumption
<1>2. TypeOK
  <2>1. << >> \in Seq(Items \cup {Garbage})
    OBVIOUS
  <2>2. 0 \in Slots
    BY CapacityAssumption DEF Slots
  <2>3. got \in [Consumers -> Seq(Items \cup {Garbage})]
    BY <2>1 DEF Init
  <2> QED BY <2>2, <2>3, MaxItemsAssumption DEF Init, TypeOK
<1>3. Counts
  BY <1>1 DEF Init, Counts
<1> QED BY <1>2, <1>3

(* Moving an index on is counting one more.                                 *)
LEMMA Indices ==
  ASSUME TypeOK, Counts
  PROVE  /\ After(head) = (taken + 1) % Capacity
         /\ After(tail) = (enqueued + 1) % Capacity
<1>1. taken \in Nat /\ enqueued \in Nat
  BY MaxItemsAssumption DEF TypeOK
<1>2. ((taken % Capacity) + 1) % Capacity = (taken + 1) % Capacity
  BY <1>1, CapacityAssumption, Step
<1>3. ((enqueued % Capacity) + 1) % Capacity = (enqueued + 1) % Capacity
  BY <1>1, CapacityAssumption, Step
<1> QED BY <1>2, <1>3 DEF After, Counts

(* No step leaves the types or breaks the index counts.                     *)
LEMMA NextTypes == TypeOK /\ Counts /\ [Next]_vars => TypeOK' /\ Counts'
<1> SUFFICES ASSUME TypeOK, Counts, [Next]_vars
             PROVE  TypeOK' /\ Counts'
  OBVIOUS
<1> USE CapacityAssumption, MaxItemsAssumption
<1>a. After(head) = (taken + 1) % Capacity /\ After(tail) = (enqueued + 1) % Capacity
  BY Indices
<1>b. After(head) \in Slots /\ After(tail) \in Slots
  <2>1. taken + 1 \in Nat /\ enqueued + 1 \in Nat
    BY DEF TypeOK
  <2> QED BY <1>a, <2>1, DivMod DEF Slots
<1>1. CASE UNCHANGED vars
  BY <1>1 DEF vars, ring, history, TypeOK, Counts
<1>2. CASE EnqueueCheck
  BY <1>2 DEF EnqueueCheck, RecordOvertaking, ring, TypeOK, Counts
<1>3. CASE EnqueueFull
  BY <1>3, <1>1 DEF EnqueueFull
<1>4. CASE EnqueueWrite
  <2>1. enqueued \in Items
    BY <1>4 DEF EnqueueWrite, TypeOK, Counts, Items
  <2> QED BY <1>4, <2>1 DEF EnqueueWrite, history, TypeOK, Counts, Slots
<1>5. CASE EnqueuePublish
  BY <1>5, <1>a, <1>b DEF EnqueuePublish, RecordOvertaking, TypeOK, Counts
<1>6. ASSUME NEW c \in Consumers, Dequeue(c)
      PROVE  TypeOK' /\ Counts'
  <2>1. CASE DequeueLoadHead(c)
    BY <2>1 DEF DequeueLoadHead, ring, TypeOK, Counts
  <2>2. CASE DequeueEmpty(c)
    BY <2>2 DEF DequeueEmpty, ring, history, TypeOK, Counts
  <2>3. CASE DequeueNonempty(c)
    BY <2>3 DEF DequeueNonempty, ring, history, TypeOK, Counts
  <2>4. CASE DequeueCasFails(c)
    BY <2>4 DEF DequeueCasFails, ring, history, TypeOK, Counts
  <2>5. CASE DequeueCas(c)
    <3>1. TypeOK'
      BY <2>5, <1>b DEF DequeueCas, TypeOK
    <3>2. Counts'
      BY <2>5, <1>a DEF DequeueCas, TypeOK, Counts
    <3> QED BY <3>1, <3>2
  <2>6. CASE DequeueRead(c)
    <3>1. items[chead[c]] \in Items \cup {Garbage}
      BY DEF TypeOK
    <3>2. Append(got[c], items[chead[c]]) \in Seq(Items \cup {Garbage})
      BY <3>1 DEF TypeOK
    <3> QED BY <2>6, <3>2 DEF DequeueRead, ring, TypeOK, Counts
  <2> QED BY <1>6, <2>1, <2>2, <2>3, <2>4, <2>5, <2>6 DEF Dequeue
<1> QED BY <1>1, <1>2, <1>3, <1>4, <1>5, <1>6 DEF Next, Enqueue

(* TypeOK: the locals and the ring of spmcI32_enqueue and spmcI32_dequeue    *)
(* stay in range on every schedule, and head and tail are the numbers of     *)
(* dequeues and enqueues modulo the capacity.                                *)
THEOREM TypeCorrect == Spec => []TypeOK
<1>1. Spec => [](TypeOK /\ Counts)
  BY InitTypes, NextTypes, PTL DEF Spec
<1> QED BY <1>1, PTL

--------------------------------------------------------------------------------
(* The inductive invariant, while nobody is overtaken.                       *)

(* A step that changes neither what was handed out nor what is claimed.      *)
LEMMA DeliveryFrame ==
  ASSUME Delivery, got' = got, taken' = taken,
         \A d \in Consumers : /\ cpc'[d] = "read" <=> cpc[d] = "read"
                              /\ cpc[d] = "read" => snap'[d] = snap[d]
  PROVE  Delivery'
<1>1. Handed'
  BY DEF Delivery, Handed
<1>2. Unique' /\ Ordered'
  BY DEF Delivery, Unique, Ordered
<1>3. ClaimedApart'
  BY DEF Delivery, ClaimedApart
<1>4. Accounted'
  <2>1. ASSUME NEW k \in 0 .. taken - 1
        PROVE  Delivered(k)' \/ \E c \in Consumers : cpc'[c] = "read" /\ snap'[c] = k
    BY DEF Delivery, Accounted, Delivered
  <2> QED BY <2>1 DEF Accounted
<1> QED BY <1>1, <1>2, <1>3, <1>4 DEF Delivery

(* A step that changes none of the variables preserves the invariant.       *)
LEMMA Stutter ==
  ASSUME IInv, UNCHANGED vars, ~overtaken'
  PROVE  (InStep /\ Memory /\ Delivery)'
<1>1. InStep /\ Memory /\ Delivery
  BY DEF IInv, vars, history
<1>2. (InStep /\ Memory)'
  BY <1>1 DEF InStep, Memory, Cleared, Overtaken, vars, ring, history
<1>3. Delivery'
  BY <1>1, DeliveryFrame DEF vars, history
<1> QED BY <1>2, <1>3

(* The empty ring satisfies the invariant.                                  *)
LEMMA InitIInv == Init => IInv
<1> SUFFICES ASSUME Init
             PROVE  IInv
  OBVIOUS
<1>1. TypeOK /\ Counts
  BY InitTypes
<1>2. InStep
  BY CapacityAssumption DEF Init, InStep, Cleared, Overtaken
<1>3. Memory
  BY DEF Init, Memory
<1>4. Delivery
  BY DEF Init, Delivery, Handed, Unique, Ordered, ClaimedApart, Accounted
<1> QED BY <1>1, <1>2, <1>3, <1>4 DEF IInv

(* The enqueue keeps the free slot, and never touches a slot that holds a    *)
(* queued or a claimed item.                                                 *)
LEMMA EnqueueIInv ==
  ASSUME IInv, Enqueue, ~overtaken', TypeOK', Counts'
  PROVE  (InStep /\ Memory /\ Delivery)'
<1> USE CapacityAssumption, MaxItemsAssumption
<1>t. TypeOK /\ Counts
  BY DEF IInv
<1>1. CASE EnqueueCheck
  <2>1. ~overtaken /\ \A c \in Consumers : ~Overtaken(c)'
    BY <1>1 DEF EnqueueCheck, RecordOvertaking
  <2>2. InStep /\ Memory /\ Delivery
    BY <2>1 DEF IInv
  <2>3. enqueued + 1 - taken < Capacity
    <3>1. enqueued \in Nat /\ taken \in Nat /\ enqueued - taken < Capacity
      BY <1>1, <1>t, <2>2 DEF EnqueueCheck, InStep, Cleared, TypeOK
    <3>2. (enqueued + 1) % Capacity # taken % Capacity
      BY <1>1, <1>t, Indices DEF EnqueueCheck, Counts
    <3>3. enqueued + 1 # taken + Capacity
      BY <3>1, <3>2, Round
    <3> QED BY <3>1, <3>3
  <2>4. InStep'
    BY <1>1, <1>t, <2>1, <2>2, <2>3 DEF EnqueueCheck, InStep, Cleared, ring, TypeOK
  <2>5. Memory'
    BY <1>1, <2>2 DEF EnqueueCheck, Memory, ring
  <2>6. Delivery'
    BY <1>1, <2>2, DeliveryFrame DEF EnqueueCheck
  <2> QED BY <2>4, <2>5, <2>6
<1>2. CASE EnqueueFull
  <2>1. UNCHANGED vars
    BY <1>2 DEF EnqueueFull
  <2> QED BY <2>1, Stutter
<1>3. CASE EnqueueWrite
  <2>1. InStep /\ Memory /\ Delivery
    BY <1>3 DEF EnqueueWrite, IInv, history
  <2>2. /\ enqueued \in Nat /\ taken \in Nat /\ taken <= enqueued
        /\ enqueued + 1 - taken < Capacity
        /\ tail = enqueued % Capacity /\ tail \in Slots
    BY <1>3, <1>t, <2>1 DEF EnqueueWrite, InStep, Cleared, TypeOK, Counts
  <2>3. InStep'
    BY <1>3, <1>t, <2>1 DEF EnqueueWrite, InStep, Cleared, Overtaken, history, TypeOK
  <2>4. ASSUME NEW k \in taken .. enqueued - 1
        PROVE  items'[k % Capacity] = k
    <3>1. k \in Nat /\ k < enqueued /\ enqueued < k + Capacity
      BY <2>2
    <3>2. k % Capacity # enqueued % Capacity
      BY <3>1, <2>2, Apart
    <3>3. k % Capacity \in Slots
      BY <3>1, DivMod DEF Slots
    <3>4. items[k % Capacity] = k
      BY <2>1 DEF Memory
    <3> QED BY <1>3, <1>t, <2>2, <3>2, <3>3, <3>4 DEF EnqueueWrite, TypeOK
  <2>5. ASSUME NEW c \in Consumers, cpc[c] = "read"
        PROVE  items'[chead[c]] = snap[c]
    <3>1. /\ snap[c] \in Nat /\ snap[c] < enqueued /\ enqueued < snap[c] + Capacity
          /\ chead[c] = snap[c] % Capacity /\ chead[c] \in Slots
      <4>1. snap[c] \in Nat /\ snap[c] < taken /\ ~(enqueued + 1 > snap[c] + Capacity)
        BY <1>3, <1>t, <2>1, <2>5 DEF EnqueueWrite, InStep, Overtaken, Cleared, TypeOK
      <4>2. snap[c] < enqueued /\ enqueued < snap[c] + Capacity
        BY <4>1, <2>2
      <4>3. chead[c] = snap[c] % Capacity /\ chead[c] \in Slots
        BY <1>t, <2>5 DEF TypeOK, Counts
      <4> QED BY <4>1, <4>2, <4>3
    <3>2. snap[c] % Capacity # enqueued % Capacity
      BY <3>1, <2>2, Apart
    <3> QED BY <1>3, <1>t, <2>1, <2>2, <2>5, <3>1, <3>2 DEF EnqueueWrite, Memory, TypeOK
  <2>6. Memory'
    BY <1>3, <1>t, <2>2, <2>4, <2>5 DEF EnqueueWrite, Memory, history, TypeOK
  <2>7. Delivery'
    BY <1>3, <2>1, DeliveryFrame DEF EnqueueWrite, history
  <2> QED BY <2>3, <2>6, <2>7
<1>4. CASE EnqueuePublish
  <2>1. ~overtaken /\ \A c \in Consumers : ~Overtaken(c)'
    BY <1>4 DEF EnqueuePublish, RecordOvertaking
  <2>2. InStep /\ Memory /\ Delivery
    BY <2>1 DEF IInv
  <2>3. InStep'
    BY <1>4, <1>t, <2>1, <2>2 DEF EnqueuePublish, InStep, Cleared, TypeOK
  <2>4. Memory'
    <3>1. /\ items[enqueued % Capacity] = enqueued
          /\ \A k \in taken .. enqueued - 1 : items[k % Capacity] = k
          /\ \A c \in Consumers : cpc[c] = "read" => items[chead[c]] = snap[c]
      BY <1>4, <1>t, <2>2 DEF EnqueuePublish, Memory, Counts
    <3>2. \A k \in taken .. enqueued : items[k % Capacity] = k
      <4>1. taken \in Nat /\ enqueued \in Nat
        BY <1>t DEF TypeOK
      <4>2. \A k \in taken .. enqueued : k = enqueued \/ k \in taken .. enqueued - 1
        BY <4>1
      <4> QED BY <3>1, <4>2
    <3>3. /\ ppc' = "idle" /\ enqueued' - 1 = enqueued
          /\ UNCHANGED <<items, taken, cpc, chead, snap>>
      BY <1>4, <1>t DEF EnqueuePublish, TypeOK
    <3> QED BY <3>1, <3>2, <3>3 DEF Memory
  <2>5. Delivery'
    BY <1>4, <2>2, DeliveryFrame DEF EnqueuePublish
  <2> QED BY <2>3, <2>4, <2>5
<1> QED BY <1>1, <1>2, <1>3, <1>4 DEF Enqueue

(* A compare-and-swap that succeeds claims the oldest queued item: head      *)
(* cannot have come back to the index the consumer loaded.                   *)
LEMMA CasTakesOldest ==
  ASSUME IInv, ~overtaken, NEW c \in Consumers, DequeueCas(c)
  PROVE  snap[c] = taken /\ taken < enqueued
<1> USE CapacityAssumption
<1>1. /\ snap[c] \in Nat /\ taken \in Nat /\ enqueued \in Nat
      /\ snap[c] <= taken /\ taken <= enqueued
      /\ snap[c] < enqueued /\ enqueued < snap[c] + Capacity
      /\ snap[c] % Capacity = taken % Capacity
  <2>1. snap[c] \in Nat /\ taken \in Nat /\ enqueued \in Nat
    BY MaxItemsAssumption DEF IInv, TypeOK
  <2>2. taken <= enqueued /\ snap[c] < enqueued /\ ~(enqueued >= snap[c] + Capacity)
    BY DEF DequeueCas, IInv, InStep, Overtaken
  <2>3. snap[c] <= taken /\ snap[c] % Capacity = taken % Capacity
    BY DEF DequeueCas, IInv, Counts
  <2> QED BY <2>1, <2>2, <2>3
<1>2. snap[c] = taken
  <2>1. CASE snap[c] < taken
    <3>1. taken < snap[c] + Capacity
      BY <1>1
    <3> QED BY <1>1, <2>1, <3>1, Apart
  <2> QED BY <1>1, <2>1
<1> QED BY <1>1, <1>2

(* Every step of a dequeue preserves the invariant.                         *)
LEMMA DequeueIInv ==
  ASSUME IInv, NEW c \in Consumers, Dequeue(c), ~overtaken', TypeOK', Counts'
  PROVE  (InStep /\ Memory /\ Delivery)'
<1> USE CapacityAssumption, MaxItemsAssumption
<1>t. TypeOK /\ Counts
  BY DEF IInv
<1>o. ~overtaken
  BY DEF Dequeue, DequeueLoadHead, DequeueEmpty, DequeueNonempty, DequeueCasFails,
         DequeueCas, DequeueRead, history
<1>i. InStep /\ Memory /\ Delivery
  BY <1>o DEF IInv
<1>1. CASE DequeueLoadHead(c)
  <2>1. InStep'
    BY <1>1, <1>t, <1>i DEF DequeueLoadHead, InStep, Overtaken, Cleared, TypeOK
  <2>2. Memory'
    BY <1>1, <1>t, <1>i DEF DequeueLoadHead, Memory, ring, TypeOK
  <2>3. Delivery'
    BY <1>1, <1>t, <1>i, DeliveryFrame DEF DequeueLoadHead, TypeOK
  <2> QED BY <2>1, <2>2, <2>3
<1>2. CASE DequeueEmpty(c)
  <2>1. InStep'
    BY <1>2, <1>t, <1>i DEF DequeueEmpty, InStep, Overtaken, Cleared, TypeOK, history
  <2>2. Memory'
    BY <1>2, <1>t, <1>i DEF DequeueEmpty, Memory, ring, TypeOK, history
  <2>3. Delivery'
    BY <1>2, <1>t, <1>i, DeliveryFrame DEF DequeueEmpty, TypeOK, history
  <2> QED BY <2>1, <2>2, <2>3
<1>3. CASE DequeueNonempty(c)
  <2>1. snap[c] < enqueued
    BY <1>3, <1>t, <1>i DEF DequeueNonempty, InStep, TypeOK, Counts
  <2>2. InStep'
    BY <1>3, <1>t, <1>i, <2>1 DEF DequeueNonempty, InStep, Overtaken, Cleared, TypeOK, history
  <2>3. Memory'
    BY <1>3, <1>t, <1>i DEF DequeueNonempty, Memory, ring, TypeOK, history
  <2>4. Delivery'
    BY <1>3, <1>t, <1>i, DeliveryFrame DEF DequeueNonempty, TypeOK, history
  <2> QED BY <2>2, <2>3, <2>4
<1>4. CASE DequeueCasFails(c)
  <2>1. InStep'
    BY <1>4, <1>t, <1>i DEF DequeueCasFails, InStep, Overtaken, Cleared, TypeOK, history
  <2>2. Memory'
    BY <1>4, <1>t, <1>i DEF DequeueCasFails, Memory, ring, TypeOK, history
  <2>3. Delivery'
    BY <1>4, <1>t, <1>i, DeliveryFrame DEF DequeueCasFails, TypeOK, history
  <2> QED BY <2>1, <2>2, <2>3
<1>5. CASE DequeueCas(c)
  <2>1. snap[c] = taken /\ taken < enqueued
    BY <1>5, <1>o, CasTakesOldest
  <2>2. taken \in Nat /\ enqueued \in Nat
    BY <1>t DEF TypeOK
  <2>3. InStep'
    BY <1>5, <1>t, <1>i, <2>1 DEF DequeueCas, InStep, Overtaken, Cleared, TypeOK
  <2>4. items[chead[c]] = snap[c]
    <3>1. taken \in taken .. enqueued - 1
      BY <2>1, <2>2
    <3>2. items[taken % Capacity] = taken
      BY <3>1, <1>i DEF Memory
    <3> QED BY <3>2, <1>5, <1>t, <2>1 DEF DequeueCas, Counts
  <2>5. Memory'
    <3>1. \A k \in taken + 1 .. enqueued - 1 : items[k % Capacity] = k
      <4>1. \A k \in taken + 1 .. enqueued - 1 : k \in taken .. enqueued - 1
        BY <2>2
      <4> QED BY <4>1, <1>i DEF Memory
    <3>2. \A d \in Consumers : cpc'[d] = "read" => items[chead[d]] = snap[d]
      BY <1>5, <1>t, <1>i, <2>4 DEF DequeueCas, Memory, TypeOK
    <3>3. ppc = "publish" => items[tail] = enqueued
      BY <1>i DEF Memory
    <3>4. UNCHANGED <<items, tail, ppc, chead, enqueued, snap>> /\ taken' = taken + 1
      BY <1>5 DEF DequeueCas
    <3> QED BY <3>1, <3>2, <3>3, <3>4 DEF Memory
  <2>6. Delivery'
    <3>1. /\ cpc' = [cpc EXCEPT ![c] = "read"] /\ taken' = taken + 1
          /\ got' = got /\ snap' = snap
      BY <1>5 DEF DequeueCas
    <3>2. \A d \in Consumers : cpc[d] = "read" => snap[d] # snap[c]
      BY <1>i, <1>t, <2>1 DEF InStep, TypeOK
    <3>3. Handed'
      <4>1. \A d \in Consumers : \A i \in 1 .. Len(got[d]) : got[d][i] \in 0 .. taken - 1
        BY <1>i DEF Delivery, Handed
      <4>2. \A d \in Consumers : \A i \in 1 .. Len(got[d]) :
              got[d][i] \in 0 .. taken /\ got[d][i] < snap[c]
        BY <4>1, <2>1, <2>2
      <4> QED BY <3>1, <4>2, <1>t, <1>i, <2>1, <2>2 DEF Delivery, Handed, TypeOK
    <3>4. Unique' /\ Ordered'
      BY <3>1, <1>i DEF Delivery, Unique, Ordered
    <3>5. ClaimedApart'
      BY <3>1, <3>2, <1>i, <1>t DEF Delivery, ClaimedApart, TypeOK
    <3>6. Accounted'
      <4>1. ASSUME NEW k \in 0 .. taken
            PROVE  Delivered(k)' \/ \E d \in Consumers : cpc'[d] = "read" /\ snap[d] = k
        <5>1. CASE k = taken
          BY <5>1, <2>1, <3>1, <1>t DEF TypeOK
        <5>2. CASE k # taken
          <6>1. k \in 0 .. taken - 1
            BY <5>2, <2>2
          <6> QED BY <6>1, <3>1, <1>i, <1>t DEF Delivery, Accounted, Delivered, TypeOK
        <5> QED BY <5>1, <5>2
      <4>2. 0 .. taken' - 1 = 0 .. taken
        BY <3>1, <2>2
      <4> QED BY <4>1, <4>2, <3>1 DEF Accounted
    <3> QED BY <3>3, <3>4, <3>5, <3>6 DEF Delivery
  <2> QED BY <2>3, <2>5, <2>6
<1>6. CASE DequeueRead(c)
  <2>1. items[chead[c]] = snap[c]
    BY <1>6, <1>i DEF DequeueRead, Memory
  <2>2. InStep'
    BY <1>6, <1>t, <1>i DEF DequeueRead, InStep, Overtaken, Cleared, TypeOK
  <2>3. Memory'
    BY <1>6, <1>t, <1>i DEF DequeueRead, Memory, ring, TypeOK
  <2>4. Delivery'
    <3>1. /\ cpc[c] = "read" /\ cpc' = [cpc EXCEPT ![c] = "load"]
          /\ got' = [got EXCEPT ![c] = Append(@, snap[c])]
          /\ taken' = taken /\ snap' = snap
      BY <1>6, <2>1 DEF DequeueRead
    <3>2. snap[c] \in 0 .. taken - 1
      BY <1>t, <1>i, <3>1 DEF InStep, TypeOK
    <3>3. /\ got[c] \in Seq(Items \cup {Garbage}) /\ snap[c] \in Nat
          /\ \A d \in Consumers : got'[d] = IF d = c THEN Append(got[c], snap[c]) ELSE got[d]
          /\ \A d \in Consumers : cpc'[d] = "read" <=> d # c /\ cpc[d] = "read"
      BY <3>1, <1>t DEF TypeOK
    <3>4. /\ Len(got'[c]) = Len(got[c]) + 1
          /\ \A i \in 1 .. Len(got[c]) : got'[c][i] = got[c][i]
          /\ got'[c][Len(got[c]) + 1] = snap[c]
          /\ Len(got[c]) \in Nat
      <4>1. snap[c] \in Items \cup {Garbage}
        BY <1>t, <2>1 DEF TypeOK
      <4>2. got'[c] = Append(got[c], snap[c])
        BY <3>3
      <4> QED BY <3>3, <4>1, <4>2
    <3>5. \A i \in 1 .. Len(got'[c]) : i \in 1 .. Len(got[c]) \/ i = Len(got[c]) + 1
      BY <3>4
    <3>6. Handed'
      BY <3>1, <3>2, <3>3, <3>4, <3>5, <1>i DEF Delivery, Handed, ClaimedApart
    <3>7. Unique'
      BY <3>1, <3>3, <3>4, <3>5, <1>i DEF Delivery, Handed, Unique
    <3>8. Ordered'
      BY <3>1, <3>3, <3>4, <3>5, <1>i DEF Delivery, Handed, Ordered
    <3>9. ClaimedApart'
      BY <3>1, <3>3, <1>i DEF Delivery, ClaimedApart
    <3>10. Accounted'
      <4>1. \A k : Delivered(k) => Delivered(k)'
        BY <3>3, <3>4 DEF Delivered
      <4>2. Delivered(snap[c])'
        <5>1. Len(got[c]) + 1 \in 1 .. Len(got'[c])
          BY <3>4
        <5> QED BY <3>1, <3>4, <5>1 DEF Delivered
      <4> QED BY <3>1, <3>3, <4>1, <4>2, <1>i DEF Delivery, Accounted
    <3> QED BY <3>6, <3>7, <3>8, <3>9, <3>10 DEF Delivery
  <2> QED BY <2>2, <2>3, <2>4
<1> QED BY <1>1, <1>2, <1>3, <1>4, <1>5, <1>6 DEF Dequeue

(* Every step preserves the invariant.                                      *)
LEMMA NextIInv == IInv /\ [Next]_vars => IInv'
<1> SUFFICES ASSUME IInv, [Next]_vars
             PROVE  IInv'
  OBVIOUS
<1>1. TypeOK' /\ Counts'
  BY NextTypes DEF IInv
<1>2. ASSUME ~overtaken'
      PROVE  (InStep /\ Memory /\ Delivery)'
  <2>1. CASE UNCHANGED vars
    BY <1>2, <2>1, Stutter
  <2>2. CASE Enqueue
    BY <1>1, <1>2, <2>2, EnqueueIInv
  <2>3. ASSUME NEW c \in Consumers, Dequeue(c)
        PROVE  (InStep /\ Memory /\ Delivery)'
    BY <1>1, <1>2, <2>3, DequeueIInv
  <2> QED BY <2>1, <2>2, <2>3 DEF Next
<1> QED BY <1>1, <1>2 DEF IInv

(* IInv: on every schedule, the queue stays consistent for as long as no     *)
(* consumer has been overtaken.                                              *)
THEOREM Inductive == Spec => []IInv
  BY InitIInv, NextIInv, PTL DEF Spec

--------------------------------------------------------------------------------
(* What the invariant gives.                                                 *)

(* RingAgrees: the full and the empty test of the code are right.            *)
THEOREM RingSound == Spec => []RingAgrees
<1>1. IInv => RingAgrees
  <2> SUFFICES ASSUME IInv, ~overtaken
               PROVE  /\ taken <= enqueued
                      /\ enqueued - taken < Capacity
                      /\ (head = tail) <=> (taken = enqueued)
                      /\ (After(tail) = head) <=> (enqueued - taken = Capacity - 1)
    BY DEF RingAgrees
  <2> USE CapacityAssumption, MaxItemsAssumption
  <2>1. /\ taken \in Nat /\ enqueued \in Nat /\ taken <= enqueued
        /\ enqueued < taken + Capacity
        /\ head = taken % Capacity /\ tail = enqueued % Capacity
        /\ After(tail) = (enqueued + 1) % Capacity
    <3>1. TypeOK /\ Counts /\ InStep
      BY DEF IInv
    <3>2. taken \in Nat /\ enqueued \in Nat
      BY <3>1 DEF TypeOK
    <3> QED BY <3>1, <3>2, Indices DEF InStep, Cleared, Counts
  <2>2. (head = tail) <=> (taken = enqueued)
    <3>1. CASE taken = enqueued
      BY <2>1, <3>1
    <3>2. CASE taken < enqueued
      BY <2>1, <3>2, Apart
    <3> QED BY <2>1, <3>1, <3>2
  <2>3. (After(tail) = head) <=> (enqueued - taken = Capacity - 1)
    <3>1. CASE enqueued + 1 = taken + Capacity
      <4>1. (taken + Capacity) % Capacity = taken % Capacity
        BY <2>1, Round
      <4>2. After(tail) = head
        BY <2>1, <3>1, <4>1
      <4> QED BY <2>1, <3>1, <4>2
    <3>2. CASE enqueued + 1 < taken + Capacity
      <4>1. enqueued + 1 \in Nat /\ taken < enqueued + 1
        BY <2>1
      <4>2. taken % Capacity # (enqueued + 1) % Capacity
        BY <2>1, <3>2, <4>1, Apart
      <4> QED BY <2>1, <3>2, <4>2
    <3> QED BY <2>1, <3>1, <3>2
  <2> QED BY <2>1, <2>2, <2>3
<1> QED BY <1>1, Inductive, PTL

(* DeliveredOnce: no socket is handed out twice, and none that never was.    *)
THEOREM OnceSound == Spec => []DeliveredOnce
<1>1. IInv => DeliveredOnce
  <2> SUFFICES ASSUME IInv, ~overtaken, NEW c \in Consumers, NEW d \in Consumers,
                      NEW i \in 1 .. Len(got[c]), NEW j \in 1 .. Len(got[d])
               PROVE  got[c][i] # Garbage /\ (got[c][i] = got[d][j] => c = d /\ i = j)
    BY DEF DeliveredOnce
  <2>1. got[c][i] \in 0 .. taken - 1
    BY DEF IInv, Delivery, Handed
  <2>2. got[c][i] # Garbage
    BY <2>1 DEF Garbage
  <2> QED BY <2>2 DEF IInv, Delivery, Unique
<1> QED BY <1>1, Inductive, PTL

(* DeliveredInOrder: each worker gets its sockets in the order of accept.    *)
THEOREM OrderSound == Spec => []DeliveredInOrder
<1>1. IInv => DeliveredInOrder
  BY DEF IInv, Delivery, Ordered, DeliveredInOrder
<1> QED BY <1>1, Inductive, PTL

(* NothingLost: what left the queue is with a consumer or still in its slot. *)
THEOREM LossSound == Spec => []NothingLost
<1>1. IInv => NothingLost
  BY DEF IInv, Delivery, Accounted, Memory, NothingLost
<1> QED BY <1>1, Inductive, PTL

(* No step takes the free slot: what is published, and what the producer is  *)
(* cleared to write, stays less than the capacity ahead of head.             *)
LEMMA SlotKeptFree ==
  ASSUME IInv, ~overtaken, Next
  PROVE  Cleared' - taken' < Capacity
<1> USE CapacityAssumption, MaxItemsAssumption
<1>t. /\ TypeOK /\ Counts /\ Cleared - taken < Capacity
      /\ enqueued \in Nat /\ taken \in Nat /\ Cleared \in Nat
  BY DEF IInv, InStep, TypeOK, Cleared
<1>1. CASE EnqueueCheck
  <2>1. enqueued - taken < Capacity
    BY <1>1, <1>t DEF EnqueueCheck, Cleared
  <2>2. (enqueued + 1) % Capacity # taken % Capacity
    BY <1>1, <1>t, Indices DEF EnqueueCheck, Counts
  <2>3. enqueued + 1 # taken + Capacity
    BY <1>t, <2>2, Round
  <2> QED BY <1>1, <1>t, <2>1, <2>3 DEF EnqueueCheck, Cleared
<1>2. CASE EnqueueFull \/ EnqueueWrite \/ EnqueuePublish
  BY <1>2, <1>t
     DEF EnqueueFull, EnqueueWrite, EnqueuePublish, vars, history, Cleared
<1>3. ASSUME NEW d \in Consumers, Dequeue(d)
      PROVE  Cleared' - taken' < Capacity
  <2>1. Cleared' = Cleared /\ (taken' = taken \/ taken' = taken + 1)
    BY <1>3 DEF Dequeue, DequeueLoadHead, DequeueEmpty, DequeueNonempty, DequeueCasFails,
                DequeueCas, DequeueRead, history, Cleared
  <2>2. \A a, b, p \in Nat : a - b < Capacity /\ (p = b \/ p = b + 1) => a - p < Capacity
    OBVIOUS
  <2>3. taken' \in Nat
    BY <2>1, <1>t
  <2> QED BY <2>1, <2>2, <2>3, <1>t
<1> QED BY <1>1, <1>2, <1>3 DEF Next, Enqueue

(* OvertakenOnlyIfPassed: the full test of spmcI32_enqueue protects every    *)
(* consumer, between its load of head and its read of the slot, until        *)
(* another consumer has taken an item; only then can the producer come       *)
(* round to it.                                                              *)
THEOREM PassedSound == Spec => OvertakenOnlyIfPassed
<1>1. IInv /\ [Next]_vars =>
        [~overtaken => \A c \in Consumers : Overtaken(c)' => Passed(c)']_vars
  <2> SUFFICES ASSUME IInv, Next, ~overtaken, NEW c \in Consumers, Overtaken(c)'
               PROVE  Passed(c)'
    OBVIOUS
  <2> USE CapacityAssumption, MaxItemsAssumption
  <2>1. Cleared' - taken' < Capacity
    BY SlotKeptFree
  <2>2. TypeOK'
    BY NextTypes DEF IInv
  <2>3. taken' \in Nat /\ snap'[c] \in Nat /\ enqueued' \in Nat
    BY <2>2 DEF TypeOK
  <2>4. Cleared' \in Nat /\ enqueued' <= Cleared'
    <3>1. Cleared' = enqueued' + (IF ppc' = "idle" THEN 0 ELSE 1)
      BY DEF Cleared
    <3>2. \A e \in Nat : e + 0 \in Nat /\ e <= e + 0 /\ e + 1 \in Nat /\ e <= e + 1
      OBVIOUS
    <3> QED BY <2>3, <3>1, <3>2, Zenon
  <2>5. CASE cpc'[c] = "read"
    <3>1. Cleared' > snap'[c] + Capacity
      BY <2>5 DEF Overtaken
    <3>2. \A x, t, s \in Nat : x - t < Capacity /\ x > s + Capacity => t > s + 1
      OBVIOUS
    <3>3. taken' > snap'[c] + 1
      BY <2>1, <2>3, <2>4, <3>1, <3>2
    <3> QED BY <2>5, <3>3 DEF Passed
  <2>6. CASE cpc'[c] # "read"
    <3>1. enqueued' >= snap'[c] + Capacity
      BY <2>6 DEF Overtaken
    <3>2. \A x, e, t, s \in Nat :
            x - t < Capacity /\ e <= x /\ e >= s + Capacity => t > s + 0
      OBVIOUS
    <3>3. taken' > snap'[c] + 0
      BY <2>1, <2>3, <2>4, <3>1, <3>2
    <3> QED BY <2>6, <3>3 DEF Passed
  <2> QED BY <2>5, <2>6
<1> QED BY <1>1, Inductive, PTL DEF Spec, OvertakenOnlyIfPassed

(* EmptyMeansEmpty: "empty" is answered only of an empty queue.              *)
THEOREM EmptySound == Spec => EmptyMeansEmpty
<1>1. IInv /\ [Next]_vars =>
        [\A c \in Consumers :
           cpc[c] = "tail" /\ cpc'[c] = "load" /\ ~overtaken => taken = enqueued]_vars
  <2> SUFFICES ASSUME IInv, Next, ~overtaken, NEW c \in Consumers,
                      cpc[c] = "tail", cpc'[c] = "load"
               PROVE  taken = enqueued
    BY DEF vars
  <2> USE CapacityAssumption, MaxItemsAssumption
  <2>1. cpc # cpc'
    OBVIOUS
  <2>2. PICK d \in Consumers : Dequeue(d)
    BY <2>1 DEF Next, Enqueue, EnqueueCheck, EnqueueFull, EnqueueWrite, EnqueuePublish, vars
  <2>3. d = c
    BY <2>2 DEF Dequeue, DequeueLoadHead, DequeueEmpty, DequeueNonempty, DequeueCasFails,
                DequeueCas, DequeueRead, IInv, TypeOK
  <2>4. chead[c] = tail
    BY <2>2, <2>3 DEF Dequeue, DequeueLoadHead, DequeueEmpty, DequeueNonempty,
                DequeueCasFails, DequeueCas, DequeueRead, IInv, TypeOK
  <2>5. snap[c] \in Nat /\ enqueued \in Nat /\ taken \in Nat
    BY DEF IInv, TypeOK
  <2>6. snap[c] <= taken /\ taken <= enqueued /\ ~(enqueued >= snap[c] + Capacity)
    BY DEF IInv, InStep, Overtaken, Counts
  <2>7. snap[c] % Capacity = enqueued % Capacity
    BY <2>4 DEF IInv, Counts
  <2>8. CASE snap[c] < enqueued
    <3>1. enqueued < snap[c] + Capacity
      BY <2>5, <2>6
    <3> QED BY <2>5, <2>7, <2>8, <3>1, Apart
  <2> QED BY <2>5, <2>6, <2>8
<1> QED BY <1>1, Inductive, PTL DEF Spec, EmptyMeansEmpty

--------------------------------------------------------------------------------
(* One consumer.                                                             *)

(* NeverOvertaken: with a single worker the free slot keeps the producer     *)
(* from coming round to it, so all of the above holds without condition.     *)
THEOREM OneConsumer ==
  ASSUME NEW CONSTANT w, Consumers = {w}
  PROVE  Spec => []NeverOvertaken
<1> USE CapacityAssumption, MaxItemsAssumption
<1>1. Init => Alone /\ NeverOvertaken
  BY DEF Init, Alone, NeverOvertaken
<1>2. IInv /\ Alone /\ NeverOvertaken /\ [Next]_vars => Alone' /\ NeverOvertaken'
  <2> SUFFICES ASSUME IInv, Alone, ~overtaken, [Next]_vars
               PROVE  Alone' /\ ~overtaken'
    BY DEF NeverOvertaken
  <2>t. TypeOK /\ Counts /\ InStep
    BY DEF IInv
  <2>n. /\ taken \in Nat /\ enqueued \in Nat /\ snap[w] \in Nat
        /\ taken <= enqueued
    BY <2>t DEF TypeOK, InStep
  <2>1. CASE UNCHANGED vars
    BY <2>1 DEF vars, history, Alone
  <2>2. CASE EnqueueCheck
    <3>1. enqueued + 1 < taken + Capacity
      <4>1. (enqueued + 1) % Capacity # taken % Capacity
        BY <2>2, <2>t, Indices DEF EnqueueCheck, Counts
      <4>2. enqueued + 1 # taken + Capacity
        BY <2>n, <4>1, Round
      <4>3. enqueued - taken < Capacity
        BY <2>2, <2>t, <2>n DEF EnqueueCheck, InStep, Cleared
      <4> QED BY <2>n, <4>2, <4>3
    <3>2. Alone'
      BY <2>2 DEF EnqueueCheck, Alone
    <3>3. ~Overtaken(w)'
      BY <2>2, <2>n, <3>1, <3>2 DEF EnqueueCheck, Overtaken, Cleared, Alone
    <3> QED BY <2>2, <3>2, <3>3 DEF EnqueueCheck, RecordOvertaking
  <2>3. CASE EnqueueFull
    BY <2>3, <2>1 DEF EnqueueFull
  <2>4. CASE EnqueueWrite
    BY <2>4 DEF EnqueueWrite, history, Alone
  <2>5. CASE EnqueuePublish
    <3>1. enqueued + 1 < taken + Capacity
      BY <2>5, <2>t, <2>n DEF EnqueuePublish, InStep, Cleared
    <3>2. Alone'
      BY <2>5 DEF EnqueuePublish, Alone
    <3>3. ~Overtaken(w)'
      BY <2>5, <2>n, <3>1, <3>2 DEF EnqueuePublish, Overtaken, Cleared, Alone
    <3> QED BY <2>5, <3>2, <3>3 DEF EnqueuePublish, RecordOvertaking
  <2>6. CASE Dequeue(w)
    BY <2>6, <2>t, <2>n DEF Dequeue, DequeueLoadHead, DequeueEmpty, DequeueNonempty,
          DequeueCasFails, DequeueCas, DequeueRead, history, Alone, TypeOK
  <2> QED BY <2>1, <2>2, <2>3, <2>4, <2>5, <2>6 DEF Next, Enqueue
<1>3. Spec => [](Alone /\ NeverOvertaken)
  BY <1>1, <1>2, Inductive, PTL DEF Spec
<1> QED BY <1>3, PTL

--------------------------------------------------------------------------------
(* The refinement: the ring implements the FIFO queue.                       *)

(* n successive items from a on. *)
Run(a, n) == [i \in 1 .. n |-> a + i - 1]

(* A run is a sequence of its length.                                       *)
LEMMA RunIsSeq ==
  ASSUME NEW a \in Nat, NEW n \in Nat
  PROVE  Run(a, n) \in Seq(Nat) /\ Len(Run(a, n)) = n
  BY DEF Run

(* Appending the next item makes a longer run.                              *)
LEMMA RunAppend ==
  ASSUME NEW a \in Nat, NEW n \in Nat
  PROVE  Append(Run(a, n), a + n) = Run(a, n + 1)
<1>1. Run(a, n) \in Seq(Nat) /\ Len(Run(a, n)) = n
  BY RunIsSeq
<1>2. Run(a, n + 1) \in Seq(Nat) /\ Len(Run(a, n + 1)) = n + 1
  BY RunIsSeq
<1>3. Append(Run(a, n), a + n) \in Seq(Nat) /\ Len(Append(Run(a, n), a + n)) = n + 1
  BY <1>1
<1>4. \A i \in 1 .. n + 1 : Append(Run(a, n), a + n)[i] = Run(a, n + 1)[i]
  BY <1>1 DEF Run
<1> QED BY <1>2, <1>3, <1>4, SeqEqual

(* Taking the first item away leaves the run from the next one on.          *)
LEMMA RunTail ==
  ASSUME NEW a \in Nat, NEW n \in Nat \ {0}
  PROVE  /\ Run(a, n) # << >>
         /\ Head(Run(a, n)) = a
         /\ Tail(Run(a, n)) = Run(a + 1, n - 1)
<1>1. Run(a, n) \in Seq(Nat) /\ Len(Run(a, n)) = n
  BY RunIsSeq
<1>2. Run(a + 1, n - 1) \in Seq(Nat) /\ Len(Run(a + 1, n - 1)) = n - 1
  BY RunIsSeq
<1>3. Run(a, n) # << >>
  BY <1>1
<1>4. Head(Run(a, n)) = a
  BY <1>1, <1>3 DEF Run
<1>5. /\ Tail(Run(a, n)) \in Seq(Nat)
      /\ Len(Tail(Run(a, n))) = n - 1
      /\ \A i \in 1 .. n - 1 : Tail(Run(a, n))[i] = Run(a, n)[i + 1]
  BY <1>1, <1>3, HeadTailProperties
<1>6. \A i \in 1 .. n - 1 : Tail(Run(a, n))[i] = Run(a + 1, n - 1)[i]
  BY <1>5 DEF Run
<1>7. Tail(Run(a, n)) = Run(a + 1, n - 1)
  BY <1>2, <1>5, <1>6, SeqEqual
<1> QED BY <1>3, <1>4, <1>7

--------------------------------------------------------------------------------
(* What the refinement mapping is, in terms of the counts.                   *)
LEMMA ContentsAre ==
  ASSUME IInv, ~overtaken
  PROVE  /\ Contents = Run(taken, enqueued - taken)
         /\ enqueued - taken \in 0 .. Capacity - 1
<1> USE CapacityAssumption, MaxItemsAssumption
<1>1. /\ taken \in Nat /\ enqueued \in Nat
      /\ taken <= enqueued /\ enqueued - taken < Capacity
      /\ head = taken % Capacity /\ tail = enqueued % Capacity
  BY DEF IInv, TypeOK, Counts, InStep, Cleared
<1> DEFINE n == enqueued - taken
<1>2. n \in 0 .. Capacity - 1
  BY <1>1
<1>3. (tail - head) % Capacity = n
  <2> DEFINE p == taken \div Capacity
             q == enqueued \div Capacity
  <2>1. /\ p \in Nat /\ taken = Capacity * p + head
        /\ q \in Nat /\ enqueued = Capacity * q + tail
        /\ head \in 0 .. Capacity - 1 /\ tail \in 0 .. Capacity - 1
    BY <1>1, DivMod
  <2> HIDE DEF p, q
  <2>2. tail - head = n - Capacity * (q - p)
    BY <2>1
  <2>3. q - p \in {0, 1}
    <3>1. CASE q - p >= 2
      <4>1. Capacity * (q - p) >= Capacity * 2
        BY <2>1, <3>1, Z3
      <4> QED BY <2>1, <2>2, <1>2, <4>1
    <3>2. CASE q - p <= -1
      <4>1. Capacity * (q - p) <= -Capacity
        BY <2>1, <3>2, Z3
      <4> QED BY <2>1, <2>2, <1>2, <4>1
    <3> QED BY <2>1, <3>1, <3>2
  <2>4. CASE q = p
    <3>1. tail - head = n
      BY <2>1, <2>2, <2>4
    <3>2. (Capacity * 0 + n) % Capacity = n
      BY <1>2, Rest
    <3> QED BY <3>1, <3>2, <1>2
  <2>5. CASE q - p = 1
    <3>1. tail - head = n - Capacity
      BY <2>1, <2>2, <2>5
    <3>2. (tail - head) % Capacity = n
      BY <3>1, <1>2, <2>1, Z3
    <3> QED BY <3>2
  <2> QED BY <2>1, <2>3, <2>4, <2>5
<1>4. ASSUME NEW i \in 1 .. n
      PROVE  items[(head + i - 1) % Capacity] = taken + i - 1
  <2>1. taken + i - 1 \in taken .. enqueued - 1
    BY <1>1
  <2>2. items[(taken + i - 1) % Capacity] = taken + i - 1
    BY <2>1 DEF IInv, Memory
  <2>3. (head + i - 1) % Capacity = (taken + i - 1) % Capacity
    <3> DEFINE p == taken \div Capacity
               j == i - 1
               s == (head + j) \div Capacity
               r == (head + j) % Capacity
    <3>1. /\ p \in Nat /\ taken = Capacity * p + head /\ head \in 0 .. Capacity - 1
      BY <1>1, DivMod
    <3>2. j \in Nat /\ head + j \in Nat
      BY <3>1, <1>2
    <3>3. r \in 0 .. Capacity - 1 /\ s \in Nat /\ head + j = Capacity * s + r
      BY <3>2, DivMod
    <3> HIDE DEF p, r, s, j
    <3>4. (Capacity * (p + s) + r) % Capacity = r
      <4>1. p + s \in Nat
        BY <3>1, <3>3
      <4> QED BY <3>3, <4>1, Rest
    <3>5. taken + j = Capacity * (p + s) + r
      BY <3>1, <3>2, <3>3
    <3>6. (taken + j) % Capacity = (head + j) % Capacity
      BY <3>4, <3>5 DEF r
    <3> QED BY <3>6, <3>1, <1>1 DEF j
  <2> QED BY <2>2, <2>3
<1> QED BY <1>2, <1>3, <1>4 DEF Contents, Run

(* A claimed slot still holds the item that was claimed.                    *)
LEMMA ClaimedAre ==
  ASSUME IInv, ~overtaken
  PROVE  Claimed = [c \in Consumers |-> IF cpc[c] = "read" THEN snap[c] ELSE Garbage]
  BY DEF IInv, Memory, Claimed

(* The abstract variables as the counts determine them.                     *)
Mapped ==
  /\ Contents = Run(taken, enqueued - taken)
  /\ enqueued - taken \in 0 .. Capacity - 1
  /\ Claimed = [c \in Consumers |-> IF cpc[c] = "read" THEN snap[c] ELSE Garbage]

(* The invariant determines the abstract variables, now and after a step.   *)
LEMMA Mapping == IInv /\ ~overtaken => Mapped
  BY ContentsAre, ClaimedAre DEF Mapped

LEMMA MappingNext == (IInv /\ ~overtaken => Mapped)'
  BY Mapping, PTL

--------------------------------------------------------------------------------
(* The steps: publishing is Put, the compare-and-swap Take, reading the slot *)
(* HandOver, everything else a stutter.                                      *)

(* The empty ring is the empty queue.                                       *)
LEMMA InitRefines == Init => Fifo!Init
<1> SUFFICES ASSUME Init
             PROVE  Fifo!Init
  OBVIOUS
<1> USE CapacityAssumption DEF Init
<1>1. (Capacity * 0 + 0) % Capacity = 0
  BY Rest
<1>2. (tail - head) % Capacity = 0
  BY <1>1
<1>3. Contents = << >>
  BY <1>2 DEF Contents
<1>4. Claimed = [c \in Consumers |-> Garbage]
  BY DEF Claimed
<1> QED BY <1>3, <1>4 DEF Fifo!Init

(* Every step of the ring is a step of the queue or changes nothing of it.  *)
LEMMA StepRefines ==
  ASSUME IInv, IInv', ~overtaken, ~overtaken', [Next]_vars
  PROVE  [Fifo!Next]_(Fifo!vars)
<1> USE CapacityAssumption, MaxItemsAssumption
<1>1. Mapped /\ Mapped'
  BY Mapping, MappingNext
<1>2. taken \in Nat /\ enqueued \in Nat /\ taken <= enqueued
  BY DEF IInv, TypeOK, InStep
<1>3. CASE /\ taken' = taken /\ enqueued' = enqueued /\ got' = got
           /\ \A c \in Consumers : cpc'[c] = "read" <=> cpc[c] = "read"
           /\ \A c \in Consumers : cpc[c] = "read" => snap'[c] = snap[c]
  BY <1>1, <1>3 DEF Mapped, Fifo!vars
<1>4. CASE UNCHANGED vars
  BY <1>3, <1>4 DEF vars, history
<1>5. CASE EnqueueCheck \/ EnqueueFull \/ EnqueueWrite
  BY <1>3, <1>5 DEF EnqueueCheck, EnqueueFull, EnqueueWrite, vars, history
<1>6. CASE EnqueuePublish
  <2>1. /\ taken' = taken /\ enqueued' = enqueued + 1 /\ got' = got
        /\ cpc' = cpc /\ snap' = snap
    BY <1>6 DEF EnqueuePublish
  <2>2. Contents' = Append(Contents, enqueued)
    <3> DEFINE n == enqueued - taken
    <3>1. n \in Nat /\ taken + n = enqueued /\ enqueued + 1 - taken = n + 1
      BY <1>2
    <3>2. Contents = Run(taken, n) /\ Contents' = Run(taken, n + 1)
      <4>1. Contents' = Run(taken', enqueued' - taken')
        BY <1>1 DEF Mapped
      <4>2. taken' = taken /\ enqueued' - taken' = n + 1
        BY <1>2, <2>1
      <4>3. Contents' = Run(taken, n + 1)
        BY <4>1, <4>2
      <4> QED BY <1>1, <4>3 DEF Mapped
    <3> HIDE DEF n
    <3>3. Append(Run(taken, n), taken + n) = Run(taken, n + 1)
      BY <1>2, <3>1, RunAppend
    <3> QED BY <3>1, <3>2, <3>3
  <2>3. Claimed' = Claimed
    BY <1>1, <2>1 DEF Mapped
  <2>4. Len(Contents) < Capacity - 1
    <3>1. Len(Contents) = enqueued - taken
      BY <1>1, <1>2, RunIsSeq DEF Mapped
    <3> QED BY <1>1, <1>2, <2>1, <3>1 DEF Mapped
  <2>5. enqueued \in Items
    BY <1>6 DEF EnqueuePublish, IInv, Counts, TypeOK, Items
  <2> QED BY <2>1, <2>2, <2>3, <2>4, <2>5 DEF Fifo!Next, Fifo!Put
<1>7. ASSUME NEW c \in Consumers, Dequeue(c)
      PROVE  [Fifo!Next]_(Fifo!vars)
  <2>t. /\ cpc \in [Consumers -> {"load", "tail", "cas", "read"}]
        /\ snap \in [Consumers -> Nat]
        /\ got \in [Consumers -> Seq(Items \cup {Garbage})]
    BY DEF IInv, TypeOK
  <2>1. CASE DequeueLoadHead(c)
    BY <1>3, <2>1, <2>t DEF DequeueLoadHead
  <2>2. CASE DequeueEmpty(c) \/ DequeueNonempty(c) \/ DequeueCasFails(c)
    BY <1>3, <2>2, <2>t DEF DequeueEmpty, DequeueNonempty, DequeueCasFails, history
  <2>3. CASE DequeueCas(c)
    <3>1. /\ taken' = taken + 1 /\ enqueued' = enqueued /\ got' = got /\ snap' = snap
          /\ cpc' = [cpc EXCEPT ![c] = "read"] /\ cpc[c] = "cas"
      BY <2>3 DEF DequeueCas
    <3>2. enqueued - taken \in Nat \ {0}
      BY <1>1, <1>2, <3>1 DEF Mapped
    <3>3. /\ Contents # << >> /\ Head(Contents) = taken
          /\ Contents' = Tail(Contents)
      <4>1. /\ Run(taken, enqueued - taken) # << >>
            /\ Head(Run(taken, enqueued - taken)) = taken
            /\ Tail(Run(taken, enqueued - taken)) = Run(taken + 1, enqueued - taken - 1)
        BY <1>2, <3>2, RunTail
      <4>2. Contents' = Run(taken + 1, enqueued - (taken + 1))
        BY <1>1, <3>1 DEF Mapped
      <4>3. enqueued - (taken + 1) = enqueued - taken - 1
        BY <1>2
      <4> QED BY <1>1, <4>1, <4>2, <4>3 DEF Mapped
    <3>4. snap[c] = taken
      BY <2>3, CasTakesOldest
    <3>5. Claimed[c] = Garbage
      BY <1>1, <3>1 DEF Mapped
    <3>6. Claimed' = [Claimed EXCEPT ![c] = Head(Contents)]
      BY <1>1, <2>t, <3>1, <3>3, <3>4 DEF Mapped
    <3>7. Fifo!Take(c)
      BY <3>1, <3>3, <3>5, <3>6 DEF Fifo!Take
    <3> QED BY <3>7 DEF Fifo!Next
  <2>4. CASE DequeueRead(c)
    <3>1. /\ taken' = taken /\ enqueued' = enqueued /\ snap' = snap
          /\ cpc' = [cpc EXCEPT ![c] = "load"] /\ cpc[c] = "read"
          /\ got' = [got EXCEPT ![c] = Append(got[c], items[chead[c]])]
      BY <2>4 DEF DequeueRead
    <3>2. items[chead[c]] = Claimed[c] /\ Claimed[c] = snap[c]
      BY <1>1, <3>1 DEF Mapped, Claimed
    <3>3. Claimed[c] # Garbage
      BY <2>t, <3>2 DEF Garbage
    <3>4. Claimed' = [Claimed EXCEPT ![c] = Garbage]
      BY <1>1, <2>t, <3>1 DEF Mapped
    <3>5. Contents' = Contents
      BY <1>1, <3>1 DEF Mapped
    <3>6. Fifo!HandOver(c)
      BY <3>1, <3>2, <3>3, <3>4, <3>5 DEF Fifo!HandOver
    <3> QED BY <3>6 DEF Fifo!Next
  <2> QED BY <1>7, <2>1, <2>2, <2>3, <2>4 DEF Dequeue
<1> QED BY <1>4, <1>5, <1>6, <1>7 DEF Next, Enqueue

(* ImplementsFifo in the schedules in which no consumer is overtaken, for    *)
(* any number of workers.                                                    *)
THEOREM TimelyImplementsFifo == TimelySpec => ImplementsFifo
<1>1. Init => IInv /\ ~overtaken
  BY InitIInv DEF Init
<1>2. IInv /\ [Next /\ ~overtaken']_vars => IInv'
  BY NextIInv
<1>3. ~overtaken /\ [Next /\ ~overtaken']_vars => ~overtaken'
  BY DEF vars, history
<1>4. /\ IInv /\ IInv' /\ ~overtaken /\ ~overtaken'
      /\ [Next /\ ~overtaken']_vars
      => [Fifo!Next]_(Fifo!vars)
  BY StepRefines
<1> QED
  BY <1>1, <1>2, <1>3, <1>4, InitRefines, PTL DEF TimelySpec, ImplementsFifo, Fifo!Spec

(* FifoUntilOvertaken, for any number of workers and in every schedule.      *)
THEOREM RefinesUntilOvertaken == Spec => FifoUntilOvertaken
<1>1. [Next]_vars /\ overtaken => overtaken'
  <2> SUFFICES ASSUME [Next]_vars, overtaken
               PROVE  overtaken'
    OBVIOUS
  <2>1. UNCHANGED overtaken \/ RecordOvertaking
    BY DEF Next, Enqueue, Dequeue, EnqueueCheck, EnqueueFull, EnqueueWrite, EnqueuePublish,
           DequeueLoadHead, DequeueEmpty, DequeueNonempty, DequeueCas, DequeueCasFails,
           DequeueRead, vars, history
  <2> QED BY <2>1 DEF RecordOvertaking
<1>2. /\ IInv /\ IInv' /\ [Next]_vars
      => [overtaken' \/ Fifo!Next]_(Fifo!vars)
  BY <1>1, StepRefines
<1> QED
  BY <1>2, InitRefines, Inductive, PTL DEF Spec, FifoUntilOvertaken

(* ImplementsFifo with one worker, in every schedule.                        *)
THEOREM OneConsumerImplementsFifo ==
  ASSUME NEW CONSTANT w, Consumers = {w}
  PROVE  Spec => ImplementsFifo
<1>1. Spec => []NeverOvertaken
  BY OneConsumer
<1>2. /\ IInv /\ IInv' /\ NeverOvertaken /\ NeverOvertaken' /\ [Next]_vars
      => [Fifo!Next]_(Fifo!vars)
  BY StepRefines DEF NeverOvertaken
<1> QED
  BY <1>1, <1>2, InitRefines, Inductive, PTL DEF Spec, ImplementsFifo, Fifo!Spec
================================================================================
