---------------------------- MODULE SemaphoreProofs ----------------------------
(***************************************************************************)
(* Semaphore: the invariant and the refinement, for all sets of threads    *)
(* and all amounts.                                                        *)
(***************************************************************************)
EXTENDS Semaphore, FiniteSetTheorems, TLAPS

(* The sets of waiters counted by NoLostWakeup are finite.                   *)
LEMMA AwakeFinite == IsFiniteSet(Awake) /\ Cardinality(Awake) \in Nat
<1>1. Awake \subseteq Waiters
  BY DEF Awake, At
<1>2. IsFiniteSet(Awake)
  BY <1>1, ThreadsAssumption, FS_Subset
<1>. QED
  BY <1>2, FS_CardinalityType

(* The initial states satisfy the invariant: nobody is blocked.              *)
LEMMA InitInv == Init => SemInv
BY ThreadsAssumption, AmountAssumption
DEF Init, SemInv, TypeOK, Places, Inside, NoLostWakeup, Threads, At

(* Types and the mutex survive every step.                                   *)
LEMMA StepInside == SemInv /\ [Next]_vars => TypeOK' /\ Inside'
<1>. SUFFICES ASSUME TypeOK, Inside, [Next]_vars PROVE TypeOK' /\ Inside'
  BY DEF SemInv
<1>. USE ThreadsAssumption, AmountAssumption DEF TypeOK, Places, Inside, Threads
<1>1. ASSUME NEW p \in Posters, PostLock(p) PROVE TypeOK' /\ Inside'
  BY <1>1 DEF PostLock, Lock
<1>2. ASSUME NEW p \in Posters, Signal(p) PROVE TypeOK' /\ Inside'
  <2>1. CASE At("blocked") = {}
    BY <1>2, <2>1 DEF Signal
  <2>2. CASE At("blocked") # {}
    <3>1. PICK w \in At("blocked") : at' = [at EXCEPT ![w] = "woken"]
      BY <1>2, <2>2 DEF Signal
    <3>2. w \in Waiters /\ at[w] = "blocked"
      BY <3>1 DEF At
    <3>. QED
      BY <1>2, <3>1, <3>2 DEF Signal
  <2>. QED
    BY <2>1, <2>2
<1>3. ASSUME NEW p \in Posters, PostUnlock(p) PROVE TypeOK' /\ Inside'
  BY <1>3 DEF PostUnlock, Unlock
<1>4. ASSUME NEW w \in Waiters, WaitLock(w) \/ Relock(w) \/ RelockExpired(w)
      PROVE TypeOK' /\ Inside'
  BY <1>4 DEF WaitLock, Relock, RelockExpired, Lock
<1>5. ASSUME NEW w \in Waiters, TakePermit(w) PROVE TypeOK' /\ Inside'
  BY <1>5 DEF TakePermit, Unlock
<1>6. ASSUME NEW w \in Waiters, Block(w) PROVE TypeOK' /\ Inside'
  BY <1>6 DEF Block, Unlock
<1>7. ASSUME NEW w \in Waiters, GiveUp(w) PROVE TypeOK' /\ Inside'
  BY <1>7 DEF GiveUp, Unlock
<1>8. ASSUME NEW w \in Waiters, WakeSpuriously(w) \/ Expire(w) PROVE TypeOK' /\ Inside'
  BY <1>8 DEF WakeSpuriously, Expire
<1>9. CASE UNCHANGED vars
  BY <1>9 DEF vars
<1>. QED
  BY <1>1, <1>2, <1>3, <1>4, <1>5, <1>6, <1>7, <1>8, <1>9 DEF Next, Post, Wait

(* No step loses a wake-up.                                                  *)
LEMMA StepWakeup == SemInv /\ [Next]_vars => NoLostWakeup'
<1>. SUFFICES ASSUME SemInv, [Next]_vars PROVE NoLostWakeup'
  OBVIOUS
<1>. TypeOK /\ Inside /\ NoLostWakeup
  BY DEF SemInv
<1>fin. IsFiniteSet(Awake) /\ Cardinality(Awake) \in Nat
  BY AwakeFinite
<1>fin2. IsFiniteSet(Awake') /\ Cardinality(Awake)' \in Nat
  <2>1. Awake' \subseteq Waiters
    BY DEF Awake, At
  <2>. QED
    BY <2>1, ThreadsAssumption, FS_Subset, FS_CardinalityType
<1>typ. /\ count \in Nat /\ signals \in Nat /\ at \in [Threads -> Places]
        /\ Pending \in Nat
  BY DEF TypeOK, Pending
<1>1. ASSUME NEW p \in Posters, PostLock(p) PROVE NoLostWakeup'
  <2>1. Awake' = Awake /\ At("blocked")' = At("blocked")
    BY <1>1, <1>typ, ThreadsAssumption DEF PostLock, Lock, Awake, At, Threads
  <2>2. count' = count /\ Pending' = 0 /\ Pending = 0
    BY <1>1, ThreadsAssumption DEF PostLock, Lock, Pending, Threads
  <2>. QED
    BY <2>1, <2>2 DEF NoLostWakeup
<1>2. ASSUME NEW p \in Posters, Signal(p) PROVE NoLostWakeup'
  <2>1. owner = p /\ owner' = p /\ count' = count /\ Pending' = Pending + 1
    BY <1>2, <1>typ, ThreadsAssumption DEF Signal, Inside, Pending, Threads
  <2>2. CASE At("blocked") = {}
    BY <1>2, <2>2 DEF Signal, NoLostWakeup, At
  <2>3. CASE At("blocked") # {}
    <3>1. PICK w \in At("blocked") : at' = [at EXCEPT ![w] = "woken"]
      BY <1>2, <2>3 DEF Signal
    <3>2. Awake' = Awake \cup {w} /\ w \notin Awake
      BY <3>1, <1>typ DEF Awake, At, Threads
    <3>3. Cardinality(Awake') = Cardinality(Awake) + 1
      BY <3>2, <1>fin, FS_AddElement
    <3>4. Cardinality(Awake) >= count + Pending
      BY <2>3 DEF NoLostWakeup
    <3>. QED
      BY <2>1, <3>3, <3>4, <1>fin, <1>typ DEF NoLostWakeup
  <2>. QED
    BY <2>2, <2>3
<1>3. ASSUME NEW p \in Posters, PostUnlock(p) PROVE NoLostWakeup'
  <2>1. Awake' = Awake /\ At("blocked")' = At("blocked")
    BY <1>3, <1>typ, ThreadsAssumption DEF PostUnlock, Unlock, Awake, At, Threads
  <2>2. owner = p
    BY <1>3 DEF PostUnlock, Inside, Threads
  <2>3. Pending = signals /\ Pending' = 0 /\ count' = count + signals
    BY <2>2, <1>3, ThreadsAssumption DEF PostUnlock, Unlock, Pending, Threads
  <2>. QED
    BY <2>1, <2>3, <1>typ, <1>fin DEF NoLostWakeup
<1>4. ASSUME NEW w \in Waiters, WaitLock(w) PROVE NoLostWakeup'
  <2>1. Awake' = Awake \cup {w} /\ w \notin Awake /\ At("blocked")' = At("blocked")
    BY <1>4, <1>typ DEF WaitLock, Lock, Awake, At, Threads
  <2>2. Cardinality(Awake') = Cardinality(Awake) + 1
    BY <2>1, <1>fin, FS_AddElement
  <2>3. count' = count /\ Pending' = 0 /\ Pending = 0
    BY <1>4, ThreadsAssumption DEF WaitLock, Lock, Pending, Threads
  <2>. QED
    BY <2>1, <2>2, <2>3, <1>typ, <1>fin DEF NoLostWakeup
<1>5. ASSUME NEW w \in Waiters, TakePermit(w) PROVE NoLostWakeup'
  <2>1. Awake' = Awake \ {w} /\ w \in Awake /\ At("blocked")' = At("blocked")
    BY <1>5, <1>typ DEF TakePermit, Unlock, Awake, At, Threads
  <2>2. Cardinality(Awake') = Cardinality(Awake) - 1
    BY <2>1, <1>fin, FS_RemoveElement
  <2>3. owner = w
    BY <1>5 DEF TakePermit, Inside, Threads
  <2>4. count' = count - 1 /\ Pending' = 0 /\ Pending = 0
    BY <2>3, <1>5, ThreadsAssumption DEF TakePermit, Unlock, Pending, Threads
  <2>. QED
    BY <2>1, <2>2, <2>4, <1>typ, <1>fin DEF NoLostWakeup
<1>6. ASSUME NEW w \in Waiters, Block(w) PROVE NoLostWakeup'
  <2>1. count' = 0 /\ Pending' = 0
    BY <1>6, <1>typ, ThreadsAssumption DEF Block, Unlock, Pending, Threads
  <2>. QED
    BY <2>1, <1>fin2 DEF NoLostWakeup
<1>7. ASSUME NEW w \in Waiters, WakeSpuriously(w) PROVE NoLostWakeup'
  <2>1. Awake' = Awake \cup {w} /\ w \notin Awake /\ w \in At("blocked")
    BY <1>7, <1>typ DEF WakeSpuriously, Awake, At, Threads
  <2>2. Cardinality(Awake') = Cardinality(Awake) + 1
    BY <2>1, <1>fin, FS_AddElement
  <2>3. count' = count /\ Pending' = Pending
    BY <1>7 DEF WakeSpuriously, Pending
  <2>. QED
    BY <2>1, <2>2, <2>3, <1>typ, <1>fin DEF NoLostWakeup
<1>8. ASSUME NEW w \in Waiters, Expire(w) PROVE NoLostWakeup'
  <2>1. Awake' = Awake /\ w \in At("blocked")
    BY <1>8, <1>typ DEF Expire, Awake, At, Threads
  <2>2. count' = count /\ Pending' = Pending
    BY <1>8 DEF Expire, Pending
  <2>. QED
    BY <2>1, <2>2 DEF NoLostWakeup
<1>9. ASSUME NEW w \in Waiters, Relock(w) \/ RelockExpired(w) PROVE NoLostWakeup'
  <2>1. Awake' = Awake /\ At("blocked")' = At("blocked")
    BY <1>9, <1>typ DEF Relock, RelockExpired, Lock, Awake, At, Threads
  <2>2. count' = count /\ Pending' = 0 /\ Pending = 0
    BY <1>9, ThreadsAssumption DEF Relock, RelockExpired, Lock, Pending, Threads
  <2>. QED
    BY <2>1, <2>2 DEF NoLostWakeup
<1>10. ASSUME NEW w \in Waiters, GiveUp(w) PROVE NoLostWakeup'
  <2>1. Awake' = Awake /\ At("blocked")' = At("blocked")
    BY <1>10, <1>typ DEF GiveUp, Unlock, Awake, At, Threads
  <2>2. owner = w
    BY <1>10 DEF GiveUp, Inside, Threads
  <2>3. count' = count /\ Pending' = 0 /\ Pending = 0
    BY <2>2, <1>10, ThreadsAssumption DEF GiveUp, Unlock, Pending, Threads
  <2>. QED
    BY <2>1, <2>3 DEF NoLostWakeup
<1>11. CASE UNCHANGED vars
  BY <1>11 DEF vars, NoLostWakeup, Awake, At, Pending
<1>. QED
  BY <1>1, <1>2, <1>3, <1>4, <1>5, <1>6, <1>7, <1>8, <1>9, <1>10, <1>11
  DEF Next, Post, Wait

(* SemInv is an invariant, whatever threads call and however much is posted. *)
THEOREM SemaphoreInductive == Spec => []SemInv
<1>1. SemInv /\ [Next]_vars => SemInv'
  BY StepInside, StepWakeup DEF SemInv
<1>. QED
  BY InitInv, <1>1, PTL DEF Spec

(* The types hold, and the count never falls below zero.                     *)
THEOREM SemaphoreTypes == Spec => []TypeOK
<1>1. SemInv => TypeOK
  BY DEF SemInv
<1>. QED
  BY SemaphoreInductive, <1>1, PTL

(* No wake-up is ever lost, for any number of posters and waiters.           *)
THEOREM WakeupSound == Spec => []NoLostWakeup
<1>1. SemInv => NoLostWakeup
  BY DEF SemInv
<1>. QED
  BY SemaphoreInductive, <1>1, PTL

--------------------------------------------------------------------------------
(* The refinement.                                                          *)

(* What a step that changes one thread's place does to its outcome.          *)
LEMMA OutcomeStep ==
  ASSUME at \in [Threads -> Places], NEW t \in Threads, NEW place,
         at' = [at EXCEPT ![t] = place]
  PROVE  /\ place \notin Returned /\ at[t] \notin Returned => Outcome' = Outcome
         /\ place \in Returned => Outcome' = [Outcome EXCEPT ![t] = place]
BY DEF Outcome

(* Every step of the semaphore is a step of the abstract one, or none.       *)
LEMMA StepRefines == SemInv /\ [Next]_vars => [Promise!Next]_<<count, Outcome>>
<1>. SUFFICES ASSUME SemInv, [Next]_vars PROVE [Promise!Next]_<<count, Outcome>>
  OBVIOUS
<1>. TypeOK /\ Inside
  BY DEF SemInv
<1>typ. count \in Nat /\ at \in [Threads -> Places]
  BY DEF TypeOK
<1>1. ASSUME NEW p \in Posters, PostLock(p) PROVE UNCHANGED <<count, Outcome>>
  BY <1>1, <1>typ, OutcomeStep DEF Returned, PostLock, Lock, Threads
<1>2. ASSUME NEW p \in Posters, Signal(p) PROVE UNCHANGED <<count, Outcome>>
  <2>1. CASE At("blocked") = {}
    BY <1>2, <2>1 DEF Signal, Outcome
  <2>2. CASE At("blocked") # {}
    <3>1. PICK w \in At("blocked") : at' = [at EXCEPT ![w] = "woken"]
      BY <1>2, <2>2 DEF Signal
    <3>2. w \in Threads /\ at[w] = "blocked"
      BY <3>1 DEF At, Threads
    <3>. QED
      BY <1>2, <3>1, <3>2, <1>typ, OutcomeStep DEF Returned, Signal
  <2>. QED
    BY <2>1, <2>2
<1>3. ASSUME NEW p \in Posters, PostUnlock(p) PROVE Promise!Post(p)
  <2>1. Outcome[p] = "none"
    BY <1>3 DEF PostUnlock, Returned, Outcome, Threads
  <2>2. Outcome' = [Outcome EXCEPT ![p] = "posted"]
    BY <1>3, <1>typ, OutcomeStep DEF Returned, PostUnlock, Unlock, Threads
  <2>. QED
    BY <1>3, <2>1, <2>2 DEF PostUnlock, Promise!Post
<1>4. ASSUME NEW w \in Waiters, TakePermit(w) PROVE Promise!Acquire(w)
  <2>1. Outcome[w] = "none"
    BY <1>4 DEF TakePermit, Returned, Outcome, Threads
  <2>2. Outcome' = [Outcome EXCEPT ![w] = "ok"]
    BY <1>4, <1>typ, OutcomeStep DEF Returned, TakePermit, Unlock, Threads
  <2>. QED
    BY <1>4, <2>1, <2>2 DEF TakePermit, Promise!Acquire
<1>5. ASSUME NEW w \in Waiters, GiveUp(w) PROVE Promise!GiveUp(w)
  <2>1. Outcome[w] = "none" /\ w \in Timed
    BY <1>5 DEF GiveUp, Returned, Outcome, Threads, Inside
  <2>2. Outcome' = [Outcome EXCEPT ![w] = "timeout"]
    BY <1>5, <1>typ, OutcomeStep DEF Returned, GiveUp, Unlock, Threads
  <2>. QED
    BY <1>5, <2>1, <2>2 DEF GiveUp, Promise!GiveUp
<1>6. ASSUME NEW w \in Waiters, WaitLock(w) \/ Relock(w) \/ RelockExpired(w)
      PROVE UNCHANGED <<count, Outcome>>
  BY <1>6, <1>typ, OutcomeStep DEF Returned, WaitLock, Relock, RelockExpired, Lock, Threads
<1>7. ASSUME NEW w \in Waiters, Block(w) PROVE UNCHANGED <<count, Outcome>>
  BY <1>7, <1>typ, OutcomeStep DEF Returned, Block, Unlock, Threads
<1>8. ASSUME NEW w \in Waiters, WakeSpuriously(w) \/ Expire(w)
      PROVE UNCHANGED <<count, Outcome>>
  BY <1>8, <1>typ, OutcomeStep DEF Returned, WakeSpuriously, Expire, Threads
<1>9. CASE UNCHANGED vars
  BY <1>9 DEF vars, Outcome
<1>. QED
  BY <1>1, <1>2, <1>3, <1>4, <1>5, <1>6, <1>7, <1>8, <1>9 DEF Next, Post, Wait, Promise!Next

(* The initial states map to the abstract ones.                              *)
LEMMA InitRefines == Init => Promise!Init
BY DEF Init, Promise!Init, Outcome, Returned, Threads

(* os_semaphorePost and os_semaphoreWait implement a counting semaphore: a   *)
(* post adds all its permits, a wait takes exactly one or times out with     *)
(* none, for all threads and amounts.                                        *)
THEOREM SemaphoreRefines == Spec => ImplementsSemaphore
<1>. QED
  BY SemaphoreInductive, StepRefines, InitRefines, PTL
  DEF Spec, ImplementsSemaphore, Promise!Spec
================================================================================
