------------------------------- MODULE Semaphore -------------------------------
(***************************************************************************)
(* os_semaphorePost and os_semaphoreWait of base.c where a semaphore is a  *)
(* count, a mutex and a condition variable (not the dispatch semaphores of *)
(* Apple, which are the system's).  Each thread makes one call; a thread   *)
(* that makes several is several threads here.                             *)
(*                                                                         *)
(* Of the condition variable: waiting gives the mutex up and blocks in one *)
(* step; a signal wakes one blocked thread if there is one; a thread may   *)
(* wake spuriously; a timed wait that expires is no longer there for a     *)
(* signal.  A thread that wakes needs the mutex before it goes on.         *)
(***************************************************************************)
EXTENDS Integers, FiniteSets

CONSTANTS
  Posters, Waiters,  \* the threads, by the call they make
  Timed,             \* the waiters with a timeout (count # -1 in the code)
  Amount,            \* count of each post
  NoThread

ASSUME ThreadsAssumption ==
  /\ IsFiniteSet(Waiters) /\ Posters \cap Waiters = {}
  /\ Timed \subseteq Waiters
  /\ NoThread \notin Posters \cup Waiters
ASSUME AmountAssumption == Amount \in [Posters -> Nat]

VARIABLES
  owner,   \* the thread that holds si->mutex
  count,   \* si->count
  at,      \* where each thread is
  signals  \* ii: how often the poster in the mutex has signalled

vars == <<owner, count, at, signals>>

Threads == Posters \cup Waiters
At(place) == {t \in Waiters : at[t] = place}

Init ==
  /\ owner = NoThread
  /\ count = 0
  /\ at = [t \in Threads |-> "call"]
  /\ signals = 0

Lock(t, from, to) ==
  /\ at[t] = from /\ owner = NoThread
  /\ owner' = t
  /\ at' = [at EXCEPT ![t] = to]

Unlock(t, to) ==
  /\ owner' = NoThread
  /\ at' = [at EXCEPT ![t] = to]

--------------------------------------------------------------------------------
(* os_semaphorePost.                                                        *)
PostLock(p) == Lock(p, "call", "signal") /\ signals' = 0 /\ UNCHANGED count

(* Mutant: one signal, however many permits.                                 *)
Signal_Once(p) ==
  /\ at[p] = "signal" /\ signals < Amount[p]
  /\ signals' = Amount[p]
  /\ IF At("blocked") = {} THEN UNCHANGED at
     ELSE \E w \in At("blocked") : at' = [at EXCEPT ![w] = "woken"]
  /\ UNCHANGED <<owner, count>>

(* pthread_cond_signal, once for each permit.                                *)
Signal(p) ==
  /\ at[p] = "signal" /\ signals < Amount[p]
  /\ signals' = signals + 1
  /\ IF At("blocked") = {} THEN UNCHANGED at
     ELSE \E w \in At("blocked") : at' = [at EXCEPT ![w] = "woken"]
  /\ UNCHANGED <<owner, count>>

PostUnlock(p) ==
  /\ at[p] = "signal" /\ signals = Amount[p]
  /\ count' = count + Amount[p]
  /\ Unlock(p, "posted")
  /\ UNCHANGED signals

--------------------------------------------------------------------------------
(* os_semaphoreWait.                                                        *)
WaitLock(w) == Lock(w, "call", "test") /\ UNCHANGED <<count, signals>>

TakePermit(w) ==
  /\ at[w] = "test" /\ count > 0
  /\ count' = count - 1
  /\ Unlock(w, "ok")
  /\ UNCHANGED signals

(* Mutant: the comparison with the count is off by one.                      *)
Block_OneLeft(w) ==
  /\ at[w] = "test" /\ count <= 1
  /\ Unlock(w, "blocked")
  /\ UNCHANGED <<count, signals>>

(* pthread_cond_wait or pthread_cond_timedwait: blocks and frees the mutex.  *)
Block(w) ==
  /\ at[w] = "test" /\ count <= 0
  /\ Unlock(w, "blocked")
  /\ UNCHANGED <<count, signals>>

WakeSpuriously(w) ==
  /\ at[w] = "blocked"
  /\ at' = [at EXCEPT ![w] = "woken"]
  /\ UNCHANGED <<owner, count, signals>>

Expire(w) ==
  /\ w \in Timed /\ at[w] = "blocked"
  /\ at' = [at EXCEPT ![w] = "expired"]
  /\ UNCHANGED <<owner, count, signals>>

Relock(w) == Lock(w, "woken", "test") /\ UNCHANGED <<count, signals>>

RelockExpired(w) == Lock(w, "expired", "late") /\ UNCHANGED <<count, signals>>

(* Mutant: the permit is taken although the wait failed.                     *)
GiveUp_Takes(w) ==
  /\ at[w] = "late"
  /\ count' = count - 1
  /\ Unlock(w, "timeout")
  /\ UNCHANGED signals

(* result is ETIMEDOUT: the loop ends without another look at the count.     *)
GiveUp(w) ==
  /\ at[w] = "late"
  /\ Unlock(w, "timeout")
  /\ UNCHANGED <<count, signals>>

--------------------------------------------------------------------------------
Post(p) == PostLock(p) \/ Signal(p) \/ PostUnlock(p)

(* What a waiter does of itself; spurious wake-ups happen to it.             *)
Wait(w) == WaitLock(w) \/ TakePermit(w) \/ Block(w) \/ Relock(w)
             \/ Expire(w) \/ RelockExpired(w) \/ GiveUp(w)

Next == (\E p \in Posters : Post(p)) \/ (\E w \in Waiters : Wait(w) \/ WakeSpuriously(w))

Spec == Init /\ [][Next]_vars

(* Threads are scheduled; a thread that waits for the mutex gets it in turn. *)
FairSpec == Spec /\ (\A p \in Posters : SF_vars(Post(p))) /\ (\A w \in Waiters : SF_vars(Wait(w)))

--------------------------------------------------------------------------------
Places == {"call", "signal", "posted", "test", "blocked", "woken", "expired", "late",
           "ok", "timeout"}

(* Every variable stays in its type; the count is never negative.            *)
TypeOK ==
  /\ owner \in Threads \cup {NoThread}
  /\ count \in Nat
  /\ at \in [Threads -> Places]
  /\ signals \in Nat

(* No wake-up is lost: while a thread is blocked, at least as many are awake *)
(* and on their way to the mutex as there are permits, and the poster in the *)
(* mutex adds to both in step, though it signals before it counts.           *)
Awake == At("woken") \cup At("test")
Pending == IF owner \in Posters THEN signals ELSE 0

NoLostWakeup ==
  At("blocked") # {} => Cardinality(Awake) >= count + Pending

(* Who is inside the mutex, for the proofs.                                  *)
Inside ==
  /\ \A p \in Posters : at[p] \in {"call", "signal", "posted"}
  /\ \A w \in Waiters : at[w] \notin {"signal", "posted"}
  /\ \A t \in Threads : owner = t <=> at[t] \in {"signal", "test", "late"}
  /\ \A p \in Posters : owner = p => signals <= Amount[p]
  /\ \A w \in Waiters : at[w] \in {"expired", "late", "timeout"} => w \in Timed

SemInv == TypeOK /\ Inside /\ NoLostWakeup

(* The abstract semaphore: a call has taken effect when it gives the mutex   *)
(* up for the last time.                                                    *)
Returned == {"posted", "ok", "timeout"}
Outcome  == [t \in Threads |-> IF at[t] \in Returned THEN at[t] ELSE "none"]

Promise == INSTANCE CountingSemaphore WITH permits <- count, result <- Outcome

ImplementsSemaphore == Promise!Spec

(* With a permit for every waiter every call returns.                        *)
AllReturn == <>(\A t \in Threads : at[t] \in Returned)
================================================================================
