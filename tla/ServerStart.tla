------------------------------ MODULE ServerStart ------------------------------
(***************************************************************************)
(* ws_init: the sockets and the TLS context of the server, each call with  *)
(* its error path, and the threads it starts.  All workers are started     *)
(* through one os_Thread, workers.items[0], so what os_threadCreate leaves *)
(* in it for one thread (the name, the start semaphore) is overwritten for *)
(* the next; os_threadCreate waits at most a millisecond for the thread to *)
(* have picked it up.                                                      *)
(***************************************************************************)
EXTENDS Integers

CONSTANTS
  Capacity    \* workers.capacity: how many threads ws_init starts

ASSUME CapacityAssumption == Capacity \in Nat

VARIABLES
  at,         \* where ws_init is
  next,       \* the index of the thread being started
  result,     \* the ws_error returned; "none" before
  listener,   \* socketDesc
  ctx,        \* serverCtx
  ready,      \* the fields of ws_Context that are set
  name,       \* tmpThreadName of the shared slot: whose name, or NoName
  permits,    \* the start semaphore of the shared slot
  thread,     \* where each worker thread is
  named,      \* the name each thread gave itself
  failed,     \* history: the threads pthread_create did not start
  late        \* history: a wait for a thread to start timed out

slot == <<name, permits>>
vars == <<at, next, result, listener, ctx, ready, slot, thread, named, failed, late>>

Threads == 0 .. Capacity - 1
NoName  == -1
Errors  == {"socketCreationFailed", "socketOptionSetFailed", "socketBindingFailed",
            "socketListenFailed", "sslServerContextCreationFailed",
            "sslPrivateKeyLoadFailed"}

(* A thread that hands pthread_setname_np a null name ends the process.      *)
Crashed == \E t \in Threads : thread[t] = "crashed"

Init ==
  /\ at = "socket"
  /\ next = 0
  /\ result = "none"
  /\ listener = "none"
  /\ ctx = "none"
  /\ ready = {}
  /\ name = NoName
  /\ permits = 0
  /\ thread = [t \in Threads |-> "none"]
  /\ named = [t \in Threads |-> NoName]
  /\ failed = {}
  /\ late = FALSE

--------------------------------------------------------------------------------
(* ws_init up to the threads.                                               *)
threadVars == <<next, slot, thread, named, failed, late>>

Return(error) == result' = error /\ at' = "returned"

OpenSocket ==
  /\ at = "socket"
  /\ \/ /\ listener' = "open"
        /\ ready' = ready \cup {"handleSocket"}
        /\ at' = "options"
        /\ UNCHANGED result
     \/ Return("socketCreationFailed") /\ UNCHANGED <<listener, ready>>
  /\ UNCHANGED <<ctx, threadVars>>

(* A call on the socket that, if it fails, closes it and ends ws_init.       *)
SocketCall(from, to, error) ==
  /\ at = from
  /\ \/ at' = to /\ UNCHANGED <<listener, result>>
     \/ Return(error) /\ listener' = "closed"
  /\ UNCHANGED <<ctx, ready, threadVars>>

SetOptions == SocketCall("options", "bind", "socketOptionSetFailed")
Bind       == SocketCall("bind", "listen", "socketBindingFailed")
Listen     == SocketCall("listen", "context", "socketListenFailed")

NewContext ==
  /\ at = "context"
  /\ \/ ctx' = "live" /\ at' = "key" /\ UNCHANGED <<listener, result>>
     \/ Return("sslServerContextCreationFailed") /\ listener' = "closed" /\ UNCHANGED ctx
  /\ UNCHANGED <<ready, threadVars>>

(* Mutant: the context is not freed.                                         *)
LoadKey_KeepsContext ==
  /\ at = "key"
  /\ \/ /\ ready' = ready \cup {"socketDesc", "serverCtx", "workers", "socketQueue"}
        /\ at' = "start"
        /\ UNCHANGED <<ctx, listener, result>>
     \/ Return("sslPrivateKeyLoadFailed") /\ listener' = "closed" /\ UNCHANGED <<ctx, ready>>
  /\ UNCHANGED threadVars

(* Mutant: the queue is set up after the threads were started.               *)
LoadKey_QueueLater ==
  /\ at = "key"
  /\ \/ /\ ready' = ready \cup {"socketDesc", "serverCtx", "workers"}
        /\ at' = "start"
        /\ UNCHANGED <<ctx, listener, result>>
     \/ /\ Return("sslPrivateKeyLoadFailed")
        /\ ctx' = "freed" /\ listener' = "closed"
        /\ UNCHANGED ready
  /\ UNCHANGED threadVars

(* The certificate and the key are loaded, the results ignored; without a    *)
(* key ws_init fails.  Then the fields of ws_Context are set.                *)
LoadKey ==
  /\ at = "key"
  /\ \/ /\ ready' = ready \cup {"socketDesc", "serverCtx", "workers", "socketQueue"}
        /\ at' = "start"
        /\ UNCHANGED <<ctx, listener, result>>
     \/ /\ Return("sslPrivateKeyLoadFailed")
        /\ ctx' = "freed" /\ listener' = "closed"
        /\ UNCHANGED ready
  /\ UNCHANGED threadVars

--------------------------------------------------------------------------------
(* The loop over os_threadCreate.                                           *)
setupVars == <<result, listener, ctx, ready>>

StartNext ==
  /\ at = "start" /\ next < Capacity
  /\ name' = next
  /\ permits' = 0
  /\ at' = "create"
  /\ UNCHANGED <<setupVars, next, thread, named, failed, late>>

(* The thread's attributes are refused before the slot is touched.            *)
StartFails ==
  /\ at = "start" /\ next < Capacity
  /\ failed' = failed \cup {next}
  /\ next' = next + 1
  /\ UNCHANGED <<at, setupVars, slot, thread, named, late>>

AllStarted ==
  /\ at = "start" /\ next = Capacity
  /\ Return("ok")
  /\ ready' = ready \cup {"workers.count"}
  /\ UNCHANGED <<listener, ctx, threadVars>>

(* Mutant: a thread that could not be created is tried again.                *)
Create_Retries ==
  /\ at = "create"
  /\ \/ thread' = [thread EXCEPT ![next] = "entry"] /\ at' = "wait" /\ UNCHANGED failed
     \/ failed' = failed \cup {next} /\ at' = "start" /\ UNCHANGED thread
  /\ UNCHANGED <<setupVars, slot, next, named, late>>

(* The caller ignores that pthread_create failed and goes on.                *)
Create ==
  /\ at = "create"
  /\ \/ /\ thread' = [thread EXCEPT ![next] = "entry"]
        /\ at' = "wait"
        /\ UNCHANGED <<next, failed>>
     \/ /\ failed' = failed \cup {next}
        /\ next' = next + 1 /\ at' = "start"
        /\ UNCHANGED thread
  /\ UNCHANGED <<setupVars, slot, named, late>>

(* Mutant: the wait is dropped.                                              *)
Wait_Skipped ==
  /\ at = "wait"
  /\ next' = next + 1 /\ at' = "start"
  /\ UNCHANGED <<setupVars, slot, thread, named, failed, late>>

(* os_semaphoreWait(&thread->sem, 1): a permit, or one millisecond.  A wait  *)
(* that timed out does not look whether a permit came before it had the      *)
(* mutex back.                                                              *)
Wait ==
  /\ at = "wait"
  /\ \/ permits > 0 /\ permits' = permits - 1 /\ UNCHANGED late
     \/ late' = TRUE /\ UNCHANGED permits
  /\ next' = next + 1 /\ at' = "start"
  /\ UNCHANGED <<setupVars, name, thread, named, failed>>

--------------------------------------------------------------------------------
(* os_threadEntry: the name is tested, used and cleared in three accesses,   *)
(* then the semaphore posted and the worker entered.                        *)
Goto(t, from, to) == thread[t] = from /\ thread' = [thread EXCEPT ![t] = to]

(* Mutant: the thread waits for a name.                                      *)
TestName_NeedsName(t) ==
  /\ name # NoName
  /\ Goto(t, "entry", "use")
  /\ UNCHANGED <<at, next, setupVars, slot, named, failed, late>>

TestName(t) ==
  /\ IF name = NoName THEN Goto(t, "entry", "post") ELSE Goto(t, "entry", "use")
  /\ UNCHANGED <<at, next, setupVars, slot, named, failed, late>>

(* The name is read again, not kept from the test: another late thread may   *)
(* have cleared it in between, and pthread_setname_np reads through NULL.     *)
UseName(t) ==
  /\ \/ /\ name # NoName
        /\ Goto(t, "use", "clear")
        /\ named' = [named EXCEPT ![t] = name]
     \/ /\ name = NoName
        /\ Goto(t, "use", "crashed")
        /\ UNCHANGED named
  /\ UNCHANGED <<at, next, setupVars, slot, failed, late>>

ClearName(t) ==
  /\ Goto(t, "clear", "post")
  /\ name' = NoName
  /\ UNCHANGED <<at, next, setupVars, permits, named, failed, late>>

(* Mutant: the semaphore is posted before the name is used.                  *)
Post_First(t) ==
  /\ permits' = permits + 1
  /\ UNCHANGED <<at, next, setupVars, name, named, failed, late>>
  /\ \/ Goto(t, "entry", "use")
     \/ Goto(t, "post", "running")

Post(t) ==
  /\ Goto(t, "post", "running")
  /\ permits' = permits + 1
  /\ UNCHANGED <<at, next, setupVars, name, named, failed, late>>

ThreadEntry(t) == ~Crashed /\ (TestName(t) \/ UseName(t) \/ ClearName(t) \/ Post(t))

WsInit ==
  /\ ~Crashed
  /\ \/ OpenSocket \/ SetOptions \/ Bind \/ Listen \/ NewContext \/ LoadKey
     \/ StartNext \/ StartFails \/ Create \/ Wait \/ AllStarted

Next == WsInit \/ \E t \in Threads : ThreadEntry(t)

Spec == Init /\ [][Next]_vars

(* ws_init and the threads are scheduled; every call it makes returns.       *)
FairSpec == Spec /\ WF_vars(WsInit) /\ \A t \in Threads : WF_vars(ThreadEntry(t))

--------------------------------------------------------------------------------
TypeOK ==
  /\ at \in {"socket", "options", "bind", "listen", "context", "key", "start",
             "create", "wait", "returned"}
  /\ next \in 0 .. Capacity
  /\ result \in Errors \cup {"none", "ok"}
  /\ listener \in {"none", "open", "closed"}
  /\ ctx \in {"none", "live", "freed"}
  /\ ready \subseteq {"handleSocket", "socketDesc", "serverCtx", "workers",
                      "socketQueue", "workers.count"}
  /\ name \in Threads \cup {NoName}
  /\ permits \in Nat
  /\ thread \in [Threads -> {"none", "entry", "use", "clear", "post", "running",
                          "crashed"}]
  /\ named \in [Threads -> Threads \cup {NoName}]
  /\ failed \subseteq Threads
  /\ late \in BOOLEAN

(* An error of ws_init leaves nothing behind: no socket, no TLS context, no  *)
(* thread; success leaves both, and a thread for each worker that            *)
(* pthread_create could start.                                              *)
CleanResult ==
  /\ result \in Errors =>
       /\ listener # "open" /\ ctx # "live"
       /\ \A t \in Threads : thread[t] = "none"
  /\ result = "ok" =>
       /\ listener = "open" /\ ctx = "live"
       /\ \A t \in Threads : thread[t] = "none" <=> t \in failed

(* What a worker uses of ws_Context from its first step (the queue, the      *)
(* handler, the TLS context) is set before any thread exists.                *)
ReadyBeforeWorkers ==
  (\E t \in Threads : thread[t] # "none") =>
    {"handleSocket", "serverCtx", "socketQueue"} \subseteq ready

(* The name lives on the stack of os_threadCreate.  Unless a wait timed out, *)
(* a thread uses it only while that call is running for this very thread,    *)
(* and so gets its own name although all threads share one os_Thread; in     *)
(* particular no thread finds the name it tested gone, and crashes.          *)
NamesAlive ==
  ~late => \A t \in Threads :
    /\ thread[t] \in {"entry", "use", "clear"} => at = "wait" /\ next = t
    /\ thread[t] = "use" => name = t
    /\ thread[t] \in {"clear", "post", "running"} => named[t] = t
    /\ thread[t] # "crashed"

(* Unless a wait timed out, a post is used up by the wait it is meant for.   *)
PostsMatch ==
  ~late => permits <= 1 /\ (permits = 1 => at = "wait" /\ thread[next] = "running")

(* ws_init returns, however late the threads start: the wait is bounded.     *)
(* Only a thread that crashes over the shared name keeps it from returning.  *)
InitReturns == <>(result # "none" \/ Crashed)

(* Every thread that was created gets to its worker function, unless the     *)
(* shared name ends the process; by NamesAlive that takes a late thread.     *)
WorkersRun ==
  \A t \in Threads : thread[t] = "entry" ~> (thread[t] = "running" \/ Crashed)

--------------------------------------------------------------------------------
(* The inductive invariant behind the properties above.                      *)

(* How far ws_init is tells what it holds and which threads exist.           *)
Phase ==
  /\ at \in {"socket", "options", "bind", "listen", "context", "key"} =>
       /\ result = "none" /\ next = 0
       /\ \A t \in Threads : thread[t] = "none"
       /\ at = "socket" => listener = "none"
       /\ at # "socket" => listener = "open" /\ "handleSocket" \in ready
       /\ at = "key" <=> ctx = "live"
  /\ at \in {"start", "create", "wait"} =>
       /\ result = "none" /\ listener = "open" /\ ctx = "live"
       /\ {"handleSocket", "serverCtx", "socketQueue"} \subseteq ready
  /\ at \in {"create", "wait"} => next < Capacity
  /\ at = "returned" => result # "none"

(* The threads up to the current one exist, but for those that failed.       *)
Existing ==
  /\ \A t \in Threads :
       /\ thread[t] # "none" => t < next \/ (t = next /\ at = "wait")
       /\ t < next => (thread[t] = "none" <=> t \in failed)
  /\ \A t \in failed : t < next
  /\ at = "wait" => thread[next] # "none"
  /\ result = "ok" => next = Capacity

(* Unless a wait timed out the slot serves one thread at a time.             *)
SlotInTurn ==
  ~late =>
    /\ \A t \in Threads : t < next => thread[t] \in {"none", "running"}
    /\ \A t \in Threads : thread[t] \in {"clear", "post", "running"} => named[t] = t
    /\ ~Crashed
    /\ at = "create" => name = next /\ permits = 0
    /\ at = "wait" =>
         /\ thread[next] \in {"entry", "use"} => name = next
         /\ permits = (IF thread[next] = "running" THEN 1 ELSE 0)
    /\ at \notin {"create", "wait"} => permits = 0

SInv == TypeOK /\ Phase /\ Existing /\ SlotInTurn /\ CleanResult /\ ReadyBeforeWorkers
================================================================================
