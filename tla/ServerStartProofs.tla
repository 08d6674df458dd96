--------------------------- MODULE ServerStartProofs ---------------------------
(***************************************************************************)
(* Proofs about ServerStart, for every number of workers.                  *)
(***************************************************************************)
EXTENDS ServerStart, TLAPS

(* Before the first call there is nothing to violate.                       *)
LEMMA InitSInv == Init => SInv
<1> SUFFICES ASSUME Init
             PROVE  SInv
  OBVIOUS
<1> USE CapacityAssumption DEF Init
<1>1. TypeOK
  <2>1. /\ thread \in [Threads -> {"none", "entry", "use", "clear", "post", "running",
                                "crashed"}]
        /\ named \in [Threads -> Threads \cup {NoName}]
    OBVIOUS
  <2>2. next \in 0 .. Capacity /\ permits \in Nat
    OBVIOUS
  <2> QED BY <2>1, <2>2 DEF TypeOK
<1>2. Phase /\ Existing /\ SlotInTurn
  BY DEF Phase, Existing, SlotInTurn, Crashed, Threads
<1>3. CleanResult /\ ReadyBeforeWorkers
  BY DEF CleanResult, ReadyBeforeWorkers, Errors
<1> QED BY <1>1, <1>2, <1>3 DEF SInv

(* The steps before the threads.                                             *)
LEMMA SetupSInv ==
  ASSUME SInv,
         OpenSocket \/ SetOptions \/ Bind \/ Listen \/ NewContext \/ LoadKey
  PROVE  SInv'
<1> USE CapacityAssumption DEF SInv, threadVars, slot
<1>1. TypeOK'
  BY DEF TypeOK, OpenSocket, SetOptions, Bind, Listen, NewContext, LoadKey,
         SocketCall, Return, Errors
<1>2. Phase'
  BY DEF Phase, TypeOK, OpenSocket, SetOptions, Bind, Listen, NewContext, LoadKey,
         SocketCall, Return
<1>3. Existing'
  BY DEF Phase, Existing, OpenSocket, SetOptions, Bind, Listen, NewContext, LoadKey,
         SocketCall, Return
<1>4. SlotInTurn'
  BY DEF Phase, SlotInTurn, Crashed, OpenSocket, SetOptions, Bind, Listen, NewContext, LoadKey,
         SocketCall, Return
<1>5. CleanResult'
  <2>1. /\ at \in {"socket", "options", "bind", "listen", "context", "key"}
        /\ thread' = thread
    BY DEF OpenSocket, SetOptions, Bind, Listen, NewContext, LoadKey, SocketCall
  <2>2. \A t \in Threads : thread[t] = "none"
    BY <2>1 DEF Phase
  <2>3. \/ result' = "none"
        \/ result' \in Errors /\ listener' # "open" /\ ctx' # "live"
    <3>1. result = "none"
      BY <2>1 DEF Phase
    <3>2. CASE OpenSocket
      BY <3>1, <3>2 DEF OpenSocket, Return, Errors, Phase, TypeOK, CleanResult
    <3>3. CASE SetOptions \/ Bind \/ Listen
      BY <3>1, <3>3 DEF SetOptions, Bind, Listen, SocketCall, Return, Errors, Phase
    <3>4. CASE NewContext
      BY <3>1, <3>4 DEF NewContext, Return, Errors, Phase
    <3>5. CASE LoadKey
      BY <3>1, <3>5 DEF LoadKey, Return, Errors
    <3> QED BY <3>2, <3>3, <3>4, <3>5
  <2> QED BY <2>1, <2>2, <2>3 DEF CleanResult, Errors
<1>6. ReadyBeforeWorkers'
  BY DEF Phase, ReadyBeforeWorkers, OpenSocket, SetOptions, Bind, Listen, NewContext,
         LoadKey, SocketCall, Return
<1> QED BY <1>1, <1>2, <1>3, <1>4, <1>5, <1>6

(* The loop of ws_init over the threads.                                     *)
LEMMA LoopSInv ==
  ASSUME SInv, StartNext \/ StartFails \/ Create \/ Wait \/ AllStarted
  PROVE  SInv'
<1> USE CapacityAssumption DEF SInv
<1>1. CASE StartNext
  <2> USE <1>1 DEF StartNext, setupVars
  <2>1. next \in Threads
    BY DEF TypeOK, Threads
  <2>2. TypeOK'
    BY <2>1 DEF TypeOK
  <2>3. Phase' /\ Existing'
    BY DEF Phase, Existing
  <2>4. SlotInTurn'
    BY DEF SlotInTurn, Crashed
  <2>5. CleanResult' /\ ReadyBeforeWorkers'
    BY DEF CleanResult, ReadyBeforeWorkers
  <2> QED BY <2>2, <2>3, <2>4, <2>5
<1>2. CASE Create
  <2> USE <1>2 DEF Create, setupVars, slot
  <2>1. next \in Threads
    BY DEF TypeOK, Phase, Threads
  <2>2. TypeOK'
    <3>1. next + 1 \in 0 .. Capacity
      BY <2>1 DEF Threads
    <3> QED BY <2>1, <3>1 DEF TypeOK
  <2>3. Phase'
    BY <2>1 DEF Phase, TypeOK
  <2>4. Existing'
    <3>1. thread[next] = "none" /\ result # "ok"
      BY <2>1 DEF Existing, Phase, Threads
    <3>2. CASE thread' = [thread EXCEPT ![next] = "entry"] /\ at' = "wait"
               /\ UNCHANGED <<next, failed>>
      BY <2>1, <3>1, <3>2 DEF Existing, TypeOK, Threads
    <3>3. CASE failed' = failed \cup {next} /\ next' = next + 1 /\ at' = "start"
               /\ UNCHANGED thread
      <4>1. \A t \in Threads : t < next + 1 <=> (t < next \/ t = next)
        BY <2>1 DEF Threads
      <4> QED BY <2>1, <3>1, <3>3, <4>1 DEF Existing, TypeOK, Threads
    <3> QED BY <3>2, <3>3
  <2>5. SlotInTurn'
    BY <2>1 DEF SlotInTurn, Crashed, Existing, TypeOK, Threads
  <2>6. CleanResult' /\ ReadyBeforeWorkers'
    BY <2>1 DEF CleanResult, ReadyBeforeWorkers, Phase, Errors
  <2> QED BY <2>2, <2>3, <2>4, <2>5, <2>6
<1>3. CASE Wait
  <2> USE <1>3 DEF Wait, setupVars
  <2>1. next \in Threads
    BY DEF TypeOK, Phase, Threads
  <2>2. TypeOK'
    <3>1. next + 1 \in 0 .. Capacity
      BY <2>1 DEF Threads
    <3>2. permits' \in Nat
      BY DEF TypeOK
    <3>3. late' \in BOOLEAN
      BY DEF TypeOK
    <3> QED BY <2>1, <3>1, <3>2, <3>3 DEF TypeOK
  <2>3. Phase'
    BY DEF Phase
  <2>4. Existing'
    BY <2>1 DEF Existing, TypeOK, Phase, Threads
  <2>5. SlotInTurn'
    BY <2>1 DEF SlotInTurn, Crashed, TypeOK, Threads
  <2>6. CleanResult' /\ ReadyBeforeWorkers'
    BY DEF CleanResult, ReadyBeforeWorkers, Phase, Errors
  <2> QED BY <2>2, <2>3, <2>4, <2>5, <2>6
<1>4. CASE AllStarted
  <2> USE <1>4 DEF AllStarted, threadVars, slot, Return
  <2>1. TypeOK'
    BY DEF TypeOK
  <2>2. Phase' /\ Existing'
    BY DEF Phase, Existing
  <2>3. SlotInTurn'
    BY DEF SlotInTurn, Crashed
  <2>4. CleanResult'
    BY DEF CleanResult, Existing, Phase, Errors, Threads
  <2>5. ReadyBeforeWorkers'
    BY DEF ReadyBeforeWorkers
  <2> QED BY <2>1, <2>2, <2>3, <2>4, <2>5
<1>5. CASE StartFails
  <2> USE <1>5 DEF StartFails, setupVars, slot
  <2>1. next \in Threads
    BY DEF TypeOK, Threads
  <2>2. TypeOK'
    <3>1. next + 1 \in 0 .. Capacity
      BY <2>1 DEF Threads
    <3> QED BY <2>1, <3>1 DEF TypeOK
  <2>3. Phase'
    BY DEF Phase
  <2>4. Existing'
    <3>1. thread[next] = "none" /\ result # "ok"
      BY <2>1 DEF Existing, Phase, Threads
    <3>2. \A t \in Threads : t < next + 1 <=> (t < next \/ t = next)
      BY <2>1 DEF Threads
    <3> QED BY <2>1, <3>1, <3>2 DEF Existing, TypeOK, Threads
  <2>5. SlotInTurn'
    BY <2>1 DEF SlotInTurn, Crashed, Existing, TypeOK, Threads
  <2>6. CleanResult' /\ ReadyBeforeWorkers'
    BY DEF CleanResult, ReadyBeforeWorkers, Phase, Errors
  <2> QED BY <2>2, <2>3, <2>4, <2>5, <2>6
<1> QED BY <1>1, <1>2, <1>3, <1>4, <1>5

(* The steps of a thread on its way to the worker function.                  *)
LEMMA EntrySInv ==
  ASSUME SInv, NEW t \in Threads, ThreadEntry(t)
  PROVE  SInv'
<1> USE CapacityAssumption DEF SInv, setupVars, slot
<1>1. /\ at' = at /\ next' = next /\ failed' = failed /\ late' = late
      /\ result' = result /\ listener' = listener /\ ctx' = ctx /\ ready' = ready
  BY DEF ThreadEntry, TestName, UseName, ClearName, Post
<1>2. /\ thread[t] \in {"entry", "use", "clear", "post"}
      /\ \E p \in {"use", "clear", "post", "running", "crashed"} : thread' = [thread EXCEPT ![t] = p]
  BY DEF ThreadEntry, TestName, UseName, ClearName, Post, Goto
<1>3. /\ DOMAIN thread = Threads /\ thread'[t] # "none"
      /\ \A u \in Threads : u # t => thread'[u] = thread[u]
      /\ \A u \in Threads : thread'[u] = "none" <=> thread[u] = "none"
  BY <1>2 DEF TypeOK
<1>4. TypeOK'
  BY <1>1, <1>2 DEF TypeOK, ThreadEntry, TestName, UseName, ClearName, Post
<1>5. Phase'
  BY <1>1, <1>3 DEF Phase
<1>6. Existing'
  <2>1. at = "wait" => next \in Threads
    BY DEF TypeOK, Phase, Threads
  <2> QED BY <1>1, <1>3, <2>1 DEF Existing
<1>7. SlotInTurn'
  <2> SUFFICES ASSUME ~late
               PROVE  SlotInTurn'
    BY <1>1 DEF SlotInTurn
  <2>1. at = "wait" /\ next = t
    BY <1>2 DEF SlotInTurn, Existing
  <2>2. \A u \in Threads : u < next => u # t
    BY <2>1 DEF Threads
  <2>3. CASE TestName(t)
    BY <1>1, <1>3, <2>1, <2>2, <2>3
       DEF TestName, Goto, SlotInTurn, Crashed, TypeOK, NoName, Threads
  <2>4. CASE UseName(t)
    BY <1>1, <1>3, <2>1, <2>2, <2>4
       DEF UseName, Goto, SlotInTurn, Crashed, TypeOK, NoName, Threads
  <2>5. CASE ClearName(t)
    BY <1>1, <1>3, <2>1, <2>2, <2>5 DEF ClearName, Goto, SlotInTurn, Crashed, TypeOK
  <2>6. CASE Post(t)
    BY <1>1, <1>3, <2>1, <2>2, <2>6 DEF Post, Goto, SlotInTurn, Crashed, TypeOK
  <2> QED BY <2>3, <2>4, <2>5, <2>6 DEF ThreadEntry
<1>8. CleanResult' /\ ReadyBeforeWorkers'
  BY <1>1, <1>3 DEF CleanResult, ReadyBeforeWorkers
<1> QED BY <1>4, <1>5, <1>6, <1>7, <1>8

(* Every step of ws_init and of the threads preserves the invariant.        *)
LEMMA NextSInv == SInv /\ [Next]_vars => SInv'
<1> SUFFICES ASSUME SInv, [Next]_vars
             PROVE  SInv'
  OBVIOUS
<1>1. CASE UNCHANGED vars
  BY <1>1 DEF vars, slot, SInv, TypeOK, Phase, Existing, SlotInTurn, Crashed,
              CleanResult, ReadyBeforeWorkers
<1>2. CASE WsInit
  BY <1>2, SetupSInv, LoopSInv DEF WsInit
<1>3. ASSUME NEW t \in Threads, ThreadEntry(t)
      PROVE  SInv'
  BY <1>3, EntrySInv
<1> QED BY <1>1, <1>2, <1>3 DEF Next

(* SInv holds throughout ws_init and the start of all threads.              *)
THEOREM StartInductive == Spec => []SInv
  BY InitSInv, NextSInv, PTL DEF Spec

(* CleanResult: whichever call of ws_init fails, what was opened before is   *)
(* closed and no thread runs; after success everything is there.             *)
THEOREM CleanupSound == Spec => []CleanResult
<1>1. SInv => CleanResult
  BY DEF SInv
<1> QED BY <1>1, StartInductive, PTL

(* ReadyBeforeWorkers: no worker sees a half-built ws_Context.               *)
THEOREM PublicationSound == Spec => []ReadyBeforeWorkers
<1>1. SInv => ReadyBeforeWorkers
  BY DEF SInv
<1> QED BY <1>1, StartInductive, PTL

(* NamesAlive: with waits that do not time out, sharing one os_Thread and a  *)
(* name on the stack is harmless, for any number of workers: each is named   *)
(* as itself and none crashes.                                              *)
THEOREM NamesSound == Spec => []NamesAlive
<1>1. SInv => NamesAlive
  <2> SUFFICES ASSUME SInv, ~late, NEW t \in Threads
               PROVE  /\ thread[t] \in {"entry", "use", "clear"} => at = "wait" /\ next = t
                      /\ thread[t] = "use" => name = t
                      /\ thread[t] \in {"clear", "post", "running"} => named[t] = t
                      /\ thread[t] # "crashed"
    BY DEF NamesAlive
  <2>1. thread[t] \in {"entry", "use", "clear"} => at = "wait" /\ next = t
    BY DEF SInv, Existing, SlotInTurn
  <2>2. thread[t] # "crashed"
    BY DEF SInv, SlotInTurn, Crashed
  <2> QED BY <2>1, <2>2 DEF SInv, SlotInTurn
<1> QED BY <1>1, StartInductive, PTL

(* PostsMatch: and each wait is ended by the thread it waits for.            *)
THEOREM PostsSound == Spec => []PostsMatch
<1>1. SInv => PostsMatch
  BY DEF SInv, PostsMatch, SlotInTurn, TypeOK
<1> QED BY <1>1, StartInductive, PTL

(* TypeOK: nothing leaves its range, in particular threads are started in    *)
(* turn and never more than there are workers.                               *)
THEOREM StartTypes == Spec => []TypeOK
<1>1. SInv => TypeOK
  BY DEF SInv
<1> QED BY <1>1, StartInductive, PTL
================================================================================
