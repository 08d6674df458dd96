---------------------------- MODULE WebServerProofs ----------------------------
(***************************************************************************)
(* The server is proved for any finite sets of clients and workers, any    *)
(* pool of workers and any size of the queue: ServerInv is inductive, and  *)
(* with it hold the safety properties of WebServer.                        *)
(***************************************************************************)
EXTENDS WebServer, FiniteSetTheorems, SequenceTheorems, TLAPS

PcType == [Threads -> [at : Places, socket : Clients \cup {NoSocket}]]

(* What Goto and Leave do to the places and sockets of the threads.          *)
LEMMA GotoIs ==
  ASSUME pc \in PcType, NEW s \in Threads, NEW p \in Places, Goto(s, p)
  PROVE  /\ pc' \in PcType
         /\ \A t \in Threads : Current(t)' = Current(t)
         /\ \A t \in Threads : pc'[t].at = IF t = s THEN p ELSE pc[t].at
  BY DEF Goto, PcType, Current

LEMMA LeaveIs ==
  ASSUME pc \in PcType, NEW s \in Threads, Leave(s)
  PROVE  /\ pc' \in PcType
         /\ \A t \in Threads : Current(t)' = IF t = s THEN NoSocket ELSE Current(t)
         /\ \A t \in Threads : pc'[t].at = IF t = s THEN "ready" ELSE pc[t].at
  BY DEF Leave, PcType, Current, Places

(* A thread that is in the middle of a socket has one.                       *)
LEMMA CurrentIs ==
  ASSUME TypeOK, Homes, NEW s \in Threads,
         pc[s].at \notin {"ready", "asleep", "taking"}
  PROVE  Current(s) \in Clients /\ Current(s) # NoSocket
  BY DEF TypeOK, Homes, Current

--------------------------------------------------------------------------------
(* Types.                                                                   *)
LEMMA InitTypes == Init => TypeOK /\ Homes /\ OnlyServers
<1> SUFFICES ASSUME Init
             PROVE  TypeOK /\ Homes /\ OnlyServers
  OBVIOUS
<1> USE PoolsAssumption, BackoffAssumption, NamesAssumption DEF Init, Queue!Init
<1>1. TypeOK
  BY DEF TypeOK, Places
<1>2. Homes
  BY DEF Homes, Current, Threads
<1>3. OnlyServers
  BY DEF OnlyServers
<1> QED BY <1>1, <1>2, <1>3

(* What may change is named for each kind of action: the rest keeps its type. *)
LEMMA NextTypes ==
  ASSUME TypeOK, Homes, [Next]_vars
  PROVE  TypeOK'
<1> USE NamesAssumption, BackoffAssumption
        DEF TypeOK, clientVars, queueVars, tlsVars, countVars
<1>p. pc \in PcType
  BY DEF PcType
<1>1. CASE UNCHANGED vars
  BY <1>1 DEF vars
<1>2. ASSUME NEW c \in Clients, Client(c)
      PROVE  TypeOK'
  <2>1. CASE Connect(c)
    BY <2>1 DEF Connect
  <2>2. CASE Send(c)
    <3>1. PICK now \in FirstBytes \cup {"finished", "request"} : sent' = [sent EXCEPT ![c] = now]
      BY <2>2 DEF Send
    <3> QED BY <2>2, <3>1 DEF Send
  <2>3. CASE HangUp(c)
    BY <2>3 DEF HangUp
  <2> QED BY <1>2, <2>1, <2>2, <2>3 DEF Client
<1>3. ASSUME NEW c \in Clients, Accept(c)
      PROVE  TypeOK'
  <2>1. pc' \in PcType
    <3>1. CASE UNCHANGED pc
      BY <1>p, <3>1
    <3>2. CASE pc' = [pc EXCEPT ![Main] = [at |-> "options", socket |-> c]]
      BY <1>p, <3>2 DEF PcType, Places
    <3> QED BY <1>3, <3>1, <3>2 DEF Accept
  <2>2. queue' \in Seq(Clients) /\ held' = held /\ got' = got /\ dropped' \subseteq Clients
    <3>1. Append(queue, c) \in Seq(Clients)
      BY AppendProperties
    <3> QED BY <1>3, <3>1 DEF Accept, Enqueue, Queue!Put
  <2> QED BY <1>3, <2>1, <2>2 DEF Accept, PcType
<1>4. ASSUME NEW c \in Clients, AcceptFails(c)
      PROVE  TypeOK'
  BY <1>4 DEF AcceptFails
<1>5. ASSUME NEW w \in pool, Take(w)
      PROVE  TypeOK'
  <2>1. w \in Workers /\ w \in Threads
    BY DEF Threads
  <2>2. pc' \in PcType
    BY <1>5, <1>p, <2>1, GotoIs DEF Take, Places
  <2>3. queue' \in Seq(Clients) /\ held' \in [Workers -> Clients \cup {NoSocket}] /\ got' = got
    BY <1>5, HeadTailProperties DEF Take, Queue!Take
  <2> QED BY <1>5, <2>2, <2>3 DEF Take, PcType
<1>6. ASSUME NEW w \in pool, Handle(w)
      PROVE  TypeOK'
  <2>1. w \in Workers /\ w \in Threads
    BY DEF Threads
  <2>2. /\ held' \in [Workers -> Clients \cup {NoSocket}] /\ queue' = queue
        /\ got' \in [Workers -> Seq(Clients)] /\ held[w] \in Clients
    BY <1>6, <2>1 DEF Handle, Queue!HandOver
  <2>3. pc' \in PcType
    BY <1>6, <1>p, <2>1, <2>2 DEF Handle, PcType, Places
  <2>4. idle' \in [Workers -> 0 .. BackoffCap]
    BY <1>6, <2>1 DEF Handle
  <2> QED BY <1>6, <2>2, <2>3, <2>4 DEF Handle, PcType
<1>7. ASSUME NEW w \in pool, Sleep(w) \/ Wake(w)
      PROVE  TypeOK'
  <2>1. w \in Workers /\ w \in Threads
    BY DEF Threads
  <2>2. pc' \in PcType
    BY <1>7, <1>p, <2>1, GotoIs DEF Sleep, Wake, Places
  <2>3. idle' \in [Workers -> 0 .. BackoffCap]
    <3>1. idle[w] \in 0 .. BackoffCap
      BY <2>1
    <3>2. (IF idle[w] < BackoffCap THEN idle[w] + 1 ELSE idle[w]) \in 0 .. BackoffCap
      BY <3>1
    <3> QED BY <1>7, <2>1, <3>2 DEF Sleep, Wake
  <2> QED BY <1>7, <2>2, <2>3 DEF Sleep, Wake, PcType
<1>8. ASSUME NEW s \in Threads, HandleSocket(s)
      PROVE  TypeOK'
  <2>1. pc[s].at \notin {"ready", "asleep", "taking"}
    BY <1>8 DEF HandleSocket, SetOptions, Peek, SetTimeout, NewSession, Handshake, CountLoad,
                CountStore, Read, WriteHeader, WriteContent, Close
  <2>2. Current(s) \in Clients
    BY <2>1, CurrentIs
  <2>3. pc' \in PcType
    BY <1>8, <1>p, GotoIs, LeaveIs
    DEF HandleSocket, SetOptions, Peek, SetTimeout, NewSession, Handshake, CountLoad,
        CountStore, Read, WriteHeader, WriteContent, Close, CloseConnection, Places
  <2>4. /\ pool' = pool /\ sent' = sent /\ hungUp' = hungUp
        /\ queue' = queue /\ held' = held /\ got' = got /\ idle' = idle
    BY <1>8
    DEF HandleSocket, SetOptions, Peek, SetTimeout, NewSession, Handshake, CountLoad,
        CountStore, Read, WriteHeader, WriteContent, Close
  <2>5. socket' \in [Clients -> {"none", "backlog", "aborted", "open", "closed"}]
    BY <1>8, <2>2
    DEF HandleSocket, SetOptions, Peek, SetTimeout, NewSession, Handshake, CountLoad,
        CountStore, Read, WriteHeader, WriteContent, Close, CloseConnection, CloseSocket
  <2>6. session' \in [Clients -> {"none", "live", "freed"}]
    BY <1>8, <2>2
    DEF HandleSocket, SetOptions, Peek, SetTimeout, NewSession, Handshake, CountLoad,
        CountStore, Read, WriteHeader, WriteContent, Close, CloseConnection
  <2>7. secure' \subseteq Clients /\ dropped' \subseteq Clients
    BY <1>8, <2>2
    DEF HandleSocket, SetOptions, Peek, SetTimeout, NewSession, Handshake, CountLoad,
        CountStore, Read, WriteHeader, WriteContent, Close
  <2>8. active' \in Nat /\ seen' \in [Threads -> Nat]
    <3>1. seen[s] + 1 \in Nat
      BY SMT
    <3>2. CASE CountLoad(s)
      BY <3>2 DEF CountLoad
    <3>3. CASE CountStore(s)
      BY <3>1, <3>3 DEF CountStore
    <3>4. CASE UNCHANGED <<active, seen>>
      BY <3>4
    <3> QED BY <1>8, <3>2, <3>3, <3>4
    DEF HandleSocket, SetOptions, Peek, SetTimeout, NewSession, Handshake,
        Read, WriteHeader, WriteContent, Close
  <2>9. reply' \in [Clients -> Seq({"400", "403", "200", "content"})]
    <3>1. \A what \in {"400", "403", "200", "content"} :
            Append(reply[Current(s)], what) \in Seq({"400", "403", "200", "content"})
      BY <2>2, AppendProperties
    <3>2. \A what \in {"400", "403", "200", "content"} :
            Answer(Current(s), what) =>
              reply' \in [Clients -> Seq({"400", "403", "200", "content"})]
      BY <2>2, <3>1 DEF Answer
    <3>3. CASE UNCHANGED reply
      BY <3>3
    <3> QED BY <1>8, <3>2, <3>3
    DEF HandleSocket, SetOptions, Peek, SetTimeout, NewSession, Handshake, CountLoad,
        CountStore, Read, WriteHeader, WriteContent, Close
  <2> QED BY <2>3, <2>4, <2>5, <2>6, <2>7, <2>8, <2>9 DEF PcType
<1> QED BY <1>1, <1>2, <1>3, <1>4, <1>5, <1>6, <1>7, <1>8 DEF Next, AcceptLoop, Worker

(* A thread has a socket exactly while it is in the middle of one.           *)
LEMMA NextHomes ==
  ASSUME TypeOK, Homes, [Next]_vars
  PROVE  Homes'
<1> USE NamesAssumption DEF Homes, queueVars
<1>p. pc \in PcType /\ held \in [Workers -> Clients \cup {NoSocket}]
  BY DEF TypeOK, PcType
<1>1. CASE UNCHANGED <<pc, held>>
  BY <1>1 DEF Current
<1>2. ASSUME NEW c \in Clients, Accept(c), pool = {}
      PROVE  Homes'
  <2>1. /\ pc[Main].at = "ready" /\ held' = held
        /\ pc' = [pc EXCEPT ![Main] = [at |-> "options", socket |-> c]]
    BY <1>2 DEF Accept
  <2> QED BY <1>p, <2>1 DEF PcType, Current, Threads
<1>3. ASSUME NEW w \in Workers, w \in Threads, Take(w)
      PROVE  Homes'
  <2>1. /\ queue # << >> /\ queue \in Seq(Clients)
        /\ held' = [held EXCEPT ![w] = Head(queue)] /\ pc[w].at = "ready"
    BY <1>3 DEF Take, Queue!Take, TypeOK
  <2>2. Head(queue) # NoSocket
    BY <2>1, HeadTailProperties
  <2>3. /\ \A t \in Threads : Current(t)' = Current(t)
        /\ \A t \in Threads : pc'[t].at = IF t = w THEN "taking" ELSE pc[t].at
    BY <1>3, <1>p, GotoIs DEF Take, Places
  <2> QED BY <1>p, <2>1, <2>2, <2>3 DEF Threads
<1>4. ASSUME NEW w \in Workers, w \in Threads, Handle(w)
      PROVE  Homes'
  <2>1. /\ held[w] \in Clients /\ held' = [held EXCEPT ![w] = NoSocket]
        /\ pc' = [pc EXCEPT ![w] = [at |-> "options", socket |-> held[w]]]
    BY <1>4, <1>p DEF Handle, Queue!HandOver
  <2> QED BY <1>p, <2>1 DEF PcType, Current, Threads
<1>5. ASSUME NEW w \in Workers, w \in Threads, Sleep(w) \/ Wake(w)
      PROVE  Homes'
  <2>1. /\ \A t \in Threads : Current(t)' = Current(t)
        /\ \A t \in Threads : pc'[t].at = pc[t].at \/ (t = w /\ pc[t].at \in {"ready", "asleep"}
                                                         /\ pc'[t].at \in {"ready", "asleep"})
    BY <1>5, <1>p, GotoIs DEF Sleep, Wake, Places
  <2>2. held' = held
    BY <1>5 DEF Sleep, Wake
  <2> QED BY <2>1, <2>2 DEF Threads
<1>6. ASSUME NEW s \in Threads, HandleSocket(s)
      PROVE  Homes'
  <2>1. pc[s].at \notin {"ready", "asleep", "taking"} /\ held' = held
    BY <1>6 DEF HandleSocket, SetOptions, Peek, SetTimeout, NewSession, Handshake, CountLoad,
                CountStore, Read, WriteHeader, WriteContent, Close
  <2>2. Leave(s) \/ \E q \in Places \ {"ready", "asleep", "taking"} : Goto(s, q)
    BY <1>6 DEF HandleSocket, SetOptions, Peek, SetTimeout, NewSession, Handshake, CountLoad,
                CountStore, Read, WriteHeader, WriteContent, Close, CloseConnection, Places
  <2>3. CASE Leave(s)
    BY <1>p, <2>1, <2>3, LeaveIs DEF Threads
  <2>4. ASSUME NEW q \in Places \ {"ready", "asleep", "taking"}, Goto(s, q)
        PROVE  Homes'
    BY <1>p, <2>1, <2>4, GotoIs DEF Threads
  <2> QED BY <2>2, <2>3, <2>4
<1>7. pool \subseteq Workers /\ Workers \subseteq Threads
  BY DEF TypeOK, Threads
<1> QED
  BY <1>1, <1>2, <1>3, <1>4, <1>5, <1>6, <1>7
  DEF Next, vars, Client, Connect, Send, HangUp, AcceptLoop, Accept, AcceptFails, Enqueue,
      Queue!Put, Worker

(* Threads that were not started do nothing.                                 *)
LEMMA NextServers ==
  ASSUME TypeOK, OnlyServers, [Next]_vars
  PROVE  OnlyServers'
<1> USE NamesAssumption
<1>p. pc \in PcType /\ pool \subseteq Workers
  BY DEF TypeOK, PcType
<1>1. CASE UNCHANGED <<pc, pool>>
  BY <1>1 DEF OnlyServers, Servers
<1>2. ASSUME pool' = pool, NEW s \in Servers, \A t \in Threads \ {s} : pc'[t] = pc[t]
      PROVE  OnlyServers'
  BY <1>2 DEF OnlyServers, Servers
<1>3. ASSUME NEW c \in Clients, Accept(c), pool = {}
      PROVE  OnlyServers'
  BY <1>p, <1>2, <1>3 DEF Accept, Servers, PcType
<1>4. ASSUME NEW w \in pool, Worker(w)
      PROVE  OnlyServers'
  BY <1>p, <1>2, <1>4 DEF Worker, Take, Handle, Sleep, Wake, Goto, Servers, PcType
<1>5. ASSUME NEW s \in Threads, HandleSocket(s)
      PROVE  OnlyServers'
  <2>1. pc[s].at # "ready" /\ pool' = pool
    BY <1>5 DEF HandleSocket, SetOptions, Peek, SetTimeout, NewSession, Handshake, CountLoad,
                CountStore, Read, WriteHeader, WriteContent, Close
  <2>2. \A t \in Threads \ {s} : pc'[t] = pc[t]
    BY <1>5, <1>p DEF HandleSocket, SetOptions, Peek, SetTimeout, NewSession, Handshake,
                CountLoad, CountStore, Read, WriteHeader, WriteContent, Close, CloseConnection,
                Goto, Leave, PcType
  <2>3. s \in Servers
    BY <2>1 DEF OnlyServers
  <2> QED BY <1>2, <2>1, <2>2, <2>3
<1> QED
  BY <1>1, <1>3, <1>4, <1>5
  DEF Next, vars, Client, Connect, Send, HangUp, AcceptLoop, Accept, AcceptFails

--------------------------------------------------------------------------------
(* What a step does to the sockets and their holders: nothing; one arrives   *)
(* in the queue, is refused or goes to the accept loop; a worker removes one  *)
(* from the queue; it is handed that one; a thread gives its own up.          *)
Staying ==
  /\ queue' = queue /\ held' = held /\ dropped' = dropped
  /\ \A t \in Threads : Current(t)' = Current(t)
  /\ \A c \in Clients : socket'[c] = "open" <=> socket[c] = "open"

Opening(c) == socket[c] # "open" /\ socket' = [socket EXCEPT ![c] = "open"] /\ held' = held

Queueing(c) ==
  /\ Opening(c) /\ queue' = Append(queue, c) /\ dropped' = dropped
  /\ \A t \in Threads : Current(t)' = Current(t)

Refusing(c) ==
  /\ Opening(c) /\ queue' = queue /\ dropped' = dropped \cup {c}
  /\ \A t \in Threads : Current(t)' = Current(t)

Serving(c) ==
  /\ Opening(c) /\ queue' = queue /\ dropped' = dropped
  /\ Current(Main) = NoSocket
  /\ \A t \in Threads : Current(t)' = IF t = Main THEN c ELSE Current(t)

Dequeuing(w) ==
  /\ queue # << >> /\ held[w] = NoSocket
  /\ queue' = Tail(queue) /\ held' = [held EXCEPT ![w] = Head(queue)]
  /\ socket' = socket /\ dropped' = dropped
  /\ \A t \in Threads : Current(t)' = Current(t)

Handing(w) ==
  /\ held[w] \in Clients /\ Current(w) = NoSocket
  /\ held' = [held EXCEPT ![w] = NoSocket]
  /\ \A t \in Threads : Current(t)' = IF t = w THEN held[w] ELSE Current(t)
  /\ queue' = queue /\ socket' = socket /\ dropped' = dropped

Finishing(s) ==
  /\ Current(s) \in Clients
  /\ \A t \in Threads : Current(t)' = IF t = s THEN NoSocket ELSE Current(t)
  /\ queue' = queue /\ held' = held
  /\ \/ dropped' = dropped /\ socket' = [socket EXCEPT ![Current(s)] = "closed"]
     \/ socket' = socket /\ dropped' = dropped \cup {Current(s)}

Move ==
  \/ Staying
  \/ \E c \in Clients : Queueing(c) \/ Refusing(c) \/ Serving(c)
  \/ \E w \in Workers : Dequeuing(w) \/ Handing(w)
  \/ \E s \in Threads : Finishing(s)

LEMMA NextMoves ==
  ASSUME TypeOK, Homes, [Next]_vars
  PROVE  Move
<1> USE NamesAssumption DEF queueVars
<1>p. /\ pc \in PcType /\ held \in [Workers -> Clients \cup {NoSocket}]
      /\ pool \subseteq Workers /\ Workers \subseteq Threads /\ Main \in Threads
      /\ socket \in [Clients -> {"none", "backlog", "aborted", "open", "closed"}]
  BY DEF TypeOK, PcType, Threads
<1>1. CASE UNCHANGED vars
  BY <1>1 DEF vars, Move, Staying, Current
<1>2. ASSUME NEW c \in Clients, Client(c) \/ AcceptFails(c)
      PROVE  Move
  BY <1>2, <1>p DEF Client, Connect, Send, HangUp, AcceptFails, Move, Staying, Current
<1>3. ASSUME NEW c \in Clients, Accept(c)
      PROVE  Move
  <2>1. Opening(c)
    BY <1>3 DEF Accept, Opening, Enqueue, Queue!Put
  <2>2. CASE pool # {}
    BY <1>3, <2>1, <2>2 DEF Accept, Enqueue, Queue!Put, Move, Queueing, Refusing, Current
  <2>3. CASE pool = {}
    <3>1. /\ pc[Main].at = "ready" /\ queue' = queue /\ dropped' = dropped
          /\ pc' = [pc EXCEPT ![Main] = [at |-> "options", socket |-> c]]
      BY <1>3, <2>3 DEF Accept
    <3>2. Current(Main) = NoSocket
      BY <1>p, <3>1 DEF Homes
    <3>3. \A t \in Threads : Current(t)' = IF t = Main THEN c ELSE Current(t)
      BY <1>p, <3>1 DEF Current, PcType
    <3> QED BY <2>1, <3>1, <3>2, <3>3 DEF Move, Serving
  <2> QED BY <2>2, <2>3
<1>4. ASSUME NEW w \in pool, Take(w)
      PROVE  Move
  <2>1. \A t \in Threads : Current(t)' = Current(t)
    BY <1>4, <1>p, GotoIs DEF Take, Places
  <2> QED BY <1>4, <1>p, <2>1 DEF Take, Queue!Take, Move, Dequeuing
<1>5. ASSUME NEW w \in pool, Handle(w)
      PROVE  Move
  <2>1. /\ held[w] \in Clients /\ pc[w].at = "taking"
        /\ pc' = [pc EXCEPT ![w] = [at |-> "options", socket |-> held[w]]]
        /\ held' = [held EXCEPT ![w] = NoSocket]
        /\ queue' = queue /\ socket' = socket /\ dropped' = dropped
    BY <1>5, <1>p DEF Handle, Queue!HandOver
  <2>2. Current(w) = NoSocket
    BY <1>p, <2>1 DEF Homes
  <2>3. \A t \in Threads : Current(t)' = IF t = w THEN held[w] ELSE Current(t)
    BY <1>p, <2>1 DEF Current, PcType
  <2> QED BY <1>p, <2>1, <2>2, <2>3 DEF Move, Handing
<1>6. ASSUME NEW w \in pool, Sleep(w) \/ Wake(w)
      PROVE  Move
  <2>1. \A t \in Threads : Current(t)' = Current(t)
    BY <1>6, <1>p, GotoIs DEF Sleep, Wake, Places
  <2> QED BY <1>6, <2>1 DEF Sleep, Wake, Move, Staying
<1>7. ASSUME NEW s \in Threads, HandleSocket(s)
      PROVE  Move
  <2>1. pc[s].at \notin {"ready", "asleep", "taking"} /\ queue' = queue /\ held' = held
    BY <1>7 DEF HandleSocket, SetOptions, Peek, SetTimeout, NewSession, Handshake, CountLoad,
                CountStore, Read, WriteHeader, WriteContent, Close
  <2>2. Current(s) \in Clients
    BY <2>1, CurrentIs
  <2>3. \/ /\ \E q \in Places : Goto(s, q)
           /\ socket' = socket /\ dropped' = dropped
        \/ /\ Leave(s)
           /\ \/ dropped' = dropped /\ socket' = [socket EXCEPT ![Current(s)] = "closed"]
              \/ socket' = socket /\ dropped' = dropped \cup {Current(s)}
    BY <1>7 DEF HandleSocket, SetOptions, Peek, SetTimeout, NewSession, Handshake, CountLoad,
                CountStore, Read, WriteHeader, WriteContent, Close, CloseConnection,
                CloseSocket, Places
  <2>4. CASE Leave(s) /\ ~\E q \in Places : Goto(s, q)
    BY <1>p, <2>1, <2>2, <2>3, <2>4, LeaveIs DEF Move, Finishing
  <2>5. ASSUME NEW q \in Places, Goto(s, q)
        PROVE  Move
    <3>1. \A t \in Threads : Current(t)' = Current(t)
      BY <1>p, <2>5, GotoIs
    <3>2. CASE socket' = socket /\ dropped' = dropped
      BY <2>1, <3>1, <3>2 DEF Move, Staying
    <3>3. CASE Leave(s)
      <4>1. Current(s)' = NoSocket
        BY <1>p, <3>3, LeaveIs
      <4> QED BY <2>2, <3>1, <4>1
    <3> QED BY <2>3, <3>2, <3>3
  <2> QED BY <2>3, <2>4, <2>5
<1> QED BY <1>1, <1>2, <1>3, <1>4, <1>5, <1>6, <1>7 DEF Next, AcceptLoop, Worker

(* A socket keeps one holder at most, and is open exactly while it has one   *)
(* or was given up.                                                         *)
LEMMA InitHolders == Init => OneHolder /\ OpenIsHeld
  BY NamesAssumption
  DEF Init, Queue!Init, OneHolder, OpenIsHeld, Has, Current, Threads

LEMMA HoldersKept ==
  ASSUME TypeOK, TypeOK', OneHolder, OpenIsHeld, Move
  PROVE  OneHolder' /\ OpenIsHeld'
<1> USE NamesAssumption
<1>t. /\ queue \in Seq(Clients) /\ held \in [Workers -> Clients \cup {NoSocket}]
      /\ socket \in [Clients -> {"none", "backlog", "aborted", "open", "closed"}]
      /\ \A s \in Threads : Current(s) \in Clients \cup {NoSocket}
      /\ Main \in Threads /\ Workers \subseteq Threads
      /\ \A i \in DOMAIN queue : queue[i] \in Clients
      /\ dropped \subseteq Clients
  BY DEF TypeOK, Threads, Current
<1>1. CASE Staying
  <2>1. OneHolder'
    BY <1>1, <1>t DEF Staying, OneHolder
  <2>2. OpenIsHeld'
    BY <1>1, <1>t DEF Staying, OpenIsHeld, Has
  <2> QED BY <2>1, <2>2
<1>2. ASSUME NEW c \in Clients, Opening(c)
      PROVE  ~Has(c) /\ c \notin dropped
  BY <1>2 DEF Opening, OpenIsHeld
<1>3. ASSUME NEW c \in Clients, Queueing(c)
      PROVE  OneHolder' /\ OpenIsHeld'
  <2>1. ~Has(c) /\ c \notin dropped
    BY <1>2, <1>3 DEF Queueing
  <2>2. /\ Len(queue') = Len(queue) + 1 /\ DOMAIN queue = 1 .. Len(queue)
        /\ DOMAIN queue' = 1 .. Len(queue) + 1 /\ Len(queue) \in Nat
        /\ \A i \in 1 .. Len(queue) : queue'[i] = queue[i]
        /\ queue'[Len(queue) + 1] = c
    BY <1>3, <1>t, AppendProperties DEF Queueing
  <2>3. OneHolder'
    BY <1>3, <1>t, <2>1, <2>2 DEF Queueing, Opening, OneHolder, Has
  <2>4. \A d \in Clients : Has(d)' <=> Has(d) \/ d = c
    BY <1>3, <1>t, <2>2 DEF Queueing, Opening, Has
  <2>5. OpenIsHeld'
    BY <1>3, <1>t, <2>1, <2>4 DEF Queueing, Opening, OpenIsHeld
  <2> QED BY <2>3, <2>5
<1>4. ASSUME NEW c \in Clients, Refusing(c)
      PROVE  OneHolder' /\ OpenIsHeld'
  <2>1. ~Has(c) /\ c \notin dropped
    BY <1>2, <1>4 DEF Refusing
  <2>2. OneHolder'
    BY <1>4, <1>t DEF Refusing, Opening, OneHolder
  <2>3. \A d \in Clients : Has(d)' <=> Has(d)
    BY <1>4, <1>t DEF Refusing, Opening, Has
  <2>4. OpenIsHeld'
    BY <1>4, <1>t, <2>1, <2>3 DEF Refusing, Opening, OpenIsHeld
  <2> QED BY <2>2, <2>4
<1>5. ASSUME NEW c \in Clients, Serving(c)
      PROVE  OneHolder' /\ OpenIsHeld'
  <2>1. ~Has(c) /\ c \notin dropped
    BY <1>2, <1>5 DEF Serving
  <2>2. OneHolder'
    BY <1>5, <1>t, <2>1 DEF Serving, Opening, OneHolder, Has
  <2>3. \A d \in Clients : Has(d)' <=> Has(d) \/ d = c
    BY <1>5, <1>t DEF Serving, Opening, Has
  <2>4. OpenIsHeld'
    BY <1>5, <1>t, <2>1, <2>3 DEF Serving, Opening, OpenIsHeld
  <2> QED BY <2>2, <2>4
<1>6. ASSUME NEW w \in Workers, Dequeuing(w)
      PROVE  OneHolder' /\ OpenIsHeld'
  <2>1. /\ Len(queue) \in Nat /\ DOMAIN queue = 1 .. Len(queue)
        /\ DOMAIN queue' = 1 .. Len(queue) - 1
        /\ \A i \in 1 .. Len(queue) - 1 : queue'[i] = queue[i + 1]
        /\ 1 \in DOMAIN queue /\ Head(queue) = queue[1] /\ queue[1] \in Clients
    BY <1>6, <1>t, HeadTailProperties DEF Dequeuing
  <2>2. OneHolder'
    BY <1>6, <1>t, <2>1 DEF Dequeuing, OneHolder
  <2>3. ASSUME NEW d \in Clients
        PROVE  Has(d)' <=> Has(d)
    <3>1. held'[w] = queue[1] /\ \A v \in Workers \ {w} : held'[v] = held[v]
      BY <1>6, <1>t, <2>1 DEF Dequeuing
    <3>2. ASSUME NEW i \in DOMAIN queue, queue[i] = d
          PROVE  Has(d)'
      <4>1. CASE i = 1
        BY <3>1, <3>2, <4>1 DEF Has
      <4>2. CASE i # 1
        <5>1. i - 1 \in DOMAIN queue' /\ queue'[i - 1] = d
          BY <2>1, <3>2, <4>2
        <5> QED BY <5>1 DEF Has
      <4> QED BY <4>1, <4>2
    <3>3. ASSUME NEW i \in DOMAIN queue', queue'[i] = d
          PROVE  Has(d)
      <4>1. i + 1 \in DOMAIN queue /\ queue[i + 1] = d
        BY <2>1, <3>3
      <4> QED BY <4>1 DEF Has
    <3>4. d # NoSocket /\ held[w] = NoSocket
      BY <1>6 DEF Dequeuing
    <3>5. (\E v \in Workers : held[v] = d) => Has(d)'
      BY <3>1, <3>4 DEF Has
    <3>6. (\E v \in Workers : held'[v] = d) => Has(d)
      BY <2>1, <3>1 DEF Has
    <3>7. \A t \in Threads : Current(t)' = Current(t)
      BY <1>6 DEF Dequeuing
    <3> QED BY <3>2, <3>3, <3>5, <3>6, <3>7 DEF Has
  <2>4. OpenIsHeld'
    BY <1>6, <1>t, <2>3 DEF Dequeuing, OpenIsHeld
  <2> QED BY <2>2, <2>4
<1>7. ASSUME NEW w \in Workers, Handing(w)
      PROVE  OneHolder' /\ OpenIsHeld'
  <2>1. OneHolder'
    BY <1>7, <1>t DEF Handing, OneHolder
  <2>2. \A d \in Clients : Has(d)' <=> Has(d)
    BY <1>7, <1>t DEF Handing, Has
  <2>3. OpenIsHeld'
    BY <1>7, <1>t, <2>2 DEF Handing, OpenIsHeld
  <2> QED BY <2>1, <2>3
<1>8. ASSUME NEW s \in Threads, Finishing(s)
      PROVE  OneHolder' /\ OpenIsHeld'
  <2>1. OneHolder'
    BY <1>8, <1>t DEF Finishing, OneHolder
  <2>2. \A d \in Clients : Has(d)' <=> Has(d) /\ d # Current(s)
    BY <1>8, <1>t DEF Finishing, OneHolder, Has
  <2>3. Has(Current(s))
    BY DEF Has
  <2>4. OpenIsHeld'
    BY <1>8, <1>t, <2>2, <2>3 DEF Finishing, OpenIsHeld
  <2> QED BY <2>1, <2>4
<1> QED BY <1>1, <1>3, <1>4, <1>5, <1>6, <1>7, <1>8 DEF Move

(* The places that have a socket are one at most: their number is.           *)
LEMMA Accounted ==
  ASSUME TypeOK, OneHolder, OpenIsHeld
  PROVE  SocketsAccounted
<1> SUFFICES ASSUME NEW c \in Clients
             PROVE  /\ Cardinality(Holders(c)) <= 1
                    /\ socket[c] = "open" <=> (Holders(c) # {} \/ c \in dropped)
                    /\ c \in dropped => Holders(c) = {}
  BY DEF SocketsAccounted
<1>1. Holders(c) # {} <=> Has(c)
  BY DEF Holders, Has
<1>2. \A x, y \in Holders(c) : x = y
  <2> DEFINE Q == {<<"queue", i>> : i \in {j \in DOMAIN queue : queue[j] = c}}
             T == {<<"taking", w>> : w \in {v \in Workers : held[v] = c}}
             H == {<<"handling", s>> : s \in {t \in Threads : Current(t) = c}}
  <2>1. c # NoSocket
    BY NamesAssumption
  <2>2. \A x, y \in Q : x = y
    BY DEF OneHolder
  <2>3. \A x, y \in T : x = y
    BY <2>1 DEF OneHolder
  <2>4. \A x, y \in H : x = y
    BY <2>1 DEF OneHolder
  <2>5. (Q = {} \/ T = {}) /\ (Q = {} \/ H = {}) /\ (T = {} \/ H = {})
    BY <2>1 DEF OneHolder
  <2>6. Holders(c) = Q \cup T \cup H
    BY DEF Holders
  <2> HIDE DEF Q, T, H
  <2> QED BY <2>2, <2>3, <2>4, <2>5, <2>6
<1>3. Cardinality(Holders(c)) <= 1
  <2>1. CASE Holders(c) = {}
    BY <2>1, FS_EmptySet
  <2>2. CASE Holders(c) # {}
    <3>1. PICK x \in Holders(c) : TRUE
      BY <2>2
    <3>2. Holders(c) = {x}
      BY <1>2, <3>1
    <3>3. Cardinality(Holders(c)) = 1
      BY <3>2, FS_Singleton, ZenonT(30)
    <3> QED BY <3>3
  <2> QED BY <2>1, <2>2
<1> QED BY <1>1, <1>3 DEF OpenIsHeld

--------------------------------------------------------------------------------
(* What is served: the parts of the invariant about sessions and answers,    *)
(* said of one thread and of one client.                                    *)
Fits(c) ==
  \/ reply[c] = << >>
  \/ reply[c] = <<"400">> /\ sent[c] = "plain" /\ session[c] = "none"
  \/ reply[c] = <<"403">> /\ (c \notin secure \/ sent[c] # "request")
  \/ reply[c] \in {<<"200">>, <<"200", "content">>} /\ c \in secure /\ sent[c] = "request"

ThreadInv(s) ==
  Current(s) # NoSocket =>
    /\ reply[Current(s)] = WrittenBy(pc[s].at)
    /\ session[Current(s)] = IF pc[s].at \in Early THEN "none" ELSE "live"
    /\ pc[s].at \in {"header", "content", "close"} =>
         Current(s) \in secure /\ sent[Current(s)] = "request"

ClientInv(c) ==
  /\ Fresh(c) \/ socket[c] = "closed" \/ Served(c)
  /\ session[c] = "live" => Served(c)
  /\ Fits(c)

ServedInv == (\A s \in Threads : ThreadInv(s)) /\ (\A c \in Clients : ClientInv(c))

(* They say the same as the named parts.                                    *)
LEMMA ServedParts ==
  ServedInv <=> FreshUntilServed /\ ServedInOrder /\ SessionsFreed /\ RepliesFit
<1>1. (\A s \in Threads : ThreadInv(s)) <=> ServedInOrder
  BY DEF ThreadInv, ServedInOrder
<1>2. (\A c \in Clients : ClientInv(c)) <=> FreshUntilServed /\ SessionsFreed /\ RepliesFit
  BY DEF ClientInv, Fits, FreshUntilServed, SessionsFreed, RepliesFit, Served, Early
<1> QED BY <1>1, <1>2 DEF ServedInv

(* Nothing is served before the first step.                                 *)
LEMMA InitServed == Init => ServedInv
  BY DEF Init, ServedInv, ThreadInv, ClientInv, Fits, Fresh, Current

(* Steps that serve nobody: a client may send more, but not after its text,  *)
(* its request or the end of its connection.                                *)
LEMMA QuietServed ==
  ASSUME ServedInv,
         reply' = reply, session' = session, secure' = secure,
         \A t \in Threads : /\ Current(t)' = Current(t)
                            /\ Current(t) # NoSocket => pc'[t].at = pc[t].at,
         \A c \in Clients : \/ sent'[c] = sent[c]
                            \/ socket[c] # "closed" /\ sent[c] \notin {"plain", "request"},
         \A c \in Clients : socket[c] = "closed" => socket'[c] = "closed",
         \A t \in Threads : Current(t) \in Clients \cup {NoSocket}
  PROVE  ServedInv'
<1> USE NamesAssumption
<1>1. ASSUME NEW t \in Threads
      PROVE  ThreadInv(t)'
  <2>1. ThreadInv(t)
    BY DEF ServedInv
  <2> QED BY <2>1 DEF ThreadInv
<1>2. ASSUME NEW c \in Clients
      PROVE  ClientInv(c)'
  <2>1. ClientInv(c)
    BY DEF ServedInv
  <2>2. Served(c)' <=> Served(c)
    BY DEF Served
  <2>3. Fits(c)'
    <3>1. CASE sent'[c] = sent[c]
      BY <2>1, <3>1 DEF ClientInv, Fits
    <3>2. CASE socket[c] # "closed" /\ sent[c] \notin {"plain", "request"}
      <4>1. CASE Fresh(c)
        BY <4>1 DEF Fresh, Fits
      <4>2. CASE Served(c)
        <5>1. PICK t \in Threads : Current(t) = c /\ pc[t].at \notin Early
          BY <4>2 DEF Served
        <5>2. ThreadInv(t) /\ c # NoSocket
          BY DEF ServedInv
        <5>3. reply[c] \in {<< >>, <<"200">>, <<"200", "content">>}
          BY <5>1, <5>2 DEF ThreadInv, WrittenBy
        <5> QED BY <2>1, <3>2, <5>3 DEF ClientInv, Fits
      <4> QED BY <2>1, <3>2, <4>1, <4>2 DEF ClientInv
    <3> QED BY <3>1, <3>2
  <2> QED BY <2>1, <2>2, <2>3 DEF ClientInv, Fresh
<1> QED BY <1>1, <1>2 DEF ServedInv

(* A thread begins with a socket that nobody has begun to serve.             *)
LEMMA StartServed ==
  ASSUME ServedInv, NEW c \in Clients, Fresh(c), NEW s \in Threads, Current(s) = NoSocket,
         reply' = reply, session' = session, secure' = secure, sent' = sent,
         \A t \in Threads : Current(t)' = IF t = s THEN c ELSE Current(t),
         \A t \in Threads : pc'[t].at = IF t = s THEN "options" ELSE pc[t].at,
         \A d \in Clients : socket[d] = "closed" => socket'[d] = "closed"
  PROVE  ServedInv'
<1> USE NamesAssumption
<1>1. ASSUME NEW t \in Threads
      PROVE  ThreadInv(t)'
  <2>1. ThreadInv(t)
    BY DEF ServedInv
  <2>2. CASE t = s
    BY <2>2 DEF ThreadInv, Fresh, WrittenBy, Early
  <2>3. CASE t # s
    BY <2>1, <2>3 DEF ThreadInv
  <2> QED BY <2>2, <2>3
<1>2. ASSUME NEW d \in Clients
      PROVE  ClientInv(d)'
  <2>1. ClientInv(d)
    BY DEF ServedInv
  <2>2. Served(d) => Served(d)'
    BY DEF Served
  <2> QED BY <2>1, <2>2 DEF ClientInv, Fresh, Fits
<1> QED BY <1>1, <1>2 DEF ServedInv

(* What the client of a thread that goes on, or gives its socket up, may     *)
(* then be told.                                                            *)
LEMMA GoOn ==
  ASSUME pc \in PcType, NEW s \in Threads, NEW c \in Clients, c = Current(s),
         NEW q \in Places, Goto(s, q),
         reply'[c] = WrittenBy(q),
         session'[c] = IF q \in Early THEN "none" ELSE "live",
         q \in {"header", "content", "close"} =>
           c \in secure' /\ sent'[c] = "request"
  PROVE  ThreadInv(s)' /\ ClientInv(c)'
<1>1. Current(s)' = c /\ pc'[s].at = q
  BY GotoIs
<1>2. ThreadInv(s)'
  BY <1>1 DEF ThreadInv
<1>3. CASE q \in Early
  <2>1. Fresh(c)' /\ session'[c] # "live"
    BY <1>1, <1>3 DEF Early, WrittenBy, Fresh
  <2> QED BY <1>1, <1>2, <2>1 DEF ClientInv, Fresh, Fits
<1>4. CASE q \notin Early
  <2>1. Served(c)'
    BY <1>1, <1>4 DEF Served
  <2>2. CASE q \in {"content", "close"}
    <3>1. reply'[c] \in {<<"200">>, <<"200", "content">>} /\ c \in secure' /\ sent'[c] = "request"
      BY <2>2 DEF WrittenBy
    <3> QED BY <1>1, <1>2, <2>1, <3>1 DEF ClientInv, Fits
  <2>3. CASE q \notin {"content", "close"}
    <3>1. reply'[c] = << >>
      BY <2>3 DEF WrittenBy
    <3> QED BY <1>1, <1>2, <2>1, <3>1 DEF ClientInv, Fits
  <2> QED BY <2>2, <2>3
<1> QED BY <1>3, <1>4

LEMMA GiveUp ==
  ASSUME pc \in PcType, NEW s \in Threads, NEW c \in Clients, Leave(s),
         session'[c] # "live", socket'[c] = "closed" \/ Fresh(c)', Fits(c)'
  PROVE  ThreadInv(s)' /\ ClientInv(c)'
  BY LeaveIs DEF ThreadInv, ClientInv

(* The page follows its header.                                             *)
LEMMA HeaderThenContent == Append(<<"200">>, "content") = <<"200", "content">>
<1> DEFINE s == Append(<<"200">>, "content")
           r == <<"200", "content">>
<1>1. <<"200">> \in Seq({"200", "content"})
  OBVIOUS
<1>2. s \in Seq({"200", "content"}) /\ Len(s) = 2 /\ s[1] = "200" /\ s[2] = "content"
  BY <1>1, AppendProperties
<1>3. r \in Seq({"200", "content"}) /\ Len(r) = 2 /\ r[1] = "200" /\ r[2] = "content"
  OBVIOUS
<1> HIDE DEF s, r
<1>4. s = r
  BY <1>2, <1>3, SeqEqual
<1> QED BY <1>4 DEF s, r

(* A step of a thread serves its own client, as its place demands.           *)
LEMMA OwnServed ==
  ASSUME TypeOK, Homes, ServedInv, NEW s \in Threads, HandleSocket(s),
         NEW c \in Clients, c = Current(s)
  PROVE  ThreadInv(s)' /\ ClientInv(c)'
<1>1. pc[s].at \notin {"ready", "asleep", "taking"}
  BY DEF HandleSocket, SetOptions, Peek, SetTimeout, NewSession, Handshake, CountLoad,
         CountStore, Read, WriteHeader, WriteContent, Close
<1>2. c = Current(s) /\ c # NoSocket
  BY <1>1, CurrentIs
<1>3. /\ reply[c] = WrittenBy(pc[s].at)
      /\ session[c] = IF pc[s].at \in Early THEN "none" ELSE "live"
      /\ pc[s].at \in {"header", "content", "close"} => c \in secure /\ sent[c] = "request"
  BY <1>2 DEF ServedInv, ThreadInv
<1>4. /\ pc \in PcType
      /\ reply \in [Clients -> Seq({"400", "403", "200", "content"})]
      /\ session \in [Clients -> {"none", "live", "freed"}]
      /\ socket \in [Clients -> {"none", "backlog", "aborted", "open", "closed"}]
  BY DEF TypeOK, PcType
<1>g. ASSUME NEW q \in Places, Goto(s, q), reply'[c] = WrittenBy(q),
             session'[c] = IF q \in Early THEN "none" ELSE "live",
             q \in {"header", "content", "close"} => c \in secure' /\ sent'[c] = "request"
      PROVE  ThreadInv(s)' /\ ClientInv(c)'
  BY <1>2, <1>4, <1>g, GoOn
<1>l. ASSUME Leave(s), session'[c] # "live", socket'[c] = "closed" \/ Fresh(c)', Fits(c)'
      PROVE  ThreadInv(s)' /\ ClientInv(c)'
  BY <1>2, <1>4, <1>l, GiveUp
<1>5. CASE SetOptions(s)
  <2>1. /\ pc[s].at = "options" /\ reply' = reply /\ session' = session
        /\ \/ Goto(s, "peek")
           \/ Leave(s) /\ socket'[c] = "closed"
    BY <1>2, <1>4, <1>5 DEF SetOptions, CloseSocket, tlsVars
  <2>2. reply[c] = << >> /\ session[c] = "none"
    BY <1>3, <2>1 DEF WrittenBy, Early
  <2>3. CASE Goto(s, "peek")
    BY <1>g, <2>1, <2>2, <2>3 DEF WrittenBy, Early, Places
  <2>4. CASE Leave(s) /\ socket'[c] = "closed"
    BY <1>l, <2>1, <2>2, <2>4 DEF Fits
  <2> QED BY <2>1, <2>3, <2>4
<1>6. CASE Peek(s)
  <2>1. /\ pc[s].at = "peek" /\ session' = session /\ sent' = sent
        /\ \/ Goto(s, "timeout") /\ reply' = reply
           \/ Leave(s) /\ sent[c] = "plain" /\ Answer(c, "400") /\ socket'[c] = "closed"
    BY <1>2, <1>4, <1>6 DEF Peek, CloseSocket, tlsVars, clientVars
  <2>2. reply[c] = << >> /\ session[c] = "none"
    BY <1>3, <2>1 DEF WrittenBy, Early
  <2>3. CASE Goto(s, "timeout") /\ reply' = reply
    BY <1>g, <2>1, <2>2, <2>3 DEF WrittenBy, Early, Places
  <2>4. CASE Leave(s) /\ sent[c] = "plain" /\ Answer(c, "400") /\ socket'[c] = "closed"
    <3>1. reply'[c] = <<"400">>
      BY <1>2, <1>4, <2>2, <2>4 DEF Answer
    <3> QED BY <1>l, <2>1, <2>2, <2>4, <3>1 DEF Fits
  <2> QED BY <2>1, <2>3, <2>4
<1>7. CASE SetTimeout(s)
  <2>1. /\ pc[s].at = "timeout" /\ reply' = reply /\ session' = session
        /\ \/ Goto(s, "session")
           \/ Leave(s) /\ socket'[c] = "closed"
    BY <1>2, <1>4, <1>7 DEF SetTimeout, CloseSocket, tlsVars
  <2>2. reply[c] = << >> /\ session[c] = "none"
    BY <1>3, <2>1 DEF WrittenBy, Early
  <2>3. CASE Goto(s, "session")
    BY <1>g, <2>1, <2>2, <2>3 DEF WrittenBy, Early, Places
  <2>4. CASE Leave(s) /\ socket'[c] = "closed"
    BY <1>l, <2>1, <2>2, <2>4 DEF Fits
  <2> QED BY <2>1, <2>3, <2>4
<1>8. CASE NewSession(s)
  <2>1. /\ pc[s].at = "session" /\ reply' = reply
        /\ \/ Goto(s, "handshake") /\ session'[c] = "live"
           \/ Leave(s) /\ session' = session
    BY <1>2, <1>4, <1>8 DEF NewSession
  <2>2. reply[c] = << >> /\ session[c] = "none"
    BY <1>3, <2>1 DEF WrittenBy, Early
  <2>3. CASE Goto(s, "handshake") /\ session'[c] = "live"
    BY <1>g, <2>1, <2>2, <2>3 DEF WrittenBy, Early, Places
  <2>4. CASE Leave(s) /\ session' = session
    BY <1>l, <2>1, <2>2, <2>4 DEF Fits, Fresh
  <2> QED BY <2>1, <2>3, <2>4
<1>9. CASE Handshake(s) \/ CountLoad(s) \/ CountStore(s)
  <2>1. /\ pc[s].at \in {"handshake", "count", "counting"}
        /\ reply' = reply /\ session' = session
        /\ \E q \in {"count", "counting", "read"} : Goto(s, q)
    BY <1>9 DEF Handshake, CountLoad, CountStore, tlsVars
  <2>2. reply[c] = << >> /\ session[c] = "live"
    BY <1>3, <2>1 DEF WrittenBy, Early
  <2>3. PICK q \in {"count", "counting", "read"} : Goto(s, q)
    BY <2>1
  <2> QED BY <1>g, <2>1, <2>2, <2>3 DEF WrittenBy, Early, Places
<1>10. CASE Read(s)
  <2>1. /\ pc[s].at = "read" /\ sent' = sent /\ secure' = secure
        /\ \/ Goto(s, "header") /\ session' = session /\ reply' = reply
              /\ c \in secure /\ sent[c] = "request"
           \/ Leave(s) /\ Answer(c, "403") /\ socket'[c] = "closed" /\ session'[c] = "freed"
              /\ (c \notin secure \/ sent[c] # "request")
    BY <1>2, <1>4, <1>10 DEF Read, CloseConnection, CloseSocket, clientVars
  <2>2. reply[c] = << >> /\ session[c] = "live"
    BY <1>3, <2>1 DEF WrittenBy, Early
  <2>3. CASE Goto(s, "header") /\ session' = session /\ reply' = reply
              /\ c \in secure /\ sent[c] = "request"
    BY <1>g, <2>1, <2>2, <2>3 DEF WrittenBy, Early, Places
  <2>4. CASE Leave(s) /\ Answer(c, "403") /\ socket'[c] = "closed" /\ session'[c] = "freed"
              /\ (c \notin secure \/ sent[c] # "request")
    <3>1. reply'[c] = <<"403">>
      BY <1>2, <1>4, <2>2, <2>4 DEF Answer
    <3> QED BY <1>l, <2>1, <2>4, <3>1 DEF Fits
  <2> QED BY <2>1, <2>3, <2>4
<1>11. CASE WriteHeader(s)
  <2>1. /\ pc[s].at = "header" /\ sent' = sent /\ secure' = secure /\ session' = session
        /\ Answer(c, "200") /\ Goto(s, "content")
    BY <1>11 DEF WriteHeader, clientVars, tlsVars
  <2>2. reply[c] = << >> /\ session[c] = "live" /\ c \in secure /\ sent[c] = "request"
    BY <1>3, <2>1 DEF WrittenBy, Early
  <2>3. reply'[c] = <<"200">>
    BY <1>2, <1>4, <2>1, <2>2 DEF Answer
  <2> QED BY <1>g, <2>1, <2>2, <2>3 DEF WrittenBy, Early, Places
<1>12. CASE WriteContent(s)
  <2>1. /\ pc[s].at = "content" /\ sent' = sent /\ secure' = secure /\ session' = session
        /\ Answer(c, "content") /\ Goto(s, "close")
    BY <1>12 DEF WriteContent, clientVars, tlsVars
  <2>2. reply[c] = <<"200">> /\ session[c] = "live" /\ c \in secure /\ sent[c] = "request"
    BY <1>3, <2>1 DEF WrittenBy, Early
  <2>3. reply'[c] = <<"200", "content">>
    <3>1. reply'[c] = Append(<<"200">>, "content")
      BY <1>2, <1>4, <2>1, <2>2 DEF Answer
    <3> QED BY <3>1, HeaderThenContent
  <2> QED BY <1>g, <2>1, <2>2, <2>3 DEF WrittenBy, Early, Places
<1>13. CASE Close(s)
  <2>1. /\ pc[s].at = "close" /\ sent' = sent /\ secure' = secure /\ reply' = reply
        /\ Leave(s) /\ socket'[c] = "closed" /\ session'[c] = "freed"
    BY <1>2, <1>4, <1>13 DEF Close, CloseConnection, CloseSocket, clientVars
  <2>2. reply[c] = <<"200", "content">> /\ c \in secure /\ sent[c] = "request"
    BY <1>3, <2>1 DEF WrittenBy
  <2> QED BY <1>l, <2>1, <2>2 DEF Fits
<1> QED
  BY <1>5, <1>6, <1>7, <1>8, <1>9, <1>10, <1>11, <1>12, <1>13 DEF HandleSocket

(* The others are served as before: no two threads have the same client.     *)
LEMMA HandleServed ==
  ASSUME TypeOK, Homes, OneHolder, ServedInv, NEW s \in Threads, HandleSocket(s)
  PROVE  ServedInv'
<1> USE NamesAssumption
<1>1. PICK c \in Clients : c = Current(s) /\ c # NoSocket
  <2>1. pc[s].at \notin {"ready", "asleep", "taking"}
    BY DEF HandleSocket, SetOptions, Peek, SetTimeout, NewSession, Handshake, CountLoad,
           CountStore, Read, WriteHeader, WriteContent, Close
  <2> QED BY <2>1, CurrentIs
<1>2. ThreadInv(s)' /\ ClientInv(c)'
  BY <1>1, OwnServed
<1>p. /\ pc \in PcType
      /\ reply \in [Clients -> Seq({"400", "403", "200", "content"})]
      /\ session \in [Clients -> {"none", "live", "freed"}]
      /\ socket \in [Clients -> {"none", "backlog", "aborted", "open", "closed"}]
  BY DEF TypeOK, PcType
<1>3. \A t \in Threads \ {s} : pc'[t] = pc[t] /\ Current(t)' = Current(t) /\ Current(t) # c
  <2>1. \A t \in Threads \ {s} : pc'[t] = pc[t]
    BY <1>p DEF HandleSocket, SetOptions, Peek, SetTimeout, NewSession, Handshake, CountLoad,
                CountStore, Read, WriteHeader, WriteContent, Close, CloseConnection, Goto,
                Leave, PcType
  <2>2. \A t \in Threads \ {s} : Current(t) # c
    BY <1>1 DEF OneHolder
  <2> QED BY <2>1, <2>2 DEF Current
<1>4. \A d \in Clients \ {c} : /\ reply'[d] = reply[d] /\ session'[d] = session[d]
                               /\ socket'[d] = socket[d] /\ sent'[d] = sent[d]
                               /\ d \in secure' <=> d \in secure
  <2>1. \A d \in Clients \ {c} : reply'[d] = reply[d] /\ sent'[d] = sent[d]
    BY <1>1, <1>p DEF HandleSocket, SetOptions, Peek, SetTimeout, NewSession, Handshake,
                CountLoad, CountStore, Read, WriteHeader, WriteContent, Close, Answer, clientVars
  <2>2. \A d \in Clients \ {c} : socket'[d] = socket[d]
    BY <1>1, <1>p DEF HandleSocket, SetOptions, Peek, SetTimeout, NewSession, Handshake,
                CountLoad, CountStore, Read, WriteHeader, WriteContent, Close,
                CloseConnection, CloseSocket
  <2>3. \A d \in Clients \ {c} : session'[d] = session[d] /\ (d \in secure' <=> d \in secure)
    BY <1>1, <1>p DEF HandleSocket, SetOptions, Peek, SetTimeout, NewSession, Handshake,
                CountLoad, CountStore, Read, WriteHeader, WriteContent, Close,
                CloseConnection, tlsVars
  <2> QED BY <2>1, <2>2, <2>3
<1>5. Current(s)' \in {c, NoSocket}
  <2>1. Leave(s) \/ \E q \in Places : Goto(s, q)
    BY DEF HandleSocket, SetOptions, Peek, SetTimeout, NewSession, Handshake, CountLoad,
           CountStore, Read, WriteHeader, WriteContent, Close, CloseConnection, Places
  <2> QED BY <1>1, <1>p, <2>1, GotoIs, LeaveIs
<1>6. ASSUME NEW t \in Threads \ {s}
      PROVE  ThreadInv(t)'
  <2>1. ThreadInv(t)
    BY DEF ServedInv
  <2>2. Current(t) \in Clients \cup {NoSocket}
    BY <1>p DEF PcType, Current
  <2>3. CASE Current(t) = NoSocket
    BY <1>3, <2>3 DEF ThreadInv
  <2>4. CASE Current(t) # NoSocket
    <3>1. Current(t) \in Clients \ {c} /\ Current(t)' = Current(t) /\ pc'[t] = pc[t]
      BY <1>3, <2>2, <2>4
    <3>2. PICK d \in Clients \ {c} : d = Current(t) /\ d = Current(t)'
      BY <3>1
    <3> QED BY <1>4, <2>1, <3>1, <3>2 DEF ThreadInv
  <2> QED BY <2>3, <2>4
<1>7. ASSUME NEW d \in Clients \ {c}
      PROVE  ClientInv(d)'
  <2>1. ClientInv(d)
    BY DEF ServedInv
  <2>2. Served(d) => Served(d)'
    BY <1>1, <1>3 DEF Served
  <2>3. Fresh(d) => Fresh(d)'
    BY <1>4 DEF Fresh
  <2>4. Fits(d) => Fits(d)'
    BY <1>4 DEF Fits
  <2> QED BY <1>4, <2>1, <2>2, <2>3, <2>4 DEF ClientInv
<1> QED BY <1>2, <1>6, <1>7 DEF ServedInv

(* A client whose connection is not being served has not been.               *)
LEMMA UnservedFresh ==
  ASSUME ServedInv, NEW c \in Clients, socket[c] # "closed",
         \A s \in Threads : Current(s) # c
  PROVE  Fresh(c)
  BY DEF ServedInv, ClientInv, Served

LEMMA NextServed ==
  ASSUME TypeOK, Homes, OneHolder, OpenIsHeld, ServedInv, [Next]_vars
  PROVE  ServedInv'
<1> USE NamesAssumption
<1>p. /\ pc \in PcType /\ pool \subseteq Workers /\ Workers \subseteq Threads /\ Main \in Threads
      /\ sent \in [Clients -> FirstBytes \cup {"nothing", "finished", "request"}]
      /\ socket \in [Clients -> {"none", "backlog", "aborted", "open", "closed"}]
      /\ held \in [Workers -> Clients \cup {NoSocket}]
      /\ \A t \in Threads : Current(t) \in Clients \cup {NoSocket}
  BY DEF TypeOK, PcType, Threads, Current
<1>1. CASE UNCHANGED vars
  <2>1. \A t \in Threads : Current(t)' = Current(t) /\ pc'[t].at = pc[t].at
    BY <1>1 DEF vars, Current
  <2> QED BY <1>1, <1>p, <2>1, QuietServed DEF vars, clientVars, tlsVars
<1>2. ASSUME NEW c \in Clients, Client(c) \/ AcceptFails(c)
      PROVE  ServedInv'
  <2>1. /\ pc' = pc /\ reply' = reply /\ session' = session /\ secure' = secure
        /\ \A d \in Clients : socket[d] = "closed" => socket'[d] = "closed"
    BY <1>2, <1>p DEF Client, Connect, Send, HangUp, AcceptFails, tlsVars
  <2>2. \A d \in Clients : \/ sent'[d] = sent[d]
                           \/ socket[d] # "closed" /\ sent[d] \notin {"plain", "request"}
    <3>1. CASE Send(c)
      <4>1. socket[c] # "closed" /\ sent[c] \notin {"plain", "request"}
        BY <3>1 DEF Send, MaySend
      <4>2. \A d \in Clients \ {c} : sent'[d] = sent[d]
        BY <1>p, <3>1 DEF Send
      <4> QED BY <4>1, <4>2
    <3>2. CASE sent' = sent
      BY <3>2
    <3> QED BY <1>2, <3>1, <3>2 DEF Client, Connect, HangUp, AcceptFails, clientVars
  <2>3. \A t \in Threads : Current(t)' = Current(t) /\ pc'[t].at = pc[t].at
    BY <2>1 DEF Current
  <2> QED BY <1>p, <2>1, <2>2, <2>3, QuietServed
<1>3. ASSUME NEW c \in Clients, Accept(c)
      PROVE  ServedInv'
  <2>1. /\ reply' = reply /\ session' = session /\ secure' = secure /\ sent' = sent
        /\ \A d \in Clients : socket[d] = "closed" => socket'[d] = "closed"
        /\ socket[c] = "backlog"
    BY <1>3, <1>p DEF Accept, tlsVars, clientVars
  <2>2. CASE pc' = pc
    <3>1. \A t \in Threads : Current(t)' = Current(t) /\ pc'[t].at = pc[t].at
      BY <2>2 DEF Current
    <3> QED BY <1>p, <2>1, <3>1, QuietServed
  <2>3. CASE /\ pc[Main].at = "ready"
             /\ pc' = [pc EXCEPT ![Main] = [at |-> "options", socket |-> c]]
    <3>1. Current(Main) = NoSocket
      BY <1>p, <2>3 DEF Homes
    <3>2. /\ \A t \in Threads : Current(t)' = IF t = Main THEN c ELSE Current(t)
          /\ \A t \in Threads : pc'[t].at = IF t = Main THEN "options" ELSE pc[t].at
      BY <1>p, <2>3 DEF Current, PcType
    <3>3. Fresh(c)
      BY <2>1, UnservedFresh DEF OpenIsHeld, Has
    <3> QED BY <1>p, <2>1, <3>1, <3>2, <3>3, StartServed
  <2> QED BY <1>3, <2>2, <2>3 DEF Accept
<1>4. ASSUME NEW w \in pool, Take(w) \/ Sleep(w) \/ Wake(w)
      PROVE  ServedInv'
  <2>1. /\ reply' = reply /\ session' = session /\ secure' = secure /\ sent' = sent
        /\ socket' = socket /\ pc[w].at \in {"ready", "asleep"}
        /\ \E q \in {"taking", "asleep", "ready"} : Goto(w, q)
    BY <1>4 DEF Take, Sleep, Wake, tlsVars, clientVars
  <2>2. /\ \A t \in Threads : Current(t)' = Current(t)
        /\ \A t \in Threads \ {w} : pc'[t].at = pc[t].at
    BY <1>p, <2>1, GotoIs DEF Places
  <2>3. Current(w) = NoSocket
    BY <1>p, <2>1 DEF Homes
  <2> QED BY <1>p, <2>1, <2>2, <2>3, QuietServed
<1>5. ASSUME NEW w \in pool, Handle(w)
      PROVE  ServedInv'
  <2>1. /\ reply' = reply /\ session' = session /\ secure' = secure /\ sent' = sent
        /\ socket' = socket /\ pc[w].at = "taking" /\ held[w] \in Clients
        /\ pc' = [pc EXCEPT ![w] = [at |-> "options", socket |-> held[w]]]
    BY <1>5, <1>p DEF Handle, Queue!HandOver, tlsVars, clientVars
  <2>2. Current(w) = NoSocket
    BY <1>p, <2>1 DEF Homes
  <2>3. PICK c \in Clients : c = held[w]
    BY <2>1
  <2>4. /\ \A t \in Threads : Current(t)' = IF t = w THEN c ELSE Current(t)
        /\ \A t \in Threads : pc'[t].at = IF t = w THEN "options" ELSE pc[t].at
    BY <1>p, <2>1, <2>3 DEF Current, PcType
  <2>5. Fresh(c)
    <3>1. socket[c] = "open"
      BY <1>p, <2>3 DEF OpenIsHeld, Has
    <3>2. \A t \in Threads : Current(t) # c
      BY <1>p, <2>3 DEF OneHolder
    <3> QED BY <3>1, <3>2, UnservedFresh
  <2> QED BY <1>p, <2>1, <2>2, <2>4, <2>5, StartServed
<1>6. ASSUME NEW s \in Threads, HandleSocket(s)
      PROVE  ServedInv'
  BY <1>6, HandleServed
<1> QED BY <1>1, <1>2, <1>3, <1>4, <1>5, <1>6 DEF Next, AcceptLoop, Worker

--------------------------------------------------------------------------------
(* The count of connections.                                                *)
LEMMA CountedFinite == IsFiniteSet(Counted) /\ Cardinality(Counted) \in Nat
<1>1. Counted \in SUBSET Clients
  BY DEF Counted
<1> QED BY <1>1, FiniteAssumption, FS_Subset, FS_CardinalityType

LEMMA InitCounts == Init => CountsBehind
<1> SUFFICES ASSUME Init
             PROVE  CountsBehind
  OBVIOUS
<1>1. Counted = {}
  BY DEF Init, Counted
<1>2. Cardinality(Counted) = 0 /\ active = 0
  BY <1>1, FS_EmptySet DEF Init
<1>3. \A s \in Threads : pc[s].at = "ready"
  BY DEF Init
<1> QED BY <1>2, <1>3 DEF CountsBehind, CountBounded

(* A thread that is counting the client it serves.                           *)
Counting(s, c) == Current(s) = c /\ pc[s].at \in {"handshake", "count", "counting"}

LEMMA CountedIs ==
  \A c : c \in Counted <=>
           c \in Clients /\ session[c] # "none" /\ \A s \in Threads : ~Counting(s, c)
  BY DEF Counted, Counting

(* Steps that neither count nor load the count change nothing of it.         *)
LEMMA QuietCounts ==
  ASSUME CountsBehind, Counted' = Counted, active' = active, seen' = seen, pool' = pool,
         \A s \in Threads : pc'[s].at = "counting" => pc[s].at = "counting"
  PROVE  CountsBehind'
  BY DEF CountsBehind, CountBounded, Servers

LEMMA HandleCounts ==
  ASSUME TypeOK, Homes, OnlyServers, OneHolder, ServedInv, CountsBehind,
         NEW s \in Threads, HandleSocket(s)
  PROVE  CountsBehind'
<1> USE NamesAssumption
<1>p. /\ pc \in PcType /\ session \in [Clients -> {"none", "live", "freed"}]
      /\ active \in Nat /\ seen \in [Threads -> Nat]
  BY DEF TypeOK, PcType
<1>1. PICK c \in Clients : c = Current(s) /\ c # NoSocket
  <2>1. pc[s].at \notin {"ready", "asleep", "taking"}
    BY DEF HandleSocket, SetOptions, Peek, SetTimeout, NewSession, Handshake, CountLoad,
           CountStore, Read, WriteHeader, WriteContent, Close
  <2> QED BY <2>1, CurrentIs
<1>2. pool' = pool /\ \A t \in Threads \ {s} : pc'[t] = pc[t] /\ Current(t)' = Current(t)
  <2>1. pool' = pool
    BY DEF HandleSocket, SetOptions, Peek, SetTimeout, NewSession, Handshake, CountLoad,
           CountStore, Read, WriteHeader, WriteContent, Close
  <2>2. \A t \in Threads \ {s} : pc'[t] = pc[t]
    BY <1>p DEF HandleSocket, SetOptions, Peek, SetTimeout, NewSession, Handshake, CountLoad,
                CountStore, Read, WriteHeader, WriteContent, Close, CloseConnection, Goto,
                Leave, PcType
  <2> QED BY <2>1, <2>2 DEF Current
<1>3. \A t \in Threads \ {s} : Current(t) # c
  BY <1>1 DEF OneHolder
<1>4. session[c] = IF pc[s].at \in Early THEN "none" ELSE "live"
  BY <1>1 DEF ServedInv, ThreadInv
<1>5. \A t \in Threads \ {s}, d \in Clients : Counting(t, d)' <=> Counting(t, d)
  BY <1>2 DEF Counting
<1>6. \A d \in Clients : Counting(s, d) => d = c
  BY <1>1 DEF Counting
<1>7. ASSUME Counting(s, c)' <=> Counting(s, c), session'[c] # "none" <=> session[c] # "none",
             \A d \in Clients \ {c} : session'[d] = session[d] /\ ~Counting(s, d)'
      PROVE  Counted' = Counted
  <2>1. \A d \in Clients, t \in Threads : Counting(t, d)' <=> Counting(t, d)
    BY <1>5, <1>6, <1>7
  <2>2. Counted' \subseteq Clients /\ Counted \subseteq Clients
    BY DEF Counted
  <2>3. \A d \in Clients : d \in Counted' <=> d \in Counted
    BY <1>7, <2>1 DEF Counted, Counting
  <2> QED BY <2>2, <2>3
<1>8. CASE SetOptions(s) \/ Peek(s) \/ SetTimeout(s) \/ Handshake(s) \/ Read(s)
             \/ WriteHeader(s) \/ WriteContent(s) \/ Close(s)
  <2>1. /\ active' = active /\ seen' = seen
        /\ \/ session' = session
           \/ session' = [session EXCEPT ![c] = "freed"] /\ pc[s].at \notin Early
    BY <1>1, <1>8 DEF SetOptions, Peek, SetTimeout, Handshake, Read, WriteHeader, WriteContent,
                      Close, CloseConnection, countVars, tlsVars, Early
  <2>2. \/ /\ \/ Leave(s)
              \/ \E q \in {"peek", "timeout", "session", "header", "content", "close"} : Goto(s, q)
           /\ pc[s].at \notin {"handshake", "count", "counting"}
        \/ Goto(s, "count") /\ pc[s].at = "handshake"
    BY <1>8 DEF SetOptions, Peek, SetTimeout, Handshake, Read, WriteHeader, WriteContent,
                Close, CloseConnection
  <2>3. /\ pc'[s].at # "counting" /\ Current(s)' \in {c, NoSocket}
        /\ Counting(s, c)' <=> Counting(s, c)
    <3>1. CASE Leave(s) /\ pc[s].at \notin {"handshake", "count", "counting"}
      BY <1>1, <1>p, <3>1, LeaveIs DEF Counting
    <3>2. ASSUME NEW q \in {"peek", "timeout", "session", "header", "content", "close"}, Goto(s, q),
                 pc[s].at \notin {"handshake", "count", "counting"}
          PROVE  /\ pc'[s].at # "counting" /\ Current(s)' \in {c, NoSocket}
                 /\ Counting(s, c)' <=> Counting(s, c)
      BY <1>1, <1>p, <3>2, GotoIs DEF Counting, Places
    <3>3. CASE Goto(s, "count") /\ pc[s].at = "handshake"
      BY <1>1, <1>p, <3>3, GotoIs DEF Counting, Places
    <3> QED BY <2>2, <3>1, <3>2, <3>3
  <2>4. Counted' = Counted
    BY <1>1, <1>4, <1>7, <1>p, <2>1, <2>3 DEF Counting
  <2> QED BY <1>2, <2>1, <2>3, <2>4, QuietCounts
<1>9. CASE NewSession(s)
  <2>1. /\ pc[s].at = "session" /\ active' = active /\ seen' = seen
        /\ \/ Goto(s, "handshake") /\ session' = [session EXCEPT ![c] = "live"]
           \/ Leave(s) /\ session' = session
    BY <1>1, <1>9 DEF NewSession, countVars
  <2>2. session[c] = "none" /\ ~Counting(s, c)
    BY <1>4, <2>1 DEF Early, Counting
  <2>3. CASE Goto(s, "handshake") /\ session' = [session EXCEPT ![c] = "live"]
    <3>1. pc'[s].at = "handshake" /\ Current(s)' = c
      BY <1>1, <1>p, <2>3, GotoIs DEF Places
    <3>2. c \notin Counted' /\ c \notin Counted
      BY <2>2, <3>1 DEF Counted
    <3>3. \A d \in Clients \ {c} : d \in Counted' <=> d \in Counted
      <4>1. \A d \in Clients \ {c} : session'[d] = session[d]
        BY <1>p, <2>3
      <4>2. \A d \in Clients \ {c} : ~Counting(s, d) /\ ~Counting(s, d)'
        BY <1>6, <3>1 DEF Counting
      <4>3. \A d \in Clients \ {c}, t \in Threads : Counting(t, d)' <=> Counting(t, d)
        BY <1>5, <4>2
      <4> QED BY <4>1, <4>3 DEF Counted, Counting
    <3>4. Counted' = Counted
      <4>1. Counted \subseteq Clients /\ Counted' \subseteq Clients
        BY DEF Counted
      <4> QED BY <3>2, <3>3, <4>1
    <3> QED BY <1>2, <2>1, <3>1, <3>4, QuietCounts
  <2>4. CASE Leave(s) /\ session' = session
    <3>1. pc'[s].at = "ready" /\ Current(s)' = NoSocket
      BY <1>p, <2>4, LeaveIs
    <3>2. Counted' = Counted
      BY <1>1, <1>7, <2>2, <2>4, <3>1 DEF Counting
    <3> QED BY <1>2, <2>1, <3>1, <3>2, QuietCounts
  <2> QED BY <2>1, <2>3, <2>4
<1>10. CASE CountLoad(s)
  <2>1. /\ pc[s].at = "count" /\ active' = active /\ session' = session
        /\ seen' = [seen EXCEPT ![s] = active] /\ Goto(s, "counting")
    BY <1>10 DEF CountLoad, tlsVars
  <2>2. pc'[s].at = "counting" /\ Current(s)' = c
    BY <1>1, <1>p, <2>1, GotoIs DEF Places
  <2>3. Counted' = Counted
    BY <1>1, <1>7, <2>1, <2>2 DEF Counting
  <2>4. seen'[s] = active /\ \A t \in Threads \ {s} : seen'[t] = seen[t] /\ pc'[t] = pc[t]
    BY <1>2, <1>p, <2>1
  <2>5. Servers' = Servers
    BY <1>2 DEF Servers
  <2> QED BY <2>1, <2>3, <2>4, <2>5 DEF CountsBehind, CountBounded
<1>11. CASE CountStore(s)
  <2>1. /\ pc[s].at = "counting" /\ active' = seen[s] + 1 /\ session' = session
        /\ seen' = seen /\ Goto(s, "read")
    BY <1>11 DEF CountStore, tlsVars
  <2>2. pc'[s].at = "read" /\ Current(s)' = c
    BY <1>1, <1>p, <2>1, GotoIs DEF Places
  <2>3. Counted' = Counted \cup {c} /\ c \notin Counted
    <3>1. c \notin Counted
      BY <1>1, <2>1 DEF Counted
    <3>2. \A t \in Threads : ~Counting(t, c)'
      BY <1>3, <1>5, <2>2 DEF Counting
    <3>3. session'[c] # "none"
      BY <1>4, <2>1 DEF Early
    <3>4. c \in Counted'
      BY <3>2, <3>3 DEF Counted, Counting
    <3>5. \A d \in Clients \ {c} : d \in Counted' <=> d \in Counted
      <4>1. \A d \in Clients \ {c} : ~Counting(s, d) /\ ~Counting(s, d)'
        BY <1>6, <2>2 DEF Counting
      <4>2. \A d \in Clients \ {c}, t \in Threads : Counting(t, d)' <=> Counting(t, d)
        BY <1>5, <4>1
      <4> QED BY <2>1, <4>2 DEF Counted, Counting
    <3>6. Counted \subseteq Clients /\ Counted' \subseteq Clients
      BY DEF Counted
    <3> QED BY <3>1, <3>4, <3>5, <3>6
  <2>4. /\ Cardinality(Counted') = Cardinality(Counted) + 1
        /\ Cardinality(Counted) \in Nat
    <3>1. Cardinality(Counted \cup {c}) = Cardinality(Counted) + 1
      BY <2>3, CountedFinite, FS_AddElement
    <3> QED BY <2>3, <3>1, CountedFinite
  <2>5. Servers' = Servers
    BY <1>2 DEF Servers
  <2>6. seen[s] \in Nat /\ seen[s] <= Cardinality(Counted)
    BY <1>p, <2>1 DEF CountsBehind
  <2>7. active' <= Cardinality(Counted')
    BY <2>1, <2>4, <2>6
  <2>8. \A t \in Threads : pc'[t].at = "counting" =>
          /\ t # s /\ pc[t].at = "counting" /\ seen'[t] = seen[t]
    BY <1>2, <2>1, <2>2
  <2>9. \A t \in Threads : pc'[t].at = "counting" => seen'[t] <= Cardinality(Counted')
    <3>1. \A t \in Threads : pc[t].at = "counting" => seen[t] <= Cardinality(Counted)
      BY DEF CountsBehind
    <3> QED BY <1>p, <2>4, <2>8, <3>1
  <2>10. ASSUME Cardinality(Servers) = 1
         PROVE  /\ active' = Cardinality(Counted')
                /\ \A t \in Threads : pc'[t].at # "counting"
    <3>1. active = Cardinality(Counted) /\ seen[s] = active
      BY <2>1, <2>10 DEF CountsBehind, CountBounded
    <3>2. IsFiniteSet(Servers)
      <4>1. IsFiniteSet(pool)
        BY FiniteAssumption, FS_Subset DEF TypeOK
      <4> QED BY <4>1, FS_Singleton DEF Servers
    <3>3. PICK x : Servers = {x}
      BY <2>10, <3>2, FS_Singleton
    <3>4. \A t \in Threads : pc[t].at = "counting" => t = x
      BY <3>3 DEF OnlyServers
    <3> QED BY <2>1, <2>4, <2>8, <3>1, <3>4
  <2> QED BY <2>5, <2>7, <2>9, <2>10 DEF CountsBehind, CountBounded
<1> QED BY <1>8, <1>9, <1>10, <1>11 DEF HandleSocket

LEMMA NextCounts ==
  ASSUME TypeOK, Homes, OnlyServers, OneHolder, ServedInv, CountsBehind, [Next]_vars
  PROVE  CountsBehind'
<1> USE NamesAssumption
<1>p. pc \in PcType /\ pool \subseteq Workers /\ Workers \subseteq Threads /\ Main \in Threads
  BY DEF TypeOK, PcType, Threads
<1>1. ASSUME session' = session, active' = active, seen' = seen, pool' = pool,
             \A t \in Threads : \/ pc'[t] = pc[t]
                                \/ /\ pc[t].at \in {"ready", "asleep", "taking"}
                                   /\ pc'[t].at \in {"ready", "asleep", "taking", "options"}
      PROVE  CountsBehind'
  <2>1. Counted' = Counted
    BY <1>1 DEF Counted, Current
  <2>2. \A t \in Threads : pc'[t].at = "counting" => pc[t].at = "counting"
    BY <1>1
  <2> QED BY <1>1, <2>1, <2>2, QuietCounts
<1>2. CASE UNCHANGED vars
  BY <1>1, <1>2 DEF vars, tlsVars, countVars
<1>3. ASSUME NEW c \in Clients, Client(c) \/ AcceptFails(c)
      PROVE  CountsBehind'
  BY <1>1, <1>3 DEF Client, Connect, Send, HangUp, AcceptFails, tlsVars, countVars
<1>4. ASSUME NEW c \in Clients, Accept(c)
      PROVE  CountsBehind'
  <2>1. \A t \in Threads : \/ pc'[t] = pc[t]
                           \/ pc[t].at = "ready" /\ pc'[t].at = "options"
    BY <1>4, <1>p DEF Accept, PcType
  <2> QED BY <1>1, <1>4, <2>1 DEF Accept, tlsVars, countVars
<1>5. ASSUME NEW w \in pool, Worker(w)
      PROVE  CountsBehind'
  <2>1. \A t \in Threads : \/ pc'[t] = pc[t]
                           \/ /\ pc[t].at \in {"ready", "asleep", "taking"}
                              /\ pc'[t].at \in {"ready", "asleep", "taking", "options"}
    BY <1>5, <1>p DEF Worker, Take, Handle, Sleep, Wake, Goto, PcType
  <2> QED BY <1>1, <1>5, <2>1 DEF Worker, Take, Handle, Sleep, Wake, tlsVars, countVars
<1>6. ASSUME NEW s \in Threads, HandleSocket(s)
      PROVE  CountsBehind'
  BY <1>6, HandleCounts
<1> QED BY <1>2, <1>3, <1>4, <1>5, <1>6 DEF Next, AcceptLoop

--------------------------------------------------------------------------------
(* ServerInv is inductive.                                                  *)
LEMMA InitServer == Init => ServerInv
  BY InitTypes, InitHolders, InitServed, ServedParts, InitCounts DEF ServerInv

LEMMA NextServer == ServerInv /\ [Next]_vars => ServerInv'
<1> SUFFICES ASSUME ServerInv, [Next]_vars
             PROVE  ServerInv'
  OBVIOUS
<1>1. /\ TypeOK /\ Homes /\ OnlyServers /\ OneHolder /\ OpenIsHeld
      /\ ServedInv /\ CountsBehind
  BY ServedParts DEF ServerInv
<1>2. TypeOK' /\ Homes' /\ OnlyServers'
  BY <1>1, NextTypes, NextHomes, NextServers
<1>3. OneHolder' /\ OpenIsHeld'
  BY <1>1, <1>2, NextMoves, HoldersKept
<1>4. ServedInv' /\ CountsBehind'
  BY <1>1, NextServed, NextCounts
<1>5. (FreshUntilServed /\ ServedInOrder /\ SessionsFreed /\ RepliesFit)'
  BY <1>4, ServedParts, PTL
<1> QED BY <1>2, <1>3, <1>4, <1>5 DEF ServerInv

(* In every run of the server the invariant holds: each accepted socket has  *)
(* one holder, is served in order and counted once at most.                  *)
THEOREM ServerAlways == Spec => []ServerInv
  BY InitServer, NextServer, PTL DEF Spec

(* Every variable stays in its type, whatever the number of threads.         *)
THEOREM ServerTypes == Spec => []TypeOK
<1>1. ServerInv => TypeOK
  BY DEF ServerInv
<1> QED BY <1>1, ServerAlways, PTL

(* ws_run and the workers never have a socket twice and never use or close    *)
(* one that another closed; only those the full queue refuses or SSL_new      *)
(* fails for are lost.                                                      *)
THEOREM ServerAccounts == Spec => []SocketsAccounted
<1>1. ServerInv => SocketsAccounted
  BY Accounted DEF ServerInv
<1> QED BY <1>1, ServerAlways, PTL

(* Every path out of g_handleSocket frees the session.                       *)
THEOREM ServerFrees == Spec => []SessionsFreed
<1>1. ServerInv => SessionsFreed
  BY DEF ServerInv
<1> QED BY <1>1, ServerAlways, PTL

(* Every client is answered at most once, as fits what it sent.              *)
THEOREM ServerAnswers == Spec => []RepliesFit
<1>1. ServerInv => RepliesFit
  BY DEF ServerInv
<1> QED BY <1>1, ServerAlways, PTL

(* activeConnections never invents a connection, and one thread loses none.  *)
THEOREM ServerCounts == Spec => []CountBounded
<1>1. ServerInv => CountBounded
  BY DEF ServerInv, CountsBehind
<1> QED BY <1>1, ServerAlways, PTL
================================================================================
