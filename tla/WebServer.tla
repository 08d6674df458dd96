------------------------------- MODULE WebServer -------------------------------
(***************************************************************************)
(* The server of kit_webServer.h and webserver.c from accept to close: the *)
(* accept loop hands sockets to the workers through the socket queue       *)
(* (FifoQueue, which SpmcQueue implements); a worker takes a socket        *)
(* through ws_nextConnection and g_handleSocket.  Without workers the      *)
(* accept loop, Main, handles each socket itself.                          *)
(*                                                                         *)
(* One action is one system call or TLS call with the code up to the next  *)
(* one.  Clients are the environment: what a client has sent so far is all *)
(* that the server can tell of it.                                         *)
(***************************************************************************)
EXTENDS Integers, Sequences, FiniteSets

CONSTANTS
  Clients,        \* each connects at most once; also names the server's socket for it
  Workers,        \* the threads that ws_init may start
  Pools,          \* the sets of them it starts: {} when maxWorkers is 0
  Main,           \* the thread that runs ws_run
  QueueCapacity,  \* maxQueuedConnection
  BackoffCap,     \* bound on continuedSleeping: 10 in ws__worker
  NoSocket

ASSUME QueueCapacityAssumption == QueueCapacity \in Nat \ {0}
ASSUME BackoffAssumption == BackoffCap \in Nat
ASSUME NamesAssumption == Main \notin Workers /\ NoSocket \notin Clients
ASSUME PoolsAssumption == Pools \subseteq SUBSET Workers
ASSUME FiniteAssumption == IsFiniteSet(Clients) /\ IsFiniteSet(Workers)

VARIABLES
  pool,     \* the workers
  sent,     \* the last thing each client has sent
  hungUp,   \* the clients that closed their end
  socket,   \* the server's socket of each client
  queue, held, got,  \* the socket queue, see FifoQueue
  pc,       \* where each server thread is in handling a socket
  idle,     \* continuedSleeping of each worker
  session,  \* the TLS session made for each client
  secure,   \* the clients whose TLS handshake completed
  active,   \* activeConnections, counted from its (unset) initial value
  seen,     \* the local copy of active in activeConnections++
  reply,    \* what was written to each client
  dropped   \* history: sockets given up without close

(* The threads that handle sockets; all others do nothing.                   *)
Threads == Workers \cup {Main}
Servers == IF pool = {} THEN {Main} ELSE pool

Queue == INSTANCE FifoQueue
           WITH Consumers <- Workers, Bound <- QueueCapacity - 1,
                Item <- Clients, NoItem <- NoSocket

clientVars == <<sent, hungUp>>
queueVars  == <<queue, held, got>>
tlsVars    == <<session, secure>>
countVars  == <<active, seen>>
vars == <<pool, clientVars, socket, queueVars, pc, idle, tlsVars, countVars, reply, dropped>>

(* The socket a busy server thread works on: clientSocket of handleSocket.  *)
Current(s) == pc[s].socket

Init ==
  /\ pool \in Pools
  /\ sent = [c \in Clients |-> "nothing"]
  /\ hungUp = {}
  /\ socket = [c \in Clients |-> "none"]
  /\ Queue!Init
  /\ pc = [s \in Threads |-> [at |-> "ready", socket |-> NoSocket]]
  /\ idle = [w \in Workers |-> 0]
  /\ session = [c \in Clients |-> "none"]
  /\ secure = {}
  /\ active = 0
  /\ seen = [s \in Threads |-> 0]
  /\ reply = [c \in Clients |-> << >>]
  /\ dropped = {}

--------------------------------------------------------------------------------
(* Clients.  "short" is one or two bytes, "plain" is text that is no TLS,   *)
(* "hello" opens a TLS handshake, "finished" completes it.                  *)
FirstBytes == {"short", "plain", "hello"}

MaySend(was, now) ==
  \/ was = "nothing" /\ now \in FirstBytes
  \/ was = "short" /\ now \in {"plain", "hello"}
  \/ was = "hello" /\ now = "finished"
  \/ was = "finished" /\ now = "request"

Connect(c) ==
  /\ socket[c] = "none" /\ c \notin hungUp
  /\ socket' = [socket EXCEPT ![c] = "backlog"]
  /\ UNCHANGED <<pool, clientVars, queueVars, pc, idle, tlsVars, countVars, reply, dropped>>

Send(c) ==
  /\ socket[c] \in {"backlog", "open"} /\ c \notin hungUp
  /\ \E now \in FirstBytes \cup {"finished", "request"} :
       MaySend(sent[c], now) /\ sent' = [sent EXCEPT ![c] = now]
  /\ UNCHANGED <<pool, hungUp, socket, queueVars, pc, idle, tlsVars, countVars, reply, dropped>>

HangUp(c) ==
  /\ socket[c] \in {"backlog", "open"} /\ c \notin hungUp
  /\ hungUp' = hungUp \cup {c}
  /\ UNCHANGED <<pool, sent, socket, queueVars, pc, idle, tlsVars, countVars, reply, dropped>>

--------------------------------------------------------------------------------
(* ws_run.  The result of spmcI32_enqueue is not looked at: a socket that   *)
(* the full queue refuses is forgotten, open.                               *)
Enqueue(c) ==
  \/ Queue!Put(c) /\ UNCHANGED dropped
  \/ /\ Len(queue) = QueueCapacity - 1
     /\ dropped' = dropped \cup {c}
     /\ UNCHANGED queueVars

Accept(c) ==
  /\ socket[c] = "backlog"
  /\ socket' = [socket EXCEPT ![c] = "open"]
  /\ \/ /\ pool # {}
        /\ Enqueue(c)
        /\ UNCHANGED pc
     \/ /\ pool = {}
        /\ pc[Main].at = "ready"
        /\ pc' = [pc EXCEPT ![Main] = [at |-> "options", socket |-> c]]
        /\ UNCHANGED <<queueVars, dropped>>
  /\ UNCHANGED <<pool, clientVars, idle, tlsVars, countVars, reply>>

(* accept fails for a connection its client has already given up.           *)
AcceptFails(c) ==
  /\ socket[c] = "backlog" /\ c \in hungUp
  /\ pool = {} => pc[Main].at = "ready"
  /\ socket' = [socket EXCEPT ![c] = "aborted"]
  /\ UNCHANGED <<pool, clientVars, queueVars, pc, idle, tlsVars, countVars, reply, dropped>>

--------------------------------------------------------------------------------
(* ws__worker.                                                              *)
Goto(s, at) == pc' = [pc EXCEPT ![s].at = at]

Take(w) ==
  /\ pc[w].at = "ready"
  /\ Queue!Take(w)
  /\ Goto(w, "taking")
  /\ UNCHANGED <<pool, clientVars, socket, idle, tlsVars, countVars, reply, dropped>>

Handle(w) ==
  /\ pc[w].at = "taking"
  /\ Queue!HandOver(w)
  /\ pc' = [pc EXCEPT ![w] = [at |-> "options", socket |-> held[w]]]
  /\ idle' = [idle EXCEPT ![w] = 0]
  /\ UNCHANGED <<pool, clientVars, socket, tlsVars, countVars, reply, dropped>>

Sleep(w) ==
  /\ pc[w].at = "ready"
  /\ queue = << >>
  /\ Goto(w, "asleep")
  /\ idle' = [idle EXCEPT ![w] = IF @ < BackoffCap THEN @ + 1 ELSE @]
  /\ UNCHANGED <<pool, clientVars, socket, queueVars, tlsVars, countVars, reply, dropped>>

Wake(w) ==
  /\ pc[w].at = "asleep"
  /\ Goto(w, "ready")
  /\ UNCHANGED <<pool, clientVars, socket, queueVars, idle, tlsVars, countVars, reply, dropped>>

--------------------------------------------------------------------------------
(* ws_nextConnection.  Leave is the return to the worker's loop, or to main. *)
Leave(s) == pc' = [pc EXCEPT ![s] = [at |-> "ready", socket |-> NoSocket]]

CloseSocket(c) == socket' = [socket EXCEPT ![c] = "closed"]

Answer(c, what) == reply' = [reply EXCEPT ![c] = Append(@, what)]

(* Mutant: the error path does not close. *)
SetOptions_NoClose(s) ==
  /\ pc[s].at = "options"
  /\ Goto(s, "peek") \/ Leave(s)
  /\ UNCHANGED <<pool, clientVars, socket, queueVars, idle, tlsVars, countVars, reply, dropped>>

SetOptions(s) ==
  /\ pc[s].at = "options"
  /\ \/ Goto(s, "peek") /\ UNCHANGED socket
     \/ Leave(s) /\ CloseSocket(Current(s))
  /\ UNCHANGED <<pool, clientVars, queueVars, idle, tlsVars, countVars, reply, dropped>>

(* Mutants: the plain-text client is answered and forgotten; it is counted as *)
(* an active connection; the receive waits until it has three bytes.         *)
Peek_NoClose(s) ==
  LET c == Current(s) IN
  /\ pc[s].at = "peek"
  /\ sent[c] # "nothing" \/ c \in hungUp
  /\ \/ sent[c] # "plain" /\ Goto(s, "timeout") /\ UNCHANGED reply
     \/ sent[c] = "plain" /\ Answer(c, "400") /\ Leave(s)
  /\ UNCHANGED <<pool, clientVars, socket, queueVars, idle, tlsVars, countVars, dropped>>

Peek_CountsRejected(s) ==
  LET c == Current(s) IN
  /\ pc[s].at = "peek"
  /\ sent[c] # "nothing" \/ c \in hungUp
  /\ \/ sent[c] # "plain" /\ Goto(s, "timeout") /\ UNCHANGED <<socket, reply, active>>
     \/ /\ sent[c] = "plain" /\ active' = active + 1
        /\ Answer(c, "400") /\ CloseSocket(c) /\ Leave(s)
  /\ UNCHANGED <<pool, clientVars, queueVars, idle, tlsVars, seen, dropped>>

Peek_WaitsForThree(s) ==
  LET c == Current(s) IN
  /\ pc[s].at = "peek"
  /\ sent[c] \notin {"nothing", "short"} \/ c \in hungUp
  /\ \/ sent[c] # "plain" /\ Goto(s, "timeout") /\ UNCHANGED <<socket, reply>>
     \/ sent[c] = "plain" /\ Answer(c, "400") /\ CloseSocket(c) /\ Leave(s)
  /\ UNCHANGED <<pool, clientVars, queueVars, idle, tlsVars, countVars, dropped>>

(* recv with MSG_PEEK waits, for ever, for the first bytes or the end of the *)
(* stream; three bytes that do not start TLS are answered in the clear.      *)
Peek(s) ==
  LET c == Current(s) IN
  /\ pc[s].at = "peek"
  /\ sent[c] # "nothing" \/ c \in hungUp
  /\ \/ /\ sent[c] # "plain"
        /\ Goto(s, "timeout")
        /\ UNCHANGED <<socket, reply>>
     \/ /\ sent[c] = "plain"
        /\ Answer(c, "400")
        /\ CloseSocket(c)
        /\ Leave(s)
  /\ UNCHANGED <<pool, clientVars, queueVars, idle, tlsVars, countVars, dropped>>

SetTimeout(s) ==
  /\ pc[s].at = "timeout"
  /\ \/ Goto(s, "session") /\ UNCHANGED socket
     \/ Leave(s) /\ CloseSocket(Current(s))
  /\ UNCHANGED <<pool, clientVars, queueVars, idle, tlsVars, countVars, reply, dropped>>

(* SSL_new and SSL_set_fd; when SSL_new fails the socket is left open.       *)
NewSession(s) ==
  LET c == Current(s) IN
  /\ pc[s].at = "session"
  /\ \/ /\ session' = [session EXCEPT ![c] = "live"]
        /\ Goto(s, "handshake")
        /\ UNCHANGED dropped
     \/ /\ dropped' = dropped \cup {c}
        /\ Leave(s)
        /\ UNCHANGED session
  /\ UNCHANGED <<pool, clientVars, socket, queueVars, idle, secure, countVars, reply>>

(* SSL_accept returns 1, or a negative error (a receive of two seconds that  *)
(* timed out, the end of the stream, a broken handshake), never 0: the test  *)
(* for failure does not fire and both go on.                                *)
Handshake(s) ==
  LET c == Current(s) IN
  /\ pc[s].at = "handshake"
  /\ \/ /\ sent[c] \in {"finished", "request"}
        /\ secure' = secure \cup {c}
     \/ /\ sent[c] \notin {"finished", "request"} \/ c \in hungUp
        /\ UNCHANGED secure
  /\ Goto(s, "count")
  /\ UNCHANGED <<pool, clientVars, socket, queueVars, idle, session, countVars, reply, dropped>>

(* context->activeConnections++ by several threads: a load and a store.      *)
CountLoad(s) ==
  /\ pc[s].at = "count"
  /\ seen' = [seen EXCEPT ![s] = active]
  /\ Goto(s, "counting")
  /\ UNCHANGED <<pool, clientVars, socket, queueVars, idle, tlsVars, active, reply, dropped>>

CountStore(s) ==
  /\ pc[s].at = "counting"
  /\ active' = seen[s] + 1
  /\ Goto(s, "read")
  /\ UNCHANGED <<pool, clientVars, socket, queueVars, idle, tlsVars, seen, reply, dropped>>

--------------------------------------------------------------------------------
(* g_handleSocket.                                                          *)

(* Mutant: SSL_free is missing. *)
CloseConnection_NoFree(s) ==
  /\ CloseSocket(Current(s))
  /\ Leave(s)
  /\ UNCHANGED session

(* ws_closeClientConnection: SSL_shutdown, shutdown, close, SSL_free.        *)
CloseConnection(s) ==
  /\ CloseSocket(Current(s))
  /\ session' = [session EXCEPT ![Current(s)] = "freed"]
  /\ Leave(s)

(* Mutant: no return after the 403. *)
Read_NoReturn(s) ==
  LET c == Current(s) IN
  /\ pc[s].at = "read"
  /\ IF c \in secure /\ sent[c] = "request" THEN UNCHANGED reply ELSE Answer(c, "403")
  /\ Goto(s, "header")
  /\ UNCHANGED <<pool, clientVars, socket, session, queueVars, idle, secure, countVars, dropped>>

(* SSL_read fails at once without a session that is established, and after   *)
(* the receive timeout without a request; the answer then is 403, in clear.  *)
Read(s) ==
  LET c == Current(s) IN
  /\ pc[s].at = "read"
  /\ \/ /\ c \in secure /\ sent[c] = "request"
        /\ Goto(s, "header")
        /\ UNCHANGED <<socket, session, reply>>
     \/ /\ c \notin secure \/ sent[c] # "request"
        /\ Answer(c, "403")
        /\ CloseConnection(s)
  /\ UNCHANGED <<pool, clientVars, queueVars, idle, secure, countVars, dropped>>

WriteHeader(s) ==
  /\ pc[s].at = "header"
  /\ Answer(Current(s), "200")
  /\ Goto(s, "content")
  /\ UNCHANGED <<pool, clientVars, socket, queueVars, idle, tlsVars, countVars, dropped>>

WriteContent(s) ==
  /\ pc[s].at = "content"
  /\ Answer(Current(s), "content")
  /\ Goto(s, "close")
  /\ UNCHANGED <<pool, clientVars, socket, queueVars, idle, tlsVars, countVars, dropped>>

Close(s) ==
  /\ pc[s].at = "close"
  /\ CloseConnection(s)
  /\ UNCHANGED <<pool, clientVars, queueVars, idle, secure, countVars, reply, dropped>>

--------------------------------------------------------------------------------
Client(c) == Connect(c) \/ Send(c) \/ HangUp(c)

AcceptLoop == \E c \in Clients : Accept(c) \/ AcceptFails(c)

HandleSocket(s) ==
  \/ SetOptions(s) \/ Peek(s) \/ SetTimeout(s) \/ NewSession(s) \/ Handshake(s)
  \/ CountLoad(s) \/ CountStore(s)
  \/ Read(s) \/ WriteHeader(s) \/ WriteContent(s) \/ Close(s)

Worker(w) == Take(w) \/ Handle(w) \/ Sleep(w) \/ Wake(w)

Next ==
  \/ \E c \in Clients : Client(c)
  \/ AcceptLoop
  \/ \E s \in Threads : HandleSocket(s)
  \/ \E w \in pool : Worker(w)

Spec == Init /\ [][Next]_vars

(* The threads are scheduled.  Accept is weakly fair for every connection:   *)
(* the kernel hands out the backlog in order.                                *)
FairSpec ==
  /\ Spec
  /\ \A c \in Clients : WF_vars(Accept(c) \/ AcceptFails(c))
  /\ \A s \in Threads : WF_vars(HandleSocket(s))
  /\ \A w \in Workers : WF_vars(w \in pool /\ Worker(w))

(* What the server relies on: no client stays connected and silent for ever. *)
SpeakUp(c) == sent[c] = "nothing" /\ (Send(c) \/ HangUp(c))

TalkingSpec == FairSpec /\ \A c \in Clients : WF_vars(SpeakUp(c))

--------------------------------------------------------------------------------
(* Every variable stays in its type.                                        *)
Places == {"ready", "asleep", "taking", "options", "peek", "timeout", "session",
           "handshake", "count", "counting", "read", "header", "content", "close"}

TypeOK ==
  /\ sent \in [Clients -> FirstBytes \cup {"nothing", "finished", "request"}]
  /\ hungUp \subseteq Clients
  /\ socket \in [Clients -> {"none", "backlog", "aborted", "open", "closed"}]
  /\ queue \in Seq(Clients)
  /\ held \in [Workers -> Clients \cup {NoSocket}]
  /\ got \in [Workers -> Seq(Clients)]
  /\ pool \subseteq Workers
  /\ pc \in [Threads -> [at : Places, socket : Clients \cup {NoSocket}]]
  /\ idle \in [Workers -> 0 .. BackoffCap]
  /\ session \in [Clients -> {"none", "live", "freed"}]
  /\ secure \subseteq Clients
  /\ active \in Nat
  /\ seen \in [Threads -> Nat]
  /\ reply \in [Clients -> Seq({"400", "403", "200", "content"})]
  /\ dropped \subseteq Clients

(* Who has the socket of c: a place in the queue, a worker that is taking it *)
(* from the queue, or a thread that handles it.                              *)
Holders(c) ==
  {<<"queue", i>> : i \in {j \in DOMAIN queue : queue[j] = c}}
    \cup {<<"taking", w>> : w \in {v \in Workers : held[v] = c}}
    \cup {<<"handling", s>> : s \in {t \in Threads : Current(t) = c}}

(* An accepted socket is open exactly while one holder has it, so nobody     *)
(* uses or closes a socket another thread closed, and none is closed twice;  *)
(* the only sockets that stay open without a holder are those that a full    *)
(* queue refused and those for which SSL_new failed.                         *)
SocketsAccounted ==
  \A c \in Clients :
    /\ Cardinality(Holders(c)) <= 1
    /\ socket[c] = "open" <=> (Holders(c) # {} \/ c \in dropped)
    /\ c \in dropped => Holders(c) = {}

(* A TLS session exists only while a thread handles its socket: every path   *)
(* out of g_handleSocket after SSL_new frees it.                             *)
SessionsFreed ==
  \A c \in Clients : session[c] = "live" =>
    \E s \in Threads : Current(s) = c /\ pc[s].at \notin {"options", "peek", "timeout", "session"}

(* What a client is answered fits what it sent: 400 only to a plain-text     *)
(* start, the page, header first, only for a request over TLS, 403 otherwise, *)
(* and never two of them.                                                    *)
RepliesFit ==
  \A c \in Clients :
    \/ reply[c] = << >>
    \/ reply[c] = <<"400">> /\ sent[c] = "plain" /\ session[c] = "none"
    \/ reply[c] = <<"403">> /\ (c \notin secure \/ sent[c] # "request")
    \/ reply[c] \in {<<"200">>, <<"200", "content">>} /\ c \in secure /\ sent[c] = "request"

(* activeConnections loses counts when threads race, but never invents one,  *)
(* and is exact when one thread handles all.                                 *)
Counted ==
  {c \in Clients : /\ session[c] # "none"
                   /\ ~\E s \in Threads : /\ Current(s) = c
                                          /\ pc[s].at \in {"handshake", "count", "counting"}}

CountBounded ==
  /\ active <= Cardinality(Counted)
  /\ Cardinality(Servers) = 1 => active = Cardinality(Counted)

--------------------------------------------------------------------------------
(* The inductive invariant.  A thread has a socket exactly while it handles  *)
(* one, and a worker holds one exactly between the two steps of a dequeue.   *)
Homes ==
  /\ \A s \in Threads : Current(s) = NoSocket <=> pc[s].at \in {"ready", "asleep", "taking"}
  /\ \A w \in Workers : held[w] = NoSocket <=> pc[w].at # "taking"

(* No two places in the queue, workers or threads have the same socket.      *)
OneHolder ==
  /\ \A i, j \in DOMAIN queue : queue[i] = queue[j] => i = j
  /\ \A v, w \in Workers : held[v] = held[w] => v = w \/ held[v] = NoSocket
  /\ \A s, t \in Threads : Current(s) = Current(t) => s = t \/ Current(s) = NoSocket
  /\ \A i \in DOMAIN queue :
       /\ \A w \in Workers : held[w] # queue[i]
       /\ \A s \in Threads : Current(s) # queue[i]
  /\ \A w \in Workers, s \in Threads : held[w] = Current(s) => held[w] = NoSocket

Has(c) ==
  \/ \E i \in DOMAIN queue : queue[i] = c
  \/ \E w \in Workers : held[w] = c
  \/ \E s \in Threads : Current(s) = c

OpenIsHeld ==
  \A c \in Clients : /\ socket[c] = "open" <=> (Has(c) \/ c \in dropped)
                     /\ c \in dropped => ~Has(c)

(* A socket nobody has begun to serve has no session and no reply.           *)
Early == {"options", "peek", "timeout", "session"}
Fresh(c) == reply[c] = << >> /\ session[c] = "none"
Served(c) == \E s \in Threads : Current(s) = c /\ pc[s].at \notin Early

FreshUntilServed ==
  \A c \in Clients : Fresh(c) \/ socket[c] = "closed" \/ Served(c)

(* What was written so far, and when a request is known to be there.         *)
WrittenBy(place) ==
  CASE place = "content" -> <<"200">>
    [] place = "close"   -> <<"200", "content">>
    [] OTHER             -> << >>

ServedInOrder ==
  \A s \in Threads : Current(s) # NoSocket =>
    LET c == Current(s) IN
    /\ reply[c] = WrittenBy(pc[s].at)
    /\ session[c] = IF pc[s].at \in Early THEN "none" ELSE "live"
    /\ pc[s].at \in {"header", "content", "close"} => c \in secure /\ sent[c] = "request"

(* A count that a thread loaded is no larger than the number counted.        *)
CountsBehind ==
  /\ CountBounded
  /\ \A s \in Threads : pc[s].at = "counting" => seen[s] <= Cardinality(Counted)
  /\ Cardinality(Servers) = 1 => \A s \in Threads : pc[s].at = "counting" => seen[s] = active

(* Only the threads of Servers handle sockets.                               *)
OnlyServers == \A s \in Threads \ Servers : pc[s].at = "ready"

ServerInv ==
  /\ TypeOK /\ Homes /\ OnlyServers
  /\ OneHolder /\ OpenIsHeld
  /\ FreshUntilServed /\ ServedInOrder /\ SessionsFreed /\ RepliesFit
  /\ CountsBehind

--------------------------------------------------------------------------------
(* If no client stays silent for ever, every connection is answered and      *)
(* closed, aborted by its client, or one of those given up.                  *)
ConnectionsEnd ==
  \A c \in Clients :
    socket[c] = "backlog" ~> socket[c] \in {"closed", "aborted"} \/ c \in dropped

(* ws_nextConnection sets a receive timeout ("rec timeout"), so no thread     *)
(* should wait for ever for a client's first bytes.                          *)
ReceiveTimesOut == \A s \in Threads : pc[s].at = "peek" ~> pc[s].at # "peek"
================================================================================
