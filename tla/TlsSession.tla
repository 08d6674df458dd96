------------------------------ MODULE TlsSession ------------------------------
(***************************************************************************)
(* One connection of the server at the level of the calls of tlse that it  *)
(* makes (SSL_accept, SSL_read, SSL_write, SSL_shutdown, SSL_free), of the *)
(* socket under them and of the buffers between the two: the input that is *)
(* cut into TLS records, the decrypted data, the output that a send did    *)
(* not take yet.  The caller is g_handleSocket.                            *)
(*                                                                         *)
(* The peer sends records in pieces, RecordParts of them make one record.  *)
(* What the TLS engine makes of a record is reduced to its effect on these *)
(* buffers; a unit of output is a record the engine wrote.                 *)
(***************************************************************************)
EXTENDS Integers, Sequences, SequencesExt

CONSTANTS
  RecordParts,  \* the pieces of one record
  MaxRecords,   \* bound on the records the peer sends
  Kinds         \* the records the peer may send

ASSUME PartsAssumption == RecordParts \in Nat \ {0} /\ MaxRecords \in Nat
ASSUME KindsAssumption ==
  Kinds \subseteq {"hello", "finished", "data", "closing", "fatal", "junk"}

VARIABLES
  blocking,  \* the socket: TRUE in kit_webServer.h, FALSE in kit_tlseServer.h (O_NONBLOCK)
  stream,    \* the pieces the peer has sent, each named for its record
  hungUp,    \* the peer has closed its end
  received,  \* how many pieces recv returned
  tls,       \* the engine: see Engine
  wire,      \* what was sent: units, and Plain for the 403
  broken,    \* sending failed for good
  at,        \* the call of g_handleSocket in progress
  sending,   \* in _tls_ssl_private_send_pending
  accepted,  \* what SSL_accept returned: "pending", "one" or "error"
  got        \* history: what SSL_read returned

vars == <<blocking, stream, hungUp, received, tls, wire, broken, at, sending, accepted, got>>

peerVars == <<blocking, stream, hungUp>>
Plain    == 0

(* stage is connection_status, critical critical_error, out tls_buffer, app   *)
(* the application_buffer; parsed and made are history: how many records     *)
(* were parsed, and the kinds of the units written, by number.               *)
Engine == [stage : {"start", "hello", "established"}, critical : BOOLEAN,
           parsed : Nat, app : Seq(Nat), out : Seq(Nat),
           made : Seq({"flight", "alert", "page"})]

Init ==
  /\ blocking \in BOOLEAN
  /\ stream = << >> /\ hungUp = FALSE
  /\ received = 0
  /\ tls = [stage |-> "start", critical |-> FALSE, parsed |-> 0, app |-> << >>,
            out |-> << >>, made |-> << >>]
  /\ wire = << >> /\ broken = FALSE
  /\ at = "accept" /\ sending = FALSE
  /\ accepted = "pending"
  /\ got = << >>

--------------------------------------------------------------------------------
(* The engine.                                                              *)

(* Mutant: what is still unsent is written over.                             *)
WritePacket_Over(t, kind) ==
  [t EXCEPT !.out = <<Len(t.made) + 1>>, !.made = Append(@, kind)]

(* _private_tls_write_packet: appended to what is still unsent.              *)
WritePacket(t, kind) ==
  [t EXCEPT !.out = Append(@, Len(t.made) + 1), !.made = Append(@, kind)]

Fail(t) == [t EXCEPT !.critical = TRUE]

(* tls_parse_message and tls_parse_payload, for record i of kind k.          *)
ParseMessage(t, i, k) ==
  LET u == [t EXCEPT !.parsed = i] IN
  CASE k = "hello" /\ t.stage = "start" ->
         WritePacket([u EXCEPT !.stage = "hello"], "flight")
    [] k = "finished" /\ t.stage = "hello" ->
         WritePacket([u EXCEPT !.stage = "established"], "flight")
    [] k = "data" /\ t.stage = "established" -> [u EXCEPT !.app = Append(@, i)]
    [] k = "closing" -> u                                   \* only error_code is set
    [] k \in {"hello", "finished"} /\ t.stage = "established" ->
         WritePacket(u, "alert")                            \* no_renegotiation, a warning
    [] k \in {"fatal", "junk"} -> Fail(u)
    [] OTHER -> Fail(WritePacket(u, "alert"))               \* unexpected_message

ParseNext(t, i, k) == IF t.critical THEN t ELSE ParseMessage(t, i, k)

(* The kind of record i.                                                     *)
Kind(i) == stream[i * RecordParts]

(* Mutant: each piece is parsed for itself.                                  *)
ConsumeStream_PerPiece(n) ==
  LET Parsed[i \in received .. n] ==
        IF i = received THEN tls ELSE ParseNext(Parsed[i - 1], i, stream[i])
  IN  Parsed[n]

(* tls_consume_stream when n pieces are there: every complete record is      *)
(* parsed, until one is a critical error; the rest waits in message_buffer.  *)
ConsumeStream(n) ==
  LET last == n \div RecordParts
      Parsed[i \in tls.parsed .. last] ==
        IF i = tls.parsed THEN tls ELSE ParseNext(Parsed[i - 1], i, Kind(i))
  IN  Parsed[last]

--------------------------------------------------------------------------------
(* The peer.                                                                *)
PeerSends ==
  /\ ~hungUp /\ at # "over"
  /\ Len(stream) < MaxRecords * RecordParts
  /\ \E k \in Kinds :
       /\ Len(stream) % RecordParts # 0 => k = Last(stream)
       /\ stream' = Append(stream, k)
  /\ UNCHANGED <<blocking, hungUp, received, tls, wire, broken, at, sending, accepted, got>>

PeerHangsUp ==
  /\ ~hungUp /\ at # "over"
  /\ hungUp' = TRUE
  /\ UNCHANGED <<blocking, stream, received, tls, wire, broken, at, sending, accepted, got>>

--------------------------------------------------------------------------------
(* The calls.  Each is a loop around recv or send; what follows a system     *)
(* call up to the next one is part of its action.                            *)

(* The end of a call of SSL_accept: its result is tested for zero only.      *)
AcceptReturns(result) == accepted' = result /\ at' = "read"

(* if (tls_established(context)) return 1: it is -1 after a critical error.  *)
AfterAcceptStep(t) ==
  IF t.critical \/ t.stage = "established"
  THEN AcceptReturns("one")
  ELSE UNCHANGED <<at, accepted>>

(* tls_read with a buffer larger than anything that arrives.                 *)
TakeData(t) ==
  /\ got' = got \o t.app
  /\ tls' = [t EXCEPT !.app = << >>]

(* The rest of an SSL_read after its send: it loops until data is there.     *)
AfterReadStep(t) ==
  \/ /\ t.app # << >> /\ TakeData(t) /\ at' = "header"
  \/ /\ t.app = << >> /\ t.critical
     /\ at' = "forbidden" /\ tls' = t /\ UNCHANGED got
  \/ /\ t.app = << >> /\ ~t.critical
     /\ tls' = t /\ UNCHANGED <<at, got>>

(* recv in SSL_accept.  Output is sent unless tls_consume_stream failed.     *)
AcceptReceives ==
  /\ at = "accept" /\ ~sending
  /\ \E n \in received + 1 .. Len(stream) :
       LET t == ConsumeStream(n) IN
       /\ received' = n
       /\ tls' = t
       /\ sending' = (~t.critical /\ t.out # << >>)
       /\ IF sending' THEN UNCHANGED <<at, accepted>> ELSE AfterAcceptStep(t)
  /\ UNCHANGED <<peerVars, wire, broken, got>>

(* Mutant: recv returns only when the peer has closed.                       *)
NothingToReceive_NoTimeout == received = Len(stream) /\ hungUp

(* recv returns no data: the stream has ended, the two seconds passed, or    *)
(* the socket does not block.                                                *)
NothingToReceive == received = Len(stream)

AcceptFails ==
  /\ at = "accept" /\ ~sending
  /\ NothingToReceive
  /\ AcceptReturns("error")
  /\ UNCHANGED <<peerVars, received, tls, wire, broken, sending, got>>

(* SSL_read without a receive: data is there, or the session is unusable.    *)
ReadAtOnce ==
  /\ at = "read" /\ ~sending
  /\ \/ tls.app # << >> /\ TakeData(tls) /\ at' = "header"
     \/ /\ tls.app = << >> /\ (tls.critical \/ tls.stage # "established")
        /\ at' = "forbidden" /\ UNCHANGED <<got, tls>>
  /\ UNCHANGED <<peerVars, received, wire, broken, sending, accepted>>

ReadLoops == at = "read" /\ ~sending /\ tls.app = << >> /\ ~tls.critical
               /\ tls.stage = "established"

ReadReceives ==
  /\ ReadLoops
  /\ \E n \in received + 1 .. Len(stream) :
       LET t == ConsumeStream(n) IN
       /\ received' = n
       /\ sending' = (~t.critical /\ t.parsed > tls.parsed /\ t.out # << >>)
       /\ IF sending' THEN tls' = t /\ UNCHANGED <<at, got>> ELSE AfterReadStep(t)
  /\ UNCHANGED <<peerVars, wire, broken, accepted>>

ReadFails ==
  /\ ReadLoops
  /\ NothingToReceive
  /\ at' = "forbidden"
  /\ UNCHANGED <<peerVars, received, tls, wire, broken, sending, accepted, got>>

(* The 403 goes to the socket past the TLS session.                          *)
SendForbidden ==
  /\ at = "forbidden"
  /\ \/ ~broken /\ wire' = Append(wire, Plain)
     \/ UNCHANGED wire
  /\ at' = "shutdown"
  /\ UNCHANGED <<peerVars, received, tls, broken, sending, accepted, got>>

(* SSL_write of the header, then of the content: ws_writeData's result is    *)
(* not looked at.                                                           *)
NextWrite == IF at = "header" THEN "content" ELSE "shutdown"

Write ==
  /\ at \in {"header", "content"} /\ ~sending
  /\ tls' = WritePacket(tls, "page")
  /\ sending' = TRUE
  /\ UNCHANGED <<peerVars, received, wire, broken, at, accepted, got>>

(* SSL_shutdown only writes the alert; the socket is closed and SSL_free     *)
(* drops what is unsent.                                                     *)
Shutdown ==
  /\ at = "shutdown"
  /\ tls' = IF tls.critical THEN [tls EXCEPT !.out = << >>]
            ELSE [Fail(WritePacket(tls, "alert")) EXCEPT !.out = << >>]
  /\ at' = "over"
  /\ UNCHANGED <<peerVars, received, wire, broken, sending, accepted, got>>

--------------------------------------------------------------------------------
(* _tls_ssl_private_send_pending: one action is one send.                    *)

(* What each caller does with the result.  out is what is kept unsent.       *)
SendReturns(ok, out) ==
  LET t == [tls EXCEPT !.out = out] IN
  /\ sending' = FALSE
  /\ \/ /\ at = "accept" /\ tls' = t /\ UNCHANGED got
        /\ IF ok THEN AfterAcceptStep(t) ELSE AcceptReturns("error")
     \/ at = "read" /\ AfterReadStep(t) /\ UNCHANGED accepted
     \/ at \in {"header", "content"} /\ tls' = t /\ at' = NextWrite
          /\ UNCHANGED <<accepted, got>>

(* Mutant: the sent part is not taken off.                                   *)
SendSome_KeepsAll ==
  /\ sending /\ ~broken
  /\ \E n \in 1 .. Len(tls.out) :
       /\ wire' = wire \o SubSeq(tls.out, 1, n)
       /\ IF n = Len(tls.out) THEN SendReturns(TRUE, << >>)
          ELSE UNCHANGED <<tls, at, sending, accepted, got>>
  /\ UNCHANGED <<peerVars, received, broken>>

(* Mutant: a send is taken to be complete.                                   *)
SendSome_Once ==
  /\ sending /\ ~broken
  /\ \E n \in 1 .. Len(tls.out) :
       /\ wire' = wire \o SubSeq(tls.out, 1, n)
       /\ SendReturns(TRUE, << >>)
  /\ UNCHANGED <<peerVars, received, broken>>

(* send takes some of the buffer; the loop ends when all is taken.           *)
SendSome ==
  /\ sending /\ ~broken
  /\ \E n \in 1 .. Len(tls.out) :
       LET rest == SubSeq(tls.out, n + 1, Len(tls.out)) IN
       /\ wire' = wire \o SubSeq(tls.out, 1, n)
       /\ IF rest = << >> THEN SendReturns(TRUE, << >>)
          ELSE /\ tls' = [tls EXCEPT !.out = rest]
               /\ UNCHANGED <<at, sending, accepted, got>>
  /\ UNCHANGED <<peerVars, received, broken>>

(* EAGAIN: the rest stays pending, the call fails.                           *)
SendBlocks ==
  /\ sending /\ ~broken /\ ~blocking
  /\ SendReturns(FALSE, tls.out)
  /\ UNCHANGED <<peerVars, received, wire, broken>>

(* Any other failure clears the buffer; the connection stays broken.         *)
SendBreaks ==
  /\ sending
  /\ broken \/ hungUp
  /\ broken' = TRUE
  /\ SendReturns(FALSE, << >>)
  /\ UNCHANGED <<peerVars, received, wire>>

--------------------------------------------------------------------------------
Peer == PeerSends \/ PeerHangsUp

Server ==
  \/ AcceptReceives \/ AcceptFails
  \/ ReadAtOnce \/ ReadReceives \/ ReadFails
  \/ SendForbidden \/ Write \/ Shutdown
  \/ SendSome \/ SendBlocks \/ SendBreaks

Next == Peer \/ Server

Spec == Init /\ [][Next]_vars

(* The thread is scheduled; receives time out; the peer takes what is sent   *)
(* or goes away (a send has no timeout).                                     *)
FairSpec == Spec /\ WF_vars(Server)

--------------------------------------------------------------------------------
(* Every variable stays in its type.                                        *)
TypeOK ==
  /\ blocking \in BOOLEAN
  /\ stream \in Seq(Kinds) /\ hungUp \in BOOLEAN
  /\ received \in 0 .. Len(stream)
  /\ tls \in Engine
  /\ wire \in Seq(Nat) /\ broken \in BOOLEAN
  /\ at \in {"accept", "read", "header", "content", "forbidden", "shutdown", "over"}
  /\ sending \in BOOLEAN
  /\ accepted \in {"pending", "one", "error"}
  /\ got \in Seq(Nat)

(* What was sent through the session: the 403 comes last.                    *)
Sent == IF wire # << >> /\ Last(wire) = Plain THEN Front(wire) ELSE wire

(* The application data among the records parsed: what came after the        *)
(* handshake.                                                                *)
Data == {i \in 1 .. tls.parsed : Kind(i) = "data" /\ \E j \in 1 .. i : Kind(j) = "finished"}

(* Whatever send takes of the buffer at a time, and however often it has to  *)
(* be tried: what is on the wire, followed by what is pending, is what the   *)
(* engine wrote, each unit once and in order; and the 403 in clear, which    *)
(* would break the stream, never stands beside a page.                       *)
StreamIntact ==
  LET all == IF broken \/ at = "over" THEN Sent ELSE Sent \o tls.out
  IN  /\ \A i \in DOMAIN all : all[i] = i
      /\ broken \/ at = "over" \/ Len(all) = Len(tls.made)
      /\ Contains(wire, Plain) => \A i \in DOMAIN tls.made : tls.made[i] # "page"

(* However the stream is cut by recv: a record is parsed as soon as its last *)
(* piece is there, and SSL_read returns the application data, in order.      *)
ReadsWhatWasSent ==
  /\ tls.critical \/ tls.parsed = received \div RecordParts
  /\ LET read == got \o tls.app
     IN  /\ {read[i] : i \in DOMAIN read} = Data
         /\ \A i, j \in DOMAIN read : i < j => read[i] < read[j]

(* On a blocking socket that does not break a page that was written is sent  *)
(* completely, and a handshake is not left half sent unless it failed: what  *)
(* is lost when the session is freed is then at most alerts.                 *)
OnlyAlertsLost ==
  /\ blocking /\ ~broken
  /\ \/ at \in {"forbidden", "shutdown"} /\ ~tls.critical
     \/ at \in {"shutdown", "over"} /\ got # << >>
  => \A i \in DOMAIN tls.made :
       tls.made[i] # "alert" => \E j \in DOMAIN wire : wire[j] = i

(* The inductive invariant.  The input: what is parsed is what has come, a    *)
(* handshake is over if its last record was parsed, and nothing is parsed    *)
(* after a critical error.                                                   *)
Parsing ==
  /\ tls.parsed <= received \div RecordParts
  /\ IF tls.stage = "established" THEN \E j \in 1 .. tls.parsed : Kind(j) = "finished"
     ELSE \A j \in 1 .. tls.parsed : Kind(j) = "finished" => tls.critical /\ j = tls.parsed

(* The output: the 403 is sent last, and to one who has read nothing.         *)
Writing ==
  /\ at \notin {"shutdown", "over"} => \A i \in DOMAIN wire : wire[i] = i
  /\ at \in {"accept", "read", "forbidden"} =>
       got = << >> /\ \A i \in DOMAIN tls.made : tls.made[i] # "page"

(* What may be pending when nothing is being sent, on a blocking socket that  *)
(* does not break.                                                           *)
Pending ==
  blocking /\ ~broken =>
    /\ at \in {"accept", "read", "forbidden"} /\ ~sending => tls.critical \/ tls.out = << >>
    /\ at = "content" /\ ~sending => tls.out = << >>
    /\ at = "shutdown" => tls.out = << >> \/ (tls.critical /\ got = << >>)

(* All of it holds, whatever the peer sends.                                 *)
TlsInv ==
  /\ TypeOK
  /\ sending => at \in {"accept", "read", "header", "content"}
  /\ Parsing /\ ReadsWhatWasSent
  /\ Writing /\ StreamIntact
  /\ Pending /\ OnlyAlertsLost

(* The connection ends, whatever the peer sends or leaves out.               *)
SessionEnds == <>(at = "over")
================================================================================
