------------------------------ MODULE Negotiation ------------------------------
(***************************************************************************)
(* negotiate() of SpdmRequester and SpdmResponder (transport/spdm) as the  *)
(* programs of examples/spdm run it: a server accepts one connection after *)
(* the other, negotiates and serves it (here: the echo example), and       *)
(* leaves its accept loop when anything fails; each client connects,       *)
(* negotiates and uses the session.                                        *)
(*                                                                         *)
(* A flight is a request of the requester and its response.  spdm-rs is    *)
(* taken by its effect: it asks for the flights in order and answers each, *)
(* or fails.  Packets are whole and in order (FramedStream).               *)
(***************************************************************************)
EXTENDS Naturals, Sequences

CONSTANTS
  Client,    \* the client programs, one connection each
  Rounds     \* messages the echo client sends

ASSUME NegotiationAssumption == Rounds \in Nat \ {0}

\* init_connection(), the four calls after it, and start_session().
Flights == <<"version", "capabilities", "algorithms", "digests", "certificate",
             "challenge", "measurements", "key_exchange", "finish">>

VARIABLES
  verifyPeer,   \* opts.verify_peer of each client
  attestSelf,   \* opts.attest_self of the server
  state,        \* of a client: "start", "negotiate", "echo", "ended", "failed"
  flight,       \* requester: number of the flight it is at
  link,         \* what is on a connection: "empty", "request", "response"
  genuine,      \* does the evidence shown on a connection verify?
  session,      \* responder: "none", "handshaking", "established"
  dropped,      \* ends of the connections the programs have closed
  rounds,       \* echo messages a client has had back
  backlog,      \* connections not accepted yet
  server,       \* "accept", "negotiate", "echo", "exited"
  current,      \* the connection it works on
  served,       \* echo messages it has received on that connection
  checked,      \* history: what a requester has checked: "evidence", "transcript"
  fault         \* history: has anything failed by itself?

client == <<state, flight, rounds, checked>>
responder == <<backlog, server, current, served, session, genuine>>
options == <<verifyPeer, attestSelf>>
vars == <<options, client, responder, link, dropped, fault>>

Init ==
  /\ verifyPeer \in [Client -> BOOLEAN] /\ attestSelf \in BOOLEAN
  /\ state = [c \in Client |-> "start"]
  /\ flight = [c \in Client |-> 1]
  /\ link = [c \in Client |-> "empty"]
  /\ genuine = [c \in Client |-> FALSE]
  /\ session = [c \in Client |-> "none"]
  /\ dropped = {}
  /\ rounds = [c \in Client |-> 0]
  /\ backlog = <<>>
  /\ server = "accept" /\ current = "none" /\ served = 0
  /\ checked = [c \in Client |-> {}]
  /\ fault = FALSE

ClientGone(c) == <<c, "client">> \in dropped
ServerGone(c) == <<c, "server">> \in dropped

------------------------------------------------------------------------------
(* A client: with_spdm_tcp_client().                                       *)

\* It connects and builds a requester; the system queues the connection.
Connect(c) ==
  /\ state[c] = "start" /\ server # "exited"
  /\ backlog' = Append(backlog, c)
  /\ state' = [state EXCEPT ![c] = "negotiate"]
  /\ UNCHANGED <<options, flight, rounds, checked, server, current, served, session, genuine,
                 link, dropped, fault>>

\* The program ends, and with it its end of the connection is closed.
ClientExits(c, how) ==
  /\ state' = [state EXCEPT ![c] = how]
  /\ dropped' = dropped \cup {<<c, "client">>}

\* The next request of negotiate(), or the next message of the echo client.
Request(c) ==
  /\ state[c] \in {"negotiate", "echo"} /\ link[c] = "empty" /\ ~ServerGone(c)
  /\ link' = [link EXCEPT ![c] = "request"]
  /\ UNCHANGED <<options, client, responder, dropped, fault>>

Receives(c, f) == state[c] = "negotiate" /\ Flights[flight[c]] = f /\ link[c] = "response"

Proceed(c) ==
  /\ flight' = [flight EXCEPT ![c] = @ + 1]
  /\ link' = [link EXCEPT ![c] = "empty"]

\* Mutant of Response: negotiate() takes FINISH_RSP for a flight among others.
ResponseOnly(c) ==
  /\ \E f \in {"version", "capabilities", "algorithms", "digests", "challenge", "key_exchange",
             "finish"} : Receives(c, f)
  /\ Proceed(c)
  /\ UNCHANGED <<options, state, rounds, checked, responder, dropped, fault>>

\* Response to a flight whose content negotiate() leaves to spdm-rs.
Response(c) ==
  /\ \E f \in {"version", "capabilities", "algorithms", "digests", "challenge", "key_exchange"} :
       Receives(c, f)
  /\ Proceed(c)
  /\ UNCHANGED <<options, state, rounds, checked, responder, dropped, fault>>

\* Mutant of VerifyCertChain: the error of verify_cert_der() is only logged.
VerifyCertChainLogs(c) == TRUE

\* RatsCertValidationStrategy with VERIFY_PEER; spdm-rs' own one else.
VerifyCertChain(c) == verifyPeer[c] => genuine[c]

CertificateOk(c) ==
  /\ Receives(c, "certificate") /\ VerifyCertChain(c)
  /\ checked' = [checked EXCEPT ![c] = IF genuine[c] THEN @ \cup {"evidence"} ELSE @]
  /\ Proceed(c)
  /\ UNCHANGED <<options, state, rounds, responder, dropped, fault>>

\* Mutant of MeasurementsOk: that there is no transcript is only logged.
MeasurementsLogged(c) ==
  /\ Receives(c, "measurements")
  /\ Proceed(c)
  /\ UNCHANGED <<options, state, rounds, checked, responder, dropped, fault>>

\* send_receive_spdm_measurement() gave the transcript that its signature covers.
MeasurementsOk(c) ==
  /\ Receives(c, "measurements")
  /\ checked' = [checked EXCEPT ![c] = @ \cup {"transcript"}]
  /\ Proceed(c)
  /\ UNCHANGED <<options, state, rounds, responder, dropped, fault>>

\* It refuses the certificate, and negotiate() fails with it.
CertificateRefused(c) ==
  /\ Receives(c, "certificate") /\ ~VerifyCertChain(c)
  /\ ClientExits(c, "failed")
  /\ fault' = TRUE
  /\ UNCHANGED <<options, flight, rounds, checked, responder, link>>

\* start_session() returns the session id.
SessionStarted(c) ==
  /\ Receives(c, "finish")
  /\ state' = [state EXCEPT ![c] = "echo"]
  /\ link' = [link EXCEPT ![c] = "empty"]
  /\ UNCHANGED <<options, flight, rounds, checked, responder, dropped, fault>>

\* The echo client gets its message back; after the last one it shuts down.
EchoBack(c) ==
  /\ state[c] = "echo" /\ link[c] = "response"
  /\ rounds' = [rounds EXCEPT ![c] = @ + 1]
  /\ link' = [link EXCEPT ![c] = "empty"]
  /\ IF rounds[c] + 1 = Rounds THEN ClientExits(c, "ended") ELSE UNCHANGED <<state, dropped>>
  /\ UNCHANGED <<options, flight, checked, responder, fault>>

\* The server has gone: the call in progress fails.
ClientEof(c) ==
  /\ state[c] \in {"negotiate", "echo"} /\ ServerGone(c) /\ link[c] # "response"
  /\ ClientExits(c, "failed")
  /\ UNCHANGED <<options, flight, rounds, checked, responder, link, fault>>

\* A call fails by itself, there is no transcript, or the program is killed.
ClientFails(c) ==
  /\ state[c] \in {"negotiate", "echo"}
  /\ ClientExits(c, "failed")
  /\ fault' = TRUE
  /\ UNCHANGED <<options, flight, rounds, checked, responder, link>>

------------------------------------------------------------------------------
(* The server: with_spdm_tcp_server().                                     *)

\* The accept loop is left with `?`: every connection is closed.
ServerExits ==
  /\ server' = "exited"
  /\ dropped' = dropped \cup {<<c, "server">> : c \in Client}

\* A connection is accepted and a responder built for it, with new evidence when
\* it is to attest itself. One that is not shows no certificate at all: it is
\* taken as one that does not verify.
Accept ==
  /\ server = "accept" /\ backlog # <<>>
  /\ current' = Head(backlog) /\ backlog' = Tail(backlog)
  /\ genuine' = [genuine EXCEPT ![Head(backlog)] = attestSelf]
  /\ server' = "negotiate"
  /\ UNCHANGED <<options, client, served, session, link, dropped, fault>>

\* The loop is left before there is a responder: accept() fails, peer_addr() of a
\* connection that has gone panics, or there is no evidence to be had.
BuildFails ==
  /\ server = "accept"
  /\ ServerExits
  /\ fault' = TRUE
  /\ UNCHANGED <<options, client, backlog, current, served, session, genuine, link>>

\* The session of the packet process_message() has handled, after it: the packet
\* of FINISH, which is secured, begins with the session id; no other one does.
SessionAfter(c) == CASE Flights[flight[c]] = "key_exchange" -> "handshaking"
                     [] Flights[flight[c]] = "finish" -> "established"
                     [] OTHER -> session[c]

LookedUp(c) == IF Flights[flight[c]] = "finish" THEN SessionAfter(c) ELSE "none"

\* Mutants of Established: that a session exists is enough, whatever the packet;
\* the packet must name an established session at once.
EstablishedEarly(c) == IF SessionAfter(c) # "none" THEN "ok" ELSE "continue"
EstablishedOrFail(c) == IF LookedUp(c) = "established" THEN "ok" ELSE "error"

\* What negotiate() makes of it.
Established(c) == IF LookedUp(c) = "established" THEN "ok" ELSE "continue"

\* One round of negotiate(): a request is handled and answered.
ProcessMessage(c) ==
  /\ server = "negotiate" /\ current = c /\ link[c] = "request"
  /\ session' = [session EXCEPT ![c] = SessionAfter(c)]
  /\ link' = [link EXCEPT ![c] = "response"]
  /\ CASE Established(c) = "ok" -> server' = "echo" /\ UNCHANGED dropped
       [] Established(c) = "error" -> ServerExits
       [] OTHER -> UNCHANGED <<server, dropped>>
  /\ UNCHANGED <<options, client, backlog, current, served, genuine, fault>>

\* SpdmHandleError or DecodeError for a request, or no room in it for a session id.
ProcessFails(c) ==
  /\ server = "negotiate" /\ current = c /\ link[c] = "request"
  /\ ServerExits
  /\ fault' = TRUE
  /\ UNCHANGED <<options, client, backlog, current, served, session, genuine, link>>

\* Mutant of ProcessEof: an error of process_message() is tried again, for ever.
ProcessEofRetries(c) ==
  /\ server = "negotiate" /\ current = c /\ link[c] # "request" /\ ClientGone(c)
  /\ UNCHANGED vars

\* The client has gone: process_message() fails to receive, and negotiate() with it.
ProcessEof(c) ==
  /\ server = "negotiate" /\ current = c /\ link[c] # "request" /\ ClientGone(c)
  /\ ServerExits
  /\ UNCHANGED <<options, client, backlog, current, served, session, genuine, link, fault>>

\* echo_server(): a message is sent back; after the last one the halves are
\* dropped and the next connection is accepted.
Echo(c) ==
  /\ server = "echo" /\ current = c /\ link[c] = "request"
  /\ link' = [link EXCEPT ![c] = "response"]
  /\ IF served + 1 = Rounds
     THEN /\ server' = "accept" /\ current' = "none" /\ served' = 0
          /\ dropped' = dropped \cup {<<c, "server">>}
     ELSE served' = served + 1 /\ UNCHANGED <<server, current, dropped>>
  /\ UNCHANGED <<options, client, backlog, session, genuine, fault>>

\* The client has gone: receive() fails, and the accept loop with it.
EchoEof(c) ==
  /\ server = "echo" /\ current = c /\ link[c] # "request" /\ ClientGone(c)
  /\ ServerExits
  /\ UNCHANGED <<options, client, backlog, current, served, session, genuine, link, fault>>

\* receive() or send() fails by itself.
EchoFails(c) ==
  /\ server = "echo" /\ current = c
  /\ ServerExits
  /\ fault' = TRUE
  /\ UNCHANGED <<options, client, backlog, current, served, session, genuine, link>>

------------------------------------------------------------------------------
Requester(c) ==
  \/ Request(c) \/ Response(c) \/ CertificateOk(c) \/ MeasurementsOk(c)
  \/ CertificateRefused(c) \/ SessionStarted(c) \/ EchoBack(c) \/ ClientEof(c)

Responder(c) == ProcessMessage(c) \/ ProcessEof(c) \/ Echo(c) \/ EchoEof(c)

Next ==
  \/ \E c \in Client :
       \/ Connect(c) \/ Requester(c) \/ ClientFails(c)
       \/ Responder(c) \/ ProcessFails(c) \/ EchoFails(c)
  \/ Accept \/ BuildFails

Spec == Init /\ [][Next]_vars

\* The programs run: one that can take a step takes one.  Nothing has to connect,
\* and nothing has to fail by itself.
Fairness ==
  /\ \A c \in Client : WF_vars(Requester(c))
  /\ WF_vars(Accept \/ \E c \in Client : Responder(c))

FairSpec == Spec /\ Fairness

------------------------------------------------------------------------------
(* Properties.                                                             *)

TypeOK ==
  /\ verifyPeer \in [Client -> BOOLEAN] /\ attestSelf \in BOOLEAN
  /\ state \in [Client -> {"start", "negotiate", "echo", "ended", "failed"}]
  /\ flight \in [Client -> 1 .. Len(Flights)]
  /\ link \in [Client -> {"empty", "request", "response"}]
  /\ genuine \in [Client -> BOOLEAN]
  /\ session \in [Client -> {"none", "handshaking", "established"}]
  /\ dropped \subseteq Client \X {"client", "server"}
  /\ rounds \in [Client -> 0 .. Rounds]
  /\ backlog \in Seq(Client)
  /\ server \in {"accept", "negotiate", "echo", "exited"}
  /\ current \in Client \cup {"none"} /\ served \in 0 .. Rounds - 1
  /\ checked \in [Client -> SUBSET {"evidence", "transcript"}]
  /\ fault \in BOOLEAN

\* The requester has a session only if the responder has established it, and the
\* responder leaves negotiate() only when the requester has sent FINISH: neither
\* begins with application messages while the other still negotiates
\* (SpdmResponder::negotiate, the state check after process_message).
SessionsAgree ==
  /\ \A c \in Client : state[c] \in {"echo", "ended"} =>
       /\ session[c] = "established"
       /\ ~(server = "negotiate" /\ current = c)
  /\ server = "echo" =>
       /\ session[current] = "established"
       /\ Flights[flight[current]] = "finish"

\* When either end has its session the requester has checked what its options
\* ask for: the evidence of this very connection if it verifies its peer, and the
\* transcript of the measurements in any case.
VerifiedFirst ==
  \A c \in Client :
    state[c] \in {"echo", "ended"} \/ (server = "echo" /\ current = c) =>
      /\ "transcript" \in checked[c]
      /\ verifyPeer[c] => "evidence" \in checked[c]

\* The sessions of AttestedSession.
RequesterSession ==
  [c \in Client |-> IF state[c] = "echo" THEN "session"
                    ELSE IF state[c] \in {"ended", "failed"} THEN "over" ELSE "none"]

ResponderSession ==
  [c \in Client |-> IF session[c] # "established" THEN "none"
                    ELSE IF server = "echo" /\ current = c THEN "session" ELSE "over"]

Promise ==
  INSTANCE AttestedSession WITH requester <- RequesterSession, responder <- ResponderSession

\* negotiate() of both ends, through every failure, keeps the promise of AttestedSession:
\* the evidence a requester checks is its own connection's, nothing is checked late, and
\* the ends come to their session once, the responder first, and the server to one at
\* a time.
SessionSpec == Promise!Spec

\* As long as nothing fails, the server that takes its clients one by one serves
\* all who connect.
AllServed == \A c \in Client : state[c] = "negotiate" ~> state[c] = "ended" \/ fault

\* Nobody waits for ever: whatever fails, a client that has connected comes to its
\* end, served or not, and a server that works on a connection is done with it.
NobodyWaits ==
  /\ \A c \in Client : state[c] = "negotiate" ~> state[c] \in {"ended", "failed"}
  /\ \A c \in Client : current = c /\ server \in {"negotiate", "echo"} ~>
                          current # c \/ server = "exited"
===============================================================================
