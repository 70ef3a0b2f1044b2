------------------------------ MODULE TlsSession ------------------------------
(***************************************************************************)
(* transport/tls: a Client and a Server, each with the SSL_CTX and the SSL *)
(* objects it makes, over one TCP connection.  Their owners call           *)
(* negotiate(), send(), receive() and shutdown() in any order and as often *)
(* as they like, and can end at any moment.                                *)
(*                                                                         *)
(* OpenSSL is external and speaks TLS 1.3: hello, the server's flight with *)
(* its certificate, the client's last flight with its own.  The client is  *)
(* done when it has sent that flight, before the server looks at it.       *)
(* Records carry the two SSL objects they are encrypted for and a number:  *)
(* one for other objects, or out of sequence, fails to decrypt.  With its  *)
(* handshake over a server sends a ticket, which is not numbered here: it  *)
(* is the first record of a session, and only SSL_read ever looks at it.   *)
(***************************************************************************)
EXTENDS CertCallback

CONSTANTS
  Own,       \* with_verify(Some(_)): the sets of ends that have a callback of their own
  MaxSsl,    \* bound: SSL objects of one end
  MaxSends   \* bound: data records sent on one SSL object

End == {"client", "server"}

ASSUME TlsAssumption == Own \subseteq SUBSET End /\ MaxSsl \in Nat \ {0} /\ MaxSends \in Nat

Other(e) == IF e = "client" THEN "server" ELSE "client"

VARIABLES
  opts,       \* with_attest_self(), with_verify_peer(), which ends have with_verify(Some(_))
  stage,      \* of each end: "new" before build(), then "built", "gone" when it is dropped
  cert,       \* the certificate build() made: see Certificate
  ctxVerify,  \* the callback of SSL_CTX_set_verify; "none": not called, SSL_VERIFY_NONE
  ssl,        \* the SSL objects of each end, in the order of SSL_new
  session,    \* ssl_session: the index of an SSL object; 0: None
  call,       \* the call in progress: "-", "negotiate", "receive"
  wire,       \* the records on their way to each end
  tcp         \* what an end meets behind them: "up" (it waits), "eof", "reset"

vars == <<opts, stage, cert, ctxVerify, ssl, session, call, wire, tcp>>

\* "selfsigned": with evidence that CertVerifier does not pass.
Certificate == {"none", "attested", "expired", "selfsigned"}

\* Mutant of Verifier: a server that has no callback of its own has none.
VerifierOwnOnly(e) ==
  IF e = "server" /\ ~opts.verifyPeer THEN "none"
  ELSE IF e \in opts.own THEN "own" ELSE IF e = "client" THEN "rats" ELSE "none"

\* verify_callback as build() sets it.  A server's own callback counts only with
\* with_verify_peer(true).
Verifier(e) ==
  IF e = "server" /\ ~opts.verifyPeer THEN "none"
  ELSE IF e \in opts.own THEN "own" ELSE "rats"

\* `eof` is SSL_RECEIVED_SHUTDOWN.  `end` is history: the first thing other than data
\* that the owner's calls have met on the object, an Ok(0) of receive() or an error of
\* the connection.
NewSsl(cb) ==
  [verify |-> cb, peer |-> 0, state |-> "handshake", attested |-> FALSE,
   sent |-> 0, got |-> 0, closed |-> FALSE, eof |-> FALSE, end |-> "-"]

Init ==
  /\ opts \in [attest : BOOLEAN, verifyPeer : BOOLEAN, own : Own]
  /\ stage = [e \in End |-> "new"]
  /\ cert = [e \in End |-> "none"]
  /\ ctxVerify = [e \in End |-> "none"]
  /\ ssl = [e \in End |-> <<>>]
  /\ session = [e \in End |-> 0]
  /\ call = [e \in End |-> "-"]
  /\ wire = [e \in End |-> <<>>]
  /\ tcp = [e \in End |-> "up"]

------------------------------------------------------------------------------
(* The TCP connection and the SSL objects.                                 *)

\* The object a handshake works on, and what is first on the wire.
Cur(e) == Len(ssl[e])
Head1(e) == Head(wire[e])
Arrived(e) == wire[e] # <<>>

Record(kind, from, to, n) == [kind |-> kind, from |-> from, to |-> to, n |-> n]

\* The end puts a record on the wire.
Put(e, r) ==
  wire' = [wire EXCEPT ![Other(e)] = IF stage[Other(e)] = "gone" THEN @ ELSE Append(@, r)]

\* The end takes the first record, and puts another one on the wire.
Reply(e, r) ==
  wire' = [wire EXCEPT ![e] = Tail(@),
                       ![Other(e)] = IF stage[Other(e)] = "gone" THEN @ ELSE Append(@, r)]

Take(e) == wire' = [wire EXCEPT ![e] = Tail(@)]

Idle(e) == call' = [call EXCEPT ![e] = "-"]

\* The connection goes with its end.  An end with records it has not read resets
\* it, which may destroy what the other one has not read yet.
Gone(e) ==
  LET o == Other(e)
  IN /\ stage' = [stage EXCEPT ![e] = "gone"]
     /\ Idle(e)
     /\ IF Arrived(e)
        THEN /\ tcp' = [tcp EXCEPT ![o] = "reset"]
             /\ \E left \in {wire[o], <<>>} : wire' = [wire EXCEPT ![o] = left, ![e] = <<>>]
        ELSE /\ tcp' = [tcp EXCEPT ![o] = "eof"]
             /\ UNCHANGED wire

------------------------------------------------------------------------------
(* Builders and the owner's end.                                           *)

\* use_privkey() and use_cert() of the SSL_CTX: the pair build() has made.
UseKeyAndCert(e, c) == cert' = [cert EXCEPT ![e] = c]

\* A server has a key and a certificate of its own, a client that attests itself.
Build(e) ==
  /\ stage[e] = "new"
  /\ stage' = [stage EXCEPT ![e] = "built"]
  /\ IF e = "server" \/ opts.attest
     THEN \E c \in {"attested", "selfsigned"} : UseKeyAndCert(e, c)
     ELSE UNCHANGED cert
  /\ UNCHANGED <<opts, ctxVerify, ssl, session, call, wire, tcp>>

\* No attester, no key or certificate: the builder's stream is dropped with it.
BuildFails(e) ==
  /\ stage[e] = "new"
  /\ Gone(e)
  /\ UNCHANGED <<opts, cert, ctxVerify, ssl, session>>

\* Drop, in between calls; or the process ends in the middle of one.
DropEnd(e) ==
  /\ stage[e] = "built"
  /\ Gone(e)
  /\ UNCHANGED <<opts, cert, ctxVerify, ssl, session>>

\* 60 seconds have passed since build().  Only a certificate that is still to be
\* looked at needs to grow old.
Expire(e) ==
  /\ cert[e] = "attested"
  /\ stage[Other(e)] # "gone" /\ Verifier(Other(e)) = "rats"
  /\ cert' = [cert EXCEPT ![e] = "expired"]
  /\ UNCHANGED <<opts, stage, ctxVerify, ssl, session, call, wire, tcp>>

------------------------------------------------------------------------------
(* negotiate().                                                            *)

CallsFrom(e) == stage[e] = "built" /\ call[e] = "-"

\* SSL_CTX_set_verify, if there is a callback.
SetVerify(e) ==
  ctxVerify' = [ctxVerify EXCEPT ![e] = IF Verifier(e) = "none" THEN @ ELSE Verifier(e)]

\* Mutants of SslNew: the object takes the place of the last one; it is made before
\* SSL_CTX_set_verify.
SslNewReused(e) ==
  ssl' = [ssl EXCEPT ![e] = Append(SubSeq(@, 1, Len(@) - 1), NewSsl(ctxVerify'[e]))]

SslNewFirst(e) == ssl' = [ssl EXCEPT ![e] = Append(@, NewSsl(ctxVerify[e]))]

\* SSL_new takes the callback over from the SSL_CTX.
SslNew(e) == ssl' = [ssl EXCEPT ![e] = Append(@, NewSsl(ctxVerify'[e]))]

\* The call gets as far as SSL_connect, which says hello, or SSL_accept.
Negotiate(e) ==
  /\ CallsFrom(e)
  /\ Cur(e) < MaxSsl
  /\ SetVerify(e)
  /\ SslNew(e)
  /\ call' = [call EXCEPT ![e] = "negotiate"]
  /\ IF e = "client" THEN Put(e, Record("hello", Cur(e) + 1, 0, 0)) ELSE UNCHANGED wire
  /\ UNCHANGED <<opts, stage, cert, session, tcp>>

\* SSL_new, or SSL_set_fd on the object it made, fails.  Nothing frees that object,
\* and nothing refers to it any more: it is left out.
NegotiateFails(e) ==
  /\ CallsFrom(e)
  /\ SetVerify(e)
  /\ UNCHANGED <<opts, stage, cert, ssl, session, call, wire, tcp>>

\* Mutant of SessionSet: whatever the call returns.
SessionKept(e, done) == session' = [session EXCEPT ![e] = Cur(e)]

\* SSL_connect or SSL_accept returned 1.
SessionSet(e, done) ==
  session' = [session EXCEPT ![e] = IF done THEN Cur(e) ELSE @]

\* Mutant of NoCertPasses: SSL_VERIFY_PEER alone.
PeerOptional(e) == e = "server"

\* A server always has a certificate, and the mode of a server that verifies has
\* SSL_VERIFY_FAIL_IF_NO_PEER_CERT.
NoCertPasses(e) == FALSE

\* What the object makes of the peer's certificate.  A client is asked for its
\* certificate only by a server that verifies; a callback of the owner's may
\* accept or refuse any.
Accepts(e, verdict) ==
  LET c == cert[Other(e)]
      cb == ssl[e][Cur(e)].verify
  IN CASE cb = "none" -> verdict
       [] cb # "none" /\ c = "none" -> verdict = NoCertPasses(e)
       [] cb = "own" /\ c # "none" -> verdict \in BOOLEAN
       [] cb = "rats" /\ c # "none" -> verdict = X509VerifyCert(c, "rats").res

\* SSL_accept gets a hello and answers it.
AnswerHello(e) ==
  /\ e = "server" /\ call[e] = "negotiate" /\ Arrived(e)
  /\ Head1(e).kind = "hello" /\ ssl[e][Cur(e)].peer = 0
  /\ ssl' = [ssl EXCEPT ![e][Cur(e)].peer = Head1(e).from]
  /\ Reply(e, Record("flight", Cur(e), Head1(e).from, 0))
  /\ UNCHANGED <<opts, stage, cert, ctxVerify, session, call, tcp>>

\* The peer's last flight is there, for the object of this handshake.
FlightFor(e) ==
  /\ call[e] = "negotiate" /\ Arrived(e)
  /\ Head1(e).to = Cur(e)
  /\ IF e = "client" THEN Head1(e).kind = "flight"
     ELSE Head1(e).kind = "finish" /\ Head1(e).from = ssl[e][Cur(e)].peer

\* SSL_connect ends with the client's flight, SSL_accept with a ticket; an alert is the
\* first record of a session that a client may have begun.
Conclusion(e, verdict) ==
  IF ~verdict THEN Record("alert", Cur(e), Head1(e).from, 1)
  ELSE Record(IF e = "client" THEN "finish" ELSE "ticket", Cur(e), Head1(e).from, 0)

\* The certificate is accepted, and SSL_connect or SSL_accept returns 1.  Otherwise
\* negotiate() returns the error.
Conclude(e) ==
  /\ FlightFor(e)
  /\ \E verdict \in BOOLEAN :
       /\ Accepts(e, verdict)
       /\ ssl' = [ssl EXCEPT ![e][Cur(e)] =
                    [@ EXCEPT !.peer = Head1(e).from,
                              !.state = IF verdict THEN "open" ELSE "failed",
                              !.attested = cert[Other(e)] = "attested"]]
       /\ SessionSet(e, verdict)
       /\ Reply(e, Conclusion(e, verdict))
  /\ Idle(e)
  /\ UNCHANGED <<opts, stage, cert, ctxVerify, tcp>>

\* A record that does not belong to this handshake: OpenSSL sends an alert, unless
\* it is one itself that can be read.
Unexpected(e) ==
  /\ call[e] = "negotiate" /\ Arrived(e)
  /\ ~FlightFor(e)
  /\ ~(e = "server" /\ Head1(e).kind = "hello" /\ ssl[e][Cur(e)].peer = 0)
  /\ ssl' = [ssl EXCEPT ![e][Cur(e)].state = "failed"]
  /\ SessionSet(e, FALSE)
  /\ IF Head1(e).kind = "alert" /\ Head1(e).to \in {0, Cur(e)} THEN Take(e)
     ELSE Reply(e, Record("alert", Cur(e), 0, 0))
  /\ Idle(e)
  /\ UNCHANGED <<opts, stage, cert, ctxVerify, tcp>>

\* Mutant of HandshakeEof: the handshake is tried again.
HandshakeEofRetried(e) ==
  /\ call[e] = "negotiate" /\ ~Arrived(e) /\ tcp[e] # "up"
  /\ UNCHANGED vars

\* An error of the socket is told once: then it reads like one that has ended.
ErrorTaken(e) == tcp' = [tcp EXCEPT ![e] = "eof"]

\* The peer is gone.  A reset is met by what the handshake reads or writes.
HandshakeEof(e) ==
  /\ call[e] = "negotiate"
  /\ tcp[e] = "reset" \/ (tcp[e] = "eof" /\ ~Arrived(e))
  /\ ssl' = [ssl EXCEPT ![e][Cur(e)].state = "failed"]
  /\ SessionSet(e, FALSE)
  /\ ErrorTaken(e)
  /\ Idle(e)
  /\ UNCHANGED <<opts, stage, cert, ctxVerify, wire>>

------------------------------------------------------------------------------
(* send(), receive() and shutdown(), on the SSL object of the session.     *)

Session(e) == ssl[e][session[e]]

\* Without a session each of them returns an error, or does nothing.
HasSession(e) == CallsFrom(e) /\ session[e] # 0

\* The owner's calls on the object have met the end of the stream, or an error.
Met(s, what) == [s EXCEPT !.end = IF @ = "-" THEN what ELSE @]

\* SSL_write and SSL_shutdown need an object that has not failed and is not closed.
Writes(e) == HasSession(e) /\ Session(e).state = "open" /\ ~Session(e).closed

\* SSL_write hands a whole record to TCP.
Send(e) ==
  /\ Writes(e) /\ Session(e).sent < MaxSends
  /\ ssl' = [ssl EXCEPT ![e][session[e]].sent = @ + 1]
  /\ Put(e, Record("data", session[e], Session(e).peer, Session(e).sent + 1))
  /\ UNCHANGED <<opts, stage, cert, ctxVerify, session, call, tcp>>

\* SSL_write cannot: Err.  The object can still be used.
SendFails(e) ==
  /\ Writes(e) /\ tcp[e] # "up"
  /\ ssl' = [ssl EXCEPT ![e][session[e]] = Met(@, "error")]
  /\ ErrorTaken(e)
  /\ UNCHANGED <<opts, stage, cert, ctxVerify, session, call, wire>>

\* SSL_shutdown sends close_notify; its result is not looked at.
Shutdown(e) ==
  /\ Writes(e)
  /\ ssl' = [ssl EXCEPT ![e][session[e]].closed = TRUE]
  /\ Put(e, Record("close", session[e], Session(e).peer, Session(e).sent + 1))
  /\ UNCHANGED <<opts, stage, cert, ctxVerify, session, call, tcp>>

\* It cannot, and shutdown() returns Ok all the same.
ShutdownFails(e) ==
  /\ Writes(e) /\ tcp[e] # "up"
  /\ ssl' = [ssl EXCEPT ![e][session[e]] = Met([@ EXCEPT !.closed = TRUE], "error")]
  /\ ErrorTaken(e)
  /\ UNCHANGED <<opts, stage, cert, ctxVerify, session, call, wire>>

\* receive() may be called again whatever it has returned before.
Receive(e) ==
  /\ HasSession(e)
  /\ call' = [call EXCEPT ![e] = "receive"]
  /\ UNCHANGED <<opts, stage, cert, ctxVerify, ssl, session, wire, tcp>>

Reading(e) == call[e] = "receive"

\* SSL_read goes to the socket.
Reads(e) == Reading(e) /\ Session(e).state = "open" /\ ~Session(e).eof

\* On an object that has failed or has read close_notify SSL_read returns at once what
\* it returned before.
ReceiveOver(e) ==
  /\ Reading(e) /\ ~Reads(e)
  /\ Idle(e)
  /\ UNCHANGED <<opts, stage, cert, ctxVerify, ssl, session, wire, tcp>>

\* The next record of the session.
Decrypts(e) ==
  LET r == Head1(e)
  IN /\ r.kind \in {"ticket", "data", "close", "alert"}
     /\ r.from = Session(e).peer /\ r.to = session[e]
     /\ r.kind = "ticket" \/ r.n = Session(e).got + 1

\* The ticket is stored, and SSL_read reads on.
ReceiveTicket(e) ==
  /\ Reads(e) /\ Arrived(e) /\ Decrypts(e) /\ Head1(e).kind = "ticket"
  /\ Take(e)
  /\ UNCHANGED <<opts, stage, cert, ctxVerify, ssl, session, call, tcp>>

ReceiveData(e) ==
  /\ Reads(e) /\ Arrived(e) /\ Decrypts(e) /\ Head1(e).kind = "data"
  /\ ssl' = [ssl EXCEPT ![e][session[e]].got = @ + 1]
  /\ Take(e)
  /\ Idle(e)
  /\ UNCHANGED <<opts, stage, cert, ctxVerify, session, tcp>>

\* close_notify, or a fatal alert, after which the object is of no use any more:
\* SSL_read returns 0 for both, and receive() Ok(0).
ReceiveClose(e) ==
  /\ Reads(e) /\ Arrived(e) /\ Decrypts(e) /\ Head1(e).kind \in {"close", "alert"}
  /\ ssl' = [ssl EXCEPT ![e][session[e]] =
               Met([@ EXCEPT !.eof = TRUE,
                             !.state = IF Head1(e).kind = "alert" THEN "failed" ELSE "open"], "eof")]
  /\ Take(e)
  /\ Idle(e)
  /\ UNCHANGED <<opts, stage, cert, ctxVerify, session, tcp>>

\* Mutant of ReadFailed: a negative result is taken for the end of the stream too.
ReadFailedQuietly(s) == Met(s, "eof")

\* SSL_read returns a negative number: Err.
ReadFailed(s) == Met(s, "error")

\* A record of another session or of none: SSL_read fails for good, and sends an alert
\* unless close_notify was sent.
ReceiveBad(e) ==
  /\ Reads(e) /\ Arrived(e) /\ ~Decrypts(e)
  /\ ssl' = [ssl EXCEPT ![e][session[e]] = ReadFailed([@ EXCEPT !.state = "failed"])]
  /\ IF Session(e).closed THEN Take(e)
     ELSE Reply(e, Record("alert", session[e], Session(e).peer, Session(e).sent + 1))
  /\ Idle(e)
  /\ UNCHANGED <<opts, stage, cert, ctxVerify, session, tcp>>

\* The socket reports a reset, and the object can still be used.
ReceiveReset(e) ==
  /\ Reads(e) /\ ~Arrived(e) /\ tcp[e] = "reset"
  /\ ssl' = [ssl EXCEPT ![e][session[e]] = ReadFailed(@)]
  /\ ErrorTaken(e)
  /\ Idle(e)
  /\ UNCHANGED <<opts, stage, cert, ctxVerify, session, wire>>

\* The connection ends without close_notify.  SSL_read returns 0 for that too, and
\* receive() Ok(0); in OpenSSL 3 the object has failed, in 1.1.1 it has not.
ReceiveEof(e) ==
  /\ Reads(e) /\ ~Arrived(e) /\ tcp[e] = "eof"
  /\ \E state \in {"open", "failed"} :
       ssl' = [ssl EXCEPT ![e][session[e]] = Met([@ EXCEPT !.state = state], "eof")]
  /\ Idle(e)
  /\ UNCHANGED <<opts, stage, cert, ctxVerify, session, wire, tcp>>

------------------------------------------------------------------------------
\* What a call in progress does next.
Handshake(e) == AnswerHello(e) \/ Conclude(e) \/ Unexpected(e) \/ HandshakeEof(e)
Read(e) ==
  \/ ReceiveOver(e) \/ ReceiveTicket(e) \/ ReceiveData(e) \/ ReceiveClose(e)
  \/ ReceiveBad(e) \/ ReceiveReset(e) \/ ReceiveEof(e)

Next ==
  \E e \in End :
    \/ Build(e) \/ BuildFails(e) \/ DropEnd(e) \/ Expire(e)
    \/ Negotiate(e) \/ NegotiateFails(e) \/ Handshake(e)
    \/ Send(e) \/ SendFails(e) \/ Shutdown(e) \/ ShutdownFails(e)
    \/ Receive(e) \/ Read(e)

Spec == Init /\ [][Next]_vars

\* A call in progress goes on when there is something to read; the owners need not
\* call anything.
FairSpec == Spec /\ \A e \in End : WF_vars(Handshake(e)) /\ WF_vars(Read(e))

------------------------------------------------------------------------------
(* Properties.                                                             *)

SslObject ==
  [verify : {"none", "rats", "own"}, peer : 0 .. MaxSsl,
   state : {"handshake", "open", "failed"}, attested : BOOLEAN,
   sent : 0 .. MaxSends, got : 0 .. MaxSends, closed : BOOLEAN, eof : BOOLEAN,
   end : {"-", "eof", "error"}]

WireRecord ==
  {r \in [kind : {"hello", "flight", "finish", "ticket", "data", "close", "alert"},
          from : 0 .. MaxSsl, to : 0 .. MaxSsl, n : 0 .. MaxSends + 1] :
     r.kind = "data" => r.n <= MaxSends}

\* Types: a session is an SSL object whose handshake is over, the handshake of a
\* call in progress is of the last object.
TypeOK ==
  /\ opts \in [attest : BOOLEAN, verifyPeer : BOOLEAN, own : Own]
  /\ stage \in [End -> {"new", "built", "gone"}]
  /\ cert \in [End -> Certificate]
  /\ ctxVerify \in [End -> {"none", "rats", "own"}]
  /\ ssl \in [End -> Seq(SslObject)]
  /\ \A e \in End : Len(ssl[e]) <= MaxSsl
  /\ session \in [End -> 0 .. MaxSsl]
  /\ \A e \in End :
       session[e] # 0 => session[e] <= Len(ssl[e]) /\ Session(e).state # "handshake"
  /\ call \in [End -> {"-", "negotiate", "receive"}]
  /\ \A e \in End :
       /\ call[e] = "negotiate" => Cur(e) # 0 /\ ssl[e][Cur(e)].state = "handshake"
       /\ call[e] = "receive" => session[e] # 0
  /\ wire \in [End -> Seq(WireRecord)]
  /\ tcp \in [End -> {"up", "eof", "reset"}]

\* The end's options ask for the evidence of its peer: a client's always do, unless
\* it has a callback of its own, a server's with with_verify_peer(true).
AsksForEvidence(e) == e \notin opts.own /\ (e = "client" \/ opts.verifyPeer)

\* Whatever was called and failed before, an end whose options ask for evidence has
\* a session only with a peer whose certificate, when it was shown, was within its
\* 60 seconds and carried evidence that passed (negotiate() of client.rs, server.rs).
Authenticated ==
  \A e \in End : AsksForEvidence(e) /\ session[e] # 0 => Session(e).attested

\* negotiate() of a client returns before the server has looked at the client's
\* certificate; but a client that has received anything on a session has been
\* accepted, with what the server's options ask for.
HeardIsAccepted ==
  LET s == Session("client")
  IN session["client"] # 0 /\ s.got > 0 =>
       /\ ssl["server"][s.peer].state # "handshake"
       /\ AsksForEvidence("server") => ssl["server"][s.peer].attested

\* receive() reports the end of the stream, Ok(0), for close_notify, for a fatal alert
\* and for a connection that just ends.  If that is the first thing other than data
\* that an end which has negotiated once meets, it has got all that its peer's send()
\* reported as sent.  An Ok(0) behind an error says nothing of the kind: a receive()
\* after one that has failed gives it with data lost, and so does one after a
\* shutdown(), which looks at no error.
EndIsComplete ==
  \A e \in End :
    LET s == Session(e)
    IN session[e] # 0 /\ Len(ssl[e]) = 1 /\ s.end = "eof" =>
         s.got = ssl[Other(e)][s.peer].sent

\* A call of negotiate() returns when the peer is gone; and two calls do not wait for
\* each other, whatever is on the wire from earlier ones, as long as nobody has called
\* shutdown(): there is no timeout.  Behind a shutdown() they may, for a receive() that
\* meets the other end's hello then fails without an alert.
NegotiationEnds ==
  /\ \A e \in End :
       (call[e] = "negotiate" /\ stage[Other(e)] = "gone") ~> call[e] # "negotiate"
  /\ (\A e \in End : call[e] = "negotiate" /\ \A i \in DOMAIN ssl[e] : ~ssl[e][i].closed)
       ~> (\E e \in End : call[e] # "negotiate")
===============================================================================
