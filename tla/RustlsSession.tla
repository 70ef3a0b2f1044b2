---------------------------- MODULE RustlsSession ----------------------------
(***************************************************************************)
(* transport/rustls: a RustlsClient, which connects anew in each call of   *)
(* negotiate(), and the serial loop of examples/rustls that makes a        *)
(* RustlsServer of every connection it accepts.  What their owners call    *)
(* between negotiate() and the end of a session is left open.              *)
(*                                                                         *)
(* tokio-rustls and TCP are external.  A byte is taken by write(), then    *)
(* handed to TCP, then read; what it holds is left out.  write() takes no  *)
(* more than the TLS session's buffer and TCP have room for, and leaves in *)
(* the buffer what TCP does not take; only write() and shutdown() empty    *)
(* it, read() does not.                                                    *)
(***************************************************************************)
EXTENDS CertCallback

CONSTANTS
  MaxConn,   \* bound: connections
  Buffer,    \* bytes the TLS session keeps for TCP (64 KiB in rustls)
  Window,    \* bytes TCP keeps for the reader
  Sizes,     \* sizes of the messages passed to send()
  MaxBytes   \* bound: bytes taken from each end on one connection

End == {"client", "server"}

ASSUME RustlsAssumption ==
  /\ MaxConn \in Nat \ {0} /\ Buffer \in Nat /\ Window \in Nat \ {0}
  /\ Sizes \subseteq Nat \ {0} /\ MaxBytes \in [End -> Nat]

Other(e) == IF e = "client" THEN "server" ELSE "client"
Conn == 1 .. MaxConn

VARIABLES
  mutual,      \* each end's constructor argument: opts.attest_self, opts.verify_peer
  evidence,    \* in the client's certificate, in the server's of its last connection
  made,        \* connections made so far; the last one is the one being negotiated
  handshake,   \* how far it is on each: "-", "hello", "flight", "finish"
  at,          \* where each end is with it: "-", "queued", "accepted", "negotiating",
               \* "open", "gone"
  session,     \* the connection of reader and writer, of inner; 0: None
  call,        \* the call in progress: "-", "negotiate", "send", "receive", "shutdown";
               \* "ended": the process has ended
  want,        \* bytes of the send() in progress
  attested,    \* history: the connections whose peer had evidence that passed
  taken, sent, read,  \* of the bytes each end writes to each connection
  closing,     \* of each end on each connection: "open", "notified", "dropped", "reset"
  eof          \* history: the connections on which the end's receive() returned Ok(0)

options == <<mutual, evidence>>
setup   == <<made, handshake, at, session, attested>>
bytes   == <<taken, sent, read>>
vars == <<options, setup, call, want, bytes, closing, eof>>

PerEnd(v) == [c \in Conn |-> [e \in End |-> v]]

Init ==
  /\ mutual \in [End -> BOOLEAN]
  /\ \E v \in {"attested", "selfsigned"} : evidence = [client |-> v, server |-> "none"]
  /\ made = 0
  /\ handshake = [c \in Conn |-> "-"]
  /\ at = PerEnd("-")
  /\ session = [e \in End |-> 0]
  /\ call = [e \in End |-> "-"]
  /\ want = [e \in End |-> 0]
  /\ attested = [e \in End |-> {}]
  /\ taken = PerEnd(0) /\ sent = PerEnd(0) /\ read = PerEnd(0)
  /\ closing = PerEnd("open")
  /\ eof = [e \in End |-> {}]

Least(a, b) == IF a <= b THEN a ELSE b
Returns(e) == call' = [call EXCEPT ![e] = "-"]
Calls(e, what) == call' = [call EXCEPT ![e] = what]

\* The end's streams of connection c go; 0: it has none.  One with bytes it has not
\* read resets the connection, and what its peer has not read may be lost with it.  The
\* tickets a server sends when its handshake is over may be all a client has not read.
Dropped(c, e) ==
  IF c = 0 THEN UNCHANGED closing
  ELSE \E how \in {IF closing[c][e] = "notified" THEN "notified" ELSE "dropped", "reset"} :
         /\ how = "reset" => e = "client" \/ read[c][Other(e)] < sent[c][Other(e)]
         /\ closing' = [closing EXCEPT ![c][e] = how]

------------------------------------------------------------------------------
(* The client's negotiate().                                               *)

\* TcpStream::connect() succeeds before the server has accepted.
ClientNegotiate ==
  /\ call["client"] = "-" /\ call["server"] # "ended" /\ made < MaxConn
  /\ made' = made + 1
  /\ at' = [at EXCEPT ![made + 1] = [client |-> "negotiating", server |-> "queued"]]
  /\ handshake' = [handshake EXCEPT ![made + 1] = "hello"]
  /\ Calls("client", "negotiate")
  /\ UNCHANGED <<options, session, attested, want, bytes, closing, eof>>

\* Mutant of RatsVerify: a server that wants a certificate does without.
RatsVerifyOptional(e) ==
  \/ e = "server" /\ ~(mutual["server"] /\ mutual["client"])
  \/ CertVerifierPasses(evidence[Other(e)])

\* verify_server_cert() and verify_client_cert(): CertVerifier, and no look at the
\* time.  A server that is not mutual asks for no certificate, and rustls refuses a
\* client that is asked and has none.
RatsVerify(e) ==
  \/ e = "server" /\ ~mutual["server"]
  \/ /\ e = "server" => mutual["client"]
     /\ CertVerifierPasses(evidence[Other(e)])

Attested(e, c) ==
  attested' = [attested EXCEPT ![e] = IF evidence[Other(e)] = "attested"
                                        /\ (e = "server" => mutual["client"])
                                      THEN @ \cup {c} ELSE @]

\* connect() returns when the client has sent its last flight.  The new halves take
\* the place of the old ones, whose connection is dropped.
ClientConnected ==
  LET old == session["client"]
  IN /\ call["client"] = "negotiate" /\ handshake[made] = "flight"
     /\ RatsVerify("client")
     /\ handshake' = [handshake EXCEPT ![made] = "finish"]
     /\ at' = [c \in Conn |-> [at[c] EXCEPT !["client"] = IF c = made THEN "open"
                                                          ELSE IF c = old THEN "gone" ELSE @]]
     /\ session' = [session EXCEPT !["client"] = made]
     /\ Attested("client", made)
     /\ Dropped(old, "client")
     /\ Returns("client")
     /\ UNCHANGED <<options, made, want, bytes, eof>>

\* The server's certificate is refused, or the server is gone: the old halves stay.
ClientFails ==
  /\ call["client"] = "negotiate"
  /\ \/ handshake[made] = "flight" /\ ~RatsVerify("client")
     \/ at[made]["server"] = "gone"
  /\ at' = [at EXCEPT ![made]["client"] = "gone"]
  /\ Returns("client")
  /\ UNCHANGED <<options, made, handshake, session, attested, want, bytes, closing, eof>>

\* The owner gives up or is killed; or it calls send(), receive() or shutdown() with
\* no session, and unwrap() panics.
ClientEnds ==
  /\ call["client"] # "ended"
  /\ Calls("client", "ended")
  /\ at' = [c \in Conn |-> [at[c] EXCEPT !["client"] = IF @ = "-" THEN @ ELSE "gone"]]
  /\ session' = [session EXCEPT !["client"] = 0]
  /\ Dropped(session["client"], "client")
  /\ UNCHANGED <<options, made, handshake, attested, want, bytes, eof>>

------------------------------------------------------------------------------
(* The server's loop.                                                      *)

Serving(c) == at[c]["server"] \in {"accepted", "negotiating", "open"}

\* The connection the loop is at; 0: it is in accept().
Current == IF \E c \in Conn : Serving(c) THEN CHOOSE c \in Conn : Serving(c) ELSE 0

\* Mutant of Accept: a connection is accepted while another one is served.
AcceptConcurrently ==
  /\ call["server"] = "-"
  /\ \E c \in Conn :
       at[c]["server"] = "queued" /\ at' = [at EXCEPT ![c]["server"] = "accepted"]
  /\ \E v \in {"attested", "selfsigned"} : evidence' = [evidence EXCEPT !["server"] = v]
  /\ UNCHANGED <<mutual, made, handshake, session, attested, call, want, bytes, closing, eof>>

\* accept() and RustlsServer::new(), which makes a new certificate.
Accept ==
  /\ call["server"] = "-" /\ Current = 0
  /\ \E c \in Conn :
       /\ at[c]["server"] = "queued"
       /\ \A d \in Conn : at[d]["server"] = "queued" => c <= d
       /\ at' = [at EXCEPT ![c]["server"] = "accepted"]
  /\ \E v \in {"attested", "selfsigned"} : evidence' = [evidence EXCEPT !["server"] = v]
  /\ UNCHANGED <<mutual, made, handshake, session, attested, call, want, bytes, closing, eof>>

\* negotiate() takes the stream out of the RustlsServer.
ServerNegotiate ==
  /\ call["server"] = "-" /\ Current # 0 /\ at[Current]["server"] = "accepted"
  /\ at' = [at EXCEPT ![Current]["server"] = "negotiating"]
  /\ Calls("server", "negotiate")
  /\ UNCHANGED <<options, made, handshake, session, attested, want, bytes, closing, eof>>

ServerFlight ==
  /\ call["server"] = "negotiate" /\ handshake[Current] = "hello"
  /\ at[Current]["client"] # "gone"
  /\ handshake' = [handshake EXCEPT ![Current] = "flight"]
  /\ UNCHANGED <<options, made, at, session, attested, call, want, bytes, closing, eof>>

\* accept() has read the client's last flight, and inner is set.
ServerAccepted ==
  /\ call["server"] = "negotiate" /\ handshake[Current] = "finish"
  /\ RatsVerify("server")
  /\ at' = [at EXCEPT ![Current]["server"] = "open"]
  /\ session' = [session EXCEPT !["server"] = Current]
  /\ Attested("server", Current)
  /\ Returns("server")
  /\ UNCHANGED <<options, made, handshake, want, bytes, closing, eof>>

\* func(server) has returned Ok(()).
ServerDone ==
  /\ call["server"] = "-" /\ session["server"] # 0
  /\ at' = [at EXCEPT ![Current]["server"] = "gone"]
  /\ session' = [session EXCEPT !["server"] = 0]
  /\ Dropped(Current, "server")
  /\ UNCHANGED <<options, made, handshake, attested, call, want, bytes, eof>>

\* An error, a panic or a signal ends the loop, and with it the listener and the
\* connections that nobody has accepted.
LoopEnds ==
  /\ Calls("server", "ended")
  /\ at' = [c \in Conn |-> [at[c] EXCEPT !["server"] = IF @ = "-" THEN @ ELSE "gone"]]
  /\ session' = [session EXCEPT !["server"] = 0]
  /\ Dropped(Current, "server")

\* Mutant of ServerRefuses: accept() is called until a handshake succeeds.
ServerRefusesOnly ==
  /\ call["server"] = "negotiate"
  /\ handshake[Current] = "finish" /\ ~RatsVerify("server")
  /\ LoopEnds
  /\ UNCHANGED <<options, made, handshake, attested, want, bytes, eof>>

\* The client's certificate is refused or missing, or the client is gone: negotiate()
\* returns the error, and so does the loop.
ServerRefuses ==
  /\ call["server"] = "negotiate"
  /\ \/ handshake[Current] = "finish" /\ ~RatsVerify("server")
     \/ handshake[Current] # "finish" /\ at[Current]["client"] = "gone"
  /\ LoopEnds
  /\ UNCHANGED <<options, made, handshake, attested, want, bytes, eof>>

\* accept(), new() or func() fails, a second negotiate() finds no stream and panics,
\* or the process is killed.
ServerEnds ==
  /\ call["server"] # "ended"
  /\ LoopEnds
  /\ UNCHANGED <<options, made, handshake, attested, want, bytes, eof>>

------------------------------------------------------------------------------
(* send(), receive() and shutdown() of either end, on its session.         *)

Owns(e) == call[e] = "-" /\ session[e] # 0

Send(e, n) ==
  /\ Owns(e) /\ closing[session[e]][e] = "open"
  /\ taken[session[e]][e] + n <= MaxBytes[e]
  /\ Calls(e, "send")
  /\ want' = [want EXCEPT ![e] = n]
  /\ UNCHANGED <<options, setup, bytes, closing, eof>>

\* TCP has what there is room for.
Handed(c, e, n) == sent' = [sent EXCEPT ![c][e] = Least(n, read[c][e] + Window)]

\* write() takes what fits: it may be a part, and send() returns Ok all the same.
Write(e) ==
  LET c == session[e]
      room == Buffer + Window - (taken[c][e] - read[c][e])
      now == taken[c][e] + Least(want[e], room)
  IN /\ call[e] = "send" /\ room > 0
     /\ taken' = [taken EXCEPT ![c][e] = now]
     /\ Handed(c, e, now)
     /\ want' = [want EXCEPT ![e] = 0]
     /\ Returns(e)
     /\ UNCHANGED <<options, setup, read, closing, eof>>

Shutdown(e) ==
  /\ Owns(e) /\ closing[session[e]][e] = "open"
  /\ Calls(e, "shutdown")
  /\ UNCHANGED <<options, setup, want, bytes, closing, eof>>

\* shutdown() waits until TCP has taken all that is in the buffer.
Flush(e) ==
  LET c == session[e]
  IN /\ call[e] = "shutdown"
     /\ sent[c][e] < Least(taken[c][e], read[c][e] + Window)
     /\ Handed(c, e, taken[c][e])
     /\ UNCHANGED <<options, setup, call, want, taken, read, closing, eof>>

\* Mutant of ShutdownOk: what is in the buffer stays there.
ShutdownAtOnce(e) ==
  /\ call[e] = "shutdown"
  /\ closing' = [closing EXCEPT ![session[e]][e] = "notified"]
  /\ Returns(e)
  /\ UNCHANGED <<options, setup, want, bytes, eof>>

\* close_notify follows the last byte.
ShutdownOk(e) ==
  /\ call[e] = "shutdown" /\ sent[session[e]][e] = taken[session[e]][e]
  /\ closing' = [closing EXCEPT ![session[e]][e] = "notified"]
  /\ Returns(e)
  /\ UNCHANGED <<options, setup, want, bytes, eof>>

\* The peer is gone.
WriteFails(e) ==
  /\ call[e] \in {"send", "shutdown"} /\ at[session[e]][Other(e)] = "gone"
  /\ want' = [want EXCEPT ![e] = 0]
  /\ Returns(e)
  /\ UNCHANGED <<options, setup, bytes, closing, eof>>

Receive(e) ==
  /\ Owns(e)
  /\ Calls(e, "receive")
  /\ UNCHANGED <<options, setup, want, bytes, closing, eof>>

\* read() returns some of the bytes that have arrived.
Read(e) ==
  LET c == session[e]
      o == Other(e)
  IN /\ call[e] = "receive" /\ closing[c][o] # "reset"
     /\ \E n \in read[c][o] + 1 .. sent[c][o] : read' = [read EXCEPT ![c][o] = n]
     /\ Returns(e)
     /\ UNCHANGED <<options, setup, want, taken, sent, closing, eof>>

\* The peer's close_notify: Ok(0).
ReadEnd(e) ==
  LET c == session[e]
      o == Other(e)
  IN /\ call[e] = "receive"
     /\ closing[c][o] = "notified" /\ read[c][o] = sent[c][o]
     /\ eof' = [eof EXCEPT ![e] = @ \cup {c}]
     /\ Returns(e)
     /\ UNCHANGED <<options, setup, want, bytes, closing>>

\* The end of the connection without close_notify is an error for rustls.
Broken(c, o) ==
  closing[c][o] = "reset" \/ (closing[c][o] = "dropped" /\ read[c][o] = sent[c][o])

\* Mutant of ReadFails: an error is taken for the end of the stream.
ReadFailsQuietly(e) ==
  /\ call[e] = "receive" /\ Broken(session[e], Other(e))
  /\ eof' = [eof EXCEPT ![e] = @ \cup {session[e]}]
  /\ Returns(e)
  /\ UNCHANGED <<options, setup, want, bytes, closing>>

ReadFails(e) ==
  /\ call[e] = "receive" /\ Broken(session[e], Other(e))
  /\ Returns(e)
  /\ UNCHANGED <<options, setup, want, bytes, closing, eof>>

------------------------------------------------------------------------------
\* The steps of a call in progress, and of the loop up to func(server).
Negotiation ==
  \/ ClientConnected \/ ClientFails
  \/ Accept \/ ServerNegotiate \/ ServerFlight \/ ServerAccepted \/ ServerRefuses
Transfer(e) ==
  Write(e) \/ Flush(e) \/ ShutdownOk(e) \/ WriteFails(e) \/ Read(e) \/ ReadEnd(e) \/ ReadFails(e)

Next ==
  \/ Negotiation \/ ClientNegotiate \/ ClientEnds \/ ServerDone \/ ServerEnds
  \/ \E e \in End : (\E n \in Sizes : Send(e, n)) \/ Shutdown(e) \/ Receive(e) \/ Transfer(e)

Spec == Init /\ [][Next]_vars

\* Calls in progress and the loop go on; nobody has to call anything.
FairSpec == Spec /\ WF_vars(Negotiation) /\ \A e \in End : WF_vars(Transfer(e))

------------------------------------------------------------------------------
(* Properties.                                                             *)

\* Types; the loop is at one connection, and no more is taken than there is room for.
TypeOK ==
  /\ made \in 0 .. MaxConn
  /\ handshake \in [Conn -> {"-", "hello", "flight", "finish"}]
  /\ session \in [End -> 0 .. MaxConn]
  /\ call \in [End -> {"-", "negotiate", "send", "receive", "shutdown", "ended"}]
  /\ \A c, d \in Conn : Serving(c) /\ Serving(d) => c = d
  /\ session["server"] \in {0, Current}
  /\ \A e \in End : session[e] # 0 => at[session[e]][e] = "open"
  /\ \A c \in Conn, e \in End :
       /\ at[c][e] \in {"-", "queued", "accepted", "negotiating", "open", "gone"}
       /\ 0 <= read[c][e] /\ read[c][e] <= sent[c][e] /\ sent[c][e] <= taken[c][e]
       /\ sent[c][e] <= read[c][e] + Window /\ taken[c][e] <= sent[c][e] + Buffer
       /\ closing[c][e] \in {"open", "notified", "dropped", "reset"}

\* A client's session, through whatever failed and repeated negotiations, is with a
\* server whose evidence passed, and a server's with verify_peer with such a client.
Authenticated ==
  \A e \in End :
    session[e] # 0 /\ (e = "client" \/ mutual["server"]) => session[e] \in attested[e]

\* When receive() reports the end of the stream, everything that write() took from
\* the peer has been received, the bytes that waited in its buffer included.
EndIsComplete ==
  \A e \in End : \A c \in eof[e] : read[c][Other(e)] = taken[c][Other(e)]

\* A negotiate() of a client without a session returns, if it is the loop's only client:
\* the serial loop gets to its connection, whatever became of the ones before.  (With a
\* session it may wait for ever: the loop can be in receive() on the old connection,
\* which stays open until the new one is negotiated.  Another client's func() could hold
\* the loop as well.)
FirstNegotiationReturns ==
  (call["client"] = "negotiate" /\ session["client"] = 0) ~> call["client"] # "negotiate"

\* What send() leaves in the buffer goes out with shutdown(): if the peer reads on,
\* it gets every byte that was taken, unless an end goes.
ShutdownArrives ==
  \A c \in Conn, e \in End :
    LET o == Other(e)
    IN (call[e] = "shutdown" /\ session[e] = c /\ []<>(call[o] = "receive" /\ session[o] = c))
         ~> (read[c][e] = taken[c][e] \/ at[c][e] = "gone" \/ at[c][o] = "gone")
==============================================================================
