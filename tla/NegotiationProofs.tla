---------------------------- MODULE NegotiationProofs ----------------------------
(***************************************************************************)
(* Proofs about Negotiation, for any clients and any number of messages:   *)
(* the sessions of both ends agree, and none exists before the requester   *)
(* has checked what its options ask for.                                   *)
(***************************************************************************)
EXTENDS Negotiation, SequenceTheorems, TLAPS

Working == server \in {"negotiate", "echo"}

\* What the requester has behind it, by the flight it is at.
Checked ==
  \A c \in Client :
    /\ flight[c] > 7 => "transcript" \in checked[c]
    /\ flight[c] > 5 /\ verifyPeer[c] => "evidence" \in checked[c]

\* A connection is queued once, and then worked on once.
Queued ==
  /\ \A i, j \in 1 .. Len(backlog) : backlog[i] = backlog[j] => i = j
  /\ \A i \in 1 .. Len(backlog) :
       /\ state[backlog[i]] # "start" /\ session[backlog[i]] # "established"
       /\ Working => backlog[i] # current
  /\ Working => current \in Client /\ state[current] # "start"
  /\ \A c \in Client : state[c] = "start" => session[c] # "established" /\ flight[c] = 1

\* Both ends are at FINISH when the responder has established the session; until
\* the requester has its own, FINISH_RSP is on the connection, and nowhere else.
Finished ==
  /\ \A c \in Client :
       /\ session[c] = "established" =>
            flight[c] = 9 /\ (state[c] = "negotiate" => link[c] = "response")
       /\ state[c] = "negotiate" /\ flight[c] = 9 /\ link[c] = "response" =>
            session[c] = "established"
       /\ state[c] \in {"echo", "ended"} => session[c] = "established"
  /\ server = "negotiate" => session[current] # "established"
  /\ server = "echo" => session[current] = "established"

\* A client that may still get a message back has not had the last one.
RoundsLeft ==
  \A c \in Client : state[c] \in {"start", "negotiate", "echo"} => rounds[c] < Rounds

IInv == TypeOK /\ Checked /\ Queued /\ Finished /\ RoundsLeft

------------------------------------------------------------------------------
LEMMA FlightNames ==
  /\ Len(Flights) = 9
  /\ \A f \in 1 .. 9 :
       /\ Flights[f] = "certificate" <=> f = 5
       /\ Flights[f] = "measurements" <=> f = 7
       /\ Flights[f] = "key_exchange" <=> f = 8
       /\ Flights[f] = "finish" <=> f = 9
BY DEF Flights

\* The programs' ends.
LEMMA ClientExitTypes ==
  ASSUME TypeOK, NEW c \in Client, NEW how \in {"ended", "failed"}, ClientExits(c, how)
  PROVE  /\ state' \in [Client -> {"start", "negotiate", "echo", "ended", "failed"}]
         /\ dropped' \subseteq Client \X {"client", "server"}
<1>1. <<c, "client">> \in Client \X {"client", "server"}
  OBVIOUS
<1> QED
  BY <1>1 DEF TypeOK, ClientExits

LEMMA ServerExitTypes ==
  ASSUME TypeOK, ServerExits
  PROVE  server' = "exited" /\ dropped' \subseteq Client \X {"client", "server"}
<1>1. {<<c, "server">> : c \in Client} \subseteq Client \X {"client", "server"}
  OBVIOUS
<1> QED
  BY <1>1 DEF TypeOK, ServerExits

\* Every step keeps the types.
LEMMA TypeStep ==
  ASSUME IInv, [Next]_vars
  PROVE  TypeOK'
<1> USE NegotiationAssumption DEF IInv, TypeOK, options, client, responder
<1>1. ASSUME NEW c \in Client, Connect(c) PROVE TypeOK'
  BY <1>1 DEF Connect
<1>2. ASSUME NEW c \in Client, Request(c) PROVE TypeOK'
  BY <1>2 DEF Request
<1>3. ASSUME NEW c \in Client, Response(c) PROVE TypeOK'
  BY <1>3, FlightNames DEF Response, Receives, Proceed
<1>4. ASSUME NEW c \in Client, CertificateOk(c) PROVE TypeOK'
  BY <1>4, FlightNames DEF CertificateOk, Receives, Proceed, VerifyCertChain
<1>5. ASSUME NEW c \in Client, MeasurementsOk(c) PROVE TypeOK'
  BY <1>5, FlightNames DEF MeasurementsOk, Receives, Proceed
<1>6. ASSUME NEW c \in Client, CertificateRefused(c) PROVE TypeOK'
  BY <1>6, ClientExitTypes DEF CertificateRefused
<1>7. ASSUME NEW c \in Client, SessionStarted(c) PROVE TypeOK'
  BY <1>7, FlightNames DEF SessionStarted, Receives
<1>8. ASSUME NEW c \in Client, EchoBack(c) PROVE TypeOK'
  <2>1. rounds' \in [Client -> 0 .. Rounds]
    <3>1. rounds[c] + 1 \in 0 .. Rounds
      BY <1>8 DEF EchoBack, RoundsLeft
    <3> QED
      BY <1>8, <3>1 DEF EchoBack
  <2>2. /\ state' \in [Client -> {"start", "negotiate", "echo", "ended", "failed"}]
        /\ dropped' \subseteq Client \X {"client", "server"}
    BY <1>8, ClientExitTypes DEF EchoBack
  <2> QED
    BY <1>8, <2>1, <2>2 DEF EchoBack
<1>9. ASSUME NEW c \in Client, ClientEof(c) PROVE TypeOK'
  BY <1>9, ClientExitTypes DEF ClientEof
<1>10. ASSUME NEW c \in Client, ClientFails(c) PROVE TypeOK'
  BY <1>10, ClientExitTypes DEF ClientFails
<1>11. ASSUME NEW c \in Client, ProcessMessage(c) PROVE TypeOK'
  BY <1>11, FlightNames, ServerExitTypes DEF ProcessMessage, SessionAfter, Established, LookedUp
<1>12. ASSUME NEW c \in Client, ProcessFails(c) PROVE TypeOK'
  BY <1>12, ServerExitTypes DEF ProcessFails
<1>13. ASSUME NEW c \in Client, ProcessEof(c) PROVE TypeOK'
  BY <1>13, ServerExitTypes DEF ProcessEof
<1>14. ASSUME NEW c \in Client, Echo(c) PROVE TypeOK'
  BY <1>14 DEF Echo
<1>15. ASSUME NEW c \in Client, EchoEof(c) PROVE TypeOK'
  BY <1>15, ServerExitTypes DEF EchoEof
<1>16. ASSUME NEW c \in Client, EchoFails(c) PROVE TypeOK'
  BY <1>16, ServerExitTypes DEF EchoFails
<1>17. CASE Accept
  BY <1>17 DEF Accept
<1>18. CASE BuildFails
  BY <1>18, ServerExitTypes DEF BuildFails
<1>19. CASE UNCHANGED vars
  BY <1>19 DEF vars
<1> QED
  BY <1>1, <1>2, <1>3, <1>4, <1>5, <1>6, <1>7, <1>8, <1>9, <1>10, <1>11, <1>12, <1>13, <1>14,
     <1>15, <1>16, <1>17, <1>18, <1>19
  DEF Next, Requester, Responder

\* No step takes the requester past a flight unchecked.
LEMMA CheckedStep ==
  ASSUME IInv, [Next]_vars
  PROVE  Checked'
<1> USE DEF IInv, TypeOK, Checked, options, client, responder
<1>1. ASSUME NEW c \in Client, Connect(c) PROVE Checked'
  BY <1>1 DEF Connect
<1>2. ASSUME NEW c \in Client, Request(c) PROVE Checked'
  BY <1>2 DEF Request
<1>3. ASSUME NEW c \in Client, Response(c) PROVE Checked'
  BY <1>3, FlightNames DEF Response, Receives, Proceed
<1>4. ASSUME NEW c \in Client, CertificateOk(c) PROVE Checked'
  <2>1. flight[c] = 5 /\ flight'[c] = 6
    BY <1>4, FlightNames DEF CertificateOk, Receives, Proceed
  <2>2. verifyPeer[c] => "evidence" \in checked'[c]
    BY <1>4 DEF CertificateOk, VerifyCertChain
  <2>3. \A d \in Client : d # c => flight'[d] = flight[d] /\ checked'[d] = checked[d]
    BY <1>4 DEF CertificateOk, Proceed
  <2>4. verifyPeer' = verifyPeer
    BY <1>4 DEF CertificateOk
  <2> SUFFICES ASSUME NEW d \in Client
               PROVE  /\ flight'[d] > 7 => "transcript" \in checked'[d]
                      /\ flight'[d] > 5 /\ verifyPeer'[d] => "evidence" \in checked'[d]
    BY DEF Checked
  <2>5. CASE d = c
    BY <2>1, <2>2, <2>4, <2>5
  <2>6. CASE d # c
    BY <2>3, <2>4, <2>6
  <2> QED
    BY <2>5, <2>6
<1>5. ASSUME NEW c \in Client, MeasurementsOk(c) PROVE Checked'
  BY <1>5, FlightNames DEF MeasurementsOk, Receives, Proceed
<1>6. ASSUME NEW c \in Client, CertificateRefused(c) PROVE Checked'
  BY <1>6 DEF CertificateRefused, ClientExits
<1>7. ASSUME NEW c \in Client, SessionStarted(c) PROVE Checked'
  BY <1>7, FlightNames DEF SessionStarted, Receives
<1>8. ASSUME NEW c \in Client, EchoBack(c) PROVE Checked'
  BY <1>8 DEF EchoBack, ClientExits
<1>9. ASSUME NEW c \in Client, ClientEof(c) PROVE Checked'
  BY <1>9 DEF ClientEof, ClientExits
<1>10. ASSUME NEW c \in Client, ClientFails(c) PROVE Checked'
  BY <1>10 DEF ClientFails, ClientExits
<1>11. ASSUME NEW c \in Client, ProcessMessage(c) PROVE Checked'
  BY <1>11, FlightNames DEF ProcessMessage, SessionAfter, Established, LookedUp, ServerExits
<1>12. ASSUME NEW c \in Client, ProcessFails(c) PROVE Checked'
  BY <1>12 DEF ProcessFails, ServerExits
<1>13. ASSUME NEW c \in Client, ProcessEof(c) PROVE Checked'
  BY <1>13 DEF ProcessEof, ServerExits
<1>14. ASSUME NEW c \in Client, Echo(c) PROVE Checked'
  BY <1>14 DEF Echo
<1>15. ASSUME NEW c \in Client, EchoEof(c) PROVE Checked'
  BY <1>15 DEF EchoEof, ServerExits
<1>16. ASSUME NEW c \in Client, EchoFails(c) PROVE Checked'
  BY <1>16 DEF EchoFails, ServerExits
<1>17. CASE Accept
  BY <1>17 DEF Accept
<1>18. CASE BuildFails
  BY <1>18 DEF BuildFails, ServerExits
<1>19. CASE UNCHANGED vars
  BY <1>19 DEF vars
<1> QED
  BY <1>1, <1>2, <1>3, <1>4, <1>5, <1>6, <1>7, <1>8, <1>9, <1>10, <1>11, <1>12, <1>13, <1>14,
     <1>15, <1>16, <1>17, <1>18, <1>19
  DEF Next, Requester, Responder

\* A connection is queued, accepted and finished with once.
LEMMA QueuedStep ==
  ASSUME IInv, [Next]_vars
  PROVE  Queued'
<1> USE DEF IInv, TypeOK, Queued, Working, Finished, options, client, responder
<1>1. ASSUME NEW c \in Client, Connect(c) PROVE Queued'
  <2>1. \A i \in 1 .. Len(backlog) : backlog[i] \in Client /\ backlog[i] # c
    BY <1>1, ElementOfSeq DEF Connect
  <2>2. /\ Len(backlog') = Len(backlog) + 1 /\ Len(backlog) \in Nat
        /\ \A i \in 1 .. Len(backlog) : backlog'[i] = backlog[i]
        /\ backlog'[Len(backlog) + 1] = c
    BY <1>1, AppendProperties, LenProperties DEF Connect
  <2>3. \A i \in 1 .. Len(backlog') : i \in 1 .. Len(backlog) \/ i = Len(backlog) + 1
    BY <2>2
  <2>4. ASSUME NEW i \in 1 .. Len(backlog'), NEW j \in 1 .. Len(backlog'),
               backlog'[i] = backlog'[j]
        PROVE  i = j
    <3>1. CASE i \in 1 .. Len(backlog) /\ j \in 1 .. Len(backlog)
      <4>1. backlog[i] = backlog[j]
        BY <2>2, <2>4, <3>1
      <4> QED
        BY <3>1, <4>1
    <3>2. ASSUME NEW k \in 1 .. Len(backlog) PROVE backlog'[k] # backlog'[Len(backlog) + 1]
      <4>1. backlog'[k] = backlog[k] /\ backlog'[Len(backlog) + 1] = c
        BY <2>2
      <4>2. backlog[k] # c
        BY <2>1
      <4> QED
        BY <4>1, <4>2
    <3>3. CASE i = Len(backlog) + 1 /\ j \in 1 .. Len(backlog)
      BY <2>4, <3>2, <3>3
    <3>4. CASE j = Len(backlog) + 1 /\ i \in 1 .. Len(backlog)
      BY <2>4, <3>2, <3>4
    <3> QED
      BY <2>3, <3>1, <3>3, <3>4
  <2>5. /\ session' = session /\ current' = current /\ server' = server
        /\ state'[c] = "negotiate" /\ \A d \in Client : d # c => state'[d] = state[d]
    BY <1>1 DEF Connect
  <2>6. ASSUME NEW i \in 1 .. Len(backlog')
        PROVE  /\ state'[backlog'[i]] # "start" /\ session'[backlog'[i]] # "established"
               /\ Working' => backlog'[i] # current'
    <3>1. CASE i \in 1 .. Len(backlog)
      <4>1. backlog'[i] = backlog[i] /\ backlog[i] \in Client /\ backlog[i] # c
        BY <3>1, <2>1, <2>2
      <4>2. state[backlog[i]] # "start" /\ session[backlog[i]] # "established"
        BY <3>1
      <4>3. Working => backlog[i] # current
        BY <3>1
      <4>4. Working' = Working
        BY <2>5
      <4> QED
        BY <2>5, <4>1, <4>2, <4>3, <4>4
    <3>2. CASE i = Len(backlog) + 1
      BY <1>1, <3>2, <2>2, <2>5 DEF Connect
    <3> QED
      BY <3>1, <3>2, <2>3
  <2>7. Working' => current' \in Client /\ state'[current'] # "start"
    <3>1. Working' = Working
      BY <2>5
    <3> QED
      BY <2>5, <3>1
  <2>8. ASSUME NEW d \in Client, state'[d] = "start"
        PROVE  session'[d] # "established" /\ flight'[d] = 1
    BY <1>1, <2>5, <2>8 DEF Connect
  <2> QED
    BY <2>4, <2>6, <2>7, <2>8
<1>2. ASSUME NEW c \in Client, Request(c) PROVE Queued'
  BY <1>2 DEF Request
<1>3. ASSUME NEW c \in Client, Response(c) PROVE Queued'
  BY <1>3, FlightNames DEF Response, Receives, Proceed
<1>4. ASSUME NEW c \in Client, CertificateOk(c) PROVE Queued'
  BY <1>4, FlightNames DEF CertificateOk, Receives, Proceed, VerifyCertChain
<1>5. ASSUME NEW c \in Client, MeasurementsOk(c) PROVE Queued'
  BY <1>5, FlightNames DEF MeasurementsOk, Receives, Proceed
<1>6. ASSUME NEW c \in Client, CertificateRefused(c) PROVE Queued'
  BY <1>6 DEF CertificateRefused, ClientExits
<1>7. ASSUME NEW c \in Client, SessionStarted(c) PROVE Queued'
  BY <1>7, FlightNames DEF SessionStarted, Receives
<1>8. ASSUME NEW c \in Client, EchoBack(c) PROVE Queued'
  BY <1>8 DEF EchoBack, ClientExits
<1>9. ASSUME NEW c \in Client, ClientEof(c) PROVE Queued'
  BY <1>9 DEF ClientEof, ClientExits
<1>10. ASSUME NEW c \in Client, ClientFails(c) PROVE Queued'
  BY <1>10 DEF ClientFails, ClientExits
<1>11. ASSUME NEW c \in Client, ProcessMessage(c) PROVE Queued'
  BY <1>11 DEF ProcessMessage, SessionAfter, Established, LookedUp, ServerExits
<1>12. ASSUME NEW c \in Client, ProcessFails(c) PROVE Queued'
  BY <1>12 DEF ProcessFails, ServerExits
<1>13. ASSUME NEW c \in Client, ProcessEof(c) PROVE Queued'
  BY <1>13 DEF ProcessEof, ServerExits
<1>14. ASSUME NEW c \in Client, Echo(c) PROVE Queued'
  BY <1>14 DEF Echo
<1>15. ASSUME NEW c \in Client, EchoEof(c) PROVE Queued'
  BY <1>15 DEF EchoEof, ServerExits
<1>16. ASSUME NEW c \in Client, EchoFails(c) PROVE Queued'
  BY <1>16 DEF EchoFails, ServerExits
<1>17. CASE Accept
  BY <1>17 DEF Accept
<1>18. CASE BuildFails
  BY <1>18 DEF BuildFails, ServerExits
<1>19. CASE UNCHANGED vars
  BY <1>19 DEF vars
<1> QED
  BY <1>1, <1>2, <1>3, <1>4, <1>5, <1>6, <1>7, <1>8, <1>9, <1>10, <1>11, <1>12, <1>13, <1>14,
     <1>15, <1>16, <1>17, <1>18, <1>19
  DEF Next, Requester, Responder

\* Only ProcessMessage() of FINISH makes a session established, and only with
\* FINISH_RSP does the requester get its own.
LEMMA FinishedStep ==
  ASSUME IInv, [Next]_vars
  PROVE  Finished'
<1> USE DEF IInv, TypeOK, Queued, Working, Finished, options, client, responder
<1>1. ASSUME NEW c \in Client, Connect(c) PROVE Finished'
  <2>1. session[c] # "established"
    BY <1>1 DEF Connect
  <2>2. /\ UNCHANGED <<session, current, server, flight, link>>
        /\ state'[c] = "negotiate" /\ \A d \in Client : d # c => state'[d] = state[d]
    BY <1>1 DEF Connect
  <2>3. flight[c] # 9
    BY <1>1 DEF Connect
  <2> QED
    BY <2>1, <2>2, <2>3
<1>2. ASSUME NEW c \in Client, Request(c) PROVE Finished'
  BY <1>2 DEF Request
<1>3. ASSUME NEW c \in Client, Response(c) PROVE Finished'
  BY <1>3, FlightNames DEF Response, Receives, Proceed
<1>4. ASSUME NEW c \in Client, CertificateOk(c) PROVE Finished'
  BY <1>4, FlightNames DEF CertificateOk, Receives, Proceed, VerifyCertChain
<1>5. ASSUME NEW c \in Client, MeasurementsOk(c) PROVE Finished'
  BY <1>5, FlightNames DEF MeasurementsOk, Receives, Proceed
<1>6. ASSUME NEW c \in Client, CertificateRefused(c) PROVE Finished'
  BY <1>6 DEF CertificateRefused, ClientExits
<1>7. ASSUME NEW c \in Client, SessionStarted(c) PROVE Finished'
  BY <1>7, FlightNames DEF SessionStarted, Receives
<1>8. ASSUME NEW c \in Client, EchoBack(c) PROVE Finished'
  BY <1>8 DEF EchoBack, ClientExits
<1>9. ASSUME NEW c \in Client, ClientEof(c) PROVE Finished'
  BY <1>9 DEF ClientEof, ClientExits
<1>10. ASSUME NEW c \in Client, ClientFails(c) PROVE Finished'
  BY <1>10 DEF ClientFails, ClientExits
<1>11. ASSUME NEW c \in Client, ProcessMessage(c) PROVE Finished'
  BY <1>11, FlightNames DEF ProcessMessage, SessionAfter, Established, LookedUp, ServerExits
<1>12. ASSUME NEW c \in Client, ProcessFails(c) PROVE Finished'
  BY <1>12 DEF ProcessFails, ServerExits
<1>13. ASSUME NEW c \in Client, ProcessEof(c) PROVE Finished'
  BY <1>13 DEF ProcessEof, ServerExits
<1>14. ASSUME NEW c \in Client, Echo(c) PROVE Finished'
  BY <1>14 DEF Echo
<1>15. ASSUME NEW c \in Client, EchoEof(c) PROVE Finished'
  BY <1>15 DEF EchoEof, ServerExits
<1>16. ASSUME NEW c \in Client, EchoFails(c) PROVE Finished'
  BY <1>16 DEF EchoFails, ServerExits
<1>17. CASE Accept
  BY <1>17 DEF Accept
<1>18. CASE BuildFails
  BY <1>18 DEF BuildFails, ServerExits
<1>19. CASE UNCHANGED vars
  BY <1>19 DEF vars
<1> QED
  BY <1>1, <1>2, <1>3, <1>4, <1>5, <1>6, <1>7, <1>8, <1>9, <1>10, <1>11, <1>12, <1>13, <1>14,
     <1>15, <1>16, <1>17, <1>18, <1>19
  DEF Next, Requester, Responder

\* The client ends with its last message.
LEMMA RoundsStep ==
  ASSUME IInv, [Next]_vars
  PROVE  RoundsLeft'
<1> USE NegotiationAssumption DEF IInv, TypeOK, RoundsLeft, Finished, options, client, responder
<1>1. ASSUME NEW c \in Client, Connect(c) PROVE RoundsLeft'
  BY <1>1 DEF Connect
<1>2. ASSUME NEW c \in Client, Request(c) PROVE RoundsLeft'
  BY <1>2 DEF Request
<1>3. ASSUME NEW c \in Client, Response(c) PROVE RoundsLeft'
  BY <1>3 DEF Response, Receives, Proceed
<1>4. ASSUME NEW c \in Client, CertificateOk(c) PROVE RoundsLeft'
  BY <1>4 DEF CertificateOk, Receives, Proceed, VerifyCertChain
<1>5. ASSUME NEW c \in Client, MeasurementsOk(c) PROVE RoundsLeft'
  BY <1>5 DEF MeasurementsOk, Receives, Proceed
<1>6. ASSUME NEW c \in Client, CertificateRefused(c) PROVE RoundsLeft'
  BY <1>6 DEF CertificateRefused, ClientExits
<1>7. ASSUME NEW c \in Client, SessionStarted(c) PROVE RoundsLeft'
  BY <1>7 DEF SessionStarted, Receives
<1>8. ASSUME NEW c \in Client, EchoBack(c) PROVE RoundsLeft'
  BY <1>8 DEF EchoBack, ClientExits
<1>9. ASSUME NEW c \in Client, ClientEof(c) PROVE RoundsLeft'
  BY <1>9 DEF ClientEof, ClientExits
<1>10. ASSUME NEW c \in Client, ClientFails(c) PROVE RoundsLeft'
  BY <1>10 DEF ClientFails, ClientExits
<1>11. ASSUME NEW c \in Client, ProcessMessage(c) PROVE RoundsLeft'
  BY <1>11 DEF ProcessMessage, SessionAfter, Established, LookedUp, ServerExits
<1>12. ASSUME NEW c \in Client, ProcessFails(c) PROVE RoundsLeft'
  BY <1>12 DEF ProcessFails, ServerExits
<1>13. ASSUME NEW c \in Client, ProcessEof(c) PROVE RoundsLeft'
  BY <1>13 DEF ProcessEof, ServerExits
<1>14. ASSUME NEW c \in Client, Echo(c) PROVE RoundsLeft'
  BY <1>14 DEF Echo
<1>15. ASSUME NEW c \in Client, EchoEof(c) PROVE RoundsLeft'
  BY <1>15 DEF EchoEof, ServerExits
<1>16. ASSUME NEW c \in Client, EchoFails(c) PROVE RoundsLeft'
  BY <1>16 DEF EchoFails, ServerExits
<1>17. CASE Accept
  BY <1>17 DEF Accept
<1>18. CASE BuildFails
  BY <1>18 DEF BuildFails, ServerExits
<1>19. CASE UNCHANGED vars
  BY <1>19 DEF vars
<1> QED
  BY <1>1, <1>2, <1>3, <1>4, <1>5, <1>6, <1>7, <1>8, <1>9, <1>10, <1>11, <1>12, <1>13, <1>14,
     <1>15, <1>16, <1>17, <1>18, <1>19
  DEF Next, Requester, Responder

------------------------------------------------------------------------------
LEMMA Initially ==
  ASSUME Init
  PROVE  IInv
<1>1. TypeOK
  <2>1. 1 \in 1 .. Len(Flights) /\ 0 \in 0 .. Rounds /\ 0 \in 0 .. Rounds - 1
    BY FlightNames, NegotiationAssumption
  <2>2. <<>> \in Seq(Client)
    OBVIOUS
  <2> QED
    BY <2>1, <2>2 DEF Init, TypeOK
<1>2. Checked /\ RoundsLeft
  BY NegotiationAssumption DEF Init, Checked, RoundsLeft
<1>3. Queued /\ Finished
  BY DEF Init, Queued, Finished, Working
<1> QED
  BY <1>1, <1>2, <1>3 DEF IInv

\* The inductive invariant, for any set of clients and number of messages.
THEOREM NegotiationInvariance == Spec => []IInv
<1>1. IInv /\ [Next]_vars => IInv'
  BY TypeStep, CheckedStep, QueuedStep, FinishedStep, RoundsStep DEF IInv
<1> QED
  BY <1>1, Initially, PTL DEF Spec

\* The types of the negotiation's state.
THEOREM NegotiationTypeCorrect == Spec => []TypeOK
<1>1. IInv => TypeOK
  BY DEF IInv
<1> QED
  BY <1>1, NegotiationInvariance, PTL

\* The requester has a session only with a responder that has established it, and
\* the responder leaves negotiate() only when the requester has sent FINISH.
THEOREM NegotiatedSessionsAgree == Spec => []SessionsAgree
<1>1. IInv => SessionsAgree
  <2> SUFFICES ASSUME IInv PROVE SessionsAgree
    OBVIOUS
  <2>1. ASSUME NEW c \in Client, state[c] \in {"echo", "ended"}
        PROVE  session[c] = "established" /\ ~(server = "negotiate" /\ current = c)
    BY <2>1 DEF IInv, Finished
  <2>2. ASSUME server = "echo"
        PROVE  session[current] = "established" /\ Flights[flight[current]] = "finish"
    <3>1. current \in Client /\ session[current] = "established"
      BY <2>2 DEF IInv, Queued, Finished, Working
    <3> QED
      BY <3>1, FlightNames DEF IInv, Finished
  <2> QED
    BY <2>1, <2>2 DEF SessionsAgree
<1> QED
  BY <1>1, NegotiationInvariance, PTL

\* When either end has its session the requester has checked the transcript and, if
\* it verifies its peer, the evidence of this very connection.
THEOREM PeersAreVerifiedFirst == Spec => []VerifiedFirst
<1>1. IInv => VerifiedFirst
  <2> SUFFICES ASSUME IInv, NEW c \in Client,
                      state[c] \in {"echo", "ended"} \/ (server = "echo" /\ current = c)
               PROVE  "transcript" \in checked[c] /\ (verifyPeer[c] => "evidence" \in checked[c])
    BY DEF VerifiedFirst
  <2>1. session[c] = "established"
    BY DEF IInv, Finished
  <2>2. flight[c] = 9
    BY <2>1 DEF IInv, Finished
  <2> QED
    BY <2>2 DEF IInv, Checked
<1> QED
  BY <1>1, NegotiationInvariance, PTL

------------------------------------------------------------------------------
(* What negotiate() promises: the refinement of AttestedSession.           *)

\* On a connection that is not accepted yet nothing is answered, and nothing checked.
Untouched ==
  /\ \A i \in 1 .. Len(backlog) : checked[backlog[i]] = {} /\ link[backlog[i]] # "response"
  /\ \A c \in Client : state[c] = "start" => checked[c] = {} /\ link[c] # "response"

LEMMA UntouchedStep ==
  ASSUME IInv, Untouched, [Next]_vars
  PROVE  Untouched'
<1>1. ASSUME NEW c \in Client, Connect(c) PROVE Untouched'
  <2>1. backlog \in Seq(Client) /\ backlog' = Append(backlog, c) /\ state[c] = "start"
        /\ state \in [Client -> {"start", "negotiate", "echo", "ended", "failed"}]
        /\ state' = [state EXCEPT ![c] = "negotiate"] /\ UNCHANGED <<checked, link>>
    BY <1>1 DEF Connect, IInv, TypeOK
  <2>2. Len(backlog) \in Nat /\ Len(backlog') = Len(backlog) + 1
    BY <2>1, AppendProperties, LenProperties
  <2>3. \A i \in 1 .. Len(backlog') :
          (i \in 1 .. Len(backlog) /\ backlog'[i] = backlog[i]) \/ backlog'[i] = c
    BY <2>1, <2>2, AppendProperties
  <2>4. checked[c] = {} /\ link[c] # "response"
    BY <2>1 DEF Untouched
  <2>5. \A i \in 1 .. Len(backlog') :
          checked'[backlog'[i]] = {} /\ link'[backlog'[i]] # "response"
    BY <2>1, <2>3, <2>4 DEF Untouched
  <2>6. \A d \in Client : state'[d] = "start" => state[d] = "start"
    BY <2>1
  <2> QED
    BY <2>1, <2>5, <2>6 DEF Untouched
<1>2. ASSUME Accept PROVE Untouched'
  <2>1. backlog \in Seq(Client) /\ backlog # <<>> /\ backlog' = Tail(backlog)
        /\ UNCHANGED <<checked, link, state>>
    BY <1>2 DEF Accept, IInv, TypeOK, client
  <2>2. Len(backlog) \in Nat \ {0} /\ Len(backlog') = Len(backlog) - 1
    BY <2>1, EmptySeq
  <2>3. \A i \in 1 .. Len(backlog) - 1 : Tail(backlog)[i] = backlog[i + 1]
    BY <2>1, <2>2
  <2>4. \A i \in 1 .. Len(backlog') : i \in 1 .. Len(backlog) - 1 /\ i + 1 \in 1 .. Len(backlog)
    BY <2>2
  <2>5. \A i \in 1 .. Len(backlog') : i + 1 \in 1 .. Len(backlog) /\ backlog'[i] = backlog[i + 1]
    BY <2>1, <2>3, <2>4
  <2>6. \A i \in 1 .. Len(backlog') :
          checked'[backlog'[i]] = {} /\ link'[backlog'[i]] # "response"
    BY <2>1, <2>5 DEF Untouched
  <2> QED
    BY <2>1, <2>6 DEF Untouched
\* Only a connection that the server works on, or has worked on, gets a response.
<1>3. ASSUME NEW c \in Client, UNCHANGED backlog,
             state[c] # "start" => state'[c] # "start",
             \A d \in Client : d # c =>
               checked'[d] = checked[d] /\ link'[d] = link[d] /\ state'[d] = state[d],
             \/ checked'[c] = checked[c] /\ link'[c] \in {link[c], "empty", "request"}
             \/ link[c] = "response" /\ state[c] # "start"
             \/ Working /\ c = current
      PROVE  Untouched'
  <2>1. \A i \in 1 .. Len(backlog) : backlog[i] \in Client
    BY ElementOfSeq DEF IInv, TypeOK
  <2>2. link[c] = "response" \/ (Working /\ c = current) =>
          \A i \in 1 .. Len(backlog) : backlog[i] # c
    BY DEF Untouched, IInv, Queued
  <2>3. Working /\ c = current => state[c] # "start"
    BY DEF IInv, Queued
  <2> QED
    BY <1>3, <2>1, <2>2, <2>3 DEF Untouched
<1> USE DEF IInv, TypeOK
<1>4. ASSUME NEW c \in Client, Requester(c) \/ ClientFails(c) PROVE Untouched'
  <2> USE DEF client, responder, options
  <2>1. CASE Request(c)
    BY <2>1, <1>3 DEF Request
  <2>2. CASE Response(c)
    BY <2>2, <1>3 DEF Response, Receives, Proceed
  <2>3. CASE CertificateOk(c)
    BY <2>3, <1>3 DEF CertificateOk, Receives, Proceed
  <2>4. CASE MeasurementsOk(c)
    BY <2>4, <1>3 DEF MeasurementsOk, Receives, Proceed
  <2>5. CASE CertificateRefused(c)
    BY <2>5, <1>3 DEF CertificateRefused, Receives, ClientExits
  <2>6. CASE SessionStarted(c)
    BY <2>6, <1>3 DEF SessionStarted, Receives
  <2>7. CASE EchoBack(c)
    BY <2>7, <1>3 DEF EchoBack, ClientExits
  <2>8. CASE ClientEof(c)
    BY <2>8, <1>3 DEF ClientEof, ClientExits
  <2>9. CASE ClientFails(c)
    BY <2>9, <1>3 DEF ClientFails, ClientExits
  <2> QED
    BY <1>4, <2>1, <2>2, <2>3, <2>4, <2>5, <2>6, <2>7, <2>8, <2>9 DEF Requester
<1>5. ASSUME NEW c \in Client, Responder(c) \/ ProcessFails(c) \/ EchoFails(c) PROVE Untouched'
  BY <1>5, <1>3 DEF Responder, ProcessMessage, ProcessEof, Echo, EchoEof, ProcessFails, EchoFails,
     client, Working
<1>6. CASE BuildFails \/ UNCHANGED vars
  BY <1>6 DEF BuildFails, vars, client, responder, Untouched
<1> QED
  BY <1>1, <1>2, <1>4, <1>5, <1>6 DEF Next

\* A step after which the responder's sessions are as before.
LEMMA ResponderStays ==
  ASSUME UNCHANGED <<session, server, current>>
  PROVE  ResponderSession' = ResponderSession
BY DEF ResponderSession

LEMMA RequesterStays ==
  ASSUME UNCHANGED state
  PROVE  RequesterSession' = RequesterSession
BY DEF RequesterSession

\* A client's program ends.
LEMMA RequesterLeaves ==
  ASSUME IInv, NEW c \in Client, NEW how \in {"ended", "failed"},
         state[c] \in {"negotiate", "echo"}, ClientExits(c, how),
         UNCHANGED <<options, checked, responder>>
  PROVE  Promise!Next
<1>1. /\ UNCHANGED <<verifyPeer, genuine, checked>>
      /\ ResponderSession' = ResponderSession
  BY ResponderStays DEF options, responder
<1>2. RequesterSession[c] # "over"
  BY DEF RequesterSession
<1>3. RequesterSession' = [RequesterSession EXCEPT ![c] = "over"]
  BY DEF RequesterSession, ClientExits, IInv, TypeOK
<1> QED
  BY <1>1, <1>2, <1>3 DEF Promise!Next, Promise!RequesterEnds

\* The server leaves its loop: the session it is at, if any, ends.
LEMMA ResponderLeaves ==
  ASSUME IInv, ServerExits, UNCHANGED <<options, checked, state, session, genuine, current>>
  PROVE  Promise!Next \/ UNCHANGED Promise!vars
<1>1. /\ UNCHANGED <<verifyPeer, genuine, checked>>
      /\ RequesterSession' = RequesterSession
  BY RequesterStays DEF options
<1>2. CASE server # "echo"
  <2>1. ResponderSession' = ResponderSession
    BY <1>2 DEF ResponderSession, ServerExits
  <2> QED
    BY <1>1, <2>1 DEF Promise!vars
<1>3. CASE server = "echo"
  <2>1. current \in Client /\ session[current] = "established"
    BY <1>3 DEF IInv, Queued, Finished, Working
  <2>2. ResponderSession[current] = "session"
    BY <1>3, <2>1 DEF ResponderSession
  <2>3. ResponderSession' = [ResponderSession EXCEPT ![current] = "over"]
    BY <1>3, <2>1 DEF ResponderSession, ServerExits
  <2> QED
    BY <1>1, <2>1, <2>2, <2>3 DEF Promise!Next, Promise!ResponderEnds
<1> QED
  BY <1>2, <1>3

LEMMA RequesterKeepsPromise ==
  ASSUME IInv, NEW c \in Client, Requester(c) \/ ClientFails(c)
  PROVE  Promise!Next \/ UNCHANGED Promise!vars
<1>1. /\ UNCHANGED <<verifyPeer, genuine>>
      /\ ResponderSession' = ResponderSession
  BY ResponderStays
  DEF options, responder, Requester, Request, Response, CertificateOk, MeasurementsOk,
      CertificateRefused, SessionStarted, EchoBack, ClientEof, ClientFails
<1>2. CASE Request(c) \/ Response(c)
  <2>1. UNCHANGED <<state, checked>>
    BY <1>2 DEF Request, Response, client
  <2> QED
    BY <1>1, <2>1, RequesterStays DEF Promise!vars
\* What is checked is checked before either end has a session.
<1>3. ASSUME NEW f \in {"certificate", "measurements", "finish"}, Receives(c, f)
      PROVE  /\ RequesterSession[c] = "none"
             /\ ResponderSession[c] = "none" <=> f # "finish"
             /\ flight[c] = 9 <=> f = "finish"
  <2>1. state[c] = "negotiate" /\ (flight[c] = 9 <=> f = "finish")
    BY <1>3, FlightNames DEF Receives, IInv, TypeOK
  <2>2. session[c] = "established" <=> f = "finish"
    BY <1>3, <2>1 DEF Receives, IInv, Finished
  <2>3. server # "echo" \/ current # c \/ session[c] = "established"
    BY DEF IInv, Finished
  <2> QED
    BY <2>1, <2>2, <2>3 DEF RequesterSession, ResponderSession
<1>4. CASE CertificateOk(c)
  <2>1. Receives(c, "certificate") /\ UNCHANGED state
    BY <1>4 DEF CertificateOk
  <2>2. RequesterSession' = RequesterSession
    BY <2>1, RequesterStays
  <2>3. CASE genuine[c]
    <3>1. checked' = [checked EXCEPT ![c] = @ \cup {"evidence"}]
      BY <1>4, <2>3 DEF CertificateOk
    <3>2. Promise!Check(c, "evidence")
      BY <1>1, <1>3, <2>1, <2>2, <2>3, <3>1 DEF Promise!Check
    <3> QED
      BY <3>2 DEF Promise!Next
  <2>4. CASE ~genuine[c]
    <3>1. checked' = checked
      BY <1>4, <2>4 DEF CertificateOk, IInv, TypeOK
    <3> QED
      BY <1>1, <2>2, <3>1 DEF Promise!vars
  <2> QED
    BY <2>3, <2>4
<1>5. CASE MeasurementsOk(c)
  <2>1. /\ Receives(c, "measurements") /\ UNCHANGED state
        /\ checked' = [checked EXCEPT ![c] = @ \cup {"transcript"}]
    BY <1>5 DEF MeasurementsOk
  <2>2. Promise!Check(c, "transcript")
    BY <1>1, <1>3, <2>1, RequesterStays DEF Promise!Check
  <2> QED
    BY <2>2 DEF Promise!Next
<1>6. CASE SessionStarted(c)
  <2>1. Receives(c, "finish") /\ state' = [state EXCEPT ![c] = "echo"] /\ UNCHANGED checked
    BY <1>6 DEF SessionStarted
  <2>2. RequesterSession' = [RequesterSession EXCEPT ![c] = "session"]
    BY <2>1 DEF RequesterSession, IInv, TypeOK
  <2>3. Promise!Start(c)
    BY <1>1, <1>3, <2>1, <2>2 DEF Promise!Start
  <2> QED
    BY <2>3 DEF Promise!Next
<1>7. CASE EchoBack(c)
  <2>1. state[c] = "echo" /\ UNCHANGED <<options, checked, responder>>
        /\ (ClientExits(c, "ended") \/ UNCHANGED state)
    BY <1>7 DEF EchoBack
  <2>2. CASE ClientExits(c, "ended")
    BY <2>1, <2>2, RequesterLeaves
  <2>3. CASE UNCHANGED state
    BY <1>1, <2>1, <2>3, RequesterStays DEF Promise!vars
  <2> QED
    BY <2>1, <2>2, <2>3
<1>8. CASE CertificateRefused(c) \/ ClientEof(c) \/ ClientFails(c)
  <2>1. /\ state[c] \in {"negotiate", "echo"} /\ ClientExits(c, "failed")
        /\ UNCHANGED <<options, checked, responder>>
    BY <1>8 DEF CertificateRefused, Receives, ClientEof, ClientFails
  <2> QED
    BY <2>1, RequesterLeaves
<1> QED
  BY <1>2, <1>4, <1>5, <1>6, <1>7, <1>8 DEF Requester

LEMMA ProcessKeepsPromise ==
  ASSUME IInv, NEW c \in Client, ProcessMessage(c)
  PROVE  Promise!Next \/ UNCHANGED Promise!vars
<1>1. /\ server = "negotiate" /\ current = c /\ session[c] # "established"
      /\ session' = [session EXCEPT ![c] = SessionAfter(c)]
      /\ UNCHANGED <<verifyPeer, genuine, checked, current, state>>
  BY DEF ProcessMessage, options, client, IInv, Finished
<1>2. RequesterSession' = RequesterSession
  BY <1>1, RequesterStays
<1>3. session \in [Client -> {"none", "handshaking", "established"}] /\ flight[c] \in 1 .. 9
  BY FlightNames DEF IInv, TypeOK
<1>4. CASE flight[c] # 9
  <2>1. Flights[flight[c]] # "finish"
    BY <1>3, <1>4, FlightNames
  <2>2. SessionAfter(c) # "established"
    BY <1>1, <2>1 DEF SessionAfter
  <2>3. server' = "negotiate"
    BY <1>1, <2>1 DEF ProcessMessage, Established, LookedUp
  <2>4. ResponderSession' = ResponderSession
    BY <1>1, <1>3, <2>2, <2>3 DEF ResponderSession
  <2> QED
    BY <1>1, <1>2, <2>4 DEF Promise!vars
<1>5. CASE flight[c] = 9
  <2>1. Flights[flight[c]] = "finish"
    BY <1>5, FlightNames
  <2>2. SessionAfter(c) = "established" /\ server' = "echo"
    BY <2>1 DEF SessionAfter, ProcessMessage, Established, LookedUp
  <2>3. /\ ResponderSession' = [ResponderSession EXCEPT ![c] = "session"]
        /\ ResponderSession[c] = "none"
        /\ \A d \in Client : ResponderSession[d] # "session"
    BY <1>1, <1>3, <2>2 DEF ResponderSession
  <2>4. RequesterSession[c] # "session"
    BY <1>1 DEF RequesterSession, IInv, Finished
  <2>5. Promise!Satisfied(c)
    BY <1>5 DEF Promise!Satisfied, IInv, Checked
  <2>6. Promise!Establish(c)
    BY <1>1, <1>2, <2>3, <2>4, <2>5 DEF Promise!Establish
  <2> QED
    BY <2>6 DEF Promise!Next
<1> QED
  BY <1>4, <1>5

LEMMA ServerKeepsPromise ==
  ASSUME IInv, Untouched,
         \/ Accept \/ BuildFails
         \/ \E c \in Client : Responder(c) \/ ProcessFails(c) \/ EchoFails(c)
  PROVE  Promise!Next \/ UNCHANGED Promise!vars
<1>1. CASE Accept
  <2> DEFINE c == Head(backlog)
  <2>1. /\ server = "accept" /\ server' = "negotiate"
        /\ genuine' = [genuine EXCEPT ![c] = attestSelf]
        /\ UNCHANGED <<verifyPeer, checked, session, state>>
    BY <1>1 DEF Accept, options, client
  <2>2. backlog[1] = c /\ 1 \in 1 .. Len(backlog) /\ c \in Client
    <3>1. backlog \in Seq(Client) /\ backlog # <<>>
      BY <1>1 DEF Accept, IInv, TypeOK
    <3>2. backlog[1] = c /\ Len(backlog) \in Nat \ {0}
      BY <3>1, EmptySeq
    <3>3. 1 \in 1 .. Len(backlog)
      BY <3>2
    <3> QED
      BY <3>1, <3>2, <3>3, ElementOfSeq
  <2> HIDE DEF c
  <2>3. checked[c] = {} /\ session[c] # "established"
    BY <2>2 DEF Untouched, IInv, Queued
  <2>4. ResponderSession' = ResponderSession /\ RequesterSession' = RequesterSession
    BY <2>1, RequesterStays DEF ResponderSession
  <2>5. ResponderSession[c] = "none" /\ RequesterSession[c] # "session"
    BY <2>2, <2>3 DEF ResponderSession, RequesterSession, IInv, Finished
  <2>6. attestSelf \in BOOLEAN
    BY DEF IInv, TypeOK
  <2>7. Promise!Attest(c)
    BY <2>1, <2>3, <2>4, <2>5, <2>6 DEF Promise!Attest
  <2> QED
    BY <2>2, <2>7 DEF Promise!Next
<1>2. CASE BuildFails
  BY <1>2, ResponderLeaves DEF BuildFails, client
<1>3. ASSUME NEW c \in Client, ProcessEof(c) \/ ProcessFails(c) \/ EchoEof(c) \/ EchoFails(c)
      PROVE  Promise!Next \/ UNCHANGED Promise!vars
  BY <1>3, ResponderLeaves DEF ProcessEof, ProcessFails, EchoEof, EchoFails, client
<1>4. ASSUME NEW c \in Client, Echo(c)
      PROVE  Promise!Next \/ UNCHANGED Promise!vars
  <2>1. /\ server = "echo" /\ current = c
        /\ UNCHANGED <<verifyPeer, checked, genuine, session, state>>
        /\ \/ server' = "accept"
           \/ UNCHANGED <<server, current>>
    BY <1>4 DEF Echo, options, client
  <2>2. session[c] = "established"
    BY <2>1 DEF IInv, Finished
  <2>3. RequesterSession' = RequesterSession
    BY <2>1, RequesterStays
  <2>4. CASE server' = "accept"
    <3>1. /\ ResponderSession[c] = "session"
          /\ ResponderSession' = [ResponderSession EXCEPT ![c] = "over"]
      BY <2>1, <2>2, <2>4 DEF ResponderSession
    <3> QED
      BY <2>1, <2>3, <3>1 DEF Promise!Next, Promise!ResponderEnds
  <2>5. CASE UNCHANGED <<server, current>>
    BY <2>1, <2>3, <2>5, ResponderStays DEF Promise!vars
  <2> QED
    BY <2>1, <2>4, <2>5
<1> QED
  BY <1>1, <1>2, <1>3, <1>4, ProcessKeepsPromise DEF Responder

LEMMA ConnectKeepsPromise ==
  ASSUME IInv, NEW c \in Client, Connect(c)
  PROVE  UNCHANGED Promise!vars
<1>1. /\ UNCHANGED <<verifyPeer, checked, genuine, session, server, current>>
      /\ state[c] = "start" /\ state' = [state EXCEPT ![c] = "negotiate"]
  BY DEF Connect, options
<1>2. RequesterSession' = RequesterSession
  BY <1>1 DEF RequesterSession, IInv, TypeOK
<1> QED
  BY <1>1, <1>2, ResponderStays DEF Promise!vars

\* negotiate() of SpdmRequester and SpdmResponder, with the accept loop and the programs
\* around them, implements AttestedSession: each of its steps is one of those of the
\* abstract session, or none.
THEOREM NegotiationImplements == Spec => SessionSpec
<1>1. Init => Promise!Init
  BY DEF Init, Promise!Init, RequesterSession, ResponderSession
<1>2. Init => Untouched
  <2>1. Len(<<>>) = 0
    BY EmptySeq
  <2> QED
    BY <2>1 DEF Init, Untouched
<1>3. IInv /\ Untouched /\ [Next]_vars => Untouched'
  BY UntouchedStep
<1>4. IInv /\ Untouched /\ [Next]_vars => [Promise!Next]_(Promise!vars)
  <2> SUFFICES ASSUME IInv, Untouched, [Next]_vars
               PROVE  Promise!Next \/ UNCHANGED Promise!vars
    OBVIOUS
  <2>1. CASE UNCHANGED vars
    BY <2>1, RequesterStays, ResponderStays DEF vars, options, client, responder, Promise!vars
  <2>2. CASE Next
    BY <2>2, ConnectKeepsPromise, RequesterKeepsPromise, ServerKeepsPromise DEF Next
  <2> QED
    BY <2>1, <2>2
<1> QED
  BY <1>1, <1>2, <1>3, <1>4, NegotiationInvariance, PTL DEF Spec, SessionSpec, Promise!Spec
===============================================================================
