-------------------------- MODULE RustlsSessionProofs -------------------------
(***************************************************************************)
(* Theorems about RustlsSession, for every number of connections, every    *)
(* size of buffer, window and messages: what sessions rest on, and what    *)
(* the end of a stream means.                                              *)
(***************************************************************************)
EXTENDS RustlsSession, TLAPS

At == {"-", "queued", "accepted", "negotiating", "open", "gone"}

Types ==
  /\ mutual \in [End -> BOOLEAN]
  /\ evidence \in [End -> {"none", "attested", "selfsigned"}]
  /\ made \in 0 .. MaxConn
  /\ handshake \in [Conn -> {"-", "hello", "flight", "finish"}]
  /\ at \in [Conn -> [End -> At]]
  /\ session \in [End -> 0 .. MaxConn]
  /\ call \in [End -> {"-", "negotiate", "send", "receive", "shutdown", "ended"}]
  /\ want \in [End -> Nat]
  /\ attested \in [End -> SUBSET Conn]
  /\ taken \in [Conn -> [End -> Nat]]
  /\ sent \in [Conn -> [End -> Nat]]
  /\ read \in [Conn -> [End -> Nat]]
  /\ closing \in [Conn -> [End -> {"open", "notified", "dropped", "reset"}]]
  /\ eof \in [End -> SUBSET Conn]

\* A connection that is not made yet is nowhere.
Fresh == \A c \in Conn, e \in End : c > made => at[c][e] = "-"

\* The loop is at one connection, which is the one of the server's session.
OneServed == \A c, d \in Conn : Serving(c) /\ Serving(d) => c = d

Sessions ==
  /\ session["server"] \in {0, Current}
  /\ \A e \in End : session[e] # 0 => at[session[e]][e] = "open"

\* The connection negotiate() is at.
Negotiating ==
  /\ call["client"] = "negotiate" => made # 0 /\ at[made]["client"] = "negotiating"
  /\ call["server"] = "negotiate" => Current # 0

\* send() and shutdown() are called on a session whose end has not been announced.
Calling ==
  \A e \in End :
    /\ call[e] \in {"send", "receive", "shutdown"} => session[e] # 0
    /\ call[e] \in {"send", "shutdown"} => closing[session[e]][e] = "open"

\* Of t bytes that write() took, s are in the window of TCP and r have been read.
Flows(t, s, r) == r <= s /\ s <= t /\ s <= r + Window /\ t <= s + Buffer

Flow == \A c \in Conn, e \in End : Flows(taken[c][e], sent[c][e], read[c][e])

\* close_notify is behind the last byte, and the last word.
Closed ==
  \A c \in Conn, e \in End :
    /\ closing[c][e] = "notified" => sent[c][e] = taken[c][e]
    /\ c \in eof[Other(e)] => closing[c][e] # "open" /\ read[c][e] = taken[c][e]

IInv ==
  /\ Types /\ Fresh /\ OneServed /\ Sessions /\ Negotiating /\ Calling /\ Flow /\ Closed
  /\ Authenticated

------------------------------------------------------------------------------
(* The loop's connection.                                                  *)

LEMMA CurrentIs ==
  /\ Current \in 0 .. MaxConn
  /\ Current # 0 => Current \in Conn /\ Serving(Current)
  /\ Current = 0 => \A c \in Conn : ~Serving(c)
<1>1. CASE \E c \in Conn : Serving(c)
  <2>1. Current = CHOOSE c \in Conn : Serving(c)
    BY <1>1 DEF Current
  <2>2. Current \in Conn /\ Serving(Current)
    BY <1>1, <2>1
  <2> QED
    BY <2>2, RustlsAssumption DEF Conn
<1>2. CASE ~\E c \in Conn : Serving(c)
  BY <1>2, RustlsAssumption DEF Current, Conn
<1> QED
  BY <1>1, <1>2

LEMMA ServingIsCurrent ==
  ASSUME OneServed, NEW c \in Conn, Serving(c)
  PROVE  Current = c
BY CurrentIs, RustlsAssumption DEF OneServed, Conn

\* The same of the next state.
LEMMA CurrentIsNext ==
  /\ Current' # 0 => Current' \in Conn /\ at'[Current']["server"] \in {"accepted", "negotiating", "open"}
  /\ Current' = 0 => \A c \in Conn : ~Serving(c)'
<1>1. CASE \E c \in Conn : Serving(c)'
  <2>1. Current' = CHOOSE c \in Conn : Serving(c)'
    BY <1>1 DEF Current
  <2>2. PICK d \in Conn : Serving(d)' /\ d = Current'
    BY <1>1, <2>1
  <2> QED
    BY <2>2, RustlsAssumption DEF Conn, Serving
<1>2. CASE ~\E c \in Conn : Serving(c)'
  BY <1>2, RustlsAssumption DEF Current, Conn
<1> QED
  BY <1>1, <1>2

LEMMA ServingIsCurrentNext ==
  ASSUME OneServed', NEW c \in Conn, Serving(c)'
  PROVE  Current' = c
BY CurrentIsNext, RustlsAssumption DEF OneServed, Conn, Serving

\* Whom the loop serves does not change with the rest of what at says.
LEMMA ServedKept ==
  ASSUME OneServed, \A c \in Conn : Serving(c)' <=> Serving(c)
  PROVE  OneServed' /\ Current' = Current
<1>1. OneServed'
  BY DEF OneServed
<1>2. CASE Current = 0
  <2>1. \A c \in Conn : ~Serving(c)'
    BY <1>2, CurrentIs
  <2> QED
    BY <1>1, <1>2, <2>1, CurrentIsNext DEF Serving
<1>3. CASE Current # 0
  BY <1>3, <1>1, CurrentIs, ServingIsCurrentNext
<1> QED
  BY <1>1, <1>2, <1>3

------------------------------------------------------------------------------
(* What a stream that is dropped leaves behind.                            *)

LEMMA DroppedKeeps ==
  ASSUME Types, Closed, UNCHANGED <<bytes, eof>>,
         NEW c \in 0 .. MaxConn, NEW e \in End, Dropped(c, e)
  PROVE  /\ closing' \in [Conn -> [End -> {"open", "notified", "dropped", "reset"}]]
         /\ \A d \in Conn : closing'[d][Other(e)] = closing[d][Other(e)]
         /\ Closed'
<1>1. CASE c = 0
  BY <1>1 DEF Dropped, Types, Closed, bytes
<1>2. CASE c # 0
  <2>1. PICK how \in {IF closing[c][e] = "notified" THEN "notified" ELSE "dropped", "reset"} :
          closing' = [closing EXCEPT ![c][e] = how]
    BY <1>2 DEF Dropped
  <2>2. c \in Conn
    BY <1>2, RustlsAssumption DEF Conn
  <2>3. /\ how \in {"notified", "dropped", "reset"}
        /\ how = "notified" => closing[c][e] = "notified"
    BY <2>1
  <2>4. closing \in [Conn -> [End -> {"open", "notified", "dropped", "reset"}]]
    BY DEF Types
  <2>5. \A d \in Conn, o \in End :
          closing'[d][o] = IF d = c /\ o = e THEN how ELSE closing[d][o]
    BY <2>1, <2>2, <2>4
  <2>6. closing' \in [Conn -> [End -> {"open", "notified", "dropped", "reset"}]]
    BY <2>1, <2>2, <2>3, <2>4
  <2>7. Closed'
    BY <2>3, <2>5 DEF Closed, bytes
  <2> QED
    BY <2>5, <2>6, <2>7 DEF Other, End
<1> QED
  BY <1>1, <1>2

------------------------------------------------------------------------------
(* The bytes on their way.                                                 *)

\* write() takes what there is room for, TCP as much of that as its window has.
LEMMA WriteFlows ==
  ASSUME NEW t \in Nat, NEW s \in Nat, NEW r \in Nat, NEW w \in Nat, Flows(t, s, r),
         Buffer + Window - (t - r) > 0,
         NEW t1, t1 = t + Least(w, Buffer + Window - (t - r)),
         NEW s1, s1 = Least(t1, r + Window)
  PROVE  t1 \in Nat /\ s1 \in Nat /\ Flows(t1, s1, r)
BY RustlsAssumption DEF Flows, Least

LEMMA FlushFlows ==
  ASSUME NEW t \in Nat, NEW s \in Nat, NEW r \in Nat, Flows(t, s, r),
         NEW s1, s1 = Least(t, r + Window)
  PROVE  s1 \in Nat /\ Flows(t, s1, r)
BY RustlsAssumption DEF Flows, Least

LEMMA ReadFlows ==
  ASSUME NEW t \in Nat, NEW s \in Nat, NEW r \in Nat, Flows(t, s, r), NEW n \in r + 1 .. s
  PROVE  n \in Nat /\ Flows(t, s, n)
BY RustlsAssumption DEF Flows

------------------------------------------------------------------------------
(* Calls on a session change nothing of what it rests on.                  *)

LEMMA SetupKept ==
  ASSUME IInv, UNCHANGED <<options, setup>>
  PROVE  /\ Fresh' /\ OneServed' /\ Sessions' /\ Authenticated' /\ Current' = Current
         /\ mutual' \in [End -> BOOLEAN]
         /\ evidence' \in [End -> {"none", "attested", "selfsigned"}]
         /\ made' \in 0 .. MaxConn
         /\ handshake' \in [Conn -> {"-", "hello", "flight", "finish"}]
         /\ at' \in [Conn -> [End -> At]]
         /\ session' \in [End -> 0 .. MaxConn]
         /\ attested' \in [End -> SUBSET Conn]
<1>1. \A c \in Conn : Serving(c)' <=> Serving(c)
  BY DEF setup, Serving
<1>2. OneServed' /\ Current' = Current
  BY <1>1, ServedKept DEF IInv
<1>3. Fresh' /\ Sessions' /\ Authenticated'
  BY <1>2 DEF IInv, Fresh, Sessions, Authenticated, setup, options
<1> QED
  BY <1>2, <1>3 DEF IInv, Types, setup, options

\* No call of negotiate() begins.
LEMMA NegotiatingKept ==
  ASSUME IInv, UNCHANGED <<options, setup>>,
         \A e \in End : call'[e] = "negotiate" => call[e] = "negotiate"
  PROVE  Negotiating'
<1>1. Current' = Current
  BY SetupKept
<1> QED
  BY <1>1 DEF IInv, Negotiating, setup, End

LEMMA FlowKept ==
  ASSUME IInv, UNCHANGED bytes
  PROVE  /\ Flow'
         /\ taken' \in [Conn -> [End -> Nat]]
         /\ sent' \in [Conn -> [End -> Nat]]
         /\ read' \in [Conn -> [End -> Nat]]
BY DEF IInv, Flow, Types, bytes

LEMMA ClosedKept ==
  ASSUME IInv, UNCHANGED <<bytes, closing, eof>>
  PROVE  /\ Closed'
         /\ closing' \in [Conn -> [End -> {"open", "notified", "dropped", "reset"}]]
         /\ eof' \in [End -> SUBSET Conn]
BY DEF IInv, Closed, Types, bytes
------------------------------------------------------------------------------
(* The client's negotiate().                                               *)

\* Where the ends are with a new connection.
LEMMA PairTyped ==
  ASSUME NEW p, p = [client |-> "negotiating", server |-> "queued"]
  PROVE  p \in [End -> At]
<1>1. DOMAIN p = End
  BY DEF End
<1>2. p["client"] = "negotiating" /\ p["server"] = "queued"
  OBVIOUS
<1>3. p = [e \in End |-> p[e]]
  BY <1>1, Zenon
<1> QED
  BY <1>1, <1>2, <1>3 DEF End, At

LEMMA ClientNegotiateStep ==
  ASSUME IInv, ClientNegotiate
  PROVE  IInv'
<1>1. /\ made < MaxConn /\ made' = made + 1 /\ made + 1 \in Conn
      /\ at' = [at EXCEPT ![made + 1] = [client |-> "negotiating", server |-> "queued"]]
      /\ call' = [call EXCEPT !["client"] = "negotiate"]
      /\ UNCHANGED <<mutual, evidence, session, attested, want, bytes, closing, eof>>
      /\ UNCHANGED <<taken, sent, read>>
  BY RustlsAssumption DEF ClientNegotiate, Calls, IInv, Types, Conn, options, bytes
<1>2. handshake' = [handshake EXCEPT ![made + 1] = "hello"]
  BY DEF ClientNegotiate
<1>3. Types'
  <2>1. [client |-> "negotiating", server |-> "queued"] \in [End -> At]
    BY PairTyped
  <2>2. at' \in [Conn -> [End -> At]]
    BY <1>1, <2>1 DEF IInv, Types
  <2> QED
    BY <1>1, <1>2, <2>2, RustlsAssumption DEF IInv, Types, End
<1>4. /\ at'[made + 1]["client"] = "negotiating" /\ at'[made + 1]["server"] = "queued"
      /\ \A c \in Conn : c # made + 1 => at'[c] = at[c]
      /\ at[made + 1]["client"] = "-" /\ at[made + 1]["server"] = "-"
  BY <1>1, RustlsAssumption DEF IInv, Types, Fresh, End, Conn
<1>5. \A c \in Conn : Serving(c)' <=> Serving(c)
  BY <1>4 DEF Serving
<1>6. OneServed' /\ Current' = Current
  BY <1>5, ServedKept DEF IInv
<1>7. Fresh'
  <2> SUFFICES ASSUME NEW c \in Conn, NEW e \in End, c > made + 1
               PROVE  at'[c][e] = "-"
    BY <1>1 DEF Fresh
  <2>1. c # made + 1 /\ c > made
    BY <1>1, RustlsAssumption DEF IInv, Types, Conn
  <2> QED
    BY <1>4, <2>1 DEF IInv, Fresh
<1>8. \A e \in End : session[e] # made + 1
  <2>1. made + 1 # 0
    BY <1>1 DEF Conn
  <2> QED
    BY <1>4, <2>1 DEF IInv, Sessions, End
<1>9. \A e \in End : session[e] # 0 => session[e] \in Conn
  BY RustlsAssumption DEF IInv, Types, Conn
<1>10. Sessions'
  BY <1>1, <1>4, <1>6, <1>8, <1>9 DEF IInv, Sessions
<1>11. Negotiating'
  BY <1>1, <1>4, <1>6, RustlsAssumption DEF IInv, Types, Negotiating, End
<1>12. Calling'
  BY <1>1 DEF IInv, Types, Calling, End
<1>13. Flow' /\ Closed' /\ Authenticated'
  BY <1>1, FlowKept, ClosedKept DEF IInv, Authenticated
<1> QED
  BY <1>3, <1>6, <1>7, <1>10, <1>11, <1>12, <1>13 DEF IInv

\* connect() returns only with a server whose evidence has passed.
LEMMA ClientConnectedStep ==
  ASSUME IInv, ClientConnected
  PROVE  IInv'
<1> DEFINE old == session["client"]
<1>1. /\ call["client"] = "negotiate" /\ RatsVerify("client")
      /\ handshake' = [handshake EXCEPT ![made] = "finish"]
      /\ at' = [c \in Conn |-> [at[c] EXCEPT !["client"] = IF c = made THEN "open"
                                                           ELSE IF c = old THEN "gone" ELSE @]]
      /\ session' = [session EXCEPT !["client"] = made]
      /\ Attested("client", made)
      /\ Dropped(old, "client")
      /\ call' = [call EXCEPT !["client"] = "-"]
      /\ UNCHANGED <<mutual, evidence, made, want, bytes, eof>>
      /\ UNCHANGED <<taken, sent, read>>
  BY DEF ClientConnected, Returns, options, bytes
<1>2. made \in Conn /\ old \in 0 .. MaxConn
  BY <1>1, RustlsAssumption DEF IInv, Types, Negotiating, Conn, End
<1>3. /\ closing' \in [Conn -> [End -> {"open", "notified", "dropped", "reset"}]]
      /\ \A d \in Conn : closing'[d]["server"] = closing[d]["server"]
      /\ Closed'
  BY <1>1, <1>2, DroppedKeeps DEF IInv, End, Other
<1>4. evidence["server"] = "attested"
  BY <1>1 DEF RatsVerify, CertVerifierPasses, IInv, Types, Other, End
<1>5. attested' = [attested EXCEPT !["client"] = @ \cup {made}]
  BY <1>1, <1>4 DEF Attested, Other
<1>6. \A c \in Conn : /\ at'[c]["server"] = at[c]["server"]
                      /\ at'[c]["client"] = IF c = made THEN "open"
                                            ELSE IF c = old THEN "gone" ELSE at[c]["client"]
  <2> HIDE DEF old
  <2> QED
    BY <1>1 DEF IInv, Types, End
<1>7. at' \in [Conn -> [End -> At]]
  <2> HIDE DEF old
  <2> QED
    BY <1>1 DEF IInv, Types, End, At
<1>8. Types'
  BY <1>1, <1>2, <1>3, <1>5, <1>7, RustlsAssumption DEF IInv, Types, End, Conn
<1>9. OneServed' /\ Current' = Current
  <2>1. \A c \in Conn : Serving(c)' <=> Serving(c)
    BY <1>6 DEF Serving
  <2> QED
    BY <2>1, ServedKept DEF IInv
<1>10. Fresh'
  <2>1. old # 0 => at[old]["client"] = "open"
    BY DEF IInv, Sessions, End
  <2>2. old # 0 => old \in Conn /\ ~(old > made)
    BY <1>2, <2>1, RustlsAssumption DEF IInv, Fresh, Conn, End
  <2> HIDE DEF old
  <2> QED
    BY <1>1, <1>2, <1>6, <2>2, RustlsAssumption DEF IInv, Fresh, Conn, End
<1>11. session'["client"] = made /\ session'["server"] = session["server"]
  BY <1>1 DEF IInv, Types, End
<1>12. session["server"] # 0 => session["server"] \in Conn
  BY RustlsAssumption DEF IInv, Types, Conn, End
<1>13. Sessions'
  BY <1>2, <1>6, <1>9, <1>11, <1>12 DEF IInv, Sessions, End
<1>14. Negotiating'
  BY <1>1, <1>9 DEF IInv, Types, Negotiating, End
<1>15. Calling'
  BY <1>1, <1>3, <1>11, <1>12 DEF IInv, Types, Calling, End
<1>16. Authenticated'
  BY <1>1, <1>2, <1>5, <1>11 DEF IInv, Types, Authenticated, End
<1> QED
  BY <1>1, <1>3, <1>8, <1>9, <1>10, <1>13, <1>14, <1>15, <1>16, FlowKept DEF IInv

LEMMA ClientFailsStep ==
  ASSUME IInv, ClientFails
  PROVE  IInv'
<1>1. /\ call["client"] = "negotiate"
      /\ at' = [at EXCEPT ![made]["client"] = "gone"]
      /\ call' = [call EXCEPT !["client"] = "-"]
      /\ UNCHANGED <<mutual, evidence, made, handshake, session, attested, want, bytes,
                     closing, eof>>
      /\ UNCHANGED <<taken, sent, read>>
  BY DEF ClientFails, Returns, options, bytes
<1>2. made \in Conn /\ at[made]["client"] = "negotiating"
  BY <1>1, RustlsAssumption DEF IInv, Types, Negotiating, Conn, End
<1>3. \A c \in Conn : /\ at'[c]["server"] = at[c]["server"]
                      /\ at'[c]["client"] = IF c = made THEN "gone" ELSE at[c]["client"]
  BY <1>1, <1>2 DEF IInv, Types, End
<1>4. Types'
  BY <1>1, <1>2 DEF IInv, Types, End, At
<1>5. OneServed' /\ Current' = Current
  <2>1. \A c \in Conn : Serving(c)' <=> Serving(c)
    BY <1>3 DEF Serving
  <2> QED
    BY <2>1, ServedKept DEF IInv
<1>6. Fresh'
  BY <1>1, <1>2, <1>3, RustlsAssumption DEF IInv, Fresh, Conn, End
<1>7. \A e \in End : session[e] # 0 => session[e] \in Conn
  BY RustlsAssumption DEF IInv, Types, Conn
<1>8. Sessions'
  BY <1>1, <1>2, <1>3, <1>5, <1>7 DEF IInv, Sessions, End
<1>9. Negotiating' /\ Calling'
  BY <1>1, <1>5 DEF IInv, Types, Negotiating, Calling, End
<1>10. Authenticated'
  BY <1>1 DEF IInv, Authenticated
<1> QED
  BY <1>1, <1>4, <1>5, <1>6, <1>8, <1>9, <1>10, FlowKept, ClosedKept DEF IInv

LEMMA ClientEndsStep ==
  ASSUME IInv, ClientEnds
  PROVE  IInv'
<1>1. /\ call' = [call EXCEPT !["client"] = "ended"]
      /\ at' = [c \in Conn |-> [at[c] EXCEPT !["client"] = IF @ = "-" THEN @ ELSE "gone"]]
      /\ session' = [session EXCEPT !["client"] = 0]
      /\ Dropped(session["client"], "client")
      /\ UNCHANGED <<mutual, evidence, made, handshake, attested, want, bytes, eof>>
      /\ UNCHANGED <<taken, sent, read>>
  BY DEF ClientEnds, Calls, options, bytes
<1>2. session["client"] \in 0 .. MaxConn
  BY DEF IInv, Types, End
<1>3. /\ closing' \in [Conn -> [End -> {"open", "notified", "dropped", "reset"}]]
      /\ \A d \in Conn : closing'[d]["server"] = closing[d]["server"]
      /\ Closed'
  BY <1>1, <1>2, DroppedKeeps DEF IInv, End, Other
<1>4. \A c \in Conn : /\ at'[c]["server"] = at[c]["server"]
                      /\ at'[c]["client"] = IF at[c]["client"] = "-" THEN "-" ELSE "gone"
  BY <1>1 DEF IInv, Types, End
<1>5. Types'
  <2>1. at' \in [Conn -> [End -> At]]
    BY <1>1 DEF IInv, Types, End, At
  <2>2. session' \in [End -> 0 .. MaxConn]
    BY <1>1, RustlsAssumption DEF IInv, Types, End
  <2> QED
    BY <1>1, <1>3, <2>1, <2>2 DEF IInv, Types, End
<1>6. OneServed' /\ Current' = Current
  <2>1. \A c \in Conn : Serving(c)' <=> Serving(c)
    BY <1>4 DEF Serving
  <2> QED
    BY <2>1, ServedKept DEF IInv
<1>7. Fresh'
  BY <1>1, <1>4 DEF IInv, Fresh, End
<1>8. /\ session'["client"] = 0 /\ session'["server"] = session["server"]
      /\ session["server"] # 0 => session["server"] \in Conn
  BY <1>1, RustlsAssumption DEF IInv, Types, End, Conn
<1>9. Sessions'
  BY <1>4, <1>6, <1>8 DEF IInv, Sessions, End
<1>10. Negotiating'
  BY <1>1, <1>6 DEF IInv, Types, Negotiating, End
<1>11. Calling'
  BY <1>1, <1>3, <1>8 DEF IInv, Types, Calling, End
<1>12. Authenticated'
  BY <1>1, <1>8 DEF IInv, Authenticated, End
<1> QED
  BY <1>1, <1>3, <1>5, <1>6, <1>7, <1>9, <1>10, <1>11, <1>12, FlowKept DEF IInv
------------------------------------------------------------------------------
(* The server's loop.                                                      *)

\* The server's session is the connection the loop is at.
LEMMA ServerSession ==
  ASSUME IInv
  PROVE  /\ session["server"] # 0 => session["server"] = Current
         /\ Current \in Conn /\ at[Current]["server"] # "open" => session["server"] = 0
BY RustlsAssumption DEF IInv, Sessions, Types, End, Conn

LEMMA AcceptStep ==
  ASSUME IInv, Accept
  PROVE  IInv'
<1>1. PICK c \in Conn : at[c]["server"] = "queued" /\ at' = [at EXCEPT ![c]["server"] = "accepted"]
  BY DEF Accept
<1>2. PICK v \in {"attested", "selfsigned"} : evidence' = [evidence EXCEPT !["server"] = v]
  BY DEF Accept
<1>3. /\ call["server"] = "-" /\ Current = 0
      /\ UNCHANGED <<mutual, made, handshake, session, attested, call, want, bytes, closing, eof>>
      /\ UNCHANGED <<taken, sent, read>>
  BY DEF Accept, bytes
<1>4. \A d \in Conn : /\ at'[d]["client"] = at[d]["client"]
                      /\ at'[d]["server"] = IF d = c THEN "accepted" ELSE at[d]["server"]
  BY <1>1 DEF IInv, Types, End
<1>5. Types'
  <2>1. at' \in [Conn -> [End -> At]]
    BY <1>1 DEF IInv, Types, End, At
  <2>2. evidence' \in [End -> {"none", "attested", "selfsigned"}]
    BY <1>2 DEF IInv, Types
  <2> QED
    BY <1>3, <2>1, <2>2 DEF IInv, Types
<1>6. OneServed'
  BY <1>3, <1>4, CurrentIs DEF OneServed, Serving
<1>7. Fresh'
  BY <1>1, <1>3, <1>4 DEF IInv, Fresh, End
<1>8. session["server"] = 0
  BY <1>3, ServerSession
<1>9. session["client"] # 0 => session["client"] \in Conn
  BY RustlsAssumption DEF IInv, Types, Conn, End
<1>10. Sessions'
  BY <1>3, <1>4, <1>8, <1>9 DEF IInv, Sessions, End
<1>11. Negotiating'
  <2>1. call["client"] = "negotiate" => made \in Conn
    BY RustlsAssumption DEF IInv, Types, Negotiating, Conn
  <2> QED
    BY <1>3, <1>4, <2>1 DEF IInv, Negotiating
<1>12. Calling' /\ Authenticated'
  BY <1>3 DEF IInv, Calling, Authenticated
<1> QED
  BY <1>3, <1>5, <1>6, <1>7, <1>10, <1>11, <1>12, FlowKept, ClosedKept DEF IInv

LEMMA ServerNegotiateStep ==
  ASSUME IInv, ServerNegotiate
  PROVE  IInv'
<1>1. /\ Current # 0 /\ at[Current]["server"] = "accepted"
      /\ at' = [at EXCEPT ![Current]["server"] = "negotiating"]
      /\ call' = [call EXCEPT !["server"] = "negotiate"]
      /\ UNCHANGED <<mutual, evidence, made, handshake, session, attested, want, bytes,
                     closing, eof>>
      /\ UNCHANGED <<taken, sent, read>>
  BY DEF ServerNegotiate, Calls, options, bytes
<1>2. Current \in Conn
  BY <1>1, CurrentIs
<1>3. \A d \in Conn : /\ at'[d]["client"] = at[d]["client"]
                      /\ at'[d]["server"] = IF d = Current THEN "negotiating" ELSE at[d]["server"]
  <2> DEFINE cur == Current
  <2>1. at' = [at EXCEPT ![cur]["server"] = "negotiating"] /\ cur \in Conn
    BY <1>1, <1>2
  <2> HIDE DEF cur
  <2>2. \A d \in Conn : /\ at'[d]["client"] = at[d]["client"]
                        /\ at'[d]["server"] = IF d = cur THEN "negotiating" ELSE at[d]["server"]
    BY <2>1 DEF IInv, Types, End
  <2> QED
    BY <2>2 DEF cur
<1>4. Types'
  <2>1. at' \in [Conn -> [End -> At]]
    BY <1>1, <1>2 DEF IInv, Types, End, At
  <2> QED
    BY <1>1, <2>1 DEF IInv, Types, End
<1>5. OneServed' /\ Current' = Current
  <2>1. \A c \in Conn : Serving(c)' <=> Serving(c)
    BY <1>1, <1>3 DEF Serving
  <2> QED
    BY <2>1, ServedKept DEF IInv
<1>6. Fresh'
  BY <1>1, <1>2, <1>3 DEF IInv, Fresh, End
<1>7. session["server"] = 0
  BY <1>1, <1>2, ServerSession
<1>8. session["client"] # 0 => session["client"] \in Conn
  BY RustlsAssumption DEF IInv, Types, Conn, End
<1>9. Sessions'
  BY <1>1, <1>3, <1>7, <1>8 DEF IInv, Sessions, End
<1>10. Negotiating'
  <2>1. call["client"] = "negotiate" => made \in Conn
    BY RustlsAssumption DEF IInv, Types, Negotiating, Conn
  <2> QED
    BY <1>1, <1>3, <1>5, <2>1 DEF IInv, Types, Negotiating, End
<1>11. Calling' /\ Authenticated'
  BY <1>1 DEF IInv, Types, Calling, Authenticated, End
<1> QED
  BY <1>1, <1>4, <1>5, <1>6, <1>9, <1>10, <1>11, FlowKept, ClosedKept DEF IInv

LEMMA ServerFlightStep ==
  ASSUME IInv, ServerFlight
  PROVE  IInv'
<1>1. /\ call["server"] = "negotiate"
      /\ handshake' = [handshake EXCEPT ![Current] = "flight"]
      /\ UNCHANGED <<mutual, evidence, made, at, session, attested, call, want, bytes,
                     closing, eof>>
      /\ UNCHANGED <<taken, sent, read>>
  BY DEF ServerFlight, options, bytes
<1>2. Types'
  BY <1>1 DEF IInv, Types
<1>3. OneServed' /\ Current' = Current
  <2>1. \A c \in Conn : Serving(c)' <=> Serving(c)
    BY <1>1 DEF Serving
  <2> QED
    BY <2>1, ServedKept DEF IInv
<1>4. Fresh' /\ Sessions' /\ Negotiating' /\ Calling' /\ Authenticated'
  BY <1>1, <1>3 DEF IInv, Fresh, Sessions, Negotiating, Calling, Authenticated
<1> QED
  BY <1>1, <1>2, <1>3, <1>4, FlowKept, ClosedKept DEF IInv

\* accept() returns, to a server that verifies, only with a client whose evidence has
\* passed.
LEMMA ServerAcceptedStep ==
  ASSUME IInv, ServerAccepted
  PROVE  IInv'
<1>1. /\ call["server"] = "negotiate" /\ RatsVerify("server")
      /\ at' = [at EXCEPT ![Current]["server"] = "open"]
      /\ session' = [session EXCEPT !["server"] = Current]
      /\ Attested("server", Current)
      /\ call' = [call EXCEPT !["server"] = "-"]
      /\ UNCHANGED <<mutual, evidence, made, handshake, want, bytes, closing, eof>>
      /\ UNCHANGED <<taken, sent, read>>
  BY DEF ServerAccepted, Returns, options, bytes
<1> DEFINE cur == Current
<1>2. /\ cur = Current /\ cur \in Conn /\ Serving(cur)
      /\ at' = [at EXCEPT ![cur]["server"] = "open"]
      /\ session' = [session EXCEPT !["server"] = cur]
      /\ Attested("server", cur)
  BY <1>1, CurrentIs DEF IInv, Negotiating
<1> HIDE DEF cur
<1>3. \A d \in Conn : /\ at'[d]["client"] = at[d]["client"]
                      /\ at'[d]["server"] = IF d = cur THEN "open" ELSE at[d]["server"]
  BY <1>2 DEF IInv, Types, End
<1>4. mutual["server"] => mutual["client"] /\ evidence["client"] = "attested"
  BY <1>1 DEF RatsVerify, CertVerifierPasses, IInv, Types, Other, End
<1>5. /\ attested' \in [End -> SUBSET Conn] /\ attested'["client"] = attested["client"]
      /\ mutual["server"] => cur \in attested'["server"]
  BY <1>2, <1>4 DEF Attested, Other, IInv, Types, End
<1>6. Types'
  <2>1. at' \in [Conn -> [End -> At]]
    BY <1>2 DEF IInv, Types, End, At
  <2>2. session' \in [End -> 0 .. MaxConn]
    BY <1>2, RustlsAssumption DEF IInv, Types, Conn, End
  <2> QED
    BY <1>1, <1>5, <2>1, <2>2 DEF IInv, Types, End
<1>7. OneServed' /\ Current' = Current
  <2>1. \A c \in Conn : Serving(c)' <=> Serving(c)
    BY <1>2, <1>3 DEF Serving
  <2> QED
    BY <2>1, ServedKept DEF IInv
<1>8. Fresh'
  BY <1>1, <1>2, <1>3 DEF IInv, Fresh, Serving, End
<1>9. /\ session'["server"] = cur /\ session'["client"] = session["client"]
      /\ session["client"] # 0 => session["client"] \in Conn
  BY <1>2, RustlsAssumption DEF IInv, Types, Conn, End
<1>10. Sessions'
  BY <1>2, <1>3, <1>7, <1>9 DEF IInv, Sessions, End
<1>11. Negotiating'
  <2>1. call["client"] = "negotiate" => made \in Conn
    BY RustlsAssumption DEF IInv, Types, Negotiating, Conn
  <2> QED
    BY <1>1, <1>3, <1>7, <2>1 DEF IInv, Types, Negotiating, End
<1>12. Calling'
  BY <1>1, <1>9 DEF IInv, Types, Calling, End
<1>13. Authenticated'
  BY <1>1, <1>5, <1>9 DEF IInv, Authenticated, End
<1> QED
  BY <1>1, <1>6, <1>7, <1>8, <1>10, <1>11, <1>12, <1>13, FlowKept, ClosedKept DEF IInv

\* func(server) returns, and the loop is at accept() again.
LEMMA ServerDoneStep ==
  ASSUME IInv, ServerDone
  PROVE  IInv'
<1>1. /\ call["server"] = "-" /\ session["server"] # 0
      /\ at' = [at EXCEPT ![Current]["server"] = "gone"]
      /\ session' = [session EXCEPT !["server"] = 0]
      /\ Dropped(Current, "server")
      /\ UNCHANGED <<mutual, evidence, made, handshake, attested, call, want, bytes, eof>>
      /\ UNCHANGED <<taken, sent, read>>
  BY DEF ServerDone, options, bytes
<1> DEFINE cur == Current
<1>2. /\ cur = Current /\ cur \in Conn /\ Serving(cur)
      /\ at' = [at EXCEPT ![cur]["server"] = "gone"]
      /\ Dropped(cur, "server")
  BY <1>1, CurrentIs, ServerSession
<1> HIDE DEF cur
<1>3. cur \in 0 .. MaxConn
  BY <1>2, CurrentIs
<1>4. /\ closing' \in [Conn -> [End -> {"open", "notified", "dropped", "reset"}]]
      /\ \A d \in Conn : closing'[d]["client"] = closing[d]["client"]
      /\ Closed'
  BY <1>1, <1>2, <1>3, DroppedKeeps DEF IInv, End, Other
<1>5. \A d \in Conn : /\ at'[d]["client"] = at[d]["client"]
                      /\ at'[d]["server"] = IF d = cur THEN "gone" ELSE at[d]["server"]
  BY <1>2 DEF IInv, Types, End
<1>6. Types'
  <2>1. at' \in [Conn -> [End -> At]]
    BY <1>2 DEF IInv, Types, End, At
  <2>2. session' \in [End -> 0 .. MaxConn]
    BY <1>1, RustlsAssumption DEF IInv, Types, End
  <2> QED
    BY <1>1, <1>4, <2>1, <2>2 DEF IInv, Types
<1>7. \A d \in Conn : ~Serving(d)'
  BY <1>2, <1>5 DEF IInv, OneServed, Serving
<1>8. OneServed'
  BY <1>7 DEF OneServed
<1>9. Fresh'
  BY <1>1, <1>2, <1>5 DEF IInv, Fresh, Serving, End
<1>10. /\ session'["server"] = 0 /\ session'["client"] = session["client"]
       /\ session["client"] # 0 => session["client"] \in Conn
  BY <1>1, RustlsAssumption DEF IInv, Types, Conn, End
<1>11. Sessions'
  BY <1>5, <1>10 DEF IInv, Sessions, End
<1>12. Negotiating'
  <2>1. call["client"] = "negotiate" => made \in Conn
    BY RustlsAssumption DEF IInv, Types, Negotiating, Conn
  <2> QED
    BY <1>1, <1>5, <2>1 DEF IInv, Negotiating
<1>13. Calling'
  BY <1>1, <1>4, <1>10 DEF IInv, Calling, End
<1>14. Authenticated'
  BY <1>1, <1>10 DEF IInv, Authenticated, End
<1> QED
  BY <1>1, <1>4, <1>6, <1>8, <1>9, <1>11, <1>12, <1>13, <1>14, FlowKept DEF IInv

\* However the loop ends.
LEMMA LoopEndsStep ==
  ASSUME IInv, LoopEnds, UNCHANGED <<options, made, handshake, attested, want, bytes, eof>>
  PROVE  IInv'
<1>1. /\ call' = [call EXCEPT !["server"] = "ended"]
      /\ at' = [c \in Conn |-> [at[c] EXCEPT !["server"] = IF @ = "-" THEN @ ELSE "gone"]]
      /\ session' = [session EXCEPT !["server"] = 0]
      /\ Dropped(Current, "server")
      /\ UNCHANGED <<mutual, evidence, made, handshake, attested, want, bytes, eof>>
      /\ UNCHANGED <<taken, sent, read>>
  BY DEF LoopEnds, Calls, options, bytes
<1>2. Current \in 0 .. MaxConn
  BY CurrentIs
<1>3. /\ closing' \in [Conn -> [End -> {"open", "notified", "dropped", "reset"}]]
      /\ \A d \in Conn : closing'[d]["client"] = closing[d]["client"]
      /\ Closed'
  BY <1>1, <1>2, DroppedKeeps DEF IInv, End, Other
<1>4. \A c \in Conn : /\ at'[c]["client"] = at[c]["client"]
                      /\ at'[c]["server"] = IF at[c]["server"] = "-" THEN "-" ELSE "gone"
  BY <1>1 DEF IInv, Types, End
<1>5. Types'
  <2>1. at' \in [Conn -> [End -> At]]
    BY <1>1 DEF IInv, Types, End, At
  <2>2. session' \in [End -> 0 .. MaxConn]
    BY <1>1, RustlsAssumption DEF IInv, Types, End
  <2> QED
    BY <1>1, <1>3, <2>1, <2>2 DEF IInv, Types, End
<1>6. OneServed'
  BY <1>4 DEF OneServed, Serving
<1>7. Fresh'
  BY <1>1, <1>4 DEF IInv, Fresh, End
<1>8. /\ session'["server"] = 0 /\ session'["client"] = session["client"]
      /\ session["client"] # 0 => session["client"] \in Conn
  BY <1>1, RustlsAssumption DEF IInv, Types, End, Conn
<1>9. Sessions'
  BY <1>4, <1>8 DEF IInv, Sessions, End
<1>10. Negotiating'
  <2>1. call["client"] = "negotiate" => made \in Conn
    BY RustlsAssumption DEF IInv, Types, Negotiating, Conn
  <2> QED
    BY <1>1, <1>4, <2>1 DEF IInv, Types, Negotiating, End
<1>11. Calling'
  BY <1>1, <1>3, <1>8 DEF IInv, Types, Calling, End
<1>12. Authenticated'
  BY <1>1, <1>8 DEF IInv, Authenticated, End
<1> QED
  BY <1>1, <1>3, <1>5, <1>6, <1>7, <1>9, <1>10, <1>11, <1>12, FlowKept DEF IInv
------------------------------------------------------------------------------
(* send(), receive() and shutdown().                                       *)

\* The session of an end that is in one of them.
LEMMA OnSession ==
  ASSUME IInv, NEW e \in End, session[e] # 0
  PROVE  session[e] \in Conn
BY RustlsAssumption DEF IInv, Types, Conn

LEMMA OtherEnd ==
  ASSUME NEW e \in End
  PROVE  Other(e) \in End /\ Other(Other(e)) = e /\ Other(e) # e
BY DEF Other, End

\* One of an end's calls begins.
LEMMA CallStep ==
  ASSUME IInv, NEW e \in End, NEW what \in {"send", "receive", "shutdown"},
         session[e] # 0, what # "receive" => closing[session[e]][e] = "open",
         call' = [call EXCEPT ![e] = what],
         want' \in [End -> Nat],
         UNCHANGED <<options, setup, bytes, closing, eof>>
  PROVE  IInv'
<1>1. call' \in [End -> {"-", "negotiate", "send", "receive", "shutdown", "ended"}]
  BY DEF IInv, Types
<1>2. Types'
  BY <1>1, SetupKept, FlowKept, ClosedKept DEF Types
<1>3. Negotiating'
  BY NegotiatingKept DEF IInv, Types
<1>4. Calling'
  <2>1. session' = session
    BY DEF setup
  <2> QED
    BY <2>1 DEF IInv, Types, Calling
<1> QED
  BY <1>2, <1>3, <1>4, SetupKept, FlowKept, ClosedKept DEF IInv

LEMMA SendStep ==
  ASSUME IInv, NEW e \in End, NEW n \in Sizes, Send(e, n)
  PROVE  IInv'
<1>1. /\ session[e] # 0 /\ closing[session[e]][e] = "open"
      /\ call' = [call EXCEPT ![e] = "send"] /\ want' = [want EXCEPT ![e] = n]
      /\ UNCHANGED <<options, setup, bytes, closing, eof>>
  BY DEF Send, Owns, Calls
<1>2. want' \in [End -> Nat]
  BY <1>1, RustlsAssumption DEF IInv, Types
<1> QED
  BY <1>1, <1>2, CallStep

LEMMA ShutdownStep ==
  ASSUME IInv, NEW e \in End, Shutdown(e)
  PROVE  IInv'
<1>1. want' \in [End -> Nat]
  BY DEF Shutdown, IInv, Types
<1> QED
  BY <1>1, CallStep DEF Shutdown, Owns, Calls

LEMMA ReceiveStep ==
  ASSUME IInv, NEW e \in End, Receive(e)
  PROVE  IInv'
<1>1. want' \in [End -> Nat]
  BY DEF Receive, IInv, Types
<1> QED
  BY <1>1, CallStep DEF Receive, Owns, Calls

\* The call returns, and announces nothing.
LEMMA ReturnStep ==
  ASSUME IInv, NEW e \in End, call' = [call EXCEPT ![e] = "-"],
         UNCHANGED <<options, setup, closing>>
  PROVE  /\ call' \in [End -> {"-", "negotiate", "send", "receive", "shutdown", "ended"}]
         /\ Negotiating' /\ Calling'
<1>1. call' \in [End -> {"-", "negotiate", "send", "receive", "shutdown", "ended"}]
  BY DEF IInv, Types
<1>2. \A d \in End : call'[d] = IF d = e THEN "-" ELSE call[d]
  BY DEF IInv, Types
<1>3. Negotiating'
  BY <1>2, NegotiatingKept
<1>4. Calling'
  BY <1>2 DEF IInv, Calling, setup
<1> QED
  BY <1>1, <1>3, <1>4

LEMMA WriteStep ==
  ASSUME IInv, NEW e \in End, Write(e)
  PROVE  IInv'
<1> DEFINE c == session[e]
           room == Buffer + Window - (taken[c][e] - read[c][e])
           now == taken[c][e] + Least(want[e], room)
           handed == Least(now, read[c][e] + Window)
<1>1. /\ call[e] = "send" /\ room > 0
      /\ taken' = [taken EXCEPT ![c][e] = now]
      /\ sent' = [sent EXCEPT ![c][e] = handed]
      /\ want' = [want EXCEPT ![e] = 0]
      /\ call' = [call EXCEPT ![e] = "-"]
      /\ UNCHANGED <<options, setup, read, closing, eof>>
  BY DEF Write, Returns, Handed
<1>2. c \in Conn /\ closing[c][e] = "open"
  BY <1>1, OnSession DEF IInv, Calling
<1>3. /\ taken[c][e] \in Nat /\ sent[c][e] \in Nat /\ read[c][e] \in Nat /\ want[e] \in Nat
      /\ Flows(taken[c][e], sent[c][e], read[c][e])
  <2> HIDE DEF c
  <2> QED
    BY <1>2 DEF IInv, Types, Flow
<1>4. now \in Nat /\ handed \in Nat /\ Flows(now, handed, read[c][e])
  <2> HIDE DEF c
  <2> QED
    BY <1>1, <1>3, WriteFlows
<1> HIDE DEF c, room, now, handed
<1>5. /\ taken' \in [Conn -> [End -> Nat]] /\ sent' \in [Conn -> [End -> Nat]]
      /\ read' \in [Conn -> [End -> Nat]] /\ want' \in [End -> Nat]
  BY <1>1, <1>4 DEF IInv, Types
<1>6. \A d \in Conn, o \in End :
        /\ taken'[d][o] = IF d = c /\ o = e THEN now ELSE taken[d][o]
        /\ sent'[d][o] = IF d = c /\ o = e THEN handed ELSE sent[d][o]
  BY <1>1 DEF IInv, Types
<1>7. Types'
  BY <1>1, <1>5, SetupKept, ReturnStep DEF IInv, Types
<1>8. Flow'
  BY <1>1, <1>4, <1>6 DEF IInv, Flow
<1>9. Closed'
  BY <1>1, <1>2, <1>6, OtherEnd DEF IInv, Closed
<1> QED
  BY <1>1, <1>7, <1>8, <1>9, SetupKept, ReturnStep DEF IInv

\* The rest of the bytes goes ahead of the close_notify.
LEMMA FlushStep ==
  ASSUME IInv, NEW e \in End, Flush(e)
  PROVE  IInv'
<1> DEFINE c == session[e]
           handed == Least(taken[c][e], read[c][e] + Window)
<1>1. /\ call[e] = "shutdown"
      /\ sent' = [sent EXCEPT ![c][e] = handed]
      /\ UNCHANGED <<options, setup, call, want, taken, read, closing, eof>>
  BY DEF Flush, Handed
<1>2. c \in Conn /\ closing[c][e] = "open"
  BY <1>1, OnSession DEF IInv, Calling
<1>3. /\ taken[c][e] \in Nat /\ sent[c][e] \in Nat /\ read[c][e] \in Nat
      /\ Flows(taken[c][e], sent[c][e], read[c][e])
  <2> HIDE DEF c
  <2> QED
    BY <1>2 DEF IInv, Types, Flow
<1>4. handed \in Nat /\ Flows(taken[c][e], handed, read[c][e])
  <2> HIDE DEF c
  <2> QED
    BY <1>3, FlushFlows
<1> HIDE DEF c, handed
<1>5. sent' \in [Conn -> [End -> Nat]]
  BY <1>1, <1>4 DEF IInv, Types
<1>6. \A d \in Conn, o \in End : sent'[d][o] = IF d = c /\ o = e THEN handed ELSE sent[d][o]
  BY <1>1 DEF IInv, Types
<1>7. Types'
  BY <1>1, <1>5, SetupKept DEF IInv, Types
<1>8. Flow'
  BY <1>1, <1>4, <1>6 DEF IInv, Flow
<1>9. Closed'
  BY <1>1, <1>2, <1>6 DEF IInv, Closed
<1>10. Negotiating'
  BY <1>1, NegotiatingKept
<1>11. Calling'
  BY <1>1 DEF IInv, Calling, setup
<1> QED
  BY <1>1, <1>7, <1>8, <1>9, <1>10, <1>11, SetupKept DEF IInv

LEMMA ShutdownOkStep ==
  ASSUME IInv, NEW e \in End, ShutdownOk(e)
  PROVE  IInv'
<1> DEFINE c == session[e]
<1>1. /\ call[e] = "shutdown" /\ sent[c][e] = taken[c][e]
      /\ closing' = [closing EXCEPT ![c][e] = "notified"]
      /\ call' = [call EXCEPT ![e] = "-"]
      /\ UNCHANGED <<options, setup, want, bytes, eof>>
      /\ UNCHANGED <<session, taken, sent, read>>
  BY DEF ShutdownOk, Returns, setup, bytes
<1>2. c \in Conn /\ closing[c][e] = "open"
  BY <1>1, OnSession DEF IInv, Calling
<1>3. closing' \in [Conn -> [End -> {"open", "notified", "dropped", "reset"}]]
  BY <1>1 DEF IInv, Types
<1>4. \A d \in Conn, o \in End :
        closing'[d][o] = IF d = c /\ o = e THEN "notified" ELSE closing[d][o]
  <2> HIDE DEF c
  <2> QED
    BY <1>1 DEF IInv, Types
<1>5. \A d \in End : call'[d] = IF d = e THEN "-" ELSE call[d]
  BY <1>1 DEF IInv, Types
<1>6. call' \in [End -> {"-", "negotiate", "send", "receive", "shutdown", "ended"}]
  BY <1>1 DEF IInv, Types
<1>7. Types'
  BY <1>1, <1>3, <1>6, SetupKept, FlowKept DEF IInv, Types
<1>8. Closed'
  <2> HIDE DEF c
  <2> QED
    BY <1>1, <1>2, <1>4 DEF IInv, Closed
<1>9. Negotiating'
  BY <1>1, <1>5, NegotiatingKept
<1>10. Calling'
  <2> SUFFICES ASSUME NEW d \in End, call'[d] \in {"send", "receive", "shutdown"}
               PROVE  /\ session'[d] # 0
                      /\ call'[d] \in {"send", "shutdown"} => closing'[session'[d]][d] = "open"
    BY DEF Calling
  <2>1. d # e /\ call'[d] = call[d] /\ session[d] # 0
    BY <1>5 DEF IInv, Calling
  <2>2. session[d] \in Conn
    BY <2>1, OnSession
  <2>3. closing'[session[d]][d] = closing[session[d]][d]
    BY <1>4, <2>1, <2>2
  <2> QED
    BY <1>1, <2>1, <2>3 DEF IInv, Calling
<1> QED
  BY <1>1, <1>7, <1>8, <1>9, <1>10, SetupKept, FlowKept DEF IInv

LEMMA WriteFailsStep ==
  ASSUME IInv, NEW e \in End, WriteFails(e)
  PROVE  IInv'
<1>1. /\ want' = [want EXCEPT ![e] = 0] /\ call' = [call EXCEPT ![e] = "-"]
      /\ UNCHANGED <<options, setup, bytes, closing, eof>>
  BY DEF WriteFails, Returns
<1>2. want' \in [End -> Nat]
  BY <1>1 DEF IInv, Types
<1>3. Types'
  BY <1>1, <1>2, SetupKept, FlowKept, ClosedKept, ReturnStep DEF Types
<1> QED
  BY <1>1, <1>3, SetupKept, FlowKept, ClosedKept, ReturnStep DEF IInv

LEMMA ReadStep ==
  ASSUME IInv, NEW e \in End, Read(e)
  PROVE  IInv'
<1> DEFINE c == session[e]
           o == Other(e)
<1>1. /\ call[e] = "receive"
      /\ call' = [call EXCEPT ![e] = "-"]
      /\ UNCHANGED <<options, setup, want, taken, sent, closing, eof>>
  BY DEF Read, Returns
<1>2. PICK n \in read[c][o] + 1 .. sent[c][o] : read' = [read EXCEPT ![c][o] = n]
  BY DEF Read
<1>3. c \in Conn /\ o \in End
  BY <1>1, OnSession, OtherEnd DEF IInv, Calling
<1> HIDE DEF c, o
<1>4. /\ taken[c][o] \in Nat /\ sent[c][o] \in Nat /\ read[c][o] \in Nat
      /\ Flows(taken[c][o], sent[c][o], read[c][o])
  BY <1>3 DEF IInv, Types, Flow
<1>5. n \in Nat /\ Flows(taken[c][o], sent[c][o], n)
  BY <1>4, ReadFlows
<1>6. read' \in [Conn -> [End -> Nat]]
  BY <1>2, <1>5 DEF IInv, Types
<1>7. \A d \in Conn, p \in End : read'[d][p] = IF d = c /\ p = o THEN n ELSE read[d][p]
  BY <1>2 DEF IInv, Types
<1>8. Types'
  BY <1>1, <1>6, SetupKept, ReturnStep DEF IInv, Types
<1>9. Flow'
  BY <1>1, <1>5, <1>7 DEF IInv, Flow
<1>10. read[c][o] # taken[c][o]
  BY <1>4 DEF Flows
<1>11. Closed'
  BY <1>1, <1>3, <1>7, <1>10 DEF IInv, Closed
<1> QED
  BY <1>1, <1>8, <1>9, <1>11, SetupKept, ReturnStep DEF IInv

\* Ok(0): the close_notify has come, and all that was taken before it.
LEMMA ReadEndStep ==
  ASSUME IInv, NEW e \in End, ReadEnd(e)
  PROVE  IInv'
<1> DEFINE c == session[e]
           o == Other(e)
<1>1. /\ call[e] = "receive"
      /\ closing[c][o] = "notified" /\ read[c][o] = sent[c][o]
      /\ eof' = [eof EXCEPT ![e] = @ \cup {c}]
      /\ call' = [call EXCEPT ![e] = "-"]
      /\ UNCHANGED <<options, setup, want, bytes, closing>>
      /\ UNCHANGED <<taken, sent, read>>
  BY DEF ReadEnd, Returns, bytes
<1>2. c \in Conn /\ o \in End
  BY <1>1, OnSession, OtherEnd DEF IInv, Calling
<1>3. \A p \in End : Other(p) \in End /\ (Other(p) = e => p = o)
  BY OtherEnd
<1> HIDE DEF c, o
<1>4. eof' \in [End -> SUBSET Conn]
  BY <1>1, <1>2 DEF IInv, Types
<1>5. \A d \in Conn, p \in End :
        d \in eof'[Other(p)] => d \in eof[Other(p)] \/ (d = c /\ p = o)
  BY <1>1, <1>3 DEF IInv, Types
<1>6. closing' \in [Conn -> [End -> {"open", "notified", "dropped", "reset"}]]
  BY <1>1 DEF IInv, Types
<1>7. Types'
  BY <1>1, <1>4, <1>6, SetupKept, FlowKept, ReturnStep DEF IInv, Types
<1>8. Closed'
  BY <1>1, <1>2, <1>5 DEF IInv, Closed
<1> QED
  BY <1>1, <1>7, <1>8, SetupKept, FlowKept, ReturnStep DEF IInv

LEMMA ReadFailsStep ==
  ASSUME IInv, NEW e \in End, ReadFails(e)
  PROVE  IInv'
<1>1. /\ call' = [call EXCEPT ![e] = "-"]
      /\ UNCHANGED <<options, setup, want, bytes, closing, eof>>
  BY DEF ReadFails, Returns
<1>2. want' \in [End -> Nat]
  BY <1>1 DEF IInv, Types
<1>3. Types'
  BY <1>1, <1>2, SetupKept, FlowKept, ClosedKept, ReturnStep DEF Types
<1> QED
  BY <1>1, <1>3, SetupKept, FlowKept, ClosedKept, ReturnStep DEF IInv

------------------------------------------------------------------------------
LEMMA InitIInv ==
  ASSUME Init
  PROVE  IInv
<1>1. /\ mutual \in [End -> BOOLEAN]
      /\ made = 0 /\ handshake = [c \in Conn |-> "-"]
      /\ at = [c \in Conn |-> [e \in End |-> "-"]]
      /\ session = [e \in End |-> 0] /\ call = [e \in End |-> "-"]
      /\ want = [e \in End |-> 0] /\ attested = [e \in End |-> {}]
      /\ taken = [c \in Conn |-> [e \in End |-> 0]]
      /\ sent = [c \in Conn |-> [e \in End |-> 0]]
      /\ read = [c \in Conn |-> [e \in End |-> 0]]
      /\ closing = [c \in Conn |-> [e \in End |-> "open"]]
      /\ eof = [e \in End |-> {}]
  BY DEF Init, PerEnd
<1>2. PICK v \in {"attested", "selfsigned"} : evidence = [client |-> v, server |-> "none"]
  BY DEF Init
<1>3. evidence \in [End -> {"none", "attested", "selfsigned"}]
  <2>1. DOMAIN evidence = End
    BY <1>2 DEF End
  <2>2. evidence["client"] = v /\ evidence["server"] = "none"
    BY <1>2
  <2>3. evidence = [e \in End |-> evidence[e]]
    BY <1>2, <2>1, Zenon
  <2> QED
    BY <2>1, <2>2, <2>3 DEF End
<1>4. Types
  BY <1>1, <1>3, RustlsAssumption DEF Types, At
<1>5. Fresh /\ OneServed /\ Calling
  BY <1>1 DEF Fresh, OneServed, Serving, Calling, End
<1>6. Sessions /\ Negotiating
  BY <1>1 DEF Sessions, Negotiating, End
<1>7. Flow
  BY <1>1, RustlsAssumption DEF Flow, Flows
<1>8. Closed /\ Authenticated
  BY <1>1, OtherEnd DEF Closed, Authenticated
<1> QED
  BY <1>4, <1>5, <1>6, <1>7, <1>8 DEF IInv

LEMMA StepIInv ==
  ASSUME IInv, [Next]_vars
  PROVE  IInv'
<1>1. CASE ClientConnected \/ ClientFails \/ ClientNegotiate \/ ClientEnds
  BY <1>1, ClientConnectedStep, ClientFailsStep, ClientNegotiateStep, ClientEndsStep
<1>2. CASE Accept \/ ServerNegotiate \/ ServerFlight \/ ServerAccepted
  BY <1>2, AcceptStep, ServerNegotiateStep, ServerFlightStep, ServerAcceptedStep
<1>3. CASE ServerRefuses \/ ServerEnds
  BY <1>3, LoopEndsStep DEF ServerRefuses, ServerEnds
<1>4. CASE ServerDone
  BY <1>4, ServerDoneStep
<1>5. ASSUME NEW e \in End,
             (\E n \in Sizes : Send(e, n)) \/ Shutdown(e) \/ Receive(e) \/ Transfer(e)
      PROVE  IInv'
  <2>1. CASE (\E n \in Sizes : Send(e, n)) \/ Shutdown(e) \/ Receive(e)
    BY <2>1, SendStep, ShutdownStep, ReceiveStep
  <2>2. CASE Write(e) \/ Flush(e) \/ ShutdownOk(e) \/ WriteFails(e)
    BY <2>2, WriteStep, FlushStep, ShutdownOkStep, WriteFailsStep
  <2>3. CASE Read(e) \/ ReadEnd(e) \/ ReadFails(e)
    BY <2>3, ReadStep, ReadEndStep, ReadFailsStep
  <2> QED
    BY <1>5, <2>1, <2>2, <2>3 DEF Transfer
<1>6. CASE UNCHANGED vars
  <2>1. UNCHANGED <<options, setup, call, want, bytes, closing, eof>>
    BY <1>6 DEF vars
  <2>2. Types' /\ Calling' /\ Negotiating'
    BY <2>1, SetupKept, FlowKept, ClosedKept, NegotiatingKept
       DEF IInv, Types, Calling, setup
  <2> QED
    BY <2>1, <2>2, SetupKept, FlowKept, ClosedKept DEF IInv
<1> QED
  BY <1>1, <1>2, <1>3, <1>4, <1>5, <1>6 DEF Next, Negotiation

\* Whatever is negotiated, sent and dropped in whatever order, the connections, the
\* sessions and the calls in progress are where IInv says they are.
THEOREM RustlsInvariance == Spec => []IInv
<1>1. Init => IInv
  BY InitIInv
<1>2. IInv /\ [Next]_vars => IInv'
  BY StepIInv
<1> QED
  BY <1>1, <1>2, PTL DEF Spec

\* The serial loop of examples/rustls is at one connection at a time, a session is an
\* open end of one, and write() takes no more than the buffer and TCP have room for.
THEOREM RustlsTypeCorrect == Spec => []TypeOK
<1>1. IInv => TypeOK
  <2> SUFFICES ASSUME IInv
               PROVE  TypeOK
    OBVIOUS
  <2>1. \A c \in Conn, e \in End :
          /\ at[c][e] \in At
          /\ closing[c][e] \in {"open", "notified", "dropped", "reset"}
          /\ taken[c][e] \in Nat /\ sent[c][e] \in Nat /\ read[c][e] \in Nat
          /\ Flows(taken[c][e], sent[c][e], read[c][e])
    BY DEF IInv, Types, Flow
  <2>2. \A c \in Conn, e \in End :
          /\ at[c][e] \in {"-", "queued", "accepted", "negotiating", "open", "gone"}
          /\ 0 <= read[c][e] /\ read[c][e] <= sent[c][e] /\ sent[c][e] <= taken[c][e]
          /\ sent[c][e] <= read[c][e] + Window /\ taken[c][e] <= sent[c][e] + Buffer
          /\ closing[c][e] \in {"open", "notified", "dropped", "reset"}
    BY <2>1, RustlsAssumption DEF At, Flows
  <2> QED
    BY <2>2 DEF IInv, Types, OneServed, Sessions, TypeOK
<1> QED
  BY <1>1, RustlsInvariance, PTL

\* However often a client connects anew and whatever fails in between, its session is
\* with a server whose evidence passed verify_server_cert(), and the session of a
\* server with verify_peer with a client whose evidence passed verify_client_cert().
THEOREM RustlsSessionsAreAuthenticated == Spec => []Authenticated
<1>1. IInv => Authenticated
  BY DEF IInv
<1> QED
  BY <1>1, RustlsInvariance, PTL

\* receive() returns Ok(0) only when all that the peer's write() took has been
\* received: what is still in the buffer goes out before the close_notify, and the
\* end of a connection without one is an error.
THEOREM RustlsEndIsComplete == Spec => []EndIsComplete
<1>1. IInv => EndIsComplete
  <2> SUFFICES ASSUME IInv, NEW e \in End, NEW c \in eof[e]
               PROVE  read[c][Other(e)] = taken[c][Other(e)]
    BY DEF EndIsComplete
  <2>1. c \in Conn
    BY DEF IInv, Types
  <2> QED
    BY <2>1, OtherEnd DEF IInv, Closed
<1> QED
  BY <1>1, RustlsInvariance, PTL
=============================================================================
