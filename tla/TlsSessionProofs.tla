--------------------------- MODULE TlsSessionProofs ---------------------------
(***************************************************************************)
(* Theorems about TlsSession, for every set of callbacks of the owners',   *)
(* every number of SSL objects and of records.                             *)
(***************************************************************************)
EXTENDS TlsSession, TLAPS, SequenceTheorems

\* SSL_new takes over the callback that asks for evidence.
CallbackTaken ==
  \A e \in End : AsksForEvidence(e) =>
    \A i \in 1 .. Len(ssl[e]) : ssl[e][i].verify = "rats"

\* The server's object j is through its handshake, as the server's options ask for it.
Spoken(j) ==
  /\ j \in 1 .. Len(ssl["server"])
  /\ ssl["server"][j].state # "handshake"
  /\ AsksForEvidence("server") => ssl["server"][j].attested

\* Data on its way to the client comes from such objects,
WireSpoken(w) ==
  /\ w \in [End -> Seq(WireRecord)]
  /\ \A k \in 1 .. Len(w["client"]) :
       w["client"][k].kind = "data" => Spoken(w["client"][k].from)

\* and so does the data its objects have read.
HeardFrom ==
  \A e \in End : \A i \in 1 .. Len(ssl[e]) :
    ssl[e][i].got > 0 =>
      /\ ssl[e][i].state # "handshake"
      /\ e = "client" => Spoken(ssl[e][i].peer)

IInv == TypeOK /\ CallbackTaken /\ Authenticated /\ WireSpoken(wire) /\ HeardFrom

------------------------------------------------------------------------------
\* Under the callback of rats-rs OpenSSL passes no certificate but one with evidence
\* that passes, within its time.
LEMMA RatsVerdict ==
  ASSUME NEW c \in {"attested", "expired", "selfsigned"},
         X509VerifyCert(c, "rats").res
  PROVE  c = "attested"
<1> DEFINE Passes(err) == "rats" = "rats" /\ VerifyCertificateDefault(FALSE, err, c)
           bad == {i \in 1 .. Len(Errors(c)) : ~Passes(Errors(c)[i])}
           first == CHOOSE i \in bad : \A j \in bad : i <= j
           passed == VerifyCertificateDefault(TRUE, "ok", c)
<1> DEFINE res == "rats" # "rats" \/ passed
           err == IF Errors(c) = <<>> THEN "ok" ELSE Errors(c)[Len(Errors(c))]
<1>1. X509VerifyCert(c, "rats") =
        IF bad # {} THEN [res |-> FALSE, err |-> Errors(c)[first]]
        ELSE [res |-> res, err |-> err]
  BY DEF X509VerifyCert
<1>2. bad = {} /\ passed
  <2>1. res => passed
    OBVIOUS
  <2>2. bad # {} => X509VerifyCert(c, "rats").res = FALSE
    <3> HIDE DEF bad, first, res, err
    <3> QED
      BY <1>1
  <2>3. bad = {} => X509VerifyCert(c, "rats").res = res
    <3> HIDE DEF bad, first, res, err
    <3> QED
      BY <1>1
  <2> HIDE DEF bad, passed, res
  <2> QED
    BY <2>1, <2>2, <2>3
<1>3. c \in {"attested", "expired"}
  BY <1>2 DEF VerifyCertificateDefault, CertVerifierPasses
<1>4. c = "expired" => 2 \in bad
  BY DEF Errors, VerifyCertificateDefault
<1> QED
  BY <1>2, <1>3, <1>4

\* An SSL object of an end is replaced by another one.
LEMMA ObjectReplaced ==
  ASSUME ssl \in [End -> Seq(SslObject)], NEW e \in End, NEW i \in 1 .. Len(ssl[e]),
         NEW o \in SslObject, ssl' = [ssl EXCEPT ![e] = [@ EXCEPT ![i] = o]]
  PROVE  /\ ssl' \in [End -> Seq(SslObject)]
         /\ \A d \in End : Len(ssl'[d]) = Len(ssl[d])
         /\ \A d \in End : d # e => ssl'[d] = ssl[d]
         /\ \A j \in 1 .. Len(ssl[e]) : ssl'[e][j] = IF j = i THEN o ELSE ssl[e][j]
<1> DEFINE s == [ssl[e] EXCEPT ![i] = o]
<1>1. ssl[e] \in Seq(SslObject)
  OBVIOUS
<1>2. /\ s \in Seq(SslObject) /\ Len(s) = Len(ssl[e])
      /\ \A j \in 1 .. Len(ssl[e]) : s[j] = IF j = i THEN o ELSE ssl[e][j]
  BY <1>1, ExceptSeq
<1>3. ssl' = [ssl EXCEPT ![e] = s]
  OBVIOUS
<1> HIDE DEF s
<1>4. ssl'[e] = s /\ \A d \in End : d # e => ssl'[d] = ssl[d]
  BY <1>3
<1>5. ssl' \in [End -> Seq(SslObject)]
  BY <1>2, <1>3
<1> QED
  BY <1>2, <1>4, <1>5

\* Nothing that a server's object has said is taken back.
LEMMA SpokenStays ==
  ASSUME UNCHANGED opts,
         Len(ssl["server"]) \in Nat, Len(ssl["server"]') \in Nat,
         Len(ssl["server"]) <= Len(ssl["server"]'),
         \A j \in 1 .. Len(ssl["server"]) :
           ssl["server"][j].state # "handshake" =>
             /\ ssl'["server"][j].state # "handshake"
             /\ ssl'["server"][j].attested = ssl["server"][j].attested,
         NEW j, Spoken(j)
  PROVE  Spoken(j)'
<1>1. AsksForEvidence("server")' = AsksForEvidence("server")
  BY DEF AsksForEvidence
<1>2. j \in 1 .. Len(ssl["server"])'
  BY DEF Spoken
<1> QED
  BY <1>1, <1>2 DEF Spoken

------------------------------------------------------------------------------
(* The wire.                                                               *)

\* A record that may be put on the wire by an end.
MayPut(e, r) ==
  /\ r \in WireRecord
  /\ e = "server" /\ r.kind = "data" => Spoken(r.from)

LEMMA AppendSpoken ==
  ASSUME NEW s \in Seq(WireRecord), NEW r \in WireRecord
  PROVE  /\ Append(s, r) \in Seq(WireRecord)
         /\ \A k \in 1 .. Len(Append(s, r)) :
              \/ k \in 1 .. Len(s) /\ Append(s, r)[k] = s[k]
              \/ Append(s, r)[k] = r
<1> DEFINE S == WireRecord
<1>1. s \in Seq(S) /\ r \in S
  OBVIOUS
<1> HIDE DEF S
<1>2. Append(s, r) \in Seq(S) /\ Len(Append(s, r)) = Len(s) + 1 /\ Len(s) \in Nat
  BY <1>1, AppendProperties, LenProperties
<1>3. \A k \in 1 .. Len(s) + 1 : Append(s, r)[k] = IF k = Len(s) + 1 THEN r ELSE s[k]
  BY <1>1, <1>2
<1> QED
  BY <1>2, <1>3 DEF S

LEMMA TailSpoken ==
  ASSUME NEW s \in Seq(WireRecord), s # <<>>
  PROVE  /\ Head(s) = s[1] /\ Head(s) \in WireRecord /\ 1 \in 1 .. Len(s)
         /\ Tail(s) \in Seq(WireRecord)
         /\ \A k \in 1 .. Len(Tail(s)) : k + 1 \in 1 .. Len(s) /\ Tail(s)[k] = s[k + 1]
<1> DEFINE S == WireRecord
<1>1. s \in Seq(S)
  OBVIOUS
<1> HIDE DEF S
<1>2. Len(s) \in Nat \ {0}
  BY <1>1, EmptySeq
<1>3. Tail(s) \in Seq(S) /\ Len(Tail(s)) = Len(s) - 1
  BY <1>1, <1>2
<1>4. \A k \in 1 .. Len(s) - 1 : Tail(s)[k] = s[k + 1]
  BY <1>1, <1>2
<1>5. Head(s) = s[1] /\ s[1] \in S
  BY <1>1, <1>2, ElementOfSeq
<1> QED
  BY <1>2, <1>3, <1>4, <1>5 DEF S

\* What the four ways to change the wire leave on it.
LEMMA PutSpoken ==
  ASSUME WireSpoken(wire), NEW e \in End, NEW r, MayPut(e, r), Put(e, r)
  PROVE  WireSpoken(wire')
<1> DEFINE o == Other(e)
           new == IF stage[o] = "gone" THEN wire[o] ELSE Append(wire[o], r)
<1>1. o \in End /\ (o = "client" <=> e = "server") /\ "client" \in End
  BY DEF Other, End
<1>2. wire' = [wire EXCEPT ![o] = new]
  BY DEF Put
<1>3. /\ new \in Seq(WireRecord)
      /\ \A k \in 1 .. Len(new) :
           (k \in 1 .. Len(wire[o]) /\ new[k] = wire[o][k]) \/ new[k] = r
  BY <1>1, AppendSpoken DEF WireSpoken, MayPut
<1>4. wire' \in [End -> Seq(WireRecord)]
  <2> HIDE DEF new, o
  <2> QED
    BY <1>1, <1>2, <1>3 DEF WireSpoken
<1>5. ASSUME NEW k \in 1 .. Len(wire'["client"]), wire'["client"][k].kind = "data"
      PROVE  Spoken(wire'["client"][k].from)
  <2> HIDE DEF new, o
  <2>1. CASE o = "client"
    <3>1. wire'["client"] = new
      BY <1>1, <1>2, <2>1 DEF WireSpoken
    <3> QED
      BY <1>1, <1>3, <1>5, <2>1, <3>1 DEF WireSpoken, MayPut
  <2>2. CASE o # "client"
    <3>1. wire'["client"] = wire["client"]
      BY <1>1, <1>2, <2>2 DEF WireSpoken
    <3> QED
      BY <1>5, <3>1 DEF WireSpoken
  <2> QED
    BY <2>1, <2>2
<1> QED
  BY <1>4, <1>5 DEF WireSpoken

LEMMA TakeSpoken ==
  ASSUME WireSpoken(wire), NEW e \in End, Arrived(e), Take(e)
  PROVE  WireSpoken(wire')
<1> DEFINE new == Tail(wire[e])
<1>1. wire' = [wire EXCEPT ![e] = new]
  BY DEF Take
<1>2. /\ new \in Seq(WireRecord)
      /\ \A k \in 1 .. Len(new) : k + 1 \in 1 .. Len(wire[e]) /\ new[k] = wire[e][k + 1]
  BY TailSpoken DEF WireSpoken, Arrived
<1> HIDE DEF new
<1>3. wire' \in [End -> Seq(WireRecord)]
  BY <1>1, <1>2 DEF WireSpoken
<1>4. ASSUME NEW k \in 1 .. Len(wire'["client"]), wire'["client"][k].kind = "data"
      PROVE  Spoken(wire'["client"][k].from)
  <2>1. CASE e = "client"
    <3>1. wire'["client"] = new
      BY <1>1, <2>1 DEF WireSpoken
    <3> QED
      BY <1>2, <1>4, <2>1, <3>1 DEF WireSpoken
  <2>2. CASE e # "client"
    <3>1. wire'["client"] = wire["client"]
      BY <1>1, <2>2 DEF WireSpoken, End
    <3> QED
      BY <1>4, <3>1 DEF WireSpoken
  <2> QED
    BY <2>1, <2>2
<1> QED
  BY <1>3, <1>4 DEF WireSpoken

LEMMA ReplySpoken ==
  ASSUME WireSpoken(wire), NEW e \in End, Arrived(e), NEW r, MayPut(e, r), Reply(e, r)
  PROVE  WireSpoken(wire')
<1> DEFINE o == Other(e)
           rest == Tail(wire[e])
           new == IF stage[o] = "gone" THEN wire[o] ELSE Append(wire[o], r)
<1>1. o \in End /\ o # e /\ (o = "client" <=> e = "server") /\ (e = "client" <=> o = "server")
  BY DEF Other, End
<1>2. wire' = [wire EXCEPT ![e] = rest, ![o] = new]
  BY <1>1 DEF Reply
<1>3. /\ new \in Seq(WireRecord)
      /\ \A k \in 1 .. Len(new) :
           (k \in 1 .. Len(wire[o]) /\ new[k] = wire[o][k]) \/ new[k] = r
  BY <1>1, AppendSpoken DEF WireSpoken, MayPut
<1>4. /\ rest \in Seq(WireRecord)
      /\ \A k \in 1 .. Len(rest) : k + 1 \in 1 .. Len(wire[e]) /\ rest[k] = wire[e][k + 1]
  BY TailSpoken DEF WireSpoken, Arrived
<1> HIDE DEF new, rest, o
<1>5. /\ wire' \in [End -> Seq(WireRecord)]
      /\ wire'[e] = rest /\ wire'[o] = new
  BY <1>1, <1>2, <1>3, <1>4 DEF WireSpoken
<1>6. ASSUME NEW k \in 1 .. Len(wire'["client"]), wire'["client"][k].kind = "data"
      PROVE  Spoken(wire'["client"][k].from)
  <2>1. CASE e = "client"
    BY <1>4, <1>5, <1>6, <2>1 DEF WireSpoken
  <2>2. CASE e = "server"
    BY <1>1, <1>3, <1>5, <1>6, <2>2 DEF WireSpoken, MayPut
  <2> QED
    BY <2>1, <2>2 DEF End
<1> QED
  BY <1>5, <1>6 DEF WireSpoken

LEMMA GoneSpoken ==
  ASSUME WireSpoken(wire), tcp \in [End -> {"up", "eof", "reset"}], NEW e \in End, Gone(e)
  PROVE  WireSpoken(wire') /\ tcp' \in [End -> {"up", "eof", "reset"}]
<1> DEFINE o == Other(e)
<1>1. o \in End /\ o # e
  BY DEF Other, End
<1>2. CASE Arrived(e)
  <2>1. PICK left \in {wire[o], <<>>} : wire' = [wire EXCEPT ![o] = left, ![e] = <<>>]
    BY <1>2 DEF Gone
  <2>2. tcp' = [tcp EXCEPT ![o] = "reset"]
    BY <1>2 DEF Gone
  <2>3. <<>> \in Seq(WireRecord) /\ left \in Seq(WireRecord) /\ Len(<<>>) = 0
    BY <1>1, EmptySeq DEF WireSpoken
  <2> HIDE DEF o
  <2>4. /\ wire' \in [End -> Seq(WireRecord)]
        /\ \A d \in End : wire'[d] \in {wire[d], <<>>}
    BY <1>1, <2>1, <2>3 DEF WireSpoken
  <2>5. tcp' \in [End -> {"up", "eof", "reset"}]
    BY <1>1, <2>2
  <2>6. "client" \in End
    BY DEF End
  <2>7. ASSUME NEW k \in 1 .. Len(wire'["client"]), wire'["client"][k].kind = "data"
        PROVE  Spoken(wire'["client"][k].from)
    <3>1. wire'["client"] = wire["client"] \/ wire'["client"] = <<>>
      BY <2>4, <2>6
    <3> QED
      BY <2>3, <2>7, <3>1 DEF WireSpoken
  <2> QED
    BY <2>4, <2>5, <2>7 DEF WireSpoken
<1>3. CASE ~Arrived(e)
  BY <1>1, <1>3 DEF Gone
<1> QED
  BY <1>2, <1>3

------------------------------------------------------------------------------
(* The steps.                                                              *)

LEMMA InitIInv == Init => IInv
<1> SUFFICES ASSUME Init PROVE IInv
  OBVIOUS
<1>1. \A S : <<>> \in Seq(S) /\ Len(<<>>) = 0
  BY EmptySeq
<1>2. TypeOK
  BY <1>1, TlsAssumption DEF Init, TypeOK, Certificate, Session, Cur
<1>3. CallbackTaken /\ HeardFrom
  BY <1>1 DEF Init, CallbackTaken, HeardFrom
<1>4. Authenticated
  BY DEF Init, Authenticated
<1>5. WireSpoken(wire)
  BY <1>1 DEF Init, WireSpoken, End
<1> QED
  BY <1>2, <1>3, <1>4, <1>5 DEF IInv

\* A step that changes one SSL object, and with it the session, the call, the wire or
\* what is known of the connection.
ObjectChange(e, i, o) ==
  /\ i \in 1 .. Len(ssl[e]) /\ o \in SslObject
  /\ ssl' = [ssl EXCEPT ![e] = [@ EXCEPT ![i] = o]]
  /\ UNCHANGED <<opts, stage, cert, ctxVerify>> /\ tcp' \in [End -> {"up", "eof", "reset"}]
  /\ o.verify = ssl[e][i].verify
  /\ ssl[e][i].state # "handshake" =>
       o.state # "handshake" /\ o.attested = ssl[e][i].attested
  /\ o.got > 0 => o.state # "handshake" /\ (e = "client" => Spoken(o.peer))
  /\ \/ UNCHANGED session
     \/ /\ session' = [session EXCEPT ![e] = i]
        /\ o.state # "handshake" /\ (AsksForEvidence(e) => o.attested)
  /\ \/ call' = [call EXCEPT ![e] = "-"]
     \/ UNCHANGED call /\ (call[e] = "negotiate" => o.state = "handshake")
  /\ WireSpoken(wire')

LEMMA ObjectStep ==
  ASSUME IInv, NEW e \in End, NEW i, NEW o, ObjectChange(e, i, o)
  PROVE  IInv'
<1> USE DEF ObjectChange
<1>1. /\ ssl' \in [End -> Seq(SslObject)]
      /\ \A d \in End : Len(ssl'[d]) = Len(ssl[d])
      /\ \A d \in End : d # e => ssl'[d] = ssl[d]
      /\ \A j \in 1 .. Len(ssl[e]) : ssl'[e][j] = IF j = i THEN o ELSE ssl[e][j]
  BY ObjectReplaced DEF IInv, TypeOK
<1>2. /\ \A d \in End : Len(ssl[d]) \in Nat /\ Len(ssl[d]) <= MaxSsl
      /\ session \in [End -> 0 .. MaxSsl] /\ MaxSsl \in Nat
      /\ \A d \in End : session[d] # 0 =>
           session[d] \in 1 .. Len(ssl[d]) /\ ssl[d][session[d]].state # "handshake"
  BY TlsAssumption, LenProperties DEF IInv, TypeOK, Session
<1>3. \A d \in End : AsksForEvidence(d)' = AsksForEvidence(d)
  BY DEF AsksForEvidence
<1>4. session' \in [End -> 0 .. MaxSsl]
  <2>1. i \in 0 .. MaxSsl
    BY <1>2
  <2> QED
    BY <1>2, <2>1
<1>5. \A d \in End : session'[d] # 0 =>
        session'[d] \in 1 .. Len(ssl[d]) /\ ssl'[d][session'[d]].state # "handshake"
  BY <1>1, <1>2
<1>6. ASSUME NEW d \in End
      PROVE  /\ call'[d] = "negotiate" =>
                 Len(ssl'[d]) # 0 /\ ssl'[d][Len(ssl'[d])].state = "handshake"
             /\ call'[d] = "receive" => session'[d] # 0
  <2>1. /\ call[d] = "negotiate" =>
            Len(ssl[d]) # 0 /\ ssl[d][Len(ssl[d])].state = "handshake"
        /\ call[d] = "receive" => session[d] # 0
        /\ call \in [End -> {"-", "negotiate", "receive"}]
    BY DEF IInv, TypeOK, Cur
  <2>2. call'[d] # "-" => call'[d] = call[d] /\ (d = e => UNCHANGED call)
    BY <2>1
  <2>3. session[d] # 0 => session'[d] # 0
    BY <1>2
  <2>4. CASE d = e
    BY <1>1, <1>2, <2>1, <2>2, <2>3, <2>4
  <2>5. CASE d # e
    BY <1>1, <1>2, <2>1, <2>2, <2>3, <2>5
  <2> QED
    BY <2>4, <2>5
<1>7. TypeOK'
  <2>1. call' \in [End -> {"-", "negotiate", "receive"}]
    BY DEF IInv, TypeOK
  <2>2. wire' \in [End -> Seq(WireRecord)]
    BY DEF WireSpoken
  <2>3. /\ opts' \in [attest : BOOLEAN, verifyPeer : BOOLEAN, own : Own]
        /\ stage' \in [End -> {"new", "built", "gone"}]
        /\ cert' \in [End -> Certificate]
        /\ ctxVerify' \in [End -> {"none", "rats", "own"}]
        /\ tcp' \in [End -> {"up", "eof", "reset"}]
    BY DEF IInv, TypeOK
  <2>4. \A d \in End : session'[d] # 0 => session'[d] <= Len(ssl'[d])
    BY <1>1, <1>2, <1>5
  <2> QED
    BY <1>1, <1>2, <1>4, <1>5, <1>6, <2>1, <2>2, <2>3, <2>4 DEF TypeOK, Session, Cur
<1>8. CallbackTaken'
  BY <1>1, <1>3 DEF IInv, CallbackTaken
<1>9. Authenticated'
  <2> SUFFICES ASSUME NEW d \in End, AsksForEvidence(d), session'[d] # 0
               PROVE  ssl'[d][session'[d]].attested
    BY <1>3 DEF Authenticated, Session
  <2>1. session[d] # 0 => ssl[d][session[d]].attested
    BY DEF IInv, Authenticated, Session
  <2>2. CASE UNCHANGED session
    BY <1>1, <1>2, <2>1, <2>2
  <2>3. CASE /\ session' = [session EXCEPT ![e] = i]
             /\ AsksForEvidence(e) => o.attested
    BY <1>1, <1>2, <2>1, <2>3
  <2> QED
    BY <2>2, <2>3
<1>10. \A j : Spoken(j) => Spoken(j)'
  <2>1. "server" \in End
    BY DEF End
  <2>2. Len(ssl["server"]') = Len(ssl["server"]) /\ Len(ssl["server"]) \in Nat
    BY <1>1, <1>2, <2>1
  <2>3. \A j \in 1 .. Len(ssl["server"]) :
          ssl["server"][j].state # "handshake" =>
             /\ ssl'["server"][j].state # "handshake"
             /\ ssl'["server"][j].attested = ssl["server"][j].attested
    BY <1>1, <2>1
  <2> QED
    BY <2>2, <2>3, SpokenStays
<1>11. WireSpoken(wire)'
  BY <1>10 DEF WireSpoken
<1>12. HeardFrom'
  BY <1>1, <1>10 DEF IInv, HeardFrom
<1> QED
  BY <1>7, <1>8, <1>9, <1>11, <1>12 DEF IInv

LEMMA TcpTyped ==
  ASSUME IInv, NEW e \in End, UNCHANGED tcp \/ ErrorTaken(e)
  PROVE  tcp' \in [End -> {"up", "eof", "reset"}]
BY DEF IInv, TypeOK, ErrorTaken

\* The callback that a call of negotiate() sets.
LEMMA SetVerifyFacts ==
  ASSUME IInv, NEW e \in End, SetVerify(e), UNCHANGED opts
  PROVE  /\ ctxVerify' \in [End -> {"none", "rats", "own"}]
         /\ AsksForEvidence(e) => ctxVerify'[e] = "rats"
<1>1. Verifier(e) \in {"none", "rats", "own"}
  BY DEF Verifier
<1>2. AsksForEvidence(e) => Verifier(e) = "rats"
  BY DEF Verifier, AsksForEvidence, End
<1>3. ctxVerify \in [End -> {"none", "rats", "own"}]
  BY DEF IInv, TypeOK
<1> QED
  BY <1>1, <1>2, <1>3 DEF SetVerify

\* A step that leaves the SSL objects, the sessions and the options alone.
LEMMA OtherStep ==
  ASSUME IInv, UNCHANGED <<opts, ssl, session>>,
         stage' \in [End -> {"new", "built", "gone"}], cert' \in [End -> Certificate],
         ctxVerify' \in [End -> {"none", "rats", "own"}],
         call' \in [End -> {"-", "negotiate", "receive"}],
         \A d \in End : \/ call'[d] \in {"-", call[d]}
                        \/ call'[d] = "receive" /\ session[d] # 0,
         WireSpoken(wire'), tcp' \in [End -> {"up", "eof", "reset"}]
  PROVE  IInv'
<1>1. TypeOK'
  <2>1. \A d \in End :
          /\ call'[d] = "negotiate" => Cur(d) # 0 /\ ssl[d][Cur(d)].state = "handshake"
          /\ call'[d] = "receive" => session[d] # 0
    BY DEF IInv, TypeOK
  <2>2. wire' \in [End -> Seq(WireRecord)]
    BY DEF WireSpoken
  <2> QED
    BY <2>1, <2>2 DEF IInv, TypeOK, Session, Cur
<1>2. CallbackTaken' /\ Authenticated'
  BY DEF IInv, CallbackTaken, Authenticated, AsksForEvidence, Session
<1>3. \A j : Spoken(j) <=> Spoken(j)'
  BY DEF Spoken, AsksForEvidence
<1>4. WireSpoken(wire)' /\ HeardFrom'
  BY <1>3 DEF IInv, WireSpoken, HeardFrom
<1> QED
  BY <1>1, <1>2, <1>4 DEF IInv

LEMMA OwnerStep ==
  ASSUME IInv, NEW e \in End, Build(e) \/ BuildFails(e) \/ DropEnd(e) \/ Expire(e)
  PROVE  IInv'
<1> USE DEF IInv, TypeOK
<1>1. CASE Build(e)
  <2>1. cert' \in [End -> Certificate]
    BY <1>1 DEF Build, UseKeyAndCert, Certificate
  <2> QED
    BY <1>1, <2>1, OtherStep DEF Build
<1>2. CASE BuildFails(e)
  BY <1>2, GoneSpoken, OtherStep DEF BuildFails, Gone, Idle
<1>3. CASE DropEnd(e)
  BY <1>3, GoneSpoken, OtherStep DEF DropEnd, Gone, Idle
<1>4. CASE Expire(e)
  <2>1. cert' \in [End -> Certificate]
    BY <1>4 DEF Expire, Certificate
  <2> QED
    BY <1>4, <2>1, OtherStep DEF Expire
<1> QED
  BY <1>1, <1>2, <1>3, <1>4

LEMMA NegotiateFailsStep ==
  ASSUME IInv, NEW e \in End, NegotiateFails(e)
  PROVE  IInv'
BY SetVerifyFacts, OtherStep DEF NegotiateFails, IInv, TypeOK

LEMMA ReceiveStep ==
  ASSUME IInv, NEW e \in End, Receive(e)
  PROVE  IInv'
BY OtherStep DEF Receive, HasSession, IInv, TypeOK

LEMMA NegotiateStep ==
  ASSUME IInv, NEW e \in End, Negotiate(e)
  PROVE  IInv'
<1> DEFINE o == NewSsl(ctxVerify'[e])
           n == Len(ssl[e])
<1>1. /\ ctxVerify' \in [End -> {"none", "rats", "own"}]
      /\ AsksForEvidence(e) => ctxVerify'[e] = "rats"
  BY SetVerifyFacts DEF Negotiate
<1>2. o \in SslObject
  BY <1>1, TlsAssumption DEF NewSsl, SslObject
<1>3. ssl' = [ssl EXCEPT ![e] = Append(ssl[e], o)]
  BY DEF Negotiate, SslNew
<1>4. ssl[e] \in Seq(SslObject)
  BY DEF IInv, TypeOK
<1>5. /\ Append(ssl[e], o) \in Seq(SslObject) /\ Len(Append(ssl[e], o)) = n + 1 /\ n \in Nat
      /\ Append(ssl[e], o)[n + 1] = o
      /\ \A j \in 1 .. n : Append(ssl[e], o)[j] = ssl[e][j]
  <2> DEFINE S == SslObject
  <2>1. ssl[e] \in Seq(S) /\ o \in S
    BY <1>2, <1>4
  <2> HIDE DEF S, o
  <2>2. Append(ssl[e], o) \in Seq(S) /\ Len(Append(ssl[e], o)) = n + 1 /\ n \in Nat
    BY <2>1, AppendProperties, LenProperties
  <2>3. \A j \in 1 .. n + 1 : Append(ssl[e], o)[j] = IF j = n + 1 THEN o ELSE ssl[e][j]
    BY <2>1, <2>2
  <2> QED
    BY <2>2, <2>3 DEF S
<1>6. /\ o.verify = ctxVerify'[e] /\ o.state = "handshake" /\ o.got = 0
      /\ n < MaxSsl /\ MaxSsl \in Nat /\ call[e] = "-"
      /\ call' = [call EXCEPT ![e] = "negotiate"]
      /\ UNCHANGED <<opts, stage, cert, session, tcp>>
  BY TlsAssumption DEF NewSsl, Negotiate, Cur, CallsFrom
<1> HIDE DEF o, n
<1>7. /\ ssl' \in [End -> Seq(SslObject)]
      /\ Len(ssl'[e]) = n + 1 /\ ssl'[e][n + 1] = o
      /\ \A j \in 1 .. n : ssl'[e][j] = ssl[e][j]
      /\ \A d \in End : d # e => ssl'[d] = ssl[d]
  BY <1>3, <1>5 DEF IInv, TypeOK
<1>17. /\ \A d \in End : Len(ssl[d]) \in Nat /\ Len(ssl[d]) <= MaxSsl
       /\ \A d \in End : Len(ssl'[d]) = IF d = e THEN n + 1 ELSE Len(ssl[d])
       /\ n = Len(ssl[e])
  BY <1>7, LenProperties DEF n, IInv, TypeOK
<1>18. \A d \in End : \A j \in 1 .. Len(ssl'[d]) :
         \/ j \in 1 .. Len(ssl[d]) /\ ssl'[d][j] = ssl[d][j]
         \/ d = e /\ ssl'[d][j] = o
  <2> TAKE d \in End
  <2> TAKE j \in 1 .. Len(ssl'[d])
  <2>1. CASE d = e
    <3>1. j \in 1 .. n \/ j = n + 1
      BY <1>17, <2>1
    <3> QED
      BY <1>7, <1>17, <2>1, <3>1
  <2>2. CASE d # e
    BY <1>7, <2>2
  <2> QED
    BY <2>1, <2>2
<1>8. \A d \in End : AsksForEvidence(d)' = AsksForEvidence(d)
  BY <1>6 DEF AsksForEvidence
<1>9. \A d \in End : session[d] # 0 =>
        session[d] \in 1 .. Len(ssl[d]) /\ ssl'[d][session[d]] = ssl[d][session[d]]
  <2>1. \A d \in End : session[d] \in Nat /\ Len(ssl[d]) \in Nat
                       /\ (session[d] # 0 => session[d] <= Len(ssl[d]))
    BY TlsAssumption, LenProperties DEF IInv, TypeOK
  <2> QED
    BY <1>7, <2>1 DEF n
<1>10. WireSpoken(wire')
  <2>1. CASE e = "client"
    <3>1. MayPut(e, Record("hello", n + 1, 0, 0))
      BY <1>5, <1>6, <2>1, TlsAssumption DEF MayPut, Record, WireRecord
    <3> QED
      BY <2>1, <3>1, PutSpoken DEF Negotiate, Cur, IInv, n
  <2>2. CASE e # "client"
    BY <2>2 DEF Negotiate, IInv
  <2> QED
    BY <2>1, <2>2
<1>11. TypeOK'
  <2>1. /\ wire' \in [End -> Seq(WireRecord)]
        /\ call' \in [End -> {"-", "negotiate", "receive"}]
    BY <1>6, <1>10 DEF WireSpoken, IInv, TypeOK
  <2>2. \A d \in End : Len(ssl'[d]) <= MaxSsl
    BY <1>6, <1>17
  <2>3. /\ session' \in [End -> 0 .. MaxSsl]
        /\ \A d \in End : session'[d] # 0 =>
             session'[d] <= Len(ssl'[d]) /\ ssl'[d][session'[d]].state # "handshake"
    <3>1. \A d \in End : session[d] # 0 =>
            session[d] <= Len(ssl[d]) /\ ssl[d][session[d]].state # "handshake"
      BY DEF IInv, TypeOK, Session
    <3>2. \A d \in End : Len(ssl[d]) \in Nat /\ Len(ssl'[d]) \in Nat
                         /\ Len(ssl[d]) <= Len(ssl'[d])
      BY <1>17
    <3>3. session' \in [End -> 0 .. MaxSsl]
      BY <1>6 DEF IInv, TypeOK
    <3>4. ASSUME NEW d \in End, session'[d] # 0
          PROVE  session'[d] <= Len(ssl'[d]) /\ ssl'[d][session'[d]].state # "handshake"
      <4>1. session'[d] = session[d]
        BY <1>6
      <4>2. session[d] \in Nat
        BY <1>6 DEF IInv, TypeOK
      <4> QED
        BY <1>9, <3>1, <3>2, <3>4, <4>1, <4>2
    <3> QED
      BY <3>3, <3>4
  <2>4. ASSUME NEW d \in End
        PROVE  /\ call'[d] = "negotiate" =>
                   Len(ssl'[d]) # 0 /\ ssl'[d][Len(ssl'[d])].state = "handshake"
               /\ call'[d] = "receive" => session'[d] # 0
    <3>1. CASE d = e
      BY <1>5, <1>6, <1>7, <3>1 DEF IInv, TypeOK
    <3>2. CASE d # e
      BY <1>6, <1>7, <3>2 DEF IInv, TypeOK, Cur
    <3> QED
      BY <3>1, <3>2
  <2> QED
    BY <1>1, <1>6, <1>7, <2>1, <2>2, <2>3, <2>4 DEF IInv, TypeOK, Session, Cur
<1>12. CallbackTaken'
  <2> SUFFICES ASSUME NEW d \in End, AsksForEvidence(d), NEW j \in 1 .. Len(ssl'[d])
               PROVE  ssl'[d][j].verify = "rats"
    BY <1>8 DEF CallbackTaken
  <2> QED
    BY <1>1, <1>6, <1>18 DEF IInv, CallbackTaken
<1>13. Authenticated'
  BY <1>6, <1>8, <1>9 DEF IInv, Authenticated, Session
<1>14. \A j : Spoken(j) => Spoken(j)'
  <2>1. Len(ssl["server"]) <= Len(ssl'["server"]) /\ Len(ssl["server"]) \in Nat
        /\ Len(ssl'["server"]) \in Nat
    BY <1>17 DEF End
  <2>2. \A j \in 1 .. Len(ssl["server"]) : ssl'["server"][j] = ssl["server"][j]
    BY <1>7 DEF n, End
  <2> QED
    BY <1>6, <2>1, <2>2, SpokenStays
<1>15. WireSpoken(wire)'
  BY <1>10, <1>14 DEF WireSpoken
<1>16. HeardFrom'
  <2>1. \A d \in End : \A j \in 1 .. Len(ssl'[d]) :
          ssl'[d][j].got > 0 => j \in 1 .. Len(ssl[d]) /\ ssl'[d][j] = ssl[d][j]
    BY <1>6, <1>18
  <2> QED
    BY <1>14, <2>1 DEF IInv, HeardFrom
<1> QED
  BY <1>11, <1>12, <1>13, <1>15, <1>16 DEF IInv

\* What the invariant says of the object a handshake works on, of the object of the
\* session and of the first record on the wire.
LEMMA HandshakeFacts ==
  ASSUME IInv, NEW e \in End, call[e] = "negotiate"
  PROVE  /\ Cur(e) \in 1 .. Len(ssl[e]) /\ Cur(e) \in 0 .. MaxSsl
         /\ ssl[e][Cur(e)] \in SslObject
         /\ ssl[e][Cur(e)].state = "handshake" /\ ssl[e][Cur(e)].got = 0
<1>1. Cur(e) # 0 /\ Cur(e) <= MaxSsl /\ ssl[e][Cur(e)].state = "handshake"
  BY DEF IInv, TypeOK, Cur
<1>2. ssl[e] \in Seq(SslObject)
  BY DEF IInv, TypeOK
<1>3. Len(ssl[e]) \in Nat
  BY <1>2, LenProperties
<1>4. Cur(e) \in 1 .. Len(ssl[e]) /\ Cur(e) \in 0 .. MaxSsl
  BY <1>1, <1>3, TlsAssumption DEF Cur
<1>5. ssl[e][Cur(e)] \in SslObject
  BY <1>2, <1>4, ElementOfSeq
<1>6. ssl[e][Cur(e)].got > 0 => ssl[e][Cur(e)].state # "handshake"
  BY <1>4 DEF IInv, HeardFrom
<1>7. ssl[e][Cur(e)].got \in Nat
  BY <1>5, TlsAssumption DEF SslObject
<1> QED
  BY <1>1, <1>4, <1>5, <1>6, <1>7

LEMMA SessionFacts ==
  ASSUME IInv, NEW e \in End, session[e] # 0
  PROVE  /\ session[e] \in 1 .. Len(ssl[e]) /\ session[e] \in 0 .. MaxSsl
         /\ Session(e) \in SslObject
         /\ Session(e).state # "handshake"
         /\ AsksForEvidence(e) => Session(e).attested
<1>1. ssl[e] \in Seq(SslObject) /\ session[e] \in 0 .. MaxSsl /\ session[e] <= Len(ssl[e])
      /\ Session(e).state # "handshake"
  BY DEF IInv, TypeOK
<1>2. session[e] \in 1 .. Len(ssl[e])
  BY <1>1, LenProperties, TlsAssumption
<1>3. Session(e) \in SslObject
  BY <1>1, <1>2, ElementOfSeq DEF Session
<1> QED
  BY <1>1, <1>2, <1>3 DEF IInv, Authenticated

LEMMA Head1Facts ==
  ASSUME IInv, NEW e \in End, Arrived(e)
  PROVE  /\ Head1(e) \in WireRecord
         /\ Head1(e).from \in 0 .. MaxSsl
         /\ Head1(e).kind = "data" => Head1(e).n <= MaxSends
         /\ e = "client" /\ Head1(e).kind = "data" => Spoken(Head1(e).from)
<1>1. Head1(e) = wire[e][1] /\ Head1(e) \in WireRecord /\ 1 \in 1 .. Len(wire[e])
  BY TailSpoken DEF IInv, WireSpoken, Head1, Arrived
<1> QED
  BY <1>1 DEF IInv, WireSpoken, WireRecord

\* Records that say nothing of what a server has accepted.
LEMMA RecordFacts ==
  ASSUME NEW e \in End, NEW k \in {"hello", "flight", "finish", "ticket", "close", "alert"},
         NEW from \in 0 .. MaxSsl, NEW to \in 0 .. MaxSsl, NEW n \in 0 .. MaxSends + 1
  PROVE  MayPut(e, Record(k, from, to, n))
BY DEF MayPut, Record, WireRecord

LEMMA AnswerHelloStep ==
  ASSUME IInv, NEW e \in End, AnswerHello(e)
  PROVE  IInv'
<1> DEFINE i == Cur(e)
           o == [ssl[e][i] EXCEPT !.peer = Head1(e).from]
<1>1. call[e] = "negotiate" /\ Arrived(e)
  BY DEF AnswerHello
<1>2. /\ i \in 1 .. Len(ssl[e]) /\ i \in 0 .. MaxSsl /\ ssl[e][i] \in SslObject
      /\ ssl[e][i].state = "handshake" /\ ssl[e][i].got = 0
      /\ Head1(e).from \in 0 .. MaxSsl
  BY <1>1, HandshakeFacts, Head1Facts
<1>3. o \in SslObject /\ o.verify = ssl[e][i].verify /\ o.state = "handshake" /\ o.got = 0
  BY <1>2 DEF SslObject
<1>4. ssl' = [ssl EXCEPT ![e] = [@ EXCEPT ![i] = o]]
  BY DEF AnswerHello
<1>5. WireSpoken(wire')
  <2>1. MayPut(e, Record("flight", i, Head1(e).from, 0))
    BY <1>2, RecordFacts, TlsAssumption
  <2> QED
    BY <1>1, <2>1, ReplySpoken DEF AnswerHello, IInv
<1>6. UNCHANGED <<opts, stage, cert, ctxVerify, session, call, tcp>>
  BY DEF AnswerHello
<1>7. /\ ssl[e][i].state # "handshake" =>
            o.state # "handshake" /\ o.attested = ssl[e][i].attested
      /\ o.got > 0 => o.state # "handshake" /\ (e = "client" => Spoken(o.peer))
  BY <1>2, <1>3
<1>8. /\ \/ UNCHANGED session
         \/ /\ session' = [session EXCEPT ![e] = i]
            /\ o.state # "handshake" /\ (AsksForEvidence(e) => o.attested)
      /\ \/ call' = [call EXCEPT ![e] = "-"]
         \/ UNCHANGED call /\ (call[e] = "negotiate" => o.state = "handshake")
  BY <1>3, <1>6
<1> HIDE DEF o, i
<1> QED
  <2>1. ObjectChange(e, i, o)
    BY <1>2, <1>3, <1>4, <1>5, <1>6, <1>7, <1>8, TcpTyped DEF ObjectChange
  <2> QED
    BY <2>1, ObjectStep

\* A certificate that an end with a callback for evidence accepts carries it.
LEMMA AcceptedFacts ==
  ASSUME IInv, NEW e \in End, call[e] = "negotiate", AsksForEvidence(e), Accepts(e, TRUE)
  PROVE  cert[Other(e)] = "attested"
<1> DEFINE c == cert[Other(e)]
<1>1. ssl[e][Cur(e)].verify = "rats"
  BY HandshakeFacts DEF IInv, CallbackTaken
<1>2. c \in Certificate
  BY DEF IInv, TypeOK, Other, End
<1>3. CASE c = "none"
  BY <1>1, <1>3 DEF Accepts, NoCertPasses
<1>4. CASE c # "none"
  <2>1. X509VerifyCert(c, "rats").res
    <3>1. TRUE = X509VerifyCert(c, "rats").res
      BY <1>1, <1>4 DEF Accepts
    <3> QED
      BY <3>1
  <2> QED
    BY <1>2, <1>4, <2>1, RatsVerdict DEF Certificate
<1> QED
  BY <1>3, <1>4

LEMMA ConcludeStep ==
  ASSUME IInv, NEW e \in End, Conclude(e)
  PROVE  IInv'
<1> DEFINE i == Cur(e)
<1>1. call[e] = "negotiate" /\ Arrived(e)
  BY DEF Conclude, FlightFor
<1>2. /\ i \in 1 .. Len(ssl[e]) /\ i \in 0 .. MaxSsl /\ ssl[e][i] \in SslObject
      /\ ssl[e][i].state = "handshake" /\ ssl[e][i].got = 0
      /\ Head1(e).from \in 0 .. MaxSsl
  BY <1>1, HandshakeFacts, Head1Facts
<1>3. PICK verdict \in BOOLEAN :
        /\ Accepts(e, verdict)
        /\ ssl' = [ssl EXCEPT ![e][i] =
                     [@ EXCEPT !.peer = Head1(e).from,
                               !.state = IF verdict THEN "open" ELSE "failed",
                               !.attested = cert[Other(e)] = "attested"]]
        /\ SessionSet(e, verdict)
        /\ Reply(e, Conclusion(e, verdict))
  BY Zenon DEF Conclude
<1> DEFINE o == [ssl[e][i] EXCEPT !.peer = Head1(e).from,
                                  !.state = IF verdict THEN "open" ELSE "failed",
                                  !.attested = cert[Other(e)] = "attested"]
<1>4. /\ o \in SslObject /\ o.verify = ssl[e][i].verify /\ o.state # "handshake"
      /\ o.got = 0 /\ o.attested = (cert[Other(e)] = "attested")
  BY <1>2 DEF SslObject
<1>5. ssl' = [ssl EXCEPT ![e] = [@ EXCEPT ![i] = o]]
  BY <1>3
<1>6. verdict /\ AsksForEvidence(e) => o.attested
  BY <1>1, <1>3, <1>4, AcceptedFacts
<1>7. \/ UNCHANGED session
      \/ session' = [session EXCEPT ![e] = i] /\ (AsksForEvidence(e) => o.attested)
  <2>1. CASE verdict
    BY <1>3, <1>6, <2>1 DEF SessionSet
  <2>2. CASE ~verdict
    BY <1>3, <2>2 DEF SessionSet, IInv, TypeOK
  <2> QED
    BY <2>1, <2>2
<1>8. WireSpoken(wire')
  <2>1. \A k \in {"alert", "finish", "ticket"} : \A n \in {0, 1} :
          MayPut(e, Record(k, i, Head1(e).from, n))
    BY <1>2, RecordFacts, TlsAssumption
  <2> QED
    BY <1>1, <1>3, <2>1, ReplySpoken DEF Conclusion, IInv
<1>9. /\ UNCHANGED <<opts, stage, cert, ctxVerify, tcp>>
      /\ call' = [call EXCEPT ![e] = "-"]
  BY DEF Conclude, Idle
<1>10. /\ ssl[e][i].state # "handshake" =>
            o.state # "handshake" /\ o.attested = ssl[e][i].attested
      /\ o.got > 0 => o.state # "handshake" /\ (e = "client" => Spoken(o.peer))
  BY <1>2, <1>4
<1>11. /\ \/ UNCHANGED session
         \/ /\ session' = [session EXCEPT ![e] = i]
            /\ o.state # "handshake" /\ (AsksForEvidence(e) => o.attested)
      /\ \/ call' = [call EXCEPT ![e] = "-"]
         \/ UNCHANGED call /\ (call[e] = "negotiate" => o.state = "handshake")
  BY <1>4, <1>7, <1>9
<1> HIDE DEF o, i
<1> QED
  <2>1. ObjectChange(e, i, o)
    BY <1>2, <1>4, <1>5, <1>8, <1>9, <1>10, <1>11, TcpTyped DEF ObjectChange
  <2> QED
    BY <2>1, ObjectStep

LEMMA HandshakeFailsStep ==
  ASSUME IInv, NEW e \in End, Unexpected(e) \/ HandshakeEof(e)
  PROVE  IInv'
<1> DEFINE i == Cur(e)
           o == [ssl[e][i] EXCEPT !.state = "failed"]
<1>1. call[e] = "negotiate"
  BY DEF Unexpected, HandshakeEof
<1>2. /\ i \in 1 .. Len(ssl[e]) /\ i \in 0 .. MaxSsl /\ ssl[e][i] \in SslObject
      /\ ssl[e][i].state = "handshake" /\ ssl[e][i].got = 0
  BY <1>1, HandshakeFacts
<1>3. o \in SslObject /\ o.verify = ssl[e][i].verify /\ o.state = "failed" /\ o.got = 0
  BY <1>2 DEF SslObject
<1>4. ssl' = [ssl EXCEPT ![e] = [@ EXCEPT ![i] = o]]
  BY DEF Unexpected, HandshakeEof
<1>5. WireSpoken(wire')
  <2>1. MayPut(e, Record("alert", i, 0, 0))
    BY <1>2, RecordFacts, TlsAssumption
  <2> QED
    BY <2>1, ReplySpoken, TakeSpoken DEF Unexpected, HandshakeEof, IInv
<1>6. /\ UNCHANGED <<opts, stage, cert, ctxVerify, session>>
      /\ tcp' \in [End -> {"up", "eof", "reset"}]
      /\ call' = [call EXCEPT ![e] = "-"]
  BY TcpTyped DEF Unexpected, HandshakeEof, Idle, SessionSet, IInv, TypeOK
<1>7. /\ ssl[e][i].state # "handshake" =>
            o.state # "handshake" /\ o.attested = ssl[e][i].attested
      /\ o.got > 0 => o.state # "handshake" /\ (e = "client" => Spoken(o.peer))
  BY <1>2, <1>3
<1>8. /\ \/ UNCHANGED session
         \/ /\ session' = [session EXCEPT ![e] = i]
            /\ o.state # "handshake" /\ (AsksForEvidence(e) => o.attested)
      /\ \/ call' = [call EXCEPT ![e] = "-"]
         \/ UNCHANGED call /\ (call[e] = "negotiate" => o.state = "handshake")
  BY <1>3, <1>6
<1> HIDE DEF o, i
<1> QED
  <2>1. ObjectChange(e, i, o)
    BY <1>2, <1>3, <1>4, <1>5, <1>6, <1>7, <1>8 DEF ObjectChange
  <2> QED
    BY <2>1, ObjectStep

\* What the calls on an object have met is all that Met changes.
LEMMA MetFacts ==
  ASSUME NEW t \in SslObject, NEW what \in {"eof", "error"}
  PROVE  LET p == Met(t, what)
         IN /\ p \in SslObject /\ p.verify = t.verify /\ p.peer = t.peer /\ p.state = t.state
            /\ p.attested = t.attested /\ p.sent = t.sent /\ p.got = t.got
            /\ p.closed = t.closed /\ p.eof = t.eof
            /\ p.end = IF t.end = "-" THEN what ELSE t.end
BY DEF Met, SslObject

\* A step of send(), shutdown() or receive() changes the object of the session.
LEMMA SessionStep ==
  ASSUME IInv, NEW e \in End, session[e] # 0, call[e] # "negotiate", NEW o \in SslObject,
         ssl' = [ssl EXCEPT ![e] = [@ EXCEPT ![session[e]] = o]],
         UNCHANGED <<opts, stage, cert, ctxVerify, session>>, UNCHANGED tcp \/ ErrorTaken(e),
         o.verify = Session(e).verify, o.state # "handshake", o.attested = Session(e).attested,
         \/ o.got = Session(e).got /\ o.peer = Session(e).peer
         \/ e = "client" => Spoken(o.peer),
         UNCHANGED call \/ call' = [call EXCEPT ![e] = "-"],
         WireSpoken(wire')
  PROVE  IInv'
<1> DEFINE i == session[e]
<1>1. i \in 1 .. Len(ssl[e]) /\ Session(e) = ssl[e][i]
  BY SessionFacts DEF Session
<1>2. ssl[e][i].got > 0 => (e = "client" => Spoken(ssl[e][i].peer))
  BY <1>1 DEF IInv, HeardFrom
<1>3. /\ o.verify = ssl[e][i].verify
      /\ ssl[e][i].state # "handshake" =>
            o.state # "handshake" /\ o.attested = ssl[e][i].attested
      /\ o.got > 0 => o.state # "handshake" /\ (e = "client" => Spoken(o.peer))
  BY <1>1, <1>2
<1>4. /\ \/ UNCHANGED session
         \/ /\ session' = [session EXCEPT ![e] = i]
            /\ o.state # "handshake" /\ (AsksForEvidence(e) => o.attested)
      /\ \/ call' = [call EXCEPT ![e] = "-"]
         \/ UNCHANGED call /\ (call[e] = "negotiate" => o.state = "handshake")
      /\ WireSpoken(wire')
  OBVIOUS
<1>5. ssl' = [ssl EXCEPT ![e] = [@ EXCEPT ![i] = o]]
  OBVIOUS
<1>6. /\ i \in 1 .. Len(ssl[e]) /\ o \in SslObject
      /\ UNCHANGED <<opts, stage, cert, ctxVerify>> /\ tcp' \in [End -> {"up", "eof", "reset"}]
  BY <1>1, TcpTyped
<1> HIDE DEF i
<1> QED
  <2>1. ObjectChange(e, i, o)
    BY <1>3, <1>4, <1>5, <1>6 DEF ObjectChange
  <2> QED
    BY <2>1, ObjectStep

LEMMA SendStep ==
  ASSUME IInv, NEW e \in End, Send(e) \/ SendFails(e) \/ Shutdown(e) \/ ShutdownFails(e)
  PROVE  IInv'
<1>1. session[e] # 0 /\ call[e] = "-"
  BY DEF Send, SendFails, Shutdown, ShutdownFails, Writes, HasSession, CallsFrom
<1>2. /\ session[e] \in 0 .. MaxSsl /\ session[e] \in 1 .. Len(ssl[e])
      /\ Session(e) \in SslObject /\ Session(e).state # "handshake"
      /\ AsksForEvidence(e) => Session(e).attested
  BY <1>1, SessionFacts
<1>3. Session(e).peer \in 0 .. MaxSsl /\ Session(e).sent \in 0 .. MaxSends
  BY <1>2 DEF SslObject
<1>4. /\ UNCHANGED <<opts, stage, cert, ctxVerify, session, call>>
      /\ UNCHANGED tcp \/ ErrorTaken(e)
  BY DEF Send, SendFails, Shutdown, ShutdownFails
<1>5. CASE Send(e)
  <2> DEFINE o == [Session(e) EXCEPT !.sent = @ + 1]
             r == Record("data", session[e], Session(e).peer, Session(e).sent + 1)
  <2>1. Session(e).sent + 1 \in 0 .. MaxSends
    BY <1>3, <1>5, TlsAssumption DEF Send
  <2>2. /\ o \in SslObject /\ o.verify = Session(e).verify /\ o.state = Session(e).state
        /\ o.attested = Session(e).attested /\ o.got = Session(e).got
        /\ o.peer = Session(e).peer
    BY <1>2, <2>1 DEF SslObject
  <2>3. ssl' = [ssl EXCEPT ![e] = [@ EXCEPT ![session[e]] = o]]
    BY <1>5 DEF Send, Session
  <2>4. r \in WireRecord
    BY <1>2, <1>3, <2>1, TlsAssumption DEF Record, WireRecord
  <2>5. e = "server" => Spoken(r.from)
    BY <1>2 DEF Record, Spoken, Session
  <2>6. WireSpoken(wire')
    BY <1>5, <2>4, <2>5, PutSpoken DEF Send, MayPut, IInv
  <2> HIDE DEF o, r
  <2> QED
    BY <1>1, <1>2, <1>4, <2>2, <2>3, <2>6, SessionStep
<1>6. CASE Shutdown(e)
  <2> DEFINE o == [Session(e) EXCEPT !.closed = TRUE]
             r == Record("close", session[e], Session(e).peer, Session(e).sent + 1)
  <2>1. Session(e).sent + 1 \in 0 .. MaxSends + 1
    BY <1>3, TlsAssumption
  <2>2. /\ o \in SslObject /\ o.verify = Session(e).verify /\ o.state = Session(e).state
        /\ o.attested = Session(e).attested /\ o.got = Session(e).got
        /\ o.peer = Session(e).peer
    BY <1>2 DEF SslObject
  <2>3. ssl' = [ssl EXCEPT ![e] = [@ EXCEPT ![session[e]] = o]]
    BY <1>6 DEF Shutdown, Session
  <2>4. MayPut(e, r)
    BY <1>2, <1>3, <2>1, RecordFacts
  <2>5. WireSpoken(wire')
    BY <1>6, <2>4, PutSpoken DEF Shutdown, IInv
  <2> HIDE DEF o, r
  <2> QED
    BY <1>1, <1>2, <1>4, <2>2, <2>3, <2>5, SessionStep
<1>7. CASE SendFails(e) \/ ShutdownFails(e)
  <2>1. PICK o \in {Met(Session(e), "error"), Met([Session(e) EXCEPT !.closed = TRUE], "error")} :
          ssl' = [ssl EXCEPT ![e] = [@ EXCEPT ![session[e]] = o]]
    BY <1>7 DEF SendFails, ShutdownFails, Session
  <2>2. /\ o \in SslObject /\ o.verify = Session(e).verify /\ o.state = Session(e).state
        /\ o.attested = Session(e).attested /\ o.got = Session(e).got
        /\ o.peer = Session(e).peer
    BY <1>2, <2>1 DEF SslObject, Met
  <2>3. WireSpoken(wire')
    BY <1>7 DEF SendFails, ShutdownFails, IInv
  <2> QED
    BY <1>1, <1>2, <1>4, <2>1, <2>2, <2>3, SessionStep
<1> QED
  BY <1>5, <1>6, <1>7

LEMMA ReadStep ==
  ASSUME IInv, NEW e \in End, Read(e)
  PROVE  IInv'
<1>1. call[e] = "receive" /\ session[e] # 0
  BY DEF Read, ReceiveOver, ReceiveTicket, ReceiveData, ReceiveClose, ReceiveBad, ReceiveReset,
         ReceiveEof, Reads, Reading, IInv, TypeOK
<1>2. /\ session[e] \in 0 .. MaxSsl /\ session[e] \in 1 .. Len(ssl[e])
      /\ Session(e) \in SslObject /\ Session(e).state # "handshake"
  BY <1>1, SessionFacts
<1>3. /\ UNCHANGED <<opts, stage, cert, ctxVerify, session>> /\ (UNCHANGED tcp \/ ErrorTaken(e))
      /\ UNCHANGED call \/ call' = [call EXCEPT ![e] = "-"]
  BY DEF Read, ReceiveOver, ReceiveTicket, ReceiveData, ReceiveClose, ReceiveBad, ReceiveReset,
         ReceiveEof, Idle
<1>4. CASE ReceiveData(e)
  <2> DEFINE o == [Session(e) EXCEPT !.got = @ + 1]
  <2>1. /\ Head1(e).kind = "data" => Head1(e).n <= MaxSends
        /\ e = "client" /\ Head1(e).kind = "data" => Spoken(Head1(e).from)
    BY <1>4, Head1Facts DEF ReceiveData
  <2>2. Session(e).got + 1 <= MaxSends /\ (e = "client" => Spoken(Session(e).peer))
    BY <1>4, <2>1 DEF ReceiveData, Decrypts
  <2>3. /\ o \in SslObject /\ o.verify = Session(e).verify /\ o.state = Session(e).state
        /\ o.attested = Session(e).attested /\ o.peer = Session(e).peer
    BY <1>2, <2>2, TlsAssumption DEF SslObject
  <2>4. ssl' = [ssl EXCEPT ![e] = [@ EXCEPT ![session[e]] = o]]
    BY <1>4 DEF ReceiveData, Session
  <2>5. WireSpoken(wire')
    BY <1>4, TakeSpoken DEF ReceiveData, IInv
  <2> HIDE DEF o
  <2> QED
    BY <1>1, <1>2, <1>3, <2>2, <2>3, <2>4, <2>5, SessionStep
<1>5. CASE ReceiveClose(e) \/ ReceiveBad(e) \/ ReceiveReset(e) \/ ReceiveEof(e)
  <2> DEFINE Same(o) ==
        /\ o \in SslObject /\ o.verify = Session(e).verify /\ o.state # "handshake"
        /\ o.attested = Session(e).attested /\ o.got = Session(e).got
        /\ o.peer = Session(e).peer
  <2>1. \A t \in {Session(e), [Session(e) EXCEPT !.state = "open"],
                [Session(e) EXCEPT !.state = "failed"], [Session(e) EXCEPT !.eof = TRUE],
                [Session(e) EXCEPT !.eof = TRUE, !.state = "failed"]} :
          \A what \in {"eof", "error"} : Same(Met(t, what))
    <3> TAKE t \in {Session(e), [Session(e) EXCEPT !.state = "open"],
                    [Session(e) EXCEPT !.state = "failed"], [Session(e) EXCEPT !.eof = TRUE],
                    [Session(e) EXCEPT !.eof = TRUE, !.state = "failed"]}
    <3> TAKE what \in {"eof", "error"}
    <3>1. Same(t)
      BY <1>2 DEF SslObject
    <3> QED
      BY <3>1, MetFacts
  <2>2. PICK o : Same(o) /\ ssl' = [ssl EXCEPT ![e] = [@ EXCEPT ![session[e]] = o]]
    <3> HIDE DEF Same
    <3>1. CASE ReceiveClose(e)
      <4>1. \/ Head1(e).kind = "alert"
            \/ Head1(e).kind # "alert" /\ Session(e).state = "open"
        BY <3>1 DEF ReceiveClose, Reads
      <4>2. [Session(e) EXCEPT !.eof = TRUE, !.state = Session(e).state]
              = [Session(e) EXCEPT !.eof = TRUE]
        BY <1>2 DEF SslObject
      <4> QED
        BY <2>1, <3>1, <4>1, <4>2 DEF ReceiveClose, Session
    <3>2. CASE ReceiveBad(e)
      BY <2>1, <3>2 DEF ReceiveBad, ReadFailed, Session
    <3>3. CASE ReceiveReset(e)
      BY <2>1, <3>3 DEF ReceiveReset, ReadFailed, Session
    <3>4. CASE ReceiveEof(e)
      BY <2>1, <3>4 DEF ReceiveEof, Session
    <3> QED
      BY <1>5, <3>1, <3>2, <3>3, <3>4
  <2>3. MayPut(e, Record("alert", session[e], Session(e).peer, Session(e).sent + 1))
    BY <1>2, RecordFacts, TlsAssumption DEF SslObject
  <2>4. WireSpoken(wire')
    BY <1>5, <2>3, ReplySpoken, TakeSpoken
    DEF ReceiveClose, ReceiveBad, ReceiveReset, ReceiveEof, IInv
  <2> QED
    BY <1>1, <1>2, <1>3, <2>2, <2>4, SessionStep
<1>6. CASE ReceiveOver(e) \/ ReceiveTicket(e)
  <2>1. WireSpoken(wire')
    BY <1>6, TakeSpoken DEF ReceiveOver, ReceiveTicket, IInv
  <2>2. UNCHANGED <<opts, ssl, session, stage, cert, ctxVerify, tcp>>
    BY <1>6 DEF ReceiveOver, ReceiveTicket
  <2> QED
    BY <1>3, <2>1, <2>2, OtherStep DEF IInv, TypeOK
<1> QED
  BY <1>4, <1>5, <1>6 DEF Read

LEMMA NextIInv == IInv /\ [Next]_vars => IInv'
<1> SUFFICES ASSUME IInv, [Next]_vars PROVE IInv'
  OBVIOUS
<1>1. CASE Next
  <2>1. PICK e \in End :
          \/ Build(e) \/ BuildFails(e) \/ DropEnd(e) \/ Expire(e)
          \/ Negotiate(e) \/ NegotiateFails(e) \/ Handshake(e)
          \/ Send(e) \/ SendFails(e) \/ Shutdown(e) \/ ShutdownFails(e)
          \/ Receive(e) \/ Read(e)
    BY <1>1 DEF Next
  <2> QED
    BY <2>1, OwnerStep, NegotiateStep, NegotiateFailsStep, AnswerHelloStep, ConcludeStep,
       HandshakeFailsStep, SendStep, ReceiveStep, ReadStep DEF Handshake
<1>2. CASE UNCHANGED vars
  <2>1. \A j : Spoken(j) <=> Spoken(j)'
    BY <1>2 DEF vars, Spoken, AsksForEvidence
  <2>2. WireSpoken(wire)' /\ HeardFrom'
    BY <1>2, <2>1 DEF vars, IInv, WireSpoken, HeardFrom
  <2> QED
    BY <1>2, <2>2
    DEF vars, IInv, TypeOK, CallbackTaken, Authenticated, AsksForEvidence, Session, Cur
<1> QED
  BY <1>1, <1>2

------------------------------------------------------------------------------
(* The theorems.                                                           *)

\* The inductive invariant holds in every reachable state, in whatever order the
\* owners call and whatever fails.
THEOREM TlsInvariance == Spec => []IInv
BY InitIInv, NextIInv, PTL DEF Spec

\* Types: among them, that a session is an object whose handshake is over.
THEOREM TlsTypeCorrect == Spec => []TypeOK
<1>1. IInv => TypeOK
  BY DEF IInv
<1> QED
  BY <1>1, TlsInvariance, PTL

\* An end whose options ask for evidence has a session only with a peer whose
\* certificate was in time and carried evidence that passed, through any sequence of
\* negotiations that failed, were repeated or were met by records of earlier ones.
THEOREM SessionsAreAuthenticated == Spec => []Authenticated
<1>1. IInv => Authenticated
  BY DEF IInv
<1> QED
  BY <1>1, TlsInvariance, PTL

\* A client that has received anything has been accepted by the server, as the
\* server's options ask for it.
THEOREM HeardClientsAreAccepted == Spec => []HeardIsAccepted
<1>1. IInv => HeardIsAccepted
  <2> SUFFICES ASSUME IInv, session["client"] # 0, Session("client").got > 0
               PROVE  Spoken(Session("client").peer)
    BY DEF HeardIsAccepted, Spoken
  <2>1. "client" \in End
    BY DEF End
  <2>2. session["client"] \in 1 .. Len(ssl["client"])
    BY <2>1, SessionFacts
  <2> QED
    BY <2>1, <2>2 DEF IInv, HeardFrom, Session
<1> QED
  BY <1>1, TlsInvariance, PTL

------------------------------------------------------------------------------
(* The end of a stream.  What the peer of an end that has negotiated once  *)
(* has sent, the end has got, or it is on the wire, or it was lost in a    *)
(* reset.                                                                  *)

\* The object s, the i-th of an end, among the objects q of its peer: they know each
\* other from the point where a client, or a server, has concluded.
Known(q, e, i, s) ==
  /\ s.peer \in 0 .. Len(q)
  /\ s.state = "open" \/ s.sent > 0 \/ s.got > 0 => s.peer # 0
  /\ s.got > 0 => s.got <= q[s.peer].sent
  /\ s.state = "handshake" => s.sent = 0 /\ s.end = "-"
  /\ e = "client" /\ s.state = "handshake" => s.peer = 0
  /\ s.peer # 0 /\ (e = "client" \/ s.state = "open" \/ s.sent > 0) => q[s.peer].peer = i

\* A record from one of the objects q.
Sound(q, r) ==
  /\ r.from \in 1 .. Len(q)
  /\ r.kind \in {"flight", "finish"} => r.to # 0 /\ q[r.from].peer = r.to
  /\ r.kind = "data" => r.n <= q[r.from].sent
  /\ r.kind = "close" => q[r.from].closed /\ r.n = q[r.from].sent + 1
  /\ r.kind = "alert" /\ r.n # 0 => q[r.from].state = "failed" /\ r.n = q[r.from].sent + 1

\* Who calls is there, and tcp tells who is gone.
Waiting(e) ==
  /\ call[e] # "-" => stage[e] = "built"
  /\ tcp[e] # "up" => stage[Other(e)] = "gone"

OnTheWire(w, from, n) ==
  \E k \in 1 .. Len(w) : w[k].kind = "data" /\ w[k].from = from /\ w[k].n = n

\* What the peer has sent and the end's one object has not got yet is on the wire, as
\* long as nothing was lost, or the loss has still to be told, in a reset.
Pending(e) ==
  LET s == ssl[e][1]
  IN /\ Len(ssl[e]) = 1 /\ stage[e] # "gone" /\ tcp[e] # "reset"
     /\ s.peer # 0 /\ s.state # "failed" /\ s.end # "error"
     => \A n \in 1 .. ssl[Other(e)][s.peer].sent : n > s.got => OnTheWire(wire[e], s.peer, n)

\* What the peer's object had sent when the end of the stream was met is all it will
\* ever send.
Ended(e) ==
  LET s == ssl[e][1]
      q == ssl[Other(e)][s.peer]
  IN Len(ssl[e]) = 1 /\ s.end = "eof" =>
       /\ s.peer # 0 /\ s.got = q.sent
       /\ q.closed \/ q.state = "failed" \/ stage[Other(e)] = "gone"

KnownObjects(S) ==
  \A d \in End : \A i \in 1 .. Len(S[d]) : Known(S[Other(d)], d, i, S[d][i])

SoundWire(S, w) == \A d \in End : \A k \in 1 .. Len(w[d]) : Sound(S[Other(d)], w[d][k])

EInv ==
  /\ KnownObjects(ssl) /\ SoundWire(ssl, wire)
  /\ \A d \in End : Waiting(d) /\ Pending(d) /\ Ended(d)

------------------------------------------------------------------------------
(* What becomes of SSL objects: one keeps its peer, and sends until it is  *)
(* closed or has failed.                                                   *)

Objects == [End -> Seq(SslObject)]

Later(s, t) ==
  /\ s.peer # 0 => t.peer = s.peer
  /\ s.sent <= t.sent
  /\ s.closed => t.closed /\ t.sent = s.sent
  /\ s.state = "failed" => t.state = "failed" /\ t.sent = s.sent

Grown(S, T) ==
  \A d \in End :
    /\ Len(S[d]) <= Len(T[d])
    /\ \A i \in 1 .. Len(S[d]) : Later(S[d][i], T[d][i])

LEMMA OtherEnd ==
  ASSUME NEW e \in End
  PROVE  Other(e) \in End /\ Other(e) # e /\ Other(Other(e)) = e
BY DEF Other, End

LEMMA ObjectTyped ==
  ASSUME NEW S \in Objects, NEW d \in End
  PROVE  /\ Len(S[d]) \in Nat
         /\ \A i \in 1 .. Len(S[d]) :
              /\ S[d][i] \in SslObject
              /\ S[d][i].peer \in Nat /\ S[d][i].sent \in Nat /\ S[d][i].got \in Nat
<1>1. S[d] \in Seq(SslObject)
  BY DEF Objects
<1>2. \A i \in 1 .. Len(S[d]) : S[d][i] \in SslObject
  BY <1>1, ElementOfSeq
<1>3. \A s \in SslObject : s.peer \in Nat /\ s.sent \in Nat /\ s.got \in Nat
  BY TlsAssumption DEF SslObject
<1> QED
  BY <1>1, <1>2, <1>3, LenProperties

LEMMA SoundLater ==
  ASSUME NEW S \in Objects, NEW T \in Objects, Grown(S, T),
         NEW o \in End, NEW r \in WireRecord, Sound(S[o], r)
  PROVE  Sound(T[o], r)
<1> DEFINE s == S[o][r.from]
           t == T[o][r.from]
<1>1. /\ r.from \in 1 .. Len(S[o])
      /\ r.kind \in {"flight", "finish"} => r.to # 0 /\ s.peer = r.to
      /\ r.kind = "data" => r.n <= s.sent
      /\ r.kind = "close" => s.closed /\ r.n = s.sent + 1
      /\ r.kind = "alert" /\ r.n # 0 => s.state = "failed" /\ r.n = s.sent + 1
  BY DEF Sound
<1>2. Len(S[o]) \in Nat /\ Len(T[o]) \in Nat /\ Len(S[o]) <= Len(T[o]) /\ Later(s, t)
  BY <1>1, ObjectTyped DEF Grown
<1>3. r.from \in 1 .. Len(T[o])
  BY <1>1, <1>2
<1>4. s.sent \in Nat /\ t.sent \in Nat
  BY <1>1, <1>3, ObjectTyped
<1>5. r.kind = "data" => r.n <= t.sent
  <2> SUFFICES ASSUME r.kind = "data" PROVE r.n <= t.sent
    OBVIOUS
  <2>1. r.n <= s.sent /\ s.sent <= t.sent
    BY <1>1, <1>2 DEF Later
  <2>2. r.n \in Nat
    BY TlsAssumption DEF WireRecord
  <2> HIDE DEF s, t
  <2> QED
    BY <1>4, <2>1, <2>2
<1>6. /\ r.kind \in {"flight", "finish"} => r.to # 0 /\ t.peer = r.to
      /\ r.kind = "close" => t.closed /\ r.n = t.sent + 1
      /\ r.kind = "alert" /\ r.n # 0 => t.state = "failed" /\ r.n = t.sent + 1
  BY <1>1, <1>2 DEF Later
<1> QED
  BY <1>3, <1>5, <1>6 DEF Sound

LEMMA KnownLater ==
  ASSUME NEW S \in Objects, NEW T \in Objects, Grown(S, T), NEW o \in End,
         NEW d \in End, NEW i \in Nat \ {0}, NEW s \in SslObject, Known(S[o], d, i, s)
  PROVE  Known(T[o], d, i, s)
<1> DEFINE j == s.peer
           q == S[o][j]
           t == T[o][j]
<1>1. Len(S[o]) \in Nat /\ Len(T[o]) \in Nat /\ Len(S[o]) <= Len(T[o])
  BY ObjectTyped DEF Grown
<1>2. j \in 0 .. Len(S[o]) /\ j \in 0 .. Len(T[o])
  BY <1>1 DEF Known
<1>3. j # 0 => Later(q, t) /\ q.sent \in Nat /\ t.sent \in Nat
  <2> HIDE DEF j
  <2> SUFFICES ASSUME j # 0 PROVE Later(q, t) /\ q.sent \in Nat /\ t.sent \in Nat
    OBVIOUS
  <2>1. j \in 1 .. Len(S[o]) /\ j \in 1 .. Len(T[o])
    BY <1>1, <1>2
  <2> QED
    BY <1>1, <2>1, ObjectTyped DEF Grown
<1>4. s.got \in Nat
  BY TlsAssumption DEF SslObject
<1>5. s.got > 0 => s.got <= t.sent
  <2> SUFFICES ASSUME s.got > 0 PROVE s.got <= t.sent
    OBVIOUS
  <2>1. j # 0 /\ s.got <= q.sent
    BY DEF Known
  <2>2. q.sent <= t.sent
    BY <1>3, <2>1 DEF Later
  <2> HIDE DEF q, t
  <2> QED
    BY <1>3, <1>4, <2>1, <2>2
<1>6. /\ s.state = "open" \/ s.sent > 0 \/ s.got > 0 => j # 0
      /\ s.state = "handshake" => s.sent = 0 /\ s.end = "-"
      /\ d = "client" /\ s.state = "handshake" => j = 0
      /\ j # 0 /\ (d = "client" \/ s.state = "open" \/ s.sent > 0) => q.peer = i
  BY DEF Known
<1>7. j # 0 /\ (d = "client" \/ s.state = "open" \/ s.sent > 0) => t.peer = i
  BY <1>3, <1>6 DEF Later
<1> QED
  BY <1>2, <1>5, <1>6, <1>7 DEF Known

\* One object of an end is replaced by a later one.
LEMMA GrownByChange ==
  ASSUME NEW S \in Objects, NEW T \in Objects, NEW e \in End, NEW i \in 1 .. Len(S[e]), NEW p,
         Later(S[e][i], p),
         \A d \in End : Len(T[d]) = Len(S[d]),
         \A d \in End : d # e => T[d] = S[d],
         \A j \in 1 .. Len(S[e]) : T[e][j] = IF j = i THEN p ELSE S[e][j]
  PROVE  Grown(S, T)
<1>1. \A d \in End : \A j \in 1 .. Len(S[d]) : Later(S[d][j], S[d][j])
  BY ObjectTyped DEF Later
<1>2. \A d \in End : Len(S[d]) \in Nat
  BY ObjectTyped
<1>3. ASSUME NEW d \in End, NEW j \in 1 .. Len(S[d])
      PROVE  Later(S[d][j], T[d][j])
  <2>1. CASE d = e /\ j = i
    BY <2>1
  <2>2. CASE ~(d = e /\ j = i)
    <3>1. T[d][j] = S[d][j]
      BY <1>3, <2>2
    <3> QED
      BY <1>1, <3>1
  <2> QED
    BY <2>1, <2>2
<1> QED
  BY <1>2, <1>3 DEF Grown

LEMMA GrownSame ==
  ASSUME NEW S \in Objects
  PROVE  Grown(S, S)
BY ObjectTyped DEF Grown, Later

\* The objects that are as they were are known as they were, and so are the records.
LEMMA KnownKept ==
  ASSUME NEW S \in Objects, NEW T \in Objects, Grown(S, T), KnownObjects(S),
         \A d \in End : \A i \in 1 .. Len(T[d]) :
           \/ i \in 1 .. Len(S[d]) /\ T[d][i] = S[d][i]
           \/ Known(T[Other(d)], d, i, T[d][i])
  PROVE  KnownObjects(T)
<1> SUFFICES ASSUME NEW d \in End, NEW i \in 1 .. Len(T[d]), i \in 1 .. Len(S[d]),
                    T[d][i] = S[d][i]
             PROVE  Known(T[Other(d)], d, i, S[d][i])
  BY DEF KnownObjects
<1>1. Known(S[Other(d)], d, i, S[d][i]) /\ S[d][i] \in SslObject /\ i \in Nat \ {0}
  BY ObjectTyped DEF KnownObjects
<1> QED
  BY <1>1, OtherEnd, KnownLater

LEMMA SoundKept ==
  ASSUME NEW S \in Objects, NEW T \in Objects, Grown(S, T),
         NEW v \in [End -> Seq(WireRecord)], NEW w, SoundWire(S, v),
         \A d \in End : \A k \in 1 .. Len(w[d]) :
           \/ \E l \in 1 .. Len(v[d]) : w[d][k] = v[d][l]
           \/ Sound(T[Other(d)], w[d][k])
  PROVE  SoundWire(T, w)
<1> SUFFICES ASSUME NEW d \in End, NEW k \in 1 .. Len(w[d])
             PROVE  Sound(T[Other(d)], w[d][k])
  BY DEF SoundWire
<1>1. CASE \E l \in 1 .. Len(v[d]) : w[d][k] = v[d][l]
  <2>1. PICK l \in 1 .. Len(v[d]) : w[d][k] = v[d][l]
    BY <1>1
  <2>2. Sound(S[Other(d)], v[d][l]) /\ v[d][l] \in WireRecord
    BY ElementOfSeq DEF SoundWire
  <2> QED
    BY <2>1, <2>2, OtherEnd, SoundLater
<1> QED
  BY <1>1

------------------------------------------------------------------------------
(* What a step leaves on the wire.                                         *)

LEMMA AppendKeeps ==
  ASSUME NEW w \in Seq(WireRecord), NEW r \in WireRecord
  PROVE  /\ \A from, n : OnTheWire(w, from, n) => OnTheWire(Append(w, r), from, n)
         /\ r.kind = "data" => OnTheWire(Append(w, r), r.from, r.n)
<1> DEFINE S == WireRecord
           v == Append(w, r)
<1>1. w \in Seq(S) /\ r \in S
  OBVIOUS
<1> HIDE DEF S
<1>2. Len(v) = Len(w) + 1 /\ Len(w) \in Nat
  BY <1>1, AppendProperties, LenProperties
<1>3. \A k \in 1 .. Len(w) + 1 : v[k] = IF k = Len(w) + 1 THEN r ELSE w[k]
  BY <1>1, <1>2
<1> HIDE DEF v
<1>4. \A k \in 1 .. Len(w) : k \in 1 .. Len(v) /\ v[k] = w[k]
  BY <1>2, <1>3
<1>5. Len(w) + 1 \in 1 .. Len(v) /\ v[Len(w) + 1] = r
  BY <1>2, <1>3
<1>6. \A from, n : OnTheWire(w, from, n) => OnTheWire(v, from, n)
  BY <1>4 DEF OnTheWire
<1>7. r.kind = "data" => OnTheWire(v, r.from, r.n)
  BY <1>5 DEF OnTheWire
<1> QED
  BY <1>6, <1>7 DEF v

LEMMA TailKeeps ==
  ASSUME NEW w \in Seq(WireRecord), w # <<>>, NEW from, NEW n, OnTheWire(w, from, n),
         ~(Head(w).kind = "data" /\ Head(w).n = n)
  PROVE  OnTheWire(Tail(w), from, n)
<1> DEFINE S == WireRecord
           v == Tail(w)
<1>1. w \in Seq(S)
  OBVIOUS
<1> HIDE DEF S
<1>2. Len(w) \in Nat \ {0} /\ Len(v) = Len(w) - 1
  BY <1>1, EmptySeq
<1>3. \A k \in 1 .. Len(w) - 1 : v[k] = w[k + 1]
  BY <1>1, <1>2
<1>4. Head(w) = w[1]
  BY <1>1, <1>2
<1> HIDE DEF v
<1>5. PICK k \in 1 .. Len(w) : w[k].kind = "data" /\ w[k].from = from /\ w[k].n = n
  BY DEF OnTheWire
<1>6. k # 1
  BY <1>4, <1>5
<1>7. k - 1 \in 1 .. Len(v) /\ v[k - 1] = w[k]
  BY <1>2, <1>3, <1>6
<1>8. OnTheWire(v, from, n)
  BY <1>5, <1>7 DEF OnTheWire
<1> QED
  BY <1>8 DEF v

\* The end has taken the first record, or none; it has put r on the wire, or nothing.
OwnSide(e) == wire'[e] = wire[e] \/ (Arrived(e) /\ wire'[e] = Tail(wire[e]))

PeerSide(e, r) ==
  LET o == Other(e)
  IN \/ wire'[o] = wire[o]
     \/ wire'[o] = Append(wire[o], r) /\ r \in WireRecord /\ Sound(ssl'[e], r)

LEMMA WireTyped ==
  ASSUME IInv
  PROVE  wire \in [End -> Seq(WireRecord)] /\ ssl \in Objects
BY DEF IInv, TypeOK, Objects

LEMMA WireTypedNext ==
  ASSUME IInv'
  PROVE  wire' \in [End -> Seq(WireRecord)] /\ ssl' \in Objects
BY DEF IInv, TypeOK, Objects

LEMMA PutSides ==
  ASSUME IInv, NEW e \in End, NEW r, Put(e, r)
  PROVE  /\ wire'[e] = wire[e]
         /\ wire'[Other(e)] =
              IF stage[Other(e)] = "gone" THEN wire[Other(e)] ELSE Append(wire[Other(e)], r)
BY OtherEnd, WireTyped DEF Put

LEMMA TakeSides ==
  ASSUME IInv, NEW e \in End, Take(e)
  PROVE  wire'[e] = Tail(wire[e]) /\ wire'[Other(e)] = wire[Other(e)]
BY OtherEnd, WireTyped DEF Take

LEMMA ReplySides ==
  ASSUME IInv, NEW e \in End, NEW r, Reply(e, r)
  PROVE  /\ wire'[e] = Tail(wire[e])
         /\ wire'[Other(e)] =
              IF stage[Other(e)] = "gone" THEN wire[Other(e)] ELSE Append(wire[Other(e)], r)
<1> DEFINE o == Other(e)
           new == IF stage[o] = "gone" THEN wire[o] ELSE Append(wire[o], r)
<1>1. o \in End /\ o # e
  BY OtherEnd
<1>2. wire' = [wire EXCEPT ![e] = Tail(wire[e]), ![o] = new]
  BY <1>1 DEF Reply
<1> HIDE DEF o, new
<1>3. wire'[e] = Tail(wire[e]) /\ wire'[o] = new
  BY <1>1, <1>2, WireTyped
<1> QED
  BY <1>3 DEF o, new

LEMMA SidesSound ==
  ASSUME IInv, IInv', EInv, Grown(ssl, ssl'), NEW e \in End, NEW r, OwnSide(e), PeerSide(e, r)
  PROVE  SoundWire(ssl', wire')
<1> DEFINE o == Other(e)
<1>1. wire \in [End -> Seq(WireRecord)] /\ ssl \in Objects /\ ssl' \in Objects
  BY WireTyped, WireTypedNext
<1>2. ASSUME NEW k \in 1 .. Len(wire'[e])
      PROVE  \E l \in 1 .. Len(wire[e]) : wire'[e][k] = wire[e][l]
  <2>1. CASE wire'[e] = wire[e]
    BY <1>2, <2>1
  <2>2. CASE Arrived(e) /\ wire'[e] = Tail(wire[e])
    BY <1>1, <1>2, <2>2, TailSpoken DEF Arrived
  <2> QED
    BY <2>1, <2>2 DEF OwnSide
<1>3. ASSUME NEW k \in 1 .. Len(wire'[o])
      PROVE  (\E l \in 1 .. Len(wire[o]) : wire'[o][k] = wire[o][l]) \/ Sound(ssl'[e], wire'[o][k])
  <2>1. CASE wire'[o] = wire[o]
    BY <1>3, <2>1
  <2>2. CASE wire'[o] = Append(wire[o], r) /\ r \in WireRecord /\ Sound(ssl'[e], r)
    <3>1. wire[o] \in Seq(WireRecord)
      BY <1>1, OtherEnd
    <3>2. (k \in 1 .. Len(wire[o]) /\ wire'[o][k] = wire[o][k]) \/ wire'[o][k] = r
      BY <1>3, <2>2, <3>1, AppendSpoken
    <3> QED
      BY <2>2, <3>2
  <2> QED
    BY <2>1, <2>2 DEF PeerSide
<1>4. \A d \in End : \A k \in 1 .. Len(wire'[d]) :
        \/ \E l \in 1 .. Len(wire[d]) : wire'[d][k] = wire[d][l]
        \/ Sound(ssl'[Other(d)], wire'[d][k])
  <2>1. (\A d \in End : d = e \/ d = o) /\ Other(o) = e
    BY DEF End, Other
  <2> QED
    BY <1>2, <1>3, <2>1
<1> QED
  BY <1>1, <1>4, SoundKept DEF EInv

------------------------------------------------------------------------------
(* What an end has still to get, when another end's step changes nothing   *)
(* of its own.                                                             *)

LEMMA PendingKept ==
  ASSUME IInv, IInv', EInv, NEW d \in End, ssl'[d] = ssl[d],
         stage'[d] # "gone" => stage[d] # "gone", tcp'[d] # "reset" => tcp[d] # "reset",
         stage'[d] # "gone" /\ tcp'[d] # "reset" =>
           \A from, n : OnTheWire(wire[d], from, n) => OnTheWire(wire'[d], from, n),
         stage'[d] # "gone" /\ tcp'[d] # "reset" =>
           \A i \in 1 .. Len(ssl[Other(d)]) :
             \/ ssl'[Other(d)][i].sent = ssl[Other(d)][i].sent
             \/ /\ ssl'[Other(d)][i].sent = ssl[Other(d)][i].sent + 1
                /\ OnTheWire(wire'[d], i, ssl[Other(d)][i].sent + 1)
  PROVE  Pending(d)'
<1> DEFINE o == Other(d)
           s == ssl[d][1]
           q == ssl[o][s.peer]
<1> SUFFICES ASSUME Len(ssl[d]) = 1, stage'[d] # "gone", tcp'[d] # "reset",
                    s.peer # 0, s.state # "failed", s.end # "error",
                    NEW n \in 1 .. ssl'[o][s.peer].sent, n > s.got
             PROVE  OnTheWire(wire'[d], s.peer, n)
  BY DEF Pending
<1>1. ssl \in Objects /\ o \in End
  BY WireTyped, OtherEnd
<1>2. Known(ssl[o], d, 1, s)
  BY DEF EInv, KnownObjects
<1>3. s.peer \in 1 .. Len(ssl[o])
  <2>1. s.peer \in 0 .. Len(ssl[o]) /\ Len(ssl[o]) \in Nat
    BY <1>1, <1>2, ObjectTyped DEF Known
  <2> HIDE DEF s, o
  <2> QED
    BY <2>1
<1>4. \A m \in 1 .. q.sent : m > s.got => OnTheWire(wire[d], s.peer, m)
  BY DEF EInv, Pending
<1>5. q.sent \in Nat
  BY <1>1, <1>3, ObjectTyped
<1>6. \/ ssl'[o][s.peer].sent = q.sent
      \/ ssl'[o][s.peer].sent = q.sent + 1 /\ OnTheWire(wire'[d], s.peer, q.sent + 1)
  BY <1>3
<1>7. n \in 1 .. q.sent \/ (n = q.sent + 1 /\ OnTheWire(wire'[d], s.peer, q.sent + 1))
  <2> DEFINE m == q.sent
             t == ssl'[o][s.peer].sent
  <2>1. n \in 1 .. t /\ m \in Nat /\ (t = m \/ t = m + 1)
    BY <1>5, <1>6
  <2>2. t = m + 1 => t = m \/ OnTheWire(wire'[d], s.peer, m + 1)
    BY <1>6
  <2> HIDE DEF m, t
  <2>3. n \in 1 .. m \/ (n = m + 1 /\ t = m + 1 /\ t # m)
    BY <2>1
  <2>4. n \in 1 .. m \/ (n = m + 1 /\ OnTheWire(wire'[d], s.peer, m + 1))
    BY <2>2, <2>3
  <2> QED
    BY <2>4 DEF m
<1>8. CASE n \in 1 .. q.sent
  BY <1>4, <1>8
<1> QED
  BY <1>7, <1>8

LEMMA EndedKept ==
  ASSUME IInv, EInv, Grown(ssl, ssl'), NEW d \in End, ssl'[d] = ssl[d],
         stage[Other(d)] = "gone" =>
           /\ stage'[Other(d)] = "gone"
           /\ ssl'[Other(d)] = ssl[Other(d)]
  PROVE  Ended(d)'
<1> DEFINE o == Other(d)
           s == ssl[d][1]
<1> SUFFICES ASSUME Len(ssl[d]) = 1, s.end = "eof"
             PROVE  /\ s.peer # 0 /\ s.got = ssl'[o][s.peer].sent
                    /\ \/ ssl'[o][s.peer].closed \/ ssl'[o][s.peer].state = "failed"
                       \/ stage'[o] = "gone"
  BY DEF Ended
<1>1. ssl \in Objects /\ o \in End
  BY WireTyped, OtherEnd
<1>2. Known(ssl[o], d, 1, s)
  BY DEF EInv, KnownObjects
<1>3. /\ s.peer # 0 /\ s.got = ssl[o][s.peer].sent
      /\ ssl[o][s.peer].closed \/ ssl[o][s.peer].state = "failed" \/ stage[o] = "gone"
  BY DEF EInv, Ended
<1>4. s.peer \in 1 .. Len(ssl[o])
  BY <1>1, <1>2, <1>3, ObjectTyped DEF Known
<1>5. Later(ssl[o][s.peer], ssl'[o][s.peer])
  BY <1>1, <1>4 DEF Grown
<1>6. CASE ssl[o][s.peer].closed \/ ssl[o][s.peer].state = "failed"
  BY <1>3, <1>5, <1>6 DEF Later
<1>7. CASE stage[o] = "gone"
  BY <1>3, <1>7
<1> QED
  BY <1>3, <1>6, <1>7

------------------------------------------------------------------------------
(* The steps.                                                              *)

\* A step that makes p of the object i of an end, and may put r on the wire.
EndChange(e, i, p, r) ==
  LET s == ssl[e][i]
      o == Other(e)
      q == ssl[o][p.peer]
  IN /\ i \in 1 .. Len(ssl[e]) /\ p \in SslObject
     /\ ssl' = [ssl EXCEPT ![e] = [@ EXCEPT ![i] = p]]
     /\ Later(s, p) /\ Known(ssl[o], e, i, p)
     /\ stage[e] = "built" /\ UNCHANGED stage
     /\ tcp'[o] = tcp[o] /\ (tcp'[e] # "up" => tcp[e] # "up")
     /\ OwnSide(e) /\ PeerSide(e, r)
     /\ \/ p.sent = s.sent
        \/ stage[o] = "gone"
        \/ p.sent = s.sent + 1 /\ OnTheWire(wire'[o], i, s.sent + 1)
     /\ call'[o] = call[o]
     /\ Len(ssl[e]) = 1 /\ tcp'[e] # "reset" /\ p.peer # 0 /\ p.state # "failed"
        /\ p.end # "error" =>
          \A n \in 1 .. q.sent : n > p.got => OnTheWire(wire'[e], p.peer, n)
     /\ Len(ssl[e]) = 1 /\ p.end = "eof" =>
          /\ p.peer # 0 /\ p.got = q.sent
          /\ q.closed \/ q.state = "failed" \/ stage[o] = "gone"

LEMMA EndChangeStep ==
  ASSUME IInv, IInv', EInv, NEW e \in End, NEW i, NEW p, NEW r, EndChange(e, i, p, r)
  PROVE  EInv'
<1> DEFINE o == Other(e)
<1>1. /\ i \in 1 .. Len(ssl[e]) /\ p \in SslObject
      /\ ssl' = [ssl EXCEPT ![e] = [@ EXCEPT ![i] = p]]
      /\ Later(ssl[e][i], p) /\ Known(ssl[o], e, i, p)
      /\ stage[e] = "built" /\ UNCHANGED stage
      /\ tcp'[o] = tcp[o] /\ (tcp'[e] # "up" => tcp[e] # "up")
      /\ OwnSide(e) /\ PeerSide(e, r)
      /\ call'[o] = call[o]
  BY DEF EndChange
<1>2. ssl \in Objects /\ ssl' \in Objects /\ wire \in [End -> Seq(WireRecord)]
  BY WireTyped, WireTypedNext
<1>3. /\ \A d \in End : Len(ssl'[d]) = Len(ssl[d])
      /\ \A d \in End : d # e => ssl'[d] = ssl[d]
      /\ \A j \in 1 .. Len(ssl[e]) : ssl'[e][j] = IF j = i THEN p ELSE ssl[e][j]
  BY <1>1, ObjectReplaced DEF IInv, TypeOK
<1>4. Grown(ssl, ssl')
  BY <1>1, <1>2, <1>3, GrownByChange
<1>5. /\ o \in End /\ o # e /\ Other(o) = e /\ ssl'[o] = ssl[o]
      /\ \A d \in End : d = e \/ d = o
  BY <1>3, OtherEnd DEF End, Other
<1>6. KnownObjects(ssl')
  <2>1. \A d \in End : \A j \in 1 .. Len(ssl'[d]) :
          \/ j \in 1 .. Len(ssl[d]) /\ ssl'[d][j] = ssl[d][j]
          \/ Known(ssl'[Other(d)], d, j, ssl'[d][j])
    <3> SUFFICES ASSUME NEW d \in End, NEW j \in 1 .. Len(ssl'[d]), ssl'[d][j] # ssl[d][j]
                 PROVE  Known(ssl'[Other(d)], d, j, ssl'[d][j])
      BY <1>3
    <3>1. d = e /\ j = i
      BY <1>3
    <3> QED
      BY <1>1, <1>3, <1>5, <3>1
  <2> QED
    BY <1>2, <1>4, <2>1, KnownKept DEF EInv
<1>7. SoundWire(ssl', wire')
  BY <1>1, <1>4, SidesSound
<1>8. \A d \in End : Waiting(d)'
  <2>1. Waiting(o)'
    BY <1>1, <1>5 DEF EInv, Waiting
  <2>2. Waiting(e)'
    BY <1>1, <1>5 DEF EInv, Waiting
  <2> QED
    BY <1>5, <2>1, <2>2
<1>9. Pending(o)'
  <2>1. \A from, n : OnTheWire(wire[o], from, n) => OnTheWire(wire'[o], from, n)
    <3>1. wire[o] \in Seq(WireRecord)
      BY <1>2, <1>5
    <3> QED
      BY <1>1, <3>1, AppendKeeps DEF PeerSide
  <2>2. stage'[o] # "gone" /\ tcp'[o] # "reset" =>
          \A j \in 1 .. Len(ssl[e]) :
             \/ ssl'[e][j].sent = ssl[e][j].sent
             \/ /\ ssl'[e][j].sent = ssl[e][j].sent + 1
                /\ OnTheWire(wire'[o], j, ssl[e][j].sent + 1)
    BY <1>1, <1>3 DEF EndChange
  <2> QED
    BY <1>1, <1>5, <2>1, <2>2, PendingKept
<1>10. Ended(o)'
  <2>1. stage[Other(o)] # "gone"
    BY <1>1, <1>5
  <2> QED
    BY <1>4, <1>5, <2>1, EndedKept
<1>11. Len(ssl[e]) = 1 => i = 1 /\ ssl'[e][1] = p
  BY <1>1, <1>3
<1>12. Pending(e)'
  BY <1>1, <1>3, <1>5, <1>11 DEF EndChange, Pending
<1>13. Ended(e)'
  BY <1>1, <1>3, <1>5, <1>11 DEF EndChange, Ended
<1> QED
  BY <1>5, <1>6, <1>7, <1>8, <1>9, <1>10, <1>12, <1>13 DEF EInv

\* A step that changes no object.
LEMMA NoObjectStep ==
  ASSUME IInv, IInv', EInv, UNCHANGED <<ssl, session, wire, tcp>>,
         \A d \in End : stage'[d] = "gone" <=> stage[d] = "gone",
         \A d \in End : call'[d] # "-" =>
           stage'[d] = "built" \/ (call'[d] = call[d] /\ stage'[d] = stage[d])
  PROVE  EInv'
<1>1. KnownObjects(ssl') /\ SoundWire(ssl', wire')
  BY DEF EInv
<1>2. \A d \in End : Waiting(d)'
  BY OtherEnd DEF EInv, Waiting
<1>3. \A d \in End : Pending(d)' /\ Ended(d)'
  BY OtherEnd DEF EInv, Pending, Ended
<1> QED
  BY <1>1, <1>2, <1>3 DEF EInv

\* The first record on the wire.
LEMMA HeadSound ==
  ASSUME IInv, EInv, NEW e \in End, Arrived(e)
  PROVE  /\ wire[e] \in Seq(WireRecord) /\ wire[e] # <<>>
         /\ Head1(e) = Head(wire[e]) /\ Head1(e) \in WireRecord
         /\ Head1(e).from \in 0 .. MaxSsl /\ Head1(e).from # 0
         /\ Sound(ssl[Other(e)], Head1(e))
<1>1. /\ wire[e] \in Seq(WireRecord) /\ wire[e] # <<>> /\ Head1(e) = Head(wire[e])
  BY WireTyped DEF Arrived, Head1
<1>2. Head1(e) = wire[e][1] /\ Head1(e) \in WireRecord /\ 1 \in 1 .. Len(wire[e])
  BY <1>1, TailSpoken
<1>3. Sound(ssl[Other(e)], Head1(e))
  BY <1>2 DEF EInv, SoundWire
<1>4. Head1(e).from # 0
  BY <1>3 DEF Sound
<1> QED
  BY <1>1, <1>2, <1>3, <1>4 DEF WireRecord

\* The objects after one of them has changed.
LEMMA ChangedFacts ==
  ASSUME IInv, NEW e \in End, NEW i \in 1 .. Len(ssl[e]), NEW p \in SslObject,
         ssl' = [ssl EXCEPT ![e] = [@ EXCEPT ![i] = p]]
  PROVE  i \in 1 .. Len(ssl'[e]) /\ ssl'[e][i] = p
BY ObjectReplaced DEF IInv, TypeOK

LEMMA ReplyMade ==
  ASSUME IInv, NEW e \in End, Arrived(e), NEW r \in WireRecord, Sound(ssl'[e], r), Reply(e, r)
  PROVE  OwnSide(e) /\ PeerSide(e, r)
BY ReplySides DEF OwnSide, PeerSide

LEMMA TakeMade ==
  ASSUME IInv, NEW e \in End, Arrived(e), Take(e), NEW r
  PROVE  OwnSide(e) /\ PeerSide(e, r)
BY TakeSides DEF OwnSide, PeerSide

\* An alert that can be read is from an object that has failed.
LEMMA AlertSound ==
  ASSUME NEW q, NEW i \in 1 .. Len(q), i \in 0 .. MaxSsl, NEW to \in 0 .. MaxSsl,
         NEW n \in 0 .. MaxSends + 1, n # 0 => q[i].state = "failed" /\ n = q[i].sent + 1
  PROVE  /\ Record("alert", i, to, n) \in WireRecord
         /\ Sound(q, Record("alert", i, to, n))
BY TlsAssumption DEF Record, WireRecord, Sound

\* A hello is from an object that has sent nothing yet: nobody has answered it.
LEMMA AnswerHelloEnd ==
  ASSUME IInv, IInv', EInv, NEW e \in End, AnswerHello(e)
  PROVE  EInv'
<1> DEFINE i == Cur(e)
           o == Other(e)
           s == ssl[e][i]
           from == Head1(e).from
           p == [s EXCEPT !.peer = from]
           r == Record("flight", i, from, 0)
<1>1. /\ e = "server" /\ call[e] = "negotiate" /\ Arrived(e) /\ s.peer = 0
      /\ ssl' = [ssl EXCEPT ![e] = [@ EXCEPT ![i] = p]]
      /\ Reply(e, r)
      /\ UNCHANGED <<stage, session, call, tcp>>
  BY DEF AnswerHello
<1>2. /\ i \in 1 .. Len(ssl[e]) /\ i \in 0 .. MaxSsl /\ s \in SslObject
      /\ s.state = "handshake" /\ s.got = 0
  BY <1>1, HandshakeFacts
<1>3. from \in 0 .. MaxSsl /\ from \in 1 .. Len(ssl[o]) /\ from # 0
  BY <1>1, HeadSound DEF Sound
<1>4. Known(ssl[o], e, i, s)
  BY <1>2 DEF EInv, KnownObjects
<1>5. /\ p \in SslObject /\ p.peer = from /\ p.state = "handshake" /\ p.got = 0
      /\ p.sent = s.sent /\ p.closed = s.closed /\ p.end = s.end
  BY <1>2, <1>3 DEF SslObject
<1>6. s.sent = 0 /\ s.end = "-"
  BY <1>2, <1>4 DEF Known
<1>7. Later(s, p)
  BY <1>1, <1>5, <1>6 DEF Later
<1>8. Known(ssl[o], e, i, p)
  <2>1. Len(ssl[o]) \in Nat
    BY WireTyped, OtherEnd, ObjectTyped
  <2> QED
    BY <1>1, <1>3, <1>5, <1>6, <2>1 DEF Known
<1>9. OwnSide(e) /\ PeerSide(e, r)
  <2>1. r \in WireRecord
    BY <1>2, <1>3, TlsAssumption DEF Record, WireRecord
  <2>2. i \in 1 .. Len(ssl'[e]) /\ ssl'[e][i] = p
    <3> HIDE DEF p, i, r
    <3> QED
      BY <1>1, <1>2, <1>5, ChangedFacts
  <2>3. Sound(ssl'[e], r)
    BY <1>3, <1>5, <2>2 DEF Sound, Record
  <2> QED
    BY <1>1, <2>1, <2>3, ReplyMade
<1>10. ASSUME Len(ssl[e]) = 1
       PROVE  ssl[o][from].sent = 0
  <2> DEFINE c == ssl[o][from]
  <2>1. o = "client" /\ Other(o) = e /\ o \in End
    BY <1>1 DEF Other, End
  <2>2. Known(ssl[e], o, from, c) /\ c.sent \in Nat
    BY <1>3, <2>1, WireTyped, ObjectTyped DEF EInv, KnownObjects
  <2>3. c.sent > 0 => c.peer \in 0 .. 1 /\ c.peer # 0 /\ ssl[e][c.peer].peer = from
    BY <1>10, <2>1, <2>2 DEF Known
  <2>4. c.sent > 0 => c.peer = 1 /\ i = 1
    BY <1>2, <1>10, <2>3
  <2> QED
    BY <1>1, <1>3, <2>2, <2>3, <2>4
<1>11. stage[e] = "built"
  BY <1>1 DEF EInv, Waiting
<1> HIDE DEF p, s, from, r, i
<1>12. EndChange(e, i, p, r)
  <2>1. Len(ssl[e]) = 1 => \A n \in 1 .. ssl[o][p.peer].sent : FALSE
    BY <1>5, <1>10
  <2> QED
    BY <1>1, <1>2, <1>5, <1>6, <1>7, <1>8, <1>9, <1>11, <2>1, OtherEnd DEF EndChange, s
<1> QED
  BY <1>12, EndChangeStep

\* When it has concluded, an end has all the data of its peer still to get.
LEMMA ConcludeEnd ==
  ASSUME IInv, IInv', EInv, NEW e \in End, Conclude(e)
  PROVE  EInv'
<1> DEFINE i == Cur(e)
           o == Other(e)
           s == ssl[e][i]
           from == Head1(e).from
<1>1. call[e] = "negotiate" /\ Arrived(e) /\ Head1(e).to = i
      /\ IF e = "client" THEN Head1(e).kind = "flight"
         ELSE Head1(e).kind = "finish" /\ from = s.peer
  BY DEF Conclude, FlightFor
<1>2. PICK verdict \in BOOLEAN :
        /\ ssl' = [ssl EXCEPT ![e][i] =
                     [@ EXCEPT !.peer = from,
                               !.state = IF verdict THEN "open" ELSE "failed",
                               !.attested = cert[Other(e)] = "attested"]]
        /\ SessionSet(e, verdict)
        /\ Reply(e, Conclusion(e, verdict))
  BY Zenon DEF Conclude
<1> DEFINE p == [s EXCEPT !.peer = from,
                          !.state = IF verdict THEN "open" ELSE "failed",
                          !.attested = cert[Other(e)] = "attested"]
           r == Conclusion(e, verdict)
<1>3. ssl' = [ssl EXCEPT ![e] = [@ EXCEPT ![i] = p]]
  BY <1>2
<1>4. /\ i \in 1 .. Len(ssl[e]) /\ i \in 0 .. MaxSsl /\ s \in SslObject
      /\ s.state = "handshake" /\ s.got = 0
  BY <1>1, HandshakeFacts
<1>5. /\ from \in 0 .. MaxSsl /\ from \in 1 .. Len(ssl[o]) /\ from # 0
      /\ ssl[o][from].peer = i
  BY <1>1, HeadSound DEF Sound
<1>6. Known(ssl[o], e, i, s)
  BY <1>4 DEF EInv, KnownObjects
<1>7. /\ p \in SslObject /\ p.peer = from /\ p.got = 0
      /\ p.state = (IF verdict THEN "open" ELSE "failed")
      /\ p.sent = s.sent /\ p.closed = s.closed /\ p.end = s.end
  BY <1>4, <1>5 DEF SslObject
<1>8. s.end = "-" /\ s.sent = 0 /\ (s.peer # 0 => s.peer = from)
  BY <1>1, <1>4, <1>6 DEF Known, End
<1>9. Later(s, p)
  <2> HIDE DEF s, p
  <2> QED
    BY <1>4, <1>7, <1>8 DEF Later
<1>10. Known(ssl[o], e, i, p)
  <2>1. Len(ssl[o]) \in Nat
    BY WireTyped, OtherEnd, ObjectTyped
  <2> QED
    BY <1>5, <1>7, <1>8, <2>1 DEF Known
<1>11. OwnSide(e) /\ PeerSide(e, r)
  <2>1. i \in 1 .. Len(ssl'[e]) /\ ssl'[e][i] = p
    <3> HIDE DEF p, i, r
    <3> QED
      BY <1>3, <1>4, <1>7, ChangedFacts
  <2>2. r \in WireRecord /\ Sound(ssl'[e], r)
    <3>1. CASE verdict
      <4>1. PICK k \in {"finish", "ticket"} : r = Record(k, i, from, 0)
        BY <3>1 DEF Conclusion
      <4> HIDE DEF p, r, i, from
      <4> QED
        BY <1>4, <1>5, <1>7, <2>1, <4>1, TlsAssumption DEF Record, WireRecord, Sound
    <3>2. CASE ~verdict
      <4>1. r = Record("alert", i, from, 1)
        BY <3>2 DEF Conclusion
      <4>2. p.state = "failed" /\ p.sent = 0
        BY <1>7, <1>8, <3>2
      <4> HIDE DEF p, r, i, from
      <4>3. 1 \in 0 .. MaxSends + 1 /\ 1 = p.sent + 1
        BY <4>2, TlsAssumption
      <4> QED
        BY <1>4, <1>5, <2>1, <4>1, <4>2, <4>3, AlertSound
    <3> QED
      BY <3>1, <3>2
  <2> QED
    BY <1>1, <1>2, <2>2, ReplyMade
<1>12. ASSUME Len(ssl[e]) = 1, tcp[e] # "reset",
              NEW n \in 1 .. ssl[o][from].sent, n > 0
       PROVE  OnTheWire(wire'[e], from, n)
  <2>1. CASE e = "client"
    <3> DEFINE c == ssl[o][from]
    <3>1. o = "server" /\ Other(o) = e /\ o \in End
      BY <2>1 DEF Other, End
    <3>2. Known(ssl[e], o, from, c) /\ c.sent \in Nat
      BY <1>5, <3>1, WireTyped, ObjectTyped DEF EInv, KnownObjects
    <3>3. c.sent > 0 => ssl[e][i].peer = from
      BY <1>4, <1>5, <3>2 DEF Known
    <3>4. ssl[e][i].peer = 0
      BY <1>4, <1>6, <2>1 DEF Known
    <3>5. c.sent = 0
      BY <1>5, <3>2, <3>3, <3>4
    <3> QED
      BY <1>12, <3>5
  <2>2. CASE e # "client"
    <3>1. s.peer = from /\ Head1(e).kind = "finish" /\ i = 1
      BY <1>1, <1>4, <1>12, <2>2
    <3>2. stage[e] # "gone"
      BY <1>1 DEF EInv, Waiting
    <3>3. OnTheWire(wire[e], from, n)
      BY <1>4, <1>5, <1>8, <1>12, <3>1, <3>2 DEF EInv, Pending
    <3>4. wire[e] \in Seq(WireRecord) /\ wire[e] # <<>> /\ Head(wire[e]).kind # "data"
      BY <1>1, <3>1, HeadSound
    <3>5. wire'[e] = Tail(wire[e])
      BY <1>2, ReplySides
    <3> QED
      BY <3>3, <3>4, <3>5, TailKeeps
  <2> QED
    BY <2>1, <2>2
<1>13. stage[e] = "built"
  BY <1>1 DEF EInv, Waiting
<1>14. call'[o] = call[o] /\ UNCHANGED <<stage, tcp>>
  BY OtherEnd DEF Conclude, Idle, IInv, TypeOK
<1> HIDE DEF p, s, from, r, i
<1>15. EndChange(e, i, p, r)
  BY <1>3, <1>4, <1>7, <1>8, <1>9, <1>10, <1>11, <1>12, <1>13, <1>14 DEF EndChange, s
<1> QED
  BY <1>15, EndChangeStep

\* An object whose handshake has failed gets nothing.
LEMMA HandshakeFailsEnd ==
  ASSUME IInv, IInv', EInv, NEW e \in End, Unexpected(e) \/ HandshakeEof(e)
  PROVE  EInv'
<1> DEFINE i == Cur(e)
           o == Other(e)
           s == ssl[e][i]
           p == [s EXCEPT !.state = "failed"]
           r == Record("alert", i, 0, 0)
<1>1. /\ call[e] = "negotiate"
      /\ ssl' = [ssl EXCEPT ![e] = [@ EXCEPT ![i] = p]]
      /\ call' = [call EXCEPT ![e] = "-"]
      /\ UNCHANGED stage
      /\ UNCHANGED tcp \/ (ErrorTaken(e) /\ tcp[e] # "up")
  BY DEF Unexpected, HandshakeEof, Idle
<1>2. /\ i \in 1 .. Len(ssl[e]) /\ i \in 0 .. MaxSsl /\ s \in SslObject
      /\ s.state = "handshake" /\ s.got = 0
  BY <1>1, HandshakeFacts
<1>3. Known(ssl[o], e, i, s)
  BY <1>2 DEF EInv, KnownObjects
<1>4. /\ p \in SslObject /\ p.peer = s.peer /\ p.state = "failed" /\ p.got = 0
      /\ p.sent = s.sent /\ p.closed = s.closed /\ p.end = s.end /\ s.sent \in Nat
  BY <1>2, TlsAssumption DEF SslObject
<1>5. s.end = "-" /\ s.sent = 0
  BY <1>2, <1>3 DEF Known
<1>6. Later(s, p)
  BY <1>4 DEF Later
<1>7. Known(ssl[o], e, i, p)
  BY <1>2, <1>3, <1>4, <1>5 DEF Known
<1>8. OwnSide(e) /\ PeerSide(e, r)
  <2>1. i \in 1 .. Len(ssl'[e])
    BY <1>1, <1>2, <1>4, ChangedFacts
  <2>2. r \in WireRecord /\ Sound(ssl'[e], r)
    BY <1>2, <2>1, AlertSound, TlsAssumption
  <2>3. CASE Unexpected(e)
    BY <2>2, <2>3, ReplyMade, TakeMade DEF Unexpected
  <2>4. CASE HandshakeEof(e)
    BY <2>4 DEF HandshakeEof, OwnSide, PeerSide
  <2> QED
    BY <2>3, <2>4
<1>9. stage[e] = "built"
  BY <1>1 DEF EInv, Waiting
<1>10. call'[o] = call[o] /\ tcp'[o] = tcp[o] /\ (tcp'[e] # "up" => tcp[e] # "up")
  BY <1>1, OtherEnd DEF IInv, TypeOK, ErrorTaken
<1> HIDE DEF p, s, r, i
<1>11. EndChange(e, i, p, r)
  BY <1>1, <1>2, <1>4, <1>5, <1>6, <1>7, <1>8, <1>9, <1>10 DEF EndChange, s
<1> QED
  BY <1>11, EndChangeStep

\* The object of a session that an end calls send(), shutdown() or receive() on.
LEMMA SessionKnown ==
  ASSUME IInv, EInv, NEW e \in End, session[e] # 0
  PROVE  /\ session[e] \in 1 .. Len(ssl[e]) /\ session[e] \in 0 .. MaxSsl
         /\ Session(e) \in SslObject /\ Session(e) = ssl[e][session[e]]
         /\ Session(e).peer \in 0 .. MaxSsl /\ Session(e).sent \in 0 .. MaxSends
         /\ Session(e).got \in 0 .. MaxSends
         /\ Session(e).state # "handshake"
         /\ Known(ssl[Other(e)], e, session[e], Session(e))
BY SessionFacts DEF Session, SslObject, EInv, KnownObjects

LEMMA PutMade ==
  ASSUME IInv, NEW e \in End, NEW r \in WireRecord, Sound(ssl'[e], r), Put(e, r)
  PROVE  OwnSide(e) /\ PeerSide(e, r)
BY PutSides DEF OwnSide, PeerSide

\* The object of the session has got all that its peer's will ever have sent.
Complete(e) ==
  LET s == Session(e)
      q == ssl[Other(e)][s.peer]
  IN /\ s.peer # 0 /\ s.got = q.sent
     /\ q.closed \/ q.state = "failed" \/ stage[Other(e)] = "gone"

\* What is left to get for an end that has negotiated once.
LEMMA SessionLeft ==
  ASSUME IInv, EInv, NEW e \in End, session[e] # 0, Len(ssl[e]) = 1,
         stage[e] = "built", Session(e).state = "open"
  PROVE  /\ session[e] = 1 /\ Session(e) = ssl[e][1]
         /\ tcp[e] # "reset" /\ Session(e).end # "error" =>
              \A n \in 1 .. ssl[Other(e)][Session(e).peer].sent : n > Session(e).got =>
                OnTheWire(wire[e], Session(e).peer, n)
         /\ Session(e).end = "eof" => Complete(e)
<1>1. session[e] \in 1 .. 1 /\ Known(ssl[Other(e)], e, session[e], Session(e))
  BY SessionKnown
<1>2. session[e] = 1
  BY <1>1
<1>3. Session(e) = ssl[e][1] /\ Session(e).peer # 0
  BY <1>1, <1>2 DEF Session, Known
<1> QED
  BY <1>2, <1>3 DEF EInv, Pending, Ended, Complete

\* There is nothing above what is complete.
LEMMA NothingLeft ==
  ASSUME IInv, EInv, NEW e \in End, session[e] # 0,
         Session(e).peer # 0, Session(e).got = ssl[Other(e)][Session(e).peer].sent
  PROVE  ~\E n \in 1 .. ssl[Other(e)][Session(e).peer].sent : n > Session(e).got
<1> DEFINE g == Session(e).got
<1>1. g \in 0 .. MaxSends
  BY SessionKnown
<1>2. g \in Nat /\ g = ssl[Other(e)][Session(e).peer].sent
  BY <1>1, TlsAssumption
<1> HIDE DEF g
<1>3. ~\E n \in 1 .. g : n > g
  BY <1>2
<1> QED
  BY <1>2, <1>3 DEF g

\* A call on the object of a session that neither sends nor gets any data: what is on
\* the wire stays there, unless the object is of no use any more, and an end of the
\* stream is met only when it has got all.
LEMMA SessionEnd ==
  ASSUME IInv, IInv', EInv, NEW e \in End, session[e] # 0, stage[e] = "built",
         UNCHANGED stage, call'[Other(e)] = call[Other(e)], Session(e).state = "open",
         NEW p \in SslObject, NEW r,
         ssl' = [ssl EXCEPT ![e] = [@ EXCEPT ![session[e]] = p]],
         p.peer = Session(e).peer, p.sent = Session(e).sent, p.got = Session(e).got,
         p.state # "handshake", Session(e).closed => p.closed,
         Session(e).end # "-" => p.end = Session(e).end,
         tcp'[Other(e)] = tcp[Other(e)], tcp'[e] # "up" => tcp[e] # "up",
         tcp'[e] # "reset" /\ tcp[e] = "reset" => p.end # "-",
         OwnSide(e), PeerSide(e, r),
         p.state # "failed" =>
           \A from, n : OnTheWire(wire[e], from, n) => OnTheWire(wire'[e], from, n),
         Len(ssl[e]) = 1 /\ Session(e).end = "-" /\ p.end = "eof" => Complete(e)
  PROVE  EInv'
<1> DEFINE i == session[e]
           o == Other(e)
           s == Session(e)
<1>1. /\ i \in 1 .. Len(ssl[e]) /\ s \in SslObject /\ s = ssl[e][i]
      /\ s.sent \in 0 .. MaxSends /\ Known(ssl[o], e, i, s)
  BY SessionKnown
<1>2. Later(s, p)
  <2>1. s.sent <= p.sent
    <3> DEFINE m == s.sent
    <3>1. m \in Nat /\ p.sent = m
      BY <1>1, TlsAssumption
    <3> HIDE DEF m
    <3>2. m <= p.sent
      BY <3>1
    <3> QED
      BY <3>2 DEF m
  <2> QED
    BY <2>1 DEF Later
<1>3. Known(ssl[o], e, i, p)
  <2> HIDE DEF s, o, i
  <2> QED
    BY <1>1 DEF Known, s
<1>4. Len(ssl[e]) = 1 /\ p.end = "eof" => Complete(e)
  BY SessionLeft DEF SslObject
<1>5. Len(ssl[e]) = 1 /\ tcp'[e] # "reset" /\ p.peer # 0 /\ p.state # "failed"
      /\ p.end # "error" =>
        \A n \in 1 .. ssl[o][p.peer].sent : n > p.got => OnTheWire(wire'[e], p.peer, n)
  <2>1. CASE p.end = "eof"
    BY <1>4, <2>1, NothingLeft DEF Complete
  <2>2. CASE p.end = "-"
    BY <2>2, SessionLeft
  <2> QED
    BY <2>1, <2>2 DEF SslObject
<1>6. EndChange(e, i, p, r)
  <2> HIDE DEF i, o
  <2> QED
    BY <1>1, <1>2, <1>3, <1>4, <1>5 DEF EndChange, Complete, i, o
<1> QED
  BY <1>6, EndChangeStep

\* What is sent is on the wire.
LEMMA SendEnd ==
  ASSUME IInv, IInv', EInv, NEW e \in End, Send(e)
  PROVE  EInv'
<1> DEFINE i == session[e]
           o == Other(e)
           s == ssl[e][i]
           p == [s EXCEPT !.sent = @ + 1]
           r == Record("data", i, s.peer, s.sent + 1)
<1>1. /\ stage[e] = "built" /\ call[e] = "-" /\ i # 0
      /\ s.state = "open" /\ ~s.closed /\ s.sent < MaxSends
      /\ ssl' = [ssl EXCEPT ![e] = [@ EXCEPT ![i] = p]]
      /\ Put(e, r)
      /\ UNCHANGED <<stage, session, call, tcp>>
  BY DEF Send, Writes, HasSession, CallsFrom, Session
<1>2. /\ i \in 1 .. Len(ssl[e]) /\ i \in 0 .. MaxSsl /\ s \in SslObject
      /\ s.peer \in 0 .. MaxSsl /\ s.sent \in 0 .. MaxSends
      /\ Known(ssl[o], e, i, s)
  BY <1>1, SessionKnown DEF Session
<1>3. s.sent \in Nat /\ s.sent + 1 \in 0 .. MaxSends
  BY <1>1, <1>2, TlsAssumption
<1>4. /\ p \in SslObject /\ p.peer = s.peer /\ p.state = "open" /\ p.got = s.got
      /\ p.sent = s.sent + 1 /\ p.closed = s.closed /\ p.end = s.end
  BY <1>1, <1>2, <1>3 DEF SslObject
<1>5. Later(s, p)
  BY <1>1, <1>3, <1>4 DEF Later
<1>6. Known(ssl[o], e, i, p)
  <2> HIDE DEF p, s, o, i
  <2> QED
    BY <1>1, <1>2, <1>4 DEF Known
<1>7. r \in WireRecord
  BY <1>2, <1>3, TlsAssumption DEF Record, WireRecord
<1>8. Sound(ssl'[e], r)
  <2>1. i \in 1 .. Len(ssl'[e]) /\ ssl'[e][i] = p
    <3> HIDE DEF p, i, r
    <3> QED
      BY <1>1, <1>2, <1>4, ChangedFacts
  <2>2. r.from = i /\ r.kind = "data" /\ r.n = s.sent + 1
    BY DEF Record
  <2>3. r.n <= p.sent
    <3> DEFINE m == s.sent
    <3>1. m \in Nat /\ r.n = m + 1 /\ p.sent = m + 1
      BY <1>3, <1>4, <2>2
    <3> HIDE DEF r, p, m
    <3> QED
      BY <3>1
  <2> HIDE DEF r, p, i, s
  <2> QED
    BY <2>1, <2>2, <2>3 DEF Sound
<1>9. OwnSide(e) /\ PeerSide(e, r) /\ wire'[e] = wire[e]
  <2> HIDE DEF r
  <2> QED
    BY <1>1, <1>7, <1>8, PutMade, PutSides
<1>10. stage[o] # "gone" => OnTheWire(wire'[o], i, s.sent + 1)
  <2>1. wire[o] \in Seq(WireRecord)
    BY WireTyped, OtherEnd
  <2>2. r.kind = "data" /\ r.from = i /\ r.n = s.sent + 1
    BY DEF Record
  <2> HIDE DEF r
  <2>3. stage[o] # "gone" => wire'[o] = Append(wire[o], r)
    BY <1>1, PutSides
  <2> QED
    BY <1>7, <2>1, <2>2, <2>3, AppendKeeps
<1>11. /\ Len(ssl[e]) = 1 /\ tcp[e] # "reset" /\ s.end # "error" =>
            \A n \in 1 .. ssl[o][s.peer].sent : n > s.got => OnTheWire(wire'[e], s.peer, n)
       /\ Len(ssl[e]) = 1 /\ s.end = "eof" => Complete(e)
  BY <1>1, <1>9, SessionLeft DEF Session
<1> HIDE DEF p, s, r, i
<1>12. EndChange(e, i, p, r)
  BY <1>1, <1>2, <1>4, <1>5, <1>6, <1>9, <1>10, <1>11 DEF EndChange, Complete, Session, s, i, o
<1> QED
  BY <1>12, EndChangeStep

\* close_notify is behind the last record.
LEMMA ShutdownEnd ==
  ASSUME IInv, IInv', EInv, NEW e \in End, Shutdown(e)
  PROVE  EInv'
<1> DEFINE i == session[e]
           s == Session(e)
           p == [s EXCEPT !.closed = TRUE]
           r == Record("close", i, s.peer, s.sent + 1)
<1>1. /\ stage[e] = "built" /\ i # 0 /\ s.state = "open"
      /\ ssl' = [ssl EXCEPT ![e] = [@ EXCEPT ![i] = p]]
      /\ Put(e, r)
      /\ UNCHANGED <<stage, call, tcp>>
  BY DEF Shutdown, Writes, HasSession, CallsFrom, Session
<1>2. /\ i \in 1 .. Len(ssl[e]) /\ i \in 0 .. MaxSsl /\ s \in SslObject
      /\ s.peer \in 0 .. MaxSsl /\ s.sent \in 0 .. MaxSends
  BY <1>1, SessionKnown
<1>3. s.sent + 1 \in 0 .. MaxSends + 1
  BY <1>2, TlsAssumption
<1>4. /\ p \in SslObject /\ p.peer = s.peer /\ p.state = "open" /\ p.got = s.got
      /\ p.sent = s.sent /\ p.closed /\ p.end = s.end
  BY <1>1, <1>2 DEF SslObject
<1>5. r \in WireRecord
  BY <1>2, <1>3, TlsAssumption DEF Record, WireRecord
<1>6. Sound(ssl'[e], r)
  <2>1. i \in 1 .. Len(ssl'[e]) /\ ssl'[e][i] = p
    <3> HIDE DEF p, i, r
    <3> QED
      BY <1>1, <1>2, <1>4, ChangedFacts
  <2> QED
    BY <1>4, <2>1 DEF Sound, Record
<1>7. OwnSide(e) /\ PeerSide(e, r) /\ wire'[e] = wire[e]
  <2> HIDE DEF r
  <2> QED
    BY <1>1, <1>5, <1>6, PutMade, PutSides
<1> HIDE DEF p, s, r
<1> QED
  BY <1>1, <1>4, <1>7, SessionEnd DEF s

\* A call that cannot write has met an error.
LEMMA WriteFailsEnd ==
  ASSUME IInv, IInv', EInv, NEW e \in End, SendFails(e) \/ ShutdownFails(e)
  PROVE  EInv'
<1> DEFINE s == Session(e)
<1>1. /\ stage[e] = "built" /\ session[e] # 0 /\ s.state = "open" /\ tcp[e] # "up"
      /\ ErrorTaken(e) /\ UNCHANGED <<stage, call, wire>>
  BY DEF SendFails, ShutdownFails, Writes, HasSession, CallsFrom
<1>2. s \in SslObject
  BY <1>1, SessionKnown
<1>3. PICK t \in {s, [s EXCEPT !.closed = TRUE]} :
        ssl' = [ssl EXCEPT ![e] = [@ EXCEPT ![session[e]] = Met(t, "error")]]
  BY DEF SendFails, ShutdownFails, Session
<1>4. /\ t \in SslObject /\ t.peer = s.peer /\ t.state = "open" /\ t.got = s.got
      /\ t.sent = s.sent /\ (s.closed => t.closed) /\ t.end = s.end
  BY <1>1, <1>2, <1>3 DEF SslObject
<1> DEFINE p == Met(t, "error")
<1>5. /\ p \in SslObject /\ p.peer = s.peer /\ p.state = "open" /\ p.got = s.got
      /\ p.sent = s.sent /\ (s.closed => p.closed)
      /\ p.end = IF s.end = "-" THEN "error" ELSE s.end
  BY <1>4, MetFacts
<1>6. OwnSide(e) /\ PeerSide(e, 0)
  BY <1>1 DEF OwnSide, PeerSide
<1>7. tcp'[Other(e)] = tcp[Other(e)]
  BY <1>1, OtherEnd DEF ErrorTaken, IInv, TypeOK
<1> HIDE DEF p, s
<1> QED
  BY <1>1, <1>3, <1>5, <1>6, <1>7, SessionEnd DEF s, p

\* What all of the steps of SSL_read that look at the socket have in common.
LEMMA ReadFacts ==
  ASSUME IInv, EInv, NEW e \in End, Reads(e)
  PROVE  /\ call[e] = "receive" /\ session[e] # 0 /\ stage[e] = "built"
         /\ Session(e).state = "open" /\ Session(e).peer # 0
         /\ Idle(e) => call'[Other(e)] = call[Other(e)]
<1>1. call[e] = "receive" /\ session[e] # 0 /\ Session(e).state = "open"
  BY DEF Reads, Reading, IInv, TypeOK
<1>2. stage[e] = "built" /\ Session(e).peer # 0
  BY <1>1, SessionKnown DEF EInv, Waiting, Known
<1> QED
  BY <1>1, <1>2, OtherEnd DEF Idle, IInv, TypeOK

LEMMA ReceiveDataEnd ==
  ASSUME IInv, IInv', EInv, NEW e \in End, ReceiveData(e)
  PROVE  EInv'
<1> DEFINE i == session[e]
           o == Other(e)
           s == ssl[e][i]
           p == [s EXCEPT !.got = @ + 1]
           r == Head1(e)
<1>1. /\ i # 0 /\ stage[e] = "built" /\ s.state = "open" /\ s.peer # 0
      /\ call'[o] = call[o]
      /\ UNCHANGED <<stage, tcp>>
  BY ReadFacts DEF ReceiveData, Session
<1>2. /\ Arrived(e) /\ r.kind = "data" /\ r.from = s.peer /\ r.n = s.got + 1
      /\ ssl' = [ssl EXCEPT ![e] = [@ EXCEPT ![i] = p]]
      /\ Take(e)
  BY DEF ReceiveData, Decrypts, Session
<1>3. /\ i \in 1 .. Len(ssl[e]) /\ s \in SslObject /\ s.got \in 0 .. MaxSends
      /\ s.sent \in 0 .. MaxSends
      /\ Known(ssl[o], e, i, s)
  BY <1>1, SessionKnown DEF Session
<1>4. /\ wire[e] \in Seq(WireRecord) /\ wire[e] # <<>> /\ r = Head(wire[e])
      /\ r \in WireRecord /\ r.n <= ssl[o][s.peer].sent
  BY <1>2, HeadSound DEF Sound
<1>5. s.got + 1 \in 0 .. MaxSends /\ s.got \in Nat /\ s.sent \in Nat
  <2> DEFINE g == s.got
  <2>1. r.n <= MaxSends /\ r.n = g + 1
    BY <1>2, <1>4 DEF WireRecord
  <2>2. g \in 0 .. MaxSends /\ s.sent \in 0 .. MaxSends /\ MaxSends \in Nat
    BY <1>3, TlsAssumption
  <2> HIDE DEF g, s, r
  <2>3. g + 1 \in 0 .. MaxSends /\ g \in Nat /\ s.sent \in Nat
    BY <2>1, <2>2
  <2> QED
    BY <2>3 DEF g
<1>6. /\ p \in SslObject /\ p.peer = s.peer /\ p.state = "open" /\ p.got = s.got + 1
      /\ p.sent = s.sent /\ p.closed = s.closed /\ p.end = s.end
  BY <1>1, <1>3, <1>5 DEF SslObject
<1>7. Later(s, p)
  BY <1>1, <1>5, <1>6 DEF Later
<1>8. Known(ssl[o], e, i, p)
  BY <1>1, <1>2, <1>3, <1>4, <1>6 DEF Known
<1>9. OwnSide(e) /\ PeerSide(e, r) /\ wire'[e] = Tail(wire[e])
  BY <1>2, TakeMade, TakeSides
<1>10. ASSUME Len(ssl[e]) = 1, tcp[e] # "reset", s.end # "error",
              NEW n \in 1 .. ssl[o][s.peer].sent, n > s.got + 1
       PROVE  OnTheWire(wire'[e], s.peer, n)
  <2>1. n > s.got /\ n # s.got + 1
    BY <1>5, <1>10
  <2>2. OnTheWire(wire[e], s.peer, n)
    BY <1>1, <1>10, <2>1, SessionLeft DEF Session
  <2> QED
    BY <1>2, <1>4, <1>9, <2>1, <2>2, TailKeeps
<1>11. ~(Len(ssl[e]) = 1 /\ s.end = "eof")
  <2> SUFFICES ASSUME Len(ssl[e]) = 1, s.end = "eof" PROVE FALSE
    OBVIOUS
  <2> DEFINE g == s.got
  <2>1. g = ssl[o][s.peer].sent
    BY <1>1, SessionLeft DEF Complete, Session
  <2>2. r.n <= g /\ r.n = g + 1 /\ g \in Nat
    BY <1>2, <1>4, <1>5, <2>1
  <2> HIDE DEF g, r
  <2> QED
    BY <2>2
<1> HIDE DEF p, s, r, i
<1>12. EndChange(e, i, p, r)
  BY <1>1, <1>2, <1>3, <1>6, <1>7, <1>8, <1>9, <1>10, <1>11 DEF EndChange, s
<1> QED
  BY <1>12, EndChangeStep

\* close_notify and an alert are in sequence only behind all that was sent.
LEMMA ReceiveCloseEnd ==
  ASSUME IInv, IInv', EInv, NEW e \in End, ReceiveClose(e)
  PROVE  EInv'
<1> DEFINE i == session[e]
           o == Other(e)
           s == Session(e)
           r == Head1(e)
           state == IF r.kind = "alert" THEN "failed" ELSE "open"
           t == [s EXCEPT !.eof = TRUE, !.state = state]
           p == Met(t, "eof")
<1>1. /\ i # 0 /\ stage[e] = "built" /\ s.state = "open" /\ s.peer # 0
      /\ call'[o] = call[o] /\ UNCHANGED <<stage, tcp>>
  BY ReadFacts DEF ReceiveClose
<1>2. /\ Arrived(e) /\ r.kind \in {"close", "alert"} /\ r.from = s.peer /\ r.n = s.got + 1
      /\ ssl' = [ssl EXCEPT ![e] = [@ EXCEPT ![i] = p]]
      /\ Take(e)
  BY DEF ReceiveClose, Decrypts, Session
<1>3. s \in SslObject /\ s.got \in 0 .. MaxSends
  BY <1>1, SessionKnown
<1>4. /\ t \in SslObject /\ t.peer = s.peer /\ t.state # "handshake" /\ t.got = s.got
      /\ t.sent = s.sent /\ t.closed = s.closed /\ t.end = s.end
  BY <1>3 DEF SslObject
<1>5. /\ p \in SslObject /\ p.peer = s.peer /\ p.state # "handshake" /\ p.got = s.got
      /\ p.sent = s.sent /\ p.closed = s.closed
      /\ p.end = IF s.end = "-" THEN "eof" ELSE s.end
  <2> HIDE DEF t, s
  <2> QED
    BY <1>4, MetFacts
<1>6. Complete(e)
  <2> DEFINE g == s.got
             m == ssl[o][s.peer].sent
  <2>1. Sound(ssl[o], r) /\ r.n # 0
    <3>1. g + 1 # 0 /\ r.n = g + 1
      BY <1>2, <1>3, TlsAssumption
    <3> QED
      BY <1>2, <3>1, HeadSound
  <2>2. /\ s.peer \in 1 .. Len(ssl[o]) /\ r.n = m + 1
        /\ ssl[o][s.peer].closed \/ ssl[o][s.peer].state = "failed"
    BY <1>2, <2>1 DEF Sound
  <2>3. g \in Nat /\ m \in Nat /\ g + 1 = m + 1
    BY <1>2, <1>3, <2>2, TlsAssumption, WireTyped, OtherEnd, ObjectTyped
  <2> HIDE DEF g, m
  <2>4. g = m
    BY <2>3
  <2> QED
    BY <1>1, <2>2, <2>4 DEF Complete, g, m
<1>7. OwnSide(e) /\ PeerSide(e, r) /\ wire'[e] = Tail(wire[e])
  BY <1>2, TakeMade, TakeSides
<1>8. \A from, n : OnTheWire(wire[e], from, n) => OnTheWire(wire'[e], from, n)
  <2>1. wire[e] \in Seq(WireRecord) /\ wire[e] # <<>> /\ Head(wire[e]).kind # "data"
    BY <1>2, HeadSound
  <2> QED
    BY <1>7, <2>1, TailKeeps
<1> HIDE DEF p, s, r, t, state
<1> QED
  BY <1>1, <1>2, <1>5, <1>6, <1>7, <1>8, SessionEnd DEF s

\* A ticket is no data.
LEMMA ReceiveTicketEnd ==
  ASSUME IInv, IInv', EInv, NEW e \in End, ReceiveTicket(e)
  PROVE  EInv'
<1> DEFINE i == session[e]
           s == Session(e)
<1>1. /\ i # 0 /\ stage[e] = "built" /\ s.state = "open" /\ s.peer # 0
      /\ Arrived(e) /\ Head1(e).kind = "ticket" /\ Take(e)
      /\ UNCHANGED <<ssl, stage, call, tcp>>
  BY ReadFacts DEF ReceiveTicket
<1>2. /\ s \in SslObject /\ s = ssl[e][i] /\ i \in 1 .. Len(ssl[e])
      /\ s.state # "handshake"
  BY <1>1, SessionKnown
<1>3. ssl' = [ssl EXCEPT ![e] = [@ EXCEPT ![i] = s]]
  <2>1. ssl \in [End -> Seq(SslObject)]
    BY DEF IInv, TypeOK
  <2>2. [ssl[e] EXCEPT ![i] = s] = ssl[e]
    BY <1>2, <2>1
  <2> HIDE DEF i, s
  <2> QED
    BY <1>1, <2>1, <2>2
<1>4. OwnSide(e) /\ PeerSide(e, 0) /\ wire'[e] = Tail(wire[e])
  BY <1>1, TakeMade, TakeSides
<1>5. \A from, n : OnTheWire(wire[e], from, n) => OnTheWire(wire'[e], from, n)
  <2>1. wire[e] \in Seq(WireRecord) /\ wire[e] # <<>> /\ Head(wire[e]).kind # "data"
    BY <1>1, HeadSound
  <2> QED
    BY <1>4, <2>1, TailKeeps
<1> HIDE DEF s
<1> QED
  BY <1>1, <1>2, <1>3, <1>4, <1>5, SessionEnd DEF s

\* An object that has failed gets nothing any more.
LEMMA ReceiveBadEnd ==
  ASSUME IInv, IInv', EInv, NEW e \in End, ReceiveBad(e)
  PROVE  EInv'
<1> DEFINE i == session[e]
           o == Other(e)
           s == Session(e)
           t == [s EXCEPT !.state = "failed"]
           p == Met(t, "error")
           r == Record("alert", i, s.peer, s.sent + 1)
<1>1. /\ i # 0 /\ stage[e] = "built" /\ s.state = "open" /\ s.peer # 0
      /\ call'[o] = call[o] /\ UNCHANGED <<stage, tcp>>
  BY ReadFacts DEF ReceiveBad
<1>2. /\ Arrived(e)
      /\ ssl' = [ssl EXCEPT ![e] = [@ EXCEPT ![i] = p]]
      /\ Take(e) \/ Reply(e, r)
  BY DEF ReceiveBad, ReadFailed, Session
<1>3. /\ i \in 1 .. Len(ssl[e]) /\ i \in 0 .. MaxSsl /\ s \in SslObject
      /\ s.sent \in 0 .. MaxSends /\ s.peer \in 0 .. MaxSsl
  BY <1>1, SessionKnown
<1>4. /\ t \in SslObject /\ t.peer = s.peer /\ t.state = "failed" /\ t.got = s.got
      /\ t.sent = s.sent /\ t.closed = s.closed /\ t.end = s.end
  BY <1>3 DEF SslObject
<1>5. /\ p \in SslObject /\ p.peer = s.peer /\ p.state = "failed" /\ p.got = s.got
      /\ p.sent = s.sent /\ p.closed = s.closed
      /\ p.end = IF s.end = "-" THEN "error" ELSE s.end
  <2> HIDE DEF t, s
  <2> QED
    BY <1>4, MetFacts
<1>6. OwnSide(e) /\ PeerSide(e, r)
  <2>1. i \in 1 .. Len(ssl'[e]) /\ ssl'[e][i] = p
    <3> HIDE DEF p, i, r
    <3> QED
      BY <1>2, <1>3, <1>5, ChangedFacts
  <2>2. s.sent + 1 \in 0 .. MaxSends + 1
    BY <1>3, TlsAssumption
  <2>3. r \in WireRecord /\ Sound(ssl'[e], r)
    <3> HIDE DEF p, i, s
    <3> QED
      BY <1>3, <1>5, <2>1, <2>2, AlertSound
  <2> HIDE DEF r
  <2> QED
    BY <1>2, <2>3, ReplyMade, TakeMade
<1> HIDE DEF p, s, r, t
<1> QED
  BY <1>1, <1>2, <1>5, <1>6, SessionEnd DEF s

\* What was lost in a reset has been told.
LEMMA ReceiveResetEnd ==
  ASSUME IInv, IInv', EInv, NEW e \in End, ReceiveReset(e)
  PROVE  EInv'
<1> DEFINE s == Session(e)
           p == Met(s, "error")
<1>1. /\ session[e] # 0 /\ stage[e] = "built" /\ s.state = "open" /\ tcp[e] # "up"
      /\ call'[Other(e)] = call[Other(e)]
      /\ ssl' = [ssl EXCEPT ![e] = [@ EXCEPT ![session[e]] = p]]
      /\ ErrorTaken(e) /\ UNCHANGED <<stage, wire>>
  BY ReadFacts DEF ReceiveReset, ReadFailed, Session
<1>2. s \in SslObject
  BY <1>1, SessionKnown
<1>3. /\ p \in SslObject /\ p.peer = s.peer /\ p.state = "open" /\ p.got = s.got
      /\ p.sent = s.sent /\ p.closed = s.closed
      /\ p.end = IF s.end = "-" THEN "error" ELSE s.end
  BY <1>1, <1>2, MetFacts
<1>4. OwnSide(e) /\ PeerSide(e, 0)
  BY <1>1 DEF OwnSide, PeerSide
<1>5. tcp'[Other(e)] = tcp[Other(e)]
  BY <1>1, OtherEnd DEF ErrorTaken, IInv, TypeOK
<1> HIDE DEF p, s
<1> QED
  BY <1>1, <1>3, <1>4, <1>5, SessionEnd DEF s

\* The connection ends, and nothing is on the wire: there is nothing left to get, unless
\* an error was met before.
LEMMA ReceiveEofEnd ==
  ASSUME IInv, IInv', EInv, NEW e \in End, ReceiveEof(e)
  PROVE  EInv'
<1> DEFINE i == session[e]
           o == Other(e)
           s == Session(e)
<1>1. /\ i # 0 /\ stage[e] = "built" /\ s.state = "open" /\ s.peer # 0
      /\ call'[o] = call[o] /\ UNCHANGED <<stage, tcp, wire>>
      /\ tcp[e] = "eof" /\ ~Arrived(e)
  BY ReadFacts DEF ReceiveEof
<1>2. PICK state \in {"open", "failed"} :
        ssl' = [ssl EXCEPT ![e] = [@ EXCEPT ![i] = Met([s EXCEPT !.state = state], "eof")]]
  BY DEF ReceiveEof, Session
<1> DEFINE t == [s EXCEPT !.state = state]
           p == Met(t, "eof")
<1>3. /\ s \in SslObject /\ s.got \in 0 .. MaxSends /\ Known(ssl[o], e, i, s)
  BY <1>1, SessionKnown
<1>4. /\ t \in SslObject /\ t.peer = s.peer /\ t.state # "handshake" /\ t.got = s.got
      /\ t.sent = s.sent /\ t.closed = s.closed /\ t.end = s.end
  BY <1>3 DEF SslObject
<1>5. /\ p \in SslObject /\ p.peer = s.peer /\ p.state # "handshake" /\ p.got = s.got
      /\ p.sent = s.sent /\ p.closed = s.closed
      /\ p.end = IF s.end = "-" THEN "eof" ELSE s.end
  <2> HIDE DEF t, s
  <2> QED
    BY <1>4, MetFacts
<1>6. stage[o] = "gone"
  BY <1>1 DEF EInv, Waiting
<1>7. ASSUME Len(ssl[e]) = 1, s.end = "-"
      PROVE  Complete(e)
  <2> DEFINE m == ssl[o][s.peer].sent
             g == s.got
  <2>1. \A n \in 1 .. m : n > g => OnTheWire(wire[e], s.peer, n)
    BY <1>1, <1>7, SessionLeft
  <2>2. \A n : ~OnTheWire(wire[e], s.peer, n)
    <3>1. wire[e] = <<>>
      BY <1>1 DEF Arrived
    <3>2. Len(<<>>) = 0
      BY EmptySeq
    <3> QED
      BY <3>1, <3>2 DEF OnTheWire
  <2>3. m \in Nat
    <3>1. s.peer \in 0 .. Len(ssl[o]) /\ Len(ssl[o]) \in Nat
      BY <1>3, WireTyped, OtherEnd, ObjectTyped DEF Known
    <3>2. s.peer \in 1 .. Len(ssl[o])
      BY <1>1, <3>1
    <3> QED
      BY <3>2, WireTyped, OtherEnd, ObjectTyped
  <2>4. g > 0 => g <= m
    BY <1>3 DEF Known
  <2>5. g \in Nat /\ m \in Nat /\ (g > 0 => g <= m) /\ \A n \in 1 .. m : ~(n > g)
    BY <1>3, <2>1, <2>2, <2>3, <2>4, TlsAssumption
  <2> HIDE DEF m, g
  <2>6. m <= g
    BY <2>5
  <2>7. g = m
    BY <2>5, <2>6
  <2> QED
    BY <1>1, <1>6, <2>7 DEF Complete, m, g
<1>8. OwnSide(e) /\ PeerSide(e, 0)
  BY <1>1 DEF OwnSide, PeerSide
<1> HIDE DEF p, s, t
<1> QED
  BY <1>1, <1>2, <1>5, <1>7, <1>8, SessionEnd DEF s, p, t

\* An object that has met its end, or has failed, is not read from any more.
LEMMA ReceiveOverEnd ==
  ASSUME IInv, IInv', EInv, NEW e \in End, ReceiveOver(e)
  PROVE  EInv'
<1>1. call \in [End -> {"-", "negotiate", "receive"}]
  BY DEF IInv, TypeOK
<1> QED
  BY <1>1, NoObjectStep DEF ReceiveOver, Idle

------------------------------------------------------------------------------
(* The steps of the owners.                                                *)

\* An end is gone, and with it the records it has not read.
LEMMA GoneEnd ==
  ASSUME IInv, IInv', EInv, NEW e \in End, stage[e] # "gone", Gone(e),
         UNCHANGED <<ssl, session>>
  PROVE  EInv'
<1> DEFINE o == Other(e)
<1>1. /\ o \in End /\ o # e /\ Other(o) = e
      /\ \A d \in End : d = e \/ d = o
  BY OtherEnd DEF End, Other
<1>2. /\ wire \in [End -> Seq(WireRecord)] /\ ssl \in Objects /\ ssl' \in Objects
      /\ stage \in [End -> {"new", "built", "gone"}]
      /\ call \in [End -> {"-", "negotiate", "receive"}]
      /\ tcp \in [End -> {"up", "eof", "reset"}]
  BY WireTyped DEF IInv, TypeOK
<1>3. /\ stage' = [stage EXCEPT ![e] = "gone"] /\ call' = [call EXCEPT ![e] = "-"]
      /\ tcp' = [tcp EXCEPT ![o] = IF Arrived(e) THEN "reset" ELSE "eof"]
  BY DEF Gone, Idle
<1>4. \A d \in End : wire'[d] \in {wire[d], <<>>}
  <2>1. CASE Arrived(e)
    <3>1. PICK left \in {wire[o], <<>>} : wire' = [wire EXCEPT ![o] = left, ![e] = <<>>]
      BY <2>1 DEF Gone
    <3> HIDE DEF o
    <3> QED
      BY <1>1, <1>2, <3>1
  <2>2. CASE ~Arrived(e)
    BY <2>2 DEF Gone
  <2> QED
    BY <2>1, <2>2
<1>5. ~Arrived(e) => wire' = wire
  BY DEF Gone
<1>6. tcp[o] = "up"
  BY <1>1, <1>2 DEF EInv, Waiting
<1> HIDE DEF o
<1>7. /\ stage'[e] = "gone" /\ stage'[o] = stage[o]
      /\ call'[e] = "-" /\ call'[o] = call[o] /\ tcp'[e] = tcp[e]
      /\ tcp'[o] = IF Arrived(e) THEN "reset" ELSE "eof"
  BY <1>1, <1>2, <1>3
<1>8. Grown(ssl, ssl')
  BY <1>2, GrownSame
<1>9. KnownObjects(ssl')
  BY DEF EInv
<1>10. SoundWire(ssl', wire')
  <2> SUFFICES ASSUME NEW d \in End, NEW k \in 1 .. Len(wire'[d])
               PROVE  Sound(ssl[Other(d)], wire'[d][k])
    BY DEF SoundWire
  <2>1. Len(<<>>) = 0
    BY EmptySeq
  <2>2. wire'[d] = wire[d]
    BY <1>4, <2>1
  <2> QED
    BY <2>2 DEF EInv, SoundWire
<1>11. \A d \in End : Waiting(d)'
  <2>1. Waiting(e)'
    BY <1>1, <1>7, OtherEnd DEF EInv, Waiting, o
  <2>2. Waiting(o)'
    BY <1>1, <1>7 DEF EInv, Waiting
  <2> QED
    BY <1>1, <2>1, <2>2
<1>12. Pending(e)'
  BY <1>7 DEF Pending
<1>13. Pending(o)'
  <2>1. tcp'[o] # "reset" => wire'[o] = wire[o]
    BY <1>5, <1>7
  <2> QED
    BY <1>1, <1>6, <1>7, <2>1, PendingKept
<1>14. \A d \in End : Ended(d)'
  <2>1. \A d \in End : stage[Other(d)] = "gone" => stage'[Other(d)] = "gone"
    BY <1>1, <1>7, OtherEnd
  <2> QED
    BY <1>8, <2>1, OtherEnd, EndedKept
<1> QED
  BY <1>1, <1>9, <1>10, <1>11, <1>12, <1>13, <1>14 DEF EInv

LEMMA OwnerEnd ==
  ASSUME IInv, IInv', EInv, NEW e \in End,
         \/ Build(e) \/ BuildFails(e) \/ DropEnd(e) \/ Expire(e)
         \/ NegotiateFails(e) \/ Receive(e)
  PROVE  EInv'
<1>1. /\ stage \in [End -> {"new", "built", "gone"}]
      /\ call \in [End -> {"-", "negotiate", "receive"}]
  BY DEF IInv, TypeOK
<1>2. CASE Build(e)
  BY <1>1, <1>2, NoObjectStep DEF Build, EInv, Waiting
<1>3. CASE BuildFails(e) \/ DropEnd(e)
  BY <1>3, GoneEnd DEF BuildFails, DropEnd
<1>4. CASE Expire(e) \/ NegotiateFails(e)
  BY <1>4, NoObjectStep DEF Expire, NegotiateFails
<1>5. CASE Receive(e)
  BY <1>1, <1>5, NoObjectStep DEF Receive, HasSession, CallsFrom
<1> QED
  BY <1>2, <1>3, <1>4, <1>5

\* The objects after SSL_new: those there were, and a new one.
LEMMA SslNewMade ==
  ASSUME IInv, NEW e \in End, Negotiate(e)
  PROVE  /\ Len(ssl'[e]) = Len(ssl[e]) + 1
         /\ ssl'[e][Len(ssl[e]) + 1] = NewSsl(ctxVerify'[e])
         /\ \A j \in 1 .. Len(ssl[e]) : ssl'[e][j] = ssl[e][j]
         /\ \A d \in End : d # e => ssl'[d] = ssl[d]
<1> DEFINE s == NewSsl(ctxVerify'[e])
           q == ssl[e]
<1>1. q \in Seq(SslObject) /\ ssl' = [ssl EXCEPT ![e] = Append(q, s)]
  BY DEF IInv, TypeOK, Negotiate, SslNew
<1>2. s \in SslObject
  BY SetVerifyFacts, TlsAssumption DEF Negotiate, NewSsl, SslObject
<1> DEFINE S == SslObject
<1>3. q \in Seq(S) /\ s \in S
  BY <1>1, <1>2
<1>4. ssl'[e] = Append(q, s) /\ \A d \in End : d # e => ssl'[d] = ssl[d]
  BY <1>1 DEF IInv, TypeOK
<1> HIDE DEF S, s, q
<1>5. Len(Append(q, s)) = Len(q) + 1 /\ Len(q) \in Nat
  BY <1>3, AppendProperties, LenProperties
<1>6. \A j \in 1 .. Len(q) + 1 : Append(q, s)[j] = IF j = Len(q) + 1 THEN s ELSE q[j]
  BY <1>3, <1>5
<1>7. /\ Append(q, s)[Len(q) + 1] = s
      /\ \A j \in 1 .. Len(q) : Append(q, s)[j] = q[j]
  BY <1>5, <1>6
<1> QED
  BY <1>4, <1>5, <1>7 DEF s, q

\* A new object knows nobody, and has one, if any, that is not in use any more.
LEMMA NegotiateEnd ==
  ASSUME IInv, IInv', EInv, NEW e \in End, Negotiate(e)
  PROVE  EInv'
<1> DEFINE o == Other(e)
           n == Len(ssl[e])
           s == NewSsl(ctxVerify'[e])
           r == Record("hello", n + 1, 0, 0)
<1>1. /\ Len(ssl'[e]) = n + 1 /\ ssl'[e][n + 1] = s
      /\ \A j \in 1 .. n : ssl'[e][j] = ssl[e][j]
      /\ \A d \in End : d # e => ssl'[d] = ssl[d]
  BY SslNewMade
<1>2. /\ o \in End /\ o # e /\ Other(o) = e /\ ssl'[o] = ssl[o]
      /\ \A d \in End : d = e \/ d = o
  BY <1>1, OtherEnd DEF End, Other
<1>3. /\ ssl \in Objects /\ ssl' \in Objects /\ wire \in [End -> Seq(WireRecord)]
      /\ n \in Nat /\ Len(ssl[o]) \in Nat /\ Len(ssl'[o]) \in Nat
  BY <1>2, WireTyped, WireTypedNext, ObjectTyped
<1>4. /\ s.peer = 0 /\ s.state = "handshake" /\ s.sent = 0 /\ s.got = 0
      /\ ~s.closed /\ s.end = "-"
  BY DEF NewSsl
<1>5. /\ stage[e] = "built" /\ call[e] = "-" /\ n < MaxSsl
      /\ call' = [call EXCEPT ![e] = "negotiate"]
      /\ UNCHANGED <<stage, session, tcp>>
      /\ Put(e, r) \/ UNCHANGED wire
  BY DEF Negotiate, CallsFrom, Cur
<1> HIDE DEF s
<1>6. Grown(ssl, ssl')
  <2>1. ASSUME NEW d \in End
        PROVE  /\ Len(ssl[d]) <= Len(ssl'[d])
               /\ \A j \in 1 .. Len(ssl[d]) : ssl'[d][j] = ssl[d][j]
    <3>1. n <= n + 1 /\ Len(ssl'[o]) <= Len(ssl'[o])
      <4> HIDE DEF n
      <4> QED
        BY <1>3
    <3>2. CASE d = e
      BY <1>1, <3>1, <3>2
    <3>3. CASE d = o
      BY <1>2, <3>1, <3>3
    <3> QED
      BY <1>2, <3>2, <3>3
  <2>2. \A d \in End : \A j \in 1 .. Len(ssl[d]) : Later(ssl[d][j], ssl[d][j])
    BY <1>3, ObjectTyped DEF Later
  <2> QED
    BY <2>1, <2>2 DEF Grown
<1>7. KnownObjects(ssl')
  <2>1. Known(ssl[o], e, n + 1, s)
    BY <1>3, <1>4 DEF Known
  <2>2. ASSUME NEW d \in End, NEW j \in 1 .. Len(ssl'[d])
        PROVE  \/ j \in 1 .. Len(ssl[d]) /\ ssl'[d][j] = ssl[d][j]
               \/ Known(ssl'[Other(d)], d, j, ssl'[d][j])
    <3>1. CASE d = e
      <4>1. j \in 1 .. n \/ j = n + 1
        BY <1>1, <1>3, <2>2, <3>1
      <4> QED
        BY <1>1, <1>2, <2>1, <3>1, <4>1
    <3>2. CASE d # e
      BY <1>1, <2>2, <3>2
    <3> QED
      BY <3>1, <3>2
  <2> QED
    BY <1>3, <1>6, <2>2, KnownKept DEF EInv
<1>8. OwnSide(e) /\ PeerSide(e, r) /\ wire'[e] = wire[e]
  <2>1. CASE UNCHANGED wire
    BY <2>1 DEF OwnSide, PeerSide
  <2>2. CASE Put(e, r)
    <3>1. n + 1 \in 0 .. MaxSsl /\ n + 1 \in 1 .. Len(ssl'[e])
      BY <1>1, <1>3, <1>5, TlsAssumption
    <3>2. r \in WireRecord
      BY <3>1, TlsAssumption DEF Record, WireRecord
    <3>3. Sound(ssl'[e], r)
      BY <3>1 DEF Sound, Record
    <3> HIDE DEF r
    <3> QED
      BY <2>2, <3>2, <3>3, PutMade, PutSides
  <2> QED
    BY <1>5, <2>1, <2>2
<1>9. SoundWire(ssl', wire')
  BY <1>6, <1>8, SidesSound
<1>10. \A d \in End : Waiting(d)'
  <2>1. Waiting(e)'
    BY <1>2, <1>5 DEF EInv, Waiting, IInv, TypeOK
  <2>2. Waiting(o)'
    <3>1. call'[o] = call[o]
      BY <1>2, <1>5 DEF IInv, TypeOK
    <3> QED
      BY <1>2, <1>5, <3>1 DEF EInv, Waiting
  <2> QED
    BY <1>2, <2>1, <2>2
<1>11. Pending(o)'
  <2>1. \A from, m : OnTheWire(wire[o], from, m) => OnTheWire(wire'[o], from, m)
    <3>1. wire[o] \in Seq(WireRecord)
      BY <1>2, <1>3
    <3> QED
      BY <1>8, <3>1, AppendKeeps DEF PeerSide
  <2>2. \A j \in 1 .. Len(ssl[e]) : ssl'[e][j].sent = ssl[e][j].sent
    BY <1>1
  <2> QED
    BY <1>2, <1>5, <2>1, <2>2, PendingKept
<1>12. Ended(o)'
  BY <1>2, <1>5, <1>6, EndedKept
<1>13. Len(ssl'[e]) = 1 => ssl'[e][1] = s
  BY <1>1, <1>3
<1>14. Pending(e)' /\ Ended(e)'
  BY <1>4, <1>13 DEF Pending, Ended
<1> QED
  BY <1>2, <1>7, <1>9, <1>10, <1>11, <1>12, <1>14 DEF EInv

LEMMA InitEInv == Init => EInv
<1> SUFFICES ASSUME Init PROVE EInv
  OBVIOUS
<1>1. Len(<<>>) = 0
  BY EmptySeq
<1>2. KnownObjects(ssl) /\ SoundWire(ssl, wire)
  BY <1>1 DEF Init, KnownObjects, SoundWire
<1>3. \A d \in End : Waiting(d) /\ Pending(d) /\ Ended(d)
  BY <1>1 DEF Init, Waiting, Pending, Ended
<1> QED
  BY <1>2, <1>3 DEF EInv

LEMMA NextEInv == IInv /\ IInv' /\ EInv /\ [Next]_vars => EInv'
<1> SUFFICES ASSUME IInv, IInv', EInv, [Next]_vars PROVE EInv'
  OBVIOUS
<1>1. CASE Next
  <2>1. PICK e \in End :
          \/ Build(e) \/ BuildFails(e) \/ DropEnd(e) \/ Expire(e)
          \/ Negotiate(e) \/ NegotiateFails(e) \/ Handshake(e)
          \/ Send(e) \/ SendFails(e) \/ Shutdown(e) \/ ShutdownFails(e)
          \/ Receive(e) \/ Read(e)
    BY <1>1 DEF Next
  <2> QED
    BY <2>1, OwnerEnd, NegotiateEnd, AnswerHelloEnd, ConcludeEnd, HandshakeFailsEnd,
       SendEnd, ShutdownEnd, WriteFailsEnd, ReceiveOverEnd, ReceiveTicketEnd, ReceiveDataEnd,
       ReceiveCloseEnd, ReceiveBadEnd, ReceiveResetEnd, ReceiveEofEnd
    DEF Handshake, Read
<1>2. CASE UNCHANGED vars
  <2>1. KnownObjects(ssl') /\ SoundWire(ssl', wire')
    BY <1>2 DEF EInv, vars
  <2>2. \A d \in End : Waiting(d)' /\ Pending(d)' /\ Ended(d)'
    BY <1>2 DEF EInv, vars, Waiting, Pending, Ended
  <2> QED
    BY <2>1, <2>2 DEF EInv
<1> QED
  BY <1>1, <1>2

\* The invariant about the objects that know each other, what is on the wire between
\* them and what is left to read holds in every reachable state, through resets,
\* repeated negotiations and owners that end at any moment.
THEOREM TlsEndInvariance == Spec => []EInv
<1>1. Spec => []IInv
  BY TlsInvariance
<1> QED
  BY <1>1, InitEInv, NextEInv, PTL DEF Spec

\* An end that has negotiated once, and whose calls have met the end of the stream
\* before any error, with close_notify, an alert or neither, has got all that its peer's
\* send() reported, however often it calls receive() again.
THEOREM TlsEndIsComplete == Spec => []EndIsComplete
<1>1. IInv /\ EInv => EndIsComplete
  <2> SUFFICES ASSUME IInv, EInv, NEW e \in End, session[e] # 0, Len(ssl[e]) = 1,
                      Session(e).end = "eof"
               PROVE  Session(e).got = ssl[Other(e)][Session(e).peer].sent
    BY DEF EndIsComplete
  <2>1. session[e] = 1
    <3>1. session[e] \in 1 .. 1
      BY SessionFacts
    <3> QED
      BY <3>1
  <2> QED
    BY <2>1 DEF EInv, Ended, Session
<1> QED
  BY <1>1, TlsInvariance, TlsEndInvariance, PTL
===============================================================================
