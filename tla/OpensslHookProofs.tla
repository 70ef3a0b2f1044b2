--------------------------- MODULE OpensslHookProofs ---------------------------
(***************************************************************************)
(* Theorems about OpensslHook, for every set of SSL objects and every      *)
(* number of key pairs.                                                    *)
(***************************************************************************)
EXTENDS OpensslHook, TLAPS

ErrorNames == {"ok", "selfsigned", "expired"}

\* A complaint is one of the errors, and OpenSSL has at most two of them.
LEMMA ErrorFacts ==
  ASSUME NEW c \in PeerCert
  PROVE  /\ Len(Errors(c)) \in {0, 1, 2}
         /\ Errors(c) = <<>> <=> Len(Errors(c)) = 0
         /\ \A i \in 1 .. Len(Errors(c)) : Errors(c)[i] \in ErrorNames
         /\ c = "attested" => Errors(c) = <<"selfsigned">>
         /\ c = "expired" => Errors(c) = <<"selfsigned", "expired">>
BY DEF Errors, PeerCert, ErrorNames

\* A set of positions that is not empty has a first one.
LEMMA FirstOf ==
  ASSUME NEW bad \in SUBSET {1, 2}, bad # {}
  PROVE  LET first == CHOOSE i \in bad : \A j \in bad : i <= j
         IN  first \in bad
<1>1. \E i \in bad : \A j \in bad : i <= j
  <2>1. CASE 1 \in bad
    BY <2>1
  <2>2. CASE 1 \notin bad
    <3>1. bad = {2}
      BY <2>2
    <3> QED
      BY <3>1
  <2> QED
    BY <2>1, <2>2
<1> QED
  BY <1>1

\* What X509_verify_cert() answers under the verifier: it passes a certificate only
\* if CertVerifier does, and that it is self-signed is then all it complained of.
LEMMA VerdictFacts ==
  ASSUME NEW c \in PeerCert, NEW cb \in {"null", "rats"}
  PROVE  LET r == X509VerifyCert(c, cb)
         IN  /\ r.res \in BOOLEAN /\ r.err \in ErrorNames
             /\ cb = "rats" /\ r.res => CertVerifierPasses(c) /\ r.err = "selfsigned"
<1> DEFINE Accepts(err) == cb = "rats" /\ VerifyCertificateDefault(FALSE, err, c)
           bad == {i \in 1 .. Len(Errors(c)) : ~Accepts(Errors(c)[i])}
           first == CHOOSE i \in bad : \A j \in bad : i <= j
           r == X509VerifyCert(c, cb)
<1>1. r = IF bad # {}
          THEN [res |-> FALSE, err |-> Errors(c)[first]]
          ELSE [res |-> cb # "rats" \/ VerifyCertificateDefault(TRUE, "ok", c),
                err |-> IF Errors(c) = <<>> THEN "ok" ELSE Errors(c)[Len(Errors(c))]]
  BY DEF X509VerifyCert
<1>2. bad \in SUBSET {1, 2} /\ bad \subseteq 1 .. Len(Errors(c))
  <2>1. bad \subseteq 1 .. Len(Errors(c))
    OBVIOUS
  <2>2. 1 .. Len(Errors(c)) \subseteq {1, 2}
    BY ErrorFacts
  <2> HIDE DEF bad
  <2> QED
    BY <2>1, <2>2
<1>3. bad # {} => first \in 1 .. Len(Errors(c))
  <2> HIDE DEF bad
  <2> QED
    BY <1>2, FirstOf
<1>4. c = "expired" => 2 \in bad
  BY ErrorFacts DEF VerifyCertificateDefault
<1>5. CASE bad # {}
  <2> HIDE DEF bad, first
  <2>1. r = [res |-> FALSE, err |-> Errors(c)[first]]
    BY <1>1, <1>5
  <2>2. Errors(c)[first] \in ErrorNames
    BY <1>3, <1>5, ErrorFacts
  <2> QED
    BY <2>1, <2>2
<1>6. CASE bad = {}
  <2> DEFINE res == cb # "rats" \/ VerifyCertificateDefault(TRUE, "ok", c)
             err == IF Errors(c) = <<>> THEN "ok" ELSE Errors(c)[Len(Errors(c))]
  <2>1. r.res = res /\ r.err = err
    <3> HIDE DEF bad, first, res, err
    <3> QED
      BY <1>1, <1>6 DEF res, err
  <2>2. err \in ErrorNames
    BY ErrorFacts DEF ErrorNames
  <2>3. res \in BOOLEAN
    BY DEF VerifyCertificateDefault, CertVerifierPasses
  <2>4. ASSUME cb = "rats", res PROVE CertVerifierPasses(c) /\ err = "selfsigned"
    <3>1. CertVerifierPasses(c)
      BY <2>4 DEF VerifyCertificateDefault
    <3>2. c = "attested"
      BY <3>1, <1>4, <1>6 DEF CertVerifierPasses
    <3> QED
      BY <3>1, <3>2, ErrorFacts
  <2> QED
    BY <2>1, <2>2, <2>3, <2>4
<1> QED
  BY <1>5, <1>6

\* The same for the certificate verification the SSL_CTX has.
LEMMA CallbackFacts ==
  ASSUME NEW c \in PeerCert, NEW cb \in {"null", "rats"}
  PROVE  LET r == CertVerifyCallback(c, cb)
         IN  /\ r.res \in BOOLEAN /\ r.err \in ErrorNames
             /\ cb = "rats" /\ r.res => CertVerifierPasses(c) /\ r.err = "ok"
<1> DEFINE r == X509VerifyCert(c, cb)
<1>1. /\ r.res \in BOOLEAN /\ r.err \in ErrorNames
      /\ cb = "rats" /\ r.res => CertVerifierPasses(c) /\ r.err = "selfsigned"
  BY VerdictFacts
<1>2. CertVerifyCallback(c, cb) = IF r.err = "selfsigned" THEN [r EXCEPT !.err = "ok"] ELSE r
  BY DEF CertVerifyCallback
<1>3. r = [res |-> r.res, err |-> r.err]
  BY DEF X509VerifyCert
<1>4. CertVerifyCallback(c, cb) =
        [res |-> r.res, err |-> IF r.err = "selfsigned" THEN "ok" ELSE r.err]
  <2> HIDE DEF r
  <2> QED
    BY <1>2, <1>3
<1> QED
  <2> HIDE DEF r
  <2> QED
    BY <1>1, <1>4 DEF ErrorNames

\* Nothing is made, set or begun at first.
LEMMA InitIInv == Init => IInv
BY HookAssumption
   DEF Init, IInv, TypeOK, Object, Mode, PeerCert, CredentialsMatch, VerifierInstalled,
       InOrderOfCalls, AttestedIfVerified, ResultOk

\* The hooks of certificates and keys leave the verifier and the handshakes alone.
LEMMA SetupAttesterStep ==
  ASSUME IInv, NEW o \in Object, SetupAttester(o)
  PROVE  IInv'
<1> USE HookAssumption
<1>1. UNCHANGED <<live, mode, callback, certVerify, role, begun, outcome, peer, verified,
                  verifyResult>>
  BY DEF SetupAttester, verifier, handshake
<1>2. TypeOK' /\ CredentialsMatch'
  <2>1. CASE NothingSet(o)
    BY <1>1, <2>1 DEF NothingSet, IInv, TypeOK, CredentialsMatch
  <2>2. CASE CertWithoutKey(o)
    BY <1>1, <2>2 DEF CertWithoutKey, IInv, TypeOK, CredentialsMatch
  <2>3. CASE CertAndKey(o)
    BY <1>1, <2>3 DEF CertAndKey, IInv, TypeOK, CredentialsMatch
  <2> QED
    BY <2>1, <2>2, <2>3 DEF SetupAttester
<1>3. VerifierInstalled' /\ InOrderOfCalls' /\ AttestedIfVerified' /\ ResultOk'
  BY <1>1 DEF IInv, VerifierInstalled, InOrderOfCalls, AttestedIfVerified, ResultOk
<1> QED
  BY <1>2, <1>3 DEF IInv

\* An SSL object takes over what the SSL_CTX has, its callback with its mode.
LEMMA SslNewStep ==
  ASSUME IInv, NEW s \in Ssl, SslNew(s)
  PROVE  IInv'
<1> USE HookAssumption DEF SslNew, handshake
<1>1. TypeOK' /\ CredentialsMatch'
  BY DEF IInv, TypeOK, CredentialsMatch, Object
<1>2. VerifierInstalled'
  BY DEF IInv, TypeOK, VerifierInstalled, Object
<1>3. outcome[s] = "-"
  BY DEF IInv, InOrderOfCalls
<1>4. InOrderOfCalls' /\ AttestedIfVerified' /\ ResultOk'
  BY <1>3 DEF IInv, TypeOK, InOrderOfCalls, AttestedIfVerified, ResultOk, Object
<1> QED
  BY <1>1, <1>2, <1>4 DEF IInv

\* The verifier, wherever it is installed, leaves the SSL_CTX with the other callback.
LEMMA SetupVerifierFacts ==
  ASSUME IInv, NEW o \in Object, NEW cb \in {"null", "app", callback[o]}, SetupVerifier(o, cb)
  PROVE  /\ callback' = [callback EXCEPT ![o] = "rats"]
         /\ certVerify' = "rats"
<1>1. cb = "rats" => certVerify = "rats"
  BY DEF IInv, VerifierInstalled
<1> QED
  BY <1>1 DEF SetupVerifier

\* Setting the mode installs both callbacks, and comes before the end of the
\* object's handshake.
LEMMA SetVerifyStep ==
  ASSUME IInv, NEW o \in Object, SetVerify(o)
  PROVE  IInv'
<1> USE HookAssumption
<1>1. PICK m \in Mode, cb \in {"null", "app", callback[o]} :
        mode' = [mode EXCEPT ![o] = m] /\ SetupVerifier(o, cb)
  BY DEF SetVerify
<1>2. UNCHANGED <<live, cert, key, made, returned, role, begun, outcome, peer, verified,
                  verifyResult>>
  BY DEF SetVerify, credentials, handshake
<1>3. o \in Ssl => outcome[o] = "-"
  BY DEF SetVerify
<1>4. callback' = [callback EXCEPT ![o] = "rats"] /\ certVerify' = "rats"
  BY <1>1, SetupVerifierFacts
<1>5. TypeOK' /\ CredentialsMatch' /\ InOrderOfCalls'
  BY <1>1, <1>2, <1>4 DEF IInv, TypeOK, CredentialsMatch, InOrderOfCalls, Object
<1>6. VerifierInstalled'
  BY <1>1, <1>4 DEF IInv, TypeOK, VerifierInstalled
<1>7. AttestedIfVerified' /\ ResultOk'
  BY <1>1, <1>2, <1>3 DEF IInv, TypeOK, AttestedIfVerified, ResultOk, Object
<1> QED
  BY <1>5, <1>6, <1>7 DEF IInv

LEMMA SetCertVerifyCallbackStep ==
  ASSUME IInv, SetCertVerifyCallback
  PROVE  IInv'
<1>1. UNCHANGED <<live, cert, key, made, returned, mode, role, begun, outcome, peer, verified,
                  verifyResult>>
  BY DEF SetCertVerifyCallback, credentials, handshake
<1>2. callback' = [callback EXCEPT ![Ctx] = "rats"] /\ certVerify' = "rats"
  BY SetupVerifierFacts DEF SetCertVerifyCallback, Object
<1>3. TypeOK'
  BY <1>1, <1>2 DEF IInv, TypeOK
<1>4. VerifierInstalled'
  BY <1>1, <1>2 DEF IInv, TypeOK, VerifierInstalled
<1>5. CredentialsMatch' /\ InOrderOfCalls'
  BY <1>1 DEF IInv, CredentialsMatch, InOrderOfCalls
<1>6. AttestedIfVerified' /\ ResultOk'
  BY <1>1 DEF IInv, AttestedIfVerified, ResultOk
<1> QED
  BY <1>3, <1>4, <1>5, <1>6 DEF IInv

\* The hooks of SSL_accept and SSL_connect, which do the same but for the name of
\* the call.
LEMMA HandshakeHookStep ==
  ASSUME IInv, NEW s \in Ssl, SslAccept(s) \/ SslConnect(s)
  PROVE  IInv'
<1>1. /\ s \in live /\ outcome[s] = "-"
      /\ RealAccept(s)
      /\ UNCHANGED <<live, cert, key, made, returned, mode, outcome, peer, verified, verifyResult>>
  BY DEF SslAccept, SslConnect, credentials
<1>2. PICK call \in {"SSL_accept", "SSL_connect"} : begun' = [begun EXCEPT ![s] = call]
  BY DEF SslAccept, SslConnect
<1>3. callback' = [callback EXCEPT ![s] = "rats"] /\ certVerify' = "rats"
  BY SetupVerifierFacts DEF SslAccept, SslConnect, Object
<1>4. TypeOK'
  BY <1>1, <1>2, <1>3 DEF IInv, TypeOK, RealAccept
<1>5. VerifierInstalled' /\ CredentialsMatch' /\ AttestedIfVerified' /\ ResultOk'
  BY <1>1, <1>3 DEF IInv, TypeOK, VerifierInstalled, CredentialsMatch, AttestedIfVerified, ResultOk
<1>6. InOrderOfCalls'
  BY <1>1, <1>2 DEF IInv, TypeOK, InOrderOfCalls
<1> QED
  BY <1>4, <1>5, <1>6 DEF IInv

\* Calls that are not hooked and change no more than the role and the beginning.
LEMMA UnhookedStep ==
  ASSUME IInv, NEW s \in Ssl, SetState(s) \/ SslDoHandshake(s)
  PROVE  IInv'
<1>1. CASE SetState(s)
  BY <1>1 DEF SetState, credentials, verifier, IInv, TypeOK, CredentialsMatch, VerifierInstalled,
              InOrderOfCalls, AttestedIfVerified, ResultOk
<1>2. CASE SslDoHandshake(s)
  <2>1. UNCHANGED <<live, cert, key, made, returned, mode, callback, certVerify, role, outcome,
                    peer, verified, verifyResult>>
    BY <1>2 DEF SslDoHandshake, credentials, verifier
  <2>2. begun' = [begun EXCEPT ![s] = "SSL_do_handshake"]
    BY <1>2 DEF SslDoHandshake
  <2>3. s \in live
    BY <1>2 DEF SslDoHandshake
  <2> QED
    BY <2>1, <2>2, <2>3 DEF IInv, TypeOK, CredentialsMatch, VerifierInstalled, InOrderOfCalls,
                       AttestedIfVerified, ResultOk
<1> QED
  BY <1>1, <1>2

\* What the verification answers is what PeerCertificate goes by.
LEMMA VerdictOfPeer ==
  ASSUME IInv, NEW s \in Ssl, NEW c \in PeerCert
  PROVE  LET r == IF certVerify = "rats" THEN CertVerifyCallback(c, callback[s])
                  ELSE X509VerifyCert(c, callback[s])
         IN  /\ r.res \in BOOLEAN /\ r.err \in ErrorNames
             /\ mode[s] # "none" /\ r.res =>
                  callback[s] = "rats" /\ CertVerifierPasses(c) /\ r.err = "ok"
<1>1. callback[s] \in {"null", "rats"}
  BY DEF IInv, TypeOK, Object
<1>2. mode[s] # "none" => callback[s] = "rats" /\ certVerify = "rats"
  BY DEF IInv, VerifierInstalled, Object
<1> QED
  BY <1>1, <1>2, VerdictFacts, CallbackFacts

\* A handshake that goes on after the peer's certificate under a verifying mode has
\* had it verified.
LEMMA PeerCertificateStep ==
  ASSUME IInv, NEW s \in Ssl, PeerCertificate(s)
  PROVE  IInv'
<1>1. UNCHANGED <<live, cert, key, made, returned, mode, callback, certVerify, role, begun>>
  BY DEF PeerCertificate, credentials, verifier
<1>2. PICK c \in PeerCert, res \in BOOLEAN, err \in ErrorNames :
        /\ peer' = [peer EXCEPT ![s] = c]
        /\ verified' = [verified EXCEPT ![s] = res /\ callback[s] = "rats" /\ CertVerifierPasses(c)]
        /\ verifyResult' = [verifyResult EXCEPT ![s] = err]
        /\ outcome' = [outcome EXCEPT ![s] = IF res \/ mode[s] = "none" THEN "done" ELSE "failed"]
        /\ mode[s] # "none" /\ res =>
             callback[s] = "rats" /\ CertVerifierPasses(c) /\ err = "ok"
  <2>1. PICK c \in PeerCert :
          LET r == IF certVerify = "rats" THEN CertVerifyCallback(c, callback[s])
                   ELSE X509VerifyCert(c, callback[s])
          IN  /\ peer' = [peer EXCEPT ![s] = c]
              /\ verified' = [verified EXCEPT ![s] =
                                r.res /\ callback[s] = "rats" /\ CertVerifierPasses(c)]
              /\ verifyResult' = [verifyResult EXCEPT ![s] = r.err]
              /\ outcome' = [outcome EXCEPT ![s] =
                               IF r.res \/ mode[s] = "none" THEN "done" ELSE "failed"]
    BY DEF PeerCertificate
  <2> DEFINE r == IF certVerify = "rats" THEN CertVerifyCallback(c, callback[s])
                  ELSE X509VerifyCert(c, callback[s])
  <2>2. /\ r.res \in BOOLEAN /\ r.err \in ErrorNames
        /\ mode[s] # "none" /\ r.res =>
             callback[s] = "rats" /\ CertVerifierPasses(c) /\ r.err = "ok"
    BY VerdictOfPeer
  <2> HIDE DEF r
  <2> QED
    BY <2>1, <2>2 DEF r
<1>3. begun[s] # "-" /\ outcome[s] = "-"
  BY DEF PeerCertificate
<1>4. TypeOK'
  <2>1. verified' \in [Ssl -> BOOLEAN]
    BY <1>2 DEF IInv, TypeOK, CertVerifierPasses
  <2>2. /\ peer' \in [Ssl -> PeerCert \cup {"none"}]
        /\ verifyResult' \in [Ssl -> ErrorNames]
        /\ outcome' \in [Ssl -> {"-", "done", "failed"}]
    BY <1>2 DEF IInv, TypeOK, ErrorNames
  <2> QED
    BY <1>1, <2>1, <2>2 DEF IInv, TypeOK, ErrorNames
<1>5. CredentialsMatch' /\ VerifierInstalled'
  BY <1>1 DEF IInv, CredentialsMatch, VerifierInstalled
<1>6. InOrderOfCalls'
  BY <1>1, <1>2, <1>3 DEF IInv, TypeOK, InOrderOfCalls
<1>7. AttestedIfVerified'
  BY <1>1, <1>2 DEF IInv, TypeOK, AttestedIfVerified
<1>8. ResultOk'
  BY <1>1, <1>2 DEF IInv, TypeOK, ResultOk
<1> QED
  BY <1>4, <1>5, <1>6, <1>7, <1>8 DEF IInv

LEMMA NoPeerCertificateStep ==
  ASSUME IInv, NEW s \in Ssl, NoPeerCertificate(s)
  PROVE  IInv'
<1>1. UNCHANGED <<live, cert, key, made, returned, mode, callback, certVerify, role, begun, peer,
                  verified, verifyResult>>
  BY DEF NoPeerCertificate, credentials, verifier
<1>2. PICK how \in {"done", "failed"} : outcome' = [outcome EXCEPT ![s] = how]
  BY DEF NoPeerCertificate
<1>3. begun[s] # "-" /\ peer[s] = "none"
  BY DEF NoPeerCertificate, IInv, InOrderOfCalls
<1> QED
  BY <1>1, <1>2, <1>3 DEF IInv, TypeOK, CredentialsMatch, VerifierInstalled, InOrderOfCalls,
                         AttestedIfVerified, ResultOk

\* Every call, hooked or not, keeps the invariant.
LEMMA NextIInv == IInv /\ [Next]_vars => IInv'
<1> SUFFICES ASSUME IInv, [Next]_vars PROVE IInv'
  OBVIOUS
<1>1. ASSUME NEW o \in Object, UseCertificate(o) \/ UsePrivateKey(o) \/ UseCertAndKey(o)
      PROVE  IInv'
  BY <1>1, SetupAttesterStep DEF UseCertificate, UsePrivateKey, UseCertAndKey
<1>2. ASSUME NEW o \in Object, SetVerify(o) PROVE IInv'
  BY <1>2, SetVerifyStep
<1>3. CASE SetCertVerifyCallback
  BY <1>3, SetCertVerifyCallbackStep
<1>4. ASSUME NEW s \in Ssl, SslNew(s) PROVE IInv'
  BY <1>4, SslNewStep
<1>5. ASSUME NEW s \in Ssl, SslAccept(s) \/ SslConnect(s) PROVE IInv'
  BY <1>5, HandshakeHookStep
<1>6. ASSUME NEW s \in Ssl, SetState(s) \/ SslDoHandshake(s) PROVE IInv'
  BY <1>6, UnhookedStep
<1>7. ASSUME NEW s \in Ssl, PeerCertificate(s) PROVE IInv'
  BY <1>7, PeerCertificateStep
<1>8. ASSUME NEW s \in Ssl, NoPeerCertificate(s) PROVE IInv'
  BY <1>8, NoPeerCertificateStep
<1>9. CASE UNCHANGED vars
  BY <1>9 DEF vars, credentials, verifier, handshake, IInv, TypeOK, CredentialsMatch,
              VerifierInstalled, InOrderOfCalls, AttestedIfVerified, ResultOk
<1> QED
  BY <1>1, <1>2, <1>3, <1>4, <1>5, <1>6, <1>7, <1>8, <1>9 DEF Next

\* The invariant of the hooks holds in every reachable state.
THEOREM HookInvariance == Spec => []IInv
BY InitIInv, NextIInv, PTL DEF Spec

\* The type invariant of the hooks.
THEOREM HookTypeCorrect == Spec => []TypeOK
<1>1. IInv => TypeOK
  BY DEF IInv
<1> QED
  BY <1>1, HookInvariance, PTL

\* Certificate and key of an object are of one pair, whatever failed before, and
\* they are there after a hook of them that reported success (setup_ssl_attester).
THEOREM CertAndKeyMatch == Spec => []CredentialsMatch
<1>1. IInv => CredentialsMatch
  BY DEF IInv
<1> QED
  BY <1>1, HookInvariance, PTL

\* No order of calls lets a handshake under a verifying mode go on with a
\* certificate rats-rs has not verified (setup_ssl_verifier, verify_certificate_default).
THEOREM AlwaysAttested == Spec => []AttestedIfVerified
<1>1. IInv => AttestedIfVerified
  BY DEF IInv
<1> QED
  BY <1>1, HookInvariance, PTL

\* The program that asks for the result of such a handshake is told X509_V_OK
\* (cert_verify_callback).
THEOREM ResultIsOk == Spec => []ResultOk
<1>1. IInv => ResultOk
  BY DEF IInv
<1> QED
  BY <1>1, HookInvariance, PTL
===============================================================================
