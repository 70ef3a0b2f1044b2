------------------------------ MODULE OpensslHook ------------------------------
(***************************************************************************)
(* examples/openssl-hook/src/lib.rs: the OpenSSL calls of an unmodified    *)
(* program (curl, nginx) are replaced, through LD_PRELOAD, by hooks that   *)
(* give its SSL_CTX and SSL objects an attested certificate and a verifier *)
(* of attested certificates, whatever the program passes.                  *)
(*                                                                         *)
(* One SSL_CTX and the SSL objects made from it.  OpenSSL itself is        *)
(* external: what a call of the real library does to an object.  The       *)
(* program calls the hooks in any order, as long as the library lets it.   *)
(***************************************************************************)
EXTENDS Naturals, Sequences, CertCallback

CONSTANTS
  Ctx,       \* the SSL_CTX
  Ssl,       \* the SSL objects
  MaxPairs   \* bound: key pairs generated

ASSUME HookAssumption == Ctx \notin Ssl /\ MaxPairs \in Nat \ {0}

Object == Ssl \cup {Ctx}

\* SSL_VERIFY_NONE, SSL_VERIFY_PEER, and PEER with FAIL_IF_NO_PEER_CERT.
Mode == {"none", "peer", "require"}

\* The certificates a peer can have: of a rats-rs peer, of one whose 60 seconds
\* are over, a self-signed one without evidence, one issued by a trusted CA.
PeerCert == {"attested", "expired", "selfsigned", "issued"}

VARIABLES
  live,          \* SSL objects made so far
  cert, key,     \* the pair each object's certificate and private key are of; 0: not set
  made,          \* key pairs generated so far
  returned,      \* history: what the last use_* hook on the object returned; "-": none yet
  mode,          \* verify mode of each object
  callback,      \* its verify callback: "null", "app" or "rats", verify_certificate_default
  certVerify,    \* cert_verify_callback of the SSL_CTX: "null" or "rats"
  role,          \* which handshake an SSL object is set to: "unset", "connect", "accept"
  begun,         \* the call that began the handshake: "-", "SSL_connect", "SSL_accept" or
                 \* "SSL_do_handshake", which is not hooked
  outcome,       \* of the handshake: "-", "done", "failed"
  peer,          \* history: the certificate the peer presented, or "none"
  verified,      \* history: has CertVerifier passed it?
  verifyResult   \* SSL_get_verify_result: "ok" or the error

credentials == <<cert, key, made, returned>>
verifier    == <<mode, callback, certVerify>>
handshake   == <<role, begun, outcome, peer, verified, verifyResult>>
vars == <<live, credentials, verifier, handshake>>

Init ==
  /\ live = {}
  /\ cert = [o \in Object |-> 0] /\ key = [o \in Object |-> 0]
  /\ made = 0
  /\ returned = [o \in Object |-> "-"]
  /\ mode = [o \in Object |-> "none"]
  /\ callback = [o \in Object |-> "null"]
  /\ certVerify = "null"
  /\ role = [s \in Ssl |-> "unset"]
  /\ begun = [s \in Ssl |-> "-"]
  /\ outcome = [s \in Ssl |-> "-"]
  /\ peer = [s \in Ssl |-> "none"]
  /\ verified = [s \in Ssl |-> FALSE]
  /\ verifyResult = [s \in Ssl |-> "ok"]

Exists(o) == o = Ctx \/ o \in live

\* SSL_new: credentials, mode and callback are taken over from the SSL_CTX.
SslNew(s) ==
  /\ s \notin live
  /\ live' = live \cup {s}
  /\ cert' = [cert EXCEPT ![s] = cert[Ctx]] /\ key' = [key EXCEPT ![s] = key[Ctx]]
  /\ returned' = [returned EXCEPT ![s] = returned[Ctx]]
  /\ mode' = [mode EXCEPT ![s] = mode[Ctx]]
  /\ callback' = [callback EXCEPT ![s] = callback[Ctx]]
  /\ UNCHANGED <<made, certVerify, handshake>>

------------------------------------------------------------------------------
(* The attester: setup_ssl_attester().                                     *)

\* The key or the certificate cannot be made, or the certificate cannot be set.
NothingSet(o) ==
  /\ returned' = [returned EXCEPT ![o] = "0"]
  /\ UNCHANGED <<cert, key, made>>

\* A key that does not belong to a new certificate is dropped by OpenSSL: the
\* old one, when the certificate is set and the new key is not.
CertWithoutKey(o) ==
  /\ made < MaxPairs
  /\ made' = made + 1
  /\ cert' = [cert EXCEPT ![o] = made + 1]
  /\ key' = [key EXCEPT ![o] = 0]
  /\ returned' = [returned EXCEPT ![o] = "0"]

\* Mutant of CertAndKey: the result of setting the certificate is not looked at.
\* Setting the key then fails if there is a certificate, and else succeeds.
CertAndKeyUnchecked(o) ==
  /\ made < MaxPairs
  /\ made' = made + 1
  /\ \E set \in BOOLEAN :
       /\ cert' = [cert EXCEPT ![o] = IF set THEN made + 1 ELSE @]
       /\ key' = [key EXCEPT ![o] = IF set \/ cert[o] = 0 THEN made + 1 ELSE @]
       /\ returned' = [returned EXCEPT ![o] = IF set \/ cert[o] = 0 THEN "1" ELSE "0"]

\* Both are set, in this order.
CertAndKey(o) ==
  /\ made < MaxPairs
  /\ made' = made + 1
  /\ cert' = [cert EXCEPT ![o] = made + 1]
  /\ key' = [key EXCEPT ![o] = made + 1]
  /\ returned' = [returned EXCEPT ![o] = "1"]

SetupAttester(o) ==
  /\ Exists(o)
  /\ NothingSet(o) \/ CertWithoutKey(o) \/ CertAndKey(o)
  /\ UNCHANGED <<live, verifier, handshake>>

\* The hooks of SSL_use_certificate and SSL_CTX_use_certificate in their forms, of
\* the private key in its forms, and of both at once: what the program passes is
\* left aside.
UseCertificate(o) == SetupAttester(o)
UsePrivateKey(o)  == SetupAttester(o)
UseCertAndKey(o)  == SetupAttester(o)

------------------------------------------------------------------------------
(* The verifier: setup_ssl_verifier().                                     *)

\* Mutants of SetupVerifier: a callback of the program counts as installed; the
\* SSL_CTX keeps OpenSSL's own certificate verification.
SetupVerifierOnce(o, cb) ==
  /\ callback' = [callback EXCEPT ![o] = IF cb = "null" THEN "rats" ELSE cb]
  /\ certVerify' = IF cb = "null" THEN "rats" ELSE certVerify

SetupVerifierDefault(o, cb) ==
  /\ callback' = [callback EXCEPT ![o] = "rats"]
  /\ UNCHANGED certVerify

\* Run on an object whose callback is cb; one that has the verifier is left alone.
SetupVerifier(o, cb) ==
  /\ callback' = [callback EXCEPT ![o] = "rats"]
  /\ certVerify' = IF cb = "rats" THEN certVerify ELSE "rats"

\* Hooks SSL_CTX_set_verify and SSL_set_verify: the real call, which keeps the
\* callback of an SSL object when it is given none, then the verifier.
SetVerify(o) ==
  /\ Exists(o)
  /\ o \in Ssl => outcome[o] = "-"
  /\ \E m \in Mode, given \in {"null", "app"} :
       /\ mode' = [mode EXCEPT ![o] = m]
       /\ SetupVerifier(o, IF given = "null" /\ o \in Ssl THEN callback[o] ELSE given)
  /\ UNCHANGED <<live, credentials, handshake>>

\* Hook SSL_CTX_set_cert_verify_callback: the callback given is left aside.
SetCertVerifyCallback ==
  /\ SetupVerifier(Ctx, callback[Ctx])
  /\ UNCHANGED <<live, credentials, mode, handshake>>

------------------------------------------------------------------------------
(* Handshakes.                                                             *)

\* SSL_set_connect_state and SSL_set_accept_state, not hooked.
SetState(s) ==
  /\ s \in live /\ begun[s] = "-"
  /\ \E r \in {"connect", "accept"} : role' = [role EXCEPT ![s] = r]
  /\ UNCHANGED <<live, credentials, verifier, begun, outcome, peer, verified, verifyResult>>

\* The real SSL_accept makes a server of an object no state was set for, and
\* carries on with the handshake of any other.
RealAccept(s) == role' = [role EXCEPT ![s] = IF @ = "unset" THEN "accept" ELSE @]

\* Hook SSL_accept.  It may be called again until the handshake has ended.
SslAccept(s) ==
  /\ s \in live /\ outcome[s] = "-" /\ begun[s] \in {"-", "SSL_accept"}
  /\ SetupVerifier(s, callback[s])
  /\ RealAccept(s)
  /\ begun' = [begun EXCEPT ![s] = "SSL_accept"]
  /\ UNCHANGED <<live, credentials, mode, outcome, peer, verified, verifyResult>>

\* Hook SSL_connect: it calls the real SSL_accept.
SslConnect(s) ==
  /\ s \in live /\ outcome[s] = "-" /\ begun[s] \in {"-", "SSL_connect"}
  /\ SetupVerifier(s, callback[s])
  /\ RealAccept(s)
  /\ begun' = [begun EXCEPT ![s] = "SSL_connect"]
  /\ UNCHANGED <<live, credentials, mode, outcome, peer, verified, verifyResult>>

\* SSL_do_handshake, not hooked: nginx uses it.
SslDoHandshake(s) ==
  /\ s \in live /\ role[s] # "unset" /\ begun[s] = "-"
  /\ begun' = [begun EXCEPT ![s] = "SSL_do_handshake"]
  /\ UNCHANGED <<live, credentials, verifier, role, outcome, peer, verified, verifyResult>>

\* cert_verify_callback(): a self-signed certificate is no error.
CertVerifyCallback(c, cb) ==
  LET r == X509VerifyCert(c, cb)
  IN IF r.err = "selfsigned" THEN [r EXCEPT !.err = "ok"] ELSE r

\* The peer's certificate is verified, and decides if the object's mode says so.
PeerCertificate(s) ==
  /\ begun[s] # "-" /\ outcome[s] = "-"
  /\ role[s] = "accept" => mode[s] # "none"
  /\ \E c \in PeerCert :
       LET r == IF certVerify = "rats" THEN CertVerifyCallback(c, callback[s])
                ELSE X509VerifyCert(c, callback[s])
       IN /\ peer' = [peer EXCEPT ![s] = c]
          /\ verified' = [verified EXCEPT ![s] =
                            r.res /\ callback[s] = "rats" /\ CertVerifierPasses(c)]
          /\ verifyResult' = [verifyResult EXCEPT ![s] = r.err]
          /\ outcome' = [outcome EXCEPT ![s] =
                           IF r.res \/ mode[s] = "none" THEN "done" ELSE "failed"]
  /\ UNCHANGED <<live, credentials, verifier, role, begun>>

\* A client has no certificate, or is not asked for one.
NoPeerCertificate(s) ==
  /\ begun[s] # "-" /\ outcome[s] = "-" /\ role[s] = "accept"
  /\ outcome' = [outcome EXCEPT ![s] = IF mode[s] = "require" THEN "failed" ELSE "done"]
  /\ UNCHANGED <<live, credentials, verifier, role, begun, peer, verified, verifyResult>>

------------------------------------------------------------------------------
Next ==
  \/ \E o \in Object : UseCertificate(o) \/ UsePrivateKey(o) \/ UseCertAndKey(o) \/ SetVerify(o)
  \/ SetCertVerifyCallback
  \/ \E s \in Ssl :
       \/ SslNew(s) \/ SetState(s) \/ SslAccept(s) \/ SslConnect(s) \/ SslDoHandshake(s)
       \/ PeerCertificate(s) \/ NoPeerCertificate(s)

Spec == Init /\ [][Next]_vars

------------------------------------------------------------------------------
(* Properties.                                                             *)

TypeOK ==
  /\ live \subseteq Ssl
  /\ cert \in [Object -> 0 .. MaxPairs] /\ key \in [Object -> 0 .. MaxPairs]
  /\ made \in 0 .. MaxPairs
  /\ returned \in [Object -> {"-", "0", "1"}]
  /\ mode \in [Object -> Mode]
  /\ callback \in [Object -> {"null", "rats"}]
  /\ certVerify \in {"null", "rats"}
  /\ role \in [Ssl -> {"unset", "connect", "accept"}]
  /\ begun \in [Ssl -> {"-", "SSL_connect", "SSL_accept", "SSL_do_handshake"}]
  /\ outcome \in [Ssl -> {"-", "done", "failed"}]
  /\ peer \in [Ssl -> PeerCert \cup {"none"}]
  /\ verified \in [Ssl -> BOOLEAN]
  /\ verifyResult \in [Ssl -> {"ok", "selfsigned", "expired"}]

\* Whatever calls failed before, an object never holds a key of another
\* certificate, and after a use_* hook that reported success it, and every SSL
\* object made from it, holds a certificate with its key.
CredentialsMatch ==
  \A o \in Object :
    /\ key[o] # 0 => key[o] = cert[o]
    /\ returned[o] = "1" => key[o] # 0

\* A handshake that completes under a mode that asks for verification, with a
\* certificate of the peer, has had it verified by rats-rs: in whatever order the
\* program set modes and callbacks, made the object and began the handshake.
AttestedIfVerified ==
  \A s \in Ssl :
    outcome[s] = "done" /\ mode[s] # "none" /\ peer[s] # "none" => verified[s]

\* SSL_get_verify_result(), which programs like curl look at, then says X509_V_OK.
ResultOk ==
  \A s \in Ssl :
    outcome[s] = "done" /\ mode[s] # "none" /\ peer[s] # "none" => verifyResult[s] = "ok"

\* Why these hold.  An object with a verifying mode has the verifier, for its mode
\* can only be set by a hook that installs it or be taken over from the SSL_CTX; to
\* find the callback on an object is enough to know that the SSL_CTX has the other
\* one (the early return of setup_ssl_verifier); and nothing has happened to an object before it is made.
VerifierInstalled ==
  \A o \in Object :
    /\ mode[o] # "none" => callback[o] = "rats"
    /\ callback[o] = "rats" => certVerify = "rats"

InOrderOfCalls ==
  \A s \in Ssl :
    /\ s \notin live => begun[s] = "-"
    /\ begun[s] = "-" => outcome[s] = "-"
    /\ outcome[s] = "-" => peer[s] = "none"

\* The inductive invariant of the hooks: the above and the promises above it.
IInv ==
  /\ TypeOK
  /\ CredentialsMatch
  /\ VerifierInstalled
  /\ InOrderOfCalls
  /\ AttestedIfVerified
  /\ ResultOk

\* The hook of SSL_connect begins a client's handshake.
ConnectIsClient ==
  [][\A s \in Ssl : begun[s] = "-" /\ begun'[s] = "SSL_connect" /\ role[s] = "unset"
                     => role'[s] = "connect"]_vars
===============================================================================
