------------------------------ MODULE CertAttest -------------------------------
(***************************************************************************)
(* Attested certificates: how CertBuilder makes one (cert/create.rs,       *)
(* cert/dice, the attesters of tee/) and what verify_cert_der() and        *)
(* CertVerifier accept (cert/verify.rs, the dispatch in tee/mod.rs).       *)
(*                                                                         *)
(* Programs in TEEs build certificates; a verifier is shown certificates   *)
(* made of parts of any of them: the evidence of one build with the key    *)
(* or the claims of another, or claims changed after the evidence was      *)
(* made.  Hashes have no collisions, signatures and quotes cannot be made  *)
(* without the key or the TEE: a hash is a term, a signature names its key.*)
(***************************************************************************)
EXTENDS Naturals, FiniteSets

CONSTANTS
  Program,   \* programs that build certificates
  Hash,      \* the hash algorithms a builder can be given
  MaxBuilds  \* bound: certificates begun

HashAlgo == {"sha256", "sha384", "sha512"}

ASSUME CertAssumption == Hash \subseteq HashAlgo /\ MaxBuilds \in Nat

Tee == {"sgx", "tdx"}
NoTee == "none"
KeyAlgo == {"rsa", "p256"}
Key == [of : Program, algo : KeyAlgo]

\* Claim names: the built-in ones of a TEE, the one CertBuilder adds, one of the user.
Measurement(tee) == IF tee = "sgx" THEN "sgx_mr_enclave" ELSE "tdx_mr_td"
BuiltIn(tee) == {"common_quote_type", Measurement(tee)}
Name == BuiltIn("sgx") \cup BuiltIn("tdx") \cup {"pubkey-hash", "key1"}

\* Claim values are pairs: a text, or the hash of a key with its algorithm.
Text(t) == <<"text", t>>
PubkeyHash(h, k) == <<h, k>>
Value == {Text(t) : t \in Program \cup {"sgx_dcap", "tdx", "value1"}}
           \cup {PubkeyHash(h, k) : h \in Hash, k \in Key}
Claims == UNION {[names -> Value] : names \in SUBSET Name}

\* What with_claims() is given: nothing, a claim of the user, some with the names of
\* the built-in claims of both TEEs, one with the name of the builder's own claim.
UserClaims == {[n \in {} |-> Text("value1")], [n \in {"key1"} |-> Text("value1")],
               [n \in {"pubkey-hash"} |-> Text("value1")]}
              \cup {[n \in {Measurement(tee) : tee \in Tee} |-> Text(p)] : p \in Program}

VARIABLES
  devices,   \* TEE devices each program sees
  task,      \* the build each program is at
  quotes,    \* quotes made by TEEs so far
  builds,    \* history: what evidence was asked for, and by whom
  issued,    \* certificates the builders have returned, with what they were given
  begun      \* builds begun

vars == <<devices, task, quotes, builds, issued, begun>>

Idle == [at |-> "idle"]

Init ==
  /\ devices \in [Program -> SUBSET Tee]
  /\ task = [p \in Program |-> Idle]
  /\ quotes = {} /\ builds = {} /\ issued = {} /\ begun = 0

------------------------------------------------------------------------------
(* The builder: build_with_private_key_inner().                            *)

\* Mutant of WithPubkeyHash: a claim of the user under that name is kept.
WithPubkeyHashKept(claims, h, k) ==
  [n \in DOMAIN claims \cup {"pubkey-hash"} |->
     IF n \in DOMAIN claims THEN claims[n] ELSE PubkeyHash(h, k)]

\* claims.insert(): the builder's own claim replaces any other.
WithPubkeyHash(claims, h, k) ==
  [n \in DOMAIN claims \cup {"pubkey-hash"} |->
     IF n = "pubkey-hash" THEN PubkeyHash(h, k) ELSE claims[n]]

\* The claims are completed and serialized.
Prepare(p) ==
  /\ task[p] = Idle /\ begun < MaxBuilds
  /\ \E algo \in KeyAlgo, h \in Hash, user \in UserClaims :
       task' = [task EXCEPT ![p] =
                  [at |-> "prepared", key |-> [of |-> p, algo |-> algo], hash |-> h, user |-> user,
                   claims |-> WithPubkeyHash(user, h, [of |-> p, algo |-> algo])]]
  /\ begun' = begun + 1
  /\ UNCHANGED <<devices, quotes, builds, issued>>

\* The report data: the hash of the claims buffer, always with SHA-256.
ClaimsHash(claims) == <<"sha256", claims>>

\* TeeType::detect_env(): SGX before TDX.
DetectEnv(p) == IF "sgx" \in devices[p] THEN "sgx" ELSE IF "tdx" \in devices[p] THEN "tdx" ELSE NoTee

\* Headers of the quotes TEEs make, and of some no parser knows: version, the field
\* tee_type, and the type of the body (version 5).  Version 4 of an SGX quote has the
\* layout of version 3.  Version 5 has not: read with it the lengths do not fit, and
\* such a quote is refused; it is left out.
SgxHeader == [version : {3, 4}, tee : {0}, body : {0}]
TdxHeader == [version : {4}, tee : {129}, body : {0}] \cup [version : {5}, tee : {129}, body : {2, 3}]
OtherHeader == [version : {2}, tee : {0}, body : {0}] \cup [version : {5}, tee : {129}, body : {4}]
Header == SgxHeader \cup TdxHeader \cup OtherHeader

\* The TEE makes a quote over the report data: this is the await of the builder.
GetEvidence(p) ==
  /\ task[p].at = "prepared" /\ DetectEnv(p) # NoTee
  /\ \E header \in IF DetectEnv(p) = "sgx" THEN SgxHeader ELSE TdxHeader :
       LET quote == [tee |-> DetectEnv(p), header |-> header, measurement |-> p,
                     report |-> ClaimsHash(task[p].claims)]
       IN /\ quotes' = quotes \cup {quote}
          /\ builds' = builds \cup {[by |-> p, key |-> task[p].key, claims |-> task[p].claims]}
          /\ task' = [task EXCEPT ![p] =
                        [at |-> "attested", key |-> task[p].key, hash |-> task[p].hash,
                         user |-> task[p].user, claims |-> task[p].claims, quote |-> quote]]
  /\ UNCHANGED <<devices, issued, begun>>

\* Mutant of SigAlgo: the hash algorithm given is used for every key.
SigAlgoAsGiven(k, h) == <<k.algo, h>>

\* An RSA key signs with the hash algorithm given, P-256 always with SHA-256.
SigAlgo(k, h) == IF k.algo = "p256" THEN <<"p256", "sha256">> ELSE <<"rsa", h>>

TagQuote  == "intel_tee_quote"    \* 60000
TagReport == "intel_tee_report"   \* 60001

\* generate_and_sign_dice_cert(): signed with the key it is for.
Sign(p) ==
  /\ task[p].at = "attested"
  /\ issued' = issued \cup
       {[cert |-> [key |-> task[p].key, signer |-> task[p].key,
                   sig |-> SigAlgo(task[p].key, task[p].hash),
                   tag |-> TagQuote, quote |-> task[p].quote, claims |-> task[p].claims],
         user |-> task[p].user]}
  /\ task' = [task EXCEPT ![p] = Idle]
  /\ UNCHANGED <<devices, quotes, builds, begun>>

\* Any step fails: no TEE, no quote, a bad subject.
BuildFails(p) ==
  /\ task[p] # Idle
  /\ task' = [task EXCEPT ![p] = Idle]
  /\ UNCHANGED <<devices, quotes, builds, issued, begun>>

Next == \E p \in Program : Prepare(p) \/ GetEvidence(p) \/ Sign(p) \/ BuildFails(p)

Spec == Init /\ [][Next]_vars

------------------------------------------------------------------------------
(* The verifier: verify_cert_der() and CertVerifier::verify().             *)

\* verify_cert_signature(): self-signed, with an algorithm it knows.
VerifyCertSignature(c) ==
  /\ c.signer = c.key /\ c.sig[1] = c.key.algo
  /\ c.sig \in ({"rsa"} \X HashAlgo) \cup {<<"p256", "sha256">>}

\* new_from_unchecked() of both parsers, on the header.  The lengths, and for version 3
\* the type of the attestation key, are those of quotes a TEE makes.
IsSgxQuote(h) == h.version = 3 \/ (h.version \in {4, 5} /\ h.tee = 0)
IsTdxQuote(h) == h.tee = 129 /\ (h.version = 4 \/ (h.version = 5 /\ h.body \in {2, 3}))

\* create_evidence_from_dice(): SGX is tried before TDX; both know one tag.
CreateEvidence(tag, q) ==
  CASE tag = TagQuote /\ IsSgxQuote(q.header) -> "sgx"
    [] tag = TagQuote /\ ~IsSgxQuote(q.header) /\ IsTdxQuote(q.header) -> "tdx"
    [] OTHER -> NoTee

\* tee_verify_quote() of Intel's library, called alike for SGX and TDX: a TEE has made
\* the quote as it is.  Of the results that are not terminal (a platform out of date,
\* collateral expired) only that they are accepted is left.
TeeVerifyQuote(q) == q \in quotes

\* Mutant of VerifyEvidence: the report data is not compared.
VerifyEvidenceOnly(q, claims) == TeeVerifyQuote(q)

VerifyEvidence(q, claims) == TeeVerifyQuote(q) /\ q.report = ClaimsHash(claims)

\* The check of the claim `pubkey-hash` against the key of the certificate.
VerifyPubkeyHash(c) ==
  /\ "pubkey-hash" \in DOMAIN c.claims
  /\ c.claims["pubkey-hash"] \in {PubkeyHash(h, c.key) : h \in HashAlgo}

VerifyCertDer(c) ==
  /\ VerifyCertSignature(c)
  /\ CreateEvidence(c.tag, c.quote) # NoTee
  /\ VerifyEvidence(c.quote, c.claims)
  /\ VerifyPubkeyHash(c)

QuoteType(tee) == IF tee = "sgx" THEN "sgx_dcap" ELSE "tdx"

\* get_claims() of the evidence: read from the quote, under the names of its parser.
BuiltinClaims(c) ==
  LET tee == CreateEvidence(c.tag, c.quote)
  IN [n \in BuiltIn(tee) |-> IF n = "common_quote_type" THEN Text(QuoteType(tee))
                             ELSE Text(c.quote.measurement)]

\* Mutant of MergedClaims: insert() overwrites.
MergedClaimsOverwritten(c) ==
  [n \in DOMAIN BuiltinClaims(c) \cup DOMAIN c.claims |->
     IF n \in DOMAIN c.claims THEN c.claims[n] ELSE BuiltinClaims(c)[n]]

\* The claims it returns: a custom claim never replaces a built-in one.
MergedClaims(c) ==
  [n \in DOMAIN BuiltinClaims(c) \cup DOMAIN c.claims |->
     IF n \in DOMAIN BuiltinClaims(c) THEN BuiltinClaims(c)[n] ELSE c.claims[n]]

\* CertVerifier with the policy Contains(expected).
Passed(expected, c) ==
  /\ VerifyCertDer(c)
  /\ DOMAIN expected \subseteq DOMAIN MergedClaims(c)
  /\ \A n \in DOMAIN expected : MergedClaims(c)[n] = expected[n]

\* The certificates a verifier can be shown: made of the parts there are, with the
\* evidence, the claims and the public key hash among them changed or not.
Buffers == {b.claims : b \in builds}
           \cup {[b.claims EXCEPT !["pubkey-hash"] = PubkeyHash("sha256", k)] :
                   b \in builds, k \in {b.key : b \in builds}}
Raw == quotes \cup {[q EXCEPT !.report = ClaimsHash(b)] : q \in quotes, b \in Buffers}
              \cup {[q EXCEPT !.header = h] : q \in quotes, h \in OtherHeader}
Assembled ==
  [key : {b.key : b \in builds}, signer : {b.key : b \in builds},
   sig : {<<"rsa", "sha256">>, <<"p256", "sha256">>}, tag : {TagQuote},
   quote : Raw, claims : Buffers]
  \cup {[i.cert EXCEPT !.tag = TagReport] : i \in issued}

------------------------------------------------------------------------------
(* Properties.                                                             *)

TypeOK ==
  /\ devices \in [Program -> SUBSET Tee]
  /\ DOMAIN task = Program
  /\ \A p \in Program :
       /\ task[p].at \in {"idle", "prepared", "attested"}
       /\ task[p] # Idle => task[p].key \in Key /\ task[p].claims \in Claims
  /\ \A q \in quotes : q.tee \in Tee /\ q.header \in Header /\ q.measurement \in Program
  /\ \A b \in builds : b.by \in Program /\ b.key \in Key /\ b.claims \in Claims
  /\ \A i \in issued : i.cert.sig \in ({"rsa"} \X Hash) \cup {<<"p256", "sha256">>}
  /\ begun \in 0 .. MaxBuilds

\* Evidence made for these claims.
MadeFor(q, claims) == q \in quotes /\ q.report = ClaimsHash(claims)

\* A build holds what its steps so far have made, for its own key.
TasksKnown ==
  \A p \in Program : task[p] # Idle =>
    /\ task[p].key.of = p /\ task[p].hash \in Hash /\ task[p].user \in UserClaims
    /\ task[p].claims = WithPubkeyHash(task[p].user, task[p].hash, task[p].key)
    /\ task[p].at = "attested" => MadeFor(task[p].quote, task[p].claims)

\* Every quote was made for the claims of a build, in the TEE its header names.
QuotesVouched ==
  \A q \in quotes :
    /\ \E b \in builds : b.by = q.measurement /\ q.report = ClaimsHash(b.claims)
    /\ q.tee = DetectEnv(q.measurement)
    /\ q.header \in IF q.tee = "sgx" THEN SgxHeader ELSE TdxHeader

\* The claims of a build bind the key of its program.
KeysBound ==
  \A b \in builds :
    b.key.of = b.by /\ \E user \in UserClaims, h \in Hash : b.claims = WithPubkeyHash(user, h, b.key)

\* What was issued was made from one build.
IssuedKnown ==
  \A i \in issued :
    /\ i.user \in UserClaims /\ i.cert.key \in Key
    /\ i.cert.signer = i.cert.key /\ i.cert.tag = TagQuote
    /\ \E h \in Hash : /\ i.cert.sig = SigAlgo(i.cert.key, h)
                       /\ i.cert.claims = WithPubkeyHash(i.user, h, i.cert.key)
    /\ MadeFor(i.cert.quote, i.cert.claims)

\* The inductive invariant.
IInv == TypeOK /\ TasksKnown /\ QuotesVouched /\ KeysBound /\ IssuedKnown

\* A certificate that verifies is of one piece: its key and its custom claims are
\* those one program asked its TEE to vouch for, and the evidence is that TEE's.
OfOnePiece ==
  \A c \in Assembled : VerifyCertDer(c) =>
    \E b \in builds : b.key = c.key /\ b.claims = c.claims /\ b.by = c.quote.measurement

\* A policy on the type and the measurement can be relied on: it passes only for the
\* key of a program with that measurement in a TEE of that type, whatever the custom
\* claims are named and say.
PolicyMeans ==
  \A c \in Assembled, p \in Program, tee \in Tee :
    Passed([n \in BuiltIn(tee) |-> Text(IF n = "common_quote_type" THEN QuoteType(tee) ELSE p)], c)
      => c.key.of = p /\ DetectEnv(p) = tee

\* What a builder returns verifies, for every kind of key, hash algorithm and TEE,
\* and a policy on the user's own claims passes if their names are the user's to use.
IssuedPass ==
  \A i \in issued :
    LET own == DOMAIN i.user \ (BuiltIn(i.cert.quote.tee) \cup {"pubkey-hash"})
    IN Passed([n \in own |-> i.user[n]], i.cert)
===============================================================================
