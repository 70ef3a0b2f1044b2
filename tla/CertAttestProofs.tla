--------------------------- MODULE CertAttestProofs ----------------------------
(***************************************************************************)
(* Theorems about CertAttest, for every set of programs, every set of hash *)
(* algorithms given to builders and any number of builds.                  *)
(***************************************************************************)
EXTENDS CertAttest, TLAPS

USE CertAssumption

\* The claims a builder serializes: where the user's are, and its own one.
LEMMA PubkeyHashFacts ==
  ASSUME NEW user \in UserClaims, NEW h \in Hash, NEW k \in Key
  PROVE  LET claims == WithPubkeyHash(user, h, k)
         IN  /\ claims \in Claims
             /\ DOMAIN claims = DOMAIN user \cup {"pubkey-hash"}
             /\ claims["pubkey-hash"] = <<h, k>>
             /\ \A n \in DOMAIN user \ {"pubkey-hash"} : claims[n] = user[n]
<1>1. /\ DOMAIN user \in SUBSET Name
      /\ \A n \in DOMAIN user : user[n] \in Value
  <2>1. Text("value1") \in Value /\ \A p \in Program : Text(p) \in Value
    BY DEF Value
  <2>2. {Measurement(tee) : tee \in Tee} \subseteq Name
    BY DEF Name, BuiltIn, Tee
  <2>3. {"key1"} \subseteq Name /\ {"pubkey-hash"} \subseteq Name
    BY DEF Name
  <2>4. CASE user = [n \in {} |-> Text("value1")]
    BY <2>4
  <2>5. CASE user = [n \in {"key1"} |-> Text("value1")]
    BY <2>1, <2>3, <2>5
  <2>6. CASE user = [n \in {"pubkey-hash"} |-> Text("value1")]
    BY <2>1, <2>3, <2>6
  <2>7. ASSUME NEW p \in Program, user = [n \in {Measurement(tee) : tee \in Tee} |-> Text(p)]
        PROVE  /\ DOMAIN user \in SUBSET Name
               /\ \A n \in DOMAIN user : user[n] \in Value
    BY <2>1, <2>2, <2>7
  <2> QED
    BY <2>4, <2>5, <2>6, <2>7 DEF UserClaims
<1>2. PubkeyHash(h, k) \in Value
  BY DEF Value
<1>3. DOMAIN user \cup {"pubkey-hash"} \in SUBSET Name
  BY <1>1 DEF Name
<1>4. WithPubkeyHash(user, h, k) \in [DOMAIN user \cup {"pubkey-hash"} -> Value]
  BY <1>1, <1>2 DEF WithPubkeyHash
<1>5. WithPubkeyHash(user, h, k) \in Claims
  BY <1>3, <1>4 DEF Claims
<1> QED
  BY <1>5 DEF WithPubkeyHash, PubkeyHash

\* A key signs with an algorithm the verifier knows.
LEMMA SigAlgoFacts ==
  ASSUME NEW k \in Key, NEW h \in Hash
  PROVE  /\ SigAlgo(k, h) \in ({"rsa"} \X Hash) \cup {<<"p256", "sha256">>}
         /\ SigAlgo(k, h)[1] = k.algo
         /\ SigAlgo(k, h) \in ({"rsa"} \X HashAlgo) \cup {<<"p256", "sha256">>}
BY DEF SigAlgo, Key, KeyAlgo

\* The parser that takes a quote is the one of the TEE that made it.
LEMMA ParserOfTee ==
  ASSUME NEW q, NEW tee \in Tee, q.tee = tee,
         q.header \in IF tee = "sgx" THEN SgxHeader ELSE TdxHeader
  PROVE  CreateEvidence(TagQuote, q) = tee
<1>1. CASE tee = "sgx"
  BY <1>1 DEF CreateEvidence, IsSgxQuote, SgxHeader, TagQuote
<1>2. CASE tee = "tdx"
  BY <1>2 DEF CreateEvidence, IsSgxQuote, IsTdxQuote, TdxHeader, TagQuote
<1> QED
  BY <1>1, <1>2 DEF Tee

------------------------------------------------------------------------------

LEMMA Initially == Init => IInv
BY DEF Init, IInv, TypeOK, TasksKnown, QuotesVouched, KeysBound, IssuedKnown, Idle

LEMMA PrepareStep ==
  ASSUME IInv, NEW p \in Program, Prepare(p)
  PROVE  IInv'
<1> PICK algo \in KeyAlgo, h \in Hash, user \in UserClaims :
      task' = [task EXCEPT ![p] =
                 [at |-> "prepared", key |-> [of |-> p, algo |-> algo], hash |-> h, user |-> user,
                  claims |-> WithPubkeyHash(user, h, [of |-> p, algo |-> algo])]]
  BY DEF Prepare
<1> DEFINE k == [of |-> p, algo |-> algo]
<1>1. k \in Key /\ k.of = p
  BY DEF Key
<1>2. WithPubkeyHash(user, h, k) \in Claims
  BY <1>1, PubkeyHashFacts
<1>3. /\ DOMAIN task' = Program
      /\ \A o \in Program \ {p} : task'[o] = task[o]
      /\ task'[p].at = "prepared" /\ task'[p].key = k /\ task'[p].hash = h
      /\ task'[p].user = user /\ task'[p].claims = WithPubkeyHash(user, h, k)
  BY DEF IInv, TypeOK
<1>4. /\ UNCHANGED <<devices, quotes, builds, issued>>
      /\ begun' \in 0 .. MaxBuilds
  BY DEF Prepare, IInv, TypeOK
<1> HIDE DEF k
<1>5. TypeOK'
  BY <1>1, <1>2, <1>3, <1>4 DEF IInv, TypeOK
<1>6. TasksKnown'
  BY <1>1, <1>3, <1>4 DEF IInv, TasksKnown, MadeFor
<1>7. QuotesVouched' /\ KeysBound' /\ IssuedKnown'
  BY <1>4 DEF IInv, QuotesVouched, KeysBound, IssuedKnown, MadeFor, DetectEnv
<1> QED
  BY <1>5, <1>6, <1>7 DEF IInv

LEMMA GetEvidenceStep ==
  ASSUME IInv, NEW p \in Program, GetEvidence(p)
  PROVE  IInv'
<1> DEFINE t == task[p]
           tee == DetectEnv(p)
           b == [by |-> p, key |-> t.key, claims |-> t.claims]
<1> PICK header \in IF tee = "sgx" THEN SgxHeader ELSE TdxHeader :
      LET quote == [tee |-> tee, header |-> header, measurement |-> p, report |-> ClaimsHash(t.claims)]
      IN /\ quotes' = quotes \cup {quote}
         /\ builds' = builds \cup {b}
         /\ task' = [task EXCEPT ![p] =
                       [at |-> "attested", key |-> t.key, hash |-> t.hash,
                        user |-> t.user, claims |-> t.claims, quote |-> quote]]
  BY DEF GetEvidence
<1> DEFINE quote == [tee |-> tee, header |-> header, measurement |-> p, report |-> ClaimsHash(t.claims)]
<1>1. /\ quotes' = quotes \cup {quote} /\ builds' = builds \cup {b}
      /\ DOMAIN task' = Program
      /\ \A o \in Program \ {p} : task'[o] = task[o]
      /\ task'[p].at = "attested" /\ task'[p].key = t.key /\ task'[p].hash = t.hash
      /\ task'[p].user = t.user /\ task'[p].claims = t.claims /\ task'[p].quote = quote
  BY DEF IInv, TypeOK
<1>2. UNCHANGED <<devices, issued, begun>>
  BY DEF GetEvidence
<1>3. /\ t.key \in Key /\ t.claims \in Claims /\ t.key.of = p
      /\ t.hash \in Hash /\ t.user \in UserClaims
      /\ t.claims = WithPubkeyHash(t.user, t.hash, t.key)
  <2>1. task[p] # Idle
    BY DEF GetEvidence, Idle
  <2> QED
    BY <2>1 DEF IInv, TypeOK, TasksKnown
<1>4. tee \in Tee /\ header \in Header
  BY DEF GetEvidence, DetectEnv, NoTee, Tee, Header
<1>5. /\ quote.tee = tee /\ quote.header = header /\ quote.measurement = p
      /\ quote.report = ClaimsHash(t.claims)
      /\ b.by = p /\ b.key = t.key /\ b.claims = t.claims
  OBVIOUS
<1>6. header \in IF tee = "sgx" THEN SgxHeader ELSE TdxHeader
  OBVIOUS
<1>7. tee = DetectEnv(p) /\ DetectEnv(p)' = DetectEnv(p)
  BY <1>2 DEF DetectEnv
<1> HIDE DEF t, tee, b, quote
<1>8. TypeOK'
  BY <1>1, <1>2, <1>3, <1>4, <1>5 DEF IInv, TypeOK
<1>9. TasksKnown'
  BY <1>1, <1>2, <1>3, <1>5 DEF IInv, TasksKnown, MadeFor
<1>10. QuotesVouched'
  BY <1>1, <1>2, <1>5, <1>6, <1>7 DEF IInv, QuotesVouched, DetectEnv
<1>11. KeysBound'
  BY <1>1, <1>3, <1>5 DEF IInv, KeysBound
<1>12. IssuedKnown'
  BY <1>1, <1>2 DEF IInv, IssuedKnown, MadeFor
<1> QED
  BY <1>8, <1>9, <1>10, <1>11, <1>12 DEF IInv

LEMMA SignStep ==
  ASSUME IInv, NEW p \in Program, Sign(p)
  PROVE  IInv'
<1> DEFINE t == task[p]
           i == [cert |-> [key |-> t.key, signer |-> t.key, sig |-> SigAlgo(t.key, t.hash),
                           tag |-> TagQuote, quote |-> t.quote, claims |-> t.claims],
                 user |-> t.user]
<1>1. /\ issued' = issued \cup {i}
      /\ DOMAIN task' = Program /\ task'[p] = Idle
      /\ \A o \in Program \ {p} : task'[o] = task[o]
  BY DEF Sign, IInv, TypeOK
<1>2. UNCHANGED <<devices, quotes, builds, begun>>
  BY DEF Sign
<1>3. /\ t.key \in Key /\ t.hash \in Hash /\ t.user \in UserClaims
      /\ t.claims = WithPubkeyHash(t.user, t.hash, t.key)
      /\ MadeFor(t.quote, t.claims)
  <2>1. task[p] # Idle /\ t.at = "attested"
    BY DEF Sign, Idle
  <2> QED
    BY <2>1 DEF IInv, TypeOK, TasksKnown
<1>4. SigAlgo(t.key, t.hash) \in ({"rsa"} \X Hash) \cup {<<"p256", "sha256">>}
  BY <1>3, SigAlgoFacts
<1>5. /\ i.user = t.user /\ i.cert.key = t.key /\ i.cert.signer = t.key
      /\ i.cert.sig = SigAlgo(t.key, t.hash) /\ i.cert.tag = TagQuote
      /\ i.cert.quote = t.quote /\ i.cert.claims = t.claims
  OBVIOUS
<1> HIDE DEF t, i
<1>6. TypeOK'
  BY <1>1, <1>2, <1>4, <1>5 DEF IInv, TypeOK, Idle
<1>7. TasksKnown'
  BY <1>1, <1>2 DEF IInv, TasksKnown, MadeFor
<1>8. QuotesVouched' /\ KeysBound'
  BY <1>2 DEF IInv, QuotesVouched, KeysBound, DetectEnv
<1>9. IssuedKnown'
  BY <1>1, <1>2, <1>3, <1>5 DEF IInv, IssuedKnown, MadeFor
<1> QED
  BY <1>6, <1>7, <1>8, <1>9 DEF IInv

LEMMA BuildFailsStep ==
  ASSUME IInv, NEW p \in Program, BuildFails(p)
  PROVE  IInv'
<1>1. /\ DOMAIN task' = Program /\ task'[p] = Idle
      /\ \A o \in Program \ {p} : task'[o] = task[o]
  BY DEF BuildFails, IInv, TypeOK
<1>2. UNCHANGED <<devices, quotes, builds, issued, begun>>
  BY DEF BuildFails
<1>3. TypeOK' /\ TasksKnown'
  BY <1>1, <1>2 DEF IInv, TypeOK, TasksKnown, MadeFor, Idle
<1>4. QuotesVouched' /\ KeysBound' /\ IssuedKnown'
  BY <1>2 DEF IInv, QuotesVouched, KeysBound, IssuedKnown, MadeFor, DetectEnv
<1> QED
  BY <1>3, <1>4 DEF IInv

\* The inductive invariant: every quote was made for the claims of a build that bind
\* its program's key, and what is issued is made of one build.
THEOREM CertInvariance == Spec => []IInv
<1>1. IInv /\ [Next]_vars => IInv'
  <2> SUFFICES ASSUME IInv, [Next]_vars PROVE IInv'
    OBVIOUS
  <2>1. ASSUME NEW p \in Program,
               Prepare(p) \/ GetEvidence(p) \/ Sign(p) \/ BuildFails(p)
        PROVE  IInv'
    BY <2>1, PrepareStep, GetEvidenceStep, SignStep, BuildFailsStep
  <2>2. CASE UNCHANGED vars
    BY <2>2 DEF vars, IInv, TypeOK, TasksKnown, QuotesVouched, KeysBound, IssuedKnown,
                MadeFor, DetectEnv
  <2> QED
    BY <2>1, <2>2 DEF Next
<1> QED
  BY Initially, <1>1, PTL DEF Spec

\* The type invariant.
THEOREM CertTypeCorrect == Spec => []TypeOK
<1>1. IInv => TypeOK
  BY DEF IInv
<1> QED
  BY <1>1, CertInvariance, PTL

------------------------------------------------------------------------------

\* Whatever the certificate is: if it verifies, one build bound its key and claims.
LEMMA VerifiedFacts ==
  ASSUME IInv, NEW c, VerifyCertDer(c)
  PROVE  /\ c.quote \in quotes
         /\ \E b \in builds : b.key = c.key /\ b.claims = c.claims /\ b.by = c.quote.measurement
<1>1. c.quote \in quotes /\ c.quote.report = <<"sha256", c.claims>>
  BY DEF VerifyCertDer, VerifyEvidence, TeeVerifyQuote, ClaimsHash
<1>2. PICK b \in builds : b.by = c.quote.measurement /\ c.quote.report = <<"sha256", b.claims>>
  BY <1>1 DEF IInv, QuotesVouched, ClaimsHash
<1>3. b.claims = c.claims
  BY <1>1, <1>2
<1>4. PICK user \in UserClaims, h \in Hash : b.claims = WithPubkeyHash(user, h, b.key)
  BY DEF IInv, KeysBound
<1>5. b.claims["pubkey-hash"] = <<h, b.key>>
  <2>1. b.key \in Key
    BY DEF IInv, TypeOK
  <2>2. WithPubkeyHash(user, h, b.key)["pubkey-hash"] = <<h, b.key>>
    BY <2>1, PubkeyHashFacts
  <2> QED
    BY <1>4, <2>2
<1>6. \E g \in HashAlgo : c.claims["pubkey-hash"] = <<g, c.key>>
  BY DEF VerifyCertDer, VerifyPubkeyHash, PubkeyHash
<1>7. b.key = c.key
  BY <1>3, <1>5, <1>6
<1> QED
  BY <1>1, <1>2, <1>3, <1>7

\* A certificate that verifies is of one piece.
THEOREM CertsAreOfOnePiece == Spec => []OfOnePiece
<1>1. IInv => OfOnePiece
  <2> SUFFICES ASSUME IInv, NEW c \in Assembled, VerifyCertDer(c)
               PROVE  \E b \in builds : /\ b.key = c.key /\ b.claims = c.claims
                                        /\ b.by = c.quote.measurement
    BY DEF OfOnePiece
  <2> QED
    BY VerifiedFacts
<1> QED
  BY <1>1, CertInvariance, PTL

\* The policy on type and measurement, for any certificate.
LEMMA PolicyFacts ==
  ASSUME IInv, NEW c, NEW p \in Program, NEW tee \in Tee,
         Passed([n \in BuiltIn(tee) |->
                   Text(IF n = "common_quote_type" THEN QuoteType(tee) ELSE p)], c)
  PROVE  c.key.of = p /\ DetectEnv(p) = tee
<1> DEFINE expected == [n \in BuiltIn(tee) |->
                          Text(IF n = "common_quote_type" THEN QuoteType(tee) ELSE p)]
           q == c.quote
           found == CreateEvidence(c.tag, q)
<1>1. VerifyCertDer(c)
  BY DEF Passed
<1>2. /\ DOMAIN expected = BuiltIn(tee)
      /\ expected["common_quote_type"] = Text(QuoteType(tee))
      /\ expected[Measurement(tee)] = Text(p)
  BY DEF BuiltIn, Measurement
<1>3. \A n \in BuiltIn(tee) : MergedClaims(c)[n] = expected[n]
  BY <1>2 DEF Passed
<1>4. c.tag = TagQuote
  BY <1>1 DEF VerifyCertDer, CreateEvidence, NoTee
<1>5. q \in quotes
  BY <1>1, VerifiedFacts
<1>6. q.tee \in Tee /\ q.header \in IF q.tee = "sgx" THEN SgxHeader ELSE TdxHeader
  BY <1>5 DEF IInv, TypeOK, QuotesVouched
<1>7. found = q.tee
  BY <1>4, <1>6, ParserOfTee
<1>8. BuiltinClaims(c) = [n \in BuiltIn(found) |->
                            IF n = "common_quote_type" THEN Text(QuoteType(found))
                            ELSE Text(q.measurement)]
  BY DEF BuiltinClaims
<1>9. \A n \in BuiltIn(found) : MergedClaims(c)[n] = BuiltinClaims(c)[n]
  BY <1>8 DEF MergedClaims
<1>10. "common_quote_type" \in BuiltIn(found) /\ "common_quote_type" \in BuiltIn(tee)
  BY DEF BuiltIn
<1>11. Text(QuoteType(found)) = Text(QuoteType(tee))
  BY <1>2, <1>3, <1>8, <1>9, <1>10
<1>12. found = tee
  BY <1>6, <1>7, <1>11 DEF Text, QuoteType, Tee
<1>13. Measurement(tee) \in BuiltIn(tee) /\ Measurement(tee) # "common_quote_type"
  BY DEF BuiltIn, Measurement
<1>14. Text(q.measurement) = Text(p)
  BY <1>2, <1>3, <1>8, <1>9, <1>12, <1>13
<1>15. q.measurement = p
  BY <1>14 DEF Text
<1>16. DetectEnv(p) = tee
  BY <1>5, <1>7, <1>12, <1>15 DEF IInv, QuotesVouched
<1>17. \E b \in builds : b.key = c.key /\ b.by = p
  BY <1>1, <1>15, VerifiedFacts
<1> QED
  BY <1>16, <1>17 DEF IInv, KeysBound

\* A policy on the type and the measurement passes only for such a program's key.
THEOREM PoliciesMeanWhatTheySay == Spec => []PolicyMeans
<1>1. IInv => PolicyMeans
  BY PolicyFacts DEF PolicyMeans
<1> QED
  BY <1>1, CertInvariance, PTL

\* Every certificate a builder returns verifies, and the user's own claims are in it.
THEOREM IssuedCertificatesPass == Spec => []IssuedPass
<1>1. IInv => IssuedPass
  <2> SUFFICES ASSUME IInv, NEW i \in issued
               PROVE  LET own == DOMAIN i.user \ (BuiltIn(i.cert.quote.tee) \cup {"pubkey-hash"})
                      IN  Passed([n \in own |-> i.user[n]], i.cert)
    BY DEF IssuedPass
  <2> DEFINE c == i.cert
             own == DOMAIN i.user \ (BuiltIn(c.quote.tee) \cup {"pubkey-hash"})
  <2>1. /\ i.user \in UserClaims /\ c.key \in Key /\ c.signer = c.key /\ c.tag = TagQuote
        /\ c.quote \in quotes /\ c.quote.report = ClaimsHash(c.claims)
    BY DEF IInv, IssuedKnown, MadeFor
  <2>2. PICK h \in Hash : c.sig = SigAlgo(c.key, h) /\ c.claims = WithPubkeyHash(i.user, h, c.key)
    BY DEF IInv, IssuedKnown
  <2>3. /\ DOMAIN c.claims = DOMAIN i.user \cup {"pubkey-hash"}
        /\ c.claims["pubkey-hash"] = <<h, c.key>>
        /\ \A n \in DOMAIN i.user \ {"pubkey-hash"} : c.claims[n] = i.user[n]
    <3> DEFINE claims == WithPubkeyHash(i.user, h, c.key)
    <3>1. /\ DOMAIN claims = DOMAIN i.user \cup {"pubkey-hash"}
          /\ claims["pubkey-hash"] = <<h, c.key>>
          /\ \A n \in DOMAIN i.user \ {"pubkey-hash"} : claims[n] = i.user[n]
      BY <2>1, PubkeyHashFacts
    <3> QED
      BY <2>2, <3>1
  <2>4. /\ c.quote.tee \in Tee
        /\ c.quote.header \in IF c.quote.tee = "sgx" THEN SgxHeader ELSE TdxHeader
    BY <2>1 DEF IInv, TypeOK, QuotesVouched
  <2>5. CreateEvidence(c.tag, c.quote) = c.quote.tee
    BY <2>1, <2>4, ParserOfTee
  <2>6. VerifyCertSignature(c)
    BY <2>1, <2>2, SigAlgoFacts DEF VerifyCertSignature
  <2>7. VerifyPubkeyHash(c)
    BY <2>3 DEF VerifyPubkeyHash, PubkeyHash
  <2>8. VerifyCertDer(c)
    BY <2>1, <2>4, <2>5, <2>6, <2>7 DEF VerifyCertDer, VerifyEvidence, TeeVerifyQuote, NoTee, Tee
  <2>9. DOMAIN BuiltinClaims(c) = BuiltIn(c.quote.tee)
    BY <2>5 DEF BuiltinClaims
  <2>10. \A n \in own : n \in DOMAIN MergedClaims(c) /\ MergedClaims(c)[n] = i.user[n]
    BY <2>3, <2>9 DEF MergedClaims
  <2> QED
    BY <2>8, <2>10 DEF Passed
<1> QED
  BY <1>1, CertInvariance, PTL
===============================================================================
