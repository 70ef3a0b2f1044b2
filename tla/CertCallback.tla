---------------------------- MODULE CertCallback ----------------------------
(***************************************************************************)
(* How OpenSSL verifies the certificate of a peer with the callback        *)
(* verify_certificate_default() of transport/tls/mod.rs: the part that the *)
(* openssl-hook and the TLS transport share.                               *)
(***************************************************************************)
EXTENDS Naturals, Sequences

\* What X509_verify_cert() complains of, in its order.
Errors(c) == IF c = "expired" THEN <<"selfsigned", "expired">>
             ELSE IF c = "issued" THEN <<>> ELSE <<"selfsigned">>

CertVerifierPasses(c) == c \in {"attested", "expired"}

\* Mutant of VerifyCertificateDefault: no complaint of OpenSSL's is looked at.
VerifyCertificateLax(preverifyOk, err, c) ==
  IF preverifyOk THEN CertVerifierPasses(c) ELSE TRUE

\* verify_certificate_default(): called with each complaint, and at the end with none.
VerifyCertificateDefault(preverifyOk, err, c) ==
  IF preverifyOk THEN CertVerifierPasses(c) ELSE err = "selfsigned"

\* X509_verify_cert() with the callback of the SSL object: it stops at a complaint
\* the callback does not accept, and the last complaint stays the error.
X509VerifyCert(c, cb) ==
  LET Accepts(err) == cb = "rats" /\ VerifyCertificateDefault(FALSE, err, c)
      bad == {i \in 1 .. Len(Errors(c)) : ~Accepts(Errors(c)[i])}
  IN IF bad # {}
     THEN [res |-> FALSE, err |-> Errors(c)[CHOOSE i \in bad : \A j \in bad : i <= j]]
     ELSE [res |-> cb # "rats" \/ VerifyCertificateDefault(TRUE, "ok", c),
           err |-> IF Errors(c) = <<>> THEN "ok" ELSE Errors(c)[Len(Errors(c))]]
==============================================================================
