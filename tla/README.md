# Formal verification of rats-rs

rats-rs sets up attested secure channels: a peer proves with evidence from its trusted execution
environment (SGX or TDX) that it runs the expected code, and the evidence is bound to the key of an
SPDM session or of a TLS connection. This directory holds TLA+ models of the parts that carry the
project's own logic, TLC configurations that check them on small instances, and proofs checked by
TLAPS. Paths below are relative to `src/rats-rs/src/` unless they start with `examples/`.

## 1. Inventory

| Component | Source | State | Operations | What is hard | What makes it correct |
|---|---|---|---|---|---|
| **FramedStream** | `transport/spdm/io/framed_stream.rs` | `read_buffer`, `read_remain`, the stream | `receive`, `send`, `flush_all` | reads and writes of any size, failures at any byte, end-of-file inside a frame, the full buffer, bytes of later frames read early | packets come out whole, in order, once |
| **Halves** | `transport/spdm/half.rs` | the shared `SpdmContext` (session keys, sequence numbers), a FramedStream each | `send`, `shutdown`, `receive` | two threads per peer, three locks, sequence numbers used up by sends that fail | no deadlock; both ends in step; nothing lost silently |
| **Requester, responder** | `transport/spdm/requester.rs`, `responder.rs` | `RequesterContext` or `ResponderContext` of spdm-rs, `session_id` | builders, `negotiate`, `into_split` | failure at each flight, session id taken from a raw packet, application packets read behind the last reply | a session id only after the whole handshake; no packet lost at the split |
| **SimpleTransportEncap** | `transport/spdm/transport.rs` | none | `encap`, `decap`, `encap_app`, `decap_app` | types accepted, buffers too small | what is encapsulated comes back with its type |
| **SPDM secrets** | `transport/spdm/secret/*.rs` | certificate chain, key, measurements | callbacks of spdm-rs | `u16` length, measurement index | chain, signature and measurements describe the same evidence |
| **Tunnel** | `examples/spdm/src/tunnel/mod.rs` | two streams, two halves, two threads a side | forwarding loops | half-closed connections, end of stream, failures on one side only | bytes arrive in order; the end is passed on; threads end |
| **Accept loops** | `examples/spdm/src/spdm.rs` | listener | accept, negotiate, serve | one connection after the other, `?` out of the loop | as long as nothing fails all are served; when something does nobody is left waiting |
| **TLS (OpenSSL)** | `transport/tls/*.rs` | `SSL_CTX`, `SSL` | `build`, `negotiate`, `send`, `receive`, `shutdown`, `drop` | negotiation repeated, failed, met by records of earlier handshakes; a client that is ready before it is accepted; certificates that expire; return values of OpenSSL | a session only with a peer whose evidence passed, whatever failed before; the end of a stream after all its data |
| **TLS (rustls)** | `transport/rustls/*.rs`, `examples/rustls/src/rustls.rs` | reader, writer, listener | constructors, `negotiate`, `send`, `receive`, `shutdown`, accept loop | partial writes, bytes left in the buffer, a client that connects anew in front of a serial loop | authenticated sessions; what `write()` took arrives with `shutdown()`; negotiations return |
| **Certificates** | `cert/create.rs`, `verify.rs`, `dice/*` | none | build, verify | claims merged, key hash bound to evidence, 60 s validity | what verifies was issued for this key and these claims |
| **TEE evidence** | `tee/**` | quote bytes | parse, dispatch, verify | offsets, versions, lengths | fields read are the fields of the format |
| **Accept loop of the tls example** | `examples/tls/src/tls.rs` | listener | accept, negotiate, serve | as the loop of the spdm example | not modelled |
| **openssl-hook** | `examples/openssl-hook/src/lib.rs` | function table, certificate and key of each SSL object | the hooked OpenSSL calls | orders of calls, certificate and key set in two steps, the verifier installed once | certificate and key match; a verifying handshake has verified the evidence |
| crypto, errors, intel-dcap | `crypto/mod.rs`, `errors.rs`, `src/intel-dcap` | none | wrappers, bindings | - | - |

How they interact. `SpdmRequester` and `SpdmResponder` hand a `FramedStream` over a `TcpStream` and a
`SimpleTransportEncap` to spdm-rs (external), which calls them, and the secrets, during
`negotiate()`. `into_split()` shares the `SpdmContext` between a `ReadHalf`, which keeps the
FramedStream that negotiated, and a `WriteHalf` with a new one over the same socket. The tunnel runs
each half in a thread of its own. The secrets and the TLS callbacks call `cert/verify.rs`, which
calls `tee/`.

`PROJECT.json` lists the hazards of this code, each at its line, with the properties that cover it.

## 2. Modules

    PacketChannel            what one direction of framed packets promises
      ^ implemented by
    FramedStream             framed_stream.rs: bytes, partial reads and writes, failures
                             (proofs: FramedStreamProofs)
    SecureHalves             half.rs and into_split(): threads, locks, sequence numbers,
                             over directions that behave as PacketChannel says
                             (proofs: SecureHalvesProofs)
    Tunnel                   tunnel/mod.rs: four threads over directions that behave as
                             SecureHalves says (proofs: TunnelProofs)
    AttestedSession          what negotiate() promises to the programs above it
      ^ implemented by
    Negotiation              negotiate() of both ends, as the accept loop and the clients of
                             the spdm example run it (proofs: NegotiationProofs)
    CertCallback             how OpenSSL verifies a certificate with the callback of
                             transport/tls/mod.rs: used by the next three
    OpensslHook              openssl-hook/src/lib.rs: hooked calls in any order on one
                             SSL_CTX and its SSL objects (proofs: OpensslHookProofs)
    TlsSession               transport/tls/: a client and a server and their SSL objects
                             over one connection (proofs: TlsSessionProofs)
    RustlsSession            transport/rustls/ and the accept loop of examples/rustls
                             (proofs: RustlsSessionProofs)
    CertAttest               cert/ and the dispatch of tee/: making and verifying attested
                             certificates (proofs: CertAttestProofs)

### FramedStream and PacketChannel

One direction: the sender's `send()`, the receiver's `receive()`, the stream between them. A byte is
its position in the stream, so `buf` (`read_buffer`) maps slots to positions, stale slots keep stale
bytes, and "the right packet" can be stated exactly. `receive()` is not atomic: its locals `bsize`
(`buffer_size`) and `expected` (`expected_size`) are variables, and each read of the stream, each
decoded header and each way out of the loop is an action. `send()` is a sequence of `Write`s that
never cross from the header into the payload (two `write_all` calls) and ends in `SendOk` or, at any
point, in `SendFail`.

| Code | Model |
|---|---|
| `new` (48-54) | `Init` |
| `receive` entry (67-68), header (71-76), enough (77-80) | `Receive`, `ParseHeader`, `Enough` |
| full buffer (82-86), `read` (90-97), its error (92-95), end-of-file (99-107) | `BufferFull`, `Read`, `ReadError`, `ReadEof` |
| return of a packet with `copy_within` (117-128), of `Err(0)` (129-132) | `Deliver` with `MovedDown`, `Fail` |
| `send` (135-157) | `Send`, `Write`, `SendOk`, `SendFail` |
| `WriteHalf::shutdown` on the stream (half.rs 79-93) | `Shutdown` |

The content of payloads is not modelled. When, after a torn frame, the receiver decodes bytes that
are no header, the size is any of the constant `Garbage`, chosen anew at each decode: more behaviours
than the code has, never fewer. The history variables `frames`, `intact`, `broken` and `delivered`
say what was sent and received; no guard of the receiver reads them.

`PacketChannel` is the promise to the layer above: whole packets, in order, once each, up to the
first one whose send failed part-way; after that, anything. `ChannelSpec` is the refinement, with the
payloads of the intact frames as the abstract packets.

### SecureHalves

Both peers, a reader and a writer thread on each. The state per peer: the lock of the `SpdmContext`
(`common`), a lock and a buffer of whole packets (`held`) for each of the two FramedStreams, which
FramedStream each half uses (`readDev`, `writeDev`), the progress of `send()` and `receive()`, and the
sequence numbers (`Len(encoded)` to encode, `rx` to decode). Each lock taken is an action of its own,
because a thread can be stopped between two of them; `receive()` blocks with its device locked.

The model starts with FINISH handled and FINISH_RSP not yet sent: only there can a packet of the
session be read into the FramedStream before `into_split()`. `Fill` moves any number of waiting
packets into the buffer, as one `read()` can.

A failed `send()` of the device has the three outcomes of `FramedStream`: nothing written, all
written, part written (`Noise`, and frames behind it may or may not be found again). Behind a torn frame
the size of a packet that is larger than the read buffer may be found: from then on `receive()` fails
without reading from the socket (`Jam`, framed_stream.rs 82-86), the socket fills, and the `send()` of the
other end waits for ever. spdm-rs is taken by its effect and marked external: encoding uses up a sequence
number and may fail before or after it does (`EncodeFails`), decoding accepts exactly the next one, a
failed decode leaves the session alone. The "App message is expected" error is a part of
`DecodeFails`: no packet of another kind reaches the halves, since after the split only
`WriteHalf::send` writes, and it encodes application messages.

### Tunnel

One tunnelled connection. `tunnel_client` and `tunnel_server` run the same two loops, so the actions
are parameterised by the side. Threads own clones of the application's stream and a half of the
session; what their end closes follows from who still holds a clone (`Closed`, `ChanEnds`,
`AppSeesEof`), because Rust closes a connection with its last clone and no code does it. A `?` that
ends a thread is an action (`OutFails`, `InFails`, `ReceiveEnd`).

`ReceiveMsg` keeps the branch `recv_len == 0` of the loops. It is never taken: an empty message is
never sent, and at end-of-file `FramedStream::receive` returns an error (`ReceiveEnd`).

### Negotiation

The serial server of `examples/spdm` with the echo example on top, and any number of clients. Each
request of `SpdmRequester::negotiate` with its response is a *flight*; the server's loop handles one
request (`ProcessMessage`), then looks the session up under the first bytes of the packet
(`LookedUp`) and goes on unless that session is established (`Established`). Only the packet of FINISH
is secured and begins with a session id. What spdm-rs does inside a flight is external; that it fails
is `ProcessFails` and `ClientFails`, possible at every flight. Packets are whole and in order, which
is what `FramedStream` shows.

| Code | Model |
|---|---|
| `with_spdm_tcp_client` (spdm.rs 62-94) | `Connect`, `ClientExits`, `ClientEof` |
| `SpdmRequester::negotiate` (246-339) | `Request`, `Response`, `CertificateOk`, `CertificateRefused`, `MeasurementsOk`, `SessionStarted`, `ClientFails` |
| `RatsCertValidationStrategy::verify_cert_chain` (cert_validation.rs 23-40) | `VerifyCertChain` |
| `with_spdm_tcp_server` (spdm.rs 15-60), builder of the responder (66-118) | `Accept`, `BuildFails` (also `accept()` and `peer_addr()` that fail), `ServerExits` |
| `SpdmResponder::negotiate` (253-308) | `ProcessMessage`, `Established`, `ProcessFails`, `ProcessEof` |
| echo client and server (echo/mod.rs) | `EchoBack`, `Echo`, `EchoEof`, `EchoFails` |

A server that does not attest itself shows no certificate at all (`EmptyCertProvider`); the model has it
show one that does not verify (`genuine`), so that the checks of the requester have something to refuse. A program that ends closes its connections
(`dropped`). The content of measurements is not modelled: `negotiate()` logs it and compares it with
nothing.

`AttestedSession` is the promise to the program above: on a connection the responder has a session
first, and only after the requester has checked what its options ask for; the requester gets its own
behind it; each has one at most, and the serial server one at a time; and the evidence is the
connection's own, which is not exchanged any more once something has been checked. `SessionSpec` is the
refinement: a requester's session is the time its program is in the echo loop, a responder's the time
the server is at that connection with an established session.

### OpensslHook

One SSL_CTX and the SSL objects made from it, and a program that calls the functions the library
replaces in any order. OpenSSL is external and modelled by the effects the hooks rely on: `SSL_new`
copies credentials, mode and callback; setting a certificate drops a key that does not belong to it;
`SSL_set_verify` without a callback keeps the old one, `SSL_CTX_set_verify` does not;
`X509_verify_cert` reports its complaints in order to the callback, and the last one stays the error.
`setup_ssl_attester` sets the certificate and then the key: `NothingSet`, `CertWithoutKey` and
`CertAndKey` are its three outcomes. `setup_ssl_verifier` returns early on an object that has the
callback (`SetupVerifier`).

Certificates of peers are told apart by what OpenSSL and rats-rs say of them: attested, attested but
expired, self-signed without evidence, issued by a CA. Not modelled: several SSL_CTX objects and
`SSL_set_SSL_CTX`, and resumption.

### TlsSession

A `Client` and a `Server` of `transport/tls` over one TCP connection. Their owners may call
`negotiate()`, `send()`, `receive()` and `shutdown()` in any order and again, and drop their end at any
moment, in the middle of a call too (the process ends). Each call of `negotiate()` sets the callback on
the SSL_CTX (`SetVerify`), makes an SSL object (`SslNew`), and only after a handshake that succeeded
puts it into `ssl_session` (`SessionSet`): the three are separate in the code, so they are separate
variables here, and `session` is an index into the objects ever made.

| Code | Model |
|---|---|
| builders (client.rs 51-98, server.rs 47-99) | `Init`, `Verifier`, `Build`, `UseKeyAndCert`, `BuildFails` |
| `negotiate` (client.rs 164-199, server.rs 165-201) | `Negotiate` with `SetVerify` and `SslNew`, `NegotiateFails`, `SessionSet` |
| `SSL_connect`, `SSL_accept` | `AnswerHello`, `Conclude`, `Unexpected`, `HandshakeEof` |
| `verify_certificate_default` (mod.rs 109-146) | `VerifyCertificateDefault` of CertCallback, in `Accepts` |
| `send`, `shutdown` (client.rs 102-126) | `Send`, `SendFails`, `Shutdown`, `ShutdownFails` |
| `receive` (144-159) | `Receive`, `ReceiveTicket`, then `ReceiveData`, `ReceiveClose`, `ReceiveBad`, `ReceiveReset`, `ReceiveEof` or `ReceiveOver` |
| `drop` (129-140) | `DropEnd` |

OpenSSL is external, as TLS 1.3 behaves: the client is done when it has sent its last flight; a record
for another SSL object, or out of sequence, fails to decrypt; a record a handshake does not expect ends
it; the server ends its handshake with a session ticket, which the client reads with its first
`receive()`, so that a client that never receives goes with an unread record. Records name the objects
they are encrypted for, which is what their keys amount to. A connection that goes with unread records is
reset and may take with it what the other end has not read.

`receive()` looks at the session and at the sign of `SSL_read` and at nothing else. It may be called again
after any result, and `SSL_read` returns 0, which it makes Ok(0), for close_notify, for a fatal alert and
for a connection that ends without close_notify. A reset is told once: the call that meets it returns an
error (`ReceiveReset`, `SendFails`) or, if it is `shutdown()`, nothing (`ShutdownFails`), and the next read
finds the end of the stream. An Ok(0) of `receive()` behind an error therefore says nothing of the data
before it. The history variable `end` of an object is the first of the two that its end has met, and
`EndIsComplete` is about an Ok(0) that comes first.

Certificates are told apart as in OpensslHook; `Expire` lets one grow older than its 60 seconds
(cert/dice/mod.rs 31). A server's `with_verify()` without `with_verify_peer(true)` has no effect
(server.rs 58), which `Verifier` has.

Left out: the lengths cast to `i32` (slices of 2 GiB and more), a second `shutdown()`, which would wait
for the peer's close_notify, more than one ticket, signals that interrupt a call, and the SSL objects that a failed or repeated
`negotiate()` never frees.

### RustlsSession

A `RustlsClient`, which connects anew in every `negotiate()`, and the serial loop of `examples/rustls`,
which makes a `RustlsServer` of each connection. What the owners call between `negotiate()` and the end
is left open, which includes the echo loops. A byte counts as `taken` by `write()`, `sent` to TCP,
`read` by the peer; rustls keeps up to `Buffer` bytes that TCP has no room for (`Window`), and only
`write()` and `shutdown()` push them out, because the reader and the writer are halves of one stream
and `read()` does not.

| Code | Model |
|---|---|
| `RustlsClient::new`, `RustlsServer::new` | `Init`, `Accept` |
| client's `negotiate` (client.rs 75-84) | `ClientNegotiate`, `ClientConnected`, `ClientFails` |
| server's `negotiate` (server.rs 76-86) | `ServerNegotiate`, `ServerFlight`, `ServerAccepted`, `ServerRefuses` |
| `verify_server_cert`, `verify_client_cert` (mod.rs 38-60, 88-113) | `RatsVerify` |
| accept loop (rustls.rs 49-66) | `Accept`, `ServerDone`, `ServerRefuses`, `ServerEnds` |
| `send` | `Send`, `Write`, `WriteFails` |
| `shutdown` | `Shutdown`, `Flush`, `ShutdownOk`, `WriteFails` |
| `receive` | `Receive`, `Read`, `ReadEnd`, `ReadFails` |

The calls that panic without a session (`unwrap()` on None) end the program: `ClientEnds` and
`ServerEnds`, which are possible at any time. Replacing the reader and writer drops the connection
before (`Dropped`). A connection dropped with unread records is reset; the client's may always be, for the
server's session tickets are records it reads only with `receive()`. The verifiers do not look at the time, so there is no expired certificate.

### CertAttest

Programs that build certificates, each in a TEE or not, and a verifier. `CertBuilder` goes in steps
(`Prepare`, `GetEvidence`, `Sign`), because it waits for the TEE in between and every step can fail
(`BuildFails`). The verifier keeps no state: `VerifyCertDer` and `Passed` are predicates, and the
properties ask them about every certificate that can be put together (`Assembled`) from the keys,
claims and quotes of all builds, with a changed key hash or report, a header no parser knows, or
another tag.

| Code | Model |
|---|---|
| `build_with_private_key_inner` (create.rs 100-137) | `Prepare` with `WithPubkeyHash`, `ClaimsHash`, `GetEvidence`, `Sign`, `BuildFails` |
| `TeeType::detect_env`, `AutoAttester` (tee/mod.rs 56-69, 126-160) | `DetectEnv`, `GetEvidence` |
| `generate_and_sign_dice_cert` (dice/mod.rs) | `SigAlgo`, `Sign` |
| `verify_cert_der` (verify.rs 72-146) | `VerifyCertSignature`, `CreateEvidence`, `VerifyEvidence`, `VerifyPubkeyHash`, `MergedClaims` |
| parsers of SGX and TDX quotes, their headers | `IsSgxQuote`, `IsTdxQuote` |
| `CertVerifier::verify` with `Contains` (41-70) | `Passed` |

Hashes are terms and therefore have no collisions, a signature names its key, and
`TeeVerifyQuote`, which stands for Intel's library, accepts exactly the quotes a TEE has made; the verifiers
of SGX and TDX are the same code around it. Left out: the results it accepts with a warning, the lengths
and the type of the attestation key that the parsers check, and SGX quotes of version 5, which
`SgxDcapEvidence` accepts by their header and then reads with the layout of version 3 (the lengths do
not fit; those of version 4 do, and are modelled). The encodings (CBOR, DER) are one-to-one and left out. Built-in claims are the type of the quote and one
measurement, under the name its parser gives it, so that a user's claim can have the name of a
built-in claim of the other TEE: such a claim is kept, and only a policy that names the type as well
as the measurement says something (`PolicyMeans`).

## 3. Runs

| Run | Question | Bounds |
|---|---|---|
| `framed_stream` | Are packets whole, in order and once, for every cut of reads and writes and every failure? Does the stream implement `PacketChannel`? Do failed reads only delay packets? | header of 2 bytes, buffer of 4, payloads 0 to 3, 2 frames |
| `secure_halves` | Do packets and sequence numbers stay in step through the split and every failure? | 1 message from the requester, 2 from the responder, lengths accepted, refused and too long for the reader |
| `secure_halves_live` | Does every `send()` in front of a direction that is not torn return, does what was sent arrive? | the same with one length |
| `tunnel_faults` | Is what an application gets always a prefix of what the other wrote? | 3 and 2 bytes, loop buffers of 2, 1 message in flight |
| `tunnel` | Without failures: does every byte arrive, is the end never early, do the threads end? | the same |
| `tunnel_eof` | Is the end of an application's stream passed on? (It is not: see findings.) | 1 byte a side |
| `negotiation` | Do both ends have the session at the same flight, after the checks? Do they implement `AttestedSession`? Is everybody served, or at least let go? | 2 clients, 2 echo messages each, all options |
| `cert_attest` | Does a certificate of mixed parts ever verify, can a policy be relied on, does what is issued pass? | 2 programs, 2 hash algorithms, 2 builds, both key types, all quote headers |
| `openssl_hook` | Do certificates match keys, and is the evidence verified, in every order of calls? | 1 SSL object, 3 key pairs |
| `openssl_hook_connect` | Does the hook of SSL_connect begin a client's handshake? (It does not: see findings.) | 1 SSL object, 1 key pair |
| `tls_session` | Is every session authenticated, whatever is called, fails and expires? Has a client that has heard anything been accepted, is an end of the stream that comes before any error complete, does `negotiate()` return when nobody is there? | 2 SSL objects an end, 1 record each, every option, a callback of its own at the server |
| `rustls_session` | The same for rustls: authenticated, complete, `shutdown()` sends the rest, the first `negotiate()` returns? | 2 connections, messages of 2 bytes into a buffer of 1 and a window of 1, 4 bytes from the client |

Why the bounds are enough. *FramedStream*: a header of 2 bytes can be cut in the middle; a buffer of
4 holds a header with the largest accepted payload, two frames with empty payloads, and the start of a
third frame's worth of bytes; a payload of 3 is the frame that does not fit; two frames give a frame
behind a torn one and one read early. The proofs cover all other values. *SecureHalves*: the two
messages of the responder can both be read behind FINISH_RSP or be separated by a failure; the
requester's one message makes both directions busy at once. *Tunnel*: with three bytes and a buffer of
two there are messages of different lengths, one on the way while the next is read.

*Negotiation*: with two clients one waits in the backlog while the other negotiates, uses its session
or fails; the second echo message tells the end of the loop from its middle. *OpensslHook*: three key
pairs allow a pair on the SSL_CTX, one set on the object afterwards and one whose key fails; SSL objects do not share
anything but the SSL_CTX, and the proofs cover any number of them. *CertAttest*: parts of two builds are what a
mixed certificate needs, by two programs or by one; the model treats programs alike, so their symmetry
is sound (all properties are invariants). The proofs cover any number, and any certificate.
*TlsSession*: a second SSL object is what a repeated `negotiate()` makes while the first one's records
are on the wire, and one data record each way, with the ticket and the alerts, is enough to be missed, to be
late or to be for the wrong object; the proofs cover any number. *RustlsSession*: a message of 2 bytes fills buffer and window, so
the next write is partial and `shutdown()` has something left to send; the second connection is the one
a repeated `negotiate()` makes. Only the client writes data: the two directions share nothing but the
ends, and what the server's direction adds is the same actions again.

Fairness. `framed_stream`: the owner calls `receive()` again after an error and `receive()` runs
on; a stream read over and over while it has bytes does not fail every time (strong fairness of
`Read`); nothing is assumed of the sender. `secure_halves_live`: a thread keeps calling `receive()` on
each end, as the tunnel's threads do, and a call of `send()` goes on. The lock of a device needs weak
fairness only, since a device is used by one half; that of the context is also taken by the writer, for a
moment, and its waiting reader gets it in the end (strong fairness of `ReceiveCall` and of decoding). Again
the socket does not fail for ever, but of a `receive()` whose buffer is full nothing is assumed: it reads
nothing, and `SendReturns` is about directions without a torn frame, where that cannot happen.
`tls_session`: a call in progress goes on when there is something to read. `NegotiationEnds` does
not speak of two ends that wait in `negotiate()` behind a `shutdown()`: a `receive()` that meets the other
end's hello then fails without an alert, and both may wait for ever, since there is no timeout. `rustls_session`: the same,
and the loop goes on from `accept()` to the end of `negotiate()`; `ShutdownArrives` says itself that the
peer keeps reading. In both, nobody has to call anything. `negotiation`: each program takes its next step when it has one; a
client that connects and then stays silent would keep the loop, which has no timeout, and is
excluded by that. Nothing has to connect, and nothing has to fail by itself. `tunnel`: the threads run. No application has to write, to stop writing, or to shut down.

Deadlock is checked in the two SecureHalves runs. In the others it is not: a system
whose sender has stopped, whose threads or programs have all ended, or whose handshakes are done, is
where it should be; where something must go on, a liveness property says so.

Each property has a mutant of the code (`PROJECT.json`, "mutants"), written beside the definition it
changes and named in a comment there, that breaks it.

## 4. Findings

**The end of a stream is not passed through the tunnel** (`tunnel_eof`). When an application shuts its
write side down, the other tunnel program's in thread gets an error from `receive()`, not 0, and ends
by `?`; the branch that would shut the application's stream down is dead code. The thread drops its
clone, the other thread still holds one, so the application never reads end-of-file: a client that
half-closes and waits for the reply of a server that answers at end-of-file waits for ever, and after a
client has gone the server's connection stays open until the server closes it.

**The hook of `SSL_connect` calls the real `SSL_accept`** (`openssl_hook_connect`, lib.rs 172-178). A
program that calls `SSL_connect()` without `SSL_set_connect_state()` before starts a server's
handshake. Programs that set the state first (curl) are not affected, since the real `SSL_accept` then
carries on with what was set; that is why the property only speaks of objects no state was set for.

**Options without effect** (seen while reading, no run). `with_verify_mode(VERIFY_PEER)` of the
responder and `with_attest_self(true)` of the requester need mutual authentication, which is under
`cfg!(feature = "mut-auth")` (responder.rs 144, requester.rs 79 and 157); `Cargo.toml` declares no such feature.

## 5. Proofs

`FramedStreamProofs` proves, for every header size, buffer size, set of payload sizes and number of
frames that satisfy `SizesAssumption` (a header is at least one byte and fits the buffer):

- `TypeCorrect`, `PacketsInOrder`, `NoPhantomPackets`, `BufferIsStreamWindow`: the invariants of the
  run `framed_stream`;
- `Implementation`: `Spec => ChannelSpec`, the refinement.

The argument is one inductive invariant, `IInv` (theorem `Invariance`, also checked by TLC). `InOrder`
alone is not inductive: whether the next packet is the right one depends on what is in the buffer and
on whether the receiver stands at a frame boundary. `IInv` adds

- `BufferContiguous`: the `Held` bytes are the stream's bytes from position `Base` on;
- `WireLayout`: the frames before the first torn one follow each other without a gap, and only the
  frame being sent can be incomplete;
- `Synchronised`: `Base` is where the frame after the last delivered one starts, and a header that has
  been decoded is that frame's;
- `NoLocals`: between calls `receive()` has no locals.

There is one lemma per kind of step (`SendStep`, `WriteStep`, `ReadStep`, `ParseHeaderStep`,
`DeliverStep`, ...). The heart is `HeaderIsNextFrame`: at a frame boundary the bytes decoded as a
header are the header of the next frame, and of no other. The refinement maps a `Write` that completes
a frame to `Accept`, a `SendFail` inside a frame to `Tear`, a `Deliver` to `Deliver` or `DeliverNoise`,
and everything else to a stutter.

`OpensslHookProofs` proves the safety properties of `OpensslHook` for every set of SSL objects and every
number of key pairs, from `HookAssumption` (the SSL_CTX is no SSL object): `HookTypeCorrect`,
`CertAndKeyMatch`, `AlwaysAttested`, `ResultIsOk`. The inductive invariant (`IInv` there, theorem
`HookInvariance`) adds why they hold: `VerifierInstalled` (a verifying mode comes with the callback,
and the callback with the certificate verification of the SSL_CTX, so the early return of
`setup_ssl_verifier` is safe) and `InOrderOfCalls` (an object that is not made has no handshake). What
OpenSSL's verification answers under the callback is a lemma (`VerdictFacts`, `CallbackFacts`).

`CertAttestProofs` proves the properties of `CertAttest` for every set of programs, every set of hash
algorithms and any number of builds: `CertTypeCorrect`, `CertsAreOfOnePiece`,
`PoliciesMeanWhatTheySay`, `IssuedCertificatesPass`. Its lemmas `VerifiedFacts` and `PolicyFacts` are
about any certificate, not only those of `Assembled`. The argument: the report of a verified quote is
the hash of the claims of the certificate and of the claims of some build (`QuotesVouched`), so they
are the same claims; they hold the hash of that build's key (`KeysBound`) and, by the verifier's
check, of the certificate's, so the keys are the same. What a builder returns is followed through its
steps by `TasksKnown` and `IssuedKnown`. The conjunction is the inductive invariant (`IInv`, theorem
`CertInvariance`).

`TlsSessionProofs` proves the properties of `TlsSession`, for every number of SSL objects and of records
and every choice of callbacks: `TlsTypeCorrect`, `SessionsAreAuthenticated`, `HeardClientsAreAccepted`.
The inductive invariant (`IInv` there, theorem `TlsInvariance`) adds `CallbackTaken` (an end that asks
for evidence has no SSL object without the callback), `WireSpoken` (data on its way to the client comes
from an object of the server that is through its handshake, as the options ask) and `HeardFrom` (so does
what was read). A handshake in progress and the session are never the same object, which is why a failed
or repeated `negotiate()` cannot disturb what the session was accepted with. Ten of the actions change
one SSL object; `ObjectChange` collects what such a step may do and `ObjectStep` proves it once.

`TlsEndIsComplete` (the same module) needs a second invariant, `EInv` (theorem `TlsEndInvariance`, on top
of `IInv`), because `EndIsComplete` only speaks of the moment after the end. `Known` says how far two SSL
objects know each other: a client that has concluded, and a server that has, names an object that names
it back. `SoundWire` ties each record to the object it is from: data is no newer than what was sent, a
close_notify or an alert is behind all of it, and from an object that sends no more. `Pending` is the
heart: as long as no reset is still to be told and this end has met no error, each record that the peer's
object has sent and this end has not got is on the wire, so an empty wire behind an ended connection means
there is nothing left. `Ended` keeps that for the time after: calls that follow the Ok(0) get nothing, and
the peer's object has nothing to send any more. `Pending` is only true of an end that has negotiated
once, which is why the property says so: the records of an earlier session are eaten by a later
handshake. Again the steps that change one object are one lemma (`EndChangeStep`), and what an end has
to get is not disturbed by steps of others (`PendingKept`, `EndedKept`).

`RustlsSessionProofs` proves `RustlsTypeCorrect`, `RustlsSessionsAreAuthenticated` and
`RustlsEndIsComplete`, for every number of connections, size of the buffer and the window, and length of
messages (`RustlsAssumption`). The inductive invariant (`IInv` there, theorem `RustlsInvariance`) says that
the loop is at one connection, the one of its session (`OneServed`, `Sessions`), that bytes are read
behind what was sent and sent behind what was taken, within buffer and window (`Flow`), and that
close_notify goes out only when the buffer is empty and nothing is taken behind it (`Closed`, `Calling`).

`SecureHalvesProofs` proves the safety properties of `SecureHalves` for every set of message lengths,
limit, buffer length, number of messages and room in the sockets, from `HalvesAssumption`:
`SecureHalvesTypeCorrect`, `SessionsStayInStep`, `NothingIsLostSilently`. The inductive invariant (`IInv`
there, theorem `SecureHalvesInvariance`) adds `OneReadDevice` (the read half keeps the device of
`negotiate()` and nothing is ever read through the other one: this is what makes read-ahead safe),
`AfterSplit` (nobody sends, receives or decodes before its `into_split()`), `Encoding` and
`KnownPackets` (a secured packet anywhere was encoded, so the decoder cannot get ahead of the encoder).
`InStep` is proved a direction at a time, as an equation between two sequences: what is being decoded,
buffered, in the socket and pending, and what the session will accept (`Aligned`). A step moves a packet
from one part to the next (`ChainFill`, `ChainTake`, `ChainSend`), adds one at the end of both sides
(`ExpectMore`) or takes one off the front of both (`ExpectLess`, `Cancel`). That the requester finds
FINISH_RSP only after the responder has sent it (`ReplyWasSent`) follows from the equation, too.

`TunnelProofs` proves `TunnelTypeCorrect`, `TunnelKeepsOrder` and `EofIsLast` for every buffer length,
number of bytes and room of the session's socket, with failures and without. The inductive invariant is
one formula for each direction: the messages of the session are runs of consecutive bytes that follow
each other without a gap (`Chain`), they start behind what the in thread has (`StartsAfter`) and end
where the out thread's message begins (`Sending`, `Receiving`), and a thread has ended without a failure
only at the end of its stream (`Ending`).

`NegotiationProofs` proves `NegotiationTypeCorrect`, `NegotiatedSessionsAgree` and
`PeersAreVerifiedFirst` for every set of clients and number of echoed messages. Neither property is
inductive: `Checked` says what a requester has behind it at each flight, `Queued` that a connection is
queued once and worked on once, and `Finished` that between the responder's end of `negotiate()` and the
requester's FINISH_RSP is on that connection and nowhere else.
`NegotiationImplements` is `Spec => SessionSpec`, the refinement. It needs one thing more (`Untouched`): on
a connection that waits in the backlog nothing is answered and nothing checked, so that the evidence made
when it is accepted is there before any check. A check of the certificate or of the measurements maps to
`Check`, the last `ProcessMessage` to `Establish`, `SessionStarted` to `Start`, the ways out of the
programs to `RequesterEnds` and `ResponderEnds`, and the other flights to stutters.

Only model-checked: liveness (`EventuallyDelivered`, `SendReturns`, `OkArrives`, `BytesArrive`,
`ThreadsEnd`, `AllServed`, `NobodyWaits`, `NegotiationEnds`, `FirstNegotiationReturns`,
`ShutdownArrives`), which is outside the prover's reach. Every invariant a passing run checks and both
refinements are proved for every value of the constants.

## 6. Plan

Done: FramedStream, SecureHalves, Tunnel, Negotiation with the accept loop, AttestedSession, OpensslHook,
CertAttest, TlsSession and RustlsSession, each with its proofs. Next, in this order:

1. The promise of `SecureHalves` as an abstract specification of its own (messages in order, each
   returned, refused with an error, or behind a failed `send()`), with the refinement proved.
2. `QuoteLayout`: the quote parsers as operators over offsets, against the layouts they cite, and the
   message types of `SimpleTransportEncap`.

Not to be modelled: `crypto` and `errors` (no state; algorithms out of a model checker's reach),
`intel-dcap` (foreign-function bindings), logging, and the command-line front ends.
