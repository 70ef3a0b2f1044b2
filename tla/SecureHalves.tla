----------------------------- MODULE SecureHalves -----------------------------
(***************************************************************************)
(* transport/spdm/half.rs: the ReadHalf and the WriteHalf that into_split()*)
(* makes of a negotiated SpdmRequester or SpdmResponder, used by a thread  *)
(* each, on both ends of a connection.                                     *)
(*                                                                         *)
(* A peer has one SpdmContext (`common`, whose lock both halves take) and  *)
(* two FramedStreams over the same socket: the one negotiate() used and    *)
(* one made by into_split().  The model starts where the last handshake    *)
(* reply, FINISH_RSP, is still to be sent, because the bytes behind it may *)
(* be read together with it.                                               *)
(*                                                                         *)
(* A packet is what PacketChannel carries.  The AEAD of spdm-rs is taken   *)
(* by its effect: the n-th message a peer encodes decodes only as the n-th *)
(* message the other end accepts, and a failed decode changes nothing.     *)
(***************************************************************************)
EXTENDS Naturals, Sequences

CONSTANTS
  Sizes,     \* lengths of the messages given to send()
  Limit,     \* negotiate_info.rsp_data_transfer_size_sel; 0: none
  BufLen,    \* length of the buffers given to receive()
  MaxSends,  \* bound: messages each peer encodes, a function of the peer
  PipeCap    \* bound: packets the socket buffers of one direction take

Peer == {"requester", "responder"}
Other(p) == IF p = "requester" THEN "responder" ELSE "requester"

ASSUME HalvesAssumption ==
  /\ Sizes \subseteq Nat /\ Limit \in Nat /\ BufLen \in Nat
  /\ MaxSends \in [Peer -> Nat] /\ PipeCap \in Nat \ {0}

Device == {"context", "write"}
Half == {"reader", "writer"}

VARIABLES
  phase,      \* what the owner does: "negotiate", "ready" (negotiate() is Ok), "split"
  readDev,    \* ReadHalf::device_io
  writeDev,   \* WriteHalf::device_io
  holder,     \* which half has locked each device, or "none"
  common,     \* which half has locked the SpdmContext, or "none"
  wpc, rpc,   \* where send() and receive() are; "idle": not called
  size,       \* length of the message being sent
  encoded,    \* history: the lengths of the messages encoded
  sentOk,     \* history: the messages whose send() returned Ok
  damage,     \* history: "none", or what a failed send() did to the direction
  wire,       \* packets sent by a peer and not read by the other
  fin,        \* has the peer shut its direction down?
  held,       \* whole packets in each FramedStream::read_buffer
  packet,     \* what receive() is decoding
  rx,         \* messages the peer has decoded: the next must be rx + 1
  jammed,     \* is read_buffer full behind a header of a packet too large for it?
  accepted,   \* history: the messages receive() returned
  refused     \* history: the messages decoded that did not fit the caller's buffer

writerVars == <<wpc, size, encoded, sentOk, damage, fin>>
readerVars == <<rpc, packet, rx, jammed, accepted, refused>>
splitVars  == <<phase, readDev, writeDev>>
vars == <<splitVars, holder, common, writerVars, readerVars, wire, held>>

Finish == [type |-> "finish", n |-> 0]
Noise  == [type |-> "noise", n |-> 0]
Secured(n) == [type |-> "secured", n |-> n]

Init ==
  /\ phase = [p \in Peer |-> "negotiate"]
  /\ readDev = [p \in Peer |-> "context"]
  /\ writeDev = [p \in Peer |-> "context"]
  /\ holder = [p \in Peer |-> [d \in Device |-> "none"]]
  /\ common = [p \in Peer |-> "none"]
  /\ wpc = [p \in Peer |-> "idle"] /\ rpc = [p \in Peer |-> "idle"]
  /\ size = [p \in Peer |-> 0]
  /\ encoded = [p \in Peer |-> <<>>]
  /\ sentOk = [p \in Peer |-> {}]
  /\ damage = [p \in Peer |-> "none"]
  /\ wire = [p \in Peer |-> <<>>]
  /\ fin = [p \in Peer |-> FALSE]
  /\ held = [p \in Peer |-> [d \in Device |-> <<>>]]
  /\ packet = [p \in Peer |-> Finish]
  /\ rx = [p \in Peer |-> 0]
  /\ jammed = [p \in Peer |-> FALSE]
  /\ accepted = [p \in Peer |-> <<>>]
  /\ refused = [p \in Peer |-> {}]

------------------------------------------------------------------------------
(* The end of negotiate(), and into_split().                               *)

\* The responder handles FINISH: the reply is sent, the session is established
\* and negotiate() returns.
FinishSession ==
  /\ phase["responder"] = "negotiate"
  /\ wire' = [wire EXCEPT !["responder"] = Append(@, Finish)]
  /\ phase' = [phase EXCEPT !["responder"] = "ready"]
  /\ UNCHANGED <<readDev, writeDev, holder, common, writerVars, readerVars, held>>

\* start_session() of the requester takes the reply out of its FramedStream.
SessionStarted ==
  /\ phase["requester"] = "negotiate"
  /\ held["requester"]["context"] # <<>>
  /\ Head(held["requester"]["context"]) = Finish
  /\ held' = [held EXCEPT !["requester"]["context"] = Tail(@)]
  /\ phase' = [phase EXCEPT !["requester"] = "ready"]
  /\ UNCHANGED <<readDev, writeDev, holder, common, writerVars, readerVars, wire>>

\* Mutants of IntoSplit: the write half shares the device; the halves get each
\* other's device.
IntoSplitShared(p) ==
  /\ phase[p] = "ready"
  /\ phase' = [phase EXCEPT ![p] = "split"]
  /\ UNCHANGED <<readDev, writeDev, holder, common, writerVars, readerVars, wire, held>>

IntoSplitSwapped(p) ==
  /\ phase[p] = "ready"
  /\ phase' = [phase EXCEPT ![p] = "split"]
  /\ readDev' = [readDev EXCEPT ![p] = "write"]
  /\ UNCHANGED <<writeDev, holder, common, writerVars, readerVars, wire, held>>

\* The read half keeps the device negotiate() read from, with what its buffer
\* holds; the write half gets a new FramedStream.
IntoSplit(p) ==
  /\ phase[p] = "ready"
  /\ phase' = [phase EXCEPT ![p] = "split"]
  /\ writeDev' = [writeDev EXCEPT ![p] = "write"]
  /\ UNCHANGED <<readDev, holder, common, writerVars, readerVars, wire, held>>

------------------------------------------------------------------------------
(* WriteHalf::send() and shutdown().                                       *)

WriterReturns(p) == wpc' = [wpc EXCEPT ![p] = "idle"]

\* send() is called and locks the context.
SendCall(p) ==
  /\ phase[p] = "split" /\ wpc[p] = "idle"
  /\ Len(encoded[p]) < MaxSends[p]
  /\ common[p] = "none"
  /\ common' = [common EXCEPT ![p] = "writer"]
  /\ wpc' = [wpc EXCEPT ![p] = "encode"]
  /\ \E len \in Sizes : size' = [size EXCEPT ![p] = len]
  /\ UNCHANGED <<splitVars, holder, encoded, sentOk, damage, fin, readerVars, wire, held>>

TooLong(p) == Limit # 0 /\ size[p] > Limit

\* Mutant of Refuse: the message is encoded before its length is looked at.
RefuseLate(p) ==
  /\ wpc[p] = "encode" /\ TooLong(p)
  /\ encoded' = [encoded EXCEPT ![p] = Append(@, size[p])]
  /\ common' = [common EXCEPT ![p] = "none"]
  /\ WriterReturns(p)
  /\ UNCHANGED <<splitVars, holder, size, sentOk, damage, fin, readerVars, wire, held>>

\* "The buffer cannot be longer than {}"
Refuse(p) ==
  /\ wpc[p] = "encode" /\ TooLong(p)
  /\ common' = [common EXCEPT ![p] = "none"]
  /\ WriterReturns(p)
  /\ UNCHANGED <<splitVars, holder, size, encoded, sentOk, damage, fin,
                 readerVars, wire, held>>

\* Mutant of Encode: the lock is kept beyond its block.
EncodeHoldsContext(p) ==
  /\ wpc[p] = "encode" /\ ~TooLong(p)
  /\ encoded' = [encoded EXCEPT ![p] = Append(@, size[p])]
  /\ wpc' = [wpc EXCEPT ![p] = "lock"]
  /\ UNCHANGED <<splitVars, holder, common, size, sentOk, damage, fin, readerVars, wire, held>>

\* encode_secured_message() uses up a sequence number; then the lock is dropped.
Encode(p) ==
  /\ wpc[p] = "encode" /\ ~TooLong(p)
  /\ encoded' = [encoded EXCEPT ![p] = Append(@, size[p])]
  /\ common' = [common EXCEPT ![p] = "none"]
  /\ wpc' = [wpc EXCEPT ![p] = "lock"]
  /\ UNCHANGED <<splitVars, holder, size, sentOk, damage, fin, readerVars, wire, held>>

\* A message is missing on the wire, or what follows it cannot be cut into packets.
Missing(p) == damage' = [damage EXCEPT ![p] = IF @ = "torn" THEN "torn" ELSE "missing"]

\* encode_secured_message() fails: before it counts the message, or after.
EncodeFails(p) ==
  /\ wpc[p] = "encode" /\ ~TooLong(p)
  /\ \/ UNCHANGED <<encoded, damage>>
     \/ encoded' = [encoded EXCEPT ![p] = Append(@, size[p])] /\ Missing(p)
  /\ common' = [common EXCEPT ![p] = "none"]
  /\ WriterReturns(p)
  /\ UNCHANGED <<splitVars, holder, size, sentOk, fin, readerVars, wire, held>>

LockForWrite(p) ==
  /\ wpc[p] = "lock"
  /\ holder[p][writeDev[p]] = "none"
  /\ holder' = [holder EXCEPT ![p][writeDev[p]] = "writer"]
  /\ wpc' = [wpc EXCEPT ![p] = "send"]
  /\ UNCHANGED <<splitVars, common, size, encoded, sentOk, damage, fin,
                 readerVars, wire, held>>

ReleaseWrite(p) ==
  /\ holder' = [holder EXCEPT ![p][writeDev[p]] = "none"]
  /\ WriterReturns(p)

\* What a packet written now is for the reader: behind a torn one its start may
\* not be found again.
Seen(p) == {Secured(Len(encoded[p]))} \cup (IF damage[p] = "torn" THEN {Noise} ELSE {})

\* A send() waits while the socket buffers are full.
Room(p) == ~fin[p] /\ Len(wire[p]) < PipeCap

SendOk(p) ==
  /\ wpc[p] = "send" /\ Room(p)
  /\ \E pkt \in Seen(p) : wire' = [wire EXCEPT ![p] = Append(@, pkt)]
  /\ sentOk' = [sentOk EXCEPT ![p] = @ \cup {Len(encoded[p])}]
  /\ ReleaseWrite(p)
  /\ UNCHANGED <<splitVars, common, size, encoded, damage, fin, readerVars, held>>

\* device_io.send() fails after the last byte: the packet still arrives.
SendFailWhole(p) ==
  /\ wpc[p] = "send" /\ Room(p)
  /\ \E pkt \in Seen(p) : wire' = [wire EXCEPT ![p] = Append(@, pkt)]
  /\ ReleaseWrite(p)
  /\ UNCHANGED <<splitVars, common, size, encoded, sentOk, damage, fin, readerVars, held>>

\* It fails before the first byte, as every send() after shutdown() does.
SendFailClean(p) ==
  /\ wpc[p] = "send"
  /\ Missing(p)
  /\ ReleaseWrite(p)
  /\ UNCHANGED <<splitVars, common, size, encoded, sentOk, fin, readerVars, wire, held>>

\* It fails part-way.
SendFailTorn(p) ==
  /\ wpc[p] = "send" /\ Room(p)
  /\ wire' = [wire EXCEPT ![p] = Append(@, Noise)]
  /\ damage' = [damage EXCEPT ![p] = "torn"]
  /\ ReleaseWrite(p)
  /\ UNCHANGED <<splitVars, common, size, encoded, sentOk, fin, readerVars, held>>

Shutdown(p) ==
  /\ phase[p] = "split" /\ wpc[p] = "idle" /\ ~fin[p]
  /\ holder[p][writeDev[p]] = "none"
  /\ fin' = [fin EXCEPT ![p] = TRUE]
  /\ UNCHANGED <<splitVars, holder, common, wpc, size, encoded, sentOk, damage,
                 readerVars, wire, held>>

------------------------------------------------------------------------------
(* ReadHalf::receive().                                                    *)

\* receive() is called and reads the timeout under the context's lock.
ReceiveCall(p) ==
  /\ phase[p] = "split" /\ rpc[p] = "idle"
  /\ common[p] = "none"
  /\ rpc' = [rpc EXCEPT ![p] = "lock"]
  /\ UNCHANGED <<splitVars, holder, common, writerVars, packet, rx, jammed,
                 accepted, refused, wire, held>>

LockForRead(p) ==
  /\ rpc[p] = "lock"
  /\ holder[p][readDev[p]] = "none"
  /\ holder' = [holder EXCEPT ![p][readDev[p]] = "reader"]
  /\ rpc' = [rpc EXCEPT ![p] = "read"]
  /\ UNCHANGED <<splitVars, common, writerVars, packet, rx, jammed, accepted, refused,
                 wire, held>>

\* The device of the receive() in progress, in negotiate() or in the read half.
Reads(p, d) ==
  \/ p = "requester" /\ phase[p] = "negotiate" /\ d = "context"
  \/ rpc[p] = "read" /\ d = readDev[p]

\* FramedStream::receive() reads on until it holds a whole packet, and takes in
\* whatever has arrived behind it.
Fill(p) ==
  /\ ~jammed[p]
  /\ \E d \in Device :
       /\ Reads(p, d) /\ held[p][d] = <<>>
       /\ \E k \in 1 .. Len(wire[Other(p)]) :
            /\ held' = [held EXCEPT ![p][d] = SubSeq(wire[Other(p)], 1, k)]
            /\ wire' = [wire EXCEPT ![Other(p)] = SubSeq(@, k + 1, Len(@))]
  /\ UNCHANGED <<splitVars, holder, common, writerVars, readerVars>>

\* What is taken for a header behind a torn frame may be of a packet larger than
\* read_buffer.  The buffer fills with what follows and stays full: this and every
\* later receive() fails without reading from the socket.
Jam(p) ==
  LET d == readDev[p]
  IN /\ rpc[p] = "read" /\ damage[Other(p)] = "torn"
     /\ held[p][d] # <<>> /\ Head(held[p][d]) = Noise
     /\ held' = [held EXCEPT ![p][d] = <<>>]
     /\ jammed' = [jammed EXCEPT ![p] = TRUE]
     /\ UNCHANGED <<splitVars, holder, common, writerVars, rpc, packet, rx,
                    accepted, refused, wire>>

\* It returns the first packet, and the device is unlocked.
Take(p) ==
  LET d == readDev[p]
  IN /\ rpc[p] = "read" /\ held[p][d] # <<>>
     /\ packet' = [packet EXCEPT ![p] = Head(held[p][d])]
     /\ held' = [held EXCEPT ![p][d] = Tail(@)]
     /\ holder' = [holder EXCEPT ![p][d] = "none"]
     /\ rpc' = [rpc EXCEPT ![p] = "decode"]
     /\ UNCHANGED <<splitVars, common, writerVars, rx, jammed, accepted, refused, wire>>

\* It fails: end-of-file, a timeout, a broken frame, a full buffer.
ReceiveFails(p) ==
  /\ rpc[p] = "read" /\ held[p][readDev[p]] = <<>>
  /\ holder' = [holder EXCEPT ![p][readDev[p]] = "none"]
  /\ rpc' = [rpc EXCEPT ![p] = "idle"]
  /\ UNCHANGED <<splitVars, common, writerVars, packet, rx, jammed, accepted, refused,
                 wire, held>>

\* decode_secured_message() accepts the packet.
Authentic(p) == packet[p] = Secured(rx[p] + 1)

ReaderReturns(p) ==
  /\ rpc[p] = "decode" /\ common[p] = "none"
  /\ rpc' = [rpc EXCEPT ![p] = "idle"]
  /\ packet' = [packet EXCEPT ![p] = Noise]
  /\ UNCHANGED <<splitVars, holder, common, writerVars, jammed, wire, held>>

Fits(p) == encoded[Other(p)][packet[p].n] <= BufLen

DecodeOk(p) ==
  /\ Authentic(p) /\ Fits(p)
  /\ rx' = [rx EXCEPT ![p] = @ + 1]
  /\ accepted' = [accepted EXCEPT ![p] = Append(@, packet[p].n)]
  /\ ReaderReturns(p)
  /\ UNCHANGED refused

\* Mutant of DecodeShort: receive() returns as if nothing had been read.
DecodeShortSwallowed(p) ==
  /\ Authentic(p) /\ ~Fits(p)
  /\ rx' = [rx EXCEPT ![p] = @ + 1]
  /\ ReaderReturns(p)
  /\ UNCHANGED <<accepted, refused>>

\* The caller's buffer is too short: the packet is gone when decap_app() finds out.
DecodeShort(p) ==
  /\ Authentic(p) /\ ~Fits(p)
  /\ rx' = [rx EXCEPT ![p] = @ + 1]
  /\ refused' = [refused EXCEPT ![p] = @ \cup {packet[p].n}]
  /\ ReaderReturns(p)
  /\ UNCHANGED accepted

DecodeFails(p) ==
  /\ ~Authentic(p)
  /\ ReaderReturns(p)
  /\ UNCHANGED <<rx, accepted, refused>>

------------------------------------------------------------------------------
Writer(p) ==
  \/ SendCall(p) \/ Refuse(p) \/ Encode(p) \/ EncodeFails(p) \/ LockForWrite(p)
  \/ SendOk(p) \/ SendFailWhole(p) \/ SendFailClean(p) \/ SendFailTorn(p)
  \/ Shutdown(p)

Reader(p) ==
  \/ ReceiveCall(p) \/ LockForRead(p) \/ Fill(p) \/ Jam(p) \/ Take(p)
  \/ ReceiveFails(p) \/ DecodeOk(p) \/ DecodeShort(p) \/ DecodeFails(p)

Next ==
  \/ FinishSession \/ SessionStarted
  \/ \E p \in Peer : IntoSplit(p) \/ Writer(p) \/ Reader(p)

Spec == Init /\ [][Next]_vars

\* The owners finish negotiate(), split and keep a thread in receive(), as the
\* tunnel does; a call of send() goes on, but nobody has to make one.  The context,
\* which a send() holds for a moment only, is not always taken when the reader looks;
\* of the lock of a device that is contended nothing is assumed.  Reads of
\* a socket with data in it do not fail for ever; a receive() whose buffer is full
\* reads nothing, and nothing is assumed of it.
Fairness ==
  /\ WF_vars(FinishSession) /\ WF_vars(SessionStarted)
  /\ \A p \in Peer :
       /\ WF_vars(IntoSplit(p))
       /\ WF_vars(Refuse(p) \/ Encode(p) \/ EncodeFails(p) \/ LockForWrite(p) \/ SendOk(p))
       /\ WF_vars(fin[p] /\ SendFailClean(p))
       /\ SF_vars(ReceiveCall(p))
       /\ WF_vars(LockForRead(p) \/ Jam(p) \/ Take(p))
       /\ SF_vars(Fill(p))
       /\ SF_vars(DecodeOk(p) \/ DecodeShort(p) \/ DecodeFails(p))

FairSpec == Spec /\ Fairness

------------------------------------------------------------------------------
(* Properties.                                                             *)

Packet == [type : {"finish", "noise", "secured"}, n : Nat]

\* The context is locked while a message is encoded, and never while one is written:
\* the reader needs it for what it has received.
TypeOK ==
  /\ phase \in [Peer -> {"negotiate", "ready", "split"}]
  /\ readDev \in [Peer -> Device] /\ writeDev \in [Peer -> Device]
  /\ holder \in [Peer -> [Device -> Half \cup {"none"}]]
  /\ common = [p \in Peer |-> IF wpc[p] = "encode" THEN "writer" ELSE "none"]
  /\ wpc \in [Peer -> {"idle", "encode", "lock", "send"}]
  /\ rpc \in [Peer -> {"idle", "lock", "read", "decode"}]
  /\ size \in [Peer -> Sizes \cup {0}]
  /\ encoded \in [Peer -> Seq(Sizes)]
  /\ \A p \in Peer : Len(encoded[p]) <= MaxSends[p]
  /\ sentOk \in [Peer -> SUBSET Nat]
  /\ damage \in [Peer -> {"none", "missing", "torn"}]
  /\ wire \in [Peer -> Seq(Packet)]
  /\ fin \in [Peer -> BOOLEAN]
  /\ held \in [Peer -> [Device -> Seq(Packet)]]
  /\ packet \in [Peer -> Packet]
  /\ rx \in [Peer -> Nat]
  /\ jammed \in [Peer -> BOOLEAN]
  /\ accepted \in [Peer -> Seq(Nat)]
  /\ refused \in [Peer -> SUBSET Nat]

\* The packets on their way from p to the reader of the other end, oldest first.
Flight(p) ==
  LET q == Other(p)
  IN (IF rpc[q] = "decode" THEN <<packet[q]>> ELSE <<>>)
     \o held[q][readDev[q]] \o wire[p]
     \o (IF wpc[p] \in {"lock", "send"} THEN <<Secured(Len(encoded[p]))>> ELSE <<>>)

\* While no send() of p has lost a message, the packets on their way are exactly
\* those the other end's session will accept next, in this order, and no other
\* buffer hides one: an error from receive() is then never a failed decode.
InStep ==
  \A p \in Peer : damage[p] = "none" =>
    LET q == Other(p)
        reply == IF p = "responder" /\ phase[p] # "negotiate" /\ phase[q] = "negotiate"
                 THEN <<Finish>> ELSE <<>>
    IN Flight(p) = reply \o [i \in 1 .. Len(encoded[p]) - rx[q] |-> Secured(rx[q] + i)]

\* What receive() returns is what the other end encoded, in order; a message that
\* is skipped was too long for the caller's buffer, and each is decoded once.
NoSilentLoss ==
  \A p \in Peer :
    /\ \A i, j \in 1 .. Len(accepted[p]) : i < j => accepted[p][i] < accepted[p][j]
    /\ 1 .. rx[p] = {accepted[p][i] : i \in 1 .. Len(accepted[p])} \cup refused[p]
    /\ rx[p] <= Len(encoded[Other(p)])

\* send() returns: no half waits for a lock that a half waiting for a packet
\* holds, on one end or around both.  Not so behind a torn frame: the other end may
\* not read any more, and write_all() waits for room in the socket for ever.
SendReturns ==
  \A p \in Peer : (wpc[p] # "idle" /\ damage[p] # "torn") ~> wpc[p] = "idle"

\* A message whose send() returned Ok, with no message lost before it, reaches
\* the caller of receive(), the ones read during the handshake included.
OkArrives ==
  \A p \in Peer : \A n \in 1 .. MaxSends[p] :
    (n \in sentOk[p] /\ damage[p] = "none") ~> rx[Other(p)] >= n
==============================================================================
