----------------------------- MODULE FramedStream -----------------------------
(***************************************************************************)
(* One direction of transport/spdm/io/framed_stream.rs: a FramedStream     *)
(* that sends and the peer's FramedStream that receives, with the byte     *)
(* stream (a TCP connection) between them.                                 *)
(*                                                                         *)
(* A byte is identified by its position in the stream, counted from 0, so  *)
(* read_buffer maps slots to positions and a packet is the sequence of     *)
(* positions copied out of it.  Nothing below assumes that the buffer      *)
(* holds what it should: slots keep stale bytes, as they do in the code.   *)
(*                                                                         *)
(* The stream is any `Read + Write`: a write or a read can be partial, can *)
(* fail at any byte, and the stream may or may not be usable afterwards.   *)
(***************************************************************************)
EXTENDS Naturals, Sequences

CONSTANTS
  HeaderSize,   \* FRAME_HEADER_SIZE, 4 in the code
  Cap,          \* read_buffer.len(): FRAME_HEADER_SIZE + RECEIVER_BUFFER_SIZE
  Sizes,        \* the payload sizes callers pass to send()
  Garbage,      \* payload sizes that bytes which are no header can decode to
  MaxFrames     \* bound: send() calls

ASSUME SizesAssumption ==
  /\ HeaderSize \in Nat \ {0}
  /\ Cap \in Nat
  /\ HeaderSize <= Cap
  /\ Sizes \subseteq Nat
  /\ Garbage \subseteq Nat
  /\ MaxFrames \in Nat

VARIABLES
  frames,     \* history of send() calls: where each frame starts, its payload size
  wire,       \* bytes written to the stream so far
  sending,    \* is a send() in progress (of the last frame)?
  wclosed,    \* has the sender shut its write side down?
  intact,     \* history: the leading frames that are wholly on the wire
  broken,     \* history: a send() failed with its frame cut short
  rpos,       \* bytes read from the stream so far
  buf,        \* FramedStream::read_buffer
  remain,     \* FramedStream::read_remain
  inCall,     \* is a receive() in progress?
  bsize,      \* receive()'s local buffer_size
  expected,   \* receive()'s local expected_size; 0: not known yet
  delivered   \* history: the payloads receive() returned with Ok

senderVars   == <<frames, wire, sending, wclosed, intact, broken>>
receiverVars == <<rpos, buf, remain, inCall, bsize, expected, delivered>>
vars == <<senderVars, receiverVars>>

Slots == 0 .. Cap - 1

\* Where frame i ends if all of it is written.
EndOf(i) == frames[i].at + HeaderSize + frames[i].len

\* Where frame i starts; for the frame after the last, where it would start.
StartOf(i) == IF i <= Len(frames) THEN frames[i].at ELSE wire

\* The stream positions of the payload of frame i.
Payload(i) == [k \in 1 .. frames[i].len |-> frames[i].at + HeaderSize + k - 1]

Init ==
  /\ frames = <<>> /\ wire = 0 /\ sending = FALSE /\ wclosed = FALSE
  /\ intact = 0 /\ broken = FALSE
  /\ rpos = 0
  /\ buf = [i \in Slots |-> 0]
  /\ remain = 0 /\ inCall = FALSE /\ bsize = 0 /\ expected = 0
  /\ delivered = <<>>

------------------------------------------------------------------------------
(* The sending side.                                                       *)

\* send() is called.  Nothing refuses a call after shutdown.
Send(len) ==
  /\ ~sending
  /\ Len(frames) < MaxFrames
  /\ frames' = Append(frames, [at |-> wire, len |-> len])
  /\ sending' = TRUE
  /\ UNCHANGED <<wire, wclosed, intact, broken, receiverVars>>

\* One write() inside write_all(header) or write_all(payload): some of what is
\* left of the header, or of the payload, never of both.
Write ==
  LET cur == Len(frames)
      headerEnd == frames[cur].at + HeaderSize
      partEnd == IF wire < headerEnd THEN headerEnd ELSE EndOf(cur)
  IN /\ sending /\ ~wclosed
     /\ \E to \in wire + 1 .. partEnd : wire' = to
     /\ intact' = IF wire' = EndOf(cur) /\ ~broken THEN cur ELSE intact
     /\ UNCHANGED <<frames, sending, wclosed, broken, receiverVars>>

\* Everything is written and flushed: Ok(()).
SendOk ==
  /\ sending
  /\ wire = EndOf(Len(frames))
  /\ sending' = FALSE
  /\ UNCHANGED <<frames, wire, wclosed, intact, broken, receiverVars>>

\* A write or the flush fails: SPDM_STATUS_SEND_FAIL.  What was written stays
\* written, and nothing marks the FramedStream as unusable.
SendFail ==
  /\ sending
  /\ sending' = FALSE
  /\ broken' = (broken \/ wire < EndOf(Len(frames)))
  /\ UNCHANGED <<frames, wire, wclosed, intact, receiverVars>>

\* WriteHalf::shutdown() of half.rs, which reaches into this FramedStream's
\* stream: the peer reads end-of-file after the last byte written.
Shutdown ==
  /\ ~sending /\ ~wclosed
  /\ wclosed' = TRUE
  /\ UNCHANGED <<frames, wire, sending, intact, broken, receiverVars>>

------------------------------------------------------------------------------
(* The receiving side: receive() and the parts of its loop.                *)

\* Mutant of Receive: forgets what the previous call left in the buffer.
ReceiveForgets ==
  /\ ~inCall
  /\ inCall' = TRUE
  /\ bsize' = 0
  /\ expected' = 0
  /\ UNCHANGED <<senderVars, rpos, buf, remain, delivered>>

Receive ==
  /\ ~inCall
  /\ inCall' = TRUE
  /\ bsize' = remain
  /\ expected' = 0
  /\ UNCHANGED <<senderVars, rpos, buf, remain, delivered>>

HeaderReady == expected = 0 /\ bsize >= HeaderSize

\* Mutants of Enough: the header is not counted; one byte too many is awaited.
EnoughWithoutHeader == expected # 0 /\ bsize + HeaderSize >= expected
EnoughAndMore == expected # 0 /\ bsize > expected

Enough == expected # 0 /\ bsize >= expected

\* The first HeaderSize bytes of the buffer are the whole header of frame i.
HoldsHeaderOf(i) ==
  /\ frames[i].at + HeaderSize <= (IF i < Len(frames) THEN frames[i + 1].at ELSE wire)
  /\ \A k \in 0 .. HeaderSize - 1 : buf[k] = frames[i].at + k

\* What FrameHeader::read makes of these bytes: the size the sender wrote when
\* they are a header, and otherwise any size (the content of payloads is not
\* modelled).
DecodedSizes ==
  IF \E i \in 1 .. Len(frames) : HoldsHeaderOf(i)
  THEN {frames[i].len : i \in {j \in 1 .. Len(frames) : HoldsHeaderOf(j)}}
  ELSE Garbage

ParseHeader ==
  /\ inCall /\ HeaderReady
  /\ \E size \in DecodedSizes : expected' = size + HeaderSize
  /\ UNCHANGED <<senderVars, rpos, buf, remain, inCall, bsize, delivered>>

\* The call returns and its locals are gone.
Return ==
  /\ inCall' = FALSE
  /\ bsize' = 0
  /\ expected' = 0

\* Mutant of MovedDown: the bytes of the next packet stay where they are.
NotMoved == buf

\* copy_within(expected_size..buffer_size, 0): the slots behind the moved bytes
\* keep what they held.
MovedDown == [i \in Slots |-> IF i < bsize - expected THEN buf[i + expected] ELSE buf[i]]

\* Mutant of Deliver: the packet stays in the buffer and is returned again.
DeliverKeeps ==
  /\ inCall /\ ~HeaderReady /\ Enough
  /\ delivered' = Append(delivered,
                         [k \in 1 .. expected - HeaderSize |-> buf[HeaderSize + k - 1]])
  /\ remain' = bsize
  /\ Return
  /\ UNCHANGED <<senderVars, rpos, buf>>

\* Enough bytes: the payload is copied out, the rest kept for the next call.
Deliver ==
  /\ inCall /\ ~HeaderReady /\ Enough
  /\ delivered' = Append(delivered,
                         [k \in 1 .. expected - HeaderSize |-> buf[HeaderSize + k - 1]])
  /\ buf' = MovedDown
  /\ remain' = bsize - expected
  /\ Return
  /\ UNCHANGED <<senderVars, rpos>>

\* Mutant of Fail: a failed call drops the part of a packet it has read.
FailDrops ==
  /\ remain' = 0
  /\ Return
  /\ UNCHANGED <<senderVars, rpos, buf, delivered>>

\* Err(0): what is in the buffer stays there for the next call.
Fail ==
  /\ remain' = bsize
  /\ Return
  /\ UNCHANGED <<senderVars, rpos, buf, delivered>>

\* "broken packet: buffer is too small"
BufferFull ==
  /\ inCall /\ ~HeaderReady /\ ~Enough
  /\ bsize >= Cap
  /\ Fail

WantsBytes ==
  /\ inCall /\ ~HeaderReady /\ ~Enough
  /\ bsize < Cap

\* stream.read() returns some bytes: any number that is there and fits, so it
\* can end inside a frame or take in several.
Read ==
  /\ WantsBytes
  /\ \E n \in 1 .. Cap - bsize :
       /\ rpos + n <= wire
       /\ buf' = [i \in Slots |->
                    IF bsize <= i /\ i < bsize + n THEN rpos + (i - bsize) ELSE buf[i]]
       /\ bsize' = bsize + n
       /\ rpos' = rpos + n
  /\ UNCHANGED <<senderVars, remain, inCall, expected, delivered>>

\* stream.read() fails, for good or for now (a timeout, an interrupted call).
ReadError == WantsBytes /\ Fail

\* stream.read() returns 0: the peer shut down and every byte has been read.
ReadEof ==
  /\ WantsBytes
  /\ wclosed /\ rpos = wire
  /\ Fail

------------------------------------------------------------------------------
Sender ==
  \/ \E len \in Sizes : Send(len)
  \/ Write \/ SendOk \/ SendFail \/ Shutdown

Receiver ==
  \/ Receive \/ ParseHeader \/ Deliver \/ BufferFull
  \/ Read \/ ReadError \/ ReadEof

Next == Sender \/ Receiver

Spec == Init /\ [][Next]_vars

\* The owner calls receive() again and again, and receive() runs to its end.  A
\* stream that is read over and over while it has bytes does not fail every
\* time.  Nothing is assumed of the sender.
Fairness ==
  /\ WF_vars(Receive) /\ WF_vars(ParseHeader) /\ WF_vars(Deliver)
  /\ SF_vars(Read)

FairSpec == Spec /\ Fairness

------------------------------------------------------------------------------
(* Properties.                                                             *)

\* The bytes the receiver holds between the stream and the packets delivered.
Held == IF inCall THEN bsize ELSE remain

\* The stream position the first held byte should have.
Base == rpos - Held

Frame == [at : Nat, len : Sizes]

TypeOK ==
  /\ frames \in Seq(Frame) /\ Len(frames) <= MaxFrames
  /\ wire \in Nat /\ rpos \in Nat
  /\ sending \in BOOLEAN /\ wclosed \in BOOLEAN /\ inCall \in BOOLEAN
  /\ intact \in 0 .. Len(frames) /\ broken \in BOOLEAN
  /\ buf \in [Slots -> Nat]
  /\ remain \in 0 .. Cap /\ bsize \in 0 .. Cap
  /\ expected \in Nat /\ (expected = 0 \/ expected >= HeaderSize)
  /\ delivered \in Seq(Seq(Nat))

\* However reads are cut and however often receive() fails in between, packet i
\* returned is packet i sent, byte for byte, for every packet before the first
\* one a failed send cut short.
InOrder ==
  \A i \in 1 .. Len(delivered) : i <= intact => delivered[i] = Payload(i)

\* receive() returns a packet only when all of it was written: not from a frame
\* still being written, not at end-of-file, not from a buffer that is full.
NoPhantom == ~broken => Len(delivered) <= intact

\* The buffer holds the next bytes of the stream, without a hole, a repetition
\* or a stale byte, whatever receive() returned last.
BufferContiguous ==
  /\ Held <= rpos /\ rpos <= wire
  /\ \A i \in 0 .. Held - 1 : buf[i] = Base + i

\* The frames before the first torn one follow each other on the wire, and at
\* most the frame being sent is not yet one of them.
WireLayout ==
  /\ \A i, j \in 1 .. Len(frames) : i < j => frames[i].at <= frames[j].at
  /\ \A i \in 1 .. Len(frames) : frames[i].at <= wire
  /\ StartOf(1) = 0
  /\ \A i \in 1 .. intact : EndOf(i) = StartOf(i + 1)
  /\ sending => Len(frames) > 0 /\ wire <= EndOf(Len(frames))
  /\ ~broken =>
       \/ intact = Len(frames)
       \/ (sending /\ intact = Len(frames) - 1 /\ wire < EndOf(Len(frames)))

\* The receiver is at a frame boundary, and a header it has parsed is the header
\* of the frame there.
Synchronised ==
  LET n == Len(delivered)
  IN /\ n <= intact => Base = StartOf(n + 1)
     /\ (n < intact \/ (n = intact /\ ~broken)) /\ expected # 0 =>
          n < Len(frames) /\ expected = frames[n + 1].len + HeaderSize

\* Between calls receive() has no locals.
NoLocals == ~inCall => bsize = 0 /\ expected = 0

\* The inductive invariant behind InOrder and NoPhantom.
IInv ==
  /\ TypeOK /\ NoLocals /\ BufferContiguous /\ WireLayout
  /\ Synchronised /\ InOrder /\ NoPhantom

\* A packet that is wholly on the wire, fits the receive buffer and has only
\* such packets before it is delivered in the end: failed reads delay it, they
\* do not lose it.
EventuallyDelivered ==
  \A i \in 1 .. MaxFrames :
    (i <= intact /\ \A j \in 1 .. i : frames[j].len + HeaderSize <= Cap)
      ~> Len(delivered) >= i

\* The packets of the abstract channel: the payloads of the intact frames.
Packets == [i \in 1 .. intact |-> Payload(i)]

\* The framed stream keeps the promise of PacketChannel.
Channel == INSTANCE PacketChannel WITH packets <- Packets

ChannelSpec == Channel!Spec
==============================================================================
