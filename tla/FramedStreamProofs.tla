-------------------------- MODULE FramedStreamProofs --------------------------
(***************************************************************************)
(* Theorems about FramedStream, for every header size, buffer size, set of *)
(* payload sizes and number of frames.                                     *)
(***************************************************************************)
EXTENDS FramedStream, SequenceTheorems, TLAPS

\* A sequence built by position is a sequence: how Deliver builds a packet.
LEMMA PacketIsSeq ==
  ASSUME NEW n \in Nat, NEW f \in [1 .. n -> Nat]
  PROVE  f \in Seq(Nat)
OBVIOUS

\* What Append does, in the form the steps below use.
LEMMA AppendFacts ==
  ASSUME NEW S, NEW s \in Seq(S), NEW e \in S
  PROVE  /\ Append(s, e) \in Seq(S)
         /\ Len(Append(s, e)) = Len(s) + 1
         /\ \A i \in 1 .. Len(s) : Append(s, e)[i] = s[i]
         /\ Append(s, e)[Len(s) + 1] = e
OBVIOUS

\* The numbers in the frame history are natural numbers.
LEMMA FrameFacts ==
  ASSUME TypeOK
  PROVE  /\ Len(frames) \in Nat
         /\ \A i \in 1 .. Len(frames) :
              /\ frames[i] \in Frame /\ frames[i].at \in Nat
              /\ frames[i].len \in Sizes /\ frames[i].len \in Nat /\ EndOf(i) \in Nat
         /\ \A i \in Nat \ {0} : StartOf(i) \in Nat
<1> USE SizesAssumption DEF TypeOK
<1>1. Len(frames) \in Nat
  BY LenProperties
<1>2. \A i \in 1 .. Len(frames) : frames[i] \in Frame
  <2>1. frames \in Seq(Frame)
    OBVIOUS
  <2> QED
    BY <2>1, ElementOfSeq
<1>3. \A i \in 1 .. Len(frames) :
        /\ frames[i].at \in Nat /\ frames[i].len \in Sizes
        /\ frames[i].len \in Nat /\ EndOf(i) \in Nat
  <2> TAKE i \in 1 .. Len(frames)
  <2>1. frames[i].at \in Nat /\ frames[i].len \in Sizes
    BY <1>2 DEF Frame
  <2>2. frames[i].len \in Nat
    BY <2>1
  <2> QED
    BY <2>1, <2>2 DEF EndOf
<1>4. \A i \in Nat \ {0} : StartOf(i) \in Nat
  BY <1>1, <1>3 DEF StartOf
<1> QED
  BY <1>1, <1>2, <1>3, <1>4

\* Nothing is sent, read or held at first, so every part of IInv holds.
LEMMA InitIInv == Init => IInv
<1> SUFFICES ASSUME Init PROVE IInv
  OBVIOUS
<1> USE SizesAssumption DEF Init
<1>1. TypeOK
  BY DEF TypeOK, Frame, Slots
<1>2. NoLocals /\ InOrder /\ NoPhantom
  BY DEF NoLocals, InOrder, NoPhantom
<1>3. BufferContiguous
  BY DEF BufferContiguous, Held, Base
<1>4. WireLayout
  BY DEF WireLayout, StartOf
<1>5. Synchronised
  BY DEF Synchronised, Base, Held, StartOf
<1> QED
  BY <1>1, <1>2, <1>3, <1>4, <1>5 DEF IInv

\* send() called: the new frame starts where the bytes written so far end.
LEMMA SendStep ==
  ASSUME IInv, NEW len \in Sizes, Send(len)
  PROVE  IInv'
<1> USE SizesAssumption DEF IInv
<1> DEFINE frame == [at |-> wire, len |-> len]
<1>1. /\ frames \in Seq(Frame) /\ frame \in Frame
      /\ frames' = Append(frames, frame)
  BY DEF Send, TypeOK, Frame
<1>2. /\ frames' \in Seq(Frame) /\ Len(frames') = Len(frames) + 1
      /\ \A i \in 1 .. Len(frames) : frames'[i] = frames[i]
      /\ frames'[Len(frames) + 1] = frame
  BY <1>1, AppendFacts
<1>a. /\ Len(frames) \in Nat
      /\ \A i \in 1 .. Len(frames) : frames[i].at \in Nat
      /\ wire' = wire /\ wire \in Nat /\ frame.at = wire
  BY FrameFacts DEF TypeOK, Send
<1>3. TypeOK'
  BY <1>2, LenProperties DEF TypeOK, Send, receiverVars
<1>4. \A i \in 1 .. Len(frames) : EndOf(i)' = EndOf(i) /\ Payload(i)' = Payload(i)
  BY <1>2 DEF EndOf, Payload
<1>5. \A i \in 1 .. Len(frames) + 1 : StartOf(i)' = StartOf(i)
  <2> TAKE i \in 1 .. Len(frames) + 1
  <2>1. CASE i <= Len(frames)
    BY <2>1, <1>2, <1>a DEF StartOf
  <2>2. CASE i = Len(frames) + 1
    BY <2>2, <1>2, <1>a DEF StartOf
  <2> QED
    BY <2>1, <2>2, <1>a
<1>6. NoLocals' /\ BufferContiguous' /\ NoPhantom'
  BY DEF NoLocals, BufferContiguous, NoPhantom, Held, Base, Send, receiverVars
<1>7. InOrder'
  BY <1>4, LenProperties DEF InOrder, Send, receiverVars, TypeOK
<1>8. WireLayout'
  <2>a. /\ \A i, j \in 1 .. Len(frames) : i < j => frames[i].at <= frames[j].at
        /\ \A i \in 1 .. Len(frames) : frames[i].at <= wire
    BY DEF WireLayout
  <2>1. ASSUME NEW i \in 1 .. Len(frames'), NEW j \in 1 .. Len(frames'), i < j
        PROVE  frames'[i].at <= frames'[j].at
    <3> HIDE DEF IInv, frame
    <3>1. i \in 1 .. Len(frames) /\ frames'[i] = frames[i]
      <4>1. i \in 1 .. Len(frames)
        BY <2>1, <1>2, <1>a
      <4> QED
        BY <4>1, <1>2
    <3>2. CASE j \in 1 .. Len(frames)
      <4>1. frames'[j] = frames[j]
        BY <3>2, <1>2
      <4> QED
        BY <4>1, <3>1, <3>2, <2>1, <2>a
    <3>3. CASE j = Len(frames) + 1
      <4>1. frames'[j].at = wire
        BY <3>3, <1>2, <1>a
      <4> QED
        BY <4>1, <3>1, <2>a
    <3> QED
      BY <3>2, <3>3, <1>2, <1>a
  <2>2. ASSUME NEW i \in 1 .. Len(frames')
        PROVE  frames'[i].at <= wire'
    <3> HIDE DEF IInv, frame
    <3>1. CASE i \in 1 .. Len(frames)
      BY <3>1, <1>2, <1>a, <2>a
    <3>2. CASE i = Len(frames) + 1
      BY <3>2, <1>2, <1>a
    <3> QED
      BY <3>1, <3>2, <1>2, <1>a
  <2>3. StartOf(1)' = 0
    BY <1>5, LenProperties DEF WireLayout, TypeOK
  <2>4. \A i \in 1 .. intact' : EndOf(i)' = StartOf(i + 1)'
    <3>1. /\ intact' = intact /\ intact \in 0 .. Len(frames)
          /\ \A i \in 1 .. intact : EndOf(i) = StartOf(i + 1)
      BY DEF WireLayout, TypeOK, Send
    <3> HIDE DEF IInv, frame
    <3> TAKE i \in 1 .. intact'
    <3>2. i \in 1 .. Len(frames) /\ i + 1 \in 1 .. Len(frames) + 1 /\ i \in 1 .. intact
      BY <3>1, <1>a
    <3> QED
      BY <3>1, <3>2, <1>4, <1>5
  <2>5. sending' => Len(frames') > 0 /\ wire' <= EndOf(Len(frames))'
    BY <1>2 DEF TypeOK, Frame, Send, EndOf
  <2>6. ~broken' => \/ intact' = Len(frames')
                    \/ /\ sending' /\ intact' = Len(frames') - 1
                       /\ wire' < EndOf(Len(frames))'
    BY <1>2 DEF WireLayout, TypeOK, Frame, Send, EndOf
  <2> QED
    BY <2>1, <2>2, <2>3, <2>4, <2>5, <2>6 DEF WireLayout
<1>9. Synchronised'
  <2> DEFINE n == Len(delivered)
  <2>1. n \in Nat /\ intact \in 0 .. Len(frames) /\ intact' = intact /\ broken' = broken
    BY LenProperties DEF TypeOK, Send
  <2>2. Base' = Base /\ expected' = expected /\ delivered' = delivered
    BY DEF Send, receiverVars, Base, Held
  <2>3. n <= intact => Base' = StartOf(n + 1)'
    BY <1>5, <1>a, <2>1, <2>2 DEF Synchronised
  <2>4. (n < intact \/ (n = intact /\ ~broken)) /\ expected # 0 =>
          n < Len(frames) /\ expected = frames[n + 1].len + HeaderSize
    BY DEF Synchronised
  <2>5. (n < intact \/ (n = intact /\ ~broken)) /\ expected # 0 =>
          n < Len(frames') /\ expected = frames'[n + 1].len + HeaderSize
    <3> HIDE DEF IInv, frame
    <3> QED
      BY <1>2, <1>a, <2>1, <2>4
  <2> HIDE DEF IInv, frame
  <2> QED
    BY <2>1, <2>2, <2>3, <2>5 DEF Synchronised
<1> QED
  BY <1>3, <1>6, <1>7, <1>8, <1>9

\* One write() to the stream.  Only here can a frame become intact.
LEMMA WriteStep ==
  ASSUME IInv, Write
  PROVE  IInv'
<1> USE SizesAssumption DEF IInv
<1> DEFINE cur == Len(frames)
           n == Len(delivered)
<1>1. /\ sending /\ frames' = frames /\ sending' = sending /\ broken' = broken
      /\ wire' \in Nat /\ wire < wire' /\ wire' <= EndOf(cur)
      /\ intact' = IF wire' = EndOf(cur) /\ ~broken THEN cur ELSE intact
      /\ wclosed' = wclosed /\ UNCHANGED receiverVars
  <2>1. sending /\ cur \in 1 .. Len(frames) /\ wire \in Nat
    BY FrameFacts DEF Write, WireLayout, TypeOK
  <2>2. frames[cur].at \in Nat /\ frames[cur].len \in Nat
    BY <2>1, FrameFacts
  <2>3. /\ EndOf(cur) \in Nat /\ frames[cur].at + HeaderSize \in Nat
        /\ frames[cur].at + HeaderSize <= EndOf(cur)
    BY <2>2 DEF EndOf
  <2> QED
    BY <2>1, <2>3 DEF Write
<1>2. /\ cur \in Nat /\ cur > 0 /\ intact \in 0 .. cur /\ n \in Nat /\ wire \in Nat
      /\ \A i \in 1 .. cur : frames[i].at \in Nat /\ EndOf(i) \in Nat
  BY <1>1, FrameFacts, LenProperties DEF TypeOK, WireLayout
<1>3. intact < cur
  <2> SUFFICES ASSUME intact = cur PROVE FALSE
    BY <1>2
  <2>1. EndOf(cur) = StartOf(cur + 1)
    BY <1>2 DEF WireLayout
  <2> QED
    BY <2>1, <1>1, <1>2 DEF StartOf
<1>4. /\ \A i \in 1 .. cur : EndOf(i)' = EndOf(i) /\ Payload(i)' = Payload(i)
      /\ \A i \in 1 .. cur : StartOf(i)' = StartOf(i)
      /\ StartOf(cur + 1)' = wire'
  BY <1>1, <1>2 DEF EndOf, Payload, StartOf
<1>5. ~broken => n <= intact /\ intact = cur - 1
  BY <1>2, <1>3 DEF NoPhantom, WireLayout
<1>6. intact' = intact \/ (~broken /\ intact' = cur /\ wire' = EndOf(cur))
  BY <1>1
<1>7. TypeOK'
  BY <1>1, <1>2 DEF TypeOK, receiverVars
<1>8. NoLocals' /\ BufferContiguous'
  BY <1>1, <1>2 DEF NoLocals, BufferContiguous, Held, Base, receiverVars, TypeOK
<1>9. InOrder' /\ NoPhantom'
  BY <1>1, <1>2, <1>3, <1>4, <1>5, <1>6 DEF InOrder, NoPhantom, receiverVars
<1>10. WireLayout'
  <2>1. \A i \in 1 .. cur : frames[i].at <= wire'
    BY <1>1, <1>2 DEF WireLayout
  <2>2. \A i \in 1 .. intact' : EndOf(i)' = StartOf(i + 1)'
    <3>1. \A i \in 1 .. intact : EndOf(i)' = StartOf(i + 1)'
      <4> TAKE i \in 1 .. intact
      <4>1. i \in 1 .. cur /\ i + 1 \in 1 .. cur
        BY <1>2, <1>3
      <4>2. EndOf(i) = StartOf(i + 1)
        BY DEF WireLayout
      <4> QED
        BY <4>1, <4>2, <1>4
    <3>2. CASE intact' = intact
      BY <3>1, <3>2
    <3>3. CASE ~broken /\ intact' = cur /\ wire' = EndOf(cur)
      <4> TAKE i \in 1 .. intact'
      <4>1. i \in 1 .. intact \/ i = cur
        BY <3>3, <1>2, <1>5
      <4>2. CASE i = cur
        BY <4>2, <3>3, <1>1, <1>2 DEF EndOf, StartOf
      <4> QED
        BY <3>1, <4>1, <4>2
    <3> QED
      BY <3>2, <3>3, <1>6
  <2>3. StartOf(1)' = 0
    BY <1>2, <1>4 DEF WireLayout
  <2>4. sending' => Len(frames') > 0 /\ wire' <= EndOf(Len(frames))'
    BY <1>1, <1>2, <1>4
  <2>5. ~broken' => \/ intact' = Len(frames')
                    \/ sending' /\ intact' = Len(frames') - 1 /\ wire' < EndOf(Len(frames))'
    BY <1>1, <1>2, <1>4, <1>5, <1>6
  <2> QED
    BY <2>1, <2>2, <2>3, <2>4, <2>5, <1>1 DEF WireLayout
<1>11. Synchronised'
  <2>1. Base' = Base /\ expected' = expected /\ delivered' = delivered
    BY <1>1 DEF receiverVars, Base, Held
  <2>2. n <= intact' => Base' = StartOf(n + 1)'
    BY <2>1, <1>2, <1>3, <1>4, <1>5, <1>6 DEF Synchronised
  <2>3. (n < intact' \/ (n = intact' /\ ~broken)) /\ expected # 0 =>
          n < cur /\ expected = frames[n + 1].len + HeaderSize
    BY <1>2, <1>3, <1>5, <1>6 DEF Synchronised
  <2> QED
    BY <2>1, <2>2, <2>3, <1>1 DEF Synchronised
<1> QED
  BY <1>7, <1>8, <1>9, <1>10, <1>11

\* A send() ends, well or badly, or the write side is shut down: no byte moves.
LEMMA EndOfSendStep ==
  ASSUME IInv, SendOk \/ SendFail \/ Shutdown
  PROVE  IInv'
<1> USE SizesAssumption DEF IInv
<1>1. /\ frames' = frames /\ wire' = wire /\ intact' = intact /\ UNCHANGED receiverVars
      /\ sending' = FALSE /\ broken' \in BOOLEAN /\ wclosed' \in BOOLEAN
      /\ broken => broken'
  BY DEF SendOk, SendFail, Shutdown, TypeOK
<1>2. ~broken' => ~broken /\ intact' = Len(frames)
  BY <1>1, FrameFacts DEF SendOk, SendFail, Shutdown, WireLayout, TypeOK
<1>3. TypeOK'
  BY <1>1 DEF TypeOK, receiverVars
<1>4. WireLayout'
  BY <1>1, <1>2 DEF WireLayout, StartOf, EndOf
<1>5. NoLocals' /\ BufferContiguous' /\ InOrder' /\ NoPhantom'
  BY <1>1, <1>2 DEF NoLocals, BufferContiguous, InOrder, NoPhantom, Held, Base, Payload,
                    receiverVars
<1>6. Synchronised'
  BY <1>1, <1>2 DEF Synchronised, Base, Held, StartOf, receiverVars
<1> QED
  BY <1>3, <1>4, <1>5, <1>6

------------------------------------------------------------------------------
(* The receiver's steps leave everything of the sender's alone.            *)

\* What the sender has on the wire looks the same after a step of the receiver.
LEMMA SenderUnchanged ==
  ASSUME UNCHANGED senderVars, WireLayout
  PROVE  /\ WireLayout'
         /\ \A i : EndOf(i)' = EndOf(i) /\ StartOf(i)' = StartOf(i) /\ Payload(i)' = Payload(i)
BY DEF WireLayout, StartOf, EndOf, Payload, senderVars

\* receive() is called, or returns with an error: the held bytes stay.
LEMMA CallOrFailStep ==
  ASSUME IInv, Receive \/ BufferFull \/ ReadError \/ ReadEof
  PROVE  IInv'
<1> USE SizesAssumption DEF IInv
<1>1. /\ UNCHANGED senderVars /\ rpos' = rpos /\ buf' = buf /\ delivered' = delivered
      /\ expected' = 0 /\ Held' = Held
  BY DEF Receive, BufferFull, ReadError, ReadEof, WantsBytes, Fail, Return, Held
<1>2. TypeOK'
  <2>1. remain' \in 0 .. Cap /\ bsize' \in 0 .. Cap /\ inCall' \in BOOLEAN
    <3>1. CASE Receive
      BY <3>1 DEF TypeOK, Receive
    <3>2. CASE Fail
      <4>1. remain' = bsize /\ bsize' = 0 /\ inCall' = FALSE
        BY <3>2 DEF Fail, Return
      <4>2. bsize \in 0 .. Cap /\ 0 \in 0 .. Cap
        BY DEF TypeOK
      <4> QED
        BY <4>1, <4>2
    <3> QED
      BY <3>1, <3>2 DEF BufferFull, ReadError, ReadEof
  <2> QED
    BY <1>1, <2>1 DEF TypeOK, senderVars
<1>3. NoLocals'
  BY DEF NoLocals, Receive, BufferFull, ReadError, ReadEof, WantsBytes, Fail, Return
<1>4. WireLayout' /\ \A i : StartOf(i)' = StartOf(i) /\ Payload(i)' = Payload(i)
  BY <1>1, SenderUnchanged
<1>5. BufferContiguous' /\ InOrder' /\ NoPhantom' /\ Synchronised'
  BY <1>1, <1>4 DEF BufferContiguous, InOrder, NoPhantom, Synchronised, Base, senderVars
<1> QED
  BY <1>2, <1>3, <1>4, <1>5

\* stream.read() appends the next bytes of the stream to the held ones.
LEMMA ReadStep ==
  ASSUME IInv, Read
  PROVE  IInv'
<1> USE SizesAssumption DEF IInv
<1> PICK m \in 1 .. Cap - bsize :
      /\ rpos + m <= wire
      /\ buf' = [i \in Slots |->
                   IF bsize <= i /\ i < bsize + m THEN rpos + (i - bsize) ELSE buf[i]]
      /\ bsize' = bsize + m
      /\ rpos' = rpos + m
  BY DEF Read
<1>1. /\ UNCHANGED senderVars /\ delivered' = delivered /\ expected' = expected
      /\ remain' = remain /\ inCall /\ inCall'
  BY DEF Read, WantsBytes
<1>2. /\ bsize \in Nat /\ rpos \in Nat /\ wire \in Nat /\ m \in Nat
      /\ bsize + m <= Cap /\ bsize <= rpos
  BY <1>1 DEF TypeOK, BufferContiguous, Held
<1>3. TypeOK'
  <2>1. buf' \in [Slots -> Nat]
    BY <1>2 DEF TypeOK, Slots
  <2> QED
    BY <1>1, <1>2, <2>1 DEF TypeOK, senderVars
<1>4. WireLayout' /\ \A i : StartOf(i)' = StartOf(i) /\ Payload(i)' = Payload(i)
  BY <1>1, SenderUnchanged
<1>5. Held' = bsize + m /\ Held = bsize /\ Base' = Base
  BY <1>1, <1>2 DEF Held, Base
<1>6. BufferContiguous'
  <2>1. \A i \in 0 .. Held' - 1 : buf'[i] = Base' + i
    <3> TAKE i \in 0 .. Held' - 1
    <3>1. i \in Slots
      BY <1>2, <1>5 DEF Slots
    <3>2. CASE i < bsize
      BY <3>1, <3>2, <1>2, <1>5 DEF BufferContiguous
    <3>3. CASE bsize <= i
      BY <3>1, <3>3, <1>2, <1>5 DEF Base
    <3> QED
      BY <3>2, <3>3, <1>2, <1>5
  <2> QED
    BY <2>1, <1>1, <1>2, <1>5 DEF BufferContiguous, senderVars
<1>7. NoLocals' /\ InOrder' /\ NoPhantom' /\ Synchronised'
  BY <1>1, <1>4, <1>5 DEF NoLocals, InOrder, NoPhantom, Synchronised, senderVars
<1> QED
  BY <1>3, <1>4, <1>6, <1>7

\* At a frame boundary the bytes that are decoded are the header of that frame.
LEMMA HeaderIsNextFrame ==
  ASSUME IInv, inCall, HeaderReady,
         Len(delivered) < intact \/ (Len(delivered) = intact /\ ~broken)
  PROVE  /\ Len(delivered) < Len(frames)
         /\ DecodedSizes = {frames[Len(delivered) + 1].len}
<1> USE SizesAssumption DEF IInv
<1> DEFINE n == Len(delivered)
           nxt == Len(delivered) + 1
<1>1. /\ n \in Nat /\ intact \in 0 .. Len(frames) /\ Len(frames) \in Nat
      /\ bsize \in Nat /\ rpos \in Nat /\ wire \in Nat
      /\ HeaderSize <= bsize /\ Held = bsize
      /\ \A i \in 1 .. Len(frames) : frames[i].at \in Nat /\ frames[i].len \in Nat
  BY FrameFacts, LenProperties DEF TypeOK, HeaderReady, Held
<1>2. Base = StartOf(nxt) /\ Base \in Nat /\ Base + HeaderSize <= wire
  BY <1>1 DEF Synchronised, BufferContiguous, Base
<1>3. n < Len(frames)
  BY <1>1, <1>2 DEF StartOf
<1>4. nxt \in 1 .. Len(frames) /\ Base = frames[nxt].at
  BY <1>1, <1>2, <1>3 DEF StartOf
<1>5. HoldsHeaderOf(nxt)
  <2>1. \A k \in 0 .. HeaderSize - 1 : buf[k] = frames[nxt].at + k
    BY <1>1, <1>4 DEF BufferContiguous
  <2>2. CASE nxt = Len(frames)
    BY <2>1, <2>2, <1>1, <1>2, <1>4 DEF HoldsHeaderOf
  <2>3. CASE nxt < Len(frames)
    <3>1. nxt \in 1 .. intact
      BY <2>3, <1>1 DEF WireLayout
    <3>2. EndOf(nxt) = frames[nxt + 1].at
      BY <3>1, <2>3, <1>1 DEF WireLayout, StartOf
    <3>3. frames[nxt].at + HeaderSize <= frames[nxt + 1].at
      BY <3>2, <1>1, <1>4 DEF EndOf
    <3> QED
      BY <3>3, <2>1, <2>3 DEF HoldsHeaderOf
  <2> QED
    BY <2>2, <2>3, <1>1, <1>4
<1>6. ASSUME NEW j \in 1 .. Len(frames), HoldsHeaderOf(j)
      PROVE  j = nxt
  <2>1. frames[j].at = frames[nxt].at
    <3>1. buf[0] = frames[j].at + 0 /\ buf[0] = frames[nxt].at + 0
      <4>1. 0 \in 0 .. HeaderSize - 1
        OBVIOUS
      <4> HIDE DEF IInv, nxt
      <4> QED
        BY <4>1, <1>5, <1>6 DEF HoldsHeaderOf
    <3> HIDE DEF IInv, nxt
    <3> QED
      BY <3>1, <1>1, <1>4, <1>6
  <2>2. ASSUME NEW a \in 1 .. Len(frames), NEW b \in 1 .. Len(frames), a < b, HoldsHeaderOf(a)
        PROVE  frames[a].at < frames[b].at
    <3>1. a + 1 \in 1 .. Len(frames) /\ a < Len(frames) /\ a + 1 <= b
      BY <2>2, <1>1
    <3>2. frames[a].at + HeaderSize <= frames[a + 1].at
      BY <3>1, <2>2 DEF HoldsHeaderOf
    <3>3. frames[a + 1].at <= frames[b].at
      BY <3>1, <1>1 DEF WireLayout
    <3> QED
      BY <3>1, <3>2, <3>3, <1>1
  <2> HIDE DEF IInv, nxt
  <2>3. CASE j < nxt
    <3>1. frames[j].at < frames[nxt].at
      BY <2>2, <2>3, <1>4, <1>5, <1>6
    <3> QED
      BY <3>1, <2>1, <1>1, <1>4
  <2>4. CASE nxt < j
    <3>1. frames[nxt].at < frames[j].at
      BY <2>2, <2>4, <1>4, <1>5, <1>6
    <3> QED
      BY <3>1, <2>1, <1>1, <1>4
  <2>5. j \in Nat /\ nxt \in Nat
    BY <1>1, <1>4
  <2> QED
    BY <2>3, <2>4, <2>5
<1>7. DecodedSizes = {frames[nxt].len}
  BY <1>4, <1>5, <1>6 DEF DecodedSizes
<1> QED
  BY <1>3, <1>7

\* The header is decoded.
LEMMA ParseHeaderStep ==
  ASSUME IInv, ParseHeader
  PROVE  IInv'
<1> USE SizesAssumption DEF IInv
<1>1. /\ UNCHANGED senderVars /\ rpos' = rpos /\ buf' = buf /\ delivered' = delivered
      /\ remain' = remain /\ bsize' = bsize /\ inCall /\ inCall' /\ HeaderReady
      /\ \E size \in DecodedSizes : expected' = size + HeaderSize
  BY DEF ParseHeader, TypeOK
<1>2. DecodedSizes \subseteq Nat
  BY FrameFacts DEF DecodedSizes
<1>3. TypeOK'
  <2>1. expected' \in Nat /\ expected' >= HeaderSize
    BY <1>1, <1>2
  <2> QED
    BY <1>1, <2>1 DEF TypeOK, senderVars
<1>4. WireLayout' /\ \A i : StartOf(i)' = StartOf(i) /\ Payload(i)' = Payload(i)
  BY <1>1, SenderUnchanged
<1>5. NoLocals' /\ BufferContiguous' /\ InOrder' /\ NoPhantom'
  BY <1>1, <1>4 DEF NoLocals, BufferContiguous, InOrder, NoPhantom, Held, Base, senderVars
<1>6. Synchronised'
  <2>1. Len(delivered) < intact \/ (Len(delivered) = intact /\ ~broken) =>
          /\ Len(delivered) < Len(frames)
          /\ expected' = frames[Len(delivered) + 1].len + HeaderSize
    BY <1>1, HeaderIsNextFrame
  <2> QED
    BY <1>1, <1>4, <2>1 DEF Synchronised, Base, Held, senderVars
<1> QED
  BY <1>3, <1>4, <1>5, <1>6

\* A packet is returned and the bytes behind it are moved to the front.
LEMMA DeliverStep ==
  ASSUME IInv, Deliver
  PROVE  IInv'
<1> USE SizesAssumption DEF IInv
<1> DEFINE n == Len(delivered)
           packet == [k \in 1 .. expected - HeaderSize |-> buf[HeaderSize + k - 1]]
<1>1. /\ UNCHANGED senderVars /\ rpos' = rpos /\ inCall /\ inCall' = FALSE
      /\ delivered' = Append(delivered, packet) /\ buf' = MovedDown
      /\ remain' = bsize - expected /\ bsize' = 0 /\ expected' = 0
      /\ expected # 0 /\ expected <= bsize
  BY DEF Deliver, Return, Enough, TypeOK
<1>2. /\ n \in Nat /\ intact \in 0 .. Len(frames) /\ Len(frames) \in Nat
      /\ bsize \in 0 .. Cap /\ expected \in Nat /\ expected >= HeaderSize
      /\ rpos \in Nat /\ wire \in Nat /\ Held = bsize /\ bsize <= rpos /\ rpos <= wire
      /\ buf \in [Slots -> Nat]
      /\ \A i \in 1 .. Len(frames) :
           frames[i].at \in Nat /\ frames[i].len \in Nat /\ EndOf(i) \in Nat
  BY <1>1, FrameFacts, LenProperties DEF TypeOK, BufferContiguous, Held
<1>3. packet \in Seq(Nat)
  <2>1. packet \in [1 .. expected - HeaderSize -> Nat]
    BY <1>1, <1>2 DEF Slots
  <2> QED
    <3>1. expected - HeaderSize \in Nat
      BY <1>2
    <3> HIDE DEF packet
    <3> QED
      BY <2>1, <3>1, PacketIsSeq
<1>4. /\ delivered' \in Seq(Seq(Nat)) /\ Len(delivered') = n + 1
      /\ \A i \in 1 .. n : delivered'[i] = delivered[i]
      /\ delivered'[n + 1] = packet
  <2>1. delivered \in Seq(Seq(Nat)) /\ delivered' = Append(delivered, packet)
    BY <1>1 DEF TypeOK
  <2> HIDE DEF packet, IInv
  <2> QED
    BY <2>1, <1>3, AppendFacts
<1>5. WireLayout' /\ \A i : StartOf(i)' = StartOf(i) /\ Payload(i)' = Payload(i)
  BY <1>1, SenderUnchanged
<1>6. TypeOK'
  <2>1. buf' \in [Slots -> Nat]
    BY <1>1, <1>2 DEF MovedDown, Slots
  <2>2. remain' \in 0 .. Cap
    BY <1>1, <1>2
  <2>3. bsize' \in 0 .. Cap /\ expected' \in Nat /\ inCall' \in BOOLEAN
    <3>1. bsize' = 0 /\ expected' = 0 /\ inCall' = FALSE
      BY <1>1
    <3>2. 0 \in 0 .. Cap /\ 0 \in Nat
      OBVIOUS
    <3> QED
      BY <3>1, <3>2
  <2>4. UNCHANGED senderVars /\ rpos' = rpos /\ expected' = 0
    BY <1>1
  <2>5. delivered' \in Seq(Seq(Nat))
    BY <1>4
  <2> QED
    BY <2>1, <2>2, <2>3, <2>4, <2>5 DEF TypeOK, senderVars
<1>7. Held' = bsize - expected /\ Base' = Base + expected
  BY <1>1, <1>2 DEF Held, Base
<1>8. NoLocals' /\ BufferContiguous'
  <2>1. \A i \in 0 .. Held' - 1 : buf'[i] = Base' + i
    <3> TAKE i \in 0 .. Held' - 1
    <3> HIDE DEF IInv, packet
    <3>1. i \in Slots /\ i < bsize - expected /\ i + expected \in 0 .. Held - 1
      <4>1. i \in Nat /\ i < bsize - expected
        BY <1>1, <1>2, <1>7
      <4>2. i + expected \in Nat /\ i + expected < bsize
        BY <4>1, <1>2
      <4>3. i \in Slots
        BY <4>1, <4>2, <1>2 DEF Slots
      <4> QED
        BY <4>1, <4>2, <4>3, <1>2
    <3>2. buf'[i] = buf[i + expected]
      BY <3>1, <1>1 DEF MovedDown
    <3>3. buf[i + expected] = Base + (i + expected)
      BY <3>1 DEF BufferContiguous, IInv
    <3>4. Base \in Nat /\ i \in Nat
      BY <3>1, <1>2 DEF Base, Slots
    <3> QED
      BY <3>2, <3>3, <3>4, <1>2, <1>7
  <2> QED
    BY <2>1, <1>1, <1>2, <1>7 DEF NoLocals, BufferContiguous, senderVars
<1>9. ASSUME n < intact \/ (n = intact /\ ~broken)
      PROVE  /\ n + 1 \in 1 .. Len(frames) /\ expected = frames[n + 1].len + HeaderSize
             /\ Base = frames[n + 1].at /\ Base' = EndOf(n + 1)
  <2>1. /\ n <= intact /\ n < Len(frames) /\ Base = StartOf(n + 1)
        /\ expected = frames[n + 1].len + HeaderSize
    BY <1>1, <1>2, <1>9 DEF Synchronised
  <2>2. n + 1 \in 1 .. Len(frames) /\ Base = frames[n + 1].at
    BY <2>1, <1>2 DEF StartOf
  <2>3. EndOf(n + 1) = frames[n + 1].at + (frames[n + 1].len + HeaderSize)
    BY <2>2, <1>2 DEF EndOf
  <2> QED
    BY <2>1, <2>2, <2>3, <1>7
<1>10. ~broken => n < intact
  <2> SUFFICES ASSUME ~broken, n = intact PROVE FALSE
    BY <1>2 DEF NoPhantom
  <2>1. EndOf(n + 1) <= wire
    BY <1>1, <1>2, <1>7, <1>9 DEF Base
  <2>2. n + 1 = Len(frames) /\ wire < EndOf(n + 1)
    BY <1>2, <1>9 DEF WireLayout
  <2> QED
    BY <2>1, <2>2, <1>2, <1>9
<1>11. NoPhantom'
  BY <1>1, <1>2, <1>4, <1>10 DEF NoPhantom, senderVars
<1>12. InOrder'
  <2>1. n < intact => packet = Payload(n + 1)
    <3> SUFFICES ASSUME n < intact PROVE packet = Payload(n + 1)
      OBVIOUS
    <3>1. expected - HeaderSize = frames[n + 1].len
      BY <1>2, <1>9
    <3>2. \A k \in 1 .. expected - HeaderSize :
            buf[HeaderSize + k - 1] = frames[n + 1].at + HeaderSize + k - 1
      BY <1>1, <1>2, <1>9 DEF BufferContiguous
    <3> QED
      BY <3>1, <3>2 DEF Payload
  <2> QED
    BY <2>1, <1>1, <1>2, <1>4, <1>5 DEF InOrder, senderVars
<1>13. Synchronised'
  <2>1. n + 1 <= intact => Base' = StartOf(n + 2)
    BY <1>2, <1>9 DEF WireLayout
  <2> QED
    BY <2>1, <1>1, <1>2, <1>4, <1>5 DEF Synchronised, senderVars
<1> QED
  BY <1>5, <1>6, <1>8, <1>11, <1>12, <1>13

------------------------------------------------------------------------------
(* The theorems.                                                           *)

\* The invariant is inductive.
LEMMA NextIInv == IInv /\ [Next]_vars => IInv'
<1> SUFFICES ASSUME IInv, [Next]_vars PROVE IInv'
  OBVIOUS
<1>1. ASSUME NEW len \in Sizes, Send(len) PROVE IInv'
  BY <1>1, SendStep
<1>2. CASE Write
  BY <1>2, WriteStep
<1>3. CASE SendOk \/ SendFail \/ Shutdown
  BY <1>3, EndOfSendStep
<1>4. CASE Receive \/ BufferFull \/ ReadError \/ ReadEof
  BY <1>4, CallOrFailStep
<1>5. CASE ParseHeader
  BY <1>5, ParseHeaderStep
<1>6. CASE Read
  BY <1>6, ReadStep
<1>7. CASE Deliver
  BY <1>7, DeliverStep
<1>8. CASE UNCHANGED vars
  BY <1>8 DEF vars, senderVars, receiverVars, IInv, TypeOK, NoLocals, BufferContiguous,
              WireLayout, Synchronised, InOrder, NoPhantom, Held, Base, EndOf, StartOf, Payload
<1> QED
  BY <1>1, <1>2, <1>3, <1>4, <1>5, <1>6, <1>7, <1>8 DEF Next, Sender, Receiver

\* The framed stream's inductive invariant holds in every reachable state.
THEOREM Invariance == Spec => []IInv
BY InitIInv, NextIInv, PTL DEF Spec

\* Type correctness: the buffer counters of receive() stay within the buffer and
\* the frames on the wire within those sent, for buffers and packets of any size.
THEOREM TypeCorrect == Spec => []TypeOK
<1>1. IInv => TypeOK
  BY DEF IInv
<1> QED
  BY <1>1, Invariance, PTL

\* Packets come out as they were put in, in order, however reads are cut and
\* whatever fails in between, up to the first packet cut short by a failed send.
THEOREM PacketsInOrder == Spec => []InOrder
<1>1. IInv => InOrder
  BY DEF IInv
<1> QED
  BY <1>1, Invariance, PTL

\* No packet comes out that was not wholly sent.
THEOREM NoPhantomPackets == Spec => []NoPhantom
<1>1. IInv => NoPhantom
  BY DEF IInv
<1> QED
  BY <1>1, Invariance, PTL

\* The receive buffer never holds a stale byte or loses one.
THEOREM BufferIsStreamWindow == Spec => []BufferContiguous
<1>1. IInv => BufferContiguous
  BY DEF IInv
<1> QED
  BY <1>1, Invariance, PTL

------------------------------------------------------------------------------
(* The framed stream implements PacketChannel.                             *)

\* The packets of the abstract channel are a sequence, one per intact frame.
LEMMA PacketsFacts ==
  TypeOK => /\ Packets \in Seq(Seq(Nat)) /\ Len(Packets) = intact
            /\ intact \in 0 .. Len(frames) /\ Len(frames) \in Nat
<1> SUFFICES ASSUME TypeOK
             PROVE  /\ Packets \in Seq(Seq(Nat)) /\ Len(Packets) = intact
                    /\ intact \in 0 .. Len(frames) /\ Len(frames) \in Nat
  OBVIOUS
<1> USE SizesAssumption
<1>1. intact \in Nat /\ \A i \in 1 .. intact : i \in 1 .. Len(frames)
  BY FrameFacts DEF TypeOK
<1>2. \A i \in 1 .. intact : Payload(i) \in Seq(Nat)
  <2> TAKE i \in 1 .. intact
  <2>1. frames[i].at \in Nat /\ frames[i].len \in Nat
    BY <1>1, FrameFacts
  <2>2. Payload(i) \in [1 .. frames[i].len -> Nat]
    BY <2>1 DEF Payload
  <2> QED
    BY <2>1, <2>2, PacketIsSeq
<1>3. Packets \in [1 .. intact -> Seq(Nat)]
  BY <1>2 DEF Packets
<1> QED
  BY <1>1, <1>3, FrameFacts DEF TypeOK

\* A sequence with the same elements and one more extends the other.
LEMMA GrowsByOne ==
  ASSUME NEW S, NEW s \in Seq(S), NEW t \in Seq(S),
         Len(t) = Len(s) + 1, \A i \in 1 .. Len(s) : t[i] = s[i]
  PROVE  Channel!Grows(s, t)
<1>1. SubSeq(t, 1, Len(s)) = s
  <2>1. /\ SubSeq(t, 1, Len(s)) \in Seq(S) /\ Len(SubSeq(t, 1, Len(s))) = Len(s)
        /\ \A i \in 1 .. Len(s) : SubSeq(t, 1, Len(s))[i] = t[i]
    OBVIOUS
  <2> QED
    BY <2>1, SeqEqual
<1> QED
  BY <1>1 DEF Channel!Grows

\* Only a Write can change the packets of the channel: it adds the frame it ends.
LEMMA PacketsStep ==
  ASSUME IInv, IInv', [Next]_vars
  PROVE  \/ Packets' = Packets
         \/ /\ ~broken /\ broken' = broken /\ delivered' = delivered
            /\ Channel!Grows(Packets, Packets')
<1> USE SizesAssumption DEF IInv
<1>1. /\ Packets \in Seq(Seq(Nat)) /\ Len(Packets) = intact
      /\ Packets' \in Seq(Seq(Nat)) /\ Len(Packets') = intact'
      /\ intact \in 0 .. Len(frames) /\ intact' \in 0 .. Len(frames')
      /\ Len(frames) \in Nat
  <2>1. (TypeOK => /\ Packets \in Seq(Seq(Nat)) /\ Len(Packets) = intact
                   /\ intact \in 0 .. Len(frames) /\ Len(frames) \in Nat)'
    BY PacketsFacts, PTL
  <2> QED
    BY <2>1, PacketsFacts
<1>2. \A i \in 1 .. Len(frames) : Payload(i)' = Payload(i)
  <2>1. ASSUME NEW len \in Sizes, Send(len)
        PROVE  \A i \in 1 .. Len(frames) : frames'[i] = frames[i]
    BY <2>1, AppendFacts DEF Send, TypeOK, Frame
  <2>2. CASE frames' = frames
    BY <2>2 DEF Payload
  <2>3. frames' = frames \/ \E len \in Sizes : Send(len)
    BY DEF Next, Sender, Receiver, Write, SendOk, SendFail, Shutdown, Receive, ParseHeader,
           Deliver, BufferFull, Read, ReadError, ReadEof, Fail, vars, senderVars
  <2> QED
    BY <2>1, <2>2, <2>3 DEF Payload
<1>3. intact' = intact \/ (Write /\ intact' # intact)
  BY DEF Next, Sender, Receiver, Send, SendOk, SendFail, Shutdown, Receive, ParseHeader,
         Deliver, BufferFull, Read, ReadError, ReadEof, Fail, vars, senderVars
<1>4. CASE intact' = intact
  BY <1>1, <1>2, <1>4 DEF Packets
<1>5. CASE Write /\ intact' # intact
  <2>1. /\ ~broken /\ broken' = broken /\ delivered' = delivered
        /\ intact' = Len(frames) /\ intact' = intact + 1
    <3>1. /\ ~broken /\ broken' = broken /\ UNCHANGED receiverVars
          /\ intact' = Len(frames) /\ sending
      BY <1>5 DEF Write
    <3>2. intact = Len(frames) - 1
      BY <3>1, <1>5 DEF WireLayout
    <3> QED
      BY <3>1, <3>2, <1>1 DEF receiverVars
  <2>2. \A i \in 1 .. Len(Packets) : Packets'[i] = Packets[i]
    BY <1>1, <1>2, <2>1 DEF Packets
  <2>3. Channel!Grows(Packets, Packets')
    BY <1>1, <2>1, <2>2, GrowsByOne
  <2> QED
    BY <2>1, <2>3
<1> QED
  BY <1>3, <1>4, <1>5

\* A delivery takes the next packet, or the channel is broken and has none left.
LEMMA DeliveryStep ==
  ASSUME IInv, Deliver
  PROVE  /\ Packets' = Packets /\ broken' = broken
         /\ \/ /\ Len(delivered) < Len(Packets)
               /\ delivered' = Append(delivered, Packets[Len(delivered) + 1])
            \/ /\ broken /\ Len(delivered) >= Len(Packets)
               /\ Channel!Grows(delivered, delivered')
<1> USE SizesAssumption DEF IInv
<1>1. IInv'
  BY DeliverStep
<1>2. /\ Len(delivered) \in Nat /\ Len(Packets) = intact /\ intact \in Nat
      /\ delivered \in Seq(Seq(Nat)) /\ delivered' \in Seq(Seq(Nat))
  BY <1>1, PacketsFacts, LenProperties DEF TypeOK
<1>3. UNCHANGED senderVars
  BY DEF Deliver
<1>4. Packets' = Packets /\ intact' = intact /\ broken' = broken
  BY <1>3 DEF Packets, Payload, senderVars
<1> DEFINE packet == [k \in 1 .. expected - HeaderSize |-> buf[HeaderSize + k - 1]]
<1>5. delivered' = Append(delivered, packet) /\ packet \in Seq(Nat)
  <2>1. delivered' = Append(delivered, packet)
    BY DEF Deliver
  <2>2. /\ expected \in Nat /\ expected >= HeaderSize /\ bsize \in 0 .. Cap
        /\ expected <= bsize /\ buf \in [Slots -> Nat]
    BY DEF Deliver, Enough, TypeOK
  <2>3. packet \in [1 .. expected - HeaderSize -> Nat] /\ expected - HeaderSize \in Nat
    BY <2>2 DEF Slots
  <2> HIDE DEF packet
  <2> QED
    BY <2>1, <2>3, PacketIsSeq
<1> HIDE DEF packet
<1>6. /\ Len(delivered') = Len(delivered) + 1 /\ delivered'[Len(delivered) + 1] = packet
      /\ \A i \in 1 .. Len(delivered) : delivered'[i] = delivered[i]
  BY <1>2, <1>5, AppendFacts
<1>7. CASE Len(delivered) < intact
  <2> PICK nxt \in 1 .. intact : nxt = Len(delivered) + 1
    BY <1>2, <1>7
  <2>1. delivered'[nxt] = Payload(nxt)'
    BY <1>1, <1>2, <1>4, <1>6 DEF InOrder
  <2>2. Payload(nxt)' = Packets'[nxt]
    BY <1>4 DEF Packets
  <2> QED
    BY <2>1, <2>2, <1>2, <1>4, <1>5, <1>6, <1>7
<1>8. CASE Len(delivered) >= intact
  <2>1. broken
    BY <1>1, <1>2, <1>4, <1>6, <1>8 DEF NoPhantom
  <2> QED
    BY <2>1, <1>2, <1>4, <1>6, <1>8, GrowsByOne
<1> QED
  BY <1>2, <1>7, <1>8

\* Every behaviour of the framed stream is a behaviour of the abstract packet
\* channel: framing, partial reads and writes and failed calls do not show.
THEOREM Implementation == Spec => ChannelSpec
<1>1. Init => Channel!Init
  BY DEF Init, Channel!Init, Packets
<1>2. IInv /\ IInv' /\ [Next]_vars => [Channel!Next]_(Channel!vars)
  <2> SUFFICES ASSUME IInv, IInv', [Next]_vars
               PROVE  Channel!Next \/ UNCHANGED <<Packets, delivered, broken>>
    BY DEF Channel!vars
  <2>1. CASE Deliver
    BY <2>1, DeliveryStep DEF Channel!Next, Channel!Deliver, Channel!DeliverNoise
  <2>2. CASE ~Deliver
    <3>1. delivered' = delivered
      BY <2>2 DEF Next, Sender, Receiver, Send, Write, SendOk, SendFail, Shutdown, Receive,
                  ParseHeader, BufferFull, Read, ReadError, ReadEof, Fail, vars, receiverVars
    <3>2. broken' = broken \/ (SendFail /\ broken')
      BY DEF Next, Sender, Receiver, Send, Write, SendOk, SendFail, Shutdown, Receive,
             ParseHeader, Deliver, BufferFull, Read, ReadError, ReadEof, Fail, vars, senderVars,
             IInv, TypeOK
    <3>3. CASE Packets' = Packets
      BY <3>1, <3>2, <3>3 DEF Channel!Next, Channel!Tear
    <3>4. CASE ~broken /\ broken' = broken /\ Channel!Grows(Packets, Packets')
      BY <3>1, <3>4 DEF Channel!Next, Channel!Accept
    <3> QED
      BY <3>3, <3>4, PacketsStep
  <2> QED
    BY <2>1, <2>2
<1> QED
  BY <1>1, <1>2, Invariance, PTL DEF Spec, ChannelSpec, Channel!Spec
===============================================================================
