--------------------------- MODULE SecureHalvesProofs ---------------------------
(***************************************************************************)
(* Theorems about SecureHalves, for every set of message lengths, limit,   *)
(* buffer length, number of messages and room in the sockets.              *)
(***************************************************************************)
EXTENDS SecureHalves, SequenceTheorems, TLAPS

\* The read half keeps the device of negotiate(), and the other device, which the
\* write half has, is never read from.
OneReadDevice ==
  \A p \in Peer : readDev[p] = "context" /\ held[p]["write"] = <<>>

\* Halves are used after into_split() only, and the requester is done with negotiate()
\* after the responder is.
AfterSplit ==
  /\ \A p \in Peer : phase[p] # "split" =>
       /\ wpc[p] = "idle" /\ encoded[p] = <<>> /\ damage[p] = "none"
       /\ rpc[p] = "idle" /\ rx[p] = 0
  /\ phase["responder"] = "negotiate" => phase["requester"] = "negotiate"

\* A message to be encoded is one of the messages.
Encoding ==
  \A p \in Peer : wpc[p] = "encode" =>
    size[p] \in Sizes /\ Len(encoded[p]) < MaxSends[p]

\* A secured packet on its way has been encoded.
Known(pkt, l) == pkt.type = "secured" => pkt.n <= l
AllKnown(w, l) == \A i \in 1 .. Len(w) : Known(w[i], l)

KnownPackets ==
  \A p \in Peer :
    /\ AllKnown(wire[p], Len(encoded[p]))
    /\ AllKnown(held[Other(p)]["context"], Len(encoded[p]))
    /\ Known(packet[Other(p)], Len(encoded[p]))

\* The parts InStep is made of: what the other end is decoding, has in its buffer, and
\* what is still to be written; what it will accept.
Decoded(p) == IF rpc[Other(p)] = "decode" THEN <<packet[Other(p)]>> ELSE <<>>
Held(p) == held[Other(p)]["context"]
Pending(p) == IF wpc[p] \in {"lock", "send"} THEN <<Secured(Len(encoded[p]))>> ELSE <<>>
Reply(p) ==
  IF p = "responder" /\ phase[p] # "negotiate" /\ phase[Other(p)] = "negotiate"
  THEN <<Finish>> ELSE <<>>
Expect(r, l) == [i \in 1 .. l - r |-> Secured(r + i)]

Chain(d, h, w, s) == d \o h \o w \o s

Aligned(p) ==
  damage[p] = "none" =>
    Chain(Decoded(p), Held(p), wire[p], Pending(p))
      = Reply(p) \o Expect(rx[Other(p)], Len(encoded[p]))

IInv ==
  /\ TypeOK /\ OneReadDevice /\ AfterSplit /\ Encoding /\ KnownPackets
  /\ InStep /\ NoSilentLoss

------------------------------------------------------------------------------
LEMMA Peers ==
  /\ "requester" \in Peer /\ "responder" \in Peer
  /\ Other("requester") = "responder" /\ Other("responder") = "requester"
  /\ \A p \in Peer : Other(p) \in Peer /\ Other(p) # p /\ Other(Other(p)) = p
  /\ \A p, q \in Peer : q = p \/ q = Other(p)
BY DEF Peer, Other

LEMMA Packets ==
  /\ Finish \in Packet /\ Noise \in Packet /\ \A n \in Nat : Secured(n) \in Packet
  /\ Finish.type = "finish" /\ Noise.type = "noise"
  /\ \A n : Secured(n).type = "secured" /\ Secured(n).n = n
BY DEF Finish, Noise, Secured, Packet

LEMMA Typed ==
  ASSUME TypeOK, NEW p \in Peer
  PROVE  /\ wire[p] \in Seq(Packet) /\ held[p]["context"] \in Seq(Packet)
         /\ packet[p] \in Packet /\ packet[p].n \in Nat
         /\ encoded[p] \in Seq(Sizes) /\ Len(encoded[p]) \in Nat
         /\ rx[p] \in Nat /\ accepted[p] \in Seq(Nat) /\ MaxSends[p] \in Nat
BY HalvesAssumption, LenProperties DEF TypeOK, Device, Packet

LEMMA Updates ==
  ASSUME TypeOK, NEW p \in Peer
  PROVE  /\ rx[p] + 1 \in Nat
         /\ sentOk[p] \cup {Len(encoded[p])} \in SUBSET Nat
         /\ refused[p] \cup {packet[p].n} \in SUBSET Nat
         /\ Len(encoded[p]) < MaxSends[p] => Len(encoded[p]) + 1 <= MaxSends[p]
<1> DEFINE r == rx[p]
           l == Len(encoded[p])
           m == MaxSends[p]
           n == packet[p].n
           sent == sentOk[p]
           ref == refused[p]
<1>1. r \in Nat /\ l \in Nat /\ m \in Nat /\ n \in Nat
  BY Typed
<1>2. sent \in SUBSET Nat /\ ref \in SUBSET Nat
  BY DEF TypeOK
<1> HIDE DEF r, l, m, n, sent, ref
<1>3. r + 1 \in Nat /\ (l < m => l + 1 <= m)
  BY <1>1
<1>4. sent \cup {l} \in SUBSET Nat /\ ref \cup {n} \in SUBSET Nat
  BY <1>1, <1>2
<1> QED
  BY <1>3, <1>4 DEF r, l, m, n, sent, ref

\* Packets added at the end of a sequence, or taken from its ends, are of its type.
LEMMA SeqTypes ==
  ASSUME NEW S, NEW w \in Seq(S)
  PROVE  /\ \A x \in S : Append(w, x) \in Seq(S)
         /\ w # <<>> => Head(w) \in S /\ Tail(w) \in Seq(S)
         /\ \A k \in 1 .. Len(w) :
              SubSeq(w, 1, k) \in Seq(S) /\ SubSeq(w, k + 1, Len(w)) \in Seq(S)
<1>1. ASSUME NEW x \in S PROVE Append(w, x) \in Seq(S)
  BY AppendProperties
<1>2. w # <<>> => Head(w) \in S /\ Tail(w) \in Seq(S)
  BY HeadTailProperties
<1>3. ASSUME NEW k \in 1 .. Len(w)
      PROVE  SubSeq(w, 1, k) \in Seq(S) /\ SubSeq(w, k + 1, Len(w)) \in Seq(S)
  <2>1. Len(w) \in Nat /\ k \in Int /\ k + 1 \in Int
    BY LenProperties
  <2>2. \A i \in 1 .. k : w[i] \in S
    BY <2>1, ElementOfSeq
  <2>3. \A i \in k + 1 .. Len(w) : w[i] \in S
    BY <2>1, ElementOfSeq
  <2> QED
    BY <2>1, <2>2, <2>3, SubSeqProperties
<1> QED
  BY <1>1, <1>2, <1>3

LEMMA HeldTyped ==
  ASSUME TypeOK, NEW p \in Peer, NEW d \in Device
  PROVE  held[p][d] \in Seq(Packet)
BY DEF TypeOK

LEMMA HeldType ==
  ASSUME TypeOK, NEW p \in Peer, NEW d \in Device, NEW h \in Seq(Packet)
  PROVE  [held EXCEPT ![p][d] = h] \in [Peer -> [Device -> Seq(Packet)]]
<1>1. held[p] \in [Device -> Seq(Packet)]
  BY DEF TypeOK
<1>2. [held[p] EXCEPT ![d] = h] \in [Device -> Seq(Packet)]
  BY <1>1
<1> QED
  BY <1>2 DEF TypeOK

LEMMA WireType ==
  ASSUME TypeOK, NEW p \in Peer, NEW w \in Seq(Packet)
  PROVE  [wire EXCEPT ![p] = w] \in [Peer -> Seq(Packet)]
BY DEF TypeOK

\* A message of p that is sent now is a packet, and so is what replaces it.
LEMMA SeenType ==
  ASSUME TypeOK, NEW p \in Peer, NEW pkt \in Seen(p)
  PROVE  pkt \in Packet /\ Append(wire[p], pkt) \in Seq(Packet)
<1>1. pkt \in Packet
  BY Typed, Packets DEF Seen
<1> QED
  BY <1>1, Typed, SeqTypes

\* One more message is encoded.
LEMMA MoreEncoded ==
  ASSUME TypeOK, NEW p \in Peer, size[p] \in Sizes, Len(encoded[p]) < MaxSends[p],
         encoded' = [encoded EXCEPT ![p] = Append(encoded[p], size[p])]
  PROVE  /\ encoded' \in [Peer -> Seq(Sizes)]
         /\ \A q \in Peer : Len(encoded'[q]) <= MaxSends[q]
<1>1. /\ Append(encoded[p], size[p]) \in Seq(Sizes)
      /\ Len(Append(encoded[p], size[p])) = Len(encoded[p]) + 1
  BY Typed, AppendProperties
<1>2. encoded' \in [Peer -> Seq(Sizes)]
  BY <1>1 DEF TypeOK
<1>3. ASSUME NEW q \in Peer PROVE Len(encoded'[q]) <= MaxSends[q]
  <2>1. CASE q = p
    <3>1. Len(encoded[p]) + 1 <= MaxSends[p]
      BY Updates
    <3> QED
      BY <1>1, <2>1, <3>1 DEF TypeOK
  <2>2. CASE q # p
    BY <2>2 DEF TypeOK
  <2> QED
    BY <2>1, <2>2
<1> QED
  BY <1>2, <1>3

------------------------------------------------------------------------------
(* Types.                                                                  *)

\* Every step keeps the types.
LEMMA TypeStep ==
  ASSUME IInv, [Next]_vars
  PROVE  TypeOK'
<1>a. TypeOK /\ Encoding
  BY DEF IInv
<1> USE <1>a, Peers DEF TypeOK, Device, Half, writerVars, readerVars, splitVars
<1>1. CASE FinishSession
  <2>1. wire' \in [Peer -> Seq(Packet)]
    BY <1>1, Typed, Packets, SeqTypes, WireType DEF FinishSession
  <2> QED
    BY <1>1, <2>1 DEF FinishSession
<1>2. CASE SessionStarted
  <2>1. Tail(held["requester"]["context"]) \in Seq(Packet)
    BY <1>2, Typed, SeqTypes DEF SessionStarted
  <2>2. held' \in [Peer -> [Device -> Seq(Packet)]]
    BY <1>2, <2>1, HeldType DEF SessionStarted
  <2> QED
    BY <1>2, <2>2 DEF SessionStarted
<1>3. ASSUME NEW p \in Peer, IntoSplit(p) PROVE TypeOK'
  BY <1>3 DEF IntoSplit
<1>4. ASSUME NEW p \in Peer, SendCall(p) PROVE TypeOK'
  <2>1. size' \in [Peer -> Sizes \cup {0}]
    BY <1>4 DEF SendCall
  <2> QED
    BY <1>4, <2>1 DEF SendCall
<1>5. ASSUME NEW p \in Peer, Refuse(p) PROVE TypeOK'
  BY <1>5 DEF Refuse, WriterReturns
<1>6. ASSUME NEW p \in Peer, Encode(p) PROVE TypeOK'
  <2>1. size[p] \in Sizes /\ Len(encoded[p]) < MaxSends[p]
    BY <1>6 DEF Encode, Encoding
  <2>2. /\ encoded' \in [Peer -> Seq(Sizes)]
        /\ \A q \in Peer : Len(encoded'[q]) <= MaxSends[q]
    BY <1>6, <2>1, MoreEncoded DEF Encode
  <2> QED
    BY <1>6, <2>2 DEF Encode
<1>7. ASSUME NEW p \in Peer, LockForWrite(p) PROVE TypeOK'
  BY <1>7 DEF LockForWrite
<1>8. ASSUME NEW p \in Peer, SendOk(p) PROVE TypeOK'
  <2>1. wire' \in [Peer -> Seq(Packet)]
    <3>1. PICK pkt \in Seen(p) : wire' = [wire EXCEPT ![p] = Append(@, pkt)]
      BY <1>8 DEF SendOk
    <3>2. Append(wire[p], pkt) \in Seq(Packet)
      BY SeenType
    <3> QED
      BY <3>1, <3>2, WireType
  <2>2. sentOk' \in [Peer -> SUBSET Nat]
    <3>1. sentOk[p] \cup {Len(encoded[p])} \in SUBSET Nat
      BY Updates
    <3> QED
      BY <1>8, <3>1 DEF SendOk
  <2>3. /\ holder' \in [Peer -> [Device -> Half \cup {"none"}]]
        /\ wpc' \in [Peer -> {"idle", "encode", "lock", "send"}]
    BY <1>8 DEF SendOk, ReleaseWrite, WriterReturns
  <2>4. common' = [q \in Peer |-> IF wpc'[q] = "encode" THEN "writer" ELSE "none"]
    BY <1>8 DEF SendOk, ReleaseWrite, WriterReturns
  <2> QED
    BY <1>8, <2>1, <2>2, <2>3, <2>4 DEF SendOk
<1>9. ASSUME NEW p \in Peer, SendFailWhole(p) PROVE TypeOK'
  <2>1. wire' \in [Peer -> Seq(Packet)]
    <3>1. PICK pkt \in Seen(p) : wire' = [wire EXCEPT ![p] = Append(@, pkt)]
      BY <1>9 DEF SendFailWhole
    <3>2. Append(wire[p], pkt) \in Seq(Packet)
      BY SeenType
    <3> QED
      BY <3>1, <3>2, WireType
  <2>3. /\ holder' \in [Peer -> [Device -> Half \cup {"none"}]]
        /\ wpc' \in [Peer -> {"idle", "encode", "lock", "send"}]
    BY <1>9 DEF SendFailWhole, ReleaseWrite, WriterReturns
  <2>4. common' = [q \in Peer |-> IF wpc'[q] = "encode" THEN "writer" ELSE "none"]
    BY <1>9 DEF SendFailWhole, ReleaseWrite, WriterReturns
  <2> QED
    BY <1>9, <2>1, <2>3, <2>4 DEF SendFailWhole
<1>10. ASSUME NEW p \in Peer, SendFailClean(p) PROVE TypeOK'
  BY <1>10 DEF SendFailClean, Missing, ReleaseWrite, WriterReturns
<1>11. ASSUME NEW p \in Peer, SendFailTorn(p) PROVE TypeOK'
  <2>1. wire' \in [Peer -> Seq(Packet)]
    <3>1. Append(wire[p], Noise) \in Seq(Packet)
      BY Typed, Packets, SeqTypes
    <3> QED
      BY <1>11, <3>1, WireType DEF SendFailTorn
  <2>2. /\ holder' \in [Peer -> [Device -> Half \cup {"none"}]]
        /\ wpc' \in [Peer -> {"idle", "encode", "lock", "send"}]
    BY <1>11 DEF SendFailTorn, ReleaseWrite, WriterReturns
  <2>4. common' = [q \in Peer |-> IF wpc'[q] = "encode" THEN "writer" ELSE "none"]
    BY <1>11 DEF SendFailTorn, ReleaseWrite, WriterReturns
  <2> QED
    BY <1>11, <2>1, <2>2, <2>4 DEF SendFailTorn
<1>12. ASSUME NEW p \in Peer, Shutdown(p) PROVE TypeOK'
  BY <1>12 DEF Shutdown
<1>13. ASSUME NEW p \in Peer, ReceiveCall(p) PROVE TypeOK'
  BY <1>13 DEF ReceiveCall
<1>14. ASSUME NEW p \in Peer, LockForRead(p) PROVE TypeOK'
  BY <1>14 DEF LockForRead
<1>15. ASSUME NEW p \in Peer, Fill(p) PROVE TypeOK'
  <2>1. PICK d \in Device, k \in 1 .. Len(wire[Other(p)]) :
          /\ held' = [held EXCEPT ![p][d] = SubSeq(wire[Other(p)], 1, k)]
          /\ wire' = [wire EXCEPT ![Other(p)] = SubSeq(@, k + 1, Len(@))]
          /\ UNCHANGED <<splitVars, holder, common, writerVars, readerVars>>
    BY <1>15 DEF Fill
  <2>2. /\ SubSeq(wire[Other(p)], 1, k) \in Seq(Packet)
        /\ SubSeq(wire[Other(p)], k + 1, Len(wire[Other(p)])) \in Seq(Packet)
    BY Typed, SeqTypes
  <2>3. held' \in [Peer -> [Device -> Seq(Packet)]]
    BY <2>1, <2>2, HeldType
  <2>4. wire' \in [Peer -> Seq(Packet)]
    BY <2>1, <2>2, WireType
  <2> QED
    BY <2>1, <2>3, <2>4
<1>16. ASSUME NEW p \in Peer, Take(p) PROVE TypeOK'
  <2> DEFINE d == readDev[p]
  <2>1. d \in Device /\ held[p][d] \in Seq(Packet)
    <3>1. d \in Device
      OBVIOUS
    <3>2. \A x \in Device : held[p][x] \in Seq(Packet)
      BY HeldTyped
    <3> HIDE DEF d
    <3> QED
      BY <3>1, <3>2
  <2>6. held[p][d] # <<>>
    BY <1>16 DEF Take
  <2>2. Head(held[p][d]) \in Packet /\ Tail(held[p][d]) \in Seq(Packet)
    BY <2>1, <2>6, SeqTypes
  <2>3. held' \in [Peer -> [Device -> Seq(Packet)]]
    BY <1>16, <2>1, <2>2, HeldType DEF Take
  <2>4. packet' \in [Peer -> Packet]
    BY <1>16, <2>2 DEF Take
  <2>5. /\ holder' \in [Peer -> [Device -> Half \cup {"none"}]]
        /\ rpc' \in [Peer -> {"idle", "lock", "read", "decode"}]
    BY <1>16 DEF Take
  <2> QED
    BY <1>16, <2>3, <2>4, <2>5 DEF Take
<1>17. ASSUME NEW p \in Peer, ReceiveFails(p) PROVE TypeOK'
  BY <1>17 DEF ReceiveFails
<1>18. ASSUME NEW p \in Peer, DecodeOk(p) PROVE TypeOK'
  <2>1. rx' \in [Peer -> Nat]
    <3>1. rx[p] + 1 \in Nat
      BY Updates
    <3> QED
      BY <1>18, <3>1 DEF DecodeOk
  <2>2. accepted' \in [Peer -> Seq(Nat)]
    <3>1. Append(accepted[p], packet[p].n) \in Seq(Nat)
      BY Typed, SeqTypes
    <3> QED
      BY <1>18, <3>1 DEF DecodeOk
  <2>3. packet' \in [Peer -> Packet]
    BY <1>18, Packets DEF DecodeOk, ReaderReturns
  <2> QED
    BY <1>18, <2>1, <2>2, <2>3 DEF DecodeOk, ReaderReturns
<1>19. ASSUME NEW p \in Peer, DecodeShort(p) PROVE TypeOK'
  <2>1. rx' \in [Peer -> Nat]
    <3>1. rx[p] + 1 \in Nat
      BY Updates
    <3> QED
      BY <1>19, <3>1 DEF DecodeShort
  <2>2. refused' \in [Peer -> SUBSET Nat]
    <3>1. refused[p] \cup {packet[p].n} \in SUBSET Nat
      BY Updates
    <3> QED
      BY <1>19, <3>1 DEF DecodeShort
  <2>3. packet' \in [Peer -> Packet]
    BY <1>19, Packets DEF DecodeShort, ReaderReturns
  <2> QED
    BY <1>19, <2>1, <2>2, <2>3 DEF DecodeShort, ReaderReturns
<1>20. ASSUME NEW p \in Peer, DecodeFails(p) PROVE TypeOK'
  BY <1>20, Packets DEF DecodeFails, ReaderReturns, Authentic
<1>21. ASSUME NEW p \in Peer, EncodeFails(p) PROVE TypeOK'
  <2>1. CASE UNCHANGED <<encoded, damage>>
    BY <1>21, <2>1 DEF EncodeFails, WriterReturns
  <2>2. CASE encoded' = [encoded EXCEPT ![p] = Append(@, size[p])] /\ Missing(p)
    <3>1. size[p] \in Sizes /\ Len(encoded[p]) < MaxSends[p]
      BY <1>21 DEF EncodeFails, Encoding
    <3>2. /\ encoded' \in [Peer -> Seq(Sizes)]
          /\ \A q \in Peer : Len(encoded'[q]) <= MaxSends[q]
      BY <2>2, <3>1, MoreEncoded
    <3>3. damage' \in [Peer -> {"none", "missing", "torn"}]
      BY <2>2 DEF Missing
    <3> QED
      BY <1>21, <3>2, <3>3 DEF EncodeFails, WriterReturns
  <2> QED
    BY <1>21, <2>1, <2>2 DEF EncodeFails
<1>22. ASSUME NEW p \in Peer, Jam(p) PROVE TypeOK'
  <2>1. held' \in [Peer -> [Device -> Seq(Packet)]]
    BY <1>22, EmptySeq, HeldType DEF Jam
  <2>2. jammed' \in [Peer -> BOOLEAN]
    BY <1>22 DEF Jam
  <2> QED
    BY <1>22, <2>1, <2>2 DEF Jam
<1>23. CASE UNCHANGED vars
  BY <1>23 DEF vars
<1> QED
  BY <1>1, <1>2, <1>3, <1>4, <1>5, <1>6, <1>7, <1>8, <1>9, <1>10, <1>11, <1>12, <1>13,
     <1>14, <1>15, <1>16, <1>17, <1>18, <1>19, <1>20, <1>21, <1>22, <1>23
  DEF Next, Writer, Reader

\* Only Fill() puts packets into a buffer, and it is the read device's.
LEMMA DeviceStep ==
  ASSUME IInv, [Next]_vars
  PROVE  OneReadDevice'
<1> USE Peers DEF IInv, TypeOK, OneReadDevice, Device, writerVars, readerVars, splitVars
<1>1. CASE FinishSession
  BY <1>1 DEF FinishSession
<1>2. CASE SessionStarted
  BY <1>2 DEF SessionStarted
<1>3. ASSUME NEW p \in Peer, IntoSplit(p) PROVE OneReadDevice'
  BY <1>3 DEF IntoSplit
<1>4. ASSUME NEW p \in Peer, SendCall(p) PROVE OneReadDevice'
  BY <1>4 DEF SendCall
<1>5. ASSUME NEW p \in Peer, Refuse(p) PROVE OneReadDevice'
  BY <1>5 DEF Refuse, WriterReturns
<1>6. ASSUME NEW p \in Peer, Encode(p) PROVE OneReadDevice'
  BY <1>6 DEF Encode
<1>7. ASSUME NEW p \in Peer, LockForWrite(p) PROVE OneReadDevice'
  BY <1>7 DEF LockForWrite
<1>8. ASSUME NEW p \in Peer, SendOk(p) PROVE OneReadDevice'
  BY <1>8 DEF SendOk, Seen, ReleaseWrite, WriterReturns
<1>9. ASSUME NEW p \in Peer, SendFailWhole(p) PROVE OneReadDevice'
  BY <1>9 DEF SendFailWhole, Seen, ReleaseWrite, WriterReturns
<1>10. ASSUME NEW p \in Peer, SendFailClean(p) PROVE OneReadDevice'
  BY <1>10 DEF SendFailClean, Missing, ReleaseWrite, WriterReturns
<1>11. ASSUME NEW p \in Peer, SendFailTorn(p) PROVE OneReadDevice'
  BY <1>11 DEF SendFailTorn, ReleaseWrite, WriterReturns
<1>12. ASSUME NEW p \in Peer, Shutdown(p) PROVE OneReadDevice'
  BY <1>12 DEF Shutdown
<1>13. ASSUME NEW p \in Peer, ReceiveCall(p) PROVE OneReadDevice'
  BY <1>13 DEF ReceiveCall
<1>14. ASSUME NEW p \in Peer, LockForRead(p) PROVE OneReadDevice'
  BY <1>14 DEF LockForRead
<1>15. ASSUME NEW p \in Peer, Fill(p) PROVE OneReadDevice'
  BY <1>15 DEF Fill, Reads
<1>16. ASSUME NEW p \in Peer, Take(p) PROVE OneReadDevice'
  BY <1>16 DEF Take
<1>17. ASSUME NEW p \in Peer, ReceiveFails(p) PROVE OneReadDevice'
  BY <1>17 DEF ReceiveFails
<1>18. ASSUME NEW p \in Peer, DecodeOk(p) PROVE OneReadDevice'
  BY <1>18 DEF DecodeOk, ReaderReturns, Authentic
<1>19. ASSUME NEW p \in Peer, DecodeShort(p) PROVE OneReadDevice'
  BY <1>19 DEF DecodeShort, ReaderReturns, Authentic
<1>20. ASSUME NEW p \in Peer, DecodeFails(p) PROVE OneReadDevice'
  BY <1>20 DEF DecodeFails, ReaderReturns, Authentic
<1>21. ASSUME NEW p \in Peer, EncodeFails(p) PROVE OneReadDevice'
  BY <1>21 DEF EncodeFails, WriterReturns
<1>22. ASSUME NEW p \in Peer, Jam(p) PROVE OneReadDevice'
  BY <1>22 DEF Jam
<1>23. CASE UNCHANGED vars
  BY <1>23 DEF vars
<1> QED
  BY <1>1, <1>2, <1>3, <1>4, <1>5, <1>6, <1>7, <1>8, <1>9, <1>10, <1>11, <1>12, <1>13,
     <1>14, <1>15, <1>16, <1>17, <1>18, <1>19, <1>20, <1>21, <1>22, <1>23
  DEF Next, Writer, Reader

\* A message is looked at once it is there.
LEMMA EncodingStep ==
  ASSUME IInv, [Next]_vars
  PROVE  Encoding'
<1> USE DEF IInv, TypeOK, Encoding, writerVars, readerVars, splitVars
<1>1. CASE FinishSession
  BY <1>1 DEF FinishSession
<1>2. CASE SessionStarted
  BY <1>2 DEF SessionStarted
<1>3. ASSUME NEW p \in Peer, IntoSplit(p) PROVE Encoding'
  BY <1>3 DEF IntoSplit
<1>4. ASSUME NEW p \in Peer, SendCall(p) PROVE Encoding'
  BY <1>4 DEF SendCall
<1>5. ASSUME NEW p \in Peer, Refuse(p) PROVE Encoding'
  BY <1>5 DEF Refuse, WriterReturns
<1>6. ASSUME NEW p \in Peer, Encode(p) PROVE Encoding'
  BY <1>6 DEF Encode
<1>7. ASSUME NEW p \in Peer, LockForWrite(p) PROVE Encoding'
  BY <1>7 DEF LockForWrite
<1>8. ASSUME NEW p \in Peer, SendOk(p) PROVE Encoding'
  BY <1>8 DEF SendOk, Seen, ReleaseWrite, WriterReturns
<1>9. ASSUME NEW p \in Peer, SendFailWhole(p) PROVE Encoding'
  BY <1>9 DEF SendFailWhole, Seen, ReleaseWrite, WriterReturns
<1>10. ASSUME NEW p \in Peer, SendFailClean(p) PROVE Encoding'
  BY <1>10 DEF SendFailClean, Missing, ReleaseWrite, WriterReturns
<1>11. ASSUME NEW p \in Peer, SendFailTorn(p) PROVE Encoding'
  BY <1>11 DEF SendFailTorn, ReleaseWrite, WriterReturns
<1>12. ASSUME NEW p \in Peer, Shutdown(p) PROVE Encoding'
  BY <1>12 DEF Shutdown
<1>13. ASSUME NEW p \in Peer, ReceiveCall(p) PROVE Encoding'
  BY <1>13 DEF ReceiveCall
<1>14. ASSUME NEW p \in Peer, LockForRead(p) PROVE Encoding'
  BY <1>14 DEF LockForRead
<1>15. ASSUME NEW p \in Peer, Fill(p) PROVE Encoding'
  BY <1>15 DEF Fill, Reads
<1>16. ASSUME NEW p \in Peer, Take(p) PROVE Encoding'
  BY <1>16 DEF Take
<1>17. ASSUME NEW p \in Peer, ReceiveFails(p) PROVE Encoding'
  BY <1>17 DEF ReceiveFails
<1>18. ASSUME NEW p \in Peer, DecodeOk(p) PROVE Encoding'
  BY <1>18 DEF DecodeOk, ReaderReturns, Authentic
<1>19. ASSUME NEW p \in Peer, DecodeShort(p) PROVE Encoding'
  BY <1>19 DEF DecodeShort, ReaderReturns, Authentic
<1>20. ASSUME NEW p \in Peer, DecodeFails(p) PROVE Encoding'
  BY <1>20 DEF DecodeFails, ReaderReturns, Authentic
<1>21. ASSUME NEW p \in Peer, EncodeFails(p) PROVE Encoding'
  BY <1>21 DEF EncodeFails, WriterReturns
<1>22. ASSUME NEW p \in Peer, Jam(p) PROVE Encoding'
  BY <1>22 DEF Jam
<1>23. CASE UNCHANGED vars
  BY <1>23 DEF vars
<1> QED
  BY <1>1, <1>2, <1>3, <1>4, <1>5, <1>6, <1>7, <1>8, <1>9, <1>10, <1>11, <1>12, <1>13,
     <1>14, <1>15, <1>16, <1>17, <1>18, <1>19, <1>20, <1>21, <1>22, <1>23
  DEF Next, Writer, Reader

------------------------------------------------------------------------------
(* Packets on their way.                                                   *)

LEMMA AllKnownSeq ==
  ASSUME NEW w \in Seq(Packet), NEW l \in Nat, AllKnown(w, l)
  PROVE  /\ AllKnown(w, l + 1)
         /\ \A x \in Packet : Known(x, l) => AllKnown(Append(w, x), l)
         /\ w # <<>> => Known(Head(w), l) /\ AllKnown(Tail(w), l)
         /\ \A k \in 1 .. Len(w) :
              AllKnown(SubSeq(w, 1, k), l) /\ AllKnown(SubSeq(w, k + 1, Len(w)), l)
<1>1. Len(w) \in Nat /\ \A i \in 1 .. Len(w) : w[i] \in Packet
  BY LenProperties, ElementOfSeq
<1>2. ASSUME NEW i \in 1 .. Len(w) PROVE Known(w[i], l + 1)
  <2>1. w[i].n \in Nat /\ Known(w[i], l)
    BY <1>1 DEF AllKnown, Packet
  <2> DEFINE n == w[i].n
  <2>2. n \in Nat /\ (n <= l => n <= l + 1)
    BY <2>1
  <2> QED
    BY <2>1, <2>2 DEF Known
<1>3. ASSUME NEW x \in Packet, Known(x, l) PROVE AllKnown(Append(w, x), l)
  <2> DEFINE a == Append(w, x)
  <2>1. Len(a) = Len(w) + 1 /\ a[Len(w) + 1] = x /\ \A i \in 1 .. Len(w) : a[i] = w[i]
    BY AppendProperties
  <2> HIDE DEF a
  <2>2. ASSUME NEW i \in 1 .. Len(a) PROVE Known(a[i], l)
    <3>1. i \in 1 .. Len(w) \/ i = Len(w) + 1
      BY <1>1, <2>1
    <3> QED
      BY <1>3, <2>1, <3>1 DEF AllKnown
  <2> QED
    BY <2>2 DEF AllKnown, a
<1>4. ASSUME w # <<>> PROVE Known(Head(w), l) /\ AllKnown(Tail(w), l)
  <2> DEFINE t == Tail(w)
  <2>1. /\ Len(t) = Len(w) - 1 /\ Head(w) = w[1] /\ Len(w) \in Nat \ {0}
        /\ \A i \in 1 .. Len(t) : t[i] = w[i + 1]
    BY <1>4, HeadTailProperties, EmptySeq
  <2> HIDE DEF t
  <2>2. ASSUME NEW i \in 1 .. Len(t) PROVE Known(t[i], l)
    <3>1. i + 1 \in 1 .. Len(w) /\ t[i] = w[i + 1]
      BY <2>1
    <3> QED
      BY <3>1 DEF AllKnown
  <2>3. 1 \in 1 .. Len(w)
    BY <2>1
  <2> QED
    BY <2>1, <2>2, <2>3 DEF AllKnown, t
<1>5. ASSUME NEW k \in 1 .. Len(w)
      PROVE  AllKnown(SubSeq(w, 1, k), l) /\ AllKnown(SubSeq(w, k + 1, Len(w)), l)
  <2> DEFINE a == SubSeq(w, 1, k)
             b == SubSeq(w, k + 1, Len(w))
             n == Len(w)
  <2>1. k \in Int /\ n \in Int /\ k + 1 \in Int /\ k >= 1 /\ k <= n
    BY <1>1
  <2>2. /\ \A i \in 1 .. k : w[i] \in Packet
        /\ \A i \in k + 1 .. n : w[i] \in Packet
    BY <1>1, <2>1
  <2>3. Len(a) = IF 1 <= k THEN k - 1 + 1 ELSE 0
    BY <2>1, <2>2, SubSeqProperties
  <2>4. \A i \in 1 .. k - 1 + 1 : a[i] = w[1 + i - 1]
    BY <2>1, <2>2, SubSeqProperties
  <2>5. Len(b) = IF k + 1 <= n THEN n - (k + 1) + 1 ELSE 0
    BY <2>1, <2>2, SubSeqProperties
  <2>6. \A i \in 1 .. n - (k + 1) + 1 : b[i] = w[k + 1 + i - 1]
    BY <2>1, <2>2, SubSeqProperties
  <2> HIDE DEF a, b, n
  <2>7. ASSUME NEW i \in 1 .. Len(a) PROVE Known(a[i], l)
    <3>1. i \in 1 .. n /\ a[i] = w[i]
      BY <2>1, <2>3, <2>4
    <3> QED
      BY <3>1 DEF AllKnown, n
  <2>8. ASSUME NEW i \in 1 .. Len(b) PROVE Known(b[i], l)
    <3>1. k + i \in 1 .. n /\ b[i] = w[k + i]
      BY <2>1, <2>5, <2>6
    <3> QED
      BY <3>1 DEF AllKnown, n
  <2> QED
    BY <2>7, <2>8 DEF AllKnown, a, b
<1> QED
  BY <1>2, <1>3, <1>4, <1>5 DEF AllKnown

\* One more message encoded: the packets on their way stay known.
LEMMA MoreKnown ==
  ASSUME TypeOK, KnownPackets, NEW p \in Peer, size[p] \in Sizes,
         encoded' = [encoded EXCEPT ![p] = Append(encoded[p], size[p])],
         UNCHANGED <<wire, held, packet>>
  PROVE  KnownPackets'
<1>1. encoded'[p] = Append(encoded[p], size[p]) /\ \A o \in Peer : o # p => encoded'[o] = encoded[o]
  BY DEF TypeOK
<1>2. Len(encoded'[p]) = Len(encoded[p]) + 1
  BY <1>1, Typed, AppendProperties
<1>3. /\ AllKnown(wire[p], Len(encoded'[p])) /\ AllKnown(held[Other(p)]["context"], Len(encoded'[p]))
  <2>1. /\ AllKnown(wire[p], Len(encoded[p])) /\ wire[p] \in Seq(Packet)
        /\ AllKnown(held[Other(p)]["context"], Len(encoded[p]))
        /\ held[Other(p)]["context"] \in Seq(Packet) /\ Len(encoded[p]) \in Nat
    BY Peers, Typed DEF KnownPackets
  <2>2. /\ AllKnown(wire[p], Len(encoded[p]) + 1)
        /\ AllKnown(held[Other(p)]["context"], Len(encoded[p]) + 1)
    BY <2>1, AllKnownSeq
  <2> QED
    BY <1>2, <2>2
<1>4. Known(packet[Other(p)], Len(encoded'[p]))
  <2>1. packet[Other(p)].n \in Nat /\ Len(encoded[p]) \in Nat
    BY Peers, Typed
  <2>2. Known(packet[Other(p)], Len(encoded[p]))
    BY DEF KnownPackets
  <2> DEFINE n == packet[Other(p)].n
             l == Len(encoded[p])
  <2>3. n <= l => n <= l + 1
    BY <2>1
  <2> QED
    BY <1>2, <2>2, <2>3 DEF Known
<1> QED
  BY <1>1, <1>3, <1>4, Peers DEF KnownPackets

\* A packet is known from Encode() on, wherever it is.
LEMMA KnownStep ==
  ASSUME IInv, [Next]_vars
  PROVE  KnownPackets'
<1>a. TypeOK /\ OneReadDevice /\ Encoding /\ KnownPackets
  BY DEF IInv
<1> USE <1>a DEF TypeOK, Device, writerVars, readerVars, splitVars
<1>1. CASE FinishSession
  <2>1. AllKnown(Append(wire["responder"], Finish), Len(encoded["responder"]))
    BY Peers, Packets, Typed, AllKnownSeq DEF Known, KnownPackets
  <2> QED
    BY <1>1, <2>1 DEF FinishSession, KnownPackets
<1>2. CASE SessionStarted
  <2>1. AllKnown(Tail(held["requester"]["context"]), Len(encoded["responder"]))
    BY <1>2, Peers, Typed, AllKnownSeq DEF SessionStarted, KnownPackets
  <2>2. /\ held'["requester"]["context"] = Tail(held["requester"]["context"])
        /\ held'["responder"]["context"] = held["responder"]["context"]
    BY <1>2, Peers DEF SessionStarted
  <2> QED
    BY <1>2, <2>1, <2>2, Peers DEF SessionStarted, KnownPackets, Peer
<1>3. ASSUME NEW p \in Peer, IntoSplit(p) PROVE KnownPackets'
  BY <1>3 DEF KnownPackets, IntoSplit
<1>4. ASSUME NEW p \in Peer, SendCall(p) PROVE KnownPackets'
  BY <1>4 DEF KnownPackets, SendCall
<1>5. ASSUME NEW p \in Peer, Refuse(p) PROVE KnownPackets'
  BY <1>5 DEF KnownPackets, Refuse, WriterReturns
<1>6. ASSUME NEW p \in Peer, Encode(p) PROVE KnownPackets'
  BY <1>6, MoreKnown DEF Encode, Encoding
<1>7. ASSUME NEW p \in Peer, LockForWrite(p) PROVE KnownPackets'
  BY <1>7 DEF KnownPackets, LockForWrite
<1>8. ASSUME NEW p \in Peer, SendOk(p) PROVE KnownPackets'
  <2>1. PICK pkt \in Seen(p) : wire' = [wire EXCEPT ![p] = Append(@, pkt)]
    BY <1>8 DEF KnownPackets, SendOk
  <2>2. pkt \in Packet /\ Known(pkt, Len(encoded[p]))
    <3>1. pkt = Noise \/ pkt = Secured(Len(encoded[p]))
      BY DEF Seen
    <3>2. Len(encoded[p]) <= Len(encoded[p])
      BY Typed
    <3> QED
      BY <3>1, <3>2, SeenType, Packets DEF Known
  <2>3. AllKnown(Append(wire[p], pkt), Len(encoded[p]))
    BY <2>2, Typed, AllKnownSeq DEF KnownPackets
  <2> QED
    BY <1>8, <2>1, <2>3 DEF SendOk, KnownPackets
<1>9. ASSUME NEW p \in Peer, SendFailWhole(p) PROVE KnownPackets'
  <2>1. PICK pkt \in Seen(p) : wire' = [wire EXCEPT ![p] = Append(@, pkt)]
    BY <1>9 DEF KnownPackets, SendFailWhole
  <2>2. pkt \in Packet /\ Known(pkt, Len(encoded[p]))
    <3>1. pkt = Noise \/ pkt = Secured(Len(encoded[p]))
      BY DEF Seen
    <3>2. Len(encoded[p]) <= Len(encoded[p])
      BY Typed
    <3> QED
      BY <3>1, <3>2, SeenType, Packets DEF Known
  <2>3. AllKnown(Append(wire[p], pkt), Len(encoded[p]))
    BY <2>2, Typed, AllKnownSeq DEF KnownPackets
  <2> QED
    BY <1>9, <2>1, <2>3 DEF SendFailWhole, KnownPackets
<1>10. ASSUME NEW p \in Peer, SendFailClean(p) PROVE KnownPackets'
  BY <1>10 DEF KnownPackets, SendFailClean, Missing, ReleaseWrite, WriterReturns
<1>11. ASSUME NEW p \in Peer, SendFailTorn(p) PROVE KnownPackets'
  <2>1. AllKnown(Append(wire[p], Noise), Len(encoded[p]))
    BY Packets, Typed, AllKnownSeq DEF Known, KnownPackets
  <2> QED
    BY <1>11, <2>1 DEF SendFailTorn, KnownPackets
<1>12. ASSUME NEW p \in Peer, Shutdown(p) PROVE KnownPackets'
  BY <1>12 DEF KnownPackets, Shutdown
<1>13. ASSUME NEW p \in Peer, ReceiveCall(p) PROVE KnownPackets'
  BY <1>13 DEF KnownPackets, ReceiveCall
<1>14. ASSUME NEW p \in Peer, LockForRead(p) PROVE KnownPackets'
  BY <1>14 DEF KnownPackets, LockForRead
<1>15. ASSUME NEW p \in Peer, Fill(p) PROVE KnownPackets'
  <2> DEFINE o == Other(p)
  <2>1. PICK d \in Device, k \in 1 .. Len(wire[o]) :
          /\ held' = [held EXCEPT ![p][d] = SubSeq(wire[o], 1, k)]
          /\ wire' = [wire EXCEPT ![o] = SubSeq(@, k + 1, Len(@))]
          /\ UNCHANGED <<splitVars, holder, common, writerVars, readerVars>>
    BY <1>15 DEF KnownPackets, Fill
  <2>2. o \in Peer /\ o # p /\ Other(o) = p
    BY Peers
  <2>3. /\ AllKnown(SubSeq(wire[o], 1, k), Len(encoded[o]))
        /\ AllKnown(SubSeq(wire[o], k + 1, Len(wire[o])), Len(encoded[o]))
    BY <2>2, Typed, AllKnownSeq DEF KnownPackets
  <2>4. /\ wire'[o] = SubSeq(wire[o], k + 1, Len(wire[o])) /\ wire'[p] = wire[p]
        /\ held'[o] = held[o]
        /\ held'[p]["context"] \in {held[p]["context"], SubSeq(wire[o], 1, k)}
    <3>1. /\ wire'[o] = SubSeq(wire[o], k + 1, Len(wire[o])) /\ wire'[p] = wire[p]
          /\ held'[o] = held[o]
      BY <2>1, <2>2
    <3>2. held[p] \in [Device -> Seq(Packet)]
      OBVIOUS
    <3>3. held'[p] = [held[p] EXCEPT ![d] = SubSeq(wire[o], 1, k)]
      BY <2>1
    <3>4. held'[p]["context"] = IF d = "context" THEN SubSeq(wire[o], 1, k) ELSE held[p]["context"]
      BY <3>2, <3>3
    <3> QED
      BY <3>1, <3>4
  <2>5. AllKnown(held'[p]["context"], Len(encoded[o]))
    BY <2>2, <2>3, <2>4 DEF KnownPackets
  <2>6. ASSUME NEW q \in Peer
        PROVE  /\ AllKnown(wire'[q], Len(encoded[q]))
               /\ AllKnown(held'[Other(q)]["context"], Len(encoded[q]))
    <3>1. CASE q = o
      BY <2>2, <2>3, <2>4, <2>5, <3>1
    <3>2. CASE q = p
      BY <2>4, <3>2 DEF KnownPackets
    <3> QED
      BY <3>1, <3>2, Peers
  <2> QED
    BY <2>1, <2>6 DEF KnownPackets
<1>16. ASSUME NEW p \in Peer, Take(p) PROVE KnownPackets'
  <2> DEFINE o == Other(p)
             h == held[p]["context"]
  <2>1. o \in Peer /\ o # p /\ Other(o) = p /\ readDev[p] = "context"
    BY Peers DEF OneReadDevice
  <2>2. /\ h # <<>> /\ packet'[p] = Head(h) /\ held'[p]["context"] = Tail(h)
        /\ packet'[o] = packet[o] /\ held'[o] = held[o]
        /\ wire' = wire /\ encoded' = encoded
    BY <1>16, <2>1 DEF Take
  <2>3. Known(Head(h), Len(encoded[o])) /\ AllKnown(Tail(h), Len(encoded[o]))
    BY <2>1, <2>2, Typed, AllKnownSeq DEF KnownPackets
  <2>4. ASSUME NEW q \in Peer
        PROVE  /\ AllKnown(held'[Other(q)]["context"], Len(encoded[q]))
               /\ Known(packet'[Other(q)], Len(encoded[q]))
    <3>1. CASE q = o
      BY <2>1, <2>2, <2>3, <3>1
    <3>2. CASE q = p
      BY <2>2, <3>2 DEF KnownPackets
    <3> QED
      BY <3>1, <3>2, Peers
  <2> QED
    BY <2>2, <2>4 DEF KnownPackets
<1>17. ASSUME NEW p \in Peer, ReceiveFails(p) PROVE KnownPackets'
  BY <1>17 DEF KnownPackets, ReceiveFails
<1>18. ASSUME NEW p \in Peer, DecodeOk(p) PROVE KnownPackets'
  <2>1. packet' = [packet EXCEPT ![p] = Noise] /\ UNCHANGED <<wire, held, encoded>>
    BY <1>18 DEF KnownPackets, DecodeOk, ReaderReturns
  <2>2. \A q \in Peer : Known(packet'[Other(q)], Len(encoded[q]))
    BY <2>1, Peers, Packets DEF Known, KnownPackets
  <2> QED
    BY <2>1, <2>2 DEF KnownPackets
<1>19. ASSUME NEW p \in Peer, DecodeShort(p) PROVE KnownPackets'
  <2>1. packet' = [packet EXCEPT ![p] = Noise] /\ UNCHANGED <<wire, held, encoded>>
    BY <1>19 DEF KnownPackets, DecodeShort, ReaderReturns
  <2>2. \A q \in Peer : Known(packet'[Other(q)], Len(encoded[q]))
    BY <2>1, Peers, Packets DEF Known, KnownPackets
  <2> QED
    BY <2>1, <2>2 DEF KnownPackets
<1>20. ASSUME NEW p \in Peer, DecodeFails(p) PROVE KnownPackets'
  <2>1. packet' = [packet EXCEPT ![p] = Noise] /\ UNCHANGED <<wire, held, encoded>>
    BY <1>20 DEF KnownPackets, DecodeFails, ReaderReturns
  <2>2. \A q \in Peer : Known(packet'[Other(q)], Len(encoded[q]))
    BY <2>1, Peers, Packets DEF Known, KnownPackets
  <2> QED
    BY <2>1, <2>2 DEF KnownPackets
<1>21. ASSUME NEW p \in Peer, EncodeFails(p) PROVE KnownPackets'
  <2>1. CASE UNCHANGED encoded
    BY <1>21, <2>1 DEF KnownPackets, EncodeFails
  <2>2. CASE encoded' = [encoded EXCEPT ![p] = Append(@, size[p])]
    BY <1>21, <2>2, MoreKnown DEF EncodeFails, Encoding
  <2> QED
    BY <1>21, <2>1, <2>2 DEF EncodeFails
<1>22. ASSUME NEW p \in Peer, Jam(p) PROVE KnownPackets'
  <2>1. /\ held' = [held EXCEPT ![p]["context"] = <<>>]
        /\ UNCHANGED <<wire, encoded, packet>>
    BY <1>22 DEF Jam, OneReadDevice
  <2>2. \A q \in Peer : held'[q]["context"] \in {<<>>, held[q]["context"]}
    BY <2>1
  <2>3. \A l : AllKnown(<<>>, l)
    BY EmptySeq DEF AllKnown
  <2> QED
    BY <2>1, <2>2, <2>3 DEF KnownPackets
<1>23. CASE UNCHANGED vars
  BY <1>23 DEF vars, KnownPackets
<1> QED
  BY <1>1, <1>2, <1>3, <1>4, <1>5, <1>6, <1>7, <1>8, <1>9, <1>10, <1>11, <1>12, <1>13,
     <1>14, <1>15, <1>16, <1>17, <1>18, <1>19, <1>20, <1>21, <1>22, <1>23
  DEF Next, Writer, Reader

------------------------------------------------------------------------------
(* What receive() returns.                                                 *)

\* One more message is decoded: it is the next one.
LEMMA NextDecoded ==
  ASSUME IInv, NEW p \in Peer, Authentic(p)
  PROVE  packet[p].n = rx[p] + 1 /\ rx[p] + 1 <= Len(encoded[Other(p)])
<1>1. packet[p] = Secured(rx[p] + 1)
  BY DEF Authentic
<1>2. Known(packet[p], Len(encoded[Other(p)]))
  BY Peers DEF IInv, KnownPackets
<1> QED
  BY <1>1, <1>2, Packets DEF Known

\* What NoSilentLoss says of a peer: the messages accepted, decoded and refused, of l
\* that were encoded.
Lossless(a, r, f, l) ==
  /\ \A i, j \in 1 .. Len(a) : i < j => a[i] < a[j]
  /\ 1 .. r = {a[i] : i \in 1 .. Len(a)} \cup f
  /\ r <= l

LossOf(p) == Lossless(accepted[p], rx[p], refused[p], Len(encoded[Other(p)]))

LEMMA LossPerPeer == NoSilentLoss <=> \A p \in Peer : LossOf(p)
BY DEF NoSilentLoss, LossOf, Lossless

LEMMA LossPerPeerNext == NoSilentLoss' <=> \A p \in Peer : LossOf(p)'
BY DEF NoSilentLoss, LossOf, Lossless

LEMMA LossFrame ==
  ASSUME NoSilentLoss, UNCHANGED <<accepted, rx, refused, encoded>>
  PROVE  NoSilentLoss'
<1>1. ASSUME NEW p \in Peer PROVE LossOf(p)'
  BY LossPerPeer DEF LossOf
<1> QED
  BY <1>1, LossPerPeerNext

LEMMA EncodeOne ==
  ASSUME NEW a, NEW r \in Nat, NEW f, NEW l \in Nat, Lossless(a, r, f, l)
  PROVE  Lossless(a, r, f, l + 1)
<1>1. r <= l => r <= l + 1
  OBVIOUS
<1> QED
  BY <1>1 DEF Lossless

LEMMA RefuseOne ==
  ASSUME NEW a, NEW r \in Nat, NEW f, NEW l \in Nat, Lossless(a, r, f, l), r + 1 <= l
  PROVE  Lossless(a, r + 1, f \cup {r + 1}, l)
<1> DEFINE A == {a[i] : i \in 1 .. Len(a)}
<1>1. 1 .. r + 1 = 1 .. r \cup {r + 1}
  OBVIOUS
<1>2. 1 .. r = A \cup f
  BY DEF Lossless
<1>3. 1 .. r + 1 = A \cup (f \cup {r + 1})
  <2> HIDE DEF A
  <2> QED
    BY <1>1, <1>2, Zenon
<1> QED
  BY <1>3 DEF Lossless

LEMMA AcceptOne ==
  ASSUME NEW a \in Seq(Nat), NEW r \in Nat, NEW f, NEW l \in Nat,
         Lossless(a, r, f, l), r + 1 <= l
  PROVE  Lossless(Append(a, r + 1), r + 1, f, l)
<1> DEFINE b == Append(a, r + 1)
           n == Len(a)
<1>1. n \in Nat /\ \A i \in 1 .. n : a[i] \in Nat
  BY LenProperties, ElementOfSeq
<1>2. Len(b) = n + 1 /\ b[n + 1] = r + 1 /\ \A i \in 1 .. n : b[i] = a[i]
  BY AppendProperties
<1>3. \A i \in 1 .. n : a[i] \in 1 .. r
  BY DEF Lossless
<1> HIDE DEF b
<1>4. \A i \in 1 .. Len(b) : i \in 1 .. n \/ i = n + 1
  BY <1>1, <1>2
<1>5. ASSUME NEW i \in 1 .. Len(b), NEW j \in 1 .. Len(b), i < j PROVE b[i] < b[j]
  <2>1. i \in 1 .. n /\ b[i] = a[i]
    BY <1>1, <1>2, <1>5
  <2>2. CASE j \in 1 .. n
    <3>1. b[j] = a[j]
      BY <1>2, <2>2
    <3>2. a[i] < a[j]
      BY <1>5, <2>1, <2>2 DEF Lossless
    <3> QED
      BY <2>1, <3>1, <3>2
  <2>3. CASE j = n + 1
    <3>1. a[i] < r + 1
      BY <1>3, <2>1
    <3> QED
      BY <1>2, <2>1, <2>3, <3>1
  <2> QED
    BY <1>4, <2>2, <2>3
<1>6. {b[i] : i \in 1 .. Len(b)} = {a[i] : i \in 1 .. n} \cup {r + 1}
  <2>1. ASSUME NEW i \in 1 .. Len(b) PROVE b[i] \in {a[k] : k \in 1 .. n} \cup {r + 1}
    BY <1>2, <1>4
  <2>2. ASSUME NEW i \in 1 .. n PROVE i \in 1 .. Len(b) /\ a[i] = b[i]
    BY <1>1, <1>2
  <2>3. n + 1 \in 1 .. Len(b)
    BY <1>1, <1>2
  <2> QED
    BY <1>2, <2>1, <2>2, <2>3
<1>7. 1 .. r + 1 = 1 .. r \cup {r + 1}
  OBVIOUS
<1>8. 1 .. r + 1 = {b[i] : i \in 1 .. Len(b)} \cup f
  <2>1. 1 .. r = {a[i] : i \in 1 .. n} \cup f
    BY DEF Lossless
  <2> DEFINE A == {a[i] : i \in 1 .. n}
  <2> HIDE DEF A
  <2>2. 1 .. r = A \cup f /\ {b[i] : i \in 1 .. Len(b)} = A \cup {r + 1}
    BY <1>6, <2>1 DEF A
  <2> QED
    BY <1>7, <2>2, Zenon
<1> QED
  BY <1>5, <1>8 DEF b, Lossless

\* One more message encoded loses none.
LEMMA LossOfMore ==
  ASSUME TypeOK, NoSilentLoss, NEW p \in Peer, size[p] \in Sizes,
         encoded' = [encoded EXCEPT ![p] = Append(encoded[p], size[p])],
         UNCHANGED <<rx, accepted, refused>>
  PROVE  NoSilentLoss'
<1> DEFINE o == Other(p)
<1>1. o \in Peer /\ o # p /\ Other(o) = p
  BY Peers
<1>2. /\ Len(encoded'[p]) = Len(encoded[p]) + 1 /\ encoded'[o] = encoded[o]
      /\ Len(encoded[p]) \in Nat /\ rx[o] \in Nat
  BY <1>1, Typed, AppendProperties DEF TypeOK
<1>3. LossOf(o) /\ LossOf(p)
  BY <1>1, LossPerPeer
<1>4. LossOf(o)'
  BY <1>1, <1>2, <1>3, EncodeOne DEF LossOf
<1>5. LossOf(p)'
  BY <1>2, <1>3 DEF LossOf
<1> QED
  BY <1>4, <1>5, Peers, LossPerPeerNext

\* No message is decoded twice, skipped or made up.
LEMMA LossStep ==
  ASSUME IInv, [Next]_vars
  PROVE  NoSilentLoss'
<1> USE DEF IInv
<1>1. CASE FinishSession
  BY <1>1, LossFrame DEF FinishSession, writerVars, readerVars
<1>2. CASE SessionStarted
  BY <1>2, LossFrame DEF SessionStarted, writerVars, readerVars
<1>3. ASSUME NEW p \in Peer, IntoSplit(p) PROVE NoSilentLoss'
  BY <1>3, LossFrame DEF IntoSplit, writerVars, readerVars
<1>4. ASSUME NEW p \in Peer, SendCall(p) PROVE NoSilentLoss'
  BY <1>4, LossFrame DEF SendCall, writerVars, readerVars
<1>5. ASSUME NEW p \in Peer, Refuse(p) PROVE NoSilentLoss'
  BY <1>5, LossFrame DEF Refuse, WriterReturns, writerVars, readerVars
<1>6. ASSUME NEW p \in Peer, Encode(p) PROVE NoSilentLoss'
  BY <1>6, LossOfMore DEF Encode, Encoding, readerVars
<1>7. ASSUME NEW p \in Peer, LockForWrite(p) PROVE NoSilentLoss'
  BY <1>7, LossFrame DEF LockForWrite, writerVars, readerVars
<1>8. ASSUME NEW p \in Peer, SendOk(p) PROVE NoSilentLoss'
  BY <1>8, LossFrame DEF SendOk, ReleaseWrite, WriterReturns, writerVars, readerVars
<1>9. ASSUME NEW p \in Peer, SendFailWhole(p) PROVE NoSilentLoss'
  BY <1>9, LossFrame DEF SendFailWhole, ReleaseWrite, WriterReturns, writerVars, readerVars
<1>10. ASSUME NEW p \in Peer, SendFailClean(p) PROVE NoSilentLoss'
  BY <1>10, LossFrame DEF SendFailClean, Missing, ReleaseWrite, WriterReturns, writerVars, readerVars
<1>11. ASSUME NEW p \in Peer, SendFailTorn(p) PROVE NoSilentLoss'
  BY <1>11, LossFrame DEF SendFailTorn, ReleaseWrite, WriterReturns, writerVars, readerVars
<1>12. ASSUME NEW p \in Peer, Shutdown(p) PROVE NoSilentLoss'
  BY <1>12, LossFrame DEF Shutdown, writerVars, readerVars
<1>13. ASSUME NEW p \in Peer, ReceiveCall(p) PROVE NoSilentLoss'
  BY <1>13, LossFrame DEF ReceiveCall, writerVars, readerVars
<1>14. ASSUME NEW p \in Peer, LockForRead(p) PROVE NoSilentLoss'
  BY <1>14, LossFrame DEF LockForRead, writerVars, readerVars
<1>15. ASSUME NEW p \in Peer, Fill(p) PROVE NoSilentLoss'
  BY <1>15, LossFrame DEF Fill, Reads, writerVars, readerVars
<1>16. ASSUME NEW p \in Peer, Take(p) PROVE NoSilentLoss'
  BY <1>16, LossFrame DEF Take, writerVars, readerVars
<1>17. ASSUME NEW p \in Peer, ReceiveFails(p) PROVE NoSilentLoss'
  BY <1>17, LossFrame DEF ReceiveFails, writerVars, readerVars
<1>18. ASSUME NEW p \in Peer, DecodeOk(p) PROVE NoSilentLoss'
  <2>1. packet[p].n = rx[p] + 1 /\ rx[p] + 1 <= Len(encoded[Other(p)])
    BY <1>18, NextDecoded DEF DecodeOk
  <2>2. /\ rx' = [rx EXCEPT ![p] = rx[p] + 1] /\ encoded' = encoded
        /\ accepted' = [accepted EXCEPT ![p] = Append(accepted[p], rx[p] + 1)]
        /\ refused' = refused
    BY <1>18, <2>1 DEF DecodeOk, ReaderReturns, writerVars
  <2>3. /\ rx[p] \in Nat /\ Len(encoded[Other(p)]) \in Nat /\ accepted[p] \in Seq(Nat)
        /\ LossOf(p)
    BY Peers, Typed, LossPerPeer
  <2>4. LossOf(p)'
    <3>1. rx'[p] = rx[p] + 1 /\ accepted'[p] = Append(accepted[p], rx[p] + 1)
      BY <2>2 DEF TypeOK
    <3> QED
      BY <2>1, <2>2, <2>3, <3>1, AcceptOne DEF LossOf
  <2>5. ASSUME NEW q \in Peer, q # p PROVE LossOf(q)'
    <3>1. rx'[q] = rx[q] /\ accepted'[q] = accepted[q] /\ refused'[q] = refused[q]
      BY <2>2, <2>5
    <3> QED
      BY <2>2, <3>1, LossPerPeer DEF LossOf
  <2> QED
    BY <2>4, <2>5, LossPerPeerNext
<1>19. ASSUME NEW p \in Peer, DecodeShort(p) PROVE NoSilentLoss'
  <2>1. packet[p].n = rx[p] + 1 /\ rx[p] + 1 <= Len(encoded[Other(p)])
    BY <1>19, NextDecoded DEF DecodeShort
  <2>2. /\ rx' = [rx EXCEPT ![p] = rx[p] + 1] /\ encoded' = encoded
        /\ refused' = [refused EXCEPT ![p] = refused[p] \cup {rx[p] + 1}]
        /\ accepted' = accepted
    BY <1>19, <2>1 DEF DecodeShort, ReaderReturns, writerVars
  <2>3. /\ rx[p] \in Nat /\ Len(encoded[Other(p)]) \in Nat /\ accepted[p] \in Seq(Nat)
        /\ LossOf(p)
    BY Peers, Typed, LossPerPeer
  <2>4. LossOf(p)'
    <3>1. rx'[p] = rx[p] + 1 /\ refused'[p] = refused[p] \cup {rx[p] + 1}
      BY <2>2 DEF TypeOK
    <3> QED
      BY <2>1, <2>2, <2>3, <3>1, RefuseOne DEF LossOf
  <2>5. ASSUME NEW q \in Peer, q # p PROVE LossOf(q)'
    <3>1. rx'[q] = rx[q] /\ accepted'[q] = accepted[q] /\ refused'[q] = refused[q]
      BY <2>2, <2>5
    <3> QED
      BY <2>2, <3>1, LossPerPeer DEF LossOf
  <2> QED
    BY <2>4, <2>5, LossPerPeerNext
<1>20. ASSUME NEW p \in Peer, DecodeFails(p) PROVE NoSilentLoss'
  BY <1>20, LossFrame DEF DecodeFails, ReaderReturns, writerVars, readerVars
<1>21. ASSUME NEW p \in Peer, EncodeFails(p) PROVE NoSilentLoss'
  <2>1. CASE UNCHANGED encoded
    BY <1>21, <2>1, LossFrame DEF EncodeFails, readerVars
  <2>2. CASE encoded' = [encoded EXCEPT ![p] = Append(@, size[p])]
    BY <1>21, <2>2, LossOfMore DEF EncodeFails, Encoding, readerVars
  <2> QED
    BY <1>21, <2>1, <2>2 DEF EncodeFails
<1>22. ASSUME NEW p \in Peer, Jam(p) PROVE NoSilentLoss'
  BY <1>22, LossFrame DEF Jam, writerVars
<1>23. CASE UNCHANGED vars
  BY <1>23, LossFrame DEF vars, writerVars, readerVars
<1> QED
  BY <1>1, <1>2, <1>3, <1>4, <1>5, <1>6, <1>7, <1>8, <1>9, <1>10, <1>11, <1>12, <1>13,
     <1>14, <1>15, <1>16, <1>17, <1>18, <1>19, <1>20, <1>21, <1>22, <1>23
  DEF Next, Writer, Reader

------------------------------------------------------------------------------
(* Sequences of packets.                                                   *)

LEMMA One ==
  ASSUME NEW x \in Packet
  PROVE  <<x>> \in Seq(Packet) /\ <<x>> # <<>> /\ Len(<<x>>) = 1 /\ <<x>>[1] = x
OBVIOUS

LEMMA Associates ==
  \A a, b, c \in Seq(Packet) : (a \o b) \o c = a \o (b \o c)
BY ConcatAssociative

\* The expected packets are packets, as many as are not decoded.
LEMMA ExpectIs ==
  ASSUME NEW r \in Nat, NEW l \in Nat
  PROVE  /\ Expect(r, l) \in Seq(Packet)
         /\ r <= l => Len(Expect(r, l)) = l - r
         /\ l <= r => Expect(r, l) = <<>>
         /\ \A i \in 1 .. l - r : Expect(r, l)[i] = Secured(r + i)
<1>1. CASE r <= l
  <2>1. l - r \in Nat
    BY <1>1
  <2>2. \A i \in 1 .. l - r : Secured(r + i) \in Packet
    BY Packets
  <2>3. Expect(r, l) \in Seq(Packet)
    BY <2>1, <2>2, SeqDef DEF Expect
  <2>4. Len(Expect(r, l)) = l - r
    BY <2>1, <2>3, LenProperties DEF Expect
  <2> QED
    BY <1>1, <2>1, <2>3, <2>4, EmptySeq DEF Expect
<1>2. CASE ~(r <= l)
  <2>1. 1 .. l - r = {}
    BY <1>2
  <2>2. Expect(r, l) = <<>>
    BY <2>1 DEF Expect
  <2> QED
    BY <1>2, <2>1, <2>2, EmptySeq
<1> QED
  BY <1>1, <1>2

\* One more message is encoded.
LEMMA ExpectMore ==
  ASSUME NEW r \in Nat, NEW l \in Nat, r <= l
  PROVE  Expect(r, l + 1) = Expect(r, l) \o <<Secured(l + 1)>>
<1> DEFINE a == Expect(r, l)
           b == Expect(r, l + 1)
           x == Secured(l + 1)
<1>1. l + 1 \in Nat /\ x \in Packet /\ r <= l + 1
  BY Packets
<1>2. /\ a \in Seq(Packet) /\ Len(a) = l - r
      /\ \A i \in 1 .. l - r : a[i] = Secured(r + i)
  BY ExpectIs
<1>3. /\ b \in Seq(Packet) /\ Len(b) = l + 1 - r
      /\ \A i \in 1 .. l + 1 - r : b[i] = Secured(r + i)
  <2> DEFINE m == l + 1
  <2>1. m \in Nat /\ r <= m
    BY <1>1
  <2> HIDE DEF m
  <2>2. /\ Expect(r, m) \in Seq(Packet) /\ Len(Expect(r, m)) = m - r
        /\ \A i \in 1 .. m - r : Expect(r, m)[i] = Secured(r + i)
    BY <2>1, ExpectIs
  <2> QED
    BY <2>2 DEF m
<1>4. /\ Append(a, x) \in Seq(Packet) /\ Len(Append(a, x)) = Len(a) + 1
      /\ \A i \in 1 .. Len(a) : Append(a, x)[i] = a[i]
      /\ Append(a, x)[Len(a) + 1] = x
  BY <1>1, <1>2, AppendProperties
<1>5. x = Secured(r + (Len(a) + 1))
  <2>1. r + (l - r + 1) = l + 1
    OBVIOUS
  <2> QED
    BY <1>2, <2>1
<1>6. b = Append(a, x)
  <2> HIDE DEF a, b, x
  <2>1. Len(b) = Len(Append(a, x))
    BY <1>2, <1>3, <1>4
  <2>2. ASSUME NEW i \in 1 .. Len(b) PROVE b[i] = Append(a, x)[i]
    <3>1. b[i] = Secured(r + i)
      BY <1>3, <2>2
    <3>2. CASE i \in 1 .. Len(a)
      BY <1>2, <1>4, <3>1, <3>2
    <3>3. CASE i = Len(a) + 1
      BY <1>4, <1>5, <3>1, <3>3
    <3> QED
      BY <1>2, <1>3, <3>2, <3>3
  <2> QED
    BY <1>3, <1>4, <2>1, <2>2, SeqEqual
<1> QED
  BY <1>1, <1>2, <1>6, AppendIsConcat

\* The first of them is decoded.
LEMMA ExpectLess ==
  ASSUME NEW r \in Nat, NEW l \in Nat, r < l
  PROVE  Expect(r, l) = <<Secured(r + 1)>> \o Expect(r + 1, l)
<1> DEFINE a == Expect(r, l)
           b == Expect(r + 1, l)
           x == Secured(r + 1)
<1>1. r + 1 \in Nat /\ x \in Packet /\ r + 1 <= l /\ r <= l
  BY Packets
<1>2. /\ a \in Seq(Packet) /\ Len(a) = l - r
      /\ \A i \in 1 .. l - r : a[i] = Secured(r + i)
  BY <1>1, ExpectIs
<1>3. /\ b \in Seq(Packet) /\ Len(b) = l - (r + 1)
      /\ \A i \in 1 .. l - (r + 1) : b[i] = Secured(r + 1 + i)
  BY <1>1, ExpectIs
<1>4. <<x>> \in Seq(Packet) /\ Len(<<x>>) = 1 /\ <<x>>[1] = x
  BY <1>1, One
<1>5. /\ <<x>> \o b \in Seq(Packet) /\ Len(<<x>> \o b) = 1 + Len(b)
      /\ \A i \in 1 .. 1 + Len(b) :
           (<<x>> \o b)[i] = IF i <= 1 THEN <<x>>[i] ELSE b[i - 1]
  BY <1>3, <1>4, ConcatProperties
<1>6. Len(a) = Len(<<x>> \o b)
  <2> HIDE DEF a, b, x
  <2> QED
    BY <1>1, <1>2, <1>3, <1>5
<1>7. ASSUME NEW i \in 1 .. Len(a) PROVE a[i] = (<<x>> \o b)[i]
  <2>1. a[i] = Secured(r + i) /\ i \in 1 .. 1 + Len(b)
    BY <1>2, <1>5, <1>6, <1>7
  <2>2. CASE i = 1
    BY <1>4, <1>5, <2>1, <2>2
  <2>3. CASE i # 1
    <3>1. i - 1 \in 1 .. l - (r + 1) /\ r + 1 + (i - 1) = r + i /\ ~(i <= 1)
      BY <1>2, <1>7, <2>3
    <3> QED
      BY <1>3, <1>5, <2>1, <3>1
  <2> QED
    BY <2>2, <2>3
<1> QED
  BY <1>2, <1>5, <1>6, <1>7, SeqEqual

\* A read takes what has arrived out of the pipe.
LEMMA ChainFill ==
  ASSUME NEW d \in Seq(Packet), NEW w \in Seq(Packet), NEW s \in Seq(Packet),
         NEW k \in 1 .. Len(w)
  PROVE  Chain(d, SubSeq(w, 1, k), SubSeq(w, k + 1, Len(w)), s) = Chain(d, <<>>, w, s)
<1> DEFINE a == SubSeq(w, 1, k)
           b == SubSeq(w, k + 1, Len(w))
<1>1. a \in Seq(Packet) /\ b \in Seq(Packet)
  BY SeqTypes
<1>2. a \o b = w
  <2>1. /\ Len(w) \in Nat /\ 1 \in 1 .. Len(w) + 1 /\ k \in 1 - 1 .. Len(w)
        /\ Len(w) \in k .. Len(w)
    BY LenProperties
  <2>2. a \o b = SubSeq(w, 1, Len(w))
    BY <2>1, ConcatAdjacentSubSeq
  <2> QED
    BY <2>2, SubSeqFull
<1>3. (d \o a) \o b = d \o w
  <2> HIDE DEF a, b
  <2> QED
    BY <1>1, <1>2, Associates, ZenonT(30)
<1>4. d \o <<>> = d
  BY ConcatEmptySeq
<1> QED
  BY <1>3, <1>4 DEF Chain

\* The first packet of a buffer goes to the decoder.
LEMMA ChainTake ==
  ASSUME NEW h \in Seq(Packet), h # <<>>, NEW w, NEW s
  PROVE  /\ Chain(<<Head(h)>>, Tail(h), w, s) = Chain(<<>>, h, w, s)
         /\ Head(h) \in Packet /\ Tail(h) \in Seq(Packet)
<1>1. Head(h) \in Packet /\ Tail(h) \in Seq(Packet)
  BY SeqTypes
<1>2. <<Head(h)>> \o Tail(h) = h
  <2>1. Len(h) \in Nat \ {0}
    BY EmptySeq
  <2>2. 1 \in 1 .. Len(h) /\ Len(h) \in 1 .. Len(h) /\ 1 + 1 = 2
    BY <2>1
  <2>3. SubSeq(h, 1, Len(h)) = <<h[1]>> \o SubSeq(h, 1 + 1, Len(h))
    BY <2>2, SubSeqRecursiveFirst
  <2>4. Tail(h) = SubSeq(h, 2, Len(h)) /\ SubSeq(h, 1, Len(h)) = h
    BY TailIsSubSeq, SubSeqFull
  <2> QED
    BY <2>2, <2>3, <2>4
<1>3. <<>> \o h = h
  BY ConcatEmptySeq
<1> QED
  BY <1>1, <1>2, <1>3 DEF Chain

\* A pending packet is written.
LEMMA ChainSend ==
  ASSUME NEW d \in Seq(Packet), NEW h \in Seq(Packet), NEW w \in Seq(Packet),
         NEW x \in Packet
  PROVE  Chain(d, h, Append(w, x), <<>>) = Chain(d, h, w, <<x>>)
<1>1. d \o h \in Seq(Packet) /\ <<x>> \in Seq(Packet)
  BY One, ConcatProperties
<1>2. w \o <<x>> \in Seq(Packet) /\ Append(w, x) = w \o <<x>>
  BY <1>1, AppendIsConcat, ConcatProperties
<1>3. (d \o h) \o (w \o <<x>>) \in Seq(Packet)
  BY <1>1, <1>2, ConcatProperties
<1>4. ((d \o h) \o w) \o <<x>> = (d \o h) \o (w \o <<x>>)
  BY <1>1, Associates
<1>5. ((d \o h) \o (w \o <<x>>)) \o <<>> = (d \o h) \o (w \o <<x>>)
  BY <1>3, ConcatEmptySeq
<1> QED
  BY <1>2, <1>4, <1>5 DEF Chain

\* A packet becomes pending.
LEMMA ChainMore ==
  ASSUME NEW d \in Seq(Packet), NEW h \in Seq(Packet), NEW w \in Seq(Packet),
         NEW x \in Packet
  PROVE  Chain(d, h, w, <<x>>) = Chain(d, h, w, <<>>) \o <<x>>
<1>1. d \o h \in Seq(Packet)
  BY ConcatProperties
<1>2. d \o h \o w \in Seq(Packet)
  BY <1>1, ConcatProperties
<1>3. d \o h \o w \o <<>> = d \o h \o w
  BY <1>2, ConcatEmptySeq
<1> QED
  BY <1>3 DEF Chain

\* The packet that is decoded leads the others.
LEMMA ChainFirst ==
  ASSUME NEW x \in Packet, NEW h \in Seq(Packet), NEW w \in Seq(Packet),
         NEW s \in Seq(Packet)
  PROVE  /\ Chain(<<x>>, h, w, s) = <<x>> \o Chain(<<>>, h, w, s)
         /\ Chain(<<>>, h, w, s) \in Seq(Packet)
<1> DEFINE e == <<x>>
<1>1. e \in Seq(Packet)
  BY One
<1> HIDE DEF e
<1>2. h \o w \in Seq(Packet) /\ <<>> \o h = h
  BY ConcatProperties, ConcatEmptySeq
<1>3. (h \o w) \o s \in Seq(Packet)
  BY <1>2, ConcatProperties
<1>4. (e \o h) \o w = e \o (h \o w)
  BY <1>1, Associates
<1>5. (e \o (h \o w)) \o s = e \o ((h \o w) \o s)
  <2> DEFINE v == h \o w
  <2>1. v \in Seq(Packet)
    BY <1>2
  <2> HIDE DEF v
  <2>2. (e \o v) \o s = e \o (v \o s)
    BY <1>1, <2>1, Associates, ZenonT(30)
  <2> QED
    BY <2>2 DEF v
<1> QED
  BY <1>2, <1>3, <1>4, <1>5 DEF e, Chain

\* Equal sequences with the same first packet go on alike.
LEMMA Cancel ==
  ASSUME NEW x \in Packet, NEW a \in Seq(Packet), NEW b \in Seq(Packet),
         <<x>> \o a = <<x>> \o b
  PROVE  a = b
<1> DEFINE e == <<x>>
<1>1. e \in Seq(Packet) /\ e \o a = e \o b
  BY One
<1> HIDE DEF e
<1> QED
  BY <1>1, ConcatSimplifications

LEMMA FirstOf ==
  ASSUME NEW x \in Packet, NEW a \in Seq(Packet)
  PROVE  /\ (<<x>> \o a)[1] = x /\ <<x>> \o a # <<>>
<1> DEFINE e == <<x>>
<1>1. e \in Seq(Packet) /\ Len(e) = 1 /\ e[1] = x /\ e # <<>>
  BY One
<1> HIDE DEF e
<1>2. /\ Len(a) \in Nat /\ (e \o a)[1] = e[1]
      /\ e \o a # <<>>
  BY <1>1, LenProperties, ConcatProperties, ConcatSimplifications
<1> QED
  BY <1>1, <1>2 DEF e

\* The first packet of a buffer leads the others.
LEMMA ChainHead ==
  ASSUME NEW h \in Seq(Packet), h # <<>>, NEW w \in Seq(Packet), NEW s \in Seq(Packet)
  PROVE  /\ Chain(<<>>, h, w, s) = <<Head(h)>> \o Chain(<<>>, Tail(h), w, s)
         /\ Chain(<<>>, Tail(h), w, s) \in Seq(Packet)
<1> DEFINE x == Head(h)
           t == Tail(h)
<1>1. x \in Packet /\ t \in Seq(Packet) /\ Chain(<<x>>, t, w, s) = Chain(<<>>, h, w, s)
  BY ChainTake
<1> HIDE DEF x, t
<1>2. /\ Chain(<<x>>, t, w, s) = <<x>> \o Chain(<<>>, t, w, s)
      /\ Chain(<<>>, t, w, s) \in Seq(Packet)
  BY <1>1, ChainFirst
<1> QED
  BY <1>1, <1>2 DEF x, t

------------------------------------------------------------------------------
(* The packets on their way.                                               *)

InStepOf(p) ==
  damage[p] = "none" =>
    LET q == Other(p)
        reply == IF p = "responder" /\ phase[p] # "negotiate" /\ phase[q] = "negotiate"
                 THEN <<Finish>> ELSE <<>>
    IN Flight(p) = reply \o [i \in 1 .. Len(encoded[p]) - rx[q] |-> Secured(rx[q] + i)]

LEMMA FlightIs ==
  ASSUME NEW p \in Peer, readDev[Other(p)] = "context"
  PROVE  InStepOf(p) <=> Aligned(p)
<1>1. Flight(p) = Chain(Decoded(p), Held(p), wire[p], Pending(p))
  BY DEF Flight, Chain, Decoded, Held, Pending
<1> QED
  BY <1>1 DEF InStepOf, Aligned, Reply, Expect

LEMMA FlightIsNext ==
  ASSUME NEW p \in Peer, readDev'[Other(p)] = "context"
  PROVE  InStepOf(p)' <=> Aligned(p)'
<1>1. Flight(p)' = Chain(Decoded(p)', Held(p)', wire'[p], Pending(p)')
  BY DEF Flight, Chain, Decoded, Held, Pending
<1> QED
  BY <1>1 DEF InStepOf, Aligned, Reply, Expect

LEMMA InStepPerPeer ==
  OneReadDevice => (InStep <=> \A p \in Peer : Aligned(p))
<1>1. InStep <=> \A p \in Peer : InStepOf(p)
  BY DEF InStep, InStepOf
<1> QED
  BY <1>1, FlightIs, Peers DEF OneReadDevice

LEMMA InStepPerPeerNext ==
  OneReadDevice' => (InStep' <=> \A p \in Peer : Aligned(p)')
<1>1. InStep' <=> \A p \in Peer : InStepOf(p)'
  BY DEF InStep, InStepOf
<1> QED
  BY <1>1, FlightIsNext, Peers DEF OneReadDevice

LEMMA AllAligned ==
  ASSUME IInv
  PROVE  \A p \in Peer : Aligned(p)
BY InStepPerPeer DEF IInv

LEMMA PieceTypes ==
  ASSUME TypeOK, NEW p \in Peer
  PROVE  /\ Decoded(p) \in Seq(Packet) /\ Held(p) \in Seq(Packet)
         /\ wire[p] \in Seq(Packet) /\ Pending(p) \in Seq(Packet)
         /\ Reply(p) \in Seq(Packet)
         /\ rx[Other(p)] \in Nat /\ Len(encoded[p]) \in Nat
         /\ Secured(Len(encoded[p])) \in Packet
<1>1. /\ wire[p] \in Seq(Packet) /\ Held(p) \in Seq(Packet)
      /\ packet[Other(p)] \in Packet /\ rx[Other(p)] \in Nat
      /\ Len(encoded[p]) \in Nat
  BY Peers, Typed DEF Held
<1>2. Secured(Len(encoded[p])) \in Packet
  BY <1>1, Packets
<1>3. Decoded(p) \in Seq(Packet)
  BY <1>1, One, EmptySeq DEF Decoded
<1>4. Pending(p) \in Seq(Packet)
  BY <1>2, One, EmptySeq DEF Pending
<1>5. Reply(p) \in Seq(Packet)
  BY Packets, One, EmptySeq DEF Reply
<1> QED
  BY <1>1, <1>2, <1>3, <1>4, <1>5

\* A direction none of whose parts change.
LEMMA AlignedFrame ==
  ASSUME NEW p \in Peer, Aligned(p),
         damage'[p] = damage[p], wire'[p] = wire[p], encoded'[p] = encoded[p],
         rx'[Other(p)] = rx[Other(p)],
         Decoded(p)' = Decoded(p), Held(p)' = Held(p), Pending(p)' = Pending(p),
         Reply(p)' = Reply(p)
  PROVE  Aligned(p)'
BY DEF Aligned

\* What p does as a writer leaves the direction it reads from alone.
LEMMA WriterFrame ==
  ASSUME IInv, NEW p \in Peer, NEW q \in Peer, q # p,
         UNCHANGED <<phase, rpc, packet, held, rx>>,
         damage'[q] = damage[q], wire'[q] = wire[q], encoded'[q] = encoded[q],
         wpc'[q] = wpc[q]
  PROVE  Aligned(q)'
BY AllAligned, AlignedFrame DEF Decoded, Held, Pending, Reply

\* What p does as a reader leaves the direction it writes to alone.
LEMMA ReaderFrame ==
  ASSUME IInv, NEW p \in Peer,
         UNCHANGED <<phase, damage, encoded, wpc>>, wire'[p] = wire[p],
         LET o == Other(p)
         IN rpc'[o] = rpc[o] /\ packet'[o] = packet[o] /\ held'[o] = held[o]
            /\ rx'[o] = rx[o]
  PROVE  Aligned(p)'
BY AllAligned, AlignedFrame DEF Decoded, Held, Pending, Reply

\* A peer that is receiving has left negotiate(): no reply is awaited.
LEMMA NoReply ==
  ASSUME IInv, NEW p \in Peer, rpc[Other(p)] # "idle"
  PROVE  Reply(p) = <<>>
BY Peers DEF IInv, AfterSplit, Reply

\* The requester has a reply to read only if the responder has sent it.
LEMMA ReplyWasSent ==
  ASSUME IInv, SessionStarted
  PROVE  phase["responder"] # "negotiate"
<1> DEFINE h == Held("responder")
           w == wire["responder"]
           s == Pending("responder")
<1>1. /\ phase["requester"] = "negotiate"
      /\ h # <<>> /\ Head(h) = Finish
  BY Peers DEF SessionStarted, Held
<1>2. SUFFICES ASSUME phase["responder"] = "negotiate" PROVE FALSE
  OBVIOUS
<1>3. /\ rpc["requester"] = "idle" /\ rx["requester"] = 0 /\ wpc["responder"] = "idle"
      /\ encoded["responder"] = <<>> /\ damage["responder"] = "none"
  BY <1>1, <1>2, Peers DEF IInv, AfterSplit
<1>4. /\ Decoded("responder") = <<>> /\ Reply("responder") = <<>>
      /\ Len(encoded["responder"]) = 0
  BY <1>2, <1>3, Peers DEF Decoded, Reply
<1>5. Chain(<<>>, h, w, s) = <<>> \o Expect(0, 0)
  <2>1. Aligned("responder") /\ Other("responder") = "requester"
    BY AllAligned, Peers
  <2> QED
    BY <1>3, <1>4, <2>1 DEF Aligned
<1>6. h \in Seq(Packet) /\ w \in Seq(Packet) /\ s \in Seq(Packet)
  BY PieceTypes, Peers DEF IInv
<1> HIDE DEF h, w, s
<1>8. /\ Chain(<<>>, h, w, s) = <<Finish>> \o Chain(<<>>, Tail(h), w, s)
      /\ Chain(<<>>, Tail(h), w, s) \in Seq(Packet)
  BY <1>1, <1>6, ChainHead
<1>9. <<Finish>> \o Chain(<<>>, Tail(h), w, s) # <<>>
  BY <1>8, Packets, FirstOf
<1>10. Expect(0, 0) = <<>> /\ <<>> \o Expect(0, 0) = <<>>
  BY ExpectIs, ConcatEmptySeq
<1> QED
  BY <1>5, <1>8, <1>9, <1>10

\* The reply of the responder becomes the last packet on its way.
LEMMA FinishAligned ==
  ASSUME IInv, FinishSession
  PROVE  \A q \in Peer : Aligned(q)'
<1> DEFINE r == "responder"
           d == Decoded(r)
           h == Held(r)
           w == wire[r]
<1>1. /\ phase[r] = "negotiate" /\ wire'[r] = Append(w, Finish) /\ phase'[r] = "ready"
      /\ wire'["requester"] = wire["requester"]
      /\ phase'["requester"] = phase["requester"]
      /\ UNCHANGED <<holder, common, wpc, rpc, damage, encoded, packet, held, rx>>
  BY Peers DEF FinishSession, IInv, TypeOK, writerVars, readerVars
<1>2. /\ phase["requester"] = "negotiate" /\ wpc[r] = "idle" /\ rx["requester"] = 0
      /\ encoded[r] = <<>> /\ damage[r] = "none"
  BY <1>1, Peers DEF IInv, AfterSplit
<1>3. Aligned("requester")'
  BY <1>1, Peers, AllAligned, AlignedFrame DEF Decoded, Held, Pending, Reply
<1>4. Aligned(r)'
  <2>1. /\ Decoded(r)' = d /\ Held(r)' = h /\ Pending(r)' = <<>> /\ Pending(r) = <<>>
        /\ Reply(r)' = <<Finish>> /\ Reply(r) = <<>>
    BY <1>1, <1>2, Peers DEF Decoded, Held, Pending, Reply
  <2>2. Chain(d, h, w, <<>>) = <<>> \o Expect(0, 0)
    BY <1>2, <2>1, AllAligned, Peers DEF Aligned
  <2>3. d \in Seq(Packet) /\ h \in Seq(Packet) /\ w \in Seq(Packet) /\ Finish \in Packet
    BY PieceTypes, Packets, Peers DEF IInv
  <2>4. /\ Expect(0, 0) = <<>> /\ <<>> \o <<>> = <<>>
        /\ <<>> \o <<Finish>> = <<Finish>> /\ <<Finish>> \o <<>> = <<Finish>>
    BY <2>3, ExpectIs, ConcatEmptySeq, EmptySeq, One
  <2>5. /\ Chain(d, h, Append(w, Finish), <<>>) = Chain(d, h, w, <<Finish>>)
        /\ Chain(d, h, w, <<Finish>>) = Chain(d, h, w, <<>>) \o <<Finish>>
    <3> DEFINE x == Finish
    <3> HIDE DEF d, h, w, x
    <3>1. x \in Packet
      BY <2>3 DEF x
    <3>2. Chain(d, h, Append(w, x), <<>>) = Chain(d, h, w, <<x>>)
      BY <2>3, <3>1, ChainSend
    <3>3. Chain(d, h, w, <<x>>) = Chain(d, h, w, <<>>) \o <<x>>
      BY <2>3, <3>1, ChainMore
    <3> QED
      BY <3>2, <3>3 DEF x
  <2>6. Chain(d, h, Append(w, Finish), <<>>) = <<Finish>> \o Expect(0, 0)
    BY <2>2, <2>4, <2>5
  <2>7. /\ Decoded(r)' = d /\ Held(r)' = h /\ wire'[r] = Append(w, Finish)
        /\ Pending(r)' = <<>> /\ Reply(r)' = <<Finish>>
        /\ rx'[Other(r)] = 0 /\ Len(encoded'[r]) = 0
    BY <1>1, <1>2, <2>1, Peers
  <2> HIDE DEF d, h, w
  <2> QED
    BY <2>6, <2>7 DEF Aligned
<1> QED
  BY <1>3, <1>4 DEF Peer

\* The requester takes the reply, which is the first packet on its way.
LEMMA StartAligned ==
  ASSUME IInv, SessionStarted
  PROVE  \A q \in Peer : Aligned(q)'
<1> DEFINE r == "responder"
           h == Held(r)
           w == wire[r]
           s == Pending(r)
           x == Expect(0, Len(encoded[r]))
<1>1. /\ phase["requester"] = "negotiate" /\ h # <<>> /\ Head(h) = Finish
      /\ Held(r)' = Tail(h) /\ held'[r] = held[r]
      /\ phase'["requester"] = "ready" /\ phase'[r] = phase[r]
      /\ UNCHANGED <<holder, common, wpc, rpc, damage, encoded, packet, wire, rx>>
  <2>1. held["requester"] \in [Device -> Seq(Packet)]
    BY Peers DEF IInv, TypeOK
  <2> QED
    BY <2>1, Peers DEF SessionStarted, Held, Device, IInv, TypeOK, writerVars, readerVars
<1>2. rpc["requester"] = "idle" /\ rx["requester"] = 0 /\ phase[r] # "negotiate"
  BY <1>1, ReplyWasSent, Peers DEF IInv, AfterSplit
<1>3. Aligned("requester")'
  BY <1>1, Peers, AllAligned, AlignedFrame DEF Decoded, Held, Pending, Reply
<1>4. Aligned(r)'
  <2>1. /\ Decoded(r)' = <<>> /\ Decoded(r) = <<>> /\ Pending(r)' = s
        /\ Reply(r)' = <<>> /\ Reply(r) = <<Finish>>
    BY <1>1, <1>2, Peers DEF Decoded, Pending, Reply
  <2>2. damage[r] = "none" => Chain(<<>>, h, w, s) = <<Finish>> \o x
    BY <1>2, <2>1, AllAligned, Peers DEF Aligned
  <2>3. h \in Seq(Packet) /\ w \in Seq(Packet) /\ s \in Seq(Packet) /\ x \in Seq(Packet)
    BY PieceTypes, Peers, ExpectIs DEF IInv
  <2>4. damage[r] = "none" => Chain(<<>>, Tail(h), w, s) = <<>> \o x
    <3> HIDE DEF h, w, s, x
    <3>2. /\ Chain(<<>>, h, w, s) = <<Finish>> \o Chain(<<>>, Tail(h), w, s)
          /\ Chain(<<>>, Tail(h), w, s) \in Seq(Packet)
      BY <1>1, <2>3, ChainHead
    <3>3. damage[r] = "none" => Chain(<<>>, Tail(h), w, s) = x
      BY <2>2, <2>3, <3>2, Packets, Cancel
    <3> QED
      BY <2>3, <3>3, ConcatEmptySeq
  <2>5. /\ damage'[r] = damage[r] /\ wire'[r] = w
        /\ Expect(rx[Other(r)], Len(encoded[r]))' = x
    BY <1>1, <1>2, Peers
  <2> HIDE DEF h, w, s, x
  <2> QED
    BY <1>1, <2>1, <2>4, <2>5 DEF Aligned
<1> QED
  BY <1>3, <1>4 DEF Peer

\* A message is encoded: one more packet is pending, and one more is expected.
LEMMA EncodeAligned ==
  ASSUME IInv, NEW p \in Peer, Encode(p)
  PROVE  \A q \in Peer : Aligned(q)'
<1> DEFINE d == Decoded(p)
           h == Held(p)
           w == wire[p]
           e == Reply(p)
           r == rx[Other(p)]
           l == Len(encoded[p])
<1>1. /\ wpc[p] = "encode" /\ wpc'[p] = "lock" /\ Len(encoded'[p]) = l + 1
      /\ \A q \in Peer : q # p => wpc'[q] = wpc[q] /\ encoded'[q] = encoded[q]
      /\ UNCHANGED <<phase, rpc, packet, held, rx, wire, damage>>
  <2>1. encoded[p] \in Seq(Sizes) /\ size[p] \in Sizes
    BY Typed DEF Encode, IInv, Encoding
  <2>2. Len(Append(encoded[p], size[p])) = l + 1
    BY <2>1, AppendProperties
  <2> QED
    BY <2>2 DEF Encode, IInv, TypeOK, splitVars, readerVars
<1>2. ASSUME NEW q \in Peer, q # p PROVE Aligned(q)'
  BY <1>1, <1>2, WriterFrame
<1>3. Aligned(p)'
  <2>1. /\ d \in Seq(Packet) /\ h \in Seq(Packet) /\ w \in Seq(Packet)
        /\ e \in Seq(Packet) /\ r \in Nat /\ l \in Nat
    BY PieceTypes DEF IInv
  <2>2. r <= l
    <3>1. LossOf(Other(p)) /\ Other(Other(p)) = p
      BY Peers, LossPerPeer DEF IInv
    <3> QED
      BY <3>1 DEF LossOf, Lossless
  <2>3. /\ Decoded(p)' = d /\ Held(p)' = h /\ wire'[p] = w /\ Reply(p)' = e
        /\ Pending(p) = <<>> /\ Pending(p)' = <<Secured(l + 1)>>
        /\ rx'[Other(p)] = r /\ Len(encoded'[p]) = l + 1 /\ damage'[p] = damage[p]
    BY <1>1 DEF Decoded, Held, Reply, Pending
  <2>4. damage[p] = "none" => Chain(d, h, w, <<>>) = e \o Expect(r, l)
    BY <2>3, AllAligned DEF Aligned
  <2> HIDE DEF d, h, w, e, r, l
  <2>5. l + 1 \in Nat /\ Secured(l + 1) \in Packet
    BY <2>1, Packets
  <2>6. Chain(d, h, w, <<Secured(l + 1)>>) = Chain(d, h, w, <<>>) \o <<Secured(l + 1)>>
    BY <2>1, <2>5, ChainMore
  <2>7. e \o Expect(r, l + 1) = (e \o Expect(r, l)) \o <<Secured(l + 1)>>
    <3> DEFINE a == Expect(r, l)
               b == <<Secured(l + 1)>>
    <3>1. a \in Seq(Packet) /\ b \in Seq(Packet) /\ Expect(r, l + 1) = a \o b
      BY <2>1, <2>2, <2>5, ExpectIs, ExpectMore, One
    <3> HIDE DEF a, b
    <3>2. (e \o a) \o b = e \o (a \o b)
      BY <2>1, <3>1, Associates, ZenonT(30)
    <3> QED
      BY <3>1, <3>2 DEF a, b
  <2>8. damage[p] = "none" => Chain(d, h, w, <<Secured(l + 1)>>) = e \o Expect(r, l + 1)
    BY <2>4, <2>6, <2>7
  <2> QED
    BY <2>3, <2>8 DEF Aligned
<1> QED
  BY <1>2, <1>3

\* The pending packet is written.
LEMMA SendAligned ==
  ASSUME IInv, NEW p \in Peer, SendOk(p) \/ SendFailWhole(p)
  PROVE  \A q \in Peer : Aligned(q)'
<1> DEFINE d == Decoded(p)
           h == Held(p)
           w == wire[p]
           x == Secured(Len(encoded[p]))
<1>1. PICK pkt \in Seen(p) : wire' = [wire EXCEPT ![p] = Append(w, pkt)]
  BY DEF SendOk, SendFailWhole
<1>2. /\ wpc[p] = "send" /\ wpc'[p] = "idle"
      /\ \A q \in Peer : q # p => wpc'[q] = wpc[q]
      /\ UNCHANGED <<phase, rpc, packet, held, rx, encoded, damage>>
  BY DEF SendOk, SendFailWhole, ReleaseWrite, WriterReturns, IInv, TypeOK, splitVars,
         readerVars
<1>3. wire'[p] = Append(w, pkt) /\ \A q \in Peer : q # p => wire'[q] = wire[q]
  BY <1>1 DEF IInv, TypeOK
<1>4. ASSUME NEW q \in Peer, q # p PROVE Aligned(q)'
  BY <1>2, <1>3, <1>4, WriterFrame
<1>5. Aligned(p)'
  <2>1. damage[p] = "none" => pkt = x
    BY <1>1 DEF Seen
  <2>2. d \in Seq(Packet) /\ h \in Seq(Packet) /\ w \in Seq(Packet) /\ x \in Packet
    BY PieceTypes DEF IInv
  <2>3. Pending(p) = <<x>> /\ Pending(p)' = <<>>
    BY <1>2 DEF Pending
  <2>4. Decoded(p)' = d /\ Held(p)' = h /\ Reply(p)' = Reply(p)
    BY <1>2 DEF Decoded, Held, Reply
  <2>5. Chain(d, h, Append(w, x), <<>>) = Chain(d, h, w, <<x>>)
    <3> HIDE DEF d, h, w, x
    <3> QED
      BY <2>2, ChainSend
  <2>6. Aligned(p)
    BY AllAligned
  <2> QED
    BY <1>2, <1>3, <2>1, <2>3, <2>4, <2>5, <2>6 DEF Aligned
<1> QED
  BY <1>4, <1>5

\* A message is lost: nothing is promised of the direction any more.
LEMMA LostAligned ==
  ASSUME IInv, NEW p \in Peer, SendFailClean(p) \/ SendFailTorn(p)
  PROVE  \A q \in Peer : Aligned(q)'
<1>1. /\ damage'[p] # "none"
      /\ \A q \in Peer : q # p => wpc'[q] = wpc[q] /\ damage'[q] = damage[q]
                                  /\ wire'[q] = wire[q]
      /\ UNCHANGED <<phase, rpc, packet, held, rx, encoded>>
  <2>1. /\ damage[p] \in {"none", "missing", "torn"} /\ DOMAIN damage = Peer
        /\ DOMAIN wpc = Peer /\ DOMAIN wire = Peer
    BY DEF IInv, TypeOK
  <2>2. CASE SendFailClean(p)
    BY <2>1, <2>2 DEF SendFailClean, Missing, ReleaseWrite, WriterReturns, splitVars, readerVars
  <2>3. CASE SendFailTorn(p)
    BY <2>1, <2>3 DEF SendFailTorn, ReleaseWrite, WriterReturns, splitVars, readerVars
  <2> QED
    BY <2>2, <2>3
<1>2. ASSUME NEW q \in Peer, q # p PROVE Aligned(q)'
  BY <1>1, <1>2, WriterFrame
<1>3. Aligned(p)'
  BY <1>1 DEF Aligned
<1> QED
  BY <1>2, <1>3

\* So is one that encode_secured_message() has counted when it fails.
LEMMA EncodeFailsAligned ==
  ASSUME IInv, NEW p \in Peer, EncodeFails(p)
  PROVE  \A q \in Peer : Aligned(q)'
<1>1. /\ wpc[p] = "encode" /\ wpc'[p] = "idle"
      /\ \A q \in Peer : q # p => wpc'[q] = wpc[q] /\ damage'[q] = damage[q]
                                  /\ wire'[q] = wire[q] /\ encoded'[q] = encoded[q]
      /\ UNCHANGED <<phase, rpc, packet, held, rx, wire>>
  BY DEF EncodeFails, Missing, WriterReturns, splitVars, readerVars, IInv, TypeOK
<1>2. ASSUME NEW q \in Peer, q # p PROVE Aligned(q)'
  BY <1>1, <1>2, WriterFrame
<1>3. Aligned(p)'
  <2>1. CASE UNCHANGED <<encoded, damage>>
    <3>1. Pending(p)' = Pending(p)
      BY <1>1 DEF Pending
    <3> QED
      BY <1>1, <2>1, <3>1, AllAligned, AlignedFrame DEF Decoded, Held, Reply
  <2>2. CASE Missing(p)
    BY <2>2 DEF Missing, Aligned, IInv, TypeOK
  <2> QED
    BY <2>1, <2>2 DEF EncodeFails
<1> QED
  BY <1>2, <1>3

\* A buffer is jammed only behind a torn frame.
LEMMA JamAligned ==
  ASSUME IInv, NEW p \in Peer, Jam(p)
  PROVE  \A q \in Peer : Aligned(q)'
<1> DEFINE o == Other(p)
<1>1. o \in Peer /\ o # p /\ Other(o) = p
  BY Peers
<1>2. /\ damage[o] = "torn" /\ held'[o] = held[o]
      /\ UNCHANGED <<phase, wpc, encoded, damage, rpc, packet, rx, wire>>
  BY <1>1 DEF Jam, splitVars, writerVars, IInv, TypeOK
<1>3. Aligned(o)'
  BY <1>2 DEF Aligned
<1>4. Aligned(p)'
  BY <1>1, <1>2, ReaderFrame
<1> QED
  BY <1>1, <1>3, <1>4, Peers

\* What has arrived moves to the buffer of the device that is read from, which was empty.
LEMMA FillAligned ==
  ASSUME IInv, NEW p \in Peer, Fill(p)
  PROVE  \A q \in Peer : Aligned(q)'
<1> DEFINE o == Other(p)
           w == wire[o]
           s == Pending(o)
           d == Decoded(o)
<1>1. o \in Peer /\ o # p /\ Other(o) = p
  BY Peers
<1>2. PICK c \in Device :
        /\ Reads(p, c) /\ held[p][c] = <<>>
        /\ \E k \in 1 .. Len(w) :
             /\ held' = [held EXCEPT ![p][c] = SubSeq(w, 1, k)]
             /\ wire' = [wire EXCEPT ![o] = SubSeq(w, k + 1, Len(w))]
  BY DEF Fill
<1>3. PICK k \in 1 .. Len(w) :
        /\ held' = [held EXCEPT ![p][c] = SubSeq(w, 1, k)]
        /\ wire' = [wire EXCEPT ![o] = SubSeq(w, k + 1, Len(w))]
  BY <1>2
<1>4. c = "context"
  BY <1>2 DEF Reads, IInv, OneReadDevice
<1>5. UNCHANGED <<phase, wpc, encoded, damage, rpc, packet, rx>>
  BY DEF Fill, splitVars, writerVars, readerVars
<1>6. wire'[p] = wire[p] /\ held'[o] = held[o] /\ wire'[o] = SubSeq(w, k + 1, Len(w))
  BY <1>1, <1>3 DEF IInv, TypeOK
<1>7. Held(o) = <<>> /\ Held(o)' = SubSeq(w, 1, k)
  <2>1. held[p] \in [Device -> Seq(Packet)]
    BY DEF IInv, TypeOK
  <2>2. held'[p]["context"] = SubSeq(w, 1, k)
    BY <1>3, <1>4, <2>1 DEF IInv, TypeOK
  <2> QED
    BY <1>1, <1>2, <1>4, <2>2 DEF Held
<1>8. Aligned(p)'
  BY <1>1, <1>5, <1>6, ReaderFrame
<1>9. Aligned(o)'
  <2>1. d \in Seq(Packet) /\ w \in Seq(Packet) /\ s \in Seq(Packet)
    BY <1>1, PieceTypes DEF IInv
  <2>2. Chain(d, SubSeq(w, 1, k), SubSeq(w, k + 1, Len(w)), s) = Chain(d, <<>>, w, s)
    <3> HIDE DEF d, w, s
    <3> QED
      BY <2>1, ChainFill
  <2>3. Decoded(o)' = d /\ Pending(o)' = s /\ Reply(o)' = Reply(o)
    BY <1>5 DEF Decoded, Pending, Reply
  <2>4. Aligned(o)
    BY <1>1, AllAligned
  <2> HIDE DEF d, s
  <2>5. damage[o] = "none" =>
          Chain(d, <<>>, w, s) = Reply(o) \o Expect(rx[Other(o)], Len(encoded[o]))
    BY <1>7, <2>4 DEF Aligned, d, s
  <2> QED
    BY <1>5, <1>6, <1>7, <2>2, <2>3, <2>5 DEF Aligned
<1> QED
  BY <1>1, <1>8, <1>9, Peers

\* The first packet of the buffer is what is decoded next.
LEMMA TakeAligned ==
  ASSUME IInv, NEW p \in Peer, Take(p)
  PROVE  \A q \in Peer : Aligned(q)'
<1> DEFINE o == Other(p)
           h == Held(o)
           w == wire[o]
           s == Pending(o)
<1>1. o \in Peer /\ o # p /\ Other(o) = p
  BY Peers
<1>2. /\ rpc[p] = "read" /\ rpc'[p] = "decode" /\ h # <<>>
      /\ packet'[p] = Head(h) /\ Held(o)' = Tail(h)
      /\ rpc'[o] = rpc[o] /\ packet'[o] = packet[o] /\ held'[o] = held[o]
      /\ UNCHANGED <<phase, wpc, encoded, damage, rx, wire>>
  <2>1. readDev[p] = "context" /\ held[p] \in [Device -> Seq(Packet)]
    BY DEF IInv, TypeOK, OneReadDevice
  <2> QED
    BY <1>1, <2>1 DEF Take, Held, Device, IInv, TypeOK, splitVars, writerVars
<1>3. Aligned(p)'
  BY <1>1, <1>2, ReaderFrame
<1>4. Aligned(o)'
  <2>1. h \in Seq(Packet)
    BY <1>1, PieceTypes DEF IInv
  <2>2. Chain(<<Head(h)>>, Tail(h), w, s) = Chain(<<>>, h, w, s)
    <3> HIDE DEF h, w, s
    <3> QED
      BY <1>2, <2>1, ChainTake
  <2>3. Decoded(o) = <<>> /\ Decoded(o)' = <<Head(h)>>
    BY <1>1, <1>2 DEF Decoded
  <2>4. Pending(o)' = s /\ Reply(o)' = Reply(o)
    BY <1>2 DEF Pending, Reply
  <2>5. Aligned(o)
    BY <1>1, AllAligned
  <2> HIDE DEF h, s
  <2>6. damage[o] = "none" =>
          Chain(<<>>, h, w, s) = Reply(o) \o Expect(rx[Other(o)], Len(encoded[o]))
    BY <2>3, <2>5 DEF Aligned, h, s
  <2> QED
    BY <1>2, <2>2, <2>3, <2>4, <2>6 DEF Aligned
<1> QED
  BY <1>1, <1>3, <1>4, Peers

\* What a reader does at its decoder.
LEMMA DecodeParts ==
  ASSUME IInv, NEW p \in Peer, ReaderReturns(p)
  PROVE  /\ rpc[p] = "decode" /\ rpc'[p] = "idle"
         /\ \A q \in Peer : q # p => rpc'[q] = rpc[q] /\ packet'[q] = packet[q]
         /\ UNCHANGED <<phase, wpc, encoded, damage, held, wire>>
BY DEF ReaderReturns, IInv, TypeOK, splitVars, writerVars

\* The packet being decoded is the first on its way.
LEMMA DecodedFirst ==
  ASSUME IInv, NEW p \in Peer, rpc[p] = "decode", damage[Other(p)] = "none"
  PROVE  LET o == Other(p)
             rest == Chain(<<>>, Held(o), wire[o], Pending(o))
         IN /\ <<packet[p]>> \o rest = Expect(rx[p], Len(encoded[o]))
            /\ rest \in Seq(Packet)
<1> DEFINE o == Other(p)
           h == Held(o)
           w == wire[o]
           s == Pending(o)
           x == packet[p]
           y == Expect(rx[p], Len(encoded[o]))
<1>1. o \in Peer /\ Other(o) = p
  BY Peers
<1>2. Decoded(o) = <<x>> /\ Reply(o) = <<>>
  BY <1>1, NoReply DEF Decoded
<1>3. Chain(<<x>>, h, w, s) = <<>> \o y
  <2>1. Aligned(o)
    BY <1>1, AllAligned
  <2> QED
    BY <1>1, <1>2, <2>1 DEF Aligned
<1>4. /\ h \in Seq(Packet) /\ w \in Seq(Packet) /\ s \in Seq(Packet)
      /\ x \in Packet /\ y \in Seq(Packet)
  BY <1>1, PieceTypes, Typed, ExpectIs DEF IInv
<1> HIDE DEF h, w, s, x, y
<1>5. <<>> \o y = y
  BY <1>4, ConcatEmptySeq
<1>6. /\ Chain(<<x>>, h, w, s) = <<x>> \o Chain(<<>>, h, w, s)
      /\ Chain(<<>>, h, w, s) \in Seq(Packet)
  BY <1>4, ChainFirst
<1> QED
  BY <1>3, <1>5, <1>6 DEF h, w, s, x, y

\* A packet is accepted: the next one is expected.
LEMMA AcceptAligned ==
  ASSUME IInv, NEW p \in Peer, DecodeOk(p) \/ DecodeShort(p)
  PROVE  \A q \in Peer : Aligned(q)'
<1> DEFINE o == Other(p)
           rest == Chain(<<>>, Held(o), wire[o], Pending(o))
           r == rx[p]
           l == Len(encoded[o])
<1>1. o \in Peer /\ o # p /\ Other(o) = p
  BY Peers
<1>2. ReaderReturns(p) /\ Authentic(p) /\ rx' = [rx EXCEPT ![p] = r + 1]
  BY DEF DecodeOk, DecodeShort
<1>3. /\ rpc[p] = "decode" /\ rpc'[p] = "idle"
      /\ rpc'[o] = rpc[o] /\ packet'[o] = packet[o]
      /\ UNCHANGED <<phase, wpc, encoded, damage, held, wire>>
  BY <1>1, <1>2, DecodeParts
<1>4. rx'[p] = r + 1 /\ rx'[o] = rx[o]
  BY <1>1, <1>2 DEF IInv, TypeOK
<1>5. Aligned(p)'
  BY <1>1, <1>3, <1>4, ReaderFrame
<1>6. Aligned(o)'
  <2>1. packet[p] = Secured(r + 1) /\ r + 1 <= l
    BY <1>2, NextDecoded DEF Authentic
  <2>2. r \in Nat /\ l \in Nat
    BY <1>1, Typed DEF IInv
  <2>3. damage[o] = "none" =>
          <<Secured(r + 1)>> \o rest = Expect(r, l) /\ rest \in Seq(Packet)
    BY <1>3, <2>1, DecodedFirst
  <2>4. damage[o] = "none" => rest = Expect(r + 1, l)
    <3> HIDE DEF rest, r, l
    <3>1. r + 1 \in Nat /\ Secured(r + 1) \in Packet /\ r < l
      BY <2>1, <2>2, Packets
    <3>2. Expect(r, l) = <<Secured(r + 1)>> \o Expect(r + 1, l)
      BY <2>2, <3>1, ExpectLess
    <3> DEFINE y == Expect(r + 1, l)
               x == Secured(r + 1)
    <3>3. y \in Seq(Packet)
      BY <2>2, <3>1, ExpectIs
    <3>4. x \in Packet
      BY <3>1
    <3>5. damage[o] = "none" => <<x>> \o rest = <<x>> \o y /\ rest \in Seq(Packet)
      BY <2>3, <3>2
    <3> HIDE DEF x, y
    <3>6. damage[o] = "none" => rest = y
      BY <3>3, <3>4, <3>5, Cancel
    <3> QED
      BY <3>6 DEF y
  <2>5. Expect(r + 1, l) = <<>> \o Expect(r + 1, l)
    <3> HIDE DEF r, l
    <3>1. r + 1 \in Nat
      BY <2>2
    <3>2. Expect(r + 1, l) \in Seq(Packet)
      BY <2>2, <3>1, ExpectIs
    <3> QED
      BY <3>2, ConcatEmptySeq
  <2>6. /\ Decoded(o)' = <<>> /\ Held(o)' = Held(o) /\ Pending(o)' = Pending(o)
        /\ Reply(o)' = <<>>
    BY <1>1, <1>3, NoReply DEF Decoded, Held, Pending, Reply
  <2>7. /\ damage'[o] = damage[o] /\ wire'[o] = wire[o]
        /\ rx'[Other(o)] = r + 1 /\ Len(encoded'[o]) = l
    BY <1>1, <1>3, <1>4
  <2>8. damage[o] = "none" =>
          Chain(<<>>, Held(o), wire[o], Pending(o)) = <<>> \o Expect(r + 1, l)
    BY <2>4, <2>5
  <2> HIDE DEF o, r, l
  <2> QED
    BY <2>6, <2>7, <2>8 DEF Aligned
<1> QED
  BY <1>1, <1>5, <1>6, Peers

\* A packet is rejected only behind a message that was lost.
LEMMA RejectAligned ==
  ASSUME IInv, NEW p \in Peer, DecodeFails(p)
  PROVE  \A q \in Peer : Aligned(q)'
<1> DEFINE o == Other(p)
           r == rx[p]
           l == Len(encoded[o])
           rest == Chain(<<>>, Held(o), wire[o], Pending(o))
           x == packet[p]
<1>1. o \in Peer /\ o # p /\ Other(o) = p
  BY Peers
<1>2. ReaderReturns(p) /\ x # Secured(r + 1) /\ rx' = rx
  BY DEF DecodeFails, Authentic
<1>3. /\ rpc[p] = "decode" /\ rpc'[p] = "idle"
      /\ rpc'[o] = rpc[o] /\ packet'[o] = packet[o]
      /\ UNCHANGED <<phase, wpc, encoded, damage, held, wire>>
  BY <1>1, <1>2, DecodeParts
<1>4. Aligned(p)'
  BY <1>1, <1>2, <1>3, ReaderFrame
<1>5. damage[o] # "none"
  <2>1. SUFFICES ASSUME damage[o] = "none" PROVE FALSE
    OBVIOUS
  <2>2. <<x>> \o rest = Expect(r, l) /\ rest \in Seq(Packet)
    BY <1>3, <2>1, DecodedFirst
  <2>3. r \in Nat /\ l \in Nat /\ x \in Packet
    BY <1>1, Typed DEF IInv
  <2> HIDE DEF r, l, rest, x
  <2>4. (<<x>> \o rest)[1] = x /\ <<x>> \o rest # <<>>
    BY <2>2, <2>3, FirstOf
  <2>5. r < l
    BY <2>2, <2>3, <2>4, ExpectIs
  <2>6. 1 \in 1 .. l - r
    BY <2>3, <2>5
  <2>7. Expect(r, l)[1] = Secured(r + 1)
    BY <2>3, <2>6, ExpectIs
  <2> QED
    BY <1>2, <2>2, <2>4, <2>7
<1>6. Aligned(o)'
  BY <1>3, <1>5 DEF Aligned
<1> QED
  BY <1>1, <1>4, <1>6, Peers

\* Nothing is sent or received before into_split(), and a peer that has not split is
\* where negotiate() left it.
LEMMA AfterSplitStep ==
  ASSUME IInv, [Next]_vars
  PROVE  AfterSplit'
<1>a. TypeOK /\ AfterSplit
  BY DEF IInv
<1> USE <1>a, Peers DEF TypeOK, AfterSplit, writerVars, readerVars, splitVars
<1>1. CASE FinishSession
  <2>1. /\ phase' = [phase EXCEPT !["responder"] = "ready"] /\ phase["responder"] = "negotiate"
        /\ UNCHANGED <<wpc, encoded, damage, rpc, rx>>
    BY <1>1 DEF FinishSession
  <2> QED
    BY <2>1 DEF Peer
<1>2. CASE SessionStarted
  <2>1. /\ phase' = [phase EXCEPT !["requester"] = "ready"] /\ phase["requester"] = "negotiate"
        /\ phase["responder"] # "negotiate" /\ UNCHANGED <<wpc, encoded, damage, rpc, rx>>
    BY <1>2, ReplyWasSent DEF SessionStarted
  <2> QED
    BY <2>1 DEF Peer
<1>3. ASSUME NEW p \in Peer, IntoSplit(p) PROVE AfterSplit'
  <2>1. /\ phase' = [phase EXCEPT ![p] = "split"] /\ phase[p] = "ready"
        /\ UNCHANGED <<wpc, encoded, damage, rpc, rx>>
    BY <1>3 DEF IntoSplit
  <2>2. CASE p = "requester"
    BY <2>1, <2>2 DEF Peer
  <2>3. CASE p = "responder"
    BY <2>1, <2>3 DEF Peer
  <2> QED
    BY <2>2, <2>3 DEF Peer
<1>4. ASSUME NEW p \in Peer, SendCall(p) PROVE AfterSplit'
  BY <1>4 DEF SendCall
<1>5. ASSUME NEW p \in Peer, Refuse(p) PROVE AfterSplit'
  BY <1>5 DEF Refuse, WriterReturns
<1>6. ASSUME NEW p \in Peer, Encode(p) PROVE AfterSplit'
  BY <1>6 DEF Encode
<1>7. ASSUME NEW p \in Peer, LockForWrite(p) PROVE AfterSplit'
  BY <1>7 DEF LockForWrite
<1>8. ASSUME NEW p \in Peer, SendOk(p) PROVE AfterSplit'
  BY <1>8 DEF SendOk, ReleaseWrite, WriterReturns
<1>9. ASSUME NEW p \in Peer, SendFailWhole(p) PROVE AfterSplit'
  BY <1>9 DEF SendFailWhole, ReleaseWrite, WriterReturns
<1>10. ASSUME NEW p \in Peer, SendFailClean(p) PROVE AfterSplit'
  BY <1>10 DEF SendFailClean, Missing, ReleaseWrite, WriterReturns
<1>11. ASSUME NEW p \in Peer, SendFailTorn(p) PROVE AfterSplit'
  BY <1>11 DEF SendFailTorn, ReleaseWrite, WriterReturns
<1>12. ASSUME NEW p \in Peer, Shutdown(p) PROVE AfterSplit'
  BY <1>12 DEF Shutdown
<1>13. ASSUME NEW p \in Peer, ReceiveCall(p) PROVE AfterSplit'
  BY <1>13 DEF ReceiveCall
<1>14. ASSUME NEW p \in Peer, LockForRead(p) PROVE AfterSplit'
  BY <1>14 DEF LockForRead
<1>15. ASSUME NEW p \in Peer, Fill(p) PROVE AfterSplit'
  BY <1>15 DEF Fill
<1>16. ASSUME NEW p \in Peer, Take(p) PROVE AfterSplit'
  BY <1>16 DEF Take
<1>17. ASSUME NEW p \in Peer, ReceiveFails(p) PROVE AfterSplit'
  BY <1>17 DEF ReceiveFails
<1>18. ASSUME NEW p \in Peer, DecodeOk(p) PROVE AfterSplit'
  BY <1>18 DEF DecodeOk, ReaderReturns
<1>19. ASSUME NEW p \in Peer, DecodeShort(p) PROVE AfterSplit'
  BY <1>19 DEF DecodeShort, ReaderReturns
<1>20. ASSUME NEW p \in Peer, DecodeFails(p) PROVE AfterSplit'
  BY <1>20 DEF DecodeFails, ReaderReturns
<1>21. ASSUME NEW p \in Peer, EncodeFails(p) PROVE AfterSplit'
  <2>1. /\ phase[p] = "split" /\ UNCHANGED <<phase, rpc, rx>>
        /\ \A q \in Peer : q # p =>
             wpc'[q] = wpc[q] /\ encoded'[q] = encoded[q] /\ damage'[q] = damage[q]
    <3>1. /\ wpc[p] = "encode" /\ wpc' = [wpc EXCEPT ![p] = "idle"]
          /\ UNCHANGED <<phase, rpc, rx>>
      BY <1>21 DEF EncodeFails, WriterReturns
    <3>2. CASE UNCHANGED <<encoded, damage>>
      BY <3>1, <3>2
    <3>3. CASE encoded' = [encoded EXCEPT ![p] = Append(@, size[p])] /\ Missing(p)
      BY <3>1, <3>3 DEF Missing
    <3> QED
      BY <1>21, <3>2, <3>3 DEF EncodeFails
  <2> QED
    BY <2>1
<1>22. ASSUME NEW p \in Peer, Jam(p) PROVE AfterSplit'
  BY <1>22 DEF Jam
<1>23. CASE UNCHANGED vars
  BY <1>23 DEF vars
<1> QED
  BY <1>1, <1>2, <1>3, <1>4, <1>5, <1>6, <1>7, <1>8, <1>9, <1>10, <1>11, <1>12, <1>13,
     <1>14, <1>15, <1>16, <1>17, <1>18, <1>19, <1>20, <1>21, <1>22, <1>23
  DEF Next, Writer, Reader

\* The packets on their way stay the ones that will be accepted.
LEMMA InStepStep ==
  ASSUME IInv, [Next]_vars
  PROVE  InStep'
<1>a. \A q \in Peer : Aligned(q)
  BY AllAligned
<1>1. CASE FinishSession
  BY <1>1, FinishAligned, InStepPerPeerNext, DeviceStep
<1>2. CASE SessionStarted
  BY <1>2, StartAligned, InStepPerPeerNext, DeviceStep
<1>3. ASSUME NEW p \in Peer, IntoSplit(p) PROVE \A q \in Peer : Aligned(q)'
  <2> SUFFICES ASSUME NEW q \in Peer PROVE Aligned(q)'
    OBVIOUS
  <2>1. /\ \A o \in Peer : phase'[o] = "negotiate" <=> phase[o] = "negotiate"
        /\ UNCHANGED <<wpc, rpc, packet, held, rx, wire, encoded, damage>>
    BY <1>3 DEF IntoSplit, IInv, TypeOK, writerVars, readerVars
  <2>2. Reply(q)' = Reply(q)
    BY <2>1, Peers DEF Reply
  <2>3. Aligned(q)
    BY <1>a
  <2> QED
    BY <2>1, <2>2, <2>3, AlignedFrame DEF Decoded, Held, Pending
<1>4. ASSUME NEW p \in Peer, SendCall(p) PROVE \A q \in Peer : Aligned(q)'
  <2>1. /\ wpc[p] = "idle" /\ wpc'[p] = "encode"
        /\ \A q \in Peer : q # p => wpc'[q] = wpc[q]
        /\ UNCHANGED <<phase, rpc, packet, held, rx, wire, encoded, damage>>
    BY <1>4 DEF SendCall, IInv, TypeOK, splitVars, readerVars
  <2>2. Pending(p)' = Pending(p)
    BY <2>1 DEF Pending
  <2>3. Aligned(p)'
    BY <1>a, <2>1, <2>2, AlignedFrame DEF Decoded, Held, Reply
  <2> QED
    BY <2>1, <2>3, WriterFrame
<1>5. ASSUME NEW p \in Peer, Refuse(p) PROVE \A q \in Peer : Aligned(q)'
  <2>1. /\ wpc[p] = "encode" /\ wpc'[p] = "idle"
        /\ \A q \in Peer : q # p => wpc'[q] = wpc[q]
        /\ UNCHANGED <<phase, rpc, packet, held, rx, wire, encoded, damage>>
    BY <1>5 DEF Refuse, WriterReturns, IInv, TypeOK, splitVars, readerVars
  <2>2. Pending(p)' = Pending(p)
    BY <2>1 DEF Pending
  <2>3. Aligned(p)'
    BY <1>a, <2>1, <2>2, AlignedFrame DEF Decoded, Held, Reply
  <2> QED
    BY <2>1, <2>3, WriterFrame
<1>6. ASSUME NEW p \in Peer, Encode(p) PROVE \A q \in Peer : Aligned(q)'
  BY <1>6, EncodeAligned
<1>7. ASSUME NEW p \in Peer, LockForWrite(p) PROVE \A q \in Peer : Aligned(q)'
  <2>1. /\ wpc[p] = "lock" /\ wpc'[p] = "send"
        /\ \A q \in Peer : q # p => wpc'[q] = wpc[q]
        /\ UNCHANGED <<phase, rpc, packet, held, rx, wire, encoded, damage>>
    BY <1>7 DEF LockForWrite, IInv, TypeOK, splitVars, readerVars
  <2>2. Pending(p)' = Pending(p)
    BY <2>1 DEF Pending
  <2>3. Aligned(p)'
    BY <1>a, <2>1, <2>2, AlignedFrame DEF Decoded, Held, Reply
  <2> QED
    BY <2>1, <2>3, WriterFrame
<1>8. ASSUME NEW p \in Peer, SendOk(p) PROVE \A q \in Peer : Aligned(q)'
  BY <1>8, SendAligned
<1>9. ASSUME NEW p \in Peer, SendFailWhole(p) PROVE \A q \in Peer : Aligned(q)'
  BY <1>9, SendAligned
<1>10. ASSUME NEW p \in Peer, SendFailClean(p) PROVE \A q \in Peer : Aligned(q)'
  BY <1>10, LostAligned
<1>11. ASSUME NEW p \in Peer, SendFailTorn(p) PROVE \A q \in Peer : Aligned(q)'
  BY <1>11, LostAligned
<1>12. ASSUME NEW p \in Peer, Shutdown(p) PROVE \A q \in Peer : Aligned(q)'
  <2> SUFFICES ASSUME NEW q \in Peer PROVE Aligned(q)'
    OBVIOUS
  <2>1. Aligned(q)
    BY <1>a
  <2> QED
    BY <1>12, <2>1, AlignedFrame, Peers
    DEF Shutdown, Decoded, Held, Pending, Reply, IInv, TypeOK, splitVars,
        writerVars, readerVars
<1>13. ASSUME NEW p \in Peer, ReceiveCall(p) PROVE \A q \in Peer : Aligned(q)'
  <2> SUFFICES ASSUME NEW q \in Peer PROVE Aligned(q)'
    OBVIOUS
  <2>1. Aligned(q)
    BY <1>a
  <2> QED
    BY <1>13, <2>1, AlignedFrame, Peers
    DEF ReceiveCall, Decoded, Held, Pending, Reply, IInv, TypeOK, splitVars,
        writerVars, readerVars
<1>14. ASSUME NEW p \in Peer, LockForRead(p) PROVE \A q \in Peer : Aligned(q)'
  <2> SUFFICES ASSUME NEW q \in Peer PROVE Aligned(q)'
    OBVIOUS
  <2>1. Aligned(q)
    BY <1>a
  <2> QED
    BY <1>14, <2>1, AlignedFrame, Peers
    DEF LockForRead, Decoded, Held, Pending, Reply, IInv, TypeOK, splitVars,
        writerVars, readerVars
<1>15. ASSUME NEW p \in Peer, Fill(p) PROVE \A q \in Peer : Aligned(q)'
  BY <1>15, FillAligned
<1>16. ASSUME NEW p \in Peer, Take(p) PROVE \A q \in Peer : Aligned(q)'
  BY <1>16, TakeAligned
<1>17. ASSUME NEW p \in Peer, ReceiveFails(p) PROVE \A q \in Peer : Aligned(q)'
  <2> SUFFICES ASSUME NEW q \in Peer PROVE Aligned(q)'
    OBVIOUS
  <2>1. Aligned(q)
    BY <1>a
  <2> QED
    BY <1>17, <2>1, AlignedFrame, Peers
    DEF ReceiveFails, Decoded, Held, Pending, Reply, IInv, TypeOK, splitVars,
        writerVars, readerVars
<1>18. ASSUME NEW p \in Peer, DecodeOk(p) PROVE \A q \in Peer : Aligned(q)'
  BY <1>18, AcceptAligned
<1>19. ASSUME NEW p \in Peer, DecodeShort(p) PROVE \A q \in Peer : Aligned(q)'
  BY <1>19, AcceptAligned
<1>20. ASSUME NEW p \in Peer, DecodeFails(p) PROVE \A q \in Peer : Aligned(q)'
  BY <1>20, RejectAligned
<1>21. ASSUME NEW p \in Peer, EncodeFails(p) PROVE \A q \in Peer : Aligned(q)'
  BY <1>21, EncodeFailsAligned
<1>22. ASSUME NEW p \in Peer, Jam(p) PROVE \A q \in Peer : Aligned(q)'
  BY <1>22, JamAligned
<1>23. CASE UNCHANGED vars
  <2> SUFFICES ASSUME NEW q \in Peer PROVE Aligned(q)'
    BY InStepPerPeerNext, DeviceStep
  <2>1. Aligned(q)
    BY <1>a
  <2> QED
    BY <1>23, <2>1, AlignedFrame
    DEF vars, Decoded, Held, Pending, Reply, splitVars, writerVars, readerVars
<1> QED
  BY <1>1, <1>2, <1>3, <1>4, <1>5, <1>6, <1>7, <1>8, <1>9, <1>10, <1>11, <1>12, <1>13,
     <1>14, <1>15, <1>16, <1>17, <1>18, <1>19, <1>20, <1>21, <1>22, <1>23,
     InStepPerPeerNext, DeviceStep
  DEF Next, Writer, Reader

------------------------------------------------------------------------------
LEMMA Initially == Init => IInv
<1> SUFFICES ASSUME Init PROVE IInv
  OBVIOUS
<1>1. TypeOK
  <2>1. /\ <<>> \in Seq(Packet) /\ <<>> \in Seq(Sizes) /\ <<>> \in Seq(Nat)
        /\ Len(<<>>) = 0
    BY EmptySeq
  <2>2. ASSUME NEW p \in Peer PROVE Len(encoded[p]) <= MaxSends[p]
    <3>1. MaxSends[p] \in Nat /\ encoded[p] = <<>>
      BY HalvesAssumption DEF Init
    <3> QED
      BY <2>1, <3>1
  <2> QED
    BY <2>1, <2>2, Packets DEF Init, TypeOK, Device, Half
<1>2. OneReadDevice /\ Encoding
  BY DEF Init, OneReadDevice, Encoding, Device
<1>3. AfterSplit
  BY Peers DEF Init, AfterSplit
<1>4. KnownPackets
  BY Peers, EmptySeq, Packets DEF Init, KnownPackets, AllKnown, Known, Device
<1>5. InStep
  <2>1. ASSUME NEW p \in Peer PROVE Aligned(p)
    <3>1. /\ Decoded(p) = <<>> /\ Held(p) = <<>> /\ wire[p] = <<>> /\ Pending(p) = <<>>
          /\ Reply(p) = <<>> /\ rx[Other(p)] = 0 /\ Len(encoded[p]) = 0
      BY <2>1, Peers, EmptySeq DEF Init, Decoded, Held, Pending, Reply, Device
    <3>2. Expect(0, 0) = <<>> /\ <<>> \o <<>> = <<>>
      BY ExpectIs, EmptySeq, ConcatEmptySeq
    <3> QED
      BY <3>1, <3>2 DEF Aligned, Chain
  <2> QED
    BY <1>2, <2>1, InStepPerPeer
<1>6. NoSilentLoss
  <2>1. ASSUME NEW p \in Peer PROVE LossOf(p)
    <3>1. /\ accepted[p] = <<>> /\ rx[p] = 0 /\ refused[p] = {}
          /\ Len(encoded[Other(p)]) = 0 /\ Len(<<>>) = 0
      BY <2>1, Peers, EmptySeq DEF Init
    <3> QED
      BY <3>1 DEF LossOf, Lossless
  <2> QED
    BY <2>1, LossPerPeer
<1> QED
  BY <1>1, <1>2, <1>3, <1>4, <1>5, <1>6 DEF IInv

\* The two ends stay in step as long as nothing is lost: the buffers, the sockets and the
\* messages being written hold what will be decoded, in order, at every point where the
\* four halves can be.
THEOREM SecureHalvesInvariance == Spec => []IInv
<1>1. Init => IInv
  BY Initially
<1>2. IInv /\ [Next]_vars => IInv'
  BY TypeStep, DeviceStep, AfterSplitStep, EncodingStep, KnownStep, InStepStep, LossStep
  DEF IInv
<1> QED
  BY <1>1, <1>2, PTL DEF Spec

\* Every variable of the halves, the sockets and the sessions keeps its type.
THEOREM SecureHalvesTypeCorrect == Spec => []TypeOK
<1>1. IInv => TypeOK
  BY DEF IInv
<1> QED
  BY <1>1, SecureHalvesInvariance, PTL

\* While no send() of a peer has lost a message, the packets on their way to the other
\* end are those its session accepts next, the ones read during negotiate() included.
THEOREM SessionsStayInStep == Spec => []InStep
<1>1. IInv => InStep
  BY DEF IInv
<1> QED
  BY <1>1, SecureHalvesInvariance, PTL

\* Whatever send() loses, ReadHalf::receive() returns the messages of the other end in
\* order, each once, and skips none without an error.
THEOREM NothingIsLostSilently == Spec => []NoSilentLoss
<1>1. IInv => NoSilentLoss
  BY DEF IInv
<1> QED
  BY <1>1, SecureHalvesInvariance, PTL
================================================================================
