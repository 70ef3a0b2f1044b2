---------------------------- MODULE PacketChannel ----------------------------
(***************************************************************************)
(* What one direction of a framed byte stream promises to the SPDM code    *)
(* above it (the contract of spdmlib's SpdmDeviceIo as FramedStream keeps  *)
(* it): whole packets, in the order they were sent, none lost and none     *)
(* twice, up to the first packet whose send failed part-way.  After such a *)
(* packet the stream has no frame boundaries to rely on, and the channel   *)
(* promises nothing of what is received next.                              *)
(***************************************************************************)
EXTENDS Naturals, Sequences

VARIABLES
  packets,    \* the packets wholly on the wire before the first torn one
  delivered,  \* the packets receive() has returned, oldest first
  broken      \* has a send left part of a packet on the wire?

vars == <<packets, delivered, broken>>

Init ==
  /\ packets = <<>>
  /\ delivered = <<>>
  /\ broken = FALSE

\* Sequence t is sequence s with one element more.
Grows(s, t) == Len(t) = Len(s) + 1 /\ SubSeq(t, 1, Len(s)) = s

\* A packet is wholly on the wire.  What packets hold does not matter here.
Accept ==
  /\ ~broken
  /\ Grows(packets, packets')
  /\ UNCHANGED <<delivered, broken>>

\* A send fails after part of its packet went out.
Tear ==
  /\ broken' = TRUE
  /\ UNCHANGED <<packets, delivered>>

\* The next whole packet is received.
Deliver ==
  /\ Len(delivered) < Len(packets)
  /\ delivered' = Append(delivered, packets[Len(delivered) + 1])
  /\ UNCHANGED <<packets, broken>>

\* Past the last whole packet of a torn stream anything can come out.
DeliverNoise ==
  /\ broken
  /\ Len(delivered) >= Len(packets)
  /\ Grows(delivered, delivered')
  /\ UNCHANGED <<packets, broken>>

Next == Accept \/ Tear \/ Deliver \/ DeliverNoise

Spec == Init /\ [][Next]_vars
==============================================================================
