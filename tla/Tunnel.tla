-------------------------------- MODULE Tunnel --------------------------------
(***************************************************************************)
(* examples/spdm/src/tunnel/mod.rs: one tunnelled connection.  Each side   *)
(* (tunnel-client, tunnel-server) has a TCP connection to an application   *)
(* (ingress, upstream), the two halves of an SPDM session with the other   *)
(* side, and two detached threads: "out" forwards what the application     *)
(* writes, "in" forwards what the other side sends.  The two programs run  *)
(* the same loops, so one set of actions serves both.                      *)
(*                                                                         *)
(* A direction of the session is the one SecureHalves provides: messages   *)
(* in order, and an error where the stream ends.  Bytes are numbered in    *)
(* the order the application writes them.                                  *)
(*                                                                         *)
(* Each thread owns a clone of the application's TcpStream and one half of *)
(* the session, dropped when it ends.  A connection is closed when its     *)
(* last clone is dropped; no action does it.                               *)
(***************************************************************************)
EXTENDS Naturals, Sequences

CONSTANTS
  BufLen,   \* length of the loops' buffers, 1024 in the code
  MaxBytes, \* bound: bytes an application writes, a function of the side
  ChanCap,  \* bound: messages the session's socket takes
  Faults    \* can connections fail?

Side == {"client", "server"}
Other(s) == IF s = "client" THEN "server" ELSE "client"

ASSUME TunnelAssumption ==
  /\ BufLen \in Nat \ {0} /\ ChanCap \in Nat \ {0}
  /\ MaxBytes \in [Side -> Nat] /\ Faults \in BOOLEAN

VARIABLES
  written,   \* bytes the application has written
  appFin,    \* has the application shut its write side down?
  taken,     \* bytes the out thread has read
  outpc,     \* the out thread: "read", "send", "done"
  outMsg,    \* what it sends
  chan,      \* messages on the way to the other side
  chanFin,   \* WriteHalf::shutdown() was called
  inpc,      \* the in thread: "receive", "write", "done"
  inMsg,     \* what it writes
  got,       \* the bytes written to the application
  appEof     \* the in thread called shutdown(Write) on the application's stream

outVars == <<taken, outpc, outMsg, chanFin>>
inVars  == <<inpc, inMsg, got, appEof>>
vars == <<written, appFin, outVars, chan, inVars>>

Init ==
  /\ written = [s \in Side |-> 0]
  /\ appFin = [s \in Side |-> FALSE]
  /\ taken = [s \in Side |-> 0]
  /\ outpc = [s \in Side |-> "read"]
  /\ outMsg = [s \in Side |-> <<>>]
  /\ chan = [s \in Side |-> <<>>]
  /\ chanFin = [s \in Side |-> FALSE]
  /\ inpc = [s \in Side |-> "receive"]
  /\ inMsg = [s \in Side |-> <<>>]
  /\ got = [s \in Side |-> <<>>]
  /\ appEof = [s \in Side |-> FALSE]

\* Both threads of the side have ended and dropped what they owned.
Closed(s) == outpc[s] = "done" /\ inpc[s] = "done"

\* No more bytes come from s on the session's connection; none to its application.
ChanEnds(s) == chanFin[s] \/ Closed(s)
AppSeesEof(s) == appEof[s] \/ Closed(s)

------------------------------------------------------------------------------
(* The applications.                                                       *)

AppWrite(s) ==
  /\ ~appFin[s] /\ ~Closed(s) /\ written[s] < MaxBytes[s]
  /\ written' = [written EXCEPT ![s] = @ + 1]
  /\ UNCHANGED <<appFin, outVars, chan, inVars>>

AppShutdown(s) ==
  /\ ~appFin[s]
  /\ appFin' = [appFin EXCEPT ![s] = TRUE]
  /\ UNCHANGED <<written, outVars, chan, inVars>>

------------------------------------------------------------------------------
(* The out thread: application to session.                                 *)

OutEnds(s) == outpc' = [outpc EXCEPT ![s] = "done"]

\* Mutant of ReadApp: recv_len == 0 is not looked at.
ReadAppUnchecked(s) ==
  /\ outpc[s] = "read"
  /\ \E n \in 0 .. BufLen :
       /\ taken[s] + n <= written[s]
       /\ outMsg' = [outMsg EXCEPT ![s] = [i \in 1 .. n |-> taken[s] + i]]
       /\ taken' = [taken EXCEPT ![s] = @ + n]
  /\ outpc' = [outpc EXCEPT ![s] = "send"]
  /\ UNCHANGED <<written, appFin, chanFin, chan, inVars>>

ReadApp(s) ==
  /\ outpc[s] = "read"
  /\ \E n \in 1 .. BufLen :
       /\ taken[s] + n <= written[s]
       /\ outMsg' = [outMsg EXCEPT ![s] = [i \in 1 .. n |-> taken[s] + i]]
       /\ taken' = [taken EXCEPT ![s] = @ + n]
  /\ outpc' = [outpc EXCEPT ![s] = "send"]
  /\ UNCHANGED <<written, appFin, chanFin, chan, inVars>>

\* Mutant of ReadEof: the thread just ends.
ReadEofQuietly(s) ==
  /\ outpc[s] = "read" /\ appFin[s] /\ taken[s] = written[s]
  /\ OutEnds(s)
  /\ UNCHANGED <<written, appFin, taken, outMsg, chanFin, chan, inVars>>

\* "Connection closed by ingress" (or by upstream): write_half.shutdown().
ReadEof(s) ==
  /\ outpc[s] = "read" /\ appFin[s] /\ taken[s] = written[s]
  /\ chanFin' = [chanFin EXCEPT ![s] = TRUE]
  /\ OutEnds(s)
  /\ UNCHANGED <<written, appFin, taken, outMsg, chan, inVars>>

SendMsg(s) ==
  /\ outpc[s] = "send" /\ Len(chan[s]) < ChanCap
  /\ chan' = [chan EXCEPT ![s] = Append(@, outMsg[s])]
  /\ outMsg' = [outMsg EXCEPT ![s] = <<>>]
  /\ outpc' = [outpc EXCEPT ![s] = "read"]
  /\ UNCHANGED <<written, appFin, taken, chanFin, inVars>>

\* read() of the application's stream, or send(), fails: `?` ends the thread.
OutFails(s) ==
  /\ Faults /\ outpc[s] # "done"
  /\ OutEnds(s)
  /\ UNCHANGED <<written, appFin, taken, outMsg, chanFin, chan, inVars>>

------------------------------------------------------------------------------
(* The in thread: session to application.                                  *)

InEnds(s) == inpc' = [inpc EXCEPT ![s] = "done"]

\* recv_len == 0 would be an empty message: nobody sends one, and the end of the
\* stream is an error instead.
ReceiveMsg(s) ==
  /\ inpc[s] = "receive" /\ chan[Other(s)] # <<>>
  /\ LET msg == Head(chan[Other(s)])
     IN /\ inMsg' = [inMsg EXCEPT ![s] = msg]
        /\ appEof' = [appEof EXCEPT ![s] = @ \/ msg = <<>>]
        /\ inpc' = [inpc EXCEPT ![s] = IF msg = <<>> THEN "done" ELSE "write"]
  /\ chan' = [chan EXCEPT ![Other(s)] = Tail(@)]
  /\ UNCHANGED <<written, appFin, outVars, got>>

\* Mutant of ReceiveEnd: the application's stream is shut down both ways, which
\* the out thread reads as its end.
ReceiveEndBothWays(s) ==
  /\ inpc[s] = "receive" /\ chan[Other(s)] = <<>> /\ ChanEnds(Other(s))
  /\ InEnds(s)
  /\ chanFin' = [chanFin EXCEPT ![s] = TRUE]
  /\ OutEnds(s)
  /\ UNCHANGED <<written, appFin, taken, outMsg, chan, inMsg, got, appEof>>

\* The other side shut its direction down or closed the connection: receive() is
\* an error (FramedStream's end-of-file), and `?` ends the thread.
ReceiveEnd(s) ==
  /\ inpc[s] = "receive" /\ chan[Other(s)] = <<>> /\ ChanEnds(Other(s))
  /\ InEnds(s)
  /\ UNCHANGED <<written, appFin, outVars, chan, inMsg, got, appEof>>

\* Mutant of WriteAll: one write(), which takes only part of the message.
WriteOnce(s) ==
  /\ inpc[s] = "write"
  /\ got' = [got EXCEPT ![s] = Append(@, Head(inMsg[s]))]
  /\ inMsg' = [inMsg EXCEPT ![s] = <<>>]
  /\ inpc' = [inpc EXCEPT ![s] = "receive"]
  /\ UNCHANGED <<written, appFin, outVars, chan, appEof>>

WriteAll(s) ==
  /\ inpc[s] = "write"
  /\ got' = [got EXCEPT ![s] = @ \o inMsg[s]]
  /\ inMsg' = [inMsg EXCEPT ![s] = <<>>]
  /\ inpc' = [inpc EXCEPT ![s] = "receive"]
  /\ UNCHANGED <<written, appFin, outVars, chan, appEof>>

\* receive() or write_all() fails; write_all() may have written part.
InFails(s) ==
  /\ Faults /\ inpc[s] # "done"
  /\ \E n \in 0 .. Len(inMsg[s]) :
       got' = [got EXCEPT ![s] = @ \o SubSeq(inMsg[s], 1, n)]
  /\ InEnds(s)
  /\ UNCHANGED <<written, appFin, outVars, chan, inMsg, appEof>>

------------------------------------------------------------------------------
Out(s) == ReadApp(s) \/ ReadEof(s) \/ SendMsg(s)
In(s)  == ReceiveMsg(s) \/ ReceiveEnd(s) \/ WriteAll(s)

Next ==
  \E s \in Side :
    \/ AppWrite(s) \/ AppShutdown(s)
    \/ Out(s) \/ OutFails(s) \/ In(s) \/ InFails(s)

Spec == Init /\ [][Next]_vars

\* The threads run; an application need not write or stop writing.
FairSpec == Spec /\ \A s \in Side : WF_vars(Out(s)) /\ WF_vars(In(s))

------------------------------------------------------------------------------
(* Properties.                                                             *)

TypeOK ==
  /\ written \in [Side -> Nat] /\ taken \in [Side -> Nat]
  /\ appFin \in [Side -> BOOLEAN] /\ chanFin \in [Side -> BOOLEAN]
  /\ appEof \in [Side -> BOOLEAN]
  /\ outpc \in [Side -> {"read", "send", "done"}]
  /\ inpc \in [Side -> {"receive", "write", "done"}]
  /\ outMsg \in [Side -> Seq(Nat)] /\ inMsg \in [Side -> Seq(Nat)]
  /\ got \in [Side -> Seq(Nat)]
  /\ chan \in [Side -> Seq(Seq(Nat))]
  /\ \A s \in Side : \A i \in 1 .. Len(chan[s]) : Len(chan[s][i]) \in 1 .. BufLen

\* An application gets the bytes the other one wrote, from the first one on,
\* without a gap, a repetition or a swap, also when a connection fails.
Integrity ==
  \A s \in Side :
    /\ Len(got[s]) <= written[Other(s)]
    /\ \A i \in 1 .. Len(got[s]) : got[s][i] = i

\* Without failures an application reads end-of-file only when the other one has
\* ended its stream and every byte of it has been delivered.
NoEarlyEof ==
  \A s \in Side : ~Faults /\ AppSeesEof(s) =>
    appFin[Other(s)] /\ Len(got[s]) = written[Other(s)]

\* Without failures every byte arrives, also after the application that reads has
\* shut its own write side down (a half-closed connection still carries a reply).
BytesArrive ==
  \A s \in Side : \A n \in 1 .. MaxBytes[s] :
    written[s] >= n ~> Len(got[Other(s)]) >= n

\* Without failures, once both applications have shut down all four threads end.
ThreadsEnd == (\A s \in Side : appFin[s]) ~> (\A s \in Side : Closed(s))

\* What the branches "Connection closed by tunnel-server" and "Connection closed
\* by tunnel-client" are there for: when an application ends its stream, the other
\* one reads end-of-file.  It does not: receive() never returns 0.
EofPropagates == \A s \in Side : appFin[s] ~> AppSeesEof(Other(s))
==============================================================================
