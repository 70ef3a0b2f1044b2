---------------------------- MODULE AttestedSession ----------------------------
(***************************************************************************)
(* What negotiate() promises to the programs above it (the contract of     *)
(* GenericSecureTransPort that SpdmRequester and SpdmResponder keep): on   *)
(* each connection the responder has a session first, and only after the   *)
(* requester has checked what its options ask for; the requester has its   *)
(* own behind it; each end has at most one, and the server one at a time.  *)
(* The evidence that counts is that of the connection: it does not change  *)
(* any more once something of it has been checked.                         *)
(***************************************************************************)
CONSTANT Client

VARIABLES
  verifyPeer,  \* does the requester verify its peer?
  genuine,     \* does the evidence shown on a connection verify?
  checked,     \* what the requester has checked: "evidence", "transcript"
  requester,   \* its session: "none", "session", "over"
  responder    \* the same of the other end

vars == <<verifyPeer, genuine, checked, requester, responder>>

Init ==
  /\ verifyPeer \in [Client -> BOOLEAN]
  /\ genuine = [c \in Client |-> FALSE]
  /\ checked = [c \in Client |-> {}]
  /\ requester = [c \in Client |-> "none"]
  /\ responder = [c \in Client |-> "none"]

\* The responder gets evidence for the connection.
Attest(c) ==
  /\ checked[c] = {} /\ requester[c] # "session" /\ responder[c] = "none"
  /\ \E g \in BOOLEAN : genuine' = [genuine EXCEPT ![c] = g]
  /\ UNCHANGED <<verifyPeer, checked, requester, responder>>

\* The requester checks the certificate, or the transcript of the measurements.
Check(c, what) ==
  /\ requester[c] = "none" /\ responder[c] = "none"
  /\ what = "evidence" => genuine[c]
  /\ checked' = [checked EXCEPT ![c] = @ \cup {what}]
  /\ UNCHANGED <<verifyPeer, genuine, requester, responder>>

Satisfied(c) ==
  /\ "transcript" \in checked[c]
  /\ verifyPeer[c] => "evidence" \in checked[c]

\* The responder's negotiate() returns.  The requester may have gone by then.
Establish(c) ==
  /\ responder[c] = "none" /\ requester[c] # "session"
  /\ Satisfied(c)
  /\ \A d \in Client : responder[d] # "session"
  /\ responder' = [responder EXCEPT ![c] = "session"]
  /\ UNCHANGED <<verifyPeer, genuine, checked, requester>>

\* The requester's negotiate() returns.  The responder may have gone by then.
Start(c) ==
  /\ requester[c] = "none" /\ responder[c] # "none"
  /\ requester' = [requester EXCEPT ![c] = "session"]
  /\ UNCHANGED <<verifyPeer, genuine, checked, responder>>

\* A session ends; a requester can also give up without one.
RequesterEnds(c) ==
  /\ requester[c] # "over"
  /\ requester' = [requester EXCEPT ![c] = "over"]
  /\ UNCHANGED <<verifyPeer, genuine, checked, responder>>

ResponderEnds(c) ==
  /\ responder[c] = "session"
  /\ responder' = [responder EXCEPT ![c] = "over"]
  /\ UNCHANGED <<verifyPeer, genuine, checked, requester>>

Next ==
  \E c \in Client :
    \/ Attest(c) \/ \E what \in {"evidence", "transcript"} : Check(c, what)
    \/ Establish(c) \/ Start(c) \/ RequesterEnds(c) \/ ResponderEnds(c)

Spec == Init /\ [][Next]_vars
================================================================================
