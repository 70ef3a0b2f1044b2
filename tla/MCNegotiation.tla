----------------------------- MODULE MCNegotiation -----------------------------
(* Model checking of Negotiation: MCNegotiation.cfg (two clients).           *)
EXTENDS Negotiation
===============================================================================
