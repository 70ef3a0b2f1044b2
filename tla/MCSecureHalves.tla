---------------------------- MODULE MCSecureHalves ----------------------------
(* Model checking of SecureHalves: MCSecureHalves.cfg (safety) and           *)
(* MCSecureHalvesLive.cfg (liveness).                                        *)
EXTENDS SecureHalves

OneAndTwo == [p \in Peer |-> IF p = "requester" THEN 1 ELSE 2]
===============================================================================
