------------------------------- MODULE MCTunnel -------------------------------
(* Model checking of Tunnel: MCTunnelFaults.cfg (connections fail: safety),  *)
(* MCTunnel.cfg (they do not: liveness), MCTunnelEof.cfg (the end of a       *)
(* stream).                                                                  *)
EXTENDS Tunnel

ThreeAndTwo == [s \in Side |-> IF s = "client" THEN 3 ELSE 2]
OneAndOne == [s \in Side |-> 1]
===============================================================================
