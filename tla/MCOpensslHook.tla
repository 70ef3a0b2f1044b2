----------------------------- MODULE MCOpensslHook -----------------------------
(* Model checking of OpensslHook: MCOpensslHook.cfg (safety) and             *)
(* MCOpensslHookConnect.cfg (what SSL_connect does).                         *)
EXTENDS OpensslHook
===============================================================================
