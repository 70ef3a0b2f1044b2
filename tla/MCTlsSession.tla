----------------------------- MODULE MCTlsSession -----------------------------
(* Model checking of TlsSession: see MCTlsSession.cfg.                       *)
EXTENDS TlsSession

NoneOrServer == {{}, {"server"}}
===============================================================================
