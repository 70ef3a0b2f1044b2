--------------------------- MODULE MCRustlsSession ---------------------------
(* Model checking of RustlsSession: see MCRustlsSession.cfg.                *)
EXTENDS RustlsSession

FourAndNone == [client |-> 4, server |-> 0]
==============================================================================
