---------------------------- MODULE MCFramedStream ----------------------------
(* Model checking of FramedStream: see MCFramedStream.cfg.                   *)
EXTENDS FramedStream
===============================================================================
