----------------------------- MODULE MCCertAttest ------------------------------
(* Model checking of CertAttest: MCCertAttest.cfg (two programs, which the   *)
(* model treats alike).                                                      *)
EXTENDS CertAttest, TLC

ProgramSymmetry == Permutations(Program)
===============================================================================
