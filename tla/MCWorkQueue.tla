----------------------------- MODULE MCWorkQueue -----------------------------
(* WorkQueue as TLC checks it.  Targets are interchangeable, but symmetry  *)
(* is not used: the same run checks liveness.                              *)
EXTENDS WorkQueue
=============================================================================
