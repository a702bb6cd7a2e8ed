------------------------------ MODULE MCDreamRuns ------------------------------
(* DreamRuns as TLC checks it.                                             *)
EXTENDS DreamRuns
===============================================================================
