-------------------------- MODULE MCChildSupervisor --------------------------
(* The supervisor with two concurrent requests. *)
EXTENDS ChildSupervisor
=============================================================================
