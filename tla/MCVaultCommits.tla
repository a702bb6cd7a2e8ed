--------------------------- MODULE MCVaultCommits ---------------------------
(* Two notes, one of them inside the phone's sync set. *)
EXTENDS VaultCommits
=============================================================================
