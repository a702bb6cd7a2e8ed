------------------------------ MODULE MCDirLock ------------------------------
(* DirLock as TLC checks it: g1, g2 run lock.go, y1, y2, y3 vault_lock.py. *)
EXTENDS DirLock
=============================================================================
