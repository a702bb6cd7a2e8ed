---------------------------- MODULE MCDreamJournal ----------------------------
(* DreamJournal as TLC checks it.                                          *)
EXTENDS DreamJournal
===============================================================================
