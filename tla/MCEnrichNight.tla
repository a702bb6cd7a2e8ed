---------------------------- MODULE MCEnrichNight ----------------------------
(* EnrichNight as TLC checks it: two notes and a free path, one of the     *)
(* notes one no model call answers for.                                    *)
EXTENDS EnrichNight
=============================================================================
