------------------------------- MODULE MCLRUK -------------------------------
(* LRUKReplacer on a few frames. *)
EXTENDS LRUKReplacer

Frames == 0..2

=============================================================================
