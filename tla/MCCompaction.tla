----------------------------- MODULE MCCompaction -----------------------------
(* Compaction for TLC: the constants are given in the configuration. *)
EXTENDS Compaction
=============================================================================
