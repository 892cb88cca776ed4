----------------------------- MODULE MCMonitoring -----------------------------
(* Monitoring for TLC: the constants are given in the configuration. *)
EXTENDS Monitoring
=============================================================================
