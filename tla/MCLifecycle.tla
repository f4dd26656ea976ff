---------------------------- MODULE MCLifecycle -----------------------------
(* Instances of Lifecycle for TLC. *)
EXTENDS Lifecycle
CONSTANTS w1, w2, fusion, fit, phone, probe
=============================================================================
