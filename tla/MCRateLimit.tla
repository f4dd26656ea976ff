---------------------------- MODULE MCRateLimit -----------------------------
(* Instances of RateLimit for TLC. *)
EXTENDS RateLimit, TLC
CONSTANTS w1, w2, d1
=============================================================================
