----------------------------- MODULE MCModelFit -----------------------------
(* Instances of ModelFit for TLC. *)
EXTENDS ModelFit
CONSTANTS w1, w2
=============================================================================
