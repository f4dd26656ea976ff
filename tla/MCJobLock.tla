------------------------------ MODULE MCJobLock -----------------------------
(* Instances of JobLock for TLC. *)
EXTENDS JobLock
CONSTANTS w1, w2, fusion, cluster, s1, s2
=============================================================================
