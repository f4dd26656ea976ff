----------------------------- MODULE MCScoring ------------------------------
(* Instances of Scoring for TLC. *)
EXTENDS Scoring

\* One impact: without a noise floor, at, above and below the mean ratio; at
\* an unknown speed, below and above the reference speed.
MCRaws ==
    {[magnitude |-> 4, std |-> 0, speed |-> 10], [magnitude |-> 4, std |-> 2, speed |-> Null],
     [magnitude |-> 4, std |-> 2, speed |-> 1], [magnitude |-> 4, std |-> 1, speed |-> 10],
     [magnitude |-> 4, std |-> 3, speed |-> 10]}

\* NULL, impossible, unlikely, likely, certain.
MCVisuals == {Missing, <<0, 1>>, <<1, 3>>, <<3, 1>>, <<1, 0>>}
=============================================================================
