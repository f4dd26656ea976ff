---------------------------- MODULE MCFusionJob -----------------------------
(* Instances of FusionJob for TLC. *)
EXTENDS FusionJob, TLC

Row(d, t, p, r) == [device |-> d, ts |-> t, place |-> p, received |-> r]

\* Two observations of device 1: as near in time to frame 1, the later one
\* nearer in place; the later one nearer in time to frame 2 and the other in
\* place.  Frame 3 would match the first one but for its device.
MCObs == 1 :> Row(1, 0, 2, 1) @@ 2 :> Row(1, 4, 1, 3)
MCFrm == 1 :> Row(1, 2, 0, 2) @@ 2 :> Row(1, 3, 3, 1) @@ 3 :> Row(2, 0, 1, 3)
=============================================================================
