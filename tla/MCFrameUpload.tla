--------------------------- MODULE MCFrameUpload ----------------------------
(* Instances of FrameUpload for TLC. *)
EXTENDS FrameUpload, TLC
CONSTANTS f1, f2, f3, r1, r2, w1, w2
OneProcess == r1 :> w1 @@ r2 :> w1
TwoProcesses == r1 :> w1 @@ r2 :> w2
=============================================================================
