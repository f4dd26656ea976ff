---------------------------- MODULE MCClustering ----------------------------
(* Instances of Clustering for TLC. *)
EXTENDS Clustering

Seen(d, t, p, w) == [device |-> d, ts |-> t, place |-> p, weight |-> w]

\* Two spots that are near each other, and one between them that is seen last.
Spots == <<Seen(1, 0, 0, 1), Seen(2, 1, 1, 1), Seen(1, 1, 9, 1), Seen(1, 2, 5, 1)>>

\* One defect, seen before and after a repair.
Defect == <<Seen(1, 0, 0, 1), Seen(2, 0, 2, 1), Seen(2, 2, 1, 1), Seen(1, 2, 3, 1)>>

\* A chain, whose centroid is far from its first members.
Chain == <<Seen(1, 0, 0, 1), Seen(2, 0, 1, 1), Seen(2, 0, 9, 1), Seen(1, 0, 18, 9)>>

\* Two groups whose border points, of great weight, pass each other: both
\* centroids are at 6.
Crossing == <<Seen(1, 0, 0, 1), Seen(1, 0, 0, 1), Seen(1, 0, 4, 1), Seen(1, 0, 7, 20),
              Seen(1, 0, 6, 20), Seen(1, 0, 9, 1), Seen(1, 0, 13, 1), Seen(1, 0, 13, 1)>>
=============================================================================
