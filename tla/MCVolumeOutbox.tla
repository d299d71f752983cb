--------------------------- MODULE MCVolumeOutbox ---------------------------
(* Small instances of VolumeOutbox for TLC. *)
EXTENDS VolumeOutbox, TLC

CONSTANTS v1, v2, s1, s2, p1, p2

OneSeries == (v1 :> s1) @@ (v2 :> s1)
OneVolume == (v1 :> s1)
TwoSeries == (v1 :> s1) @@ (v2 :> s2)
VolumeSymmetry == Permutations({v1, v2})
=============================================================================
