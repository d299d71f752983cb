---------------------------- MODULE MCVolumeSync ----------------------------
(* Small instances of VolumeSync for TLC. *)
EXTENDS VolumeSync, TLC

CONSTANTS v1, v2, s1, p1, p2

OneSeries == (v1 :> s1) @@ (v2 :> s1)
OneVolume == (v1 :> s1)
=============================================================================
