--------------------------- MODULE MCSyncSchedule ---------------------------
(* Small instances of SyncSchedule for TLC. *)
EXTENDS SyncSchedule

TwoTables == <<"library", "volumes">>
=============================================================================
