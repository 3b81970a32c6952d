---------------------------- MODULE MCSyncStore ----------------------------
(* Small instances of SyncStore for TLC. *)
EXTENDS SyncStore, TLC
CONSTANTS d1, d2, d3, i1, i2, i3, i4
Perms == Permutations(Device) \cup Permutations(Id)
=============================================================================
