-------------------------- MODULE MCProtectedCache --------------------------
(* Small instances of ProtectedCache for TLC. *)
EXTENDS ProtectedCache

DeletedVersions == {1}
NoJsonVersions == {2}
=============================================================================
