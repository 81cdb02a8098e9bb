---------------------------- MODULE MCDriveBackup ----------------------------
(***************************************************************************)
(* Instances of DriveBackup for TLC.                                       *)
(***************************************************************************)
EXTENDS DriveBackup
CONSTANTS a1, a2, loop, callback
OneArtifact == {a1}
TwoArtifacts == {a1, a2}
OneCallback == {callback}
=============================================================================
