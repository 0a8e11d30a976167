------------------------------ MODULE MCReplay ------------------------------
(* Small instances of Replay for TLC. *)
EXTENDS Replay

CONSTANTS r1, r2
=============================================================================
