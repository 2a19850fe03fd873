---------------------------- MODULE MCLinuxSlave ----------------------------
(***************************************************************************)
(* LinuxSlave for TLC with the line of MCFrames.                           *)
(***************************************************************************)
EXTENDS LinuxSlave, MCFrames

============================================================================
