----------------------------- MODULE MCMcuSlave -----------------------------
(***************************************************************************)
(* McuSlave for TLC with the line of MCFrames.                             *)
(***************************************************************************)
EXTENDS McuSlave, MCFrames

============================================================================
