------------------------------ MODULE MCCrc16 ------------------------------
(***************************************************************************)
(* Crc16 for TLC: frames up to the longest ADU of 256 bytes (rtu.h), all   *)
(* of its two-bit errors, and all values of the registers.                 *)
(***************************************************************************)
EXTENDS Crc16

MCNoisyBytes == {0, 165}

============================================================================
