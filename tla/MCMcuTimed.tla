----------------------------- MODULE MCMcuTimed -----------------------------
(***************************************************************************)
(* McuTimed for TLC: the three microcontrollers and two good frames, a     *)
(* request to this slave and one to another, sent by a master at the       *)
(* limits of what it may do.                                               *)
(***************************************************************************)
EXTENDS McuTimed, MCFrames

MCGoodFrames == { <<1, 3, 3, 2>>, <<2, 0, 1, 1, 2>> }

(* A reply of ten bytes with its CRC, and none. *)
MCLongReplies == {<<>>, <<1, 2, 0, 3, 1, 2, 0, 3>>}

MCSetups == [port : Ports]

(* No gap, and the longest one that ends before the shortest 1.5t, 750 us. *)
MCGaps(s) == {0, 750 - ByteTime(s) - 1}

(* 3.5 characters. *)
MCSpace(s) == 38500000 \div Bps(s)

MCLatencies == {0, 30}

============================================================================
