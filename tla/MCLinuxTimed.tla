---------------------------- MODULE MCLinuxTimed ----------------------------
(***************************************************************************)
(* LinuxTimed for TLC: two good frames, a request of eight bytes to this   *)
(* slave and one of five to another, sent by a master at the limits of     *)
(* what it may do.                                                         *)
(***************************************************************************)
EXTENDS LinuxTimed, MCFrames

MCGoodFrames == { <<1, 0, 0, 0, 1, 2, 2, 2>>, <<2, 0, 1, 1, 2>> }

(* A reply of ten bytes with its CRC, and none. *)
MCLongReplies == {<<>>, <<1, 2, 0, 3, 1, 2, 0, 3>>}

MCSetup(rate, t1t5, t3t5) == [port |-> "linux", rate |-> rate, t1t5 |-> t1t5, t3t5 |-> t3t5]

(* The default timeouts, longer ones for 9600 bit/s, and the options that
   README.md:369 runs the slave with. *)
MCSetups ==
    {MCSetup(rate, -1, -1) : rate \in {"19200", "38400", "57600", "115200"}}
    \cup {MCSetup("9600", 1800, 2300), MCSetup("19200", 10000, 20000)}

MCDefault == {MCSetup("19200", -1, -1)}

(* 1.5t and 3.5t: the options, or the values for 19200 bit/s and more. *)
MC1t5(s) == IF s.t1t5 = -1 THEN 750 ELSE s.t1t5

MC3t5(s) == IF s.t3t5 = -1 THEN 1750 ELSE s.t3t5

(* No gap, and the longest one that ends before 1.5t, or a millisecond. *)
MCGaps(s) == {0, Min({MC1t5(s) - ByteTime(s) - 1, 1000})}

MCNoGaps(s) == {0}

MCLatencies == {0, 60}

MCNoLatency == {0}

(* As long as the slave needs, and no longer. *)
MCSpace(s) == 2 * MC1t5(s) + MC3t5(s) + 3 * 60 - ByteTime(s) + 1

(* 3.5 characters. *)
MCSilence(s) == 38500000 \div Bps(s)

============================================================================
