------------------------------ MODULE MCFrames ------------------------------
(***************************************************************************)
(* The line of the slaves for TLC: bytes of two bits, a toy CRC, and seven *)
(* frames: two good ones of different lengths, one with a wrong CRC, the   *)
(* two halves of a good one, a single byte, and one with a right CRC that  *)
(* overruns rxbuf.  As with a real CRC, no part of a frame passes for a    *)
(* frame.                                                                  *)
(***************************************************************************)
EXTENDS Line

MCByte == 0 .. 3

MCReplies == {<<>>, <<1, 2>>}

(* The sum of weight(i) * s[i]. *)
WeightedSum(s, weight(_)) ==
    LET sum[i \in 0 .. Len(s)] ==
            IF i = 0 THEN 0 ELSE sum[i - 1] + weight(i) * s[i]
    IN  sum[Len(s)]

MCCalcCrc(s) ==
    LET Position(i) == i
        One(i)      == 1
    IN  << WeightedSum(s, Position) % 4, (Len(s) + WeightedSum(s, One)) % 4 >>

MCFrameSet ==
    { <<1, 3, 3, 2>>, <<1, 0, 2, 3, 2>>, <<1, 3, 0, 0>>, <<1, 3>>, <<3, 2>>, <<1>>,
      <<1, 0, 0, 0, 0, 1, 2>> }

============================================================================
