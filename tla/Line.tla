-------------------------------- MODULE Line --------------------------------
(***************************************************************************)
(* The serial line between a slave and a master that keeps the rules: the  *)
(* bytes of a frame follow each other without a gap, and the next frame    *)
(* starts only when the slave has nothing left to do for the last one.     *)
(* What the slave reads from the line, and when it is at rest, are for the *)
(* ports of the slave to say.                                              *)
(***************************************************************************)
EXTENDS Rtu

CONSTANT Frames   \* the frames the master sends, good and bad

ASSUME FramesAssumption == Frames \subseteq Seq(Byte) \ {<<>>}

(* A CRC tells the whole of a frame from its parts.  A CRC of 16 bits makes a
   part that passes for a frame unlikely and not impossible; the frames of a
   master are taken to have none. *)
ASSUME NoFrameInsideAFrame ==
    \A f \in Frames : \A i, j \in 1 .. Len(f) :
        j - i + 1 < Len(f) => ~adu_check(SubSeq(f, i, j))

VARIABLES
    frame,    \* the bytes of the master's frame that are still to arrive
    owed,     \* the good frame that pdu_cb has yet to see, or <<>>
    good,     \* the frame sent last is good: whole, in time, with the right CRC
    before    \* the frame sent before that one was good (or there was none)

line == <<frame, owed, good, before>>

LineTypeOK ==
    /\ \E f \in Frames \cup {<<>>} : \E n \in 0 .. Len(f) :
            frame = SubSeq(f, n + 1, Len(f))
    /\ owed \in Frames \cup {<<>>}
    /\ good \in BOOLEAN
    /\ before \in BOOLEAN

LineInit ==
    /\ frame = <<>>
    /\ owed = <<>>
    /\ good = TRUE
    /\ before = TRUE

Good(f) == adu_check(f) /\ Len(f) <= RXBUF_CAPACITY

MasterSends(f) ==
    /\ frame = <<>>
    /\ frame' = f
    /\ good' = Good(f)
    /\ before' = good
    /\ owed' = IF Good(f) THEN f ELSE <<>>

(* A call of modbus_rtu_event, with what it means for the master: a frame that
   passes adu_check is handed to pdu_cb. *)
Event ==
    /\ IF updated THEN modbus_rtu_event ELSE UNCHANGED vars
    /\ owed' = IF FrameConfirmed /\ adu_check(rxbuf) THEN <<>> ELSE owed
    /\ UNCHANGED <<frame, good, before>>

----------------------------------------------------------------------------
(* What pdu_cb gets is the frame the master sent, byte for byte: leftovers of
   a rejected frame, which stay in rxbuf (rtu.c:192-196), and the bytes that
   arrive before modbus_rtu_event has seen the error never reach it. *)
PduCbSeesTheFrame == FrameConfirmed /\ adu_check(rxbuf) => rxbuf = owed

============================================================================
