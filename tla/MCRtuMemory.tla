---------------------------- MODULE MCRtuMemory ----------------------------
(***************************************************************************)
(* RtuMemory for TLC: eight addresses, three registers near the end of     *)
(* them, so that addr + num wraps for some reads and others end after the  *)
(* memory without a wrap, one-bit bytes, and limits that fill an ADU.      *)
(***************************************************************************)
EXTENDS RtuMemory

PDU(fcode, addr, num, count, size, data) ==
    [slave |-> SelfAddr, fcode |-> fcode, addr |-> addr, num |-> num, count |-> count,
     size |-> size, data |-> data]

(* Registers 0 and 1, and 2 that does not fit a byte. *)
Values == 0 .. BYTE

MCReads ==
    {PDU(FCODE_RD_HOLDING_REGISTERS, a, n, 0, 5, <<>>) : a \in Word, n \in 0 .. 4}
    \cup {PDU(FCODE_RD_BYTES, a, n, 0, 4, <<>>) : a \in Word, n \in 0 .. 5}

MCWrites ==
    {PDU(FCODE_WR_REGISTER, a, 0, 0, 5, <<v>>) : a \in Word, v \in Values}
    \cup {PDU(FCODE_WR_REGISTERS, a, n, 2 * n, 6 + 2 * n, [i \in 1 .. n |-> v[i]]) :
            a \in Word, n \in 0 .. 2, v \in [1 .. 2 -> Values]}
    \cup {PDU(FCODE_WR_BYTES, a, n, 0, 4 + n, [i \in 1 .. n |-> v[i]]) :
            a \in Word, n \in 0 .. 2, v \in [1 .. 2 -> 0 .. BYTE - 1]}

(* Cut short, of the wrong length, too long, or of an unknown function. *)
MCMalformed ==
    {PDU(f, addr_begin, 1, 2, 3, <<1>>) :
        f \in {FCODE_RD_HOLDING_REGISTERS, FCODE_WR_REGISTER, FCODE_WR_REGISTERS,
               FCODE_RD_BYTES, FCODE_WR_BYTES, 7, 131}}
    \cup {PDU(FCODE_WR_REGISTERS, addr_begin, 1, 2, 5, <<>>),
          PDU(FCODE_WR_REGISTERS, addr_begin, 1, 3, 9, <<1, 1>>),
          PDU(FCODE_WR_REGISTERS, addr_begin, 3, 6, 12, <<1, 1, 1>>),
          PDU(FCODE_WR_BYTES, addr_begin, 1, 0, 6, <<1, 1>>),
          PDU(FCODE_WR_BYTES, addr_begin, 5, 0, 9, <<1, 1, 1, 1, 1>>)}

(* And a write for another slave. *)
MCRequests ==
    MCReads \cup MCWrites \cup MCMalformed
    \cup {[PDU(FCODE_WR_REGISTER, addr_begin, 0, 0, 5, <<1>>) EXCEPT !.slave = SelfAddr + 1]}

============================================================================
