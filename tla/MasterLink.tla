----------------------------- MODULE MasterLink -----------------------------
(***************************************************************************)
(* A Linux master and a slave at the two ends of a serial line: the        *)
(* builders and parsers of master.c, called by the synchronous             *)
(* transactions of linux/master_impl.c or by an application that reads and *)
(* writes the tty itself, as linux/tests/rtu_tests.c does, and the memory  *)
(* handler of RtuMemory.  Both write a request.  A transaction then reads  *)
(* as many bytes as a positive reply has until they are there or the time  *)
(* is over; an application reads what comes until the time is over.        *)
(*                                                                         *)
(* A byte of a reply is known by the reply it is of and by its position.   *)
(* The CRC is ideal: it is right for the bytes of one whole reply, in      *)
(* their order, and for nothing else.                                      *)
(***************************************************************************)
EXTENDS RtuMemory

CONSTANTS
    Calls,     \* what is called: [api, fcode, addr, num, data]
    LATE,      \* a reply may arrive after the master's timeout
    BACKLOG    \* bound: the late bytes on the line when a call begins

ASSUME LinkAssumption == LATE \in BOOLEAN /\ BACKLOG \in Nat

VARIABLES
    pc,      \* the application runs, or waits in a call for its reply
    call,    \* the last call
    inbox,   \* the requests that the slave has yet to handle
    rx,      \* the bytes from the slave that the master has yet to read
    got,     \* the bytes that tty_read has put into the buffer
    result   \* the reply that the last call took for its own, or NoReply: NULL

master == <<pc, call, got, result>>
link   == <<mvars, master, inbox, rx>>

----------------------------------------------------------------------------
(* Builders and parsers. *)

FCODE_RD_COILS == 1
FCODE_WR_COIL  == 5

(* The api of a call: "master_impl" for a transaction, "builders" for an
   application of its own. *)
Transaction(c) == c.api = "master_impl"

(* The size of the PDU of a request. *)
RequestSize(c) ==
    CASE c.fcode = FCODE_RD_BYTES     -> 4
      [] c.fcode = FCODE_WR_REGISTERS -> 6 + 2 * c.num
      [] c.fcode = FCODE_WR_BYTES     -> 4 + c.num
      [] OTHER                        -> 5

(* A mutant of make_request that counts registers instead of bytes. *)
MakeWithRegisterCount(c) ==
    [slave |-> SelfAddr, fcode |-> c.fcode, addr |-> c.addr, num |-> c.num,
     count |-> c.num, data |-> c.data, size |-> RequestSize(c)]

(* What the builders, and the two read transactions, put into a request. *)
make_request(c) ==
    [slave |-> SelfAddr, fcode |-> c.fcode, addr |-> c.addr, num |-> c.num,
     count |-> IF c.fcode = FCODE_WR_REGISTERS THEN 2 * c.num ELSE 0,
     data |-> c.data, size |-> RequestSize(c)]

(* What a caller of the transactions or of the builders can pass: addresses and
   numbers of 16 bits, as many values as it writes, one to a single register or
   coil, and bytes where bytes are written. *)
ASSUME CallsAssumption ==
    /\ Calls # {}
    /\ \A c \in Calls :
        /\ c \in [api : {"master_impl", "builders"},
                  fcode : {FCODE_RD_COILS, FCODE_RD_HOLDING_REGISTERS, FCODE_WR_COIL,
                           FCODE_WR_REGISTER, FCODE_WR_REGISTERS, FCODE_RD_BYTES,
                           FCODE_WR_BYTES},
                  addr : Word, num : Word, data : Seq(Nat)]
        /\ Transaction(c) =>
             c.fcode \in {FCODE_RD_HOLDING_REGISTERS, FCODE_RD_BYTES, FCODE_WR_REGISTERS,
                          FCODE_WR_BYTES}
        /\ c.fcode \in {FCODE_WR_REGISTER, FCODE_WR_COIL} => c.num = 1
        /\ c.fcode \in {FCODE_WR_REGISTER, FCODE_WR_COIL, FCODE_WR_REGISTERS, FCODE_WR_BYTES}
             => Len(c.data) = c.num
        /\ c.fcode = FCODE_WR_BYTES => \A i \in 1 .. c.num : c.data[i] < BYTE
        /\ make_request(c) \in Requests

(* The largest number of values that the builders take.  The transactions
   rtu_master_rd_holding_registers and rtu_master_rd_bytes fill in their
   requests themselves and check nothing. *)
MaxNum(fcode) ==
    CASE fcode \in {FCODE_RD_COILS, FCODE_RD_HOLDING_REGISTERS} -> MAX_RD_REGISTERS
      [] fcode = FCODE_WR_REGISTERS                             -> MAX_WR_REGISTERS
      [] fcode \in {FCODE_RD_BYTES, FCODE_WR_BYTES}             -> MAX_BYTES
      [] fcode \in {FCODE_WR_REGISTER, FCODE_WR_COIL}           -> 1

valid_params(c) ==
    /\ \/ Transaction(c) /\ c.fcode \in {FCODE_RD_HOLDING_REGISTERS, FCODE_RD_BYTES}
       \/ c.num <= MaxNum(c.fcode)
    /\ c.fcode = FCODE_WR_COIL => c.data[1] \in {0, BYTE - 1}
    /\ 1 + RequestSize(c) + 2 <= ADU_CAPACITY

(* A mutant of expected_size without the CRC. *)
SizeWithoutCrc(c) ==
    IF ~Transaction(c) THEN ADU_CAPACITY
    ELSE CASE c.fcode = FCODE_RD_HOLDING_REGISTERS -> 3 + 2 * c.num
           [] c.fcode = FCODE_RD_BYTES             -> 5 + c.num
           [] c.fcode = FCODE_WR_REGISTERS         -> 6
           [] c.fcode = FCODE_WR_BYTES             -> 5

(* The bytes to read: for a transaction those of a positive reply with address
   and CRC, for an application of its own a buffer full. *)
expected_size(c) ==
    IF ~Transaction(c) THEN ADU_CAPACITY
    ELSE CASE c.fcode = FCODE_RD_HOLDING_REGISTERS -> 3 + 2 * c.num + 2
           [] c.fcode = FCODE_RD_BYTES             -> 5 + c.num + 2
           [] c.fcode = FCODE_WR_REGISTERS         -> 8
           [] c.fcode = FCODE_WR_BYTES             -> 7

(* The bytes of a reply on the line, from the slave address to the CRC. *)
Adu(r) == [i \in 1 .. 1 + r.size + 2 |-> [of |-> r, pos |-> i]]

valid_crc(adu) == Len(adu) > 2 /\ adu = Adu(adu[1].of)

(* The third byte of a reply, where the parser of register reads finds the
   number of bytes, an exception its code and the others an address. *)
ThirdByte(r) ==
    CASE r.ecode = "ILLEGAL_FUNCTION"     -> 1
      [] r.ecode = "ILLEGAL_DATA_ADDRESS" -> 2
      [] r.ecode = "ILLEGAL_DATA_VALUE"   -> 3
      [] r.ecode = "FORMAT_ERROR"         -> 128
      [] r.ecode = "none" /\ r.fcode = FCODE_RD_HOLDING_REGISTERS -> 2 * Len(r.data)
      [] r.ecode = "none" /\ r.fcode # FCODE_RD_HOLDING_REGISTERS -> r.echo[1] \div BYTE

(* The fifth byte of a reply that has one before its CRC, where the parser of
   byte reads finds the number of bytes. *)
FifthByte(r) ==
    CASE r.fcode = FCODE_RD_HOLDING_REGISTERS -> r.data[1]
      [] r.fcode \in {FCODE_WR_REGISTER, FCODE_WR_REGISTERS} -> r.echo[2] \div BYTE
      [] r.fcode \in {FCODE_RD_BYTES, FCODE_WR_BYTES} -> r.echo[2]

(* The parsers look at CRC and size, those of reads at the number of bytes in
   the reply too, and none at the slave address or the function code. *)
parse_reply_rd_holding_registers(adu) ==
    /\ 5 <= Len(adu)
    /\ valid_crc(adu)
    /\ 5 + ThirdByte(adu[1].of) = Len(adu)

parse_reply_rd_bytes(adu) ==
    /\ 7 <= Len(adu)
    /\ valid_crc(adu)
    /\ 7 + FifthByte(adu[1].of) = Len(adu)

parse_reply_wr_register(adu) == 8 = Len(adu) /\ valid_crc(adu)

parse_reply_wr_registers(adu) == 8 = Len(adu) /\ valid_crc(adu)

parse_reply_wr_bytes(adu) == 7 = Len(adu) /\ valid_crc(adu)

(* A mutant of parse_reply that takes the size of the reply on trust. *)
ParseWithoutCount(c, adu) == valid_crc(adu)

(* The parser of the call.  There is none for coils. *)
parse_reply(c, adu) ==
    \/ c.fcode = FCODE_RD_HOLDING_REGISTERS /\ parse_reply_rd_holding_registers(adu)
    \/ c.fcode = FCODE_RD_BYTES /\ parse_reply_rd_bytes(adu)
    \/ c.fcode = FCODE_WR_REGISTER /\ parse_reply_wr_register(adu)
    \/ c.fcode = FCODE_WR_REGISTERS /\ parse_reply_wr_registers(adu)
    \/ c.fcode = FCODE_WR_BYTES /\ parse_reply_wr_bytes(adu)

(* Finds the code of an exception; whether it is one, only the size tells. *)
find_ecode(adu) == Len(adu) = 5 /\ valid_crc(adu)

----------------------------------------------------------------------------
LinkInit ==
    /\ MemInit
    /\ pc = "app"
    /\ call = CHOOSE c \in Calls : TRUE
    /\ inbox = <<>>
    /\ rx = <<>>
    /\ got = <<>>
    /\ result = NoReply

(* rtu_master_rd_holding_registers and its three siblings up to read_impl, or
   an application up to its tty_read.  A request that is not written in time
   reaches no slave.  (The bounds: nothing
   waits at the slave, and at most BACKLOG late bytes on the line.) *)
rtu_master(c) ==
    /\ pc = "app"
    /\ inbox = <<>> /\ Len(rx) <= BACKLOG
    /\ call' = c
    /\ result' = NoReply
    /\ \/ /\ valid_params(c)
          /\ pc' = "read_impl"
          /\ inbox' = Append(inbox, make_request(c))
       \/ UNCHANGED <<pc, inbox>>
    /\ UNCHANGED <<mvars, rx, got>>

(* Some of the bytes that are there.  With the last one the call returns what
   the parser makes of them. *)
tty_read ==
    /\ pc = "read_impl"
    /\ \E n \in 1 .. expected_size(call) - Len(got) :
        /\ n <= Len(rx)
        /\ rx' = SubSeq(rx, n + 1, Len(rx))
        /\ LET adu == got \o SubSeq(rx, 1, n)
           IN  \/ /\ Len(adu) < expected_size(call)
                  /\ got' = adu
                  /\ UNCHANGED <<pc, result>>
               \/ /\ Len(adu) = expected_size(call)
                  /\ got' = <<>>
                  /\ pc' = "app"
                  /\ result' = IF parse_reply(call, adu) THEN adu[1].of ELSE NoReply
    /\ UNCHANGED <<mvars, call, inbox>>

(* A mutant of timed_out that gives up only while nothing has been read. *)
TimedOutInSilence ==
    /\ pc = "read_impl" /\ got = <<>>
    /\ LATE \/ (inbox = <<>> /\ rx = <<>>)
    /\ pc' = "app"
    /\ UNCHANGED <<mvars, call, got, result, inbox, rx>>

(* The time is over: a transaction returns NULL and what it has read is gone,
   an application parses what it has.
   Without LATE the timeout is long enough for what the slave has to do and for
   what is on the line. *)
timed_out ==
    /\ pc = "read_impl"
    /\ LATE \/ (inbox = <<>> /\ rx = <<>>)
    /\ pc' = "app"
    /\ got' = <<>>
    /\ result' = IF ~Transaction(call) /\ parse_reply(call, got) THEN got[1].of ELSE NoReply
    /\ UNCHANGED <<mvars, call, inbox, rx>>

(* What the line makes of an ADU: the whole of it, a part, or one byte changed. *)
Received(adu) ==
    {adu}
    \cup {SubSeq(adu, 1, n) : n \in 0 .. Len(adu) - 1}
    \cup {[adu EXCEPT ![i].pos = 0] : i \in DOMAIN adu}

SlaveAnswers ==
    /\ inbox # <<>>
    /\ touched \subseteq Inside
    /\ rtu_memory_impl_pdu_cb(Head(inbox))
    /\ inbox' = Tail(inbox)
    /\ \E adu \in Received(Adu(reply')) : rx' = rx \o adu
    /\ UNCHANGED master

(* The request is damaged on its way, or by a write that a signal interrupts
   (its -1 is added to curr, and a byte is sent twice), or it meets a slave
   that is not in IDLE. *)
SlaveIgnores ==
    /\ inbox # <<>>
    /\ inbox' = Tail(inbox)
    /\ reply' = NoReply
    /\ touched' = {}
    /\ UNCHANGED <<bytes, master, rx>>

LinkNext ==
    \/ \E c \in Calls : rtu_master(c)
    \/ tty_read
    \/ timed_out
    \/ SlaveAnswers
    \/ SlaveIgnores

(* The master's thread runs, time passes and the slave handles what it gets.
   The application need not call. *)
LinkSpec ==
    /\ LinkInit
    /\ [][LinkNext]_link
    /\ WF_link(tty_read)
    /\ WF_link(timed_out)
    /\ WF_link(SlaveAnswers \/ SlaveIgnores)

----------------------------------------------------------------------------
(* The state has its types, the slave's memory included, and a call that still
   reads has yet to read a byte of those that it has asked for. *)
LinkTypeOK ==
    /\ MemTypeOK
    /\ pc \in {"app", "read_impl"}
    /\ call \in Calls
    /\ inbox \in Seq({make_request(c) : c \in Calls})
    /\ \A i \in DOMAIN rx : rx[i].pos \in 0 .. ADU_CAPACITY
    /\ Len(got) < expected_size(call)

(* A transaction reads into an array of ADU_CAPACITY bytes (linux/master_impl.c:58
   and 67) as many bytes as its caller's number asks for, which nobody compares
   with the array.  Where that is more than the array holds, the slave's limits
   save it: there are never more bytes to read than the array has room for. *)
ReadsFitBuffer ==
    pc = "read_impl" =>
        expected_size(call) <= ADU_CAPACITY \/ Len(got) + Len(rx) <= ADU_CAPACITY

(* linux/master_impl.h:18: `return: fail: NULL, success: data + count'.  A call
   that returns success has done what it was asked to: the slave's memory holds
   what was written, and what was read is what the slave's memory holds. *)
SuccessIsReal ==
    pc = "app" /\ result # NoReply =>
        /\ result.ecode = "none"
        /\ result.fcode = call.fcode
        /\ LET memory == [i \in 1 .. call.num |-> bytes[Offset(call.addr, i - 1)]]
           IN  IF call.fcode \in {FCODE_RD_HOLDING_REGISTERS, FCODE_RD_BYTES}
                 THEN result.data = memory
                 ELSE call.data = memory

(* A call leaves nothing behind that the next one would take for its reply:
   what the master expects is as long as what the slave sends, and a shorter
   reply (an exception, or cut on the line) is read until the timeout. *)
NothingLeftBehind == pc = "app" => rx = <<>> /\ inbox = <<>>

(* Builders and handlers agree: the slave answers a request with an exception
   only if the call asked for nothing, for more than a reply holds, for coils, for
   registers that are not there or for a value that does not fit one. *)
LegalCallsAreServed ==
    pc = "read_impl" /\ inbox = <<>> /\ reply.ecode # "none" =>
        \/ call.num = 0 \/ call.num > MaxNum(call.fcode)
        \/ call.fcode \in {FCODE_RD_COILS, FCODE_WR_COIL}
        \/ call.addr < addr_begin \/ call.addr + call.num > addr_end
        \/ \E i \in DOMAIN call.data : call.data[i] >= BYTE

(* A call returns, whatever the slave and the line do. *)
CallReturns == pc = "read_impl" ~> pc = "app"

(* Parsers and handlers agree on the layout of every reply: one that arrives
   whole is taken by the parser of the call exactly if it is positive, and by
   find_ecode exactly if it is an exception. *)
WholeRepliesAreUnderstood ==
    pc = "read_impl" /\ got # <<>> /\ got = Adu(reply) =>
        /\ parse_reply(call, got) <=> reply.ecode = "none"
        /\ find_ecode(got) <=> reply.ecode # "none"

============================================================================
