------------------------------ MODULE TimedLine ------------------------------
(***************************************************************************)
(* The line in real time, in microseconds, for the timed models of the     *)
(* ports: the rates, how long a byte takes, when the bytes of the master   *)
(* complete, and how long the Linux master of linux/master_impl.c waits    *)
(* for a reply.                                                            *)
(*                                                                         *)
(* What takes time is a clock that counts down.  The ports say which of    *)
(* their clocks time runs to, and what happens then.                       *)
(***************************************************************************)
EXTENDS Line, FiniteSetsExt

CONSTANTS
    Setups,          \* the slaves: [port], and on Linux the options rate, t1t5 and t3t5
    Gaps(_),         \* the silence the master may leave between two bytes, by setup
    Space(_),        \* the silence the master leaves between two frames, by setup
    Latencies,       \* how late the slave's main loop or thread may run
    TIMEOUT_EXEC_MS  \* the master's timeout_exec_ms

(* The master expects a reply of one size, which it knows from its request. *)
ASSUME OneReplySize ==
    /\ Replies \ {<<>>} # {}
    /\ \A r, s \in Replies \ {<<>>} : Len(r) = Len(s)

(* A line without noise; what the slave makes of other frames is shown by the
   modules of the ports. *)
ASSUME GoodFramesAssumption == \A f \in Frames : Good(f)

VARIABLES
    setup,   \* the port of the slave and its options
    wait     \* what is left on each clock, or OFF

OFF    == -1
Clocks == {"timer", "byte", "loop", "reply", "silence", "call"}

----------------------------------------------------------------------------
(* Rates and durations. *)

tty_bps(rate) ==
    [B1200 |-> 1200, B2400 |-> 2400, B4800 |-> 4800, B9600 |-> 9600, B19200 |-> 19200,
     B38400 |-> 38400, B57600 |-> 57600, B115200 |-> 115200][rate]

(* The option -r of the program; what it does not know, 38400 too, is 19200. *)
parse_speed(str) ==
    CASE str = "1200"   -> "B1200"
      [] str = "2400"   -> "B2400"
      [] str = "4800"   -> "B4800"
      [] str = "9600"   -> "B9600"
      [] str = "57600"  -> "B57600"
      [] str = "115200" -> "B115200"
      [] OTHER          -> "B19200"

(* The microcontrollers run at 19200 bit/s, the Linux slave at what it is told. *)
Bps(s) == IF s.port = "linux" THEN tty_bps(parse_speed(s.rate)) ELSE 19200

(* start bit, eight data bits, parity (or a second stop bit), stop bit *)
ByteTime(s) == 11000000 \div Bps(s)

(* 3.5 characters. *)
Silence(s) == (7 * ByteTime(s)) \div 2

(* A mutant of calc_tmin_ms that counts one bit for a byte. *)
TminOfBits(bps, size) == (size * 1000) \div bps

calc_tmin_ms(bps, size) == (size * 11000) \div bps

calc_tmax_ms(bps, size) == 10 + calc_tmin_ms(bps, size)

(* The size of the reply that the master expects. *)
ReplySize == 2 + Len(CHOOSE r \in Replies : r # <<>>)

(* The response timeout of read_impl, which starts when write_impl returns: the
   kernel has taken the request then, and begins to send it. *)
read_impl(s) == 1000 * (calc_tmax_ms(Bps(s), ReplySize) + TIMEOUT_EXEC_MS)

(* There is a longest gap and latency. *)
HasLongest(S) == \E m \in S : \A t \in S : t <= m

ASSUME TimingAssumption ==
    /\ \A s \in Setups : Gaps(s) \subseteq Nat /\ HasLongest(Gaps(s)) /\ Space(s) \in Nat
    /\ Latencies \subseteq Nat /\ HasLongest(Latencies)
    /\ TIMEOUT_EXEC_MS \in Nat

----------------------------------------------------------------------------
(* The master. *)

(* The addressed slave answers, as rtu_memory_impl_pdu_cb does. *)
Answered(f) == Head(f) = 1

(* The first byte of the master's next frame is about to complete.  A call that
   times out ends the behaviour: what follows from it is shown by MasterLink. *)
FrameBegins ==
    /\ wait["byte"] = 0
    /\ \E f \in Frames :
        /\ MasterSends(f)
        /\ wait' = [wait EXCEPT !["call"] =
                        IF Answered(f) THEN read_impl(setup) - ByteTime(setup) ELSE OFF]
    /\ UNCHANGED <<vars, setup>>

(* After the last byte of a request the master waits for the reply, after any
   other frame it leaves the silence it has to. *)
NextByte ==
    IF Len(frame) > 1
      THEN {ByteTime(setup) + gap : gap \in Gaps(setup)}
      ELSE {IF wait["call"] # OFF THEN OFF ELSE Space(setup) + ByteTime(setup)}

----------------------------------------------------------------------------
(* README.md:13-14: `RTU framing state machine with strict t1.5 / t3.5 timer
   enforcement'.  A frame without gaps longer than the master may leave, and
   with the silence before it that it must leave, is processed before the next
   one begins. *)
ProcessedInTime == (wait["byte"] = 0 \/ wait["call"] = 0) /\ frame = <<>> => owed = <<>>

(* The slave keeps the silence of 3.5 characters after the last byte of a
   request before it answers (rtu.c:69-71). *)
ReplyKeepsSilence == sending => wait["silence"] = OFF

(* The reply is complete before the call of the master times out, although its
   time runs from before the first byte of the request (the transactions do not
   wait for tty_drain): a call fails for a lost or damaged frame only. *)
ReplyComesInTime == wait["call"] # 0

(* On a line that keeps its times no byte meets a state that does not expect
   it: no error is ever flagged. *)
NoErrorOnGoodLine == ~error

============================================================================
