----------------------------- MODULE LinuxTimed -----------------------------
(***************************************************************************)
(* The Linux slave in real time.  The thread of LinuxSlave reads a byte    *)
(* not when it arrives but when it gets to it: while a timer runs,         *)
(* tty_read_ll reads what is there and, if there is nothing, sleeps for    *)
(* the whole interval of the timer before it reads again.  The timer       *)
(* functions take the time of the read for that of the byte, and the       *)
(* thread looks at the timer after it has read.                            *)
(*                                                                         *)
(* The clock "loop" is the thread's: what is left of its usleep, or of its *)
(* way back from poll or tty_drain, each later than due by a latency, in   *)
(* which all that the thread computes is included.  Time passes while the  *)
(* thread is blocked, straight to the next end of a byte, of a sleep, of   *)
(* the reply or of the master's patience.                                  *)
(***************************************************************************)
EXTENDS LinuxSlave, TimedLine

vtimed == <<linux, setup, wait>>

(* The options -r, -t and -T of rtu_linux; -1 stands for the timeout of the rate. *)
ASSUME OptionsAssumption ==
    Setups \subseteq [port : {"linux"}, rate : STRING, t1t5 : {-1} \cup (Nat \ {0}),
                      t3t5 : {-1} \cup (Nat \ {0})]

----------------------------------------------------------------------------
(* The timeouts. *)

(* A mutant of calc_1t5_us that goes on dividing at the higher rates. *)
Calc1t5Divides(rate) == 8250000 \div tty_bps(rate)

calc_1t5_us(rate) ==
    IF 19200 > tty_bps(rate) THEN 8250000 \div tty_bps(rate) ELSE 750

calc_3t5_us(rate) ==
    IF 19200 > tty_bps(rate) THEN 19250000 \div tty_bps(rate) ELSE 1750

timeout_1t5_us(s) == IF s.t1t5 = -1 THEN calc_1t5_us(parse_speed(s.rate)) ELSE s.t1t5

timeout_3t5_us(s) == IF s.t3t5 = -1 THEN calc_3t5_us(parse_speed(s.rate)) ELSE s.t3t5

timeout_us(s, interval) ==
    IF interval = "1t5" THEN timeout_1t5_us(s) ELSE timeout_3t5_us(s)

(* What is left of the timer after a step that takes its timestamp_us. *)
Stamped == IF timer' = "off" THEN OFF ELSE timeout_us(setup, timer')

----------------------------------------------------------------------------
(* The clocks have their types, that of the timer and that of the reply run when
   and only when the timer and the transmitter do, and a thread that runs to the
   end of a callback is not asleep. *)
LinuxTimedTypeOK ==
    /\ LinuxTypeOK
    /\ setup \in Setups
    /\ wait \in [Clocks -> {OFF} \cup Nat]
    /\ wait["timer"] = OFF <=> timer = "off"
    /\ wait["reply"] # OFF => sending
    /\ wait["loop"] # OFF => pc \in {"recv_impl", "send_impl"}

(* The slave starts into a silent line. *)
LinuxTimedInit ==
    /\ LinuxInit
    /\ setup \in Setups
    /\ wait = [timer |-> OFF, loop |-> OFF, reply |-> OFF, silence |-> OFF, call |-> OFF,
               byte |-> Space(setup) + ByteTime(setup)]

(* The thread waits in poll for a byte that has not arrived. *)
Polls == pc = "recv_impl" /\ timer = "off" /\ queue = <<>> /\ wait["loop"] = OFF

(* It waits in usleep, poll or tty_drain. *)
Blocked ==
    \/ wait["loop"] # OFF
    \/ Polls
    \/ pc = "send_impl" /\ wait["reply"] # OFF

(* The end of the silence makes nothing happen, and neither does the end of the
   timer's interval. *)
TimePasses ==
    LET next == Min({wait[c] : c \in {k \in {"byte", "loop", "reply", "call"} : wait[k] # OFF}})
    IN  /\ Blocked
        /\ next > 0
        /\ wait' = [c \in Clocks |->
                        IF wait[c] > next THEN wait[c] - next
                        ELSE IF wait[c] = OFF \/ c = "silence" THEN OFF
                        ELSE 0]
        /\ UNCHANGED <<linux, setup>>

LinuxFrameBegins ==
    /\ FrameBegins
    /\ UNCHANGED <<thread, queue, user_event>>

(* The byte wakes a thread that polls, and no other. *)
ByteCompletes ==
    /\ wait["byte"] = 0
    /\ ByteArrives
    /\ \E b \in NextByte, l \in (IF Polls THEN Latencies ELSE {wait["loop"]}) :
            wait' = [wait EXCEPT !["byte"] = b, !["loop"] = l, !["silence"] = Silence(setup)]
    /\ UNCHANGED setup

(* A mutant of Sleeps that sleeps for 3.5t whatever the timer runs for. *)
SleepsFor3t5 ==
    /\ pc = "recv_impl" /\ timer # "off"
    /\ queue = <<>> /\ wait["loop"] = OFF
    /\ \E l \in Latencies :
            wait' = [wait EXCEPT !["loop"] = timeout_3t5_us(setup) + l]
    /\ UNCHANGED <<linux, setup>>

(* The first read of tty_read_ll finds nothing, and usleep is called. *)
Sleeps ==
    /\ pc = "recv_impl" /\ timer # "off"
    /\ queue = <<>> /\ wait["loop"] = OFF
    /\ \E l \in Latencies :
            wait' = [wait EXCEPT !["loop"] = timeout_us(setup, timer) + l]
    /\ UNCHANGED <<linux, setup>>

(* The first read with bytes, or the one after the sleep; or that of tty_read. *)
Reads ==
    /\ wait["loop"] = 0 \/ (wait["loop"] = OFF /\ queue # <<>>)
    /\ recv_impl
    /\ wait' = [wait EXCEPT !["loop"] = OFF]
    /\ UNCHANGED setup

(* The byte is stamped where serial_recv_cb starts or resets the timer. *)
Takes ==
    /\ recv_loop
    /\ wait' = [wait EXCEPT !["timer"] =
                    IF chunk # <<>> /\ curr \in {"IDLE", "SOF", "RECV"} THEN Stamped ELSE @]
    /\ UNCHANGED setup

(* timeout_impl finds the timer stopped, or its interval not over. *)
FindsTimeLeft ==
    /\ not_elapsed
    /\ wait["timer"] # 0
    /\ UNCHANGED <<setup, wait>>

(* It finds the interval over, and the callback may start the next. *)
FindsTimeOver ==
    /\ pc = "timeout_impl"
    /\ wait["timer"] = 0
    /\ timer_silent_interval_cb \/ timer_inter_frame_timeout_cb
    /\ pc' = "modbus_rtu_event"
    /\ caller' = "recv_impl"
    /\ wait' = [wait EXCEPT !["timer"] = IF timer' = timer THEN @ ELSE Stamped]
    /\ UNCHANGED <<line, chunk, queue, user_event, setup>>

(* modbus_rtu_event starts the timer where it restarts the machine, and sends
   a reply to the requests for this slave alone. *)
EventRuns ==
    /\ event
    /\ FrameConfirmed /\ adu_check(rxbuf) => (sending' <=> Answered(rxbuf))
    /\ wait' = [wait EXCEPT
                  !["timer"] = IF updated /\ (error \/ curr = "INIT") THEN Stamped ELSE @,
                  !["reply"] = IF sending' /\ ~sending
                                 THEN Len(txbuf') * ByteTime(setup) ELSE @]
    /\ UNCHANGED setup

(* The last byte of the reply is out: the master has it, and tty_drain returns. *)
ReplyOut ==
    /\ wait["reply"] = 0
    /\ \E l \in Latencies :
            wait' = [wait EXCEPT !["reply"] = OFF, !["call"] = OFF, !["loop"] = l,
                                 !["byte"] = Space(setup) + ByteTime(setup)]
    /\ UNCHANGED <<linux, setup>>

(* send_impl goes on.  (The kernel takes a reply at once, and no write times out.) *)
Drained ==
    /\ wait["loop"] = 0
    /\ send_impl
    /\ pc' # "aborted"
    /\ wait' = [wait EXCEPT !["loop"] = OFF]
    /\ UNCHANGED setup

LinuxTimedNext ==
    \/ TimePasses
    \/ LinuxFrameBegins
    \/ ByteCompletes
    \/ Sleeps
    \/ Reads
    \/ Takes
    \/ FindsTimeLeft
    \/ FindsTimeOver
    \/ EventRuns
    \/ ReplyOut
    \/ Drained

LinuxTimedSpec == LinuxTimedInit /\ [][LinuxTimedNext]_vtimed

----------------------------------------------------------------------------
(* The conditions on the numbers of a setup. *)

(* From the last byte of a frame to the end of the modbus_rtu_event for it: up to
   1.5t until the byte is read, 1.5t and 3.5t from then on, and each time the
   thread may be late. *)
ProcessingTime(s) == 2 * timeout_1t5_us(s) + timeout_3t5_us(s) + 3 * Max(Latencies)

(* There is a byte to read after every sleep while the frame lasts. *)
GapsAreShort(s) == \A gap \in Gaps(s) : ByteTime(s) + gap < timeout_1t5_us(s)

(* The slave is done with a frame before the first byte of the next is complete. *)
SpaceIsLong(s) == ProcessingTime(s) < Space(s) + ByteTime(s)

(* 1.5t and 3.5t of the slave make 3.5 characters. *)
TimersAreLong(s) == Silence(s) <= timeout_1t5_us(s) + timeout_3t5_us(s)

(* The response timeout is longer than request, processing and reply. *)
TimeoutIsLong(s) ==
    \A f \in Frames :
        Answered(f) =>
            ByteTime(s) + (Len(f) - 1) * (ByteTime(s) + Max(Gaps(s)))
                + ProcessingTime(s) + ReplySize * ByteTime(s) < read_impl(s)

============================================================================
