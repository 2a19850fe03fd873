------------------------------ MODULE McuTimed ------------------------------
(***************************************************************************)
(* The slave on a microcontroller in real time: how long the timers of the *)
(* three ports run, and how late modbus_rtu_event runs after an interrupt. *)
(* A byte is received, and a timer expires, in an interrupt handler: at    *)
(* once.                                                                   *)
(*                                                                         *)
(* Time passes straight to the next clock that gets to zero, and what it   *)
(* stands for happens then.  The timer functions start the clock of the    *)
(* timer at the end of a byte, so the interval that a gap must not exceed  *)
(* includes the byte after it.                                             *)
(***************************************************************************)
EXTENDS TimedLine

timed == <<vars, line, setup, wait>>

Ports == {"atmega328p", "stm8s003f3", "stm32f103c8"}

(* The microcontrollers have no options. *)
ASSUME McuAssumption == Setups \subseteq [port : Ports]

----------------------------------------------------------------------------
(* The timers. *)

(* A timer with a compare value of n ticks expires after n or n + 1 of them. *)
Ticks(n, us) == {n * us, (n + 1) * us}

(* A mutant of tmr_start_1t5 with half the prescaler. *)
Tmr1t5HalfPrescaler == Ticks(47, 8)

tmr_start_1t5 == Ticks(47, 16)

(* A mutant of tmr_start_3t5 that counts 3.5 characters of 11 bits. *)
Tmr3t5InCharacters == Ticks(125, 16)

tmr_start_3t5 == Ticks(110, 16)

(* The STM8 has the same clock for its timer and the same values. *)
stm8_tim_start_1t5 == Ticks(47, 16)

stm8_tim_start_3t5 == Ticks(110, 16)

tim_start_1t5 == Ticks(75, 10)

tim_start_3t5 == Ticks(175, 10)

(* The time a timer may run, started for an interval. *)
Duration(s, interval) ==
    CASE s.port = "atmega328p"  -> IF interval = "1t5" THEN tmr_start_1t5 ELSE tmr_start_3t5
      [] s.port = "stm8s003f3"  -> IF interval = "1t5" THEN stm8_tim_start_1t5
                                                       ELSE stm8_tim_start_3t5
      [] s.port = "stm32f103c8" -> IF interval = "1t5" THEN tim_start_1t5 ELSE tim_start_3t5

(* What the clock of the timer shows after a step that starts or resets it. *)
Started == IF timer' = "off" THEN {OFF} ELSE Duration(setup, timer')

(* An interrupt that finds the main loop at rest wakes it. *)
Woken == IF wait["loop"] = OFF THEN Latencies ELSE {wait["loop"]}

----------------------------------------------------------------------------
(* The clocks have their types, and a clock runs when and only when what it
   times does: no timeout of a port stands for a stopped timer. *)
TimedTypeOK ==
    /\ TypeOK
    /\ LineTypeOK
    /\ setup \in Setups
    /\ wait \in [Clocks -> {OFF} \cup Nat]
    /\ wait["timer"] = OFF <=> timer = "off"
    /\ wait["reply"] = OFF <=> ~sending

(* The slave starts into a silent line. *)
TimedInit ==
    /\ Init
    /\ LineInit
    /\ setup \in Setups
    /\ wait = [timer |-> OFF, loop |-> 0, reply |-> OFF, silence |-> OFF, call |-> OFF,
               byte |-> Space(setup) + ByteTime(setup)]

(* Only the end of the silence after a request makes nothing happen. *)
Tick ==
    LET next == Min({wait[c] : c \in {k \in Clocks : wait[k] # OFF}})
    IN  /\ next > 0
        /\ wait' = [c \in Clocks |->
                        IF wait[c] = OFF \/ (c = "silence" /\ wait[c] = next) THEN OFF
                        ELSE wait[c] - next]
        /\ UNCHANGED <<vars, line, setup>>

ByteCompletes ==
    /\ wait["byte"] = 0
    /\ frame # <<>>
    /\ serial_recv_cb(Head(frame))
    /\ frame' = Tail(frame)
    /\ \E t \in (IF curr \in {"IDLE", "SOF", "RECV"} THEN Started ELSE {wait["timer"]}),
          b \in NextByte, l \in Woken :
            wait' = [wait EXCEPT !["timer"] = t, !["byte"] = b, !["loop"] = l,
                                 !["silence"] = Silence(setup)]
    /\ UNCHANGED <<setup, owed, good, before>>

(* The timers of the ports start over when they expire and are not stopped. *)
TimerExpires ==
    /\ wait["timer"] = 0
    /\ timer_silent_interval_cb \/ timer_inter_frame_timeout_cb
    /\ \E t \in Started, l \in Woken :
            wait' = [wait EXCEPT !["timer"] = t, !["loop"] = l]
    /\ UNCHANGED <<line, setup>>

ReplySent ==
    /\ wait["reply"] = 0
    /\ serial_sent_cb
    /\ \E l \in Woken :
            wait' = [wait EXCEPT !["reply"] = OFF, !["loop"] = l, !["call"] = OFF,
                                 !["byte"] = Space(setup) + ByteTime(setup)]
    /\ UNCHANGED <<line, setup>>

(* modbus_rtu_event starts the timer where it restarts the machine, and sends
   a reply to the requests for this slave alone. *)
EventRuns ==
    /\ wait["loop"] = 0
    /\ Event
    /\ FrameConfirmed /\ adu_check(rxbuf) => (sending' <=> Answered(rxbuf))
    /\ \E t \in (IF updated /\ (error \/ curr = "INIT") THEN Started ELSE {wait["timer"]}) :
            wait' = [wait EXCEPT
                        !["loop"] = OFF,
                        !["timer"] = t,
                        !["reply"] = IF sending' /\ ~sending
                                       THEN Len(txbuf') * ByteTime(setup) ELSE @]
    /\ UNCHANGED setup

TimedNext ==
    \/ Tick
    \/ FrameBegins
    \/ ByteCompletes
    \/ TimerExpires
    \/ ReplySent
    \/ EventRuns

TimedSpec == TimedInit /\ [][TimedNext]_timed

----------------------------------------------------------------------------
(* The conditions on the numbers of a setup. *)

Longest(s, interval)  == Max(Duration(s, interval))
Shortest(s, interval) == Min(Duration(s, interval))

(* From the last byte of a frame to the end of the modbus_rtu_event for it. *)
ProcessingTime(s) == Longest(s, "1t5") + Longest(s, "3t5") + Max(Latencies)

(* The timer, which starts over at the end of a byte, outlasts the next one. *)
GapsAreShort(s) == \A gap \in Gaps(s) : ByteTime(s) + gap < Shortest(s, "1t5")

(* The slave is done with a frame before the first byte of the next is complete. *)
SpaceIsLong(s) == ProcessingTime(s) < Space(s) + ByteTime(s)

(* 1.5t and 3.5t of the slave make 3.5 characters. *)
TimersAreLong(s) == Silence(s) <= Shortest(s, "1t5") + Shortest(s, "3t5")

(* The response timeout is longer than request, processing and reply. *)
TimeoutIsLong(s) ==
    \A f \in Frames :
        Answered(f) =>
            ByteTime(s) + (Len(f) - 1) * (ByteTime(s) + Max(Gaps(s)))
                + ProcessingTime(s) + ReplySize * ByteTime(s) < read_impl(s)

(* The main loop has run before the second byte of a frame is complete. *)
LoopIsQuick(s) == Max(Latencies) < ByteTime(s)

----------------------------------------------------------------------------
(* README.md:168-169: suspend_cb is `called on SOF detection'.  A first byte that
   modbus_rtu_event does not see in time is followed by the next, and the
   application is never told of the frame (rtu.c:301-310): in time it is, and it
   is suspended when the frame is handed to pdu_cb. *)
SuspendedForFrame == FrameConfirmed => suspended

============================================================================
