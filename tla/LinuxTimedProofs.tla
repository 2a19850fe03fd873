-------------------------- MODULE LinuxTimedProofs --------------------------
(***************************************************************************)
(* TLAPS proofs about LinuxTimed, for any options of the program and a     *)
(* master of any numbers.  Where the slave is done with a frame before the *)
(* next one begins, the timed slave does nothing that LinuxSlave does not  *)
(* do on a line where no frame is torn.  What the bytes, the buffers and   *)
(* the state of the core have to do with each other is thus the invariant  *)
(* of LinuxSlaveProofs, and the invariant here is about the clocks alone.  *)
(***************************************************************************)
EXTENDS LinuxTimed, TimedLineProofs, LinuxSlaveProofs

----------------------------------------------------------------------------
(* The inductive invariant. *)

T1t5 == timeout_1t5_us(setup)
T3t5 == timeout_3t5_us(setup)

(* What the thread is to sleep for. *)
Interval == IF timer = "off" THEN 0 ELSE timeout_us(setup, timer)

(* What is left of a clock; nothing when it does not run. *)
Running(c) == IF wait[c] = OFF THEN 0 ELSE wait[c]

(* Nothing of a frame is on its way. *)
Empty == chunk = <<>> /\ queue = <<>> /\ frame = <<>>

(* There is always a clock for time to run to. *)
MasterWaits == wait["byte"] = OFF => wait["call"] # OFF

ClockTypes ==
    /\ setup \in Setups
    /\ ClocksOK
    /\ MasterWaits
    /\ wait["timer"] = OFF <=> timer = "off"
    /\ wait["reply"] # OFF => sending /\ wait["loop"] = OFF /\ wait["byte"] = OFF
    /\ wait["loop"] # OFF => pc \in {"recv_impl", "send_impl"}

(* The thread sleeps for the interval of its timer, which runs from before the
   sleep, or is woken by a byte.  Awake, it finds the timer as it was started
   or, after a sleep, over. *)
SleepInv ==
    /\ wait["loop"] # OFF =>
            /\ wait["loop"] <= Interval + LatencyMax
            /\ wait["timer"] <= wait["loop"]
            /\ timer = "off" /\ pc = "recv_impl" => queue # <<>>
    /\ wait["loop"] = OFF /\ timer # "off" =>
            \/ wait["timer"] = Interval
            \/ wait["timer"] = 0 /\ pc \in {"recv_loop", "timeout_impl"}

(* While a frame lasts its next byte comes before the thread looks at an elapsed
   timer. *)
FrameInv ==
    /\ frame # <<>> => wait["byte"] # OFF /\ wait["byte"] < T1t5
    /\ curr \in {"SOF", "RECV"} /\ chunk = <<>> /\ (queue # <<>> \/ frame # <<>>) =>
            IF wait["loop"] = OFF THEN wait["timer"] # 0
                                  ELSE queue # <<>> \/ wait["byte"] < wait["loop"]

(* An upper bound of the time that the thread still needs for the frame, or to
   be ready for the next one, once the last byte has arrived. *)
Left ==
    IF chunk # <<>> \/ queue # <<>>
      THEN Running("loop") + T1t5 + T3t5 + 2 * LatencyMax
    ELSE IF curr \in {"SOF", "RECV"}
      THEN IF wait["loop"] # OFF THEN wait["loop"] + T3t5 + LatencyMax
           ELSE IF wait["timer"] = 0 THEN T3t5 + LatencyMax
           ELSE T1t5 + T3t5 + 2 * LatencyMax
    ELSE IF curr = "BUSY" \/ (curr = "INIT" /\ updated)
      THEN Running("loop") + T3t5 + LatencyMax
    ELSE IF curr \in {"EOF", "INIT"}
      THEN IF wait["loop"] # OFF THEN wait["loop"]
           ELSE IF wait["timer"] = 0 THEN 0
           ELSE T3t5 + LatencyMax
    ELSE 0

(* It is done before the next frame begins. *)
SpaceInv == frame = <<>> /\ ~Quiet /\ wait["byte"] # OFF => Left < wait["byte"]

(* A call waits for the answer to the frame that is on its way or in the slave,
   or for the end of the reply, and the master sends nothing else meanwhile. *)
AnswerInv ==
    /\ owed # <<>> => (wait["call"] # OFF <=> Answered(owed))
    /\ owed # <<>> /\ frame = <<>> /\ Answered(owed) => wait["byte"] = OFF
    /\ owed = <<>> /\ wait["call"] # OFF => wait["reply"] # OFF

TimeInv ==
    /\ good = TRUE /\ before = TRUE
    /\ user_event = FALSE /\ pc \notin {"returned", "aborted"}
    /\ ClockTypes /\ SleepInv /\ FrameInv /\ SpaceInv /\ AnswerInv

(* The silence after the last byte is over when the end of the frame is
   confirmed. *)
SilenceInv ==
    /\ wait["silence"] # 0
    /\ wait["silence"] <= Silence(setup)
    /\ curr \in {"SOF", "RECV"} /\ Empty => wait["silence"] <= wait["timer"] + T3t5
    /\ curr = "EOF" => wait["silence"] <= wait["timer"]
    /\ FrameConfirmed \/ curr = "BUSY" => wait["silence"] = OFF

(* What is left on the clock of a call is enough for what is left to do. *)
CallInv ==
    wait["call"] # OFF =>
        /\ frame # <<>> =>
                wait["byte"] + (Len(frame) - 1) * NextByteTime
                    + ProcessingTime(setup) + ReplyTime < wait["call"]
        /\ frame = <<>> /\ owed # <<>> => Left + ReplyTime < wait["call"]
        /\ owed = <<>> => wait["reply"] < wait["call"]

----------------------------------------------------------------------------
(* The numbers of a setup. *)

(* The thread has time to read between two bytes, and between two frames. *)
OnTime == \A s \in Setups : GapsAreShort(s) /\ SpaceIsLong(s)

(* No timeout is zero. *)
LEMMA TimeoutsType ==
  ASSUME NEW s \in Setups
  PROVE  timeout_1t5_us(s) \in Nat \ {0} /\ timeout_3t5_us(s) \in Nat \ {0}
<1> DEFINE bps == tty_bps(parse_speed(s.rate))
<1>1. bps \in Rates
  BY RatesOfStrings
<1>2. calc_1t5_us(parse_speed(s.rate)) \in Nat \ {0} /\ calc_3t5_us(parse_speed(s.rate)) \in Nat \ {0}
  BY <1>1 DEF calc_1t5_us, calc_3t5_us, Rates
<1>3. s.t1t5 \in {-1} \cup (Nat \ {0}) /\ s.t3t5 \in {-1} \cup (Nat \ {0})
  BY OptionsAssumption
<1> HIDE DEF bps
<1> QED
  BY <1>2, <1>3 DEF timeout_1t5_us, timeout_3t5_us

LEMMA Numbers ==
  ASSUME OnTime, setup \in Setups
  PROVE  /\ T1t5 \in Nat /\ T1t5 > 0 /\ T3t5 \in Nat /\ T3t5 > 0
         /\ LatencyMax \in Nat
         /\ ByteTime(setup) \in Nat /\ Space(setup) \in Nat
         /\ Space(setup) + ByteTime(setup) \in Nat
         /\ ProcessingTime(setup) = 2 * T1t5 + T3t5 + 3 * LatencyMax
         /\ 2 * T1t5 + T3t5 + 3 * LatencyMax < Space(setup) + ByteTime(setup)
         /\ \A l \in Latencies : l \in Nat /\ l <= LatencyMax
         /\ \A gap \in Gaps(setup) :
                ByteTime(setup) + gap \in Nat /\ ByteTime(setup) + gap < T1t5
<1>1. T1t5 \in Nat \ {0} /\ T3t5 \in Nat \ {0}
  BY TimeoutsType DEF T1t5, T3t5
<1>2. /\ ByteTime(setup) \in Nat /\ Space(setup) \in Nat /\ LatencyMax \in Nat
      /\ Gaps(setup) \subseteq Nat
      /\ \A l \in Latencies : l \in Nat /\ l <= LatencyMax
  BY ByteTimeType, LongestType
<1>3. ProcessingTime(setup) = 2 * T1t5 + T3t5 + 3 * LatencyMax
  BY DEF ProcessingTime, T1t5, T3t5, LatencyMax
<1>4. ProcessingTime(setup) < Space(setup) + ByteTime(setup)
  BY DEF OnTime, SpaceIsLong
<1>5. \A gap \in Gaps(setup) : ByteTime(setup) + gap < T1t5
  BY DEF OnTime, GapsAreShort, T1t5
<1> QED
  BY <1>1, <1>2, <1>3, <1>4, <1>5

(* The times do not change while the setup does not. *)
LEMMA NumbersKept ==
  ASSUME setup' = setup
  PROVE  /\ T1t5' = T1t5 /\ T3t5' = T3t5 /\ LatencyMax' = LatencyMax
         /\ Silence(setup)' = Silence(setup)
         /\ NextByteTime' = NextByteTime /\ ReplyTime' = ReplyTime
         /\ ProcessingTime(setup)' = ProcessingTime(setup)
  BY DEF T1t5, T3t5, LatencyMax, NextByteTime, ReplyTime, ProcessingTime, Silence

(* The clocks are integers, and OFF is less than any time. *)
LEMMA ClockValues ==
  ASSUME ClocksOK, NEW c \in Clocks
  PROVE  wait[c] \in Int /\ (wait[c] # OFF => wait[c] \in Nat)
  BY DEF ClocksOK, OFF

(* The time left is one. *)
LEMMA LeftType ==
  ASSUME OnTime, ClockTypes
  PROVE  Left \in Nat
<1>1. T1t5 \in Nat /\ T3t5 \in Nat /\ LatencyMax \in Nat
  BY Numbers DEF ClockTypes
<1>2. Running("loop") \in Nat /\ (wait["loop"] # OFF => wait["loop"] \in Nat)
  BY ClockValues DEF ClockTypes, Clocks, Running
<1>3. /\ Running("loop") + T1t5 + T3t5 + 2 * LatencyMax \in Nat
      /\ Running("loop") + T3t5 + LatencyMax \in Nat
      /\ T1t5 + T3t5 + 2 * LatencyMax \in Nat /\ T3t5 + LatencyMax \in Nat /\ 0 \in Nat
  BY <1>1, <1>2
<1>4. wait["loop"] # OFF => wait["loop"] \in Nat /\ wait["loop"] + T3t5 + LatencyMax \in Nat
  BY <1>1, <1>2
<1> QED
  BY <1>3, <1>4 DEF Left

----------------------------------------------------------------------------
(* The state of the slave on a line in time. *)

(* What LinuxInv says when no frame has been torn. *)
LEMMA Structure ==
  ASSUME LinuxInv, TimeInv
  PROVE  /\ error = FALSE /\ curr \in States /\ updated \in BOOLEAN /\ ~Inconsistent
         /\ curr \in {"IDLE", "BUSY"} => timer = "off"
         /\ curr \in {"SOF", "RECV"} => timer = "1t5" /\ timer_cb = "inter"
         /\ curr = "EOF" => timer = "3t5" /\ timer_cb = "silent" /\ prev = "RECV"
         /\ curr = "INIT" => IF timer = "off" THEN updated
                                              ELSE timer = "3t5" /\ timer_cb = "silent"
         /\ pc \in {"modbus_rtu_event", "recv_impl", "recv_loop", "timeout_impl", "send_impl"}
         /\ pc \in {"recv_impl", "recv_loop", "timeout_impl"} => ~updated
         /\ pc \in {"recv_impl", "timeout_impl"} => chunk = <<>>
         /\ sending <=> pc = "send_impl"
         /\ curr = "BUSY" <=> pc = "send_impl"
         /\ curr \in {"INIT", "BUSY"} => owed = <<>> /\ Empty
         /\ curr = "EOF" \/ FrameConfirmed => owed \in Frames /\ Empty
         /\ FrameConfirmed => rxbuf = owed /\ pc = "modbus_rtu_event"
         /\ curr \in {"SOF", "RECV"} => owed \in Frames
         /\ curr = "SOF" => ~Empty
         /\ curr = "IDLE" /\ ~FrameConfirmed =>
                IF owed = <<>> THEN Empty ELSE owed \in Frames /\ ~Empty
<1>1. /\ error \in BOOLEAN /\ curr \in States /\ updated \in BOOLEAN /\ ~Inconsistent
      /\ timer \in {"off", "1t5", "3t5"}
      /\ timer = "1t5" => timer_cb = "inter" /\ curr \in {"SOF", "RECV"}
      /\ timer = "3t5" => timer_cb = "silent"
      /\ curr \in {"IDLE", "BUSY"} => timer = "off"
      /\ curr \in {"SOF", "RECV"} => timer = "1t5"
      /\ curr = "EOF" => timer = "3t5" /\ prev = "RECV"
      /\ curr = "INIT" /\ timer = "off" => updated
  BY DEF LinuxInv, IInv, Control, ControlTypeOK, TimerMatchesState, NeverStuck,
         ChecksNeverFire, TimerExpired, Inconsistent
<1>2. Empty <=> Unread = <<>>
  BY UnreadEmpty DEF LinuxInv, Empty
<1>3. Done \/ Receiving
  BY DEF LinuxInv, Progress, TimeInv, Lost
<1>4. error = FALSE
  BY <1>1, <1>3 DEF Done, Receiving
<1>5. ASSUME Receiving
      PROVE  /\ owed \in Frames /\ owed # <<>>
             /\ curr \in {"IDLE", "SOF", "RECV", "EOF"}
             /\ curr = "EOF" \/ FrameConfirmed => Empty /\ rxbuf = owed
             /\ curr = "SOF" \/ (curr = "IDLE" /\ ~FrameConfirmed) => ~Empty
  <2>1. PICK n \in 0 .. Len(owed) : ReceivedUpTo(n)
    BY <1>5 DEF Receiving
  <2>2. owed \in Frames /\ owed \in Seq(Byte) /\ Len(owed) >= 4 /\ Len(owed) \in Nat /\ owed # <<>>
    BY <1>5, GoodFrame DEF Receiving
  <2>3. Len(Unread) = Len(owed) - n
    BY <2>1, <2>2, RestType DEF ReceivedUpTo
  <2>4. n = Len(owed) => Unread = <<>>
    BY <2>1, <2>2, NoPart DEF ReceivedUpTo
  <2>5. n = Len(owed) => rxbuf = owed
    <3>1. SubSeq(owed, 1, Len(owed)) = owed
      BY <2>2, SubSeqFull
    <3> QED
      BY <2>1, <3>1 DEF ReceivedUpTo, Part
  <2>6. n < Len(owed) => ~Empty
    BY <1>2, <2>2, <2>3, EmptyBuffer
  <2>7. curr \in {"IDLE", "SOF", "RECV", "EOF"}
    BY <2>1 DEF ReceivedUpTo, FrameConfirmed
  <2>8. curr = "EOF" \/ FrameConfirmed => n = Len(owed)
    BY <2>1 DEF ReceivedUpTo, FrameConfirmed
  <2>9. curr = "SOF" \/ (curr = "IDLE" /\ ~FrameConfirmed) => n < Len(owed)
    BY <2>1, <2>2 DEF ReceivedUpTo, FrameConfirmed
  <2> QED
    BY <1>2, <2>2, <2>4, <2>5, <2>6, <2>7, <2>8, <2>9
<1>6. ASSUME Done
      PROVE  owed = <<>> /\ Empty /\ curr \in {"IDLE", "BUSY", "INIT"} /\ ~FrameConfirmed
  BY <1>2, <1>6 DEF Done
<1>7. /\ pc \in {"modbus_rtu_event", "recv_impl", "recv_loop", "timeout_impl", "send_impl"}
      /\ sending <=> pc = "send_impl"
      /\ curr = "BUSY" <=> pc = "send_impl"
      /\ pc \in {"recv_impl", "recv_loop", "timeout_impl"} => ~updated
      /\ pc \in {"recv_impl", "timeout_impl"} => chunk = <<>>
  BY <1>1, <1>4 DEF LinuxInv, ThreadControl, EventsKeepUp, ChunkUsedUp, TimeInv
<1>8. FrameConfirmed => pc = "modbus_rtu_event" /\ curr = "IDLE"
  BY <1>7 DEF FrameConfirmed
<1> QED
  BY <1>1, <1>3, <1>4, <1>5, <1>6, <1>7, <1>8

(* A slave that is not ready needs time before the next frame, which therefore
   begins when it waits for it. *)
LEMMA BeginsWhenQuiet ==
  ASSUME OnTime, TimeInv, wait["byte"] = 0, frame = <<>>
  PROVE  Quiet
<1>1. Left \in Nat
  BY LeftType DEF TimeInv
<1> QED
  BY <1>1 DEF TimeInv, SpaceInv, OFF

(* A timer that is found elapsed ends the frame and tears none. *)
LEMMA ElapsesAfterFrame ==
  ASSUME LinuxInv, TimeInv, pc = "timeout_impl", wait["timer"] = 0
  PROVE  /\ Empty /\ wait["loop"] = OFF
         /\ curr = "RECV" \/ curr = "EOF" \/ curr = "INIT"
<1>1. wait["loop"] = OFF /\ timer # "off"
  BY DEF TimeInv, ClockTypes, OFF
<1>2. chunk = <<>>
  BY Structure
<1>3. curr \in {"SOF", "RECV"} => Empty
  BY <1>1, <1>2 DEF TimeInv, FrameInv, Empty
<1> QED
  BY <1>1, <1>3, Structure DEF States

(* Every step in time is one of LinuxSlave's. *)
LEMMA LinuxTimedStep ==
  ASSUME OnTime, LinuxInv, TimeInv, [LinuxTimedNext]_vtimed
  PROVE  [LinuxNext]_linux
<1>1. CASE TimePasses \/ Sleeps \/ ReplyOut
  BY <1>1 DEF TimePasses, Sleeps, ReplyOut
<1>2. CASE LinuxFrameBegins
  <2>1. wait["byte"] = 0 /\ (\E f \in Frames : MasterSends(f))
        /\ UNCHANGED <<vars, thread, queue, user_event>>
    BY <1>2 DEF LinuxFrameBegins, FrameBegins
  <2>2. Quiet
    BY <2>1, BeginsWhenQuiet DEF MasterSends
  <2>3. LinuxMasterSends
    BY <2>1, <2>2 DEF LinuxMasterSends
  <2> QED
    BY <2>3 DEF LinuxNext
<1>3. CASE ByteCompletes
  BY <1>3 DEF ByteCompletes, LinuxNext
<1>4. CASE Reads \/ Takes \/ FindsTimeLeft \/ EventRuns \/ Drained
  BY <1>4 DEF Reads, Takes, FindsTimeLeft, EventRuns, Drained, LinuxNext, modbus_rtu_run,
              timeout_impl
<1>5. CASE FindsTimeOver
  <2>1. frame = <<>> /\ queue = <<>> /\ good = TRUE
    BY <1>5, ElapsesAfterFrame DEF FindsTimeOver, Empty, TimeInv
  <2>2. elapsed
    BY <1>5, <2>1 DEF FindsTimeOver, elapsed, line
  <2> QED
    BY <2>2 DEF LinuxNext, modbus_rtu_run, timeout_impl
<1>6. CASE UNCHANGED vtimed
  BY <1>6 DEF vtimed
<1> QED
  BY <1>1, <1>2, <1>3, <1>4, <1>5, <1>6 DEF LinuxTimedNext

----------------------------------------------------------------------------
(* Time. *)

(* Time passes by a positive amount that no clock exceeds but those that make
   nothing happen. *)
Passes(d) ==
    /\ \A c \in {"byte", "loop", "reply", "call"} :
            IF wait[c] = OFF THEN wait'[c] = OFF ELSE d <= wait[c] /\ wait'[c] = wait[c] - d
    /\ wait'["timer"] = IF wait["timer"] > d THEN wait["timer"] - d
                        ELSE IF wait["timer"] = OFF THEN OFF ELSE 0
    /\ wait'["silence"] = IF wait["silence"] > d THEN wait["silence"] - d ELSE OFF

LEMMA TimePassesClocks ==
  ASSUME ClockTypes, TimePasses
  PROVE  ClocksOK' /\ \E d \in Nat \ {0} : Passes(d)
<1> DEFINE ends    == {"byte", "loop", "reply", "call"}
           running == {wait[c] : c \in {k \in ends : wait[k] # OFF}}
           d       == Min(running)
<1>1. running \subseteq Nat /\ running # {}
  BY DEF ClockTypes, ClocksOK, MasterWaits, Clocks
<1>2. d \in running /\ \A t \in running : d <= t
  <2> HIDE DEF running
  <2>1. PICK m \in running : \A t \in running : m <= t
    BY <1>1, LeastExists
  <2>2. running \subseteq Int
    BY <1>1
  <2> QED
    BY <2>1, <2>2, MinIsShortest
<1>3. d > 0 /\ d \in Nat
  BY <1>1, <1>2 DEF TimePasses
<1>4. \A c \in ends : wait[c] # OFF => d <= wait[c]
  BY <1>2
<1>5. wait' = [c \in Clocks |->
                  IF wait[c] > d THEN wait[c] - d
                  ELSE IF wait[c] = OFF \/ c = "silence" THEN OFF
                  ELSE 0]
  BY DEF TimePasses
<1> HIDE DEF d, running
<1>6. \A c \in Clocks : wait[c] \in {OFF} \cup Nat
  BY DEF ClockTypes, ClocksOK
<1>7. \A c \in Clocks : wait'[c] = IF wait[c] > d THEN wait[c] - d
                                   ELSE IF wait[c] = OFF \/ c = "silence" THEN OFF
                                   ELSE 0
  BY <1>5
<1>8. ClocksOK'
  <2>1. ASSUME NEW c \in Clocks PROVE wait'[c] \in {OFF} \cup Nat
    BY <1>3, <1>6, <1>7 DEF OFF
  <2> QED
    BY <1>5, <2>1 DEF ClocksOK
<1>9. ends \subseteq Clocks /\ "timer" \in Clocks /\ "silence" \in Clocks
  BY DEF Clocks
<1>10. ASSUME NEW c \in ends
       PROVE  IF wait[c] = OFF THEN wait'[c] = OFF ELSE d <= wait[c] /\ wait'[c] = wait[c] - d
  <2>1. c # "silence" /\ c \in Clocks
    BY <1>9
  <2>2. wait[c] \in {OFF} \cup Nat /\ (wait[c] # OFF => d <= wait[c])
    BY <1>4, <1>6, <2>1
  <2>3. wait'[c] = IF wait[c] > d THEN wait[c] - d ELSE IF wait[c] = OFF THEN OFF ELSE 0
    BY <1>7, <2>1
  <2> QED
    BY <1>3, <2>2, <2>3 DEF OFF
<1>11. wait'["timer"] = IF wait["timer"] > d THEN wait["timer"] - d
                        ELSE IF wait["timer"] = OFF THEN OFF ELSE 0
  BY <1>7, <1>9
<1>12. wait'["silence"] = IF wait["silence"] > d THEN wait["silence"] - d ELSE OFF
  BY <1>7, <1>9
<1>13. Passes(d)
  BY <1>10, <1>11, <1>12 DEF Passes
<1> QED
  BY <1>3, <1>8, <1>13

(* The variables of LinuxSlave, one by one. *)
LEMMA CoreKept ==
  ASSUME UNCHANGED vars
  PROVE  /\ updated' = updated /\ error' = error /\ prev' = prev /\ curr' = curr
         /\ rxbuf' = rxbuf /\ timer' = timer /\ sending' = sending
         /\ FrameConfirmed' = FrameConfirmed
  BY DEF vars, status, platform, FrameConfirmed

LEMMA LinuxKept ==
  ASSUME UNCHANGED linux
  PROVE  /\ UNCHANGED vars
         /\ updated' = updated /\ curr' = curr /\ timer' = timer /\ sending' = sending
         /\ frame' = frame /\ owed' = owed /\ good' = good /\ before' = before
         /\ pc' = pc /\ caller' = caller /\ chunk' = chunk /\ queue' = queue
         /\ user_event' = user_event
         /\ FrameConfirmed' = FrameConfirmed
<1>1. UNCHANGED vars
  BY DEF linux
<1> QED
  BY <1>1, CoreKept DEF linux, line, thread

(* The clocks of a state of the invariant. *)
LEMMA ClocksTyped ==
  ASSUME ClocksOK
  PROVE  \A c \in {"timer", "byte", "loop", "reply", "silence", "call"} :
            wait[c] \in Int /\ (wait[c] # OFF => wait[c] \in Nat)
  BY ClockValues DEF Clocks

(* What is left to do loses the time that passes: the thread sleeps, or it waits
   for the reply or for the next frame. *)
LEMMA TimePassesLeft ==
  ASSUME OnTime, LinuxInv, TimeInv, TimePasses, NEW d \in Nat \ {0}, Passes(d), frame = <<>>
  PROVE  \/ Quiet
         \/ wait["reply"] # OFF
         \/ d <= Left /\ Left' = Left - d
<1>1. UNCHANGED linux /\ setup' = setup /\ Blocked
  BY DEF TimePasses
<1>2. /\ chunk' = chunk /\ queue' = queue /\ curr' = curr /\ updated' = updated
      /\ T1t5' = T1t5 /\ T3t5' = T3t5 /\ LatencyMax' = LatencyMax
  BY <1>1, LinuxKept, NumbersKept
<1>3. T1t5 \in Nat /\ T3t5 \in Nat /\ LatencyMax \in Nat
  BY Numbers DEF TimeInv, ClockTypes
<1>4. CASE wait["loop"] = OFF
  BY <1>1, <1>4, Structure DEF Blocked, Polls, Quiet
<1>5. CASE wait["loop"] # OFF
  <2>1. d <= wait["loop"] /\ wait'["loop"] = wait["loop"] - d /\ wait["loop"] \in Nat
        /\ wait'["loop"] # OFF
    BY <1>5, ClocksTyped DEF Passes, TimeInv, ClockTypes, OFF
  <2>2. Running("loop") = wait["loop"] /\ Running("loop")' = wait["loop"] - d
    BY <1>5, <2>1 DEF Running
  <2>3. pc \in {"recv_impl", "send_impl"}
    BY <1>5 DEF TimeInv, ClockTypes
  <2>4. \/ chunk # <<>> \/ queue # <<>>
        \/ curr \in {"SOF", "RECV"}
        \/ curr = "BUSY"
        \/ curr \in {"EOF", "INIT"} /\ ~updated
    <3>1. CASE pc = "send_impl"
      BY <3>1, Structure
    <3>2. CASE pc = "recv_impl"
      <4>1. ~updated /\ curr \in States
        BY <3>2, Structure
      <4>2. curr = "IDLE" => queue # <<>>
        BY <1>5, <3>2, Structure DEF TimeInv, SleepInv
      <4> QED
        BY <4>1, <4>2 DEF States
    <3> QED
      BY <2>3, <3>1, <3>2
  <2>5. CASE chunk # <<>> \/ queue # <<>>
    <3>1. Left = Running("loop") + T1t5 + T3t5 + 2 * LatencyMax
      BY <2>5 DEF Left
    <3>2. Left' = Running("loop")' + T1t5 + T3t5 + 2 * LatencyMax
      BY <1>2, <2>5 DEF Left
    <3> DEFINE x == wait["loop"]
               a == T1t5
               b == T3t5
               c == 2 * LatencyMax
    <3>3. x \in Nat /\ a \in Nat /\ b \in Nat /\ c \in Nat /\ d <= x
      BY <1>3, <2>1
    <3>4. Left = x + a + b + c /\ Left' = (x - d) + a + b + c
      BY <2>2, <3>1, <3>2
    <3> HIDE DEF x, a, b, c
    <3> QED
      BY <3>3, <3>4
  <2>6. CASE chunk = <<>> /\ queue = <<>> /\ curr \in {"SOF", "RECV"}
    BY <1>2, <1>3, <1>5, <2>1, <2>6 DEF Left
  <2>7. CASE chunk = <<>> /\ queue = <<>> /\ curr = "BUSY"
    BY <1>2, <1>3, <2>1, <2>2, <2>7 DEF Left
  <2>8. CASE chunk = <<>> /\ queue = <<>> /\ curr \in {"EOF", "INIT"} /\ ~updated
    BY <1>2, <1>3, <1>5, <2>1, <2>8 DEF Left
  <2> QED
    BY <2>4, <2>5, <2>6, <2>7, <2>8
<1> QED
  BY <1>4, <1>5

LEMMA TimePassesInv ==
  ASSUME OnTime, LinuxInv, TimeInv, TimePasses
  PROVE  TimeInv'
<1>1. UNCHANGED linux /\ setup' = setup /\ Blocked
  BY DEF TimePasses
<1>2. PICK d \in Nat \ {0} : Passes(d)
  BY TimePassesClocks DEF TimeInv
<1>3. ClocksOK'
  BY TimePassesClocks DEF TimeInv
<1>4. /\ good' = good /\ before' = before /\ user_event' = user_event /\ pc' = pc
      /\ timer' = timer /\ curr' = curr /\ sending' = sending
      /\ frame' = frame /\ owed' = owed /\ chunk' = chunk /\ queue' = queue
      /\ T1t5' = T1t5 /\ T3t5' = T3t5 /\ LatencyMax' = LatencyMax
  BY <1>1, LinuxKept, NumbersKept
<1>5. /\ Interval' = Interval
      /\ Quiet' <=> Quiet
      /\ Answered(owed)' <=> Answered(owed)
  BY <1>1, <1>4 DEF Interval, Quiet, Answered, timeout_us
<1>6. /\ wait["timer"] \in Int /\ (wait["timer"] # OFF => wait["timer"] \in Nat)
      /\ wait["byte"] \in Int /\ (wait["byte"] # OFF => wait["byte"] \in Nat)
      /\ wait["loop"] \in Int /\ (wait["loop"] # OFF => wait["loop"] \in Nat)
  BY ClocksTyped DEF TimeInv, ClockTypes
<1>7. /\ IF wait["byte"] = OFF THEN wait'["byte"] = OFF
                               ELSE d <= wait["byte"] /\ wait'["byte"] = wait["byte"] - d
      /\ IF wait["loop"] = OFF THEN wait'["loop"] = OFF
                               ELSE d <= wait["loop"] /\ wait'["loop"] = wait["loop"] - d
      /\ IF wait["call"] = OFF THEN wait'["call"] = OFF
                               ELSE d <= wait["call"] /\ wait'["call"] = wait["call"] - d
      /\ IF wait["reply"] = OFF THEN wait'["reply"] = OFF
                                ELSE d <= wait["reply"] /\ wait'["reply"] = wait["reply"] - d
  BY <1>2 DEF Passes
<1>8. \A c \in {"byte", "loop", "call", "reply", "timer"} : wait'[c] = OFF <=> wait[c] = OFF
  <2>1. wait["call"] \in Int /\ wait["reply"] \in Int
    BY ClocksTyped DEF TimeInv, ClockTypes
  <2>2. wait'["timer"] = OFF <=> wait["timer"] = OFF
    BY <1>2, <1>6 DEF Passes, OFF
  <2> QED
    BY <1>6, <1>7, <2>1, <2>2 DEF OFF
<1>9. ClockTypes'
  BY <1>1, <1>3, <1>4, <1>8 DEF TimeInv, ClockTypes, MasterWaits
<1>10. SleepInv'
  <2>1. CASE wait["loop"] = OFF
    <3>1. timer = "off"
      BY <1>1, <2>1, Structure DEF Blocked, Polls
    <3> QED
      BY <1>4, <1>8, <2>1, <3>1 DEF SleepInv
  <2>2. CASE wait["loop"] # OFF
    <3>1. /\ wait["loop"] <= Interval + LatencyMax /\ wait["timer"] <= wait["loop"]
          /\ timer = "off" /\ pc = "recv_impl" => queue # <<>>
      BY <2>2 DEF TimeInv, SleepInv
    <3>2. Interval \in Nat /\ LatencyMax \in Nat
      BY Numbers DEF TimeInv, ClockTypes, Interval, timeout_us, T1t5, T3t5
    <3>3. wait'["loop"] <= Interval + LatencyMax
      BY <1>6, <1>7, <2>2, <3>1, <3>2
    <3>4. wait'["timer"] <= wait'["loop"]
      BY <1>2, <1>6, <1>7, <2>2, <3>1 DEF Passes, OFF
    <3> QED
      BY <1>4, <1>5, <1>8, <2>2, <3>1, <3>3, <3>4 DEF SleepInv
  <2> QED
    BY <2>1, <2>2
<1>11. FrameInv'
  <2>1. ASSUME frame # <<>> PROVE wait'["byte"] # OFF /\ wait'["byte"] < T1t5
    <3>1. wait["byte"] # OFF /\ wait["byte"] < T1t5 /\ T1t5 \in Nat
      BY <2>1, Numbers DEF TimeInv, FrameInv, ClockTypes
    <3> QED
      BY <1>6, <1>7, <1>8, <3>1
  <2>2. ASSUME curr \in {"SOF", "RECV"}, chunk = <<>>, queue # <<>> \/ frame # <<>>
        PROVE  wait'["loop"] # OFF /\ (queue # <<>> \/ wait'["byte"] < wait'["loop"])
    <3>1. wait["loop"] # OFF
      BY <1>1, <2>2, Structure DEF Blocked, Polls
    <3>2. queue # <<>> \/ wait["byte"] < wait["loop"]
      BY <2>2, <3>1 DEF TimeInv, FrameInv
    <3>3. queue = <<>> => wait["byte"] # OFF
      BY <2>2 DEF TimeInv, FrameInv
    <3> QED
      BY <1>6, <1>7, <1>8, <3>1, <3>2, <3>3
  <2> QED
    BY <1>4, <2>1, <2>2 DEF FrameInv
<1>12. SpaceInv'
  <2> SUFFICES ASSUME frame = <<>>, ~Quiet, wait["byte"] # OFF PROVE Left' < wait'["byte"]
    BY <1>4, <1>5, <1>8 DEF SpaceInv
  <2>1. wait["reply"] = OFF
    BY DEF TimeInv, ClockTypes
  <2>2. d <= Left /\ Left' = Left - d
    BY <1>2, <2>1, TimePassesLeft
  <2>3. Left < wait["byte"] /\ Left \in Nat
    BY LeftType DEF TimeInv, SpaceInv
  <2> QED
    BY <1>6, <1>7, <2>2, <2>3
<1>13. AnswerInv'
  BY <1>4, <1>5, <1>8 DEF TimeInv, AnswerInv
<1> QED
  BY <1>4, <1>9, <1>10, <1>11, <1>12, <1>13 DEF TimeInv

----------------------------------------------------------------------------
(* The master. *)

(* A slave that waits for a frame is in IDLE and has none. *)
LEMMA QuietIsIdle ==
  ASSUME LinuxInv, TimeInv, Quiet
  PROVE  /\ curr = "IDLE" /\ ~FrameConfirmed /\ ~sending /\ owed = <<>> /\ Empty
         /\ wait["loop"] = OFF /\ wait["reply"] = OFF
<1>1. pc = "recv_impl" /\ timer = "off" /\ queue = <<>> /\ frame = <<>>
  BY DEF Quiet
<1>2. ~updated /\ chunk = <<>> /\ curr \in States /\ curr # "BUSY" /\ ~sending
  BY <1>1, Structure
<1>3. curr = "IDLE"
  BY <1>1, <1>2, Structure DEF States
<1>4. ~FrameConfirmed /\ Empty
  BY <1>1, <1>2 DEF FrameConfirmed, Empty
<1>5. owed = <<>>
  BY <1>3, <1>4, Structure
<1>6. wait["loop"] = OFF /\ wait["reply"] = OFF
  BY <1>1, <1>2 DEF TimeInv, SleepInv, ClockTypes
<1> QED
  BY <1>2, <1>3, <1>4, <1>5, <1>6

LEMMA FrameBeginsInv ==
  ASSUME OnTime, LinuxInv, TimeInv, LinuxFrameBegins
  PROVE  TimeInv'
<1>1. FrameBegins /\ UNCHANGED <<thread, queue, user_event>> /\ UNCHANGED <<vars, setup>>
  BY DEF LinuxFrameBegins, FrameBegins
<1>2. /\ wait["byte"] = 0
      /\ wait'["timer"] = wait["timer"] /\ wait'["byte"] = 0
      /\ wait'["loop"] = wait["loop"] /\ wait'["reply"] = wait["reply"]
      /\ ClocksOK'
  BY <1>1, FrameBeginsClocks DEF TimeInv, ClockTypes
<1>3. PICK f \in Frames :
        /\ MasterSends(f)
        /\ wait'["call"] = IF Answered(f) THEN read_impl(setup) - ByteTime(setup) ELSE OFF
  BY <1>1, FrameBeginsClocks DEF TimeInv, ClockTypes
<1>4. f # <<>> /\ Good(f)
  BY FramesAssumption, GoodFramesAssumption
<1>5. frame = <<>> /\ frame' = f /\ owed' = f /\ good' = TRUE /\ before' = TRUE
  BY <1>3, <1>4 DEF MasterSends, TimeInv
<1>6. Quiet
  BY <1>2, <1>5, BeginsWhenQuiet
<1>7. curr = "IDLE" /\ ~sending /\ wait["loop"] = OFF /\ wait["reply"] = OFF /\ timer = "off"
  BY <1>6, QuietIsIdle DEF Quiet
<1>8. /\ curr' = curr /\ sending' = sending /\ timer' = timer /\ pc' = pc
      /\ user_event' = user_event /\ queue' = queue /\ chunk' = chunk
  BY <1>1, CoreKept DEF thread
<1>9. wait'["call"] # OFF <=> Answered(f)
  <2>1. read_impl(setup) - ByteTime(setup) \in Nat
    BY TimeoutType DEF TimeInv, ClockTypes
  <2> QED
    BY <1>3, <2>1 DEF OFF
<1>10. ClockTypes'
  BY <1>1, <1>2, <1>7, <1>8 DEF TimeInv, ClockTypes, MasterWaits, OFF
<1>11. SleepInv'
  BY <1>2, <1>7, <1>8 DEF SleepInv
<1>12. FrameInv'
  <2>1. 0 < T1t5 /\ T1t5' = T1t5
    BY <1>1, Numbers, NumbersKept DEF TimeInv, ClockTypes
  <2> QED
    BY <1>2, <1>7, <1>8, <2>1 DEF FrameInv, OFF
<1>13. SpaceInv' /\ AnswerInv'
  <2>1. Answered(owed)' <=> Answered(f)
    BY <1>5 DEF Answered
  <2> QED
    BY <1>4, <1>5, <1>9, <2>1 DEF SpaceInv, AnswerInv
<1> QED
  BY <1>5, <1>8, <1>10, <1>11, <1>12, <1>13 DEF TimeInv

(* The clocks after a byte. *)
LEMMA ByteCompletesClocks ==
  ASSUME OnTime, TimeInv, ByteCompletes
  PROVE  /\ ClocksOK'
         /\ wait'["byte"] \in NextByte
         /\ IF Polls THEN wait'["loop"] \in Latencies ELSE wait'["loop"] = wait["loop"]
         /\ wait'["silence"] = Silence(setup)
         /\ \A c \in {"timer", "reply", "call"} : wait'[c] = wait[c]
<1>1. PICK b \in NextByte, l \in (IF Polls THEN Latencies ELSE {wait["loop"]}) :
        wait' = [wait EXCEPT !["byte"] = b, !["loop"] = l, !["silence"] = Silence(setup)]
  BY DEF ByteCompletes
<1>2. b \in {OFF} \cup Nat
  BY Numbers DEF NextByte, TimeInv, ClockTypes
<1>3. l \in {OFF} \cup Nat
  BY Numbers DEF TimeInv, ClockTypes, ClocksOK, Clocks
<1>4. Silence(setup) \in Nat
  BY SilenceType DEF TimeInv, ClockTypes
<1>5. wait \in [Clocks -> {OFF} \cup Nat]
  BY DEF TimeInv, ClockTypes, ClocksOK
<1>6. wait'["byte"] = b /\ wait'["loop"] = l /\ wait'["silence"] = Silence(setup)
      /\ \A c \in {"timer", "reply", "call"} : wait'[c] = wait[c]
  BY <1>1, <1>5 DEF Clocks
<1>7. ClocksOK'
  BY <1>1, <1>2, <1>3, <1>4, <1>5 DEF ClocksOK, Clocks
<1> QED
  BY <1>6, <1>7

(* What the arrival of a byte finds and leaves. *)
LEMMA ByteArrivesEffect ==
  ASSUME LinuxInv, TimeInv, ByteArrives
  PROVE  /\ curr \in {"IDLE", "SOF", "RECV"} /\ ~FrameConfirmed /\ owed # <<>> /\ ~sending
         /\ frame # <<>> /\ Len(frame) \in Nat /\ Len(frame) >= 1
         /\ frame' = <<>> <=> Len(frame) = 1
         /\ Len(frame') = Len(frame) - 1
         /\ queue' # <<>>
         /\ UNCHANGED vars /\ curr' = curr /\ timer' = timer /\ sending' = sending
         /\ pc' = pc /\ chunk' = chunk /\ user_event' = user_event
         /\ owed' = owed /\ good' = good /\ before' = before
<1>1. /\ frame # <<>> /\ frame' = Tail(frame) /\ queue' = Append(queue, Head(frame))
      /\ UNCHANGED vars /\ UNCHANGED <<thread, user_event, owed, good, before>>
  BY DEF ByteArrives
<1>2. frame \in Seq(Byte) /\ queue \in Seq(Byte)
  BY FrameSeq DEF LinuxInv, BytesTypeOK
<1>3. ~Empty
  BY <1>1 DEF Empty
<1>4. curr \in {"IDLE", "SOF", "RECV"} /\ ~FrameConfirmed /\ owed # <<>> /\ ~sending
  <2>1. ~FrameConfirmed /\ curr \notin {"INIT", "BUSY", "EOF"} /\ curr \in States
    BY <1>3, Structure
  <2>2. owed \in Frames \/ owed # <<>>
    BY <1>3, <2>1, Structure DEF States
  <2>3. ~sending
    BY <2>1, Structure
  <2> QED
    BY <2>1, <2>2, <2>3, FramesAssumption DEF States
<1>5. Len(frame) \in Nat /\ Len(frame) >= 1
  BY <1>1, <1>2, EmptySeq
<1>6. Len(frame') = Len(frame) - 1 /\ frame' \in Seq(Byte)
  BY <1>1, <1>2
<1>7. frame' = <<>> <=> Len(frame) = 1
  BY <1>5, <1>6, EmptySeq
<1>8. queue' # <<>>
  BY <1>1, <1>2
<1> QED
  BY <1>1, <1>4, <1>5, <1>6, <1>7, <1>8, CoreKept DEF thread

LEMMA ByteCompletesInv ==
  ASSUME OnTime, LinuxInv, TimeInv, ByteCompletes
  PROVE  TimeInv'
<1>1. ByteArrives /\ setup' = setup
  BY DEF ByteCompletes
<1>2. /\ curr \in {"IDLE", "SOF", "RECV"} /\ owed # <<>> /\ ~sending
      /\ frame # <<>> /\ Len(frame) \in Nat
      /\ frame' = <<>> <=> Len(frame) = 1
      /\ queue' # <<>>
      /\ curr' = curr /\ timer' = timer /\ sending' = sending
      /\ pc' = pc /\ chunk' = chunk /\ user_event' = user_event
      /\ owed' = owed /\ good' = good /\ before' = before
  BY <1>1, ByteArrivesEffect
<1>3. /\ ClocksOK'
      /\ wait'["byte"] \in NextByte
      /\ IF Polls THEN wait'["loop"] \in Latencies ELSE wait'["loop"] = wait["loop"]
      /\ wait'["timer"] = wait["timer"] /\ wait'["reply"] = wait["reply"]
      /\ wait'["call"] = wait["call"]
  BY ByteCompletesClocks
<1>4. /\ T1t5' = T1t5 /\ T3t5' = T3t5 /\ LatencyMax' = LatencyMax
      /\ Interval' = Interval /\ (Answered(owed)' <=> Answered(owed))
  BY <1>1, <1>2, NumbersKept DEF Interval, Answered, timeout_us
<1>5. /\ T1t5 \in Nat /\ T3t5 \in Nat /\ LatencyMax \in Nat
      /\ Space(setup) + ByteTime(setup) \in Nat
      /\ 2 * T1t5 + T3t5 + 3 * LatencyMax < Space(setup) + ByteTime(setup)
      /\ \A l \in Latencies : l \in Nat /\ l <= LatencyMax
      /\ \A gap \in Gaps(setup) :
            ByteTime(setup) + gap \in Nat /\ ByteTime(setup) + gap < T1t5
  BY Numbers DEF TimeInv, ClockTypes
<1>6. /\ Len(frame) > 1 => wait'["byte"] # OFF /\ wait'["byte"] < T1t5
      /\ Len(frame) = 1 /\ wait["call"] # OFF => wait'["byte"] = OFF
      /\ Len(frame) = 1 /\ wait["call"] = OFF =>
            wait'["byte"] = Space(setup) + ByteTime(setup) /\ wait'["byte"] # OFF
  <2>1. CASE Len(frame) > 1
    <3>1. Len(frame) # 1
      <4>1. \A n \in Nat : n > 1 => n # 1
        OBVIOUS
      <4> QED
        BY <1>2, <2>1, <4>1, Zenon
    <3>2. PICK gap \in Gaps(setup) : wait'["byte"] = ByteTime(setup) + gap
      BY <1>3, <2>1 DEF NextByte
    <3>3. wait'["byte"] # OFF /\ wait'["byte"] < T1t5
      BY <1>5, <3>2 DEF OFF
    <3> QED
      BY <3>1, <3>3
  <2>2. CASE Len(frame) = 1
    <3>1. wait'["byte"] = IF wait["call"] # OFF THEN OFF ELSE Space(setup) + ByteTime(setup)
      BY <1>3, <2>2 DEF NextByte
    <3>2. Space(setup) + ByteTime(setup) # OFF
      BY <1>5 DEF OFF
    <3>3. ~(Len(frame) > 1)
      BY <1>2, <2>2
    <3> QED
      BY <2>2, <3>1, <3>2, <3>3
  <2> QED
    <3>1. Len(frame) > 1 \/ Len(frame) = 1
      BY <1>1, ByteArrivesEffect
    <3> QED
      BY <2>1, <2>2, <3>1
<1>7. wait["reply"] = OFF
  BY <1>2 DEF TimeInv, ClockTypes
<1>8. wait["loop"] \in Int /\ (wait["loop"] # OFF => wait["loop"] \in Nat)
  BY ClocksTyped DEF TimeInv, ClockTypes
<1>9. ClockTypes'
  <2>1. wait'["loop"] # OFF => pc' \in {"recv_impl", "send_impl"}
    BY <1>2, <1>3 DEF TimeInv, ClockTypes, Polls
  <2>2. MasterWaits'
    <3>1. Len(frame) > 1 \/ Len(frame) = 1
      BY <1>1, ByteArrivesEffect
    <3> QED
      BY <1>3, <1>6, <3>1 DEF MasterWaits
  <2> QED
    BY <1>1, <1>2, <1>3, <1>7, <2>1, <2>2 DEF TimeInv, ClockTypes
<1>10. SleepInv'
  <2>1. CASE Polls
    <3>1. timer = "off" /\ wait["timer"] = OFF
      BY <2>1 DEF Polls, TimeInv, ClockTypes
    <3>2. wait'["loop"] \in Nat /\ wait'["loop"] <= LatencyMax
      BY <1>3, <1>5, <2>1
    <3>3. wait'["loop"] # OFF /\ Interval = 0 /\ wait'["timer"] <= wait'["loop"]
      BY <1>3, <3>1, <3>2 DEF Interval, OFF
    <3> QED
      BY <1>2, <1>4, <1>5, <3>1, <3>2, <3>3 DEF SleepInv
  <2>2. CASE ~Polls
    BY <1>2, <1>3, <1>4, <2>2 DEF TimeInv, SleepInv
  <2> QED
    BY <2>1, <2>2
<1>11. FrameInv'
  <2>1. ASSUME curr \in {"SOF", "RECV"}, chunk = <<>>, wait'["loop"] = OFF
        PROVE  wait'["timer"] # 0
    <3>1. ~Polls
      BY <2>1, Structure DEF Polls
    <3> QED
      BY <1>2, <1>3, <2>1, <3>1 DEF TimeInv, FrameInv
  <2>2. frame' # <<>> => Len(frame) > 1
    BY <1>2, ByteArrivesEffect, <1>1
  <2> QED
    BY <1>2, <1>4, <1>6, <2>1, <2>2 DEF FrameInv
<1>12. SpaceInv'
  <2> SUFFICES ASSUME frame' = <<>>, wait'["byte"] # OFF PROVE Left' < wait'["byte"]
    BY DEF SpaceInv
  <2>1. wait'["byte"] = Space(setup) + ByteTime(setup)
    BY <1>2, <1>6
  <2>2. Left' = Running("loop")' + T1t5 + T3t5 + 2 * LatencyMax
    BY <1>2, <1>4 DEF Left
  <2>3. Running("loop")' \in Nat /\ Running("loop")' <= T1t5 + LatencyMax
    <3>1. Interval \in Nat /\ Interval <= T1t5
      BY <1>2, <1>5, Structure DEF Interval, timeout_us, T1t5
    <3>2. CASE wait'["loop"] = OFF
      BY <1>5, <3>2 DEF Running
    <3>3. CASE wait'["loop"] # OFF
      <4>1. wait'["loop"] \in Nat
        BY <1>3, <1>5, <1>8, <3>3
      <4>2. wait'["loop"] <= Interval + LatencyMax
        BY <1>4, <1>10, <3>3 DEF SleepInv
      <4>3. Running("loop")' = wait'["loop"]
        BY <3>3 DEF Running
      <4> QED
        BY <1>5, <3>1, <4>1, <4>2, <4>3
    <3> QED
      BY <3>2, <3>3
  <2> QED
    BY <1>5, <2>1, <2>2, <2>3
<1>13. AnswerInv'
  <2>1. wait["call"] # OFF <=> Answered(owed)
    BY <1>2 DEF TimeInv, AnswerInv
  <2>2. frame' = <<>> /\ Answered(owed) => wait'["byte"] = OFF
    BY <1>2, <1>6, <2>1
  <2> QED
    BY <1>2, <1>3, <1>4, <2>1, <2>2 DEF AnswerInv
<1> QED
  BY <1>2, <1>9, <1>10, <1>11, <1>12, <1>13 DEF TimeInv

----------------------------------------------------------------------------
(* The thread. *)

(* One clock is set. *)
LEMMA OneClock ==
  ASSUME ClocksOK, NEW k \in Clocks, NEW x \in {OFF} \cup Nat, wait' = [wait EXCEPT ![k] = x]
  PROVE  ClocksOK' /\ wait'[k] = x /\ \A c \in Clocks \ {k} : wait'[c] = wait[c]
  BY DEF ClocksOK

(* No step of the thread makes more of what is left to do. *)
LeftNotMore == owed' = owed => Left' \in Int /\ Left' <= Left

(* The thread goes on without time that passes: less or as much is left to do. *)
LEMMA SpaceKept ==
  ASSUME OnTime, TimeInv, ~Quiet, frame' = frame, wait'["byte"] = wait["byte"],
         Left' \in Int, Left' <= Left
  PROVE  SpaceInv'
<1> SUFFICES ASSUME frame = <<>>, wait["byte"] # OFF PROVE Left' < wait["byte"]
  BY DEF SpaceInv
<1>1. Left < wait["byte"]
  BY DEF TimeInv, SpaceInv
<1>2. Left \in Nat /\ wait["byte"] \in Int
  BY LeftType, ClocksTyped DEF TimeInv, ClockTypes
<1> QED
  BY <1>1, <1>2

(* A thread that sleeps or is about to is in recv_impl, and no reply is out. *)
LEMMA AwakeThread ==
  ASSUME LinuxInv, TimeInv
  PROVE  /\ pc # "send_impl" => wait["reply"] = OFF
         /\ pc \notin {"recv_impl", "send_impl"} => wait["loop"] = OFF
         /\ wait["timer"] \in Int /\ wait["loop"] \in Int /\ wait["byte"] \in Int
         /\ wait["timer"] # OFF => wait["timer"] \in Nat
         /\ wait["loop"] # OFF => wait["loop"] \in Nat
         /\ wait["byte"] # OFF => wait["byte"] \in Nat
<1>1. pc # "send_impl" => ~sending
  BY Structure
<1> QED
  BY <1>1, ClocksTyped DEF TimeInv, ClockTypes

LEMMA SleepsInv ==
  ASSUME OnTime, LinuxInv, TimeInv, Sleeps
  PROVE  TimeInv' /\ LeftNotMore
<1>1. /\ pc = "recv_impl" /\ timer # "off" /\ queue = <<>> /\ wait["loop"] = OFF
      /\ UNCHANGED linux /\ setup' = setup
  BY DEF Sleeps
<1>2. PICK l \in Latencies : wait' = [wait EXCEPT !["loop"] = timeout_us(setup, timer) + l]
  BY DEF Sleeps
<1>3. /\ T1t5 \in Nat /\ T3t5 \in Nat /\ T1t5 > 0 /\ T3t5 > 0 /\ LatencyMax \in Nat
      /\ l \in Nat /\ l <= LatencyMax
  BY Numbers DEF TimeInv, ClockTypes
<1>4. /\ Interval = timeout_us(setup, timer) /\ Interval \in Nat /\ Interval > 0
      /\ timer = "1t5" => Interval = T1t5
      /\ timer # "1t5" => Interval = T3t5
  BY <1>1, <1>3 DEF Interval, timeout_us, T1t5, T3t5
<1>5. Interval + l \in Nat
  BY <1>3, <1>4
<1>6. /\ ClocksOK' /\ wait'["loop"] = Interval + l
      /\ \A c \in {"timer", "byte", "reply", "call"} : wait'[c] = wait[c]
  <2>1. ClocksOK /\ "loop" \in Clocks
    BY DEF TimeInv, ClockTypes, Clocks
  <2>2. wait' = [wait EXCEPT !["loop"] = Interval + l]
    BY <1>2, <1>4
  <2> HIDE DEF Clocks
  <2>3. ClocksOK' /\ wait'["loop"] = Interval + l
        /\ \A c \in Clocks \ {"loop"} : wait'[c] = wait[c]
    BY <1>5, <2>1, <2>2, OneClock
  <2> QED
    BY <2>3 DEF Clocks
<1>7. /\ good' = good /\ before' = before /\ user_event' = user_event /\ pc' = pc
      /\ timer' = timer /\ curr' = curr /\ sending' = sending /\ updated' = updated
      /\ frame' = frame /\ owed' = owed /\ chunk' = chunk /\ queue' = queue
      /\ T1t5' = T1t5 /\ T3t5' = T3t5 /\ LatencyMax' = LatencyMax
  BY <1>1, LinuxKept, NumbersKept
<1>8. Interval' = Interval /\ (Answered(owed)' <=> Answered(owed))
  BY <1>1, <1>7 DEF Interval, Answered, timeout_us
<1>9. wait'["loop"] # OFF
  BY <1>5, <1>6 DEF OFF
<1>10. chunk = <<>> /\ curr \in States /\ ~updated /\ curr # "BUSY" /\ curr # "IDLE"
       /\ wait["reply"] = OFF /\ (curr \in {"SOF", "RECV"} <=> timer = "1t5")
  BY <1>1, Structure, AwakeThread DEF States
<1>11. wait["timer"] = Interval
  BY <1>1 DEF TimeInv, SleepInv
<1>12. ClockTypes'
  BY <1>1, <1>6, <1>7, <1>10 DEF TimeInv, ClockTypes, MasterWaits
<1>13. SleepInv'
  BY <1>1, <1>3, <1>4, <1>6, <1>7, <1>8, <1>9, <1>11 DEF SleepInv
<1>14. FrameInv'
  <2>1. ASSUME frame # <<>> PROVE wait["byte"] # OFF /\ wait["byte"] < T1t5
    BY <2>1 DEF TimeInv, FrameInv
  <2>2. ASSUME frame # <<>>, curr \in {"SOF", "RECV"} PROVE wait["byte"] < Interval + l
    BY <1>3, <1>4, <1>10, <2>1, <2>2, AwakeThread
  <2> QED
    BY <1>1, <1>6, <1>7, <1>9, <2>1, <2>2 DEF FrameInv
<1>15. SpaceInv' /\ Left' \in Int /\ Left' <= Left
  <2>1. Left' \in Int /\ Left' <= Left
    <3>1. CASE curr \in {"SOF", "RECV"}
      BY <1>1, <1>3, <1>4, <1>6, <1>7, <1>9, <1>10, <1>11, <3>1 DEF Left
    <3>2. CASE curr \in {"EOF", "INIT"}
      BY <1>1, <1>3, <1>4, <1>6, <1>7, <1>9, <1>10, <1>11, <3>2 DEF Left
    <3> QED
      BY <1>10, <3>1, <3>2 DEF States
  <2>2. ~Quiet
    BY <1>1 DEF Quiet
  <2> QED
    BY <1>6, <1>7, <2>1, <2>2, SpaceKept
<1>16. AnswerInv'
  BY <1>6, <1>7, <1>8 DEF TimeInv, AnswerInv
<1> QED
  BY <1>7, <1>12, <1>13, <1>14, <1>15, <1>16 DEF TimeInv, LeftNotMore

(* What read() returns. *)
LEMMA FetchEffect ==
  ASSUME LinuxInv, Fetch
  PROVE  /\ queue = <<>> => chunk' = <<>> /\ queue' = <<>>
         /\ queue # <<>> => chunk' # <<>>
<1> DEFINE n == IF Len(queue) < READ_CAPACITY THEN Len(queue) ELSE READ_CAPACITY
<1>1. queue \in Seq(Byte) /\ READ_CAPACITY \in Nat \ {0} /\ Len(queue) \in Nat
  BY ReadAssumption DEF LinuxInv, BytesTypeOK
<1>2. chunk' = SubSeq(queue, 1, n) /\ queue' = SubSeq(queue, n + 1, Len(queue))
  BY DEF Fetch
<1>3. CASE queue = <<>>
  <2>1. Len(queue) = 0 /\ n = 0
    BY <1>1, <1>3, EmptyBuffer
  <2> QED
    BY <1>2, <1>3, <2>1, SubSeqEmpty
<1>4. CASE queue # <<>>
  <2>1. n \in 1 .. Len(queue)
    BY <1>1, <1>4, EmptySeq
  <2>2. Len(SubSeq(queue, 1, n)) = n
    BY <1>1, <2>1, SubSeqProperties
  <2> HIDE DEF n
  <2> QED
    BY <1>2, <1>4, <2>1, <2>2, EmptyBuffer
<1> QED
  BY <1>3, <1>4

LEMMA ReadsInv ==
  ASSUME OnTime, LinuxInv, TimeInv, Reads
  PROVE  TimeInv' /\ LeftNotMore
<1>1. /\ wait["loop"] = 0 \/ (wait["loop"] = OFF /\ queue # <<>>)
      /\ recv_impl /\ wait' = [wait EXCEPT !["loop"] = OFF] /\ setup' = setup
  BY DEF Reads
<1>2. pc = "recv_impl" /\ UNCHANGED vars /\ UNCHANGED <<line, caller, user_event>>
      /\ Fetch /\ pc' = "recv_loop"
  BY <1>1 DEF recv_impl, tty_read, tty_read_ll, Fetch, TimeInv
<1>3. /\ good' = good /\ before' = before /\ user_event' = user_event
      /\ timer' = timer /\ curr' = curr /\ sending' = sending /\ updated' = updated
      /\ frame' = frame /\ owed' = owed
      /\ T1t5' = T1t5 /\ T3t5' = T3t5 /\ LatencyMax' = LatencyMax
  BY <1>1, <1>2, CoreKept, NumbersKept DEF line
<1>4. Interval' = Interval /\ (Answered(owed)' <=> Answered(owed))
  BY <1>1, <1>3 DEF Interval, Answered, timeout_us
<1>5. /\ queue = <<>> => chunk' = <<>> /\ queue' = <<>>
      /\ queue # <<>> => chunk' # <<>>
  BY <1>2, FetchEffect
<1>6. /\ ClocksOK' /\ wait'["loop"] = OFF
      /\ \A c \in {"timer", "byte", "reply", "call"} : wait'[c] = wait[c]
  <2>1. ClocksOK /\ "loop" \in Clocks
    BY DEF TimeInv, ClockTypes, Clocks
  <2> HIDE DEF Clocks
  <2>2. ClocksOK' /\ wait'["loop"] = OFF /\ \A c \in Clocks \ {"loop"} : wait'[c] = wait[c]
    BY <1>1, <2>1, OneClock
  <2> QED
    BY <2>2 DEF Clocks
<1>7. /\ chunk = <<>> /\ curr \in States /\ ~updated /\ curr # "BUSY" /\ wait["reply"] = OFF
      /\ curr \in {"SOF", "RECV"} => timer # "off"
  BY <1>2, Structure, AwakeThread
<1>8. /\ T1t5 \in Nat /\ T3t5 \in Nat /\ LatencyMax \in Nat
  BY Numbers DEF TimeInv, ClockTypes
<1>9. ASSUME wait["loop"] = 0
      PROVE  wait["loop"] # OFF /\ (timer # "off" => wait["timer"] = 0)
             /\ (timer = "off" => queue # <<>>)
  <2>1. wait["loop"] # OFF
    BY <1>9 DEF OFF
  <2>2. wait["timer"] <= 0 /\ (timer = "off" => queue # <<>>)
    BY <1>2, <1>9, <2>1 DEF TimeInv, SleepInv
  <2>3. timer # "off" => wait["timer"] \in Nat
    BY AwakeThread DEF TimeInv, ClockTypes
  <2> QED
    BY <2>1, <2>2, <2>3
<1>10. queue = <<>> => wait["loop"] = 0 /\ wait["loop"] # OFF
  BY <1>1, <1>9
<1>11. ClockTypes'
  BY <1>1, <1>3, <1>6, <1>7 DEF TimeInv, ClockTypes, MasterWaits
<1>12. SleepInv'
  <2>1. CASE wait["loop"] = 0
    BY <1>2, <1>3, <1>6, <1>9, <2>1 DEF SleepInv
  <2>2. CASE wait["loop"] = OFF
    BY <1>2, <1>3, <1>4, <1>6, <2>2 DEF TimeInv, SleepInv
  <2> QED
    BY <1>1, <2>1, <2>2
<1>13. FrameInv'
  <2>1. ASSUME curr \in {"SOF", "RECV"}, queue = <<>> PROVE frame = <<>>
    <3> SUFFICES ASSUME frame # <<>> PROVE FALSE
      OBVIOUS
    <3>1. wait["byte"] # OFF /\ wait["byte"] < wait["loop"]
      BY <1>7, <1>10, <2>1 DEF TimeInv, FrameInv
    <3>2. wait["byte"] \in Nat /\ wait["loop"] = 0
      BY <1>10, <2>1, <3>1, AwakeThread
    <3> QED
      BY <3>1, <3>2
  <2>2. frame # <<>> => wait["byte"] # OFF /\ wait["byte"] < T1t5
    BY DEF TimeInv, FrameInv
  <2> QED
    BY <1>3, <1>5, <1>6, <2>1, <2>2 DEF FrameInv
<1>14. SpaceInv' /\ Left' \in Int /\ Left' <= Left
  <2>1. Running("loop") = 0 /\ Running("loop")' = 0
    BY <1>1, <1>6 DEF Running
  <2>2. Left' \in Int /\ Left' <= Left
    <3>1. CASE queue # <<>>
      <4>1. Left = Running("loop") + T1t5 + T3t5 + 2 * LatencyMax
        BY <3>1 DEF Left
      <4>2. Left' = Running("loop")' + T1t5 + T3t5 + 2 * LatencyMax
        BY <1>3, <1>5, <3>1 DEF Left
      <4> QED
        BY <1>8, <2>1, <4>1, <4>2
    <3>2. CASE queue = <<>>
      <4>1. wait["timer"] = 0 /\ timer # "off" /\ wait["loop"] = 0 /\ wait["loop"] # OFF
        BY <1>9, <1>10, <3>2
      <4>2. CASE curr \in {"SOF", "RECV"}
        BY <1>3, <1>5, <1>6, <1>7, <1>8, <3>2, <4>1, <4>2 DEF Left
      <4>3. CASE curr \in {"EOF", "INIT"}
        BY <1>3, <1>5, <1>6, <1>7, <1>8, <3>2, <4>1, <4>3 DEF Left
      <4>4. CASE curr = "IDLE"
        BY <4>1, <4>4, Structure
      <4> QED
        BY <1>7, <4>2, <4>3, <4>4 DEF States
    <3> QED
      BY <3>1, <3>2
  <2>3. ~Quiet
    BY <1>9, <1>10 DEF Quiet
  <2> QED
    BY <1>3, <1>6, <2>2, <2>3, SpaceKept
<1>15. AnswerInv'
  BY <1>3, <1>4, <1>6 DEF TimeInv, AnswerInv
<1> QED
  BY <1>2, <1>3, <1>11, <1>12, <1>13, <1>14, <1>15 DEF TimeInv, LeftNotMore

(* A byte of buf is stamped with the whole of 1.5t. *)
LEMMA TakesInv ==
  ASSUME OnTime, LinuxInv, TimeInv, Takes
  PROVE  TimeInv' /\ LeftNotMore
<1>1. /\ recv_loop /\ setup' = setup
      /\ wait' = [wait EXCEPT !["timer"] =
                    IF chunk # <<>> /\ curr \in {"IDLE", "SOF", "RECV"} THEN Stamped ELSE @]
  BY DEF Takes
<1>2. /\ pc = "recv_loop" /\ UNCHANGED <<line, queue, user_event>>
      /\ chunk # <<>> => /\ serial_recv_cb(Head(chunk)) /\ chunk' = Tail(chunk)
                         /\ pc' = "modbus_rtu_event"
      /\ chunk = <<>> => pc' = "timeout_impl" /\ UNCHANGED vars /\ chunk' = chunk
  BY <1>1 DEF recv_loop
<1>3. /\ good' = good /\ before' = before /\ user_event' = user_event /\ queue' = queue
      /\ frame' = frame /\ owed' = owed /\ (Answered(owed)' <=> Answered(owed))
      /\ T1t5' = T1t5 /\ T3t5' = T3t5 /\ LatencyMax' = LatencyMax
  BY <1>1, <1>2, NumbersKept DEF line, Answered
<1>4. wait["loop"] = OFF /\ wait["reply"] = OFF /\ ~Quiet /\ curr # "BUSY" /\ ~sending
  BY <1>2, AwakeThread, Structure DEF Quiet
<1>5. T1t5 \in Nat /\ T1t5 > 0 /\ T3t5 \in Nat /\ LatencyMax \in Nat
  BY Numbers DEF TimeInv, ClockTypes
<1>6. ClocksOK /\ wait \in [Clocks -> {OFF} \cup Nat] /\ "timer" \in Clocks
  BY DEF TimeInv, ClockTypes, ClocksOK, Clocks
<1>7. CASE chunk = <<>>
  <2>1. wait' = wait
    BY <1>1, <1>6, <1>7
  <2>2. /\ curr' = curr /\ timer' = timer /\ updated' = updated /\ sending' = sending
        /\ chunk' = chunk /\ pc' = "timeout_impl" /\ Interval' = Interval
    BY <1>1, <1>2, <1>7, CoreKept DEF Interval, timeout_us
  <2>3. ClockTypes'
    BY <1>1, <1>4, <2>1, <2>2 DEF TimeInv, ClockTypes, MasterWaits, ClocksOK
  <2>4. SleepInv'
    BY <1>2, <1>3, <1>4, <2>1, <2>2 DEF TimeInv, SleepInv
  <2>5. FrameInv' /\ AnswerInv'
    BY <1>3, <2>1, <2>2 DEF TimeInv, FrameInv, AnswerInv
  <2>6. Left' = Left /\ Left \in Nat
    BY <1>3, <2>1, <2>2, LeftType DEF TimeInv, Left, Running
  <2>7. SpaceInv'
    BY <1>3, <1>4, <2>1, <2>6, SpaceKept
  <2> QED
    BY <1>3, <2>2, <2>3, <2>4, <2>5, <2>6, <2>7 DEF TimeInv, LeftNotMore
<1>8. CASE chunk # <<>>
  <2>1. curr \in {"IDLE", "SOF", "RECV"}
    BY <1>4, <1>8, Structure DEF Empty, States
  <2>2. /\ curr' \in {"SOF", "RECV"} /\ timer' = "1t5" /\ sending' = sending
        /\ pc' = "modbus_rtu_event"
    <3>1. curr \in {"SOF", "RECV"} => timer = "1t5"
      BY Structure
    <3>2. serial_recv_cb(Head(chunk)) /\ pc' = "modbus_rtu_event"
      BY <1>2, <1>8
    <3> QED
      BY <2>1, <3>1, <3>2 DEF serial_recv_cb, RTU_STATE_UPDATE, timer_start, timer_reset
  <2>3. Stamped = T1t5 /\ Interval' = T1t5
    BY <1>1, <2>2 DEF Stamped, Interval, timeout_us, T1t5
  <2>4. wait' = [wait EXCEPT !["timer"] = T1t5]
    BY <1>1, <1>8, <2>1, <2>3
  <2>5. /\ ClocksOK' /\ wait'["timer"] = T1t5
        /\ \A c \in {"loop", "byte", "reply", "call"} : wait'[c] = wait[c]
    <3> HIDE DEF Clocks
    <3>1. /\ ClocksOK' /\ wait'["timer"] = T1t5
          /\ \A c \in Clocks \ {"timer"} : wait'[c] = wait[c]
      BY <1>5, <1>6, <2>4, OneClock
    <3> QED
      BY <3>1 DEF Clocks
  <2>6. wait'["timer"] # OFF /\ wait'["timer"] # 0
    BY <1>5, <2>5 DEF OFF
  <2>7. ClockTypes'
    BY <1>1, <1>4, <2>2, <2>5, <2>6 DEF TimeInv, ClockTypes, MasterWaits
  <2>8. SleepInv'
    BY <1>4, <2>2, <2>3, <2>5 DEF SleepInv
  <2>9. FrameInv'
    BY <1>3, <1>4, <2>5, <2>6 DEF TimeInv, FrameInv
  <2>10. SpaceInv' /\ Left' \in Int /\ Left' <= Left
    <3>1. Running("loop") = 0 /\ Running("loop")' = 0
      BY <1>4, <2>5 DEF Running
    <3>2. Left = T1t5 + T3t5 + 2 * LatencyMax
      BY <1>5, <1>8, <3>1 DEF Left
    <3>3. Left' = T1t5 + T3t5 + 2 * LatencyMax
      BY <1>3, <1>4, <1>5, <2>2, <2>5, <2>6, <3>1 DEF Left
    <3> QED
      BY <1>3, <1>4, <1>5, <2>5, <3>2, <3>3, SpaceKept
  <2>11. AnswerInv'
    BY <1>3, <2>5 DEF TimeInv, AnswerInv
  <2> QED
    BY <1>3, <2>2, <2>7, <2>8, <2>9, <2>10, <2>11 DEF TimeInv, LeftNotMore
<1> QED
  BY <1>7, <1>8

LEMMA FindsTimeLeftInv ==
  ASSUME OnTime, LinuxInv, TimeInv, FindsTimeLeft
  PROVE  TimeInv' /\ LeftNotMore
<1>1. /\ pc = "timeout_impl" /\ pc' = "recv_impl" /\ wait["timer"] # 0
      /\ UNCHANGED vars /\ UNCHANGED <<line, caller, chunk, queue, user_event>>
      /\ setup' = setup /\ wait' = wait
  BY DEF FindsTimeLeft, not_elapsed
<1>2. /\ good' = good /\ before' = before /\ user_event' = user_event
      /\ timer' = timer /\ curr' = curr /\ sending' = sending /\ updated' = updated
      /\ frame' = frame /\ owed' = owed /\ chunk' = chunk /\ queue' = queue
      /\ T1t5' = T1t5 /\ T3t5' = T3t5 /\ LatencyMax' = LatencyMax
  BY <1>1, CoreKept, NumbersKept DEF line
<1>3. Interval' = Interval /\ (Answered(owed)' <=> Answered(owed))
  BY <1>1, <1>2 DEF Interval, Answered, timeout_us
<1>4. wait["loop"] = OFF /\ ~Quiet
  BY <1>1, AwakeThread DEF Quiet
<1>5. ClockTypes'
  BY <1>1, <1>2, <1>4 DEF TimeInv, ClockTypes, MasterWaits, ClocksOK
<1>6. SleepInv'
  BY <1>1, <1>2, <1>3, <1>4 DEF TimeInv, SleepInv
<1>7. FrameInv' /\ AnswerInv'
  BY <1>1, <1>2, <1>3 DEF TimeInv, FrameInv, AnswerInv
<1>8. Left' = Left /\ Left \in Nat
  BY <1>1, <1>2, LeftType DEF TimeInv, Left, Running
<1>9. SpaceInv'
  BY <1>1, <1>2, <1>4, <1>8, SpaceKept
<1> QED
  BY <1>1, <1>2, <1>5, <1>6, <1>7, <1>8, <1>9 DEF TimeInv, LeftNotMore

(* What the timer callbacks make of the end of an interval. *)
LEMMA FindsTimeOverEffect ==
  ASSUME LinuxInv, TimeInv, FindsTimeOver
  PROVE  /\ Empty /\ Empty' /\ wait["loop"] = OFF /\ ~updated
         /\ \/ curr = "RECV" /\ timer = "1t5" /\ curr' = "EOF" /\ timer' = "3t5"
            \/ curr \in {"EOF", "INIT"} /\ timer = "3t5" /\ curr' = "IDLE" /\ timer' = "off"
         /\ sending' = sending
<1>1. /\ pc = "timeout_impl" /\ wait["timer"] = 0
      /\ timer_silent_interval_cb \/ timer_inter_frame_timeout_cb
      /\ UNCHANGED <<line, chunk, queue>>
  BY DEF FindsTimeOver
<1>2. Empty /\ wait["loop"] = OFF /\ (curr = "RECV" \/ curr = "EOF" \/ curr = "INIT") /\ ~updated
  BY <1>1, ElapsesAfterFrame, Structure
<1>3. Empty'
  BY <1>1, <1>2 DEF Empty, line
<1>4. timer # "off"
  BY <1>1 DEF timer_silent_interval_cb, timer_inter_frame_timeout_cb, TimerExpired
<1>5. CASE curr = "RECV"
  <2>1. timer = "1t5" /\ timer_cb = "inter"
    BY <1>5, Structure
  <2> QED
    BY <1>1, <1>2, <1>3, <1>5, <2>1
       DEF timer_silent_interval_cb, timer_inter_frame_timeout_cb, TimerExpired,
           RTU_STATE_UPDATE, timer_start
<1>6. CASE curr \in {"EOF", "INIT"}
  <2>1. timer = "3t5" /\ timer_cb = "silent" /\ (curr = "EOF" => prev = "RECV")
    BY <1>4, <1>6, Structure
  <2> QED
    BY <1>1, <1>2, <1>3, <1>6, <2>1
       DEF timer_silent_interval_cb, timer_inter_frame_timeout_cb, TimerExpired,
           RTU_STATE_UPDATE, timer_stop
<1> QED
  BY <1>2, <1>5, <1>6

LEMMA FindsTimeOverInv ==
  ASSUME OnTime, LinuxInv, TimeInv, FindsTimeOver
  PROVE  TimeInv' /\ LeftNotMore
<1>1. /\ pc = "timeout_impl" /\ wait["timer"] = 0
      /\ pc' = "modbus_rtu_event" /\ UNCHANGED <<line, user_event>> /\ setup' = setup
      /\ wait' = [wait EXCEPT !["timer"] = IF timer' = timer THEN @ ELSE Stamped]
  BY DEF FindsTimeOver
<1>2. /\ Empty /\ Empty' /\ wait["loop"] = OFF /\ ~updated
      /\ \/ curr = "RECV" /\ timer = "1t5" /\ curr' = "EOF" /\ timer' = "3t5"
         \/ curr \in {"EOF", "INIT"} /\ timer = "3t5" /\ curr' = "IDLE" /\ timer' = "off"
      /\ sending' = sending
  BY FindsTimeOverEffect
<1>3. /\ good' = good /\ before' = before /\ user_event' = user_event
      /\ frame' = frame /\ owed' = owed /\ (Answered(owed)' <=> Answered(owed))
      /\ T1t5' = T1t5 /\ T3t5' = T3t5 /\ LatencyMax' = LatencyMax
  BY <1>1, NumbersKept DEF line, Answered
<1>4. T3t5 \in Nat /\ T3t5 > 0 /\ LatencyMax \in Nat
  BY Numbers DEF TimeInv, ClockTypes
<1>5. wait["reply"] = OFF /\ ~Quiet /\ ClocksOK /\ "timer" \in Clocks
  BY <1>1, AwakeThread DEF Quiet, TimeInv, ClockTypes, Clocks
<1>6. Stamped = IF timer' = "off" THEN OFF ELSE T3t5
  BY <1>1, <1>2 DEF Stamped, timeout_us, T3t5
<1>7. /\ ClocksOK' /\ wait'["timer"] = IF timer' = "off" THEN OFF ELSE T3t5
      /\ \A c \in {"loop", "byte", "reply", "call"} : wait'[c] = wait[c]
  <2> DEFINE x == IF timer' = "off" THEN OFF ELSE T3t5
  <2>1. x \in {OFF} \cup Nat
    BY <1>4
  <2>2. timer' # timer
    BY <1>2
  <2>3. wait' = [wait EXCEPT !["timer"] = x]
    BY <1>1, <1>6, <2>2
  <2> HIDE DEF x, Clocks
  <2>4. ClocksOK' /\ wait'["timer"] = x /\ \A c \in Clocks \ {"timer"} : wait'[c] = wait[c]
    BY <1>5, <2>1, <2>3, OneClock
  <2> QED
    BY <2>4 DEF Clocks, x
<1>8. wait'["timer"] = OFF <=> timer' = "off"
  BY <1>4, <1>7 DEF OFF
<1>9. ClockTypes'
  BY <1>1, <1>2, <1>5, <1>7, <1>8 DEF TimeInv, ClockTypes, MasterWaits
<1>10. SleepInv'
  <2>1. timer' # "off" => Interval' = T3t5
    BY <1>1, <1>2 DEF Interval, timeout_us, T3t5
  <2> QED
    BY <1>2, <1>7, <2>1 DEF SleepInv
<1>11. FrameInv'
  BY <1>2 DEF FrameInv, Empty
<1>12. SpaceInv' /\ Left' \in Int /\ Left' <= Left
  <2>1. chunk = <<>> /\ queue = <<>> /\ chunk' = <<>> /\ queue' = <<>>
    BY <1>2 DEF Empty
  <2>2. CASE curr = "RECV"
    <3>1. Left = T3t5 + LatencyMax
      BY <1>1, <1>2, <2>1, <2>2 DEF Left
    <3>2. wait'["timer"] # 0 /\ wait'["loop"] = OFF /\ curr' = "EOF"
      BY <1>2, <1>4, <1>7, <2>2
    <3>3. Left' = T3t5 + LatencyMax
      BY <1>3, <2>1, <3>2 DEF Left
    <3> QED
      BY <1>3, <1>4, <1>5, <1>7, <3>1, <3>3, SpaceKept
  <2>3. CASE curr \in {"EOF", "INIT"}
    <3>1. Left = 0
      BY <1>1, <1>2, <2>1, <2>3 DEF Left
    <3>2. Left' = 0
      BY <1>2, <2>1, <2>3 DEF Left
    <3> QED
      BY <1>3, <1>5, <1>7, <3>1, <3>2, SpaceKept
  <2> QED
    BY <1>2, <2>2, <2>3
<1>13. AnswerInv'
  BY <1>3, <1>7 DEF TimeInv, AnswerInv
<1> QED
  BY <1>1, <1>3, <1>9, <1>10, <1>11, <1>12, <1>13 DEF TimeInv, LeftNotMore

(* What modbus_rtu_event does: nothing, or what clears updated alone, the
   restart after a reply or at the start, or the frame. *)
LEMMA EventRunsEffect ==
  ASSUME LinuxInv, TimeInv, EventRuns
  PROVE  /\ pc = "modbus_rtu_event" /\ ~sending /\ curr # "BUSY"
         /\ UNCHANGED <<caller, chunk, queue, user_event, frame, good, before>>
         /\ pc' = IF sending' THEN "send_impl" ELSE caller
         /\ \/ /\ ~(updated /\ curr = "INIT")
               /\ curr' = curr /\ timer' = timer /\ sending' = sending /\ owed' = owed
               /\ ~FrameConfirmed
            \/ /\ updated /\ curr = "INIT" /\ curr' = curr /\ ~updated' /\ timer' = "3t5"
               /\ sending' = sending /\ owed' = owed
            \/ /\ FrameConfirmed /\ Empty /\ owed' = <<>> /\ timer' = timer /\ timer = "off"
               /\ \/ ~Answered(owed) /\ curr' = "IDLE" /\ ~sending'
                  \/ Answered(owed) /\ curr' = "BUSY" /\ sending' /\ Len(txbuf') = ReplySize
<1>1. /\ pc = "modbus_rtu_event" /\ Event
      /\ pc' = IF sending' THEN "send_impl" ELSE caller
      /\ UNCHANGED <<caller, chunk, queue, user_event>>
      /\ FrameConfirmed /\ adu_check(rxbuf) => (sending' <=> Answered(rxbuf))
  BY DEF EventRuns, event
<1>2. /\ IF updated THEN modbus_rtu_event ELSE UNCHANGED vars
      /\ owed' = IF FrameConfirmed /\ adu_check(rxbuf) THEN <<>> ELSE owed
      /\ UNCHANGED <<frame, good, before>>
  BY <1>1 DEF Event
<1>3. error = FALSE /\ ~Inconsistent /\ ~sending /\ curr # "BUSY" /\ curr \in States
  BY <1>1, Structure
<1>4. CASE ~updated
  BY <1>1, <1>2, <1>3, <1>4, CoreKept DEF FrameConfirmed
<1>5. CASE updated
  <2>1. event_init \/ event_frame \/ event_sof \/ event_none
    BY <1>2, <1>3, <1>5 DEF modbus_rtu_event, event_error
  <2>2. CASE event_init
    BY <1>1, <1>2, <1>3, <1>5, <2>2 DEF event_init, restart, timer_start, FrameConfirmed
  <2>3. CASE event_sof
    <3>1. curr = "SOF" /\ UNCHANGED <<curr, timer, sending>> /\ ~FrameConfirmed
      BY <2>3 DEF event_sof, platform, FrameConfirmed
    <3> QED
      BY <1>1, <1>2, <1>3, <3>1
  <2>4. CASE event_none
    <3>1. curr # "INIT" /\ UNCHANGED <<curr, timer, sending>> /\ ~FrameConfirmed
      BY <2>4 DEF event_none, platform, FrameConfirmed
    <3> QED
      BY <1>1, <1>2, <1>3, <3>1
  <2>5. CASE event_frame
    <3>1. FrameConfirmed /\ adu_process /\ timer' = timer
      BY <2>5 DEF event_frame
    <3>2. rxbuf = owed /\ owed \in Frames /\ Empty /\ curr = "IDLE" /\ timer = "off"
      <4>1. curr = "IDLE"
        BY <3>1 DEF FrameConfirmed
      <4> QED
        BY <3>1, <4>1, Structure
    <3>3. adu_check(rxbuf)
      BY <3>2, GoodFramesAssumption DEF Good
    <3>4. owed' = <<>> /\ (sending' <=> Answered(owed))
      BY <1>1, <1>2, <3>1, <3>2, <3>3
    <3>5. \/ UNCHANGED <<prev, curr, sending>>
          \/ \E reply \in Replies \ {<<>>} :
                txbuf' = reply \o CalcCrc(reply) /\ curr' = "BUSY" /\ sending'
      BY <3>1, <3>3 DEF adu_process, RTU_STATE_UPDATE, serial_send
    <3>6. CASE UNCHANGED <<prev, curr, sending>>
      BY <1>1, <1>2, <1>3, <3>1, <3>2, <3>4, <3>6
    <3>7. CASE \E reply \in Replies \ {<<>>} :
                  txbuf' = reply \o CalcCrc(reply) /\ curr' = "BUSY" /\ sending'
      <4>1. Len(txbuf') = ReplySize /\ curr' = "BUSY" /\ sending'
        BY <3>7, ReplySizes
      <4> QED
        BY <1>1, <1>2, <1>3, <3>1, <3>2, <3>4, <4>1
    <3> QED
      BY <3>5, <3>6, <3>7
  <2> QED
    BY <2>1, <2>2, <2>3, <2>4, <2>5
<1> QED
  BY <1>3, <1>4, <1>5 DEF Control

(* The clocks after modbus_rtu_event. *)
LEMMA EventRunsClocks ==
  ASSUME OnTime, LinuxInv, TimeInv, EventRuns
  PROVE  /\ ClocksOK'
         /\ wait'["timer"] = IF updated /\ curr = "INIT" THEN T3t5 ELSE wait["timer"]
         /\ wait'["reply"] = IF sending' THEN Len(txbuf') * ByteTime(setup) ELSE OFF
         /\ sending' => Len(txbuf') * ByteTime(setup) \in Nat
         /\ \A c \in {"loop", "byte", "silence", "call"} : wait'[c] = wait[c]
<1> DEFINE t == IF updated /\ curr = "INIT" THEN T3t5 ELSE wait["timer"]
           r == IF sending' THEN Len(txbuf') * ByteTime(setup) ELSE OFF
<1>1. /\ ~sending /\ error = FALSE /\ wait["reply"] = OFF /\ setup' = setup
      /\ updated /\ curr = "INIT" => timer' = "3t5"
      /\ sending' => Len(txbuf') = ReplySize
  <2>1. pc = "modbus_rtu_event" /\ ~sending
    BY EventRunsEffect
  <2>2. wait["reply"] = OFF /\ error = FALSE
    BY <2>1, AwakeThread, Structure
  <2>3. updated /\ curr = "INIT" => timer' = "3t5"
    BY EventRunsEffect DEF FrameConfirmed
  <2>4. sending' => Len(txbuf') = ReplySize
    BY EventRunsEffect
  <2> QED
    BY <2>1, <2>2, <2>3, <2>4 DEF EventRuns
<1>2. updated /\ curr = "INIT" => Stamped = T3t5
  BY <1>1 DEF Stamped, timeout_us, T3t5
<1>3. wait \in [Clocks -> {OFF} \cup Nat]
  BY DEF TimeInv, ClockTypes, ClocksOK
<1>4. t \in {OFF} \cup Nat
  BY <1>3, Numbers DEF TimeInv, ClockTypes, Clocks
<1>5. sending' => Len(txbuf') * ByteTime(setup) \in Nat
  <2>1. ReplySize * ByteTime(setup) \in Nat
    <3>1. ReplySize \in Nat /\ ByteTime(setup) \in Nat
      BY ReplySizes, ByteTimeType DEF TimeInv, ClockTypes
    <3> QED
      BY <3>1
  <2> QED
    BY <1>1, <2>1
<1>6. r \in {OFF} \cup Nat
  BY <1>5
<1>7. wait' = [wait EXCEPT !["timer"] = t, !["reply"] = r]
  <2>1. wait' = [wait EXCEPT
                  !["timer"] = IF updated /\ (error \/ curr = "INIT") THEN Stamped ELSE @,
                  !["reply"] = IF sending' /\ ~sending
                                 THEN Len(txbuf') * ByteTime(setup) ELSE @]
    BY DEF EventRuns
  <2> QED
    BY <1>1, <1>2, <1>3, <2>1
<1> HIDE DEF t, r
<1>8. /\ wait'["timer"] = t /\ wait'["reply"] = r /\ ClocksOK'
      /\ \A c \in {"loop", "byte", "silence", "call"} : wait'[c] = wait[c]
  BY <1>3, <1>4, <1>6, <1>7 DEF Clocks, ClocksOK
<1> QED
  BY <1>5, <1>8 DEF t, r

LEMMA EventRunsInv ==
  ASSUME OnTime, LinuxInv, TimeInv, EventRuns
  PROVE  TimeInv' /\ LeftNotMore
<1>1. /\ pc = "modbus_rtu_event" /\ ~sending /\ curr # "BUSY" /\ setup' = setup
      /\ user_event' = user_event /\ chunk' = chunk /\ queue' = queue
      /\ frame' = frame /\ good' = good /\ before' = before
      /\ pc' = IF sending' THEN "send_impl" ELSE caller
      /\ caller \in {"recv_impl", "recv_loop"}
  BY EventRunsEffect DEF EventRuns, LinuxInv, ThreadControl
<1>2. /\ ClocksOK'
      /\ wait'["timer"] = IF updated /\ curr = "INIT" THEN T3t5 ELSE wait["timer"]
      /\ wait'["reply"] = IF sending' THEN Len(txbuf') * ByteTime(setup) ELSE OFF
      /\ sending' => Len(txbuf') * ByteTime(setup) \in Nat
      /\ wait'["loop"] = wait["loop"] /\ wait'["byte"] = wait["byte"]
      /\ wait'["call"] = wait["call"]
  BY EventRunsClocks
<1>3. T1t5' = T1t5 /\ T3t5' = T3t5 /\ LatencyMax' = LatencyMax
  BY <1>1, NumbersKept
<1>4. T1t5 \in Nat /\ T3t5 \in Nat /\ T3t5 > 0 /\ LatencyMax \in Nat
  BY Numbers DEF TimeInv, ClockTypes
<1>5. wait["loop"] = OFF /\ wait["reply"] = OFF /\ ~Quiet
  BY <1>1, AwakeThread DEF Quiet
<1>6. /\ timer # "off" => wait["timer"] = Interval
      /\ wait["timer"] = OFF <=> timer = "off"
      /\ MasterWaits
  BY <1>1, <1>5 DEF TimeInv, SleepInv, ClockTypes
<1>7. pc' \notin {"returned", "aborted"}
  BY <1>1
<1>8. CASE /\ ~(updated /\ curr = "INIT")
           /\ curr' = curr /\ timer' = timer /\ sending' = sending /\ owed' = owed
           /\ ~FrameConfirmed
  <2>1. wait'["timer"] = wait["timer"] /\ wait'["reply"] = OFF /\ Interval' = Interval
    BY <1>1, <1>2, <1>8 DEF Interval, timeout_us
  <2>2. Answered(owed)' <=> Answered(owed)
    BY <1>8 DEF Answered
  <2>3. ClockTypes'
    BY <1>1, <1>2, <1>5, <1>6, <1>8, <2>1 DEF TimeInv, ClockTypes, MasterWaits
  <2>4. SleepInv'
    BY <1>2, <1>5, <1>6, <1>8, <2>1 DEF SleepInv
  <2>5. FrameInv'
    BY <1>1, <1>2, <1>3, <1>8, <2>1 DEF TimeInv, FrameInv
  <2>6. AnswerInv'
    BY <1>1, <1>2, <1>5, <1>8, <2>1, <2>2 DEF TimeInv, AnswerInv
  <2>7. Left' \in Int /\ Left' <= Left
    <3>1. Left \in Nat
      BY LeftType DEF TimeInv
    <3>2. ~(updated' /\ curr = "INIT")
      <4>1. CASE ~updated
        BY <1>1, <4>1, CoreKept DEF EventRuns, event, Event
      <4>2. CASE curr # "INIT"
        BY <4>2
      <4> QED
        BY <1>8, <4>1, <4>2
    <3>3. Left' = Left
      BY <1>1, <1>2, <1>3, <1>8, <2>1, <3>2 DEF Left, Running
    <3> QED
      BY <3>1, <3>3
  <2>8. SpaceInv'
    BY <1>1, <1>2, <1>5, <2>7, SpaceKept
  <2> QED
    BY <1>1, <1>7, <2>3, <2>4, <2>5, <2>6, <2>7, <2>8 DEF TimeInv, LeftNotMore
<1>9. CASE /\ updated /\ curr = "INIT" /\ curr' = curr /\ ~updated' /\ timer' = "3t5"
           /\ sending' = sending /\ owed' = owed
  <2>1. wait'["timer"] = T3t5 /\ wait'["reply"] = OFF /\ Interval' = T3t5
    BY <1>1, <1>2, <1>9 DEF Interval, timeout_us, T3t5
  <2>2. wait'["timer"] # OFF /\ wait'["timer"] # 0
    BY <1>4, <2>1 DEF OFF
  <2>3. owed = <<>> /\ Empty
    BY <1>9, Structure
  <2>4. ClockTypes'
    BY <1>1, <1>2, <1>5, <1>6, <1>9, <2>1, <2>2 DEF TimeInv, ClockTypes, MasterWaits
  <2>5. SleepInv'
    BY <1>2, <1>5, <2>1 DEF SleepInv
  <2>6. FrameInv'
    BY <1>1, <1>9, <2>3 DEF FrameInv, Empty
  <2>7. AnswerInv'
    BY <1>2, <1>5, <1>9, <2>1, <2>3 DEF TimeInv, AnswerInv
  <2>8. SpaceInv' /\ Left' \in Int /\ Left' <= Left
    <3>1. Running("loop") = 0
      BY <1>5 DEF Running
    <3>2. Left = T3t5 + LatencyMax
      BY <1>4, <1>9, <2>3, <3>1 DEF Left, Empty
    <3>3. Left' = T3t5 + LatencyMax
      BY <1>1, <1>2, <1>3, <1>5, <1>9, <2>2, <2>3 DEF Left, Empty
    <3> QED
      BY <1>1, <1>2, <1>4, <1>5, <3>2, <3>3, SpaceKept
  <2> QED
    BY <1>1, <1>7, <2>4, <2>5, <2>6, <2>7, <2>8 DEF TimeInv, LeftNotMore
<1>10. CASE /\ FrameConfirmed /\ Empty /\ owed' = <<>> /\ timer' = timer /\ timer = "off"
            /\ \/ ~Answered(owed) /\ curr' = "IDLE" /\ ~sending'
               \/ Answered(owed) /\ curr' = "BUSY" /\ sending' /\ Len(txbuf') = ReplySize
  <2>1. owed # <<>> /\ frame = <<>> /\ chunk = <<>> /\ queue = <<>> /\ curr = "IDLE"
    BY <1>10, Structure, FramesAssumption DEF Empty, FrameConfirmed
  <2>2. /\ wait["call"] # OFF <=> Answered(owed)
        /\ Answered(owed) => wait["byte"] = OFF
    BY <2>1 DEF TimeInv, AnswerInv
  <2>3. wait'["timer"] = OFF
    BY <1>2, <1>6, <1>10, <2>1
  <2>4. wait'["reply"] # OFF => sending'
    BY <1>2
  <2>5. sending' => wait'["reply"] # OFF
    BY <1>2 DEF OFF
  <2>6. ClockTypes'
    BY <1>1, <1>2, <1>5, <1>6, <1>10, <2>2, <2>3, <2>4 DEF TimeInv, ClockTypes, MasterWaits
  <2>7. SleepInv'
    BY <1>2, <1>5, <1>10 DEF SleepInv
  <2>8. FrameInv'
    BY <1>1, <2>1 DEF FrameInv
  <2>9. AnswerInv'
    BY <1>2, <1>10, <2>2, <2>5 DEF AnswerInv
  <2>10. SpaceInv'
    <3>1. CASE Answered(owed)
      BY <1>2, <2>2, <3>1 DEF SpaceInv
    <3>2. CASE ~Answered(owed)
      <4>1. curr' = "IDLE"
        BY <1>10, <3>2
      <4>2. Left = 0 /\ Left' = 0
        BY <1>1, <2>1, <4>1 DEF Left
      <4> QED
        BY <1>1, <1>2, <1>5, <4>2, SpaceKept
    <3> QED
      BY <3>1, <3>2
  <2> QED
    BY <1>1, <1>7, <1>10, <2>1, <2>6, <2>7, <2>8, <2>9, <2>10 DEF TimeInv, LeftNotMore
<1> QED
  BY <1>8, <1>9, <1>10, EventRunsEffect

(* The thread is blocked in tty_drain until the reply is out. *)
LEMMA ReplyOutInv ==
  ASSUME OnTime, LinuxInv, TimeInv, ReplyOut
  PROVE  TimeInv'
<1>1. wait["reply"] = 0 /\ UNCHANGED linux /\ setup' = setup
  BY DEF ReplyOut
<1>2. PICK l \in Latencies :
        wait' = [wait EXCEPT !["reply"] = OFF, !["call"] = OFF, !["loop"] = l,
                             !["byte"] = Space(setup) + ByteTime(setup)]
  BY DEF ReplyOut
<1>3. /\ T1t5 \in Nat /\ T3t5 \in Nat /\ LatencyMax \in Nat
      /\ Space(setup) + ByteTime(setup) \in Nat
      /\ 2 * T1t5 + T3t5 + 3 * LatencyMax < Space(setup) + ByteTime(setup)
      /\ l \in Nat /\ l <= LatencyMax
  BY Numbers DEF TimeInv, ClockTypes
<1>4. wait["reply"] # OFF /\ sending
  BY <1>1 DEF TimeInv, ClockTypes, OFF
<1>5. pc = "send_impl" /\ curr = "BUSY" /\ timer = "off" /\ owed = <<>> /\ Empty
  BY <1>4, Structure
<1>6. wait \in [Clocks -> {OFF} \cup Nat]
  BY DEF TimeInv, ClockTypes, ClocksOK
<1>7. /\ wait'["reply"] = OFF /\ wait'["call"] = OFF /\ wait'["loop"] = l
      /\ wait'["byte"] = Space(setup) + ByteTime(setup) /\ wait'["timer"] = wait["timer"]
  BY <1>2, <1>6 DEF Clocks
<1>8. ClocksOK'
  BY <1>2, <1>3, <1>6 DEF ClocksOK, Clocks
<1>9. /\ good' = good /\ before' = before /\ user_event' = user_event /\ pc' = pc
      /\ timer' = timer /\ curr' = curr /\ sending' = sending
      /\ frame' = frame /\ owed' = owed /\ chunk' = chunk /\ queue' = queue
      /\ T1t5' = T1t5 /\ T3t5' = T3t5 /\ LatencyMax' = LatencyMax
  BY <1>1, LinuxKept, NumbersKept
<1>10. wait'["loop"] # OFF /\ wait'["byte"] # OFF /\ wait["timer"] = OFF
  BY <1>3, <1>5, <1>7 DEF OFF, TimeInv, ClockTypes
<1>11. ClockTypes'
  BY <1>1, <1>5, <1>7, <1>8, <1>9, <1>10 DEF TimeInv, ClockTypes, MasterWaits
<1>12. SleepInv'
  <2>1. Interval' = 0
    BY <1>5, <1>9 DEF Interval
  <2>2. l <= 0 + LatencyMax /\ OFF <= l
    BY <1>3 DEF OFF
  <2> QED
    BY <1>5, <1>7, <1>9, <1>10, <2>1, <2>2 DEF SleepInv
<1>13. FrameInv'
  BY <1>5, <1>9 DEF FrameInv, Empty
<1>14. SpaceInv'
  <2>1. Running("loop")' = l
    BY <1>7, <1>10 DEF Running
  <2>2. Left' = l + T3t5 + LatencyMax
    BY <1>5, <1>9, <2>1 DEF Left, Empty
  <2>3. l + T3t5 + LatencyMax < Space(setup) + ByteTime(setup)
    BY <1>3
  <2> QED
    BY <1>7, <2>2, <2>3 DEF SpaceInv
<1>15. AnswerInv'
  BY <1>5, <1>7, <1>9 DEF AnswerInv
<1> QED
  BY <1>9, <1>11, <1>12, <1>13, <1>14, <1>15 DEF TimeInv

LEMMA DrainedInv ==
  ASSUME OnTime, LinuxInv, TimeInv, Drained
  PROVE  TimeInv'
<1>1. /\ wait["loop"] = 0 /\ wait' = [wait EXCEPT !["loop"] = OFF] /\ setup' = setup
      /\ pc = "send_impl" /\ pc' = "modbus_rtu_event" /\ serial_sent_cb
      /\ UNCHANGED <<line, caller, chunk, queue, user_event>>
  BY DEF Drained, send_impl
<1>2. curr = "BUSY" /\ timer = "off" /\ owed = <<>> /\ Empty /\ sending
  BY <1>1, Structure
<1>3. curr' = "INIT" /\ updated' /\ timer' = timer
  BY <1>1, <1>2 DEF serial_sent_cb, RTU_STATE_UPDATE
<1>4. /\ good' = good /\ before' = before /\ user_event' = user_event
      /\ frame' = frame /\ owed' = owed /\ chunk' = chunk /\ queue' = queue
      /\ T1t5' = T1t5 /\ T3t5' = T3t5 /\ LatencyMax' = LatencyMax
  BY <1>1, NumbersKept DEF line
<1>5. /\ ClocksOK' /\ wait'["loop"] = OFF
      /\ \A c \in {"timer", "byte", "reply", "call"} : wait'[c] = wait[c]
  <2>1. ClocksOK /\ "loop" \in Clocks
    BY DEF TimeInv, ClockTypes, Clocks
  <2> HIDE DEF Clocks
  <2>2. ClocksOK' /\ wait'["loop"] = OFF /\ \A c \in Clocks \ {"loop"} : wait'[c] = wait[c]
    BY <1>1, <2>1, OneClock
  <2> QED
    BY <2>2 DEF Clocks
<1>6. wait["loop"] # OFF
  BY <1>1 DEF OFF
<1>7. wait["reply"] = OFF
  BY <1>6 DEF TimeInv, ClockTypes
<1>8. ClockTypes'
  BY <1>1, <1>3, <1>5, <1>7 DEF TimeInv, ClockTypes, MasterWaits
<1>9. SleepInv' /\ FrameInv'
  BY <1>2, <1>3, <1>4, <1>5 DEF SleepInv, FrameInv, Empty
<1>10. SpaceInv'
  <2>1. Running("loop") = 0 /\ Running("loop")' = 0
    BY <1>1, <1>5, <1>6 DEF Running
  <2>2. T3t5 \in Nat /\ LatencyMax \in Nat
    BY Numbers DEF TimeInv, ClockTypes
  <2>3. Left = T3t5 + LatencyMax /\ Left' = T3t5 + LatencyMax
    BY <1>2, <1>3, <1>4, <2>1, <2>2 DEF Left, Empty
  <2>4. ~Quiet
    BY <1>1 DEF Quiet
  <2> QED
    BY <1>4, <1>5, <2>2, <2>3, <2>4, SpaceKept
<1>11. AnswerInv'
  BY <1>2, <1>4, <1>5 DEF TimeInv, AnswerInv
<1> QED
  BY <1>1, <1>4, <1>8, <1>9, <1>10, <1>11 DEF TimeInv

----------------------------------------------------------------------------
(* The invariant. *)

LEMMA TimeInvInit ==
  ASSUME OnTime, LinuxTimedInit
  PROVE  TimeInv
<1>1. /\ setup \in Setups
      /\ wait = [timer |-> OFF, loop |-> OFF, reply |-> OFF, silence |-> OFF, call |-> OFF,
                 byte |-> Space(setup) + ByteTime(setup)]
  BY DEF LinuxTimedInit
<1>2. /\ curr = "INIT" /\ updated = TRUE /\ timer = "off" /\ owed = <<>> /\ Empty
      /\ good = TRUE /\ before = TRUE /\ user_event = FALSE /\ pc = "modbus_rtu_event"
  BY DEF LinuxTimedInit, LinuxInit, Init, LineInit, Empty
<1>3. /\ T1t5 \in Nat /\ T3t5 \in Nat /\ LatencyMax \in Nat
      /\ Space(setup) + ByteTime(setup) \in Nat
      /\ 2 * T1t5 + T3t5 + 3 * LatencyMax < Space(setup) + ByteTime(setup)
  BY <1>1, Numbers
<1>4. /\ wait["timer"] = OFF /\ wait["loop"] = OFF /\ wait["reply"] = OFF
      /\ wait["call"] = OFF /\ wait["byte"] = Space(setup) + ByteTime(setup)
  BY <1>1
<1>5. ClocksOK
  BY <1>1, <1>3 DEF ClocksOK, Clocks
<1>6. wait["byte"] # OFF
  BY <1>3, <1>4 DEF OFF
<1>7. ClockTypes /\ SleepInv /\ FrameInv /\ AnswerInv
  BY <1>1, <1>2, <1>4, <1>5, <1>6
     DEF ClockTypes, MasterWaits, SleepInv, FrameInv, AnswerInv, Empty
<1>8. SpaceInv
  <2>1. Running("loop") = 0
    BY <1>4 DEF Running
  <2>2. Left = T3t5 + LatencyMax
    BY <1>2, <1>3, <2>1 DEF Left, Empty
  <2> QED
    BY <1>3, <1>4, <2>2 DEF SpaceInv
<1> QED
  BY <1>2, <1>7, <1>8 DEF TimeInv

LEMMA TimeInvStutter == ASSUME TimeInv, UNCHANGED vtimed PROVE TimeInv'
<1>1. UNCHANGED linux /\ setup' = setup /\ wait' = wait
  BY DEF vtimed
<1>2. /\ good' = good /\ before' = before /\ user_event' = user_event /\ pc' = pc
      /\ timer' = timer /\ curr' = curr /\ sending' = sending /\ updated' = updated
      /\ frame' = frame /\ owed' = owed /\ chunk' = chunk /\ queue' = queue
      /\ T1t5' = T1t5 /\ T3t5' = T3t5 /\ LatencyMax' = LatencyMax
  BY <1>1, LinuxKept, NumbersKept
<1>3. ClockTypes'
  BY <1>1, <1>2 DEF TimeInv, ClockTypes, ClocksOK, MasterWaits
<1>4. SleepInv' /\ FrameInv'
  <2>1. Interval' = Interval
    BY <1>1, <1>2 DEF Interval, timeout_us
  <2> QED
    BY <1>1, <1>2, <2>1 DEF TimeInv, SleepInv, FrameInv
<1>5. SpaceInv' /\ AnswerInv'
  <2>1. Left' = Left /\ (Quiet' <=> Quiet) /\ (Answered(owed)' <=> Answered(owed))
    BY <1>1, <1>2 DEF Left, Running, Quiet, Answered
  <2> QED
    BY <1>1, <1>2, <2>1 DEF TimeInv, SpaceInv, AnswerInv
<1> QED
  BY <1>2, <1>3, <1>4, <1>5 DEF TimeInv

LEMMA TimeInvNext ==
  ASSUME OnTime, LinuxInv, TimeInv, [LinuxTimedNext]_vtimed
  PROVE  TimeInv'
  BY TimePassesInv, FrameBeginsInv, ByteCompletesInv, SleepsInv, ReadsInv, TakesInv,
     FindsTimeLeftInv, FindsTimeOverInv, EventRunsInv, ReplyOutInv, DrainedInv,
     TimeInvStutter DEF LinuxTimedNext

LEMMA InTime == ASSUME OnTime PROVE LinuxTimedSpec => [](LinuxInv /\ TimeInv)
<1>1. LinuxTimedInit => LinuxInv /\ TimeInv
  BY LinuxInitInv, TimeInvInit DEF LinuxTimedInit
<1>2. LinuxInv /\ TimeInv /\ [LinuxTimedNext]_vtimed => (LinuxInv /\ TimeInv)'
  BY LinuxTimedStep, LinuxNextInv, TimeInvNext
<1> QED
  BY <1>1, <1>2, PTL DEF LinuxTimedSpec

----------------------------------------------------------------------------
(* The theorems. *)

(* The timed slave does what LinuxSlave allows, step by step, so that what is
   proved of every step of LinuxSlave holds of it: each read, callback and event
   of the thread is one of modbus_rtu_run's, and a frame begins when the slave
   waits for it. *)
THEOREM LinuxTimedImplementsSlave ==
  ASSUME OnTime PROVE LinuxTimedSpec => LinuxInit /\ [][LinuxNext]_linux
<1>1. LinuxTimedInit => LinuxInit
  BY DEF LinuxTimedInit
<1>2. LinuxInv /\ TimeInv /\ [LinuxTimedNext]_vtimed => [LinuxNext]_linux
  BY LinuxTimedStep
<1> QED
  BY <1>1, <1>2, InTime, PTL DEF LinuxTimedSpec

(* Type correctness of the thread, its buffers and the clocks: that of the timer
   runs when and only when the timer does, and the thread runs to the end of
   every callback of modbus_rtu_run without sleeping. *)
THEOREM LinuxTimedTypeCorrect == ASSUME OnTime PROVE LinuxTimedSpec => []LinuxTimedTypeOK
<1>1. LinuxInv /\ TimeInv => LinuxTimedTypeOK
  <2> SUFFICES ASSUME LinuxInv, TimeInv PROVE LinuxTimedTypeOK
    OBVIOUS
  <2>1. LinuxTypeOK
    BY LinuxInvTyped
  <2> QED
    BY <2>1 DEF TimeInv, ClockTypes, ClocksOK, LinuxTimedTypeOK
<1> QED
  BY <1>1, InTime, PTL

(* Where every byte arrives within 1.5t of the one before, and the slave is done
   with a frame before the next begins, no byte is read in a state that does not
   expect it, however late tty_read_ll reads it: serial_recv_cb and the timer
   callbacks flag no error (rtu.c:60, 80, 119). *)
THEOREM LinuxNoErrorsInTime == ASSUME OnTime PROVE LinuxTimedSpec => []NoErrorOnGoodLine
<1>1. LinuxInv /\ TimeInv => NoErrorOnGoodLine
  BY Structure DEF NoErrorOnGoodLine
<1> QED
  BY <1>1, InTime, PTL

----------------------------------------------------------------------------
(* The silence before a reply. *)

TimersSuffice == \A s \in Setups : TimersAreLong(s)

(* The steps of the thread between two waits. *)
ThreadRuns == Reads \/ Takes \/ FindsTimeLeft \/ FindsTimeOver \/ EventRuns

(* They are not those of the line and of the master, and the clocks of these do
   not notice. *)
LEMMA ThreadRunsClocks ==
  ASSUME TimeInv, Sleeps \/ ThreadRuns
  PROVE  /\ pc # "send_impl" /\ setup' = setup /\ frame' = frame
         /\ \A c \in {"byte", "silence", "call"} : wait'[c] = wait[c]
<1>1. wait \in [Clocks -> {OFF} \cup Nat]
  BY DEF TimeInv, ClockTypes, ClocksOK
<1>2. CASE Sleeps
  BY <1>1, <1>2, LinuxKept DEF Sleeps, Clocks
<1>3. CASE Reads
  BY <1>1, <1>3 DEF Reads, recv_impl, line, Clocks
<1>4. CASE Takes
  BY <1>1, <1>4 DEF Takes, recv_loop, line, Clocks
<1>5. CASE FindsTimeLeft
  BY <1>5 DEF FindsTimeLeft, not_elapsed, line
<1>6. CASE FindsTimeOver
  BY <1>1, <1>6 DEF FindsTimeOver, line, Clocks
<1>7. CASE EventRuns
  BY <1>1, <1>7 DEF EventRuns, event, Event, Clocks
<1> QED
  BY <1>2, <1>3, <1>4, <1>5, <1>6, <1>7 DEF ThreadRuns

(* A frame is confirmed at the call of modbus_rtu_event. *)
LEMMA EventConfirms == LinuxInv /\ TimeInv => (FrameConfirmed => pc = "modbus_rtu_event")
  BY Structure

LEMMA NextConfirms ==
  ASSUME OnTime, LinuxInv, TimeInv, [LinuxTimedNext]_vtimed
  PROVE  FrameConfirmed' => pc' = "modbus_rtu_event"
<1>1. (LinuxInv /\ TimeInv => (FrameConfirmed => pc = "modbus_rtu_event"))'
  BY EventConfirms, PTL
<1> QED
  BY <1>1, LinuxTimedStep, LinuxNextInv, TimeInvNext

LEMMA SilenceInvInit == ASSUME OnTime, LinuxTimedInit PROVE SilenceInv
<1>1. wait["silence"] = OFF /\ curr = "INIT"
  BY DEF LinuxTimedInit, LinuxInit, Init
<1>2. Silence(setup) \in Nat
  BY SilenceType DEF LinuxTimedInit
<1> QED
  BY <1>1, <1>2 DEF SilenceInv, FrameConfirmed, OFF

(* The end of 3.5t is found in EOF: the silence is over. *)
LEMMA FindsSilenceOver ==
  ASSUME OnTime, LinuxInv, TimeInv, SilenceInv, FindsTimeOver
  PROVE  SilenceInv'
<1>1. /\ pc = "timeout_impl" /\ wait["timer"] = 0 /\ setup' = setup
      /\ timer_silent_interval_cb \/ timer_inter_frame_timeout_cb
      /\ wait' = [wait EXCEPT !["timer"] = IF timer' = timer THEN @ ELSE Stamped]
  BY DEF FindsTimeOver
<1>2. /\ Empty
      /\ \/ curr = "RECV" /\ timer = "1t5" /\ curr' = "EOF" /\ timer' = "3t5"
         \/ curr \in {"EOF", "INIT"} /\ timer = "3t5" /\ curr' = "IDLE" /\ timer' = "off"
  BY FindsTimeOverEffect
<1>3. wait'["silence"] = wait["silence"] /\ Silence(setup)' = Silence(setup)
  BY <1>1, ThreadRunsClocks, NumbersKept DEF ThreadRuns
<1>4. wait["silence"] \in {OFF} \cup Nat /\ T3t5 \in Nat
  BY Numbers DEF TimeInv, ClockTypes, ClocksOK, Clocks
<1>5. CASE curr = "RECV"
  <2>1. wait["silence"] <= 0 + T3t5
    BY <1>1, <1>2, <1>5 DEF SilenceInv
  <2>2. wait'["timer"] = T3t5
    <3>1. wait \in [Clocks -> {OFF} \cup Nat] /\ "timer" \in Clocks
      BY DEF TimeInv, ClockTypes, ClocksOK, Clocks
    <3> QED
      BY <1>1, <1>2, <1>5, <3>1 DEF Stamped, timeout_us, T3t5
  <2>3. curr' = "EOF"
    BY <1>2, <1>5
  <2> QED
    BY <1>3, <1>4, <2>1, <2>2, <2>3 DEF SilenceInv, FrameConfirmed
<1>6. CASE curr = "EOF"
  <2>1. wait["silence"] <= 0 /\ wait["silence"] # 0
    BY <1>1, <1>6 DEF SilenceInv
  <2>2. wait["silence"] = OFF
    BY <1>4, <2>1
  <2> QED
    BY <1>2, <1>3, <1>6, <2>2 DEF SilenceInv
<1>7. CASE curr = "INIT"
  <2>1. curr' = "IDLE" /\ prev' = "INIT"
    BY <1>1, <1>2, <1>7
       DEF timer_silent_interval_cb, timer_inter_frame_timeout_cb, RTU_STATE_UPDATE
  <2> QED
    BY <1>3, <2>1 DEF SilenceInv, FrameConfirmed
<1> QED
  BY <1>2, <1>5, <1>6, <1>7

LEMMA SilenceInvNext ==
  ASSUME OnTime, TimersSuffice, LinuxInv, TimeInv, SilenceInv, [LinuxTimedNext]_vtimed
  PROVE  SilenceInv'
<1>1. wait["silence"] \in {OFF} \cup Nat /\ wait["timer"] \in {OFF} \cup Nat
  BY DEF TimeInv, ClockTypes, ClocksOK, Clocks
<1>2. T1t5 \in Nat /\ T3t5 \in Nat /\ Silence(setup) \in Nat \ {0}
      /\ Silence(setup) <= T1t5 + T3t5
  BY Numbers, SilenceType DEF TimeInv, ClockTypes, TimersSuffice, TimersAreLong, T1t5, T3t5
<1>3. CASE UNCHANGED linux /\ setup' = setup
           /\ wait'["silence"] = wait["silence"] /\ wait'["timer"] = wait["timer"]
  <2>1. /\ curr' = curr /\ FrameConfirmed' = FrameConfirmed /\ (Empty' <=> Empty)
        /\ T3t5' = T3t5 /\ Silence(setup)' = Silence(setup)
    BY <1>3, LinuxKept, NumbersKept DEF Empty
  <2> QED
    BY <1>3, <2>1 DEF SilenceInv
<1>4. CASE TimePasses
  <2>1. /\ UNCHANGED linux /\ setup' = setup
    BY <1>4 DEF TimePasses
  <2>2. PICK d \in Nat \ {0} : Passes(d)
    BY <1>4, TimePassesClocks DEF TimeInv
  <2>3. /\ curr' = curr /\ FrameConfirmed' = FrameConfirmed /\ (Empty' <=> Empty)
        /\ T3t5' = T3t5 /\ Silence(setup)' = Silence(setup)
    BY <2>1, LinuxKept, NumbersKept DEF Empty
  <2>4. /\ wait'["silence"] # 0 /\ wait'["silence"] <= Silence(setup)
        /\ wait["silence"] = OFF => wait'["silence"] = OFF
    BY <1>1, <1>2, <2>2 DEF Passes, SilenceInv, OFF
  <2>5. ASSUME curr \in {"SOF", "RECV"}, Empty
        PROVE  wait'["silence"] <= wait'["timer"] + T3t5
    <3>1. wait["silence"] <= wait["timer"] + T3t5 /\ wait["timer"] # OFF
      BY <2>5, Structure DEF SilenceInv, TimeInv, ClockTypes
    <3> QED
      BY <1>1, <1>2, <2>2, <3>1 DEF Passes, OFF
  <2>6. ASSUME curr = "EOF" PROVE wait'["silence"] <= wait'["timer"]
    <3>1. wait["silence"] <= wait["timer"] /\ wait["timer"] # OFF
      BY <2>6, Structure DEF SilenceInv, TimeInv, ClockTypes
    <3> QED
      BY <1>1, <2>2, <3>1 DEF Passes, OFF
  <2> QED
    BY <2>3, <2>4, <2>5, <2>6 DEF SilenceInv
<1>5. CASE LinuxFrameBegins
  <2>1. /\ setup' = setup /\ UNCHANGED vars /\ wait'["silence"] = wait["silence"]
        /\ wait["byte"] = 0
    BY <1>5, FrameBeginsClocks DEF LinuxFrameBegins, FrameBegins, TimeInv, ClockTypes
  <2>2. frame = <<>>
    BY <1>5 DEF LinuxFrameBegins, FrameBegins, MasterSends
  <2>3. curr = "IDLE" /\ ~FrameConfirmed
    BY <2>1, <2>2, BeginsWhenQuiet, QuietIsIdle
  <2>4. curr' = curr /\ FrameConfirmed' = FrameConfirmed /\ Silence(setup)' = Silence(setup)
    BY <2>1, CoreKept, NumbersKept
  <2> QED
    BY <2>1, <2>3, <2>4 DEF SilenceInv
<1>6. CASE ByteCompletes
  <2>1. /\ curr \in {"IDLE", "SOF", "RECV"} /\ ~FrameConfirmed /\ queue' # <<>>
        /\ UNCHANGED vars /\ setup' = setup
    BY <1>6, ByteArrivesEffect DEF ByteCompletes
  <2>2. wait'["silence"] = Silence(setup)
    BY <1>6, ByteCompletesClocks
  <2>3. curr' = curr /\ FrameConfirmed' = FrameConfirmed /\ Silence(setup)' = Silence(setup)
    BY <2>1, CoreKept, NumbersKept
  <2> QED
    BY <1>2, <2>1, <2>2, <2>3 DEF SilenceInv, Empty
<1>7. CASE Sleeps
  <2>1. wait'["timer"] = wait["timer"]
    BY <1>7 DEF Sleeps, TimeInv, ClockTypes, ClocksOK, Clocks
  <2> QED
    BY <1>3, <1>7, <2>1, ThreadRunsClocks DEF Sleeps
<1>8. CASE Reads
  <2>1. /\ UNCHANGED vars /\ frame' = frame /\ pc = "recv_impl" /\ Fetch
        /\ setup' = setup /\ wait'["silence"] = wait["silence"]
    BY <1>8, ThreadRunsClocks
       DEF Reads, recv_impl, tty_read, tty_read_ll, Fetch, line, ThreadRuns, TimeInv
  <2>2. wait'["timer"] = wait["timer"]
    BY <1>8 DEF Reads, TimeInv, ClockTypes, ClocksOK, Clocks
  <2>3. /\ curr' = curr /\ FrameConfirmed' = FrameConfirmed
        /\ T3t5' = T3t5 /\ Silence(setup)' = Silence(setup)
    BY <2>1, CoreKept, NumbersKept
  <2>4. Empty' => Empty
    <3>1. chunk = <<>> /\ (queue # <<>> => chunk' # <<>>)
      BY <2>1, FetchEffect, Structure
    <3> QED
      BY <2>1, <3>1 DEF Empty
  <2> QED
    BY <2>1, <2>2, <2>3, <2>4 DEF SilenceInv
<1>9. CASE Takes
  <2>1. wait'["silence"] = wait["silence"] /\ setup' = setup
        /\ T3t5' = T3t5 /\ Silence(setup)' = Silence(setup)
    BY <1>9, ThreadRunsClocks, NumbersKept DEF ThreadRuns
  <2>2. wait \in [Clocks -> {OFF} \cup Nat] /\ "timer" \in Clocks
    BY DEF TimeInv, ClockTypes, ClocksOK, Clocks
  <2>3. CASE chunk = <<>>
    <3>1. UNCHANGED vars /\ chunk' = chunk /\ queue' = queue /\ frame' = frame /\ wait' = wait
      BY <1>9, <2>2, <2>3 DEF Takes, recv_loop, line
    <3>2. curr' = curr /\ FrameConfirmed' = FrameConfirmed /\ (Empty' <=> Empty)
      BY <3>1, CoreKept DEF Empty
    <3> QED
      BY <2>1, <3>1, <3>2 DEF SilenceInv
  <2>4. CASE chunk # <<>>
    <3>1. curr \in {"IDLE", "SOF", "RECV"}
      <4>1. curr # "BUSY" /\ curr \in States /\ ~Empty
        BY <1>9, <2>4, Structure DEF Takes, recv_loop, Empty
      <4> QED
        BY <4>1, Structure DEF States
    <3>2. curr' \in {"SOF", "RECV"} /\ timer' = "1t5"
      <4>1. curr \in {"SOF", "RECV"} => timer = "1t5"
        BY Structure
      <4>2. serial_recv_cb(Head(chunk))
        BY <1>9, <2>4 DEF Takes, recv_loop
      <4> QED
        BY <3>1, <4>1, <4>2 DEF serial_recv_cb, RTU_STATE_UPDATE, timer_start, timer_reset
    <3>3. wait'["timer"] = T1t5
      <4>1. Stamped = T1t5
        BY <2>1, <3>2 DEF Stamped, timeout_us, T1t5
      <4> QED
        BY <1>9, <2>2, <2>4, <3>1, <4>1 DEF Takes
    <3>4. wait["silence"] # 0 /\ wait["silence"] <= Silence(setup)
      BY DEF SilenceInv
    <3>5. wait["silence"] <= T1t5 + T3t5
      BY <1>1, <1>2, <3>4 DEF OFF
    <3> QED
      BY <2>1, <3>2, <3>3, <3>4, <3>5 DEF SilenceInv, FrameConfirmed
  <2> QED
    BY <2>3, <2>4
<1>10. CASE FindsTimeLeft
  <2>1. /\ UNCHANGED vars /\ chunk' = chunk /\ queue' = queue /\ frame' = frame /\ wait' = wait
        /\ setup' = setup
    BY <1>10 DEF FindsTimeLeft, not_elapsed, line
  <2>2. /\ curr' = curr /\ FrameConfirmed' = FrameConfirmed /\ (Empty' <=> Empty)
        /\ T3t5' = T3t5 /\ Silence(setup)' = Silence(setup)
    BY <2>1, CoreKept, NumbersKept DEF Empty
  <2> QED
    BY <2>1, <2>2 DEF SilenceInv
<1>11. CASE FindsTimeOver
  BY <1>11, FindsSilenceOver
<1>12. CASE EventRuns
  <2>1. wait'["silence"] = wait["silence"] /\ setup' = setup /\ frame' = frame
        /\ T3t5' = T3t5 /\ Silence(setup)' = Silence(setup)
    BY <1>12, ThreadRunsClocks, NumbersKept DEF ThreadRuns
  <2>2. ~FrameConfirmed'
    <3>1. pc' # "modbus_rtu_event"
      BY <1>12, EventRunsEffect DEF LinuxInv, ThreadControl
    <3> QED
      BY <3>1, NextConfirms
  <2>3. chunk' = chunk /\ queue' = queue /\ curr # "BUSY"
    BY <1>12, EventRunsEffect
  <2>4. curr' = curr \/ (FrameConfirmed /\ curr' \in {"IDLE", "BUSY"})
    BY <1>12, EventRunsEffect
  <2>5. curr # "INIT" => wait'["timer"] = wait["timer"]
    BY <1>12, EventRunsClocks
  <2> QED
    BY <2>1, <2>2, <2>3, <2>4, <2>5 DEF SilenceInv, Empty
<1>13. CASE ReplyOut
  BY <1>3, <1>13 DEF ReplyOut, TimeInv, ClockTypes, ClocksOK, Clocks
<1>14. CASE Drained
  <2>1. /\ pc = "send_impl" /\ serial_sent_cb /\ setup' = setup
        /\ wait'["silence"] = wait["silence"]
    BY <1>14 DEF Drained, send_impl, TimeInv, ClockTypes, ClocksOK, Clocks
  <2>2. curr' = "INIT"
    BY <2>1, Structure DEF serial_sent_cb, RTU_STATE_UPDATE
  <2>3. Silence(setup)' = Silence(setup)
    BY <2>1, NumbersKept
  <2> QED
    BY <2>1, <2>2, <2>3 DEF SilenceInv, FrameConfirmed
<1>15. CASE UNCHANGED vtimed
  BY <1>3, <1>15 DEF vtimed
<1> QED
  BY <1>4, <1>5, <1>6, <1>7, <1>8, <1>9, <1>10, <1>11, <1>12, <1>13, <1>14, <1>15
     DEF LinuxTimedNext

(* However late the thread reads, a reply begins after 3.5 characters of silence,
   as the comment on the state machine asks (rtu.c:69-71): 1.5t runs from the
   read of the last byte and 3.5t from the end of 1.5t, and both together are as
   long.  By LinuxDefaults the timeouts of the rates from 19200 bit/s are. *)
THEOREM LinuxRepliesKeepSilence ==
  ASSUME OnTime, TimersSuffice PROVE LinuxTimedSpec => []ReplyKeepsSilence
<1>1. LinuxTimedInit => SilenceInv
  BY SilenceInvInit
<1>2. LinuxInv /\ TimeInv /\ SilenceInv /\ [LinuxTimedNext]_vtimed => SilenceInv'
  BY SilenceInvNext
<1>3. LinuxInv /\ TimeInv /\ SilenceInv => ReplyKeepsSilence
  BY Structure DEF SilenceInv, ReplyKeepsSilence
<1> QED
  BY <1>1, <1>2, <1>3, InTime, PTL DEF LinuxTimedSpec

----------------------------------------------------------------------------
(* The timeout of the master. *)

TimeoutSuffices == \A s \in Setups : TimeoutIsLong(s)

(* The times of a call are times. *)
LEMMA CallNumbers ==
  ASSUME OnTime, setup \in Setups
  PROVE  /\ NextByteTime \in Nat /\ ReplyTime \in Nat /\ ProcessingTime(setup) \in Nat
         /\ \A gap \in Gaps(setup) :
                ByteTime(setup) + gap \in Nat /\ ByteTime(setup) + gap <= NextByteTime
<1>1. ByteTime(setup) \in Nat /\ ReplySize \in Nat
  BY ByteTimeType, ReplySizes
<1>2. ReplyTime \in Nat
  BY <1>1 DEF ReplyTime
<1>3. /\ Gaps(setup) \subseteq Nat /\ Max(Gaps(setup)) \in Nat
      /\ \A gap \in Gaps(setup) : gap <= Max(Gaps(setup))
  BY LongestType
<1>4. ProcessingTime(setup) \in Nat
  BY Numbers
<1> QED
  BY <1>1, <1>2, <1>3, <1>4 DEF NextByteTime

(* What is left to do when the last byte has arrived is ProcessingTime at most. *)
LEMMA LeftAtLastByte ==
  ASSUME OnTime, LinuxInv, TimeInv, ByteCompletes
  PROVE  Left' \in Nat /\ Left' <= ProcessingTime(setup)
<1>1. ByteArrives /\ setup' = setup
  BY DEF ByteCompletes
<1>2. curr \in {"IDLE", "SOF", "RECV"} /\ queue' # <<>> /\ timer' = timer
  BY <1>1, ByteArrivesEffect
<1>3. /\ T1t5 \in Nat /\ T3t5 \in Nat /\ LatencyMax \in Nat
      /\ \A l \in Latencies : l \in Nat /\ l <= LatencyMax
      /\ ProcessingTime(setup) = 2 * T1t5 + T3t5 + 3 * LatencyMax
  BY Numbers DEF TimeInv, ClockTypes
<1>4. T1t5' = T1t5 /\ T3t5' = T3t5 /\ LatencyMax' = LatencyMax
  BY <1>1, NumbersKept
<1>5. Interval \in Nat /\ Interval <= T1t5
  BY <1>2, <1>3, Structure DEF Interval, timeout_us, T1t5
<1>6. wait["loop"] # OFF => wait["loop"] \in Nat /\ wait["loop"] <= Interval + LatencyMax
  BY AwakeThread DEF TimeInv, SleepInv
<1>7. IF Polls THEN wait'["loop"] \in Latencies ELSE wait'["loop"] = wait["loop"]
  BY ByteCompletesClocks
<1>8. Running("loop")' \in Nat /\ Running("loop")' <= T1t5 + LatencyMax
  <2>1. CASE wait'["loop"] = OFF
    BY <1>3, <2>1 DEF Running
  <2>2. CASE wait'["loop"] # OFF
    <3>1. Running("loop")' = wait'["loop"]
      BY <2>2 DEF Running
    <3>2. wait'["loop"] \in Nat /\ wait'["loop"] <= T1t5 + LatencyMax
      BY <1>3, <1>5, <1>6, <1>7, <2>2
    <3> QED
      BY <3>1, <3>2
  <2> QED
    BY <2>1, <2>2
<1>9. Left' = Running("loop")' + T1t5 + T3t5 + 2 * LatencyMax
  BY <1>2, <1>4 DEF Left
<1> QED
  BY <1>3, <1>8, <1>9

LEMMA CallInvTimePasses ==
  ASSUME OnTime, LinuxInv, TimeInv, CallInv, TimePasses
  PROVE  CallInv'
<1>1. UNCHANGED linux /\ setup' = setup
  BY DEF TimePasses
<1>2. PICK d \in Nat \ {0} : Passes(d)
  BY TimePassesClocks DEF TimeInv
<1>3. /\ frame' = frame /\ owed' = owed /\ NextByteTime' = NextByteTime
      /\ ReplyTime' = ReplyTime /\ ProcessingTime(setup)' = ProcessingTime(setup)
  BY <1>1, LinuxKept, NumbersKept
<1>4. /\ IF wait["byte"] = OFF THEN wait'["byte"] = OFF
                               ELSE d <= wait["byte"] /\ wait'["byte"] = wait["byte"] - d
      /\ IF wait["call"] = OFF THEN wait'["call"] = OFF
                               ELSE d <= wait["call"] /\ wait'["call"] = wait["call"] - d
      /\ IF wait["reply"] = OFF THEN wait'["reply"] = OFF
                                ELSE d <= wait["reply"] /\ wait'["reply"] = wait["reply"] - d
  BY <1>2 DEF Passes
<1> SUFFICES ASSUME wait["call"] # OFF PROVE CallInv'
  BY <1>4 DEF CallInv
<1>5. /\ wait["byte"] \in Int /\ wait["call"] \in Int /\ wait["reply"] \in Int
  BY ClocksTyped DEF TimeInv, ClockTypes
<1>6. NextByteTime \in Nat /\ ReplyTime \in Nat /\ ProcessingTime(setup) \in Nat
  BY CallNumbers DEF TimeInv, ClockTypes
<1>7. ASSUME frame # <<>>
      PROVE  wait'["byte"] + (Len(frame) - 1) * NextByteTime + ProcessingTime(setup) + ReplyTime
                < wait'["call"]
  <2> DEFINE rest == (Len(frame) - 1) * NextByteTime
  <2>1. wait["byte"] # OFF
    BY <1>7 DEF TimeInv, FrameInv
  <2>2. wait["byte"] + rest + ProcessingTime(setup) + ReplyTime < wait["call"]
    BY <1>7 DEF CallInv
  <2>3. rest \in Int
    <3>1. Len(frame) \in Nat
      <4>1. frame \in Seq(Byte)
        BY FrameSeq DEF LinuxInv
      <4> QED
        BY <4>1
    <3> QED
      BY <1>6, <3>1
  <2> HIDE DEF rest
  <2>4. wait'["byte"] + rest + ProcessingTime(setup) + ReplyTime < wait'["call"]
    BY <1>4, <1>5, <1>6, <2>1, <2>2, <2>3
  <2> QED
    BY <2>4 DEF rest
<1>8. ASSUME frame = <<>>, owed # <<>> PROVE Left' + ReplyTime < wait'["call"]
  <2>1. ~Quiet
    BY <1>8, QuietIsIdle
  <2>2. wait["reply"] = OFF
    <3>1. ~sending
      BY <1>8, Structure
    <3> QED
      BY <3>1 DEF TimeInv, ClockTypes
  <2>3. d <= Left /\ Left' = Left - d /\ Left \in Nat
    BY <1>2, <1>8, <2>1, <2>2, TimePassesLeft, LeftType DEF TimeInv
  <2>4. Left + ReplyTime < wait["call"]
    BY <1>8 DEF CallInv
  <2> QED
    BY <1>4, <1>5, <1>6, <2>3, <2>4
<1>9. ASSUME owed = <<>> PROVE wait'["reply"] < wait'["call"]
  <2>1. wait["reply"] # OFF /\ wait["reply"] < wait["call"]
    BY <1>9 DEF TimeInv, AnswerInv, CallInv
  <2> QED
    BY <1>4, <1>5, <2>1
<1> QED
  BY <1>3, <1>7, <1>8, <1>9 DEF CallInv

LEMMA CallInvFrameBegins ==
  ASSUME OnTime, TimeoutSuffices, LinuxInv, TimeInv, LinuxFrameBegins
  PROVE  CallInv'
<1>1. FrameBegins /\ setup' = setup /\ setup \in Setups /\ ClocksOK
  BY DEF LinuxFrameBegins, FrameBegins, TimeInv, ClockTypes
<1>2. wait'["byte"] = 0
  BY <1>1, FrameBeginsClocks
<1>3. PICK f \in Frames :
        /\ MasterSends(f)
        /\ wait'["call"] = IF Answered(f) THEN read_impl(setup) - ByteTime(setup) ELSE OFF
  BY <1>1, FrameBeginsClocks
<1>4. f # <<>> /\ frame' = f /\ owed' = f
  BY <1>3, FramesAssumption, GoodFramesAssumption DEF MasterSends
<1> SUFFICES ASSUME Answered(f) PROVE CallInv'
  BY <1>3 DEF CallInv
<1> DEFINE rest == (Len(f) - 1) * NextByteTime
<1>5. ByteTime(setup) + rest + ProcessingTime(setup) + ReplyTime < read_impl(setup)
  <2>1. TimeoutIsLong(setup)
    BY <1>1 DEF TimeoutSuffices
  <2> QED
    BY <2>1 DEF TimeoutIsLong, NextByteTime, ReplyTime
<1>6. /\ ByteTime(setup) \in Nat /\ read_impl(setup) \in Nat
      /\ ProcessingTime(setup) \in Nat /\ ReplyTime \in Nat /\ NextByteTime \in Nat
  BY <1>1, CallNumbers, ByteTimeType, TimeoutType
<1>7. rest \in Int
  <2>1. Len(f) \in Nat
    <3>1. f \in Seq(Byte)
      BY FramesAssumption
    <3> QED
      BY <3>1
  <2> QED
    BY <1>6, <2>1
<1> HIDE DEF rest
<1>8. 0 + rest + ProcessingTime(setup) + ReplyTime < read_impl(setup) - ByteTime(setup)
  BY <1>5, <1>6, <1>7
<1>9. /\ NextByteTime' = NextByteTime
      /\ ReplyTime' = ReplyTime /\ ProcessingTime(setup)' = ProcessingTime(setup)
  BY <1>1, NumbersKept
<1>10. wait'["byte"] + (Len(frame') - 1) * NextByteTime' + ProcessingTime(setup)' + ReplyTime'
         < wait'["call"]
  BY <1>2, <1>3, <1>4, <1>8, <1>9 DEF rest
<1> QED
  BY <1>4, <1>10 DEF CallInv

LEMMA CallInvByteCompletes ==
  ASSUME OnTime, LinuxInv, TimeInv, CallInv, ByteCompletes
  PROVE  CallInv'
<1>1. ByteArrives /\ setup' = setup /\ wait["byte"] = 0
  BY DEF ByteCompletes
<1>2. /\ owed # <<>> /\ owed' = owed
      /\ frame # <<>> /\ Len(frame) \in Nat /\ Len(frame) >= 1
      /\ frame' = <<>> <=> Len(frame) = 1
      /\ Len(frame') = Len(frame) - 1
  BY <1>1, ByteArrivesEffect
<1>3. wait'["byte"] \in NextByte /\ wait'["call"] = wait["call"]
  BY ByteCompletesClocks
<1> SUFFICES ASSUME wait["call"] # OFF PROVE CallInv'
  BY <1>3 DEF CallInv
<1>4. /\ NextByteTime \in Nat /\ ReplyTime \in Nat /\ ProcessingTime(setup) \in Nat
      /\ \A gap \in Gaps(setup) :
             ByteTime(setup) + gap \in Nat /\ ByteTime(setup) + gap <= NextByteTime
  BY CallNumbers DEF TimeInv, ClockTypes
<1>5. wait["call"] \in Int
  BY ClocksTyped DEF TimeInv, ClockTypes
<1>6. /\ NextByteTime' = NextByteTime
      /\ ReplyTime' = ReplyTime /\ ProcessingTime(setup)' = ProcessingTime(setup)
  BY <1>1, NumbersKept
<1> DEFINE rest == (Len(frame) - 1) * NextByteTime
           less == (Len(frame) - 1 - 1) * NextByteTime
<1>7. Len(frame) \in Nat \ {0}
  BY <1>2
<1>8. /\ rest \in Nat /\ less \in Int
      /\ Len(frame) > 1 => NextByteTime + less = rest
      /\ Len(frame) = 1 => rest = 0
  BY <1>4, <1>7, OneByteLess
<1>9. rest + ProcessingTime(setup) + ReplyTime < wait["call"]
  <2>1. 0 + rest = rest
    BY <1>8
  <2> QED
    BY <1>1, <1>2, <2>1 DEF CallInv
<1> HIDE DEF rest, less
<1>10. CASE Len(frame) > 1
  <2>1. PICK gap \in Gaps(setup) : wait'["byte"] = ByteTime(setup) + gap
    BY <1>3, <1>10 DEF NextByte
  <2>2. wait'["byte"] \in Nat /\ wait'["byte"] <= NextByteTime
    BY <1>4, <2>1
  <2>3. less \in Int /\ NextByteTime + less = rest
    BY <1>8, <1>10
  <2>4. wait'["byte"] + less + ProcessingTime(setup) + ReplyTime < wait["call"]
    BY <1>4, <1>5, <1>9, <2>2, <2>3
  <2>5. wait'["byte"] + (Len(frame') - 1) * NextByteTime' + ProcessingTime(setup)' + ReplyTime'
          < wait'["call"]
    BY <1>2, <1>3, <1>6, <2>4 DEF less
  <2>6. frame' # <<>>
    <3>1. \A n \in Nat : n > 1 => n # 1
      OBVIOUS
    <3> QED
      BY <1>2, <1>10, <3>1, Zenon
  <2> QED
    BY <1>2, <2>5, <2>6 DEF CallInv
<1>11. CASE Len(frame) = 1
  <2>1. Left' \in Nat /\ Left' <= ProcessingTime(setup)
    BY LeftAtLastByte
  <2>2. ProcessingTime(setup) + ReplyTime < wait["call"]
    BY <1>4, <1>5, <1>8, <1>9, <1>11
  <2>3. Left' + ReplyTime < wait["call"]
    BY <1>4, <1>5, <2>1, <2>2
  <2>4. Left' + ReplyTime' < wait'["call"]
    BY <1>3, <1>6, <2>3
  <2> QED
    BY <1>2, <1>11, <2>4 DEF CallInv
<1>12. Len(frame) > 1 \/ Len(frame) = 1
  BY <1>1, ByteArrivesEffect
<1> QED
  BY <1>10, <1>11, <1>12

(* A step of the thread that takes no frame leaves the call its time. *)
LEMMA CallInvThread ==
  ASSUME OnTime, LinuxInv, TimeInv, CallInv, Sleeps \/ ThreadRuns, owed' = owed, LeftNotMore
  PROVE  CallInv'
<1>1. /\ pc # "send_impl" /\ setup' = setup /\ frame' = frame
      /\ wait'["byte"] = wait["byte"] /\ wait'["call"] = wait["call"]
  BY ThreadRunsClocks
<1>2. Left' \in Int /\ Left' <= Left /\ Left \in Nat
  BY LeftType DEF TimeInv, LeftNotMore
<1>3. /\ NextByteTime' = NextByteTime
      /\ ReplyTime' = ReplyTime /\ ProcessingTime(setup)' = ProcessingTime(setup)
  BY <1>1, NumbersKept
<1>4. owed = <<>> => wait["call"] = OFF
  BY <1>1, AwakeThread DEF TimeInv, AnswerInv
<1>5. ASSUME wait["call"] # OFF, frame = <<>> PROVE Left' + ReplyTime < wait["call"]
  <2>1. Left + ReplyTime < wait["call"]
    BY <1>4, <1>5 DEF CallInv
  <2>2. ReplyTime \in Nat /\ wait["call"] \in Int
    BY CallNumbers, ClocksTyped DEF TimeInv, ClockTypes
  <2> QED
    BY <1>2, <2>1, <2>2
<1> QED
  BY <1>1, <1>3, <1>4, <1>5 DEF CallInv

(* When the frame is taken, the reply is what is left. *)
LEMMA CallInvFrame ==
  ASSUME OnTime, LinuxInv, TimeInv, CallInv, EventRuns, owed' # owed
  PROVE  CallInv'
<1>1. /\ FrameConfirmed /\ Empty /\ owed' = <<>>
      /\ \/ ~Answered(owed) /\ curr' = "IDLE" /\ ~sending'
         \/ Answered(owed) /\ curr' = "BUSY" /\ sending' /\ Len(txbuf') = ReplySize
  BY EventRunsEffect
<1>2. /\ frame' = frame /\ wait'["call"] = wait["call"]
  BY ThreadRunsClocks DEF ThreadRuns
<1>3. owed # <<>> /\ curr = "IDLE"
  BY <1>1 DEF FrameConfirmed
<1> SUFFICES ASSUME wait["call"] # OFF PROVE wait'["reply"] < wait["call"]
  BY <1>1, <1>2 DEF CallInv, Empty
<1>4. Answered(owed)
  BY <1>3 DEF TimeInv, AnswerInv
<1>5. wait'["reply"] = ReplyTime
  BY <1>1, <1>4, EventRunsClocks DEF ReplyTime
<1>6. Left = 0 /\ Left + ReplyTime < wait["call"]
  BY <1>1, <1>3 DEF CallInv, Left, Empty
<1>7. ReplyTime \in Nat /\ wait["call"] \in Int
  BY CallNumbers, ClocksTyped DEF TimeInv, ClockTypes
<1> QED
  BY <1>5, <1>6, <1>7

LEMMA CallInvNext ==
  ASSUME OnTime, TimeoutSuffices, LinuxInv, TimeInv, CallInv, [LinuxTimedNext]_vtimed
  PROVE  CallInv'
<1>1. CASE Sleeps \/ ThreadRuns
  <2>1. LeftNotMore
    BY <1>1, SleepsInv, ReadsInv, TakesInv, FindsTimeLeftInv, FindsTimeOverInv, EventRunsInv
       DEF ThreadRuns
  <2>2. owed' # owed => EventRuns
    <3>1. Sleeps => owed' = owed
      BY LinuxKept DEF Sleeps
    <3>2. Reads \/ Takes \/ FindsTimeLeft \/ FindsTimeOver => owed' = owed
      BY DEF Reads, recv_impl, Takes, recv_loop, FindsTimeLeft, not_elapsed, FindsTimeOver, line
    <3> QED
      BY <1>1, <3>1, <3>2 DEF ThreadRuns
  <2> QED
    BY <1>1, <2>1, <2>2, CallInvThread, CallInvFrame
<1>2. CASE ReplyOut
  <2>1. wait'["call"] = OFF
    BY <1>2 DEF ReplyOut, TimeInv, ClockTypes, ClocksOK, Clocks
  <2> QED
    BY <2>1 DEF CallInv
<1>3. CASE Drained
  <2>1. pc = "send_impl" /\ wait["loop"] = 0 /\ wait'["call"] = wait["call"]
    BY <1>3 DEF Drained, send_impl, TimeInv, ClockTypes, ClocksOK, Clocks
  <2>2. wait["reply"] = OFF /\ owed = <<>>
    <3>1. wait["loop"] # OFF
      BY <2>1 DEF OFF
    <3> QED
      BY <2>1, <3>1, Structure DEF TimeInv, ClockTypes
  <2>3. wait["call"] = OFF
    BY <2>2 DEF TimeInv, AnswerInv
  <2> QED
    BY <2>1, <2>3 DEF CallInv
<1>4. CASE UNCHANGED vtimed
  <2>1. UNCHANGED linux /\ setup' = setup /\ wait' = wait
    BY <1>4 DEF vtimed
  <2>2. /\ frame' = frame /\ owed' = owed /\ chunk' = chunk /\ queue' = queue
        /\ curr' = curr /\ updated' = updated
        /\ T1t5' = T1t5 /\ T3t5' = T3t5 /\ LatencyMax' = LatencyMax
        /\ NextByteTime' = NextByteTime /\ ReplyTime' = ReplyTime
        /\ ProcessingTime(setup)' = ProcessingTime(setup)
    BY <2>1, LinuxKept, NumbersKept
  <2>3. Left' = Left
    BY <2>1, <2>2 DEF Left, Running
  <2> QED
    BY <2>1, <2>2, <2>3 DEF CallInv
<1> QED
  BY <1>1, <1>2, <1>3, <1>4, CallInvTimePasses, CallInvFrameBegins, CallInvByteCompletes
     DEF LinuxTimedNext, ThreadRuns

LEMMA CallsInTime ==
  ASSUME OnTime, TimeoutSuffices PROVE LinuxTimedSpec => [](LinuxInv /\ TimeInv /\ CallInv)
<1>1. LinuxTimedInit => CallInv
  BY DEF LinuxTimedInit, CallInv
<1>2. LinuxInv /\ TimeInv /\ CallInv /\ [LinuxTimedNext]_vtimed => CallInv'
  BY CallInvNext
<1> QED
  BY <1>1, <1>2, InTime, PTL DEF LinuxTimedSpec

(* A call that waits has time left. *)
LEMMA CallHasTime ==
  ASSUME OnTime, LinuxInv, TimeInv, CallInv
  PROVE  ReplyComesInTime
<1> SUFFICES ASSUME wait["call"] # OFF PROVE wait["call"] > 0
  BY ClocksTyped DEF ReplyComesInTime, TimeInv, ClockTypes, OFF
<1>1. NextByteTime \in Nat /\ ReplyTime \in Nat /\ ProcessingTime(setup) \in Nat
  BY CallNumbers DEF TimeInv, ClockTypes
<1>2. /\ wait["byte"] # OFF => wait["byte"] \in Nat
      /\ wait["reply"] # OFF => wait["reply"] \in Nat
      /\ wait["call"] \in Int
  BY ClocksTyped DEF TimeInv, ClockTypes
<1>3. CASE frame # <<>>
  <2> DEFINE rest == (Len(frame) - 1) * NextByteTime
  <2>1. wait["byte"] # OFF
    BY <1>3 DEF TimeInv, FrameInv
  <2>2. wait["byte"] + rest + ProcessingTime(setup) + ReplyTime < wait["call"]
    BY <1>3 DEF CallInv
  <2>3. rest \in Nat
    <3>1. frame \in Seq(Byte)
      BY FrameSeq DEF LinuxInv
    <3>2. Len(frame) \in Nat \ {0}
      BY <1>3, <3>1, EmptySeq
    <3> QED
      BY <1>1, <3>2, OneByteLess
  <2> HIDE DEF rest
  <2> QED
    BY <1>1, <1>2, <2>1, <2>2, <2>3
<1>4. CASE frame = <<>> /\ owed # <<>>
  <2>1. Left + ReplyTime < wait["call"] /\ Left \in Nat
    BY <1>4, LeftType DEF CallInv, TimeInv
  <2> QED
    BY <1>1, <1>2, <2>1
<1>5. CASE owed = <<>>
  <2>1. wait["reply"] # OFF /\ wait["reply"] < wait["call"]
    BY <1>5 DEF TimeInv, AnswerInv, CallInv
  <2> QED
    BY <1>2, <2>1
<1> QED
  BY <1>3, <1>4, <1>5

(* A call of the master does not time out: with a timeout longer than the request,
   the time that the slave may need, its late reads included, and the reply,
   read_impl sees the whole reply, although its time runs from write_impl. *)
THEOREM LinuxRepliesComeInTime ==
  ASSUME OnTime, TimeoutSuffices PROVE LinuxTimedSpec => []ReplyComesInTime
<1>1. LinuxInv /\ TimeInv /\ CallInv => ReplyComesInTime
  BY CallHasTime
<1> QED
  BY <1>1, CallsInTime, PTL

(* And every frame, also one that is not answered, has been through
   modbus_rtu_event when the master's next frame begins. *)
THEOREM LinuxFramesProcessedInTime ==
  ASSUME OnTime, TimeoutSuffices PROVE LinuxTimedSpec => []ProcessedInTime
<1>1. LinuxInv /\ TimeInv /\ CallInv => ProcessedInTime
  BY CallHasTime, BeginsWhenQuiet, QuietIsIdle DEF ProcessedInTime, ReplyComesInTime
<1> QED
  BY <1>1, CallsInTime, PTL

----------------------------------------------------------------------------
(* The numbers of the program. *)

(* The timeouts that the program takes by default (calc_1t5_us and calc_3t5_us)
   keep 1.5t longer than a byte, and 1.5t and 3.5t together as long as 3.5
   characters, from 19200 bit/s on and at no lower rate.  There 1.5t, which runs
   from the end of a byte to the end of the next one, has no room for that byte,
   whatever gaps the master leaves. *)
THEOREM LinuxDefaults ==
  ASSUME NEW s \in Setups, s.t1t5 = -1, s.t3t5 = -1
  PROVE  /\ TimersAreLong(s) <=> Bps(s) >= 19200
         /\ ByteTime(s) < timeout_1t5_us(s) <=> Bps(s) >= 19200
         /\ Bps(s) < 19200 => ~GapsAreShort(s)
<1> DEFINE rate == parse_speed(s.rate)
           us15 == calc_1t5_us(rate)
           us35 == calc_3t5_us(rate)
<1>1. s.port = "linux"
  BY OptionsAssumption
<1>2. Bps(s) = tty_bps(rate) /\ Bps(s) \in Rates
  BY <1>1, RatesOfStrings DEF Bps
<1>3. us15 \in Nat /\ us35 \in Nat
  BY <1>2 DEF calc_1t5_us, calc_3t5_us, Rates
<1>4. timeout_1t5_us(s) = us15 /\ timeout_3t5_us(s) = us35
  BY DEF timeout_1t5_us, timeout_3t5_us
<1>5. /\ Silence(s) <= us15 + us35 <=> Bps(s) >= 19200
      /\ ByteTime(s) < us15 <=> Bps(s) >= 19200
  <2> USE <1>2 DEF Silence, ByteTime, calc_1t5_us, calc_3t5_us
  <2>1. CASE Bps(s) = 1200
    BY <2>1
  <2>2. CASE Bps(s) = 2400
    BY <2>2
  <2>3. CASE Bps(s) = 4800
    BY <2>3
  <2>4. CASE Bps(s) = 9600
    BY <2>4
  <2>5. CASE Bps(s) \in {19200, 57600, 115200}
    BY <2>5
  <2> QED
    BY <1>2, <2>1, <2>2, <2>3, <2>4, <2>5 DEF Rates
<1>6. ASSUME Bps(s) < 19200 PROVE ~GapsAreShort(s)
  <2>1. PICK gap \in Gaps(s) : gap \in Nat
    BY TimingAssumption DEF HasLongest
  <2>2. ByteTime(s) \in Nat /\ Bps(s) \in Int
    BY <1>2, ByteTimeType DEF Rates
  <2> HIDE DEF us15
  <2>3. us15 <= ByteTime(s) + gap
    BY <1>3, <1>5, <1>6, <2>1, <2>2
  <2> QED
    BY <1>3, <1>4, <2>1, <2>2, <2>3 DEF GapsAreShort
<1> QED
  BY <1>4, <1>5, <1>6 DEF TimersAreLong

(* No options -t and -T make the slave both keep 3.5 characters of silence before
   its replies and be ready for a master that leaves 3.5 characters between its
   frames: tty_read_ll may read the last byte 1.5t late, and 1.5t is longer than
   the byte that follows the silence. *)
THEOREM LinuxNeedsMoreSilence ==
  ASSUME NEW s \in Setups, GapsAreShort(s), TimersAreLong(s), Space(s) <= Silence(s)
  PROVE  ~SpaceIsLong(s)
<1> DEFINE us15 == timeout_1t5_us(s)
           us35 == timeout_3t5_us(s)
<1>1. us15 \in Nat /\ us35 \in Nat /\ ByteTime(s) \in Nat /\ Silence(s) \in Nat
  BY TimeoutsType, ByteTimeType, SilenceType
<1>2. Space(s) \in Nat /\ LatencyMax \in Nat
  BY LongestType
<1>3. ByteTime(s) < us15
  <2>1. PICK gap \in Gaps(s) : gap \in Nat
    BY TimingAssumption DEF HasLongest
  <2>2. ByteTime(s) + gap < us15
    BY <2>1 DEF GapsAreShort
  <2> HIDE DEF us15
  <2> QED
    BY <1>1, <2>1, <2>2
<1>4. Silence(s) <= us15 + us35
  BY DEF TimersAreLong
<1>5. ProcessingTime(s) = 2 * us15 + us35 + 3 * LatencyMax
  BY DEF ProcessingTime, LatencyMax
<1> HIDE DEF us15, us35
<1>6. Space(s) + ByteTime(s) < 2 * us15 + us35 + 3 * LatencyMax
  BY <1>1, <1>2, <1>3, <1>4
<1> QED
  BY <1>1, <1>2, <1>5, <1>6 DEF SpaceIsLong

============================================================================
