--------------------------- MODULE McuTimedProofs ---------------------------
(***************************************************************************)
(* TLAPS proofs about McuTimed, for masters of any numbers: it implements   *)
(* the core, and the order of instants that its properties are about       *)
(* follows from four inequalities between the durations of a setup.        *)
(***************************************************************************)
EXTENDS McuTimed, TimedLineProofs

----------------------------------------------------------------------------
(* The inductive invariants. *)

(* There is always a clock for time to run to: a master that does not send
   waits for a reply. *)
MasterWaits == wait["byte"] = OFF => wait["call"] # OFF

(* Nothing of a frame is on the line or in rxbuf, and none is owed. *)
Quiet == frame = <<>> /\ owed = <<>> /\ rxbuf = <<>>

InInit ==
    curr = "INIT" =>
        /\ Quiet
        /\ wait["byte"] # OFF
        /\ wait["call"] = OFF
        /\ IF updated
             THEN /\ timer = "off"
                  /\ wait["loop"] # OFF
                  /\ wait["loop"] + Longest(setup, "3t5") < wait["byte"]
             ELSE timer = "3t5" /\ wait["timer"] < wait["byte"]

(* A confirmed frame waits for modbus_rtu_event, or the slave for a frame. *)
InIdle ==
    curr = "IDLE" =>
        IF updated /\ prev = "EOF"
          THEN frame = <<>> /\ rxbuf = owed /\ CallWaits /\ wait["loop"] # OFF
                 /\ Due(wait["loop"])
          ELSE /\ rxbuf = <<>>
               /\ wait["byte"] # OFF
               /\ IF frame = <<>> THEN owed = <<>> /\ wait["call"] = OFF
                                  ELSE frame = owed /\ CallWaits /\ wait["byte"] = 0

(* The bytes of the frame are on the line or in rxbuf. *)
Assembled ==
    \E n \in 1 .. Len(owed) :
        /\ frame = Rest(owed, n)
        /\ rxbuf = Part(owed, 0, n)
        /\ curr = "SOF" => n = 1

(* The next byte of a frame comes before the timer expires. *)
InFrame ==
    curr \in {"SOF", "RECV"} =>
        /\ CallWaits
        /\ Assembled
        /\ IF frame # <<>>
             THEN wait["byte"] # OFF /\ wait["byte"] < wait["timer"]
             ELSE Due(wait["timer"] + Longest(setup, "3t5") + LatencyMax)

InEof ==
    curr = "EOF" =>
        frame = <<>> /\ rxbuf = owed /\ CallWaits /\ Due(wait["timer"] + LatencyMax)

InBusy ==
    curr = "BUSY" => Quiet /\ wait["byte"] = OFF /\ wait["call"] # OFF

(* What is on the line, in rxbuf and on the clocks in each state. *)
LineInv ==
    /\ ~error
    /\ sending <=> curr = "BUSY"
    /\ wait["loop"] <= LatencyMax
    /\ InInit
    /\ InIdle
    /\ InFrame
    /\ InEof
    /\ InBusy

(* The silence after the last byte is over when the end of the frame is
   confirmed. *)
SilenceInv ==
    /\ wait["silence"] # 0
    /\ curr \in {"SOF", "RECV"} =>
            wait["silence"] <= wait["timer"] + Shortest(setup, "3t5")
    /\ curr = "EOF" => wait["silence"] <= wait["timer"]
    /\ curr = "IDLE" /\ updated /\ prev = "EOF" => wait["silence"] = OFF
    /\ curr = "BUSY" => wait["silence"] = OFF

(* The main loop sees the first byte of a frame before the second is complete,
   and tells the application of it. *)
SuspendInv ==
    /\ curr = "SOF" /\ ~suspended =>
            /\ updated /\ prev = "IDLE" /\ frame # <<>>
            /\ wait["loop"] # OFF /\ wait["loop"] < wait["byte"]
    /\ curr \in {"RECV", "EOF"} => suspended
    /\ curr = "IDLE" /\ updated /\ prev = "EOF" => suspended

(* What is left on the clock of a call is enough for what is left to do. *)
CallInv ==
    wait["call"] # OFF =>
        /\ curr = "IDLE" /\ frame # <<>> =>
                (Len(frame) - 1) * NextByteTime + ProcessingTime(setup) + ReplyTime
                    < wait["call"]
        /\ curr \in {"SOF", "RECV"} =>
                IF frame # <<>>
                  THEN wait["byte"] + (Len(frame) - 1) * NextByteTime
                         + ProcessingTime(setup) + ReplyTime < wait["call"]
                  ELSE wait["timer"] + Longest(setup, "3t5") + LatencyMax + ReplyTime
                         < wait["call"]
        /\ curr = "EOF" => wait["timer"] + LatencyMax + ReplyTime < wait["call"]
        /\ curr = "IDLE" /\ frame = <<>> => wait["loop"] + ReplyTime < wait["call"]
        /\ curr = "BUSY" => wait["reply"] < wait["call"]

----------------------------------------------------------------------------
(* The numbers of a setup. *)

LEMMA TicksType ==
  ASSUME NEW n \in Nat, NEW us \in Nat
  PROVE  /\ Ticks(n, us) \subseteq Nat
         /\ n * us \in Ticks(n, us) /\ \A t \in Ticks(n, us) : n * us <= t
         /\ (n + 1) * us \in Ticks(n, us) /\ \A t \in Ticks(n, us) : t <= (n + 1) * us
<1>1. n * us \in Nat /\ (n + 1) * us \in Nat /\ n * us <= (n + 1) * us
  OBVIOUS
<1> QED
  BY <1>1 DEF Ticks

(* A timer of n ticks expires after n * us at the earliest and (n + 1) * us at
   the latest. *)
LEMMA TicksBounds ==
  ASSUME NEW n \in Nat, NEW us \in Nat
  PROVE  Max(Ticks(n, us)) = (n + 1) * us /\ Min(Ticks(n, us)) = n * us
<1> DEFINE S  == Ticks(n, us)
           lo == n * us
           hi == (n + 1) * us
<1>0. /\ S \subseteq Nat
      /\ lo \in S /\ \A t \in S : lo <= t
      /\ hi \in S /\ \A t \in S : t <= hi
  BY TicksType
<1> HIDE DEF S, lo, hi
<1>1. S \subseteq Int /\ HasLongest(S)
  BY <1>0 DEF HasLongest
<1>2. Max(S) \in S /\ \A t \in S : t <= Max(S)
  BY <1>1, MaxIsLongest
<1>3. Min(S) \in S /\ \A t \in S : Min(S) <= t
  BY <1>0, <1>1, MinIsShortest
<1>4. Max(S) = hi
  <2>1. Max(S) \in Int /\ hi \in Int /\ Max(S) <= hi /\ hi <= Max(S)
    BY <1>0, <1>1, <1>2
  <2> QED
    BY <2>1
<1>5. Min(S) = lo
  <2>1. Min(S) \in Int /\ lo \in Int /\ Min(S) <= lo /\ lo <= Min(S)
    BY <1>0, <1>1, <1>3
  <2> QED
    BY <2>1
<1> QED
  BY <1>4, <1>5 DEF S, lo, hi

Intervals == {"1t5", "3t5"}

(* A timer runs for a time between the shortest and the longest. *)
LEMMA DurationBounds ==
  ASSUME NEW s \in Setups, NEW i \in Intervals
  PROVE  /\ Duration(s, i) \subseteq Nat
         /\ Shortest(s, i) \in Nat
         /\ Longest(s, i) \in Nat
         /\ \A d \in Duration(s, i) : Shortest(s, i) <= d /\ d <= Longest(s, i)
<1>1. s.port \in Ports
  BY McuAssumption
<1>2. ASSUME NEW n \in Nat, NEW us \in Nat, Duration(s, i) = Ticks(n, us)
      PROVE  /\ Duration(s, i) \subseteq Nat
             /\ Shortest(s, i) \in Nat
             /\ Longest(s, i) \in Nat
             /\ \A d \in Duration(s, i) : Shortest(s, i) <= d /\ d <= Longest(s, i)
  <2> DEFINE lo == n * us
             hi == (n + 1) * us
  <2>1. lo \in Nat /\ hi \in Nat
    OBVIOUS
  <2>2. Shortest(s, i) = lo /\ Longest(s, i) = hi
    BY <1>2, TicksBounds DEF Shortest, Longest
  <2>3. Duration(s, i) \subseteq Nat /\ \A d \in Duration(s, i) : lo <= d /\ d <= hi
    BY <1>2, TicksType
  <2> HIDE DEF lo, hi
  <2> QED
    BY <2>1, <2>2, <2>3
<1>4. CASE s.port = "atmega328p"
  <2>1. \E n \in {47, 110} : Duration(s, i) = Ticks(n, 16)
    BY <1>4 DEF Duration, tmr_start_1t5, tmr_start_3t5
  <2> QED
    BY <2>1, <1>2
<1>5. CASE s.port = "stm8s003f3"
  <2>1. \E n \in {47, 110} : Duration(s, i) = Ticks(n, 16)
    BY <1>5 DEF Duration, stm8_tim_start_1t5, stm8_tim_start_3t5
  <2> QED
    BY <2>1, <1>2
<1>6. CASE s.port = "stm32f103c8"
  <2>1. \E n \in {75, 175} : Duration(s, i) = Ticks(n, 10)
    BY <1>6 DEF Duration, tim_start_1t5, tim_start_3t5
  <2> QED
    BY <2>1, <1>2
<1> QED
  BY <1>1, <1>4, <1>5, <1>6 DEF Ports

(* Time. *)

(* Time passes by a positive amount that no running clock exceeds; every running
   clock loses it, but the silence stops when it is over. *)
Passes(d) ==
    /\ \A c \in Clocks :
            IF wait[c] = OFF THEN wait'[c] = OFF
            ELSE /\ d <= wait[c]
                 /\ IF c = "silence" /\ wait[c] = d THEN wait'[c] = OFF
                                                    ELSE wait'[c] = wait[c] - d

LEMMA TickPasses ==
  ASSUME ClocksOK, MasterWaits, Tick
  PROVE  ClocksOK' /\ MasterWaits' /\ \E d \in Nat \ {0} : Passes(d)
<1> DEFINE running == {wait[c] : c \in {k \in Clocks : wait[k] # OFF}}
           d       == Min(running)
<1>1. running \subseteq Nat /\ running # {}
  BY DEF ClocksOK, MasterWaits, Clocks
<1>2. d \in running /\ \A t \in running : d <= t
  <2> HIDE DEF running
  <2>1. PICK m \in running : \A t \in running : m <= t
    BY <1>1, LeastExists
  <2>2. running \subseteq Int
    BY <1>1
  <2> QED
    BY <2>1, <2>2, MinIsShortest
<1>3. d > 0 /\ d \in Nat
  BY <1>1, <1>2 DEF Tick
<1>4. \A c \in Clocks : wait[c] # OFF => d <= wait[c] /\ wait[c] \in Nat
  BY <1>2 DEF ClocksOK
<1>5. wait' = [c \in Clocks |->
                  IF wait[c] = OFF \/ (c = "silence" /\ wait[c] = d) THEN OFF
                  ELSE wait[c] - d]
  BY DEF Tick
<1> HIDE DEF d
<1>6. Passes(d)
  BY <1>4, <1>5 DEF Passes
<1>7. ClocksOK'
  BY <1>3, <1>4, <1>5 DEF ClocksOK
<1>8. MasterWaits'
  BY <1>3, <1>4, <1>5 DEF MasterWaits, Clocks, OFF
<1> QED
  BY <1>3, <1>6, <1>7, <1>8

----------------------------------------------------------------------------
(* What a step does to the clocks. *)

(* The time the timer may show after a byte. *)
AfterByte == IF curr \in {"IDLE", "SOF", "RECV"} THEN Started ELSE {wait["timer"]}

LEMMA ByteCompletesClocks ==
  ASSUME ClocksOK, ByteCompletes, setup \in Setups,
         AfterByte \subseteq {OFF} \cup Nat
  PROVE  /\ wait["byte"] = 0
         /\ frame # <<>>
         /\ serial_recv_cb(Head(frame))
         /\ frame' = Tail(frame)
         /\ UNCHANGED <<setup, owed, good, before>>
         /\ wait'["timer"] \in AfterByte
         /\ wait'["byte"] \in NextByte
         /\ wait'["loop"] \in Woken
         /\ wait'["silence"] = Silence(setup)
         /\ wait'["reply"] = wait["reply"] /\ wait'["call"] = wait["call"]
         /\ ClocksOK'
<1>1. /\ wait["byte"] = 0
      /\ frame # <<>>
      /\ serial_recv_cb(Head(frame))
      /\ frame' = Tail(frame)
      /\ UNCHANGED <<setup, owed, good, before>>
  BY DEF ByteCompletes
<1>2. PICK t \in AfterByte, b \in NextByte, l \in Woken :
            wait' = [wait EXCEPT !["timer"] = t, !["byte"] = b, !["loop"] = l,
                                 !["silence"] = Silence(setup)]
  BY DEF ByteCompletes, AfterByte
<1>3. b \in {OFF} \cup Nat
  <2>1. Gaps(setup) \subseteq Nat /\ Space(setup) \in Nat /\ ByteTime(setup) \in Nat
    BY LongestType, ByteTimeType
  <2> QED
    BY <2>1 DEF NextByte
<1>4. l \in {OFF} \cup Nat
  BY TimingAssumption DEF Woken, ClocksOK, Clocks
<1>5. Silence(setup) \in Nat
  BY SilenceType
<1>6. /\ wait'["timer"] = t /\ wait'["byte"] = b /\ wait'["loop"] = l
      /\ wait'["silence"] = Silence(setup)
      /\ \A c \in {"reply", "call"} : wait'[c] = wait[c]
      /\ wait' \in ClockSet
  BY <1>2, <1>3, <1>4, <1>5 DEF ClocksOK, Clocks, ClockSet
<1> QED
  BY <1>1, <1>2, <1>6 DEF ClocksOK, ClockSet

LEMMA TimerExpiresClocks ==
  ASSUME ClocksOK, TimerExpires, setup \in Setups, Started \subseteq {OFF} \cup Nat
  PROVE  /\ wait["timer"] = 0
         /\ timer_silent_interval_cb \/ timer_inter_frame_timeout_cb
         /\ UNCHANGED <<line, setup>>
         /\ wait'["timer"] \in Started
         /\ wait'["loop"] \in Woken
         /\ \A c \in Clocks \ {"timer", "loop"} : wait'[c] = wait[c]
         /\ ClocksOK'
<1>1. PICK t \in Started, l \in Woken :
            wait' = [wait EXCEPT !["timer"] = t, !["loop"] = l]
  BY DEF TimerExpires
<1>2. l \in {OFF} \cup Nat
  BY TimingAssumption DEF Woken, ClocksOK, Clocks
<1>3. /\ wait'["timer"] = t /\ wait'["loop"] = l
      /\ \A c \in Clocks \ {"timer", "loop"} : wait'[c] = wait[c]
      /\ wait' \in ClockSet
  BY <1>1, <1>2 DEF ClocksOK, Clocks, ClockSet
<1> QED
  BY <1>1, <1>3 DEF ClocksOK, ClockSet, TimerExpires

LEMMA ReplySentClocks ==
  ASSUME ClocksOK, ReplySent, setup \in Setups
  PROVE  /\ wait["reply"] = 0
         /\ serial_sent_cb
         /\ UNCHANGED <<line, setup>>
         /\ wait'["reply"] = OFF
         /\ wait'["call"] = OFF
         /\ wait'["byte"] = Space(setup) + ByteTime(setup)
         /\ wait'["byte"] \in Nat
         /\ wait'["loop"] \in Woken
         /\ \A c \in {"timer", "silence"} : wait'[c] = wait[c]
         /\ ClocksOK'
<1>1. PICK l \in Woken :
            wait' = [wait EXCEPT !["reply"] = OFF, !["loop"] = l, !["call"] = OFF,
                                 !["byte"] = Space(setup) + ByteTime(setup)]
  BY DEF ReplySent
<1>2. l \in {OFF} \cup Nat
  BY TimingAssumption DEF Woken, ClocksOK, Clocks
<1>3. Space(setup) + ByteTime(setup) \in Nat
  BY LongestType, ByteTimeType
<1>4. /\ wait'["reply"] = OFF /\ wait'["call"] = OFF /\ wait'["loop"] = l
      /\ wait'["byte"] = Space(setup) + ByteTime(setup)
      /\ \A c \in {"timer", "silence"} : wait'[c] = wait[c]
      /\ wait' \in ClockSet
  BY <1>1, <1>2, <1>3 DEF ClocksOK, Clocks, ClockSet
<1> QED
  BY <1>1, <1>3, <1>4 DEF ClocksOK, ClockSet, ReplySent

(* The time the timer may show after modbus_rtu_event. *)
AfterEvent == IF updated /\ (error \/ curr = "INIT") THEN Started ELSE {wait["timer"]}

LEMMA EventRunsClocks ==
  ASSUME ClocksOK, EventRuns, setup \in Setups, AfterEvent \subseteq {OFF} \cup Nat,
         txbuf' \in Seq(Byte)
  PROVE  /\ wait["loop"] = 0
         /\ Event
         /\ FrameConfirmed /\ adu_check(rxbuf) => (sending' <=> Answered(rxbuf))
         /\ UNCHANGED setup
         /\ wait'["loop"] = OFF
         /\ wait'["timer"] \in AfterEvent
         /\ wait'["reply"] = IF sending' /\ ~sending
                               THEN Len(txbuf') * ByteTime(setup) ELSE wait["reply"]
         /\ \A c \in {"byte", "silence", "call"} : wait'[c] = wait[c]
         /\ Len(txbuf') * ByteTime(setup) \in Nat
         /\ ClocksOK'
<1>1. PICK t \in AfterEvent :
            wait' = [wait EXCEPT
                        !["loop"] = OFF,
                        !["timer"] = t,
                        !["reply"] = IF sending' /\ ~sending
                                       THEN Len(txbuf') * ByteTime(setup) ELSE @]
  BY DEF EventRuns, AfterEvent
<1> DEFINE r == Len(txbuf') * ByteTime(setup)
<1>2. r \in Nat
  <2>1. Len(txbuf') \in Nat /\ ByteTime(setup) \in Nat
    BY ByteTimeType
  <2> QED
    BY <2>1
<1> HIDE DEF r
<1>3. /\ wait'["loop"] = OFF /\ wait'["timer"] = t
      /\ wait'["reply"] = IF sending' /\ ~sending THEN r ELSE wait["reply"]
      /\ \A c \in {"byte", "silence", "call"} : wait'[c] = wait[c]
      /\ wait' \in ClockSet
  BY <1>1, <1>2 DEF ClocksOK, Clocks, ClockSet, r
<1> QED
  BY <1>1, <1>2, <1>3 DEF ClocksOK, ClockSet, EventRuns, r

----------------------------------------------------------------------------
(* McuTimed implements the core and keeps its types. *)

(* The invariant of the core, the types, and a clock that always runs. *)
TypeInv == IInv /\ TimedTypeOK /\ MasterWaits

(* The next byte of the line is a byte, and what follows it is the rest of the
   same frame. *)
LEMMA LineByte ==
  ASSUME LineTypeOK, frame # <<>>, frame' = Tail(frame), UNCHANGED <<owed, good, before>>
  PROVE  Head(frame) \in Byte /\ LineTypeOK'
<1>0. PICK f \in Sendable : \E n \in 0 .. Len(f) : frame = Rest(f, n)
  BY DEF LineTypeOK, Rest, Sendable
<1>1. PICK n \in 0 .. Len(f) : frame = Rest(f, n)
  BY <1>0
<1>2. f \in Seq(Byte)
  BY SendableSeq
<1>3. /\ n + 1 \in 0 .. Len(f)
      /\ Head(frame) \in Byte
      /\ Tail(frame) = Rest(f, n + 1)
  BY <1>1, <1>2, RestStep
<1> QED
  BY <1>3 DEF LineTypeOK, Rest, Sendable

(* A step of the timed slave is a callback, an event or nothing for the core. *)
LEMMA TimedStepIsCoreStep ==
  ASSUME LineTypeOK, [TimedNext]_timed
  PROVE  [Next]_vars
<1>1. CASE Tick
  BY <1>1 DEF Tick
<1>2. CASE FrameBegins
  BY <1>2 DEF FrameBegins
<1>3. CASE ByteCompletes
  <2>1. Head(frame) \in Byte /\ serial_recv_cb(Head(frame))
    BY <1>3, LineByte DEF ByteCompletes
  <2> QED
    BY <2>1 DEF Next
<1>4. CASE TimerExpires
  BY <1>4 DEF TimerExpires, Next
<1>5. CASE ReplySent
  BY <1>5 DEF ReplySent, Next
<1>6. CASE EventRuns
  BY <1>6 DEF EventRuns, Event, Next
<1>7. CASE UNCHANGED timed
  BY <1>7 DEF timed
<1> QED
  BY <1>1, <1>2, <1>3, <1>4, <1>5, <1>6, <1>7 DEF TimedNext

LEMMA CoreKept ==
  ASSUME IInv, LineTypeOK, [TimedNext]_timed
  PROVE  IInv'
<1>1. [Next]_vars
  BY TimedStepIsCoreStep
<1> QED
  BY <1>1, NextControl, NextBuffers DEF IInv

(* The timer starts for one of its times, or is off. *)
LEMMA StartedType ==
  ASSUME setup \in Setups, timer' \in {"off", "1t5", "3t5"}
  PROVE  /\ Started \subseteq {OFF} \cup Nat
         /\ timer' = "off" => Started = {OFF}
         /\ timer' # "off" => Started = Duration(setup, timer') /\ Started \subseteq Nat
  BY DurationBounds DEF Started, Intervals

LEMMA TimedInitTypes == TimedInit => TypeInv
<1> SUFFICES ASSUME TimedInit PROVE TypeInv
  OBVIOUS
<1>1. IInv
  BY InitIInv DEF TimedInit
<1>2. setup \in Setups
  BY DEF TimedInit
<1>3. Space(setup) + ByteTime(setup) \in Nat
  BY <1>2, LongestType, ByteTimeType
<1>4. LineTypeOK
  <2>1. <<>> \in Sendable /\ Len(<<>>) = 0 /\ frame = <<>>
    BY DEF Sendable, TimedInit, LineInit
  <2>2. frame = Rest(<<>>, 0)
    <3>1. <<>> \in Seq(Byte) /\ 0 \in 0 .. Len(<<>>) /\ 0 = Len(<<>>)
      BY EmptyBuffer
    <3> QED
      BY <2>1, <3>1, NoPart
  <2> QED
    BY <2>1, <2>2 DEF LineTypeOK, Rest, Sendable, TimedInit, LineInit
<1>5. wait \in ClockSet /\ wait["byte"] # OFF /\ wait["timer"] = OFF /\ wait["reply"] = OFF
  BY <1>3 DEF TimedInit, ClockSet, Clocks, OFF
<1>6. timer = "off" /\ ~sending
  BY DEF TimedInit, Init
<1> QED
  BY <1>1, <1>2, <1>4, <1>5, <1>6
  DEF TypeInv, TimedTypeOK, MasterWaits, IInv, Control, TypeOK, ClockSet

LEMMA TimedNextTypes == TypeInv /\ [TimedNext]_timed => TypeInv'
<1> SUFFICES ASSUME TypeInv, [TimedNext]_timed PROVE TypeInv'
  OBVIOUS
<1>1. IInv /\ LineTypeOK /\ setup \in Setups /\ ClocksOK /\ MasterWaits
        /\ (wait["timer"] = OFF <=> timer = "off") /\ (wait["reply"] = OFF <=> ~sending)
  BY DEF TypeInv, TimedTypeOK, ClocksOK
<1>2. IInv'
  BY <1>1, CoreKept
<1>3. timer' \in {"off", "1t5", "3t5"} /\ txbuf' \in Seq(Byte)
  BY <1>2 DEF IInv, Control, ControlTypeOK, BuffersTypeOK
<1>4. /\ Started \subseteq {OFF} \cup Nat
      /\ timer' = "off" => Started = {OFF}
      /\ timer' # "off" => Started \subseteq Nat
  BY <1>1, <1>3, StartedType
<1>5. wait["timer"] \in {OFF} \cup Nat
  BY <1>1 DEF ClocksOK, Clocks
<1>6. SUFFICES LineTypeOK' /\ setup' \in Setups /\ ClocksOK' /\ MasterWaits'
                 /\ (wait'["timer"] = OFF <=> timer' = "off")
                 /\ (wait'["reply"] = OFF <=> ~sending')
  BY <1>2 DEF TypeInv, TimedTypeOK, ClocksOK, IInv, Control, TypeOK
<1>7. CASE Tick
  <2>1. UNCHANGED <<vars, line, setup>>
    BY <1>7 DEF Tick
  <2>2. PICK d \in Nat \ {0} : Passes(d)
    BY <1>1, <1>7, TickPasses
  <2>3. ClocksOK' /\ MasterWaits'
    BY <1>1, <1>7, TickPasses
  <2>4. \A c \in {"timer", "reply"} : wait[c] = OFF <=> wait'[c] = OFF
    BY <2>2, <1>1 DEF Passes, ClocksOK, Clocks, OFF
  <2> QED
    BY <1>1, <2>1, <2>3, <2>4 DEF vars, platform, line, LineTypeOK
<1>8. CASE FrameBegins
  <2>1. /\ wait["byte"] = 0
        /\ UNCHANGED <<vars, setup>>
        /\ wait'["timer"] = wait["timer"] /\ wait'["byte"] = 0
        /\ wait'["reply"] = wait["reply"]
        /\ ClocksOK'
    BY <1>1, <1>8, FrameBeginsClocks
  <2>2. PICK f \in Frames : MasterSends(f)
    BY <1>8 DEF FrameBegins
  <2>3. LineTypeOK'
    <3>1. f \in Seq(Byte)
      BY FramesAssumption
    <3>2. frame' = Rest(f, 0) /\ 0 \in 0 .. Len(f)
      BY <2>2, <3>1, SubSeqFull DEF MasterSends, Rest
    <3>3. owed' \in Frames \cup {<<>>} /\ good' \in BOOLEAN /\ before' \in BOOLEAN
      BY <1>1, <2>2 DEF MasterSends, Good, LineTypeOK, adu_check
    <3> QED
      BY <3>2, <3>3 DEF LineTypeOK, Rest
  <2> QED
    BY <1>1, <2>1, <2>3 DEF vars, platform, MasterWaits, OFF
<1>9. CASE ByteCompletes
  <2>1. AfterByte \subseteq {OFF} \cup Nat
    BY <1>4, <1>5 DEF AfterByte
  <2>2. /\ frame # <<>>
        /\ serial_recv_cb(Head(frame))
        /\ frame' = Tail(frame)
        /\ UNCHANGED <<setup, owed, good, before>>
        /\ wait'["timer"] \in AfterByte
        /\ wait'["byte"] \in NextByte
        /\ wait'["reply"] = wait["reply"] /\ wait'["call"] = wait["call"]
        /\ ClocksOK'
    BY <1>1, <1>9, <2>1, ByteCompletesClocks
  <2>3. LineTypeOK'
    BY <1>1, <2>2, LineByte
  <2>4. wait'["timer"] = OFF <=> timer' = "off"
    <3>1. curr \in {"IDLE", "SOF", "RECV"} => timer' # "off" /\ AfterByte = Started
      BY <1>1, <2>2 DEF serial_recv_cb, timer_start, timer_reset, IInv, Control,
        TimerMatchesState, AfterByte
    <3>2. curr \notin {"IDLE", "SOF", "RECV"} => timer' = timer /\ AfterByte = {wait["timer"]}
      BY <2>2 DEF serial_recv_cb, AfterByte
    <3> QED
      BY <1>1, <1>4, <2>2, <3>1, <3>2 DEF OFF
  <2>5. MasterWaits'
    <3>1. Space(setup) + ByteTime(setup) \in Nat
      BY <1>1, LongestType, ByteTimeType
    <3>2. \A gap \in Gaps(setup) : ByteTime(setup) + gap \in Nat
      BY <1>1, LongestType, ByteTimeType
    <3> QED
      BY <2>2, <3>1, <3>2 DEF MasterWaits, NextByte, OFF
  <2>6. sending' = sending
    BY <2>2 DEF serial_recv_cb
  <2> QED
    BY <1>1, <2>2, <2>3, <2>4, <2>5, <2>6
<1>10. CASE TimerExpires
  <2>1. /\ timer_silent_interval_cb \/ timer_inter_frame_timeout_cb
        /\ UNCHANGED <<line, setup>>
        /\ wait'["timer"] \in Started
        /\ \A c \in Clocks \ {"timer", "loop"} : wait'[c] = wait[c]
        /\ ClocksOK'
    BY <1>1, <1>4, <1>10, TimerExpiresClocks
  <2>2. sending' = sending
    BY <2>1 DEF timer_silent_interval_cb, timer_inter_frame_timeout_cb
  <2> QED
    BY <1>1, <1>4, <2>1, <2>2 DEF line, LineTypeOK, MasterWaits, Clocks, OFF
<1>11. CASE ReplySent
  <2>1. /\ serial_sent_cb
        /\ UNCHANGED <<line, setup>>
        /\ wait'["reply"] = OFF
        /\ wait'["byte"] \in Nat
        /\ wait'["timer"] = wait["timer"]
        /\ ClocksOK'
    BY <1>1, <1>11, ReplySentClocks
  <2>2. sending' = FALSE /\ timer' = timer
    BY <2>1 DEF serial_sent_cb
  <2> QED
    BY <1>1, <2>1, <2>2 DEF line, LineTypeOK, MasterWaits, OFF
<1>12. CASE EventRuns
  <2>1. AfterEvent \subseteq {OFF} \cup Nat
    BY <1>4, <1>5 DEF AfterEvent
  <2>2. /\ Event
        /\ UNCHANGED setup
        /\ wait'["timer"] \in AfterEvent
        /\ wait'["reply"] = IF sending' /\ ~sending
                              THEN Len(txbuf') * ByteTime(setup) ELSE wait["reply"]
        /\ \A c \in {"byte", "silence", "call"} : wait'[c] = wait[c]
        /\ Len(txbuf') * ByteTime(setup) \in Nat
        /\ ClocksOK'
    BY <1>1, <1>3, <1>12, <2>1, EventRunsClocks
  <2>3. wait'["timer"] = OFF <=> timer' = "off"
    <3>1. CASE updated /\ (error \/ curr = "INIT")
      <4>1. timer' # "off"
        BY <2>2, <3>1 DEF Event, modbus_rtu_event, event_error, event_init, event_frame,
          event_sof, event_none, FrameConfirmed, Inconsistent, restart, timer_start
      <4> QED
        BY <1>4, <2>2, <3>1, <4>1 DEF AfterEvent, OFF
    <3>2. CASE ~(updated /\ (error \/ curr = "INIT"))
      <4>1. timer' = timer
        BY <1>1, <2>2, <3>2 DEF Event, modbus_rtu_event, event_error, event_init, event_frame,
          event_sof, event_none, IInv, Control, ChecksNeverFire, vars, platform
      <4> QED
        BY <1>1, <2>2, <3>2, <4>1 DEF AfterEvent
    <3> QED
      BY <3>1, <3>2
  <2>4. sending => sending'
    BY <2>2 DEF Event, modbus_rtu_event, event_error, event_init, event_frame, event_sof,
      event_none, adu_process, serial_send, vars, platform
  <2>5. wait'["reply"] = OFF <=> ~sending'
    BY <1>1, <2>2, <2>4 DEF OFF
  <2>6. LineTypeOK'
    BY <1>1, <2>2 DEF Event, LineTypeOK
  <2> QED
    BY <1>1, <2>2, <2>3, <2>5, <2>6 DEF MasterWaits
<1>13. CASE UNCHANGED timed
  BY <1>1, <1>13 DEF timed, vars, platform, line, LineTypeOK, ClocksOK, MasterWaits
<1> QED
  BY <1>7, <1>8, <1>9, <1>10, <1>11, <1>12, <1>13 DEF TimedNext

LEMMA TimedTypes == TimedSpec => []TypeInv
  BY TimedInitTypes, TimedNextTypes, PTL DEF TimedSpec

(* The clocks have their types and run when what they time does, whatever the
   durations are: no timeout of a port can be taken for a stopped timer. *)
THEOREM TimedTypeCorrect == TimedSpec => []TimedTypeOK
<1>1. TypeInv => TimedTypeOK
  BY DEF TypeInv
<1> QED
  BY TimedTypes, <1>1, PTL

(* Every step of the slave in time is a callback, an event or a stutter of the
   core: what is proved of the core holds on a line with durations. *)
THEOREM TimedImplementsCore == TimedSpec => Spec
<1>1. TimedInit => Init
  BY DEF TimedInit
<1>2. TypeInv /\ [TimedNext]_timed => [Next]_vars
  BY TimedStepIsCoreStep DEF TypeInv, TimedTypeOK
<1> QED
  BY <1>1, <1>2, TimedTypes, PTL DEF TimedSpec, Spec

----------------------------------------------------------------------------
(* The order of instants on a good line. *)

(* Both ends of the line keep their times. *)
OnTime == \A s \in Setups : GapsAreShort(s) /\ SpaceIsLong(s)

(* What that says of the times that the clocks are set to. *)
LEMMA OnTimeNumbers ==
  ASSUME OnTime, setup \in Setups
  PROVE  /\ ByteTime(setup) \in Nat /\ Space(setup) \in Nat /\ LatencyMax \in Nat
         /\ Longest(setup, "1t5") \in Nat /\ Longest(setup, "3t5") \in Nat
         /\ Longest(setup, "1t5") + Longest(setup, "3t5") + LatencyMax
              < Space(setup) + ByteTime(setup)
         /\ \A d \in Duration(setup, "1t5") : d \in Nat /\ d <= Longest(setup, "1t5")
         /\ \A d \in Duration(setup, "3t5") : d \in Nat /\ d <= Longest(setup, "3t5")
         /\ \A gap \in Gaps(setup), d \in Duration(setup, "1t5") :
                gap \in Nat /\ ByteTime(setup) + gap < d
<1>1. /\ ByteTime(setup) \in Nat /\ Space(setup) \in Nat /\ LatencyMax \in Nat
      /\ Gaps(setup) \subseteq Nat
  BY ByteTimeType, LongestType
<1>2. \A i \in Intervals :
        /\ Duration(setup, i) \subseteq Nat
        /\ Shortest(setup, i) \in Nat
        /\ Longest(setup, i) \in Nat
        /\ \A d \in Duration(setup, i) : Shortest(setup, i) <= d /\ d <= Longest(setup, i)
  BY DurationBounds
<1>3. "1t5" \in Intervals /\ "3t5" \in Intervals
  BY DEF Intervals
<1>4. Longest(setup, "1t5") + Longest(setup, "3t5") + LatencyMax
        < Space(setup) + ByteTime(setup)
  BY DEF OnTime, SpaceIsLong, ProcessingTime, LatencyMax
<1>5. ASSUME NEW gap \in Gaps(setup), NEW d \in Duration(setup, "1t5")
      PROVE  gap \in Nat /\ ByteTime(setup) + gap < d
  <2>1. ByteTime(setup) + gap < Shortest(setup, "1t5")
    BY DEF OnTime, GapsAreShort
  <2> QED
    BY <1>1, <1>2, <1>3, <2>1
<1> QED
  BY <1>1, <1>2, <1>3, <1>4, <1>5

(* The clocks are integers, and OFF is less than any time. *)
LEMMA ClockValues ==
  ASSUME ClocksOK, NEW c \in Clocks
  PROVE  wait[c] \in Int /\ (wait[c] # OFF => wait[c] \in Nat /\ wait[c] >= 0)
  BY DEF ClocksOK, OFF

(* A latency is in time, also the one that is running already. *)
LEMMA WokenInTime ==
  ASSUME ClocksOK, setup \in Setups, wait["loop"] <= LatencyMax, NEW l \in Woken
  PROVE  l \in Nat /\ l <= LatencyMax
  BY LongestType, ClockValues DEF Woken, Clocks

LEMMA LineInvInit ==
  ASSUME OnTime, TimedInit
  PROVE  LineInv
<1>1. setup \in Setups
  BY DEF TimedInit
<1>2. /\ wait["byte"] = Space(setup) + ByteTime(setup)
      /\ wait["loop"] = 0 /\ wait["call"] = OFF
  BY DEF TimedInit
<1>3. /\ Longest(setup, "3t5") < wait["byte"] /\ wait["byte"] # OFF
      /\ 0 + Longest(setup, "3t5") = Longest(setup, "3t5")
      /\ 0 <= LatencyMax
  BY <1>1, <1>2, OnTimeNumbers DEF OFF
<1>4. curr = "INIT" /\ updated /\ ~error /\ timer = "off" /\ ~sending /\ Quiet
  BY DEF TimedInit, Init, LineInit, Quiet
<1> QED
  BY <1>2, <1>3, <1>4 DEF LineInv, InInit, InIdle, InFrame, InEof, InBusy, OFF

LEMMA LineInvTick ==
  ASSUME OnTime, TypeInv, LineInv, Tick
  PROVE  LineInv'
<1>1. setup \in Setups /\ ClocksOK /\ MasterWaits
        /\ (wait["timer"] = OFF <=> timer = "off")
  BY DEF TypeInv, TimedTypeOK, ClocksOK
<1>2. PICK d \in Nat \ {0} : Passes(d)
  BY <1>1, TickPasses
<1>3. \A c \in {"timer", "byte", "loop", "call"} :
        /\ wait[c] \in Int
        /\ wait[c] = OFF <=> wait'[c] = OFF
        /\ wait[c] # OFF => wait[c] \in Nat /\ d <= wait[c] /\ wait'[c] = wait[c] - d
  BY <1>1, <1>2, ClockValues DEF Passes, Clocks, OFF
<1>4. UNCHANGED <<vars, line, setup>>
  BY DEF Tick
<1>5. UNCHANGED <<updated, error, prev, curr, rxbuf, timer, sending, frame, owed, setup>>
  BY <1>4 DEF vars, status, platform, line
<1>6. /\ Longest(setup, "3t5") \in Nat /\ LatencyMax \in Nat
      /\ Longest(setup, "3t5")' = Longest(setup, "3t5") /\ LatencyMax' = LatencyMax
      /\ \A x : Answered(x)' = Answered(x)
      /\ Answered(owed)' = Answered(owed)
  BY <1>1, <1>5, OnTimeNumbers DEF Longest, LatencyMax, Answered
<1>7. ASSUME NEW t \in Int, NEW u \in Int, u <= t - d, Due(t) PROVE Due(u)'
  BY <1>3, <1>6, <1>7 DEF Due
<1>8. CallWaits' <=> CallWaits
  BY <1>3, <1>5, <1>6 DEF CallWaits
<1>9. InInit'
  <2> SUFFICES ASSUME curr = "INIT" PROVE InInit'
    BY <1>5 DEF InInit
  <2>1. Quiet' /\ wait'["byte"] # OFF /\ wait'["call"] = OFF
    BY <1>3, <1>5 DEF LineInv, InInit, Quiet
  <2>2. CASE updated
    BY <1>3, <1>5, <1>6, <2>1, <2>2 DEF LineInv, InInit
  <2>3. CASE ~updated
    BY <1>1, <1>3, <1>5, <2>1, <2>3 DEF LineInv, InInit
  <2> QED
    BY <2>2, <2>3
<1>10. InIdle'
  <2>1. CASE curr = "IDLE" /\ updated /\ prev = "EOF"
    BY <1>3, <1>5, <1>7, <1>8, <2>1 DEF LineInv, InIdle
  <2>2. CASE curr = "IDLE" /\ ~(updated /\ prev = "EOF")
    BY <1>3, <1>5, <1>8, <2>2 DEF LineInv, InIdle
  <2> QED
    BY <1>5, <2>1, <2>2 DEF InIdle
<1>11. InFrame'
  <2> SUFFICES ASSUME curr \in {"SOF", "RECV"} PROVE InFrame'
    BY <1>5 DEF InFrame
  <2>1. wait["timer"] # OFF
    BY <1>1 DEF TypeInv, IInv, Control, TimerMatchesState
  <2>0. Assembled'
    BY <1>5 DEF LineInv, InFrame, Assembled, Rest, Part
  <2>2. CASE frame # <<>>
    BY <1>3, <1>5, <1>8, <2>0, <2>1, <2>2 DEF LineInv, InFrame
  <2>3. CASE frame = <<>>
    <3>1. Due(wait["timer"] + Longest(setup, "3t5") + LatencyMax)'
      BY <1>3, <1>6, <1>7, <2>1, <2>3 DEF LineInv, InFrame
    <3> QED
      BY <1>5, <1>8, <2>0, <2>3, <3>1 DEF LineInv, InFrame
  <2> QED
    BY <2>2, <2>3
<1>12. InEof'
  <2> SUFFICES ASSUME curr = "EOF" PROVE InEof'
    BY <1>5 DEF InEof
  <2>1. wait["timer"] # OFF
    BY <1>1 DEF TypeInv, IInv, Control, TimerMatchesState
  <2>2. Due(wait["timer"] + LatencyMax)'
    BY <1>3, <1>6, <1>7, <2>1 DEF LineInv, InEof
  <2> QED
    BY <1>5, <1>8, <2>2 DEF LineInv, InEof
<1>13. InBusy'
  BY <1>3, <1>5 DEF LineInv, InBusy, Quiet
<1>14. wait'["loop"] <= LatencyMax
  BY <1>3, <1>6 DEF LineInv, OFF
<1> QED
  BY <1>5, <1>6, <1>9, <1>10, <1>11, <1>12, <1>13, <1>14 DEF LineInv

LEMMA LineInvFrameBegins ==
  ASSUME OnTime, TypeInv, LineInv, FrameBegins
  PROVE  LineInv' /\ curr = "IDLE" /\ curr' = "IDLE"
<1>1. setup \in Setups /\ ClocksOK /\ (wait["timer"] = OFF <=> timer = "off")
  BY DEF TypeInv, TimedTypeOK, ClocksOK
<1>2. /\ wait["byte"] = 0
      /\ UNCHANGED <<vars, setup>>
      /\ wait'["timer"] = wait["timer"] /\ wait'["byte"] = 0
      /\ wait'["loop"] = wait["loop"]
  BY <1>1, FrameBeginsClocks
<1>3. PICK f \in Frames :
        /\ MasterSends(f)
        /\ wait'["call"] = IF Answered(f) THEN read_impl(setup) - ByteTime(setup) ELSE OFF
  BY <1>1, FrameBeginsClocks
<1>4. UNCHANGED <<updated, error, prev, curr, rxbuf, timer, sending, setup>>
  BY <1>2 DEF vars, status, platform
<1>5. frame = <<>> /\ frame' = f /\ owed' = f /\ f # <<>>
  BY <1>3, GoodFramesAssumption, FramesAssumption DEF MasterSends
<1>6. wait'["call"] # OFF <=> Answered(f)
  BY <1>1, <1>3, TimeoutType DEF OFF
<1>7. \A c \in {"timer", "loop"} : wait[c] \in Int /\ (wait[c] # OFF => wait[c] >= 0)
  BY <1>1, ClockValues DEF Clocks
<1>8. Longest(setup, "3t5") \in Nat /\ LatencyMax \in Nat
  BY <1>1, OnTimeNumbers
<1>9. ASSUME NEW t \in Int, t >= 0, Due(t) PROVE FALSE
  BY <1>2, <1>9 DEF Due, OFF
<1>10. curr = "IDLE" /\ ~(updated /\ prev = "EOF")
  <2>1. ASSUME curr = "INIT" PROVE FALSE
    BY <1>1, <1>2, <1>7, <1>8, <2>1 DEF LineInv, InInit
  <2>2. ASSUME curr = "IDLE", updated, prev = "EOF" PROVE FALSE
    BY <1>7, <1>9, <2>2 DEF LineInv, InIdle
  <2>3. ASSUME curr \in {"SOF", "RECV"} PROVE FALSE
    <3>1. wait["timer"] >= 0
      BY <1>1, <1>7, <2>3 DEF TypeInv, IInv, Control, TimerMatchesState
    <3>2. Due(wait["timer"] + Longest(setup, "3t5") + LatencyMax)
      BY <1>5, <2>3 DEF LineInv, InFrame
    <3> QED
      BY <1>7, <1>8, <1>9, <3>1, <3>2
  <2>4. ASSUME curr = "EOF" PROVE FALSE
    <3>1. wait["timer"] >= 0
      BY <1>1, <1>7, <2>4 DEF TypeInv, IInv, Control, TimerMatchesState
    <3>2. Due(wait["timer"] + LatencyMax)
      BY <2>4 DEF LineInv, InEof
    <3> QED
      BY <1>7, <1>8, <1>9, <3>1, <3>2
  <2>5. curr # "BUSY"
    BY <1>2 DEF LineInv, InBusy, OFF
  <2>6. curr \in States
    BY DEF TypeInv, IInv, Control, ControlTypeOK
  <2> QED
    BY <2>1, <2>2, <2>3, <2>4, <2>5, <2>6 DEF States
<1>11. CallWaits'
  BY <1>3, <1>5, <1>6 DEF CallWaits, Answered
<1>12. InIdle'
  BY <1>2, <1>4, <1>5, <1>10, <1>11 DEF LineInv, InIdle, OFF
<1> QED
  BY <1>2, <1>4, <1>10, <1>12 DEF LineInv, InInit, InFrame, InEof, InBusy, LatencyMax

LEMMA LineInvReplySent ==
  ASSUME OnTime, TypeInv, LineInv, ReplySent
  PROVE  LineInv' /\ curr = "BUSY" /\ curr' = "INIT"
<1>1. setup \in Setups /\ ClocksOK /\ (wait["timer"] = OFF <=> timer = "off")
        /\ (wait["reply"] = OFF <=> ~sending)
  BY DEF TypeInv, TimedTypeOK, ClocksOK
<1>2. /\ serial_sent_cb
      /\ UNCHANGED <<line, setup>>
      /\ wait'["call"] = OFF
      /\ wait'["byte"] = Space(setup) + ByteTime(setup)
      /\ wait'["byte"] \in Nat
      /\ wait'["loop"] \in Woken
  BY <1>1, ReplySentClocks
<1>3. sending /\ curr = "BUSY"
  BY <1>2 DEF serial_sent_cb, LineInv
<1>4. /\ ~error' /\ ~sending' /\ curr' = "INIT" /\ updated' = TRUE
      /\ UNCHANGED <<rxbuf, timer, frame, owed, setup>>
  BY <1>2, <1>3 DEF serial_sent_cb, RTU_STATE_UPDATE, LineInv, line
<1>5. timer = "off" /\ Quiet
  BY <1>3 DEF TypeInv, IInv, Control, TimerMatchesState, LineInv, InBusy
<1>6. wait'["loop"] \in Nat /\ wait'["loop"] <= LatencyMax
  BY <1>1, <1>2, WokenInTime DEF LineInv
<1>7. wait'["loop"] + Longest(setup, "3t5") < wait'["byte"]
  BY <1>1, <1>2, <1>6, OnTimeNumbers
<1>8. InInit'
  BY <1>2, <1>4, <1>5, <1>6, <1>7 DEF InInit, Quiet, OFF, Longest
<1> QED
  BY <1>3, <1>4, <1>6, <1>8 DEF LineInv, InIdle, InFrame, InEof, InBusy, LatencyMax

LEMMA LineInvTimerExpires ==
  ASSUME OnTime, TypeInv, LineInv, TimerExpires
  PROVE  /\ LineInv'
         /\ \/ curr = "INIT" /\ prev' = "INIT" /\ curr' = "IDLE"
            \/ curr = "RECV" /\ frame = <<>> /\ curr' = "EOF"
                 /\ wait'["timer"] \in Duration(setup, "3t5")
            \/ curr = "EOF" /\ curr' = "IDLE" /\ updated' /\ prev' = "EOF"
<1>1. setup \in Setups /\ ClocksOK /\ (wait["timer"] = OFF <=> timer = "off")
  BY DEF TypeInv, TimedTypeOK, ClocksOK
<1>2. IInv' /\ Control
  BY CoreKept DEF TimedNext, TypeInv, TimedTypeOK, IInv
<1>3. timer' \in {"off", "1t5", "3t5"}
  BY <1>2 DEF IInv, Control, ControlTypeOK
<1>4. /\ Started \subseteq {OFF} \cup Nat
      /\ timer' # "off" => Started = Duration(setup, timer')
  BY <1>1, <1>3, StartedType
<1>5. /\ wait["timer"] = 0
      /\ timer_silent_interval_cb \/ timer_inter_frame_timeout_cb
      /\ UNCHANGED <<line, setup>>
      /\ wait'["timer"] \in Started
      /\ wait'["loop"] \in Woken
      /\ \A c \in {"byte", "call"} : wait'[c] = wait[c]
  BY <1>1, <1>4, TimerExpiresClocks DEF Clocks
<1>6. UNCHANGED <<rxbuf, sending, frame, owed, setup>>
  BY <1>5 DEF timer_silent_interval_cb, timer_inter_frame_timeout_cb, line
<1>7. wait'["loop"] \in Nat /\ wait'["loop"] <= LatencyMax /\ wait'["loop"] # OFF
  BY <1>1, <1>5, WokenInTime DEF LineInv, OFF
<1>8. /\ Longest(setup, "3t5") \in Nat /\ LatencyMax \in Nat /\ LatencyMax' = LatencyMax
      /\ \A d \in Duration(setup, "3t5") : d \in Nat /\ d <= Longest(setup, "3t5")
      /\ Answered(owed)' = Answered(owed)
  BY <1>1, <1>6, OnTimeNumbers DEF LatencyMax, Answered
<1>9. wait["byte"] \in Int /\ (wait["byte"] # OFF => wait["byte"] >= 0)
  BY <1>1, ClockValues DEF Clocks
<1>10. ASSUME NEW t \in Int, NEW u \in Int, u <= t, Due(t) PROVE Due(u)'
  BY <1>5, <1>8, <1>9, <1>10 DEF Due
<1>11. CallWaits' <=> CallWaits
  BY <1>5, <1>6, <1>8 DEF CallWaits
<1>12. timer # "off" /\ curr \in States
  BY <1>1, <1>2, <1>5 DEF OFF, Control, ControlTypeOK
<1>13. CASE curr = "INIT"
  <2>1. timer = "3t5" /\ timer_cb = "silent"
    BY <1>2, <1>12, <1>13 DEF LineInv, InInit, Control, TimerMatchesState
  <2>2. /\ timer_silent_interval_cb
        /\ updated' = TRUE /\ prev' = "INIT" /\ curr' = "IDLE" /\ UNCHANGED error
    BY <1>5, <1>13, <2>1
    DEF timer_silent_interval_cb, timer_inter_frame_timeout_cb, TimerExpired, RTU_STATE_UPDATE
  <2>3. InIdle'
    BY <1>5, <1>6, <1>13, <2>2 DEF InIdle, LineInv, InInit, Quiet
  <2> QED
    BY <1>6, <1>7, <1>8, <1>13, <2>2, <2>3 DEF LineInv, InInit, InFrame, InEof, InBusy
<1>14. CASE curr \in {"SOF", "RECV"}
  <2>1. frame = <<>>
    BY <1>5, <1>9, <1>14 DEF LineInv, InFrame
  <2>2. CallWaits /\ Due(0 + Longest(setup, "3t5") + LatencyMax) /\ Assembled
    BY <1>5, <1>14, <2>1 DEF LineInv, InFrame
  <2>3. PICK n \in 1 .. Len(owed) :
            frame = Rest(owed, n) /\ rxbuf = Part(owed, 0, n) /\ (curr = "SOF" => n = 1)
    BY <2>2 DEF Assembled
  <2>4. owed \in Frames /\ owed \in Seq(Byte) /\ Len(owed) \in Nat /\ Len(owed) >= 4
    BY <2>2, GoodFrame, GoodFramesAssumption DEF CallWaits
  <2>5. n \in 0 .. Len(owed)
    BY <2>4
  <2>6. n = Len(owed)
    BY <2>1, <2>3, <2>4, <2>5, NoPart
  <2>7. rxbuf = owed /\ curr = "RECV"
    BY <1>14, <2>3, <2>4, <2>6, SubSeqFull DEF Part
  <2>8. timer = "1t5" /\ timer_cb = "inter"
    BY <1>2, <2>7 DEF Control, TimerMatchesState
  <2>9. /\ prev' = "RECV" /\ curr' = "EOF" /\ timer' = "3t5" /\ UNCHANGED error
    BY <1>5, <2>7, <2>8
    DEF timer_silent_interval_cb, timer_inter_frame_timeout_cb, TimerExpired, RTU_STATE_UPDATE,
      timer_start
  <2>10. wait'["timer"] \in Duration(setup, "3t5")
    BY <1>4, <1>5, <2>9
  <2>11. Due(wait["timer"] + LatencyMax)'
    BY <1>8, <1>10, <2>2, <2>10
  <2>12. InEof'
    BY <1>6, <1>11, <2>1, <2>2, <2>7, <2>11 DEF InEof
  <2> QED
    BY <1>6, <1>7, <1>8, <2>1, <2>7, <2>9, <2>10, <2>12
    DEF LineInv, InInit, InFrame, InIdle, InBusy
<1>15. CASE curr = "EOF"
  <2>1. timer = "3t5" /\ timer_cb = "silent" /\ prev = "RECV"
    BY <1>2, <1>15 DEF Control, TimerMatchesState, ChecksNeverFire, Inconsistent
  <2>2. updated' = TRUE /\ prev' = "EOF" /\ curr' = "IDLE" /\ UNCHANGED error
    BY <1>5, <1>15, <2>1
    DEF timer_silent_interval_cb, timer_inter_frame_timeout_cb, TimerExpired, RTU_STATE_UPDATE
  <2>3. frame = <<>> /\ rxbuf = owed /\ CallWaits /\ Due(0 + LatencyMax)
    BY <1>5, <1>15 DEF LineInv, InEof
  <2>4. Due(wait["loop"])'
    BY <1>7, <1>8, <1>10, <2>3
  <2>5. InIdle'
    BY <1>6, <1>7, <1>11, <2>2, <2>3, <2>4 DEF InIdle
  <2> QED
    BY <1>6, <1>7, <1>8, <1>15, <2>2, <2>5 DEF LineInv, InInit, InFrame, InEof, InBusy
<1> QED
  BY <1>2, <1>12, <1>13, <1>14, <1>15 DEF States, Control, TimerMatchesState

(* A byte is put into rxbuf as the next one of the frame. *)
LEMMA ByteAssembled ==
  ASSUME LineTypeOK, owed \in Frames, NEW n \in 0 .. Len(owed),
         frame = Rest(owed, n), rxbuf = Part(owed, 0, n), frame # <<>>,
         frame' = Tail(frame), owed' = owed,
         curr \in {"IDLE", "SOF", "RECV"}, serial_recv_cb(Head(frame)),
         BuffersTypeOK
  PROVE  /\ n + 1 \in 1 .. Len(owed)
         /\ frame' = Rest(owed, n + 1)
         /\ rxbuf' = Part(owed, 0, n + 1)
         /\ error' = error
         /\ Len(frame) = Len(owed) - n
         /\ frame' = <<>> <=> n + 1 = Len(owed)
<1>1. owed \in Seq(Byte) /\ Len(owed) \in Nat /\ Len(owed) <= RXBUF_CAPACITY
  BY GoodFrame, GoodFramesAssumption
<1>2. /\ n + 1 \in 0 .. Len(owed)
      /\ Head(frame) = owed[n + 1]
      /\ frame' = Rest(owed, n + 1)
  BY <1>1, RestStep
<1>3. n + 1 \in 1 .. Len(owed) /\ n \in 0 .. Len(owed) - 1 /\ 0 \in 0 .. n
  BY <1>1, <1>2
<1>4. Len(rxbuf) = n /\ n < RXBUF_CAPACITY
  <2>1. Len(rxbuf) = n - 0
    BY <1>1, <1>3, PartType
  <2> QED
    BY <1>1, <1>3, <2>1, CapacityAssumption
<1>5. rxbuf' = Append(rxbuf, Head(frame)) /\ error' = error
  <2>1. rxbuf_append(Head(frame))
    BY DEF serial_recv_cb
  <2> QED
    BY <1>4, <2>1 DEF rxbuf_append
<1>6. rxbuf' = Part(owed, 0, n + 1)
  BY <1>1, <1>2, <1>3, <1>5, PartStep
<1>7. Len(frame) = Len(owed) - n
  BY <1>1, RestType
<1>8. frame' = <<>> <=> n + 1 = Len(owed)
  BY <1>1, <1>2, NoPart
<1> QED
  BY <1>2, <1>3, <1>5, <1>6, <1>7, <1>8

LEMMA LineInvByteCompletes ==
  ASSUME OnTime, TypeInv, LineInv, ByteCompletes
  PROVE  /\ LineInv'
         /\ curr \in {"IDLE", "SOF", "RECV"} /\ curr' \in {"SOF", "RECV"}
         /\ wait'["timer"] \in Duration(setup, "1t5")
         /\ Len(frame) \in Nat /\ Len(frame') = Len(frame) - 1
         /\ frame' # <<>> <=> Len(frame) > 1
<1>1. setup \in Setups /\ ClocksOK /\ LineTypeOK
  BY DEF TypeInv, TimedTypeOK, ClocksOK
<1>2. IInv' /\ Control /\ BuffersTypeOK
  BY CoreKept DEF TimedNext, TypeInv, TimedTypeOK, IInv
<1>3. /\ Started \subseteq {OFF} \cup Nat
      /\ timer' # "off" => Started = Duration(setup, timer')
  <2>1. timer' \in {"off", "1t5", "3t5"}
    BY <1>2 DEF IInv, Control, ControlTypeOK
  <2> QED
    BY <1>1, <2>1, StartedType
<1>4. AfterByte \subseteq {OFF} \cup Nat
  BY <1>1, <1>3 DEF AfterByte, ClocksOK, Clocks
<1>5. /\ wait["byte"] = 0
      /\ frame # <<>>
      /\ serial_recv_cb(Head(frame))
      /\ frame' = Tail(frame)
      /\ UNCHANGED <<setup, owed, good, before>>
      /\ wait'["timer"] \in AfterByte
      /\ wait'["byte"] \in NextByte
      /\ wait'["loop"] \in Woken
      /\ wait'["call"] = wait["call"]
  BY <1>1, <1>4, ByteCompletesClocks
<1>6. wait'["loop"] \in Nat /\ wait'["loop"] <= LatencyMax
  BY <1>1, <1>5, WokenInTime DEF LineInv
<1>7. curr \in {"IDLE", "SOF", "RECV"}
  <2>1. curr \in States
    BY <1>2 DEF Control, ControlTypeOK
  <2> QED
    BY <1>5, <2>1 DEF LineInv, InInit, InEof, InBusy, Quiet, States
<1>8. /\ curr' = (IF curr = "IDLE" THEN "SOF" ELSE "RECV")
      /\ sending' = sending
      /\ timer' = "1t5"
  BY <1>2, <1>5, <1>7 DEF serial_recv_cb, RTU_STATE_UPDATE, timer_start, timer_reset,
    Control, TimerMatchesState
<1>9. wait'["timer"] \in Duration(setup, "1t5")
  BY <1>3, <1>5, <1>7, <1>8 DEF AfterByte
<1>10. owed \in Frames /\ CallWaits
         /\ \E n \in 0 .. Len(owed) :
              /\ frame = Rest(owed, n) /\ rxbuf = Part(owed, 0, n)
              /\ curr = "IDLE" <=> n = 0
  <2>1. CASE curr = "IDLE"
    <3>1. frame = owed /\ rxbuf = <<>> /\ CallWaits /\ owed \in Frames
      BY <1>5, <2>1 DEF LineInv, InIdle, CallWaits
    <3>2. owed \in Seq(Byte) /\ Len(owed) \in Nat
      BY <3>1, FramesAssumption
    <3>3. frame = Rest(owed, 0) /\ 0 \in 0 .. Len(owed)
      BY <3>1, <3>2, SubSeqFull DEF Rest
    <3>4. rxbuf = Part(owed, 0, 0)
      BY <3>1, <3>2, <3>3, NoPart
    <3> QED
      BY <2>1, <3>1, <3>3, <3>4
  <2>2. CASE curr \in {"SOF", "RECV"}
    <3>1. CallWaits /\ Assembled /\ owed \in Frames
      BY <2>2 DEF LineInv, InFrame, CallWaits
    <3>2. Len(owed) \in Nat
      BY <3>1, FramesAssumption
    <3>3. PICK n \in 1 .. Len(owed) : frame = Rest(owed, n) /\ rxbuf = Part(owed, 0, n)
      BY <3>1 DEF Assembled
    <3>4. n \in 0 .. Len(owed) /\ n # 0 /\ curr # "IDLE"
      BY <2>2, <3>2
    <3> QED
      BY <3>1, <3>3, <3>4
  <2> QED
    BY <1>7, <2>1, <2>2
<1>11. PICK n \in 0 .. Len(owed) :
              /\ frame = Rest(owed, n) /\ rxbuf = Part(owed, 0, n)
              /\ curr = "IDLE" <=> n = 0
  BY <1>10
<1>12. /\ n + 1 \in 1 .. Len(owed)
       /\ frame' = Rest(owed, n + 1)
       /\ rxbuf' = Part(owed, 0, n + 1)
       /\ error' = error
       /\ Len(frame) = Len(owed) - n
       /\ frame' = <<>> <=> n + 1 = Len(owed)
  BY <1>1, <1>2, <1>5, <1>7, <1>10, <1>11, ByteAssembled
<1>13. owed \in Seq(Byte) /\ Len(owed) \in Nat /\ Len(owed) >= 4
  BY <1>10, GoodFrame, GoodFramesAssumption
<1>14. /\ Len(frame) \in Nat
       /\ frame' # <<>> <=> Len(frame) > 1
       /\ Len(frame') = Len(frame) - 1
  <2>1. n + 1 \in 0 .. Len(owed)
    BY <1>12, <1>13
  <2>2. Len(frame') = Len(owed) - (n + 1)
    BY <1>12, <1>13, <2>1, RestType
  <2> QED
    BY <1>12, <1>13, <2>1, <2>2
<1>15. CallWaits' /\ Answered(owed)' = Answered(owed)
  BY <1>5, <1>10 DEF CallWaits, Answered
<1>16. Assembled'
  <2>1. curr' = "SOF" => n + 1 = 1
    BY <1>8, <1>11
  <2> QED
    BY <1>5, <1>12, <2>1 DEF Assembled, Rest, Part
<1>17. /\ ByteTime(setup) \in Nat /\ Space(setup) \in Nat /\ LatencyMax \in Nat
       /\ Longest(setup, "1t5") \in Nat /\ Longest(setup, "3t5") \in Nat
       /\ Longest(setup, "1t5") + Longest(setup, "3t5") + LatencyMax
            < Space(setup) + ByteTime(setup)
       /\ wait'["timer"] \in Nat /\ wait'["timer"] <= Longest(setup, "1t5")
       /\ \A gap \in Gaps(setup) :
              gap \in Nat /\ ByteTime(setup) + gap < wait'["timer"]
  BY <1>1, <1>9, OnTimeNumbers
<1>18. IF frame' # <<>>
         THEN wait'["byte"] # OFF /\ wait'["byte"] < wait'["timer"]
         ELSE Due(wait["timer"] + Longest(setup, "3t5") + LatencyMax)'
  <2>1. CASE Len(frame) > 1
    <3>1. PICK gap \in Gaps(setup) : wait'["byte"] = ByteTime(setup) + gap
      BY <1>5, <2>1 DEF NextByte
    <3>2. gap \in Nat /\ ByteTime(setup) \in Nat /\ ByteTime(setup) + gap < wait'["timer"]
      BY <1>17
    <3>3. wait'["byte"] # OFF /\ wait'["byte"] < wait'["timer"]
      BY <3>1, <3>2 DEF OFF
    <3> QED
      BY <1>14, <2>1, <3>3
  <2>2. CASE ~(Len(frame) > 1)
    <3>1. wait'["byte"] = IF Answered(owed) THEN OFF ELSE Space(setup) + ByteTime(setup)
      BY <1>5, <1>10, <2>2 DEF NextByte, CallWaits
    <3>2. wait'["timer"] + Longest(setup, "3t5") + LatencyMax
            < Space(setup) + ByteTime(setup)
      <4>1. ASSUME NEW t \in Nat, NEW a \in Nat, NEW b \in Nat, NEW l \in Nat,
                   NEW end \in Nat, t <= a, a + b + l < end
            PROVE  t + b + l < end
        BY <4>1
      <4>2. Space(setup) + ByteTime(setup) \in Nat
        BY <1>17
      <4> QED
        BY <1>17, <4>1, <4>2
    <3>3. Space(setup) + ByteTime(setup) # OFF
      BY <1>17 DEF OFF
    <3>4. (wait["timer"] + Longest(setup, "3t5") + LatencyMax)'
             = wait'["timer"] + Longest(setup, "3t5") + LatencyMax
      BY <1>5 DEF Longest, LatencyMax
    <3>5. Due(wait["timer"] + Longest(setup, "3t5") + LatencyMax)'
      BY <1>15, <3>1, <3>2, <3>3, <3>4 DEF Due
    <3> QED
      BY <1>14, <2>2, <3>5
  <2> QED
    BY <2>1, <2>2
<1>19. InFrame'
  BY <1>15, <1>16, <1>18 DEF InFrame
<1> QED
  BY <1>6, <1>7, <1>8, <1>9, <1>12, <1>14, <1>19
  DEF LineInv, InInit, InIdle, InEof, InBusy, LatencyMax

LEMMA LineInvEventRuns ==
  ASSUME OnTime, TypeInv, LineInv, EventRuns
  PROVE  /\ LineInv'
         /\ \/ UNCHANGED <<curr, frame>> /\ (curr' = "IDLE" /\ updated' => prev' # "EOF")
                 /\ (curr # "INIT" => wait'["timer"] = wait["timer"])
                 /\ (curr = "IDLE" /\ updated /\ prev = "EOF" => wait["call"] = OFF)
                 /\ wait'["reply"] = wait["reply"]
            \/ /\ curr = "IDLE" /\ updated /\ prev = "EOF" /\ curr' = "BUSY"
               /\ wait'["reply"] = ReplyTime
<1>1. setup \in Setups /\ ClocksOK /\ (wait["timer"] = OFF <=> timer = "off")
  BY DEF TypeInv, TimedTypeOK, ClocksOK
<1>2. IInv' /\ Control
  BY CoreKept DEF TimedNext, TypeInv, TimedTypeOK, IInv
<1>3. timer' \in {"off", "1t5", "3t5"} /\ txbuf' \in Seq(Byte)
  BY <1>2 DEF IInv, Control, ControlTypeOK, BuffersTypeOK
<1>4. /\ Started \subseteq {OFF} \cup Nat
      /\ timer' # "off" => Started = Duration(setup, timer')
  BY <1>1, <1>3, StartedType
<1>5. AfterEvent \subseteq {OFF} \cup Nat
  BY <1>1, <1>4 DEF AfterEvent, ClocksOK, Clocks
<1>6. /\ wait["loop"] = 0
      /\ Event
      /\ FrameConfirmed /\ adu_check(rxbuf) => (sending' <=> Answered(rxbuf))
      /\ UNCHANGED setup
      /\ wait'["loop"] = OFF
      /\ wait'["timer"] \in AfterEvent
      /\ wait'["reply"] = IF sending' /\ ~sending
                            THEN Len(txbuf') * ByteTime(setup) ELSE wait["reply"]
      /\ \A c \in {"byte", "silence", "call"} : wait'[c] = wait[c]
  BY <1>1, <1>3, <1>5, EventRunsClocks
<1>7. ~error /\ ~Inconsistent /\ curr \in States
  BY <1>2 DEF LineInv, Control, ChecksNeverFire, ControlTypeOK
<1>8. wait'["loop"] <= LatencyMax'
  BY <1>1, <1>6, OnTimeNumbers DEF OFF, LatencyMax
<1>9. frame' = frame /\ owed' = IF FrameConfirmed /\ adu_check(rxbuf) THEN <<>> ELSE owed
  BY <1>6 DEF Event
<1>10. CASE ~FrameConfirmed /\ ~(updated /\ curr = "INIT")
  <2>1. /\ UNCHANGED <<error, prev, curr, rxbuf, timer, sending, owed>>
        /\ updated' = FALSE
    <3>1. CASE updated
      BY <1>6, <1>7, <1>9, <1>10, <3>1 DEF Event, modbus_rtu_event, event_error, event_init,
        event_frame, event_sof, event_none, platform
    <3>2. CASE ~updated
      BY <1>2, <1>6, <1>9, <1>10, <3>2 DEF Event, vars, status, platform, Control, ControlTypeOK
    <3> QED
      BY <3>1, <3>2
  <2>2. wait'["timer"] = wait["timer"] /\ wait'["reply"] = wait["reply"]
    BY <1>6, <1>7, <1>10, <2>1 DEF AfterEvent
  <2>3. ~(curr = "IDLE" /\ updated /\ prev = "EOF")
    BY <1>7, <1>10 DEF FrameConfirmed
  <2>4. CallWaits' <=> CallWaits
    BY <1>6, <2>1 DEF CallWaits, Answered
  <2>5. InInit' /\ InBusy'
    BY <1>6, <1>9, <1>10, <2>1, <2>2 DEF LineInv, InInit, InBusy, Quiet
  <2>6. InIdle'
    BY <1>6, <1>9, <2>1, <2>3, <2>4 DEF LineInv, InIdle
  <2>7. InFrame'
    <3> SUFFICES ASSUME curr \in {"SOF", "RECV"} PROVE InFrame'
      BY <2>1 DEF InFrame
    <3>1. Assembled'
      BY <1>9, <2>1 DEF LineInv, InFrame, Assembled, Rest, Part
    <3>2. Due(wait["timer"] + Longest(setup, "3t5") + LatencyMax)
            => Due(wait["timer"] + Longest(setup, "3t5") + LatencyMax)'
      BY <1>6, <2>1, <2>2 DEF Due, Answered, Longest, LatencyMax
    <3> QED
      BY <1>6, <1>9, <2>1, <2>2, <2>4, <3>1, <3>2 DEF LineInv, InFrame
  <2>8. InEof'
    <3>1. Due(wait["timer"] + LatencyMax) => Due(wait["timer"] + LatencyMax)'
      BY <1>6, <2>1, <2>2 DEF Due, Answered, LatencyMax
    <3> QED
      BY <1>9, <2>1, <2>4, <3>1 DEF LineInv, InEof
  <2> QED
    BY <1>8, <1>9, <2>1, <2>2, <2>3, <2>5, <2>6, <2>7, <2>8 DEF LineInv
<1>11. CASE updated /\ curr = "INIT"
  <2>1. /\ rxbuf' = <<>> /\ timer' = "3t5" /\ updated' = FALSE
        /\ UNCHANGED <<error, prev, curr, sending>>
    BY <1>6, <1>7, <1>11 DEF Event, modbus_rtu_event, event_error, event_init, event_frame,
      event_sof, event_none, FrameConfirmed, restart, timer_start
  <2>2. ~FrameConfirmed
    BY <1>11 DEF FrameConfirmed
  <2>3. wait'["timer"] \in Duration(setup, "3t5")
    BY <1>4, <1>6, <1>11, <2>1 DEF AfterEvent
  <2>4. /\ Longest(setup, "3t5") \in Nat
        /\ wait'["timer"] \in Nat /\ wait'["timer"] <= Longest(setup, "3t5")
    BY <1>1, <2>3, OnTimeNumbers
  <2>5. /\ Quiet /\ wait["byte"] # OFF /\ wait["call"] = OFF
        /\ 0 + Longest(setup, "3t5") < wait["byte"]
    BY <1>6, <1>11 DEF LineInv, InInit
  <2>6. wait["byte"] \in Int
    BY <1>1, ClockValues DEF Clocks
  <2>7. wait'["timer"] < wait'["byte"]
    BY <1>6, <2>4, <2>5, <2>6
  <2>8. InInit'
    BY <1>6, <1>9, <2>1, <2>2, <2>5, <2>7 DEF InInit, Quiet
  <2>9. wait'["reply"] = wait["reply"]
    BY <1>6, <2>1
  <2> QED
    BY <1>8, <1>9, <1>11, <2>1, <2>8, <2>9 DEF LineInv, InIdle, InFrame, InEof, InBusy
<1>12. CASE FrameConfirmed
  <2>1. curr = "IDLE" /\ updated /\ prev = "EOF"
    BY <1>12 DEF FrameConfirmed
  <2>2. frame = <<>> /\ rxbuf = owed /\ CallWaits /\ owed \in Frames /\ Due(0)
    BY <1>6, <2>1 DEF LineInv, InIdle, CallWaits
  <2>3. adu_check(rxbuf)
    BY <2>2, GoodFramesAssumption DEF Good
  <2>4. owed' = <<>> /\ (sending' <=> Answered(owed)) /\ ~sending
    BY <1>6, <1>9, <1>12, <2>1, <2>2, <2>3 DEF LineInv
  <2>5. event_frame
    BY <1>6, <1>7, <2>1 DEF Event, modbus_rtu_event, event_error, event_init, event_sof,
      event_none
  <2>6. /\ rxbuf' = <<>> /\ UNCHANGED <<error, timer>>
        /\ \/ updated' = FALSE /\ UNCHANGED <<prev, curr, sending>>
           \/ \E reply \in Replies \ {<<>>} :
                /\ txbuf' = reply \o CalcCrc(reply)
                /\ curr' = "BUSY" /\ sending' = TRUE
    BY <2>3, <2>5 DEF event_frame, adu_process, RTU_STATE_UPDATE, serial_send
  <2>7. wait'["timer"] = wait["timer"]
    BY <1>6, <1>7, <2>1 DEF AfterEvent
  <2>8. CASE updated' = FALSE /\ UNCHANGED <<prev, curr, sending>>
    <3>1. ~Answered(owed) /\ wait["byte"] # OFF /\ wait["call"] = OFF
      BY <2>2, <2>4, <2>8 DEF Due, CallWaits
    <3>2. InIdle'
      BY <1>6, <1>9, <2>2, <2>4, <2>6, <2>8, <3>1 DEF InIdle
    <3>3. wait'["reply"] = wait["reply"]
      BY <1>6, <2>8
    <3> QED
      BY <1>8, <1>9, <2>1, <2>4, <2>6, <2>7, <2>8, <3>1, <3>2, <3>3
      DEF LineInv, InInit, InFrame, InEof, InBusy
  <2>9. CASE \E reply \in Replies \ {<<>>} :
                /\ txbuf' = reply \o CalcCrc(reply)
                /\ curr' = "BUSY" /\ sending' = TRUE
    <3>1. wait["byte"] = OFF /\ wait["call"] # OFF
      BY <2>2, <2>4, <2>9 DEF Due, CallWaits
    <3>2. Len(txbuf') = ReplySize
      BY <2>9, ReplySizes
    <3>3. wait'["reply"] = ReplyTime
      BY <1>6, <2>4, <2>9, <3>2 DEF ReplyTime
    <3>4. InBusy'
      BY <1>6, <1>9, <2>2, <2>4, <2>6, <3>1 DEF InBusy, Quiet
    <3> QED
      BY <1>8, <2>1, <2>6, <2>9, <3>3, <3>4 DEF LineInv, InInit, InIdle, InFrame, InEof
  <2> QED
    BY <2>6, <2>8, <2>9
<1> QED
  BY <1>10, <1>11, <1>12

LEMMA LineInvStutter ==
  ASSUME LineInv, UNCHANGED timed
  PROVE  LineInv'
<1> USE DEF timed, vars, status, platform, line
<1>1. InInit' /\ InBusy' /\ CallWaits' = CallWaits
  BY DEF LineInv, InInit, InBusy, Quiet, Longest, CallWaits, Answered
<1>2. InIdle' /\ InEof'
  BY <1>1 DEF LineInv, InIdle, InEof, Due, Answered, LatencyMax
<1>3. InFrame'
  BY <1>1 DEF LineInv, InFrame, Assembled, Due, Answered, LatencyMax, Longest, Rest, Part
<1> QED
  BY <1>1, <1>2, <1>3 DEF LineInv, LatencyMax

LEMMA LineInvNext ==
  ASSUME OnTime, TypeInv, LineInv, [TimedNext]_timed
  PROVE  LineInv'
  BY LineInvTick, LineInvFrameBegins, LineInvByteCompletes, LineInvTimerExpires,
     LineInvReplySent, LineInvEventRuns, LineInvStutter DEF TimedNext

(* When both ends keep their times, the slave is in step with the line. *)
LEMMA InStep == ASSUME OnTime PROVE TimedSpec => [](TypeInv /\ LineInv)
<1>1. TimedInit => TypeInv /\ LineInv
  BY TimedInitTypes, LineInvInit
<1>2. TypeInv /\ LineInv /\ [TimedNext]_timed => TypeInv' /\ LineInv'
  BY TimedNextTypes, LineInvNext
<1> QED
  BY <1>1, <1>2, PTL DEF TimedSpec

(* When the gaps in a frame are shorter than the shortest 1.5t less a byte, and
   the silence after it longer than the longest 1.5t, 3.5t and latency less a
   byte, no byte meets a state of serial_recv_cb that does not expect it and no
   timer expires in the middle of a frame: no error is ever flagged. *)
THEOREM NoErrorsInTime == ASSUME OnTime PROVE TimedSpec => []NoErrorOnGoodLine
<1>1. LineInv => NoErrorOnGoodLine
  BY DEF LineInv, NoErrorOnGoodLine
<1> QED
  BY InStep, <1>1, PTL

----------------------------------------------------------------------------
(* The silence before a reply. *)

TimersSuffice == \A s \in Setups : TimersAreLong(s)

LEMMA SilenceInvInit == ASSUME TimedInit PROVE SilenceInv
  BY DEF TimedInit, Init, SilenceInv, OFF

LEMMA SilenceInvNext ==
  ASSUME OnTime, TimersSuffice, TypeInv, LineInv, SilenceInv, [TimedNext]_timed
  PROVE  SilenceInv'
<1>1. setup \in Setups /\ ClocksOK /\ MasterWaits
  BY DEF TypeInv, TimedTypeOK, ClocksOK
<1>2. \A c \in {"timer", "silence"} : wait[c] \in Int /\ (wait[c] # OFF => wait[c] >= 0)
  BY <1>1, ClockValues DEF Clocks
<1>3. /\ Shortest(setup, "1t5") \in Nat /\ Shortest(setup, "3t5") \in Nat
      /\ \A d \in Duration(setup, "1t5") : d \in Nat /\ Shortest(setup, "1t5") <= d
      /\ \A d \in Duration(setup, "3t5") : d \in Nat /\ Shortest(setup, "3t5") <= d
  BY <1>1, DurationBounds DEF Intervals
<1>4. /\ Silence(setup) \in Nat \ {0}
      /\ Silence(setup) <= Shortest(setup, "1t5") + Shortest(setup, "3t5")
  BY <1>1, SilenceType DEF TimersSuffice, TimersAreLong
<1>5. CASE Tick
  <2>1. PICK d \in Nat \ {0} : Passes(d)
    BY <1>1, <1>5, TickPasses
  <2>2. UNCHANGED <<updated, prev, curr, setup>>
    BY <1>5 DEF Tick, vars, status
  <2>3. \/ wait["silence"] = OFF /\ wait'["silence"] = OFF
        \/ wait["silence"] >= d
             /\ (wait'["silence"] = OFF \/ wait'["silence"] = wait["silence"] - d)
             /\ wait'["silence"] # 0
    BY <1>2, <2>1 DEF Passes, Clocks, OFF
  <2>4. wait["timer"] # OFF => wait["timer"] >= d /\ wait'["timer"] = wait["timer"] - d
    BY <2>1 DEF Passes, Clocks
  <2>5. curr \in {"SOF", "RECV", "EOF"} => wait["timer"] # OFF
    BY DEF TypeInv, TimedTypeOK, IInv, Control, TimerMatchesState
  <2>6. wait'["silence"] # 0
    BY <2>3 DEF OFF
  <2>7. curr \in {"SOF", "RECV"} =>
            wait'["silence"] <= wait'["timer"] + Shortest(setup, "3t5")
    BY <1>2, <1>3, <2>3, <2>4, <2>5 DEF SilenceInv, OFF
  <2>8. curr = "EOF" => wait'["silence"] <= wait'["timer"]
    BY <1>2, <2>3, <2>4, <2>5 DEF SilenceInv, OFF
  <2>9. wait["silence"] = OFF => wait'["silence"] = OFF
    BY <2>3 DEF OFF
  <2> QED
    BY <2>2, <2>6, <2>7, <2>8, <2>9 DEF SilenceInv, Shortest
<1>6. CASE FrameBegins
  <2>1. /\ curr = "IDLE" /\ curr' = "IDLE"
        /\ UNCHANGED <<vars, setup>> /\ wait'["silence"] = wait["silence"]
    BY <1>1, <1>6, LineInvFrameBegins, FrameBeginsClocks
  <2> QED
    BY <2>1 DEF SilenceInv, vars, status
<1>7. CASE ByteCompletes
  <2>1. wait'["timer"] \in Duration(setup, "1t5") /\ curr' \in {"SOF", "RECV"}
    BY <1>7, LineInvByteCompletes
  <2>2. wait'["silence"] = Silence(setup) /\ setup' = setup
    <3>1. PICK t, b, l : wait' = [wait EXCEPT !["timer"] = t, !["byte"] = b, !["loop"] = l,
                                              !["silence"] = Silence(setup)]
      BY <1>7 DEF ByteCompletes
    <3> QED
      BY <1>1, <1>7, <3>1 DEF ByteCompletes, ClocksOK, Clocks
  <2>3. wait'["silence"] <= wait'["timer"] + Shortest(setup, "3t5")
    BY <1>3, <1>4, <2>1, <2>2
  <2> QED
    BY <1>4, <2>1, <2>2, <2>3 DEF SilenceInv, Shortest
<1>8. CASE TimerExpires
  <2>1. wait["timer"] = 0 /\ wait'["silence"] = wait["silence"] /\ setup' = setup
    <3>1. PICK t, l : wait' = [wait EXCEPT !["timer"] = t, !["loop"] = l]
      BY <1>8 DEF TimerExpires
    <3> QED
      BY <1>1, <1>8, <3>1 DEF TimerExpires, ClocksOK, Clocks
  <2>2. \/ curr = "INIT" /\ prev' = "INIT" /\ curr' = "IDLE"
        \/ curr = "RECV" /\ curr' = "EOF" /\ wait'["timer"] \in Duration(setup, "3t5")
        \/ curr = "EOF" /\ curr' = "IDLE" /\ updated' /\ prev' = "EOF"
    BY <1>8, LineInvTimerExpires
  <2>3. CASE curr = "INIT" /\ prev' = "INIT" /\ curr' = "IDLE"
    BY <2>1, <2>3 DEF SilenceInv
  <2>4. CASE curr = "RECV" /\ curr' = "EOF" /\ wait'["timer"] \in Duration(setup, "3t5")
    <3>1. wait["silence"] <= 0 + Shortest(setup, "3t5")
      BY <2>1, <2>4 DEF SilenceInv
    <3>2. wait'["silence"] <= wait'["timer"]
      BY <1>2, <1>3, <2>1, <2>4, <3>1
    <3> QED
      BY <2>1, <2>4, <3>2 DEF SilenceInv
  <2>5. CASE curr = "EOF" /\ curr' = "IDLE" /\ updated' /\ prev' = "EOF"
    <3>1. wait["silence"] = OFF
      BY <1>2, <2>1, <2>5 DEF SilenceInv
    <3> QED
      BY <2>1, <2>5, <3>1 DEF SilenceInv
  <2> QED
    BY <2>2, <2>3, <2>4, <2>5
<1>9. CASE ReplySent
  <2>1. curr' = "INIT" /\ wait'["silence"] = wait["silence"]
    BY <1>1, <1>9, LineInvReplySent, ReplySentClocks
  <2> QED
    BY <2>1 DEF SilenceInv
<1>10. CASE EventRuns
  <2>1. \/ curr' = curr /\ (curr' = "IDLE" /\ updated' => prev' # "EOF")
             /\ (curr # "INIT" => wait'["timer"] = wait["timer"])
        \/ curr = "IDLE" /\ updated /\ prev = "EOF" /\ curr' = "BUSY"
    BY <1>10, LineInvEventRuns
  <2>2. wait'["silence"] = wait["silence"] /\ setup' = setup
    <3>1. PICK t, r : wait' = [wait EXCEPT !["loop"] = OFF, !["timer"] = t, !["reply"] = r]
      BY <1>10 DEF EventRuns
    <3> QED
      BY <1>1, <1>10, <3>1 DEF EventRuns, ClocksOK, Clocks
  <2> QED
    BY <2>1, <2>2 DEF SilenceInv, Shortest
<1>11. CASE UNCHANGED timed
  BY <1>11 DEF timed, vars, status, SilenceInv, Shortest
<1> QED
  BY <1>5, <1>6, <1>7, <1>8, <1>9, <1>10, <1>11 DEF TimedNext

(* When in addition the shortest 1.5t and 3.5t make 3.5 characters, the reply
   never begins before the silence after the request is over. *)
THEOREM RepliesKeepSilence ==
  ASSUME OnTime, TimersSuffice
  PROVE  TimedSpec => []ReplyKeepsSilence
<1>1. TimedInit => SilenceInv
  BY SilenceInvInit
<1>2. TypeInv /\ LineInv /\ SilenceInv /\ [TimedNext]_timed => SilenceInv'
  BY SilenceInvNext
<1>3. LineInv /\ SilenceInv => ReplyKeepsSilence
  BY DEF LineInv, SilenceInv, ReplyKeepsSilence
<1> QED
  BY InStep, <1>1, <1>2, <1>3, PTL DEF TimedSpec

----------------------------------------------------------------------------
(* The application. *)

LoopsAreQuick == \A s \in Setups : LoopIsQuick(s)

LEMMA SuspendInvNext ==
  ASSUME OnTime, LoopsAreQuick, TypeInv, LineInv, LineInv', SuspendInv, [TimedNext]_timed
  PROVE  SuspendInv'
<1>1. setup \in Setups /\ ClocksOK /\ MasterWaits
  BY DEF TypeInv, TimedTypeOK, ClocksOK
<1>2. \A c \in {"byte", "loop"} : wait[c] \in Int /\ (wait[c] # OFF => wait[c] >= 0)
  BY <1>1, ClockValues DEF Clocks
<1>3. /\ LatencyMax \in Nat /\ LatencyMax < ByteTime(setup) /\ ByteTime(setup) \in Nat
      /\ \A l \in Latencies : l \in Nat /\ l <= LatencyMax
      /\ Gaps(setup) \subseteq Nat
  BY <1>1, LongestType, ByteTimeType DEF LoopsAreQuick, LoopIsQuick, LatencyMax
<1>4. CASE Tick
  <2>1. PICK d \in Nat \ {0} : Passes(d)
    BY <1>1, <1>4, TickPasses
  <2>2. UNCHANGED <<vars, frame>>
    BY <1>4 DEF Tick, line
  <2>3. curr = "SOF" /\ ~suspended => wait'["loop"] # OFF /\ wait'["loop"] < wait'["byte"]
    <3>1. SUFFICES ASSUME curr = "SOF", ~suspended
                   PROVE  wait'["loop"] # OFF /\ wait'["loop"] < wait'["byte"]
      OBVIOUS
    <3>2. wait["loop"] # OFF /\ wait["loop"] < wait["byte"] /\ wait["byte"] # OFF
      BY <1>2, <3>1 DEF SuspendInv, OFF
    <3>3. /\ wait["loop"] >= d /\ wait'["loop"] = wait["loop"] - d
          /\ wait["byte"] >= d /\ wait'["byte"] = wait["byte"] - d
      BY <2>1, <3>2 DEF Passes, Clocks
    <3> QED
      BY <1>2, <3>2, <3>3 DEF OFF
  <2> QED
    BY <2>2, <2>3 DEF SuspendInv, vars, status
<1>5. CASE FrameBegins
  <2>1. curr = "IDLE" /\ UNCHANGED <<vars, setup>>
    BY <1>1, <1>5, LineInvFrameBegins, FrameBeginsClocks
  <2> QED
    BY <2>1 DEF SuspendInv, vars, status
<1>6. CASE ByteCompletes
  <2>1. curr' \in {"SOF", "RECV"}
    BY <1>6, LineInvByteCompletes
  <2>2. /\ serial_recv_cb(Head(frame)) /\ wait["byte"] = 0 /\ suspended' = suspended
        /\ frame # <<>> /\ frame' = Tail(frame)
    BY <1>6 DEF ByteCompletes, serial_recv_cb
  <2>3. CASE curr = "IDLE"
    <3>1. updated' /\ prev' = "IDLE" /\ curr' = "SOF"
      BY <2>2, <2>3 DEF serial_recv_cb, RTU_STATE_UPDATE
    <3>2. frame' # <<>>
      <4>1. Assembled' /\ owed' \in Frames
        BY <3>1 DEF LineInv, InFrame, CallWaits
      <4>2. PICK n \in 1 .. Len(owed') : frame' = Rest(owed', n) /\ n = 1
        BY <3>1, <4>1 DEF Assembled
      <4>3. owed' \in Seq(Byte) /\ Len(owed') >= 4 /\ Len(owed') \in Nat
        BY <4>1, GoodFramesAssumption, GoodFrame
      <4> DEFINE f == owed'
      <4>4. f \in Seq(Byte) /\ Len(f) \in Nat /\ Len(f) >= 4 /\ frame' = Rest(f, 1)
        BY <4>2, <4>3
      <4> HIDE DEF f
      <4>5. \A k \in Nat : k >= 4 => 1 \in 0 .. k /\ 1 # k
        OBVIOUS
      <4>6. 1 \in 0 .. Len(f) /\ 1 # Len(f)
        BY <4>4, <4>5, Zenon
      <4> QED
        BY <4>4, <4>6, NoPart
    <3>3. wait'["loop"] # OFF /\ wait'["loop"] <= LatencyMax /\ wait'["loop"] \in Int
      <4>1. PICK l \in Woken : \E t, b :
                wait' = [wait EXCEPT !["timer"] = t, !["byte"] = b, !["loop"] = l,
                                     !["silence"] = Silence(setup)]
        BY <1>6 DEF ByteCompletes
      <4>2. wait'["loop"] = l
        BY <1>1, <4>1 DEF ClocksOK, Clocks
      <4> QED
        BY <1>2, <1>3, <4>1, <4>2 DEF Woken, LineInv, OFF
    <3>4. wait'["byte"] \in Int /\ wait'["byte"] >= ByteTime(setup)
      <4>1. PICK b \in NextByte : \E t, l :
                wait' = [wait EXCEPT !["timer"] = t, !["byte"] = b, !["loop"] = l,
                                     !["silence"] = Silence(setup)]
        BY <1>6 DEF ByteCompletes
      <4>2. wait'["byte"] = b
        BY <1>1, <4>1 DEF ClocksOK, Clocks
      <4>3. Len(frame) > 1
        <5>1. PICK f \in Sendable : \E n \in 0 .. Len(f) : frame = Rest(f, n)
          BY DEF TypeInv, TimedTypeOK, LineTypeOK, Rest, Sendable
        <5>2. frame \in Seq(Byte)
          BY <5>1, SendableSeq, RestType
        <5> QED
          BY <2>2, <3>2, <5>2
      <4>4. PICK gap \in Gaps(setup) : b = ByteTime(setup) + gap
        BY <4>1, <4>3 DEF NextByte
      <4> QED
        BY <1>3, <4>2, <4>4
    <3> QED
      BY <1>3, <3>1, <3>2, <3>3, <3>4 DEF SuspendInv
  <2>4. CASE curr \in {"SOF", "RECV"}
    <3>1. suspended /\ curr' = "RECV"
      BY <1>2, <2>2, <2>4 DEF SuspendInv, serial_recv_cb, RTU_STATE_UPDATE, OFF
    <3> QED
      BY <2>2, <3>1 DEF SuspendInv
  <2>5. curr \in {"IDLE", "SOF", "RECV"}
    BY <2>1, <2>2 DEF serial_recv_cb, RTU_STATE_ERROR
  <2> QED
    BY <2>3, <2>4, <2>5
<1>7. CASE TimerExpires
  <2>1. suspended' = suspended
    BY <1>7 DEF TimerExpires, timer_silent_interval_cb, timer_inter_frame_timeout_cb
  <2>2. \/ curr = "INIT" /\ prev' = "INIT" /\ curr' = "IDLE"
        \/ curr = "RECV" /\ curr' = "EOF"
        \/ curr = "EOF" /\ curr' = "IDLE"
    BY <1>7, LineInvTimerExpires
  <2> QED
    BY <2>1, <2>2 DEF SuspendInv
<1>8. CASE ReplySent
  <2>1. curr' = "INIT"
    BY <1>1, <1>8, LineInvReplySent, ReplySentClocks
  <2> QED
    BY <2>1 DEF SuspendInv
<1>9. CASE EventRuns
  <2>1. \/ curr' = curr /\ (curr' = "IDLE" /\ updated' => prev' # "EOF")
        \/ curr' = "BUSY"
    BY <1>9, LineInvEventRuns
  <2>2. /\ IF updated THEN modbus_rtu_event ELSE UNCHANGED vars
        /\ frame' = frame
    BY <1>9 DEF EventRuns, Event
  <2>3. CASE curr' = curr /\ curr = "SOF"
    <3>1. ~error /\ ~Inconsistent
      BY DEF LineInv, TypeInv, IInv, Control, ChecksNeverFire
    <3>2. CASE updated
      <4>1. suspended'
        BY <2>2, <2>3, <3>1, <3>2
        DEF modbus_rtu_event, event_error, event_init, event_frame, event_sof, event_none,
            FrameConfirmed
      <4> QED
        BY <2>3, <4>1 DEF SuspendInv
    <3>3. CASE ~updated
      BY <2>2, <2>3, <3>3 DEF SuspendInv, vars, status
    <3> QED
      BY <3>2, <3>3
  <2>4. CASE curr' = curr /\ curr \in {"RECV", "EOF"}
    <3>1. suspended'
      BY <2>2, <2>4
      DEF SuspendInv, modbus_rtu_event, event_error, event_init, event_frame, event_sof,
          event_none, FrameConfirmed, vars
    <3> QED
      BY <2>4, <3>1 DEF SuspendInv
  <2> QED
    BY <2>1, <2>3, <2>4 DEF SuspendInv
<1>10. CASE UNCHANGED timed
  BY <1>10 DEF timed, vars, status, line, SuspendInv
<1> QED
  BY <1>4, <1>5, <1>6, <1>7, <1>8, <1>9, <1>10 DEF TimedNext

(* When the main loop of the application is late by less than a byte, it is told
   of every frame: it has been suspended when the frame is handed to pdu_cb. *)
THEOREM FramesSuspend ==
  ASSUME OnTime, LoopsAreQuick
  PROVE  TimedSpec => []SuspendedForFrame
<1>1. TimedInit => SuspendInv
  BY DEF TimedInit, Init, SuspendInv
<1>2. TypeInv /\ LineInv /\ LineInv' /\ SuspendInv /\ [TimedNext]_timed => SuspendInv'
  BY SuspendInvNext
<1>3. SuspendInv => SuspendedForFrame
  BY DEF SuspendInv, SuspendedForFrame, FrameConfirmed
<1> QED
  BY InStep, <1>1, <1>2, <1>3, PTL DEF TimedSpec

----------------------------------------------------------------------------
(* The timeout of the master. *)

TimeoutSuffices == \A s \in Setups : TimeoutIsLong(s)

(* The times of a call are times. *)
LEMMA CallNumbers ==
  ASSUME setup \in Setups
  PROVE  /\ NextByteTime \in Nat /\ ReplyTime \in Nat /\ LatencyMax \in Nat
         /\ Longest(setup, "1t5") \in Nat /\ Longest(setup, "3t5") \in Nat
         /\ ProcessingTime(setup) = Longest(setup, "1t5") + Longest(setup, "3t5") + LatencyMax
         /\ \A d \in Duration(setup, "1t5") : d \in Nat /\ d <= Longest(setup, "1t5")
         /\ \A d \in Duration(setup, "3t5") : d \in Nat /\ d <= Longest(setup, "3t5")
         /\ \A gap \in Gaps(setup) :
                ByteTime(setup) + gap \in Nat /\ ByteTime(setup) + gap <= NextByteTime
<1>1. ByteTime(setup) \in Nat /\ ReplySize \in Nat
  BY ByteTimeType, ReplySizes
<1>2. ReplyTime \in Nat
  BY <1>1 DEF ReplyTime
<1>3. /\ Gaps(setup) \subseteq Nat /\ Max(Gaps(setup)) \in Nat /\ LatencyMax \in Nat
      /\ \A gap \in Gaps(setup) : gap <= Max(Gaps(setup))
  BY LongestType
<1>4. /\ Longest(setup, "1t5") \in Nat /\ Longest(setup, "3t5") \in Nat
      /\ \A d \in Duration(setup, "1t5") : d \in Nat /\ d <= Longest(setup, "1t5")
      /\ \A d \in Duration(setup, "3t5") : d \in Nat /\ d <= Longest(setup, "3t5")
  BY DurationBounds DEF Intervals
<1> QED
  BY <1>1, <1>2, <1>3, <1>4 DEF NextByteTime, ProcessingTime, LatencyMax

(* The times do not change while the setup does not. *)
LEMMA CallNumbersKept ==
  ASSUME setup' = setup
  PROVE  /\ NextByteTime' = NextByteTime /\ ReplyTime' = ReplyTime
         /\ LatencyMax' = LatencyMax
         /\ Longest(setup, "3t5")' = Longest(setup, "3t5")
         /\ ProcessingTime(setup)' = ProcessingTime(setup)
  BY DEF NextByteTime, ReplyTime, LatencyMax, Longest, ProcessingTime

LEMMA CallInvInit == ASSUME TimedInit PROVE CallInv
  BY DEF TimedInit, CallInv

LEMMA CallInvTick ==
  ASSUME OnTime, TypeInv, LineInv, CallInv, Tick
  PROVE  CallInv'
<1>1. setup \in Setups /\ ClocksOK /\ MasterWaits
  BY DEF TypeInv, TimedTypeOK, ClocksOK
<1>2. PICK d \in Nat \ {0} : Passes(d)
  BY <1>1, TickPasses
<1>3. \A c \in {"timer", "byte", "loop", "call", "reply"} :
        /\ wait[c] \in Int
        /\ wait[c] = OFF <=> wait'[c] = OFF
        /\ wait[c] # OFF => d <= wait[c] /\ wait'[c] = wait[c] - d
  BY <1>1, <1>2, ClockValues DEF Passes, Clocks, OFF
<1>4. UNCHANGED <<updated, prev, curr, frame, setup>>
  BY DEF Tick, vars, status, line
<1>5. NextByteTime' = NextByteTime /\ ReplyTime' = ReplyTime /\ LatencyMax' = LatencyMax
        /\ Longest(setup, "3t5")' = Longest(setup, "3t5")
        /\ ProcessingTime(setup)' = ProcessingTime(setup)
  BY <1>4, CallNumbersKept
<1>6. NextByteTime \in Nat /\ ReplyTime \in Nat /\ LatencyMax \in Nat
        /\ Longest(setup, "3t5") \in Nat /\ ProcessingTime(setup) \in Nat
  BY <1>1, CallNumbers
<1> SUFFICES ASSUME wait["call"] # OFF PROVE CallInv'
  BY <1>3 DEF CallInv
<1>7. curr \in {"SOF", "RECV", "EOF"} => wait["timer"] # OFF
  BY DEF TypeInv, TimedTypeOK, IInv, Control, TimerMatchesState
<1>8. curr = "BUSY" => wait["reply"] # OFF
  BY DEF TypeInv, TimedTypeOK, LineInv
<1>9. curr = "IDLE" => frame = <<>> /\ wait["loop"] # OFF
  BY <1>3 DEF LineInv, InIdle, OFF
<1>10. ASSUME NEW c \in {"timer", "byte", "loop"}, NEW more \in Int,
              wait[c] # OFF, wait[c] + more < wait["call"]
       PROVE  wait'[c] + more < wait'["call"]
  BY <1>3, <1>10
<1>11. curr \in {"SOF", "RECV"} /\ frame # <<>> =>
         wait'["byte"] + (Len(frame) - 1) * NextByteTime + ProcessingTime(setup) + ReplyTime
           < wait'["call"]
  <2> SUFFICES ASSUME curr \in {"SOF", "RECV"}, frame # <<>>
      PROVE wait'["byte"] + (Len(frame) - 1) * NextByteTime + ProcessingTime(setup) + ReplyTime
              < wait'["call"]
    OBVIOUS
  <2> DEFINE rest == (Len(frame) - 1) * NextByteTime
  <2>1. rest \in Int
    <3>1. PICK n \in 1 .. Len(owed) : frame = Rest(owed, n)
      BY DEF LineInv, InFrame, Assembled
    <3>2. owed \in Seq(Byte) /\ Len(owed) \in Nat
      BY FramesAssumption DEF LineInv, InFrame, CallWaits
    <3>3. n \in 0 .. Len(owed)
      BY <3>2
    <3>4. Len(frame) \in Int
      BY <3>1, <3>2, <3>3, RestType
    <3> QED
      BY <1>6, <3>4
  <2>2. wait["byte"] # OFF
    BY DEF LineInv, InFrame
  <2>3. wait["byte"] + rest + ProcessingTime(setup) + ReplyTime < wait["call"]
    BY DEF CallInv
  <2> DEFINE more == rest + ProcessingTime(setup) + ReplyTime
  <2> HIDE DEF rest
  <2>4. /\ more \in Int
        /\ \A t \in Int : t + rest + ProcessingTime(setup) + ReplyTime = t + more
    BY <1>6, <2>1
  <2>5. wait["byte"] \in Int /\ wait'["byte"] \in Int
    BY <1>3, <2>2
  <2> HIDE DEF more
  <2>6. wait["byte"] + more < wait["call"]
    BY <2>3, <2>4, <2>5
  <2>7. wait'["byte"] + more < wait'["call"]
    BY <1>10, <2>2, <2>4, <2>6
  <2>8. wait'["byte"] + rest + ProcessingTime(setup) + ReplyTime < wait'["call"]
    BY <2>4, <2>5, <2>7
  <2> QED
    BY <2>8 DEF rest
<1>12. curr \in {"SOF", "RECV"} /\ frame = <<>> =>
         wait'["timer"] + Longest(setup, "3t5") + LatencyMax + ReplyTime < wait'["call"]
  <2> SUFFICES ASSUME curr \in {"SOF", "RECV"}, frame = <<>>
      PROVE wait'["timer"] + Longest(setup, "3t5") + LatencyMax + ReplyTime < wait'["call"]
    OBVIOUS
  <2>1. wait["timer"] + Longest(setup, "3t5") + LatencyMax + ReplyTime < wait["call"]
    BY DEF CallInv
  <2>2. wait["timer"] # OFF
    BY <1>7
  <2> DEFINE more == Longest(setup, "3t5") + LatencyMax + ReplyTime
  <2>3. /\ more \in Int
        /\ \A t \in Int : t + Longest(setup, "3t5") + LatencyMax + ReplyTime = t + more
    BY <1>6
  <2>4. wait["timer"] \in Int /\ wait'["timer"] \in Int
    BY <1>3, <2>2
  <2> HIDE DEF more
  <2>5. wait["timer"] + more < wait["call"]
    BY <2>1, <2>3, <2>4
  <2>6. wait'["timer"] + more < wait'["call"]
    BY <1>10, <2>2, <2>3, <2>5
  <2> QED
    BY <2>3, <2>4, <2>6
<1>13. curr = "EOF" => wait'["timer"] + LatencyMax + ReplyTime < wait'["call"]
  <2>1. curr = "EOF" => wait["timer"] + LatencyMax + ReplyTime < wait["call"]
    BY DEF CallInv
  <2> QED
    BY <1>3, <1>6, <1>7, <2>1
<1>14. curr = "IDLE" => wait'["loop"] + ReplyTime < wait'["call"]
  <2>1. curr = "IDLE" => wait["loop"] + ReplyTime < wait["call"]
    BY <1>9 DEF CallInv
  <2> QED
    BY <1>3, <1>6, <1>9, <2>1
<1>15. curr = "BUSY" => wait'["reply"] < wait'["call"]
  BY <1>3, <1>8 DEF CallInv
<1> QED
  BY <1>4, <1>5, <1>9, <1>11, <1>12, <1>13, <1>14, <1>15 DEF CallInv

LEMMA CallInvFrameBegins ==
  ASSUME OnTime, TimeoutSuffices, TypeInv, LineInv, FrameBegins
  PROVE  CallInv'
<1>1. setup \in Setups /\ ClocksOK
  BY DEF TypeInv, TimedTypeOK, ClocksOK
<1>2. setup' = setup /\ curr' = "IDLE"
  BY LineInvFrameBegins DEF FrameBegins
<1>3. PICK f \in Frames :
        /\ MasterSends(f)
        /\ wait'["call"] = IF Answered(f) THEN read_impl(setup) - ByteTime(setup) ELSE OFF
  BY <1>1, FrameBeginsClocks
<1> SUFFICES ASSUME wait'["call"] # OFF PROVE CallInv'
  BY DEF CallInv
<1>4. frame' = f /\ f # <<>> /\ Answered(f) /\ Len(f) \in Nat
  BY <1>3, FramesAssumption DEF MasterSends
<1> DEFINE rest == (Len(f) - 1) * NextByteTime
<1>5. ByteTime(setup) + rest + ProcessingTime(setup) + ReplyTime < read_impl(setup)
  BY <1>1, <1>4 DEF TimeoutSuffices, TimeoutIsLong, NextByteTime, ReplyTime
<1>6. /\ NextByteTime \in Nat /\ ReplyTime \in Nat /\ ProcessingTime(setup) \in Nat
      /\ ByteTime(setup) \in Nat /\ read_impl(setup) \in Nat
  BY <1>1, CallNumbers, ByteTimeType, TimeoutType
<1>7. rest \in Int
  BY <1>4, <1>6
<1> HIDE DEF rest
<1>8. rest + ProcessingTime(setup) + ReplyTime < wait'["call"]
  BY <1>3, <1>4, <1>5, <1>6, <1>7
<1> QED
  BY <1>2, <1>4, <1>8, CallNumbersKept DEF CallInv, rest

LEMMA CallInvByteCompletes ==
  ASSUME OnTime, TypeInv, LineInv, CallInv, ByteCompletes
  PROVE  CallInv'
<1>1. setup \in Setups /\ ClocksOK
  BY DEF TypeInv, TimedTypeOK, ClocksOK
<1>2. /\ curr \in {"IDLE", "SOF", "RECV"} /\ curr' \in {"SOF", "RECV"}
      /\ wait'["timer"] \in Duration(setup, "1t5")
      /\ Len(frame) \in Nat /\ Len(frame') = Len(frame) - 1
      /\ frame' # <<>> <=> Len(frame) > 1
  BY LineInvByteCompletes
<1>3. frame # <<>> /\ wait["byte"] = 0 /\ setup' = setup
  BY DEF ByteCompletes
<1>4. wait'["byte"] \in NextByte /\ wait'["call"] = wait["call"]
  <2>1. PICK t, b, l :
          /\ b \in NextByte
          /\ wait' = [wait EXCEPT !["timer"] = t, !["byte"] = b, !["loop"] = l,
                                  !["silence"] = Silence(setup)]
    BY DEF ByteCompletes
  <2> QED
    BY <1>1, <2>1 DEF ClocksOK, Clocks
<1> SUFFICES ASSUME wait["call"] # OFF PROVE CallInv'
  BY <1>4 DEF CallInv
<1>5. /\ NextByteTime \in Nat /\ ReplyTime \in Nat /\ LatencyMax \in Nat
      /\ Longest(setup, "1t5") \in Nat /\ Longest(setup, "3t5") \in Nat
      /\ ProcessingTime(setup) = Longest(setup, "1t5") + Longest(setup, "3t5") + LatencyMax
      /\ wait'["timer"] \in Nat /\ wait'["timer"] <= Longest(setup, "1t5")
      /\ \A gap \in Gaps(setup) :
             ByteTime(setup) + gap \in Nat /\ ByteTime(setup) + gap <= NextByteTime
  BY <1>1, <1>2, CallNumbers
<1>6. wait["call"] \in Int
  BY <1>1, ClockValues DEF Clocks
<1>7. Len(frame) \in Nat \ {0}
  <2>1. frame \in Seq(Byte)
    <3>1. PICK f \in Sendable : \E n \in 0 .. Len(f) : frame = Rest(f, n)
      BY DEF TypeInv, TimedTypeOK, LineTypeOK, Rest, Sendable
    <3> QED
      BY <3>1, SendableSeq, RestType
  <2> QED
    BY <1>2, <1>3, <2>1
<1> DEFINE rest == (Len(frame) - 1) * NextByteTime
           less == (Len(frame) - 1 - 1) * NextByteTime
<1>8. rest + ProcessingTime(setup) + ReplyTime < wait["call"]
  <2>1. rest \in Nat
    BY <1>5, <1>7, OneByteLess
  <2>2. 0 + rest = rest
    BY <2>1
  <2> QED
    BY <1>2, <1>3, <2>2 DEF CallInv
<1>9. /\ rest \in Nat /\ less \in Int
      /\ Len(frame) > 1 => NextByteTime + less = rest
      /\ Len(frame) = 1 => rest = 0
  BY <1>5, <1>7, OneByteLess
<1> HIDE DEF rest, less
<1>10. CASE Len(frame) > 1
  <2>1. PICK gap \in Gaps(setup) : wait'["byte"] = ByteTime(setup) + gap
    BY <1>4, <1>10 DEF NextByte
  <2>2. wait'["byte"] \in Nat /\ wait'["byte"] <= NextByteTime
    BY <1>5, <2>1
  <2>3. wait'["byte"] + less + ProcessingTime(setup) + ReplyTime < wait["call"]
    <3>1. ProcessingTime(setup) \in Int /\ ReplyTime \in Int /\ NextByteTime \in Int
      BY <1>5
    <3>2. less \in Int /\ NextByteTime + less = rest
      BY <1>9, <1>10
    <3> QED
      BY <1>6, <1>8, <2>2, <3>1, <3>2
  <2>4. wait'["byte"] + (Len(frame') - 1) * NextByteTime + ProcessingTime(setup) + ReplyTime
          < wait'["call"]
    BY <1>2, <1>4, <2>3 DEF less
  <2> QED
    BY <1>2, <1>3, <1>10, <2>4, CallNumbersKept DEF CallInv
<1>11. CASE Len(frame) = 1
  <2>1. wait'["timer"] + Longest(setup, "3t5") + LatencyMax + ReplyTime < wait'["call"]
    BY <1>4, <1>5, <1>6, <1>8, <1>9, <1>11
  <2>2. frame' = <<>>
    BY <1>2, <1>11
  <2> QED
    BY <1>2, <1>3, <2>1, <2>2, CallNumbersKept DEF CallInv
<1>12. Len(frame) > 1 \/ Len(frame) = 1
  BY <1>7
<1> QED
  BY <1>10, <1>11, <1>12

LEMMA CallInvTimerExpires ==
  ASSUME OnTime, TypeInv, LineInv, CallInv, TimerExpires
  PROVE  CallInv'
<1>1. setup \in Setups /\ ClocksOK
  BY DEF TypeInv, TimedTypeOK, ClocksOK
<1>2. /\ wait["timer"] = 0 /\ setup' = setup /\ frame' = frame
      /\ wait'["call"] = wait["call"]
  <2>1. PICK t, l : wait' = [wait EXCEPT !["timer"] = t, !["loop"] = l]
    BY DEF TimerExpires
  <2> QED
    BY <1>1, <2>1 DEF TimerExpires, ClocksOK, Clocks, line
<1>3. \/ curr = "INIT" /\ prev' = "INIT" /\ curr' = "IDLE"
      \/ curr = "RECV" /\ frame = <<>> /\ curr' = "EOF"
           /\ wait'["timer"] \in Duration(setup, "3t5")
      \/ curr = "EOF" /\ curr' = "IDLE" /\ updated' /\ prev' = "EOF"
  BY LineInvTimerExpires
<1>4. /\ ReplyTime \in Nat /\ LatencyMax \in Nat /\ Longest(setup, "3t5") \in Nat
      /\ \A d \in Duration(setup, "3t5") : d \in Nat /\ d <= Longest(setup, "3t5")
  BY <1>1, CallNumbers
<1>5. wait["call"] \in Int
  BY <1>1, ClockValues DEF Clocks
<1> SUFFICES ASSUME wait["call"] # OFF PROVE CallInv'
  BY <1>2 DEF CallInv
<1>6. CASE curr = "INIT"
  BY <1>6 DEF LineInv, InInit
<1>7. CASE curr = "RECV" /\ frame = <<>> /\ curr' = "EOF"
             /\ wait'["timer"] \in Duration(setup, "3t5")
  <2>1. 0 + Longest(setup, "3t5") + LatencyMax + ReplyTime < wait["call"]
    BY <1>2, <1>7 DEF CallInv
  <2>2. wait'["timer"] + LatencyMax + ReplyTime < wait'["call"]
    BY <1>2, <1>4, <1>5, <1>7, <2>1
  <2> QED
    BY <1>2, <1>7, <2>2, CallNumbersKept DEF CallInv
<1>8. CASE curr = "EOF" /\ curr' = "IDLE" /\ updated' /\ prev' = "EOF"
  <2>1. 0 + LatencyMax + ReplyTime < wait["call"] /\ frame = <<>>
    BY <1>2, <1>8 DEF CallInv, LineInv, InEof
  <2>2. wait'["loop"] <= LatencyMax /\ wait'["loop"] \in Int
    <3>1. LineInv' /\ TypeInv'
      BY LineInvTimerExpires, TimedNextTypes DEF TimedNext
    <3>2. wait'["loop"] \in {OFF} \cup Nat
      BY <3>1 DEF TypeInv, TimedTypeOK, Clocks
    <3> QED
      BY <1>2, <3>1, <3>2, CallNumbersKept DEF LineInv, OFF
  <2>3. wait'["loop"] + ReplyTime < wait'["call"]
    BY <1>2, <1>4, <1>5, <2>1, <2>2
  <2> QED
    BY <1>2, <1>8, <2>1, <2>3, CallNumbersKept DEF CallInv
<1> QED
  BY <1>3, <1>6, <1>7, <1>8

LEMMA CallInvEventRuns ==
  ASSUME OnTime, TypeInv, LineInv, CallInv, EventRuns
  PROVE  CallInv'
<1>1. setup \in Setups /\ ClocksOK
  BY DEF TypeInv, TimedTypeOK, ClocksOK
<1>2. /\ wait["loop"] = 0 /\ setup' = setup /\ frame' = frame
      /\ wait'["call"] = wait["call"] /\ wait'["byte"] = wait["byte"]
  <2>1. PICK t, r : wait' = [wait EXCEPT !["loop"] = OFF, !["timer"] = t, !["reply"] = r]
    BY DEF EventRuns
  <2> QED
    BY <1>1, <2>1 DEF EventRuns, ClocksOK, Clocks, Event
<1> SUFFICES ASSUME wait["call"] # OFF PROVE CallInv'
  BY <1>2 DEF CallInv
<1>3. curr # "INIT"
  BY DEF LineInv, InInit
<1>4. \/ /\ curr' = curr /\ wait'["timer"] = wait["timer"] /\ wait'["reply"] = wait["reply"]
         /\ ~(curr = "IDLE" /\ updated /\ prev = "EOF")
      \/ /\ curr = "IDLE" /\ updated /\ prev = "EOF" /\ curr' = "BUSY"
         /\ wait'["reply"] = ReplyTime
  BY <1>3, LineInvEventRuns
<1>5. CASE /\ curr' = curr /\ wait'["timer"] = wait["timer"]
           /\ wait'["reply"] = wait["reply"]
           /\ ~(curr = "IDLE" /\ updated /\ prev = "EOF")
  <2>1. curr = "IDLE" => frame # <<>>
    BY <1>5 DEF LineInv, InIdle
  <2> QED
    BY <1>2, <1>5, <2>1, CallNumbersKept DEF CallInv
<1>6. CASE /\ curr = "IDLE" /\ updated /\ prev = "EOF" /\ curr' = "BUSY"
           /\ wait'["reply"] = ReplyTime
  <2>1. 0 + ReplyTime < wait["call"]
    BY <1>2, <1>6 DEF CallInv, LineInv, InIdle
  <2>2. ReplyTime \in Nat
    BY <1>1, CallNumbers
  <2> QED
    BY <1>2, <1>6, <2>1, <2>2 DEF CallInv
<1> QED
  BY <1>4, <1>5, <1>6

LEMMA CallInvNext ==
  ASSUME OnTime, TimeoutSuffices, TypeInv, LineInv, CallInv, [TimedNext]_timed
  PROVE  CallInv'
<1>1. CASE ReplySent
  BY <1>1, ReplySentClocks DEF TypeInv, TimedTypeOK, ClocksOK, CallInv
<1>2. CASE UNCHANGED timed
  <2>1. setup' = setup /\ wait' = wait /\ curr' = curr /\ frame' = frame
    BY <1>2 DEF timed, vars, status, line
  <2> QED
    BY <2>1, CallNumbersKept DEF CallInv
<1> QED
  BY <1>1, <1>2, CallInvTick, CallInvFrameBegins, CallInvByteCompletes, CallInvTimerExpires,
     CallInvEventRuns DEF TimedNext

LEMMA CallsInTime ==
  ASSUME OnTime, TimeoutSuffices
  PROVE  TimedSpec => [](TypeInv /\ LineInv /\ CallInv)
<1>1. TimedInit => CallInv
  BY CallInvInit
<1>2. TypeInv /\ LineInv /\ CallInv /\ [TimedNext]_timed => CallInv'
  BY CallInvNext
<1> QED
  BY InStep, <1>1, <1>2, PTL DEF TimedSpec

(* A running call has time left, in every state. *)
LEMMA CallHasTime ==
  ASSUME TypeInv, LineInv, CallInv
  PROVE  wait["call"] # 0
<1>1. setup \in Setups /\ ClocksOK
  BY DEF TypeInv, TimedTypeOK, ClocksOK
<1> SUFFICES ASSUME wait["call"] = 0 PROVE FALSE
  OBVIOUS
<1>2. wait["call"] # OFF
  BY DEF OFF
<1>3. /\ NextByteTime \in Nat /\ ReplyTime \in Nat /\ LatencyMax \in Nat
      /\ Longest(setup, "3t5") \in Nat /\ ProcessingTime(setup) \in Nat
  BY <1>1, CallNumbers
<1>4. \A c \in {"timer", "byte", "loop", "reply"} :
        wait[c] \in Int /\ (wait[c] # OFF => wait[c] >= 0)
  BY <1>1, ClockValues DEF Clocks
<1>5. frame # <<>> => (Len(frame) - 1) * NextByteTime \in Nat
  <2>1. PICK f \in Sendable : \E n \in 0 .. Len(f) : frame = Rest(f, n)
    BY DEF TypeInv, TimedTypeOK, LineTypeOK, Rest, Sendable
  <2>2. frame \in Seq(Byte)
    BY <2>1, SendableSeq, RestType
  <2>3. frame # <<>> => Len(frame) \in Nat \ {0}
    BY <2>2
  <2> QED
    BY <1>3, <2>3, OneByteLess
<1>6. curr \in States
  BY DEF TypeInv, IInv, Control, ControlTypeOK
<1>7. ASSUME curr = "INIT" PROVE FALSE
  BY <1>2, <1>7 DEF LineInv, InInit
<1>8. ASSUME curr = "IDLE" PROVE FALSE
  <2>1. CASE frame # <<>>
    <3> DEFINE rest == (Len(frame) - 1) * NextByteTime
    <3>1. rest + ProcessingTime(setup) + ReplyTime < 0
      BY <1>2, <1>8, <2>1 DEF CallInv
    <3>2. rest \in Nat
      BY <1>5, <2>1
    <3> HIDE DEF rest
    <3> QED
      BY <1>3, <3>1, <3>2
  <2>2. CASE frame = <<>>
    <3>1. wait["loop"] # OFF /\ wait["loop"] + ReplyTime < 0
      BY <1>2, <1>8, <2>2 DEF CallInv, LineInv, InIdle
    <3> QED
      BY <1>3, <1>4, <3>1
  <2> QED
    BY <2>1, <2>2
<1>9. curr \in {"SOF", "RECV", "EOF"} => wait["timer"] # OFF
  BY DEF TypeInv, TimedTypeOK, IInv, Control, TimerMatchesState
<1>10. ASSUME curr \in {"SOF", "RECV"} PROVE FALSE
  <2>1. CASE frame # <<>>
    <3> DEFINE rest == (Len(frame) - 1) * NextByteTime
    <3>1. wait["byte"] + rest + ProcessingTime(setup) + ReplyTime < 0 /\ wait["byte"] # OFF
      BY <1>2, <1>10, <2>1 DEF CallInv, LineInv, InFrame
    <3>2. rest \in Nat
      BY <1>5, <2>1
    <3> HIDE DEF rest
    <3> QED
      BY <1>3, <1>4, <3>1, <3>2
  <2>2. CASE frame = <<>>
    <3>1. wait["timer"] + Longest(setup, "3t5") + LatencyMax + ReplyTime < 0
      BY <1>2, <1>10, <2>2 DEF CallInv
    <3>2. wait["timer"] # OFF
      BY <1>9, <1>10
    <3> QED
      BY <1>3, <1>4, <3>1, <3>2
  <2> QED
    BY <2>1, <2>2
<1>11. ASSUME curr = "EOF" PROVE FALSE
  <2>1. wait["timer"] + LatencyMax + ReplyTime < 0 /\ wait["timer"] # OFF
    BY <1>2, <1>9, <1>11 DEF CallInv
  <2> QED
    BY <1>3, <1>4, <2>1
<1>12. ASSUME curr = "BUSY" PROVE FALSE
  <2>1. wait["reply"] < 0 /\ wait["reply"] # OFF
    BY <1>2, <1>12 DEF CallInv, TypeInv, TimedTypeOK, LineInv
  <2> QED
    BY <1>4, <2>1
<1> QED
  BY <1>6, <1>7, <1>8, <1>10, <1>11, <1>12 DEF States

(* When the response timeout covers the request, the processing and the reply,
   no call of the master times out before its reply is complete. *)
THEOREM RepliesComeInTime ==
  ASSUME OnTime, TimeoutSuffices
  PROVE  TimedSpec => []ReplyComesInTime
<1>1. TypeInv /\ LineInv /\ CallInv => ReplyComesInTime
  BY CallHasTime DEF ReplyComesInTime
<1> QED
  BY CallsInTime, <1>1, PTL

(* Under the same conditions every frame is processed, that is handed to pdu_cb,
   before the next one begins. *)
THEOREM FramesProcessedInTime ==
  ASSUME OnTime, TimeoutSuffices
  PROVE  TimedSpec => []ProcessedInTime
<1>1. ASSUME TypeInv, LineInv, CallInv PROVE ProcessedInTime
  <2> SUFFICES ASSUME wait["byte"] = 0, frame = <<>> PROVE owed = <<>>
    BY <1>1, CallHasTime DEF ProcessedInTime
  <2> USE <1>1
  <2>1. setup \in Setups /\ ClocksOK
    BY DEF TypeInv, TimedTypeOK, ClocksOK
  <2>2. LatencyMax \in Nat /\ Longest(setup, "3t5") \in Nat
    BY <2>1, CallNumbers
  <2>3. \A c \in {"timer", "loop"} : wait[c] \in Int /\ (wait[c] # OFF => wait[c] >= 0)
    BY <2>1, ClockValues DEF Clocks
  <2>4. ASSUME NEW t \in Int, t >= 0, Due(t) PROVE FALSE
    BY <2>4 DEF Due, OFF
  <2>5. curr \in {"SOF", "RECV", "EOF"} => wait["timer"] # OFF
    BY DEF TypeInv, TimedTypeOK, IInv, Control, TimerMatchesState
  <2>6. ASSUME curr \in {"SOF", "RECV"} PROVE FALSE
    <3>1. Due(wait["timer"] + Longest(setup, "3t5") + LatencyMax) /\ wait["timer"] # OFF
      BY <2>5, <2>6 DEF LineInv, InFrame
    <3> QED
      BY <2>2, <2>3, <2>4, <3>1
  <2>7. ASSUME curr = "EOF" PROVE FALSE
    <3>1. Due(wait["timer"] + LatencyMax) /\ wait["timer"] # OFF
      BY <2>5, <2>7 DEF LineInv, InEof
    <3> QED
      BY <2>2, <2>3, <2>4, <3>1
  <2>8. ASSUME curr = "IDLE" PROVE owed = <<>>
    BY <2>3, <2>4, <2>8 DEF LineInv, InIdle
  <2>9. curr \in {"INIT", "BUSY"} => owed = <<>>
    BY DEF LineInv, InInit, InBusy, Quiet
  <2>10. curr \in States
    BY DEF TypeInv, IInv, Control, ControlTypeOK
  <2> QED
    BY <2>6, <2>7, <2>8, <2>9, <2>10 DEF States
<1> QED
  BY CallsInTime, <1>1, PTL

----------------------------------------------------------------------------
(* The numbers of the ports. *)

(* The timers of the microcontrollers, at 19200 bit/s. *)
LEMMA McuTimers ==
  ASSUME NEW s \in Setups
  PROVE  /\ Shortest(s, "1t5") \in {750, 752} /\ Longest(s, "1t5") \in {760, 768}
         /\ Shortest(s, "3t5") \in {1750, 1760} /\ Longest(s, "3t5") \in {1760, 1776}
         /\ Shortest(s, "1t5") + Shortest(s, "3t5") >= 2500
<1>1. s.port \in {"atmega328p", "stm8s003f3", "stm32f103c8"}
  BY McuAssumption DEF Ports
<1>2. /\ Max(Ticks(47, 16)) = 768 /\ Min(Ticks(47, 16)) = 752
      /\ Max(Ticks(110, 16)) = 1776 /\ Min(Ticks(110, 16)) = 1760
      /\ Max(Ticks(75, 10)) = 760 /\ Min(Ticks(75, 10)) = 750
      /\ Max(Ticks(175, 10)) = 1760 /\ Min(Ticks(175, 10)) = 1750
  <2> DEFINE Bounds(n, us, lo, hi) == Max(Ticks(n, us)) = hi /\ Min(Ticks(n, us)) = lo
  <2>1. ASSUME NEW n \in Nat, NEW us \in Nat PROVE Bounds(n, us, n * us, (n + 1) * us)
    BY TicksBounds
  <2> HIDE DEF Bounds
  <2>2. /\ Bounds(47, 16, 47 * 16, (47 + 1) * 16) /\ Bounds(110, 16, 110 * 16, (110 + 1) * 16)
        /\ Bounds(75, 10, 75 * 10, (75 + 1) * 10) /\ Bounds(175, 10, 175 * 10, (175 + 1) * 10)
    <3>1. Bounds(47, 16, 47 * 16, (47 + 1) * 16)
      BY <2>1
    <3>2. Bounds(110, 16, 110 * 16, (110 + 1) * 16)
      BY <2>1
    <3>3. Bounds(75, 10, 75 * 10, (75 + 1) * 10)
      BY <2>1
    <3>4. Bounds(175, 10, 175 * 10, (175 + 1) * 10)
      BY <2>1
    <3> QED
      BY <3>1, <3>2, <3>3, <3>4
  <2>3. /\ 47 * 16 = 752 /\ (47 + 1) * 16 = 768 /\ 110 * 16 = 1760 /\ (110 + 1) * 16 = 1776
        /\ 75 * 10 = 750 /\ (75 + 1) * 10 = 760 /\ 175 * 10 = 1750 /\ (175 + 1) * 10 = 1760
    OBVIOUS
  <2>4. /\ Bounds(47, 16, 752, 768) /\ Bounds(110, 16, 1760, 1776)
        /\ Bounds(75, 10, 750, 760) /\ Bounds(175, 10, 1750, 1760)
    BY <2>2, <2>3
  <2> QED
    BY <2>4 DEF Bounds
<1>3. CASE s.port = "atmega328p"
  <2>1. Duration(s, "1t5") = Ticks(47, 16) /\ Duration(s, "3t5") = Ticks(110, 16)
    BY <1>3 DEF Duration, tmr_start_1t5, tmr_start_3t5
  <2> QED
    BY <1>2, <2>1 DEF Shortest, Longest
<1>4. CASE s.port = "stm8s003f3"
  <2>1. Duration(s, "1t5") = Ticks(47, 16) /\ Duration(s, "3t5") = Ticks(110, 16)
    BY <1>4 DEF Duration, stm8_tim_start_1t5, stm8_tim_start_3t5
  <2> QED
    BY <1>2, <2>1 DEF Shortest, Longest
<1>5. CASE s.port = "stm32f103c8"
  <2>1. Duration(s, "1t5") = Ticks(75, 10) /\ Duration(s, "3t5") = Ticks(175, 10)
    BY <1>5 DEF Duration, tim_start_1t5, tim_start_3t5
  <2> QED
    BY <1>2, <2>1 DEF Shortest, Longest
<1> QED
  BY <1>1, <1>3, <1>4, <1>5

(* The compare values of the three microcontrollers (rtu_impl.c of each port)
   keep the silence of 3.5 characters.  They are good for a master that leaves
   up to 177 us, 0.3 characters, between two bytes and the 2005 us of 3.5
   characters between two frames, if modbus_rtu_event is late by 32 us at most. *)
THEOREM McuKeepsTime ==
  ASSUME NEW s \in Setups,
         \A gap \in Gaps(s) : gap <= 177,
         Space(s) >= 2005,
         Max(Latencies) <= 32
  PROVE  GapsAreShort(s) /\ SpaceIsLong(s) /\ TimersAreLong(s) /\ LoopIsQuick(s)
<1>1. Bps(s) = 19200 /\ ByteTime(s) = 572 /\ Silence(s) = 2002
  <2>1. s.port # "linux"
    BY McuAssumption DEF Ports
  <2> QED
    BY <2>1 DEF Bps, ByteTime, Silence
<1>2. Gaps(s) \subseteq Nat /\ Space(s) \in Nat /\ Max(Latencies) \in Nat
  BY LongestType DEF LatencyMax
<1> USE McuTimers
<1>3. GapsAreShort(s)
  BY <1>1, <1>2 DEF GapsAreShort
<1>4. SpaceIsLong(s)
  BY <1>1, <1>2 DEF SpaceIsLong, ProcessingTime
<1>5. TimersAreLong(s)
  BY <1>1 DEF TimersAreLong
<1>6. LoopIsQuick(s)
  BY <1>1, <1>2 DEF LoopIsQuick
<1> QED
  BY <1>3, <1>4, <1>5, <1>6

============================================================================
