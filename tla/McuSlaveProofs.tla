--------------------------- MODULE McuSlaveProofs ---------------------------
(***************************************************************************)
(* TLAPS proofs about McuSlave: the slave on each of the three             *)
(* microcontrollers implements the core of Rtu, and keeps what the core    *)
(* alone cannot promise, for every set of frames of which no part passes   *)
(* for a frame, good and bad, and every damage on the line.                *)
(***************************************************************************)
EXTENDS McuSlave, RtuProofs

(* What the handlers and the main loop make of the core's control state. *)
PortControl ==
    /\ port \in Ports
    /\ asleep \in BOOLEAN
    /\ pending \in BOOLEAN
    /\ unreset \in BOOLEAN
    /\ pending => port = "stm32f103c8"
    /\ unreset => error
    /\ LatchedOnlyAfterError

(* modbus_rtu_event has handled what there was when the CPU went to sleep, but
   for a reply it has begun and the error of a rejected frame, after which it has
   resumed the application. *)
SleptOn ==
    /\ asleep /\ updated => curr = "BUSY" \/ (error /\ curr = "IDLE" /\ prev = "EOF")
    /\ asleep /\ error => ~suspended

(* On a line without gaps a frame ends, as far as the slave can tell without
   an error, when it has ended; and a reply is on its way in BUSY alone, with
   the line silent. *)
EndIsEnd ==
    /\ ~error /\ curr = "EOF" => frame = <<>>
    /\ FrameConfirmed => frame = <<>>
    /\ sending => curr = "BUSY"
    /\ curr = "BUSY" => ~error /\ frame = <<>>

(* rxbuf holds, unless there is an error, the bytes of the frame on the line
   that have come since the slave was ready for them. *)
Assembled(f, n) ==
    /\ frame = Rest(f, n)
    /\ n = 0 => owed = Owing(f)
    /\ ~error => \E i \in 0 .. n : rxbuf = Part(f, i, n) /\ (i = 0 => owed = Owing(f))

Assembly == \E f \in Sendable : \E n \in 0 .. Len(f) : Assembled(f, n)

(* What has become of a good frame: it has been dealt with, and the application
   resumed, or it is being
   received from its first byte on without an error, or it is lost because of
   what the frame before it left behind, and the slave recovers meanwhile. *)
Done ==
    /\ owed = <<>> /\ frame = <<>>
    /\ ~error /\ curr \in {"IDLE", "BUSY", "INIT"} /\ ~FrameConfirmed
    /\ ~suspended

ReceivedUpTo(n) ==
    /\ frame = Rest(owed, n) /\ rxbuf = Part(owed, 0, n)
    /\ \/ n = 0 /\ curr = "IDLE" /\ ~FrameConfirmed
       \/ n = 1 /\ curr = "SOF"
       \/ n > 1 /\ curr = "RECV"
       \/ n = Len(owed) /\ (curr = "EOF" \/ FrameConfirmed)

Receiving ==
    /\ owed \in Frames /\ Good(owed) /\ ~error
    /\ \E n \in 0 .. Len(owed) : ReceivedUpTo(n)

Lost ==
    /\ owed # <<>> /\ ~before /\ ~suspended
    /\ \/ error /\ (asleep => frame # <<>>)
       \/ ~error /\ curr = "INIT"
       \/ ~error /\ curr = "IDLE" /\ frame = <<>> /\ ~FrameConfirmed

Progress ==
    /\ good \in BOOLEAN /\ before \in BOOLEAN
    /\ good => Done \/ Receiving \/ Lost
    /\ ~good /\ owed # <<>> => ~before

McuInv ==
    /\ IInv /\ RxbufFree
    /\ PortControl /\ SleptOn /\ EndIsEnd
    /\ Assembly /\ owed \in Sendable
    /\ Progress

----------------------------------------------------------------------------
(* The steps of the port are steps of the core. *)

(* The line carries bytes. *)
LEMMA FrameBytes == ASSUME Assembly, frame # <<>> PROVE Head(frame) \in Byte
<1>1. PICK f \in Sendable : \E n \in 0 .. Len(f) : frame = Rest(f, n)
  BY DEF Assembly, Assembled
<1>2. PICK n \in 0 .. Len(f) : frame = Rest(f, n)
  BY <1>1
<1> QED
  BY <1>2, SendableSeq, RestStep

(* A call of modbus_rtu_event, also one that finds nothing, is one of the core. *)
LEMMA EventIsCoreStep == Event => [Next]_vars
  BY DEF Event, Next

(* Whatever an interrupt handler or the main loop does to the core, the core may
   do by itself. *)
LEMMA McuStep == Assembly /\ [McuNext]_mcu => [Next]_vars
<1> SUFFICES ASSUME Assembly, [McuNext]_mcu PROVE [Next]_vars
  OBVIOUS
<1>1. CASE McuMasterSends
  BY <1>1 DEF McuMasterSends
<1>2. CASE tmr_cb \/ tim_cb \/ isrTIM2
  BY <1>2 DEF tmr_cb, tim_cb, isrTIM2, timer_cb_runs, Next
<1>3. ASSUME NEW queued, Receive(queued) PROVE [Next]_vars
  BY <1>3, FrameBytes DEF Receive, Next
<1>4. CASE tx_complete
  BY <1>4 DEF tx_complete, Next
<1>5. CASE main_loop
  BY <1>5, EventIsCoreStep DEF main_loop
<1>6. CASE UNCHANGED mcu
  BY <1>6 DEF mcu
<1> QED
  BY <1>1, <1>2, <1>3, <1>4, <1>5, <1>6
  DEF McuNext, usart_rx_recv_cb, uart_rx_recv_cb, rx_complete

----------------------------------------------------------------------------
(* The control state of the port. *)

PortInv == Control /\ PortControl /\ SleptOn /\ EndIsEnd

(* At rest the slave is in IDLE, and no confirmed frame waits in rxbuf. *)
LEMMA QuietIsIdle ==
  ASSUME PortInv, Quiet
  PROVE  curr = "IDLE" /\ ~FrameConfirmed /\ ~pending /\ frame = <<>> /\ (unreset => error)
  BY DEF PortInv, Control, ControlTypeOK, States, TimerMatchesState, NeverStuck, PortControl,
         SleptOn, LatchedOnlyAfterError, Quiet, FrameConfirmed

(* A timer that runs out in the middle of a frame finds an error or the silence
   of a restart. *)
LEMMA TimerInFrame ==
  ASSUME PortInv, MayExpire \/ pending
  PROVE  timer # "off" /\ (frame # <<>> => error \/ curr = "INIT")
  BY DEF PortInv, PortControl, LatchedOnlyAfterError, MayExpire

(* Every handler, the main loop and the master keep the control state. *)
LEMMA McuPortInv ==
  ASSUME PortInv, Assembly, [McuNext]_mcu
  PROVE  PortInv'
<1>1. Control'
  BY McuStep, NextControl DEF PortInv
<1> SUFFICES PortControl' /\ SleptOn' /\ EndIsEnd'
  BY <1>1 DEF PortInv
<1> USE DEF PortInv, PortControl, SleptOn, EndIsEnd, LatchedOnlyAfterError, FrameConfirmed
<1>2. CASE McuMasterSends
  <2>1. PortControl'
    BY <1>2, QuietIsIdle DEF McuMasterSends, vars, status, platform
  <2>2. SleptOn' /\ EndIsEnd'
    <3>1. Quiet /\ UNCHANGED <<updated, error, prev, curr, sending, suspended, asleep>>
      BY <1>2 DEF McuMasterSends, vars, status, platform
    <3> QED
      BY <3>1, QuietIsIdle DEF Control, ControlTypeOK
  <2> QED
    BY <2>1, <2>2
<1>3. ASSUME MayExpire \/ pending, timer_cb_runs, UNCHANGED <<frame, port, unreset>>,
             pending' = FALSE, asleep' = FALSE
      PROVE  PortControl' /\ SleptOn' /\ EndIsEnd'
  <2>1. frame # <<>> => error \/ curr = "INIT"
    BY <1>3, TimerInFrame
  <2>2. timer # "off" /\ curr \in States /\ error \in BOOLEAN /\ (curr = "BUSY" => timer = "off")
    BY <1>3, TimerInFrame DEF Control, ControlTypeOK, TimerMatchesState
  <2>3. CASE timer_silent_interval_cb
    BY <1>3, <2>1, <2>2, <2>3
    DEF timer_silent_interval_cb, RTU_STATE_UPDATE, RTU_STATE_ERROR
  <2>4. CASE timer_inter_frame_timeout_cb
    BY <1>3, <2>1, <2>2, <2>4
    DEF timer_inter_frame_timeout_cb, RTU_STATE_UPDATE, RTU_STATE_ERROR
  <2> QED
    BY <1>3, <2>3, <2>4 DEF timer_cb_runs
<1>4. CASE tmr_cb
  BY <1>3, <1>4 DEF tmr_cb, line
<1>5. CASE tim_cb
  BY <1>3, <1>5 DEF tim_cb, line
<1>6. CASE isrTIM2
  BY <1>3, <1>6, TimerInFrame DEF isrTIM2
<1>7. ASSUME NEW queued, Receive(queued) PROVE PortControl' /\ SleptOn' /\ EndIsEnd'
  <2>1. ~pending /\ frame # <<>> /\ asleep' = FALSE /\ port' = port
    BY <1>7 DEF Receive
  <2>2. CASE serial_recv_err_cb /\ unreset' = TRUE
    BY <1>7, <2>1, <2>2
    DEF Receive, serial_recv_err_cb, RTU_STATE_ERROR, platform, Latch, MayExpire
  <2>3. CASE serial_recv_cb(Head(frame)) /\ unreset' = (curr \notin {"IDLE", "SOF", "RECV"})
    <3>1. CASE curr = "IDLE"
      BY <1>7, <2>1, <2>3, <3>1
      DEF Receive, serial_recv_cb, RTU_STATE_UPDATE, timer_start, Latch, MayExpire,
          Control, TimerMatchesState, ControlTypeOK
    <3>2. CASE curr \in {"SOF", "RECV"}
      BY <1>7, <2>1, <2>3, <3>2
      DEF Receive, serial_recv_cb, rxbuf_append, RTU_STATE_UPDATE, timer_reset, Latch,
          MayExpire, Control, TimerMatchesState
    <3>3. CASE curr \in {"INIT", "EOF", "BUSY"}
      BY <1>7, <2>1, <2>3, <3>3
      DEF Receive, serial_recv_cb, RTU_STATE_ERROR, Latch, MayExpire
    <3> QED
      BY <3>1, <3>2, <3>3 DEF Control, ControlTypeOK, States
  <2> QED
    BY <1>7, <2>2, <2>3 DEF Receive
<1>8. CASE tx_complete
  BY <1>8
  DEF tx_complete, serial_sent_cb, RTU_STATE_UPDATE, RTU_STATE_ERROR, Latch, MayExpire, line,
      Control, ControlTypeOK, TimerMatchesState
<1>9. CASE main_loop
  <2>1. /\ ~pending /\ asleep' = TRUE /\ UNCHANGED <<frame, port>>
        /\ unreset' = (unreset /\ ~error /\ curr # "INIT")
    BY <1>9 DEF main_loop, Event
  <2>2. unreset' = FALSE
    BY <2>1 DEF Control, ControlTypeOK
  <2>3. CASE ~updated
    <3>1. UNCHANGED <<updated, error, prev, curr, timer, sending, suspended>> /\ Latch
      BY <1>9, <2>3 DEF main_loop, Event, vars, status, platform
    <3>2. ~error
      BY <2>3 DEF Control, NeverStuck
    <3>3. PortControl'
      BY <2>1, <2>2, <3>1, <3>2 DEF Latch, MayExpire
    <3>4. SleptOn' /\ EndIsEnd'
      BY <2>1, <2>3, <3>1, <3>2 DEF Control, ControlTypeOK
    <3> QED
      BY <3>3, <3>4
  <2>4. CASE event_error
    BY <1>9, <2>1, <2>2, <2>4
    DEF main_loop, event_error, restart, timer_start, Latch, MayExpire, Control, ChecksNeverFire
  <2>5. CASE event_init
    BY <1>9, <2>1, <2>2, <2>5
    DEF main_loop, event_init, restart, timer_start, Latch, MayExpire
  <2>6. CASE event_frame
    <3>1. curr = "IDLE" /\ timer = "off" /\ ~error /\ frame = <<>> /\ timer' = timer
      BY <2>6 DEF event_frame, Control, TimerMatchesState
    <3>2. pending' = FALSE
      BY <1>9, <3>1 DEF main_loop, Latch, MayExpire
    <3>3. /\ updated' => curr' = "BUSY" \/ (error' /\ curr' = "IDLE" /\ prev' = "EOF")
          /\ curr' \in {"IDLE", "BUSY"}
          /\ sending' => curr' = "BUSY"
          /\ curr' = "BUSY" => ~error'
          /\ suspended' = FALSE
      BY <2>6, <3>1
      DEF event_frame, adu_process, serial_send, RTU_STATE_UPDATE, RTU_STATE_ERROR
    <3> QED
      BY <2>1, <2>2, <3>1, <3>2, <3>3
  <2>7. CASE event_sof \/ event_none
    <3>1. /\ UNCHANGED <<error, prev, curr, timer, sending>>
          /\ updated' = FALSE /\ ~error /\ Latch
      BY <1>9, <2>7 DEF main_loop, event_sof, event_none, platform
    <3>2. PortControl'
      BY <2>1, <2>2, <3>1 DEF Latch, MayExpire
    <3>3. SleptOn' /\ EndIsEnd'
      BY <2>1, <3>1
    <3> QED
      BY <3>2, <3>3
  <2> QED
    BY <1>9, <2>3, <2>4, <2>5, <2>6, <2>7 DEF main_loop, Event, modbus_rtu_event
<1>10. CASE UNCHANGED mcu
  BY <1>10 DEF mcu, vars, status, platform, line
<1> QED
  BY <1>2, <1>4, <1>5, <1>6, <1>7, <1>8, <1>9, <1>10
  DEF McuNext, usart_rx_recv_cb, uart_rx_recv_cb, rx_complete

----------------------------------------------------------------------------
(* The bytes of the frame. *)

(* A step that neither reads from the line nor writes to rxbuf, or that empties
   rxbuf or flags an error, keeps Assembly. *)
LEMMA AssemblyKept ==
  ASSUME Assembly, UNCHANGED <<frame, owed>>,
         error' = TRUE \/ (UNCHANGED rxbuf /\ ~error) \/ rxbuf' = <<>>
  PROVE  Assembly'
<1>1. PICK f \in Sendable : \E n \in 0 .. Len(f) : Assembled(f, n)
  BY DEF Assembly
<1>2. PICK n \in 0 .. Len(f) : Assembled(f, n)
  BY <1>1
<1>3. ASSUME rxbuf' = <<>> PROVE rxbuf' = Part(f, n, n) /\ n \in 0 .. n
  BY <1>3, SendableSeq, NoPart
<1>4. Assembled(f, n)'
  BY <1>2, <1>3 DEF Assembled
<1> QED
  BY <1>4 DEF Assembly

(* The next byte goes from the line to rxbuf, or raises an error. *)
LEMMA AssemblyGrows ==
  ASSUME Assembly, frame # <<>>, frame' = Tail(frame), UNCHANGED owed,
         serial_recv_cb(Head(frame))
  PROVE  Assembly'
<1>1. PICK f \in Sendable : \E n \in 0 .. Len(f) : Assembled(f, n)
  BY DEF Assembly
<1>2. PICK n \in 0 .. Len(f) : Assembled(f, n)
  BY <1>1
<1>3. f \in Seq(Byte)
  BY SendableSeq
<1>4. /\ n + 1 \in 0 .. Len(f)
      /\ Head(frame) = f[n + 1]
      /\ frame' = Rest(f, n + 1)
  BY <1>2, <1>3, RestStep DEF Assembled
<1>5. n + 1 # 0 /\ n \in 0 .. Len(f) - 1
  BY <1>3, <1>4
<1>6. ASSUME ~error'
      PROVE  \E i \in 0 .. n + 1 : rxbuf' = Part(f, i, n + 1) /\ (i = 0 => owed' = Owing(f))
  <2>1. ~error /\ rxbuf' = Append(rxbuf, Head(frame))
    BY <1>6 DEF serial_recv_cb, rxbuf_append, RTU_STATE_ERROR
  <2>2. PICK i \in 0 .. n : rxbuf = Part(f, i, n) /\ (i = 0 => owed = Owing(f))
    BY <1>2, <2>1 DEF Assembled
  <2>3. rxbuf' = Part(f, i, n + 1)
    BY <1>3, <1>4, <1>5, <2>1, <2>2, PartStep
  <2>4. i \in 0 .. n + 1
    BY <1>5, <2>2
  <2> QED
    BY <2>2, <2>3, <2>4
<1>7. Assembled(f, n + 1)'
  BY <1>4, <1>5, <1>6 DEF Assembled
<1> QED
  BY <1>4, <1>7 DEF Assembly

(* What is flushed after a damaged byte is gone, and the frame with it. *)
LEMMA AssemblyDamaged ==
  ASSUME Assembly, NEW k \in Nat \ {0}, k <= Len(frame),
         frame' = SubSeq(frame, k + 1, Len(frame)), error' = TRUE
  PROVE  Assembly'
<1>1. PICK f \in Sendable : \E n \in 0 .. Len(f) : Assembled(f, n)
  BY DEF Assembly
<1>2. PICK n \in 0 .. Len(f) : Assembled(f, n)
  BY <1>1
<1>3. f \in Seq(Byte) /\ Len(f) \in Nat
  BY SendableSeq
<1>4. /\ frame = Rest(f, n) /\ frame \in Seq(Byte) /\ Len(frame) = Len(f) - n
      /\ \A j \in 1 .. Len(f) - n : frame[j] = f[n + j]
  BY <1>2, <1>3, RestType DEF Assembled
<1>5. n + k \in 0 .. Len(f) /\ n + k # 0
  BY <1>3, <1>4
<1>6. SubSeq(frame, k + 1, Len(frame)) = Rest(f, n + k)
  <2> DEFINE s == SubSeq(frame, k + 1, Len(frame))
             t == Rest(f, n + k)
             m == Len(f) - (n + k)
  <2>1. m \in Nat /\ m = Len(frame) - k
    BY <1>3, <1>4, <1>5
  <2>2. s \in Seq(Byte) /\ Len(s) = m /\ \A j \in 1 .. m : s[j] = frame[k + j]
    <3>1. k \in 0 .. Len(frame) /\ s = Rest(frame, k)
      BY <1>4 DEF Rest
    <3>2. /\ Rest(frame, k) \in Seq(Byte)
          /\ Len(Rest(frame, k)) = Len(frame) - k
          /\ \A j \in 1 .. Len(frame) - k : Rest(frame, k)[j] = frame[k + j]
      BY <1>4, <3>1, RestType
    <3> QED
      BY <2>1, <3>1, <3>2
  <2>3. t \in Seq(Byte) /\ Len(t) = m /\ \A j \in 1 .. m : t[j] = f[(n + k) + j]
    BY <1>3, <1>5, RestType
  <2> HIDE DEF s, t, m
  <2>4. \A j \in 1 .. m : s[j] = t[j]
    <3> TAKE j \in 1 .. m
    <3>1. k + j \in 1 .. Len(f) - n /\ n + (k + j) = (n + k) + j
      BY <1>3, <1>4, <2>1
    <3> QED
      BY <1>4, <2>2, <2>3, <3>1
  <2>5. s = t
    BY <2>2, <2>3, <2>4, SeqEqual
  <2> QED
    BY <2>5 DEF s, t
<1>7. Assembled(f, n + k)'
  BY <1>5, <1>6 DEF Assembled
<1> QED
  BY <1>5, <1>7 DEF Assembly

(* The frame that is handed to pdu_cb leaves rxbuf, and is owed no more. *)
LEMMA AssemblyDelivered ==
  ASSUME Assembly, ~error, adu_check(rxbuf), UNCHANGED frame, rxbuf' = <<>>
  PROVE  Assembly'
<1>1. PICK f \in Sendable : \E n \in 0 .. Len(f) : Assembled(f, n)
  BY DEF Assembly
<1>2. PICK n \in 0 .. Len(f) : Assembled(f, n)
  BY <1>1
<1>3. PICK i \in 0 .. n : rxbuf = Part(f, i, n)
  BY <1>2 DEF Assembled
<1>4. n > 0
  BY <1>3, OnlyWholeFrames
<1>5. rxbuf' = Part(f, n, n) /\ n \in 0 .. n
  BY SendableSeq, NoPart
<1>6. Assembled(f, n)'
  BY <1>2, <1>4, <1>5 DEF Assembled
<1> QED
  BY <1>6 DEF Assembly

(* Every handler, the main loop and the master keep Assembly. *)
LEMMA McuAssembly ==
  ASSUME PortInv, RxbufFree, Assembly, [McuNext]_mcu
  PROVE  Assembly'
<1>0. error \in BOOLEAN /\ (error => updated)
  BY DEF PortInv, Control, ControlTypeOK, NeverStuck
<1>1. ASSUME UNCHANGED vars, UNCHANGED <<frame, owed>> PROVE Assembly'
  BY <1>0, <1>1, AssemblyKept DEF vars, status
<1>2. CASE McuMasterSends
  <2>1. PICK f \in Frames : MasterSends(f)
    BY <1>2 DEF McuMasterSends
  <2>2. f \in Sendable /\ f \in Seq(Byte) /\ 0 \in 0 .. Len(f)
    BY SendableSeq DEF Sendable
  <2>3. frame' = Rest(f, 0) /\ owed' = Owing(f)
    BY <2>1, <2>2, SubSeqFull DEF MasterSends, Rest, Owing
  <2>4. ASSUME ~error' PROVE rxbuf' = Part(f, 0, 0)
    <3>1. curr = "IDLE" /\ ~FrameConfirmed /\ UNCHANGED <<rxbuf, error>>
      BY <1>2, QuietIsIdle DEF McuMasterSends, vars, status
    <3>2. rxbuf = <<>>
      BY <2>4, <3>1 DEF RxbufFree, FrameConfirmed
    <3> QED
      BY <2>2, <3>1, <3>2, NoPart
  <2>5. Assembled(f, 0)'
    BY <2>3, <2>4 DEF Assembled
  <2> QED
    BY <2>2, <2>5 DEF Assembly
<1>3. ASSUME timer_cb_runs, UNCHANGED <<frame, owed>> PROVE Assembly'
  BY <1>0, <1>3, AssemblyKept
  DEF timer_cb_runs, timer_silent_interval_cb, timer_inter_frame_timeout_cb, RTU_STATE_ERROR
<1>4. CASE tmr_cb \/ tim_cb \/ isrTIM2
  BY <1>1, <1>3, <1>4 DEF tmr_cb, tim_cb, isrTIM2, line
<1>5. ASSUME NEW queued \in Nat, Receive(queued) PROVE Assembly'
  <2>1. CASE serial_recv_cb(Head(frame)) /\ frame' = Tail(frame) /\ UNCHANGED owed
    BY <1>5, <2>1, AssemblyGrows DEF Receive
  <2>2. ASSUME serial_recv_err_cb, NEW n \in 1 .. 1 + queued, n <= Len(frame),
               frame' = SubSeq(frame, n + 1, Len(frame))
        PROVE  Assembly'
    BY <2>2, AssemblyDamaged DEF serial_recv_err_cb, RTU_STATE_ERROR
  <2> QED
    BY <1>5, <2>1, <2>2 DEF Receive
<1>6. CASE tx_complete
  BY <1>0, <1>6, AssemblyKept DEF tx_complete, serial_sent_cb, RTU_STATE_ERROR, line
<1>7. CASE main_loop
  <2>1. frame' = frame
    BY <1>7 DEF main_loop, Event
  <2>2. CASE ~updated
    BY <1>1, <1>7, <2>2 DEF main_loop, Event, FrameConfirmed
  <2>3. CASE FrameConfirmed /\ adu_check(rxbuf)
    <3>1. event_frame
      BY <1>7, <2>3
      DEF main_loop, Event, modbus_rtu_event, event_error, event_init, event_sof, event_none,
          FrameConfirmed, PortInv, Control, ChecksNeverFire
    <3> QED
      BY <2>1, <2>3, <3>1, AssemblyDelivered DEF event_frame, adu_process, FrameConfirmed
  <2>4. CASE updated /\ ~(FrameConfirmed /\ adu_check(rxbuf))
    <3>1. owed' = owed /\ modbus_rtu_event
      BY <1>7, <2>4 DEF main_loop, Event
    <3> QED
      BY <1>0, <2>1, <2>4, <3>1, AssemblyKept
      DEF modbus_rtu_event, event_error, event_init, event_frame, event_sof, event_none,
          adu_process, restart, RTU_STATE_ERROR, FrameConfirmed
  <2> QED
    BY <2>2, <2>3, <2>4
<1>8. CASE UNCHANGED mcu
  BY <1>1, <1>8 DEF mcu, line
<1> QED
  BY <1>2, <1>4, <1>5, <1>6, <1>7, <1>8
  DEF McuNext, usart_rx_recv_cb, uart_rx_recv_cb, rx_complete

----------------------------------------------------------------------------
(* What becomes of a good frame. *)

(* A new frame is received by a slave without a pending error; one that meets
   an error is lost, and the frame before it was not good. *)
LEMMA ProgressSends ==
  ASSUME PortInv, RxbufFree, Progress, McuMasterSends
  PROVE  Progress'
<1>1. PICK f \in Frames : MasterSends(f)
  BY DEF McuMasterSends
<1>2. /\ good' = Good(f) /\ before' = good /\ frame' = f
      /\ owed' = IF Good(f) THEN f ELSE <<>>
  BY <1>1 DEF MasterSends
<1>3. /\ curr = "IDLE" /\ ~FrameConfirmed /\ Quiet /\ error \in BOOLEAN
      /\ UNCHANGED <<updated, error, prev, curr, rxbuf, suspended, asleep>>
      /\ error => ~suspended
  BY QuietIsIdle
  DEF McuMasterSends, vars, status, PortInv, SleptOn, Control, ControlTypeOK, Quiet
<1>4. Good(f) \in BOOLEAN /\ good \in BOOLEAN
  BY DEF Good, Progress, adu_check
<1>5. good => ~error
  BY <1>3 DEF Progress, Done, Receiving, Lost, Quiet
<1>6. CASE Good(f)
  <2>1. owed' = f /\ good' /\ f \in Seq(Byte) /\ 0 \in 0 .. Len(f) /\ f # <<>>
    BY <1>2, <1>6, GoodFrame
  <2>2. CASE error
    BY <1>2, <1>3, <1>4, <1>5, <2>1, <2>2 DEF Progress, Lost
  <2>3. CASE ~error
    <3>1. rxbuf = <<>>
      BY <1>3, <2>3 DEF RxbufFree, FrameConfirmed
    <3>2. rxbuf' = Part(f, 0, 0) /\ frame' = Rest(f, 0)
      BY <1>2, <1>3, <2>1, <3>1, NoPart, SubSeqFull DEF Rest
    <3>3. ReceivedUpTo(0)'
      BY <1>3, <2>1, <3>2 DEF ReceivedUpTo, FrameConfirmed
    <3>4. Receiving'
      BY <1>3, <1>6, <2>1, <2>3, <3>3 DEF Receiving, Good
    <3> QED
      BY <1>2, <1>4, <2>1, <3>4 DEF Progress
  <2> QED
    BY <1>3, <2>2, <2>3
<1>7. CASE ~Good(f)
  BY <1>2, <1>4, <1>7 DEF Progress
<1> QED
  BY <1>6, <1>7

(* The timer ends a frame that has ended, and nothing else but a restart or an
   error; a request that was latched breaks no good frame that follows a good
   one. *)
LEMMA ProgressTimer ==
  ASSUME PortInv, Progress, MayExpire \/ pending, timer_cb_runs,
         UNCHANGED <<frame, owed, before>>, asleep' = FALSE,
         good' = (good /\ ~(pending /\ frame # <<>>))
  PROVE  Progress'
<1>1. /\ timer # "off" /\ (frame # <<>> => error \/ curr = "INIT")
      /\ curr \in {"INIT", "SOF", "RECV", "EOF"} /\ error \in BOOLEAN
      /\ curr = "EOF" => prev = "RECV"
      /\ TimerExpired("silent") => curr \in {"INIT", "EOF"}
      /\ TimerExpired("inter") => curr \in {"SOF", "RECV"}
  BY TimerInFrame
  DEF PortInv, Control, ControlTypeOK, States, TimerMatchesState, ChecksNeverFire, Inconsistent
<1>2. good' \in BOOLEAN /\ before' \in BOOLEAN
  BY DEF Progress
<1>3. CASE good /\ Done
  <2>1. curr = "INIT" /\ frame = <<>> /\ ~error /\ owed = <<>>
    BY <1>1, <1>3 DEF Done
  <2>2. curr' = "IDLE" /\ prev' = "INIT" /\ error' = error /\ suspended' = suspended
    BY <1>1, <2>1
    DEF timer_cb_runs, timer_silent_interval_cb, timer_inter_frame_timeout_cb,
        RTU_STATE_UPDATE
  <2>3. Done'
    BY <1>3, <2>1, <2>2 DEF Done, FrameConfirmed
  <2> QED
    BY <1>2, <2>1, <2>3 DEF Progress
<1>4. CASE good /\ Receiving
  <2>1. PICK n \in 0 .. Len(owed) : ReceivedUpTo(n)
    BY <1>4 DEF Receiving
  <2>2. owed \in Seq(Byte) /\ Len(owed) \in Nat /\ Len(owed) >= 4
    BY <1>4, GoodFrame DEF Receiving
  <2>3. frame = <<>> /\ n = Len(owed) /\ ~error
    BY <1>1, <1>4, <2>1, <2>2, NoPart DEF Receiving, ReceivedUpTo, FrameConfirmed
  <2>4. curr \in {"RECV", "EOF"}
    BY <1>1, <2>1, <2>2, <2>3 DEF ReceivedUpTo, FrameConfirmed
  <2>5. /\ rxbuf' = rxbuf /\ error' = error
        /\ curr' = "EOF" \/ (curr' = "IDLE" /\ prev' = "EOF" /\ updated')
    BY <1>1, <2>4
    DEF timer_cb_runs, timer_silent_interval_cb, timer_inter_frame_timeout_cb,
        RTU_STATE_UPDATE
  <2>6. ReceivedUpTo(n)'
    BY <2>1, <2>3, <2>5 DEF ReceivedUpTo, FrameConfirmed
  <2>7. Receiving'
    BY <1>4, <2>5, <2>6 DEF Receiving, Good
  <2> QED
    BY <1>2, <2>3, <2>7 DEF Progress
<1>5. CASE good /\ Lost
  <2>1. owed # <<>> /\ ~before /\ suspended' = FALSE
    BY <1>5
    DEF Lost, timer_cb_runs, timer_silent_interval_cb, timer_inter_frame_timeout_cb
  <2>2. CASE error
    <3>1. error'
      BY <2>2
      DEF timer_cb_runs, timer_silent_interval_cb, timer_inter_frame_timeout_cb,
          RTU_STATE_ERROR
    <3> QED
      BY <1>2, <2>1, <3>1 DEF Progress, Lost
  <2>3. CASE ~error
    <3>1. curr = "INIT"
      BY <1>1, <1>5, <2>3 DEF Lost
    <3>2. curr' = "IDLE" /\ prev' = "INIT" /\ error' = error
      BY <1>1, <3>1
      DEF timer_cb_runs, timer_silent_interval_cb, timer_inter_frame_timeout_cb,
          RTU_STATE_UPDATE
    <3>3. good' => frame = <<>>
      BY <2>3 DEF MayExpire, PortInv, PortControl
    <3> QED
      BY <1>2, <2>1, <2>3, <3>2, <3>3 DEF Progress, Lost, FrameConfirmed
  <2> QED
    BY <1>1, <2>2, <2>3
<1>6. CASE ~good
  BY <1>2, <1>6 DEF Progress
<1> QED
  BY <1>3, <1>4, <1>5, <1>6 DEF Progress

(* The next byte of a good frame is received, unless the slave has an error or
   waits for the line to be silent. *)
LEMMA ProgressReceives ==
  ASSUME PortInv, Progress, frame # <<>>, serial_recv_cb(Head(frame)),
         frame' = Tail(frame), UNCHANGED <<owed, good, before>>, asleep' = FALSE
  PROVE  Progress'
<1>1. error \in BOOLEAN
  BY DEF PortInv, Control, ControlTypeOK
<1>2. CASE good /\ Done
  BY <1>2 DEF Done
<1>3. CASE good /\ Receiving
  <2>1. PICK n \in 0 .. Len(owed) : ReceivedUpTo(n)
    BY <1>3 DEF Receiving
  <2>2. /\ owed \in Seq(Byte) /\ Len(owed) \in Nat /\ Len(owed) <= RXBUF_CAPACITY
        /\ owed \in Frames /\ Good(owed) /\ ~error
    BY <1>3, GoodFrame DEF Receiving
  <2>3. /\ frame = Rest(owed, n) /\ rxbuf = Part(owed, 0, n)
        /\ n # Len(owed)
    BY <2>1, <2>2, NoPart DEF ReceivedUpTo
  <2>4. /\ n + 1 \in 0 .. Len(owed) /\ n \in 0 .. Len(owed) - 1
        /\ Head(frame) = owed[n + 1] /\ frame' = Rest(owed, n + 1)
    BY <2>2, <2>3, RestStep
  <2>5. Len(rxbuf) = n /\ Append(rxbuf, Head(frame)) = Part(owed, 0, n + 1)
    <3>1. 0 \in 0 .. n /\ n - 0 = n
      OBVIOUS
    <3>2. Len(rxbuf) = n
      BY <2>2, <2>3, <3>1, PartType
    <3>3. Append(rxbuf, Head(frame)) = Part(owed, 0, n + 1)
      BY <2>2, <2>3, <2>4, <3>1, PartStep
    <3> QED
      BY <3>2, <3>3
  <2>6. Len(rxbuf) < RXBUF_CAPACITY
    BY <2>2, <2>4, <2>5, CapacityAssumption
  <2>7. \/ n = 0 /\ curr = "IDLE"
        \/ n = 1 /\ curr = "SOF"
        \/ n > 1 /\ curr = "RECV"
    BY <2>1, <2>3 DEF ReceivedUpTo
  <2>8. /\ error' = error /\ rxbuf' = Append(rxbuf, Head(frame))
        /\ \/ n = 0 /\ curr' = "SOF"
           \/ n > 0 /\ curr' = "RECV"
    BY <2>6, <2>7 DEF serial_recv_cb, rxbuf_append, RTU_STATE_UPDATE
  <2>9. ReceivedUpTo(n + 1)'
    BY <2>4, <2>5, <2>8 DEF ReceivedUpTo
  <2>10. Receiving'
    BY <2>2, <2>4, <2>8, <2>9 DEF Receiving, Good
  <2> QED
    BY <1>3, <2>10 DEF Progress
<1>4. CASE good /\ Lost
  <2>1. error' /\ suspended' = suspended
    BY <1>1, <1>4 DEF Lost, serial_recv_cb, rxbuf_append, RTU_STATE_ERROR
  <2> QED
    BY <1>4, <2>1 DEF Progress, Lost
<1>5. CASE ~good
  BY <1>5 DEF Progress
<1> QED
  BY <1>2, <1>3, <1>4, <1>5 DEF Progress

(* A call of modbus_rtu_event hands a good frame that is complete to pdu_cb, and
   loses none that is not. *)
LEMMA ProgressEvent ==
  ASSUME PortInv, Progress, Event, asleep' = TRUE
  PROVE  Progress'
<1>1. /\ UNCHANGED <<frame, good, before>> /\ good \in BOOLEAN /\ before \in BOOLEAN
      /\ owed' = IF FrameConfirmed /\ adu_check(rxbuf) THEN <<>> ELSE owed
  BY DEF Event, Progress
<1>2. error \in BOOLEAN /\ (error => updated) /\ ~Inconsistent
  BY DEF PortInv, Control, ControlTypeOK, NeverStuck, ChecksNeverFire
<1>3. CASE ~good
  BY <1>1, <1>3 DEF Progress
<1>4. CASE good /\ ~FrameConfirmed
  <2>1. owed' = owed
    BY <1>1, <1>4
  <2>2. CASE error
    <3>1. Lost
      BY <1>4, <2>2 DEF Progress, Done, Receiving
    <3>2. event_error
      BY <1>2, <2>2
      DEF Event, modbus_rtu_event, event_init, event_frame, event_sof, event_none,
          FrameConfirmed
    <3> QED
      BY <1>1, <2>1, <3>1, <3>2 DEF Progress, Lost, event_error
  <2>3. CASE ~error
    <3>1. /\ ~error' /\ curr' = curr /\ ~FrameConfirmed'
          /\ rxbuf' = rxbuf \/ curr = "INIT"
      BY <1>2, <1>4, <2>3
      DEF Event, modbus_rtu_event, event_error, event_init, event_frame, event_sof,
          event_none, FrameConfirmed, vars, status
    <3>2. curr # "SOF" => suspended' = suspended
      BY <1>2, <1>4, <2>3
      DEF Event, modbus_rtu_event, event_error, event_init, event_frame, event_sof,
          event_none, vars
    <3>3. (Done => Done') /\ (Lost => Lost')
      BY <1>1, <2>1, <2>3, <3>1, <3>2 DEF Done, Lost
    <3>4. ASSUME Receiving PROVE Receiving'
      <4>1. PICK n \in 0 .. Len(owed) : ReceivedUpTo(n)
        BY <3>4 DEF Receiving
      <4>2. ReceivedUpTo(n)'
        BY <1>1, <1>4, <2>1, <3>1, <4>1 DEF ReceivedUpTo, FrameConfirmed
      <4> QED
        BY <2>1, <3>1, <3>4, <4>2 DEF Receiving, Good
    <3> QED
      BY <1>1, <1>4, <3>3, <3>4 DEF Progress
  <2> QED
    BY <1>2, <2>2, <2>3
<1>5. CASE good /\ FrameConfirmed
  <2>1. Receiving
    BY <1>5 DEF Progress, Done, Lost, FrameConfirmed
  <2>2. PICK n \in 0 .. Len(owed) : ReceivedUpTo(n)
    BY <2>1 DEF Receiving
  <2>3. n = Len(owed) /\ owed \in Seq(Byte)
    BY <1>5, <2>1, <2>2, GoodFrame DEF ReceivedUpTo, FrameConfirmed, Receiving
  <2>4. rxbuf = owed /\ frame = <<>>
    BY <2>2, <2>3, SubSeqFull, NoPart DEF ReceivedUpTo, Part
  <2>5. adu_check(rxbuf)
    BY <2>1, <2>4 DEF Receiving, Good
  <2>6. event_frame
    BY <1>2, <1>5
    DEF Event, modbus_rtu_event, event_error, event_init, event_sof, event_none,
        FrameConfirmed
  <2>7. /\ error' = error /\ ((updated' = FALSE /\ curr' = curr) \/ curr' = "BUSY")
        /\ suspended' = FALSE
    BY <2>5, <2>6 DEF event_frame, adu_process, RTU_STATE_UPDATE
  <2>8. Done'
    BY <1>1, <1>5, <2>4, <2>5, <2>7 DEF Done, FrameConfirmed
  <2> QED
    BY <1>1, <1>5, <2>8 DEF Progress
<1> QED
  BY <1>1, <1>3, <1>4, <1>5

(* What is owed is a frame. *)
LEMMA McuOwed ==
  ASSUME owed \in Sendable, [McuNext]_mcu
  PROVE  owed' \in Sendable
<1>1. owed' = owed \/ owed' = <<>> \/ \E f \in Frames : owed' = f
  BY DEF McuNext, mcu, line, McuMasterSends, MasterSends, tmr_cb, tim_cb, isrTIM2, Receive,
         usart_rx_recv_cb, uart_rx_recv_cb, rx_complete, tx_complete, main_loop, Event
<1> QED
  BY <1>1 DEF Sendable

(* Every handler, the main loop and the master keep Progress. *)
LEMMA McuProgress ==
  ASSUME PortInv, RxbufFree, Progress, [McuNext]_mcu
  PROVE  Progress'
<1>1. CASE McuMasterSends
  BY <1>1, ProgressSends
<1>2. CASE tmr_cb \/ tim_cb
  <2>1. ~pending
    BY <1>2 DEF tmr_cb, tim_cb, PortInv, PortControl
  <2>2. good' = (good /\ ~(pending /\ frame # <<>>))
    BY <1>2, <2>1 DEF tmr_cb, tim_cb, line, Progress
  <2> QED
    BY <1>2, <2>2, ProgressTimer DEF tmr_cb, tim_cb, line
<1>3. CASE isrTIM2
  <2>1. timer # "off"
    BY <1>3, TimerInFrame DEF isrTIM2
  <2> QED
    BY <1>3, <2>1, ProgressTimer DEF isrTIM2
<1>4. ASSUME NEW queued, Receive(queued) PROVE Progress'
  <2>1. CASE /\ serial_recv_cb(Head(frame)) /\ frame' = Tail(frame)
             /\ UNCHANGED <<owed, good>>
    BY <1>4, <2>1, ProgressReceives DEF Receive
  <2>2. CASE owed' = <<>> /\ good' = FALSE
    BY <1>4, <2>2 DEF Receive, Progress
  <2> QED
    BY <1>4, <2>1, <2>2 DEF Receive
<1>5. CASE tx_complete
  <2>1. /\ curr = "BUSY" /\ ~error /\ curr' = "INIT" /\ error' = error
        /\ suspended' = suspended
    BY <1>5 DEF tx_complete, serial_sent_cb, RTU_STATE_UPDATE, PortInv, EndIsEnd
  <2>2. good => Done
    BY <2>1 DEF Progress, Receiving, ReceivedUpTo, Lost, FrameConfirmed
  <2>3. UNCHANGED <<frame, owed, good, before>>
    BY <1>5 DEF tx_complete, line
  <2> QED
    BY <2>1, <2>2, <2>3 DEF Progress, Done, FrameConfirmed
<1>6. CASE main_loop
  BY <1>6, ProgressEvent DEF main_loop
<1>7. CASE UNCHANGED mcu
  <2>1. /\ UNCHANGED <<frame, owed, good, before, asleep>>
        /\ UNCHANGED <<updated, error, prev, curr, rxbuf, suspended>>
    BY <1>7 DEF mcu, line, vars, status
  <2>2. (Done => Done') /\ (Lost => Lost')
    BY <2>1 DEF Done, Lost, FrameConfirmed
  <2>3. Receiving => Receiving'
    BY <2>1 DEF Receiving, ReceivedUpTo, FrameConfirmed, Good
  <2> QED
    BY <2>1, <2>2, <2>3 DEF Progress
<1> QED
  BY <1>1, <1>2, <1>3, <1>4, <1>5, <1>6, <1>7
  DEF McuNext, usart_rx_recv_cb, uart_rx_recv_cb, rx_complete

----------------------------------------------------------------------------
(* The theorems. *)

(* Reset leaves the slave idle, with a silent line. *)
LEMMA McuInitInv == McuInit => McuInv
<1> SUFFICES ASSUME McuInit PROVE McuInv
  OBVIOUS
<1> USE DEF McuInit, modbus_rtu_impl, LineInit
<1>1. IInv
  BY InitIInv
<1>2. RxbufFree /\ SleptOn /\ EndIsEnd
  BY DEF Init, RxbufFree, SleptOn, EndIsEnd, FrameConfirmed
<1>3. PortControl
  BY DEF PortControl, LatchedOnlyAfterError
<1>4. Assembly
  <2>1. <<>> \in Sendable /\ <<>> \in Seq(Byte) /\ 0 \in 0 .. Len(<<>>)
    BY EmptyBuffer DEF Sendable
  <2>2. Rest(<<>>, 0) = <<>> /\ Part(<<>>, 0, 0) = <<>> /\ Owing(<<>>) = <<>>
    BY <2>1, NoPart, EmptyBuffer DEF Owing
  <2>3. Assembled(<<>>, 0)
    BY <2>1, <2>2 DEF Assembled, Init
  <2> QED
    BY <2>1, <2>3 DEF Assembly
<1>5. Progress /\ owed \in Sendable
  BY DEF Progress, Done, Init, FrameConfirmed, Sendable
<1> QED
  BY <1>1, <1>2, <1>3, <1>4, <1>5 DEF McuInv

(* Every step of the port keeps the invariant. *)
LEMMA McuNextInv == McuInv /\ [McuNext]_mcu => McuInv'
<1> SUFFICES ASSUME McuInv, [McuNext]_mcu PROVE McuInv'
  OBVIOUS
<1>1. PortInv
  BY DEF McuInv, IInv, PortInv
<1>2. [Next]_vars
  BY McuStep DEF McuInv
<1>3. IInv' /\ RxbufFree'
  BY <1>2, NextControl, NextBuffers, NextRxbufFree DEF McuInv, IInv
<1>4. PortInv' /\ Assembly' /\ Progress'
  BY <1>1, McuPortInv, McuAssembly, McuProgress DEF McuInv
<1>5. owed' \in Sendable
  BY McuOwed DEF McuInv
<1> QED
  BY <1>3, <1>4, <1>5 DEF McuInv, PortInv

(* The inductive invariant holds in every reachable state of the slave, on each
   of the three microcontrollers. *)
THEOREM McuInvariance == McuSpec => []McuInv
  BY McuInitInv, McuNextInv, PTL DEF McuSpec

(* The slave on a microcontroller implements the core: whatever its interrupt
   handlers and its main loop do, the core alone may do (so that every theorem
   about the core holds of the slave). *)
THEOREM McuImplementsCore == McuSpec => Spec
<1>1. McuInit => Init
  BY DEF McuInit, modbus_rtu_impl
<1>2. McuInv /\ [McuNext]_mcu => [Next]_vars
  BY McuStep DEF McuInv
<1> QED
  BY <1>1, <1>2, McuInvariance, PTL DEF McuSpec, Spec

(* The state keeps its types and no handler writes past rxbuf or txbuf. *)
THEOREM McuTypeCorrect == McuSpec => []McuTypeOK
<1> SUFFICES ASSUME McuInv PROVE McuTypeOK
  BY McuInvariance, PTL
<1>1. TypeOK /\ port \in Ports /\ asleep \in BOOLEAN /\ pending \in BOOLEAN /\ unreset \in BOOLEAN
  BY DEF McuInv, IInv, Control, TypeOK, PortControl
<1>2. good \in BOOLEAN /\ before \in BOOLEAN
  BY DEF McuInv, Progress
<1>3. PICK f \in Sendable : \E n \in 0 .. Len(f) : frame = Rest(f, n)
  BY DEF McuInv, Assembly, Assembled
<1>4. owed \in Sendable
  BY DEF McuInv
<1> QED
  BY <1>1, <1>2, <1>3, <1>4 DEF McuTypeOK, LineTypeOK, Sendable, Rest

(* The CPU never sleeps through its own work. *)
THEOREM SleepIsSafe == McuSpec => []WakeupComes
<1>1. McuInv => WakeupComes
  BY DEF McuInv, IInv, Control, ControlTypeOK, States, TimerMatchesState, NeverStuck, SleptOn,
         WakeupComes
<1> QED
  BY McuInvariance, <1>1, PTL

(* A request that the NVIC has latched meets a running timer, and never the
   middle of a healthy frame. *)
THEOREM LatchIsHarmless == McuSpec => []LatchedOnlyAfterError
<1>1. McuInv => LatchedOnlyAfterError
  BY DEF McuInv, PortControl
<1> QED
  BY McuInvariance, <1>1, PTL

(* pdu_cb gets what the master sent, byte for byte, whatever was received,
   damaged or rejected before. *)
THEOREM McuDeliversTheFrame == McuSpec => []PduCbSeesTheFrame
<1>1. McuInv => PduCbSeesTheFrame
  <2> SUFFICES ASSUME McuInv, FrameConfirmed, adu_check(rxbuf) PROVE rxbuf = owed
    BY DEF PduCbSeesTheFrame
  <2>1. PICK f \in Sendable : \E n \in 0 .. Len(f) : Assembled(f, n)
    BY DEF McuInv, Assembly
  <2>2. PICK n \in 0 .. Len(f) : Assembled(f, n)
    BY <2>1
  <2>3. PICK i \in 0 .. n : rxbuf = Part(f, i, n) /\ (i = 0 => owed = Owing(f))
    BY <2>2 DEF Assembled, FrameConfirmed
  <2> QED
    BY <2>3, WholeFrameIsOwed DEF McuInv, IInv
<1> QED
  BY McuInvariance, <1>1, PTL

(* At rest nothing of a frame is being received. *)
LEMMA QuietReceivesNothing ==
  ASSUME McuInv, Quiet
  PROVE  ~Receiving
<1> SUFFICES ASSUME Receiving PROVE FALSE
  OBVIOUS
<1>1. curr = "IDLE" /\ ~FrameConfirmed /\ frame = <<>>
  BY QuietIsIdle DEF McuInv, IInv, PortInv
<1>2. PICK n \in 0 .. Len(owed) : ReceivedUpTo(n)
  BY DEF Receiving
<1>3. n = 0 /\ owed \in Seq(Byte) /\ Len(owed) >= 4
  BY <1>1, <1>2, GoodFrame DEF Receiving, ReceivedUpTo
<1> QED
  BY <1>1, <1>2, <1>3, NoPart DEF ReceivedUpTo

(* A good frame is lost only after a bad one: two good frames in a row, of any
   length that rxbuf holds, are both processed. *)
THEOREM McuLosesNothingElse == McuSpec => []LossOnlyAfterBadFrame
<1>1. McuInv => LossOnlyAfterBadFrame
  BY QuietReceivesNothing DEF McuInv, Progress, Done, Lost, LossOnlyAfterBadFrame
<1> QED
  BY McuInvariance, <1>1, PTL

(* A good frame leaves no application suspended, whatever came before it, also if
   the slave has lost it. *)
THEOREM McuResumes == McuSpec => []SuspendedOnlyAfterBadFrame
<1>1. McuInv => SuspendedOnlyAfterBadFrame
  BY QuietReceivesNothing DEF McuInv, Progress, Done, Lost, SuspendedOnlyAfterBadFrame
<1> QED
  BY McuInvariance, <1>1, PTL

============================================================================
