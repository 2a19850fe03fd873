----------------------------- MODULE RtuProofs -----------------------------
(***************************************************************************)
(* TLAPS proofs about Rtu: the invariants of the framing core for every    *)
(* set of byte values, every pair of buffer capacities, every CRC function *)
(* and every set of replies within the capacity of txbuf.  At the end, the *)
(* facts about Line that the proofs about the ports share: how a frame is  *)
(* taken apart on the line and put together again in rxbuf, and when rxbuf *)
(* is free for the next one.                                               *)
(***************************************************************************)
EXTENDS Line, SequenceTheorems, TLAPS

(* The control part of the inductive invariant.  No conjunct is inductive
   alone: TimerMatchesState needs ChecksNeverFire (a timer callback that found
   an unexpected state would keep the timer armed), ChecksNeverFire needs
   ReplyOnlyInBusy (its check of txbuf) and TimerMatchesState, and NeverStuck
   needs TimerMatchesState (the timer that INIT waits for). *)
Control ==
    /\ ControlTypeOK
    /\ TimerMatchesState
    /\ NeverStuck
    /\ ChecksNeverFire
    /\ ReplyOnlyInBusy

IInv == Control /\ BuffersTypeOK

----------------------------------------------------------------------------
(* The buffers: a reset buffer is within every capacity. *)
LEMMA EmptyBuffer == <<>> \in Seq(Byte) /\ Len(<<>>) = 0
  OBVIOUS

(* rxbuf_append keeps rxbuf within RXBUF_CAPACITY. *)
LEMMA AppendBounded ==
  ASSUME BuffersTypeOK, NEW data \in Byte, rxbuf_append(data)
  PROVE  rxbuf' \in Seq(Byte) /\ Len(rxbuf') <= RXBUF_CAPACITY
<1>1. CASE Len(rxbuf) < RXBUF_CAPACITY
  <2>1. rxbuf' = Append(rxbuf, data)
    BY <1>1 DEF rxbuf_append
  <2>2. Append(rxbuf, data) \in Seq(Byte)
          /\ Len(Append(rxbuf, data)) = Len(rxbuf) + 1
    BY DEF BuffersTypeOK
  <2>3. QED
    BY <1>1, <2>1, <2>2, CapacityAssumption DEF BuffersTypeOK
<1>2. CASE ~(Len(rxbuf) < RXBUF_CAPACITY)
  BY <1>2 DEF rxbuf_append, BuffersTypeOK
<1>3. QED
  BY <1>1, <1>2

(* A reply with its CRC is not empty and fits into txbuf. *)
LEMMA ReplyFits ==
  ASSUME NEW reply \in Replies
  PROVE  /\ reply \o CalcCrc(reply) \in Seq(Byte)
         /\ Len(reply \o CalcCrc(reply)) <= TXBUF_CAPACITY
         /\ reply \o CalcCrc(reply) # <<>>
<1>1. PICK a \in Byte, b \in Byte : CalcCrc(reply) = <<a, b>>
  BY CrcAssumption
<1>2. reply \in Seq(Byte) /\ Len(reply) + 2 <= TXBUF_CAPACITY
  BY RepliesAssumption
<1>3. <<a, b>> \in Seq(Byte) /\ Len(<<a, b>>) = 2
  OBVIOUS
<1>4. Len(reply \o <<a, b>>) = Len(reply) + 2
  BY <1>2, <1>3
<1>5. reply \o <<a, b>> # <<>>
  BY <1>2, <1>4
<1> QED
  BY <1>1, <1>2, <1>3, <1>4, <1>5

(* The three ways a step treats the buffers: rxbuf_append, a reply of pdu_cb,
   or buffers that are emptied or left alone. *)
LEMMA NextBuffers == BuffersTypeOK /\ [Next]_vars => BuffersTypeOK'
<1> SUFFICES ASSUME BuffersTypeOK, [Next]_vars PROVE BuffersTypeOK'
  OBVIOUS
<1>1. ASSUME rxbuf' = rxbuf \/ rxbuf' = <<>>, txbuf' = txbuf \/ txbuf' = <<>>
      PROVE  BuffersTypeOK'
  <2>1. rxbuf' \in Seq(Byte) /\ Len(rxbuf') <= RXBUF_CAPACITY
    <3>1. CASE rxbuf' = rxbuf
      BY <3>1 DEF BuffersTypeOK
    <3>2. CASE rxbuf' = <<>>
      BY <3>2, EmptyBuffer, CapacityAssumption
    <3>3. QED
      BY <1>1, <3>1, <3>2
  <2>2. txbuf' \in Seq(Byte) /\ Len(txbuf') <= TXBUF_CAPACITY
    <3>1. CASE txbuf' = txbuf
      BY <3>1 DEF BuffersTypeOK
    <3>2. CASE txbuf' = <<>>
      BY <3>2, EmptyBuffer, CapacityAssumption
    <3>3. QED
      BY <1>1, <3>1, <3>2
  <2>3. QED
    BY <2>1, <2>2 DEF BuffersTypeOK
<1>2. CASE timer_silent_interval_cb \/ timer_inter_frame_timeout_cb
             \/ serial_recv_err_cb
  BY <1>1, <1>2
  DEF timer_silent_interval_cb, timer_inter_frame_timeout_cb, serial_recv_err_cb
<1>3. ASSUME NEW data \in Byte, serial_recv_cb(data) PROVE BuffersTypeOK'
  <2>1. txbuf' = txbuf
    BY <1>3 DEF serial_recv_cb
  <2>2. CASE rxbuf_append(data)
    BY <2>1, <2>2, AppendBounded DEF BuffersTypeOK
  <2>3. CASE rxbuf' = rxbuf
    BY <1>1, <2>1, <2>3
  <2>4. QED
    BY <1>3, <2>2, <2>3 DEF serial_recv_cb
<1>4. CASE serial_sent_cb
  BY <1>1, <1>4 DEF serial_sent_cb
<1>5. CASE event_error \/ event_init \/ event_sof \/ event_none
  BY <1>1, <1>5 DEF event_error, event_init, event_sof, event_none, restart
<1>6. CASE event_frame
  <2>1. ASSUME NEW reply \in Replies, rxbuf' = <<>>,
               txbuf' = reply \o CalcCrc(reply)
        PROVE  BuffersTypeOK'
    BY <2>1, ReplyFits, EmptyBuffer, CapacityAssumption DEF BuffersTypeOK
  <2>2. QED
    BY <1>1, <1>6, <2>1 DEF event_frame, adu_process
<1>7. CASE UNCHANGED vars
  BY <1>1, <1>7 DEF vars
<1>8. QED
  BY <1>2, <1>3, <1>4, <1>5, <1>6, <1>7 DEF Next, modbus_rtu_event

----------------------------------------------------------------------------
(* The control state. *)

(* modbus_rtu_init establishes the invariant. *)
LEMMA InitIInv == Init => IInv
<1> SUFFICES ASSUME Init PROVE IInv
  OBVIOUS
<1>1. BuffersTypeOK
  BY EmptyBuffer, CapacityAssumption DEF Init, BuffersTypeOK
<1>2. ControlTypeOK
  BY DEF Init, ControlTypeOK, States
<1>3. TimerMatchesState /\ NeverStuck
  BY DEF Init, TimerMatchesState, NeverStuck
<1>4. ChecksNeverFire /\ ReplyOnlyInBusy
  BY DEF Init, ChecksNeverFire, Inconsistent, TimerExpired, ReplyOnlyInBusy
<1>5. QED
  BY <1>1, <1>2, <1>3, <1>4 DEF IInv, Control

(* Every callback and every branch of modbus_rtu_event preserves the control
   part, whatever ran before it. *)
LEMMA NextControl == Control /\ [Next]_vars => Control'
<1> SUFFICES ASSUME Control, [Next]_vars PROVE Control'
  OBVIOUS
<1> USE DEF Control, ControlTypeOK, States, TimerMatchesState, NeverStuck,
            ChecksNeverFire, Inconsistent, TimerExpired, ReplyOnlyInBusy
<1>1. CASE timer_silent_interval_cb
  BY <1>1
  DEF timer_silent_interval_cb, RTU_STATE_UPDATE, RTU_STATE_ERROR, timer_stop
<1>2. CASE timer_inter_frame_timeout_cb
  BY <1>2
  DEF timer_inter_frame_timeout_cb, RTU_STATE_UPDATE, RTU_STATE_ERROR,
      timer_start
<1>3. ASSUME NEW data \in Byte, serial_recv_cb(data) PROVE Control'
  <2>1. ASSUME rxbuf_append(data) PROVE error' \in BOOLEAN
    BY <2>1 DEF rxbuf_append
  <2>2. CASE curr = "IDLE"
    BY <1>3, <2>1, <2>2 DEF serial_recv_cb, RTU_STATE_UPDATE, timer_start
  <2>3. CASE curr \in {"SOF", "RECV"}
    BY <1>3, <2>1, <2>3 DEF serial_recv_cb, RTU_STATE_UPDATE, timer_reset
  <2>4. CASE curr \in {"INIT", "EOF", "BUSY"}
    BY <1>3, <2>4 DEF serial_recv_cb, RTU_STATE_ERROR
  <2>5. QED
    BY <2>2, <2>3, <2>4
<1>4. CASE serial_recv_err_cb
  BY <1>4 DEF serial_recv_err_cb, RTU_STATE_ERROR, platform
<1>5. CASE serial_sent_cb
  BY <1>5 DEF serial_sent_cb, RTU_STATE_UPDATE, RTU_STATE_ERROR
<1>6. CASE event_error
  BY <1>6 DEF event_error, restart, timer_start
<1>7. CASE event_init
  BY <1>7 DEF event_init, restart, timer_start
<1>8. CASE event_frame
  <2> USE DEF event_frame, FrameConfirmed
  <2>1. CASE ~adu_check(rxbuf)
    BY <1>8, <2>1 DEF adu_process, RTU_STATE_ERROR
  <2>2. CASE adu_check(rxbuf) /\ txbuf' = <<>> /\ updated' = FALSE
               /\ UNCHANGED <<error, prev, curr, sending>>
    BY <1>8, <2>2
  <2>3. ASSUME UNCHANGED error, NEW reply \in Replies,
               txbuf' = reply \o CalcCrc(reply), RTU_STATE_UPDATE("BUSY"),
               serial_send
        PROVE  Control'
    <3>1. txbuf' # <<>>
      BY <2>3, ReplyFits
    <3>2. QED
      BY <1>8, <2>3, <3>1 DEF RTU_STATE_UPDATE, serial_send
  <2>4. QED
    BY <1>8, <2>1, <2>2, <2>3 DEF adu_process
<1>9. CASE event_sof
  BY <1>9 DEF event_sof, platform
<1>10. CASE event_none
  BY <1>10 DEF event_none, platform
<1>11. CASE UNCHANGED vars
  BY <1>11 DEF vars, status, platform
<1>12. QED
  BY <1>1, <1>2, <1>3, <1>4, <1>5, <1>6, <1>7, <1>8, <1>9, <1>10, <1>11
  DEF Next, modbus_rtu_event

----------------------------------------------------------------------------
(* The inductive invariant holds in every reachable state of the core. *)
THEOREM Invariance == Spec => []IInv
  BY InitIInv, NextControl, NextBuffers, PTL DEF Spec, IInv

(* The status word, the buffers and their capacities keep their types: no
   sequence of callbacks writes past rxbuf or txbuf. *)
THEOREM TypeCorrect == Spec => []TypeOK
<1>1. IInv => TypeOK
  BY DEF IInv, Control, TypeOK
<1> QED
  BY Invariance, <1>1, PTL

(* The timer assertions of the Linux and STM32 ports never fail: the core
   starts only a stopped timer and resets only a running one. *)
THEOREM TimerAssertionsHold == Spec => []TimerMatchesState
<1>1. IInv => TimerMatchesState
  BY DEF IInv, Control
<1> QED
  BY Invariance, <1>1, PTL

(* The machine never waits for a timer, a transmission or a call of
   modbus_rtu_event that is not coming. *)
THEOREM NoLostWakeup == Spec => []NeverStuck
<1>1. IInv => NeverStuck
  BY DEF IInv, Control
<1> QED
  BY Invariance, <1>1, PTL

(* The `goto error' branches of modbus_rtu_event and the unexpected-state
   branches of the silent-interval callback are dead code. *)
THEOREM DeadChecks == Spec => []ChecksNeverFire
<1>1. IInv => ChecksNeverFire
  BY DEF IInv, Control
<1> QED
  BY Invariance, <1>1, PTL

(* txbuf is empty whenever pdu_cb may be called. *)
THEOREM TxBufferFree == Spec => []ReplyOnlyInBusy
<1>1. IInv => ReplyOnlyInBusy
  BY DEF IInv, Control
<1> QED
  BY Invariance, <1>1, PTL

(* A flagged error survives every callback and ends only in a restart. *)
THEOREM ErrorsStick == Spec => ErrorDiscardsFrame
<1> DEFINE Discard ==
        error =>
          /\ sending' => sending
          /\ \/ error'
             \/ curr' = "INIT" /\ rxbuf' = <<>> /\ txbuf' = <<>> /\ timer' = "3t5"
<1>1. ASSUME IInv, [Next]_vars PROVE [Discard]_vars
  <2> SUFFICES ASSUME error, Next PROVE Discard
    BY <1>1
  <2> USE <1>1 DEF IInv, Control, ControlTypeOK
  <2>1. CASE timer_silent_interval_cb \/ timer_inter_frame_timeout_cb
    BY <2>1
    DEF timer_silent_interval_cb, timer_inter_frame_timeout_cb, RTU_STATE_ERROR
  <2>2. ASSUME NEW data \in Byte, serial_recv_cb(data) PROVE Discard
    BY <2>2 DEF serial_recv_cb, rxbuf_append, RTU_STATE_ERROR
  <2>3. CASE serial_recv_err_cb \/ serial_sent_cb
    BY <2>3 DEF serial_recv_err_cb, serial_sent_cb, platform, RTU_STATE_ERROR
  <2>4. CASE modbus_rtu_event
    BY <2>4
    DEF modbus_rtu_event, event_error, event_init, event_frame, event_sof,
        event_none, FrameConfirmed, restart, timer_start
  <2>5. QED
    BY <2>1, <2>2, <2>3, <2>4 DEF Next
<1>2. QED
  BY Invariance, <1>1, PTL DEF Spec, ErrorDiscardsFrame

----------------------------------------------------------------------------
(* The line. *)

(* What is left of a frame when n of its bytes have been received. *)
Rest(f, n) == SubSeq(f, n + 1, Len(f))

(* The bytes of a frame after the first i and up to the first n. *)
Part(f, i, n) == SubSeq(f, i + 1, n)

(* What pdu_cb owes the master for a frame. *)
Owing(f) == IF Good(f) THEN f ELSE <<>>

Sendable == Frames \cup {<<>>}

----------------------------------------------------------------------------
(* The bytes of a frame. *)

(* A frame is a sequence of bytes. *)
LEMMA SendableSeq == ASSUME NEW f \in Sendable PROVE f \in Seq(Byte) /\ Len(f) \in Nat
<1>1. CASE f \in Frames
  BY <1>1, FramesAssumption
<1>2. CASE f = <<>>
  BY <1>2, EmptyBuffer
<1> QED
  BY <1>1, <1>2 DEF Sendable

(* What is left of a frame and the parts of it are sequences of bytes, of the
   lengths one expects. *)
LEMMA RestType ==
  ASSUME NEW f \in Seq(Byte), NEW n \in 0 .. Len(f)
  PROVE  /\ Rest(f, n) \in Seq(Byte)
         /\ Len(Rest(f, n)) = Len(f) - n
         /\ \A k \in 1 .. Len(f) - n : Rest(f, n)[k] = f[n + k]
<1>1. \A k \in n + 1 .. Len(f) : f[k] \in Byte
  OBVIOUS
<1> QED
  BY <1>1, SubSeqProperties DEF Rest

LEMMA PartType ==
  ASSUME NEW f \in Seq(Byte), NEW n \in 0 .. Len(f), NEW i \in 0 .. n
  PROVE  /\ Part(f, i, n) \in Seq(Byte)
         /\ Len(Part(f, i, n)) = n - i
         /\ \A k \in 1 .. n - i : Part(f, i, n)[k] = f[i + k]
<1>1. \A k \in i + 1 .. n : f[k] \in Byte
  OBVIOUS
<1> QED
  BY <1>1, SubSeqProperties DEF Part

(* The next byte of the line is the next one of the frame. *)
LEMMA RestStep ==
  ASSUME NEW f \in Seq(Byte), NEW n \in 0 .. Len(f), Rest(f, n) # <<>>
  PROVE  /\ n + 1 \in 0 .. Len(f)
         /\ Head(Rest(f, n)) = f[n + 1]
         /\ f[n + 1] \in Byte
         /\ Tail(Rest(f, n)) = Rest(f, n + 1)
<1>1. n < Len(f)
  <2>1. ASSUME n = Len(f) PROVE FALSE
    BY <2>1, SubSeqEmpty DEF Rest
  <2> QED
    BY <2>1
<1>2. n + 1 \in 1 .. Len(f) /\ Len(f) \in n + 1 .. Len(f)
  BY <1>1
<1>3. Head(Rest(f, n)) = f[n + 1] /\ Tail(Rest(f, n)) = SubSeq(f, (n + 1) + 1, Len(f))
  BY <1>2, HeadTailOfSubSeq DEF Rest
<1> QED
  BY <1>2, <1>3 DEF Rest

(* It is the one that rxbuf lacks. *)
LEMMA PartStep ==
  ASSUME NEW f \in Seq(Byte), NEW n \in 0 .. Len(f) - 1, NEW i \in 0 .. n
  PROVE  Append(Part(f, i, n), f[n + 1]) = Part(f, i, n + 1)
<1> DEFINE s == Part(f, i, n)
           t == Part(f, i, n + 1)
<1>0. n \in 0 .. Len(f) /\ i \in 0 .. n + 1 /\ n + 1 \in 0 .. Len(f)
  OBVIOUS
<1>1. s \in Seq(Byte) /\ Len(s) = n - i /\ \A k \in 1 .. n - i : s[k] = f[i + k]
  BY <1>0, PartType
<1>2. t \in Seq(Byte) /\ Len(t) = n + 1 - i /\ \A k \in 1 .. n + 1 - i : t[k] = f[i + k]
  <2>1. \A m \in 0 .. Len(f) : i \in 0 .. m =>
          /\ Part(f, i, m) \in Seq(Byte)
          /\ Len(Part(f, i, m)) = m - i
          /\ \A k \in 1 .. m - i : Part(f, i, m)[k] = f[i + k]
    BY PartType
  <2> QED
    BY <1>0, <2>1
<1>3. f[n + 1] \in Byte
  OBVIOUS
<1> HIDE DEF s, t
<1>4. /\ Append(s, f[n + 1]) \in Seq(Byte)
      /\ Len(Append(s, f[n + 1])) = n - i + 1
      /\ \A k \in 1 .. n - i : Append(s, f[n + 1])[k] = s[k]
      /\ Append(s, f[n + 1])[n - i + 1] = f[n + 1]
  BY <1>1, <1>3, AppendProperties
<1>5. \A k \in 1 .. n + 1 - i : Append(s, f[n + 1])[k] = t[k]
  BY <1>1, <1>2, <1>4
<1>6. Append(s, f[n + 1]) = t
  BY <1>2, <1>4, <1>5, SeqEqual
<1> QED
  BY <1>6 DEF s, t

(* Nothing is left after the last byte, and no part is empty but the one that
   begins where it ends. *)
LEMMA NoPart ==
  ASSUME NEW f \in Seq(Byte), NEW n \in 0 .. Len(f)
  PROVE  /\ Part(f, n, n) = <<>>
         /\ \A i \in 0 .. n : Part(f, i, n) = <<>> => i = n
         /\ Rest(f, n) = <<>> <=> n = Len(f)
<1>1. Part(f, n, n) = <<>>
  BY SubSeqEmpty DEF Part
<1>2. ASSUME NEW i \in 0 .. n, Part(f, i, n) = <<>> PROVE i = n
  BY <1>2, PartType, EmptyBuffer
<1>3. n = Len(f) => Rest(f, n) = <<>>
  BY SubSeqEmpty DEF Rest
<1>4. Rest(f, n) = <<>> => n = Len(f)
  BY RestType, EmptyBuffer
<1> QED
  BY <1>1, <1>2, <1>3, <1>4

(* A part of a frame that passes adu_check is the whole of it. *)
LEMMA OnlyWholeFrames ==
  ASSUME NEW f \in Sendable, NEW n \in 0 .. Len(f), NEW i \in 0 .. n,
         adu_check(Part(f, i, n))
  PROVE  i = 0 /\ n = Len(f) /\ n > 0 /\ Part(f, i, n) = f /\ f \in Frames
<1>1. f \in Seq(Byte)
  BY SendableSeq
<1>2. Len(Part(f, i, n)) = n - i
  BY <1>1, PartType
<1>3. n - i >= 4
  BY <1>2 DEF adu_check, ADU_MIN_SIZE
<1>4. f \in Frames
  BY <1>1, <1>3, EmptyBuffer DEF Sendable
<1>5. i + 1 \in 1 .. Len(f) /\ n \in 1 .. Len(f)
  BY <1>1, <1>3
<1>6. ~(n - (i + 1) + 1 < Len(f))
  BY <1>4, <1>5, NoFrameInsideAFrame DEF Part
<1>7. i = 0 /\ n = Len(f)
  BY <1>1, <1>6
<1>8. Part(f, 0, Len(f)) = f
  BY <1>1, SubSeqFull DEF Part
<1> QED
  BY <1>3, <1>4, <1>7, <1>8

(* A frame that is put together from its first byte on and passes adu_check is
   the one that the master waits for. *)
LEMMA WholeFrameIsOwed ==
  ASSUME BuffersTypeOK, NEW f \in Sendable, NEW n \in 0 .. Len(f), NEW i \in 0 .. n,
         rxbuf = Part(f, i, n), i = 0 => owed = Owing(f), adu_check(rxbuf)
  PROVE  rxbuf = owed
<1>1. i = 0 /\ rxbuf = f
  BY OnlyWholeFrames
<1>2. Good(f)
  BY <1>1 DEF Good, BuffersTypeOK
<1> QED
  BY <1>1, <1>2 DEF Owing

(* A good frame is long enough for an address, a function code and a CRC, and
   short enough for rxbuf. *)
LEMMA GoodFrame ==
  ASSUME NEW f \in Frames, Good(f)
  PROVE  f \in Seq(Byte) /\ Len(f) \in Nat /\ Len(f) >= 4 /\ Len(f) <= RXBUF_CAPACITY
         /\ f # <<>> /\ f \in Sendable
  BY FramesAssumption DEF Good, adu_check, ADU_MIN_SIZE, Sendable

----------------------------------------------------------------------------
(* rxbuf. *)

(* rxbuf is empty where a frame may begin: after a restart, while a reply goes
   out, and in IDLE once the frame that ended there has been dealt with. *)
RxbufFree ==
    /\ curr \in {"INIT", "BUSY"} => rxbuf = <<>>
    /\ curr = "IDLE" => rxbuf = <<>> \/ (updated /\ prev = "EOF")

(* Every callback and every event keeps it so. *)
LEMMA NextRxbufFree == Control /\ RxbufFree /\ [Next]_vars => RxbufFree'
<1> SUFFICES ASSUME Control, RxbufFree, [Next]_vars PROVE RxbufFree'
  OBVIOUS
<1> USE DEF RxbufFree, Control, ControlTypeOK, States
<1>1. CASE timer_silent_interval_cb
  BY <1>1
  DEF timer_silent_interval_cb, RTU_STATE_UPDATE, RTU_STATE_ERROR, ChecksNeverFire
<1>2. CASE timer_inter_frame_timeout_cb
  BY <1>2
  DEF timer_inter_frame_timeout_cb, RTU_STATE_UPDATE, RTU_STATE_ERROR
<1>3. ASSUME NEW data \in Byte, serial_recv_cb(data) PROVE RxbufFree'
  BY <1>3 DEF serial_recv_cb, RTU_STATE_UPDATE, RTU_STATE_ERROR
<1>4. CASE serial_recv_err_cb
  BY <1>4 DEF serial_recv_err_cb, RTU_STATE_ERROR
<1>5. CASE serial_sent_cb
  BY <1>5 DEF serial_sent_cb, RTU_STATE_UPDATE, RTU_STATE_ERROR
<1>6. CASE event_error \/ event_init
  BY <1>6 DEF event_error, event_init, restart
<1>7. CASE event_frame
  BY <1>7 DEF event_frame, FrameConfirmed, adu_process, RTU_STATE_UPDATE, RTU_STATE_ERROR
<1>8. CASE event_sof \/ event_none
  BY <1>8 DEF event_sof, event_none, Inconsistent
<1>9. CASE UNCHANGED vars
  BY <1>9 DEF vars, status
<1> QED
  BY <1>1, <1>2, <1>3, <1>4, <1>5, <1>6, <1>7, <1>8, <1>9 DEF Next, modbus_rtu_event

============================================================================
