-------------------------- MODULE LinuxSlaveProofs --------------------------
(***************************************************************************)
(* TLAPS proofs about LinuxSlave: the thread of linux/rtu_impl.c           *)
(* implements the core of Rtu, and keeps what the core alone cannot        *)
(* promise, for every set of frames of which no part passes for a frame,   *)
(* every size of the read buffer, and a thread that may be late or have    *)
(* its clock set at any time.                                              *)
(***************************************************************************)
EXTENDS LinuxSlave, RtuProofs

(* What the thread makes of the core's control state. *)
ThreadControl ==
    /\ pc \in {"modbus_rtu_event", "recv_impl", "recv_loop", "timeout_impl",
               "send_impl", "returned", "aborted"}
    /\ caller \in {"recv_impl", "recv_loop"}
    /\ user_event \in BOOLEAN
    /\ EventsKeepUp
    /\ sending <=> pc \in {"send_impl", "aborted"}
    /\ curr = "BUSY" <=> sending
    /\ curr = "BUSY" => ~error
    /\ pc = "returned" => curr = "IDLE" /\ ~FrameConfirmed

(* The bytes of buf are used up when the thread looks at its timer or reads
   again. *)
ChunkUsedUp ==
    \/ pc \in {"recv_impl", "timeout_impl", "returned"}
    \/ pc \in {"modbus_rtu_event", "send_impl"} /\ caller = "recv_impl"
  => chunk = <<>>

(* What of the frame serial_recv_cb has not seen yet. *)
Unread == chunk \o (queue \o frame)

BytesTypeOK ==
    /\ \E f \in Sendable : \E n \in 0 .. Len(f) : frame = Rest(f, n)
    /\ queue \in Seq(Byte)
    /\ chunk \in Seq(Byte) /\ Len(chunk) <= READ_CAPACITY

(* The slave waits for a frame, or has read the first bytes of it. *)
AtTheLine ==
    /\ curr = "IDLE"
    /\ pc \in {"recv_impl", "returned"} \/ (pc = "recv_loop" /\ chunk # <<>>)

(* rxbuf holds, unless there is an error, the bytes of the frame that have come
   since the slave was ready for them.  A frame that a late thread has torn is
   owed no more, and what rxbuf holds of it is not the whole. *)
Assembled(f, n) ==
    /\ Unread = Rest(f, n)
    /\ n = 0 => owed = Owing(f) /\ (f = <<>> \/ AtTheLine)
    /\ ~error => \E i \in 0 .. n :
        /\ rxbuf = Part(f, i, n)
        /\ i = 0 => \/ owed = Owing(f)
                    \/ n < Len(f) /\ (curr = "EOF" \/ FrameConfirmed)

Assembly == \E f \in Sendable : \E n \in 0 .. Len(f) : Assembled(f, n)

(* What has become of a good frame: it has been dealt with, or it is being
   received from its first byte on without an error, or it is lost because of
   what the frame before it left behind, and the slave recovers meanwhile. *)
Done ==
    /\ owed = <<>> /\ Unread = <<>>
    /\ ~error /\ curr \in {"IDLE", "BUSY", "INIT"} /\ ~FrameConfirmed

ReceivedUpTo(n) ==
    /\ Unread = Rest(owed, n) /\ rxbuf = Part(owed, 0, n)
    /\ \/ n = 0 /\ curr = "IDLE" /\ ~FrameConfirmed
       \/ n = 1 /\ curr = "SOF"
       \/ n > 1 /\ curr = "RECV"
       \/ n = Len(owed) /\ (curr = "EOF" \/ FrameConfirmed)

Receiving ==
    /\ owed \in Frames /\ Good(owed) /\ ~error
    /\ \E n \in 0 .. Len(owed) : ReceivedUpTo(n)

Lost ==
    /\ owed # <<>> /\ ~before
    /\ \/ error /\ (pc = "modbus_rtu_event" \/ Unread # <<>>)
       \/ ~error /\ curr = "INIT"
       \/ ~error /\ curr = "IDLE" /\ Unread = <<>> /\ ~FrameConfirmed

Progress ==
    /\ good \in BOOLEAN /\ before \in BOOLEAN
    /\ good => Done \/ Receiving \/ Lost
    /\ ~good => owed = <<>>

LinuxInv ==
    /\ IInv /\ RxbufFree
    /\ ThreadControl /\ ChunkUsedUp /\ BytesTypeOK
    /\ Assembly /\ owed \in Sendable
    /\ Progress

----------------------------------------------------------------------------
(* The bytes on their way. *)

(* Where the bytes are split does not matter. *)
LEMMA Regroup == \A s, t, u \in Seq(Byte) : (s \o t) \o u = s \o (t \o u)
  BY ConcatAssociative

(* The line carries bytes. *)
LEMMA FrameSeq == ASSUME BytesTypeOK PROVE frame \in Seq(Byte)
<1>1. PICK f \in Sendable : \E n \in 0 .. Len(f) : frame = Rest(f, n)
  BY DEF BytesTypeOK
<1>2. PICK n \in 0 .. Len(f) : frame = Rest(f, n)
  BY <1>1
<1> QED
  BY <1>2, SendableSeq, RestType

(* Nothing is unread when the thread, the kernel and the line hold nothing. *)
LEMMA UnreadEmpty ==
  ASSUME BytesTypeOK
  PROVE  /\ Unread \in Seq(Byte)
         /\ Unread = <<>> <=> chunk = <<>> /\ queue = <<>> /\ frame = <<>>
<1>1. chunk \in Seq(Byte) /\ queue \in Seq(Byte) /\ frame \in Seq(Byte)
  BY FrameSeq DEF BytesTypeOK
<1>2. queue \o frame \in Seq(Byte)
  BY <1>1, ConcatProperties
<1>3. queue \o frame = <<>> <=> queue = <<>> /\ frame = <<>>
  BY <1>1, ConcatEqualIffEmpty
<1>4. chunk \o (queue \o frame) = <<>> <=> chunk = <<>> /\ queue \o frame = <<>>
  BY <1>1, <1>2, ConcatEqualIffEmpty
<1>5. chunk \o (queue \o frame) \in Seq(Byte)
  BY <1>1, <1>2, ConcatProperties
<1> QED
  BY <1>3, <1>4, <1>5 DEF Unread

(* A byte that goes from the line to the kernel stays in its place. *)
LEMMA UnreadArrives ==
  ASSUME BytesTypeOK, ByteArrives
  PROVE  Unread' = Unread /\ BytesTypeOK'
<1>1. PICK f \in Sendable : \E n \in 0 .. Len(f) : frame = Rest(f, n)
  BY DEF BytesTypeOK
<1>2. PICK n \in 0 .. Len(f) : frame = Rest(f, n)
  BY <1>1
<1>3. /\ f \in Seq(Byte) /\ frame \in Seq(Byte) /\ queue \in Seq(Byte) /\ frame # <<>>
      /\ frame' = Tail(frame) /\ queue' = Append(queue, Head(frame)) /\ chunk' = chunk
  BY SendableSeq, FrameSeq DEF BytesTypeOK, ByteArrives, thread
<1>4. n + 1 \in 0 .. Len(f) /\ frame' = Rest(f, n + 1) /\ Head(frame) \in Byte
  BY <1>2, <1>3, RestStep
<1>5. queue' \in Seq(Byte)
  BY <1>3, <1>4, AppendProperties
<1>6. BytesTypeOK'
  BY <1>3, <1>4, <1>5 DEF BytesTypeOK
<1>7. queue' \o frame' = queue \o frame
  <2> DEFINE h == <<Head(frame)>>
  <2>1. h \in Seq(Byte) /\ Tail(frame) \in Seq(Byte)
    BY <1>3, <1>4, HeadTailProperties
  <2>2. queue' = queue \o h
    BY <1>3, <1>4, AppendIsConcat
  <2>3. h \o Tail(frame) = frame
    BY <1>3
  <2>4. (queue \o h) \o Tail(frame) = queue \o (h \o Tail(frame))
    BY <1>3, <2>1, Regroup, Zenon
  <2> QED
    BY <1>3, <2>2, <2>3, <2>4
<1> QED
  BY <1>3, <1>6, <1>7 DEF Unread

(* read() takes what the kernel holds, up to the size of buf, in its order. *)
LEMMA UnreadFetched ==
  ASSUME BytesTypeOK, chunk = <<>>, Fetch, UNCHANGED frame
  PROVE  Unread' = Unread /\ BytesTypeOK' /\ (queue # <<>> => chunk' # <<>>)
<1>1. frame \in Seq(Byte) /\ queue \in Seq(Byte) /\ Len(queue) \in Nat
  BY FrameSeq DEF BytesTypeOK
<1> DEFINE n == IF Len(queue) < READ_CAPACITY THEN Len(queue) ELSE READ_CAPACITY
<1>2. chunk' = SubSeq(queue, 1, n) /\ queue' = SubSeq(queue, n + 1, Len(queue))
  BY DEF Fetch
<1>3. n \in 0 .. Len(queue) /\ n <= READ_CAPACITY /\ (Len(queue) > 0 => n > 0)
  BY <1>1, ReadAssumption
<1> HIDE DEF n
<1>4. chunk' \in Seq(Byte) /\ Len(chunk') = n
  <2>1. 0 \in 0 .. n /\ n - 0 = n /\ Part(queue, 0, n) = SubSeq(queue, 1, n)
    BY <1>3 DEF Part
  <2> QED
    BY <1>1, <1>2, <1>3, <2>1, PartType
<1>5. queue' \in Seq(Byte)
  BY <1>1, <1>2, <1>3, RestType DEF Rest
<1>6. BytesTypeOK'
  BY <1>3, <1>4, <1>5 DEF BytesTypeOK
<1>7. queue # <<>> => chunk' # <<>>
  BY <1>1, <1>3, <1>4, EmptyBuffer, EmptySeq
<1>8. chunk' \o queue' = queue
  <2>1. 1 \in 1 .. Len(queue) + 1 /\ n \in 1 - 1 .. Len(queue) /\ Len(queue) \in n .. Len(queue)
    BY <1>1, <1>3
  <2>2. SubSeq(queue, 1, n) \o SubSeq(queue, n + 1, Len(queue)) = SubSeq(queue, 1, Len(queue))
    BY <1>1, <2>1, ConcatAdjacentSubSeq
  <2> QED
    BY <1>1, <1>2, <2>2, SubSeqFull
<1>9. chunk' \o (queue' \o frame) = (chunk' \o queue') \o frame
  BY <1>1, <1>4, <1>5, Regroup, Zenon
<1>10. chunk \o (queue \o frame) = queue \o frame
  BY <1>1, ConcatProperties, ConcatEmptySeq
<1> QED
  BY <1>6, <1>7, <1>8, <1>9, <1>10 DEF Unread

(* serial_recv_cb sees the bytes in their order. *)
LEMMA UnreadReceived ==
  ASSUME BytesTypeOK, chunk # <<>>, chunk' = Tail(chunk), UNCHANGED <<queue, frame>>
  PROVE  /\ Unread # <<>> /\ Head(Unread) = Head(chunk) /\ Unread' = Tail(Unread)
         /\ Head(chunk) \in Byte /\ BytesTypeOK'
<1> DEFINE rest == queue \o frame
           h == <<Head(chunk)>>
<1>1. chunk \in Seq(Byte) /\ queue \in Seq(Byte) /\ frame \in Seq(Byte)
  BY FrameSeq DEF BytesTypeOK
<1>2. rest \in Seq(Byte) /\ Unread = chunk \o rest /\ Unread' = Tail(chunk) \o rest
  BY <1>1, ConcatProperties DEF Unread
<1>3. /\ Head(chunk) \in Byte /\ Tail(chunk) \in Seq(Byte) /\ Len(Tail(chunk)) = Len(chunk) - 1
      /\ h \in Seq(Byte) /\ h \o Tail(chunk) = chunk
  BY <1>1, HeadTailProperties
<1> HIDE DEF rest
<1>4. (h \o Tail(chunk)) \o rest = h \o (Tail(chunk) \o rest)
  BY <1>2, <1>3, ConcatAssociative
<1>5. Tail(chunk) \o rest \in Seq(Byte)
  BY <1>2, <1>3, ConcatProperties
<1>6. Unread = h \o Unread' /\ Unread' \in Seq(Byte)
  BY <1>2, <1>3, <1>4, <1>5
<1>7. Unread # <<>> /\ Head(Unread) = Head(chunk) /\ Unread' = Tail(Unread)
  BY <1>3, <1>6
<1>8. BytesTypeOK'
  BY <1>1, <1>3, ReadAssumption DEF BytesTypeOK
<1> QED
  BY <1>3, <1>7, <1>8

----------------------------------------------------------------------------
(* The steps of the thread are steps of the core. *)

LEMMA LinuxStep == BytesTypeOK /\ [LinuxNext]_linux => [Next]_vars
<1> SUFFICES ASSUME BytesTypeOK, [LinuxNext]_linux PROVE [Next]_vars
  OBVIOUS
<1>1. CASE LinuxMasterSends \/ ByteArrives \/ RaiseUserEvent \/ recv_impl
  BY <1>1 DEF LinuxMasterSends, ByteArrives, RaiseUserEvent, recv_impl
<1>2. CASE recv_loop
  <2>1. chunk # <<>> => Head(chunk) \in Byte
    BY HeadTailProperties DEF BytesTypeOK
  <2> QED
    BY <1>2, <2>1 DEF recv_loop, Next
<1>3. CASE timeout_impl
  BY <1>3 DEF timeout_impl, not_elapsed, elapsed, Next
<1>4. CASE event
  BY <1>4 DEF event, Event, Next
<1>5. CASE send_impl
  BY <1>5 DEF send_impl, Next
<1>6. CASE UNCHANGED linux
  BY <1>6 DEF linux
<1> QED
  BY <1>1, <1>2, <1>3, <1>4, <1>5, <1>6 DEF LinuxNext, modbus_rtu_run

(* The bytes on their way keep their types, and buf is never read beyond its
   size. *)
LEMMA LinuxBytes ==
  ASSUME ChunkUsedUp, BytesTypeOK, [LinuxNext]_linux
  PROVE  BytesTypeOK'
<1>1. ASSUME UNCHANGED <<frame, queue, chunk>> PROVE BytesTypeOK'
  BY <1>1 DEF BytesTypeOK
<1>2. CASE LinuxMasterSends
  <2>1. PICK f \in Frames : frame' = f
    BY <1>2 DEF LinuxMasterSends, MasterSends
  <2>2. f \in Sendable /\ 0 \in 0 .. Len(f) /\ f = Rest(f, 0)
    BY SendableSeq, SubSeqFull DEF Sendable, Rest
  <2> QED
    BY <1>2, <2>1, <2>2 DEF BytesTypeOK, LinuxMasterSends, thread
<1>3. CASE ByteArrives
  BY <1>3, UnreadArrives
<1>4. CASE recv_impl
  <2>1. chunk = <<>> /\ UNCHANGED frame
    BY <1>4 DEF recv_impl, ChunkUsedUp, line
  <2>2. CASE Fetch
    BY <2>1, <2>2, UnreadFetched
  <2>3. CASE UNCHANGED <<queue, chunk>>
    BY <1>1, <2>1, <2>3
  <2> QED
    BY <1>4, <2>2, <2>3 DEF recv_impl, tty_read, tty_read_ll
<1>5. CASE recv_loop
  <2>1. UNCHANGED <<frame, queue>>
    BY <1>5 DEF recv_loop, line
  <2> QED
    BY <1>1, <1>5, <2>1, UnreadReceived DEF recv_loop
<1>6. CASE RaiseUserEvent \/ timeout_impl \/ event \/ send_impl
  BY <1>1, <1>6
  DEF RaiseUserEvent, timeout_impl, not_elapsed, elapsed, event, Event, send_impl, line, thread
<1>7. CASE UNCHANGED linux
  BY <1>1, <1>7 DEF linux, line, thread
<1> QED
  BY <1>2, <1>3, <1>4, <1>5, <1>6, <1>7 DEF LinuxNext, modbus_rtu_run

----------------------------------------------------------------------------
(* The control state of the thread. *)

ThreadInv == Control /\ ThreadControl /\ ChunkUsedUp

(* A confirmed frame waits for the thread's next modbus_rtu_event alone. *)
LEMMA ConfirmedAtEvent ==
  ASSUME ThreadInv, FrameConfirmed
  PROVE  pc = "modbus_rtu_event"
  BY DEF ThreadInv, ThreadControl, EventsKeepUp, FrameConfirmed

(* The thread waits without a timeout in IDLE alone. *)
LEMMA IdleWhenWaiting ==
  ASSUME ThreadInv, pc = "recv_impl", timer = "off"
  PROVE  curr = "IDLE" /\ ~sending /\ chunk = <<>> /\ ~FrameConfirmed
  BY DEF ThreadInv, Control, ControlTypeOK, States, TimerMatchesState, NeverStuck,
         ThreadControl, EventsKeepUp, ChunkUsedUp, FrameConfirmed

(* The thread finds its timer elapsed only when there is no error. *)
LEMMA NoErrorWhenElapsed ==
  ASSUME ThreadInv, elapsed
  PROVE  /\ ~error /\ chunk = <<>> /\ curr \in {"INIT", "SOF", "RECV", "EOF"}
         /\ timer_cb = "silent" => curr \in {"INIT", "EOF"}
         /\ timer_cb = "inter" => curr \in {"SOF", "RECV"}
         /\ curr = "EOF" => prev = "RECV"
<1>1. pc = "timeout_impl" /\ timer # "off"
  BY DEF elapsed, timer_silent_interval_cb, timer_inter_frame_timeout_cb, TimerExpired
<1>2. chunk = <<>> /\ curr \notin {"IDLE", "BUSY"}
  BY <1>1 DEF ThreadInv, Control, TimerMatchesState, ChunkUsedUp
<1>3. ~error /\ curr \in States
  BY <1>1, <1>2 DEF ThreadInv, Control, ControlTypeOK, NeverStuck, ThreadControl, EventsKeepUp
<1>4. /\ timer_cb = "silent" => curr \in {"INIT", "EOF"}
      /\ timer_cb = "inter" => curr \in {"SOF", "RECV"}
      /\ curr = "EOF" => prev = "RECV"
  BY <1>1 DEF ThreadInv, Control, ChecksNeverFire, TimerExpired, Inconsistent
<1> QED
  BY <1>2, <1>3, <1>4 DEF States

(* What a call of modbus_rtu_event does to a thread without a reply to send. *)
LEMMA EventEffect ==
  ASSUME Control, modbus_rtu_event, ~sending
  PROVE  /\ sending' \in BOOLEAN
         /\ curr' = "BUSY" <=> sending'
         /\ curr' = "BUSY" => ~error'
         /\ updated' /\ ~sending' => error' /\ curr' = "IDLE" /\ prev' = "EOF"
<1>0. error \in BOOLEAN /\ sending = FALSE /\ ~Inconsistent /\ curr # "BUSY"
  BY DEF Control, ControlTypeOK, ChecksNeverFire, NeverStuck
<1>1. CASE event_error \/ event_init
  BY <1>0, <1>1 DEF event_error, event_init
<1>2. CASE event_sof \/ event_none
  BY <1>0, <1>2 DEF event_sof, event_none, platform
<1>3. CASE event_frame
  <2>1. FrameConfirmed /\ adu_process
    BY <1>3 DEF event_frame
  <2>2. CASE updated' = FALSE /\ UNCHANGED <<error, prev, curr, sending>>
    BY <1>0, <2>2
  <2>3. CASE RTU_STATE_UPDATE("BUSY") /\ serial_send /\ UNCHANGED error
    BY <1>0, <2>1, <2>3 DEF RTU_STATE_UPDATE, serial_send, FrameConfirmed
  <2>4. CASE RTU_STATE_ERROR /\ UNCHANGED <<prev, curr, sending>>
    BY <1>0, <2>1, <2>4 DEF RTU_STATE_ERROR, FrameConfirmed
  <2> QED
    BY <2>1, <2>2, <2>3, <2>4 DEF adu_process
<1> QED
  BY <1>1, <1>2, <1>3 DEF modbus_rtu_event

(* Every step of the thread keeps its control state. *)
LEMMA LinuxThread ==
  ASSUME ThreadInv, BytesTypeOK, [LinuxNext]_linux
  PROVE  ThreadInv'
<1>1. Control'
  BY LinuxStep, NextControl DEF ThreadInv
<1>0. sending \in BOOLEAN /\ error \in BOOLEAN /\ updated \in BOOLEAN
  BY DEF ThreadInv, Control, ControlTypeOK
<1> SUFFICES ThreadControl' /\ ChunkUsedUp'
  BY <1>1 DEF ThreadInv
<1>2. ASSUME UNCHANGED <<vars, pc, caller, chunk>>, user_event' \in BOOLEAN
      PROVE  ThreadControl' /\ ChunkUsedUp'
  BY <1>2
  DEF ThreadInv, ThreadControl, ChunkUsedUp, EventsKeepUp, FrameConfirmed, vars, status, platform
<1>3. CASE LinuxMasterSends \/ ByteArrives \/ RaiseUserEvent
  BY <1>2, <1>3
  DEF LinuxMasterSends, ByteArrives, RaiseUserEvent, thread, ThreadInv, ThreadControl
<1>4. CASE UNCHANGED linux
  BY <1>2, <1>4 DEF linux, thread, ThreadInv, ThreadControl
<1>5. CASE recv_impl
  <2>1. /\ pc = "recv_impl" /\ chunk = <<>> /\ UNCHANGED <<caller, user_event>>
        /\ UNCHANGED <<updated, error, prev, curr, sending>>
    BY <1>5 DEF recv_impl, vars, status, platform, ThreadInv, ChunkUsedUp
  <2>2. CASE pc' = "recv_loop"
    BY <2>1, <2>2
    DEF ThreadInv, ThreadControl, ChunkUsedUp, EventsKeepUp, FrameConfirmed
  <2>3. CASE timer = "off" /\ pc' = "returned" /\ chunk' = chunk
    BY <2>1, <2>3, IdleWhenWaiting
    DEF ThreadInv, ThreadControl, ChunkUsedUp, EventsKeepUp, FrameConfirmed
  <2> QED
    BY <1>5, <2>2, <2>3 DEF recv_impl, tty_read, tty_read_ll, Fetch
<1>6. CASE recv_loop
  <2>1. CASE chunk = <<>>
    <3>1. /\ pc = "recv_loop" /\ pc' = "timeout_impl" /\ UNCHANGED <<caller, chunk, user_event>>
          /\ UNCHANGED <<updated, error, prev, curr, sending>>
      BY <1>6, <2>1 DEF recv_loop, vars, status, platform
    <3> QED
      BY <2>1, <3>1 DEF ThreadInv, ThreadControl, ChunkUsedUp, EventsKeepUp, FrameConfirmed
  <2>2. CASE chunk # <<>>
    <3>1. /\ pc = "recv_loop" /\ pc' = "modbus_rtu_event" /\ caller' = "recv_loop"
          /\ UNCHANGED user_event /\ serial_recv_cb(Head(chunk))
      BY <1>6, <2>2 DEF recv_loop
    <3>2. sending' = sending /\ (curr' = "BUSY" => curr = "BUSY")
      BY <3>1 DEF serial_recv_cb, RTU_STATE_UPDATE, RTU_STATE_ERROR
    <3> QED
      BY <3>1, <3>2 DEF ThreadInv, ThreadControl, ChunkUsedUp, EventsKeepUp
  <2> QED
    BY <2>1, <2>2
<1>7. CASE not_elapsed
  <2>1. /\ pc = "timeout_impl" /\ pc' = "recv_impl" /\ UNCHANGED <<caller, chunk, user_event>>
        /\ UNCHANGED <<updated, error, prev, curr, sending>>
    BY <1>7 DEF not_elapsed, vars, status, platform
  <2> QED
    BY <2>1 DEF ThreadInv, ThreadControl, ChunkUsedUp, EventsKeepUp, FrameConfirmed
<1>8. CASE elapsed
  <2>1. /\ pc = "timeout_impl" /\ pc' = "modbus_rtu_event" /\ caller' = "recv_impl"
        /\ UNCHANGED <<chunk, user_event, sending>>
    BY <1>8 DEF elapsed, timer_silent_interval_cb, timer_inter_frame_timeout_cb
  <2>2. curr' # "BUSY"
    BY <1>8, NoErrorWhenElapsed
    DEF elapsed, timer_silent_interval_cb, timer_inter_frame_timeout_cb, RTU_STATE_UPDATE
  <2>3. chunk' = <<>>
    BY <1>8, <2>1, NoErrorWhenElapsed
  <2> QED
    BY <2>1, <2>2, <2>3 DEF ThreadInv, ThreadControl, ChunkUsedUp, EventsKeepUp
<1>9. CASE event
  <2>1. /\ pc = "modbus_rtu_event" /\ UNCHANGED <<caller, chunk, user_event>>
        /\ pc' = (IF sending' THEN "send_impl" ELSE caller) /\ ~sending
    BY <1>9 DEF event, ThreadInv, ThreadControl
  <2>2. /\ sending' \in BOOLEAN
        /\ curr' = "BUSY" <=> sending'
        /\ curr' = "BUSY" => ~error'
        /\ updated' /\ ~sending' => error' /\ curr' = "IDLE" /\ prev' = "EOF"
    <3>1. CASE updated
      BY <1>9, <2>1, <3>1, EventEffect DEF event, Event, ThreadInv
    <3>2. CASE ~updated
      BY <1>0, <1>9, <2>1, <3>2
      DEF event, Event, vars, status, platform, ThreadInv, ThreadControl
    <3> QED
      BY <3>1, <3>2
  <2>3. ChunkUsedUp'
    BY <2>1 DEF ThreadInv, ThreadControl, ChunkUsedUp
  <2>4. ThreadControl'
    BY <2>1, <2>2 DEF ThreadInv, ThreadControl, EventsKeepUp
  <2> QED
    BY <2>3, <2>4
<1>10. CASE send_impl
  <2>1. /\ pc = "send_impl" /\ sending /\ curr = "BUSY" /\ ~error
        /\ UNCHANGED <<caller, chunk, user_event>>
    BY <1>10 DEF send_impl, ThreadInv, ThreadControl
  <2>2. CASE serial_sent_cb /\ pc' = "modbus_rtu_event"
    BY <2>1, <2>2
    DEF serial_sent_cb, RTU_STATE_UPDATE, ThreadInv, ThreadControl, ChunkUsedUp, EventsKeepUp
  <2>3. CASE pc' = "aborted" /\ UNCHANGED vars
    BY <2>1, <2>3
    DEF vars, status, platform, ThreadInv, ThreadControl, ChunkUsedUp, EventsKeepUp
  <2> QED
    BY <1>10, <2>2, <2>3 DEF send_impl
<1> QED
  BY <1>3, <1>4, <1>5, <1>6, <1>7, <1>8, <1>9, <1>10 DEF LinuxNext, modbus_rtu_run, timeout_impl

----------------------------------------------------------------------------
(* The bytes of the frame. *)

(* A step that moves bytes towards the thread, or moves the thread on, and
   leaves the core alone. *)
LEMMA AssemblyMoved ==
  ASSUME Assembly, Unread' = Unread, UNCHANGED owed,
         UNCHANGED <<updated, error, prev, curr, rxbuf>>, AtTheLine => AtTheLine'
  PROVE  Assembly'
<1>1. PICK f \in Sendable : \E n \in 0 .. Len(f) : Assembled(f, n)
  BY DEF Assembly
<1>2. PICK n \in 0 .. Len(f) : Assembled(f, n)
  BY <1>1
<1>3. FrameConfirmed' = FrameConfirmed
  BY DEF FrameConfirmed
<1>4. Assembled(f, n)'
  BY <1>2, <1>3 DEF Assembled
<1> QED
  BY <1>4 DEF Assembly

(* A step that leaves rxbuf alone, empties it or flags an error. *)
LEMMA AssemblyKept ==
  ASSUME Assembly, ~AtTheLine, Unread' = Unread, UNCHANGED owed,
         \/ error' = TRUE
         \/ rxbuf' = <<>>
         \/ /\ UNCHANGED rxbuf /\ ~error
            /\ curr = "EOF" \/ FrameConfirmed => curr' = "EOF" \/ FrameConfirmed'
  PROVE  Assembly'
<1>1. PICK f \in Sendable : \E n \in 0 .. Len(f) : Assembled(f, n)
  BY DEF Assembly
<1>2. PICK n \in 0 .. Len(f) : Assembled(f, n)
  BY <1>1
<1>3. Unread' = Rest(f, n) /\ (n = 0 => owed' = Owing(f) /\ f = <<>>)
  BY <1>2 DEF Assembled
<1>4. CASE error' = TRUE
  BY <1>3, <1>4 DEF Assembled, Assembly
<1>5. CASE rxbuf' = <<>>
  <2>1. rxbuf' = Part(f, n, n) /\ n \in 0 .. n
    BY <1>5, SendableSeq, NoPart
  <2>2. Assembled(f, n)'
    BY <1>3, <2>1 DEF Assembled
  <2> QED
    BY <2>2 DEF Assembly
<1>6. CASE /\ UNCHANGED rxbuf /\ ~error
           /\ curr = "EOF" \/ FrameConfirmed => curr' = "EOF" \/ FrameConfirmed'
  <2>1. PICK i \in 0 .. n :
          /\ rxbuf = Part(f, i, n)
          /\ i = 0 => \/ owed = Owing(f)
                      \/ n < Len(f) /\ (curr = "EOF" \/ FrameConfirmed)
    BY <1>2, <1>6 DEF Assembled
  <2>2. Assembled(f, n)'
    BY <1>3, <1>6, <2>1 DEF Assembled
  <2> QED
    BY <2>2 DEF Assembly
<1> QED
  BY <1>4, <1>5, <1>6

(* A frame that is torn is owed no more: what rxbuf holds of it is not the
   whole, or there is an error. *)
LEMMA AssemblyTorn ==
  ASSUME Assembly, ~AtTheLine, ~error, Unread # <<>>, Unread' = Unread, UNCHANGED rxbuf,
         error' = TRUE \/ rxbuf = <<>> \/ curr' = "EOF" \/ FrameConfirmed'
  PROVE  Assembly'
<1>1. PICK f \in Sendable : \E n \in 0 .. Len(f) : Assembled(f, n)
  BY DEF Assembly
<1>2. PICK n \in 0 .. Len(f) : Assembled(f, n)
  BY <1>1
<1>3. f \in Seq(Byte) /\ Len(f) \in Nat /\ Unread = Rest(f, n) /\ Unread' = Rest(f, n)
  BY <1>2, SendableSeq DEF Assembled
<1>4. n < Len(f) /\ f # <<>>
  BY <1>3, NoPart, EmptyBuffer
<1>5. n # 0
  BY <1>2, <1>4 DEF Assembled
<1>6. PICK i \in 0 .. n : rxbuf = Part(f, i, n)
  BY <1>2 DEF Assembled
<1>7. rxbuf = <<>> => i = n
  BY <1>3, <1>6, NoPart
<1>8. Assembled(f, n)'
  BY <1>3, <1>4, <1>5, <1>6, <1>7 DEF Assembled
<1> QED
  BY <1>8 DEF Assembly

(* The next byte goes to rxbuf, or raises an error. *)
LEMMA AssemblyGrows ==
  ASSUME Assembly, Unread # <<>>, Unread' = Tail(Unread), UNCHANGED owed, ~FrameConfirmed,
         serial_recv_cb(Head(Unread))
  PROVE  Assembly'
<1>1. PICK f \in Sendable : \E n \in 0 .. Len(f) : Assembled(f, n)
  BY DEF Assembly
<1>2. PICK n \in 0 .. Len(f) : Assembled(f, n)
  BY <1>1
<1>3. f \in Seq(Byte)
  BY SendableSeq
<1>4. /\ n + 1 \in 0 .. Len(f)
      /\ Head(Unread) = f[n + 1]
      /\ Unread' = Rest(f, n + 1)
  BY <1>2, <1>3, RestStep DEF Assembled
<1>5. n + 1 # 0 /\ n \in 0 .. Len(f) - 1
  BY <1>3, <1>4
<1>6. ASSUME ~error'
      PROVE  \E i \in 0 .. n + 1 : rxbuf' = Part(f, i, n + 1) /\ (i = 0 => owed' = Owing(f))
  <2>1. ~error /\ rxbuf' = Append(rxbuf, Head(Unread)) /\ curr # "EOF"
    BY <1>6 DEF serial_recv_cb, rxbuf_append, RTU_STATE_ERROR
  <2>2. PICK i \in 0 .. n : rxbuf = Part(f, i, n) /\ (i = 0 => owed = Owing(f))
    BY <1>2, <2>1 DEF Assembled
  <2>3. rxbuf' = Part(f, i, n + 1)
    BY <1>3, <1>4, <1>5, <2>1, <2>2, PartStep
  <2>4. i \in 0 .. n + 1
    BY <1>5, <2>2
  <2> QED
    BY <2>2, <2>3, <2>4
<1>7. Assembled(f, n + 1)'
  BY <1>4, <1>5, <1>6 DEF Assembled
<1> QED
  BY <1>4, <1>7 DEF Assembly

(* The frame that is handed to pdu_cb leaves rxbuf, and is owed no more. *)
LEMMA AssemblyDelivered ==
  ASSUME Assembly, ~error, adu_check(rxbuf), Unread' = Unread, rxbuf' = <<>>
  PROVE  Assembly'
<1>1. PICK f \in Sendable : \E n \in 0 .. Len(f) : Assembled(f, n)
  BY DEF Assembly
<1>2. PICK n \in 0 .. Len(f) : Assembled(f, n)
  BY <1>1
<1>3. PICK i \in 0 .. n : rxbuf = Part(f, i, n)
  BY <1>2 DEF Assembled
<1>4. n > 0
  BY <1>3, OnlyWholeFrames
<1>5. rxbuf' = Part(f, n, n) /\ n \in 0 .. n
  BY SendableSeq, NoPart
<1>6. Unread' = Rest(f, n)
  BY <1>2 DEF Assembled
<1>7. Assembled(f, n)'
  BY <1>4, <1>5, <1>6 DEF Assembled
<1> QED
  BY <1>7 DEF Assembly

(* A new frame meets an rxbuf without leftovers, or an error. *)
LEMMA AssemblySends ==
  ASSUME ThreadInv, RxbufFree, BytesTypeOK, LinuxMasterSends
  PROVE  Assembly'
<1>1. PICK f \in Frames : MasterSends(f)
  BY DEF LinuxMasterSends
<1>2. f \in Sendable /\ f \in Seq(Byte) /\ 0 \in 0 .. Len(f) /\ f = Rest(f, 0)
  BY SendableSeq, SubSeqFull DEF Sendable, Rest
<1>3. /\ pc = "recv_impl" /\ timer = "off" /\ queue = <<>> /\ frame' = f
      /\ UNCHANGED <<updated, error, prev, curr, rxbuf, pc, chunk, queue>>
  BY <1>1 DEF LinuxMasterSends, MasterSends, Quiet, vars, status, thread
<1>4. curr = "IDLE" /\ chunk = <<>> /\ ~FrameConfirmed
  BY <1>3, IdleWhenWaiting
<1>5. Unread' = Rest(f, 0) /\ owed' = Owing(f)
  <2>1. Unread' = <<>> \o (<<>> \o f)
    BY <1>3, <1>4 DEF Unread
  <2>2. <<>> \o f = f
    BY <1>2, ConcatEmptySeq
  <2> QED
    BY <1>1, <1>2, <2>1, <2>2 DEF MasterSends, Owing
<1>6. ASSUME ~error' PROVE rxbuf' = Part(f, 0, 0)
  <2>1. rxbuf = <<>>
    BY <1>3, <1>4, <1>6 DEF RxbufFree, FrameConfirmed
  <2> QED
    BY <1>2, <1>3, <2>1, NoPart
<1>7. AtTheLine'
  BY <1>3, <1>4 DEF AtTheLine
<1>8. Assembled(f, 0)'
  BY <1>5, <1>6, <1>7 DEF Assembled
<1> QED
  BY <1>2, <1>8 DEF Assembly

(* A timer that is found elapsed tears the frame or ends it. *)
LEMMA AssemblyElapsed ==
  ASSUME ThreadInv, RxbufFree, BytesTypeOK, Assembly, elapsed
  PROVE  Assembly'
<1>1. /\ pc = "timeout_impl" /\ ~error /\ chunk = <<>>
      /\ UNCHANGED <<frame, queue, chunk, rxbuf>>
  BY NoErrorWhenElapsed
  DEF elapsed, timer_silent_interval_cb, timer_inter_frame_timeout_cb
<1>2. Unread' = Unread /\ ~AtTheLine
  BY <1>1 DEF Unread, AtTheLine
<1>3. error' = TRUE \/ rxbuf = <<>> \/ curr' = "EOF" \/ FrameConfirmed'
  <2>1. CASE timer_silent_interval_cb
    BY <1>1, <2>1, NoErrorWhenElapsed
    DEF timer_silent_interval_cb, TimerExpired, RTU_STATE_UPDATE, RTU_STATE_ERROR, RxbufFree,
        FrameConfirmed
  <2>2. CASE timer_inter_frame_timeout_cb
    BY <2>2
    DEF timer_inter_frame_timeout_cb, TimerExpired, RTU_STATE_UPDATE, RTU_STATE_ERROR
  <2> QED
    BY <2>1, <2>2 DEF elapsed
<1>4. CASE Unread = <<>>
  <2>1. owed' = owed
    BY <1>4, UnreadEmpty DEF elapsed
  <2> QED
    BY <1>1, <1>2, <1>3, <2>1, AssemblyKept
<1>5. CASE Unread # <<>>
  BY <1>1, <1>2, <1>3, <1>5, AssemblyTorn
<1> QED
  BY <1>4, <1>5

(* Every step of the thread, the line and the master keeps Assembly. *)
LEMMA LinuxAssembly ==
  ASSUME ThreadInv, RxbufFree, BytesTypeOK, Assembly, [LinuxNext]_linux
  PROVE  Assembly'
<1>0. error \in BOOLEAN /\ (error => updated) /\ ~Inconsistent
  BY DEF ThreadInv, Control, ControlTypeOK, NeverStuck, ChecksNeverFire
<1>1. ASSUME UNCHANGED vars PROVE UNCHANGED <<updated, error, prev, curr, rxbuf>>
  BY <1>1 DEF vars, status
<1>2. CASE LinuxMasterSends
  BY <1>2, AssemblySends
<1>3. CASE ByteArrives
  <2>1. Unread' = Unread
    BY <1>3, UnreadArrives
  <2> QED
    BY <1>1, <1>3, <2>1, AssemblyMoved DEF ByteArrives, thread, AtTheLine
<1>4. CASE recv_impl
  <2>1. /\ pc = "recv_impl" /\ UNCHANGED <<vars, frame, owed>> /\ chunk = <<>>
    BY <1>4 DEF recv_impl, line, ThreadInv, ChunkUsedUp
  <2>2. CASE Fetch
    <3>1. Unread' = Unread /\ (queue # <<>> => chunk' # <<>>) /\ pc' = "recv_loop"
      BY <2>1, <2>2, UnreadFetched DEF Fetch
    <3>2. curr = "IDLE" /\ pc' = "recv_loop" => queue # <<>>
      BY <1>4
      DEF recv_impl, tty_read, ThreadInv, Control, TimerMatchesState
    <3> QED
      BY <1>1, <2>1, <3>1, <3>2, AssemblyMoved DEF AtTheLine
  <2>3. CASE pc' = "returned" /\ UNCHANGED <<queue, chunk>>
    <3>1. Unread' = Unread
      BY <2>1, <2>3 DEF Unread
    <3> QED
      BY <1>1, <2>1, <2>3, <3>1, AssemblyMoved DEF AtTheLine
  <2> QED
    BY <1>4, <2>2, <2>3 DEF recv_impl, tty_read, tty_read_ll
<1>5. CASE recv_loop
  <2>1. pc = "recv_loop" /\ UNCHANGED <<frame, queue, owed>> /\ ~FrameConfirmed
    BY <1>5, ConfirmedAtEvent DEF recv_loop, line
  <2>2. CASE chunk = <<>>
    <3>1. UNCHANGED <<vars, chunk>> /\ ~AtTheLine
      BY <1>5, <2>1, <2>2 DEF recv_loop, AtTheLine
    <3>2. Unread' = Unread
      BY <2>1, <3>1 DEF Unread
    <3> QED
      BY <1>1, <2>1, <3>1, <3>2, AssemblyMoved
  <2>3. CASE chunk # <<>>
    <3>1. chunk' = Tail(chunk) /\ serial_recv_cb(Head(chunk))
      BY <1>5, <2>3 DEF recv_loop
    <3>2. Unread # <<>> /\ Head(Unread) = Head(chunk) /\ Unread' = Tail(Unread)
      BY <2>1, <2>3, <3>1, UnreadReceived
    <3> QED
      BY <2>1, <3>1, <3>2, AssemblyGrows
  <2> QED
    BY <2>2, <2>3
<1>6. CASE RaiseUserEvent \/ UNCHANGED linux
  <2>1. UNCHANGED <<vars, owed, frame, queue, chunk, pc>>
    BY <1>6 DEF RaiseUserEvent, linux, line, thread
  <2>2. Unread' = Unread /\ (AtTheLine => AtTheLine')
    BY <1>1, <2>1 DEF Unread, AtTheLine
  <2> QED
    BY <1>1, <2>1, <2>2, AssemblyMoved
<1>7. ASSUME pc \in {"timeout_impl", "modbus_rtu_event", "send_impl"},
             UNCHANGED <<frame, queue, chunk>>
      PROVE  Unread' = Unread /\ ~AtTheLine
  BY <1>7 DEF Unread, AtTheLine
<1>8. CASE not_elapsed
  <2>1. UNCHANGED <<vars, owed, frame, queue, chunk>> /\ pc = "timeout_impl"
    BY <1>8 DEF not_elapsed, line
  <2> QED
    BY <1>1, <1>7, <2>1, AssemblyMoved
<1>9. CASE elapsed
  BY <1>9, AssemblyElapsed
<1>10. CASE event
  <2>1. UNCHANGED <<frame, queue, chunk>> /\ pc = "modbus_rtu_event"
    BY <1>10 DEF event, Event
  <2>2. Unread' = Unread /\ ~AtTheLine
    BY <1>7, <2>1
  <2>3. CASE ~updated
    BY <1>1, <1>10, <2>2, <2>3, AssemblyMoved DEF event, Event, FrameConfirmed
  <2>4. CASE FrameConfirmed /\ adu_check(rxbuf)
    <3>1. event_frame
      BY <1>0, <1>10, <2>4
      DEF event, Event, modbus_rtu_event, event_error, event_init, event_sof, event_none,
          FrameConfirmed
    <3> QED
      BY <2>2, <2>4, <3>1, AssemblyDelivered DEF event_frame, adu_process, FrameConfirmed
  <2>5. CASE updated /\ ~(FrameConfirmed /\ adu_check(rxbuf))
    <3>1. owed' = owed /\ modbus_rtu_event
      BY <1>10, <2>5 DEF event, Event
    <3>2. CASE event_error \/ event_init \/ event_frame
      BY <2>2, <2>5, <3>1, <3>2, AssemblyKept
      DEF event_error, event_init, event_frame, adu_process, restart, RTU_STATE_ERROR
    <3>3. CASE event_sof \/ event_none
      BY <1>0, <2>2, <3>1, <3>3, AssemblyKept
      DEF event_sof, event_none, FrameConfirmed
    <3> QED
      BY <3>1, <3>2, <3>3 DEF modbus_rtu_event
  <2> QED
    BY <2>3, <2>4, <2>5
<1>11. CASE send_impl
  <2>1. /\ pc = "send_impl" /\ UNCHANGED <<owed, frame, queue, chunk>> /\ ~error
        /\ curr = "BUSY"
    BY <1>11 DEF send_impl, line, ThreadInv, ThreadControl
  <2>2. Unread' = Unread /\ ~AtTheLine
    BY <1>7, <2>1
  <2>3. UNCHANGED rxbuf
    BY <1>1, <1>11 DEF send_impl, serial_sent_cb
  <2> QED
    BY <2>1, <2>2, <2>3, AssemblyKept DEF FrameConfirmed
<1> QED
  BY <1>2, <1>3, <1>4, <1>5, <1>6, <1>8, <1>9, <1>10, <1>11
  DEF LinuxNext, modbus_rtu_run, timeout_impl

----------------------------------------------------------------------------
(* What becomes of a good frame. *)

(* A step that moves bytes or the thread loses nothing. *)
LEMMA ProgressMoved ==
  ASSUME Progress, Unread' = Unread, UNCHANGED <<owed, good, before>>,
         UNCHANGED <<updated, error, prev, curr, rxbuf>>,
         pc = "modbus_rtu_event" => pc' = pc
  PROVE  Progress'
<1>1. FrameConfirmed' = FrameConfirmed
  BY DEF FrameConfirmed
<1>2. (Done => Done') /\ (Lost => Lost')
  BY <1>1 DEF Done, Lost
<1>3. Receiving => Receiving'
  BY <1>1 DEF Receiving, ReceivedUpTo, Good
<1> QED
  BY <1>2, <1>3 DEF Progress

(* A new frame is received by a slave without a pending error; one that meets
   an error is lost, and the frame before it was not good. *)
LEMMA ProgressSends ==
  ASSUME ThreadInv, RxbufFree, BytesTypeOK, Progress, LinuxMasterSends
  PROVE  Progress'
<1>1. PICK f \in Frames : MasterSends(f)
  BY DEF LinuxMasterSends
<1>2. /\ good' = Good(f) /\ before' = good /\ frame' = f /\ frame = <<>>
      /\ owed' = IF Good(f) THEN f ELSE <<>>
      /\ pc = "recv_impl" /\ timer = "off" /\ queue = <<>>
      /\ UNCHANGED <<updated, error, prev, curr, rxbuf, pc, chunk, queue>>
  BY <1>1 DEF LinuxMasterSends, MasterSends, Quiet, vars, status, thread
<1>3. curr = "IDLE" /\ ~FrameConfirmed /\ chunk = <<>> /\ error \in BOOLEAN
  BY <1>2, IdleWhenWaiting DEF ThreadInv, Control, ControlTypeOK
<1>4. Good(f) \in BOOLEAN /\ good \in BOOLEAN
  BY DEF Good, Progress, adu_check
<1>5. Unread = <<>>
  BY <1>2, <1>3, UnreadEmpty
<1>6. good => ~error
  BY <1>2, <1>5 DEF Progress, Done, Receiving, Lost
<1>7. CASE Good(f)
  <2>1. owed' = f /\ good' /\ f \in Seq(Byte) /\ 0 \in 0 .. Len(f) /\ f # <<>>
    BY <1>2, <1>7, GoodFrame
  <2>2. Unread' = f
    <3>1. Unread' = <<>> \o (<<>> \o f)
      BY <1>2, <1>3 DEF Unread
    <3>2. <<>> \o f = f
      BY <2>1, ConcatEmptySeq
    <3> QED
      BY <3>1, <3>2
  <2>3. CASE error
    BY <1>2, <1>4, <1>6, <2>1, <2>2, <2>3 DEF Progress, Lost
  <2>4. CASE ~error
    <3>1. rxbuf = <<>>
      BY <1>3, <2>4 DEF RxbufFree, FrameConfirmed
    <3>2. rxbuf' = Part(f, 0, 0) /\ Unread' = Rest(f, 0)
      BY <1>2, <2>1, <2>2, <3>1, NoPart, SubSeqFull DEF Rest
    <3>3. ReceivedUpTo(0)'
      BY <1>2, <1>3, <2>1, <3>2 DEF ReceivedUpTo, FrameConfirmed
    <3>4. Receiving'
      BY <1>2, <1>7, <2>1, <2>4, <3>3 DEF Receiving, Good
    <3> QED
      BY <1>2, <1>4, <2>1, <3>4 DEF Progress
  <2> QED
    BY <1>3, <2>3, <2>4
<1>8. CASE ~Good(f)
  BY <1>2, <1>4, <1>8 DEF Progress
<1> QED
  BY <1>7, <1>8

(* A timer that is found elapsed ends a frame that has ended, and nothing else
   but a restart; or it tears the frame, which is not good then. *)
LEMMA ProgressElapsed ==
  ASSUME ThreadInv, BytesTypeOK, Progress, elapsed
  PROVE  Progress'
<1>1. /\ ~error /\ chunk = <<>> /\ curr \in {"INIT", "SOF", "RECV", "EOF"}
      /\ timer_cb = "silent" => curr \in {"INIT", "EOF"}
      /\ timer_cb = "inter" => curr \in {"SOF", "RECV"}
      /\ curr = "EOF" => prev = "RECV"
  BY NoErrorWhenElapsed
<1>2. UNCHANGED <<frame, queue, chunk, before>> /\ Unread' = Unread
  BY DEF elapsed, Unread
<1>3. good \in BOOLEAN /\ before \in BOOLEAN
  BY DEF Progress
<1>4. CASE Unread # <<>>
  <2>1. good' = FALSE /\ owed' = <<>>
    BY <1>1, <1>4, UnreadEmpty DEF elapsed
  <2> QED
    BY <1>2, <1>3, <2>1 DEF Progress
<1>5. CASE Unread = <<>>
  <2>1. UNCHANGED <<good, owed>>
    BY <1>3, <1>5, UnreadEmpty DEF elapsed
  <2>2. ASSUME curr = "INIT"
        PROVE  error' = error /\ curr' = "IDLE" /\ ~FrameConfirmed'
    BY <1>1, <2>2
    DEF elapsed, timer_silent_interval_cb, timer_inter_frame_timeout_cb, TimerExpired,
        RTU_STATE_UPDATE, FrameConfirmed
  <2>3. CASE good /\ Done
    <3>1. curr = "INIT"
      BY <1>1, <2>3 DEF Done
    <3> QED
      BY <1>2, <1>3, <2>1, <2>2, <2>3, <3>1 DEF Progress, Done
  <2>4. CASE good /\ Lost
    <3>1. curr = "INIT"
      BY <1>1, <2>4 DEF Lost
    <3> QED
      BY <1>1, <1>2, <1>3, <1>5, <2>1, <2>2, <2>4, <3>1 DEF Progress, Lost
  <2>5. CASE good /\ Receiving
    <3>1. PICK n \in 0 .. Len(owed) : ReceivedUpTo(n)
      BY <2>5 DEF Receiving
    <3>2. owed \in Seq(Byte) /\ Len(owed) \in Nat /\ Len(owed) >= 4
      BY <2>5, GoodFrame DEF Receiving
    <3>3. n = Len(owed)
      BY <1>5, <3>1, <3>2, NoPart DEF ReceivedUpTo
    <3>4. curr \in {"RECV", "EOF"}
      BY <1>1, <3>1, <3>2, <3>3 DEF ReceivedUpTo, FrameConfirmed
    <3>5. /\ rxbuf' = rxbuf /\ error' = error
          /\ curr' = "EOF" \/ (curr' = "IDLE" /\ prev' = "EOF" /\ updated')
      BY <1>1, <3>4
      DEF elapsed, timer_silent_interval_cb, timer_inter_frame_timeout_cb, TimerExpired,
          RTU_STATE_UPDATE
    <3>6. ReceivedUpTo(n)'
      BY <1>1, <1>2, <2>1, <3>1, <3>3, <3>5 DEF ReceivedUpTo, FrameConfirmed
    <3>7. Receiving'
      BY <2>1, <2>5, <3>5, <3>6 DEF Receiving, Good
    <3> QED
      BY <1>2, <1>3, <2>1, <2>5, <3>7 DEF Progress
  <2>6. CASE ~good
    BY <1>2, <1>3, <2>1, <2>6 DEF Progress
  <2> QED
    BY <2>3, <2>4, <2>5, <2>6 DEF Progress
<1> QED
  BY <1>4, <1>5

(* The next byte of a good frame is received, unless the slave has an error or
   waits for the line to be silent. *)
LEMMA ProgressReceives ==
  ASSUME ThreadInv, Progress, Unread # <<>>, Unread' = Tail(Unread),
         serial_recv_cb(Head(Unread)), UNCHANGED <<owed, good, before>>,
         pc' = "modbus_rtu_event"
  PROVE  Progress'
<1>1. error \in BOOLEAN
  BY DEF ThreadInv, Control, ControlTypeOK
<1>2. CASE good /\ Done
  BY <1>2 DEF Done
<1>3. CASE good /\ Receiving
  <2>1. PICK n \in 0 .. Len(owed) : ReceivedUpTo(n)
    BY <1>3 DEF Receiving
  <2>2. /\ owed \in Seq(Byte) /\ Len(owed) \in Nat /\ Len(owed) <= RXBUF_CAPACITY
        /\ owed \in Frames /\ Good(owed) /\ ~error
    BY <1>3, GoodFrame DEF Receiving
  <2>3. /\ Unread = Rest(owed, n) /\ rxbuf = Part(owed, 0, n)
        /\ n # Len(owed)
    BY <2>1, <2>2, NoPart DEF ReceivedUpTo
  <2>4. /\ n + 1 \in 0 .. Len(owed) /\ n \in 0 .. Len(owed) - 1
        /\ Head(Unread) = owed[n + 1] /\ Unread' = Rest(owed, n + 1)
    BY <2>2, <2>3, RestStep
  <2>5. 0 \in 0 .. n /\ n - 0 = n
    OBVIOUS
  <2>6. Len(rxbuf) = n
    BY <2>2, <2>3, <2>5, PartType
  <2>7. Append(rxbuf, Head(Unread)) = Part(owed, 0, n + 1)
    BY <2>2, <2>3, <2>4, <2>5, PartStep
  <2>8. Len(rxbuf) < RXBUF_CAPACITY
    BY <2>2, <2>4, <2>6, CapacityAssumption
  <2>9. \/ n = 0 /\ curr = "IDLE"
        \/ n = 1 /\ curr = "SOF"
        \/ n > 1 /\ curr = "RECV"
    BY <2>1, <2>3 DEF ReceivedUpTo
  <2>10. /\ error' = error /\ rxbuf' = Append(rxbuf, Head(Unread))
         /\ \/ n = 0 /\ curr' = "SOF"
            \/ n > 0 /\ curr' = "RECV"
    BY <2>8, <2>9 DEF serial_recv_cb, rxbuf_append, RTU_STATE_UPDATE
  <2>11. ReceivedUpTo(n + 1)'
    BY <2>4, <2>7, <2>10 DEF ReceivedUpTo
  <2>12. Receiving'
    BY <2>2, <2>4, <2>10, <2>11 DEF Receiving, Good
  <2> QED
    BY <1>3, <2>12 DEF Progress
<1>4. CASE good /\ Lost
  <2>1. error'
    BY <1>1, <1>4 DEF Lost, serial_recv_cb, rxbuf_append, RTU_STATE_ERROR
  <2> QED
    BY <1>4, <2>1 DEF Progress, Lost
<1>5. CASE ~good
  BY <1>5 DEF Progress
<1> QED
  BY <1>2, <1>3, <1>4, <1>5 DEF Progress

(* A call of modbus_rtu_event hands a good frame that is complete to pdu_cb, and
   loses none that is not. *)
LEMMA ProgressEvent ==
  ASSUME ThreadInv, Progress, Event, Unread' = Unread
  PROVE  Progress'
<1>1. /\ UNCHANGED <<good, before>> /\ good \in BOOLEAN /\ before \in BOOLEAN
      /\ owed' = IF FrameConfirmed /\ adu_check(rxbuf) THEN <<>> ELSE owed
  BY DEF Event, Progress
<1>2. error \in BOOLEAN /\ (error => updated) /\ ~Inconsistent
  BY DEF ThreadInv, Control, ControlTypeOK, NeverStuck, ChecksNeverFire
<1>3. CASE ~good
  BY <1>1, <1>3 DEF Progress
<1>4. CASE good /\ ~FrameConfirmed
  <2>1. owed' = owed
    BY <1>1, <1>4
  <2>2. CASE error
    <3>1. Lost
      BY <1>4, <2>2 DEF Progress, Done, Receiving
    <3>2. event_error
      BY <1>2, <2>2
      DEF Event, modbus_rtu_event, event_init, event_frame, event_sof, event_none,
          FrameConfirmed
    <3> QED
      BY <1>1, <1>4, <2>1, <3>1, <3>2 DEF Progress, Lost, event_error
  <2>3. CASE ~error
    <3>1. /\ ~error' /\ curr' = curr /\ ~FrameConfirmed'
          /\ rxbuf' = rxbuf \/ curr = "INIT"
      BY <1>2, <1>4, <2>3
      DEF Event, modbus_rtu_event, event_error, event_init, event_frame, event_sof,
          event_none, FrameConfirmed, vars, status
    <3>2. Done => Done'
      BY <2>1, <3>1 DEF Done
    <3>3. Lost => Lost'
      BY <1>1, <2>1, <2>3, <3>1 DEF Lost
    <3>4. ASSUME Receiving PROVE Receiving'
      <4>1. PICK n \in 0 .. Len(owed) : ReceivedUpTo(n)
        BY <3>4 DEF Receiving
      <4>2. ReceivedUpTo(n)'
        BY <1>4, <2>1, <3>1, <4>1 DEF ReceivedUpTo, FrameConfirmed
      <4> QED
        BY <2>1, <3>1, <3>4, <4>2 DEF Receiving, Good
    <3> QED
      BY <1>1, <1>4, <3>2, <3>3, <3>4 DEF Progress
  <2> QED
    BY <1>2, <2>2, <2>3
<1>5. CASE good /\ FrameConfirmed
  <2>1. Receiving
    BY <1>5 DEF Progress, Done, Lost, FrameConfirmed
  <2>2. PICK n \in 0 .. Len(owed) : ReceivedUpTo(n)
    BY <2>1 DEF Receiving
  <2>3. n = Len(owed) /\ owed \in Seq(Byte)
    BY <1>5, <2>1, <2>2, GoodFrame DEF ReceivedUpTo, FrameConfirmed, Receiving
  <2>4. rxbuf = owed /\ Unread = <<>>
    BY <2>2, <2>3, SubSeqFull, NoPart DEF ReceivedUpTo, Part
  <2>5. adu_check(rxbuf)
    BY <2>1, <2>4 DEF Receiving, Good
  <2>6. event_frame
    BY <1>2, <1>5
    DEF Event, modbus_rtu_event, event_error, event_init, event_sof, event_none,
        FrameConfirmed
  <2>7. error' = error /\ ((updated' = FALSE /\ curr' = curr) \/ curr' = "BUSY")
    BY <2>5, <2>6 DEF event_frame, adu_process, RTU_STATE_UPDATE
  <2>8. Done'
    BY <1>1, <1>5, <2>4, <2>5, <2>7 DEF Done, FrameConfirmed
  <2> QED
    BY <1>1, <1>5, <2>8 DEF Progress
<1> QED
  BY <1>1, <1>3, <1>4, <1>5

(* Every step of the thread, the line and the master keeps Progress. *)
LEMMA LinuxProgress ==
  ASSUME ThreadInv, RxbufFree, BytesTypeOK, Progress, [LinuxNext]_linux
  PROVE  Progress'
<1>1. ASSUME UNCHANGED vars PROVE UNCHANGED <<updated, error, prev, curr, rxbuf>>
  BY <1>1 DEF vars, status
<1>2. CASE LinuxMasterSends
  BY <1>2, ProgressSends
<1>3. CASE ByteArrives
  BY <1>1, <1>3, UnreadArrives, ProgressMoved DEF ByteArrives, thread
<1>4. CASE recv_impl
  <2>1. /\ pc = "recv_impl" /\ UNCHANGED <<vars, frame, owed, good, before>> /\ chunk = <<>>
    BY <1>4 DEF recv_impl, line, ThreadInv, ChunkUsedUp
  <2>2. Unread' = Unread
    <3>1. CASE Fetch
      BY <2>1, <3>1, UnreadFetched
    <3>2. CASE UNCHANGED <<queue, chunk>>
      BY <2>1, <3>2 DEF Unread
    <3> QED
      BY <1>4, <3>1, <3>2 DEF recv_impl, tty_read, tty_read_ll
  <2> QED
    BY <1>1, <2>1, <2>2, ProgressMoved
<1>5. CASE recv_loop
  <2>1. pc = "recv_loop" /\ UNCHANGED <<frame, queue, owed, good, before>>
    BY <1>5 DEF recv_loop, line
  <2>2. CASE chunk = <<>>
    <3>1. UNCHANGED <<vars, chunk>>
      BY <1>5, <2>2 DEF recv_loop
    <3>2. Unread' = Unread
      BY <2>1, <3>1 DEF Unread
    <3> QED
      BY <1>1, <2>1, <3>1, <3>2, ProgressMoved
  <2>3. CASE chunk # <<>>
    <3>1. chunk' = Tail(chunk) /\ serial_recv_cb(Head(chunk)) /\ pc' = "modbus_rtu_event"
      BY <1>5, <2>3 DEF recv_loop
    <3>2. Unread # <<>> /\ Head(Unread) = Head(chunk) /\ Unread' = Tail(Unread)
      BY <2>1, <2>3, <3>1, UnreadReceived
    <3> QED
      BY <2>1, <3>1, <3>2, ProgressReceives
  <2> QED
    BY <2>2, <2>3
<1>6. CASE RaiseUserEvent \/ not_elapsed \/ UNCHANGED linux
  <2>1. /\ UNCHANGED <<vars, owed, good, before, frame, queue, chunk>>
        /\ pc = "modbus_rtu_event" => pc' = pc
    BY <1>6 DEF RaiseUserEvent, not_elapsed, linux, line, thread
  <2>2. Unread' = Unread
    BY <2>1 DEF Unread
  <2> QED
    BY <1>1, <2>1, <2>2, ProgressMoved
<1>7. CASE elapsed
  BY <1>7, ProgressElapsed
<1>8. CASE event
  <2>1. Unread' = Unread /\ Event
    BY <1>8 DEF event, Event, Unread
  <2> QED
    BY <2>1, ProgressEvent
<1>9. CASE send_impl
  <2>1. /\ pc = "send_impl" /\ UNCHANGED <<owed, good, before, frame, queue, chunk>>
        /\ curr = "BUSY" /\ ~error
    BY <1>9 DEF send_impl, line, ThreadInv, ThreadControl
  <2>2. Unread' = Unread
    BY <2>1 DEF Unread
  <2>3. CASE UNCHANGED vars
    BY <1>1, <2>1, <2>2, <2>3, ProgressMoved
  <2>4. CASE serial_sent_cb
    <3>1. curr' = "INIT" /\ error' = error
      BY <2>1, <2>4 DEF serial_sent_cb, RTU_STATE_UPDATE
    <3>2. good => Done
      BY <2>1 DEF Progress, Receiving, ReceivedUpTo, Lost, FrameConfirmed
    <3> QED
      BY <2>1, <2>2, <3>1, <3>2 DEF Progress, Done, FrameConfirmed
  <2> QED
    BY <1>9, <2>3, <2>4 DEF send_impl
<1> QED
  BY <1>2, <1>3, <1>4, <1>5, <1>6, <1>7, <1>8, <1>9
  DEF LinuxNext, modbus_rtu_run, timeout_impl

(* What is owed is a frame. *)
LEMMA LinuxOwed ==
  ASSUME owed \in Sendable, [LinuxNext]_linux
  PROVE  owed' \in Sendable
<1>1. owed' = owed \/ owed' = <<>> \/ \E f \in Frames : owed' = f
  BY DEF LinuxNext, linux, line, LinuxMasterSends, MasterSends, ByteArrives, RaiseUserEvent,
         modbus_rtu_run, recv_impl, recv_loop, timeout_impl, not_elapsed, elapsed, event, Event,
         send_impl
<1> QED
  BY <1>1 DEF Sendable

----------------------------------------------------------------------------
(* The theorems. *)

(* modbus_rtu_run starts idle, with a silent line. *)
LEMMA LinuxInitInv == LinuxInit => LinuxInv
<1> SUFFICES ASSUME LinuxInit PROVE LinuxInv
  OBVIOUS
<1> USE DEF LinuxInit, LineInit
<1>1. IInv
  BY InitIInv
<1>2. RxbufFree /\ ThreadControl /\ ChunkUsedUp
  BY DEF Init, RxbufFree, ThreadControl, EventsKeepUp, ChunkUsedUp, FrameConfirmed
<1>3. <<>> \in Sendable /\ <<>> \in Seq(Byte) /\ 0 \in 0 .. Len(<<>>) /\ Len(<<>>) = 0
  BY EmptyBuffer DEF Sendable
<1>4. Rest(<<>>, 0) = <<>> /\ Part(<<>>, 0, 0) = <<>> /\ Owing(<<>>) = <<>>
  BY <1>3, NoPart DEF Owing
<1>5. BytesTypeOK
  BY <1>3, <1>4, ReadAssumption DEF BytesTypeOK
<1>6. Unread = <<>>
  BY <1>5, UnreadEmpty
<1>7. Assembly
  <2>1. Assembled(<<>>, 0)
    BY <1>4, <1>6 DEF Assembled, Init
  <2> QED
    BY <1>3, <2>1 DEF Assembly
<1>8. Progress
  BY <1>6 DEF Progress, Done, Init, FrameConfirmed
<1> QED
  BY <1>1, <1>2, <1>3, <1>5, <1>7, <1>8 DEF LinuxInv

(* Every step keeps the invariant. *)
LEMMA LinuxNextInv == LinuxInv /\ [LinuxNext]_linux => LinuxInv'
<1> SUFFICES ASSUME LinuxInv, [LinuxNext]_linux PROVE LinuxInv'
  OBVIOUS
<1>1. ThreadInv
  BY DEF LinuxInv, IInv, ThreadInv
<1>2. [Next]_vars
  BY LinuxStep DEF LinuxInv
<1>3. IInv' /\ RxbufFree'
  BY <1>2, NextControl, NextBuffers, NextRxbufFree DEF LinuxInv, IInv
<1>4. ThreadInv' /\ BytesTypeOK'
  BY <1>1, LinuxThread, LinuxBytes DEF LinuxInv
<1>5. Assembly' /\ Progress' /\ owed' \in Sendable
  BY <1>1, LinuxAssembly, LinuxProgress, LinuxOwed DEF LinuxInv
<1> QED
  BY <1>3, <1>4, <1>5 DEF LinuxInv, ThreadInv

(* The inductive invariant holds in every reachable state of the Linux slave. *)
THEOREM LinuxInvariance == LinuxSpec => []LinuxInv
  BY LinuxInitInv, LinuxNextInv, PTL DEF LinuxSpec

(* The Linux slave implements the core: whatever its thread does, the core alone
   may do (so that every theorem about the core holds of the slave). *)
THEOREM LinuxImplementsCore == LinuxSpec => Spec
<1>1. LinuxInit => Init
  BY DEF LinuxInit
<1>2. LinuxInv /\ [LinuxNext]_linux => [Next]_vars
  BY LinuxStep DEF LinuxInv
<1> QED
  BY <1>1, <1>2, LinuxInvariance, PTL DEF LinuxSpec, Spec

LEMMA LinuxInvTyped == ASSUME LinuxInv PROVE LinuxTypeOK
<1>1. TypeOK
  BY DEF LinuxInv, IInv, Control, TypeOK
<1>2. good \in BOOLEAN /\ before \in BOOLEAN /\ owed \in Sendable
  BY DEF LinuxInv, Progress
<1>3. LineTypeOK
  BY <1>2 DEF LinuxInv, BytesTypeOK, LineTypeOK, Sendable, Rest
<1> QED
  BY <1>1, <1>3 DEF LinuxInv, ThreadControl, BytesTypeOK, LinuxTypeOK

(* The state keeps its types: the thread never reads more than buf takes, and
   never fills rxbuf or txbuf beyond its end. *)
THEOREM LinuxTypeCorrect == LinuxSpec => []LinuxTypeOK
<1>1. LinuxInv => LinuxTypeOK
  BY LinuxInvTyped
<1> QED
  BY <1>1, LinuxInvariance, PTL

(* modbus_rtu_event has dealt with every callback when the thread reads or looks
   at its timer. *)
THEOREM ThreadKeepsUp == LinuxSpec => []EventsKeepUp
<1>1. LinuxInv => EventsKeepUp
  BY DEF LinuxInv, ThreadControl
<1> QED
  BY LinuxInvariance, <1>1, PTL

(* The thread waits without a timeout, and modbus_rtu_run returns, in IDLE
   alone. *)
THEOREM WaitIsSafe == LinuxSpec => []WaitsOnlyInIdle
<1>1. LinuxInv => WaitsOnlyInIdle
  <2> SUFFICES ASSUME LinuxInv, (pc = "recv_impl" /\ timer = "off") \/ pc = "returned"
               PROVE  curr = "IDLE" /\ ~sending /\ chunk = <<>>
    BY DEF WaitsOnlyInIdle
  <2>1. ThreadInv
    BY DEF LinuxInv, IInv, ThreadInv
  <2>2. CASE pc = "returned"
    BY <2>1, <2>2 DEF ThreadInv, ThreadControl, ChunkUsedUp
  <2> QED
    BY <2>1, <2>2, IdleWhenWaiting
<1> QED
  BY LinuxInvariance, <1>1, PTL

(* pdu_cb gets what the master sent, byte for byte, whatever was received, torn
   or rejected before. *)
THEOREM LinuxDeliversTheFrame == LinuxSpec => []PduCbSeesTheFrame
<1>1. LinuxInv => PduCbSeesTheFrame
  <2> SUFFICES ASSUME LinuxInv, FrameConfirmed, adu_check(rxbuf) PROVE rxbuf = owed
    BY DEF PduCbSeesTheFrame
  <2>1. PICK f \in Sendable : \E n \in 0 .. Len(f) : Assembled(f, n)
    BY DEF LinuxInv, Assembly
  <2>2. PICK n \in 0 .. Len(f) : Assembled(f, n)
    BY <2>1
  <2>3. PICK i \in 0 .. n :
          /\ rxbuf = Part(f, i, n)
          /\ i = 0 => \/ owed = Owing(f)
                      \/ n < Len(f) /\ (curr = "EOF" \/ FrameConfirmed)
    BY <2>2 DEF Assembled, FrameConfirmed
  <2>4. n = Len(f)
    BY <2>3, OnlyWholeFrames
  <2>5. i = 0 => owed = Owing(f)
    BY <2>3, <2>4, SendableSeq
  <2> QED
    BY <2>3, <2>5, WholeFrameIsOwed DEF LinuxInv, IInv
<1> QED
  BY LinuxInvariance, <1>1, PTL

(* A good frame is lost only after a bad or torn one: two good frames in a row,
   of any length that rxbuf holds, read in chunks of any size, are both
   processed. *)
THEOREM LinuxLosesNothingElse == LinuxSpec => []LossOnlyAfterBadFrame
<1>1. LinuxInv => LossOnlyAfterBadFrame
  <2> SUFFICES ASSUME LinuxInv, Quiet, owed # <<>> PROVE ~before
    BY DEF LossOnlyAfterBadFrame
  <2>1. curr = "IDLE" /\ ~FrameConfirmed /\ chunk = <<>>
    BY IdleWhenWaiting DEF LinuxInv, IInv, ThreadInv, Quiet
  <2>2. Unread = <<>>
    BY <2>1, UnreadEmpty DEF LinuxInv, Quiet
  <2>3. ~Receiving
    <3> SUFFICES ASSUME Receiving PROVE FALSE
      OBVIOUS
    <3>1. PICK n \in 0 .. Len(owed) : ReceivedUpTo(n)
      BY DEF Receiving
    <3>2. n = 0 /\ owed \in Seq(Byte) /\ Len(owed) >= 4
      BY <2>1, <3>1, GoodFrame DEF Receiving, ReceivedUpTo
    <3> QED
      BY <2>2, <3>1, <3>2, NoPart DEF ReceivedUpTo
  <2> QED
    BY <2>3 DEF LinuxInv, Progress, Done, Lost
<1> QED
  BY LinuxInvariance, <1>1, PTL

============================================================================
