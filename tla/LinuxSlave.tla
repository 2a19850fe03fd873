----------------------------- MODULE LinuxSlave -----------------------------
(***************************************************************************)
(* The Linux slave of linux/rtu_impl.c: one thread that alternates between *)
(* reading the tty and looking at a software timer, and that calls         *)
(* modbus_rtu_event after each callback of the core.  The kernel queues    *)
(* the bytes of the line meanwhile.  serial_send writes the reply, waits   *)
(* until it is out and runs serial_sent_cb and a nested modbus_rtu_event   *)
(* before the modbus_rtu_event that sent it returns.                       *)
(*                                                                         *)
(* The bit rate is one at which 1.5t is longer than a byte (19200 and up). *)
(***************************************************************************)
EXTENDS Line

CONSTANT READ_CAPACITY   \* sizeof(buf) in recv_impl

ASSUME ReadAssumption == READ_CAPACITY \in Nat \ {0}

VARIABLES
    pc,          \* the function the thread is about to run or go on with
    caller,      \* where modbus_rtu_event returns to
    queue,       \* the bytes the kernel holds
    chunk,       \* the bytes of buf that serial_recv_cb has not seen
    user_event   \* the application asks modbus_rtu_run to return

thread == <<pc, caller, chunk>>
linux  == <<vars, line, thread, queue, user_event>>

(* The state has its types: the thread is at a known place, it reads no more
   than its buffer takes, and rxbuf and txbuf are within their capacity. *)
LinuxTypeOK ==
    /\ TypeOK
    /\ LineTypeOK
    /\ pc \in {"modbus_rtu_event", "recv_impl", "recv_loop", "timeout_impl",
               "send_impl", "returned", "aborted"}
    /\ caller \in {"recv_impl", "recv_loop"}
    /\ queue \in Seq(Byte)
    /\ chunk \in Seq(Byte) /\ Len(chunk) <= READ_CAPACITY
    /\ user_event \in BOOLEAN

(* modbus_rtu_run up to its first modbus_rtu_event. *)
LinuxInit ==
    /\ Init
    /\ LineInit
    /\ pc = "modbus_rtu_event"
    /\ caller = "recv_impl"
    /\ queue = <<>>
    /\ chunk = <<>>
    /\ user_event = FALSE

----------------------------------------------------------------------------
(* The line and the application. *)

(* The slave waits in tty_read for a byte that is not on its way. *)
Quiet == pc = "recv_impl" /\ timer = "off" /\ queue = <<>> /\ frame = <<>>

LinuxMasterSends ==
    /\ Quiet
    /\ \E f \in Frames : MasterSends(f)
    /\ UNCHANGED <<vars, thread, queue, user_event>>

ByteArrives ==
    /\ frame # <<>>
    /\ frame' = Tail(frame)
    /\ queue' = Append(queue, Head(frame))
    /\ UNCHANGED <<vars, thread, user_event, owed, good, before>>

RaiseUserEvent ==
    /\ ~user_event
    /\ user_event' = TRUE
    /\ UNCHANGED <<vars, line, thread, queue>>

----------------------------------------------------------------------------
(* The thread. *)

(* A mutant of Fetch that flushes what does not fit into the buffer. *)
FetchAndFlush ==
    LET n == IF Len(queue) < READ_CAPACITY THEN Len(queue) ELSE READ_CAPACITY
    IN  /\ chunk' = SubSeq(queue, 1, n)
        /\ queue' = <<>>
        /\ pc' = "recv_loop"

(* read(): what is there, up to the size of the buffer. *)
Fetch ==
    LET n == IF Len(queue) < READ_CAPACITY THEN Len(queue) ELSE READ_CAPACITY
    IN  /\ chunk' = SubSeq(queue, 1, n)
        /\ queue' = SubSeq(queue, n + 1, Len(queue))
        /\ pc' = "recv_loop"

(* With timeout -1 tty_read waits for a byte or for the user event, in this
   order. *)
tty_read ==
    \/ queue # <<>> /\ Fetch
    \/ queue = <<>> /\ user_event /\ pc' = "returned" /\ UNCHANGED <<queue, chunk>>

(* tty_read_ll returns with bytes or, after the timer's interval, without. *)
tty_read_ll == Fetch

(* A mutant of recv_impl that forgets the end of the 1.5t interval. *)
ReceiveWithout1t5 ==
    /\ pc = "recv_impl"
    /\ IF timer # "3t5" THEN tty_read ELSE tty_read_ll
    /\ UNCHANGED <<vars, line, caller, user_event>>

recv_impl ==
    /\ pc = "recv_impl"
    /\ IF timer = "off" THEN tty_read ELSE tty_read_ll
    /\ UNCHANGED <<vars, line, caller, user_event>>

(* A mutant of recv_loop that calls modbus_rtu_event once for all the bytes. *)
EventPerChunk ==
    /\ pc = "recv_loop"
    /\ \/ /\ chunk # <<>>
          /\ serial_recv_cb(Head(chunk))
          /\ chunk' = Tail(chunk)
          /\ pc' = IF Len(chunk) = 1 THEN "modbus_rtu_event" ELSE "recv_loop"
          /\ caller' = "recv_loop"
       \/ /\ chunk = <<>>
          /\ pc' = "timeout_impl"
          /\ UNCHANGED <<vars, caller, chunk>>
    /\ UNCHANGED <<line, queue, user_event>>

(* The loop of recv_impl over the bytes it has read. *)
recv_loop ==
    /\ pc = "recv_loop"
    /\ \/ /\ chunk # <<>>
          /\ serial_recv_cb(Head(chunk))
          /\ chunk' = Tail(chunk)
          /\ pc' = "modbus_rtu_event"
          /\ caller' = "recv_loop"
       \/ /\ chunk = <<>>
          /\ pc' = "timeout_impl"
          /\ UNCHANGED <<vars, caller, chunk>>
    /\ UNCHANGED <<line, queue, user_event>>

(* The timer is stopped or its interval has not elapsed, by a clock that may
   have been set back. *)
not_elapsed ==
    /\ pc = "timeout_impl"
    /\ pc' = "recv_impl"
    /\ UNCHANGED <<vars, line, caller, chunk, queue, user_event>>

(* The interval is over when the line has been silent for long enough; or when
   a byte has come after the last read, the thread being late; or when someone
   has set the clock forward, timestamp_us being the time of day.  The last two
   tear the frame that is on its way. *)
elapsed ==
    /\ pc = "timeout_impl"
    /\ timer_silent_interval_cb \/ timer_inter_frame_timeout_cb
    /\ pc' = "modbus_rtu_event"
    /\ caller' = "recv_impl"
    /\ LET torn == frame # <<>> \/ queue # <<>> IN
         /\ good' = (good /\ ~torn)
         /\ owed' = IF torn THEN <<>> ELSE owed
    /\ UNCHANGED <<frame, before, chunk, queue, user_event>>

timeout_impl == not_elapsed \/ elapsed

(* A call of modbus_rtu_event goes on in send_impl when there is a reply. *)
event ==
    /\ pc = "modbus_rtu_event"
    /\ Event
    /\ pc' = IF sending' THEN "send_impl" ELSE caller
    /\ UNCHANGED <<caller, chunk, queue, user_event>>

(* A mutant of send_impl that leaves the restart to a later modbus_rtu_event. *)
SendWithoutEvent ==
    /\ pc = "send_impl"
    /\ \/ serial_sent_cb /\ pc' = caller
       \/ pc' = "aborted" /\ UNCHANGED vars
    /\ UNCHANGED <<line, caller, chunk, queue, user_event>>

(* The reply is written and drained, and serial_sent_cb is followed by the
   nested modbus_rtu_event.  A write that times out ends the program. *)
send_impl ==
    /\ pc = "send_impl"
    /\ \/ serial_sent_cb /\ pc' = "modbus_rtu_event"
       \/ pc' = "aborted" /\ UNCHANGED vars
    /\ UNCHANGED <<line, caller, chunk, queue, user_event>>

modbus_rtu_run == recv_impl \/ recv_loop \/ timeout_impl \/ event \/ send_impl

LinuxNext ==
    \/ LinuxMasterSends
    \/ ByteArrives
    \/ RaiseUserEvent
    \/ modbus_rtu_run

(* The thread runs, the line delivers its bytes, and time passes: a timer that
   is looked at again and again is found elapsed. *)
LinuxSpec ==
    /\ LinuxInit
    /\ [][LinuxNext]_linux
    /\ WF_linux(modbus_rtu_run)
    /\ WF_linux(ByteArrives)
    /\ SF_linux(elapsed)

----------------------------------------------------------------------------
(* One event per callback, the nested one included: when the thread reads or
   looks at its timer, modbus_rtu_event has dealt with every callback so far.
   The one thing it may have left for later is the error of a frame that
   adu_process has rejected (rtu.c:195). *)
EventsKeepUp ==
    pc \in {"recv_impl", "recv_loop", "timeout_impl"} /\ updated =>
        error /\ curr = "IDLE" /\ prev = "EOF"

(* The thread waits in tty_read without a timeout, and modbus_rtu_run returns,
   in IDLE alone, after the reply is out: never in a state that only the timer
   or the transmitter can end. *)
WaitsOnlyInIdle ==
    (pc = "recv_impl" /\ timer = "off") \/ pc = "returned" =>
        curr = "IDLE" /\ ~sending /\ chunk = <<>>

(* A good frame that follows a good frame is always processed: when the slave
   waits again, a frame is unprocessed only if the one before was bad, or torn
   by a thread that was late. *)
LossOnlyAfterBadFrame == Quiet /\ owed # <<>> => ~before

(* Every frame ends with the slave in IDLE, waiting for the next one, unless
   the program has ended. *)
FrameEndsInTtyRead ==
    frame # <<>> ~> (Quiet /\ curr = "IDLE") \/ pc \in {"returned", "aborted"}

============================================================================
