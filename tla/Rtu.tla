-------------------------------- MODULE Rtu --------------------------------
(***************************************************************************)
(* The Modbus RTU slave core of rtu.c: the framing state machine driven by *)
(* the timer, receive and transmit-complete callbacks, and the handler     *)
(* modbus_rtu_event that reacts to the state the callbacks left behind.    *)
(*                                                                         *)
(* Every callback and every call of modbus_rtu_event is one atomic action: *)
(* the callbacks run in interrupt handlers (or in the single thread of the *)
(* Linux port) and modbus_rtu_event runs with interrupts disabled          *)
(* (rtu.c:246).  Between two calls of modbus_rtu_event any number of       *)
(* callbacks may run.  The platform is the most general one: an armed      *)
(* timer may expire, a byte may arrive, the transmitter may finish and the *)
(* main loop may call modbus_rtu_event, in any order.                      *)
(***************************************************************************)
EXTENDS Integers, Sequences

CONSTANTS
    Byte,             \* the values of a received or transmitted byte
    RXBUF_CAPACITY,   \* rtu.h:301-305
    TXBUF_CAPACITY,   \* rtu.h:307-311
    CalcCrc(_),       \* modbus_rtu_calc_crc: the <<low, high>> CRC of a byte range
    Replies           \* what pdu_cb may answer, before the CRC; <<>> is no answer

(* 1 (address) + 1 (function code) + 2 (CRC), rtu.h:172 *)
ADU_MIN_SIZE == 4

ASSUME CapacityAssumption ==
    /\ RXBUF_CAPACITY \in Nat \ {0}
    /\ TXBUF_CAPACITY \in Nat

ASSUME CrcAssumption == \A r \in Replies : CalcCrc(r) \in Byte \X Byte

(* pdu_cb writes between dst_begin and dst_end = txbuf + TXBUF_CAPACITY - 2
   (rtu.c:173): the contract of the application's callback. *)
ASSUME RepliesAssumption ==
    /\ Replies \subseteq Seq(Byte)
    /\ \A r \in Replies : Len(r) + 2 <= TXBUF_CAPACITY

States == {"INIT", "IDLE", "SOF", "RECV", "EOF", "BUSY"}

VARIABLES
    updated,    \* status.bits.updated
    error,      \* status.bits.error
    prev,       \* status.bits.prev
    curr,       \* status.bits.curr
    rxbuf,      \* rxbuf[0 .. rxbuf_curr)
    txbuf,      \* txbuf[0 .. txbuf_curr)
    timer_cb,   \* the installed timer callback
    timer,      \* the platform's timer: stopped, or armed for 1.5t or 3.5t
    sending,    \* the platform's transmitter has not finished yet
    suspended   \* the application was told to suspend (and not yet to resume)

status   == <<updated, error, prev, curr>>
platform == <<timer, sending>>
vars     == <<status, rxbuf, txbuf, timer_cb, platform, suspended>>

ControlTypeOK ==
    /\ updated \in BOOLEAN
    /\ error \in BOOLEAN
    /\ prev \in States
    /\ curr \in States
    /\ timer_cb \in {"null", "silent", "inter"}
    /\ timer \in {"off", "1t5", "3t5"}
    /\ sending \in BOOLEAN
    /\ suspended \in BOOLEAN

BuffersTypeOK ==
    /\ rxbuf \in Seq(Byte)
    /\ Len(rxbuf) <= RXBUF_CAPACITY
    /\ txbuf \in Seq(Byte)
    /\ Len(txbuf) <= TXBUF_CAPACITY

(* The status word and the platform's state have their types, and no callback
   writes past the end of rxbuf or txbuf. *)
TypeOK == ControlTypeOK /\ BuffersTypeOK

(* modbus_rtu_init, called before the platform enables its interrupts. *)
Init ==
    /\ updated = TRUE
    /\ error = FALSE
    /\ prev = "INIT"
    /\ curr = "INIT"
    /\ rxbuf = <<>>
    /\ txbuf = <<>>
    /\ timer_cb = "null"
    /\ timer = "off"
    /\ sending = FALSE
    /\ suspended = FALSE

----------------------------------------------------------------------------
(* The status word and the platform's operations. *)

RTU_STATE_UPDATE(s) ==
    /\ updated' = TRUE
    /\ prev' = curr
    /\ curr' = s

RTU_STATE_ERROR ==
    /\ updated' = TRUE
    /\ error' = TRUE

timer_start(t) == timer' = t

timer_stop == timer' = "off"

(* Restarts the countdown and keeps the interval. *)
timer_reset == timer' = timer

serial_send == sending' = TRUE

----------------------------------------------------------------------------
(* The timer callbacks.  They run only from the armed timer. *)

TimerExpired(cb) == timer # "off" /\ timer_cb = cb

(* INIT -> IDLE and EOF -> IDLE, one effect for the two branches of the code. *)
timer_silent_interval_cb ==
    /\ TimerExpired("silent")
    /\ IF curr = "INIT" \/ (prev = "RECV" /\ curr = "EOF")
         THEN RTU_STATE_UPDATE("IDLE") /\ timer_stop /\ UNCHANGED error
         ELSE RTU_STATE_ERROR /\ UNCHANGED <<prev, curr, timer>>
    /\ UNCHANGED <<rxbuf, txbuf, timer_cb, sending, suspended>>

(* A mutant of timer_inter_frame_timeout_cb that confirms the end of the frame
   with the interval that has just elapsed. *)
InterFrameKeepsTimer ==
    /\ TimerExpired("inter")
    /\ IF curr = "RECV"
         THEN RTU_STATE_UPDATE("EOF") /\ timer_cb' = "silent" /\ timer_reset
                /\ UNCHANGED error
         ELSE RTU_STATE_ERROR /\ UNCHANGED <<prev, curr, timer, timer_cb>>
    /\ UNCHANGED <<rxbuf, txbuf, sending, suspended>>

(* A mutant of timer_inter_frame_timeout_cb that writes the whole status word,
   the error bit included. *)
InterFrameClearsError ==
    /\ TimerExpired("inter")
    /\ IF curr = "RECV"
         THEN RTU_STATE_UPDATE("EOF") /\ timer_cb' = "silent"
                /\ timer_start("3t5") /\ error' = FALSE
         ELSE RTU_STATE_ERROR /\ UNCHANGED <<prev, curr, timer, timer_cb>>
    /\ UNCHANGED <<rxbuf, txbuf, sending, suspended>>

(* Inter-character gap of 1.5t: in RECV a possible end of frame, to be
   confirmed by another 3.5t; in SOF (a frame of one byte) an error. *)
timer_inter_frame_timeout_cb ==
    /\ TimerExpired("inter")
    /\ IF curr = "RECV"
         THEN /\ RTU_STATE_UPDATE("EOF")
              /\ timer_cb' = "silent"
              /\ timer_start("3t5")
              /\ UNCHANGED error
         ELSE RTU_STATE_ERROR /\ UNCHANGED <<prev, curr, timer, timer_cb>>
    /\ UNCHANGED <<rxbuf, txbuf, sending, suspended>>

----------------------------------------------------------------------------
(* The serial callbacks. *)

(* A mutant of rxbuf_append with an off-by-one in its bound. *)
AppendOffByOne(data) ==
    IF Len(rxbuf) <= RXBUF_CAPACITY
      THEN rxbuf' = Append(rxbuf, data) /\ UNCHANGED error
      ELSE error' = TRUE /\ UNCHANGED rxbuf

(* Called after RTU_STATE_UPDATE, which has set updated already. *)
rxbuf_append(data) ==
    IF Len(rxbuf) < RXBUF_CAPACITY
      THEN rxbuf' = Append(rxbuf, data) /\ UNCHANGED error
      ELSE error' = TRUE /\ UNCHANGED rxbuf

serial_recv_cb(data) ==
    /\ \/ /\ curr = "IDLE"
          /\ RTU_STATE_UPDATE("SOF")
          /\ rxbuf_append(data)
          /\ timer_cb' = "inter"
          /\ timer_start("1t5")
       \/ /\ curr \in {"SOF", "RECV"}
          /\ RTU_STATE_UPDATE("RECV")
          /\ rxbuf_append(data)
          /\ timer_reset
          /\ UNCHANGED timer_cb
       \/ /\ curr \in {"INIT", "EOF", "BUSY"}
          /\ RTU_STATE_ERROR
          /\ UNCHANGED <<prev, curr, rxbuf, timer_cb, timer>>
    /\ UNCHANGED <<txbuf, sending, suspended>>

(* A byte with a parity, framing or overrun error. *)
serial_recv_err_cb ==
    /\ RTU_STATE_ERROR
    /\ UNCHANGED <<prev, curr, rxbuf, txbuf, timer_cb, platform, suspended>>

(* A mutant of serial_sent_cb that forgets to rewind txbuf_curr and to leave
   BUSY for the restart. *)
SentStraightToIdle ==
    /\ sending
    /\ sending' = FALSE
    /\ RTU_STATE_UPDATE("IDLE")
    /\ UNCHANGED <<error, rxbuf, txbuf, timer_cb, timer, suspended>>

(* The transmitter has shifted out the last byte. *)
serial_sent_cb ==
    /\ sending
    /\ sending' = FALSE
    /\ IF curr = "BUSY"
         THEN /\ txbuf' = <<>>
              /\ RTU_STATE_UPDATE("INIT")
              /\ UNCHANGED error
         ELSE RTU_STATE_ERROR /\ UNCHANGED <<prev, curr, txbuf>>
    /\ UNCHANGED <<rxbuf, timer_cb, timer, suspended>>

----------------------------------------------------------------------------
(* modbus_rtu_event: one action for each branch.  A call with updated = 0
   returns at once and is no step. *)

adu_check(adu) ==
    /\ Len(adu) >= ADU_MIN_SIZE
    /\ CalcCrc(SubSeq(adu, 1, Len(adu) - 2))
         = <<adu[Len(adu) - 1], adu[Len(adu)]>>

(* The frame in rxbuf is confirmed and neither reported as an error nor
   processed yet: the next modbus_rtu_event hands it to adu_process. *)
FrameConfirmed == updated /\ ~error /\ curr = "IDLE" /\ prev = "EOF"

(* The `goto error' branches: what modbus_rtu_event finds inconsistent. *)
Inconsistent ==
    \/ curr = "IDLE" /\ prev \notin {"INIT", "EOF"}
    \/ curr = "IDLE" /\ prev = "EOF" /\ txbuf # <<>>
    \/ curr = "SOF" /\ prev # "IDLE"
    \/ curr = "EOF" /\ prev # "RECV"

(* A mutant of restart that arms no timer. *)
RestartWithoutTimer ==
    /\ rxbuf' = <<>>
    /\ txbuf' = <<>>
    /\ timer_cb' = "silent"
    /\ timer_stop

(* The label restart: empty buffers and wait for 3.5t of silence. *)
restart ==
    /\ rxbuf' = <<>>
    /\ txbuf' = <<>>
    /\ timer_cb' = "silent"
    /\ timer_start("3t5")

(* A mutant of event_error that is ready for the next frame at once, without
   the silence that ends the bytes of the bad one. *)
ErrorStraightToIdle ==
    /\ updated
    /\ error \/ Inconsistent
    /\ prev' = curr
    /\ curr' = "IDLE"
    /\ updated' = FALSE
    /\ error' = FALSE
    /\ rxbuf' = <<>>
    /\ txbuf' = <<>>
    /\ timer_cb' = "silent"
    /\ timer_stop
    /\ UNCHANGED <<sending, suspended>>

(* The label error, reached by the flag or by a `goto error'. *)
event_error ==
    /\ updated
    /\ error \/ Inconsistent
    /\ prev' = curr
    /\ curr' = "INIT"
    /\ updated' = FALSE
    /\ error' = FALSE
    /\ restart
    /\ suspended' = (suspended \/ (~error /\ curr = "SOF"))
    /\ UNCHANGED sending

event_init ==
    /\ updated /\ ~error
    /\ curr = "INIT"
    /\ updated' = FALSE
    /\ restart
    /\ UNCHANGED <<error, prev, curr, sending, suspended>>

(* A mutant of adu_process that drops a frame with a wrong CRC without raising
   the error flag, which would have emptied rxbuf. *)
RejectSilently ==
    \/ /\ adu_check(rxbuf)
       /\ \E reply \in Replies \ {<<>>} :
            /\ rxbuf' = <<>>
            /\ txbuf' = reply \o CalcCrc(reply)
            /\ RTU_STATE_UPDATE("BUSY")
            /\ serial_send
       /\ UNCHANGED error
    \/ /\ ~adu_check(rxbuf)
       /\ updated' = FALSE
       /\ UNCHANGED <<error, rxbuf, txbuf, prev, curr, sending>>

(* pdu_cb answers a frame that passes adu_check; an answer is completed by its
   CRC and sent, and no answer leaves the machine in IDLE.  A frame that fails
   stays in rxbuf and raises the error flag again, after modbus_rtu_event has
   cleared updated. *)
adu_process ==
    \/ /\ adu_check(rxbuf)
       /\ rxbuf' = <<>>
       /\ UNCHANGED error
       /\ \/ /\ <<>> \in Replies
             /\ txbuf' = <<>>
             /\ updated' = FALSE
             /\ UNCHANGED <<prev, curr, sending>>
          \/ \E reply \in Replies \ {<<>>} :
                /\ txbuf' = reply \o CalcCrc(reply)
                /\ RTU_STATE_UPDATE("BUSY")
                /\ serial_send
    \/ /\ ~adu_check(rxbuf)
       /\ RTU_STATE_ERROR
       /\ UNCHANGED <<rxbuf, txbuf, prev, curr, sending>>

(* A mutant of event_frame that resumes the application only when there is no
   answer to send. *)
ResumeOnlyWithoutReply ==
    /\ FrameConfirmed
    /\ ~Inconsistent
    /\ adu_process
    /\ suspended' = (suspended /\ curr' = "BUSY")
    /\ UNCHANGED <<timer_cb, timer>>

(* Confirmed end of frame: adu_process, then resume_cb. *)
event_frame ==
    /\ FrameConfirmed
    /\ ~Inconsistent
    /\ adu_process
    /\ suspended' = FALSE
    /\ UNCHANGED <<timer_cb, timer>>

(* A mutant of event_sof that leaves the application running. *)
SofWithoutSuspend ==
    /\ updated /\ ~error
    /\ curr = "SOF" /\ prev = "IDLE"
    /\ updated' = FALSE
    /\ UNCHANGED <<error, prev, curr, rxbuf, txbuf, timer_cb, platform, suspended>>

(* Start of frame: suspend_cb. *)
event_sof ==
    /\ updated /\ ~error
    /\ curr = "SOF" /\ prev = "IDLE"
    /\ updated' = FALSE
    /\ suspended' = TRUE
    /\ UNCHANGED <<error, prev, curr, rxbuf, txbuf, timer_cb, platform>>

(* The branches that only clear updated. *)
event_none ==
    /\ updated /\ ~error
    /\ ~Inconsistent
    /\ curr \in {"RECV", "EOF", "BUSY"} \/ (curr = "IDLE" /\ prev = "INIT")
    /\ updated' = FALSE
    /\ UNCHANGED <<error, prev, curr, rxbuf, txbuf, timer_cb, platform, suspended>>

modbus_rtu_event ==
    event_error \/ event_init \/ event_frame \/ event_sof \/ event_none

----------------------------------------------------------------------------
Next ==
    \/ timer_silent_interval_cb
    \/ timer_inter_frame_timeout_cb
    \/ \E data \in Byte : serial_recv_cb(data)
    \/ serial_recv_err_cb
    \/ serial_sent_cb
    \/ modbus_rtu_event

Spec == Init /\ [][Next]_vars

----------------------------------------------------------------------------
(* What the ports assert about the calls the core makes, and what each state
   of the machine is waiting for. *)

(* The timer is in step with the state: it is stopped when serial_recv_cb
   starts it in IDLE (CHECK(-1 == timeout_us), linux/rtu_impl.c:131 and
   ASSERT(!state_), stm32f103c8/rtu_impl.c:55), it runs for 1.5t when
   serial_recv_cb resets it in SOF or RECV (CHECK(-1 != timeout_us),
   linux/rtu_impl.c:165), and an armed timer always has the callback of its
   interval installed (CHECK(state->timer_cb), linux/rtu_impl.c:227). *)
TimerMatchesState ==
    /\ curr \in {"IDLE", "BUSY"} => timer = "off"
    /\ curr \in {"SOF", "RECV"} => timer = "1t5"
    /\ curr = "EOF" => timer = "3t5"
    /\ timer = "1t5" => timer_cb = "inter"
    /\ timer = "3t5" => timer_cb = "silent"

(* Nobody waits for nothing: outside IDLE the timer is armed, the transmitter
   is at work or modbus_rtu_event has something to handle, and a flagged error
   is always visible to modbus_rtu_event, however errors, timeouts, bytes and
   calls of modbus_rtu_event interleave. *)
NeverStuck ==
    /\ curr = "BUSY" => sending
    /\ curr \notin {"IDLE", "BUSY"} => timer # "off" \/ updated
    /\ error => updated

(* The consistency checks of the core are dead code: modbus_rtu_event never
   takes a `goto error', and a timer callback never finds a state it did not
   expect, other than a frame of one byte. *)
ChecksNeverFire ==
    /\ ~Inconsistent
    /\ TimerExpired("silent") => curr \in {"INIT", "EOF"}
    /\ TimerExpired("inter") => curr \in {"SOF", "RECV"}

(* txbuf holds a reply in BUSY and nowhere else, also after an error or a late
   transmit-complete callback: the next pdu_cb always starts on an empty txbuf. *)
ReplyOnlyInBusy == txbuf # <<>> <=> curr = "BUSY"

(* A flagged error is never lost: whatever callbacks run before
   modbus_rtu_event, the flag stays, nothing is sent, and the only way out is
   the restart with empty buffers and a new 3.5t of silence. *)
ErrorDiscardsFrame ==
    [][error =>
        /\ sending' => sending
        /\ \/ error'
           \/ curr' = "INIT" /\ rxbuf' = <<>> /\ txbuf' = <<>> /\ timer' = "3t5"]_vars

(* rtu.c:283-284: `previous response transmission still in progress this case
   should never happen (BUSY state)', of a confirmed end of frame. *)
NoFrameWhileSending == FrameConfirmed => ~sending

============================================================================
