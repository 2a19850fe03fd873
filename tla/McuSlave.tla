------------------------------ MODULE McuSlave ------------------------------
(***************************************************************************)
(* The slave on a microcontroller: the core of Rtu run by the interrupt    *)
(* handlers of atmega328p/rtu_impl.c, stm8s003f3/rtu_impl.c or             *)
(* stm32f103c8/rtu_impl.c, and by the main loop of atmega328p/rtu_main.c,  *)
(* which calls modbus_rtu_event and then sleeps until the next interrupt   *)
(* (the other two ports leave the main loop to the application).  The line *)
(* may damage a byte on its way.                                           *)
(*                                                                         *)
(* A handler runs to its end before the next one starts, and none runs     *)
(* while the main loop has disabled interrupts.  A timer that expires in   *)
(* the meantime has to wait: on the ATmega328P and the STM8 its request is *)
(* withdrawn when tim_stop or tim_reset clears the flag, on the STM32 the  *)
(* NVIC has latched it and isrTIM2 runs all the same.                      *)
(***************************************************************************)
EXTENDS Line

VARIABLES
    port,      \* the microcontroller
    asleep,    \* the CPU is in sleep_cpu()
    pending,   \* the NVIC holds a request of TIM2
    unreset    \* the last byte on the line has not reset the timer

mcu == <<vars, line, port, asleep, pending, unreset>>

Ports == {"atmega328p", "stm8s003f3", "stm32f103c8"}

(* The state has its types, and the interrupt handlers, whatever the line sends
   them, never fill rxbuf or txbuf beyond its end. *)
McuTypeOK ==
    /\ TypeOK
    /\ LineTypeOK
    /\ port \in Ports
    /\ asleep \in BOOLEAN
    /\ pending \in BOOLEAN
    /\ unreset \in BOOLEAN

(* Interrupts stay disabled from reset to the first sei(), so main() enters its
   loop with the state that modbus_rtu_impl and modbus_rtu_init leave. *)
modbus_rtu_impl ==
    /\ Init
    /\ asleep = FALSE
    /\ pending = FALSE
    /\ unreset = FALSE

McuInit ==
    /\ modbus_rtu_impl
    /\ LineInit
    /\ port \in Ports

(* The slave is at rest and the line silent: the master may speak. *)
Quiet == asleep /\ frame = <<>> /\ timer = "off" /\ ~sending

McuMasterSends ==
    /\ Quiet
    /\ \E f \in Frames : MasterSends(f)
    /\ UNCHANGED <<vars, port, asleep, pending, unreset>>

----------------------------------------------------------------------------
(* The timer. *)

(* The countdown may be over.  The bytes of a frame come without a gap, and
   keep it from getting there unless one did not reset it: a byte with an error
   does not, and neither does any byte outside IDLE, SOF and RECV. *)
MayExpire == timer # "off" /\ (frame = <<>> \/ unreset)

(* TIM2 may expire while another handler or the main loop keeps isrTIM2 from
   running.  TIM_UPDATE_INT_CLEAR in tim_start_*, tim_stop and tim_reset does
   not reach what the NVIC has latched. *)
Latch ==
    pending' \in (IF port = "stm32f103c8" /\ MayExpire THEN BOOLEAN ELSE {FALSE})

timer_cb_runs == timer_silent_interval_cb \/ timer_inter_frame_timeout_cb

(* The request is withdrawn with its flag, so the handler finds the timer that
   has expired. *)
tmr_cb ==
    /\ port = "atmega328p"
    /\ MayExpire
    /\ timer_cb_runs
    /\ asleep' = FALSE
    /\ UNCHANGED <<line, port, pending, unreset>>

tim_cb ==
    /\ port = "stm8s003f3"
    /\ MayExpire
    /\ timer_cb_runs
    /\ asleep' = FALSE
    /\ UNCHANGED <<line, port, pending, unreset>>

(* A request that was latched may meet a timer that has been started again
   since, and tear the frame on the line; one that meets a stopped timer is
   spurious. *)
isrTIM2 ==
    /\ port = "stm32f103c8"
    /\ pending \/ MayExpire
    /\ IF timer = "off" THEN UNCHANGED vars ELSE timer_cb_runs
    /\ good' = (good /\ ~(pending /\ frame # <<>>))
    /\ pending' = FALSE
    /\ asleep' = FALSE
    /\ UNCHANGED <<frame, owed, before, port, unreset>>

----------------------------------------------------------------------------
(* The serial port.  A latched request of the timer goes first: its interrupt
   has the lower number. *)

(* A byte, or an error and the flush of what is queued behind it. *)
Receive(queued) ==
    /\ ~pending
    /\ frame # <<>>
    /\ \/ /\ serial_recv_cb(Head(frame))
          /\ frame' = Tail(frame)
          /\ unreset' = (curr \notin {"IDLE", "SOF", "RECV"})
          /\ UNCHANGED <<owed, good>>
       \/ /\ serial_recv_err_cb
          /\ unreset' = TRUE
          /\ \E n \in 1 .. 1 + queued :
                n <= Len(frame) /\ frame' = SubSeq(frame, n + 1, Len(frame))
          /\ owed' = <<>>
          /\ good' = FALSE
    /\ Latch
    /\ asleep' = FALSE
    /\ UNCHANGED <<before, port>>

(* The receiver of the ATmega328P queues two bytes, the other two one. *)
usart_rx_recv_cb == port = "atmega328p" /\ Receive(2)

uart_rx_recv_cb == port = "stm8s003f3" /\ Receive(1)

rx_complete == port = "stm32f103c8" /\ Receive(1)

(* tx_complete, uart_tx_complete_cb and usart_tx_complete_cb. *)
tx_complete ==
    /\ ~pending
    /\ serial_sent_cb
    /\ Latch
    /\ asleep' = FALSE
    /\ UNCHANGED <<line, port, unreset>>

----------------------------------------------------------------------------
(* A mutant of main_loop that goes to sleep without calling modbus_rtu_event
   when the machine is idle. *)
SkipEventWhenIdle ==
    /\ ~asleep /\ ~pending
    /\ IF updated /\ curr # "IDLE" THEN modbus_rtu_event ELSE UNCHANGED vars
    /\ Latch
    /\ asleep' = TRUE
    /\ UNCHANGED <<line, port, unreset>>

(* cli; modbus_rtu_event; sei; sleep_cpu.  sei() takes effect after the next
   instruction, so nothing runs between the two last calls. *)
main_loop ==
    /\ ~asleep /\ ~pending
    /\ Event
    /\ Latch
    /\ unreset' = (unreset /\ ~error /\ curr # "INIT")
    /\ asleep' = TRUE
    /\ UNCHANGED port

McuNext ==
    \/ McuMasterSends
    \/ tmr_cb
    \/ tim_cb
    \/ isrTIM2
    \/ usart_rx_recv_cb
    \/ uart_rx_recv_cb
    \/ rx_complete
    \/ tx_complete
    \/ main_loop

(* The main loop runs whenever it is awake, an armed timer expires, the
   transmitter finishes and the line delivers the bytes it carries.  The
   master need not send anything. *)
McuSpec ==
    /\ McuInit
    /\ [][McuNext]_mcu
    /\ WF_mcu(main_loop)
    /\ WF_mcu(tmr_cb \/ tim_cb \/ isrTIM2)
    /\ WF_mcu(tx_complete)
    /\ WF_mcu(usart_rx_recv_cb \/ uart_rx_recv_cb \/ rx_complete)

----------------------------------------------------------------------------
(* The CPU never sleeps through its own work: whenever it is in sleep_cpu()
   outside IDLE, a running timer or transmitter is going to wake it. *)
WakeupComes == asleep => curr = "IDLE" \/ timer # "off" \/ sending

(* A request of TIM2 that the NVIC has latched (stm32f103c8/rtu_impl.c:20)
   always meets a running timer, so that ASSERT(state_) holds and TIM_ENABLED
   never stops it, but it never gets into the middle of a healthy frame: there
   it finds a flagged error, or the silence of the restart that follows one. *)
LatchedOnlyAfterError ==
    pending => timer # "off" /\ (frame # <<>> => error \/ curr = "INIT")

(* A good frame that follows a good frame is always processed: when the line
   is quiet again, a frame is unprocessed only if the one before was bad, or
   torn by a request that the NVIC had latched. *)
LossOnlyAfterBadFrame == Quiet /\ owed # <<>> => ~before

(* An application is left suspended (suspend_cb, rtu.c:303) by a bad frame alone,
   which ends in an error without resume_cb (rtu.c:248-276), and no longer than
   to the next good one: resume_cb (rtu.c:293) has run when the slave is at rest
   after a good frame, also if that frame met the error of a rejected one
   (rtu.c:195) and was lost. *)
SuspendedOnlyAfterBadFrame == Quiet /\ suspended => ~good

(* Every frame, good, bad, damaged, too short or too long, ends with the slave
   back in IDLE and asleep, ready for the next one. *)
FrameEndsInIdle == frame # <<>> ~> Quiet /\ curr = "IDLE"

(* README.md:167-168: pdu_cb is `invoked by the core after a CRC-valid frame
   arrives in EOF->IDLE transition'. *)
NoGoodFrameLost == Quiet => owed = <<>>

============================================================================
