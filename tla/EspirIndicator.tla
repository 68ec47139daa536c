--------------------------- MODULE EspirIndicator ---------------------------
(***************************************************************************)
(* The RGB LED of the custom-PCB slave: the status that commissioning and  *)
(* the send task notify, the state espir_led_set latches from it, and the  *)
(* task of components/espir_led that shows it.                             *)
(*                                                                         *)
(* The LED task has a lower priority than the tasks that notify, so they   *)
(* may come between any two of its steps and it never comes between two of *)
(* theirs.  A blink is one colour here; its phase is left out.             *)
(***************************************************************************)
EXTENDS EspirCommission, Naturals

VARIABLES
    sending,    \* send_worker is transmitting
    ledState,   \* s_state
    notified,   \* the notification of the LED task is pending
    ledPc,      \* the LED task: waiting, awake, or with the state it has read
    st,         \* st of led_task
    shown,      \* shown of led_task
    timed,      \* whether it waits with a time-out
    led,        \* the colour of the LED
    pulses      \* history: times the LED has turned green since power on

taskVars == <<ledPc, st, shown, timed, led, pulses>>
indicatorVars == <<commissionVars, sending, ledState, notified, taskVars>>

LedState == {"off", "searching", "connected", "sending"}

Colour == {"dark", "amber", "green", "blue"}

\* on_status of slave-pcb/main/main.c
LedOf(s) == IF s = "boot" THEN "off" ELSE s

-----------------------------------------------------------------------------
(* The tasks that notify                                                   *)

\* Variant: the task is not woken.
LedSetSilent(state) == ledState' = state /\ UNCHANGED notified

\* espir_led_set: nothing is done when the state is latched already.
LedSet(state) ==
    /\ ledState' = state
    /\ notified' = (notified \/ state # ledState)

\* A signal of the stack, and notify_status when it calls it
Signal ==
    /\ Searching \/ Joining \/ StartFailed \/ Leave
    /\ IF status' # status THEN LedSet(LedOf(status')) ELSE UNCHANGED <<ledState, notified>>
    /\ UNCHANGED <<sending, taskVars>>

\* send_worker, once the code is loaded.  A SEND comes over the network.
SendStart ==
    /\ joined
    /\ ~sending
    /\ sending' = TRUE
    /\ status' = "sending"
    /\ LedSet(LedOf("sending"))
    /\ UNCHANGED <<net, factoryNew, joined, taskVars>>

\* Variant: the end of the send is not notified to the LED.
SendEndSilent ==
    /\ sending
    /\ sending' = FALSE
    /\ status' = "connected"
    /\ UNCHANGED <<net, factoryNew, joined, ledState, notified, taskVars>>

SendEnd ==
    /\ sending
    /\ sending' = FALSE
    /\ status' = "connected"
    /\ LedSet(LedOf("connected"))
    /\ UNCHANGED <<net, factoryNew, joined, taskVars>>

-----------------------------------------------------------------------------
(* led_task                                                                *)

LedRead ==
    /\ ledPc = "awake"
    /\ st' = ledState
    /\ ledPc' = "read"
    /\ UNCHANGED <<commissionVars, sending, ledState, notified, shown, timed, led, pulses>>

\* Variant: every return to CONNECTED pulses.
PulsesOnReturn == shown # "connected"

\* Variant: only the way from SEARCHING pulses.
PulsesFromSearch == shown = "searching"

\* Only the join pulses, not the return from a send.
Pulses == shown \notin {"connected", "sending"}

\* Variant: the pulse is waited for without a time-out.
TimedBlinks == {"searching", "sending"}

\* The states that are waited for with a time-out: blinks, and the pulse
Timed == {"searching", "sending"} \cup (IF Pulses THEN {"connected"} ELSE {})

LedShow ==
    /\ ledPc = "read"
    /\ led' = CASE st = "searching" -> "amber"
                [] st = "sending" -> "blue"
                [] st = "connected" /\ Pulses -> "green"
                [] OTHER -> "dark"
    /\ timed' = (st \in Timed)
    /\ pulses' = IF led' = "green" THEN pulses + 1 ELSE pulses
    /\ shown' = st
    /\ ledPc' = "wait"
    /\ UNCHANGED <<commissionVars, sending, ledState, notified, st>>

\* ulTaskNotifyTake returns, with a notification or without.
LedWake ==
    /\ ledPc = "wait"
    /\ notified \/ timed
    /\ notified' = FALSE
    /\ ledPc' = "awake"
    /\ UNCHANGED <<commissionVars, sending, ledState, st, shown, timed, led, pulses>>

-----------------------------------------------------------------------------

\* app_main sets the LED to SEARCHING before it starts the device.
DeviceOn ==
    /\ NetBoot
    /\ LedSet("searching")
    /\ UNCHANGED <<sending, taskVars>>

LosePower ==
    /\ net # "off"
    /\ NetOff
    /\ sending' = FALSE
    /\ ledState' = "off"
    /\ notified' = FALSE
    /\ ledPc' = "awake"
    /\ st' = "off"
    /\ shown' = "off"
    /\ timed' = FALSE
    /\ led' = "dark"
    /\ pulses' = 0

IndicatorInit ==
    /\ CommissionInit
    /\ sending = FALSE
    /\ ledState = "off"
    /\ notified = FALSE
    /\ ledPc = "awake"
    /\ st = "off"
    /\ shown = "off"
    /\ timed = FALSE
    /\ led = "dark"
    /\ pulses = 0

LedTask == LedRead \/ LedShow \/ LedWake

IndicatorNext ==
    \/ DeviceOn
    \/ Signal
    \/ SendStart
    \/ SendEnd
    \/ LedRead
    \/ LedShow
    \/ LedWake
    \/ LosePower

\* The LED task gets its turn, and a send comes to its end.  Nothing is asked
\* of the network or of the host.
IndicatorSpec ==
    /\ IndicatorInit
    /\ [][IndicatorNext]_indicatorVars
    /\ WF_indicatorVars(LedTask)
    /\ WF_indicatorVars(SendEnd)

-----------------------------------------------------------------------------
(* Properties                                                              *)

\* Every variable keeps its type, and the LED latches the status that was
\* notified last.
IndicatorTypeOK ==
    /\ CommissionTypeOK
    /\ sending \in BOOLEAN
    /\ ledState \in LedState
    /\ status # "boot" => ledState = LedOf(status)
    /\ notified \in BOOLEAN
    /\ ledPc \in {"wait", "awake", "read"}
    /\ st \in LedState
    /\ shown \in LedState
    /\ timed \in BOOLEAN
    /\ led \in Colour
    /\ pulses \in Nat

\* espir_led.c:74-78: green is a one-shot confirmation of the join.  It is lit
\* at most once between two starts, however many sends come and however the
\* task and the two notifiers interleave.
OnePulse == pulses <= 1

\* The join is confirmed, however soon after the start it comes and however
\* short the sends that follow it, unless the LED shows one of these sends
\* before it has shown the join.
JoinConfirmed ==
    joined /\ pulses = 0 /\ shown \notin {"connected", "sending"}
        ~> pulses = 1 \/ shown = "sending" \/ ~joined

\* espir_led.h:13-14: green is never held on.
GreenEnds == led = "green" ~> led # "green"

\* No wake-up is lost: a status that lasts is the one that is shown, blinking
\* amber or dark.
LedCatchesUp ==
    /\ <>[](status = "searching") => <>[](led = "amber")
    /\ <>[](status = "connected") => <>[](led = "dark")

\* The rapid blink ends with the last send.
BlueEnds == <>[]~sending => <>[](led # "blue")
=============================================================================
