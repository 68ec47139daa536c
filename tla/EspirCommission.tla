-------------------------- MODULE EspirCommission ---------------------------
(***************************************************************************)
(* Joining the network: esp_zb_app_signal_handler of espir_device.c, from  *)
(* the start of the Zigbee stack to the status that notify_status keeps.   *)
(* The stack is external; net says which of its signals comes next.        *)
(***************************************************************************)

VARIABLES
    net,          \* what the Zigbee stack is doing
    factoryNew,   \* whether the stack remembers no network (it is in flash)
    joined,       \* s_joined
    status        \* s_status

commissionVars == <<net, factoryNew, joined, status>>

NetState == {"off", "starting", "init", "steering", "pause", "up", "left", "failed"}

Status == {"boot", "searching", "connected", "sending"}

-----------------------------------------------------------------------------

\* SKIP_STARTUP: initialisation is asked for.
SkipStartup ==
    /\ net = "starting"
    /\ net' = "init"
    /\ UNCHANGED <<factoryNew, joined, status>>

\* DEVICE_FIRST_START, or DEVICE_REBOOT of a device that knows no network
StartedNew ==
    /\ net = "init"
    /\ factoryNew
    /\ status' = "searching"
    /\ net' = "steering"
    /\ UNCHANGED <<factoryNew, joined>>

Joined ==
    /\ joined' = TRUE
    /\ status' = "connected"
    /\ net' = "up"

\* DEVICE_REBOOT of a device that is back in its network
StartedKnown ==
    /\ net = "init"
    /\ ~factoryNew
    /\ Joined
    /\ UNCHANGED factoryNew

\* Either signal with an error: it is logged, and nothing more is tried.
StartFailed ==
    /\ net = "init"
    /\ net' = "failed"
    /\ UNCHANGED <<factoryNew, joined, status>>

\* STEERING
SteeredOk ==
    /\ net = "steering"
    /\ Joined
    /\ factoryNew' = FALSE

\* Variant: no alarm is set, and the stack stays outside.
SteeredFailedOnce ==
    /\ net = "steering"
    /\ status' = "searching"
    /\ net' = "left"
    /\ UNCHANGED <<factoryNew, joined>>

\* STEERING with an error: the alarm for another try is set ...
SteeredFailed ==
    /\ net = "steering"
    /\ status' = "searching"
    /\ net' = "pause"
    /\ UNCHANGED <<factoryNew, joined>>

\* ... and bdb_retry_cb runs.
Retry ==
    /\ net = "pause"
    /\ net' = "steering"
    /\ UNCHANGED <<factoryNew, joined, status>>

\* The coordinator removes the device.  The signal falls into the default
\* branch, which logs it.
Leave ==
    /\ net = "up"
    /\ net' = "left"
    /\ factoryNew' = TRUE
    /\ UNCHANGED <<joined, status>>

-----------------------------------------------------------------------------

\* The power goes off; it comes back, and the stack is started.
NetOff == net' = "off" /\ joined' = FALSE /\ status' = "boot" /\ UNCHANGED factoryNew

NetBoot == net = "off" /\ net' = "starting" /\ UNCHANGED <<factoryNew, joined, status>>

CommissionInit ==
    net = "off" /\ factoryNew = TRUE /\ joined = FALSE /\ status = "boot"

\* The steps that lead to no network yet, and those that end in one.
Searching == SkipStartup \/ StartedNew \/ SteeredFailed \/ Retry

Joining == StartedKnown \/ SteeredOk

CommissionTypeOK ==
    /\ net \in NetState
    /\ factoryNew \in BOOLEAN
    /\ joined \in BOOLEAN
    /\ status \in Status
=============================================================================
