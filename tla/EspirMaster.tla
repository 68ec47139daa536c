----------------------------- MODULE EspirMaster -----------------------------
(***************************************************************************)
(* The master as master/main/main.c puts it together: the three tasks of   *)
(* EspirDevice, the signals of the Zigbee stack (EspirCommission) and the  *)
(* display (EspirDisplay).                                                 *)
(*                                                                         *)
(* notify_info (espir_device.c:68-79) reads five globals and then calls    *)
(* espir_oled_update.  It runs in each of the three tasks, and the send    *)
(* task holds no lock meanwhile: between the snapshot and its delivery     *)
(* other tasks go on, and may deliver a newer one first.                   *)
(***************************************************************************)
EXTENDS EspirDevice

VARIABLES
    net, factoryNew, joined,                \* of EspirCommission
    devStatus,                              \* s_status
    panel, latched, shown,    \* of EspirDisplay
    note,       \* the snapshot a task has taken and not delivered, if any
    excused     \* history: why the display may lag behind, if it may

Net == INSTANCE EspirCommission WITH status <- devStatus

Oled == INSTANCE EspirDisplay WITH SlotNumber <- WireSlot

netVars == <<net, factoryNew, joined, devStatus>>
displayVars == <<panel, latched, shown>>
noteVars == <<note, excused>>
masterVars == <<deviceVars, netVars, displayVars, noteVars>>

Task == {"zb", "learn", "send"}

-----------------------------------------------------------------------------
(* notify_info                                                             *)

Info == [status |-> devStatus, selected |-> selected, learn |-> status,
         learnSlot |-> active, occupied |-> attr.occupied]

Held(task) == note[task] # {}

\* The snapshot, taken at the end of a step of the task.  When the snapshot of
\* another task is still on its way the older one may be delivered last;
\* otherwise whatever the display lagged behind with is made good.
Notify(task) ==
    IF ~panel THEN UNCHANGED noteVars
    ELSE /\ note' = [note EXCEPT ![task] = {Info'}]
         /\ excused' = IF \E t \in Task \ {task} : Held(t) THEN "lag" ELSE "no"

\* Its delivery, after which the task goes on.
Deliver(task) ==
    \E i \in note[task] :
       /\ Oled!Update(i)
       /\ note' = [note EXCEPT ![task] = {}]
       /\ UNCHANGED <<deviceVars, netVars, excused>>

-----------------------------------------------------------------------------
(* esp_zb.  A handler runs from its command to its return, the delivery    *)
(* included; espir_learn delivers under the same lock.                     *)

\* Variant: espir_learn gives the lock up before it delivers.
OwnDelivered == ~Held("zb")

LockFree == ~Held("zb") /\ ~Held("learn")

ZbQuiet ==
    /\ LockFree
    /\ \/ net = "up" /\ Commands
       \/ LearnWaiting \/ LearnGive
    /\ UNCHANGED <<netVars, displayVars, noteVars>>

ZbTells ==
    /\ LockFree
    /\ LearnTell \/ Publish
    /\ UNCHANGED <<netVars, displayVars>>
    /\ Notify("zb")

\* The alarm of report_all, once for each join.  It does not call notify_info.
ZbReports ==
    /\ LockFree
    /\ joined /\ ~synced
    /\ ReportAll
    /\ excused' = IF excused = "no" /\ attr'.occupied # attr.occupied THEN "report" ELSE excused
    /\ UNCHANGED <<netVars, displayVars, note>>

\* A signal.  The one that the coordinator has removed the device is left out:
\* its handler does nothing, and a device that is sent no commands behaves alike.
SignalQuiet ==
    /\ LockFree /\ zb = "idle"
    /\ Net!SkipStartup \/ Net!StartFailed \/ Net!Retry
    /\ UNCHANGED <<deviceVars, displayVars, noteVars>>

SignalTells ==
    /\ LockFree /\ zb = "idle"
    /\ Net!StartedNew \/ Net!SteeredFailed \/ Net!Joining
    /\ UNCHANGED <<deviceVars, displayVars>>
    /\ Notify("zb")

-----------------------------------------------------------------------------
(* espir_learn and espir_send                                              *)

LearnQuiet ==
    /\ ~Held("learn")
    /\ LearnTake \/ LearnRead \/ LearnReceive \/ LearnSave \/ LearnResult \/ LearnSetIdle
    /\ UNCHANGED <<netVars, displayVars, noteVars>>

LearnTells ==
    /\ LockFree
    /\ LearnPublish
    /\ UNCHANGED <<netVars, displayVars>>
    /\ Notify("learn")

\* notify_status of the send task: SENDING when a code has loaded, and
\* CONNECTED after the burst.
SendQuiet ==
    /\ ~Held("send")
    /\ SendTake \/ (SendLoad /\ send'.pc = "wait")
    /\ UNCHANGED <<netVars, displayVars, noteVars>>

SendTells ==
    /\ ~Held("send")
    /\ \/ SendLoad /\ send'.pc = "frames" /\ devStatus' = "sending"
       \/ SendDone /\ devStatus' = "connected"
    /\ UNCHANGED <<net, factoryNew, joined, displayVars>>
    /\ Notify("send")

-----------------------------------------------------------------------------
(* espir_oled, and the power                                               *)

OledRender ==
    /\ Oled!Render
    /\ excused' = IF shown' \in {Oled!Screen(i) : i \in latched} THEN excused ELSE "lag"
    /\ UNCHANGED <<deviceVars, netVars, note>>

NoNote == [t \in Task |-> {}]

PowerFails ==
    /\ PowerLoss /\ Net!NetOff /\ Oled!OledOff
    /\ note' = NoNote /\ excused' = "lag"

\* app_main: the display is there before the stack starts.
PowerOn ==
    /\ Net!NetBoot
    /\ Oled!OledInit
    /\ UNCHANGED <<deviceVars, noteVars>>

MasterInit ==
    /\ DeviceInit /\ Net!CommissionInit /\ Oled!DisplayStart
    /\ note = NoNote /\ excused = "lag"

MasterNext ==
    \/ ZbQuiet \/ ZbTells \/ ZbReports \/ SignalQuiet \/ SignalTells
    \/ LearnQuiet \/ LearnTells \/ SendQuiet \/ SendTells
    \/ \E task \in Task : Deliver(task)
    \/ OledRender
    \/ PowerFails \/ PowerOn

MasterSpec == MasterInit /\ [][MasterNext]_masterVars

-----------------------------------------------------------------------------
(* Properties                                                              *)

\* The parts keep their types, and the Zigbee lock has one holder: the Zigbee
\* task in a handler or the learn task in its delivery, never both.
MasterTypeOK ==
    /\ Net!CommissionTypeOK
    /\ Oled!DisplayTypeOK
    /\ note \in [Task -> {{}} \cup {{i} : i \in Oled!Snapshot}]
    /\ Held("learn") => zb = "idle" /\ ~Held("zb")

\* Nothing is under way in any task, the render task included.
Settled ==
    /\ net # "off" /\ Quiet /\ learn.pc = "take" /\ ~learnSem /\ send.pc = "wait"
    /\ \A t \in Task : ~Held(t)
    /\ latched = {}

\* When nothing is under way the display shows the state of the device, unless
\* two deliveries have overlapped, a flush has failed or report_all has found a
\* code in the slot.  "Delivered on every change to any field"
\* (espir_device.h:46-47).
DisplayTruthful ==
    Settled /\ excused = "no" => shown = Oled!Screen(Info)

\* The same, report_all included.
DisplayCurrent ==
    Settled /\ excused # "lag" => shown = Oled!Screen(Info)
=============================================================================
