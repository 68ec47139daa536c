---------------------------- MODULE EspirDevice -----------------------------
(***************************************************************************)
(* The master as its three tasks see it (components/espir_device).         *)
(*                                                                         *)
(*   esp_zb       runs the command handlers, holding the Zigbee lock;      *)
(*   espir_learn  captures a code, saves it, and takes the Zigbee lock     *)
(*                only to publish the result;                              *)
(*   espir_send   transmits the slots that SEND has queued.                *)
(*                                                                         *)
(* The tasks have one priority, so they interleave at any point; the       *)
(* s_... globals are shared without a lock, except where the Zigbee lock   *)
(* happens to be held.  While zb is not "idle" esp_zb holds the lock.  The *)
(* report of an attribute directly follows its set_attr, so attr is also   *)
(* what the host has been told.                                            *)
(***************************************************************************)
EXTENDS EspirStore

CONSTANTS
    Command,      \* the commands the host uses
    Patient,      \* those it holds back while a learn is under way
    Capture,      \* the codes the receiver may return
    LastCodeMax,  \* ESPIR_LAST_CODE_MAX
    SendDepth,    \* length of s_send_q
    SlotIdle,     \* ESPIR_SLOT_IDLE
    MayReboot     \* whether the device may lose power

ASSUME DeviceAssumption ==
    /\ Command \subseteq {"learn", "send", "clear", "program", "chunked", "select"}
    /\ Capture \subseteq {code \in Record : Load(code) = code}
    /\ SendDepth \in Nat \ {0}
    /\ LastCodeMax \in Nat
    /\ SlotIdle \notin WireSlot
    /\ Patient \subseteq Command
    /\ MayReboot \in BOOLEAN

VARIABLES
    active,       \* s_active_learn
    status,       \* s_learn_status
    selected,     \* s_selected_slot
    last,         \* s_last_slot, s_last_kind, s_last_carrier, s_last_code
    attr,         \* the attributes as the Zigbee stack has them
    synced,       \* whether report_all has run since boot
    zb,           \* where esp_zb is in a handler
    learnSem,     \* s_learn_sem
    learn,        \* where espir_learn is, with its local variables
    sendQ,        \* s_send_q
    send          \* where espir_send is, with its local variables

ramVars == <<active, status, selected, last>>
attrVars == <<attr, synced>>
learnVars == <<learnSem, learn>>
sendVars == <<sendQ, send>>
deviceVars == <<storeVars, ramVars, attrVars, zb, learnVars, sendVars>>

NoLast == [slot |-> 0, kind |-> "raw", carrier |-> DefaultCarrier, code |-> <<>>]

-----------------------------------------------------------------------------
(* esp_zb                                                                  *)

\* A command arrives and its handler starts.
Handling(command) ==
    /\ command \in Command /\ zb = "idle"
    /\ command \in Patient => attr.status # "waiting"

\* LEARN: start_learn writes the globals before it publishes them, and
\* espir_learn runs meanwhile.  The slot number is not checked.
CmdLearn(slot) ==
    /\ Handling("learn")
    /\ active' = slot
    /\ zb' = "waiting"
    /\ UNCHANGED <<storeVars, status, selected, last, attrVars, learnVars, sendVars>>

LearnWaiting ==
    /\ zb = "waiting"
    /\ status' = "waiting"
    /\ zb' = "tell"
    /\ UNCHANGED <<storeVars, active, selected, last, attrVars, learnVars, sendVars>>

\* The two attributes of a learn, as set_attr makes them.
Told(a) == [a EXCEPT !.active = active, !.status = status]

LearnTell ==
    /\ zb = "tell"
    /\ attr' = Told(attr)
    /\ zb' = "give"
    /\ UNCHANGED <<storeVars, ramVars, synced, learnVars, sendVars>>

\* Variant: the semaphore is not given.
LearnGiveNothing ==
    zb = "give" /\ zb' = "idle"
    /\ UNCHANGED <<storeVars, ramVars, attrVars, learnVars, sendVars>>

\* The semaphore is binary: a give that finds it given is lost.
LearnGive ==
    /\ zb = "give"
    /\ learnSem' = TRUE
    /\ zb' = "idle"
    /\ UNCHANGED <<storeVars, ramVars, attrVars, learn, sendVars>>

\* SEND: do_send does not wait for room in the queue.
CmdSend(slot) ==
    /\ Handling("send")
    /\ sendQ' = IF Len(sendQ) < SendDepth THEN Append(sendQ, slot) ELSE sendQ
    /\ UNCHANGED <<storeVars, ramVars, attrVars, zb, learnVars, send>>

\* CLEAR, PROGRAM and PROGRAM_COMMIT change the store and then publish
\* whether the selected slot is occupied.
ToPublish ==
    zb' = "publish" /\ UNCHANGED <<ramVars, attrVars, learnVars, sendVars>>

CmdClear(slot) == Handling("clear") /\ Clear(slot) /\ ToPublish

CmdProgram(slot, kind, carrier, blob) ==
    Handling("program") /\ ProgramSingle(slot, kind, carrier, blob) /\ ToPublish

CmdCommit(slot) == Handling("chunked") /\ ProgramCommit(slot) /\ ToPublish

\* PROGRAM_BEGIN and PROGRAM_CHUNK touch the assembly only.
CmdBeginOrChunk ==
    /\ Handling("chunked")
    /\ \E slot \in WireSlot :
          \/ \E kind \in Kind, carrier \in Carrier, total \in WireLen :
                ProgramBegin(slot, kind, carrier, total)
          \/ \E data \in FrameBlob : ProgramChunk(slot, data)
    /\ UNCHANGED <<ramVars, attrVars, zb, learnVars, sendVars>>

CmdSelect(slot) ==
    /\ Handling("select")
    /\ selected' = slot
    /\ attr' = [attr EXCEPT !.selected = slot]
    /\ zb' = "publish"
    /\ UNCHANGED <<storeVars, active, status, last, synced, learnVars, sendVars>>

\* update_slot_occupied: s_slot_occupied and its attribute, afterwards.
WithOccupancy(a) == [a EXCEPT !.occupied = Occupied(selected)]

Publish ==
    /\ zb = "publish"
    /\ attr' = WithOccupancy(attr)
    /\ zb' = "idle"
    /\ UNCHANGED <<storeVars, ramVars, synced, learnVars, sendVars>>

\* report_all, some time after the device has joined.
ReportAll ==
    /\ zb = "idle"
    /\ attr' = WithOccupancy([attr EXCEPT !.selected = selected])
    /\ synced' = TRUE
    /\ UNCHANGED <<storeVars, ramVars, zb, learnVars, sendVars>>

-----------------------------------------------------------------------------
(* espir_learn                                                             *)

LearnIdle == [pc |-> "take", slot |-> 0, code |-> Empty]

\* What a step of espir_learn outside the Zigbee lock leaves alone.
LearnAlone == UNCHANGED <<selected, attrVars, zb, sendVars>>

LearnTake ==
    /\ learn.pc = "take"
    /\ learnSem
    /\ learnSem' = FALSE
    /\ learn' = [learn EXCEPT !.pc = "read"]
    /\ UNCHANGED <<storeVars, active, status, last>> /\ LearnAlone

\* Variants: every slot is taken; the code goes to the slot that is selected.
AnySlot(slot) == TRUE
SelectedTarget == selected

Learnable(slot) == slot \in Slot

Target == active

\* A slot out of range, or none, ends the learn here, with nothing published.
LearnRead ==
    /\ learn.pc = "read"
    /\ learn' = IF Learnable(Target) THEN [learn EXCEPT !.pc = "receive", !.slot = Target]
                                     ELSE LearnIdle
    /\ UNCHANGED <<storeVars, active, status, last, learnSem>> /\ LearnAlone

\* espir_ir_receive: a code, or nothing before the time-out.
LearnReceive ==
    /\ learn.pc = "receive"
    /\ \/ \E code \in Capture : learn' = [learn EXCEPT !.pc = "save", !.code = code]
       \/ learn' = [learn EXCEPT !.pc = "result"]
    /\ UNCHANGED <<storeVars, active, status, last, learnSem>> /\ LearnAlone

\* Variant: the record is left to be written later.
LearnSaveNothing ==
    /\ learn.pc = "save"
    /\ learn' = [learn EXCEPT !.pc = "result"]
    /\ UNCHANGED <<storeVars, active, status, last, learnSem>> /\ LearnAlone

\* The result of espir_store_save is not looked at.
LearnSave ==
    /\ learn.pc = "save"
    /\ Save(learn.slot, learn.code)
    /\ learn' = [learn EXCEPT !.pc = "result"]
    /\ UNCHANGED <<active, status, last, learnSem>> /\ LearnAlone

\* A code too long for one frame is not exposed in last_code.
Learned ==
    [slot |-> learn.slot, kind |-> learn.code.kind, carrier |-> learn.code.carrier,
     code |-> IF Len(learn.code.blob) <= LastCodeMax THEN learn.code.blob ELSE <<>>]

LearnResult ==
    /\ learn.pc = "result"
    /\ IF learn.code = Empty THEN status' = "failed" /\ UNCHANGED last
                             ELSE status' = "captured" /\ last' = Learned
    /\ learn' = [learn EXCEPT !.pc = "idle"]
    /\ UNCHANGED <<storeVars, active, learnSem>> /\ LearnAlone

LearnSetIdle ==
    /\ learn.pc = "idle"
    /\ active' = SlotIdle
    /\ learn' = [learn EXCEPT !.pc = "lock"]
    /\ UNCHANGED <<storeVars, status, last, learnSem>> /\ LearnAlone

\* Variant: the occupancy is left as it was before the learn.
WithLastAlone(a) == [a EXCEPT !.last = last]

WithLast(a) == WithOccupancy([a EXCEPT !.last = last])

\* Under the Zigbee lock.  What is published is what the globals hold now.
LearnPublish ==
    /\ learn.pc = "lock"
    /\ zb = "idle"
    /\ attr' = Told(IF status = "captured" THEN WithLast(attr) ELSE attr)
    /\ learn' = LearnIdle
    /\ UNCHANGED <<storeVars, ramVars, synced, zb, learnSem, sendVars>>

-----------------------------------------------------------------------------
(* espir_send                                                              *)

SendIdle == [pc |-> "wait", slot |-> 0, code |-> Empty]

SendTake ==
    /\ send.pc = "wait"
    /\ sendQ # <<>>
    /\ send' = [send EXCEPT !.pc = "load", !.slot = Head(sendQ)]
    /\ sendQ' = Tail(sendQ)
    /\ UNCHANGED <<storeVars, ramVars, attrVars, zb, learnVars>>

Bursting(code) == [send EXCEPT !.pc = "frames", !.code = code]

\* Variant: a slot that does not load is tried again.
LoadedElseRetry(code) == IF code = Empty THEN send ELSE Bursting(code)

Loaded(code) == IF code = Empty THEN SendIdle ELSE Bursting(code)

\* send_worker reads the slot when its turn comes, and skips an empty one.
SendLoad ==
    /\ send.pc = "load"
    /\ send' = Loaded(IF send.slot \in Slot THEN Load(nvs[send.slot]) ELSE Empty)
    /\ UNCHANGED <<storeVars, ramVars, attrVars, zb, learnVars, sendQ>>

\* The burst ends: send_hold_ms has passed, or the transmitter failed.
SendDone ==
    /\ send.pc = "frames"
    /\ send' = SendIdle
    /\ UNCHANGED <<storeVars, ramVars, attrVars, zb, learnVars, sendQ>>

-----------------------------------------------------------------------------

BootAttr == [active |-> SlotIdle, status |-> "idle", selected |-> 0,
             occupied |-> FALSE, last |-> NoLast]

\* The device starts on the slots that earlier runs have left.
DeviceInit ==
    /\ nvs \in [Slot -> Capture \cup {Empty}] /\ prog = NoProg
    /\ active = SlotIdle /\ status = "idle" /\ selected = 0 /\ last = NoLast
    /\ attr = BootAttr /\ synced = FALSE
    /\ zb = "idle" /\ learnSem = FALSE /\ learn = LearnIdle
    /\ sendQ = <<>> /\ send = SendIdle

\* Everything but the records is in RAM.
PowerLoss ==
    /\ MayReboot /\ Reboot
    /\ active' = SlotIdle /\ status' = "idle" /\ selected' = 0 /\ last' = NoLast
    /\ attr' = BootAttr /\ synced' = FALSE
    /\ zb' = "idle" /\ learnSem' = FALSE /\ learn' = LearnIdle
    /\ sendQ' = <<>> /\ send' = SendIdle

Commands ==
    \/ \E slot \in WireSlot :
          \/ CmdLearn(slot) \/ CmdSend(slot) \/ CmdSelect(slot)
          \/ CmdClear(slot) \/ CmdCommit(slot)
    \/ \E slot \in WireSlot, kind \in Kind, carrier \in Carrier, blob \in FrameBlob :
          CmdProgram(slot, kind, carrier, blob)
    \/ CmdBeginOrChunk

ZbNext ==
    Commands \/ LearnWaiting \/ LearnTell \/ LearnGive \/ Publish \/ ReportAll

LearnNext ==
    LearnTake \/ LearnRead \/ LearnReceive \/ LearnSave \/ LearnResult \/ LearnSetIdle
    \/ LearnPublish

SendNext == SendTake \/ SendLoad \/ SendDone

DeviceNext == ZbNext \/ LearnNext \/ SendNext \/ PowerLoss

DeviceSpec == DeviceInit /\ [][DeviceNext]_deviceVars

\* A handler that has started ends; the tasks are scheduled, and a receive and
\* a burst end by their time-outs; a task that waits for the Zigbee lock gets
\* it in the end, although commands keep coming.
DeviceFairSpec ==
    /\ DeviceSpec
    /\ WF_deviceVars(LearnWaiting \/ LearnTell \/ LearnGive \/ Publish)
    /\ WF_deviceVars(LearnNext)
    /\ SF_deviceVars(LearnPublish)
    /\ WF_deviceVars(SendNext)

-----------------------------------------------------------------------------
(* Properties                                                              *)

Last == [slot : Slot, kind : Kind, carrier : Carrier, code : Seq(Byte)]

LearnStatus == {"idle", "waiting", "captured", "failed"}

\* Every variable keeps its type: a learn is under way only into a slot that
\* exists, whatever slot the LEARN named, and the send queue keeps its length.
DeviceTypeOK ==
    /\ active \in WireSlot \cup {SlotIdle}
    /\ status \in LearnStatus
    /\ selected \in WireSlot
    /\ last \in Last
    /\ attr \in [active : WireSlot \cup {SlotIdle}, status : LearnStatus,
                 selected : WireSlot, occupied : BOOLEAN, last : Last]
    /\ synced \in BOOLEAN
    /\ zb \in {"idle", "waiting", "tell", "give", "publish"}
    /\ learnSem \in BOOLEAN
    /\ learn \in [pc : {"take", "read", "receive", "save", "result", "idle", "lock"},
                  slot : Slot, code : Capture \cup {Empty}]
    /\ sendQ \in Seq(WireSlot) /\ Len(sendQ) <= SendDepth
    /\ send \in [pc : {"wait", "load", "frames"}, slot : WireSlot,
                 code : Record \cup {Empty}]

\* No handler runs and no learn is under way.
Quiet == zb = "idle" /\ learn.pc \in {"take", "read", "receive"}

\* When nothing is under way the host knows whether the selected slot holds a
\* code: "1 if the selected slot holds a code" (espir_proto.h:54).  Learning
\* writes the slot without the Zigbee lock (espir_device.c:434), so this needs
\* every path, learning included, to publish after it writes.
OccupiedTruthful ==
    synced /\ Quiet => attr.occupied = Occupied(attr.selected)

\* While the receiver listens and until the code is in its slot, active_learn
\* names the slot the code will go to: "slot being learned, 0xFF = idle"
\* (espir_device.h:54).
ActiveIsLearning ==
    learn.pc \in {"receive", "save"} => active = learn.slot

\* When the host is told CAPTURED, the code that it is told of is in the slot
\* that it is told of.  "the code is still stored and sendable"
\* (espir_device.c:439).
AnnouncedIsStored ==
    attr.status # "captured" /\ attr'.status = "captured" =>
        LET t == attr'.last
        IN  /\ nvs'[t.slot] # Empty
            /\ nvs'[t.slot].kind = t.kind
            /\ nvs'[t.slot].carrier = t.carrier
            /\ t.code \in {<<>>, nvs'[t.slot].blob}

CapturedIsStored == [][AnnouncedIsStored]_deviceVars

\* Every learn that the host has been told is waiting ends with a result, if
\* its slot exists.
LearnSettles ==
    attr.status = "waiting" /\ attr.active \in Slot ~> attr.status # "waiting"

\* A full send queue drains, so SEND is not refused for ever.
SendQueueDrains == Len(sendQ) = SendDepth ~> Len(sendQ) < SendDepth
=============================================================================
