-------------------------- MODULE EspirMasterProofs --------------------------
(***************************************************************************)
(* The master is the device of EspirDevice with a network and a display    *)
(* beside it, so what is proved of its tasks holds in it; and what the     *)
(* display shows is the state of the device, but for the reasons that the  *)
(* model names.                                                            *)
(***************************************************************************)
EXTENDS EspirMaster, EspirDeviceProofs

-----------------------------------------------------------------------------
(* The master implements the device                                        *)

LEMMA MasterStepIsDevice == [MasterNext]_masterVars => [DeviceNext]_deviceVars
  <1> USE DEF DeviceNext, ZbNext, LearnNext, SendNext
  <1>1. ZbQuiet \/ ZbTells \/ ZbReports => DeviceNext
    BY DEF ZbQuiet, ZbTells, ZbReports
  <1>2. LearnQuiet \/ LearnTells => DeviceNext
    BY DEF LearnQuiet, LearnTells
  <1>3. SendQuiet \/ SendTells => DeviceNext
    BY DEF SendQuiet, SendTells
  <1>4. PowerFails => DeviceNext
    BY DEF PowerFails
  <1>5. SignalQuiet \/ SignalTells \/ OledRender \/ PowerOn => UNCHANGED deviceVars
    BY DEF SignalQuiet, SignalTells, OledRender, PowerOn
  <1>6. ASSUME NEW task \in Task, Deliver(task) PROVE UNCHANGED deviceVars
    BY <1>6 DEF Deliver
  <1>7. UNCHANGED masterVars => UNCHANGED deviceVars
    BY DEF masterVars
  <1> HIDE DEF DeviceNext
  <1> QED  BY <1>1, <1>2, <1>3, <1>4, <1>5, <1>6, <1>7 DEF MasterNext

\* The signals of the stack, the display and the notifications between them
\* add nothing to what the tasks do: every behaviour of the master is one of
\* the device (master/main/main.c).
THEOREM MasterImplementsDevice == MasterSpec => DeviceSpec
  <1>1. MasterInit => DeviceInit
    BY DEF MasterInit
  <1> QED  BY <1>1, MasterStepIsDevice, PTL DEF MasterSpec, DeviceSpec

\* The attributes that the host of the whole master reads are those of the
\* device: the occupancy of the selected slot, the slot of a learn, and a code
\* that is in its slot when it is announced (espir_device.c:434-475).
THEOREM MasterTellsTheHost ==
  ASSUME HeldBack({"learn"} \cup Writers), ~NvsMayFail
  PROVE  MasterSpec => CapturedIsStored /\ [](OccupiedTruthful /\ ActiveIsLearning)
  <1>1. HeldBack({"learn"})
    BY DEF HeldBack
  <1>2. DeviceSpec => CapturedIsStored
    BY LearnsAreStored
  <1>3. DeviceSpec => []OccupiedTruthful
    BY <1>1, OccupancyIsTruthful
  <1>4. DeviceSpec => []ActiveIsLearning
    BY <1>1, ActiveSlotIsLearned
  <1> QED  BY <1>2, <1>3, <1>4, MasterImplementsDevice, PTL

-----------------------------------------------------------------------------
(* Types                                                                   *)

\* What a task has taken and not delivered
Notes == {{}} \cup {{i} : i \in Oled!Snapshot}

LockInv == Held("learn") => zb = "idle" /\ ~Held("zb")

MasterTypes ==
  /\ DeviceTypes
  /\ Net!CommissionTypeOK
  /\ Oled!DisplayTypeOK
  /\ note \in [Task -> Notes]
  /\ LockInv

LEMMA MasterTypesSuffice == MasterTypes => MasterTypeOK
  BY DEF MasterTypes, MasterTypeOK, Notes, LockInv

LEMMA InfoType ==
  ASSUME DeviceTypeOK, Net!CommissionTypeOK
  PROVE  Info \in Oled!Snapshot
  <1>1. attr.occupied \in BOOLEAN
    BY DEF DeviceTypeOK
  <1>2. /\ devStatus \in {"boot", "searching", "connected", "sending"}
        /\ status \in {"idle", "waiting", "captured", "failed"}
        /\ selected \in WireSlot /\ active \in WireSlot \cup {SlotIdle}
    BY DEF DeviceTypeOK, LearnStatus, Net!CommissionTypeOK, Net!Status
  <1> QED  BY <1>1, <1>2 DEF Info, Oled!Snapshot

\* The network
LEMMA NetTypes ==
  ASSUME Net!CommissionTypeOK, [MasterNext]_masterVars
  PROVE  Net!CommissionTypeOK'
  <1> USE DEF Net!CommissionTypeOK, Net!NetState, Net!Status, netVars
  <1>1. CASE SignalQuiet
    BY <1>1 DEF SignalQuiet, Net!SkipStartup, Net!StartFailed, Net!Retry
  <1>2. CASE SignalTells
    BY <1>2 DEF SignalTells, Net!StartedNew, Net!SteeredFailed, Net!Joining, Net!StartedKnown,
                Net!SteeredOk, Net!Joined
  <1>3. CASE SendTells
    BY <1>3 DEF SendTells
  <1>4. CASE PowerFails \/ PowerOn
    BY <1>4 DEF PowerFails, PowerOn, Net!NetOff, Net!NetBoot
  <1>5. CASE ZbQuiet \/ ZbTells \/ ZbReports \/ LearnQuiet \/ LearnTells \/ SendQuiet
    BY <1>5 DEF ZbQuiet, ZbTells, ZbReports, LearnQuiet, LearnTells, SendQuiet
  <1>6. CASE (\E task \in Task : Deliver(task)) \/ OledRender \/ UNCHANGED masterVars
    BY <1>6 DEF Deliver, OledRender, masterVars
  <1> QED  BY <1>1, <1>2, <1>3, <1>4, <1>5, <1>6 DEF MasterNext

\* A snapshot is taken and, one task at a time, delivered.
LEMMA NotifyType ==
  ASSUME note \in [Task -> Notes], NEW task \in Task, Notify(task), Info' \in Oled!Snapshot
  PROVE  note' \in [Task -> Notes]
  BY DEF Notify, noteVars, Notes

LEMMA DisplayTypes ==
  ASSUME Oled!DisplayTypeOK, note \in [Task -> Notes], Info' \in Oled!Snapshot,
         [MasterNext]_masterVars
  PROVE  Oled!DisplayTypeOK' /\ note' \in [Task -> Notes]
  <1> USE DEF displayVars, noteVars
  <1> DEFINE Goal == Oled!DisplayTypeOK' /\ note' \in [Task -> Notes]
  <1>a. ASSUME UNCHANGED displayVars PROVE Oled!DisplayTypeOK'
    BY <1>a DEF Oled!DisplayTypeOK
  <1>b. ASSUME NEW task \in Task, UNCHANGED displayVars, Notify(task) PROVE Goal
    BY <1>a, <1>b, NotifyType
  <1>1. ASSUME NEW task \in Task, Deliver(task) PROVE Goal
    <2>1. PICK i \in note[task] : /\ latched' = {i} /\ UNCHANGED <<panel, shown>>
                                  /\ note' = [note EXCEPT ![task] = {}]
      BY <1>1 DEF Deliver, Oled!Update
    <2>2. i \in Oled!Snapshot
      BY <2>1 DEF Notes
    <2>3. note' \in [Task -> Notes]
      BY <2>1 DEF Notes
    <2> QED  BY <2>1, <2>2, <2>3 DEF Oled!DisplayTypeOK
  <1>2. CASE OledRender
    <2>1. PICK i \in latched : shown' \in {Oled!Screen(i), shown}
      BY <1>2 DEF OledRender, Oled!Render
    <2>2. latched' = {} /\ UNCHANGED <<panel, note>>
      BY <1>2 DEF OledRender, Oled!Render
    <2>3. i \in Oled!Snapshot
      BY <2>1 DEF Oled!DisplayTypeOK
    <2> QED  BY <2>1, <2>2, <2>3 DEF Oled!DisplayTypeOK
  <1>3. CASE PowerFails
    <2>1. panel' = FALSE /\ latched' = {} /\ shown' = Oled!Banner /\ note' = NoNote
      BY <1>3 DEF PowerFails, Oled!OledOff
    <2>2. note' \in [Task -> Notes]
      BY <2>1 DEF NoNote, Notes
    <2> QED  BY <2>1, <2>2 DEF Oled!DisplayTypeOK
  <1>4. CASE PowerOn
    BY <1>4 DEF PowerOn, Oled!OledInit, Oled!DisplayTypeOK
  <1>5. CASE ZbTells \/ SignalTells \/ LearnTells \/ SendTells
    <2>1. UNCHANGED displayVars /\ \E task \in Task : Notify(task)
      BY <1>5 DEF ZbTells, SignalTells, LearnTells, SendTells, Task
    <2> QED  BY <1>b, <2>1
  <1>6. CASE ZbQuiet \/ ZbReports \/ SignalQuiet \/ LearnQuiet \/ SendQuiet \/ UNCHANGED masterVars
    <2>1. UNCHANGED displayVars /\ UNCHANGED note
      BY <1>6 DEF ZbQuiet, ZbReports, SignalQuiet, LearnQuiet, SendQuiet, masterVars
    <2> QED  BY <1>a, <2>1
  <1> QED  BY <1>1, <1>2, <1>3, <1>4, <1>5, <1>6 DEF MasterNext

\* The Zigbee lock
LEMMA LockStep ==
  ASSUME note \in [Task -> Notes], LockInv, [MasterNext]_masterVars
  PROVE  LockInv'
  <1> USE DEF noteVars, LockInv, Held, Task
  <1>1. CASE ZbQuiet \/ ZbTells \/ ZbReports \/ SignalQuiet \/ SignalTells
    <2>1. ~Held("learn")
      BY <1>1 DEF ZbQuiet, ZbTells, ZbReports, SignalQuiet, SignalTells, LockFree
    <2>2. note'["learn"] = note["learn"]
      BY <1>1 DEF ZbQuiet, ZbTells, ZbReports, SignalQuiet, SignalTells, Notify
    <2> QED  BY <2>1, <2>2
  <1>2. CASE LearnQuiet
    BY <1>2 DEF LearnQuiet
  <1>3. CASE LearnTells
    <2>1. zb' = "idle" /\ ~Held("zb")
      BY <1>3 DEF LearnTells, LearnPublish, LockFree
    <2>2. note'["zb"] = note["zb"]
      BY <1>3 DEF LearnTells, Notify
    <2> QED  BY <2>1, <2>2
  <1>4. CASE SendQuiet \/ SendTells
    <2>1. zb' = zb
      BY <1>4 DEF SendQuiet, SendTells, SendTake, SendLoad, SendDone
    <2>2. note'["zb"] = note["zb"] /\ note'["learn"] = note["learn"]
      BY <1>4 DEF SendQuiet, SendTells, Notify
    <2> QED  BY <2>1, <2>2
  <1>5. ASSUME NEW task \in Task, Deliver(task) PROVE LockInv'
    <2>1. zb' = zb /\ note' = [note EXCEPT ![task] = {}]
      BY <1>5 DEF Deliver, deviceVars
    <2> QED  BY <2>1
  <1>6. CASE OledRender \/ PowerOn \/ UNCHANGED masterVars
    BY <1>6 DEF OledRender, PowerOn, masterVars, deviceVars
  <1>7. CASE PowerFails
    BY <1>7 DEF PowerFails, NoNote
  <1> QED  BY <1>1, <1>2, <1>3, <1>4, <1>5, <1>6, <1>7 DEF MasterNext

LEMMA MasterInitTypes == MasterInit => MasterTypes
  <1> SUFFICES ASSUME MasterInit PROVE MasterTypes
    OBVIOUS
  <1>1. DeviceTypes
    BY DeviceInitTypes DEF MasterInit
  <1>2. Net!CommissionTypeOK
    BY DEF MasterInit, Net!CommissionInit, Net!CommissionTypeOK, Net!NetState, Net!Status
  <1>3. Oled!DisplayTypeOK
    BY DEF MasterInit, Oled!DisplayStart, Oled!DisplayTypeOK
  <1>4. note \in [Task -> Notes] /\ LockInv
    BY DEF MasterInit, NoNote, Notes, LockInv, Held, Task
  <1> QED  BY <1>1, <1>2, <1>3, <1>4 DEF MasterTypes

LEMMA InfoTyped ==
  ASSUME DeviceTypes', Net!CommissionTypeOK'
  PROVE  Info' \in Oled!Snapshot
  <1>1. (DeviceTypeOK /\ Net!CommissionTypeOK => Info \in Oled!Snapshot)'
    BY InfoType, PTL
  <1> QED  BY <1>1 DEF DeviceTypes, Oled!Snapshot

LEMMA MasterStepTypes == MasterTypes /\ [MasterNext]_masterVars => MasterTypes'
  <1> SUFFICES ASSUME MasterTypes, [MasterNext]_masterVars PROVE MasterTypes'
    OBVIOUS
  <1>1. DeviceTypes'
    BY MasterStepIsDevice, DeviceStepTypes DEF MasterTypes
  <1>2. Net!CommissionTypeOK'
    BY NetTypes DEF MasterTypes
  <1>3. Info' \in Oled!Snapshot
    BY <1>1, <1>2, InfoTyped
  <1>4. Oled!DisplayTypeOK' /\ note' \in [Task -> Notes]
    BY <1>3, DisplayTypes DEF MasterTypes
  <1>5. LockInv'
    BY LockStep DEF MasterTypes
  <1> QED  BY <1>1, <1>2, <1>4, <1>5 DEF MasterTypes

LEMMA MasterTyped == MasterSpec => []MasterTypes
  BY MasterInitTypes, MasterStepTypes, PTL DEF MasterSpec

\* The parts keep their types, and the Zigbee lock has one holder: a handler
\* that waits for its delivery, or the learn task in its own, never both
\* (espir_device.c:469-475).
THEOREM MasterTypeCorrect == MasterSpec => []MasterTypeOK
  BY MasterTyped, MasterTypesSuffice, PTL

-----------------------------------------------------------------------------
(* The display                                                             *)

\* A task has changed what a snapshot shows, or is about to, and takes a new
\* snapshot when it is done.
Telling == zb \in {"waiting", "tell", "publish"} \/ learn.pc \in {"idle", "lock"}

Nobody == \A task \in Task : ~Held(task)

OneAtMost == \A t, u \in Task : Held(t) /\ Held(u) => t = u

\* The snapshots on their way to the panel, and the panel when there is none,
\* show the device as it is.
Current ==
    /\ \A task \in Task : \A i \in note[task] : Oled!Screen(i) = Oled!Screen(Info)
    /\ Nobody => \A i \in latched : Oled!Screen(i) = Oled!Screen(Info)
    /\ Nobody /\ latched = {} => shown = Oled!Screen(Info)

DisplayInv ==
    /\ net = "off" => panel = FALSE
    /\ \A i, j \in latched : i = j
    /\ excused # "lag" => panel = TRUE /\ OneAtMost
    /\ excused = "no" /\ ~Telling => Current

\* Steps that show nothing, and change nothing that a snapshot shows without
\* taking one afterwards
LEMMA QuietKeepsDisplay ==
  ASSUME DisplayInv, UNCHANGED <<displayVars, note>>,
         net' = "off" => net = "off",
         excused' = "no" => excused = "no",
         excused' # "lag" => excused # "lag",
         excused' = "no" /\ ~Telling' => ~Telling /\ Info' = Info
  PROVE  DisplayInv'
  <1> USE DEF displayVars
  <1>1. OneAtMost => OneAtMost'
    BY DEF OneAtMost, Held
  <1>2. Current /\ Info' = Info => Current'
    BY DEF Current, Nobody, Held
  <1>3. /\ net' = "off" => panel' = FALSE
        /\ \A i, j \in latched' : i = j
    BY DEF DisplayInv
  <1>4. excused' # "lag" => panel' = TRUE /\ OneAtMost'
    BY <1>1 DEF DisplayInv
  <1>5. excused' = "no" /\ ~Telling' => Current'
    BY <1>2 DEF DisplayInv
  <1> QED  BY <1>3, <1>4, <1>5 DEF DisplayInv

\* A new snapshot, after which all the older ones have been delivered or the
\* display may lag
LEMMA NotifyKeepsDisplay ==
  ASSUME DisplayInv, note \in [Task -> Notes], NEW task \in Task, Notify(task),
         panel \in BOOLEAN, UNCHANGED displayVars, net' = "off" => net = "off"
  PROVE  DisplayInv'
  <1> USE DEF displayVars, noteVars
  <1>1. CASE ~panel
    <2>1. panel # TRUE
      BY <1>1, Zenon
    <2>2. excused = "lag"
      BY <2>1 DEF DisplayInv
    <2>3. excused' = excused
      BY <1>1, Zenon DEF Notify
    <2> QED  BY <2>2, <2>3 DEF DisplayInv
  <1>2. CASE panel
    <2>1. note' = [note EXCEPT ![task] = {Info'}]
      BY <1>2 DEF Notify
    <2>2. Held(task)'
      BY <2>1 DEF Held
    <2>3. Current' <=> \A t \in Task : \A i \in note'[t] : Oled!Screen(i) = Oled!Screen(Info)'
      BY <2>2 DEF Current, Nobody
    <2>4. CASE excused' = "lag"
      BY <2>4 DEF DisplayInv
    <2>5. CASE excused' # "lag"
      <3>1. \A t \in Task \ {task} : ~Held(t)
        BY <1>2, <2>5 DEF Notify
      <3>2. \A t \in Task \ {task} : note'[t] = {}
        BY <2>1, <3>1 DEF Held
      <3>3. OneAtMost'
        BY <3>2 DEF OneAtMost, Held
      <3>4. Current'
        BY <2>1, <2>3, <3>2
      <3>5. panel' = TRUE
        BY <1>2, Zenon
      <3> QED  BY <3>3, <3>4, <3>5 DEF DisplayInv
    <2> QED  BY <2>4, <2>5
  <1> QED  BY <1>1, <1>2

LEMMA DeliverKeepsDisplay ==
  ASSUME DisplayInv, note \in [Task -> Notes], NEW task \in Task, Deliver(task)
  PROVE  DisplayInv'
  <1>1. PICK i \in note[task] : latched' = {i}
    BY DEF Deliver, Oled!Update
  <1>2. /\ note' = [note EXCEPT ![task] = {}]
        /\ UNCHANGED <<deviceVars, netVars, panel, shown, excused>>
    BY DEF Deliver, Oled!Update
  <1>3. OneAtMost => OneAtMost'
    BY <1>2 DEF OneAtMost, Held
  <1>4. Current => Current'
    <2>1. Info' = Info
      BY <1>2 DEF deviceVars, ramVars, attrVars, netVars, Info
    <2>2. \A t \in Task : note'[t] \subseteq note[t]
      BY <1>2
    <2> QED  BY <1>1, <2>1, <2>2 DEF Current
  <1>5. Telling' <=> Telling
    BY <1>2 DEF deviceVars, learnVars, Telling
  <1>6. /\ net' = "off" => panel' = FALSE
        /\ \A j, k \in latched' : j = k
    BY <1>1, <1>2 DEF DisplayInv, netVars
  <1>7. excused' # "lag" => panel' = TRUE /\ OneAtMost'
    BY <1>2, <1>3 DEF DisplayInv
  <1>8. excused' = "no" /\ ~Telling' => Current'
    BY <1>2, <1>4, <1>5 DEF DisplayInv
  <1> QED  BY <1>6, <1>7, <1>8 DEF DisplayInv

LEMMA RenderKeepsDisplay == ASSUME DisplayInv, OledRender PROVE DisplayInv'
  <1>1. PICK i \in latched : shown' \in {Oled!Screen(i), shown}
    BY DEF OledRender, Oled!Render
  <1>2. latched' = {} /\ UNCHANGED <<deviceVars, netVars, note, panel>>
    BY DEF OledRender, Oled!Render
  <1>3. excused' # "lag" => excused' = excused
    BY DEF OledRender
  <1>4. excused' # "lag" => shown' = Oled!Screen(i)
    <2>1. {Oled!Screen(j) : j \in latched} = {Oled!Screen(i)}
      BY <1>1 DEF DisplayInv
    <2> QED  BY <2>1 DEF OledRender
  <1>5. OneAtMost' <=> OneAtMost
    BY <1>2 DEF OneAtMost, Held
  <1>6. excused' # "lag" /\ Current => Current'
    <2>1. Info' = Info
      BY <1>2 DEF deviceVars, ramVars, attrVars, netVars, Info
    <2> QED  BY <1>1, <1>2, <1>4, <2>1 DEF Current, Nobody, Held
  <1>7. Telling' <=> Telling
    BY <1>2 DEF deviceVars, learnVars, Telling
  <1>8. /\ net' = "off" => panel' = FALSE
        /\ \A j, k \in latched' : j = k
    BY <1>2 DEF DisplayInv, netVars
  <1>9. excused' # "lag" => panel' = TRUE /\ OneAtMost'
    BY <1>2, <1>3, <1>5 DEF DisplayInv
  <1>10. excused' = "no" /\ ~Telling' => Current'
    BY <1>3, <1>6, <1>7 DEF DisplayInv
  <1> QED  BY <1>8, <1>9, <1>10 DEF DisplayInv

\* A handler is telling when it has changed what a snapshot shows.
LEMMA HandlersTell ==
  ASSUME DeviceTypes, UNCHANGED netVars, Commands \/ LearnWaiting \/ LearnGive
  PROVE  Telling' \/ (~Telling /\ Info' = Info)
  <1> USE DEF Telling, learnVars, attrVars, netVars
  <1>1. ASSUME NEW slot \in WireSlot, CmdLearn(slot) PROVE Telling'
    BY <1>1 DEF CmdLearn
  <1>2. ASSUME NEW slot \in WireSlot, CmdSend(slot) PROVE (Telling' <=> Telling) /\ Info' = Info
    BY <1>2 DEF CmdSend, ramVars, Info
  <1>3. ASSUME NEW slot \in WireSlot, CmdSelect(slot) PROVE Telling'
    BY <1>3 DEF CmdSelect
  <1>4. ASSUME ToPublish PROVE Telling'
    BY <1>4 DEF ToPublish
  <1>5. ASSUME CmdBeginOrChunk PROVE (Telling' <=> Telling) /\ Info' = Info
    BY <1>5 DEF CmdBeginOrChunk, ramVars, Info
  <1>6. ASSUME LearnWaiting PROVE Telling'
    BY <1>6 DEF LearnWaiting
  <1>7. ASSUME LearnGive PROVE (Telling => Telling') /\ Info' = Info
    BY <1>7 DEF LearnGive, ramVars, Info
  <1> HIDE DEF Telling
  <1> QED
    BY <1>1, <1>2, <1>3, <1>4, <1>5, <1>6, <1>7 DEF Commands, CmdClear, CmdProgram, CmdCommit

\* So is the learn task.
LEMMA LearnTellsLater ==
  ASSUME DeviceTypes, UNCHANGED netVars,
         LearnTake \/ LearnRead \/ LearnReceive \/ LearnSave \/ LearnResult \/ LearnSetIdle
  PROVE  Telling' \/ (~Telling /\ Info' = Info)
  <1> USE DEF Telling, learnVars, attrVars, netVars, LearnAlone
  <1>0. learn \in [pc : {"take", "read", "receive", "save", "result", "idle", "lock"},
                   slot : Slot, code : Capture \cup {Empty}]
    BY DEF DeviceTypes, DeviceTypeOK
  <1>1. CASE LearnTake \/ LearnRead \/ LearnReceive \/ LearnSave
    <2>1. learn.pc \notin {"idle", "lock"} /\ zb' = zb
      BY <1>1 DEF LearnTake, LearnRead, LearnReceive, LearnSave
    <2>2. Info' = Info
      BY <1>1 DEF LearnTake, LearnRead, LearnReceive, LearnSave, Info
    <2> QED  BY <2>1, <2>2
  <1>2. CASE LearnResult \/ LearnSetIdle
    <2>1. learn'.pc \in {"idle", "lock"}
      BY <1>0, <1>2 DEF LearnResult, LearnSetIdle
    <2> QED  BY <2>1
  <1> QED  BY <1>1, <1>2

LEMMA TellerKeepsDisplay ==
  ASSUME DisplayInv, MasterTypes, ZbTells \/ SignalTells \/ LearnTells \/ SendTells
  PROVE  DisplayInv'
  <1>1. UNCHANGED displayVars /\ \E task \in Task : Notify(task)
    BY DEF ZbTells, SignalTells, LearnTells, SendTells, Task
  <1>2. net' = "off" => net = "off"
    BY DEF ZbTells, SignalTells, LearnTells, SendTells, netVars, Net!StartedNew,
           Net!SteeredFailed, Net!Joining, Net!StartedKnown, Net!SteeredOk, Net!Joined
  <1>3. panel \in BOOLEAN /\ note \in [Task -> Notes]
    BY DEF MasterTypes, Oled!DisplayTypeOK
  <1> QED  BY <1>1, <1>2, <1>3, NotifyKeepsDisplay

\* report_all excuses itself when it tells the host something new.
LEMMA ReportKeepsDisplay == ASSUME DisplayInv, MasterTypes, ZbReports PROVE DisplayInv'
  <1>1. UNCHANGED <<netVars, displayVars, note>> /\ UNCHANGED <<ramVars, zb, learnVars>>
    BY DEF ZbReports, ReportAll
  <1>2. Telling' <=> Telling
    BY <1>1 DEF Telling, learnVars
  <1>3. /\ excused' = "no" => excused = "no" /\ attr'.occupied = attr.occupied
        /\ excused' # "lag" => excused # "lag"
    BY DEF ZbReports
  <1>4. attr'.occupied = attr.occupied => Info' = Info
    BY <1>1 DEF Info, ramVars, netVars
  <1> QED  BY <1>1, <1>2, <1>3, <1>4, QuietKeepsDisplay DEF netVars

LEMMA OthersKeepDisplay ==
  ASSUME DisplayInv, MasterTypes, ZbQuiet \/ LearnQuiet \/ SignalQuiet \/ SendQuiet
  PROVE  DisplayInv'
  <1>1. UNCHANGED <<displayVars, note>> /\ excused' = excused
    BY DEF ZbQuiet, LearnQuiet, SignalQuiet, SendQuiet, noteVars
  <1>2. net' = "off" => net = "off"
    BY DEF ZbQuiet, LearnQuiet, SignalQuiet, SendQuiet, netVars, Net!SkipStartup, Net!StartFailed,
           Net!Retry
  <1>3. CASE ZbQuiet
    <2>1. Telling' \/ (~Telling /\ Info' = Info)
      BY <1>3, HandlersTell DEF ZbQuiet, MasterTypes
    <2> QED  BY <1>1, <1>2, <2>1, QuietKeepsDisplay
  <1>4. CASE LearnQuiet
    <2>1. Telling' \/ (~Telling /\ Info' = Info)
      BY <1>4, LearnTellsLater DEF LearnQuiet, MasterTypes
    <2> QED  BY <1>1, <1>2, <2>1, QuietKeepsDisplay
  <1>5. CASE SignalQuiet \/ SendQuiet
    <2>1. UNCHANGED <<devStatus, ramVars, attrVars, zb, learnVars>>
      BY <1>5 DEF SignalQuiet, SendQuiet, SendTake, SendLoad, deviceVars, netVars, Net!SkipStartup,
                  Net!StartFailed, Net!Retry
    <2>2. (Telling' <=> Telling) /\ Info' = Info
      BY <2>1 DEF Telling, Info, learnVars, ramVars, attrVars
    <2> QED  BY <1>1, <1>2, <2>2, QuietKeepsDisplay
  <1> QED  BY <1>3, <1>4, <1>5

LEMMA DisplayStep == MasterTypes /\ DisplayInv /\ [MasterNext]_masterVars => DisplayInv'
  <1> SUFFICES ASSUME MasterTypes, DisplayInv, [MasterNext]_masterVars PROVE DisplayInv'
    OBVIOUS
  <1>1. ASSUME NEW task \in Task, Deliver(task) PROVE DisplayInv'
    BY <1>1, DeliverKeepsDisplay DEF MasterTypes
  <1>2. CASE PowerFails
    <2>1. /\ panel' = FALSE /\ latched' = {} /\ excused' = "lag"
      BY <1>2 DEF PowerFails, Oled!OledOff
    <2> QED  BY <2>1 DEF DisplayInv
  <1>3. CASE PowerOn
    <2>1. net = "off" /\ net' = "starting" /\ latched' = {} /\ excused' = excused
      BY <1>3 DEF PowerOn, Net!NetBoot, Oled!OledInit, noteVars
    <2>2. excused = "lag"
      BY <2>1 DEF DisplayInv
    <2> QED  BY <2>1, <2>2 DEF DisplayInv
  <1>4. CASE UNCHANGED masterVars
    <2>1. UNCHANGED <<net, displayVars, note, excused>> /\ (Telling' <=> Telling) /\ Info' = Info
      BY <1>4 DEF masterVars, deviceVars, netVars, noteVars, Telling, Info, learnVars, ramVars,
                  attrVars
    <2> QED  BY <2>1, QuietKeepsDisplay
  <1> QED
    BY <1>1, <1>2, <1>3, <1>4, TellerKeepsDisplay, ReportKeepsDisplay, OthersKeepDisplay,
       RenderKeepsDisplay DEF MasterNext

\* When nothing is under way the panel shows the device as it is, unless two
\* deliveries have overlapped, a flush has failed or report_all has found a
\* change: every other path that changes a field of espir_info_t takes a
\* snapshot after it, whichever tasks run in between (espir_device.c:68-79).
THEOREM DisplayIsTruthful == MasterSpec => []DisplayTruthful
  <1>1. MasterInit => DisplayInv
    BY DEF MasterInit, Oled!DisplayStart, DisplayInv
  <1>2. DisplayInv => DisplayTruthful
    <2> SUFFICES ASSUME DisplayInv, Settled, excused = "no" PROVE shown = Oled!Screen(Info)
      BY DEF DisplayTruthful
    <2>1. ~Telling /\ Nobody /\ latched = {}
      BY DEF Settled, Quiet, Telling, Nobody
    <2> QED  BY <2>1 DEF DisplayInv, Current
  <1> QED  BY <1>1, <1>2, MasterTyped, DisplayStep, PTL DEF MasterSpec

=============================================================================
