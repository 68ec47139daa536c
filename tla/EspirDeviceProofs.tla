------------------------- MODULE EspirDeviceProofs --------------------------
(***************************************************************************)
(* The invariants of the master's three tasks, for any number of slots,    *)
(* any codes, any length of the send queue and any commands; where a host  *)
(* that does not wait would break one, the theorem says what it has to     *)
(* hold back.                                                              *)
(***************************************************************************)
EXTENDS EspirDevice, EspirStoreProofs

\* The host holds these commands back while a learn is under way, or does not
\* use them.
HeldBack(commands) == commands \cap Command \subseteq Patient

LEMMA SlotZero == 0 \in Slot /\ Slot \subseteq WireSlot /\ Slot \subseteq Nat
  BY StoreAssumption, SMT DEF Slot

LEMMA CapturesAreRecords == Capture \subseteq Record /\ Empty \notin Capture
  BY StoreAssumption, DeviceAssumption

\* espir_store_load returns a well-formed code or none.
LEMMA LoadType ==
  ASSUME NEW r \in Record \cup {Empty}
  PROVE  Load(r) \in Record \cup {Empty}
  <1>1. CASE r = Empty \/ ~Decodable(r)
    BY <1>1 DEF Load
  <1>2. CASE r # Empty /\ Decodable(r)
    <2> DEFINE carrier == IF r.carrier = 0 THEN DefaultCarrier ELSE r.carrier
               blob == IF r.kind = "nec" THEN SubSeq(r.blob, 1, NecBytes) ELSE r.blob
    <2>1. r \in Record /\ r.blob \in Seq(Byte) /\ Len(r.blob) <= RawMaxBytes
      BY <1>2 DEF Record, Blob
    <2>2. r.kind \in Kind /\ carrier \in Carrier
      BY <2>1, StoreAssumption DEF Record
    <2>3. blob \in Blob
      <3>1. CASE r.kind = "nec"
        <4>1. NecBytes \in Nat /\ RawMaxBytes \in Nat /\ 1 <= NecBytes /\ NecBytes <= RawMaxBytes
          BY StoreAssumption, SMT
        <4>2. NecBytes <= Len(r.blob) /\ Len(r.blob) \in Nat
          BY <1>2, <2>1, <3>1, LenProperties DEF Decodable
        <4>3. /\ SubSeq(r.blob, 1, NecBytes) \in Seq(Byte)
              /\ Len(SubSeq(r.blob, 1, NecBytes)) = NecBytes
          BY <2>1, <4>1, <4>2, SubSeqProperties, SMT
        <4> QED  BY <3>1, <4>1, <4>3 DEF Blob
      <3>2. CASE r.kind # "nec"
        BY <2>1, <3>2 DEF Blob
      <3> QED  BY <3>1, <3>2
    <2>4. Load(r) = [kind |-> r.kind, carrier |-> carrier, blob |-> blob]
      BY <1>2 DEF Load
    <2> HIDE DEF carrier, blob
    <2> QED  BY <2>2, <2>3, <2>4 DEF Record
  <1> QED  BY <1>1, <1>2

-----------------------------------------------------------------------------
(* Types                                                                   *)

\* The learn task has a code from its capture to its publication.
CodeHeld ==
    /\ learn.pc \in {"take", "read", "receive"} => learn.code = Empty
    /\ learn.pc = "save" => learn.code # Empty

DeviceTypes == StoreTypeOK /\ DeviceTypeOK /\ CodeHeld

LEMMA NoLastType == NoLast \in Last
  BY SlotZero, StoreAssumption, EmptySeq DEF NoLast, Last

LEMMA LearnedType ==
  ASSUME DeviceTypeOK, learn.code # Empty
  PROVE  Learned \in Last
  <1>1. learn.slot \in Slot /\ learn.code \in Record
    BY CapturesAreRecords DEF DeviceTypeOK
  <1>2. /\ learn.code.kind \in Kind
        /\ learn.code.carrier \in Carrier
        /\ learn.code.blob \in Seq(Byte)
    BY <1>1 DEF Record, Blob
  <1> QED  BY <1>1, <1>2, EmptySeq DEF Learned, Last

LEMMA OccupiedType == ASSUME NEW slot PROVE Occupied(slot) \in BOOLEAN
  BY DEF Occupied

LEMMA DeviceInitTypes == DeviceInit => DeviceTypes
  <1> SUFFICES ASSUME DeviceInit PROVE DeviceTypes
    OBVIOUS
  <1>1. StoreTypeOK
    BY CapturesAreRecords, NoProgType DEF DeviceInit, StoreTypeOK
  <1>2. DeviceTypeOK
    <2>1. 0 \in Slot /\ 0 \in WireSlot
      BY SlotZero
    <2>2. /\ active \in WireSlot \cup {SlotIdle} /\ status \in LearnStatus
          /\ selected \in WireSlot /\ last \in Last
      BY <2>1, NoLastType DEF DeviceInit, LearnStatus
    <2>3. attr \in [active : WireSlot \cup {SlotIdle}, status : LearnStatus,
                   selected : WireSlot, occupied : BOOLEAN, last : Last]
      BY <2>1, NoLastType DEF DeviceInit, BootAttr, LearnStatus
    <2>4. learn \in [pc : {"take", "read", "receive", "save", "result", "idle", "lock"},
                    slot : Slot, code : Capture \cup {Empty}]
      BY <2>1 DEF DeviceInit, LearnIdle
    <2>5. send \in [pc : {"wait", "load", "frames"}, slot : WireSlot,
                   code : Record \cup {Empty}]
      BY <2>1 DEF DeviceInit, SendIdle
    <2>6. sendQ \in Seq(WireSlot) /\ Len(sendQ) <= SendDepth
      BY DeviceAssumption, EmptySeq DEF DeviceInit
    <2> QED  BY <2>2, <2>3, <2>4, <2>5, <2>6 DEF DeviceInit, DeviceTypeOK
  <1>3. CodeHeld
    BY DEF DeviceInit, CodeHeld, LearnIdle
  <1> QED  BY <1>1, <1>2, <1>3 DEF DeviceTypes

\* What the tasks do to the store
StoreCall ==
    \/ StoreNext
    \/ \E slot \in Slot, code \in Record : Save(slot, code)
    \/ UNCHANGED storeVars

LEMMA DeviceCallsStore == DeviceTypes /\ [DeviceNext]_deviceVars => StoreCall
  <1> SUFFICES ASSUME DeviceTypes, [DeviceNext]_deviceVars PROVE StoreCall
    OBVIOUS
  <1>1. CASE Commands
    <2>1. ASSUME NEW slot \in WireSlot, CmdLearn(slot) \/ CmdSend(slot) \/ CmdSelect(slot)
          PROVE  UNCHANGED storeVars
      BY <2>1 DEF CmdLearn, CmdSend, CmdSelect
    <2>2. ASSUME NEW slot \in WireSlot, CmdClear(slot) \/ CmdCommit(slot)
          PROVE  StoreNext
      BY <2>2 DEF CmdClear, CmdCommit, StoreNext
    <2>3. ASSUME NEW slot \in WireSlot, NEW kind \in Kind, NEW carrier \in Carrier,
                 NEW blob \in FrameBlob, CmdProgram(slot, kind, carrier, blob)
          PROVE  StoreNext
      BY <2>3 DEF CmdProgram, StoreNext
    <2>4. ASSUME CmdBeginOrChunk PROVE StoreNext
      BY <2>4 DEF CmdBeginOrChunk, StoreNext
    <2>5. StoreNext \/ UNCHANGED storeVars
      BY <1>1, <2>1, <2>2, <2>3, <2>4 DEF Commands
    <2> QED  BY <2>5 DEF StoreCall
  <1>2. CASE LearnSave
    <2>1. learn.slot \in Slot /\ learn.code \in Record
      BY <1>2, CapturesAreRecords DEF LearnSave, DeviceTypes, DeviceTypeOK, CodeHeld
    <2> QED  BY <1>2, <2>1 DEF LearnSave, StoreCall
  <1>3. CASE PowerLoss
    BY <1>3 DEF PowerLoss, StoreNext, StoreCall
  <1>4. CASE \/ LearnWaiting \/ LearnTell \/ LearnGive \/ Publish \/ ReportAll
             \/ LearnTake \/ LearnRead \/ LearnReceive \/ LearnResult \/ LearnSetIdle
             \/ LearnPublish \/ SendNext \/ UNCHANGED deviceVars
    BY <1>4 DEF LearnWaiting, LearnTell, LearnGive, Publish, ReportAll, LearnTake, LearnRead,
                LearnReceive, LearnResult, LearnSetIdle, LearnPublish, SendNext, SendTake,
                SendLoad, SendDone, deviceVars, StoreCall
  <1> QED  BY <1>1, <1>2, <1>3, <1>4 DEF DeviceNext, ZbNext, LearnNext

LEMMA StoreCallType == StoreTypeOK /\ StoreCall => StoreTypeOK'
  BY StoreNextType, SaveType DEF StoreCall


\* The attributes that a learn and the occupancy are published in
Attributes == [active : WireSlot \cup {SlotIdle}, status : LearnStatus,
               selected : WireSlot, occupied : BOOLEAN, last : Last]

LEMMA ToldType ==
  ASSUME DeviceTypeOK, NEW a \in Attributes
  PROVE  Told(a) \in Attributes
  BY DEF Told, Attributes, DeviceTypeOK

LEMMA WithOccupancyType ==
  ASSUME NEW a \in Attributes
  PROVE  WithOccupancy(a) \in Attributes
  BY OccupiedType DEF WithOccupancy, Attributes

LEMMA WithLastType ==
  ASSUME DeviceTypeOK, NEW a \in Attributes
  PROVE  WithLast(a) \in Attributes
  <1>1. [a EXCEPT !.last = last] \in Attributes
    BY DEF Attributes, DeviceTypeOK
  <1> QED  BY <1>1, WithOccupancyType DEF WithLast

LEMMA ZbTypes ==
  ASSUME DeviceTypeOK, ZbNext
  PROVE  DeviceTypeOK'
  <1> USE DEF ramVars, attrVars, learnVars, sendVars
  <1>0. attr \in Attributes
    BY DEF DeviceTypeOK, Attributes
  <1>1. ASSUME NEW slot \in WireSlot, CmdLearn(slot) PROVE DeviceTypeOK'
    BY <1>1 DEF CmdLearn, DeviceTypeOK
  <1>2. ASSUME NEW slot \in WireSlot, CmdSend(slot) PROVE DeviceTypeOK'
    <2>1. sendQ' \in Seq(WireSlot) /\ Len(sendQ') <= SendDepth
      <3>1. /\ Append(sendQ, slot) \in Seq(WireSlot)
            /\ Len(Append(sendQ, slot)) = Len(sendQ) + 1
        BY AppendProperties DEF DeviceTypeOK
      <3>2. Len(sendQ) \in Nat /\ SendDepth \in Nat
        BY DeviceAssumption, LenProperties DEF DeviceTypeOK
      <3> QED  BY <1>2, <3>1, <3>2, SMT DEF CmdSend, DeviceTypeOK
    <2> QED  BY <1>2, <2>1 DEF CmdSend, DeviceTypeOK
  <1>3. ASSUME NEW slot \in WireSlot, CmdSelect(slot) PROVE DeviceTypeOK'
    BY <1>3 DEF CmdSelect, DeviceTypeOK
  <1>4. ASSUME ToPublish PROVE DeviceTypeOK'
    BY <1>4 DEF ToPublish, DeviceTypeOK
  <1>5. ASSUME CmdBeginOrChunk PROVE DeviceTypeOK'
    BY <1>5 DEF CmdBeginOrChunk, DeviceTypeOK
  <1>6. ASSUME Commands PROVE DeviceTypeOK'
    BY <1>1, <1>2, <1>3, <1>4, <1>5, <1>6 DEF Commands, CmdClear, CmdProgram, CmdCommit
  <1>7. ASSUME LearnWaiting PROVE DeviceTypeOK'
    BY <1>7 DEF LearnWaiting, LearnStatus, DeviceTypeOK
  <1>8. ASSUME LearnTell PROVE DeviceTypeOK'
    <2>1. attr' \in Attributes
      BY <1>0, <1>8, ToldType DEF LearnTell
    <2> QED  BY <1>8, <2>1 DEF LearnTell, DeviceTypeOK, Attributes
  <1>9. ASSUME LearnGive PROVE DeviceTypeOK'
    BY <1>9 DEF LearnGive, DeviceTypeOK
  <1>10. ASSUME Publish PROVE DeviceTypeOK'
    <2>1. attr' \in Attributes
      BY <1>0, <1>10, WithOccupancyType DEF Publish
    <2> QED  BY <1>10, <2>1 DEF Publish, DeviceTypeOK, Attributes
  <1>11. ASSUME ReportAll PROVE DeviceTypeOK'
    <2>1. [attr EXCEPT !.selected = selected] \in Attributes
      BY <1>0 DEF Attributes, DeviceTypeOK
    <2>2. attr' \in Attributes
      BY <1>11, <2>1, WithOccupancyType DEF ReportAll
    <2> QED  BY <1>11, <2>2 DEF ReportAll, DeviceTypeOK, Attributes
  <1> QED  BY <1>6, <1>7, <1>8, <1>9, <1>10, <1>11 DEF ZbNext

LearnTask == [pc : {"take", "read", "receive", "save", "result", "idle", "lock"},
              slot : Slot, code : Capture \cup {Empty}]

\* A step of the learn task that leaves the attributes and the queue alone
LEMMA LearnKeepsTypes ==
  ASSUME DeviceTypeOK, learn' \in LearnTask, learnSem' \in BOOLEAN,
         UNCHANGED <<active, status, selected, last, attr, synced, zb, sendQ, send>>
  PROVE  DeviceTypeOK'
  BY ZenonT(60) DEF DeviceTypeOK, LearnTask

LEMMA LearnTypes ==
  ASSUME DeviceTypeOK, CodeHeld, LearnNext
  PROVE  DeviceTypeOK' /\ CodeHeld'
  <1> USE DEF ramVars, attrVars, learnVars, sendVars, LearnAlone
  <1> DEFINE Keeps == /\ UNCHANGED <<active, status, selected, last, attr, synced, zb, sendQ, send>>
                      /\ learnSem' \in BOOLEAN
  <1>0. learn \in LearnTask /\ LearnIdle \in LearnTask
    BY SlotZero DEF DeviceTypeOK, LearnIdle, LearnTask
  <1>1. CASE LearnTake
    <2>1. learn' \in LearnTask /\ CodeHeld'
      BY <1>0, <1>1 DEF LearnTake, CodeHeld, LearnTask
    <2>2. Keeps
      BY <1>1, Zenon DEF LearnTake, DeviceTypeOK
    <2> QED  BY <2>1, <2>2, LearnKeepsTypes
  <1>2. CASE LearnRead
    <2>1. Keeps /\ learn.pc = "read"
      BY <1>2, Zenon DEF LearnRead, DeviceTypeOK
    <2>2. \/ learn' = LearnIdle
          \/ Target \in Slot /\ learn' = [learn EXCEPT !.pc = "receive", !.slot = Target]
      BY <1>2 DEF LearnRead, Learnable
    <2>3. learn.code = Empty /\ LearnIdle.code = Empty /\ LearnIdle.pc = "take"
      BY <2>1 DEF CodeHeld, LearnIdle
    <2>4. ASSUME learn' = LearnIdle
          PROVE  learn' \in LearnTask /\ CodeHeld'
      BY <1>0, <2>3, <2>4 DEF CodeHeld
    <2>5. ASSUME Target \in Slot, learn' = [learn EXCEPT !.pc = "receive", !.slot = Target]
          PROVE  learn' \in LearnTask /\ CodeHeld'
      <3>1. learn' \in LearnTask /\ learn'.pc = "receive" /\ learn'.code = Empty
        BY <1>0, <2>3, <2>5 DEF LearnTask
      <3> QED  BY <3>1 DEF CodeHeld
    <2> QED  BY <2>1, <2>2, <2>4, <2>5, LearnKeepsTypes
  <1>3. CASE LearnReceive
    <2>1. Keeps /\ learn.pc = "receive"
      BY <1>3, Zenon DEF LearnReceive, DeviceTypeOK
    <2>2. ASSUME NEW code \in Capture, learn' = [learn EXCEPT !.pc = "save", !.code = code]
          PROVE  learn' \in LearnTask /\ CodeHeld'
      <3>1. learn' \in LearnTask /\ learn'.pc = "save" /\ learn'.code = code
        BY <1>0, <2>2 DEF LearnTask
      <3>2. code # Empty
        BY CapturesAreRecords
      <3> QED  BY <3>1, <3>2 DEF CodeHeld
    <2>3. ASSUME learn' = [learn EXCEPT !.pc = "result"]
          PROVE  learn' \in LearnTask /\ CodeHeld'
      BY <1>0, <2>3 DEF CodeHeld, LearnTask
    <2>4. learn' \in LearnTask /\ CodeHeld'
      BY <1>3, <2>2, <2>3 DEF LearnReceive
    <2> QED  BY <2>1, <2>4, LearnKeepsTypes
  <1>4. CASE LearnSave
    BY <1>4 DEF LearnSave, DeviceTypeOK, CodeHeld
  <1>5. CASE LearnResult
    <2>1. status' \in LearnStatus
      BY <1>5 DEF LearnResult, LearnStatus
    <2>2. last' \in Last
      BY <1>5, LearnedType DEF LearnResult, DeviceTypeOK
    <2> QED  BY <1>5, <2>1, <2>2 DEF LearnResult, DeviceTypeOK, CodeHeld
  <1>6. CASE LearnSetIdle
    BY <1>6 DEF LearnSetIdle, DeviceTypeOK, CodeHeld
  <1>7. CASE LearnPublish
    <2>1. attr \in Attributes
      BY DEF DeviceTypeOK, Attributes
    <2>2. attr' \in Attributes
      BY <1>7, <2>1, ToldType, WithLastType DEF LearnPublish
    <2>3. learn' \in LearnTask /\ learn' = LearnIdle
      BY <1>0, <1>7 DEF LearnPublish
    <2> QED  BY <1>7, <2>2, <2>3 DEF LearnPublish, DeviceTypeOK, CodeHeld, Attributes, LearnIdle, LearnTask
  <1> QED  BY <1>1, <1>2, <1>3, <1>4, <1>5, <1>6, <1>7 DEF LearnNext

\* A step of the send task that takes from the queue
LEMMA SendKeepsTypes ==
  ASSUME DeviceTypeOK,
         send' \in [pc : {"wait", "load", "frames"}, slot : WireSlot, code : Record \cup {Empty}],
         sendQ' \in Seq(WireSlot) /\ Len(sendQ') <= SendDepth,
         UNCHANGED <<active, status, selected, last, attr, synced, zb, learnSem, learn>>
  PROVE  DeviceTypeOK'
  <1>1. active' \in WireSlot \cup {SlotIdle} /\ status' \in LearnStatus
        /\ selected' \in WireSlot /\ last' \in Last
    BY DEF DeviceTypeOK
  <1>2. attr' \in [active : WireSlot \cup {SlotIdle}, status : LearnStatus,
                    selected : WireSlot, occupied : BOOLEAN, last : Last]
        /\ synced' \in BOOLEAN /\ learnSem' \in BOOLEAN
    BY Zenon DEF DeviceTypeOK
  <1>3. zb' \in {"idle", "waiting", "tell", "give", "publish"}
        /\ learn' \in [pc : {"take", "read", "receive", "save", "result", "idle", "lock"},
                        slot : Slot, code : Capture \cup {Empty}]
    BY DEF DeviceTypeOK
  <1> QED  BY <1>1, <1>2, <1>3, Zenon DEF DeviceTypeOK

LEMMA SendTypes ==
  ASSUME StoreTypeOK, DeviceTypeOK, SendNext
  PROVE  DeviceTypeOK'
  <1> USE DEF ramVars, attrVars, learnVars, sendVars
  <1> DEFINE W == [pc : {"wait", "load", "frames"}, slot : WireSlot,
                   code : Record \cup {Empty}]
  <1>0. send \in W /\ SendIdle \in W
    BY SlotZero DEF DeviceTypeOK, SendIdle
  <1>1. CASE SendTake
    <2>1. sendQ # <<>> /\ sendQ \in Seq(WireSlot)
      BY <1>1 DEF SendTake, DeviceTypeOK
    <2>2. /\ Head(sendQ) \in WireSlot
          /\ Tail(sendQ) \in Seq(WireSlot)
          /\ Len(Tail(sendQ)) = Len(sendQ) - 1
      BY <2>1, HeadTailProperties
    <2>3. Len(sendQ) \in Nat /\ SendDepth \in Nat /\ Len(sendQ) <= SendDepth
      BY DeviceAssumption, LenProperties DEF DeviceTypeOK
    <2>4. Len(Tail(sendQ)) <= SendDepth
      BY <2>2, <2>3, SMT
    <2>5. send' \in W
      BY <1>0, <1>1, <2>2 DEF SendTake
    <2>6. sendQ' \in Seq(WireSlot) /\ Len(sendQ') <= SendDepth
      BY <1>1, <2>2, <2>4 DEF SendTake
    <2>7. UNCHANGED <<active, status, selected, last, attr, synced, zb, learnSem, learn>>
      BY <1>1 DEF SendTake
    <2> QED  BY <2>5, <2>6, <2>7, SendKeepsTypes
  <1>2. CASE SendLoad
    <2> DEFINE code == IF send.slot \in Slot THEN Load(nvs[send.slot]) ELSE Empty
    <2>1. code \in Record \cup {Empty}
      BY LoadType DEF StoreTypeOK
    <2>2. send' \in W
      BY <1>0, <1>2, <2>1 DEF SendLoad, Loaded, Bursting
    <2> QED  BY <1>2, <2>2 DEF SendLoad, DeviceTypeOK
  <1>3. CASE SendDone
    BY <1>0, <1>3 DEF SendDone, DeviceTypeOK
  <1> QED  BY <1>1, <1>2, <1>3 DEF SendNext

LEMMA PowerLossTypes == PowerLoss => DeviceTypeOK' /\ CodeHeld'
  <1> SUFFICES ASSUME PowerLoss PROVE DeviceTypeOK' /\ CodeHeld'
    OBVIOUS
  <1>1. 0 \in Slot /\ 0 \in WireSlot
    BY SlotZero
  <1>2. /\ active' \in WireSlot \cup {SlotIdle} /\ status' \in LearnStatus
        /\ selected' \in WireSlot /\ last' \in Last
    BY <1>1, NoLastType DEF PowerLoss, LearnStatus
  <1>3. attr' \in Attributes
    BY <1>1, NoLastType DEF PowerLoss, BootAttr, LearnStatus, Attributes
  <1>4. learn' \in [pc : {"take", "read", "receive", "save", "result", "idle", "lock"},
                   slot : Slot, code : Capture \cup {Empty}]
    BY <1>1 DEF PowerLoss, LearnIdle
  <1>5. send' \in [pc : {"wait", "load", "frames"}, slot : WireSlot, code : Record \cup {Empty}]
    BY <1>1 DEF PowerLoss, SendIdle
  <1>6. sendQ' \in Seq(WireSlot) /\ Len(sendQ') <= SendDepth
    BY DeviceAssumption, EmptySeq DEF PowerLoss
  <1>7. CodeHeld'
    BY DEF PowerLoss, CodeHeld, LearnIdle
  <1> QED  BY <1>2, <1>3, <1>4, <1>5, <1>6, <1>7 DEF PowerLoss, DeviceTypeOK, Attributes

LEMMA DeviceStepTypes == DeviceTypes /\ [DeviceNext]_deviceVars => DeviceTypes'
  <1> SUFFICES ASSUME DeviceTypes, [DeviceNext]_deviceVars PROVE DeviceTypes'
    OBVIOUS
  <1>1. StoreTypeOK'
    BY DeviceCallsStore, StoreCallType DEF DeviceTypes
  <1>2. CASE ZbNext
    <2>1. learn' = learn
      BY <1>2 DEF ZbNext, Commands, CmdLearn, CmdSend, CmdSelect, CmdClear, CmdProgram, CmdCommit,
                  CmdBeginOrChunk, ToPublish, LearnWaiting, LearnTell, LearnGive, Publish,
                  ReportAll, learnVars
    <2> QED  BY <1>1, <1>2, <2>1, ZbTypes DEF DeviceTypes, CodeHeld
  <1>3. CASE LearnNext
    BY <1>1, <1>3, LearnTypes DEF DeviceTypes
  <1>4. CASE SendNext
    <2>1. learn' = learn
      BY <1>4 DEF SendNext, SendTake, SendLoad, SendDone, learnVars
    <2> QED  BY <1>1, <1>4, <2>1, SendTypes DEF DeviceTypes, CodeHeld
  <1>5. CASE PowerLoss
    BY <1>1, <1>5, PowerLossTypes DEF DeviceTypes
  <1>6. CASE UNCHANGED deviceVars
    BY <1>1, <1>6 DEF DeviceTypes, DeviceTypeOK, CodeHeld, deviceVars, ramVars, attrVars,
                      learnVars, sendVars
  <1> QED  BY <1>2, <1>3, <1>4, <1>5, <1>6 DEF DeviceNext

LEMMA DeviceTyped == DeviceSpec => []DeviceTypes
  BY DeviceInitTypes, DeviceStepTypes, PTL DEF DeviceSpec

\* A learn is under way only into a slot that exists, whatever slot the LEARN
\* named (espir_device.c:426), the send queue keeps its length (256), and the
\* attributes their ranges.
THEOREM DeviceTypeCorrect == DeviceSpec => []DeviceTypeOK
  BY DeviceTyped, PTL DEF DeviceTypes

LEMMA StoreCallFits == StoreTypeOK /\ AssemblyFits /\ StoreCall => AssemblyFits'
  BY StoreNextFits DEF StoreCall, Save, AssemblyFits, storeVars

\* The store keeps its promises when the tasks of the master use it, the learn
\* task without the Zigbee lock: well-formed records and assembly, no overrun
\* (espir_store.c:144-153), and nothing loads that the transmitter refuses.
THEOREM DeviceKeepsStore == DeviceSpec => [](StoreTypeOK /\ AssemblyFits /\ LoadedIsSendable)
  <1>1. DeviceInit => AssemblyFits
    BY StoreAssumption, EmptySeq, SMT DEF DeviceInit, NoProg, AssemblyFits
  <1>2. DeviceTypes /\ AssemblyFits /\ [DeviceNext]_deviceVars => AssemblyFits'
    BY DeviceCallsStore, StoreCallFits DEF DeviceTypes
  <1>3. DeviceTypes => StoreTypeOK /\ LoadedIsSendable
    BY TypedIsSendable DEF DeviceTypes
  <1> QED  BY <1>1, <1>2, <1>3, DeviceTyped, PTL DEF DeviceSpec

-----------------------------------------------------------------------------
(* One learn at a time                                                     *)

LearnUnderWay == learnSem \/ learn.pc # "take"

\* A learn is in one place: with esp_zb, in the semaphore, or with
\* espir_learn.  From the time that the host is told of it until it is told of
\* the result, the attribute says waiting.
LearnInOnePlace ==
    /\ zb \in {"waiting", "tell", "give"} => ~LearnUnderWay
    /\ learnSem => learn.pc = "take"
    /\ zb = "give" \/ LearnUnderWay => attr.status = "waiting"

\* The globals that the tasks share are those of that learn.
GlobalsOfLearn ==
    /\ zb \in {"tell", "give"} \/ learnSem => status = "waiting"
    /\ learn.pc \in {"read", "receive", "save", "result"} => status = "waiting"
    /\ learn.pc \in {"receive", "save", "result", "idle"} => active = learn.slot
    /\ learn.pc \in {"idle", "lock"} =>
          status = IF learn.code = Empty THEN "failed" ELSE "captured"

OneLearn == LearnInOnePlace /\ GlobalsOfLearn

LEMMA OneLearnInit == DeviceInit => OneLearn
  BY DEF DeviceInit, LearnIdle, OneLearn, LearnInOnePlace, GlobalsOfLearn, LearnUnderWay

LEMMA OneLearnStep ==
  ASSUME HeldBack({"learn"}), DeviceTypes, OneLearn, [DeviceNext]_deviceVars
  PROVE  OneLearn'
  <1> USE DEF ramVars, attrVars, learnVars, sendVars, OneLearn, LearnInOnePlace, GlobalsOfLearn,
              LearnUnderWay
  <1>0. /\ learn = [pc |-> learn.pc, slot |-> learn.slot, code |-> learn.code]
        /\ attr \in Attributes
        /\ learn \in [pc : {"take", "read", "receive", "save", "result", "idle", "lock"},
                      slot : Slot, code : Capture \cup {Empty}]
    BY DEF DeviceTypes, DeviceTypeOK, Attributes
  <1>1. ASSUME NEW slot \in WireSlot, CmdLearn(slot) PROVE OneLearn'
    <2>1. attr.status # "waiting"
      BY <1>1 DEF CmdLearn, Handling, HeldBack
    <2> QED  BY <1>1, <2>1 DEF CmdLearn, Handling
  <1>2. ASSUME NEW slot \in WireSlot, CmdSend(slot) PROVE OneLearn'
    BY <1>2 DEF CmdSend, Handling
  <1>3. ASSUME NEW slot \in WireSlot, CmdSelect(slot) PROVE OneLearn'
    <2>1. attr'.status = attr.status
      BY <1>0, <1>3 DEF CmdSelect, Attributes
    <2> QED  BY <1>3, <2>1 DEF CmdSelect, Handling
  <1>4. ASSUME ToPublish PROVE OneLearn'
    BY <1>4 DEF ToPublish
  <1>5. ASSUME CmdBeginOrChunk PROVE OneLearn'
    BY <1>5 DEF CmdBeginOrChunk
  <1>6. CASE Commands
    BY <1>1, <1>2, <1>3, <1>4, <1>5, <1>6 DEF Commands, CmdClear, CmdProgram, CmdCommit
  <1>7. CASE LearnWaiting
    BY <1>7 DEF LearnWaiting
  <1>8. CASE LearnTell
    <2>1. attr'.status = status
      BY <1>0, <1>8 DEF LearnTell, Told, Attributes
    <2> QED  BY <1>8, <2>1 DEF LearnTell
  <1>9. CASE LearnGive
    BY <1>9 DEF LearnGive
  <1>10. CASE Publish \/ ReportAll
    <2>1. attr'.status = attr.status
      BY <1>0, <1>10 DEF Publish, ReportAll, WithOccupancy, Attributes
    <2> QED  BY <1>10, <2>1 DEF Publish, ReportAll
  <1>11. CASE LearnTake
    <2>1. learn'.pc = "read" /\ ~learnSem' /\ attr' = attr /\ zb' = zb /\ status' = status
      BY <1>0, <1>11 DEF LearnTake, LearnAlone
    <2> QED  BY <1>11, <2>1 DEF LearnTake
  <1>12. CASE LearnRead
    <2>1. CASE learn' = LearnIdle
      <3>0. learn'.pc = "take"
        BY <2>1 DEF LearnIdle
      <3>1. UNCHANGED learnSem /\ UNCHANGED <<attr, zb, status>>
        BY <1>12, Zenon DEF LearnRead, LearnAlone
      <3>2. ~learnSem /\ zb \notin {"waiting", "tell", "give"}
        BY <1>12 DEF LearnRead
      <3>3. ~learnSem'
        BY <3>1, <3>2
      <3> QED  BY <3>0, <3>1, <3>2, <3>3
    <2>2. CASE learn' = [learn EXCEPT !.pc = "receive", !.slot = active]
      BY <1>0, <1>12, <2>2 DEF LearnRead, LearnAlone
    <2> QED  BY <1>12, <2>1, <2>2 DEF LearnRead, Target
  <1>13. CASE LearnReceive
    BY <1>0, <1>13 DEF LearnReceive, LearnAlone
  <1>14. CASE LearnSave
    BY <1>0, <1>14 DEF LearnSave, LearnAlone
  <1>15. CASE LearnResult
    BY <1>0, <1>15 DEF LearnResult, LearnAlone
  <1>16. CASE LearnSetIdle
    BY <1>0, <1>16 DEF LearnSetIdle, LearnAlone
  <1>17. CASE LearnPublish
    BY <1>17 DEF LearnPublish, LearnIdle
  <1>18. CASE SendNext
    BY <1>18 DEF SendNext, SendTake, SendLoad, SendDone
  <1>19. CASE PowerLoss
    BY <1>19 DEF PowerLoss, LearnIdle
  <1>20. CASE UNCHANGED deviceVars
    BY <1>20 DEF deviceVars
  <1> QED
    BY <1>6, <1>7, <1>8, <1>9, <1>10, <1>11, <1>12, <1>13, <1>14, <1>15, <1>16, <1>17, <1>18,
       <1>19, <1>20 DEF DeviceNext, ZbNext, LearnNext

LEMMA OneLearnAlways ==
  ASSUME HeldBack({"learn"})
  PROVE  DeviceSpec => []OneLearn
  <1>1. DeviceTypes /\ OneLearn /\ [DeviceNext]_deviceVars => OneLearn'
    BY OneLearnStep
  <1> QED  BY <1>1, OneLearnInit, DeviceTyped, PTL DEF DeviceSpec

\* A host that waits for each learn to end sees in active_learn the slot that
\* the receiver listens for, from the capture until the code is in its slot,
\* although s_active_learn is shared without a lock (espir_device.c:425).
THEOREM ActiveSlotIsLearned ==
  ASSUME HeldBack({"learn"})
  PROVE  DeviceSpec => []ActiveIsLearning
  <1>1. OneLearn => ActiveIsLearning
    BY DEF OneLearn, GlobalsOfLearn, ActiveIsLearning
  <1> QED  BY <1>1, OneLearnAlways, PTL

-----------------------------------------------------------------------------
(* The occupancy                                                           *)

\* A change of the store that has not been published yet
Unpublished ==
    \/ zb = "publish"
    \/ learn.pc \in {"result", "idle", "lock"} /\ learn.code # Empty

OccupancyInv ==
    /\ attr.selected = selected
    /\ synced /\ ~Unpublished => attr.occupied = Occupied(selected)

LEMMA OccupancyStep ==
  ASSUME DeviceTypes, OneLearn, OccupancyInv, [DeviceNext]_deviceVars
  PROVE  OccupancyInv'
  <1> USE DEF ramVars, attrVars, learnVars, sendVars, OccupancyInv, Unpublished
  <1>0. /\ attr \in Attributes
        /\ learn \in [pc : {"take", "read", "receive", "save", "result", "idle", "lock"},
                      slot : Slot, code : Capture \cup {Empty}]
    BY DEF DeviceTypes, DeviceTypeOK, Attributes
  \* Steps that touch neither the store, nor the selector, nor the occupancy
  <1> DEFINE Same == /\ UNCHANGED <<nvs, selected, synced, zb>>
                     /\ attr'.selected = attr.selected /\ attr'.occupied = attr.occupied
  <1>a. ASSUME Same, learn.pc \in {"result", "idle", "lock"} /\ learn.code # Empty
                     => learn'.pc \in {"result", "idle", "lock"} /\ learn'.code # Empty
        PROVE  OccupancyInv'
    BY <1>a DEF Occupied
  <1>1. ASSUME NEW slot \in WireSlot, CmdLearn(slot) PROVE OccupancyInv'
    BY <1>1 DEF CmdLearn, Handling, storeVars, Occupied
  <1>2. ASSUME NEW slot \in WireSlot, CmdSend(slot) PROVE OccupancyInv'
    BY <1>2 DEF CmdSend, storeVars, Occupied
  <1>3. ASSUME NEW slot \in WireSlot, CmdSelect(slot) PROVE OccupancyInv'
    BY <1>0, <1>3 DEF CmdSelect, Attributes
  <1>4. ASSUME ToPublish PROVE OccupancyInv'
    BY <1>4 DEF ToPublish
  <1>5. ASSUME CmdBeginOrChunk PROVE OccupancyInv'
    <2>1. nvs' = nvs
      BY <1>5 DEF CmdBeginOrChunk, ProgramBegin, ProgramChunk
    <2> QED  BY <1>5, <2>1 DEF CmdBeginOrChunk, Occupied
  <1>6. CASE Commands
    BY <1>1, <1>2, <1>3, <1>4, <1>5, <1>6 DEF Commands, CmdClear, CmdProgram, CmdCommit
  <1>7. CASE LearnWaiting
    BY <1>7 DEF LearnWaiting, storeVars, Occupied
  <1>8. CASE LearnTell
    <2>1. attr'.selected = attr.selected /\ attr'.occupied = attr.occupied
      BY <1>0, <1>8 DEF LearnTell, Told, Attributes
    <2> QED  BY <1>8, <2>1 DEF LearnTell, storeVars, Occupied
  <1>9. CASE LearnGive
    BY <1>9 DEF LearnGive, storeVars, Occupied
  <1>10. CASE Publish
    <2>1. attr'.selected = attr.selected /\ attr'.occupied = Occupied(selected)
      BY <1>0, <1>10 DEF Publish, WithOccupancy, Attributes
    <2>2. Occupied(selected)' = Occupied(selected)
      BY <1>10 DEF Publish, storeVars, Occupied
    <2> QED  BY <1>10, <2>1, <2>2 DEF Publish
  <1>11. CASE ReportAll
    <2>1. attr'.selected = selected /\ attr'.occupied = Occupied(selected)
      BY <1>0, <1>11 DEF ReportAll, WithOccupancy, Attributes
    <2>2. Occupied(selected)' = Occupied(selected)
      BY <1>11 DEF ReportAll, storeVars, Occupied
    <2> QED  BY <1>11, <2>1, <2>2 DEF ReportAll
  <1>12. CASE LearnTake \/ LearnRead \/ LearnReceive
    <2>1. learn.pc \notin {"result", "idle", "lock"} /\ Same
      BY <1>12 DEF LearnTake, LearnRead, LearnReceive, LearnAlone, storeVars
    <2> QED  BY <1>a, <2>1
  <1>13. CASE LearnSave
    <2>1. learn'.pc = "result" /\ learn'.code # Empty
      BY <1>0, <1>13 DEF LearnSave, DeviceTypes, CodeHeld
    <2> QED  BY <1>13, <2>1 DEF LearnSave, LearnAlone
  <1>14. CASE LearnResult \/ LearnSetIdle
    <2>1. learn'.pc \in {"idle", "lock"} /\ learn'.code = learn.code
      BY <1>0, <1>14 DEF LearnResult, LearnSetIdle
    <2>2. Same
      BY <1>14 DEF LearnResult, LearnSetIdle, LearnAlone, storeVars
    <2> QED  BY <1>a, <2>1, <2>2
  <1>15. CASE LearnPublish
    <2>1. Occupied(selected)' = Occupied(selected)
      BY <1>15 DEF LearnPublish, storeVars, Occupied
    <2>2. CASE status = "captured"
      <3>1. attr'.selected = attr.selected /\ attr'.occupied = Occupied(selected)
        BY <1>0, <1>15, <2>2 DEF LearnPublish, Told, WithLast, WithOccupancy, Attributes
      <3> QED  BY <1>15, <2>1, <3>1 DEF LearnPublish
    <2>3. CASE status # "captured"
      <3>1. attr'.selected = attr.selected /\ attr'.occupied = attr.occupied
        BY <1>0, <1>15, <2>3 DEF LearnPublish, Told, Attributes
      <3>2. learn.code = Empty
        BY <1>15, <2>3 DEF LearnPublish, OneLearn, GlobalsOfLearn
      <3> QED  BY <1>15, <2>1, <3>1, <3>2 DEF LearnPublish
    <2> QED  BY <2>2, <2>3
  <1>16. CASE SendNext
    BY <1>16 DEF SendNext, SendTake, SendLoad, SendDone, storeVars, Occupied
  <1>17. CASE PowerLoss
    BY <1>17 DEF PowerLoss, BootAttr
  <1>18. CASE UNCHANGED deviceVars
    BY <1>18 DEF deviceVars, storeVars, Occupied
  <1> QED
    BY <1>6, <1>7, <1>8, <1>9, <1>10, <1>11, <1>12, <1>13, <1>14, <1>15, <1>16, <1>17, <1>18
       DEF DeviceNext, ZbNext, LearnNext

\* When no task is at work on it, slot_occupied says whether the selected slot
\* holds a code: each path that writes a slot publishes after it, the learn
\* task, which writes without the Zigbee lock, included (espir_device.c:434,
\* 469).  Refused writes and losses of power are allowed for.
THEOREM OccupancyIsTruthful ==
  ASSUME HeldBack({"learn"})
  PROVE  DeviceSpec => []OccupiedTruthful
  <1>1. DeviceInit => OccupancyInv
    <2>1. DeviceInit => attr.selected = selected
      BY DEF DeviceInit, BootAttr
    <2>2. DeviceInit => ~synced
      BY Zenon DEF DeviceInit
    <2> QED  BY <2>1, <2>2 DEF OccupancyInv
  <1>2. DeviceTypes /\ OneLearn /\ OccupancyInv /\ [DeviceNext]_deviceVars => OccupancyInv'
    BY OccupancyStep
  <1>3. OccupancyInv => OccupiedTruthful
    BY DEF OccupancyInv, Unpublished, OccupiedTruthful, Quiet
  <1> QED  BY <1>1, <1>2, <1>3, DeviceTyped, OneLearnAlways, PTL DEF DeviceSpec

-----------------------------------------------------------------------------
(* The result of a learn                                                   *)

\* From its save to its publication the code is in its slot, and from the
\* result on the globals tell of it.
ResultInv ==
    learn.code # Empty =>
        /\ learn.pc \in {"result", "idle", "lock"} => nvs[learn.slot] = learn.code
        /\ learn.pc \in {"idle", "lock"} => last = Learned

\* The commands that write a slot
Writers == {"clear", "program", "chunked"}

LEMMA SaveStores ==
  ASSUME StoreTypeOK, ~NvsMayFail, NEW slot \in Slot, NEW code \in Record, Save(slot, code)
  PROVE  nvs'[slot] = code
  <1>1. Len(code.blob) <= RawMaxBytes /\ Len(code.blob) \in Nat /\ RawMaxBytes \in Nat
    BY StoreAssumption, LenProperties DEF Record, Blob
  <1>2. nvs' = [nvs EXCEPT ![slot] = [kind |-> code.kind, carrier |-> code.carrier,
                                      blob |-> code.blob]]
    <2>1. ~(slot \notin Slot \/ Len(code.blob) > RawMaxBytes \/ NvsMayFail)
      BY <1>1, SMT
    <2> QED  BY <2>1 DEF Save, WriteRecord
  <1>3. code = [kind |-> code.kind, carrier |-> code.carrier, blob |-> code.blob]
    BY DEF Record
  <1>4. DOMAIN nvs = Slot
    BY DEF StoreTypeOK
  <1> HIDE DEF Save
  <1> QED  BY <1>2, <1>3, <1>4, Zenon

LEMMA ResultStep ==
  ASSUME HeldBack({"learn"} \cup Writers), ~NvsMayFail, DeviceTypes, OneLearn, ResultInv,
         [DeviceNext]_deviceVars
  PROVE  ResultInv'
  <1> USE DEF ramVars, attrVars, learnVars, sendVars, ResultInv
  <1>0. learn \in [pc : {"take", "read", "receive", "save", "result", "idle", "lock"},
                   slot : Slot, code : Capture \cup {Empty}]
    BY DEF DeviceTypes, DeviceTypeOK
  \* Steps that leave the learn and the records alone
  <1>a. ASSUME UNCHANGED <<learn, nvs, last>> PROVE ResultInv'
    BY <1>a DEF Learned
  \* Commands that write are not handled during a learn.
  <1>b. ASSUME NEW c \in Writers, Handling(c), UNCHANGED learn PROVE ResultInv'
    <2>1. learn.pc = "take"
      BY <1>b DEF Handling, HeldBack, OneLearn, LearnInOnePlace, LearnUnderWay
    <2> QED  BY <1>b, <2>1
  <1>1. CASE Commands
    <2>1. ASSUME NEW slot \in WireSlot, CmdLearn(slot) \/ CmdSend(slot) \/ CmdSelect(slot)
          PROVE  ResultInv'
      BY <1>a, <2>1 DEF CmdLearn, CmdSend, CmdSelect, storeVars
    <2>2. ASSUME NEW slot \in WireSlot, CmdClear(slot) \/ CmdCommit(slot) PROVE ResultInv'
      <3>1. UNCHANGED learn /\ \E c \in Writers : Handling(c)
        BY <2>2 DEF CmdClear, CmdCommit, ToPublish, Writers
      <3> QED  BY <1>b, <3>1
    <2>3. ASSUME NEW slot \in WireSlot, NEW kind \in Kind, NEW carrier \in Carrier,
                 NEW blob \in FrameBlob, CmdProgram(slot, kind, carrier, blob)
          PROVE  ResultInv'
      <3>1. UNCHANGED learn /\ Handling("program") /\ "program" \in Writers
        BY <2>3 DEF CmdProgram, ToPublish, Writers
      <3> QED  BY <1>b, <3>1
    <2>4. ASSUME CmdBeginOrChunk PROVE ResultInv'
      <3>1. UNCHANGED <<learn, nvs, last>>
        BY <2>4 DEF CmdBeginOrChunk, ProgramBegin, ProgramChunk
      <3> QED  BY <1>a, <3>1
    <2> QED  BY <1>1, <2>1, <2>2, <2>3, <2>4 DEF Commands
  <1>2. CASE LearnWaiting \/ LearnTell \/ LearnGive \/ Publish \/ ReportAll \/ SendNext
             \/ UNCHANGED deviceVars
    <2>1. UNCHANGED <<learn, nvs, last>>
      BY <1>2 DEF LearnWaiting, LearnTell, LearnGive, Publish, ReportAll, SendNext, SendTake,
                  SendLoad, SendDone, deviceVars, storeVars
    <2> QED  BY <1>a, <2>1
  <1>3. CASE LearnTake \/ LearnRead \/ LearnReceive
    <2>1. learn.code = Empty
      BY <1>3 DEF LearnTake, LearnRead, LearnReceive, DeviceTypes, CodeHeld
    <2>2. CASE LearnTake \/ LearnRead
      <3>1. LearnTake => learn'.pc = "read"
        BY <1>0 DEF LearnTake
      <3>2. LearnRead => learn'.pc \in {"take", "receive"}
        BY <1>0 DEF LearnRead, LearnIdle
      <3> QED  BY <2>2, <3>1, <3>2
    <2>3. CASE LearnReceive
      <3>1. ASSUME NEW code \in Capture, learn' = [learn EXCEPT !.pc = "save", !.code = code]
            PROVE  learn'.pc = "save"
        BY <1>0, <3>1
      <3>2. CASE learn' = [learn EXCEPT !.pc = "result"]
        BY <1>0, <2>1, <3>2
      <3> QED  BY <2>3, <3>1, <3>2 DEF LearnReceive
    <2> QED  BY <1>3, <2>2, <2>3
  <1>4. CASE LearnSave
    <2>1. learn.slot \in Slot /\ learn.code \in Record
      BY <1>4, CapturesAreRecords DEF LearnSave, DeviceTypes, DeviceTypeOK, CodeHeld
    <2>2. nvs'[learn.slot] = learn.code
      BY <1>4, <2>1, SaveStores DEF LearnSave, DeviceTypes
    <2>3. learn'.slot = learn.slot /\ learn'.code = learn.code /\ learn'.pc = "result"
      BY <1>0, <1>4 DEF LearnSave
    <2> QED  BY <2>2, <2>3
  <1>5. CASE LearnResult
    <2>1. learn'.slot = learn.slot /\ learn'.code = learn.code /\ learn.pc = "result" /\ nvs' = nvs
      BY <1>0, <1>5 DEF LearnResult, storeVars
    <2>2. learn.code # Empty => last' = Learned
      BY <1>5 DEF LearnResult
    <2> QED  BY <2>1, <2>2 DEF Learned
  <1>6. CASE LearnSetIdle
    <2>1. learn'.slot = learn.slot /\ learn'.code = learn.code /\ learn.pc = "idle"
          /\ nvs' = nvs /\ last' = last
      BY <1>0, <1>6 DEF LearnSetIdle, storeVars
    <2> QED  BY <2>1 DEF Learned
  <1>7. CASE LearnPublish \/ PowerLoss
    BY <1>7 DEF LearnPublish, PowerLoss, LearnIdle
  <1> QED
    BY <1>1, <1>2, <1>3, <1>4, <1>5, <1>6, <1>7 DEF DeviceNext, ZbNext, LearnNext

LEMMA OnlyPublishCaptures ==
  ASSUME DeviceTypes, OneLearn, DeviceNext, attr.status # "captured", attr'.status = "captured"
  PROVE  LearnPublish /\ status = "captured"
  <1> USE DEF ramVars, attrVars, learnVars, sendVars
  <1>0. attr \in Attributes
    BY DEF DeviceTypes, DeviceTypeOK, Attributes
  <1>1. ~Commands
    BY <1>0 DEF Commands, CmdLearn, CmdSend, CmdSelect, CmdClear, CmdProgram, CmdCommit,
                CmdBeginOrChunk, ToPublish, Attributes
  <1>2. ~LearnTell
    <2>1. ASSUME LearnTell PROVE FALSE
      <3>1. attr'.status = status /\ status = "waiting"
        BY <1>0, <2>1 DEF LearnTell, Told, Attributes, OneLearn, GlobalsOfLearn
      <3> QED  BY <3>1
    <2> QED  BY <2>1
  <1>3. ~(LearnWaiting \/ LearnGive \/ Publish \/ ReportAll)
    BY <1>0 DEF LearnWaiting, LearnGive, Publish, ReportAll, WithOccupancy, Attributes
  <1>4. ~(LearnTake \/ LearnRead \/ LearnReceive \/ LearnSave \/ LearnResult \/ LearnSetIdle)
    BY DEF LearnTake, LearnRead, LearnReceive, LearnSave, LearnResult, LearnSetIdle, LearnAlone
  <1>5. ~(SendNext \/ PowerLoss)
    BY DEF SendNext, SendTake, SendLoad, SendDone, PowerLoss, BootAttr
  <1>6. LearnPublish
    BY <1>1, <1>2, <1>3, <1>4, <1>5 DEF DeviceNext, ZbNext, LearnNext
  <1>7. attr'.status = status
    <2>1. attr'.status = Told(IF status = "captured" THEN WithLast(attr) ELSE attr).status
      BY <1>6 DEF LearnPublish
    <2>2. WithLast(attr) \in Attributes
      BY <1>0, WithLastType DEF DeviceTypes
    <2> QED  BY <1>0, <2>1, <2>2 DEF Told, Attributes
  <1> QED  BY <1>6, <1>7

LEMMA AnnouncementIsTrue ==
  ASSUME DeviceTypes, OneLearn, ResultInv, DeviceNext
  PROVE  AnnouncedIsStored
  <1> SUFFICES ASSUME attr.status # "captured", attr'.status = "captured"
               PROVE  /\ nvs'[attr'.last.slot] # Empty
                      /\ nvs'[attr'.last.slot].kind = attr'.last.kind
                      /\ nvs'[attr'.last.slot].carrier = attr'.last.carrier
                      /\ attr'.last.code \in {<<>>, nvs'[attr'.last.slot].blob}
    BY DEF AnnouncedIsStored
  <1>1. LearnPublish /\ status = "captured"
    BY OnlyPublishCaptures
  <1>2. learn.pc = "lock" /\ learn.code # Empty
    BY <1>1 DEF LearnPublish, OneLearn, GlobalsOfLearn
  <1>3. nvs'[learn.slot] = learn.code
    BY <1>1, <1>2 DEF LearnPublish, ResultInv, storeVars
  <1>4. attr'.last = Learned
    <2>1. attr \in Attributes
      BY DEF DeviceTypes, DeviceTypeOK, Attributes
    <2>2. attr' = Told(WithLast(attr))
      BY <1>1 DEF LearnPublish
    <2>3. attr'.last = last
      BY <2>1, <2>2 DEF Told, WithLast, WithOccupancy, Attributes
    <2> QED  BY <1>2, <2>3 DEF ResultInv
  <1>5. /\ attr'.last.slot = learn.slot
        /\ attr'.last.kind = learn.code.kind
        /\ attr'.last.carrier = learn.code.carrier
        /\ attr'.last.code \in {<<>>, learn.code.blob}
    BY <1>4 DEF Learned
  <1> QED  BY <1>2, <1>3, <1>5

\* A host that is told CAPTURED finds the code of last_code in the slot of
\* last_slot, if no write is refused and nothing else writes the slots during
\* a learn (espir_device.c:434-475).  CapturedIsStored does not hold without
\* these two, since the result of espir_store_save is not looked at.
THEOREM LearnsAreStored ==
  ASSUME HeldBack({"learn"} \cup Writers), ~NvsMayFail
  PROVE  DeviceSpec => CapturedIsStored
  <1>0. HeldBack({"learn"})
    BY DEF HeldBack
  <1>1. DeviceInit => ResultInv
    BY DEF DeviceInit, LearnIdle, ResultInv
  <1>2. DeviceTypes /\ OneLearn /\ ResultInv /\ [DeviceNext]_deviceVars => ResultInv'
    BY ResultStep
  <1>3. DeviceTypes /\ OneLearn /\ ResultInv /\ [DeviceNext]_deviceVars
            => [AnnouncedIsStored]_deviceVars
    BY AnnouncementIsTrue
  <1>4. DeviceSpec => []OneLearn
    BY <1>0, OneLearnAlways
  <1> QED  BY <1>1, <1>2, <1>3, <1>4, DeviceTyped, PTL DEF DeviceSpec, CapturedIsStored

=============================================================================
