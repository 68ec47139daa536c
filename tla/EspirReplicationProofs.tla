----------------------- MODULE EspirReplicationProofs -----------------------
(***************************************************************************)
(* SlotIsolation and AnnouncedShape, for any number of slots and codes,    *)
(* any frame size and any faults of the radio.                             *)
(*                                                                         *)
(* Neither is inductive: what commit writes is what the assembly has       *)
(* collected, and what it collects comes from the frames in flight.  So    *)
(* the invariant says of the assembly and of every queue what the two      *)
(* properties say of the slots.                                            *)
(*                                                                         *)
(* Then the refinement of EspirCopy, on a radio that keeps the order.  Its *)
(* invariant, WholeCopies, relates the frames of a queue to one another    *)
(* and to what the assembly has collected so far.                          *)
(***************************************************************************)
EXTENDS EspirReplication, EspirStoreProofs

\* The assembly holds bytes of codes of its slot, and the header of one.
AssemblyHonest ==
    prog.active => /\ prog.buf \in Seq(TokensOf(prog.slot))
                   /\ Announces(prog.slot, prog.kind, prog.carrier, prog.total)

\* A slot of the slave holds what the two properties say.
SlotHonest(s) ==
    nvs[s] # Empty =>
        /\ nvs[s].blob \in Seq(TokensOf(s))
        /\ Announces(s, nvs[s].kind, nvs[s].carrier, Len(nvs[s].blob))

ReplInv ==
    /\ ReplicationTypeOK
    /\ AssemblyHonest
    /\ \A s \in Slot : SlotHonest(s)

-----------------------------------------------------------------------------
(* The codes, and the frames that carry them                               *)

LEMMA QuotientIsNat ==
  ASSUME NEW n \in Nat, NEW size \in Nat \ {0}
  PROVE  n \div size \in Nat
  BY Z3

LEMMA RecOfType ==
  ASSUME NEW c \in Code
  PROVE  /\ RecOf(c).kind = KindOf[c]
         /\ RecOf(c).carrier = CarrierOf[c]
         /\ RecOf(c).blob \in Seq(TokensOf(Home[c]))
         /\ RecOf(c).blob \in Seq(Byte)
         /\ Len(RecOf(c).blob) = LenOf[c]
         /\ LenOf[c] \in 1 .. RawMaxBytes
         /\ RecOf(c) \in Record
         /\ RecOf(c) # Empty
  <1> DEFINE blob == [i \in 1 .. LenOf[c] |-> <<c, i>>]
  <1>1. LenOf[c] \in 1 .. RawMaxBytes /\ LenOf[c] \in Nat
    BY ReplicationAssumption, StoreAssumption, SMT
  <1>2. blob \in [1 .. LenOf[c] -> Token(c)]
    BY DEF Token
  <1>3. Token(c) \subseteq TokensOf(Home[c]) /\ Token(c) \subseteq Byte
    BY ReplicationAssumption DEF TokensOf, CodesOf
  <1>4. blob \in [1 .. LenOf[c] -> TokensOf(Home[c])] /\ blob \in [1 .. LenOf[c] -> Byte]
    BY <1>2, <1>3
  <1> HIDE DEF blob
  <1>5. blob \in Seq(TokensOf(Home[c])) /\ blob \in Seq(Byte) /\ Len(blob) = LenOf[c]
    BY <1>1, <1>4, SMT
  <1>6. RecOf(c) = [kind |-> KindOf[c], carrier |-> CarrierOf[c], blob |-> blob]
    BY DEF RecOf, blob
  <1>7. KindOf[c] \in Kind /\ CarrierOf[c] \in Carrier
    BY ReplicationAssumption
  <1>8. blob \in Blob
    BY <1>1, <1>5, StoreAssumption, SMT DEF Blob
  <1>9. RecOf(c) \in Record
    BY <1>6, <1>7, <1>8 DEF Record
  <1> QED
    BY <1>1, <1>5, <1>6, <1>9, StoreAssumption

LEMMA EmptyDoesNotLoad == Load(Empty) = Empty
  BY DEF Load

\* What the master reads from a slot is the code that was stored there.
LEMMA LoadGivesCode ==
  ASSUME NEW c \in Code
  PROVE  Load(RecOf(c)) = RecOf(c)
  <1> DEFINE r == RecOf(c)
  <1>1. r # Empty /\ Decodable(r) /\ r.carrier # 0
    BY RecOfType, ReplicationAssumption
  <1>2. r.kind = "nec" => SubSeq(r.blob, 1, NecBytes) = r.blob
    BY RecOfType, ReplicationAssumption, SubSeqFull
  <1>3. Load(r) = [kind |-> r.kind, carrier |-> r.carrier, blob |-> r.blob]
    BY <1>1, <1>2 DEF Load
  <1> QED
    BY <1>3 DEF RecOf

\* The frames either sender makes of a code are honest (espir_device.c:296-323,
\* espir.js:181-201).
LEMMA FramesAreHonest ==
  ASSUME NEW c \in Code, NEW size \in Nat \ {0}
  PROVE  Frames(Home[c], RecOf(c), size) \in Seq(HonestFrame)
  <1> DEFINE s == Home[c]
             r == RecOf(c)
  <1>1. s \in Slot /\ KindOf[c] \in Kind /\ CarrierOf[c] \in Carrier
    BY ReplicationAssumption
  <1>2. Announces(s, KindOf[c], CarrierOf[c], LenOf[c])
    BY DEF Announces, CodesOf
  <1>3. LenOf[c] \in Nat
    BY RecOfType, StoreAssumption, SMT
  <1>4. ProgramFrame(s, r) \in HonestFrame
    <2> DEFINE m == ProgramFrame(s, r)
    <2>1. /\ m.type = "program" /\ m.slot = s /\ m.kind = KindOf[c]
          /\ m.carrier = CarrierOf[c] /\ m.data = r.blob
      BY RecOfType DEF ProgramFrame
    <2>2. m \in Frame
      BY <1>1, RecOfType DEF ProgramFrame, Frame
    <2> HIDE DEF m
    <2>3. m.data \in Seq(TokensOf(m.slot))
      BY <2>1, RecOfType
    <2>4. Announces(m.slot, m.kind, m.carrier, Len(m.data))
      BY <2>1, <1>2, RecOfType
    <2> QED
      BY <2>1, <2>2, <2>3, <2>4 DEF HonestFrame, m
  <1>5. BeginFrame(s, r) \in HonestFrame
    <2> DEFINE m == BeginFrame(s, r)
    <2>1. /\ m.type = "begin" /\ m.slot = s /\ m.kind = KindOf[c]
          /\ m.carrier = CarrierOf[c] /\ m.total = LenOf[c]
      BY RecOfType DEF BeginFrame
    <2>2. m \in Frame
      BY <1>1, <1>3, RecOfType DEF BeginFrame, Frame
    <2> HIDE DEF m
    <2> QED
      BY <2>1, <2>2, <1>2 DEF HonestFrame, m
  <1>6. ASSUME NEW n \in Nat \ {0}
        PROVE  ChunkFrame(s, r, n, size) \in HonestFrame
    <2> DEFINE m == ChunkFrame(s, r, n, size)
               lo == (n - 1) * size + 1
               hi == IF n * size <= Len(r.blob) THEN n * size ELSE Len(r.blob)
               data == SubSeq(r.blob, lo, hi)
    <2>1. lo \in Int /\ lo >= 1 /\ hi \in Int /\ hi <= Len(r.blob)
      BY <1>3, RecOfType, SMT
    <2>2. \A i \in lo .. hi : i \in 1 .. Len(r.blob)
      <3> HIDE DEF lo, hi
      <3> QED
        BY <2>1, <1>3, RecOfType, SMT
    <2>3. \A i \in lo .. hi : r.blob[i] \in TokensOf(s) /\ r.blob[i] \in Byte
      BY <2>2, RecOfType, ElementOfSeq
    <2>4. data \in Seq(TokensOf(s)) /\ data \in Seq(Byte)
      <3> HIDE DEF lo, hi
      <3> QED
        BY <2>1, <2>3, SubSeqProperties
    <2>5. m = [type |-> "chunk", slot |-> s, data |-> data]
      BY DEF ChunkFrame
    <2> HIDE DEF m, data
    <2>6. m \in Frame
      BY <2>4, <2>5, <1>1 DEF Frame
    <2> QED
      BY <2>4, <2>5, <2>6 DEF HonestFrame, m
  <1>7. CommitFrame(s) \in HonestFrame
    <2>1. CommitFrame(s) \in Frame /\ CommitFrame(s).type = "commit"
      BY <1>1 DEF CommitFrame, Frame
    <2> QED
      BY <2>1 DEF HonestFrame
  <1>8. Chunks(r, size) \in Nat
    <2>1. Len(r.blob) + size - 1 \in Nat
      BY <1>3, RecOfType, SMT
    <2>2. Chunks(r, size) = (Len(r.blob) + size - 1) \div size
      BY DEF Chunks
    <2> QED
      BY <2>1, <2>2, QuotientIsNat
  <1>9. [n \in 1 .. Chunks(r, size) |-> ChunkFrame(s, r, n, size)] \in Seq(HonestFrame)
    <2> DEFINE k == Chunks(r, size)
               q == [n \in 1 .. k |-> ChunkFrame(s, r, n, size)]
    <2> HIDE DEF k
    <2>1. k \in Nat
      BY <1>8 DEF k
    <2>2. \A n \in 1 .. k : n \in Nat \ {0}
      BY <2>1, SMT
    <2>3. q \in [1 .. k -> HonestFrame]
      BY <1>6, <2>2
    <2> HIDE DEF q
    <2>4. q \in Seq(HonestFrame)
      BY <2>1, <2>3, SMT
    <2> QED
      BY <2>4 DEF q, k
  <1>10. <<BeginFrame(s, r)>> \in Seq(HonestFrame) /\ <<CommitFrame(s)>> \in Seq(HonestFrame)
    BY <1>5, <1>7
  <1>11. <<ProgramFrame(s, r)>> \in Seq(HonestFrame)
    BY <1>4
  <1> HIDE DEF s, r
  <1>12. Frames(s, r, size) \in Seq(HonestFrame)
    BY <1>9, <1>10, <1>11, ConcatProperties DEF Frames
  <1> QED
    BY <1>12 DEF s, r

-----------------------------------------------------------------------------
(* The slave's end: one frame of an honest sender                          *)

LEMMA HonestFrameParts ==
  ASSUME NEW m \in HonestFrame
  PROVE  /\ m.type \in {"program", "begin", "chunk", "commit", "clear"}
         /\ m.slot \in Slot
         /\ m.type \in {"program", "chunk"} =>
               m.data \in Seq(TokensOf(m.slot)) /\ m.data \in Seq(Byte)
         /\ m.type = "program" =>
               /\ m.kind \in Kind /\ m.carrier \in Carrier
               /\ Announces(m.slot, m.kind, m.carrier, Len(m.data))
         /\ m.type = "begin" =>
               /\ m.kind \in Kind /\ m.carrier \in Carrier /\ m.total \in Nat
               /\ Announces(m.slot, m.kind, m.carrier, m.total)
  BY DEF HonestFrame, Frame

\* A record written to one slot is all that write_record changes.
LEMMA WriteRecordHonest ==
  ASSUME StoreTypeOK, \A s \in Slot : SlotHonest(s),
         NEW slot \in Slot, NEW kind, NEW carrier, NEW blob,
         blob \in Seq(TokensOf(slot)),
         Announces(slot, kind, carrier, Len(blob)),
         WriteRecord(slot, kind, carrier, blob)
  PROVE  \A s \in Slot : SlotHonest(s)'
  <1>1. CASE nvs' = nvs
    BY <1>1 DEF SlotHonest
  <1>2. CASE nvs' = [nvs EXCEPT ![slot] =
                        [kind |-> kind, carrier |-> carrier, blob |-> blob]]
    <2> TAKE s \in Slot
    <2>1. CASE s = slot
      <3>1. nvs'[s] = [kind |-> kind, carrier |-> carrier, blob |-> blob]
        BY <1>2, <2>1 DEF StoreTypeOK
      <3> QED
        BY <3>1, <2>1 DEF SlotHonest
    <2>2. CASE s # slot
      <3>1. nvs'[s] = nvs[s]
        BY <1>2, <2>2 DEF StoreTypeOK
      <3> QED
        BY <3>1 DEF SlotHonest
    <2> QED
      BY <2>1, <2>2
  <1> QED
    BY <1>1, <1>2 DEF WriteRecord

\* Whatever frame arrives next, the slots and the assembly stay honest
\* (espir_device.c:339-378, espir_store.c:111-162).
LEMMA HandleHonest ==
  ASSUME StoreTypeOK, AssemblyHonest, \A s \in Slot : SlotHonest(s),
         NEW m \in HonestFrame, Handle(m)
  PROVE  /\ StoreTypeOK'
         /\ AssemblyHonest'
         /\ \A s \in Slot : SlotHonest(s)'
  <1>1. CASE m.type = "program" /\ ProgramSingle(m.slot, m.kind, m.carrier, m.data)
    <2>1. StoreTypeOK'
      BY <1>1, HonestFrameParts, ProgramSingleType
    <2>2. AssemblyHonest'
      BY <1>1 DEF ProgramSingle, AssemblyHonest
    <2>3. \A s \in Slot : SlotHonest(s)'
      BY <1>1, HonestFrameParts, WriteRecordHonest DEF ProgramSingle
    <2> QED
      BY <2>1, <2>2, <2>3
  <1>2. CASE m.type = "begin" /\ ProgramBegin(m.slot, m.kind, m.carrier, m.total)
    <2>1. StoreTypeOK'
      BY <1>2, HonestFrameParts, ProgramBeginType
    <2>2. AssemblyHonest'
      <3>1. CASE UNCHANGED prog
        BY <3>1 DEF AssemblyHonest
      <3>2. CASE prog' = [active |-> TRUE, slot |-> m.slot, kind |-> m.kind,
                          carrier |-> m.carrier, total |-> m.total, buf |-> <<>>]
        BY <3>2, <1>2, HonestFrameParts, EmptySeq DEF AssemblyHonest
      <3> QED
        BY <1>2, <3>1, <3>2 DEF ProgramBegin
    <2>3. \A s \in Slot : SlotHonest(s)'
      BY <1>2 DEF ProgramBegin, SlotHonest
    <2> QED
      BY <2>1, <2>2, <2>3
  <1>3. CASE m.type = "chunk" /\ ProgramChunk(m.slot, m.data)
    <2>1. StoreTypeOK'
      BY <1>3, HonestFrameParts, ProgramChunkType
    <2>2. AssemblyHonest'
      <3>1. CASE UNCHANGED prog
        BY <3>1 DEF AssemblyHonest
      <3>2. CASE Assembling(m.slot) /\ prog' = [prog EXCEPT !.buf = @ \o m.data]
        <4>1. /\ prog'.buf = prog.buf \o m.data
              /\ prog'.slot = prog.slot /\ prog'.kind = prog.kind
              /\ prog'.carrier = prog.carrier /\ prog'.total = prog.total
          BY <3>2 DEF StoreTypeOK
        <4>2. prog.buf \o m.data \in Seq(TokensOf(prog.slot))
          BY <1>3, <3>2, HonestFrameParts, ConcatProperties DEF Assembling, AssemblyHonest
        <4> QED
          BY <3>2, <4>1, <4>2 DEF AssemblyHonest, Assembling
      <3> QED
        BY <1>3, <3>1, <3>2 DEF ProgramChunk
    <2>3. \A s \in Slot : SlotHonest(s)'
      BY <1>3 DEF ProgramChunk, SlotHonest
    <2> QED
      BY <2>1, <2>2, <2>3
  <1>4. CASE m.type = "commit" /\ ProgramCommit(m.slot)
    <2>1. StoreTypeOK'
      BY <1>4, ProgramCommitType
    <2>2. AssemblyHonest'
      BY <1>4 DEF ProgramCommit, storeVars, AssemblyHonest, StoreTypeOK
    <2>3. \A s \in Slot : SlotHonest(s)'
      <3>1. CASE UNCHANGED nvs
        BY <3>1 DEF SlotHonest
      <3>2. CASE /\ Assembling(m.slot)
                 /\ Len(prog.buf) = prog.total
                 /\ WriteRecord(m.slot, prog.kind, prog.carrier, prog.buf)
        BY <3>2, HonestFrameParts, WriteRecordHonest DEF Assembling, AssemblyHonest
      <3> QED
        BY <1>4, <3>1, <3>2 DEF ProgramCommit, storeVars
    <2> QED
      BY <2>1, <2>2, <2>3
  <1>5. CASE m.type = "clear" /\ Clear(m.slot)
    <2>1. StoreTypeOK'
      BY <1>5, ClearType
    <2>2. AssemblyHonest'
      BY <1>5 DEF Clear, AssemblyHonest
    <2>3. ASSUME NEW s \in Slot PROVE SlotHonest(s)'
      <3>1. nvs'[s] = nvs[s] \/ nvs'[s] = Empty
        BY <1>5 DEF Clear, StoreTypeOK
      <3> QED
        BY <3>1 DEF SlotHonest
    <2> QED
      BY <2>1, <2>2, <2>3
  <1> QED
    BY <1>1, <1>2, <1>3, <1>4, <1>5 DEF Handle

-----------------------------------------------------------------------------
(* The queues                                                              *)

LEMMA RemoveAtSeq ==
  ASSUME NEW S, NEW q \in Seq(S), NEW i \in 1 .. Len(q)
  PROVE  RemoveAt(q, i) \in Seq(S)
  <1>1. Len(q) \in Nat
    BY LenProperties
  <1>2. /\ 1 \in Int /\ i - 1 \in Int /\ i + 1 \in Int /\ Len(q) \in Int
        /\ \A j \in 1 .. i - 1 : j \in 1 .. Len(q)
        /\ \A j \in i + 1 .. Len(q) : j \in 1 .. Len(q)
    BY <1>1, SMT
  <1>3. \A j \in 1 .. i - 1 : q[j] \in S
    BY <1>2, ElementOfSeq
  <1>4. \A j \in i + 1 .. Len(q) : q[j] \in S
    BY <1>2, ElementOfSeq
  <1>5. SubSeq(q, 1, i - 1) \in Seq(S) /\ SubSeq(q, i + 1, Len(q)) \in Seq(S)
    BY <1>2, <1>3, <1>4, SubSeqProperties
  <1> QED
    BY <1>5, ConcatProperties DEF RemoveAt

LEMMA PrefixSeq ==
  ASSUME NEW S, NEW q \in Seq(S), NEW n \in Int, n <= Len(q)
  PROVE  SubSeq(q, 1, n) \in Seq(S)
  <1>1. Len(q) \in Nat
    BY LenProperties
  <1>2. \A j \in 1 .. n : j \in 1 .. Len(q)
    BY <1>1, SMT
  <1>3. \A j \in 1 .. n : q[j] \in S
    BY <1>2, ElementOfSeq
  <1> QED
    BY <1>3, SubSeqProperties

\* Everything the network and the two senders keep, without the slave.
SendersTypeOK ==
    /\ mnvs \in [Slot -> {RecOf(c) : c \in MasterCode} \cup {Empty}]
    /\ \A s \in Slot : mnvs[s] # Empty =>
          \E c \in MasterCode \cap CodesOf(s) : mnvs[s] = RecOf(c)
    /\ sweep \in 0 .. SlotCount
    /\ hostTx \in Seq(HonestFrame)
    /\ net \in [Channel -> Seq(HonestFrame)]

\* replicate_slot_to queues honest frames only, however many of them the stack
\* takes (espir_device.c:277-323).
LEMMA ReplicateHonest ==
  ASSUME SendersTypeOK, NEW s \in Slot, Replicate(s)
  PROVE  net' \in [Channel -> Seq(HonestFrame)]
  <1>1. CASE UNCHANGED net
    BY <1>1 DEF SendersTypeOK
  <1>2. CASE Load(mnvs[s]) # Empty /\ Transmit(Frames(s, Load(mnvs[s]), TxChunk))
    <2>1. mnvs[s] # Empty
      BY <1>2, EmptyDoesNotLoad
    <2>2. PICK c \in CodesOf(s) : mnvs[s] = RecOf(c)
      BY <2>1 DEF SendersTypeOK
    <2>3. c \in Code /\ Home[c] = s
      BY DEF CodesOf
    <2> DEFINE fs == Frames(s, Load(mnvs[s]), TxChunk)
    <2>4. fs \in Seq(HonestFrame)
      BY <2>2, <2>3, LoadGivesCode, FramesAreHonest, ReplicationAssumption
    <2> HIDE DEF fs
    <2> DEFINE room == NetCap - Len(net["master"])
               n == IF Len(fs) <= room THEN Len(fs) ELSE room
    <2>5. net["master"] \in Seq(HonestFrame)
      BY DEF SendersTypeOK, Channel
    <2>6. Len(net["master"]) \in Nat /\ Len(fs) \in Nat /\ NetCap \in Nat
      BY <2>4, <2>5, LenProperties, ReplicationAssumption
    <2>7. n \in Int /\ n <= Len(fs)
      BY <2>6, SMT
    <2> HIDE DEF n
    <2>8. net["master"] \o SubSeq(fs, 1, n) \in Seq(HonestFrame)
      BY <2>4, <2>5, <2>7, PrefixSeq, ConcatProperties
    <2>9. net' = [net EXCEPT !["master"] = @ \o SubSeq(fs, 1, n)]
      BY <1>2 DEF Transmit, fs, n
    <2> QED
      BY <2>8, <2>9 DEF SendersTypeOK
  <1> QED
    BY <1>1, <1>2 DEF Replicate

LEMMA ReplInitInv == ReplInit => ReplInv
  <1> SUFFICES ASSUME ReplInit PROVE ReplInv
    OBVIOUS
  <1>1. StoreTypeOK
    BY StoreInitType DEF ReplInit
  <1>2. SendersTypeOK
    <2>1. sweep \in 0 .. SlotCount
      BY StoreAssumption, SMT DEF ReplInit
    <2> QED
      BY <2>1, EmptySeq DEF ReplInit, SendersTypeOK
  <1>3. AssemblyHonest
    BY DEF ReplInit, StoreInit, NoProg, AssemblyHonest
  <1>4. \A s \in Slot : SlotHonest(s)
    BY DEF ReplInit, StoreInit, SlotHonest
  <1> QED
    BY <1>1, <1>2, <1>3, <1>4 DEF ReplInv, ReplicationTypeOK, SendersTypeOK

\* One action at a time: Deliver reaches the slave, SlaveReboot forgets the
\* assembly, and every other action leaves the slave alone.
LEMMA ReplNextInv == ReplInv /\ [ReplNext]_replVars => ReplInv'
  <1> SUFFICES ASSUME ReplInv, [ReplNext]_replVars PROVE ReplInv'
    OBVIOUS
  <1> DEFINE SlaveOK == StoreTypeOK /\ AssemblyHonest /\ \A s \in Slot : SlotHonest(s)
  <1>a. SlaveOK /\ SendersTypeOK
    BY DEF ReplInv, ReplicationTypeOK, SendersTypeOK
  <1>b. StoreTypeOK' /\ AssemblyHonest' /\ (\A s \in Slot : SlotHonest(s)') /\ SendersTypeOK'
        => ReplInv'
    BY DEF ReplInv, ReplicationTypeOK, SendersTypeOK
  <1>c. UNCHANGED storeVars =>
        StoreTypeOK' /\ AssemblyHonest' /\ \A s \in Slot : SlotHonest(s)'
    BY <1>a DEF storeVars, StoreTypeOK, AssemblyHonest, SlotHonest
  <1> HIDE DEF SlaveOK
  <1>1. ASSUME NEW c \in Code, Learn(c)
        PROVE  ReplInv'
    <2>1. mnvs' = [mnvs EXCEPT ![Home[c]] = RecOf(c)] /\ c \in MasterCode
      BY <1>1 DEF Learn
    <2>2. c \in CodesOf(Home[c])
      BY DEF CodesOf
    <2>3. mnvs' \in [Slot -> {RecOf(d) : d \in MasterCode} \cup {Empty}]
      BY <1>a, <2>1 DEF SendersTypeOK
    <2>4. ASSUME NEW s \in Slot, mnvs'[s] # Empty
          PROVE  \E d \in MasterCode \cap CodesOf(s) : mnvs'[s] = RecOf(d)
      <3>1. mnvs'[s] = IF s = Home[c] THEN RecOf(c) ELSE mnvs[s]
        BY <1>a, <2>1 DEF SendersTypeOK
      <3> QED
        BY <1>a, <2>1, <2>2, <2>4, <3>1 DEF SendersTypeOK
    <2>5. SendersTypeOK'
      BY <1>a, <1>1, <2>3, <2>4 DEF SendersTypeOK, Learn
    <2> QED
      BY <1>b, <1>c, <1>1, <2>5 DEF Learn
  <1>2. ASSUME NEW s \in Slot, MasterClear(s)
        PROVE  ReplInv'
    <2>1. mnvs' = [mnvs EXCEPT ![s] = Empty]
      BY <1>2 DEF MasterClear
    <2>2. mnvs' \in [Slot -> {RecOf(d) : d \in MasterCode} \cup {Empty}]
      BY <1>a, <2>1 DEF SendersTypeOK
    <2>3. \A t \in Slot : mnvs'[t] # Empty => mnvs'[t] = mnvs[t]
      BY <1>a, <2>1 DEF SendersTypeOK
    <2>4. SendersTypeOK'
      BY <1>a, <1>2, <2>2, <2>3 DEF SendersTypeOK, MasterClear
    <2> QED
      BY <1>b, <1>c, <1>2, <2>4 DEF MasterClear
  <1>3. ASSUME NEW s \in Slot, CopyTo(s)
        PROVE  ReplInv'
    <2>1. net' \in [Channel -> Seq(HonestFrame)]
      BY <1>a, <1>3, ReplicateHonest DEF CopyTo
    <2> QED
      BY <1>a, <1>b, <1>c, <1>3, <2>1 DEF SendersTypeOK, CopyTo
  <1>4. CASE CopyAll
    <2>1. 0 \in 0 .. SlotCount
      BY StoreAssumption, SMT
    <2> QED
      BY <1>a, <1>b, <1>c, <1>4, <2>1 DEF SendersTypeOK, CopyAll
  <1>5. CASE CopyAllTurn
    <2>1. sweep \in Slot /\ sweep + 1 \in 0 .. SlotCount
      BY <1>a, <1>5, StoreAssumption, SMT DEF SendersTypeOK, CopyAllTurn, Slot
    <2>2. net' \in [Channel -> Seq(HonestFrame)]
      BY <1>a, <1>5, <2>1, ReplicateHonest DEF CopyAllTurn
    <2> QED
      BY <1>a, <1>b, <1>c, <1>5, <2>1, <2>2 DEF SendersTypeOK, CopyAllTurn
  <1>6. ASSUME NEW c \in Code, HostProgram(c)
        PROVE  ReplInv'
    <2>1. Frames(Home[c], RecOf(c), HostChunk) \in Seq(HonestFrame)
      BY FramesAreHonest, ReplicationAssumption
    <2> QED
      BY <1>a, <1>b, <1>c, <1>6, <2>1 DEF SendersTypeOK, HostProgram
  <1>7. ASSUME NEW s \in Slot, HostClear(s)
        PROVE  ReplInv'
    <2>1. ClearFrame(s) \in Frame /\ ClearFrame(s).type = "clear"
      BY DEF ClearFrame, Frame
    <2>2. ClearFrame(s) \in HonestFrame
      BY <2>1 DEF HonestFrame
    <2>3. <<ClearFrame(s)>> \in Seq(HonestFrame)
      BY <2>2
    <2> QED
      BY <1>a, <1>b, <1>c, <1>7, <2>3 DEF SendersTypeOK, HostClear
  <1>8. CASE HostSend
    <2>1. Head(hostTx) \in HonestFrame /\ Tail(hostTx) \in Seq(HonestFrame)
      BY <1>a, <1>8, HeadTailProperties DEF SendersTypeOK, HostSend
    <2>2. <<Head(hostTx)>> \in Seq(HonestFrame)
      BY <2>1
    <2> QED
      BY <1>a, <1>b, <1>c, <1>8, <2>1, <2>2 DEF SendersTypeOK, HostSend
  <1>9. CASE HostTimeOut
    <2>1. net["stray"] \o net["host"] \in Seq(HonestFrame)
      BY <1>a, ConcatProperties DEF SendersTypeOK, Channel
    <2>2. <<>> \in Seq(HonestFrame)
      BY EmptySeq
    <2>3. net' \in [Channel -> Seq(HonestFrame)]
      BY <1>a, <1>9, <2>1, <2>2 DEF SendersTypeOK, HostTimeOut
    <2> QED
      BY <1>a, <1>b, <1>c, <1>9, <2>2, <2>3 DEF SendersTypeOK, HostTimeOut
  <1>10. ASSUME NEW p \in Channel, NEW i \in 1 .. Len(net[p]),
                Deliver(p, i) \/ Drop(p, i) \/ Duplicate(p, i)
         PROVE  ReplInv'
    <2>1. net[p] \in Seq(HonestFrame)
      BY <1>a DEF SendersTypeOK
    <2>2. net[p][i] \in HonestFrame
      BY <2>1, ElementOfSeq
    <2>3. RemoveAt(net[p], i) \in Seq(HonestFrame)
      BY <2>1, RemoveAtSeq
    <2>4. CASE Deliver(p, i)
      <3>1. SendersTypeOK'
        BY <1>a, <2>3, <2>4 DEF SendersTypeOK, Deliver
      <3>2. StoreTypeOK' /\ AssemblyHonest' /\ \A s \in Slot : SlotHonest(s)'
        BY <1>a, <2>2, <2>4, HandleHonest DEF Deliver, SlaveOK
      <3> QED
        BY <1>b, <3>1, <3>2
    <2>5. CASE Drop(p, i)
      <3>1. <<>> \in Seq(HonestFrame)
        BY EmptySeq
      <3> QED
        BY <1>a, <1>b, <1>c, <2>3, <2>5, <3>1 DEF SendersTypeOK, Drop
    <2>6. CASE Duplicate(p, i)
      <3>1. Append(net["stray"], net[p][i]) \in Seq(HonestFrame)
        BY <1>a, <2>2, AppendProperties DEF SendersTypeOK, Channel
      <3> QED
        BY <1>a, <1>b, <1>c, <2>6, <3>1 DEF SendersTypeOK, Duplicate
    <2> QED
      BY <1>10, <2>4, <2>5, <2>6
  <1>11. CASE SlaveReboot
    <2>1. StoreTypeOK'
      BY <1>a, <1>11, RebootType DEF SlaveReboot, SlaveOK
    <2>2. AssemblyHonest' /\ \A s \in Slot : SlotHonest(s)'
      BY <1>a, <1>11 DEF SlaveReboot, Reboot, NoProg, AssemblyHonest, SlotHonest, SlaveOK
    <2> QED
      BY <1>a, <1>b, <1>11, <2>1, <2>2 DEF SendersTypeOK, SlaveReboot
  <1>12. CASE UNCHANGED replVars
    BY <1>a, <1>b, <1>c, <1>12 DEF SendersTypeOK, replVars
  <1> QED
    BY <1>1, <1>2, <1>3, <1>4, <1>5, <1>6, <1>7, <1>8, <1>9, <1>10, <1>11, <1>12
       DEF ReplNext

-----------------------------------------------------------------------------

\* The queues of both senders carry honest frames, and the slave's records and
\* its assembly are well formed.
THEOREM ReplicationTypeCorrect == ReplSpec => []ReplicationTypeOK
  <1>1. ReplInv => ReplicationTypeOK
    BY DEF ReplInv
  <1> QED
    BY <1>1, ReplInitInv, ReplNextInv, PTL DEF ReplSpec

\* Codes of different slots never mix, although one assembly serves all slots
\* and both senders, and whatever the radio does (espir_store.c:144-162).
THEOREM SlotsAreIsolated == ReplSpec => []SlotIsolation
  <1>1. ReplInv => SlotIsolation
    BY DEF ReplInv, SlotHonest, SlotIsolation
  <1> QED
    BY <1>1, ReplInitInv, ReplNextInv, PTL DEF ReplSpec

\* A record on the slave has the shape of a code of its slot, even one whose
\* bytes come from several transfers (espir_store.c:155-162).
THEOREM RecordsHaveAnnouncedShape == ReplSpec => []AnnouncedShape
  <1>1. ReplInv => AnnouncedShape
    BY DEF ReplInv, SlotHonest, AnnouncedShape
  <1> QED
    BY <1>1, ReplInitInv, ReplNextInv, PTL DEF ReplSpec

-----------------------------------------------------------------------------
(***************************************************************************)
(* Copies arrive whole.                                                    *)
(*                                                                         *)
(* commit looks at the number of bytes and at nothing else, so it has to   *)
(* be shown that an assembly with as many bytes as announced has got all   *)
(* of them, in order, from one code.  Two frames of a queue belong to one  *)
(* copy unless a frame that is never lost comes between them; what the     *)
(* assembly has begun stands in front of the queue like one more frame.    *)
(* An assembly has seen its code up to some byte, and as many bytes as     *)
(* that only if it has all of them: a lost chunk leaves it short for good. *)
(***************************************************************************)

\* What the data of a chunk show: the code, and the first and the last of its
\* bytes that the chunk carries.
CodeIn(m) == m.data[1][1]
FirstIn(m) == m.data[1][2]
LastIn(m) == m.data[Len(m.data)][2]

\* The bytes of code c from the i-th to the j-th.
Piece(c, i, j) == SubSeq(RecOf(c).blob, i, j)

\* The header of m, a begin or an assembly, is that of code c.
Begins(m, c) ==
    m.slot = Home[c] /\ m.kind = KindOf[c] /\ m.carrier = CarrierOf[c]
    /\ m.total = LenOf[c]

\* A frame that carries a code of C, or part of one.
CarriesCodeOf(C, m) ==
    /\ m.type = "program" => \E c \in C : m = ProgramFrame(Home[c], RecOf(c))
    /\ m.type = "begin" => \E c \in C : Begins(m, c)
    /\ m.type = "chunk" =>
          /\ CodeIn(m) \in C
          /\ m.slot = Home[CodeIn(m)]
          /\ FirstIn(m) \in Nat /\ LastIn(m) \in Nat
          /\ 1 <= FirstIn(m) /\ FirstIn(m) <= LastIn(m)
          /\ LastIn(m) <= LenOf[CodeIn(m)]
          /\ m.data = Piece(CodeIn(m), FirstIn(m), LastIn(m))
    /\ m.type = "commit" => \E c \in C : m.slot = Home[c]

\* m1 and then m2 may belong to one copy.
Follows(m1, m2) ==
    /\ m1.type = "begin" /\ m2.type = "chunk" => Begins(m1, CodeIn(m2))
    /\ m1.type = "chunk" /\ m2.type = "chunk" =>
          CodeIn(m1) = CodeIn(m2) /\ LastIn(m1) < FirstIn(m2)
    /\ m1.type \in {"begin", "chunk"} /\ m2.type = "commit" => m1.slot = m2.slot

\* A frame of type sep comes after the i-th of queue q and before the j-th.
Apart(q, sep, i, j) == \E k \in i + 1 .. j - 1 : q[k].type = sep

InSequence(q, sep) ==
    \A i \in 1 .. Len(q) : \A j \in i + 1 .. Len(q) :
        Follows(q[i], q[j]) \/ Apart(q, sep, i, j)

\* Where commits separate the copies, every copy ends in one.
Ends(q, sep) ==
    sep = "commit" =>
        \A i \in 1 .. Len(q) : q[i].type \in {"begin", "chunk"} =>
            \E j \in i + 1 .. Len(q) : q[j].type = "commit"

\* The queue of a sender of C, whose copies are kept apart by frames of type sep.
GoodQueue(q, sep, C) ==
    /\ \A i \in 1 .. Len(q) : CarriesCodeOf(C, q[i])
    /\ InSequence(q, sep)
    /\ Ends(q, sep)

\* Assembly a belongs to the sender of C.
OwnedBy(a, C) == a.active /\ \E c \in C : a.slot = Home[c]

\* Assembly a has seen code c up to its k-th byte, and holds all of these bytes
\* or fewer of them.
HasSeen(a, c, k) ==
    /\ Begins(a, c)
    /\ Len(a.buf) <= k
    /\ Len(a.buf) = k => a.buf = Piece(c, 1, k)

\* Assembly a has seen code c up to its k-th byte, and the frames of q that it
\* takes up bring the rest.
GoesOn(a, c, k, q, sep) ==
    /\ HasSeen(a, c, k)
    /\ \A j \in 1 .. Len(q) : q[j].type = "chunk" =>
          (CodeIn(q[j]) = c /\ k < FirstIn(q[j])) \/ Apart(q, sep, 0, j)

\* The frames of q that a takes up continue the code it has begun.
Continues(a, q, sep, C) ==
    OwnedBy(a, C) =>
        /\ \E c \in C : \E k \in 0 .. LenOf[c] : GoesOn(a, c, k, q, sep)
        /\ \A j \in 1 .. Len(q) : q[j].type = "commit" =>
              a.slot = q[j].slot \/ Apart(q, sep, 0, j)
        /\ sep = "commit" => \E j \in 1 .. Len(q) : q[j].type = "commit"

-----------------------------------------------------------------------------
(* A code and its pieces                                                   *)

\* Where the n-th chunk starts and ends, and that the next starts behind it.
LEMMA ChunkStart ==
  ASSUME NEW L \in Nat, NEW size \in Nat \ {0}, NEW n \in Nat \ {0},
         n <= (L + size - 1) \div size
  PROVE  (n - 1) * size + 1 <= L /\ (n - 1) * size \in Nat /\ n * size \in Nat
         /\ n * size = (n - 1) * size + size
  <1> DEFINE q == (L + size - 1) \div size
  <1>1. q \in Nat /\ q * size <= L + size - 1
    BY Z3
  <1> HIDE DEF q
  <1>2. n <= q
    BY DEF q
  <1>3. n * size <= q * size
    BY <1>1, <1>2, Z3
  <1>4. n * size = (n - 1) * size + size
    BY Z3
  <1>5. (n - 1) * size \in Nat /\ n * size \in Nat /\ q * size \in Nat
    BY <1>1, Z3
  <1> QED
    BY <1>1, <1>3, <1>4, <1>5, Z3

LEMMA ChunkOrder ==
  ASSUME NEW size \in Nat \ {0}, NEW n1 \in Nat \ {0}, NEW n2 \in Nat \ {0}, n1 < n2
  PROVE  n1 * size < (n2 - 1) * size + 1
  <1>1. n1 * size <= (n2 - 1) * size
    BY Z3
  <1>2. n1 * size \in Nat /\ (n2 - 1) * size \in Nat
    BY Z3
  <1> QED
    BY <1>1, <1>2, Z3

\* The bytes of a code, and of a piece of it.
LEMMA CodeBytes ==
  ASSUME NEW c \in Code
  PROVE  /\ LenOf[c] \in Nat \ {0}
         /\ RecOf(c).blob \in Seq(Byte)
         /\ Len(RecOf(c).blob) = LenOf[c]
         /\ \A i \in 1 .. LenOf[c] : RecOf(c).blob[i] = <<c, i>>
  <1>1. LenOf[c] \in 1 .. RawMaxBytes
    BY RecOfType
  <1>2. LenOf[c] \in Nat \ {0}
    BY <1>1, StoreAssumption, SMT
  <1>3. \A i \in 1 .. LenOf[c] : RecOf(c).blob[i] = <<c, i>>
    BY DEF RecOf
  <1> QED
    BY <1>2, <1>3, RecOfType

LEMMA PieceParts ==
  ASSUME NEW c \in Code, NEW i \in Nat, NEW j \in Nat, 1 <= i, i <= j, j <= LenOf[c]
  PROVE  /\ Piece(c, i, j) \in Seq(Byte)
         /\ Len(Piece(c, i, j)) = j - i + 1
         /\ Piece(c, i, j)[1] = <<c, i>>
         /\ Piece(c, i, j)[j - i + 1] = <<c, j>>
  <1> DEFINE b == RecOf(c).blob
  <1>1. \A n \in i .. j : n \in 1 .. Len(b)
    BY CodeBytes, SMT
  <1>2. \A n \in i .. j : b[n] \in Byte
    BY <1>1, CodeBytes, ElementOfSeq
  <1>3. /\ SubSeq(b, i, j) \in Seq(Byte)
        /\ Len(SubSeq(b, i, j)) = IF i <= j THEN j - i + 1 ELSE 0
        /\ \A n \in 1 .. j - i + 1 : SubSeq(b, i, j)[n] = b[i + n - 1]
    <2> HIDE DEF b
    <2> QED
      BY <1>2, SubSeqProperties, SMT
  <1>4. /\ 1 \in 1 .. j - i + 1 /\ j - i + 1 \in 1 .. j - i + 1
        /\ i + 1 - 1 = i /\ i + (j - i + 1) - 1 = j
        /\ i \in 1 .. LenOf[c] /\ j \in 1 .. LenOf[c]
    BY CodeBytes, SMT
  <1>5. b[i] = <<c, i>> /\ b[j] = <<c, j>>
    BY <1>4, CodeBytes
  <1> HIDE DEF b
  <1>6. SubSeq(b, i, j)[1] = b[i] /\ SubSeq(b, i, j)[j - i + 1] = b[j]
    BY <1>3, <1>4, SMT
  <1> QED
    BY <1>3, <1>5, <1>6 DEF Piece, b

\* The pieces of a code from its first byte on.
LEMMA PieceJoin ==
  ASSUME NEW c \in Code, NEW k \in 0 .. LenOf[c], NEW j \in k .. LenOf[c]
  PROVE  /\ Piece(c, 1, k) \o Piece(c, k + 1, j) = Piece(c, 1, j)
         /\ Piece(c, 1, 0) = <<>>
         /\ Piece(c, 1, LenOf[c]) = RecOf(c).blob
  <1>1. Piece(c, 1, 0) = <<>>
    BY SubSeqEmpty, SMT DEF Piece
  <1>2. Piece(c, 1, LenOf[c]) = RecOf(c).blob
    BY CodeBytes, SubSeqFull DEF Piece
  <1>3. /\ 1 \in 1 .. Len(RecOf(c).blob) + 1
        /\ k \in 1 - 1 .. Len(RecOf(c).blob)
        /\ j \in k .. Len(RecOf(c).blob)
    BY CodeBytes, SMT
  <1>4. SubSeq(RecOf(c).blob, 1, k) \o SubSeq(RecOf(c).blob, k + 1, j)
        = SubSeq(RecOf(c).blob, 1, j)
    BY <1>3, CodeBytes, ConcatAdjacentSubSeq
  <1> QED
    BY <1>1, <1>2, <1>4 DEF Piece

\* A chunk shows what piece of which code it is.
LEMMA ChunkOfCode ==
  ASSUME NEW c \in Code, NEW size \in Nat \ {0},
         NEW n \in 1 .. Chunks(RecOf(c), size)
  PROVE  LET m == ChunkFrame(Home[c], RecOf(c), n, size)
         IN  /\ m.type = "chunk" /\ m.slot = Home[c] /\ CodeIn(m) = c
             /\ FirstIn(m) = (n - 1) * size + 1 /\ FirstIn(m) \in Nat
             /\ LastIn(m) <= n * size /\ LastIn(m) \in Nat
             /\ 1 <= FirstIn(m) /\ FirstIn(m) <= LastIn(m) /\ LastIn(m) <= LenOf[c]
             /\ m.data = Piece(c, FirstIn(m), LastIn(m))
  <1> DEFINE m == ChunkFrame(Home[c], RecOf(c), n, size)
             L == LenOf[c]
             i == (n - 1) * size + 1
             j == IF n * size <= L THEN n * size ELSE L
             K == (L + size - 1) \div size
  <1>1. L \in Nat /\ Len(RecOf(c).blob) = L
    BY CodeBytes
  <1>2. Chunks(RecOf(c), size) = K
    BY <1>1 DEF Chunks
  <1>3. K \in Nat
    <2>1. L + size - 1 \in Nat
      BY <1>1, SMT
    <2> QED
      BY <2>1, QuotientIsNat
  <1>4. n \in Nat \ {0} /\ n <= K
    <2> HIDE DEF K
    <2> QED
      BY <1>2, <1>3, SMT
  <1>5. i <= L /\ (n - 1) * size \in Nat /\ n * size \in Nat
        /\ n * size = (n - 1) * size + size
    BY <1>1, <1>4, ChunkStart
  <1>6. i \in Nat /\ 1 <= i /\ j \in Nat /\ i <= j /\ j <= L /\ j <= n * size
    <2> DEFINE x == (n - 1) * size
               y == n * size
    <2> HIDE DEF x, y, L
    <2>1. x \in Nat /\ y \in Nat /\ y = x + size /\ x + 1 <= L /\ L \in Nat
      BY <1>1, <1>5 DEF x, y
    <2>2. i = x + 1 /\ j = IF y <= L THEN y ELSE L
      BY DEF x, y
    <2>3. x + 1 <= y
      BY <2>1, SMT
    <2> QED
      BY <2>1, <2>2, <2>3, SMT DEF y
  <1>7. m = [type |-> "chunk", slot |-> Home[c], data |-> Piece(c, i, j)]
    BY <1>1 DEF ChunkFrame, Piece
  <1> HIDE DEF m, i, j, L
  <1>8. /\ Len(Piece(c, i, j)) = j - i + 1
        /\ Piece(c, i, j)[1] = <<c, i>>
        /\ Piece(c, i, j)[j - i + 1] = <<c, j>>
    BY <1>6, PieceParts DEF L
  <1>9. m.type = "chunk" /\ m.slot = Home[c] /\ m.data = Piece(c, i, j)
    BY <1>7
  <1>10. CodeIn(m) = c /\ FirstIn(m) = i /\ LastIn(m) = j
    BY <1>8, <1>9 DEF CodeIn, FirstIn, LastIn
  <1>11. i = (n - 1) * size + 1
    BY DEF i
  <1>12. /\ m.type = "chunk" /\ m.slot = Home[c] /\ CodeIn(m) = c
         /\ FirstIn(m) = (n - 1) * size + 1 /\ FirstIn(m) \in Nat
         /\ LastIn(m) <= n * size /\ LastIn(m) \in Nat
         /\ 1 <= FirstIn(m) /\ FirstIn(m) <= LastIn(m) /\ LastIn(m) <= LenOf[c]
         /\ m.data = Piece(c, FirstIn(m), LastIn(m))
    BY <1>6, <1>9, <1>10, <1>11 DEF L
  <1> QED
    BY <1>12 DEF m

-----------------------------------------------------------------------------
(* What a sender makes of a code                                           *)

\* The frames that a sender of C makes at once: one copy, or a single frame.
Script(fs, sep, C) ==
    /\ \A i \in 1 .. Len(fs) : CarriesCodeOf(C, fs[i])
    /\ \A i \in 1 .. Len(fs) : \A j \in i + 1 .. Len(fs) : Follows(fs[i], fs[j])
    /\ Ends(fs, sep)
    /\ Len(fs) > 0 => fs[1].type \in {"program", "begin", "clear"}
    /\ Len(fs) > 1 => fs[1].type = "begin"

\* The frames of a code that does not fit one frame.
LEMMA LongCopy ==
  ASSUME NEW c \in Code, NEW size \in Nat \ {0}, ~(Len(RecOf(c).blob) <= size)
  PROVE  \E K \in Nat :
            LET fs == Frames(Home[c], RecOf(c), size)
            IN  /\ K = Chunks(RecOf(c), size)
                /\ Len(fs) = K + 2
                /\ fs[1] = BeginFrame(Home[c], RecOf(c))
                /\ \A i \in 2 .. K + 1 :
                      fs[i] = ChunkFrame(Home[c], RecOf(c), i - 1, size)
                /\ fs[K + 2] = CommitFrame(Home[c])
  <1> DEFINE s == Home[c]
             r == RecOf(c)
             K == Chunks(r, size)
             ch == [n \in 1 .. K |-> ChunkFrame(s, r, n, size)]
             All == {BeginFrame(s, r), CommitFrame(s)}
                    \cup {ChunkFrame(s, r, n, size) : n \in 1 .. K}
  <1>1. K \in Nat
    <2>1. Len(r.blob) + size - 1 \in Nat
      BY CodeBytes, SMT
    <2>2. K = (Len(r.blob) + size - 1) \div size
      BY DEF Chunks
    <2> QED
      BY <2>1, <2>2, QuotientIsNat
  <1>2. Frames(s, r, size) = <<BeginFrame(s, r)>> \o ch \o <<CommitFrame(s)>>
    BY DEF Frames
  <1>3. /\ <<BeginFrame(s, r)>> \in Seq(All)
        /\ <<CommitFrame(s)>> \in Seq(All)
    OBVIOUS
  <1>4. \A n \in 1 .. K : ch[n] = ChunkFrame(s, r, n, size)
    OBVIOUS
  <1>5. ch \in Seq(All) /\ Len(ch) = K
    <2>1. ch \in [1 .. K -> All]
      OBVIOUS
    <2> HIDE DEF K, ch, All
    <2> QED
      BY <1>1, <2>1, SMT
  <1> HIDE DEF K, ch, All
  <1> DEFINE h == <<BeginFrame(s, r)>>
             t == <<CommitFrame(s)>>
  <1>6. Len(h) = 1 /\ h[1] = BeginFrame(s, r) /\ Len(t) = 1 /\ t[1] = CommitFrame(s)
    OBVIOUS
  <1>7. h \in Seq(All) /\ t \in Seq(All)
    BY <1>3
  <1> HIDE DEF h, t
  <1>8. /\ h \o ch \in Seq(All)
        /\ Len(h \o ch) = 1 + K
        /\ \A i \in 1 .. 1 + K : (h \o ch)[i] = IF i <= 1 THEN h[i] ELSE ch[i - 1]
    <2>1. /\ h \o ch \in Seq(All)
          /\ Len(h \o ch) = Len(h) + Len(ch)
          /\ \A i \in 1 .. Len(h) + Len(ch) :
                (h \o ch)[i] = IF i <= Len(h) THEN h[i] ELSE ch[i - Len(h)]
      BY <1>5, <1>7, ConcatProperties
    <2>2. Len(h) = 1 /\ Len(ch) = K
      BY <1>5, <1>6
    <2> QED
      BY <2>1, <2>2
  <1> DEFINE g == h \o ch
  <1> HIDE DEF g
  <1>9. /\ g \in Seq(All) /\ Len(g) = 1 + K
        /\ \A i \in 1 .. 1 + K : g[i] = IF i <= 1 THEN h[i] ELSE ch[i - 1]
    BY <1>8 DEF g
  <1>10. /\ Len(g \o t) = 1 + K + 1
         /\ \A i \in 1 .. 1 + K + 1 : (g \o t)[i] = IF i <= 1 + K THEN g[i] ELSE t[i - (1 + K)]
    <2>1. /\ Len(g \o t) = Len(g) + Len(t)
          /\ \A i \in 1 .. Len(g) + Len(t) :
                (g \o t)[i] = IF i <= Len(g) THEN g[i] ELSE t[i - Len(g)]
      BY <1>7, <1>9, ConcatProperties
    <2>2. Len(g) = 1 + K /\ Len(t) = 1
      BY <1>6, <1>9
    <2> QED
      BY <2>1, <2>2
  <1> DEFINE f == g \o t
  <1> HIDE DEF f
  <1>11. /\ Len(f) = 1 + K + 1
         /\ \A i \in 1 .. 1 + K + 1 : f[i] = IF i <= 1 + K THEN g[i] ELSE t[i - (1 + K)]
    BY <1>10 DEF f
  <1>12. f[1] = BeginFrame(s, r) /\ f[K + 2] = CommitFrame(s) /\ Len(f) = K + 2
    BY <1>1, <1>6, <1>9, <1>11, SMT
  <1>13. ASSUME NEW i \in 2 .. K + 1
         PROVE  f[i] = ChunkFrame(s, r, i - 1, size)
    <2>1. i - 1 \in 1 .. K /\ i \in 1 .. 1 + K /\ i \in 1 .. 1 + K + 1 /\ ~(i <= 1)
      BY <1>1, SMT
    <2>2. f[i] = ch[i - 1]
      BY <1>9, <1>11, <2>1, SMT
    <2> QED
      BY <1>4, <2>1, <2>2
  <1>14. Frames(s, r, size) = f
    BY <1>2 DEF f, g, h, t
  <1> QED
    BY <1>1, <1>12, <1>13, <1>14 DEF K

\* What replicate_slot_to and tzProgram make of a code is such a script.
LEMMA FramesAreScript ==
  ASSUME NEW C \in SUBSET Code, NEW c \in C, NEW size \in Nat \ {0}, NEW sep
  PROVE  Script(Frames(Home[c], RecOf(c), size), sep, C)
  <1> DEFINE s == Home[c]
             r == RecOf(c)
  <1>0. c \in Code
    OBVIOUS
  <1>1. CASE Len(r.blob) <= size
    <2> DEFINE m == ProgramFrame(s, r)
               fs == <<m>>
    <2>1. m.type = "program"
      BY DEF ProgramFrame
    <2>2. Len(fs) = 1 /\ fs[1] = m
      OBVIOUS
    <2>3. CarriesCodeOf(C, m)
      BY <2>1 DEF CarriesCodeOf
    <2> HIDE DEF m
    <2>4. Script(fs, sep, C)
      <3> HIDE DEF fs
      <3> QED
        BY <2>1, <2>2, <2>3, SMT DEF Script, Ends
    <2> QED
      BY <1>1, <2>4 DEF Frames, m
  <1>2. CASE ~(Len(r.blob) <= size)
    <2> DEFINE fs == Frames(s, r, size)
    <2>1. PICK K \in Nat :
             /\ K = Chunks(r, size)
             /\ Len(fs) = K + 2
             /\ fs[1] = BeginFrame(s, r)
             /\ \A i \in 2 .. K + 1 : fs[i] = ChunkFrame(s, r, i - 1, size)
             /\ fs[K + 2] = CommitFrame(s)
      BY <1>0, <1>2, LongCopy
    <2>2. fs[1].type = "begin" /\ Begins(fs[1], c)
      <3>1. /\ BeginFrame(s, r).type = "begin" /\ BeginFrame(s, r).slot = s
            /\ BeginFrame(s, r).kind = r.kind /\ BeginFrame(s, r).carrier = r.carrier
            /\ BeginFrame(s, r).total = Len(r.blob)
        BY DEF BeginFrame
      <3>2. r.kind = KindOf[c] /\ r.carrier = CarrierOf[c] /\ Len(r.blob) = LenOf[c]
        BY <1>0, RecOfType
      <3> QED
        BY <2>1, <3>1, <3>2 DEF Begins
    <2>3. fs[K + 2].type = "commit" /\ fs[K + 2].slot = s
      <3>1. CommitFrame(s).type = "commit" /\ CommitFrame(s).slot = s
        BY DEF CommitFrame
      <3> QED
        BY <2>1, <3>1
    <2>4. ASSUME NEW i \in 2 .. K + 1
          PROVE  /\ fs[i].type = "chunk" /\ fs[i].slot = s /\ CodeIn(fs[i]) = c
                 /\ FirstIn(fs[i]) = (i - 1 - 1) * size + 1 /\ FirstIn(fs[i]) \in Nat
                 /\ LastIn(fs[i]) <= (i - 1) * size /\ LastIn(fs[i]) \in Nat
                 /\ 1 <= FirstIn(fs[i]) /\ FirstIn(fs[i]) <= LastIn(fs[i])
                 /\ LastIn(fs[i]) <= LenOf[c]
                 /\ fs[i].data = Piece(c, FirstIn(fs[i]), LastIn(fs[i]))
      <3>1. i - 1 \in 1 .. Chunks(r, size)
        BY <2>1, SMT
      <3>2. fs[i] = ChunkFrame(s, r, i - 1, size)
        BY <2>1
      <3> HIDE DEF fs
      <3> QED
        BY <1>0, <3>1, <3>2, ChunkOfCode
    <2>5. \A i \in 1 .. K + 2 : i = 1 \/ i \in 2 .. K + 1 \/ i = K + 2
      BY SMT
    <2>6. Len(fs) = K + 2
      BY <2>1
    <2> HIDE DEF fs, s, r
    <2>7. ASSUME NEW i \in 1 .. Len(fs)
          PROVE  CarriesCodeOf(C, fs[i])
      <3>1. CASE i = 1
        BY <2>2, <3>1 DEF CarriesCodeOf
      <3>2. CASE i \in 2 .. K + 1
        BY <2>4, <3>2 DEF CarriesCodeOf, s
      <3>3. CASE i = K + 2
        BY <2>3, <3>3 DEF CarriesCodeOf, s
      <3> QED
        BY <2>5, <2>6, <3>1, <3>2, <3>3
    <2>8. ASSUME NEW i \in 1 .. Len(fs), NEW j \in i + 1 .. Len(fs)
          PROVE  Follows(fs[i], fs[j])
      <3>1. (i = 1 \/ i \in 2 .. K + 1) /\ (j \in 2 .. K + 1 \/ j = K + 2)
        BY <2>6, SMT
      <3>2. CASE i = 1 /\ j \in 2 .. K + 1
        BY <2>2, <2>4, <3>2 DEF Follows
      <3>3. CASE i = 1 /\ j = K + 2
        BY <2>2, <2>3, <3>3 DEF Follows, Begins, s
      <3>4. CASE i \in 2 .. K + 1 /\ j \in 2 .. K + 1
        <4>1. i - 1 \in Nat \ {0} /\ j - 1 \in Nat \ {0} /\ i - 1 < j - 1
          BY <3>4, SMT
        <4>2. (i - 1) * size < (j - 1 - 1) * size + 1
          BY <4>1, ChunkOrder
        <4>3. LastIn(fs[i]) <= (i - 1) * size /\ LastIn(fs[i]) \in Nat
              /\ FirstIn(fs[j]) = (j - 1 - 1) * size + 1 /\ FirstIn(fs[j]) \in Nat
          BY <2>4, <3>4
        <4>4. (i - 1) * size \in Nat
          BY <4>1, Z3
        <4>5. LastIn(fs[i]) < FirstIn(fs[j])
          <5> DEFINE x == (i - 1) * size
                     y == (j - 1 - 1) * size + 1
          <5>1. /\ x \in Nat /\ x < y
                /\ LastIn(fs[i]) <= x /\ LastIn(fs[i]) \in Nat
                /\ FirstIn(fs[j]) = y /\ FirstIn(fs[j]) \in Nat
            BY <4>2, <4>3, <4>4
          <5> HIDE DEF x, y
          <5> QED
            BY <5>1, SMT
        <4> QED
          BY <2>4, <3>4, <4>5 DEF Follows
      <3>5. CASE i \in 2 .. K + 1 /\ j = K + 2
        BY <2>3, <2>4, <3>5 DEF Follows
      <3> QED
        BY <3>1, <3>2, <3>3, <3>4, <3>5
    <2>9. Ends(fs, sep)
      <3>1. ASSUME NEW i \in 1 .. Len(fs), fs[i].type \in {"begin", "chunk"}
            PROVE  \E j \in i + 1 .. Len(fs) : fs[j].type = "commit"
        <4>1. i # K + 2
          BY <2>3, <3>1
        <4>2. K + 2 \in i + 1 .. Len(fs)
          BY <2>6, <4>1, SMT
        <4> QED
          BY <2>3, <4>2
      <3> QED
        BY <3>1 DEF Ends
    <2> QED
      BY <2>2, <2>7, <2>8, <2>9 DEF Script, fs, s, r
  <1> QED
    BY <1>1, <1>2

\* A head of a script is one, where the begin keeps the copies apart.
LEMMA HeadOfScript ==
  ASSUME NEW S, NEW fs \in Seq(S), NEW C, NEW n \in Int, n <= Len(fs),
         NEW sep, sep = "begin" \/ n = Len(fs), Script(fs, sep, C)
  PROVE  Script(SubSeq(fs, 1, n), sep, C)
  <1> DEFINE gs == SubSeq(fs, 1, n)
  <1>1. Len(fs) \in Nat
    BY LenProperties
  <1>2. CASE n = Len(fs)
    BY <1>2, SubSeqFull
  <1>3. CASE n # Len(fs)
    <2>1. sep = "begin"
      BY <1>3
    <2>2. \A i \in 1 .. n : i \in 1 .. Len(fs)
      BY <1>1, SMT
    <2>3. \A i \in 1 .. n : fs[i] \in S
      BY <2>2, ElementOfSeq
    <2>4. Len(gs) = (IF 1 <= n THEN n - 1 + 1 ELSE 0)
          /\ \A i \in 1 .. n - 1 + 1 : gs[i] = fs[1 + i - 1]
      BY <2>3, SubSeqProperties
    <2> HIDE DEF gs
    <2>5. Len(gs) = (IF 1 <= n THEN n ELSE 0) /\ \A i \in 1 .. Len(gs) : gs[i] = fs[i]
      BY <1>1, <2>4, SMT
    <2>6. \A i \in 1 .. Len(gs) : i \in 1 .. Len(fs) /\ \A j \in i + 1 .. Len(gs) :
             j \in i + 1 .. Len(fs) /\ j \in 1 .. Len(gs)
      BY <1>1, <2>5, SMT
    <2>7. \A i \in 1 .. Len(gs) : CarriesCodeOf(C, gs[i])
      BY <2>5, <2>6 DEF Script
    <2>8. \A i \in 1 .. Len(gs) : \A j \in i + 1 .. Len(gs) : Follows(gs[i], gs[j])
      BY <2>5, <2>6 DEF Script
    <2>9. Ends(gs, sep)
      BY <2>1 DEF Ends
    <2>10. /\ Len(gs) > 0 => Len(fs) > 0 /\ gs[1] = fs[1]
           /\ Len(gs) > 1 => Len(fs) > 1 /\ gs[1] = fs[1]
      BY <1>1, <2>5, SMT
    <2> QED
      BY <2>7, <2>8, <2>9, <2>10 DEF Script, gs
  <1> QED
    BY <1>2, <1>3

-----------------------------------------------------------------------------
(* A script is queued                                                      *)

\* A script queued behind the others leaves the queue good, and continues what
\* the slave has begun.
LEMMA AppendKeeps ==
  ASSUME NEW S, NEW q \in Seq(S), NEW gs \in Seq(S), NEW C, NEW a,
         NEW sep \in {"begin", "commit"},
         GoodQueue(q, sep, C), Continues(a, q, sep, C), Script(gs, sep, C)
  PROVE  GoodQueue(q \o gs, sep, C) /\ Continues(a, q \o gs, sep, C)
  <1> DEFINE r == q \o gs
             n == Len(q)
  <1>1. n \in Nat /\ Len(gs) \in Nat
    BY LenProperties
  <1>2. Len(r) = n + Len(gs)
        /\ \A i \in 1 .. n + Len(gs) : r[i] = IF i <= n THEN q[i] ELSE gs[i - n]
    BY ConcatProperties
  <1> HIDE DEF r, n
  <1>3. \A i \in 1 .. n : r[i] = q[i] /\ i \in 1 .. Len(r)
    BY <1>1, <1>2, SMT
  <1>4. \A i \in n + 1 .. Len(r) : r[i] = gs[i - n] /\ i - n \in 1 .. Len(gs)
    BY <1>1, <1>2, SMT
  <1>5. \A i \in 1 .. Len(r) : i \in 1 .. n \/ i \in n + 1 .. Len(r)
    BY <1>1, <1>2, SMT
  <1>6. ASSUME NEW i \in 0 .. n, NEW j \in 0 .. n, Apart(q, sep, i, j)
        PROVE  Apart(r, sep, i, j)
    <2>1. PICK k \in i + 1 .. j - 1 : q[k].type = sep
      BY <1>6 DEF Apart
    <2>2. k \in 1 .. n
      BY <1>1, SMT
    <2> QED
      BY <1>3, <2>1, <2>2 DEF Apart
  <1>7. \A i \in 1 .. Len(r) : CarriesCodeOf(C, r[i])
    BY <1>3, <1>4, <1>5 DEF GoodQueue, Script, n
  <1>8. ASSUME NEW i \in 0 .. n, NEW j \in n + 1 .. Len(r), sep = "begin"
        PROVE  \/ r[j].type \in {"program", "begin", "clear"}
               \/ Apart(r, sep, i, j)
    <2>1. CASE j = n + 1
      <3>1. r[j] = gs[1] /\ Len(gs) > 0
        BY <1>1, <1>2, <1>4, <2>1, SMT
      <3> QED
        BY <3>1 DEF Script
    <2>2. CASE j # n + 1
      <3>1. n + 1 \in i + 1 .. j - 1 /\ Len(gs) > 1
        BY <1>1, <1>2, <2>2, SMT
      <3>2. n + 1 \in 1 .. n + Len(gs) /\ ~(n + 1 <= n) /\ n + 1 - n = 1
        BY <1>1, <3>1, SMT
      <3>3. r[n + 1] = gs[1]
        BY <1>1, <1>2, <3>1, SMT
      <3> QED
        BY <1>8, <3>1, <3>3 DEF Script, Apart
    <2> QED
      BY <2>1, <2>2
  <1>9. InSequence(r, sep)
    <2> SUFFICES ASSUME NEW i \in 1 .. Len(r), NEW j \in i + 1 .. Len(r)
                 PROVE  Follows(r[i], r[j]) \/ Apart(r, sep, i, j)
      BY DEF InSequence
    <2>1. CASE j <= n
      <3>1. i \in 1 .. n /\ j \in i + 1 .. n /\ j \in 1 .. n /\ i \in 0 .. n /\ j \in 0 .. n
        BY <1>1, <2>1, SMT
      <3>2. Follows(q[i], q[j]) \/ Apart(q, sep, i, j)
        BY <3>1 DEF GoodQueue, InSequence, n
      <3> QED
        BY <1>3, <1>6, <3>1, <3>2
    <2>2. CASE n < i
      <3>1. i \in n + 1 .. Len(r) /\ j \in n + 1 .. Len(r) /\ j - n \in i - n + 1 .. Len(gs)
        BY <1>1, <1>2, <2>2, SMT
      <3>2. Follows(gs[i - n], gs[j - n])
        BY <1>4, <3>1 DEF Script
      <3> QED
        BY <1>4, <3>1, <3>2
    <2>3. CASE i <= n /\ n < j
      <3>1. i \in 1 .. n /\ i \in 0 .. n /\ j \in n + 1 .. Len(r)
        BY <1>1, <1>2, <2>3, SMT
      <3>2. CASE sep = "begin"
        BY <1>8, <3>1, <3>2 DEF Follows
      <3>3. CASE sep = "commit" /\ r[i].type \in {"begin", "chunk"}
        <4>1. PICK k \in i + 1 .. n : q[k].type = "commit"
          BY <1>3, <3>1, <3>3 DEF GoodQueue, Ends, n
        <4>2. k \in 1 .. n /\ k \in i + 1 .. j - 1
          BY <1>1, <3>1, SMT
        <4> QED
          BY <1>3, <3>3, <4>1, <4>2 DEF Apart
      <3>4. CASE r[i].type \notin {"begin", "chunk"}
        BY <3>4 DEF Follows
      <3> QED
        BY <3>2, <3>3, <3>4
    <2>4. j <= n \/ n < i \/ (i <= n /\ n < j)
      BY <1>1, SMT
    <2> QED
      BY <2>1, <2>2, <2>3, <2>4
  <1>10. Ends(r, sep)
    <2> SUFFICES ASSUME sep = "commit",
                        NEW i \in 1 .. Len(r), r[i].type \in {"begin", "chunk"}
                 PROVE  \E j \in i + 1 .. Len(r) : r[j].type = "commit"
      BY DEF Ends
    <2>1. CASE i \in 1 .. n
      <3>1. PICK k \in i + 1 .. n : q[k].type = "commit"
        BY <1>3, <2>1 DEF GoodQueue, Ends, n
      <3>2. k \in 1 .. n /\ k \in i + 1 .. Len(r)
        BY <1>1, <1>2, <2>1, SMT
      <3> QED
        BY <1>3, <3>1, <3>2
    <2>2. CASE i \in n + 1 .. Len(r)
      <3>1. PICK k \in i - n + 1 .. Len(gs) : gs[k].type = "commit"
        BY <1>4, <2>2 DEF Script, Ends
      <3>2. k + n \in i + 1 .. Len(r) /\ k + n \in 1 .. n + Len(gs) /\ ~(k + n <= n)
        BY <1>1, <1>2, <2>2, SMT
      <3>3. r[k + n] = gs[k]
        BY <1>1, <1>2, <3>2, SMT
      <3> QED
        BY <3>1, <3>2, <3>3
    <2> QED
      BY <1>5, <2>1, <2>2
  <1>11. ASSUME OwnedBy(a, C), NEW j \in n + 1 .. Len(r), r[j].type \in {"chunk", "commit"}
         PROVE  Apart(r, sep, 0, j)
    <2>1. CASE sep = "begin"
      <3>1. 0 \in 0 .. n
        BY <1>1, SMT
      <3> QED
        BY <1>8, <1>11, <2>1, <3>1
    <2>2. CASE sep = "commit"
      <3>1. PICK k \in 1 .. n : q[k].type = "commit"
        BY <1>11, <2>2 DEF Continues, n
      <3>2. k \in 0 + 1 .. j - 1
        BY <1>1, <1>2, SMT
      <3> QED
        BY <1>3, <2>2, <3>1, <3>2 DEF Apart
    <2> QED
      BY <2>1, <2>2
  <1>12. \A j \in 1 .. n : j \in 0 .. n /\ 0 \in 0 .. n
    BY <1>1, SMT
  <1>13. Continues(a, r, sep, C)
    <2> SUFFICES ASSUME OwnedBy(a, C)
                 PROVE  /\ \E c \in C : \E k \in 0 .. LenOf[c] : GoesOn(a, c, k, r, sep)
                        /\ \A j \in 1 .. Len(r) : r[j].type = "commit" =>
                              a.slot = r[j].slot \/ Apart(r, sep, 0, j)
                        /\ sep = "commit" => \E j \in 1 .. Len(r) : r[j].type = "commit"
      BY DEF Continues
    <2>1. PICK c \in C : \E k \in 0 .. LenOf[c] : GoesOn(a, c, k, q, sep)
      BY DEF Continues
    <2>a. PICK k \in 0 .. LenOf[c] : GoesOn(a, c, k, q, sep)
      BY <2>1
    <2>2. GoesOn(a, c, k, r, sep)
      BY <1>3, <1>5, <1>6, <1>11, <1>12, <2>a DEF GoesOn, n
    <2>3. \A j \in 1 .. Len(r) : r[j].type = "commit" =>
             a.slot = r[j].slot \/ Apart(r, sep, 0, j)
      <3>1. \A j \in 1 .. n : q[j].type = "commit" =>
               a.slot = q[j].slot \/ Apart(q, sep, 0, j)
        BY DEF Continues, n
      <3> QED
        BY <1>3, <1>5, <1>6, <1>11, <1>12, <3>1
    <2>4. sep = "commit" => \E j \in 1 .. Len(r) : r[j].type = "commit"
      BY <1>3 DEF Continues, n
    <2> QED
      BY <2>1, <2>2, <2>3, <2>4
  <1> QED
    BY <1>7, <1>9, <1>10, <1>13 DEF GoodQueue, r

-----------------------------------------------------------------------------
(* A frame is lost                                                         *)

\* What comes before the i-th stays where it is, what comes after it moves up.
LEMMA RemoveAtParts ==
  ASSUME NEW S, NEW q \in Seq(S), NEW i \in 1 .. Len(q)
  PROVE  /\ Len(RemoveAt(q, i)) = Len(q) - 1
         /\ \A j \in 1 .. Len(q) - 1 :
               RemoveAt(q, i)[j] = IF j < i THEN q[j] ELSE q[j + 1]
  <1> DEFINE s == SubSeq(q, 1, i - 1)
             t == SubSeq(q, i + 1, Len(q))
  <1>1. Len(q) \in Nat /\ i \in Nat /\ 1 <= i /\ i <= Len(q)
    BY LenProperties, SMT
  <1>2. /\ 1 \in Int /\ i - 1 \in Int /\ i + 1 \in Int /\ Len(q) \in Int
        /\ \A j \in 1 .. i - 1 : j \in 1 .. Len(q)
        /\ \A j \in i + 1 .. Len(q) : j \in 1 .. Len(q)
    BY <1>1, SMT
  <1>3. \A j \in 1 .. i - 1 : q[j] \in S
    BY <1>2, ElementOfSeq
  <1>4. \A j \in i + 1 .. Len(q) : q[j] \in S
    BY <1>2, ElementOfSeq
  <1>5. /\ s \in Seq(S) /\ Len(s) = (IF 1 <= i - 1 THEN i - 1 - 1 + 1 ELSE 0)
        /\ \A j \in 1 .. i - 1 - 1 + 1 : s[j] = q[1 + j - 1]
    BY <1>2, <1>3, SubSeqProperties
  <1>6. /\ t \in Seq(S)
        /\ Len(t) = (IF i + 1 <= Len(q) THEN Len(q) - (i + 1) + 1 ELSE 0)
        /\ \A j \in 1 .. Len(q) - (i + 1) + 1 : t[j] = q[i + 1 + j - 1]
    BY <1>2, <1>4, SubSeqProperties
  <1>7. RemoveAt(q, i) = s \o t
    BY DEF RemoveAt
  <1> HIDE DEF s, t
  <1>8. Len(s) = i - 1 /\ Len(t) = Len(q) - i
    BY <1>1, <1>5, <1>6, SMT
  <1>9. /\ Len(s \o t) = Len(s) + Len(t)
        /\ \A j \in 1 .. Len(s) + Len(t) : (s \o t)[j] =
              IF j <= Len(s) THEN s[j] ELSE t[j - Len(s)]
    BY <1>5, <1>6, ConcatProperties
  <1>10. Len(s \o t) = Len(q) - 1
    BY <1>1, <1>8, <1>9, SMT
  <1>11. ASSUME NEW j \in 1 .. Len(q) - 1
         PROVE  (s \o t)[j] = IF j < i THEN q[j] ELSE q[j + 1]
    <2>1. j \in 1 .. Len(s) + Len(t)
      BY <1>1, <1>8, SMT
    <2>2. CASE j < i
      <3>1. j <= Len(s) /\ j \in 1 .. i - 1 - 1 + 1 /\ 1 + j - 1 = j
        BY <1>1, <1>8, <2>2, SMT
      <3> QED
        BY <1>5, <1>9, <2>1, <2>2, <3>1
    <2>3. CASE ~(j < i)
      <3>1. /\ ~(j <= Len(s)) /\ j - Len(s) \in 1 .. Len(q) - (i + 1) + 1
            /\ i + 1 + (j - Len(s)) - 1 = j + 1
        BY <1>1, <1>8, <2>3, SMT
      <3>2. t[j - Len(s)] = q[j + 1]
        BY <1>6, <3>1
      <3> QED
        BY <1>9, <2>1, <2>3, <3>1, <3>2
    <2> QED
      BY <2>2, <2>3
  <1> QED
    BY <1>7, <1>10, <1>11

\* A frame of another type than sep is lost from the middle of a queue.
LEMMA LossKeeps ==
  ASSUME NEW S, NEW q \in Seq(S), NEW i \in 1 .. Len(q), NEW C, NEW a,
         NEW sep \in {"begin", "commit"}, q[i].type # sep,
         GoodQueue(q, sep, C), Continues(a, q, sep, C)
  PROVE  GoodQueue(RemoveAt(q, i), sep, C) /\ Continues(a, RemoveAt(q, i), sep, C)
  <1> DEFINE r == RemoveAt(q, i)
             At(j) == IF j < i THEN j ELSE j + 1
             Back(k) == IF k < i THEN k ELSE k - 1
  <1>1. Len(q) \in Nat /\ i \in Nat /\ 1 <= i /\ i <= Len(q)
    BY LenProperties, SMT
  <1>2. Len(r) = Len(q) - 1 /\ \A j \in 1 .. Len(q) - 1 : r[j] = IF j < i THEN q[j] ELSE q[j + 1]
    BY RemoveAtParts
  <1> HIDE DEF r
  <1>3. \A j \in 1 .. Len(r) : r[j] = q[At(j)] /\ At(j) \in 1 .. Len(q)
    BY <1>1, <1>2, SMT
  <1>4. \A k \in 1 .. Len(q) : k # i => Back(k) \in 1 .. Len(r) /\ r[Back(k)] = q[k]
    BY <1>1, <1>2, SMT
  <1>5. \A j \in 1 .. Len(r) : \A l \in j + 1 .. Len(r) : At(l) \in At(j) + 1 .. Len(q)
    BY <1>1, <1>2, SMT
  <1>6. ASSUME NEW j \in 0 .. Len(r), NEW l \in 1 .. Len(r), Apart(q, sep, At(j), At(l))
        PROVE  Apart(r, sep, j, l)
    <2>1. PICK k \in At(j) + 1 .. At(l) - 1 : q[k].type = sep
      BY <1>6 DEF Apart
    <2>2. k # i /\ k \in 1 .. Len(q)
      BY <1>1, <1>2, <2>1, SMT
    <2>3. Back(k) \in j + 1 .. l - 1
      BY <1>1, <1>2, <2>2, SMT
    <2> QED
      BY <1>4, <2>1, <2>2, <2>3 DEF Apart
  <1>7. At(0) = 0
    BY <1>1, SMT
  <1>8. \A j \in 1 .. Len(r) : j \in 0 .. Len(r) /\ 0 \in 0 .. Len(r)
    BY <1>1, <1>2, SMT
  <1>9. \A j \in 1 .. Len(r) : \A l \in j + 1 .. Len(r) : l \in 1 .. Len(r)
    BY SMT
  <1>10. ASSUME sep = "commit", NEW k \in 1 .. Len(q), q[k].type = "commit"
         PROVE  k # i
    BY <1>10
  <1>11. \A j \in 1 .. Len(r) : \A k \in At(j) + 1 .. Len(q) :
            k # i => Back(k) \in j + 1 .. Len(r) /\ k \in 1 .. Len(q)
    BY <1>1, <1>2, SMT
  <1> HIDE DEF At, Back
  <1>12. \A j \in 1 .. Len(r) : CarriesCodeOf(C, r[j])
    BY <1>3 DEF GoodQueue
  <1>13. InSequence(r, sep)
    <2> SUFFICES ASSUME NEW j \in 1 .. Len(r), NEW l \in j + 1 .. Len(r)
                 PROVE  Follows(r[j], r[l]) \/ Apart(r, sep, j, l)
      BY DEF InSequence
    <2>1. l \in 1 .. Len(r)
      BY <1>9
    <2>2. Follows(q[At(j)], q[At(l)]) \/ Apart(q, sep, At(j), At(l))
      BY <1>3, <1>5 DEF GoodQueue, InSequence
    <2> QED
      BY <1>3, <1>6, <1>8, <2>1, <2>2
  <1>14. Ends(r, sep)
    <2> SUFFICES ASSUME sep = "commit",
                        NEW j \in 1 .. Len(r), r[j].type \in {"begin", "chunk"}
                 PROVE  \E l \in j + 1 .. Len(r) : r[l].type = "commit"
      BY DEF Ends
    <2>1. PICK k \in At(j) + 1 .. Len(q) : q[k].type = "commit"
      BY <1>3 DEF GoodQueue, Ends
    <2>2. k # i
      BY <2>1
    <2> QED
      BY <1>4, <1>11, <2>1, <2>2
  <1>15. Continues(a, r, sep, C)
    <2> SUFFICES ASSUME OwnedBy(a, C)
                 PROVE  /\ \E c \in C : \E k \in 0 .. LenOf[c] : GoesOn(a, c, k, r, sep)
                        /\ \A j \in 1 .. Len(r) : r[j].type = "commit" =>
                              a.slot = r[j].slot \/ Apart(r, sep, 0, j)
                        /\ sep = "commit" => \E j \in 1 .. Len(r) : r[j].type = "commit"
      BY DEF Continues
    <2>1. PICK c \in C : \E k \in 0 .. LenOf[c] : GoesOn(a, c, k, q, sep)
      BY DEF Continues
    <2>a. PICK k \in 0 .. LenOf[c] : GoesOn(a, c, k, q, sep)
      BY <2>1
    <2>2. GoesOn(a, c, k, r, sep)
      BY <1>3, <1>6, <1>7, <1>8, <2>a DEF GoesOn
    <2>3. \A j \in 1 .. Len(r) : r[j].type = "commit" =>
             a.slot = r[j].slot \/ Apart(r, sep, 0, j)
      <3>1. \A j \in 1 .. Len(q) : q[j].type = "commit" =>
               a.slot = q[j].slot \/ Apart(q, sep, 0, j)
        BY DEF Continues
      <3> QED
        BY <1>3, <1>6, <1>7, <1>8, <3>1
    <2>4. sep = "commit" => \E j \in 1 .. Len(r) : r[j].type = "commit"
      <3>1. sep = "commit" => \E j \in 1 .. Len(q) : q[j].type = "commit"
        BY DEF Continues
      <3> QED
        BY <1>4, <3>1
    <2> QED
      BY <2>1, <2>2, <2>3, <2>4
  <1> QED
    BY <1>12, <1>13, <1>14, <1>15 DEF GoodQueue, r

-----------------------------------------------------------------------------
(* The slave takes a frame                                                 *)

\* The slave takes the first frame of a queue.
LEMMA HeadTaken ==
  ASSUME NEW S, NEW q \in Seq(S), Len(q) > 0, NEW C, NEW sep, GoodQueue(q, sep, C)
  PROVE  LET r == RemoveAt(q, 1)
         IN  /\ GoodQueue(r, sep, C)
             /\ \A j \in 1 .. Len(r) : Follows(q[1], r[j]) \/ Apart(r, sep, 0, j)
             /\ sep = "commit" /\ q[1].type \in {"begin", "chunk"} =>
                   \E j \in 1 .. Len(r) : r[j].type = "commit"
             /\ \A j \in 1 .. Len(r) : r[j] = q[j + 1] /\ j + 1 \in 1 .. Len(q)
             /\ q[1].type # sep => \A j \in 1 .. Len(r) :
                   Apart(q, sep, 0, j + 1) => Apart(r, sep, 0, j)
             /\ 1 \in 1 .. Len(q)
  <1> DEFINE r == RemoveAt(q, 1)
  <1>1. Len(q) \in Nat /\ 1 \in 1 .. Len(q)
    BY LenProperties, SMT
  <1>2. Len(r) = Len(q) - 1 /\ \A j \in 1 .. Len(q) - 1 : r[j] = IF j < 1 THEN q[j] ELSE q[j + 1]
    BY <1>1, RemoveAtParts
  <1> HIDE DEF r
  <1>3. \A j \in 1 .. Len(r) : r[j] = q[j + 1] /\ j + 1 \in 1 .. Len(q)
    BY <1>1, <1>2, SMT
  <1>4. ASSUME NEW i \in 0 .. Len(r), NEW j \in 1 .. Len(r), Apart(q, sep, i + 1, j + 1)
        PROVE  Apart(r, sep, i, j)
    <2>1. PICK k \in i + 1 + 1 .. j + 1 - 1 : q[k].type = sep
      BY <1>4 DEF Apart
    <2>2. k - 1 \in i + 1 .. j - 1 /\ r[k - 1] = q[k]
      BY <1>1, <1>2, <2>1, SMT
    <2> QED
      BY <2>1, <2>2 DEF Apart
  <1>5. ASSUME q[1].type # sep, NEW j \in 1 .. Len(r), Apart(q, sep, 0, j + 1)
        PROVE  Apart(r, sep, 0, j)
    <2>1. PICK k \in 0 + 1 .. j + 1 - 1 : q[k].type = sep
      BY <1>5 DEF Apart
    <2>2. k # 1
      BY <1>5, <2>1
    <2>3. k \in 2 .. Len(q) /\ k - 1 \in 0 + 1 .. j - 1
      BY <1>1, <1>2, <2>2, SMT
    <2>4. r[k - 1] = q[k]
      BY <1>1, <1>2, <2>3, SMT
    <2> QED
      BY <2>1, <2>3, <2>4 DEF Apart
  <1>6. \A j \in 1 .. Len(r) : CarriesCodeOf(C, r[j])
    BY <1>3 DEF GoodQueue
  <1>7. InSequence(r, sep)
    <2> SUFFICES ASSUME NEW i \in 1 .. Len(r), NEW j \in i + 1 .. Len(r)
                 PROVE  Follows(r[i], r[j]) \/ Apart(r, sep, i, j)
      BY DEF InSequence
    <2>1. i \in 0 .. Len(r) /\ j \in 1 .. Len(r) /\ j + 1 \in i + 1 + 1 .. Len(q)
          /\ i + 1 \in 1 .. Len(q)
      BY <1>1, <1>2, SMT
    <2>2. Follows(q[i + 1], q[j + 1]) \/ Apart(q, sep, i + 1, j + 1)
      BY <2>1 DEF GoodQueue, InSequence
    <2> QED
      BY <1>3, <1>4, <2>1, <2>2
  <1>8. Ends(r, sep)
    <2> SUFFICES ASSUME sep = "commit",
                        NEW i \in 1 .. Len(r), r[i].type \in {"begin", "chunk"}
                 PROVE  \E j \in i + 1 .. Len(r) : r[j].type = "commit"
      BY DEF Ends
    <2>1. PICK k \in i + 1 + 1 .. Len(q) : q[k].type = "commit"
      BY <1>3 DEF GoodQueue, Ends
    <2>2. k - 1 \in i + 1 .. Len(r) /\ r[k - 1] = q[k]
      BY <1>1, <1>2, <2>1, SMT
    <2> QED
      BY <2>1, <2>2
  <1>9. ASSUME NEW j \in 1 .. Len(r)
        PROVE  Follows(q[1], r[j]) \/ Apart(r, sep, 0, j)
    <2>1. 0 \in 0 .. Len(r) /\ 0 + 1 = 1 /\ j + 1 \in 1 + 1 .. Len(q)
      BY <1>1, <1>2, SMT
    <2>2. Follows(q[1], q[j + 1]) \/ Apart(q, sep, 1, j + 1)
      BY <1>1, <2>1 DEF GoodQueue, InSequence
    <2>3. Apart(q, sep, 1, j + 1) => Apart(r, sep, 0, j)
      BY <1>4, <2>1
    <2> QED
      BY <1>3, <2>2, <2>3
  <1>10. ASSUME sep = "commit", q[1].type \in {"begin", "chunk"}
         PROVE  \E j \in 1 .. Len(r) : r[j].type = "commit"
    <2>1. PICK k \in 1 + 1 .. Len(q) : q[k].type = "commit"
      BY <1>1, <1>10 DEF GoodQueue, Ends
    <2>2. k - 1 \in 1 .. Len(r) /\ r[k - 1] = q[k]
      BY <1>1, <1>2, <2>1, SMT
    <2> QED
      BY <2>1, <2>2
  <1>11. GoodQueue(r, sep, C)
    BY <1>6, <1>7, <1>8 DEF GoodQueue
  <1> QED
    BY <1>1, <1>3, <1>5, <1>9, <1>10, <1>11 DEF r

\* After a begin, the assembly goes on with the code whose chunks come next.
LEMMA BeginTaken ==
  ASSUME NEW S, NEW q \in Seq(S), Len(q) > 0, NEW C \in SUBSET Code, NEW b,
         NEW sep \in {"begin", "commit"}, GoodQueue(q, sep, C),
         q[1].type = "begin",
         b.slot = q[1].slot, b.kind = q[1].kind, b.carrier = q[1].carrier,
         b.total = q[1].total, b.buf = <<>>
  PROVE  Continues(b, RemoveAt(q, 1), sep, C)
  <1> DEFINE r == RemoveAt(q, 1)
             Next(j) == j \in 1 .. Len(r) /\ r[j].type = "chunk" /\ ~Apart(r, sep, 0, j)
  <1>1. /\ GoodQueue(r, sep, C)
        /\ \A j \in 1 .. Len(r) : Follows(q[1], r[j]) \/ Apart(r, sep, 0, j)
        /\ sep = "commit" => \E j \in 1 .. Len(r) : r[j].type = "commit"
    BY HeadTaken
  <1>2. CarriesCodeOf(C, q[1])
    BY HeadTaken DEF GoodQueue
  <1> HIDE DEF r
  <1>3. Len(b.buf) = 0
    BY SMT
  <1>4. ASSUME NEW c \in C, Begins(q[1], c)
        PROVE  HasSeen(b, c, 0) /\ 0 \in 0 .. LenOf[c]
    <2>1. LenOf[c] \in Nat
      BY CodeBytes
    <2>2. 0 \in 0 .. LenOf[c] /\ Piece(c, 1, 0) = <<>>
      <3>1. 0 \in 0 .. LenOf[c]
        BY <2>1, SMT
      <3> QED
        BY <3>1, PieceJoin
    <2> QED
      BY <1>3, <1>4, <2>2, SMT DEF HasSeen, Begins
  <1>5. \E c \in C : \E k \in 0 .. LenOf[c] : GoesOn(b, c, k, r, sep)
    <2>1. CASE \E j \in 1 .. Len(r) : Next(j)
      <3>1. PICK i \in 1 .. Len(r) : Next(i)
        BY <2>1
      <3> DEFINE c == CodeIn(r[i])
      <3>2. c \in C
        BY <1>1, <3>1 DEF GoodQueue, CarriesCodeOf
      <3>3. Begins(q[1], c)
        BY <1>1, <3>1 DEF Follows
      <3>4. ASSUME NEW j \in 1 .. Len(r), Next(j)
            PROVE  CodeIn(r[j]) = c /\ 0 < FirstIn(r[j])
        <4>1. FirstIn(r[j]) \in Nat /\ 1 <= FirstIn(r[j])
          BY <1>1, <3>4 DEF GoodQueue, CarriesCodeOf
        <4>2. CASE i < j
          <5>1. j \in i + 1 .. Len(r)
            BY <4>2, SMT
          <5>2. Follows(r[i], r[j]) \/ Apart(r, sep, i, j)
            BY <1>1, <5>1 DEF GoodQueue, InSequence
          <5>3. Apart(r, sep, i, j) => Apart(r, sep, 0, j)
            BY SMT DEF Apart
          <5> QED
            BY <3>1, <3>4, <4>1, <5>2, <5>3, SMT DEF Follows
        <4>3. CASE j < i
          <5>1. i \in j + 1 .. Len(r)
            BY <4>3, SMT
          <5>2. Follows(r[j], r[i]) \/ Apart(r, sep, j, i)
            BY <1>1, <5>1 DEF GoodQueue, InSequence
          <5>3. Apart(r, sep, j, i) => Apart(r, sep, 0, i)
            BY SMT DEF Apart
          <5> QED
            BY <3>1, <3>4, <4>1, <5>2, <5>3, SMT DEF Follows
        <4>4. CASE i = j
          BY <4>1, <4>4, SMT
        <4> QED
          BY <4>2, <4>3, <4>4, SMT
      <3>5. GoesOn(b, c, 0, r, sep)
        BY <1>4, <3>2, <3>3, <3>4 DEF GoesOn
      <3> QED
        BY <1>4, <3>2, <3>3, <3>5
    <2>2. CASE ~ \E j \in 1 .. Len(r) : Next(j)
      <3>1. PICK c \in C : Begins(q[1], c)
        BY <1>2 DEF CarriesCodeOf
      <3>2. GoesOn(b, c, 0, r, sep)
        BY <1>4, <2>2, <3>1 DEF GoesOn
      <3> QED
        BY <1>4, <3>1, <3>2
    <2> QED
      BY <2>1, <2>2
  <1>6. \A j \in 1 .. Len(r) : r[j].type = "commit" =>
           b.slot = r[j].slot \/ Apart(r, sep, 0, j)
    BY <1>1 DEF Follows
  <1> QED
    BY <1>1, <1>5, <1>6 DEF Continues, r

\* A chunk that the assembly takes up brings it on, or shows that one is missing.
LEMMA ChunkTaken ==
  ASSUME NEW S, NEW q \in Seq(S), Len(q) > 0, NEW C \in SUBSET Code,
         NEW sep \in {"begin", "commit"}, GoodQueue(q, sep, C),
         NEW a, NEW b, a.buf \in Seq(Byte),
         Continues(a, q, sep, C), q[1].type = "chunk", a.active, a.slot = q[1].slot,
         b.slot = a.slot, b.kind = a.kind, b.carrier = a.carrier, b.total = a.total,
         b.buf = a.buf \o q[1].data
  PROVE  Continues(b, RemoveAt(q, 1), sep, C)
  <1> DEFINE r == RemoveAt(q, 1)
             m == q[1]
  <1>1. /\ GoodQueue(r, sep, C)
        /\ \A j \in 1 .. Len(r) : Follows(m, r[j]) \/ Apart(r, sep, 0, j)
        /\ sep = "commit" => \E j \in 1 .. Len(r) : r[j].type = "commit"
    BY HeadTaken
  <1>2. CarriesCodeOf(C, m) /\ 1 \in 1 .. Len(q)
    BY HeadTaken DEF GoodQueue
  <1>3. OwnedBy(a, C)
    BY <1>2 DEF OwnedBy, CarriesCodeOf
  <1>4. PICK c \in C : \E k \in 0 .. LenOf[c] : GoesOn(a, c, k, q, sep)
    BY <1>3 DEF Continues
  <1>5. PICK k \in 0 .. LenOf[c] : GoesOn(a, c, k, q, sep)
    BY <1>4
  <1>6. ~Apart(q, sep, 0, 1)
    BY SMT DEF Apart
  <1>7. CodeIn(m) = c /\ k < FirstIn(m)
    BY <1>2, <1>5, <1>6 DEF GoesOn
  <1> DEFINE i == FirstIn(m)
             l == LastIn(m)
  <1> HIDE DEF r, m, i, l
  <1>8. /\ i \in Nat /\ l \in Nat /\ 1 <= i /\ i <= l /\ l <= LenOf[c] /\ k < i
        /\ m.data = Piece(c, i, l) /\ m.type = "chunk"
    BY <1>2, <1>7 DEF CarriesCodeOf, i, l, m
  <1>9. LenOf[c] \in Nat /\ k \in Nat /\ l \in 0 .. LenOf[c]
    <2>1. LenOf[c] \in Nat
      BY CodeBytes
    <2> QED
      BY <1>8, <2>1, SMT
  <1>10. Piece(c, i, l) \in Seq(Byte) /\ Len(Piece(c, i, l)) = l - i + 1
    BY <1>8, PieceParts
  <1>11. Len(a.buf) \in Nat /\ Len(a.buf) <= k /\ (Len(a.buf) = k => a.buf = Piece(c, 1, k))
    BY <1>5, LenProperties DEF GoesOn, HasSeen
  <1>12. Len(b.buf) = Len(a.buf) + (l - i + 1)
    <2>1. b.buf = a.buf \o Piece(c, i, l)
      BY <1>8 DEF m
    <2>2. Len(a.buf \o Piece(c, i, l)) = Len(a.buf) + Len(Piece(c, i, l))
      BY <1>10, ConcatProperties
    <2> QED
      BY <1>10, <2>1, <2>2
  <1> DEFINE x == Len(a.buf)
             y == Len(b.buf)
  <1> HIDE DEF x, y
  <1>a. x \in Nat /\ x <= k /\ y = x + (l - i + 1)
    BY <1>11, <1>12 DEF x, y
  <1>b. y <= l /\ (y = l => i = k + 1 /\ x = k)
    BY <1>8, <1>9, <1>a, SMT
  <1>13. HasSeen(b, c, l)
    <2>1. Begins(b, c)
      BY <1>5 DEF GoesOn, HasSeen, Begins
    <2>2. Len(b.buf) <= l
      BY <1>b DEF y
    <2>3. ASSUME Len(b.buf) = l
          PROVE  b.buf = Piece(c, 1, l)
      <3>1. i = k + 1 /\ Len(a.buf) = k
        BY <1>b, <2>3 DEF x, y
      <3>2. l \in k .. LenOf[c]
        BY <1>8, <1>9, SMT
      <3>3. Piece(c, 1, k) \o Piece(c, k + 1, l) = Piece(c, 1, l)
        BY <3>2, PieceJoin
      <3> QED
        BY <1>8, <1>11, <3>1, <3>3 DEF m
    <2> QED
      BY <2>1, <2>2, <2>3 DEF HasSeen
  <1>14. ASSUME NEW j \in 1 .. Len(r), r[j].type = "chunk", ~Apart(r, sep, 0, j)
         PROVE  CodeIn(r[j]) = c /\ l < FirstIn(r[j])
    BY <1>1, <1>7, <1>8, <1>14 DEF Follows, l
  <1>15. \A j \in 1 .. Len(r) : r[j].type = "commit" =>
            b.slot = r[j].slot \/ Apart(r, sep, 0, j)
    BY <1>1, <1>8 DEF Follows, m
  <1>16. GoesOn(b, c, l, r, sep)
    BY <1>13, <1>14 DEF GoesOn
  <1> QED
    BY <1>1, <1>9, <1>15, <1>16 DEF Continues, r

\* A commit finds its own assembly, and one as long as announced is the code.
LEMMA CommitFinds ==
  ASSUME NEW S, NEW q \in Seq(S), Len(q) > 0, NEW C \in SUBSET Code,
         NEW sep \in {"begin", "commit"}, NEW a, a.buf \in Seq(Byte),
         Continues(a, q, sep, C), q[1].type = "commit", OwnedBy(a, C)
  PROVE  /\ a.slot = q[1].slot
         /\ Len(a.buf) = a.total => \E c \in C :
               /\ Home[c] = a.slot
               /\ RecOf(c) = [kind |-> a.kind, carrier |-> a.carrier, blob |-> a.buf]
  <1>1. 1 \in 1 .. Len(q)
    BY LenProperties, SMT
  <1>2. ~Apart(q, sep, 0, 1)
    BY SMT DEF Apart
  <1>3. a.slot = q[1].slot
    BY <1>1, <1>2 DEF Continues
  <1>4. ASSUME Len(a.buf) = a.total
        PROVE  \E c \in C : /\ Home[c] = a.slot
                            /\ RecOf(c) = [kind |-> a.kind, carrier |-> a.carrier, blob |-> a.buf]
    <2>1. PICK c \in C : \E k \in 0 .. LenOf[c] : GoesOn(a, c, k, q, sep)
      BY DEF Continues
    <2>2. PICK k \in 0 .. LenOf[c] : GoesOn(a, c, k, q, sep)
      BY <2>1
    <2>3. LenOf[c] \in Nat
      BY CodeBytes
    <2>4. /\ Begins(a, c) /\ Len(a.buf) <= k
          /\ Len(a.buf) = k => a.buf = Piece(c, 1, k)
      BY <2>2 DEF GoesOn, HasSeen
    <2>5. k = LenOf[c] /\ Len(a.buf) = k
      BY <1>4, <2>3, <2>4, SMT DEF Begins
    <2>6. Piece(c, 1, LenOf[c]) = RecOf(c).blob
      <3>1. 0 \in 0 .. LenOf[c] /\ 0 \in 0 .. LenOf[c]
        BY <2>3, SMT
      <3> QED
        BY <3>1, PieceJoin
    <2>7. RecOf(c) = [kind |-> a.kind, carrier |-> a.carrier, blob |-> RecOf(c).blob]
      BY <2>4 DEF Begins, RecOf
    <2> QED
      BY <2>4, <2>5, <2>6, <2>7 DEF Begins
  <1> QED
    BY <1>3, <1>4

-----------------------------------------------------------------------------
(* What the slave does to its slots                                        *)

\* The slave puts a code that is offered for slot s into it, or empties it.
Installs ==
    \E s \in Slot : \E code \in {RecOf(c) : c \in CodesOf(s)} \cup {Empty} :
        nvs' = [nvs EXCEPT ![s] = code]

\* The slave takes the next frame of the sender of C (espir_store.c:111-162).
LEMMA FrameTaken ==
  ASSUME StoreTypeOK, NEW q \in Seq(HonestFrame), Len(q) > 0, NEW C \in SUBSET Code,
         NEW sep \in {"begin", "commit"}, GoodQueue(q, sep, C),
         Continues(prog, q, sep, C), Handle(q[1])
  PROVE  /\ GoodQueue(RemoveAt(q, 1), sep, C)
         /\ Continues(prog', RemoveAt(q, 1), sep, C)
         /\ prog' = prog \/ ~prog'.active \/ OwnedBy(prog', C)
         /\ nvs' = nvs \/ Installs
  <1> DEFINE m == q[1]
             r == RemoveAt(q, 1)
  <1>1. GoodQueue(r, sep, C) /\ 1 \in 1 .. Len(q) /\ m \in HonestFrame
    BY HeadTaken, ElementOfSeq
  <1>2. CarriesCodeOf(C, m)
    BY <1>1 DEF GoodQueue
  <1>3. m.type # sep /\ prog' = prog => Continues(prog', r, sep, C)
    BY <1>1, LossKeeps
  <1>4. m.slot \in Slot
    BY <1>1, HonestFrameParts
  <1>5. prog.buf \in Seq(Byte)
    BY DEF StoreTypeOK
  <1> HIDE DEF r
  <1>6. CASE m.type = "program" /\ ProgramSingle(m.slot, m.kind, m.carrier, m.data)
    <2>1. prog' = prog /\ Continues(prog', r, sep, C)
      BY <1>3, <1>6 DEF ProgramSingle
    <2>2. PICK c \in C : m = ProgramFrame(Home[c], RecOf(c))
      BY <1>2, <1>6 DEF CarriesCodeOf
    <2>3. /\ m.slot = Home[c] /\ m.kind = RecOf(c).kind /\ m.carrier = RecOf(c).carrier
          /\ m.data = RecOf(c).blob
      BY <2>2 DEF ProgramFrame
    <2>4. RecOf(c) = [kind |-> m.kind, carrier |-> m.carrier, blob |-> m.data]
      BY <2>3 DEF RecOf
    <2>5. c \in CodesOf(m.slot)
      BY <2>3 DEF CodesOf
    <2>6. nvs' = nvs \/ nvs' = [nvs EXCEPT ![m.slot] = RecOf(c)]
      BY <1>6, <2>4 DEF ProgramSingle, WriteRecord
    <2> QED
      BY <1>1, <1>4, <2>1, <2>5, <2>6 DEF Installs, r
  <1>7. CASE m.type = "begin" /\ ProgramBegin(m.slot, m.kind, m.carrier, m.total)
    <2>1. PICK c \in C : Begins(m, c)
      BY <1>2, <1>7 DEF CarriesCodeOf
    <2>2. LenOf[c] \in Nat /\ LenOf[c] <= RawMaxBytes /\ m.total = LenOf[c]
      <3>1. LenOf[c] \in 1 .. RawMaxBytes
        BY RecOfType
      <3> QED
        BY <2>1, <3>1, StoreAssumption, SMT DEF Begins
    <2>3. prog' = [active |-> TRUE, slot |-> m.slot, kind |-> m.kind,
                   carrier |-> m.carrier, total |-> m.total, buf |-> <<>>]
          /\ nvs' = nvs
      BY <1>4, <1>7, <2>2, StoreAssumption, SMT DEF ProgramBegin
    <2>4. /\ prog'.slot = m.slot /\ prog'.kind = m.kind /\ prog'.carrier = m.carrier
          /\ prog'.total = m.total /\ prog'.buf = <<>> /\ prog'.active
      BY <2>3
    <2>5. Continues(prog', r, sep, C)
      BY <1>7, <2>4, BeginTaken DEF r
    <2>6. OwnedBy(prog', C)
      BY <2>1, <2>4 DEF OwnedBy, Begins
    <2> QED
      BY <1>1, <2>3, <2>5, <2>6 DEF r
  <1>8. CASE m.type = "chunk" /\ ProgramChunk(m.slot, m.data)
    <2>1. CASE UNCHANGED prog
      BY <1>1, <1>3, <1>8, <2>1 DEF ProgramChunk, r
    <2>2. CASE Assembling(m.slot) /\ prog' = [prog EXCEPT !.buf = @ \o m.data]
      <3>1. /\ prog'.slot = prog.slot /\ prog'.kind = prog.kind
            /\ prog'.carrier = prog.carrier /\ prog'.total = prog.total
            /\ prog'.buf = prog.buf \o m.data /\ prog'.active = prog.active
        BY <2>2 DEF StoreTypeOK
      <3>2. prog.active /\ prog.slot = m.slot
        BY <2>2 DEF Assembling
      <3>3. Continues(prog', r, sep, C)
        BY <1>5, <1>8, <3>1, <3>2, ChunkTaken DEF r
      <3>4. OwnedBy(prog', C)
        BY <1>2, <1>8, <3>1, <3>2 DEF OwnedBy, CarriesCodeOf
      <3> QED
        BY <1>1, <1>8, <3>3, <3>4 DEF ProgramChunk, r
    <2> QED
      BY <1>8, <2>1, <2>2 DEF ProgramChunk
  <1>9. CASE m.type = "commit" /\ ProgramCommit(m.slot)
    <2>1. CASE Assembling(m.slot)
      <3>1. OwnedBy(prog, C)
        BY <1>2, <1>9, <2>1 DEF OwnedBy, Assembling, CarriesCodeOf
      <3>2. prog' = [prog EXCEPT !.active = FALSE]
        BY <1>9, <2>1 DEF ProgramCommit
      <3>3. ~prog'.active
        BY <3>2 DEF StoreTypeOK
      <3>4. Continues(prog', r, sep, C)
        BY <3>3 DEF Continues, OwnedBy
      <3>5. CASE nvs' = nvs
        BY <1>1, <3>3, <3>4, <3>5 DEF r
      <3>6. CASE Len(prog.buf) = prog.total
                 /\ WriteRecord(m.slot, prog.kind, prog.carrier, prog.buf)
        <4>1. PICK c \in C : /\ Home[c] = prog.slot
                             /\ RecOf(c) = [kind |-> prog.kind, carrier |-> prog.carrier,
                                            blob |-> prog.buf]
          BY <1>5, <1>9, <3>1, <3>6, CommitFinds
        <4>2. c \in CodesOf(m.slot)
          BY <2>1, <4>1 DEF CodesOf, Assembling
        <4>3. nvs' = nvs \/ nvs' = [nvs EXCEPT ![m.slot] = RecOf(c)]
          BY <3>6, <4>1 DEF WriteRecord
        <4> QED
          BY <1>1, <1>4, <3>3, <3>4, <4>2, <4>3 DEF Installs, r
      <3> QED
        BY <1>9, <2>1, <3>5, <3>6 DEF ProgramCommit
    <2>2. CASE ~Assembling(m.slot)
      <3>1. prog' = prog /\ nvs' = nvs
        BY <1>9, <2>2 DEF ProgramCommit, storeVars
      <3>2. ~OwnedBy(prog, C)
        <4>1. OwnedBy(prog, C) => prog.slot = m.slot
          BY <1>5, <1>9, CommitFinds
        <4> QED
          BY <2>2, <4>1 DEF Assembling, OwnedBy
      <3>3. Continues(prog', r, sep, C)
        BY <3>1, <3>2 DEF Continues, OwnedBy
      <3> QED
        BY <1>1, <3>1, <3>3 DEF r
    <2> QED
      BY <2>1, <2>2
  <1>10. CASE m.type = "clear" /\ Clear(m.slot)
    <2>1. prog' = prog /\ Continues(prog', r, sep, C)
      BY <1>3, <1>10 DEF Clear
    <2>2. nvs' = nvs \/ nvs' = [nvs EXCEPT ![m.slot] = Empty]
      BY <1>10 DEF Clear
    <2> QED
      BY <1>1, <1>4, <2>1, <2>2 DEF Installs, r
  <1> QED
    BY <1>6, <1>7, <1>8, <1>9, <1>10 DEF Handle

\* What the other sender, the sender of D, has in flight is none the worse for it.
LEMMA OtherContinues ==
  ASSUME NEW C, NEW D, \A c \in C : \A d \in D : Home[c] # Home[d],
         NEW a, NEW b, b = a \/ ~b.active \/ OwnedBy(b, C),
         NEW q, NEW sep, Continues(a, q, sep, D)
  PROVE  Continues(b, q, sep, D)
  <1>1. CASE b = a
    BY <1>1
  <1>2. CASE ~b.active \/ OwnedBy(b, C)
    <2>1. ~OwnedBy(b, D)
      BY <1>2 DEF OwnedBy
    <2> QED
      BY <2>1 DEF Continues
  <1> QED
    BY <1>1, <1>2

\* What remains of a queue of which at most the first frame remains.
LEMMA RestKeeps ==
  ASSUME NEW S, NEW q \in Seq(S), NEW e \in Seq(S), Len(e) <= 1, NEW C, NEW a,
         Len(e) = 1 => Len(q) > 0 /\ e[1] = q[1],
         GoodQueue(q, "begin", C), Continues(a, q, "begin", C)
  PROVE  GoodQueue(e, "begin", C) /\ Continues(a, e, "begin", C)
  <1>1. Len(e) \in Nat /\ Len(q) \in Nat
    BY LenProperties
  <1>2. ASSUME NEW j \in 1 .. Len(e)
        PROVE  j = 1 /\ e[j] = q[1] /\ 1 \in 1 .. Len(q)
    <2>1. j = 1 /\ Len(e) = 1
      <3> DEFINE n == Len(e)
      <3> HIDE DEF n
      <3>1. n \in Nat /\ n <= 1 /\ j \in 1 .. n
        BY <1>1 DEF n
      <3>2. j = 1 /\ n = 1
        BY <3>1, SMT
      <3> QED
        BY <3>2 DEF n
    <2>2. Len(q) > 0 /\ e[1] = q[1]
      BY <2>1
    <2>3. 1 \in 1 .. Len(q)
      BY <1>1, <2>2, SMT
    <2> QED
      BY <2>1, <2>2, <2>3
  <1>3. ~Apart(q, "begin", 0, 1)
    BY SMT DEF Apart
  <1>4. \A j \in 1 .. Len(e) : CarriesCodeOf(C, e[j])
    BY <1>2 DEF GoodQueue
  <1>5. \A i \in 1 .. Len(e) : \A j \in i + 1 .. Len(e) : FALSE
    BY <1>1, SMT
  <1>6. GoodQueue(e, "begin", C)
    BY <1>4, <1>5 DEF GoodQueue, InSequence, Ends
  <1>7. ASSUME OwnedBy(a, C)
        PROVE  \E c \in C : \E k \in 0 .. LenOf[c] : GoesOn(a, c, k, e, "begin")
    <2>1. PICK c \in C : \E k \in 0 .. LenOf[c] : GoesOn(a, c, k, q, "begin")
      BY <1>7 DEF Continues
    <2>2. PICK k \in 0 .. LenOf[c] : GoesOn(a, c, k, q, "begin")
      BY <2>1
    <2>3. GoesOn(a, c, k, e, "begin")
      BY <1>2, <1>3, <2>2 DEF GoesOn
    <2> QED
      BY <2>3
  <1>8. ASSUME OwnedBy(a, C)
        PROVE  \A j \in 1 .. Len(e) : e[j].type = "commit" =>
                  a.slot = e[j].slot \/ Apart(e, "begin", 0, j)
    <2>1. \A j \in 1 .. Len(q) : q[j].type = "commit" =>
             a.slot = q[j].slot \/ Apart(q, "begin", 0, j)
      BY <1>8 DEF Continues
    <2> QED
      BY <1>2, <1>3, <2>1
  <1> QED
    BY <1>6, <1>7, <1>8 DEF Continues

\* The first of two sequences gives its first element.
LEMMA RemoveFirstOfConcat ==
  ASSUME NEW S, NEW q \in Seq(S), NEW t \in Seq(S), Len(q) > 0
  PROVE  RemoveAt(q \o t, 1) = RemoveAt(q, 1) \o t /\ (q \o t)[1] = q[1]
  <1> DEFINE w == q \o t
  <1>1. Len(q) \in Nat /\ Len(t) \in Nat /\ 1 \in 1 .. Len(q)
    BY LenProperties, SMT
  <1>2. /\ w \in Seq(S) /\ Len(w) = Len(q) + Len(t)
        /\ \A i \in 1 .. Len(q) + Len(t) : w[i] = IF i <= Len(q) THEN q[i] ELSE t[i - Len(q)]
    BY ConcatProperties
  <1> HIDE DEF w
  <1>3. 1 \in 1 .. Len(w) /\ w[1] = q[1]
    BY <1>1, <1>2, SMT
  <1> DEFINE x == RemoveAt(w, 1)
             y == RemoveAt(q, 1)
             z == y \o t
  <1>4. /\ x \in Seq(S) /\ Len(x) = Len(w) - 1
        /\ \A j \in 1 .. Len(w) - 1 : x[j] = IF j < 1 THEN w[j] ELSE w[j + 1]
    BY <1>2, <1>3, RemoveAtSeq, RemoveAtParts
  <1>5. /\ y \in Seq(S) /\ Len(y) = Len(q) - 1
        /\ \A j \in 1 .. Len(q) - 1 : y[j] = IF j < 1 THEN q[j] ELSE q[j + 1]
    BY <1>1, RemoveAtSeq, RemoveAtParts
  <1> HIDE DEF x, y
  <1>6. /\ z \in Seq(S) /\ Len(z) = Len(y) + Len(t)
        /\ \A i \in 1 .. Len(y) + Len(t) : z[i] = IF i <= Len(y) THEN y[i] ELSE t[i - Len(y)]
    BY <1>5, ConcatProperties
  <1> HIDE DEF z
  <1>7. Len(x) = Len(z)
    BY <1>1, <1>2, <1>4, <1>5, <1>6, SMT
  <1>8. ASSUME NEW i \in 1 .. Len(x)
        PROVE  x[i] = z[i]
    <2>1. x[i] = w[i + 1] /\ i + 1 \in 1 .. Len(q) + Len(t)
      BY <1>1, <1>2, <1>4, SMT
    <2>2. CASE i + 1 <= Len(q)
      BY <1>1, <1>2, <1>4, <1>5, <1>6, <2>1, <2>2, SMT
    <2>3. CASE ~(i + 1 <= Len(q))
      <3> DEFINE n == Len(q)
                 l == Len(t)
                 d == Len(y)
      <3>0. n \in Nat /\ l \in Nat /\ d = n - 1 /\ i + 1 \in 1 .. n + l /\ ~(i + 1 <= n)
            /\ i \in Int
        BY <1>1, <1>5, <2>1, <2>3, SMT
      <3> HIDE DEF n, l, d
      <3>a. i \in 1 .. d + l /\ ~(i <= d) /\ i - d = i + 1 - n
        BY <3>0, SMT
      <3>1. i \in 1 .. Len(y) + Len(t) /\ ~(i <= Len(y)) /\ i - Len(y) = i + 1 - Len(q)
        BY <3>a DEF n, l, d
      <3>2. x[i] = t[i + 1 - Len(q)]
        BY <1>2, <2>1, <2>3
      <3> QED
        BY <1>6, <3>1, <3>2
    <2> QED
      BY <2>2, <2>3
  <1>9. x = z
    BY <1>4, <1>6, <1>7, <1>8, SeqEqual
  <1> QED
    BY <1>3, <1>9 DEF w, x, y, z

-----------------------------------------------------------------------------
(* Every step is one of EspirCopy, or none                                 *)

\* The radio keeps the order and repeats nothing; of the two frames that hold a
\* copy of the master together, one is never lost; and no slot is programmed by
\* both senders.
InOrder ==
    /\ ~MayReorder /\ ~MayDuplicate
    /\ \/ <<"master", "begin">> \notin Losable
       \/ <<"master", "commit">> \notin Losable /\ ~MayOverflow
    /\ \A c \in MasterCode : \A d \in HostCode : Home[c] # Home[d]

\* What separates the copies of the master.  Those of the host are separated by
\* their begins: the script ends when one is lost.
Separator == IF <<"master", "begin">> \notin Losable THEN "begin" ELSE "commit"

HostQueue == net["host"] \o hostTx

MasterCopies ==
    /\ GoodQueue(net["master"], Separator, MasterCode)
    /\ Continues(prog, net["master"], Separator, MasterCode)

HostCopies ==
    /\ GoodQueue(HostQueue, "begin", HostCode)
    /\ Continues(prog, HostQueue, "begin", HostCode)

WholeCopies ==
    /\ MasterCopies
    /\ HostCopies
    /\ Len(net["host"]) <= 1
    /\ net["stray"] = <<>>

LEMMA SeparatorType == Separator \in {"begin", "commit"}
  BY DEF Separator

\* An empty queue, when the slave has begun nothing.
LEMMA Nothing ==
  ASSUME NEW q, q = <<>>, NEW sep, NEW C, NEW a, ~a.active
  PROVE  GoodQueue(q, sep, C) /\ Continues(a, q, sep, C)
  <1>1. Len(q) = 0
    OBVIOUS
  <1>2. \A i \in 1 .. Len(q) : FALSE
    BY <1>1, SMT
  <1> QED
    BY <1>2 DEF GoodQueue, InSequence, Ends, Continues, OwnedBy

LEMMA CopiesInit == ReplInit => WholeCopies
  <1> SUFFICES ASSUME ReplInit PROVE WholeCopies
    OBVIOUS
  <1>1. ~prog.active /\ net["master"] = <<>> /\ net["host"] = <<>>
        /\ net["stray"] = <<>> /\ hostTx = <<>>
    BY DEF ReplInit, StoreInit, NoProg, Channel
  <1>2. HostQueue = <<>>
    BY <1>1, ConcatEmptySeq, EmptySeq DEF HostQueue
  <1>3. Len(net["host"]) <= 1
    BY <1>1, EmptySeq, SMT
  <1> QED
    BY <1>1, <1>2, <1>3, Nothing DEF WholeCopies, MasterCopies, HostCopies

\* The master queues whole copies; those the stack has no room for lose their
\* tails (espir_device.c:277-323).
LEMMA ReplicateKeeps ==
  ASSUME InOrder, SendersTypeOK, MasterCopies, NEW s \in Slot, Replicate(s)
  PROVE  /\ GoodQueue(net'["master"], Separator, MasterCode)
         /\ Continues(prog, net'["master"], Separator, MasterCode)
         /\ net'["host"] = net["host"] /\ net'["stray"] = net["stray"]
  <1>1. CASE UNCHANGED net
    BY <1>1 DEF MasterCopies
  <1>2. CASE Load(mnvs[s]) # Empty /\ Transmit(Frames(s, Load(mnvs[s]), TxChunk))
    <2>1. mnvs[s] # Empty
      BY <1>2, EmptyDoesNotLoad
    <2>2. PICK c \in MasterCode \cap CodesOf(s) : mnvs[s] = RecOf(c)
      BY <2>1 DEF SendersTypeOK
    <2>3. c \in Code /\ c \in MasterCode /\ Home[c] = s
      BY DEF CodesOf
    <2> DEFINE fs == Frames(s, Load(mnvs[s]), TxChunk)
               q == net["master"]
    <2>4. fs = Frames(Home[c], RecOf(c), TxChunk)
      BY <2>2, <2>3, LoadGivesCode
    <2>5. fs \in Seq(HonestFrame) /\ Script(fs, Separator, MasterCode)
      BY <2>3, <2>4, FramesAreHonest, FramesAreScript, ReplicationAssumption
    <2>6. q \in Seq(HonestFrame)
      BY DEF SendersTypeOK, Channel
    <2> HIDE DEF fs, q
    <2> DEFINE room == NetCap - Len(q)
               n == IF Len(fs) <= room THEN Len(fs) ELSE room
    <2>7. Len(q) \in Nat /\ Len(fs) \in Nat /\ NetCap \in Nat
      BY <2>5, <2>6, LenProperties, ReplicationAssumption
    <2>8. n \in Int /\ n <= Len(fs)
      BY <2>7, SMT
    <2>9. /\ MayOverflow \/ n = Len(fs)
          /\ net' = [net EXCEPT !["master"] = q \o SubSeq(fs, 1, n)]
      BY <1>2 DEF Transmit, fs, q
    <2> HIDE DEF n
    <2>10. Separator = "begin" \/ n = Len(fs)
      BY <2>9 DEF InOrder, Separator
    <2>11. Script(SubSeq(fs, 1, n), Separator, MasterCode)
      BY <2>5, <2>8, <2>10, HeadOfScript
    <2>12. SubSeq(fs, 1, n) \in Seq(HonestFrame)
      BY <2>5, <2>8, PrefixSeq
    <2> DEFINE gs == SubSeq(fs, 1, n)
    <2> HIDE DEF gs
    <2>13. gs \in Seq(HonestFrame) /\ Script(gs, Separator, MasterCode)
      BY <2>11, <2>12 DEF gs
    <2>14. GoodQueue(q, Separator, MasterCode) /\ Continues(prog, q, Separator, MasterCode)
      BY DEF MasterCopies, q
    <2>15. /\ GoodQueue(q \o gs, Separator, MasterCode)
           /\ Continues(prog, q \o gs, Separator, MasterCode)
      BY <2>6, <2>13, <2>14, SeparatorType, AppendKeeps
    <2>16. /\ net'["master"] = q \o gs
           /\ net'["host"] = net["host"] /\ net'["stray"] = net["stray"]
      BY <2>9 DEF SendersTypeOK, Channel, gs
    <2> QED
      BY <2>15, <2>16
  <1> QED
    BY <1>1, <1>2 DEF Replicate

\* A script of the host is queued behind what is in flight of the one before.
LEMMA HostScriptKeeps ==
  ASSUME SendersTypeOK, HostCopies, hostTx = <<>>,
         NEW gs \in Seq(HonestFrame), Script(gs, "begin", HostCode)
  PROVE  /\ GoodQueue(net["host"] \o gs, "begin", HostCode)
         /\ Continues(prog, net["host"] \o gs, "begin", HostCode)
  <1>1. net["host"] \in Seq(HonestFrame)
    BY DEF SendersTypeOK, Channel
  <1>2. HostQueue = net["host"]
    BY <1>1, ConcatEmptySeq DEF HostQueue
  <1>3. /\ GoodQueue(net["host"], "begin", HostCode)
        /\ Continues(prog, net["host"], "begin", HostCode)
    BY <1>2 DEF HostCopies
  <1> QED
    BY <1>1, <1>3, AppendKeeps

\* One action at a time; a duplicate there is none.
LEMMA CopiesNext ==
  ASSUME InOrder, ReplInv, WholeCopies, [ReplNext]_replVars
  PROVE  WholeCopies' /\ (nvs' = nvs \/ Installs \/ nvs' = [s \in Slot |-> Empty])
  <1> DEFINE Goal == WholeCopies' /\ (nvs' = nvs \/ Installs \/ nvs' = [s \in Slot |-> Empty])
  <1>a. SendersTypeOK /\ StoreTypeOK
    BY DEF ReplInv, ReplicationTypeOK, SendersTypeOK
  <1>b. /\ net["master"] \in Seq(HonestFrame)
        /\ net["host"] \in Seq(HonestFrame)
        /\ hostTx \in Seq(HonestFrame)
        /\ net \in [Channel -> Seq(HonestFrame)]
        /\ HostQueue \in Seq(HonestFrame)
    <2>1. /\ net["master"] \in Seq(HonestFrame)
          /\ net["host"] \in Seq(HonestFrame)
          /\ hostTx \in Seq(HonestFrame)
          /\ net \in [Channel -> Seq(HonestFrame)]
      BY <1>a DEF SendersTypeOK, Channel
    <2> QED
      BY <2>1, ConcatProperties DEF HostQueue
  <1>c. MasterCode \in SUBSET Code /\ HostCode \in SUBSET Code
    BY ReplicationAssumption
  <1>d. ASSUME UNCHANGED storeVars, UNCHANGED net, UNCHANGED hostTx
        PROVE  Goal
    BY <1>d DEF WholeCopies, MasterCopies, HostCopies, HostQueue, storeVars
  <1>e. ASSUME UNCHANGED storeVars, UNCHANGED hostTx, NEW s \in Slot, Replicate(s)
        PROVE  Goal
    <2>1. /\ GoodQueue(net'["master"], Separator, MasterCode)
          /\ Continues(prog, net'["master"], Separator, MasterCode)
          /\ net'["host"] = net["host"] /\ net'["stray"] = net["stray"]
      BY <1>a, <1>e, ReplicateKeeps DEF WholeCopies
    <2> QED
      BY <1>e, <2>1 DEF WholeCopies, MasterCopies, HostCopies, HostQueue, storeVars
  <1>f. ASSUME UNCHANGED storeVars, UNCHANGED net,
               NEW gs \in Seq(HonestFrame), Script(gs, "begin", HostCode),
               hostTx = <<>>, hostTx' = gs
        PROVE  Goal
    <2>1. /\ GoodQueue(net["host"] \o gs, "begin", HostCode)
          /\ Continues(prog, net["host"] \o gs, "begin", HostCode)
      BY <1>a, <1>f, HostScriptKeeps DEF WholeCopies
    <2> QED
      BY <1>f, <2>1 DEF WholeCopies, MasterCopies, HostCopies, HostQueue, storeVars
  <1> HIDE DEF Goal
  <1>1. ASSUME NEW c \in Code, Learn(c)
        PROVE  Goal
    BY <1>1, <1>d DEF Learn
  <1>2. ASSUME NEW s \in Slot, MasterClear(s)
        PROVE  Goal
    BY <1>2, <1>d DEF MasterClear
  <1>3. ASSUME NEW s \in Slot, CopyTo(s)
        PROVE  Goal
    BY <1>3, <1>e DEF CopyTo
  <1>4. ASSUME CopyAll
        PROVE  Goal
    BY <1>4, <1>d DEF CopyAll
  <1>5. ASSUME CopyAllTurn
        PROVE  Goal
    <2>1. sweep \in Slot
      BY <1>a, <1>5, StoreAssumption, SMT DEF SendersTypeOK, CopyAllTurn, Slot
    <2> QED
      BY <1>5, <1>e, <2>1 DEF CopyAllTurn
  <1>6. ASSUME NEW c \in Code, HostProgram(c)
        PROVE  Goal
    <2>1. /\ Frames(Home[c], RecOf(c), HostChunk) \in Seq(HonestFrame)
          /\ Script(Frames(Home[c], RecOf(c), HostChunk), "begin", HostCode)
      BY <1>6, <1>c, FramesAreHonest, FramesAreScript, ReplicationAssumption DEF HostProgram
    <2> QED
      BY <1>6, <1>f, <2>1 DEF HostProgram
  <1>7. ASSUME NEW s \in Slot, HostClear(s)
        PROVE  Goal
    <2> DEFINE m == ClearFrame(s)
               gs == <<m>>
    <2>1. m \in Frame /\ m.type = "clear"
      BY DEF ClearFrame, Frame
    <2> HIDE DEF m
    <2>2. m \in HonestFrame
      BY <2>1 DEF HonestFrame
    <2>3. gs \in Seq(HonestFrame) /\ Len(gs) = 1 /\ gs[1] = m
      BY <2>2
    <2> HIDE DEF gs
    <2>4. \A i \in 1 .. Len(gs) : i = 1 /\ \A j \in i + 1 .. Len(gs) : FALSE
      BY <2>3, SMT
    <2>5. ~(Len(gs) > 1)
      BY <2>3, SMT
    <2>6. Script(gs, "begin", HostCode)
      BY <2>1, <2>3, <2>4, <2>5 DEF Script, Ends, CarriesCodeOf
    <2> QED
      BY <1>7, <1>f, <2>3, <2>6 DEF HostClear, m, gs
  <1>8. ASSUME HostSend
        PROVE  Goal
    <2> DEFINE h == Head(hostTx)
               t == Tail(hostTx)
    <2>1. hostTx # <<>> /\ net["host"] = <<>> /\ hostTx' = t
          /\ net' = [net EXCEPT !["host"] = <<h>>] /\ UNCHANGED storeVars
      BY <1>8 DEF HostSend
    <2>2. <<h>> \o t = hostTx
      BY <1>b, <2>1, SMT
    <2>3. Len(<<h>>) <= 1
      BY SMT
    <2> HIDE DEF h, t
    <2>4. HostQueue = hostTx
      BY <1>b, <2>1, ConcatEmptySeq DEF HostQueue
    <2>5. /\ net'["host"] = <<h>> /\ net'["master"] = net["master"]
          /\ net'["stray"] = net["stray"]
      BY <1>b, <2>1 DEF Channel
    <2>6. HostQueue' = HostQueue
      BY <2>1, <2>2, <2>4, <2>5 DEF HostQueue
    <2> QED
      BY <2>1, <2>3, <2>5, <2>6 DEF Goal, WholeCopies, MasterCopies, HostCopies, storeVars
  <1>9. ASSUME HostTimeOut
        PROVE  Goal
    <2>1. hostTx' = <<>> /\ UNCHANGED net /\ UNCHANGED storeVars
      BY <1>9 DEF HostTimeOut, InOrder
    <2> DEFINE e == net["host"]
    <2>2. HostQueue' = e
      BY <1>b, <2>1, ConcatEmptySeq DEF HostQueue
    <2>3. e \in Seq(HonestFrame) /\ Len(e) <= 1
      BY <1>b DEF WholeCopies
    <2>4. Len(e) = 1 => Len(HostQueue) > 0 /\ e[1] = HostQueue[1]
      <3>1. ASSUME Len(e) = 1
            PROVE  Len(HostQueue) > 0 /\ e[1] = HostQueue[1]
        <4>1. Len(e) > 0
          BY <3>1, SMT
        <4>2. HostQueue[1] = e[1]
          BY <1>b, <4>1, RemoveFirstOfConcat DEF HostQueue
        <4>3. Len(HostQueue) = Len(e) + Len(hostTx) /\ Len(hostTx) \in Nat
          BY <1>b, ConcatProperties, LenProperties DEF HostQueue
        <4> QED
          BY <3>1, <4>2, <4>3, SMT
      <3> QED
        BY <3>1
    <2> HIDE DEF e
    <2>5. GoodQueue(e, "begin", HostCode) /\ Continues(prog, e, "begin", HostCode)
      BY <1>b, <2>3, <2>4, RestKeeps DEF WholeCopies, HostCopies
    <2> QED
      BY <2>1, <2>2, <2>5 DEF Goal, WholeCopies, MasterCopies, HostCopies, storeVars
  <1>10. ASSUME NEW p \in Channel, NEW i \in 1 .. Len(net[p]), Deliver(p, i)
         PROVE  Goal
    <2>1. i = 1 /\ Handle(net[p][1]) /\ net' = [net EXCEPT ![p] = RemoveAt(net[p], 1)]
          /\ hostTx' = hostTx
      BY <1>10 DEF Deliver, InOrder
    <2>2. net[p] \in Seq(HonestFrame) /\ Len(net[p]) \in Nat
      BY <1>b, LenProperties
    <2>3. Len(net[p]) > 0
      BY <2>1, <2>2, SMT
    <2>4. p # "stray"
      <3>1. Len(<<>>) = 0
        OBVIOUS
      <3> QED
        BY <2>3, <3>1, SMT DEF WholeCopies
    <2>5. CASE p = "master"
      <3> DEFINE q == net["master"]
      <3>1. /\ GoodQueue(RemoveAt(q, 1), Separator, MasterCode)
            /\ Continues(prog', RemoveAt(q, 1), Separator, MasterCode)
            /\ prog' = prog \/ ~prog'.active \/ OwnedBy(prog', MasterCode)
            /\ nvs' = nvs \/ Installs
        BY <1>a, <1>b, <1>c, <2>1, <2>3, <2>5, SeparatorType, FrameTaken
           DEF WholeCopies, MasterCopies
      <3>2. Continues(prog', HostQueue, "begin", HostCode)
        BY <3>1, OtherContinues DEF InOrder, WholeCopies, HostCopies
      <3>3. /\ net'["master"] = RemoveAt(q, 1) /\ net'["host"] = net["host"]
            /\ net'["stray"] = net["stray"]
        BY <1>b, <2>1, <2>5 DEF Channel
      <3>4. HostQueue' = HostQueue
        BY <2>1, <3>3 DEF HostQueue
      <3> QED
        BY <3>1, <3>2, <3>3, <3>4 DEF Goal, WholeCopies, MasterCopies, HostCopies
    <2>6. CASE p = "host"
      <3>1. /\ RemoveAt(HostQueue, 1) = RemoveAt(net["host"], 1) \o hostTx
            /\ HostQueue[1] = net["host"][1]
        BY <1>b, <2>3, <2>6, RemoveFirstOfConcat DEF HostQueue
      <3>2. Len(HostQueue) > 0
        <4>1. Len(HostQueue) = Len(net["host"]) + Len(hostTx) /\ Len(hostTx) \in Nat
          BY <1>b, ConcatProperties, LenProperties DEF HostQueue
        <4> QED
          BY <2>2, <2>3, <2>6, <4>1, SMT
      <3>3. /\ GoodQueue(RemoveAt(HostQueue, 1), "begin", HostCode)
            /\ Continues(prog', RemoveAt(HostQueue, 1), "begin", HostCode)
            /\ prog' = prog \/ ~prog'.active \/ OwnedBy(prog', HostCode)
            /\ nvs' = nvs \/ Installs
        BY <1>a, <1>b, <1>c, <2>1, <2>6, <3>1, <3>2, FrameTaken DEF WholeCopies, HostCopies
      <3>4. Continues(prog', net["master"], Separator, MasterCode)
        <4>1. \A d \in HostCode : \A c \in MasterCode : Home[d] # Home[c]
          BY DEF InOrder
        <4> QED
          BY <3>3, <4>1, OtherContinues DEF WholeCopies, MasterCopies
      <3>5. /\ net'["host"] = RemoveAt(net["host"], 1) /\ net'["master"] = net["master"]
            /\ net'["stray"] = net["stray"]
        BY <1>b, <2>1, <2>6 DEF Channel
      <3>6. HostQueue' = RemoveAt(HostQueue, 1)
        BY <2>1, <3>1, <3>5 DEF HostQueue
      <3>7. Len(net'["host"]) <= 1
        <4>1. Len(RemoveAt(net["host"], 1)) = Len(net["host"]) - 1
          BY <1>b, <2>1, <2>6, RemoveAtParts
        <4>2. Len(net["host"]) \in Nat /\ Len(net["host"]) <= 1
          BY <2>2, <2>6 DEF WholeCopies
        <4> QED
          BY <3>5, <4>1, <4>2, SMT
      <3> QED
        BY <3>3, <3>4, <3>5, <3>6, <3>7 DEF Goal, WholeCopies, MasterCopies, HostCopies
    <2> QED
      BY <2>4, <2>5, <2>6 DEF Channel
  <1>11. ASSUME NEW p \in Channel, NEW i \in 1 .. Len(net[p]), Drop(p, i)
         PROVE  Goal
    <2>1. /\ <<p, net[p][i].type>> \in Losable
          /\ net' = [net EXCEPT ![p] = RemoveAt(net[p], i)]
          /\ hostTx' = IF p = "host" THEN <<>> ELSE hostTx
          /\ UNCHANGED storeVars
      BY <1>11 DEF Drop
    <2>2. net[p] \in Seq(HonestFrame) /\ Len(net[p]) \in Nat
      BY <1>b, LenProperties
    <2>3. Len(net[p]) > 0
      BY <2>2, SMT
    <2>4. p # "stray"
      <3>1. Len(<<>>) = 0
        OBVIOUS
      <3> QED
        BY <2>3, <3>1, SMT DEF WholeCopies
    <2>5. CASE p = "master"
      <3> DEFINE q == net["master"]
      <3>1. q[i].type # Separator
        BY <2>1, <2>5 DEF InOrder, Separator
      <3>2. /\ GoodQueue(RemoveAt(q, i), Separator, MasterCode)
            /\ Continues(prog, RemoveAt(q, i), Separator, MasterCode)
        BY <1>b, <2>5, <3>1, SeparatorType, LossKeeps DEF WholeCopies, MasterCopies
      <3>3. /\ net'["master"] = RemoveAt(q, i) /\ net'["host"] = net["host"]
            /\ net'["stray"] = net["stray"] /\ hostTx' = hostTx
        BY <1>b, <2>1, <2>5 DEF Channel
      <3>4. HostQueue' = HostQueue
        BY <3>3 DEF HostQueue
      <3> QED
        BY <2>1, <3>2, <3>3, <3>4 DEF Goal, WholeCopies, MasterCopies, HostCopies, storeVars
    <2>6. CASE p = "host"
      <3> DEFINE e == RemoveAt(net["host"], i)
      <3>1. e \in Seq(HonestFrame) /\ Len(e) = Len(net["host"]) - 1
        BY <1>b, <2>6, RemoveAtSeq, RemoveAtParts
      <3>2. Len(e) <= 1 /\ Len(e) # 1
        <4> DEFINE n == Len(net["host"])
        <4>1. n \in Nat /\ n <= 1 /\ Len(e) = n - 1
          BY <2>2, <2>6, <3>1 DEF WholeCopies
        <4> HIDE DEF n, e
        <4> QED
          BY <4>1, SMT
      <3> HIDE DEF e
      <3>3. GoodQueue(e, "begin", HostCode) /\ Continues(prog, e, "begin", HostCode)
        BY <1>b, <3>1, <3>2, RestKeeps DEF WholeCopies, HostCopies
      <3>4. /\ net'["host"] = e /\ net'["master"] = net["master"]
            /\ net'["stray"] = net["stray"] /\ hostTx' = <<>>
        BY <1>b, <2>1, <2>6 DEF Channel, e
      <3>5. HostQueue' = e
        BY <3>1, <3>4, ConcatEmptySeq DEF HostQueue
      <3> QED
        BY <2>1, <3>2, <3>3, <3>4, <3>5
           DEF Goal, WholeCopies, MasterCopies, HostCopies, storeVars
    <2> QED
      BY <2>4, <2>5, <2>6 DEF Channel
  <1>12. ASSUME NEW p \in Channel, NEW i \in 1 .. Len(net[p])
         PROVE  ~Duplicate(p, i)
    BY DEF Duplicate, InOrder
  <1>13. ASSUME SlaveReboot
        PROVE  Goal
    <2>1. ~prog'.active /\ UNCHANGED net /\ UNCHANGED hostTx
      BY <1>13 DEF SlaveReboot, Reboot, NoProg
    <2>2. HostQueue' = HostQueue
      BY <2>1 DEF HostQueue
    <2>3. nvs' = nvs \/ nvs' = [s \in Slot |-> Empty]
      BY <1>13 DEF SlaveReboot, Reboot
    <2> QED
      BY <2>1, <2>2, <2>3
         DEF Goal, WholeCopies, MasterCopies, HostCopies, Continues, OwnedBy
  <1>14. ASSUME UNCHANGED replVars
        PROVE  Goal
    BY <1>14, <1>d DEF replVars
  <1> QED
    BY <1>1, <1>2, <1>3, <1>4, <1>5, <1>6, <1>7, <1>8, <1>9, <1>10, <1>11, <1>12, <1>13, <1>14
       DEF ReplNext, Goal

\* On a radio that keeps the order, every slot of the slave holds nothing or,
\* complete and unaltered, a code that was offered for it, and changes from one to
\* another in one step, whatever else is lost, given up or forgotten in a reboot
\* (espir_device.c:296-323, espir.js:181-201, espir_store.c:111-162).
THEOREM SlaveImplementsCopy ==
  ASSUME InOrder
  PROVE  ReplSpec => ImplementsCopy
  <1>1. ReplInit => Copy!CopyInit
    BY DEF ReplInit, StoreInit, Copy!CopyInit
  <1>2. ReplInv /\ WholeCopies /\ [ReplNext]_replVars => WholeCopies' /\ [Copy!CopyNext]_nvs
    <2> SUFFICES ASSUME ReplInv, WholeCopies, [ReplNext]_replVars
                 PROVE  WholeCopies' /\ [Copy!CopyNext]_nvs
      OBVIOUS
    <2>1. WholeCopies' /\ (nvs' = nvs \/ Installs \/ nvs' = [s \in Slot |-> Empty])
      BY CopiesNext
    <2>2. Installs => Copy!CopyNext
      BY DEF Installs, Copy!CopyNext, Copy!Install
    <2>3. nvs' = [s \in Slot |-> Empty] => Copy!CopyNext
      BY DEF Copy!CopyNext, Copy!Wipe
    <2> QED
      BY <2>1, <2>2, <2>3
  <1> QED
    BY <1>1, <1>2, ReplInitInv, ReplNextInv, CopiesInit, PTL
       DEF ReplSpec, ImplementsCopy, Copy!CopySpec
=============================================================================
