-------------------------- MODULE EspirStoreProofs --------------------------
(***************************************************************************)
(* The invariants of the slot store, for any number of slots, any buffer   *)
(* size and any sequence of frames.                                        *)
(***************************************************************************)
EXTENDS EspirStore, SequenceTheorems, TLAPS

\* What a frame carries is a sequence of bytes.
LEMMA FrameBlobIsSeq == FrameBlob \subseteq Seq(Byte)
  <1> SUFFICES ASSUME NEW n \in 0 .. FrameMax, NEW d \in [1 .. n -> Byte]
               PROVE  d \in Seq(Byte)
    BY DEF FrameBlob
  <1>1. n \in Nat
    BY StoreAssumption, SMT
  <1> QED
    BY <1>1, IsASeq, SMT

\* write_record leaves well-formed records only (espir_store.c:44-64).
LEMMA WriteRecordType ==
  ASSUME NEW slot, NEW kind \in Kind, NEW carrier \in Carrier,
         NEW blob \in Seq(Byte),
         nvs \in [Slot -> Record \cup {Empty}],
         WriteRecord(slot, kind, carrier, blob)
  PROVE  nvs' \in [Slot -> Record \cup {Empty}]
  <1> DEFINE r == [kind |-> kind, carrier |-> carrier, blob |-> blob]
  <1>1. CASE nvs' = nvs
    BY <1>1
  <1>2. CASE /\ slot \in Slot
             /\ Len(blob) <= RawMaxBytes
             /\ nvs' = [nvs EXCEPT ![slot] = r]
    <2>1. r \in Record
      BY <1>2 DEF Record, Blob
    <2> HIDE DEF r
    <2> QED
      BY <1>2, <2>1
  <1> QED
    BY <1>1, <1>2 DEF WriteRecord

LEMMA NoProgType ==
  NoProg \in [active : BOOLEAN, slot : Slot, kind : Kind, carrier : Carrier,
              total : 0 .. RawMaxBytes, buf : Seq(Byte)]
  <1>1. 0 \in Slot /\ 0 \in 0 .. RawMaxBytes
    BY StoreAssumption, SMT DEF Slot
  <1>2. <<>> \in Seq(Byte)
    BY SMT
  <1> QED
    BY <1>1, <1>2, StoreAssumption DEF NoProg

LEMMA StoreInitType == StoreInit => StoreTypeOK
  BY NoProgType DEF StoreInit, StoreTypeOK

\* The operations of the store, one at a time, called with any bytes.
LEMMA ProgramSingleType ==
  ASSUME StoreTypeOK, NEW slot, NEW kind \in Kind, NEW carrier \in Carrier,
         NEW blob \in Seq(Byte), ProgramSingle(slot, kind, carrier, blob)
  PROVE  StoreTypeOK'
  <1>1. nvs' \in [Slot -> Record \cup {Empty}]
    BY WriteRecordType DEF ProgramSingle, StoreTypeOK
  <1> QED
    BY <1>1 DEF ProgramSingle, StoreTypeOK

LEMMA ProgramBeginType ==
  ASSUME StoreTypeOK, NEW slot, NEW kind \in Kind, NEW carrier \in Carrier,
         NEW total \in Nat, ProgramBegin(slot, kind, carrier, total)
  PROVE  StoreTypeOK'
  <1>1. CASE UNCHANGED prog
    BY <1>1 DEF ProgramBegin, StoreTypeOK
  <1>2. CASE /\ slot \in Slot
             /\ total <= RawMaxBytes
             /\ prog' = [active |-> TRUE, slot |-> slot, kind |-> kind,
                         carrier |-> carrier, total |-> total, buf |-> <<>>]
    <2>1. total \in 0 .. RawMaxBytes
      BY <1>2, StoreAssumption, SMT
    <2>2. nvs' = nvs
      BY DEF ProgramBegin
    <2> QED
      BY <1>2, <2>1, <2>2, EmptySeq DEF StoreTypeOK
  <1> QED
    BY <1>1, <1>2 DEF ProgramBegin

LEMMA ProgramChunkType ==
  ASSUME StoreTypeOK, NEW slot, NEW data \in Seq(Byte), ProgramChunk(slot, data)
  PROVE  StoreTypeOK'
  <1>1. prog.buf \o data \in Seq(Byte)
    BY ConcatProperties DEF StoreTypeOK
  <1> QED
    BY <1>1 DEF ProgramChunk, StoreTypeOK

LEMMA ProgramCommitType ==
  ASSUME StoreTypeOK, NEW slot, ProgramCommit(slot)
  PROVE  StoreTypeOK'
  <1>1. nvs' \in [Slot -> Record \cup {Empty}]
    BY WriteRecordType DEF ProgramCommit, storeVars, StoreTypeOK
  <1>2. prog' = prog \/ prog' = [prog EXCEPT !.active = FALSE]
    BY DEF ProgramCommit, storeVars
  <1> QED
    BY <1>1, <1>2 DEF StoreTypeOK

LEMMA SaveType ==
  ASSUME StoreTypeOK, NEW slot, NEW code \in Record, Save(slot, code)
  PROVE  StoreTypeOK'
  <1>1. /\ code.kind \in Kind
        /\ code.carrier \in Carrier
        /\ code.blob \in Seq(Byte)
    BY DEF Record, Blob
  <1>2. nvs' \in [Slot -> Record \cup {Empty}]
    BY <1>1, WriteRecordType DEF Save, StoreTypeOK
  <1> QED
    BY <1>2 DEF Save, StoreTypeOK

LEMMA ClearType ==
  ASSUME StoreTypeOK, NEW slot, Clear(slot)
  PROVE  StoreTypeOK'
  BY DEF Clear, StoreTypeOK

LEMMA RebootType == StoreTypeOK /\ Reboot => StoreTypeOK'
  BY NoProgType DEF Reboot, StoreTypeOK

LEMMA StoreNextType == StoreTypeOK /\ [StoreNext]_storeVars => StoreTypeOK'
  <1> SUFFICES ASSUME StoreTypeOK, [StoreNext]_storeVars PROVE StoreTypeOK'
    OBVIOUS
  <1>1. ASSUME NEW slot \in WireSlot, NEW kind \in Kind, NEW carrier \in Carrier,
               NEW blob \in FrameBlob, ProgramSingle(slot, kind, carrier, blob)
        PROVE  StoreTypeOK'
    BY <1>1, FrameBlobIsSeq, ProgramSingleType
  <1>2. ASSUME NEW slot \in WireSlot, NEW kind \in Kind, NEW carrier \in Carrier,
               NEW total \in WireLen, ProgramBegin(slot, kind, carrier, total)
        PROVE  StoreTypeOK'
    BY <1>2, StoreAssumption, ProgramBeginType
  <1>3. ASSUME NEW slot \in WireSlot, NEW data \in FrameBlob, ProgramChunk(slot, data)
        PROVE  StoreTypeOK'
    BY <1>3, FrameBlobIsSeq, ProgramChunkType
  <1>4. ASSUME NEW slot \in WireSlot, ProgramCommit(slot) \/ Clear(slot)
        PROVE  StoreTypeOK'
    BY <1>4, ProgramCommitType, ClearType
  <1>5. ASSUME NEW s \in Slot, NEW code \in {nvs[t] : t \in Slot} \ {Empty},
               Save(s, code)
        PROVE  StoreTypeOK'
    <2>1. code \in Record
      BY DEF StoreTypeOK
    <2> QED
      BY <1>5, <2>1, SaveType
  <1>6. CASE Reboot
    BY <1>6, RebootType
  <1>7. CASE UNCHANGED storeVars
    BY <1>7 DEF storeVars, StoreTypeOK
  <1> QED
    BY <1>1, <1>2, <1>3, <1>4, <1>5, <1>6, <1>7 DEF StoreNext

\* The records in flash are well formed and the assembly keeps to the ranges
\* of its C struct, whatever frames arrive and wherever the power fails.
THEOREM StoreTypeCorrect == StoreSpec => []StoreTypeOK
  BY StoreInitType, StoreNextType, PTL DEF StoreSpec

-----------------------------------------------------------------------------

LEMMA StoreNextFits ==
  StoreTypeOK /\ AssemblyFits /\ [StoreNext]_storeVars => AssemblyFits'
  <1> SUFFICES ASSUME StoreTypeOK, AssemblyFits, [StoreNext]_storeVars
               PROVE  AssemblyFits'
    OBVIOUS
  <1>0. /\ prog.total \in Nat
        /\ prog.buf \in Seq(Byte)
        /\ RawMaxBytes \in Nat
    BY StoreAssumption DEF StoreTypeOK
  <1>1. CASE UNCHANGED prog
    BY <1>1 DEF AssemblyFits
  <1>2. ASSUME NEW slot \in WireSlot, NEW kind \in Kind, NEW carrier \in Carrier,
               NEW total \in WireLen, ProgramBegin(slot, kind, carrier, total)
        PROVE  AssemblyFits'
    <2>1. total \in Nat
      BY StoreAssumption
    <2>2. CASE UNCHANGED prog
      BY <1>1, <2>2
    <2>3. CASE /\ total <= RawMaxBytes
               /\ prog' = [active |-> TRUE, slot |-> slot, kind |-> kind,
                           carrier |-> carrier, total |-> total, buf |-> <<>>]
      <3>1. prog'.total = total /\ prog'.buf = <<>>
        BY <2>3
      <3> QED
        BY <3>1, <2>1, <2>3, EmptySeq, SMT DEF AssemblyFits
    <2> QED
      BY <1>2, <2>2, <2>3 DEF ProgramBegin
  <1>3. ASSUME NEW slot \in WireSlot, NEW data \in FrameBlob, ProgramChunk(slot, data)
        PROVE  AssemblyFits'
    <2>1. data \in Seq(Byte)
      BY FrameBlobIsSeq
    <2>2. CASE UNCHANGED prog
      BY <1>1, <2>2
    <2>3. CASE /\ Len(prog.buf) + Len(data) <= prog.total
               /\ prog' = [prog EXCEPT !.buf = @ \o data]
      <3>1. /\ prog'.total = prog.total
            /\ prog'.buf = prog.buf \o data
        BY <2>3 DEF StoreTypeOK
      <3>2. Len(prog.buf \o data) = Len(prog.buf) + Len(data)
        BY <1>0, <2>1, ConcatProperties
      <3> QED
        BY <2>3, <3>1, <3>2 DEF AssemblyFits
    <2> QED
      BY <1>3, <2>2, <2>3 DEF ProgramChunk
  <1>4. ASSUME NEW slot \in WireSlot, ProgramCommit(slot)
        PROVE  AssemblyFits'
    <2>1. CASE prog' = [prog EXCEPT !.active = FALSE]
      BY <2>1 DEF AssemblyFits, StoreTypeOK
    <2> QED
      BY <1>4, <1>1, <2>1 DEF ProgramCommit, storeVars
  <1>5. CASE Reboot
    BY <1>5, <1>0, EmptySeq, SMT DEF Reboot, NoProg, AssemblyFits
  <1>6. CASE UNCHANGED storeVars
    BY <1>1, <1>6 DEF storeVars
  <1> QED
    BY <1>1, <1>2, <1>3, <1>4, <1>5, <1>6
       DEF StoreNext, ProgramSingle, Clear, Save

\* The copy of program_chunk stays inside s_prog.buf and inside the length
\* that begin announced (espir_store.c:144-153).
THEOREM AssemblyNeverOverruns == StoreSpec => []AssemblyFits
  <1>1. StoreInit => AssemblyFits
    BY StoreAssumption, EmptySeq, SMT DEF StoreInit, NoProg, AssemblyFits
  <1> QED
    BY <1>1, StoreInitType, StoreNextType, StoreNextFits, PTL DEF StoreSpec

-----------------------------------------------------------------------------

LEMMA TypedIsSendable == StoreTypeOK => LoadedIsSendable
  <1> SUFFICES ASSUME StoreTypeOK, NEW s \in Slot, Load(nvs[s]) # Empty
               PROVE  Sendable(Load(nvs[s]))
    BY DEF LoadedIsSendable
  <1> DEFINE r == nvs[s]
  <1>1. r \in Record /\ Decodable(r)
    BY DEF StoreTypeOK, Load
  <1>2. r.blob \in Seq(Byte) /\ Len(r.blob) \in Nat
    BY <1>1, LenProperties DEF Record, Blob
  <1>3. NecBytes \in Nat \ {0} /\ RawMaxBytes \in Nat
    BY StoreAssumption, SMT
  <1>4. /\ Load(r).kind = r.kind
        /\ Load(r).blob = IF r.kind = "nec" THEN SubSeq(r.blob, 1, NecBytes)
                                            ELSE r.blob
    BY <1>1 DEF Load
  <1> HIDE DEF r
  <1>5. CASE r.kind = "nec"
    <2>1. Len(r.blob) >= NecBytes
      BY <1>1, <1>5 DEF Decodable
    <2>2. Len(SubSeq(r.blob, 1, NecBytes)) = NecBytes
      BY <1>2, <1>3, <2>1, SMT
    <2> QED
      BY <1>4, <1>5, <2>2 DEF Sendable, r
  <1>6. CASE r.kind # "nec"
    <2>1. Len(r.blob) \in 2 .. RawMaxBytes
      BY <1>1, <1>2, <1>3, <1>6, SMT DEF Decodable
    <2> QED
      BY <1>4, <1>6, <2>1 DEF Sendable, r
  <1> QED
    BY <1>5, <1>6

\* Whatever reached flash, by learning, by one frame or by many, the
\* transmitter is handed a code it can take (espir_codec.c:70-88 against
\* espir_ir.c:110-125).
THEOREM LoadedCodesAreSendable == StoreSpec => []LoadedIsSendable
  BY StoreTypeCorrect, TypedIsSendable, PTL
=============================================================================
