----------------------------- MODULE EspirStore -----------------------------
(***************************************************************************)
(* The slot store of components/espir_store: one NVS record per slot, and  *)
(* the assembly (s_prog) in which a code too long for one ZCL frame is     *)
(* collected between program_begin and program_commit.                     *)
(*                                                                         *)
(* A code is a record [kind, carrier, blob]: the header and the payload    *)
(* bytes of the NVS record.  s_prog.got is the length of prog.buf, the     *)
(* part of s_prog.buf that has been filled since the last begin.           *)
(***************************************************************************)
EXTENDS Naturals, Sequences

CONSTANTS
    SlotCount,    \* CONFIG_ESPIR_SLOT_COUNT, the number of slots
    WireSlot,     \* the u8 slot numbers a frame can carry, valid or not
    Kind,         \* the kind octets a frame can carry: "raw", "nec", others
    Carrier,      \* the carrier values (kHz) a frame can carry, 0 included
    WireLen,      \* the u16 lengths a program_begin can announce
    Byte,         \* the payload bytes told apart
    FrameMax,     \* longest payload of one frame
    RawMaxBytes,  \* ESPIR_RAW_MAX_BYTES
    NecBytes,     \* ESPIR_NEC_BLOB_BYTES
    Empty,        \* the content of a slot without an NVS record
    NvsMayFail    \* whether NVS may refuse a write, or its pages at a boot

Slot == 0 .. (SlotCount - 1)

DefaultCarrier == 38                        \* ESPIR_CARRIER_DEFAULT_KHZ

Blob == {b \in Seq(Byte) : Len(b) <= RawMaxBytes}

Record == [kind : Kind, carrier : Carrier, blob : Blob]

ASSUME StoreAssumption ==
    /\ SlotCount \in Nat \ {0}
    /\ WireSlot \subseteq Nat
    /\ Slot \subseteq WireSlot
    /\ {"raw", "nec"} \subseteq Kind
    /\ Carrier \subseteq Nat
    /\ DefaultCarrier \in Carrier
    /\ WireLen \subseteq Nat
    /\ RawMaxBytes \in Nat
    /\ FrameMax \in 0 .. RawMaxBytes
    /\ NecBytes \in 1 .. RawMaxBytes
    /\ Empty \notin Record
    /\ NvsMayFail \in BOOLEAN

VARIABLES
    nvs,          \* the persistent record of each slot, or Empty
    prog          \* s_prog, the assembly in progress (one at a time)

storeVars == <<nvs, prog>>

-----------------------------------------------------------------------------
(* Reading a slot                                                          *)

\* espir_code_from_blob: which records decode.  Any kind other than NEC is
\* read as an array of u16 durations.  The variant accepts an empty RAW blob.
DecodableNoMinimum(r) ==
    IF r.kind = "nec" THEN Len(r.blob) >= NecBytes
                      ELSE Len(r.blob) <= RawMaxBytes /\ Len(r.blob) % 2 = 0

Decodable(r) ==
    IF r.kind = "nec" THEN Len(r.blob) >= NecBytes
                      ELSE /\ Len(r.blob) >= 2
                           /\ Len(r.blob) <= RawMaxBytes
                           /\ Len(r.blob) % 2 = 0

\* espir_store_load of a slot that holds r: the code handed to the caller, or
\* Empty when the load fails.
Load(r) ==
    IF r = Empty \/ ~Decodable(r) THEN Empty
    ELSE [kind    |-> r.kind,
          carrier |-> IF r.carrier = 0 THEN DefaultCarrier ELSE r.carrier,
          blob    |-> IF r.kind = "nec" THEN SubSeq(r.blob, 1, NecBytes)
                                        ELSE r.blob]

\* espir_store_occupied: a record is there (every record has its header).
Occupied(slot) == slot \in Slot /\ nvs[slot] # Empty

\* The codes espir_ir_send takes: a NEC frame with all its bytes, or at least
\* one duration and no more than the symbol buffer holds.
Sendable(code) ==
    IF code.kind = "nec" THEN Len(code.blob) = NecBytes
                         ELSE Len(code.blob) \in 2 .. RawMaxBytes

-----------------------------------------------------------------------------
(* Writing a slot                                                          *)

WriteRecord(slot, kind, carrier, blob) ==
    \/ /\ slot \in Slot
       /\ Len(blob) <= RawMaxBytes
       /\ nvs' = [nvs EXCEPT ![slot] =
                     [kind |-> kind, carrier |-> carrier, blob |-> blob]]
    \/ /\ slot \notin Slot \/ Len(blob) > RawMaxBytes \/ NvsMayFail
       /\ UNCHANGED nvs

\* espir_store_save, of a code in the form espir_code_to_blob gives it
Save(slot, code) ==
    /\ WriteRecord(slot, code.kind, code.carrier, code.blob)
    /\ UNCHANGED prog

Clear(slot) ==
    /\ \/ slot \in Slot /\ nvs' = [nvs EXCEPT ![slot] = Empty]
       \/ (slot \notin Slot \/ NvsMayFail) /\ UNCHANGED nvs
    /\ UNCHANGED prog

ProgramSingle(slot, kind, carrier, blob) ==
    /\ WriteRecord(slot, kind, carrier, blob)
    /\ UNCHANGED prog

-----------------------------------------------------------------------------
(* The chunked path: begin, chunk*, commit.  The seq number of a chunk is  *)
(* not an argument because program_chunk ignores it.                       *)

NoProg == [active |-> FALSE, slot |-> 0, kind |-> "raw",
           carrier |-> DefaultCarrier, total |-> 0, buf |-> <<>>]

\* Variant: begin keeps the bytes an abandoned transfer has left behind.
ProgramBeginKeepsBytes(slot, kind, carrier, total) ==
    /\ IF slot \in Slot /\ total <= RawMaxBytes
       THEN prog' = [active |-> TRUE, slot |-> slot, kind |-> kind,
                     carrier |-> carrier, total |-> total, buf |-> prog.buf]
       ELSE UNCHANGED prog
    /\ UNCHANGED nvs

\* Variant: begin does not check the slot.
ProgramBeginAnySlot(slot, kind, carrier, total) ==
    /\ IF total <= RawMaxBytes
       THEN prog' = [active |-> TRUE, slot |-> slot, kind |-> kind,
                     carrier |-> carrier, total |-> total, buf |-> <<>>]
       ELSE UNCHANGED prog
    /\ UNCHANGED nvs

ProgramBegin(slot, kind, carrier, total) ==
    /\ \/ /\ slot \in Slot
          /\ total <= RawMaxBytes
          /\ prog' = [active |-> TRUE, slot |-> slot, kind |-> kind,
                      carrier |-> carrier, total |-> total, buf |-> <<>>]
       \/ /\ slot \notin Slot \/ total > RawMaxBytes
          /\ UNCHANGED prog
    /\ UNCHANGED nvs

Assembling(slot) == prog.active /\ prog.slot = slot

\* Variant: chunks are taken whatever slot they are for.
ProgramChunkAnySlot(slot, data) ==
    /\ IF prog.active /\ Len(prog.buf) + Len(data) <= prog.total
       THEN prog' = [prog EXCEPT !.buf = @ \o data]
       ELSE UNCHANGED prog
    /\ UNCHANGED nvs

\* Variant: the announced length does not limit what is taken.
ProgramChunkUnbounded(slot, data) ==
    /\ IF Assembling(slot) THEN prog' = [prog EXCEPT !.buf = @ \o data]
                           ELSE UNCHANGED prog
    /\ UNCHANGED nvs

\* Variant: the last byte announced never fits.
ProgramChunkStrict(slot, data) ==
    /\ IF Assembling(slot) /\ Len(prog.buf) + Len(data) < prog.total
       THEN prog' = [prog EXCEPT !.buf = @ \o data]
       ELSE UNCHANGED prog
    /\ UNCHANGED nvs

ProgramChunk(slot, data) ==
    /\ \/ /\ Assembling(slot)
          /\ Len(prog.buf) + Len(data) <= prog.total
          /\ Len(prog.buf) + Len(data) <= RawMaxBytes
          /\ prog' = [prog EXCEPT !.buf = @ \o data]
       \/ /\ \/ ~Assembling(slot)
             \/ Len(prog.buf) + Len(data) > prog.total
             \/ Len(prog.buf) + Len(data) > RawMaxBytes
          /\ UNCHANGED prog
    /\ UNCHANGED nvs

\* Variant: commit writes whatever has arrived.
ProgramCommitUnchecked(slot) ==
    IF Assembling(slot)
    THEN /\ WriteRecord(slot, prog.kind, prog.carrier, prog.buf)
         /\ prog' = [prog EXCEPT !.active = FALSE]
    ELSE UNCHANGED storeVars

ProgramCommit(slot) ==
    \/ /\ Assembling(slot)
       /\ Len(prog.buf) = prog.total
       /\ WriteRecord(slot, prog.kind, prog.carrier, prog.buf)
       /\ prog' = [prog EXCEPT !.active = FALSE]
    \/ /\ Assembling(slot)
       /\ Len(prog.buf) # prog.total
       /\ prog' = [prog EXCEPT !.active = FALSE]
       /\ UNCHANGED nvs
    \/ /\ ~Assembling(slot)
       /\ UNCHANGED storeVars

\* Loss of power: s_prog is in RAM, the records are in flash.  They survive,
\* unless espir_store_init finds pages that NVS refuses, and erases them all.
Reboot ==
    /\ prog' = NoProg
    /\ \/ UNCHANGED nvs
       \/ NvsMayFail /\ nvs' = [s \in Slot |-> Empty]

-----------------------------------------------------------------------------
(* The store by itself, called with anything a frame can carry.            *)

FrameBlob == UNION {[1 .. n -> Byte] : n \in 0 .. FrameMax}

StoreInit ==
    /\ nvs = [s \in Slot |-> Empty]
    /\ prog = NoProg

StoreNext ==
    \/ \E slot \in WireSlot, kind \in Kind, carrier \in Carrier, blob \in FrameBlob :
          ProgramSingle(slot, kind, carrier, blob)
    \/ \E slot \in WireSlot, kind \in Kind, carrier \in Carrier, total \in WireLen :
          ProgramBegin(slot, kind, carrier, total)
    \/ \E slot \in WireSlot, data \in FrameBlob : ProgramChunk(slot, data)
    \/ \E slot \in WireSlot : ProgramCommit(slot) \/ Clear(slot)
    \/ \E s \in Slot, code \in {nvs[t] : t \in Slot} \ {Empty} : Save(s, code)
    \/ Reboot

StoreSpec == StoreInit /\ [][StoreNext]_storeVars

-----------------------------------------------------------------------------
(* Properties                                                              *)

\* Every slot holds nothing or a well-formed record, and the fields of the
\* assembly have the ranges of the C struct.
StoreTypeOK ==
    /\ nvs \in [Slot -> Record \cup {Empty}]
    /\ prog \in [active : BOOLEAN, slot : Slot, kind : Kind, carrier : Carrier,
                 total : 0 .. RawMaxBytes, buf : Seq(Byte)]

\* The copy of program_chunk never runs past the announced length, nor past
\* the end of s_prog.buf, whatever sequence of frames came before
\* (espir_store.c:144-153).
AssemblyFits ==
    /\ Len(prog.buf) <= prog.total
    /\ prog.total <= RawMaxBytes

\* Whatever was written to a slot, and by whichever path, a code that load
\* hands to the send task is one the transmitter can take: it has at least
\* one duration, or all the bytes of a NEC frame (espir_ir.c:117-125).
LoadedIsSendable ==
    \A s \in Slot : Load(nvs[s]) # Empty => Sendable(Load(nvs[s]))
=============================================================================
