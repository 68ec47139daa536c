-------------------------- MODULE EspirReplication --------------------------
(***************************************************************************)
(* Copying codes to a slave.  Two senders program it: the master, on       *)
(* COPY_TO and COPY_ALL, from its own slots (replicate_slot_to), and the   *)
(* host, from a script (tzProgram of z2m/espir.js).  Both use program for  *)
(* a code that fits one frame and begin / chunk* / commit for a longer     *)
(* one, and the slave has a single assembly for both.                      *)
(*                                                                         *)
(* nvs and prog, of EspirStore, are the slave's.  A code c of Code belongs *)
(* to one slot, Home[c], and its i-th byte is <<c, i>>, so that a record   *)
(* shows where each of its bytes came from.                                *)
(*                                                                         *)
(* The radio is external: a FIFO per sender, and one for the frames that   *)
(* no sender waits for any more; its faults are constants.                 *)
(***************************************************************************)
EXTENDS EspirStore, SequencesExt

CONSTANTS
    Code,         \* the codes that are copied
    Home,         \* Home[c], the slot code c is for
    KindOf,       \* KindOf[c], CarrierOf[c], LenOf[c]: its record
    CarrierOf,
    LenOf,
    MasterCode,   \* the codes the master may learn
    HostCode,     \* the codes the host may send
    TxChunk,      \* ESPIR_TX_CHUNK, the payload of one frame of the master
    HostChunk,    \* MAX of tzProgram, the payload of one frame of the host
    NetCap,       \* frames of one sender the stack can hold
    StrayCap,     \* bound: stray frames in flight
    MayOverflow,  \* whether the master may run out of them
    Losable,      \* the frames that may be lost: pairs of a channel and a type
    MayDuplicate, \* whether a frame may arrive twice, the copy late
    MayReorder,   \* whether frames of one sender may overtake each other
    MayTimeOut,   \* whether the host may give up on a frame still in flight
    MayReboot     \* whether the slave may lose power

Channel == {"master", "host", "stray"}

FrameType == {"program", "begin", "chunk", "commit", "clear"}

CodesOf(s) == {c \in Code : Home[c] = s}

Token(c) == {<<c, i>> : i \in 1 .. LenOf[c]}

TokensOf(s) == UNION {Token(c) : c \in CodesOf(s)}

RecOf(c) == [kind |-> KindOf[c], carrier |-> CarrierOf[c],
             blob |-> [i \in 1 .. LenOf[c] |-> <<c, i>>]]

ASSUME ReplicationAssumption ==
    /\ Home \in [Code -> Slot]
    /\ KindOf \in [Code -> Kind]
    /\ CarrierOf \in [Code -> Carrier \ {0}]
    /\ LenOf \in [Code -> 1 .. RawMaxBytes]
    /\ \A c \in Code : /\ Token(c) \subseteq Byte
                       /\ Decodable(RecOf(c))
                       /\ KindOf[c] = "nec" => LenOf[c] = NecBytes
    /\ MasterCode \subseteq Code /\ HostCode \subseteq Code
    /\ TxChunk \in Nat \ {0} /\ HostChunk \in Nat \ {0}
    /\ NetCap \in Nat /\ StrayCap \in Nat
    /\ Losable \subseteq Channel \X FrameType
    /\ {MayOverflow, MayDuplicate, MayReorder, MayTimeOut, MayReboot}
          \subseteq BOOLEAN

VARIABLES
    mnvs,         \* the master's slots
    sweep,        \* the slot COPY_ALL has come to; SlotCount when it is done
    hostTx,       \* the frames of tzProgram that are still to be sent
    net           \* the frames in flight on each channel, oldest first

replVars == <<storeVars, mnvs, sweep, hostTx, net>>

-----------------------------------------------------------------------------
(* The frames of a copy                                                    *)

ProgramFrame(s, r) ==
    [type |-> "program", slot |-> s, kind |-> r.kind, carrier |-> r.carrier,
     data |-> r.blob]

BeginFrame(s, r) ==
    [type |-> "begin", slot |-> s, kind |-> r.kind, carrier |-> r.carrier,
     total |-> Len(r.blob)]

\* Variant: the slot and the sequence number change places.
ChunkFrameSeqFirst(s, r, n, size) ==
    [type |-> "chunk", slot |-> n,
     data |-> SubSeq(r.blob, (n - 1) * size + 1,
                     IF n * size <= Len(r.blob) THEN n * size ELSE Len(r.blob))]

\* The n-th chunk.  Its seq octet is left out: program_chunk does not read it.
ChunkFrame(s, r, n, size) ==
    [type |-> "chunk", slot |-> s,
     data |-> SubSeq(r.blob, (n - 1) * size + 1,
                     IF n * size <= Len(r.blob) THEN n * size ELSE Len(r.blob))]

CommitFrame(s) == [type |-> "commit", slot |-> s]

ClearFrame(s) == [type |-> "clear", slot |-> s]

Chunks(r, size) == (Len(r.blob) + size - 1) \div size

\* replicate_slot_to and tzProgram: the frames that carry record r to slot s.
Frames(s, r, size) ==
    IF Len(r.blob) <= size
    THEN <<ProgramFrame(s, r)>>
    ELSE <<BeginFrame(s, r)>>
         \o [n \in 1 .. Chunks(r, size) |-> ChunkFrame(s, r, n, size)]
         \o <<CommitFrame(s)>>

\* esp_zb_zcl_custom_cluster_cmd_req, for each of fs.  send_custom_to does not
\* look at the result, so the frames for which the stack has no buffer are gone
\* without a trace.
Transmit(fs) ==
    LET room == NetCap - Len(net["master"])
        n    == IF Len(fs) <= room THEN Len(fs) ELSE room
    IN  /\ MayOverflow \/ n = Len(fs)
        /\ net' = [net EXCEPT !["master"] = @ \o SubSeq(fs, 1, n)]

-----------------------------------------------------------------------------
(* The master                                                              *)

\* A code reaches a slot of the master (learn_task, or a program command).
Learn(c) ==
    /\ c \in MasterCode
    /\ mnvs' = [mnvs EXCEPT ![Home[c]] = RecOf(c)]
    /\ UNCHANGED <<storeVars, sweep, hostTx, net>>

MasterClear(s) ==
    /\ mnvs' = [mnvs EXCEPT ![s] = Empty]
    /\ UNCHANGED <<storeVars, sweep, hostTx, net>>

\* replicate_slot_to: an empty slot, or one that does not load, is skipped.
Replicate(s) ==
    LET code == Load(mnvs[s])
    IN  IF code = Empty THEN UNCHANGED net ELSE Transmit(Frames(s, code, TxChunk))

\* The Zigbee task runs one handler at a time: no command while a sweep runs.
CopyTo(s) ==
    /\ sweep = SlotCount
    /\ Replicate(s)
    /\ UNCHANGED <<storeVars, mnvs, sweep, hostTx>>

CopyAll ==
    /\ sweep = SlotCount
    /\ sweep' = 0
    /\ UNCHANGED <<storeVars, mnvs, hostTx, net>>

\* One turn of the loop of COPY_ALL.  The learn task is another task, and may
\* save a slot between two turns.
CopyAllTurn ==
    /\ sweep < SlotCount
    /\ Replicate(sweep)
    /\ sweep' = sweep + 1
    /\ UNCHANGED <<storeVars, mnvs, hostTx>>

-----------------------------------------------------------------------------
(* The host                                                                *)

HostProgram(c) ==
    /\ c \in HostCode
    /\ hostTx = <<>>
    /\ hostTx' = Frames(Home[c], RecOf(c), HostChunk)
    /\ UNCHANGED <<storeVars, mnvs, sweep, net>>

HostClear(s) ==
    /\ hostTx = <<>>
    /\ hostTx' = <<ClearFrame(s)>>
    /\ UNCHANGED <<storeVars, mnvs, sweep, net>>

\* Every command is awaited: the next frame leaves when the last has arrived.
HostSend ==
    /\ hostTx # <<>>
    /\ net["host"] = <<>>
    /\ net' = [net EXCEPT !["host"] = <<Head(hostTx)>>]
    /\ hostTx' = Tail(hostTx)
    /\ UNCHANGED <<storeVars, mnvs, sweep>>

\* The await throws, and tzProgram ends there, although the frame has arrived
\* or will: in its place before the next ones, or later than they.
HostTimeOut ==
    /\ MayTimeOut
    /\ hostTx # <<>>
    /\ hostTx' = <<>>
    /\ \/ UNCHANGED net
       \/ /\ MayReorder
          /\ Len(net["stray"]) + Len(net["host"]) <= StrayCap
          /\ net' = [net EXCEPT !["host"] = <<>>,
                                !["stray"] = @ \o net["host"]]
    /\ UNCHANGED <<storeVars, mnvs, sweep>>

-----------------------------------------------------------------------------
(* The radio, and the slave at its end                                     *)

\* handle_custom_cmd, for the commands that touch the store.
Handle(m) ==
    \/ m.type = "program" /\ ProgramSingle(m.slot, m.kind, m.carrier, m.data)
    \/ m.type = "begin"   /\ ProgramBegin(m.slot, m.kind, m.carrier, m.total)
    \/ m.type = "chunk"   /\ ProgramChunk(m.slot, m.data)
    \/ m.type = "commit"  /\ ProgramCommit(m.slot)
    \/ m.type = "clear"   /\ Clear(m.slot)

Deliver(p, i) ==
    /\ i = 1 \/ MayReorder
    /\ Handle(net[p][i])
    /\ net' = [net EXCEPT ![p] = RemoveAt(@, i)]
    /\ UNCHANGED <<mnvs, sweep, hostTx>>

\* A frame is lost.  The host's await throws, and tzProgram ends there.
Drop(p, i) ==
    /\ <<p, net[p][i].type>> \in Losable
    /\ net' = [net EXCEPT ![p] = RemoveAt(@, i)]
    /\ hostTx' = IF p = "host" THEN <<>> ELSE hostTx
    /\ UNCHANGED <<storeVars, mnvs, sweep>>

\* A frame will be heard a second time.
Duplicate(p, i) ==
    /\ MayDuplicate
    /\ Len(net["stray"]) < StrayCap
    /\ net' = [net EXCEPT !["stray"] = Append(@, net[p][i])]
    /\ UNCHANGED <<storeVars, mnvs, sweep, hostTx>>

SlaveReboot ==
    /\ MayReboot
    /\ Reboot
    /\ UNCHANGED <<mnvs, sweep, hostTx, net>>

-----------------------------------------------------------------------------

ReplInit ==
    /\ StoreInit
    /\ mnvs = [s \in Slot |-> Empty]
    /\ sweep = SlotCount
    /\ hostTx = <<>>
    /\ net = [p \in Channel |-> <<>>]

ReplNext ==
    \/ \E c \in Code : Learn(c) \/ HostProgram(c)
    \/ \E s \in Slot : MasterClear(s) \/ CopyTo(s) \/ HostClear(s)
    \/ CopyAll \/ CopyAllTurn
    \/ HostSend \/ HostTimeOut
    \/ \E p \in Channel : \E i \in 1 .. Len(net[p]) :
          Deliver(p, i) \/ Drop(p, i) \/ Duplicate(p, i)
    \/ SlaveReboot

ReplSpec == ReplInit /\ [][ReplNext]_replVars

\* The radio keeps delivering on every channel, and neither the handler of
\* COPY_ALL nor the host's script stops half way.
DeliverNext(p) == net[p] # <<>> /\ Deliver(p, 1)

ReplFairSpec ==
    /\ ReplSpec
    /\ \A p \in Channel : WF_replVars(DeliverNext(p))
    /\ WF_replVars(CopyAllTurn)
    /\ WF_replVars(HostSend)

-----------------------------------------------------------------------------
(* Properties                                                              *)

Frame ==
    [type : {"program"}, slot : Slot, kind : Kind, carrier : Carrier, data : Seq(Byte)]
    \cup [type : {"begin"}, slot : Slot, kind : Kind, carrier : Carrier, total : Nat]
    \cup [type : {"chunk"}, slot : Slot, data : Seq(Byte)]
    \cup [type : {"commit", "clear"}, slot : Slot]

\* Kind, carrier and length are those of one of the codes of slot s.
Announces(s, kind, carrier, len) ==
    \E c \in CodesOf(s) : kind = KindOf[c] /\ carrier = CarrierOf[c] /\ len = LenOf[c]

\* The frames the two senders make: bytes of codes of the slot they name, and
\* the header of such a code.
HonestFrame ==
    {m \in Frame :
        /\ m.type \in {"program", "chunk"} => m.data \in Seq(TokensOf(m.slot))
        /\ m.type = "program" => Announces(m.slot, m.kind, m.carrier, Len(m.data))
        /\ m.type = "begin" => Announces(m.slot, m.kind, m.carrier, m.total)}

\* The queues hold frames of honest senders, a slot of the master holds one of
\* its codes, and the sweep stays inside the slots.
ReplicationTypeOK ==
    /\ StoreTypeOK
    /\ mnvs \in [Slot -> {RecOf(c) : c \in MasterCode} \cup {Empty}]
    /\ \A s \in Slot : mnvs[s] # Empty =>
          \E c \in MasterCode \cap CodesOf(s) : mnvs[s] = RecOf(c)
    /\ sweep \in 0 .. SlotCount
    /\ hostTx \in Seq(HonestFrame)
    /\ net \in [Channel -> Seq(HonestFrame)]

\* No slot of the slave ever gets a byte of a code meant for another slot,
\* although all slots and both senders share one assembly, and whatever is
\* lost, repeated, reordered or forgotten in a reboot (espir_store.c:147, 157).
SlotIsolation ==
    \A s \in Slot : nvs[s] # Empty => nvs[s].blob \in Seq(TokensOf(s))

\* A record on the slave has the kind, the carrier and the length of one and
\* the same code of its slot, even when its bytes are of several: commit takes
\* these three from one begin and refuses any other number of bytes
\* (espir_store.c:158-159).
AnnouncedShape ==
    \A s \in Slot : nvs[s] # Empty =>
        Announces(s, nvs[s].kind, nvs[s].carrier, Len(nvs[s].blob))

Copy == INSTANCE EspirCopy WITH
    replica <- nvs,
    Offered <- [s \in Slot |-> {RecOf(c) : c \in CodesOf(s)}]

\* The slave implements EspirCopy: replication installs whole codes, one slot
\* at a time, and a copy that loses frames leaves the slot as it was.
ImplementsCopy == Copy!CopySpec

\* A copy whose frames are all in the master's queue reaches the slave.
InFlight(c) ==
    \E i, j \in 1 .. Len(net["master"]) :
        SubSeq(net["master"], i, j) = Frames(Home[c], RecOf(c), TxChunk)

CopyCompletes ==
    \A c \in MasterCode : InFlight(c) ~> nvs[Home[c]] = RecOf(c)
=============================================================================
