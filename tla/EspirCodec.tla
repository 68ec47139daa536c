----------------------------- MODULE EspirCodec -----------------------------
(***************************************************************************)
(* The life of a code: captured or programmed, compacted, stored, loaded   *)
(* and transmitted.  The algorithms of components/espir_codec and the      *)
(* transmit half of components/espir_ir, with durations in microseconds.   *)
(*                                                                         *)
(* A NEC frame has NecBits bits (32 in the code); they are kept as a       *)
(* sequence of bits and not packed into octets.  The RMT peripheral is     *)
(* external: it takes and gives pairs of a mark and a space, and a space   *)
(* of 0 ends a frame.                                                      *)
(***************************************************************************)
EXTENDS Naturals, Sequences, FiniteSets

CONSTANTS
    NecBits,      \* bits of a NEC frame
    RawMax,       \* ESPIR_RAW_MAX_SYMBOLS
    Captures,     \* envelopes on the air while a code is learned
    RawPrograms,  \* envelopes the host programs
    NecPrograms,  \* bits the host programs
    AskedCarrier  \* carriers it asks for, in kHz; 0 for the default

UintMax == 65535

Uint16 == 0 .. UintMax

RmtMax == 32767   \* RMT_DURATION_MAX

ASSUME CodecAssumption ==
    /\ NecBits \in Nat \ {0}
    /\ RawMax \in Nat /\ RawMax >= 2 * NecBits + 3

\* No envelope has a duration of 0.
ASSUME InputAssumption ==
    /\ Captures \subseteq Seq(1 .. RmtMax)
    /\ RawPrograms \subseteq Seq(Uint16 \ {0})
    /\ NecPrograms \subseteq [1 .. NecBits -> {0, 1}]
    /\ AskedCarrier \subseteq Nat

VARIABLES
    stage,        \* how far the code has come
    env,          \* history: the envelope it was given as
    asked,        \* history: the carrier that was asked for
    code,         \* espir_code_t
    blob,         \* the payload of the record, with its kind and carrier
    air,          \* s_tx_syms
    enabled,      \* whether the TX channel is enabled
    carrier       \* s_carrier_khz

codecVars == <<stage, env, asked, code, blob, air, enabled, carrier>>

-----------------------------------------------------------------------------
(* NEC                                                                     *)

HdrMark   == 9000
HdrSpace  == 4500
BitMark   == 560
OneSpace  == 1690
ZeroSpace == 560
SpaceMid  == (OneSpace + ZeroSpace) \div 2

NecSymbols == 2 + NecBits * 2 + 1

Match(v, target) ==
    v >= (target * 7) \div 10 /\ v <= (target * 13) \div 10

\* Variant: the stop mark must be there.
NecDecodableWhole(s) ==
    /\ Len(s) >= NecSymbols
    /\ Match(s[1], HdrMark)
    /\ Match(s[2], HdrSpace)
    /\ \A i \in 1 .. NecBits : Match(s[1 + 2 * i], BitMark)

\* Whether espir_nec_decode succeeds; a missing stop mark is tolerated.
NecDecodable(s) ==
    /\ Len(s) >= NecSymbols - 1
    /\ Match(s[1], HdrMark)
    /\ Match(s[2], HdrSpace)
    /\ \A i \in 1 .. NecBits : Match(s[1 + 2 * i], BitMark)

NecDecode(s) == [i \in 1 .. NecBits |-> IF s[2 + 2 * i] > SpaceMid THEN 1 ELSE 0]

NecEncode(bits) ==
    [k \in 1 .. NecSymbols |->
        CASE k = 1 -> HdrMark
          [] k = 2 -> HdrSpace
          [] k > 2 /\ k % 2 = 1 -> BitMark
          [] k > 2 /\ k % 2 = 0 ->
                IF bits[(k - 2) \div 2] = 1 THEN OneSpace ELSE ZeroSpace]

-----------------------------------------------------------------------------
(* Codes and blobs                                                         *)

DefaultCarrier == 38

RawCode(s, khz) == [kind |-> "raw", carrier |-> khz, symbols |-> s, nec |-> <<>>]

NecCode(bits, khz) == [kind |-> "nec", carrier |-> khz, symbols |-> <<>>, nec |-> bits]

NoCode == RawCode(<<>>, DefaultCarrier)

\* espir_code_try_compact
TryCompact(c) ==
    IF c.kind = "raw" /\ NecDecodable(c.symbols)
    THEN [c EXCEPT !.kind = "nec", !.nec = NecDecode(c.symbols)] ELSE c

\* Two octets for each duration, the lower one first
Octets(s) ==
    [k \in 1 .. 2 * Len(s) |->
        IF k % 2 = 1 THEN s[(k + 1) \div 2] % 256 ELSE s[k \div 2] \div 256]

\* espir_code_to_blob
ToBlob(c) == [kind |-> c.kind, carrier |-> c.carrier,
              data |-> IF c.kind = "nec" THEN c.nec ELSE Octets(c.symbols)]

Decodes(b) ==
    IF b.kind = "nec" THEN Len(b.data) >= NecBits
    ELSE Len(b.data) \in 2 .. 2 * RawMax /\ Len(b.data) % 2 = 0

\* Variant: the upper octet is taken first.
UnpackSwapped(d) == [i \in 1 .. Len(d) \div 2 |-> d[2 * i - 1] * 256 + d[2 * i]]

Unpack(d) == [i \in 1 .. Len(d) \div 2 |-> d[2 * i - 1] + d[2 * i] * 256]

\* espir_code_from_blob of a blob that decodes
FromBlob(b) ==
    LET khz == IF b.carrier = 0 THEN DefaultCarrier ELSE b.carrier
    IN  IF b.kind = "nec" THEN NecCode(SubSeq(b.data, 1, NecBits), khz)
        ELSE RawCode(Unpack(b.data), khz)

-----------------------------------------------------------------------------
(* RMT symbols                                                             *)

\* Variant: a duration is taken as it is.
ClampNone(d) == d

Clamp(d) == IF d > RmtMax THEN RmtMax ELSE d

\* pack_symbols: the last mark may have no space.
Pack(dur) ==
    [s \in 1 .. (Len(dur) + 1) \div 2 |->
        [mark  |-> Clamp(dur[2 * s - 1]),
         space |-> IF 2 * s <= Len(dur) THEN Clamp(dur[2 * s]) ELSE 0]]

\* The i-th of a set of places
Place(P, i) == CHOOSE k \in P : Cardinality({j \in P : j <= k}) = i

\* What espir_ir_receive makes of the symbols of a frame: the durations that are
\* not 0, in their order and as many as there is room for.
Flat(syms) ==
    LET all   == [k \in 1 .. 2 * Len(syms) |->
                     IF k % 2 = 1 THEN syms[(k + 1) \div 2].mark ELSE syms[k \div 2].space]
        taken == {k \in DOMAIN all : all[k] # 0}
        n     == Cardinality(taken)
    IN  [i \in 1 .. (IF n > RawMax THEN RawMax ELSE n) |-> all[Place(taken, i)]]

\* What espir_ir_send transmits
Durations(c) == IF c.kind = "nec" THEN NecEncode(c.nec) ELSE c.symbols

-----------------------------------------------------------------------------
(* Learning, storing and loading                                           *)

\* The receiver cannot tell the carrier.
Capture(e) ==
    /\ stage = "idle"
    /\ env' = Flat(Pack(e))
    /\ asked' = DefaultCarrier
    /\ code' = RawCode(env', DefaultCarrier)
    /\ stage' = IF Len(env') >= 2 THEN "captured" ELSE "idle"
    /\ UNCHANGED <<blob, air, enabled, carrier>>

Compact ==
    /\ stage = "captured"
    /\ code' = TryCompact(code)
    /\ stage' = "compacted"
    /\ UNCHANGED <<env, asked, blob, air, enabled, carrier>>

Save ==
    /\ stage = "compacted"
    /\ blob' = ToBlob(code)
    /\ stage' = "stored"
    /\ UNCHANGED <<env, asked, code, air, enabled, carrier>>

\* A PROGRAM of the host, or a copy of the master
ProgramRaw(e, khz) ==
    /\ stage = "idle"
    /\ env' = e
    /\ asked' = khz
    /\ blob' = [kind |-> "raw", carrier |-> khz, data |-> Octets(e)]
    /\ stage' = "stored"
    /\ UNCHANGED <<code, air, enabled, carrier>>

ProgramNec(bits, khz) ==
    /\ stage = "idle"
    /\ env' = NecEncode(bits)
    /\ asked' = khz
    /\ blob' = [kind |-> "nec", carrier |-> khz, data |-> bits]
    /\ stage' = "stored"
    /\ UNCHANGED <<code, air, enabled, carrier>>

LoadCode ==
    /\ stage = "stored"
    /\ IF Decodes(blob) THEN code' = FromBlob(blob) /\ stage' = "loaded"
                        ELSE stage' = "done" /\ UNCHANGED code
    /\ UNCHANGED <<env, asked, blob, air, enabled, carrier>>

-----------------------------------------------------------------------------
(* espir_ir_send                                                           *)

\* Variant: the carrier is left as it is.
SendKeepsCarrier ==
    /\ stage = "loaded"
    /\ ~enabled
    /\ air' = Pack(Durations(code))
    /\ enabled' = TRUE
    /\ stage' = "air"
    /\ UNCHANGED <<env, asked, code, blob, carrier>>

\* Up to rmt_transmit.  rmt_enable refuses a channel that is enabled already.
Send ==
    /\ stage = "loaded"
    /\ carrier' = IF code.carrier = 0 THEN DefaultCarrier ELSE code.carrier
    /\ air' = Pack(Durations(code))
    /\ IF enabled THEN stage' = "done" /\ UNCHANGED enabled
                  ELSE stage' = "air" /\ enabled' = TRUE
    /\ UNCHANGED <<env, asked, code, blob>>

\* The peripheral refuses the carrier; the one it had stays.
RefuseCarrier ==
    /\ stage = "loaded"
    /\ code.carrier \notin {0, carrier}
    /\ stage' = "done"
    /\ UNCHANGED <<env, asked, code, blob, air, enabled, carrier>>

\* Variant: a failed transmission leaves the channel enabled.
SendEndsOnSuccess ==
    /\ stage = "air"
    /\ \/ stage' = "loaded" /\ enabled' = FALSE
       \/ stage' = "done" /\ UNCHANGED enabled
    /\ UNCHANGED <<env, asked, code, blob, air, carrier>>

\* The transmission has ended: send_worker sends the frame again while the key
\* is held, or it has failed and send_worker gives up.
SendEnds ==
    /\ stage = "air"
    /\ enabled' = FALSE
    /\ stage' \in {"loaded", "done"}
    /\ UNCHANGED <<env, asked, code, blob, air, carrier>>

\* The burst is over, and another code follows.
Finish ==
    /\ stage \in {"loaded", "done"}
    /\ stage' = "idle"
    /\ env' = <<>> /\ asked' = DefaultCarrier
    /\ code' = NoCode /\ blob' = ToBlob(NoCode) /\ air' = <<>>
    /\ UNCHANGED <<enabled, carrier>>

-----------------------------------------------------------------------------

CodecInit ==
    /\ stage = "idle"
    /\ env = <<>> /\ asked = DefaultCarrier
    /\ code = NoCode /\ blob = ToBlob(NoCode) /\ air = <<>>
    /\ enabled = FALSE
    /\ carrier = DefaultCarrier

CodecNext ==
    \/ \E e \in Captures : Capture(e)
    \/ Compact
    \/ Save
    \/ \E e \in RawPrograms, khz \in AskedCarrier : ProgramRaw(e, khz)
    \/ \E bits \in NecPrograms, khz \in AskedCarrier : ProgramNec(bits, khz)
    \/ LoadCode
    \/ Send
    \/ RefuseCarrier
    \/ SendEnds
    \/ Finish

CodecSpec == CodecInit /\ [][CodecNext]_codecVars

-----------------------------------------------------------------------------
(* Properties                                                              *)

\* Every variable keeps its type and width: durations of 16 bits in a code, of
\* 15 bits in a symbol, octets or bits in a blob.
CodecTypeOK ==
    /\ stage \in {"idle", "captured", "compacted", "stored", "loaded", "air", "done"}
    /\ code.kind \in {"raw", "nec"}
    /\ code.symbols \in Seq(Uint16) /\ Len(code.symbols) <= RawMax
    /\ code.kind = "nec" => code.nec \in [1 .. NecBits -> {0, 1}]
    /\ blob.data \in Seq(0 .. 255)
    /\ air \in Seq([mark : 0 .. RmtMax, space : 0 .. RmtMax])
    /\ enabled \in BOOLEAN
    /\ {code.carrier, carrier} \subseteq Nat \ {0}

Far(v, t) == IF v > t THEN v - t ELSE t - v

\* v is the duration t of a NEC frame: within 30 %, or the nearer of the two
\* spaces of a bit.
SameSymbol(v, t, i) ==
    IF i > 2 /\ i % 2 = 0
    THEN \A u \in {OneSpace, ZeroSpace} : Far(v, t) <= Far(v, u)
    ELSE 10 * v >= 7 * t /\ 10 * v <= 13 * t

\* What goes on the air is what was captured or programmed: "NEC is re-encoded
\* to an envelope; RAW is replayed as-is" (espir_ir.h:18), and compacting loses
\* nothing: no duration is missing, but for the stop mark that a capture may
\* lack, and each reads as the same symbol.
FaithfulReplay ==
    stage = "air" =>
        LET sent == Flat(air)
        IN  IF code.kind = "raw"
            THEN sent = [i \in DOMAIN env |-> Clamp(env[i])]
            ELSE /\ Len(sent) \in {Len(env), Len(env) + 1}
                 /\ \A i \in DOMAIN env : SameSymbol(env[i], sent[i], i)

\* A frame that any NEC receiver would read is compacted: "NEC is
\* auto-compacted" (README.md:73).
IsNecFrame(e) ==
    /\ Len(e) \in {NecSymbols - 1, NecSymbols}
    /\ \E bits \in [1 .. NecBits -> {0, 1}] :
          \A i \in 1 .. NecSymbols - 1 :
             10 * e[i] >= 7 * NecEncode(bits)[i] /\ 10 * e[i] <= 13 * NecEncode(bits)[i]

NecIsCompacted ==
    stage = "compacted" /\ IsNecFrame(env) => code.kind = "nec"

\* The carrier on the air is the one that was asked for with this code, however
\* many codes with other carriers went before (s_carrier_khz, espir_ir.c:129).
CarrierIsAsked ==
    stage = "air" => carrier = IF asked = 0 THEN DefaultCarrier ELSE asked

\* The channel is enabled during a transmission and never between two, so that
\* the power-management lock lets a battery slave sleep (espir_ir.c:137-144).
ChannelReleased == enabled <=> stage = "air"
=============================================================================
