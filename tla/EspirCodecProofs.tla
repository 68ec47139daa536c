-------------------------- MODULE EspirCodecProofs --------------------------
(***************************************************************************)
(* What holds of the codec for frames of any number of bits, and of the    *)
(* transmitter for every sequence of codes.                                *)
(***************************************************************************)
EXTENDS EspirCodec, FiniteSetTheorems, SequenceTheorems, TLAPS

-----------------------------------------------------------------------------
(* The algorithms                                                          *)

\* A frame has at least one bit.
LEMMA SomeBits == NecBits \in Nat /\ NecBits > 0
  BY CodecAssumption

LEMMA Widths ==
    RmtMax \in Nat /\ UintMax \in Nat /\ RmtMax <= UintMax /\ RmtMax >= HdrMark
  BY DEF RmtMax, UintMax, HdrMark

LEMMA SixteenBits == ASSUME NEW d PROVE d \in Uint16 <=> d \in Nat /\ d <= UintMax
  BY Widths DEF Uint16

LEMMA DurationIsNat == ASSUME NEW s \in Seq(Uint16), NEW i \in 1 .. Len(s)
                       PROVE  s[i] \in Nat
<1>1. s[i] \in Uint16
  OBVIOUS
<1>2. Uint16 \subseteq Nat
  BY SixteenBits
<1>. QED  BY <1>1, <1>2

\* The place of bit i in a frame.
LEMMA BitPlace ==
    ASSUME NEW i \in 1 .. NecBits
    PROVE  /\ 1 + 2 * i \in 1 .. NecSymbols /\ 2 + 2 * i \in 1 .. NecSymbols
           /\ 1 + 2 * i > 2 /\ 2 + 2 * i > 2
           /\ (1 + 2 * i) % 2 = 1 /\ (2 + 2 * i) % 2 = 0
           /\ (2 + 2 * i - 2) \div 2 = i
  BY SomeBits DEF NecSymbols

\* What the encoder puts at each place.
LEMMA Encoded ==
    ASSUME NEW bits \in [1 .. NecBits -> {0, 1}]
    PROVE  /\ Len(NecEncode(bits)) = NecSymbols
           /\ NecEncode(bits)[1] = HdrMark
           /\ NecEncode(bits)[2] = HdrSpace
           /\ \A i \in 1 .. NecBits :
                 /\ NecEncode(bits)[1 + 2 * i] = BitMark
                 /\ NecEncode(bits)[2 + 2 * i] =
                       IF bits[i] = 1 THEN OneSpace ELSE ZeroSpace
           /\ NecEncode(bits)[NecSymbols] = BitMark
<1>1. NecSymbols \in Nat /\ NecSymbols > 2 /\ NecSymbols % 2 = 1
  BY SomeBits DEF NecSymbols
<1>2. Len(NecEncode(bits)) = NecSymbols
  BY <1>1 DEF NecEncode
<1>3. /\ NecEncode(bits)[1] = HdrMark
      /\ NecEncode(bits)[2] = HdrSpace
      /\ NecEncode(bits)[NecSymbols] = BitMark
  BY <1>1 DEF NecEncode
<1>4. ASSUME NEW i \in 1 .. NecBits
      PROVE  /\ NecEncode(bits)[1 + 2 * i] = BitMark
             /\ NecEncode(bits)[2 + 2 * i] = IF bits[i] = 1 THEN OneSpace ELSE ZeroSpace
  <2>. DEFINE m == 1 + 2 * i
              z == 2 + 2 * i
  <2>1. /\ m \in 1 .. NecSymbols /\ m > 2 /\ m % 2 = 1
        /\ z \in 1 .. NecSymbols /\ z > 2 /\ z % 2 = 0 /\ (z - 2) \div 2 = i
    BY BitPlace
  <2>. HIDE DEF m, z
  <2>2. m \in Int /\ z \in Int
    BY <1>1, <2>1
  <2>3. NecEncode(bits)[m] = BitMark
    BY <2>1, <2>2 DEF NecEncode
  <2>4. NecEncode(bits)[z] = IF bits[i] = 1 THEN OneSpace ELSE ZeroSpace
    BY <2>1, <2>2 DEF NecEncode
  <2>. QED  BY <2>3, <2>4 DEF m, z
<1>. QED  BY <1>2, <1>3, <1>4

\* A NEC code that was programmed is, after a round over the air, the same: the
\* decoder accepts what the encoder makes and finds the same bits in it
\* (espir_nec_decode, espir_nec_encode).
THEOREM NecRoundTrip ==
    ASSUME NEW bits \in [1 .. NecBits -> {0, 1}]
    PROVE  NecDecodable(NecEncode(bits)) /\ NecDecode(NecEncode(bits)) = bits
<1>1. NecDecodable(NecEncode(bits))
  <2>1. Match(HdrMark, HdrMark) /\ Match(HdrSpace, HdrSpace) /\ Match(BitMark, BitMark)
    BY DEF Match, HdrMark, HdrSpace, BitMark
  <2>2. Len(NecEncode(bits)) >= NecSymbols - 1
    BY Encoded, SomeBits DEF NecSymbols
  <2>. QED  BY <2>1, <2>2, Encoded DEF NecDecodable
<1>2. ASSUME NEW i \in 1 .. NecBits
      PROVE  NecDecode(NecEncode(bits))[i] = bits[i]
  <2>1. bits[i] \in {0, 1}
    OBVIOUS
  <2>2. OneSpace > SpaceMid /\ ~(ZeroSpace > SpaceMid)
    BY DEF OneSpace, ZeroSpace, SpaceMid
  <2>. QED  BY <2>1, <2>2, Encoded DEF NecDecode
<1>3. NecDecode(NecEncode(bits)) = [i \in 1 .. NecBits |-> NecDecode(NecEncode(bits))[i]]
  BY DEF NecDecode
<1>4. bits = [i \in 1 .. NecBits |-> bits[i]]
  OBVIOUS
<1>. QED  BY <1>1, <1>2, <1>3, <1>4

\* The octets of an envelope give the envelope back: espir_code_from_blob undoes
\* espir_code_to_blob for every envelope of 16-bit durations.
THEOREM RawRoundTrip ==
    ASSUME NEW s \in Seq(Uint16)
    PROVE  Unpack(Octets(s)) = s
<1>1. Len(Octets(s)) = 2 * Len(s) /\ Len(Octets(s)) \div 2 = Len(s)
  BY DEF Octets
<1>2. ASSUME NEW i \in 1 .. Len(s)
      PROVE  Unpack(Octets(s))[i] = s[i]
  <2>1. /\ 2 * i - 1 \in 1 .. 2 * Len(s) /\ 2 * i \in 1 .. 2 * Len(s)
        /\ (2 * i - 1) % 2 = 1 /\ (2 * i) % 2 # 1
        /\ ((2 * i - 1) + 1) \div 2 = i /\ (2 * i) \div 2 = i
    OBVIOUS
  <2>2. Octets(s)[2 * i - 1] = s[i] % 256 /\ Octets(s)[2 * i] = s[i] \div 256
    BY <2>1 DEF Octets
  <2>3. s[i] \in Nat
    BY DurationIsNat
  <2>4. (s[i] % 256) + (s[i] \div 256) * 256 = s[i]
    BY <2>3, SMT
  <2>. QED  BY <1>1, <2>2, <2>4 DEF Unpack
<1>3. Unpack(Octets(s)) = [i \in 1 .. Len(s) |-> Unpack(Octets(s))[i]]
  BY <1>1 DEF Unpack
<1>4. s = [i \in 1 .. Len(s) |-> s[i]]
  OBVIOUS
<1>. QED  BY <1>2, <1>3, <1>4

\* Compaction loses nothing of the bits of a frame that is no longer than NEC's:
\* whatever its durations, each up to the stop mark reads as the same symbol when
\* it is sent again, and only a missing stop mark is added (espir_code_try_compact,
\* espir_ir_send).  What comes after the bits the decoder does not look at.
THEOREM CompactionIsFaithful ==
    ASSUME NEW s \in Seq(Uint16), NecDecodable(s), Len(s) <= NecSymbols
    PROVE  LET sent == NecEncode(NecDecode(s))
           IN  /\ Len(sent) \in {Len(s), Len(s) + 1}
               /\ \A i \in 1 .. NecSymbols - 1 : SameSymbol(s[i], sent[i], i)
<1> DEFINE bits == NecDecode(s)
           sent == NecEncode(bits)
<1>1. bits \in [1 .. NecBits -> {0, 1}]
  BY DEF NecDecode
<1>2. Len(sent) \in {Len(s), Len(s) + 1}
  BY <1>1, Encoded, SomeBits DEF NecDecodable, NecSymbols
<1>3. ASSUME NEW i \in 1 .. NecSymbols - 1
      PROVE  SameSymbol(s[i], sent[i], i)
  <2>1. i \in 1 .. NecSymbols /\ i < NecSymbols /\ s[i] \in Nat
    BY SomeBits, DurationIsNat DEF NecDecodable, NecSymbols
  <2>2. CASE i = 1
    BY SMTT(30), <2>1, <2>2, <1>1, Encoded DEF NecDecodable, Match, SameSymbol, HdrMark
  <2>3. CASE i = 2
    BY SMTT(30), <2>1, <2>3, <1>1, Encoded DEF NecDecodable, Match, SameSymbol, HdrSpace
  <2>4. CASE i > 2 /\ i % 2 = 0
    <3>1. PICK b \in 1 .. NecBits : i = 2 + 2 * b
      <4>1. (i - 2) \div 2 \in 1 .. NecBits /\ i = 2 + 2 * ((i - 2) \div 2)
        BY <2>1, <2>4, SomeBits DEF NecSymbols
      <4>. QED  BY <4>1
    <3>2. sent[i] = IF s[i] > SpaceMid THEN OneSpace ELSE ZeroSpace
      <4>1. bits[b] = IF s[i] > SpaceMid THEN 1 ELSE 0
        BY <3>1 DEF NecDecode
      <4>2. sent[i] = IF bits[b] = 1 THEN OneSpace ELSE ZeroSpace
        BY <3>1, <1>1, Encoded
      <4>. QED  BY <4>1, <4>2
    <3>. QED  BY SMTT(30), <3>2, <2>1, <2>4 DEF SameSymbol, Far, SpaceMid, OneSpace, ZeroSpace
  <2>5. CASE i > 2 /\ i % 2 = 1
    <3>1. PICK b \in 1 .. NecBits : i = 1 + 2 * b
      <4>1. (i - 1) \div 2 \in 1 .. NecBits /\ i = 1 + 2 * ((i - 1) \div 2)
        BY <2>1, <2>5, SomeBits DEF NecSymbols
      <4>. QED  BY <4>1
    <3>2. sent[i] = BitMark /\ Match(s[i], BitMark)
      BY <3>1, <1>1, Encoded DEF NecDecodable
    <3>. QED  BY <3>2, <2>1, <2>5 DEF SameSymbol, Match, BitMark
  <2>. QED  BY <2>1, <2>2, <2>3, <2>4, <2>5
<1>. QED  BY <1>2, <1>3

-----------------------------------------------------------------------------
(* What the receiver makes of a frame that was packed                      *)

\* The envelopes of the code: no duration is 0 and each has 16 bits.
Envelopes == Seq(Uint16 \ {0})

\* An envelope as it is after a way over the air
Received(dur) ==
    [i \in 1 .. (IF Len(dur) > RawMax THEN RawMax ELSE Len(dur)) |-> Clamp(dur[i])]

LEMMA ConstantTypes == RawMax \in Nat /\ NecSymbols \in Nat /\ NecSymbols >= 5 /\ NecSymbols <= RawMax
  BY CodecAssumption DEF NecSymbols

LEMMA ClampRange ==
    ASSUME NEW d \in Nat, d > 0
    PROVE  Clamp(d) \in Nat /\ Clamp(d) > 0 /\ Clamp(d) <= RmtMax /\ (d <= RmtMax => Clamp(d) = d)
  BY Widths DEF Clamp, HdrMark

LEMMA DurationRange ==
    ASSUME NEW dur \in Envelopes, NEW i \in 1 .. Len(dur)
    PROVE  /\ dur[i] \in Nat /\ dur[i] > 0
           /\ Clamp(dur[i]) \in Nat /\ Clamp(dur[i]) > 0 /\ Clamp(dur[i]) <= RmtMax
           /\ dur[i] <= RmtMax => Clamp(dur[i]) = dur[i]
<1>1. dur[i] \in Uint16 \ {0}
  BY DEF Envelopes
<1>2. dur[i] \in Nat /\ dur[i] > 0
  BY <1>1, SixteenBits, Widths
<1>. QED  BY <1>2, ClampRange

LEMMA CountPrefix == ASSUME NEW n \in Nat PROVE Cardinality(1 .. n) = n
<1>1. Cardinality(1 .. n) = IF 1 > n THEN 0 ELSE n - 1 + 1
  BY FS_Interval
<1>. QED  BY <1>1

\* Places that have no gap are counted by themselves.
LEMMA PlaceOfPrefix ==
    ASSUME NEW n \in Nat, NEW i \in 1 .. n
    PROVE  Place(1 .. n, i) = i
<1>1. ASSUME NEW k \in 1 .. n
      PROVE  Cardinality({j \in 1 .. n : j <= k}) = k
  <2>1. {j \in 1 .. n : j <= k} = 1 .. k
    OBVIOUS
  <2>2. Cardinality(1 .. k) = k
    BY CountPrefix
  <2>. QED  BY <2>1, <2>2
<1>2. Place(1 .. n, i) = CHOOSE k \in 1 .. n : k = i
  BY <1>1 DEF Place
<1>. QED  BY <1>2

\* The peripheral's symbols of an envelope: its durations in pairs, clamped, and
\* nothing but the space after the last mark is 0.
LEMMA Packed ==
    ASSUME NEW dur \in Envelopes, NEW s \in 1 .. (Len(dur) + 1) \div 2
    PROVE  /\ Len(Pack(dur)) = (Len(dur) + 1) \div 2
           /\ Pack(dur)[s].mark = Clamp(dur[2 * s - 1])
           /\ Pack(dur)[s].space = IF 2 * s <= Len(dur) THEN Clamp(dur[2 * s]) ELSE 0
  BY DEF Pack, Envelopes

LEMMA PackTypes ==
    ASSUME NEW dur \in Envelopes
    PROVE  Pack(dur) \in Seq([mark : 0 .. RmtMax, space : 0 .. RmtMax])
<1>1. (Len(dur) + 1) \div 2 \in Nat
  BY DEF Envelopes
<1>2. ASSUME NEW s \in 1 .. (Len(dur) + 1) \div 2
      PROVE  [mark  |-> Clamp(dur[2 * s - 1]),
              space |-> IF 2 * s <= Len(dur) THEN Clamp(dur[2 * s]) ELSE 0]
                \in [mark : 0 .. RmtMax, space : 0 .. RmtMax]
  <2>1. Len(dur) \in Nat /\ 2 * s - 1 \in 1 .. Len(dur)
    BY DEF Envelopes
  <2>2. ASSUME NEW i \in 1 .. Len(dur) PROVE Clamp(dur[i]) \in 0 .. RmtMax
    BY DurationRange, Widths
  <2>3. 0 \in 0 .. RmtMax
    BY Widths
  <2>4. (IF 2 * s <= Len(dur) THEN Clamp(dur[2 * s]) ELSE 0) \in 0 .. RmtMax
    BY <2>1, <2>2, <2>3
  <2>. QED  BY <2>1, <2>2, <2>4
<1>. QED  BY <1>1, <1>2 DEF Pack

\* Nothing of an envelope that fits the buffer is lost on its way through the
\* peripheral and back (pack_symbols, espir_ir_receive).
LEMMA FlatOfPack ==
    ASSUME NEW dur \in Envelopes
    PROVE  Flat(Pack(dur)) = Received(dur)
<1>. DEFINE syms == Pack(dur)
            all  == [k \in 1 .. 2 * Len(syms) |->
                        IF k % 2 = 1 THEN syms[(k + 1) \div 2].mark ELSE syms[k \div 2].space]
            taken == {k \in DOMAIN all : all[k] # 0}
<1>1. Len(dur) \in Nat /\ RawMax \in Nat
  BY ConstantTypes DEF Envelopes
<1>2. Len(syms) = (Len(dur) + 1) \div 2
  BY <1>1 DEF Pack
<1>3. ASSUME NEW k \in 1 .. Len(dur)
      PROVE  k \in DOMAIN all /\ all[k] = Clamp(dur[k]) /\ all[k] # 0
  <2>1. k \in 1 .. 2 * Len(syms)
    BY <1>1, <1>2
  <2>2. CASE k % 2 = 1
    <3>1. (k + 1) \div 2 \in 1 .. (Len(dur) + 1) \div 2 /\ 2 * ((k + 1) \div 2) - 1 = k
      BY <1>1, <2>2
    <3>2. syms[(k + 1) \div 2].mark = Clamp(dur[k])
      BY <3>1, Packed
    <3>. QED  BY <2>1, <2>2, <3>2, DurationRange
  <2>3. CASE k % 2 = 0
    <3>1. k \div 2 \in 1 .. (Len(dur) + 1) \div 2 /\ 2 * (k \div 2) = k
      BY <1>1, <2>3
    <3>2. syms[k \div 2].space = Clamp(dur[k])
      BY SMTT(30), <3>1, Packed
    <3>. QED  BY <2>1, <2>3, <3>2, DurationRange
  <2>. QED  BY <1>1, <2>2, <2>3
<1>4. ASSUME NEW k \in DOMAIN all, k \notin 1 .. Len(dur)
      PROVE  all[k] = 0
  <2>1. k \in 1 .. 2 * ((Len(dur) + 1) \div 2) /\ k > Len(dur)
    BY <1>1, <1>2, <1>4
  <2>2. k % 2 # 1 /\ k \div 2 \in 1 .. (Len(dur) + 1) \div 2 /\ 2 * (k \div 2) = k
    BY <1>1, <2>1
  <2>3. syms[k \div 2].space = 0
    BY SMTT(30), <1>1, <2>1, <2>2, Packed
  <2>. QED  BY <2>2, <2>3
<1>5. taken = 1 .. Len(dur)
  BY <1>3, <1>4
<1>6. Cardinality(taken) = Len(dur)
  <2>1. Cardinality(1 .. Len(dur)) = Len(dur)
    BY <1>1, CountPrefix
  <2>. QED  BY <1>5, <2>1
<1>7. ASSUME NEW i \in 1 .. (IF Len(dur) > RawMax THEN RawMax ELSE Len(dur))
      PROVE  all[Place(taken, i)] = Clamp(dur[i])
  <2>1. i \in 1 .. Len(dur)
    BY <1>1
  <2>2. Place(taken, i) = i
    BY <1>1, <1>5, <2>1, PlaceOfPrefix
  <2>. QED  BY <1>3, <2>1, <2>2
<1>8. Flat(syms) = [i \in 1 .. (IF Cardinality(taken) > RawMax THEN RawMax ELSE Cardinality(taken))
                        |-> all[Place(taken, i)]]
  BY DEF Flat
<1>. HIDE DEF taken, all, syms
<1>9. Flat(syms) = Received(dur)
  BY <1>6, <1>7, <1>8 DEF Received
<1>. QED  BY <1>9 DEF syms

\* What is received is an envelope again, and one that has no duration beyond
\* the peripheral's and fits the buffer has not changed.
LEMMA ReceivedTypes ==
    ASSUME NEW dur \in Envelopes
    PROVE  /\ Received(dur) \in Envelopes
           /\ Len(Received(dur)) = IF Len(dur) > RawMax THEN RawMax ELSE Len(dur)
           /\ \A i \in DOMAIN Received(dur) : Received(dur)[i] = Clamp(dur[i])
           /\ Len(dur) <= RawMax /\ (\A i \in 1 .. Len(dur) : dur[i] <= RmtMax)
                 => Received(dur) = dur
<1>. DEFINE n == IF Len(dur) > RawMax THEN RawMax ELSE Len(dur)
<1>1. n \in Nat /\ n <= Len(dur)
  BY ConstantTypes DEF Envelopes
<1>2. ASSUME NEW i \in 1 .. n PROVE Clamp(dur[i]) \in Uint16 \ {0}
  <2>1. i \in 1 .. Len(dur)
    BY <1>1 DEF Envelopes
  <2>. QED  BY <2>1, DurationRange, SixteenBits, Widths
<1>3. Received(dur) = [i \in 1 .. n |-> Clamp(dur[i])]
  BY DEF Received
<1>. HIDE DEF n
<1>4. Received(dur) \in Envelopes /\ Len(Received(dur)) = n
  BY <1>1, <1>2, <1>3 DEF Envelopes
<1>5. ASSUME Len(dur) <= RawMax, \A i \in 1 .. Len(dur) : dur[i] <= RmtMax
      PROVE  Received(dur) = dur
  <2>1. n = Len(dur) /\ dur = [i \in 1 .. Len(dur) |-> dur[i]]
    BY <1>5, ConstantTypes DEF n, Envelopes
  <2>2. ASSUME NEW i \in 1 .. Len(dur) PROVE Clamp(dur[i]) = dur[i]
    BY <1>5, DurationRange
  <2>. QED  BY <1>3, <2>1, <2>2
<1>. QED  BY <1>3, <1>4, <1>5 DEF n

-----------------------------------------------------------------------------
(* The types of what the conversions make                                  *)

Octet == 0 .. 255

LEMMA EightBits == ASSUME NEW d PROVE d \in Octet <=> d \in Nat /\ d <= 255
<1>. DEFINE m == 255
<1>1. m \in Nat
  OBVIOUS
<1>2. Octet = 0 .. m
  BY DEF Octet
<1>3. 255 = m
  OBVIOUS
<1>. HIDE DEF m
<1>4. d \in 0 .. m <=> d \in Nat /\ d <= m
  BY <1>1
<1>. QED  BY <1>2, <1>3, <1>4, Zenon

LEMMA OctetTypes ==
    ASSUME NEW s \in Seq(Uint16)
    PROVE  Octets(s) \in Seq(Octet) /\ Len(Octets(s)) = 2 * Len(s)
<1>1. ASSUME NEW d \in Uint16 PROVE d % 256 \in Octet /\ d \div 256 \in Octet
  <2>1. d \in Nat /\ d <= 65535
    BY SixteenBits DEF UintMax
  <2>2. d % 256 \in Nat /\ d % 256 <= 255 /\ d \div 256 \in Nat /\ d \div 256 <= 255
    BY <2>1
  <2>. QED  BY <2>2, EightBits
<1>2. ASSUME NEW k \in 1 .. 2 * Len(s)
      PROVE  (IF k % 2 = 1 THEN s[(k + 1) \div 2] % 256 ELSE s[k \div 2] \div 256) \in Octet
  <2>1. CASE k % 2 = 1
    <3>1. (k + 1) \div 2 \in 1 .. Len(s)
      BY <2>1
    <3>. QED  BY <1>1, <2>1, <3>1
  <2>2. CASE k % 2 # 1
    <3>1. k \div 2 \in 1 .. Len(s)
      BY <2>2
    <3>. QED  BY <1>1, <2>2, <3>1
  <2>. QED  BY <2>1, <2>2
<1>. QED  BY <1>2 DEF Octets

LEMMA UnpackTypes ==
    ASSUME NEW d \in Seq(Octet), Len(d) \in 2 .. 2 * RawMax
    PROVE  Unpack(d) \in Seq(Uint16) /\ Len(Unpack(d)) = Len(d) \div 2 /\ Len(Unpack(d)) <= RawMax
<1>1. Len(d) \div 2 \in Nat /\ Len(d) \div 2 <= RawMax
  BY ConstantTypes
<1>2. ASSUME NEW i \in 1 .. Len(d) \div 2 PROVE d[2 * i - 1] + d[2 * i] * 256 \in Uint16
  <2>1. 2 * i - 1 \in 1 .. Len(d) /\ 2 * i \in 1 .. Len(d)
    OBVIOUS
  <2>2. d[2 * i - 1] \in Octet /\ d[2 * i] \in Octet
    BY <2>1
  <2>3. d[2 * i - 1] + d[2 * i] * 256 \in Nat /\ d[2 * i - 1] + d[2 * i] * 256 <= UintMax
    <3>1. /\ d[2 * i - 1] \in Nat /\ d[2 * i - 1] <= 255
          /\ d[2 * i] \in Nat /\ d[2 * i] <= 255
      BY <2>2, EightBits
    <3>2. /\ d[2 * i - 1] + d[2 * i] * 256 \in Nat
          /\ d[2 * i - 1] + d[2 * i] * 256 <= 65535
      <4>. DEFINE low == d[2 * i - 1]
                  high == d[2 * i]
      <4>1. low \in Nat /\ high \in Nat /\ low <= 255 /\ high <= 255
        BY <3>1
      <4>. HIDE DEF low, high
      <4>2. low + high * 256 \in Nat /\ low + high * 256 <= 65535
        BY <4>1
      <4>. QED  BY <4>2 DEF low, high
    <3>. QED  BY <3>2 DEF UintMax
  <2>. QED  BY <2>3, SixteenBits
<1>. QED  BY <1>1, <1>2 DEF Unpack

Bits == [1 .. NecBits -> {0, 1}]

LEMMA DecodeTypes == ASSUME NEW s PROVE NecDecode(s) \in Bits
  BY DEF NecDecode, Bits

LEMMA BitsAreOctets ==
    ASSUME NEW bits \in Bits
    PROVE  bits \in Seq(Octet) /\ Len(bits) = NecBits /\ SubSeq(bits, 1, NecBits) = bits
<1>1. bits \in Seq({0, 1}) /\ Len(bits) = NecBits
  BY SomeBits DEF Bits
<1>2. bits \in Seq(Octet)
  <2>1. 0 \in Octet /\ 1 \in Octet
    BY EightBits
  <2>. QED  BY <1>1, <2>1, SeqMonotonic
<1>3. SubSeq(bits, 1, NecBits) = bits
  BY <1>1, SubSeqFull
<1>. QED  BY <1>1, <1>2, <1>3

\* A frame of the encoder goes through the peripheral as it is.
LEMMA EncodeTypes ==
    ASSUME NEW bits \in Bits
    PROVE  /\ NecEncode(bits) \in Envelopes /\ Len(NecEncode(bits)) = NecSymbols
           /\ \A i \in 1 .. NecSymbols : NecEncode(bits)[i] <= RmtMax
           /\ Received(NecEncode(bits)) = NecEncode(bits)
<1>1. ASSUME NEW d \in {HdrMark, HdrSpace, BitMark, OneSpace, ZeroSpace}
      PROVE  d \in Uint16 \ {0} /\ d <= RmtMax
  <2>1. d \in Nat /\ d > 0 /\ d <= HdrMark
    BY DEF HdrMark, HdrSpace, BitMark, OneSpace, ZeroSpace
  <2>2. d <= RmtMax /\ d <= UintMax
    BY <2>1, Widths DEF HdrMark
  <2>. QED  BY <2>1, <2>2, SixteenBits
<1>2. ASSUME NEW k \in 1 .. NecSymbols
      PROVE  NecEncode(bits)[k] \in {HdrMark, HdrSpace, BitMark, OneSpace, ZeroSpace}
  <2>1. k = 1 \/ k = 2 \/ (k > 2 /\ k % 2 = 1) \/ (k > 2 /\ k % 2 = 0)
    BY ConstantTypes
  <2>. QED  BY <2>1 DEF NecEncode
<1>3. Len(NecEncode(bits)) = NecSymbols
  BY Encoded DEF Bits
<1>4. NecEncode(bits) = [k \in 1 .. NecSymbols |-> NecEncode(bits)[k]]
  BY DEF NecEncode
<1>5. NecEncode(bits) \in Envelopes
  <2>1. ASSUME NEW k \in 1 .. NecSymbols PROVE NecEncode(bits)[k] \in Uint16 \ {0}
    BY <1>1, <1>2
  <2>. QED  BY <1>4, <2>1, ConstantTypes DEF Envelopes
<1>6. \A i \in 1 .. NecSymbols : NecEncode(bits)[i] <= RmtMax
  BY <1>1, <1>2
<1>7. Received(NecEncode(bits)) = NecEncode(bits)
  BY <1>3, <1>5, <1>6, ConstantTypes, ReceivedTypes
<1>. QED  BY <1>3, <1>5, <1>6, <1>7

-----------------------------------------------------------------------------
(* The transmitter                                                         *)

\* The TX channel is enabled during a transmission only, after any number of
\* codes, refused carriers and failed transmissions (espir_ir.c:137-144).
THEOREM ChannelIsReleased == CodecSpec => []ChannelReleased
<1>1. CodecInit => ChannelReleased
  BY DEF CodecInit, ChannelReleased
<1>2. ChannelReleased /\ [CodecNext]_codecVars => ChannelReleased'
  <2> SUFFICES ASSUME ChannelReleased, [CodecNext]_codecVars
               PROVE  ChannelReleased'
    OBVIOUS
  <2> USE DEF ChannelReleased
  <2>1. ASSUME NEW e \in Captures, Capture(e) PROVE ChannelReleased'
    BY <2>1 DEF Capture
  <2>2. CASE Compact
    BY <2>2 DEF Compact
  <2>3. CASE Save
    BY <2>3 DEF Save
  <2>4. ASSUME NEW e \in RawPrograms, NEW khz \in AskedCarrier, ProgramRaw(e, khz)
        PROVE  ChannelReleased'
    BY <2>4 DEF ProgramRaw
  <2>5. ASSUME NEW bits \in NecPrograms, NEW khz \in AskedCarrier, ProgramNec(bits, khz)
        PROVE  ChannelReleased'
    BY <2>5 DEF ProgramNec
  <2>6. CASE LoadCode
    BY <2>6 DEF LoadCode
  <2>7. CASE Send
    BY <2>7 DEF Send
  <2>8. CASE RefuseCarrier
    BY <2>8 DEF RefuseCarrier
  <2>9. CASE SendEnds
    BY <2>9 DEF SendEnds
  <2>10. CASE Finish
    BY <2>10 DEF Finish
  <2>11. CASE UNCHANGED codecVars
    BY <2>11 DEF codecVars
  <2>. QED  BY <2>1, <2>2, <2>3, <2>4, <2>5, <2>6, <2>7, <2>8, <2>9, <2>10, <2>11 DEF CodecNext
<1>. QED  BY <1>1, <1>2, PTL DEF CodecSpec

\* The carrier that a request for khz stands for.
Wanted(khz) == IF khz = 0 THEN DefaultCarrier ELSE khz

CodeFields == {"kind", "carrier", "symbols", "nec"}

\* Where the carrier that was asked for is kept on its way to the peripheral.
CarrierInv ==
    /\ stage \in {"idle", "captured", "compacted", "stored", "loaded", "air", "done"}
    /\ stage \in {"captured", "compacted"} => DOMAIN code = CodeFields
    /\ stage \in {"captured", "compacted", "loaded", "air"} => code.carrier = Wanted(asked)
    /\ stage = "stored" => Wanted(blob.carrier) = Wanted(asked)
    /\ stage = "air" => carrier = Wanted(asked)

LEMMA WantedTwice == ASSUME NEW khz PROVE Wanted(Wanted(khz)) = Wanted(khz)
  BY DEF Wanted, DefaultCarrier

LEMMA LoadedCarrier == ASSUME NEW b PROVE FromBlob(b).carrier = Wanted(b.carrier)
  BY DEF FromBlob, NecCode, RawCode, Wanted

\* Whatever codes with whatever carriers went before, and whichever of them the
\* peripheral refused, a code is sent with its own (espir_ir.c:127-132).
THEOREM CarrierIsAlwaysAsked == CodecSpec => []CarrierIsAsked
<1>1. CodecInit => CarrierInv
  BY DEF CodecInit, CarrierInv
<1>2. CarrierInv /\ [CodecNext]_codecVars => CarrierInv'
  <2> SUFFICES ASSUME CarrierInv, [CodecNext]_codecVars
               PROVE  CarrierInv'
    OBVIOUS
  <2>1. ASSUME NEW e \in Captures, Capture(e) PROVE CarrierInv'
    <3>1. /\ code' = RawCode(env', DefaultCarrier) /\ asked' = DefaultCarrier
          /\ stage' \in {"captured", "idle"}
      BY <2>1 DEF Capture
    <3>2. code'.carrier = Wanted(asked')
      BY <3>1 DEF RawCode, Wanted, DefaultCarrier
    <3>3. DOMAIN code' = CodeFields
      BY <3>1 DEF RawCode, CodeFields
    <3>. QED  BY <3>1, <3>2, <3>3 DEF CarrierInv
  <2>2. CASE Compact
    <3>1. TryCompact(code).carrier = code.carrier
      BY <2>2 DEF Compact, TryCompact, CarrierInv, CodeFields
    <3>2. DOMAIN code' = CodeFields
      BY <2>2 DEF Compact, TryCompact, CarrierInv, CodeFields
    <3>. QED  BY <2>2, <3>1, <3>2 DEF Compact, CarrierInv
  <2>3. CASE Save
    BY <2>3, WantedTwice DEF Save, ToBlob, CarrierInv
  <2>4. ASSUME NEW e \in RawPrograms, NEW khz \in AskedCarrier, ProgramRaw(e, khz)
        PROVE  CarrierInv'
    BY <2>4 DEF ProgramRaw, CarrierInv
  <2>5. ASSUME NEW bits \in NecPrograms, NEW khz \in AskedCarrier, ProgramNec(bits, khz)
        PROVE  CarrierInv'
    BY <2>5 DEF ProgramNec, CarrierInv
  <2>6. CASE LoadCode
    BY <2>6, LoadedCarrier DEF LoadCode, CarrierInv
  <2>7. CASE Send
    <3>1. carrier' = Wanted(code.carrier)
      BY <2>7 DEF Send, Wanted
    <3>. QED  BY <2>7, <3>1, WantedTwice DEF Send, CarrierInv
  <2>8. CASE RefuseCarrier
    BY <2>8 DEF RefuseCarrier, CarrierInv
  <2>9. CASE SendEnds
    BY <2>9 DEF SendEnds, CarrierInv
  <2>10. CASE Finish
    BY <2>10 DEF Finish, CarrierInv
  <2>11. CASE UNCHANGED codecVars
    BY <2>11 DEF codecVars, CarrierInv
  <2>. QED  BY <2>1, <2>2, <2>3, <2>4, <2>5, <2>6, <2>7, <2>8, <2>9, <2>10, <2>11 DEF CodecNext
<1>3. CarrierInv => CarrierIsAsked
  BY DEF CarrierInv, CarrierIsAsked, Wanted
<1>. QED  BY <1>1, <1>2, <1>3, PTL DEF CodecSpec

-----------------------------------------------------------------------------
(* What a code carries on its way                                          *)

Carrier == Nat \ {0}

Codes == [kind : {"raw", "nec"}, carrier : Carrier, symbols : Seq(Uint16), nec : Seq({0, 1})]

Blobs == [kind : {"raw", "nec"}, carrier : Nat, data : Seq(Octet)]

Symbols == [mark : 0 .. RmtMax, space : 0 .. RmtMax]

CodecTypes ==
    /\ stage \in {"idle", "captured", "compacted", "stored", "loaded", "air", "done"}
    /\ code \in Codes /\ Len(code.symbols) <= RawMax
    /\ code.kind = "nec" => code.nec \in Bits
    /\ blob \in Blobs
    /\ blob.kind = "nec" => blob.data \in Bits
    /\ air \in Seq(Symbols)
    /\ enabled \in BOOLEAN
    /\ carrier \in Carrier
    /\ env \in Envelopes /\ asked \in Nat

\* What the receiver may return, and what may be sent as NEC
Taken == {Received(e) : e \in Captures}

Frames == Taken \cup {NecEncode(bits) : bits \in Bits}

\* The bits stand for the envelope the code was given as.
Means(bits) == env \in Frames /\ NecDecodable(env) /\ bits = NecDecode(env)

\* At each stage the code is, in one form or another, the one that was given.
SameCode ==
    /\ stage \in {"captured", "compacted"} =>
          env \in Taken /\ Len(env) <= RawMax
    /\ stage = "captured" => code = RawCode(env, DefaultCarrier)
    /\ stage = "compacted" => code = TryCompact(RawCode(env, DefaultCarrier))
    /\ stage = "stored" =>
          IF blob.kind = "nec" THEN Means(blob.data) ELSE blob.data = Octets(env)
    /\ stage \in {"loaded", "air"} =>
          IF code.kind = "nec" THEN Means(code.nec) ELSE code.symbols = env
    /\ stage = "air" => air = Pack(Durations(code))

CodecInv == CodecTypes /\ SameCode

LEMMA EnvelopeIsSeq == ASSUME NEW e \in Envelopes PROVE e \in Seq(Uint16)
  BY SeqMonotonic DEF Envelopes

\* An envelope on the air is one that the code can hold.
LEMMA CaptureIsEnvelope ==
    ASSUME NEW e \in Captures
    PROVE  e \in Envelopes /\ \A i \in 1 .. Len(e) : e[i] <= RmtMax
<1>1. e \in Seq(1 .. RmtMax)
  BY InputAssumption
<1>2. ASSUME NEW d \in 1 .. RmtMax PROVE d \in Uint16 \ {0}
  BY Widths, SixteenBits
<1>3. 1 .. RmtMax \subseteq Uint16 \ {0}
  BY <1>2
<1>. QED  BY <1>1, <1>3, Widths, SeqMonotonic DEF Envelopes

LEMMA TakenTypes ==
    ASSUME NEW e \in Captures
    PROVE  /\ Flat(Pack(e)) \in Taken /\ Flat(Pack(e)) \in Envelopes
           /\ Len(Flat(Pack(e))) <= RawMax
<1>1. Flat(Pack(e)) = Received(e)
  BY CaptureIsEnvelope, FlatOfPack
<1>2. Len(e) \in Nat
  BY CaptureIsEnvelope DEF Envelopes
<1>. QED  BY <1>1, <1>2, CaptureIsEnvelope, ReceivedTypes, ConstantTypes DEF Taken

LEMMA RawTypes ==
    ASSUME NEW s \in Seq(Uint16), NEW khz \in Carrier
    PROVE  /\ RawCode(s, khz) \in Codes
           /\ RawCode(s, khz).symbols = s /\ RawCode(s, khz).kind = "raw"
  BY EmptySeq DEF RawCode, Codes

LEMMA NecTypes ==
    ASSUME NEW bits \in Bits, NEW khz \in Carrier
    PROVE  /\ NecCode(bits, khz) \in Codes /\ NecCode(bits, khz).symbols = <<>>
           /\ NecCode(bits, khz).nec = bits /\ NecCode(bits, khz).kind = "nec"
<1>1. bits \in Seq({0, 1})
  BY SomeBits DEF Bits
<1>. QED  BY <1>1, EmptySeq DEF NecCode, Codes

LEMMA CarrierTypes ==
    /\ DefaultCarrier \in Carrier /\ DefaultCarrier \in Nat
    /\ \A khz \in Nat : Wanted(khz) \in Carrier
  BY DEF DefaultCarrier, Carrier, Wanted

\* What try_compact leaves and what it changes
LEMMA CompactTypes ==
    ASSUME NEW s \in Seq(Uint16), NEW khz \in Carrier
    PROVE  LET c == TryCompact(RawCode(s, khz))
           IN  /\ c \in Codes /\ c.symbols = s
               /\ c.kind = IF NecDecodable(s) THEN "nec" ELSE "raw"
               /\ c.kind = "nec" => c.nec = NecDecode(s) /\ c.nec \in Bits
<1>. DEFINE c == RawCode(s, khz)
<1>1. /\ c \in Codes /\ c.symbols = s /\ c.kind = "raw"
  BY RawTypes
<1>2. NecDecode(s) \in Bits /\ NecDecode(s) \in Seq({0, 1})
  BY DecodeTypes, SomeBits DEF Bits
<1>. HIDE DEF c
<1>3. CASE NecDecodable(s)
  <2>1. TryCompact(c) = [c EXCEPT !.kind = "nec", !.nec = NecDecode(s)]
    BY <1>1, <1>3 DEF TryCompact
  <2>. QED  BY <1>1, <1>2, <1>3, <2>1 DEF Codes, c
<1>4. CASE ~NecDecodable(s)
  BY <1>1, <1>4 DEF TryCompact, c
<1>. QED  BY <1>3, <1>4

\* A blob that stands for the envelope loads as a code that does.
LEMMA LoadTypes ==
    ASSUME NEW b \in Blobs, Decodes(b), b.kind = "nec" => b.data \in Bits
    PROVE  LET c == FromBlob(b)
           IN  /\ c \in Codes /\ Len(c.symbols) <= RawMax /\ c.kind = b.kind
               /\ IF c.kind = "nec" THEN c.nec = b.data ELSE c.symbols = Unpack(b.data)
<1>1. b.carrier \in Nat /\ b.data \in Seq(Octet) /\ b.kind \in {"raw", "nec"}
  BY DEF Blobs
<1>2. Wanted(b.carrier) \in Carrier
  BY <1>1, CarrierTypes
<1>3. CASE b.kind = "nec"
  <2>1. FromBlob(b) = NecCode(b.data, Wanted(b.carrier))
    BY <1>3, BitsAreOctets DEF FromBlob, Wanted
  <2>. QED  BY <1>2, <1>3, <2>1, NecTypes, EmptySeq, ConstantTypes
<1>4. CASE b.kind = "raw"
  <2>1. FromBlob(b) = RawCode(Unpack(b.data), Wanted(b.carrier))
    BY <1>4 DEF FromBlob, Wanted
  <2>2. Unpack(b.data) \in Seq(Uint16) /\ Len(Unpack(b.data)) <= RawMax
    BY <1>1, <1>4, UnpackTypes DEF Decodes
  <2>. QED  BY <1>2, <1>4, <2>1, <2>2, RawTypes
<1>. QED  BY <1>1, <1>3, <1>4

\* A NEC code that is programmed means the frame it is sent as.
LEMMA ProgrammedFrame ==
    ASSUME NEW bits \in Bits
    PROVE  /\ NecEncode(bits) \in Frames /\ NecDecodable(NecEncode(bits))
           /\ bits = NecDecode(NecEncode(bits))
  BY NecRoundTrip DEF Bits, Frames

LEMMA ProgramBits == ASSUME NEW bits \in NecPrograms PROVE bits \in Bits
  BY InputAssumption DEF Bits

\* No code has been given yet, or the one before is forgotten.
LEMMA NothingCarried ==
    /\ NoCode \in Codes /\ Len(NoCode.symbols) <= RawMax /\ NoCode.kind = "raw"
    /\ ToBlob(NoCode) \in Blobs /\ ToBlob(NoCode).kind = "raw"
    /\ <<>> \in Envelopes /\ <<>> \in Seq(Symbols)
<1>1. <<>> \in Seq(Uint16) /\ Len(<<>>) = 0 /\ <<>> \in Envelopes /\ <<>> \in Seq(Symbols)
  BY EmptySeq DEF Envelopes
<1>2. NoCode = RawCode(<<>>, DefaultCarrier)
  BY DEF NoCode
<1>3. NoCode \in Codes /\ NoCode.symbols = <<>> /\ NoCode.kind = "raw"
  BY <1>1, <1>2, RawTypes, CarrierTypes
<1>4. NoCode.carrier = DefaultCarrier
  BY <1>2 DEF RawCode
<1>5. ToBlob(NoCode) = [kind |-> "raw", carrier |-> DefaultCarrier, data |-> Octets(<<>>)]
  BY <1>3, <1>4 DEF ToBlob
<1>6. Octets(<<>>) \in Seq(Octet)
  BY <1>1, OctetTypes
<1>. QED  BY <1>1, <1>3, <1>5, <1>6, CarrierTypes, ConstantTypes DEF Blobs

LEMMA InitCarries == CodecInit => CodecInv
<1> SUFFICES ASSUME CodecInit PROVE CodecInv
  OBVIOUS
<1>1. CodecTypes
  BY NothingCarried, CarrierTypes DEF CodecInit, CodecTypes
<1>2. SameCode
  BY DEF CodecInit, SameCode
<1>. QED  BY <1>1, <1>2 DEF CodecInv

LEMMA FinishCarries == ASSUME CodecInv, Finish PROVE CodecInv'
<1>1. CodecTypes'
  <2>1. enabled' \in BOOLEAN
    BY Zenon DEF Finish, CodecInv, CodecTypes
  <2>. QED  BY <2>1, NothingCarried, CarrierTypes DEF Finish, CodecInv, CodecTypes
<1>2. SameCode'
  BY DEF Finish, SameCode
<1>. QED  BY <1>1, <1>2 DEF CodecInv

LEMMA CaptureCarries ==
    ASSUME CodecInv, NEW e \in Captures, Capture(e) PROVE CodecInv'
<1>1. /\ env' \in Taken /\ env' \in Envelopes /\ Len(env') <= RawMax
      /\ code' = RawCode(env', DefaultCarrier) /\ asked' = DefaultCarrier
      /\ stage' \in {"captured", "idle"} /\ UNCHANGED <<blob, air, enabled, carrier>>
  BY TakenTypes DEF Capture
<1>2. code' \in Codes /\ code'.symbols = env' /\ code'.kind = "raw"
  BY <1>1, EnvelopeIsSeq, RawTypes, CarrierTypes
<1>3. enabled' \in BOOLEAN
  BY <1>1, Zenon DEF CodecInv, CodecTypes
<1>4. CodecTypes'
  BY <1>1, <1>2, <1>3, CarrierTypes DEF CodecInv, CodecTypes
<1>5. SameCode'
  BY <1>1 DEF SameCode
<1>. QED  BY <1>4, <1>5 DEF CodecInv

LEMMA CompactCarries == ASSUME CodecInv, Compact PROVE CodecInv'
<1>1. /\ stage = "captured" /\ stage' = "compacted"
      /\ code = RawCode(env, DefaultCarrier) /\ code' = TryCompact(code)
      /\ env \in Envelopes /\ env \in Taken /\ Len(env) <= RawMax
      /\ UNCHANGED <<env, asked, blob, air, enabled, carrier>>
  BY DEF Compact, CodecInv, CodecTypes, SameCode
<1>2. /\ code' \in Codes /\ Len(code'.symbols) <= RawMax
      /\ code'.kind = "nec" => code'.nec \in Bits
  BY <1>1, EnvelopeIsSeq, CompactTypes, CarrierTypes
<1>3. enabled' \in BOOLEAN
  BY <1>1, Zenon DEF CodecInv, CodecTypes
<1>4. CodecTypes'
  BY <1>1, <1>2, <1>3 DEF CodecInv, CodecTypes
<1>5. SameCode'
  BY <1>1 DEF SameCode
<1>. QED  BY <1>4, <1>5 DEF CodecInv

LEMMA SaveCarries == ASSUME CodecInv, Save PROVE CodecInv'
<1>1. /\ stage = "compacted" /\ stage' = "stored" /\ blob' = ToBlob(code)
      /\ code = TryCompact(RawCode(env, DefaultCarrier))
      /\ env \in Envelopes /\ env \in Taken
      /\ UNCHANGED <<env, asked, code, air, enabled, carrier>>
  BY DEF Save, CodecInv, CodecTypes, SameCode
<1>2. env \in Seq(Uint16)
  BY <1>1, EnvelopeIsSeq
<1>3. /\ code \in Codes /\ code.symbols = env
      /\ code.kind = "nec" => NecDecodable(env) /\ code.nec = NecDecode(env) /\ code.nec \in Bits
  BY <1>1, <1>2, CompactTypes, CarrierTypes
<1>4. /\ blob'.kind = code.kind
      /\ blob' = [kind |-> code.kind, carrier |-> code.carrier,
                  data |-> IF code.kind = "nec" THEN code.nec ELSE Octets(env)]
  BY <1>1, <1>3 DEF ToBlob
<1>5. code.kind \in {"raw", "nec"} /\ code.carrier \in Nat
  BY <1>3 DEF Codes, Carrier
<1>6. /\ blob' \in Blobs
      /\ blob'.kind = "nec" => blob'.data \in Bits /\ Means(blob'.data)
      /\ blob'.kind # "nec" => blob'.data = Octets(env)
  <2>1. CASE code.kind = "nec"
    <3>1. code.nec \in Seq(Octet)
      BY <1>3, <2>1, BitsAreOctets
    <3>2. Means(code.nec)
      BY <1>1, <1>3, <2>1 DEF Means, Frames
    <3>. QED  BY <1>3, <1>4, <1>5, <2>1, <3>1, <3>2 DEF Blobs
  <2>2. CASE code.kind = "raw"
    BY <1>2, <1>4, <1>5, <2>2, OctetTypes DEF Blobs
  <2>. QED  BY <1>5, <2>1, <2>2
<1>7. enabled' \in BOOLEAN
  BY <1>1, Zenon DEF CodecInv, CodecTypes
<1>8. CodecTypes'
  BY <1>1, <1>6, <1>7 DEF CodecInv, CodecTypes
<1>9. SameCode'
  BY <1>1, <1>6 DEF SameCode, Means
<1>. QED  BY <1>8, <1>9 DEF CodecInv

LEMMA ProgramCarries ==
    ASSUME CodecInv, NEW khz \in AskedCarrier,
           \/ \E e \in RawPrograms : ProgramRaw(e, khz)
           \/ \E bits \in NecPrograms : ProgramNec(bits, khz)
    PROVE  CodecInv'
<1>1. /\ asked' = khz /\ khz \in Nat /\ stage' = "stored"
      /\ UNCHANGED <<code, air, enabled, carrier>>
  BY InputAssumption DEF ProgramRaw, ProgramNec
<1>2. /\ env' \in Envelopes /\ blob' \in Blobs
      /\ blob'.kind = "nec" => blob'.data \in Bits /\ Means(blob.data)'
      /\ blob'.kind # "nec" => blob'.data = Octets(env')
  <2>1. ASSUME NEW e \in RawPrograms, ProgramRaw(e, khz)
        PROVE  /\ env' \in Envelopes /\ blob' \in Blobs
               /\ blob'.kind = "nec" => blob'.data \in Bits /\ Means(blob.data)'
               /\ blob'.kind # "nec" => blob'.data = Octets(env')
    <3>1. e \in Envelopes
      BY InputAssumption DEF Envelopes
    <3>2. Octets(e) \in Seq(Octet)
      BY <3>1, EnvelopeIsSeq, OctetTypes
    <3>3. env' = e /\ blob' = [kind |-> "raw", carrier |-> khz, data |-> Octets(e)]
      BY <2>1 DEF ProgramRaw
    <3>. QED  BY <1>1, <3>1, <3>2, <3>3 DEF Blobs
  <2>2. ASSUME NEW bits \in NecPrograms, ProgramNec(bits, khz)
        PROVE  /\ env' \in Envelopes /\ blob' \in Blobs
               /\ blob'.kind = "nec" => blob'.data \in Bits /\ Means(blob.data)'
               /\ blob'.kind # "nec" => blob'.data = Octets(env')
    <3>1. bits \in Bits /\ bits \in Seq(Octet)
      BY ProgramBits, BitsAreOctets
    <3>2. env' = NecEncode(bits) /\ blob' = [kind |-> "nec", carrier |-> khz, data |-> bits]
      BY <2>2 DEF ProgramNec
    <3>3. Means(bits)'
      BY <3>1, <3>2, ProgrammedFrame DEF Means
    <3>. QED  BY <1>1, <3>1, <3>2, <3>3, EncodeTypes DEF Blobs, Means
  <2>. QED  BY <2>1, <2>2
<1>3. enabled' \in BOOLEAN
  BY <1>1, Zenon DEF CodecInv, CodecTypes
<1>4. CodecTypes'
  BY <1>1, <1>2, <1>3 DEF CodecInv, CodecTypes
<1>5. SameCode'
  BY <1>1, <1>2 DEF SameCode, Means
<1>. QED  BY <1>4, <1>5 DEF CodecInv

LEMMA LoadCarries == ASSUME CodecInv, LoadCode PROVE CodecInv'
<1>1. stage = "stored" /\ UNCHANGED <<env, asked, blob, air, enabled, carrier>>
  BY DEF LoadCode
<1>2. enabled' \in BOOLEAN
  BY <1>1, Zenon DEF CodecInv, CodecTypes
<1>3. CASE Decodes(blob)
  <2>1. code' = FromBlob(blob) /\ stage' = "loaded"
    BY <1>3 DEF LoadCode
  <2>2. /\ blob \in Blobs
        /\ blob.kind = "nec" => blob.data \in Bits /\ Means(blob.data)
        /\ blob.kind # "nec" => blob.data = Octets(env)
        /\ env \in Seq(Uint16)
    BY <1>1, EnvelopeIsSeq DEF CodecInv, CodecTypes, SameCode
  <2>3. /\ code' \in Codes /\ Len(code'.symbols) <= RawMax /\ code'.kind = blob.kind
        /\ IF code'.kind = "nec" THEN code'.nec = blob.data ELSE code'.symbols = Unpack(blob.data)
    BY <1>3, <2>1, <2>2, LoadTypes
  <2>4. CodecTypes'
    BY <1>1, <1>2, <2>1, <2>2, <2>3 DEF CodecInv, CodecTypes
  <2>5. IF code'.kind = "nec" THEN Means(code'.nec) ELSE code'.symbols = env
    BY <2>2, <2>3, RawRoundTrip
  <2>6. SameCode'
    BY <1>1, <2>1, <2>5 DEF SameCode, Means
  <2>. QED  BY <2>4, <2>6 DEF CodecInv
<1>4. CASE ~Decodes(blob)
  <2>1. stage' = "done" /\ UNCHANGED code
    BY <1>4 DEF LoadCode
  <2>2. CodecTypes'
    BY <1>1, <1>2, <2>1 DEF CodecInv, CodecTypes
  <2>3. SameCode'
    BY <2>1 DEF SameCode
  <2>. QED  BY <2>2, <2>3 DEF CodecInv
<1>. QED  BY <1>3, <1>4

\* What espir_ir_send transmits is always an envelope.
LEMMA DurationsAreEnvelope ==
    ASSUME CodecInv, stage \in {"loaded", "air"} PROVE Durations(code) \in Envelopes
<1>1. CASE code.kind = "nec"
  <2>1. code.nec \in Bits
    BY <1>1 DEF CodecInv, CodecTypes
  <2>. QED  BY <1>1, <2>1, EncodeTypes DEF Durations
<1>2. CASE code.kind # "nec"
  <2>1. code.symbols = env /\ env \in Envelopes
    BY <1>2 DEF CodecInv, CodecTypes, SameCode
  <2>. QED  BY <1>2, <2>1 DEF Durations
<1>. QED  BY <1>1, <1>2

LEMMA SendCarries == ASSUME CodecInv, Send PROVE CodecInv'
<1>1. /\ stage = "loaded" /\ air' = Pack(Durations(code)) /\ stage' \in {"air", "done"}
      /\ carrier' = Wanted(code.carrier)
      /\ UNCHANGED <<env, asked, code, blob>>
  BY DEF Send, Wanted
<1>2. enabled' \in BOOLEAN
  BY Zenon DEF Send, CodecInv, CodecTypes
<1>3. air' \in Seq(Symbols)
  BY <1>1, DurationsAreEnvelope, PackTypes DEF Symbols
<1>4. carrier' \in Carrier
  <2>1. code.carrier \in Nat
    BY DEF CodecInv, CodecTypes, Codes, Carrier
  <2>. QED  BY <1>1, <2>1, CarrierTypes
<1>5. CodecTypes'
  BY <1>1, <1>2, <1>3, <1>4 DEF CodecInv, CodecTypes
<1>6. IF code.kind = "nec" THEN Means(code.nec) ELSE code.symbols = env
  BY <1>1 DEF CodecInv, SameCode
<1>7. SameCode'
  BY <1>1, <1>6 DEF SameCode, Means, Durations
<1>. QED  BY <1>5, <1>7 DEF CodecInv

LEMMA AirCarries == ASSUME CodecInv, SendEnds \/ RefuseCarrier PROVE CodecInv'
<1>1. /\ stage \in {"loaded", "air"} /\ stage' \in {"loaded", "done"}
      /\ UNCHANGED <<env, asked, code, blob, air, carrier>>
  BY DEF SendEnds, RefuseCarrier
<1>2. enabled' \in BOOLEAN
  BY Zenon DEF SendEnds, RefuseCarrier, CodecInv, CodecTypes
<1>3. CodecTypes'
  BY <1>1, <1>2 DEF CodecInv, CodecTypes
<1>4. IF code.kind = "nec" THEN Means(code.nec) ELSE code.symbols = env
  BY <1>1 DEF CodecInv, SameCode
<1>5. SameCode'
  BY <1>1, <1>4 DEF SameCode, Means
<1>. QED  BY <1>3, <1>5 DEF CodecInv

LEMMA StutterCarries == ASSUME CodecInv, UNCHANGED codecVars PROVE CodecInv'
<1>1. UNCHANGED <<stage, env, asked, code, blob, air, enabled, carrier>>
  BY DEF codecVars
<1>2. enabled' \in BOOLEAN
  BY <1>1, Zenon DEF CodecInv, CodecTypes
<1>3. CodecTypes'
  BY <1>1, <1>2 DEF CodecInv, CodecTypes
<1>4. SameCode'
  BY <1>1, Zenon DEF CodecInv, SameCode, Means
<1>. QED  BY <1>3, <1>4 DEF CodecInv

LEMMA CodecCarries == CodecSpec => []CodecInv
<1>1. ASSUME CodecInv, [CodecNext]_codecVars PROVE CodecInv'
  BY <1>1, CaptureCarries, CompactCarries, SaveCarries, ProgramCarries, LoadCarries,
     SendCarries, AirCarries, FinishCarries, StutterCarries DEF CodecNext
<1>. QED  BY <1>1, InitCarries, PTL DEF CodecSpec

\* Every variable of the codec keeps its type and width, for every envelope that
\* is captured or programmed: 16 bits in a code, 15 in a symbol, octets in a blob.
THEOREM CodecTypeCorrect == CodecSpec => []CodecTypeOK
<1>1. ASSUME CodecInv PROVE CodecTypeOK
  <2>1. code.kind \in {"raw", "nec"} /\ code.symbols \in Seq(Uint16) /\ code.carrier \in Carrier
    BY <1>1 DEF CodecInv, CodecTypes, Codes
  <2>2. blob.data \in Seq(0 .. 255)
    BY <1>1, Zenon DEF CodecInv, CodecTypes, Blobs, Octet
  <2>. QED  BY <1>1, <2>1, <2>2, Zenon
         DEF CodecInv, CodecTypes, CodecTypeOK, Bits, Symbols, Carrier
<1>. QED  BY <1>1, CodecCarries, PTL

\* A frame that any NEC receiver would read is compacted, whatever its bits and
\* wherever its durations lie in their tolerances (espir_code_try_compact).
THEOREM NecAlwaysCompacted == CodecSpec => []NecIsCompacted
<1>1. ASSUME NEW v \in Nat, NEW t \in {HdrMark, HdrSpace, BitMark},
             10 * v >= 7 * t, 10 * v <= 13 * t
      PROVE  Match(v, t)
  BY <1>1 DEF Match, HdrMark, HdrSpace, BitMark
<1>2. ASSUME CodecInv, IsNecFrame(env) PROVE NecDecodable(env)
  <2>1. env \in Seq(Uint16) /\ Len(env) >= NecSymbols - 1
    BY <1>2, EnvelopeIsSeq, ConstantTypes DEF IsNecFrame, CodecInv, CodecTypes
  <2>2. PICK bits \in Bits :
           \A i \in 1 .. NecSymbols - 1 :
              10 * env[i] >= 7 * NecEncode(bits)[i] /\ 10 * env[i] <= 13 * NecEncode(bits)[i]
    BY <1>2 DEF IsNecFrame, Bits
  <2>3. ASSUME NEW i \in 1 .. NecSymbols - 1, NEW t \in {HdrMark, HdrSpace, BitMark},
               NecEncode(bits)[i] = t
        PROVE  Match(env[i], t)
    <3>1. i \in 1 .. Len(env)
      BY <2>1, ConstantTypes
    <3>2. env[i] \in Nat
      BY <2>1, <3>1, DurationIsNat
    <3>. QED  BY <1>1, <2>2, <2>3, <3>2
  <2>4. Match(env[1], HdrMark) /\ Match(env[2], HdrSpace)
    <3>1. 1 \in 1 .. NecSymbols - 1 /\ 2 \in 1 .. NecSymbols - 1
      BY ConstantTypes
    <3>. QED  BY <2>3, <3>1, Encoded DEF Bits
  <2>5. ASSUME NEW i \in 1 .. NecBits PROVE Match(env[1 + 2 * i], BitMark)
    <3>1. 1 + 2 * i \in 1 .. NecSymbols - 1
      BY SomeBits DEF NecSymbols
    <3>. QED  BY <2>3, <3>1, Encoded DEF Bits
  <2>. QED  BY <2>1, <2>4, <2>5 DEF NecDecodable
<1>3. ASSUME CodecInv PROVE NecIsCompacted
  <2>1. CASE stage = "compacted" /\ IsNecFrame(env)
    <3>1. env \in Seq(Uint16) /\ code = TryCompact(RawCode(env, DefaultCarrier))
      BY <1>3, <2>1, EnvelopeIsSeq DEF CodecInv, CodecTypes, SameCode
    <3>2. code.kind = "nec"
      BY <1>2, <1>3, <2>1, <3>1, CompactTypes, CarrierTypes
    <3>. QED  BY <3>2 DEF NecIsCompacted
  <2>. QED  BY <2>1 DEF NecIsCompacted
<1>. QED  BY <1>3, CodecCarries, PTL

\* A frame on the air that starts like one of NEC ends like one.  The decoder
\* does not look at what follows the bits, so that without this the property does
\* not hold: the tail of a longer frame is lost, and an odd stop mark mended.
EndsLikeNec ==
    \A e \in Captures : NecDecodable(e) =>
        /\ Len(e) <= NecSymbols
        /\ Len(e) = NecSymbols => Match(e[NecSymbols], BitMark)

LEMMA FramesEnd ==
    ASSUME EndsLikeNec, NEW s \in Frames, NecDecodable(s)
    PROVE  /\ s \in Seq(Uint16) /\ Len(s) <= NecSymbols
           /\ Len(s) = NecSymbols => Match(s[NecSymbols], BitMark)
<1>1. CASE s \in Taken
  <2>1. PICK e \in Captures : s = Received(e)
    BY <1>1 DEF Taken
  <2>2. e \in Envelopes /\ s \in Envelopes /\ Len(e) \in Nat
    BY <2>1, CaptureIsEnvelope, ReceivedTypes DEF Envelopes
  <2>3. /\ Len(s) = IF Len(e) > RawMax THEN RawMax ELSE Len(e)
        /\ \A i \in 1 .. Len(s) : s[i] = e[i]
    <3>1. /\ Len(s) = IF Len(e) > RawMax THEN RawMax ELSE Len(e)
          /\ \A i \in DOMAIN s : s[i] = Clamp(e[i])
      BY <2>1, <2>2, ReceivedTypes
    <3>2. DOMAIN s = 1 .. Len(s)
      BY <2>2 DEF Envelopes
    <3>3. ASSUME NEW i \in 1 .. Len(s) PROVE s[i] = e[i]
      <4>1. i \in 1 .. Len(e)
        BY <2>2, <3>1, ConstantTypes
      <4>. QED  BY <2>2, <3>1, <3>2, <4>1, CaptureIsEnvelope, DurationRange
    <3>. QED  BY <3>1, <3>3
  <2>4. NecDecodable(e)
    <3>1. Len(s) >= NecSymbols - 1 /\ Len(e) >= NecSymbols - 1
      BY <2>2, <2>3, ConstantTypes DEF NecDecodable
    <3>2. \A i \in 1 .. NecSymbols - 1 : s[i] = e[i]
      BY <2>2, <2>3, <3>1, ConstantTypes
    <3>3. 1 \in 1 .. NecSymbols - 1 /\ 2 \in 1 .. NecSymbols - 1
      BY ConstantTypes
    <3>4. \A i \in 1 .. NecBits : 1 + 2 * i \in 1 .. NecSymbols - 1
      BY SomeBits DEF NecSymbols
    <3>. QED  BY <3>1, <3>2, <3>3, <3>4 DEF NecDecodable
  <2>. QED  BY <2>2, <2>3, <2>4, EnvelopeIsSeq, ConstantTypes DEF EndsLikeNec
<1>2. CASE s \in {NecEncode(bits) : bits \in Bits}
  <2>1. PICK bits \in Bits : s = NecEncode(bits)
    BY <1>2
  <2>2. s[NecSymbols] = BitMark
    BY <2>1, Encoded DEF Bits
  <2>3. Match(BitMark, BitMark)
    BY DEF Match, BitMark
  <2>. QED  BY <2>1, <2>2, <2>3, EncodeTypes, EnvelopeIsSeq, ConstantTypes
<1>. QED  BY <1>1, <1>2 DEF Frames

\* What goes on the air is what was captured or programmed, through compaction,
\* the store and the peripheral, for codes of any length and any number of bits.
THEOREM AlwaysFaithful ==
    ASSUME EndsLikeNec
    PROVE  CodecSpec => []FaithfulReplay
<1>1. ASSUME CodecInv, stage = "air", code.kind = "raw"
      PROVE  Flat(air) = [i \in DOMAIN env |-> Clamp(env[i])]
  <2>1. /\ env \in Envelopes /\ Len(env) <= RawMax /\ code.symbols = env
        /\ air = Pack(env)
    BY <1>1 DEF CodecInv, CodecTypes, SameCode, Durations
  <2>2. Flat(air) = [i \in 1 .. Len(env) |-> Clamp(env[i])]
    BY <2>1, FlatOfPack, ConstantTypes DEF Received, Envelopes
  <2>. QED  BY <2>1, <2>2 DEF Envelopes
<1>2. ASSUME CodecInv, stage = "air", code.kind # "raw"
      PROVE  /\ Len(Flat(air)) \in {Len(env), Len(env) + 1}
             /\ \A i \in DOMAIN env : SameSymbol(env[i], Flat(air)[i], i)
  <2>1. code.kind = "nec"
    BY <1>2 DEF CodecInv, CodecTypes, Codes
  <2>2. /\ code.nec \in Bits /\ Means(code.nec) /\ air = Pack(NecEncode(code.nec))
    BY <1>2, <2>1 DEF CodecInv, CodecTypes, SameCode, Durations
  <2>3. /\ env \in Seq(Uint16) /\ NecDecodable(env) /\ Len(env) <= NecSymbols
        /\ Len(env) = NecSymbols => Match(env[NecSymbols], BitMark)
    BY <2>2, FramesEnd DEF Means
  <2>4. Flat(air) = NecEncode(NecDecode(env))
    BY <2>2, EncodeTypes, FlatOfPack DEF Means
  <2>5. Len(Flat(air)) \in {Len(env), Len(env) + 1}
    BY <2>3, <2>4, CompactionIsFaithful
  <2>6. ASSUME NEW i \in 1 .. Len(env) PROVE SameSymbol(env[i], Flat(air)[i], i)
    <3>1. CASE i <= NecSymbols - 1
      <4>1. i \in 1 .. NecSymbols - 1
        BY <2>3, <3>1, ConstantTypes
      <4>. QED  BY <2>3, <2>4, <4>1, CompactionIsFaithful
    <3>2. CASE i > NecSymbols - 1
      <4>1. i = NecSymbols /\ Len(env) = NecSymbols /\ i > 2 /\ i % 2 = 1
        BY <2>3, <3>2, SomeBits DEF NecSymbols
      <4>2. Flat(air)[i] = BitMark
        BY <2>2, <2>4, <4>1, DecodeTypes, Encoded DEF Bits
      <4>3. env[i] \in Nat
        BY <2>3, <4>1, DurationIsNat
      <4>4. Match(env[i], BitMark)
        BY <2>3, <4>1
      <4>. QED  BY <4>1, <4>2, <4>3, <4>4 DEF SameSymbol, Match, BitMark
    <3>. QED  BY <3>1, <3>2, <2>3, ConstantTypes
  <2>. QED  BY <2>3, <2>5, <2>6
<1>3. ASSUME CodecInv PROVE FaithfulReplay
  BY <1>1, <1>2, <1>3 DEF FaithfulReplay
<1>. QED  BY <1>3, CodecCarries, PTL

=============================================================================
