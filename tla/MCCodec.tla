------------------------------ MODULE MCCodec -------------------------------
(***************************************************************************)
(* NEC frames of two bits.  Every duration is at an edge of what the       *)
(* decoder accepts or just beyond it, with and without the stop mark; the  *)
(* host programs short and long durations for three carriers.              *)
(***************************************************************************)
EXTENDS EspirCodec

Bit == {<<m, s>> : m \in {391, 392, 728, 729}, s \in {560, 1125, 1126, 1690}}

Header == {<<m, s>> : m \in {6299, 6300, 11700, 11701}, s \in {3149, 3150, 5850, 5851}}

Stop == {<<>>, <<392>>}

MCCaptures ==
    {h \o b1 \o b2 \o t : h \in Header, b1 \in Bit, b2 \in Bit, t \in Stop}
    \cup {<<9000>>, <<9000, 4500>>, <<9000, 2250, 560>>}

MCRawPrograms == {<<300, 255, 256>>, <<32767, 32768>>, <<65535>>, <<>>}

MCNecPrograms == [1 .. 2 -> {0, 1}]

\* A frame with a header like NEC's and one bit more, as air conditioners send
MCLong == {<<9000, 4500, 560, 1690, 560, 560, 560, 1690, 560>>}

MCNone == {}
=============================================================================
