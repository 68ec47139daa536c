--------------------------- MODULE MCReplication ----------------------------
(***************************************************************************)
(* Replication on two slots.  a and b are long codes of slot 0 with the    *)
(* same kind, carrier and length, so that nothing but their bytes tells    *)
(* them apart; c and e are such codes of slot 1, d a short one of slot 1.  *)
(***************************************************************************)
EXTENDS EspirReplication

CONSTANTS a, b, c, d, e

MCHome    == [x \in Code |-> IF x \in {a, b} THEN 0 ELSE 1]
MCKind    == {"raw", "nec"}
MCKindOf  == [x \in Code |-> IF x = d THEN "nec" ELSE "raw"]
MCCarrier == {0, 36, 38}
MCCarrierOf == [x \in Code |-> IF x \in {c, e} THEN 36 ELSE 38]
MCLenOf   == [x \in Code |-> IF x = d THEN 2 ELSE 4]
MCByte    == UNION {Token(x) : x \in Code}
MCWireSlot == 0 .. 1
MCWireLen  == 0 .. 4

\* The master may lose anything but a commit, the host anything.
NoFrame   == {}
AnyFrame  == Channel \X FrameType
NotCommit == AnyFrame \ {<<"master", "commit">>}
=============================================================================
