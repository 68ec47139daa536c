------------------------------ MODULE MCDevice ------------------------------
(* The master with one slot, a slot number out of range and a short code.  *)
EXTENDS EspirDevice

CONSTANT x

MCWireSlot == 0 .. 1
MCKind     == {"raw", "nec"}
MCCarrier  == {38}
MCWireLen  == {1, 3}        \* 3 is one past the buffer
MCCapture  == {[kind |-> "nec", carrier |-> 38, blob |-> <<x>>]}
MCSlotIdle == 255
=============================================================================
