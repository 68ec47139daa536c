------------------------------ MODULE MCMaster ------------------------------
(* The master with one slot, its display and its network; a code fits      *)
(* last_code (NEC) or does not (raw).                                      *)
EXTENDS EspirMaster

CONSTANT x

MCWireSlot == {0}
MCKind     == {"raw", "nec"}
MCCarrier  == {38}
MCCapture  == {[kind |-> "nec", carrier |-> 38, blob |-> <<x>>],
               [kind |-> "raw", carrier |-> 38, blob |-> <<x, x>>]}
MCSlotIdle == 255
=============================================================================
