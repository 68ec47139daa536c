----------------------------- MODULE EspirCopy ------------------------------
(***************************************************************************)
(* What replication promises, seen from the slave: each slot is empty or   *)
(* holds, complete and unaltered, a code that somebody offered for that    *)
(* very slot.  A step of the slave changes one slot, or wipes them all.    *)
(***************************************************************************)
CONSTANTS
    Slot,         \* the slots
    Offered,      \* Offered[s]: the codes that are ever offered for slot s
    Empty         \* the content of a slot that holds nothing

VARIABLE replica

CopyInit == replica = [s \in Slot |-> Empty]

Install(s, code) == replica' = [replica EXCEPT ![s] = code]

Wipe == replica' = [s \in Slot |-> Empty]

CopyNext ==
    \/ \E s \in Slot : \E code \in Offered[s] \cup {Empty} : Install(s, code)
    \/ Wipe

CopySpec == CopyInit /\ [][CopyNext]_replica
=============================================================================
