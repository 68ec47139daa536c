---------------------------- MODULE EspirDisplay ----------------------------
(***************************************************************************)
(* The status display of the master, components/espir_oled: the snapshot   *)
(* that espir_oled_update latches and the task that renders it.  The panel *)
(* is its text, one field for each place on it; font and I2C are left out. *)
(***************************************************************************)
EXTENDS Naturals

CONSTANTS
    SlotIdle,     \* ESPIR_SLOT_IDLE
    SlotNumber    \* the slot numbers of a snapshot

VARIABLES
    panel,        \* whether espir_oled_init has succeeded
    latched,      \* s_info, until the render task has taken it
    shown         \* what is on the panel

displayVars == <<panel, latched, shown>>

\* espir_info_t
Snapshot == [status : {"boot", "searching", "connected", "sending"},
             selected : SlotNumber, learn : {"idle", "waiting", "captured", "failed"},
             learnSlot : SlotNumber \cup {SlotIdle}, occupied : BOOLEAN]

-----------------------------------------------------------------------------

Connection == [boot |-> "BOOT", searching |-> "JOIN", connected |-> "NET", sending |-> "TX"]

LearnText == [idle |-> "LEARN: READY", waiting |-> "LEARN: WAIT",
              captured |-> "LEARN: OK!", failed |-> "LEARN: FAIL"]

\* What render draws.  During a learn it names the slot of the learn beside
\* the occupancy of the selected one.
Screen(i) ==
    [right    |-> Connection[i.status],
     slot     |-> IF i.learnSlot = SlotIdle THEN i.selected ELSE i.learnSlot,
     occupied |-> i.occupied,
     bottom   |-> IF i.status = "sending" THEN "SENDING" ELSE LearnText[i.learn]]

\* What is on the panel before the first snapshot: BOOT where the slot will be.
Banner == [right |-> "", slot |-> SlotIdle, occupied |-> FALSE, bottom |-> ""]

-----------------------------------------------------------------------------

\* espir_oled_init: a panel that does not answer, or any later failure, is
\* unwound and the device goes on without one.
OledInit ==
    /\ panel' \in BOOLEAN
    /\ latched' = {} /\ shown' = Banner

OledOff == panel' = FALSE /\ latched' = {} /\ shown' = Banner

\* Variant: the task is not notified.
UpdateSilent(info) == UNCHANGED displayVars

Update(info) == latched' = {info} /\ UNCHANGED <<panel, shown>>

\* oled_task takes the notification, copies the snapshot and renders it.  An
\* update during the drawing comes to the same as one after it: the task is
\* notified again.  A flush that fails is not repeated.
Render ==
    /\ \E i \in latched : shown' \in {Screen(i), shown}
    /\ latched' = {}
    /\ UNCHANGED panel

DisplayStart == panel = FALSE /\ latched = {} /\ shown = Banner

DisplayTypeOK ==
    /\ panel \in BOOLEAN
    /\ latched \subseteq Snapshot
    /\ shown \in {Screen(i) : i \in Snapshot} \cup {Banner}

=============================================================================
