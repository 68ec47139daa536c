---------------------------- MODULE EspirUpgrade ----------------------------
(***************************************************************************)
(* Upgrading over the air: the client of components/espir_ota, the file    *)
(* that tools/make_ota.py builds, and the two application partitions.      *)
(*                                                                         *)
(* The Zigbee stack, which fetches the file and hands it to the client in  *)
(* blocks, the esp_ota functions and the bootloader are external.  The     *)
(* bootloader runs a new image once; if that image is still unconfirmed at *)
(* the next boot, it goes back to the other partition.  The partition that *)
(* runs is always the one that boots, because the client restarts as soon  *)
(* as it has changed it.                                                   *)
(*                                                                         *)
(* An octet of an image v is <<v, i>>; <<v, 0>> stands for the octets of   *)
(* the sub-element header that precedes the firmware in the file.          *)
(***************************************************************************)
EXTENDS EspirCommission, Naturals, Sequences

CONSTANTS
    Image,        \* the firmware images; the device is born with FirstImage
    FirstImage,
    BadImage,     \* those that crash before they join
    FwLen,        \* octets of a firmware
    BlockLen,     \* octets of a block of the file
    FlashMayFail, \* whether a flash operation may fail
    MaxPowerLoss  \* bound: losses of power

ASSUME UpgradeAssumption ==
    /\ FirstImage \in Image \ BadImage
    /\ FwLen \in Nat \ {0}
    /\ BlockLen \subseteq Nat \ {0}
    /\ FlashMayFail \in BOOLEAN
    /\ MaxPowerLoss \in Nat

Part == {0, 1}

Other(p) == 1 - p

VARIABLES
    flash,        \* the content of each partition
    otaState,     \* what otadata says of each partition
    boot,         \* the partition that boots, and runs when the power is on
    part,         \* s_part
    handle,       \* s_handle: closed, opened, or opened and written to
    inProgress,   \* s_in_progress
    firstBlock,   \* s_first_block
    xfer,         \* the transfer, as the stack has it
    losses        \* losses of power so far

flashVars == <<flash, otaState, boot>>
clientVars == <<part, handle, inProgress, firstBlock>>
upgradeVars == <<commissionVars, flashVars, clientVars, xfer, losses>>

-----------------------------------------------------------------------------
(* The file                                                                *)

TagLen == 6     \* sub-element tag (2) and length (4)

Firmware(v) == [i \in 1 .. FwLen |-> <<v, i>>]

\* build_ota: what follows the header, which the stack takes off.
File(v) == [i \in 1 .. TagLen |-> <<v, 0>>] \o Firmware(v)

Whole(content) == \E v \in Image : content = Firmware(v)

Sound(content) == \E v \in Image \ BadImage : content = Firmware(v)

-----------------------------------------------------------------------------
(* espir_ota_handle_value                                                  *)

NoXfer == [phase |-> "none", image |-> FirstImage, sent |-> 0]

\* The stack goes on to next after an error, or it does not.
AfterError(next) == {[xfer EXCEPT !.phase = "stop"], [next EXCEPT !.phase = "spoilt"]}

\* Variant: the partition that runs.
RunningPartition == boot

\* esp_ota_get_next_update_partition: the other one
NextPartition == Other(boot)

\* Variant: the first-block flag is set only once the last transfer is closed.
StartKeepsFlag(v) ==
    /\ net = "up" /\ xfer.phase = "none"
    /\ flash[boot] # Firmware(v)
    /\ otaState[boot] # "pending"
    /\ part' = NextPartition
    /\ firstBlock' = (firstBlock \/ handle = "closed")
    /\ inProgress' = TRUE /\ handle' = "fresh"
    /\ xfer' = [phase |-> "run", image |-> v, sent |-> 0]
    /\ UNCHANGED <<commissionVars, flashVars, losses>>

\* START.  esp_ota_begin refuses while the running image is unconfirmed.
Start(v) ==
    /\ net = "up"
    /\ xfer.phase = "none"
    /\ flash[boot] # Firmware(v)
    /\ part' = NextPartition
    /\ firstBlock' = TRUE
    /\ \/ /\ otaState[boot] # "pending"
          /\ inProgress' = TRUE
          /\ handle' = "fresh"
          /\ xfer' = [phase |-> "run", image |-> v, sent |-> 0]
       \/ /\ otaState[boot] = "pending" \/ FlashMayFail
          /\ inProgress' = FALSE
          /\ UNCHANGED handle
          /\ xfer' \in [phase : {"stop", "spoilt"}, image : {v}, sent : {0}]
    /\ UNCHANGED <<commissionVars, flashVars, losses>>

\* esp_ota_write(s_handle, data): it appends, from the start of the partition.
Written(data) == (IF handle = "fresh" THEN <<>> ELSE flash[part]) \o data

Write(data, next) ==
    \/ /\ flash' = [flash EXCEPT ![part] = Written(data)]
       /\ handle' = "written"
       /\ xfer' = next
    \/ /\ FlashMayFail
       /\ flash' = [flash EXCEPT ![part] = Written(<<>>)]
       /\ handle' = "written"
       /\ xfer' \in AfterError(next)

\* Variant: the sub-element header is not taken off.
ReceiveKeepsTag(block, next) ==
    /\ inProgress
    /\ Write(block, next)
    /\ firstBlock' = FALSE

\* RECEIVE of a block of octets; the stack then goes on to next.
Receive(block, next) ==
    \/ /\ ~inProgress
       /\ xfer' = next
       /\ UNCHANGED <<flash, handle, firstBlock>>
    \/ /\ inProgress
       /\ firstBlock
       /\ Len(block) < TagLen
       /\ xfer' \in AfterError(next)
       /\ UNCHANGED <<flash, handle, firstBlock>>
    \/ /\ inProgress
       /\ firstBlock
       /\ Len(block) >= TagLen
       /\ firstBlock' = FALSE
       /\ Write(SubSeq(block, TagLen + 1, Len(block)), next)
    \/ /\ inProgress
       /\ ~firstBlock
       /\ Write(block, next)
       /\ UNCHANGED firstBlock

\* The stack has fetched the next n octets, or the rest of the file.
Block(n) ==
    LET left == Len(File(xfer.image)) - xfer.sent
        upto == xfer.sent + (IF n < left THEN n ELSE left)
    IN  /\ xfer.phase \in {"run", "spoilt"}
        /\ left > 0
        /\ Receive(SubSeq(File(xfer.image), xfer.sent + 1, upto),
                   [xfer EXCEPT !.sent = upto])
        /\ UNCHANGED <<commissionVars, otaState, boot, part, inProgress, losses>>

\* Everything in RAM is lost, and the power is off for an instant or longer.
PowerOff ==
    /\ NetOff
    /\ part' = 0
    /\ handle' = "closed"
    /\ inProgress' = FALSE
    /\ firstBlock' = FALSE
    /\ xfer' = NoXfer
    /\ UNCHANGED flash

\* Variant: the result of esp_ota_end is not looked at.
EndOkUnchecked == handle = "written"

\* esp_ota_end checks the image that has been written.
EndOk == handle = "written" /\ Whole(flash[part])

\* FINISH of an image that passes: it is made the one that boots.
FinishOk ==
    /\ xfer.phase \in {"run", "spoilt"}
    /\ xfer.sent = Len(File(xfer.image))
    /\ inProgress
    /\ EndOk
    /\ boot' = part
    /\ otaState' = [otaState EXCEPT ![part] = "new"]
    /\ PowerOff
    /\ UNCHANGED losses

\* FINISH otherwise
FinishFailed ==
    /\ xfer.phase \in {"run", "spoilt"}
    /\ xfer.sent = Len(File(xfer.image))
    /\ inProgress => ~EndOk \/ FlashMayFail
    /\ handle' = IF inProgress THEN "closed" ELSE handle
    /\ inProgress' = FALSE
    /\ xfer' = NoXfer
    /\ UNCHANGED <<commissionVars, flashVars, part, firstBlock, losses>>

\* ABORT, by the server or by the stack
Abort ==
    /\ xfer.phase # "none"
    /\ handle' = IF inProgress THEN "closed" ELSE handle
    /\ inProgress' = FALSE
    /\ xfer' = NoXfer
    /\ UNCHANGED <<commissionVars, flashVars, part, firstBlock, losses>>

\* The stack gives a stopped transfer up and tells the client nothing.
GiveUp ==
    /\ xfer.phase = "stop"
    /\ xfer' = NoXfer
    /\ UNCHANGED <<commissionVars, flashVars, clientVars, losses>>

-----------------------------------------------------------------------------
(* Starting and joining                                                    *)

\* espir_ota_mark_valid
MarkValid ==
    \/ otaState' = IF otaState[boot] = "pending"
                   THEN [otaState EXCEPT ![boot] = "valid"] ELSE otaState
    \/ FlashMayFail /\ UNCHANGED otaState

\* A bad image never gets here.
Join ==
    /\ Sound(flash[boot])
    /\ Joining
    /\ MarkValid
    /\ UNCHANGED <<flash, boot, clientVars, xfer, losses>>

\* Variant: the image is confirmed before it has joined.
SearchConfirms ==
    /\ Searching
    /\ otaState' = [otaState EXCEPT ![boot] = "valid"]
    /\ UNCHANGED <<flash, boot, clientVars, xfer, losses>>

Search ==
    /\ Searching
    /\ UNCHANGED <<flashVars, clientVars, xfer, losses>>

FailToStart == StartFailed /\ UNCHANGED <<flashVars, clientVars, xfer, losses>>

BeRemoved ==
    /\ Leave
    /\ xfer' = NoXfer
    /\ UNCHANGED <<flashVars, clientVars, losses>>

Crash ==
    /\ net # "off"
    /\ ~Sound(flash[boot])
    /\ PowerOff
    /\ UNCHANGED <<otaState, boot, losses>>

PowerLoss ==
    /\ net # "off"
    /\ losses < MaxPowerLoss
    /\ losses' = losses + 1
    /\ PowerOff
    /\ UNCHANGED <<otaState, boot>>

\* The bootloader
BootUp ==
    /\ NetBoot
    /\ CASE otaState[boot] = "new" ->
              /\ otaState' = [otaState EXCEPT ![boot] = "pending"]
              /\ UNCHANGED boot
         [] otaState[boot] = "pending" ->
              /\ otaState' = [otaState EXCEPT ![boot] = "aborted"]
              /\ boot' = Other(boot)
         [] OTHER -> UNCHANGED <<otaState, boot>>
    /\ UNCHANGED <<flash, clientVars, xfer, losses>>

-----------------------------------------------------------------------------

UpgradeInit ==
    /\ CommissionInit
    /\ flash = [p \in Part |-> IF p = 0 THEN Firmware(FirstImage) ELSE <<>>]
    /\ otaState = [p \in Part |-> IF p = 0 THEN "valid" ELSE "blank"]
    /\ boot = 0
    /\ part = 0
    /\ handle = "closed"
    /\ inProgress = FALSE
    /\ firstBlock = FALSE
    /\ xfer = NoXfer
    /\ losses = 0

UpgradeNext ==
    \/ \E v \in Image : Start(v)
    \/ \E n \in BlockLen : Block(n)
    \/ FinishOk
    \/ FinishFailed
    \/ Abort
    \/ GiveUp
    \/ Join
    \/ Search
    \/ FailToStart
    \/ BeRemoved
    \/ Crash
    \/ PowerLoss
    \/ BootUp

UpgradeSpec == UpgradeInit /\ [][UpgradeNext]_upgradeVars

\* The bootloader and the stack go on by themselves, a bad image crashes, and
\* a network that is tried again and again is found in the end.  Nothing is
\* asked of the server, and the stack may fail to start.
UpgradeFairness ==
    /\ WF_upgradeVars(BootUp)
    /\ WF_upgradeVars(Search)
    /\ WF_upgradeVars(Crash)
    /\ SF_upgradeVars(Join)

UpgradeLiveSpec == UpgradeSpec /\ UpgradeFairness

-----------------------------------------------------------------------------
(* Properties                                                              *)

\* Every variable keeps its type: a partition holds octets of images and at
\* most one firmware of them.
UpgradeTypeOK ==
    /\ CommissionTypeOK
    /\ \A p \in Part : /\ Len(flash[p]) <= FwLen
                       /\ \A i \in 1 .. Len(flash[p]) :
                             flash[p][i] \in Image \X (1 .. FwLen)
    /\ otaState \in [Part -> {"blank", "new", "pending", "valid", "aborted"}]
    /\ boot \in Part
    /\ part \in Part
    /\ handle \in {"closed", "fresh", "written"}
    /\ inProgress \in BOOLEAN
    /\ firstBlock \in BOOLEAN
    /\ xfer \in [phase : {"none", "run", "spoilt", "stop"}, image : Image,
                 sent : 0 .. TagLen + FwLen]
    /\ losses \in 0 .. MaxPowerLoss

\* What esp_ota_write has put into the partition is the part of the firmware
\* that the stack has handed over: the six octets of the sub-element header
\* are taken off once per transfer (s_first_block), in whatever blocks the
\* file comes, after any number of transfers that were given up.
WrittenIsPrefix ==
    xfer.phase = "run" /\ inProgress /\ handle = "written" =>
        flash[part] = SubSeq(Firmware(xfer.image), 1, xfer.sent - TagLen)

\* The partition that boots always holds a whole image: a transfer that is cut
\* short, refused by the flash or followed by a loss of power at any point
\* never makes its half-written partition the one that boots.
BootIsWhole == Whole(flash[boot])

\* While a new image has yet to prove itself, the bootloader has something to
\* go back to: the other partition holds a whole image that has been confirmed.
FallbackKept ==
    otaState[boot] \in {"new", "pending"} =>
        Sound(flash[Other(boot)]) /\ otaState[Other(boot)] = "valid"

\* The image that is confirmed has joined: espir_ota_mark_valid never cancels
\* the rollback of an image that crashes before it has found the network.
ConfirmedIsSound == otaState[boot] = "valid" => Sound(flash[boot])

\* Whatever was installed, a device that is switched on or restarted is in its
\* network again in the end, on the new image or on the old one, unless the
\* stack itself does not start.
Rejoins == net = "off" ~> joined \/ net = "failed"

=============================================================================
