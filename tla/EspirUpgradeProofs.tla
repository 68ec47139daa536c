------------------------- MODULE EspirUpgradeProofs -------------------------
(***************************************************************************)
(* An upgrade never leaves the device without an image to boot, for any    *)
(* number of images, any sizes of firmware and blocks, and any number of   *)
(* losses of power, crashes and refused flash operations.                  *)
(***************************************************************************)
EXTENDS EspirUpgrade, SequenceTheorems, TLAPS

LEMMA OtherPart ==
    ASSUME NEW p \in Part
    PROVE  Other(p) \in Part /\ Other(p) # p /\ Other(Other(p)) = p
  BY DEF Part, Other

LEMMA SoundIsWhole == ASSUME NEW c, Sound(c) PROVE Whole(c)
  BY DEF Sound, Whole

\* A transfer writes to the partition that does not run, and only while the
\* image that runs is confirmed; so whatever happens to the former, the latter
\* is sound.  A new image has not yet run while the power is off.
UpgradeInv ==
    /\ boot \in Part /\ part \in Part
    /\ DOMAIN flash = Part
    /\ otaState \in [Part -> {"blank", "new", "pending", "valid", "aborted"}]
    /\ otaState[boot] \in {"new", "pending", "valid"}
    /\ otaState[boot] = "new" => net = "off"
    /\ net = "off" => ~inProgress
    /\ inProgress => part = Other(boot) /\ otaState[boot] = "valid"
    /\ BootIsWhole
    /\ FallbackKept
    /\ ConfirmedIsSound

\* Steps that change neither partition nor otadata and start no transfer.
LEMMA Untouched ==
    ASSUME UpgradeInv, UNCHANGED flashVars, part' \in Part,
           inProgress' => inProgress /\ part' = part,
           net' = "off" => net = "off" \/ ~inProgress',
           net = "off" => net' = "off" \/ otaState[boot] # "new"
    PROVE  UpgradeInv'
  BY DEF UpgradeInv, flashVars, BootIsWhole, FallbackKept, ConfirmedIsSound

LEMMA UpgradeInitInv == UpgradeInit => UpgradeInv
<1> SUFFICES ASSUME UpgradeInit PROVE UpgradeInv
  OBVIOUS
<1>1. /\ boot = 0 /\ part = 0 /\ 0 \in Part /\ inProgress = FALSE
      /\ DOMAIN flash = Part /\ flash[boot] = Firmware(FirstImage)
      /\ otaState[boot] = "valid"
  BY DEF UpgradeInit, Part
<1>2. otaState \in [Part -> {"blank", "new", "pending", "valid", "aborted"}]
  BY DEF UpgradeInit
<1>3. Sound(flash[boot])
  BY <1>1, UpgradeAssumption DEF Sound
<1>. QED  BY <1>1, <1>2, <1>3, SoundIsWhole
        DEF UpgradeInv, BootIsWhole, FallbackKept, ConfirmedIsSound

\* A transfer starts only while the running image is confirmed.
LEMMA StartKeeps ==
    ASSUME UpgradeInv, NEW v \in Image, Start(v) PROVE UpgradeInv'
<1>1. part' = Other(boot) /\ part' \in Part
  BY OtherPart DEF UpgradeInv, Start, NextPartition
<1>2. UNCHANGED flashVars /\ net' = net /\ net = "up"
  BY DEF Start, commissionVars
<1>3. inProgress' => otaState[boot] = "valid"
  BY DEF UpgradeInv, Start
<1>. QED  BY <1>1, <1>2, <1>3
        DEF UpgradeInv, flashVars, BootIsWhole, FallbackKept, ConfirmedIsSound

\* A block changes the other partition at most.
LEMMA BlockKeeps ==
    ASSUME UpgradeInv, NEW n \in BlockLen, Block(n) PROVE UpgradeInv'
<1>1. UNCHANGED <<otaState, boot, part, inProgress, net>>
  BY DEF Block, commissionVars
<1>2. \/ UNCHANGED flash
      \/ inProgress /\ \E data : flash' = [flash EXCEPT ![part] = data]
  <2>1. PICK block, next : Receive(block, next)
    BY DEF Block
  <2>. QED  BY <2>1 DEF Receive, Write
<1>3. CASE UNCHANGED flash
  BY <1>1, <1>3, Untouched DEF UpgradeInv, flashVars
<1>4. CASE inProgress /\ \E data : flash' = [flash EXCEPT ![part] = data]
  <2>1. DOMAIN flash' = Part /\ flash'[boot] = flash[boot]
    BY <1>4, OtherPart DEF UpgradeInv
  <2>2. otaState[boot] = "valid"
    BY <1>4 DEF UpgradeInv
  <2>. QED  BY <1>1, <1>4, <2>1, <2>2
          DEF UpgradeInv, BootIsWhole, FallbackKept, ConfirmedIsSound
<1>. QED  BY <1>2, <1>3, <1>4

\* The new image takes over from a confirmed one, which stays.
LEMMA FinishOkKeeps == ASSUME UpgradeInv, FinishOk PROVE UpgradeInv'
<1>1. /\ inProgress /\ part = Other(boot) /\ otaState[boot] = "valid"
      /\ boot \in Part /\ part \in Part /\ Other(part) = boot /\ part # boot
  BY OtherPart DEF UpgradeInv, FinishOk
<1>2. /\ boot' = part /\ part' \in Part /\ flash' = flash /\ net' = "off" /\ ~inProgress'
      /\ otaState' = [otaState EXCEPT ![part] = "new"]
  BY DEF FinishOk, PowerOff, NetOff, Part
<1>3. otaState'[boot'] = "new" /\ otaState'[boot] = "valid"
  BY <1>1, <1>2 DEF UpgradeInv
<1>4. Whole(flash[part]) /\ Sound(flash[boot])
  BY <1>1 DEF UpgradeInv, FinishOk, EndOk, ConfirmedIsSound
<1>5. otaState' \in [Part -> {"blank", "new", "pending", "valid", "aborted"}]
  BY <1>2 DEF UpgradeInv
<1>. QED  BY <1>1, <1>2, <1>3, <1>4, <1>5
        DEF UpgradeInv, BootIsWhole, FallbackKept, ConfirmedIsSound

\* Only an image that has joined is confirmed.
LEMMA JoinKeeps == ASSUME UpgradeInv, Join PROVE UpgradeInv'
<1>1. /\ Sound(flash[boot]) /\ net # "off" /\ net' = "up"
      /\ UNCHANGED <<flash, boot, part, inProgress>>
  BY DEF Join, Joining, StartedKnown, SteeredOk, Joined, clientVars
<1>2. otaState' \in {otaState, [otaState EXCEPT ![boot] = "valid"]}
  BY DEF Join, MarkValid
<1>3. CASE otaState' = otaState
  BY <1>1, <1>3 DEF UpgradeInv, BootIsWhole, FallbackKept, ConfirmedIsSound
<1>4. CASE otaState' = [otaState EXCEPT ![boot] = "valid"]
  <2>1. /\ otaState'[boot] = "valid"
        /\ otaState' \in [Part -> {"blank", "new", "pending", "valid", "aborted"}]
    BY <1>4 DEF UpgradeInv
  <2>. QED  BY <1>1, <2>1, SoundIsWhole
          DEF UpgradeInv, BootIsWhole, FallbackKept, ConfirmedIsSound
<1>. QED  BY <1>2, <1>3, <1>4

\* The bootloader runs a new image once, and goes back to the one before.
LEMMA BootUpKeeps == ASSUME UpgradeInv, BootUp PROVE UpgradeInv'
<1>1. /\ net = "off" /\ net' = "starting" /\ ~inProgress
      /\ UNCHANGED <<flash, part, inProgress>>
  BY DEF UpgradeInv, BootUp, NetBoot, clientVars
<1>2. CASE otaState[boot] = "new"
  <2>1. boot' = boot /\ otaState' = [otaState EXCEPT ![boot] = "pending"]
    BY <1>2 DEF BootUp
  <2>2. /\ otaState'[boot] = "pending" /\ otaState'[Other(boot)] = otaState[Other(boot)]
        /\ otaState' \in [Part -> {"blank", "new", "pending", "valid", "aborted"}]
    BY <2>1, OtherPart DEF UpgradeInv
  <2>. QED  BY <1>1, <1>2, <2>1, <2>2
          DEF UpgradeInv, BootIsWhole, FallbackKept, ConfirmedIsSound
<1>3. CASE otaState[boot] = "pending"
  <2>1. boot' = Other(boot) /\ otaState' = [otaState EXCEPT ![boot] = "aborted"]
    BY <1>3 DEF BootUp
  <2>2. /\ boot' \in Part /\ otaState'[boot'] = "valid" /\ Sound(flash[boot'])
        /\ otaState' \in [Part -> {"blank", "new", "pending", "valid", "aborted"}]
    BY <1>3, <2>1, OtherPart DEF UpgradeInv, FallbackKept
  <2>. QED  BY <1>1, <2>2, SoundIsWhole
          DEF UpgradeInv, BootIsWhole, FallbackKept, ConfirmedIsSound
<1>4. CASE otaState[boot] = "valid"
  <2>1. UNCHANGED flashVars
    BY <1>1, <1>4 DEF BootUp, flashVars
  <2>. QED  BY <1>1, <1>4, <2>1, Untouched DEF UpgradeInv
<1>. QED  BY <1>2, <1>3, <1>4 DEF UpgradeInv

LEMMA UpgradeStepInv ==
    ASSUME UpgradeInv, [UpgradeNext]_upgradeVars PROVE UpgradeInv'
<1>1. CASE FinishFailed
  BY <1>1, Untouched DEF FinishFailed, UpgradeInv, commissionVars
<1>2. CASE Abort
  BY <1>2, Untouched DEF Abort, UpgradeInv, commissionVars
<1>3. CASE GiveUp
  BY <1>3, Untouched DEF GiveUp, UpgradeInv, commissionVars, clientVars
<1>4. CASE Search
  BY <1>4, Untouched DEF Search, Searching, SkipStartup, StartedNew, SteeredFailed, Retry,
        UpgradeInv, clientVars
<1>5. CASE FailToStart
  BY <1>5, Untouched DEF FailToStart, StartFailed, UpgradeInv, clientVars
<1>6. CASE BeRemoved
  BY <1>6, Untouched DEF BeRemoved, Leave, UpgradeInv, clientVars
<1>7. CASE Crash
  BY <1>7, Untouched DEF Crash, PowerOff, NetOff, UpgradeInv, flashVars, Part
<1>8. CASE PowerLoss
  BY <1>8, Untouched DEF PowerLoss, PowerOff, NetOff, UpgradeInv, flashVars, Part
<1>9. CASE UNCHANGED upgradeVars
  BY <1>9, Untouched DEF upgradeVars, commissionVars, clientVars, UpgradeInv
<1>. QED  BY <1>1, <1>2, <1>3, <1>4, <1>5, <1>6, <1>7, <1>8, <1>9, StartKeeps, BlockKeeps,
             FinishOkKeeps, JoinKeeps, BootUpKeeps DEF UpgradeNext

THEOREM UpgradeIsSafe == UpgradeSpec => []UpgradeInv
  BY UpgradeInitInv, UpgradeStepInv, PTL DEF UpgradeSpec

\* The partition that boots holds a whole image, wherever a transfer was cut
\* short (espir_ota_handle_value: esp_ota_end before esp_ota_set_boot_partition).
THEOREM BootAlwaysWhole == UpgradeSpec => []BootIsWhole
<1>1. UpgradeInv => BootIsWhole
  BY DEF UpgradeInv
<1>. QED  BY <1>1, UpgradeIsSafe, PTL

\* While an image is on trial, a confirmed one is in the other partition.
THEOREM FallbackAlwaysKept == UpgradeSpec => []FallbackKept
<1>1. UpgradeInv => FallbackKept
  BY DEF UpgradeInv
<1>. QED  BY <1>1, UpgradeIsSafe, PTL

\* No image that cannot join is ever confirmed (espir_ota_mark_valid).
THEOREM ConfirmedAlwaysSound == UpgradeSpec => []ConfirmedIsSound
<1>1. UpgradeInv => ConfirmedIsSound
  BY DEF UpgradeInv
<1>. QED  BY <1>1, UpgradeIsSafe, PTL

-----------------------------------------------------------------------------
(* What a transfer writes                                                  *)

Octets == Image \X (1 .. FwLen)

LEMMA FirmwareIsSeq ==
    ASSUME NEW v \in Image
    PROVE  Firmware(v) \in Seq(Octets) /\ Len(Firmware(v)) = FwLen
<1>1. FwLen \in Nat /\ \A i \in 1 .. FwLen : <<v, i>> \in Octets
  BY UpgradeAssumption DEF Octets
<1>. QED  BY <1>1 DEF Firmware

LEMMA FileIsSeq ==
    ASSUME NEW v \in Image
    PROVE  /\ File(v) \in Seq(Image \X (0 .. FwLen))
           /\ Len(File(v)) = TagLen + FwLen
<1>. DEFINE S == Image \X (0 .. FwLen)
            tag == [i \in 1 .. TagLen |-> <<v, 0>>]
<1>1. FwLen \in Nat /\ TagLen \in Nat /\ <<v, 0>> \in S
  BY UpgradeAssumption DEF TagLen
<1>2. tag \in Seq(S) /\ Len(tag) = TagLen
  BY <1>1
<1>3. Firmware(v) \in Seq(S) /\ Len(Firmware(v)) = FwLen
  <2>1. Octets \subseteq S
    BY <1>1 DEF Octets
  <2>. QED  BY <2>1, FirmwareIsSeq, SeqMonotonic
<1>4. File(v) = tag \o Firmware(v)
  BY DEF File
<1>. HIDE DEF S, tag
<1>. QED  BY <1>2, <1>3, <1>4, ConcatProperties DEF S

\* What the file holds after the header is the firmware.
LEMMA AfterHeader ==
    ASSUME NEW v \in Image, NEW m \in TagLen .. TagLen + FwLen, NEW n \in m .. TagLen + FwLen
    PROVE  SubSeq(File(v), m + 1, n) = SubSeq(Firmware(v), m - TagLen + 1, n - TagLen)
<1>. DEFINE S == Image \X (0 .. FwLen)
            tag == [i \in 1 .. TagLen |-> <<v, 0>>]
<1>1. FwLen \in Nat /\ TagLen \in Nat /\ <<v, 0>> \in S
  BY UpgradeAssumption DEF TagLen
<1>2. tag \in Seq(S) /\ Len(tag) = TagLen
  BY <1>1
<1>3. Firmware(v) \in Seq(S) /\ Len(Firmware(v)) = FwLen
  <2>1. Octets \subseteq S
    BY <1>1 DEF Octets
  <2>. QED  BY <2>1, FirmwareIsSeq, SeqMonotonic
<1>4. File(v) = tag \o Firmware(v)
  BY DEF File
<1>5. m \in Nat /\ n \in Nat /\ TagLen <= m /\ m <= n /\ n <= TagLen + FwLen
  BY <1>1
<1>. HIDE DEF S, tag
<1>6. CASE m = n
  <2>1. SubSeq(File(v), m + 1, n) = <<>>
    BY <1>5, <1>6, SubSeqEmpty
  <2>2. SubSeq(Firmware(v), m - TagLen + 1, n - TagLen) = <<>>
    BY <1>1, <1>5, <1>6, SubSeqEmpty
  <2>. QED  BY <2>1, <2>2
<1>7. CASE m < n
  <2>. DEFINE lo == m + 1
  <2>1. lo \in Len(tag) + 1 .. Len(tag) + Len(Firmware(v))
    BY <1>1, <1>2, <1>3, <1>5, <1>7
  <2>2. n \in Len(tag) + 1 .. Len(tag) + Len(Firmware(v))
    BY <1>1, <1>2, <1>3, <1>5, <1>7
  <2>. HIDE DEF lo
  <2>3. SubSeq(tag \o Firmware(v), lo, n)
          = SubSeq(Firmware(v), lo - Len(tag), n - Len(tag))
    BY <1>2, <1>3, <2>1, <2>2, SubSeqOfConcat2
  <2>4. lo - Len(tag) = m - TagLen + 1 /\ n - Len(tag) = n - TagLen
    BY <1>1, <1>2, <1>5 DEF lo
  <2>. QED  BY <1>4, <2>3, <2>4 DEF lo
<1>8. m = n \/ m < n
  BY <1>5, SMT
<1>. QED  BY <1>6, <1>7, <1>8

LEMMA BlockLength ==
    ASSUME NEW v \in Image, NEW m \in Nat, NEW n \in Nat, m < n, n <= TagLen + FwLen
    PROVE  Len(SubSeq(File(v), m + 1, n)) = n - m
<1>. DEFINE file == File(v)
            lo == m + 1
            S == Image \X (0 .. FwLen)
<1>1. TagLen \in Nat /\ FwLen \in Nat
  BY UpgradeAssumption DEF TagLen
<1>2. file \in Seq(S) /\ Len(file) = TagLen + FwLen
  BY FileIsSeq
<1>3. lo \in Int /\ n \in Int /\ lo <= n /\ n - lo + 1 = n - m
  BY SMT
<1>. HIDE DEF file, S
<1>4. \A i \in lo .. n : i \in 1 .. Len(file)
  BY <1>1, <1>2
<1>5. \A i \in lo .. n : file[i] \in S
  BY <1>2, <1>4, ElementOfSeq
<1>. HIDE DEF lo
<1>6. Len(SubSeq(file, lo, n)) = IF lo <= n THEN n - lo + 1 ELSE 0
  BY <1>3, <1>5, SubSeqProperties
<1>7. Len(SubSeq(file, lo, n)) = n - m
  BY <1>3, <1>6
<1>. QED  BY <1>7 DEF file, lo

\* What the first block brings when the header has been taken off
LEMMA HeaderOff ==
    ASSUME NEW v \in Image, NEW m \in Nat, NEW n \in Nat,
           m + TagLen <= n, n <= TagLen + FwLen
    PROVE  SubSeq(SubSeq(File(v), m + 1, n), TagLen + 1, n - m)
              = SubSeq(Firmware(v), m + 1, n - TagLen)
<1>. DEFINE S == Image \X (0 .. FwLen)
            lo == m + 1
            file == File(v)
<1>1. FwLen \in Nat /\ TagLen \in Nat \ {0}
  BY UpgradeAssumption DEF TagLen
<1>2. file \in Seq(S) /\ Len(file) = TagLen + FwLen
  BY FileIsSeq
<1>. HIDE DEF S, file
<1>3. SubSeq(SubSeq(file, lo, n), TagLen + 1, n - m) = SubSeq(file, m + TagLen + 1, n)
  <2>1. CASE n = m + TagLen
    <3>1. n - m < TagLen + 1 /\ n < m + TagLen + 1
      BY <1>1, <2>1
    <3>2. n - m \in Int /\ TagLen + 1 \in Int /\ n \in Int /\ m + TagLen + 1 \in Int
      BY <1>1
    <3>. QED  BY <3>1, <3>2, SubSeqEmpty
  <2>2. CASE n > m + TagLen
    <3>. DEFINE a == TagLen + 1
                b == n - m
                low == lo + a - 1
                high == lo + b - 1
    <3>1. lo \in 1 .. Len(file) /\ n \in 1 .. Len(file)
      BY <1>1, <1>2, <2>2
    <3>2. a \in 1 .. n - lo + 1 /\ b \in 1 .. n - lo + 1
      BY <1>1, <2>2
    <3>3. lo + (TagLen + 1) - 1 = m + TagLen + 1 /\ lo + (n - m) - 1 = n
      BY <1>1
    <3>. HIDE DEF lo, a, b
    <3>4. SubSeq(SubSeq(file, lo, n), a, b) = SubSeq(file, low, high)
      BY <1>2, <3>1, <3>2, SubSeqOfSubSeq
    <3>5. low = m + TagLen + 1 /\ high = n
      BY <3>3 DEF a, b
    <3>. HIDE DEF low, high
    <3>. QED  BY <3>4, <3>5 DEF a, b
  <2>3. n = m + TagLen \/ n > m + TagLen
    BY <1>1, SMT
  <2>. QED  BY <2>1, <2>2, <2>3
<1>4. SubSeq(file, m + TagLen + 1, n) = SubSeq(Firmware(v), m + 1, n - TagLen)
  <2>1. m + TagLen \in TagLen .. TagLen + FwLen /\ n \in m + TagLen .. TagLen + FwLen
    BY <1>1
  <2>. DEFINE k == m + TagLen
  <2>2. k \in TagLen .. TagLen + FwLen /\ n \in k .. TagLen + FwLen
    BY <2>1
  <2>. HIDE DEF k
  <2>3. SubSeq(file, k + 1, n) = SubSeq(Firmware(v), k - TagLen + 1, n - TagLen)
    BY <2>2, AfterHeader DEF file
  <2>. DEFINE low == k - TagLen + 1
  <2>4. low = m + 1
    BY <1>1 DEF k
  <2>. HIDE DEF low
  <2>5. SubSeq(file, k + 1, n) = SubSeq(Firmware(v), low, n - TagLen)
    BY <2>3 DEF low
  <2>. QED  BY <2>4, <2>5, Zenon DEF k
<1>. QED  BY <1>3, <1>4 DEF file

\* A part of the firmware, for what may come next
LEMMA PartOfFirmware ==
    ASSUME NEW v \in Image, NEW m \in Nat, NEW n \in Nat, m <= n, n <= FwLen
    PROVE  /\ SubSeq(Firmware(v), m + 1, n) \in Seq(Octets)
           /\ Len(SubSeq(Firmware(v), m + 1, n)) = n - m
           /\ SubSeq(Firmware(v), 1, m) \o SubSeq(Firmware(v), m + 1, n)
                = SubSeq(Firmware(v), 1, n)
<1>. DEFINE fw == Firmware(v)
<1>1. FwLen \in Nat /\ fw \in Seq(Octets) /\ Len(fw) = FwLen
  BY UpgradeAssumption, FirmwareIsSeq
<1>. HIDE DEF fw
<1>2. \A i \in m + 1 .. n : fw[i] \in Octets
  BY <1>1, ElementOfSeq
<1>3. m + 1 \in Int /\ n \in Int /\ n - (m + 1) + 1 = n - m /\ (m + 1 <= n \/ n - m = 0)
  BY SMT
<1>4. /\ SubSeq(fw, m + 1, n) \in Seq(Octets)
      /\ Len(SubSeq(fw, m + 1, n)) = IF m + 1 <= n THEN n - (m + 1) + 1 ELSE 0
  BY <1>2, <1>3, SubSeqProperties
<1>5. Len(SubSeq(fw, m + 1, n)) = n - m
  BY <1>3, <1>4
<1>6. 1 \in 1 .. Len(fw) + 1 /\ m \in 1 - 1 .. Len(fw) /\ n \in m .. Len(fw)
  BY <1>1
<1>7. SubSeq(fw, 1, m) \o SubSeq(fw, m + 1, n) = SubSeq(fw, 1, n)
  BY <1>1, <1>6, ConcatAdjacentSubSeq
<1>. QED  BY <1>4, <1>5, <1>7 DEF fw

Transferring == inProgress = TRUE /\ xfer.phase \in {"run", "spoilt"}

\* A partition holds octets of firmwares, never of a header, at most as many
\* as have been handed over; without an error it holds what has been, whole.
\* The header is awaited as long as nothing has been written.
WriteInv ==
    /\ flash \in [Part -> Seq(Octets)]
    /\ \A p \in Part : Len(flash[p]) <= FwLen
    /\ xfer.phase = "run" => inProgress = TRUE
    /\ Transferring =>
          \/ handle = "fresh" /\ firstBlock = TRUE
          \/ /\ handle = "written" /\ firstBlock = FALSE
             /\ xfer.sent >= TagLen
             /\ Len(flash[part]) <= xfer.sent - TagLen
    /\ xfer.phase = "run" /\ handle = "fresh" => xfer.sent = 0
    /\ xfer.phase = "run" /\ handle = "written" =>
          flash[part] = SubSeq(Firmware(xfer.image), 1, xfer.sent - TagLen)

\* The ranges of the other variables
ClientTypes ==
    /\ CommissionTypeOK
    /\ handle \in {"closed", "fresh", "written"}
    /\ inProgress \in BOOLEAN
    /\ firstBlock \in BOOLEAN
    /\ xfer \in [phase : {"none", "run", "spoilt", "stop"}, image : Image,
                 sent : 0 .. TagLen + FwLen]
    /\ losses \in 0 .. MaxPowerLoss

Xfer == [phase : {"none", "run", "spoilt", "stop"}, image : Image, sent : 0 .. TagLen + FwLen]

\* The block of octets from xfer.sent to upto
BlockUpto(upto) ==
    /\ xfer.phase \in {"run", "spoilt"}
    /\ Receive(SubSeq(File(xfer.image), xfer.sent + 1, upto), [xfer EXCEPT !.sent = upto])

LEMMA BlockIsUpto ==
    ASSUME ClientTypes, NEW n \in BlockLen, Block(n)
    PROVE  \E upto \in 0 .. TagLen + FwLen : xfer.sent < upto /\ BlockUpto(upto)
<1>. DEFINE left == Len(File(xfer.image)) - xfer.sent
            upto == xfer.sent + (IF n < left THEN n ELSE left)
<1>1. n \in Nat \ {0} /\ TagLen \in Nat /\ FwLen \in Nat
  BY UpgradeAssumption DEF TagLen
<1>2. xfer.image \in Image /\ xfer.sent \in Nat
  BY <1>1 DEF ClientTypes
<1>3. Len(File(xfer.image)) = TagLen + FwLen
  BY <1>2, FileIsSeq
<1>4. left > 0 /\ BlockUpto(upto)
  BY DEF Block, BlockUpto
<1>5. upto \in 0 .. TagLen + FwLen /\ xfer.sent < upto
  <2>1. left \in Nat \ {0} /\ left = TagLen + FwLen - xfer.sent
    BY <1>1, <1>2, <1>3, <1>4
  <2>. HIDE DEF left
  <2>2. CASE n < left
    <3>1. upto = xfer.sent + n
      BY <2>2
    <3>. QED  BY <1>1, <1>2, <2>1, <2>2, <3>1
  <2>3. CASE ~(n < left)
    <3>1. upto = xfer.sent + left
      BY <2>3
    <3>. QED  BY <1>1, <1>2, <2>1, <3>1
  <2>. QED  BY <2>2, <2>3
<1>. HIDE DEF upto, left
<1>. QED  BY <1>4, <1>5

\* An answer to a block
LEMMA AnswerTypes ==
    ASSUME ClientTypes, NEW upto \in 0 .. TagLen + FwLen, NEW next,
           next = [xfer EXCEPT !.sent = upto]
    PROVE  /\ next \in Xfer /\ AfterError(next) \subseteq Xfer
           /\ next.phase = xfer.phase /\ next.image = xfer.image /\ next.sent = upto
           /\ \A x \in AfterError(next) : x.phase = "stop" \/ (x.phase = "spoilt" /\ x.sent = upto)
<1>1. xfer \in Xfer
  BY DEF ClientTypes, Xfer
<1>2. /\ next \in Xfer
      /\ next.phase = xfer.phase /\ next.image = xfer.image /\ next.sent = upto
  BY <1>1 DEF Xfer
<1>3. ASSUME NEW x \in AfterError(next)
      PROVE  x \in Xfer /\ (x.phase = "stop" \/ (x.phase = "spoilt" /\ x.sent = upto))
  <2>1. x = [xfer EXCEPT !.phase = "stop"] \/ x = [next EXCEPT !.phase = "spoilt"]
    BY <1>3 DEF AfterError
  <2>2. CASE x = [xfer EXCEPT !.phase = "stop"]
    BY <1>1, <2>2 DEF Xfer
  <2>3. CASE x = [next EXCEPT !.phase = "spoilt"]
    BY <1>2, <2>3 DEF Xfer
  <2>. QED  BY <2>1, <2>2, <2>3
<1>4. AfterError(next) \subseteq Xfer
  BY <1>3
<1>. QED  BY <1>2, <1>3, <1>4

LEMMA NetTypesStep ==
    ASSUME CommissionTypeOK, [UpgradeNext]_upgradeVars PROVE CommissionTypeOK'
<1>. USE DEF CommissionTypeOK, NetState, Status, commissionVars
<1>1. CASE Join
  BY <1>1 DEF Join, Joining, StartedKnown, SteeredOk, Joined
<1>2. CASE Search
  BY <1>2 DEF Search, Searching, SkipStartup, StartedNew, SteeredFailed, Retry
<1>3. CASE FailToStart \/ BeRemoved
  BY <1>3 DEF FailToStart, StartFailed, BeRemoved, Leave
<1>4. CASE FinishOk \/ Crash \/ PowerLoss
  BY <1>4 DEF FinishOk, Crash, PowerLoss, PowerOff, NetOff
<1>5. CASE BootUp
  BY <1>5 DEF BootUp, NetBoot
<1>6. CASE FinishFailed \/ Abort \/ GiveUp \/ UNCHANGED upgradeVars
  BY <1>6 DEF FinishFailed, Abort, GiveUp, upgradeVars
<1>7. ASSUME NEW v \in Image, Start(v) PROVE CommissionTypeOK'
  BY <1>7 DEF Start
<1>8. ASSUME NEW n \in BlockLen, Block(n) PROVE CommissionTypeOK'
  BY <1>8 DEF Block
<1>. QED  BY <1>1, <1>2, <1>3, <1>4, <1>5, <1>6, <1>7, <1>8 DEF UpgradeNext

LEMMA NoXferType == NoXfer \in Xfer /\ NoXfer.phase = "none"
<1>1. 0 \in 0 .. TagLen + FwLen
  BY UpgradeAssumption DEF TagLen
<1>. QED  BY <1>1, UpgradeAssumption DEF NoXfer, Xfer

LEMMA LossesStep ==
    ASSUME losses \in 0 .. MaxPowerLoss, [UpgradeNext]_upgradeVars
    PROVE  losses' \in 0 .. MaxPowerLoss
<1>1. CASE PowerLoss
  BY <1>1, UpgradeAssumption DEF PowerLoss
<1>2. ASSUME NEW v \in Image, Start(v) PROVE losses' = losses
  BY <1>2 DEF Start
<1>3. ASSUME NEW n \in BlockLen, Block(n) PROVE losses' = losses
  BY <1>3 DEF Block
<1>4. ASSUME \/ FinishOk \/ FinishFailed \/ Abort \/ GiveUp \/ Join \/ Search \/ FailToStart
             \/ BeRemoved \/ Crash \/ BootUp \/ UNCHANGED upgradeVars
      PROVE  losses' = losses
  BY <1>4, Zenon DEF FinishOk, FinishFailed, Abort, GiveUp, Join, Search, FailToStart, BeRemoved,
                     Crash, BootUp, upgradeVars
<1>. QED  BY <1>1, <1>2, <1>3, <1>4 DEF UpgradeNext

LEMMA ClientTypesStep ==
    ASSUME ClientTypes, [UpgradeNext]_upgradeVars PROVE ClientTypes'
<1>. USE DEF clientVars
<1>1. CommissionTypeOK' /\ losses' \in 0 .. MaxPowerLoss
  BY NetTypesStep, LossesStep DEF ClientTypes
<1>0. xfer \in Xfer /\ handle \in {"closed", "fresh", "written"}
      /\ inProgress \in BOOLEAN /\ firstBlock \in BOOLEAN
  BY DEF ClientTypes, Xfer
<1>. DEFINE Goal == /\ xfer' \in Xfer /\ handle' \in {"closed", "fresh", "written"}
                    /\ inProgress' \in BOOLEAN /\ firstBlock' \in BOOLEAN
<1>2. ASSUME NEW v \in Image, Start(v) PROVE Goal
  <2>1. 0 \in 0 .. TagLen + FwLen
    BY UpgradeAssumption DEF TagLen
  <2>2. xfer' \in Xfer
    BY <1>2, <2>1 DEF Start, Xfer
  <2>3. inProgress' \in BOOLEAN /\ firstBlock' \in BOOLEAN
    BY <1>2, Zenon DEF Start
  <2>4. handle' \in {"closed", "fresh", "written"}
    BY <1>0, <1>2 DEF Start
  <2>. QED  BY <2>2, <2>3, <2>4
<1>3. ASSUME NEW n \in BlockLen, Block(n) PROVE Goal
  <2>1. PICK upto \in 0 .. TagLen + FwLen : BlockUpto(upto)
    BY <1>3, BlockIsUpto
  <2>. DEFINE block == SubSeq(File(xfer.image), xfer.sent + 1, upto)
              next == [xfer EXCEPT !.sent = upto]
  <2>2. next \in Xfer /\ AfterError(next) \subseteq Xfer
    BY AnswerTypes
  <2>. HIDE DEF block, next
  <2>3. Receive(block, next)
    BY <2>1 DEF BlockUpto, block, next
  <2>4. xfer' \in Xfer
    BY <2>2, <2>3 DEF Receive, Write
  <2>5. handle' \in {"closed", "fresh", "written"}
    BY <1>0, <2>3 DEF Receive, Write
  <2>6. firstBlock' = firstBlock \/ firstBlock' = FALSE
    BY <2>3, Zenon DEF Receive
  <2>7. inProgress' = inProgress
    BY <1>3, Zenon DEF Block
  <2>. QED  BY <1>0, <2>4, <2>5, <2>6, <2>7, Zenon
<1>4. ASSUME FinishOk \/ Crash \/ PowerLoss PROVE Goal
  <2>1. xfer' = NoXfer /\ handle' = "closed" /\ inProgress' = FALSE /\ firstBlock' = FALSE
    BY <1>4 DEF FinishOk, Crash, PowerLoss, PowerOff
  <2>2. inProgress' \in BOOLEAN /\ firstBlock' \in BOOLEAN
    BY <2>1, Zenon
  <2>. QED  BY <2>1, <2>2, NoXferType
<1>5. ASSUME FinishFailed \/ Abort PROVE Goal
  <2>1. inProgress' = FALSE /\ UNCHANGED firstBlock
    BY <1>5, Zenon DEF FinishFailed, Abort
  <2>2. inProgress' \in BOOLEAN /\ firstBlock' \in BOOLEAN
    BY <1>0, <2>1, Zenon
  <2>3. xfer' = NoXfer /\ handle' \in {handle, "closed"}
    BY <1>5 DEF FinishFailed, Abort
  <2>. QED  BY <1>0, <2>2, <2>3, NoXferType
<1>6. ASSUME \/ GiveUp \/ BeRemoved \/ Join \/ Search \/ FailToStart \/ BootUp
             \/ UNCHANGED upgradeVars
      PROVE  Goal
  <2>1. UNCHANGED <<handle, inProgress, firstBlock>>
    BY <1>6, Zenon DEF GiveUp, BeRemoved, Join, Search, FailToStart, BootUp, upgradeVars
  <2>2. xfer' \in {xfer, NoXfer}
    BY <1>6 DEF GiveUp, BeRemoved, Join, Search, FailToStart, BootUp, upgradeVars
  <2>3. inProgress' \in BOOLEAN /\ firstBlock' \in BOOLEAN
    BY <1>0, <2>1, Zenon
  <2>. QED  BY <1>0, <2>1, <2>2, <2>3, NoXferType
<1>. HIDE DEF Goal
<1>7. Goal
  BY <1>2, <1>3, <1>4, <1>5, <1>6 DEF UpgradeNext
<1>. QED  BY <1>1, <1>7 DEF ClientTypes, Xfer, Goal

\* A write that leaves what has been handed over, or an error
LEMMA WriteKeeps ==
    ASSUME ClientTypes, WriteInv, part \in Part, Transferring,
           NEW upto \in TagLen .. TagLen + FwLen,
           NEW next, next = [xfer EXCEPT !.sent = upto],
           NEW data, Write(data, next), firstBlock' = FALSE, UNCHANGED <<part, inProgress>>,
           Written(data) \in Seq(Octets), Len(Written(data)) <= upto - TagLen,
           Written(<<>>) \in Seq(Octets), Len(Written(<<>>)) <= upto - TagLen,
           xfer.phase = "run" => Written(data) = SubSeq(Firmware(xfer.image), 1, upto - TagLen)
    PROVE  WriteInv'
<1>1. TagLen \in Nat /\ FwLen \in Nat /\ upto \in 0 .. TagLen + FwLen /\ upto - TagLen <= FwLen
  BY UpgradeAssumption DEF TagLen
<1>2. /\ next.phase = xfer.phase /\ next.image = xfer.image /\ next.sent = upto
      /\ \A x \in AfterError(next) : x.phase = "stop" \/ (x.phase = "spoilt" /\ x.sent = upto)
  BY <1>1, AnswerTypes
<1>3. PICK content \in {Written(data), Written(<<>>)} :
         /\ flash' = [flash EXCEPT ![part] = content] /\ handle' = "written"
         /\ (content = Written(data) /\ xfer' = next) \/ xfer' \in AfterError(next)
  BY DEF Write
<1>4. content \in Seq(Octets) /\ Len(content) <= upto - TagLen /\ Len(content) \in Nat
  BY <1>3, LenProperties
<1>5. /\ flash' \in [Part -> Seq(Octets)] /\ flash'[part] = content
      /\ \A p \in Part : Len(flash'[p]) <= FwLen
  BY <1>1, <1>3, <1>4 DEF WriteInv
<1>6. inProgress' = TRUE /\ part' = part
  BY DEF Transferring
<1>7. \/ xfer'.phase = "stop"
      \/ xfer'.phase \in {"run", "spoilt"} /\ xfer'.sent = upto
  BY <1>2, <1>3 DEF Transferring
<1>8. xfer'.phase = "run" =>
         /\ xfer'.image = xfer.image /\ xfer'.sent = upto
         /\ content = SubSeq(Firmware(xfer.image), 1, upto - TagLen)
  BY <1>2, <1>3
<1>9. Transferring' => xfer'.sent = upto /\ upto >= TagLen
  BY <1>1, <1>7 DEF Transferring
<1>. QED  BY <1>3, <1>4, <1>5, <1>6, <1>8, <1>9 DEF WriteInv

\* The first block, less the header
LEMMA FirstBlockKeeps ==
    ASSUME ClientTypes, WriteInv, part \in Part, Transferring, firstBlock = TRUE,
           NEW upto \in 0 .. TagLen + FwLen, xfer.sent < upto,
           NEW block, block = SubSeq(File(xfer.image), xfer.sent + 1, upto),
           Len(block) >= TagLen,
           NEW next, next = [xfer EXCEPT !.sent = upto],
           Write(SubSeq(block, TagLen + 1, Len(block)), next),
           firstBlock' = FALSE, UNCHANGED <<part, inProgress>>
    PROVE  WriteInv'
<1>. DEFINE v == xfer.image
            m == xfer.sent
            data == SubSeq(block, TagLen + 1, Len(block))
<1>1. TagLen \in Nat /\ FwLen \in Nat /\ v \in Image /\ m \in Nat /\ upto \in Nat
  BY UpgradeAssumption DEF ClientTypes, TagLen
<1>2. Len(block) = upto - m
  BY <1>1, BlockLength
<1>3. m + TagLen <= upto /\ upto <= TagLen + FwLen /\ upto \in TagLen .. TagLen + FwLen
  BY SMTT(30), <1>1, <1>2
<1>4. data = SubSeq(Firmware(v), m + 1, upto - TagLen)
  BY <1>1, <1>2, <1>3, HeaderOff
<1>5. /\ data \in Seq(Octets) /\ Len(data) = upto - TagLen - m
  <2>. DEFINE n == upto - TagLen
  <2>1. n \in Nat /\ m <= n /\ n <= FwLen
    BY SMTT(30), <1>1, <1>3
  <2>. HIDE DEF n
  <2>2. SubSeq(Firmware(v), m + 1, n) \in Seq(Octets) /\ Len(SubSeq(Firmware(v), m + 1, n)) = n - m
    BY <1>1, <2>1, PartOfFirmware
  <2>. QED  BY <1>4, <2>2 DEF n
<1>6. handle = "fresh"
  BY DEF WriteInv
<1>. HIDE DEF data
<1>7. Written(data) = data /\ Written(<<>>) = <<>>
  BY <1>5, <1>6, ConcatEmptySeq, EmptySeq DEF Written
<1>8. Len(data) <= upto - TagLen /\ Len(<<>>) <= upto - TagLen /\ <<>> \in Seq(Octets)
  BY SMTT(30), <1>1, <1>3, <1>5, EmptySeq
<1>9. xfer.phase = "run" => data = SubSeq(Firmware(v), 1, upto - TagLen)
  <2>1. xfer.phase = "run" => m + 1 = 1
    BY <1>6 DEF WriteInv
  <2>. QED  BY <1>4, <2>1
<1>. QED  BY <1>3, <1>5, <1>7, <1>8, <1>9, WriteKeeps DEF data

LEMMA LaterBlockKeeps ==
    ASSUME ClientTypes, WriteInv, part \in Part, Transferring, firstBlock = FALSE,
           NEW upto \in 0 .. TagLen + FwLen, xfer.sent < upto,
           NEW next, next = [xfer EXCEPT !.sent = upto],
           Write(SubSeq(File(xfer.image), xfer.sent + 1, upto), next),
           firstBlock' = FALSE, UNCHANGED <<part, inProgress>>
    PROVE  WriteInv'
<1>. DEFINE v == xfer.image
            m == xfer.sent - TagLen
            n == upto - TagLen
            data == SubSeq(Firmware(v), m + 1, n)
<1>1. TagLen \in Nat /\ FwLen \in Nat /\ v \in Image /\ xfer.sent \in Nat /\ upto \in Nat
  BY UpgradeAssumption DEF ClientTypes, TagLen
<1>2. handle = "written" /\ xfer.sent >= TagLen /\ Len(flash[part]) <= m
  BY DEF WriteInv
<1>3. m \in Nat /\ n \in Nat /\ m <= n /\ n <= FwLen
  BY <1>1, <1>2
<1>4. SubSeq(File(v), xfer.sent + 1, upto) = data
  <2>1. xfer.sent \in TagLen .. TagLen + FwLen /\ upto \in xfer.sent .. TagLen + FwLen
    BY <1>1, <1>2
  <2>. QED  BY <1>1, <2>1, AfterHeader
<1>. HIDE DEF n, m
<1>5. data \in Seq(Octets) /\ Len(data) = n - m
      /\ SubSeq(Firmware(v), 1, m) \o data = SubSeq(Firmware(v), 1, n)
  BY <1>1, <1>3, PartOfFirmware
<1>. HIDE DEF data
<1>6. flash[part] \in Seq(Octets)
  BY DEF WriteInv
<1>7. Written(data) = flash[part] \o data /\ Written(<<>>) = flash[part]
  BY <1>2, <1>6, ConcatEmptySeq DEF Written
<1>8. /\ Written(data) \in Seq(Octets)
      /\ Len(Written(data)) = Len(flash[part]) + Len(data)
  BY <1>5, <1>6, <1>7, ConcatProperties
<1>9. Len(Written(data)) <= n /\ Len(flash[part]) <= n
  <2>1. Len(flash[part]) \in Nat
    BY <1>6, LenProperties
  <2>. QED  BY <1>2, <1>3, <1>5, <1>8, <2>1
<1>10. xfer.phase = "run" => Written(data) = SubSeq(Firmware(v), 1, n)
  <2>1. xfer.phase = "run" => flash[part] = SubSeq(Firmware(v), 1, m)
    BY <1>2 DEF WriteInv, m
  <2>. QED  BY <1>5, <1>7, <2>1
<1>11. upto \in TagLen .. TagLen + FwLen
  BY <1>1, <1>2
<1>. QED  BY <1>4, <1>6, <1>7, <1>8, <1>9, <1>10, <1>11, WriteKeeps DEF n

LEMMA BlockWrites ==
    ASSUME UpgradeInv, ClientTypes, WriteInv, NEW n \in BlockLen, Block(n) PROVE WriteInv'
<1>1. PICK upto \in 0 .. TagLen + FwLen : xfer.sent < upto /\ BlockUpto(upto)
  BY BlockIsUpto
<1>. DEFINE block == SubSeq(File(xfer.image), xfer.sent + 1, upto)
            next == [xfer EXCEPT !.sent = upto]
<1>2. /\ next.phase = xfer.phase /\ next.image = xfer.image /\ next.sent = upto
      /\ \A x \in AfterError(next) : x.phase = "stop" \/ (x.phase = "spoilt" /\ x.sent = upto)
  BY AnswerTypes
<1>3. Receive(block, next) /\ xfer.phase \in {"run", "spoilt"}
  BY <1>1 DEF BlockUpto
<1>4. UNCHANGED <<part, inProgress>> /\ part \in Part
  BY DEF Block, UpgradeInv
<1>5. inProgress \in BOOLEAN /\ firstBlock \in BOOLEAN
  BY DEF ClientTypes
<1>. HIDE DEF block, next
<1>6. CASE ~inProgress /\ xfer' = next /\ UNCHANGED <<flash, handle, firstBlock>>
  <2>1. inProgress # TRUE /\ inProgress' # TRUE
    BY <1>4, <1>6, Zenon
  <2>2. xfer.phase # "run" /\ xfer'.phase # "run" /\ flash' = flash
    BY <1>2, <1>6, <2>1 DEF WriteInv
  <2>. QED  BY <2>1, <2>2 DEF WriteInv, Transferring
<1>7. CASE firstBlock /\ xfer' \in AfterError(next) /\ UNCHANGED <<flash, handle, firstBlock>>
           /\ inProgress
  <2>1. Transferring /\ firstBlock = TRUE
    BY <1>3, <1>5, <1>7 DEF Transferring
  <2>2. handle = "fresh" /\ xfer'.phase # "run"
    BY <1>2, <1>7, <2>1 DEF WriteInv
  <2>3. handle' = "fresh" /\ firstBlock' = TRUE /\ flash' = flash
    BY <1>7, <2>1, <2>2
  <2>. QED  BY <2>2, <2>3 DEF WriteInv
<1>8. CASE /\ inProgress /\ firstBlock /\ Len(block) >= TagLen /\ firstBlock' = FALSE
           /\ Write(SubSeq(block, TagLen + 1, Len(block)), next)
  <2>1. Transferring /\ firstBlock = TRUE
    BY <1>3, <1>5, <1>8 DEF Transferring
  <2>. QED  BY <1>1, <1>4, <1>8, <2>1, FirstBlockKeeps DEF block, next
<1>9. CASE inProgress /\ ~firstBlock /\ Write(block, next) /\ UNCHANGED firstBlock
  <2>1. Transferring /\ firstBlock = FALSE
    BY <1>3, <1>5, <1>9 DEF Transferring
  <2>2. firstBlock' = FALSE
    BY <1>9, <2>1
  <2>. QED  BY <1>1, <1>4, <1>9, <2>1, <2>2, LaterBlockKeeps DEF block, next
<1>. QED  BY <1>3, <1>6, <1>7, <1>8, <1>9 DEF Receive

LEMMA WriteStep ==
    ASSUME UpgradeInv, ClientTypes, WriteInv, [UpgradeNext]_upgradeVars PROVE WriteInv'
<1>. USE DEF clientVars, flashVars
<1>1. ASSUME NEW v \in Image, Start(v) PROVE WriteInv'
  <2>1. /\ flash' = flash /\ firstBlock' = TRUE
        /\ \/ inProgress' = TRUE /\ handle' = "fresh" /\ xfer'.phase = "run" /\ xfer'.sent = 0
           \/ inProgress' = FALSE /\ xfer'.phase # "run"
    BY <1>1 DEF Start
  <2>. QED  BY <2>1 DEF WriteInv, Transferring
<1>2. ASSUME NEW n \in BlockLen, Block(n) PROVE WriteInv'
  BY <1>2, BlockWrites
<1>3. CASE FinishOk \/ Crash \/ PowerLoss \/ FinishFailed \/ Abort \/ GiveUp \/ BeRemoved
  <2>1. flash' = flash /\ xfer' = NoXfer
    BY <1>3 DEF FinishOk, Crash, PowerLoss, PowerOff, FinishFailed, Abort, GiveUp, BeRemoved
  <2>. QED  BY <2>1, NoXferType DEF WriteInv, Transferring
<1>4. CASE Join \/ Search \/ FailToStart \/ BootUp \/ UNCHANGED upgradeVars
  <2>1. UNCHANGED <<flash, xfer, clientVars>>
    BY <1>4 DEF Join, Search, FailToStart, BootUp, upgradeVars
  <2>. QED  BY <2>1 DEF WriteInv, Transferring
<1>. QED  BY <1>1, <1>2, <1>3, <1>4 DEF UpgradeNext

LEMMA UpgradeInitWrites == UpgradeInit => ClientTypes /\ WriteInv
<1>. SUFFICES ASSUME UpgradeInit PROVE ClientTypes /\ WriteInv
  OBVIOUS
<1>1. xfer \in Xfer /\ xfer.phase = "none" /\ 0 \in 0 .. MaxPowerLoss
  BY NoXferType, UpgradeAssumption DEF UpgradeInit
<1>2. CommissionTypeOK
  BY DEF UpgradeInit, CommissionInit, CommissionTypeOK, NetState, Status
<1>3. ClientTypes
  BY <1>1, <1>2 DEF UpgradeInit, ClientTypes, Xfer
<1>4. /\ flash \in [Part -> Seq(Octets)]
      /\ \A p \in Part : Len(flash[p]) <= FwLen
  <2>1. Firmware(FirstImage) \in Seq(Octets) /\ Len(Firmware(FirstImage)) = FwLen
    BY FirmwareIsSeq, UpgradeAssumption
  <2>2. <<>> \in Seq(Octets) /\ Len(<<>>) <= FwLen
    BY EmptySeq, UpgradeAssumption
  <2>3. FwLen <= FwLen
    BY UpgradeAssumption
  <2>. QED  BY <2>1, <2>2, <2>3 DEF UpgradeInit
<1>. QED  BY <1>1, <1>3, <1>4 DEF WriteInv, Transferring

LEMMA WritesAlways == UpgradeSpec => [](UpgradeInv /\ ClientTypes /\ WriteInv)
  BY UpgradeIsSafe, UpgradeInitWrites, ClientTypesStep, WriteStep, PTL DEF UpgradeSpec

\* A partition never holds more than a firmware, nor an octet that is not of
\* one, however a transfer was disturbed; the variables of the client keep
\* their ranges.
THEOREM UpgradeTypeCorrect == UpgradeSpec => []UpgradeTypeOK
<1>1. UpgradeInv /\ ClientTypes /\ WriteInv => UpgradeTypeOK
  <2>. SUFFICES ASSUME UpgradeInv, ClientTypes, WriteInv PROVE UpgradeTypeOK
    OBVIOUS
  <2>1. ASSUME NEW p \in Part, NEW i \in 1 .. Len(flash[p])
        PROVE  flash[p][i] \in Image \X (1 .. FwLen)
    BY ElementOfSeq DEF WriteInv, Octets
  <2>. QED  BY <2>1 DEF UpgradeInv, ClientTypes, WriteInv, UpgradeTypeOK
<1>. QED  BY <1>1, WritesAlways, PTL

\* Without an error of the flash, what is in the partition is what has been
\* handed over less the six octets of the header, for any sizes of firmware and
\* blocks and after any transfers that were given up (espir_ota.c:55-74).
THEOREM WrittenAlwaysPrefix == UpgradeSpec => []WrittenIsPrefix
<1>1. WriteInv => WrittenIsPrefix
  BY DEF WriteInv, WrittenIsPrefix
<1>. QED  BY <1>1, WritesAlways, PTL

=============================================================================
