\* Two good images and a bad one; FwLen and BlockLen so that the first block
\* ends before, at and after the end of the sub-element header.
CONSTANTS
    Image = {v1, v2, v3}
    FirstImage = v1
    BadImage = {v3}
    FwLen = 3
    BlockLen = {4, 6, 7, 9}
    FlashMayFail = TRUE
    MaxPowerLoss = 2
\* A stack that does not start is left alone: the device may stop there.
CHECK_DEADLOCK FALSE
SPECIFICATION UpgradeLiveSpec
INVARIANTS UpgradeTypeOK WrittenIsPrefix BootIsWhole FallbackKept ConfirmedIsSound
PROPERTY Rejoins
