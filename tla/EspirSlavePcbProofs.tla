------------------------ MODULE EspirSlavePcbProofs ------------------------
(***************************************************************************)
(* The slave with both its parts: the chain of battery alarms never ends,  *)
(* the two attributes of the battery agree, and what the LED promises      *)
(* still holds beside the battery.                                         *)
(***************************************************************************)
EXTENDS EspirSlavePcb, TLAPS

-----------------------------------------------------------------------------
(* The LED: the join is confirmed once, however its task and those that    *)
(* notify it interleave.                                                   *)

\* The states of a device that is in its network.
Inside == {"connected", "sending"}

\* A device that has joined stays in one of the states Inside until it loses
\* power, and the LED task never sees another one after it has shown one.
PulseInv ==
    /\ net \in {"up", "left"} <=> joined = TRUE
    /\ joined = TRUE <=> status \in Inside
    /\ joined = TRUE <=> ledState \in Inside
    /\ joined # TRUE => sending = FALSE
    /\ st \in Inside => joined = TRUE
    /\ shown \in Inside => joined = TRUE
    /\ shown \in Inside /\ ledPc = "read" => st \in Inside
    /\ pulses \in {0, 1}
    /\ pulses = 1 => shown \in Inside

\* What holds whenever the power comes on.
LEMMA PulseStart ==
    ASSUME net = "off", joined = FALSE, status = "boot", sending = FALSE, ledState = "off",
           ledPc = "awake", st = "off", shown = "off", pulses = 0
    PROVE  PulseInv
<1>1. joined # TRUE
  OBVIOUS
<1>2. {status, ledState, st, shown} \cap Inside = {}
  BY DEF Inside
<1>. QED  BY <1>1, <1>2 DEF PulseInv

LEMMA PulseInit == IndicatorInit => PulseInv
  BY PulseStart DEF IndicatorInit, CommissionInit

LEMMA SignalKeepsPulse == ASSUME PulseInv, Signal PROVE PulseInv'
<1>1. UNCHANGED <<sending, taskVars>>
  BY DEF Signal
<1>2. CASE Searching
  <2>1. joined # TRUE /\ joined' = joined /\ net' \notin {"up", "left"}
    BY <1>2 DEF PulseInv, Searching, SkipStartup, StartedNew, SteeredFailed, Retry
  <2>2. ledState' \in {ledState, "searching"} /\ status' \in {status, "searching"}
    BY <1>2 DEF Signal, LedSet, LedOf, Searching, SkipStartup, StartedNew, SteeredFailed, Retry
  <2>. QED  BY <1>1, <2>1, <2>2 DEF PulseInv, taskVars, Inside
<1>3. CASE Joining
  <2>1. joined' = TRUE /\ net' = "up" /\ status' = "connected" /\ status # "connected"
    BY <1>3 DEF PulseInv, Joining, StartedKnown, SteeredOk, Joined, Inside
  <2>. QED  BY <1>1, <2>1 DEF PulseInv, Signal, taskVars, Inside, LedSet, LedOf
<1>4. CASE StartFailed
  BY <1>1, <1>4 DEF PulseInv, Signal, StartFailed, taskVars, Inside
<1>5. CASE Leave
  BY <1>1, <1>5 DEF PulseInv, Signal, Leave, taskVars, Inside
<1>. QED  BY <1>2, <1>3, <1>4, <1>5 DEF Signal

\* Green is lit when nothing of Inside has been shown yet, and then it has.
LEMMA ShowKeepsPulse == ASSUME PulseInv, LedShow PROVE PulseInv'
<1>1. /\ ledPc = "read" /\ shown' = st /\ ledPc' = "wait"
      /\ UNCHANGED <<commissionVars, sending, ledState, st>>
  BY DEF LedShow
<1>2. CASE led' = "green"
  <2>1. st = "connected" /\ shown \notin Inside
    BY <1>2 DEF LedShow, Pulses, Inside
  <2>2. pulses = 0 /\ pulses' = 1
    BY <1>2, <2>1 DEF PulseInv, LedShow
  <2>. QED  BY <1>1, <2>1, <2>2 DEF PulseInv, commissionVars, Inside
<1>3. CASE led' # "green"
  <2>1. pulses' = pulses
    BY <1>3 DEF LedShow
  <2>. QED  BY <1>1, <2>1 DEF PulseInv, commissionVars
<1>. QED  BY <1>2, <1>3

LEMMA PulseStep ==
    ASSUME PulseInv, [IndicatorNext]_indicatorVars PROVE PulseInv'
<1>1. CASE DeviceOn
  BY <1>1 DEF DeviceOn, NetBoot, LedSet, PulseInv, taskVars, Inside
<1>2. CASE SendStart
  BY <1>2 DEF SendStart, LedSet, LedOf, PulseInv, taskVars, Inside
<1>3. CASE SendEnd
  BY <1>3 DEF SendEnd, LedSet, LedOf, PulseInv, taskVars, Inside
<1>4. CASE LedRead
  BY <1>4 DEF LedRead, PulseInv, commissionVars, Inside
<1>5. CASE LedWake
  BY <1>5 DEF LedWake, PulseInv, commissionVars
<1>6. CASE LosePower
  <2>1. /\ net' = "off" /\ joined' = FALSE /\ status' = "boot" /\ sending' = FALSE
        /\ ledState' = "off" /\ ledPc' = "awake" /\ st' = "off" /\ shown' = "off"
        /\ pulses' = 0
    BY <1>6 DEF LosePower, NetOff
  <2>2. joined' # TRUE
    BY <2>1
  <2>3. {status', ledState', st', shown'} \cap Inside = {}
    BY <2>1 DEF Inside
  <2>. QED  BY <2>1, <2>2, <2>3 DEF PulseInv
<1>7. CASE UNCHANGED indicatorVars
  BY <1>7 DEF indicatorVars, commissionVars, taskVars, PulseInv
<1>. QED  BY <1>1, <1>2, <1>3, <1>4, <1>5, <1>6, <1>7, SignalKeepsPulse, ShowKeepsPulse
       DEF IndicatorNext

\* Green is lit at most once between two starts: neither the return from a send
\* nor a removal from the network confirms the join again (espir_led.c:74-78).
THEOREM JoinPulsesOnce == IndicatorSpec => []OnePulse
<1>1. PulseInv => OnePulse
  BY DEF PulseInv, OnePulse
<1>. QED  BY <1>1, PulseInit, PulseStep, PTL DEF IndicatorSpec

-----------------------------------------------------------------------------
(* The types of the LED's part                                             *)

\* Without power no status has been notified yet.
LedInv == IndicatorTypeOK /\ (net = "off" => status = "boot")

\* The state a status is shown with
LEMMA LedOfIsState == ASSUME NEW s \in Status PROVE LedOf(s) \in LedState
  BY DEF Status, LedOf, LedState

LEMMA LedInit == IndicatorInit => LedInv
<1> SUFFICES ASSUME IndicatorInit PROVE LedInv
  OBVIOUS
<1>1. joined \in BOOLEAN /\ factoryNew \in BOOLEAN /\ sending \in BOOLEAN
      /\ notified \in BOOLEAN /\ timed \in BOOLEAN
  BY Zenon DEF IndicatorInit, CommissionInit
<1>. QED  BY <1>1 DEF LedInv, IndicatorTypeOK, CommissionTypeOK, IndicatorInit, CommissionInit,
               NetState, Status, LedState, Colour, LedOf

\* A step of the stack keeps the types of its variables, and whoever is
\* switched on has a network to look for.
LEMMA SignalTypes ==
    ASSUME CommissionTypeOK, Searching \/ Joining \/ StartFailed \/ Leave
    PROVE  CommissionTypeOK' /\ net' # "off"
<1>1. CASE Searching
  <2>1. UNCHANGED joined /\ UNCHANGED factoryNew
    BY <1>1 DEF Searching, SkipStartup, StartedNew, SteeredFailed, Retry
  <2>2. net' \in NetState /\ net' # "off" /\ status' \in Status
    BY <1>1 DEF Searching, SkipStartup, StartedNew, SteeredFailed, Retry, CommissionTypeOK,
                NetState, Status
  <2>. QED  BY <2>1, <2>2, Zenon DEF CommissionTypeOK
<1>2. CASE Joining
  <2>1. joined' \in BOOLEAN /\ factoryNew' \in BOOLEAN
    BY <1>2, Zenon DEF Joining, StartedKnown, SteeredOk, Joined, CommissionTypeOK
  <2>2. net' \in NetState /\ net' # "off" /\ status' \in Status
    BY <1>2 DEF Joining, StartedKnown, SteeredOk, Joined, NetState, Status
  <2>. QED  BY <2>1, <2>2, Zenon DEF CommissionTypeOK
<1>3. CASE StartFailed \/ Leave
  <2>1. joined' \in BOOLEAN /\ factoryNew' \in BOOLEAN
    BY <1>3, Zenon DEF StartFailed, Leave, CommissionTypeOK
  <2>2. net' \in NetState /\ net' # "off" /\ status' \in Status
    BY <1>3 DEF StartFailed, Leave, CommissionTypeOK, NetState
  <2>. QED  BY <2>1, <2>2, Zenon DEF CommissionTypeOK
<1>. QED  BY <1>1, <1>2, <1>3

\* The latch of the LED follows what it is set to.
LEMMA LatchTypes ==
    ASSUME notified \in BOOLEAN, NEW s, LedSet(s)
    PROVE  notified' \in BOOLEAN /\ ledState' = s
  BY Zenon DEF LedSet

LEMMA SignalKeepsLed == ASSUME LedInv, Signal PROVE LedInv'
<1>1. CommissionTypeOK' /\ net' # "off"
  BY SignalTypes DEF Signal, LedInv, IndicatorTypeOK
<1>2. UNCHANGED <<sending, taskVars>>
  BY DEF Signal
<1>3. /\ notified' \in BOOLEAN /\ ledState' \in LedState
      /\ status' # "boot" => ledState' = LedOf(status')
  <2>1. CASE status' # status
    <3>1. LedSet(LedOf(status')) /\ status' \in Status
      BY <1>1, <2>1 DEF Signal, CommissionTypeOK
    <3>. QED  BY <3>1, LatchTypes, LedOfIsState DEF LedInv, IndicatorTypeOK
  <2>2. CASE status' = status
    BY <2>2, Zenon DEF Signal, LedInv, IndicatorTypeOK
  <2>. QED  BY <2>1, <2>2
<1>. QED  BY <1>1, <1>2, <1>3, Zenon DEF LedInv, IndicatorTypeOK, taskVars

LEMMA SendKeepsLed == ASSUME LedInv, SendStart \/ SendEnd, net # "off" PROVE LedInv'
<1>1. UNCHANGED <<net, factoryNew, joined, taskVars>> /\ sending' \in BOOLEAN
  BY Zenon DEF SendStart, SendEnd
<1>2. PICK s \in {"connected", "sending"} : status' = s /\ LedSet(LedOf(s))
  BY DEF SendStart, SendEnd
<1>3. s \in Status
  BY DEF Status
<1>4. notified' \in BOOLEAN /\ ledState' = LedOf(status') /\ ledState' \in LedState
  BY <1>2, <1>3, LatchTypes, LedOfIsState DEF LedInv, IndicatorTypeOK
<1>5. CommissionTypeOK'
  BY <1>1, <1>2, <1>3, Zenon DEF LedInv, IndicatorTypeOK, CommissionTypeOK
<1>. QED  BY <1>1, <1>4, <1>5, Zenon DEF LedInv, IndicatorTypeOK, taskVars

LEMMA LedTaskKeepsLed == ASSUME LedInv, LedRead \/ LedShow \/ LedWake PROVE LedInv'
<1>1. UNCHANGED <<commissionVars, sending, ledState>>
  BY DEF LedRead, LedShow, LedWake
<1>2. notified' \in BOOLEAN /\ timed' \in BOOLEAN
  <2>1. CASE LedShow
    <3>1. timed' = (st \in Timed) /\ UNCHANGED notified
      BY <2>1 DEF LedShow
    <3>2. timed' = TRUE \/ timed' = FALSE
      BY <3>1, SMT
    <3>. QED  BY <3>1, <3>2, Zenon DEF LedInv, IndicatorTypeOK
  <2>2. CASE LedRead \/ LedWake
    BY <2>2, Zenon DEF LedRead, LedWake, LedInv, IndicatorTypeOK
  <2>. QED  BY <2>1, <2>2
<1>3. st' \in LedState /\ shown' \in LedState /\ ledPc' \in {"wait", "awake", "read"}
  BY DEF LedRead, LedShow, LedWake, LedInv, IndicatorTypeOK
<1>4. led' \in Colour /\ pulses' \in Nat
  <2>1. CASE LedShow
    BY <2>1 DEF LedShow, LedInv, IndicatorTypeOK, Colour
  <2>2. CASE LedRead \/ LedWake
    BY <2>2 DEF LedRead, LedWake, LedInv, IndicatorTypeOK
  <2>. QED  BY <2>1, <2>2
<1>. QED  BY <1>1, <1>2, <1>3, <1>4, Zenon
       DEF LedInv, IndicatorTypeOK, CommissionTypeOK, commissionVars

\* A send needs a network, so that the device is on.
LEMMA LedInvStep ==
    ASSUME LedInv, PulseInv, [IndicatorNext]_indicatorVars PROVE LedInv'
<1>1. CASE DeviceOn
  <2>1. UNCHANGED <<factoryNew, joined, status, sending, taskVars>>
        /\ net' = "starting" /\ status = "boot" /\ LedSet("searching")
    BY <1>1 DEF DeviceOn, NetBoot, LedInv
  <2>2. notified' \in BOOLEAN /\ ledState' \in LedState /\ net' \in NetState
    BY <2>1, LatchTypes DEF LedInv, IndicatorTypeOK, LedState, NetState
  <2>. QED  BY <2>1, <2>2, Zenon DEF LedInv, IndicatorTypeOK, CommissionTypeOK, taskVars
<1>2. CASE SendStart \/ SendEnd
  <2>1. joined = TRUE
    <3>1. CASE SendStart
      BY <3>1, Zenon DEF SendStart, LedInv, IndicatorTypeOK, CommissionTypeOK
    <3>2. CASE SendEnd
      BY <3>2 DEF SendEnd, PulseInv
    <3>. QED  BY <1>2, <3>1, <3>2
  <2>. QED  BY <1>2, <2>1, SendKeepsLed DEF PulseInv
<1>3. CASE LosePower
  <2>1. net' = "off" /\ status' = "boot" /\ ledState' = "off" /\ ledPc' = "awake"
        /\ st' = "off" /\ shown' = "off" /\ led' = "dark" /\ pulses' = 0
    BY <1>3 DEF LosePower, NetOff
  <2>2. joined' \in BOOLEAN /\ factoryNew' \in BOOLEAN /\ sending' \in BOOLEAN
        /\ notified' \in BOOLEAN /\ timed' \in BOOLEAN
    BY <1>3, Zenon DEF LosePower, NetOff, LedInv, IndicatorTypeOK, CommissionTypeOK
  <2>. QED  BY <2>1, <2>2 DEF LedInv, IndicatorTypeOK, CommissionTypeOK, NetState, Status,
                 LedState, Colour
<1>4. CASE UNCHANGED indicatorVars
  BY <1>4, Zenon DEF indicatorVars, commissionVars, taskVars, LedInv, IndicatorTypeOK,
                     CommissionTypeOK
<1>. QED  BY <1>1, <1>2, <1>3, <1>4, SignalKeepsLed, LedTaskKeepsLed DEF IndicatorNext

-----------------------------------------------------------------------------
(* The arithmetic of a sample                                              *)

\* Whatever the voltage, the charge is a whole number of per cents.
LEMMA ClampBounds == ASSUME NEW pct \in Int PROVE Clamp(pct) \in 0..100
  BY DEF Clamp

LEMMA PercentBounds ==
    ASSUME NEW vbat \in Int
    PROVE  /\ Percent(vbat) \in 0..200
           /\ Percent(vbat) = Clamp(((vbat - 3300) * 100) \div 900) * 2
<1>. DEFINE pct == ((vbat - 3300) * 100) \div 900
<1>1. pct \in Int
  OBVIOUS
<1>2. Clamp(pct) \in 0..100
  BY <1>1, ClampBounds
<1>3. Percent(vbat) = (Clamp(pct) * 2) % 256
  BY DEF Percent, EmptyMv, FullMv
<1>. HIDE DEF pct
<1>. QED  BY <1>2, <1>3 DEF pct

\* A higher voltage never shows a lower charge.
LEMMA PercentMonotone ==
    ASSUME NEW v \in Int, NEW w \in Int, v <= w
    PROVE  Percent(v) <= Percent(w)
<1>. DEFINE p == ((v - 3300) * 100) \div 900
            q == ((w - 3300) * 100) \div 900
<1>1. p \in Int /\ q \in Int /\ p <= q
  BY SMT
<1>2. Clamp(p) <= Clamp(q) /\ Clamp(p) \in 0..100 /\ Clamp(q) \in 0..100
  BY <1>1 DEF Clamp
<1>3. Percent(v) = Clamp(p) * 2 /\ Percent(w) = Clamp(q) * 2
  BY PercentBounds
<1>. HIDE DEF p, q
<1>. QED  BY <1>2, <1>3

LEMMA VoltageBounds ==
    ASSUME NEW vbat \in Nat, vbat + 50 < 25500
    PROVE  /\ Voltage(vbat) \in 0..254
           /\ Voltage(vbat) * 100 <= vbat + 50
           /\ vbat + 50 < Voltage(vbat) * 100 + 100
<1>. DEFINE q == (vbat + 50) \div 100
<1>1. q \in 0..254 /\ q * 100 <= vbat + 50 /\ vbat + 50 < q * 100 + 100
  BY SMT
<1>2. Voltage(vbat) = q % 256
  BY DEF Voltage
<1>. HIDE DEF q
<1>3. q % 256 = q
  BY <1>1
<1>. QED  BY <1>1, <1>2, <1>3

\* The level that one sample shows.
SampleAgrees(voltage, percent) ==
    /\ voltage \in 0..254
    /\ percent \in 0..200
    /\ voltage <= 32 => percent = 0
    /\ percent = 0 => voltage <= 33
    /\ voltage \in 43..254 => percent = 200
    /\ percent = 200 => voltage >= 42

LEMMA SampleIsSound ==
    ASSUME NEW vbat \in Nat, vbat + 50 < 25500
    PROVE  SampleAgrees(Voltage(vbat), Percent(vbat))
<1>. DEFINE p == ((vbat - 3300) * 100) \div 900
            v == Voltage(vbat)
<1>1. v \in 0..254 /\ v * 100 <= vbat + 50 /\ vbat + 50 < v * 100 + 100
  BY VoltageBounds
<1>2. Percent(vbat) = Clamp(p) * 2 /\ Percent(vbat) \in 0..200
  BY PercentBounds
<1>3. /\ p \in Int
      /\ vbat < 3300 => p < 0
      /\ p <= 0 => vbat < 3309
      /\ vbat >= 4200 => p >= 100
      /\ p >= 100 => vbat >= 4200
  BY SMT
<1>. HIDE DEF p, v
<1>4. v <= 32 => Clamp(p) = 0
  BY <1>1, <1>3 DEF Clamp
<1>5. Clamp(p) = 0 => v <= 33
  BY <1>1, <1>3 DEF Clamp
<1>6. v >= 43 => Clamp(p) = 100
  BY <1>1, <1>3 DEF Clamp
<1>7. Clamp(p) = 100 => v >= 42
  BY <1>1, <1>3 DEF Clamp
<1>8. Clamp(p) \in 0..100
  BY <1>3, ClampBounds
<1>9. SampleAgrees(v, Percent(vbat))
  BY <1>1, <1>2, <1>4, <1>5, <1>6, <1>7, <1>8 DEF SampleAgrees
<1>. QED  BY <1>9 DEF v

-----------------------------------------------------------------------------
(* The invariant                                                           *)

\* The level is unknown until there is a sample, and then it is that of one.
Level == \/ battVoltage = 255 /\ battPercent = 255
         \/ SampleAgrees(battVoltage, battPercent)

BatteryInv == BatteryTypeOK /\ Level /\ OneChain

LEMMA LevelAgrees == Level => ChargeAgrees
<1>1. CASE battVoltage = 255 /\ battPercent = 255
  BY <1>1 DEF ChargeAgrees, Unknown
<1>2. CASE SampleAgrees(battVoltage, battPercent)
  BY <1>2 DEF SampleAgrees, ChargeAgrees, Unknown
<1>. QED  BY <1>1, <1>2 DEF Level

\* What holds whenever the power comes on.
LEMMA BatteryFresh == ASSUME BatteryInit, joined = FALSE PROVE BatteryInv
<1>1. adcReady \in BOOLEAN /\ battStarted \in BOOLEAN
  BY Zenon DEF BatteryInit
<1>2. ~battStarted /\ battAlarms = 0
  BY Zenon DEF BatteryInit
<1>3. ~joined
  BY Zenon
<1>4. BatteryTypeOK
  BY <1>1, SMT DEF BatteryInit, BatteryTypeOK, Unknown
<1>5. Level
  BY Zenon DEF BatteryInit, Level, Unknown
<1>. QED  BY <1>2, <1>3, <1>4, <1>5 DEF BatteryInv, OneChain

LEMMA BatteryStart == SlavePcbInit => BatteryInv
  BY BatteryFresh DEF SlavePcbInit, IndicatorInit, CommissionInit

\* A step that leaves this part alone, or arms the report.
LEMMA LeavesBattery ==
    ASSUME BatteryInv, UNCHANGED batteryVars, joined' => joined
    PROVE  BatteryInv'
  BY DEF batteryVars, BatteryInv, BatteryTypeOK, Level, OneChain

LEMMA ArmKeepsBattery == ASSUME BatteryInv, ArmReport PROVE BatteryInv'
  BY DEF ArmReport, BatteryInv, BatteryTypeOK, Level, OneChain

LEMMA SampleKeepsBattery ==
    ASSUME BatteryInv, NEW mv \in Readings, Sampled(mv)
    PROVE  battVoltage' \in 0..255 /\ battPercent' \in 0..200 /\ Level'
<1>. DEFINE vbat == VbatMv(mv)
<1>1. mv \in Nat /\ DivX100 \in Nat
  BY BatteryAssumption
<1>2. PICK div \in Nat : vbat = (mv * div) \div 100
  BY <1>1 DEF VbatMv
<1>3. mv * div \in Nat
  BY <1>1, <1>2
<1>4. vbat \in Nat
  <2>. DEFINE x == mv * div
  <2>1. x \in Nat /\ vbat = x \div 100
    BY <1>2, <1>3
  <2>. HIDE DEF x, vbat
  <2>. QED  BY <2>1
<1>5. vbat + 50 < 25500
  BY BatteryAssumption
<1>. HIDE DEF vbat
<1>6. SampleAgrees(Voltage(vbat), Percent(vbat))
  BY <1>4, <1>5, SampleIsSound
<1>7. battVoltage' = Voltage(vbat) /\ battPercent' = Percent(vbat)
  BY DEF Sampled, vbat
<1>. QED  BY <1>6, <1>7 DEF SampleAgrees, Level

LEMMA CbKeepsBattery ==
    ASSUME BatteryInv, BatteryCb, UNCHANGED joined PROVE BatteryInv'
<1>1. CASE \E mv \in Readings : Sampled(mv)
  <2>1. battVoltage' \in 0..255 /\ battPercent' \in 0..200 /\ Level'
    BY <1>1, SampleKeepsBattery
  <2>. QED  BY <2>1 DEF BatteryCb, BatteryInv, BatteryTypeOK, OneChain
<1>2. CASE UNCHANGED <<battVoltage, battPercent>>
  BY <1>2 DEF BatteryCb, BatteryInv, BatteryTypeOK, Level, OneChain
<1>. QED  BY <1>1, <1>2 DEF BatteryCb

LEMMA BatteryStepKeeps ==
    ASSUME BatteryInv, [SlavePcbNext]_slavePcbVars PROVE BatteryInv'
<1>1. CASE PowerOn
  BY <1>1 DEF PowerOn, DeviceOn, NetBoot, AdcInit, BatteryInv, BatteryTypeOK, Level, OneChain
<1>2. CASE PowerFails
  <2>1. BatteryInit' /\ joined' = FALSE
    BY <1>2 DEF PowerFails, LosePower, NetOff, BatteryOff, BatteryInit
  <2>2. adcReady' \in BOOLEAN /\ battStarted' \in BOOLEAN
    BY <2>1, Zenon DEF BatteryInit
  <2>3. ~battStarted' /\ battAlarms' = 0
    BY <2>1, Zenon DEF BatteryInit
  <2>4. ~joined'
    BY <2>1, Zenon
  <2>5. BatteryTypeOK'
    BY <2>1, <2>2, SMT DEF BatteryInit, BatteryTypeOK, Unknown
  <2>6. Level'
    BY <2>1, Zenon DEF BatteryInit, Level, Unknown
  <2>. QED  BY <2>3, <2>4, <2>5, <2>6 DEF BatteryInv, OneChain
<1>3. CASE StackSignal
  BY <1>3, LeavesBattery, ArmKeepsBattery DEF StackSignal
<1>4. CASE LedStep(SendStart) \/ LedStep(SendEnd) \/ LedStep(LedTask)
  <2>1. UNCHANGED joined /\ UNCHANGED batteryVars
    BY <1>4 DEF LedStep, SendStart, SendEnd, LedTask, LedRead, LedShow, LedWake, commissionVars
  <2>. QED  BY <2>1, LeavesBattery
<1>5. CASE BatteryStep(ReportAll)
  BY <1>5 DEF BatteryStep, ReportAll, indicatorVars, commissionVars, BatteryInv, BatteryTypeOK,
              Level, OneChain
<1>6. CASE BatteryStep(BatteryCb)
  BY <1>6, CbKeepsBattery DEF BatteryStep, indicatorVars, commissionVars
<1>7. CASE UNCHANGED slavePcbVars
  BY <1>7, LeavesBattery DEF slavePcbVars, indicatorVars, commissionVars
<1>. QED  BY <1>1, <1>2, <1>3, <1>4, <1>5, <1>6, <1>7 DEF SlavePcbNext

LEMMA BatteryAlways == SlavePcbSpec => []BatteryInv
  BY BatteryStart, BatteryStepKeeps, PTL DEF SlavePcbSpec

\* Every step of the slave is one of the LED's specification, or leaves it alone.
LEMMA LedBeside == SlavePcbNext => [IndicatorNext]_indicatorVars
  BY DEF SlavePcbNext, IndicatorNext, PowerOn, PowerFails, StackSignal, LedStep, LedTask,
         BatteryStep

-----------------------------------------------------------------------------

\* Every variable of the battery keeps its type; a charge is at most 100 %
\* whatever the converter reads (espir_device.c:55-61, 196-198).
THEOREM BatteryTypes == SlavePcbSpec => []BatteryTypeOK
<1>1. BatteryInv => BatteryTypeOK
  BY DEF BatteryInv
<1>. QED  BY <1>1, BatteryAlways, PTL

\* Every variable of the slave keeps its type, and the LED latches the status
\* that was notified last, whichever task notified it (espir_led.c:148-153).
THEOREM SlavePcbTypeCorrect == SlavePcbSpec => []SlavePcbTypeOK
<1>. DEFINE Inv == LedInv /\ PulseInv
<1>1. SlavePcbInit => Inv
  BY LedInit, PulseInit DEF SlavePcbInit
<1>2. Inv /\ [SlavePcbNext]_slavePcbVars => Inv'
  <2>1. [SlavePcbNext]_slavePcbVars => [IndicatorNext]_indicatorVars
    BY LedBeside DEF slavePcbVars
  <2>. QED  BY <2>1, PulseStep, LedInvStep
<1>3. Inv => IndicatorTypeOK
  BY DEF LedInv
<1>4. IndicatorTypeOK /\ BatteryTypeOK => SlavePcbTypeOK
  BY DEF SlavePcbTypeOK
<1>. HIDE DEF Inv
<1>. QED  BY <1>1, <1>2, <1>3, <1>4, BatteryTypes, PTL DEF SlavePcbSpec

\* The two attributes of the battery are never known apart and never contradict
\* each other, for every divider and every reading (espir_device.c:193-198).
THEOREM LevelIsOneSample == SlavePcbSpec => []ChargeAgrees
<1>1. BatteryInv => ChargeAgrees
  BY LevelAgrees DEF BatteryInv
<1>. QED  BY <1>1, BatteryAlways, PTL

\* Exactly one chain of battery alarms serves a device that has joined
\* (espir_device.c:140-143, 208-213).
THEOREM SamplingNeverStops == SlavePcbSpec => []OneChain
<1>1. BatteryInv => OneChain
  BY DEF BatteryInv
<1>. QED  BY <1>1, BatteryAlways, PTL

\* The battery disturbs nothing of the LED: the slave with both parts confirms
\* a join once (espir_led.c:74-78).
THEOREM SlavePcbPulsesOnce == SlavePcbSpec => []OnePulse
<1>1. SlavePcbInit => IndicatorInit
  BY DEF SlavePcbInit
<1>2. PulseInv /\ [SlavePcbNext]_slavePcbVars => PulseInv'
  <2>1. [SlavePcbNext]_slavePcbVars => [IndicatorNext]_indicatorVars
    BY LedBeside DEF slavePcbVars
  <2>. QED  BY <2>1, PulseStep
<1>3. PulseInv => OnePulse
  BY DEF PulseInv, OnePulse
<1>. QED  BY <1>1, <1>2, <1>3, PulseInit, PTL DEF SlavePcbSpec
=============================================================================
