---------------------------- MODULE EspirBattery ----------------------------
(***************************************************************************)
(* The battery level of a slave: the alarm that samples it every ten       *)
(* minutes once the device has joined, and the two attributes of the Power *)
(* Configuration cluster.  Everything here runs in the Zigbee task.        *)
(*                                                                         *)
(* A sample is the mean of the reads of the converter that succeed, which  *)
(* is one value here; a sample none of whose reads succeed has no mean.    *)
(***************************************************************************)
EXTENDS Integers

CONSTANTS
    Readings,   \* the means a sample can have, in millivolts at the pin
    DivX100     \* battery_div_x100

VARIABLES
    adcReady,       \* s_adc_ready
    battStarted,    \* s_batt_started
    battVoltage,    \* s_batt_voltage, in units of 100 mV
    battPercent,    \* s_batt_percent, in half per cents
    reportAlarms,   \* alarms pending for report_all_cb
    battAlarms      \* alarms pending for battery_cb

batteryVars == <<adcReady, battStarted, battVoltage, battPercent, reportAlarms, battAlarms>>

Unknown == 255

EmptyMv == 3300

FullMv == 4200

\* The voltage of the battery, with the divider undone
VbatMv(mv) == (mv * (IF DivX100 # 0 THEN DivX100 ELSE 200)) \div 100

\* The voltage fits its attribute, and is not mistaken for an unknown one.
ASSUME BatteryAssumption ==
    /\ DivX100 \in Nat
    /\ Readings \subseteq Nat
    /\ \A mv \in Readings : VbatMv(mv) + 50 < 25500

-----------------------------------------------------------------------------
(* One sample                                                              *)

\* Variants: one end of the scale is not clamped.
ClampLow(pct) == IF pct < 0 THEN 0 ELSE pct

ClampHigh(pct) == IF pct > 100 THEN 100 ELSE pct

Clamp(pct) == IF pct < 0 THEN 0 ELSE IF pct > 100 THEN 100 ELSE pct

\* The quotient is rounded down where C rounds to zero: both are clamped.
Percent(vbat) == (Clamp(((vbat - EmptyMv) * 100) \div (FullMv - EmptyMv)) * 2) % 256

Voltage(vbat) == ((vbat + 50) \div 100) % 256

\* battery_sample: without a converter or a read the old values stay.
Sampled(mv) ==
    /\ adcReady
    /\ battVoltage' = Voltage(VbatMv(mv))
    /\ battPercent' = Percent(VbatMv(mv))

\* Variant: the alarm is set again only when there is a sample.
RearmsAfterSample ==
    /\ battAlarms > 0
    /\ \/ (\E mv \in Readings : Sampled(mv)) /\ UNCHANGED battAlarms
       \/ UNCHANGED <<battVoltage, battPercent>> /\ battAlarms' = battAlarms - 1
    /\ UNCHANGED <<adcReady, battStarted, reportAlarms>>

\* battery_cb runs, and sets its alarm again.
BatteryCb ==
    /\ battAlarms > 0
    /\ \/ \E mv \in Readings : Sampled(mv)
       \/ UNCHANGED <<battVoltage, battPercent>>
    /\ UNCHANGED <<adcReady, battStarted, reportAlarms, battAlarms>>

-----------------------------------------------------------------------------
(* The start of the chain                                                  *)

\* report_all, two seconds after the device has joined
ReportAll ==
    /\ reportAlarms > 0
    /\ reportAlarms' = reportAlarms - 1
    /\ battStarted' = TRUE
    /\ battAlarms' = IF battStarted THEN battAlarms ELSE battAlarms + 1
    /\ UNCHANGED <<adcReady, battVoltage, battPercent>>

\* What the signals that join do to this part
ArmReport ==
    /\ reportAlarms' = reportAlarms + 1
    /\ UNCHANGED <<adcReady, battStarted, battVoltage, battPercent, battAlarms>>

\* battery_adc_init, any of whose calls may fail
AdcInit ==
    /\ adcReady' \in BOOLEAN
    /\ UNCHANGED <<battStarted, battVoltage, battPercent, reportAlarms, battAlarms>>

BatteryOff ==
    /\ adcReady' = FALSE
    /\ battStarted' = FALSE
    /\ battVoltage' = Unknown
    /\ battPercent' = Unknown
    /\ reportAlarms' = 0
    /\ battAlarms' = 0

BatteryInit ==
    /\ adcReady = FALSE
    /\ battStarted = FALSE
    /\ battVoltage = Unknown
    /\ battPercent = Unknown
    /\ reportAlarms = 0
    /\ battAlarms = 0

-----------------------------------------------------------------------------
(* Properties                                                              *)

\* Every variable keeps its type: a level is at most 200 half per cents, or
\* unknown (espir_device.c:55-57).
BatteryTypeOK ==
    /\ adcReady \in BOOLEAN
    /\ battStarted \in BOOLEAN
    /\ battVoltage \in 0..255
    /\ battPercent \in 0..200 \cup {Unknown}
    /\ reportAlarms \in Nat
    /\ battAlarms \in Nat

\* espir_device.c:193-198: the two attributes come from one sample and tell one
\* story, whatever the converter reads.  Neither is known without the other, an
\* empty battery has no charge, and a full one is full.
ChargeAgrees ==
    /\ battVoltage = Unknown <=> battPercent = Unknown
    /\ battVoltage <= 32 => battPercent = 0
    /\ battPercent = 0 => battVoltage <= 33
    /\ battVoltage \in 43..254 => battPercent = 200
    /\ battPercent = 200 => battVoltage >= 42
=============================================================================
