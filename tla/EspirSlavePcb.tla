---------------------------- MODULE EspirSlavePcb ----------------------------
(***************************************************************************)
(* The custom-PCB slave: commissioning with the two parts that hang on it, *)
(* the status LED and the battery level.                                   *)
(***************************************************************************)
EXTENDS EspirIndicator, EspirBattery

slavePcbVars == <<indicatorVars, batteryVars>>

SlavePcbInit == IndicatorInit /\ BatteryInit

PowerOn == DeviceOn /\ AdcInit

PowerFails == LosePower /\ BatteryOff

\* A signal of the stack.  Those that join set the alarm of report_all.
StackSignal ==
    /\ Signal
    /\ IF joined' /\ ~joined THEN ArmReport ELSE UNCHANGED batteryVars

\* The steps that concern the LED alone, and the battery alone
LedStep(step) == step /\ UNCHANGED batteryVars

BatteryStep(step) == step /\ UNCHANGED indicatorVars

SlavePcbNext ==
    \/ PowerOn
    \/ PowerFails
    \/ StackSignal
    \/ LedStep(SendStart)
    \/ LedStep(SendEnd)
    \/ LedStep(LedTask)
    \/ BatteryStep(ReportAll)
    \/ BatteryStep(BatteryCb)

\* The fairness of IndicatorSpec.  The alarms of the Zigbee task are owed
\* nothing.
SlavePcbSpec ==
    /\ SlavePcbInit
    /\ [][SlavePcbNext]_slavePcbVars
    /\ WF_slavePcbVars(LedStep(LedTask))
    /\ WF_slavePcbVars(LedStep(SendEnd))

-----------------------------------------------------------------------------
(* Properties                                                              *)

\* The parts keep their types.
SlavePcbTypeOK == IndicatorTypeOK /\ BatteryTypeOK

\* espir_device.c:140-143, 208-213: once the device has joined, exactly one
\* chain of battery alarms is running or about to start, and no failed read or
\* removal from the network ends it.
OneChain ==
    /\ battAlarms = (IF battStarted THEN 1 ELSE 0)
    /\ joined => battStarted \/ reportAlarms > 0
=============================================================================
