----------------------------- MODULE MCSlavePcb -----------------------------
(* The custom-PCB slave.  Sends and losses of power are not bounded; the    *)
(* readings are those of a flat, a low, a middling, a nearly full, a full   *)
(* and an overcharged battery behind a divider by two.                      *)
EXTENDS EspirSlavePcb

MCReadings == {1000, 1654, 1800, 2099, 2100, 2200}

=============================================================================
