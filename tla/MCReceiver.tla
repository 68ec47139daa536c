----------------------------- MODULE MCReceiver -----------------------------
(* Frames of one duration (noise), of a fragment and of a whole frame, with *)
(* and without a header mark; the threshold for a whole frame is scaled     *)
(* down with the lengths.                                                   *)
EXTENDS EspirReceiver

MCFrameLen == {1, 3, 5, 6}
=============================================================================
