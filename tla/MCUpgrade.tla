------------------------------ MODULE MCUpgrade -----------------------------
(***************************************************************************)
(* Upgrades between two good images and a bad one, in blocks that are      *)
(* shorter than, as long as and longer than the sub-element header.        *)
(***************************************************************************)
EXTENDS EspirUpgrade

=============================================================================
