--------------------------- MODULE MCTeachboxCLI ---------------------------
(* Two axes of four pot codes, settled two codes at a time: a digit that   *)
(* names an axis, one that does not, every key with a meaning and one       *)
(* without.                                                                 *)
EXTENDS TeachboxCLI

MCKeys == {"1", "2", ".", "+", "-", "P", "E", "N"}
MCTargets == {-1, 0, 4}
=============================================================================
