----------------------------- MODULE MCTeachbox -----------------------------
(* Digits 0, 1, 7 (an axis, and a number that is none), every other key of  *)
(* the positioning part, a chord of a jog key with a digit.                 *)
EXTENDS Teachbox

MCKeys == {1, 2, 8, Dot, JogDown, JogUp, Ent, Clr, Pos}
MCChords == {{2, JogUp}, {JogDown, JogUp}}
=============================================================================
