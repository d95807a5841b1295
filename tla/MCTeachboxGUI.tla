-------------------------- MODULE MCTeachboxGUI --------------------------
(* Two axes of four pot codes and a step that does not divide the travel:   *)
(* the key of the second axis, both jogs, a complete answer of              *)
(* read_positions and one with a slot it could not read.                    *)
EXTENDS TeachboxGUI

Key(k, d, u, c) == [kind |-> k, digit |-> d, up |-> u, cell |-> c]
MCKeys == {Key("num", 3, FALSE, "3"), Key("jog", 0, TRUE, "up"),
           Key("jog", 0, FALSE, "down")}
MCReadings == {(0 :> 3 @@ 1 :> 0), (0 :> 2 @@ 1 :> -1)}
==========================================================================
