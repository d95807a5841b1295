----------------------------- MODULE MCGuiSmoke -----------------------------
(* The test with six jogs of one pot code and the ticks they need.          *)
EXTENDS GuiSmoke

Axis1 == [kind |-> "num", digit |-> 3, up |-> FALSE, cell |-> "3"]
JogUp == [kind |-> "jog", digit |-> 0, up |-> TRUE, cell |-> "up"]
MCKeys == {Axis1, JogUp}
MCScenario == <<Axis1, JogUp, JogUp, JogUp, JogUp, JogUp, JogUp>>
MCReadings == {[a \in Axes |-> Home]}
=============================================================================
