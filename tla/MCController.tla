---------------------------- MODULE MCController ---------------------------
(***************************************************************************)
(* Controller for TLC: a host with a scenario, the commands it uses and    *)
(* how many frames, line faults and emergency stops it causes at most.     *)
(***************************************************************************)
EXTENDS Controller

CONSTANT Scenarios

VARIABLES host,                  \* the scenario
          frames, faults, stops  \* what of it is spent

budget == <<host, frames, faults, stops>>
mcVars == <<vars, budget>>

MCInit == /\ ControllerInit /\ host \in Scenarios
          /\ frames = 0 /\ faults = 0 /\ stops = 0

MCHostFrame ==
  \/ \E c \in host.commands : Execute(c)
  \/ host.commands \intersect {"MoveAll", "MoveAllAck"} # {} /\ TimeFactor

MCNext ==
  \/ /\ frames < host.frames /\ MCHostFrame /\ frames' = frames + 1
     /\ UNCHANGED <<host, faults, stops>>
  \/ /\ faults < host.faults /\ LineFault /\ faults' = faults + 1
     /\ UNCHANGED <<host, frames, stops>>
  \/ /\ stops < host.stops /\ EmergencyOff /\ stops' = stops + 1
     /\ UNCHANGED <<host, frames, faults>>
  \/ (ByteOut \/ Firmware \/ EmergencyOver) /\ UNCHANGED budget

MCSpec == MCInit /\ [][MCNext]_mcVars /\ Fairness

-----------------------------------------------------------------------------
Scenario(c, f, l, s) == [commands |-> c, frames |-> f, faults |-> l, stops |-> s]

\* the watch over motions; moves and time factors; answers with a motion
\* reply between them; answers with each other, and with a broken frame
MCSafety ==
  {Scenario({"PositionAllAck", "Enable", "Disable"}, 2, 0, 1),
   Scenario({"MoveOne", "MoveAllAck"}, 1, 0, 1),
   Scenario({"PositionAllAck", "ReadAll"}, 2, 0, 0),
   Scenario({"ReadAll", "Stop", "Readback"}, 2, 0, 0),
   Scenario({"Readback"}, 1, 1, 0)}
\* a watched motion or a query with a stop; a readback with a broken frame
MCLive == {Scenario({"MoveAllAck", "Read"}, 1, 0, 1), Scenario({"Readback"}, 1, 1, 0)}
MCReach == {Scenario({"PositionOneAck"}, 2, 0, 0)}
=============================================================================
