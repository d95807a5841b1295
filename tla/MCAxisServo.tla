---------------------------- MODULE MCAxisServo ----------------------------
(***************************************************************************)
(* AxisServo for TLC: the host gives at most MaxCommands commands.         *)
(***************************************************************************)
EXTENDS AxisServo

CONSTANT MaxCommands

VARIABLE commands

mcVars == <<servoVars, commands>>

MCInit == ServoInit /\ commands = 0

MCCommand ==
  /\ commands < MaxCommands
  /\ commands' = commands + 1
  /\ Command

MCNext ==
  \/ MCCommand
  \/ (EXT1 \/ MarkPhase \/ CutMotors) /\ UNCHANGED commands

MCSpec == MCInit /\ [][MCNext]_mcVars /\ WF_servoVars(EXT1) /\ WF_servoVars(MarkPhase)
=============================================================================
