------------------------------ MODULE GuiSmoke ------------------------------
(***************************************************************************)
(* The smoke test of the GUI, harness/gui/_smoke_gui.py: 1.5 s after the   *)
(* start one callback presses the key of axis 1 and six jogs, 2 s later    *)
(* another one compares the pot of axis 1 with its target, closes the      *)
(* window and exits.  The simulator boots on its own time meanwhile.       *)
(***************************************************************************)
EXTENDS TeachboxGUI

CONSTANTS Scenario,     \* the keys the callback scenario() presses, in order
          FinishTicks   \* ticks between scenario() and finish(): 2000 ms / 120 ms

VARIABLES script,       \* keys scenario() still has to press
          ticks,        \* ticks since scenario()
          verdict       \* "running", "SMOKE OK" or "SMOKE FAIL"

smokeVars == <<vars, script, ticks, verdict>>

SmokeInit == Init /\ script = Scenario /\ ticks = 0 /\ verdict = "running"

\* The seven calls of on_key are one callback: no other one comes between.
InCallback == script # Scenario /\ script # <<>>

scenario ==
  /\ script # <<>>
  /\ on_key(Head(script)) /\ script' = Tail(script)
  /\ UNCHANGED <<keys, ticks, verdict>>

finish ==
  /\ script = <<>> /\ ticks = FinishTicks /\ verdict = "running"
  /\ verdict' = IF targets[1] > Home /\ pot[1] = targets[1]
                THEN "SMOKE OK" ELSE "SMOKE FAIL"
  /\ on_close /\ UNCHANGED <<script, ticks>>

Callbacks ==
  /\ ~InCallback
  /\ \/ /\ Tick
        /\ ticks' = IF script = <<>> THEN ticks + 1 ELSE ticks
        /\ ticks' <= FinishTicks
     \/ Pump /\ UNCHANGED ticks
  /\ UNCHANGED <<script, verdict>>

SmokeNext ==
  \/ scenario \/ finish \/ Callbacks
  \/ Threads /\ UNCHANGED <<script, ticks, verdict>>

SmokeSpec == SmokeInit /\ [][SmokeNext]_smokeVars

-----------------------------------------------------------------------------
\* _smoke_gui.py:39 "scenario runs regardless of engine state (plant is the
\* interactive core)": whatever the boot thread is doing, the test succeeds.
SmokeSucceeds == verdict # "SMOKE FAIL"
=============================================================================
