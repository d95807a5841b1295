----------------------------- MODULE CliKeypad -----------------------------
(***************************************************************************)
(* The text front-end of the simulator (cli.py) and the key scanner of the *)
(* firmware it presses keys into.  The simulated processor runs only where *)
(* key() lets it: up to the main loop at the start, then 8000 instructions *)
(* for each key, from its press to its release.  One poll of the keypad    *)
(* comes every second overflow of Timer 0, that is every 2 * 6127 machine  *)
(* cycles, and an instruction takes 1, 2 or 4 of them, so a press has one  *)
(* poll or a few, or none; here it has any number.  The module has no run: *)
(* what there is to say of it is a theorem (Teachbox_proofs).              *)
(***************************************************************************)
EXTENDS Teachbox

VARIABLE dispatched  \* codes the editor was given

cliVars == <<vars, dispatched>>

\* run_to(MAIN_LOOP) stops before the first poll; reset clears 0x20.
CliInit == Init /\ event = FALSE /\ dispatched = {}

Press(k) ==
  /\ held = {} /\ held' = {k}
  /\ Between /\ UNCHANGED <<event, ed, clean, dispatched>>

RunCycles ==
  /\ held # {} /\ tb_poll
  /\ dispatched' = dispatched \cup ({code'} \ {0})

LetGo ==
  /\ held # {} /\ held' = {}
  /\ Between /\ UNCHANGED <<event, ed, clean, dispatched>>

CliNext == RunCycles \/ LetGo \/ \E k \in Keys : Press(k)

CliSpec == CliInit /\ [][CliNext]_cliVars

-----------------------------------------------------------------------------
\* cli.py:6 says "the keypad drives the real firmware in ucSim": it does not,
\* no key of the CLI ever reaches the editor.
NoKeyArrives == dispatched = {}
=============================================================================
