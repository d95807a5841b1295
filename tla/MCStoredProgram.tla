--------------------------- MODULE MCStoredProgram ---------------------------
(***************************************************************************)
(* StoredProgram for TLC: four programs, and a host that gives at most    *)
(* MaxCommands commands.                                                   *)
(***************************************************************************)
EXTENDS StoredProgram

CONSTANT MaxCommands

VARIABLE commands

mcVars == <<vars, commands>>

MCInit == Init /\ commands = 0
MCNext == \/ commands < MaxCommands /\ Host /\ commands' = commands + 1
          \/ (motion_exec \/ Slow2 \/ Settle) /\ UNCHANGED commands

MCSpec == MCInit /\ [][MCNext]_mcVars /\ Fairness

Acked(op) == [Plain(op) EXCEPT !.ack = TRUE]
At(op, m) == [Plain(op) EXCEPT !.m = m]
Times(m, n) == [At("TIMES", m) EXCEPT !.n = n]
TimFor(l, h) == [Plain("TIM") EXCEPT !.lo = l, !.hi = h]

\* a loop around a move, and a label far back; waits, and a jump over a move of
\* two slots; a label nobody defines; a program with an end marker inside
MCPrograms ==
  {<<Plain("POS"), At("MARK", 1), Acked("MOVE"), Times(1, 2), At("MARK", 2)>>,
   <<At("IF GOTO", 2), Plain("WAIT"), Plain("MOVE ALL"), Plain("DATA"),
     Plain("HALT"), At("MARK", 2), TimFor(0, 1)>>,
   <<At("GOTO", 1), At("MARK", 1), Times(2, 2)>>,
   <<Plain("OTHER"), Plain("END")>>}
=============================================================================
