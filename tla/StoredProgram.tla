---------------------------- MODULE StoredProgram ----------------------------
(***************************************************************************)
(* The stored program of the firmware: its validation prog_prepare         *)
(* (0x0803), the gate motion_exec (0x0900) that the main loop calls on     *)
(* every pass, the executor prog_exec (0x0941), the label resolver         *)
(* prog_goto (0x0A33) and the serial commands 0x81..0x88 that load, start, *)
(* stop, pause and step a program.                                         *)
(*                                                                         *)
(* A program is a sequence of slots of 8 bytes; a slot is a record of what *)
(* the executor reads of it, and a move of all axes has a second slot with *)
(* the time factors.  The motors and the inputs are the environment: moves *)
(* come to rest, an input is read as a free choice.  A gate call and a     *)
(* command are one action each (interrupts are off in the gate, and the    *)
(* serial interrupt is not interrupted).                                   *)
(***************************************************************************)
EXTENDS Integers, Sequences

CONSTANTS Top,       \* largest byte, 255
          Labels,    \* labels used by the programs, of 0..118
          Programs,  \* programs the host downloads
          Size,      \* slots of the program memory
          Stale      \* bound: what the count byte of a downloaded slot may hold

Byte == 0 .. Top
Slots == 0 .. Size - 1
Up(b) == IF b = Top THEN 0 ELSE b + 1
\* A slip of the code: below 0.
DownNoWrap(b) == b - 1
Down(b) == IF b = 0 THEN Top ELSE b - 1

\* OTHER: OUT and every opcode that only steps on
Ops == {"MOVE", "MOVE ALL", "DATA", "HALT", "POS", "TIM", "WAIT", "IF GOTO",
        "GOTO", "TIMES", "MARK", "OTHER", "END"}
Instr == [op : Ops, ack : BOOLEAN, m : Labels, n : Byte, lo : Byte, hi : Byte]

WellFormed(p) ==
  /\ p \in Seq(Instr) /\ Len(p) < Size
  /\ \A i \in DOMAIN p : p[i].op = "MOVE ALL" => i < Len(p) /\ p[i + 1].op = "DATA"
  /\ \A i \in DOMAIN p : p[i].op = "DATA" => i > 1 /\ p[i - 1].op = "MOVE ALL"

ASSUME ProgramAssumption ==
  /\ Top \in Nat \ {0} /\ Size \in Nat \ {0} /\ Labels # {} /\ Stale \subseteq Byte
  /\ \A p \in Programs : WellFormed(p)

VARIABLES
  ram,      \* the program memory
  count,    \* byte 3 of each slot, where a counted GOTO counts
  len,      \* slots of the program, the header at 0x80FE
  labels,   \* the label table
  loaded,   \* 0x28.1
  ready,    \* 0x28.2
  run,      \* 0x28.3
  busy,     \* 0x28.4: a wait or a single step is under way
  waitFor,  \* 0x26: what the last instruction waits for
  pc,       \* 0x66, 0x67
  timer,    \* 0x1A, 0x1B: lo and hi
  tick,     \* 0x23.5
  atRest,   \* 0x21 = 0x3F and 0x2B = 0
  taken,    \* history: jumps of a counted GOTO since it started counting
  owed,     \* history: timer periods until the TIM under way may end
  due,      \* history: a step, or the first instruction after a start, is due
  replaced  \* history: a download came since the program was started

memory == <<ram, count, len, labels>>
flags == <<loaded, ready, run, busy>>
control == <<waitFor, pc, timer>>
world == <<tick, atRest>>
history == <<taken, owed, due, replaced>>
vars == <<memory, flags, control, world, history>>

AnyLabel == CHOOSE m \in Labels : TRUE
Plain(op) == [op |-> op, ack |-> FALSE, m |-> AnyLabel, n |-> 0, lo |-> 0, hi |-> 0]

\* What prog_end leaves of no program.
Init ==
  /\ ram = [s \in Slots |-> IF s = 0 THEN Plain("END") ELSE Plain("OTHER")]
  /\ count = [s \in Slots |-> 0] /\ len = 0 /\ labels = [m \in Labels |-> 0]
  /\ loaded = FALSE /\ ready = FALSE /\ run = FALSE /\ busy = FALSE
  /\ waitFor = "nothing" /\ pc = 0 /\ timer = [lo |-> 0, hi |-> 0]
  /\ tick = FALSE /\ atRest = TRUE
  /\ taken = [s \in Slots |-> 0] /\ owed = 0 /\ due = FALSE /\ replaced = FALSE

-----------------------------------------------------------------------------
(* prog_prepare: the label table is cleared, so that every label leads to  *)
(* the first slot; then the slots are scanned from the last one down to    *)
(* the second, which clears the counts and enters the labels; a slot of    *)
(* end markers makes the program void.                                     *)
Ends == {s \in 0 .. len - 1 : ram[s].op = "END"}
Closed == ram[len].op = "END"
Sound == len # 0 /\ Closed /\ Ends = {}
Scanned == IF Closed THEN {s \in 1 .. len - 1 : \A e \in Ends : e < s} ELSE {}

Marks(m) == {s \in Scanned : ram[s].op = "MARK" /\ ram[s].m = m}
\* The first one wins, being scanned last.
First(m) == {s \in Marks(m) : \A t \in Marks(m) : s <= t}
\* A slip of the code: the table is not cleared first.
LabelTableKept ==
  [m \in Labels |-> IF First(m) = {} THEN labels[m] ELSE CHOOSE s \in First(m) : TRUE]
LabelTable ==
  [m \in Labels |-> IF First(m) = {} THEN 0 ELSE CHOOSE s \in First(m) : TRUE]

Counted == {s \in Scanned : ram[s].op = "TIMES"}
\* A slip of the code: only the labels are prepared.
ClearedCountsNot == count
ClearedCounts == [s \in Slots |-> IF s \in Counted THEN 0 ELSE count[s]]

\* prog_end: the header of an empty program
Void ==
  /\ loaded' = FALSE /\ ready' = FALSE /\ run' = FALSE /\ busy' = FALSE
  /\ len' = 0 /\ ram' = [ram EXCEPT ![0] = Plain("END")]

\* 0x0400: prepare, then run from at; the wait under way stays what it was
Start(at, w) ==
  /\ labels' = LabelTable /\ count' = ClearedCounts
  /\ pc' = at /\ waitFor' = w
  /\ IF Sound
     THEN /\ loaded' = TRUE /\ ready' = TRUE /\ run' = TRUE
          /\ UNCHANGED <<ram, len, busy>>
          /\ taken' = [s \in Slots |-> 0] /\ due' = TRUE /\ replaced' = FALSE
     ELSE Void /\ UNCHANGED <<taken, due, replaced>>
  /\ UNCHANGED <<timer, world, owed>>

-----------------------------------------------------------------------------
(* Serial commands.  A download is in the memory as a whole, and only      *)
(* while no program runs: what an interpreter makes of half a program is   *)
(* not modelled.  Commands that need a program are refused without one,    *)
(* which changes nothing here.                                             *)
Download(p) ==
  /\ ~run /\ ~busy /\ loaded' = FALSE
  /\ ram' = [s \in Slots |-> CASE s < Len(p) -> p[s + 1]
                               [] s = Len(p) -> Plain("END")
                               [] s > Len(p) -> ram[s]]
  /\ \E c \in Stale : count' = [s \in Slots |-> IF s < Len(p) THEN c ELSE count[s]]
  /\ len' = Len(p) /\ replaced' = TRUE /\ taken' = [s \in Slots |-> 0]
  /\ UNCHANGED <<labels, ready, run, busy, control, world, owed, due>>

\* 0x81, once the whole program came
LoadProgram ==
  /\ ~loaded /\ replaced
  /\ labels' = LabelTable /\ count' = ClearedCounts
  /\ IF Sound THEN loaded' = TRUE /\ UNCHANGED <<ram, len, ready, run, busy>>
              ELSE Void
  /\ UNCHANGED <<control, world, history>>

RunProgram == loaded /\ Start(0, "nothing")
RunLabel == loaded /\ \E m \in Labels : Start(labels[m], waitFor)

\* A slip of the code: what the program waits for is not forgotten.
StopKeepsWait == waitFor
Stopped == "nothing"
StopAt(at) ==
  /\ loaded /\ ready' = FALSE /\ run' = FALSE /\ busy' = FALSE
  /\ waitFor' = Stopped /\ pc' = at
  /\ UNCHANGED <<memory, loaded, timer, world, history>>
StopProgram == StopAt(pc)
StopAtLabel == \E m \in Labels : StopAt(labels[m])

Continue ==
  /\ loaded /\ ready /\ run' = TRUE
  /\ UNCHANGED <<memory, loaded, ready, busy, control, world, history>>

SingleStep ==
  /\ loaded /\ ready /\ busy' = TRUE /\ due' = TRUE
  /\ UNCHANGED <<memory, loaded, ready, run, control, world, taken, owed, replaced>>

Pause ==
  /\ loaded /\ run' = FALSE
  /\ UNCHANGED <<memory, loaded, ready, busy, control, world, history>>

\* Moves the host commands itself.
HostMoves == atRest' = FALSE /\ UNCHANGED <<memory, flags, control, tick, history>>

\* P3.4 low: the main loop starts the program over and over.
Autostart == ~run /\ Start(0, "nothing")

Host == \/ \E p \in Programs : Download(p)
        \/ LoadProgram \/ RunProgram \/ RunLabel \/ StopProgram \/ StopAtLabel
        \/ Continue \/ SingleStep \/ Pause \/ HostMoves \/ Autostart

-----------------------------------------------------------------------------
(* prog_exec                                                               *)
\* Bound: behind the memory of the model there is an end marker.
Here == IF pc \in Slots THEN ram[pc] ELSE Plain("END")
Active == busy \/ run
GoOn(n) == pc' = pc + n
Goto(m) == pc' = labels[m]
Waiting(w) == waitFor' = w /\ busy' = (w # "nothing")

\* A slip of the code: the single step is not over with its instruction.
StepStays == busy
StepOver == FALSE
Quickly == busy' = StepOver /\ UNCHANGED waitFor

\* A slip of the code: the high byte is taken as it is.
HighByteOnly(h) == h
HighByte(h) == Up(h)
\* Periods a TIM takes at least: a low byte of 0 counts as Top + 1.
Duration(i) == (IF i.lo = 0 THEN Top + 1 ELSE i.lo) + (Top + 1) * i.hi

Halt == /\ Here.op = "HALT" /\ run' = FALSE /\ busy' = FALSE /\ GoOn(1)
        /\ UNCHANGED <<ready, waitFor, timer, count, atRest, taken, owed>>

End == /\ Here.op = "END" /\ ready' = FALSE /\ run' = FALSE /\ busy' = FALSE
       /\ UNCHANGED <<waitFor, pc, timer, count, atRest, taken, owed>>

\* MOVE leaves the axes to the servo, POS forgets that they were in position;
\* with the acknowledge bit the program waits for them.
Motion ==
  /\ Here.op \in {"MOVE", "MOVE ALL", "POS"}
  /\ atRest' = FALSE /\ Waiting(IF Here.ack THEN "motion" ELSE "nothing")
  /\ GoOn(IF Here.op = "MOVE ALL" THEN 2 ELSE 1)
  /\ UNCHANGED <<ready, run, timer, count, taken, owed>>

Tim ==
  /\ Here.op = "TIM" /\ Waiting("time") /\ GoOn(1)
  /\ timer' = [lo |-> Here.lo, hi |-> HighByte(Here.hi)] /\ owed' = Duration(Here)
  /\ UNCHANGED <<ready, run, count, atRest, taken>>

WaitInput ==
  /\ Here.op = "WAIT" /\ Waiting("input") /\ GoOn(1)
  /\ UNCHANGED <<ready, run, timer, count, atRest, taken, owed>>

Jump ==
  /\ \/ Here.op = "GOTO" /\ Goto(Here.m)
     \/ Here.op = "IF GOTO" /\ (Goto(Here.m) \/ GoOn(1))
  /\ Quickly /\ UNCHANGED <<ready, run, timer, count, atRest, taken, owed>>

\* A slip of the code: the incremented count is not written back.
CountNotWritten(s) == count[s]
CountUp(s) == Up(count[s])
CountedJump ==
  /\ Here.op = "TIMES" /\ Quickly
  /\ \/ /\ Up(count[pc]) # Here.n /\ Goto(Here.m)
        /\ count' = [count EXCEPT ![pc] = CountUp(pc)]
        /\ taken' = [taken EXCEPT ![pc] = Up(@)]
     \/ /\ Up(count[pc]) = Here.n /\ GoOn(1)
        /\ count' = [count EXCEPT ![pc] = 0] /\ taken' = [taken EXCEPT ![pc] = 0]
  /\ UNCHANGED <<ready, run, timer, atRest, owed>>

NoEffect ==
  /\ Here.op \in {"MARK", "OTHER", "DATA"} /\ Quickly /\ GoOn(1)
  /\ UNCHANGED <<ready, run, timer, count, atRest, taken, owed>>

Execute ==
  /\ Active /\ waitFor = "nothing"
  /\ Halt \/ End \/ Motion \/ Tim \/ WaitInput \/ Jump \/ CountedJump \/ NoEffect
  /\ due' = FALSE
  /\ UNCHANGED <<ram, len, labels, loaded, tick, replaced>>

-----------------------------------------------------------------------------
(* The gate: a wait that is over is forgotten, the next pass executes.     *)
Over ==
  /\ waitFor' = "nothing" /\ busy' = FALSE
  /\ UNCHANGED <<memory, loaded, ready, run, pc, atRest, history>>

MotionOver ==
  Active /\ waitFor = "motion" /\ atRest /\ Over /\ UNCHANGED <<timer, tick>>
InputComes == Active /\ waitFor = "input" /\ Over /\ UNCHANGED <<timer, tick>>

Elapsed == Down(timer.lo) = 0 /\ Down(timer.hi) = 0
Period ==
  /\ Active /\ waitFor = "time" /\ tick /\ tick' = FALSE
  /\ timer' = [lo |-> Down(timer.lo),
               hi |-> IF Down(timer.lo) = 0 THEN Down(timer.hi) ELSE timer.hi]
  /\ \/ Elapsed /\ Over
     \/ ~Elapsed /\ UNCHANGED <<memory, flags, waitFor, pc, atRest, history>>

motion_exec == Execute \/ MotionOver \/ InputComes \/ Period

\* Every tenth overflow of Timer 0.
Slow2 ==
  /\ tick' = TRUE /\ owed' = IF owed = 0 THEN 0 ELSE owed - 1
  /\ UNCHANGED <<memory, flags, control, atRest, taken, due, replaced>>

Settle == ~atRest /\ atRest' = TRUE
          /\ UNCHANGED <<memory, flags, control, tick, history>>

Next == Host \/ motion_exec \/ Slow2 \/ Settle

\* The main loop and the timer go on for ever, moves come to rest and an input
\* that is waited for comes; the host owes nothing.
Fairness == /\ WF_vars(Execute) /\ WF_vars(Period) /\ WF_vars(Slow2)
            /\ WF_vars(Settle) /\ WF_vars(MotionOver) /\ WF_vars(InputComes)

Spec == Init /\ [][Next]_vars /\ Fairness
-----------------------------------------------------------------------------
\* Type correctness of the interpreter's registers and of the memory.
ProgramTypeOK ==
  /\ ram \in [Slots -> Instr] /\ count \in [Slots -> Byte] /\ len \in Slots
  /\ labels \in [Labels -> Slots] /\ pc \in Nat
  /\ waitFor \in {"nothing", "motion", "time", "input"}
  /\ timer \in [lo : Byte, hi : Byte]

\* A program that runs stays on its own instructions: neither the labels of a
\* longer program that was in the memory before nor a jump or a move of two
\* slots lead it behind its end or into the middle of an instruction - unless
\* the host continues, without a new start, after a download.
PcInProgram ==
  Active /\ ~replaced => pc \in 0 .. len /\ ram[pc].op # "DATA"

LoopLeft == Execute /\ ~replaced /\ pc # 0 /\ Here.op = "TIMES"
            /\ pc' = pc + 1 /\ labels[Here.m] # pc + 1

\* A counted GOTO is executed n times in a loop (2^8 times for n = 0), which is
\* one jump fewer than n, in every run of the program, however the runs before
\* it were stopped and whatever the downloaded slot held - except in the first
\* slot, which the preparation does not look at, and except for a run the host
\* continues after a download, which may be in what is left of a longer program.
LoopsCountOut == [][LoopLeft => Up(taken[pc]) = Here.n]_vars

\* What the manual says (teachbox README.md:128): a counted GOTO jumps n times.
\* The code counts before it compares, and jumps once less.
LoopJumpsNTimes == [][LoopLeft => taken[pc] = Here.n]_vars

\* The first instruction after a start has no old wait to wait for, whatever
\* stops, pauses and steps came before - unless the host starts the program at a
\* label (0x87, which leaves 0x26 alone) while it is in the middle of a wait.
StartsUnhindered ==
  [][RunProgram \/ RunLabel \/ Autostart
     => waitFor' = "nothing" \/ (RunLabel /\ busy)]_vars

\* A TIM ends no sooner than its time less one period: the timer event that
\* was already pending counts as the first one.
TimLasts ==
  [][Period /\ waitFor' = "nothing" => owed <= 1]_vars

\* While the program does not run, an instruction is executed only for a single
\* step (0x85) or as the first one after a start that was paused at once; a
\* wait, a pause in a wait or a step in a wait never make it two.
OneInstructionPerStep ==
  [][Execute /\ ~run => due]_vars

\* Once the host is silent, a program without endless loops comes to its end,
\* through its waits and counted jumps, or to the pause it was left in.
ProgramEnds == (<>[][~Host]_vars) => <>[](~Active)
=============================================================================
