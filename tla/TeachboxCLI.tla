---------------------------- MODULE TeachboxCLI ----------------------------
(***************************************************************************)
(* The text front-end of the simulator, harness/gui/cli.py: one thread     *)
(* reads lines and feeds their keys one by one to key(), which interprets  *)
(* them for the plant ("P a . n E", axis digits, jogs) and, when ROM and   *)
(* simulator are there, presses the same key in the simulator.  settle()   *)
(* moves the plant a bounded number of rounds and pushes its pots into the *)
(* ADC.                                                                    *)
(*                                                                         *)
(* Plant and UCSimEngine (package rob3_ucsim) are external, as in          *)
(* TeachboxGUI: of the engine the model keeps the key held down and the    *)
(* ADC channels.  Nothing in cli.py catches what a call of it raises after *)
(* the start, nor an interrupt of the user outside the prompt.             *)
(***************************************************************************)
EXTENDS Integers, Sequences, SequencesExt

CONSTANTS NAxes,       \* N_AXES, 6 in the program
          MaxPot,      \* largest pot code, 255
          Home,        \* pot code every axis starts with, 128
          Step,        \* plant.step, 6
          SettleTicks, \* rounds of one settle(), 40
          KEYS,        \* the keys the user types, a subset of KEYMAP
          Builds,      \* what may be installed: a subset of AllBuilds
          Targets,     \* bound: values the user gives to :target
          MaxTyped     \* bound: keys of one POS entry

Axes == 0 .. NAxes - 1
Pots == 0 .. MaxPot
\* "no_ROM": started without --firmware, or no package; "absent": no ucsim_51
AllBuilds == {"no_ROM", "absent", "stock", "modules"}
NoAxis == -1
NoCell == "none"
KEYMAP == {"0", "1", "2", "3", "4", "5", "6", "7", "8", "9", ".", "+", "-",
           "P", "E", "N", "D", "C", "R", "I", "O"}
DIGITS == {"0", "1", "2", "3", "4", "5", "6", "7", "8", "9"}
Value == [k \in DIGITS |->
            CASE k = "0" -> 0 [] k = "1" -> 1 [] k = "2" -> 2 [] k = "3" -> 3
              [] k = "4" -> 4 [] k = "5" -> 5 [] k = "6" -> 6 [] k = "7" -> 7
              [] k = "8" -> 8 [] k = "9" -> 9]

ASSUME CliAssumption ==
  /\ NAxes \in Nat \ {0} /\ MaxPot \in Nat /\ Home \in Pots
  /\ Step \in Nat \ {0} /\ SettleTicks \in Nat
  /\ KEYS \subseteq KEYMAP /\ Builds \subseteq AllBuilds /\ Targets \subseteq Int
  /\ MaxTyped \in Nat

VARIABLES
  at,        \* "construct", "reset", "prompt", "feed", "held", "ended", "crashed"
  build,     \* what is installed
  engine,    \* self.engine is set
  sim,       \* the simulator process: "none", "up", "closed"
  pot,       \* self.plant.pot
  targets,   \* self.targets
  selected,  \* self.selected
  posMode, seenDot, accum,
  adc,       \* the ADC channels of the simulator
  cell,      \* the key the simulator holds down
  op,        \* history: "commit" after a key that stored a typed value
  typed,     \* history: the keys of the POS entry under way, or just ended
  axisSet,   \* history: :axis was used since the last P
  pushed     \* history: settle() has run with the engine

bootVars == <<build, engine, sim>>
entryVars == <<selected, posMode, seenDot, accum>>
plantVars == <<pot, targets, adc, pushed>>
history == <<op, typed, axisSet>>
vars == <<at, bootVars, entryVars, plantVars, cell, history>>

Init ==
  /\ at = "construct" /\ build \in Builds /\ engine = FALSE /\ sim = "none"
  /\ pot = [a \in Axes |-> Home] /\ targets = pot
  /\ selected = NoAxis /\ posMode = FALSE /\ seenDot = FALSE /\ accum = <<>>
  /\ adc = [a \in Axes |-> 0] /\ cell = NoCell
  /\ op = "none" /\ typed = <<>> /\ axisSet = FALSE /\ pushed = FALSE

-----------------------------------------------------------------------------
(* The constructor: any exception leaves the program without an engine.    *)
Ready(e) == engine' = e /\ at' = "prompt"

Construct ==
  /\ at = "construct"
  /\ \/ build \in {"no_ROM", "absent"} /\ Ready(FALSE) /\ UNCHANGED sim
     \/ build = "stock" /\ Ready(FALSE) /\ sim' = "closed"
     \/ build = "modules" /\ at' = "reset" /\ sim' = "up" /\ UNCHANGED engine
  /\ UNCHANGED <<build, entryVars, plantVars, cell, history>>

\* reset and run_to, either of which may raise
Reset ==
  /\ at = "reset" /\ \E e \in BOOLEAN : Ready(e)
  /\ UNCHANGED <<build, sim, entryVars, plantVars, cell, history>>

-----------------------------------------------------------------------------
(* Plant and ADC.                                                          *)
_clamp(v, hi) == IF v < 0 THEN 0 ELSE IF v > hi THEN hi ELSE v

Toward(p, t) == IF p < t THEN (IF p + Step < t THEN p + Step ELSE t)
                         ELSE (IF p - Step > t THEN p - Step ELSE t)
\* The rounds of the loop, in each of which an axis makes one step at most.
Round(t) == [x \in Int \X Nat |-> Toward(x[1], t)]
Rounds(n) == [i \in 1 .. n |-> i]
\* A slip of the code: one round less.
SettledShort(p, t) ==
  FoldLeft(LAMBDA v, i : Round(t)[<<v, i>>], p, Rounds(SettleTicks - 1))
Settled(p, t) == FoldLeft(LAMBDA v, i : Round(t)[<<v, i>>], p, Rounds(SettleTicks))

\* A slip of the code: the pots are pushed before the plant moves.
PushedPotsEarly == pot
PushedPots == pot'

\* towards the targets of the next state
settle ==
  /\ pot' = [a \in Axes |-> Settled(pot[a], targets'[a])]
  /\ adc' = IF engine THEN PushedPots ELSE adc
  /\ pushed' = (pushed \/ engine)

-----------------------------------------------------------------------------
(* One key.                                                                *)
IsDigit(k) == k \in DIGITS
Shift == [x \in Nat \X DIGITS |-> 10 * x[1] + Value[x[2]]]
Decimal(s) == FoldLeft(LAMBDA v, k : Shift[<<v, k>>], 0, s)

digit(k) ==
  /\ IF posMode /\ seenDot
     THEN accum' = Append(accum, k) /\ UNCHANGED selected
     ELSE /\ selected' = IF Value[k] \in Axes THEN Value[k] ELSE selected
          /\ UNCHANGED accum
  /\ UNCHANGED <<posMode, seenDot, plantVars>>

\* A slip of the code: the point of an earlier entry is not forgotten.
StartKeepsDot == seenDot
StartDot == FALSE
POS ==
  /\ posMode' = TRUE /\ seenDot' = StartDot /\ accum' = <<>>
  /\ UNCHANGED <<selected, plantVars>>

point == seenDot' = TRUE /\ UNCHANGED <<selected, posMode, accum, plantVars>>

\* A slip of the code: jogging past the end of the travel.
JoggedUnbounded(d) == [targets EXCEPT ![selected] = @ + d * Step]
Jogged(d) == [targets EXCEPT ![selected] = _clamp(@ + d * Step, MaxPot)]
_jog(d) ==
  /\ IF selected = NoAxis THEN UNCHANGED plantVars
     ELSE targets' = Jogged(d) /\ settle
  /\ UNCHANGED entryVars

Commits == posMode /\ selected # NoAxis /\ accum # <<>>
_commit ==
  /\ IF Commits
     THEN /\ targets' = [targets EXCEPT ![selected] = _clamp(Decimal(accum), MaxPot)]
          /\ settle
     ELSE UNCHANGED plantVars
  /\ posMode' = FALSE /\ seenDot' = FALSE /\ accum' = <<>>
  /\ UNCHANGED selected

Remember(k) ==
  /\ op' = IF k = "E" /\ Commits THEN "commit" ELSE "none"
  /\ typed' = CASE k = "P" -> <<>>
                [] k # "P" /\ posMode /\ (IsDigit(k) \/ k = ".") -> Append(typed, k)
                [] OTHER -> IF op = "commit" THEN <<>> ELSE typed
  /\ axisSet' = (k # "P" /\ axisSet)

\* "." is no key of the matrix.
PressedKey(k) ==
  IF engine /\ k # "." THEN cell' = k /\ at' = "held"
                       ELSE UNCHANGED <<cell, at>>

key(k) ==
  /\ at = "feed" /\ (Len(typed) < MaxTyped \/ k \in {"P", "E"})
  /\ \/ IsDigit(k) /\ digit(k)
     \/ k = "P" /\ POS
     \/ k = "." /\ point
     \/ k = "+" /\ _jog(1)
     \/ k = "-" /\ _jog(-1)
     \/ k = "E" /\ _commit
     \/ k \in {"N", "D", "C", "R", "I", "O"} /\ UNCHANGED <<entryVars, plantVars>>
  /\ PressedKey(k) /\ Remember(k) /\ UNCHANGED bootVars

Released == NoCell
\* The cycles have run: the key is let go.
Release ==
  /\ at = "held" /\ cell' = Released /\ at' = "feed"
  /\ UNCHANGED <<bootVars, entryVars, plantVars, history>>

-----------------------------------------------------------------------------
(* Lines.                                                                  *)
Prompt == at = "prompt" /\ op' = "none" /\ UNCHANGED <<bootVars, cell, typed>>

FeedLine ==
  /\ Prompt /\ at' = "feed"
  /\ UNCHANGED <<entryVars, plantVars, axisSet>>

EndOfLine ==
  /\ at = "feed" /\ at' = "prompt"
  /\ UNCHANGED targets /\ settle
  /\ UNCHANGED <<bootVars, entryVars, cell, history>>

MetaAxis ==
  /\ Prompt /\ axisSet' = TRUE
  /\ \E n \in 0 .. NAxes : selected' = _clamp(n, NAxes - 1)
  /\ UNCHANGED <<at, posMode, seenDot, accum, plantVars>>

MetaTarget ==
  /\ Prompt
  /\ \E n \in -1 .. NAxes, v \in Targets :
       targets' = [targets EXCEPT ![_clamp(n, NAxes - 1)] = _clamp(v, MaxPot)]
  /\ settle
  /\ UNCHANGED <<at, entryVars, axisSet>>

MetaRun ==
  /\ Prompt /\ UNCHANGED targets /\ settle
  /\ UNCHANGED <<at, entryVars, axisSet>>

\* :quit, end of input and an interrupt at the prompt; also the end of --script
close ==
  /\ Prompt /\ at' = "ended"
  /\ sim' = IF engine THEN "closed" ELSE sim
  /\ UNCHANGED <<build, engine, cell, typed, entryVars, plantVars, axisSet>>

\* An exception nobody catches: of a call of the engine, of int() in :target,
\* or an interrupt while keys are fed.
Crash ==
  /\ at \in {"prompt", "feed", "held"} /\ at' = "crashed"
  /\ UNCHANGED <<bootVars, entryVars, plantVars, cell, history>>

Meta == MetaAxis \/ MetaTarget \/ MetaRun

Next == \/ Construct \/ Reset
        \/ \E k \in KEYS : key(k)
        \/ Release \/ FeedLine \/ EndOfLine \/ Meta \/ close \/ Crash

Spec == Init /\ [][Next]_vars

-----------------------------------------------------------------------------
\* Type correctness: what is typed and clamped stays a pot code and an axis.
CliTypeOK ==
  /\ pot \in [Axes -> Pots] /\ targets \in [Axes -> Pots]
  /\ adc \in [Axes -> Pots] /\ selected \in Axes \cup {NoAxis}
  /\ posMode \in BOOLEAN /\ seenDot \in BOOLEAN
  /\ accum \in Seq(DIGITS) /\ sim \in {"none", "up", "closed"}
  /\ engine => sim # "none"

Points == {i \in DOMAIN typed : typed[i] = "."}
First == CHOOSE i \in Points : \A j \in Points : i <= j
Behind == SubSeq(typed, First + 1, Len(typed))
\* the number the digits of a sequence of keys make, other keys left out
Read == [x \in Nat \X KEYMAP |-> IF IsDigit(x[2]) THEN Shift[x] ELSE x[1]]
Number(s) == FoldLeft(LAMBDA v, k : Read[<<v, k>>], 0, s)
NamesAxis(i) ==
  IsDigit(typed[i]) /\ Value[typed[i]] \in Axes /\ \A j \in Points : i < j
Names == {i \in DOMAIN typed : NamesAxis(i)}

\* What ENT commits is the entry "P a . n E" as it was typed since the last P,
\* over several lines and with jogs, other keys and abandoned entries in
\* between: n, the digits behind the first point, clamped, goes to a, the last
\* axis before it (the axis selected before where there is none, or :axis).
CommitIsTheEntry ==
  op = "commit" =>
    /\ Points # {} /\ \E i \in DOMAIN Behind : IsDigit(Behind[i])
    /\ Names # {} /\ ~axisSet => selected = Value[typed[Max(Names)]]
    /\ targets[selected] = _clamp(Number(Behind), MaxPot)

\* Between two keys the ADC of the firmware shows the pots of the plant, from
\* the first settle() on, however a line came to move them.
AdcShowsPlant ==
  (engine /\ pushed /\ at \in {"prompt", "feed", "held"}) => adc = pot

\* A settle() has a bounded number of rounds: it may leave an axis on the way,
\* but no further than the travel exceeds what these rounds can do.
ArmsNearTargets ==
  at = "prompt" =>
    \A a \in Axes : LET d == targets[a] - pot[a]
                    IN  (IF d < 0 THEN -d ELSE d)
                          <= _clamp(MaxPot - SettleTicks * Step, MaxPot)
=============================================================================
