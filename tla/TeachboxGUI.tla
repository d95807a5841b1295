---------------------------- MODULE TeachboxGUI ----------------------------
(***************************************************************************)
(* The Tk front-end of the simulator, harness/gui/gui.py: one Tk thread    *)
(* (key callbacks, the 120 ms tick, the 50 ms pump, closing), a thread     *)
(* that boots the simulator, a thread for each key pressed into it and one *)
(* for each batch of pot values pushed into its ADC.  They share the plant *)
(* of the Tk thread, the queue q and the attributes of the object; a       *)
(* callback of the Tk thread is one step, a worker is one step per call.   *)
(*                                                                         *)
(* The package rob3_ucsim (Plant, UCSimEngine) is external: of the engine  *)
(* the model keeps the key held down and the ADC channels, and any call of *)
(* it may raise, a push_pot also after it took effect.                     *)
(***************************************************************************)
EXTENDS Integers, Sequences, FiniteSets, TLC

CONSTANTS NAxes,      \* N_AXES, 6 in the program
          MaxPot,     \* largest pot code, 255
          Home,       \* pot code every axis starts with, 128
          Step,       \* plant.step, 6
          KEYS,       \* the keys used: records of kind, digit, up and cell
          Pressers,   \* bound: key threads alive at a time
          Readings,   \* bound: what read_positions may answer, -1 where it failed
          Builds,     \* what may be installed: a subset of AllBuilds
          MaxKeys,    \* bound: keys the user presses
          MaxFaults   \* bound: calls of the engine that raise

Axes == 0 .. NAxes - 1
Pots == 0 .. MaxPot
AllBuilds == {"unavailable", "stock", "modules"}
NoAxis == -1
NoCell == "none"      \* STOP: a key outside the matrix (group 0)
Unpushed == -1
KeyRecords == [kind : {"num", "jog", "other"}, digit : 0 .. 9, up : BOOLEAN,
               cell : STRING]

ASSUME SizesAssumption ==
  /\ NAxes \in Nat \ {0} /\ NAxes <= 8 /\ MaxPot \in Nat
  /\ Home \in Pots /\ Step \in Nat \ {0}
ASSUME KeysAssumption == KEYS \subseteq KeyRecords
ASSUME BoundsAssumption ==
  /\ Readings \subseteq [Axes -> Pots \cup {-1}]
  /\ Pressers \subseteq Nat /\ IsFiniteSet(Pressers)
  /\ Builds \subseteq AllBuilds /\ MaxKeys \in Nat /\ MaxFaults \in Nat

Pushers == 1 .. 2     \* threads that may push at a time; _push_busy admits one

VARIABLES
  open,        \* the window exists
  boot,        \* the next step of the boot thread
  build,       \* what is installed
  engine,      \* self.engine is set
  sim,         \* the simulator process: "none", "up", "closed"
  q,           \* messages of the threads to the Tk thread
  status,      \* the status line
  selected,    \* self.selected_axis
  pot,         \* self.plant.pot
  targets,     \* self._targets, <<>> while the attribute does not exist
  lastPushed,  \* self._last_pushed
  pushBusy,    \* self._push_busy
  job,         \* what each push thread has still to push
  pushAt,      \* where each push thread is
  pressAt,     \* where each key thread is
  cell,        \* the key of each key thread
  key,         \* the key the simulator holds down
  adc,         \* the ADC channels of the simulator
  torn,        \* history: axes whose last push raised after it took effect
  stuck,       \* history: a key thread ended without release
  keys, faults \* bounded counters

tkVars == <<open, status, selected, pot, targets>>
bootVars == <<boot, build, engine, sim>>
pushVars == <<lastPushed, pushBusy, job, pushAt, adc, torn>>
pressVars == <<pressAt, cell, key, stuck>>
vars == <<tkVars, bootVars, pushVars, pressVars, q, keys, faults>>

NoJob == [a \in {} |-> 0]

Init ==
  /\ open = TRUE /\ boot = "construct" /\ build \in Builds
  /\ engine = FALSE /\ sim = "none" /\ q = <<>> /\ status = "booting"
  /\ selected = NoAxis /\ pot = [a \in Axes |-> Home] /\ targets = <<>>
  /\ lastPushed = [a \in Axes |-> Unpushed] /\ pushBusy = FALSE
  /\ job = [w \in Pushers |-> NoJob] /\ pushAt = [w \in Pushers |-> "idle"]
  /\ pressAt = [w \in Pressers |-> "idle"]
  /\ cell = [w \in Pressers |-> NoCell] /\ key = NoCell
  /\ adc \in [Axes -> {0}]
  /\ torn = {} /\ stuck = FALSE /\ keys = 0 /\ faults = 0

-----------------------------------------------------------------------------
(* The boot thread.  An exception anywhere in it ends it with a message.   *)
Say(m) == q' = Append(q, [kind |-> "status", text |-> m])
Raise == faults < MaxFaults /\ faults' = faults + 1

BootFails ==
  /\ open /\ boot \in {"construct", "reset", "run_to", "read", "close"}
  /\ build # "unavailable" /\ Raise
  /\ boot' = "done" /\ Say("failed")
  /\ UNCHANGED <<tkVars, build, engine, sim, pushVars, pressVars, keys>>

Unavailable ==
  /\ open /\ boot = "construct" /\ build = "unavailable"
  /\ boot' = "done" /\ Say("unavailable")
  /\ UNCHANGED <<tkVars, build, engine, sim, pushVars, pressVars, keys, faults>>

Construct ==
  /\ open /\ boot = "construct" /\ build # "unavailable"
  /\ sim' = "up"
  /\ boot' = IF build = "modules" THEN "reset" ELSE "close"
  /\ UNCHANGED <<tkVars, build, engine, pushVars, pressVars, q, keys, faults>>

CloseStock ==
  /\ open /\ boot = "close"
  /\ sim' = "closed" /\ boot' = "done" /\ Say("stock")
  /\ UNCHANGED <<tkVars, build, engine, pushVars, pressVars, keys, faults>>

ResetAndRun ==
  /\ open
  /\ \/ boot = "reset" /\ boot' = "run_to"
     \/ boot = "run_to" /\ boot' = "publish"
  /\ UNCHANGED <<tkVars, build, engine, sim, pushVars, pressVars, q, keys, faults>>

Publish ==
  /\ open /\ boot = "publish"
  /\ engine' = TRUE /\ boot' = "say"
  /\ UNCHANGED <<tkVars, build, sim, pushVars, pressVars, q, keys, faults>>

SayUp ==
  /\ open /\ boot = "say"
  /\ Say("up") /\ boot' = "read"
  /\ UNCHANGED <<tkVars, build, engine, sim, pushVars, pressVars, keys, faults>>

Seed ==
  /\ open /\ boot = "read" /\ boot' = "done"
  /\ \E pos \in Readings : q' = Append(q, [kind |-> "seed", pos |-> pos])
  /\ UNCHANGED <<tkVars, build, engine, sim, pushVars, pressVars, keys, faults>>

Boot == \/ BootFails \/ Unavailable \/ Construct \/ CloseStock
        \/ ResetAndRun \/ Publish \/ SayUp \/ Seed

-----------------------------------------------------------------------------
(* The Tk thread.                                                          *)
Clamp(v) == IF v < 0 THEN 0 ELSE IF v > MaxPot THEN MaxPot ELSE v
Current == IF targets = <<>> THEN pot ELSE targets

\* A slip of the code: jogging past the end of the travel.
NudgedUnbounded(a, d) == [Current EXCEPT ![a] = @ + d]
Nudged(a, d) == [Current EXCEPT ![a] = Clamp(@ + d)]

Toward(p, t) == IF p < t THEN (IF p + Step < t THEN p + Step ELSE t)
                         ELSE (IF p - Step > t THEN p - Step ELSE t)

Selects(k) == k.kind = "num" /\ k.digit \in 2 .. NAxes + 1
Jogs(k) == k.kind = "jog" /\ selected # NoAxis
IdlePressers == {w \in Pressers : pressAt[w] = "idle"}

\* A key starts a thread of its own once the engine is published.
Presses(k) ==
  IF engine /\ k.cell # NoCell
  THEN \E w \in IdlePressers :
         /\ pressAt' = [pressAt EXCEPT ![w] = "press"]
         /\ cell' = [cell EXCEPT ![w] = k.cell]
  ELSE UNCHANGED <<pressAt, cell>>

on_key(k) ==
  /\ open
  /\ selected' = IF Selects(k) THEN k.digit - 2 ELSE selected
  /\ targets' = IF Jogs(k) THEN Nudged(selected, IF k.up THEN Step ELSE -Step)
                           ELSE targets
  /\ Presses(k)
  /\ UNCHANGED <<open, status, pot, bootVars, pushVars, key, stuck, q, faults>>

User ==
  /\ keys < MaxKeys /\ keys' = keys + 1
  /\ \E k \in KEYS : on_key(k)

\* A slip of the code: the tick starts a batch whatever is under way.
MayPushAgain == engine
MayPush == engine /\ ~pushBusy
\* A slip of the code: values are compared with the targets.
ChangedByTarget == {a \in Axes : pot'[a] # Current[a]}
Changed == {a \in Axes : pot'[a] # lastPushed[a]}

StartPush ==
  IF MayPush /\ Changed # {}
  THEN \E w \in {v \in Pushers : pushAt[v] = "idle"} :
         /\ pushBusy' = TRUE
         /\ job' = [job EXCEPT ![w] = [a \in Changed |-> pot'[a]]]
         /\ pushAt' = [pushAt EXCEPT ![w] = "push"]
         /\ \A v \in Pushers : pushAt[v] = "idle" => w <= v
  ELSE UNCHANGED <<pushBusy, job, pushAt>>

Tick ==
  /\ open
  /\ targets' = Current
  /\ pot' = [a \in Axes |-> Toward(pot[a], Current[a])]
  /\ StartPush
  /\ UNCHANGED <<open, status, selected, bootVars, lastPushed, adc, torn,
                 pressVars, q, keys, faults>>

Texts == {i \in DOMAIN q : q[i].kind = "status"}
Seeds == {i \in DOMAIN q : q[i].kind = "seed" /\ \A a \in Axes : q[i].pos[a] >= 0}
Latest(S) == {i \in S : \A j \in S : j <= i}

\* A complete seed replaces both the pots and the targets.
Pump ==
  /\ open /\ q # <<>> /\ q' = <<>>
  /\ IF Texts = {} THEN UNCHANGED status
     ELSE \E i \in Latest(Texts) : status' = q[i].text
  /\ IF Seeds = {} THEN UNCHANGED <<pot, targets>>
     ELSE \E i \in Latest(Seeds) : pot' = q[i].pos /\ targets' = q[i].pos
  /\ UNCHANGED <<open, selected, bootVars, pushVars, pressVars, keys, faults>>

\* on_close swallows an exception of close; the threads end with the process.
on_close ==
  /\ open /\ open' = FALSE
  /\ \/ engine /\ sim' = "closed" /\ UNCHANGED faults
     \/ engine /\ Raise /\ UNCHANGED sim
     \/ ~engine /\ UNCHANGED <<sim, faults>>
  /\ UNCHANGED <<status, selected, pot, targets, boot, build, engine, pushVars,
                 pressVars, q, keys>>

-----------------------------------------------------------------------------
(* The push thread.                                                        *)
First(w) == CHOOSE a \in DOMAIN job[w] : \A b \in DOMAIN job[w] : a <= b
Left(w) == [a \in DOMAIN job[w] \ {First(w)} |-> job[w][a]]

PushPot(w) ==
  /\ open /\ pushAt[w] = "push" /\ DOMAIN job[w] # {}
  /\ adc' = [adc EXCEPT ![First(w)] = job[w][First(w)]]
  /\ pushAt' = [pushAt EXCEPT ![w] = "record"]
  /\ UNCHANGED <<tkVars, bootVars, lastPushed, pushBusy, job, torn, pressVars,
                 q, keys, faults>>

Record(w) ==
  /\ open /\ pushAt[w] = "record"
  /\ lastPushed' = [lastPushed EXCEPT ![First(w)] = job[w][First(w)]]
  /\ torn' = torn \ {First(w)}
  /\ job' = [job EXCEPT ![w] = Left(w)]
  /\ pushAt' = [pushAt EXCEPT ![w] = "push"]
  /\ UNCHANGED <<tkVars, bootVars, pushBusy, adc, pressVars, q, keys, faults>>

\* The exception of push_pot, with or without effect, ends the batch.
PushFails(w) ==
  /\ open /\ pushAt[w] = "push" /\ DOMAIN job[w] # {} /\ Raise
  /\ \/ UNCHANGED <<adc, torn>>
     \/ /\ adc' = [adc EXCEPT ![First(w)] = job[w][First(w)]]
        /\ torn' = torn \cup {First(w)}
  /\ job' = [job EXCEPT ![w] = NoJob]
  /\ UNCHANGED <<tkVars, bootVars, lastPushed, pushBusy, pushAt, pressVars,
                 q, keys>>

PushDone(w) ==
  /\ open /\ pushAt[w] = "push" /\ DOMAIN job[w] = {}
  /\ pushBusy' = FALSE /\ pushAt' = [pushAt EXCEPT ![w] = "idle"]
  /\ UNCHANGED <<tkVars, bootVars, lastPushed, job, adc, torn, pressVars,
                 q, keys, faults>>

_push_worker(w) == PushPot(w) \/ Record(w) \/ PushFails(w) \/ PushDone(w)

-----------------------------------------------------------------------------
(* A key thread: press, run, release, all on the one simulator.            *)
Press(w) ==
  /\ pressAt[w] = "press"
  /\ key' = cell[w] /\ pressAt' = [pressAt EXCEPT ![w] = "run"]
  /\ UNCHANGED cell

RunCycles(w) ==
  /\ pressAt[w] = "run"
  /\ pressAt' = [pressAt EXCEPT ![w] = "release"]
  /\ UNCHANGED <<key, cell>>

\* A slip of the code: the key is not released while another thread has one.
ReleaseLast(w) ==
  /\ pressAt[w] = "release"
  /\ key' = IF \E v \in Pressers \ {w} : pressAt[v] # "idle" THEN key ELSE NoCell
  /\ pressAt' = [pressAt EXCEPT ![w] = "idle"]
  /\ cell' = [cell EXCEPT ![w] = NoCell]

Release(w) ==
  /\ pressAt[w] = "release"
  /\ key' = NoCell /\ pressAt' = [pressAt EXCEPT ![w] = "idle"]
  /\ cell' = [cell EXCEPT ![w] = NoCell]

PressFails(w) ==
  /\ open /\ pressAt[w] # "idle" /\ Raise
  /\ pressAt' = [pressAt EXCEPT ![w] = "idle"]
  /\ cell' = [cell EXCEPT ![w] = NoCell]
  /\ stuck' = TRUE /\ Say("press error")
  /\ UNCHANGED <<tkVars, bootVars, pushVars, key, keys>>

_press_worker(w) ==
  \/ /\ open
     /\ Press(w) \/ RunCycles(w) \/ Release(w)
     /\ UNCHANGED <<tkVars, bootVars, pushVars, stuck, q, keys, faults>>
  \/ PressFails(w)

Threads == \/ Boot
           \/ \E w \in Pushers : _push_worker(w)
           \/ \E w \in Pressers : _press_worker(w)

Next == User \/ Tick \/ Pump \/ on_close \/ Threads

\* root.after re-arms tick and pump for as long as the window exists, and the
\* system schedules every thread; nobody has to press a key or to close.
Fairness ==
  /\ WF_vars(Tick) /\ WF_vars(Pump) /\ WF_vars(Boot)
  /\ \A w \in Pushers : WF_vars(_push_worker(w))
  /\ \A w \in Pressers : WF_vars(_press_worker(w))

Spec == Init /\ [][Next]_vars /\ Fairness

-----------------------------------------------------------------------------
\* Type correctness of the attributes the threads share.
GuiTypeOK ==
  /\ pot \in [Axes -> Pots] /\ adc \in [Axes -> Pots]
  /\ targets = <<>> \/ targets \in [Axes -> Pots]
  /\ lastPushed \in [Axes -> Pots \cup {Unpushed}]
  /\ selected \in Axes \cup {NoAxis}
  /\ engine => sim # "none"
  /\ \A w \in Pushers : /\ DOMAIN job[w] \subseteq Axes
                        /\ \A a \in DOMAIN job[w] : job[w][a] \in Pots

\* What _last_pushed says of a channel is what the channel holds, whatever
\* batches, exceptions and seeds came before: outside the moment between a
\* push and its record, and unless the push raised after it took effect.
\* The tick never pushes again what _last_pushed says is there.
CacheIsTrue ==
  \A a \in Axes :
    \/ lastPushed[a] = Unpushed \/ a \in torn \/ adc[a] = lastPushed[a]
    \/ \E w \in Pushers : pushAt[w] = "record" /\ a = First(w)

\* A key held down in the simulator has a thread that is going to release it,
\* unless a call of such a thread raised (gui.py leaves the release out then).
HeldKeyHasThread ==
  key # NoCell =>
    stuck \/ \E w \in Pressers : pressAt[w] \in {"run", "release"}

\* Once the user is silent the plant comes to rest at the targets and the ADC
\* of the firmware shows it: no pot value is lost between the threads.  A push
\* that raised without effect is made up for by a later tick.  One that raised
\* after it took effect is not covered (torn): the channel then holds another
\* value than is remembered, and stays so if the pot is back at that value.
FirmwareSeesPlant ==
  <>[](/\ open => targets = pot
       /\ open /\ engine => \A a \in Axes \ torn : adc[a] = pot[a])
=============================================================================
