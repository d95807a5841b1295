# ROB3: TLA+ models, checks and proofs

This directory is a verification development of the ROB3 controller firmware and of
the programs that come with it. The firmware is an 8 KB 8031 program that this
repository holds as an annotated disassembly (`src/firmware/src/annotated/`), which
reassembles to the original EPROM byte for byte: "the code" of the firmware below is
that assembly, and line numbers are lines of its files. The programs are the
simulator front-ends in `src/simulator/harness/gui/` and the converter
`d51_to_sdas.py` that makes the annotated regions. The documentation the findings
quote is in `src/hardware/`, `src/docs/` and the comments of the code.

## 1. The system

The controller has one processor, five interrupt sources of equal priority, a main
loop, and a host on a serial line. No interrupt handler is ever interrupted by
another, and the main loop works with interrupts off except in two short windows, so
handlers and loop sections are atomic steps. What makes the system hard is the order
in which these steps come. The GUI is the other way round: four kinds of threads (Tk,
boot, keys, pushes) that share a queue, a plant and a simulator, and can be
interleaved at every call.

| Component | File | State it keeps | Operations |
|---|---|---|---|
| Axis servo | `ext1_servo.asm`, tail in `rs232.asm` 0x0214 | targets 0x40, set-points 0x50, feedback 0x58, time factors 0x70, ramp counters 0x78, masks 0x21 0x22 0x2B 0x2C 0x2D, port shadows 0x4E/4F | one EXT1 per slot: measure, decide, drive, ramp |
| Serial receiver | `rs232.asm` 0x0300 | frame flags 0x24, header R6, pointer R0, count R2, buffers 0x60 and 0x70 | one interrupt per byte |
| Dispatcher | `rs232.asm` 0x03A9, 0x0440 | reply codes R4/R5, flags 0x25, 0x23.1 | one per complete frame |
| Transmitter | `rs232.asm` 0x0541 | 0x25, R1, R3, 0x23.0 | called by the main loop and by the serial interrupt |
| Main loop | `main.asm` 0x074D | 0x25.7, watchdog 0x19, time-out 0x18 | motion service, transmitter kick, time-out, gate to teachbox and program |
| Timer 0 | `timer0_tick.asm` | phase 0x23.4, events 0x23.5/6/7, prescalers | one per overflow |
| Emergency off | `ext0_estop.asm` | key event 0x20.1 | hold the ports at 0, then restore them |
| Reset, auto-baud | `init.asm` | initial values of all | RAM probe, seed handshake with EXT1, baud measurement |
| Stored program | `program.asm`, commands 0x81..0x88 in `rs232.asm` | wait 0x26, flags 0x28, counter 0x66/67, timer 0x1A/1B, label table, program memory | prepare, start, stop, pause, step, execute, wait |
| Teachbox | `teachbox.asm` | 0x20, 0x56/57, 0x29, 0x2A, 0x6D/6E | key scan with debounce and repeat, editor |
| GUI | `harness/gui/gui.py` | plant, targets, `_last_pushed`, `_push_busy`, queue | key callbacks, tick, pump, boot thread, key threads, push threads |
| GUI smoke test | `harness/gui/_smoke_gui.py` | none of its own | two timed callbacks on the GUI |
| CLI | `harness/gui/cli.py` | plant, entry mode, engine | one key, one line, meta commands, settle |
| Listing tool | `d51_to_sdas.py` | boundaries, targets, output | two passes over a region of the ROM |

How they meet:

* The receiver writes the time factors (0x70) straight into the servo's memory while
  a frame comes in; the dispatcher writes targets, set-points and masks between any
  two slots of the servo.
* Timer 0 gives the servo a phase bit, published once per sweep; the main loop the
  motion event that counts the watchdog down and the tick of the serial time-out; the
  interpreter the event that counts a TIM down.
* The servo reports arrival in two masks (0x21, 0x2B) that the main loop watches and
  the interpreter waits for; the main loop answers through the transmitter, or cuts
  the motors.
* Three writers share the two motor ports: servo, watchdog, emergency off.
* Two callers share the transmitter: the main loop and the serial interrupt.
* The main loop calls the interpreter on every pass and polls the teachbox while no
  program runs. The serial commands 0x81..0x88 change the flags and the program
  counter of the interpreter between any two of its calls.
* The teachbox editor keeps the number that is being typed in the last bytes of the
  serial reply buffer, and a set-point for "axis" 7 or 8 lands in the scanner's own
  bytes.
* Receiver, reset, commands, autostart and teachbox share the flag "program loaded".
* GUI and CLI press keys into a simulated processor that runs the firmware and push
  the pots of a simulated arm into its ADC.

What must be right, per component: a commanded move ends at its target and nowhere
else (servo); whole frames only, nothing out of bounds, and always back in step with
the line (receiver); every answer goes out once and nothing overruns SBUF
(transmitter); a watched motion is acknowledged after arrival or ends in a cut, and a
cut stays (main loop, emergency off); a program stays on its own instructions, its
loops count out, its waits are served and last, and a step is one instruction
(interpreter); one code per deliberate press, no press lost, and what is stored is
what was typed (teachbox); the ADC of the firmware shows the plant and no key stays
down (GUI, CLI); a listing assembles to the bytes it was made from (listing tool).

`PROJECT.json` lists the components with what is modelled of each, the hazards with
the line where each bites and the properties that cover it, and the source lines of
every definition.

## 2. The modules

```
MoveContract  <=refines=  AxisServo    --extended by-->  Controller
FrameReader   <=refines=  RxParser
StoredProgram
Teachbox      --extended by-->  CliKeypad
TeachboxGUI   --extended by-->  GuiSmoke
TeachboxCLI
RegionListing
MC*           budgets, bytes, programs, keys and ROM contents for TLC
*_proofs      theorems
FoldLemmas    induction and folds, for the proofs
```

**AxisServo** is the servo, the phase bit of Timer 0 and the commands that change
axes. Masks are sets of axes; a byte is a number up to `MaxPos` or `MaxSpeed` that
wraps (`Up`, `Down`). `ServeAxis(r)` is one whole EXT1 in the slot of an axis: store the
clamped reading (`Measured`), decide "in position" (`Seen`), drive (`DriveAxis`), and
serve the move: `StartMove` for the first service (jump or choice of direction),
`StepRamp` for a published phase. A reading is chosen freely in
`-1 .. MaxPos + DeadBand + 1`: below the travel, on it, or above it by as much as the
code can tell apart. The width of the pulses is a free choice between driving and
pausing. `overwritten` is a history variable: axes whose set-point a command replaced
in mid-ramp.

**MoveContract** is what the servo promises: the place an axis is held at goes to its
goal in one jump or step by step, never away from it, and the axis is released
exactly there. Only an axis whose place was replaced on the way may wander, and it too
is released only at its goal. The refinement maps goal to `target`, place to `curPos`,
busy to `needMove`, begun to `needMove \ moving`.

**RxParser** is the receiving half of the serial interrupt byte by byte, with the
wrapping counters of a program download and the idle time-out. The other writer of
"program loaded" is `prog_prepare`, from the autostart and the teachbox at any time, from
commands in `Dispatch` and at reset in `RxInit`; what it finds in the memory is a free
choice. The histories keep the payload since the header, count the program bytes stored,
and remember that the memory holds a torso (`damaged`) and that a preparation has taken
it for a program (`mistaken`). **FrameReader** is its
contract: the header fixes how many bytes follow, each byte counts once, the last one
decides. `Needed` computes from the receiver's registers the bytes to come.

**Controller** extends AxisServo by the dispatcher, the transmitter, the main loop,
Timer 0 and emergency off. A frame is one event here (RxParser is about its bytes).
`TxByte` and `TxNext` are the transmit helper at 0x0541: the byte it sends and the
flags it leaves. `LeaveSerial` is the end of every serial interrupt, which goes on
transmitting if TI is set. `MainLoop` is the first guarded section of the loop, in its
order: motion service, transmitter, serial time-out. The count-down of the serial
time-out is a free choice here and counted in RxParser.

**StoredProgram** is the interpreter with the commands that control it. A slot of 8
bytes is a record of what the executor reads of it; byte 3, which a counted GOTO
writes back, is kept apart in `count`. `LabelTable`, `ClearedCounts` and `Void` are
`prog_prepare`; `Start` is the common part of 0x82, 0x87 and the autostart; `Execute`
is one instruction, `MotionOver`, `InputComes` and `Period` are the three waits of the
gate. Motors are a bit that says "at rest", an input is a free choice. A download is
in memory as a whole and only while nothing runs. Four histories (`taken`, `owed`,
`due`, `replaced`) remember jumps counted, periods owed, instructions due and a download
since the last start.

**Teachbox** is one poll of the keypad: `kbd_scan` on the set of keys that are down,
and `kbd_handle` on the code that comes back, for every key that positions an axis
and every mode such an entry can lead through. `Hands` moves the fingers, from key to
key only through the pairs in `Chords`; `SerialFrame` and `EmergencyOver` come between
polls; the byte of the number that a query of all axes overwrites is any byte
of `Foreign` then. **CliKeypad** puts the CLI in front of it: the simulated processor
polls only between press and release of a key. It has no run, because the one thing said
of it, that no key arrives, is proved.

**TeachboxGUI** has one action per Tk callback and one per call of a worker thread.
The simulator package is not in the repository; of it the model keeps the key held
down and the ADC channels, and any call may raise, a push also after it took effect.
**GuiSmoke** runs the two callbacks of the smoke test on it.

**TeachboxCLI** is the command line: `key` by `key`, `settle` with its bounded rounds, lines
and the meta commands between them, and an exception at any point.

**RegionListing** is the converter: `Sweep` and `Emit` take one instruction each, and
`Assembled` is what the assembler makes of the lines. The table of opcodes, which the
package `disasm51` provides, is a parameter; `MnemonicAssumption` says of it what the
instruction set has: a mnemonic names its opcode, or one opcode per part of a page for
the jumps whose address lies in the opcode. `Writable` excludes the listings with a
relative jump to an address below 0, which no line can express.

**FoldLemmas** has no part of the code: it is what the proofs about Teachbox,
TeachboxCLI and RegionListing need of sets of numbers and of `FoldLeft`.

Definitions commented "A slip of the code" (and the ones the headers of AxisServo,
RxParser and Controller name as faulty variants) are no part of the model: each is a
plausible mistake in the definition below it, and substituting it makes a property
fail (the list is under "mutants" in `PROJECT.json`).

## 3. What is checked with TLC

| Run | Question | Instance | Distinct states |
|---|---|---|---|
| `servo_safety` | type, ramps lead to their targets, MoveContract; moves end | 1 axis, positions 0..2, time factors 0..2, dead band 1, 3 commands of any kind | 228,616 |
| `rx_all` | type, stores in bounds, whole frames, no torso loaded by the receiver, FrameReader; silence brings it back | groups of 2, any sequence of 0x03, 0x0F, 0x77, 0x81 and 0x83 (as payload 0x03 and 0x81), of time-outs after 2 ticks and preparations, byte counters of 3 values | 269,652 |
| `ctl_safety` | type, one token for SBUF, cut stays cut, ports in and out of emergency off, watchdog patience, acknowledgment after arrival | 1 axis, five hosts (below), watchdog 2, prescaler 2, counters of 5 values | 2,744,764 |
| `ctl_live` | the line drains, the watch ends | two hosts: a motion or a query with an emergency stop, a readback with a broken frame; counters of 5 values | 139,140 |
| `prog_all` | type, the counter stays in the program, starts find no old wait, loops count out, TIM lasts, one instruction per step; programs end | 4 programs, 2 labels, bytes 0..2, 8 slots, stale counts 0 and 1, 5 commands of any kind | 82,088 |
| `keys_all` | type, codes are deliberate, no press lost, jogs paced, what is committed was typed | 9 keys, 2 chords, numbers up to 10, repeat after 3 and 2 polls, any number of frames and stops | 1,909,557 |
| `gui_all` | type, the cache is true, held keys have threads; the firmware sees the plant | 2 axes of 4 codes, 2 key threads, 2 keys, 1 failing call, three builds | 409,519 |
| `cli_all` | type, the commit is the entry, the ADC shows the plant, arms near their targets | 2 axes of 4 codes, 2 rounds per settle, entries of 4 keys, any number of lines | 801,664 |
| `listing_all` | a listing assembles to its region; a cut region fails | every region of 5 bytes over 8 opcode values across a page border | 210,240 |

The five hosts of `ctl_safety`: two frames of motions with acknowledgment, enable and
disable with an emergency stop; one move with a stop; two frames of motions and
queries, whose answers meet the motion reply; two frames of queries, readback and
stop; and a readback with one broken frame.

Why small instances are enough. Most safety properties of these runs are also theorems
(section 4) for every value of the constants, so the runs are there to find mistakes
early, to show that the interesting states are reached, and for what is not proved.

* Servo and controller: axes meet only in the masks, in the port byte and in the
  single phase bit. Positions enter the code by comparison and by counting, where 0,
  the top, a neighbour and the wrap are what differs; three positions have them all.
  Two commands suffice to hit a move in each of its stages, three to hit the result
  again. The counters of the receiver and of the readback are bytes of any size, and
  with 3 to 5 values each boundary (0, 1, top) is a start, an end and a wrap. Payload
  bytes are only stored, so two of them tell an old byte from a new one.
* Program: bytes 0..2 make the wraps of TIM and of a count happen. The four programs
  have a counted loop around a move, every kind of wait, a jump over a move of two
  slots, a label nobody defines, labels of a longer program left in memory, and an end
  marker inside. Five commands are a download, a start, a stop, a second download and
  what the host then does wrong.
* Teachbox: the keys are one or two of every class the editor tells apart; `Top` = 10
  makes a number of two digits overflow. Nothing else is bounded.
* GUI: two keys make two key threads overlap; one fault can hit any call. CLI: two
  rounds of one code on a travel of three leave an axis on the way; entries of four
  keys have a repeated point or a second axis in them.
* Listing: each operand kind occurs, data decoded as code included, and a region of 5
  bytes has a jump backwards, forwards, into an instruction and out of the region.

Budgets are in the MC modules and configurations (`MaxCommands`, `frames`, `faults`,
`stops`, `MaxKeys`, `MaxFaults`, `MaxTyped`, `Stale`, `Chords`, `Foreign`,
`PayloadByte`), the cap of a history in `MaxPatience` and `RepeatRate`. The history of
digits of the teachbox has no cap: the editor itself refuses a digit that overflows, and
the history stops where a frame has changed the number.

**Deadlock** is checked for the firmware modules. The GUI stops when its window is
closed, the CLI when it has ended or crashed, the converter when it is done: the
configurations of these switch the deadlock check off.

**Fairness.** EXT1 restarts the converter whose end raises the next EXT1, and Timer 0
restarts by overflow: both keep coming (weak fairness in AxisServo). In Controller
emergency off takes the processor away from everything else, and requests are latched
meanwhile, so main loop, Timer 0, servo and TI get strong fairness; the byte on the
line and the release of the emergency line are weakly fair. Nothing is assumed of the
host, and no reading is assumed to reach a set-point: `WatchEnds` holds for a blocked
arm. In StoredProgram the main loop and the timer go on (`Execute`, `MotionOver`,
`Period`, `Slow2`); that moves come to rest (`Settle`) and that an input the program
waits for comes (`InputComes`) are assumptions about the outside, and `ProgramEnds` is
read with them: it says that the interpreter adds no wait of its own. In TeachboxGUI
`root.after` re-arms tick and pump for as long as the window exists, and the system
schedules every thread. The other modules state no fairness.

**Disagreements.** Three runs expect a violation: each states what a document or
comment of the repository says and TLC shows a behaviour of the code that does
otherwise (`findings` in `PROJECT.json`):

* `ctl_reach`: a single-axis command can be acknowledged before arrival.
* `gui_smoke`: the smoke test can fail because the boot thread's positions overwrite
  what it jogged.
* `prog_times`: a counted GOTO jumps once less than the teachbox manual says
  (`src/hardware/teachbox/README.md:128`).

More can be read off the definitions and have no run.

* Servo and commands: 0x62 does not retain the position while a ramp is under way; an
  over-range reading counts as in position (ext1_servo.asm:350); 0x0F takes six
  set-points, command.md:94 says seven; a refused 0x77 has
  changed time factors (rs232.asm:878); 0xF7 means that the watchdog expired; emergency
  off ends without a reset; 0x60 (`EnableMotors`) leaves the ports as they are; mask 0x21
  means "in position" and not "requires motion" (`Seen`); a status byte is followed by
  no ETX (`TxNext`).
* Program: a preparation takes the torso of a download for loaded if it passes for a
  program, for instance because it was broken off over one of the same length
  (`prog_prepare` of RxParser; program.asm:178); a counted GOTO in the first slot is not
  cleared by the preparation, and a MARK there defines nothing (`Scanned`); the
  preparation clears the counts of opcode 0x36 alone (program.asm:225), the executor
  counts for 0x37 too, which nobody documents and the model leaves out; a TIM whose low
  byte is 0 lasts 256 periods more (`Duration`); a start at a label in the middle of a
  wait keeps the wait, which then holds up its first instruction (`RunLabel`;
  `StartsUnhindered` leaves it out); a stop clears "ready", so that continue and step
  are refused afterwards (`StopAt`); after a new download 0x84 continues at the old
  program counter (`Continue`).
* Teachbox: POS a accepts 7 and 8 and writes the scanner's bytes (`pos_commit`); a query
  of all axes between two digits changes the number (`SerialFrame`; `CommitIsTyped` leaves
  it out).
* Front-ends: a key pressed by the CLI never reaches the editor of the firmware, because
  the processor does not run while no key is down, though cli.py:6 says "the keypad
  drives the real firmware in ucSim" (theorem `CliTypesNothing`); digits select axes
  from 2 on in the GUI and from 0 on in the CLI, whose docstring says 2 to 7; a line of
  the CLI does not always leave the arm at rest, because 40 rounds of 6 codes are less
  than the travel (`Settled`); an exception during the start leaves the simulator
  running (`Construct`, `BootFails`), one in the prompt ends the CLI without closing it
  (`Crash`).
* Listing tool: a jump into the middle of an instruction is written as a number; the
  warning comment announced for it (d51_to_sdas.py:76) is never written.

## 4. What is proved with TLAPS

The theorems hold for every value of the constants the assumptions in the modules
allow: any number of axes and any width of positions, time factors and counters (for
the receiver 2 to 6 axes, as many as its buffers hold, for the GUI up to 8), any dead
band, prescaler, watchdog load, any set of well-formed programs and any memory size,
any keys and chords, any subset of commands and any bytes on the line, any entries,
travel and number of rounds in the CLI, any region and table of opcodes.

| Module | Theorem | Establishes |
|---|---|---|
| Controller_proofs | `TypeCorrect` | `ServoTypeOK` |
| | `MovesNotForgotten`, `RampsLead` | `NoForgottenMove`, `RampLeadsToTarget` |
| | `ServoKeepsContract` | AxisServo implements MoveContract |
| | `PortsFollow` | `PortsFollowShadow` |
| | `ControllerTypeCorrect` | `TypeOK` |
| | `OneToken` | `TransmitToken` |
| | `CutStaysOff`, `PortsDeadOrFollow` | `CutMeansOff`, `PortsAsTheyShould` |
| | `AlwaysArmed`, `WatchdogIsPatient` | `WatchdogArmed`, `WatchdogPatience` |
| | `AckIsTrue` | `AckAfterArrival` |
| | `ControllerKeepsContract` | the composition implements MoveContract |
| RxParser_proofs | `RxTypeCorrect`, `ReceiverLoadsNoTorsos` | `RxTypeOK`, `ReceiverLoadsNoTorso` |
| | `StoresStayInBounds`, `FramesAreWhole` | `StoresInBounds`, `ReadyFrameIsWhole` |
| | `ReceiverReadsFrames` | RxParser implements FrameReader |
| StoredProgram_proofs | `ProgramTypeCorrect` | `ProgramTypeOK` |
| | `StartsNotHeldUp`, `StepsAreSingle` | `StartsUnhindered`, `OneInstructionPerStep` |
| | `StaysInProgram` | `PcInProgram` |
| | `LoopsEnd`, `TimIsLongEnough` | `LoopsCountOut`, `TimLasts` |
| Teachbox_proofs | `TeachboxTypeCorrect` | `TeachboxTypeOK` |
| | `CodesDeliberate`, `JogsPaced` | `CodesAreDeliberate`, `JogsArePaced` |
| | `NoPressIsLost` | `PressedKeyIsSeen` |
| | `TypedIsCommitted` | `CommitIsTyped` |
| | `CliTypesNothing` | in CliKeypad no code ever reaches the editor |
| TeachboxGUI_proofs | `GuiTypeCorrect` | `GuiTypeOK` |
| | `CacheTrue`, `HeldKeysHaveThreads` | `CacheIsTrue`, `HeldKeyHasThread` |
| TeachboxCLI_proofs | `CliTypeCorrect` | `CliTypeOK` |
| | `AdcFollowsPlant` | `AdcShowsPlant` |
| | `SettledArmsAreNear` | `ArmsNearTargets` |
| | `EntryIsCommitted` | `CommitIsTheEntry` |
| RegionListing_proofs | `CutRegionsFail` | `CutRegionFails` |
| | `ListingRoundTrips` | `RoundTrip` |

The arguments.

*Moves* (`MovesInv`). That a ramp leads to its target is inductive only together with
`NoForgottenMove` and the types: a move command to an axis in mid-ramp marks it again,
which takes it out of `Ramping`, and `StartMove` chooses its direction anew. Between
two steps the set-point cannot pass the target, because each step is one and is
compared. For the refinement `FreshUndisturbed` is added: an axis that waits for its
first service counts as undisturbed, so a position command before it only moves the
start of the ramp.

*Frames* (`FrameInv`). Between two frames no flag is left that would change the next
(`Between`; `lenPart` may be left over, and does no harm, because a download sets it
before it is read). In a payload the pointer is at the place of the next byte and the
bytes of the groups add up to the payload (`PayloadComesIn`), from which both the
bounds and the wholeness follow; `PlacesAreApart` says that no byte overwrites another.
In a download the bytes stored and those to come are what the two length bytes declare
(`DownloadComesIn`), with the wraps of both counters in `StreamCountsDown`. That the
receiver loads no torso says nothing of the content of the memory: it says which steps of
the firmware can make a torso count as loaded, and that no byte on the line is one.

*Transmitter* (`LineInv`). `IdleIsSilent` says that the helper leaves the transmitter
idle exactly when it has nothing to send; the token then moves from the idle flag to
the line, from there to TI and back. A keyword is in R5 before bit R can ask for it.

*Motors* (`MotorsInv`). Ports follow shadows, or are dead under emergency off; the cut
clears both and the enable flag, and the servo writes only while the flag is set.

*Watchdog* (`WatchInv`, `PatienceInv`). The watch ends at 1, so a watched motion never
sees 0 and the byte never wraps. For the patience, the events the timer must have
brought since the command (`Owed`) are bounded by the overflows that went by. This
theorem assumes that the history counts far enough (`MaxPatience`).

*Acknowledgment* (`SeenInv`). While a 0x0F is watched the bits of 0x21 are axes seen in
position since the command.

*Program*. `StoreInv`: there is an end marker behind the program, moves of two slots are
whole, and a loaded program has no end marker inside. `RunInv`: only a loaded program is
active, a wait is held by the busy flag, and a busy flag without a wait is an
instruction due; the two properties about starts and steps follow. The start at a label
is the one that does not clear the wait, so it needs that a wait implies busy: what it
may find is the wait it interrupts, never one from before a stop. `LabelInv` and
`PcInv`: labels and program counter are first slots of instructions, which a jump, a
step of one and a step over two slots keep. `CountInv`: the count byte of every counted
GOTO that was scanned is the number of jumps since it started counting, in a program
that is loaded; it is left in the execution after n - 1 of them. `TimInv`: periods owed
are at most those the two wrapping bytes of the timer still take, and one more while no
event is pending: an event that was pending when the TIM began has counted as its first,
so `TimLasts` allows one period less than asked for.

*Keys* (`BitsInv`, `PaceInv`). Bit 6 of 0x20 is set only after a poll without a key, or
by a jog, and with it 0x56 is what the last poll found, also where a set-point or an
emergency stop wrote 0x56. Bit 5 means that the key in 0x56 is a jog key and the
editor is jogging. For the pace, the count to come and the polls since the last code
add up to at least `RepeatRate`; slipping to another key and back clears bit 5 but takes
three polls, so `RepeatRate <= 3` is needed (`PaceAssumption`; it is 3 in the code).

*GUI* (`Alone`, `CacheInv`). `_push_busy` is set exactly while one push thread is under
way, so a channel and its record change hands within one thread, and between the two
the ADC holds the value about to be recorded. A key held has a thread in mid-press:
pressing and releasing are two calls of one thread, and any release lets the key go.

*Folds* (FoldLemmas). The induction theorems of the library take an operator as
parameter, which the installed provers cannot instantiate. But a set is a value: that
`<` on the naturals is well founded gives a least element to every set of numbers that
is not empty (`LeastExists`), and this gives induction for sets (`SetInduction`). With
the set of the lengths up to which two things agree, the recursion behind `FoldLeft` is
unfolded at the last element of a sequence (`FoldAppend`) for steps that are functions
on pairs. What the three modules count, concatenate or sum is therefore written as a
fold whose step is such a function (`Shift`, `Round`, `Plus`).

*Numbers typed* (`EntryInv`). Which keys are expected (0x29) and what was seen (0x2A)
leave three forms of an entry: no number (`Plain`), the axis and the point
(`AfterPoint`), a number under way (`WithNumber`), and in the last one 0x6D is the
decimal number of the digits since the point, unless a frame came. A point inside a
number or a digit that overflows is an error and leaves no number, and ENT commits in
the last form alone.

*CLI.* `TypeInv` and `AdcInv`: every step that moves the plant ends in `settle`, which
pushes. `NearInv`: in the rounds of `settle` the distance of an arm to its target falls
by a step until it is 0, by induction over the rounds, so what is left of it when the
session is back at the prompt is at most the travel less all rounds. `EntryInv` reads
the axis and the digits back from the keys since POS (`Agrees`): the last key that names
an axis has named the selected one, the digits after the last point are those in
`accum`.

*The CLI on the keypad* (`QuietInv`). Bit 6 of 0x20 is set by two polls without a key,
and here a poll needs a key down, so no key is passed on, for every set of keys and any
number of presses and polls: pressing longer would not help.

*Listings.* `EndInv`: both passes step over whole instructions and never beyond the
region, so a region that is cut fails in the first. `SweepInv`: the boundaries are a
chain from the origin on, each the end of the instruction before, so no boundary lies
inside an instruction. `EmitInv`: each line stands at the address it will be assembled
at, and each label that was passed was written once, so a name means the address it was
made of (`LabelsResolve`). An operand is read back by the arithmetic of pages and of
signed offsets (`PageFacts`, `SignedFacts`, `OperandFacts`), the opcode by
`MnemonicAssumption` (`OpcodeFits`); the lines are pieces of the region that meet
(`PiecesMeet`), and joining them gives the region (`JoinedPieces`).

What is only model-checked is liveness (`MovesEnd`, `ReceiverResyncs`, `LineDrains`,
`WatchEnds`, `ProgramEnds`, `FirmwareSeesPlant`): the proof system has no rules for
fairness. Every safety and action property of the runs that pass is a theorem.

The theorems about Controller, AxisServo, RxParser and StoredProgram are of `Spec`
(`ServoSpec`, `RxSpec`); the runs check `MCSpec`, which adds the budgets and, for the
receiver, the choice of payload bytes. Three properties that are proved and implied by
others have no run of their own (`NoForgottenMove`, `PortsFollowShadow`,
`WatchdogArmed`).

## 5. What is not modelled

* Firmware: the RAM probe, the seed handshake with EXT1 and the auto-baud loop; the
  pulse patterns of the motor drive (ramping of the duty cycle at 0x48), the analogue
  input, digital outputs (0x1N) and inputs; the teachbox modes that edit, store, show
  and run programs, and the gripper keys; a download that comes byte by byte while a
  program runs (RxParser has the bytes, StoredProgram the program, each without the
  other).
* Axis number 6 in single-axis commands: the code does not check it, the documents
  exclude it (axes 0..5).
* CLI: `:pos` and `:ucsim`, which pass on what the simulator says, and the history file.
* The package `rob3_ucsim` and the simulator are not in the repository: external, as the
  front-ends use them.
* `repro.py`, the simulator's tests and its peripherals: they start a foreign program and
  compare its answers; what there is of state is in that program. The Arduino sketches
  and their two `monitor.py`: a bench rig's serial output copied to the screen, without
  state beyond a line. The unannotated disassembly is the same ROM in raw form.

## 6. Plan

1. (done) AxisServo with MoveContract, RxParser with FrameReader, Controller.
2. (done) StoredProgram, Teachbox, the front-ends and the listing tool.
3. HostLink: what the host may conclude from keyword, data and status bytes, as an
   abstract specification, and Controller with a host that polls (0x4F) while it waits
   for an acknowledgment; the reply flag that arrival overwrites.
4. RxParser composed with Controller (a complete frame of the one is a frame of the
   other), and with StoredProgram for a download under a running program.
5. The program modes of the teachbox editor on the memory of StoredProgram.
6. Init: the seed handshake with EXT1 and the auto-baud loop.
7. Proofs: that after a broken frame the receiver is at its start after one silence
   (the safety half of `ReceiverResyncs`), a bound on the bytes the line still carries
   (the measure behind `LineDrains`), and for the interpreter a measure that falls with
   every instruction but a jump back (behind `ProgramEnds`).
