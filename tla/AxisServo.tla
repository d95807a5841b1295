----------------------------- MODULE AxisServo -----------------------------
(***************************************************************************)
(* The closed-loop position servo of the ROB3: the EXT1 interrupt handler  *)
(* (ext1_servo.asm, with its tail at 0x0214 in rs232.asm), the Timer-0     *)
(* phase bit that clocks its speed ramps, and the operations by which the  *)
(* serial dispatcher changes the state of the axes.                        *)
(*                                                                         *)
(* One interrupt services one slot of a round robin: the axes, then a      *)
(* slot that publishes the timer phase, then an analogue input slot.       *)
(* An interrupt handler runs to its end (no 8031 interrupt priority is     *)
(* ever raised), so each handler is one action.                            *)
(*                                                                         *)
(* ClampNoTop, MetBefore, PublishNothing, KeepActive, MarkResting and      *)
(* KeepShadows are faulty variants of the definition below each, for       *)
(* showing that the properties notice.                                     *)
(***************************************************************************)
EXTENDS Integers, FiniteSets

CONSTANTS
  NAxes,      \* number of axes (6 on the robot)
  MaxPos,     \* largest position (255: a position is a byte)
  MaxSpeed,   \* largest time factor and ramp counter (255: a byte)
  DeadBand    \* error that still counts as "in position" (2: table at 0x01DD)

ASSUME NAxesAssumption    == NAxes \in Nat \ {0}
ASSUME MaxPosAssumption   == MaxPos \in Nat \ {0}
ASSUME MaxSpeedAssumption == MaxSpeed \in Nat \ {0}
ASSUME DeadBandAssumption == DeadBand \in Nat

Axis  == 0 .. NAxes - 1
Pos   == 0 .. MaxPos
Speed == 0 .. MaxSpeed

(* The two slots of the round robin after the axes (bits 6 and 7 of 0x22). *)
TimerSlot  == NAxes
AnalogSlot == NAxes + 1
Slot       == 0 .. NAxes + 1

(* A potentiometer reading after scaling.  A reading below the travel is   *)
(* stored as 0, one above it as MaxPos; how far above matters.             *)
Reading == -1 .. MaxPos + DeadBand + 1

(* The two drive bits of an axis in port A or C: 00, 01 or 10.             *)
Drive == {"off", "down", "up"}

VARIABLES
  target,      \* 0x40+n   where a move with speed must end
  curPos,      \* 0x50+n   set-point the servo holds the axis at
  feedback,    \* 0x58+n   last measured position
  speed,       \* 0x70+n   timer phases per set-point step; 0 = at once
  count,       \* 0x78+n   phases left to the next step
  axisActive,  \* 0x21     axes found in position since it was cleared
  needMove,    \* 0x2B     axes whose set-point is not at its target yet
  moving,      \* 0x2C     axes whose move has not been serviced yet
  direction,   \* 0x2D     axes whose set-point counts up
  slot,        \* 0x22     slot served by the next interrupt
  phaseB4,     \* 0x23.4   a timer phase has come in
  phaseB3,     \* 0x23.3   the phase is published for this sweep
  axisEnable,  \* 0x20.0   SYS_AXIS_ENABLE
  shadow,      \* 0x4E,4F  port shadows, the bits of each axis
  port,        \* 8255     ports A and C, the bits of each axis
  overwritten  \* history: axes whose set-point a command replaced since
               \* their last move command

servoVars == <<target, curPos, feedback, speed, count, axisActive, needMove,
               moving, direction, slot, phaseB4, phaseB3, axisEnable,
               shadow, port, overwritten>>

cmdVars  == <<target, speed>>
maskVars == <<needMove, moving, direction, count>>
portVars == <<shadow, port>>
tickVars == <<phaseB4, phaseB3>>

-----------------------------------------------------------------------------
(* After init: the sweep of the start-up handshake has measured the axes   *)
(* against set-points of 0, and their feedback has become the set-point.   *)
ServoInit ==
  /\ feedback \in [Axis -> Pos]
  /\ curPos = feedback
  /\ target = [a \in Axis |-> 0]
  /\ speed = [a \in Axis |-> 0]
  /\ count = [a \in Axis |-> 0]
  /\ axisActive \in SUBSET {a \in Axis : feedback[a] <= DeadBand
                                          \/ feedback[a] = MaxPos}
  /\ needMove = {} /\ moving = {} /\ direction = {}
  /\ slot = 0
  /\ phaseB4 = FALSE /\ phaseB3 = FALSE
  /\ axisEnable = TRUE
  /\ shadow = [a \in Axis |-> "off"]
  /\ port = [a \in Axis |-> "off"]
  /\ overwritten = {}

-----------------------------------------------------------------------------
(* The control computation of one axis for a scaled reading r.             *)
ClampNoTop(r) == IF r < 0 THEN 0 ELSE r

Clamp(r) == IF r < 0 THEN 0 ELSE IF r > MaxPos THEN MaxPos ELSE r

Error(a, r) == IF r > MaxPos THEN r - MaxPos
               ELSE IF r >= curPos[a] THEN r - curPos[a] ELSE curPos[a] - r

InPosition(a, r) == r >= 0 /\ Error(a, r) <= DeadBand

Sense(a, r) == CASE r < 0                       -> "up"
                 [] r > MaxPos                  -> "down"
                 [] r \in Pos /\ r > curPos[a]  -> "down"
                 [] r \in Pos /\ r < curPos[a]  -> "up"
                 [] OTHER                       -> "off"

Measured(a, r) == [feedback EXCEPT ![a] = Clamp(r)]

Seen(a, r) == IF InPosition(a, r) THEN axisActive \union {a} ELSE axisActive

(* Axes 0..3 are driven by port A, the others by port C.                   *)
SamePort(a, b) == (a < 4) = (b < 4)

(* Pulse-width modulation is a free choice between a pulse and a pause;    *)
(* either way the axis' bits in the shadow change and the port is written  *)
(* with the shadow.                                                        *)
WritePort(a) ==
  port' = [b \in Axis |-> IF SamePort(a, b) THEN shadow'[b] ELSE port[b]]

DriveAxis(a, r) ==
  \E out \in {"off", Sense(a, r)} :
    /\ shadow' = [shadow EXCEPT ![a] = out]
    /\ WritePort(a)

(* The first service of a move: nothing to do, a jump, or a ramp.          *)
Unmark(a) == moving' = moving \ {a}

Release(a) == needMove' = needMove \ {a}

StartMove(a, active) ==
  /\ Unmark(a)
  /\ IF target[a] = curPos[a] \/ speed[a] = 0
     THEN /\ curPos' = [curPos EXCEPT ![a] = target[a]]
          /\ Release(a)
          /\ axisActive' = active \ {a}
          /\ UNCHANGED <<direction, count>>
     ELSE /\ count' = [count EXCEPT ![a] = speed[a]]
          /\ direction' = IF target[a] >= curPos[a] THEN direction \union {a}
                                                    ELSE direction \ {a}
          /\ axisActive' = active
          /\ UNCHANGED <<curPos, needMove>>

(* One published phase of a ramp.  Counter and set-point are bytes and     *)
(* wrap; the move is over when the set-point meets the target.             *)
Down(n, top) == (n + top) % (top + 1)
Up(n, top)   == (n + 1) % (top + 1)

MetBefore(a) == curPos[a] = target[a]
Met(a)       == curPos'[a] = target[a]

StepRamp(a) ==
  IF Down(count[a], MaxSpeed) # 0
  THEN /\ count' = [count EXCEPT ![a] = Down(@, MaxSpeed)]
       /\ UNCHANGED <<curPos, needMove>>
  ELSE /\ count' = [count EXCEPT ![a] = speed[a]]
       /\ curPos' = [curPos EXCEPT ![a] = IF a \in direction THEN Up(@, MaxPos)
                                                            ELSE Down(@, MaxPos)]
       /\ IF Met(a) THEN Release(a) ELSE UNCHANGED needMove

NextSlot == slot' = (slot + 1) % (NAxes + 2)

(* EXT1 in the slot of an axis.  While the axes are disabled the handler   *)
(* still measures, but neither drives nor ramps.                           *)
ServeAxis(r) ==
  /\ slot \in Axis
  /\ NextSlot
  /\ feedback' = Measured(slot, r)
  /\ IF axisEnable THEN DriveAxis(slot, r) ELSE UNCHANGED portVars
  /\ IF ~axisEnable \/ slot \notin needMove
     THEN axisActive' = Seen(slot, r) /\ UNCHANGED <<curPos, maskVars>>
     ELSE IF slot \in moving
     THEN StartMove(slot, Seen(slot, r))
     ELSE /\ axisActive' = Seen(slot, r)
          /\ IF phaseB3 THEN StepRamp(slot) ELSE UNCHANGED <<curPos, needMove, count>>
          /\ UNCHANGED <<moving, direction>>
  /\ UNCHANGED <<cmdVars, tickVars, axisEnable, overwritten>>

(* EXT1 in the timer slot: the phase that came in is published for the     *)
(* next sweep.  The analogue input this slot stores is not modelled.       *)
PublishNothing == phaseB3' = FALSE /\ phaseB4' = FALSE
Publish        == phaseB3' = phaseB4 /\ phaseB4' = FALSE

ServeTimer ==
  /\ slot = TimerSlot
  /\ NextSlot
  /\ Publish
  /\ UNCHANGED <<cmdVars, maskVars, portVars, curPos, feedback, axisActive,
                 axisEnable, overwritten>>

ServeAnalog ==
  /\ slot = AnalogSlot
  /\ NextSlot
  /\ UNCHANGED <<cmdVars, maskVars, portVars, tickVars, curPos, feedback,
                 axisActive, axisEnable, overwritten>>

EXT1 == (\E r \in Reading : ServeAxis(r)) \/ ServeTimer \/ ServeAnalog

-----------------------------------------------------------------------------
(* Timer 0 seen by the servo: a phase for the ramps.  A phase that comes   *)
(* in before the last one was taken is lost, for it is one bit.            *)
MarkPhase ==
  /\ phaseB4' = TRUE
  /\ UNCHANGED <<cmdVars, maskVars, portVars, curPos, feedback, axisActive,
                 slot, phaseB3, axisEnable, overwritten>>

-----------------------------------------------------------------------------
(* What the serial dispatcher does to the axes.                            *)

Ramping == needMove \ moving

(* A set-point is replaced: for an axis in mid-ramp the history notes it.  *)
Overwrite(A) == overwritten' = overwritten \union (A \intersect Ramping)

(* 0x0N, axis a: the position becomes the set-point; 0x21 is not touched.  *)
PositionOne(a, v) ==
  /\ curPos' = [curPos EXCEPT ![a] = v]
  /\ Overwrite({a})
  /\ UNCHANGED <<cmdVars, maskVars, portVars, tickVars, feedback, axisActive,
                 slot, axisEnable>>

(* 0x07 and 0x0F, all axes.                                                *)
KeepActive  == UNCHANGED axisActive
ClearActive == axisActive' = {}

PositionAll(p) ==
  /\ curPos' = p
  /\ ClearActive
  /\ Overwrite(Axis)
  /\ UNCHANGED <<cmdVars, maskVars, portVars, tickVars, feedback, slot, axisEnable>>

(* The moves with speed: masks needMove and moving gain the axes in A.     *)
MarkResting(A) == moving' = moving \union (A \ needMove)
Mark(A)        == moving' = moving \union A

BeginMove(A) ==
  /\ needMove' = needMove \union A
  /\ Mark(A)
  /\ overwritten' = overwritten \ A
  /\ UNCHANGED <<portVars, tickVars, curPos, feedback, axisActive, direction,
                 count, slot, axisEnable>>

(* 0x7N, axis a: target and time factor.                                   *)
MoveOne(a, v, s) ==
  /\ target' = [target EXCEPT ![a] = v]
  /\ speed' = [speed EXCEPT ![a] = s]
  /\ BeginMove({a})

(* 0x77 and 0x7F: the targets of all axes.  Their time factors are in      *)
(* place already: the receiver stores each straight into 0x70+n, before    *)
(* the end of the frame is seen.                                           *)
MoveAll(p) ==
  /\ target' = p
  /\ BeginMove(Axis)
  /\ UNCHANGED speed

StoreSpeed(a, s) ==
  /\ speed' = [speed EXCEPT ![a] = s]
  /\ UNCHANGED <<target, maskVars, portVars, tickVars, curPos, feedback,
                 axisActive, slot, axisEnable, overwritten>>

(* 0x60 and 0x61: motor control off and on.                                *)
EnableMotors(b) ==
  /\ axisEnable' = b
  /\ UNCHANGED <<cmdVars, maskVars, portVars, tickVars, curPos, feedback,
                 axisActive, slot, overwritten>>

(* 0x62, positioning shutdown: every axis is held where it was measured.   *)
Shutdown ==
  /\ curPos' = feedback
  /\ Overwrite(Axis)
  /\ UNCHANGED <<cmdVars, maskVars, portVars, tickVars, feedback, axisActive,
                 slot, axisEnable>>

(* The watchdog of the main loop cuts the motors.                          *)
KeepShadows == UNCHANGED shadow
ShadowsOff == shadow' = [a \in Axis |-> "off"]

CutMotors ==
  /\ axisEnable' = FALSE
  /\ ShadowsOff
  /\ port' = [a \in Axis |-> "off"]
  /\ UNCHANGED <<cmdVars, maskVars, tickVars, curPos, feedback, axisActive,
                 slot, overwritten>>

Command ==
  \/ \E a \in Axis, v \in Pos : PositionOne(a, v)
  \/ \E p \in [Axis -> Pos] : PositionAll(p)
  \/ \E a \in Axis, v \in Pos, s \in Speed : MoveOne(a, v, s)
  \/ \E p \in [Axis -> Pos] : MoveAll(p)
  \/ \E a \in Axis, s \in Speed : StoreSpeed(a, s)
  \/ \E b \in BOOLEAN : EnableMotors(b)
  \/ Shutdown

ServoNext == EXT1 \/ MarkPhase \/ Command \/ CutMotors

(* The A/D converter is restarted by every EXT1 and Timer 0 by every       *)
(* overflow, so both interrupts keep coming.                               *)
ServoSpec == ServoInit /\ [][ServoNext]_servoVars
             /\ WF_servoVars(EXT1) /\ WF_servoVars(MarkPhase)

-----------------------------------------------------------------------------
(* Type invariant: positions, counters and masks keep their width.         *)
ServoTypeOK ==
  /\ target \in [Axis -> Pos] /\ curPos \in [Axis -> Pos]
  /\ feedback \in [Axis -> Pos]
  /\ speed \in [Axis -> Speed] /\ count \in [Axis -> Speed]
  /\ axisActive \subseteq Axis /\ needMove \subseteq Axis
  /\ moving \subseteq Axis /\ direction \subseteq Axis
  /\ slot \in Slot
  /\ phaseB4 \in BOOLEAN /\ phaseB3 \in BOOLEAN /\ axisEnable \in BOOLEAN
  /\ shadow \in [Axis -> Drive] /\ port \in [Axis -> Drive]
  /\ overwritten \subseteq Axis

(* A move that waits for its first service is also counted as unfinished:  *)
(* no path clears an axis in 0x2B and leaves it in 0x2C, where the handler *)
(* would never look at it again.                                           *)
NoForgottenMove == moving \subseteq needMove

(* The ramp of an axis whose set-point nobody replaced leads to its        *)
(* target: the set-point has not met the target and counts in its          *)
(* direction, so it never overshoots nor wraps round the byte, whatever    *)
(* moves, time factors and disables came in between.                       *)
RampLeadsToTarget ==
  \A a \in Ramping \ overwritten :
    IF a \in direction THEN curPos[a] < target[a] ELSE curPos[a] > target[a]

(* No writer of a port shadow forgets the port: what drives the motors is  *)
(* what the firmware believes.                                             *)
PortsFollowShadow == port = shadow

(* A move ends, even one whose set-point was replaced and that now has to  *)
(* wrap round the byte: once the host is silent and the axes stay enabled  *)
(* no axis keeps needing to move.                                          *)
MovesEnd ==
  (<>[][~Command]_servoVars /\ <>[]axisEnable) => <>[](needMove = {})

(* The contract of the servo towards whoever commands a move.              *)
Contract == INSTANCE MoveContract
              WITH goal <- target, place <- curPos, busy <- needMove,
                   begun <- Ramping, disturbed <- overwritten \intersect Ramping

MoveContractHolds == Contract!ContractSpec
=============================================================================
