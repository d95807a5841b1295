------------------------- MODULE Controller_proofs --------------------------
(***************************************************************************)
(* Proofs about the servo and about the Controller built on it, for every  *)
(* number of axes, every width of positions and counters, every dead band, *)
(* prescaler and watchdog load, every length of the stored program and     *)
(* every set of commands the host uses.  The first half is about the servo *)
(* alone (ServoSpec), the second about all routines together (Spec).       *)
(***************************************************************************)
EXTENDS Controller, TLAPS

-----------------------------------------------------------------------------
(* Lemmas on the bytes that count.                                         *)

(* A byte counted up or down is a byte.                                    *)
LEMMA CountsStayBytes ==
  ASSUME NEW top \in Nat, NEW n \in 0 .. top
  PROVE  Up(n, top) \in 0 .. top /\ Down(n, top) \in 0 .. top
BY DEF Up, Down

(* Below its top a byte counts up by one.                                  *)
LEMMA UpIsSuccessor ==
  ASSUME NEW top \in Nat, NEW n \in 0 .. top, n < top
  PROVE  Up(n, top) = n + 1
BY DEF Up

(* Above 0 a byte counts down by one.                                      *)
LEMMA DownIsPredecessor ==
  ASSUME NEW top \in Nat, NEW n \in 0 .. top, n > 0
  PROVE  Down(n, top) = n - 1
BY DEF Down

-----------------------------------------------------------------------------
(* What is assumed of the constants, in one name.                          *)
USE NAxesAssumption, MaxPosAssumption, MaxSpeedAssumption, DeadBandAssumption

(* The slots in a row are a ring.                                          *)
LEMMA NextSlotStays ==
  ASSUME slot \in Slot, NextSlot
  PROVE  slot' \in Slot
BY DEF Slot, NextSlot

(* What one service of an axis leaves in the masks, the counters and the   *)
(* set-points is of their type.                                            *)
LEMMA ServeAxisTypeOK ==
  ASSUME ServoTypeOK, NEW r \in Reading, ServeAxis(r)
  PROVE  ServoTypeOK'
<1> USE DEF Speed, Pos
<1>1. slot \in Axis /\ slot' \in Slot
  BY NextSlotStays DEF ServeAxis, ServoTypeOK
<1>2. feedback' \in [Axis -> Pos]
  BY <1>1 DEF ServeAxis, ServoTypeOK, Measured, Clamp, Reading
<1>3. shadow' \in [Axis -> Drive] /\ port' \in [Axis -> Drive]
  <2>1. CASE axisEnable
    <3>1. PICK out \in {"off", Sense(slot, r)} :
            shadow' = [shadow EXCEPT ![slot] = out] /\ WritePort(slot)
      BY <2>1 DEF ServeAxis, DriveAxis
    <3>2. Sense(slot, r) \in Drive
      BY DEF Sense, Drive
    <3> QED BY <1>1, <3>1, <3>2 DEF ServoTypeOK, WritePort, Drive
  <2>2. CASE ~axisEnable
    BY <2>2 DEF ServeAxis, ServoTypeOK, portVars
  <2> QED BY <2>1, <2>2
<1>4. Seen(slot, r) \subseteq Axis
  BY <1>1 DEF Seen, ServoTypeOK
<1>5. /\ curPos' \in [Axis -> Pos] /\ count' \in [Axis -> Speed]
      /\ axisActive' \subseteq Axis /\ needMove' \subseteq Axis
      /\ moving' \subseteq Axis /\ direction' \subseteq Axis
  <2>1. CASE ~axisEnable \/ slot \notin needMove
    BY <1>4, <2>1 DEF ServeAxis, ServoTypeOK, maskVars
  <2>2. CASE axisEnable /\ slot \in needMove /\ slot \in moving
    <3>1. StartMove(slot, Seen(slot, r))
      BY <2>2 DEF ServeAxis
    <3> QED BY <1>1, <1>4, <3>1 DEF StartMove, Unmark, Release, ServoTypeOK
  <2>3. CASE axisEnable /\ slot \in needMove /\ slot \notin moving
    <3>1. /\ axisActive' = Seen(slot, r) /\ UNCHANGED <<moving, direction>>
          /\ IF phaseB3 THEN StepRamp(slot)
                        ELSE UNCHANGED <<curPos, needMove, count>>
      BY <2>3 DEF ServeAxis
    <3>2. CASE phaseB3
      <4>1. /\ Up(curPos[slot], MaxPos) \in Pos
            /\ Down(curPos[slot], MaxPos) \in Pos
            /\ Down(count[slot], MaxSpeed) \in Speed
        BY <1>1, CountsStayBytes DEF ServoTypeOK
      <4> HIDE DEF Pos, Speed
      <4> QED BY <1>1, <1>4, <3>1, <3>2, <4>1
              DEF StepRamp, Release, ServoTypeOK
    <3>3. CASE ~phaseB3
      BY <1>4, <3>1, <3>3 DEF ServoTypeOK
    <3> QED BY <3>2, <3>3
  <2> QED BY <2>1, <2>2, <2>3
<1> QED
  BY <1>1, <1>2, <1>3, <1>5
     DEF ServeAxis, ServoTypeOK, cmdVars, tickVars

(* The initial states are of their type.                                   *)
LEMMA InitTypeOK == ServoInit => ServoTypeOK
<1> SUFFICES ASSUME ServoInit PROVE ServoTypeOK
  OBVIOUS
<1>1. axisActive \subseteq Axis
  BY DEF ServoInit
<1>2. 0 \in Pos /\ 0 \in Speed /\ 0 \in Slot /\ "off" \in Drive
  BY DEF Pos, Speed, Slot, Drive
<1> QED BY <1>1, <1>2 DEF ServoInit, ServoTypeOK

(* Every step leaves the state of its type.                                *)
LEMMA StepTypeOK == ServoTypeOK /\ [ServoNext]_servoVars => ServoTypeOK'
<1> SUFFICES ASSUME ServoTypeOK, [ServoNext]_servoVars
             PROVE  ServoTypeOK'
  OBVIOUS
<1> USE DEF ServoTypeOK, cmdVars, maskVars, portVars, tickVars
<1>1. CASE EXT1
  <2>1. ASSUME NEW r \in Reading, ServeAxis(r) PROVE ServoTypeOK'
    BY <2>1, ServeAxisTypeOK
  <2>2. CASE ServeTimer
    BY <2>2, NextSlotStays DEF ServeTimer, Publish
  <2>3. CASE ServeAnalog
    BY <2>3, NextSlotStays DEF ServeAnalog
  <2> QED BY <1>1, <2>1, <2>2, <2>3 DEF EXT1
<1>2. CASE MarkPhase
  BY <1>2 DEF MarkPhase
<1>3. CASE Command
  <2>1. ASSUME NEW a \in Axis, NEW v \in Pos, PositionOne(a, v) PROVE ServoTypeOK'
    BY <2>1 DEF PositionOne, Overwrite
  <2>2. ASSUME NEW p \in [Axis -> Pos], PositionAll(p) PROVE ServoTypeOK'
    BY <2>2 DEF PositionAll, ClearActive, Overwrite
  <2>3. ASSUME NEW a \in Axis, NEW v \in Pos, NEW s \in Speed, MoveOne(a, v, s)
        PROVE  ServoTypeOK'
    BY <2>3 DEF MoveOne, BeginMove, Mark
  <2>4. ASSUME NEW p \in [Axis -> Pos], MoveAll(p) PROVE ServoTypeOK'
    BY <2>4 DEF MoveAll, BeginMove, Mark
  <2>5. ASSUME NEW a \in Axis, NEW s \in Speed, StoreSpeed(a, s) PROVE ServoTypeOK'
    BY <2>5 DEF StoreSpeed
  <2>6. ASSUME NEW b \in BOOLEAN, EnableMotors(b) PROVE ServoTypeOK'
    BY <2>6 DEF EnableMotors
  <2>7. CASE Shutdown
    BY <2>7 DEF Shutdown, Overwrite
  <2> QED BY <1>3, <2>1, <2>2, <2>3, <2>4, <2>5, <2>6, <2>7 DEF Command
<1>4. CASE CutMotors
  BY <1>4 DEF CutMotors, ShadowsOff, Drive
<1>5. CASE UNCHANGED servoVars
  BY <1>5 DEF servoVars
<1> QED BY <1>1, <1>2, <1>3, <1>4, <1>5 DEF ServoNext

(* Positions, counters and masks keep their width in every reachable state.*)
THEOREM TypeCorrect == ServoSpec => []ServoTypeOK
<1>1. ServoInit => ServoTypeOK
  BY InitTypeOK
<1>2. ServoTypeOK /\ [ServoNext]_servoVars => ServoTypeOK'
  BY StepTypeOK
<1> QED BY <1>1, <1>2, PTL DEF ServoSpec

-----------------------------------------------------------------------------
(* The inductive invariant of the moves.  A ramp that leads to its target  *)
(* keeps doing so because a move in mid-ramp that gets a new target is     *)
(* marked again (moving), so its direction is chosen anew.                 *)
MovesInv == ServoTypeOK /\ NoForgottenMove /\ RampLeadsToTarget

(* The first service of a move chooses the direction of its ramp, or       *)
(* releases the axis.                                                      *)
LEMMA StartMoveInv ==
  ASSUME MovesInv, ServoTypeOK', slot \in moving,
         NEW active, StartMove(slot, active), UNCHANGED <<cmdVars, overwritten>>
  PROVE  MovesInv'
<1> USE DEF MovesInv, NoForgottenMove, RampLeadsToTarget, Ramping, ServoTypeOK,
            StartMove, Unmark, Release, cmdVars, Pos
<1>1. CASE target[slot] = curPos[slot] \/ speed[slot] = 0
  BY <1>1
<1>2. CASE ~(target[slot] = curPos[slot] \/ speed[slot] = 0)
  <2>1. NoForgottenMove'
    BY <1>2
  <2>2. ASSUME NEW a \in Ramping' \ overwritten'
        PROVE  IF a \in direction' THEN curPos'[a] < target'[a]
                                   ELSE curPos'[a] > target'[a]
    <3>1. CASE a = slot
      BY <1>2, <3>1
    <3>2. CASE a # slot
      BY <1>2, <2>2, <3>2
    <3> QED BY <3>1, <3>2
  <2> QED BY <2>1, <2>2
<1> QED BY <1>1, <1>2

(* A ramp step goes one step to the target, and releases the axis there.   *)
LEMMA StepRampInv ==
  ASSUME MovesInv, ServoTypeOK', slot \in Axis, slot \in needMove, slot \notin moving,
         StepRamp(slot), UNCHANGED <<cmdVars, moving, direction, overwritten>>
  PROVE  MovesInv'
<1>1. CASE Down(count[slot], MaxSpeed) # 0
  BY <1>1 DEF MovesInv, NoForgottenMove, RampLeadsToTarget, Ramping, StepRamp, cmdVars
<1>2. CASE Down(count[slot], MaxSpeed) = 0
  <2>1. /\ curPos' = [curPos EXCEPT ![slot] = IF slot \in direction
                                THEN Up(@, MaxPos) ELSE Down(@, MaxPos)]
        /\ needMove' = IF curPos'[slot] = target[slot] THEN needMove \ {slot}
                                                      ELSE needMove
        /\ target' = target
    BY <1>2 DEF StepRamp, Met, Release, cmdVars
  <2>2. NoForgottenMove'
    BY <2>1 DEF MovesInv, NoForgottenMove
  <2>3. ASSUME NEW a \in Ramping' \ overwritten'
        PROVE  IF a \in direction' THEN curPos'[a] < target'[a]
                                   ELSE curPos'[a] > target'[a]
    <3>1. a \in Ramping \ overwritten /\ a \in Axis
      BY <2>1 DEF Ramping, MovesInv, ServoTypeOK
    <3>2. CASE a = slot
      <4>1. /\ curPos[a] \in 0 .. MaxPos /\ target[a] \in 0 .. MaxPos
            /\ IF a \in direction THEN curPos[a] < target[a]
                                  ELSE curPos[a] > target[a]
        BY <3>1 DEF MovesInv, ServoTypeOK, RampLeadsToTarget, Pos
      <4>2. curPos'[a] = IF a \in direction THEN curPos[a] + 1 ELSE curPos[a] - 1
        BY <2>1, <3>1, <3>2, <4>1, UpIsSuccessor, DownIsPredecessor
           DEF MovesInv, ServoTypeOK
      <4>3. curPos'[a] # target[a]
        BY <2>1, <2>3, <3>2 DEF Ramping
      <4> QED BY <2>1, <4>1, <4>2, <4>3
    <3>3. CASE a # slot
      BY <2>1, <3>1, <3>3 DEF MovesInv, ServoTypeOK, RampLeadsToTarget
    <3> QED BY <3>2, <3>3
  <2> QED BY <2>2, <2>3 DEF MovesInv, RampLeadsToTarget
<1> QED BY <1>1, <1>2

LEMMA ServeAxisInv ==
  ASSUME MovesInv, ServoTypeOK', NEW r \in Reading, ServeAxis(r)
  PROVE  MovesInv'
<1>1. slot \in Axis /\ UNCHANGED <<cmdVars, overwritten>>
  BY DEF ServeAxis
<1>2. CASE ~axisEnable \/ slot \notin needMove
  BY <1>1, <1>2 DEF ServeAxis, MovesInv, NoForgottenMove, RampLeadsToTarget,
                    Ramping, cmdVars, maskVars
<1>3. CASE axisEnable /\ slot \in needMove /\ slot \in moving
  <2>1. StartMove(slot, Seen(slot, r))
    BY <1>3 DEF ServeAxis
  <2> QED BY <1>1, <1>3, <2>1, StartMoveInv
<1>4. CASE axisEnable /\ slot \in needMove /\ slot \notin moving
  <2>1. /\ UNCHANGED <<moving, direction>>
        /\ IF phaseB3 THEN StepRamp(slot)
                      ELSE UNCHANGED <<curPos, needMove, count>>
    BY <1>4 DEF ServeAxis
  <2>2. CASE phaseB3
    BY <1>1, <1>4, <2>1, <2>2, StepRampInv
  <2>3. CASE ~phaseB3
    BY <1>1, <2>1, <2>3 DEF MovesInv, NoForgottenMove, RampLeadsToTarget,
                            Ramping, cmdVars
  <2> QED BY <2>2, <2>3
<1> QED BY <1>2, <1>3, <1>4

LEMMA CommandInv ==
  ASSUME MovesInv, ServoTypeOK', Command
  PROVE  MovesInv'
<1> USE DEF MovesInv, NoForgottenMove, RampLeadsToTarget, Ramping, Overwrite,
            BeginMove, Mark, ServoTypeOK, cmdVars, maskVars
<1>1. ASSUME NEW a \in Axis, NEW v \in Pos, PositionOne(a, v) PROVE MovesInv'
  BY <1>1 DEF PositionOne
<1>2. ASSUME NEW p \in [Axis -> Pos], PositionAll(p) PROVE MovesInv'
  BY <1>2 DEF PositionAll
<1>3. ASSUME NEW a \in Axis, NEW v \in Pos, NEW s \in Speed, MoveOne(a, v, s)
      PROVE  MovesInv'
  BY <1>3 DEF MoveOne
<1>4. ASSUME NEW p \in [Axis -> Pos], MoveAll(p) PROVE MovesInv'
  BY <1>4 DEF MoveAll
<1>5. ASSUME NEW a \in Axis, NEW s \in Speed, StoreSpeed(a, s) PROVE MovesInv'
  BY <1>5 DEF StoreSpeed
<1>6. ASSUME NEW b \in BOOLEAN, EnableMotors(b) PROVE MovesInv'
  BY <1>6 DEF EnableMotors
<1>7. CASE Shutdown
  BY <1>7 DEF Shutdown
<1> QED BY <1>1, <1>2, <1>3, <1>4, <1>5, <1>6, <1>7 DEF Command

LEMMA InitMovesInv == ServoInit => MovesInv
BY InitTypeOK DEF ServoInit, MovesInv, NoForgottenMove, RampLeadsToTarget, Ramping

LEMMA StepMovesInv == MovesInv /\ [ServoNext]_servoVars => MovesInv'
<1> SUFFICES ASSUME MovesInv, [ServoNext]_servoVars
             PROVE  MovesInv'
  OBVIOUS
<1>1. ServoTypeOK'
  BY StepTypeOK DEF MovesInv
<1>2. CASE UNCHANGED <<cmdVars, maskVars, curPos, overwritten>>
  BY <1>1, <1>2 DEF MovesInv, NoForgottenMove, RampLeadsToTarget, Ramping,
                    cmdVars, maskVars
<1>3. ASSUME NEW r \in Reading, ServeAxis(r) PROVE MovesInv'
  BY <1>1, <1>3, ServeAxisInv
<1>4. CASE ServeTimer \/ ServeAnalog \/ MarkPhase \/ CutMotors
  BY <1>2, <1>4 DEF ServeTimer, ServeAnalog, MarkPhase, CutMotors
<1>5. CASE Command
  BY <1>1, <1>5, CommandInv
<1>6. CASE UNCHANGED servoVars
  BY <1>2, <1>6 DEF servoVars, cmdVars, maskVars
<1> QED BY <1>3, <1>4, <1>5, <1>6 DEF ServoNext, EXT1

(* MovesInv holds in every reachable state.                                *)
THEOREM MovesInvariant == ServoSpec => []MovesInv
<1>1. ServoInit => MovesInv
  BY InitMovesInv
<1>2. MovesInv /\ [ServoNext]_servoVars => MovesInv'
  BY StepMovesInv
<1> QED BY <1>1, <1>2, PTL DEF ServoSpec

(* No path of the handler forgets a move that waits for its first service. *)
THEOREM MovesNotForgotten == ServoSpec => []NoForgottenMove
<1>1. MovesInv => NoForgottenMove
  BY DEF MovesInv
<1> QED BY <1>1, MovesInvariant, PTL

(* A ramp whose set-point nobody replaced leads to its target.             *)
THEOREM RampsLead == ServoSpec => []RampLeadsToTarget
<1>1. MovesInv => RampLeadsToTarget
  BY DEF MovesInv
<1> QED BY <1>1, MovesInvariant, PTL

-----------------------------------------------------------------------------
(* The servo keeps the contract of MoveContract.  A move that waits for    *)
(* its first service counts as undisturbed: a position command before it   *)
(* only changes where the ramp begins.                                     *)
FreshUndisturbed == moving \intersect overwritten = {}

ContractInv == MovesInv /\ FreshUndisturbed

LEMMA StepContractInv == ContractInv /\ [ServoNext]_servoVars => ContractInv'
<1> SUFFICES ASSUME ContractInv, [ServoNext]_servoVars
             PROVE  FreshUndisturbed'
  BY StepMovesInv DEF ContractInv
<1> USE DEF ContractInv, FreshUndisturbed
<1>1. ASSUME NEW r \in Reading, ServeAxis(r)
      PROVE  moving' \subseteq moving /\ overwritten' = overwritten
  BY <1>1 DEF ServeAxis, StartMove, Unmark, maskVars
<1>2. CASE ServeTimer \/ ServeAnalog \/ MarkPhase \/ CutMotors
  BY <1>2 DEF ServeTimer, ServeAnalog, MarkPhase, CutMotors, maskVars
<1>3. CASE Command
  BY <1>3 DEF Command, PositionOne, PositionAll, MoveOne, MoveAll, StoreSpeed,
              EnableMotors, Shutdown, Overwrite, Ramping, BeginMove, Mark, maskVars
<1>4. CASE UNCHANGED servoVars
  BY <1>4 DEF servoVars
<1> QED BY <1>1, <1>2, <1>3, <1>4 DEF ServoNext, EXT1

LEMMA InitContractInv == ServoInit => ContractInv
BY InitMovesInv DEF ServoInit, ContractInv, FreshUndisturbed

(* The first service of a move sets the axis out, or has it jump.          *)
LEMMA StartMoveRefines ==
  ASSUME ContractInv, ServoTypeOK', slot \in moving,
         NEW active, StartMove(slot, active), UNCHANGED <<cmdVars, overwritten>>
  PROVE  Contract!SetOut(slot) \/ Contract!Jump(slot)
<1> USE DEF ContractInv, MovesInv, NoForgottenMove, FreshUndisturbed, Ramping,
            StartMove, Unmark, Release, cmdVars
<1>1. slot \in needMove \ Ramping
  OBVIOUS
<1>2. CASE target[slot] = curPos[slot] \/ speed[slot] = 0
  BY <1>1, <1>2 DEF Contract!Jump, Contract!Release
<1>3. CASE ~(target[slot] = curPos[slot] \/ speed[slot] = 0)
  BY <1>1, <1>3 DEF Contract!SetOut
<1> QED BY <1>2, <1>3

(* A published phase leaves the axis, has it approach its goal, or, when   *)
(* its set-point was replaced, wander.                                     *)
LEMMA StepRampRefines ==
  ASSUME ContractInv, ServoTypeOK', slot \in Axis, slot \in Ramping,
         StepRamp(slot), UNCHANGED <<cmdVars, moving, direction, overwritten>>
  PROVE  \/ Contract!Approach(slot) \/ Contract!Wander(slot)
         \/ UNCHANGED Contract!contractVars
<1>1. CASE Down(count[slot], MaxSpeed) # 0
  BY <1>1 DEF StepRamp, cmdVars, Ramping, Contract!contractVars
<1>2. CASE Down(count[slot], MaxSpeed) = 0
  <2> DEFINE p == IF slot \in direction THEN Up(curPos[slot], MaxPos)
                                        ELSE Down(curPos[slot], MaxPos)
  <2>1. /\ curPos' = [curPos EXCEPT ![slot] = p]
        /\ needMove' = IF p = target[slot] THEN needMove \ {slot} ELSE needMove
        /\ target' = target /\ moving' = moving /\ overwritten' = overwritten
    BY <1>2 DEF StepRamp, Met, Release, cmdVars, ContractInv, MovesInv, ServoTypeOK
  <2>2. /\ curPos[slot] \in 0 .. MaxPos /\ target[slot] \in 0 .. MaxPos
        /\ p \in 0 .. MaxPos
    BY CountsStayBytes DEF ContractInv, MovesInv, ServoTypeOK, Pos
  <2> HIDE DEF p
  <2>3. Contract!GoTo(slot, p)
    BY <2>1 DEF Contract!GoTo, Contract!Release, Ramping
  <2>4. CASE slot \in overwritten
    BY <2>2, <2>3, <2>4 DEF Contract!Wander, Contract!Place
  <2>5. CASE slot \notin overwritten
    <3>1. CASE slot \in direction
      <4>1. curPos[slot] < target[slot]
        BY <2>5, <3>1 DEF ContractInv, MovesInv, RampLeadsToTarget
      <4>2. p = curPos[slot] + 1
        BY <2>2, <3>1, <4>1, UpIsSuccessor DEF p
      <4> QED BY <2>3, <2>5, <4>1, <4>2 DEF Contract!Approach
    <3>2. CASE slot \notin direction
      <4>1. curPos[slot] > target[slot]
        BY <2>5, <3>2 DEF ContractInv, MovesInv, RampLeadsToTarget
      <4>2. p = curPos[slot] - 1
        BY <2>2, <3>2, <4>1, DownIsPredecessor DEF p
      <4> QED BY <2>3, <2>5, <4>1, <4>2 DEF Contract!Approach
    <3> QED BY <3>1, <3>2
  <2> QED BY <2>4, <2>5
<1> QED BY <1>1, <1>2

LEMMA ServeAxisRefines ==
  ASSUME ContractInv, ServoTypeOK', NEW r \in Reading, ServeAxis(r)
  PROVE  Contract!ContractNext \/ UNCHANGED Contract!contractVars
<1>1. slot \in Axis /\ UNCHANGED <<cmdVars, overwritten>>
  BY DEF ServeAxis
<1>2. CASE ~axisEnable \/ slot \notin needMove
  BY <1>1, <1>2 DEF ServeAxis, cmdVars, maskVars, Ramping, Contract!contractVars
<1>3. CASE axisEnable /\ slot \in needMove /\ slot \in moving
  <2>1. StartMove(slot, Seen(slot, r))
    BY <1>3 DEF ServeAxis
  <2>2. Contract!SetOut(slot) \/ Contract!Jump(slot)
    BY <1>1, <1>3, <2>1, StartMoveRefines
  <2> QED BY <1>1, <2>2 DEF Contract!ContractNext
<1>4. CASE axisEnable /\ slot \in needMove /\ slot \notin moving
  <2>1. /\ UNCHANGED <<moving, direction>>
        /\ IF phaseB3 THEN StepRamp(slot)
                      ELSE UNCHANGED <<curPos, needMove, count>>
    BY <1>4 DEF ServeAxis
  <2>2. CASE phaseB3
    <3>1. \/ Contract!Approach(slot) \/ Contract!Wander(slot)
          \/ UNCHANGED Contract!contractVars
      BY <1>1, <1>4, <2>1, <2>2, StepRampRefines DEF Ramping
    <3> QED BY <1>1, <3>1 DEF Contract!ContractNext
  <2>3. CASE ~phaseB3
    BY <1>1, <2>1, <2>3 DEF cmdVars, Ramping, Contract!contractVars
  <2> QED BY <2>2, <2>3
<1> QED BY <1>2, <1>3, <1>4

(* A position command replaces, a move command asks.                       *)
LEMMA CommandRefines ==
  ASSUME ContractInv, ServoTypeOK', Command
  PROVE  Contract!ContractNext \/ UNCHANGED Contract!contractVars
<1> USE DEF ContractInv, MovesInv, ServoTypeOK, Ramping, Overwrite, BeginMove, Mark,
            cmdVars, maskVars, Pos
<1>0. {} \in SUBSET Axis /\ Axis \in SUBSET Axis
  OBVIOUS
<1>1. ASSUME NEW a \in Axis, NEW v \in Pos, PositionOne(a, v)
      PROVE  Contract!Replace({a})
  BY <1>1 DEF PositionOne, Contract!Replace, Contract!Place
<1>2. ASSUME NEW p \in [Axis -> Pos], PositionAll(p)
      PROVE  Contract!Replace(Axis)
  BY <1>2 DEF PositionAll, Contract!Replace, Contract!Place
<1>3. ASSUME NEW a \in Axis, NEW v \in Pos, NEW s \in Speed, MoveOne(a, v, s)
      PROVE  Contract!Ask({a})
  BY <1>3 DEF MoveOne, Contract!Ask, Contract!Place
<1>4. ASSUME NEW p \in [Axis -> Pos], MoveAll(p)
      PROVE  Contract!Ask(Axis)
  BY <1>4 DEF MoveAll, Contract!Ask, Contract!Place
<1>5. ASSUME NEW a \in Axis, NEW s \in Speed, StoreSpeed(a, s)
      PROVE  UNCHANGED Contract!contractVars
  BY <1>5 DEF StoreSpeed, Contract!contractVars
<1>6. ASSUME NEW b \in BOOLEAN, EnableMotors(b)
      PROVE  UNCHANGED Contract!contractVars
  BY <1>6 DEF EnableMotors, Contract!contractVars
<1>7. CASE Shutdown
  <2>1. Contract!Replace(Axis)
    BY <1>7 DEF Shutdown, Contract!Replace, Contract!Place
  <2> QED BY <1>0, <2>1 DEF Contract!ContractNext
<1> QED
  <2> HIDE DEF ContractInv, MovesInv, ServoTypeOK, Ramping, Overwrite, BeginMove,
               Mark, cmdVars, maskVars, Pos
  <2> QED BY <1>0, <1>1, <1>2, <1>3, <1>4, <1>5, <1>6, <1>7
          DEF Command, Contract!ContractNext

LEMMA InitContract == ServoInit => Contract!ContractInit
<1> SUFFICES ASSUME ServoInit PROVE Contract!ContractInit
  OBVIOUS
<1>1. ServoTypeOK
  BY InitTypeOK
<1> QED BY <1>1 DEF ServoInit, ServoTypeOK, Ramping, Pos, Contract!ContractInit,
                    Contract!Place

(* Every step of the servo is a step of the contract, or none.             *)
LEMMA ServoStepRefines ==
  ASSUME ContractInv, ContractInv', [ServoNext]_servoVars
  PROVE  Contract!ContractNext \/ UNCHANGED Contract!contractVars
<1>1. ServoTypeOK'
  BY DEF ContractInv, MovesInv
<1>2. ASSUME NEW r \in Reading, ServeAxis(r)
      PROVE  Contract!ContractNext \/ UNCHANGED Contract!contractVars
  BY <1>1, <1>2, ServeAxisRefines
<1>3. CASE ServeTimer \/ ServeAnalog \/ MarkPhase \/ CutMotors
  BY <1>3 DEF ServeTimer, ServeAnalog, MarkPhase, CutMotors, cmdVars, maskVars,
              Ramping, Contract!contractVars
<1>4. CASE Command
  BY <1>1, <1>4, CommandRefines
<1>5. CASE UNCHANGED servoVars
  BY <1>5 DEF servoVars, Ramping, Contract!contractVars
<1> QED BY <1>2, <1>3, <1>4, <1>5 DEF ServoNext, EXT1

(* The servo implements the contract: a commanded move goes to its target  *)
(* in one jump or step by step and never away from it, and the axis is     *)
(* released from NEED_MOVE exactly there, whatever commands, disables and  *)
(* losses of timer phases come in between.                                 *)
THEOREM ServoKeepsContract == ServoSpec => MoveContractHolds
<1>1. ContractInv /\ ContractInv' /\ [ServoNext]_servoVars
        => [Contract!ContractNext]_Contract!contractVars
  BY ServoStepRefines
<1> QED BY <1>1, InitContract, InitContractInv, StepContractInv, PTL
        DEF ServoSpec, MoveContractHolds, Contract!ContractSpec

-----------------------------------------------------------------------------
(* The servo writes a port with its shadow, and only what is driven by the *)
(* other port is left as it was; so it keeps the two equal.                *)
LEMMA ServeAxisPorts ==
  ASSUME ServoTypeOK, port = shadow, NEW r \in Reading, ServeAxis(r)
  PROVE  port' = shadow'
<1>1. CASE axisEnable
  <2>1. PICK out : shadow' = [shadow EXCEPT ![slot] = out] /\ WritePort(slot)
    BY <1>1 DEF ServeAxis, DriveAxis
  <2>2. ASSUME NEW b \in Axis PROVE port'[b] = shadow'[b]
    <3>1. CASE SamePort(slot, b)
      BY <2>1, <3>1 DEF WritePort
    <3>2. CASE ~SamePort(slot, b)
      <4>1. b # slot
        BY <3>2 DEF SamePort
      <4> QED BY <2>1, <3>2, <4>1 DEF WritePort, ServoTypeOK
    <3> QED BY <3>1, <3>2
  <2>3. port' = [b \in Axis |-> port'[b]] /\ shadow' = [b \in Axis |-> shadow'[b]]
    BY <2>1 DEF WritePort, ServoTypeOK
  <2> QED BY <2>2, <2>3
<1>2. CASE ~axisEnable
  BY <1>2 DEF ServeAxis, portVars
<1> QED BY <1>1, <1>2

(* What drives the motors is what the firmware believes.                   *)
THEOREM PortsFollow == ServoSpec => []PortsFollowShadow
<1>1. ServoInit => ServoTypeOK /\ PortsFollowShadow
  BY InitTypeOK DEF ServoInit, PortsFollowShadow
<1>2. ServoTypeOK /\ PortsFollowShadow /\ [ServoNext]_servoVars
        => (ServoTypeOK /\ PortsFollowShadow)'
  <2> SUFFICES ASSUME ServoTypeOK, PortsFollowShadow, [ServoNext]_servoVars
               PROVE  PortsFollowShadow'
    BY StepTypeOK
  <2> USE DEF PortsFollowShadow, portVars
  <2>1. ASSUME NEW r \in Reading, ServeAxis(r) PROVE PortsFollowShadow'
    BY <2>1, ServeAxisPorts
  <2>2. CASE ServeTimer \/ ServeAnalog \/ MarkPhase
    BY <2>2 DEF ServeTimer, ServeAnalog, MarkPhase
  <2>3. CASE Command
    BY <2>3 DEF Command, PositionOne, PositionAll, MoveOne, MoveAll, StoreSpeed,
                EnableMotors, Shutdown, BeginMove
  <2>4. CASE CutMotors
    BY <2>4 DEF CutMotors, ShadowsOff
  <2>5. CASE UNCHANGED servoVars
    BY <2>5 DEF servoVars
  <2> QED BY <2>1, <2>2, <2>3, <2>4, <2>5 DEF ServoNext, EXT1
<1> QED BY <1>1, <1>2, PTL DEF ServoSpec

-----------------------------------------------------------------------------
(* From here on: the whole controller.                                     *)
USE CommandsAssumption, PrescaleAssumption, WatchdogLoadAssumption,
    CounterSizeAssumption, ProgramAssumption, MaxPatienceAssumption

-----------------------------------------------------------------------------
(* The transmitter helper.                                                 *)

(* A byte counted down is a byte, and one less above 0.                    *)
LEMMA BackIsPredecessor ==
  ASSUME NEW n \in 0 .. CounterSize - 1
  PROVE  Back(n) \in 0 .. CounterSize - 1 /\ (n > 0 => Back(n) = n - 1)
BY DEF Back

(* The commands a reply or an answer can come from are known when it is    *)
(* due: R5 and CMD_BUF are set before their flags.                         *)
Named(t) == (t.reply => t.keyword \in AllCommands) /\ (t.buffer => t.query \in AllCommands)

(* The helper sends a byte of the line's alphabet ...                      *)
LEMMA TxByteType ==
  ASSUME NEW t \in TxState, Named(t)
  PROVE  TxByte(t) \in Byte
<1>1. "Readback" \in AllCommands
  BY DEF AllCommands
<1>2. t.code \in StatusCodes
  BY DEF TxState
<1> QED BY <1>1, <1>2 DEF TxByte, Byte, Named, Etx, Silence, Keyword, Data, Status

(* ... and keeps the width of its registers.                               *)
LEMMA TxNextType ==
  ASSUME NEW t \in TxState
  PROVE  TxNext(t) \in TxState
<1>1. /\ Back(t.r1) \in 0 .. CounterSize - 1 /\ Back(t.r3) \in 0 .. CounterSize - 1
      /\ (t.r1 + 1) % CounterSize \in 0 .. CounterSize - 1
  BY BackIsPredecessor DEF TxState
<1> DEFINE u == [t EXCEPT !.idle = FALSE]
<1>2. u \in TxState
  BY DEF TxState
<1>3. CASE t.buffer /\ t.last
  BY <1>2, <1>3 DEF TxNext, TxState
<1>4. CASE t.buffer /\ ~t.last
  <2>1. TxNext(t) = [u EXCEPT !.r1 = (t.r1 + 1) % CounterSize, !.r3 = Back(t.r3),
                              !.last = (Back(t.r3) = 0)]
    BY <1>4 DEF TxNext, TxState
  <2>2. (Back(t.r3) = 0) \in BOOLEAN
    OBVIOUS
  <2> HIDE DEF u
  <2> QED BY <1>1, <1>2, <2>1, <2>2 DEF TxState
<1>5. CASE ~t.buffer /\ t.stream
  <2> DEFINE r1  == Back(t.r1)
             r3  == IF r1 = 0 THEN Back(t.r3) ELSE t.r3
             end == r1 = 0 /\ r3 = 0
             etx == t.etx \/ end
  <2>1. TxNext(t) = [u EXCEPT !.r1 = r1, !.r3 = r3, !.stream = ~end, !.etx = etx]
    BY <1>5 DEF TxNext
  <2>2. r1 \in 0 .. CounterSize - 1 /\ r3 \in 0 .. CounterSize - 1
    BY <1>1 DEF TxState
  <2>3. (~end) \in BOOLEAN /\ etx \in BOOLEAN
    OBVIOUS
  <2> HIDE DEF u, r1, r3, end, etx
  <2> QED BY <1>2, <2>1, <2>2, <2>3 DEF TxState
<1>6. CASE ~t.buffer /\ ~t.stream /\ t.reply
  BY <1>2, <1>6 DEF TxNext, TxState
<1>7. CASE ~t.buffer /\ ~t.stream /\ ~t.reply /\ t.etx
  BY <1>2, <1>7 DEF TxNext, TxState
<1>8. CASE ~t.buffer /\ ~t.stream /\ ~t.reply /\ ~t.etx /\ t.status
  BY <1>2, <1>8 DEF TxNext, TxState
<1>9. CASE ~t.buffer /\ ~t.stream /\ ~t.reply /\ ~t.etx /\ ~t.status
  BY <1>9 DEF TxNext, TxState
<1> QED BY <1>3, <1>4, <1>5, <1>6, <1>7, <1>8, <1>9

LEMMA TxNextNamed ==
  ASSUME NEW t \in TxState, Named(t)
  PROVE  Named(TxNext(t))
BY DEF TxNext, TxState, Named

(* It leaves the transmitter idle exactly when it has nothing to send.     *)
LEMMA IdleIsSilent ==
  ASSUME NEW t \in TxState
  PROVE  TxNext(t).idle = (TxByte(t) = Silence)
BY DEF TxNext, TxByte, TxState, Silence, Etx, Keyword, Data, Status

-----------------------------------------------------------------------------
(* The line.  A reply that bit R will ask for has its keyword in R5        *)
(* already.                                                                *)
LineInv ==
  /\ tx \in TxState /\ sending \in Byte
  /\ ti \in BOOLEAN /\ ackReq \in BOOLEAN
  /\ Named(tx)
  /\ ackReq => tx.keyword \in AllCommands
  /\ TransmitToken

(* What a frame makes of the transmitter.                                  *)
LEMMA DispatchedType ==
  ASSUME tx \in TxState, Named(tx), NEW c \in AllCommands
  PROVE  /\ Dispatched(c) \in TxState /\ Named(Dispatched(c))
         /\ Dispatched(c).idle = tx.idle /\ Dispatched(c).keyword = c
<1>1. CMD_BUF \in 0 .. CounterSize - 1 /\ {2, NAxes + 1} \subseteq 0 .. CounterSize - 1
  BY NAxesAssumption DEF CMD_BUF
<1>2. {"F3", "F4", "F6"} \subseteq StatusCodes
  BY DEF StatusCodes
<1>3. CASE c \in {"Read", "ReadAll"}
  BY <1>1, <1>2, <1>3 DEF Dispatched, Queried, TxState, Named
<1>4. CASE c = "Readback"
  <2>1. ProgramR1 \in 0 .. CounterSize - 1 /\ ProgramR3 \in 0 .. CounterSize - 1
    OBVIOUS
  <2>2. CASE progLoaded
    BY <1>2, <1>4, <2>1, <2>2 DEF Dispatched, TxState, Named
  <2>3. CASE ~progLoaded
    BY <1>2, <1>4, <2>3 DEF Dispatched, Refused, TxState, Named
  <2> QED BY <2>2, <2>3
<1>5. CASE c = "Stop"
  BY <1>2, <1>5 DEF Dispatched, Refused, TxState, Named
<1>6. CASE c \notin {"Read", "ReadAll", "Readback", "Stop"}
  BY <1>2, <1>6 DEF Dispatched, TxState, Named
<1> QED BY <1>3, <1>4, <1>5, <1>6

(* The transmitter handed over at the end of the serial interrupt.         *)
LEMMA LeaveSerialInv ==
  ASSUME LineInv, NEW t \in TxState, Named(t), t.idle = tx.idle,
         ackReq' \in BOOLEAN, ackReq' => t.keyword \in AllCommands, LeaveSerial(t)
  PROVE  LineInv'
<1>1. CASE ti
  <2>1. /\ ti' = FALSE /\ tx' = TxNext(t)
        /\ sending' = IF TxByte(t) = Silence THEN sending ELSE TxByte(t)
    BY <1>1 DEF LeaveSerial, Transmit
  <2>2. tx' \in TxState /\ Named(tx') /\ sending' \in Byte
    BY <2>1, TxNextType, TxNextNamed, TxByteType DEF LineInv
  <2>3. tx'.idle = (TxByte(t) = Silence)
    BY <2>1, IdleIsSilent
  <2>4. tx'.keyword = t.keyword
    BY <2>1 DEF TxNext, TxState
  <2> QED BY <1>1, <2>1, <2>2, <2>3, <2>4 DEF LineInv, TransmitToken
<1>2. CASE ~ti
  BY <1>2 DEF LeaveSerial, LineInv, TransmitToken
<1> QED BY <1>1, <1>2

(* The helper kicked by the main loop.                                     *)
LEMMA KickedInv ==
  ASSUME NEW t \in TxState, Named(t)
  PROVE  /\ Kicked(t) \in TxState /\ Named(Kicked(t))
         /\ Kicked(t).keyword = t.keyword
         /\ Kicked(t).idle = (t.idle /\ TxByte(t) = Silence)
<1>1. CASE t.idle
  <2>1. TxNext(t).keyword = t.keyword
    BY DEF TxNext, TxState
  <2> QED BY <1>1, <2>1, TxNextType, TxNextNamed, IdleIsSilent DEF Kicked
<1>2. CASE ~t.idle
  BY <1>2 DEF Kicked, TxState
<1> QED BY <1>1, <1>2

LEMMA MainLoopLine ==
  ASSUME LineInv, MainLoop
  PROVE  LineInv'
<1>1. /\ MotionServed \in TxState /\ Named(MotionServed)
      /\ MotionServed.idle = tx.idle /\ MotionServed.keyword = tx.keyword
  <2>1. CASE Arrived
    BY <2>1 DEF MotionServed, LineInv, Named, TxState
  <2>2. CASE ~Arrived /\ Expired
    BY <2>2 DEF MotionServed, LineInv, Named, TxState, StatusCodes
  <2>3. CASE ~Arrived /\ ~Expired
    BY <2>3 DEF MotionServed, LineInv
  <2> QED BY <2>1, <2>2, <2>3
<1> DEFINE m == MotionServed
           k == Kicked(m)
<1>2. /\ k \in TxState /\ Named(k) /\ k.keyword = tx.keyword
      /\ k.idle = (tx.idle /\ TxByte(m) = Silence)
      /\ TxByte(m) \in Byte
  BY <1>1, KickedInv, TxByteType
<1>3. tx' \in {k, TimedOut(k)} /\ UNCHANGED <<ti, ackReq>>
  BY DEF MainLoop
<1>4. sending' = IF tx.idle /\ TxByte(m) # Silence THEN TxByte(m) ELSE sending
  BY <1>1 DEF MainLoop
<1> HIDE DEF m, k
<1>5. /\ tx' \in TxState /\ Named(tx') /\ tx'.keyword = tx.keyword
      /\ tx'.idle = k.idle
  <2>1. CASE tx' = k
    BY <1>2, <2>1
  <2>2. CASE tx' = TimedOut(k)
    BY <1>2, <2>2 DEF TimedOut, TxState, Named, StatusCodes
  <2> QED BY <1>3, <2>1, <2>2
<1> QED BY <1>2, <1>3, <1>4, <1>5 DEF LineInv, TransmitToken

LEMMA StepLine == LineInv /\ [Next]_vars => LineInv'
<1> SUFFICES ASSUME LineInv, [Next]_vars
             PROVE  LineInv'
  OBVIOUS
<1>1. ASSUME NEW c \in Commands, Execute(c) PROVE LineInv'
  <2>1. c \in AllCommands
    OBVIOUS
  <2>2. ackReq' \in BOOLEAN
    <3>1. (c \in Acked) \in BOOLEAN
      OBVIOUS
    <3>2. ackReq' = (c \in Acked) \/ ackReq' = ackReq
      BY <1>1 DEF Execute, Watch
    <3> QED BY <3>1, <3>2 DEF LineInv
  <2> QED BY <1>1, <2>1, <2>2, DispatchedType, LeaveSerialInv DEF Execute, LineInv
<1>2. CASE TimeFactor \/ NextByte \/ BreakOff
  <2>1. LeaveSerial(tx) /\ UNCHANGED ackReq
    BY <1>2 DEF TimeFactor, NextByte, BreakOff
  <2> QED BY <2>1, LeaveSerialInv DEF LineInv
<1>3. CASE Refuse
  <2>1. /\ Refused(tx, "F3") \in TxState /\ Named(Refused(tx, "F3"))
        /\ Refused(tx, "F3").idle = tx.idle
        /\ Refused(tx, "F3").keyword = tx.keyword
    BY DEF LineInv, Refused, Named, TxState, StatusCodes
  <2>2. LeaveSerial(Refused(tx, "F3")) /\ UNCHANGED ackReq
    BY <1>3 DEF Refuse
  <2> QED BY <2>1, <2>2, LeaveSerialInv DEF LineInv
<1>4. CASE ByteOut
  BY <1>4 DEF ByteOut, LineInv, TransmitToken, Byte
<1>5. CASE MainLoop
  BY <1>5, MainLoopLine
<1>6. CASE Timer0 \/ Servo \/ EmergencyOff \/ EmergencyOver
  BY <1>6 DEF Timer0, Servo, EmergencyOff, EmergencyOver, ctlVars, LineInv, TransmitToken
<1>7. CASE UNCHANGED vars
  BY <1>7 DEF vars, ctlVars, LineInv, TransmitToken
<1> QED BY <1>1, <1>2, <1>3, <1>4, <1>5, <1>6, <1>7
        DEF Next, HostFrame, LineFault, Firmware

LEMMA InitLine == ControllerInit => LineInv
<1> SUFFICES ASSUME ControllerInit PROVE LineInv
  OBVIOUS
<1>1. 0 \in 0 .. CounterSize - 1 /\ "F3" \in StatusCodes
  BY DEF StatusCodes
<1>2. tx \in TxState
  BY <1>1 DEF ControllerInit, TxState
<1>3. Named(tx) /\ TransmitToken
  BY DEF ControllerInit, Named, TransmitToken
<1> QED BY <1>2, <1>3 DEF ControllerInit, LineInv, Byte

(* The transmitter is one token: SBUF is never overrun, no answer is left  *)
(* behind.                                                                 *)
THEOREM OneToken == Spec => []TransmitToken
<1>1. LineInv => TransmitToken
  BY DEF LineInv
<1> QED BY <1>1, InitLine, StepLine, PTL DEF Spec

-----------------------------------------------------------------------------
(* The servo under the controller: every step is one of the servo's, or    *)
(* only emergency off's on the ports.                                      *)
butPort == <<cmdVars, maskVars, tickVars, curPos, feedback, axisActive, slot,
             axisEnable, shadow, overwritten>>

LEMMA ServoCommandIsCommand ==
  ASSUME NEW c, ServoCommand(c)
  PROVE  Command \/ UNCHANGED servoVars
<1>1. CASE c \in {"Enable", "Disable"}
  <2>1. (c = "Enable") \in BOOLEAN /\ EnableMotors(c = "Enable")
    BY <1>1 DEF ServoCommand
  <2> QED BY <2>1 DEF Command
<1>2. CASE c \notin {"Enable", "Disable"}
  BY <1>2 DEF ServoCommand, Command
<1> QED BY <1>1, <1>2

(* No command of the host writes the ports or their shadows, or adds to    *)
(* 0x21.                                                                   *)
LEMMA CommandLeavesPorts ==
  ASSUME Command
  PROVE  /\ UNCHANGED portVars
         /\ axisActive' \subseteq axisActive
BY DEF Command, PositionOne, PositionAll, MoveOne, MoveAll, StoreSpeed, EnableMotors,
       Shutdown, BeginMove, ClearActive, portVars

LEMMA StepIsServoStep ==
  ASSUME [Next]_vars
  PROVE  \/ [ServoNext]_servoVars
         \/ (EmergencyOff \/ EmergencyOver) /\ UNCHANGED butPort
<1>1. ASSUME NEW c \in Commands, Execute(c) PROVE [ServoNext]_servoVars
  BY <1>1, ServoCommandIsCommand DEF Execute, ServoNext
<1>2. CASE TimeFactor
  BY <1>2 DEF TimeFactor, ServoNext, Command
<1>3. CASE NextByte \/ BreakOff \/ Refuse \/ ByteOut
  BY <1>3 DEF NextByte, BreakOff, Refuse, ByteOut
<1>4. CASE MainLoop
  BY <1>4 DEF MainLoop, ServoNext
<1>5. CASE Timer0 \/ Servo
  BY <1>5 DEF Timer0, Servo, ServoNext, EXT1
<1>6. CASE EmergencyOff \/ EmergencyOver
  BY <1>6 DEF EmergencyOff, EmergencyOver, butPort
<1>7. CASE UNCHANGED vars
  BY <1>7 DEF vars
<1> QED BY <1>1, <1>2, <1>3, <1>4, <1>5, <1>6, <1>7
        DEF Next, HostFrame, LineFault, Firmware

-----------------------------------------------------------------------------
(* The motors.  The ports follow the shadows or are dead, and what the     *)
(* watchdog cut is off in both, so that the end of an emergency off cannot *)
(* bring it back.                                                          *)
MotorsInv == ServoTypeOK /\ PortsAsTheyShould /\ CutMeansOff

LEMMA StepServoTypeOK ==
  ASSUME MotorsInv, [Next]_vars
  PROVE  ServoTypeOK'
<1>1. CASE [ServoNext]_servoVars
  BY <1>1, StepTypeOK DEF MotorsInv
<1>2. CASE (EmergencyOff \/ EmergencyOver) /\ UNCHANGED butPort
  <2>1. port' \in [Axis -> Drive]
    BY <1>2 DEF EmergencyOff, EmergencyOver, RestorePorts, MotorsInv, ServoTypeOK, Drive
  <2> QED BY <1>2, <2>1 DEF MotorsInv, ServoTypeOK, butPort, cmdVars, maskVars, tickVars
<1> QED BY <1>1, <1>2, StepIsServoStep

LEMMA StepMotors == MotorsInv /\ [Next]_vars => MotorsInv'
<1> SUFFICES ASSUME MotorsInv, [Next]_vars
             PROVE  PortsAsTheyShould' /\ CutMeansOff'
  BY StepServoTypeOK DEF MotorsInv
<1> USE DEF MotorsInv, PortsAsTheyShould, CutMeansOff
<1>1. ASSUME NEW c \in Commands, Execute(c)
      PROVE  PortsAsTheyShould' /\ CutMeansOff'
  <2>1. UNCHANGED <<portVars, estop>> /\ (cut' => cut /\ c # "Enable")
    BY <1>1, ServoCommandIsCommand, CommandLeavesPorts
       DEF Execute, servoVars, portVars
  <2>2. c # "Enable" /\ ~axisEnable => ~axisEnable'
    BY <1>1 DEF Execute, ServoCommand, PositionOne, PositionAll, MoveOne, MoveAll,
                BeginMove, EnableMotors, Shutdown, servoVars
  <2> QED BY <2>1, <2>2 DEF portVars
<1>2. CASE TimeFactor
  BY <1>2 DEF TimeFactor, StoreSpeed, portVars, history
<1>3. CASE NextByte \/ BreakOff \/ Refuse \/ ByteOut
  BY <1>3 DEF NextByte, BreakOff, Refuse, ByteOut, servoVars, history
<1>4. CASE MainLoop
  <2>1. CASE Expired
    BY <1>4, <2>1 DEF MainLoop, CutMotors, ShadowsOff
  <2>2. CASE ~Expired
    BY <1>4, <2>2 DEF MainLoop, servoVars
  <2> QED BY <2>1, <2>2
<1>5. CASE Timer0
  BY <1>5 DEF Timer0, MarkPhase, portVars
<1>6. CASE Servo
  <2>1. ~estop /\ UNCHANGED <<estop, cut>>
    BY <1>6 DEF Servo, ctlVars
  <2>2. ASSUME NEW r \in Reading, ServeAxis(r)
        PROVE  PortsAsTheyShould' /\ CutMeansOff'
    <3>1. port' = shadow'
      BY <2>1, <2>2, ServeAxisPorts
    <3>2. UNCHANGED axisEnable /\ (~axisEnable => UNCHANGED portVars)
      BY <2>2 DEF ServeAxis
    <3> QED BY <2>1, <3>1, <3>2 DEF portVars
  <2>3. CASE ServeTimer \/ ServeAnalog
    BY <2>1, <2>3 DEF ServeTimer, ServeAnalog, portVars
  <2> QED BY <1>6, <2>2, <2>3 DEF Servo
<1>7. CASE EmergencyOff
  BY <1>7 DEF EmergencyOff, history
<1>8. CASE EmergencyOver
  BY <1>8 DEF EmergencyOver, RestorePorts, history
<1>9. CASE UNCHANGED vars
  BY <1>9 DEF vars, servoVars, ctlVars, history
<1> QED BY <1>1, <1>2, <1>3, <1>4, <1>5, <1>6, <1>7, <1>8, <1>9
        DEF Next, HostFrame, LineFault, Firmware

LEMMA InitMotors == ControllerInit => MotorsInv
BY InitTypeOK DEF ControllerInit, ServoInit, MotorsInv, PortsAsTheyShould, CutMeansOff

(* The motors the watchdog cut stay off until the host enables them.       *)
THEOREM CutStaysOff == Spec => []CutMeansOff
<1>1. MotorsInv => CutMeansOff
  BY DEF MotorsInv
<1> QED BY <1>1, InitMotors, StepMotors, PTL DEF Spec

(* Ports are dead under emergency off and follow the shadows outside.      *)
THEOREM PortsDeadOrFollow == Spec => []PortsAsTheyShould
<1>1. MotorsInv => PortsAsTheyShould
  BY DEF MotorsInv
<1> QED BY <1>1, InitMotors, StepMotors, PTL DEF Spec

-----------------------------------------------------------------------------
(* The watch over a motion.                                                *)
WatchInv ==
  /\ motionActive \in BOOLEAN /\ watchdog \in 0 .. WatchdogLoad
  /\ evtMotion \in BOOLEAN /\ prescaler \in 1 .. Prescale
  /\ patience \in 0 .. MaxPatience
  /\ lastMotion \in Motions \union {"none"}
  /\ WatchdogArmed

(* An event of a motion not arrived takes one from the watchdog, which     *)
(* ends the watch at 1.                                                    *)
LEMMA MainLoopWatch ==
  ASSUME WatchInv, MainLoop
  PROVE  /\ motionActive' \in BOOLEAN
         /\ motionActive' => motionActive /\ ~Expired
         /\ IF Late THEN watchdog' = watchdog - 1 /\ evtMotion' = FALSE
                    ELSE UNCHANGED <<watchdog, evtMotion>>
         /\ Late => watchdog \in 1 .. WatchdogLoad
         /\ UNCHANGED <<prescaler, patience, lastMotion, seen, estop>>
<1>1. Late => watchdog \in 1 .. WatchdogLoad
  BY DEF Late, WatchInv, WatchdogArmed
<1>2. Late => Back(watchdog) = watchdog - 1
  <2>1. Late => watchdog \in 0 .. CounterSize - 1 /\ watchdog > 0
    BY <1>1
  <2> QED BY <2>1, BackIsPredecessor
<1>3. (motionActive /\ ~Arrived /\ ~Expired) \in BOOLEAN
  OBVIOUS
<1>4. motionActive' = (motionActive /\ ~Arrived /\ ~Expired)
  BY DEF MainLoop
<1>5. motionActive' \in BOOLEAN
  BY <1>3, <1>4
<1>6. motionActive' => motionActive /\ ~Expired
  BY <1>4
<1> QED BY <1>1, <1>2, <1>5, <1>6 DEF MainLoop

LEMMA StepWatch == WatchInv /\ [Next]_vars => WatchInv'
<1> SUFFICES ASSUME WatchInv, [Next]_vars
             PROVE  WatchInv'
  OBVIOUS
<1> USE DEF WatchInv, WatchdogArmed
<1>1. ASSUME NEW c \in Commands, Execute(c) PROVE WatchInv'
  <2>1. CASE c \in Motions
    BY <1>1, <2>1 DEF Execute, Watch
  <2>2. CASE c \notin Motions
    BY <1>1, <2>2 DEF Execute
  <2> QED BY <2>1, <2>2
<1>2. CASE TimeFactor \/ NextByte \/ BreakOff \/ Refuse \/ ByteOut
  BY <1>2 DEF TimeFactor, NextByte, BreakOff, Refuse, ByteOut, history
<1>3. CASE MainLoop
  <2>1. CASE Late
    <3>1. motionActive' => watchdog # 1
      BY <1>3, <2>1, MainLoopWatch DEF Expired
    <3>2. watchdog' = watchdog - 1 /\ watchdog \in 1 .. WatchdogLoad
      BY <1>3, <2>1, MainLoopWatch
    <3>3. watchdog' \in 0 .. WatchdogLoad /\ (motionActive' => watchdog' >= 1)
      BY <3>1, <3>2
    <3> QED BY <1>3, <2>1, <3>3, MainLoopWatch
  <2>2. CASE ~Late
    BY <1>3, <2>2, MainLoopWatch
  <2> QED BY <2>1, <2>2
<1>4. CASE Timer0
  <2>1. prescaler' \in 1 .. Prescale /\ evtMotion' \in BOOLEAN
    <3>1. CASE prescaler = 1
      BY <1>4, <3>1 DEF Timer0
    <3>2. CASE prescaler # 1
      BY <1>4, <3>2 DEF Timer0
    <3> QED BY <3>1, <3>2
  <2>2. patience' \in 0 .. MaxPatience
    BY <1>4 DEF Timer0
  <2> QED BY <1>4, <2>1, <2>2 DEF Timer0
<1>5. CASE Servo \/ EmergencyOff \/ EmergencyOver
  BY <1>5 DEF Servo, EmergencyOff, EmergencyOver, ctlVars, history
<1>6. CASE UNCHANGED vars
  BY <1>6 DEF vars, ctlVars, history
<1> QED BY <1>1, <1>2, <1>3, <1>4, <1>5, <1>6
        DEF Next, HostFrame, LineFault, Firmware

LEMMA InitWatch == ControllerInit => WatchInv
<1> SUFFICES ASSUME ControllerInit PROVE WatchInv
  OBVIOUS
<1>1. 0 \in 0 .. WatchdogLoad /\ Prescale \in 1 .. Prescale /\ 0 \in 0 .. MaxPatience
  OBVIOUS
<1> QED BY <1>1 DEF ControllerInit, WatchInv, WatchdogArmed

(* A watched motion has a watchdog that can still expire.                  *)
THEOREM AlwaysArmed == Spec => []WatchdogArmed
<1>1. WatchInv => WatchdogArmed
  BY DEF WatchInv
<1> QED BY <1>1, InitWatch, StepWatch, PTL DEF Spec

-----------------------------------------------------------------------------
(* Type correctness.                                                       *)
RestTypeOK ==
  /\ evtSerial \in BOOLEAN /\ cutFrame \in BOOLEAN
  /\ progLoaded \in BOOLEAN /\ estop \in BOOLEAN /\ cut \in BOOLEAN
  /\ seen \subseteq Axis

LEMMA StepRest == MotorsInv /\ RestTypeOK /\ [Next]_vars => RestTypeOK'
<1> SUFFICES ASSUME MotorsInv, RestTypeOK, [Next]_vars
             PROVE  RestTypeOK'
  OBVIOUS
<1> USE DEF RestTypeOK
<1>1. ASSUME NEW c \in Commands, Execute(c) PROVE RestTypeOK'
  <2>1. (cut /\ c # "Enable") \in BOOLEAN
    OBVIOUS
  <2>2. /\ cut' = (cut /\ c # "Enable") /\ cutFrame' = FALSE
        /\ seen' = {} \/ seen' = seen
        /\ UNCHANGED <<evtSerial, progLoaded, estop>>
    BY <1>1 DEF Execute
  <2> HIDE DEF Motions
  <2> QED BY <2>1, <2>2
<1>2. CASE TimeFactor \/ NextByte \/ BreakOff \/ Refuse \/ ByteOut
  BY <1>2 DEF TimeFactor, NextByte, BreakOff, Refuse, ByteOut, history
<1>3. CASE MainLoop
  <2>1. (cut \/ Expired) \in BOOLEAN
    OBVIOUS
  <2>2. /\ cut' = (cut \/ Expired) /\ evtSerial' = FALSE
        /\ cutFrame' = FALSE \/ cutFrame' = cutFrame
        /\ UNCHANGED <<progLoaded, estop, seen>>
    BY <1>3 DEF MainLoop
  <2> QED BY <2>1, <2>2
<1>4. CASE Timer0 \/ EmergencyOff \/ EmergencyOver
  BY <1>4 DEF Timer0, EmergencyOff, EmergencyOver, history
<1>5. CASE Servo
  BY <1>5 DEF Servo, ServeAxis, ctlVars
<1>6. CASE UNCHANGED vars
  BY <1>6 DEF vars, ctlVars, history
<1> QED BY <1>1, <1>2, <1>3, <1>4, <1>5, <1>6
        DEF Next, HostFrame, LineFault, Firmware

(* Every register of the controller keeps its width.                       *)
THEOREM ControllerTypeCorrect == Spec => []TypeOK
<1>1. ControllerInit => RestTypeOK
  BY DEF ControllerInit, RestTypeOK
<1>2. LineInv /\ MotorsInv /\ WatchInv /\ RestTypeOK => TypeOK
  BY DEF LineInv, MotorsInv, WatchInv, RestTypeOK, TypeOK
<1> QED BY <1>1, <1>2, InitLine, InitMotors, InitWatch, StepLine, StepMotors,
           StepWatch, StepRest, PTL DEF Spec

-----------------------------------------------------------------------------
(* 0x0F clears 0x21, and only a service that finds its axis in position    *)
(* sets a bit of it: while the motion is watched every bit was seen.       *)
SeenInv ==
  /\ motionActive \in BOOLEAN /\ axisActive \subseteq Axis /\ seen \subseteq Axis
  /\ motionActive /\ lastMotion = "PositionAllAck" => axisActive \subseteq seen

LEMMA ServeAxisSees ==
  ASSUME SeenInv, NEW r \in Reading, ServeAxis(r)
  PROVE  /\ slot \in Axis
         /\ axisActive' \subseteq IF InPosition(slot, r) THEN axisActive \union {slot}
                                                         ELSE axisActive
BY DEF ServeAxis, StartMove, Seen

LEMMA StepSeen == SeenInv /\ [Next]_vars => SeenInv'
<1> SUFFICES ASSUME SeenInv, [Next]_vars
             PROVE  SeenInv'
  OBVIOUS
<1> USE DEF SeenInv
<1>1. ASSUME NEW c \in Commands, Execute(c) PROVE SeenInv'
  <2>1. axisActive' \subseteq axisActive
    BY <1>1, ServoCommandIsCommand, CommandLeavesPorts DEF Execute, servoVars
  <2>2. CASE c \in Motions
    <3>1. motionActive' = TRUE /\ lastMotion' = c /\ seen' = {}
      BY <1>1, <2>2 DEF Execute, Watch
    <3>2. c = "PositionAllAck" => axisActive' = {}
      BY <1>1 DEF Execute, ServoCommand, PositionAll, ClearActive
    <3> HIDE DEF Motions
    <3> QED BY <2>1, <3>1, <3>2
  <2>3. CASE c \notin Motions
    BY <1>1, <2>1, <2>3 DEF Execute
  <2> QED BY <2>2, <2>3
<1>2. CASE TimeFactor
  BY <1>2 DEF TimeFactor, StoreSpeed, history
<1>3. CASE NextByte \/ BreakOff \/ Refuse \/ ByteOut
  BY <1>3 DEF NextByte, BreakOff, Refuse, ByteOut, history, servoVars
<1>4. CASE MainLoop
  <2>1. (motionActive /\ ~Arrived /\ ~Expired) \in BOOLEAN
    OBVIOUS
  <2>2. motionActive' \in BOOLEAN /\ (motionActive' => motionActive)
    BY <1>4, <2>1 DEF MainLoop
  <2>3. UNCHANGED <<axisActive, seen, lastMotion>>
    BY <1>4 DEF MainLoop, CutMotors, servoVars
  <2> QED BY <2>2, <2>3
<1>5. CASE Timer0
  BY <1>5 DEF Timer0, MarkPhase
<1>6. CASE Servo
  <2>1. UNCHANGED <<motionActive, lastMotion>>
    BY <1>6 DEF Servo, ctlVars
  <2>2. ASSUME NEW r \in Reading, ServeAxis(r),
               seen' = IF InPosition(slot, r) THEN seen \union {slot} ELSE seen
        PROVE  SeenInv'
    BY <2>1, <2>2, ServeAxisSees
  <2>3. CASE (ServeTimer \/ ServeAnalog) /\ UNCHANGED seen
    BY <2>1, <2>3 DEF ServeTimer, ServeAnalog
  <2> QED BY <1>6, <2>2, <2>3 DEF Servo
<1>7. CASE EmergencyOff \/ EmergencyOver
  BY <1>7 DEF EmergencyOff, EmergencyOver, history
<1>8. CASE UNCHANGED vars
  BY <1>8 DEF vars, servoVars, ctlVars, history
<1> QED BY <1>1, <1>2, <1>3, <1>4, <1>5, <1>6, <1>7, <1>8
        DEF Next, HostFrame, LineFault, Firmware

(* The acknowledgment of a 0x0F is asked for only when every axis has been *)
(* found in position since the command.                                    *)
THEOREM AckIsTrue == Spec => AckAfterArrival
<1>1. ControllerInit => SeenInv
  <2> SUFFICES ASSUME ControllerInit PROVE SeenInv
    OBVIOUS
  <2>1. axisActive \subseteq Axis
    BY DEF ControllerInit, ServoInit
  <2> QED BY <2>1 DEF ControllerInit, SeenInv
<1>2. SeenInv => [Arrived /\ ackReq /\ motionActive' # motionActive
                    /\ lastMotion = "PositionAllAck" => seen = Axis]_vars
  BY DEF SeenInv, Arrived
<1> QED BY <1>1, <1>2, StepSeen, PTL DEF Spec, AckAfterArrival

-----------------------------------------------------------------------------
(* The servo keeps its contract under the controller too: emergency off    *)
(* touches none of what the contract speaks of.                            *)
THEOREM ControllerKeepsContract == Spec => MoveContractHolds
<1>1. ControllerInit => Contract!ContractInit /\ MotorsInv /\ ContractInv
  BY InitContract, InitMotors, InitContractInv DEF ControllerInit
<1>2. MotorsInv /\ ContractInv /\ [Next]_vars => ContractInv'
  <2> SUFFICES ASSUME MotorsInv, ContractInv, [Next]_vars
               PROVE  ContractInv'
    OBVIOUS
  <2>1. CASE [ServoNext]_servoVars
    BY <2>1, StepContractInv
  <2>2. CASE UNCHANGED butPort
    BY <2>2, StepServoTypeOK
       DEF butPort, cmdVars, maskVars, ContractInv, MovesInv, FreshUndisturbed,
           NoForgottenMove, RampLeadsToTarget, Ramping
  <2> QED BY <2>1, <2>2, StepIsServoStep
<1>3. ContractInv /\ ContractInv' /\ [Next]_vars
        => [Contract!ContractNext]_Contract!contractVars
  <2> SUFFICES ASSUME ContractInv, ContractInv', [Next]_vars
               PROVE  Contract!ContractNext \/ UNCHANGED Contract!contractVars
    OBVIOUS
  <2>1. CASE [ServoNext]_servoVars
    BY <2>1, ServoStepRefines
  <2>2. CASE UNCHANGED butPort
    BY <2>2 DEF butPort, cmdVars, maskVars, Ramping, Contract!contractVars
  <2> QED BY <2>1, <2>2, StepIsServoStep
<1> QED BY <1>1, <1>2, <1>3, StepMotors, PTL
        DEF Spec, MoveContractHolds, Contract!ContractSpec

-----------------------------------------------------------------------------
(* The watchdog's patience.  Owed counts the motion events since the last  *)
(* motion command that the timer must have brought, of those taken from    *)
(* the watchdog and the one pending; the first may be left over from       *)
(* before.  Each but the first of the others took a full period, and the   *)
(* prescaler knows how far the next has come.                              *)
Owed == WatchdogLoad - watchdog + (IF evtMotion THEN 0 ELSE 0 - 1)

PatienceInv ==
  /\ WatchInv
  /\ motionActive /\ Owed >= 1 /\ patience < MaxPatience
       => patience >= Owed * Prescale + 1 - prescaler

LEMMA Timer0Patience ==
  ASSUME PatienceInv, Timer0
  PROVE  motionActive' /\ Owed' >= 1 /\ patience' < MaxPatience
           => patience' >= Owed' * Prescale + 1 - prescaler'
<1> SUFFICES ASSUME motionActive', Owed' >= 1, patience' < MaxPatience
             PROVE  patience' >= Owed' * Prescale + 1 - prescaler'
  OBVIOUS
<1>1. /\ motionActive /\ watchdog' = watchdog /\ patience' = patience + 1
      /\ patience < MaxPatience
  BY DEF Timer0, PatienceInv, WatchInv
<1>2. /\ watchdog \in Int /\ patience \in Nat /\ prescaler \in 1 .. Prescale
      /\ evtMotion \in BOOLEAN /\ Owed \in Int /\ Owed' \in Int
  BY <1>1 DEF PatienceInv, WatchInv, Owed
<1>3. CASE prescaler # 1
  <2>1. prescaler' = prescaler - 1 /\ Owed' = Owed
    BY <1>1, <1>3 DEF Timer0, Owed
  <2> DEFINE full == Owed * Prescale
  <2>2. full \in Int /\ patience >= full + 1 - prescaler
    BY <1>1, <1>2, <2>1 DEF PatienceInv
  <2> HIDE DEF full
  <2>3. patience' >= full + 1 - prescaler'
    BY <1>1, <1>2, <2>1, <2>2
  <2> QED BY <2>1, <2>3 DEF full
<1>4. CASE prescaler = 1
  <2>1. prescaler' = Prescale /\ evtMotion' = TRUE
    BY <1>4 DEF Timer0
  <2>2. Owed' * Prescale + 1 - prescaler' = (Owed' - 1) * Prescale + 1
    BY <1>2, <2>1
  <2>3. CASE Owed' = 1
    BY <1>1, <1>2, <2>2, <2>3
  <2>4. CASE Owed' > 1
    <3>1. Owed' - 1 \in {Owed - 1, Owed} /\ Owed >= 1
      BY <1>1, <1>2, <2>1, <2>4 DEF Owed
    <3> DEFINE owed    == Owed * Prescale
               periods == (Owed' - 1) * Prescale
    <3>2. owed \in Int /\ periods \in Int
      BY <1>2
    <3>3. patience >= owed
      BY <1>1, <1>2, <1>4, <3>1 DEF PatienceInv
    <3>4. periods \in {owed - Prescale, owed}
      <4>1. (Owed - 1) * Prescale = owed - Prescale
        BY <1>2
      <4> QED BY <3>1, <4>1
    <3>5. Owed' * Prescale + 1 - prescaler' = periods + 1
      BY <2>2
    <3> HIDE DEF owed, periods
    <3> QED BY <1>1, <1>2, <3>2, <3>3, <3>4, <3>5
  <2> QED BY <1>2, <2>3, <2>4
<1> QED BY <1>3, <1>4

LEMMA StepPatience == PatienceInv /\ [Next]_vars => PatienceInv'
<1> SUFFICES ASSUME PatienceInv, [Next]_vars
             PROVE  motionActive' /\ Owed' >= 1 /\ patience' < MaxPatience
                      => patience' >= Owed' * Prescale + 1 - prescaler'
  BY StepWatch DEF PatienceInv
<1>1. CASE /\ UNCHANGED <<patience, prescaler>> /\ (motionActive' => motionActive)
           /\ Owed' = Owed
  BY <1>1 DEF PatienceInv
<1>0. CASE UNCHANGED <<motionActive, watchdog, evtMotion, patience, prescaler>>
  <2>1. Owed' = Owed
    BY <1>0 DEF Owed
  <2> QED BY <1>0, <1>1, <2>1
<1>2. ASSUME NEW c \in Commands, Execute(c)
      PROVE  motionActive' /\ Owed' >= 1 /\ patience' < MaxPatience
               => patience' >= Owed' * Prescale + 1 - prescaler'
  <2>1. CASE c \in Motions
    <3>1. watchdog' = WatchdogLoad
      BY <1>2, <2>1 DEF Execute, Watch
    <3>2. Owed' \in {0, 0 - 1}
      BY <3>1 DEF Owed
    <3>3. ~(Owed' >= 1)
      BY <3>2
    <3> QED BY <3>3
  <2>2. CASE c \notin Motions
    BY <1>0, <1>2, <2>2 DEF Execute
  <2> QED BY <2>1, <2>2
<1>3. CASE TimeFactor \/ NextByte \/ BreakOff \/ Refuse \/ ByteOut
  BY <1>0, <1>3 DEF TimeFactor, NextByte, BreakOff, Refuse, ByteOut, history
<1>4. CASE MainLoop
  <2>1. (motionActive' => motionActive) /\ UNCHANGED <<patience, prescaler>>
    BY <1>4, MainLoopWatch DEF PatienceInv
  <2>2. Owed' = Owed
    <3>1. CASE Late
      <4>1. /\ evtMotion /\ ~evtMotion' /\ watchdog' = watchdog - 1
            /\ watchdog \in 1 .. WatchdogLoad
        BY <1>4, <3>1, MainLoopWatch DEF PatienceInv, Late
      <4> QED BY <4>1 DEF Owed
    <3>2. CASE ~Late
      BY <1>4, <3>2, MainLoopWatch DEF PatienceInv, Owed
    <3> QED BY <3>1, <3>2
  <2> QED BY <1>1, <2>1, <2>2
<1>5. CASE Timer0
  BY <1>5, Timer0Patience
<1>6. CASE Servo \/ EmergencyOff \/ EmergencyOver
  BY <1>0, <1>6 DEF Servo, EmergencyOff, EmergencyOver, ctlVars, history
<1>7. CASE UNCHANGED vars
  BY <1>0, <1>7 DEF vars, ctlVars, history
<1> QED BY <1>2, <1>3, <1>4, <1>5, <1>6, <1>7
        DEF Next, HostFrame, LineFault, Firmware

(* The watchdog does not bite early, if the history counts far enough.     *)
THEOREM WatchdogIsPatient ==
  ASSUME MaxPatience >= Prescale * (WatchdogLoad - 2) + 1
  PROVE  Spec => WatchdogPatience
<1>1. ControllerInit => PatienceInv
  BY InitWatch DEF ControllerInit, PatienceInv
<1>2. PatienceInv => [Expired /\ motionActive' # motionActive
                        => patience >= Prescale * (WatchdogLoad - 2) + 1]_vars
  <2> SUFFICES ASSUME PatienceInv, Expired
               PROVE  patience >= Prescale * (WatchdogLoad - 2) + 1
    OBVIOUS
  <2>1. motionActive /\ evtMotion /\ watchdog = 1 /\ Owed = WatchdogLoad - 1
    BY DEF Expired, Late, Owed
  <2>2. patience \in Nat /\ patience <= MaxPatience /\ prescaler \in 1 .. Prescale
    BY DEF PatienceInv, WatchInv
  <2>3. CASE patience = MaxPatience \/ WatchdogLoad = 1
    BY <2>2, <2>3
  <2>4. CASE patience < MaxPatience /\ WatchdogLoad > 1
    <3>1. patience >= (WatchdogLoad - 1) * Prescale + 1 - prescaler
      BY <2>1, <2>4 DEF PatienceInv
    <3>2. (WatchdogLoad - 1) * Prescale = Prescale * (WatchdogLoad - 2) + Prescale
      OBVIOUS
    <3>3. Prescale * (WatchdogLoad - 2) \in Int
      OBVIOUS
    <3> QED BY <2>2, <3>1, <3>2, <3>3
  <2> QED BY <2>2, <2>3, <2>4
<1> QED BY <1>1, <1>2, StepPatience, PTL DEF Spec, WatchdogPatience
=============================================================================
