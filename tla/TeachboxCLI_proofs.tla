------------------------ MODULE TeachboxCLI_proofs ------------------------
(***************************************************************************)
(* Proofs about TeachboxCLI, for any number of axes, travel, step, settle  *)
(* bound, keys and targets.                                                *)
(***************************************************************************)
EXTENDS TeachboxCLI, FoldLemmas

(* Nothing is pushed before the engine stands, and after a settle() with   *)
(* it the ADC follows every move: only settle() writes pot and ADC, and it *)
(* writes both.                                                            *)
AdcInv ==
  /\ at \in {"construct", "reset"} => engine = FALSE /\ pushed = FALSE
  /\ pushed = TRUE => engine = TRUE /\ adc = pot
  /\ pushed \in BOOLEAN /\ engine \in BOOLEAN

LEMMA InitAdc == Init => AdcInv
BY DEF Init, AdcInv

(* What a line or a key does to the plant: a settle(), or nothing.         *)
Plants == UNCHANGED plantVars \/ settle

LEMMA SettleAdc ==
  ASSUME AdcInv, Plants, engine' = engine, at \notin {"construct", "reset"},
         at' \notin {"construct", "reset"}
  PROVE  AdcInv'
<1>1. CASE UNCHANGED plantVars
  BY <1>1 DEF plantVars, AdcInv
<1>2. CASE settle
  <2>1. CASE engine = TRUE
    <3>1. adc' = pot' /\ pushed' = TRUE
      BY <1>2, <2>1 DEF settle, PushedPots
    <3> QED BY <2>1, <3>1 DEF AdcInv
  <2>2. CASE engine = FALSE
    <3>1. pushed' = FALSE
      BY <1>2, <2>2 DEF settle, AdcInv
    <3> QED BY <2>2, <3>1 DEF AdcInv
  <2> QED BY <2>1, <2>2 DEF AdcInv
<1> QED BY <1>1, <1>2 DEF Plants

LEMMA KeyPlants == \A k \in KEYS : key(k) => Plants
<1> SUFFICES ASSUME NEW k \in KEYS, key(k) PROVE Plants
  OBVIOUS
<1>1. \/ digit(k) \/ POS \/ point \/ _jog(1) \/ _jog(-1) \/ _commit
      \/ UNCHANGED <<entryVars, plantVars>>
  BY DEF key
<1> QED BY <1>1 DEF digit, POS, point, _jog, _commit, Plants

LEMMA StepAdc == AdcInv /\ [Next]_vars => AdcInv'
<1> SUFFICES ASSUME AdcInv, [Next]_vars PROVE AdcInv'
  OBVIOUS
<1>1. CASE Construct
  <2>1. engine' \in BOOLEAN /\ (at' = "reset" => engine' = FALSE)
        /\ pushed' = FALSE /\ at' \in {"prompt", "reset"}
    BY <1>1 DEF Construct, Ready, AdcInv, plantVars
  <2> QED BY <2>1 DEF AdcInv
<1>2. CASE Reset
  BY <1>2 DEF Reset, Ready, AdcInv, plantVars
<1>3. CASE \E k \in KEYS : key(k)
  <2>1. engine' = engine /\ at = "feed" /\ at' \in {"feed", "held"}
    BY <1>3 DEF key, PressedKey, bootVars
  <2> QED BY <1>3, <2>1, KeyPlants, SettleAdc
<1>4. CASE Release \/ FeedLine \/ close \/ Crash \/ MetaAxis
  BY <1>4, SettleAdc DEF Release, FeedLine, close, Crash, MetaAxis, Prompt, Plants, bootVars
<1>5. CASE EndOfLine \/ MetaTarget \/ MetaRun
  BY <1>5, SettleAdc DEF EndOfLine, MetaTarget, MetaRun, Prompt, Plants, bootVars
<1>6. CASE UNCHANGED vars
  BY <1>6 DEF vars, bootVars, plantVars, AdcInv
<1> QED BY <1>1, <1>2, <1>3, <1>4, <1>5, <1>6 DEF Next, Meta

(* Between two keys the ADC of the firmware shows the pots of the plant,   *)
(* from the first settle() on, however a line came to move them.           *)
THEOREM AdcFollowsPlant == Spec => []AdcShowsPlant
<1>1. AdcInv => AdcShowsPlant
  BY DEF AdcInv, AdcShowsPlant
<1> QED BY <1>1, InitAdc, StepAdc, PTL DEF Spec

-----------------------------------------------------------------------------
(* One round brings an axis a step nearer to its target, and no further.   *)
USE CliAssumption

Far(p, t) == IF p < t THEN t - p ELSE p - t
Rest(n) == IF n * Step <= MaxPot THEN MaxPot - n * Step ELSE 0

LEMMA TowardNearer ==
  ASSUME NEW p \in Pots, NEW t \in Pots
  PROVE  /\ Toward(p, t) \in Pots
         /\ Far(Toward(p, t), t) = IF Far(p, t) > Step THEN Far(p, t) - Step ELSE 0
BY DEF Toward, Far, Pots

LEMMA RoundIsToward ==
  \A t, v \in Pots, i \in Nat : Round(t)[<<v, i>>] = Toward(v, t)
BY DEF Round, Pots

LEMMA RoundsGrow ==
  ASSUME NEW n \in Nat
  PROVE  /\ Rounds(n) \in Seq(Nat) /\ Rounds(0) = <<>>
         /\ Rounds(n + 1) = Append(Rounds(n), n + 1)
<1>1. \A k \in Nat : Rounds(k) \in Seq(Nat) /\ Len(Rounds(k)) = k
  BY DEF Rounds
<1>2. n + 1 \in Nat /\ 0 \in Nat
  OBVIOUS
<1>3. Rounds(0) = <<>>
  BY <1>1, <1>2
<1>4. Rounds(n + 1) = Append(Rounds(n), n + 1)
  BY DEF Rounds
<1> QED BY <1>1, <1>3, <1>4

LEMMA SettledIsFold ==
  \A p, t : Settled(p, t) = Fold(Round(t), p, Rounds(SettleTicks))
BY DEF Settled, Fold

LEMMA SettledNear ==
  ASSUME NEW p \in Pots, NEW t \in Pots
  PROVE  Settled(p, t) \in Pots /\ Far(Settled(p, t), t) <= Rest(SettleTicks)
<1> DEFINE after(n) == Fold(Round(t), p, Rounds(n))
           S == {n \in Nat : after(n) \in Pots /\ Far(after(n), t) <= Rest(n)}
<1>1. 0 \in S
  <2>1. after(0) = p
    BY RoundsGrow, FoldEmpty
  <2>2. Far(p, t) <= MaxPot /\ Rest(0) = MaxPot
    BY DEF Far, Rest, Pots
  <2> HIDE DEF after
  <2> QED BY <2>1, <2>2
<1>2. ASSUME NEW n \in Nat, n \in S PROVE n + 1 \in S
  <2>1. after(n) \in Pots /\ Far(after(n), t) <= Rest(n)
    BY <1>2
  <2>2. after(n + 1) = Round(t)[<<after(n), n + 1>>]
    <3>1. n + 1 \in Nat /\ Rounds(n) \in Seq(Nat)
      BY RoundsGrow
    <3>2. Fold(Round(t), p, Append(Rounds(n), n + 1))
            = Round(t)[<<Fold(Round(t), p, Rounds(n)), n + 1>>]
      BY <3>1, FoldAppend
    <3> QED BY <3>2, RoundsGrow
  <2> HIDE DEF after
  <2>3. after(n + 1) = Toward(after(n), t)
    BY <2>1, <2>2, RoundIsToward
  <2>4. /\ after(n + 1) \in Pots
        /\ Far(after(n + 1), t)
             = IF Far(after(n), t) > Step THEN Far(after(n), t) - Step ELSE 0
    BY <2>1, <2>3, TowardNearer
  <2>5. Rest(n) - Step <= Rest(n + 1) /\ 0 <= Rest(n + 1)
        /\ Rest(n) \in Nat /\ Rest(n + 1) \in Nat
    <3>1. (n + 1) * Step = n * Step + Step /\ n * Step \in Nat
      OBVIOUS
    <3> QED BY <3>1 DEF Rest, Pots
  <2>6. Far(after(n), t) \in Int
    BY <2>1 DEF Far, Pots
  <2>7. Far(after(n + 1), t) <= Rest(n + 1)
    BY <2>1, <2>4, <2>5, <2>6
  <2> QED BY <2>4, <2>7
<1> HIDE DEF S
<1>3. SettleTicks \in S
  BY <1>1, <1>2, SetInduction
<1> QED BY <1>3, SettledIsFold DEF S

-----------------------------------------------------------------------------
(* Types.                                                                  *)
Plane == [Axes -> Pots]

TypeInv ==
  /\ pot \in Plane /\ targets \in Plane /\ adc \in Plane
  /\ selected \in Axes \cup {NoAxis} /\ posMode \in BOOLEAN /\ seenDot \in BOOLEAN
  /\ accum \in Seq(DIGITS) /\ typed \in Seq(DIGITS \cup {"."}) /\ axisSet \in BOOLEAN
  /\ engine \in BOOLEAN /\ sim \in {"none", "up", "closed"}
  /\ engine = TRUE \/ at = "reset" => sim # "none"

LEMMA ClampType == \A v \in Int, hi \in Nat : _clamp(v, hi) \in 0 .. hi
BY DEF _clamp

LEMMA ValueType == \A k \in DIGITS : Value[k] \in 0 .. 9
<1>1. \A k \in DIGITS : Value[k] \in {0, 1, 2, 3, 4, 5, 6, 7, 8, 9}
  BY ZenonT(30) DEF Value, DIGITS
<1> QED BY <1>1

LEMMA DecimalIsFold == \A s : Decimal(s) = Fold(Shift, 0, s)
BY DEF Decimal, Fold

LEMMA NumberIsFold == \A s : Number(s) = Fold(Read, 0, s)
BY DEF Number, Fold

LEMMA ShiftIs ==
  ASSUME NEW v \in Nat, NEW k \in DIGITS
  PROVE  Shift[<<v, k>>] = 10 * v + Value[k] /\ Shift[<<v, k>>] \in Nat
<1>1. Shift[<<v, k>>] = 10 * v + Value[k]
  <2>1. <<v, k>> \in Nat \X DIGITS
    OBVIOUS
  <2> QED BY <2>1, Zenon DEF Shift
<1>2. Value[k] \in 0 .. 9
  BY ValueType
<1> QED BY <1>1, <1>2

LEMMA DecimalType == \A s \in Seq(DIGITS) : Decimal(s) \in Nat
BY ShiftIs, FoldType, DecimalIsFold

LEMMA ClampedAxis == \A n \in Int : _clamp(n, NAxes - 1) \in Axes
<1>1. NAxes - 1 \in Nat
  OBVIOUS
<1> QED BY <1>1, ClampType DEF Axes

LEMMA AxesAreNumbers == Axes \subseteq Nat /\ NAxes - 1 \in Nat /\ 0 .. NAxes - 1 = Axes
                        /\ 0 .. MaxPot = Pots
BY DEF Axes, Pots

(* A settle() moves every axis to a place between its ends, and near its   *)
(* target.                                                                 *)
Near == \A a \in Axes : Far(pot[a], targets[a]) <= Rest(SettleTicks)

LEMMA SettleType ==
  ASSUME TypeInv, targets' \in Plane, settle
  PROVE  pot' \in Plane /\ adc' \in Plane /\ Near'
<1>1. \A a \in Axes : pot[a] \in Pots /\ targets'[a] \in Pots
  BY DEF TypeInv, Plane
<1>2. \A a \in Axes : /\ Settled(pot[a], targets'[a]) \in Pots
                      /\ Far(Settled(pot[a], targets'[a]), targets'[a]) <= Rest(SettleTicks)
  BY <1>1, SettledNear
<1>3. pot' = [a \in Axes |-> Settled(pot[a], targets'[a])]
  BY DEF settle
<1>4. \A a \in Axes : pot'[a] = Settled(pot[a], targets'[a])
  BY <1>3
<1>5. pot' \in Plane
  BY <1>2, <1>3 DEF Plane
<1>6. adc' \in Plane
  BY <1>5 DEF settle, PushedPots, TypeInv
<1>7. Near'
  BY <1>2, <1>4 DEF Near
<1> QED BY <1>5, <1>6, <1>7

(* What a key or a line does to the plant: nothing, or a settle() towards  *)
(* targets within the travel.                                              *)
PlantOK == UNCHANGED plantVars \/ (targets' \in Plane /\ settle)

LEMMA TargetType ==
  ASSUME TypeInv, NEW a \in Axes, NEW v \in Int
  PROVE  [targets EXCEPT ![a] = _clamp(v, MaxPot)] \in Plane
<1>1. _clamp(v, MaxPot) \in Pots
  BY ClampType, AxesAreNumbers
<1> QED BY <1>1 DEF TypeInv, Plane

LEMMA JogPlant ==
  ASSUME TypeInv, NEW d \in {1, -1}, _jog(d)
  PROVE  PlantOK /\ UNCHANGED entryVars
<1>1. CASE selected # NoAxis
  <2>1. selected \in Axes
    BY <1>1 DEF TypeInv
  <2>2. targets[selected] + d * Step \in Int
    <3>1. targets[selected] \in Int
      BY <2>1 DEF TypeInv, Plane, Pots
    <3>2. d * Step \in Int
      OBVIOUS
    <3> QED BY <3>1, <3>2
  <2>3. targets' = [targets EXCEPT ![selected]
                      = _clamp(targets[selected] + d * Step, MaxPot)] /\ settle
    BY <1>1 DEF _jog, Jogged
  <2> QED BY <2>1, <2>2, <2>3, TargetType DEF _jog, PlantOK
<1> QED BY <1>1 DEF _jog, PlantOK

LEMMA CommitPlant ==
  ASSUME TypeInv, _commit
  PROVE  PlantOK
<1>1. CASE Commits
  <2>1. selected \in Axes
    BY <1>1 DEF Commits, TypeInv
  <2>2. Decimal(accum) \in Int
    BY DecimalType DEF TypeInv
  <2>3. targets' = [targets EXCEPT ![selected] = _clamp(Decimal(accum), MaxPot)]
        /\ settle
    BY <1>1 DEF _commit
  <2> QED BY <2>1, <2>2, <2>3, TargetType DEF PlantOK
<1> QED BY <1>1 DEF _commit, PlantOK

LEMMA KeyPlant ==
  ASSUME TypeInv, NEW k \in KEYS, key(k)
  PROVE  PlantOK
<1>1. \/ digit(k) \/ POS \/ point \/ _jog(1) \/ _jog(-1) \/ _commit
      \/ UNCHANGED <<entryVars, plantVars>>
  BY DEF key
<1>2. CASE digit(k) \/ POS \/ point \/ UNCHANGED <<entryVars, plantVars>>
  BY <1>2 DEF digit, POS, point, PlantOK
<1> QED BY <1>1, <1>2, JogPlant, CommitPlant

(* What a key leaves of the entry is of its type.                          *)
EntryOK == /\ selected' \in Axes \cup {NoAxis} /\ posMode' \in BOOLEAN
           /\ seenDot' \in BOOLEAN /\ accum' \in Seq(DIGITS)

LEMMA KeyEntry ==
  ASSUME TypeInv, NEW k \in KEYS, key(k)
  PROVE  EntryOK
<1>0. selected \in Axes \cup {NoAxis} /\ posMode \in BOOLEAN /\ seenDot \in BOOLEAN
      /\ accum \in Seq(DIGITS) /\ <<>> \in Seq(DIGITS)
  BY DEF TypeInv
<1>1. CASE IsDigit(k) /\ digit(k)
  <2>1. k \in DIGITS
    BY <1>1 DEF IsDigit
  <2>2. accum' \in Seq(DIGITS)
    BY <1>0, <1>1, <2>1 DEF digit
  <2>3. selected' \in Axes \cup {NoAxis}
    BY <1>0, <1>1 DEF digit
  <2> QED BY <1>0, <1>1, <2>2, <2>3 DEF digit, EntryOK
<1>2. CASE POS
  BY <1>0, <1>2 DEF POS, StartDot, EntryOK
<1>3. CASE point
  BY <1>0, <1>3 DEF point, EntryOK
<1>4. CASE _commit
  BY <1>0, <1>4 DEF _commit, EntryOK
<1>5. CASE UNCHANGED entryVars
  BY <1>0, <1>5 DEF entryVars, EntryOK
<1>6. CASE _jog(1) \/ _jog(-1)
  BY <1>5, <1>6, JogPlant
<1>7. CASE UNCHANGED <<entryVars, plantVars>>
  BY <1>5, <1>7
<1> QED BY <1>1, <1>2, <1>3, <1>4, <1>6, <1>7 DEF key

LEMMA KeyHistory ==
  ASSUME TypeInv, NEW k \in KEYS, key(k)
  PROVE  typed' \in Seq(DIGITS \cup {"."}) /\ axisSet' \in BOOLEAN
<1>1. IsDigit(k) \/ k = "." => Append(typed, k) \in Seq(DIGITS \cup {"."})
  BY DEF TypeInv, IsDigit
<1>2. typed' \in {<<>>, typed} \/ ((IsDigit(k) \/ k = ".") /\ typed' = Append(typed, k))
  BY DEF key, Remember
<1> QED BY <1>1, <1>2 DEF TypeInv, key, Remember

LEMMA StepType == TypeInv /\ [Next]_vars => TypeInv'
<1> SUFFICES ASSUME TypeInv, [Next]_vars PROVE TypeInv'
  OBVIOUS
<1>0. ASSUME PlantOK, EntryOK, UNCHANGED bootVars, at' # "reset",
             typed' \in Seq(DIGITS \cup {"."}), axisSet' \in BOOLEAN
      PROVE  TypeInv'
  <2>1. pot' \in Plane /\ targets' \in Plane /\ adc' \in Plane
    BY <1>0, SettleType DEF PlantOK, plantVars, TypeInv
  <2> QED BY <1>0, <2>1 DEF EntryOK, bootVars, TypeInv
<1>1. CASE Construct
  <2>1. pot' \in Plane /\ targets' \in Plane /\ adc' \in Plane /\ EntryOK
        /\ typed' \in Seq(DIGITS \cup {"."}) /\ axisSet' \in BOOLEAN
    BY <1>1 DEF Construct, plantVars, entryVars, history, EntryOK, TypeInv
  <2>2. engine' \in BOOLEAN /\ sim' \in {"none", "up", "closed"}
        /\ (engine' = TRUE \/ at' = "reset" => sim' # "none")
    BY <1>1 DEF Construct, Ready, TypeInv
  <2> QED BY <2>1, <2>2 DEF EntryOK, TypeInv
<1>2. CASE Reset
  BY <1>2 DEF Reset, Ready, plantVars, entryVars, history, TypeInv
<1>3. CASE \E k \in KEYS : key(k)
  BY <1>0, <1>3, KeyPlant, KeyEntry, KeyHistory DEF key, PressedKey, bootVars
<1>4. CASE Release \/ FeedLine \/ EndOfLine \/ MetaTarget \/ MetaRun \/ Crash
  <2>1. EntryOK
    BY <1>4 DEF Release, FeedLine, EndOfLine, MetaTarget, MetaRun, Crash, entryVars,
                EntryOK, TypeInv
  <2>2. UNCHANGED bootVars /\ at' # "reset"
    BY <1>4 DEF Release, FeedLine, EndOfLine, MetaTarget, MetaRun, Crash, Prompt
  <2>3. typed' = typed /\ axisSet' = axisSet
    BY <1>4 DEF Release, FeedLine, EndOfLine, MetaTarget, MetaRun, Crash, Prompt, history
  <2>4. PlantOK
    <3>1. CASE Release \/ FeedLine \/ Crash
      BY <3>1 DEF Release, FeedLine, Crash, PlantOK
    <3>2. CASE EndOfLine \/ MetaRun
      BY <3>2 DEF EndOfLine, MetaRun, PlantOK, TypeInv
    <3>3. CASE MetaTarget
      <4>1. PICK n \in -1 .. NAxes, v \in Targets :
              targets' = [targets EXCEPT ![_clamp(n, NAxes - 1)] = _clamp(v, MaxPot)]
        BY <3>3 DEF MetaTarget
      <4>2. _clamp(n, NAxes - 1) \in Axes /\ v \in Int
        BY ClampedAxis
      <4>3. targets' \in Plane
        BY <4>1, <4>2, TargetType
      <4> QED BY <3>3, <4>3 DEF MetaTarget, PlantOK
    <3> QED BY <1>4, <3>1, <3>2, <3>3
  <2> QED BY <1>0, <2>1, <2>2, <2>3, <2>4 DEF TypeInv
<1>5. CASE MetaAxis
  <2>1. PICK n \in 0 .. NAxes : selected' = _clamp(n, NAxes - 1)
    BY <1>5 DEF MetaAxis
  <2>2. selected' \in Axes
    BY <2>1, ClampedAxis
  <2>3. UNCHANGED <<bootVars, at, typed, posMode, seenDot, accum, plantVars>>
        /\ axisSet' = TRUE
    BY <1>5 DEF MetaAxis, Prompt
  <2> QED BY <2>2, <2>3 DEF bootVars, plantVars, TypeInv
<1>6. CASE close
  BY <1>6 DEF close, Prompt, entryVars, plantVars, TypeInv
<1>7. CASE UNCHANGED vars
  BY <1>7 DEF vars, bootVars, entryVars, plantVars, history, TypeInv
<1> QED BY <1>1, <1>2, <1>3, <1>4, <1>5, <1>6, <1>7 DEF Next, Meta

LEMMA InitType == Init => TypeInv
<1> SUFFICES ASSUME Init PROVE TypeInv
  OBVIOUS
<1>1. pot \in Plane /\ targets \in Plane
  BY DEF Init, Plane
<1>2. adc \in Plane
  BY DEF Init, Plane, Pots
<1>3. <<>> \in Seq(DIGITS) /\ <<>> \in Seq(DIGITS \cup {"."})
  OBVIOUS
<1>4. /\ selected = NoAxis /\ posMode = FALSE /\ seenDot = FALSE /\ accum = <<>>
      /\ typed = <<>> /\ axisSet = FALSE /\ engine = FALSE /\ sim = "none"
      /\ at = "construct"
  BY DEF Init
<1> QED BY <1>1, <1>2, <1>3, <1>4 DEF TypeInv

LEMMA TypeHolds == Spec => []TypeInv
BY InitType, StepType, PTL DEF Spec

(* What is typed, jogged, clamped and settled stays a pot code and an axis.*)
THEOREM CliTypeCorrect == Spec => []CliTypeOK
<1>1. TypeInv => CliTypeOK
  BY DEF TypeInv, Plane, CliTypeOK
<1> QED BY <1>1, TypeHolds, PTL

-----------------------------------------------------------------------------
(* At the prompt every axis has had a settle() since its target was set.   *)
NearInv == /\ at \in {"construct", "reset"} => targets = pot
           /\ at = "prompt" => Near

LEMMA RestIsNat == Rest(SettleTicks) \in Nat
<1>1. SettleTicks * Step \in Nat
  OBVIOUS
<1> QED BY <1>1 DEF Rest, Pots

LEMMA AtTargetIsNear ==
  \A p \in Plane, a \in Axes : Far(p[a], p[a]) <= Rest(SettleTicks)
BY RestIsNat DEF Far, Plane, Pots

LEMMA StepNear == TypeInv /\ NearInv /\ [Next]_vars => NearInv'
<1> SUFFICES ASSUME TypeInv, NearInv, [Next]_vars PROVE NearInv'
  OBVIOUS
<1>0. TypeInv'
  BY StepType
<1>1. CASE Construct \/ Reset
  <2>1. targets' = pot'
    BY <1>1 DEF Construct, Reset, plantVars, NearInv
  <2>2. Near'
    BY <1>0, <2>1, AtTargetIsNear DEF Near, TypeInv
  <2> QED BY <2>1, <2>2 DEF NearInv
<1>2. CASE (\E k \in KEYS : key(k)) \/ Release \/ FeedLine \/ close \/ Crash
  BY <1>2 DEF key, PressedKey, Release, FeedLine, close, Crash, NearInv
<1>3. CASE EndOfLine \/ MetaTarget \/ MetaRun
  <2>1. settle /\ at' = "prompt"
    BY <1>3 DEF EndOfLine, MetaTarget, MetaRun, Prompt
  <2>2. Near'
    BY <1>0, <2>1, SettleType DEF TypeInv
  <2> QED BY <2>1, <2>2 DEF NearInv
<1>4. CASE MetaAxis
  BY <1>4 DEF MetaAxis, plantVars, NearInv, Near
<1>5. CASE UNCHANGED vars
  BY <1>5 DEF vars, plantVars, NearInv, Near
<1> QED BY <1>1, <1>2, <1>3, <1>4, <1>5 DEF Next, Meta

(* A settle() has a bounded number of rounds: it may leave an axis on the  *)
(* way, but no further than the travel exceeds what these rounds can do.   *)
THEOREM SettledArmsAreNear == Spec => []ArmsNearTargets
<1>1. Init => NearInv
  BY DEF Init, NearInv
<1>2. TypeInv /\ NearInv => ArmsNearTargets
  <2> SUFFICES ASSUME TypeInv, Near, NEW a \in Axes
               PROVE  LET d == targets[a] - pot[a]
                      IN  (IF d < 0 THEN -d ELSE d)
                            <= _clamp(MaxPot - SettleTicks * Step, MaxPot)
    BY DEF NearInv, ArmsNearTargets
  <2>1. pot[a] \in Int /\ targets[a] \in Int
    BY DEF TypeInv, Plane, Pots
  <2>2. SettleTicks * Step \in Nat
    OBVIOUS
  <2>3. Rest(SettleTicks) = _clamp(MaxPot - SettleTicks * Step, MaxPot)
    BY <2>2 DEF Rest, _clamp
  <2>4. Far(pot[a], targets[a]) <= Rest(SettleTicks)
    BY DEF Near
  <2> QED BY <2>1, <2>3, <2>4 DEF Far
<1> QED BY <1>1, <1>2, StepNear, TypeHolds, PTL DEF Spec

-----------------------------------------------------------------------------
(* The entry as it was typed.  Typed is what the history holds, a sequence *)
(* of digits and points, and each key of an entry appends to it.           *)
Typed == DIGITS \cup {"."}

LEMMA TypedIsKeys == Typed \subseteq KEYMAP /\ DIGITS \subseteq KEYMAP /\ "." \notin DIGITS
BY DEF Typed, DIGITS, KEYMAP

LEMMA ReadIs ==
  ASSUME NEW v \in Nat, NEW k \in Typed
  PROVE  /\ Read[<<v, k>>] \in Nat
         /\ k \in DIGITS => Read[<<v, k>>] = Shift[<<v, k>>]
         /\ k = "." => Read[<<v, k>>] = v
<1>1. <<v, k>> \in Nat \X KEYMAP
  BY TypedIsKeys
<1>2. Read[<<v, k>>] = IF IsDigit(k) THEN Shift[<<v, k>>] ELSE v
  BY <1>1, Zenon DEF Read
<1> QED BY <1>2, ShiftIs, TypedIsKeys DEF IsDigit, Typed

LEMMA NumberGrows ==
  ASSUME NEW s \in Seq(Typed), NEW k \in Typed
  PROVE  /\ Number(s) \in Nat
         /\ k \in DIGITS => Number(Append(s, k)) = Shift[<<Number(s), k>>]
         /\ k = "." => Number(Append(s, k)) = Number(s)
<1>1. Number(s) \in Nat
  BY ReadIs, FoldType, NumberIsFold
<1>2. Number(Append(s, k)) = Read[<<Number(s), k>>]
  BY FoldAppend, NumberIsFold
<1> QED BY <1>1, <1>2, ReadIs

LEMMA DecimalGrows ==
  ASSUME NEW s \in Seq(DIGITS), NEW k \in DIGITS
  PROVE  Decimal(Append(s, k)) = Shift[<<Decimal(s), k>>]
BY FoldAppend, DecimalIsFold

(* The first of the points.                                                *)
LEMMA FirstIsLeast ==
  ASSUME NEW P, P \subseteq Nat, P # {}
  PROVE  LET f == CHOOSE i \in P : \A j \in P : i <= j
         IN  f \in P /\ \A j \in P : f <= j
BY LeastExists

LEMMA FirstIs ==
  ASSUME typed \in Seq(Typed), Points # {}
  PROVE  First \in Points /\ First \in 1 .. Len(typed) /\ \A j \in Points : First <= j
<1>1. Points \subseteq Nat /\ Points \subseteq 1 .. Len(typed)
  BY DEF Points
<1>2. First \in Points /\ \A j \in Points : First <= j
  BY <1>1, FirstIsLeast DEF First
<1> QED BY <1>1, <1>2

(* What one more key does to the points, the axes named and the number.    *)
LEMMA AppendSub ==
  ASSUME NEW T, NEW s \in Seq(T), NEW e \in T, NEW m \in 1 .. Len(s) + 1
  PROVE  /\ SubSeq(s, m, Len(s)) \in Seq(T)
         /\ SubSeq(Append(s, e), m, Len(s) + 1) = Append(SubSeq(s, m, Len(s)), e)
OBVIOUS

More(k) == typed \in Seq(Typed) /\ k \in Typed /\ typed' = Append(typed, k)

LEMMA MoreFacts ==
  ASSUME NEW k, More(k)
  PROVE  /\ Len(typed) \in Nat /\ Len(typed') = Len(typed) + 1
         /\ DOMAIN typed = 1 .. Len(typed) /\ DOMAIN typed' = 1 .. Len(typed) + 1
         /\ \A i \in 1 .. Len(typed) : typed'[i] = typed[i]
         /\ typed'[Len(typed) + 1] = k /\ typed' \in Seq(Typed)
BY DEF More

LEMMA MorePoints ==
  ASSUME NEW k, More(k)
  PROVE  Points' = Points \cup (IF k = "." THEN {Len(typed) + 1} ELSE {})
BY MoreFacts DEF Points

(* Behind the first point a key is added to what stands there.             *)
LEMMA MoreBehind ==
  ASSUME NEW k, More(k), Points # {}
  PROVE  /\ Behind \in Seq(Typed) /\ Behind' = Append(Behind, k)
         /\ Names' = Names
<1> DEFINE n == Len(typed)
<1>1. First \in Points /\ First \in 1 .. n /\ \A j \in Points : First <= j
  BY FirstIs DEF More
<1>2. First' \in Points' /\ \A j \in Points' : First' <= j
  <2>1. Points' # {}
    BY MorePoints
  <2>2. Points' \subseteq Nat
    BY MoreFacts DEF Points
  <2> QED BY <2>1, <2>2, FirstIsLeast DEF First
<1>3. Points' = Points \cup (IF k = "." THEN {n + 1} ELSE {})
  BY MorePoints
<1>4. First' = First
  <2>1. First <= First' /\ First' <= First
    BY <1>1, <1>2, <1>3, MoreFacts
  <2>2. First' \in Int /\ First \in Int
    BY <1>1, <1>2, <1>3, MoreFacts DEF Points
  <2> QED BY <2>1, <2>2
<1>5. Behind' = Append(Behind, k) /\ Behind \in Seq(Typed)
  <2>1. First + 1 \in 1 .. Len(typed) + 1
    BY <1>1, MoreFacts
  <2>2. typed \in Seq(Typed) /\ k \in Typed /\ typed' = Append(typed, k)
    BY DEF More
  <2>3. /\ SubSeq(typed, First + 1, Len(typed)) \in Seq(Typed)
        /\ SubSeq(Append(typed, k), First + 1, Len(typed) + 1)
             = Append(SubSeq(typed, First + 1, Len(typed)), k)
    BY <2>1, <2>2, AppendSub
  <2> QED BY <1>4, <2>2, <2>3, MoreFacts DEF Behind
<1>6. Names' = Names
  <2>1. \A i \in DOMAIN typed' : NamesAxis(i)' => i \in 1 .. n
    BY <1>1, <1>3, MoreFacts DEF NamesAxis
  <2>2. \A i \in 1 .. n : NamesAxis(i)' <=> NamesAxis(i)
    BY <1>3, MoreFacts DEF NamesAxis
  <2> QED BY <2>1, <2>2, MoreFacts DEF Names
<1> QED BY <1>5, <1>6

LEMMA NamesAreIndices ==
  typed \in Seq(Typed) => Names \in SUBSET (1 .. Len(typed))
BY DEF Names

(* The last axis named, before the first point.                            *)
LEMMA MoreNames ==
  ASSUME NEW k, More(k), Points = {}
  PROVE  /\ IsDigit(k) /\ Value[k] \in Axes
               => Names' # {} /\ typed'[Max(Names')] = k
         /\ ~(IsDigit(k) /\ Value[k] \in Axes)
               => /\ Names' = Names
                  /\ Names # {} => typed'[Max(Names')] = typed[Max(Names)]
<1>0. PICK n \in Nat : n = Len(typed)
  BY MoreFacts
<1>1. Points' = IF k = "." THEN {n + 1} ELSE {}
  BY <1>0, MorePoints
<1>2. \A i \in 1 .. n : NamesAxis(i)' <=> NamesAxis(i)
  BY <1>0, <1>1, MoreFacts DEF NamesAxis
<1>3. NamesAxis(n + 1)' <=> IsDigit(k) /\ Value[k] \in Axes
  <2>1. IsDigit(k) => k # "."
    BY TypedIsKeys DEF IsDigit
  <2> QED BY <1>0, <1>1, <2>1, MoreFacts DEF NamesAxis
<1>4. Names \in SUBSET (1 .. n) /\ Names' \in SUBSET (1 .. n + 1) /\ n \in Nat
  BY <1>0, MoreFacts DEF Names
<1>5. CASE IsDigit(k) /\ Value[k] \in Axes
  <2>1. n + 1 \in Names'
    BY <1>0, <1>3, <1>5, MoreFacts DEF Names
  <2>2. Max(Names') = n + 1
    BY <1>4, <2>1, TopIsMax
  <2> QED BY <1>0, <1>5, <2>1, <2>2, MoreFacts
<1>6. CASE ~(IsDigit(k) /\ Value[k] \in Axes)
  <2>1. Names' = Names
    BY <1>0, <1>2, <1>3, <1>6, MoreFacts DEF Names
  <2>2. Names # {} => Max(Names) \in 1 .. n
    BY <1>4, MaxIsIn
  <2> QED BY <1>0, <1>6, <2>1, <2>2, MoreFacts
<1> QED BY <1>5, <1>6

-----------------------------------------------------------------------------
(* The entry under way and what was typed of it.                           *)
LastNamed == Names # {} /\ axisSet = FALSE => selected = Value[typed[Max(Names)]]
HasDigit == \E i \in DOMAIN Behind : IsDigit(Behind[i])
Agrees ==
  /\ LastNamed
  /\ seenDot = TRUE => /\ Points # {} /\ Decimal(accum) = Number(Behind)
                       /\ accum # <<>> => HasDigit
  /\ seenDot = FALSE => Points = {} /\ accum = <<>>
Entered ==
  /\ Points # {} /\ HasDigit /\ LastNamed
  /\ targets[selected] = _clamp(Number(Behind), MaxPot)

EntryInv == /\ posMode = TRUE => Agrees
            /\ op = "commit" => posMode = FALSE /\ Entered

LEMMA SameAgrees ==
  ASSUME Agrees, UNCHANGED <<typed, axisSet, selected, seenDot, accum>>
  PROVE  Agrees'
BY DEF Agrees, LastNamed, HasDigit, Points, First, Behind, Names, NamesAxis

LEMMA SameEntered ==
  ASSUME Entered, UNCHANGED <<typed, axisSet, selected, targets>>
  PROVE  Entered'
BY DEF Entered, LastNamed, HasDigit, Points, First, Behind, Names, NamesAxis

(* A digit or a point of the entry is remembered.                          *)
LEMMA KeyIsMore ==
  ASSUME TypeInv, NEW k \in Typed, key(k), posMode = TRUE
  PROVE  More(k) /\ axisSet' = axisSet /\ op' = "none"
<1>1. k # "P" /\ k # "E" /\ (IsDigit(k) \/ k = ".")
  BY DEF Typed, DIGITS, IsDigit
<1> QED BY <1>1 DEF key, Remember, More, TypeInv, Typed

LEMMA DigitBehind ==
  ASSUME TypeInv, NEW k \in DIGITS, key(k), posMode = TRUE, seenDot = TRUE, Agrees
  PROVE  Agrees'
<1>1. More(k) /\ axisSet' = axisSet
  BY KeyIsMore DEF Typed
<1>2. /\ accum' = Append(accum, k) /\ selected' = selected /\ seenDot' = TRUE
  <2>1. IsDigit(k) /\ k \notin {"P", ".", "+", "-", "E", "N", "D", "C", "R", "I", "O"}
    BY DEF IsDigit, DIGITS
  <2> QED BY <2>1 DEF key, digit
<1>3. Points # {} /\ Decimal(accum) = Number(Behind)
  BY DEF Agrees
<1>4. Behind \in Seq(Typed) /\ Behind' = Append(Behind, k) /\ Names' = Names
  BY <1>1, <1>3, MoreBehind
<1>5. Decimal(accum') = Number(Behind')
  <2>1. Decimal(accum') = Shift[<<Decimal(accum), k>>]
    BY <1>2, DecimalGrows DEF TypeInv
  <2>2. Number(Behind') = Shift[<<Number(Behind), k>>]
    BY <1>4, NumberGrows DEF Typed
  <2> QED BY <1>3, <2>1, <2>2
<1>6. HasDigit'
  <2>1. Len(Behind) + 1 \in DOMAIN Behind' /\ Behind'[Len(Behind) + 1] = k
    BY <1>4 DEF Typed
  <2> QED BY <2>1 DEF HasDigit, IsDigit
<1>7. Points' # {}
  BY <1>1, <1>3, MorePoints
<1>8. LastNamed'
  <2>1. Names # {} => typed'[Max(Names)] = typed[Max(Names)]
    <3>1. Names # {} => Max(Names) \in 1 .. Len(typed)
      BY <1>1, NamesAreIndices, MaxIsIn, MoreFacts DEF More
    <3> QED BY <1>1, <3>1, MoreFacts
  <2> QED BY <1>1, <1>2, <1>4, <2>1 DEF LastNamed, Agrees
<1> QED BY <1>2, <1>5, <1>6, <1>7, <1>8 DEF Agrees

LEMMA DigitBefore ==
  ASSUME TypeInv, NEW k \in DIGITS, key(k), posMode = TRUE, seenDot = FALSE, Agrees
  PROVE  Agrees'
<1>1. More(k) /\ axisSet' = axisSet
  BY KeyIsMore DEF Typed
<1>2. /\ accum' = accum /\ seenDot' = FALSE
      /\ selected' = IF Value[k] \in Axes THEN Value[k] ELSE selected
  <2>1. IsDigit(k) /\ k \notin {"P", ".", "+", "-", "E", "N", "D", "C", "R", "I", "O"}
    BY DEF IsDigit, DIGITS
  <2> QED BY <2>1 DEF key, digit
<1>3. Points = {} /\ accum = <<>>
  BY DEF Agrees
<1>4. Points' = {}
  BY <1>1, <1>3, MorePoints, TypedIsKeys
<1>5. LastNamed'
  BY <1>1, <1>2, <1>3, MoreNames DEF LastNamed, Agrees, IsDigit
<1> QED BY <1>2, <1>3, <1>4, <1>5 DEF Agrees

LEMMA PointAgrees ==
  ASSUME TypeInv, key("."), posMode = TRUE, Agrees
  PROVE  Agrees'
<1>1. More(".") /\ axisSet' = axisSet
  BY KeyIsMore DEF Typed
<1>2. accum' = accum /\ selected' = selected /\ seenDot' = TRUE
  <2>1. ~IsDigit(".")
    BY TypedIsKeys DEF IsDigit
  <2> QED BY <2>1 DEF key, point
<1>3. Points' # {}
  BY <1>1, MorePoints
<1>4. CASE seenDot = TRUE
  <2>1. Points # {} /\ Decimal(accum) = Number(Behind)
    BY <1>4 DEF Agrees
  <2>2. Behind \in Seq(Typed) /\ Behind' = Append(Behind, ".") /\ Names' = Names
    BY <1>1, <2>1, MoreBehind
  <2>3. Number(Behind') = Number(Behind)
    BY <2>2, NumberGrows DEF Typed
  <2>4. HasDigit => HasDigit'
    <3>1. \A i \in DOMAIN Behind : i \in DOMAIN Behind' /\ Behind'[i] = Behind[i]
      BY <2>2
    <3> QED BY <3>1 DEF HasDigit
  <2>5. LastNamed'
    <3>1. Names # {} => typed'[Max(Names)] = typed[Max(Names)]
      <4>1. Names # {} => Max(Names) \in 1 .. Len(typed)
        BY <1>1, NamesAreIndices, MaxIsIn, MoreFacts DEF More
      <4> QED BY <1>1, <4>1, MoreFacts
    <3> QED BY <1>1, <1>2, <2>2, <3>1 DEF LastNamed, Agrees
  <2> QED BY <1>2, <1>3, <1>4, <2>1, <2>3, <2>4, <2>5 DEF Agrees
<1>5. CASE seenDot = FALSE
  <2>1. Points = {} /\ accum = <<>>
    BY <1>5 DEF Agrees
  <2>2. Points' = {Len(typed) + 1}
    BY <1>1, <2>1, MorePoints
  <2>3. First' = Len(typed) + 1
    BY <2>2 DEF First
  <2>4. Behind' = <<>>
    BY <1>1, <2>3, MoreFacts DEF Behind
  <2>5. Decimal(<<>>) = 0 /\ Number(<<>>) = 0
    BY FoldEmpty, DecimalIsFold, NumberIsFold
  <2>6. LastNamed'
    <3>1. ~IsDigit(".")
      BY TypedIsKeys DEF IsDigit
    <3> QED BY <1>1, <1>2, <2>1, <3>1, MoreNames DEF LastNamed, Agrees
  <2> QED BY <1>2, <1>3, <2>1, <2>4, <2>5, <2>6 DEF Agrees
<1> QED BY <1>4, <1>5 DEF TypeInv

(* ENT hands over the entry as it stands.                                  *)
LEMMA CommitEnters ==
  ASSUME TypeInv, EntryInv, key("E")
  PROVE  posMode' = FALSE /\ (op' = "commit" => Entered')
<1>1. _commit /\ Remember("E") /\ ~IsDigit("E")
  BY DEF key, IsDigit, DIGITS
<1>2. posMode' = FALSE /\ selected' = selected
  BY <1>1 DEF _commit
<1>3. ASSUME op' = "commit" PROVE Entered'
  <2>1. Commits
    BY <1>1, <1>3 DEF Remember
  <2>2. posMode = TRUE /\ selected \in Axes /\ accum # <<>>
    BY <2>1 DEF Commits, TypeInv
  <2>3. Agrees /\ seenDot = TRUE
    BY <2>2 DEF EntryInv, Agrees, TypeInv
  <2>4. targets' = [targets EXCEPT ![selected] = _clamp(Decimal(accum), MaxPot)]
    BY <1>1, <2>1 DEF _commit
  <2>5. typed' = typed
    BY <1>1, <2>2 DEF Remember, EntryInv
  <2>6. axisSet' = axisSet
    BY <1>1 DEF Remember, TypeInv
  <2>7. targets'[selected'] = _clamp(Decimal(accum), MaxPot)
    BY <1>2, <2>2, <2>4 DEF TypeInv, Plane
  <2>8. Points' = Points /\ Behind' = Behind /\ Names' = Names
    BY <2>5 DEF Points, First, Behind, Names, NamesAxis
  <2>9. HasDigit' /\ LastNamed'
    BY <1>2, <2>2, <2>3, <2>5, <2>6, <2>8 DEF Agrees, HasDigit, LastNamed
  <2>10. Points # {} /\ Decimal(accum) = Number(Behind)
    BY <2>3 DEF Agrees
  <2> QED BY <2>7, <2>8, <2>9, <2>10 DEF Entered
<1> QED BY <1>2, <1>3

LEMMA PosStarts ==
  ASSUME key("P")
  PROVE  Agrees' /\ op' = "none"
<1>1. POS /\ Remember("P")
  BY DEF key, IsDigit, DIGITS
<1>2. seenDot' = FALSE /\ accum' = <<>> /\ typed' = <<>> /\ op' = "none"
  BY <1>1 DEF POS, StartDot, Remember
<1>3. Points' = {} /\ Names' = {}
  BY <1>2 DEF Points, Names
<1> QED BY <1>2, <1>3 DEF Agrees, LastNamed

LEMMA KeyKeepsEntry ==
  ASSUME TypeInv, EntryInv, NEW k \in KEYS, key(k)
  PROVE  EntryInv'
<1>1. CASE k = "P"
  BY <1>1, PosStarts DEF EntryInv
<1>2. CASE k = "E"
  BY <1>2, CommitEnters DEF EntryInv
<1>3. CASE k \in DIGITS \cup {"."} /\ posMode = TRUE
  <2>1. Agrees
    BY <1>3 DEF EntryInv
  <2>2. k \in Typed /\ op' = "none"
    BY <1>3, KeyIsMore DEF Typed
  <2>3. Agrees'
    BY <1>3, <2>1, DigitBehind, DigitBefore, PointAgrees DEF TypeInv
  <2> QED BY <2>2, <2>3 DEF EntryInv
<1>4. CASE k \in DIGITS \cup {"."} /\ posMode = FALSE
  <2>1. posMode' = FALSE /\ op' = "none"
    <3>1. k # "P" /\ k # "E" /\ k \notin {"+", "-", "N", "D", "C", "R", "I", "O"}
          /\ (k = "." => ~IsDigit(k))
      BY <1>4 DEF DIGITS, IsDigit
    <3>2. (IsDigit(k) /\ digit(k)) \/ point
      BY <3>1 DEF key
    <3> QED BY <1>4, <3>1, <3>2 DEF key, digit, point, Remember
  <2> QED BY <2>1 DEF EntryInv
<1>5. CASE k \notin DIGITS \cup {".", "P", "E"}
  <2>1. UNCHANGED entryVars
    BY <1>5, JogPlant DEF key, IsDigit
  <2>2. op' = "none" /\ axisSet' = axisSet
    BY <1>5 DEF key, Remember, TypeInv
  <2>3. posMode = TRUE => typed' = typed
    BY <1>5 DEF key, Remember, IsDigit, EntryInv
  <2> QED BY <2>1, <2>2, <2>3, SameAgrees DEF EntryInv, entryVars
<1> QED BY <1>1, <1>2, <1>3, <1>4, <1>5 DEF TypeInv

LEMMA StepEntry == TypeInv /\ EntryInv /\ [Next]_vars => EntryInv'
<1> SUFFICES ASSUME TypeInv, EntryInv, [Next]_vars PROVE EntryInv'
  OBVIOUS
<1>1. ASSUME UNCHANGED <<history, entryVars, targets>> PROVE EntryInv'
  BY <1>1, SameAgrees, SameEntered DEF history, entryVars, EntryInv
<1>2. CASE Construct \/ Reset \/ Release \/ Crash \/ EndOfLine
  BY <1>1, <1>2 DEF Construct, Reset, Release, Crash, EndOfLine, plantVars
<1>3. CASE \E k \in KEYS : key(k)
  BY <1>3, KeyKeepsEntry
<1>4. CASE FeedLine \/ MetaTarget \/ MetaRun \/ close
  <2>1. op' = "none" /\ UNCHANGED <<typed, axisSet, entryVars>>
    BY <1>4 DEF FeedLine, MetaTarget, MetaRun, close, Prompt
  <2> QED BY <2>1, SameAgrees DEF EntryInv, entryVars
<1>5. CASE MetaAxis
  <2>1. op' = "none" /\ axisSet' = TRUE /\ UNCHANGED <<typed, posMode, seenDot, accum>>
    BY <1>5 DEF MetaAxis, Prompt
  <2> QED BY <2>1 DEF EntryInv, Agrees, LastNamed, HasDigit, Points, First, Behind
<1>6. CASE UNCHANGED vars
  BY <1>1, <1>6 DEF vars, plantVars
<1> QED BY <1>2, <1>3, <1>4, <1>5, <1>6 DEF Next, Meta

(* What ENT commits is the entry "P a . n E" as it was typed since the     *)
(* last P, over several lines, with jogs, other keys and abandoned entries *)
(* in between: the digits behind the first point, clamped, go to the last  *)
(* axis named before it.                                                   *)
THEOREM EntryIsCommitted == Spec => []CommitIsTheEntry
<1>1. Init => EntryInv
  BY DEF Init, EntryInv
<1>2. TypeInv /\ EntryInv => CommitIsTheEntry
  BY DEF EntryInv, Entered, HasDigit, LastNamed, CommitIsTheEntry, TypeInv
<1> QED BY <1>1, <1>2, StepEntry, TypeHolds, PTL DEF Spec
=============================================================================
