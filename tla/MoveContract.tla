--------------------------- MODULE MoveContract ---------------------------
(***************************************************************************)
(* What a commanded move promises, without the interrupts, the slots and   *)
(* the ramp counters: the place an axis is held at goes to its goal in one *)
(* jump or step by step, never away from it, and the axis is released      *)
(* exactly there.  A move under way whose place another command replaces   *)
(* is "disturbed": it may wander, but it too is released only at its goal. *)
(***************************************************************************)
EXTENDS Integers

CONSTANTS Axis, MaxPos

VARIABLES
  goal,       \* where the last move command sends each axis
  place,      \* where each axis is held
  busy,       \* the axes with a move to do
  begun,      \* those of them that are under way
  disturbed   \* those under way whose place was replaced

contractVars == <<goal, place, busy, begun, disturbed>>

Place == 0 .. MaxPos

ContractInit ==
  /\ goal \in [Axis -> Place]
  /\ place \in [Axis -> Place]
  /\ busy = {} /\ begun = {} /\ disturbed = {}

(* Move commands for the axes in A.                                        *)
Ask(A) ==
  /\ goal' \in [Axis -> Place]
  /\ \A a \in Axis \ A : goal'[a] = goal[a]
  /\ busy' = busy \union A
  /\ begun' = begun \ A
  /\ disturbed' = disturbed \ A
  /\ UNCHANGED place

(* Position commands for the axes in A.                                    *)
Replace(A) ==
  /\ place' \in [Axis -> Place]
  /\ \A a \in Axis \ A : place'[a] = place[a]
  /\ disturbed' = disturbed \union (A \intersect begun)
  /\ UNCHANGED <<goal, busy, begun>>

Release(a) ==
  /\ busy' = busy \ {a}
  /\ begun' = begun \ {a}
  /\ disturbed' = disturbed \ {a}

(* An axis with a move to do sets out, or is there in one jump.            *)
SetOut(a) ==
  /\ a \in busy \ begun
  /\ begun' = begun \union {a}
  /\ UNCHANGED <<goal, place, busy, disturbed>>

Jump(a) ==
  /\ a \in busy \ begun
  /\ place' = [place EXCEPT ![a] = goal[a]]
  /\ Release(a)
  /\ UNCHANGED goal

(* The place of an axis under way goes to p, and releases it at the goal.  *)
GoTo(a, p) ==
  /\ place' = [place EXCEPT ![a] = p]
  /\ IF p = goal[a] THEN Release(a) ELSE UNCHANGED <<busy, begun, disturbed>>
  /\ UNCHANGED goal

Approach(a) ==
  /\ a \in begun \ disturbed
  /\ \/ place[a] < goal[a] /\ GoTo(a, place[a] + 1)
     \/ place[a] > goal[a] /\ GoTo(a, place[a] - 1)

Wander(a) ==
  /\ a \in disturbed
  /\ \E p \in Place : GoTo(a, p)

ContractNext ==
  \/ \E A \in SUBSET Axis : Ask(A) \/ Replace(A)
  \/ \E a \in Axis : SetOut(a) \/ Jump(a) \/ Approach(a) \/ Wander(a)

ContractSpec == ContractInit /\ [][ContractNext]_contractVars
=============================================================================
