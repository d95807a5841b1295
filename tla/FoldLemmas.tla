----------------------------- MODULE FoldLemmas -----------------------------
(***************************************************************************)
(* Induction over the naturals for sets, and what it gives for sequences:  *)
(* how FoldLeft unfolds at the last element.  The steps of a fold are      *)
(* functions here, so that the lemmas quantify over them.                  *)
(***************************************************************************)
EXTENDS Integers, SequencesExt, SequenceTheorems, WellFoundedInduction, TLAPS

Less == OpToRel(<, Nat)

LEMMA LessIsLess == \A x, y \in Nat : <<x, y>> \in Less <=> x < y
BY DEF Less, OpToRel

(* A set of numbers that is not empty has a least element.                 *)
LEMMA LeastExists ==
  ASSUME NEW W, W \subseteq Nat, W # {}
  PROVE  \E x \in W : \A y \in W : x <= y
<1> DEFINE T == {n \in Nat : n \in W}
<1>1. IsWellFoundedOn(Less, Nat)
  BY NatLessThanWellFounded DEF Less
<1>2. T # {} /\ T \subseteq Nat /\ T = W
  OBVIOUS
<1> HIDE DEF T
<1>3. PICK x \in T : \A y \in T : <<y, x>> \notin Less
  BY <1>1, <1>2, WFMin
<1>4. ASSUME NEW y \in T PROVE x <= y
  <2>1. x \in Nat /\ y \in Nat
    BY <1>2
  <2>2. <<y, x>> \notin Less
    BY <1>3
  <2>3. ~(y < x)
    BY <2>1, <2>2, LessIsLess
  <2> QED BY <2>1, <2>3
<1> QED BY <1>2, <1>4

(* A set that holds 0 and with each number the next one holds all.         *)
LEMMA SetInduction ==
  ASSUME NEW S, 0 \in S, \A n \in Nat : n \in S => n + 1 \in S
  PROVE  Nat \subseteq S
<1> DEFINE T == {n \in Nat : n \notin S}
<1> SUFFICES ASSUME T # {} PROVE FALSE
  OBVIOUS
<1>1. PICK x \in T : \A y \in T : x <= y
  <2>1. T \in SUBSET Nat
    OBVIOUS
  <2> HIDE DEF T
  <2> QED BY <2>1, LeastExists
<1>2. x # 0 /\ x - 1 \in Nat
  OBVIOUS
<1>3. x - 1 \notin T
  BY <1>1, <1>2
<1> QED BY <1>2, <1>3

-----------------------------------------------------------------------------
(* The greatest element of a set of numbers.                               *)
LEMMA MaxIs ==
  ASSUME NEW t \in SUBSET Int, NEW m \in t, \A k \in t : k <= m
  PROVE  Max(t) = m
<1>1. \A k \in t : m >= k
  OBVIOUS
<1>2. /\ Max(t) \in t
      /\ \A k \in t : Max(t) >= k
  BY <1>1 DEF Max
<1> DEFINE x == Max(t)
<1>3. x \in t /\ x >= m /\ m >= x
  BY <1>2
<1> HIDE DEF x
<1>4. x = m
  BY <1>3
<1> QED BY <1>4 DEF x

LEMMA TopIsMax ==
  ASSUME NEW n \in Nat, NEW t \in SUBSET (1 .. n + 1), n + 1 \in t
  PROVE  Max(t) = n + 1 /\ t \ {n + 1} \in SUBSET (1 .. n)
<1>1. t \in SUBSET Int /\ \A k \in t : k <= n + 1
  OBVIOUS
<1> QED BY <1>1, MaxIs

LEMMA MaxIsIn ==
  ASSUME NEW n \in Nat, NEW t \in SUBSET (1 .. n), t # {}
  PROVE  Max(t) \in t
<1> DEFINE S == {k \in Nat : \A u \in SUBSET (1 .. k) : u # {} => Max(u) \in u}
<1>1. 0 \in S
  <2>1. \A u \in SUBSET (1 .. 0) : u = {}
    OBVIOUS
  <2> QED BY <2>1
<1>2. ASSUME NEW k \in Nat, k \in S PROVE k + 1 \in S
  <2> SUFFICES ASSUME NEW u \in SUBSET (1 .. k + 1), u # {} PROVE Max(u) \in u
    OBVIOUS
  <2>1. CASE k + 1 \in u
    BY <2>1, TopIsMax
  <2>2. CASE k + 1 \notin u
    <3>1. u \in SUBSET (1 .. k)
      BY <2>2
    <3> QED BY <1>2, <3>1
  <2> QED BY <2>1, <2>2
<1> HIDE DEF S
<1>3. n \in S
  BY <1>1, <1>2, SetInduction
<1> QED BY <1>3 DEF S

-----------------------------------------------------------------------------
(* FoldLeft recurs on the sets of indices: g solves the recursion on D.    *)
Fold(step, base, s) == FoldLeft(LAMBDA v, e : step[<<v, e>>], base, s)

Unfolded(g, step, base, s, t) ==
  IF t = {} THEN base ELSE step[<<g[t \ {Max(t)}], s[Max(t)]>>]
Solves(g, step, base, s, D) == g = [t \in SUBSET D |-> Unfolded(g, step, base, s, t)]

LEMMA FoldIsSolution ==
  ASSUME NEW step, NEW base, NEW s
  PROVE  Fold(step, base, s)
           = (CHOOSE g : Solves(g, step, base, s, DOMAIN s))[DOMAIN s]
BY DEF Fold, FoldLeft, MapThenFoldSet, Solves, Unfolded

LEMMA SolutionExists ==
  ASSUME NEW step, NEW base, NEW s, NEW n \in Nat
  PROVE  \E g : Solves(g, step, base, s, 1 .. n)
<1> DEFINE S == {k \in Nat : \E g : Solves(g, step, base, s, 1 .. k)}
<1>1. 0 \in S
  <2> DEFINE g == [t \in SUBSET (1 .. 0) |-> base]
  <2>1. \A t \in SUBSET (1 .. 0) : Unfolded(g, step, base, s, t) = base
    BY DEF Unfolded
  <2>2. Solves(g, step, base, s, 1 .. 0)
    BY <2>1 DEF Solves
  <2> QED BY <2>2
<1>2. ASSUME NEW k \in Nat, k \in S PROVE k + 1 \in S
  <2>1. PICK g : Solves(g, step, base, s, 1 .. k)
    BY <1>2
  <2> DEFINE h == [t \in SUBSET (1 .. k + 1) |->
                     IF k + 1 \in t THEN step[<<g[t \ {k + 1}], s[k + 1]>>] ELSE g[t]]
  <2>2. ASSUME NEW t \in SUBSET (1 .. k + 1)
        PROVE  h[t] = Unfolded(h, step, base, s, t)
    <3>1. CASE k + 1 \in t
      <4>1. Max(t) = k + 1 /\ t \ {k + 1} \in SUBSET (1 .. k)
        BY <3>1, TopIsMax
      <4>2. t \ {k + 1} \in SUBSET (1 .. k + 1) /\ k + 1 \notin t \ {k + 1}
        BY <4>1
      <4>3. h[t \ {k + 1}] = g[t \ {k + 1}]
        BY <4>2
      <4> HIDE DEF h
      <4>4. h[t] = step[<<g[t \ {k + 1}], s[k + 1]>>]
        BY <3>1 DEF h
      <4> QED BY <3>1, <4>1, <4>3, <4>4 DEF Unfolded
    <3>2. CASE k + 1 \notin t
      <4>1. t \in SUBSET (1 .. k)
        BY <3>2
      <4>2. g[t] = Unfolded(g, step, base, s, t)
        BY <2>1, <4>1 DEF Solves
      <4>3. t \ {Max(t)} \in SUBSET (1 .. k + 1) /\ k + 1 \notin t \ {Max(t)}
        BY <3>2
      <4>4. h[t \ {Max(t)}] = g[t \ {Max(t)}]
        BY <4>3
      <4>5. h[t] = g[t]
        BY <3>2
      <4> HIDE DEF h
      <4> QED BY <4>2, <4>4, <4>5 DEF Unfolded
    <3> QED BY <3>1, <3>2
  <2>3. Solves(h, step, base, s, 1 .. k + 1)
    <3>1. h = [t \in SUBSET (1 .. k + 1) |-> h[t]]
      OBVIOUS
    <3> HIDE DEF h
    <3> QED BY <2>2, <3>1 DEF Solves
  <2> HIDE DEF h
  <2> QED BY <2>3
<1> HIDE DEF S
<1>3. n \in S
  BY <1>1, <1>2, SetInduction
<1> QED BY <1>3 DEF S

(* Two solutions are the same where both are, also for two sequences that  *)
(* agree there.                                                            *)
LEMMA SolutionsAgree ==
  ASSUME NEW step, NEW base, NEW s, NEW r, NEW g, NEW h, NEW m \in Nat, NEW n \in Nat,
         Solves(g, step, base, s, 1 .. m), Solves(h, step, base, r, 1 .. n),
         NEW l \in Nat, l <= m, l <= n, \A i \in 1 .. l : s[i] = r[i]
  PROVE  \A t \in SUBSET (1 .. l) : g[t] = h[t]
<1> DEFINE S == {k \in Nat : k <= l => \A t \in SUBSET (1 .. k) : g[t] = h[t]}
<1>0. ASSUME NEW t \in SUBSET (1 .. l)
      PROVE  g[t] = Unfolded(g, step, base, s, t) /\ h[t] = Unfolded(h, step, base, r, t)
  <2>1. t \in SUBSET (1 .. m) /\ t \in SUBSET (1 .. n)
    OBVIOUS
  <2> QED BY <2>1 DEF Solves
<1>1. 0 \in S
  <2>1. \A t \in SUBSET (1 .. 0) : t = {} /\ t \in SUBSET (1 .. l)
    OBVIOUS
  <2> QED BY <1>0, <2>1 DEF Unfolded
<1>2. ASSUME NEW k \in Nat, k \in S PROVE k + 1 \in S
  <2> SUFFICES ASSUME k + 1 <= l, NEW t \in SUBSET (1 .. k + 1) PROVE g[t] = h[t]
    OBVIOUS
  <2>1. CASE k + 1 \in t
    <3>1. Max(t) = k + 1 /\ t \ {k + 1} \in SUBSET (1 .. k)
      BY <2>1, TopIsMax
    <3>2. g[t \ {k + 1}] = h[t \ {k + 1}]
      BY <1>2, <3>1
    <3>3. t \in SUBSET (1 .. l) /\ s[k + 1] = r[k + 1]
      OBVIOUS
    <3>4. Unfolded(g, step, base, s, t) = Unfolded(h, step, base, r, t)
      BY <2>1, <3>1, <3>2, <3>3 DEF Unfolded
    <3> QED BY <1>0, <3>3, <3>4
  <2>2. CASE k + 1 \notin t
    <3>1. t \in SUBSET (1 .. k)
      BY <2>2
    <3> QED BY <1>2, <3>1
  <2> QED BY <2>1, <2>2
<1> HIDE DEF S
<1>3. l \in S
  BY <1>1, <1>2, SetInduction
<1> QED BY <1>3 DEF S

LEMMA FoldSolved ==
  ASSUME NEW step, NEW base, NEW s, NEW n \in Nat, DOMAIN s = 1 .. n
  PROVE  \E g : /\ Solves(g, step, base, s, 1 .. n)
                /\ Fold(step, base, s) = g[1 .. n]
BY SolutionExists, FoldIsSolution

-----------------------------------------------------------------------------
(* What a fold is worth: nothing for no element, one step for the last.    *)
LEMMA FoldEmpty ==
  ASSUME NEW step, NEW base
  PROVE  Fold(step, base, <<>>) = base
<1>1. DOMAIN <<>> = 1 .. 0
  OBVIOUS
<1>2. PICK g : /\ Solves(g, step, base, <<>>, 1 .. 0)
               /\ Fold(step, base, <<>>) = g[1 .. 0]
  BY <1>1, FoldSolved
<1>3. 1 .. 0 = {} /\ 1 .. 0 \in SUBSET (1 .. 0)
  OBVIOUS
<1> QED BY <1>2, <1>3 DEF Solves, Unfolded

LEMMA FoldAppend ==
  ASSUME NEW T, NEW s \in Seq(T), NEW e \in T, NEW step, NEW base
  PROVE  Fold(step, base, Append(s, e)) = step[<<Fold(step, base, s), e>>]
<1> DEFINE n == Len(s)
           r == Append(s, e)
<1>1. /\ n \in Nat /\ DOMAIN s = 1 .. n /\ DOMAIN r = 1 .. n + 1
      /\ r[n + 1] = e /\ \A i \in 1 .. n : s[i] = r[i]
  OBVIOUS
<1> HIDE DEF n, r
<1>2. PICK g : Solves(g, step, base, s, 1 .. n) /\ Fold(step, base, s) = g[1 .. n]
  BY <1>1, FoldSolved
<1>3. PICK h : Solves(h, step, base, r, 1 .. n + 1)
               /\ Fold(step, base, r) = h[1 .. n + 1]
  BY <1>1, FoldSolved
<1>4. g[1 .. n] = h[1 .. n]
  <2>1. n <= n + 1 /\ n <= n /\ 1 .. n \in SUBSET (1 .. n) /\ n + 1 \in Nat
    BY <1>1
  <2> DEFINE m == n + 1
  <2>2. /\ m \in Nat /\ n \in Nat /\ n <= n /\ n <= m
        /\ Solves(g, step, base, s, 1 .. n) /\ Solves(h, step, base, r, 1 .. m)
        /\ \A i \in 1 .. n : s[i] = r[i]
    BY <1>1, <1>2, <1>3, <2>1
  <2> HIDE DEF m
  <2> DEFINE l == n
  <2>4. /\ l \in Nat /\ l <= n /\ l <= m /\ l = n
        /\ \A i \in 1 .. l : s[i] = r[i]
    BY <2>2
  <2> HIDE DEF l
  <2>5. \A t \in SUBSET (1 .. l) : g[t] = h[t]
    BY <2>2, <2>4, SolutionsAgree
  <2>3. \A t \in SUBSET (1 .. n) : g[t] = h[t]
    BY <2>4, <2>5
  <2> QED BY <2>1, <2>3
<1>5. Max(1 .. n + 1) = n + 1 /\ (1 .. n + 1) \ {n + 1} = 1 .. n
      /\ 1 .. n + 1 # {}
  <2>1. n + 1 \in 1 .. n + 1
    BY <1>1
  <2>2. Max(1 .. n + 1) = n + 1
    BY <1>1, <2>1, TopIsMax
  <2> QED BY <1>1, <2>1, <2>2
<1>6. h[1 .. n + 1] = step[<<h[1 .. n], r[n + 1]>>]
  <2>1. h[1 .. n + 1] = Unfolded(h, step, base, r, 1 .. n + 1)
    BY <1>3 DEF Solves
  <2> QED BY <1>5, <2>1 DEF Unfolded
<1> QED BY <1>1, <1>2, <1>3, <1>4, <1>6 DEF r

(* A fold stays in the set its step stays in.                              *)
LEMMA FoldType ==
  ASSUME NEW V, NEW T, NEW step, NEW base \in V, NEW s \in Seq(T),
         \A v \in V, e \in T : step[<<v, e>>] \in V
  PROVE  Fold(step, base, s) \in V
<1> DEFINE S == {k \in Nat : \A r \in Seq(T) : Len(r) = k => Fold(step, base, r) \in V}
<1>1. 0 \in S
  <2>1. \A r \in Seq(T) : Len(r) = 0 => r = <<>>
    OBVIOUS
  <2> QED BY <2>1, FoldEmpty
<1>2. ASSUME NEW k \in Nat, k \in S PROVE k + 1 \in S
  <2> SUFFICES ASSUME NEW r \in Seq(T), Len(r) = k + 1
               PROVE  Fold(step, base, r) \in V
    OBVIOUS
  <2>1. r # <<>>
    OBVIOUS
  <2>2. PICK q \in Seq(T), e \in T : r = Append(q, e)
    BY <2>1, SequenceEmptyOrAppend
  <2>3. Len(q) = k
    BY <2>2
  <2>4. Fold(step, base, q) \in V
    BY <1>2, <2>3
  <2> QED BY <2>2, <2>4, FoldAppend
<1> HIDE DEF S
<1>3. Len(s) \in S
  <2>1. Len(s) \in Nat
    BY LenProperties
  <2> QED BY <1>1, <1>2, <2>1, SetInduction
<1> QED BY <1>3 DEF S
=============================================================================
