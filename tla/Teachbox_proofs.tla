-------------------------- MODULE Teachbox_proofs --------------------------
(***************************************************************************)
(* Proofs about Teachbox, for every set of keys and chords, every width of *)
(* a byte and whatever frames leave in 0x6D; at the end, about CliKeypad.  *)
(***************************************************************************)
EXTENDS CliKeypad, FoldLemmas, FiniteSetTheorems

USE BytesAssumption, PaceAssumption

Jogs == {JogDown, JogUp}
Scanner == [last : Keys \cup (0 .. Top) \cup {Stop, Invalid},
            count : (0 .. Top) \cup (0 .. RepeatDelay) \cup (0 .. RepeatRate),
            b5 : BOOLEAN, b6 : BOOLEAN]
Editor == [es : SUBSET (1 .. 7), em : SUBSET (0 .. 7), r1 : 0 .. 8, r3 : Modes,
           r4 : 0 .. 8, acc : 0 .. Top]
Slots == [Axes -> 0 .. Top]

TypeInv ==
  /\ held \in SUBSET Keys /\ event \in BOOLEAN
  /\ kb \in Scanner /\ ed \in Editor /\ slot \in Slots
  /\ code \in Keys \cup {0, Stop} /\ prev \in Keys \cup {0, Invalid}
  /\ since \in 0 .. RepeatRate
  /\ latest \in {"up", "down", "other", "let_go", "idle"}

-----------------------------------------------------------------------------
(* Keys.                                                                   *)
LEMMA KeysAreNumbers == Keys \in SUBSET (1 .. 19)
<1>1. Keys \subseteq Digits \cup {Dot, JogDown, JogUp, Ent, Clr, Pos}
  BY KeysAssumption
<1> QED BY <1>1 DEF Digits, Dot, JogDown, JogUp, Ent, Clr, Pos

LEMMA HeldIsFinite == TypeInv => IsFiniteSet(held)
<1>1. IsFiniteSet(1 .. 19)
  <2>1. 1 \in Int /\ 19 \in Int
    OBVIOUS
  <2> QED BY <2>1, FS_Interval, Zenon
<1>2. TypeInv => held \in SUBSET (1 .. 19)
  BY KeysAreNumbers DEF TypeInv
<1> QED BY <1>1, <1>2, FS_Subset

(* The matrix gives the index of the only key that is down, or none.       *)
LEMMA OnlyKey ==
  ASSUME TypeInv
  PROVE  /\ held = {} => Only = 0
         /\ \A k \in Keys : held = {k} => Only = k
         /\ Cardinality(held) > 1 => held # {} /\ \A k : held # {k}
         /\ ~(Cardinality(held) > 1) => held = {} \/ \E k \in Keys : held = {k}
<1>1. held = {} => Only = 0
  BY FS_EmptySet DEF Only
<1>2. ASSUME NEW k \in Keys, held = {k}
      PROVE  Only = k
  BY <1>2, FS_Singleton DEF Only
<1>3. Cardinality(held) > 1 => held # {} /\ \A k : held # {k}
  <2>1. held = {} => Cardinality(held) = 0
    BY FS_EmptySet
  <2>2. \A k : held = {k} => Cardinality(held) = 1
    BY FS_Singleton
  <2> QED BY <2>1, <2>2
<1>4. ASSUME ~(Cardinality(held) > 1)
      PROVE  held = {} \/ \E k \in Keys : held = {k}
  <2>1. IsFiniteSet(held)
    BY HeldIsFinite
  <2>2. Cardinality(held) \in Nat
    BY <2>1, FS_CardinalityType
  <2>3. Cardinality(held) = 0 \/ Cardinality(held) = 1
    BY <1>4, <2>2
  <2>4. held = {} \/ \E k : held = {k}
    BY <2>1, <2>3, FS_EmptySet, FS_Singleton
  <2> QED BY <2>4 DEF TypeInv
<1> QED BY <1>1, <1>2, <1>3, <1>4

-----------------------------------------------------------------------------
(* What one scan does, by what it finds.                                   *)
Finds(n) == /\ ~event /\ n = Only
            /\ \/ n = 0 /\ held = {}
               \/ n \in Keys /\ held = {n}

EventScan(s) == event /\ s.code = Stop
                /\ s.kb = [kb EXCEPT !.last = Stop, !.b6 = FALSE]
ChordScan(s) == /\ ~event /\ held # {} /\ \A k : held # {k}
                /\ Cardinality(held) > 1
                /\ s.code = 0 /\ s.kb = [kb EXCEPT !.last = Invalid]
ChangeScan(s, n) == /\ Finds(n) /\ n # kb.last /\ s.code = 0
                    /\ s.kb = [kb EXCEPT !.last = n, !.b5 = FALSE, !.count = RepeatDelay]
ReleaseScan(s, n) == /\ Finds(n) /\ n = kb.last /\ n = 0 /\ s.code = 0
                     /\ s.kb = [kb EXCEPT !.b6 = TRUE]
WaitScan(s, n) == /\ Finds(n) /\ n = kb.last /\ n # 0 /\ kb.b6 = FALSE /\ s.code = 0
                  /\ s.kb = kb
AcceptScan(s, n) == /\ Finds(n) /\ n = kb.last /\ n # 0 /\ kb.b6 = TRUE /\ kb.b5 = FALSE
                    /\ s.code = n /\ s.kb = [kb EXCEPT !.b6 = FALSE]
RepeatScan(s, n) ==
  /\ Finds(n) /\ n = kb.last /\ n # 0 /\ kb.b6 = TRUE /\ kb.b5 = TRUE
  /\ \/ /\ Fewer(kb.count) = 0
        /\ s.code = n /\ s.kb = [kb EXCEPT !.count = RepeatRate]
     \/ /\ Fewer(kb.count) # 0
        /\ s.code = 0 /\ s.kb = [kb EXCEPT !.count = Fewer(kb.count)]
KeyScan(s, n) == \/ ChangeScan(s, n) \/ ReleaseScan(s, n) \/ WaitScan(s, n)
                 \/ AcceptScan(s, n) \/ RepeatScan(s, n)

LEMMA ScanCases ==
  ASSUME TypeInv
  PROVE  \/ EventScan(kbd_scan) \/ ChordScan(kbd_scan)
         \/ \E n \in Keys \cup {0} : KeyScan(kbd_scan, n)
<1>0. kb \in Scanner /\ event \in BOOLEAN
  BY DEF TypeInv
<1>9. Cardinality(held) \in Nat
  BY HeldIsFinite, FS_CardinalityType
<1>1. CASE event = TRUE
  BY <1>1 DEF kbd_scan, kbd_evt, Scan, EventScan
<1>2. CASE event = FALSE /\ Cardinality(held) > 1
  <2>1. kbd_scan = kbd_new
    BY <1>9, <1>2 DEF kbd_scan
  <2> QED BY <1>2, <2>1, OnlyKey DEF kbd_new, Scan, ChordScan
<1>3. CASE event = FALSE /\ ~(Cardinality(held) > 1)
  <2>1. PICK n \in Keys \cup {0} : Finds(n)
    <3>1. CASE held = {}
      <4>1. Only = 0
        BY <3>1, OnlyKey
      <4> QED BY <1>3, <3>1, <4>1 DEF Finds
    <3>2. ASSUME NEW k \in Keys, held = {k}
          PROVE  \E n \in Keys \cup {0} : Finds(n)
      <4>1. Only = k
        BY <3>2, OnlyKey
      <4>2. Finds(k)
        BY <1>3, <3>2, <4>1 DEF Finds
      <4> QED BY <4>2
    <3> QED BY <1>3, <3>1, <3>2, OnlyKey
  <2>2. kbd_scan = debounce(n)
    <3>1. Cardinality(held) <= 1
      BY <1>3, <1>9
    <3> QED BY <1>3, <2>1, <3>1 DEF kbd_scan, Finds
  <2>3. n \in Nat
    BY KeysAreNumbers
  <2>4. CASE n # kb.last
    BY <2>1, <2>2, <2>4 DEF debounce, key_changed, Scan, KeyScan, ChangeScan
  <2>5. CASE n = kb.last /\ n = 0
    BY <2>1, <2>2, <2>5 DEF debounce, key_release, Scan, KeyScan, ReleaseScan
  <2>6. CASE n = kb.last /\ n # 0 /\ kb.b6 = FALSE
    BY <2>1, <2>2, <2>6 DEF debounce, Scan, KeyScan, WaitScan
  <2>7. CASE n = kb.last /\ n # 0 /\ kb.b6 = TRUE /\ kb.b5 = FALSE
    BY <2>1, <2>2, <2>7 DEF debounce, accept, Scan, KeyScan, AcceptScan
  <2>8. CASE n = kb.last /\ n # 0 /\ kb.b6 = TRUE /\ kb.b5 = TRUE
    <3>1. kbd_scan = repeat(n)
      BY <2>2, <2>8 DEF debounce
    <3> QED BY <2>1, <2>8, <3>1 DEF repeat, Scan, KeyScan, RepeatScan
  <2>9. kb.b5 \in BOOLEAN /\ kb.b6 \in BOOLEAN
    BY <1>0 DEF Scanner
  <2> QED BY <2>4, <2>5, <2>6, <2>7, <2>8, <2>9
<1> QED BY <1>0, <1>1, <1>2, <1>3

LEMMA ScanType ==
  TypeInv => kbd_scan.kb \in Scanner /\ kbd_scan.code \in Keys \cup {0, Stop}
<1> SUFFICES ASSUME TypeInv
             PROVE  kbd_scan.kb \in Scanner /\ kbd_scan.code \in Keys \cup {0, Stop}
  OBVIOUS
<1>1. kb \in Scanner
  BY DEF TypeInv
<1>2. RepeatDelay \in 0 .. RepeatDelay /\ RepeatRate \in 0 .. RepeatRate
  OBVIOUS
<1>3. Fewer(kb.count) \in (0 .. Top) \cup (0 .. RepeatDelay) \cup (0 .. RepeatRate)
  <2>1. kb.count \in (0 .. Top) \cup (0 .. RepeatDelay) \cup (0 .. RepeatRate)
    BY <1>1 DEF Scanner
  <2> QED BY <2>1 DEF Fewer
<1>4. CASE EventScan(kbd_scan) \/ ChordScan(kbd_scan)
  BY <1>1, <1>4 DEF EventScan, ChordScan, Scanner
<1>5. ASSUME NEW n \in Keys \cup {0}, KeyScan(kbd_scan, n)
      PROVE  kbd_scan.kb \in Scanner /\ kbd_scan.code \in Keys \cup {0, Stop}
  <2>1. n \in Keys \cup (0 .. Top) \cup {Stop, Invalid}
    OBVIOUS
  <2> QED BY <1>1, <1>2, <1>3, <1>5, <2>1
     DEF KeyScan, ChangeScan, ReleaseScan, WaitScan, AcceptScan, RepeatScan, Scanner
<1> QED BY <1>4, <1>5, ScanCases
-----------------------------------------------------------------------------
(* What the editor does with a code: it jogs while an axis is selected by  *)
(* itself, and what it writes to the scanner's bytes leaves the two bits.  *)
Jogging == {5, 7} \subseteq ed.es /\ 6 \in ed.em

LEMMA JogIsJog ==
  ASSUME TypeInv, NEW c \in Jogs, NEW k \in Scanner, Jogging, kbd_handle(c, k)
  PROVE  op' = "jog"
<1>1. c \notin {Clr, Dot, Ent, Pos, Stop} /\ c \notin Digits
  BY DEF Jogs, JogDown, JogUp, Clr, Dot, Ent, Pos, Stop, Digits
<1>2. Busy /\ ~InError
  BY DEF Jogging, Busy, InError
<1>3. JogKey(c, k)
  BY <1>1, <1>2 DEF kbd_handle, Jogs
<1>4. kh_jog(c, k)
  BY <1>3 DEF JogKey, Jogging
<1> QED BY <1>4 DEF kh_jog, Edit

(* Most handlers change the editor only, and none of these is a jog.       *)
Sound == ed' \in Editor /\ slot' = slot /\ op' # "jog"

LEMMA BlankType == Blank \in Editor
<1>1. {} \in SUBSET (1 .. 7) /\ {} \in SUBSET (0 .. 7) /\ 0 \in 0 .. 8 /\ 0 \in 0 .. Top
  OBVIOUS
<1> QED BY <1>1 DEF Blank, Editor, Modes

LEMMA BlankFields ==
  /\ [Blank EXCEPT !.es = {6}] \in Editor
  /\ \A r \in 0 .. 8 : [Blank EXCEPT !.r4 = r] \in Editor
<1>1. {6} \in SUBSET (1 .. 7)
  OBVIOUS
<1> QED BY <1>1, BlankType DEF Editor

LEMMA ErrorSound == Error => Sound
BY BlankFields DEF Error, Edit, Sound

LEMMA DigitType == \A c \in Digits : Digit(c) \in 0 .. 9 /\ Digit(c) \in 0 .. Top
BY DEF Digits, Digit

LEMMA EditorFields ==
  ASSUME TypeInv
  PROVE  /\ ed \in Editor /\ ed.es \in SUBSET (1 .. 7) /\ ed.em \in SUBSET (0 .. 7)
         /\ ed.acc \in 0 .. Top /\ ed.r4 \in 0 .. 8 /\ ed.r3 \in Modes
BY DEF TypeInv, Editor

LEMMA SelectSound ==
  ASSUME TypeInv, NEW c \in Digits, SelectAxis(c)
  PROVE  Sound
<1>1. CASE Digit(c) - 1 \in Axes
  <2>1. Digit(c) \in 0 .. 8
    BY <1>1, DigitType DEF Axes
  <2>2. {6} \in SUBSET (0 .. 7) /\ ed.es \cup {5, 7} \in SUBSET (1 .. 7)
    BY EditorFields
  <2> QED BY <1>1, <2>1, <2>2 DEF SelectAxis, Edit, Sound, TypeInv, Editor
<1>2. CASE Digit(c) - 1 \notin Axes
  BY <1>2, ErrorSound DEF SelectAxis
<1> QED BY <1>1, <1>2

LEMMA EnterSound ==
  ASSUME TypeInv, NEW mode \in Modes, NEW bits \in SUBSET (0 .. 7), Enter(mode, bits)
  PROVE  Sound
<1>1. ed.es \cup {7} \in SUBSET (1 .. 7)
  BY EditorFields
<1> QED BY <1>1 DEF Enter, Edit, Sound, TypeInv, Editor

LEMMA BeginSound ==
  ASSUME TypeInv, NEW c, Begin(c)
  PROVE  Sound
<1>1. CASE c \in Digits /\ SelectAxis(c)
  BY <1>1, SelectSound
<1>2. CASE \/ Enter("NOP", {5}) \/ Enter("POS_ALL", {0, 1, 3, 5})
           \/ Enter("STOP", {4, 5, 7})
  <2>1. /\ {5} \in SUBSET (0 .. 7) /\ {0, 1, 3, 5} \in SUBSET (0 .. 7)
        /\ {4, 5, 7} \in SUBSET (0 .. 7)
    OBVIOUS
  <2>2. "NOP" \in Modes /\ "POS_ALL" \in Modes /\ "STOP" \in Modes
    BY DEF Modes
  <2> QED BY <1>2, <2>1, <2>2, EnterSound
<1> QED BY <1>1, <1>2, ErrorSound DEF Begin

LEMMA CompletedType == \A em \in SUBSET (0 .. 7) : Completed(em) \in SUBSET (0 .. 7)
BY DEF Completed

LEMMA NumberSound ==
  ASSUME TypeInv, NEW c \in Digits, NumberKey(c)
  PROVE  Sound
<1>0. /\ ed \in Editor /\ Digit(c) \in 0 .. 9 /\ Digit(c) \in 0 .. Top
      /\ ed.em \in SUBSET (0 .. 7) /\ ed.es \in SUBSET (1 .. 7) /\ ed.acc \in 0 .. Top
  BY DigitType, EditorFields
<1>2. ASSUME pos_digit(c) PROVE Sound
  <2>1. CASE 10 * ed.acc + Digit(c) <= Top
    <3>1. 10 * ed.acc + Digit(c) \in 0 .. Top
      BY <1>0, <2>1
    <3> QED BY <1>0, <1>2, <2>1, <3>1 DEF pos_digit, Edit, Sound, Editor
  <2>2. CASE ~(10 * ed.acc + Digit(c) <= Top)
    BY <1>2, <2>2, ErrorSound DEF pos_digit
  <2> QED BY <2>1, <2>2
<1>3. ASSUME FirstDigit(c) PROVE Sound
  <2>1. PICK bits \in SUBSET (0 .. 7), more \in SUBSET (1 .. 7) :
          /\ ed' = [ed EXCEPT !.acc = Digit(c), !.es = ed.es \cup more,
                              !.em = Completed(bits)]
          /\ op' = "digit" /\ slot' = slot
    <3>1. /\ ed.em \ {3, 4} \in SUBSET (0 .. 7) /\ {2} \in SUBSET (1 .. 7)
          /\ {1, 2} \in SUBSET (1 .. 7)
      BY <1>0
    <3> QED BY <1>0, <1>3, <3>1 DEF FirstDigit, FirstNumber, Edit
  <2>2. Completed(bits) \in SUBSET (0 .. 7) /\ ed.es \cup more \in SUBSET (1 .. 7)
    BY <1>0, CompletedType
  <2> QED BY <1>0, <2>1, <2>2 DEF Sound, Editor
<1>4. ASSUME TypedAxis(c) PROVE Sound
  <2>1. CASE Digit(c) \in 1 .. 8
    <3>1. /\ Completed(ed.em \ {3}) \in SUBSET (0 .. 7) /\ Top \in 0 .. Top
          /\ ed.es \cup {2} \in SUBSET (1 .. 7) /\ Digit(c) \in 0 .. 8
      BY <1>0, <2>1, CompletedType
    <3> QED BY <1>0, <1>4, <2>1, <3>1 DEF TypedAxis, Edit, Sound, Editor
  <2>2. CASE Digit(c) \notin 1 .. 8
    BY <1>4, <2>2, ErrorSound DEF TypedAxis
  <2> QED BY <2>1, <2>2
<1> QED BY <1>2, <1>3, <1>4, SelectSound, ErrorSound DEF NumberKey

LEMMA DotSound ==
  ASSUME TypeInv, DotKey
  PROVE  Sound
<1>1. CASE 7 \in ed.em
  <2>1. PICK bits \in SUBSET (0 .. 7) :
          /\ ed' = [ed EXCEPT !.es = ed.es \ {1}, !.r3 = OtherForm(ed.r3), !.em = bits]
          /\ op' = "dot" /\ slot' = slot
    <3>1. {4} \in SUBSET (0 .. 7) /\ {4, 5} \in SUBSET (0 .. 7)
      OBVIOUS
    <3> QED BY <1>1, <3>1 DEF DotKey, Edit
  <2>2. ed.es \ {1} \in SUBSET (1 .. 7) /\ OtherForm(ed.r3) \in Modes
    BY DEF TypeInv, Editor, OtherForm, Modes
  <2> QED BY <2>1, <2>2 DEF Sound, TypeInv, Editor
<1>2. CASE 7 \notin ed.em
  BY <1>2, ErrorSound DEF DotKey
<1> QED BY <1>1, <1>2

LEMMA CommitType ==
  ASSUME TypeInv, NEW k \in Scanner, pos_commit(k)
  PROVE  /\ ed' \in Editor /\ slot' \in Slots /\ op' # "jog"
         /\ kb' \in Scanner /\ kb'.b5 = k.b5 /\ kb'.b6 = k.b6
<1>1. ed' \in Editor /\ op' # "jog"
  BY BlankFields, EditorFields DEF pos_commit, Edit, Cleared
<1>2. slot' \in Slots
  BY EditorFields DEF pos_commit, TypeInv, Slots
<1>3. \/ kb' = [k EXCEPT !.last = ed.acc]
      \/ kb' = [k EXCEPT !.count = ed.acc]
      \/ kb' = k
  BY EditorFields DEF pos_commit, KeepScan
<1> QED BY <1>1, <1>2, <1>3, EditorFields DEF Scanner

(* The two outcomes of the editor: a jog step, and anything else.          *)
Jogged(c, k) ==
  /\ op' = "jog" /\ c \in Jogs /\ Jogging /\ ed' = ed /\ slot' \in Slots
  /\ kb' = [k EXCEPT !.b5 = TRUE, !.b6 = TRUE]
Edited(c, k) ==
  /\ op' # "jog" /\ ed' \in Editor /\ slot' \in Slots
  /\ kb' \in Scanner /\ kb'.b5 = k.b5 /\ kb'.b6 = k.b6
  /\ c # Ent => kb' = k

LEMMA JogOutcome ==
  ASSUME TypeInv, NEW c \in Jogs, NEW k \in Scanner, Busy, kh_jog(c, k),
         6 \in ed.em, 5 \in ed.es
  PROVE  Jogged(c, k)
<1>1. \A v \in 0 .. Top : Step(v, c) \in 0 .. Top
  BY DEF Step
<1>2. slot' \in Slots
  BY <1>1 DEF kh_jog, TypeInv, Slots
<1> QED BY <1>2 DEF kh_jog, Edit, KeepScan, Jogged, Jogging, Busy

LEMMA EditorOutcome ==
  ASSUME TypeInv, NEW c, NEW k \in Scanner, kbd_handle(c, k)
  PROVE  Jogged(c, k) \/ Edited(c, k)
<1>1. ASSUME Sound, KeepScan(k) PROVE Edited(c, k)
  BY <1>1 DEF Sound, KeepScan, Edited, TypeInv
<1>2. CASE c = Clr /\ Edit("clear", Cleared) /\ UNCHANGED slot /\ KeepScan(k)
  BY <1>1, <1>2, BlankType DEF Edit, Cleared, Sound
<1>3. CASE Edit("ignored", ed) /\ UNCHANGED slot /\ KeepScan(k)
  BY <1>1, <1>3 DEF Edit, Sound, TypeInv
<1>4. CASE Begin(c) /\ KeepScan(k)
  BY <1>1, <1>4, BeginSound
<1>5. CASE c \in Digits /\ NumberKey(c) /\ KeepScan(k)
  BY <1>1, <1>5, NumberSound
<1>6. CASE DotKey /\ KeepScan(k)
  BY <1>1, <1>6, DotSound
<1>7. CASE c = Ent /\ EntKey(k)
  <2>1. CASE Error /\ KeepScan(k)
    BY <1>1, <2>1, ErrorSound
  <2>2. CASE pos_commit(k)
    BY <1>7, <2>2, CommitType DEF Edited
  <2>3. CASE StopEntered /\ KeepScan(k)
    <3>1. ed.es \cup {4} \in SUBSET (1 .. 7) /\ {6} \in SUBSET (0 .. 7)
      BY EditorFields
    <3>2. [ed EXCEPT !.es = ed.es \cup {4}, !.em = {6}] \in Editor
      BY <3>1, EditorFields DEF Editor
    <3>3. Sound
      BY <2>3, <3>2, BlankType DEF StopEntered, Edit, Cleared, Sound
    <3> QED BY <1>1, <2>3, <3>3
  <2>4. CASE Edit("store", Cleared) /\ UNCHANGED slot /\ KeepScan(k)
    BY <1>1, <2>4, BlankType DEF Edit, Cleared, Sound
  <2> QED BY <1>7, <2>1, <2>2, <2>3, <2>4 DEF EntKey
<1>8. CASE c \in {JogDown, JogUp} /\ Busy /\ JogKey(c, k)
  <2>1. CASE Error /\ KeepScan(k)
    BY <1>1, <2>1, ErrorSound
  <2>2. CASE 6 \in ed.em /\ 5 \in ed.es /\ kh_jog(c, k)
    BY <1>8, <2>2, JogOutcome DEF Jogs
  <2>3. CASE Edit("browse", ed) /\ UNCHANGED slot /\ KeepScan(k)
    BY <1>1, <2>3 DEF Edit, Sound, TypeInv
  <2> QED BY <1>8, <2>1, <2>2, <2>3 DEF JogKey
<1>9. CASE Error /\ KeepScan(k)
  BY <1>1, <1>9, ErrorSound
<1> QED BY <1>2, <1>3, <1>4, <1>5, <1>6, <1>7, <1>8, <1>9 DEF kbd_handle

-----------------------------------------------------------------------------
(* Type correctness.                                                       *)
LEMMA InitType == Init => TypeInv
<1> SUFFICES ASSUME Init PROVE TypeInv
  OBVIOUS
<1>1. kb \in Scanner
  BY DEF Init, Scanner
<1>2. ed \in Editor
  BY BlankType DEF Init, Blank
<1>3. slot \in Slots
  BY DEF Init, Slots
<1> QED BY <1>1, <1>2, <1>3 DEF Init, TypeInv

(* A poll takes the new scanner and the code; with a code the editor runs. *)
LEMMA PollFacts ==
  ASSUME TypeInv, tb_poll
  PROVE  /\ code' = kbd_scan.code /\ kbd_scan.kb \in Scanner
         /\ kbd_scan.code \in Keys \cup {0, Stop}
         /\ \/ kbd_scan.code = 0 /\ kb' = kbd_scan.kb /\ ed' = ed /\ slot' = slot
                                 /\ op' = "none"
            \/ /\ kbd_scan.code # 0
               /\ \/ Jogged(kbd_scan.code, kbd_scan.kb)
                  \/ Edited(kbd_scan.code, kbd_scan.kb)
         /\ Look(kbd_scan.code) /\ held' = held
<1>1. kbd_scan.kb \in Scanner /\ kbd_scan.code \in Keys \cup {0, Stop}
  BY ScanType
<1>2. Look(kbd_scan.code) /\ held' = held
  BY DEF tb_poll
<1>3. CASE kbd_scan.code = 0
  BY <1>1, <1>2, <1>3 DEF tb_poll, Look
<1>4. CASE kbd_scan.code # 0
  <2>1. kbd_handle(kbd_scan.code, kbd_scan.kb)
    BY <1>4 DEF tb_poll
  <2> QED BY <1>1, <1>2, <1>4, <2>1, EditorOutcome DEF Look
<1> QED BY <1>3, <1>4

LEMMA PollType == TypeInv /\ tb_poll => TypeInv'
<1> SUFFICES ASSUME TypeInv, tb_poll PROVE TypeInv'
  OBVIOUS
<1>1. ed' \in Editor /\ slot' \in Slots
  BY PollFacts DEF TypeInv, Jogged, Edited
<1>2. kb' \in Scanner
  <2>1. \A k \in Scanner : [k EXCEPT !.b5 = TRUE, !.b6 = TRUE] \in Scanner
    BY DEF Scanner
  <2> QED BY <2>1, PollFacts DEF Jogged, Edited
<1>3. code' \in Keys \cup {0, Stop} /\ held' \in SUBSET Keys /\ event' \in BOOLEAN
  BY PollFacts DEF TypeInv, Look
<1>4. prev' \in Keys \cup {0, Invalid}
  <2>1. Only \in Keys \cup {0} \/ Cardinality(held) > 1
    BY OnlyKey
  <2> QED BY <2>1, PollFacts DEF Look
<1>5. since' \in 0 .. RepeatRate
  <2>1. since' = IF kbd_scan.code # 0 THEN 0
                ELSE IF since < RepeatRate THEN since + 1 ELSE since
    BY PollFacts DEF Look
  <2>2. since \in 0 .. RepeatRate
    BY DEF TypeInv
  <2> QED BY <2>1, <2>2
<1>6. latest' \in {"up", "down", "other", "let_go", "idle"}
  BY PollFacts DEF Look, Kind, TypeInv
<1> QED BY <1>1, <1>2, <1>3, <1>4, <1>5, <1>6 DEF TypeInv

LEMMA OtherType ==
  TypeInv /\ (Hands \/ EmergencyOver \/ SerialFrame \/ UNCHANGED vars) => TypeInv'
<1>1. TypeInv /\ Hands => TypeInv'
  <2> SUFFICES ASSUME TypeInv, Hands PROVE TypeInv'
    OBVIOUS
  <2>1. held' \in SUBSET Keys
    BY KeysAssumption DEF Hands
  <2> QED BY <2>1 DEF TypeInv, Hands, Between
<1>2. TypeInv /\ EmergencyOver => TypeInv'
  BY DEF TypeInv, EmergencyOver, Between
<1>3. TypeInv /\ SerialFrame => TypeInv'
  <2> SUFFICES ASSUME TypeInv, SerialFrame PROVE TypeInv'
    OBVIOUS
  <2>1. PICK v \in Foreign : ed' = [ed EXCEPT !.acc = v]
    BY DEF SerialFrame
  <2>2. v \in 0 .. Top
    OBVIOUS
  <2>3. ed' \in Editor
    BY <2>1, <2>2 DEF TypeInv, Editor
  <2> QED BY <2>3 DEF TypeInv, SerialFrame, Between
<1>4. TypeInv /\ UNCHANGED vars => TypeInv'
  BY DEF TypeInv, vars, scanVars, editVars
<1> QED BY <1>1, <1>2, <1>3, <1>4

LEMMA StepType == TypeInv /\ [Next]_vars => TypeInv'
BY PollType, OtherType DEF Next

LEMMA TypeIsType == TypeInv => TeachboxTypeOK
BY DEF TypeInv, TeachboxTypeOK, Scanner, Editor, Slots

(* Scanner and editor keep their types whatever is pressed and received.   *)
THEOREM TeachboxTypeCorrect == Spec => []TeachboxTypeOK
<1>1. Spec => []TypeInv
  BY InitType, StepType, PTL DEF Spec
<1> QED BY <1>1, TypeIsType, PTL

-----------------------------------------------------------------------------
(* What the two bits of the scanner promise.  b6: since the last code a    *)
(* poll found no key, or the code was a jog step; b5: the key in 0x56 is a *)
(* jog key and the editor is in the middle of jogging with it, the count   *)
(* holding what is left of the pause.                                      *)
Repeating == kb.b5 = TRUE /\ kb.b6 = TRUE /\ kb.last \in Jogs
LastJog(k) == \/ latest = "up" /\ k = JogUp
              \/ latest = "down" /\ k = JogDown

BitsInv ==
  /\ kb.b6 = TRUE => kb.last = prev /\ latest # "other"
  /\ kb.b5 = TRUE /\ kb.last \notin {Invalid, Stop} => kb.last \in Jogs
  /\ Repeating => Jogging
  /\ prev = 0 => kb.last = 0
  /\ latest = "idle" => kb.b6 = TRUE /\ kb.b5 = FALSE
PaceInv ==
  /\ kb.b6 = TRUE /\ kb.b5 = FALSE /\ kb.last \in Keys => kb.count = RepeatDelay
  /\ Repeating => /\ kb.count >= 1
                  /\ since = RepeatRate \/ kb.count + since >= RepeatRate
  /\ kb.b6 = TRUE /\ latest \in {"up", "down"} =>
       \/ since >= 2 \/ since = RepeatRate
       \/ since >= 1 /\ ~LastJog(kb.last)
       \/ kb.b5 = TRUE /\ LastJog(kb.last)
IInv == TypeInv /\ BitsInv /\ PaceInv

LEMMA InitInv == Init => IInv
<1>1. Init => BitsInv /\ PaceInv
  BY DEF Init, BitsInv, PaceInv, Repeating, Jogs, JogUp, JogDown
<1> QED BY <1>1, InitType DEF IInv

LEMMA OtherInv ==
  ASSUME IInv, Hands \/ EmergencyOver \/ SerialFrame \/ UNCHANGED vars
  PROVE  IInv'
<1>1. TypeInv'
  BY OtherType DEF IInv
<1>2. UNCHANGED <<kb, prev, since, latest>>
  BY DEF Hands, EmergencyOver, SerialFrame, Between, vars, scanVars, editVars
<1>3. ed'.es = ed.es /\ ed'.em = ed.em
  BY DEF IInv, TypeInv, Editor, Hands, EmergencyOver, SerialFrame, vars, editVars
<1>4. Jogging' <=> Jogging
  BY <1>3 DEF Jogging
<1>5. BitsInv'
  BY <1>2, <1>4 DEF IInv, BitsInv, Repeating
<1>6. PaceInv'
  BY <1>2 DEF IInv, PaceInv, Repeating, LastJog
<1> QED BY <1>1, <1>5, <1>6 DEF IInv

(* A poll, by what the scan did.                                           *)
After(c, p) ==
  /\ prev' = p
  /\ since' = IF c # 0 THEN 0 ELSE IF since < RepeatRate THEN since + 1 ELSE since
  /\ c # 0 => latest' = Kind(c)
  /\ c = 0 /\ held # {} => latest' = latest
  /\ c = 0 /\ held = {} => latest' = IF prev = 0 THEN "idle" ELSE "let_go"

LEMMA PollAfter ==
  ASSUME TypeInv, tb_poll
  PROVE  /\ event = TRUE => After(kbd_scan.code, Invalid)
         /\ held # {} /\ (\A k : held # {k}) /\ Cardinality(held) > 1 =>
              After(kbd_scan.code, Invalid)
         /\ \A n \in Keys \cup {0} : Finds(n) => After(kbd_scan.code, n)
<1>1. Look(kbd_scan.code) /\ event \in BOOLEAN
  BY PollFacts DEF TypeInv
<1>2. ASSUME NEW n \in Keys \cup {0}, Finds(n)
      PROVE  ~(Cardinality(held) > 1)
  BY <1>2, OnlyKey DEF Finds
<1> QED BY <1>1, <1>2 DEF Look, After, Finds

LEMMA Numbers ==
  /\ \A k \in Keys : k \in 1 .. 19 /\ k # 0 /\ k # Invalid /\ k # Stop
  /\ 0 # Invalid /\ 0 # Stop /\ Stop \notin Jogs /\ Invalid \notin Jogs /\ 0 \notin Jogs
  /\ Invalid \notin Keys /\ Stop \notin Keys /\ 0 \notin Keys /\ Stop # Ent /\ Stop # 0
BY KeysAreNumbers DEF Invalid, Stop, Jogs, JogDown, JogUp, Ent

LEMMA EventInv ==
  ASSUME IInv, tb_poll, EventScan(kbd_scan)
  PROVE  BitsInv' /\ PaceInv'
<1>1. After(Stop, Invalid) /\ ~Jogged(Stop, kbd_scan.kb)
  BY PollAfter, Numbers DEF IInv, EventScan, Jogged, TypeInv
<1>2. Edited(Stop, kbd_scan.kb)
  BY <1>1, PollFacts, Numbers DEF IInv, EventScan
<1>3. kb' = [kb EXCEPT !.last = Stop, !.b6 = FALSE] /\ op' # "jog"
  BY <1>2, Numbers DEF Edited, EventScan
<1>4. kb'.last = Stop /\ kb'.b6 = FALSE
  BY <1>3 DEF IInv, TypeInv, Scanner
<1>5. latest' = "other" /\ prev' = Invalid
  BY <1>1, <1>3, Numbers DEF After, Kind
<1> QED BY <1>4, <1>5, Numbers DEF BitsInv, PaceInv, Repeating

LEMMA ChordInv ==
  ASSUME IInv, tb_poll, ChordScan(kbd_scan)
  PROVE  BitsInv' /\ PaceInv'
<1>1. After(0, Invalid)
  BY PollAfter DEF IInv, ChordScan
<1>2. kb' = [kb EXCEPT !.last = Invalid]
  BY PollFacts DEF IInv, ChordScan
<1>3. kb'.last = Invalid /\ kb'.b6 = kb.b6 /\ kb'.b5 = kb.b5
  BY <1>2 DEF IInv, TypeInv, Scanner
<1>4. /\ latest' = latest /\ prev' = Invalid
      /\ since' = IF since < RepeatRate THEN since + 1 ELSE since
  BY <1>1 DEF After, ChordScan
<1>5. BitsInv'
  BY <1>3, <1>4, Numbers DEF IInv, BitsInv, Repeating
<1>6. since' >= 1
  <2>1. since \in 0 .. RepeatRate
    BY DEF IInv, TypeInv
  <2> QED BY <1>4, <2>1
<1>7. ~LastJog(kb.last)'
  BY <1>3 DEF LastJog, Invalid, JogUp, JogDown
<1> QED BY <1>3, <1>5, <1>6, <1>7, Numbers DEF PaceInv, Repeating

(* A poll without a code brings a jog key closer to its repetition.        *)
LEMMA CloserToRepeat ==
  ASSUME IInv, kb.b6 = TRUE, latest \in {"up", "down"},
         since' = IF since < RepeatRate THEN since + 1 ELSE since
  PROVE  \/ since' >= 2 \/ since' = RepeatRate
         \/ since' >= 1 /\ kb.b5 = TRUE /\ LastJog(kb.last)
<1>1. since \in 0 .. RepeatRate
  BY DEF IInv, TypeInv
<1>2. \/ since >= 2 \/ since = RepeatRate
      \/ since >= 1 /\ ~LastJog(kb.last)
      \/ kb.b5 = TRUE /\ LastJog(kb.last)
  BY DEF IInv, PaceInv
<1> QED BY <1>1, <1>2

LEMMA ChangeInv ==
  ASSUME IInv, tb_poll, NEW n \in Keys \cup {0}, ChangeScan(kbd_scan, n)
  PROVE  BitsInv' /\ PaceInv'
<1>1. After(0, n)
  BY PollAfter DEF IInv, ChangeScan
<1>2. kb' = [kb EXCEPT !.last = n, !.b5 = FALSE, !.count = RepeatDelay]
  BY PollFacts DEF IInv, ChangeScan
<1>3. kb'.last = n /\ kb'.b6 = kb.b6 /\ kb'.b5 = FALSE /\ kb'.count = RepeatDelay
  BY <1>2 DEF IInv, TypeInv, Scanner
<1>4. /\ prev' = n
      /\ since' = IF since < RepeatRate THEN since + 1 ELSE since
      /\ held # {} => latest' = latest
      /\ held = {} => latest' = IF prev = 0 THEN "idle" ELSE "let_go"
  BY <1>1 DEF After
<1>5. held = {} => n = 0 /\ prev # 0
  BY DEF IInv, BitsInv, ChangeScan, Finds
<1>6. latest' = latest \/ latest' = "let_go"
  BY <1>4, <1>5
<1>7. BitsInv'
  BY <1>3, <1>4, <1>6 DEF IInv, BitsInv, Repeating
<1>8. ASSUME kb.b6 = TRUE, latest' \in {"up", "down"}
      PROVE  since' >= 2 \/ since' = RepeatRate \/ (since' >= 1 /\ ~LastJog(kb.last)')
  <2>1. latest' = latest /\ n # kb.last
    BY <1>6, <1>8 DEF ChangeScan
  <2>2. LastJog(kb.last) => ~LastJog(kb.last)'
    BY <1>3, <2>1 DEF LastJog, JogUp, JogDown
  <2>3. \/ since' >= 2 \/ since' = RepeatRate
        \/ since' >= 1 /\ kb.b5 = TRUE /\ LastJog(kb.last)
    BY <1>4, <1>8, <2>1, CloserToRepeat
  <2> QED BY <2>2, <2>3
<1> QED BY <1>3, <1>7, <1>8 DEF PaceInv, Repeating

LEMMA ReleaseInv ==
  ASSUME IInv, tb_poll, NEW n \in Keys \cup {0}, ReleaseScan(kbd_scan, n)
  PROVE  BitsInv' /\ PaceInv'
<1>1. After(0, 0) /\ held = {} /\ kb.last = 0
  BY PollAfter, Numbers DEF IInv, ReleaseScan, Finds
<1>2. kb' = [kb EXCEPT !.b6 = TRUE]
  BY PollFacts DEF IInv, ReleaseScan
<1>3. kb'.last = 0 /\ kb'.b6 = TRUE /\ kb'.b5 = kb.b5
  BY <1>1, <1>2 DEF IInv, TypeInv, Scanner
<1>4. kb.b5 = FALSE
  BY <1>1, Numbers DEF IInv, BitsInv, TypeInv, Scanner
<1>5. prev' = 0 /\ latest' \in {"idle", "let_go"}
  BY <1>1 DEF After
<1> QED BY <1>3, <1>4, <1>5, Numbers DEF BitsInv, PaceInv, Repeating

LEMMA WaitInv ==
  ASSUME IInv, tb_poll, NEW n \in Keys \cup {0}, WaitScan(kbd_scan, n)
  PROVE  BitsInv' /\ PaceInv'
<1>1. After(0, n) /\ n # 0 /\ held # {} /\ kb' = kb /\ kb.b6 = FALSE
  BY PollAfter, PollFacts DEF IInv, WaitScan, Finds
<1>2. prev' = n /\ latest' = latest
  BY <1>1 DEF After
<1> QED BY <1>1, <1>2 DEF IInv, BitsInv, PaceInv, Repeating

LEMMA AcceptInv ==
  ASSUME IInv, tb_poll, NEW n \in Keys \cup {0}, AcceptScan(kbd_scan, n)
  PROVE  BitsInv' /\ PaceInv'
<1>1. After(n, n) /\ n \in Keys /\ kb.last = n
  BY PollAfter, Numbers DEF IInv, AcceptScan
<1>2. kbd_scan.kb = [kb EXCEPT !.b6 = FALSE] /\ kbd_scan.code = n
  BY DEF AcceptScan
<1>3. /\ kbd_scan.kb.last = n /\ kbd_scan.kb.b5 = FALSE /\ kbd_scan.kb.b6 = FALSE
      /\ kbd_scan.kb.count = kb.count
  BY <1>1, <1>2 DEF IInv, TypeInv, Scanner, AcceptScan
<1>4. prev' = n /\ since' = 0 /\ latest' = Kind(n)
  BY <1>1, Numbers DEF After
<1>5. CASE Jogged(n, kbd_scan.kb)
  <2>1. /\ kb'.last = n /\ kb'.b5 = TRUE /\ kb'.b6 = TRUE /\ kb'.count = kb.count
    BY <1>3, <1>5, PollFacts DEF Jogged, IInv, TypeInv, Scanner
  <2>2. kb.count = RepeatDelay
    BY <1>1 DEF IInv, PaceInv, AcceptScan
  <2>3. n \in Jogs /\ Jogging' /\ op' = "jog"
    BY <1>5 DEF Jogged, Jogging
  <2>4. latest' \in {"up", "down"} /\ LastJog(kb.last)'
    BY <1>4, <2>1, <2>3 DEF Kind, LastJog, Jogs
  <2>5. BitsInv'
    BY <1>1, <1>4, <2>1, <2>3, <2>4, Numbers DEF BitsInv
  <2>6. kb'.count >= 1 /\ kb'.count + since' >= RepeatRate
    BY <1>4, <2>1, <2>2
  <2> QED BY <2>1, <2>4, <2>5, <2>6 DEF PaceInv
<1>6. CASE Edited(n, kbd_scan.kb)
  <2>1. kb'.b5 = FALSE /\ kb'.b6 = FALSE /\ latest' = "other"
    BY <1>3, <1>4, <1>6 DEF Edited, Kind
  <2>2. prev' # 0
    BY <1>1, <1>4, Numbers
  <2> QED BY <2>1, <2>2 DEF BitsInv, PaceInv, Repeating
<1>7. Jogged(n, kbd_scan.kb) \/ Edited(n, kbd_scan.kb)
  BY <1>1, <1>2, PollFacts, Numbers DEF IInv
<1> QED BY <1>5, <1>6, <1>7

LEMMA RepeatJogs ==
  ASSUME IInv, tb_poll, NEW n \in Keys \cup {0}, RepeatScan(kbd_scan, n)
  PROVE  /\ n \in Keys /\ n \in Jogs /\ Repeating /\ Jogging /\ After(kbd_scan.code, n)
         /\ kb.last = n /\ held # {}
<1>1. n \in Keys /\ kb.last = n /\ held # {} /\ After(kbd_scan.code, n)
  BY PollAfter, Numbers DEF IInv, RepeatScan, Finds
<1>2. n \in Jogs
  BY <1>1, Numbers DEF IInv, BitsInv, RepeatScan
<1> QED BY <1>1, <1>2 DEF IInv, BitsInv, Repeating, RepeatScan

LEMMA RepeatInv ==
  ASSUME IInv, tb_poll, NEW n \in Keys \cup {0}, RepeatScan(kbd_scan, n)
  PROVE  BitsInv' /\ PaceInv'
<1>0. /\ n \in Keys /\ n \in Jogs /\ Repeating /\ Jogging /\ After(kbd_scan.code, n)
      /\ kb.last = n /\ held # {} /\ kb.b5 = TRUE /\ kb.b6 = TRUE
  BY RepeatJogs DEF RepeatScan
<1>1. CASE kbd_scan.code = n /\ kbd_scan.kb = [kb EXCEPT !.count = RepeatRate]
  <2>1. kbd_scan.kb \in Scanner /\ Jogged(n, kbd_scan.kb)
    <3>1. kbd_scan.kb \in Scanner /\ kbd_handle(n, kbd_scan.kb)
      BY <1>0, <1>1, PollFacts, Numbers DEF IInv, tb_poll
    <3>2. op' = "jog"
      BY <1>0, <3>1, JogIsJog DEF IInv
    <3> QED BY <3>1, <3>2, EditorOutcome DEF Edited, IInv
  <2>2. /\ kb'.last = n /\ kb'.b5 = TRUE /\ kb'.b6 = TRUE /\ kb'.count = RepeatRate
    BY <1>0, <1>1, <2>1 DEF Jogged, IInv, TypeInv, Scanner
  <2>3. prev' = n /\ since' = 0 /\ latest' = Kind(n) /\ op' = "jog" /\ Jogging'
    BY <1>0, <1>1, <2>1, Numbers DEF After, Jogged, Jogging
  <2>4. latest' \in {"up", "down"} /\ LastJog(kb.last)'
    BY <1>0, <2>2, <2>3 DEF Kind, LastJog, Jogs
  <2>5. BitsInv'
    BY <1>0, <2>2, <2>3, <2>4, Numbers DEF BitsInv
  <2> QED BY <2>2, <2>3, <2>4, <2>5 DEF PaceInv
<1>2. CASE /\ kbd_scan.code = 0 /\ Fewer(kb.count) # 0
           /\ kbd_scan.kb = [kb EXCEPT !.count = Fewer(kb.count)]
  <2>1. kb' = [kb EXCEPT !.count = Fewer(kb.count)] /\ ed' = ed
    BY <1>2, PollFacts DEF IInv
  <2>2. /\ kb'.last = n /\ kb'.b5 = TRUE /\ kb'.b6 = TRUE
        /\ kb'.count = Fewer(kb.count)
    BY <1>0, <2>1 DEF IInv, TypeInv, Scanner
  <2>3. /\ prev' = n /\ latest' = latest /\ Jogging'
        /\ since' = IF since < RepeatRate THEN since + 1 ELSE since
    BY <1>0, <1>2, <2>1 DEF After, Jogging
  <2>4. BitsInv'
    BY <1>0, <2>2, <2>3, Numbers DEF IInv, BitsInv
  <2>5. /\ kb.count >= 1 /\ (since = RepeatRate \/ kb.count + since >= RepeatRate)
        /\ since \in 0 .. RepeatRate
    BY <1>0 DEF IInv, PaceInv, TypeInv
  <2>6. kb.count \in Nat
    <3>1. kb.count \in (0 .. Top) \cup (0 .. RepeatDelay) \cup (0 .. RepeatRate)
      BY DEF IInv, TypeInv, Scanner
    <3> QED BY <3>1
  <2>7. Fewer(kb.count) = kb.count - 1
    BY <2>5, <2>6 DEF Fewer
  <2>8. kb'.count >= 1 /\ (since' = RepeatRate \/ kb'.count + since' >= RepeatRate)
    BY <1>2, <2>2, <2>3, <2>5, <2>6, <2>7
  <2>9. latest \in {"up", "down"} =>
          \/ since' >= 2 \/ since' = RepeatRate
          \/ since' >= 1 /\ kb.b5 = TRUE /\ LastJog(kb.last)
    BY <1>0, <2>3, CloserToRepeat
  <2>10. LastJog(kb.last) <=> LastJog(kb.last)'
    BY <1>0, <2>2, <2>3 DEF LastJog
  <2> QED BY <2>2, <2>3, <2>4, <2>8, <2>9, <2>10 DEF PaceInv
<1> QED BY <1>1, <1>2 DEF RepeatScan

LEMMA StepInv == IInv /\ [Next]_vars => IInv'
<1> SUFFICES ASSUME IInv, [Next]_vars PROVE IInv'
  OBVIOUS
<1>1. CASE tb_poll
  <2>1. BitsInv' /\ PaceInv'
    BY <1>1, ScanCases, EventInv, ChordInv, ChangeInv, ReleaseInv, WaitInv, AcceptInv,
       RepeatInv DEF IInv, KeyScan
  <2> QED BY <1>1, <2>1, PollType DEF IInv
<1>2. CASE Hands \/ EmergencyOver \/ SerialFrame \/ UNCHANGED vars
  BY <1>2, OtherInv
<1> QED BY <1>1, <1>2 DEF Next

LEMMA InvHolds == Spec => []IInv
BY InitInv, StepInv, PTL DEF Spec

-----------------------------------------------------------------------------
(* The next code is deliberate, paced, and not missed.                     *)
LEMMA StepDeliberate ==
  ASSUME IInv, [Next]_vars
  PROVE  [(code' # 0 /\ ~event) => /\ held = {code'} /\ prev = code'
                                   /\ latest # "other"]_vars
<1>1. CASE tb_poll
  <2>1. code' = kbd_scan.code
    BY <1>1, PollFacts DEF IInv
  <2>2. ASSUME NEW n \in Keys \cup {0}, AcceptScan(kbd_scan, n) \/ RepeatScan(kbd_scan, n),
               code' # 0
        PROVE  held = {code'} /\ prev = code' /\ latest # "other"
    <3>1. code' = n /\ n # 0 /\ n \in Keys /\ held = {n} /\ kb.last = n /\ kb.b6 = TRUE
      BY <2>1, <2>2, Numbers DEF AcceptScan, RepeatScan, Finds
    <3> QED BY <3>1 DEF IInv, BitsInv
  <2>3. event = TRUE \/ code' = 0
        \/ \E n \in Keys \cup {0} : AcceptScan(kbd_scan, n) \/ RepeatScan(kbd_scan, n)
    BY <2>1, ScanCases DEF IInv, TypeInv, KeyScan, EventScan, ChordScan, ChangeScan,
       ReleaseScan, WaitScan
  <2> QED BY <2>2, <2>3
<1>2. CASE Hands \/ EmergencyOver \/ SerialFrame
  BY <1>2 DEF Hands, EmergencyOver, SerialFrame, Between
<1> QED BY <1>1, <1>2 DEF Next

(* A code other than STOP is that of the one key found at this poll and at *)
(* the one before, and after any code but a jog step the next one waits    *)
(* for a poll without a key.                                               *)
THEOREM CodesDeliberate == Spec => CodesAreDeliberate
<1>1. Spec => []IInv
  BY InvHolds
<1> QED BY <1>1, StepDeliberate, PTL DEF Spec, CodesAreDeliberate

LEMMA StepPaced ==
  ASSUME IInv, [Next]_vars
  PROVE  [(op' = "jog" /\ latest' = latest) => since >= RepeatRate - 1]_vars
<1>1. CASE tb_poll
  <2> SUFFICES ASSUME op' = "jog", latest' = latest
               PROVE  since >= RepeatRate - 1
    OBVIOUS
  <2>0. since \in 0 .. RepeatRate
    BY DEF IInv, TypeInv
  <2>1. kbd_scan.code # 0 /\ Jogged(kbd_scan.code, kbd_scan.kb)
    BY <1>1, PollFacts DEF IInv, Edited
  <2>2. ~EventScan(kbd_scan)
    BY <2>1, Numbers DEF Jogged, EventScan
  <2>3. PICK n \in Keys \cup {0} : AcceptScan(kbd_scan, n) \/ RepeatScan(kbd_scan, n)
    BY <2>1, <2>2, ScanCases DEF IInv, KeyScan, ChordScan, ChangeScan, ReleaseScan,
       WaitScan
  <2>4. /\ kbd_scan.code = n /\ n # 0 /\ n \in Jogs /\ kb.last = n /\ kb.b6 = TRUE
    BY <2>1, <2>3 DEF AcceptScan, RepeatScan, Jogged
  <2>5. latest' = Kind(n)
    BY <1>1, <2>4, PollFacts DEF IInv, Look
  <2>6. latest \in {"up", "down"} /\ LastJog(kb.last)
    BY <2>4, <2>5 DEF Kind, LastJog, Jogs
  <2>7. CASE AcceptScan(kbd_scan, n)
    <3>1. since >= 2 \/ since = RepeatRate
      BY <2>4, <2>6, <2>7 DEF IInv, PaceInv, AcceptScan
    <3> QED BY <2>0, <3>1
  <2>8. CASE RepeatScan(kbd_scan, n)
    <3>1. /\ kb.count >= 1 /\ (since = RepeatRate \/ kb.count + since >= RepeatRate)
          /\ Fewer(kb.count) = 0
      BY <2>4, <2>8 DEF IInv, PaceInv, Repeating, RepeatScan
    <3>2. kb.count \in Nat
      <4>1. kb.count \in (0 .. Top) \cup (0 .. RepeatDelay) \cup (0 .. RepeatRate)
        BY DEF IInv, TypeInv, Scanner
      <4> QED BY <4>1
    <3>3. kb.count = 1
      BY <3>1, <3>2 DEF Fewer
    <3> QED BY <2>0, <3>1, <3>3
  <2> QED BY <2>3, <2>7, <2>8
<1>2. CASE Hands \/ EmergencyOver \/ SerialFrame
  BY <1>2 DEF Hands, EmergencyOver, SerialFrame, Between
<1> QED BY <1>1, <1>2 DEF Next

(* A jog key that is not let go moves the axis at the pace of the repeat,  *)
(* also when the user slips onto another key and back.                     *)
THEOREM JogsPaced == Spec => JogsArePaced
<1>1. Spec => []IInv
  BY InvHolds
<1> QED BY <1>1, StepPaced, PTL DEF Spec, JogsArePaced

LEMMA SeenFromInv == IInv => PressedKeyIsSeen
<1> SUFFICES ASSUME IInv, latest = "idle", ~event, prev # 0, held = {prev}
             PROVE  kbd_scan.code = prev
  BY DEF PressedKeyIsSeen
<1>1. prev \in Keys
  <2>1. prev \in held /\ held \in SUBSET Keys
    BY DEF IInv, TypeInv
  <2> QED BY <2>1
<1>2. kb.b6 = TRUE /\ kb.b5 = FALSE /\ kb.last = prev
  BY DEF IInv, BitsInv
<1>3. ASSUME NEW n \in Keys \cup {0}, KeyScan(kbd_scan, n)
      PROVE  kbd_scan.code = prev
  <2>1. n = prev
    BY <1>3 DEF KeyScan, ChangeScan, ReleaseScan, WaitScan, AcceptScan, RepeatScan, Finds
  <2> QED BY <1>2, <1>3, <2>1 DEF KeyScan, ChangeScan, ReleaseScan, WaitScan, AcceptScan,
             RepeatScan
<1> QED BY <1>1, <1>3, ScanCases DEF IInv, EventScan, ChordScan

(* No press is lost: after two polls without a key, the key found alone at *)
(* the last poll and still down is given to the editor by the next.        *)
THEOREM NoPressIsLost == Spec => []PressedKeyIsSeen
<1>1. Spec => []IInv
  BY InvHolds
<1> QED BY <1>1, SeenFromInv, PTL
-----------------------------------------------------------------------------
(* What is typed.  The editor reads POS a . n ENT in a fixed row of states:*)
(* after the point, with a number, and those in which no number can be     *)
(* committed.                                                              *)
Plain(e) ==
  \/ e.r3 = "none" /\ \/ e.em = {} /\ e.es \in {{}, {6}}
                      \/ e.em = {6} /\ e.es = {5, 7}
  \/ e.r3 = "NOP" /\ e.es = {7} /\ e.em = {5}
  \/ e.r3 = "POS_ALL" /\ \/ e.es = {7} /\ e.em = {0, 1, 3, 5}
                         \/ e.es = {2, 7} /\ e.em = {7} /\ e.r4 \in 1 .. 8
  \/ e.r3 \in {"STOP", "SHOW"} /\ 7 \in e.es /\ 5 \notin e.es
AfterPoint(e) ==
  e.r3 = "POS_ONE" /\ e.r4 \in 1 .. 8 /\ e.es = {2, 7} /\ e.em = {4}
WithNumber(e) ==
  /\ e.r3 = "POS_ONE" /\ e.r4 \in 1 .. 8
  /\ \/ e.es = {1, 2, 7} /\ e.em = {4, 5}
     \/ e.es = {2, 7} /\ e.em = {5}

Counts(n) == digits # <<>> /\ (clean = TRUE => n = Decimal(digits))

EntryInv ==
  /\ digits \in Seq(0 .. 9) /\ clean \in BOOLEAN
  /\ digits = <<>> => clean = TRUE
  /\ \/ Plain(ed)
     \/ AfterPoint(ed) /\ digits = <<>>
     \/ WithNumber(ed) /\ Counts(ed.acc)
  /\ op = "commit" => Plain(ed) /\ Counts(Written)

(* The decimal number of the digits typed so far.                          *)
LEMMA DecimalIsFold == \A s : Decimal(s) = Fold(Shift, 0, s)
BY DEF Decimal, Fold

LEMMA DecimalType == \A s \in Seq(0 .. 9) : Decimal(s) \in Nat
<1>1. \A v \in Nat, d \in 0 .. 9 : Shift[<<v, d>>] \in Nat
  BY DEF Shift
<1> QED BY <1>1, FoldType, DecimalIsFold

LEMMA DecimalGrows ==
  ASSUME NEW s \in Seq(0 .. 9), NEW d \in 0 .. 9
  PROVE  /\ Decimal(Append(s, d)) = 10 * Decimal(s) + d
         /\ s = <<>> => Decimal(Append(s, d)) = d
<1>1. Decimal(Append(s, d)) = Shift[<<Decimal(s), d>>]
  BY FoldAppend, DecimalIsFold
<1>2. Decimal(s) \in Nat
  BY DecimalType
<1>3. Decimal(<<>>) = 0
  BY FoldEmpty, DecimalIsFold
<1> QED BY <1>1, <1>2, <1>3 DEF Shift

(* What a code makes of the entry: it leaves it, passes the point, adds a  *)
(* digit, or commits.                                                      *)
Leaves == Plain(ed') /\ op' # "commit"
Points(c) == c = Dot /\ op' # "commit" /\ AfterPoint(ed')
AddsDigit(c) ==
  /\ c \in Digits /\ op' = "digit" /\ WithNumber(ed')
  /\ \/ AfterPoint(ed) /\ ed'.acc = Digit(c)
     \/ WithNumber(ed) /\ ed'.acc = 10 * ed.acc + Digit(c)
Commits(c) ==
  c = Ent /\ op' = "commit" /\ WithNumber(ed) /\ Plain(ed') /\ Written' = ed.acc

InEntry == Plain(ed) \/ AfterPoint(ed) \/ WithNumber(ed)

LEMMA OneForm ==
  /\ WithNumber(ed) => ~Plain(ed) /\ ~AfterPoint(ed)
  /\ AfterPoint(ed) => ~Plain(ed)
BY DEF Plain, AfterPoint, WithNumber

LEMMA BlankIsPlain ==
  /\ Plain(Blank) /\ Plain([Blank EXCEPT !.es = {6}])
  /\ \A r : Plain([Blank EXCEPT !.r4 = r])
BY DEF Plain, Blank

LEMMA ErrorLeaves == Error => Leaves
BY BlankIsPlain DEF Error, Edit, Leaves

LEMMA SelectLeaves ==
  ASSUME TypeInv, NEW c, SelectAxis(c), ed.es = {} \/ ed.es = {5, 7}, ed.r3 = "none"
  PROVE  Leaves
<1>1. CASE Digit(c) - 1 \in Axes
  <2>1. ed.es \cup {5, 7} = {5, 7}
    OBVIOUS
  <2>2. ed' = [ed EXCEPT !.es = {5, 7}, !.em = {6}, !.r1 = Digit(c)] /\ op' = "select"
    BY <1>1, <2>1 DEF SelectAxis, Edit
  <2>3. ed'.r3 = "none" /\ ed'.em = {6} /\ ed'.es = {5, 7}
    BY <2>2 DEF TypeInv, Editor
  <2> QED BY <2>2, <2>3 DEF Leaves, Plain
<1>2. CASE Digit(c) - 1 \notin Axes
  BY <1>2, ErrorLeaves DEF SelectAxis
<1> QED BY <1>1, <1>2

LEMMA BeginLeaves ==
  ASSUME TypeInv, InEntry, NEW c, Begin(c), ~Busy, ~InError
  PROVE  Leaves
<1>1. ed.es = {} /\ ed.em = {} /\ ed.r3 = "none"
  BY DEF InEntry, Plain, AfterPoint, WithNumber, Busy, InError
<1>2. CASE SelectAxis(c)
  BY <1>1, <1>2, SelectLeaves
<1>3. CASE \/ Enter("NOP", {5}) \/ Enter("POS_ALL", {0, 1, 3, 5})
           \/ Enter("STOP", {4, 5, 7})
  <2>1. ed.es \cup {7} = {7}
    BY <1>1
  <2>2. PICK m \in {"NOP", "POS_ALL", "STOP"} :
          /\ ed' = [ed EXCEPT !.es = {7}, !.r3 = m, !.em = ed'.em]
          /\ op' = "begin"
          /\ m = "NOP" => ed'.em = {5}
          /\ m = "POS_ALL" => ed'.em = {0, 1, 3, 5}
    <3>1. ed \in Editor
      BY DEF TypeInv
    <3> QED BY <1>3, <2>1, <3>1 DEF Enter, Edit, Editor
  <2>3. ed'.es = {7} /\ ed'.r3 = m
    BY <2>2 DEF TypeInv, Editor
  <2> QED BY <2>2, <2>3 DEF Leaves, Plain
<1> QED BY <1>2, <1>3, ErrorLeaves DEF Begin

(* A digit in each of the states it is taken in.                           *)
LEMMA PosDigitAdds ==
  ASSUME TypeInv, InEntry, NEW c \in Digits, pos_digit(c), 5 \notin ed.es, 1 \in ed.es
  PROVE  Leaves \/ AddsDigit(c)
<1>1. CASE 10 * ed.acc + Digit(c) <= Top
  <2>1. ed' = [ed EXCEPT !.acc = 10 * ed.acc + Digit(c)] /\ op' = "digit"
    BY <1>1 DEF pos_digit, Edit
  <2>2. /\ ed'.es = ed.es /\ ed'.em = ed.em /\ ed'.r3 = ed.r3 /\ ed'.r4 = ed.r4
        /\ ed'.acc = 10 * ed.acc + Digit(c)
    BY <2>1 DEF TypeInv, Editor
  <2>3. CASE Plain(ed)
    BY <2>1, <2>2, <2>3 DEF Plain, Leaves
  <2>4. ~AfterPoint(ed)
    BY DEF AfterPoint
  <2>5. CASE WithNumber(ed)
    BY <2>1, <2>2, <2>5 DEF WithNumber, AddsDigit
  <2> QED BY <2>3, <2>4, <2>5 DEF InEntry
<1>2. CASE ~(10 * ed.acc + Digit(c) <= Top)
  BY <1>2, ErrorLeaves DEF pos_digit
<1> QED BY <1>1, <1>2

LEMMA FirstDigitAdds ==
  ASSUME TypeInv, InEntry, NEW c \in Digits, FirstDigit(c),
         {1, 5} \cap ed.es = {}, 4 \in ed.em
  PROVE  Leaves \/ AddsDigit(c)
<1> DEFINE z == Digit(c) = 0
           bits == IF z THEN ed.em \ {3, 4} ELSE ed.em
<1>1. /\ ed' = [ed EXCEPT !.acc = Digit(c), !.em = Completed(bits),
                          !.es = ed.es \cup (IF z THEN {2} ELSE {1, 2})]
      /\ op' = "digit"
  BY DEF FirstDigit, FirstNumber, Edit
<1>2. /\ ed'.es = ed.es \cup (IF z THEN {2} ELSE {1, 2}) /\ ed'.em = Completed(bits)
      /\ ed'.r3 = ed.r3 /\ ed'.r4 = ed.r4 /\ ed'.acc = Digit(c)
  BY <1>1 DEF TypeInv, Editor
<1>3. CASE Plain(ed)
  <2>1. ed.r3 \in {"STOP", "SHOW"} /\ 7 \in ed.es /\ 5 \notin ed.es
    BY <1>3 DEF Plain
  <2>2. 7 \in ed'.es /\ 5 \notin ed'.es
    BY <1>2, <2>1
  <2> QED BY <1>1, <1>2, <2>1, <2>2 DEF Plain, Leaves
<1>4. CASE AfterPoint(ed)
  <2>1. ed.es = {2, 7} /\ ed.em = {4}
    BY <1>4 DEF AfterPoint
  <2>2. {4} \ {3, 4} = {} /\ {4} \cup {5} = {4, 5} /\ {} \cup {5} = {5}
        /\ {2, 7} \cup {2} = {2, 7} /\ {2, 7} \cup {1, 2} = {1, 2, 7}
    OBVIOUS
  <2>3. Completed({4}) = {4, 5} /\ Completed({}) = {5}
    BY <2>2 DEF Completed
  <2>4. \/ z /\ ed'.es = {2, 7} /\ ed'.em = {5}
        \/ ~z /\ ed'.es = {1, 2, 7} /\ ed'.em = {4, 5}
    BY <1>2, <2>1, <2>2, <2>3
  <2> QED BY <1>1, <1>2, <1>4, <2>4 DEF AfterPoint, WithNumber, AddsDigit
<1>5. CASE WithNumber(ed)
  BY <1>5 DEF WithNumber
<1> QED BY <1>3, <1>4, <1>5 DEF InEntry

LEMMA TypedAxisLeaves ==
  ASSUME TypeInv, InEntry, NEW c \in Digits, TypedAxis(c), {1, 5} \cap ed.es = {},
         4 \notin ed.em, 3 \in ed.em
  PROVE  Leaves
<1>1. CASE Digit(c) \in 1 .. 8
  <2>1. ed' = [ed EXCEPT !.es = ed.es \cup {2}, !.em = Completed(ed.em \ {3}),
                         !.r4 = Digit(c), !.acc = Top]
        /\ op' = "axis"
    BY <1>1 DEF TypedAxis, Edit
  <2>2. /\ ed'.es = ed.es \cup {2} /\ ed'.em = Completed(ed.em \ {3})
        /\ ed'.r4 = Digit(c) /\ ed'.r3 = ed.r3
    BY <2>1 DEF TypeInv, Editor
  <2>3. CASE ed.r3 = "POS_ALL"
    <3>1. ed.es = {7} /\ ed.em = {0, 1, 3, 5}
      BY <2>3 DEF InEntry, Plain, AfterPoint, WithNumber
    <3>2. 0 \in ed.em \ {3} /\ 1 \in ed.em \ {3} /\ {7} \cup {2} = {2, 7}
      BY <3>1
    <3>3. ed'.es = {2, 7} /\ ed'.em = {7}
      BY <2>2, <3>1, <3>2 DEF Completed
    <3> QED BY <1>1, <2>1, <2>2, <2>3, <3>3 DEF Plain, Leaves
  <2>4. CASE ed.r3 \in {"STOP", "SHOW"}
    <3>1. 7 \in ed.es /\ 5 \notin ed.es
      BY <2>4 DEF InEntry, Plain, AfterPoint, WithNumber
    <3>2. 7 \in ed'.es /\ 5 \notin ed'.es
      BY <2>2, <3>1
    <3> QED BY <2>1, <2>2, <2>4, <3>2 DEF Plain, Leaves
  <2> QED BY <2>3, <2>4 DEF InEntry, Plain, AfterPoint, WithNumber
<1>2. CASE Digit(c) \notin 1 .. 8
  BY <1>2, ErrorLeaves DEF TypedAxis
<1> QED BY <1>1, <1>2

LEMMA NumberKeyEffect ==
  ASSUME TypeInv, InEntry, NEW c \in Digits, Busy, NumberKey(c)
  PROVE  Leaves \/ AddsDigit(c)
<1>1. CASE 5 \in ed.es /\ SelectAxis(c)
  <2>1. ed.es = {5, 7} /\ ed.r3 = "none"
    BY <1>1 DEF InEntry, Plain, AfterPoint, WithNumber
  <2> QED BY <1>1, <2>1, SelectLeaves
<1> QED BY <1>1, PosDigitAdds, FirstDigitAdds, TypedAxisLeaves, ErrorLeaves DEF NumberKey

(* The point turns POS a into the entry of a number, STOP into SHOW.       *)
LEMMA DotEffect ==
  ASSUME TypeInv, InEntry, Busy, DotKey
  PROVE  Leaves \/ Points(Dot)
<1>1. CASE 7 \in ed.em
  <2>1. /\ ed' = [ed EXCEPT !.es = ed.es \ {1}, !.r3 = OtherForm(ed.r3),
                            !.em = IF 2 \in ed.es THEN {4} ELSE {4, 5}]
        /\ op' = "dot"
    BY <1>1 DEF DotKey, Edit
  <2>2. /\ ed'.es = ed.es \ {1} /\ ed'.r3 = OtherForm(ed.r3) /\ ed'.r4 = ed.r4
        /\ 2 \in ed.es => ed'.em = {4}
    BY <2>1 DEF TypeInv, Editor
  <2>3. CASE ed.r3 = "POS_ALL"
    <3>1. ed.es = {2, 7} /\ ed.r4 \in 1 .. 8
      BY <1>1, <2>3 DEF InEntry, Plain, AfterPoint, WithNumber
    <3>2. ed'.es = {2, 7} /\ ed'.r3 = "POS_ONE" /\ ed'.em = {4}
      BY <2>2, <2>3, <3>1 DEF OtherForm
    <3> QED BY <2>1, <2>2, <3>1, <3>2 DEF AfterPoint, Points
  <2>4. CASE ed.r3 \in {"STOP", "SHOW"}
    <3>1. 7 \in ed.es /\ 5 \notin ed.es
      BY <2>4 DEF InEntry, Plain, AfterPoint, WithNumber
    <3>2. 7 \in ed'.es /\ 5 \notin ed'.es
      BY <2>2, <3>1
    <3>3. ed'.r3 \in {"STOP", "SHOW"}
      BY <2>2, <2>4 DEF OtherForm
    <3> QED BY <2>1, <3>2, <3>3 DEF Plain, Leaves
  <2> QED BY <1>1, <2>3, <2>4 DEF InEntry, Plain, AfterPoint, WithNumber
<1>2. CASE 7 \notin ed.em
  BY <1>2, ErrorLeaves DEF DotKey
<1> QED BY <1>1, <1>2

(* POS a . n ENT hands the number to the axis, or to the scanner's bytes.  *)
LEMMA CommitEffect ==
  ASSUME TypeInv, InEntry, Busy, NEW k \in Scanner, 5 \in ed.em, ed.r3 = "POS_ONE",
         pos_commit(k)
  PROVE  Commits(Ent)
<1>1. WithNumber(ed)
  BY DEF InEntry, Plain, AfterPoint, WithNumber
<1>2. /\ ed' = [Blank EXCEPT !.r4 = ed.r4] /\ op' = "commit"
      /\ slot' = IF ed.r4 <= 6 THEN [slot EXCEPT ![ed.r4 - 1] = ed.acc] ELSE slot
      /\ ed.r4 = 7 => kb' = [k EXCEPT !.last = ed.acc]
      /\ ed.r4 = 8 => kb' = [k EXCEPT !.count = ed.acc]
  BY DEF pos_commit, Edit, Cleared, KeepScan
<1>3. ed'.r4 = ed.r4 /\ ed.r4 \in 1 .. 8
  BY <1>1, <1>2 DEF Blank, WithNumber
<1>4. Written' = ed.acc
  <2>1. CASE ed.r4 <= 6
    <3>1. ed.r4 - 1 \in Axes
      BY <1>3, <2>1 DEF Axes
    <3>2. slot'[ed.r4 - 1] = ed.acc
      BY <1>2, <2>1, <3>1 DEF TypeInv, Slots
    <3> QED BY <1>3, <2>1, <3>2 DEF Written
  <2>2. CASE ed.r4 = 7
    BY <1>2, <1>3, <2>2 DEF Written, Scanner
  <2>3. CASE ed.r4 = 8
    BY <1>2, <1>3, <2>3 DEF Written, Scanner
  <2> QED BY <1>3, <2>1, <2>2, <2>3
<1> QED BY <1>1, <1>2, <1>4, BlankIsPlain DEF Commits

LEMMA EntEffect ==
  ASSUME TypeInv, InEntry, Busy, NEW k \in Scanner, EntKey(k)
  PROVE  Leaves \/ Commits(Ent)
<1>1. CASE 5 \in ed.em /\ ed.r3 \in {"STOP", "SHOW"} /\ StopEntered
  <2>1. CASE ed.r3 = "STOP"
    BY <1>1, <2>1, BlankIsPlain DEF StopEntered, Edit, Cleared, Leaves
  <2>2. CASE ed.r3 = "SHOW"
    <3>1. ed' = [ed EXCEPT !.es = ed.es \cup {4}, !.em = {6}] /\ op' = "show"
      BY <1>1, <2>2 DEF StopEntered, Edit
    <3>2. ed'.es = ed.es \cup {4} /\ ed'.r3 = "SHOW"
      BY <2>2, <3>1 DEF TypeInv, Editor
    <3>3. 7 \in ed.es /\ 5 \notin ed.es
      BY <2>2 DEF InEntry, Plain, AfterPoint, WithNumber
    <3>4. 7 \in ed'.es /\ 5 \notin ed'.es
      BY <3>2, <3>3
    <3> QED BY <3>1, <3>2, <3>4 DEF Plain, Leaves
  <2> QED BY <1>1, <2>1, <2>2
<1>2. CASE Edit("store", Cleared)
  BY <1>2, BlankIsPlain DEF Edit, Cleared, Leaves
<1> QED BY <1>1, <1>2, CommitEffect, ErrorLeaves DEF EntKey

LEMMA EditorEffect ==
  ASSUME TypeInv, InEntry, NEW c, NEW k \in Scanner, kbd_handle(c, k)
  PROVE  Leaves \/ Points(c) \/ AddsDigit(c) \/ Commits(c)
<1>1. CASE c = Clr /\ Edit("clear", Cleared)
  BY <1>1, BlankIsPlain DEF Edit, Cleared, Leaves
<1>2. CASE InError /\ Edit("ignored", ed)
  <2>1. Plain(ed)
    BY <1>2 DEF InEntry, AfterPoint, WithNumber, InError, Busy
  <2>2. ed' = ed /\ op' = "ignored"
    BY <1>2 DEF Edit
  <2> QED BY <2>1, <2>2 DEF Leaves, Plain
<1>3. CASE Busy /\ c \in {JogDown, JogUp} /\ JogKey(c, k)
  <2>1. CASE 6 \in ed.em /\ ed' = ed /\ op' \in {"jog", "browse"}
    <3>1. Plain(ed)
      BY <2>1 DEF InEntry, AfterPoint, WithNumber
    <3> QED BY <2>1, <3>1 DEF Leaves, Plain
  <2> QED BY <1>3, <2>1, ErrorLeaves DEF JogKey, kh_jog, Edit
<1> QED BY <1>1, <1>2, <1>3, BeginLeaves, NumberKeyEffect, DotEffect, EntEffect, ErrorLeaves
    DEF kbd_handle

(* A poll keeps the entry and the digits together.                         *)
LEMMA RememberType ==
  ASSUME EntryInv, NEW c, Remember(c)
  PROVE  /\ digits' \in Seq(0 .. 9) /\ clean' \in BOOLEAN
         /\ digits' = <<>> => clean' = TRUE
         /\ digits' # <<>> => clean' = clean
<1>1. digits' \in Seq(0 .. 9)
  <2>1. Before \in Seq(0 .. 9)
    BY DEF Before, EntryInv
  <2>2. c \in Digits => Append(digits, Digit(c)) \in Seq(0 .. 9)
    BY DigitType DEF EntryInv
  <2> QED BY <2>1, <2>2 DEF Remember, EntryInv
<1> QED BY <1>1 DEF Remember, StillClean, EntryInv

LEMMA Codes ==
  /\ 0 \notin Digits /\ Ent \notin Digits /\ Dot \notin Digits /\ Dot # Ent
  /\ Ent # 0 /\ Dot # 0
BY DEF Digits, Ent, Dot

LEMMA PollEntry ==
  ASSUME TypeInv, EntryInv, tb_poll
  PROVE  EntryInv'
<1> DEFINE c == kbd_scan.code
<1>1. Remember(c) /\ kbd_scan.kb \in Scanner
  BY ScanType DEF tb_poll
<1>2. /\ digits' \in Seq(0 .. 9) /\ clean' \in BOOLEAN
      /\ digits' = <<>> => clean' = TRUE
      /\ digits' # <<>> => clean' = clean
  BY <1>1, RememberType
<1>3. CASE c = 0
  <2>1. ed' = ed /\ op' = "none"
    BY <1>3 DEF tb_poll
  <2>2. digits' = Before
    BY <1>1, <1>3, Codes DEF Remember
  <2>3. digits' = digits \/ op = "commit"
    BY <2>2 DEF Before
  <2> QED BY <1>2, <2>1, <2>3 DEF EntryInv, Counts, Plain, AfterPoint, WithNumber
<1>4. CASE c # 0
  <2>1. kbd_handle(c, kbd_scan.kb)
    BY <1>4 DEF tb_poll
  <2>2. Leaves \/ Points(c) \/ AddsDigit(c) \/ Commits(c)
    <3>1. InEntry
      BY DEF EntryInv, InEntry
    <3> HIDE DEF c
    <3> QED BY <1>1, <2>1, <3>1, EditorEffect
  <2> HIDE DEF c
  <2>3. CASE Leaves
    BY <1>2, <2>3 DEF Leaves, EntryInv
  <2>4. CASE Points(c)
    <3>1. digits' = <<>>
      BY <1>1, <2>4, Codes DEF Points, Remember
    <3>2. op' # "commit"
      BY <2>4 DEF Points
    <3> QED BY <1>2, <2>4, <3>1, <3>2 DEF Points, EntryInv
  <2>5. CASE AddsDigit(c)
    <3>1. /\ digits' = IF clean THEN Append(digits, Digit(c)) ELSE digits
          /\ c \in Digits /\ Digit(c) \in 0 .. 9
      BY <1>1, <1>4, <2>5, Codes, DigitType DEF AddsDigit, Remember
    <3>2. ~Plain(ed)
      BY <2>5, OneForm DEF AddsDigit
    <3>3. CASE AfterPoint(ed) /\ digits = <<>> /\ ed'.acc = Digit(c)
      <4>1. digits' = Append(digits, Digit(c)) /\ digits' # <<>>
        BY <3>1, <3>3 DEF EntryInv
      <4>2. Decimal(digits') = Digit(c)
        BY <3>1, <3>3, <4>1, DecimalGrows DEF EntryInv
      <4> QED BY <1>2, <2>5, <3>3, <4>1, <4>2 DEF EntryInv, AddsDigit, Counts
    <3>4. CASE WithNumber(ed) /\ Counts(ed.acc) /\ ed'.acc = 10 * ed.acc + Digit(c)
      <4>1. CASE clean = TRUE
        <5>1. digits' = Append(digits, Digit(c)) /\ digits' # <<>>
          BY <3>1, <4>1 DEF EntryInv
        <5>2. Decimal(digits') = 10 * ed.acc + Digit(c)
          BY <3>1, <3>4, <4>1, <5>1, DecimalGrows DEF EntryInv, Counts
        <5> QED BY <1>2, <2>5, <3>4, <5>1, <5>2 DEF EntryInv, AddsDigit, Counts
      <4>2. CASE clean = FALSE
        <5>1. digits' = digits /\ digits # <<>> /\ clean' = FALSE
          BY <1>2, <3>1, <3>4, <4>2 DEF Counts
        <5> QED BY <1>2, <2>5, <5>1 DEF EntryInv, AddsDigit, Counts
      <4> QED BY <4>1, <4>2 DEF EntryInv
    <3> QED BY <2>5, <3>2, <3>3, <3>4, OneForm DEF EntryInv, AddsDigit
  <2>6. CASE Commits(c)
    <3>1. digits' = digits
      BY <1>1, <1>4, <2>6 DEF Commits, Remember
    <3>2. Counts(ed.acc)
      BY <2>6, OneForm DEF Commits, EntryInv
    <3>3. clean' = clean
      BY <1>2, <3>1, <3>2 DEF Counts
    <3> QED BY <1>2, <2>6, <3>1, <3>2, <3>3 DEF Commits, EntryInv, Counts
  <2> QED BY <2>2, <2>3, <2>4, <2>5, <2>6
<1> QED BY <1>3, <1>4

(* Between polls nothing is typed; a frame ends the number's cleanliness.  *)
LEMMA OtherEntry ==
  ASSUME TypeInv, EntryInv, Hands \/ EmergencyOver \/ SerialFrame
  PROVE  EntryInv'
<1>1. digits' = Before /\ op' = "none"
  BY DEF Hands, EmergencyOver, SerialFrame, Between
<1>2. digits' \in Seq(0 .. 9) /\ (digits' = digits \/ op = "commit")
  BY <1>1 DEF Before, EntryInv
<1>3. CASE Hands \/ EmergencyOver
  <2>1. ed' = ed /\ clean' = (clean \/ digits' = <<>>)
    BY <1>3 DEF Hands, EmergencyOver, StillClean
  <2> QED BY <1>1, <1>2, <2>1 DEF EntryInv, Counts, Plain, AfterPoint, WithNumber
<1>4. CASE SerialFrame
  <2>1. PICK v \in Foreign : ed' = [ed EXCEPT !.acc = v]
    BY <1>4 DEF SerialFrame
  <2>2. /\ ed'.es = ed.es /\ ed'.em = ed.em /\ ed'.r3 = ed.r3 /\ ed'.r4 = ed.r4
        /\ clean' = (digits' = <<>>)
    BY <1>4, <2>1 DEF SerialFrame, TypeInv, Editor
  <2> QED BY <1>1, <1>2, <2>2 DEF EntryInv, Counts, Plain, AfterPoint, WithNumber
<1> QED BY <1>3, <1>4

LEMMA EntryHolds == Spec => []EntryInv
<1>1. Init => EntryInv
  BY BlankIsPlain DEF Init, Blank, EntryInv
<1>2. TypeInv /\ EntryInv /\ UNCHANGED vars => EntryInv'
  BY DEF vars, scanVars, editVars, EntryInv, Counts, Plain, AfterPoint, WithNumber, Written
<1>3. TypeInv /\ EntryInv /\ [Next]_vars => EntryInv'
  BY <1>2, PollEntry, OtherEntry DEF Next
<1>4. Spec => []IInv
  BY InvHolds
<1>5. IInv => TypeInv
  BY DEF IInv
<1> QED BY <1>1, <1>3, <1>4, <1>5, PTL DEF Spec

(* What ENT commits after POS a . n is the decimal number of the digit     *)
(* keys since the point, whatever was typed, refused or cleared before and *)
(* whatever the scanner's bytes were made to hold, unless a serial frame   *)
(* came between the first digit and ENT.                                   *)
THEOREM TypedIsCommitted == Spec => []CommitIsTyped
<1>1. EntryInv => CommitIsTyped
  BY DEF EntryInv, Counts, CommitIsTyped
<1> QED BY <1>1, EntryHolds, PTL
-----------------------------------------------------------------------------
(* The CLI in front of the keypad.  Bit 6 is set only by two polls in a    *)
(* row without a key, and here the processor polls only while a key is     *)
(* down.                                                                   *)
QuietInv ==
  /\ held = {} \/ \E k \in Keys : held = {k}
  /\ event = FALSE /\ kb.b6 = FALSE
  /\ kb \in [last : Keys \cup {0}, count : 0 .. RepeatDelay, b5 : BOOLEAN,
             b6 : BOOLEAN]
  /\ dispatched = {}

LEMMA QuietScan ==
  ASSUME QuietInv, held # {}
  PROVE  /\ kbd_scan.code = 0 /\ kbd_scan.kb.b6 = FALSE
         /\ kbd_scan.kb \in [last : Keys \cup {0}, count : 0 .. RepeatDelay,
                             b5 : BOOLEAN, b6 : BOOLEAN]
<1>1. PICK k \in Keys : held = {k}
  BY DEF QuietInv
<1>2. Only = k /\ Cardinality(held) = 1
  BY <1>1, FS_Singleton DEF Only
<1>3. k # 0
  BY KeysAreNumbers
<1>4. kbd_scan = debounce(k)
  BY <1>2 DEF kbd_scan, QuietInv
<1>5. CASE k # kb.last
  <2>1. kbd_scan = key_changed(k)
    BY <1>4, <1>5 DEF debounce
  <2>2. RepeatDelay \in 0 .. RepeatDelay
    OBVIOUS
  <2> QED BY <2>1, <2>2 DEF key_changed, Scan, QuietInv
<1>6. CASE k = kb.last
  <2>1. debounce(k) = Scan(kb, 0)
    BY <1>3, <1>6 DEF debounce, QuietInv
  <2> QED BY <1>4, <2>1 DEF Scan, QuietInv
<1> QED BY <1>5, <1>6

LEMMA QuietStep == QuietInv /\ [CliNext]_cliVars => QuietInv'
<1> SUFFICES ASSUME QuietInv, [CliNext]_cliVars PROVE QuietInv'
  OBVIOUS
<1>1. CASE RunCycles
  <2>1. kbd_scan.code = 0
    BY <1>1, QuietScan DEF RunCycles
  <2>2. kb' = kbd_scan.kb /\ code' = 0 /\ event' = FALSE /\ held' = held
    BY <1>1, <2>1 DEF RunCycles, tb_poll, Look
  <2> QED BY <1>1, <2>2, QuietScan DEF RunCycles, QuietInv
<1>2. CASE LetGo
  BY <1>2 DEF LetGo, Between, QuietInv
<1>3. ASSUME NEW k \in Keys, Press(k)
      PROVE  QuietInv'
  BY <1>3 DEF Press, Between, QuietInv
<1>4. CASE UNCHANGED cliVars
  BY <1>4 DEF cliVars, vars, scanVars, QuietInv
<1> QED BY <1>1, <1>2, <1>3, <1>4 DEF CliNext

(* Whatever keys are typed, however many and for however many polls each   *)
(* is down, the CLI gives no code to the editor of the firmware.           *)
THEOREM CliTypesNothing == CliSpec => []NoKeyArrives
<1>1. CliInit => QuietInv
  BY DEF CliInit, Init, QuietInv
<1>2. QuietInv => NoKeyArrives
  BY DEF QuietInv, NoKeyArrives
<1> QED BY <1>1, QuietStep, <1>2, PTL DEF CliSpec
=============================================================================
