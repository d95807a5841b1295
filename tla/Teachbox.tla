------------------------------ MODULE Teachbox ------------------------------
(***************************************************************************)
(* The teachbox of the firmware: the key scanner kbd_scan (0x0C00) and the *)
(* part of the editor kbd_handle (0x0C80) that positions axes: selecting   *)
(* and jogging an axis, POS a . n ENT, POS ENT, NOP, STOP and CLR.         *)
(*                                                                         *)
(* One poll of the main loop scans the matrix and, when a code comes back, *)
(* runs the editor on it, with interrupts off: one action.  The matrix is  *)
(* the set of keys held down, each named by its index row+1+(group-1)*8.   *)
(* The serial interrupt comes between polls and may overwrite the byte     *)
(* 0x6D, in which the editor keeps the number that is being typed and the  *)
(* answer to a query of all axes the fifth reading.                        *)
(***************************************************************************)
EXTENDS Integers, Sequences, FiniteSets, SequencesExt

CONSTANTS Keys,         \* key indices the user presses, within 1..24
          Chords,       \* bound: pairs of keys a finger may slip between
          Top,          \* largest byte, 255
          RepeatDelay,  \* polls before a held jog key repeats, 0x23
          RepeatRate,   \* polls between two repeats, 3
          Foreign       \* bound: bytes a frame may leave in 0x6D

Digits == 1 .. 10       \* digit d has index d + 1
Dot == 11
JogDown == 12
JogUp == 13
Ent == 14
Clr == 15
Pos == 19
Stop == 25              \* code of the keyboard event 0x20.1
Invalid == 255          \* what 0x56 holds after several keys at once

ASSUME KeysAssumption ==
  /\ Keys \subseteq Digits \cup {Dot, JogDown, JogUp, Ent, Clr, Pos}
  /\ Chords \subseteq SUBSET Keys /\ \A c \in Chords : Cardinality(c) = 2
ASSUME BytesAssumption ==
  /\ Top \in Nat /\ 9 <= Top /\ Foreign \subseteq 0 .. Top
  /\ RepeatDelay \in Nat \ {0} /\ RepeatRate \in Nat \ {0}
\* Slipping to another key and back takes three polls, as a repeat does.
ASSUME PaceAssumption == RepeatRate <= 3 /\ RepeatRate <= RepeatDelay

VARIABLES
  held,    \* the keys that are down
  event,   \* 0x20.1, set at the end of an emergency off
  kb,      \* the scanner: last (0x56), count (0x57), b5 and b6 of 0x20
  ed,      \* the editor: es (bits of 0x2A), em (bits of 0x29), r1, r3, r4, acc
  slot,    \* set-points 0x50..0x55, by axis
  code,    \* what this step gave to the editor, 0 for nothing
  op,      \* history: what the editor did with it
  digits,  \* history: the digit keys since the last other key but ENT, up to
           \* the next frame that touches 0x6D
  clean,   \* history: no frame touched 0x6D since the first of these
  prev,    \* history: what the last poll found, 0 for no key, Invalid for many
  since,   \* history: polls since the last code, up to RepeatRate
  latest   \* history: the last code: "up" or "down" for a jog step, "other";
           \* "let_go" once a poll found no key since, "idle" once two in a row did

scanVars == <<held, event, kb, code, prev, since, latest>>
editVars == <<ed, slot, op, digits, clean>>
vars == <<scanVars, editVars>>

Axes == 0 .. 5
Modes == {"none", "NOP", "POS_ALL", "POS_ONE", "STOP", "SHOW"}

Init ==
  /\ held = {} /\ event \in BOOLEAN
  /\ kb = [last |-> 0, count |-> 0, b5 |-> FALSE, b6 |-> FALSE]
  /\ ed = [es |-> {}, em |-> {}, r1 |-> 0, r3 |-> "none", r4 |-> 0, acc |-> 0]
  /\ slot = [a \in Axes |-> 0] /\ code = 0 /\ op = "none"
  /\ digits = <<>> /\ clean = TRUE /\ prev = 0 /\ since = 0 /\ latest = "other"

-----------------------------------------------------------------------------
(* The scanner.  A scan gives the scanner's new state and a code.          *)
Only == IF Cardinality(held) = 1 THEN CHOOSE k \in held : TRUE ELSE 0

Scan(k, c) == [kb |-> k, code |-> c]

kbd_evt == Scan([kb EXCEPT !.last = Stop, !.b6 = FALSE], Stop)
kbd_new == Scan([kb EXCEPT !.last = Invalid], 0)
key_changed(n) ==
  Scan([kb EXCEPT !.last = n, !.b5 = FALSE, !.count = RepeatDelay], 0)
\* A slip of the code: the release is not remembered.
key_release_missed == Scan(kb, 0)
key_release == Scan([kb EXCEPT !.b6 = TRUE], 0)
accept(n) == Scan([kb EXCEPT !.b6 = FALSE], n)

\* djnz on the count, which a set-point written to 0x57 may have made 0.
Fewer(n) == IF n = 0 THEN Top ELSE n - 1
\* A slip of the code: the count is not reloaded.
repeat_at_once(n) == Scan(kb, n)
repeat(n) == IF Fewer(kb.count) = 0
             THEN Scan([kb EXCEPT !.count = RepeatRate], n)
             ELSE Scan([kb EXCEPT !.count = Fewer(@)], 0)

\* A slip of the code: the release of the key is not awaited.
debounce_without_release(n) ==
  CASE n # kb.last -> key_changed(n)
    [] n = kb.last /\ n = 0 -> key_release
    [] n = kb.last /\ n # 0 /\ ~kb.b5 -> accept(n)
    [] n = kb.last /\ n # 0 /\ kb.b5 -> repeat(n)
debounce(n) ==
  CASE n # kb.last -> key_changed(n)
    [] n = kb.last /\ n = 0 -> key_release
    [] n = kb.last /\ n # 0 /\ ~kb.b6 -> Scan(kb, 0)
    [] n = kb.last /\ n # 0 /\ kb.b6 /\ ~kb.b5 -> accept(n)
    [] n = kb.last /\ n # 0 /\ kb.b6 /\ kb.b5 -> repeat(n)

kbd_scan == CASE event -> kbd_evt
              [] ~event /\ Cardinality(held) > 1 -> kbd_new
              [] ~event /\ Cardinality(held) <= 1 -> debounce(Only)

-----------------------------------------------------------------------------
(* The editor.  An entry is busy once bit 7 of es is set; bit 6 alone is   *)
(* the error that only CLR ends.  The bits of em say which keys may come.  *)
Busy == 7 \in ed.es
InError == 6 \in ed.es /\ ~Busy
Digit(c) == c - 1

Edit(name, e) == ed' = e /\ op' = name
\* What CLR and an error leave in em, r1, r3 and r4 is written before it is
\* read again: the model forgets it.
Blank == [es |-> {}, em |-> {}, r1 |-> 0, r3 |-> "none", r4 |-> 0, acc |-> 0]
Error == Edit("error", [Blank EXCEPT !.es = {6}]) /\ UNCHANGED slot
Cleared == Blank
KeepScan(k) == kb' = k

\* digit d selects axis d-1; 0 and 7..9 select none
SelectAxis(c) ==
  IF Digit(c) - 1 \in Axes
  THEN /\ Edit("select", [ed EXCEPT !.es = @ \cup {5, 7}, !.em = {6},
                                    !.r1 = Digit(c)])
       /\ UNCHANGED slot
  ELSE Error

Enter(mode, bits) ==
  /\ Edit("begin", [ed EXCEPT !.es = @ \cup {7}, !.r3 = mode, !.em = bits])
  /\ UNCHANGED slot

Begin(c) ==
  \/ c \in Digits /\ SelectAxis(c)
  \/ c = Dot /\ Enter("NOP", {5})
  \/ c = Pos /\ Enter("POS_ALL", {0, 1, 3, 5})
  \/ c = Stop /\ Enter("STOP", {4, 5, 7})
  \/ c \in {JogDown, JogUp, Ent} /\ Error

\* bits of em once a number may be ended, L_0D4D
Completed(em) == CASE 0 \in em /\ 1 \in em -> {7}
                   [] 0 \in em /\ 1 \notin em -> {6}
                   [] 0 \notin em /\ 1 \in em -> em \cup {5, 7}
                   [] 0 \notin em /\ 1 \notin em -> em \cup {5}

\* A slip of the code: a leading zero leaves the number as it was.
FirstNumberKept(c) == IF Digit(c) = 0 THEN ed.acc ELSE Digit(c)
FirstNumber(c) == Digit(c)
FirstDigit(c) ==
  /\ Edit("digit", [ed EXCEPT
            !.acc = FirstNumber(c),
            !.es = @ \cup (IF Digit(c) = 0 THEN {2} ELSE {1, 2}),
            !.em = Completed(IF Digit(c) = 0 THEN @ \ {3, 4} ELSE @)])
  /\ UNCHANGED slot

\* POS a: 1..8 are accepted; Top stands for the mask of the axis, which goes
\* through 0x6D
TypedAxis(c) ==
  IF Digit(c) \in 1 .. 8
  THEN /\ Edit("axis", [ed EXCEPT !.es = @ \cup {2}, !.em = Completed(@ \ {3}),
                                  !.r4 = Digit(c), !.acc = Top])
       /\ UNCHANGED slot
  ELSE Error

pos_digit(c) ==
  IF 10 * ed.acc + Digit(c) <= Top
  THEN /\ Edit("digit", [ed EXCEPT !.acc = 10 * @ + Digit(c)])
       /\ UNCHANGED slot
  ELSE Error

NumberKey(c) ==
  \/ 5 \in ed.es /\ SelectAxis(c)
  \/ 5 \notin ed.es /\ 1 \in ed.es /\ pos_digit(c)
  \/ {1, 5} \cap ed.es = {} /\ 4 \in ed.em /\ FirstDigit(c)
  \/ {1, 5} \cap ed.es = {} /\ 4 \notin ed.em /\ 3 \in ed.em /\ TypedAxis(c)
  \/ {1, 5} \cap ed.es = {} /\ {3, 4} \cap ed.em = {} /\ Error

\* R3 xor 2: the other form of the same instruction
OtherForm(m) == CASE m = "POS_ALL" -> "POS_ONE" [] m = "POS_ONE" -> "POS_ALL"
                  [] m = "STOP" -> "SHOW" [] m = "SHOW" -> "STOP"
                  [] OTHER -> m
DotKey ==
  IF 7 \in ed.em
  THEN /\ Edit("dot", [ed EXCEPT !.es = @ \ {1}, !.r3 = OtherForm(@),
                                 !.em = IF 2 \in ed.es THEN {4} ELSE {4, 5}])
       /\ UNCHANGED slot
  ELSE Error

\* kh_jog: the axis moves one step, the key may repeat.  Left out here and in
\* pos_commit is L_0E38, which has the main loop watch the motion (0x21 cleared,
\* 0x25.7 set, 0x19 loaded), as Watch in Controller does for a command.
\* A slip of the code: no limit.
StepOn(v, c) == IF c = JogUp THEN v + 1 ELSE v - 1
Step(v, c) == IF c = JogUp THEN (IF v = Top THEN v ELSE v + 1)
                           ELSE (IF v = 0 THEN v ELSE v - 1)
kh_jog(c, k) ==
  /\ KeepScan([k EXCEPT !.b5 = TRUE, !.b6 = TRUE])
  /\ slot' = [slot EXCEPT ![ed.r1 - 1] = Step(@, c)]
  /\ Edit("jog", ed)

\* pos_commit writes 0x4F + a: for a = 7 and 8 that is the scanner's memory
pos_commit(k) ==
  /\ slot' = IF ed.r4 <= 6 THEN [slot EXCEPT ![ed.r4 - 1] = ed.acc] ELSE slot
  /\ KeepScan(CASE ed.r4 = 7 -> [k EXCEPT !.last = ed.acc]
                [] ed.r4 = 8 -> [k EXCEPT !.count = ed.acc]
                [] ed.r4 \notin {7, 8} -> k)
  /\ Edit("commit", [Cleared EXCEPT !.r4 = ed.r4])

\* Stopping or displaying the program, whose memory is not modelled here.
StopEntered ==
  /\ UNCHANGED slot
  /\ IF ed.r3 = "STOP" THEN Edit("stop", Cleared)
     ELSE Edit("show", [ed EXCEPT !.es = @ \cup {4}, !.em = {6}])

EntKey(k) ==
  \/ 5 \notin ed.em /\ Error /\ KeepScan(k)
  \/ 5 \in ed.em /\ ed.r3 = "POS_ONE" /\ pos_commit(k)
  \/ 5 \in ed.em /\ ed.r3 \in {"STOP", "SHOW"} /\ StopEntered /\ KeepScan(k)
  \/ /\ 5 \in ed.em /\ ed.r3 \in {"POS_ALL", "NOP"}
     /\ Edit("store", Cleared) /\ UNCHANGED slot /\ KeepScan(k)

\* In the display a jog key shows the next record, or there is no program.
JogKey(c, k) ==
  \/ 6 \notin ed.em /\ Error /\ KeepScan(k)
  \/ 6 \in ed.em /\ 5 \in ed.es /\ kh_jog(c, k)
  \/ /\ 6 \in ed.em /\ 5 \notin ed.es /\ KeepScan(k)
     /\ Error \/ (Edit("browse", ed) /\ UNCHANGED slot)

kbd_handle(c, k) ==
  \/ c = Clr /\ Edit("clear", Cleared) /\ UNCHANGED slot /\ KeepScan(k)
  \/ /\ c # Clr /\ InError
     /\ Edit("ignored", ed) /\ UNCHANGED slot /\ KeepScan(k)
  \/ c # Clr /\ ~InError /\ ~Busy /\ Begin(c) /\ KeepScan(k)
  \/ c \in Digits /\ Busy /\ NumberKey(c) /\ KeepScan(k)
  \/ c = Dot /\ Busy /\ DotKey /\ KeepScan(k)
  \/ c = Ent /\ Busy /\ EntKey(k)
  \/ c \in {JogDown, JogUp} /\ Busy /\ JogKey(c, k)
  \/ c \in {Pos, Stop} /\ Busy /\ Error /\ KeepScan(k)

-----------------------------------------------------------------------------
\* What the editor refuses is no part of a number, any other key ends one.
Before == IF op = "commit" THEN <<>> ELSE digits
StillClean == clean' = (clean \/ digits' = <<>>)
Remember(c) ==
  /\ digits' = CASE c = 0 -> Before
                 [] c = Ent /\ op' = "commit" -> digits
                 [] c \in Digits /\ op' = "digit" ->
                      IF clean THEN Append(digits, Digit(c)) ELSE digits
                 [] OTHER -> <<>>
  /\ StillClean

Kind(c) == IF op' # "jog" THEN "other" ELSE IF c = JogUp THEN "up" ELSE "down"
Look(c) ==
  /\ code' = c /\ event' = FALSE
  /\ prev' = IF event \/ Cardinality(held) > 1 THEN Invalid ELSE Only
  /\ since' = IF c # 0 THEN 0 ELSE IF since < RepeatRate THEN since + 1 ELSE since
  /\ latest' = CASE c # 0 -> Kind(c)
                 [] c = 0 /\ held # {} -> latest
                 [] c = 0 /\ held = {} /\ prev = 0 -> "idle"
                 [] c = 0 /\ held = {} /\ prev # 0 -> "let_go"

\* tb_poll: the main loop polls while no program runs
tb_poll ==
  LET s == kbd_scan
  IN /\ IF s.code = 0
        THEN kb' = s.kb /\ op' = "none" /\ UNCHANGED <<ed, slot>>
        ELSE kbd_handle(s.code, s.kb)
     /\ Look(s.code) /\ Remember(s.code) /\ UNCHANGED held

\* No poll: nothing goes to the editor.
Between ==
  /\ code' = 0 /\ op' = "none" /\ digits' = Before
  /\ UNCHANGED <<kb, slot, prev, since, latest>>

Hands ==
  /\ held' \in {{}} \cup {{k} : k \in Keys} \cup Chords /\ held' # held
  /\ held = {} \/ held' = {} \/ \E c \in Chords : held \cup held' \subseteq c
  /\ Between /\ StillClean /\ UNCHANGED <<event, ed>>

\* The end of an emergency off, while no program runs.
EmergencyOver ==
  /\ ~event /\ event' = TRUE
  /\ Between /\ StillClean /\ UNCHANGED <<held, ed>>

\* A frame that overwrites 0x6D: a query of all axes, the answer to which is put
\* together from 0x68 on (the payload of a frame goes to 0x60 and 0x70, and does
\* not reach it).  It leaves any byte of Foreign, at any time, which is more than
\* the readings of an axis can be.
SerialFrame ==
  /\ \E v \in Foreign : ed' = [ed EXCEPT !.acc = v]
  /\ Between /\ clean' = (digits' = <<>>)
  /\ UNCHANGED <<held, event>>

Next == tb_poll \/ Hands \/ EmergencyOver \/ SerialFrame

Spec == Init /\ [][Next]_vars

-----------------------------------------------------------------------------
\* Type correctness of scanner and editor.
TeachboxTypeOK ==
  /\ held \subseteq Keys
  /\ kb \in [last : Keys \cup (0 .. Top) \cup {Stop, Invalid},
             count : (0 .. Top) \cup (0 .. RepeatDelay) \cup (0 .. RepeatRate),
             b5 : BOOLEAN, b6 : BOOLEAN]
  /\ ed.es \subseteq 1 .. 7 /\ ed.em \subseteq 0 .. 7 /\ ed.r1 \in 0 .. 8
  /\ ed.r3 \in Modes /\ ed.r4 \in 0 .. 8 /\ ed.acc \in 0 .. Top
  /\ slot \in [Axes -> 0 .. Top] /\ code \in Keys \cup {0, Stop}

\* Debouncing: a code other than STOP is that of the one key found at this
\* poll and at the one before, and after any code another one needs a poll
\* without a key, unless the last one was a jog step (which lets the key
\* repeat) - whatever chords, emergency stops and set-points written over the
\* scanner's own bytes came in between.
CodesAreDeliberate ==
  [][(code' # 0 /\ ~event) => /\ held = {code'} /\ prev = code'
                             /\ latest # "other"]_vars

\* A jog key that is not let go moves the axis no sooner than every RepeatRate
\* polls, also when the user slips onto another key and back.
JogsArePaced ==
  [][(op' = "jog" /\ latest' = latest) => since >= RepeatRate - 1]_vars

Shift == [x \in Nat \X (0 .. 9) |-> 10 * x[1] + x[2]]
Decimal(s) == FoldLeft(LAMBDA v, d : Shift[<<v, d>>], 0, s)
Written == CASE ed.r4 <= 6 -> slot[ed.r4 - 1]
             [] ed.r4 = 7 -> kb.last
             [] ed.r4 = 8 -> kb.count

\* What ENT commits after POS a . n is the decimal number of the digit keys
\* since the point, whatever was typed, refused or cleared before - unless a
\* query came between the first digit and ENT: the editor keeps the number in
\* the buffer of the answers.
CommitIsTyped ==
  (op = "commit" /\ clean) => digits # <<>> /\ Written = Decimal(digits)

\* No press is lost: once two polls in a row found no key since the last code,
\* a key that is down now and was the only one at the last poll is given to the
\* editor by the next poll.
PressedKeyIsSeen ==
  (latest = "idle" /\ ~event /\ prev # 0 /\ held = {prev})
    => kbd_scan.code = prev
=============================================================================
