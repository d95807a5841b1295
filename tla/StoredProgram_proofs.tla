----------------------- MODULE StoredProgram_proofs -----------------------
(***************************************************************************)
(* Proofs about StoredProgram, for every width of a byte, every set of     *)
(* labels and well-formed programs, and every size of the program memory.  *)
(***************************************************************************)
EXTENDS StoredProgram, TLAPS

USE ProgramAssumption

Waits == {"nothing", "motion", "time", "input"}

-----------------------------------------------------------------------------
(* Bytes, slots and instructions.                                          *)

(* Counting up and down stays in the byte; one undoes the other.           *)
LEMMA UpAndDown ==
  ASSUME NEW b \in Byte
  PROVE  Up(b) \in Byte /\ Down(b) \in Byte /\ Down(Up(b)) = b
BY DEF Up, Down, Byte

LEMMA PlainIsInstr ==
  ASSUME NEW op \in Ops
  PROVE  Plain(op) \in Instr /\ Plain(op).op = op
<1>1. AnyLabel \in Labels
  BY DEF AnyLabel
<1>2. 0 \in Byte
  BY DEF Byte
<1> QED BY <1>1, <1>2 DEF Plain, Instr

(* Types of the program's own registers and of the histories.              *)
TypeInv ==
  /\ ProgramTypeOK
  /\ loaded \in BOOLEAN /\ ready \in BOOLEAN /\ run \in BOOLEAN /\ busy \in BOOLEAN
  /\ tick \in BOOLEAN /\ due \in BOOLEAN /\ replaced \in BOOLEAN
  /\ taken \in [Slots -> Byte] /\ owed \in Nat

LEMMA HereType ==
  ASSUME TypeInv
  PROVE  Here \in Instr /\ (Here.op # "END" => pc \in Slots /\ Here = ram[pc])
<1>1. "END" \in Ops
  BY DEF Ops
<1> QED BY <1>1, PlainIsInstr DEF Here, TypeInv, ProgramTypeOK

(* What the preparation leaves: labels lead to slots, counts are bytes.    *)
LEMMA PreparedType ==
  ASSUME TypeInv
  PROVE  LabelTable \in [Labels -> Slots] /\ ClearedCounts \in [Slots -> Byte]
<1>1. len \in Slots /\ 0 \in Slots /\ 0 \in Byte
  BY DEF TypeInv, ProgramTypeOK, Slots, Byte
<1>2. Scanned \subseteq Slots
  BY <1>1 DEF Scanned, Slots
<1>3. ASSUME NEW m \in Labels
      PROVE  (IF First(m) = {} THEN 0 ELSE CHOOSE s \in First(m) : TRUE) \in Slots
  BY <1>1, <1>2 DEF First, Marks
<1>4. ClearedCounts \in [Slots -> Byte]
  BY <1>1 DEF ClearedCounts, TypeInv, ProgramTypeOK
<1> QED BY <1>3, <1>4 DEF LabelTable

(* Every start begins at a slot.                                           *)
Starting == RunProgram \/ RunLabel \/ Autostart

LEMMA StartsAtASlot ==
  ASSUME TypeInv, Starting
  PROVE  \E at \in Slots, w \in {"nothing", waitFor} :
           /\ Start(at, w)
           /\ at = 0 \/ (loaded /\ \E m \in Labels : at = labels[m])
           /\ w = "nothing" \/ loaded
<1>1. 0 \in Slots
  BY DEF Slots
<1>2. \A m \in Labels : labels[m] \in Slots
  BY DEF TypeInv, ProgramTypeOK
<1> QED BY <1>1, <1>2 DEF Starting, RunProgram, RunLabel, Autostart

(* A step is one of nine kinds.                                            *)
LEMMA StepKinds ==
  ASSUME [Next]_vars
  PROVE  \/ \E p \in Programs : Download(p)
         \/ LoadProgram
         \/ Starting
         \/ StopProgram \/ StopAtLabel
         \/ Continue \/ SingleStep \/ Pause \/ HostMoves
         \/ Execute
         \/ MotionOver \/ InputComes
         \/ Period
         \/ Slow2 \/ Settle \/ UNCHANGED vars
BY DEF Next, Host, motion_exec, Starting

-----------------------------------------------------------------------------
(* Type correctness.                                                       *)

LEMMA InitType == Init => TypeInv
<1> SUFFICES ASSUME Init PROVE TypeInv
  OBVIOUS
<1>1. Plain("END") \in Instr /\ Plain("OTHER") \in Instr
  BY PlainIsInstr DEF Ops
<1>2. 0 \in Slots /\ 0 \in Byte
  BY DEF Slots, Byte
<1>3. ram \in [Slots -> Instr]
  BY <1>1 DEF Init
<1>4. /\ count \in [Slots -> Byte] /\ len \in Slots /\ labels \in [Labels -> Slots]
      /\ pc \in Nat /\ timer \in [lo : Byte, hi : Byte] /\ taken \in [Slots -> Byte]
  BY <1>2 DEF Init
<1> QED BY <1>3, <1>4 DEF Init, TypeInv, ProgramTypeOK

LEMMA DownloadType ==
  ASSUME TypeInv, NEW p \in Programs, Download(p)
  PROVE  TypeInv'
<1>1. p \in Seq(Instr) /\ Len(p) < Size /\ Len(p) \in Nat
  <2>1. WellFormed(p)
    OBVIOUS
  <2>2. p \in Seq(Instr) /\ Len(p) < Size
    BY <2>1 DEF WellFormed
  <2> QED BY <2>2
<1>2. Len(p) \in Slots /\ 0 \in Byte
  BY <1>1 DEF Slots, Byte
<1>3. Plain("END") \in Instr
  BY PlainIsInstr DEF Ops
<1>4. ram' \in [Slots -> Instr]
  <2>1. ASSUME NEW s \in Slots
        PROVE  (CASE s < Len(p) -> p[s + 1] [] s = Len(p) -> Plain("END")
                  [] s > Len(p) -> ram[s]) \in Instr
    <3>1. CASE s < Len(p)
      <4>1. s + 1 \in 1 .. Len(p)
        BY <1>1, <3>1 DEF Slots
      <4>2. p[s + 1] \in Instr
        BY <1>1, <4>1
      <4> QED BY <1>1, <3>1, <4>2 DEF Slots
    <3>2. CASE s = Len(p)
      BY <1>1, <1>3, <3>2 DEF Slots
    <3>3. CASE s > Len(p)
      BY <1>1, <3>3 DEF Slots, TypeInv, ProgramTypeOK
    <3> QED BY <1>1, <3>1, <3>2, <3>3 DEF Slots
  <2> QED BY <2>1 DEF Download
<1>5. count' \in [Slots -> Byte]
  BY DEF Download, TypeInv, ProgramTypeOK
<1> QED BY <1>2, <1>4, <1>5 DEF Download, TypeInv, ProgramTypeOK, control, world

LEMMA StartType ==
  ASSUME TypeInv, NEW at \in Slots, NEW w \in Waits, Start(at, w)
  PROVE  TypeInv'
<1>1. labels' \in [Labels -> Slots] /\ count' \in [Slots -> Byte]
  BY PreparedType DEF Start
<1>2. 0 \in Slots /\ 0 \in Byte /\ at \in Nat
  BY DEF Slots, Byte
<1>3. /\ pc' \in Nat /\ waitFor' \in Waits /\ UNCHANGED <<timer, tick, owed>>
  BY <1>2 DEF Start, world
<1>4. CASE Sound
  BY <1>1, <1>2, <1>3, <1>4 DEF Start, TypeInv, ProgramTypeOK, Waits
<1>5. CASE ~Sound
  <2>1. ram' \in [Slots -> Instr]
    <3>1. Plain("END") \in Instr
      BY PlainIsInstr DEF Ops
    <3> QED BY <1>5, <3>1 DEF Start, Void, TypeInv, ProgramTypeOK
  <2> QED BY <1>1, <1>2, <1>3, <1>5, <2>1 DEF Start, Void, TypeInv, ProgramTypeOK, Waits
<1> QED BY <1>4, <1>5

LEMMA LoadType ==
  ASSUME TypeInv, LoadProgram
  PROVE  TypeInv'
<1>1. labels' \in [Labels -> Slots] /\ count' \in [Slots -> Byte]
  BY PreparedType DEF LoadProgram
<1>2. 0 \in Slots
  BY DEF Slots
<1>3. CASE Sound
  BY <1>1, <1>3 DEF LoadProgram, TypeInv, ProgramTypeOK, control, world, history
<1>4. CASE ~Sound
  <2>1. ram' \in [Slots -> Instr]
    <3>1. Plain("END") \in Instr
      BY PlainIsInstr DEF Ops
    <3> QED BY <1>4, <3>1 DEF LoadProgram, Void, TypeInv, ProgramTypeOK
  <2> QED BY <1>1, <1>2, <1>4, <2>1
          DEF LoadProgram, Void, TypeInv, ProgramTypeOK, control, world, history
<1> QED BY <1>3, <1>4

LEMMA ExecuteType ==
  ASSUME TypeInv, Execute
  PROVE  TypeInv'
<1>1. Here \in Instr /\ (Here.op # "END" => pc \in Slots)
  BY HereType
<1>2. /\ Here.m \in Labels /\ Here.n \in Byte /\ Here.lo \in Byte /\ Here.hi \in Byte
      /\ Here.ack \in BOOLEAN
  BY <1>1 DEF Instr
<1>3. labels[Here.m] \in Nat /\ pc \in Nat
  BY <1>2 DEF TypeInv, ProgramTypeOK, Slots
<1>4. /\ UNCHANGED <<ram, len, labels, loaded, tick, replaced>> /\ due' \in BOOLEAN
  BY DEF Execute
<1>5. /\ ready' \in BOOLEAN /\ run' \in BOOLEAN /\ busy' \in BOOLEAN /\ waitFor' \in Waits
  BY <1>2 DEF Execute, Halt, End, Motion, Tim, WaitInput, Jump, CountedJump, NoEffect,
       Waiting, Quickly, StepOver, TypeInv, ProgramTypeOK, Waits
<1>6. pc' \in Nat
  <2>1. pc' \in {pc, pc + 1, pc + 2, labels[Here.m]}
    BY DEF Execute, Halt, End, Motion, Tim, WaitInput, Jump, CountedJump, NoEffect,
         GoOn, Goto
  <2> QED BY <1>3, <2>1
<1>7. /\ timer' \in [lo : Byte, hi : Byte] /\ owed' \in Nat
  <2>1. CASE Tim
    <3>1. Up(Here.hi) \in Byte
      BY <1>2, UpAndDown
    <3>2. Top \in Nat /\ Here.lo \in Nat /\ Here.hi \in Nat
      BY <1>2 DEF Byte
    <3>3. (Top + 1) * Here.hi \in Nat
      BY <3>2
    <3>4. Duration(Here) \in Nat
      BY <3>2, <3>3 DEF Duration
    <3> QED BY <1>2, <2>1, <3>1, <3>4 DEF Tim, HighByte
  <2>2. CASE ~Tim
    BY <2>2 DEF Execute, Halt, End, Motion, WaitInput, Jump, CountedJump, NoEffect,
         TypeInv, ProgramTypeOK
  <2> QED BY <2>1, <2>2
<1>8. count' \in [Slots -> Byte] /\ taken' \in [Slots -> Byte]
  <2>1. CASE CountedJump
    <3>1. pc \in Slots
      BY <1>1, <2>1 DEF CountedJump
    <3>2. Up(count[pc]) \in Byte /\ Up(taken[pc]) \in Byte /\ 0 \in Byte
      BY <3>1, UpAndDown DEF TypeInv, ProgramTypeOK, Byte
    <3> QED BY <2>1, <3>1, <3>2 DEF CountedJump, CountUp, TypeInv, ProgramTypeOK
  <2>2. CASE ~CountedJump
    BY <2>2 DEF Execute, Halt, End, Motion, Tim, WaitInput, Jump, NoEffect,
         TypeInv, ProgramTypeOK
  <2> QED BY <2>1, <2>2
<1> QED BY <1>4, <1>5, <1>6, <1>7, <1>8 DEF TypeInv, ProgramTypeOK, Waits

LEMMA StepType == TypeInv /\ [Next]_vars => TypeInv'
<1> SUFFICES ASSUME TypeInv, [Next]_vars PROVE TypeInv'
  OBVIOUS
<1>1. ASSUME NEW p \in Programs, Download(p) PROVE TypeInv'
  BY <1>1, DownloadType
<1>2. CASE LoadProgram
  BY <1>2, LoadType
<1>3. CASE Starting
  <2>1. PICK at \in Slots, w \in {"nothing", waitFor} : Start(at, w)
    BY <1>3, StartsAtASlot
  <2>2. w \in Waits
    BY DEF TypeInv, ProgramTypeOK, Waits
  <2> QED BY <2>1, <2>2, StartType
<1>4. CASE StopProgram \/ StopAtLabel
  <2>1. pc' \in Nat
    BY <1>4 DEF StopProgram, StopAtLabel, StopAt, TypeInv, ProgramTypeOK, Slots
  <2>2. /\ UNCHANGED <<ram, count, len, labels, loaded, timer, tick, taken, owed, due, replaced>>
        /\ ready' = FALSE /\ run' = FALSE /\ busy' = FALSE /\ waitFor' = "nothing"
    BY <1>4 DEF StopProgram, StopAtLabel, StopAt, Stopped, memory, world, history
  <2> QED BY <2>1, <2>2 DEF TypeInv, ProgramTypeOK
<1>5. CASE Continue \/ SingleStep \/ Pause \/ HostMoves
  BY <1>5 DEF Continue, SingleStep, Pause, HostMoves, TypeInv, ProgramTypeOK,
       memory, flags, control, world, history
<1>6. CASE Execute
  BY <1>6, ExecuteType
<1>7. CASE MotionOver \/ InputComes
  BY <1>7 DEF MotionOver, InputComes, Over, TypeInv, ProgramTypeOK, memory, history
<1>8. CASE Period
  <2>1. timer.lo \in Byte /\ timer.hi \in Byte
    BY DEF TypeInv, ProgramTypeOK
  <2>2. timer' \in [lo : Byte, hi : Byte]
    BY <1>8, <2>1, UpAndDown DEF Period
  <2> QED BY <1>8, <2>2 DEF Period, Over, TypeInv, ProgramTypeOK, memory, flags, history
<1>9. CASE Slow2 \/ Settle \/ UNCHANGED vars
  <2>1. CASE Slow2
    <3>1. owed' \in Nat
      BY <2>1 DEF Slow2, TypeInv
    <3> QED BY <2>1, <3>1 DEF Slow2, TypeInv, ProgramTypeOK, memory, flags, control
  <2>2. CASE Settle
    BY <2>2 DEF Settle, TypeInv, ProgramTypeOK, memory, flags, control, history
  <2>3. CASE UNCHANGED vars
    BY <2>3 DEF vars, TypeInv, ProgramTypeOK, memory, flags, control, world, history
  <2> QED BY <1>9, <2>1, <2>2, <2>3
<1> QED BY <1>1, <1>2, <1>3, <1>4, <1>5, <1>6, <1>7, <1>8, <1>9, StepKinds

(* The interpreter's registers and the memory keep their width.            *)
THEOREM ProgramTypeCorrect == Spec => []ProgramTypeOK
<1>1. TypeInv => ProgramTypeOK
  BY DEF TypeInv
<1> QED BY <1>1, InitType, StepType, PTL DEF Spec

-----------------------------------------------------------------------------
(* The program in the memory: closed by an end marker, and every move of    *)
(* two slots whole; once it is loaded it has no end marker inside.         *)
Whole(r, n) ==
  /\ \A s \in 0 .. n - 1 :
       r[s].op = "MOVE ALL" => s + 1 \in 0 .. n - 1 /\ r[s + 1].op = "DATA"
  /\ \A s \in 0 .. n - 1 :
       r[s].op = "DATA" => s - 1 \in 0 .. n - 1 /\ r[s - 1].op = "MOVE ALL"
Unended(r, n) == n >= 1 /\ \A s \in 0 .. n - 1 : r[s].op # "END"

StoreInv ==
  /\ ram[len].op = "END" /\ Whole(ram, len)
  /\ loaded => Unended(ram, len)

LEMMA EndMarker == Plain("END").op = "END" /\ 0 \in Slots
<1>1. "END" \in Ops
  BY DEF Ops
<1>2. 0 \in Slots
  BY DEF Slots
<1> QED BY <1>1, <1>2, PlainIsInstr

(* What the preparation demands is what StoreInv says.                     *)
LEMMA SoundIsUnended ==
  ASSUME TypeInv, StoreInv
  PROVE  Sound <=> Unended(ram, len)
<1>1. len \in Nat
  BY DEF TypeInv, ProgramTypeOK, Slots
<1>2. Closed
  BY DEF Closed, StoreInv
<1>3. (len # 0) <=> (len >= 1)
  BY <1>1
<1>4. Ends = {} <=> \A s \in 0 .. len - 1 : ram[s].op # "END"
  BY DEF Ends
<1> QED BY <1>2, <1>3, <1>4 DEF Sound, Unended

(* Only downloads, loads and starts touch the program.                     *)
Elsewhere ==
  \/ StopProgram \/ StopAtLabel
  \/ Continue \/ SingleStep \/ Pause \/ HostMoves
  \/ Execute
  \/ MotionOver \/ InputComes
  \/ Period
  \/ Slow2 \/ Settle \/ UNCHANGED vars

LEMMA ProgramKept ==
  ASSUME Elsewhere
  PROVE  UNCHANGED <<ram, len, labels, loaded, replaced>>
<1>1. CASE StopProgram \/ StopAtLabel
  BY <1>1 DEF StopProgram, StopAtLabel, StopAt, memory, history
<1>2. CASE Continue \/ SingleStep \/ Pause \/ HostMoves
  BY <1>2 DEF Continue, SingleStep, Pause, HostMoves, memory, flags, history
<1>3. CASE Execute
  BY <1>3 DEF Execute
<1>4. CASE MotionOver \/ InputComes
  BY <1>4 DEF MotionOver, InputComes, Over, memory, history
<1>5. CASE Period
  BY <1>5 DEF Period, Over, memory, flags, history
<1>6. CASE Slow2 \/ Settle \/ UNCHANGED vars
  BY <1>6 DEF Slow2, Settle, vars, memory, flags, history
<1> QED BY <1>1, <1>2, <1>3, <1>4, <1>5, <1>6 DEF Elsewhere

(* What a program becomes when it is prepared, by a load or a start.       *)
LEMMA PreparedStore ==
  ASSUME TypeInv, StoreInv,
         \/ Sound /\ UNCHANGED <<ram, len>>
         \/ len' = 0 /\ ram' = [ram EXCEPT ![0] = Plain("END")] /\ ~loaded'
  PROVE  StoreInv'
<1>1. CASE Sound /\ UNCHANGED <<ram, len>>
  BY <1>1, SoundIsUnended DEF StoreInv
<1>2. CASE len' = 0 /\ ram' = [ram EXCEPT ![0] = Plain("END")] /\ ~loaded'
  <2>1. ram'[0].op = "END"
    BY <1>2, EndMarker DEF TypeInv, ProgramTypeOK
  <2>2. \A s \in 0 .. 0 - 1 : FALSE
    OBVIOUS
  <2>3. Whole(ram', 0)
    BY <2>2 DEF Whole
  <2> QED BY <1>2, <2>1, <2>3 DEF StoreInv
<1> QED BY <1>1, <1>2

LEMMA DownloadStore ==
  ASSUME NEW p \in Programs, Download(p)
  PROVE  StoreInv'
<1>1. /\ p \in Seq(Instr) /\ Len(p) < Size
      /\ \A i \in DOMAIN p : p[i].op = "MOVE ALL" => i < Len(p) /\ p[i + 1].op = "DATA"
      /\ \A i \in DOMAIN p : p[i].op = "DATA" => i > 1 /\ p[i - 1].op = "MOVE ALL"
  <2>1. WellFormed(p)
    OBVIOUS
  <2> QED BY <2>1 DEF WellFormed
<1>2. Len(p) \in Nat /\ DOMAIN p = 1 .. Len(p)
  <2>1. p \in Seq(Instr)
    BY <1>1
  <2> QED BY <2>1
<1>3. Len(p) <= Size - 1
  <2>1. Len(p) < Size
    BY <1>1
  <2> QED BY <1>2, <2>1
<1>4. /\ len' = Len(p) /\ loaded' = FALSE
      /\ ram' = [s \in Slots |-> CASE s < Len(p) -> p[s + 1]
                                   [] s = Len(p) -> Plain("END")
                                   [] s > Len(p) -> ram[s]]
  BY DEF Download
<1>5. ram'[len'].op = "END"
  <2>1. Len(p) \in Slots
    BY <1>2, <1>3 DEF Slots
  <2>2. ~(Len(p) < Len(p)) /\ ~(Len(p) > Len(p))
    BY <1>2
  <2>3. ram'[Len(p)] = Plain("END")
    BY <1>4, <2>1, <2>2
  <2> QED BY <1>4, <2>3, EndMarker
<1>6. \A s \in 0 .. Len(p) - 1 : ram'[s] = p[s + 1] /\ s + 1 \in DOMAIN p
  <2> SUFFICES ASSUME NEW s \in 0 .. Len(p) - 1
               PROVE  ram'[s] = p[s + 1] /\ s + 1 \in DOMAIN p
    OBVIOUS
  <2>2. s \in 0 .. Size - 1
    BY <1>2, <1>3
  <2>3. s < Len(p) /\ s + 1 \in 1 .. Len(p)
    BY <1>2
  <2> QED BY <1>2, <1>4, <2>2, <2>3 DEF Slots
<1>7. ASSUME NEW s \in 0 .. len' - 1, ram'[s].op = "MOVE ALL"
      PROVE  s + 1 \in 0 .. len' - 1 /\ ram'[s + 1].op = "DATA"
  <2>1. s + 1 < Len(p) /\ p[(s + 1) + 1].op = "DATA"
    BY <1>1, <1>4, <1>6, <1>7
  <2>2. s \in 0 .. Len(p) - 1
    BY <1>4
  <2>3. s + 1 \in 0 .. Len(p) - 1
    BY <1>2, <2>1, <2>2
  <2> QED BY <1>4, <1>6, <2>1, <2>3
<1>8. ASSUME NEW s \in 0 .. len' - 1, ram'[s].op = "DATA"
      PROVE  s - 1 \in 0 .. len' - 1 /\ ram'[s - 1].op = "MOVE ALL"
  <2>1. s + 1 \in DOMAIN p /\ p[s + 1].op = "DATA"
    BY <1>4, <1>6, <1>8
  <2>2. s + 1 > 1 /\ p[(s + 1) - 1].op = "MOVE ALL"
    BY <1>1, <2>1
  <2>3. s \in 0 .. Len(p) - 1
    BY <1>4
  <2>4. s + 1 > 1
    BY <2>2
  <2>5. s - 1 \in 0 .. Len(p) - 1
    BY <1>2, <2>3, <2>4
  <2>6. (s + 1) - 1 = (s - 1) + 1
    BY <2>3
  <2> QED BY <1>4, <1>6, <2>2, <2>5, <2>6
<1> QED BY <1>4, <1>5, <1>7, <1>8 DEF StoreInv, Whole

LEMMA StepStore == TypeInv /\ StoreInv /\ [Next]_vars => StoreInv'
<1> SUFFICES ASSUME TypeInv, StoreInv, [Next]_vars PROVE StoreInv'
  OBVIOUS
<1>1. ASSUME NEW p \in Programs, Download(p) PROVE StoreInv'
  BY <1>1, DownloadStore
<1>2. CASE LoadProgram
  BY <1>2, PreparedStore DEF LoadProgram, Void
<1>3. CASE Starting
  <2>1. PICK at \in Slots, w \in {"nothing", waitFor} : Start(at, w)
    BY <1>3, StartsAtASlot
  <2> QED BY <2>1, PreparedStore DEF Start, Void
<1>4. CASE Elsewhere
  BY <1>4, ProgramKept DEF StoreInv
<1> QED BY <1>1, <1>2, <1>3, <1>4, StepKinds DEF Elsewhere

LEMMA InitStore == Init => StoreInv
<1> SUFFICES ASSUME Init PROVE StoreInv
  OBVIOUS
<1>1. ram[0].op = "END" /\ len = 0 /\ ~loaded
  BY EndMarker DEF Init
<1>2. \A s \in 0 .. 0 - 1 : FALSE
  OBVIOUS
<1>3. Whole(ram, 0)
  BY <1>2 DEF Whole
<1> QED BY <1>1, <1>3 DEF StoreInv

-----------------------------------------------------------------------------
(* Who is active has a program; who waits is busy; who is busy and does not *)
(* wait owes an instruction.                                               *)
RunInv ==
  /\ Active => loaded
  /\ waitFor # "nothing" => busy
  /\ busy /\ waitFor = "nothing" => due

LEMMA StepRun == TypeInv /\ StoreInv /\ RunInv /\ [Next]_vars => RunInv'
<1> SUFFICES ASSUME TypeInv, StoreInv, RunInv, [Next]_vars PROVE RunInv'
  OBVIOUS
<1> USE DEF RunInv, Active
<1>1. ASSUME NEW p \in Programs, Download(p) PROVE RunInv'
  BY <1>1 DEF Download, control
<1>2. CASE LoadProgram
  BY <1>2 DEF LoadProgram, Void, control, history
<1>3. CASE Starting
  <2>1. PICK at \in Slots, w \in {"nothing", waitFor} :
          Start(at, w) /\ (w = "nothing" \/ loaded)
    BY <1>3, StartsAtASlot
  <2>2. CASE Sound
    BY <2>1, <2>2 DEF Start
  <2>3. CASE ~Sound
    <3>1. ~loaded
      BY <2>3, SoundIsUnended DEF StoreInv
    <3> QED BY <2>1, <2>3, <3>1 DEF Start, Void
  <2> QED BY <2>2, <2>3
<1>4. CASE StopProgram \/ StopAtLabel
  BY <1>4 DEF StopProgram, StopAtLabel, StopAt, Stopped
<1>5. CASE Continue \/ SingleStep \/ Pause \/ HostMoves
  BY <1>5 DEF Continue, SingleStep, Pause, HostMoves, flags, control, history
<1>6. CASE Execute
  <2>1. loaded' /\ waitFor = "nothing"
    BY <1>6 DEF Execute
  <2>2. busy' = (waitFor' # "nothing")
    BY <1>6, <2>1 DEF Execute, Halt, End, Motion, Tim, WaitInput, Jump, CountedJump,
       NoEffect, Waiting, Quickly, StepOver
  <2> QED BY <2>1, <2>2
<1>7. CASE MotionOver \/ InputComes
  BY <1>7 DEF MotionOver, InputComes, Over
<1>8. CASE Period
  <2>1. CASE Elapsed
    BY <1>8, <2>1 DEF Period, Over
  <2>2. CASE ~Elapsed
    <3>1. UNCHANGED <<loaded, run, busy, waitFor, due>>
      BY <1>8, <2>2 DEF Period, flags, history
    <3> QED BY <3>1
  <2> QED BY <2>1, <2>2
<1>9. CASE Slow2 \/ Settle \/ UNCHANGED vars
  BY <1>9 DEF Slow2, Settle, vars, flags, control, history
<1> QED BY <1>1, <1>2, <1>3, <1>4, <1>5, <1>6, <1>7, <1>8, <1>9, StepKinds

LEMMA InitRun == Init => RunInv
BY DEF Init, RunInv, Active

(* A start finds an old wait only in the middle of it, and only the start  *)
(* at a label keeps it.                                                    *)
THEOREM StartsNotHeldUp == Spec => StartsUnhindered
<1>1. RunInv => [RunProgram \/ RunLabel \/ Autostart
                 => waitFor' = "nothing" \/ (RunLabel /\ busy)]_vars
  <2> SUFFICES ASSUME RunInv, RunProgram \/ RunLabel \/ Autostart
               PROVE  waitFor' = "nothing" \/ (RunLabel /\ busy)
    OBVIOUS
  <2>1. CASE RunProgram \/ Autostart
    BY <2>1 DEF RunProgram, Autostart, Start
  <2>2. CASE RunLabel
    <3>1. waitFor' = waitFor
      BY <2>2 DEF RunLabel, Start
    <3> QED BY <2>2, <3>1 DEF RunInv
  <2> QED BY <2>1, <2>2
<1> QED BY <1>1, InitType, InitStore, InitRun, StepType, StepStore, StepRun, PTL
        DEF Spec, StartsUnhindered

(* A program that does not run executes one instruction for a step.        *)
THEOREM StepsAreSingle == Spec => OneInstructionPerStep
<1>1. RunInv => [Execute /\ ~run => due]_vars
  BY DEF RunInv, Execute, Active
<1> QED BY <1>1, InitType, InitStore, InitRun, StepType, StepStore, StepRun, PTL
        DEF Spec, OneInstructionPerStep

-----------------------------------------------------------------------------
(* Where an instruction begins, or the program ends.                       *)
Entry(r, n, s) == s \in 0 .. n /\ r[s].op # "DATA"

LabelInv == loaded => \A m \in Labels : Entry(ram, len, labels[m])
PcInv == loaded /\ ~replaced => Entry(ram, len, pc)

LEMMA LenType ==
  ASSUME TypeInv
  PROVE  len \in Nat /\ len \in Slots /\ 0 .. len \subseteq Slots
BY DEF TypeInv, ProgramTypeOK, Slots

LEMMA FirstSlotIsEntry ==
  ASSUME TypeInv, StoreInv
  PROVE  Entry(ram, len, 0)
<1>1. len \in Nat
  BY LenType
<1>2. CASE len = 0
  BY <1>2 DEF StoreInv, Entry
<1>3. CASE len # 0
  <2>1. 0 \in 0 .. len - 1
    BY <1>1, <1>3
  <2>2. ~(0 - 1 \in 0 .. len - 1)
    BY <1>1
  <2>3. ram[0].op # "DATA"
    BY <2>1, <2>2 DEF StoreInv, Whole
  <2> QED BY <1>1, <2>3 DEF Entry
<1> QED BY <1>2, <1>3

(* The prepared labels lead to instructions, also those nobody defines.    *)
LEMMA PreparedLabels ==
  ASSUME TypeInv, StoreInv
  PROVE  \A m \in Labels : Entry(ram, len, LabelTable[m])
<1> SUFFICES ASSUME NEW m \in Labels PROVE Entry(ram, len, LabelTable[m])
  OBVIOUS
<1>1. LabelTable[m] = IF First(m) = {} THEN 0 ELSE CHOOSE s \in First(m) : TRUE
  BY DEF LabelTable
<1>2. CASE First(m) = {}
  BY <1>1, <1>2, FirstSlotIsEntry
<1>3. CASE First(m) # {}
  <2>1. LabelTable[m] \in First(m)
    BY <1>1, <1>3
  <2>2. LabelTable[m] \in Scanned /\ ram[LabelTable[m]].op = "MARK"
    BY <2>1 DEF First, Marks
  <2>3. LabelTable[m] \in 1 .. len - 1
    BY <2>2 DEF Scanned
  <2>4. LabelTable[m] \in 0 .. len
    BY <2>3, LenType
  <2> QED BY <2>2, <2>4 DEF Entry
<1> QED BY <1>2, <1>3

LEMMA StepLabel ==
  TypeInv /\ StoreInv /\ LabelInv /\ [Next]_vars => LabelInv'
<1> SUFFICES ASSUME TypeInv, StoreInv, LabelInv, [Next]_vars PROVE LabelInv'
  OBVIOUS
<1>1. ASSUME NEW p \in Programs, Download(p) PROVE LabelInv'
  BY <1>1 DEF Download, LabelInv
<1>2. CASE LoadProgram
  BY <1>2, PreparedLabels DEF LoadProgram, Void, LabelInv
<1>3. CASE Starting
  <2>1. PICK at \in Slots, w \in {"nothing", waitFor} : Start(at, w)
    BY <1>3, StartsAtASlot
  <2> QED BY <2>1, PreparedLabels DEF Start, Void, LabelInv
<1>4. CASE Elsewhere
  BY <1>4, ProgramKept DEF LabelInv
<1> QED BY <1>1, <1>2, <1>3, <1>4, StepKinds DEF Elsewhere

(* An instruction leads to the next one, over both slots of a move.        *)
LEMMA ExecutePc ==
  ASSUME TypeInv, StoreInv, RunInv, LabelInv, PcInv, Execute, ~replaced
  PROVE  Entry(ram, len, pc')
<1>1. loaded /\ Entry(ram, len, pc)
  BY DEF RunInv, PcInv, Execute
<1>2. len \in Nat /\ pc \in 0 .. len /\ pc \in Slots /\ ram[pc].op # "DATA"
  BY <1>1, LenType DEF Entry
<1>3. Here = ram[pc] /\ Here \in Instr
  BY <1>2, HereType DEF Here
<1>4. Here.op # "END" => pc \in 0 .. len - 1
  <2>1. pc = len => Here.op = "END"
    BY <1>3 DEF StoreInv
  <2>2. pc # len => pc \in 0 .. len - 1
    BY <1>2
  <2> QED BY <2>1, <2>2
<1>5. CASE pc' = pc
  BY <1>1, <1>5
<1>6. CASE pc' = pc + 1 /\ Here.op # "END" /\ Here.op # "MOVE ALL"
  <2>1. pc + 1 \in 0 .. len
    <3>1. pc \in 0 .. len - 1
      BY <1>4, <1>6
    <3>2. len \in Nat
      BY LenType
    <3> QED BY <3>1, <3>2
  <2>2. ram[pc + 1].op # "DATA"
    <3>1. CASE pc + 1 = len
      BY <3>1 DEF StoreInv
    <3>2. CASE pc + 1 # len
      <4>1. pc + 1 \in 0 .. len - 1 /\ (pc + 1) - 1 = pc
        BY <1>2, <2>1, <3>2
      <4> QED BY <1>3, <1>6, <4>1 DEF StoreInv, Whole
    <3> QED BY <3>1, <3>2
  <2> QED BY <1>6, <2>1, <2>2 DEF Entry
<1>7. CASE pc' = pc + 2 /\ Here.op = "MOVE ALL"
  <2>1. pc \in 0 .. len - 1
    BY <1>4, <1>7
  <2>2. pc + 1 \in 0 .. len - 1 /\ ram[pc + 1].op = "DATA"
    BY <1>3, <1>7, <2>1 DEF StoreInv, Whole
  <2>3. pc + 2 \in 0 .. len
    BY <1>2, <2>2
  <2>4. ram[pc + 2].op # "DATA"
    <3>1. CASE pc + 2 = len
      BY <3>1 DEF StoreInv
    <3>2. CASE pc + 2 # len
      <4>1. pc + 2 \in 0 .. len - 1 /\ (pc + 2) - 1 = pc + 1
        BY <1>2, <2>3, <3>2
      <4> QED BY <2>2, <4>1 DEF StoreInv, Whole
    <3> QED BY <3>1, <3>2
  <2> QED BY <1>7, <2>3, <2>4 DEF Entry
<1>8. CASE pc' = labels[Here.m]
  BY <1>1, <1>3, <1>8 DEF LabelInv, Instr
<1>9. \/ pc' = pc \/ pc' = labels[Here.m]
      \/ pc' = pc + 1 /\ Here.op # "END" /\ Here.op # "MOVE ALL"
      \/ pc' = pc + 2 /\ Here.op = "MOVE ALL"
  BY DEF Execute, Halt, End, Motion, Tim, WaitInput, Jump, CountedJump, NoEffect, GoOn, Goto
<1> QED BY <1>5, <1>6, <1>7, <1>8, <1>9

LEMMA StepPc ==
  TypeInv /\ StoreInv /\ RunInv /\ LabelInv /\ PcInv /\ [Next]_vars => PcInv'
<1> SUFFICES ASSUME TypeInv, StoreInv, RunInv, LabelInv, PcInv, [Next]_vars
             PROVE  PcInv'
  OBVIOUS
<1>1. ASSUME NEW p \in Programs, Download(p) PROVE PcInv'
  BY <1>1 DEF Download, PcInv
<1>2. CASE LoadProgram
  BY <1>2 DEF LoadProgram, history, PcInv
<1>3. CASE Starting
  <2>1. PICK at \in Slots, w \in {"nothing", waitFor} :
          Start(at, w) /\ (at = 0 \/ (loaded /\ \E m \in Labels : at = labels[m]))
    BY <1>3, StartsAtASlot
  <2>2. Entry(ram, len, at)
    BY <2>1, FirstSlotIsEntry DEF LabelInv
  <2> QED BY <2>1, <2>2 DEF Start, Void, PcInv
<1>4. CASE StopProgram
  BY <1>4 DEF StopProgram, StopAt, memory, history, PcInv
<1>5. CASE StopAtLabel
  <2>1. loaded /\ \E m \in Labels : pc' = labels[m]
    BY <1>5 DEF StopAtLabel, StopAt
  <2> QED BY <1>5, <2>1 DEF StopAtLabel, StopAt, memory, history, PcInv, LabelInv
<1>6. CASE Execute
  BY <1>6, ExecutePc DEF Execute, PcInv
<1>7. CASE Continue \/ SingleStep \/ Pause \/ HostMoves \/ MotionOver \/ InputComes
           \/ Period \/ Slow2 \/ Settle \/ UNCHANGED vars
  <2>1. pc' = pc
    BY <1>7 DEF Continue, SingleStep, Pause, HostMoves, MotionOver, InputComes, Period,
       Over, Slow2, Settle, vars, control
  <2>2. UNCHANGED <<ram, len, labels, loaded, replaced>>
    BY <1>7, ProgramKept DEF Elsewhere
  <2> QED BY <2>1, <2>2 DEF PcInv
<1> QED BY <1>1, <1>2, <1>3, <1>4, <1>5, <1>6, <1>7, StepKinds

(* A program that runs stays on its own instructions.                      *)
THEOREM StaysInProgram == Spec => []PcInProgram
<1>1. Init => LabelInv /\ PcInv
  BY DEF Init, LabelInv, PcInv
<1>2. RunInv /\ PcInv => PcInProgram
  BY DEF RunInv, PcInv, PcInProgram, Entry
<1> QED BY <1>1, <1>2, InitType, InitStore, InitRun, StepType, StepStore, StepRun,
        StepLabel, StepPc, PTL DEF Spec

-----------------------------------------------------------------------------
(* The counts of a prepared program are the jumps taken; a program that is  *)
(* only in the memory has taken none.                                      *)
Agree(r, n, c, t) == \A s \in 1 .. n - 1 : r[s].op = "TIMES" => c[s] = t[s]

CountInv ==
  /\ loaded => Agree(ram, len, count, taken)
  /\ ~loaded /\ replaced => \A s \in Slots : taken[s] = 0

LEMMA PreparedCounts ==
  ASSUME TypeInv, StoreInv, Sound, NEW t, \A s \in Slots : t[s] = 0
  PROVE  Agree(ram, len, ClearedCounts, t)
<1> SUFFICES ASSUME NEW s \in 1 .. len - 1, ram[s].op = "TIMES"
             PROVE  ClearedCounts[s] = t[s]
  BY DEF Agree
<1>1. s \in Slots
  BY LenType
<1>2. Scanned = 1 .. len - 1
  BY DEF Sound, Scanned
<1>3. s \in Counted
  BY <1>2 DEF Counted
<1> QED BY <1>1, <1>3 DEF ClearedCounts

(* Only an instruction counts, and nothing else but a start or a download   *)
(* forgets.                                                                *)
LEMMA CountsKept ==
  ASSUME Elsewhere, ~Execute
  PROVE  UNCHANGED <<count, taken>>
BY DEF Elsewhere, StopProgram, StopAtLabel, StopAt, Continue, SingleStep, Pause, HostMoves,
   MotionOver, InputComes, Period, Over, Slow2, Settle, vars, memory, history

LEMMA StepCount ==
  TypeInv /\ StoreInv /\ RunInv /\ CountInv /\ [Next]_vars => CountInv'
<1> SUFFICES ASSUME TypeInv, StoreInv, RunInv, CountInv, [Next]_vars PROVE CountInv'
  OBVIOUS
<1>1. ASSUME NEW p \in Programs, Download(p) PROVE CountInv'
  BY <1>1 DEF Download, CountInv
<1>2. CASE LoadProgram
  <2>1. ~loaded /\ replaced /\ UNCHANGED <<taken, replaced>> /\ count' = ClearedCounts
    BY <1>2 DEF LoadProgram, history
  <2>2. \A s \in Slots : taken[s] = 0
    BY <2>1 DEF CountInv
  <2>3. CASE Sound
    BY <1>2, <2>1, <2>2, <2>3, PreparedCounts DEF LoadProgram, CountInv
  <2>4. CASE ~Sound
    BY <1>2, <2>1, <2>2, <2>4 DEF LoadProgram, Void, CountInv
  <2> QED BY <2>3, <2>4
<1>3. CASE Starting
  <2>1. PICK at \in Slots, w \in {"nothing", waitFor} : Start(at, w)
    BY <1>3, StartsAtASlot
  <2>2. CASE Sound
    <3>1. /\ UNCHANGED <<ram, len>> /\ loaded' /\ count' = ClearedCounts
          /\ taken' = [s \in Slots |-> 0]
      BY <2>1, <2>2 DEF Start
    <3>2. Agree(ram, len, ClearedCounts, taken')
      BY <2>2, <3>1, PreparedCounts
    <3> QED BY <3>1, <3>2 DEF CountInv
  <2>3. CASE ~Sound
    <3>1. ~loaded
      BY <2>3, SoundIsUnended DEF StoreInv
    <3> QED BY <2>1, <2>3, <3>1 DEF Start, Void, CountInv
  <2> QED BY <2>2, <2>3
<1>4. CASE Execute
  <2>1. loaded /\ UNCHANGED <<ram, len, loaded, replaced>>
    BY <1>4 DEF Execute, RunInv
  <2>2. CASE CountedJump
    <3>1. pc \in Slots
      BY <2>2, HereType DEF CountedJump
    <3>2. \/ /\ count' = [count EXCEPT ![pc] = Up(count[pc])]
             /\ taken' = [taken EXCEPT ![pc] = Up(taken[pc])]
          \/ /\ count' = [count EXCEPT ![pc] = 0]
             /\ taken' = [taken EXCEPT ![pc] = 0]
      BY <2>2 DEF CountedJump, CountUp
    <3>3. ASSUME NEW s \in 1 .. len - 1, ram[s].op = "TIMES"
          PROVE  count'[s] = taken'[s]
      <4>1. s \in Slots
        BY LenType
      <4>2. count[s] = taken[s]
        BY <2>1, <3>3 DEF CountInv, Agree
      <4> QED BY <3>1, <3>2, <4>1, <4>2 DEF TypeInv, ProgramTypeOK
    <3> QED BY <2>1, <3>3 DEF CountInv, Agree
  <2>3. CASE ~CountedJump
    <3>1. UNCHANGED <<count, taken>>
      BY <1>4, <2>3 DEF Execute, Halt, End, Motion, Tim, WaitInput, Jump, NoEffect
    <3> QED BY <2>1, <3>1 DEF CountInv
  <2> QED BY <2>2, <2>3
<1>5. CASE Elsewhere /\ ~Execute
  BY <1>5, ProgramKept, CountsKept DEF CountInv
<1> QED BY <1>1, <1>2, <1>3, <1>4, <1>5, StepKinds DEF Elsewhere

(* A counted GOTO is executed n times in a loop, in every run.             *)
THEOREM LoopsEnd == Spec => LoopsCountOut
<1>1. Init => LabelInv /\ PcInv /\ CountInv
  BY DEF Init, LabelInv, PcInv, CountInv
<1>2. TypeInv /\ StoreInv /\ RunInv /\ PcInv /\ CountInv
        => [LoopLeft => Up(taken[pc]) = Here.n]_vars
  <2> SUFFICES ASSUME TypeInv, StoreInv, RunInv, PcInv, CountInv, LoopLeft
               PROVE  Up(taken[pc]) = Here.n
    OBVIOUS
  <2>1. loaded /\ pc \in 0 .. len
    BY DEF RunInv, PcInv, LoopLeft, Execute, Entry
  <2>2. pc \in Slots /\ Here = ram[pc] /\ pc # len
    BY <2>1, HereType DEF StoreInv, LoopLeft
  <2>3. pc \in 1 .. len - 1
    BY <2>1, <2>2, LenType DEF LoopLeft
  <2>4. count[pc] = taken[pc]
    BY <2>1, <2>2, <2>3 DEF CountInv, Agree, LoopLeft
  <2>5. Up(count[pc]) = Here.n
    BY DEF LoopLeft, Execute, Halt, End, Motion, Tim, WaitInput, Jump, CountedJump,
       NoEffect, Goto
  <2> QED BY <2>4, <2>5
<1> QED BY <1>1, <1>2, InitType, InitStore, InitRun, StepType, StepStore, StepRun,
        StepLabel, StepPc, StepCount, PTL DEF Spec, LoopsCountOut

-----------------------------------------------------------------------------
(* The timer: the periods it still takes, a byte of 0 being a whole turn.  *)
Turn(b) == IF b = 0 THEN Top + 1 ELSE b
Remaining(t) == Turn(t.lo) + (Top + 1) * (Turn(t.hi) - 1)

TimInv ==
  waitFor = "time" => owed <= Remaining(timer) + (IF tick THEN 0 ELSE 1)

Timer == [lo : Byte, hi : Byte]

LEMMA TurnType == \A b \in Byte : Turn(b) \in 1 .. Top + 1 /\ Turn(b) \in Int
BY DEF Turn, Byte

LEMMA RemainingType == \A t \in Timer : Remaining(t) \in Int
<1> SUFFICES ASSUME NEW t \in Timer PROVE Remaining(t) \in Int
  OBVIOUS
<1>1. Turn(t.lo) \in Int /\ Turn(t.hi) \in Int
  BY TurnType DEF Timer
<1> QED BY <1>1 DEF Remaining

(* A TIM loads what it owes.                                               *)
LEMMA TimLoads ==
  ASSUME NEW i \in Instr
  PROVE  Duration(i) = Remaining([lo |-> i.lo, hi |-> HighByte(i.hi)])
<1>1. i.lo \in Byte /\ i.hi \in Byte
  BY DEF Instr
<1>2. Turn(Up(i.hi)) - 1 = i.hi
  BY <1>1 DEF Turn, Up, Byte
<1> QED BY <1>2 DEF Duration, Remaining, HighByte, Turn

(* A period takes one off, and the last one is the end.                    *)
LEMMA PeriodCounts ==
  ASSUME NEW t \in Timer
  PROVE  /\ Down(t.lo) = 0 /\ Down(t.hi) = 0 => Remaining(t) = 1
         /\ ~(Down(t.lo) = 0 /\ Down(t.hi) = 0) =>
              Remaining([lo |-> Down(t.lo),
                         hi |-> IF Down(t.lo) = 0 THEN Down(t.hi) ELSE t.hi])
                = Remaining(t) - 1
<1>1. t.lo \in Byte /\ t.hi \in Byte
  BY DEF Timer
<1>2. \A b \in Byte : Down(b) = 0 <=> Turn(b) = 1
  BY DEF Turn, Down, Byte
<1>3. \A b \in Byte : Down(b) # 0 => Turn(Down(b)) = Turn(b) - 1
  BY DEF Turn, Down, Byte
<1>4. CASE Down(t.lo) # 0
  <2>1. Turn(Down(t.lo)) = Turn(t.lo) - 1
    BY <1>1, <1>3, <1>4
  <2>2. Turn(t.lo) \in Int /\ Turn(t.hi) \in Int /\ (Top + 1) * (Turn(t.hi) - 1) \in Int
    BY <1>1, TurnType
  <2> QED BY <1>4, <2>1, <2>2 DEF Remaining
<1>5. CASE Down(t.lo) = 0 /\ Down(t.hi) = 0
  <2>1. Turn(t.lo) = 1 /\ Turn(t.hi) = 1
    BY <1>1, <1>2, <1>5
  <2> QED BY <1>5, <2>1 DEF Remaining
<1>6. CASE Down(t.lo) = 0 /\ Down(t.hi) # 0
  <2>1. Turn(t.lo) = 1 /\ Turn(Down(t.hi)) = Turn(t.hi) - 1
    BY <1>1, <1>2, <1>3, <1>6
  <2>2. Turn(t.hi) \in Int
    BY <1>1, TurnType
  <2>3. Turn(0) = Top + 1
    BY DEF Turn
  <2>4. Remaining([lo |-> 0, hi |-> Down(t.hi)]) = (Top + 1) + (Top + 1) * (Turn(t.hi) - 2)
    BY <2>1, <2>2, <2>3 DEF Remaining
  <2>5. Remaining(t) = 1 + (Top + 1) * (Turn(t.hi) - 1)
    BY <2>1 DEF Remaining
  <2>6. (Top + 1) + (Top + 1) * (Turn(t.hi) - 2) = (Top + 1) * (Turn(t.hi) - 1)
    BY <2>2
  <2>7. (Top + 1) * (Turn(t.hi) - 1) \in Int
    BY <2>2
  <2> QED BY <1>6, <2>4, <2>5, <2>6, <2>7
<1> QED BY <1>4, <1>5, <1>6

LEMMA StepTim == TypeInv /\ RunInv /\ TimInv /\ [Next]_vars => TimInv'
<1> SUFFICES ASSUME TypeInv, RunInv, TimInv, [Next]_vars PROVE TimInv'
  OBVIOUS
<1>1. timer \in Timer /\ Remaining(timer) \in Int /\ owed \in Nat /\ tick \in BOOLEAN
  BY RemainingType DEF TypeInv, ProgramTypeOK, Timer
<1>2. CASE UNCHANGED <<timer, tick, owed>> /\ waitFor' \in {waitFor, "nothing"}
  BY <1>2 DEF TimInv
<1>3. ASSUME NEW p \in Programs, Download(p) PROVE TimInv'
  BY <1>2, <1>3 DEF Download, control, world
<1>4. CASE LoadProgram
  BY <1>2, <1>4 DEF LoadProgram, control, world, history
<1>5. CASE Starting
  <2>1. PICK at \in Slots, w \in {"nothing", waitFor} : Start(at, w)
    BY <1>5, StartsAtASlot
  <2> QED BY <1>2, <2>1 DEF Start, world
<1>6. CASE StopProgram \/ StopAtLabel
  BY <1>2, <1>6 DEF StopProgram, StopAtLabel, StopAt, Stopped, world, history
<1>7. CASE Continue \/ SingleStep \/ Pause \/ HostMoves
  BY <1>2, <1>7 DEF Continue, SingleStep, Pause, HostMoves, control, world, history
<1>8. CASE Execute
  <2>1. CASE Tim
    <3>1. /\ owed' = Duration(Here) /\ timer' = [lo |-> Here.lo, hi |-> HighByte(Here.hi)]
          /\ tick' = tick
      BY <1>8, <2>1 DEF Tim, Execute
    <3>2. owed' = Remaining(timer')
      BY <3>1, HereType, TimLoads
    <3>3. owed' \in Int
      BY <1>8, ExecuteType DEF TypeInv
    <3> QED BY <1>1, <3>1, <3>2, <3>3 DEF TimInv
  <2>2. CASE ~Tim
    <3>1. waitFor' # "time"
      BY <1>8, <2>2 DEF Execute, Halt, End, Motion, WaitInput, Jump, CountedJump,
         NoEffect, Waiting, Quickly
    <3> QED BY <3>1 DEF TimInv
  <2> QED BY <2>1, <2>2
<1>9. CASE MotionOver \/ InputComes
  BY <1>9 DEF MotionOver, InputComes, Over, TimInv
<1>10. CASE Period
  <2>1. CASE Elapsed
    BY <1>10, <2>1 DEF Period, Over, TimInv
  <2>2. CASE ~Elapsed
    <3>1. Remaining(timer') = Remaining(timer) - 1
      BY <1>1, <1>10, <2>2, PeriodCounts DEF Period, Elapsed
    <3>2. owed' = owed /\ tick /\ tick' = FALSE /\ waitFor = "time"
      BY <1>10, <2>2 DEF Period, history
    <3>3. owed <= Remaining(timer)
      BY <1>1, <3>2 DEF TimInv
    <3> QED BY <1>1, <3>1, <3>2, <3>3 DEF TimInv
  <2> QED BY <2>1, <2>2
<1>11. CASE Slow2
  <2>1. /\ tick' = TRUE /\ UNCHANGED <<timer, waitFor>>
        /\ owed' = IF owed = 0 THEN 0 ELSE owed - 1
    BY <1>11 DEF Slow2, control
  <2>2. Remaining(timer) >= 0
    <3>1. Turn(timer.lo) \in 1 .. Top + 1 /\ Turn(timer.hi) \in 1 .. Top + 1
      BY <1>1, TurnType DEF Timer
    <3>2. (Top + 1) * (Turn(timer.hi) - 1) >= 0 /\ (Top + 1) * (Turn(timer.hi) - 1) \in Int
      BY <3>1
    <3> QED BY <3>1, <3>2 DEF Remaining
  <2>3. waitFor = "time" => owed <= Remaining(timer) + 1
    BY <1>1 DEF TimInv
  <2>4. waitFor = "time" => owed' <= Remaining(timer)
    BY <1>1, <2>1, <2>2, <2>3
  <2>5. owed' \in Int
    BY <1>1, <2>1
  <2> QED BY <1>1, <2>1, <2>4, <2>5 DEF TimInv
<1>12. CASE Settle \/ UNCHANGED vars
  BY <1>2, <1>12 DEF Settle, vars, control, world, history
<1> QED BY <1>3, <1>4, <1>5, <1>6, <1>7, <1>8, <1>9, <1>10, <1>11, <1>12, StepKinds

(* A TIM ends no sooner than its time less one period.                     *)
THEOREM TimIsLongEnough == Spec => TimLasts
<1>1. Init => TimInv
  BY DEF Init, TimInv
<1>2. TypeInv /\ TimInv => [Period /\ waitFor' = "nothing" => owed <= 1]_vars
  <2> SUFFICES ASSUME TypeInv, TimInv, Period, waitFor' = "nothing"
               PROVE  owed <= 1
    OBVIOUS
  <2>1. Elapsed /\ tick /\ waitFor = "time"
    BY DEF Period
  <2>2. timer \in Timer
    BY DEF TypeInv, ProgramTypeOK, Timer
  <2>3. Remaining(timer) = 1
    BY <2>1, <2>2, PeriodCounts DEF Elapsed
  <2>4. owed <= Remaining(timer) + 0
    BY <2>1 DEF TimInv
  <2> QED BY <2>3, <2>4
<1> QED BY <1>1, <1>2, InitType, InitStore, InitRun, StepType, StepStore, StepRun,
        StepTim, PTL DEF Spec, TimLasts
=============================================================================
