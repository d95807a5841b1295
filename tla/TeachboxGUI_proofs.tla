------------------------ MODULE TeachboxGUI_proofs ------------------------
(***************************************************************************)
(* Proofs about TeachboxGUI, for every travel and step, every set of keys, *)
(* any number of key threads, presses and failing calls.                   *)
(***************************************************************************)
EXTENDS TeachboxGUI, TLAPS

USE SizesAssumption, KeysAssumption, BoundsAssumption

Jobs == UNION {[S -> Pots] : S \in SUBSET Axes}
\* The messages of the threads to the Tk thread: status lines and seeds.
Said == {"failed", "unavailable", "stock", "up", "press error"}
Message == [kind : {"status"}, text : Said]
           \cup [kind : {"seed"}, pos : [Axes -> Pots \cup {-1}]]

-----------------------------------------------------------------------------
(* Pot codes, batches and messages.                                        *)
LEMMA ClampType == \A v \in Int : Clamp(v) \in Pots
BY DEF Clamp, Pots

LEMMA TowardType == \A p, t \in Pots : Toward(p, t) \in Pots
BY DEF Toward, Pots

LEMMA JobType ==
  ASSUME NEW f \in Jobs
  PROVE  /\ DOMAIN f \in SUBSET Axes /\ \A a \in DOMAIN f : f[a] \in Pots
         /\ \A S \in SUBSET DOMAIN f : [a \in S |-> f[a]] \in Jobs
<1>1. PICK T \in SUBSET Axes : f \in [T -> Pots]
  BY DEF Jobs
<1>2. ASSUME NEW S \in SUBSET DOMAIN f
      PROVE  [a \in S |-> f[a]] \in Jobs
  <2>1. S \in SUBSET Axes /\ [a \in S |-> f[a]] \in [S -> Pots]
    BY <1>1
  <2> QED BY <2>1 DEF Jobs
<1> QED BY <1>1, <1>2

LEMMA JobMade ==
  ASSUME NEW S \in SUBSET Axes, NEW f \in [Axes -> Pots]
  PROVE  [a \in S |-> f[a]] \in Jobs
<1>1. [a \in S |-> f[a]] \in [S -> Pots]
  OBVIOUS
<1> QED BY <1>1 DEF Jobs

LEMMA NoJobType == NoJob \in Jobs
<1>1. NoJob \in [{} -> Pots]
  BY DEF NoJob
<1> QED BY <1>1 DEF Jobs

(* A batch that is not empty has a first axis.                             *)
LEMMA FirstExists ==
  ASSUME NEW w, DOMAIN job[w] \in SUBSET Axes, DOMAIN job[w] # {}
  PROVE  First(w) \in DOMAIN job[w]
<1> DEFINE S == DOMAIN job[w]
<1>1. \A a \in S : a \in 0 .. 7
  BY DEF Axes
<1>2. \E a \in S : \A b \in S : a <= b
  <2> HIDE DEF S
  <2>1. \/ 0 \in S \/ 1 \in S \/ 2 \in S \/ 3 \in S
        \/ 4 \in S \/ 5 \in S \/ 6 \in S \/ 7 \in S
    <3>1. S # {}
      BY DEF S
    <3> QED BY <1>1, <3>1
  <2> QED BY <1>1, <2>1
<1> QED BY <1>2 DEF First

-----------------------------------------------------------------------------
(* Types of the attributes, the threads and their messages.                *)
TypeInv ==
  /\ pot \in [Axes -> Pots] /\ adc \in [Axes -> Pots]
  /\ targets = <<>> \/ targets \in [Axes -> Pots]
  /\ lastPushed \in [Axes -> Pots \cup {Unpushed}]
  /\ selected \in Axes \cup {NoAxis}
  /\ engine => sim # "none"
  /\ boot \notin {"construct", "done"} => sim # "none"
  /\ job \in [Pushers -> Jobs] /\ pushBusy \in BOOLEAN
  /\ pushAt \in [Pushers -> {"idle", "push", "record"}]
  /\ \A w \in Pushers : pushAt[w] = "record" => DOMAIN job[w] # {}
  /\ pressAt \in [Pressers -> {"idle", "press", "run", "release"}]
  /\ q \in Seq(Message)

LEMMA TypeIsType == TypeInv => GuiTypeOK
<1> SUFFICES ASSUME TypeInv PROVE GuiTypeOK
  OBVIOUS
<1>1. ASSUME NEW w \in Pushers
      PROVE  DOMAIN job[w] \subseteq Axes /\ \A a \in DOMAIN job[w] : job[w][a] \in Pots
  BY JobType DEF TypeInv
<1> QED BY <1>1 DEF TypeInv, GuiTypeOK

LEMMA InitType == Init => TypeInv
<1> SUFFICES ASSUME Init PROVE TypeInv
  OBVIOUS
<1>1. /\ pot \in [Axes -> Pots] /\ adc \in [Axes -> Pots]
      /\ lastPushed \in [Axes -> Pots \cup {Unpushed}]
  BY DEF Init, Pots
<1>2. job \in [Pushers -> Jobs]
  BY NoJobType DEF Init
<1>3. q \in Seq(Message)
  BY DEF Init
<1> QED BY <1>1, <1>2, <1>3 DEF Init, TypeInv

LEMMA CurrentType == TypeInv => Current \in [Axes -> Pots]
BY DEF TypeInv, Current

Line(m) == [kind |-> "status", text |-> m]

LEMMA SayType ==
  ASSUME TypeInv, NEW m \in Said, q' = Append(q, Line(m))
  PROVE  q' \in Seq(Message)
<1>1. Line(m) \in Message
  BY DEF Message, Line
<1> QED BY <1>1 DEF TypeInv

LEMMA BootType == TypeInv /\ Boot => TypeInv'
<1> SUFFICES ASSUME TypeInv, Boot PROVE TypeInv'
  OBVIOUS
<1>1. UNCHANGED <<tkVars, pushVars, pressVars>>
  BY DEF Boot, BootFails, Unavailable, Construct, CloseStock, ResetAndRun, Publish,
     SayUp, Seed
<1>2. q' \in Seq(Message)
  <2>1. CASE BootFails \/ Unavailable \/ CloseStock \/ SayUp
    <3>1. \E m \in Said : q' = Append(q, Line(m))
      BY <2>1 DEF BootFails, Unavailable, CloseStock, SayUp, Say, Said, Line
    <3> QED BY <3>1, SayType
  <2>2. CASE Construct \/ ResetAndRun \/ Publish
    BY <2>2 DEF Construct, ResetAndRun, Publish, TypeInv
  <2>3. CASE Seed
    <3>1. PICK pos \in Readings : q' = Append(q, [kind |-> "seed", pos |-> pos])
      BY <2>3 DEF Seed
    <3>2. [kind |-> "seed", pos |-> pos] \in Message
      BY DEF Message
    <3> QED BY <3>1, <3>2 DEF TypeInv
  <2> QED BY <2>1, <2>2, <2>3 DEF Boot
<1>3. /\ engine' => sim' # "none"
      /\ boot' \notin {"construct", "done"} => sim' # "none"
  BY DEF Boot, BootFails, Unavailable, Construct, CloseStock, ResetAndRun, Publish,
     SayUp, Seed, TypeInv
<1> QED BY <1>1, <1>2, <1>3 DEF TypeInv, tkVars, pushVars, pressVars

LEMMA UserType == TypeInv /\ User => TypeInv'
<1> SUFFICES ASSUME TypeInv, NEW k \in KEYS, on_key(k) PROVE TypeInv'
  BY DEF User
<1>1. UNCHANGED <<pot, adc, lastPushed, engine, sim, boot, job, pushBusy, pushAt, q>>
  BY DEF on_key, bootVars, pushVars
<1>2. selected' \in Axes \cup {NoAxis}
  <2>1. CASE Selects(k)
    <3>1. k.digit \in 2 .. NAxes + 1 /\ selected' = k.digit - 2
      BY <2>1 DEF on_key, Selects
    <3> QED BY <3>1 DEF Axes
  <2>2. CASE ~Selects(k)
    BY <2>2 DEF on_key, TypeInv
  <2> QED BY <2>1, <2>2
<1>3. targets' = <<>> \/ targets' \in [Axes -> Pots]
  <2>1. CASE Jogs(k)
    <3>1. selected \in Axes /\ Current \in [Axes -> Pots]
      BY <2>1, CurrentType DEF Jogs, TypeInv
    <3>2. \A d \in {Step, -Step} : Current[selected] + d \in Int
      BY <3>1 DEF Pots
    <3>3. \A d \in {Step, -Step} : Nudged(selected, d) \in [Axes -> Pots]
      BY <3>1, <3>2, ClampType DEF Nudged
    <3>4. targets' \in {Nudged(selected, d) : d \in {Step, -Step}}
      BY <2>1 DEF on_key
    <3> QED BY <3>3, <3>4
  <2>2. CASE ~Jogs(k)
    BY <2>2 DEF on_key, TypeInv
  <2> QED BY <2>1, <2>2
<1>4. pressAt' \in [Pressers -> {"idle", "press", "run", "release"}]
  BY DEF on_key, Presses, IdlePressers, TypeInv
<1> QED BY <1>1, <1>2, <1>3, <1>4 DEF TypeInv

LEMMA TickType == TypeInv /\ Tick => TypeInv'
<1> SUFFICES ASSUME TypeInv, Tick PROVE TypeInv'
  OBVIOUS
<1>1. targets' \in [Axes -> Pots]
  BY CurrentType DEF Tick
<1>2. pot' \in [Axes -> Pots]
  BY CurrentType, TowardType DEF Tick, TypeInv
<1>3. /\ job' \in [Pushers -> Jobs] /\ pushBusy' \in BOOLEAN
      /\ pushAt' \in [Pushers -> {"idle", "push", "record"}]
  <2>1. CASE UNCHANGED <<pushBusy, job, pushAt>>
    BY <2>1 DEF TypeInv
  <2>2. ASSUME NEW w \in Pushers, pushBusy' = TRUE,
               job' = [job EXCEPT ![w] = [a \in Changed |-> pot'[a]]],
               pushAt' = [pushAt EXCEPT ![w] = "push"]
        PROVE  /\ job' \in [Pushers -> Jobs] /\ pushBusy' \in BOOLEAN
               /\ pushAt' \in [Pushers -> {"idle", "push", "record"}]
    <3>1. Changed \in SUBSET Axes
      BY DEF Changed
    <3>2. [a \in Changed |-> pot'[a]] \in Jobs
      BY <1>2, <3>1, JobMade
    <3> QED BY <2>2, <3>2 DEF TypeInv
  <2>3. \/ UNCHANGED <<pushBusy, job, pushAt>>
        \/ \E w \in Pushers :
             /\ pushBusy' = TRUE
             /\ job' = [job EXCEPT ![w] = [a \in Changed |-> pot'[a]]]
             /\ pushAt' = [pushAt EXCEPT ![w] = "push"]
    BY DEF Tick, StartPush
  <2> QED BY <2>1, <2>2, <2>3
<1>5. \A w \in Pushers : pushAt'[w] = "record" => DOMAIN job'[w] # {}
  <2>1. CASE UNCHANGED <<pushBusy, job, pushAt>>
    BY <2>1 DEF TypeInv
  <2>2. ASSUME NEW w \in Pushers,
               job' = [job EXCEPT ![w] = [a \in Changed |-> pot'[a]]],
               pushAt' = [pushAt EXCEPT ![w] = "push"]
        PROVE  \A v \in Pushers : pushAt'[v] = "record" => DOMAIN job'[v] # {}
    BY <2>2 DEF TypeInv
  <2>3. \/ UNCHANGED <<pushBusy, job, pushAt>>
        \/ \E w \in Pushers :
             /\ job' = [job EXCEPT ![w] = [a \in Changed |-> pot'[a]]]
             /\ pushAt' = [pushAt EXCEPT ![w] = "push"]
    BY DEF Tick, StartPush
  <2> QED BY <2>1, <2>2, <2>3
<1>4. UNCHANGED <<adc, lastPushed, selected, engine, sim, boot, pressAt, q>>
  BY DEF Tick, bootVars, pressVars
<1> QED BY <1>1, <1>2, <1>3, <1>5, <1>4 DEF TypeInv

LEMMA PumpType == TypeInv /\ Pump => TypeInv'
<1> SUFFICES ASSUME TypeInv, Pump PROVE TypeInv'
  OBVIOUS
<1>1. UNCHANGED <<adc, lastPushed, selected, engine, sim, boot, job, pushBusy, pushAt, pressAt>>
  BY DEF Pump, bootVars, pushVars, pressVars
<1>2. q' \in Seq(Message)
  BY DEF Pump
<1>3. pot' \in [Axes -> Pots] /\ (targets' = <<>> \/ targets' \in [Axes -> Pots])
  <2>1. CASE Seeds = {}
    BY <2>1 DEF Pump, TypeInv
  <2>2. CASE Seeds # {}
    <3>1. PICK i \in Latest(Seeds) : pot' = q[i].pos /\ targets' = q[i].pos
      BY <2>2 DEF Pump
    <3>2. /\ i \in DOMAIN q /\ q[i].kind = "seed"
          /\ \A a \in Axes : q[i].pos[a] >= 0
      BY <3>1 DEF Latest, Seeds
    <3>3. q[i] \in Message
      BY <3>2 DEF TypeInv
    <3>4. q[i].pos \in [Axes -> Pots \cup {-1}]
      BY <3>2, <3>3 DEF Message
    <3>5. \A a \in Axes : q[i].pos[a] \in Pots
      BY <3>2, <3>4
    <3>6. q[i].pos \in [Axes -> Pots]
      BY <3>4, <3>5
    <3> QED BY <3>1, <3>6
  <2> QED BY <2>1, <2>2
<1> QED BY <1>1, <1>2, <1>3 DEF TypeInv

LEMMA CloseType == TypeInv /\ on_close => TypeInv'
BY DEF on_close, TypeInv, pushVars, pressVars

LEMMA PushType ==
  ASSUME TypeInv, NEW w \in Pushers, _push_worker(w)
  PROVE  TypeInv'
<1>1. UNCHANGED <<tkVars, bootVars, pressVars>>
  BY DEF _push_worker, PushPot, Record, PushFails, PushDone
<1>2. q' = q
  BY DEF _push_worker, PushPot, Record, PushFails, PushDone
<1>3. job[w] \in Jobs
  BY DEF TypeInv
<1>4. DOMAIN job[w] # {} => First(w) \in Axes /\ job[w][First(w)] \in Pots
  BY <1>3, JobType, FirstExists
<1>5. adc' \in [Axes -> Pots] /\ lastPushed' \in [Axes -> Pots \cup {Unpushed}]
  <2>1. CASE PushPot(w)
    BY <1>4, <2>1 DEF PushPot, TypeInv
  <2>2. CASE Record(w)
    <3>1. DOMAIN job[w] # {} /\ adc' = adc
      BY <2>2 DEF Record, TypeInv
    <3> QED BY <1>4, <2>2, <3>1 DEF Record, TypeInv
  <2>3. CASE PushFails(w)
    <3>1. DOMAIN job[w] # {} /\ lastPushed' = lastPushed
      BY <2>3 DEF PushFails
    <3> QED BY <1>4, <2>3, <3>1 DEF PushFails, TypeInv
  <2>4. CASE PushDone(w)
    BY <2>4 DEF PushDone, TypeInv
  <2> QED BY <2>1, <2>2, <2>3, <2>4 DEF _push_worker
<1>6. /\ pushBusy' \in BOOLEAN
      /\ pushAt' \in [Pushers -> {"idle", "push", "record"}]
  BY DEF _push_worker, PushPot, Record, PushFails, PushDone, TypeInv
<1>7. job' \in [Pushers -> Jobs]
  <2>1. Left(w) \in Jobs
    BY <1>3, JobType DEF Left
  <2> QED BY <2>1, NoJobType DEF _push_worker, PushPot, Record, PushFails, PushDone,
                                TypeInv
<1>8. \A v \in Pushers : pushAt'[v] = "record" => DOMAIN job'[v] # {}
  <2>1. CASE PushPot(w)
    BY <2>1 DEF PushPot, TypeInv
  <2>2. CASE Record(w) \/ PushDone(w)
    BY <2>2 DEF Record, PushDone, TypeInv
  <2>3. CASE PushFails(w)
    BY <2>3 DEF PushFails, TypeInv
  <2> QED BY <2>1, <2>2, <2>3 DEF _push_worker
<1> QED BY <1>1, <1>2, <1>5, <1>6, <1>7, <1>8 DEF TypeInv, tkVars, bootVars, pressVars

LEMMA PressType ==
  ASSUME TypeInv, NEW w \in Pressers, _press_worker(w)
  PROVE  TypeInv'
<1>1. UNCHANGED <<tkVars, bootVars, pushVars>>
  BY DEF _press_worker, PressFails
<1>2. q' \in Seq(Message)
  <2>1. CASE PressFails(w)
    <3>1. \E m \in Said : q' = Append(q, Line(m))
      BY <2>1 DEF PressFails, Say, Said, Line
    <3> QED BY <3>1, SayType
  <2>2. CASE q' = q
    BY <2>2 DEF TypeInv
  <2> QED BY <2>1, <2>2 DEF _press_worker
<1>3. pressAt' \in [Pressers -> {"idle", "press", "run", "release"}]
  BY DEF _press_worker, Press, RunCycles, Release, PressFails, TypeInv
<1> QED BY <1>1, <1>2, <1>3 DEF TypeInv, tkVars, bootVars, pushVars

LEMMA StepType == TypeInv /\ [Next]_vars => TypeInv'
<1> SUFFICES ASSUME TypeInv, [Next]_vars PROVE TypeInv'
  OBVIOUS
<1>1. CASE UNCHANGED vars
  BY <1>1 DEF vars, tkVars, bootVars, pushVars, pressVars, TypeInv
<1>2. CASE Next
  BY <1>2, BootType, UserType, TickType, PumpType, CloseType, PushType, PressType
  DEF Next, Threads
<1> QED BY <1>1, <1>2

(* The attributes the threads share keep their types: pot codes, targets   *)
(* and what is pushed stay in range, and a published engine has a process. *)
THEOREM GuiTypeCorrect == Spec => []GuiTypeOK
<1>1. Spec => []TypeInv
  BY InitType, StepType, PTL DEF Spec
<1> QED BY <1>1, TypeIsType, PTL

-----------------------------------------------------------------------------
(* One push thread at a time: _push_busy is set before the thread starts   *)
(* and cleared by the thread itself, so while a thread has a value pushed  *)
(* and not yet recorded no other thread touches the ADC or the record.     *)
Alone ==
  /\ \A w \in Pushers : pushAt[w] # "idle" => pushBusy = TRUE
  /\ \A v, w \in Pushers : pushAt[v] # "idle" /\ pushAt[w] # "idle" => v = w

Recorded(a) == lastPushed[a] = Unpushed \/ a \in torn \/ adc[a] = lastPushed[a]

CacheInv ==
  /\ TypeInv
  /\ Alone
  /\ \A w \in Pushers : pushAt[w] = "record" => adc[First(w)] = job[w][First(w)]
  /\ CacheIsTrue

LEMMA InitCache == Init => CacheInv
<1> SUFFICES ASSUME Init PROVE CacheInv
  OBVIOUS
<1>1. CacheIsTrue
  BY DEF Init, CacheIsTrue
<1>2. Alone
  BY DEF Init, Alone
<1>3. \A w \in Pushers : pushAt[w] # "record"
  BY DEF Init
<1> QED BY InitType, <1>1, <1>2, <1>3 DEF CacheInv

LEMMA QuietCache ==
  ASSUME CacheInv, TypeInv', UNCHANGED <<lastPushed, pushBusy, job, pushAt, adc, torn>>
  PROVE  CacheInv'
<1>1. \A w \in Pushers : First(w)' = First(w)
  BY DEF First
<1>2. CacheIsTrue'
  BY <1>1 DEF CacheInv, CacheIsTrue
<1> QED BY <1>1, <1>2 DEF CacheInv, Alone

LEMMA TickCache == CacheInv /\ Tick => CacheInv'
<1> SUFFICES ASSUME CacheInv, Tick PROVE CacheInv'
  OBVIOUS
<1>0. TypeInv'
  BY TickType DEF CacheInv
<1>1. UNCHANGED <<lastPushed, adc, torn>>
  BY DEF Tick
<1>2. CASE UNCHANGED <<pushBusy, job, pushAt>>
  BY <1>0, <1>1, <1>2, QuietCache
<1>3. CASE MayPush /\ Changed # {}
  <2>1. PICK w \in Pushers :
          /\ pushAt[w] = "idle" /\ pushBusy' = TRUE
          /\ job' = [job EXCEPT ![w] = [a \in Changed |-> pot'[a]]]
          /\ pushAt' = [pushAt EXCEPT ![w] = "push"]
    BY <1>3 DEF Tick, StartPush
  <2>2. \A v \in Pushers : pushAt[v] = "idle"
    BY <1>3 DEF MayPush, CacheInv, Alone
  <2>3. \A v \in Pushers : pushAt'[v] = IF v = w THEN "push" ELSE "idle"
    BY <2>1, <2>2 DEF CacheInv, TypeInv
  <2>4. Alone'
    BY <2>1, <2>3 DEF Alone
  <2>5. \A a \in Axes : Recorded(a)
    BY <2>2 DEF CacheInv, CacheIsTrue, Recorded
  <2>6. CacheIsTrue'
    BY <1>1, <2>5 DEF CacheIsTrue, Recorded
  <2> QED BY <1>0, <2>3, <2>4, <2>6 DEF CacheInv
<1> QED BY <1>2, <1>3 DEF Tick, StartPush

LEMMA PushCache ==
  ASSUME CacheInv, NEW w \in Pushers, _push_worker(w)
  PROVE  CacheInv'
<1>0. TypeInv /\ TypeInv'
  BY PushType DEF CacheInv
<1>1. job[w] \in Jobs /\ DOMAIN job[w] \in SUBSET Axes
  BY <1>0, JobType DEF TypeInv
<1>2. pushAt[w] # "idle"
  BY DEF _push_worker, PushPot, Record, PushFails, PushDone
<1>3. \A v \in Pushers : v # w => pushAt[v] = "idle"
  BY <1>2 DEF CacheInv, Alone
<1>4. \A v \in Pushers : v # w => pushAt'[v] = "idle"
  BY <1>3, <1>0 DEF _push_worker, PushPot, Record, PushFails, PushDone, TypeInv
<1>5. Alone'
  <2>1. pushAt'[w] # "idle" => pushBusy' = TRUE
    BY <1>0, <1>2 DEF _push_worker, PushPot, Record, PushFails, PushDone, CacheInv,
                      Alone, TypeInv
  <2> QED BY <1>4, <2>1 DEF Alone
<1>6. CASE PushPot(w)
  <2>1. First(w) \in DOMAIN job[w] /\ First(w) \in Axes
    BY <1>1, <1>6, FirstExists DEF PushPot
  <2>2. First(w)' = First(w) /\ job' = job
    BY <1>6 DEF PushPot, First
  <2>3. adc'[First(w)] = job[w][First(w)] /\ pushAt'[w] = "record"
    BY <1>0, <1>6, <2>1 DEF PushPot, TypeInv
  <2>4. \A a \in Axes : Recorded(a)
    BY <1>3, <1>6 DEF PushPot, CacheInv, CacheIsTrue, Recorded
  <2>5. \A a \in Axes : a # First(w) => adc'[a] = adc[a]
    BY <1>0, <1>6 DEF PushPot, TypeInv
  <2>6. lastPushed' = lastPushed /\ torn' = torn
    BY <1>6 DEF PushPot
  <2>7. CacheIsTrue'
    BY <2>2, <2>3, <2>4, <2>5, <2>6 DEF CacheIsTrue, Recorded
  <2>8. \A v \in Pushers : pushAt'[v] = "record" => v = w
    BY <1>4
  <2> QED BY <1>0, <1>5, <2>2, <2>3, <2>7, <2>8 DEF CacheInv
<1>7. CASE Record(w)
  <2>1. DOMAIN job[w] # {} /\ adc[First(w)] = job[w][First(w)]
    BY <1>0, <1>7 DEF Record, CacheInv, TypeInv
  <2>2. First(w) \in Axes
    BY <1>1, <2>1, FirstExists
  <2>3. lastPushed'[First(w)] = adc[First(w)] /\ adc' = adc
    BY <1>0, <1>7, <2>1, <2>2 DEF Record, TypeInv
  <2>4. \A a \in Axes : a # First(w) => Recorded(a)
    BY <1>3, <1>7 DEF Record, CacheInv, CacheIsTrue, Recorded
  <2>5. \A a \in Axes : a # First(w) => lastPushed'[a] = lastPushed[a]
                                        /\ (a \in torn' <=> a \in torn)
    BY <1>0, <1>7 DEF Record, TypeInv
  <2>6. CacheIsTrue'
    BY <2>3, <2>4, <2>5 DEF CacheIsTrue, Recorded
  <2>7. \A v \in Pushers : pushAt'[v] # "record"
    BY <1>0, <1>4, <1>7 DEF Record, TypeInv
  <2> QED BY <1>0, <1>5, <2>6, <2>7 DEF CacheInv
<1>8. CASE PushFails(w) \/ PushDone(w)
  <2>1. \A v \in Pushers : pushAt'[v] # "record"
    BY <1>0, <1>3, <1>8 DEF PushFails, PushDone, TypeInv
  <2>2. \A a \in Axes : Recorded(a)
    BY <1>3, <1>8 DEF PushFails, PushDone, CacheInv, CacheIsTrue, Recorded
  <2>3. \A a \in Axes : a \in torn' \/ (adc'[a] = adc[a] /\ a \notin torn)
                        \/ (a \in torn /\ a \in torn')
    BY <1>0, <1>8 DEF PushFails, PushDone, TypeInv
  <2>4. lastPushed' = lastPushed
    BY <1>8 DEF PushFails, PushDone
  <2>5. CacheIsTrue'
    BY <2>2, <2>3, <2>4 DEF CacheIsTrue, Recorded
  <2> QED BY <1>0, <1>5, <2>1, <2>5 DEF CacheInv
<1> QED BY <1>6, <1>7, <1>8 DEF _push_worker

LEMMA StepCache == CacheInv /\ [Next]_vars => CacheInv'
<1> SUFFICES ASSUME CacheInv, [Next]_vars PROVE CacheInv'
  OBVIOUS
<1>1. TypeInv'
  BY StepType DEF CacheInv
<1>2. CASE User \/ Pump \/ on_close \/ Boot \/ (\E w \in Pressers : _press_worker(w))
           \/ UNCHANGED vars
  <2>1. UNCHANGED pushVars
    BY <1>2 DEF User, on_key, Pump, on_close, Boot, BootFails, Unavailable, Construct,
       CloseStock, ResetAndRun, Publish, SayUp, Seed, _press_worker, PressFails, vars
  <2> QED BY <1>1, <2>1, QuietCache DEF pushVars
<1>3. CASE Tick
  BY <1>3, TickCache
<1>4. CASE \E w \in Pushers : _push_worker(w)
  BY <1>4, PushCache
<1> QED BY <1>2, <1>3, <1>4 DEF Next, Threads

(* What _last_pushed says of a channel is what the channel holds, except   *)
(* between a push and its record or after a push that raised too late.     *)
THEOREM CacheTrue == Spec => []CacheIsTrue
<1>1. CacheInv => CacheIsTrue
  BY DEF CacheInv
<1> QED BY <1>1, InitCache, StepCache, PTL DEF Spec

-----------------------------------------------------------------------------
(* Keys.                                                                   *)
LEMMA InitHeld == Init => HeldKeyHasThread
BY DEF Init, HeldKeyHasThread

LEMMA PressHeld ==
  ASSUME TypeInv, HeldKeyHasThread, NEW w \in Pressers, _press_worker(w)
  PROVE  HeldKeyHasThread'
<1>1. CASE PressFails(w)
  BY <1>1 DEF PressFails, HeldKeyHasThread
<1>2. CASE Press(w) /\ stuck' = stuck
  <2>1. pressAt'[w] = "run"
    BY <1>2 DEF Press, TypeInv
  <2> QED BY <2>1 DEF HeldKeyHasThread
<1>3. CASE RunCycles(w) /\ stuck' = stuck
  <2>1. pressAt'[w] = "release"
    BY <1>3 DEF RunCycles, TypeInv
  <2> QED BY <2>1 DEF HeldKeyHasThread
<1>4. CASE Release(w) /\ stuck' = stuck
  BY <1>4 DEF Release, HeldKeyHasThread
<1> QED BY <1>1, <1>2, <1>3, <1>4 DEF _press_worker

LEMMA StepHeld ==
  TypeInv /\ HeldKeyHasThread /\ [Next]_vars => HeldKeyHasThread'
<1> SUFFICES ASSUME TypeInv, HeldKeyHasThread, [Next]_vars PROVE HeldKeyHasThread'
  OBVIOUS
<1>1. CASE Boot \/ Tick \/ Pump \/ on_close \/ (\E w \in Pushers : _push_worker(w))
           \/ UNCHANGED vars
  <2>1. UNCHANGED <<key, stuck, pressAt>>
    BY <1>1 DEF Tick, Pump, on_close, Boot, BootFails, Unavailable, Construct,
       CloseStock, ResetAndRun, Publish, SayUp, Seed, _push_worker, PushPot, Record,
       PushFails, PushDone, vars, pressVars
  <2> QED BY <2>1 DEF HeldKeyHasThread
<1>2. CASE User
  <2>1. key' = key /\ stuck' = stuck
    BY <1>2 DEF User, on_key
  <2>2. \A w \in Pressers : pressAt[w] # "idle" => pressAt'[w] = pressAt[w]
    BY <1>2 DEF User, on_key, Presses, IdlePressers, TypeInv
  <2> QED BY <2>1, <2>2 DEF HeldKeyHasThread
<1>3. CASE \E w \in Pressers : _press_worker(w)
  BY <1>3, PressHeld
<1> QED BY <1>1, <1>2, <1>3 DEF Next, Threads

(* A key held down in the simulator has a thread that is going to release  *)
(* it, however many threads press at once, unless one of them raised.      *)
THEOREM HeldKeysHaveThreads == Spec => []HeldKeyHasThread
<1>1. Spec => []TypeInv
  BY InitType, StepType, PTL DEF Spec
<1> QED BY <1>1, InitHeld, StepHeld, PTL DEF Spec
=============================================================================
