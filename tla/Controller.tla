----------------------------- MODULE Controller ----------------------------
(***************************************************************************)
(* The controller between the serial line and the servo: the dispatcher    *)
(* that executes complete frames and the transmitter (rs232.asm), the      *)
(* motion and transmitter service of the main loop (main.asm), the         *)
(* Timer-0 and emergency-off interrupts, composed with AxisServo.          *)
(*                                                                         *)
(* Interrupts are served only where the main loop lets them, between its   *)
(* two guarded sections; so a section of the main loop and the handler of  *)
(* an interrupt are one action each.  A frame is here the event of its     *)
(* last byte (RxParser shows that the dispatcher finds it whole).  The     *)
(* stored program and the teachbox rest: no program runs, no key is hit.   *)
(*                                                                         *)
(* BackNoWrap, LeaveSerialSilently, WatchLoadedOnce,                       *)
(* LateOnTheWay, KickedAnyway and LeavePorts are faulty variants of the    *)
(* definition below each, for showing that the properties notice.          *)
(***************************************************************************)
EXTENDS AxisServo

CONSTANTS
  Commands,      \* the commands the host uses, a subset of AllCommands
  Prescale,      \* timer overflows per motion event (10)
  WatchdogLoad,  \* motion events without arrival until the motors are cut (0x64)
  CounterSize,   \* values of R1, R3 and the watchdog (256)
  ProgramR1,     \* R1 and R3 at the start of the readback of the program in
  ProgramR3,     \* the RAM: its bytes left over from whole pages, its pages + 1
  MaxPatience    \* cap of the history of timer overflows since the last command

AllCommands == {"PositionOne", "PositionOneAck", "PositionAll", "PositionAllAck",
                "MoveOne", "MoveOneAck", "MoveAll", "MoveAllAck",
                "Read", "ReadAll", "Enable", "Disable", "Shutdown",
                "Readback", "Stop"}

ASSUME CommandsAssumption     == Commands \subseteq AllCommands
ASSUME PrescaleAssumption     == Prescale \in Nat \ {0}
ASSUME WatchdogLoadAssumption == WatchdogLoad \in Nat \ {0}
ASSUME CounterSizeAssumption  == /\ CounterSize \in Nat \ (0 .. NAxes + 1)
                                 /\ WatchdogLoad < CounterSize

ASSUME MaxPatienceAssumption  == MaxPatience \in Nat

ASSUME ProgramAssumption      == /\ ProgramR1 \in 0 .. CounterSize - 1
                                 /\ ProgramR3 \in 1 .. CounterSize - 1

(* The commands with the bit R: 0x08..0x0D, 0x0F, 0x78..0x7D, 0x7F.        *)
Acked == {"PositionOneAck", "PositionAllAck", "MoveOneAck", "MoveAllAck"}

Motions == Acked \union {"PositionOne", "PositionAll", "MoveOne", "MoveAll"}

VARIABLES
  tx,            \* the transmitter: TX_FLAGS (0x25) and what it sends, a record
  sending,       \* SBUF: the byte on the line, or Silence
  ti,            \* TI: the last byte is out
  motionActive,  \* 0x25.7  the main loop watches the motion
  ackReq,        \* 0x23.1  TMR_ACK_REQ, bit R of the last motion command
  watchdog,      \* 0x19    AXIS_WATCHDOG
  evtMotion,     \* 0x23.6  TMR_EVT_MOTION
  evtSerial,     \* 0x23.7  TMR_EVT_SERIAL
  prescaler,     \* 0x1D    DEC_CONST_10
  cutFrame,      \* 0x24.2  bytes of an unfinished frame have been seen
  progLoaded,    \* 0x28.1  STATE_PROG_LOAD
  estop,         \* the emergency-off line is active, its handler spins
  lastMotion,    \* history: the last motion command
  seen,          \* history: axes found in position since then
  patience,      \* history: timer overflows since then, at most MaxPatience
  cut            \* history: the watchdog cut the motors, not enabled since

ctlVars == <<tx, sending, ti, motionActive, ackReq, watchdog, evtMotion,
             evtSerial, prescaler, cutFrame, progLoaded, estop>>
history == <<lastMotion, seen, patience, cut>>
vars    == <<servoVars, ctlVars, history>>

-----------------------------------------------------------------------------
(* What goes over the line: the keyword of a command, a byte of data for   *)
(* it, a status code or ETX.                                               *)
Silence    == [kind |-> "silence", of |-> "none"]
Etx        == [kind |-> "etx", of |-> "none"]
Keyword(c) == [kind |-> "keyword", of |-> c]
Data(c)    == [kind |-> "data", of |-> c]
Status(s)  == [kind |-> "status", of |-> s]

StatusCodes == {"F1", "F3", "F4", "F6", "F7"}

Byte == {Silence, Etx} \union {Keyword(c) : c \in AllCommands}
        \union {Data(c) : c \in AllCommands} \union {Status(s) : s \in StatusCodes}

TxState == [idle    : BOOLEAN,                     \* 0x23.0
            buffer  : BOOLEAN,                     \* 0x25.1
            reply   : BOOLEAN,                     \* 0x25.2
            status  : BOOLEAN,                     \* 0x25.3
            last    : BOOLEAN,                     \* 0x25.4
            etx     : BOOLEAN,                     \* 0x25.5
            stream  : BOOLEAN,                     \* 0x25.6
            r1      : 0 .. CounterSize - 1,        \* R1
            r3      : 0 .. CounterSize - 1,        \* R3
            code    : StatusCodes,                 \* R4
            keyword : AllCommands \union {"none"}, \* R5
            query   : AllCommands \union {"none"}] \* CMD_BUF, whose answer it holds

BackNoWrap(n) == n - 1

Back(n) == (n + CounterSize - 1) % CounterSize

(* The TX helper (0x0541): the next byte, and the flags it leaves.  At the *)
(* end of the buffer and behind a keyword comes ETX; behind a status code  *)
(* nothing.                                                                *)
TxByte(t) ==
  CASE t.buffer /\ t.last                              -> Etx
    [] t.buffer /\ ~t.last                             -> Data(t.query)
    [] ~t.buffer /\ t.stream                           -> Data("Readback")
    [] ~t.buffer /\ ~t.stream /\ t.reply               -> Keyword(t.keyword)
    [] ~t.buffer /\ ~t.stream /\ ~t.reply /\ t.etx     -> Etx
    [] ~t.buffer /\ ~t.stream /\ ~t.reply /\ ~t.etx /\ t.status -> Status(t.code)
    [] OTHER                                           -> Silence

TxNext(t) ==
  LET u == [t EXCEPT !.idle = FALSE] IN
  CASE t.buffer /\ t.last  -> [u EXCEPT !.buffer = FALSE, !.last = FALSE]
    [] t.buffer /\ ~t.last -> [u EXCEPT !.r1 = (@ + 1) % CounterSize,
                                        !.r3 = Back(@), !.last = Back(t.r3) = 0]
    [] ~t.buffer /\ t.stream ->
         LET r1 == Back(t.r1)
             r3 == IF r1 = 0 THEN Back(t.r3) ELSE t.r3
             end == r1 = 0 /\ r3 = 0
         IN [u EXCEPT !.r1 = r1, !.r3 = r3, !.stream = ~end, !.etx = t.etx \/ end]
    [] ~t.buffer /\ ~t.stream /\ t.reply -> [u EXCEPT !.reply = FALSE, !.etx = TRUE]
    [] ~t.buffer /\ ~t.stream /\ ~t.reply /\ t.etx -> [u EXCEPT !.etx = FALSE]
    [] ~t.buffer /\ ~t.stream /\ ~t.reply /\ ~t.etx /\ t.status ->
         [u EXCEPT !.status = FALSE]
    [] OTHER                      -> [t EXCEPT !.idle = TRUE]

(* The helper is called with the transmitter in state t: a byte goes to    *)
(* SBUF, or the transmitter is idle.                                       *)
Transmit(t) ==
  /\ tx' = TxNext(t)
  /\ sending' = IF TxByte(t) = Silence THEN sending ELSE TxByte(t)

-----------------------------------------------------------------------------
ControllerInit ==
  /\ ServoInit
  /\ tx = [idle |-> TRUE, buffer |-> FALSE, reply |-> FALSE, status |-> FALSE,
           last |-> FALSE, etx |-> FALSE, stream |-> FALSE, r1 |-> 0, r3 |-> 0,
           code |-> "F3", keyword |-> "none", query |-> "none"]
  /\ sending = Silence /\ ti = FALSE
  /\ motionActive = FALSE /\ ackReq = FALSE /\ watchdog = 0
  /\ evtMotion = FALSE /\ evtSerial = FALSE /\ prescaler = Prescale
  /\ cutFrame = FALSE
  /\ progLoaded \in BOOLEAN
  /\ estop = FALSE
  /\ lastMotion = "none" /\ seen = {} /\ patience = 0 /\ cut = FALSE

-----------------------------------------------------------------------------
(* The dispatcher (0x03A9).  What a frame does to the transmitter: R4 is   *)
(* set whatever the frame is, R5 to the keyword of every frame with ETX.   *)
CMD_BUF == 104 % CounterSize   \* 0x68

Refused(t, code) == [t EXCEPT !.code = code, !.status = TRUE, !.reply = FALSE]

Queried(t, c, n) == [t EXCEPT !.buffer = TRUE, !.r1 = CMD_BUF, !.r3 = n, !.query = c]

Dispatched(c) ==
  LET t == [tx EXCEPT !.keyword = c, !.code = "F3"] IN
  CASE c = "Read"     -> Queried(t, c, 2)
    [] c = "ReadAll"  -> Queried(t, c, NAxes + 1)
    [] c = "Readback" /\ progLoaded -> [t EXCEPT !.code = "F4", !.stream = TRUE,
                                                 !.r1 = ProgramR1, !.r3 = ProgramR3]
    [] c = "Readback" /\ ~progLoaded -> Refused(t, "F4")
    [] c = "Stop" /\ progLoaded  -> [t EXCEPT !.code = "F6", !.reply = TRUE]
    [] c = "Stop" /\ ~progLoaded -> Refused(t, "F6")
    [] OTHER -> t

(* ... and to the axes.                                                    *)
ServoCommand(c) ==
  CASE c \in {"PositionOne", "PositionOneAck"} ->
         \E a \in Axis, v \in Pos : PositionOne(a, v)
    [] c \in {"PositionAll", "PositionAllAck"} -> \E p \in [Axis -> Pos] : PositionAll(p)
    [] c \in {"MoveOne", "MoveOneAck"} ->
         \E a \in Axis, v \in Pos, s \in Speed : MoveOne(a, v, s)
    [] c \in {"MoveAll", "MoveAllAck"} -> \E p \in [Axis -> Pos] : MoveAll(p)
    [] c \in {"Enable", "Disable"} -> EnableMotors(c = "Enable")
    [] c = "Shutdown" -> Shutdown
    [] OTHER -> UNCHANGED servoVars

(* The serial interrupt ends with the transmitter, if its last byte is out.*)
LeaveSerialSilently(t) == ti' = FALSE /\ tx' = t /\ UNCHANGED sending

LeaveSerial(t) == IF ti THEN ti' = FALSE /\ Transmit(t)
                        ELSE tx' = t /\ UNCHANGED <<ti, sending>>

(* A motion command has the main loop watch the motion: 0x25.7 and bit R   *)
(* are set and the watchdog is loaded.                                     *)
WatchLoadedOnce(c) ==
  /\ motionActive' = TRUE /\ ackReq' = (c \in Acked)
  /\ watchdog' = IF motionActive THEN watchdog ELSE WatchdogLoad

Watch(c) ==
  /\ motionActive' = TRUE /\ ackReq' = (c \in Acked)
  /\ watchdog' = WatchdogLoad

(* A complete frame.                                                       *)
Execute(c) ==
  /\ ~estop
  /\ LeaveSerial(Dispatched(c))
  /\ ServoCommand(c)
  /\ IF c \in Motions
     THEN Watch(c) /\ lastMotion' = c /\ seen' = {} /\ patience' = 0
     ELSE UNCHANGED <<motionActive, ackReq, watchdog, lastMotion, seen, patience>>
  /\ cut' = (cut /\ c # "Enable")
  /\ cutFrame' = FALSE
  /\ UNCHANGED <<evtMotion, evtSerial, prescaler, progLoaded, estop>>

(* A frame with another byte in the place of ETX.                          *)
Refuse ==
  /\ ~estop
  /\ LeaveSerial(Refused(tx, "F3"))
  /\ cutFrame' = FALSE
  /\ UNCHANGED <<servoVars, motionActive, ackReq, watchdog, evtMotion, evtSerial,
                 prescaler, progLoaded, estop, history>>

(* Bytes of a frame that does not come to its end.                         *)
BreakOff ==
  /\ ~estop
  /\ cutFrame' = TRUE
  /\ LeaveSerial(tx)
  /\ UNCHANGED <<servoVars, motionActive, ackReq, watchdog, evtMotion, evtSerial,
                 prescaler, progLoaded, estop, history>>

(* A time factor of 0x77 or 0x7F, stored by the receiver.                  *)
TimeFactor ==
  /\ ~estop
  /\ Commands \intersect {"MoveAll", "MoveAllAck"} # {}
  /\ \E a \in Axis, s \in Speed : StoreSpeed(a, s)
  /\ LeaveSerial(tx)
  /\ UNCHANGED <<motionActive, ackReq, watchdog, evtMotion, evtSerial, prescaler,
                 cutFrame, progLoaded, estop, history>>

(* The serial interrupt without a received byte: the last byte is out.     *)
NextByte ==
  /\ ~estop /\ ti
  /\ LeaveSerial(tx)
  /\ UNCHANGED <<servoVars, motionActive, ackReq, watchdog, evtMotion, evtSerial,
                 prescaler, cutFrame, progLoaded, estop, history>>

(* The UART, which works on while the processor is held.                   *)
ByteOut ==
  /\ sending # Silence
  /\ sending' = Silence /\ ti' = TRUE
  /\ UNCHANGED <<servoVars, tx, motionActive, ackReq, watchdog, evtMotion,
                 evtSerial, prescaler, cutFrame, progLoaded, estop, history>>

-----------------------------------------------------------------------------
(* The main loop: motion service, transmitter, serial time-out.            *)
Arrived == motionActive /\ axisActive = Axis /\ needMove = {}

LateOnTheWay == motionActive /\ axisActive # {} /\ evtMotion

Late    == motionActive /\ axisActive # Axis /\ evtMotion
Expired == Late /\ watchdog = 1

(* Arrival: the reply becomes what bit R asked for, pending or not.        *)
MotionServed == IF Arrived THEN [tx EXCEPT !.reply = ackReq]
                ELSE IF Expired THEN [tx EXCEPT !.code = "F7", !.status = TRUE]
                ELSE tx

KickedAnyway(t) == TxNext(t)

Kicked(t) == IF t.idle THEN TxNext(t) ELSE t

TimedOut(t) == [t EXCEPT !.code = "F1", !.status = TRUE]

MainLoop ==
  /\ ~estop
  /\ motionActive' = (motionActive /\ ~Arrived /\ ~Expired)
  /\ IF Late THEN evtMotion' = FALSE /\ watchdog' = Back(watchdog)
             ELSE UNCHANGED <<evtMotion, watchdog>>
  /\ IF Expired THEN CutMotors ELSE UNCHANGED servoVars
  /\ cut' = (cut \/ Expired)
  /\ sending' = IF MotionServed.idle /\ TxByte(MotionServed) # Silence
                THEN TxByte(MotionServed) ELSE sending
  /\ evtSerial' = FALSE
  /\ \/ tx' = Kicked(MotionServed) /\ UNCHANGED cutFrame
     \/ /\ evtSerial /\ cutFrame
        /\ tx' = TimedOut(Kicked(MotionServed))
        /\ cutFrame' = FALSE
  /\ UNCHANGED <<ti, ackReq, prescaler, progLoaded, estop, lastMotion, seen, patience>>

-----------------------------------------------------------------------------
(* The other interrupts.                                                   *)
Timer0 ==
  /\ ~estop
  /\ MarkPhase
  /\ evtSerial' = TRUE
  /\ IF prescaler = 1 THEN prescaler' = Prescale /\ evtMotion' = TRUE
                      ELSE prescaler' = prescaler - 1 /\ UNCHANGED evtMotion
  /\ patience' = IF patience < MaxPatience THEN patience + 1 ELSE patience
  /\ UNCHANGED <<tx, sending, ti, motionActive, ackReq, watchdog, cutFrame,
                 progLoaded, estop, lastMotion, seen, cut>>

Servo ==
  /\ ~estop
  /\ \/ \E r \in Reading :
          /\ ServeAxis(r)
          /\ seen' = IF InPosition(slot, r) THEN seen \union {slot} ELSE seen
     \/ (ServeTimer \/ ServeAnalog) /\ UNCHANGED seen
  /\ UNCHANGED <<ctlVars, lastMotion, patience, cut>>

(* Emergency off: the handler holds both ports at 0 for as long as the     *)
(* line is active, and nothing else runs.  Then it restores them from the  *)
(* shadows.  (The key event it leaves is the teachbox's.)                  *)
EmergencyOff ==
  /\ ~estop
  /\ estop' = TRUE
  /\ port' = [a \in Axis |-> "off"]
  /\ UNCHANGED <<cmdVars, maskVars, tickVars, curPos, feedback, axisActive, slot,
                 axisEnable, shadow, overwritten, tx, sending, ti, motionActive,
                 ackReq, watchdog, evtMotion, evtSerial, prescaler, cutFrame,
                 progLoaded, history>>

LeavePorts   == UNCHANGED port
RestorePorts == port' = shadow

EmergencyOver ==
  /\ estop
  /\ estop' = FALSE
  /\ RestorePorts
  /\ UNCHANGED <<cmdVars, maskVars, tickVars, curPos, feedback, axisActive, slot,
                 axisEnable, shadow, overwritten, tx, sending, ti, motionActive,
                 ackReq, watchdog, evtMotion, evtSerial, prescaler, cutFrame,
                 progLoaded, history>>

Firmware == NextByte \/ MainLoop \/ Timer0 \/ Servo

HostFrame == (\E c \in Commands : Execute(c)) \/ TimeFactor

LineFault == Refuse \/ BreakOff

Next == HostFrame \/ LineFault \/ ByteOut \/ Firmware \/ EmergencyOff \/ EmergencyOver

(* The main loop runs for ever and each source of interrupts comes back:   *)
(* the converter is restarted by each EXT1, Timer 0 by its overflow, TI by *)
(* the byte before.  Fairness is strong because emergency off takes the    *)
(* processor away from all of them: a request is latched, and served when  *)
(* the line is released, which it is in the end.                           *)
Fairness == /\ SF_vars(MainLoop) /\ SF_vars(Timer0) /\ SF_vars(Servo)
            /\ SF_vars(NextByte) /\ WF_vars(ByteOut) /\ WF_vars(EmergencyOver)

Spec == ControllerInit /\ [][Next]_vars /\ Fairness

-----------------------------------------------------------------------------
(* Type invariant.                                                         *)
TypeOK ==
  /\ ServoTypeOK
  /\ tx \in TxState
  /\ sending \in Byte
  /\ ti \in BOOLEAN /\ motionActive \in BOOLEAN /\ ackReq \in BOOLEAN
  /\ watchdog \in 0 .. WatchdogLoad
  /\ evtMotion \in BOOLEAN /\ evtSerial \in BOOLEAN
  /\ prescaler \in 1 .. Prescale
  /\ cutFrame \in BOOLEAN /\ progLoaded \in BOOLEAN /\ estop \in BOOLEAN
  /\ lastMotion \in Motions \union {"none"}
  /\ seen \subseteq Axis
  /\ patience \in 0 .. MaxPatience
  /\ cut \in BOOLEAN

(* The transmitter is handed between the main loop, the UART and the       *)
(* serial interrupt as one token: it is idle, or a byte is on the line, or *)
(* TI waits to be served, and never two of these.  So SBUF is never        *)
(* written while a byte is on the line, and the chain that sends the rest  *)
(* of an answer never breaks.                                              *)
TransmitToken ==
  /\ tx.idle => sending = Silence /\ ~ti
  /\ ti => sending = Silence
  /\ ~tx.idle => sending # Silence \/ ti

(* A watched motion always has a watchdog that can still expire.           *)
WatchdogArmed == motionActive => watchdog >= 1

(* The motors the watchdog cut stay off, in the ports and in the shadows   *)
(* that emergency off restores, until the host enables them again.         *)
CutMeansOff == cut => /\ ~axisEnable
                      /\ \A a \in Axis : port[a] = "off" /\ shadow[a] = "off"

(* Outside emergency off the ports are what the shadows say; inside they   *)
(* are dead, whoever was writing them when it struck.                      *)
PortsAsTheyShould == port = IF estop THEN [a \in Axis |-> "off"] ELSE shadow

(* The watchdog does not bite early: since the last motion command there   *)
(* were at least WatchdogLoad - 2 full periods of the motion event and one *)
(* more overflow of Timer 0 (the first event may be left over from before, *)
(* the second may be due at once).                                         *)
WatchdogPatience ==
  [][Expired /\ motionActive' # motionActive
       => patience >= Prescale * (WatchdogLoad - 2) + 1]_vars

(* 0x0F: the acknowledgment of a move of the whole arm without time        *)
(* factors is asked for only when every axis has been found in position    *)
(* since the command came.                                                 *)
AckAfterArrival ==
  [][Arrived /\ ackReq /\ motionActive' # motionActive /\ lastMotion = "PositionAllAck"
       => seen = Axis]_vars

(* Once the host is silent, what is queued for the line goes out and the   *)
(* transmitter comes to rest.                                              *)
Drained == tx.idle /\ ~tx.buffer /\ ~tx.stream /\ ~tx.reply /\ ~tx.etx /\ ~tx.status

LineDrains == (<>[][~(HostFrame \/ LineFault)]_vars) => <>[]Drained

(* Once the host is silent, the watch over a motion ends, by arrival or by *)
(* the watchdog, unless the host has left the motors disabled.             *)
WatchEnds == (<>[][~(HostFrame \/ LineFault)]_vars) => <>[](~motionActive \/ ~axisEnable)

(* "R = 1: request an acknowledgment after the robot reaches the target    *)
(* position" (command.md), for every command that has the bit.             *)
AckAfterReach ==
  [][Arrived /\ ackReq /\ motionActive' # motionActive => seen = Axis]_vars
=============================================================================
