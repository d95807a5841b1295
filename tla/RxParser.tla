----------------------------- MODULE RxParser ------------------------------
(***************************************************************************)
(* The receiving half of the serial interrupt (rs232.asm 0x0300..0x03A7,   *)
(* and the head of the dispatcher at 0x03A9), byte by byte: from the       *)
(* header byte through the payload and the program download to the byte in *)
(* the place of ETX, with the idle time-out of the main loop (main.asm).   *)
(* What a complete command does is not modelled here (see Controller): the *)
(* dispatcher's verdict on the frame is, and what it and the rest of the   *)
(* firmware do to the flag "program loaded" (prog_prepare, program.asm).   *)
(*                                                                         *)
(* DecNoWrap, SevenSetpoints, StayInBuffer, KeepProgram, LastOfPages and   *)
(* ClearByteSeen are faulty variants of the definition below each, for     *)
(* showing that the properties notice.                                     *)
(***************************************************************************)
EXTENDS Integers, Sequences

CONSTANTS
  Byte,         \* the bytes that may come over the line
  NAxes,        \* bytes in a group for all axes (6)
  ByteSize,     \* values of a byte counter (256)
  TimeoutLoad   \* timer events of silence that end a frame (0x14)

ASSUME ByteAssumption        == Byte \subseteq 0 .. 255
ASSUME NAxesAssumption       == NAxes \in 2 .. 6
ASSUME ByteSizeAssumption    == ByteSize \in Nat /\ NAxes < ByteSize
ASSUME TimeoutLoadAssumption == TimeoutLoad \in 1 .. ByteSize - 1

ETX      == 3     \* ends a frame
Download == 129   \* 0x81, a program for the external RAM
Sentinel == 131   \* 0x83, the last byte of a program
RX_BUF   == 96    \* 0x60, the payload buffer
SPEEDS   == 112   \* 0x70, the time factors of the axes, read by the servo

Addr == RX_BUF .. RX_BUF + NAxes - 1 \union SPEEDS .. SPEEDS + NAxes - 1

VARIABLES
  inFrame,     \* 0x24.0  a header has come
  awaitEtx,    \* 0x24.1  the next byte must be ETX
  byteSeen,    \* 0x24.2  the time-out runs
  twoPart,     \* 0x24.3  a second group, or the download length, is to come
  lenPart,     \* 0x24.4  the download page count is to come
  header,      \* R6
  ptr,         \* R0      where the next payload byte goes; download: counter
  left,        \* R2      payload bytes to come; download: pages to come
  ram,         \* 0x60+n and 0x70+n
  progLoaded,  \* 0x28.1  STATE_PROG_LOAD
  serTimeout,  \* 0x18    SER_TIMEOUT
  evtSerial,   \* 0x23.7  TMR_EVT_SERIAL
  verdict,     \* what the dispatcher made of the last frame
  frame,       \* history: the payload since the header, of a download its
               \* two length bytes
  streamed,    \* history: program bytes stored since the length bytes
  damaged,     \* history: the program in the RAM was overwritten, and not by
               \* a download that reached its sentinel
  mistaken     \* history: a preparation has taken what was overwritten so
               \* for a program

rxFlags == <<inFrame, awaitEtx, byteSeen, twoPart, lenPart>>
history == <<frame, streamed, damaged, mistaken>>
rxVars  == <<rxFlags, header, ptr, left, ram, progLoaded, serTimeout,
             evtSerial, verdict, history>>

Bit(b, i) == (b \div 2^i) % 2 = 1
AllAxes(h) == h % 8 = 7

(* Counters are bytes and wrap.                                            *)
DecNoWrap(n) == n - 1

Dec(n) == (n + ByteSize - 1) % ByteSize
Inc(n) == (n + 1) % ByteSize

(* At reset the RAM, which a battery backs, is prepared as it is found.    *)
RxInit ==
  /\ inFrame = FALSE /\ awaitEtx = FALSE /\ byteSeen = FALSE
  /\ twoPart = FALSE /\ lenPart = FALSE
  /\ header = 0 /\ ptr = 0 /\ left = 0
  /\ ram = [x \in Addr |-> 0]
  /\ progLoaded \in BOOLEAN
  /\ serTimeout = 0 /\ evtSerial = FALSE
  /\ verdict = "none"
  /\ frame = <<>> /\ streamed = 0
  /\ damaged \in BOOLEAN /\ mistaken = (damaged /\ progLoaded)

-----------------------------------------------------------------------------
(* What the header says of its payload, in the order of the bit tests.     *)
Ignored(h)   == h >= 137                      \* 0x89 and above
NoPayload(h) == \/ h \in {128} \union 130 .. 134
                \/ h < 128 /\ Bit(h, 6) /\ ~(Bit(h, 5) /\ Bit(h, 4))
TwoGroups(h) == h < 128 /\ Bit(h, 6) /\ Bit(h, 5) /\ Bit(h, 4) /\ AllAxes(h)

SevenSetpoints(h) == IF h < 128 /\ AllAxes(h) THEN NAxes + 1
                     ELSE IF h < 128 /\ Bit(h, 4) THEN 2 ELSE 1

FirstGroup(h) == IF h < 128 /\ Bit(h, 6) /\ Bit(h, 5) /\ Bit(h, 4)
                 THEN IF AllAxes(h) THEN NAxes ELSE 2
                 ELSE IF h < 128 /\ ~Bit(h, 6) /\ ~Bit(h, 4) /\ AllAxes(h)
                 THEN NAxes ELSE 1

(* Every byte restarts the time-out.                                       *)
Restart == serTimeout' = TimeoutLoad /\ byteSeen' = TRUE

StayInBuffer  == ptr' = IF ptr \in Addr THEN ptr ELSE RX_BUF
StartOfBuffer == ptr' = RX_BUF

Header(b) ==
  /\ ~inFrame
  /\ Restart
  /\ inFrame' = ~Ignored(b)
  /\ header' = b
  /\ StartOfBuffer
  /\ left' = FirstGroup(b)
  /\ awaitEtx' = (awaitEtx \/ (~Ignored(b) /\ NoPayload(b)))
  /\ twoPart' = (twoPart \/ b = Download \/ TwoGroups(b))
  /\ frame' = <<>> /\ streamed' = 0
  /\ UNCHANGED <<damaged, mistaken, lenPart, ram, progLoaded, evtSerial, verdict>>

(* A payload byte of anything but a download.  After the first of two      *)
(* groups the second goes straight into the speeds the servo reads.        *)
Payload(b) ==
  /\ inFrame /\ ~awaitEtx /\ header # Download
  /\ Restart
  /\ ram' = [ram EXCEPT ![ptr] = b]
  /\ frame' = Append(frame, b)
  /\ IF Dec(left) # 0
     THEN /\ ptr' = ptr + 1 /\ left' = Dec(left)
          /\ UNCHANGED <<twoPart, awaitEtx>>
     ELSE IF twoPart
     THEN /\ ptr' = SPEEDS /\ left' = NAxes
          /\ twoPart' = FALSE
          /\ UNCHANGED awaitEtx
     ELSE /\ ptr' = ptr + 1 /\ left' = 0
          /\ awaitEtx' = TRUE
          /\ UNCHANGED twoPart
  /\ UNCHANGED <<inFrame, lenPart, header, progLoaded, evtSerial, verdict,
                 streamed, damaged, mistaken>>

(* The two length bytes of a download.  The second one also voids the      *)
(* program in the RAM, whose header it overwrites.                         *)
LengthLow(b) ==
  /\ inFrame /\ ~awaitEtx /\ header = Download /\ twoPart
  /\ Restart
  /\ twoPart' = FALSE /\ lenPart' = TRUE
  /\ ptr' = b % ByteSize
  /\ frame' = Append(frame, b)
  /\ UNCHANGED <<inFrame, awaitEtx, header, left, ram, progLoaded, evtSerial,
                 verdict, streamed, damaged, mistaken>>

KeepProgram == UNCHANGED progLoaded
VoidProgram == progLoaded' = FALSE

Pages(b) == Inc(b % ByteSize)

LengthHigh(b) ==
  /\ inFrame /\ ~awaitEtx /\ header = Download /\ ~twoPart /\ lenPart
  /\ Restart
  /\ lenPart' = FALSE
  /\ left' = Pages(b)
  /\ VoidProgram
  /\ frame' = Append(frame, b)
  /\ damaged' = TRUE /\ mistaken' = FALSE
  /\ UNCHANGED <<inFrame, awaitEtx, twoPart, header, ptr, ram, evtSerial,
                 verdict, streamed>>

(* A program byte.  The program counts as loaded when its last byte is the *)
(* sentinel.                                                               *)
LastOfPages(counter, pages) == pages = 0
LastByte(counter, pages)    == counter = 0 /\ pages = 0

Program(b) ==
  /\ inFrame /\ ~awaitEtx /\ header = Download /\ ~twoPart /\ ~lenPart
  /\ Restart
  /\ ptr' = Dec(ptr)
  /\ left' = IF ptr' = 0 THEN Dec(left) ELSE left
  /\ awaitEtx' = LastByte(ptr', left')
  /\ progLoaded' = (progLoaded \/ (awaitEtx' /\ b = Sentinel))
  /\ streamed' = streamed + 1
  /\ damaged' = (damaged /\ ~(awaitEtx' /\ b = Sentinel))
  /\ mistaken' = (mistaken /\ damaged')
  /\ UNCHANGED <<inFrame, twoPart, lenPart, header, ram, evtSerial, verdict, frame>>

(* The byte in the place of ETX: the receiver is cleared (0x24 := 0) and   *)
(* the dispatcher takes the frame or refuses it.  The commands that begin  *)
(* with a preparation keep the program or make it void.                    *)
Prepares(h) == h \in {Download, 130, 135}  \* 0x81, 0x82, 0x87

ClearAll == /\ inFrame' = FALSE /\ awaitEtx' = FALSE /\ byteSeen' = FALSE
            /\ twoPart' = FALSE /\ lenPart' = FALSE

Dispatch(b) ==
  /\ inFrame /\ awaitEtx
  /\ serTimeout' = TimeoutLoad
  /\ ClearAll
  /\ verdict' = IF b = ETX THEN "accepted" ELSE "refused"
  /\ progLoaded' \in IF b = ETX /\ Prepares(header) THEN {progLoaded, FALSE}
                                                   ELSE {progLoaded}
  /\ mistaken' = (mistaken /\ progLoaded')
  /\ UNCHANGED <<header, ptr, left, ram, evtSerial, frame, streamed, damaged>>

Receive(b) == Header(b) \/ Payload(b) \/ LengthLow(b) \/ LengthHigh(b)
              \/ Program(b) \/ Dispatch(b)

(* Timer 0 marks the passing of time for the receiver.                     *)
Tick ==
  /\ evtSerial' = TRUE
  /\ UNCHANGED <<rxFlags, header, ptr, left, ram, progLoaded, serTimeout, verdict,
                 history>>

(* The main loop takes the mark; after enough of them without a byte it    *)
(* gives the frame up (0x24 loses its low four bits, not lenPart).         *)
ClearByteSeen == byteSeen' = FALSE /\ UNCHANGED <<inFrame, awaitEtx, twoPart>>
ClearLow      == /\ inFrame' = FALSE /\ awaitEtx' = FALSE
                 /\ byteSeen' = FALSE /\ twoPart' = FALSE

Idle ==
  /\ evtSerial
  /\ evtSerial' = FALSE
  /\ serTimeout' = IF byteSeen THEN Dec(serTimeout) ELSE serTimeout
  /\ IF byteSeen /\ serTimeout' = 0
     THEN ClearLow
     ELSE UNCHANGED <<inFrame, awaitEtx, byteSeen, twoPart>>
  /\ UNCHANGED <<lenPart, header, ptr, left, ram, progLoaded, verdict, history>>

(* prog_prepare (0x0803), from the autostart of the main loop and from the *)
(* teachbox: it takes the program for loaded and then looks for what makes *)
(* it void.  Its verdict hangs on bytes that are not modelled; it may well *)
(* accept the torso of a download as long as the program before, whose end *)
(* is still in its place.                                                  *)
prog_prepare ==
  /\ progLoaded' \in BOOLEAN
  /\ mistaken' = (damaged /\ progLoaded')
  /\ UNCHANGED <<rxFlags, header, ptr, left, ram, serTimeout, evtSerial, verdict,
                 frame, streamed, damaged>>

Line == \E b \in Byte : Receive(b)

RxNext == Line \/ Tick \/ Idle \/ prog_prepare

(* Timer 0 keeps overflowing and the main loop keeps going round; the host *)
(* owes nothing.                                                           *)
RxSpec == RxInit /\ [][RxNext]_rxVars /\ WF_rxVars(Tick) /\ WF_rxVars(Idle)

-----------------------------------------------------------------------------
(* Type invariant.  R0 is an address while a payload comes in and a byte   *)
(* counter during a download.                                              *)
RxTypeOK ==
  /\ inFrame \in BOOLEAN /\ awaitEtx \in BOOLEAN /\ byteSeen \in BOOLEAN
  /\ twoPart \in BOOLEAN /\ lenPart \in BOOLEAN
  /\ header \in 0 .. 255
  /\ ptr \in Nat /\ left \in Nat
  /\ ram \in [Addr -> 0 .. 255]
  /\ progLoaded \in BOOLEAN
  /\ serTimeout \in 0 .. ByteSize - 1
  /\ evtSerial \in BOOLEAN
  /\ verdict \in {"none", "accepted", "refused"}
  /\ frame \in Seq(0 .. 255) /\ streamed \in Nat
  /\ damaged \in BOOLEAN /\ mistaken \in BOOLEAN

PayloadLength(h) == FirstGroup(h) + IF TwoGroups(h) THEN NAxes ELSE 0

(* Where the i-th payload byte of a frame belongs.                         *)
Place(h, i) == IF TwoGroups(h) /\ i > NAxes THEN SPEEDS + i - NAxes - 1
                                            ELSE RX_BUF + i - 1

(* A group never runs past its place: behind RX_BUF lies the program       *)
(* counter (0x66), behind the speeds the servo's own work space (0x78).    *)
StoresInBounds ==
  inFrame /\ ~awaitEtx /\ header # Download => ptr \in Addr

(* How many program bytes two length bytes stand for.                      *)
AsCount(n) == IF n = 0 THEN ByteSize ELSE n
Declared(lo, hi) ==
  AsCount(lo % ByteSize) + ByteSize * (AsCount(Inc(hi % ByteSize)) - 1)

(* What the dispatcher finds when the last byte of a frame comes in is the *)
(* whole payload of that very frame, every byte in its place: nothing is   *)
(* left over from a frame that was cut off, nothing is missing, and a      *)
(* download has as many bytes as it declared.                              *)
ReadyFrameIsWhole ==
  inFrame /\ awaitEtx =>
    IF header = Download
    THEN Len(frame) = 2 /\ streamed = Declared(frame[1], frame[2])
    ELSE /\ Len(frame) = IF NoPayload(header) THEN 0 ELSE PayloadLength(header)
         /\ \A i \in 1 .. Len(frame) : ram[Place(header, i)] = frame[i]

(* The receiver itself never leaves the torso of a download standing as a  *)
(* loaded program, however it was cut off: if the torso counts as loaded,  *)
(* a preparation since the last download began has mistaken it for one.    *)
ReceiverLoadsNoTorso == damaged /\ progLoaded => mistaken

(* Whatever garbage came before, once the host is silent the receiver      *)
(* ends up between two frames and ready for a header.                      *)
ReceiverResyncs == (<>[][~Line]_rxVars) => <>[](~inFrame)

(* The program bytes still to come, of a download past its length bytes.   *)
StreamLeft == Dec(left) * ByteSize + AsCount(ptr)

(* The bytes the frame still needs, the one in the place of ETX included.  *)
Needed ==
  CASE ~inFrame                        -> 0
    [] inFrame /\ awaitEtx             -> 1
    [] inFrame /\ ~awaitEtx /\ header # Download
                                       -> left + (IF twoPart THEN NAxes ELSE 0) + 1
    [] inFrame /\ ~awaitEtx /\ header = Download
                                       -> IF twoPart THEN 3 ELSE IF lenPart THEN 2
                                          ELSE StreamLeft + 1

Abstract == INSTANCE FrameReader WITH need <- Needed

FrameReaderHolds == Abstract!ReaderSpec
=============================================================================
