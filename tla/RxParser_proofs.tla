-------------------------- MODULE RxParser_proofs --------------------------
(***************************************************************************)
(* Proofs about RxParser, for every set of bytes on the line, every width  *)
(* of the counters, 2 to 6 axes and every time-out.                        *)
(***************************************************************************)
EXTENDS RxParser, SequenceTheorems, TLAPS

USE ByteAssumption, NAxesAssumption, ByteSizeAssumption, TimeoutLoadAssumption

-----------------------------------------------------------------------------
(* The counters.                                                           *)
Counter == 0 .. ByteSize - 1

(* Counting down and up stays in the byte, and undoes each other.          *)
LEMMA CountersWrap ==
  ASSUME NEW n \in Counter
  PROVE  /\ Dec(n) \in Counter /\ Inc(n) \in Counter
         /\ Dec(n) = IF n = 0 THEN ByteSize - 1 ELSE n - 1
         /\ Inc(n) = IF n = ByteSize - 1 THEN 0 ELSE n + 1
<1> USE DEF Counter
<1>1. Dec(n) = IF n = 0 THEN ByteSize - 1 ELSE n - 1
  <2>1. CASE n = 0
    <3>1. Dec(n) = (ByteSize - 1) % ByteSize
      BY <2>1 DEF Dec
    <3> QED BY <2>1, <3>1
  <2>2. CASE n # 0
    <3>1. (n - 1 + ByteSize) % ByteSize = n - 1
      BY <2>2
    <3>2. n + ByteSize - 1 = n - 1 + ByteSize
      OBVIOUS
    <3> QED BY <2>2, <3>1, <3>2 DEF Dec
  <2> QED BY <2>1, <2>2
<1>2. Inc(n) = IF n = ByteSize - 1 THEN 0 ELSE n + 1
  <2>1. CASE n = ByteSize - 1
    <3>1. Inc(n) = ByteSize % ByteSize
      BY <2>1 DEF Inc
    <3> QED BY <2>1, <3>1
  <2>2. CASE n # ByteSize - 1
    BY <2>2 DEF Inc
  <2> QED BY <2>1, <2>2
<1> QED BY <1>1, <1>2

(* The low part of a length is a counter.                                  *)
LEMMA LengthIsCounter ==
  ASSUME NEW b \in Nat
  PROVE  b % ByteSize \in Counter /\ Pages(b) \in Counter
<1>1. b % ByteSize \in Counter
  BY DEF Counter
<1> QED BY <1>1, CountersWrap DEF Pages

(* A count of 0 means a whole byte's worth: one less is Dec.               *)
LEMMA CountLessOne ==
  ASSUME NEW n \in Counter
  PROVE  AsCount(n) - 1 = Dec(n) /\ AsCount(n) \in 1 .. ByteSize
BY CountersWrap DEF AsCount, Counter

(* The group after a header fits its place.                                *)
LEMMA GroupFits ==
  ASSUME NEW h \in 0 .. 255
  PROVE  /\ FirstGroup(h) \in 1 .. NAxes
         /\ TwoGroups(h) => FirstGroup(h) = NAxes /\ ~Ignored(h) /\ ~NoPayload(h)
                            /\ h # Download
<1>1. FirstGroup(h) \in 1 .. NAxes
  BY DEF FirstGroup
<1>2. ASSUME TwoGroups(h)
      PROVE  FirstGroup(h) = NAxes /\ ~Ignored(h) /\ ~NoPayload(h) /\ h # Download
  BY <1>2 DEF TwoGroups, FirstGroup, Ignored, NoPayload, Download
<1> QED BY <1>1, <1>2

-----------------------------------------------------------------------------
(* Type correctness.                                                       *)
LEMMA AddrIsNat == Addr \subseteq Nat
BY DEF Addr, RX_BUF, SPEEDS

LEMMA InitTypeOK == RxInit => RxTypeOK
<1> SUFFICES ASSUME RxInit PROVE RxTypeOK
  OBVIOUS
<1>1. 0 \in 0 .. 255 /\ 0 \in 0 .. ByteSize - 1 /\ <<>> \in Seq(0 .. 255)
  OBVIOUS
<1>2. damaged \in BOOLEAN /\ progLoaded \in BOOLEAN /\ mistaken = (damaged /\ progLoaded)
  BY DEF RxInit
<1>3. mistaken \in BOOLEAN
  <2> DEFINE both == damaged /\ progLoaded
  <2>1. both \in BOOLEAN /\ mistaken = both
    BY <1>2
  <2> HIDE DEF both
  <2> QED BY <2>1
<1> QED BY <1>1, <1>2, <1>3 DEF RxInit, RxTypeOK

LEMMA StepTypeOK == RxTypeOK /\ [RxNext]_rxVars => RxTypeOK'
<1> SUFFICES ASSUME RxTypeOK, [RxNext]_rxVars
             PROVE  RxTypeOK'
  OBVIOUS
<1> USE DEF RxTypeOK
<1>1. ASSUME NEW b \in Byte, Receive(b) PROVE RxTypeOK'
  <2>0. b \in 0 .. 255 /\ b \in Nat
    OBVIOUS
  <2>1. TimeoutLoad \in 0 .. ByteSize - 1
    OBVIOUS
  <2>2. CASE Header(b)
    <3>1. left' \in Nat /\ ptr' \in Nat
      <4>1. left' = FirstGroup(b) /\ ptr' = 96
        BY <2>2 DEF Header, StartOfBuffer, RX_BUF
      <4>2. FirstGroup(b) \in 1 .. NAxes
        BY <2>0, GroupFits
      <4> QED BY <4>1, <4>2
    <3>2. inFrame' \in BOOLEAN /\ awaitEtx' \in BOOLEAN /\ twoPart' \in BOOLEAN
      <4> DEFINE open == ~Ignored(b)
                 etx  == awaitEtx \/ (~Ignored(b) /\ NoPayload(b))
                 two  == twoPart \/ b = Download \/ TwoGroups(b)
      <4>1. open \in BOOLEAN /\ etx \in BOOLEAN /\ two \in BOOLEAN
        OBVIOUS
      <4>2. inFrame' = open /\ awaitEtx' = etx /\ twoPart' = two
        BY <2>2 DEF Header
      <4> HIDE DEF open, etx, two
      <4> QED BY <4>1, <4>2
    <3>3. frame' = <<>> /\ frame' \in Seq(0 .. 255)
      BY <2>2 DEF Header
    <3> QED BY <2>0, <2>1, <2>2, <3>1, <3>2, <3>3 DEF Header, Restart
  <2>3. CASE Payload(b)
    <3>1. left' \in Nat /\ ptr' \in Nat
      <4>1. left' \in {Dec(left), NAxes, 0} /\ ptr' \in {ptr + 1, SPEEDS}
        BY <2>3 DEF Payload
      <4>2. Dec(left) \in Nat /\ SPEEDS \in Nat
        BY DEF Dec, SPEEDS
      <4> QED BY <4>1, <4>2
    <3>2. frame' \in Seq(0 .. 255) /\ ram' \in [Addr -> 0 .. 255]
      <4>1. frame' = Append(frame, b) /\ ram' = [ram EXCEPT ![ptr] = b]
        BY <2>3 DEF Payload
      <4>2. frame' \in Seq(0 .. 255)
        BY <2>0, <4>1, AppendProperties
      <4>3. ram' \in [Addr -> 0 .. 255]
        BY <2>0, <4>1
      <4> QED BY <4>2, <4>3
    <3>3. awaitEtx' \in BOOLEAN /\ twoPart' \in BOOLEAN
      <4>1. awaitEtx' \in {awaitEtx, TRUE} /\ twoPart' \in {twoPart, FALSE}
        BY <2>3 DEF Payload
      <4> QED BY <4>1
    <3>4. UNCHANGED <<inFrame, lenPart, header, progLoaded, evtSerial, verdict,
                      streamed, damaged, mistaken>>
      BY <2>3 DEF Payload
    <3>5. serTimeout' = TimeoutLoad /\ byteSeen' = TRUE
      BY <2>3 DEF Payload, Restart
    <3> QED BY <2>1, <3>1, <3>2, <3>3, <3>4, <3>5
  <2>4. CASE LengthLow(b)
    <3>1. ptr' \in Nat /\ frame' \in Seq(0 .. 255)
      BY <2>0, <2>4, LengthIsCounter DEF LengthLow, Counter
    <3> QED BY <2>1, <2>4, <3>1 DEF LengthLow, Restart
  <2>5. CASE LengthHigh(b)
    <3>1. left' \in Nat /\ frame' \in Seq(0 .. 255)
      BY <2>0, <2>5, LengthIsCounter DEF LengthHigh, Counter
    <3> QED BY <2>1, <2>5, <3>1 DEF LengthHigh, VoidProgram, Restart
  <2>6. CASE Program(b)
    <3>1. left' \in Nat /\ ptr' \in Nat /\ streamed' \in Nat
      <4>1. Dec(left) \in Nat /\ Dec(ptr) \in Nat
        BY DEF Dec
      <4> QED BY <2>6, <4>1 DEF Program
    <3>2. /\ awaitEtx' \in BOOLEAN /\ progLoaded' \in BOOLEAN
          /\ damaged' \in BOOLEAN /\ mistaken' \in BOOLEAN
      <4> DEFINE last   == LastByte(ptr', left')
                 loaded == progLoaded \/ (awaitEtx' /\ b = Sentinel)
                 torso  == damaged /\ ~(awaitEtx' /\ b = Sentinel)
                 taken  == mistaken /\ damaged'
      <4>1. /\ last \in BOOLEAN /\ loaded \in BOOLEAN
            /\ torso \in BOOLEAN /\ taken \in BOOLEAN
        BY DEF LastByte
      <4>2. /\ awaitEtx' = last /\ progLoaded' = loaded
            /\ damaged' = torso /\ mistaken' = taken
        BY <2>6 DEF Program
      <4> HIDE DEF last, loaded, torso, taken
      <4> QED BY <4>1, <4>2
    <3> QED BY <2>1, <2>6, <3>1, <3>2 DEF Program, Restart
  <2>7. CASE Dispatch(b)
    <3>1. progLoaded' \in BOOLEAN
      <4>1. progLoaded' \in {progLoaded, FALSE}
        BY <2>7 DEF Dispatch
      <4> QED BY <4>1
    <3>2. mistaken' \in BOOLEAN
      <4> DEFINE still == mistaken /\ progLoaded'
      <4>1. still \in BOOLEAN /\ mistaken' = still
        BY <2>7 DEF Dispatch
      <4> HIDE DEF still
      <4> QED BY <4>1
    <3> QED BY <2>1, <2>7, <3>1, <3>2 DEF Dispatch, ClearAll
  <2> QED BY <1>1, <2>2, <2>3, <2>4, <2>5, <2>6, <2>7 DEF Receive
<1>2. CASE Tick
  BY <1>2 DEF Tick, rxFlags, history
<1>3. CASE Idle
  <2>1. Dec(serTimeout) \in 0 .. ByteSize - 1
    BY CountersWrap DEF Counter
  <2>2. serTimeout' \in 0 .. ByteSize - 1
    <3>1. serTimeout' \in {Dec(serTimeout), serTimeout}
      BY <1>3 DEF Idle
    <3> QED BY <2>1, <3>1
  <2>3. /\ inFrame' \in BOOLEAN /\ awaitEtx' \in BOOLEAN
        /\ byteSeen' \in BOOLEAN /\ twoPart' \in BOOLEAN
    <3>1. ClearLow \/ UNCHANGED <<inFrame, awaitEtx, byteSeen, twoPart>>
      BY <1>3 DEF Idle
    <3> QED BY <3>1 DEF ClearLow
  <2>4. evtSerial' = FALSE
        /\ UNCHANGED <<lenPart, header, ptr, left, ram, progLoaded, verdict, history>>
    BY <1>3 DEF Idle
  <2> QED BY <2>2, <2>3, <2>4 DEF history
<1>4. CASE prog_prepare
  <2>1. mistaken' \in BOOLEAN
    <3> DEFINE both == damaged /\ progLoaded'
    <3>1. both \in BOOLEAN /\ mistaken' = both
      BY <1>4 DEF prog_prepare
    <3> HIDE DEF both
    <3> QED BY <3>1
  <2> QED BY <1>4, <2>1 DEF prog_prepare, rxFlags
<1>5. CASE UNCHANGED rxVars
  BY <1>5 DEF rxVars, rxFlags, history
<1> QED BY <1>1, <1>2, <1>3, <1>4, <1>5 DEF RxNext, Line

(* Flags, counters and addresses keep their width.                         *)
THEOREM RxTypeCorrect == RxSpec => []RxTypeOK
BY InitTypeOK, StepTypeOK, PTL DEF RxSpec

-----------------------------------------------------------------------------
(* Of the receiver only the last byte of a download, the sentinel, makes   *)
(* the program count as loaded, and it is there that the RAM stops being a *)
(* torso; whatever else loads a torso is a preparation, which is on record *)
(* as mistaken until a new download voids the program or it is void again. *)
THEOREM ReceiverLoadsNoTorsos == RxSpec => []ReceiverLoadsNoTorso
<1>1. RxInit => ReceiverLoadsNoTorso
  BY DEF RxInit, ReceiverLoadsNoTorso
<1>2. ReceiverLoadsNoTorso /\ [RxNext]_rxVars => ReceiverLoadsNoTorso'
  <2> SUFFICES ASSUME ReceiverLoadsNoTorso, [RxNext]_rxVars, damaged', progLoaded'
               PROVE  mistaken'
    BY DEF ReceiverLoadsNoTorso
  <2> USE DEF ReceiverLoadsNoTorso
  <2>1. ASSUME NEW b \in Byte, Receive(b) PROVE mistaken'
    <3>1. CASE Header(b) \/ Payload(b) \/ LengthLow(b)
      BY <3>1 DEF Header, Payload, LengthLow
    <3>2. CASE LengthHigh(b)
      BY <3>2 DEF LengthHigh, VoidProgram
    <3>3. CASE Program(b)
      <4>1. progLoaded' => progLoaded \/ (awaitEtx' /\ b = Sentinel)
        BY <3>3 DEF Program
      <4>2. damaged' => damaged /\ ~(awaitEtx' /\ b = Sentinel)
        BY <3>3 DEF Program
      <4>3. mistaken /\ damaged' => mistaken'
        BY <3>3 DEF Program
      <4> QED BY <4>1, <4>2, <4>3
    <3>4. CASE Dispatch(b)
      <4>1. progLoaded' = progLoaded \/ progLoaded' = FALSE
        BY <3>4 DEF Dispatch
      <4>2. damaged' = damaged /\ (mistaken /\ progLoaded' => mistaken')
        BY <3>4 DEF Dispatch
      <4> QED BY <4>1, <4>2
    <3> QED BY <2>1, <3>1, <3>2, <3>3, <3>4 DEF Receive
  <2>2. CASE Tick \/ Idle \/ UNCHANGED rxVars
    BY <2>2 DEF Tick, Idle, rxVars, history
  <2>3. CASE prog_prepare
    <3>1. damaged' = damaged /\ (damaged /\ progLoaded' => mistaken')
      BY <2>3 DEF prog_prepare
    <3> QED BY <3>1
  <2> QED BY <2>1, <2>2, <2>3 DEF RxNext, Line
<1> QED BY <1>1, <1>2, PTL DEF RxSpec

-----------------------------------------------------------------------------
(* The invariant of a frame.  Between two frames no flag is left that      *)
(* would change the next; in a payload the pointer is at the place of the  *)
(* next byte, and the bytes of the groups add up to the whole payload; in  *)
(* a download the bytes stored and those to come are what was declared.    *)
Between == ~inFrame => ~awaitEtx /\ ~twoPart

InPlace == \A i \in 1 .. Len(frame) : ram[Place(header, i)] = frame[i]

PayloadComesIn ==
  inFrame /\ ~awaitEtx /\ header # Download =>
    /\ ~NoPayload(header)
    /\ twoPart => TwoGroups(header)
    /\ left \in 1 .. NAxes
    /\ Len(frame) + left + (IF twoPart THEN NAxes ELSE 0) = PayloadLength(header)
    /\ ptr = Place(header, Len(frame) + 1)
    /\ InPlace

DownloadComesIn ==
  inFrame /\ ~awaitEtx /\ header = Download =>
    /\ twoPart => Len(frame) = 0 /\ streamed = 0
    /\ ~twoPart /\ lenPart => Len(frame) = 1 /\ ptr = frame[1] % ByteSize /\ streamed = 0
    /\ ~twoPart /\ ~lenPart =>
         /\ Len(frame) = 2 /\ ptr \in Counter /\ left \in Counter
         /\ streamed + StreamLeft = Declared(frame[1], frame[2])

FrameInv == RxTypeOK /\ Between /\ PayloadComesIn /\ DownloadComesIn /\ ReadyFrameIsWhole

(* The places of a payload are addresses, each for one byte, in a row but  *)
(* for the step from the first group to the second.                        *)
LEMMA PlacesAreApart ==
  ASSUME NEW h \in 0 .. 255, NEW i \in 1 .. PayloadLength(h), NEW j \in 1 .. PayloadLength(h)
  PROVE  /\ Place(h, i) \in Addr
         /\ i # j => Place(h, i) # Place(h, j)
<1>1. CASE TwoGroups(h)
  <2>1. FirstGroup(h) = NAxes
    BY <1>1, GroupFits
  <2>2. PayloadLength(h) = NAxes + NAxes
    BY <1>1, <2>1 DEF PayloadLength
  <2> QED BY <1>1, <2>2 DEF Place, Addr, RX_BUF, SPEEDS
<1>2. CASE ~TwoGroups(h)
  <2>1. FirstGroup(h) \in 1 .. NAxes
    BY GroupFits
  <2>2. PayloadLength(h) \in 1 .. NAxes
    BY <1>2, <2>1 DEF PayloadLength
  <2> QED BY <1>2, <2>2 DEF Place, Addr, RX_BUF, SPEEDS
<1> QED BY <1>1, <1>2

LEMMA PlacesInARow ==
  ASSUME NEW h \in 0 .. 255, NEW i \in Nat \ {0}
  PROVE  Place(h, i + 1) = IF TwoGroups(h) /\ i = NAxes THEN SPEEDS ELSE Place(h, i) + 1
BY DEF Place, RX_BUF, SPEEDS

LEMMA HeaderFrame ==
  ASSUME FrameInv, RxTypeOK', NEW b \in Byte, Header(b)
  PROVE  FrameInv'
<1>1. /\ ~inFrame /\ ~awaitEtx /\ ~twoPart /\ b \in 0 .. 255
      /\ header' = b /\ left' = FirstGroup(b) /\ ptr' = RX_BUF
      /\ frame' = <<>> /\ streamed' = 0
      /\ inFrame' <=> ~Ignored(b)
      /\ awaitEtx' <=> ~Ignored(b) /\ NoPayload(b)
      /\ twoPart' <=> b = Download \/ TwoGroups(b)
  BY DEF FrameInv, Between, Header, StartOfBuffer
<1>2. Len(frame') = 0
  BY <1>1
<1>3. Between'
  <2>1. TwoGroups(b) => ~Ignored(b)
    BY <1>1, GroupFits
  <2>2. b = Download => ~Ignored(b)
    BY DEF Download, Ignored
  <2> QED BY <1>1, <2>1, <2>2 DEF Between
<1>4. PayloadComesIn'
  <2> SUFFICES ASSUME inFrame', ~awaitEtx', header' # Download
               PROVE  /\ ~NoPayload(header')
                      /\ twoPart' => TwoGroups(header')
                      /\ left' \in 1 .. NAxes
                      /\ Len(frame') + left' + (IF twoPart' THEN NAxes ELSE 0)
                           = PayloadLength(header')
                      /\ ptr' = Place(header', Len(frame') + 1)
                      /\ InPlace'
    BY DEF PayloadComesIn
  <2>1. ptr' = Place(header', Len(frame') + 1)
    BY <1>1, <1>2 DEF Place, RX_BUF
  <2>2. FirstGroup(b) \in 1 .. NAxes
    BY <1>1, GroupFits
  <2>3. Len(frame') + left' + (IF twoPart' THEN NAxes ELSE 0) = PayloadLength(header')
    BY <1>1, <1>2, <2>2 DEF PayloadLength
  <2> QED BY <1>1, <1>2, <2>1, <2>2, <2>3 DEF InPlace
<1>5. DownloadComesIn'
  BY <1>1, <1>2 DEF DownloadComesIn
<1>6. ReadyFrameIsWhole'
  BY <1>1, <1>2 DEF ReadyFrameIsWhole, NoPayload, Download
<1> QED BY <1>3, <1>4, <1>5, <1>6 DEF FrameInv

LEMMA PayloadFrame ==
  ASSUME FrameInv, RxTypeOK', NEW b \in Byte, Payload(b)
  PROVE  FrameInv'
<1> DEFINE n == Len(frame)
           h == header
<1>1. /\ inFrame /\ ~awaitEtx /\ h # Download /\ h \in 0 .. 255 /\ b \in 0 .. 255
      /\ inFrame' = inFrame /\ header' = h
      /\ ram' = [ram EXCEPT ![ptr] = b] /\ frame' = Append(frame, b)
  BY DEF Payload, FrameInv, RxTypeOK
<1>2. /\ ~NoPayload(h) /\ (twoPart => TwoGroups(h)) /\ left \in 1 .. NAxes
      /\ n + left + (IF twoPart THEN NAxes ELSE 0) = PayloadLength(h)
      /\ ptr = Place(h, n + 1) /\ InPlace
  BY <1>1 DEF FrameInv, PayloadComesIn
<1>3. frame \in Seq(0 .. 255) /\ ram \in [Addr -> 0 .. 255]
  BY DEF FrameInv, RxTypeOK
<1>4. /\ n \in Nat /\ Len(frame') = n + 1 /\ frame'[n + 1] = b
      /\ \A i \in 1 .. n : frame'[i] = frame[i]
  BY <1>1, <1>3, AppendProperties, LenProperties
<1>5. PayloadLength(h) \in Nat /\ n + 1 \in 1 .. PayloadLength(h)
  BY <1>2, <1>4
<1>6. InPlace'
  <2>1. ASSUME NEW i \in 1 .. n + 1 PROVE ram'[Place(h, i)] = frame'[i]
    <3>1. i \in 1 .. PayloadLength(h) /\ Place(h, i) \in Addr /\ ptr \in Addr
      <4>1. i \in 1 .. PayloadLength(h)
        BY <1>4, <1>5
      <4> HIDE DEF n, h
      <4> QED BY <1>1, <1>2, <1>5, <4>1, PlacesAreApart
    <3>2. CASE i = n + 1
      BY <1>1, <1>2, <1>3, <1>4, <3>1, <3>2
    <3>3. CASE i # n + 1
      <4>1. i \in 1 .. n
        BY <1>4, <3>3
      <4>2. Place(h, i) # ptr
        <5> HIDE DEF n, h
        <5> QED BY <1>1, <1>2, <1>5, <3>1, <3>3, PlacesAreApart
      <4> QED BY <1>1, <1>2, <1>3, <1>4, <3>1, <4>1, <4>2 DEF InPlace
    <3> QED BY <3>2, <3>3
  <2> QED BY <1>1, <1>4, <2>1 DEF InPlace
<1>7. Dec(left) = left - 1
  BY <1>2, CountersWrap DEF Counter
<1>8. Place(h, n + 2) = IF TwoGroups(h) /\ n + 1 = NAxes THEN SPEEDS ELSE ptr + 1
  <2>1. n + 1 \in Nat \ {0} /\ (n + 1) + 1 = n + 2
    BY <1>4
  <2> HIDE DEF n, h
  <2> QED BY <1>1, <1>2, <2>1, PlacesInARow
<1>9. TwoGroups(h) => PayloadLength(h) = NAxes + NAxes
  BY <1>1, GroupFits DEF PayloadLength
<1>10. CASE left # 1
  <2>1. /\ ptr' = ptr + 1 /\ left' = left - 1 /\ twoPart' = twoPart
        /\ awaitEtx' = awaitEtx
    BY <1>2, <1>7, <1>10 DEF Payload
  <2>2. ptr' = Place(h, n + 2)
    BY <1>2, <1>4, <1>8, <1>9, <1>10, <2>1
  <2>3. PayloadComesIn'
    BY <1>1, <1>2, <1>4, <1>6, <1>10, <2>1, <2>2 DEF PayloadComesIn
  <2> QED BY <1>1, <2>1, <2>3
          DEF FrameInv, Between, DownloadComesIn, ReadyFrameIsWhole
<1>11. CASE left = 1 /\ twoPart
  <2>1. /\ ptr' = SPEEDS /\ left' = NAxes /\ ~twoPart' /\ awaitEtx' = awaitEtx
    BY <1>7, <1>11 DEF Payload
  <2>2. ptr' = Place(h, n + 2)
    BY <1>2, <1>4, <1>8, <1>9, <1>11, <2>1
  <2>3. PayloadComesIn'
    BY <1>1, <1>2, <1>4, <1>6, <1>11, <2>1, <2>2 DEF PayloadComesIn
  <2> QED BY <1>1, <2>1, <2>3
          DEF FrameInv, Between, DownloadComesIn, ReadyFrameIsWhole
<1>12. CASE left = 1 /\ ~twoPart
  <2>1. awaitEtx' /\ n + 1 = PayloadLength(h)
    BY <1>2, <1>4, <1>7, <1>12 DEF Payload
  <2>2. ReadyFrameIsWhole'
    BY <1>1, <1>2, <1>4, <1>6, <2>1 DEF ReadyFrameIsWhole, InPlace
  <2> QED BY <1>1, <2>1, <2>2 DEF FrameInv, Between, PayloadComesIn, DownloadComesIn
<1> QED BY <1>10, <1>11, <1>12

(* A program byte is one of those to come, and the last one is the last.   *)
LEMMA StreamCountsDown ==
  ASSUME ptr \in Counter, left \in Counter, NEW b, Program(b)
  PROVE  /\ ptr' \in Counter /\ left' \in Counter
         /\ StreamLeft \in Nat
         /\ IF awaitEtx' THEN StreamLeft = 1
                         ELSE StreamLeft' = StreamLeft - 1 /\ StreamLeft > 1
<1>1. /\ ptr' = Dec(ptr) /\ left' = (IF Dec(ptr) = 0 THEN Dec(left) ELSE left)
      /\ awaitEtx' <=> ptr' = 0 /\ left' = 0
  BY DEF Program, LastByte
<1>2. /\ Dec(ptr) \in Counter /\ Dec(left) \in Counter
      /\ Dec(ptr) = IF ptr = 0 THEN ByteSize - 1 ELSE ptr - 1
      /\ AsCount(ptr) \in 1 .. ByteSize
  BY CountersWrap, CountLessOne
<1> DEFINE pages == Dec(left)
<1>3. pages * ByteSize \in Nat
  BY <1>2 DEF Counter
<1>4. StreamLeft = pages * ByteSize + AsCount(ptr)
  BY DEF StreamLeft
<1>5. CASE ptr # 1
  <2>1. ptr' # 0 /\ left' = left /\ ~awaitEtx'
    BY <1>1, <1>2, <1>5 DEF Counter
  <2>2. AsCount(ptr') = AsCount(ptr) - 1 /\ AsCount(ptr) > 1
    BY <1>1, <1>2, <1>5, <2>1 DEF AsCount, Counter
  <2>3. StreamLeft' = pages * ByteSize + AsCount(ptr')
    BY <2>1 DEF StreamLeft
  <2> HIDE DEF pages
  <2> QED BY <1>1, <1>2, <1>3, <1>4, <2>1, <2>2, <2>3
<1>6. CASE ptr = 1
  <2>1. ptr' = 0 /\ left' = pages /\ AsCount(ptr) = 1 /\ AsCount(ptr') = ByteSize
    BY <1>1, <1>2, <1>6 DEF AsCount
  <2>2. StreamLeft = pages * ByteSize + 1
    BY <1>4, <2>1
  <2>3. CASE pages = 0
    <3>1. StreamLeft = 1
      BY <2>2, <2>3
    <3> QED BY <1>1, <1>2, <2>1, <2>3, <3>1
  <2>4. CASE pages # 0
    <3>1. Dec(pages) = pages - 1
      BY <1>2, <2>4, CountersWrap
    <3>2. StreamLeft' = (pages - 1) * ByteSize + ByteSize
      BY <2>1, <3>1 DEF StreamLeft
    <3>3. (pages - 1) * ByteSize = pages * ByteSize - ByteSize /\ pages * ByteSize >= 1
      BY <1>2, <2>4 DEF Counter
    <3> HIDE DEF pages
    <3> QED BY <1>1, <1>2, <1>3, <2>1, <2>2, <2>4, <3>2, <3>3
  <2> QED BY <2>3, <2>4
<1> QED BY <1>5, <1>6

(* The second length byte sets out exactly what is declared.               *)
LEMMA DeclaredIsStream ==
  ASSUME NEW lo \in 0 .. 255, NEW hi \in 0 .. 255,
         ptr' = lo % ByteSize, left' = Pages(hi)
  PROVE  StreamLeft' = Declared(lo, hi) /\ StreamLeft' \in Nat \ {0}
<1>1. lo % ByteSize \in Counter /\ Pages(hi) \in Counter
  <2>1. lo \in Nat /\ hi \in Nat
    OBVIOUS
  <2> QED BY <2>1, LengthIsCounter
<1>2. /\ AsCount(Pages(hi)) - 1 = Dec(Pages(hi))
      /\ AsCount(lo % ByteSize) \in 1 .. ByteSize /\ Dec(Pages(hi)) \in Counter
  BY <1>1, CountLessOne, CountersWrap
<1> DEFINE pages == Dec(Pages(hi))
           count == AsCount(lo % ByteSize)
<1>3. Declared(lo, hi) = count + ByteSize * pages
  BY <1>2 DEF Declared, Pages
<1>4. StreamLeft' = pages * ByteSize + count
  BY DEF StreamLeft
<1>5. pages * ByteSize \in Nat /\ pages * ByteSize = ByteSize * pages /\ count \in Nat \ {0}
  BY <1>2 DEF Counter
<1> HIDE DEF pages, count
<1> QED BY <1>3, <1>4, <1>5

LEMMA DownloadFrame ==
  ASSUME FrameInv, RxTypeOK', NEW b \in Byte,
         LengthLow(b) \/ LengthHigh(b) \/ Program(b)
  PROVE  FrameInv'
<1>1. /\ inFrame /\ ~awaitEtx /\ header = Download /\ b \in 0 .. 255
      /\ UNCHANGED <<inFrame, header, ram>>
  BY DEF LengthLow, LengthHigh, Program
<1>2. frame \in Seq(0 .. 255) /\ streamed \in Nat
  BY DEF FrameInv, RxTypeOK
<1>3. Between' /\ PayloadComesIn'
  BY <1>1 DEF Between, PayloadComesIn
<1>4. CASE LengthLow(b)
  <2>1. Len(frame) = 0 /\ streamed = 0
    BY <1>1, <1>4 DEF FrameInv, DownloadComesIn, LengthLow
  <2>2. /\ Len(frame') = 1 /\ frame'[1] = b /\ streamed' = 0 /\ ptr' = b % ByteSize
        /\ ~twoPart' /\ lenPart' /\ ~awaitEtx'
    BY <1>1, <1>2, <1>4, <2>1, AppendProperties DEF LengthLow
  <2> QED BY <1>1, <1>3, <2>2 DEF FrameInv, DownloadComesIn, ReadyFrameIsWhole
<1>5. CASE LengthHigh(b)
  <2>1. Len(frame) = 1 /\ ptr = frame[1] % ByteSize /\ streamed = 0
    BY <1>1, <1>5 DEF FrameInv, DownloadComesIn, LengthHigh
  <2>2. /\ frame' = Append(frame, b) /\ left' = Pages(b) /\ ptr' = ptr /\ streamed' = 0
        /\ ~twoPart' /\ ~lenPart' /\ ~awaitEtx'
    BY <1>1, <1>5, <2>1 DEF LengthHigh
  <2>3. /\ Len(frame') = 2 /\ frame'[1] = frame[1] /\ frame'[2] = b
        /\ frame[1] \in 0 .. 255
    BY <1>1, <1>2, <2>1, <2>2, AppendProperties, ElementOfSeq
  <2>4. StreamLeft' = Declared(frame'[1], frame'[2]) /\ StreamLeft' \in Nat \ {0}
    <3>1. frame'[1] \in 0 .. 255 /\ frame'[2] \in 0 .. 255
      BY <1>1, <2>3
    <3>2. ptr' = frame'[1] % ByteSize /\ left' = Pages(frame'[2])
      BY <2>1, <2>2, <2>3
    <3> QED BY <3>1, <3>2, DeclaredIsStream
  <2>5. ptr' \in Counter /\ left' \in Counter
    <3>1. frame[1] \in Nat /\ b \in Nat
      BY <1>1, <2>3
    <3> QED BY <2>1, <2>2, <3>1, LengthIsCounter
  <2>6. DownloadComesIn'
    BY <2>2, <2>3, <2>4, <2>5 DEF DownloadComesIn
  <2> QED BY <1>1, <1>3, <2>2, <2>6 DEF FrameInv, ReadyFrameIsWhole
<1>6. CASE Program(b)
  <2>1. /\ Len(frame) = 2 /\ ptr \in Counter /\ left \in Counter
        /\ streamed + StreamLeft = Declared(frame[1], frame[2])
    BY <1>1, <1>6 DEF FrameInv, DownloadComesIn, Program
  <2>2. /\ ptr' \in Counter /\ left' \in Counter /\ StreamLeft \in Nat
        /\ IF awaitEtx' THEN StreamLeft = 1
                        ELSE StreamLeft' = StreamLeft - 1 /\ StreamLeft > 1
    BY <1>6, <2>1, StreamCountsDown
  <2>3. frame' = frame /\ streamed' = streamed + 1 /\ ~twoPart' /\ ~lenPart'
    BY <1>6 DEF Program
  <2>4. CASE awaitEtx'
    <3>1. ReadyFrameIsWhole'
      BY <1>1, <2>1, <2>2, <2>3, <2>4 DEF ReadyFrameIsWhole
    <3> QED BY <1>1, <1>3, <2>4, <3>1 DEF FrameInv, DownloadComesIn
  <2>5. CASE ~awaitEtx'
    <3>1. streamed' + StreamLeft' = streamed + StreamLeft
      BY <1>2, <2>2, <2>3, <2>5
    <3>2. DownloadComesIn'
      BY <1>1, <2>1, <2>2, <2>3, <2>5, <3>1 DEF DownloadComesIn
    <3> QED BY <1>1, <1>3, <2>5, <3>2 DEF FrameInv, ReadyFrameIsWhole
  <2> QED BY <2>4, <2>5
<1> QED BY <1>4, <1>5, <1>6

LEMMA InitFrame == RxInit => FrameInv
<1> SUFFICES ASSUME RxInit PROVE FrameInv
  OBVIOUS
<1> QED BY InitTypeOK DEF RxInit, FrameInv, Between, PayloadComesIn, DownloadComesIn,
                          ReadyFrameIsWhole

LEMMA StepFrame == FrameInv /\ [RxNext]_rxVars => FrameInv'
<1> SUFFICES ASSUME FrameInv, [RxNext]_rxVars
             PROVE  FrameInv'
  OBVIOUS
<1>1. RxTypeOK'
  BY StepTypeOK DEF FrameInv
<1>2. CASE UNCHANGED <<header, ptr, left, ram, frame, streamed, inFrame, awaitEtx, twoPart,
                       lenPart>>
  BY <1>1, <1>2 DEF FrameInv, Between, PayloadComesIn, DownloadComesIn, InPlace,
                    ReadyFrameIsWhole, StreamLeft
<1>3. CASE ~inFrame' /\ ~awaitEtx' /\ ~twoPart'
  BY <1>1, <1>3 DEF FrameInv, Between, PayloadComesIn, DownloadComesIn,
                    ReadyFrameIsWhole
<1>4. ASSUME NEW b \in Byte, Receive(b) PROVE FrameInv'
  <2>1. CASE Header(b)
    BY <1>1, <2>1, HeaderFrame
  <2>2. CASE Payload(b)
    BY <1>1, <2>2, PayloadFrame
  <2>3. CASE LengthLow(b) \/ LengthHigh(b) \/ Program(b)
    BY <1>1, <2>3, DownloadFrame
  <2>4. CASE Dispatch(b)
    BY <1>3, <2>4 DEF Dispatch, ClearAll
  <2> QED BY <1>4, <2>1, <2>2, <2>3, <2>4 DEF Receive
<1>5. CASE Tick \/ prog_prepare
  BY <1>2, <1>5 DEF Tick, prog_prepare, rxFlags, history
<1>6. CASE Idle
  BY <1>2, <1>3, <1>6 DEF Idle, ClearLow, history
<1>7. CASE UNCHANGED rxVars
  BY <1>2, <1>7 DEF rxVars, rxFlags, history
<1> QED BY <1>4, <1>5, <1>6, <1>7 DEF RxNext, Line

(* No payload byte is ever stored outside its groups.                      *)
THEOREM StoresStayInBounds == RxSpec => []StoresInBounds
<1>1. FrameInv => StoresInBounds
  <2> SUFFICES ASSUME FrameInv, inFrame, ~awaitEtx, header # Download
               PROVE  ptr \in Addr
    BY DEF StoresInBounds
  <2>1. /\ left \in 1 .. NAxes /\ ptr = Place(header, Len(frame) + 1)
        /\ Len(frame) + left + (IF twoPart THEN NAxes ELSE 0) = PayloadLength(header)
        /\ Len(frame) \in Nat /\ header \in 0 .. 255
    BY LenProperties DEF FrameInv, PayloadComesIn, RxTypeOK
  <2>2. Len(frame) + 1 \in 1 .. PayloadLength(header)
    BY <2>1
  <2> QED BY <2>1, <2>2, PlacesAreApart
<1> QED BY <1>1, InitFrame, StepFrame, PTL DEF RxSpec

(* The dispatcher finds the whole payload of that very frame, each byte in *)
(* its place, and of a download as many bytes as it declared.              *)
THEOREM FramesAreWhole == RxSpec => []ReadyFrameIsWhole
<1>1. FrameInv => ReadyFrameIsWhole
  BY DEF FrameInv
<1> QED BY <1>1, InitFrame, StepFrame, PTL DEF RxSpec

-----------------------------------------------------------------------------
(* The receiver implements FrameReader.                                    *)

(* Needed by its cases, all of them naturals.                              *)
LEMMA NeededByCase ==
  ASSUME FrameInv
  PROVE  /\ ~inFrame => Needed = 0
         /\ inFrame /\ awaitEtx => Needed = 1
         /\ inFrame /\ ~awaitEtx /\ header # Download
              => Needed = left + (IF twoPart THEN NAxes ELSE 0) + 1
         /\ inFrame /\ ~awaitEtx /\ header = Download
              => Needed = IF twoPart THEN 3 ELSE IF lenPart THEN 2 ELSE StreamLeft + 1
BY DEF Needed

LEMMA HeaderStarts ==
  ASSUME FrameInv, FrameInv', NEW b \in Byte, Header(b)
  PROVE  Abstract!Start(b)
<1>1. /\ ~inFrame /\ ~awaitEtx /\ ~twoPart /\ b \in 0 .. 255
      /\ header' = b /\ left' = FirstGroup(b) /\ verdict' = verdict
      /\ inFrame' <=> ~Ignored(b)
      /\ awaitEtx' <=> ~Ignored(b) /\ NoPayload(b)
      /\ twoPart' <=> b = Download \/ TwoGroups(b)
  BY DEF FrameInv, Between, Header
<1>2. Needed = 0
  BY <1>1, NeededByCase
<1>0. Ignored(b) \/ NoPayload(b) => b # Download
  BY <1>1 DEF Ignored, NoPayload, Download
<1>3. CASE Ignored(b)
  <2>1. Needed' = 0
    BY <1>1, <1>3 DEF Needed
  <2> QED BY <1>0, <1>1, <1>2, <1>3, <2>1 DEF Abstract!Start
<1>4. CASE ~Ignored(b) /\ NoPayload(b)
  <2>1. Needed' = 1
    BY <1>1, <1>4 DEF Needed
  <2> QED BY <1>0, <1>1, <1>2, <1>4, <2>1 DEF Abstract!Start
<1>5. CASE ~Ignored(b) /\ ~NoPayload(b) /\ b = Download
  <2>1. Needed' = 3
    BY <1>1, <1>5 DEF Needed
  <2> QED BY <1>1, <1>2, <1>5, <2>1 DEF Abstract!Start
<1>6. CASE ~Ignored(b) /\ ~NoPayload(b) /\ b # Download
  <2>1. Needed' = PayloadLength(b) + 1
    BY <1>1, <1>6 DEF Needed, PayloadLength
  <2> QED BY <1>1, <1>2, <1>6, <2>1 DEF Abstract!Start
<1> QED BY <1>3, <1>4, <1>5, <1>6

LEMMA PayloadCounts ==
  ASSUME FrameInv, NEW b \in Byte, Payload(b)
  PROVE  Abstract!Count
<1>1. /\ inFrame /\ ~awaitEtx /\ header # Download /\ inFrame'
      /\ UNCHANGED <<header, verdict>>
  BY DEF Payload
<1>2. left \in 1 .. NAxes /\ Dec(left) = left - 1
  <2>1. left \in 1 .. NAxes
    BY <1>1 DEF FrameInv, PayloadComesIn
  <2> QED BY <2>1, CountersWrap DEF Counter
<1>3. Needed = left + (IF twoPart THEN NAxes ELSE 0) + 1
  BY <1>1, NeededByCase
<1>4. Needed' = IF awaitEtx' THEN 1 ELSE left' + (IF twoPart' THEN NAxes ELSE 0) + 1
  BY <1>1 DEF Needed
<1>5. CASE left # 1
  <2>1. left' = left - 1 /\ twoPart' = twoPart /\ ~awaitEtx'
    BY <1>1, <1>2, <1>5 DEF Payload
  <2> QED BY <1>1, <1>2, <1>3, <1>4, <2>1 DEF Abstract!Count
<1>6. CASE left = 1 /\ twoPart
  <2>1. left' = NAxes /\ ~twoPart' /\ ~awaitEtx'
    BY <1>1, <1>2, <1>6 DEF Payload
  <2> QED BY <1>1, <1>2, <1>3, <1>4, <1>6, <2>1 DEF Abstract!Count
<1>7. CASE left = 1 /\ ~twoPart
  <2>1. awaitEtx'
    BY <1>1, <1>2, <1>7 DEF Payload
  <2> QED BY <1>1, <1>2, <1>3, <1>4, <1>7, <2>1 DEF Abstract!Count
<1> QED BY <1>5, <1>6, <1>7

LEMMA DownloadCounts ==
  ASSUME FrameInv, NEW b \in Byte, LengthLow(b) \/ LengthHigh(b) \/ Program(b)
  PROVE  Abstract!Count \/ Abstract!Declare
<1>1. /\ inFrame /\ ~awaitEtx /\ header = Download /\ inFrame'
      /\ UNCHANGED <<header, verdict>> /\ b \in 0 .. 255
  BY DEF LengthLow, LengthHigh, Program
<1>2. CASE LengthLow(b)
  <2>1. Needed = 3 /\ Needed' = 2
    BY <1>1, <1>2, NeededByCase DEF LengthLow, Needed
  <2> QED BY <1>1, <2>1 DEF Abstract!Count
<1>3. CASE LengthHigh(b)
  <2>1. /\ Len(frame) = 1 /\ ptr' = frame[1] % ByteSize /\ left' = Pages(b)
        /\ frame \in Seq(0 .. 255)
    BY <1>1, <1>3 DEF FrameInv, DownloadComesIn, LengthHigh, RxTypeOK
  <2>2. frame[1] \in 0 .. 255
    <3>1. 1 \in 1 .. Len(frame)
      BY <2>1
    <3> QED BY <2>1, <3>1, ElementOfSeq
  <2>3. StreamLeft' \in Nat \ {0}
    BY <1>1, <2>1, <2>2, DeclaredIsStream
  <2>4. Needed = 2 /\ Needed' = StreamLeft' + 1
    BY <1>1, <1>3, NeededByCase DEF LengthHigh, Needed
  <2>5. Needed' \in Nat \ {0, 1}
    <3>1. \A k \in Nat \ {0} : k + 1 \in Nat \ {0, 1}
      OBVIOUS
    <3> QED BY <2>3, <2>4, <3>1
  <2> QED BY <1>1, <2>4, <2>5 DEF Abstract!Declare
<1>4. CASE Program(b)
  <2>1. ptr \in Counter /\ left \in Counter
    BY <1>1, <1>4 DEF FrameInv, DownloadComesIn, Program
  <2>2. /\ StreamLeft \in Nat
        /\ IF awaitEtx' THEN StreamLeft = 1
                        ELSE StreamLeft' = StreamLeft - 1 /\ StreamLeft > 1
    BY <1>4, <2>1, StreamCountsDown
  <2>3. /\ Needed = StreamLeft + 1
        /\ Needed' = IF awaitEtx' THEN 1 ELSE StreamLeft' + 1
    BY <1>1, <1>4, NeededByCase DEF Program, Needed
  <2> QED BY <1>1, <2>2, <2>3 DEF Abstract!Count
<1> QED BY <1>2, <1>3, <1>4

(* Every byte counts once, and the last one decides: the receiver reads    *)
(* frames as FrameReader does.                                             *)
THEOREM ReceiverReadsFrames == RxSpec => FrameReaderHolds
<1>1. RxInit => Abstract!ReaderInit
  BY DEF RxInit, Abstract!ReaderInit, Needed
<1>2. FrameInv /\ FrameInv' /\ [RxNext]_rxVars
        => [Abstract!ReaderNext]_Abstract!readerVars
  <2> SUFFICES ASSUME FrameInv, FrameInv', [RxNext]_rxVars
               PROVE  Abstract!ReaderNext \/ UNCHANGED Abstract!readerVars
    OBVIOUS
  <2>1. CASE UNCHANGED <<inFrame, awaitEtx, twoPart, lenPart, header, ptr, left, verdict>>
    BY <2>1 DEF Abstract!readerVars, Needed, StreamLeft
  <2>2. ASSUME NEW b \in Byte, Receive(b)
        PROVE  Abstract!ReaderNext
    <3>1. CASE Header(b)
      BY <3>1, HeaderStarts DEF Abstract!ReaderNext
    <3>2. CASE Payload(b)
      BY <3>2, PayloadCounts DEF Abstract!ReaderNext
    <3>3. CASE LengthLow(b) \/ LengthHigh(b) \/ Program(b)
      BY <3>3, DownloadCounts DEF Abstract!ReaderNext
    <3>4. CASE Dispatch(b)
      <4>1. Needed = 1 /\ Needed' = 0
        BY <3>4, NeededByCase DEF Dispatch, ClearAll, Needed
      <4>2. Abstract!Finish(b)
        BY <3>4, <4>1 DEF Dispatch, Abstract!Finish
      <4> QED BY <4>2 DEF Abstract!ReaderNext
    <3> QED BY <2>2, <3>1, <3>2, <3>3, <3>4 DEF Receive
  <2>3. CASE Tick \/ prog_prepare
    BY <2>1, <2>3 DEF Tick, prog_prepare, rxFlags
  <2>4. CASE Idle
    <3>1. CASE ClearLow
      <4>1. Needed' = 0
        BY <3>1 DEF ClearLow, Needed
      <4>2. Abstract!GiveUp
        BY <2>4, <4>1 DEF Idle, Abstract!GiveUp
      <4> QED BY <4>2 DEF Abstract!ReaderNext
    <3>2. CASE ~ClearLow
      BY <2>1, <2>4, <3>2 DEF Idle
    <3> QED BY <3>1, <3>2
  <2>5. CASE UNCHANGED rxVars
    BY <2>1, <2>5 DEF rxVars, rxFlags
  <2> QED BY <2>2, <2>3, <2>4, <2>5 DEF RxNext, Line
<1> QED BY <1>1, <1>2, InitFrame, StepFrame, PTL
        DEF RxSpec, FrameReaderHolds, Abstract!ReaderSpec
=============================================================================
