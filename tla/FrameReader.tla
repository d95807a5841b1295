---------------------------- MODULE FrameReader ----------------------------
(***************************************************************************)
(* What a receiver of ROB3 frames promises: a header fixes how many bytes  *)
(* follow, every byte counts once, and the byte that completes the frame   *)
(* decides whether it is accepted.  A download fixes its length with its   *)
(* second payload byte.  Silence may end a frame anywhere.                 *)
(***************************************************************************)
EXTENDS Integers

CONSTANTS
  Byte,             \* what may come over the line
  ETX,              \* the byte that ends a frame
  Download,         \* the header whose length comes with the payload
  Ignored(_),       \* headers that start no frame
  NoPayload(_),     \* headers that ETX must follow at once
  PayloadLength(_)  \* payload bytes of the other headers

VARIABLES
  header,   \* of the frame being read, or the last one
  need,     \* bytes to come, the one in the place of ETX included; 0: idle
  verdict   \* on the last frame that was read to its end

readerVars == <<header, need, verdict>>

ReaderInit == header = 0 /\ need = 0 /\ verdict = "none"

Start(b) ==
  /\ need = 0
  /\ header' = b
  /\ need' = CASE Ignored(b)                      -> 0
               [] ~Ignored(b) /\ NoPayload(b)     -> 1
               [] b = Download                    -> 3
               [] OTHER                           -> PayloadLength(b) + 1
  /\ UNCHANGED verdict

Count ==
  /\ need > 1
  /\ need' = need - 1
  /\ UNCHANGED <<header, verdict>>

(* The second length byte of a download: at least one byte is to come.     *)
Declare ==
  /\ header = Download /\ need = 2
  /\ need' \in Nat \ {0, 1}
  /\ UNCHANGED <<header, verdict>>

Finish(b) ==
  /\ need = 1
  /\ need' = 0
  /\ verdict' = IF b = ETX THEN "accepted" ELSE "refused"
  /\ UNCHANGED header

GiveUp == need' = 0 /\ UNCHANGED <<header, verdict>>

ReaderNext ==
  \/ \E b \in Byte : Start(b) \/ Finish(b)
  \/ Count \/ Declare \/ GiveUp

ReaderSpec == ReaderInit /\ [][ReaderNext]_readerVars
=============================================================================
