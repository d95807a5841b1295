----------------------------- MODULE MCRxParser -----------------------------
(***************************************************************************)
(* RxParser for TLC: any bytes may come in any order, but of those that    *)
(* are only stored, the payload of a command, two tell old from new.       *)
(***************************************************************************)
EXTENDS RxParser

CONSTANT PayloadByte  \* bound: the bytes that come as payload

MCByte(b) ==
  \/ Header(b) \/ LengthLow(b) \/ LengthHigh(b) \/ Program(b) \/ Dispatch(b)
  \/ b \in PayloadByte /\ Payload(b)

MCLine == \E b \in Byte : MCByte(b)

MCNext == MCLine \/ Tick \/ Idle \/ prog_prepare

MCSpec == RxInit /\ [][MCNext]_rxVars /\ WF_rxVars(Tick) /\ WF_rxVars(Idle)
=============================================================================
