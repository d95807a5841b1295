-------------------------- MODULE MCRegionListing --------------------------
(* Bytes of three bits: an opcode of each kind of operand, one with two,    *)
(* both forms of an ADDR jump and an opcode nobody knows; every region of   *)
(* MCLength bytes, across the border of two pages.                          *)
EXTENDS RegionListing, TLC

Ins(m, a) == [mn |-> m, args |-> a]
MCTable == 0 :> Ins("nop", <<>>) @@ 1 :> Ins("ajmp", <<"ADDR">>)
           @@ 2 :> Ins("ljmp", <<"LABEL">>) @@ 3 :> Ins("sjmp", <<"REL">>)
           @@ 4 :> Ins("mov", <<"IMM">>) @@ 5 :> Ins("ajmp", <<"ADDR">>)
           @@ 6 :> Ins("cjne", <<"DATA", "REL">>)
CONSTANT MCLength
MCRegions == [1 .. MCLength -> Byte]
=============================================================================
