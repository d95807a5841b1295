--------------------------- MODULE RegionListing ---------------------------
(***************************************************************************)
(* The converter firmware/src/annotated/d51_to_sdas.py: a region of the    *)
(* ROM becomes source text for the assembler sdas8051.  A first sweep      *)
(* collects instruction boundaries and jump targets, a second one writes   *)
(* the lines.  Opcodes and operand kinds come from the package disasm51;   *)
(* the assembler, external too, is modelled to say what a listing is       *)
(* worth: the bytes it gives.                                              *)
(*                                                                         *)
(* An instruction is one step.  A line is a record; spelling and comments  *)
(* are left out.                                                           *)
(***************************************************************************)
EXTENDS Integers, Sequences, SequencesExt, FiniteSets

CONSTANTS Base,     \* values of a byte, 256
          Parts,    \* targets of a page an ADDR opcode can name, 8
          Table,    \* the opcodes disasm51 knows: [mn, args] each
          Org,      \* address of the region
          Regions   \* what the ROM may hold there

Byte == 0 .. Base - 1
PageSize == Parts * Base
ArgType == {"IMM", "DATA", "BIT", "REL", "LABEL", "ADDR"}
Jumps == {"REL", "LABEL", "ADDR"}

ASSUME ListingAssumption ==
  /\ Base \in Nat \ {0} /\ Parts \in Nat \ {0} /\ Base % Parts = 0 /\ Org \in Nat
  /\ DOMAIN Table \subseteq Byte
  /\ \A o \in DOMAIN Table : Table[o].args \in Seq(ArgType)
  /\ \A r \in Regions : r \in Seq(Byte)

\* The bits of an ADDR opcode that name a part of the page.
Part(o) == o \div (Base \div Parts)

\* A mnemonic stands for one opcode, or for an ADDR jump: one opcode a part.
ASSUME MnemonicAssumption ==
  \A o, q \in DOMAIN Table : Table[o].mn = Table[q].mn =>
    /\ Table[o].args = Table[q].args
    /\ o # q => "ADDR" \in Range(Table[o].args) /\ Part(o) # Part(q)

VARIABLES
  data,        \* the bytes of the region
  pass,        \* "sweep", "emit", "done", or "failed" by an IndexError
  pc,          \* bytes handled in this pass
  boundaries, targets,
  out          \* the lines written

vars == <<data, pass, pc, boundaries, targets, out>>

Init == /\ data \in Regions /\ pass = "sweep" /\ pc = 0
        /\ boundaries = {} /\ targets = {} /\ out = <<>>

-----------------------------------------------------------------------------
(* One instruction at an offset of the region.                             *)
Opcode(p) == data[p + 1]
Known(p) == Opcode(p) \in DOMAIN Table
Args(p) == Table[Opcode(p)].args
Width(t) == IF t = "LABEL" THEN 2 ELSE 1
Plus == [x \in Nat \X Nat |-> x[1] + x[2]]
Total(s) == FoldLeft(LAMBDA n, k : Plus[<<n, k>>], 0, s)
Size(args) == Total([i \in DOMAIN args |-> Width(args[i])])
Length(p) == IF Known(p) THEN 1 + Size(Args(p)) ELSE 1
InRegion(a) == Org <= a /\ a < Org + Len(data)

\* aidx: where the bytes of argument i are, as an offset of the region
At(p, i) == p + 1 + Size(SubSeq(Args(p), 1, i - 1))
Short(p, i) == At(p, i) + Width(Args(p)[i]) > Len(data)

\* A slip of the code: the displacement counts from the instruction itself.
FollowingSame(p) == Org + p
Following(p) == Org + p + Length(p)
\* The code masks with 0xF800, which would wrap at the end of 64 KB: only for an
\* instruction that ends there, and the ROM ends at 0x2000.
Page(a) == (a \div PageSize) * PageSize
Signed(b) == IF 2 * b >= Base THEN b - Base ELSE b
Target(p, i) ==
  LET b == data[At(p, i) + 1]
  IN CASE Args(p)[i] = "REL" -> Following(p) + Signed(b)
       [] Args(p)[i] = "LABEL" -> b * Base + data[At(p, i) + 2]
       [] Args(p)[i] = "ADDR" ->
            Page(Following(p)) + Part(Opcode(p)) * Base + b

-----------------------------------------------------------------------------
(* The first pass looks only at the arguments that are targets.            *)
JumpArgs(p) == IF Known(p) THEN {i \in DOMAIN Args(p) : Args(p)[i] \in Jumps} ELSE {}
Advance == pc' = pc + Length(pc)

\* A slip of the code: the IndexError ends the program as if all were well.
FailQuietly == pass' = "done"
Fail == pass' = "failed"

Sweep ==
  /\ pass = "sweep" /\ pc < Len(data)
  /\ ~\E i \in JumpArgs(pc) : Short(pc, i)
  /\ boundaries' = boundaries \cup {Org + pc}
  /\ targets' = targets \cup {a \in {Target(pc, i) : i \in JumpArgs(pc)} : InRegion(a)}
  /\ Advance /\ UNCHANGED <<data, pass, out>>

SweepFails ==
  /\ pass = "sweep" /\ pc < Len(data)
  /\ \E i \in JumpArgs(pc) : Short(pc, i)
  /\ Fail /\ UNCHANGED <<data, pc, boundaries, targets, out>>

labeled == targets \cap boundaries

Org_line == [kind |-> "org", at |-> Org]
StartEmit ==
  /\ pass = "sweep" /\ pc >= Len(data)
  /\ pass' = "emit" /\ pc' = 0 /\ out' = <<Org_line>>
  /\ UNCHANGED <<data, boundaries, targets>>

-----------------------------------------------------------------------------
(* The second pass.  Absolute targets are written as numbers.              *)
Number(v) == [label |-> FALSE, value |-> v]
target_str(a) == [label |-> a \in labeled, value |-> a]

Operand(p, i) ==
  CASE Args(p)[i] = "REL" -> target_str(Target(p, i))
    [] Args(p)[i] \in {"LABEL", "ADDR"} -> Number(Target(p, i))
    [] Args(p)[i] \in {"IMM", "DATA", "BIT"} -> Number(data[At(p, i) + 1])

LabelLine(p) == IF Org + p \in labeled
                THEN <<[kind |-> "label", at |-> Org + p]>> ELSE <<>>
CodeLine(p) ==
  IF Known(p)
  THEN [kind |-> "ins", mn |-> Table[Opcode(p)].mn,
        ops |-> [i \in DOMAIN Args(p) |-> Operand(p, i)]]
  ELSE [kind |-> "db", byte |-> Opcode(p)]

CutOff(p) == Known(p) /\ \E i \in DOMAIN Args(p) : Short(p, i)
Emit ==
  /\ pass = "emit" /\ pc < Len(data) /\ ~CutOff(pc)
  /\ out' = out \o LabelLine(pc) \o <<CodeLine(pc)>>
  /\ Advance /\ UNCHANGED <<data, pass, boundaries, targets>>

\* The label of the instruction has been written by then.
EmitFails ==
  /\ pass = "emit" /\ pc < Len(data) /\ CutOff(pc)
  /\ out' = out \o LabelLine(pc) /\ Fail
  /\ UNCHANGED <<data, pc, boundaries, targets>>

Finish ==
  /\ pass = "emit" /\ pc >= Len(data) /\ pass' = "done"
  /\ UNCHANGED <<data, pc, boundaries, targets, out>>

Next == Sweep \/ SweepFails \/ StartEmit \/ Emit \/ EmitFails \/ Finish

Spec == Init /\ [][Next]_vars

-----------------------------------------------------------------------------
(* What the assembler makes of a listing: the address of each line, the    *)
(* labels, the bytes of each instruction, -1 for what it refuses.          *)
ArgsOf(mn) == Table[CHOOSE o \in DOMAIN Table : Table[o].mn = mn].args
LineSize(l) == CASE l.kind \in {"org", "label"} -> 0
                 [] l.kind = "db" -> 1
                 [] l.kind = "ins" -> 1 + Size(ArgsOf(l.mn))
AddressOf(n) == Org + Total([k \in 1 .. n - 1 |-> LineSize(out[k])])

LabelLines == {n \in DOMAIN out : out[n].kind = "label"}
Defining(v) == {n \in LabelLines : out[n].at = v}
Resolved(o) == IF ~o.label THEN o.value
               ELSE IF Cardinality(Defining(o.value)) = 1
               THEN AddressOf(CHOOSE n \in Defining(o.value) : TRUE) ELSE -1

RelByte(v, following) ==
  LET d == v - following
  IN IF -Base <= 2 * d /\ 2 * d < Base /\ v >= 0 THEN <<d % Base>> ELSE <<-1>>

OperandBytes(t, v, following) ==
  CASE t = "REL" -> RelByte(v, following)
    [] t = "LABEL" -> <<v \div Base, v % Base>>
    [] t = "ADDR" -> IF Page(v) = Page(following)
                     THEN <<v % Base>> ELSE <<-1>>
    [] t \in {"IMM", "DATA", "BIT"} -> <<v>>

\* The opcode of an ADDR instruction holds the part of the page.
Fits(o, l) ==
  /\ Table[o].mn = l.mn
  /\ \A i \in DOMAIN Table[o].args : Table[o].args[i] = "ADDR" =>
       Part(o) = (Resolved(l.ops[i]) % PageSize) \div Base

Concat == [x \in Seq(Int) \X Seq(Int) |-> x[1] \o x[2]]
Joined(ss) == FoldLeft(LAMBDA s, t : Concat[<<s, t>>], <<>>, ss)

LineBytes(n) ==
  LET l == out[n]
      following == AddressOf(n) + LineSize(l)
  IN CASE l.kind \in {"org", "label"} -> <<>>
       [] l.kind = "db" -> <<l.byte>>
       [] l.kind = "ins" ->
            <<IF \E o \in DOMAIN Table : Fits(o, l)
              THEN CHOOSE o \in DOMAIN Table : Fits(o, l) ELSE -1>>
            \o Joined([i \in DOMAIN ArgsOf(l.mn) |->
                 OperandBytes(ArgsOf(l.mn)[i], Resolved(l.ops[i]), following)])

Assembled == Joined([n \in DOMAIN out |-> LineBytes(n)])

-----------------------------------------------------------------------------
\* "0x%04X" has no form for an address below 0, where a displacement may lead.
Writable == \A n \in DOMAIN out : out[n].kind = "ins" =>
              \A i \in DOMAIN out[n].ops : out[n].ops[i].value >= 0

\* A complete listing assembles to the bytes of the region, whatever of it is
\* data that was decoded as code: every label an operand names is defined, once
\* and at its address.
RoundTrip == pass = "done" /\ Writable => Assembled = data

\* A region that ends inside an instruction is never listed as if it were
\* whole: one of the two passes fails, and the exit status tells.
CutRegionFails == pass = "done" => pc = Len(data)
=============================================================================
