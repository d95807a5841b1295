------------------------ MODULE RegionListing_proofs ------------------------
(***************************************************************************)
(* Proofs about the region listing: a region that ends inside an           *)
(* instruction is not listed, and a complete listing assembles to the      *)
(* bytes of the region.                                                    *)
(***************************************************************************)
EXTENDS RegionListing, FoldLemmas, FiniteSetTheorems

-----------------------------------------------------------------------------
(* Sums of the first members of a sequence of sizes.                       *)
Prefix(f, n) == Total([k \in 1 .. n |-> f[k]])

LEMMA PrefixZero ==
  ASSUME NEW f
  PROVE  Prefix(f, 0) = 0
<1>1. [k \in 1 .. 0 |-> f[k]] = <<>>
  OBVIOUS
<1>2. Fold(Plus, 0, <<>>) = 0
  BY FoldEmpty
<1>3. Total(<<>>) = 0
  BY <1>2, Zenon DEF Fold, Total
<1> QED BY <1>1, <1>3 DEF Prefix

LEMMA PrefixStep ==
  ASSUME NEW n \in Nat, NEW f, \A k \in 1 .. n + 1 : f[k] \in Nat
  PROVE  /\ Prefix(f, n) \in Nat
         /\ Prefix(f, n + 1) = Prefix(f, n) + f[n + 1]
<1> DEFINE s == [k \in 1 .. n |-> f[k]]
           e == f[n + 1]
<1>1. s \in Seq(Nat) /\ e \in Nat
  OBVIOUS
<1>2. [k \in 1 .. n + 1 |-> f[k]] = Append(s, e)
  OBVIOUS
<1> HIDE DEF s, e
<1>3. \A v \in Nat, k \in Nat : Plus[<<v, k>>] = v + k
  BY DEF Plus
<1>4. Fold(Plus, 0, s) \in Nat
  <2>1. ASSUME NEW v \in Nat, NEW k \in Nat PROVE Plus[<<v, k>>] \in Nat
    <3>1. v + k \in Nat /\ Plus[<<v, k>>] = v + k
      BY <1>3
    <3> QED BY <3>1
  <2>2. 0 \in Nat
    OBVIOUS
  <2> QED BY <1>1, <2>1, <2>2, FoldType
<1>5. Fold(Plus, 0, Append(s, e)) = Plus[<<Fold(Plus, 0, s), e>>]
  BY <1>1, FoldAppend
<1>6. Total(s) = Fold(Plus, 0, s) /\ Total(Append(s, e)) = Fold(Plus, 0, Append(s, e))
  BY Zenon DEF Fold, Total
<1>7. Total(s) \in Nat /\ Total(Append(s, e)) = Total(s) + e
  BY <1>1, <1>3, <1>4, <1>5, <1>6
<1> QED BY <1>2, <1>7 DEF Prefix, s, e

LEMMA PrefixGrows ==
  ASSUME NEW n \in Nat, NEW f, \A k \in 1 .. n : f[k] \in Nat
  PROVE  /\ \A m \in 0 .. n : Prefix(f, m) \in Nat
         /\ \A m \in 0 .. n : Prefix(f, m) <= Prefix(f, n)
<1> DEFINE S == {j \in Nat : j <= n =>
                   /\ \A m \in 0 .. j : Prefix(f, m) \in Nat
                   /\ \A m \in 0 .. j : Prefix(f, m) <= Prefix(f, j)}
<1>1. 0 \in S
  <2>1. Prefix(f, 0) = 0
    BY PrefixZero
  <2> QED BY <2>1
<1>2. ASSUME NEW j \in Nat, j \in S PROVE j + 1 \in S
  <2> SUFFICES ASSUME j + 1 <= n
               PROVE  /\ \A m \in 0 .. j + 1 : Prefix(f, m) \in Nat
                      /\ \A m \in 0 .. j + 1 : Prefix(f, m) <= Prefix(f, j + 1)
    OBVIOUS
  <2>1. Prefix(f, j) \in Nat /\ Prefix(f, j + 1) = Prefix(f, j) + f[j + 1]
    <3>1. \A k \in 1 .. j + 1 : f[k] \in Nat
      OBVIOUS
    <3> QED BY <3>1, PrefixStep
  <2>2. f[j + 1] \in Nat
    OBVIOUS
  <2>3. ASSUME NEW m \in 0 .. j + 1
        PROVE  Prefix(f, m) \in Nat /\ Prefix(f, m) <= Prefix(f, j + 1)
    <3>1. CASE m = j + 1
      BY <3>1, <2>1, <2>2
    <3>2. CASE m \in 0 .. j
      <4>1. Prefix(f, m) \in Nat /\ Prefix(f, m) <= Prefix(f, j)
        BY <1>2, <3>2
      <4> QED BY <4>1, <2>1, <2>2
    <3> QED BY <3>1, <3>2
  <2> QED BY <2>3
<1> HIDE DEF S
<1>3. n \in S
  BY <1>1, <1>2, SetInduction
<1> QED BY <1>3 DEF S

-----------------------------------------------------------------------------
(* The bytes of the operands follow each other and end the instruction.    *)
Widths(args) == [i \in DOMAIN args |-> Width(args[i])]

LEMMA WidthsFacts ==
  ASSUME NEW args \in Seq(ArgType)
  PROVE  /\ Len(args) \in Nat /\ DOMAIN args = 1 .. Len(args)
         /\ \A i \in 1 .. Len(args) : Widths(args)[i] = Width(args[i])
         /\ \A i \in 1 .. Len(args) : Widths(args)[i] \in {1, 2}
         /\ Size(args) = Prefix(Widths(args), Len(args))
         /\ \A i \in 1 .. Len(args) :
              Size(SubSeq(args, 1, i - 1)) = Prefix(Widths(args), i - 1)
<1>1. Len(args) \in Nat /\ DOMAIN args = 1 .. Len(args)
  OBVIOUS
<1>2. \A i \in 1 .. Len(args) : Widths(args)[i] = Width(args[i])
  BY <1>1 DEF Widths
<1>3. \A i \in 1 .. Len(args) : Widths(args)[i] \in {1, 2}
  BY <1>2 DEF Width
<1>4. Size(args) = Prefix(Widths(args), Len(args))
  <2>1. [i \in DOMAIN args |-> Width(args[i])] = [k \in 1 .. Len(args) |-> Widths(args)[k]]
    BY <1>1, <1>2
  <2> QED BY <2>1 DEF Size, Prefix
<1>5. ASSUME NEW i \in 1 .. Len(args)
      PROVE  Size(SubSeq(args, 1, i - 1)) = Prefix(Widths(args), i - 1)
  <2>1. /\ DOMAIN SubSeq(args, 1, i - 1) = 1 .. i - 1
        /\ \A k \in 1 .. i - 1 : SubSeq(args, 1, i - 1)[k] = args[k]
    OBVIOUS
  <2>2. [k \in DOMAIN SubSeq(args, 1, i - 1) |-> Width(SubSeq(args, 1, i - 1)[k])]
          = [k \in 1 .. i - 1 |-> Widths(args)[k]]
    <3>1. \A k \in 1 .. i - 1 : Widths(args)[k] = Width(SubSeq(args, 1, i - 1)[k])
      BY <2>1, <1>2
    <3> QED BY <2>1, <3>1
  <2> QED BY <2>2 DEF Size, Prefix
<1> QED BY <1>1, <1>2, <1>3, <1>4, <1>5

\* Where operand i starts; past the last operand, where the instruction ends.
Cut(p, i) == p + 1 + Prefix(Widths(Args(p)), i - 1)

LEMMA InstructionFacts ==
  ASSUME data \in Seq(Byte), NEW p \in Nat, p < Len(data), Known(p)
  PROVE  /\ Opcode(p) \in DOMAIN Table /\ Args(p) \in Seq(ArgType)
         /\ \A i \in 1 .. Len(Args(p)) + 1 : Cut(p, i) \in Nat /\ Cut(p, i) > p
         /\ \A i \in 1 .. Len(Args(p)) : /\ At(p, i) = Cut(p, i)
                                         /\ Cut(p, i + 1) = Cut(p, i) + Width(Args(p)[i])
         /\ \A i \in 1 .. Len(Args(p)) + 1 : Cut(p, i) <= p + Length(p)
         /\ Cut(p, 1) = p + 1 /\ Cut(p, Len(Args(p)) + 1) = p + Length(p)
         /\ Length(p) \in Nat /\ Length(p) >= 1
<1> DEFINE args == Args(p)
           n == Len(args)
           w == Widths(args)
<1>1. Opcode(p) \in DOMAIN Table /\ args \in Seq(ArgType)
  BY ListingAssumption DEF Known, Args
<1> HIDE DEF args
<1>2. /\ n \in Nat /\ DOMAIN args = 1 .. n
      /\ \A i \in 1 .. n : w[i] = Width(args[i])
      /\ \A i \in 1 .. n : w[i] \in {1, 2}
      /\ Size(args) = Prefix(w, n)
      /\ \A i \in 1 .. n : Size(SubSeq(args, 1, i - 1)) = Prefix(w, i - 1)
  BY <1>1, WidthsFacts
<1> HIDE DEF n, w
<1>3. /\ \A m \in 0 .. n : Prefix(w, m) \in Nat
      /\ \A m \in 0 .. n : Prefix(w, m) <= Prefix(w, n)
  <2>1. \A k \in 1 .. n : w[k] \in Nat
    BY <1>2
  <2> QED BY <1>2, <2>1, PrefixGrows
<1>4. \A i : Cut(p, i) = p + 1 + Prefix(w, i - 1)
  BY DEF Cut, w, args
<1>5. Length(p) = 1 + Prefix(w, n)
  BY <1>2 DEF Length, args
<1>6. ASSUME NEW i \in 1 .. n
      PROVE  At(p, i) = Cut(p, i) /\ Cut(p, i + 1) = Cut(p, i) + Width(args[i])
  <2>1. At(p, i) = p + 1 + Prefix(w, i - 1)
    BY <1>2 DEF At, args
  <2>2. Prefix(w, (i - 1) + 1) = Prefix(w, i - 1) + w[(i - 1) + 1]
    <3>1. i - 1 \in Nat /\ \A k \in 1 .. (i - 1) + 1 : w[k] \in Nat
      BY <1>2
    <3> QED BY <3>1, PrefixStep
  <2>3. (i - 1) + 1 = i /\ (i + 1) - 1 = i
    BY <1>2
  <2>4. Prefix(w, i) = Prefix(w, i - 1) + Width(args[i])
    BY <2>2, <2>3, <1>2
  <2>5. Cut(p, i + 1) = p + 1 + Prefix(w, i)
    BY <1>4, <2>3
  <2>6. Prefix(w, i - 1) \in Nat /\ Width(args[i]) \in Nat
    <3>1. i - 1 \in 0 .. n /\ w[i] \in Nat
      BY <1>2
    <3> QED BY <1>2, <1>3, <3>1
  <2>7. Cut(p, i) = p + 1 + Prefix(w, i - 1)
    BY <1>4
  <2> QED BY <2>1, <2>4, <2>5, <2>6, <2>7
<1>7. ASSUME NEW i \in 1 .. n + 1
      PROVE  Cut(p, i) \in Nat /\ Cut(p, i) > p /\ Cut(p, i) <= p + Length(p)
  <2>1. i - 1 \in 0 .. n
    BY <1>2
  <2>2. Prefix(w, i - 1) \in Nat /\ Prefix(w, i - 1) <= Prefix(w, n) /\ Prefix(w, n) \in Nat
    BY <1>2, <1>3, <2>1
  <2> QED BY <1>4, <1>5, <2>2
<1>8. Cut(p, 1) = p + 1
  <2>1. Prefix(w, 0) = 0 /\ 1 - 1 = 0
    BY PrefixZero
  <2> QED BY <1>4, <2>1
<1>9. Cut(p, n + 1) = p + Length(p) /\ Length(p) \in Nat /\ Length(p) >= 1
  <2>1. (n + 1) - 1 = n /\ Prefix(w, n) \in Nat
    BY <1>2, <1>3
  <2> QED BY <1>4, <1>5, <2>1
<1> QED BY <1>1, <1>6, <1>7, <1>8, <1>9 DEF n, args

LEMMA LengthFacts ==
  ASSUME data \in Seq(Byte), NEW p \in Nat, p < Len(data)
  PROVE  /\ Opcode(p) \in Byte /\ Length(p) \in Nat /\ Length(p) >= 1
         /\ ~CutOff(p) => p + Length(p) <= Len(data)
<1>1. Opcode(p) \in Byte
  BY DEF Opcode
<1>2. CASE ~Known(p)
  <2>1. Length(p) = 1 /\ Len(data) \in Nat
    BY <1>2 DEF Length
  <2> QED BY <1>1, <2>1
<1>3. CASE Known(p)
  <2> DEFINE n == Len(Args(p))
  <2>1. /\ Args(p) \in Seq(ArgType)
        /\ \A i \in 1 .. n : /\ At(p, i) = Cut(p, i)
                             /\ Cut(p, i + 1) = Cut(p, i) + Width(Args(p)[i])
        /\ Cut(p, 1) = p + 1 /\ Cut(p, n + 1) = p + Length(p)
        /\ Length(p) \in Nat /\ Length(p) >= 1
    BY <1>3, InstructionFacts
  <2>2. n \in Nat /\ DOMAIN Args(p) = 1 .. n
    BY <2>1
  <2> HIDE DEF n
  <2>3. ASSUME ~CutOff(p) PROVE p + Length(p) <= Len(data)
    <3>1. CASE n = 0
      BY <3>1, <2>1
    <3>2. CASE n # 0
      <4>1. n \in 1 .. n
        BY <2>2, <3>2
      <4>2. ~Short(p, n)
        BY <1>3, <2>2, <2>3, <4>1 DEF CutOff
      <4>3. ~(At(p, n) + Width(Args(p)[n]) > Len(data))
        BY <4>2 DEF Short
      <4>4. At(p, n) + Width(Args(p)[n]) = p + Length(p)
        BY <2>1, <4>1
      <4> QED BY <2>1, <4>3, <4>4
    <3> QED BY <3>1, <3>2
  <2> QED BY <1>1, <2>1, <2>3
<1> QED BY <1>2, <1>3

-----------------------------------------------------------------------------
(* The first theorem: where the passes end.                                *)
EndInv ==
  /\ data \in Seq(Byte) /\ pc \in Nat
  /\ pass \in {"emit", "done"} => pc <= Len(data)
  /\ pass = "done" => pc >= Len(data)

LEMMA EndInvInit == Init => EndInv
BY ListingAssumption DEF Init, EndInv

LEMMA EndInvNext == EndInv /\ [Next]_vars => EndInv'
<1> SUFFICES ASSUME EndInv, [Next]_vars PROVE EndInv'
  OBVIOUS
<1>0. Len(data) \in Nat
  BY DEF EndInv
<1>a. pc < Len(data) =>
        /\ Length(pc) \in Nat /\ Length(pc) >= 1
        /\ ~CutOff(pc) => pc + Length(pc) <= Len(data)
  BY LengthFacts DEF EndInv
<1>1. CASE Sweep
  BY <1>1, <1>a DEF Sweep, Advance, EndInv
<1>2. CASE SweepFails
  BY <1>2 DEF SweepFails, Fail, EndInv
<1>3. CASE StartEmit
  BY <1>0, <1>3 DEF StartEmit, EndInv
<1>4. CASE Emit
  BY <1>4, <1>a DEF Emit, Advance, EndInv
<1>5. CASE EmitFails
  BY <1>5 DEF EmitFails, Fail, EndInv
<1>6. CASE Finish
  BY <1>6 DEF Finish, EndInv
<1>7. CASE UNCHANGED vars
  BY <1>7 DEF vars, EndInv
<1> QED BY <1>1, <1>2, <1>3, <1>4, <1>5, <1>6, <1>7 DEF Next

(* No run of the converter ends well within an instruction of the region:  *)
(* the second pass stops at an operand that is not there.                  *)
THEOREM CutRegionsFail == Spec => []CutRegionFails
<1>1. EndInv => CutRegionFails
  BY DEF EndInv, CutRegionFails
<1> QED BY <1>1, EndInvInit, EndInvNext, PTL DEF Spec
-----------------------------------------------------------------------------
(* Quotients and remainders of the numbers the converter composes.         *)
LEMMA QuotientUnique ==
  ASSUME NEW d \in Nat \ {0}, NEW q \in Int, NEW s \in Int,
         NEW r \in 0 .. d - 1, NEW t \in 0 .. d - 1, q * d + r = s * d + t
  PROVE  q = s /\ r = t
<1>1. CASE q > s
  <2>1. (q - s) * d >= d
    BY <1>1
  <2> QED BY <2>1
<1>2. CASE q < s
  <2>1. (s - q) * d >= d
    BY <1>2
  <2> QED BY <2>1
<1>3. CASE q = s
   BY <1>3
<1> QED BY <1>1, <1>2, <1>3

LEMMA DivMod ==
  ASSUME NEW d \in Nat \ {0}, NEW q \in Int, NEW r \in 0 .. d - 1
  PROVE  (q * d + r) % d = r /\ (q * d + r) \div d = q
<1> DEFINE x == q * d + r
<1>1. x \in Int
  OBVIOUS
<1>2. x = d * (x \div d) + (x % d) /\ x % d \in 0 .. d - 1 /\ x \div d \in Int
  <2> HIDE DEF x
  <2> QED BY <1>1
<1> QED BY <1>2, QuotientUnique

(* The part an opcode names is one of the page's.                          *)
LEMMA PartFacts ==
  ASSUME NEW o \in Byte
  PROVE  Part(o) \in 0 .. Parts - 1
<1> DEFINE m == Base \div Parts
           k == o \div m
<1>1. Base \in Nat \ {0} /\ Parts \in Nat \ {0} /\ Base % Parts = 0
  BY ListingAssumption
<1>2. m \in Int /\ Base = Parts * m
  BY <1>1
<1>3. m \in Nat \ {0}
  <2> HIDE DEF m
  <2>1. m > 0
    <3>1. CASE m <= 0
      <4> DEFINE n == -m
      <4>2. n >= 0 /\ n \in Int /\ m = -n
        BY <1>2, <3>1
      <4> HIDE DEF n
      <4>3. Parts * n >= 0
        BY <1>1, <4>2
      <4>4. Parts * n + Parts * m = 0
        <5>1. Parts * n + Parts * m = Parts * (n + m) /\ n + m = 0
          BY <1>1, <1>2, <4>2
        <5> QED BY <1>1, <5>1
      <4>5. Parts * n \in Int /\ Parts * m \in Int
        BY <1>1, <1>2, <4>2
      <4>1. Parts * m <= 0
        BY <4>3, <4>4, <4>5
      <4> QED BY <1>1, <1>2, <4>1
    <3> QED BY <1>2, <3>1
  <2> QED BY <1>2, <2>1
<1>4. o \in Nat /\ o < Base
  BY <1>1 DEF Byte
<1> HIDE DEF m
<1>5. k \in Int /\ o = m * k + (o % m) /\ o % m \in 0 .. m - 1
  BY <1>3, <1>4
<1> HIDE DEF k
<1>6. k >= 0
  <2>1. CASE k < 0
    <3>1. m * k <= -m
      BY <1>3, <1>5, <2>1
    <3> QED BY <1>3, <1>4, <1>5, <3>1
  <2> QED BY <1>5, <2>1
<1>7. k < Parts
  <2>1. CASE k >= Parts
    <3>1. m * k >= m * Parts
      BY <1>1, <1>3, <1>5, <2>1
    <3>2. m * Parts = Base
      BY <1>1, <1>2
    <3>3. m * k \in Int /\ o % m >= 0 /\ o % m \in Int
      BY <1>3, <1>5
    <3>4. o >= m * k
      BY <1>4, <1>5, <3>3
    <3> QED BY <1>1, <1>4, <3>1, <3>2, <3>3, <3>4
  <2> QED BY <1>1, <1>5, <2>1
<1> QED BY <1>1, <1>5, <1>6, <1>7 DEF Part, m, k

(* An address in the page of f, from its part and its last byte.           *)
LEMMA PageFacts ==
  ASSUME NEW f \in Nat, NEW k \in 0 .. Parts - 1, NEW b \in Byte,
         NEW v, v = Page(f) + k * Base + b
  PROVE  /\ v \in Int /\ Page(v) = Page(f) /\ v % Base = b
         /\ (v % PageSize) \div Base = k
<1> DEFINE PS == PageSize
           g == f \div PS
           r == k * Base + b
<1>1. Base \in Nat \ {0} /\ Parts \in Nat \ {0} /\ PS = Parts * Base
  BY ListingAssumption DEF PageSize
<1>2. PS \in Nat \ {0}
  BY <1>1
<1> HIDE DEF PS
<1>3. g \in Int /\ Page(f) = g * PS
  BY <1>2 DEF Page, PS
<1> HIDE DEF g
<1>4. b \in 0 .. Base - 1 /\ b \in Int /\ k \in Int /\ k * Base \in Int
  BY <1>1 DEF Byte
<1>5. r \in 0 .. PS - 1
  <2>1. k * Base <= (Parts - 1) * Base /\ k * Base >= 0
    BY <1>1, <1>4
  <2>2. (Parts - 1) * Base = PS - Base
    BY <1>1
  <2> QED BY <1>1, <1>2, <1>4, <2>1, <2>2
<1>6. v = g * PS + r /\ v \in Int
  <2>1. g * PS \in Int
    BY <1>2, <1>3
  <2>2. v = g * PS + k * Base + b
    BY <1>3
  <2> QED BY <1>4, <2>1, <2>2
<1>7. r % Base = b /\ r \div Base = k
  BY <1>1, <1>4, DivMod
<1>8. v = (g * Parts + k) * Base + b
  BY <1>1, <1>3, <1>4, <1>6
<1>9. v % Base = b
  <2> DEFINE h == g * Parts + k
  <2>1. h \in Int
    BY <1>1, <1>3, <1>4
  <2> HIDE DEF h
  <2>2. (h * Base + b) % Base = b
    BY <1>1, <1>4, <2>1, DivMod
  <2> QED BY <1>8, <2>2 DEF h
<1> HIDE DEF r
<1>10. v % PS = r /\ v \div PS = g
  BY <1>2, <1>3, <1>5, <1>6, DivMod
<1>11. Page(v) = Page(f)
  BY <1>3, <1>10 DEF Page, PS
<1> QED BY <1>6, <1>7, <1>9, <1>10, <1>11 DEF PS

(* A displacement is read back from its target.                            *)
LEMMA SignedFacts ==
  ASSUME NEW b \in Byte, NEW f \in Int
  PROVE  /\ Signed(b) \in Int
         /\ f + Signed(b) >= 0 => RelByte(f + Signed(b), f) = <<b>>
<1>1. Base \in Nat \ {0} /\ b \in 0 .. Base - 1 /\ b \in Int
  BY ListingAssumption DEF Byte
<1> DEFINE d == Signed(b)
<1>2. d \in Int /\ -Base <= 2 * d /\ 2 * d < Base
  BY <1>1 DEF Signed
<1>3. d % Base = b
  <2>1. b = 0 * Base + b /\ b - Base = (-1) * Base + b
    BY <1>1
  <2>2. (0 * Base + b) % Base = b /\ ((-1) * Base + b) % Base = b
    BY <1>1, DivMod
  <2>3. d = b \/ d = b - Base
    BY DEF Signed
  <2> QED BY <2>1, <2>2, <2>3
<1> HIDE DEF d
<1>4. (f + d) - f = d
  BY <1>2
<1>5. f + d >= 0 => RelByte(f + d, f) = <<b>>
  BY <1>2, <1>3, <1>4 DEF RelByte
<1> QED BY <1>2, <1>5 DEF d

-----------------------------------------------------------------------------
(* Consecutive pieces of a sequence, joined, are a piece of it.            *)
LEMMA PieceFacts ==
  ASSUME NEW d \in Seq(Int), NEW a \in 0 .. Len(d), NEW b \in 0 .. Len(d), a <= b
  PROVE  /\ SubSeq(d, a + 1, b) \in Seq(Int) /\ Len(SubSeq(d, a + 1, b)) = b - a
         /\ \A i \in 1 .. b - a : SubSeq(d, a + 1, b)[i] = d[a + i]
OBVIOUS

LEMMA PiecesMeet ==
  ASSUME NEW d \in Seq(Int), NEW a \in 0 .. Len(d), NEW b \in 0 .. Len(d),
         NEW c \in 0 .. Len(d), a <= b, b <= c
  PROVE  SubSeq(d, a + 1, b) \o SubSeq(d, b + 1, c) = SubSeq(d, a + 1, c)
<1> DEFINE s == SubSeq(d, a + 1, b)
           t == SubSeq(d, b + 1, c)
           u == SubSeq(d, a + 1, c)
<1>0. Len(d) \in Nat /\ a <= c
  OBVIOUS
<1>1. s \in Seq(Int) /\ Len(s) = b - a /\ \A i \in 1 .. b - a : s[i] = d[a + i]
  BY PieceFacts
<1>2. t \in Seq(Int) /\ Len(t) = c - b /\ \A i \in 1 .. c - b : t[i] = d[b + i]
  BY PieceFacts
<1>3. u \in Seq(Int) /\ Len(u) = c - a /\ \A i \in 1 .. c - a : u[i] = d[a + i]
  BY <1>0, PieceFacts
<1> HIDE DEF s, t, u
<1>4. /\ s \o t \in Seq(Int) /\ Len(s \o t) = Len(s) + Len(t)
      /\ \A i \in 1 .. Len(s) + Len(t) :
           (s \o t)[i] = IF i <= Len(s) THEN s[i] ELSE t[i - Len(s)]
  BY <1>1, <1>2, ConcatProperties
<1> DEFINE x == b - a
           y == c - b
<1>a. /\ x \in Nat /\ y \in Nat /\ x + y = c - a
      /\ \A i \in Int : b + (i - x) = a + i
  BY <1>0
<1>b. Len(s) = x /\ Len(t) = y /\ Len(u) = x + y
  BY <1>1, <1>2, <1>3, <1>a
<1>c. /\ \A i \in 1 .. x : s[i] = d[a + i]
      /\ \A i \in 1 .. y : t[i] = d[b + i]
      /\ \A i \in 1 .. x + y : u[i] = d[a + i]
  BY <1>1, <1>2, <1>3, <1>a
<1> HIDE DEF x, y
<1>5. Len(s \o t) = Len(u)
  BY <1>4, <1>b
<1>6. ASSUME NEW i \in 1 .. Len(u) PROVE (s \o t)[i] = u[i]
  <2>0. i \in 1 .. x + y /\ i \in Int /\ i >= 1
    BY <1>b, <1>a
  <2>1. CASE i <= x
    <3>1. i \in 1 .. x
      BY <2>0, <2>1, <1>a
    <3>2. (s \o t)[i] = s[i]
      BY <1>4, <1>b, <2>0, <2>1
    <3> QED BY <3>1, <3>2, <1>c, <2>0
  <2>2. CASE ~(i <= x)
    <3>1. i - x \in 1 .. y /\ b + (i - x) = a + i
      BY <2>0, <2>2, <1>a
    <3>2. (s \o t)[i] = t[i - x]
      BY <1>4, <1>b, <2>0, <2>2
    <3>3. t[i - x] = d[b + (i - x)]
      BY <3>1, <1>c
    <3> QED BY <3>1, <3>2, <3>3, <1>c, <2>0
  <2> QED BY <2>1, <2>2
<1>7. s \o t = u
  <2> DEFINE w == s \o t
  <2>1. w \in Seq(Int) /\ Len(w) = Len(u) /\ \A i \in 1 .. Len(w) : w[i] = u[i]
    BY <1>4, <1>5, <1>6
  <2> HIDE DEF w
  <2>2. w = u
    BY <1>3, <2>1, SeqEqual
  <2> QED BY <2>2 DEF w
<1> QED BY <1>7 DEF s, t, u

LEMMA JoinedEmpty == Joined(<<>>) = <<>>
<1>1. Fold(Concat, <<>>, <<>>) = <<>>
  BY FoldEmpty
<1> QED BY <1>1, Zenon DEF Fold, Joined

LEMMA JoinedAppend ==
  ASSUME NEW s \in Seq(Seq(Int)), NEW e \in Seq(Int)
  PROVE  /\ Joined(s) \in Seq(Int)
         /\ Joined(Append(s, e)) = Joined(s) \o e
<1>1. \A v, t \in Seq(Int) : Concat[<<v, t>>] = v \o t
  <2> SUFFICES ASSUME NEW v \in Seq(Int), NEW t \in Seq(Int)
               PROVE  Concat[<<v, t>>] = v \o t
    OBVIOUS
  <2>1. <<v, t>> \in Seq(Int) \X Seq(Int)
    OBVIOUS
  <2>2. Concat[<<v, t>>] = <<v, t>>[1] \o <<v, t>>[2]
    BY <2>1, Zenon DEF Concat
  <2> QED BY <2>2
<1>2. Fold(Concat, <<>>, s) \in Seq(Int)
  <2>1. ASSUME NEW v \in Seq(Int), NEW t \in Seq(Int)
        PROVE  Concat[<<v, t>>] \in Seq(Int)
    <3>1. v \o t \in Seq(Int)
      OBVIOUS
    <3> QED BY <1>1, <3>1
  <2>2. <<>> \in Seq(Int)
    OBVIOUS
  <2> DEFINE V == Seq(Int)
  <2>3. \A v \in V, t \in V : Concat[<<v, t>>] \in V
    BY <2>1
  <2>4. s \in Seq(V) /\ <<>> \in V
    BY <2>2
  <2> HIDE DEF V
  <2>5. Fold(Concat, <<>>, s) \in V
    BY <2>3, <2>4, FoldType
  <2> QED BY <2>5 DEF V
<1>3. Fold(Concat, <<>>, Append(s, e)) = Concat[<<Fold(Concat, <<>>, s), e>>]
  BY FoldAppend
<1>4. Joined(s) = Fold(Concat, <<>>, s)
      /\ Joined(Append(s, e)) = Fold(Concat, <<>>, Append(s, e))
  BY Zenon DEF Fold, Joined
<1> QED BY <1>1, <1>2, <1>3, <1>4

JoinedTo(f, n) == Joined([k \in 1 .. n |-> f[k]])

Pieces(f, n, d, cut) ==
  /\ \A k \in 1 .. n + 1 : cut[k] \in 0 .. Len(d)
  /\ \A k \in 1 .. n : /\ cut[k] <= cut[k + 1]
                       /\ f[k] = SubSeq(d, cut[k] + 1, cut[k + 1])

LEMMA JoinedPieces ==
  ASSUME NEW d \in Seq(Int), NEW n \in Nat, NEW f, NEW cut, Pieces(f, n, d, cut)
  PROVE  JoinedTo(f, n) = SubSeq(d, cut[1] + 1, cut[n + 1])
<1> DEFINE S == {j \in Nat : j <= n =>
                   /\ cut[1] <= cut[j + 1]
                   /\ Joined([k \in 1 .. j |-> f[k]]) = SubSeq(d, cut[1] + 1, cut[j + 1])}
<1>0. /\ \A k \in 1 .. n + 1 : cut[k] \in 0 .. Len(d)
      /\ \A k \in 1 .. n : /\ cut[k] <= cut[k + 1]
                           /\ f[k] = SubSeq(d, cut[k] + 1, cut[k + 1])
  BY DEF Pieces
<1>1. 0 \in S
  <2>1. [k \in 1 .. 0 |-> f[k]] = <<>>
    OBVIOUS
  <2>2. cut[1] \in 0 .. Len(d) /\ 0 + 1 = 1 /\ Len(d) \in Nat
    BY <1>0
  <2>3. SubSeq(d, cut[1] + 1, cut[1]) = <<>>
    BY <2>2
  <2>4. Joined([k \in 1 .. 0 |-> f[k]]) = SubSeq(d, cut[1] + 1, cut[1])
    BY <2>1, <2>3, JoinedEmpty
  <2>5. /\ cut[1] <= cut[0 + 1]
        /\ Joined([k \in 1 .. 0 |-> f[k]]) = SubSeq(d, cut[1] + 1, cut[0 + 1])
    BY <2>2, <2>4
  <2> QED BY <2>5
<1>2. ASSUME NEW j \in Nat, j \in S PROVE j + 1 \in S
  <2> SUFFICES ASSUME j + 1 <= n
               PROVE  /\ cut[1] <= cut[(j + 1) + 1]
                      /\ Joined([k \in 1 .. j + 1 |-> f[k]])
                           = SubSeq(d, cut[1] + 1, cut[(j + 1) + 1])
    OBVIOUS
  <2> DEFINE a == cut[1]
             b == cut[j + 1]
             c == cut[(j + 1) + 1]
             s == [k \in 1 .. j |-> f[k]]
             e == f[j + 1]
  <2>1. /\ a \in 0 .. Len(d) /\ b \in 0 .. Len(d) /\ c \in 0 .. Len(d)
        /\ b <= c /\ e = SubSeq(d, b + 1, c) /\ a <= b /\ Len(d) \in Nat
    <3>1. 1 \in 1 .. n + 1 /\ j + 1 \in 1 .. n + 1 /\ (j + 1) + 1 \in 1 .. n + 1
          /\ j + 1 \in 1 .. n
      OBVIOUS
    <3> QED BY <3>1, <1>0, <1>2
  <2>2. Joined(s) = SubSeq(d, a + 1, b)
    BY <1>2
  <2>3. s \in Seq(Seq(Int)) /\ e \in Seq(Int)
    <3>1. \A k \in 1 .. n : SubSeq(d, cut[k] + 1, cut[k + 1]) \in Seq(Int)
      <4> SUFFICES ASSUME NEW k \in 1 .. n
                   PROVE  SubSeq(d, cut[k] + 1, cut[k + 1]) \in Seq(Int)
        OBVIOUS
      <4>1. cut[k] \in 0 .. Len(d) /\ cut[k + 1] \in 0 .. Len(d) /\ cut[k] <= cut[k + 1]
        BY <1>0
      <4> QED BY <4>1, PieceFacts
    <3>2. \A k \in 1 .. n : f[k] \in Seq(Int)
      BY <1>0, <3>1
    <3> QED BY <3>2
  <2>4. [k \in 1 .. j + 1 |-> f[k]] = Append(s, e)
    OBVIOUS
  <2> HIDE DEF a, b, c, s, e
  <2>5. Joined(Append(s, e)) = SubSeq(d, a + 1, b) \o SubSeq(d, b + 1, c)
    BY <2>1, <2>2, <2>3, JoinedAppend
  <2>6. SubSeq(d, a + 1, b) \o SubSeq(d, b + 1, c) = SubSeq(d, a + 1, c)
    BY <2>1, PiecesMeet
  <2>7. a <= c
    BY <2>1
  <2> QED BY <2>4, <2>5, <2>6, <2>7 DEF a, c
<1> HIDE DEF S
<1>3. n \in S
  BY <1>1, <1>2, SetInduction
<1>4. Joined([k \in 1 .. n |-> f[k]]) = SubSeq(d, cut[1] + 1, cut[n + 1])
  BY <1>3 DEF S
<1> QED BY <1>4 DEF JoinedTo

-----------------------------------------------------------------------------
(* An operand gives back the bytes it was decoded from.                    *)
LEMMA ShortPieces ==
  ASSUME data \in Seq(Byte), NEW a \in Nat
  PROVE  /\ a + 1 <= Len(data) => SubSeq(data, a + 1, a + 1) = <<data[a + 1]>>
         /\ a + 2 <= Len(data) =>
              SubSeq(data, a + 1, a + 2) = <<data[a + 1], data[a + 2]>>
<1>1. ASSUME NEW n \in {1, 2}, a + n <= Len(data)
      PROVE  /\ SubSeq(data, a + 1, a + n) \in Seq(Int)
             /\ Len(SubSeq(data, a + 1, a + n)) = n
             /\ \A i \in 1 .. n : SubSeq(data, a + 1, a + n)[i] = data[a + i]
  <2> DEFINE b == a + n
  <2>1. data \in Seq(Int)
    BY ListingAssumption DEF Byte
  <2>2. a \in 0 .. Len(data) /\ b \in 0 .. Len(data) /\ a <= b /\ b - a = n
    BY <1>1, <2>1
  <2> HIDE DEF b
  <2>3. /\ SubSeq(data, a + 1, b) \in Seq(Int) /\ Len(SubSeq(data, a + 1, b)) = b - a
        /\ \A i \in 1 .. b - a : SubSeq(data, a + 1, b)[i] = data[a + i]
    BY <2>1, <2>2, PieceFacts
  <2> QED BY <2>2, <2>3 DEF b
<1>2. ASSUME a + 1 <= Len(data)
      PROVE  SubSeq(data, a + 1, a + 1) = <<data[a + 1]>>
  <2> DEFINE s == SubSeq(data, a + 1, a + 1)
  <2>1. s \in Seq(Int) /\ Len(s) = 1 /\ s[1] = data[a + 1]
    BY <1>1, <1>2
  <2> HIDE DEF s
  <2>2. s = <<data[a + 1]>>
    BY <2>1
  <2> QED BY <2>2 DEF s
<1>3. ASSUME a + 2 <= Len(data)
      PROVE  SubSeq(data, a + 1, a + 2) = <<data[a + 1], data[a + 2]>>
  <2> DEFINE s == SubSeq(data, a + 1, a + 2)
  <2>1. s \in Seq(Int) /\ Len(s) = 2 /\ s[1] = data[a + 1] /\ s[2] = data[a + 2]
    BY <1>1, <1>3
  <2> HIDE DEF s
  <2>2. s = <<data[a + 1], data[a + 2]>>
    BY <2>1
  <2> QED BY <2>2 DEF s
<1> QED BY <1>2, <1>3

LEMMA OperandFacts ==
  ASSUME data \in Seq(Byte), NEW p \in Nat, p < Len(data), Known(p), ~CutOff(p),
         NEW i \in 1 .. Len(Args(p))
  PROVE  /\ Operand(p, i) \in [label : BOOLEAN, value : Int]
         /\ Operand(p, i).label => Operand(p, i).value \in labeled
         /\ Operand(p, i).value >= 0 =>
              OperandBytes(Args(p)[i], Operand(p, i).value, Following(p))
                = SubSeq(data, Cut(p, i) + 1, Cut(p, i + 1))
         /\ Args(p)[i] = "ADDR" =>
              (Operand(p, i).value % PageSize) \div Base = Part(Opcode(p))
<1> DEFINE a == Cut(p, i)
           t == Args(p)[i]
           f == Following(p)
           b == data[a + 1]
<1>1. /\ Opcode(p) \in DOMAIN Table /\ Args(p) \in Seq(ArgType)
      /\ a \in Nat /\ At(p, i) = a /\ Cut(p, i + 1) = a + Width(t)
      /\ Length(p) \in Nat
  <2>1. i \in 1 .. Len(Args(p)) + 1
    OBVIOUS
  <2> QED BY <2>1, InstructionFacts
<1>2. t \in ArgType
  BY <1>1
<1>3. Opcode(p) \in Byte /\ f \in Nat /\ f = Org + p + Length(p) /\ Org \in Nat
  BY <1>1, LengthFacts, ListingAssumption DEF Following
<1>4. a + Width(t) <= Len(data)
  <2>1. i \in DOMAIN Args(p)
    BY <1>1
  <2>2. ~Short(p, i)
    BY <2>1 DEF CutOff
  <2> QED BY <1>1, <1>2, <2>2 DEF Short, Width
<1>5. Base \in Nat \ {0} /\ Byte = 0 .. Base - 1 /\ Byte \subseteq Int
  BY ListingAssumption DEF Byte
<1>6. b \in Byte
  BY <1>1, <1>2, <1>4 DEF Width
<1> HIDE DEF a
<1> HIDE DEF f
<1>7. CASE t \in {"IMM", "DATA", "BIT"}
  <2>1. Operand(p, i) = [label |-> FALSE, value |-> b]
    BY <1>1, <1>7 DEF Operand, Number
  <2>2. Operand(p, i).value = b /\ Operand(p, i).label = FALSE
        /\ Operand(p, i) \in [label : BOOLEAN, value : Int]
    BY <2>1, <1>5, <1>6
  <2>3. OperandBytes(t, b, f) = <<b>> /\ Width(t) = 1
    BY <1>7 DEF OperandBytes, Width
  <2> HIDE DEF b
  <2>4. SubSeq(data, a + 1, a + Width(t)) = <<b>>
    BY <1>1, <1>4, <2>3, ShortPieces DEF b
  <2> QED BY <1>1, <1>7, <2>2, <2>3, <2>4 DEF f, a
<1>8. CASE t = "REL"
  <2> DEFINE v == f + Signed(b)
  <2>1. Target(p, i) = v
    BY <1>1, <1>8 DEF Target, f
  <2>2. v \in Int /\ v >= 0 => RelByte(v, f) = <<b>>
    BY <1>3, <1>6, SignedFacts
  <2>3. v \in Int
    BY <1>3, <1>6, SignedFacts
  <2> HIDE DEF v, b
  <2>4. Operand(p, i) = [label |-> v \in labeled, value |-> v]
    BY <1>8, <2>1 DEF Operand, target_str
  <2>5. Operand(p, i).value = v /\ Operand(p, i).label = (v \in labeled)
        /\ Operand(p, i) \in [label : BOOLEAN, value : Int]
    BY <2>4, <2>3
  <2>6. OperandBytes(t, v, f) = RelByte(v, f) /\ Width(t) = 1
    BY <1>8 DEF OperandBytes, Width
  <2>7. SubSeq(data, a + 1, a + Width(t)) = <<b>>
    BY <1>1, <1>4, <2>6, ShortPieces DEF b
  <2> QED BY <1>1, <1>8, <2>2, <2>3, <2>5, <2>6, <2>7 DEF f, a
<1>9. CASE t = "LABEL"
  <2> DEFINE c == data[a + 2]
             v == b * Base + c
  <2>1. Width(t) = 2 /\ c \in Byte
    BY <1>1, <1>4, <1>9 DEF Width
  <2>2. Target(p, i) = v
    BY <1>1, <1>9 DEF Target
  <2> HIDE DEF b, c
  <2>3. v \in Int /\ v \div Base = b /\ v % Base = c
    <3>1. b \in Int /\ c \in 0 .. Base - 1
      BY <1>5, <1>6, <2>1
    <3>2. b * Base \in Int /\ c \in Int
      BY <1>5, <3>1
    <3>3. (b * Base + c) % Base = c /\ (b * Base + c) \div Base = b
      BY <1>5, <3>1, DivMod
    <3> QED BY <3>2, <3>3
  <2> HIDE DEF v
  <2>4. Operand(p, i) = [label |-> FALSE, value |-> v]
    BY <1>9, <2>2 DEF Operand, Number
  <2>5. Operand(p, i).value = v /\ Operand(p, i).label = FALSE
        /\ Operand(p, i) \in [label : BOOLEAN, value : Int]
    BY <2>4, <2>3
  <2>6. OperandBytes(t, v, f) = <<b, c>>
    BY <1>9, <2>3 DEF OperandBytes
  <2>7. SubSeq(data, a + 1, a + Width(t)) = <<b, c>>
    BY <1>1, <1>4, <2>1, ShortPieces DEF b, c
  <2> QED BY <1>1, <1>9, <2>5, <2>6, <2>7 DEF f, a
<1>10. CASE t = "ADDR"
  <2> DEFINE k == Part(Opcode(p))
             v == Page(f) + k * Base + b
  <2>1. Target(p, i) = v
    BY <1>1, <1>10 DEF Target, f
  <2>2. k \in 0 .. Parts - 1
    BY <1>3, PartFacts
  <2> HIDE DEF b, k
  <2>3. /\ v \in Int /\ Page(v) = Page(f) /\ v % Base = b
        /\ (v % PageSize) \div Base = k
    BY <1>3, <1>6, <2>2, PageFacts
  <2> HIDE DEF v
  <2>4. Operand(p, i) = [label |-> FALSE, value |-> v]
    BY <1>10, <2>1 DEF Operand, Number
  <2>5. Operand(p, i).value = v /\ Operand(p, i).label = FALSE
        /\ Operand(p, i) \in [label : BOOLEAN, value : Int]
    BY <2>4, <2>3
  <2>6. OperandBytes(t, v, f) = <<b>> /\ Width(t) = 1
    BY <1>10, <2>3 DEF OperandBytes, Width
  <2>7. SubSeq(data, a + 1, a + Width(t)) = <<b>>
    BY <1>1, <1>4, <2>6, ShortPieces DEF b
  <2> QED BY <1>1, <1>10, <2>3, <2>5, <2>6, <2>7 DEF f, k, a
<1> QED BY <1>2, <1>7, <1>8, <1>9, <1>10 DEF ArgType

-----------------------------------------------------------------------------
(* The line of an instruction gives back the instruction.                  *)
LEMMA CodeLineFacts ==
  ASSUME data \in Seq(Byte), NEW p \in Nat, p < Len(data)
  PROVE  /\ CodeLine(p).kind \in {"ins", "db"}
         /\ LineSize(CodeLine(p)) = Length(p)
         /\ ~Known(p) => CodeLine(p).kind = "db" /\ CodeLine(p).byte = Opcode(p)
         /\ Known(p) => /\ CodeLine(p).kind = "ins"
                        /\ CodeLine(p).mn = Table[Opcode(p)].mn
                        /\ CodeLine(p).ops = [i \in DOMAIN Args(p) |-> Operand(p, i)]
                        /\ ArgsOf(CodeLine(p).mn) = Args(p)
<1>1. CASE ~Known(p)
  <2>1. CodeLine(p).kind = "db" /\ CodeLine(p).byte = Opcode(p)
    BY <1>1 DEF CodeLine
  <2> QED BY <1>1, <2>1 DEF LineSize, Length
<1>2. CASE Known(p)
  <2>1. CodeLine(p) = [kind |-> "ins", mn |-> Table[Opcode(p)].mn,
                       ops |-> [i \in DOMAIN Args(p) |-> Operand(p, i)]]
    BY <1>2 DEF CodeLine
  <2>2. /\ CodeLine(p).kind = "ins"
        /\ CodeLine(p).mn = Table[Opcode(p)].mn
        /\ CodeLine(p).ops = [i \in DOMAIN Args(p) |-> Operand(p, i)]
    BY <2>1
  <2>3. ArgsOf(CodeLine(p).mn) = Args(p)
    <3> DEFINE m == Table[Opcode(p)].mn
               q == CHOOSE o \in DOMAIN Table : Table[o].mn = m
    <3>1. Opcode(p) \in DOMAIN Table
      BY <1>2 DEF Known
    <3>2. q \in DOMAIN Table /\ Table[q].mn = m
      BY <3>1
    <3>3. Table[q].args = Table[Opcode(p)].args
      <4> HIDE DEF q
      <4> QED BY <3>1, <3>2, MnemonicAssumption
    <3>4. ArgsOf(m) = Table[q].args
      BY DEF ArgsOf
    <3> QED BY <2>2, <3>3, <3>4 DEF Args
  <2>4. LineSize(CodeLine(p)) = Length(p)
    BY <1>2, <2>2, <2>3 DEF LineSize, Length
  <2> QED BY <1>2, <2>2, <2>3, <2>4
<1> QED BY <1>1, <1>2

LEMMA OpcodeFits ==
  ASSUME data \in Seq(Byte), NEW p \in Nat, p < Len(data), Known(p), ~CutOff(p),
         \A i \in 1 .. Len(Args(p)) : Resolved(Operand(p, i)) = Operand(p, i).value
  PROVE  /\ Fits(Opcode(p), CodeLine(p))
         /\ \A o \in DOMAIN Table : Fits(o, CodeLine(p)) => o = Opcode(p)
<1> DEFINE c == Opcode(p)
           args == Args(p)
<1>1. /\ c \in DOMAIN Table /\ args \in Seq(ArgType) /\ args = Table[c].args
      /\ DOMAIN args = 1 .. Len(args)
  BY InstructionFacts DEF Args
<1>2. /\ CodeLine(p).mn = Table[c].mn
      /\ CodeLine(p).ops = [i \in DOMAIN args |-> Operand(p, i)]
  BY CodeLineFacts
<1>3. ASSUME NEW i \in DOMAIN args, args[i] = "ADDR"
      PROVE  (Resolved(CodeLine(p).ops[i]) % PageSize) \div Base = Part(c)
  <2>1. i \in 1 .. Len(args)
    BY <1>1
  <2>2. (Operand(p, i).value % PageSize) \div Base = Part(c)
    BY <2>1, <1>3, OperandFacts
  <2>3. CodeLine(p).ops[i] = Operand(p, i)
    BY <1>2
  <2>4. Resolved(Operand(p, i)) = Operand(p, i).value
    BY <2>1
  <2> QED BY <2>2, <2>3, <2>4
<1> HIDE DEF c, args
<1>4. Fits(c, CodeLine(p))
  BY <1>1, <1>2, <1>3, Zenon DEF Fits
<1>5. ASSUME NEW o \in DOMAIN Table, Fits(o, CodeLine(p)), o # c PROVE FALSE
  <2>1. Table[o].mn = Table[c].mn
    BY <1>2, <1>5 DEF Fits
  <2>2. Table[o].args = args /\ "ADDR" \in Range(args) /\ Part(o) # Part(c)
    BY <1>1, <1>5, <2>1, MnemonicAssumption
  <2>3. PICK i \in DOMAIN args : args[i] = "ADDR"
    BY <2>2 DEF Range
  <2>4. Part(o) = (Resolved(CodeLine(p).ops[i]) % PageSize) \div Base
    BY <1>5, <2>2, <2>3, Zenon DEF Fits
  <2> QED BY <1>3, <2>2, <2>3, <2>4
<1> QED BY <1>4, <1>5 DEF c
LEMMA InstructionBytes ==
  ASSUME data \in Seq(Byte), NEW p \in Nat, p < Len(data), ~CutOff(p),
         NEW n, out[n] = CodeLine(p), AddressOf(n) = Org + p,
         Known(p) => \A i \in 1 .. Len(Args(p)) :
           Resolved(Operand(p, i)) = Operand(p, i).value /\ Operand(p, i).value >= 0
  PROVE  LineBytes(n) = SubSeq(data, p + 1, p + Length(p))
<1> DEFINE l == CodeLine(p)
<1>0. data \in Seq(Int)
  BY ListingAssumption DEF Byte
<1>1. CASE ~Known(p)
  <2>1. l.kind = "db" /\ l.byte = Opcode(p) /\ Length(p) = 1
    BY <1>1, CodeLineFacts DEF Length
  <2>2. LineBytes(n) = <<Opcode(p)>>
    BY <2>1 DEF LineBytes
  <2>3. SubSeq(data, p + 1, p + 1) = <<data[p + 1]>>
    BY ShortPieces
  <2> QED BY <2>1, <2>2, <2>3 DEF Opcode
<1>2. CASE Known(p)
  <2> DEFINE args == Args(p)
             c == Opcode(p)
             m == Len(args)
             end == p + Length(p)
             b == [i \in 1 .. m |-> OperandBytes(args[i], Operand(p, i).value, Following(p))]
             pos == [i \in 1 .. m + 1 |-> Cut(p, i)]
  <2>1. /\ l.kind = "ins" /\ ArgsOf(l.mn) = args
        /\ l.ops = [i \in DOMAIN args |-> Operand(p, i)]
        /\ LineSize(l) = Length(p)
    BY <1>2, CodeLineFacts
  <2>2. /\ c \in DOMAIN Table /\ args \in Seq(ArgType) /\ m \in Nat /\ DOMAIN args = 1 .. m
        /\ \A i \in 1 .. m + 1 : Cut(p, i) \in Nat /\ Cut(p, i) > p /\ Cut(p, i) <= end
        /\ \A i \in 1 .. m : Cut(p, i + 1) = Cut(p, i) + Width(args[i])
        /\ Cut(p, 1) = p + 1 /\ Cut(p, m + 1) = end
        /\ Length(p) \in Nat
    <3>1. args \in Seq(ArgType)
      BY <1>2, InstructionFacts
    <3>2. m \in Nat /\ DOMAIN args = 1 .. m
      BY <3>1
    <3> QED BY <1>2, <3>2, InstructionFacts
  <2>3. end <= Len(data) /\ end \in Nat /\ Len(data) \in Nat
    BY <2>2, LengthFacts
  <2>4. \A i \in 1 .. m : Resolved(Operand(p, i)) = Operand(p, i).value
                          /\ Operand(p, i).value >= 0
    BY <1>2
  <2>5. Fits(c, l) /\ \A o \in DOMAIN Table : Fits(o, l) => o = c
    BY <1>2, <2>4, OpcodeFits
  <2>6. \A i \in 1 .. m : b[i] = SubSeq(data, Cut(p, i) + 1, Cut(p, i + 1))
    BY <1>2, <2>4, OperandFacts
  <2>7. AddressOf(n) + LineSize(l) = Following(p)
    BY <2>1, <2>2 DEF Following
  <2>8. [i \in DOMAIN args |-> OperandBytes(args[i], Resolved(l.ops[i]), Following(p))]
          = [i \in 1 .. m |-> b[i]]
    <3>1. \A i \in 1 .. m : Resolved(l.ops[i]) = Operand(p, i).value
      <4>1. \A i \in 1 .. m : l.ops[i] = Operand(p, i)
        BY <2>1, <2>2
      <4> QED BY <2>4, <4>1
    <3>2. \A i \in 1 .. m :
            OperandBytes(args[i], Resolved(l.ops[i]), Following(p)) = b[i]
      BY <3>1
    <3> HIDE DEF b, args, m, l
    <3> QED BY <2>2, <3>2
  <2> HIDE DEF c, args, m, end, b, l
  <2>9. (CHOOSE o \in DOMAIN Table : Fits(o, l)) = c
        /\ \E o \in DOMAIN Table : Fits(o, l)
    BY <2>2, <2>5
  <2>10. LineBytes(n) = <<c>> \o Joined([i \in 1 .. m |-> b[i]])
    <3>1. out[n] = l
      BY DEF l
    <3> DEFINE following == AddressOf(n) + LineSize(out[n])
    <3>2. LineBytes(n) = <<c>> \o Joined([i \in DOMAIN ArgsOf(l.mn) |->
                 OperandBytes(ArgsOf(l.mn)[i], Resolved(l.ops[i]), following)])
      BY <2>1, <2>9, <3>1 DEF LineBytes
    <3>3. following = Following(p)
      BY <2>7, <3>1
    <3> HIDE DEF following
    <3> QED BY <2>1, <2>8, <3>2, <3>3
  <2>11. Joined([i \in 1 .. m |-> b[i]]) = SubSeq(data, p + 2, end)
    <3>1. \A k \in 1 .. m + 1 : pos[k] = Cut(p, k)
      OBVIOUS
    <3> HIDE DEF pos
    <3>2. \A k \in 1 .. m + 1 : pos[k] \in 0 .. Len(data)
      BY <2>2, <2>3, <3>1
    <3>3. ASSUME NEW k \in 1 .. m
          PROVE  pos[k] <= pos[k + 1] /\ b[k] = SubSeq(data, pos[k] + 1, pos[k + 1])
      <4>1. k \in 1 .. m + 1 /\ k + 1 \in 1 .. m + 1
        BY <2>2
      <4>2. pos[k] = Cut(p, k) /\ pos[k + 1] = Cut(p, k + 1)
        BY <3>1, <4>1
      <4>3. Width(args[k]) \in Nat
        BY DEF Width
      <4>4. Cut(p, k) \in Nat /\ Cut(p, k + 1) = Cut(p, k) + Width(args[k])
        BY <2>2, <4>1
      <4> QED BY <2>6, <4>2, <4>3, <4>4
    <3>4. JoinedTo(b, m) = SubSeq(data, pos[1] + 1, pos[m + 1])
      <4>1. /\ m \in Nat /\ \A k \in 1 .. m + 1 : pos[k] \in 0 .. Len(data)
            /\ \A k \in 1 .. m : /\ pos[k] <= pos[k + 1]
                                 /\ b[k] = SubSeq(data, pos[k] + 1, pos[k + 1])
        BY <2>2, <3>2, <3>3
      <4>2. Pieces(b, m, data, pos)
        BY <4>1 DEF Pieces
      <4> QED BY <1>0, <4>1, <4>2, JoinedPieces
    <3>5. pos[1] = p + 1 /\ pos[m + 1] = end /\ (p + 1) + 1 = p + 2
      <4>1. 1 \in 1 .. m + 1 /\ m + 1 \in 1 .. m + 1
        BY <2>2
      <4> QED BY <2>2, <3>1, <4>1
    <3> QED BY <3>4, <3>5 DEF JoinedTo
  <2>12. <<c>> \o SubSeq(data, p + 2, end) = SubSeq(data, p + 1, end)
    <3>1. SubSeq(data, p + 1, p + 1) = <<c>>
      BY ShortPieces DEF c, Opcode
    <3> DEFINE q == p + 1
    <3>2. /\ p \in 0 .. Len(data) /\ q \in 0 .. Len(data) /\ end \in 0 .. Len(data)
          /\ p <= q /\ q <= end /\ q + 1 = p + 2
      <4>1. 1 \in 1 .. m + 1
        BY <2>2
      <4>2. p + 1 <= end
        BY <2>2, <4>1
      <4> QED BY <2>3, <4>2
    <3> HIDE DEF q
    <3>3. SubSeq(data, p + 1, q) \o SubSeq(data, q + 1, end) = SubSeq(data, p + 1, end)
      BY <1>0, <3>2, PiecesMeet
    <3> QED BY <3>1, <3>2, <3>3 DEF q
  <2> QED BY <2>10, <2>11, <2>12 DEF end
<1> QED BY <1>1, <1>2
-----------------------------------------------------------------------------
(* The addresses of the lines of a listing o.                              *)
Line == {Org_line} \cup [kind : {"label"}, at : Nat] \cup [kind : {"db"}, byte : Byte]
        \cup [kind : {"ins"}, mn : {Table[o].mn : o \in DOMAIN Table},
              ops : Seq([label : BOOLEAN, value : Int])]
Sizes(o) == [k \in DOMAIN o |-> LineSize(o[k])]
Addr(o, n) == Org + Prefix(Sizes(o), n - 1)

LEMMA LineFacts ==
  ASSUME NEW l \in Line
  PROVE  /\ LineSize(l) \in Nat
         /\ l.kind \in {"org", "label", "db", "ins"}
         /\ l.kind \in {"org", "label"} => LineSize(l) = 0
<1>1. CASE l = Org_line
  BY <1>1 DEF Org_line, LineSize
<1>2. CASE l \in [kind : {"label"}, at : Nat]
  BY <1>2 DEF LineSize
<1>3. CASE l \in [kind : {"db"}, byte : Byte]
  BY <1>3 DEF LineSize
<1>4. CASE l \in [kind : {"ins"}, mn : {Table[o].mn : o \in DOMAIN Table},
                  ops : Seq([label : BOOLEAN, value : Int])]
  <2>1. l.kind = "ins" /\ l.mn \in {Table[o].mn : o \in DOMAIN Table}
    BY <1>4
  <2> DEFINE q == CHOOSE o \in DOMAIN Table : Table[o].mn = l.mn
             args == Table[q].args
  <2>2. q \in DOMAIN Table
    BY <2>1
  <2>3. args \in Seq(ArgType)
    BY <2>2, ListingAssumption
  <2>4. ArgsOf(l.mn) = args
    BY DEF ArgsOf
  <2> HIDE DEF args
  <2>5. Size(args) \in Nat
    <3>1. /\ Len(args) \in Nat
          /\ \A i \in 1 .. Len(args) : Widths(args)[i] \in Nat
          /\ Size(args) = Prefix(Widths(args), Len(args))
      BY <2>3, WidthsFacts
    <3>2. Len(args) \in 0 .. Len(args)
      BY <3>1
    <3> QED BY <3>1, <3>2, PrefixGrows
  <2>6. LineSize(l) = 1 + Size(args)
    BY <2>1, <2>4 DEF LineSize
  <2> QED BY <2>1, <2>5, <2>6
<1> QED BY <1>1, <1>2, <1>3, <1>4 DEF Line

LEMMA AddrFacts ==
  ASSUME NEW o \in Seq(Line)
  PROVE  /\ Len(o) \in Nat /\ DOMAIN o = 1 .. Len(o)
         /\ Addr(o, 1) = Org
         /\ \A n \in 1 .. Len(o) + 1 : /\ Addr(o, n) \in Nat
                                       /\ Org <= Addr(o, n)
                                       /\ Addr(o, n) <= Addr(o, Len(o) + 1)
         /\ \A n \in 1 .. Len(o) : Addr(o, n + 1) = Addr(o, n) + LineSize(o[n])
<1> DEFINE w == Sizes(o)
           m == Len(o)
<1>1. m \in Nat /\ DOMAIN o = 1 .. m /\ Org \in Nat
  BY ListingAssumption
<1>2. \A k \in 1 .. m : w[k] = LineSize(o[k]) /\ w[k] \in Nat
  BY <1>1, LineFacts DEF Sizes
<1> HIDE DEF w, m
<1>3. /\ \A n \in 0 .. m : Prefix(w, n) \in Nat
      /\ \A n \in 0 .. m : Prefix(w, n) <= Prefix(w, m)
  BY <1>1, <1>2, PrefixGrows
<1>4. \A n : Addr(o, n) = Org + Prefix(w, n - 1)
  BY DEF Addr, w
<1>5. Addr(o, 1) = Org
  <2>1. Prefix(w, 0) = 0 /\ 1 - 1 = 0
    BY PrefixZero
  <2> QED BY <1>1, <1>4, <2>1
<1>6. ASSUME NEW n \in 1 .. m + 1
      PROVE  Addr(o, n) \in Nat /\ Org <= Addr(o, n) /\ Addr(o, n) <= Addr(o, m + 1)
  <2>1. n - 1 \in 0 .. m /\ (m + 1) - 1 = m /\ m \in 0 .. m
    BY <1>1
  <2>2. Prefix(w, n - 1) \in Nat /\ Prefix(w, n - 1) <= Prefix(w, m) /\ Prefix(w, m) \in Nat
    BY <1>3, <2>1
  <2>3. Addr(o, n) = Org + Prefix(w, n - 1) /\ Addr(o, m + 1) = Org + Prefix(w, m)
    BY <1>4, <2>1
  <2> QED BY <1>1, <2>2, <2>3
<1>7. ASSUME NEW n \in 1 .. m PROVE Addr(o, n + 1) = Addr(o, n) + LineSize(o[n])
  <2> DEFINE j == n - 1
  <2>1. j \in Nat /\ j + 1 = n /\ (n + 1) - 1 = n
    BY <1>1
  <2> HIDE DEF j
  <2>2. Prefix(w, j) \in Nat /\ Prefix(w, j + 1) = Prefix(w, j) + w[j + 1]
    <3>1. \A k \in 1 .. j + 1 : w[k] \in Nat
      BY <1>1, <1>2, <2>1
    <3> QED BY <2>1, <3>1, PrefixStep
  <2>3. Addr(o, n) = Org + Prefix(w, j) /\ Addr(o, n + 1) = Org + Prefix(w, n)
    BY <1>4, <2>1 DEF j
  <2>4. w[n] = LineSize(o[n]) /\ w[n] \in Nat
    BY <1>2
  <2> QED BY <1>1, <2>1, <2>2, <2>3, <2>4
<1> QED BY <1>1, <1>5, <1>6, <1>7 DEF m

LEMMA AddrAppend ==
  ASSUME NEW o \in Seq(Line), NEW l \in Line
  PROVE  /\ \A n \in 1 .. Len(o) + 1 : Addr(Append(o, l), n) = Addr(o, n)
         /\ Addr(Append(o, l), Len(o) + 2) = Addr(o, Len(o) + 1) + LineSize(l)
<1> DEFINE q == Append(o, l)
           m == Len(o)
<1>1. /\ m \in Nat /\ DOMAIN o = 1 .. m /\ DOMAIN q = 1 .. m + 1 /\ q \in Seq(Line)
      /\ Len(q) = m + 1 /\ q[m + 1] = l /\ \A k \in 1 .. m : q[k] = o[k]
  OBVIOUS
<1> HIDE DEF q, m
<1>2. ASSUME NEW n \in 1 .. m + 1 PROVE Addr(q, n) = Addr(o, n)
  <2>1. \A k \in 1 .. n - 1 : k \in DOMAIN o /\ k \in DOMAIN q /\ q[k] = o[k]
    BY <1>1
  <2>2. \A k \in 1 .. n - 1 : Sizes(q)[k] = Sizes(o)[k]
    BY <2>1 DEF Sizes
  <2>3. [k \in 1 .. n - 1 |-> Sizes(q)[k]] = [k \in 1 .. n - 1 |-> Sizes(o)[k]]
    BY <2>2
  <2> QED BY <2>3 DEF Addr, Prefix
<1>3. Addr(q, m + 2) = Addr(o, m + 1) + LineSize(l)
  <2>1. m + 1 \in 1 .. Len(q) /\ m + 1 \in 1 .. m + 1 /\ (m + 1) + 1 = m + 2
    BY <1>1
  <2>2. Addr(q, (m + 1) + 1) = Addr(q, m + 1) + LineSize(q[m + 1])
    BY <1>1, <2>1, AddrFacts
  <2> QED BY <1>1, <1>2, <2>1, <2>2
<1> QED BY <1>2, <1>3 DEF q, m

LEMMA AddressIs ==
  ASSUME out \in Seq(Line), NEW n \in 1 .. Len(out) + 1
  PROVE  AddressOf(n) = Addr(out, n)
<1>1. \A k \in 1 .. n - 1 : k \in DOMAIN out
  OBVIOUS
<1>2. \A k \in 1 .. n - 1 : Sizes(out)[k] = LineSize(out[k])
  BY <1>1 DEF Sizes
<1>3. [k \in 1 .. n - 1 |-> Sizes(out)[k]] = [k \in 1 .. n - 1 |-> LineSize(out[k])]
  BY <1>2
<1> QED BY <1>3 DEF AddressOf, Addr, Prefix
-----------------------------------------------------------------------------
(* The boundaries: the first sweep goes from one to the next.              *)
After(b) == Following(b - Org)

SweepInv ==
  pass # "failed" =>
    /\ \A b \in boundaries : b \in Nat /\ Org <= b /\ b < Org + Len(data)
    /\ \A b, c \in boundaries : c <= b \/ c >= After(b)
    /\ pass = "sweep" =>
         /\ \A b \in boundaries : b < Org + pc /\ After(b) \in boundaries \cup {Org + pc}
         /\ Org \in boundaries \cup {Org + pc}
    /\ pass \in {"emit", "done"} =>
         /\ \A b \in boundaries : After(b) \in boundaries \/ After(b) >= Org + Len(data)
         /\ Org \in boundaries \/ Len(data) = 0

(* The listing: each line stands where its address says, and each label    *)
(* of an address that was passed is there once.                            *)
Placed(o, n) ==
  /\ o[n].kind = "label" => o[n].at = Addr(o, n) /\ o[n].at \in boundaries
  /\ o[n].kind \in {"ins", "db"} => \E p \in Nat :
       /\ p < Len(data) /\ ~CutOff(p)
       /\ o[n] = CodeLine(p) /\ Addr(o, n) = Org + p

Names(o, a) == {n \in DOMAIN o : o[n].kind = "label" /\ o[n].at = a}

Laid(o, end) ==
  /\ o \in Seq(Line) /\ Addr(o, Len(o) + 1) = end
  /\ \A n \in DOMAIN o : Placed(o, n)
  /\ \A m, n \in DOMAIN o :
       o[m].kind = "label" /\ o[n].kind = "label" /\ o[m].at = o[n].at => m = n

EmitInv ==
  pass \in {"emit", "done"} =>
    /\ pc < Len(data) => Org + pc \in boundaries
    /\ Laid(out, Org + pc)
    /\ \A n \in DOMAIN out : out[n].kind = "label" => out[n].at < Org + pc
    /\ \A a \in labeled : a < Org + pc => Names(out, a) # {}

LEMMA SameRegion ==
  ASSUME data' = data, NEW p
  PROVE  /\ Length(p)' = Length(p) /\ After(p)' = After(p)
         /\ CutOff(p)' = CutOff(p)
<1>1. Opcode(p)' = Opcode(p)
  BY DEF Opcode
<1>2. Known(p)' = Known(p) /\ Args(p)' = Args(p)
  BY <1>1 DEF Known, Args
<1>3. Length(p)' = Length(p)
  BY <1>2 DEF Length
<1>4. After(p)' = After(p)
  <2>1. \A x : Opcode(x)' = Opcode(x)
    BY DEF Opcode
  <2>2. \A x : Known(x)' = Known(x) /\ Args(x)' = Args(x)
    BY <2>1 DEF Known, Args
  <2> QED BY <2>2 DEF After, Following, Length
<1>5. \A i : Short(p, i)' = Short(p, i)
  BY <1>2 DEF Short, At
<1>6. CutOff(p)' = CutOff(p)
  BY <1>2, <1>5 DEF CutOff
<1> QED BY <1>3, <1>4, <1>6

LEMMA SameLines ==
  ASSUME UNCHANGED <<data, boundaries, targets>>
  PROVE  /\ \A p : CodeLine(p)' = CodeLine(p)
         /\ \A o, e : Laid(o, e) => Laid(o, e)'
         /\ \A o, a : Names(o, a)' = Names(o, a)
         /\ labeled' = labeled
<1>1. labeled' = labeled
  BY DEF labeled
<1>2. \A p : Opcode(p)' = Opcode(p)
  BY DEF Opcode
<1>3. \A p : Known(p)' = Known(p) /\ Args(p)' = Args(p)
  BY <1>2 DEF Known, Args
<1>4. \A p : Following(p)' = Following(p)
  BY <1>3 DEF Following, Length
<1>5. \A p, i : At(p, i)' = At(p, i)
  BY <1>3 DEF At
<1>6. \A p, i : Target(p, i)' = Target(p, i)
  BY <1>2, <1>3, <1>4, <1>5 DEF Target
<1>7. \A p, i : Operand(p, i)' = Operand(p, i)
  BY <1>1, <1>3, <1>5, <1>6 DEF Operand, target_str
<1>8. \A p : CodeLine(p)' = CodeLine(p)
  BY <1>2, <1>3, <1>7 DEF CodeLine
<1>9. \A p : CutOff(p)' = CutOff(p)
  BY SameRegion
<1>10. \A o, n : Placed(o, n) => Placed(o, n)'
  BY <1>8, <1>9 DEF Placed
<1>11. \A o, e : Laid(o, e) => Laid(o, e)'
  BY <1>10 DEF Laid
<1>12. \A o, a : Names(o, a)' = Names(o, a)
  BY DEF Names
<1> QED BY <1>1, <1>8, <1>11, <1>12

LEMMA SweepInvInit == Init => SweepInv
BY ListingAssumption DEF Init, SweepInv

LEMMA SweepInvNext == EndInv /\ SweepInv /\ [Next]_vars => SweepInv'
<1> SUFFICES ASSUME EndInv, SweepInv, [Next]_vars PROVE SweepInv'
  OBVIOUS
<1>0. data \in Seq(Byte) /\ pc \in Nat /\ Len(data) \in Nat /\ Org \in Nat
  BY ListingAssumption DEF EndInv
<1>1. CASE Sweep
  <2> DEFINE b0 == Org + pc
  <2>1. /\ pass = "sweep" /\ pc < Len(data) /\ pass' = "sweep" /\ data' = data
        /\ boundaries' = boundaries \cup {b0} /\ pc' = pc + Length(pc)
    BY <1>1 DEF Sweep, Advance
  <2>2. Length(pc) \in Nat /\ Length(pc) >= 1
    BY <1>0, <2>1, LengthFacts
  <2>3. /\ \A b \in boundaries : b \in Nat /\ Org <= b /\ b < Org + Len(data)
        /\ \A b, c \in boundaries : c <= b \/ c >= After(b)
        /\ \A b \in boundaries : b < Org + pc /\ After(b) \in boundaries \cup {Org + pc}
        /\ Org \in boundaries \cup {Org + pc}
    BY <2>1 DEF SweepInv
  <2>4. \A b : After(b)' = After(b)
    BY <2>1, SameRegion
  <2>5. After(b0) = Org + pc' /\ b0 \in Nat /\ Org <= b0 /\ b0 < Org + Len(data) /\ b0 < Org + pc'
    <3>1. b0 - Org = pc
      BY <1>0
    <3> QED BY <1>0, <2>1, <2>2, <3>1 DEF After, Following
  <2>6. ASSUME NEW b \in boundaries PROVE After(b) <= b0 /\ b < b0
    <3>1. b < b0 /\ b0 \in Nat
      BY <1>0, <2>3
    <3>2. CASE After(b) \in boundaries
      <4>1. After(b) \in Nat /\ After(b) < b0
        BY <2>3, <3>2
      <4> QED BY <3>1, <4>1
    <3>3. CASE After(b) = b0
      BY <3>1, <3>3
    <3> QED BY <2>3, <3>1, <3>2, <3>3
  <2> HIDE DEF b0
  <2>7. \A b \in boundaries' : b \in Nat /\ Org <= b /\ b < Org + Len(data')
    BY <2>1, <2>3, <2>5
  <2>8. ASSUME NEW b \in boundaries', NEW c \in boundaries' PROVE c <= b \/ c >= After(b)
    <3>1. CASE c = b0 /\ b # b0
      BY <2>1, <2>6, <3>1
    <3>2. CASE c = b0 /\ b = b0
      BY <2>5, <3>2
    <3>3. CASE c # b0 /\ b = b0
      <4>1. c \in boundaries /\ c \in Nat
        BY <2>1, <2>3, <3>3
      <4> QED BY <2>5, <2>6, <3>3, <4>1
    <3>4. CASE c # b0 /\ b # b0
      BY <2>1, <2>3, <3>4
    <3> QED BY <3>1, <3>2, <3>3, <3>4
  <2>9. \A b \in boundaries' : b < Org + pc' /\ After(b) \in boundaries' \cup {Org + pc'}
    <3>1. \A b \in boundaries : b < Org + pc' /\ After(b) \in boundaries'
      <4>1. \A b \in boundaries : b < b0 /\ b \in Nat
        BY <2>3, <2>6
      <4>2. Org + pc' \in Nat
        BY <1>0, <2>1, <2>2
      <4> QED BY <2>1, <2>3, <2>5, <4>1, <4>2 DEF b0
    <3> QED BY <2>1, <2>5, <3>1
  <2>10. Org \in boundaries' \cup {Org + pc'}
    BY <2>1, <2>3 DEF b0
  <2> QED BY <2>1, <2>4, <2>7, <2>8, <2>9, <2>10 DEF SweepInv
<1>2. CASE SweepFails
  BY <1>2 DEF SweepFails, Fail, SweepInv
<1>3. CASE StartEmit
  <2>1. /\ pass = "sweep" /\ pc >= Len(data) /\ pass' = "emit"
        /\ UNCHANGED <<data, boundaries>>
    BY <1>3 DEF StartEmit
  <2>2. \A b : After(b)' = After(b)
    BY <2>1, SameRegion
  <2>3. \A b \in boundaries : After(b) \in boundaries \/ After(b) >= Org + Len(data)
    BY <1>0, <2>1 DEF SweepInv
  <2>4. Org \in boundaries \/ Len(data) = 0
    <3>1. CASE Org = Org + pc
      BY <1>0, <2>1, <3>1
    <3> QED BY <2>1, <3>1 DEF SweepInv
  <2> QED BY <2>1, <2>2, <2>3, <2>4 DEF SweepInv
<1>4. CASE Emit \/ Finish \/ UNCHANGED vars
  <2>1. /\ UNCHANGED <<data, boundaries>>
        /\ \/ pass \in {"emit", "done"} /\ pass' \in {"emit", "done"}
           \/ UNCHANGED <<pass, pc>>
    BY <1>4 DEF Emit, Finish, vars
  <2>2. \A b : After(b)' = After(b)
    BY <2>1, SameRegion
  <2> QED BY <2>1, <2>2 DEF SweepInv
<1>5. CASE EmitFails
  BY <1>5 DEF EmitFails, Fail, SweepInv
<1> QED BY <1>1, <1>2, <1>3, <1>4, <1>5 DEF Next
-----------------------------------------------------------------------------
(* One more line at the end of a listing.                                  *)
LEMMA LineAppended ==
  ASSUME NEW o, NEW e \in Nat, Laid(o, e), NEW l \in Line,
         l.kind = "label" => l.at = e /\ e \in boundaries /\ Names(o, e) = {},
         l.kind \in {"ins", "db"} => \E p \in Nat :
           p < Len(data) /\ ~CutOff(p) /\ l = CodeLine(p) /\ e = Org + p
  PROVE  /\ Laid(Append(o, l), e + LineSize(l))
         /\ \A a : Names(o, a) # {} => Names(Append(o, l), a) # {}
         /\ l.kind = "label" => Names(Append(o, l), l.at) # {}
<1> DEFINE q == Append(o, l)
           m == Len(o)
<1>0. /\ o \in Seq(Line) /\ Addr(o, m + 1) = e
      /\ \A n \in DOMAIN o : Placed(o, n)
      /\ \A j, n \in DOMAIN o :
           o[j].kind = "label" /\ o[n].kind = "label" /\ o[j].at = o[n].at => j = n
  BY DEF Laid
<1>1. /\ m \in Nat /\ DOMAIN o = 1 .. m /\ DOMAIN q = 1 .. m + 1 /\ q \in Seq(Line)
      /\ Len(q) = m + 1 /\ q[m + 1] = l /\ \A k \in 1 .. m : q[k] = o[k]
  BY <1>0
<1>2. /\ \A n \in 1 .. m + 1 : Addr(q, n) = Addr(o, n)
      /\ Addr(q, m + 2) = e + LineSize(l)
  BY <1>0, AddrAppend
<1> HIDE DEF q, m
<1>3. Addr(q, Len(q) + 1) = e + LineSize(l)
  <2>1. Len(q) + 1 = m + 2
    BY <1>1
  <2> QED BY <1>2, <2>1
<1>4. ASSUME NEW n \in 1 .. m PROVE Placed(q, n)
  <2>1. n \in 1 .. m + 1 /\ n \in DOMAIN o
    BY <1>1
  <2>2. Placed(o, n) /\ q[n] = o[n] /\ Addr(q, n) = Addr(o, n)
    BY <1>0, <1>1, <1>2, <2>1
  <2> QED BY <2>2 DEF Placed
<1>5. Placed(q, m + 1)
  <2>1. Addr(q, m + 1) = e /\ q[m + 1] = l
    BY <1>0, <1>1, <1>2
  <2> QED BY <2>1 DEF Placed
<1>6. ASSUME NEW j \in 1 .. m + 1, NEW n \in 1 .. m + 1,
             q[j].kind = "label", q[n].kind = "label", q[j].at = q[n].at, j # n
      PROVE  FALSE
  <2>1. ASSUME NEW k \in 1 .. m, l.kind = "label", o[k].kind = "label", o[k].at = l.at
        PROVE  FALSE
    <3>1. k \in Names(o, e)
      BY <1>1, <2>1 DEF Names
    <3> QED BY <2>1, <3>1
  <2>2. CASE j = m + 1
    <3>1. n \in 1 .. m
      BY <1>1, <1>6, <2>2
    <3> QED BY <1>1, <1>6, <2>1, <2>2, <3>1
  <2>3. CASE n = m + 1
    <3>1. j \in 1 .. m
      BY <1>1, <1>6, <2>3
    <3> QED BY <1>1, <1>6, <2>1, <2>3, <3>1
  <2>4. CASE j # m + 1 /\ n # m + 1
    <3>1. j \in 1 .. m /\ n \in 1 .. m
      BY <1>1, <2>4
    <3> QED BY <1>0, <1>1, <1>6, <3>1
  <2> QED BY <2>2, <2>3, <2>4
<1>7. Laid(q, e + LineSize(l))
  <2>1. \A n \in DOMAIN q : Placed(q, n)
    <3>1. \A n \in 1 .. m + 1 : n \in 1 .. m \/ n = m + 1
      BY <1>1
    <3> QED BY <1>1, <1>4, <1>5, <3>1
  <2> QED BY <1>1, <1>3, <1>6, <2>1 DEF Laid
<1>8. ASSUME NEW a, Names(o, a) # {} PROVE Names(q, a) # {}
  <2>1. PICK n \in 1 .. m : o[n].kind = "label" /\ o[n].at = a
    BY <1>1, <1>8 DEF Names
  <2>2. n \in DOMAIN q /\ q[n] = o[n]
    BY <1>1
  <2>3. n \in Names(q, a)
    BY <2>1, <2>2 DEF Names
  <2> QED BY <2>3
<1>9. ASSUME l.kind = "label" PROVE Names(q, l.at) # {}
  <2>1. m + 1 \in Names(q, l.at)
    BY <1>1, <1>9 DEF Names
  <2> QED BY <2>1
<1> QED BY <1>7, <1>8, <1>9 DEF q

LEMMA CodeLineType ==
  ASSUME data \in Seq(Byte), NEW p \in Nat, p < Len(data), ~CutOff(p)
  PROVE  CodeLine(p) \in Line
<1>1. CASE ~Known(p)
  <2>1. CodeLine(p) = [kind |-> "db", byte |-> Opcode(p)] /\ Opcode(p) \in Byte
    BY <1>1, LengthFacts DEF CodeLine
  <2> QED BY <2>1 DEF Line
<1>2. CASE Known(p)
  <2> DEFINE ops == [i \in DOMAIN Args(p) |-> Operand(p, i)]
             Op == [label : BOOLEAN, value : Int]
  <2>1. Opcode(p) \in DOMAIN Table /\ Args(p) \in Seq(ArgType)
    BY <1>2, InstructionFacts
  <2>2. \A i \in 1 .. Len(Args(p)) : Operand(p, i) \in Op
    BY <1>2, OperandFacts
  <2> HIDE DEF Op
  <2>3. ops \in Seq(Op)
    BY <2>1, <2>2
  <2>4. CodeLine(p) = [kind |-> "ins", mn |-> Table[Opcode(p)].mn, ops |-> ops]
    BY <1>2 DEF CodeLine
  <2> HIDE DEF ops
  <2>5. Table[Opcode(p)].mn \in {Table[o].mn : o \in DOMAIN Table}
    BY <2>1
  <2> QED BY <2>3, <2>4, <2>5 DEF Line, Op
<1> QED BY <1>1, <1>2

(* The label of the instruction, where it has one.                         *)
LEMMA LabelPlaced ==
  ASSUME EndInv, SweepInv, EmitInv, pass = "emit", pc < Len(data)
  PROVE  /\ Laid(out \o LabelLine(pc), Org + pc)
         /\ \A a \in labeled : a <= Org + pc => Names(out \o LabelLine(pc), a) # {}
         /\ \A n \in DOMAIN (out \o LabelLine(pc)) :
              (out \o LabelLine(pc))[n].kind = "label" =>
                (out \o LabelLine(pc))[n].at <= Org + pc
<1> DEFINE e == Org + pc
           q == out \o LabelLine(pc)
<1>1. e \in Nat
  BY ListingAssumption DEF EndInv
<1>2. /\ e \in boundaries /\ Laid(out, e) /\ out \in Seq(Line)
      /\ \A n \in DOMAIN out : out[n].kind = "label" => out[n].at < e
      /\ \A a \in labeled : a < e => Names(out, a) # {}
  BY DEF EmitInv, Laid
<1>3. labeled \subseteq boundaries /\ \A b \in boundaries : b \in Nat
  BY DEF labeled, SweepInv
<1>a. \A n \in DOMAIN out : out[n].kind = "label" => out[n].at \in Nat
  <2> SUFFICES ASSUME NEW n \in DOMAIN out, out[n].kind = "label"
               PROVE  out[n].at \in Nat
    OBVIOUS
  <2>1. Placed(out, n)
    BY <1>2 DEF Laid
  <2> QED BY <1>3, <2>1 DEF Placed
<1>4. CASE e \notin labeled
  <2>1. LabelLine(pc) = <<>>
    BY <1>4 DEF LabelLine
  <2>2. q = out
    BY <1>2, <2>1
  <2>3. \A a \in labeled : a <= e => a < e
    BY <1>1, <1>3, <1>4
  <2> HIDE DEF e, q
  <2>4. \A n \in DOMAIN out : out[n].kind = "label" => out[n].at <= e
    BY <1>1, <1>2, <1>a
  <2>5. /\ Laid(q, e)
        /\ \A a \in labeled : a <= e => Names(q, a) # {}
        /\ \A n \in DOMAIN q : q[n].kind = "label" => q[n].at <= e
    BY <1>2, <2>2, <2>3, <2>4
  <2> QED BY <2>5 DEF e, q
<1>5. CASE e \in labeled
  <2> DEFINE l == [kind |-> "label", at |-> e]
  <2>1. LabelLine(pc) = <<l>>
    BY <1>5 DEF LabelLine
  <2>2. q = Append(out, l)
    BY <1>2, <2>1
  <2>3. l \in Line /\ l.kind = "label" /\ l.at = e /\ LineSize(l) = 0
    BY <1>1 DEF Line, LineSize
  <2> HIDE DEF e, l, q
  <2>4. Names(out, e) = {}
    BY <1>1, <1>2, <1>a DEF Names
  <2>5. /\ Laid(Append(out, l), e + LineSize(l))
        /\ \A a : Names(out, a) # {} => Names(Append(out, l), a) # {}
        /\ Names(Append(out, l), e) # {}
    BY <1>1, <1>2, <2>3, <2>4, LineAppended
  <2>6. Laid(q, e)
    BY <1>1, <2>2, <2>3, <2>5
  <2>7. \A a \in labeled : a <= e => Names(q, a) # {}
    <3> SUFFICES ASSUME NEW a \in labeled, a <= e PROVE Names(q, a) # {}
      OBVIOUS
    <3>1. a = e \/ a < e
      BY <1>1, <1>3
    <3> QED BY <1>2, <2>2, <2>5, <3>1
  <2>8. \A n \in DOMAIN q : q[n].kind = "label" => q[n].at <= e
    <3> SUFFICES ASSUME NEW n \in DOMAIN q, q[n].kind = "label" PROVE q[n].at <= e
      OBVIOUS
    <3>1. CASE n \in DOMAIN out
      <4>1. q[n] = out[n]
        BY <1>2, <2>2, <3>1
      <4> QED BY <1>1, <1>2, <1>a, <3>1, <4>1
    <3>2. CASE n \notin DOMAIN out
      <4>1. q[n] = l
        BY <1>2, <2>2, <3>2
      <4> QED BY <1>1, <2>3, <4>1
    <3> QED BY <3>1, <3>2
  <2>9. /\ Laid(q, e)
        /\ \A a \in labeled : a <= e => Names(q, a) # {}
        /\ \A n \in DOMAIN q : q[n].kind = "label" => q[n].at <= e
    BY <2>6, <2>7, <2>8
  <2> QED BY <2>9 DEF e, q
<1> QED BY <1>4, <1>5
LEMMA EmitInvInit == Init => EmitInv
BY DEF Init, EmitInv

LEMMA EmitKept ==
  EndInv /\ SweepInv /\ EmitInv /\ Emit => EmitInv'
<1> SUFFICES ASSUME EndInv, SweepInv, EmitInv, Emit PROVE EmitInv'
  OBVIOUS
<1>0. data \in Seq(Byte) /\ pc \in Nat /\ Len(data) \in Nat /\ Org \in Nat
  BY ListingAssumption DEF EndInv
<1>1. /\ pass = "emit" /\ pc < Len(data) /\ ~CutOff(pc) /\ pass' = "emit"
      /\ out' = out \o LabelLine(pc) \o <<CodeLine(pc)>> /\ pc' = pc + Length(pc)
      /\ UNCHANGED <<data, boundaries, targets>>
  BY DEF Emit, Advance
<1>2. Length(pc) \in Nat /\ Length(pc) >= 1
  BY <1>0, <1>1, LengthFacts
<1> DEFINE q == out \o LabelLine(pc)
           l == CodeLine(pc)
           e == Org + pc
           f == e + Length(pc)
<1>3. /\ Laid(q, e)
      /\ \A a \in labeled : a <= e => Names(q, a) # {}
      /\ \A n \in DOMAIN q : q[n].kind = "label" => q[n].at <= e
  BY <1>1, LabelPlaced
<1>4. /\ l \in Line /\ l.kind \in {"ins", "db"} /\ LineSize(l) = Length(pc)
  BY <1>0, <1>1, CodeLineType, CodeLineFacts
<1>5. e \in Nat /\ f \in Nat /\ e < f /\ f = Org + pc'
  BY <1>0, <1>1, <1>2
<1>6. q \in Seq(Line) /\ out' = Append(q, l)
  <2>1. q \in Seq(Line)
    BY <1>3 DEF Laid
  <2>2. out' = q \o <<l>>
    BY <1>1
  <2> HIDE DEF q, l
  <2>3. q \o <<l>> = Append(q, l)
    BY <1>4, <2>1
  <2> QED BY <2>1, <2>2, <2>3
<1>7. e \in boundaries /\ After(e) = f
  <2>1. e - Org = pc
    BY <1>0
  <2> QED BY <1>1, <1>0, <1>2, <2>1 DEF After, Following, EmitInv
<1>8. /\ \A b, c \in boundaries : c <= b \/ c >= After(b)
      /\ \A b \in boundaries : b \in Nat /\ b < Org + Len(data)
      /\ \A b \in boundaries : After(b) \in boundaries \/ After(b) >= Org + Len(data)
  BY <1>1 DEF SweepInv
<1>9. \E p \in Nat : p < Len(data) /\ ~CutOff(p) /\ l = CodeLine(p) /\ e = Org + p
  BY <1>0, <1>1
<1> HIDE DEF q, l, e, f
<1>10. /\ Laid(Append(q, l), f)
       /\ \A a : Names(q, a) # {} => Names(Append(q, l), a) # {}
  <2>1. /\ Laid(Append(q, l), e + LineSize(l))
        /\ \A a : Names(q, a) # {} => Names(Append(q, l), a) # {}
    <3>1. l.kind # "label"
      BY <1>4
    <3> QED BY <1>3, <1>4, <1>5, <1>9, <3>1, LineAppended
  <2> QED BY <1>4, <2>1 DEF f
<1>11. pc' < Len(data) => f \in boundaries
  <2>1. f \in boundaries \/ f >= Org + Len(data)
    BY <1>7, <1>8
  <2>2. pc' \in Nat
    BY <1>0, <1>1, <1>2
  <2> QED BY <1>0, <1>5, <2>1, <2>2
<1>12. \A a \in labeled : a < f => Names(Append(q, l), a) # {}
  <2> SUFFICES ASSUME NEW a \in labeled, a < f PROVE Names(Append(q, l), a) # {}
    OBVIOUS
  <2>1. a \in boundaries /\ a \in Nat
    BY <1>8 DEF labeled
  <2>2. a <= e
    BY <1>5, <1>7, <1>8, <2>1
  <2> QED BY <1>3, <1>10, <2>2
<1>13. \A n \in DOMAIN out' : out'[n].kind = "label" => out'[n].at < f
  <2> SUFFICES ASSUME NEW n \in DOMAIN out', out'[n].kind = "label"
               PROVE  out'[n].at < f
    OBVIOUS
  <2>1. n \in DOMAIN q /\ out'[n] = q[n]
    <3>1. CASE n \in DOMAIN q
      BY <1>6, <3>1
    <3>2. CASE n \notin DOMAIN q
      <4>1. out'[n] = l
        BY <1>6, <3>2
      <4> QED BY <1>4, <4>1
    <3> QED BY <3>1, <3>2
  <2>2. q[n].at <= e
    BY <1>3, <2>1
  <2>3. q[n].at \in Nat
    <3>1. Placed(q, n)
      BY <1>3, <2>1 DEF Laid
    <3> QED BY <1>8, <2>1, <3>1 DEF Placed
  <2> QED BY <1>5, <2>1, <2>2, <2>3
<1>14. PICK o, x : o = out' /\ x = f
  OBVIOUS
<1>15. Laid(o, x)'
  <2>1. Laid(o, x)
    BY <1>6, <1>10, <1>14
  <2> QED BY <1>1, <2>1, SameLines
<1>16. labeled' = labeled /\ \A a : Names(o, a)' = Names(o, a)
  BY <1>1, SameLines
<1>17. o = out' /\ x = Org + pc'
  BY <1>5, <1>14
<1>18. Laid(out, Org + pc)'
  BY <1>15, <1>17 DEF Laid, Placed
<1>19. \A a \in labeled' : a < Org + pc' => Names(out, a)' # {}
  BY <1>5, <1>6, <1>12, <1>16, <1>17 DEF Names
<1> QED BY <1>1, <1>5, <1>11, <1>13, <1>18, <1>19 DEF EmitInv
LEMMA EmitStarts ==
  EndInv /\ SweepInv' /\ StartEmit => EmitInv'
<1> SUFFICES ASSUME EndInv, SweepInv', StartEmit PROVE EmitInv'
  OBVIOUS
<1>0. Len(data) \in Nat /\ Org \in Nat
  BY ListingAssumption DEF EndInv
<1>1. /\ pass' = "emit" /\ pc' = 0 /\ out' = <<Org_line>>
      /\ UNCHANGED <<data, boundaries, targets>>
  BY DEF StartEmit
<1>2. /\ pc' < Len(data') => Org + pc' \in boundaries'
      /\ \A b \in boundaries' : b \in Nat /\ Org <= b
  BY <1>0, <1>1 DEF SweepInv
<1> DEFINE q == <<Org_line>>
<1>3. /\ q \in Seq(Line) /\ Len(q) = 1 /\ DOMAIN q = {1} /\ q[1].kind = "org"
      /\ LineSize(q[1]) = 0
  BY DEF Line, LineSize, Org_line
<1> HIDE DEF q
<1>4. Addr(q, Len(q) + 1) = Org
  <2>1. 1 \in 1 .. Len(q) /\ Addr(q, 1) = Org /\ Len(q) + 1 = 1 + 1
    BY <1>3, AddrFacts
  <2>2. Addr(q, 1 + 1) = Addr(q, 1) + LineSize(q[1])
    BY <1>3, <2>1, AddrFacts
  <2> QED BY <1>0, <1>3, <2>1, <2>2
<1>5. Laid(q, Org)
  BY <1>3, <1>4 DEF Laid, Placed
<1>6. Laid(q, Org)'
  BY <1>1, <1>5, SameLines
<1>7. out' = q /\ Org + pc' = Org
  BY <1>0, <1>1 DEF q
<1>8. Laid(out, Org + pc)'
  BY <1>6, <1>7 DEF Laid, Placed
<1>9. \A n \in DOMAIN out' : out'[n].kind # "label"
  BY <1>3, <1>7
<1>10. \A a \in labeled' : ~(a < Org + pc')
  BY <1>0, <1>2, <1>7 DEF labeled
<1> QED BY <1>2, <1>8, <1>9, <1>10 DEF EmitInv

LEMMA EmitInvNext ==
  EndInv /\ SweepInv /\ SweepInv' /\ EmitInv /\ [Next]_vars => EmitInv'
<1> SUFFICES ASSUME EndInv, SweepInv, SweepInv', EmitInv, [Next]_vars PROVE EmitInv'
  OBVIOUS
<1>1. CASE Sweep
  BY <1>1 DEF Sweep, EmitInv
<1>2. CASE SweepFails
  BY <1>2 DEF SweepFails, Fail, EmitInv
<1>3. CASE StartEmit
  BY <1>3, EmitStarts
<1>4. CASE Emit
  BY <1>4, EmitKept
<1>5. CASE EmitFails
  BY <1>5 DEF EmitFails, Fail, EmitInv
<1>6. CASE Finish \/ UNCHANGED vars
  <2>1. /\ UNCHANGED <<data, pc, boundaries, targets, out>>
        /\ pass' \in {"emit", "done"} => pass \in {"emit", "done"}
    BY <1>6 DEF Finish, vars
  <2>2. labeled' = labeled /\ \A o, a : Names(o, a)' = Names(o, a)
    BY <2>1, SameLines
  <2> SUFFICES ASSUME pass \in {"emit", "done"} PROVE EmitInv'
    BY <2>1 DEF EmitInv
  <2>3. PICK o, x : o = out /\ x = Org + pc
    OBVIOUS
  <2>4. Laid(o, x)'
    <3>1. Laid(o, x)
      BY <2>3 DEF EmitInv
    <3> QED BY <2>1, <3>1, SameLines
  <2>5. Laid(out, Org + pc)'
    <3>1. o = out' /\ x = Org + pc'
      BY <2>1, <2>3
    <3> QED BY <2>4, <3>1 DEF Laid, Placed
  <2>6. \A a : Names(out, a)' = Names(out, a)
    BY <2>1 DEF Names
  <2> QED BY <2>1, <2>2, <2>5, <2>6 DEF EmitInv
<1> QED BY <1>1, <1>2, <1>3, <1>4, <1>5, <1>6 DEF Next

-----------------------------------------------------------------------------
(* When the listing is complete, every label an operand names is resolved. *)
LEMMA LabelsResolve ==
  ASSUME EndInv, SweepInv, EmitInv, pass = "done"
  PROVE  \A a \in labeled : /\ Cardinality(Defining(a)) = 1
                            /\ AddressOf(CHOOSE n \in Defining(a) : TRUE) = a
<1> SUFFICES ASSUME NEW a \in labeled
             PROVE  /\ Cardinality(Defining(a)) = 1
                    /\ AddressOf(CHOOSE n \in Defining(a) : TRUE) = a
  OBVIOUS
<1>1. pc = Len(data) /\ Laid(out, Org + pc)
  BY DEF EndInv, EmitInv
<1>2. a \in boundaries /\ a < Org + pc
  BY <1>1 DEF labeled, SweepInv
<1>3. Defining(a) = Names(out, a)
  BY DEF Defining, LabelLines, Names
<1>4. PICK n : n \in Names(out, a)
  BY <1>2 DEF EmitInv
<1>5. /\ n \in DOMAIN out /\ out \in Seq(Line)
      /\ out[n].kind = "label" /\ out[n].at = a
      /\ Names(out, a) = {n}
  BY <1>1, <1>4 DEF Laid, Names
<1>6. Cardinality({n}) = 1
  BY FS_Singleton
<1>7. (CHOOSE k \in {n} : TRUE) = n
  OBVIOUS
<1>8. Addr(out, n) = a
  BY <1>1, <1>5 DEF Laid, Placed
<1>9. AddressOf(n) = Addr(out, n)
  <2>1. n \in 1 .. Len(out) + 1
    BY <1>5
  <2> QED BY <1>5, <2>1, AddressIs
<1> QED BY <1>3, <1>5, <1>6, <1>7, <1>8, <1>9

LEMMA LineIsPiece ==
  ASSUME EndInv, SweepInv, EmitInv, pass = "done", Writable, NEW n \in 1 .. Len(out)
  PROVE  LineBytes(n) = SubSeq(data, (Addr(out, n) - Org) + 1, Addr(out, n + 1) - Org)
<1>1. /\ out \in Seq(Line) /\ DOMAIN out = 1 .. Len(out) /\ Placed(out, n)
      /\ out[n] \in Line
  BY DEF EmitInv, Laid
<1>2. /\ Addr(out, n) \in Nat /\ Addr(out, n + 1) = Addr(out, n) + LineSize(out[n])
      /\ Org \in Nat /\ Org <= Addr(out, n)
  <2>1. n \in 1 .. Len(out) + 1
    OBVIOUS
  <2> QED BY <1>1, <2>1, AddrFacts, ListingAssumption
<1>3. CASE out[n].kind \in {"org", "label"}
  <2>1. LineBytes(n) = <<>>
    BY <1>3 DEF LineBytes
  <2>2. Addr(out, n + 1) = Addr(out, n)
    BY <1>1, <1>2, <1>3, LineFacts
  <2>3. Addr(out, n) - Org \in Int
    BY <1>2
  <2> QED BY <2>1, <2>2, <2>3, SubSeqEmpty
<1>4. CASE out[n].kind \in {"ins", "db"}
  <2>1. PICK p \in Nat : /\ p < Len(data) /\ ~CutOff(p)
                         /\ out[n] = CodeLine(p) /\ Addr(out, n) = Org + p
    BY <1>1, <1>4 DEF Placed
  <2>2. data \in Seq(Byte)
    BY DEF EndInv
  <2>3. AddressOf(n) = Org + p
    <3>1. n \in 1 .. Len(out) + 1
      OBVIOUS
    <3> QED BY <1>1, <2>1, <3>1, AddressIs
  <2>4. LineSize(out[n]) = Length(p) /\ Length(p) \in Nat
    BY <2>1, <2>2, CodeLineFacts, LengthFacts
  <2>5. ASSUME Known(p), NEW i \in 1 .. Len(Args(p))
        PROVE  Resolved(Operand(p, i)) = Operand(p, i).value /\ Operand(p, i).value >= 0
    <3>1. out[n].kind = "ins" /\ out[n].ops = [j \in DOMAIN Args(p) |-> Operand(p, j)]
      BY <2>1, <2>2, <2>5, CodeLineFacts
    <3>2. DOMAIN Args(p) = 1 .. Len(Args(p))
      <4>1. Args(p) \in Seq(ArgType)
        BY <2>1, <2>2, <2>5, InstructionFacts
      <4> QED BY <4>1
    <3>3. out[n].ops[i].value >= 0 /\ out[n].ops[i] = Operand(p, i)
      BY <1>1, <3>1, <3>2 DEF Writable
    <3>4. Operand(p, i).label => Operand(p, i).value \in labeled
      BY <2>1, <2>2, <2>5, OperandFacts
    <3>5. Resolved(Operand(p, i)) = Operand(p, i).value
      BY <3>4, LabelsResolve DEF Resolved
    <3> QED BY <3>3, <3>5
  <2>6. LineBytes(n) = SubSeq(data, p + 1, p + Length(p))
    BY <2>1, <2>2, <2>3, <2>5, InstructionBytes
  <2>7. Addr(out, n) - Org = p /\ Addr(out, n + 1) - Org = p + Length(p)
    BY <1>2, <2>1, <2>4
  <2> QED BY <2>6, <2>7
<1> QED BY <1>1, <1>3, <1>4, LineFacts

LEMMA CompleteListing ==
  ASSUME EndInv, SweepInv, EmitInv
  PROVE  RoundTrip
<1> SUFFICES ASSUME pass = "done", Writable PROVE Assembled = data
  BY DEF RoundTrip
<1> DEFINE m == Len(out)
           b == [n \in 1 .. m |-> LineBytes(n)]
           pos == [n \in 1 .. m + 1 |-> Addr(out, n) - Org]
<1>1. /\ out \in Seq(Line) /\ DOMAIN out = 1 .. m /\ m \in Nat
      /\ Addr(out, m + 1) = Org + pc /\ pc = Len(data) /\ pc \in Nat
      /\ data \in Seq(Int) /\ Org \in Nat
  BY ListingAssumption DEF EmitInv, Laid, EndInv, Byte
<1>2. /\ Addr(out, 1) = Org
      /\ \A n \in 1 .. m + 1 : /\ Addr(out, n) \in Nat /\ Org <= Addr(out, n)
                               /\ Addr(out, n) <= Org + pc
      /\ \A n \in 1 .. m : Addr(out, n + 1) = Addr(out, n) + LineSize(out[n])
  BY <1>1, AddrFacts
<1>3. \A n \in 1 .. m :
        LineBytes(n) = SubSeq(data, (Addr(out, n) - Org) + 1, Addr(out, n + 1) - Org)
  BY LineIsPiece
<1>4. \A n \in 1 .. m + 1 : pos[n] = Addr(out, n) - Org
  OBVIOUS
<1>5. Assembled = JoinedTo(b, m)
  <2>1. [n \in DOMAIN out |-> LineBytes(n)] = [n \in 1 .. m |-> b[n]]
    BY <1>1
  <2> QED BY <2>1 DEF Assembled, JoinedTo
<1>6. \A n \in 1 .. m : b[n] = LineBytes(n)
  OBVIOUS
<1> HIDE DEF b, pos, m
<1>7. Pieces(b, m, data, pos)
  <2>1. ASSUME NEW n \in 1 .. m + 1 PROVE pos[n] \in 0 .. Len(data)
    BY <1>1, <1>2, <1>4
  <2>2. ASSUME NEW n \in 1 .. m
        PROVE  pos[n] <= pos[n + 1] /\ b[n] = SubSeq(data, pos[n] + 1, pos[n + 1])
    <3>1. n \in 1 .. m + 1 /\ n + 1 \in 1 .. m + 1
      BY <1>1
    <3>2. pos[n] = Addr(out, n) - Org /\ pos[n + 1] = Addr(out, n + 1) - Org
      BY <1>4, <3>1
    <3>3. LineSize(out[n]) \in Nat
      BY <1>1, LineFacts
    <3>4. Addr(out, n) \in Nat /\ Addr(out, n + 1) = Addr(out, n) + LineSize(out[n])
      BY <1>2, <3>1
    <3>5. pos[n] <= pos[n + 1]
      BY <1>1, <3>2, <3>3, <3>4
    <3>6. b[n] = SubSeq(data, pos[n] + 1, pos[n + 1])
      BY <1>3, <1>6, <3>2
    <3> QED BY <3>5, <3>6
  <2> QED BY <2>1, <2>2 DEF Pieces
<1>8. JoinedTo(b, m) = SubSeq(data, pos[1] + 1, pos[m + 1])
  BY <1>1, <1>7, JoinedPieces
<1>9. pos[1] = 0 /\ pos[m + 1] = Len(data)
  <2>1. 1 \in 1 .. m + 1 /\ m + 1 \in 1 .. m + 1
    BY <1>1
  <2> QED BY <1>1, <1>2, <1>4, <2>1
<1>10. SubSeq(data, 0 + 1, Len(data)) = data
  BY <1>1
<1> QED BY <1>5, <1>8, <1>9, <1>10

(* Whatever the region holds, a listing that was written to its end, with  *)
(* no displacement below address 0, assembles to the bytes of the region.  *)
THEOREM ListingRoundTrips == Spec => []RoundTrip
<1>1. Init => EndInv /\ SweepInv /\ EmitInv
  BY EndInvInit, SweepInvInit, EmitInvInit
<1>2. EndInv /\ SweepInv /\ EmitInv /\ [Next]_vars => (EndInv /\ SweepInv /\ EmitInv)'
  BY EndInvNext, SweepInvNext, EmitInvNext
<1>3. EndInv /\ SweepInv /\ EmitInv => RoundTrip
  BY CompleteListing
<1> QED BY <1>1, <1>2, <1>3, PTL DEF Spec
=============================================================================
