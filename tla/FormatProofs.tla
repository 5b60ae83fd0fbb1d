---------------------------- MODULE FormatProofs ----------------------------
(***************************************************************************)
(* Theorems about formats: a number in a delta and a JSON object in a      *)
(* packet, a packet from its encoder to each decoder, an envelope around   *)
(* packets, and packets in a stream with noise.                            *)
(***************************************************************************)
EXTENDS FieldPaths, RecoveredStream, FiniteSetTheorems, SequenceTheorems,
        WellFoundedInduction, TLAPS

-----------------------------------------------------------------------------
(* Numbers and JSON objects *)

\* The residue of a number, shifted into a half-open range around it, is the
\* number: the arithmetic of casts and of sign extension.
LEMMA ResidueInRange ==
    ASSUME NEW w \in Nat \ {0}, NEW x \in 0 .. w - 1
    PROVE  x % w = x
  OBVIOUS

LEMMA ResidueBelow ==
    ASSUME NEW w \in Nat \ {0}, NEW x \in Int, -w <= x, x < 0
    PROVE  x % w = x + w
  BY Z3

LEMMA ResidueAbove ==
    ASSUME NEW w \in Nat \ {0}, NEW x \in Int, w <= x, x < 2 * w
    PROVE  x % w = x - w
  BY Z3

\* Every width is even, so a field's range is a whole number of residues.
LEMMA Halves ==
    ASSUME NEW t \in Types
    PROVE  /\ t.width \in Nat \ {0} /\ t.width \div 2 \in Nat
           /\ t.width = 2 * (t.width \div 2)
           /\ Lowest(t) = 0 \/ Lowest(t) = -(t.width \div 2)
<1>1. t.width \in {Byte, Half, Word} /\ t.signed \in BOOLEAN
  BY DEF Types
<1>2. t.width \in Nat \ {0} /\ t.width % 2 = 0
  BY <1>1, WidthAssumption
<1> QED
  BY <1>1, <1>2 DEF Lowest

\* Reading the sign of a residue gives back a number that fits.
LEMMA SignExtendInverts ==
    ASSUME NEW w \in Nat \ {0}, w % 2 = 0, NEW d \in Int, FitsIn(w, d)
    PROVE  SignExtend(w, d % w) = d
<1>1. w = 2 * (w \div 2) /\ w \div 2 \in Nat
  OBVIOUS
<1>2. CASE 0 <= d
  <2>1. d \in 0 .. w - 1
    BY <1>1, <1>2 DEF FitsIn
  <2> QED
    BY <2>1, <1>1, ResidueInRange DEF FitsIn, SignExtend
<1>3. CASE d < 0
  <2>1. -w <= d
    BY <1>1 DEF FitsIn
  <2>2. d % w = d + w
    BY <1>3, <2>1, ResidueBelow
  <2> QED
    BY <1>1, <1>3, <2>2 DEF FitsIn, SignExtend
<1> QED
  BY <1>2, <1>3

\* A cast keeps a value of the type, and restores it from its residue.
LEMMA CastInverts ==
    ASSUME NEW t \in Types, NEW v \in NumbersOf(t)
    PROVE  Cast(t, v) = v /\ Cast(t, v % t.width) = v
<1> DEFINE w == t.width
           h == t.width \div 2
           low == Lowest(t)
<1>1. w \in Nat \ {0} /\ h \in Nat /\ w = 2 * h /\ (low = 0 \/ low = -h)
  BY Halves
<1>2. v \in Int /\ low <= v /\ v < low + w
  BY <1>1 DEF NumbersOf
<1>3. Cast(t, v) = ((v - low) % w) + low
  BY DEF Cast
<1>4. Cast(t, v % w) = (((v % w) - low) % w) + low
  BY DEF Cast
<1> HIDE DEF w, h, low
<1>5. (v - low) % w = v - low
  <2>1. v - low \in 0 .. w - 1
    BY <1>1, <1>2
  <2> QED
    BY <1>1, <2>1, ResidueInRange
<1>6. ((v % w) - low) % w = v - low
  <2>1. CASE 0 <= v
    <3>1. v \in 0 .. w - 1
      BY <1>1, <1>2, <2>1
    <3> QED
      BY <1>1, <1>5, <3>1, ResidueInRange
  <2>2. CASE v < 0
    <3>1. -w <= v
      BY <1>1, <1>2
    <3>2. v % w = v + w
      BY <1>1, <1>2, <2>2, <3>1, ResidueBelow
    <3>3. /\ (v + w) - low \in Int
          /\ w <= (v + w) - low /\ (v + w) - low < 2 * w
      BY <1>1, <1>2
    <3>4. ((v + w) - low) % w = ((v + w) - low) - w
      BY <1>1, <3>3, ResidueAbove
    <3> QED
      BY <1>1, <1>2, <3>2, <3>4
  <2> QED
    BY <1>2, <2>1, <2>2
<1>7. (v - low) + low = v
  BY <1>1, <1>2
<1> QED
  BY <1>3, <1>4, <1>5, <1>6, <1>7 DEF w

\* A width a difference is sent in is one it fits in.
LEMMA ShortestFits ==
    ASSUME NEW t \in Types, NEW d \in Int,
           NEW w \in DeltaWidths(t), FitsIn(w, d)
    PROVE  Shortest(t, d) \in DeltaWidths(t) /\ FitsIn(Shortest(t, d), d)
<1> DEFINE S == {v \in DeltaWidths(t) : FitsIn(v, d)}
<1>1. S \subseteq {Byte, Half, Word} /\ w \in S
  BY DEF DeltaWidths
<1>2. \E v \in S : \A u \in S : v <= u
  <2>1. Byte \in Nat /\ Half \in Nat /\ Word \in Nat /\ Byte < Half /\ Half < Word
    BY WidthAssumption
  <2>2. CASE Byte \in S
    BY <1>1, <2>1, <2>2
  <2>3. CASE Byte \notin S /\ Half \in S
    BY <1>1, <2>1, <2>3
  <2>4. CASE Byte \notin S /\ Half \notin S
    BY <1>1, <2>1, <2>4
  <2> QED
    BY <2>2, <2>3, <2>4
<1>3. \E v \in DeltaWidths(t) :
         FitsIn(v, d) /\ \A u \in DeltaWidths(t) : FitsIn(u, d) => v <= u
  BY <1>2
<1> QED
  BY <1>3 DEF Shortest

\* The round trip of one field: whatever form write_numeric_delta chose, and
\* wherever the value wrapped, read_numeric_delta gives back the new value.
THEOREM NumericRoundTrip ==
    ASSUME NEW t \in Types, NEW a \in NumbersOf(t), NEW b \in NumbersOf(t)
    PROVE  ReadDelta(t, a, WriteDelta(t, a, b)) = b
<1>1. a \in Int /\ b \in Int
  BY Halves DEF NumbersOf
<1>2. CASE \E w \in DeltaWidths(t) : FitsIn(w, b - a)
  <2> DEFINE w == Shortest(t, b - a)
  <2>1. w \in DeltaWidths(t) /\ FitsIn(w, b - a)
    BY <1>1, <1>2, ShortestFits
  <2>2. w \in Nat \ {0} /\ w % 2 = 0
    BY <2>1, WidthAssumption DEF DeltaWidths
  <2> HIDE DEF w
  <2>3. SignExtend(w, (b - a) % w) = b - a
    BY <1>1, <2>1, <2>2, SignExtendInverts
  <2>4. WriteDelta(t, a, b) = Form("delta", w, b - a)
    BY <1>2 DEF WriteDelta, w
  <2>5. ReadDelta(t, a, WriteDelta(t, a, b)) = Cast(t, a + (b - a))
    BY <2>3, <2>4 DEF ReadDelta, Form
  <2>6. a + (b - a) = b
    BY <1>1
  <2> QED
    BY <2>5, <2>6, CastInverts
<1>3. CASE ~ \E w \in DeltaWidths(t) : FitsIn(w, b - a)
  <2>1. WriteDelta(t, a, b) = Form("raw", t.width, b)
    BY <1>3 DEF WriteDelta
  <2>2. ReadDelta(t, a, WriteDelta(t, a, b)) = Cast(t, b % t.width)
    BY <2>1 DEF ReadDelta, Form
  <2> QED
    BY <2>2, CastInverts
<1> QED
  BY <1>2, <1>3

-----------------------------------------------------------------------------
(* The paths of FieldPaths *)

\* A JSON value that its field accepts survives the packet and both casts.
LEMMA JsonFieldKept ==
    ASSUME NEW t \in FieldTypes, NEW j, IsJsonValue(j), Converts(t, j)
    PROVE  ToJson(t, Decoded(t, Encoded(t, ToField(t, j)))) =
             IF IsFloat(t) THEN Decimal(Narrowed(t, RealOf(j))) ELSE j
<1>1. CASE t \in Types
  <2>1. ~IsText(t) /\ ~IsFloat(t)
    BY <1>1 DEF Types, IsText, IsFloat
  <2>2. j.kind = "integer" /\ Lowest(t) <= j.v /\ j.v < Lowest(t) + t.width
    BY <2>1 DEF Converts
  <2>3. PICK n \in Int : j = Integer(n)
    <3>1. \A kind, v : TextOf(kind, v).kind = kind /\ Decimal(v).kind = "decimal"
      BY DEF TextOf, Decimal
    <3> QED
      BY <2>2, <3>1 DEF IsJsonValue
  <2>4. j.v = n /\ n \in NumbersOf(t)
    BY <1>1, <2>2, <2>3, Halves DEF Integer, NumbersOf
  <2>5. ToField(t, j) = n
    BY <1>1, <2>1, <2>4, CastInverts DEF ToField
  <2>6. Decoded(t, Encoded(t, n)) = n
    BY <1>1, <2>4, CastInverts DEF Encoded, Decoded, Form
  <2> QED
    BY <2>1, <2>3, <2>5, <2>6 DEF ToJson
<1>2. CASE t \in FloatTypes
  <2>1. t \notin Types /\ IsFloat(t) /\ ~IsText(t)
    BY <1>2 DEF Types, FloatTypes, IsText, IsFloat
  <2> QED
    BY <2>1 DEF ToJson, ToField, Encoded, Decoded
<1>3. CASE t \in TextTypes
  <2>1. t \notin Types /\ IsText(t) /\ ~IsFloat(t)
    BY <1>3 DEF Types, TextTypes, IsText, IsFloat
  <2>2. j = TextOf(t.text, j.v)
    <3>1. j.kind = t.text /\ t.text \in {"string", "bytes"}
      BY <1>3, <2>1 DEF Converts, TextTypes
    <3> QED
      BY <3>1 DEF IsJsonValue, Integer, Decimal, TextOf
  <2> QED
    BY <2>1, <2>2 DEF ToJson, ToField, Encoded, Decoded
<1> QED
  BY <1>1, <1>2, <1>3 DEF FieldTypes

\* The invariant of both paths: the packet on the wire is the one the sender
\* makes, and the result is what was sent.
THEOREM PathsInvariant == FieldSpec => []PathsInv
<1>1. FieldInit => PathsInv
  BY DEF FieldInit, PathsInv, FieldRebuilt, JsonKept
<1>2. PathsInv /\ [FieldNext]_fieldVars => PathsInv'
  <2> SUFFICES ASSUME PathsInv, [FieldNext]_fieldVars
               PROVE  PathsInv'
    OBVIOUS
  <2> USE DEF PathsInv
  <2>1. CASE SendJson
    <3>2. route' = route /\ IsJson /\ result' = result /\ packet = <<>>
      BY <2>1 DEF SendJson
    <3>3. IsJson'
      BY <3>2 DEF IsJson
    <3>4. FieldRebuilt' /\ JsonKept'
      BY <3>2, <3>3 DEF FieldRebuilt, JsonKept, IsJson
    <3> QED
      BY <2>1, <3>2, <3>3, <3>4 DEF SendJson, Fitting
  <2>2. CASE ReceiveJson
    <3>1. route' = route /\ packet' = packet /\ IsJson /\ packet # <<>>
      BY <2>2 DEF ReceiveJson
    <3>2. IsJson' /\ FieldRebuilt'
      BY <3>1 DEF IsJson, FieldRebuilt
    <3> DEFINE sch == route.schema
    <3>3. sch \in Schemas /\ route.object \in Objects(sch)
      BY <3>1 DEF IsJson, JsonRoutes, DeltaRoutes
    <3>4. /\ DOMAIN route.object = DOMAIN sch
          /\ \A n \in DOMAIN sch : Converts(sch[n], route.object[n])
      BY <3>1 DEF Fitting
    <3>5. packet[1] = [n \in DOMAIN sch |-> Encoded(sch[n], ToField(sch[n], route.object[n]))]
      BY <3>1
    <3>6. result' = <<[n \in DOMAIN sch |-> ToJson(sch[n], Decoded(sch[n], packet[1][n]))]>>
      BY <2>2 DEF ReceiveJson
    <3>7. \A n \in DOMAIN sch : result'[1][n] =
            ToJson(sch[n], Decoded(sch[n], Encoded(sch[n], ToField(sch[n], route.object[n]))))
      BY <3>5, <3>6
    <3>8. \A n \in DOMAIN sch : sch[n] \in FieldTypes /\ IsJsonValue(route.object[n])
      BY <3>3, <3>4, PathsAssumption
    <3>9. \A n \in DOMAIN sch : result'[1][n] =
            IF IsFloat(sch[n]) THEN Decimal(Narrowed(sch[n], RealOf(route.object[n])))
                               ELSE route.object[n]
      BY <3>4, <3>7, <3>8, JsonFieldKept
    <3>10. DOMAIN result'[1] = DOMAIN sch
      BY <3>6
    <3>11. JsonKept'
      BY <3>1, <3>4, <3>9, <3>10 DEF JsonKept
    <3> QED
      BY <3>1, <3>2, <3>11 DEF Fitting, IsJson
  <2>3. CASE SendChange
    <3>1. route' = route /\ ~IsJson /\ ~IsJson' /\ packet = <<>> /\ result' = result
      BY <2>3 DEF SendChange, IsJson
    <3>2. FieldRebuilt' /\ JsonKept'
      BY <3>1 DEF FieldRebuilt, JsonKept
    <3> QED
      BY <2>3, <3>1, <3>2 DEF SendChange
  <2>4. CASE ReceiveChange
    <3>1. route' = route /\ ~IsJson /\ ~IsJson' /\ packet' = packet /\ packet # <<>>
      BY <2>4 DEF ReceiveChange, IsJson
    <3>2. PICK t \in Types : route.type = t /\ route.previous \in NumbersOf(t)
                               /\ route.current \in NumbersOf(t)
      BY <3>1 DEF IsJson, JsonRoutes, DeltaRoutes
    <3>3. result' = <<route.current>>
      BY <2>4, <3>1, <3>2, NumericRoundTrip DEF ReceiveChange
    <3>4. FieldRebuilt' /\ JsonKept'
      BY <3>1, <3>3 DEF FieldRebuilt, JsonKept
    <3> QED
      BY <3>1, <3>4
  <2>5. CASE UNCHANGED fieldVars
    BY <2>5 DEF fieldVars, FieldRebuilt, JsonKept, IsJson, Fitting
  <2> QED
    BY <2>1, <2>2, <2>3, <2>4, <2>5 DEF FieldNext
<1> QED
  BY <1>1, <1>2, PTL DEF FieldSpec

\* FieldRebuilt for all widths: a changed number arrives as it was.
THEOREM FieldsRebuilt == FieldSpec => []FieldRebuilt
<1>1. PathsInv => FieldRebuilt
  BY DEF PathsInv
<1> QED
  BY <1>1, PathsInvariant, PTL

\* JsonKept for all widths, schemas and objects: an accepted object arrives
\* as it was, up to the precision of floats.
THEOREM JsonObjectsKept == FieldSpec => []JsonKept
<1>1. PathsInv => JsonKept
  BY DEF PathsInv
<1> QED
  BY <1>1, PathsInvariant, PTL

-----------------------------------------------------------------------------
(* Recursive functions *)

\* A set of naturals that is not empty has a least element.
LEMMA Smallest ==
    ASSUME NEW T, T \subseteq Nat, T # {}
    PROVE  \E x \in T : \A y \in T : x <= y
<1> DEFINE R == OpToRel(<, Nat)
<1>1. \A a, b \in Nat : a < b => <<a, b>> \in R
  BY DEF OpToRel
<1>2. IsWellFoundedOn(R, Nat)
  BY NatLessThanWellFounded
<1> HIDE DEF R
<1>3. PICK x \in T : \A y \in T : ~ (<<y, x>> \in R)
  BY <1>2, WFMin
<1>4. ASSUME NEW y \in T PROVE x <= y
  <2>1. x \in Nat /\ y \in Nat
    OBVIOUS
  <2>2. ~(y < x)
    BY <1>1, <1>3, <2>1
  <2> QED
    BY <2>1, <2>2
<1> QED
  BY <1>4

\* Induction up to m, with a set in the place of the formula.
LEMMA Reaches ==
    ASSUME NEW m \in Nat, NEW G, 0 \in G, \A i \in 0 .. m - 1 : i \in G => i + 1 \in G
    PROVE  \A i \in 0 .. m : i \in G
<1> DEFINE T == {i \in 0 .. m : i \notin G}
<1>1. SUFFICES ASSUME T # {} PROVE FALSE
  OBVIOUS
<1>2. T \subseteq Nat
  OBVIOUS
<1> HIDE DEF T
<1>3. PICK x \in T : \A y \in T : x <= y
  BY <1>1, <1>2, Smallest
<1>4. x \in 0 .. m /\ x \notin G
  BY DEF T
<1>5. x - 1 \in 0 .. m - 1 /\ x - 1 \in 0 .. m /\ ~(x <= x - 1) /\ (x - 1) + 1 = x
  BY <1>4
<1>6. x - 1 \in G
  BY <1>3, <1>5 DEF T
<1> QED
  BY <1>4, <1>5, <1>6

\* f follows a table of steps from base, m times.
Iterates(f, base, step, m) ==
    f[0] = base /\ \A i \in 1 .. m : f[i] = step[i][f[i - 1]]

LEMMA Recursion ==
    ASSUME NEW m \in Nat, NEW S, NEW base \in S, NEW step \in [1 .. m -> [S -> S]]
    PROVE  \E f \in [0 .. m -> S] : Iterates(f, base, step, m)
<1> DEFINE G == {k \in 0 .. m : \E f \in [0 .. k -> S] : Iterates(f, base, step, k)}
<1>1. 0 \in G
  <2>1. [i \in 0 .. 0 |-> base] \in [0 .. 0 -> S]
    OBVIOUS
  <2>2. Iterates([i \in 0 .. 0 |-> base], base, step, 0)
    BY DEF Iterates
  <2> QED
    BY <2>1, <2>2
<1>2. ASSUME NEW k \in 0 .. m - 1, k \in G
      PROVE  k + 1 \in G
  <2>1. PICK f \in [0 .. k -> S] : Iterates(f, base, step, k)
    BY <1>2
  <2> DEFINE next == step[k + 1][f[k]]
             g == [i \in 0 .. k + 1 |-> IF i = k + 1 THEN next ELSE f[i]]
  <2>2. next \in S
    <3>1. k + 1 \in 1 .. m /\ k \in 0 .. k
      OBVIOUS
    <3>2. f[k] \in S
      BY <3>1
    <3>3. step[k + 1] \in [S -> S]
      BY <3>1
    <3> QED
      BY <3>2, <3>3
  <2>3. g \in [0 .. k + 1 -> S]
    <3> HIDE DEF next
    <3>1. \A i \in 0 .. k + 1 : i # k + 1 => i \in 0 .. k
      OBVIOUS
    <3> QED
      BY <2>2, <3>1
  <2>4. g[0] = base
    <3>1. 0 \in 0 .. k + 1 /\ 0 # k + 1
      OBVIOUS
    <3> QED
      BY <2>1, <3>1 DEF Iterates
  <2>5. ASSUME NEW i \in 1 .. k + 1 PROVE g[i] = step[i][g[i - 1]]
    <3>1. i \in 0 .. k + 1 /\ i - 1 \in 0 .. k + 1 /\ i - 1 # k + 1
      OBVIOUS
    <3>2. g[i - 1] = f[i - 1]
      BY <3>1
    <3>3. CASE i = k + 1
      BY <3>1, <3>2, <3>3
    <3>4. CASE i # k + 1
      <4>1. i \in 1 .. k
        BY <3>4
      <4>2. g[i] = f[i]
        BY <3>1, <3>4
      <4> QED
        BY <2>1, <3>2, <4>1, <4>2 DEF Iterates
    <3> QED
      BY <3>3, <3>4
  <2> HIDE DEF g
  <2>6. Iterates(g, base, step, k + 1)
    BY <2>4, <2>5 DEF Iterates
  <2>7. k + 1 \in 0 .. m
    OBVIOUS
  <2> QED
    BY <2>3, <2>6, <2>7
<1>3. \A i \in 0 .. m : i \in G
  <2> HIDE DEF G
  <2> QED
    BY <1>1, <1>2, Reaches
<1>4. m \in 0 .. m
  OBVIOUS
<1> QED
  BY <1>3, <1>4

-----------------------------------------------------------------------------
(* Lists *)

LEMMA Joins ==
    ASSUME NEW S, NEW s \in Seq(S), NEW t \in Seq(S)
    PROVE  /\ s \o t \in Seq(S) /\ Len(s \o t) = Len(s) + Len(t)
           /\ \A i \in 1 .. Len(s) : (s \o t)[i] = s[i]
           /\ \A i \in 1 .. Len(t) : (s \o t)[Len(s) + i] = t[i]
  OBVIOUS

LEMMA Slicing ==
    ASSUME NEW S, NEW s \in Seq(S), NEW a \in Nat, NEW b \in Nat, a <= b, b <= Len(s)
    PROVE  /\ SubSeq(s, a + 1, b) \in Seq(S)
           /\ Len(SubSeq(s, a + 1, b)) = b - a
           /\ \A i \in 1 .. b - a : SubSeq(s, a + 1, b)[i] = s[a + i]
  OBVIOUS

-----------------------------------------------------------------------------
(* Bytes and their bits *)

LEMMA Powers ==
    /\ PowerOfTwo \in [0 .. Bits -> Nat]
    /\ PowerOfTwo[0] = 1
    /\ \A k \in 1 .. Bits : PowerOfTwo[k] = 2 * PowerOfTwo[k - 1]
<1>0. Bits \in Nat
  BY FormatAssumption
<1> DEFINE double == [k \in 1 .. Bits |-> [x \in Nat |-> 2 * x]]
<1>1. double \in [1 .. Bits -> [Nat -> Nat]]
  OBVIOUS
<1> HIDE DEF double
<1>2. PICK f \in [0 .. Bits -> Nat] : Iterates(f, 1, double, Bits)
  BY <1>0, <1>1, Recursion
<1>3. f[0] = 1 /\ \A k \in 1 .. Bits : f[k] = 2 * f[k - 1]
  <2>1. ASSUME NEW k \in 1 .. Bits PROVE f[k] = 2 * f[k - 1]
    <3>1. k - 1 \in 0 .. Bits
      BY <1>0
    <3>2. f[k - 1] \in Nat
      BY <3>1
    <3>3. f[k] = double[k][f[k - 1]]
      BY <1>2 DEF Iterates
    <3> QED
      BY <3>2, <3>3 DEF double
  <2> QED
    BY <1>2, <2>1 DEF Iterates
<1>4. f = [k \in 0 .. Bits |-> IF k = 0 THEN 1 ELSE 2 * f[k - 1]]
  <2>1. \A k \in 0 .. Bits : k # 0 => k \in 1 .. Bits
    BY <1>0
  <2> QED
    BY <1>3, <2>1
<1>5. PowerOfTwo = [k \in 0 .. Bits |-> IF k = 0 THEN 1 ELSE 2 * PowerOfTwo[k - 1]]
  BY <1>4 DEF PowerOfTwo
<1>6. \A k \in 1 .. Bits : k \in 0 .. Bits /\ k # 0
  OBVIOUS
<1>7. PowerOfTwo[0] = 1 /\ \A k \in 1 .. Bits : PowerOfTwo[k] = 2 * PowerOfTwo[k - 1]
  <2>1. 0 \in 0 .. Bits
    BY <1>0
  <2> QED
    BY <1>5, <1>6, <2>1
<1>8. \A k \in 0 .. Bits : PowerOfTwo[k] = f[k]
  <2> DEFINE G == {k \in 0 .. Bits : PowerOfTwo[k] = f[k]}
  <2>1. 0 \in G
    BY <1>0, <1>3, <1>7
  <2>2. \A k \in 0 .. Bits - 1 : k \in G => k + 1 \in G
    <3> TAKE k \in 0 .. Bits - 1
    <3>1. k + 1 \in 1 .. Bits /\ k + 1 \in 0 .. Bits /\ (k + 1) - 1 = k
      BY <1>0
    <3> QED
      BY <1>3, <1>7, <3>1
  <2> HIDE DEF G
  <2>3. \A k \in 0 .. Bits : k \in G
    BY <1>0, <2>1, <2>2, Reaches
  <2> QED
    BY <2>3 DEF G
<1>9. DOMAIN PowerOfTwo = 0 .. Bits
  BY <1>5
<1> QED
  BY <1>2, <1>5, <1>7, <1>8, <1>9

\* A byte has more values than bits.
LEMMA RadixLarge == Radix \in Nat /\ Radix >= 3
<1>0. Bits \in Nat /\ Bits >= 2
  BY FormatAssumption
<1> DEFINE G == {k \in 0 .. Bits : PowerOfTwo[k] > k}
<1>1. 0 \in G
  BY <1>0, Powers
<1>2. \A k \in 0 .. Bits - 1 : k \in G => k + 1 \in G
  <2> TAKE k \in 0 .. Bits - 1
  <2>1. k + 1 \in 1 .. Bits /\ k + 1 \in 0 .. Bits /\ (k + 1) - 1 = k /\ k \in 0 .. Bits
    BY <1>0
  <2>2. PowerOfTwo[k + 1] = 2 * PowerOfTwo[k] /\ PowerOfTwo[k] \in Nat
    BY <2>1, Powers
  <2> QED
    BY <2>1, <2>2
<1> HIDE DEF G
<1>3. \A k \in 0 .. Bits : k \in G
  BY <1>0, <1>1, <1>2, Reaches
<1>4. Bits \in 0 .. Bits
  BY <1>0
<1>5. PowerOfTwo[Bits] > Bits
  BY <1>3, <1>4 DEF G
<1>6. PowerOfTwo[Bits] \in Nat
  BY <1>4, Powers
<1> QED
  BY <1>0, <1>5, <1>6 DEF Radix

\* s[b] is the byte without its last b bits.
Shifts(s, byte) ==
    /\ s \in [0 .. Bits -> Nat]
    /\ s[0] = byte
    /\ \A b \in 1 .. Bits : s[b] = s[b - 1] \div 2

OnesOf(s) == {b \in 0 .. Bits - 1 : s[b] % 2 = 1}

LEMMA BitsShift ==
    ASSUME NEW byte \in Nat
    PROVE  \E s : Shifts(s, byte) /\ BitsOf(byte) = OnesOf(s)
<1>0. Bits \in Nat
  BY FormatAssumption
<1> DEFINE half == [b \in 1 .. Bits |-> [x \in Nat |-> x \div 2]]
<1>1. half \in [1 .. Bits -> [Nat -> Nat]]
  OBVIOUS
<1> HIDE DEF half
<1>2. PICK f \in [0 .. Bits -> Nat] : Iterates(f, byte, half, Bits)
  BY <1>0, <1>1, Recursion
<1>3. f[0] = byte /\ \A b \in 1 .. Bits : f[b] = f[b - 1] \div 2
  <2>1. ASSUME NEW b \in 1 .. Bits PROVE f[b] = f[b - 1] \div 2
    <3>1. b - 1 \in 0 .. Bits
      BY <1>0
    <3>2. f[b - 1] \in Nat
      BY <3>1
    <3>3. f[b] = half[b][f[b - 1]]
      BY <1>2 DEF Iterates
    <3> QED
      BY <3>2, <3>3 DEF half
  <2> QED
    BY <1>2, <2>1 DEF Iterates
<1> DEFINE Eq(g) == g = [b \in 0 .. Bits |-> IF b = 0 THEN byte ELSE g[b - 1] \div 2]
           s == CHOOSE g : Eq(g)
<1>4. Eq(f)
  <2>1. \A b \in 0 .. Bits : b # 0 => b \in 1 .. Bits
    BY <1>0
  <2> QED
    BY <1>3, <2>1
<1>5. Eq(s)
  BY <1>4
<1>6. BitsOf(byte) = OnesOf(s)
  BY DEF BitsOf, OnesOf
<1> HIDE DEF s
<1>7. s[0] = byte /\ \A b \in 1 .. Bits : s[b] = s[b - 1] \div 2
  <2>1. 0 \in 0 .. Bits /\ \A b \in 1 .. Bits : b \in 0 .. Bits /\ b # 0
    BY <1>0
  <2> QED
    BY <1>5, <2>1
<1>8. \A b \in 0 .. Bits : s[b] = f[b]
  <2> DEFINE G == {b \in 0 .. Bits : s[b] = f[b]}
  <2>1. 0 \in G
    BY <1>0, <1>3, <1>7
  <2>2. \A b \in 0 .. Bits - 1 : b \in G => b + 1 \in G
    <3> TAKE b \in 0 .. Bits - 1
    <3>1. b + 1 \in 1 .. Bits /\ b + 1 \in 0 .. Bits /\ (b + 1) - 1 = b
      BY <1>0
    <3> QED
      BY <1>3, <1>7, <3>1
  <2> HIDE DEF G
  <2>3. \A b \in 0 .. Bits : b \in G
    BY <1>0, <2>1, <2>2, Reaches
  <2> QED
    BY <2>3 DEF G
<1>9. s \in [0 .. Bits -> Nat]
  BY <1>2, <1>5, <1>8
<1>10. Shifts(s, byte)
  BY <1>7, <1>9 DEF Shifts
<1> QED
  BY <1>6, <1>10

\* A byte is less than its place allows after each shift; none is left of it
\* at the end.
LEMMA ShiftsBelow ==
    ASSUME NEW byte \in Bytes, NEW s, Shifts(s, byte)
    PROVE  s[Bits] = 0
<1>0. Bits \in Nat
  BY FormatAssumption
<1> DEFINE G == {b \in 0 .. Bits : s[b] < PowerOfTwo[Bits - b]}
<1>1. 0 \in G
  <2>1. byte < PowerOfTwo[Bits] /\ s[0] = byte /\ Bits - 0 = Bits /\ 0 \in 0 .. Bits
    BY <1>0, RadixLarge DEF Bytes, Radix, Shifts
  <2> QED
    BY <2>1
<1>2. \A b \in 0 .. Bits - 1 : b \in G => b + 1 \in G
  <2> TAKE b \in 0 .. Bits - 1
  <2> DEFINE k == Bits - b
  <2>1. /\ b + 1 \in 1 .. Bits /\ b + 1 \in 0 .. Bits /\ (b + 1) - 1 = b /\ b \in 0 .. Bits
        /\ k \in 1 .. Bits /\ k - 1 = Bits - (b + 1) /\ k - 1 \in 0 .. Bits
    BY <1>0
  <2> HIDE DEF k
  <2>2. PowerOfTwo[k] = 2 * PowerOfTwo[k - 1] /\ PowerOfTwo[k - 1] \in Nat
    BY <2>1, Powers
  <2>3. s[b] \in Nat /\ s[b + 1] = s[b] \div 2
    BY <2>1 DEF Shifts
  <2>4. s[b] < 2 * PowerOfTwo[k - 1] => s[b + 1] < PowerOfTwo[k - 1]
    BY <2>2, <2>3
  <2> QED
    BY <2>1, <2>2, <2>4 DEF k
<1> HIDE DEF G
<1>3. \A b \in 0 .. Bits : b \in G
  BY <1>0, <1>1, <1>2, Reaches
<1>4. Bits \in 0 .. Bits /\ Bits - Bits = 0
  BY <1>0
<1>5. s[Bits] < PowerOfTwo[0]
  BY <1>3, <1>4 DEF G
<1>6. s[Bits] \in Nat
  BY <1>4 DEF Shifts
<1> QED
  BY <1>5, <1>6, Powers

\* No two bytes have the same bits.
LEMMA BitsApart ==
    ASSUME NEW x \in Bytes, NEW y \in Bytes, BitsOf(x) = BitsOf(y)
    PROVE  x = y
<1>0. Bits \in Nat /\ x \in Nat /\ y \in Nat
  BY FormatAssumption, RadixLarge DEF Bytes
<1>1. PICK s : Shifts(s, x) /\ BitsOf(x) = OnesOf(s)
  BY <1>0, BitsShift
<1>2. PICK t : Shifts(t, y) /\ BitsOf(y) = OnesOf(t)
  BY <1>0, BitsShift
<1>3. s[Bits] = 0 /\ t[Bits] = 0
  BY <1>1, <1>2, ShiftsBelow
<1> DEFINE G == {k \in 0 .. Bits : s[Bits - k] = t[Bits - k]}
<1>4. 0 \in G
  <2>1. Bits - 0 = Bits /\ 0 \in 0 .. Bits
    BY <1>0
  <2> QED
    BY <1>3, <2>1
<1>5. \A k \in 0 .. Bits - 1 : k \in G => k + 1 \in G
  <2> TAKE k \in 0 .. Bits - 1
  <2> DEFINE b == Bits - (k + 1)
  <2>1. /\ b \in 0 .. Bits - 1 /\ b \in 0 .. Bits /\ b + 1 = Bits - k
        /\ b + 1 \in 1 .. Bits /\ (b + 1) - 1 = b /\ k + 1 \in 0 .. Bits
    BY <1>0
  <2> HIDE DEF b
  <2>2. /\ s[b] \in Nat /\ s[b + 1] = s[b] \div 2
        /\ t[b] \in Nat /\ t[b + 1] = t[b] \div 2
    BY <1>1, <1>2, <2>1 DEF Shifts
  <2>3. s[b] % 2 = 1 <=> t[b] % 2 = 1
    BY <1>1, <1>2, <2>1 DEF OnesOf
  <2>4. s[b + 1] = t[b + 1] => s[b] = t[b]
    BY <2>2, <2>3
  <2> QED
    BY <2>1, <2>4 DEF b
<1> HIDE DEF G
<1>6. \A k \in 0 .. Bits : k \in G
  BY <1>0, <1>4, <1>5, Reaches
<1>7. Bits \in 0 .. Bits /\ Bits - Bits = 0
  BY <1>0
<1>8. s[0] = t[0]
  BY <1>6, <1>7 DEF G
<1> QED
  BY <1>1, <1>2, <1>8 DEF Shifts

\* Every set of bits is that of a byte, built from the highest bit down.
LEMMA BytesAreBits ==
    ASSUME NEW bits, bits \subseteq 0 .. Bits - 1
    PROVE  ByteOf(bits) \in Bytes /\ BitsOf(ByteOf(bits)) = bits
<1>0. Bits \in Nat
  BY FormatAssumption
<1> DEFINE low(k) == IF Bits - k \in bits THEN 1 ELSE 0
           grow == [k \in 1 .. Bits |-> [x \in Nat |-> 2 * x + low(k)]]
<1>1. grow \in [1 .. Bits -> [Nat -> Nat]]
  OBVIOUS
<1>2. \A k \in 1 .. Bits : \A x \in Nat : grow[k][x] = 2 * x + low(k)
  OBVIOUS
<1> HIDE DEF grow
<1>3. PICK v \in [0 .. Bits -> Nat] : Iterates(v, 0, grow, Bits)
  BY <1>0, <1>1, Recursion
<1>4. \A k \in 1 .. Bits : v[k - 1] \in Nat /\ v[k] \in Nat /\ v[k] = 2 * v[k - 1] + low(k)
  <2> TAKE k \in 1 .. Bits
  <2>1. k - 1 \in 0 .. Bits /\ k \in 0 .. Bits
    BY <1>0
  <2>2. v[k] = grow[k][v[k - 1]]
    BY <1>3 DEF Iterates
  <2> QED
    BY <1>2, <2>1, <2>2
<1>5. v[0] = 0
  BY <1>3 DEF Iterates
<1>6. v[Bits] \in Bytes
  <2> DEFINE G == {k \in 0 .. Bits : v[k] < PowerOfTwo[k]}
  <2>1. 0 \in G
    BY <1>0, <1>5, Powers
  <2>2. \A k \in 0 .. Bits - 1 : k \in G => k + 1 \in G
    <3> TAKE k \in 0 .. Bits - 1
    <3>1. k + 1 \in 1 .. Bits /\ k + 1 \in 0 .. Bits /\ (k + 1) - 1 = k /\ k \in 0 .. Bits
      BY <1>0
    <3>2. PowerOfTwo[k + 1] = 2 * PowerOfTwo[k] /\ PowerOfTwo[k] \in Nat
      BY <3>1, Powers
    <3>3. v[k] \in Nat /\ v[k + 1] = 2 * v[k] + low(k + 1)
      BY <1>4, <3>1
    <3>4. low(k + 1) \in {0, 1}
      OBVIOUS
    <3> HIDE DEF low
    <3>5. v[k] < PowerOfTwo[k] => v[k + 1] < PowerOfTwo[k + 1]
      BY <3>2, <3>3, <3>4
    <3> QED
      BY <3>1, <3>5
  <2> HIDE DEF G
  <2>3. \A k \in 0 .. Bits : k \in G
    BY <1>0, <2>1, <2>2, Reaches
  <2>4. Bits \in 0 .. Bits
    BY <1>0
  <2>5. v[Bits] < PowerOfTwo[Bits]
    BY <2>3, <2>4 DEF G
  <2>6. v[Bits] \in Nat /\ PowerOfTwo[Bits] \in Nat
    BY <2>4, <1>3, Powers
  <2> QED
    BY <2>5, <2>6 DEF Bytes, Radix
<1>7. BitsOf(v[Bits]) = bits
  <2>0. v[Bits] \in Nat
    BY <1>6, RadixLarge DEF Bytes
  <2>1. PICK s : Shifts(s, v[Bits]) /\ BitsOf(v[Bits]) = OnesOf(s)
    BY <2>0, BitsShift
  <2> DEFINE G == {b \in 0 .. Bits : s[b] = v[Bits - b]}
  <2>2. 0 \in G
    <3>1. Bits - 0 = Bits /\ 0 \in 0 .. Bits
      BY <1>0
    <3> QED
      BY <2>1, <3>1 DEF Shifts
  <2>3. \A b \in 0 .. Bits - 1 : b \in G => b + 1 \in G
    <3> TAKE b \in 0 .. Bits - 1
    <3> DEFINE k == Bits - b
    <3>1. /\ b + 1 \in 1 .. Bits /\ b + 1 \in 0 .. Bits /\ (b + 1) - 1 = b
          /\ k \in 1 .. Bits /\ k - 1 = Bits - (b + 1)
      BY <1>0
    <3> HIDE DEF k
    <3>2. s[b + 1] = s[b] \div 2
      BY <2>1, <3>1 DEF Shifts
    <3>3. v[k - 1] \in Nat /\ v[k] = 2 * v[k - 1] + low(k) /\ low(k) \in {0, 1}
      BY <1>4, <3>1
    <3> HIDE DEF low
    <3>4. v[k] \div 2 = v[k - 1]
      BY <3>3
    <3> QED
      BY <3>1, <3>2, <3>4 DEF k
  <2> HIDE DEF G
  <2>4. \A b \in 0 .. Bits : b \in G
    BY <1>0, <2>2, <2>3, Reaches
  <2>5. ASSUME NEW b \in 0 .. Bits - 1 PROVE s[b] % 2 = 1 <=> b \in bits
    <3> DEFINE k == Bits - b
    <3>1. b \in 0 .. Bits /\ k \in 1 .. Bits /\ Bits - k = b
      BY <1>0
    <3>2. s[b] = v[k]
      BY <2>4, <3>1 DEF G
    <3> HIDE DEF k
    <3>3. v[k - 1] \in Nat /\ v[k] = 2 * v[k - 1] + low(k)
      BY <1>4, <3>1
    <3>4. low(k) = IF b \in bits THEN 1 ELSE 0
      BY <3>1
    <3> HIDE DEF low
    <3> QED
      BY <3>2, <3>3, <3>4
  <2> QED
    BY <2>1, <2>5 DEF OnesOf
<1> QED
  BY <1>6, <1>7 DEF ByteOf

-----------------------------------------------------------------------------
(* The CRC *)

\* No two registers are shifted to the same one: the highest bit tells
\* whether the lowest was 1, since it is one of the polynomial's.
LEMMA ShiftApart ==
    ASSUME NEW c, NEW d, c \subseteq CrcBits, d \subseteq CrcBits
    PROVE  /\ Shift(c) \subseteq CrcBits
           /\ Shift(c) = Shift(d) => c = d
<1> DEFINE top == CrcBytes * Bits - 1
           down(x) == {b - 1 : b \in x \ {0}}
<1>1. top \in Nat /\ top \in Poly /\ Poly \subseteq 0 .. top /\ CrcBits = 0 .. top
  <2>1. Poly \subseteq 0 .. top /\ top \in Poly /\ CrcBits = 0 .. top
    BY EnvelopeAssumption DEF CrcBits
  <2>2. top \in 0 .. top
    BY <2>1
  <2> QED
    BY <2>1, <2>2
<1> HIDE DEF top
<1>2. ASSUME NEW x, x \subseteq 0 .. top
      PROVE  /\ down(x) \subseteq 0 .. top - 1
             /\ \A b \in 1 .. top : b \in x <=> b - 1 \in down(x)
  <2>1. \A b \in x : b \in 0 .. top
    BY <1>2
  <2>2. ASSUME NEW a \in down(x) PROVE a \in 0 .. top - 1 /\ a + 1 \in x
    <3>1. PICK b \in x \ {0} : a = b - 1
      OBVIOUS
    <3>2. b \in 1 .. top
      BY <1>1, <2>1, <3>1
    <3>3. a + 1 = b
      BY <3>1, <3>2
    <3> QED
      BY <1>1, <3>1, <3>2, <3>3
  <2>3. ASSUME NEW b \in 1 .. top, b \in x PROVE b - 1 \in down(x)
    <3>1. b # 0
      OBVIOUS
    <3> QED
      BY <2>3, <3>1
  <2>4. \A b \in 1 .. top : (b - 1) + 1 = b
    OBVIOUS
  <2> HIDE DEF down
  <2>5. \A b \in 1 .. top : b - 1 \in down(x) => b \in x
    BY <2>2, <2>4
  <2> QED
    BY <2>2, <2>3, <2>5
<1>3. /\ Shift(c) = IF 0 \in c THEN SymDiff(down(c), Poly) ELSE down(c)
      /\ Shift(d) = IF 0 \in d THEN SymDiff(down(d), Poly) ELSE down(d)
  BY DEF Shift
<1>4. down(c) \subseteq 0 .. top - 1 /\ down(d) \subseteq 0 .. top - 1
  BY <1>1, <1>2
<1>5. top \notin down(c) /\ top \notin down(d) /\ 0 .. top - 1 \subseteq 0 .. top
  BY <1>1, <1>4
<1> HIDE DEF down
<1>6. Shift(c) \subseteq CrcBits
  BY <1>1, <1>3, <1>4, <1>5 DEF SymDiff
<1>7. ASSUME Shift(c) = Shift(d) PROVE c = d
  <2>1. 0 \in c <=> 0 \in d
    BY <1>1, <1>3, <1>5, <1>7 DEF SymDiff
  <2>2. down(c) = down(d)
    BY <1>3, <1>7, <2>1 DEF SymDiff
  <2>3. \A b \in 1 .. top : b \in c <=> b \in d
    BY <1>1, <1>2, <2>2
  <2>4. \A b \in 0 .. top : b = 0 \/ b \in 1 .. top
    BY <1>1
  <2>5. \A b \in 0 .. top : b \in c <=> b \in d
    BY <2>1, <2>3, <2>4
  <2>6. c \subseteq 0 .. top /\ d \subseteq 0 .. top
    BY <1>1
  <2> QED
    BY <2>5, <2>6
<1> QED
  BY <1>6, <1>7

MixSteps(f, crc, byte) ==
    /\ f \in [0 .. Bits -> SUBSET CrcBits]
    /\ f[0] = SymDiff(crc, BitsOf(byte))
    /\ \A k \in 1 .. Bits : f[k] = Shift(f[k - 1])

LEMMA BitsInRegister ==
    ASSUME NEW byte \in Nat PROVE BitsOf(byte) \subseteq CrcBits
<1>1. Bits \in Nat \ {0} /\ CrcBytes \in Nat \ {0}
  BY FormatAssumption, EnvelopeAssumption
<1>2. CrcBytes * Bits >= Bits /\ CrcBytes * Bits \in Nat
  <2>1. CrcBytes - 1 \in Nat /\ (CrcBytes - 1) * Bits \in Nat
    BY <1>1
  <2>2. CrcBytes * Bits = (CrcBytes - 1) * Bits + Bits
    BY <1>1
  <2> QED
    BY <1>1, <2>1, <2>2
<1>3. BitsOf(byte) \subseteq 0 .. Bits - 1
  BY DEF BitsOf
<1> QED
  BY <1>1, <1>2, <1>3 DEF CrcBits

LEMMA MixedSteps ==
    ASSUME NEW crc, crc \subseteq CrcBits, NEW byte \in Nat
    PROVE  \E f : MixSteps(f, crc, byte) /\ Mixed(crc, byte) = f[Bits]
<1>0. Bits \in Nat
  BY FormatAssumption
<1> DEFINE S == SUBSET CrcBits
           base == SymDiff(crc, BitsOf(byte))
           shift == [k \in 1 .. Bits |-> [x \in S |-> Shift(x)]]
<1>1. base \in S
  BY BitsInRegister DEF SymDiff
<1>2. shift \in [1 .. Bits -> [S -> S]]
  <2>1. \A x \in S : Shift(x) \in S
    BY ShiftApart
  <2> HIDE DEF S
  <2> QED
    BY <2>1
<1>3. \A k \in 1 .. Bits : \A x \in S : shift[k][x] = Shift(x)
  OBVIOUS
<1> HIDE DEF S, base, shift
<1>4. PICK f \in [0 .. Bits -> S] : Iterates(f, base, shift, Bits)
  BY <1>0, <1>1, <1>2, Recursion
<1>5. f[0] = base /\ \A k \in 1 .. Bits : f[k] = Shift(f[k - 1])
  <2>1. \A k \in 1 .. Bits : k - 1 \in 0 .. Bits
    BY <1>0
  <2> QED
    BY <1>3, <1>4, <2>1 DEF Iterates
<1> DEFINE Eq(g) == g = [k \in 0 .. Bits |-> IF k = 0 THEN base ELSE Shift(g[k - 1])]
           s == CHOOSE g : Eq(g)
<1>6. Eq(f)
  <2>1. \A k \in 0 .. Bits : k # 0 => k \in 1 .. Bits
    BY <1>0
  <2> QED
    BY <1>5, <2>1
<1>7. Eq(s)
  BY <1>6
<1>8. Mixed(crc, byte) = s[Bits]
  BY DEF Mixed, base
<1> HIDE DEF s
<1>9. s[0] = base /\ \A k \in 1 .. Bits : s[k] = Shift(s[k - 1])
  <2>1. 0 \in 0 .. Bits /\ \A k \in 1 .. Bits : k \in 0 .. Bits /\ k # 0
    BY <1>0
  <2> QED
    BY <1>7, <2>1
<1>10. \A k \in 0 .. Bits : s[k] \in S
  <2> DEFINE G == {k \in 0 .. Bits : s[k] \in S}
  <2>1. 0 \in G
    BY <1>0, <1>1, <1>9
  <2>2. \A k \in 0 .. Bits - 1 : k \in G => k + 1 \in G
    <3> TAKE k \in 0 .. Bits - 1
    <3>1. k + 1 \in 1 .. Bits /\ k + 1 \in 0 .. Bits /\ (k + 1) - 1 = k
      BY <1>0
    <3>2. s[k] \in S => Shift(s[k]) \in S
      BY ShiftApart DEF S
    <3> QED
      BY <1>9, <3>1, <3>2
  <2> HIDE DEF G
  <2>3. \A k \in 0 .. Bits : k \in G
    BY <1>0, <2>1, <2>2, Reaches
  <2> QED
    BY <2>3 DEF G
<1>11. MixSteps(s, crc, byte)
  BY <1>7, <1>9, <1>10 DEF MixSteps, S, base
<1> QED
  BY <1>8, <1>11

\* Neither the register nor the byte mixed into it is lost.
LEMMA MixedApart ==
    ASSUME NEW c, NEW d, c \subseteq CrcBits, d \subseteq CrcBits,
           NEW x \in Nat, NEW y \in Nat
    PROVE  /\ Mixed(c, x) \subseteq CrcBits
           /\ Mixed(c, x) = Mixed(d, y) => SymDiff(c, BitsOf(x)) = SymDiff(d, BitsOf(y))
<1>0. Bits \in Nat /\ Bits \in 0 .. Bits
  BY FormatAssumption
<1>1. PICK f : MixSteps(f, c, x) /\ Mixed(c, x) = f[Bits]
  BY MixedSteps
<1>2. PICK g : MixSteps(g, d, y) /\ Mixed(d, y) = g[Bits]
  BY MixedSteps
<1>3. ASSUME Mixed(c, x) = Mixed(d, y)
      PROVE  f[0] = g[0]
  <2> DEFINE G == {k \in 0 .. Bits : f[Bits - k] = g[Bits - k]}
  <2>1. 0 \in G
    <3>1. Bits - 0 = Bits /\ 0 \in 0 .. Bits
      BY <1>0
    <3> QED
      BY <1>1, <1>2, <1>3, <3>1
  <2>2. \A k \in 0 .. Bits - 1 : k \in G => k + 1 \in G
    <3> TAKE k \in 0 .. Bits - 1
    <3> DEFINE b == Bits - (k + 1)
    <3>1. /\ b \in 0 .. Bits /\ b + 1 = Bits - k
          /\ b + 1 \in 1 .. Bits /\ (b + 1) - 1 = b /\ k + 1 \in 0 .. Bits
      BY <1>0
    <3> HIDE DEF b
    <3>2. /\ f[b + 1] = Shift(f[b]) /\ g[b + 1] = Shift(g[b])
          /\ f[b] \subseteq CrcBits /\ g[b] \subseteq CrcBits
      BY <1>1, <1>2, <3>1 DEF MixSteps
    <3>3. f[b + 1] = g[b + 1] => f[b] = g[b]
      BY <3>2, ShiftApart
    <3> QED
      BY <3>1, <3>3 DEF b
  <2> HIDE DEF G
  <2>3. \A k \in 0 .. Bits : k \in G
    BY <1>0, <2>1, <2>2, Reaches
  <2>4. Bits - Bits = 0
    BY <1>0
  <2> QED
    BY <1>0, <2>3, <2>4 DEF G
<1>4. Mixed(c, x) \subseteq CrcBits
  BY <1>0, <1>1 DEF MixSteps
<1> QED
  BY <1>1, <1>2, <1>3, <1>4 DEF MixSteps

RegisterSteps(f, data) ==
    /\ f \in [0 .. Len(data) -> SUBSET CrcBits]
    /\ f[0] = CrcBits
    /\ \A n \in 1 .. Len(data) : f[n] = Mixed(f[n - 1], data[n])

LEMMA RegisterUnfolds ==
    ASSUME NEW data \in Seq(Nat)
    PROVE  \E f : RegisterSteps(f, data) /\ Register(data) = f[Len(data)]
<1> DEFINE L == Len(data)
           S == SUBSET CrcBits
           mix == [n \in 1 .. L |-> Mixing(data[n])]
<1>0. L \in Nat /\ \A n \in 1 .. L : data[n] \in Nat
  OBVIOUS
<1>1. CrcBits \in S /\ \A n \in 1 .. L : \A x \in S : Mixed(x, data[n]) \in S
  BY <1>0, MixedApart
<1>2. /\ mix \in [1 .. L -> [S -> S]]
      /\ \A n \in 1 .. L : mix[n] = Mixing(data[n])
      /\ \A n \in 1 .. L : \A x \in S : Mixing(data[n])[x] = Mixed(x, data[n])
  <2>1. \A n \in 1 .. L : Mixing(data[n]) = [x \in S |-> Mixed(x, data[n])]
    BY DEF Mixing
  <2> HIDE DEF S, L
  <2> QED
    BY <1>1, <2>1
<1>3. \A n \in 1 .. L : \A x \in S : Mixing(data[n])[x] \in S
  BY <1>1, <1>2
<1> HIDE DEF S, mix, L
<1>4. PICK f \in [0 .. L -> S] : Iterates(f, CrcBits, mix, L)
  BY <1>0, <1>1, <1>2, Recursion
<1>5. f[0] = CrcBits /\ \A n \in 1 .. L : f[n] = Mixing(data[n])[f[n - 1]]
  <2>1. \A n \in 1 .. L : n - 1 \in 0 .. L
    BY <1>0
  <2> QED
    BY <1>2, <1>4, <2>1 DEF Iterates
<1> DEFINE Eq(g) == g = [n \in 0 .. L |-> IF n = 0 THEN CrcBits ELSE Mixing(data[n])[g[n - 1]]]
           s == CHOOSE g : Eq(g)
<1>6. Eq(f)
  <2>1. \A n \in 0 .. L : n # 0 => n \in 1 .. L
    BY <1>0
  <2> QED
    BY <1>5, <2>1
<1>7. Eq(s)
  BY <1>6
<1>8. Register(data) = s[L]
  BY DEF Register, L
<1> HIDE DEF s
<1>9. s[0] = CrcBits /\ \A n \in 1 .. L : s[n] = Mixing(data[n])[s[n - 1]]
  <2>1. 0 \in 0 .. L /\ \A n \in 1 .. L : n \in 0 .. L /\ n # 0
    BY <1>0
  <2> QED
    BY <1>7, <2>1
<1>10. \A n \in 0 .. L : s[n] \in S
  <2> DEFINE G == {n \in 0 .. L : s[n] \in S}
  <2>1. 0 \in G
    BY <1>0, <1>1, <1>9
  <2>2. \A n \in 0 .. L - 1 : n \in G => n + 1 \in G
    <3> TAKE n \in 0 .. L - 1
    <3>1. n + 1 \in 1 .. L /\ n + 1 \in 0 .. L /\ (n + 1) - 1 = n
      BY <1>0
    <3> QED
      BY <1>3, <1>9, <3>1
  <2> HIDE DEF G
  <2>3. \A n \in 0 .. L : n \in G
    BY <1>0, <2>1, <2>2, Reaches
  <2> QED
    BY <2>3 DEF G
<1>12. \A n \in 1 .. L : s[n] = Mixed(s[n - 1], data[n])
  <2>1. \A n \in 1 .. L : n - 1 \in 0 .. L
    BY <1>0
  <2> QED
    BY <1>2, <1>9, <1>10, <2>1
<1>13. RegisterSteps(s, data)
  BY <1>7, <1>9, <1>10, <1>12 DEF RegisterSteps, S, L
<1> QED
  BY <1>8, <1>13 DEF L

\* A single byte that changes shows in the register, wherever it is.
LEMMA ChangeShows ==
    ASSUME NEW data \in Seq(Bytes), NEW i \in 1 .. Len(data), NEW b \in Bytes,
           b # data[i]
    PROVE  Register([data EXCEPT ![i] = b]) # Register(data)
<1> DEFINE L == Len(data)
           new == [data EXCEPT ![i] = b]
<1>0. /\ Bytes \subseteq Nat /\ L \in Nat /\ data \in Seq(Nat) /\ new \in Seq(Nat)
      /\ Len(new) = L /\ new[i] = b /\ i \in 1 .. L
      /\ \A n \in 1 .. L : new[n] \in Nat /\ data[n] \in Nat /\ (n # i => new[n] = data[n])
  <2>1. Bytes \subseteq Nat
    BY RadixLarge DEF Bytes
  <2>2. new \in Seq(Bytes) /\ Len(new) = L /\ new[i] = b
    OBVIOUS
  <2>3. \A n \in 1 .. L : new[n] \in Bytes /\ data[n] \in Bytes /\ (n # i => new[n] = data[n])
    OBVIOUS
  <2> HIDE DEF new
  <2>4. L \in Nat /\ i \in 1 .. L
    OBVIOUS
  <2>5. data \in Seq(Nat) /\ new \in Seq(Nat)
    BY <2>1, <2>2, SeqMonotonic
  <2> HIDE DEF L
  <2> QED
    BY <2>1, <2>2, <2>3, <2>4, <2>5
<1> HIDE DEF new, L
<1>1. PICK f : RegisterSteps(f, data) /\ Register(data) = f[L]
  BY <1>0, RegisterUnfolds DEF L
<1>2. PICK g : RegisterSteps(g, new) /\ Register(new) = g[L]
  BY <1>0, RegisterUnfolds
<1>3. /\ \A n \in 0 .. L : f[n] \subseteq CrcBits /\ g[n] \subseteq CrcBits
      /\ \A n \in 1 .. L : f[n] = Mixed(f[n - 1], data[n]) /\ g[n] = Mixed(g[n - 1], new[n])
      /\ f[0] = g[0]
  BY <1>0, <1>1, <1>2 DEF RegisterSteps, L
<1>4. \A n \in 0 .. i - 1 : f[n] = g[n]
  <2> DEFINE G == {n \in 0 .. i - 1 : f[n] = g[n]}
  <2>1. 0 \in G
    BY <1>0, <1>3
  <2>2. \A n \in 0 .. (i - 1) - 1 : n \in G => n + 1 \in G
    <3> TAKE n \in 0 .. (i - 1) - 1
    <3>1. n + 1 \in 1 .. L /\ n + 1 # i /\ n + 1 \in 0 .. i - 1 /\ (n + 1) - 1 = n
      BY <1>0
    <3>2. /\ f[n + 1] = Mixed(f[n], data[n + 1]) /\ g[n + 1] = Mixed(g[n], new[n + 1])
          /\ new[n + 1] = data[n + 1]
      BY <1>0, <1>3, <3>1
    <3> QED
      BY <3>1, <3>2
  <2> HIDE DEF G
  <2>3. i - 1 \in Nat
    BY <1>0
  <2>4. \A n \in 0 .. i - 1 : n \in G
    BY <2>1, <2>2, <2>3, Reaches
  <2> QED
    BY <2>4 DEF G
<1>5. f[i] # g[i]
  <2>1. i - 1 \in 0 .. i - 1 /\ i - 1 \in 0 .. L
    BY <1>0
  <2>2. f[i - 1] = g[i - 1] /\ f[i - 1] \subseteq CrcBits
    BY <1>3, <1>4, <2>1
  <2>3. f[i] = Mixed(f[i - 1], data[i]) /\ g[i] = Mixed(f[i - 1], b)
    BY <1>0, <1>3, <2>2
  <2>4. data[i] \in Nat /\ b \in Nat /\ data[i] \in Bytes
    BY <1>0
  <2>5. SUFFICES ASSUME f[i] = g[i] PROVE FALSE
    OBVIOUS
  <2> DEFINE c == f[i - 1]
             x == data[i]
  <2>8. c \subseteq CrcBits /\ x \in Nat /\ b \in Nat
    BY <2>2, <2>4
  <2>10. Mixed(c, x) = Mixed(c, b)
    BY <2>2, <2>3, <2>5
  <2> HIDE DEF c, x
  <2>11. Mixed(c, x) = Mixed(c, b) => SymDiff(c, BitsOf(x)) = SymDiff(c, BitsOf(b))
    BY <2>8, MixedApart
  <2>9. SymDiff(c, BitsOf(x)) = SymDiff(c, BitsOf(b))
    BY <2>10, <2>11
  <2>6. SymDiff(f[i - 1], BitsOf(data[i])) = SymDiff(f[i - 1], BitsOf(b))
    BY <2>9 DEF c, x
  <2>7. BitsOf(data[i]) = BitsOf(b)
    BY <2>6 DEF SymDiff
  <2> QED
    BY <2>4, <2>7, BitsApart
<1>6. \A n \in 0 .. L - i : f[i + n] # g[i + n]
  <2> DEFINE G == {n \in 0 .. L - i : f[i + n] # g[i + n]}
  <2>1. 0 \in G
    <3>1. i + 0 = i /\ 0 \in 0 .. L - i
      BY <1>0
    <3> QED
      BY <1>5, <3>1
  <2>2. \A n \in 0 .. (L - i) - 1 : n \in G => n + 1 \in G
    <3> TAKE n \in 0 .. (L - i) - 1
    <3> DEFINE k == i + n
    <3>1. /\ k \in 0 .. L /\ k + 1 \in 1 .. L /\ k + 1 # i /\ n + 1 \in 0 .. L - i
          /\ (k + 1) - 1 = k /\ i + (n + 1) = k + 1
      BY <1>0
    <3> HIDE DEF k
    <3>2. /\ f[k + 1] = Mixed(f[k], data[k + 1]) /\ g[k + 1] = Mixed(g[k], data[k + 1])
          /\ data[k + 1] \in Nat
      BY <1>0, <1>3, <3>1
    <3>3. f[k] \subseteq CrcBits /\ g[k] \subseteq CrcBits
      BY <1>3, <3>1
    <3> DEFINE c == f[k]
               d == g[k]
               x == data[k + 1]
    <3>6. c \subseteq CrcBits /\ d \subseteq CrcBits /\ x \in Nat
      BY <3>2, <3>3
    <3> HIDE DEF c, d, x
    <3>4. Mixed(c, x) = Mixed(d, x) => SymDiff(c, BitsOf(x)) = SymDiff(d, BitsOf(x))
      BY <3>6, MixedApart
    <3>7. Mixed(c, x) = Mixed(d, x) => c = d
      BY <3>4 DEF SymDiff
    <3>5. f[k + 1] = g[k + 1] => f[k] = g[k]
      BY <3>2, <3>7 DEF c, d, x
    <3> QED
      BY <3>1, <3>5 DEF k
  <2> HIDE DEF G
  <2>3. L - i \in Nat
    BY <1>0
  <2>4. \A n \in 0 .. L - i : n \in G
    BY <2>1, <2>2, <2>3, Reaches
  <2> QED
    BY <2>4 DEF G
<1>7. L - i \in 0 .. L - i /\ i + (L - i) = L
  BY <1>0
<1> QED
  BY <1>1, <1>2, <1>6, <1>7 DEF new

\* The bits of a register that go into its k-th byte.
Slice(crc, k) == {b - (k - 1) * Bits : b \in crc \cap ((k - 1) * Bits .. k * Bits - 1)}

LEMMA Slices ==
    ASSUME NEW c, NEW d, c \subseteq CrcBits, d \subseteq CrcBits
    PROVE  /\ \A k \in 1 .. CrcBytes : Slice(c, k) \subseteq 0 .. Bits - 1
           /\ (\A k \in 1 .. CrcBytes : Slice(c, k) = Slice(d, k)) => c \subseteq d
<1>0. Bits \in Nat \ {0} /\ CrcBytes \in Nat \ {0}
  BY FormatAssumption, EnvelopeAssumption
<1>1. ASSUME NEW k \in 1 .. CrcBytes
      PROVE  Slice(c, k) \subseteq 0 .. Bits - 1
  <2> DEFINE low == (k - 1) * Bits
  <2>1. low \in Nat /\ k * Bits = low + Bits
    BY <1>0
  <2> HIDE DEF low
  <2> DEFINE high == k * Bits - 1
  <2>2. high = low + Bits - 1
    BY <1>0, <2>1
  <2>3. Slice(c, k) = {b - low : b \in c \cap (low .. high)}
    BY DEF Slice, low
  <2> HIDE DEF high
  <2> QED
    BY <1>0, <2>1, <2>2, <2>3
<1>2. ASSUME \A k \in 1 .. CrcBytes : Slice(c, k) = Slice(d, k), NEW b \in c
      PROVE  b \in d
  <2> DEFINE q == b \div Bits
             k == q + 1
             low == (k - 1) * Bits
  <2>1. b \in 0 .. CrcBytes * Bits - 1
    BY <1>2 DEF CrcBits
  <2>2. CrcBytes * Bits \in Nat /\ b \in Nat
    BY <1>0, <2>1
  <2>3. b \div Bits \in Nat /\ b = Bits * (b \div Bits) + (b % Bits) /\ b % Bits \in 0 .. Bits - 1
    BY <1>0, <2>2
  <2>4. b \div Bits < CrcBytes
    <3> SUFFICES ASSUME ~(q < CrcBytes) PROVE FALSE
      OBVIOUS
    <3>1. q \in Nat /\ q >= CrcBytes
      BY <1>0, <2>3
    <3>2. Bits * q <= b
      BY <1>0, <2>2, <2>3
    <3> HIDE DEF q
    <3>3. Bits * q >= CrcBytes * Bits
      <4>1. q - CrcBytes \in Nat
        BY <1>0, <3>1
      <4>2. Bits * (q - CrcBytes) \in Nat /\ Bits * (q - CrcBytes) = Bits * q - CrcBytes * Bits
        BY <1>0, <4>1, <3>1
      <4>3. Bits * q \in Nat
        BY <1>0, <3>1
      <4> QED
        BY <2>2, <4>2, <4>3
    <3>4. Bits * q \in Nat
      BY <1>0, <3>1
    <3> QED
      BY <2>1, <2>2, <3>2, <3>3, <3>4
  <2>13. q \in Nat /\ b = Bits * q + (b % Bits) /\ q < CrcBytes
    BY <2>3, <2>4
  <2> HIDE DEF q
  <2>5. k \in 1 .. CrcBytes /\ k - 1 = q
    BY <1>0, <2>13
  <2>14. q * Bits \in Nat /\ (q + 1) * Bits = q * Bits + Bits /\ Bits * q = q * Bits
    BY <1>0, <2>13
  <2>6. low = q * Bits /\ low \in Nat /\ k * Bits = low + Bits
    BY <2>5, <2>14
  <2>7. b \in low .. k * Bits - 1
    BY <1>0, <2>2, <2>3, <2>6, <2>13, <2>14
  <2> HIDE DEF k, low
  <2>8. b - low \in Slice(c, k)
    BY <2>7 DEF Slice, low
  <2>9. b - low \in Slice(d, k)
    BY <1>2, <2>5, <2>8
  <2>10. PICK a \in d \cap (low .. k * Bits - 1) : b - low = a - low
    BY <2>9 DEF Slice, low
  <2>11. a \in low .. k * Bits - 1 /\ k * Bits \in Nat
    BY <1>0, <2>5, <2>10
  <2>12. a = b
    BY <2>2, <2>6, <2>10, <2>11
  <2> QED
    BY <2>10, <2>12
<1> QED
  BY <1>1, <1>2

LEMMA CrcFields ==
    ASSUME NEW data \in Seq(Bytes)
    PROVE  /\ Crc(data) \subseteq CrcBits /\ Register(data) \subseteq CrcBits
           /\ CrcField(data) \in Seq(Bytes) /\ Len(CrcField(data)) = CrcBytes
           /\ \A k \in 1 .. CrcBytes : BitsOf(CrcField(data)[k]) = Slice(Crc(data), k)
<1>0. CrcBytes \in Nat
  BY EnvelopeAssumption
<1>1. data \in Seq(Nat) /\ Len(data) \in 0 .. Len(data)
  <2>1. Bytes \subseteq Nat
    BY RadixLarge DEF Bytes
  <2>2. data \in Seq(Nat)
    BY <2>1, SeqMonotonic
  <2>3. Len(data) \in Nat
    OBVIOUS
  <2> QED
    BY <2>2, <2>3
<1>2. PICK f : RegisterSteps(f, data) /\ Register(data) = f[Len(data)]
  BY <1>1, RegisterUnfolds
<1>3. Register(data) \subseteq CrcBits
  BY <1>1, <1>2 DEF RegisterSteps
<1>4. Crc(data) \subseteq CrcBits
  BY DEF Crc
<1>5. CrcField(data) = [k \in 1 .. CrcBytes |-> ByteOf(Slice(Crc(data), k))]
  BY DEF CrcField, Slice
<1>6. \A k \in 1 .. CrcBytes : /\ ByteOf(Slice(Crc(data), k)) \in Bytes
                               /\ BitsOf(ByteOf(Slice(Crc(data), k))) = Slice(Crc(data), k)
  BY <1>4, Slices, BytesAreBits
<1> QED
  BY <1>0, <1>3, <1>4, <1>5, <1>6

\* The field of a CRC has the whole register.
LEMMA CrcTells ==
    ASSUME NEW data \in Seq(Bytes), NEW new \in Seq(Bytes), CrcField(data) = CrcField(new)
    PROVE  Register(data) = Register(new)
<1> DEFINE c == Crc(data)
           d == Crc(new)
<1>1. c \subseteq CrcBits /\ d \subseteq CrcBits
  BY CrcFields
<1>2. \A k \in 1 .. CrcBytes : Slice(c, k) = Slice(d, k)
  BY CrcFields
<1> HIDE DEF c, d
<1>3. c \subseteq d /\ d \subseteq c
  BY <1>1, <1>2, Slices
<1>4. c = d
  BY <1>3
<1>5. Register(data) \subseteq CrcBits /\ Register(new) \subseteq CrcBits
  BY CrcFields
<1> QED
  BY <1>4, <1>5 DEF c, d, Crc

\* The places of a wrapper: the mark, the CRC, the data.
LEMMA WrapParts ==
    ASSUME NEW data \in Seq(Bytes)
    PROVE  /\ Wrap(data) \in Seq(Bytes)
           /\ Len(Wrap(data)) = 1 + CrcBytes + Len(data)
           /\ Wrap(data)[1] = CrcMark
           /\ \A k \in 1 .. CrcBytes : Wrap(data)[1 + k] = CrcField(data)[k]
           /\ \A k \in 1 .. Len(data) : Wrap(data)[1 + CrcBytes + k] = data[k]
<1> DEFINE field == CrcField(data)
           front == <<CrcMark>> \o field
<1>1. field \in Seq(Bytes) /\ Len(field) = CrcBytes /\ CrcBytes \in Nat /\ CrcMark \in Bytes
  BY CrcFields, EnvelopeAssumption DEF StreamMarks
<1> HIDE DEF field
<1>2. /\ front \in Seq(Bytes) /\ Len(front) = 1 + CrcBytes /\ front[1] = CrcMark
      /\ \A k \in 1 .. CrcBytes : front[1 + k] = field[k]
  BY <1>1
<1>3. Wrap(data) = front \o data
  BY DEF Wrap, field
<1> HIDE DEF front
<1>4. /\ Wrap(data) \in Seq(Bytes) /\ Len(Wrap(data)) = 1 + CrcBytes + Len(data)
      /\ \A k \in 1 .. 1 + CrcBytes : Wrap(data)[k] = front[k]
      /\ \A k \in 1 .. Len(data) : Wrap(data)[1 + CrcBytes + k] = data[k]
  <2>1. /\ front \o data \in Seq(Bytes) /\ Len(front \o data) = Len(front) + Len(data)
        /\ \A i \in 1 .. Len(front) : (front \o data)[i] = front[i]
        /\ \A i \in 1 .. Len(data) : (front \o data)[Len(front) + i] = data[i]
    <3>1. front \in Seq(Bytes)
      BY <1>2
    <3> QED
      BY <3>1
  <2>2. Len(front) = 1 + CrcBytes
    BY <1>2
  <2> QED
    BY <1>3, <2>1, <2>2
<1>5. \A k \in 1 .. CrcBytes : 1 + k \in 1 .. 1 + CrcBytes
  BY <1>1
<1>6. 1 \in 1 .. 1 + CrcBytes
  BY <1>1
<1> QED
  BY <1>2, <1>4, <1>5, <1>6 DEF field

\* A changed byte behind the mark makes the CRC wrong: it is one of the data,
\* which changes the register, or one of the CRC, which does not fit any more.
LEMMA WrapShows ==
    ASSUME NEW data \in Seq(Bytes), NEW i \in 2 .. Len(Wrap(data)), NEW b \in Bytes,
           b # Wrap(data)[i]
    PROVE  Unwrap([Wrap(data) EXCEPT ![i] = b]) = {}
<1> DEFINE w == Wrap(data)
           new == [w EXCEPT ![i] = b]
           L == Len(data)
           inner == SubSeq(new, CrcBytes + 2, Len(new))
           field == SubSeq(new, 2, CrcBytes + 1)
<1>0. CrcBytes \in Nat /\ L \in Nat /\ CrcMark \in Bytes
  BY EnvelopeAssumption DEF StreamMarks
<1>1. /\ w \in Seq(Bytes) /\ Len(w) = 1 + CrcBytes + L
      /\ w[1] = CrcMark
      /\ \A k \in 1 .. CrcBytes : w[1 + k] = CrcField(data)[k]
      /\ \A k \in 1 .. L : w[1 + CrcBytes + k] = data[k]
  BY WrapParts
<1>2. i \in 2 .. 1 + CrcBytes + L /\ b # w[i]
  BY <1>1
<1> HIDE DEF w
<1>3. /\ new \in Seq(Bytes) /\ Len(new) = 1 + CrcBytes + L /\ new[i] = b
      /\ \A k \in 1 .. 1 + CrcBytes + L : k # i => new[k] = w[k]
  BY <1>0, <1>1, <1>2
<1> HIDE DEF new, L
<1>4. new[1] = CrcMark
  BY <1>0, <1>1, <1>2, <1>3
<1>5. /\ inner \in Seq(Bytes) /\ Len(inner) = L
      /\ \A k \in 1 .. L : inner[k] = new[1 + CrcBytes + k]
  BY <1>0, <1>3
<1>6. /\ field \in Seq(Bytes) /\ Len(field) = CrcBytes
      /\ \A k \in 1 .. CrcBytes : field[k] = new[1 + k]
  BY <1>0, <1>3
<1> HIDE DEF inner, field
<1>7. field # CrcField(inner)
  <2>1. CASE i <= 1 + CrcBytes
    <3>1. \A k \in 1 .. L : inner[k] = data[k]
      <4> TAKE k \in 1 .. L
      <4>1. 1 + CrcBytes + k \in 1 .. 1 + CrcBytes + L /\ 1 + CrcBytes + k # i
        BY <1>0, <1>2, <2>1
      <4> QED
        BY <1>1, <1>3, <1>5, <4>1
    <3>2. inner = data
      BY <1>5, <3>1, SeqEqual DEF L
    <3>3. i - 1 \in 1 .. CrcBytes /\ 1 + (i - 1) = i
      BY <1>0, <1>2, <2>1
    <3>4. field[i - 1] = b /\ w[i] = CrcField(data)[i - 1]
      BY <1>1, <1>3, <1>6, <3>3
    <3> QED
      BY <1>2, <3>2, <3>4
  <2>2. CASE i > 1 + CrcBytes
    <3> DEFINE n == i - (1 + CrcBytes)
    <3>1. n \in 1 .. L /\ 1 + CrcBytes + n = i
      BY <1>0, <1>2, <2>2
    <3> HIDE DEF n
    <3>2. \A k \in 1 .. CrcBytes : field[k] = CrcField(data)[k]
      <4> TAKE k \in 1 .. CrcBytes
      <4>1. 1 + k \in 1 .. 1 + CrcBytes + L /\ 1 + k # i
        BY <1>0, <2>2
      <4> QED
        BY <1>1, <1>3, <1>6, <4>1
    <3>3. CrcField(data) \in Seq(Bytes) /\ Len(CrcField(data)) = CrcBytes
      BY CrcFields
    <3>4. field = CrcField(data)
      BY <1>6, <3>2, <3>3, SeqEqual
    <3> DEFINE other == [data EXCEPT ![n] = b]
    <3>5. n \in 1 .. Len(data)
      BY <3>1 DEF L
    <3>6. data[n] = w[i]
      BY <1>1, <3>1
    <3>7. /\ other \in Seq(Bytes) /\ Len(other) = L /\ other[n] = b
          /\ \A k \in 1 .. L : k # n => other[k] = data[k]
      BY <3>5 DEF L
    <3>8. Register(other) # Register(data)
      BY <1>2, <3>5, <3>6, ChangeShows
    <3> HIDE DEF other
    <3>9. \A k \in 1 .. L : inner[k] = other[k]
      <4> TAKE k \in 1 .. L
      <4>1. 1 + CrcBytes + k \in 1 .. 1 + CrcBytes + L /\ (k # n => 1 + CrcBytes + k # i)
        BY <1>0, <3>1
      <4> QED
        BY <1>1, <1>3, <1>5, <3>1, <3>7, <4>1
    <3>10. inner = other
      BY <1>5, <3>7, <3>9, SeqEqual
    <3>11. other \in Seq(Bytes)
      BY <3>7
    <3>12. CrcField(data) # CrcField(other)
      BY <3>8, <3>11, CrcTells
    <3> QED
      BY <3>4, <3>10, <3>12
  <2> QED
    BY <1>0, <1>2, <2>1, <2>2
<1>8. Unwrap(new) = {u \in {inner} : Len(new) > CrcBytes /\ field = CrcField(inner)}
  BY <1>4 DEF Unwrap, inner, field
<1> QED
  BY <1>7, <1>8 DEF new, w

\* Unwrapping undoes wrapping.
LEMMA Unwraps ==
    ASSUME NEW data \in Seq(Bytes)
    PROVE  Unwrap(Wrap(data)) = {data} /\ Wrap(data) # <<>>
<1> DEFINE w == Wrap(data)
           L == Len(data)
           inner == SubSeq(w, CrcBytes + 2, Len(w))
           field == SubSeq(w, 2, CrcBytes + 1)
<1>0. CrcBytes \in Nat /\ L \in Nat
  BY EnvelopeAssumption
<1>1. /\ w \in Seq(Bytes) /\ Len(w) = 1 + CrcBytes + L
      /\ w[1] = CrcMark
      /\ \A k \in 1 .. CrcBytes : w[1 + k] = CrcField(data)[k]
      /\ \A k \in 1 .. L : w[1 + CrcBytes + k] = data[k]
  BY WrapParts
<1> HIDE DEF w, L
<1>5. /\ inner \in Seq(Bytes) /\ Len(inner) = L
      /\ \A k \in 1 .. L : inner[k] = w[1 + CrcBytes + k]
  BY <1>0, <1>1
<1>6. /\ field \in Seq(Bytes) /\ Len(field) = CrcBytes
      /\ \A k \in 1 .. CrcBytes : field[k] = w[1 + k]
  BY <1>0, <1>1
<1>7. Unwrap(w) = {u \in {inner} : Len(w) > CrcBytes /\ field = CrcField(inner)}
  BY <1>1 DEF Unwrap, inner, field
<1> HIDE DEF inner, field
<1>8. inner = data
  BY <1>1, <1>5, SeqEqual DEF L
<1>9. field = CrcField(data)
  BY <1>1, <1>6, CrcFields, SeqEqual
<1>10. w # <<>> /\ Len(w) > CrcBytes
  BY <1>0, <1>1
<1> QED
  BY <1>7, <1>8, <1>9, <1>10 DEF w

-----------------------------------------------------------------------------
(* Pieces put together *)

\* Places that only grow.
Rising(c, n) == c \in [0 .. n -> Nat] /\ \A i \in 1 .. n : c[i - 1] <= c[i]

LEMMA RisingFar ==
    ASSUME NEW n \in Nat, NEW c, Rising(c, n), NEW i \in 0 .. n, NEW j \in 0 .. n, i <= j
    PROVE  c[i] <= c[j]
<1> DEFINE G == {k \in 0 .. n - i : c[i] <= c[i + k]}
<1>1. \A k \in 0 .. n : c[k] \in Nat
  BY DEF Rising
<1>2. 0 \in G
  <2>1. i + 0 = i /\ 0 \in 0 .. n - i
    OBVIOUS
  <2> QED
    BY <1>1, <2>1
<1>3. \A k \in 0 .. (n - i) - 1 : k \in G => k + 1 \in G
  <2> TAKE k \in 0 .. (n - i) - 1
  <2> DEFINE a == i + k
  <2>1. a \in 0 .. n /\ a + 1 \in 1 .. n /\ a + 1 \in 0 .. n /\ (a + 1) - 1 = a
        /\ i + (k + 1) = a + 1 /\ k + 1 \in 0 .. n - i
    OBVIOUS
  <2> HIDE DEF a
  <2>2. c[a] <= c[a + 1] /\ c[a] \in Nat /\ c[a + 1] \in Nat /\ c[i] \in Nat
    BY <1>1, <2>1 DEF Rising
  <2>3. c[i] <= c[a] => c[i] <= c[a + 1]
    BY <2>2
  <2> QED
    BY <2>1, <2>3 DEF a
<1> HIDE DEF G
<1>4. n - i \in Nat
  OBVIOUS
<1>5. \A k \in 0 .. n - i : k \in G
  BY <1>2, <1>3, <1>4, Reaches
<1>6. j - i \in 0 .. n - i /\ i + (j - i) = j
  OBVIOUS
<1>7. c[i] <= c[i + (j - i)]
  BY <1>5, <1>6 DEF G
<1> QED
  BY <1>6, <1>7

\* Every place up to the last is behind some one and not behind the next.
LEMMA Located ==
    ASSUME NEW n \in Nat, NEW c, Rising(c, n), NEW p \in Nat, c[0] < p, p <= c[n]
    PROVE  \E i \in 1 .. n : c[i - 1] < p /\ p <= c[i]
<1> DEFINE T == {i \in 0 .. n : p <= c[i]}
<1>1. n \in T /\ T \subseteq Nat
  OBVIOUS
<1>2. PICK i \in T : \A j \in T : i <= j
  BY <1>1, Smallest
<1>3. c \in [0 .. n -> Nat]
  BY DEF Rising
<1>4. i \in 0 .. n /\ p <= c[i] /\ i # 0
  BY <1>3
<1>5. i \in 1 .. n /\ i - 1 \in 0 .. n /\ ~(i <= i - 1)
  BY <1>4
<1>6. ~(p <= c[i - 1])
  BY <1>2, <1>5
<1>7. c[i - 1] \in Nat
  BY <1>3, <1>5
<1> QED
  BY <1>4, <1>5, <1>6, <1>7

\* The i-th piece of flat ends at c[i].
Layout(c, pieces, flat) ==
    /\ c \in [0 .. Len(pieces) -> Nat] /\ c[0] = 0
    /\ \A i \in 1 .. Len(pieces) : c[i] = c[i - 1] + Len(pieces[i])
    /\ Len(flat) = c[Len(pieces)]
    /\ \A i \in 1 .. Len(pieces) : \A k \in 1 .. Len(pieces[i]) :
          flat[c[i - 1] + k] = pieces[i][k]

LEMMA LayoutRises ==
    ASSUME NEW S, NEW pieces \in Seq(Seq(S)), NEW flat, NEW c, Layout(c, pieces, flat)
    PROVE  Rising(c, Len(pieces)) /\ Len(pieces) \in Nat
<1>0. Len(pieces) \in Nat /\ \A i \in 1 .. Len(pieces) : pieces[i] \in Seq(S)
  OBVIOUS
<1>1. ASSUME NEW i \in 1 .. Len(pieces) PROVE c[i - 1] <= c[i]
  <2>1. i - 1 \in 0 .. Len(pieces) /\ Len(pieces[i]) \in Nat
    BY <1>0
  <2>2. c[i - 1] \in Nat /\ c[i] = c[i - 1] + Len(pieces[i])
    BY <2>1 DEF Layout
  <2> QED
    BY <2>1, <2>2
<1> QED
  BY <1>0, <1>1 DEF Rising, Layout

\* There is one list with the pieces at their places.
LEMMA LayoutOne ==
    ASSUME NEW S, NEW pieces \in Seq(Seq(S)), NEW flat \in Seq(S), NEW other \in Seq(S),
           NEW c, Layout(c, pieces, flat), Layout(c, pieces, other)
    PROVE  flat = other
<1> DEFINE n == Len(pieces)
<1>1. Rising(c, n) /\ n \in Nat
  BY LayoutRises
<1>2. Len(flat) = c[n] /\ Len(other) = c[n] /\ c[0] = 0
  BY DEF Layout
<1>3. ASSUME NEW p \in 1 .. Len(flat) PROVE flat[p] = other[p]
  <2>1. p \in Nat /\ c[0] < p /\ p <= c[n]
    BY <1>2
  <2>2. PICK i \in 1 .. n : c[i - 1] < p /\ p <= c[i]
    BY <1>1, <2>1, Located
  <2> DEFINE k == p - c[i - 1]
  <2>3. c[i - 1] \in Nat /\ c[i] = c[i - 1] + Len(pieces[i]) /\ Len(pieces[i]) \in Nat
    <3>1. i - 1 \in 0 .. n
      BY <1>1
    <3>2. Len(pieces[i]) \in Nat
      BY <1>1
    <3>3. c[i - 1] \in Nat
      BY <3>1 DEF Layout
    <3> QED
      BY <3>2, <3>3 DEF Layout
  <2>4. k \in 1 .. Len(pieces[i]) /\ c[i - 1] + k = p
    BY <2>1, <2>2, <2>3
  <2> HIDE DEF k
  <2>5. flat[c[i - 1] + k] = pieces[i][k] /\ other[c[i - 1] + k] = pieces[i][k]
    BY <2>4 DEF Layout
  <2> QED
    BY <2>4, <2>5
<1> QED
  BY <1>2, <1>3, SeqEqual

\* FlattenSeq puts the pieces one behind the other.
LEMMA Flattened ==
    ASSUME NEW S, NEW pieces \in Seq(Seq(S))
    PROVE  FlattenSeq(pieces) \in Seq(S) /\ \E c : Layout(c, pieces, FlattenSeq(pieces))
<1> DEFINE n == Len(pieces)
           flat == FlattenSeq(pieces)
<1>0. n \in Nat /\ \A i \in 1 .. n : pieces[i] \in Seq(S) /\ Len(pieces[i]) \in Nat
  OBVIOUS
<1>1. CASE n = 0
  <2>1. flat = pieces /\ pieces = <<>>
    BY <1>1 DEF FlattenSeq
  <2>2. flat \in Seq(S) /\ Len(flat) = 0
    BY <2>1
  <2>3. Layout([i \in 0 .. 0 |-> 0], pieces, flat)
    BY <1>1, <2>2 DEF Layout
  <2> QED
    BY <2>2, <2>3
<1>2. CASE n # 0
  <2>0. n \in Nat /\ n - 1 \in Nat /\ \A i \in 1 .. n - 1 : i + 1 \in 1 .. n
    BY <1>0, <1>2
  <2> HIDE DEF n
  <2> DEFINE join == [i \in 1 .. n - 1 |-> [x \in Seq(S) |-> x \o pieces[i + 1]]]
  <2>1. \A i \in 1 .. n - 1 : \A x \in Seq(S) : x \o pieces[i + 1] \in Seq(S)
    BY <1>0, <2>0
  <2>2. /\ join \in [1 .. n - 1 -> [Seq(S) -> Seq(S)]]
        /\ \A i \in 1 .. n - 1 : \A x \in Seq(S) : join[i][x] = x \o pieces[i + 1]
    BY <2>1
  <2>3. pieces[1] \in Seq(S)
    BY <1>0, <2>0
  <2> HIDE DEF join
  <2>4. PICK f \in [0 .. n - 1 -> Seq(S)] : Iterates(f, pieces[1], join, n - 1)
    BY <2>0, <2>2, <2>3, Recursion
  <2> DEFINE Eq(g) == g = [i \in 1 .. n |-> IF i = 1 THEN pieces[i] ELSE g[i - 1] \o pieces[i]]
             s == CHOOSE g : Eq(g)
             g0 == [i \in 1 .. n |-> f[i - 1]]
  <2>5. Eq(g0)
    <3>1. ASSUME NEW i \in 1 .. n
          PROVE  f[i - 1] = IF i = 1 THEN pieces[i] ELSE g0[i - 1] \o pieces[i]
      <4>1. CASE i = 1
        BY <2>4, <4>1 DEF Iterates
      <4>2. CASE i # 1
        <5>1. /\ i - 1 \in 1 .. n - 1 /\ i - 1 \in 1 .. n /\ (i - 1) - 1 \in 0 .. n - 1
              /\ (i - 1) + 1 = i
          BY <4>2, <2>0
        <5>2. f[i - 1] = join[i - 1][f[(i - 1) - 1]] /\ f[(i - 1) - 1] \in Seq(S)
          BY <2>4, <5>1 DEF Iterates
        <5>3. f[i - 1] = f[(i - 1) - 1] \o pieces[i]
          BY <2>2, <5>1, <5>2
        <5> QED
          BY <4>2, <5>1, <5>3
      <4> QED
        BY <4>1, <4>2
    <3> QED
      BY <3>1
  <2>6. Eq(s)
    BY <2>5
  <2>7. flat = s[n]
    BY <1>2 DEF FlattenSeq, n
  <2> HIDE DEF s, flat
  <2>8. s[1] = pieces[1] /\ \A i \in 1 .. n - 1 : s[i + 1] = s[i] \o pieces[i + 1]
    <3>1. 1 \in 1 .. n
      BY <2>0
    <3>2. \A i \in 1 .. n - 1 : i + 1 \in 1 .. n /\ i + 1 # 1 /\ (i + 1) - 1 = i
      BY <2>0
    <3> QED
      BY <2>6, <3>1, <3>2
  <2> DEFINE add == [i \in 1 .. n |-> [x \in Nat |-> x + Len(pieces[i])]]
  <2>9. add \in [1 .. n -> [Nat -> Nat]]
    BY <1>0
  <2>10. \A i \in 1 .. n : \A x \in Nat : add[i][x] = x + Len(pieces[i])
    OBVIOUS
  <2> HIDE DEF add
  <2>11. PICK c \in [0 .. n -> Nat] : Iterates(c, 0, add, n)
    BY <1>0, <2>9, Recursion
  <2>12. c[0] = 0 /\ \A i \in 1 .. n : c[i] = c[i - 1] + Len(pieces[i]) /\ c[i - 1] \in Nat
    <3>1. \A i \in 1 .. n : i - 1 \in 0 .. n
      BY <1>0
    <3> QED
      BY <2>10, <2>11, <3>1 DEF Iterates
  <2>13. Rising(c, n)
    <3>1. \A i \in 1 .. n : c[i - 1] <= c[i]
      <4> TAKE i \in 1 .. n
      <4>1. c[i] = c[i - 1] + Len(pieces[i]) /\ c[i - 1] \in Nat /\ Len(pieces[i]) \in Nat
        BY <1>0, <2>12
      <4> QED
        BY <4>1
    <3> QED
      BY <2>11, <3>1 DEF Rising
  <2> DEFINE P(i) == /\ s[i] \in Seq(S) /\ Len(s[i]) = c[i]
                     /\ \A j \in 1 .. i : \A k \in 1 .. Len(pieces[j]) :
                           s[i][c[j - 1] + k] = pieces[j][k]
  <2>14. P(1)
    <3>1. 1 \in 1 .. n /\ 1 - 1 = 0
      BY <2>0
    <3>2. c[1] = Len(pieces[1]) /\ Len(pieces[1]) \in Nat
      BY <1>0, <2>12, <3>1
    <3>3. ASSUME NEW j \in 1 .. 1, NEW k \in 1 .. Len(pieces[j])
          PROVE  s[1][c[j - 1] + k] = pieces[j][k]
      <4>1. j = 1 /\ c[j - 1] + k = k
        BY <2>12, <3>1, <3>2
      <4> QED
        BY <2>8, <4>1
    <3> QED
      BY <2>3, <2>8, <3>2, <3>3
  <2>15. ASSUME NEW i \in 1 .. n - 1, P(i) PROVE P(i + 1)
    <3> DEFINE x == s[i]
               y == pieces[i + 1]
    <3>1. i + 1 \in 1 .. n /\ i \in 1 .. n /\ (i + 1) - 1 = i
      BY <2>0
    <3>2. x \in Seq(S) /\ y \in Seq(S) /\ s[i + 1] = x \o y /\ Len(x) = c[i]
      BY <1>0, <2>8, <2>15, <3>1
    <3>3. c[i + 1] = c[i] + Len(y) /\ c[i] \in Nat
      BY <2>12, <3>1
    <3>4. ASSUME NEW j \in 1 .. i + 1, NEW k \in 1 .. Len(pieces[j])
          PROVE  s[i + 1][c[j - 1] + k] = pieces[j][k]
      <4>1. CASE j = i + 1
        <5>1. k \in 1 .. Len(y) /\ c[j - 1] = Len(x)
          BY <3>1, <3>2, <4>1
        <5> HIDE DEF x, y
        <5>2. (x \o y)[Len(x) + k] = y[k]
          BY <3>2, <5>1
        <5> QED
          BY <3>2, <4>1, <5>1, <5>2 DEF y
      <4>2. CASE j # i + 1
        <5>1. j \in 1 .. i /\ j \in 1 .. n /\ j \in 0 .. n /\ i \in 0 .. n /\ j <= i
          BY <2>0, <3>1, <4>2
        <5>2. c[j] <= c[i]
          BY <1>0, <2>13, <5>1, RisingFar
        <5>3. c[j] = c[j - 1] + Len(pieces[j]) /\ c[j - 1] \in Nat /\ Len(pieces[j]) \in Nat
          BY <1>0, <2>12, <5>1
        <5>4. c[j - 1] + k \in 1 .. Len(x)
          <6>1. k \in Nat /\ 1 <= k /\ k <= Len(pieces[j])
            BY <5>3
          <6> DEFINE a == c[j - 1]
                     l == Len(pieces[j])
                     e == c[i]
          <6>3. a \in Nat /\ l \in Nat /\ e \in Nat /\ a + l <= e /\ k <= l
            BY <3>3, <5>2, <5>3, <6>1
          <6> HIDE DEF a, l, e
          <6>4. a + k <= e /\ a + k \in Nat /\ 1 <= a + k
            BY <6>1, <6>3
          <6>2. c[j - 1] + k <= c[i] /\ c[j - 1] + k \in Nat /\ 1 <= c[j - 1] + k
            BY <6>4 DEF a, e
          <6> HIDE DEF x
          <6> QED
            BY <3>2, <3>3, <6>2
        <5>5. x[c[j - 1] + k] = pieces[j][k]
          BY <2>15, <5>1
        <5> HIDE DEF x, y
        <5>6. (x \o y)[c[j - 1] + k] = x[c[j - 1] + k]
          BY <3>2, <5>4
        <5> QED
          BY <3>2, <5>5, <5>6
      <4> QED
        BY <4>1, <4>2
    <3>5. x \o y \in Seq(S) /\ Len(x \o y) = Len(x) + Len(y)
      <4>1. x \in Seq(S) /\ y \in Seq(S)
        BY <3>2
      <4> HIDE DEF x, y
      <4> QED
        BY <4>1, ConcatProperties
    <3> HIDE DEF x, y
    <3> QED
      BY <3>2, <3>3, <3>4, <3>5
  <2> DEFINE G == {i \in 0 .. n - 1 : P(i + 1)}
  <2>16. 0 \in G
    <3>1. 0 + 1 = 1 /\ 0 \in 0 .. n - 1
      BY <2>0
    <3> HIDE DEF P
    <3> QED
      BY <2>14, <3>1
  <2>17. \A i \in 0 .. (n - 1) - 1 : i \in G => i + 1 \in G
    <3> TAKE i \in 0 .. (n - 1) - 1
    <3>1. i + 1 \in 1 .. n - 1 /\ i + 1 \in 0 .. n - 1
      BY <2>0
    <3> HIDE DEF P
    <3> QED
      BY <2>15, <3>1
  <2> HIDE DEF G
  <2>18. \A i \in 0 .. n - 1 : i \in G
    BY <2>0, <2>16, <2>17, Reaches
  <2>19. P(n)
    <3>1. n - 1 \in 0 .. n - 1 /\ (n - 1) + 1 = n
      BY <2>0
    <3> HIDE DEF P
    <3>2. P((n - 1) + 1)
      BY <2>18, <3>1 DEF G
    <3> QED
      BY <3>1, <3>2
  <2>20. Layout(c, pieces, flat)
    BY <2>7, <2>11, <2>12, <2>19 DEF Layout, n
  <2> QED
    BY <2>7, <2>19, <2>20 DEF flat
<1> QED
  BY <1>1, <1>2

-----------------------------------------------------------------------------
(* The walk over the fields *)

\* What is known of a schema that was registered.
Shaped(sch) ==
    /\ sch.id \in Bytes
    /\ Len(sch.fields) \in Nat \ {0} /\ DOMAIN sch.fields = 1 .. Len(sch.fields)
    /\ \A i \in 1 .. Len(sch.fields) :
          /\ sch.fields[i].kind \in Kinds /\ sch.fields[i].size \in Nat
          /\ sch.fields[i].kind = "fixed" => sch.fields[i].size > 0

WalkStates == [ok : BOOLEAN, at : Nat, parts : Seq(Seq(Bytes))]

LEMMA ZerosType ==
    ASSUME NEW f, f.size \in Nat
    PROVE  /\ Zeros(f) \in Seq(Bytes) /\ Len(Zeros(f)) = f.size
           /\ \A k \in 1 .. f.size : Zeros(f)[k] = 0
<1>1. 0 \in Bytes
  BY RadixLarge DEF Bytes
<1> QED
  BY <1>1 DEF Zeros

LEMMA SpanOne ==
    ASSUME NEW f, NEW data, NEW at, NEW bounded,
           NEW m \in Span(f, data, at, bounded), NEW n \in Span(f, data, at, bounded)
    PROVE  m = n /\ n \in 1 .. Len(data) - at
  BY DEF Span

\* What a walk that has come to r has read after field i.
WalkStep(r, sch, data, bounded, omitted, i) ==
    IF i \in omitted THEN LeftOut(r, sch.fields[i]) ELSE Onward(r, sch.fields[i], data, bounded)

LEMMA OnwardType ==
    ASSUME NEW r \in WalkStates, NEW f, f.size \in Nat, NEW data \in Seq(Bytes),
           NEW bounded
    PROVE  Onward(r, f, data, bounded) \in WalkStates /\ LeftOut(r, f) \in WalkStates
<1>0. r.ok \in BOOLEAN /\ r.at \in Nat /\ r.parts \in Seq(Seq(Bytes))
  BY DEF WalkStates
<1> DEFINE spans == Span(f, data, r.at, bounded)
           n == CHOOSE n \in spans : TRUE
           part == SubSeq(data, r.at + 1, r.at + n)
<1>1. LeftOut(r, f) \in WalkStates
  <2>1. Append(r.parts, Zeros(f)) \in Seq(Seq(Bytes))
    BY <1>0, ZerosType
  <2> QED
    BY <1>0, <2>1 DEF LeftOut, WalkStates
<1>2. CASE ~r.ok \/ spans = {}
  BY <1>0, <1>1, <1>2 DEF Onward, WalkStates
<1>3. CASE r.ok /\ spans # {}
  <2>1. n \in spans
    BY <1>3
  <2>2. n \in 1 .. Len(data) - r.at
    BY <2>1, SpanOne
  <2> HIDE DEF n
  <2>3. r.at + n \in Nat /\ r.at <= r.at + n /\ r.at + n <= Len(data)
    BY <1>0, <2>2
  <2>4. part \in Seq(Bytes)
    BY <1>0, <2>3, Slicing
  <2> HIDE DEF part
  <2>5. Append(r.parts, part) \in Seq(Seq(Bytes))
    BY <1>0, <2>4
  <2>6. Onward(r, f, data, bounded) =
          [ok |-> TRUE, at |-> r.at + n, parts |-> Append(r.parts, part)]
    BY <1>3 DEF Onward, n, part
  <2> QED
    BY <1>1, <2>3, <2>5, <2>6 DEF WalkStates
<1> QED
  BY <1>2, <1>3

WalkSteps(s, sch, data, start, bounded, omitted) ==
    /\ s \in [0 .. Len(sch.fields) -> WalkStates]
    /\ s[0] = [ok |-> TRUE, at |-> start, parts |-> <<>>]
    /\ \A i \in 1 .. Len(sch.fields) :
          s[i] = WalkStep(s[i - 1], sch, data, bounded, omitted, i)

LEMMA WalkUnfolds ==
    ASSUME NEW sch, Shaped(sch), NEW data \in Seq(Bytes), NEW start \in Nat,
           NEW bounded, NEW omitted
    PROVE  \E s : /\ WalkSteps(s, sch, data, start, bounded, omitted)
                  /\ Walk(sch, data, start, bounded, omitted) = s[Len(sch.fields)]
<1> DEFINE L == Len(sch.fields)
           S == WalkStates
           base == [ok |-> TRUE, at |-> start, parts |-> <<>>]
           Step(i, x) == WalkStep(x, sch, data, bounded, omitted, i)
           table == [i \in 1 .. L |-> [x \in S |-> Step(i, x)]]
<1>0. L \in Nat /\ \A i \in 1 .. L : sch.fields[i].size \in Nat
  BY DEF Shaped
<1>1. base \in S /\ \A i \in 1 .. L : \A x \in S : Step(i, x) \in S
  <2>1. base \in S
    BY DEF WalkStates
  <2>2. ASSUME NEW i \in 1 .. L, NEW x \in S PROVE Step(i, x) \in S
    <3>1. sch.fields[i].size \in Nat
      BY <1>0
    <3>2. /\ Onward(x, sch.fields[i], data, bounded) \in WalkStates
          /\ LeftOut(x, sch.fields[i]) \in WalkStates
      BY <3>1, OnwardType
    <3> QED
      BY <3>2 DEF WalkStep
  <2> QED
    BY <2>1, <2>2
<1> HIDE DEF Step, base, S, L
<1>2. table \in [1 .. L -> [S -> S]] /\ \A i \in 1 .. L : \A x \in S : table[i][x] = Step(i, x)
  BY <1>1
<1> HIDE DEF table
<1>4. PICK f \in [0 .. L -> S] : Iterates(f, base, table, L)
  BY <1>0, <1>1, <1>2, Recursion
<1>5. f[0] = base /\ \A n \in 1 .. L : f[n] = Step(n, f[n - 1])
  <2>1. \A n \in 1 .. L : n - 1 \in 0 .. L
    BY <1>0
  <2> QED
    BY <1>2, <1>4, <2>1 DEF Iterates
<1> DEFINE Eq(g) == g = [n \in 0 .. L |-> IF n = 0 THEN base ELSE Step(n, g[n - 1])]
           s == CHOOSE g : Eq(g)
<1>6. Eq(f)
  <2>1. \A n \in 0 .. L : n # 0 => n \in 1 .. L
    BY <1>0
  <2> QED
    BY <1>5, <2>1
<1>7. Eq(s)
  BY <1>6
<1>8. Walk(sch, data, start, bounded, omitted) = s[L]
  BY DEF Walk, L, base, Step, WalkStep
<1> HIDE DEF s
<1>9. s[0] = base /\ \A n \in 1 .. L : s[n] = Step(n, s[n - 1])
  <2>1. 0 \in 0 .. L /\ \A n \in 1 .. L : n \in 0 .. L /\ n # 0
    BY <1>0
  <2> QED
    BY <1>7, <2>1
<1>10. \A n \in 0 .. L : s[n] \in S
  <2> DEFINE G == {n \in 0 .. L : s[n] \in S}
  <2>1. 0 \in G
    BY <1>0, <1>1, <1>9
  <2>2. \A n \in 0 .. L - 1 : n \in G => n + 1 \in G
    <3> TAKE n \in 0 .. L - 1
    <3>1. n + 1 \in 1 .. L /\ n + 1 \in 0 .. L /\ (n + 1) - 1 = n
      BY <1>0
    <3> QED
      BY <1>1, <1>9, <3>1
  <2> HIDE DEF G
  <2>3. \A n \in 0 .. L : n \in G
    BY <1>0, <2>1, <2>2, Reaches
  <2> QED
    BY <2>3 DEF G
<1>11. WalkSteps(s, sch, data, start, bounded, omitted)
  BY <1>7, <1>9, <1>10 DEF WalkSteps, S, L, base, Step
<1> QED
  BY <1>8, <1>11 DEF L

\* Field i lies between c[i - 1] and c[i].
Cuts(c, sch, data, start, bounded, omitted) ==
    /\ c \in [0 .. Len(sch.fields) -> Nat] /\ c[0] = start
    /\ \A i \in 1 .. Len(sch.fields) :
          IF i \in omitted THEN c[i] = c[i - 1]
          ELSE c[i] - c[i - 1] \in Span(sch.fields[i], data, c[i - 1], bounded)

PartOf(c, sch, data, omitted, i) ==
    IF i \in omitted THEN Zeros(sch.fields[i]) ELSE SubSeq(data, c[i - 1] + 1, c[i])

PartsAt(c, sch, data, omitted) ==
    [i \in 1 .. Len(sch.fields) |-> PartOf(c, sch, data, omitted, i)]

\* What a walk returns when it comes to its end.
WalkedAt(w, c, sch, data, omitted) ==
    /\ w.ok /\ w.at = c[Len(sch.fields)]
    /\ w.parts = PartsAt(c, sch, data, omitted)

LEMMA OnwardSteps ==
    ASSUME NEW r, NEW f, NEW data, NEW bounded
    PROVE  /\ \A n \in Span(f, data, r.at, bounded) :
                 r.ok => Onward(r, f, data, bounded) =
                            [ok |-> TRUE, at |-> r.at + n,
                             parts |-> Append(r.parts, SubSeq(data, r.at + 1, r.at + n))]
           /\ Onward(r, f, data, bounded).ok =>
                 Span(f, data, r.at, bounded) # {} /\ r.ok
<1> DEFINE spans == Span(f, data, r.at, bounded)
<1>1. ASSUME NEW n \in spans, r.ok
      PROVE  Onward(r, f, data, bounded) =
               [ok |-> TRUE, at |-> r.at + n,
                parts |-> Append(r.parts, SubSeq(data, r.at + 1, r.at + n))]
  <2> DEFINE m == CHOOSE m \in spans : TRUE
  <2>1. m \in spans /\ spans # {}
    BY <1>1
  <2>2. m = n
    BY <1>1, <2>1, SpanOne
  <2> HIDE DEF m
  <2> QED
    BY <1>1, <2>1, <2>2 DEF Onward, m
<1>2. ~r.ok \/ spans = {} => ~Onward(r, f, data, bounded).ok
  BY DEF Onward
<1> QED
  BY <1>1, <1>2

\* A walk that can be cut up comes to its end, and reads what is between the
\* cuts.
LEMMA CutsWalk ==
    ASSUME NEW sch, Shaped(sch), NEW data \in Seq(Bytes), NEW start \in Nat,
           NEW bounded, NEW omitted, NEW c, Cuts(c, sch, data, start, bounded, omitted)
    PROVE  WalkedAt(Walk(sch, data, start, bounded, omitted), c, sch, data, omitted)
<1> DEFINE L == Len(sch.fields)
           part(i) == PartOf(c, sch, data, omitted, i)
<1>0. L \in Nat
  BY DEF Shaped
<1>1. PICK s : /\ WalkSteps(s, sch, data, start, bounded, omitted)
               /\ Walk(sch, data, start, bounded, omitted) = s[L]
  BY WalkUnfolds
<1> DEFINE P(i) == /\ s[i].ok /\ s[i].at = c[i] /\ Len(s[i].parts) = i
                   /\ \A j \in 1 .. i : s[i].parts[j] = part(j)
           G == {i \in 0 .. L : P(i)}
<1>2. \A i \in 0 .. L : /\ s[i].ok \in BOOLEAN /\ s[i].at \in Nat
                        /\ s[i].parts \in Seq(Seq(Bytes))
  BY <1>1 DEF WalkSteps, WalkStates
<1>3. 0 \in G
  <2>1. s[0] = [ok |-> TRUE, at |-> start, parts |-> <<>>] /\ c[0] = start
    BY <1>1 DEF WalkSteps, Cuts
  <2>2. s[0].ok /\ s[0].at = c[0] /\ s[0].parts = <<>>
    BY <2>1
  <2>3. Len(s[0].parts) = 0 /\ 0 \in 0 .. L
    BY <1>0, <2>2
  <2> QED
    BY <2>2, <2>3
<1>4. ASSUME NEW i \in 0 .. L - 1, i \in G PROVE i + 1 \in G
  <2> DEFINE r == s[i]
             q == s[i + 1]
             f == sch.fields[i + 1]
             n == c[i + 1] - c[i]
             new == part(i + 1)
  <2>1. i + 1 \in 1 .. L /\ i + 1 \in 0 .. L /\ (i + 1) - 1 = i /\ i \in 0 .. L /\ i \in Nat
    BY <1>0
  <2>2. q = IF i + 1 \in omitted THEN LeftOut(r, f) ELSE Onward(r, f, data, bounded)
    BY <1>1, <2>1 DEF WalkSteps, WalkStep
  <2>3. r.ok /\ r.at = c[i] /\ Len(r.parts) = i /\ \A j \in 1 .. i : r.parts[j] = part(j)
    BY <1>4
  <2>4. c[i] \in Nat /\ c[i + 1] \in Nat
    BY <2>1 DEF Cuts
  <2>5. /\ i + 1 \in omitted => c[i + 1] = c[i]
        /\ i + 1 \notin omitted => n \in Span(f, data, c[i], bounded)
    BY <2>1 DEF Cuts
  <2>6. c[i] + n = c[i + 1]
    BY <2>4
  <2>7. new = IF i + 1 \in omitted THEN Zeros(f) ELSE SubSeq(data, c[i] + 1, c[i + 1])
    BY <2>1 DEF PartOf
  <2> HIDE DEF r, q, f, n, new, part, L
  <2>8. q.ok /\ q.at = c[i + 1] /\ q.parts = Append(r.parts, new)
    <3>1. CASE i + 1 \in omitted
      <4>1. q.ok = r.ok /\ q.at = r.at /\ q.parts = Append(r.parts, Zeros(f))
        BY <2>2, <3>1 DEF LeftOut
      <4> QED
        BY <2>3, <2>5, <2>7, <3>1, <4>1
    <3>2. CASE i + 1 \notin omitted
      <4>1. n \in Span(f, data, r.at, bounded)
        BY <2>3, <2>5, <3>2
      <4> DEFINE o == Onward(r, f, data, bounded)
      <4>3. r.ok => o = [ok |-> TRUE, at |-> r.at + n,
                         parts |-> Append(r.parts, SubSeq(data, r.at + 1, r.at + n))]
        BY <4>1, OnwardSteps
      <4>4. q = o
        BY <2>2, <3>2
      <4> HIDE DEF o
      <4>2. /\ q.ok /\ q.at = r.at + n
            /\ q.parts = Append(r.parts, SubSeq(data, r.at + 1, r.at + n))
        BY <2>3, <4>3, <4>4
      <4> QED
        BY <2>3, <2>6, <2>7, <3>2, <4>2
    <3> QED
      BY <3>1, <3>2
  <2>9. r.parts \in Seq(Seq(Bytes))
    BY <1>2, <2>1 DEF r
  <2>10. q.parts \in Seq(Seq(Bytes))
    BY <1>2, <2>1 DEF q
  <2>11. Len(q.parts) = i + 1
    BY <2>3, <2>8, <2>9
  <2>12. ASSUME NEW j \in 1 .. i + 1 PROVE q.parts[j] = part(j)
    <3>1. CASE j = i + 1
      <4>1. q.parts[i + 1] = new
        BY <2>1, <2>3, <2>8, <2>9
      <4> QED
        BY <3>1, <4>1 DEF new
    <3>2. CASE j # i + 1
      <4>1. j \in 1 .. i
        BY <2>1, <3>2
      <4>2. q.parts[j] = r.parts[j]
        BY <2>3, <2>8, <2>9, <4>1
      <4> QED
        BY <2>3, <4>1, <4>2
    <3> QED
      BY <3>1, <3>2
  <2> QED
    BY <2>1, <2>8, <2>11, <2>12 DEF q
<1>5. L \in G
  <2>1. \A i \in 0 .. L - 1 : i \in G => i + 1 \in G
    BY <1>4
  <2> HIDE DEF G
  <2>2. \A i \in 0 .. L : i \in G
    BY <1>0, <1>3, <2>1, Reaches
  <2>3. L \in 0 .. L
    BY <1>0
  <2> QED
    BY <2>2, <2>3
<1>6. s[L].parts = PartsAt(c, sch, data, omitted)
  <2>1. s[L].parts \in Seq(Seq(Bytes)) /\ Len(s[L].parts) = L
    BY <1>0, <1>2, <1>5
  <2>2. s[L].parts = [j \in 1 .. L |-> s[L].parts[j]]
    BY <2>1
  <2>3. \A j \in 1 .. L : s[L].parts[j] = part(j)
    BY <1>5
  <2> HIDE DEF part
  <2>4. s[L].parts = [j \in 1 .. L |-> part(j)]
    BY <2>2, <2>3
  <2> QED
    BY <2>4 DEF PartsAt, part
<1> QED
  BY <1>1, <1>5, <1>6 DEF WalkedAt

\* A walk that comes to its end can be cut up.
LEMMA WalkCuts ==
    ASSUME NEW sch, Shaped(sch), NEW data \in Seq(Bytes), NEW start \in Nat,
           NEW bounded, NEW omitted, Walk(sch, data, start, bounded, omitted).ok
    PROVE  \E c : /\ Cuts(c, sch, data, start, bounded, omitted)
                  /\ WalkedAt(Walk(sch, data, start, bounded, omitted), c, sch, data, omitted)
<1> DEFINE L == Len(sch.fields)
<1>0. L \in Nat
  BY DEF Shaped
<1>1. PICK s : /\ WalkSteps(s, sch, data, start, bounded, omitted)
               /\ Walk(sch, data, start, bounded, omitted) = s[L]
  BY WalkUnfolds
<1>2. \A i \in 0 .. L : s[i].ok \in BOOLEAN /\ s[i].at \in Nat
  BY <1>1 DEF WalkSteps, WalkStates
<1>3. ASSUME NEW i \in 1 .. L
      PROVE  /\ s[i].ok => s[i - 1].ok
             /\ s[i].ok => IF i \in omitted THEN s[i].at = s[i - 1].at
                           ELSE s[i].at - s[i - 1].at
                                  \in Span(sch.fields[i], data, s[i - 1].at, bounded)
  <2> DEFINE r == s[i - 1]
             q == s[i]
             f == sch.fields[i]
  <2>1. q = IF i \in omitted THEN LeftOut(r, f) ELSE Onward(r, f, data, bounded)
    BY <1>1 DEF WalkSteps, WalkStep
  <2>2. r.at \in Nat /\ q.at \in Nat
    <3>1. i - 1 \in 0 .. L /\ i \in 0 .. L
      BY <1>0
    <3> QED
      BY <1>2, <3>1
  <2> HIDE DEF r, q, f
  <2>4. CASE i \in omitted
    <3>1. q.ok = r.ok /\ q.at = r.at
      BY <2>1, <2>4 DEF LeftOut
    <3> QED
      BY <2>4, <3>1 DEF q, r
  <2>5. CASE i \notin omitted
    <3>1. q.ok => Span(f, data, r.at, bounded) # {} /\ r.ok
      BY <2>1, <2>5, OnwardSteps
    <3>2. ASSUME q.ok PROVE q.at - r.at \in Span(f, data, r.at, bounded)
      <4>1. PICK n \in Span(f, data, r.at, bounded) : TRUE
        BY <3>1, <3>2
      <4>2. n \in Nat
        BY <4>1 DEF Span
      <4>3. q.at = r.at + n
        BY <2>1, <2>5, <3>1, <3>2, <4>1, OnwardSteps
      <4>4. q.at - r.at = n
        BY <2>2, <4>2, <4>3
      <4> QED
        BY <4>1, <4>4
    <3> QED
      BY <2>5, <3>1, <3>2 DEF q, r, f
  <2> QED
    BY <2>4, <2>5
<1>4. \A i \in 0 .. L : s[i].ok
  <2> DEFINE G == {k \in 0 .. L : s[L - k].ok}
  <2>1. 0 \in G
    <3>1. L - 0 = L /\ 0 \in 0 .. L
      BY <1>0
    <3> QED
      BY <1>1, <3>1
  <2>2. \A k \in 0 .. L - 1 : k \in G => k + 1 \in G
    <3> TAKE k \in 0 .. L - 1
    <3> DEFINE i == L - k
    <3>1. i \in 1 .. L /\ i - 1 = L - (k + 1) /\ k + 1 \in 0 .. L
      BY <1>0
    <3> HIDE DEF i
    <3> QED
      BY <1>3, <3>1 DEF i
  <2> HIDE DEF G
  <2>3. \A k \in 0 .. L : k \in G
    BY <1>0, <2>1, <2>2, Reaches
  <2> TAKE i \in 0 .. L
  <2>4. L - i \in 0 .. L /\ L - (L - i) = i
    BY <1>0
  <2> QED
    BY <2>3, <2>4 DEF G
<1> DEFINE c == [i \in 0 .. L |-> s[i].at]
<1>5. Cuts(c, sch, data, start, bounded, omitted)
  <2>1. c \in [0 .. L -> Nat]
    BY <1>2
  <2>2. c[0] = start
    <3>1. 0 \in 0 .. L /\ s[0] = [ok |-> TRUE, at |-> start, parts |-> <<>>]
      BY <1>0, <1>1 DEF WalkSteps
    <3> QED
      BY <3>1
  <2>3. ASSUME NEW i \in 1 .. L
        PROVE  IF i \in omitted THEN c[i] = c[i - 1]
               ELSE c[i] - c[i - 1] \in Span(sch.fields[i], data, c[i - 1], bounded)
    <3>1. i \in 0 .. L /\ i - 1 \in 0 .. L
      BY <1>0
    <3>2. c[i] = s[i].at /\ c[i - 1] = s[i - 1].at
      BY <3>1
    <3> HIDE DEF c
    <3> QED
      BY <1>3, <1>4, <3>1, <3>2
  <2> HIDE DEF c
  <2> QED
    BY <2>1, <2>2, <2>3 DEF Cuts
<1> HIDE DEF c
<1> QED
  BY <1>5, CutsWalk

-----------------------------------------------------------------------------
(* Pieces behind a header, and the fields of a packet *)

\* The pieces lie in data one behind the other, from `start` to its end.
Laid(c, start, pieces, data) ==
    /\ c \in [0 .. Len(pieces) -> Nat] /\ c[0] = start
    /\ \A i \in 1 .. Len(pieces) : c[i] = c[i - 1] + Len(pieces[i])
    /\ Len(data) = c[Len(pieces)]
    /\ \A i \in 1 .. Len(pieces) : \A k \in 1 .. Len(pieces[i]) :
          data[c[i - 1] + k] = pieces[i][k]

LEMMA LaidRises ==
    ASSUME NEW S, NEW pieces \in Seq(Seq(S)), NEW data, NEW start, NEW c,
           Laid(c, start, pieces, data)
    PROVE  /\ Rising(c, Len(pieces)) /\ Len(pieces) \in Nat
           /\ \A i \in 1 .. Len(pieces) :
                 c[i - 1] \in Nat /\ c[i] \in Nat /\ Len(pieces[i]) \in Nat
<1>0. Len(pieces) \in Nat /\ \A i \in 1 .. Len(pieces) : pieces[i] \in Seq(S)
  OBVIOUS
<1>1. ASSUME NEW i \in 1 .. Len(pieces)
      PROVE  c[i - 1] <= c[i] /\ c[i - 1] \in Nat /\ c[i] \in Nat /\ Len(pieces[i]) \in Nat
  <2>1. i - 1 \in 0 .. Len(pieces) /\ i \in 0 .. Len(pieces) /\ Len(pieces[i]) \in Nat
    BY <1>0
  <2>2. c[i - 1] \in Nat /\ c[i] \in Nat /\ c[i] = c[i - 1] + Len(pieces[i])
    BY <2>1 DEF Laid
  <2> QED
    BY <2>1, <2>2
<1> QED
  BY <1>0, <1>1 DEF Rising, Laid

\* Where the pieces lie follows from where they start.
LEMMA LaidOnce ==
    ASSUME NEW S, NEW pieces \in Seq(Seq(S)), NEW start, NEW data, NEW other,
           NEW c, Laid(c, start, pieces, data), NEW d, Laid(d, start, pieces, other)
    PROVE  c = d
<1> DEFINE n == Len(pieces)
           G == {i \in 0 .. n : c[i] = d[i]}
<1>0. n \in Nat
  OBVIOUS
<1>1. 0 \in G
  BY <1>0 DEF Laid
<1>2. \A i \in 0 .. n - 1 : i \in G => i + 1 \in G
  <2> TAKE i \in 0 .. n - 1
  <2>1. i + 1 \in 1 .. n /\ i + 1 \in 0 .. n /\ (i + 1) - 1 = i
    BY <1>0
  <2>2. c[i + 1] = c[i] + Len(pieces[i + 1]) /\ d[i + 1] = d[i] + Len(pieces[i + 1])
    BY <2>1 DEF Laid
  <2> QED
    BY <2>1, <2>2
<1> HIDE DEF G
<1>3. \A i \in 0 .. n : i \in G
  BY <1>0, <1>1, <1>2, Reaches
<1>4. c \in [0 .. n -> Nat] /\ d \in [0 .. n -> Nat]
  BY DEF Laid
<1> QED
  BY <1>3, <1>4 DEF G

LEMMA LaidSame ==
    ASSUME NEW S, NEW pieces \in Seq(Seq(S)), NEW start \in Nat,
           NEW data \in Seq(S), NEW other \in Seq(S),
           NEW c, Laid(c, start, pieces, data), NEW d, Laid(d, start, pieces, other),
           \A k \in 1 .. start : data[k] = other[k]
    PROVE  data = other
<1> DEFINE n == Len(pieces)
<1>0. c = d
  BY LaidOnce
<1>1. Rising(c, n) /\ n \in Nat
  BY LaidRises
<1>2. Len(data) = c[n] /\ Len(other) = c[n] /\ c[0] = start
  BY <1>0 DEF Laid
<1>3. ASSUME NEW p \in 1 .. Len(data) PROVE data[p] = other[p]
  <2>1. CASE p <= start
    BY <2>1
  <2>2. CASE ~(p <= start)
    <3>1. p \in Nat /\ c[0] < p /\ p <= c[n]
      BY <1>2, <2>2
    <3>2. PICK i \in 1 .. n : c[i - 1] < p /\ p <= c[i]
      BY <1>1, <3>1, Located
    <3> DEFINE k == p - c[i - 1]
    <3>3. /\ c[i - 1] \in Nat /\ Len(pieces[i]) \in Nat
          /\ c[i] = c[i - 1] + Len(pieces[i])
      <4>1. \A j \in 1 .. Len(pieces) :
               c[j - 1] \in Nat /\ c[j] \in Nat /\ Len(pieces[j]) \in Nat
        BY LaidRises
      <4>2. c[i] = c[i - 1] + Len(pieces[i])
        BY DEF Laid
      <4> QED
        BY <4>1, <4>2
    <3>4. k \in 1 .. Len(pieces[i]) /\ c[i - 1] + k = p
      BY <3>1, <3>2, <3>3
    <3> HIDE DEF k
    <3>5. data[c[i - 1] + k] = pieces[i][k] /\ other[c[i - 1] + k] = pieces[i][k]
      BY <1>0, <3>4 DEF Laid
    <3> QED
      BY <3>4, <3>5
  <2> QED
    BY <2>1, <2>2
<1> QED
  BY <1>2, <1>3, SeqEqual

\* Pieces put together behind a header lie there.
LEMMA Headed ==
    ASSUME NEW S, NEW header \in Seq(S), NEW pieces \in Seq(Seq(S))
    PROVE  LET data == header \o FlattenSeq(pieces)
           IN  /\ data \in Seq(S)
               /\ \A k \in 1 .. Len(header) : data[k] = header[k]
               /\ \E c : Laid(c, Len(header), pieces, data)
<1> DEFINE flat == FlattenSeq(pieces)
           data == header \o flat
           h == Len(header)
           n == Len(pieces)
<1>1. flat \in Seq(S) /\ \E b : Layout(b, pieces, flat)
  BY Flattened
<1>2. PICK b : Layout(b, pieces, flat)
  BY <1>1
<1> HIDE DEF flat
<1>3. /\ data \in Seq(S) /\ Len(data) = h + Len(flat) /\ h \in Nat /\ Len(flat) \in Nat
      /\ \A k \in 1 .. h : data[k] = header[k]
      /\ \A k \in 1 .. Len(flat) : data[h + k] = flat[k]
  BY <1>1
<1>4. n \in Nat /\ Rising(b, n)
  BY <1>2, LayoutRises
<1>5. b \in [0 .. n -> Nat]
  BY <1>2 DEF Layout
<1> DEFINE c == [i \in 0 .. n |-> h + b[i]]
<1>6. c \in [0 .. n -> Nat] /\ \A i \in 0 .. n : c[i] = h + b[i]
  BY <1>3, <1>5
<1> HIDE DEF c, data
<1>7. ASSUME NEW i \in 1 .. n
      PROVE  /\ c[i] = c[i - 1] + Len(pieces[i])
             /\ \A k \in 1 .. Len(pieces[i]) : data[c[i - 1] + k] = pieces[i][k]
  <2>1. i - 1 \in 0 .. n /\ i \in 0 .. n /\ n \in 0 .. n
    BY <1>4
  <2>2. b[i - 1] \in Nat /\ b[i] \in Nat /\ Len(pieces[i]) \in Nat /\ b[n] \in Nat
    <3>1. Len(pieces[i]) \in Nat
      OBVIOUS
    <3>2. \A j \in 0 .. n : b[j] \in Nat
      BY <1>5
    <3> QED
      BY <2>1, <3>1, <3>2
  <2>3. b[i] = b[i - 1] + Len(pieces[i]) /\ Len(flat) = b[n] /\ b[i] <= b[n]
    <3>1. b[i] = b[i - 1] + Len(pieces[i]) /\ Len(flat) = b[n]
      BY <1>2 DEF Layout
    <3>2. i <= n
      BY <1>4
    <3> HIDE DEF n
    <3>3. b[i] <= b[n]
      BY <1>4, <2>1, <3>2, RisingFar
    <3> QED
      BY <3>1, <3>3
  <2>6. c[i] = h + b[i] /\ c[i - 1] = h + b[i - 1] /\ h \in Nat
    BY <1>3, <1>6, <2>1
  <2>4. c[i] = c[i - 1] + Len(pieces[i])
    <3> HIDE DEF h
    <3> QED
      BY <2>2, <2>3, <2>6
  <2>5. ASSUME NEW k \in 1 .. Len(pieces[i]) PROVE data[c[i - 1] + k] = pieces[i][k]
    <3>1. flat[b[i - 1] + k] = pieces[i][k]
      BY <1>2 DEF Layout
    <3>2. b[i - 1] + k \in 1 .. Len(flat) /\ c[i - 1] + k = h + (b[i - 1] + k)
      <4> DEFINE a == b[i - 1]
                 l == Len(pieces[i])
                 e == b[n]
      <4>1. k \in 1 .. l /\ a \in Nat /\ l \in Nat /\ e \in Nat /\ a + l <= e
            /\ Len(flat) = e /\ c[i - 1] = h + a /\ h \in Nat
        BY <2>2, <2>3, <2>6
      <4> HIDE DEF a, l, e, h
      <4>2. a + k \in 1 .. Len(flat) /\ c[i - 1] + k = h + (a + k)
        BY <4>1
      <4> QED
        BY <4>2 DEF a
    <3> QED
      BY <1>3, <3>1, <3>2
  <2> QED
    BY <2>4, <2>5
<1>8. c[0] = h /\ Len(data) = c[n]
  <2>1. 0 \in 0 .. n /\ n \in 0 .. n
    BY <1>4
  <2>2. b[0] = 0 /\ Len(flat) = b[n]
    BY <1>2 DEF Layout
  <2> QED
    BY <1>3, <1>6, <2>1, <2>2
<1>9. Laid(c, h, pieces, data)
  BY <1>6, <1>7, <1>8 DEF Laid
<1> QED
  BY <1>3, <1>9 DEF data, flat

\* And only they make up what they lie in.
LEMMA MadeOf ==
    ASSUME NEW S, NEW header \in Seq(S), NEW pieces \in Seq(Seq(S)), NEW data \in Seq(S),
           NEW c, Laid(c, Len(header), pieces, data),
           \A k \in 1 .. Len(header) : data[k] = header[k]
    PROVE  data = header \o FlattenSeq(pieces)
<1> DEFINE made == header \o FlattenSeq(pieces)
<1>1. /\ made \in Seq(S)
      /\ \A k \in 1 .. Len(header) : made[k] = header[k]
      /\ \E d : Laid(d, Len(header), pieces, made)
  BY Headed
<1> HIDE DEF made
<1>2. PICK d : Laid(d, Len(header), pieces, made)
  BY <1>1
<1>3. Len(header) \in Nat /\ \A k \in 1 .. Len(header) : data[k] = made[k]
  BY <1>1
<1>4. data = made
  BY <1>1, <1>2, <1>3, LaidSame
<1> QED
  BY <1>4 DEF made

\* The bytes of a field are the same number wherever they are.
LEMMA SpanMoves ==
    ASSUME NEW f, NEW data, NEW at \in Nat, NEW bounded, NEW other, NEW to \in Nat,
           Len(other) \in Nat,
           NEW n \in Span(f, data, at, bounded), to + n <= Len(other),
           \A k \in 1 .. n : other[to + k] = data[at + k]
    PROVE  n \in Span(f, other, to, bounded)
<1>1. n \in Nat /\ n >= 1
  BY DEF Span
<1>2. n \in 1 .. Len(other) - to
  BY <1>1
<1>3. other[to + 1] = data[at + 1]
  BY <1>1
<1> QED
  BY <1>2, <1>3 DEF Span

\* A span that respects the bound is one without it.
LEMMA SpanLoose ==
    ASSUME NEW f, NEW data, NEW at, NEW bounded
    PROVE  Span(f, data, at, bounded) \subseteq Span(f, data, at, FALSE)
  BY DEF Span

LEMMA CutsLoose ==
    ASSUME NEW c, NEW sch, NEW data, NEW start, NEW bounded, NEW omitted,
           Cuts(c, sch, data, start, bounded, omitted)
    PROVE  Cuts(c, sch, data, start, FALSE, omitted)
<1>1. ASSUME NEW i \in 1 .. Len(sch.fields)
      PROVE  IF i \in omitted THEN c[i] = c[i - 1]
             ELSE c[i] - c[i - 1] \in Span(sch.fields[i], data, c[i - 1], FALSE)
  <2>1. Span(sch.fields[i], data, c[i - 1], bounded)
           \subseteq Span(sch.fields[i], data, c[i - 1], FALSE)
    BY SpanLoose
  <2> QED
    BY <2>1 DEF Cuts
<1> QED
  BY <1>1 DEF Cuts

\* No cut is behind the end, and none before the one before it.
LEMMA CutsRise ==
    ASSUME NEW c, NEW sch, NEW data, NEW start, NEW bounded, NEW omitted,
           Shaped(sch), Len(data) \in Nat, start <= Len(data),
           Cuts(c, sch, data, start, bounded, omitted)
    PROVE  /\ Rising(c, Len(sch.fields))
           /\ \A i \in 0 .. Len(sch.fields) :
                 c[i] \in Nat /\ start <= c[i] /\ c[i] <= Len(data)
<1> DEFINE L == Len(sch.fields)
           G == {i \in 0 .. L : start <= c[i] /\ c[i] <= Len(data)}
<1>0. L \in Nat /\ start \in Nat /\ \A i \in 0 .. L : c[i] \in Nat
  <2>1. L \in Nat
    BY DEF Shaped
  <2>2. c \in [0 .. L -> Nat] /\ c[0] = start
    BY DEF Cuts
  <2> QED
    BY <2>1, <2>2
<1>1. 0 \in G
  BY <1>0 DEF Cuts
<1>2. ASSUME NEW i \in 1 .. L
      PROVE  /\ i - 1 \in 0 .. L /\ i \in 0 .. L
             /\ (c[i - 1] <= c[i] /\ c[i] <= Len(data)) \/ c[i] = c[i - 1]
             /\ c[i - 1] <= c[i]
  <2>1. i - 1 \in 0 .. L /\ i \in 0 .. L
    BY <1>0
  <2>2. c[i - 1] \in Nat /\ c[i] \in Nat
    BY <1>0, <2>1
  <2>3. CASE i \in omitted
    BY <2>1, <2>2, <2>3 DEF Cuts
  <2>4. CASE i \notin omitted
    <3>1. c[i] - c[i - 1] \in 1 .. Len(data) - c[i - 1]
      BY <2>4 DEF Cuts, Span
    <3> QED
      BY <2>1, <2>2, <3>1
  <2> QED
    BY <2>3, <2>4
<1>3. \A i \in 0 .. L - 1 : i \in G => i + 1 \in G
  <2> TAKE i \in 0 .. L - 1
  <2>1. i + 1 \in 1 .. L /\ i + 1 \in 0 .. L /\ (i + 1) - 1 = i /\ i \in 0 .. L
    BY <1>0
  <2>2. /\ (c[i] <= c[i + 1] /\ c[i + 1] <= Len(data)) \/ c[i + 1] = c[i]
        /\ c[i] <= c[i + 1]
    BY <1>2, <2>1
  <2>3. c[i] \in Nat /\ c[i + 1] \in Nat
    BY <1>0, <2>1
  <2> QED
    BY <1>0, <2>1, <2>2, <2>3
<1> HIDE DEF G
<1>4. \A i \in 0 .. L : i \in G
  BY <1>0, <1>1, <1>3, Reaches
<1>5. Rising(c, L)
  BY <1>2 DEF Rising, Cuts
<1> QED
  BY <1>0, <1>4, <1>5 DEF G

\* There is one way to cut up what there is.
LEMMA CutsOnce ==
    ASSUME NEW sch, Shaped(sch), NEW data, NEW start, NEW bounded, NEW loose, NEW omitted,
           NEW c, Cuts(c, sch, data, start, bounded, omitted),
           NEW d, Cuts(d, sch, data, start, loose, omitted)
    PROVE  c = d
<1> DEFINE L == Len(sch.fields)
           G == {i \in 0 .. L : c[i] = d[i]}
<1>0. L \in Nat
  BY DEF Shaped
<1>1. /\ Cuts(c, sch, data, start, FALSE, omitted)
      /\ Cuts(d, sch, data, start, FALSE, omitted)
  BY CutsLoose
<1>2. c \in [0 .. L -> Nat] /\ d \in [0 .. L -> Nat] /\ c[0] = d[0]
  BY <1>1 DEF Cuts
<1>3. 0 \in G
  BY <1>0, <1>2
<1>4. \A i \in 0 .. L - 1 : i \in G => i + 1 \in G
  <2> TAKE i \in 0 .. L - 1
  <2>1. i + 1 \in 1 .. L /\ i + 1 \in 0 .. L /\ (i + 1) - 1 = i /\ i \in 0 .. L
    BY <1>0
  <2>2. c[i] \in Nat /\ c[i + 1] \in Nat /\ d[i + 1] \in Nat
    BY <1>2, <2>1
  <2>3. ASSUME c[i] = d[i] PROVE c[i + 1] = d[i + 1]
    <3> DEFINE f == sch.fields[i + 1]
               a == c[i]
               m == c[i + 1] - a
               n == d[i + 1] - a
    <3>1. CASE i + 1 \in omitted
      BY <1>1, <2>1, <2>3, <3>1 DEF Cuts
    <3>2. CASE i + 1 \notin omitted
      <4>1. m \in Span(f, data, a, FALSE) /\ n \in Span(f, data, a, FALSE)
        BY <1>1, <2>1, <2>3, <3>2 DEF Cuts
      <4> HIDE DEF m, n, f, a
      <4>2. m = n
        BY <4>1, SpanOne
      <4> QED
        BY <2>2, <4>2 DEF m, n, a
    <3> QED
      BY <3>1, <3>2
  <2> QED
    BY <2>1, <2>3
<1> HIDE DEF G
<1>5. \A i \in 0 .. L : i \in G
  BY <1>0, <1>3, <1>4, Reaches
<1> QED
  BY <1>2, <1>5 DEF G

\* What is behind the last field changes nothing.
LEMMA CutsExtend ==
    ASSUME NEW c, NEW sch, NEW data, NEW other, NEW start, NEW bounded, NEW omitted,
           Shaped(sch), Len(data) \in Nat, start <= Len(data),
           Len(other) \in Nat, Len(data) <= Len(other),
           \A k \in 1 .. Len(data) : other[k] = data[k],
           Cuts(c, sch, data, start, bounded, omitted)
    PROVE  Cuts(c, sch, other, start, bounded, omitted)
<1>1. ASSUME NEW i \in 1 .. Len(sch.fields), i \notin omitted
      PROVE  c[i] - c[i - 1] \in Span(sch.fields[i], other, c[i - 1], bounded)
  <2> DEFINE a == c[i - 1]
             n == c[i] - a
             f == sch.fields[i]
  <2>1. a \in Nat /\ c[i] \in Nat /\ c[i] <= Len(data)
    <3>1. i - 1 \in 0 .. Len(sch.fields) /\ i \in 0 .. Len(sch.fields)
      BY DEF Shaped
    <3> QED
      BY <3>1, CutsRise
  <2>2. n \in Span(f, data, a, bounded)
    BY <1>1 DEF Cuts
  <2>3. n \in 1 .. Len(data) - a
    BY <2>2 DEF Span
  <2> HIDE DEF a, n, f
  <2>6. n \in Nat /\ n >= 1 /\ a + n <= Len(data)
    BY <2>1, <2>3
  <2>7. ASSUME NEW k \in 1 .. n PROVE other[a + k] = data[a + k]
    <3>1. a + k \in 1 .. Len(data)
      BY <2>1, <2>6
    <3> QED
      BY <3>1
  <2>4. a + n <= Len(other) /\ \A k \in 1 .. n : other[a + k] = data[a + k]
    BY <2>1, <2>6, <2>7
  <2>5. n \in Span(f, other, a, bounded)
    BY <2>1, <2>2, <2>4, SpanMoves
  <2> QED
    BY <2>5 DEF n, f, a
<1> QED
  BY <1>1 DEF Cuts

\* What is read between the cuts, without the fields that are left out.
KeptAt(c, sch, data, omitted) ==
    [i \in 1 .. Len(sch.fields) |->
        IF i \in omitted THEN <<>> ELSE SubSeq(data, c[i - 1] + 1, c[i])]

LEMMA CutsLaid ==
    ASSUME NEW c, NEW sch, NEW data \in Seq(Bytes), NEW start \in Nat, NEW bounded,
           NEW omitted, Shaped(sch), start <= Len(data),
           Cuts(c, sch, data, start, bounded, omitted), c[Len(sch.fields)] = Len(data)
    PROVE  LET kept == KeptAt(c, sch, data, omitted)
           IN  /\ kept \in Seq(Seq(Bytes)) /\ Len(kept) = Len(sch.fields)
               /\ Laid(c, start, kept, data)
<1> DEFINE L == Len(sch.fields)
           kept == KeptAt(c, sch, data, omitted)
<1>0. L \in Nat /\ Len(data) \in Nat
  BY DEF Shaped
<1>1. \A i \in 0 .. L : c[i] \in Nat /\ c[i] <= Len(data)
  BY <1>0, CutsRise
<1>2. ASSUME NEW i \in 1 .. L
      PROVE  /\ c[i - 1] \in Nat /\ c[i] \in Nat /\ kept[i] \in Seq(Bytes)
             /\ c[i] = c[i - 1] + Len(kept[i])
             /\ \A k \in 1 .. Len(kept[i]) : data[c[i - 1] + k] = kept[i][k]
  <2> DEFINE a == c[i - 1]
             b == c[i]
             piece == SubSeq(data, a + 1, b)
  <2>1. i - 1 \in 0 .. L /\ i \in 0 .. L
    BY <1>0
  <2>2. a \in Nat /\ b \in Nat /\ b <= Len(data)
    BY <1>1, <2>1
  <2>3. kept[i] = IF i \in omitted THEN <<>> ELSE piece
    BY DEF KeptAt
  <2>4. IF i \in omitted THEN b = a ELSE b - a \in 1 .. Len(data) - a
    BY DEF Cuts, Span
  <2> HIDE DEF kept, a, b, L
  <2>5. CASE i \in omitted
    <3>1. kept[i] = <<>> /\ b = a
      BY <2>3, <2>4, <2>5
    <3>2. Len(kept[i]) = 0 /\ kept[i] \in Seq(Bytes)
      BY <3>1
    <3> QED
      BY <2>2, <3>1, <3>2 DEF a, b
  <2>6. CASE i \notin omitted
    <3>1. b - a \in 1 .. Len(data) - a /\ kept[i] = piece
      BY <2>3, <2>4, <2>6
    <3>2. a <= b
      BY <2>2, <3>1
    <3>3. /\ piece \in Seq(Bytes) /\ Len(piece) = b - a
          /\ \A k \in 1 .. b - a : piece[k] = data[a + k]
      BY <2>2, <3>2, Slicing
    <3> HIDE DEF piece
    <3>4. /\ kept[i] \in Seq(Bytes) /\ Len(kept[i]) = b - a
          /\ \A k \in 1 .. Len(kept[i]) : data[a + k] = kept[i][k]
      BY <3>1, <3>3
    <3>5. b = a + Len(kept[i])
      BY <2>2, <3>4
    <3> QED
      BY <2>2, <3>4, <3>5 DEF a, b
  <2> QED
    BY <2>5, <2>6
<1>3. kept \in Seq(Seq(Bytes)) /\ Len(kept) = L
  <2>1. kept = [i \in 1 .. L |-> kept[i]]
    BY DEF KeptAt
  <2> HIDE DEF kept, L
  <2> QED
    BY <1>0, <1>2, <2>1
<1> HIDE DEF kept
<1>4. Laid(c, start, kept, data)
  <2>1. c \in [0 .. L -> Nat] /\ c[0] = start
    BY DEF Cuts
  <2> QED
    BY <1>2, <1>3, <2>1 DEF Laid
<1> QED
  BY <1>3, <1>4 DEF kept

\* What lies somewhere is what is read there.
LEMMA ReadBack ==
    ASSUME NEW S, NEW piece \in Seq(S), NEW data \in Seq(S), NEW a \in Nat,
           NEW b \in Nat, b = a + Len(piece), b <= Len(data),
           \A k \in 1 .. Len(piece) : data[a + k] = piece[k]
    PROVE  SubSeq(data, a + 1, b) = piece
<1> DEFINE part == SubSeq(data, a + 1, b)
<1>1. a <= b /\ b - a = Len(piece)
  OBVIOUS
<1>2. /\ part \in Seq(S) /\ Len(part) = b - a
      /\ \A k \in 1 .. b - a : part[k] = data[a + k]
  BY <1>1, Slicing
<1> HIDE DEF part
<1>3. part = piece
  BY <1>1, <1>2, SeqEqual
<1> QED
  BY <1>3 DEF part

LEMMA LaidKept ==
    ASSUME NEW c, NEW sch, NEW data \in Seq(Bytes), NEW start \in Nat, NEW omitted,
           NEW pieces \in Seq(Seq(Bytes)), Len(pieces) = Len(sch.fields),
           Laid(c, start, pieces, data),
           \A i \in 1 .. Len(pieces) : i \in omitted => pieces[i] = <<>>
    PROVE  KeptAt(c, sch, data, omitted) = pieces
<1> DEFINE L == Len(pieces)
<1>0. L \in Nat /\ Len(data) \in Nat /\ Len(data) = c[L] /\ Rising(c, L)
  <2>1. Rising(c, L) /\ L \in Nat
    BY LaidRises
  <2>2. Len(data) = c[L]
    BY DEF Laid
  <2> QED
    BY <2>1, <2>2
<1>1. ASSUME NEW i \in 1 .. L PROVE SubSeq(data, c[i - 1] + 1, c[i]) = pieces[i]
  <2> DEFINE a == c[i - 1]
             b == c[i]
             piece == pieces[i]
  <2>1. piece \in Seq(Bytes) /\ Len(piece) \in Nat
    OBVIOUS
  <2>2. b = a + Len(piece) /\ \A k \in 1 .. Len(piece) : data[a + k] = piece[k]
    BY DEF Laid
  <2>3. a \in Nat /\ b \in Nat /\ b <= Len(data)
    <3>1. i - 1 \in 0 .. L /\ i \in 0 .. L /\ L \in 0 .. L /\ i <= L
      BY <1>0
    <3>2. c[i - 1] \in Nat /\ c[i] \in Nat
      BY <1>0, <3>1 DEF Rising
    <3> HIDE DEF L
    <3>3. c[i] <= c[L]
      BY <1>0, <3>1, RisingFar
    <3> QED
      BY <1>0, <3>2, <3>3
  <2> HIDE DEF a, b, piece
  <2>4. SubSeq(data, a + 1, b) = piece
    BY <2>1, <2>2, <2>3, ReadBack
  <2> QED
    BY <2>4 DEF a, b, piece
<1>2. \A i \in 1 .. L : pieces[i] = IF i \in omitted THEN <<>>
                                    ELSE SubSeq(data, c[i - 1] + 1, c[i])
  BY <1>1
<1>3. pieces = [i \in 1 .. L |-> pieces[i]]
  OBVIOUS
<1> HIDE DEF L
<1> QED
  BY <1>2, <1>3 DEF KeptAt, L

LEMMA LaidCuts ==
    ASSUME NEW c, NEW sch, NEW data \in Seq(Bytes), NEW start \in Nat, NEW bounded,
           NEW omitted, Shaped(sch),
           NEW pieces \in Seq(Seq(Bytes)), Len(pieces) = Len(sch.fields),
           Laid(c, start, pieces, data),
           \A i \in 1 .. Len(pieces) :
              IF i \in omitted THEN pieces[i] = <<>>
              ELSE Len(pieces[i]) \in Span(sch.fields[i], pieces[i], 0, bounded)
    PROVE  /\ Cuts(c, sch, data, start, bounded, omitted)
           /\ c[Len(sch.fields)] = Len(data)
           /\ KeptAt(c, sch, data, omitted) = pieces
<1> DEFINE L == Len(pieces)
<1>0. L \in Nat /\ Len(data) \in Nat /\ Len(data) = c[L] /\ Rising(c, L)
  <2>1. Rising(c, L) /\ L \in Nat
    BY LaidRises
  <2>2. Len(data) = c[L]
    BY DEF Laid
  <2> QED
    BY <2>1, <2>2
<1>1. ASSUME NEW i \in 1 .. L
      PROVE  /\ i \in omitted => c[i] = c[i - 1]
             /\ i \notin omitted =>
                   c[i] - c[i - 1] \in Span(sch.fields[i], data, c[i - 1], bounded)
  <2> DEFINE a == c[i - 1]
             b == c[i]
             piece == pieces[i]
             f == sch.fields[i]
  <2>1. piece \in Seq(Bytes) /\ Len(piece) \in Nat
    OBVIOUS
  <2>2. b = a + Len(piece) /\ \A k \in 1 .. Len(piece) : data[a + k] = piece[k]
    BY DEF Laid
  <2>3. a \in Nat /\ b \in Nat /\ b <= Len(data)
    <3>1. i - 1 \in 0 .. L /\ i \in 0 .. L /\ L \in 0 .. L /\ i <= L
      BY <1>0
    <3>2. c[i - 1] \in Nat /\ c[i] \in Nat
      BY <1>0, <3>1 DEF Rising
    <3> HIDE DEF L
    <3>3. c[i] <= c[L]
      BY <1>0, <3>1, RisingFar
    <3> QED
      BY <1>0, <3>2, <3>3
  <2>4. IF i \in omitted THEN piece = <<>> ELSE Len(piece) \in Span(f, piece, 0, bounded)
    OBVIOUS
  <2> HIDE DEF a, b, piece, f, L
  <2>5. CASE i \in omitted
    <3>1. Len(piece) = 0
      BY <2>4, <2>5
    <3> QED
      BY <2>2, <2>3, <2>5, <3>1 DEF a, b
  <2>6. CASE i \notin omitted
    <3> DEFINE n == Len(piece)
    <3>1. n \in Span(f, piece, 0, bounded)
      BY <2>4, <2>6
    <3>2. n \in Nat /\ a + n <= Len(data) /\ b - a = n /\ \A k \in 1 .. n : data[a + k] = piece[0 + k]
      BY <2>1, <2>2, <2>3
    <3> HIDE DEF n
    <3>3. n \in Span(f, data, a, bounded)
      BY <1>0, <2>3, <3>1, <3>2, SpanMoves
    <3> QED
      BY <2>6, <3>2, <3>3 DEF a, b, f
  <2> QED
    BY <2>5, <2>6
<1>2. Cuts(c, sch, data, start, bounded, omitted)
  BY <1>1 DEF Cuts, Laid
<1>3. KeptAt(c, sch, data, omitted) = pieces
  BY LaidKept
<1> QED
  BY <1>0, <1>2, <1>3

-----------------------------------------------------------------------------
(* Encoding *)

FieldWritable(v) ==
    v.kind # "fixed" /\ ~v.ref =>
        Len(v.bytes) < IF v.kind = "string" THEN RefMark ELSE Radix

FieldWithin(f, v) == f.kind # "fixed" /\ ~v.ref => Len(v.bytes) <= f.size

\* A field is read back as it was written, if its length can be written.
LEMMA FieldEncoded ==
    ASSUME NEW f, f.kind \in Kinds, f.size \in Nat, f.kind = "fixed" => f.size > 0,
           NEW v \in Value, HasType(f, v)
    PROVE  /\ EncodeField(f, v) \in Seq(Bytes) /\ Len(EncodeField(f, v)) \in Nat \ {0}
           /\ FieldWritable(v) =>
                 /\ Len(EncodeField(f, v)) \in Span(f, EncodeField(f, v), 0, FALSE)
                 /\ FieldWithin(f, v) =>
                       Len(EncodeField(f, v)) \in Span(f, EncodeField(f, v), 0, TRUE)
                 /\ ValueOf(f, EncodeField(f, v)) = v
<1> DEFINE piece == EncodeField(f, v)
<1>0. Radix \in Nat /\ Radix >= 3 /\ RefMark \in Bytes /\ RefMark = Radix - 1
  BY RadixLarge DEF Bytes, RefMark
<1>1. /\ v.kind \in Kinds /\ v.ref \in BOOLEAN /\ v.bytes \in Seq(Bytes)
      /\ v = [kind |-> v.kind, ref |-> v.ref, bytes |-> v.bytes]
      /\ v.ref => v.kind = "string" /\ Len(v.bytes) = 1 /\ v.bytes[1] \in Bytes
  <2>1. DOMAIN Sends \subseteq Bytes
    BY DictionaryAssumption
  <2> QED
    BY <2>1 DEF Value
<1>2. v.kind = f.kind /\ (f.kind = "fixed" => Len(v.bytes) = f.size)
  BY DEF HasType
<1>3. CASE f.kind = "fixed"
  <2>1. piece = v.bytes /\ ~v.ref
    BY <1>1, <1>2, <1>3 DEF EncodeField
  <2>2. piece \in Seq(Bytes) /\ Len(piece) = f.size /\ f.size \in Nat \ {0}
    BY <1>1, <1>2, <1>3, <2>1
  <2>3. ValueOf(f, piece) = v
    <3>1. ValueOf(f, piece) = [kind |-> f.kind, ref |-> FALSE, bytes |-> piece]
      BY <1>3 DEF ValueOf, Own
    <3>2. v = [kind |-> f.kind, ref |-> FALSE, bytes |-> piece]
      BY <1>1, <1>2, <1>3, <2>1
    <3> QED
      BY <3>1, <3>2
  <2> HIDE DEF piece
  <2>4. Len(piece) \in Span(f, piece, 0, FALSE) /\ Len(piece) \in Span(f, piece, 0, TRUE)
    BY <1>3, <2>2 DEF Span
  <2> QED
    BY <2>2, <2>3, <2>4 DEF piece
<1>4. CASE v.ref
  <2>1. f.kind = "string" /\ piece = <<RefMark, v.bytes[1]>>
    BY <1>1, <1>2, <1>4 DEF EncodeField
  <2>2. /\ piece \in Seq(Bytes) /\ Len(piece) = 2
        /\ piece[1] = RefMark /\ piece[2] = v.bytes[1]
    BY <1>0, <1>1, <1>4, <2>1
  <2>3. ValueOf(f, piece) = v
    <3>1. ValueOf(f, piece) = [kind |-> "string", ref |-> TRUE, bytes |-> <<v.bytes[1]>>]
      BY <2>1, <2>2 DEF ValueOf, Reference
    <3>2. v.bytes = <<v.bytes[1]>>
      BY <1>1, <1>4
    <3> QED
      BY <1>1, <1>2, <1>4, <2>1, <3>1, <3>2
  <2> HIDE DEF piece
  <2>4. Len(piece) \in Span(f, piece, 0, FALSE) /\ Len(piece) \in Span(f, piece, 0, TRUE)
    BY <2>1, <2>2 DEF Span
  <2>5. Len(piece) \in Nat \ {0}
    BY <2>2
  <2> QED
    BY <2>2, <2>3, <2>4, <2>5 DEF piece
<1>5. CASE f.kind # "fixed" /\ ~v.ref
  <2> DEFINE l == Len(v.bytes)
             m == l % Radix
  <2>1. piece = <<m>> \o v.bytes
    BY <1>5 DEF EncodeField
  <2>2. l \in Nat /\ m \in Bytes /\ (l < Radix => m = l)
    <3>1. l \in Nat
      BY <1>1
    <3> HIDE DEF l
    <3>2. m \in 0 .. Radix - 1
      BY <1>0, <3>1
    <3>3. l < Radix => m = l
      BY <1>0, <3>1, ResidueInRange
    <3> QED
      BY <3>1, <3>2, <3>3 DEF Bytes
  <2> HIDE DEF piece, m
  <2>3. /\ piece \in Seq(Bytes) /\ Len(piece) = 1 + l
        /\ piece[1] = m /\ Tail(piece) = v.bytes
    BY <1>1, <2>1, <2>2
  <2>4. ASSUME FieldWritable(v)
        PROVE  /\ m = l /\ (f.kind = "string" => m # RefMark)
               /\ Len(piece) \in Span(f, piece, 0, FALSE)
               /\ FieldWithin(f, v) => Len(piece) \in Span(f, piece, 0, TRUE)
               /\ ValueOf(f, piece) = v
    <3>1. m = l /\ (f.kind = "string" => m # RefMark)
      BY <1>0, <1>2, <1>5, <2>2, <2>4 DEF FieldWritable
    <3>2. Len(piece) \in 1 .. Len(piece) - 0 /\ piece[0 + 1] = l
      BY <2>2, <2>3, <3>1
    <3>3. Len(piece) \in Span(f, piece, 0, FALSE)
      BY <1>5, <2>3, <3>1, <3>2 DEF Span
    <3>4. FieldWithin(f, v) => l <= f.size
      BY <1>5 DEF FieldWithin
    <3>5. FieldWithin(f, v) => Len(piece) \in Span(f, piece, 0, TRUE)
      BY <1>5, <2>3, <3>1, <3>2, <3>4 DEF Span
    <3>6. ValueOf(f, piece) = [kind |-> f.kind, ref |-> FALSE, bytes |-> v.bytes]
      BY <1>5, <2>3, <3>1 DEF ValueOf, Own
    <3> QED
      BY <1>1, <1>2, <1>5, <3>1, <3>3, <3>5, <3>6
  <2>5. Len(piece) \in Nat \ {0}
    BY <2>2, <2>3
  <2> QED
    BY <2>3, <2>4, <2>5 DEF piece
<1> QED
  BY <1>3, <1>4, <1>5

\* The values of a record, as a call may get them.
Typed(sch, values) == values \in Seq(Value) /\ HasTypes(sch, values)

Pieces(sch, values) == [i \in 1 .. Len(sch.fields) |-> EncodeField(sch.fields[i], values[i])]

LEMMA PiecesType ==
    ASSUME NEW sch, Shaped(sch), NEW values, Typed(sch, values)
    PROVE  /\ Pieces(sch, values) \in Seq(Seq(Bytes))
           /\ Len(Pieces(sch, values)) = Len(sch.fields)
           /\ \A i \in 1 .. Len(sch.fields) :
                 /\ i \in DOMAIN values
                 /\ sch.fields[i].kind \in Kinds /\ sch.fields[i].size \in Nat
                 /\ sch.fields[i].kind = "fixed" => sch.fields[i].size > 0
                 /\ values[i] \in Value /\ HasType(sch.fields[i], values[i])
                 /\ Pieces(sch, values)[i] = EncodeField(sch.fields[i], values[i])
                 /\ Len(Pieces(sch, values)[i]) \in Nat \ {0}
<1> DEFINE L == Len(sch.fields)
<1>0. L \in Nat /\ values \in Seq(Value) /\ Len(values) = L
  BY DEF Shaped, Typed, HasTypes
<1>1. ASSUME NEW i \in 1 .. L
      PROVE  /\ i \in DOMAIN values
             /\ sch.fields[i].kind \in Kinds /\ sch.fields[i].size \in Nat
             /\ sch.fields[i].kind = "fixed" => sch.fields[i].size > 0
             /\ values[i] \in Value /\ HasType(sch.fields[i], values[i])
             /\ EncodeField(sch.fields[i], values[i]) \in Seq(Bytes)
             /\ Len(EncodeField(sch.fields[i], values[i])) \in Nat \ {0}
  <2>1. i \in DOMAIN values /\ values[i] \in Value
    BY <1>0
  <2>2. HasType(sch.fields[i], values[i])
    BY <2>1 DEF Typed, HasTypes
  <2>3. /\ sch.fields[i].kind \in Kinds /\ sch.fields[i].size \in Nat
        /\ sch.fields[i].kind = "fixed" => sch.fields[i].size > 0
    BY DEF Shaped
  <2> QED
    BY <2>1, <2>2, <2>3, FieldEncoded
<1>2. \A i \in 1 .. L : EncodeField(sch.fields[i], values[i]) \in Seq(Bytes)
  BY <1>1
<1>3. /\ Pieces(sch, values) \in Seq(Seq(Bytes)) /\ Len(Pieces(sch, values)) = L
      /\ \A i \in 1 .. L : Pieces(sch, values)[i] = EncodeField(sch.fields[i], values[i])
  BY <1>0, <1>2 DEF Pieces
<1> QED
  BY <1>1, <1>3

LEMMA EncodedLaid ==
    ASSUME NEW sch, Shaped(sch), NEW values, Typed(sch, values)
    PROVE  /\ Encode(sch, values) \in Seq(Bytes)
           /\ Encode(sch, values)[1] = sch.id /\ Len(Encode(sch, values)) >= 2
           /\ \E c : Laid(c, 1, Pieces(sch, values), Encode(sch, values))
<1> DEFINE pieces == Pieces(sch, values)
           header == <<sch.id>>
           p == header \o FlattenSeq(pieces)
<1>1. p = Encode(sch, values)
  BY DEF Encode, Pieces, Shaped
<1>2. header \in Seq(Bytes) /\ Len(header) = 1 /\ header[1] = sch.id
  BY DEF Shaped
<1>3. pieces \in Seq(Seq(Bytes)) /\ Len(pieces) = Len(sch.fields)
  BY PiecesType
<1> HIDE DEF pieces, header
<1>4. /\ p \in Seq(Bytes) /\ (\A k \in 1 .. Len(header) : p[k] = header[k])
      /\ \E c : Laid(c, Len(header), pieces, p)
  BY <1>2, <1>3, Headed
<1> HIDE DEF p
<1>5. p[1] = sch.id
  BY <1>2, <1>4
<1>6. PICK c : Laid(c, 1, pieces, p)
  BY <1>2, <1>4
<1>7. Len(p) >= 2
  <2>1. Rising(c, Len(pieces)) /\ Len(pieces) \in Nat \ {0}
    BY <1>3, <1>6, LaidRises DEF Shaped
  <2>2. 1 \in 1 .. Len(pieces) /\ 1 \in 0 .. Len(pieces) /\ 1 - 1 = 0
        /\ Len(pieces) \in 0 .. Len(pieces) /\ 1 <= Len(pieces)
    BY <2>1
  <2>3. c[1] <= c[Len(pieces)] /\ c[1] \in Nat /\ c[Len(pieces)] \in Nat
    BY <2>1, <2>2, RisingFar DEF Rising
  <2>4. c[1] = 1 + Len(pieces[1]) /\ Len(p) = c[Len(pieces)]
    BY <1>6, <2>2 DEF Laid
  <2>5. Len(pieces[1]) \in Nat \ {0}
    BY <1>3, <2>2, PiecesType DEF pieces
  <2> QED
    BY <2>3, <2>4, <2>5
<1> QED
  BY <1>1, <1>4, <1>5, <1>6, <1>7 DEF pieces

Within(sch, values) == \A i \in 1 .. Len(sch.fields) : FieldWithin(sch.fields[i], values[i])

\* A packet whose lengths can be written is cut up into its fields.
LEMMA EncodedCuts ==
    ASSUME NEW sch, Shaped(sch), NEW values, Typed(sch, values), Writable(values),
           NEW c, Laid(c, 1, Pieces(sch, values), Encode(sch, values))
    PROVE  /\ Cuts(c, sch, Encode(sch, values), 1, FALSE, {})
           /\ c[Len(sch.fields)] = Len(Encode(sch, values))
           /\ KeptAt(c, sch, Encode(sch, values), {}) = Pieces(sch, values)
           /\ Within(sch, values) => Cuts(c, sch, Encode(sch, values), 1, TRUE, {})
<1> DEFINE pieces == Pieces(sch, values)
           p == Encode(sch, values)
<1>1. p \in Seq(Bytes)
  BY EncodedLaid
<1>2. pieces \in Seq(Seq(Bytes)) /\ Len(pieces) = Len(sch.fields)
  BY PiecesType
<1>3. ASSUME NEW i \in 1 .. Len(pieces)
      PROVE  /\ Len(pieces[i]) \in Span(sch.fields[i], pieces[i], 0, FALSE)
             /\ FieldWithin(sch.fields[i], values[i]) =>
                   Len(pieces[i]) \in Span(sch.fields[i], pieces[i], 0, TRUE)
  <2>1. /\ i \in DOMAIN values
        /\ sch.fields[i].kind \in Kinds /\ sch.fields[i].size \in Nat
        /\ sch.fields[i].kind = "fixed" => sch.fields[i].size > 0
        /\ values[i] \in Value /\ HasType(sch.fields[i], values[i])
        /\ pieces[i] = EncodeField(sch.fields[i], values[i])
    BY <1>2, PiecesType
  <2>2. FieldWritable(values[i])
    BY <2>1 DEF Writable, FieldWritable
  <2> HIDE DEF pieces
  <2> QED
    BY <2>1, <2>2, FieldEncoded
<1> HIDE DEF pieces, p
<1>4. Laid(c, 1, pieces, p)
  BY DEF pieces, p
<1>5. /\ Cuts(c, sch, p, 1, FALSE, {}) /\ c[Len(sch.fields)] = Len(p)
      /\ KeptAt(c, sch, p, {}) = pieces
  <2>1. \A i \in 1 .. Len(pieces) :
           IF i \in {} THEN pieces[i] = <<>>
           ELSE Len(pieces[i]) \in Span(sch.fields[i], pieces[i], 0, FALSE)
    BY <1>3
  <2>2. Cuts(c, sch, p, 1, FALSE, {})
    BY <1>1, <1>2, <1>4, <2>1, LaidCuts
  <2>3. c[Len(sch.fields)] = Len(p)
    BY <1>2, <1>4 DEF Laid
  <2>4. KeptAt(c, sch, p, {}) = pieces
    BY <1>1, <1>2, <1>4, LaidKept
  <2> QED
    BY <2>2, <2>3, <2>4
<1>6. ASSUME Within(sch, values) PROVE Cuts(c, sch, p, 1, TRUE, {})
  <2>1. \A i \in 1 .. Len(pieces) :
           IF i \in {} THEN pieces[i] = <<>>
           ELSE Len(pieces[i]) \in Span(sch.fields[i], pieces[i], 0, TRUE)
    BY <1>2, <1>3, <1>6 DEF Within
  <2> QED
    BY <1>1, <1>2, <1>4, <2>1, LaidCuts
<1> QED
  BY <1>5, <1>6 DEF pieces, p

\* What is read from the pieces of a record is the record.
LEMMA ValuesBack ==
    ASSUME NEW sch, Shaped(sch), NEW values, Typed(sch, values), Writable(values),
           NEW w, w.parts = Pieces(sch, values)
    PROVE  ValuesOf(sch, w) = values
<1>1. ASSUME NEW i \in 1 .. Len(sch.fields)
      PROVE  ValueOf(sch.fields[i], w.parts[i]) = values[i]
  <2>1. /\ i \in DOMAIN values
        /\ sch.fields[i].kind \in Kinds /\ sch.fields[i].size \in Nat
        /\ sch.fields[i].kind = "fixed" => sch.fields[i].size > 0
        /\ values[i] \in Value /\ HasType(sch.fields[i], values[i])
        /\ w.parts[i] = EncodeField(sch.fields[i], values[i])
    BY PiecesType
  <2>2. FieldWritable(values[i])
    BY <2>1 DEF Writable, FieldWritable
  <2> QED
    BY <2>1, <2>2, FieldEncoded
<1>2. DOMAIN w.parts = 1 .. Len(sch.fields)
  BY PiecesType
<1>3. values = [i \in 1 .. Len(sch.fields) |-> values[i]]
  BY DEF Typed, HasTypes
<1> QED
  BY <1>1, <1>2, <1>3 DEF ValuesOf

-----------------------------------------------------------------------------
(* The bitmap *)

LEMMA Divides ==
    ASSUME NEW w \in Nat \ {0}, NEW x \in Nat
    PROVE  /\ x \div w \in Nat /\ x % w \in 0 .. w - 1
           /\ x = w * (x \div w) + (x % w)
  OBVIOUS

LEMMA ProductOrder ==
    ASSUME NEW w \in Nat \ {0}, NEW a \in Nat, NEW b \in Nat, w * a < w * b
    PROVE  a < b
<1>1. ASSUME b <= a PROVE FALSE
  <2>1. PICK d \in Nat : a = b + d
    <3>1. a - b \in Nat /\ a = b + (a - b)
      BY <1>1
    <3> QED
      BY <3>1
  <2>2. w * a = w * b + w * d /\ w * d \in Nat /\ w * b \in Nat
    BY <2>1
  <2> QED
    BY <2>2
<1> QED
  BY <1>1

\* There is a place in the bitmap for every field, and a byte can count it.
LEMMA BitmapPlaces ==
    ASSUME NEW sch, Len(sch.fields) \in Nat \ {0}
    PROVE  /\ BitmapSize(sch) \in Nat
           /\ \A i \in 1 .. Len(sch.fields) : (i - 1) \div Bits + 1 \in 1 .. BitmapSize(sch)
           /\ Len(sch.fields) <= MostFields => BitmapSize(sch) \in Bytes
<1> DEFINE L == Len(sch.fields)
           B == BitmapSize(sch)
           rest == (L + Bits - 1) % Bits
<1>0. L \in Nat \ {0} /\ Bits \in Nat \ {0} /\ L + Bits - 1 \in Nat
  BY FormatAssumption
<1>1. B \in Nat /\ rest \in 0 .. Bits - 1 /\ L + Bits - 1 = Bits * B + rest
  BY <1>0, Divides DEF BitmapSize
<1> HIDE DEF L, B, rest
<1>2. Bits * B \in Nat
  BY <1>0, <1>1
<1>3. L <= Bits * B
  BY <1>0, <1>1, <1>2
<1>4. ASSUME NEW i \in 1 .. L PROVE (i - 1) \div Bits + 1 \in 1 .. B
  <2> DEFINE q == (i - 1) \div Bits
             r == (i - 1) % Bits
  <2>1. i - 1 \in Nat
    BY <1>0
  <2>2. q \in Nat /\ r \in 0 .. Bits - 1 /\ i - 1 = Bits * q + r
    BY <1>0, <2>1, Divides
  <2> HIDE DEF q, r
  <2>3. Bits * q \in Nat
    BY <1>0, <2>2
  <2>4. Bits * q < Bits * B
    BY <1>0, <1>2, <1>3, <2>2, <2>3
  <2>5. q < B
    BY <1>0, <1>1, <2>2, <2>4, ProductOrder
  <2> QED
    BY <1>1, <2>2, <2>5 DEF q
<1>5. ASSUME L <= MostFields PROVE B \in Bytes
  <2>1. Radix \in Nat /\ Radix >= 3
    BY RadixLarge
  <2>2. Bits * Radix = (Radix - 1) * Bits + Bits /\ (Radix - 1) * Bits \in Nat
        /\ Bits * Radix \in Nat
    BY <1>0, <2>1
  <2>3. L <= (Radix - 1) * Bits
    BY <1>5 DEF MostFields
  <2>4. Bits * B < Bits * Radix
    BY <1>0, <1>1, <1>2, <2>2, <2>3
  <2>5. B < Radix
    BY <1>0, <1>1, <2>1, <2>4, ProductOrder
  <2> QED
    BY <1>1, <2>1, <2>5 DEF Bytes
<1> QED
  BY <1>1, <1>4, <1>5 DEF L, B

\* Every bit of the bitmap is that of its field.
LEMMA BitmapRead ==
    ASSUME NEW sch, Len(sch.fields) \in Nat \ {0}, NEW set
    PROVE  /\ BitmapOf(sch, set) \in Seq(Bytes)
           /\ Len(BitmapOf(sch, set)) = BitmapSize(sch)
           /\ \A i \in 1 .. Len(sch.fields) : BitSet(BitmapOf(sch, set), i) <=> i \in set
<1> DEFINE B == BitmapSize(sch)
           bits(k) == {b \in 0 .. Bits - 1 : (k - 1) * Bits + b + 1 \in set}
           map == BitmapOf(sch, set)
<1>0. B \in Nat /\ \A i \in 1 .. Len(sch.fields) : (i - 1) \div Bits + 1 \in 1 .. B
  BY BitmapPlaces
<1>1. \A k \in 1 .. B : ByteOf(bits(k)) \in Bytes /\ BitsOf(ByteOf(bits(k))) = bits(k)
  <2>1. \A k \in 1 .. B : bits(k) \subseteq 0 .. Bits - 1
    OBVIOUS
  <2> QED
    BY <2>1, BytesAreBits
<1>2. map = [k \in 1 .. B |-> ByteOf(bits(k))]
  BY DEF BitmapOf
<1> HIDE DEF map, B
<1>3. map \in Seq(Bytes) /\ Len(map) = B
  <2> HIDE DEF bits
  <2> QED
    BY <1>0, <1>1, <1>2
<1>4. ASSUME NEW i \in 1 .. Len(sch.fields) PROVE BitSet(map, i) <=> i \in set
  <2> DEFINE k == (i - 1) \div Bits + 1
             r == (i - 1) % Bits
  <2>1. Bits \in Nat \ {0} /\ i - 1 \in Nat
    BY FormatAssumption
  <2>2. /\ (i - 1) \div Bits \in Nat /\ r \in 0 .. Bits - 1
        /\ i - 1 = Bits * ((i - 1) \div Bits) + r
    BY <2>1, Divides
  <2>3. k \in 1 .. B /\ k - 1 = (i - 1) \div Bits
    BY <1>0, <2>2
  <2>4. BitSet(map, i) <=> r \in BitsOf(map[k])
    BY DEF BitSet
  <2> HIDE DEF k, r
  <2>5. (k - 1) * Bits + r + 1 = i
    <3>1. (k - 1) * Bits = Bits * (k - 1) /\ Bits * (k - 1) \in Nat
      BY <2>1, <2>2, <2>3
    <3> QED
      BY <2>1, <2>2, <2>3, <3>1
  <2>6. BitsOf(map[k]) = bits(k)
    BY <1>1, <1>2, <2>3
  <2>7. r \in bits(k) <=> i \in set
    BY <2>2, <2>5
  <2> HIDE DEF bits
  <2> QED
    BY <2>4, <2>6, <2>7
<1> QED
  BY <1>3, <1>4 DEF map, B

-----------------------------------------------------------------------------
(* Leaving out the fields of zeros, and putting them back *)

\* The bytes of a field are those of a field wherever they are put.
LEMMA PieceSpans ==
    ASSUME NEW c, NEW sch, NEW data \in Seq(Bytes), NEW start \in Nat, NEW bounded,
           NEW omitted, Shaped(sch), start <= Len(data),
           Cuts(c, sch, data, start, bounded, omitted), c[Len(sch.fields)] = Len(data),
           NEW i \in 1 .. Len(sch.fields), i \notin omitted
    PROVE  Len(KeptAt(c, sch, data, omitted)[i])
              \in Span(sch.fields[i], KeptAt(c, sch, data, omitted)[i], 0, bounded)
<1> DEFINE kept == KeptAt(c, sch, data, omitted)
           piece == kept[i]
           f == sch.fields[i]
           a == c[i - 1]
           n == Len(piece)
<1>1. /\ kept \in Seq(Seq(Bytes)) /\ Len(kept) = Len(sch.fields)
      /\ Laid(c, start, kept, data)
  BY CutsLaid
<1>2. piece \in Seq(Bytes)
  BY <1>1
<1>3. c[i] = a + n /\ \A k \in 1 .. n : data[a + k] = piece[k]
  BY <1>1 DEF Laid
<1>4. c[i] - a \in Span(f, data, a, bounded)
  BY DEF Cuts
<1>5. i - 1 \in 0 .. Len(sch.fields)
  BY DEF Shaped
<1>6. a \in Nat
  BY <1>5 DEF Cuts
<1> HIDE DEF piece, f, a
<1>7. n \in Nat /\ c[i] - a = n
  BY <1>2, <1>3, <1>6
<1>8. n \in Span(f, data, a, bounded)
  BY <1>4, <1>7
<1>9. 0 + n <= Len(piece) /\ \A k \in 1 .. n : piece[0 + k] = data[a + k]
  BY <1>3, <1>7
<1>10. Len(piece) \in Nat /\ 0 \in Nat
  BY <1>7
<1> HIDE DEF n
<1>11. n \in Span(f, piece, 0, bounded)
  BY <1>6, <1>8, <1>9, <1>10, SpanMoves
<1> QED
  BY <1>11 DEF n, f, piece

Zeroed(sch, parts) == {i \in Fixed(sch) : parts[i] = Zeros(sch.fields[i])}

KeptParts(sch, parts) ==
    [i \in 1 .. Len(sch.fields) |-> IF i \in Zeroed(sch, parts) THEN <<>> ELSE parts[i]]

Shortened(sch, p, parts) ==
    <<p[1], OmitMark, BitmapSize(sch)>> \o BitmapOf(sch, Zeroed(sch, parts))
        \o FlattenSeq(KeptParts(sch, parts))

LEMMA ShortenedLaid ==
    ASSUME NEW sch, Shaped(sch), BitmapSize(sch) \in Bytes, NEW p \in Seq(Bytes), Len(p) >= 1,
           NEW parts \in Seq(Seq(Bytes)), Len(parts) = Len(sch.fields)
    PROVE  /\ Shortened(sch, p, parts) \in Seq(Bytes)
           /\ Shortened(sch, p, parts)[1] = p[1]
           /\ IsOptimized(Shortened(sch, p, parts))
           /\ HasBitmap(sch, Shortened(sch, p, parts))
           /\ SubSeq(Shortened(sch, p, parts), 4, 3 + BitmapSize(sch))
                 = BitmapOf(sch, Zeroed(sch, parts))
           /\ KeptParts(sch, parts) \in Seq(Seq(Bytes))
           /\ Len(KeptParts(sch, parts)) = Len(sch.fields)
           /\ \E d : Laid(d, 3 + BitmapSize(sch), KeptParts(sch, parts),
                          Shortened(sch, p, parts))
<1> DEFINE B == BitmapSize(sch)
           front == <<p[1], OmitMark, B>>
           map == BitmapOf(sch, Zeroed(sch, parts))
           header == front \o map
           kept == KeptParts(sch, parts)
           q == header \o FlattenSeq(kept)
<1>1. q = Shortened(sch, p, parts)
  BY DEF Shortened
<1>2. front \in Seq(Bytes) /\ Len(front) = 3 /\ front[1] = p[1] /\ front[2] = OmitMark
      /\ front[3] = B
  <2>1. p[1] \in Bytes /\ OmitMark \in Bytes
    BY FormatAssumption
  <2> HIDE DEF B
  <2> QED
    BY <2>1 DEF B
<1>3. Len(sch.fields) \in Nat \ {0}
  BY DEF Shaped
<1>4. map \in Seq(Bytes) /\ Len(map) = B /\ B \in Nat
  BY <1>3, BitmapRead, BitmapPlaces
<1> HIDE DEF front, map, B
<1>5. /\ header \in Seq(Bytes) /\ Len(header) = 3 + B
      /\ \A k \in 1 .. 3 : header[k] = front[k]
      /\ \A k \in 1 .. B : header[3 + k] = map[k]
  <2>1. /\ header \in Seq(Bytes) /\ Len(header) = Len(front) + Len(map)
        /\ \A k \in 1 .. Len(front) : header[k] = front[k]
        /\ \A k \in 1 .. Len(map) : header[Len(front) + k] = map[k]
    <3>1. front \in Seq(Bytes) /\ map \in Seq(Bytes)
      BY <1>2, <1>4
    <3> QED
      BY <3>1, Joins
  <2> HIDE DEF header
  <2> QED
    BY <1>2, <1>4, <2>1
<1>6. kept \in Seq(Seq(Bytes)) /\ Len(kept) = Len(sch.fields)
  <2>1. \A i \in 1 .. Len(sch.fields) : parts[i] \in Seq(Bytes) /\ <<>> \in Seq(Bytes)
    OBVIOUS
  <2> QED
    BY <1>3, <2>1 DEF KeptParts
<1> HIDE DEF header, kept
<1>7. /\ q \in Seq(Bytes) /\ (\A k \in 1 .. Len(header) : q[k] = header[k])
      /\ \E d : Laid(d, Len(header), kept, q)
  BY <1>5, <1>6, Headed
<1> HIDE DEF q
<1>8. PICK d : Laid(d, 3 + B, kept, q)
  BY <1>5, <1>7
<1>9. Len(q) >= 3 + B /\ Len(q) \in Nat
  <2>1. Rising(d, Len(kept)) /\ Len(kept) \in Nat
    BY <1>6, <1>8, LaidRises
  <2>2. d[0] = 3 + B /\ Len(q) = d[Len(kept)]
    BY <1>8 DEF Laid
  <2>3. 0 \in 0 .. Len(kept) /\ Len(kept) \in 0 .. Len(kept) /\ 0 <= Len(kept)
    BY <2>1
  <2>4. d[0] <= d[Len(kept)]
    BY <2>1, <2>3, RisingFar
  <2> QED
    BY <1>7, <2>2, <2>4
<1>10. q[1] = p[1] /\ q[2] = OmitMark /\ q[3] = B
  BY <1>2, <1>4, <1>5, <1>7
<1>11. IsOptimized(q) /\ HasBitmap(sch, q)
  BY <1>4, <1>9, <1>10 DEF IsOptimized, HasBitmap, B
<1>12. SubSeq(q, 4, 3 + B) = map
  <2>1. \A k \in 1 .. Len(map) : q[3 + k] = map[k]
    BY <1>4, <1>5, <1>7
  <2>2. 3 + 1 = 4 /\ 3 + B = 3 + Len(map) /\ 3 + B \in Nat
    BY <1>4
  <2> QED
    BY <1>4, <1>7, <1>9, <2>1, <2>2, ReadBack
<1>13. Shortened(sch, p, parts) = q
  BY <1>1
<1> HIDE DEF kept, map, B
<1> QED
  BY <1>6, <1>7, <1>8, <1>10, <1>11, <1>12, <1>13 DEF kept, map, B

LEMMA PartsKept ==
    ASSUME NEW c, NEW sch, NEW data
    PROVE  PartsAt(c, sch, data, {}) = KeptAt(c, sch, data, {})
  BY DEF PartsAt, PartOf, KeptAt

\* The fields that are left are cut up as before, and the others are zeros.
LEMMA ShortCuts ==
    ASSUME NEW sch, Shaped(sch), BitmapSize(sch) \in Bytes, NEW p \in Seq(Bytes), Len(p) >= 1,
           NEW bounded, NEW c, Cuts(c, sch, p, 1, bounded, {}), c[Len(sch.fields)] = Len(p),
           NEW parts, parts = KeptAt(c, sch, p, {})
    PROVE  \E d : /\ Cuts(d, sch, Shortened(sch, p, parts), 3 + BitmapSize(sch), bounded,
                          Zeroed(sch, parts))
                  /\ d[Len(sch.fields)] = Len(Shortened(sch, p, parts))
                  /\ PartsAt(d, sch, Shortened(sch, p, parts), Zeroed(sch, parts)) = parts
<1> DEFINE L == Len(sch.fields)
           zero == Zeroed(sch, parts)
           kept == KeptParts(sch, parts)
           q == Shortened(sch, p, parts)
           start == 3 + BitmapSize(sch)
<1>1. parts \in Seq(Seq(Bytes)) /\ Len(parts) = L
  BY CutsLaid
<1>2. ASSUME NEW i \in 1 .. L PROVE Len(parts[i]) \in Span(sch.fields[i], parts[i], 0, bounded)
  <2>1. i \notin {} /\ 1 \in Nat
    OBVIOUS
  <2> QED
    BY <2>1, PieceSpans
<1>3. start \in Nat
  <2>1. Len(sch.fields) \in Nat \ {0}
    BY DEF Shaped
  <2> QED
    BY <2>1, BitmapPlaces
<1>4. /\ q \in Seq(Bytes) /\ kept \in Seq(Seq(Bytes)) /\ Len(kept) = L
      /\ \E d : Laid(d, start, kept, q)
  BY <1>1, ShortenedLaid
<1>5. \A i \in 1 .. L : kept[i] = IF i \in zero THEN <<>> ELSE parts[i]
  BY DEF KeptParts
<1>6. \A i \in 1 .. L : i \in zero => parts[i] = Zeros(sch.fields[i])
  BY DEF Zeroed
<1> HIDE DEF zero, kept, q, start
<1>7. PICK d : Laid(d, start, kept, q)
  BY <1>4
<1>8. \A i \in 1 .. Len(kept) :
         IF i \in zero THEN kept[i] = <<>>
         ELSE Len(kept[i]) \in Span(sch.fields[i], kept[i], 0, bounded)
  BY <1>2, <1>4, <1>5
<1>9. Cuts(d, sch, q, start, bounded, zero) /\ d[L] = Len(q)
  <2>1. Cuts(d, sch, q, start, bounded, zero)
    BY <1>3, <1>4, <1>7, <1>8, LaidCuts
  <2>2. d[L] = Len(q)
    BY <1>4, <1>7 DEF Laid
  <2> QED
    BY <2>1, <2>2
<1>10. KeptAt(d, sch, q, zero) = kept
  <2>1. \A i \in 1 .. Len(kept) : i \in zero => kept[i] = <<>>
    BY <1>8
  <2> QED
    BY <1>3, <1>4, <1>7, <2>1, LaidKept
<1>11. PartsAt(d, sch, q, zero) = parts
  <2>1. ASSUME NEW i \in 1 .. L PROVE PartOf(d, sch, q, zero, i) = parts[i]
    <3>1. CASE i \in zero
      BY <1>6, <3>1 DEF PartOf
    <3>2. CASE i \notin zero
      <4>1. KeptAt(d, sch, q, zero)[i] = SubSeq(q, d[i - 1] + 1, d[i])
        BY <3>2 DEF KeptAt
      <4>2. kept[i] = parts[i]
        BY <1>5, <3>2
      <4> QED
        BY <1>10, <3>2, <4>1, <4>2 DEF PartOf
    <3> QED
      BY <3>1, <3>2
  <2>2. parts = [i \in 1 .. L |-> parts[i]]
    BY <1>1
  <2> QED
    BY <2>1, <2>2 DEF PartsAt
<1> QED
  BY <1>9, <1>11 DEF zero, q, start

ReadTo(w, at, parts) == w.ok /\ w.at = at /\ w.parts = parts

\* A walk over what is left reads what was there.
LEMMA ShortWalk ==
    ASSUME NEW sch, Shaped(sch), BitmapSize(sch) \in Bytes, NEW p \in Seq(Bytes), Len(p) >= 1,
           NEW bounded, NEW c, Cuts(c, sch, p, 1, bounded, {}), c[Len(sch.fields)] = Len(p),
           NEW parts, parts = KeptAt(c, sch, p, {})
    PROVE  ReadTo(WalkOptimized(sch, Shortened(sch, p, parts), bounded),
                  Len(Shortened(sch, p, parts)), parts)
<1> DEFINE q == Shortened(sch, p, parts)
           zero == Zeroed(sch, parts)
           start == 3 + BitmapSize(sch)
           bits == {i \in Fixed(sch) : BitSet(SubSeq(q, 4, start), i)}
           w == Walk(sch, q, start, bounded, zero)
<1>1. parts \in Seq(Seq(Bytes)) /\ Len(parts) = Len(sch.fields)
  BY CutsLaid
<1>2. q \in Seq(Bytes) /\ SubSeq(q, 4, start) = BitmapOf(sch, zero)
  BY <1>1, ShortenedLaid
<1>3. Len(sch.fields) \in Nat \ {0} /\ DOMAIN sch.fields = 1 .. Len(sch.fields)
  BY DEF Shaped
<1>4. start \in Nat
  BY <1>3, BitmapPlaces
<1>5. bits = zero
  <2>1. \A i \in 1 .. Len(sch.fields) : BitSet(BitmapOf(sch, zero), i) <=> i \in zero
    BY <1>3, BitmapRead
  <2>2. Fixed(sch) \subseteq 1 .. Len(sch.fields) /\ zero \subseteq Fixed(sch)
    BY <1>3 DEF Fixed, Zeroed
  <2> HIDE DEF zero
  <2> QED
    BY <1>2, <2>1, <2>2
<1>6. WalkOptimized(sch, q, bounded) = w
  <2>1. WalkOptimized(sch, q, bounded) = Walk(sch, q, start, bounded, bits)
    BY DEF WalkOptimized
  <2> QED
    BY <1>5, <2>1
<1>7. PICK d : /\ Cuts(d, sch, q, start, bounded, zero) /\ d[Len(sch.fields)] = Len(q)
               /\ PartsAt(d, sch, q, zero) = parts
  BY ShortCuts
<1> HIDE DEF q, zero, start
<1>8. WalkedAt(w, d, sch, q, zero)
  BY <1>2, <1>4, <1>7, CutsWalk
<1>9. w.ok /\ w.at = Len(q) /\ w.parts = parts
  BY <1>7, <1>8 DEF WalkedAt
<1> HIDE DEF w
<1> QED
  BY <1>6, <1>9 DEF q, ReadTo

LEMMA BehindOne ==
    ASSUME NEW S, NEW data \in Seq(S), Len(data) >= 1, NEW pieces \in Seq(Seq(S)),
           NEW c, Laid(c, 1, pieces, data)
    PROVE  data = <<data[1]>> \o FlattenSeq(pieces)
<1> DEFINE header == <<data[1]>>
<1>1. header \in Seq(S) /\ Len(header) = 1 /\ header[1] = data[1]
  OBVIOUS
<1> HIDE DEF header
<1>2. \A k \in 1 .. Len(header) : data[k] = header[k]
  BY <1>1
<1>3. Laid(c, Len(header), pieces, data)
  BY <1>1
<1>4. data = header \o FlattenSeq(pieces)
  BY <1>1, <1>2, <1>3, MadeOf
<1> QED
  BY <1>4 DEF header

\* Undoing the packing of q returns p.
Restores(sch, q, p) == Deoptimize(sch, q).ok /\ Deoptimize(sch, q).packet = p

LEMMA Restoring ==
    ASSUME NEW sch, Shaped(sch), BitmapSize(sch) \in Bytes, NEW p \in Seq(Bytes), Len(p) >= 1,
           NEW c, Cuts(c, sch, p, 1, FALSE, {}), c[Len(sch.fields)] = Len(p),
           NEW parts, parts = KeptAt(c, sch, p, {})
    PROVE  Restores(sch, Shortened(sch, p, parts), p)
<1> DEFINE q == Shortened(sch, p, parts)
           w == WalkOptimized(sch, q, FALSE)
<1>1. w.ok /\ w.at = Len(q) /\ w.parts = parts
  <2>1. ReadTo(WalkOptimized(sch, Shortened(sch, p, parts), FALSE),
               Len(Shortened(sch, p, parts)), parts)
    BY ShortWalk
  <2> QED
    BY <2>1 DEF ReadTo
<1>2. /\ parts \in Seq(Seq(Bytes)) /\ Len(parts) = Len(sch.fields)
      /\ Laid(c, 1, parts, p)
  BY CutsLaid
<1>3. q[1] = p[1] /\ IsOptimized(q) /\ HasBitmap(sch, q)
  BY <1>2, ShortenedLaid
<1>5. p = <<p[1]>> \o FlattenSeq(parts)
  BY <1>2, BehindOne
<1>6. Deoptimize(sch, q) = [ok |-> Complete(w, q), packet |-> <<q[1]>> \o FlattenSeq(w.parts)]
  BY <1>3 DEF Deoptimize
<1>7. Complete(w, q)
  BY <1>1 DEF Complete
<1>8. <<q[1]>> \o FlattenSeq(w.parts) = p
  BY <1>1, <1>3, <1>5
<1> HIDE DEF q, w
<1>9. Deoptimize(sch, q).ok /\ Deoptimize(sch, q).packet = p
  BY <1>6, <1>7, <1>8
<1> QED
  BY <1>9 DEF q, Restores

\* What the optimizer makes of a packet whose fields are all there.
LEMMA Optimizes ==
    ASSUME NEW sch, Shaped(sch), NEW p \in Seq(Bytes), Len(p) >= 1,
           NEW c, Cuts(c, sch, p, 1, FALSE, {}), c[Len(sch.fields)] = Len(p),
           Len(sch.fields) <= MostFields
    PROVE  /\ Optimize(sch, p).ok
           /\ Optimize(sch, p).packet \in {p, Shortened(sch, p, KeptAt(c, sch, p, {}))}
<1> DEFINE w == Walk(sch, p, 1, FALSE, {})
           parts == KeptAt(c, sch, p, {})
           zero == {i \in Fixed(sch) : w.parts[i] = Zeros(sch.fields[i])}
           kept == [i \in DOMAIN w.parts |-> IF i \in zero THEN <<>> ELSE w.parts[i]]
           candidate == <<p[1], OmitMark, BitmapSize(sch)>> \o BitmapOf(sch, zero)
                           \o FlattenSeq(kept)
<1>1. WalkedAt(w, c, sch, p, {})
  BY CutsWalk
<1>2. w.ok /\ w.at = Len(p) /\ w.parts = parts
  BY <1>1, PartsKept DEF WalkedAt
<1>3. Complete(w, p)
  BY <1>2 DEF Complete
<1>4. DOMAIN parts = 1 .. Len(sch.fields)
  BY DEF KeptAt
<1> HIDE DEF w, parts
<1>5. zero = Zeroed(sch, parts)
  BY <1>2 DEF Zeroed
<1>6. kept = KeptParts(sch, parts)
  BY <1>2, <1>4, <1>5 DEF KeptParts
<1> HIDE DEF zero, kept
<1>7. candidate = Shortened(sch, p, parts)
  BY <1>5, <1>6 DEF Shortened
<1>8. ~(Len(sch.fields) > MostFields)
  <2>1. Len(sch.fields) \in Nat /\ MostFields \in Int
    <3>1. Radix \in Nat /\ Bits \in Nat
      BY RadixLarge, FormatAssumption
    <3> QED
      BY <3>1 DEF Shaped, MostFields
  <2> QED
    BY <2>1
<1> HIDE DEF candidate
<1>9. Optimize(sch, p) =
         IF Len(sch.fields) > MostFields \/ ~Complete(w, p)
         THEN [ok |-> FALSE, applied |-> FALSE, packet |-> p]
         ELSE IF Len(candidate) >= Len(p)
         THEN [ok |-> TRUE, applied |-> FALSE, packet |-> p]
         ELSE [ok |-> TRUE, applied |-> TRUE, packet |-> candidate]
  BY DEF Optimize, w, zero, kept, candidate
<1> QED
  BY <1>3, <1>7, <1>8, <1>9 DEF parts

LEMMA OptimizesWhole ==
    ASSUME NEW sch, NEW p, Optimize(sch, p).ok
    PROVE  ~(Len(sch.fields) > MostFields) /\ Complete(Walk(sch, p, 1, FALSE, {}), p)
<1>1. CASE Len(sch.fields) > MostFields \/ ~Complete(Walk(sch, p, 1, FALSE, {}), p)
  <2>1. Optimize(sch, p) = [ok |-> FALSE, applied |-> FALSE, packet |-> p]
    BY <1>1 DEF Optimize
  <2> QED
    BY <2>1
<1> QED
  BY <1>1

-----------------------------------------------------------------------------
(* The registry *)

\* A name leads to a schema of that name, an id to the name of a schema of
\* that id, and every schema was found to be well formed.
Consistent(reg) ==
    /\ \A n \in DOMAIN reg.schemas :
          /\ reg.schemas[n] \in Definitions
          /\ reg.schemas[n].fields # <<>> /\ WellFormed(reg.schemas[n].fields)
          /\ reg.schemas[n].name = n
          /\ reg.schemas[n].id \in DOMAIN reg.names
          /\ reg.names[reg.schemas[n].id] = n
    /\ \A k \in DOMAIN reg.names :
          /\ reg.names[k] \in DOMAIN reg.schemas
          /\ reg.schemas[reg.names[k]].id = k

LEMMA EnteredConsistent ==
    ASSUME NEW reg, Consistent(reg), NEW def \in Definitions
    PROVE  Consistent(Registered(reg, def))
<1>1. CASE ~Validates(reg, def) \/ Taken(reg, def)
  <2>1. Registered(reg, def) = reg
    BY <1>1 DEF Registered, Entered
  <2> QED
    BY <2>1
<1>2. CASE Validates(reg, def) /\ ~Taken(reg, def)
  <2> DEFINE schemas == Put(reg.schemas, def.name, def)
             names == Put(reg.names, def.id, def.name)
             new == [schemas |-> schemas, names |-> names]
  <2>1. Registered(reg, def) = new
    BY <1>2 DEF Registered, Entered, Validates
  <2>2. def.fields # <<>> /\ WellFormed(def.fields)
    BY <1>2 DEF Validates
  <2>3. def.name \notin DOMAIN reg.schemas /\ def.id \notin DOMAIN reg.names
    BY <1>2 DEF Taken
  <2>4. /\ DOMAIN schemas = DOMAIN reg.schemas \cup {def.name}
        /\ schemas[def.name] = def
        /\ \A n \in DOMAIN reg.schemas : schemas[n] = reg.schemas[n]
    BY <2>3 DEF Put
  <2>5. /\ DOMAIN names = DOMAIN reg.names \cup {def.id}
        /\ names[def.id] = def.name
        /\ \A k \in DOMAIN reg.names : names[k] = reg.names[k]
    BY <2>3 DEF Put
  <2>6. new.schemas = schemas /\ new.names = names
    OBVIOUS
  <2> HIDE DEF schemas, names, new
  <2>7. ASSUME NEW n \in DOMAIN schemas
        PROVE  /\ schemas[n] \in Definitions
               /\ schemas[n].fields # <<>> /\ WellFormed(schemas[n].fields)
               /\ schemas[n].name = n
               /\ schemas[n].id \in DOMAIN names
               /\ names[schemas[n].id] = n
    <3>1. CASE n = def.name
      BY <2>2, <2>4, <2>5, <3>1
    <3>2. CASE n \in DOMAIN reg.schemas
      <4>1. /\ reg.schemas[n] \in Definitions
            /\ reg.schemas[n].fields # <<>> /\ WellFormed(reg.schemas[n].fields)
            /\ reg.schemas[n].name = n
            /\ reg.schemas[n].id \in DOMAIN reg.names
            /\ reg.names[reg.schemas[n].id] = n
        BY <3>2 DEF Consistent
      <4>2. schemas[n] = reg.schemas[n]
        BY <2>4, <3>2
      <4> QED
        BY <2>5, <4>1, <4>2
    <3> QED
      BY <2>4, <3>1, <3>2
  <2>8. ASSUME NEW k \in DOMAIN names
        PROVE  names[k] \in DOMAIN schemas /\ schemas[names[k]].id = k
    <3>1. CASE k = def.id
      BY <2>4, <2>5, <3>1
    <3>2. CASE k \in DOMAIN reg.names
      <4>1. reg.names[k] \in DOMAIN reg.schemas /\ reg.schemas[reg.names[k]].id = k
        BY <3>2 DEF Consistent
      <4>2. names[k] = reg.names[k]
        BY <2>5, <3>2
      <4> QED
        BY <2>4, <4>1, <4>2
    <3> QED
      BY <2>5, <3>1, <3>2
  <2> QED
    BY <2>1, <2>6, <2>7, <2>8 DEF Consistent
<1> QED
  BY <1>1, <1>2

\* A schema that can be found is the only one of its name and of its id.
LEMMA FoundByName ==
    ASSUME NEW reg, Consistent(reg), NEW name, NEW sch \in ByName(reg, name)
    PROVE  /\ Shaped(sch) /\ WellFormed(sch.fields) /\ sch.name = name
           /\ sch = reg.schemas[name] /\ name \in DOMAIN reg.schemas
           /\ ByName(reg, name) = {sch} /\ ById(reg, sch.id) = {sch}
<1>1. name \in DOMAIN reg.schemas /\ sch = reg.schemas[name] /\ ByName(reg, name) = {sch}
  BY DEF ByName
<1>2. /\ sch \in Definitions /\ sch.fields # <<>> /\ WellFormed(sch.fields)
      /\ sch.name = name
      /\ sch.id \in DOMAIN reg.names /\ reg.names[sch.id] = name
  BY <1>1 DEF Consistent
<1>3. ById(reg, sch.id) = {sch}
  BY <1>1, <1>2 DEF ById
<1>4. Shaped(sch)
  <2>1. /\ sch.fields \in Seq({sch.fields[i] : i \in DOMAIN sch.fields})
        /\ \A i \in DOMAIN sch.fields :
              /\ sch.fields[i].size \in Nat
              /\ sch.fields[i].kind = "fixed" => sch.fields[i].size > 0
    BY <1>2, DefinitionsAssumption
  <2>2. sch.id \in Bytes
    BY <1>2, FormatAssumption
  <2>3. Len(sch.fields) \in Nat /\ DOMAIN sch.fields = 1 .. Len(sch.fields)
    BY <2>1
  <2>4. Len(sch.fields) # 0
    BY <1>2, <2>1
  <2>5. \A i \in DOMAIN sch.fields : sch.fields[i].kind \in Kinds
    BY <1>2 DEF WellFormed
  <2> QED
    BY <2>1, <2>2, <2>3, <2>4, <2>5 DEF Shaped
<1> QED
  BY <1>1, <1>2, <1>3, <1>4

LEMMA FoundById ==
    ASSUME NEW reg, Consistent(reg), NEW id, NEW sch \in ById(reg, id)
    PROVE  sch.id = id /\ sch \in ByName(reg, sch.name)
<1>1. PICK k \in DOMAIN reg.names \cap {id} : sch \in ByName(reg, reg.names[k])
  BY DEF ById
<1>2. k = id /\ k \in DOMAIN reg.names
  BY <1>1
<1>3. reg.names[id] \in DOMAIN reg.schemas /\ reg.schemas[reg.names[id]].id = id
  BY <1>2 DEF Consistent
<1>4. sch = reg.schemas[reg.names[id]] /\ sch.name = reg.names[id]
  BY <1>1, <1>2, FoundByName
<1> QED
  BY <1>1, <1>2, <1>3, <1>4

-----------------------------------------------------------------------------
(* What the sending calls make *)

LEMMA MappedTyped ==
    ASSUME NEW sch, Shaped(sch), NEW payload, payload \in [DOMAIN payload -> Value],
           Maps(sch, payload)
    PROVE  Ordered(sch, payload) \in Seq(Value) /\ Typed(sch, Ordered(sch, payload))
<1> DEFINE values == Ordered(sch, payload)
<1>1. Len(sch.fields) \in Nat /\ DOMAIN sch.fields = 1 .. Len(sch.fields)
  BY DEF Shaped
<1>2. values = [i \in 1 .. Len(sch.fields) |-> payload[sch.fields[i].name]]
  BY <1>1 DEF Ordered
<1>3. \A i \in 1 .. Len(sch.fields) :
         /\ payload[sch.fields[i].name] \in Value
         /\ HasType(sch.fields[i], payload[sch.fields[i].name])
  BY <1>1 DEF Maps
<1> HIDE DEF values
<1>4. values \in Seq(Value) /\ Len(values) = Len(sch.fields)
  BY <1>1, <1>2, <1>3
<1>5. \A i \in DOMAIN values : HasType(sch.fields[i], values[i])
  BY <1>1, <1>2, <1>3
<1> QED
  BY <1>4, <1>5 DEF Typed, HasTypes, values

LEMMA FitWithin ==
    ASSUME NEW sch, Shaped(sch), NEW values \in Seq(Value), NEW dictionary,
           ValuesFit(sch, values, dictionary)
    PROVE  Typed(sch, values) /\ Within(sch, values)
<1>1. Typed(sch, values) /\ Len(values) = Len(sch.fields)
  BY DEF ValuesFit, Typed, HasTypes
<1>2. ASSUME NEW i \in 1 .. Len(sch.fields) PROVE FieldWithin(sch.fields[i], values[i])
  <2>1. i \in DOMAIN values
    BY <1>1
  <2>2. sch.fields[i].kind # "fixed" => Length(values[i], dictionary) <= sch.fields[i].size
    BY <2>1 DEF ValuesFit
  <2> QED
    BY <2>2 DEF Length, FieldWithin
<1> QED
  BY <1>1, <1>2 DEF Within

\* A packet is the encoded record, or that without its fields of zeros.
Packs(sch, values, p, q) ==
    \/ q = p
    \/ /\ BitmapSize(sch) \in Bytes
       /\ \E c : /\ Cuts(c, sch, p, 1, FALSE, {}) /\ c[Len(sch.fields)] = Len(p)
                 /\ q = Shortened(sch, p, KeptAt(c, sch, p, {}))

LEMMA PackedForm ==
    ASSUME NEW sch, Shaped(sch), NEW values \in Seq(Value), NEW omit,
           NEW q \in Packed(sch, values, omit)
    PROVE  /\ ValuesFit(sch, values, Sends) /\ Typed(sch, values) /\ Within(sch, values)
           /\ Packs(sch, values, Encode(sch, values), q)
           /\ ~omit => q = Encode(sch, values)
           /\ q \in Seq(Bytes) /\ Len(q) >= 2 /\ q[1] = sch.id
<1> DEFINE p == Encode(sch, values)
           o == Optimize(sch, p)
           L == Len(sch.fields)
<1>1. ValuesFit(sch, values, Sends) /\ (~omit => q = p) /\ (omit => q = o.packet /\ o.ok)
  BY DEF Packed
<1>2. Typed(sch, values) /\ Within(sch, values)
  BY <1>1, FitWithin
<1>3. p \in Seq(Bytes) /\ p[1] = sch.id /\ Len(p) >= 2 /\ Len(p) >= 1
  BY <1>2, EncodedLaid
<1>4. CASE ~omit
  BY <1>1, <1>2, <1>3, <1>4 DEF Packs
<1>5. CASE omit
  <2> HIDE DEF p
  <2>1. ~(L > MostFields) /\ Complete(Walk(sch, p, 1, FALSE, {}), p)
    BY <1>1, <1>5, OptimizesWhole
  <2>2. PICK c : /\ Cuts(c, sch, p, 1, FALSE, {})
                 /\ WalkedAt(Walk(sch, p, 1, FALSE, {}), c, sch, p, {})
    <3>1. Walk(sch, p, 1, FALSE, {}).ok /\ 1 \in Nat
      BY <2>1 DEF Complete
    <3> QED
      BY <1>3, <3>1, WalkCuts
  <2>3. c[L] = Len(p)
    BY <2>1, <2>2 DEF WalkedAt, Complete
  <2>4. L \in Nat \ {0} /\ L <= MostFields
    <3>1. Radix \in Nat /\ Bits \in Nat
      BY RadixLarge, FormatAssumption
    <3>2. L \in Nat \ {0} /\ MostFields \in Int
      BY <3>1 DEF Shaped, MostFields
    <3> QED
      BY <2>1, <3>2
  <2>5. BitmapSize(sch) \in Bytes
    BY <2>4, BitmapPlaces
  <2>6. o.packet \in {p, Shortened(sch, p, KeptAt(c, sch, p, {}))}
    BY <1>3, <2>2, <2>3, <2>4, Optimizes
  <2>7. q = p \/ q = Shortened(sch, p, KeptAt(c, sch, p, {}))
    BY <1>1, <1>5, <2>6
  <2>8. Packs(sch, values, p, q)
    BY <2>2, <2>3, <2>5, <2>7 DEF Packs
  <2>9. q \in Seq(Bytes) /\ Len(q) >= 2 /\ q[1] = sch.id
    <3>1. CASE q = p
      BY <1>3, <3>1
    <3>2. CASE q = Shortened(sch, p, KeptAt(c, sch, p, {}))
      <4> DEFINE parts == KeptAt(c, sch, p, {})
      <4>1. parts \in Seq(Seq(Bytes)) /\ Len(parts) = L
        BY <1>3, <2>2, <2>3, CutsLaid
      <4> HIDE DEF parts
      <4>2. /\ Shortened(sch, p, parts) \in Seq(Bytes)
            /\ Shortened(sch, p, parts)[1] = p[1]
            /\ IsOptimized(Shortened(sch, p, parts))
        BY <1>3, <2>5, <4>1, ShortenedLaid
      <4>3. q = Shortened(sch, p, parts)
        BY <3>2 DEF parts
      <4> QED
        BY <1>3, <4>2, <4>3 DEF IsOptimized
    <3> QED
      BY <2>7, <3>1, <3>2
  <2> QED
    BY <1>1, <1>2, <1>5, <2>8, <2>9 DEF p
<1> QED
  BY <1>4, <1>5

LEMMA SentForm ==
    ASSUME NEW reg, Consistent(reg), NEW name, NEW payload,
           payload \in [DOMAIN payload -> Value], NEW omit,
           NEW q \in Send(reg, name, payload, omit)
    PROVE  /\ name \in DOMAIN reg.schemas
           /\ Maps(reg.schemas[name], payload)
           /\ q \in Packed(reg.schemas[name], Ordered(reg.schemas[name], payload), omit)
           /\ q \in Seq(Bytes) /\ Len(q) >= 2
<1>1. PICK sch \in ByName(reg, name) : /\ Maps(sch, payload)
                                       /\ q \in Packed(sch, Ordered(sch, payload), omit)
  BY DEF Send
<1>2. Shaped(sch) /\ sch = reg.schemas[name] /\ name \in DOMAIN reg.schemas
  BY <1>1, FoundByName
<1>3. Ordered(sch, payload) \in Seq(Value)
  BY <1>1, <1>2, MappedTyped
<1>4. q \in Seq(Bytes) /\ Len(q) >= 2
  BY <1>1, <1>2, <1>3, PackedForm
<1> QED
  BY <1>1, <1>2, <1>4

-----------------------------------------------------------------------------
(* The packets of a stream *)

LEMMA PacketMade ==
    ASSUME Consistent(registry), NEW j, NEW m, Sendable(m, j.omit)
    PROVE  /\ PacketOf(j, m) \in Send(registry, m.name, m.payload, j.omit)
           /\ PacketOf(j, m) \in Seq(Bytes) /\ Len(PacketOf(j, m)) >= 2
<1>1. m.payload \in [DOMAIN m.payload -> Value] /\ Send(registry, m.name, m.payload, j.omit) # {}
  BY DEF Sendable
<1>2. PacketOf(j, m) \in Send(registry, m.name, m.payload, j.omit)
  BY <1>1 DEF PacketOf
<1> QED
  BY <1>1, <1>2, SentForm

LEMMA PacketsMade ==
    ASSUME Consistent(registry), NEW j, IsStream(j)
    PROVE  /\ PacketsOf(j) \in Seq(Seq(Bytes)) /\ Len(PacketsOf(j)) = Len(j.records)
           /\ Len(j.records) \in Nat \ {0} /\ DOMAIN j.records = 1 .. Len(j.records)
           /\ \A i \in 1 .. Len(j.records) :
                 /\ Sendable(j.records[i], j.omit)
                 /\ PacketsOf(j)[i] = PacketOf(j, j.records[i])
                 /\ Len(PacketsOf(j)[i]) >= 2
<1>1. /\ Len(j.records) \in Nat \ {0} /\ DOMAIN j.records = 1 .. Len(j.records)
      /\ \A i \in DOMAIN j.records : Sendable(j.records[i], j.omit)
  <2>1. j.records \in Seq({j.records[i] : i \in DOMAIN j.records}) \ {<<>>}
    BY DEF IsStream
  <2>2. \A i \in DOMAIN j.records : Sendable(j.records[i], j.omit)
    BY DEF IsStream
  <2>3. Len(j.records) \in Nat /\ DOMAIN j.records = 1 .. Len(j.records)
    BY <2>1
  <2>4. Len(j.records) # 0
    BY <2>1
  <2> QED
    BY <2>2, <2>3, <2>4
<1>2. \A i \in 1 .. Len(j.records) :
         PacketOf(j, j.records[i]) \in Seq(Bytes) /\ Len(PacketOf(j, j.records[i])) >= 2
  BY <1>1, PacketMade
<1>3. PacketsOf(j) = [i \in 1 .. Len(j.records) |-> PacketOf(j, j.records[i])]
  BY <1>1 DEF PacketsOf
<1>4. PacketsOf(j) \in Seq(Seq(Bytes)) /\ Len(PacketsOf(j)) = Len(j.records)
  BY <1>1, <1>2, <1>3
<1> QED
  BY <1>1, <1>2, <1>3, <1>4

BatchPieces(packets) == [i \in 1 .. Len(packets) |-> <<Len(packets[i]) % Radix>> \o packets[i]]

LEMMA BatchLaid ==
    ASSUME NEW packets \in Seq(Seq(Bytes))
    PROVE  /\ BatchPieces(packets) \in Seq(Seq(Bytes))
           /\ Len(BatchPieces(packets)) = Len(packets)
           /\ BatchOf(packets) \in Seq(Bytes)
           /\ BatchOf(packets)[1] = BatchMark /\ BatchOf(packets)[2] = Len(packets) % Radix
           /\ \E c : Laid(c, 2, BatchPieces(packets), BatchOf(packets))
<1> DEFINE n == Len(packets)
           header == <<BatchMark, n % Radix>>
           pieces == BatchPieces(packets)
           data == header \o FlattenSeq(pieces)
<1>0. Radix \in Nat /\ Radix >= 3 /\ n \in Nat /\ DOMAIN packets = 1 .. n
  BY RadixLarge
<1>1. data = BatchOf(packets)
  BY <1>0 DEF BatchOf, BatchPieces
<1>2. \A m \in Nat : m % Radix \in Bytes
  BY <1>0 DEF Bytes
<1>3. header \in Seq(Bytes) /\ Len(header) = 2 /\ header[1] = BatchMark /\ header[2] = n % Radix
  <2>1. BatchMark \in Bytes
    BY EnvelopeAssumption DEF StreamMarks
  <2>2. n % Radix \in Bytes
    BY <1>0, <1>2
  <2> QED
    BY <2>1, <2>2
<1>4. pieces \in Seq(Seq(Bytes)) /\ Len(pieces) = n
  <2>1. ASSUME NEW i \in 1 .. n PROVE <<Len(packets[i]) % Radix>> \o packets[i] \in Seq(Bytes)
    <3>1. packets[i] \in Seq(Bytes) /\ Len(packets[i]) \in Nat
      OBVIOUS
    <3>2. Len(packets[i]) % Radix \in Bytes
      BY <1>2, <3>1
    <3> QED
      BY <3>1, <3>2
  <2> QED
    BY <1>0, <2>1 DEF BatchPieces
<1> HIDE DEF header, pieces
<1>5. /\ data \in Seq(Bytes) /\ (\A k \in 1 .. Len(header) : data[k] = header[k])
      /\ \E c : Laid(c, Len(header), pieces, data)
  BY <1>3, <1>4, Headed
<1> HIDE DEF data
<1>6. data[1] = BatchMark /\ data[2] = n % Radix
  BY <1>3, <1>5
<1>7. \E c : Laid(c, 2, pieces, data)
  BY <1>3, <1>5
<1> QED
  BY <1>1, <1>4, <1>5, <1>6, <1>7 DEF pieces

\* What a stream call puts on the way, before a CRC is put around it.
Out(j) == IF j.batched THEN BatchOf(PacketsOf(j)) ELSE PacketsOf(j)[1]

LEMMA OutType ==
    ASSUME Consistent(registry), NEW j, IsStream(j)
    PROVE  Out(j) \in Seq(Bytes) /\ Out(j) # <<>>
<1>1. /\ PacketsOf(j) \in Seq(Seq(Bytes)) /\ 1 \in 1 .. Len(PacketsOf(j))
      /\ Len(PacketsOf(j)[1]) >= 2
  <2>1. /\ PacketsOf(j) \in Seq(Seq(Bytes)) /\ Len(PacketsOf(j)) = Len(j.records)
        /\ Len(j.records) \in Nat \ {0}
    BY PacketsMade
  <2>2. 1 \in 1 .. Len(j.records)
    BY <2>1
  <2>3. Len(PacketsOf(j)[1]) >= 2
    BY <2>2, PacketsMade
  <2> QED
    BY <2>1, <2>2, <2>3
<1>2. CASE j.batched
  <2>1. BatchOf(PacketsOf(j)) \in Seq(Bytes)
    BY <1>1, BatchLaid
  <2>2. PICK c : Laid(c, 2, BatchPieces(PacketsOf(j)), BatchOf(PacketsOf(j)))
    BY <1>1, BatchLaid
  <2> DEFINE pieces == BatchPieces(PacketsOf(j))
             data == BatchOf(PacketsOf(j))
  <2>3. pieces \in Seq(Seq(Bytes))
    BY <1>1, BatchLaid
  <2>4. Rising(c, Len(pieces)) /\ Len(pieces) \in Nat /\ c[0] = 2 /\ Len(data) = c[Len(pieces)]
    <3>1. Rising(c, Len(pieces)) /\ Len(pieces) \in Nat
      BY <2>2, <2>3, LaidRises
    <3>2. c[0] = 2 /\ Len(data) = c[Len(pieces)]
      BY <2>2 DEF Laid
    <3> QED
      BY <3>1, <3>2
  <2> HIDE DEF pieces, data
  <2>5. 0 \in 0 .. Len(pieces) /\ Len(pieces) \in 0 .. Len(pieces) /\ 0 <= Len(pieces)
    BY <2>4
  <2>6. c[0] <= c[Len(pieces)]
    BY <2>4, <2>5, RisingFar
  <2>7. Len(data) >= 2
    BY <2>4, <2>5, <2>6 DEF Rising
  <2>8. data # <<>>
    BY <2>7
  <2> QED
    BY <1>2, <2>1, <2>8 DEF Out, data
<1>3. CASE ~j.batched
  <2>1. PacketsOf(j)[1] \in Seq(Bytes)
    BY <1>1
  <2>2. PacketsOf(j)[1] # <<>>
    BY <1>1, <2>1
  <2> QED
    BY <1>3, <2>1, <2>2 DEF Out
<1> QED
  BY <1>2, <1>3

\* The bytes of a piece of a stream with noise.
PieceBytes(piece) == IF IsPacket(piece) THEN PacketOf(job, piece) ELSE piece.noise

StreamPieces == [i \in 1 .. Len(job.pieces) |-> PieceBytes(job.pieces[i])]

LEMMA StreamLaid ==
    ASSUME Consistent(registry), IsRecovery(job)
    PROVE  /\ StreamPieces \in Seq(Seq(Bytes)) /\ Len(StreamPieces) = Len(job.pieces)
           /\ Len(job.pieces) \in Nat /\ DOMAIN job.pieces = 1 .. Len(job.pieces)
           /\ Stream \in Seq(Bytes) /\ \E c : Layout(c, StreamPieces, Stream)
<1> DEFINE n == Len(job.pieces)
<1>1. n \in Nat /\ DOMAIN job.pieces = 1 .. n
  <2>1. job.pieces \in Seq({job.pieces[i] : i \in DOMAIN job.pieces})
    BY DEF IsRecovery
  <2> QED
    BY <2>1
<1>2. ASSUME NEW i \in 1 .. n PROVE PieceBytes(job.pieces[i]) \in Seq(Bytes)
  <2>1. CASE IsPacket(job.pieces[i])
    <3>1. Sendable(job.pieces[i], job.omit)
      BY <1>1, <2>1 DEF IsRecovery
    <3> QED
      BY <2>1, <3>1, PacketMade DEF PieceBytes
  <2>2. CASE ~IsPacket(job.pieces[i])
    BY <1>1, <2>2 DEF IsRecovery, PieceBytes
  <2> QED
    BY <2>1, <2>2
<1>3. StreamPieces \in Seq(Seq(Bytes)) /\ Len(StreamPieces) = n
  BY <1>1, <1>2 DEF StreamPieces
<1>4. Stream = FlattenSeq(StreamPieces)
  BY <1>1 DEF Stream, StreamPieces, PieceBytes
<1> QED
  BY <1>1, <1>3, <1>4, Flattened

-----------------------------------------------------------------------------
(* What is received is one record *)

\* A set of one element, and one of none, as sequences.
LEMMA SequenceOfOne ==
    ASSUME NEW x
    PROVE  SetToSeq({x}) = <<x>>
<1>1. Cardinality({x}) = 1
  BY FS_Singleton
<1> DEFINE Fs == [1 .. 1 -> {x}]
           P(f) == IsInjective(f)
<1>2. [i \in 1 .. 1 |-> x] \in Fs /\ P([i \in 1 .. 1 |-> x])
  BY DEF IsInjective
<1>3. (CHOOSE f \in Fs : P(f)) \in Fs
  <2> HIDE DEF Fs, P
  <2> QED
    BY <1>2
<1>4. SetToSeq({x}) \in [1 .. 1 -> {x}]
  BY <1>1, <1>3 DEF SetToSeq
<1>5. ASSUME NEW f \in [1 .. 1 -> {x}] PROVE f = <<x>>
  <2>1. f \in Seq({x}) /\ Len(f) = 1 /\ f[1] = x
    BY <1>5
  <2>2. <<x>> \in Seq({x}) /\ Len(<<x>>) = 1 /\ <<x>>[1] = x
    OBVIOUS
  <2> QED
    BY <2>1, <2>2, SeqEqual
<1> QED
  BY <1>4, <1>5

LEMMA SequenceOfNone == SetToSeq({}) = <<>>
<1>1. Cardinality({}) = 0
  BY FS_EmptySet
<1> DEFINE Fs == [1 .. 0 -> {}]
           P(f) == IsInjective(f)
<1>2. [i \in 1 .. 0 |-> i] \in Fs /\ P([i \in 1 .. 0 |-> i])
  BY DEF IsInjective
<1>3. (CHOOSE f \in Fs : P(f)) \in Fs
  <2> HIDE DEF Fs, P
  <2> QED
    BY <1>2
<1>4. SetToSeq({}) \in [1 .. 0 -> {}]
  BY <1>1, <1>3 DEF SetToSeq
<1>5. ASSUME NEW f \in [1 .. 0 -> {}] PROVE f = <<>>
  <2>1. f \in Seq({}) /\ Len(f) = 0
    BY <1>5
  <2> QED
    BY <2>1
<1> QED
  BY <1>4, <1>5

\* A message id names one schema.
LEMMA OneSchema ==
    ASSUME NEW reg, Consistent(reg), NEW p, NEW sch \in OfPacket(reg, p)
    PROVE  /\ OfPacket(reg, p) = {sch} /\ ById(reg, p[1]) = {sch} /\ Len(p) >= 1
           /\ Shaped(sch) /\ WellFormed(sch.fields) /\ sch.id = p[1]
           /\ sch = reg.schemas[sch.name] /\ sch.name \in DOMAIN reg.schemas
           /\ ByName(reg, sch.name) = {sch}
<1>1. sch \in ById(reg, p[1]) /\ Len(p) >= 1 /\ OfPacket(reg, p) = ById(reg, p[1])
  BY DEF OfPacket
<1>2. sch.id = p[1] /\ sch \in ByName(reg, sch.name)
  BY <1>1, FoundById
<1>3. /\ Shaped(sch) /\ WellFormed(sch.fields)
      /\ sch = reg.schemas[sch.name] /\ sch.name \in DOMAIN reg.schemas
      /\ ByName(reg, sch.name) = {sch} /\ ById(reg, sch.id) = {sch}
  BY <1>2, FoundByName
<1> QED
  BY <1>1, <1>2, <1>3

LEMMA RestoredOnce ==
    ASSUME NEW sch, NEW p, NEW on, NEW q \in Restored(sch, p, on)
    PROVE  Restored(sch, p, on) = {q}
BY DEF Restored

LEMMA ReadOnce ==
    ASSUME NEW sch, NEW w, NEW v \in Read(sch, w)
    PROVE  Read(sch, w) = {v} /\ v = ValuesOf(sch, w) /\ Resolve(v) /\ w.ok
BY DEF Read

LEMMA ReceivedOnce ==
    ASSUME NEW reg, Consistent(reg), NEW p, NEW on, NEW x \in Receive(reg, p, on)
    PROVE  Receive(reg, p, on) = {x}
<1>1. PICK sch \in OfPacket(reg, p) : x \in ReceiveWith(sch, p, on)
  BY DEF Receive
<1>2. Receive(reg, p, on) = ReceiveWith(sch, p, on)
  <2>1. OfPacket(reg, p) = {sch}
    BY <1>1, OneSchema
  <2> QED
    BY <2>1 DEF Receive
<1> DEFINE plain == {q \in Restored(sch, p, on) : Check(sch, q)}
           read == UNION {Read(sch, Walk(sch, q, 1, FALSE, {})) : q \in plain}
           fit == {v \in read : ValuesFit(sch, v, Known)}
           Message(v) == [name |-> sch.name, payload |-> Named(sch, v)]
<1>3. ReceiveWith(sch, p, on) = {Message(v) : v \in fit}
  BY DEF ReceiveWith
<1>4. \A q, r \in plain : q = r
  BY RestoredOnce
<1>5. \A v, u \in read : v = u
  <2> SUFFICES ASSUME NEW v \in read, NEW u \in read PROVE v = u
    OBVIOUS
  <2>1. PICK q \in plain : v \in Read(sch, Walk(sch, q, 1, FALSE, {}))
    OBVIOUS
  <2>2. PICK r \in plain : u \in Read(sch, Walk(sch, r, 1, FALSE, {}))
    OBVIOUS
  <2> HIDE DEF plain
  <2>3. q = r
    BY <1>4
  <2> DEFINE w == Walk(sch, q, 1, FALSE, {})
  <2>4. v \in Read(sch, w) /\ u \in Read(sch, w)
    BY <2>1, <2>2, <2>3
  <2> HIDE DEF w, read
  <2> QED
    BY <2>4, ReadOnce
<1> HIDE DEF read
<1>6. \A v, u \in fit : v = u
  BY <1>5
<1> HIDE DEF fit, Message
<1>7. {Message(v) : v \in fit} = {x}
  BY <1>1, <1>3, <1>6
<1> QED
  BY <1>2, <1>3, <1>7

-----------------------------------------------------------------------------
(* What is true of a packet on its way *)

JobInv ==
    /\ pc = "register" => job = NoJob
    /\ pc # "register" => IsCall(job) \/ IsStream(job) \/ IsRecovery(job)

CallInv ==
    job.via = "call" =>
        /\ pc \in {"emit", "refused", "sent", "failed", "done"}
        /\ damage \in {"none", "cut", "extended"}
        /\ pc \in {"emit", "refused"} => damage = "none" /\ messages = <<>>
        /\ pc = "refused" => MadeBy(job) = {}
        /\ pc \in {"sent", "failed", "done"} =>
              \E p \in MadeBy(job) :
                 /\ damage = "none" => wire = p
                 /\ damage = "cut" => \E n \in 0 .. Len(p) - 1 : wire = SubSeq(p, 1, n)
                 /\ damage = "extended" => \E b \in Bytes : wire = Append(p, b)
        /\ pc \in {"failed", "done"} =>
              /\ messages = SetToSeq(TakenBy(job, wire))
              /\ pc = IF messages = <<>> THEN "failed" ELSE "done"

\* What a stream call puts on the way.
Carried(j) == IF j.crc THEN Wrap(Out(j)) ELSE Out(j)

StreamInv ==
    job.via = "stream" =>
        /\ pc \in {"emit", "sent", "failed", "done"}
        /\ damage \in {"none", "byte", "marker"}
        /\ pc = "emit" => damage = "none"
        /\ pc # "emit" /\ damage = "none" => wire = Carried(job)
        /\ damage = "byte" => wire # <<>> /\ Unwrap(wire) = {}
        /\ pc \in {"failed", "done"} =>
              /\ messages = ReceiveStream(registry, wire, job.on).messages
              /\ pc = IF ReceiveStream(registry, wire, job.on).ok THEN "done" ELSE "failed"

\* How much of the stream is behind the first n packets that were found.
Behind(n) == IF n = 0 THEN 0 ELSE found[n].offset + Len(found[n].packet)

\* The first packet in what is left of the stream.
IsFirst(o, p, data) ==
    /\ o \in Offsets(registry, data) /\ \A q \in Offsets(registry, data) : o <= q
    /\ p \in PacketsAt(registry, data, o)

FoundInv ==
    /\ found \in Seq([offset : Nat, skipped : Nat, packet : Seq(Bytes)])
    /\ \A i \in 1 .. Len(found) :
          /\ found[i].offset = Behind(i - 1) + found[i].skipped
          /\ Behind(i) <= Len(Stream)
          /\ found[i].packet = SubSeq(Stream, found[i].offset + 1, Behind(i))
          /\ IsFirst(found[i].skipped, found[i].packet, From(Stream, Behind(i - 1)))

\* The packets before the next one are decoded, each to one record.
TakenInv ==
    /\ messages \in Seq({messages[i] : i \in DOMAIN messages})
    /\ Len(messages) <= Len(found) /\ Len(messages) <= Limit
    /\ \A i \in 1 .. Len(messages) :
          Receive(registry, found[i].packet, job.on) = {messages[i]}

\* Nothing is left to find.
Scanned == Offsets(registry, From(Stream, Behind(Len(found)))) = {}

\* Nothing was found, or the next packet is refused.
Stuck ==
    \/ found = <<>>
    \/ /\ Len(messages) < Len(found) /\ Len(messages) < Limit
       /\ Receive(registry, Upcoming.packet, job.on) = {}

DecodedInv ==
    /\ TakenInv
    /\ pc \in {"decode", "failed", "done"} => Scanned
    /\ pc = "failed" => Stuck
    /\ pc = "done" => Len(messages) = Len(found) \/ Len(messages) = Limit

RecoveryInv ==
    /\ job.via # "recovery" => found = <<>>
    /\ job.via = "recovery" =>
        /\ pc \in {"emit", "scan", "decode", "failed", "done"}
        /\ damage = "none"
        /\ pc = "emit" => consumed = 0 /\ found = <<>>
        /\ pc \in {"emit", "scan"} => messages = <<>>
        /\ pc = "scan" => consumed = Behind(Len(found)) /\ wire = From(Stream, consumed)
        /\ FoundInv /\ DecodedInv

PacketsInv ==
    /\ Consistent(registry) /\ JobInv /\ CallInv /\ StreamInv /\ RecoveryInv
    /\ pc \in {"register", "emit"} => damage = "none" /\ messages = <<>>
    /\ pc = "register" => consumed = 0 /\ found = <<>>

-----------------------------------------------------------------------------
(* Every step keeps what is true of a packet on its way *)

LEMMA PacketsStart == Init => PacketsInv
<1> SUFFICES ASSUME Init PROVE PacketsInv
  OBVIOUS
<1>1. /\ registry = Empty /\ job = NoJob /\ pc = "register" /\ found = <<>>
      /\ damage = "none" /\ messages = <<>> /\ consumed = 0
  BY DEF Init, PathsInit
<1>2. job.via = "none"
  BY <1>1 DEF NoJob
<1>3. Consistent(registry)
  <2>1. registry.schemas = <<>> /\ registry.names = <<>>
    BY <1>1 DEF Empty
  <2>2. DOMAIN registry.schemas = {} /\ DOMAIN registry.names = {}
    BY <2>1
  <2> QED
    BY <2>2 DEF Consistent
<1>4. JobInv
  BY <1>1 DEF JobInv
<1>5. CallInv /\ StreamInv /\ RecoveryInv
  BY <1>1, <1>2 DEF CallInv, StreamInv, RecoveryInv
<1> QED
  BY <1>1, <1>3, <1>4, <1>5 DEF PacketsInv

\* What depends on the schemas and on the job alone stays while they do.
LEMMA SameJob ==
    ASSUME UNCHANGED <<registry, job>>
    PROVE  /\ IsCall(job)' <=> IsCall(job)
           /\ IsStream(job)' <=> IsStream(job)
           /\ IsRecovery(job)' <=> IsRecovery(job)
           /\ MadeBy(job)' = MadeBy(job) /\ Carried(job)' = Carried(job)
           /\ Stream' = Stream
           /\ Consistent(registry)' <=> Consistent(registry)
<1>0. registry' = registry /\ job' = job
  OBVIOUS
<1>1. IsCall(job)' <=> IsCall(job)
  BY <1>0 DEF IsCall
<1>2. IsStream(job)' <=> IsStream(job)
  BY <1>0 DEF IsStream, Sendable
<1>3. IsRecovery(job)' <=> IsRecovery(job)
  BY <1>0 DEF IsRecovery, Sendable
<1>4. MadeBy(job)' = MadeBy(job)
  BY <1>0 DEF MadeBy
<1>5. Carried(job)' = Carried(job)
  BY <1>0 DEF Carried, Out, PacketsOf, PacketOf
<1>6. Stream' = Stream
  BY <1>0 DEF Stream, PacketOf
<1>7. Consistent(registry)' <=> Consistent(registry)
  BY <1>0
<1> QED
  BY <1>1, <1>2, <1>3, <1>4, <1>5, <1>6, <1>7

LEMMA RegisterStep ==
    ASSUME PacketsInv, NEW def \in Definitions, RegisterSchema(def), UNCHANGED recovery
    PROVE  PacketsInv'
<1>1. /\ pc = "register" /\ pc' = pc /\ job' = job /\ damage' = damage
      /\ messages' = messages /\ found' = found /\ consumed' = consumed
      /\ registry' = Registered(registry, def)
  BY DEF RegisterSchema, recovery
<1>2. job = NoJob /\ Consistent(registry) /\ damage = "none" /\ messages = <<>>
      /\ consumed = 0 /\ found = <<>>
  BY <1>1 DEF PacketsInv, JobInv
<1>3. job.via = "none" /\ job'.via = "none"
  BY <1>1, <1>2 DEF NoJob
<1>4. Consistent(registry')
  BY <1>1, <1>2, EnteredConsistent
<1>5. JobInv'
  BY <1>1, <1>2 DEF JobInv
<1>6. CallInv' /\ StreamInv' /\ RecoveryInv'
  BY <1>1, <1>2, <1>3 DEF CallInv, StreamInv, RecoveryInv
<1> QED
  BY <1>1, <1>2, <1>4, <1>5, <1>6 DEF PacketsInv

LEMMA StartStep ==
    ASSUME PacketsInv, Start, UNCHANGED recovery
    PROVE  PacketsInv'
<1>1. /\ pc = "register" /\ pc' = "emit" /\ registry' = registry /\ damage' = damage
      /\ messages' = messages /\ found' = found /\ consumed' = consumed
      /\ IsCall(job') \/ IsStream(job') \/ IsRecovery(job')
  BY DEF Start, recovery
<1>2. Consistent(registry) /\ damage = "none" /\ messages = <<>> /\ consumed = 0 /\ found = <<>>
  BY <1>1 DEF PacketsInv
<1>3. JobInv'
  <2>1. IsCall(job') => IsCall(job)'
    BY <1>1 DEF IsCall
  <2>2. IsStream(job') => IsStream(job)'
    BY <1>1 DEF IsStream, Sendable
  <2>3. IsRecovery(job') => IsRecovery(job)'
    BY <1>1 DEF IsRecovery, Sendable
  <2> QED
    BY <1>1, <2>1, <2>2, <2>3 DEF JobInv
<1>4. CallInv'
  BY <1>1, <1>2 DEF CallInv
<1>5. StreamInv'
  BY <1>1, <1>2 DEF StreamInv
<1>6. RecoveryInv'
  <2>1. FoundInv'
    BY <1>1, <1>2 DEF FoundInv
  <2>2. DecodedInv'
    BY <1>1, <1>2, LimitAssumption DEF DecodedInv, TakenInv
  <2> QED
    BY <1>1, <1>2, <2>1, <2>2 DEF RecoveryInv
<1> QED
  BY <1>1, <1>2, <1>3, <1>4, <1>5, <1>6 DEF PacketsInv

\* The steps of a call.
LEMMA CallSteps ==
    ASSUME PacketsInv, job.via = "call", UNCHANGED recovery,
           \/ MakePacket \/ TakePacket
           \/ \E n \in 0 .. Len(wire) - 1 : Cut(n)
           \/ \E b \in Bytes : Extend(b)
    PROVE  PacketsInv'
<1>0. /\ registry' = registry /\ job' = job /\ found' = found /\ consumed' = consumed
      /\ pc \in {"emit", "sent"} /\ pc' \in {"refused", "sent", "failed", "done"}
  BY DEF MakePacket, TakePacket, Cut, Extend, Damage, recovery
<1>1. /\ JobInv' /\ Consistent(registry)'
      /\ MadeBy(job)' = MadeBy(job)
  <2>1. /\ IsCall(job)' <=> IsCall(job)
        /\ IsStream(job)' <=> IsStream(job)
        /\ IsRecovery(job)' <=> IsRecovery(job)
        /\ MadeBy(job)' = MadeBy(job)
        /\ Consistent(registry)' <=> Consistent(registry)
    BY <1>0, SameJob
  <2> QED
    BY <1>0, <2>1 DEF PacketsInv, JobInv
<1>2. /\ pc \in {"emit", "refused"} => damage = "none" /\ messages = <<>>
      /\ damage \in {"none", "cut", "extended"}
      /\ pc = "sent" =>
              \E p \in MadeBy(job) :
                 /\ damage = "none" => wire = p
                 /\ damage = "cut" => \E n \in 0 .. Len(p) - 1 : wire = SubSeq(p, 1, n)
                 /\ damage = "extended" => \E b \in Bytes : wire = Append(p, b)
  BY DEF PacketsInv, CallInv
<1>3. found = <<>>
  BY DEF PacketsInv, RecoveryInv
<1>4. CallInv'
  <2>1. CASE MakePacket
    <3>1. /\ damage' = damage /\ messages' = messages /\ pc = "emit"
          /\ IF MadeBy(job) = {} THEN pc' = "refused" /\ UNCHANGED wire
                                 ELSE pc' = "sent" /\ wire' \in MadeBy(job)
      BY <2>1 DEF MakePacket
    <3> HIDE DEF MadeBy
    <3> QED
      BY <1>0, <1>1, <1>2, <3>1 DEF CallInv
  <2>2. CASE TakePacket
    <3>1. /\ damage' = damage /\ wire' = wire /\ pc = "sent"
          /\ messages' = SetToSeq(TakenBy(job, wire))
          /\ pc' = IF messages' = <<>> THEN "failed" ELSE "done"
      BY <2>2 DEF TakePacket
    <3>2. TakenBy(job, wire)' = TakenBy(job, wire)
      BY <1>0, <3>1 DEF TakenBy
    <3> QED
      BY <1>0, <1>1, <1>2, <3>1, <3>2 DEF CallInv
  <2>3. CASE \E n \in 0 .. Len(wire) - 1 : Cut(n)
    <3>1. PICK n \in 0 .. Len(wire) - 1 : Cut(n)
      BY <2>3
    <3>2. /\ pc = "sent" /\ pc' = pc /\ damage = "none" /\ damage' = "cut"
          /\ wire' = SubSeq(wire, 1, n) /\ messages' = messages
      BY <3>1 DEF Cut, Damage
    <3>3. wire \in MadeBy(job)
      BY <1>2, <3>2
    <3>4. \E p \in MadeBy(job) : \E k \in 0 .. Len(p) - 1 : wire' = SubSeq(p, 1, k)
      BY <3>2, <3>3
    <3> QED
      BY <1>0, <1>1, <3>2, <3>4 DEF CallInv
  <2>4. CASE \E b \in Bytes : Extend(b)
    <3>1. PICK b \in Bytes : Extend(b)
      BY <2>4
    <3>2. /\ pc = "sent" /\ pc' = pc /\ damage = "none" /\ damage' = "extended"
          /\ wire' = Append(wire, b) /\ messages' = messages
      BY <3>1 DEF Extend, Damage
    <3>3. wire \in MadeBy(job)
      BY <1>2, <3>2
    <3>4. \E p \in MadeBy(job) : \E x \in Bytes : wire' = Append(p, x)
      BY <3>2, <3>3
    <3> QED
      BY <1>0, <1>1, <3>2, <3>4 DEF CallInv
  <2> QED
    BY <2>1, <2>2, <2>3, <2>4
<1>5. StreamInv' /\ RecoveryInv'
  BY <1>0, <1>3 DEF StreamInv, RecoveryInv
<1> QED
  BY <1>0, <1>1, <1>4, <1>5 DEF PacketsInv

\* The steps of a stream call.
LEMMA StreamSteps ==
    ASSUME PacketsInv, job.via = "stream", UNCHANGED recovery,
           \/ EmitStream \/ TakeStream
           \/ \E i \in DOMAIN wire : \E b \in Bytes : Change(i, b)
    PROVE  PacketsInv'
<1>0. /\ registry' = registry /\ job' = job /\ found' = found /\ consumed' = consumed
      /\ pc \in {"emit", "sent"} /\ pc' \in {"sent", "failed", "done"}
  BY DEF EmitStream, TakeStream, Change, Damage, recovery
<1>1. JobInv' /\ Consistent(registry)' /\ Carried(job)' = Carried(job)
  <2>1. /\ IsCall(job)' <=> IsCall(job)
        /\ IsStream(job)' <=> IsStream(job)
        /\ IsRecovery(job)' <=> IsRecovery(job)
        /\ Carried(job)' = Carried(job)
        /\ Consistent(registry)' <=> Consistent(registry)
    BY <1>0, SameJob
  <2> QED
    BY <1>0, <2>1 DEF PacketsInv, JobInv
<1>2. /\ damage \in {"none", "byte", "marker"}
      /\ pc = "emit" => damage = "none"
      /\ pc # "emit" /\ damage = "none" => wire = Carried(job)
      /\ damage = "byte" => wire # <<>> /\ Unwrap(wire) = {}
  BY DEF PacketsInv, StreamInv
<1>3. found = <<>>
  BY DEF PacketsInv, RecoveryInv
<1>4. StreamInv'
  <2>1. CASE EmitStream
    <3>1. /\ damage' = damage /\ pc = "emit" /\ pc' = "sent" /\ wire' = Carried(job)
      BY <2>1 DEF EmitStream, Carried, Out
    <3> HIDE DEF Carried
    <3> QED
      BY <1>0, <1>1, <1>2, <3>1 DEF StreamInv
  <2>2. CASE TakeStream
    <3> DEFINE r == ReceiveStream(registry, wire, job.on)
    <3>1. /\ damage' = damage /\ wire' = wire /\ pc = "sent"
          /\ messages' = r.messages /\ pc' = IF r.ok THEN "done" ELSE "failed"
      BY <2>2 DEF TakeStream
    <3>2. ReceiveStream(registry, wire, job.on)' = r
      BY <1>0, <3>1
    <3> HIDE DEF r, Carried
    <3> QED
      BY <1>0, <1>1, <1>2, <3>1, <3>2 DEF StreamInv
  <2>3. CASE \E i \in DOMAIN wire : \E b \in Bytes : Change(i, b)
    <3>1. PICK i \in DOMAIN wire, b \in Bytes : Change(i, b)
      BY <2>3
    <3>2. /\ pc = "sent" /\ pc' = pc /\ damage = "none" /\ job.crc /\ wire[i] # b
          /\ damage' = IF i = 1 THEN "marker" ELSE "byte"
          /\ wire' = [wire EXCEPT ![i] = b]
      BY <3>1 DEF Change, Damage
    <3>3. IsStream(job)
      BY <3>2 DEF PacketsInv, JobInv, IsCall, IsRecovery
    <3>4. Out(job) \in Seq(Bytes)
      BY <3>3, OutType DEF PacketsInv
    <3> DEFINE w == Wrap(Out(job))
    <3>5. wire = w
      BY <1>2, <3>2 DEF Carried
    <3>6. w \in Seq(Bytes) /\ Len(w) \in Nat
      <4>1. w \in Seq(Bytes)
        BY <3>4, WrapParts
      <4> QED
        BY <4>1
    <3>7. i \in 1 .. Len(w)
      BY <3>5, <3>6
    <3>8. i # 1 => Unwrap(wire') = {}
      <4>1. ASSUME i # 1 PROVE Unwrap([w EXCEPT ![i] = b]) = {}
        <5>1. i \in 2 .. Len(w) /\ b # w[i]
          BY <3>2, <3>5, <3>6, <3>7, <4>1
        <5> QED
          BY <3>4, <5>1, WrapShows
      <4> QED
        BY <3>2, <3>5, <4>1
    <3> HIDE DEF w
    <3>9. wire' # <<>>
      BY <3>2, <3>5, <3>6, <3>7
    <3> QED
      BY <1>0, <3>2, <3>8, <3>9 DEF StreamInv
  <2> QED
    BY <2>1, <2>2, <2>3
<1>5. CallInv' /\ RecoveryInv'
  BY <1>0, <1>3 DEF CallInv, RecoveryInv
<1> QED
  BY <1>0, <1>1, <1>4, <1>5 DEF PacketsInv

-----------------------------------------------------------------------------
(* What the synchronizer finds *)

\* A packet is measured within the bytes that are there.
LEMMA MeasuredWithin ==
    ASSUME NEW sch, Shaped(sch), NEW data \in Seq(Bytes), Len(data) >= 1,
           NEW n \in Measured(sch, data)
    PROVE  n \in Nat /\ 1 <= n /\ n <= Len(data)
<1>0. Len(data) \in Nat /\ BitmapSize(sch) \in Nat
  BY BitmapPlaces DEF Shaped
<1>1. \E start \in Nat : \E omitted :
         /\ 1 <= start /\ start <= Len(data)
         /\ Walk(sch, data, start, TRUE, omitted).ok
         /\ n = Walk(sch, data, start, TRUE, omitted).at
  <2>1. CASE IsOptimized(data)
    <3>1. /\ HasBitmap(sch, data) /\ WalkOptimized(sch, data, TRUE).ok
          /\ n = WalkOptimized(sch, data, TRUE).at
      BY <2>1 DEF Measured
    <3>2. PICK omitted : WalkOptimized(sch, data, TRUE)
                           = Walk(sch, data, 3 + BitmapSize(sch), TRUE, omitted)
      BY DEF WalkOptimized
    <3>3. 1 <= 3 + BitmapSize(sch) /\ 3 + BitmapSize(sch) <= Len(data)
          /\ 3 + BitmapSize(sch) \in Nat
      BY <1>0, <3>1 DEF HasBitmap
    <3> QED
      BY <3>1, <3>2, <3>3
  <2>2. CASE ~IsOptimized(data)
    <3>1. Walk(sch, data, 1, TRUE, {}).ok /\ n = Walk(sch, data, 1, TRUE, {}).at
      BY <2>2 DEF Measured
    <3>2. 1 \in Nat /\ 1 <= 1 /\ 1 <= Len(data)
      BY <1>0
    <3> QED
      BY <3>1, <3>2, Zenon
  <2> QED
    BY <2>1, <2>2
<1>2. PICK start \in Nat : \E omitted :
         /\ 1 <= start /\ start <= Len(data)
         /\ Walk(sch, data, start, TRUE, omitted).ok
         /\ n = Walk(sch, data, start, TRUE, omitted).at
  BY <1>1
<1>w. PICK omitted :
         /\ 1 <= start /\ start <= Len(data)
         /\ Walk(sch, data, start, TRUE, omitted).ok
         /\ n = Walk(sch, data, start, TRUE, omitted).at
  BY <1>2
<1>3. PICK c : /\ Cuts(c, sch, data, start, TRUE, omitted)
               /\ WalkedAt(Walk(sch, data, start, TRUE, omitted), c, sch, data, omitted)
  BY <1>w, WalkCuts
<1>4. n = c[Len(sch.fields)]
  BY <1>w, <1>3 DEF WalkedAt
<1>5. Len(sch.fields) \in 0 .. Len(sch.fields)
  BY DEF Shaped
<1>6. \A i \in 0 .. Len(sch.fields) : c[i] \in Nat /\ start <= c[i] /\ c[i] <= Len(data)
  BY <1>0, <1>w, <1>3, CutsRise
<1>7. n \in Nat /\ start <= n /\ n <= Len(data)
  BY <1>4, <1>5, <1>6
<1>8. start \in Nat /\ 1 <= start
  BY <1>w
<1> HIDE DEF Measured
<1> QED
  BY <1>0, <1>7, <1>8

\* The rest of a sequence is one, and what is cut out of it was in it.
LEMMA RestOf ==
    ASSUME NEW S, NEW data \in Seq(S), NEW o \in 0 .. Len(data)
    PROVE  /\ From(data, o) \in Seq(S) /\ Len(From(data, o)) = Len(data) - o
           /\ \A i \in 1 .. Len(data) - o : From(data, o)[i] = data[o + i]
<1>1. Len(data) \in Nat
  OBVIOUS
<1> QED
  BY <1>1, Slicing DEF From

LEMMA RestOfRest ==
    ASSUME NEW S, NEW data \in Seq(S), NEW o \in 0 .. Len(data),
           NEW a \in 0 .. Len(data) - o, NEW b \in a .. Len(data) - o
    PROVE  /\ SubSeq(From(data, o), a + 1, b) = SubSeq(data, o + a + 1, o + b)
           /\ From(From(data, o), a) = From(data, o + a)
<1>0. Len(data) \in Nat /\ o \in Nat /\ a \in Nat /\ b \in Nat /\ a <= b /\ o + b <= Len(data)
  OBVIOUS
<1> DEFINE rest == From(data, o)
<1>1. rest \in Seq(S) /\ Len(rest) = Len(data) - o
      /\ \A i \in 1 .. Len(data) - o : rest[i] = data[o + i]
  BY RestOf
<1> HIDE DEF rest
<1>2. ASSUME NEW e \in Nat, a <= e, o + e <= Len(data)
      PROVE  SubSeq(rest, a + 1, e) = SubSeq(data, o + a + 1, o + e)
  <2>1. /\ SubSeq(rest, a + 1, e) \in Seq(S) /\ Len(SubSeq(rest, a + 1, e)) = e - a
        /\ \A i \in 1 .. e - a : SubSeq(rest, a + 1, e)[i] = rest[a + i]
    BY <1>0, <1>1, <1>2, Slicing
  <2>2. /\ SubSeq(data, o + a + 1, o + e) \in Seq(S)
        /\ Len(SubSeq(data, o + a + 1, o + e)) = (o + e) - (o + a)
        /\ \A i \in 1 .. (o + e) - (o + a) :
              SubSeq(data, o + a + 1, o + e)[i] = data[o + a + i]
    <3>1. o + a \in Nat /\ o + e \in Nat /\ o + a <= o + e
      BY <1>0, <1>2
    <3> QED
      BY <1>2, <3>1, Slicing
  <2>3. \A i \in 1 .. e - a : rest[a + i] = data[o + a + i]
    BY <1>0, <1>1, <1>2
  <2> DEFINE u == SubSeq(rest, a + 1, e)
             v == SubSeq(data, o + a + 1, o + e)
  <2>4. u \in Seq(S) /\ v \in Seq(S) /\ Len(u) = Len(v)
    <3>1. (o + e) - (o + a) = e - a
      BY <1>0, <1>2
    <3>2. Len(u) = e - a /\ Len(v) = e - a
      BY <2>1, <2>2, <3>1
    <3> QED
      BY <2>1, <2>2, <3>2
  <2>5. \A i \in 1 .. Len(u) : u[i] = v[i]
    BY <1>0, <1>2, <2>1, <2>2, <2>3
  <2> HIDE DEF u, v
  <2>6. u = v
    BY <2>4, <2>5, SeqEqual
  <2> QED
    BY <2>6 DEF u, v
<1>3. SubSeq(rest, a + 1, b) = SubSeq(data, o + a + 1, o + b)
  BY <1>0, <1>2
<1>4. From(rest, a) = From(data, o + a)
  <2>1. Len(rest) \in Nat /\ a <= Len(rest) /\ o + Len(rest) = Len(data)
    BY <1>0, <1>1
  <2>2. SubSeq(rest, a + 1, Len(rest)) = SubSeq(data, o + a + 1, Len(data))
    BY <1>0, <1>2, <2>1
  <2> QED
    BY <2>2 DEF From
<1> QED
  BY <1>3, <1>4 DEF rest

\* What is found at an offset is a packet there, of a schema it names.
LEMMA FoundThere ==
    ASSUME NEW reg, Consistent(reg), NEW data \in Seq(Bytes), NEW o \in 0 .. Len(data) - 1,
           NEW p \in PacketsAt(reg, data, o)
    PROVE  \E n \in Nat : /\ 1 <= n /\ o + n <= Len(data)
                          /\ p = SubSeq(data, o + 1, o + n) /\ p \in Seq(Bytes) /\ Len(p) = n
                          /\ \E sch \in OfPacket(reg, p) : Valid(sch, p)
<1>0. Len(data) \in Nat /\ o \in Nat /\ o \in 0 .. Len(data)
  OBVIOUS
<1> DEFINE rest == From(data, o)
<1>1. rest \in Seq(Bytes) /\ Len(rest) = Len(data) - o
  BY <1>0, RestOf
<1>2. PICK sch \in ById(reg, data[o + 1]) : \E n \in Measured(sch, rest) :
         p = SubSeq(data, o + 1, o + n) /\ Valid(sch, p)
  BY DEF PacketsAt
<1>n. PICK n \in Measured(sch, rest) : p = SubSeq(data, o + 1, o + n) /\ Valid(sch, p)
  BY <1>2
<1>3. Shaped(sch)
  <2>1. sch \in ByName(reg, sch.name)
    BY <1>2, <1>n, FoundById
  <2> QED
    BY <2>1, FoundByName
<1>4. n \in Nat /\ 1 <= n /\ n <= Len(rest)
  <2>1. Len(rest) >= 1
    BY <1>0, <1>1
  <2> HIDE DEF rest
  <2> QED
    BY <1>1, <1>2, <1>n, <1>3, <2>1, MeasuredWithin
<1>5. o + n <= Len(data) /\ o + n \in Nat /\ o <= o + n
  BY <1>0, <1>1, <1>4
<1>6. /\ SubSeq(data, o + 1, o + n) \in Seq(Bytes)
      /\ Len(SubSeq(data, o + 1, o + n)) = (o + n) - o
      /\ \A i \in 1 .. (o + n) - o : SubSeq(data, o + 1, o + n)[i] = data[o + i]
  BY <1>0, <1>5, Slicing
<1>7. Len(p) = n /\ p[1] = data[o + 1]
  BY <1>0, <1>2, <1>n, <1>4, <1>6
<1>8. sch \in OfPacket(reg, p)
  BY <1>2, <1>n, <1>4, <1>7 DEF OfPacket
<1> QED
  BY <1>2, <1>n, <1>4, <1>5, <1>6, <1>7, <1>8

\* How far the packets found reach into the stream.
LEMMA BehindWithin ==
    ASSUME FoundInv, Len(Stream) \in Nat, NEW n \in 0 .. Len(found)
    PROVE  Behind(n) \in 0 .. Len(Stream)
<1>1. Len(found) \in Nat
  BY DEF FoundInv
<1>2. CASE n = 0
  BY <1>2 DEF Behind
<1>3. CASE n # 0
  <2>1. n \in 1 .. Len(found)
    BY <1>1, <1>3
  <2>2. found[n] \in [offset : Nat, skipped : Nat, packet : Seq(Bytes)]
    <3>1. found \in Seq([offset : Nat, skipped : Nat, packet : Seq(Bytes)])
      BY DEF FoundInv
    <3> QED
      BY <2>1, <3>1, ElementOfSeq
  <2>3. found[n].offset \in Nat /\ Len(found[n].packet) \in Nat
    BY <2>2
  <2>4. Behind(n) <= Len(Stream)
    BY <2>1 DEF FoundInv
  <2> QED
    BY <1>3, <2>3, <2>4 DEF Behind
<1> QED
  BY <1>2, <1>3

\* Another packet is found.
LEMMA FindStep ==
    ASSUME PacketsInv, job.via = "recovery", RecoverNext
    PROVE  PacketsInv'
<1> DEFINE o == Min(Offsets(registry, wire))
           p == CHOOSE p \in PacketsAt(registry, wire, o) : TRUE
           f == [offset |-> o + consumed, skipped |-> o, packet |-> p]
<1>0. /\ registry' = registry /\ job' = job /\ damage' = damage /\ messages' = messages
      /\ pc = "scan" /\ pc' = "scan" /\ Offsets(registry, wire) # {}
      /\ found' = Append(found, f) /\ consumed' = consumed + (o + Len(p))
      /\ wire' = From(wire, o + Len(p))
  BY DEF RecoverNext, Passed
<1>1. /\ JobInv' /\ Consistent(registry)' /\ Stream' = Stream
      /\ Consistent(registry) /\ IsRecovery(job)
  <2>1. /\ IsCall(job)' <=> IsCall(job)
        /\ IsStream(job)' <=> IsStream(job)
        /\ IsRecovery(job)' <=> IsRecovery(job)
        /\ Stream' = Stream
        /\ Consistent(registry)' <=> Consistent(registry)
    BY <1>0, SameJob
  <2> QED
    BY <1>0, <2>1 DEF PacketsInv, JobInv, IsCall, IsStream
<1>2. /\ consumed = Behind(Len(found)) /\ wire = From(Stream, consumed)
      /\ FoundInv /\ DecodedInv /\ messages = <<>> /\ damage = "none"
  BY <1>0 DEF PacketsInv, RecoveryInv
<1>3. Stream \in Seq(Bytes) /\ Len(Stream) \in Nat
  <2>1. Stream \in Seq(Bytes)
    BY <1>1, StreamLaid
  <2> QED
    BY <2>1
<1>4. Len(found) \in Nat /\ consumed \in 0 .. Len(Stream)
  <2>1. Len(found) \in Nat /\ Len(found) \in 0 .. Len(found)
    BY <1>2 DEF FoundInv
  <2> QED
    BY <1>2, <1>3, <2>1, BehindWithin
<1>5. wire \in Seq(Bytes) /\ Len(wire) = Len(Stream) - consumed
  BY <1>2, <1>3, <1>4, RestOf
<1>6. o \in Offsets(registry, wire) /\ \A q \in Offsets(registry, wire) : o <= q
  <2> DEFINE T == Offsets(registry, wire)
  <2>1. T \subseteq Nat
    BY <1>5 DEF Offsets
  <2> HIDE DEF T
  <2>2. \E x \in T : \A y \in T : x <= y
    BY <1>0, <2>1, Smallest DEF T
  <2>3. Min(T) \in T /\ \A y \in T : Min(T) <= y
    BY <2>2 DEF Min
  <2> QED
    BY <2>3 DEF T
<1> HIDE DEF o
<1>7. o \in 0 .. Len(wire) - 1 /\ p \in PacketsAt(registry, wire, o)
  BY <1>6 DEF Offsets
<1> HIDE DEF p
<1>8. PICK n \in Nat :
         /\ 1 <= n /\ o + n <= Len(wire) /\ p = SubSeq(wire, o + 1, o + n)
         /\ p \in Seq(Bytes) /\ Len(p) = n
  <2>1. /\ Consistent(registry) /\ wire \in Seq(Bytes) /\ o \in 0 .. Len(wire) - 1
        /\ p \in PacketsAt(registry, wire, o)
    BY <1>1, <1>5, <1>7
  <2>2. \E n \in Nat : /\ 1 <= n /\ o + n <= Len(wire)
                       /\ p = SubSeq(wire, o + 1, o + n) /\ p \in Seq(Bytes) /\ Len(p) = n
                       /\ \E sch \in OfPacket(registry, p) : Valid(sch, p)
    BY <2>1, FoundThere
  <2> QED
    BY <2>2
<1>9. o \in 0 .. Len(wire) /\ o + n \in 0 .. Len(wire) /\ o + n \in o .. Len(wire)
      /\ o \in Nat /\ consumed \in Nat
      /\ o \in 0 .. Len(Stream) - consumed /\ o + n \in o .. Len(Stream) - consumed
      /\ o + n \in 0 .. Len(Stream) - consumed
  BY <1>4, <1>5, <1>7, <1>8
<1>10. p = SubSeq(Stream, consumed + o + 1, consumed + (o + n))
  <2>1. SubSeq(From(Stream, consumed), o + 1, o + n)
          = SubSeq(Stream, consumed + o + 1, consumed + (o + n))
    BY <1>3, <1>4, <1>9, RestOfRest
  <2> QED
    BY <1>2, <1>8, <2>1
<1>11. wire' = From(Stream, consumed + (o + n))
  <2>1. (o + n) \in (o + n) .. Len(Stream) - consumed
    BY <1>9
  <2>2. From(From(Stream, consumed), o + n) = From(Stream, consumed + (o + n))
    BY <1>3, <1>4, <1>9, <2>1, RestOfRest
  <2> QED
    BY <1>0, <1>2, <1>8, <2>2
<1> DEFINE R == [offset : Nat, skipped : Nat, packet : Seq(Bytes)]
<1>12. f \in R
  BY <1>8, <1>9
<1>f. f.offset = o + consumed /\ f.skipped = o /\ f.packet = p
  OBVIOUS
<1> HIDE DEF f
<1>13. /\ found' \in Seq(R) /\ Len(found') = Len(found) + 1
       /\ \A i \in 1 .. Len(found) : found'[i] = found[i]
       /\ found'[Len(found) + 1] = f
  <2>1. found \in Seq(R)
    BY <1>2 DEF FoundInv
  <2> HIDE DEF R
  <2> QED
    BY <1>0, <1>12, <2>1
<1>14. ASSUME NEW i \in 0 .. Len(found) PROVE Behind(i)' = Behind(i)
  <2>1. CASE i = 0
    BY <2>1 DEF Behind
  <2>2. CASE i # 0
    <3>1. found'[i] = found[i]
      BY <1>4, <1>13, <2>2
    <3> QED
      BY <2>2, <3>1 DEF Behind
  <2> QED
    BY <2>1, <2>2
<1>15. /\ found'[Len(found')].offset + Len(found'[Len(found')].packet) = consumed + (o + n)
       /\ Len(found') # 0 /\ consumed + (o + n) <= Len(Stream)
  BY <1>4, <1>8, <1>9, <1>13, <1>f
<1>b. Behind(Len(found))' = consumed + (o + n)
  BY <1>15 DEF Behind
<1>16. \A i \in 1 .. Len(found') :
          /\ found'[i].offset = Behind(i - 1)' + found'[i].skipped
          /\ Behind(i)' <= Len(Stream)
          /\ found'[i].packet = SubSeq(Stream, found'[i].offset + 1, Behind(i)')
          /\ IsFirst(found'[i].skipped, found'[i].packet, From(Stream, Behind(i - 1)'))
  <2> SUFFICES ASSUME NEW i \in 1 .. Len(found')
               PROVE  /\ found'[i].offset = Behind(i - 1)' + found'[i].skipped
                      /\ Behind(i)' <= Len(Stream)
                      /\ found'[i].packet = SubSeq(Stream, found'[i].offset + 1, Behind(i)')
                      /\ IsFirst(found'[i].skipped, found'[i].packet,
                                 From(Stream, Behind(i - 1)'))
    OBVIOUS
  <2>1. CASE i # Len(found) + 1
    <3>1. i \in 1 .. Len(found) /\ i \in 0 .. Len(found) /\ i - 1 \in 0 .. Len(found)
      BY <1>4, <1>13, <2>1
    <3>2. found'[i] = found[i] /\ Behind(i)' = Behind(i) /\ Behind(i - 1)' = Behind(i - 1)
      BY <1>13, <1>14, <3>1
    <3> QED
      BY <1>2, <3>1, <3>2 DEF FoundInv
  <2>2. CASE i = Len(found) + 1
    <3>0. i # 0
      BY <1>4, <2>2
    <3>1. found'[i] = f /\ Behind(i)' = consumed + (o + n) /\ i - 1 = Len(found)
          /\ Len(found) \in 0 .. Len(found)
      BY <1>4, <1>13, <1>15, <2>2, <3>0 DEF Behind
    <3>2. Behind(i - 1)' = consumed
      BY <1>2, <1>14, <3>1
    <3>3. found'[i].offset = consumed + o /\ found'[i].skipped = o /\ found'[i].packet = p
      BY <1>9, <1>f, <3>1
    <3>4. IsFirst(o, p, wire)
      BY <1>6, <1>7 DEF IsFirst
    <3> QED
      BY <1>2, <1>9, <1>10, <1>15, <3>1, <3>2, <3>3, <3>4
  <2> QED
    BY <2>1, <2>2
<1>17. FoundInv'
  <2>1. \A x, y, z : IsFirst(x, y, z)' <=> IsFirst(x, y, z)
    BY <1>0 DEF IsFirst
  <2> QED
    BY <1>1, <1>13, <1>16, <2>1 DEF FoundInv
<1>18. DecodedInv'
  BY <1>0, <1>2, LimitAssumption, <1>13, <1>4 DEF DecodedInv, TakenInv
<1>19. RecoveryInv'
  BY <1>0, <1>1, <1>2, <1>11, <1>b, <1>17, <1>18, <1>8 DEF RecoveryInv
<1>20. CallInv' /\ StreamInv'
  BY <1>0 DEF CallInv, StreamInv
<1> QED
  BY <1>0, <1>1, <1>2, <1>19, <1>20 DEF PacketsInv

\* The stream arrives, and the scan comes to its end.
LEMMA ScanSteps ==
    ASSUME PacketsInv, job.via = "recovery", Arrives \/ ScanEnds \/ DecodeEnds
    PROVE  PacketsInv'
<1>0. /\ registry' = registry /\ job' = job /\ damage' = damage /\ messages' = messages
      /\ found' = found /\ consumed' = consumed
      /\ pc \in {"emit", "scan", "decode"} /\ pc' \in {"scan", "decode", "failed", "done"}
  BY DEF Arrives, ScanEnds, DecodeEnds, recovery
<1>1. JobInv' /\ Consistent(registry)' /\ Stream' = Stream /\ IsRecovery(job)
  <2>1. /\ IsCall(job)' <=> IsCall(job)
        /\ IsStream(job)' <=> IsStream(job)
        /\ IsRecovery(job)' <=> IsRecovery(job)
        /\ Stream' = Stream
        /\ Consistent(registry)' <=> Consistent(registry)
    BY <1>0, SameJob
  <2> QED
    BY <1>0, <2>1 DEF PacketsInv, JobInv, IsCall, IsStream
<1>2. /\ FoundInv /\ DecodedInv /\ damage = "none"
      /\ pc = "emit" => consumed = 0 /\ found = <<>>
      /\ pc \in {"emit", "scan"} => messages = <<>>
      /\ pc = "scan" => consumed = Behind(Len(found)) /\ wire = From(Stream, consumed)
  BY <1>0 DEF PacketsInv, RecoveryInv
<1>3. \A i : Behind(i)' = Behind(i)
  BY <1>0 DEF Behind
<1>4. FoundInv'
  <2>1. \A x, y, z : IsFirst(x, y, z)' <=> IsFirst(x, y, z)
    BY <1>0 DEF IsFirst
  <2> QED
    BY <1>0, <1>1, <1>2, <1>3, <2>1 DEF FoundInv
<1>t. TakenInv' <=> TakenInv
  BY <1>0 DEF TakenInv
<1>s. Scanned' <=> Scanned
  BY <1>0, <1>1, <1>3 DEF Scanned
<1>5. DecodedInv'
  <2>1. CASE Arrives
    <3>1. pc' = "scan"
      BY <2>1 DEF Arrives
    <3> QED
      BY <1>2, <1>t, <3>1 DEF DecodedInv
  <2>2. CASE ScanEnds
    <3>1. /\ pc = "scan" /\ Offsets(registry, wire) = {}
          /\ pc' = IF found = <<>> THEN "failed" ELSE "decode"
      BY <2>2 DEF ScanEnds
    <3>2. wire = From(Stream, Behind(Len(found)))
      BY <1>2, <3>1
    <3>3. Scanned
      BY <3>1, <3>2 DEF Scanned
    <3>4. pc' = "failed" => Stuck'
      BY <1>0, <3>1 DEF Stuck
    <3> QED
      BY <1>2, <1>s, <1>t, <3>1, <3>3, <3>4 DEF DecodedInv
  <2>3. CASE DecodeEnds
    <3>1. /\ pc = "decode" /\ pc' = "done"
          /\ Len(messages) = Len(found) \/ Len(messages) = Limit
      BY <2>3 DEF DecodeEnds
    <3>2. Scanned' /\ TakenInv'
      BY <1>2, <1>s, <1>t, <3>1 DEF DecodedInv
    <3>3. (Len(messages) = Len(found) \/ Len(messages) = Limit)'
      BY <1>0, <3>1
    <3> QED
      BY <3>1, <3>2, <3>3 DEF DecodedInv
  <2> QED
    BY <2>1, <2>2, <2>3
<1>6. pc' = "scan" => consumed' = Behind(Len(found))' /\ wire' = From(Stream, consumed)'
  <2>1. ASSUME pc' = "scan" PROVE consumed' = Behind(Len(found))' /\ wire' = From(Stream, consumed)'
    <3>1. pc = "emit" /\ wire' = Stream
      BY <2>1 DEF Arrives, ScanEnds, DecodeEnds
    <3>2. Stream \in Seq(Bytes)
      BY <1>1, StreamLaid DEF PacketsInv
    <3>3. From(Stream, 0) = Stream
      <4> DEFINE s == Stream
      <4>1. s \in Seq(Bytes) /\ Len(s) \in Nat /\ 0 \in 0 .. Len(s)
        BY <3>2
      <4> HIDE DEF s
      <4>2. From(s, 0) \in Seq(Bytes) /\ Len(From(s, 0)) = Len(s) - 0
            /\ \A i \in 1 .. Len(s) - 0 : From(s, 0)[i] = s[0 + i]
        BY <4>1, RestOf
      <4>3. Len(From(s, 0)) = Len(s) /\ \A i \in 1 .. Len(s) : From(s, 0)[i] = s[i]
        BY <4>1, <4>2
      <4>4. From(s, 0) = s
        BY <4>1, <4>2, <4>3, SeqEqual
      <4> QED
        BY <4>4 DEF s
    <3>4. Behind(Len(found)) = 0
      BY <1>2, <3>1 DEF Behind
    <3> QED
      BY <1>0, <1>1, <1>2, <1>3, <3>1, <3>3, <3>4
  <2> QED
    BY <2>1
<1>7. pc' \in {"emit", "scan"} => messages' = <<>>
  BY <1>0, <1>2 DEF Arrives, ScanEnds, DecodeEnds
<1>8. RecoveryInv'
  BY <1>0, <1>2, <1>4, <1>5, <1>6, <1>7 DEF RecoveryInv
<1>9. CallInv' /\ StreamInv'
  BY <1>0 DEF CallInv, StreamInv
<1> QED
  BY <1>0, <1>1, <1>8, <1>9 DEF PacketsInv

\* One packet more is decoded, or not.
LEMMA DecodeStep ==
    ASSUME PacketsInv, job.via = "recovery", DecodeNext
    PROVE  PacketsInv'
<1> DEFINE got == Receive(registry, Upcoming.packet, job.on)
<1>0. /\ registry' = registry /\ job' = job /\ damage' = damage
      /\ found' = found /\ consumed' = consumed /\ pc = "decode"
      /\ Len(messages) < Len(found) /\ Len(messages) < Limit
      /\ messages' = messages \o SetToSeq(got)
      /\ pc' = IF got = {} THEN "failed" ELSE "decode"
  BY DEF DecodeNext
<1>1. JobInv' /\ Consistent(registry)' /\ Stream' = Stream /\ Consistent(registry)
  <2>1. /\ IsCall(job)' <=> IsCall(job)
        /\ IsStream(job)' <=> IsStream(job)
        /\ IsRecovery(job)' <=> IsRecovery(job)
        /\ Stream' = Stream
        /\ Consistent(registry)' <=> Consistent(registry)
    BY <1>0, SameJob
  <2> QED
    BY <1>0, <2>1 DEF PacketsInv, JobInv
<1>2. FoundInv /\ DecodedInv /\ damage = "none"
  BY <1>0 DEF PacketsInv, RecoveryInv
<1>3. \A i : Behind(i)' = Behind(i)
  BY <1>0 DEF Behind
<1>4. FoundInv'
  <2>1. \A x, y, z : IsFirst(x, y, z)' <=> IsFirst(x, y, z)
    BY <1>0 DEF IsFirst
  <2> QED
    BY <1>0, <1>1, <1>2, <1>3, <2>1 DEF FoundInv
<1> DEFINE M == {messages[i] : i \in DOMAIN messages}
<1>5. /\ messages \in Seq(M)
      /\ \A i \in 1 .. Len(messages) : Receive(registry, found[i].packet, job.on) = {messages[i]}
  BY <1>2 DEF DecodedInv, TakenInv
<1>s. Scanned'
  BY <1>0, <1>1, <1>2, <1>3 DEF Scanned, DecodedInv
<1>6. Len(messages) \in Nat /\ Len(found) \in Nat /\ Limit \in Nat
  BY <1>2, <1>5, LimitAssumption DEF FoundInv
<1>7. DecodedInv'
  <2>1. CASE got = {}
    <3>1. messages' = messages
      <4>1. SetToSeq(got) = <<>>
        BY <2>1, SequenceOfNone
      <4> HIDE DEF got, M
      <4> QED
        BY <1>0, <1>5, <4>1
    <3>2. pc' = "failed" /\ Upcoming' = Upcoming
      BY <1>0, <2>1, <3>1 DEF Upcoming
    <3>3. TakenInv' <=> TakenInv
      BY <1>0, <3>1 DEF TakenInv
    <3>4. Stuck'
      BY <1>0, <2>1, <3>1, <3>2 DEF Stuck
    <3> QED
      BY <1>2, <1>s, <3>2, <3>3, <3>4 DEF DecodedInv
  <2>2. CASE got # {}
    <3>1. PICK x : got = {x}
      BY <1>1, <2>2, ReceivedOnce
    <3>2. messages' = messages \o <<x>>
      BY <1>0, <3>1, SequenceOfOne
    <3> DEFINE X == M \cup {x}
    <3>3. /\ messages' \in Seq(X) /\ Len(messages') = Len(messages) + 1
          /\ \A i \in 1 .. Len(messages) : messages'[i] = messages[i]
          /\ messages'[Len(messages) + 1] = x
      <4>1. messages \in Seq(X) /\ <<x>> \in Seq(X) /\ Len(<<x>>) = 1 /\ <<x>>[1] = x
        BY <1>5
      <4>2. x \in X
        OBVIOUS
      <4> HIDE DEF X, M
      <4>3. messages' = Append(messages, x)
        BY <3>2, <4>1
      <4> QED
        BY <4>1, <4>2, <4>3
    <3>4. messages' \in Seq({messages'[i] : i \in DOMAIN messages'})
      <4>1. messages' \in [1 .. Len(messages') -> {messages'[i] : i \in DOMAIN messages'}]
        BY <3>3
      <4>2. Len(messages') \in Nat
        BY <3>3
      <4> QED
        BY <4>1, <4>2
    <3>5. \A i \in 1 .. Len(messages') :
             Receive(registry, found[i].packet, job.on) = {messages'[i]}
      <4> SUFFICES ASSUME NEW i \in 1 .. Len(messages')
                   PROVE  Receive(registry, found[i].packet, job.on) = {messages'[i]}
        OBVIOUS
      <4>1. CASE i = Len(messages) + 1
        BY <3>1, <3>3, <4>1 DEF Upcoming
      <4>2. CASE i # Len(messages) + 1
        <5>1. i \in 1 .. Len(messages)
          BY <1>6, <3>3, <4>2
        <5> QED
          BY <1>5, <3>3, <5>1
      <4> QED
        BY <4>1, <4>2
    <3>6. pc' = "decode" /\ Len(messages') <= Len(found) /\ Len(messages') <= Limit
      BY <1>0, <1>6, <2>2, <3>3
    <3> HIDE DEF M, got
    <3>7. TakenInv'
      BY <1>0, <3>4, <3>5, <3>6 DEF TakenInv
    <3> QED
      BY <1>s, <3>6, <3>7 DEF DecodedInv
  <2> QED
    BY <2>1, <2>2
<1>8. RecoveryInv'
  <2>1. pc' \in {"failed", "decode"}
    BY <1>0
  <2> QED
    BY <1>0, <1>2, <1>4, <1>7, <2>1 DEF RecoveryInv
<1>9. CallInv' /\ StreamInv'
  BY <1>0 DEF CallInv, StreamInv
<1>10. pc' \notin {"register", "emit"}
  BY <1>0
<1> QED
  BY <1>1, <1>8, <1>9, <1>10 DEF PacketsInv

LEMMA PacketsUnchanged ==
    ASSUME PacketsInv, UNCHANGED vars
    PROVE  PacketsInv'
<1>0. /\ registry' = registry /\ job' = job /\ damage' = damage /\ messages' = messages
      /\ wire' = wire /\ found' = found /\ consumed' = consumed /\ pc' = pc
  BY DEF vars, paths, recovery
<1>1. /\ IsCall(job)' <=> IsCall(job)
      /\ IsStream(job)' <=> IsStream(job)
      /\ IsRecovery(job)' <=> IsRecovery(job)
      /\ MadeBy(job)' = MadeBy(job) /\ Carried(job)' = Carried(job)
      /\ Stream' = Stream
      /\ Consistent(registry)' <=> Consistent(registry)
  BY <1>0, SameJob
<1>2. JobInv'
  BY <1>0, <1>1 DEF PacketsInv, JobInv
<1>3. CallInv'
  <2>1. TakenBy(job, wire)' = TakenBy(job, wire)
    BY <1>0 DEF TakenBy
  <2> QED
    BY <1>0, <1>1, <2>1 DEF PacketsInv, CallInv
<1>4. StreamInv'
  <2>1. ReceiveStream(registry, wire, job.on)' = ReceiveStream(registry, wire, job.on)
    BY <1>0
  <2> QED
    BY <1>0, <1>1, <2>1 DEF PacketsInv, StreamInv
<1>5. RecoveryInv'
  <2>1. \A i : Behind(i)' = Behind(i)
    BY <1>0 DEF Behind
  <2>2. \A x, y, z : IsFirst(x, y, z)' <=> IsFirst(x, y, z)
    BY <1>0 DEF IsFirst
  <2>3. FoundInv' <=> FoundInv
    BY <1>0, <1>1, <2>1, <2>2 DEF FoundInv
  <2>4. Upcoming' = Upcoming
    BY <1>0 DEF Upcoming
  <2>5. DecodedInv' <=> DecodedInv
    <3>1. TakenInv' <=> TakenInv
      BY <1>0 DEF TakenInv
    <3>2. Scanned' <=> Scanned
      BY <1>0, <1>1, <2>1 DEF Scanned
    <3>3. Stuck' <=> Stuck
      BY <1>0, <2>4 DEF Stuck
    <3> QED
      BY <1>0, <3>1, <3>2, <3>3 DEF DecodedInv
  <2> QED
    BY <1>0, <1>1, <2>1, <2>3, <2>5 DEF PacketsInv, RecoveryInv
<1> QED
  BY <1>0, <1>1, <1>2, <1>3, <1>4, <1>5 DEF PacketsInv

\* What a job is on its way is what its kind says.
LEMMA KindOfStep ==
    ASSUME PacketsInv, PathsNext
    PROVE  \/ \E def \in Definitions : RegisterSchema(def)
           \/ Start
           \/ /\ job.via = "call"
              /\ \/ MakePacket \/ TakePacket
                 \/ \E n \in 0 .. Len(wire) - 1 : Cut(n)
                 \/ \E b \in Bytes : Extend(b)
           \/ /\ job.via = "stream"
              /\ \/ EmitStream \/ TakeStream
                 \/ \E i \in DOMAIN wire : \E b \in Bytes : Change(i, b)
<1>1. CASE \E def \in Definitions \ offered : RegisterSchema(def)
  BY <1>1
<1>2. CASE Start \/ MakePacket \/ TakePacket \/ EmitStream \/ TakeStream
  BY <1>2 DEF MakePacket, TakePacket, EmitStream, TakeStream
<1>3. CASE \E n \in 0 .. Len(wire) - 1 : Cut(n)
  BY <1>3 DEF Cut
<1>4. CASE \E b \in Bytes : Extend(b) \/ \E i \in DOMAIN wire : Change(i, b)
  <2>1. PICK b \in Bytes : Extend(b) \/ \E i \in DOMAIN wire : Change(i, b)
    BY <1>4
  <2>2. CASE Extend(b)
    <3>1. job.via = "call"
      BY <2>2 DEF Extend
    <3> QED
      BY <2>2, <3>1
  <2>3. CASE \E i \in DOMAIN wire : Change(i, b)
    <3>1. PICK i \in DOMAIN wire : Change(i, b)
      BY <2>3
    <3>2. job.via = "stream"
      BY <3>1 DEF Change
    <3> QED
      BY <3>1, <3>2
  <2> QED
    BY <2>1, <2>2, <2>3
<1> QED
  BY <1>1, <1>2, <1>3, <1>4 DEF PathsNext

\* On its way a packet is one that a sending call made, whole or damaged; an
\* envelope is what the stream calls put around the packets; and what is
\* found in a stream lies there, the first packet of what was left.
THEOREM PacketsAlways == Spec => []PacketsInv
<1>1. Init => PacketsInv
  BY PacketsStart
<1>2. PacketsInv /\ [Next]_vars => PacketsInv'
  <2> SUFFICES ASSUME PacketsInv, [Next]_vars PROVE PacketsInv'
    OBVIOUS
  <2>1. CASE UNCHANGED vars
    BY <2>1, PacketsUnchanged
  <2>2. CASE PathsNext /\ UNCHANGED recovery
    <3>1. CASE \E def \in Definitions : RegisterSchema(def)
      BY <2>2, <3>1, RegisterStep
    <3>2. CASE Start
      BY <2>2, <3>2, StartStep
    <3>3. CASE /\ job.via = "call"
               /\ \/ MakePacket \/ TakePacket
                  \/ \E n \in 0 .. Len(wire) - 1 : Cut(n)
                  \/ \E b \in Bytes : Extend(b)
      BY <2>2, <3>3, CallSteps
    <3>4. CASE /\ job.via = "stream"
               /\ \/ EmitStream \/ TakeStream
                  \/ \E i \in DOMAIN wire : \E b \in Bytes : Change(i, b)
      BY <2>2, <3>4, StreamSteps
    <3> QED
      BY <2>2, <3>1, <3>2, <3>3, <3>4, KindOfStep
  <2>3. CASE Arrives \/ RecoverNext \/ ScanEnds \/ DecodeNext \/ DecodeEnds
    <3>1. job.via = "recovery"
      <4>1. CASE Arrives
        BY <4>1 DEF Arrives
      <4>2. CASE RecoverNext \/ ScanEnds \/ DecodeNext \/ DecodeEnds
        <5>1. pc \in {"scan", "decode"}
          BY <4>2 DEF RecoverNext, ScanEnds, DecodeNext, DecodeEnds
        <5>2. IsCall(job) \/ IsStream(job) \/ IsRecovery(job)
          BY <5>1 DEF PacketsInv, JobInv
        <5>3. job.via # "call" /\ job.via # "stream"
          BY <5>1 DEF PacketsInv, CallInv, StreamInv
        <5> QED
          BY <5>2, <5>3 DEF IsCall, IsStream, IsRecovery
      <4> QED
        BY <2>3, <4>1, <4>2
    <3> QED
      BY <2>3, <3>1, FindStep, ScanSteps, DecodeStep
  <2> QED
    BY <2>1, <2>2, <2>3 DEF Next
<1> QED
  BY <1>1, <1>2, PTL DEF Spec

-----------------------------------------------------------------------------
(* What the runs check, for every schema, record and damage *)

\* Of a packet in a CRC wrapper with a changed byte nothing is handed over:
\* receive_stream compares the CRC before it looks inside.
THEOREM CorruptionAlwaysRefused == Spec => []CorruptionRefused
<1>1. PacketsInv => CorruptionRefused
  <2> SUFFICES ASSUME PacketsInv, StreamOver, damage = "byte"
               PROVE  pc = "failed" /\ messages = <<>>
    BY DEF CorruptionRefused
  <2>1. /\ Unwrap(wire) = {}
        /\ messages = ReceiveStream(registry, wire, job.on).messages
        /\ pc = IF ReceiveStream(registry, wire, job.on).ok THEN "done" ELSE "failed"
    BY DEF PacketsInv, StreamInv, StreamOver
  <2>2. ReceiveStream(registry, wire, job.on) = Refused
    BY <2>1 DEF ReceiveStream
  <2> QED
    BY <2>1, <2>2 DEF Refused
<1> QED
  BY <1>1, PacketsAlways, PTL

\* The packets found lie in the stream where the results say, apart and in
\* order, and what lies between them is counted as skipped.
THEOREM AlwaysFoundApart == Spec => []FoundApart
<1>1. PacketsInv => FoundApart
  <2> SUFFICES ASSUME PacketsInv, NEW i \in DOMAIN found
               PROVE  /\ found[i].offset
                           = (IF i = 1 THEN 0
                              ELSE found[i-1].offset + Len(found[i-1].packet)) + found[i].skipped
                      /\ found[i].packet
                           = SubSeq(Stream, found[i].offset + 1,
                                    found[i].offset + Len(found[i].packet))
    BY DEF FoundApart
  <2>1. found # <<>>
    OBVIOUS
  <2>2. FoundInv
    BY <2>1 DEF PacketsInv, RecoveryInv
  <2>3. found \in Seq([offset : Nat, skipped : Nat, packet : Seq(Bytes)])
    BY <2>2 DEF FoundInv
  <2>4. i \in 1 .. Len(found) /\ i # 0 /\ (i - 1 = 0 <=> i = 1)
    BY <2>3
  <2>5. /\ found[i].offset = Behind(i - 1) + found[i].skipped
        /\ found[i].packet = SubSeq(Stream, found[i].offset + 1, Behind(i))
    BY <2>2, <2>4 DEF FoundInv
  <2> QED
    BY <2>4, <2>5 DEF Behind
<1> QED
  BY <1>1, PacketsAlways, PTL

\* What a bounded walk reads fits its schema, if the references do.
LEMMA ReadFits ==
    ASSUME NEW sch, Shaped(sch), NEW data \in Seq(Bytes), Len(data) >= 1,
           NEW c, Cuts(c, sch, data, 1, TRUE, {}),
           NEW w, w.parts = PartsAt(c, sch, data, {}),
           RefsKnown(sch, ValuesOf(sch, w), TRUE)
    PROVE  ValuesFit(sch, ValuesOf(sch, w), Known) /\ Resolve(ValuesOf(sch, w))
<1> DEFINE L == Len(sch.fields)
           values == ValuesOf(sch, w)
<1>0. Len(data) \in Nat /\ 1 <= Len(data) /\ L \in Nat
  BY DEF Shaped
<1>1. \A i \in 0 .. L : c[i] \in Nat /\ 1 <= c[i] /\ c[i] <= Len(data)
  BY <1>0, CutsRise
<1>2. DOMAIN w.parts = 1 .. L
  BY <1>0 DEF PartsAt
<1>3. /\ DOMAIN values = 1 .. L /\ Len(values) = L
      /\ \A i \in 1 .. L : values[i] = ValueOf(sch.fields[i], w.parts[i])
  BY <1>0, <1>2 DEF ValuesOf
<1>4. ASSUME NEW i \in 1 .. L
      PROVE  /\ HasType(sch.fields[i], values[i])
             /\ sch.fields[i].kind # "fixed" => Length(values[i], Known) <= sch.fields[i].size
  <2> DEFINE f == sch.fields[i]
             part == SubSeq(data, c[i - 1] + 1, c[i])
             n == c[i] - c[i - 1]
  <2>1. i - 1 \in 0 .. L /\ i \in 0 .. L
    BY <1>0
  <2>2. /\ c[i - 1] \in Nat /\ c[i] \in Nat /\ c[i] <= Len(data)
        /\ n \in Span(f, data, c[i - 1], TRUE)
    BY <1>1, <2>1 DEF Cuts
  <2>3. n \in 1 .. Len(data) - c[i - 1]
    BY <2>2 DEF Span
  <2>4. c[i - 1] <= c[i]
    BY <2>2, <2>3
  <2>5. /\ part \in Seq(Bytes) /\ Len(part) = n
        /\ \A k \in 1 .. n : part[k] = data[c[i - 1] + k]
    <3> DEFINE a == c[i - 1]
               b == c[i]
    <3>1. a \in Nat /\ b \in Nat /\ a <= b /\ b <= Len(data)
      BY <2>2, <2>4
    <3> HIDE DEF a, b
    <3>2. /\ SubSeq(data, a + 1, b) \in Seq(Bytes)
          /\ Len(SubSeq(data, a + 1, b)) = b - a
          /\ \A k \in 1 .. b - a : SubSeq(data, a + 1, b)[k] = data[a + k]
      BY <3>1, Slicing
    <3> QED
      BY <3>2 DEF a, b
  <2>6. part[1] = data[c[i - 1] + 1] /\ n \in Nat /\ n >= 1
    BY <2>2, <2>3, <2>5
  <2>7. values[i] = ValueOf(f, part)
    BY <1>3 DEF PartsAt, PartOf
  <2>8. f.kind \in Kinds /\ f.size \in Nat
    BY DEF Shaped
  <2> HIDE DEF part, n, f, values
  <2>9. CASE f.kind = "string" /\ part[1] = RefMark
    <3>1. values[i] = Reference(part[2])
      BY <2>7, <2>9 DEF ValueOf
    <3>2. values[i].kind = "string" /\ values[i].ref
      BY <3>1 DEF Reference
    <3>3. Known[values[i].bytes[1]] <= f.size
      BY <1>3, <3>2 DEF RefsKnown, values, f
    <3> QED
      BY <2>9, <3>2, <3>3 DEF HasType, Length, f
  <2>10. CASE f.kind = "fixed"
    <3>1. values[i] = Own(f.kind, part)
      BY <2>7, <2>10 DEF ValueOf
    <3>2. n = f.size
      BY <2>2, <2>10 DEF Span
    <3> QED
      BY <2>5, <2>10, <3>1, <3>2 DEF HasType, Own, f
  <2>11. CASE f.kind # "fixed" /\ ~(f.kind = "string" /\ part[1] = RefMark)
    <3>1. values[i] = Own(f.kind, Tail(part))
      BY <2>7, <2>11 DEF ValueOf
    <3>2. n = 1 + data[c[i - 1] + 1] /\ data[c[i - 1] + 1] <= f.size
      BY <2>2, <2>6, <2>11 DEF Span
    <3>3. Len(Tail(part)) = n - 1
      BY <2>5, <2>6
    <3>4. n - 1 <= f.size
      <4>1. data[c[i - 1] + 1] = n - 1
        <5>1. data[c[i - 1] + 1] \in Bytes
          BY <2>5, <2>6
        <5>2. data[c[i - 1] + 1] \in Nat
          BY <5>1, RadixLarge DEF Bytes
        <5> QED
          BY <2>6, <3>2, <5>2
      <4> QED
        BY <3>2, <4>1
    <3> QED
      BY <2>11, <3>1, <3>3, <3>4 DEF HasType, Own, Length, f
  <2> QED
    BY <2>9, <2>10, <2>11 DEF f
<1>5. Resolve(values)
  BY DEF Resolve, RefsKnown
<1> HIDE DEF values
<1>6. HasTypes(sch, values)
  BY <1>3, <1>4 DEF HasTypes
<1>7. ValuesFit(sch, values, Known)
  BY <1>3, <1>4, <1>6 DEF ValuesFit
<1> QED
  BY <1>5, <1>7 DEF values

LEMMA WalkType ==
    ASSUME NEW sch, Shaped(sch), NEW data \in Seq(Bytes), NEW start \in Nat,
           NEW bounded, NEW omitted
    PROVE  Walk(sch, data, start, bounded, omitted) \in WalkStates
<1>1. PICK s : /\ WalkSteps(s, sch, data, start, bounded, omitted)
               /\ Walk(sch, data, start, bounded, omitted) = s[Len(sch.fields)]
  BY WalkUnfolds
<1>2. s \in [0 .. Len(sch.fields) -> WalkStates] /\ Len(sch.fields) \in 0 .. Len(sch.fields)
  BY <1>1 DEF WalkSteps, Shaped
<1> QED
  BY <1>1, <1>2

LEMMA DeoptimizedType ==
    ASSUME NEW sch, Shaped(sch), NEW p \in Seq(Bytes), Len(p) >= 1
    PROVE  Deoptimize(sch, p).packet \in Seq(Bytes)
<1>1. CASE ~IsOptimized(p) \/ ~HasBitmap(sch, p)
  BY <1>1 DEF Deoptimize
<1>2. CASE IsOptimized(p) /\ HasBitmap(sch, p)
  <2> DEFINE w == WalkOptimized(sch, p, FALSE)
  <2>1. PICK omitted : w = Walk(sch, p, 3 + BitmapSize(sch), FALSE, omitted)
    BY DEF WalkOptimized
  <2>2. 3 + BitmapSize(sch) \in Nat /\ Len(sch.fields) \in Nat
    BY BitmapPlaces DEF Shaped
  <2>3. w \in WalkStates
    <3> DEFINE start == 3 + BitmapSize(sch)
    <3>1. start \in Nat
      BY <2>2
    <3> HIDE DEF start, w
    <3>2. Walk(sch, p, start, FALSE, omitted) \in WalkStates
      BY <3>1, WalkType
    <3> QED
      BY <2>1, <3>2 DEF start
  <2>4. w.parts \in Seq(Seq(Bytes))
    BY <2>3 DEF WalkStates
  <2>5. Deoptimize(sch, p).packet = <<p[1]>> \o FlattenSeq(w.parts)
    BY <1>2 DEF Deoptimize
  <2> HIDE DEF w
  <2>6. FlattenSeq(w.parts) \in Seq(Bytes)
    BY <2>4, Flattened
  <2>7. <<p[1]>> \in Seq(Bytes)
    OBVIOUS
  <2> QED
    BY <2>5, <2>6, <2>7
<1> QED
  BY <1>1, <1>2

\* The walk of the detector and that of the decoder read the same.
LEMMA CheckedWalk ==
    ASSUME NEW sch, Shaped(sch), NEW p \in Seq(Bytes), Check(sch, p)
    PROVE  \E c : /\ Cuts(c, sch, p, 1, TRUE, {}) /\ c[Len(sch.fields)] = Len(p)
                  /\ WalkedAt(Walk(sch, p, 1, TRUE, {}), c, sch, p, {})
                  /\ WalkedAt(Walk(sch, p, 1, FALSE, {}), c, sch, p, {})
<1>1. /\ Len(p) >= 1 /\ Walk(sch, p, 1, TRUE, {}).ok
      /\ Walk(sch, p, 1, TRUE, {}).at = Len(p)
  BY DEF Check, Complete
<1>2. PICK c : /\ Cuts(c, sch, p, 1, TRUE, {})
               /\ WalkedAt(Walk(sch, p, 1, TRUE, {}), c, sch, p, {})
  BY <1>1, WalkCuts
<1>3. Cuts(c, sch, p, 1, FALSE, {})
  BY <1>2, CutsLoose
<1>4. WalkedAt(Walk(sch, p, 1, FALSE, {}), c, sch, p, {})
  BY <1>3, CutsWalk
<1>5. c[Len(sch.fields)] = Len(p)
  BY <1>1, <1>2 DEF WalkedAt
<1> QED
  BY <1>2, <1>4, <1>5

\* What passes the synchronizer's check passes the decoder, if it has the
\* strings.
LEMMA ValidDecodes ==
    ASSUME NEW reg, Consistent(reg), NEW p \in Seq(Bytes), NEW sch \in OfPacket(reg, p),
           Valid(sch, p), NEW plain, plain = Deoptimize(sch, p).packet,
           RefsKnown(sch, ValuesOf(sch, Walk(sch, plain, 1, TRUE, {})), TRUE)
    PROVE  Receive(reg, p, TRUE) # {}
<1>0. Shaped(sch) /\ Len(p) >= 1
  BY OneSchema
<1>1. plain \in Seq(Bytes) /\ plain \in Restored(sch, p, TRUE) /\ Check(sch, plain)
  <2>1. plain \in Seq(Bytes)
    BY <1>0, DeoptimizedType
  <2> QED
    BY <2>1 DEF Valid, Restored
<1>2. PICK c : /\ Cuts(c, sch, plain, 1, TRUE, {}) /\ c[Len(sch.fields)] = Len(plain)
               /\ WalkedAt(Walk(sch, plain, 1, TRUE, {}), c, sch, plain, {})
               /\ WalkedAt(Walk(sch, plain, 1, FALSE, {}), c, sch, plain, {})
  BY <1>0, <1>1, CheckedWalk
<1> DEFINE w == Walk(sch, plain, 1, FALSE, {})
           values == ValuesOf(sch, w)
<1>3. w.ok /\ w.parts = PartsAt(c, sch, plain, {})
      /\ Walk(sch, plain, 1, TRUE, {}).parts = w.parts
  BY <1>2 DEF WalkedAt
<1>4. values = ValuesOf(sch, Walk(sch, plain, 1, TRUE, {}))
  BY <1>3 DEF ValuesOf
<1>5. RefsKnown(sch, values, TRUE)
  BY <1>4
<1>6. ValuesFit(sch, values, Known) /\ Resolve(values)
  <2>1. Len(plain) >= 1
    BY <1>1 DEF Check
  <2> HIDE DEF w
  <2> QED
    BY <1>0, <1>1, <1>2, <1>3, <1>5, <2>1, ReadFits
<1>7. values \in Read(sch, w)
  BY <1>3, <1>6 DEF Read
<1> HIDE DEF values
<1>8. [name |-> sch.name, payload |-> Named(sch, values)] \in ReceiveWith(sch, p, TRUE)
  BY <1>1, <1>6, <1>7 DEF ReceiveWith
<1> QED
  BY <1>8 DEF Receive

\* Noise cannot make receive_recovered_stream fail: a packet that is found
\* and then refused names a string that the receiver lacks or that is too
\* long for its field.
THEOREM AlwaysFoundDecodes == Spec => []FoundDecodes
<1>1. PacketsInv => FoundDecodes
  <2> DEFINE p == Upcoming.packet
  <2> SUFFICES ASSUME PacketsInv, Recovered, pc = "failed", found # <<>>, job.on
               PROVE  \E sch \in OfPacket(registry, p) :
                         \E plain \in Restored(sch, p, TRUE) :
                            /\ Complete(Walk(sch, plain, 1, TRUE, {}), plain)
                            /\ ~RefsKnown(sch, ValuesOf(sch, Walk(sch, plain, 1, TRUE, {})), TRUE)
    BY DEF FoundDecodes
  <2>1. FoundInv /\ Stuck /\ TakenInv /\ IsRecovery(job) /\ Consistent(registry)
    BY DEF PacketsInv, RecoveryInv, DecodedInv, JobInv, Recovered, IsCall, IsStream
  <2>2. job.on = TRUE
    BY <2>1 DEF IsRecovery
  <2> DEFINE i == Len(messages) + 1
             R == [offset : Nat, skipped : Nat, packet : Seq(Bytes)]
             rest == From(Stream, Behind(i - 1))
  <2>3. found \in Seq(R)
    BY <2>1 DEF FoundInv
  <2>4. /\ Len(messages) < Len(found) /\ Len(messages) \in Nat
        /\ Receive(registry, p, job.on) = {}
    <3> DEFINE M == {messages[k] : k \in DOMAIN messages}
    <3>1. messages \in Seq(M)
      BY <2>1 DEF TakenInv
    <3>2. Len(messages) < Len(found) /\ Receive(registry, p, job.on) = {}
      BY <2>1 DEF Stuck
    <3> HIDE DEF M
    <3>3. Len(messages) \in Nat
      BY <3>1
    <3> QED
      BY <3>2, <3>3
  <2>5. i \in 1 .. Len(found) /\ i - 1 \in 0 .. Len(found) /\ p = found[i].packet
    BY <2>3, <2>4 DEF Upcoming
  <2>6. IsFirst(found[i].skipped, p, rest)
    BY <2>1, <2>5 DEF FoundInv
  <2>7. rest \in Seq(Bytes)
    <3>1. Stream \in Seq(Bytes)
      BY <2>1, StreamLaid
    <3>2. Behind(i - 1) \in 0 .. Len(Stream)
      BY <2>1, <2>5, <3>1, BehindWithin
    <3> QED
      BY <3>1, <3>2, RestOf
  <2> HIDE DEF p, i, rest
  <2>8. PICK sch \in OfPacket(registry, p) : Valid(sch, p) /\ p \in Seq(Bytes)
    <3>1. found[i].skipped \in 0 .. Len(rest) - 1 /\ p \in PacketsAt(registry, rest, found[i].skipped)
      BY <2>6 DEF IsFirst, Offsets
    <3> QED
      BY <2>1, <2>7, <3>1, FoundThere
  <2> DEFINE plain == Deoptimize(sch, p).packet
  <2>9. plain \in Restored(sch, p, TRUE)
    BY <2>8 DEF Valid, Restored
  <2>10. Complete(Walk(sch, plain, 1, TRUE, {}), plain)
    BY <2>8 DEF Valid, Check
  <2> HIDE DEF plain
  <2>11. ~RefsKnown(sch, ValuesOf(sch, Walk(sch, plain, 1, TRUE, {})), TRUE)
    BY <2>1, <2>2, <2>4, <2>8, ValidDecodes DEF plain
  <2> QED
    BY <2>9, <2>10, <2>11
<1> QED
  BY <1>1, PacketsAlways, PTL

\* The names of a record's fields are its own: in and out of a map by name.
LEMMA NamedOrdered ==
    ASSUME NEW sch, Shaped(sch), WellFormed(sch.fields), NEW values,
           DOMAIN values = 1 .. Len(sch.fields),
           values = [i \in 1 .. Len(sch.fields) |-> values[i]]
    PROVE  Ordered(sch, Named(sch, values)) = values
<1> DEFINE L == Len(sch.fields)
           Key(n) == CHOOSE i \in DOMAIN sch.fields : sch.fields[i].name = n
<1>0. L \in Nat /\ DOMAIN sch.fields = 1 .. L
  BY DEF Shaped
<1>1. ASSUME NEW i \in 1 .. L PROVE Named(sch, values)[sch.fields[i].name] = values[i]
  <2>1. Named(sch, values)[sch.fields[i].name] = values[Key(sch.fields[i].name)]
    BY <1>0 DEF Named
  <2>2. /\ Key(sch.fields[i].name) \in 1 .. L
        /\ sch.fields[Key(sch.fields[i].name)].name = sch.fields[i].name
    BY <1>0
  <2> DEFINE k == Key(sch.fields[i].name)
  <2> HIDE DEF Key
  <2>3. \A a, b \in 1 .. L : b < a => sch.fields[b].name # sch.fields[a].name
    BY <1>0 DEF WellFormed
  <2>4. k = i
    BY <1>0, <2>2, <2>3
  <2> QED
    BY <2>1, <2>4
<1>2. Ordered(sch, Named(sch, values)) = [i \in 1 .. L |-> values[i]]
  BY <1>0, <1>1 DEF Ordered
<1> QED
  BY <1>2

\* The walks over the packet of a record: the detector finds it whole, and
\* the decoder finds the record.
LEMMA PlainReads ==
    ASSUME NEW sch, Shaped(sch), NEW values, Typed(sch, values), Writable(values)
    PROVE  \E c : /\ Cuts(c, sch, Encode(sch, values), 1, FALSE, {})
                  /\ c[Len(sch.fields)] = Len(Encode(sch, values))
                  /\ KeptAt(c, sch, Encode(sch, values), {}) = Pieces(sch, values)
                  /\ ReadTo(Walk(sch, Encode(sch, values), 1, FALSE, {}),
                            Len(Encode(sch, values)), Pieces(sch, values))
                  /\ Within(sch, values) => Check(sch, Encode(sch, values))
<1> DEFINE p == Encode(sch, values)
<1>1. p \in Seq(Bytes) /\ p[1] = sch.id /\ Len(p) >= 2
  BY EncodedLaid
<1>2. PICK c : Laid(c, 1, Pieces(sch, values), p)
  BY EncodedLaid
<1>3. /\ Cuts(c, sch, p, 1, FALSE, {}) /\ c[Len(sch.fields)] = Len(p)
      /\ KeptAt(c, sch, p, {}) = Pieces(sch, values)
      /\ Within(sch, values) => Cuts(c, sch, p, 1, TRUE, {})
  BY <1>2, EncodedCuts
<1> HIDE DEF p
<1>4. ReadTo(Walk(sch, p, 1, FALSE, {}), Len(p), Pieces(sch, values))
  <2>1. WalkedAt(Walk(sch, p, 1, FALSE, {}), c, sch, p, {})
    BY <1>1, <1>3, CutsWalk
  <2> QED
    BY <1>3, <2>1, PartsKept DEF WalkedAt, ReadTo
<1>5. ASSUME Within(sch, values) PROVE Check(sch, p)
  <2>1. Cuts(c, sch, p, 1, TRUE, {})
    BY <1>3, <1>5
  <2>2. WalkedAt(Walk(sch, p, 1, TRUE, {}), c, sch, p, {})
    BY <1>1, <2>1, CutsWalk
  <2>3. Len(p) >= 1
    BY <1>1
  <2> QED
    BY <1>1, <1>3, <2>2, <2>3 DEF Check, Complete, WalkedAt
<1> QED
  BY <1>3, <1>4, <1>5 DEF p

\* A packet as a receiver may be sent it: as it is, or without its zeros.
LEMMA Forms ==
    ASSUME NEW sch, Shaped(sch), NEW values, Typed(sch, values), Writable(values), NEW q,
           Packs(sch, values, Encode(sch, values), q), q # Encode(sch, values)
    PROVE  /\ BitmapSize(sch) \in Bytes
           /\ q = Shortened(sch, Encode(sch, values), Pieces(sch, values))
           /\ Deoptimize(sch, q).ok /\ Deoptimize(sch, q).packet = Encode(sch, values)
           /\ ReadTo(WalkOptimized(sch, q, FALSE), Len(q), Pieces(sch, values))
           /\ IsOptimized(q) /\ HasBitmap(sch, q)
<1> DEFINE p == Encode(sch, values)
<1>1. p \in Seq(Bytes) /\ Len(p) >= 1
  <2>1. p \in Seq(Bytes) /\ Len(p) >= 2
    BY EncodedLaid
  <2> QED
    BY <2>1
<1>2. PICK c : /\ Cuts(c, sch, p, 1, FALSE, {}) /\ c[Len(sch.fields)] = Len(p)
               /\ KeptAt(c, sch, p, {}) = Pieces(sch, values)
  BY PlainReads
<1>3. BitmapSize(sch) \in Bytes
  BY DEF Packs
<1>4. PICK d : /\ Cuts(d, sch, p, 1, FALSE, {})
               /\ q = Shortened(sch, p, KeptAt(d, sch, p, {}))
  BY DEF Packs
<1>5. c = d
  BY <1>2, <1>4, CutsOnce
<1>6. q = Shortened(sch, p, Pieces(sch, values))
  BY <1>2, <1>4, <1>5
<1> DEFINE parts == Pieces(sch, values)
<1>7. parts \in Seq(Seq(Bytes)) /\ Len(parts) = Len(sch.fields) /\ parts = KeptAt(c, sch, p, {})
  BY <1>2, PiecesType
<1> HIDE DEF p, parts
<1>8. Restores(sch, Shortened(sch, p, parts), p)
  BY <1>1, <1>2, <1>3, <1>7, Restoring
<1>9. ReadTo(WalkOptimized(sch, Shortened(sch, p, parts), FALSE),
             Len(Shortened(sch, p, parts)), parts)
  BY <1>1, <1>2, <1>3, <1>7, ShortWalk
<1>10. IsOptimized(Shortened(sch, p, parts)) /\ HasBitmap(sch, Shortened(sch, p, parts))
  BY <1>1, <1>3, <1>7, ShortenedLaid
<1> QED
  BY <1>3, <1>6, <1>8, <1>9, <1>10 DEF p, parts, Restores

LEMMA FormsCut ==
    ASSUME NEW sch, Shaped(sch), NEW values, Typed(sch, values), Writable(values), NEW q,
           Packs(sch, values, Encode(sch, values), q), q # Encode(sch, values)
    PROVE  \E d : /\ Cuts(d, sch, q, 3 + BitmapSize(sch), FALSE, Zeroed(sch, Pieces(sch, values)))
                  /\ d[Len(sch.fields)] = Len(q)
<1> DEFINE p == Encode(sch, values)
           parts == Pieces(sch, values)
<1>1. p \in Seq(Bytes) /\ Len(p) >= 1
  <2>1. p \in Seq(Bytes) /\ Len(p) >= 2
    BY EncodedLaid
  <2> QED
    BY <2>1
<1>2. BitmapSize(sch) \in Bytes /\ q = Shortened(sch, p, parts)
  BY Forms
<1>3. PICK c : /\ Cuts(c, sch, p, 1, FALSE, {}) /\ c[Len(sch.fields)] = Len(p)
               /\ parts = KeptAt(c, sch, p, {})
  BY PlainReads
<1> DEFINE loose == FALSE
<1>b. Cuts(c, sch, p, 1, loose, {})
  BY <1>3
<1> HIDE DEF p, parts, loose
<1>4. PICK d : /\ Cuts(d, sch, Shortened(sch, p, parts), 3 + BitmapSize(sch), loose,
                        Zeroed(sch, parts))
               /\ d[Len(sch.fields)] = Len(Shortened(sch, p, parts))
               /\ PartsAt(d, sch, Shortened(sch, p, parts), Zeroed(sch, parts)) = parts
  BY <1>1, <1>2, <1>3, <1>b, ShortCuts
<1> QED
  BY <1>2, <1>4 DEF parts, loose

LEMMA RestoredPlain ==
    ASSUME NEW sch, Shaped(sch), NEW values, Typed(sch, values), Writable(values), NEW q, NEW on,
           Packs(sch, values, Encode(sch, values), q), Clear(Encode(sch, values), q, on)
    PROVE  Restored(sch, q, on) = {Encode(sch, values)}
<1> DEFINE p == Encode(sch, values)
<1>1. CASE q = p
  <2>1. CASE on
    <3>1. ~IsOptimized(q)
      BY <1>1, <2>1 DEF Clear, Mistaken
    <3>2. Deoptimize(sch, q).ok /\ Deoptimize(sch, q).packet = q
      BY <3>1 DEF Deoptimize
    <3> QED
      BY <1>1, <2>1, <3>2 DEF Restored
  <2>2. CASE ~on
    BY <1>1, <2>2 DEF Restored
  <2> QED
    BY <2>1, <2>2
<1>2. CASE q # p
  <2>1. on
    BY <1>2 DEF Clear
  <2>2. Deoptimize(sch, q).ok /\ Deoptimize(sch, q).packet = p
    BY <1>2, Forms
  <2> QED
    BY <2>1, <2>2 DEF Restored
<1> QED
  BY <1>1, <1>2

\* The references of a record, at the receiver.
LEMMA KnownFit ==
    ASSUME NEW sch, Shaped(sch), NEW values \in Seq(Value), ValuesFit(sch, values, Sends),
           NEW checked, RefsKnown(sch, values, checked)
    PROVE  Resolve(values) /\ (checked => ValuesFit(sch, values, Known))
<1>1. Resolve(values)
  BY DEF Resolve, RefsKnown
<1>2. ASSUME checked PROVE ValuesFit(sch, values, Known)
  <2>1. HasTypes(sch, values)
    BY DEF ValuesFit
  <2>2. ASSUME NEW i \in DOMAIN values, sch.fields[i].kind # "fixed"
        PROVE  Length(values[i], Known) <= sch.fields[i].size
    <3>1. CASE values[i].ref
      BY <1>2, <3>1 DEF RefsKnown, Length
    <3>2. CASE ~values[i].ref
      <4>1. Length(values[i], Sends) <= sch.fields[i].size
        BY <2>2 DEF ValuesFit
      <4> QED
        BY <3>2, <4>1 DEF Length
    <3> QED
      BY <3>1, <3>2
  <2> QED
    BY <2>1, <2>2 DEF ValuesFit
<1> QED
  BY <1>1, <1>2

\* What receive_ordered reads.
Unchecked(sch, q, on) ==
    UNION {Read(sch, Walk(sch, r, 1, FALSE, {})) : r \in Restored(sch, q, on)}

\* What each call reads of a packet that a sender made.
ReadsBack(sch, values, q, on) ==
    /\ Resolve(values) /\ Clear(Encode(sch, values), q, on) => Unchecked(sch, q, on) = {values}
    /\ RefsKnown(sch, values, TRUE) /\ Clear(Encode(sch, values), q, on) =>
          ReceiveWith(sch, q, on) = {[name |-> sch.name, payload |-> Named(sch, values)]}
    /\ Resolve(values) /\ ~Mistaken(Encode(sch, values), q) => FastRead(sch, q) = {values}

LEMMA PacketRead ==
    ASSUME NEW sch, Shaped(sch), NEW values \in Seq(Value), ValuesFit(sch, values, Sends),
           Writable(values), NEW q, NEW on,
           Packs(sch, values, Encode(sch, values), q)
    PROVE  ReadsBack(sch, values, q, on)
<1> DEFINE p == Encode(sch, values)
<1>0. Typed(sch, values) /\ Within(sch, values)
  BY FitWithin
<1>1. /\ ReadTo(Walk(sch, p, 1, FALSE, {}), Len(p), Pieces(sch, values)) /\ Check(sch, p)
  BY <1>0, PlainReads
<1>2. ASSUME NEW w, ReadTo(w, w.at, Pieces(sch, values)), Resolve(values)
      PROVE  Read(sch, w) = {values}
  <2>1. w.ok /\ w.parts = Pieces(sch, values)
    BY <1>2 DEF ReadTo
  <2>2. ValuesOf(sch, w) = values
    BY <1>0, <2>1, ValuesBack
  <2> QED
    BY <1>2, <2>1, <2>2 DEF Read
<1>3. Resolve(values) => Read(sch, Walk(sch, p, 1, FALSE, {})) = {values}
  BY <1>1, <1>2 DEF ReadTo
<1>4. ASSUME Clear(p, q, on) PROVE Restored(sch, q, on) = {p}
  BY <1>0, <1>4, RestoredPlain
<1>5. ASSUME Resolve(values), Clear(p, q, on)
      PROVE  Unchecked(sch, q, on) = {values}
  <2> HIDE DEF p
  <2> QED
    BY <1>3, <1>4, <1>5 DEF Unchecked
<1>6. ASSUME RefsKnown(sch, values, TRUE), Clear(p, q, on)
      PROVE  ReceiveWith(sch, q, on) = {[name |-> sch.name, payload |-> Named(sch, values)]}
  <2>1. Resolve(values) /\ ValuesFit(sch, values, Known)
    BY <1>6, KnownFit
  <2> DEFINE plain == {r \in Restored(sch, q, on) : Check(sch, r)}
             read == UNION {Read(sch, Walk(sch, r, 1, FALSE, {})) : r \in plain}
  <2>2. plain = {p}
    BY <1>1, <1>4, <1>6
  <2> HIDE DEF p
  <2>3. read = {values}
    BY <1>3, <2>1, <2>2
  <2>4. ReceiveWith(sch, q, on) = {[name |-> sch.name, payload |-> Named(sch, v)] :
                                      v \in {u \in read : ValuesFit(sch, u, Known)}}
    BY DEF ReceiveWith
  <2>5. {u \in read : ValuesFit(sch, u, Known)} = {values}
    BY <2>1, <2>3
  <2> HIDE DEF read
  <2> QED
    BY <2>4, <2>5
<1>7. ASSUME Resolve(values), ~Mistaken(p, q) PROVE FastRead(sch, q) = {values}
  <2>1. CASE q = p
    <3>1. ~IsOptimized(q) /\ FastWalk(sch, q) = Walk(sch, p, 1, FALSE, {})
      BY <1>7, <2>1 DEF Mistaken, FastWalk
    <3>2. Complete(FastWalk(sch, q), q)
      BY <1>1, <2>1, <3>1 DEF ReadTo, Complete
    <3> QED
      BY <1>3, <1>7, <3>1, <3>2 DEF FastRead
  <2>2. CASE q # p
    <3>1. /\ ReadTo(WalkOptimized(sch, q, FALSE), Len(q), Pieces(sch, values))
          /\ IsOptimized(q) /\ HasBitmap(sch, q)
      BY <1>0, <2>2, Forms
    <3>2. FastWalk(sch, q) = WalkOptimized(sch, q, FALSE)
      BY <3>1 DEF FastWalk
    <3>3. Complete(FastWalk(sch, q), q)
      BY <3>1, <3>2 DEF ReadTo, Complete
    <3>4. Read(sch, FastWalk(sch, q)) = {values}
      BY <1>2, <1>7, <3>1, <3>2 DEF ReadTo
    <3> QED
      BY <3>1, <3>3, <3>4 DEF FastRead
  <2> QED
    BY <2>1, <2>2
<1> QED
  BY <1>5, <1>6, <1>7 DEF ReadsBack

\* A call whose record is one of its schema, and what it may put on the way.
LEMMA ProperCall ==
    ASSUME Consistent(registry), NEW j, IsCall(j), j.name \in DOMAIN registry.schemas,
           j.by = "send" => Maps(SchemaOf(j), j.data),
           HasTypes(SchemaOf(j), ValuesIn(j))
    PROVE  /\ Shaped(SchemaOf(j)) /\ WellFormed(SchemaOf(j).fields)
           /\ SchemaOf(j).name = j.name
           /\ ByName(registry, j.name) = {SchemaOf(j)}
           /\ ById(registry, SchemaOf(j).id) = {SchemaOf(j)}
           /\ ValuesIn(j) \in Seq(Value) /\ Typed(SchemaOf(j), ValuesIn(j))
           /\ MadeBy(j) = IF j.by = "fast_encode" THEN {Encode(SchemaOf(j), ValuesIn(j))}
                          ELSE Packed(SchemaOf(j), ValuesIn(j), j.omit)
<1> DEFINE sch == SchemaOf(j)
           values == ValuesIn(j)
<1>1. sch \in ByName(registry, j.name)
  BY DEF ByName, SchemaOf
<1>2. /\ Shaped(sch) /\ WellFormed(sch.fields) /\ sch.name = j.name
      /\ ByName(registry, j.name) = {sch} /\ ById(registry, sch.id) = {sch}
  <2> HIDE DEF sch
  <2> QED
    BY <1>1, FoundByName
<1>3. values \in Seq(Value)
  <2>1. CASE j.by = "send"
    <3>1. values = Ordered(sch, j.data) /\ j.data \in [DOMAIN j.data -> Value]
          /\ Maps(sch, j.data)
      BY <2>1 DEF ValuesIn, IsCall
    <3> HIDE DEF sch, values
    <3> QED
      BY <1>2, <3>1, MappedTyped
  <2>2. CASE j.by # "send"
    BY <2>2 DEF ValuesIn, IsCall
  <2> QED
    BY <2>1, <2>2
<1>4. Typed(sch, values)
  BY <1>3 DEF Typed
<1>5. MadeBy(j) = IF j.by = "fast_encode" THEN {Encode(sch, values)}
                  ELSE Packed(sch, values, j.omit)
  <2> HIDE DEF sch
  <2>1. CASE j.by = "send"
    <3>1. {s \in ByName(registry, j.name) : Maps(s, j.data)} = {sch}
      BY <1>2, <2>1 DEF sch
    <3>2. Send(registry, j.name, j.data, j.omit) = Packed(sch, Ordered(sch, j.data), j.omit)
      BY <3>1 DEF Send
    <3> QED
      BY <2>1, <3>2 DEF MadeBy, ValuesIn, sch
  <2>2. CASE j.by = "send_ordered"
    <3>1. SendOrdered(registry, j.name, j.data, j.omit) = Packed(sch, j.data, j.omit)
      BY <1>2 DEF SendOrdered
    <3> QED
      BY <2>2, <3>1 DEF MadeBy, ValuesIn
  <2>3. CASE j.by = "fast_encode"
    <3>1. j.data = values
      BY <2>3 DEF ValuesIn
    <3>2. {s \in ByName(registry, j.name) : HasTypes(s, j.data)} = {sch}
      BY <1>2, <3>1 DEF sch
    <3>3. FastEncode(registry, j.name, j.data) = {Encode(sch, j.data)}
      BY <3>2 DEF FastEncode
    <3> QED
      BY <2>3, <3>1, <3>3 DEF MadeBy
  <2>4. j.by \in {"send", "send_ordered", "fast_encode"}
    BY DEF IsCall
  <2> QED
    BY <2>1, <2>2, <2>3, <2>4
<1> QED
  BY <1>2, <1>3, <1>4, <1>5

\* What is made of a proper record: its packet, with zeros or without.
LEMMA ProperMade ==
    ASSUME Consistent(registry), NEW j, IsCall(j), Proper(j)
    PROVE  /\ MadeBy(j) # {}
           /\ \A q \in MadeBy(j) :
                 /\ Packs(SchemaOf(j), ValuesIn(j), Encode(SchemaOf(j), ValuesIn(j)), q)
                 /\ q \in Seq(Bytes) /\ Len(q) >= 2 /\ q[1] = SchemaOf(j).id
<1> DEFINE sch == SchemaOf(j)
           values == ValuesIn(j)
           p == Encode(sch, values)
<1>0. /\ j.name \in DOMAIN registry.schemas /\ ValuesFit(sch, values, Sends)
      /\ j.by = "send" => Maps(sch, j.data)
      /\ Writable(values) /\ HasTypes(sch, values)
      /\ j.omit /\ j.by # "fast_encode" => Len(sch.fields) <= MostFields
  BY DEF Proper, ValuesFit
<1>1. /\ Shaped(sch) /\ values \in Seq(Value) /\ Typed(sch, values)
      /\ MadeBy(j) = IF j.by = "fast_encode" THEN {p} ELSE Packed(sch, values, j.omit)
  BY <1>0, ProperCall
<1> HIDE DEF sch, values
<1>2. p \in Seq(Bytes) /\ p[1] = sch.id /\ Len(p) >= 2
  BY <1>1, EncodedLaid
<1>3. CASE j.by = "fast_encode"
  <2>1. MadeBy(j) = {p}
    BY <1>1, <1>3
  <2> QED
    BY <1>2, <2>1 DEF Packs, sch, values
<1>4. CASE j.by # "fast_encode"
  <2>1. MadeBy(j) = Packed(sch, values, j.omit)
    BY <1>1, <1>4
  <2>2. ASSUME NEW q \in MadeBy(j)
        PROVE  Packs(sch, values, p, q) /\ q \in Seq(Bytes) /\ Len(q) >= 2 /\ q[1] = sch.id
    BY <1>1, <2>1, <2>2, PackedForm
  <2>3. MadeBy(j) # {}
    <3>1. CASE ~j.omit
      BY <1>0, <2>1, <3>1 DEF Packed
    <3>2. CASE j.omit
      <4>1. PICK c : Cuts(c, sch, p, 1, FALSE, {}) /\ c[Len(sch.fields)] = Len(p)
        BY <1>0, <1>1, PlainReads
      <4>2. Len(p) >= 1 /\ Len(sch.fields) <= MostFields
        BY <1>0, <1>2, <1>4, <3>2
      <4> HIDE DEF p
      <4>3. Optimize(sch, p).ok
        BY <1>1, <1>2, <4>1, <4>2, Optimizes
      <4> QED
        BY <1>0, <2>1, <3>2, <4>3 DEF Packed, p
    <3> QED
      BY <3>1, <3>2
  <2> QED
    BY <2>2, <2>3 DEF sch, values
<1> QED
  BY <1>3, <1>4

\* What the receiving call takes of it.
LEMMA ProperTaken ==
    ASSUME Consistent(registry), NEW j, IsCall(j), Proper(j), NEW q \in MadeBy(j), ClearTo(j),
           RefsKnown(SchemaOf(j), ValuesIn(j), Checks(j)),
           j.to = "fast_decode" => SchemaOf(j).id # BatchMark
    PROVE  TakenBy(j, q) =
              {IF Checks(j) THEN [name |-> j.name, payload |-> Named(SchemaOf(j), ValuesIn(j))]
                            ELSE [name |-> j.name, values |-> ValuesIn(j)]}
<1> DEFINE sch == SchemaOf(j)
           values == ValuesIn(j)
           p == Encode(sch, values)
<1>0. /\ j.name \in DOMAIN registry.schemas /\ ValuesFit(sch, values, Sends)
      /\ j.by = "send" => Maps(sch, j.data)
      /\ Writable(values) /\ HasTypes(sch, values)
  BY DEF Proper, ValuesFit
<1>1. /\ Shaped(sch) /\ values \in Seq(Value) /\ sch.name = j.name
      /\ ByName(registry, j.name) = {sch} /\ ById(registry, sch.id) = {sch}
  BY <1>0, ProperCall
<1>2. Packs(sch, values, p, q) /\ q \in Seq(Bytes) /\ Len(q) >= 2 /\ q[1] = sch.id
  BY ProperMade
<1>3. IF j.to = "fast_decode" THEN ~Mistaken(p, q) ELSE Clear(p, q, j.on)
  BY DEF ClearTo
<1>4. RefsKnown(sch, values, Checks(j)) /\ (j.to = "fast_decode" => sch.id # BatchMark)
  OBVIOUS
<1>5. OfPacket(registry, q) = {sch}
  BY <1>1, <1>2 DEF OfPacket
<1> HIDE DEF sch, values
<1>6. Resolve(values) /\ (Checks(j) => RefsKnown(sch, values, TRUE))
  BY <1>4 DEF Resolve, RefsKnown
<1>r. ReadsBack(sch, values, q, j.on)
  BY <1>0, <1>1, <1>2, PacketRead
<1> HIDE DEF p
<1>7. /\ Clear(p, q, j.on) =>
            Unchecked(sch, q, j.on) = {values}
      /\ RefsKnown(sch, values, TRUE) /\ Clear(p, q, j.on) =>
            ReceiveWith(sch, q, j.on) = {[name |-> sch.name, payload |-> Named(sch, values)]}
      /\ ~Mistaken(p, q) => FastRead(sch, q) = {values}
  BY <1>6, <1>r DEF p, ReadsBack
<1>8. CASE j.to = "receive"
  <2>1. TakenBy(j, q) = ReceiveWith(sch, q, j.on) /\ Checks(j)
    BY <1>5, <1>8 DEF TakenBy, Receive, Checks
  <2> QED
    BY <1>1, <1>3, <1>6, <1>7, <1>8, <2>1 DEF sch, values
<1>9. CASE j.to = "receive_as"
  <2>1. OfPacket(registry, q) \cap ByName(registry, j.name) = {sch}
    BY <1>1, <1>5
  <2>2. TakenBy(j, q) = ReceiveWith(sch, q, j.on) /\ Checks(j)
    BY <1>9, <2>1 DEF TakenBy, ReceiveAs, Checks
  <2> QED
    BY <1>1, <1>3, <1>6, <1>7, <1>9, <2>2 DEF sch, values
<1>10. CASE j.to = "receive_ordered"
  <2>1. /\ ~Checks(j)
        /\ TakenBy(j, q) = {[name |-> sch.name, values |-> v] : v \in Unchecked(sch, q, j.on)}
    BY <1>5, <1>10 DEF TakenBy, ReceiveOrdered, Checks, Unchecked
  <2>2. TakenBy(j, q) = {[name |-> sch.name, values |-> values]}
    BY <1>3, <1>7, <1>10, <2>1
  <2> QED
    BY <1>1, <2>1, <2>2 DEF sch, values
<1>11. CASE j.to = "fast_decode"
  <2>1. ~Checks(j) /\ {s \in OfPacket(registry, q) : q[1] # BatchMark} = {sch}
    BY <1>2, <1>4, <1>5, <1>11 DEF Checks
  <2>2. TakenBy(j, q) = {[name |-> sch.name, values |-> v] : v \in FastRead(sch, q)}
    BY <1>11, <2>1 DEF TakenBy, FastDecode
  <2>3. TakenBy(j, q) = {[name |-> sch.name, values |-> values]}
    BY <1>3, <1>7, <1>11, <2>2
  <2> QED
    BY <1>1, <2>1, <2>3 DEF sch, values
<1> QED
  BY <1>8, <1>9, <1>10, <1>11 DEF IsCall

\* Encoder, optimizer, detector and decoders agree on every field of every
\* schema: no proper record is refused, and each receiving call hands over
\* the record that the sending call was given.
THEOREM AlwaysRoundTrip == Spec => []RoundTrip
<1>1. PacketsInv => RoundTrip
  <2> DEFINE sch == SchemaOf(job)
             values == ValuesIn(job)
  <2> SUFFICES ASSUME PacketsInv, CallOver, damage = "none", Proper(job)
               PROVE  /\ pc # "refused"
                      /\ RefsKnown(sch, values, Checks(job)) /\ ClearTo(job)
                         /\ (job.to = "fast_decode" => sch.id # BatchMark)
                         => /\ Len(messages) = 1 /\ messages[1].name = job.name
                            /\ values = IF Checks(job) THEN Ordered(sch, messages[1].payload)
                                                       ELSE messages[1].values
    BY DEF RoundTrip
  <2>1. IsCall(job) /\ Consistent(registry)
    BY DEF PacketsInv, JobInv, CallOver, IsStream, IsRecovery
  <2>2. pc # "refused"
    <3>1. MadeBy(job) # {}
      BY <2>1, ProperMade
    <3> QED
      BY <3>1 DEF PacketsInv, CallInv, CallOver
  <2>3. wire \in MadeBy(job) /\ messages = SetToSeq(TakenBy(job, wire))
    BY <2>2 DEF PacketsInv, CallInv, CallOver
  <2>4. ASSUME RefsKnown(sch, values, Checks(job)), ClearTo(job),
               job.to = "fast_decode" => sch.id # BatchMark
        PROVE  /\ Len(messages) = 1 /\ messages[1].name = job.name
               /\ values = IF Checks(job) THEN Ordered(sch, messages[1].payload)
                                          ELSE messages[1].values
    <3> DEFINE x == IF Checks(job) THEN [name |-> job.name, payload |-> Named(sch, values)]
                                   ELSE [name |-> job.name, values |-> values]
    <3>1. TakenBy(job, wire) = {x}
      BY <2>1, <2>3, <2>4, ProperTaken
    <3>2. messages = <<x>>
      BY <2>3, <3>1, SequenceOfOne
    <3>3. Shaped(sch) /\ WellFormed(sch.fields) /\ Typed(sch, values)
      <4>1. /\ job.name \in DOMAIN registry.schemas /\ (job.by = "send" => Maps(sch, job.data))
            /\ HasTypes(sch, values)
        BY DEF Proper, ValuesFit
      <4> QED
        BY <2>1, <4>1, ProperCall
    <3> HIDE DEF sch, values
    <3>4. Ordered(sch, Named(sch, values)) = values
      <4>1. /\ DOMAIN values = 1 .. Len(sch.fields)
            /\ values = [i \in 1 .. Len(sch.fields) |-> values[i]]
        BY <3>3 DEF Typed, HasTypes
      <4> QED
        BY <3>3, <4>1, NamedOrdered
    <3>5. Len(messages) = 1 /\ messages[1] = x
      BY <3>2
    <3>6. x.name = job.name
      OBVIOUS
    <3>7. values = IF Checks(job) THEN Ordered(sch, x.payload) ELSE x.values
      BY <3>4
    <3> HIDE DEF x
    <3> QED
      BY <3>5, <3>6, <3>7
  <2> QED
    BY <2>2, <2>4
<1> QED
  BY <1>1, PacketsAlways, PTL

LEMMA CutsAgree ==
    ASSUME NEW sch, NEW data, NEW start, NEW omitted,
           NEW c, Shaped(sch) /\ Cuts(c, sch, data, start, FALSE, omitted),
           NEW d, Cuts(d, sch, data, start, FALSE, omitted)
    PROVE  c = d
<1>1. Shaped(sch) /\ Cuts(c, sch, data, start, FALSE, omitted)
  OBVIOUS
<1> QED
  BY <1>1, CutsOnce

\* Where a packet ends is told by its fields: with fewer bytes or with more a
\* walk does not come to the end of what is there.
LEMMA OtherLength ==
    ASSUME NEW sch, Shaped(sch), NEW data \in Seq(Bytes), NEW other \in Seq(Bytes),
           NEW start \in Nat, start <= Len(data), start <= Len(other), Len(other) # Len(data),
           \A k \in 1 .. Len(data) : k <= Len(other) => other[k] = data[k],
           NEW bounded, NEW omitted,
           NEW c, Cuts(c, sch, data, start, FALSE, omitted), c[Len(sch.fields)] = Len(data)
    PROVE  /\ ~Complete(Walk(sch, other, start, bounded, omitted), other)
           /\ Len(other) < Len(data) => ~Walk(sch, other, start, bounded, omitted).ok
<1> DEFINE w == Walk(sch, other, start, bounded, omitted)
           L == Len(sch.fields)
<1>0. Len(data) \in Nat /\ Len(other) \in Nat /\ L \in 0 .. L
  BY DEF Shaped
<1>1. ASSUME w.ok PROVE w.at = Len(data) /\ Len(data) < Len(other)
  <2>1. PICK d : Cuts(d, sch, other, start, bounded, omitted) /\ WalkedAt(w, d, sch, other, omitted)
    BY <1>1, WalkCuts
  <2>2. d[L] <= Len(other)
    BY <1>0, <2>1, CutsRise
  <2>3. d = c
    <3>1. CASE Len(other) < Len(data)
      <4>1. /\ Len(other) <= Len(data) /\ \A k \in 1 .. Len(other) : data[k] = other[k]
        BY <1>0, <3>1
      <4>2. Cuts(d, sch, data, start, bounded, omitted)
        BY <1>0, <2>1, <4>1, CutsExtend
      <4>3. Cuts(d, sch, data, start, FALSE, omitted)
        BY <4>2, CutsLoose
      <4>4. Shaped(sch) /\ Cuts(c, sch, data, start, FALSE, omitted)
        OBVIOUS
      <4> HIDE DEF w
      <4> QED
        BY <4>3, <4>4, CutsAgree
    <3>2. CASE Len(data) < Len(other)
      <4>1. /\ Len(data) <= Len(other) /\ \A k \in 1 .. Len(data) : other[k] = data[k]
        BY <1>0, <3>2
      <4>2. Cuts(c, sch, other, start, FALSE, omitted)
        BY <1>0, <4>1, CutsExtend
      <4>3. Cuts(d, sch, other, start, FALSE, omitted)
        BY <2>1, CutsLoose
      <4>4. Shaped(sch) /\ Cuts(c, sch, other, start, FALSE, omitted)
        BY <4>2
      <4> HIDE DEF w
      <4> QED
        BY <4>3, <4>4, CutsAgree
    <3> QED
      BY <1>0, <3>1, <3>2
  <2>4. w.at = c[L]
    BY <2>1, <2>3 DEF WalkedAt
  <2> QED
    BY <1>0, <2>2, <2>3, <2>4
<1> HIDE DEF w
<1>2. ~Complete(w, other) /\ (Len(other) < Len(data) => ~w.ok)
  BY <1>0, <1>1 DEF Complete
<1> QED
  BY <1>2 DEF w

\* A packet has more than its id.
LEMMA NothingThere ==
    ASSUME NEW sch, Shaped(sch), NEW data \in Seq(Bytes), Len(data) = 1, NEW bounded
    PROVE  ~Walk(sch, data, 1, bounded, {}).ok
<1> SUFFICES ASSUME Walk(sch, data, 1, bounded, {}).ok PROVE FALSE
  OBVIOUS
<1>1. PICK c : Cuts(c, sch, data, 1, bounded, {})
  BY WalkCuts
<1>2. 1 \in 1 .. Len(sch.fields) /\ 1 - 1 = 0
  BY DEF Shaped
<1>3. c[0] = 1 /\ c[1] - c[0] \in Span(sch.fields[1], data, c[0], bounded)
  BY <1>1, <1>2 DEF Cuts
<1>4. c[1] - c[0] \in 1 .. Len(data) - c[0]
  BY <1>3 DEF Span
<1> QED
  BY <1>3, <1>4

\* The same beginning, another length.
OtherEnd(q, w) ==
    /\ w \in Seq(Bytes) /\ Len(w) >= 1 /\ Len(w) # Len(q)
    /\ \A k \in 1 .. Len(q) : k <= Len(w) => w[k] = q[k]

\* A walk over a packet without its zeros that is cut short or extended.
LEMMA ShortOther ==
    ASSUME NEW sch, Shaped(sch), NEW values, Typed(sch, values), Writable(values), NEW q,
           Packs(sch, values, Encode(sch, values), q), q # Encode(sch, values),
           NEW w, OtherEnd(q, w), HasBitmap(sch, w), NEW bounded
    PROVE  ~Complete(WalkOptimized(sch, w, bounded), w)
<1> DEFINE p == Encode(sch, values)
           parts == Pieces(sch, values)
           size == BitmapSize(sch)
           zero == Zeroed(sch, parts)
<1>1. /\ size \in Bytes /\ q = Shortened(sch, p, parts) /\ HasBitmap(sch, q)
  BY Forms
<1>2. p \in Seq(Bytes) /\ Len(p) >= 1
  <2>1. p \in Seq(Bytes) /\ Len(p) >= 2
    BY EncodedLaid
  <2> QED
    BY <2>1
<1>3. PICK c : /\ Cuts(c, sch, p, 1, FALSE, {}) /\ c[Len(sch.fields)] = Len(p)
               /\ parts = KeptAt(c, sch, p, {})
  BY PlainReads
<1>4. parts \in Seq(Seq(Bytes)) /\ Len(parts) = Len(sch.fields)
  BY PiecesType
<1> HIDE DEF p, parts
<1>5. PICK d : Cuts(d, sch, q, 3 + size, FALSE, zero) /\ d[Len(sch.fields)] = Len(q)
  BY FormsCut DEF parts
<1>6. q \in Seq(Bytes) /\ SubSeq(q, 4, 3 + size) = BitmapOf(sch, zero)
  BY <1>1, <1>2, <1>4, ShortenedLaid
<1>7. size \in Nat /\ Len(q) \in Nat /\ Len(w) \in Nat /\ w \in Seq(Bytes) /\ Len(w) # Len(q)
      /\ 3 + size <= Len(q) /\ 3 + size <= Len(w) /\ 3 + size \in Nat
      /\ \A k \in 1 .. Len(q) : k <= Len(w) => w[k] = q[k]
  BY <1>1, <1>6, BitmapPlaces DEF OtherEnd, HasBitmap, Shaped
<1> HIDE DEF size, zero
<1>8. SubSeq(w, 4, 3 + size) = SubSeq(q, 4, 3 + size)
  <2>1. 3 \in Nat /\ 3 <= 3 + size /\ 3 + 1 = 4
    BY <1>7
  <2>2. /\ SubSeq(w, 3 + 1, 3 + size) \in Seq(Bytes) /\ Len(SubSeq(w, 3 + 1, 3 + size)) = (3 + size) - 3
        /\ \A i \in 1 .. (3 + size) - 3 : SubSeq(w, 3 + 1, 3 + size)[i] = w[3 + i]
    BY <1>7, <2>1, Slicing
  <2>3. /\ SubSeq(q, 3 + 1, 3 + size) \in Seq(Bytes) /\ Len(SubSeq(q, 3 + 1, 3 + size)) = (3 + size) - 3
        /\ \A i \in 1 .. (3 + size) - 3 : SubSeq(q, 3 + 1, 3 + size)[i] = q[3 + i]
    BY <1>6, <1>7, <2>1, Slicing
  <2>4. \A i \in 1 .. (3 + size) - 3 : w[3 + i] = q[3 + i]
    BY <1>7
  <2> DEFINE u == SubSeq(w, 3 + 1, 3 + size)
             v == SubSeq(q, 3 + 1, 3 + size)
  <2>5. u \in Seq(Bytes) /\ v \in Seq(Bytes) /\ Len(u) = Len(v) /\ \A i \in 1 .. Len(u) : u[i] = v[i]
    BY <2>2, <2>3, <2>4
  <2> HIDE DEF u, v
  <2>6. u = v
    BY <2>5, SeqEqual
  <2> QED
    BY <2>1, <2>6 DEF u, v
<1>9. {i \in Fixed(sch) : BitSet(SubSeq(w, 4, 3 + size), i)} = zero
  <2>1. \A i \in 1 .. Len(sch.fields) : BitSet(BitmapOf(sch, zero), i) <=> i \in zero
    BY BitmapRead DEF Shaped
  <2>2. zero \subseteq Fixed(sch) /\ Fixed(sch) \subseteq 1 .. Len(sch.fields)
    BY DEF zero, Zeroed, Fixed, Shaped
  <2> QED
    BY <1>6, <1>8, <2>1, <2>2
<1>10. WalkOptimized(sch, w, bounded) = Walk(sch, w, 3 + size, bounded, zero)
  BY <1>9 DEF WalkOptimized, size
<1> DEFINE start == 3 + size
<1>11. start \in Nat /\ start <= Len(q) /\ start <= Len(w) /\ Cuts(d, sch, q, start, FALSE, zero)
  BY <1>5, <1>7
<1> HIDE DEF start
<1>12. ~Complete(Walk(sch, w, start, bounded, zero), w)
  BY <1>5, <1>6, <1>7, <1>11, OtherLength
<1> QED
  BY <1>10, <1>12 DEF start

LEMMA NotShortened ==
    ASSUME NEW sch, NEW w, ~IsOptimized(w), NEW on
    PROVE  Restored(sch, w, on) = {w}
<1>1. Deoptimize(sch, w) = [ok |-> TRUE, packet |-> w]
  BY DEF Deoptimize
<1>2. Deoptimize(sch, w).ok /\ Deoptimize(sch, w).packet = w
  BY <1>1
<1> QED
  BY <1>2 DEF Restored

\* Nothing is read of a packet that is cut short or extended; a decoder that
\* does not look at the end reads one that is extended.
NothingRead(sch, p, q, w, on) ==
    /\ Clear(p, q, on) => ReceiveWith(sch, w, on) = {}
    /\ Clear(p, q, on) /\ Len(w) < Len(q) => Unchecked(sch, w, on) = {}
    /\ ~Mistaken(p, q) => FastRead(sch, w) = {}

LEMMA OtherRead ==
    ASSUME NEW sch, Shaped(sch), NEW values, Typed(sch, values), Writable(values), NEW q,
           Packs(sch, values, Encode(sch, values), q), q \in Seq(Bytes), Len(q) >= 2,
           NEW w, OtherEnd(q, w), NEW on
    PROVE  NothingRead(sch, Encode(sch, values), q, w, on)
<1> DEFINE p == Encode(sch, values)
<1>0. /\ w \in Seq(Bytes) /\ Len(w) \in Nat /\ Len(w) >= 1 /\ Len(q) \in Nat /\ Len(w) # Len(q)
      /\ \A k \in 1 .. Len(q) : k <= Len(w) => w[k] = q[k]
  BY DEF OtherEnd
<1>1. CASE q = p
  <2>1. PICK c : Cuts(c, sch, p, 1, FALSE, {}) /\ c[Len(sch.fields)] = Len(p)
    BY PlainReads
  <2>2. ASSUME NEW bounded
        PROVE  /\ ~Complete(Walk(sch, w, 1, bounded, {}), w)
               /\ Len(w) < Len(q) => ~Walk(sch, w, 1, bounded, {}).ok
    <3>1. 1 <= Len(q) /\ 1 <= Len(w) /\ 1 \in Nat
      BY <1>0
    <3> HIDE DEF p
    <3> QED
      BY <1>0, <1>1, <2>1, <3>1, OtherLength
  <2> HIDE DEF p
  <2>3. ~IsOptimized(p) => ~IsOptimized(w)
    BY <1>0, <1>1 DEF IsOptimized
  <2>4. Clear(p, q, on) => Restored(sch, w, on) = {w}
    <3>1. CASE on
      BY <1>1, <2>3, <3>1, NotShortened DEF Clear, Mistaken
    <3>2. CASE ~on
      BY <3>2 DEF Restored
    <3> QED
      BY <3>1, <3>2
  <2>5. Clear(p, q, on) => ReceiveWith(sch, w, on) = {}
    BY <2>2, <2>4 DEF ReceiveWith, Check
  <2>6. Clear(p, q, on) /\ Len(w) < Len(q) => Unchecked(sch, w, on) = {}
    BY <2>2, <2>4 DEF Unchecked, Read
  <2>7. ~Mistaken(p, q) => FastRead(sch, w) = {}
    BY <1>1, <2>2, <2>3 DEF Mistaken, FastRead, FastWalk
  <2> QED
    BY <2>5, <2>6, <2>7 DEF NothingRead, p
<1>2. CASE q # p
  <2>1. IsOptimized(q) /\ (Clear(p, q, on) => on)
    BY <1>2, Forms DEF Clear
  <2>2. CASE ~IsOptimized(w)
    <3>1. Len(w) = 1
      <4>1. q[2] = OmitMark /\ 2 \in 1 .. Len(q)
        BY <1>0, <2>1 DEF IsOptimized
      <4>2. 2 <= Len(w) => w[2] = OmitMark
        BY <1>0, <4>1
      <4>3. ~(2 <= Len(w)) /\ Len(w) \in Nat /\ Len(w) >= 1
        BY <1>0, <2>2, <4>2 DEF IsOptimized
      <4>4. \A n \in Nat : n >= 1 /\ ~(2 <= n) => n = 1
        OBVIOUS
      <4> QED
        BY <4>3, <4>4, Zenon
    <3>2. \A bounded : ~Walk(sch, w, 1, bounded, {}).ok
      BY <1>0, <3>1, NothingThere
    <3>3. Restored(sch, w, on) = {w}
      BY <2>2, NotShortened
    <3>4. ReceiveWith(sch, w, on) = {} /\ Unchecked(sch, w, on) = {}
      BY <3>2, <3>3 DEF ReceiveWith, Check, Complete, Unchecked, Read
    <3>5. FastRead(sch, w) = {}
      BY <2>2, <3>2 DEF FastRead, FastWalk, Complete
    <3> QED
      BY <3>4, <3>5 DEF NothingRead
  <2>3. CASE IsOptimized(w)
    <3>1. HasBitmap(sch, w) => ~Complete(WalkOptimized(sch, w, FALSE), w)
      BY <1>2, ShortOther
    <3>2. ~Deoptimize(sch, w).ok
      BY <2>3, <3>1 DEF Deoptimize
    <3>3. on => Restored(sch, w, on) = {}
      BY <3>2 DEF Restored
    <3>4. on => ReceiveWith(sch, w, on) = {} /\ Unchecked(sch, w, on) = {}
      BY <3>3 DEF ReceiveWith, Unchecked
    <3>5. FastRead(sch, w) = {}
      BY <2>3, <3>1 DEF FastRead, FastWalk
    <3> QED
      BY <2>1, <3>4, <3>5 DEF NothingRead
  <2> QED
    BY <2>2, <2>3
<1> QED
  BY <1>1, <1>2

\* A damaged packet at its receiver.
LEMMA DamagedTaken ==
    ASSUME Consistent(registry), NEW j, IsCall(j), Proper(j), NEW q \in MadeBy(j), ClearTo(j),
           NEW w \in Seq(Bytes), w = <<>> \/ OtherEnd(q, w),
           j.to = "receive_ordered" => Len(w) < Len(q)
    PROVE  TakenBy(j, w) = {}
<1> DEFINE sch == SchemaOf(j)
           values == ValuesIn(j)
           p == Encode(sch, values)
<1>0. /\ j.name \in DOMAIN registry.schemas
      /\ j.by = "send" => Maps(sch, j.data)
      /\ Writable(values) /\ HasTypes(sch, values)
  BY DEF Proper, ValuesFit
<1>1. /\ Shaped(sch) /\ Typed(sch, values)
      /\ ById(registry, sch.id) = {sch} /\ ByName(registry, j.name) = {sch}
  BY <1>0, ProperCall
<1>2. Packs(sch, values, p, q) /\ q \in Seq(Bytes) /\ Len(q) >= 2 /\ q[1] = sch.id
  BY ProperMade
<1>3. IF j.to = "fast_decode" THEN ~Mistaken(p, q) ELSE Clear(p, q, j.on)
  BY DEF ClearTo
<1>4. j.to \in {"receive", "receive_as", "receive_ordered", "fast_decode"}
  BY DEF IsCall
<1> HIDE DEF sch, values
<1>5. CASE w = <<>>
  <2>1. OfPacket(registry, w) = {}
    BY <1>5 DEF OfPacket
  <2> QED
    BY <1>4, <2>1 DEF TakenBy, Receive, ReceiveAs, ReceiveOrdered, FastDecode
<1>6. CASE OtherEnd(q, w)
  <2>1. NothingRead(sch, p, q, w, j.on)
    BY <1>0, <1>1, <1>2, <1>6, OtherRead
  <2>2. OfPacket(registry, w) = {sch}
    <3>1. Len(w) >= 1 /\ w[1] = q[1]
      BY <1>2, <1>6 DEF OtherEnd
    <3> QED
      BY <1>1, <1>2, <3>1 DEF OfPacket
  <2> HIDE DEF p
  <2>3. CASE j.to = "receive"
    BY <1>3, <2>1, <2>2, <2>3 DEF NothingRead, TakenBy, Receive
  <2>4. CASE j.to = "receive_as"
    BY <1>1, <1>3, <2>1, <2>2, <2>4 DEF NothingRead, TakenBy, ReceiveAs
  <2>5. CASE j.to = "receive_ordered"
    <3>1. Unchecked(sch, w, j.on) = {}
      BY <1>3, <2>1, <2>5 DEF NothingRead
    <3>2. TakenBy(j, w) = ReceiveOrdered(registry, w, j.on)
      BY <2>5 DEF TakenBy
    <3>3. ReceiveOrdered(registry, w, j.on)
            = {[name |-> sch.name, values |-> v] : v \in Unchecked(sch, w, j.on)}
      BY <2>2 DEF ReceiveOrdered, Unchecked
    <3> QED
      BY <3>1, <3>2, <3>3
  <2>6. CASE j.to = "fast_decode"
    <3>1. FastRead(sch, w) = {}
      BY <1>3, <2>1, <2>6 DEF NothingRead
    <3> QED
      BY <2>2, <2>6, <3>1 DEF TakenBy, FastDecode
  <2> QED
    BY <1>4, <2>3, <2>4, <2>5, <2>6
<1> QED
  BY <1>5, <1>6

\* No packet of a proper record that is cut short or extended is decoded; only
\* receive_ordered does not look at the end.
THEOREM AlwaysWholeOnly == Spec => []WholeOnly
<1>1. PacketsInv => WholeOnly
  <2> SUFFICES ASSUME PacketsInv, CallOver, damage # "none", Proper(job), ClearTo(job),
                      job.to = "receive_ordered" => damage = "cut"
               PROVE  messages = <<>>
    BY DEF WholeOnly
  <2>1. IsCall(job) /\ Consistent(registry)
    BY DEF PacketsInv, JobInv, CallOver, IsStream, IsRecovery
  <2>2. /\ damage \in {"cut", "extended"} /\ pc \in {"failed", "done"}
        /\ messages = SetToSeq(TakenBy(job, wire))
    BY DEF PacketsInv, CallInv, CallOver
  <2>3. PICK q \in MadeBy(job) :
           /\ damage = "cut" => \E n \in 0 .. Len(q) - 1 : wire = SubSeq(q, 1, n)
           /\ damage = "extended" => \E b \in Bytes : wire = Append(q, b)
    BY <2>2 DEF PacketsInv, CallInv, CallOver
  <2>4. q \in Seq(Bytes) /\ Len(q) \in Nat
    <3>1. q \in Seq(Bytes)
      BY <2>1, ProperMade
    <3> QED
      BY <3>1
  <2>5. /\ wire \in Seq(Bytes)
        /\ wire = <<>> \/ OtherEnd(q, wire)
        /\ job.to = "receive_ordered" => Len(wire) < Len(q)
    <3>1. CASE damage = "cut"
      <4>1. PICK n \in 0 .. Len(q) - 1 : wire = SubSeq(q, 1, n)
        BY <2>3, <3>1
      <4>2. 0 \in Nat /\ n \in Nat /\ 0 <= n /\ n <= Len(q) /\ n < Len(q)
        BY <2>4
      <4>3. /\ SubSeq(q, 0 + 1, n) \in Seq(Bytes) /\ Len(SubSeq(q, 0 + 1, n)) = n - 0
            /\ \A i \in 1 .. n - 0 : SubSeq(q, 0 + 1, n)[i] = q[0 + i]
        BY <2>4, <4>2, Slicing
      <4>4. wire \in Seq(Bytes) /\ Len(wire) = n /\ \A i \in 1 .. n : wire[i] = q[i]
        BY <4>1, <4>2, <4>3
      <4>5. CASE n = 0
        BY <4>2, <4>4, <4>5
      <4>6. CASE n # 0
        <5>1. Len(wire) >= 1 /\ Len(wire) # Len(q) /\ Len(wire) < Len(q)
          BY <4>2, <4>4, <4>6
        <5>2. \A k \in 1 .. Len(q) : k <= Len(wire) => wire[k] = q[k]
          BY <4>2, <4>4
        <5> QED
          BY <4>4, <5>1, <5>2 DEF OtherEnd
      <4> QED
        BY <4>5, <4>6
    <3>2. CASE damage = "extended"
      <4>1. PICK b \in Bytes : wire = Append(q, b)
        BY <2>3, <3>2
      <4>2. wire \in Seq(Bytes) /\ Len(wire) = Len(q) + 1 /\ \A i \in 1 .. Len(q) : wire[i] = q[i]
        BY <2>4, <4>1
      <4>3. Len(wire) >= 1 /\ Len(wire) # Len(q)
        BY <2>4, <4>2
      <4> QED
        BY <3>2, <4>2, <4>3 DEF OtherEnd
    <3> QED
      BY <2>2, <3>1, <3>2
  <2>6. TakenBy(job, wire) = {}
    BY <2>1, <2>5, DamagedTaken
  <2> QED
    BY <2>2, <2>6, SequenceOfNone
<1> QED
  BY <1>1, PacketsAlways, PTL

\* A length that cannot be written, or that reads as the dictionary mark, makes
\* a decoder take fewer bytes than the field has.
LEMMA OverlongSpan ==
    ASSUME NEW f, NEW v \in Value, HasType(f, v), ~FieldWritable(v),
           NEW data, NEW at, NEW bounded, data[at + 1] = EncodeField(f, v)[1],
           NEW n \in Span(f, data, at, bounded)
    PROVE  n < Len(EncodeField(f, v))
<1> DEFINE m == Len(v.bytes)
<1>1. /\ v.kind # "fixed" /\ ~v.ref /\ f.kind = v.kind
      /\ ~(m < IF v.kind = "string" THEN RefMark ELSE Radix)
  BY DEF FieldWritable, HasType
<1>2. v.bytes \in Seq(Bytes) /\ m \in Nat
  <2>1. v.bytes \in Seq(Bytes)
    BY DEF Value
  <2> QED
    BY <2>1
<1>3. Radix \in Nat \ {0} /\ Radix >= 3 /\ RefMark = Radix - 1
  BY RadixLarge DEF RefMark
<1>4. m % Radix \in 0 .. Radix - 1
  BY <1>2, <1>3, Divides
<1>5. EncodeField(f, v) = <<m % Radix>> \o v.bytes
  BY <1>1 DEF EncodeField
<1>6. Len(EncodeField(f, v)) = 1 + m /\ EncodeField(f, v)[1] = m % Radix
  <2>1. m % Radix \in Bytes
    BY <1>4 DEF Bytes
  <2> DEFINE first == m % Radix
  <2> HIDE DEF first
  <2>2. first \in Bytes
    BY <2>1 DEF first
  <2>3. Len(<<first>> \o v.bytes) = 1 + Len(v.bytes) /\ (<<first>> \o v.bytes)[1] = first
    BY <1>2, <2>2
  <2> QED
    BY <1>5, <2>3 DEF first
<1>7. IF f.kind = "string" /\ m % Radix = RefMark THEN n = 2 ELSE n = 1 + (m % Radix)
  BY <1>1, <1>6 DEF Span
<1> DEFINE first == m % Radix
<1> HIDE DEF first, m
<1>8. first \in 0 .. Radix - 1
  BY <1>4 DEF first, m
<1>9. IF v.kind = "string" /\ first = RefMark THEN n = 2 ELSE n = 1 + first
  BY <1>1, <1>7 DEF first, m
<1>10. n < 1 + m
  <2>1. CASE v.kind = "string"
    <3>1. ~(m < RefMark)
      BY <1>1, <2>1
    <3> QED
      BY <1>2, <1>3, <1>8, <1>9, <2>1, <3>1
  <2>2. CASE v.kind # "string"
    <3>1. ~(m < Radix)
      BY <1>1, <2>2
    <3> QED
      BY <1>2, <1>3, <1>8, <1>9, <2>2, <3>1
  <2> QED
    BY <2>1, <2>2
<1> QED
  BY <1>6, <1>10 DEF m

\* If it is the only length of the packet, nothing makes up for them.
LEMMA OverlongShort ==
    ASSUME NEW sch, Shaped(sch), NEW values, Typed(sch, values), ~Writable(values),
           Cardinality(DOMAIN sch.fields \ Fixed(sch)) = 1, NEW bounded
    PROVE  ~Complete(Walk(sch, Encode(sch, values), 1, bounded, {}), Encode(sch, values))
<1> DEFINE p == Encode(sch, values)
           L == Len(sch.fields)
           parts == Pieces(sch, values)
<1>1. p \in Seq(Bytes) /\ L \in Nat \ {0} /\ DOMAIN sch.fields = 1 .. L
  BY EncodedLaid DEF Shaped
<1>2. PICK c : Laid(c, 1, parts, p)
  BY EncodedLaid
<1>3. PICK k \in DOMAIN values : ~FieldWritable(values[k])
  BY DEF Writable, FieldWritable
<1>4. /\ parts \in Seq(Seq(Bytes)) /\ Len(parts) = L
      /\ \A i \in 1 .. L :
            /\ values[i] \in Value /\ HasType(sch.fields[i], values[i])
            /\ parts[i] = EncodeField(sch.fields[i], values[i]) /\ Len(parts[i]) \in Nat \ {0}
  BY PiecesType
<1>5. k \in 1 .. L /\ sch.fields[k].kind # "fixed"
  <2>1. k \in 1 .. L
    <3>1. values \in Seq(Value) /\ Len(values) = L
      BY DEF Typed, HasTypes
    <3> QED
      BY <1>3, <3>1
  <2> QED
    BY <1>3, <1>4, <2>1 DEF FieldWritable, HasType
<1>6. \A i \in 1 .. L : i # k => sch.fields[i].kind = "fixed"
  <2> DEFINE loose == DOMAIN sch.fields \ Fixed(sch)
  <2>1. IsFiniteSet(loose)
    <3>1. IsFiniteSet(1 .. L)
      BY <1>1, FS_Interval
    <3> QED
      BY <1>1, <3>1, FS_Subset
  <2>2. PICK x : loose = {x}
    BY <2>1, FS_Singleton
  <2>3. k \in loose
    BY <1>1, <1>5 DEF Fixed
  <2> QED
    BY <1>1, <2>2, <2>3 DEF Fixed
<1>7. SUFFICES ASSUME Complete(Walk(sch, p, 1, bounded, {}), p) PROVE FALSE
  OBVIOUS
<1>8. PICK d : /\ Cuts(d, sch, p, 1, bounded, {})
               /\ WalkedAt(Walk(sch, p, 1, bounded, {}), d, sch, p, {})
  BY <1>1, <1>7, WalkCuts DEF Complete
<1>9. d[L] = Len(p)
  BY <1>7, <1>8 DEF Complete, WalkedAt
<1> HIDE DEF p, parts
<1>10. Rising(c, L) /\ \A i \in 1 .. L : c[i - 1] \in Nat /\ c[i] \in Nat
  BY <1>2, <1>4, LaidRises
<1>11. /\ d \in [0 .. L -> Nat] /\ d[0] = 1
       /\ \A i \in 1 .. L : d[i] - d[i - 1] \in Span(sch.fields[i], p, d[i - 1], bounded)
  BY <1>8 DEF Cuts
<1>12. /\ c[0] = 1 /\ c[L] = Len(p)
       /\ \A i \in 1 .. L : c[i] = c[i - 1] + Len(parts[i])
       /\ \A i \in 1 .. L : \A x \in 1 .. Len(parts[i]) : p[c[i - 1] + x] = parts[i][x]
  BY <1>2, <1>4 DEF Laid
<1> DEFINE G == {i \in 0 .. L : IF i < k THEN d[i] = c[i] ELSE d[i] < c[i]}
<1>13. 0 \in G
  BY <1>1, <1>5, <1>11, <1>12
<1>14. ASSUME NEW i \in 0 .. L - 1, i \in G PROVE i + 1 \in G
  <2> DEFINE j == i + 1
  <2>1. /\ j \in 1 .. L /\ j - 1 = i /\ d[i] \in Nat /\ d[j] \in Nat /\ c[i] \in Nat
        /\ c[j] \in Nat /\ Len(parts[j]) \in Nat \ {0}
    <3>1. j \in 1 .. L /\ j - 1 = i
      BY <1>1
    <3> HIDE DEF j, L
    <3>2. i \in 0 .. L /\ j \in 0 .. L
      BY <1>1, <3>1
    <3>3. d[i] \in Nat /\ d[j] \in Nat
      BY <1>11, <3>2
    <3>4. c[j - 1] \in Nat /\ c[j] \in Nat /\ Len(parts[j]) \in Nat \ {0}
      BY <1>4, <1>10, <3>1
    <3> QED
      BY <3>1, <3>3, <3>4
  <2>2. d[j] - d[i] \in Span(sch.fields[j], p, d[i], bounded) /\ c[j] = c[i] + Len(parts[j])
    BY <1>11, <1>12, <2>1
  <2>3. CASE j = k
    <3>1. d[i] = c[i]
      BY <1>5, <1>14, <2>1, <2>3
    <3>2. p[d[i] + 1] = parts[j][1]
      <4>1. 1 \in 1 .. Len(parts[j])
        BY <2>1
      <4>2. p[c[j - 1] + 1] = parts[j][1]
        BY <1>12, <2>1, <4>1
      <4> QED
        BY <2>1, <3>1, <4>2
    <3>3. ~FieldWritable(values[j]) /\ values[j] \in Value /\ HasType(sch.fields[j], values[j])
          /\ parts[j] = EncodeField(sch.fields[j], values[j])
      BY <1>3, <1>4, <2>1, <2>3
    <3> HIDE DEF j, G
    <3>4. d[j] - d[i] < Len(parts[j])
      BY <2>2, <3>2, <3>3, OverlongSpan
    <3>5. d[j] < c[j]
      BY <2>1, <2>2, <3>1, <3>4
    <3> QED
      BY <2>1, <2>3, <3>5 DEF G, j
  <2>4. CASE j # k
    <3>1. sch.fields[j].kind = "fixed"
      BY <1>6, <2>1, <2>4
    <3>2. d[j] - d[i] = sch.fields[j].size
      BY <2>2, <3>1 DEF Span
    <3>3. Len(parts[j]) = sch.fields[j].size
      BY <1>4, <2>1, <3>1 DEF EncodeField, HasType
    <3> HIDE DEF j
    <3>4. d[j] - c[j] = d[i] - c[i]
      BY <2>1, <2>2, <3>2, <3>3
    <3>5. i < k => j < k
      BY <1>5, <2>1, <2>4
    <3>6. IF j < k THEN d[j] = c[j] ELSE d[j] < c[j]
      BY <1>5, <1>14, <2>1, <3>4, <3>5
    <3>7. j \in G
      BY <2>1, <3>6
    <3> QED
      BY <3>7 DEF j
  <2> QED
    BY <2>3, <2>4
<1> HIDE DEF G
<1>15. L \in Nat /\ \A i \in 0 .. L : i \in G
  <2>1. L \in Nat /\ \A i \in 0 .. L - 1 : i \in G => i + 1 \in G
    BY <1>1, <1>14
  <2> HIDE DEF L
  <2> QED
    BY <1>13, <2>1, Reaches
<1>16. d[L] < c[L]
  BY <1>5, <1>15 DEF G
<1> QED
  BY <1>1, <1>9, <1>12, <1>16

\* A call that makes a packet has a schema, and values of its types.
LEMMA MadeFrom ==
    ASSUME Consistent(registry), NEW j, IsCall(j), NEW q \in MadeBy(j)
    PROVE  /\ j.name \in DOMAIN registry.schemas
           /\ j.by = "send" => Maps(SchemaOf(j), j.data)
           /\ HasTypes(SchemaOf(j), ValuesIn(j))
<1>1. CASE j.by = "send"
  <2>1. j.data \in [DOMAIN j.data -> Value]
    BY <1>1 DEF IsCall
  <2>2. q \in Send(registry, j.name, j.data, j.omit)
    BY <1>1 DEF MadeBy
  <2>3. /\ j.name \in DOMAIN registry.schemas
        /\ Maps(registry.schemas[j.name], j.data)
        /\ q \in Packed(registry.schemas[j.name], Ordered(registry.schemas[j.name], j.data), j.omit)
    BY <2>1, <2>2, SentForm
  <2>4. ValuesFit(registry.schemas[j.name], Ordered(registry.schemas[j.name], j.data), Sends)
    BY <2>3 DEF Packed
  <2> QED
    BY <1>1, <2>3, <2>4 DEF ValuesFit, SchemaOf, ValuesIn
<1>2. CASE j.by = "send_ordered"
  <2>1. PICK sch \in ByName(registry, j.name) : q \in Packed(sch, j.data, j.omit)
    BY <1>2 DEF MadeBy, SendOrdered
  <2>2. ValuesFit(sch, j.data, Sends)
    BY <2>1 DEF Packed
  <2>3. sch = registry.schemas[j.name] /\ j.name \in DOMAIN registry.schemas
    BY <2>1, FoundByName
  <2> QED
    BY <1>2, <2>2, <2>3 DEF ValuesFit, SchemaOf, ValuesIn
<1>3. CASE j.by = "fast_encode"
  <2>1. PICK sch \in ByName(registry, j.name) : HasTypes(sch, j.data)
    BY <1>3 DEF MadeBy, FastEncode
  <2>2. sch = registry.schemas[j.name] /\ j.name \in DOMAIN registry.schemas
    BY <2>1, FoundByName
  <2> QED
    BY <1>3, <2>1, <2>2 DEF SchemaOf, ValuesIn
<1> QED
  BY <1>1, <1>2, <1>3 DEF IsCall

\* A packet on which no walk comes to the end is read by no call that looks.
LEMMA PlainRefused ==
    ASSUME NEW sch, NEW p, NEW on, \A bounded : ~Complete(Walk(sch, p, 1, bounded, {}), p)
    PROVE  /\ Clear(p, p, on) => ReceiveWith(sch, p, on) = {}
           /\ ~Mistaken(p, p) => FastRead(sch, p) = {}
<1>1. ASSUME Clear(p, p, on) PROVE ReceiveWith(sch, p, on) = {}
  <2>1. Restored(sch, p, on) = {p}
    <3>1. CASE on
      BY <1>1, <3>1, NotShortened DEF Clear, Mistaken
    <3>2. CASE ~on
      BY <3>2 DEF Restored
    <3> QED
      BY <3>1, <3>2
  <2>2. ~Check(sch, p)
    BY DEF Check
  <2> QED
    BY <2>1, <2>2 DEF ReceiveWith
<1>2. ASSUME ~Mistaken(p, p) PROVE FastRead(sch, p) = {}
  BY <1>2 DEF Mistaken, FastRead, FastWalk
<1> QED
  BY <1>1, <1>2

\* A packet with one field of variable length, which cannot be written, is
\* refused by every receiver that looks at its end.
THEOREM AlwaysOverlongRefused == Spec => []OverlongRefused
<1>1. PacketsInv => OverlongRefused
  <2> SUFFICES ASSUME PacketsInv, CallOver, damage = "none", pc # "refused",
                      job.to # "receive_ordered",
                      Cardinality(DOMAIN SchemaOf(job).fields \ Fixed(SchemaOf(job))) = 1,
                      ~Writable(ValuesIn(job)), ClearTo(job)
               PROVE  messages = <<>>
    BY DEF OverlongRefused
  <2> DEFINE sch == SchemaOf(job)
             values == ValuesIn(job)
             p == Encode(sch, values)
  <2>1. IsCall(job) /\ Consistent(registry)
    BY DEF PacketsInv, JobInv, CallOver, IsStream, IsRecovery
  <2>2. messages = SetToSeq(TakenBy(job, wire)) /\ wire \in MadeBy(job)
    BY DEF PacketsInv, CallInv, CallOver
  <2>3. /\ job.name \in DOMAIN registry.schemas
        /\ job.by = "send" => Maps(sch, job.data)
        /\ HasTypes(sch, values)
    BY <2>1, <2>2, MadeFrom
  <2>4. /\ Shaped(sch) /\ Typed(sch, values)
        /\ ById(registry, sch.id) = {sch} /\ ByName(registry, job.name) = {sch}
        /\ MadeBy(job) = IF job.by = "fast_encode" THEN {p} ELSE Packed(sch, values, job.omit)
    BY <2>1, <2>3, ProperCall
  <2>5. \A bounded : ~Complete(Walk(sch, p, 1, bounded, {}), p)
    BY <2>4, OverlongShort
  <2>6. wire = p
    <3>1. CASE job.by = "fast_encode"
      BY <2>2, <2>4, <3>1
    <3>2. CASE job.by # "fast_encode"
      <4>1. wire \in Packed(sch, values, job.omit)
        BY <2>2, <2>4, <3>2
      <4> HIDE DEF sch, values
      <4>2. job.omit => Optimize(sch, p).ok
        BY <4>1 DEF Packed
      <4>3. Optimize(sch, p).ok => Complete(Walk(sch, p, 1, FALSE, {}), p)
        BY OptimizesWhole
      <4>4. ~job.omit
        BY <2>5, <4>2, <4>3
      <4> QED
        BY <4>1, <4>4 DEF Packed
    <3> QED
      BY <3>1, <3>2
  <2>7. OfPacket(registry, wire) = {sch}
    <3>1. p \in Seq(Bytes) /\ p[1] = sch.id /\ Len(p) >= 2
      BY <2>4, EncodedLaid
    <3> HIDE DEF p, sch
    <3>2. Len(p) >= 1
      BY <3>1
    <3> QED
      BY <2>4, <2>6, <3>1, <3>2 DEF OfPacket
  <2>8. IF job.to = "fast_decode" THEN ~Mistaken(p, p) ELSE Clear(p, p, job.on)
    BY <2>2, <2>6 DEF ClearTo
  <2>9. job.to \in {"receive", "receive_as", "fast_decode"}
    BY <2>1 DEF IsCall
  <2> HIDE DEF sch, p
  <2>10. /\ Clear(p, p, job.on) => ReceiveWith(sch, wire, job.on) = {}
         /\ ~Mistaken(p, p) => FastRead(sch, wire) = {}
    BY <2>5, <2>6, PlainRefused
  <2>11. TakenBy(job, wire) = {}
    <3>1. CASE job.to = "receive"
      BY <2>7, <2>8, <2>10, <3>1 DEF TakenBy, Receive
    <3>2. CASE job.to = "receive_as"
      BY <2>4, <2>7, <2>8, <2>10, <3>2 DEF TakenBy, ReceiveAs
    <3>3. CASE job.to = "fast_decode"
      BY <2>7, <2>8, <2>10, <3>3 DEF TakenBy, FastDecode
    <3> QED
      BY <2>9, <3>1, <3>2, <3>3
  <2> QED
    BY <2>2, <2>11, SequenceOfNone
<1> QED
  BY <1>1, PacketsAlways, PTL

-----------------------------------------------------------------------------
(* A record by its names, and what receive hands over *)

\* A map with the names of the fields, and no more of them than fields, has
\* those names only.
LEMMA OrderedNamed ==
    ASSUME NEW sch, Shaped(sch), WellFormed(sch.fields), NEW payload,
           payload \in [DOMAIN payload -> Value], IsFiniteSet(DOMAIN payload),
           Maps(sch, payload)
    PROVE  Named(sch, Ordered(sch, payload)) = payload
<1> DEFINE L == Len(sch.fields)
           names == {sch.fields[i].name : i \in DOMAIN sch.fields}
           f == [i \in 1 .. L |-> sch.fields[i].name]
           values == Ordered(sch, payload)
           Key(n) == CHOOSE i \in DOMAIN sch.fields : sch.fields[i].name = n
<1>0. L \in Nat /\ DOMAIN sch.fields = 1 .. L
  BY DEF Shaped
<1>1. \A a, b \in 1 .. L : b < a => sch.fields[b].name # sch.fields[a].name
  BY <1>0 DEF WellFormed
<1>2. names = DOMAIN payload
  <2>1. names \subseteq DOMAIN payload /\ Cardinality(DOMAIN payload) <= L
    BY DEF Maps
  <2>2. IsFiniteSet(1 .. L) /\ Cardinality(1 .. L) = L
    <3>1. 1 \in Int /\ L \in Int
      BY <1>0
    <3>2. IsFiniteSet(1 .. L) /\ Cardinality(1 .. L) = IF 1 > L THEN 0 ELSE L - 1 + 1
      BY <3>1, FS_Interval
    <3> QED
      BY <1>0, <3>2
  <2>3. f \in Surjection(1 .. L, names)
    BY <1>0 DEF Surjection
  <2>4. f \in Injection(1 .. L, names)
    <3>1. \A a, b \in 1 .. L : f[a] = f[b] => a = b
      BY <1>0, <1>1
    <3> QED
      BY <1>0, <3>1 DEF Injection, IsInjective
  <2> HIDE DEF f, names, L
  <2>5. IsFiniteSet(names) /\ Cardinality(names) = L
    BY <2>2, <2>3, <2>4, FS_Surjection
  <2>6. /\ Cardinality(names) <= Cardinality(DOMAIN payload)
        /\ Cardinality(DOMAIN payload) = Cardinality(names) => DOMAIN payload = names
    BY <2>1, FS_Subset
  <2>7. Cardinality(DOMAIN payload) \in Nat
    BY FS_CardinalityType
  <2>8. Cardinality(DOMAIN payload) = Cardinality(names)
    BY <1>0, <2>1, <2>5, <2>6, <2>7
  <2> QED
    BY <2>6, <2>8
<1>3. ASSUME NEW n \in names PROVE values[Key(n)] = payload[n]
  <2>1. PICK i \in 1 .. L : sch.fields[i].name = n
    BY <1>0
  <2>2. Key(n) \in DOMAIN sch.fields /\ sch.fields[Key(n)].name = n
    BY <1>0, <2>1
  <2> HIDE DEF Key
  <2>3. values[Key(n)] = payload[sch.fields[Key(n)].name]
    BY <2>2 DEF Ordered
  <2> QED
    BY <2>2, <2>3
<1>4. Named(sch, values) = [n \in names |-> values[Key(n)]]
  BY DEF Named
<1> HIDE DEF Key, values, names
<1>5. [n \in names |-> values[Key(n)]] = [n \in names |-> payload[n]]
  BY <1>3
<1>6. payload = [n \in DOMAIN payload |-> payload[n]]
  OBVIOUS
<1> QED
  BY <1>2, <1>4, <1>5, <1>6 DEF values

\* Its lengths can be written, the receiver has its strings, and its packet
\* q is not mistaken.
Readable(m, q, on) ==
    LET sch == registry.schemas[m.name]
        values == Ordered(sch, m.payload)
    IN  RefsKnown(sch, values, TRUE) /\ Writable(values) /\ Clear(Encode(sch, values), q, on)

\* What a packet was made of, and of what it was made.
Carries(m, q, sch, values) ==
    /\ sch = registry.schemas[m.name] /\ sch.name = m.name
    /\ Shaped(sch) /\ WellFormed(sch.fields)
    /\ ById(registry, sch.id) = {sch}
    /\ values = Ordered(sch, m.payload) /\ values \in Seq(Value)
    /\ ValuesFit(sch, values, Sends) /\ Typed(sch, values) /\ Within(sch, values)
    /\ Packs(sch, values, Encode(sch, values), q)
    /\ q \in Seq(Bytes) /\ Len(q) >= 2 /\ q[1] = sch.id
    /\ Named(sch, values) = m.payload

LEMMA SentCarries ==
    ASSUME Consistent(registry), NEW omit, NEW m, Sendable(m, omit),
           NEW q \in Send(registry, m.name, m.payload, omit)
    PROVE  \E sch, values : Carries(m, q, sch, values)
<1> DEFINE sch == registry.schemas[m.name]
           values == Ordered(sch, m.payload)
<1>1. m.payload \in [DOMAIN m.payload -> Value] /\ IsFiniteSet(DOMAIN m.payload)
  BY DEF Sendable
<1>2. /\ m.name \in DOMAIN registry.schemas /\ Maps(sch, m.payload)
      /\ q \in Packed(sch, values, omit) /\ q \in Seq(Bytes) /\ Len(q) >= 2
  BY <1>1, SentForm
<1>3. sch \in ByName(registry, m.name)
  BY <1>2 DEF ByName
<1> HIDE DEF sch
<1>4. Shaped(sch) /\ WellFormed(sch.fields) /\ sch.name = m.name /\ ById(registry, sch.id) = {sch}
  BY <1>3, FoundByName
<1>5. values \in Seq(Value) /\ Named(sch, values) = m.payload
  BY <1>1, <1>2, <1>4, MappedTyped, OrderedNamed
<1> HIDE DEF values
<1>6. /\ ValuesFit(sch, values, Sends) /\ Typed(sch, values) /\ Within(sch, values)
      /\ Packs(sch, values, Encode(sch, values), q) /\ q[1] = sch.id
  BY <1>2, <1>4, <1>5, PackedForm
<1>7. Carries(m, q, sch, values)
  BY <1>2, <1>4, <1>5, <1>6 DEF Carries, sch, values
<1> QED
  BY <1>7

\* receive hands over the record that send was given.
LEMMA RecordReceived ==
    ASSUME Consistent(registry), NEW omit, NEW m, Sendable(m, omit),
           NEW q \in Send(registry, m.name, m.payload, omit), NEW on, Readable(m, q, on)
    PROVE  Receive(registry, q, on) = {m}
<1>1. PICK sch : \E values : Carries(m, q, sch, values)
  BY SentCarries
<1>2. PICK values : Carries(m, q, sch, values)
  BY <1>1
<1>3. /\ RefsKnown(sch, values, TRUE) /\ Writable(values) /\ Clear(Encode(sch, values), q, on)
  BY <1>2 DEF Readable, Carries
<1>4. ReadsBack(sch, values, q, on)
  BY <1>2, <1>3, PacketRead DEF Carries
<1>5. ReceiveWith(sch, q, on) = {[name |-> sch.name, payload |-> Named(sch, values)]}
  BY <1>3, <1>4 DEF ReadsBack
<1>6. OfPacket(registry, q) = {sch}
  <2>1. Len(q) >= 1
    BY <1>2 DEF Carries
  <2> QED
    BY <1>2, <2>1 DEF Carries, OfPacket
<1>7. [name |-> sch.name, payload |-> Named(sch, values)] = m
  <2>1. m = [name |-> m.name, payload |-> m.payload]
    BY DEF Sendable
  <2>2. sch.name = m.name /\ Named(sch, values) = m.payload
    BY <1>2 DEF Carries
  <2> QED
    BY <2>1, <2>2
<1> QED
  BY <1>5, <1>6, <1>7 DEF Receive

-----------------------------------------------------------------------------
(* What receive_stream takes off and hands over *)

LEMMA Grown ==
    ASSUME NEW S, NEW s \in Seq(S)
    PROVE  /\ SubSeq(s, 1, 0) = <<>> /\ SubSeq(s, 1, Len(s)) = s
           /\ \A i \in 0 .. Len(s) :
                 /\ SubSeq(s, 1, i) \in Seq(S) /\ Len(SubSeq(s, 1, i)) = i
                 /\ \A k \in 1 .. i : SubSeq(s, 1, i)[k] = s[k]
           /\ \A i \in 1 .. Len(s) :
                 /\ Append(SubSeq(s, 1, i - 1), s[i]) = SubSeq(s, 1, i)
                 /\ SubSeq(s, 1, i - 1) \o <<s[i]>> = SubSeq(s, 1, i)
<1>0. Len(s) \in Nat
  OBVIOUS
<1>1. ASSUME NEW i \in 0 .. Len(s)
      PROVE  /\ SubSeq(s, 1, i) \in Seq(S) /\ Len(SubSeq(s, 1, i)) = i
             /\ \A k \in 1 .. i : SubSeq(s, 1, i)[k] = s[k]
  <2>1. 0 \in Nat /\ i \in Nat /\ 0 <= i /\ i <= Len(s) /\ 0 + 1 = 1 /\ i - 0 = i
    BY <1>0
  <2>2. /\ SubSeq(s, 0 + 1, i) \in Seq(S) /\ Len(SubSeq(s, 0 + 1, i)) = i - 0
        /\ \A k \in 1 .. i - 0 : SubSeq(s, 0 + 1, i)[k] = s[0 + k]
    BY <2>1, Slicing
  <2> QED
    BY <2>1, <2>2
<1>2. ASSUME NEW i \in 1 .. Len(s)
      PROVE  /\ Append(SubSeq(s, 1, i - 1), s[i]) = SubSeq(s, 1, i)
             /\ SubSeq(s, 1, i - 1) \o <<s[i]>> = SubSeq(s, 1, i)
  <2> DEFINE u == SubSeq(s, 1, i - 1)
             v == SubSeq(s, 1, i)
             x == s[i]
  <2>1. /\ u \in Seq(S) /\ Len(u) = i - 1 /\ \A k \in 1 .. i - 1 : u[k] = s[k]
        /\ v \in Seq(S) /\ Len(v) = i /\ (\A k \in 1 .. i : v[k] = s[k]) /\ x \in S
        /\ v[i] = x
    BY <1>0, <1>1
  <2> HIDE DEF u, v, x
  <2>2. \A k \in 1 .. i - 1 : v[k] = u[k]
    BY <1>0, <2>1
  <2>3. Append(u, x) = v
    <3>1. Append(u, x) \in Seq(S) /\ Len(Append(u, x)) = i
      BY <2>1
    <3>2. \A k \in 1 .. i : Append(u, x)[k] = v[k]
      BY <1>0, <2>1, <2>2
    <3> QED
      BY <2>1, <3>1, <3>2, SeqEqual
  <2>4. u \o <<x>> = v
    <3>1. u \o <<x>> = Append(u, x)
      BY <2>1
    <3> QED
      BY <2>3, <3>1
  <2> QED
    BY <2>3, <2>4 DEF u, v, x
<1>3. SubSeq(s, 1, 0) = <<>>
  <2>1. 0 \in 0 .. Len(s)
    BY <1>0
  <2>2. SubSeq(s, 1, 0) \in Seq(S) /\ Len(SubSeq(s, 1, 0)) = 0
    BY <1>1, <2>1
  <2> QED
    BY <2>2
<1>4. SubSeq(s, 1, Len(s)) = s
  <2> DEFINE u == SubSeq(s, 1, Len(s))
  <2>1. Len(s) \in 0 .. Len(s)
    BY <1>0
  <2>2. u \in Seq(S) /\ Len(u) = Len(s) /\ \A k \in 1 .. Len(s) : u[k] = s[k]
    BY <1>1, <2>1
  <2> HIDE DEF u
  <2>3. u = s
    BY <2>2, SeqEqual
  <2> QED
    BY <2>3 DEF u
<1> QED
  BY <1>1, <1>2, <1>3, <1>4

Handed(records) == [ok |-> TRUE, messages |-> records]

Yield(reg, packets, on, records) ==
    /\ Len(packets) = Len(records)
    /\ \A i \in 1 .. Len(records) : Receive(reg, packets[i], on) = {records[i]}

\* Packets whose records are received one by one are decoded to the end.
LEMMA DecodingAll ==
    ASSUME NEW reg, NEW on, NEW packets \in Seq(Seq(Bytes)), NEW S, NEW records \in Seq(S),
           Yield(reg, packets, on, records)
    PROVE  Decoding(reg, packets, on) = Handed(records)
<1> DEFINE n == Len(records)
           base == [ok |-> TRUE, messages |-> <<>>]
           Step(i, x) == DecodeOne(reg, x, packets[i], on)
           Eq(g) == g = [i \in 0 .. n |-> IF i = 0 THEN base ELSE Step(i, g[i - 1])]
           f == [i \in 0 .. n |-> [ok |-> TRUE, messages |-> SubSeq(records, 1, i)]]
           s == CHOOSE g : Eq(g)
<1>0. n \in Nat /\ \A i \in 1 .. n : i \in 0 .. n /\ i - 1 \in 0 .. n /\ i # 0
  OBVIOUS
<1>1. f[0] = base
  <2>1. 0 \in 0 .. n /\ SubSeq(records, 1, 0) = <<>>
    BY <1>0, Grown
  <2> QED
    BY <2>1
<1>2. ASSUME NEW i \in 1 .. n PROVE Step(i, f[i - 1]) = f[i]
  <2>1. /\ f[i - 1].ok = TRUE /\ f[i - 1].messages = SubSeq(records, 1, i - 1)
        /\ f[i] = [ok |-> TRUE, messages |-> SubSeq(records, 1, i)]
    BY <1>0
  <2>2. SubSeq(records, 1, i - 1) \o <<records[i]>> = SubSeq(records, 1, i)
    BY Grown
  <2>3. SetToSeq({records[i]}) = <<records[i]>>
    BY SequenceOfOne
  <2> HIDE DEF f
  <2>4. Receive(reg, packets[i], on) = {records[i]}
    BY DEF Yield
  <2> QED
    BY <2>1, <2>2, <2>3, <2>4 DEF DecodeOne
<1>3. Decoding(reg, packets, on) = s[n]
  <2>1. Len(packets) = n
    BY DEF Yield
  <2> QED
    BY <2>1 DEF Decoding
<1> HIDE DEF Step, base
<1>4. Eq(f)
  <2>1. f = [i \in 0 .. n |-> IF i = 0 THEN base ELSE Step(i, f[i - 1])]
    <3>1. \A i \in 0 .. n : i # 0 => i \in 1 .. n
      BY <1>0
    <3>2. \A i \in 0 .. n : f[i] = IF i = 0 THEN base ELSE Step(i, f[i - 1])
      BY <1>1, <1>2, <3>1
    <3>3. f = [i \in 0 .. n |-> f[i]]
      OBVIOUS
    <3> HIDE DEF f
    <3> QED
      BY <3>2, <3>3
  <2> QED
    BY <2>1
<1>5. Eq(s)
  BY <1>4
<1>6. f[n] = [ok |-> TRUE, messages |-> records]
  <2>1. n \in 0 .. n /\ SubSeq(records, 1, n) = records
    BY <1>0, Grown
  <2> QED
    BY <2>1
<1> HIDE DEF f, s
<1>7. s[0] = base /\ \A i \in 1 .. n : s[i] = Step(i, s[i - 1])
  <2>1. 0 \in 0 .. n
    BY <1>0
  <2> QED
    BY <1>0, <1>5, <2>1
<1> DEFINE G == {i \in 0 .. n : s[i] = f[i]}
<1>8. 0 \in G
  BY <1>0, <1>1, <1>7
<1>9. \A i \in 0 .. n - 1 : i \in G => i + 1 \in G
  <2> TAKE i \in 0 .. n - 1
  <2>1. i + 1 \in 1 .. n /\ i + 1 \in 0 .. n /\ (i + 1) - 1 = i
    BY <1>0
  <2>2. s[i + 1] = Step(i + 1, s[i]) /\ f[i + 1] = Step(i + 1, f[i])
    BY <1>2, <1>7, <2>1
  <2> QED
    BY <2>1, <2>2
<1> HIDE DEF G, n
<1>10. n \in G
  <2>1. \A i \in 0 .. n : i \in G
    BY <1>0, <1>8, <1>9, Reaches
  <2> QED
    BY <1>0, <2>1
<1> QED
  BY <1>3, <1>6, <1>10 DEF G, Handed

\* A batch is taken apart into the packets it was put together of, if it can
\* count them; otherwise it announces fewer than there are, and bytes are left.
LEMMA BatchTaken ==
    ASSUME NEW packets \in Seq(Seq(Bytes)),
           \A i \in 1 .. Len(packets) : Len(packets[i]) < Radix
    PROVE  Expand(BatchOf(packets)) = IF Len(packets) < Radix THEN {packets} ELSE {}
<1> DEFINE n == Len(packets)
           m == n % Radix
           data == BatchOf(packets)
           pieces == BatchPieces(packets)
           base == [ok |-> TRUE, at |-> 2, parts |-> <<>>]
           Eq(g) == g = [i \in 0 .. m |-> IF i = 0 THEN base ELSE NextPart(g[i - 1], data)]
           s == CHOOSE g : Eq(g)
<1>1. /\ pieces \in Seq(Seq(Bytes)) /\ Len(pieces) = n /\ data \in Seq(Bytes) /\ data[2] = m
      /\ \E c : Laid(c, 2, pieces, data)
  BY BatchLaid
<1>2. PICK c : Laid(c, 2, pieces, data)
  BY <1>1
<1>3. /\ n \in Nat /\ Radix \in Nat /\ Radix >= 3
      /\ m \in Nat /\ m <= n /\ (n < Radix => m = n) /\ (~(n < Radix) => m < n)
  <2>1. n \in Nat /\ Radix \in Nat \ {0} /\ Radix >= 3
    BY RadixLarge
  <2>2. m \in 0 .. Radix - 1
    BY <2>1, Divides
  <2>3. n < Radix => m = n
    BY <2>1, ResidueInRange
  <2> HIDE DEF m, n
  <2> QED
    BY <2>1, <2>2, <2>3
<1>4. ASSUME NEW i \in 1 .. n
      PROVE  /\ packets[i] \in Seq(Bytes) /\ Len(packets[i]) \in Nat
             /\ pieces[i] = <<Len(packets[i])>> \o packets[i]
             /\ Len(pieces[i]) = 1 + Len(packets[i]) /\ pieces[i][1] = Len(packets[i])
             /\ \A k \in 1 .. Len(packets[i]) : pieces[i][1 + k] = packets[i][k]
  <2> DEFINE l == Len(packets[i])
             q == packets[i]
  <2>1. q \in Seq(Bytes) /\ l \in Nat /\ l < Radix
    OBVIOUS
  <2>2. l % Radix = l
    <3>1. Radix \in Nat \ {0} /\ l \in 0 .. Radix - 1
      BY <1>3, <2>1
    <3> QED
      BY <3>1, ResidueInRange
  <2>3. pieces[i] = <<l>> \o q
    BY <2>2 DEF BatchPieces
  <2>4. l \in Bytes /\ l = Len(q)
    BY <1>3, <2>1 DEF Bytes
  <2> HIDE DEF l, q
  <2>5. /\ Len(<<l>> \o q) = 1 + Len(q) /\ (<<l>> \o q)[1] = l
        /\ \A k \in 1 .. Len(q) : (<<l>> \o q)[1 + k] = q[k]
    <3>1. <<l>> \in Seq(Bytes) /\ Len(<<l>>) = 1 /\ <<l>>[1] = l
      BY <2>4
    <3> QED
      BY <2>1, <3>1, Joins
  <2> QED
    BY <2>1, <2>3, <2>4, <2>5 DEF l, q
<1> HIDE DEF pieces, data
<1>5. /\ Rising(c, n)
      /\ \A i \in 1 .. n : c[i - 1] \in Nat /\ c[i] \in Nat
  BY <1>1, <1>2, LaidRises
<1>6. /\ c[0] = 2 /\ Len(data) = c[n]
      /\ \A i \in 1 .. n : c[i] = c[i - 1] + Len(pieces[i])
      /\ \A i \in 1 .. n : \A k \in 1 .. Len(pieces[i]) : data[c[i - 1] + k] = pieces[i][k]
  BY <1>1, <1>2 DEF Laid
<1> DEFINE f == [i \in 0 .. m |-> [ok |-> TRUE, at |-> c[i], parts |-> SubSeq(packets, 1, i)]]
<1>7. f[0] = base
  <2>1. 0 \in 0 .. m /\ SubSeq(packets, 1, 0) = <<>>
    BY <1>3, Grown
  <2> HIDE DEF m
  <2> QED
    BY <1>6, <2>1
<1>8. ASSUME NEW i \in 1 .. m PROVE NextPart(f[i - 1], data) = f[i]
  <2> DEFINE a == c[i - 1]
             l == Len(packets[i])
  <2>1. i \in 1 .. n /\ i - 1 \in 0 .. m /\ i \in 0 .. m
    <3> HIDE DEF m, n
    <3> QED
      BY <1>3
  <2>2. /\ f[i - 1] = [ok |-> TRUE, at |-> a, parts |-> SubSeq(packets, 1, i - 1)]
        /\ f[i] = [ok |-> TRUE, at |-> c[i], parts |-> SubSeq(packets, 1, i)]
    BY <2>1
  <2>3. a \in Nat /\ l \in Nat /\ c[i] = a + 1 + l /\ c[i] \in Nat
    <3>1. Len(pieces[i]) = 1 + Len(packets[i]) /\ Len(packets[i]) \in Nat
      BY <1>4, <2>1
    <3>2. c[i] = c[i - 1] + Len(pieces[i]) /\ c[i - 1] \in Nat /\ c[i] \in Nat
      BY <1>5, <1>6, <2>1
    <3>3. l \in Nat /\ a \in Nat /\ c[i] \in Nat /\ c[i] = a + (1 + l)
      BY <3>1, <3>2
    <3> HIDE DEF a, l
    <3> QED
      BY <3>3
  <2>4. c[i] <= Len(data) /\ Len(data) \in Nat
    <3>1. i \in 0 .. n /\ n \in 0 .. n /\ i <= n
      BY <1>3, <2>1
    <3>2. c[i] <= c[n]
      BY <1>3, <1>5, <3>1, RisingFar
    <3> QED
      BY <1>1, <1>6, <3>2
  <2>5. data[a + 1] = l /\ \A k \in 1 .. l : data[(a + 1) + k] = packets[i][k]
    <3>1. Len(pieces[i]) = 1 + l /\ pieces[i][1] = l
          /\ \A k \in 1 .. l : pieces[i][1 + k] = packets[i][k]
      BY <1>4, <2>1
    <3>2. \A k \in 1 .. Len(pieces[i]) : data[a + k] = pieces[i][k]
      BY <1>6, <2>1
    <3> HIDE DEF a, l
    <3>3. 1 \in 1 .. Len(pieces[i]) /\ \A k \in 1 .. l : 1 + k \in 1 .. Len(pieces[i])
      BY <2>3, <3>1
    <3>4. data[a + 1] = l
      BY <3>1, <3>2, <3>3
    <3>5. \A k \in 1 .. l : data[a + (1 + k)] = packets[i][k]
      BY <3>1, <3>2, <3>3
    <3>6. \A k \in 1 .. l : a + (1 + k) = (a + 1) + k
      BY <2>3
    <3> QED
      BY <3>4, <3>5, <3>6
  <2>6. SubSeq(data, (a + 1) + 1, a + 1 + l) = packets[i]
    <3>1. packets[i] \in Seq(Bytes) /\ l = Len(packets[i])
      BY <1>4, <2>1
    <3>2. a + 1 \in Nat /\ a + 1 + l \in Nat /\ a + 1 + l <= Len(data)
      BY <2>3, <2>4
    <3> DEFINE q == packets[i]
               from == a + 1
               to == a + 1 + l
    <3>3. to = from + Len(q) /\ q \in Seq(Bytes) /\ from \in Nat /\ to \in Nat /\ to <= Len(data)
          /\ \A k \in 1 .. Len(q) : data[from + k] = q[k]
      BY <2>5, <3>1, <3>2
    <3> HIDE DEF q, from, to
    <3>4. SubSeq(data, from + 1, to) = q
      BY <1>1, <3>3, ReadBack
    <3> QED
      BY <3>4 DEF q, from, to
  <2>7. Append(SubSeq(packets, 1, i - 1), packets[i]) = SubSeq(packets, 1, i)
    BY <2>1, Grown
  <2> DEFINE r == f[i - 1]
             done == SubSeq(packets, 1, i - 1)
  <2> HIDE DEF f, a, l, done
  <2>8. (a + 1) + 1 = a + 2 /\ ~(a >= Len(data)) /\ ~(a + 1 + l > Len(data))
    BY <2>3, <2>4
  <2>10. r.ok = TRUE /\ r.at = a /\ r.parts = done
    BY <2>2 DEF done
  <2> HIDE DEF r
  <2>11. ~(~r.ok \/ r.at >= Len(data) \/ r.at + 1 + data[r.at + 1] > Len(data))
    BY <2>5, <2>8, <2>10
  <2>12. SubSeq(data, r.at + 2, r.at + 1 + data[r.at + 1]) = packets[i]
         /\ r.at + 1 + data[r.at + 1] = a + 1 + l
    BY <2>5, <2>6, <2>8, <2>10
  <2>13. NextPart(r, data) = [ok |-> TRUE, at |-> a + 1 + l, parts |-> Append(done, packets[i])]
    BY <2>10, <2>11, <2>12, Zenon DEF NextPart
  <2>9. NextPart(f[i - 1], data) = [ok |-> TRUE, at |-> a + 1 + l,
                                   parts |-> Append(SubSeq(packets, 1, i - 1), packets[i])]
    BY <2>13 DEF r, done
  <2> QED
    BY <2>2, <2>3, <2>7, <2>9
<1>9. Parts(data) = s[m]
  BY <1>1 DEF Parts
<1> HIDE DEF base, m
<1>10. Eq(f)
  <2>1. \A i \in 0 .. m : i # 0 => i \in 1 .. m
    BY <1>3
  <2>2. \A i \in 0 .. m : f[i] = IF i = 0 THEN base ELSE NextPart(f[i - 1], data)
    BY <1>7, <1>8, <2>1
  <2>3. f = [i \in 0 .. m |-> f[i]]
    OBVIOUS
  <2> HIDE DEF f
  <2> QED
    BY <2>2, <2>3
<1>11. Eq(s)
  BY <1>10
<1>12. f[m] = [ok |-> TRUE, at |-> c[m], parts |-> SubSeq(packets, 1, m)]
  BY <1>3
<1> HIDE DEF f, s
<1>13. s[0] = base /\ \A i \in 1 .. m : s[i] = NextPart(s[i - 1], data)
  <2>1. 0 \in 0 .. m /\ \A i \in 1 .. m : i \in 0 .. m /\ i # 0
    BY <1>3
  <2> QED
    BY <1>11, <2>1
<1> DEFINE G == {i \in 0 .. m : s[i] = f[i]}
<1>14. 0 \in G
  BY <1>3, <1>7, <1>13
<1>15. \A i \in 0 .. m - 1 : i \in G => i + 1 \in G
  <2> TAKE i \in 0 .. m - 1
  <2>1. i + 1 \in 1 .. m /\ i + 1 \in 0 .. m /\ (i + 1) - 1 = i
    BY <1>3
  <2>2. s[i + 1] = NextPart(s[i], data) /\ f[i + 1] = NextPart(f[i], data)
    BY <1>8, <1>13, <2>1
  <2> QED
    BY <2>1, <2>2
<1> HIDE DEF G
<1>16. s[m] = f[m]
  <2>1. \A i \in 0 .. m : i \in G
    BY <1>3, <1>14, <1>15, Reaches
  <2> QED
    BY <1>3, <2>1 DEF G
<1>17. Parts(data).ok /\ Parts(data).at = c[m] /\ Parts(data).parts = SubSeq(packets, 1, m)
  <2> DEFINE end == c[m]
             done == SubSeq(packets, 1, m)
             w == Parts(data)
  <2>1. w = [ok |-> TRUE, at |-> end, parts |-> done]
    BY <1>9, <1>12, <1>16
  <2> HIDE DEF end, done, w
  <2>2. w.ok /\ w.at = end /\ w.parts = done
    BY <2>1
  <2> QED
    BY <2>2 DEF end, done, w
<1>18. Len(data) \in Nat /\ Len(data) >= 2
  <2>1. 0 \in 0 .. n /\ n \in 0 .. n /\ 0 <= n
    BY <1>3
  <2>2. c[0] <= c[n]
    BY <1>3, <1>5, <2>1, RisingFar
  <2>3. Len(data) \in Nat
    BY <1>1
  <2> QED
    BY <1>6, <2>2, <2>3
<1>19. CASE n < Radix
  <2>1. m = n /\ SubSeq(packets, 1, n) = packets
    BY <1>3, <1>19, Grown
  <2>2. Complete(Parts(data), data) /\ Parts(data).parts = packets
    BY <1>6, <1>17, <2>1 DEF Complete
  <2> QED
    BY <1>18, <1>19, <2>2 DEF Expand, data
<1>20. CASE ~(n < Radix)
  <2>1. m < n
    BY <1>3, <1>20
  <2>2. c[m] < c[n]
    <3> HIDE DEF n
    <3>1. m + 1 \in 1 .. n /\ (m + 1) - 1 = m /\ m + 1 \in 0 .. n /\ n \in 0 .. n /\ m + 1 <= n
      BY <1>3, <2>1
    <3>2. c[m + 1] = c[m] + Len(pieces[m + 1]) /\ c[m] \in Nat
      BY <1>5, <1>6, <3>1
    <3>3. Len(pieces[m + 1]) >= 1
      <4>1. Len(pieces[m + 1]) = 1 + Len(packets[m + 1]) /\ Len(packets[m + 1]) \in Nat
        BY <1>4, <3>1
      <4> QED
        BY <4>1
    <3>4. c[m + 1] <= c[n] /\ c[m + 1] \in Nat /\ c[n] \in Nat
      <4>1. c[m + 1] <= c[n]
        BY <1>3, <1>5, <3>1, RisingFar
      <4> QED
        BY <1>5, <3>1, <4>1 DEF Rising
    <3>5. Len(pieces[m + 1]) \in Nat
      <4>1. Len(pieces[m + 1]) = 1 + Len(packets[m + 1]) /\ Len(packets[m + 1]) \in Nat
        BY <1>4, <3>1
      <4> QED
        BY <4>1
    <3> QED
      BY <3>2, <3>3, <3>4, <3>5
  <2>3. c[m] \in Nat /\ c[n] \in Nat
    BY <1>3, <1>5 DEF Rising
  <2>4. ~Complete(Parts(data), data)
    BY <1>6, <1>17, <2>2, <2>3 DEF Complete
  <2> QED
    BY <1>20, <2>4 DEF Expand, data
<1> QED
  BY <1>19, <1>20

LEMMA BatchMarkApart == BatchMark \notin {CrcMark, ControlMark, DeltaMark}
<1>1. SUFFICES ASSUME BatchMark \in {CrcMark, ControlMark, DeltaMark} PROVE FALSE
  OBVIOUS
<1> DEFINE one == {CrcMark}
           two == one \cup {ControlMark}
           three == two \cup {DeltaMark}
<1>2. IsFiniteSet(one) /\ Cardinality(one) = 1
  BY FS_Singleton
<1> HIDE DEF one
<1>3. IsFiniteSet(two) /\ Cardinality(two) \in 1 .. 2
  <2>1. /\ IsFiniteSet(two)
        /\ Cardinality(two) = IF ControlMark \in one THEN Cardinality(one) ELSE Cardinality(one) + 1
    BY <1>2, FS_AddElement
  <2> QED
    BY <1>2, <2>1
<1> HIDE DEF two
<1>4. Cardinality(three) \in 1 .. 3
  <2>1. Cardinality(three) = IF DeltaMark \in two THEN Cardinality(two) ELSE Cardinality(two) + 1
    BY <1>3, FS_AddElement
  <2> QED
    BY <1>3, <2>1
<1>5. three = StreamMarks
  BY <1>1 DEF one, two, three, StreamMarks
<1>6. Cardinality(StreamMarks) = 4
  BY EnvelopeAssumption
<1> QED
  BY <1>4, <1>5, <1>6

\* What the stream calls carry reaches the dispatch of the receiver.
LEMMA CarriedOver ==
    ASSUME Consistent(registry), NEW j, IsStream(j), Out(j)[1] # CrcMark, NEW on
    PROVE  ReceiveStream(registry, Carried(j), on) = Dispatch(registry, Out(j), on)
<1> DEFINE out == Out(j)
<1>1. out \in Seq(Bytes) /\ out # <<>>
  BY OutType
<1> HIDE DEF out
<1>2. CASE j.crc
  <2>1. Unwrap(Wrap(out)) = {out} /\ Wrap(out) # <<>>
    BY <1>1, Unwraps
  <2>2. Carried(j) = Wrap(out)
    BY <1>2 DEF Carried, out
  <2> QED
    BY <2>1, <2>2 DEF ReceiveStream, out
<1>3. CASE ~j.crc
  <2>1. Unwrap(out) = {out}
    BY DEF Unwrap, out
  <2>2. Carried(j) = out
    BY <1>3 DEF Carried, out
  <2> QED
    BY <1>1, <2>1, <2>2 DEF ReceiveStream, out
<1> QED
  BY <1>2, <1>3

\* Records come out of the stream calls as they went in, alone or in a batch,
\* with a CRC or without; a batch that cannot count its packets is refused.
THEOREM AlwaysEnvelopeKept == Spec => []EnvelopeKept
<1>1. PacketsInv => EnvelopeKept
  <2> DEFINE packets == PacketsOf(job)
             records == job.records
             n == Len(job.records)
             M == {job.records[i] : i \in DOMAIN job.records}
             got == ReceiveStream(registry, wire, job.on)
  <2> SUFFICES ASSUME PacketsInv, StreamOver, damage = "none",
                      \A i \in DOMAIN records : ReadableRecord(job, records[i], job.on),
                      job.batched => \A i \in DOMAIN packets : Len(packets[i]) < Radix,
                      job.batched \/ packets[1][1] \notin StreamMarks
               PROVE  IF job.batched /\ n >= Radix
                      THEN pc = "failed" /\ messages = <<>>
                      ELSE pc = "done" /\ messages = records
    BY DEF EnvelopeKept
  <2>1. IsStream(job) /\ Consistent(registry)
    BY DEF PacketsInv, JobInv, StreamOver, IsCall, IsRecovery
  <2>2. /\ wire = Carried(job) /\ messages = got.messages
        /\ pc = IF got.ok THEN "done" ELSE "failed"
    BY DEF PacketsInv, StreamInv, StreamOver
  <2>3. /\ packets \in Seq(Seq(Bytes)) /\ Len(packets) = n
        /\ n \in Nat \ {0} /\ DOMAIN job.records = 1 .. n
        /\ \A i \in 1 .. n :
              Sendable(records[i], job.omit) /\ packets[i] = PacketOf(job, records[i])
    BY <2>1, PacketsMade
  <2>4. records \in Seq(M)
    BY <2>1 DEF IsStream
  <2>5. ASSUME NEW i \in 1 .. n PROVE Receive(registry, packets[i], job.on) = {records[i]}
    <3>1. Sendable(records[i], job.omit) /\ packets[i] = PacketOf(job, records[i])
          /\ ReadableRecord(job, records[i], job.on)
      BY <2>3
    <3> DEFINE m == records[i]
               q == packets[i]
    <3> HIDE DEF m, q
    <3>2. q \in Send(registry, m.name, m.payload, job.omit)
      BY <2>1, <3>1, PacketMade DEF m, q
    <3>3. Readable(m, q, job.on)
      BY <3>1 DEF m, q, ReadableRecord, Readable
    <3>4. Sendable(m, job.omit)
      BY <3>1 DEF m
    <3>5. Receive(registry, q, job.on) = {m}
      BY <2>1, <3>2, <3>3, <3>4, RecordReceived
    <3> QED
      BY <3>5 DEF m, q
  <2>6. Out(job)[1] \notin {CrcMark, ControlMark, DeltaMark}
    <3>1. CASE job.batched
      BY <2>3, <3>1, BatchLaid, BatchMarkApart DEF Out
    <3>2. CASE ~job.batched
      BY <3>2 DEF Out, StreamMarks
    <3> QED
      BY <3>1, <3>2
  <2>7. got = Dispatch(registry, Out(job), job.on)
    <3>1. Out(job)[1] # CrcMark
      BY <2>6
    <3> QED
      BY <2>1, <2>2, <3>1, CarriedOver
  <2>8. Decoding(registry, packets, job.on) = Handed(records)
    <3> DEFINE on == job.on
    <3> HIDE DEF packets, records, M, n, on
    <3>1. Yield(registry, packets, on, records)
      BY <2>3, <2>5 DEF Yield, n, records, on
    <3>2. Decoding(registry, packets, on) = Handed(records)
      BY <2>3, <2>4, <3>1, DecodingAll
    <3> QED
      BY <3>2 DEF on
  <2> DEFINE all == Handed(records)
             data == Out(job)
  <2>9. got = IF job.batched /\ n >= Radix THEN Refused ELSE all
    <3>1. CASE job.batched
      <4>1. data = BatchOf(packets) /\ data[1] = BatchMark
        BY <2>3, <3>1, BatchLaid DEF Out
      <4>2. \A i \in 1 .. Len(packets) : Len(packets[i]) < Radix
        BY <2>3, <3>1
      <4>3. Expand(data) = IF n < Radix THEN {packets} ELSE {}
        <5> HIDE DEF packets
        <5>1. Expand(BatchOf(packets)) = IF Len(packets) < Radix THEN {packets} ELSE {}
          BY <2>3, <4>2, BatchTaken
        <5> QED
          BY <2>3, <4>1, <5>1
      <4> HIDE DEF data, packets
      <4>4. Dispatch(registry, data, job.on)
               = IF Expand(data) = {} THEN Refused
                 ELSE Decoding(registry, CHOOSE q \in Expand(data) : TRUE, job.on)
        BY <2>6, <4>1 DEF Dispatch, data
      <4>5. n < Radix <=> ~(n >= Radix)
        BY <2>3, RadixLarge
      <4>6. CASE n < Radix
        <5>1. Expand(data) = {packets} /\ (CHOOSE q \in Expand(data) : TRUE) = packets
          BY <4>3, <4>6
        <5> QED
          BY <2>7, <2>8, <3>1, <4>4, <4>5, <4>6, <5>1 DEF data
      <4>7. CASE ~(n < Radix)
        BY <2>7, <3>1, <4>3, <4>4, <4>5, <4>7 DEF data
      <4> QED
        BY <4>6, <4>7
    <3>2. CASE ~job.batched
      <4>1. n = 1
        BY <2>1, <3>2 DEF IsStream
      <4>2. packets = <<data>>
        BY <2>3, <3>2, <4>1 DEF Out
      <4>3. data[1] \notin StreamMarks
        BY <3>2 DEF Out
      <4> HIDE DEF data, packets
      <4>4. Dispatch(registry, data, job.on) = Decoding(registry, <<data>>, job.on)
        BY <4>3 DEF Dispatch, StreamMarks
      <4> QED
        BY <2>7, <2>8, <3>2, <4>2, <4>4 DEF data
    <3> QED
      BY <3>1, <3>2
  <2>10. Refused.messages = <<>> /\ ~Refused.ok /\ all.ok /\ all.messages = records
    BY DEF Refused, Handed
  <2> HIDE DEF got, all
  <2> QED
    BY <2>2, <2>9, <2>10
<1> QED
  BY <1>1, PacketsAlways, PTL

-----------------------------------------------------------------------------
(* A packet in a stream with noise *)

\* A walk over what starts with a packet without its zeros, up to the bitmap.
LEMMA BitmapThere ==
    ASSUME NEW sch, Shaped(sch), NEW values, Typed(sch, values), Writable(values), NEW q,
           Packs(sch, values, Encode(sch, values), q), q # Encode(sch, values),
           NEW data \in Seq(Bytes), Len(q) <= Len(data),
           \A k \in 1 .. Len(q) : data[k] = q[k], NEW bounded
    PROVE  /\ IsOptimized(data) /\ HasBitmap(sch, data)
           /\ WalkOptimized(sch, data, bounded) =
                 Walk(sch, data, 3 + BitmapSize(sch), bounded, Zeroed(sch, Pieces(sch, values)))
<1> DEFINE p == Encode(sch, values)
           parts == Pieces(sch, values)
           size == BitmapSize(sch)
           zero == Zeroed(sch, parts)
<1>1. /\ size \in Bytes /\ q = Shortened(sch, p, parts) /\ HasBitmap(sch, q) /\ IsOptimized(q)
  BY Forms
<1>2. p \in Seq(Bytes) /\ Len(p) >= 1
  <2>1. p \in Seq(Bytes) /\ Len(p) >= 2
    BY EncodedLaid
  <2> QED
    BY <2>1
<1>3. parts \in Seq(Seq(Bytes)) /\ Len(parts) = Len(sch.fields)
  BY PiecesType
<1> HIDE DEF p, parts
<1>4. q \in Seq(Bytes) /\ SubSeq(q, 4, 3 + size) = BitmapOf(sch, zero)
  BY <1>1, <1>2, <1>3, ShortenedLaid
<1>5. size \in Nat /\ Len(q) \in Nat /\ Len(data) \in Nat /\ Len(q) <= Len(data)
      /\ 3 + size <= Len(q) /\ 3 <= Len(q) /\ 3 + size \in Nat
      /\ \A k \in 1 .. Len(q) : data[k] = q[k]
  BY <1>1, <1>4, BitmapPlaces DEF HasBitmap, Shaped
<1> HIDE DEF size, zero
<1>6. IsOptimized(data) /\ HasBitmap(sch, data)
  <2>1. 2 \in 1 .. Len(q) /\ 3 \in 1 .. Len(q)
    BY <1>5
  <2>2. data[2] = q[2] /\ data[3] = q[3]
    BY <1>5, <2>1
  <2>3. q[2] = OmitMark /\ q[3] = BitmapSize(sch)
    BY <1>1 DEF IsOptimized, HasBitmap
  <2>4. Len(data) >= 2 /\ Len(data) >= 3 /\ Len(data) >= 3 + size
    BY <1>5
  <2> QED
    BY <2>2, <2>3, <2>4 DEF IsOptimized, HasBitmap, size
<1>7. SubSeq(data, 4, 3 + size) = SubSeq(q, 4, 3 + size)
  <2>1. 3 \in Nat /\ 3 <= 3 + size /\ 3 + 1 = 4 /\ 3 + size <= Len(data)
    BY <1>5
  <2>2. /\ SubSeq(data, 3 + 1, 3 + size) \in Seq(Bytes)
        /\ Len(SubSeq(data, 3 + 1, 3 + size)) = (3 + size) - 3
        /\ \A i \in 1 .. (3 + size) - 3 : SubSeq(data, 3 + 1, 3 + size)[i] = data[3 + i]
    BY <1>5, <2>1, Slicing
  <2>3. /\ SubSeq(q, 3 + 1, 3 + size) \in Seq(Bytes)
        /\ Len(SubSeq(q, 3 + 1, 3 + size)) = (3 + size) - 3
        /\ \A i \in 1 .. (3 + size) - 3 : SubSeq(q, 3 + 1, 3 + size)[i] = q[3 + i]
    <3> DEFINE b == 3 + size
    <3>1. q \in Seq(Bytes) /\ b \in Nat /\ 3 \in Nat /\ 3 <= b /\ b <= Len(q)
      BY <1>4, <1>5, <2>1
    <3> HIDE DEF b
    <3>2. /\ SubSeq(q, 3 + 1, b) \in Seq(Bytes) /\ Len(SubSeq(q, 3 + 1, b)) = b - 3
          /\ \A i \in 1 .. b - 3 : SubSeq(q, 3 + 1, b)[i] = q[3 + i]
      BY <3>1, Slicing
    <3> QED
      BY <3>2 DEF b
  <2>4. \A i \in 1 .. (3 + size) - 3 : data[3 + i] = q[3 + i]
    BY <1>5
  <2> DEFINE u == SubSeq(data, 3 + 1, 3 + size)
             v == SubSeq(q, 3 + 1, 3 + size)
  <2>5. u \in Seq(Bytes) /\ v \in Seq(Bytes) /\ Len(u) = Len(v) /\ \A i \in 1 .. Len(u) : u[i] = v[i]
    BY <2>2, <2>3, <2>4
  <2> HIDE DEF u, v
  <2>6. u = v
    BY <2>5, SeqEqual
  <2> QED
    BY <2>1, <2>6 DEF u, v
<1>8. {i \in Fixed(sch) : BitSet(SubSeq(data, 4, 3 + size), i)} = zero
  <2>1. \A i \in 1 .. Len(sch.fields) : BitSet(BitmapOf(sch, zero), i) <=> i \in zero
    BY BitmapRead DEF Shaped
  <2>2. zero \subseteq Fixed(sch) /\ Fixed(sch) \subseteq 1 .. Len(sch.fields)
    BY DEF zero, Zeroed, Fixed, Shaped
  <2> QED
    BY <1>4, <1>7, <2>1, <2>2
<1>9. WalkOptimized(sch, data, bounded) = Walk(sch, data, 3 + size, bounded, zero)
  BY <1>8 DEF WalkOptimized, size
<1> QED
  BY <1>6, <1>9 DEF size, zero, parts

\* The synchronizer measures the packet of a record as its encoder made it,
\* whatever follows it, and takes it.
LEMMA MeasuredThere ==
    ASSUME NEW sch, Shaped(sch), NEW values, Typed(sch, values), Within(sch, values),
           Writable(values), NEW q, q \in Seq(Bytes), Len(q) >= 2, q[1] = sch.id,
           Packs(sch, values, Encode(sch, values), q), ~Mistaken(Encode(sch, values), q),
           NEW data \in Seq(Bytes), Len(q) <= Len(data),
           \A k \in 1 .. Len(q) : data[k] = q[k]
    PROVE  Measured(sch, data) = {Len(q)} /\ Valid(sch, q)
<1> DEFINE p == Encode(sch, values)
           tight == TRUE
           L == Len(sch.fields)
<1>0. Len(q) \in Nat /\ Len(data) \in Nat
  OBVIOUS
<1>1. p \in Seq(Bytes) /\ Len(p) >= 1 /\ Check(sch, p)
  <2>1. p \in Seq(Bytes) /\ Len(p) >= 2
    BY EncodedLaid
  <2>2. Check(sch, p)
    BY PlainReads
  <2> QED
    BY <2>1, <2>2
<1>2. PICK c : /\ Cuts(c, sch, p, 1, tight, {}) /\ c[L] = Len(p)
               /\ KeptAt(c, sch, p, {}) = Pieces(sch, values)
  <2>1. PICK c : Laid(c, 1, Pieces(sch, values), p)
    BY EncodedLaid
  <2>2. /\ Cuts(c, sch, p, 1, TRUE, {}) /\ c[L] = Len(p)
        /\ KeptAt(c, sch, p, {}) = Pieces(sch, values)
    BY <2>1, EncodedCuts
  <2> QED
    BY <2>2
<1>3. CASE q = p
  <2>1. ~IsOptimized(q)
    BY <1>3 DEF Mistaken
  <2>2. ~IsOptimized(data)
    <3>1. 2 \in 1 .. Len(q)
      BY <1>0
    <3>2. data[2] = q[2] /\ Len(q) >= 2
      BY <3>1
    <3> QED
      BY <2>1, <3>2 DEF IsOptimized
  <2>3. Valid(sch, q)
    <3>1. Deoptimize(sch, q).ok /\ Deoptimize(sch, q).packet = q
      BY <2>1 DEF Deoptimize
    <3> QED
      BY <1>1, <1>3, <3>1 DEF Valid
  <2> HIDE DEF p, tight
  <2>4. Cuts(c, sch, data, 1, tight, {})
    <3>1. /\ Len(p) \in Nat /\ 1 <= Len(p) /\ Len(p) <= Len(data)
          /\ \A k \in 1 .. Len(p) : data[k] = p[k]
      BY <1>0, <1>1, <1>3
    <3> QED
      BY <1>0, <1>2, <3>1, CutsExtend
  <2>5. WalkedAt(Walk(sch, data, 1, tight, {}), c, sch, data, {})
    BY <2>4, CutsWalk
  <2>6. Walk(sch, data, 1, TRUE, {}).ok /\ Walk(sch, data, 1, TRUE, {}).at = Len(q)
    BY <1>2, <1>3, <2>5 DEF WalkedAt, tight
  <2>7. Measured(sch, data) = {Len(q)}
    BY <2>2, <2>6 DEF Measured
  <2> QED
    BY <2>3, <2>7
<1>4. CASE q # p
  <2> DEFINE parts == Pieces(sch, values)
             zero == Zeroed(sch, parts)
             start == 3 + BitmapSize(sch)
  <2>1. /\ BitmapSize(sch) \in Bytes /\ q = Shortened(sch, p, parts)
        /\ Deoptimize(sch, q).ok /\ Deoptimize(sch, q).packet = p /\ HasBitmap(sch, q)
    BY <1>4, Forms
  <2>2. Valid(sch, q)
    BY <1>1, <2>1 DEF Valid
  <2>3. /\ IsOptimized(data) /\ HasBitmap(sch, data)
        /\ WalkOptimized(sch, data, TRUE) = Walk(sch, data, start, TRUE, zero)
    BY <1>4, BitmapThere
  <2>4. start \in Nat /\ start <= Len(q)
    <3>1. BitmapSize(sch) \in Nat
      BY BitmapPlaces DEF Shaped
    <3> QED
      BY <1>0, <2>1, <3>1 DEF HasBitmap
  <2> HIDE DEF p, parts, tight
  <2>5. PICK d : Cuts(d, sch, q, start, tight, zero) /\ d[L] = Len(q)
    <3>1. parts = KeptAt(c, sch, p, {})
      BY <1>2 DEF parts
    <3>2. PICK d : /\ Cuts(d, sch, Shortened(sch, p, parts), 3 + BitmapSize(sch), tight,
                            Zeroed(sch, parts))
                   /\ d[L] = Len(Shortened(sch, p, parts))
      BY <1>1, <1>2, <2>1, <3>1, ShortCuts
    <3> QED
      BY <2>1, <3>2
  <2> HIDE DEF zero, start
  <2>6. Cuts(d, sch, data, start, tight, zero)
    BY <1>0, <2>4, <2>5, CutsExtend
  <2>7. WalkedAt(Walk(sch, data, start, tight, zero), d, sch, data, zero)
    BY <2>4, <2>6, CutsWalk
  <2>8. WalkOptimized(sch, data, TRUE).ok /\ WalkOptimized(sch, data, TRUE).at = Len(q)
    BY <2>3, <2>5, <2>7 DEF WalkedAt, tight, start, zero
  <2>9. Measured(sch, data) = {Len(q)}
    BY <2>3, <2>8 DEF Measured
  <2> QED
    BY <2>2, <2>9
<1> QED
  BY <1>3, <1>4

\* Where the packet of a record starts, the synchronizer finds it.
LEMMA FoundPacket ==
    ASSUME Consistent(registry), NEW omit, NEW m, Sendable(m, omit),
           NEW q \in Send(registry, m.name, m.payload, omit), Readable(m, q, TRUE),
           NEW data \in Seq(Bytes), NEW o \in Nat, o + Len(q) <= Len(data),
           \A k \in 1 .. Len(q) : data[o + k] = q[k]
    PROVE  PacketsAt(registry, data, o) = {q}
<1>1. PICK sch : \E values : Carries(m, q, sch, values)
  BY SentCarries
<1>2. PICK values : Carries(m, q, sch, values)
  BY <1>1
<1>3. Writable(values) /\ ~Mistaken(Encode(sch, values), q)
  BY <1>2 DEF Readable, Carries, Clear
<1>4. /\ Shaped(sch) /\ Typed(sch, values) /\ Within(sch, values)
      /\ Packs(sch, values, Encode(sch, values), q)
      /\ q \in Seq(Bytes) /\ Len(q) >= 2 /\ q[1] = sch.id /\ ById(registry, sch.id) = {sch}
  BY <1>2 DEF Carries
<1> DEFINE rest == From(data, o)
<1>5. Len(q) \in Nat /\ Len(data) \in Nat /\ o \in 0 .. Len(data)
  BY <1>4
<1>6. /\ rest \in Seq(Bytes) /\ Len(rest) = Len(data) - o
      /\ \A i \in 1 .. Len(data) - o : rest[i] = data[o + i]
  BY <1>5, RestOf
<1> HIDE DEF rest
<1>7. Len(q) <= Len(rest) /\ \A k \in 1 .. Len(q) : rest[k] = q[k]
  <2>1. Len(q) <= Len(rest)
    BY <1>5, <1>6
  <2>2. \A k \in 1 .. Len(q) : k \in 1 .. Len(data) - o
    BY <1>5
  <2> QED
    BY <1>6, <2>1, <2>2
<1>8. Measured(sch, rest) = {Len(q)} /\ Valid(sch, q)
  BY <1>3, <1>4, <1>6, <1>7, MeasuredThere
<1>9. SubSeq(data, o + 1, o + Len(q)) = q
  <2> DEFINE to == o + Len(q)
  <2>1. to \in Nat /\ to = o + Len(q) /\ to <= Len(data)
    BY <1>5
  <2> HIDE DEF to
  <2>2. SubSeq(data, o + 1, to) = q
    BY <1>4, <2>1, ReadBack
  <2> QED
    BY <2>2 DEF to
<1>10. data[o + 1] = sch.id
  <2>1. 1 \in 1 .. Len(q)
    BY <1>4, <1>5
  <2> QED
    BY <1>4, <2>1
<1> QED
  <2> DEFINE TakenOf(s) == {p \in {SubSeq(data, o + 1, o + n) : n \in Measured(s, From(data, o))} :
                              Valid(s, p)}
  <2>1. TakenOf(sch) = {q}
    BY <1>8, <1>9 DEF rest
  <2>2. PacketsAt(registry, data, o) = UNION {TakenOf(s) : s \in ById(registry, data[o + 1])}
    BY DEF PacketsAt
  <2>3. ById(registry, data[o + 1]) = {sch}
    BY <1>4, <1>10
  <2> HIDE DEF TakenOf
  <2> QED
    BY <2>1, <2>2, <2>3

-----------------------------------------------------------------------------
(* Noise without a message id *)

\* The packets among the pieces of a stream, each as a list of one.
Marks == [i \in 1 .. Len(job.pieces) |->
             IF IsPacket(job.pieces[i]) THEN <<job.pieces[i]>> ELSE <<>>]

LEMMA SentLaid ==
    ASSUME IsRecovery(job)
    PROVE  /\ Sent \in Seq({job.pieces[i] : i \in DOMAIN job.pieces})
           /\ \E e : Layout(e, Marks, Sent)
<1> DEFINE S == {job.pieces[i] : i \in DOMAIN job.pieces}
<1>1. job.pieces \in Seq(S)
  BY DEF IsRecovery
<1>2. DOMAIN job.pieces = 1 .. Len(job.pieces) /\ Len(job.pieces) \in Nat
      /\ \A i \in 1 .. Len(job.pieces) : job.pieces[i] \in S
  <2> HIDE DEF S
  <2> QED
    BY <1>1
<1>3. Sent = FlattenSeq(Marks)
  BY <1>2 DEF Sent, Marks
<1> HIDE DEF S
<1>4. Marks \in Seq(Seq(S))
  <2>1. \A i \in 1 .. Len(job.pieces) :
           (IF IsPacket(job.pieces[i]) THEN <<job.pieces[i]>> ELSE <<>>) \in Seq(S)
    BY <1>2
  <2> QED
    BY <1>2, <2>1 DEF Marks
<1>5. FlattenSeq(Marks) \in Seq(S) /\ \E e : Layout(e, Marks, FlattenSeq(Marks))
  BY <1>4, Flattened
<1> QED
  BY <1>3, <1>5 DEF S

\* Where the pieces of the stream end, in c, and how many packets there are up
\* to each, in e.
Placed(c, e) ==
    /\ Rising(c, Len(job.pieces)) /\ c[0] = 0 /\ c[Len(job.pieces)] = Len(Stream)
    /\ \A i \in 1 .. Len(job.pieces) :
          /\ c[i] = c[i - 1] + Len(PieceBytes(job.pieces[i]))
          /\ \A k \in 1 .. Len(PieceBytes(job.pieces[i])) :
                Stream[c[i - 1] + k] = PieceBytes(job.pieces[i])[k]
    /\ Rising(e, Len(job.pieces)) /\ e[0] = 0 /\ e[Len(job.pieces)] = Len(Sent)
    /\ \A i \in 1 .. Len(job.pieces) :
          IF IsPacket(job.pieces[i]) THEN e[i] = e[i - 1] + 1 /\ Sent[e[i]] = job.pieces[i]
          ELSE e[i] = e[i - 1]

LEMMA PlacedThere ==
    ASSUME Consistent(registry), IsRecovery(job)
    PROVE  \E c, e : Placed(c, e)
<1> DEFINE n == Len(job.pieces)
<1>1. /\ StreamPieces \in Seq(Seq(Bytes)) /\ Len(StreamPieces) = n /\ n \in Nat
      /\ DOMAIN job.pieces = 1 .. n
  BY StreamLaid
<1>2. PICK c : Layout(c, StreamPieces, Stream)
  BY StreamLaid
<1>3. PICK e : Layout(e, Marks, Sent)
  BY SentLaid
<1> DEFINE S == {job.pieces[i] : i \in DOMAIN job.pieces}
<1>4. \A i \in 1 .. n : job.pieces[i] \in S
  BY <1>1
<1> HIDE DEF S
<1>5. Marks \in Seq(Seq(S)) /\ Len(Marks) = n
  <2>1. \A i \in 1 .. n : (IF IsPacket(job.pieces[i]) THEN <<job.pieces[i]>> ELSE <<>>) \in Seq(S)
    BY <1>4
  <2> QED
    BY <1>1, <2>1 DEF Marks
<1>6. Rising(c, n) /\ c[0] = 0 /\ c[n] = Len(Stream)
  <2>1. Rising(c, Len(StreamPieces))
    BY <1>1, <1>2, LayoutRises
  <2> QED
    BY <1>1, <1>2, <2>1 DEF Layout
<1>7. Rising(e, n) /\ e[0] = 0 /\ e[n] = Len(Sent)
  <2>1. Rising(e, Len(Marks))
    BY <1>3, <1>5, LayoutRises
  <2> QED
    BY <1>3, <1>5, <2>1 DEF Layout
<1>8. ASSUME NEW i \in 1 .. n
      PROVE  /\ c[i] = c[i - 1] + Len(PieceBytes(job.pieces[i]))
             /\ \A k \in 1 .. Len(PieceBytes(job.pieces[i])) :
                   Stream[c[i - 1] + k] = PieceBytes(job.pieces[i])[k]
  <2>1. StreamPieces[i] = PieceBytes(job.pieces[i])
    BY DEF StreamPieces
  <2> QED
    BY <1>1, <1>2, <2>1 DEF Layout
<1>9. ASSUME NEW i \in 1 .. n
      PROVE  IF IsPacket(job.pieces[i]) THEN e[i] = e[i - 1] + 1 /\ Sent[e[i]] = job.pieces[i]
             ELSE e[i] = e[i - 1]
  <2>1. /\ e[i] = e[i - 1] + Len(Marks[i])
        /\ \A k \in 1 .. Len(Marks[i]) : Sent[e[i - 1] + k] = Marks[i][k]
    BY <1>3, <1>5 DEF Layout
  <2>2. e[i - 1] \in Nat /\ e[i] \in Nat
    <3>1. i \in 0 .. n /\ i - 1 \in 0 .. n
      BY <1>1
    <3> QED
      BY <1>7, <3>1 DEF Rising
  <2>3. CASE IsPacket(job.pieces[i])
    <3>1. Marks[i] = <<job.pieces[i]>>
      BY <2>3 DEF Marks
    <3>2. Len(Marks[i]) = 1 /\ Marks[i][1] = job.pieces[i] /\ 1 \in 1 .. Len(Marks[i])
      BY <3>1
    <3>3. e[i] = e[i - 1] + 1 /\ Sent[e[i - 1] + 1] = job.pieces[i]
      BY <2>1, <3>2
    <3> QED
      BY <2>3, <3>3
  <2>4. CASE ~IsPacket(job.pieces[i])
    <3>1. Marks[i] = <<>> /\ Len(Marks[i]) = 0
      BY <2>4 DEF Marks
    <3> QED
      BY <2>1, <2>2, <2>4, <3>1
  <2> QED
    BY <2>3, <2>4
<1> QED
  BY <1>6, <1>7, <1>8, <1>9 DEF Placed

\* Nothing but noise from behind piece i to the end of piece h.
NoiseOnly(i, h) == \A g \in i + 1 .. h : ~IsPacket(job.pieces[g])

LEMMA NoiseAt ==
    ASSUME Consistent(registry), IsRecovery(job), NEW c, NEW e, Placed(c, e),
           \A g \in DOMAIN job.pieces : Quiet(job.pieces[g]),
           NEW i \in 0 .. Len(job.pieces), NEW h \in i .. Len(job.pieces), NoiseOnly(i, h),
           NEW x \in Nat, c[i] < x, x <= c[h]
    PROVE  ById(registry, Stream[x]) = {}
<1> DEFINE n == Len(job.pieces)
<1>1. n \in Nat /\ DOMAIN job.pieces = 1 .. n /\ i \in 0 .. n /\ h \in 0 .. n
      /\ 0 \in 0 .. n /\ n \in 0 .. n /\ i <= h
  BY StreamLaid
<1>2. Rising(c, n) /\ c[0] = 0
  BY DEF Placed
<1>3. \A k \in 0 .. n : c[k] \in Nat
  BY <1>2 DEF Rising
<1>4. c[0] <= c[i] /\ c[h] <= c[n]
  <2>1. c[0] <= c[i]
    BY <1>1, <1>2, RisingFar
  <2>2. c[h] <= c[n]
    BY <1>1, <1>2, RisingFar
  <2> QED
    BY <2>1, <2>2
<1>5. c[0] < x /\ x <= c[n]
  BY <1>1, <1>3, <1>4
<1>6. PICK g \in 1 .. n : c[g - 1] < x /\ x <= c[g]
  BY <1>1, <1>2, <1>5, Located
<1>7. g \in 0 .. n /\ g - 1 \in 0 .. n
  BY <1>1
<1>8. g \in i + 1 .. h
  <2>1. ~(g <= i)
    <3>1. g <= i => c[g] <= c[i]
      BY <1>1, <1>2, <1>7, RisingFar
    <3>2. c[g] \in Nat /\ c[i] \in Nat
      BY <1>1, <1>3, <1>7
    <3> QED
      BY <1>6, <3>1, <3>2
  <2>2. ~(h <= g - 1)
    <3>1. h <= g - 1 => c[h] <= c[g - 1]
      BY <1>1, <1>2, <1>7, RisingFar
    <3>2. c[h] \in Nat /\ c[g - 1] \in Nat
      BY <1>1, <1>3, <1>7
    <3> QED
      BY <1>6, <3>1, <3>2
  <2> HIDE DEF n
  <2> QED
    BY <1>1, <1>7, <2>1, <2>2
<1>9. ~IsPacket(job.pieces[g]) /\ Quiet(job.pieces[g])
  BY <1>1, <1>8 DEF NoiseOnly
<1> DEFINE noise == PieceBytes(job.pieces[g])
           k == x - c[g - 1]
<1>10. noise = job.pieces[g].noise /\ noise \in Seq(Bytes)
  BY <1>1, <1>9 DEF PieceBytes, IsRecovery
<1>11. /\ c[g] = c[g - 1] + Len(noise)
       /\ \A y \in 1 .. Len(noise) : Stream[c[g - 1] + y] = noise[y]
  BY DEF Placed
<1> HIDE DEF noise
<1>12. k \in 1 .. Len(noise) /\ c[g - 1] + k = x
  <2>1. c[g - 1] \in Nat /\ c[g] \in Nat /\ Len(noise) \in Nat
    BY <1>3, <1>7, <1>10
  <2> QED
    BY <1>6, <1>11, <2>1
<1>13. Stream[x] = noise[k] /\ k \in DOMAIN noise
  BY <1>10, <1>11, <1>12
<1> HIDE DEF k
<1> QED
  BY <1>9, <1>10, <1>13 DEF Quiet

\* No packet is counted in noise.
LEMMA CountSame ==
    ASSUME IsRecovery(job), Len(job.pieces) \in Nat, NEW c, NEW e, Placed(c, e),
           NEW i \in 0 .. Len(job.pieces), NEW h \in i .. Len(job.pieces), NoiseOnly(i, h)
    PROVE  e[h] = e[i]
<1> DEFINE n == Len(job.pieces)
           m == h - i
           G == {k \in 0 .. m : e[i + k] = e[i]}
<1>1. m \in Nat /\ i + m = h /\ i + 0 = i
  OBVIOUS
<1>2. 0 \in G
  BY <1>1
<1>3. \A k \in 0 .. m - 1 : k \in G => k + 1 \in G
  <2> TAKE k \in 0 .. m - 1
  <2> DEFINE g == i + (k + 1)
  <2>1. g \in i + 1 .. h /\ g \in 1 .. n /\ g - 1 = i + k /\ k + 1 \in 0 .. m
    OBVIOUS
  <2> HIDE DEF g, m, n
  <2>2. e[g] = e[g - 1]
    BY <2>1 DEF Placed, NoiseOnly, n
  <2> QED
    BY <2>1, <2>2 DEF g
<1> HIDE DEF G, m
<1>4. \A k \in 0 .. m : k \in G
  BY <1>1, <1>2, <1>3, Reaches
<1>5. e[i + m] = e[i]
  BY <1>1, <1>4 DEF G
<1> QED
  BY <1>1, <1>5

\* Where the scan is in the stream, and the bytes from there.
LEMMA FromThere ==
    ASSUME Consistent(registry), IsRecovery(job), NEW c, NEW e, Placed(c, e),
           NEW i \in 0 .. Len(job.pieces)
    PROVE  /\ Stream \in Seq(Bytes) /\ Len(job.pieces) \in Nat /\ Len(Stream) \in Nat
           /\ \A g \in 0 .. Len(job.pieces) : c[g] \in Nat /\ c[g] <= Len(Stream)
           /\ \A g \in i .. Len(job.pieces) : c[i] <= c[g]
           /\ From(Stream, c[i]) \in Seq(Bytes) /\ Len(From(Stream, c[i])) = Len(Stream) - c[i]
           /\ \A k \in 1 .. Len(Stream) - c[i] : From(Stream, c[i])[k] = Stream[c[i] + k]
<1> DEFINE n == Len(job.pieces)
<1>1. n \in Nat /\ Stream \in Seq(Bytes) /\ Len(Stream) \in Nat
  <2>1. n \in Nat /\ Stream \in Seq(Bytes)
    BY StreamLaid
  <2> QED
    BY <2>1
<1>2. Rising(c, n) /\ c[n] = Len(Stream)
  BY DEF Placed
<1>3. \A g \in 0 .. n : c[g] \in Nat
  BY <1>2 DEF Rising
<1>4. \A g \in 0 .. n : c[g] <= c[n]
  <2>1. n \in 0 .. n /\ \A g \in 0 .. n : g <= n
    BY <1>1
  <2> QED
    BY <1>1, <1>2, <2>1, RisingFar
<1>5. \A g \in i .. n : c[i] <= c[g]
  <2>1. \A g \in i .. n : g \in 0 .. n /\ i <= g
    BY <1>1
  <2> QED
    BY <1>1, <1>2, <2>1, RisingFar
<1>6. c[i] \in 0 .. Len(Stream)
  BY <1>1, <1>2, <1>3, <1>4
<1>7. /\ From(Stream, c[i]) \in Seq(Bytes) /\ Len(From(Stream, c[i])) = Len(Stream) - c[i]
      /\ \A k \in 1 .. Len(Stream) - c[i] : From(Stream, c[i])[k] = Stream[c[i] + k]
  BY <1>1, <1>6, RestOf
<1> QED
  BY <1>1, <1>2, <1>3, <1>4, <1>5, <1>7

\* No packet is found before the end of the noise that comes next.
LEMMA NotBefore ==
    ASSUME Consistent(registry), IsRecovery(job), NEW c, NEW e, Placed(c, e),
           \A g \in DOMAIN job.pieces : Quiet(job.pieces[g]),
           NEW i \in 0 .. Len(job.pieces), NEW h \in i .. Len(job.pieces), NoiseOnly(i, h),
           NEW o \in Offsets(registry, From(Stream, c[i]))
    PROVE  c[i] + o >= c[h]
<1> DEFINE data == From(Stream, c[i])
<1>1. /\ Len(Stream) \in Nat /\ c[i] \in Nat /\ c[h] \in Nat /\ c[h] <= Len(Stream)
      /\ Len(data) = Len(Stream) - c[i]
      /\ \A k \in 1 .. Len(Stream) - c[i] : data[k] = Stream[c[i] + k]
  <2>1. h \in 0 .. Len(job.pieces)
    BY FromThere
  <2> QED
    BY <2>1, FromThere
<1> HIDE DEF data
<1>2. o \in 0 .. Len(data) - 1 /\ PacketsAt(registry, data, o) # {}
  BY DEF Offsets, data
<1>3. SUFFICES ASSUME c[i] + o < c[h] PROVE FALSE
  BY <1>1, <1>2
<1> DEFINE x == c[i] + (o + 1)
<1>4. x \in Nat /\ c[i] < x /\ x <= c[h] /\ o + 1 \in 1 .. Len(Stream) - c[i]
  <2> DEFINE a == c[i]
             b == c[h]
             n == Len(Stream)
  <2>1. /\ n \in Nat /\ a \in Nat /\ b \in Nat /\ b <= n /\ a + o < b
        /\ o \in 0 .. (n - a) - 1 /\ x = a + (o + 1)
    BY <1>1, <1>2, <1>3
  <2> HIDE DEF x, a, b, n
  <2>2. x \in Nat /\ a < x /\ x <= b /\ o + 1 \in 1 .. n - a
    BY <2>1
  <2> QED
    BY <2>2 DEF a, b, n
<1>5. data[o + 1] = Stream[x]
  BY <1>1, <1>4
<1> HIDE DEF x
<1>6. ById(registry, data[o + 1]) = {}
  BY <1>4, <1>5, NoiseAt
<1> QED
  BY <1>2, <1>6 DEF PacketsAt

\* With nothing but noise ahead nothing more is found.
LEMMA NothingAhead ==
    ASSUME Consistent(registry), IsRecovery(job), NEW c, NEW e, Placed(c, e),
           \A g \in DOMAIN job.pieces : Quiet(job.pieces[g]),
           NEW i \in 0 .. Len(job.pieces), NoiseOnly(i, Len(job.pieces))
    PROVE  Offsets(registry, From(Stream, c[i])) = {}
<1> SUFFICES ASSUME NEW o \in Offsets(registry, From(Stream, c[i])) PROVE FALSE
  OBVIOUS
<1> DEFINE n == Len(job.pieces)
<1>1. /\ n \in Nat /\ Len(Stream) \in Nat /\ c[i] \in Nat
      /\ Len(From(Stream, c[i])) = Len(Stream) - c[i]
  BY FromThere
<1>2. n \in i .. n /\ c[n] = Len(Stream)
  BY <1>1 DEF Placed
<1>3. c[i] + o >= c[n]
  BY <1>2, NotBefore
<1>4. o \in 0 .. (Len(Stream) - c[i]) - 1
  BY <1>1 DEF Offsets
<1> QED
  BY <1>1, <1>2, <1>3, <1>4

\* The next packet among the pieces, and where it is in the rest of the stream.
AheadAt(c, i, h, q, data) ==
    /\ c[h - 1] \in Nat /\ c[i] \in Nat /\ Len(q) \in Nat /\ c[h] = c[h - 1] + Len(q)
    /\ c[i] <= c[h - 1] /\ Offsets(registry, data) \subseteq Int
    /\ c[h - 1] - c[i] \in Offsets(registry, data)
    /\ PacketsAt(registry, data, c[h - 1] - c[i]) = {q}

LEMMA PacketAhead ==
    ASSUME Consistent(registry), IsRecovery(job), NEW c, NEW e, Placed(c, e),
           NEW i \in 0 .. Len(job.pieces), NEW h \in i + 1 .. Len(job.pieces),
           NEW m, m = job.pieces[h], IsPacket(m), Readable(m, PacketOf(job, m), TRUE)
    PROVE  AheadAt(c, i, h, PacketOf(job, m), From(Stream, c[i]))
<1> DEFINE data == From(Stream, c[i])
           q == PacketOf(job, m)
           t == c[h - 1] - c[i]
<1>1. h - 1 \in i .. Len(job.pieces) /\ h - 1 \in 0 .. Len(job.pieces)
      /\ h \in 1 .. Len(job.pieces) /\ h \in 0 .. Len(job.pieces)
  <2>1. Len(job.pieces) \in Nat
    BY FromThere
  <2> QED
    BY <2>1
<1>2. /\ Len(Stream) \in Nat /\ c[i] \in Nat /\ c[h] \in Nat /\ c[h] <= Len(Stream)
      /\ c[h - 1] \in Nat /\ c[i] <= c[h - 1]
      /\ data \in Seq(Bytes) /\ Len(data) = Len(Stream) - c[i]
      /\ \A k \in 1 .. Len(Stream) - c[i] : data[k] = Stream[c[i] + k]
  BY <1>1, FromThere
<1>3. Sendable(m, job.omit)
  <2>1. h \in DOMAIN job.pieces
    BY <1>1, StreamLaid
  <2> QED
    BY <2>1 DEF IsRecovery
<1>4. /\ q \in Send(registry, m.name, m.payload, job.omit) /\ q \in Seq(Bytes) /\ Len(q) >= 2
      /\ Len(q) \in Nat
  <2>1. /\ q \in Send(registry, m.name, m.payload, job.omit) /\ q \in Seq(Bytes) /\ Len(q) >= 2
    BY <1>3, PacketMade
  <2> QED
    BY <2>1
<1>5. c[h] = c[h - 1] + Len(q) /\ \A k \in 1 .. Len(q) : Stream[c[h - 1] + k] = q[k]
  <2>1. PieceBytes(job.pieces[h]) = q
    BY DEF PieceBytes
  <2> QED
    BY <1>1, <2>1 DEF Placed
<1> HIDE DEF data, q
<1> DEFINE a == c[i]
           b == c[h - 1]
           l == Len(q)
           n == Len(Stream)
<1>6. t \in Nat /\ b = a + t /\ a \in Nat /\ b \in Nat /\ l \in Nat /\ l >= 2
      /\ n \in Nat /\ a + t + l <= n /\ Len(data) = n - a
  <2> DEFINE d == c[h]
  <2>1. /\ n \in Nat /\ a \in Nat /\ b \in Nat /\ a <= b /\ d \in Nat /\ d <= n
        /\ l \in Nat /\ l >= 2 /\ d = b + l /\ Len(data) = n - a /\ t = b - a
    BY <1>2, <1>4, <1>5
  <2> HIDE DEF a, b, d, l, n, t
  <2> QED
    BY <2>1
<1>7. \A k \in 1 .. l : Stream[b + k] = q[k]
  BY <1>5
<1>8. \A k \in 1 .. n - a : data[k] = Stream[a + k]
  BY <1>2
<1> HIDE DEF a, b, l, n, t
<1>9. t + l <= Len(data) /\ t \in 0 .. Len(data) - 1
  BY <1>6
<1>10. ASSUME NEW k \in 1 .. l PROVE data[t + k] = q[k]
  <2>1. t + k \in 1 .. n - a /\ a + (t + k) = b + k
    BY <1>6
  <2>2. data[t + k] = Stream[a + (t + k)]
    BY <1>8, <2>1
  <2> QED
    BY <1>7, <2>1, <2>2
<1>11. PacketsAt(registry, data, t) = {q}
  <2>1. Readable(m, q, TRUE)
    BY DEF q
  <2>2. t + Len(q) <= Len(data) /\ \A k \in 1 .. Len(q) : data[t + k] = q[k]
    BY <1>9, <1>10 DEF l
  <2> QED
    BY <1>2, <1>3, <1>4, <1>6, <2>1, <2>2, FoundPacket
<1>12. t \in Offsets(registry, data) /\ Offsets(registry, data) \subseteq Int
  <2>1. PacketsAt(registry, data, t) # {}
    BY <1>11
  <2>2. t \in Offsets(registry, data)
    BY <1>9, <2>1 DEF Offsets
  <2>3. ASSUME NEW o \in Offsets(registry, data) PROVE o \in Int
    <3>1. o \in 0 .. Len(data) - 1
      BY DEF Offsets
    <3> QED
      BY <3>1
  <2> QED
    BY <2>2, <2>3
<1> QED
  BY <1>2, <1>4, <1>5, <1>11, <1>12 DEF AheadAt, t, data, q

\* Unless there is only noise ahead there is a next packet, and it is the next
\* of those that were sent.
IsNext(e, i, h) ==
    /\ h \in i + 1 .. Len(job.pieces) /\ h \in 0 .. Len(job.pieces)
    /\ IsPacket(job.pieces[h]) /\ NoiseOnly(i, h - 1)
    /\ e[h] = e[i] + 1 /\ e[h] \in 1 .. Len(Sent) /\ Sent[e[h]] = job.pieces[h]

LEMMA NextThere ==
    ASSUME Consistent(registry), IsRecovery(job), NEW c, NEW e, Placed(c, e),
           NEW i \in 0 .. Len(job.pieces), ~NoiseOnly(i, Len(job.pieces))
    PROVE  \E h : IsNext(e, i, h)
<1> DEFINE n == Len(job.pieces)
           T == {h \in i + 1 .. n : IsPacket(job.pieces[h])}
<1>1. n \in Nat /\ i \in Nat
  BY FromThere
<1>2. T # {} /\ T \subseteq Nat
  BY <1>1 DEF NoiseOnly
<1> HIDE DEF T
<1>3. PICK h \in T : \A y \in T : h <= y
  BY <1>2, Smallest
<1>4. h \in i + 1 .. n /\ IsPacket(job.pieces[h])
  BY DEF T
<1> HIDE DEF n
<1>5. h \in 0 .. n /\ h \in 1 .. n /\ h - 1 \in i .. n /\ h - 1 \in 0 .. n /\ i \in 0 .. n
  <2>1. i \in 0 .. n
    BY DEF n
  <2> QED
    BY <1>1, <1>4, <2>1
<1>6. NoiseOnly(i, h - 1)
  <2> SUFFICES ASSUME NEW g \in i + 1 .. h - 1, IsPacket(job.pieces[g]) PROVE FALSE
    BY DEF NoiseOnly
  <2>1. g \in i + 1 .. n /\ ~(h <= g)
    BY <1>1, <1>4
  <2>2. g \in T
    BY <2>1 DEF T
  <2> QED
    BY <1>3, <2>1, <2>2
<1>7. e[h - 1] = e[i]
  BY <1>5, <1>6, CountSame DEF n
<1>8. e[h] = e[h - 1] + 1 /\ Sent[e[h]] = job.pieces[h]
  BY <1>4, <1>5 DEF Placed, n
<1>9. e[h] \in 1 .. Len(Sent)
  <2>1. Rising(e, n) /\ e[n] = Len(Sent)
    BY DEF Placed, n
  <2>2. e[h - 1] \in Nat /\ e[n] \in Nat
    BY <1>1, <1>5, <2>1 DEF Rising
  <2>3. e[h] <= e[n]
    <3>1. n \in 0 .. n /\ h <= n
      BY <1>1, <1>4
    <3> QED
      BY <1>1, <1>5, <2>1, <3>1, RisingFar
  <2> QED
    BY <1>8, <2>1, <2>2, <2>3
<1>10. IsNext(e, i, h)
  BY <1>4, <1>5, <1>6, <1>7, <1>8, <1>9 DEF IsNext, n
<1> QED
  BY <1>10

\* The next packet among the pieces is the next that is found.
Meets(c, i, h, o, p) ==
    p = PacketOf(job, job.pieces[h]) /\ c[i] + o + Len(p) = c[h]

LEMMA NextAhead ==
    ASSUME Consistent(registry), IsRecovery(job), NEW c, NEW e, Placed(c, e),
           \A g \in DOMAIN job.pieces : Quiet(job.pieces[g]),
           NEW i \in 0 .. Len(job.pieces), NEW h, IsNext(e, i, h),
           Readable(job.pieces[h], PacketOf(job, job.pieces[h]), TRUE),
           NEW o, NEW p, IsFirst(o, p, From(Stream, c[i]))
    PROVE  Meets(c, i, h, o, p)
<1> DEFINE m == job.pieces[h]
           data == From(Stream, c[i])
           q == PacketOf(job, m)
           t == c[h - 1] - c[i]
<1>0. h \in i + 1 .. Len(job.pieces) /\ IsPacket(m) /\ NoiseOnly(i, h - 1)
  BY DEF IsNext
<1>1. AheadAt(c, i, h, q, data)
  BY <1>0, PacketAhead
<1>2. h - 1 \in i .. Len(job.pieces)
  <2>1. Len(job.pieces) \in Nat
    BY FromThere
  <2> QED
    BY <1>0, <2>1
<1>3. o \in Offsets(registry, data) /\ p \in PacketsAt(registry, data, o)
      /\ \A x \in Offsets(registry, data) : o <= x
  BY DEF IsFirst
<1>4. c[i] + o >= c[h - 1]
  BY <1>0, <1>2, <1>3, NotBefore
<1> HIDE DEF data, q, m
<1>5. o <= t /\ PacketsAt(registry, data, t) = {q}
  BY <1>1, <1>3 DEF AheadAt
<1>6. /\ o \in Int /\ c[i] \in Nat /\ c[h - 1] \in Nat /\ Len(q) \in Nat
      /\ c[h] = c[h - 1] + Len(q)
  BY <1>1, <1>3 DEF AheadAt
<1>7. o = t
  BY <1>4, <1>5, <1>6
<1> HIDE DEF t
<1>8. p = q
  BY <1>3, <1>5, <1>7
<1>9. c[i] + o + Len(q) = c[h]
  BY <1>6, <1>7 DEF t
<1> QED
  BY <1>8, <1>9 DEF q, m, Meets

\* Behind the first k packets that were found are the first k that were sent,
\* and nothing else but noise.
Matched(c, e, k) ==
    /\ \E i \in 0 .. Len(job.pieces) : e[i] = k /\ Behind(k) = c[i]
    /\ k > 0 => /\ k <= Len(Sent) /\ Sendable(Sent[k], job.omit)
                /\ found[k].packet = PacketOf(job, Sent[k])

LEMMA MatchedNext ==
    ASSUME Consistent(registry), IsRecovery(job), FoundInv, NEW c, NEW e, Placed(c, e),
           \A g \in DOMAIN job.pieces : Quiet(job.pieces[g]),
           \A x \in 1 .. Len(Sent) : Readable(Sent[x], PacketOf(job, Sent[x]), TRUE),
           NEW k \in 0 .. Len(found) - 1, Matched(c, e, k)
    PROVE  Matched(c, e, k + 1)
<1> DEFINE n == Len(job.pieces)
           u == k + 1
           o == found[u].skipped
           p == found[u].packet
<1>1. PICK i \in 0 .. n : e[i] = k /\ Behind(k) = c[i]
  BY DEF Matched
<1>2. u \in 1 .. Len(found) /\ u - 1 = k /\ u # 0 /\ u > 0 /\ u \in Nat
  <2>1. Len(found) \in Nat
    BY DEF FoundInv
  <2> QED
    BY <2>1
<1> HIDE DEF u
<1>3. found[u].offset = c[i] + o /\ IsFirst(o, p, From(Stream, c[i]))
  BY <1>1, <1>2 DEF FoundInv
<1>4. Behind(u) = c[i] + o + Len(p)
  BY <1>2, <1>3 DEF Behind
<1> HIDE DEF o, p
<1>5. ~NoiseOnly(i, n)
  <2> SUFFICES ASSUME NoiseOnly(i, n) PROVE FALSE
    OBVIOUS
  <2>1. Offsets(registry, From(Stream, c[i])) = {}
    BY NothingAhead
  <2> QED
    BY <1>3, <2>1 DEF IsFirst
<1>6. PICK h : IsNext(e, i, h)
  BY <1>5, NextThere
<1> DEFINE m == job.pieces[h]
<1>7. /\ h \in i + 1 .. n /\ h \in 0 .. n /\ IsPacket(m) /\ NoiseOnly(i, h - 1)
      /\ e[h] = u /\ u <= Len(Sent) /\ Sent[u] = m /\ u \in 1 .. Len(Sent)
  <2>1. e[h] = u
    BY <1>1, <1>6 DEF IsNext, u
  <2>2. Len(Sent) \in Nat
    <3> DEFINE S == {job.pieces[g] : g \in DOMAIN job.pieces}
    <3>1. Sent \in Seq(S)
      BY SentLaid
    <3> HIDE DEF S
    <3> QED
      BY <3>1
  <2> QED
    BY <1>6, <2>1, <2>2 DEF IsNext
<1>8. Readable(m, PacketOf(job, m), TRUE) /\ Sendable(m, job.omit)
  <2>1. h \in DOMAIN job.pieces
    <3>1. n \in Nat /\ DOMAIN job.pieces = 1 .. n /\ i \in Nat
      BY StreamLaid
    <3> QED
      BY <1>7, <3>1
  <2> QED
    BY <1>7, <2>1 DEF IsRecovery
<1> HIDE DEF m
<1>9. p = PacketOf(job, m) /\ c[i] + o + Len(p) = c[h]
  <2>1. Readable(job.pieces[h], PacketOf(job, job.pieces[h]), TRUE)
    BY <1>8 DEF m
  <2>2. IsFirst(o, p, From(Stream, c[i]))
    BY <1>3
  <2>3. Meets(c, i, h, o, p)
    BY <1>6, <2>1, <2>2, NextAhead
  <2> QED
    BY <2>3 DEF Meets, m
<1>10. Matched(c, e, u)
  <2>1. h \in 0 .. Len(job.pieces) /\ e[h] = u /\ Behind(u) = c[h]
    BY <1>4, <1>7, <1>9
  <2>2. found[u].packet = PacketOf(job, Sent[u])
    BY <1>7, <1>9 DEF p
  <2> QED
    BY <1>7, <1>8, <2>1, <2>2 DEF Matched
<1> QED
  BY <1>10 DEF u

\* The packets found are the packets sent.
LEMMA FoundSent ==
    ASSUME Consistent(registry), IsRecovery(job), FoundInv, Scanned,
           \A g \in DOMAIN job.pieces : Quiet(job.pieces[g]),
           \A x \in 1 .. Len(Sent) : Readable(Sent[x], PacketOf(job, Sent[x]), TRUE)
    PROVE  /\ Len(found) = Len(Sent)
           /\ \A k \in 1 .. Len(found) :
                 Sendable(Sent[k], job.omit) /\ found[k].packet = PacketOf(job, Sent[k])
<1> DEFINE n == Len(job.pieces)
           N == Len(found)
<1>1. PICK c : \E e : Placed(c, e)
  BY PlacedThere
<1>2. PICK e : Placed(c, e)
  BY <1>1
<1> DEFINE G == {k \in 0 .. N : Matched(c, e, k)}
<1>3. n \in Nat /\ N \in Nat
  <2>1. N \in Nat
    BY DEF FoundInv
  <2> QED
    BY <2>1, StreamLaid
<1>4. 0 \in G
  <2>1. 0 \in 0 .. n /\ e[0] = 0 /\ c[0] = 0 /\ Behind(0) = 0
    BY <1>2, <1>3 DEF Placed, Behind
  <2>2. Matched(c, e, 0)
    BY <2>1 DEF Matched
  <2> QED
    BY <1>3, <2>2
<1>5. \A k \in 0 .. N - 1 : k \in G => k + 1 \in G
  <2> TAKE k \in 0 .. N - 1
  <2> HAVE k \in G
  <2>1. Matched(c, e, k + 1)
    BY <1>2, MatchedNext
  <2> QED
    BY <1>3, <2>1
<1> HIDE DEF G, N
<1>6. \A k \in 0 .. N : k \in G
  BY <1>3, <1>4, <1>5, Reaches
<1>7. \A k \in 0 .. N : Matched(c, e, k)
  BY <1>6 DEF G
<1>8. \A k \in 1 .. N :
         Sendable(Sent[k], job.omit) /\ found[k].packet = PacketOf(job, Sent[k])
  <2> TAKE k \in 1 .. N
  <2>1. k \in 0 .. N /\ k > 0
    BY <1>3
  <2> QED
    BY <1>7, <2>1 DEF Matched
<1>9. PICK i \in 0 .. n : e[i] = N /\ Behind(N) = c[i]
  <2>1. N \in 0 .. N
    BY <1>3
  <2> QED
    BY <1>7, <2>1 DEF Matched
<1>10. Offsets(registry, From(Stream, c[i])) = {}
  BY <1>9 DEF Scanned, N
<1>11. NoiseOnly(i, n)
  <2> SUFFICES ASSUME ~NoiseOnly(i, n) PROVE FALSE
    OBVIOUS
  <2>1. PICK h : IsNext(e, i, h)
    BY <1>2, NextThere
  <2> DEFINE m == job.pieces[h]
  <2>2. h \in i + 1 .. n /\ IsPacket(m) /\ Readable(m, PacketOf(job, m), TRUE)
    BY <2>1 DEF IsNext
  <2> HIDE DEF m
  <2>3. m = job.pieces[h]
    BY DEF m
  <2>4. AheadAt(c, i, h, PacketOf(job, m), From(Stream, c[i]))
    BY <1>2, <2>2, <2>3, PacketAhead
  <2> QED
    BY <1>10, <2>4 DEF AheadAt
<1>12. e[n] = e[i] /\ e[n] = Len(Sent)
  <2>1. n \in i .. n
    BY <1>3
  <2>2. e[n] = e[i]
    BY <1>2, <1>11, <2>1, CountSame
  <2> QED
    BY <1>2, <2>2 DEF Placed
<1> QED
  BY <1>8, <1>9, <1>12 DEF N

\* Noise in which no message id occurs costs no packet: receive_recovered_stream
\* hands over the records that were sent, once and in order, up to the limit.
THEOREM AlwaysNoiseCostsNothing == Spec => []NoiseCostsNothing
<1>1. PacketsInv => NoiseCostsNothing
  <2> DEFINE L == Len(Sent)
             M == Len(messages)
             S == {job.pieces[i] : i \in DOMAIN job.pieces}
             T == {messages[i] : i \in DOMAIN messages}
             R == [offset : Nat, skipped : Nat, packet : Seq(Bytes)]
  <2> SUFFICES ASSUME PacketsInv, Recovered, Sent # <<>>,
                      \A i \in DOMAIN job.pieces : Quiet(job.pieces[i]),
                      \A i \in DOMAIN Sent : \A on \in {job.on, TRUE} :
                         ReadableRecord(job, Sent[i], on)
               PROVE  pc = "done" /\ messages = SubSeq(Sent, 1, Min({L, Limit}))
    BY DEF NoiseCostsNothing
  <2>1. /\ Consistent(registry) /\ IsRecovery(job) /\ FoundInv /\ TakenInv /\ Scanned
        /\ pc \in {"failed", "done"} /\ (pc = "failed" => Stuck)
        /\ (pc = "done" => M = Len(found) \/ M = Limit)
    BY DEF PacketsInv, RecoveryInv, DecodedInv, JobInv, Recovered, IsCall, IsStream
  <2>2. Sent \in Seq(S)
    BY <2>1, SentLaid
  <2>3. messages \in Seq(T) /\ M <= Len(found) /\ M <= Limit
        /\ \A i \in 1 .. M : Receive(registry, found[i].packet, job.on) = {messages[i]}
    BY <2>1 DEF TakenInv
  <2>4. found \in Seq(R)
    BY <2>1 DEF FoundInv
  <2> HIDE DEF S, T, R
  <2>5. L \in Nat /\ L > 0 /\ DOMAIN Sent = 1 .. L /\ M \in Nat /\ Len(found) \in Nat
        /\ Limit \in Nat
    BY <2>2, <2>3, <2>4, LimitAssumption
  <2>6. \A k \in 1 .. L : /\ Readable(Sent[k], PacketOf(job, Sent[k]), TRUE)
                          /\ Readable(Sent[k], PacketOf(job, Sent[k]), job.on)
    <3> TAKE k \in 1 .. L
    <3>1. ReadableRecord(job, Sent[k], TRUE) /\ ReadableRecord(job, Sent[k], job.on)
      BY <2>5
    <3> QED
      BY <3>1 DEF ReadableRecord, Readable
  <2>7. /\ Len(found) = L
        /\ \A k \in 1 .. Len(found) :
              Sendable(Sent[k], job.omit) /\ found[k].packet = PacketOf(job, Sent[k])
    <3>1. \A x \in 1 .. Len(Sent) : Readable(Sent[x], PacketOf(job, Sent[x]), TRUE)
      BY <2>6
    <3> QED
      BY <2>1, <3>1, FoundSent
  <2>8. \A k \in 1 .. L : Receive(registry, found[k].packet, job.on) = {Sent[k]}
    <3> TAKE k \in 1 .. L
    <3> DEFINE m == Sent[k]
               q == PacketOf(job, m)
               omit == job.omit
               on == job.on
    <3>1. Sendable(m, omit) /\ found[k].packet = q /\ Readable(m, q, on)
      BY <2>6, <2>7
    <3>2. q \in Send(registry, m.name, m.payload, omit)
      BY <2>1, <3>1, PacketMade
    <3> HIDE DEF m, q, omit, on
    <3>3. Receive(registry, q, on) = {m}
      BY <2>1, <3>1, <3>2, RecordReceived
    <3> QED
      BY <3>1, <3>3 DEF m, on
  <2>9. pc = "done"
    <3> SUFFICES ASSUME pc = "failed" PROVE FALSE
      BY <2>1
    <3>1. found # <<>>
      BY <2>5, <2>7
    <3>2. /\ M < Len(found) /\ Receive(registry, found[M + 1].packet, job.on) = {}
      BY <2>1, <3>1 DEF Stuck, Upcoming
    <3>3. M + 1 \in 1 .. L
      BY <2>5, <2>7, <3>2
    <3> QED
      BY <2>8, <3>2, <3>3
  <2>10. M = Min({L, Limit})
    <3>1. M \in {L, Limit} /\ \A y \in {L, Limit} : M <= y
      BY <2>1, <2>3, <2>5, <2>7, <2>9
    <3>2. L \in Nat /\ Limit \in Nat /\ M \in Nat
      BY <2>5
    <3> HIDE DEF M, L
    <3>3. ASSUME NEW x \in {L, Limit}, \A y \in {L, Limit} : x <= y PROVE x = M
      <4>1. x <= M /\ M <= x /\ x \in Nat
        BY <3>1, <3>2, <3>3
      <4> QED
        BY <3>2, <4>1
    <3> QED
      BY <3>1, <3>3 DEF Min
  <2>11. messages = SubSeq(Sent, 1, M)
    <3> DEFINE u == SubSeq(Sent, 1, M)
    <3>1. M \in 0 .. L
      BY <2>3, <2>5, <2>7
    <3>2. u \in Seq(S) /\ Len(u) = M /\ \A k \in 1 .. M : u[k] = Sent[k]
      BY <2>2, <3>1, Grown
    <3> HIDE DEF u
    <3>3. \A k \in 1 .. M : messages[k] = u[k]
      <4> TAKE k \in 1 .. M
      <4>1. k \in 1 .. L
        BY <2>5, <3>1
      <4>2. {messages[k]} = {Sent[k]}
        BY <2>3, <2>8, <4>1
      <4> QED
        BY <3>2, <4>2
    <3>4. messages = u
      BY <2>3, <3>2, <3>3, SeqEqual
    <3> QED
      BY <3>4 DEF u
  <2> QED
    BY <2>9, <2>10, <2>11
<1> QED
  BY <1>1, PacketsAlways, PTL

=============================================================================
