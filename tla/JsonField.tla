----------------------------- MODULE JsonField -----------------------------
(***************************************************************************)
(* The JSON side of a runtime: json_value_to_field_value and its inverse.  *)
(* A number is counted in halves, so that an integer n is the real 2 * n   *)
(* and decimals lie between the integers; a text may be any value.         *)
(* Integers that a double cannot hold are left out.                        *)
(***************************************************************************)
EXTENDS NumericDelta

CONSTANTS
    Grain   \* the distance of two neighbouring f32 values, in halves

ASSUME GrainAssumption == Grain \in Nat \ {0}

FloatTypes == [float : {"f32", "f64"}]
TextTypes == [text : {"string", "bytes"}]
FieldTypes == Types \cup FloatTypes \cup TextTypes

IsFloat(t) == "float" \in DOMAIN t
IsText(t) == "text" \in DOMAIN t

Integer(n) == [kind |-> "integer", v |-> n]
Decimal(x) == [kind |-> "decimal", v |-> x]
TextOf(kind, s) == [kind |-> kind, v |-> s]

IsJsonValue(j) ==
    \/ j.v \in Int /\ j \in {Integer(j.v), Decimal(j.v)}
    \/ \E kind \in {"string", "bytes"} : j = TextOf(kind, j.v)

\* The nearest number of single precision.
Single(x) == ((2 * x + Grain) \div (2 * Grain)) * Grain

Narrowed(t, x) == IF t.float = "f32" THEN Single(x) ELSE x

RealOf(j) == IF j.kind = "decimal" THEN j.v ELSE 2 * j.v

\* Mutated form, of Converts: the upper end of the range is one too high.
ConvertsOneMore(t, j) ==
    IF IsText(t) THEN j.kind = t.text
    ELSE IF IsFloat(t) THEN j.kind \in {"integer", "decimal"}
    ELSE j.kind = "integer" /\ Lowest(t) <= j.v /\ j.v <= Lowest(t) + t.width

Converts(t, j) ==
    IF IsText(t) THEN j.kind = t.text
    ELSE IF IsFloat(t) THEN j.kind \in {"integer", "decimal"}
    ELSE j.kind = "integer" /\ Lowest(t) <= j.v /\ j.v < Lowest(t) + t.width

\* The casts to the type of the field.
ToField(t, j) ==
    IF IsText(t) THEN j.v
    ELSE IF IsFloat(t) THEN Narrowed(t, RealOf(j))
    ELSE Cast(t, j.v)

ToJson(t, value) ==
    IF IsText(t) THEN TextOf(t.text, value)
    ELSE IF IsFloat(t) THEN Decimal(value)
    ELSE Integer(value)
=============================================================================
