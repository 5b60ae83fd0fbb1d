----------------------------- MODULE DeltaCodec -----------------------------
(***************************************************************************)
(* How a delta packet describes a record: a presence bitmap naming the     *)
(* fields that changed since the previous record, and for each of them     *)
(* either a signed difference (integers of 16 bits and more, when the      *)
(* difference fits) or the new value itself (strings, bytes, floats,       *)
(* one-byte integers, and integers whose difference does not fit).         *)
(*                                                                         *)
(* A payload is a function from field names to values.  The widths of the  *)
(* integer fields are folded into one number, Modulus; NumericDelta models  *)
(* the tags and the byte widths of one field on their own.                 *)
(***************************************************************************)
EXTENDS Integers, FiniteSets

CONSTANTS
    CounterFields,  \* integer fields that are sent as differences
    OtherFields,    \* fields that are sent whole when they change
    Modulus,        \* an integer field holds 0 .. Modulus - 1
    Texts           \* values of the other fields

ASSUME CodecAssumption ==
    /\ Modulus \in Nat \ {0}
    /\ CounterFields \cap OtherFields = {}
    /\ IsFiniteSet(CounterFields \cup OtherFields)

Fields == CounterFields \cup OtherFields

Payloads == {p \in [Fields -> (0 .. Modulus - 1) \cup Texts] :
                /\ \A f \in CounterFields : p[f] \in 0 .. Modulus - 1
                /\ \A f \in OtherFields : p[f] \in Texts}

\* The bitmap: the fields whose value differs between two records.
Changed(prev, cur) == {f \in Fields : prev[f] # cur[f]}

\* A difference is sent only when it fits the signed width of the field.
Fits(d) == -(Modulus \div 2) <= d /\ d <= (Modulus - 1) \div 2

FieldPatch(f, old, new) ==
    IF f \in CounterFields /\ Fits(new - old)
    THEN [how |-> "add", v |-> new - old]
    ELSE [how |-> "set", v |-> new]

Patch(prev, cur) ==
    [f \in Changed(prev, cur) |-> FieldPatch(f, prev[f], cur[f])]

\* The receiver adds in 64 bits and casts back to the width of the field.
PatchField(old, change) ==
    IF change.how = "add" THEN (old + change.v) % Modulus ELSE change.v

ApplyPatch(base, patch) ==
    [f \in Fields |-> IF f \in DOMAIN patch
                      THEN PatchField(base[f], patch[f])
                      ELSE base[f]]
=============================================================================
