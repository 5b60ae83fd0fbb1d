---------------------------- MODULE NumericDelta ----------------------------
(***************************************************************************)
(* One changed field inside a delta packet: write_numeric_delta picks the  *)
(* shortest form the value or its difference fits, read_numeric_delta      *)
(* rebuilds the value from the previous one.                               *)
(*                                                                         *)
(* Byte, Half and Word are how many values 8, 16 and 32 bits hold; the     *)
(* bytes of a number travel as its residue, so a form is a tag and a       *)
(* residue.  Floats travel whole, like the one-byte integers.              *)
(***************************************************************************)
EXTENDS Integers

CONSTANTS Byte, Half, Word

ASSUME WidthAssumption ==
    /\ Byte \in Nat \ {0} /\ Half \in Nat /\ Word \in Nat
    /\ Byte % 2 = 0 /\ Half % 2 = 0 /\ Word % 2 = 0
    /\ Byte < Half /\ Half < Word

\* The numeric field types: how many values, and whether they are signed.
Types == [width : {Byte, Half, Word}, signed : BOOLEAN]

Lowest(t) == IF t.signed THEN -(t.width \div 2) ELSE 0
NumbersOf(t) == Lowest(t) .. Lowest(t) + t.width - 1

\* Mutated form, of FitsIn: the range of a difference is one too wide.
FitsOneMore(w, d) == -(w \div 2) <= d /\ d <= w \div 2

\* fits_i8, fits_i16 and fits_i32.
FitsIn(w, d) == -(w \div 2) <= d /\ d < w \div 2

\* sign_extend: the signed number whose residue modulo w is r.
SignExtend(w, r) == IF r < w \div 2 THEN r ELSE r - w

\* The cast of a 64-bit number to a field type.
Cast(t, x) == ((x - Lowest(t)) % t.width) + Lowest(t)

-----------------------------------------------------------------------------
\* The forms a field can take: "delta" stands for the tags 0, 1 and 2, which
\* differ in the width of the residue; "raw" for tag 3 and the untagged forms.
Form(how, w, x) == [how |-> how, width |-> w, residue |-> x % w]

\* The widths a difference may use: a tag per width up to that of the field.
DeltaWidths(t) == {w \in {Byte, Half, Word} : w <= t.width /\ t.width # Byte}

Shortest(t, d) ==
    CHOOSE w \in DeltaWidths(t) :
        /\ FitsIn(w, d)
        /\ \A v \in DeltaWidths(t) : FitsIn(v, d) => w <= v

WriteDelta(t, prev, cur) ==
    LET d == cur - prev
    IN  IF \E w \in DeltaWidths(t) : FitsIn(w, d)
        THEN Form("delta", Shortest(t, d), d)
        ELSE Form("raw", t.width, cur)

ReadDelta(t, prev, f) ==
    IF f.how = "raw" THEN Cast(t, f.residue)
                     ELSE Cast(t, prev + SignExtend(f.width, f.residue))
=============================================================================
