---------------------------- MODULE MCFieldPaths ----------------------------
(* Every numeric type and pair of values of a machine with 2-, 4- and      *)
(* 6-bit integers, and schemas of a field of any type beside a string.     *)
EXTENDS FieldPaths

CONSTANTS hello, bye, field, note, other

TwoFields == {[n \in {field, note} |-> IF n = field THEN t ELSE [text |-> "string"]] :
                 t \in FieldTypes}

\* Integers beyond every type, decimals, texts; fields missing or too many.
Numbers == -(Word + 1) .. Word + 1
Jsons == {Integer(n) : n \in Numbers} \cup {Decimal(x) : x \in -5 .. 5}
           \cup {TextOf(k, hello) : k \in {"string", "bytes"}}

TriedObjects(sch) ==
    {[n \in {field, note} |-> IF n = field THEN j ELSE TextOf("string", s)] :
        j \in Jsons, s \in {hello, bye}}
    \cup {[n \in names |-> TextOf("string", hello)] :
             names \in {{}, {note}, {field, note, other}}}
=============================================================================
