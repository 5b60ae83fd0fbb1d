---------------------------- MODULE PacketCalls ----------------------------
(***************************************************************************)
(* The calls of SchemaRuntime that make one packet or take one apart: by   *)
(* name or in order, checked or fast.  Each returns its result in a set    *)
(* that is empty when the call fails.                                      *)
(***************************************************************************)
EXTENDS PacketFormat

CONSTANTS
    BatchMark,  \* first byte of a batch
    Sends,      \* the strings in the sender's dictionary: ids and lengths
    Known       \* those in the receiver's

ASSUME DictionaryAssumption ==
    \A dictionary \in {Sends, Known} :
        /\ dictionary \in [DOMAIN dictionary -> Nat]
        /\ DOMAIN dictionary \subseteq Bytes

\* What a field can be given; a reference is to a string of the sender's.
Value ==
    {v \in [kind : Kinds, ref : BOOLEAN, bytes : Seq(Bytes)] :
        v.ref => v.kind = "string" /\ Len(v.bytes) = 1 /\ v.bytes[1] \in DOMAIN Sends}

-----------------------------------------------------------------------------
(* FieldMapper and validate_payload_values *)

HasType(f, v) == v.kind = f.kind /\ (f.kind = "fixed" => Len(v.bytes) = f.size)

\* Every field is there with its type, and nothing else is.
Maps(sch, payload) ==
    /\ \A i \in DOMAIN sch.fields : sch.fields[i].name \in DOMAIN payload
    /\ \A i \in DOMAIN sch.fields : HasType(sch.fields[i], payload[sch.fields[i].name])
    /\ Cardinality(DOMAIN payload) <= Len(sch.fields)

Ordered(sch, payload) == [i \in DOMAIN sch.fields |-> payload[sch.fields[i].name]]

Named(sch, values) ==
    [n \in {sch.fields[i].name : i \in DOMAIN sch.fields} |->
        values[CHOOSE i \in DOMAIN sch.fields : sch.fields[i].name = n]]

Length(v, dictionary) == IF v.ref THEN dictionary[v.bytes[1]] ELSE Len(v.bytes)

HasTypes(sch, values) ==
    /\ Len(values) = Len(sch.fields)
    /\ \A i \in DOMAIN values : HasType(sch.fields[i], values[i])

ValuesFit(sch, values, dictionary) ==
    /\ HasTypes(sch, values)
    /\ \A i \in DOMAIN values :
           sch.fields[i].kind # "fixed" => Length(values[i], dictionary) <= sch.fields[i].size

-----------------------------------------------------------------------------
(* Sending *)

\* encode_ordered_with_schema; omit says whether the optimizer is enabled.
Packed(sch, values, omit) ==
    LET p == Encode(sch, values)
        o == Optimize(sch, p)
    IN  IF ~ValuesFit(sch, values, Sends) THEN {}
        ELSE IF ~omit THEN {p}
        ELSE {q \in {o.packet} : o.ok}

SendOrdered(reg, name, values, omit) ==
    UNION {Packed(sch, values, omit) : sch \in ByName(reg, name)}

Send(reg, name, payload, omit) ==
    UNION {Packed(sch, Ordered(sch, payload), omit) :
              sch \in {s \in ByName(reg, name) : Maps(s, payload)}}

\* No dictionary, no optimizer and no greatest length; the values are Own.
FastEncode(reg, name, values) ==
    {Encode(sch, values) : sch \in {s \in ByName(reg, name) : HasTypes(s, values)}}

-----------------------------------------------------------------------------
(* Receiving; on says whether the receiver's optimizer is enabled *)

ValueOf(f, part) ==
    IF f.kind = "string" /\ part[1] = RefMark THEN Reference(part[2])
    ELSE Own(f.kind, IF f.kind = "fixed" THEN part ELSE Tail(part))

ValuesOf(sch, w) == [i \in DOMAIN w.parts |-> ValueOf(sch.fields[i], w.parts[i])]

Resolve(values) == \A i \in DOMAIN values :
                       values[i].ref => values[i].bytes[1] \in DOMAIN Known

\* The values read by a walk over the fields, if it came to its end.
Read(sch, w) == IF w.ok THEN {v \in {ValuesOf(sch, w)} : Resolve(v)} ELSE {}

\* The packet with its zero fields, if they can be put back.
Restored(sch, p, on) ==
    IF on THEN {d.packet : d \in {x \in {Deoptimize(sch, p)} : x.ok}} ELSE {p}

\* receive_with_schema
ReceiveWith(sch, p, on) ==
    LET plain == {q \in Restored(sch, p, on) : Check(sch, q)}
        read == UNION {Read(sch, Walk(sch, q, 1, FALSE, {})) : q \in plain}
    IN  {[name |-> sch.name, payload |-> Named(sch, values)] :
            values \in {v \in read : ValuesFit(sch, v, Known)}}

OfPacket(reg, p) == IF Len(p) >= 1 THEN ById(reg, p[1]) ELSE {}

Receive(reg, p, on) == UNION {ReceiveWith(sch, p, on) : sch \in OfPacket(reg, p)}

ReceiveAs(reg, name, p, on) ==
    UNION {ReceiveWith(sch, p, on) : sch \in OfPacket(reg, p) \cap ByName(reg, name)}

\* Neither checked nor bounded; bytes behind the last field are not read.
ReceiveOrdered(reg, p, on) ==
    UNION {{[name |-> sch.name, values |-> values] :
               values \in UNION {Read(sch, Walk(sch, q, 1, FALSE, {})) :
                                    q \in Restored(sch, p, on)}} :
           sch \in OfPacket(reg, p)}

FastWalk(sch, p) ==
    IF IsOptimized(p) THEN WalkOptimized(sch, p, FALSE) ELSE Walk(sch, p, 1, FALSE, {})

\* Mutated form, of FastRead: bytes behind the last field are not read.
FastReadFront(sch, p) ==
    IF IsOptimized(p) /\ ~HasBitmap(sch, p) THEN {} ELSE Read(sch, FastWalk(sch, p))

\* decode_plain and decode_optimized: the mark counts, whatever is enabled.
FastRead(sch, p) ==
    IF IsOptimized(p) /\ ~HasBitmap(sch, p) THEN {}
    ELSE IF ~Complete(FastWalk(sch, p), p) THEN {}
    ELSE Read(sch, FastWalk(sch, p))

FastDecode(reg, p) ==
    UNION {{[name |-> sch.name, values |-> values] : values \in FastRead(sch, p)} :
           sch \in {s \in OfPacket(reg, p) : p[1] # BatchMark}}
=============================================================================
