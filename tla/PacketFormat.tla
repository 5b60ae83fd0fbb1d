---------------------------- MODULE PacketFormat ----------------------------
(***************************************************************************)
(* The layout of a packet: how a record is encoded, how zero fields are    *)
(* left out, how a packet is checked, and how one is found in a stream of  *)
(* bytes.  Encoder, optimizer, synchronizer, corruption detector and       *)
(* decoder each walk over the fields in their own code; they only work     *)
(* together if they agree on where each field ends.                        *)
(*                                                                         *)
(* A byte has Bits bits.  A 16-bit integer of the format (message id,      *)
(* length, dictionary id) is one byte here too: all five walks treat its   *)
(* two bytes as a unit.                                                    *)
(***************************************************************************)
EXTENDS SchemaRegistry

CONSTANTS
    Bits,      \* bits of a byte
    OmitMark   \* third byte of a packet without its zero fields, 0xFD

PowerOfTwo[k \in 0 .. Bits] == IF k = 0 THEN 1 ELSE 2 * PowerOfTwo[k - 1]

Radix == PowerOfTwo[Bits]
Bytes == 0 .. Radix - 1
RefMark == Radix - 1   \* the length that announces a dictionary id, 0xFFFF

ASSUME FormatAssumption ==
    /\ Bits \in Nat \ {0, 1}
    /\ OmitMark \in Bytes \ {RefMark}
    /\ \A def \in Definitions : def.id \in Bytes

\* The value of a field: bytes of its own, or a string named by its id in
\* the dictionary.
Own(kind, bytes) == [kind |-> kind, ref |-> FALSE, bytes |-> bytes]
Reference(id) == [kind |-> "string", ref |-> TRUE, bytes |-> <<id>>]

\* A byte as the set of its bits that are 1.
BitsOf(byte) ==
    LET shifted[b \in 0 .. Bits] == IF b = 0 THEN byte ELSE shifted[b - 1] \div 2
    IN  {b \in 0 .. Bits - 1 : shifted[b] % 2 = 1}

ByteOf(bits) == CHOOSE byte \in Bytes : BitsOf(byte) = bits

-----------------------------------------------------------------------------
(* Encoding *)

EncodeField(f, v) ==
    IF f.kind = "fixed" THEN v.bytes
    ELSE IF v.ref THEN <<RefMark, v.bytes[1]>>
    ELSE <<Len(v.bytes) % Radix>> \o v.bytes

Encode(sch, values) ==
    <<sch.id>> \o FlattenSeq([i \in DOMAIN sch.fields |->
                                 EncodeField(sch.fields[i], values[i])])

-----------------------------------------------------------------------------
(* Walking over the fields *)

\* The bytes that field f takes after the first `at` bytes of data: one
\* number, or none if they are not all there or, for a bounded walk, if the
\* declared length exceeds the field's.
Span(f, data, at, bounded) ==
    {n \in 1 .. Len(data) - at :
        IF f.kind = "fixed" THEN n = f.size
        ELSE IF f.kind = "string" /\ data[at + 1] = RefMark THEN n = 2
        ELSE n = 1 + data[at + 1] /\ (bounded => data[at + 1] <= f.size)}

Zeros(f) == [i \in 1 .. f.size |-> 0]

\* What has been read once field f is behind as well; r is what had been
\* before.  A field that is left out is one of zeros.
Onward(r, f, data, bounded) ==
    LET spans == Span(f, data, r.at, bounded)
        n == CHOOSE n \in spans : TRUE
    IN  IF ~r.ok \/ spans = {} THEN [ok |-> FALSE, at |-> r.at, parts |-> r.parts]
        ELSE [ok |-> TRUE, at |-> r.at + n,
              parts |-> Append(r.parts, SubSeq(data, r.at + 1, r.at + n))]

LeftOut(r, f) == [ok |-> r.ok, at |-> r.at, parts |-> Append(r.parts, Zeros(f))]

\* All fields in turn, those in `omitted` without a byte.
Walk(sch, data, start, bounded, omitted) ==
    LET after[i \in 0 .. Len(sch.fields)] ==
            IF i = 0 THEN [ok |-> TRUE, at |-> start, parts |-> <<>>]
            ELSE IF i \in omitted THEN LeftOut(after[i - 1], sch.fields[i])
            ELSE Onward(after[i - 1], sch.fields[i], data, bounded)
    IN  after[Len(sch.fields)]

Complete(w, data) == w.ok /\ w.at = Len(data)

-----------------------------------------------------------------------------
(* RuntimeOptimizer: a field of zeros is a bit of a bitmap *)

Fixed(sch) == {i \in DOMAIN sch.fields : sch.fields[i].kind = "fixed"}

BitmapSize(sch) == (Len(sch.fields) + Bits - 1) \div Bits

BitmapOf(sch, set) ==
    [k \in 1 .. BitmapSize(sch) |->
        ByteOf({b \in 0 .. Bits - 1 : (k - 1) * Bits + b + 1 \in set})]

\* Mutated form, of BitSet: the highest bit stands for the first field.
BitFromTop(bitmap, i) ==
    (Bits - 1) - ((i - 1) % Bits) \in BitsOf(bitmap[(i - 1) \div Bits + 1])

BitSet(bitmap, i) == (i - 1) % Bits \in BitsOf(bitmap[(i - 1) \div Bits + 1])

\* The size of a bitmap is a byte.
MostFields == (Radix - 1) * Bits

\* The packet as it is if leaving the zeros out makes it no shorter.
Optimize(sch, p) ==
    LET w == Walk(sch, p, 1, FALSE, {})
        zero == {i \in Fixed(sch) : w.parts[i] = Zeros(sch.fields[i])}
        kept == [i \in DOMAIN w.parts |-> IF i \in zero THEN <<>> ELSE w.parts[i]]
        candidate == <<p[1], OmitMark, BitmapSize(sch)>> \o BitmapOf(sch, zero)
                        \o FlattenSeq(kept)
    IN  IF Len(sch.fields) > MostFields \/ ~Complete(w, p)
        THEN [ok |-> FALSE, applied |-> FALSE, packet |-> p]
        ELSE IF Len(candidate) >= Len(p)
        THEN [ok |-> TRUE, applied |-> FALSE, packet |-> p]
        ELSE [ok |-> TRUE, applied |-> TRUE, packet |-> candidate]

IsOptimized(p) == Len(p) >= 2 /\ p[2] = OmitMark

HasBitmap(sch, p) ==
    /\ Len(p) >= 3
    /\ p[3] = BitmapSize(sch)
    /\ Len(p) >= 3 + BitmapSize(sch)

\* The walk over a packet that has a bitmap; bits of other fields are ignored.
WalkOptimized(sch, p, bounded) ==
    LET bitmap == SubSeq(p, 4, 3 + BitmapSize(sch))
    IN  Walk(sch, p, 3 + BitmapSize(sch), bounded,
             {i \in Fixed(sch) : BitSet(bitmap, i)})

Deoptimize(sch, p) ==
    IF ~IsOptimized(p) THEN [ok |-> TRUE, packet |-> p]
    ELSE IF ~HasBitmap(sch, p) THEN [ok |-> FALSE, packet |-> p]
    ELSE LET w == WalkOptimized(sch, p, FALSE)
         IN  [ok |-> Complete(w, p), packet |-> <<p[1]>> \o FlattenSeq(w.parts)]

-----------------------------------------------------------------------------
(* CorruptionDetector::check_keydrop_packet *)

Check(sch, p) ==
    /\ Len(p) >= 1
    /\ p[1] = sch.id
    /\ Complete(Walk(sch, p, 1, TRUE, {}), p)

-----------------------------------------------------------------------------
(* PacketSynchronizer *)

\* The length of the packet of schema sch that data starts with, if any.
Measured(sch, data) ==
    LET w == IF IsOptimized(data) THEN WalkOptimized(sch, data, TRUE)
                                  ELSE Walk(sch, data, 1, TRUE, {})
    IN  IF IsOptimized(data) /\ ~HasBitmap(sch, data) THEN {}
        ELSE {n \in {w.at} : w.ok}

Valid(sch, p) ==
    LET plain == Deoptimize(sch, p)
    IN  plain.ok /\ Check(sch, plain.packet)

From(data, o) == SubSeq(data, o + 1, Len(data))

\* Mutated form, of PacketsAt: the marker is not recognised and what was
\* measured is not checked.
PacketsUnchecked(reg, data, o) ==
    UNION {{SubSeq(data, o + 1, o + w.at) :
               w \in {v \in {Walk(sch, From(data, o), 1, FALSE, {})} : v.ok}} :
           sch \in ById(reg, data[o + 1])}

\* The packet at offset o of data: one, or none.
PacketsAt(reg, data, o) ==
    UNION {{p \in {SubSeq(data, o + 1, o + n) : n \in Measured(sch, From(data, o))} :
               Valid(sch, p)} :
           sch \in ById(reg, data[o + 1])}

\* recover_next_packet tries every offset in turn.
Offsets(reg, data) == {o \in 0 .. Len(data) - 1 : PacketsAt(reg, data, o) # {}}
=============================================================================
