--------------------------- MODULE StreamEnvelope ---------------------------
(***************************************************************************)
(* What send_stream and flush_stream put around packets and receive_stream *)
(* takes off again: a batch of several, and a wrapper with a CRC.  The     *)
(* register of the CRC is the set of its bits that are 1, so that an       *)
(* exclusive or is a symmetric difference.                                 *)
(***************************************************************************)
EXTENDS PacketCalls

CONSTANTS
    CrcMark, ControlMark, DeltaMark, \* the other first bytes, 0xF9 to 0xFB
    CrcBytes,                        \* bytes of a CRC, 4
    Poly                             \* the bits of 0xEDB88320

CrcBits == 0 .. CrcBytes * Bits - 1
StreamMarks == {CrcMark, ControlMark, DeltaMark, BatchMark}

ASSUME EnvelopeAssumption ==
    /\ StreamMarks \subseteq Bytes /\ Cardinality(StreamMarks) = 4
    /\ CrcBytes \in Nat \ {0}
    /\ Poly \subseteq CrcBits /\ CrcBytes * Bits - 1 \in Poly

-----------------------------------------------------------------------------
(* crc32_range *)

Shift(crc) ==
    LET right == {b - 1 : b \in crc \ {0}}
    IN  IF 0 \in crc THEN SymDiff(right, Poly) ELSE right

\* The register after one more byte, bit by bit.
Mixed(crc, byte) ==
    LET after[k \in 0 .. Bits] ==
            IF k = 0 THEN SymDiff(crc, BitsOf(byte)) ELSE Shift(after[k - 1])
    IN  after[Bits]

\* What a byte does to every value the register may have.
Mixing(byte) == [crc \in SUBSET CrcBits |-> Mixed(crc, byte)]

Register(data) ==
    LET after[n \in 0 .. Len(data)] ==
            IF n = 0 THEN CrcBits ELSE Mixing(data[n])[after[n - 1]]
    IN  after[Len(data)]

\* Mutated form, of Crc: the last byte is left out.
CrcShort(data) == CrcBits \ Register(Front(data))

Crc(data) == CrcBits \ Register(data)

\* The bytes of the wrapper, the lowest first.
CrcField(data) ==
    LET crc == Crc(data)
    IN  [k \in 1 .. CrcBytes |->
            ByteOf({b - (k - 1) * Bits : b \in crc \cap ((k - 1) * Bits .. k * Bits - 1)})]

Wrap(data) == <<CrcMark>> \o CrcField(data) \o data

\* What is in the wrapper, if the CRC is right; all of it, if there is none.
Unwrap(data) ==
    LET inner == SubSeq(data, CrcBytes + 2, Len(data))
    IN  IF data[1] # CrcMark THEN {data}
        ELSE {w \in {inner} : Len(data) > CrcBytes
                              /\ SubSeq(data, 2, CrcBytes + 1) = CrcField(inner)}

-----------------------------------------------------------------------------
(* build_batch_packet and expand_incoming *)

\* The length of a part is one byte here, like every 16-bit integer.
BatchOf(packets) ==
    <<BatchMark, Len(packets) % Radix>>
        \o FlattenSeq([i \in DOMAIN packets |-> <<Len(packets[i]) % Radix>> \o packets[i]])

\* One part further, if it is all there.
NextPart(r, data) ==
    IF ~r.ok \/ r.at >= Len(data) \/ r.at + 1 + data[r.at + 1] > Len(data)
    THEN [ok |-> FALSE, at |-> r.at, parts |-> r.parts]
    ELSE [ok |-> TRUE, at |-> r.at + 1 + data[r.at + 1],
          parts |-> Append(r.parts, SubSeq(data, r.at + 2, r.at + 1 + data[r.at + 1]))]

\* The parts that a batch announces, one after the other.
Parts(data) ==
    LET after[i \in 0 .. data[2]] ==
            IF i = 0 THEN [ok |-> TRUE, at |-> 2, parts |-> <<>>]
                     ELSE NextPart(after[i - 1], data)
    IN  after[data[2]]

\* Mutated form, of Expand: what follows the last part is not looked at.
ExpandFront(data) ==
    IF Len(data) < 2 \/ ~Parts(data).ok THEN {} ELSE {Parts(data).parts}

\* The parts of a batch, if they take up exactly what is there.
Expand(data) ==
    IF Len(data) < 2 \/ ~Complete(Parts(data), data) THEN {} ELSE {Parts(data).parts}

-----------------------------------------------------------------------------
(* receive_stream, at a receiver that has no base for a delta *)

DecodeOne(reg, r, packet, on) ==
    LET got == IF r.ok THEN Receive(reg, packet, on) ELSE {}
    IN  [ok |-> got # {}, messages |-> r.messages \o SetToSeq(got)]

\* Packets are decoded in turn, up to the first that is refused.
Decoding(reg, packets, on) ==
    LET after[i \in 0 .. Len(packets)] ==
            IF i = 0 THEN [ok |-> TRUE, messages |-> <<>>]
                     ELSE DecodeOne(reg, after[i - 1], packets[i], on)
    IN  after[Len(packets)]

Refused == [ok |-> FALSE, messages |-> <<>>]

Dispatch(reg, data, on) ==
    CASE data[1] = ControlMark -> [ok |-> TRUE, messages |-> <<>>]
      [] data[1] = DeltaMark -> Refused
      [] data[1] = BatchMark -> IF Expand(data) = {} THEN Refused
                                ELSE Decoding(reg, CHOOSE q \in Expand(data) : TRUE, on)
      [] OTHER -> Decoding(reg, <<data>>, on)

ReceiveStream(reg, data, on) ==
    IF data = <<>> \/ Unwrap(data) = {} THEN Refused
    ELSE Dispatch(reg, CHOOSE w \in Unwrap(data) : TRUE, on)
=============================================================================
