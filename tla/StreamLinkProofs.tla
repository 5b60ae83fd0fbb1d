-------------------------- MODULE StreamLinkProofs --------------------------
(***************************************************************************)
(* Theorems about DeltaCodec and StreamLink, for any schemas, payload      *)
(* fields, sequence width, keyframe interval and bounds: the codec and the *)
(* types; for the delta mode over a channel that keeps the order and       *)
(* delivers every full packet, that what the receiver decodes is what was  *)
(* sent, that it comes out as a RecordStream, and how long an outage can   *)
(* last; for the plain mode, that nothing is decoded wrongly over any      *)
(* channel, and that no record is lost or repeated over one that keeps all *)
(* packets.  Last, what the profiler of ProfiledLink may do to the         *)
(* settings, and that a stream which it switches to delta mode and back    *)
(* between records is decoded as it was sent.                              *)
(***************************************************************************)
EXTENDS StreamLinkInv, ProfiledLink, FiniteSetTheorems, WellFoundedInduction,
        SequenceTheorems, TLAPS

-----------------------------------------------------------------------------
(* The least-number principle for a set of naturals, which stands in for   *)
(* induction, and its mirror image.                                        *)

\* A set of naturals that is not empty has a least element.
LEMMA Smallest ==
    ASSUME NEW T, T \subseteq Nat, T # {}
    PROVE  \E x \in T : \A y \in T : x <= y
<1> DEFINE R == OpToRel(<, Nat)
<1>1. \A a, b \in Nat : a < b => <<a, b>> \in R
  BY DEF OpToRel
<1>2. IsWellFoundedOn(R, Nat)
  BY NatLessThanWellFounded
<1> HIDE DEF R
<1>3. PICK x \in T : \A y \in T : ~ (<<y, x>> \in R)
  BY <1>2, WFMin
<1>4. ASSUME NEW y \in T PROVE x <= y
  <2>1. x \in Nat /\ y \in Nat
    OBVIOUS
  <2>2. ~(y < x)
    BY <1>1, <1>3, <2>1
  <2> QED
    BY <2>1, <2>2
<1> QED
  BY <1>4

\* A set of positions 1 .. m that is not empty has a last element.
LEMMA LastOfSet ==
    ASSUME NEW S, NEW m \in Nat, S \subseteq 1 .. m, S # {}
    PROVE  \E i \in S : \A j \in S : j <= i
<1> DEFINE T == {n \in Nat : \E i \in S : n = m - i}
<1>1. T \subseteq Nat
  OBVIOUS
<1>2. \A j \in S : m - j \in T /\ j \in Int
  OBVIOUS
<1>3. T # {}
  BY <1>2
<1> HIDE DEF T
<1>4. PICK x \in T : \A y \in T : x <= y
  BY <1>1, <1>3, Smallest
<1>5. PICK i \in S : x = m - i
  BY DEF T
<1>6. ASSUME NEW j \in S PROVE j <= i
  <2>1. x <= m - j
    BY <1>2, <1>4
  <2> QED
    BY <1>2, <1>5, <2>1
<1> QED
  BY <1>6

-----------------------------------------------------------------------------
(* The codec: a delta, applied to the record it was computed from, gives   *)
(* back the record it was computed for, whatever the fields and widths.    *)

\* Reducing a number that already fits its width changes nothing; any
\* reduced number fits.
LEMMA ModLaws ==
    /\ \A x \in 0 .. Modulus - 1 : x % Modulus = x
    /\ \A x \in Int : x % Modulus \in 0 .. Modulus - 1
  BY CodecAssumption

\* One field: the change computed from old and new turns old into new.
LEMMA FieldRoundTrip ==
    ASSUME NEW f \in Fields,
           NEW a \in Payloads, NEW b \in Payloads
    PROVE  PatchField(a[f], FieldPatch(f, a[f], b[f])) = b[f]
<1>1. CASE f \in CounterFields /\ Fits(b[f] - a[f])
  <2>1. a[f] \in 0 .. Modulus - 1 /\ b[f] \in 0 .. Modulus - 1
    BY <1>1 DEF Payloads
  <2>2. a[f] + (b[f] - a[f]) = b[f]
    BY <2>1, CodecAssumption
  <2> QED
    BY <1>1, <2>1, <2>2, ModLaws DEF PatchField, FieldPatch
<1>2. CASE ~(f \in CounterFields /\ Fits(b[f] - a[f]))
  BY <1>2 DEF PatchField, FieldPatch
<1> QED
  BY <1>1, <1>2

\* The round trip of write_numeric_delta/build_delta_packet through
\* expand_delta: a delta applied to its own base restores the record.
THEOREM PatchRoundTrip ==
    ASSUME NEW a \in Payloads, NEW b \in Payloads
    PROVE  ApplyPatch(a, Patch(a, b)) = b
<1> DEFINE r == ApplyPatch(a, Patch(a, b))
<1>1. b \in [Fields -> (0 .. Modulus - 1) \cup Texts]
  BY DEF Payloads
<1>2. r = [f \in Fields |-> r[f]]
  BY DEF ApplyPatch
<1>3. ASSUME NEW f \in Fields PROVE r[f] = b[f]
  <2>1. CASE a[f] = b[f]
    BY <2>1 DEF ApplyPatch, Patch, Changed
  <2>2. CASE a[f] # b[f]
    <3>1. f \in Changed(a, b)
      BY <2>2 DEF Changed
    <3>2. r[f] = PatchField(a[f], FieldPatch(f, a[f], b[f]))
      BY <3>1 DEF ApplyPatch, Patch
    <3> QED
      BY <3>2, FieldRoundTrip
  <2> QED
    BY <2>1, <2>2
<1> QED
  BY <1>1, <1>2, <1>3

\* A delta applied to any base at all still gives a well-formed record: a
\* misapplied delta is a wrong record, never a broken one.
LEMMA ApplyPatchType ==
    ASSUME NEW a \in Payloads, NEW b \in Payloads, NEW base \in Payloads
    PROVE  ApplyPatch(base, Patch(a, b)) \in Payloads
<1> DEFINE r == ApplyPatch(base, Patch(a, b))
<1>1. ASSUME NEW f \in CounterFields PROVE r[f] \in 0 .. Modulus - 1
  <2>1. /\ f \in Fields
        /\ base[f] \in 0 .. Modulus - 1
        /\ a[f] \in 0 .. Modulus - 1
        /\ b[f] \in 0 .. Modulus - 1
    BY DEF Payloads, Fields
  <2>2. CASE f \notin Changed(a, b)
    BY <2>1, <2>2 DEF ApplyPatch, Patch
  <2>3. CASE f \in Changed(a, b)
    <3>1. r[f] = PatchField(base[f], FieldPatch(f, a[f], b[f]))
      BY <2>1, <2>3 DEF ApplyPatch, Patch
    <3>2. base[f] + (b[f] - a[f]) \in Int
      BY <2>1, CodecAssumption
    <3> QED
      BY <3>1, <3>2, <2>1, ModLaws DEF PatchField, FieldPatch
  <2> QED
    BY <2>2, <2>3
<1>2. ASSUME NEW f \in OtherFields PROVE r[f] \in Texts
  <2>1. f \in Fields /\ f \notin CounterFields /\ base[f] \in Texts /\ b[f] \in Texts
    BY CodecAssumption DEF Payloads, Fields
  <2> QED
    BY <2>1 DEF ApplyPatch, Patch, PatchField, FieldPatch, Changed
<1>3. r \in [Fields -> (0 .. Modulus - 1) \cup Texts]
  BY <1>1, <1>2 DEF ApplyPatch, Fields
<1> QED
  BY <1>1, <1>2, <1>3 DEF Payloads

-----------------------------------------------------------------------------
(* Type correctness.  A reused packet is read from last_packet_by_schema_,
   so the types hold only because the two maps are filled together. *)

TypeInv ==
    /\ TypeOK
    /\ \A s \in Schemas :
          HasPrevious(s) => lastPacket[s] \in FullPackets \cup DeltaPackets

\* A function on 1 .. m is a sequence.
LEMMA FunctionIsSeq ==
    ASSUME NEW T, NEW m \in Nat, NEW f \in [1 .. m -> T]
    PROVE  f \in Seq(T)
<1>1. [1 .. m -> T] \in {[1 .. k -> T] : k \in Nat}
  OBVIOUS
<1>2. Seq(T) = UNION {[1 .. k -> T] : k \in Nat}
  BY SeqDef
<1> QED
  BY <1>1, <1>2, Zenon

\* What the proofs use of the constants.
LEMMA Widths ==
    /\ SeqMod \in Nat \ {0}
    /\ 0 \in 0 .. SeqMod - 1
    /\ MaxControls \in Nat
    /\ FirstConfig \in Configs
  BY LinkAssumption

LEMMA NextSeqType == \A q \in 0 .. SeqMod - 1 : NextSeq(q) \in 0 .. SeqMod - 1
  BY Widths DEF NextSeq

\* A packet of the channel is what its kind says.
LEMMA PacketKinds ==
    ASSUME NEW pkt \in Packets
    PROVE  /\ pkt.kind = "full" => pkt \in FullPackets
           /\ pkt.kind = "delta" => pkt \in DeltaPackets
           /\ pkt.kind = "batch" => pkt \in BatchPackets
           /\ pkt.kind \in {"full", "delta", "batch"}
  BY DEF Packets, FullPackets, DeltaPackets, BatchPackets

LEMMA FullType ==
    ASSUME NEW s \in Schemas, NEW p \in Payloads, NEW k \in Nat
    PROVE  Full(s, p, k) \in FullPackets
  BY DEF Full, FullPackets

\* Steps that only append one well-typed packet for the record they send.
LEMMA RememberType ==
    ASSUME TypeInv, NEW s \in Schemas, NEW p \in Payloads,
           NEW pkt \in FullPackets \cup DeltaPackets,
           Remember(s, p, pkt)
    PROVE  /\ cfg' \in Configs
           /\ lastPayload' \in [Schemas -> Payloads \cup {NoPayload}]
           /\ lastPacket' \in [Schemas -> FullPackets \cup DeltaPackets \cup {NoPacket}]
           /\ samples' \in [Schemas -> Nat]
           /\ lastDecoded' \in [Schemas -> Payloads \cup {NoPayload}]
           /\ expected' \in [Schemas -> 0 .. SeqMod - 1]
           /\ taken' = taken
           /\ controls' \in 0 .. MaxControls
           /\ sent' \in Seq(Records)
           /\ delivered' \in Seq([n : Nat, schema : Schemas, payload : Payloads])
           /\ rejected' \subseteq Nat
           /\ \A t \in Schemas :
                HasPrevious(t)' => lastPacket'[t] \in FullPackets \cup DeltaPackets
<1> USE DEF TypeInv, TypeOK, Remember
<1>1. [schema |-> s, payload |-> p] \in Records
  BY DEF Records
<1>2. sent' \in Seq(Records)
  BY <1>1
<1>3. UNCHANGED <<lastDecoded, expected, delivered, rejected>>
  BY DEF receiver, outcome
<1>4. \A t \in Schemas :
        HasPrevious(t)' => lastPacket'[t] \in FullPackets \cup DeltaPackets
  BY DEF HasPrevious
<1> QED
  BY <1>2, <1>3, <1>4, SMTT(40)

LEMMA EmitType ==
    ASSUME TypeInv, NEW pkt \in Packets, Emit(pkt), taken' = taken
    PROVE  wire' \in Seq(Packets) /\ taken' \in 0 .. Len(wire')
  BY DEF Emit, TypeInv, TypeOK

\* Sending any record keeps the types.
LEMMA SendType ==
    ASSUME TypeInv, NEW s \in Schemas, NEW p \in Payloads, SendStream(s, p)
    PROVE  TypeInv'
<1> DEFINE this == This(s, p)
<1>1. this \in FullPackets /\ this \in Packets
  BY FullType DEF This, TypeInv, TypeOK, Packets
<1>2. CASE SendDisabled(s, p)
  BY <1>1, <1>2, RememberType, EmitType DEF SendDisabled, TypeInv, TypeOK
<1>3. ASSUME EmitDelta(s, p), HasPrevious(s) PROVE TypeInv'
  <2> DEFINE pkt == Delta(s, seq[s], Patch(lastPayload[s], p), Len(sent) + 1)
  <2>1. pkt \in DeltaPackets
    BY <1>3 DEF Delta, DeltaPackets, Patches, TypeInv, TypeOK, HasPrevious
  <2>2. seq' \in [Schemas -> 0 .. SeqMod - 1]
    <3>1. seq \in [Schemas -> 0 .. SeqMod - 1]
      BY DEF TypeInv, TypeOK
    <3>2. seq' = [seq EXCEPT ![s] = NextSeq(@)]
      BY <1>3 DEF EmitDelta
    <3> QED
      BY <3>1, <3>2, NextSeqType
  <2>3. records' \in [Schemas -> Nat] /\ batch' \in Seq(FullPackets)
    BY <1>3 DEF EmitDelta, CountRecord, TypeInv, TypeOK
  <2> QED
    BY <1>3, <2>1, <2>2, <2>3, RememberType, EmitType
    DEF EmitDelta, Packets, TypeInv, TypeOK
<1>4. CASE SendReuse(s, p)
  <2> DEFINE pkt == Again(lastPacket[s], Len(sent) + 1)
  <2>1. lastPacket[s] \in FullPackets \cup DeltaPackets
    BY <1>4 DEF SendReuse, Repeats, TypeInv
  <2>2. pkt \in Packets
    BY <2>1, SMTT(40) DEF Again, Full, Delta, Packets, FullPackets, DeltaPackets,
                TypeInv, TypeOK
  <2> QED
    BY <1>1, <1>4, <2>2, RememberType, EmitType DEF SendReuse, TypeInv, TypeOK
<1>5. CASE SendKeyframe(s, p)
  <2>1. seq' \in [Schemas -> 0 .. SeqMod - 1] /\ records' \in [Schemas -> Nat]
    BY <1>5, Widths DEF SendKeyframe, RestartNumber, TypeInv, TypeOK
  <2> QED
    BY <1>1, <1>5, <2>1, RememberType, EmitType DEF SendKeyframe, TypeInv, TypeOK
<1>6. CASE SendDelta(s, p)
  BY <1>3, <1>6 DEF SendDelta, DeltaAllowed, Repeats
<1>7. CASE SendFull(s, p)
  <2>1. seq' \in [Schemas -> 0 .. SeqMod - 1] /\ records' \in [Schemas -> Nat]
    <3>1. seq \in [Schemas -> 0 .. SeqMod - 1] /\ records \in [Schemas -> Nat]
      BY DEF TypeInv, TypeOK
    <3>2. CASE cfg.delta
      <4>1. seq' = [seq EXCEPT ![s] = 0] /\ records' = [records EXCEPT ![s] = @ + 1]
        BY <1>7, <3>2 DEF SendFull, RestartNumber, CountRecord
      <4> QED
        BY <3>1, <4>1, Widths
    <3>3. CASE ~cfg.delta
      BY <1>7, <3>1, <3>3 DEF SendFull
    <3> QED
      BY <3>2, <3>3
  <2> QED
    BY <1>1, <1>7, <2>1, RememberType, EmitType DEF SendFull, TypeInv, TypeOK
<1>8. CASE SendBatched(s, p)
  <2> DEFINE parts == Append(batch, this)
  <2>1. parts \in Seq(FullPackets)
    BY <1>1 DEF TypeInv, TypeOK
  <2>2. Batch(parts) \in Packets
    BY <2>1 DEF Batch, BatchPackets, Packets
  <2>3. batch' \in Seq(FullPackets) /\ seq' = seq /\ records' = records
    <3>1. batch' = <<>> \/ batch' = parts
      BY <1>8 DEF SendBatched
    <3>2. seq' = seq /\ records' = records
      BY <1>8 DEF SendBatched
    <3>3. <<>> \in Seq(FullPackets)
      OBVIOUS
    <3> QED
      BY <2>1, <3>1, <3>2, <3>3, Zenon
  <2>4. taken' = taken
    BY <1>8 DEF SendBatched, Remember
  <2>5. wire' \in Seq(Packets) /\ taken' \in 0 .. Len(wire')
    BY <1>8, <2>2, <2>4, EmitType DEF SendBatched, TypeInv, TypeOK
  <2> QED
    BY <1>1, <1>8, <2>3, <2>5, RememberType DEF SendBatched, TypeInv, TypeOK
<1> QED
  BY <1>2, <1>4, <1>5, <1>6, <1>7, <1>8 DEF SendStream

\* Deliveries keep the types, whatever is decoded.
LEMMA DeliveryType ==
    ASSUME TypeInv, NEW pkt \in FullPackets \cup DeltaPackets, NEW p \in Payloads
    PROVE  Append(delivered, Delivery(pkt, p))
             \in Seq([n : Nat, schema : Schemas, payload : Payloads])
<1>1. Delivery(pkt, p) \in [n : Nat, schema : Schemas, payload : Payloads]
  BY DEF Delivery, FullPackets, DeltaPackets
<1> QED
  BY <1>1 DEF TypeInv, TypeOK

\* Receiving any packet keeps the types.
LEMMA ReceiveType ==
    ASSUME TypeInv, ReceiveStream \/ ReceiveRecovered
    PROVE  TypeInv'
<1>1. /\ Arriving \in Packets /\ taken' \in 0 .. Len(wire') /\ wire' = wire
      /\ UNCHANGED <<cfg, sender, controls, sent>>
  <2>1. /\ Arrival
        /\ UNCHANGED wire
        /\ UNCHANGED <<cfg, sender, controls, sent>>
    <3>1. CASE ReceiveFull
      BY <3>1 DEF ReceiveFull
    <3>2. CASE ReceiveDelta
      BY <3>2 DEF ReceiveDelta
    <3>3. CASE RejectDelta
      BY <3>3 DEF RejectDelta
    <3>4. CASE ReceiveBatch
      BY <3>4 DEF ReceiveBatch
    <3>5. CASE ReceiveRecovered
      BY <3>5 DEF ReceiveRecovered
    <3> QED
      BY <3>1, <3>2, <3>3, <3>4, <3>5 DEF ReceiveStream
  <2>2. wire \in Seq(Packets) /\ taken \in 0 .. Len(wire)
    BY DEF TypeInv, TypeOK
  <2> QED
    BY <2>1, <2>2 DEF Arrival, Arriving
<1>2. UNCHANGED <<cfg, lastPayload, lastPacket, samples, seq, records, batch,
                  controls, sent, wire>>
  BY <1>1 DEF sender
<1>3. SUFFICES
        /\ lastDecoded' \in [Schemas -> Payloads \cup {NoPayload}]
        /\ expected' \in [Schemas -> 0 .. SeqMod - 1]
        /\ delivered' \in Seq([n : Nat, schema : Schemas, payload : Payloads])
        /\ rejected' \subseteq Nat
  BY <1>1, <1>2 DEF TypeInv, TypeOK, HasPrevious
<1> USE DEF TypeInv, TypeOK
<1>4. CASE ReceiveFull
  <2>1. Arriving \in FullPackets
    BY <1>1, <1>4, PacketKinds DEF ReceiveFull
  <2>2. Arriving.schema \in Schemas /\ Arriving.payload \in Payloads
    BY <2>1 DEF FullPackets
  <2> QED
    BY <1>4, <2>1, <2>2, DeliveryType, Widths
    DEF ReceiveFull, RecordDecoded
<1>5. CASE ReceiveDelta
  <2> DEFINE s == Arriving.schema
             p == ApplyPatch(lastDecoded[s], Arriving.patch)
  <2>1. Arriving \in DeltaPackets
    BY <1>1, <1>5, PacketKinds DEF ReceiveDelta
  <2>2. s \in Schemas /\ Arriving.patch \in Patches
    BY <2>1 DEF DeltaPackets
  <2>3. lastDecoded[s] \in Payloads
    BY <1>5, <2>2 DEF ReceiveDelta, DeltaExpands
  <2>4. p \in Payloads
    BY <2>2, <2>3, ApplyPatchType DEF Patches
  <2>5. /\ RecordDecodedDelta(s, p)
        /\ delivered' = Append(delivered, Delivery(Arriving, p))
        /\ rejected' = rejected
    BY <1>5 DEF ReceiveDelta
  <2>6. NextSeq(expected[s]) \in 0 .. SeqMod - 1
    BY <2>2, NextSeqType, Widths
  <2> HIDE DEF p
  <2> QED
    BY <2>1, <2>2, <2>4, <2>5, <2>6, DeliveryType DEF RecordDecodedDelta
<1>6. CASE RejectDelta
  <2>1. Arriving.n \in Nat
    BY <1>1, <1>6, PacketKinds DEF RejectDelta, DeltaPackets
  <2> QED
    BY <1>6, <2>1 DEF RejectDelta, receiver
<1>7. CASE ReceiveBatch
  <2> DEFINE parts == Arriving.parts
             In(s) == {i \in DOMAIN parts : parts[i].schema = s}
             Newest(s) == CHOOSE i \in In(s) : \A j \in In(s) : j <= i
  <2>1. parts \in Seq(FullPackets)
    BY <1>1, <1>7, PacketKinds DEF ReceiveBatch, BatchPackets
  <2>2. ASSUME NEW s \in Schemas, In(s) # {}
        PROVE  parts[Newest(s)].payload \in Payloads
    <3>1. In(s) \subseteq 1 .. Len(parts) /\ Len(parts) \in Nat
      BY <2>1
    <3>2. \E i \in In(s) : \A j \in In(s) : j <= i
      BY <2>2, <3>1, LastOfSet
    <3>3. Newest(s) \in In(s)
      BY <3>2
    <3> QED
      <4>1. parts[Newest(s)] \in FullPackets
        <5>1. Newest(s) \in 1 .. Len(parts)
          BY <3>1, <3>3, Zenon
        <5> HIDE DEF parts, Newest
        <5> QED
          BY <2>1, <5>1
      <4> HIDE DEF parts, Newest
      <4> QED
        BY <4>1 DEF FullPackets
  <2>3. [i \in DOMAIN parts |-> Delivery(parts[i], parts[i].payload)]
          \in Seq([n : Nat, schema : Schemas, payload : Payloads])
    <3> HIDE DEF parts
    <3>1. \A i \in DOMAIN parts : Delivery(parts[i], parts[i].payload)
                                    \in [n : Nat, schema : Schemas, payload : Payloads]
      <4> TAKE i \in DOMAIN parts
      <4>1. parts[i] \in FullPackets
        BY <2>1
      <4> QED
        BY <4>1 DEF Delivery, FullPackets
    <3>2. DOMAIN parts = 1 .. Len(parts) /\ Len(parts) \in Nat
      BY <2>1
    <3>3. [i \in DOMAIN parts |-> Delivery(parts[i], parts[i].payload)]
            \in [1 .. Len(parts) -> [n : Nat, schema : Schemas, payload : Payloads]]
      BY <3>1, <3>2, Zenon
    <3> QED
      BY <3>2, <3>3, FunctionIsSeq, Zenon
  <2>4. delivered' \in Seq([n : Nat, schema : Schemas, payload : Payloads])
    BY <1>7, <2>3 DEF ReceiveBatch
  <2>5. /\ lastDecoded' = [s \in Schemas |-> IF In(s) = {} THEN lastDecoded[s]
                                             ELSE parts[Newest(s)].payload]
        /\ expected' = [s \in Schemas |-> IF In(s) = {} THEN expected[s] ELSE 0]
        /\ rejected' = rejected
    BY <1>7 DEF ReceiveBatch
  <2>6. lastDecoded' \in [Schemas -> Payloads \cup {NoPayload}]
    <3> HIDE DEF In, Newest, parts
    <3> QED BY <2>2, <2>5
  <2>7. expected' \in [Schemas -> 0 .. SeqMod - 1]
    BY <2>5, Widths
  <2> QED
    BY <2>4, <2>5, <2>6, <2>7
<1>8. CASE ReceiveRecovered
  <2>1. Arriving \in FullPackets
    BY <1>1, <1>8, PacketKinds DEF ReceiveRecovered
  <2>2. Arriving.payload \in Payloads
    BY <2>1 DEF FullPackets
  <2> QED
    BY <1>8, <2>1, <2>2, DeliveryType DEF ReceiveRecovered, receiver
<1> QED
  BY <1>4, <1>5, <1>6, <1>7, <1>8 DEF ReceiveStream

\* The other steps keep the types.
LEMMA OtherType ==
    ASSUME TypeInv,
           \/ Flush \/ Lose \/ Overtake \/ ResetSender \/ ResetReceiver
           \/ \E c \in Configs : Configure(c) \/ ApplySettings(c)
    PROVE  TypeInv'
<1> USE DEF TypeInv, TypeOK, HasPrevious
<1>1. CASE Flush
  <2>1. Batch(batch) \in Packets
    BY DEF Batch, BatchPackets, Packets
  <2> QED
    BY <1>1, SMTT(40), <2>1, EmitType DEF Flush, receiver, outcome
<1>2. CASE Lose
  BY <1>2 DEF Lose, Arrival, sender, receiver, outcome
<1>3. CASE Overtake
  <2>1. PICK i \in taken + 1 .. Len(wire) - 1 :
               wire' = [wire EXCEPT ![i] = wire[i + 1], ![i + 1] = wire[i]]
    BY <1>3 DEF Overtake
  <2>2. i \in 1 .. Len(wire) /\ i + 1 \in 1 .. Len(wire)
    OBVIOUS
  <2>3. wire' \in Seq(Packets) /\ Len(wire') = Len(wire)
    BY <2>1, <2>2
  <2>4. controls' \in 0 .. MaxControls
    BY <1>3, Widths, SMTT(40) DEF Overtake
  <2>5. UNCHANGED <<cfg, lastPayload, lastPacket, samples, seq, records, batch,
                    lastDecoded, expected, taken, sent, delivered, rejected>>
    BY <1>3 DEF Overtake, sender, receiver, outcome
  <2> QED
    BY <2>3, <2>4, <2>5
<1>4. CASE ResetSender
  BY <1>4, Widths DEF ResetSender, Control, receiver, channel, outcome
<1>5. CASE ResetReceiver
  BY <1>5, Widths DEF ResetReceiver, Control, sender, channel, outcome
<1>6. ASSUME NEW c \in Configs, Configure(c) PROVE TypeInv'
  BY <1>6, Widths DEF Configure, Control, sender, receiver, channel, outcome
<1>7. ASSUME NEW c \in Configs, ApplySettings(c) PROVE TypeInv'
  <2>1. UNCHANGED <<lastDecoded, expected, wire, taken, sent, delivered, rejected>>
    BY <1>7 DEF ApplySettings, Control, receiver, channel, outcome
  <2>2. cfg' \in Configs /\ controls' \in 0 .. MaxControls
    BY <1>7, Widths DEF ApplySettings, Control
  <2>3. CASE ForgetDeltas
    BY <2>1, <2>2, <2>3, Widths DEF ForgetDeltas
  <2>4. CASE UNCHANGED sender
    BY <2>1, <2>2, <2>4 DEF sender
  <2> QED
    BY <1>7, <2>3, <2>4 DEF ApplySettings
<1> QED
  BY <1>1, <1>2, <1>3, <1>4, <1>5, <1>6, <1>7

\* The types and the packets to be reused are an inductive invariant.
LEMMA TypeInductive ==
    /\ Init => TypeInv
    /\ TypeInv /\ [Next]_vars => TypeInv'
<1>1. Init => TypeInv
  BY Widths DEF Init, TypeInv, TypeOK, HasPrevious
<1>2. TypeInv /\ [Next]_vars => TypeInv'
  <2> SUFFICES ASSUME TypeInv, [Next]_vars PROVE TypeInv'
    OBVIOUS
  <2>1. CASE UNCHANGED vars
    BY <2>1 DEF TypeInv, TypeOK, HasPrevious, vars, sender, receiver, channel, outcome
  <2> QED
    BY <2>1, SendType, ReceiveType, OtherType DEF Next
<1> QED
  BY <1>1, <1>2

\* Every value the two optimizers, the channel and the histories hold has
\* its type; in particular a reused packet is always a packet.
THEOREM TypeCorrect == Spec => []TypeOK
<1>1. TypeInv => TypeOK
  BY DEF TypeInv
<1> QED
  BY <1>1, TypeInductive, PTL DEF Spec

-----------------------------------------------------------------------------
(* What one send does to the history, in delta mode *)

\* The old packets and records stay where they are; one of each is added.
Grows(s, p) ==
    /\ Len(sent') = Len(sent) + 1
    /\ Len(wire') = Len(sent) + 1
    /\ \A k \in 1 .. Len(sent) : sent'[k] = sent[k] /\ wire'[k] = wire[k]
    /\ sent' = Append(sent, [schema |-> s, payload |-> p])
    /\ sent'[Len(sent) + 1] = [schema |-> s, payload |-> p]
    /\ lastPayload' = [lastPayload EXCEPT ![s] = p]
    /\ UNCHANGED <<batch, lastDecoded, expected, taken, delivered, rejected>>

PutsFull(s, p) ==
    /\ wire'[Len(sent) + 1] = Full(s, p, Len(sent) + 1)
    /\ seq' = [seq EXCEPT ![s] = 0]

AddsFull(s, p) ==
    /\ PutsFull(s, p)
    /\ \E r \in Nat \ {0} : records' = [records EXCEPT ![s] = r]

AddsDelta(s, p) ==
    /\ HasPrevious(s)
    /\ wire'[Len(sent) + 1] =
          Delta(s, seq[s], Patch(lastPayload[s], p), Len(sent) + 1)
    /\ seq' = [seq EXCEPT ![s] = NextSeq(seq[s])]
    /\ records' = [records EXCEPT ![s] = records[s] + 1]
    /\ Lossy => records[s] < SeqMod
    /\ ~cfg.reuse => records[s] < cfg.keyframe

LEMMA GrowsByOne ==
    ASSUME TypeInv, PacketsMatch, NEW s \in Schemas, NEW p \in Payloads,
           NEW pkt, Remember(s, p, pkt), UNCHANGED batch,
           NEW q \in Packets, Emit(q)
    PROVE  Grows(s, p) /\ wire'[Len(sent) + 1] = q
<1>1. sent \in Seq(Records) /\ wire \in Seq(Packets) /\ Len(wire) = Len(sent)
  BY DEF TypeInv, TypeOK, PacketsMatch
<1>2. sent' = Append(sent, [schema |-> s, payload |-> p]) /\ wire' = Append(wire, q)
  BY DEF Remember, Emit
<1>3. [schema |-> s, payload |-> p] \in Records
  BY DEF Records
<1>4. /\ Len(sent') = Len(sent) + 1
      /\ \A k \in 1 .. Len(sent) : sent'[k] = sent[k]
      /\ sent'[Len(sent) + 1] = [schema |-> s, payload |-> p]
  BY <1>1, <1>2, <1>3
<1>5. /\ Len(wire') = Len(sent) + 1
      /\ \A k \in 1 .. Len(sent) : wire'[k] = wire[k]
      /\ wire'[Len(sent) + 1] = q
  BY <1>1, <1>2
<1>6. UNCHANGED <<lastDecoded, expected, taken, delivered, rejected>>
  BY DEF Remember, receiver, outcome
<1>7. lastPayload' = [lastPayload EXCEPT ![s] = p]
  BY DEF Remember
<1> QED
  BY <1>2, <1>4, <1>5, <1>6, <1>7 DEF Grows

\* In delta mode a send adds a full packet or a delta from the sender's base.
LEMMA DeltaSends ==
    ASSUME TypeInv, PacketsMatch, cfg.enabled, cfg.delta,
           Lossy => ~cfg.reuse /\ cfg.keyframe <= SeqMod,
           NEW s \in Schemas, NEW p \in Payloads, SendStream(s, p)
    PROVE  Grows(s, p) /\ (AddsFull(s, p) \/ AddsDelta(s, p))
<1>1. cfg.enabled /\ cfg.delta /\ (Lossy => ~cfg.reuse /\ cfg.keyframe <= SeqMod)
  OBVIOUS
<1>2. cfg.keyframe \in Nat /\ records \in [Schemas -> Nat]
  BY LinkAssumption DEF TypeInv, TypeOK
<1>3. Len(sent) \in Nat
  BY DEF TypeInv, TypeOK
<1>4. Full(s, p, Len(sent) + 1) \in Packets
  BY <1>3, FullType DEF Packets
<1>5. ASSUME EmitDelta(s, p), HasPrevious(s), ~cfg.reuse => records[s] < cfg.keyframe
      PROVE  Grows(s, p) /\ AddsDelta(s, p)
  <2> DEFINE pkt == Delta(s, seq[s], Patch(lastPayload[s], p), Len(sent) + 1)
  <2>1. lastPayload[s] \in Payloads /\ seq[s] \in 0 .. SeqMod - 1
    BY <1>5 DEF HasPrevious, TypeInv, TypeOK
  <2>2. pkt \in Packets
    BY <1>3, <2>1 DEF Delta, DeltaPackets, Patches, Packets
  <2>3. Remember(s, p, pkt) /\ Emit(pkt) /\ UNCHANGED batch
    BY <1>5 DEF EmitDelta
  <2>4. Grows(s, p) /\ wire'[Len(sent) + 1] = pkt
    BY <2>2, <2>3, GrowsByOne
  <2>5. seq' = [seq EXCEPT ![s] = NextSeq(seq[s])]
    BY <1>5 DEF EmitDelta
  <2>6. records' = [records EXCEPT ![s] = records[s] + 1]
    BY <1>5 DEF EmitDelta, CountRecord
  <2>7. Lossy => records[s] < SeqMod
    BY <1>1, <1>2, <1>5, Widths
  <2> QED
    BY <1>5, <2>4, <2>5, <2>6, <2>7 DEF AddsDelta
<1>6. CASE SendKeyframe(s, p)
  <2>1. Grows(s, p) /\ wire'[Len(sent) + 1] = Full(s, p, Len(sent) + 1)
    BY <1>4, <1>6, GrowsByOne DEF SendKeyframe, This
  <2>2. seq' = [seq EXCEPT ![s] = 0] /\ records' = [records EXCEPT ![s] = 1]
    BY <1>6 DEF SendKeyframe, RestartNumber
  <2>3. 1 \in Nat \ {0}
    OBVIOUS
  <2> QED
    BY <2>1, <2>2, <2>3 DEF AddsFull, PutsFull
<1>7. CASE SendDelta(s, p)
  <2>1. CASE Repeats(s, p)
    BY <1>1, <1>5, <1>7, <2>1 DEF SendDelta, Repeats
  <2>2. CASE ~Repeats(s, p)
    <3>1. HasPrevious(s) /\ ~KeyframeDue(s)
      BY <1>7, <2>2 DEF SendDelta, DeltaAllowed
    <3>2. records[s] < cfg.keyframe
      BY <1>1, <1>2, <3>1 DEF KeyframeDue
    <3> QED
      BY <1>5, <1>7, <3>1, <3>2 DEF SendDelta
  <2> QED
    BY <2>1, <2>2
<1>8. CASE SendFull(s, p)
  <2>1. Grows(s, p) /\ wire'[Len(sent) + 1] = Full(s, p, Len(sent) + 1)
    BY <1>4, <1>8, GrowsByOne DEF SendFull, This
  <2>2. seq' = [seq EXCEPT ![s] = 0] /\ records' = [records EXCEPT ![s] = records[s] + 1]
    BY <1>1, <1>8 DEF SendFull, RestartNumber, CountRecord
  <2>3. records[s] + 1 \in Nat \ {0}
    BY <1>2
  <2> QED
    BY <2>1, <2>2, <2>3 DEF AddsFull, PutsFull
<1> QED
  BY <1>1, <1>6, <1>7, <1>8
  DEF SendStream, SendDisabled, SendReuse, SendBatched, BatchAllowed

LEMMA SendCases ==
    ASSUME TypeInv, PacketsMatch, DeltaSetting,
           NEW s \in Schemas, NEW p \in Payloads, SendStream(s, p)
    PROVE  Grows(s, p) /\ (AddsFull(s, p) \/ AddsDelta(s, p))
<1>1. cfg.enabled /\ cfg.delta /\ (Lossy => ~cfg.reuse /\ cfg.keyframe <= SeqMod)
  BY DEF DeltaSetting, TypeInv, TypeOK
<1> QED
  BY <1>1, DeltaSends

-----------------------------------------------------------------------------
(* Sending keeps the invariant *)

LEMMA NextSeqSmall == \A q \in Nat : q + 1 < SeqMod => NextSeq(q) = q + 1
  BY Widths DEF NextSeq

\* Each packet is a record's full packet or delta, with a number in range.
LEMMA WireTypes ==
    ASSUME TypeInv, PacketsMatch, NEW k \in 1 .. Len(wire)
    PROVE  /\ wire[k].kind = "full" \/ wire[k].kind = "delta"
           /\ wire[k].kind = "delta" => wire[k] \in DeltaPackets
           /\ wire[k].kind = "delta" => wire[k].seq \in 0 .. SeqMod - 1
           /\ wire[k].kind = "full" => wire[k] \in FullPackets
           /\ sent[k].schema \in Schemas /\ sent[k].payload \in Payloads
           /\ After(wire, k) \in 0 .. SeqMod - 1
<1>1. wire[k] \in Packets /\ sent[k] \in Records
  BY DEF TypeInv, TypeOK, PacketsMatch
<1>2. wire[k].kind = "full" \/ wire[k].kind = "delta"
  BY DEF PacketsMatch
<1>3. wire[k].kind = "delta" => wire[k] \in DeltaPackets
  BY <1>1, PacketKinds
<1>4. wire[k].kind = "full" => wire[k] \in FullPackets
  BY <1>1, PacketKinds
<1>5. wire[k].kind = "delta" => wire[k].seq \in 0 .. SeqMod - 1
  BY <1>3 DEF DeltaPackets
<1>6. After(wire, k) \in 0 .. SeqMod - 1
  BY <1>2, <1>5, NextSeqType, Widths DEF After
<1> QED
  BY <1>1, <1>2, <1>3, <1>4, <1>5, <1>6 DEF Records

\* The past does not change: numbers and latest records stay what they were.
LEMMA PastStays ==
    ASSUME TypeInv, PacketsMatch, NEW s \in Schemas, NEW p \in Payloads, Grows(s, p)
    PROVE  /\ \A k \in 1 .. Len(sent) : After(wire', k) = After(wire, k)
           /\ \A t, m : \A h \in 0 .. Len(sent) : Latest(sent, t, h, m) => Latest(sent', t, h, m)
<1>1. \A k \in 1 .. Len(sent) : After(wire', k) = After(wire, k)
  BY DEF After, Grows
<1>2. ASSUME NEW t, NEW m, NEW h \in 0 .. Len(sent), Latest(sent, t, h, m)
      PROVE  Latest(sent', t, h, m)
  <2>1. Len(sent) \in Nat
    BY DEF TypeInv, TypeOK
  <2>2. /\ m \in 1 .. h
        /\ sent[m].schema = t
        /\ \A k \in m + 1 .. h : sent[k].schema # t
    BY <1>2 DEF Latest
  <2>3. \A k \in m .. h : sent'[k] = sent[k]
    BY <2>1, <2>2 DEF Grows
  <2> QED
    BY <2>1, <2>2, <2>3 DEF Latest
<1> QED
  BY <1>1, <1>2

LEMMA SendPackets ==
    ASSUME TypeInv, PacketsMatch, SenderStands,
           NEW s \in Schemas, NEW p \in Payloads,
           Grows(s, p), PutsFull(s, p) \/ AddsDelta(s, p)
    PROVE  PacketsMatch'
<1> DEFINE n == Len(sent) + 1
<1>1. Len(sent) \in Nat /\ Len(wire) = Len(sent) /\ batch = <<>>
  BY DEF TypeInv, TypeOK, PacketsMatch
<1>2. Len(wire') = n /\ Len(sent') = n /\ batch' = <<>>
  BY <1>1 DEF Grows
<1>3. ASSUME NEW k \in 1 .. Len(sent)
      PROVE  /\ wire'[k].n = k
             /\ wire'[k].schema = sent'[k].schema
             /\ \/ wire'[k].kind = "full" /\ wire'[k].payload = sent'[k].payload
                \/ /\ wire'[k].kind = "delta"
                   /\ \E m \in 1 .. k - 1 :
                         /\ Latest(sent', sent'[k].schema, k - 1, m)
                         /\ wire'[k].seq = After(wire', m)
                         /\ wire'[k].patch = Patch(sent'[m].payload, sent'[k].payload)
  <2>1. wire'[k] = wire[k] /\ sent'[k] = sent[k]
    BY DEF Grows
  <2>2. wire[k].n = k /\ wire[k].schema = sent[k].schema
    BY <1>1 DEF PacketsMatch
  <2>3. CASE wire[k].kind = "full" /\ wire[k].payload = sent[k].payload
    BY <2>1, <2>2, <2>3
  <2>4. CASE ~(wire[k].kind = "full" /\ wire[k].payload = sent[k].payload)
    <3>1. PICK m \in 1 .. k - 1 :
                 /\ wire[k].kind = "delta"
                 /\ Latest(sent, sent[k].schema, k - 1, m)
                 /\ wire[k].seq = After(wire, m)
                 /\ wire[k].patch = Patch(sent[m].payload, sent[k].payload)
      BY <1>1, <2>4 DEF PacketsMatch
    <3>2. m \in 1 .. Len(sent) /\ k - 1 \in 0 .. Len(sent)
      BY <1>1
    <3>3. After(wire', m) = After(wire, m) /\ sent'[m] = sent[m]
      BY <3>2, PastStays DEF Grows
    <3>4. Latest(sent', sent[k].schema, k - 1, m)
      BY <3>1, <3>2, PastStays
    <3> QED
      BY <2>1, <2>2, <3>1, <3>3, <3>4
  <2> QED
    BY <2>3, <2>4
<1>4. /\ wire'[n].n = n
      /\ wire'[n].schema = sent'[n].schema
      /\ \/ wire'[n].kind = "full" /\ wire'[n].payload = sent'[n].payload
         \/ /\ wire'[n].kind = "delta"
            /\ \E m \in 1 .. n - 1 :
                  /\ Latest(sent', sent'[n].schema, n - 1, m)
                  /\ wire'[n].seq = After(wire', m)
                  /\ wire'[n].patch = Patch(sent'[m].payload, sent'[n].payload)
  <2>1. sent'[n] = [schema |-> s, payload |-> p]
    BY DEF Grows
  <2>2. CASE PutsFull(s, p)
    BY <2>1, <2>2 DEF PutsFull, Full
  <2>3. CASE AddsDelta(s, p)
    <3>1. PICK m \in 1 .. Len(sent) :
                 /\ Latest(sent, s, Len(sent), m)
                 /\ lastPayload[s] = sent[m].payload
                 /\ seq[s] = After(wire, m)
      BY <2>3 DEF AddsDelta, SenderStands
    <3>2. After(wire', m) = After(wire, m) /\ sent'[m] = sent[m]
      BY PastStays DEF Grows
    <3>3. Latest(sent', s, Len(sent), m)
      BY <1>1, <3>1, PastStays
    <3>4. n - 1 = Len(sent)
      BY <1>1
    <3>5. wire'[n] = Delta(s, seq[s], Patch(lastPayload[s], p), n)
      BY <2>3 DEF AddsDelta
    <3> QED
      BY <2>1, <3>1, <3>2, <3>3, <3>4, <3>5 DEF Delta
  <2> QED
    BY <2>2, <2>3
<1>5. \A k \in 1 .. Len(wire') : k \in 1 .. Len(sent) \/ k = n
  BY <1>1, <1>2
<1> QED
  BY <1>2, <1>3, <1>4, <1>5 DEF PacketsMatch

LEMMA SendSender ==
    ASSUME TypeInv, PacketsMatch, SenderStands,
           NEW s \in Schemas, NEW p \in Payloads,
           Grows(s, p), PutsFull(s, p) \/ AddsDelta(s, p)
    PROVE  SenderStands'
<1> DEFINE n == Len(sent) + 1
<1>1. Len(sent) \in Nat /\ Len(sent') = n /\ sent'[n] = [schema |-> s, payload |-> p]
  BY DEF TypeInv, TypeOK, Grows
<1>2. SUFFICES ASSUME NEW t \in Schemas, HasPrevious(t)'
               PROVE  \E m \in 1 .. Len(sent') :
                         /\ Latest(sent', t, Len(sent'), m)
                         /\ lastPayload'[t] = sent'[m].payload
                         /\ seq'[t] = After(wire', m)
  BY DEF SenderStands
<1>3. lastPayload' = [lastPayload EXCEPT ![s] = p]
  BY DEF Grows
<1>4. lastPayload \in [Schemas -> Payloads \cup {NoPayload}] /\ seq \in [Schemas -> 0 .. SeqMod - 1]
  BY DEF TypeInv, TypeOK
<1>5. CASE t = s
  <2>1. Latest(sent', s, n, n)
    BY <1>1 DEF Latest
  <2>2. lastPayload'[s] = p
    BY <1>3, <1>4
  <2>3. seq'[s] = After(wire', n)
    <3>1. CASE PutsFull(s, p)
      BY <1>4, <3>1 DEF PutsFull, Full, After
    <3>2. CASE AddsDelta(s, p)
      BY <1>4, <3>2 DEF AddsDelta, Delta, After
    <3> QED
      BY <3>1, <3>2
  <2> QED
    BY <1>1, <1>5, <2>1, <2>2, <2>3
<1>6. CASE t # s
  <2>1. lastPayload'[t] = lastPayload[t] /\ seq'[t] = seq[t]
    BY <1>3, <1>4, <1>6 DEF PutsFull, AddsDelta
  <2>2. HasPrevious(t)
    BY <1>2, <2>1 DEF HasPrevious
  <2>3. PICK m \in 1 .. Len(sent) :
               /\ Latest(sent, t, Len(sent), m)
               /\ lastPayload[t] = sent[m].payload
               /\ seq[t] = After(wire, m)
    BY <2>2 DEF SenderStands
  <2>4. After(wire', m) = After(wire, m) /\ sent'[m] = sent[m]
    BY PastStays DEF Grows
  <2>5. Latest(sent', t, Len(sent), m)
    BY <1>1, <2>3, PastStays
  <2>6. Latest(sent', t, n, m)
    BY <1>1, <1>6, <2>5 DEF Latest
  <2> QED
    BY <1>1, <2>1, <2>3, <2>4, <2>6
<1> QED
  BY <1>5, <1>6

LEMMA SendReceiver ==
    ASSUME TypeInv, PacketsMatch, ReceiverStands,
           NEW s \in Schemas, NEW p \in Payloads, Grows(s, p)
    PROVE  ReceiverStands'
<1>1. Len(sent) \in Nat /\ taken \in 0 .. Len(sent) /\ taken' = taken
  BY DEF TypeInv, TypeOK, PacketsMatch, Grows
<1>2. \A k \in 1 .. taken : sent'[k] = sent[k] /\ wire'[k] = wire[k]
  BY <1>1 DEF Grows
<1>3. lastDecoded' = lastDecoded /\ expected' = expected
  BY DEF Grows
<1>4. SUFFICES ASSUME NEW t \in Schemas, lastDecoded[t] # NoPayload
               PROVE  \E m \in 1 .. taken :
                         /\ sent'[m].schema = t
                         /\ lastDecoded[t] = sent'[m].payload
                         /\ expected[t] = After(wire', m)
                         /\ \A k \in m + 1 .. taken : sent'[k].schema = t =>
                                wire'[k].kind = "delta" /\ Lossy
  BY <1>1, <1>3 DEF ReceiverStands
<1>5. PICK m \in 1 .. taken :
             /\ sent[m].schema = t
             /\ lastDecoded[t] = sent[m].payload
             /\ expected[t] = After(wire, m)
             /\ \A k \in m + 1 .. taken : sent[k].schema = t =>
                    wire[k].kind = "delta" /\ Lossy
  BY <1>4 DEF ReceiverStands
<1>6. After(wire', m) = After(wire, m)
  BY <1>2 DEF After
<1>7. \A k \in m + 1 .. taken : k \in 1 .. taken
  BY <1>1
<1> QED
  BY <1>2, <1>5, <1>6, <1>7

\* Over the last stretch of deltas the numbers grow up to the sender's.
LEMMA SendNumbers ==
    ASSUME TypeInv, PacketsMatch, SenderStands, NumbersGrow,
           NEW s \in Schemas, NEW p \in Payloads,
           Grows(s, p), AddsFull(s, p) \/ AddsDelta(s, p)
    PROVE  NumbersGrow'
<1> DEFINE n == Len(sent) + 1
<1>1. /\ Len(sent) \in Nat /\ Len(wire) = Len(sent) /\ Len(wire') = n
      /\ \A k \in 1 .. Len(sent) : wire'[k] = wire[k]
  BY DEF TypeInv, TypeOK, PacketsMatch, Grows
<1>2. SUFFICES ASSUME Lossy
               PROVE  /\ \A t \in Schemas : HasPrevious(t)' => seq'[t] + 1 <= records'[t]
                      /\ \A k \in 1 .. n :
                            wire'[k].kind = "delta" => wire'[k].seq + 1 < SeqMod
                      /\ \A m, k \in 1 .. n :
                            /\ m < k
                            /\ wire'[m].schema = wire'[k].schema
                            /\ \A j \in m + 1 .. k :
                                  wire'[j].schema = wire'[k].schema => wire'[j].kind = "delta"
                            => After(wire', m) <= wire'[k].seq
  BY <1>1 DEF NumbersGrow, Lossy
<1>3. /\ \A t \in Schemas : HasPrevious(t) => seq[t] + 1 <= records[t]
      /\ \A k \in 1 .. Len(sent) : wire[k].kind = "delta" => wire[k].seq + 1 < SeqMod
      /\ \A m, k \in 1 .. Len(sent) :
            /\ m < k
            /\ wire[m].schema = wire[k].schema
            /\ \A j \in m + 1 .. k :
                  wire[j].schema = wire[k].schema => wire[j].kind = "delta"
            => After(wire, m) <= wire[k].seq
  BY <1>1, <1>2 DEF NumbersGrow
<1>4. /\ lastPayload \in [Schemas -> Payloads \cup {NoPayload}]
      /\ seq \in [Schemas -> 0 .. SeqMod - 1] /\ records \in [Schemas -> Nat]
      /\ lastPayload' = [lastPayload EXCEPT ![s] = p]
  BY DEF TypeInv, TypeOK, Grows
<1>5. ASSUME AddsDelta(s, p)
      PROVE  /\ seq[s] \in Nat /\ records[s] \in Nat
             /\ seq[s] + 1 <= records[s] /\ seq[s] + 1 < SeqMod
             /\ NextSeq(seq[s]) = seq[s] + 1
  <2>1. seq[s] \in Nat /\ records[s] \in Nat /\ SeqMod \in Nat
    BY <1>4, Widths
  <2>2. seq[s] + 1 <= records[s] /\ records[s] < SeqMod
    BY <1>2, <1>3, <1>5 DEF AddsDelta
  <2>3. seq[s] + 1 < SeqMod
    BY <2>1, <2>2
  <2> QED
    BY <2>1, <2>2, <2>3, NextSeqSmall
<1>6. ASSUME NEW t \in Schemas, HasPrevious(t)'
      PROVE  seq'[t] + 1 <= records'[t]
  <2>1. CASE t # s
    <3>1. lastPayload'[t] = lastPayload[t] /\ seq'[t] = seq[t] /\ records'[t] = records[t]
      BY <1>4, <2>1 DEF AddsFull, PutsFull, AddsDelta
    <3> QED
      BY <1>3, <1>6, <3>1 DEF HasPrevious
  <2>2. CASE t = s /\ AddsFull(s, p)
    BY <1>4, <2>2 DEF AddsFull, PutsFull
  <2>3. CASE t = s /\ AddsDelta(s, p)
    <3>1. seq'[s] = seq[s] + 1 /\ records'[s] = records[s] + 1
      BY <1>4, <1>5, <2>3 DEF AddsDelta
    <3> QED
      BY <1>5, <2>3, <3>1
  <2> QED
    BY <2>1, <2>2, <2>3
<1>7. ASSUME wire'[n].kind = "delta"
      PROVE  AddsDelta(s, p) /\ wire'[n].schema = s /\ wire'[n].seq = seq[s]
  BY <1>7 DEF AddsFull, PutsFull, Full, AddsDelta, Delta
<1>8. \A k \in 1 .. n : wire'[k].kind = "delta" => wire'[k].seq + 1 < SeqMod
  <2>1. ASSUME NEW k \in 1 .. n, wire'[k].kind = "delta"
        PROVE  wire'[k].seq + 1 < SeqMod
    <3>1. CASE k = n
      BY <1>5, <1>7, <2>1, <3>1
    <3>2. CASE k # n
      <4>1. k \in 1 .. Len(sent)
        BY <1>1, <3>2
      <4> QED
        BY <1>1, <1>3, <2>1, <4>1
    <3> QED
      BY <3>1, <3>2
  <2> QED
    BY <2>1
<1>9. ASSUME NEW m \in 1 .. n, NEW k \in 1 .. n, m < k,
             wire'[m].schema = wire'[k].schema,
             \A j \in m + 1 .. k :
                wire'[j].schema = wire'[k].schema => wire'[j].kind = "delta"
      PROVE  After(wire', m) <= wire'[k].seq
  <2>1. m \in 1 .. Len(sent)
    BY <1>1, <1>9
  <2>2. wire'[m] = wire[m] /\ After(wire', m) = After(wire, m)
    BY <1>1, <2>1 DEF After
  <2>3. CASE k # n
    <3>1. k \in 1 .. Len(sent)
      BY <1>1, <2>3
    <3>2. \A j \in m + 1 .. k : wire'[j] = wire[j]
      BY <1>1, <2>1, <3>1
    <3>3. k \in m + 1 .. k
      BY <1>1, <1>9
    <3> QED
      BY <1>3, <1>9, <2>1, <2>2, <3>1, <3>2, <3>3
  <2>4. CASE k = n
    <3>1. n \in m + 1 .. n
      BY <1>1, <2>1
    <3>2. wire'[n].kind = "delta"
      BY <1>9, <2>4, <3>1
    <3>3. AddsDelta(s, p) /\ wire'[n].schema = s /\ wire'[n].seq = seq[s]
      BY <1>7, <3>2
    <3>4. PICK b \in 1 .. Len(sent) :
                 Latest(sent, s, Len(sent), b) /\ seq[s] = After(wire, b)
      BY <3>3 DEF AddsDelta, SenderStands
    <3>5. wire[m].schema = s /\ wire[b].schema = s
      BY <1>1, <1>9, <2>2, <2>4, <3>3, <3>4 DEF Latest, PacketsMatch
    <3>6. m <= b
      <4>1. SUFFICES ASSUME ~(m <= b) PROVE FALSE
        OBVIOUS
      <4>2. m \in b + 1 .. Len(sent)
        BY <1>1, <2>1, <4>1
      <4>3. sent[m].schema # s
        BY <3>4, <4>2 DEF Latest
      <4>4. sent[m].schema = wire[m].schema
        BY <1>1, <2>1 DEF PacketsMatch
      <4> QED
        BY <3>5, <4>3, <4>4
    <3>7. CASE m = b
      <4>1. After(wire, m) \in 0 .. SeqMod - 1
        BY <1>1, <2>1, WireTypes
      <4> QED
        BY <1>5, <2>2, <2>4, <3>3, <3>4, <3>7
    <3>8. CASE m # b
      <4>1. m < b
        BY <1>1, <2>1, <3>6, <3>8
      <4>2. \A j \in m + 1 .. b : wire'[j] = wire[j] /\ j \in m + 1 .. n
        BY <1>1, <2>1
      <4>3. \A j \in m + 1 .. b : wire[j].schema = s => wire[j].kind = "delta"
        BY <1>9, <2>4, <3>3, <4>2
      <4>4. After(wire, m) <= wire[b].seq
        BY <1>3, <2>1, <3>5, <4>1, <4>3
      <4>5. b \in m + 1 .. b
        BY <1>1, <2>1, <4>1
      <4>6. wire[b].kind = "delta"
        BY <3>5, <4>3, <4>5
      <4>7. wire[b].seq + 1 < SeqMod
        BY <1>3, <4>6
      <4>8. wire[b].seq \in Nat /\ After(wire, m) \in Nat
        BY <1>1, <2>1, <4>6, WireTypes, Widths
      <4>9. After(wire, b) = wire[b].seq + 1
        BY <4>6, <4>7, <4>8, NextSeqSmall DEF After
      <4> QED
        BY <2>2, <2>4, <3>3, <3>4, <4>4, <4>8, <4>9
    <3> QED
      BY <3>7, <3>8
  <2> QED
    BY <2>3, <2>4
<1> QED
  BY <1>6, <1>8, <1>9

LEMMA SendKnows ==
    ASSUME TypeInv, PacketsMatch, ReceiverKnows,
           NEW s \in Schemas, NEW p \in Payloads, Grows(s, p)
    PROVE  ReceiverKnows'
<1>1. Len(sent) \in Nat /\ taken \in 0 .. Len(sent) /\ taken' = taken
  BY DEF TypeInv, TypeOK, PacketsMatch, Grows
<1>2. \A k \in 1 .. taken : sent'[k] = sent[k]
  BY <1>1 DEF Grows
<1>3. lastDecoded' = lastDecoded
  BY DEF Grows
<1> QED
  BY <1>1, <1>2, <1>3 DEF ReceiverKnows, Lossy

\* What was delivered still names a record that was sent.
LEMMA SendDelivered ==
    ASSUME TypeInv, PacketsMatch, NeverMisdecode,
           NEW s \in Schemas, NEW p \in Payloads, Grows(s, p)
    PROVE  NeverMisdecode'
<1>1. Len(sent) \in Nat /\ Len(sent') = Len(sent) + 1
  BY DEF TypeInv, TypeOK, Grows
<1>2. DOMAIN sent = 1 .. Len(sent) /\ DOMAIN sent' = 1 .. Len(sent')
  <2>1. sent \in Seq(Records)
    BY DEF TypeInv, TypeOK
  <2>2. sent' \in Seq(Records)
    <3>1. sent' = Append(sent, [schema |-> s, payload |-> p])
      BY DEF Grows
    <3> QED
      BY <2>1, <3>1 DEF Records
  <2> QED
    BY <2>1, <2>2
<1>3. \A k \in 1 .. Len(sent) : sent'[k] = sent[k] /\ k \in 1 .. Len(sent')
  BY <1>1 DEF Grows
<1>4. delivered' = delivered
  BY DEF Grows
<1> QED
  BY <1>2, <1>3, <1>4 DEF NeverMisdecode

-----------------------------------------------------------------------------
(* Receiving keeps the invariant *)

\* The packet at the head of the channel is turned into the very record it
\* was made for, and the receiver stands right after it.
Decodes ==
    LET k == taken + 1
        s == sent[k].schema
    IN  /\ k \in 1 .. Len(sent)
        /\ taken' = k
        /\ lastDecoded' = [lastDecoded EXCEPT ![s] = sent[k].payload]
        /\ expected' = [expected EXCEPT ![s] = After(wire, k)]
        /\ delivered' = Append(delivered, [n |-> k, schema |-> s,
                                           payload |-> sent[k].payload])
        /\ UNCHANGED <<lastPayload, seq, records, batch, wire, sent, rejected>>

\* A delta goes by; the receiver stays where it stands.
Skips ==
    LET k == taken + 1
    IN  /\ k \in 1 .. Len(sent)
        /\ taken' = k
        /\ wire[k].kind = "delta"
        /\ Lossy \/ lastDecoded[sent[k].schema] = NoPayload
        /\ UNCHANGED <<lastPayload, seq, records, batch, wire, sent,
                       lastDecoded, expected, delivered>>

\* The packet at the head of the channel, in delta mode.
LEMMA HeadPacket ==
    ASSUME TypeInv, PacketsMatch, Arrival
    PROVE  /\ taken + 1 \in 1 .. Len(sent) /\ taken + 1 \in 1 .. Len(wire)
           /\ taken \in Nat /\ taken' = taken + 1
           /\ Arriving = wire[taken + 1]
           /\ Arriving.n = taken + 1
           /\ Arriving.schema = sent[taken + 1].schema
           /\ Arriving.schema \in Schemas
           /\ sent[taken + 1].payload \in Payloads
<1>1. /\ taken \in Nat /\ Len(wire) \in Nat /\ Len(wire) = Len(sent)
      /\ taken < Len(wire) /\ taken' = taken + 1
  BY DEF TypeInv, TypeOK, PacketsMatch, Arrival
<1>2. taken + 1 \in 1 .. Len(wire)
  BY <1>1
<1>3. wire[taken + 1].n = taken + 1 /\ wire[taken + 1].schema = sent[taken + 1].schema
  BY <1>2 DEF PacketsMatch
<1> QED
  BY <1>1, <1>2, <1>3, WireTypes DEF Arriving

LEMMA FullDecodes ==
    ASSUME TypeInv, PacketsMatch, ReceiveFull
    PROVE  Decodes
<1> DEFINE k == taken + 1
<1>1. Arrival /\ Arriving.kind = "full"
  BY DEF ReceiveFull
<1>2. /\ k \in 1 .. Len(sent) /\ k \in 1 .. Len(wire) /\ taken' = k
      /\ wire[k].kind = "full" /\ Arriving = wire[k] /\ wire[k].n = k
      /\ wire[k].schema = sent[k].schema
  BY <1>1, HeadPacket
<1>3. wire[k].payload = sent[k].payload
  BY <1>2 DEF PacketsMatch
<1>4. After(wire, k) = 0
  BY <1>2 DEF After
<1>5. /\ lastDecoded' = [lastDecoded EXCEPT ![sent[k].schema] = sent[k].payload]
      /\ expected' = [expected EXCEPT ![sent[k].schema] = 0]
  BY <1>2, <1>3 DEF ReceiveFull, RecordDecoded
<1>6. delivered' = Append(delivered, [n |-> k, schema |-> sent[k].schema,
                                      payload |-> sent[k].payload])
  BY <1>2, <1>3 DEF ReceiveFull, Delivery
<1>7. UNCHANGED <<lastPayload, seq, records, batch, wire, sent, rejected>>
  BY DEF ReceiveFull, sender
<1> QED
  BY <1>2, <1>4, <1>5, <1>6, <1>7 DEF Decodes

\* A delta whose number is the expected one was computed from the record
\* the receiver stands at: between that record and the delta's own base there
\* could be only lost deltas, over which the numbers have grown.
LEMMA SameBase ==
    ASSUME TypeInv, PacketsMatch, ReceiverStands, NumbersGrow,
           Arrival, Arriving.kind = "delta",
           lastDecoded[Arriving.schema] # NoPayload,
           Arriving.seq = expected[Arriving.schema] \/ ~Lossy
    PROVE  \E m \in 1 .. taken :
              /\ lastDecoded[Arriving.schema] = sent[m].payload
              /\ sent[m].payload \in Payloads
              /\ expected[Arriving.schema] = After(wire, m)
              /\ Arriving.seq = After(wire, m)
              /\ Arriving.patch = Patch(sent[m].payload, sent[taken + 1].payload)
<1> DEFINE k == taken + 1
           s == Arriving.schema
<1>1. /\ k \in 1 .. Len(wire) /\ taken \in Nat /\ Arriving = wire[k]
      /\ s = sent[k].schema /\ s \in Schemas /\ Len(wire) = Len(sent)
      /\ Len(wire) \in Nat
  BY HeadPacket DEF PacketsMatch, TypeInv, TypeOK
<1>2. PICK m \in 1 .. taken :
             /\ sent[m].schema = s
             /\ lastDecoded[s] = sent[m].payload
             /\ expected[s] = After(wire, m)
             /\ \A j \in m + 1 .. taken : sent[j].schema = s =>
                    wire[j].kind = "delta" /\ Lossy
  BY <1>1 DEF ReceiverStands
<1>3. PICK b \in 1 .. k - 1 :
             /\ Latest(sent, s, k - 1, b)
             /\ wire[k].seq = After(wire, b)
             /\ wire[k].patch = Patch(sent[b].payload, sent[k].payload)
  <2>1. wire[k].kind = "delta"
    BY <1>1
  <2> QED
    BY <1>1, <2>1 DEF PacketsMatch
<1>4. b \in 1 .. taken /\ sent[b].schema = s /\ \A j \in b + 1 .. taken : sent[j].schema # s
  <2>1. k - 1 = taken
    BY <1>1
  <2> QED
    BY <1>3, <2>1 DEF Latest
<1>5. \A j \in 1 .. taken : wire[j].schema = sent[j].schema /\ j \in 1 .. Len(wire)
  BY <1>1 DEF PacketsMatch
<1>6. ~ (b < m)
  <2>1. SUFFICES ASSUME b < m PROVE FALSE
    OBVIOUS
  <2>2. m \in b + 1 .. taken
    BY <1>1, <2>1
  <2> QED
    BY <1>2, <1>4, <2>2
<1>7. ~ (m < b)
  <2>1. SUFFICES ASSUME m < b PROVE FALSE
    OBVIOUS
  <2>2. b \in m + 1 .. taken
    BY <1>1, <1>4, <2>1
  <2>3. wire[b].kind = "delta" /\ Lossy
    BY <1>2, <1>4, <2>2
  <2>4. \A j \in m + 1 .. b : j \in m + 1 .. taken /\ j \in 1 .. taken
    BY <1>1, <1>4
  <2>5. wire[m].schema = s /\ wire[b].schema = s
    BY <1>2, <1>4, <1>5
  <2>6. \A j \in m + 1 .. b : wire[j].schema = s => wire[j].kind = "delta"
    BY <1>2, <1>5, <2>4
  <2>7. m \in 1 .. Len(wire) /\ b \in 1 .. Len(wire)
    BY <1>4, <1>5
  <2>8. After(wire, m) <= wire[b].seq
    BY <2>1, <2>3, <2>5, <2>6, <2>7 DEF NumbersGrow
  <2>9. wire[b].seq + 1 < SeqMod
    BY <2>3, <2>7 DEF NumbersGrow
  <2>10. wire[b].seq \in Nat /\ After(wire, m) \in Nat
    BY <2>3, <2>7, WireTypes, Widths
  <2>11. After(wire, b) = wire[b].seq + 1
    BY <2>3, <2>9, <2>10, NextSeqSmall DEF After
  <2>12. After(wire, b) = After(wire, m)
    BY <1>1, <1>2, <1>3, <2>3
  <2> QED
    BY <2>8, <2>10, <2>11, <2>12
<1>8. m = b
  BY <1>1, <1>6, <1>7
<1>9. sent[m].payload \in Payloads
  <2>1. m \in 1 .. Len(wire)
    BY <1>5
  <2> QED
    BY <2>1, WireTypes
<1> QED
  BY <1>1, <1>2, <1>3, <1>8, <1>9

LEMMA DeltaDecodes ==
    ASSUME TypeInv, PacketsMatch, ReceiverStands, NumbersGrow, ReceiveDelta
    PROVE  Decodes
<1> DEFINE k == taken + 1
           s == Arriving.schema
           p == ApplyPatch(lastDecoded[s], Arriving.patch)
<1>1. /\ Arrival /\ Arriving.kind = "delta"
      /\ lastDecoded[s] # NoPayload /\ Arriving.seq = expected[s]
  BY DEF ReceiveDelta, DeltaExpands
<1>2. /\ k \in 1 .. Len(sent) /\ taken' = k /\ Arriving = wire[k] /\ Arriving.n = k
      /\ s = sent[k].schema /\ sent[k].payload \in Payloads
  BY <1>1, HeadPacket
<1>3. PICK m \in 1 .. taken :
             /\ lastDecoded[s] = sent[m].payload
             /\ sent[m].payload \in Payloads
             /\ expected[s] = After(wire, m)
             /\ Arriving.seq = After(wire, m)
             /\ Arriving.patch = Patch(sent[m].payload, sent[k].payload)
  BY <1>1, SameBase
<1>4. p = sent[k].payload
  BY <1>2, <1>3, PatchRoundTrip
<1>5. After(wire, k) = NextSeq(expected[s])
  BY <1>1, <1>2 DEF After
<1>6. /\ lastDecoded' = [lastDecoded EXCEPT ![s] = p]
      /\ expected' = [expected EXCEPT ![s] = NextSeq(expected[s])]
  BY DEF ReceiveDelta, RecordDecodedDelta
<1>7. delivered' = Append(delivered, [n |-> k, schema |-> s, payload |-> p])
  BY <1>2 DEF ReceiveDelta, Delivery
<1>8. UNCHANGED <<lastPayload, seq, records, batch, wire, sent, rejected>>
  BY DEF ReceiveDelta, sender
<1> QED
  BY <1>2, <1>4, <1>5, <1>6, <1>7, <1>8 DEF Decodes

\* A delta is refused only if one was lost, or the receiver has no base.
LEMMA RejectSkips ==
    ASSUME TypeInv, PacketsMatch, ReceiverStands, NumbersGrow, RejectDelta
    PROVE  Skips
<1> DEFINE k == taken + 1
           s == Arriving.schema
<1>1. Arrival /\ Arriving.kind = "delta"
  BY DEF RejectDelta
<1>2. k \in 1 .. Len(sent) /\ taken' = k /\ Arriving = wire[k] /\ s = sent[k].schema
  BY <1>1, HeadPacket
<1>3. Lossy \/ lastDecoded[s] = NoPayload
  <2>1. SUFFICES ASSUME ~Lossy, lastDecoded[s] # NoPayload PROVE FALSE
    OBVIOUS
  <2>2. Arriving.seq = expected[s]
    BY <1>1, <2>1, SameBase
  <2> QED
    BY <2>1, <2>2 DEF RejectDelta, DeltaExpands
<1>4. UNCHANGED <<lastPayload, seq, records, batch, wire, sent, lastDecoded, expected,
                  delivered>>
  BY DEF RejectDelta, sender, receiver
<1> QED
  BY <1>1, <1>2, <1>3, <1>4 DEF Skips

LEMMA LoseSkips ==
    ASSUME TypeInv, PacketsMatch, DeltaSetting, Lose
    PROVE  Skips
<1>1. Arrival /\ Arriving.kind = "delta" /\ Lossy
  BY DEF Lose, DeltaSetting, Lossy
<1>2. UNCHANGED <<lastPayload, seq, records, batch, wire, sent, lastDecoded, expected,
                  delivered>>
  BY DEF Lose, sender, receiver, outcome
<1> QED
  BY <1>1, <1>2, HeadPacket DEF Skips

LEMMA PacketsStay ==
    ASSUME PacketsMatch, UNCHANGED <<batch, wire, sent>>
    PROVE  PacketsMatch'
  BY DEF PacketsMatch, After, Latest

\* Moving on to packet k keeps what does not depend on the receiver.
LEMMA HistoryStays ==
    ASSUME PacketsMatch, SenderStands, NumbersGrow,
           UNCHANGED <<lastPayload, seq, records, batch, wire, sent>>
    PROVE  PacketsMatch' /\ SenderStands' /\ NumbersGrow'
<1>1. PacketsMatch'
  BY DEF PacketsMatch, After, Latest
<1>2. SenderStands'
  BY DEF SenderStands, HasPrevious, After, Latest
<1>3. NumbersGrow'
  BY DEF NumbersGrow, HasPrevious, After, Lossy
<1> QED
  BY <1>1, <1>2, <1>3

LEMMA DecodesKeeps ==
    ASSUME TypeInv, PacketsMatch, ReceiverStands, ReceiverKnows, NeverMisdecode,
           Decodes
    PROVE  ReceiverStands' /\ ReceiverKnows' /\ NeverMisdecode'
<1> DEFINE k == taken + 1
           s == sent[k].schema
<1>1. /\ k \in 1 .. Len(sent) /\ k \in 1 .. Len(wire) /\ taken \in Nat /\ taken' = k
      /\ Len(sent) \in Nat
      /\ lastDecoded' = [lastDecoded EXCEPT ![s] = sent[k].payload]
      /\ expected' = [expected EXCEPT ![s] = After(wire, k)]
      /\ wire' = wire /\ sent' = sent
  BY DEF Decodes, TypeInv, TypeOK, PacketsMatch
<1>2. s \in Schemas /\ sent[k].payload \in Payloads
  BY <1>1, WireTypes
<1>3. /\ lastDecoded \in [Schemas -> Payloads \cup {NoPayload}]
      /\ expected \in [Schemas -> 0 .. SeqMod - 1]
  BY DEF TypeInv, TypeOK
<1>4. lastDecoded'[s] = sent[k].payload /\ expected'[s] = After(wire, k)
  BY <1>1, <1>2, <1>3
<1>5. \A t \in Schemas : t # s => lastDecoded'[t] = lastDecoded[t] /\ expected'[t] = expected[t]
  BY <1>1, <1>2, <1>3
<1>6. ReceiverStands'
  <2>1. SUFFICES ASSUME NEW t \in Schemas, lastDecoded'[t] # NoPayload
                 PROVE  \E m \in 1 .. k :
                           /\ sent[m].schema = t
                           /\ lastDecoded'[t] = sent[m].payload
                           /\ expected'[t] = After(wire, m)
                           /\ \A j \in m + 1 .. k : sent[j].schema = t =>
                                  wire[j].kind = "delta" /\ Lossy
    BY <1>1 DEF ReceiverStands, After, Lossy
  <2>2. CASE t = s
    <3>1. k \in 1 .. k /\ k + 1 .. k = {}
      BY <1>1
    <3> QED
      BY <1>4, <2>2, <3>1
  <2>3. CASE t # s
    <3>1. PICK m \in 1 .. taken :
                 /\ sent[m].schema = t
                 /\ lastDecoded[t] = sent[m].payload
                 /\ expected[t] = After(wire, m)
                 /\ \A j \in m + 1 .. taken : sent[j].schema = t =>
                        wire[j].kind = "delta" /\ Lossy
      BY <1>5, <2>1, <2>3 DEF ReceiverStands
    <3>2. m \in 1 .. k /\ \A j \in m + 1 .. k : j \in m + 1 .. taken \/ j = k
      BY <1>1
    <3> QED
      BY <1>5, <2>3, <3>1, <3>2
  <2> QED
    BY <2>2, <2>3
<1>7. NoPayload \notin Payloads
  BY LinkAssumption
<1>8. ReceiverKnows'
  <2>1. SUFFICES ASSUME ~Lossy, "resetReceiver" \notin Events, NEW j \in 1 .. k
                 PROVE  lastDecoded'[sent[j].schema] # NoPayload
    BY <1>1 DEF ReceiverKnows, Lossy
  <2>2. CASE sent[j].schema = s
    BY <1>2, <1>4, <1>7, <2>2
  <2>3. CASE sent[j].schema # s
    <3>1. j # k
      BY <2>3
    <3>2. j \in 1 .. taken /\ j \in 1 .. Len(wire)
      BY <1>1, <3>1
    <3>3. sent[j].schema \in Schemas
      BY <3>2, WireTypes
    <3>4. lastDecoded[sent[j].schema] # NoPayload
      BY <2>1, <3>2 DEF ReceiverKnows
    <3> QED
      BY <1>5, <2>3, <3>3, <3>4
  <2> QED
    BY <2>2, <2>3
<1>9. NeverMisdecode'
  <2> DEFINE d == [n |-> k, schema |-> s, payload |-> sent[k].payload]
             Deliveries == [n : Nat, schema : Schemas, payload : Payloads]
  <2>1. delivered' = Append(delivered, d) /\ delivered \in Seq(Deliveries)
    BY DEF Decodes, TypeInv, TypeOK
  <2>2. d \in Deliveries /\ d.n = k /\ d.schema = s /\ d.payload = sent[k].payload
    BY <1>1, <1>2
  <2> HIDE DEF d, Deliveries
  <2>3. sent[k] = [schema |-> s, payload |-> sent[k].payload] /\ k \in DOMAIN sent
    <3>1. sent \in Seq(Records)
      BY DEF TypeInv, TypeOK
    <3>2. sent[k] \in Records /\ k \in DOMAIN sent
      BY <1>1, <3>1
    <3> QED
      BY <3>2 DEF Records
  <2>4. \A i \in DOMAIN delivered' :
           delivered'[i] = d \/ (i \in DOMAIN delivered /\ delivered'[i] = delivered[i])
    BY <2>1, <2>2
  <2>5. SUFFICES ASSUME NEW i \in DOMAIN delivered'
                 PROVE  /\ delivered'[i].n \in DOMAIN sent
                        /\ sent[delivered'[i].n] = [schema |-> delivered'[i].schema,
                                                    payload |-> delivered'[i].payload]
    BY <1>1 DEF NeverMisdecode
  <2>6. CASE delivered'[i] = d
    BY <2>2, <2>3, <2>6
  <2>7. CASE i \in DOMAIN delivered /\ delivered'[i] = delivered[i]
    BY <2>7 DEF NeverMisdecode
  <2> QED
    BY <2>4, <2>6, <2>7
<1> QED
  BY <1>6, <1>8, <1>9

LEMMA SkipsKeeps ==
    ASSUME TypeInv, PacketsMatch, ReceiverStands, ReceiverKnows, NeverMisdecode,
           Skips
    PROVE  ReceiverStands' /\ ReceiverKnows' /\ NeverMisdecode'
<1> DEFINE k == taken + 1
           s == sent[k].schema
<1>1. /\ k \in 1 .. Len(sent) /\ k \in 1 .. Len(wire) /\ taken \in Nat /\ taken' = k
      /\ Len(sent) \in Nat /\ Len(wire) = Len(sent)
      /\ lastDecoded' = lastDecoded /\ expected' = expected
      /\ wire' = wire /\ sent' = sent
      /\ wire[k].kind = "delta"
      /\ Lossy \/ lastDecoded[s] = NoPayload
  BY DEF Skips, TypeInv, TypeOK, PacketsMatch
<1>2. ReceiverStands'
  <2>1. SUFFICES ASSUME NEW t \in Schemas, lastDecoded[t] # NoPayload
                 PROVE  \E m \in 1 .. k :
                           /\ sent[m].schema = t
                           /\ lastDecoded[t] = sent[m].payload
                           /\ expected[t] = After(wire, m)
                           /\ \A j \in m + 1 .. k : sent[j].schema = t =>
                                  wire[j].kind = "delta" /\ Lossy
    BY <1>1 DEF ReceiverStands, After, Lossy
  <2>2. PICK m \in 1 .. taken :
               /\ sent[m].schema = t
               /\ lastDecoded[t] = sent[m].payload
               /\ expected[t] = After(wire, m)
               /\ \A j \in m + 1 .. taken : sent[j].schema = t =>
                      wire[j].kind = "delta" /\ Lossy
    BY <2>1 DEF ReceiverStands
  <2>3. m \in 1 .. k /\ \A j \in m + 1 .. k : j \in m + 1 .. taken \/ j = k
    BY <1>1
  <2>4. s = t => wire[k].kind = "delta" /\ Lossy
    BY <1>1, <2>1
  <2> QED
    BY <2>2, <2>3, <2>4
<1>3. ReceiverKnows'
  <2>1. SUFFICES ASSUME ~Lossy, "resetReceiver" \notin Events, NEW j \in 1 .. k
                 PROVE  lastDecoded[sent[j].schema] # NoPayload
    BY <1>1 DEF ReceiverKnows, Lossy
  <2>2. \A i \in 1 .. taken : lastDecoded[sent[i].schema] # NoPayload
    BY <2>1 DEF ReceiverKnows
  <2>3. PICK m \in 1 .. k - 1 : Latest(sent, s, k - 1, m)
    BY <1>1 DEF PacketsMatch
  <2>4. m \in 1 .. taken /\ sent[m].schema = s
    BY <1>1, <2>3 DEF Latest
  <2>5. j \in 1 .. taken \/ j = k
    BY <1>1
  <2> QED
    BY <2>2, <2>4, <2>5
<1>4. NeverMisdecode'
  BY <1>1 DEF NeverMisdecode, Skips
<1> QED
  BY <1>2, <1>3, <1>4

-----------------------------------------------------------------------------
(* The theorems *)

\* The inductive invariant: the types, the five parts of DeltaInv, what has
\* been delivered, and that nothing is refused without a loss or a reset.
DeltaSafe ==
    /\ TypeInv
    /\ PacketsMatch
    /\ SenderStands
    /\ ReceiverStands
    /\ NumbersGrow
    /\ ReceiverKnows
    /\ NeverMisdecode
    /\ ~Lossy /\ "resetReceiver" \notin Events => NothingRejected

LEMMA DeltaSafeInit == Init => DeltaSafe
<1> SUFFICES ASSUME Init PROVE DeltaSafe
  OBVIOUS
<1>1. TypeInv
  BY TypeInductive
<1>2. /\ wire = <<>> /\ sent = <<>> /\ batch = <<>> /\ taken = 0 /\ delivered = <<>>
      /\ rejected = {}
      /\ \A s \in Schemas : lastPayload[s] = NoPayload /\ lastDecoded[s] = NoPayload
  BY DEF Init
<1>3. Len(wire) = 0 /\ Len(sent) = 0 /\ 1 .. 0 = {} /\ DOMAIN delivered = {}
  BY <1>2
<1>4. PacketsMatch
  BY <1>2, <1>3 DEF PacketsMatch
<1>5. SenderStands /\ ReceiverStands
  BY <1>2 DEF SenderStands, ReceiverStands, HasPrevious
<1>6. NumbersGrow
  BY <1>2, <1>3 DEF NumbersGrow, HasPrevious
<1>7. ReceiverKnows /\ NeverMisdecode /\ NothingRejected
  BY <1>2, <1>3 DEF ReceiverKnows, NeverMisdecode, NothingRejected
<1> QED
  BY <1>1, <1>4, <1>5, <1>6, <1>7 DEF DeltaSafe

\* In delta mode, over an ordered channel that delivers every full packet,
\* every step keeps the invariant.
LEMMA DeltaSafeStep ==
    ASSUME DeltaSetting, DeltaSafe, [Next]_vars
    PROVE  DeltaSafe'
<1> USE DEF DeltaSafe
<1>1. TypeInv'
  BY TypeInductive
<1>2. CASE \E s \in Schemas, p \in Payloads : SendStream(s, p)
  <2>1. PICK s \in Schemas, p \in Payloads : SendStream(s, p)
    BY <1>2
  <2>2. Grows(s, p) /\ (AddsFull(s, p) \/ AddsDelta(s, p))
    BY <2>1, SendCases
  <2>3. rejected' = rejected
    BY <2>2 DEF Grows
  <2>4. PacketsMatch' /\ SenderStands'
    <3>1. PutsFull(s, p) \/ AddsDelta(s, p)
      BY <2>2 DEF AddsFull
    <3> QED
      BY <2>2, <3>1, SendPackets, SendSender
  <2>5. ReceiverStands' /\ NumbersGrow'
    BY <2>2, SendReceiver, SendNumbers
  <2>6. ReceiverKnows' /\ NeverMisdecode'
    BY <2>2, SendKnows, SendDelivered
  <2> QED
    BY <1>1, <2>3, <2>4, <2>5, <2>6 DEF NothingRejected, Lossy
<1>3. ASSUME Decodes PROVE DeltaSafe'
  <2>1. UNCHANGED <<lastPayload, seq, records, batch, wire, sent, rejected>>
    BY <1>3 DEF Decodes
  <2> QED
    BY <1>1, <1>3, <2>1, HistoryStays, DecodesKeeps DEF NothingRejected, Lossy
<1>4. ASSUME Skips, ~Lossy /\ "resetReceiver" \notin Events => rejected' = rejected
      PROVE  DeltaSafe'
  <2>1. UNCHANGED <<lastPayload, seq, records, batch, wire, sent>>
    BY <1>4 DEF Skips
  <2> QED
    BY <1>1, <1>4, <2>1, HistoryStays, SkipsKeeps DEF NothingRejected, Lossy
<1>5. CASE ReceiveFull
  BY <1>3, <1>5, FullDecodes
<1>6. CASE ReceiveDelta
  BY <1>3, <1>6, DeltaDecodes
<1>7. CASE RejectDelta
  <2>1. Skips
    BY <1>7, RejectSkips
  <2>2. ~(~Lossy /\ "resetReceiver" \notin Events)
    <3>1. SUFFICES ASSUME ~Lossy, "resetReceiver" \notin Events PROVE FALSE
      OBVIOUS
    <3>2. /\ taken + 1 \in 1 .. taken' /\ sent' = sent /\ lastDecoded' = lastDecoded
          /\ lastDecoded[sent[taken + 1].schema] = NoPayload
      BY <2>1, <3>1 DEF Skips, TypeInv, TypeOK
    <3>3. ReceiverKnows'
      BY <2>1, SkipsKeeps
    <3> QED
      BY <3>1, <3>2, <3>3 DEF ReceiverKnows, Lossy
  <2> QED
    BY <1>4, <2>1, <2>2
<1>8. CASE Lose
  <2>1. rejected' = rejected
    BY <1>8 DEF Lose, outcome
  <2> QED
    BY <1>4, <1>8, <2>1, LoseSkips
<1>9. ASSUME UNCHANGED <<taken, lastDecoded, expected, wire, sent, delivered, rejected>>
      PROVE  ReceiverStands' /\ ReceiverKnows' /\ NeverMisdecode' /\ rejected' = rejected
  BY <1>9 DEF ReceiverStands, ReceiverKnows, NeverMisdecode, After, Lossy
<1>10. CASE ResetSender
  <2>1. /\ UNCHANGED <<taken, lastDecoded, expected, wire, sent, delivered, rejected>>
        /\ batch' = <<>> /\ \A s \in Schemas : lastPayload'[s] = NoPayload
    BY <1>10 DEF ResetSender, Control, channel, receiver, outcome
  <2>2. PacketsMatch'
    <3>1. UNCHANGED <<batch, wire, sent>>
      BY <2>1 DEF PacketsMatch
    <3> QED
      BY <3>1, PacketsStay
  <2>3. SenderStands'
    BY <2>1 DEF SenderStands, HasPrevious
  <2>4. NumbersGrow'
    BY <2>1 DEF NumbersGrow, HasPrevious, After, Lossy
  <2> QED
    BY <1>1, <1>9, <2>1, <2>2, <2>3, <2>4 DEF NothingRejected, Lossy
<1>11. CASE ResetReceiver
  <2>1. /\ UNCHANGED <<lastPayload, seq, records, batch, wire, sent, delivered, rejected>>
        /\ "resetReceiver" \in Events
        /\ \A s \in Schemas : lastDecoded'[s] = NoPayload
    BY <1>11 DEF ResetReceiver, Control, channel, sender, outcome
  <2>2. ReceiverStands' /\ ReceiverKnows'
    BY <2>1 DEF ReceiverStands, ReceiverKnows
  <2>3. NeverMisdecode'
    BY <2>1 DEF NeverMisdecode
  <2> QED
    BY <1>1, <2>1, <2>2, <2>3, HistoryStays DEF NothingRejected, Lossy
<1>12. ASSUME UNCHANGED <<lastPayload, seq, records, batch, taken, lastDecoded, expected,
                          wire, sent, delivered, rejected>>
       PROVE  DeltaSafe'
  BY <1>1, <1>9, <1>12, HistoryStays DEF NothingRejected, Lossy
<1>13. ASSUME NEW c \in Configs, Configure(c) \/ ApplySettings(c)
       PROVE  DeltaSafe'
  <2>1. c.delta /\ cfg.delta
    BY DEF DeltaSetting, TypeInv, TypeOK
  <2>2. UNCHANGED <<lastPayload, seq, records, batch, taken, lastDecoded, expected,
                    wire, sent, delivered, rejected>>
    BY <1>13, <2>1
    DEF Configure, ApplySettings, Control, sender, receiver, channel, outcome
  <2> QED
    BY <1>12, <2>2
<1>14. ~Flush /\ ~ReceiveBatch
  <2>1. ~Flush
    BY DEF Flush, PacketsMatch
  <2>2. SUFFICES ASSUME ReceiveBatch PROVE FALSE
    BY <2>1
  <2>3. Arrival /\ Arriving.kind = "batch"
    BY <2>2 DEF ReceiveBatch
  <2>4. taken + 1 \in 1 .. Len(wire) /\ Arriving = wire[taken + 1]
    BY <2>3, HeadPacket
  <2> QED
    BY <2>3, <2>4, WireTypes
<1>15. ~ReceiveRecovered /\ ~Overtake
  BY DEF ReceiveRecovered, Overtake, DeltaSetting
<1>16. CASE UNCHANGED vars
  BY <1>12, <1>16 DEF vars, sender, receiver, channel, outcome
<1> QED
  BY <1>2, <1>5, <1>6, <1>7, <1>8, <1>10, <1>11, <1>13, <1>14, <1>15, <1>16
  DEF Next, ReceiveStream

\* "Reject, never misdecode": in delta mode, while every full packet arrives
\* in order, whatever deltas are lost and whatever is reset or reconfigured,
\* the application at the receiver sees only records that were sent.
THEOREM DeltaNeverMisdecodes ==
    ASSUME DeltaSetting
    PROVE  Spec => []NeverMisdecode
<1>1. DeltaSafe /\ [Next]_vars => DeltaSafe'
  BY DeltaSafeStep
<1>2. DeltaSafe => NeverMisdecode
  BY DEF DeltaSafe
<1> QED
  BY <1>1, <1>2, DeltaSafeInit, PTL DEF Spec

\* Both ends always stand at records of the history, and every packet between
\* them is a step from one record of its schema to the next.
THEOREM DeltaInvariant == Spec => []DeltaInv
<1>1. CASE DeltaSetting
  <2>1. DeltaSafe /\ [Next]_vars => DeltaSafe'
    BY <1>1, DeltaSafeStep
  <2>2. DeltaSafe => DeltaInv
    BY DEF DeltaSafe, DeltaInv
  <2> QED
    BY <2>1, <2>2, DeltaSafeInit, PTL DEF Spec
<1>2. CASE ~DeltaSetting
  <2>1. DeltaInv
    BY <1>2 DEF DeltaInv
  <2> QED
    BY <2>1, PTL
<1> QED
  BY <1>1, <1>2

\* Without loss, and without a reset of the receiver, no delta is refused:
\* the sender restarts its numbers exactly when the receiver does.
THEOREM DeltaNothingRejected ==
    ASSUME DeltaSetting, ~Lossy, "resetReceiver" \notin Events
    PROVE  Spec => []NothingRejected
<1>1. DeltaSafe /\ [Next]_vars => DeltaSafe'
  BY DeltaSafeStep
<1>2. DeltaSafe => NothingRejected
  BY DEF DeltaSafe
<1> QED
  BY <1>1, <1>2, DeltaSafeInit, PTL DEF Spec

\* Two ends that stand at records of the history stand at the same one when
\* there is nothing between them.
LEMMA StandInSync ==
    ASSUME TypeInv, PacketsMatch, SenderStands, ReceiverStands, ReceiverKnows,
           ~Lossy, "resetReceiver" \notin Events
    PROVE  InSync
<1> SUFFICES ASSUME taken = Len(wire), NEW s \in Schemas, HasPrevious(s)
             PROVE  lastDecoded[s] = lastPayload[s] /\ expected[s] = seq[s]
  BY DEF InSync
<1>1. taken = Len(sent) /\ Len(sent) \in Nat
  BY DEF PacketsMatch, TypeInv, TypeOK
<1>2. PICK m \in 1 .. taken :
             /\ Latest(sent, s, taken, m)
             /\ lastPayload[s] = sent[m].payload
             /\ seq[s] = After(wire, m)
  BY <1>1 DEF SenderStands
<1>3. sent[m].schema = s /\ \A k \in m + 1 .. taken : sent[k].schema # s
  BY <1>2 DEF Latest
<1>4. lastDecoded[s] # NoPayload
  BY <1>3 DEF ReceiverKnows
<1>5. PICK b \in 1 .. taken :
             /\ sent[b].schema = s
             /\ lastDecoded[s] = sent[b].payload
             /\ expected[s] = After(wire, b)
             /\ \A k \in b + 1 .. taken : sent[k].schema # s
  BY <1>4 DEF ReceiverStands
<1>6. m = b
  <2>1. ~(m < b)
    BY <1>1, <1>3, <1>5
  <2>2. ~(b < m)
    BY <1>1, <1>3, <1>5
  <2> QED
    BY <1>1, <2>1, <2>2
<1> QED
  BY <1>2, <1>5, <1>6

\* Without loss the two ends agree whenever the channel is empty: they stand
\* at the same record and count the same number next.
THEOREM DeltaInSync ==
    ASSUME DeltaSetting, ~Lossy, "resetReceiver" \notin Events
    PROVE  Spec => []InSync
<1>1. DeltaSafe /\ [Next]_vars => DeltaSafe'
  BY DeltaSafeStep
<1>2. DeltaSafe => InSync
  BY StandInSync DEF DeltaSafe
<1> QED
  BY <1>1, <1>2, DeltaSafeInit, PTL DEF Spec

-----------------------------------------------------------------------------
(* The refinement: a stream in delta mode implements RecordStream *)

\* What every step is to the two applications: a record is sent, the next one
\* is handed over, or nothing happens to either.
LEMMA StepShape ==
    ASSUME DeltaSetting, DeltaSafe, [Next]_vars
    PROVE  \/ \E s \in Schemas, p \in Payloads : SendStream(s, p)
           \/ Decodes
           \/ UNCHANGED <<sent, delivered>> /\ taken' \in {taken, taken + 1}
<1> USE DEF DeltaSafe
<1>1. CASE ReceiveFull \/ ReceiveDelta
  BY <1>1, FullDecodes, DeltaDecodes
<1>2. CASE RejectDelta \/ Lose
  BY <1>2 DEF RejectDelta, Lose, Arrival, outcome
<1>3. CASE \/ Flush \/ ResetSender \/ ResetReceiver
           \/ \E c \in Configs : Configure(c) \/ ApplySettings(c)
  BY <1>3 DEF Flush, ResetSender, ResetReceiver, Configure, ApplySettings, Control,
              channel, outcome
<1>4. CASE ReceiveBatch
  <2>1. Arrival /\ Arriving.kind = "batch"
    BY <1>4 DEF ReceiveBatch
  <2>2. taken + 1 \in 1 .. Len(wire) /\ Arriving = wire[taken + 1]
    BY <2>1, HeadPacket
  <2> QED
    BY <2>1, <2>2, WireTypes
<1>5. ~ReceiveRecovered /\ ~Overtake
  BY DEF ReceiveRecovered, Overtake, DeltaSetting
<1>6. CASE UNCHANGED vars
  BY <1>6 DEF vars, channel, outcome
<1> QED
  BY <1>1, <1>2, <1>3, <1>4, <1>5, <1>6 DEF Next, ReceiveStream

\* Deliveries are in the order of sending, and none is ahead of the channel.
InOrder ==
    /\ \A i \in DOMAIN delivered : delivered[i].n <= taken
    /\ \A i \in DOMAIN delivered : i > 1 => delivered[i - 1].n < delivered[i].n

LEMMA StaysInOrder ==
    ASSUME TypeInv, InOrder, \/ Decodes
                             \/ UNCHANGED delivered /\ taken' \in {taken, taken + 1}
    PROVE  InOrder'
<1>1. /\ delivered \in Seq([n : Nat, schema : Schemas, payload : Payloads])
      /\ taken \in Nat
  BY DEF TypeInv, TypeOK
<1>2. DOMAIN delivered = 1 .. Len(delivered) /\ \A i \in DOMAIN delivered : delivered[i].n \in Nat
  <2> DEFINE D == [n : Nat, schema : Schemas, payload : Payloads]
  <2>1. \A r \in D : r.n \in Nat
    OBVIOUS
  <2>2. delivered \in Seq(D)
    BY <1>1
  <2> HIDE DEF D
  <2> QED
    BY <2>1, <2>2
<1>3. CASE UNCHANGED delivered /\ taken' \in {taken, taken + 1}
  BY <1>1, <1>2, <1>3 DEF InOrder
<1>4. CASE Decodes
  <2> DEFINE d == [n |-> taken + 1, schema |-> sent[taken + 1].schema,
                   payload |-> sent[taken + 1].payload]
  <2>1. delivered' = Append(delivered, d) /\ taken' = taken + 1
    BY <1>4 DEF Decodes
  <2>2. /\ Len(delivered') = Len(delivered) + 1
        /\ \A i \in 1 .. Len(delivered) : delivered'[i] = delivered[i]
        /\ delivered'[Len(delivered) + 1] = d
        /\ DOMAIN delivered' = 1 .. Len(delivered) + 1
        /\ DOMAIN delivered = 1 .. Len(delivered) /\ Len(delivered) \in Nat
    BY <1>1, <2>1
  <2>3. d.n = taken + 1
    OBVIOUS
  <2> HIDE DEF d
  <2>4. \A i \in 1 .. Len(delivered) : delivered[i].n \in Nat /\ delivered[i].n <= taken
    BY <1>2 DEF InOrder
  <2>5. ASSUME NEW i \in 1 .. Len(delivered) + 1
        PROVE  delivered'[i].n <= taken'
    <3>1. CASE i = Len(delivered) + 1
      <4>1. delivered'[i].n = taken + 1
        BY <2>2, <2>3, <3>1
      <4> QED
        BY <1>1, <2>1, <4>1
    <3>2. CASE i # Len(delivered) + 1
      <4>1. i \in 1 .. Len(delivered)
        BY <2>2, <3>2
      <4>2. delivered'[i].n \in Nat /\ delivered'[i].n <= taken
        BY <2>2, <2>4, <4>1
      <4> QED
        BY <1>1, <2>1, <4>2
    <3> QED
      BY <3>1, <3>2
  <2>6. ASSUME NEW i \in 1 .. Len(delivered) + 1, i > 1
        PROVE  delivered'[i - 1].n < delivered'[i].n
    <3>1. CASE i = Len(delivered) + 1
      <4>1. delivered'[i - 1] = delivered[i - 1] /\ i - 1 \in 1 .. Len(delivered)
        BY <2>2, <2>6, <3>1
      <4>2. delivered'[i].n = taken + 1 /\ delivered[i - 1].n <= taken
        BY <2>2, <2>3, <2>4, <3>1, <4>1
      <4> QED
        BY <1>1, <2>4, <4>1, <4>2
    <3>2. CASE i # Len(delivered) + 1
      <4>1. i \in 1 .. Len(delivered) /\ i - 1 \in 1 .. Len(delivered)
        BY <2>2, <2>6, <3>2
      <4>2. delivered[i - 1].n < delivered[i].n
        BY <2>2, <2>6, <4>1 DEF InOrder
      <4>3. delivered'[i] = delivered[i] /\ delivered'[i - 1] = delivered[i - 1]
        BY <2>2, <4>1
      <4> QED
        BY <4>2, <4>3
    <3> QED
      BY <3>1, <3>2
  <2> QED
    BY <2>2, <2>5, <2>6 DEF InOrder
<1> QED
  BY <1>3, <1>4

LEMMA InOrderStep ==
    ASSUME DeltaSetting, DeltaSafe, InOrder, [Next]_vars
    PROVE  InOrder'
<1> USE DEF DeltaSafe
<1>1. ASSUME NEW s \in Schemas, NEW p \in Payloads, SendStream(s, p)
      PROVE  InOrder'
  <2>1. Grows(s, p)
    BY <1>1, SendCases
  <2>2. UNCHANGED delivered /\ taken' = taken
    BY <2>1 DEF Grows
  <2> QED
    BY <2>2, StaysInOrder
<1> QED
  BY <1>1, StaysInOrder, StepShape

\* The deliveries as RecordStream sees them.
Got == [i \in DOMAIN delivered |->
          [n |-> delivered[i].n,
           record |-> [schema |-> delivered[i].schema, payload |-> delivered[i].payload]]]

LEMMA SendRefines ==
    ASSUME NEW s \in Schemas, NEW p \in Payloads, Grows(s, p)
    PROVE  Stream!Next
<1>1. /\ sent' = Append(sent, [schema |-> s, payload |-> p])
      /\ delivered' = delivered
      /\ [schema |-> s, payload |-> p] \in Records
  BY DEF Grows, Records
<1>2. Stream!Send
  BY <1>1 DEF Stream!Send
<1> QED
  BY <1>2 DEF Stream!Next

LEMMA DeliverRefines ==
    ASSUME TypeInv, NeverMisdecode', InOrder', Decodes
    PROVE  Stream!Next
<1> DEFINE d == [n |-> taken + 1, schema |-> sent[taken + 1].schema,
                 payload |-> sent[taken + 1].payload]
           m == Len(delivered)
<1>1. /\ delivered' = Append(delivered, d) /\ sent' = sent
  BY DEF Decodes
<1>2. delivered \in Seq([n : Nat, schema : Schemas, payload : Payloads])
  BY DEF TypeInv, TypeOK
<1>3. /\ m \in Nat /\ DOMAIN delivered = 1 .. m /\ DOMAIN delivered' = 1 .. m + 1
      /\ \A i \in 1 .. m : delivered'[i] = delivered[i]
  BY <1>1, <1>2
<1>4. /\ Got = [i \in 1 .. m |-> Got[i]] /\ Got' = [i \in 1 .. m + 1 |-> Got'[i]]
      /\ \A i \in 1 .. m : Got'[i] = Got[i]
  BY <1>3 DEF Got
<1>5. Len(Got) = m /\ Len(Got') = m + 1
  <2> HIDE DEF m
  <2> QED
    BY <1>3 DEF Got
<1>6. SubSeq(Got', 1, m) = Got
  <2>1. SubSeq(Got', 1, m) = [i \in 1 .. m |-> Got'[i]]
    <3> HIDE DEF m
    <3> QED
      BY <1>3
  <2> QED
    BY <1>4, <2>1
<1>7. \A i \in 1 .. m + 1 : Got'[i].n \in DOMAIN sent /\ sent[Got'[i].n] = Got'[i].record
  <2> TAKE i \in 1 .. m + 1
  <2>1. /\ delivered'[i].n \in DOMAIN sent
        /\ sent[delivered'[i].n] = [schema |-> delivered'[i].schema,
                                    payload |-> delivered'[i].payload]
    BY <1>1, <1>3 DEF NeverMisdecode
  <2> QED
    BY <1>3, <2>1 DEF Got
<1>8. \A i \in m + 1 .. m + 1 : i > 1 => Got'[i - 1].n < Got'[i].n
  BY <1>3 DEF InOrder, Got
<1>9. Stream!Faithful(Got', m + 1)
  BY <1>3, <1>4, <1>5, <1>7, <1>8 DEF Stream!Faithful
<1>10. Stream!Deliver
  <2>1. m + 1 > m /\ SubSeq(Got', 1, Len(Got)) = Got /\ Stream!Faithful(Got', Len(Got) + 1)
    BY <1>3, <1>5, <1>6, <1>9
  <2> QED
    BY <1>1, <1>5, <2>1 DEF Stream!Deliver, Got
<1> QED
  BY <1>10 DEF Stream!Next

\* FaithfulStream for the delta mode: StreamLink implements RecordStream under
\* the mapping that shows of the link only what its applications see.
THEOREM StreamFaithful ==
    ASSUME DeltaSetting
    PROVE  Spec => FaithfulStream
<1> DEFINE Inv == DeltaSafe /\ InOrder
<1>1. Init => Inv /\ Stream!Init
  <2> SUFFICES ASSUME Init PROVE InOrder /\ Stream!Init
    BY DeltaSafeInit
  <2> QED
    BY DEF Init, InOrder, Stream!Init
<1>2. Inv /\ [Next]_vars => Inv'
  BY DeltaSafeStep, InOrderStep
<1>3. Inv /\ Inv' /\ [Next]_vars => [Stream!Next]_<<sent, Got>>
  <2> SUFFICES ASSUME Inv, Inv', [Next]_vars PROVE [Stream!Next]_<<sent, Got>>
    OBVIOUS
  <2>1. CASE UNCHANGED <<sent, delivered>>
    BY <2>1 DEF Got
  <2>2. ASSUME NEW s \in Schemas, NEW p \in Payloads, SendStream(s, p)
        PROVE  Stream!Next
    BY <2>2, SendCases, SendRefines DEF DeltaSafe
  <2>3. CASE Decodes
    BY <2>3, DeliverRefines DEF DeltaSafe
  <2> QED
    BY <2>1, <2>2, <2>3, StepShape
<1> QED
  BY <1>1, <1>2, <1>3, PTL DEF Spec, FaithfulStream, Stream!Spec, Got

-----------------------------------------------------------------------------
(* How long an outage lasts *)

\* The settings stay as they are, and no delta goes out when a keyframe is due.
FixedInterval ==
    /\ DeltaSetting
    /\ ~FirstConfig.reuse
    /\ Events \cap {"configure", "apply"} = {}

From(s, f) == {k \in RecordsOf(s) : f <= k}
Between(s, a, b) == {k \in RecordsOf(s) : a <= k /\ k <= b}

\* Only deltas are refused.
DeltasRefused == \A k \in rejected : k \in 1 .. Len(wire) /\ wire[k].kind = "delta"

\* The counter of the sender covers the records since its last full packet.
Covered ==
    \A s \in Schemas : HasPrevious(s) =>
        \E f \in RecordsOf(s) :
            wire[f].kind = "full" /\ Cardinality(From(s, f)) <= records[s]

\* As many consecutive records as the interval counts hold a full packet.
KeyframesOften ==
    \A s \in Schemas : \A a, b \in RecordsOf(s) :
        Cardinality(Between(s, a, b)) >= FirstConfig.keyframe =>
            \E k \in Between(s, a, b) : wire[k].kind = "full"

OutageInv ==
    /\ DeltaSafe
    /\ cfg = FirstConfig
    /\ DeltasRefused
    /\ Covered
    /\ KeyframesOften

LEMMA RecordsFinite ==
    ASSUME TypeInv, NEW s
    PROVE  /\ RecordsOf(s) \subseteq 1 .. Len(sent) /\ Len(sent) \in Nat
           /\ \A T \in SUBSET RecordsOf(s) : IsFiniteSet(T) /\ Cardinality(T) \in Nat
<1>1. sent \in Seq(Records)
  BY DEF TypeInv, TypeOK
<1>2. RecordsOf(s) \subseteq 1 .. Len(sent) /\ Len(sent) \in Nat
  BY <1>1 DEF RecordsOf
<1>3. IsFiniteSet(1 .. Len(sent))
  BY <1>2, FS_Interval
<1> QED
  BY <1>2, <1>3, FS_Subset, FS_CardinalityType

\* What one send does to the records of each schema.
LEMMA OneRecordMore ==
    ASSUME TypeInv, PacketsMatch, NEW s \in Schemas, NEW p \in Payloads, Grows(s, p)
    PROVE  /\ RecordsOf(s)' = RecordsOf(s) \cup {Len(sent) + 1}
           /\ \A t \in Schemas \ {s} : RecordsOf(t)' = RecordsOf(t)
           /\ \A k \in 1 .. Len(sent) : wire'[k] = wire[k]
<1>1. sent \in Seq(Records) /\ Len(sent) \in Nat /\ Len(sent') = Len(sent) + 1
  BY DEF TypeInv, TypeOK, Grows
<1>2. DOMAIN sent = 1 .. Len(sent) /\ DOMAIN sent' = 1 .. Len(sent) + 1
  BY <1>1 DEF Grows
<1>3. /\ \A k \in 1 .. Len(sent) : sent'[k] = sent[k] /\ wire'[k] = wire[k]
      /\ sent'[Len(sent) + 1].schema = s
  BY DEF Grows
<1> QED
  BY <1>1, <1>2, <1>3 DEF RecordsOf

LEMMA SendCovers ==
    ASSUME OutageInv, NEW s \in Schemas, NEW p \in Payloads,
           Grows(s, p), AddsFull(s, p) \/ AddsDelta(s, p)
    PROVE  Covered'
<1> DEFINE L == Len(sent) + 1
<1> USE DEF OutageInv, DeltaSafe
<1>1. /\ RecordsOf(s)' = RecordsOf(s) \cup {L}
      /\ \A t \in Schemas \ {s} : RecordsOf(t)' = RecordsOf(t)
      /\ \A k \in 1 .. Len(sent) : wire'[k] = wire[k]
  BY OneRecordMore
<1>2. Len(sent) \in Nat /\ \A t : RecordsOf(t) \subseteq 1 .. Len(sent)
  BY RecordsFinite
<1>3. /\ lastPayload' = [lastPayload EXCEPT ![s] = p]
      /\ lastPayload \in [Schemas -> Payloads \cup {NoPayload}]
      /\ records \in [Schemas -> Nat]
  BY DEF Grows, TypeInv, TypeOK
<1>4. ASSUME NEW t \in Schemas \ {s}, HasPrevious(t)'
      PROVE  \E f \in RecordsOf(t)' :
                wire'[f].kind = "full" /\ Cardinality(From(t, f)') <= records'[t]
  <2>1. HasPrevious(t) /\ records'[t] = records[t]
    BY <1>3, <1>4 DEF HasPrevious, AddsFull, PutsFull, AddsDelta
  <2>2. PICK f \in RecordsOf(t) :
              wire[f].kind = "full" /\ Cardinality(From(t, f)) <= records[t]
    BY <2>1 DEF Covered
  <2>3. From(t, f)' = From(t, f) /\ wire'[f] = wire[f]
    BY <1>1, <1>2 DEF From
  <2> QED
    BY <1>1, <2>1, <2>2, <2>3
<1>5. CASE AddsFull(s, p)
  <2>1. PICK l \in Nat : l = L
    BY <1>2
  <2>2. From(s, l)' = {l}
    BY <1>1, <1>2, <2>1 DEF From
  <2>3. l \in RecordsOf(s)' /\ wire'[l].kind = "full"
    BY <1>1, <1>5, <2>1 DEF AddsFull, PutsFull, Full
  <2>4. records'[s] \in Nat /\ records'[s] >= 1
    BY <1>3, <1>5 DEF AddsFull, PutsFull
  <2>5. Cardinality(From(s, l)') <= records'[s]
    BY <2>2, <2>4, FS_Singleton
  <2> QED
    BY <1>4, <2>3, <2>5 DEF Covered
<1>6. CASE AddsDelta(s, p)
  <2>1. HasPrevious(s) /\ records'[s] = records[s] + 1
    BY <1>3, <1>6 DEF AddsDelta
  <2>2. PICK f \in RecordsOf(s) :
              wire[f].kind = "full" /\ Cardinality(From(s, f)) <= records[s]
    BY <2>1 DEF Covered
  <2>3. From(s, f)' = From(s, f) \cup {L} /\ L \notin From(s, f)
    BY <1>1, <1>2 DEF From
  <2>4. From(s, f) \subseteq RecordsOf(s)
    BY DEF From
  <2>5. IsFiniteSet(From(s, f)) /\ Cardinality(From(s, f)) \in Nat
    BY <2>4, RecordsFinite
  <2>6. Cardinality(From(s, f)') = Cardinality(From(s, f)) + 1
    BY <2>3, <2>5, FS_AddElement
  <2>7. Cardinality(From(s, f)') <= records'[s]
    BY <1>3, <2>1, <2>2, <2>5, <2>6
  <2>8. f \in RecordsOf(s)' /\ wire'[f].kind = "full"
    BY <1>1, <1>2, <2>2
  <2> QED
    BY <1>4, <2>7, <2>8 DEF Covered
<1> QED
  BY <1>5, <1>6

LEMMA SendOften ==
    ASSUME OutageInv, ~FirstConfig.reuse, NEW s \in Schemas, NEW p \in Payloads,
           Grows(s, p), AddsFull(s, p) \/ AddsDelta(s, p)
    PROVE  KeyframesOften'
<1> DEFINE L == Len(sent) + 1
<1> USE DEF OutageInv, DeltaSafe
<1>1. /\ RecordsOf(s)' = RecordsOf(s) \cup {L}
      /\ \A t \in Schemas \ {s} : RecordsOf(t)' = RecordsOf(t)
      /\ \A k \in 1 .. Len(sent) : wire'[k] = wire[k]
  BY OneRecordMore
<1>2. Len(sent) \in Nat /\ \A t : RecordsOf(t) \subseteq 1 .. Len(sent)
  BY RecordsFinite
<1>3. SUFFICES ASSUME NEW t \in Schemas, NEW a \in RecordsOf(t)', NEW b \in RecordsOf(t)',
                      Cardinality(Between(t, a, b)') >= FirstConfig.keyframe
               PROVE  \E k \in Between(t, a, b)' : wire'[k].kind = "full"
  BY DEF KeyframesOften
<1>4. FirstConfig.keyframe \in Nat \ {0}
  BY LinkAssumption
<1>5. CASE b # L
  <2>1. b \in RecordsOf(t) /\ b \in 1 .. Len(sent)
    BY <1>1, <1>2, <1>5
  <2>2. CASE a \in RecordsOf(t)
    <3>1. Between(t, a, b)' = Between(t, a, b)
      BY <1>1, <1>2, <2>1 DEF Between
    <3>2. Between(t, a, b) \subseteq 1 .. Len(sent)
      BY <1>2 DEF Between
    <3> QED
      BY <1>1, <1>3, <2>1, <2>2, <3>1, <3>2 DEF KeyframesOften
  <2>3. CASE a \notin RecordsOf(t)
    <3>1. a = L
      BY <1>1, <2>3
    <3>2. Between(t, a, b)' = {}
      BY <1>1, <1>2, <2>1, <3>1 DEF Between
    <3> QED
      BY <1>3, <1>4, <3>2, FS_EmptySet
  <2> QED
    BY <2>2, <2>3
<1>6. CASE b = L
  <2>1. t = s
    BY <1>1, <1>2, <1>6
  <2>2. a \in 1 .. L
    BY <1>1, <1>2, <2>1
  <2>3. CASE AddsFull(s, p)
    <3>1. L \in Between(s, a, b)' /\ wire'[L].kind = "full"
      BY <1>1, <1>2, <1>6, <2>2, <2>3 DEF Between, AddsFull, PutsFull, Full
    <3> QED
      BY <2>1, <3>1
  <2>4. CASE AddsDelta(s, p)
    <3>1. HasPrevious(s) /\ records[s] < FirstConfig.keyframe
      BY <2>4 DEF AddsDelta
    <3>2. PICK f \in RecordsOf(s) :
                wire[f].kind = "full" /\ Cardinality(From(s, f)) <= records[s]
      BY <3>1 DEF Covered
    <3>3. f \in 1 .. Len(sent) /\ wire'[f].kind = "full" /\ f \in RecordsOf(s)'
      BY <1>1, <1>2, <3>2
    <3>4. CASE a <= f
      <4>1. f \in Between(s, a, b)'
        BY <1>2, <1>6, <3>3, <3>4 DEF Between
      <4> QED
        BY <2>1, <3>3, <4>1
    <3>5. CASE f < a
      <4> DEFINE F == From(s, f)
      <4>1. Between(s, a, b)' \subseteq (F \ {f}) \cup {L}
        BY <1>1, <1>2, <1>6, <2>2, <3>3, <3>5 DEF Between, From
      <4>2. F \subseteq RecordsOf(s) /\ f \in F
        BY <1>2, <3>2 DEF From
      <4> HIDE DEF F
      <4>3. IsFiniteSet(F) /\ Cardinality(F) \in Nat
        BY <4>2, RecordsFinite
      <4>4. IsFiniteSet(F \ {f}) /\ Cardinality(F \ {f}) = Cardinality(F) - 1
        BY <4>2, <4>3, FS_RemoveElement
      <4>5. /\ IsFiniteSet((F \ {f}) \cup {L})
            /\ Cardinality((F \ {f}) \cup {L}) \in {Cardinality(F), Cardinality(F) - 1}
        <5> HIDE DEF L
        <5>1. /\ IsFiniteSet((F \ {f}) \cup {L})
              /\ Cardinality((F \ {f}) \cup {L}) =
                    IF L \in F \ {f} THEN Cardinality(F \ {f}) ELSE Cardinality(F \ {f}) + 1
          BY <4>4, FS_AddElement
        <5> QED
          BY <4>3, <4>4, <5>1
      <4>6. /\ Cardinality(Between(s, a, b)') <= Cardinality((F \ {f}) \cup {L})
            /\ Cardinality(Between(s, a, b)') \in Nat
        <5> HIDE DEF L
        <5> QED
          BY <4>1, <4>5, FS_Subset, FS_CardinalityType
      <4>7. Cardinality(F) < FirstConfig.keyframe
        <5>1. records[s] \in Nat
          BY DEF TypeInv, TypeOK
        <5> QED
          BY <1>4, <3>1, <3>2, <4>3, <5>1 DEF F
      <4>8. Cardinality(Between(s, a, b)') >= FirstConfig.keyframe
        BY <1>3, <2>1
      <4> QED
        BY <1>4, <4>3, <4>5, <4>6, <4>7, <4>8
    <3> QED
      BY <1>2, <2>2, <3>3, <3>4, <3>5
  <2> QED
    BY <2>3, <2>4
<1> QED
  BY <1>5, <1>6
LEMMA OutageStep ==
    ASSUME FixedInterval, OutageInv, [Next]_vars
    PROVE  OutageInv'
<1> USE DEF OutageInv
<1>1. DeltaSetting /\ ~FirstConfig.reuse /\ DeltaSafe /\ DeltaSafe'
  BY DeltaSafeStep DEF FixedInterval
<1>2. TypeInv /\ PacketsMatch
  BY <1>1 DEF DeltaSafe
<1>3. Len(wire) \in Nat /\ Len(wire) = Len(sent)
  BY <1>2 DEF TypeInv, TypeOK, PacketsMatch
<1>4. CASE \E s \in Schemas, p \in Payloads : SendStream(s, p)
  <2>1. PICK s \in Schemas, p \in Payloads : SendStream(s, p)
    BY <1>4
  <2>2. Grows(s, p) /\ (AddsFull(s, p) \/ AddsDelta(s, p))
    BY <1>1, <1>2, <2>1, SendCases
  <2>3. cfg' = cfg
    BY <2>1 DEF SendStream, SendDisabled, SendReuse, SendKeyframe, SendDelta,
                EmitDelta, SendFull, SendBatched, Remember
  <2>4. DeltasRefused'
    BY <1>3, <2>2 DEF DeltasRefused, Grows
  <2> QED
    BY <1>1, <2>2, <2>3, <2>4, SendCovers, SendOften
<1>5. ASSUME UNCHANGED <<cfg, wire, sent>> PROVE cfg' = FirstConfig /\ KeyframesOften'
  BY <1>5 DEF KeyframesOften, Between, RecordsOf
<1>6. ASSUME UNCHANGED <<lastPayload, records, wire, sent>> PROVE Covered'
  BY <1>6 DEF Covered, HasPrevious, From, RecordsOf
<1>7. ASSUME UNCHANGED <<wire, rejected>> PROVE DeltasRefused'
  BY <1>7 DEF DeltasRefused
<1>8. CASE ReceiveFull \/ ReceiveDelta \/ Lose \/ ResetReceiver \/ UNCHANGED vars
  <2>1. UNCHANGED <<cfg, lastPayload, records, wire, sent, rejected>>
    BY <1>8 DEF ReceiveFull, ReceiveDelta, Lose, ResetReceiver, Control, vars, sender,
                channel, outcome
  <2> QED
    BY <1>1, <1>5, <1>6, <1>7, <2>1
<1>9. CASE RejectDelta
  <2>1. /\ UNCHANGED <<cfg, lastPayload, records, wire, sent>>
        /\ Arrival /\ Arriving.kind = "delta" /\ rejected' = rejected \cup {Arriving.n}
    BY <1>9 DEF RejectDelta, sender
  <2>2. Arriving.n = taken + 1 /\ taken + 1 \in 1 .. Len(wire) /\ Arriving = wire[taken + 1]
    BY <1>2, <2>1, HeadPacket
  <2>3. DeltasRefused'
    BY <2>1, <2>2 DEF DeltasRefused
  <2> QED
    BY <1>1, <1>5, <1>6, <2>1, <2>3
<1>10. CASE ResetSender
  <2>1. UNCHANGED <<cfg, wire, sent, rejected>> /\ \A s \in Schemas : lastPayload'[s] = NoPayload
    BY <1>10 DEF ResetSender, Control, channel, outcome
  <2>2. Covered'
    BY <2>1 DEF Covered, HasPrevious
  <2> QED
    BY <1>1, <1>5, <1>7, <2>1, <2>2
<1>11. ~Flush /\ ~ReceiveBatch
  <2>1. ~Flush
    BY <1>2 DEF Flush, PacketsMatch
  <2>2. SUFFICES ASSUME ReceiveBatch PROVE FALSE
    BY <2>1
  <2>3. Arrival /\ Arriving.kind = "batch"
    BY <2>2 DEF ReceiveBatch
  <2> QED
    BY <1>2, <2>3, HeadPacket, WireTypes
<1>12. /\ ~ReceiveRecovered /\ ~Overtake
       /\ ~\E c \in Configs : Configure(c) \/ ApplySettings(c)
  BY DEF ReceiveRecovered, Overtake, Configure, ApplySettings, Control, FixedInterval,
         DeltaSetting
<1> QED
  BY <1>4, <1>8, <1>9, <1>10, <1>11, <1>12 DEF Next, ReceiveStream

\* The keyframe interval bounds an outage: whatever deltas are lost, in
\* whatever order resets happen, of as many consecutive records of a schema
\* as the interval counts the receiver refuses at most all but one.
THEOREM OutagesAreBounded ==
    ASSUME FixedInterval
    PROVE  Spec => []OutageBounded
<1>1. Init => OutageInv
  <2> SUFFICES ASSUME Init PROVE OutageInv
    OBVIOUS
  <2>1. DeltaSafe
    BY DeltaSafeInit
  <2>2. cfg = FirstConfig /\ rejected = {} /\ DOMAIN sent = {}
    BY DEF Init
  <2>3. \A s \in Schemas : lastPayload[s] = NoPayload
    BY DEF Init
  <2>4. DeltasRefused /\ Covered /\ KeyframesOften
    BY <2>2, <2>3 DEF DeltasRefused, Covered, KeyframesOften, HasPrevious, RecordsOf
  <2> QED
    BY <2>1, <2>2, <2>4 DEF OutageInv
<1>2. OutageInv /\ [Next]_vars => OutageInv'
  BY OutageStep
<1>3. ASSUME OutageInv PROVE OutageBounded
  <2> SUFFICES ASSUME NEW s \in Schemas, NEW a \in RecordsOf(s), NEW b \in RecordsOf(s),
                      Cardinality(Between(s, a, b)) >= FirstConfig.keyframe
               PROVE  ~(Between(s, a, b) \subseteq rejected)
    BY <1>3 DEF OutageInv, OutageBounded, Between
  <2>1. PICK k \in Between(s, a, b) : wire[k].kind = "full"
    BY <1>3 DEF OutageInv, KeyframesOften
  <2> QED
    BY <1>3, <2>1 DEF OutageInv, DeltasRefused
<1> QED
  BY <1>1, <1>2, <1>3, PTL DEF Spec

-----------------------------------------------------------------------------
(* The plain mode.  First, what its steps do to the records, which are     *)
(* handed over, in the channel or waiting for a batch.                     *)

PlainSetting == \A c \in Configs : ~c.delta

\* Nothing that holds a record is lost or dropped.
NothingDropped == Events \cap {"loseFull", "resetSender"} = {}

\* The records a packet carries, each in a full packet.
Parts(pkt) == IF pkt.kind = "batch" THEN pkt.parts ELSE <<pkt>>

\* A full packet is the record whose number it has.
Tells(f) ==
    /\ f.n \in 1 .. Len(sent)
    /\ sent[f.n] = [schema |-> f.schema, payload |-> f.payload]

\* Every packet that is kept for reuse is the last record of its schema.
LastTell ==
    \A s \in Schemas : HasPrevious(s) =>
        /\ lastPacket[s].kind = "full" /\ lastPacket[s].schema = s
        /\ lastPacket[s].payload = lastPayload[s]

AllTell(fs) == \A j \in 1 .. Len(fs) : Tells(fs[j])

WireTells ==
    \A i \in 1 .. Len(wire) : wire[i].kind # "delta" /\ AllTell(Parts(wire[i]))

PlainInv == TypeInv /\ LastTell /\ WireTells /\ AllTell(batch) /\ NeverMisdecode

Sends(s, p) ==
    /\ sent' = Append(sent, [schema |-> s, payload |-> p])
    /\ lastPayload' = [lastPayload EXCEPT ![s] = p]
    /\ lastPacket' = [lastPacket EXCEPT ![s] = This(s, p)]
    /\ UNCHANGED <<taken, delivered>>
    /\ \/ wire' = Append(wire, This(s, p)) /\ batch' = batch
       \/ wire' = Append(wire, Batch(Append(batch, This(s, p)))) /\ batch' = <<>>
       \/ wire' = wire /\ batch' = Append(batch, This(s, p))

Flushes ==
    /\ wire' = Append(wire, Batch(batch)) /\ batch' = <<>>
    /\ UNCHANGED <<sent, taken, delivered>>

Given(parts) == [i \in DOMAIN parts |-> Delivery(parts[i], parts[i].payload)]

Takes ==
    /\ taken < Len(wire) /\ taken' = taken + 1
    /\ delivered' = delivered \o Given(Parts(wire[taken + 1]))
    /\ UNCHANGED <<sent, wire, batch>>

Loses ==
    /\ "loseFull" \in Events
    /\ UNCHANGED <<sent, wire, batch, delivered>>

Swaps ==
    /\ \E i \in taken + 1 .. Len(wire) - 1 :
          wire' = [wire EXCEPT ![i] = wire[i + 1], ![i + 1] = wire[i]]
    /\ UNCHANGED <<sent, taken, batch, delivered>>

Forgets ==
    /\ "resetSender" \in Events /\ batch' = <<>>
    /\ UNCHANGED <<sent, wire, taken, delivered>>

KeepsLast ==
    \/ UNCHANGED <<lastPayload, lastPacket>>
    \/ lastPayload' = [s \in Schemas |-> NoPayload]

LEMMA PlainSends ==
    ASSUME PlainSetting, PlainInv, NEW s \in Schemas, NEW p \in Payloads, SendStream(s, p)
    PROVE  Sends(s, p)
<1> DEFINE k == Len(sent) + 1
<1>1. cfg \in Configs /\ ~cfg.delta
  BY DEF PlainSetting, PlainInv, TypeInv, TypeOK
<1>2. ~SendKeyframe(s, p) /\ ~SendDelta(s, p)
  BY <1>1 DEF SendKeyframe, SendDelta, KeyframeDue
<1>3. ASSUME Remember(s, p, This(s, p))
      PROVE  /\ sent' = Append(sent, [schema |-> s, payload |-> p])
             /\ lastPayload' = [lastPayload EXCEPT ![s] = p]
             /\ lastPacket' = [lastPacket EXCEPT ![s] = This(s, p)]
             /\ UNCHANGED <<taken, delivered>>
  BY <1>3 DEF Remember, outcome
<1>4. CASE SendDisabled(s, p)
  BY <1>3, <1>4 DEF SendDisabled, Emit, Sends
<1>5. CASE SendReuse(s, p)
  <2>1. Again(lastPacket[s], k) = This(s, p)
    <3>1. HasPrevious(s) /\ lastPayload[s] = p
      BY <1>5 DEF SendReuse, Repeats
    <3>2. /\ lastPacket[s].kind = "full" /\ lastPacket[s].schema = s
          /\ lastPacket[s].payload = p
      BY <3>1 DEF PlainInv, LastTell
    <3> QED
      BY <3>2 DEF Again, This
  <2> QED
    BY <1>3, <1>5, <2>1 DEF SendReuse, Emit, Sends
<1>6. CASE SendFull(s, p)
  BY <1>3, <1>6 DEF SendFull, Emit, Sends
<1>7. CASE SendBatched(s, p)
  <2>1. \/ wire' = Append(wire, Batch(Append(batch, This(s, p)))) /\ batch' = <<>>
        \/ wire' = wire /\ batch' = Append(batch, This(s, p))
    BY <1>7 DEF SendBatched, Emit
  <2>2. Remember(s, p, This(s, p))
    BY <1>7 DEF SendBatched
  <2> QED
    BY <1>3, <2>1, <2>2 DEF Sends
<1> QED
  BY <1>2, <1>4, <1>5, <1>6, <1>7 DEF SendStream

LEMMA PlainReceives ==
    ASSUME PlainSetting, PlainInv, ReceiveStream \/ ReceiveRecovered
    PROVE  Takes /\ UNCHANGED <<lastPayload, lastPacket>>
<1> DEFINE pkt == wire[taken + 1]
<1>1. /\ taken < Len(wire) /\ taken' = taken + 1
      /\ UNCHANGED <<sent, wire, batch, lastPayload, lastPacket>>
  BY DEF ReceiveStream, ReceiveFull, ReceiveDelta, RejectDelta, ReceiveBatch,
         ReceiveRecovered, Arrival, sender
<1>2. taken + 1 \in 1 .. Len(wire)
  <2>1. taken \in 0 .. Len(wire) /\ Len(wire) \in Nat
    BY DEF PlainInv, TypeInv, TypeOK
  <2> QED
    BY <1>1, <2>1
<1>3. pkt.kind # "delta"
  BY <1>2 DEF PlainInv, WireTells
<1>4. CASE ReceiveFull \/ ReceiveRecovered
  <2>1. pkt.kind = "full" /\ delivered' = Append(delivered, Delivery(pkt, pkt.payload))
    BY <1>4 DEF ReceiveFull, ReceiveRecovered, Arriving
  <2>2. Parts(pkt) = <<pkt>>
    BY <2>1 DEF Parts
  <2>3. delivered \in Seq([n : Nat, schema : Schemas, payload : Payloads])
    BY DEF PlainInv, TypeInv, TypeOK
  <2>4. delivered' = delivered \o Given(Parts(pkt))
    <3> DEFINE d == Delivery(pkt, pkt.payload)
    <3>1. Given(<<pkt>>) = <<d>>
      BY DEF Given
    <3>2. Append(delivered, d) = delivered \o <<d>>
      <4> HIDE DEF d
      <4> QED
        BY <2>3
    <3> QED
      BY <2>1, <2>2, <3>1, <3>2
  <2> QED
    BY <1>1, <2>4 DEF Takes
<1>5. CASE ReceiveBatch
  <2>1. /\ pkt.kind = "batch"
        /\ delivered' = delivered \o
              [i \in DOMAIN pkt.parts |-> Delivery(pkt.parts[i], pkt.parts[i].payload)]
    BY <1>5 DEF ReceiveBatch, Arriving
  <2> QED
    BY <1>1, <2>1 DEF Takes, Parts, Given
<1>6. ~ReceiveDelta /\ ~RejectDelta
  BY <1>3 DEF ReceiveDelta, RejectDelta, Arriving
<1> QED
  BY <1>4, <1>5, <1>6 DEF ReceiveStream

LEMMA PlainKinds ==
    ASSUME PlainSetting, PlainInv, [Next]_vars
    PROVE  \/ \E s \in Schemas, p \in Payloads : Sends(s, p)
           \/ /\ KeepsLast
              /\ \/ Flushes \/ Takes \/ Loses \/ Swaps \/ Forgets
                 \/ UNCHANGED <<sent, wire, taken, batch, delivered>>
<1>1. ASSUME NEW s \in Schemas, NEW p \in Payloads, SendStream(s, p)
      PROVE  Sends(s, p)
  BY <1>1, PlainSends
<1>2. CASE Flush
  BY <1>2 DEF Flush, Emit, Flushes, KeepsLast, outcome
<1>3. CASE ReceiveStream \/ ReceiveRecovered
  BY <1>3, PlainReceives DEF KeepsLast
<1>4. CASE Lose
  <2>1. Arriving.kind # "delta"
    <3>1. taken + 1 \in 1 .. Len(wire)
      BY <1>4 DEF Lose, Arrival, PlainInv, TypeInv, TypeOK
    <3> QED
      BY <3>1 DEF PlainInv, WireTells, Arriving
  <2> QED
    BY <1>4, <2>1 DEF Lose, Loses, KeepsLast, sender, outcome
<1>5. CASE Overtake
  BY <1>5 DEF Overtake, Swaps, KeepsLast, sender, outcome
<1>6. ASSUME NEW c \in Configs, Configure(c) \/ ApplySettings(c)
      PROVE  KeepsLast /\ UNCHANGED <<sent, wire, taken, batch, delivered>>
  <2>1. ~(c.delta # cfg.delta)
    <3>1. cfg \in Configs
      BY DEF PlainInv, TypeInv, TypeOK
    <3>2. c.delta \in BOOLEAN /\ cfg.delta \in BOOLEAN
      BY <3>1, LinkAssumption
    <3>3. ~c.delta /\ ~cfg.delta
      BY <3>1 DEF PlainSetting
    <3> QED
      BY <3>2, <3>3, Zenon
  <2> QED
    BY <1>6, <2>1 DEF Configure, ApplySettings, Control, KeepsLast, ForgetDeltas,
                      sender, channel, outcome
<1>7. CASE ResetSender
  BY <1>7 DEF ResetSender, Control, Forgets, KeepsLast, channel, outcome
<1>8. CASE ResetReceiver
  BY <1>8 DEF ResetReceiver, Control, KeepsLast, sender, channel, outcome
<1>9. CASE UNCHANGED vars
  BY <1>9 DEF vars, KeepsLast, sender, channel, outcome
<1> QED
  BY <1>1, <1>2, <1>3, <1>4, <1>5, <1>6, <1>7, <1>8, <1>9 DEF Next

\* Sending keeps what the packets tell.
LEMMA PlainSendTells ==
    ASSUME PlainInv, TypeInv', NEW s \in Schemas, NEW p \in Payloads, Sends(s, p)
    PROVE  LastTell' /\ WireTells' /\ AllTell(batch)' /\ NeverMisdecode'
<1> DEFINE L == Len(sent) + 1
           new == This(s, p)
<1> USE DEF PlainInv
<1>1. /\ sent \in Seq(Records) /\ wire \in Seq(Packets) /\ batch \in Seq(FullPackets)
      /\ Len(sent) \in Nat /\ Len(wire) \in Nat /\ Len(batch) \in Nat
  BY SMTT(30) DEF TypeInv, TypeOK
<1>2. /\ new.kind = "full" /\ new.schema = s /\ new.payload = p /\ new.n = L
      /\ Parts(new) = <<new>>
  BY DEF This, Full, Parts
<1>3. /\ Len(sent') = L /\ sent'[L] = [schema |-> s, payload |-> p]
      /\ \A k \in 1 .. Len(sent) : sent'[k] = sent[k]
  BY <1>1 DEF Sends
<1>4. L \in 1 .. Len(sent') /\ 1 .. Len(sent) \subseteq 1 .. Len(sent')
  BY <1>1, <1>3
<1> DEFINE Told(f) == /\ f.n \in 1 .. Len(sent')
                      /\ sent'[f.n] = [schema |-> f.schema, payload |-> f.payload]
<1>5. \A f : Tells(f) => Told(f)
  BY <1>3, <1>4 DEF Tells
<1>6. Told(new)
  BY <1>2, <1>3, <1>4
<1>7. LastTell'
  <2> SUFFICES ASSUME NEW t \in Schemas, HasPrevious(t)'
               PROVE  /\ lastPacket'[t].kind = "full" /\ lastPacket'[t].schema = t
                      /\ lastPacket'[t].payload = lastPayload'[t]
    BY DEF LastTell
  <2>1. /\ lastPayload' = [lastPayload EXCEPT ![s] = p]
        /\ lastPacket' = [lastPacket EXCEPT ![s] = new]
        /\ s \in DOMAIN lastPayload /\ s \in DOMAIN lastPacket
        /\ t \in DOMAIN lastPayload /\ t \in DOMAIN lastPacket
    BY DEF Sends, TypeInv, TypeOK
  <2> HIDE DEF new
  <2>2. CASE t = s
    BY <1>2, <2>1, <2>2
  <2>3. CASE t # s
    BY <2>1, <2>3 DEF LastTell, HasPrevious
  <2> QED
    BY <2>2, <2>3
<1>8. NeverMisdecode'
  <2>1. \A i \in DOMAIN delivered : Tells(delivered[i])
    BY <1>1 DEF NeverMisdecode, Tells
  <2>2. delivered' = delivered
    BY DEF Sends
  <2>3. \A i \in DOMAIN delivered : Told(delivered[i])
    BY <1>5, <2>1
  <2>4. DOMAIN sent' = 1 .. Len(sent')
    BY DEF TypeInv, TypeOK
  <2> QED
    BY <2>2, <2>3, <2>4 DEF NeverMisdecode
<1> DEFINE Queue == Append(batch, new)
<1>9. new \in FullPackets /\ new.kind = "full"
  BY <1>1, <1>2, FullType DEF This
<1>10. \A j \in 1 .. Len(Queue) : Told(Queue[j])
  <2> HIDE DEF new, Told
  <2>1. Len(Queue) = Len(batch) + 1 /\ Queue[Len(batch) + 1] = new
        /\ \A j \in 1 .. Len(batch) : Queue[j] = batch[j]
    BY <1>1, <1>9
  <2>2. \A j \in 1 .. Len(batch) : Told(batch[j])
    BY <1>5 DEF AllTell
  <2> HIDE DEF Queue
  <2> QED
    BY <1>1, <1>6, <2>1, <2>2
<1>11. \A j \in 1 .. Len(batch') : Told(batch'[j])
  <2>1. batch' \in {batch, <<>>, Queue}
    BY DEF Sends
  <2>2. \A j \in 1 .. Len(batch) : Told(batch[j])
    BY <1>5 DEF AllTell
  <2> HIDE DEF Told, Queue
  <2>3. CASE batch' = <<>>
    BY <2>3
  <2> QED
    BY <1>10, <2>1, <2>2, <2>3
<1> DEFINE Fine(pkt) == pkt.kind # "delta" /\ \A j \in 1 .. Len(Parts(pkt)) : Told(Parts(pkt)[j])
<1>12. Fine(new)
  <2> HIDE DEF new, Told
  <2>1. Len(<<new>>) = 1 /\ <<new>>[1] = new
    OBVIOUS
  <2> QED
    BY <1>2, <1>6, <2>1
<1>13. Fine(Batch(Queue))
  <2>1. Parts(Batch(Queue)) = Queue /\ Batch(Queue).kind = "batch"
    BY DEF Parts, Batch
  <2> HIDE DEF Told, Queue
  <2> QED
    BY <1>10, <2>1
<1>14. \A i \in 1 .. Len(wire') : Fine(wire'[i])
  <2>1. \A i \in 1 .. Len(wire) : Fine(wire[i])
    <3> HIDE DEF Told
    <3> QED
      BY <1>5 DEF WireTells, AllTell
  <2>2. \/ wire' = Append(wire, new)
        \/ wire' = Append(wire, Batch(Queue))
        \/ wire' = wire
    BY DEF Sends
  <2>3. ASSUME NEW pkt, Fine(pkt), wire' = Append(wire, pkt)
        PROVE  \A i \in 1 .. Len(wire') : Fine(wire'[i])
    <3> HIDE DEF Fine
    <3>1. /\ Len(wire') = Len(wire) + 1 /\ wire'[Len(wire) + 1] = pkt
          /\ \A i \in 1 .. Len(wire) : wire'[i] = wire[i]
      BY <1>1, <2>3
    <3> QED
      BY <1>1, <2>1, <2>3, <3>1
  <2> HIDE DEF Fine, new, Queue
  <2> QED
    BY <1>12, <1>13, <2>1, <2>2, <2>3
<1>15. WireTells' /\ AllTell(batch)'
  BY <1>11, <1>14 DEF WireTells, AllTell, Tells, Parts
<1> QED
  BY <1>7, <1>8, <1>15

\* In plain mode a packet carries full packets, one or the parts of a batch.
LEMMA PartsType ==
    ASSUME PlainInv, NEW i \in 1 .. Len(wire)
    PROVE  /\ wire[i] \in Packets
           /\ Parts(wire[i]) \in Seq(FullPackets)
           /\ Len(Parts(wire[i])) \in Nat
           /\ DOMAIN Parts(wire[i]) = 1 .. Len(Parts(wire[i]))
<1>1. wire[i] \in Packets /\ wire[i].kind # "delta"
  BY DEF PlainInv, TypeInv, TypeOK, WireTells
<1>2. CASE wire[i].kind = "batch"
  <2>1. wire[i] \in BatchPackets
    BY <1>1, <1>2, PacketKinds
  <2>2. Parts(wire[i]) \in Seq(FullPackets)
    BY <1>2, <2>1 DEF Parts, BatchPackets
  <2> QED
    BY <1>1, <2>2
<1>3. CASE wire[i].kind # "batch"
  <2>1. wire[i] \in FullPackets
    BY <1>1, <1>3, PacketKinds
  <2>2. Parts(wire[i]) \in Seq(FullPackets)
    BY <1>3, <2>1 DEF Parts
  <2> QED
    BY <1>1, <2>2
<1> QED
  BY <1>2, <1>3

LEMMA PlainInit == Init => PlainInv
<1> SUFFICES ASSUME Init PROVE PlainInv
  OBVIOUS
<1>1. TypeInv
  BY TypeInductive
<1>2. /\ Len(wire) = 0 /\ Len(batch) = 0 /\ DOMAIN delivered = {}
      /\ \A s \in Schemas : ~HasPrevious(s)
  BY DEF Init, HasPrevious
<1> QED
  BY <1>1, <1>2 DEF PlainInv, LastTell, WireTells, AllTell, NeverMisdecode

LEMMA PlainStep ==
    ASSUME PlainSetting, PlainInv, [Next]_vars
    PROVE  PlainInv'
<1>1. TypeInv /\ TypeInv'
  BY TypeInductive DEF PlainInv
<1>2. ASSUME NEW s \in Schemas, NEW p \in Payloads, Sends(s, p)
      PROVE  PlainInv'
  BY <1>1, <1>2, PlainSendTells DEF PlainInv
<1>3. ASSUME sent' = sent, KeepsLast,
             Flushes \/ Takes \/ Loses \/ Swaps \/ Forgets
             \/ UNCHANGED <<sent, wire, taken, batch, delivered>>
      PROVE  PlainInv'
  <2> USE DEF PlainInv
  <2>1. /\ wire \in Seq(Packets) /\ batch \in Seq(FullPackets)
        /\ delivered \in Seq([n : Nat, schema : Schemas, payload : Payloads])
        /\ Len(wire) \in Nat /\ taken \in Nat /\ DOMAIN sent = 1 .. Len(sent)
    BY <1>1 DEF TypeInv, TypeOK
  <2>2. \A f : Tells(f)' = Tells(f)
    BY <1>3 DEF Tells
  <2>3. LastTell'
    <3>1. CASE UNCHANGED <<lastPayload, lastPacket>>
      BY <3>1 DEF LastTell, HasPrevious
    <3>2. CASE lastPayload' = [s \in Schemas |-> NoPayload]
      BY <3>2 DEF LastTell, HasPrevious
    <3> QED
      BY <1>3, <3>1, <3>2 DEF KeepsLast
  <2>4. ASSUME batch' = batch \/ batch' = <<>>
        PROVE  AllTell(batch)'
    <3>1. CASE batch' = batch
      BY <1>3, <3>1 DEF AllTell, Tells
    <3>2. CASE batch' = <<>>
      BY <3>2 DEF AllTell
    <3> QED
      BY <2>4, <3>1, <3>2
  <2> DEFINE Fine(pkt) == pkt.kind # "delta" /\ AllTell(Parts(pkt))
  <2>5. ASSUME \A i \in 1 .. Len(wire') : Fine(wire'[i])
        PROVE  WireTells'
    BY <1>3, <2>5 DEF WireTells, AllTell, Tells, Parts
  <2>6. \A i \in 1 .. Len(wire) : Fine(wire[i])
    BY DEF WireTells
  <2>7. Fine(Batch(batch))
    BY DEF AllTell, Batch, Parts
  <2>8. ASSUME delivered' = delivered PROVE NeverMisdecode'
    BY <1>3, <2>8 DEF NeverMisdecode
  <2>9. CASE Flushes
    <3> HIDE DEF Fine
    <3>1. wire' = Append(wire, Batch(batch)) /\ batch' = <<>> /\ delivered' = delivered
      BY <2>9 DEF Flushes
    <3>2. /\ Len(wire') = Len(wire) + 1 /\ wire'[Len(wire) + 1] = Batch(batch)
          /\ \A i \in 1 .. Len(wire) : wire'[i] = wire[i]
      BY <2>1, <3>1
    <3>3. \A i \in 1 .. Len(wire') : i \in 1 .. Len(wire) \/ i = Len(wire) + 1
      BY <2>1, <3>2
    <3>4. \A i \in 1 .. Len(wire') : Fine(wire'[i])
      BY <2>6, <2>7, <3>2, <3>3
    <3> QED
      BY <1>1, <2>3, <2>4, <2>5, <2>8, <3>1, <3>4
  <2>10. CASE Takes
    <3> DEFINE fs == Parts(wire[taken + 1])
               ds == Given(fs)
    <3>1. /\ delivered' = delivered \o ds /\ wire' = wire /\ batch' = batch
          /\ taken + 1 \in 1 .. Len(wire)
      BY <2>1, <2>10 DEF Takes
    <3>2. /\ \A j \in 1 .. Len(fs) : Tells(fs[j])
          /\ wire[taken + 1] \in Packets /\ wire[taken + 1].kind # "delta"
      BY <2>1, <2>6, <3>1, SMTT(30) DEF AllTell
    <3>3. fs \in Seq(FullPackets)
      BY <3>1, PartsType
    <3> HIDE DEF fs
    <3>4. DOMAIN ds = 1 .. Len(fs) /\ Len(fs) \in Nat
      BY <3>3 DEF Given
    <3>5. \A j \in 1 .. Len(fs) :
            /\ ds[j] \in [n : Nat, schema : Schemas, payload : Payloads]
            /\ Tells(ds[j])
      <4> SUFFICES ASSUME NEW j \in 1 .. Len(fs)
                   PROVE  /\ ds[j] \in [n : Nat, schema : Schemas, payload : Payloads]
                          /\ Tells(ds[j])
        OBVIOUS
      <4>1. fs[j] \in FullPackets /\ Tells(fs[j])
        BY <3>2, <3>3
      <4>2. ds[j] = [n |-> fs[j].n, schema |-> fs[j].schema, payload |-> fs[j].payload]
        BY <3>4 DEF Given, Delivery
      <4> HIDE DEF ds
      <4> QED
        BY <4>1, <4>2 DEF Tells, FullPackets
    <3>6. ds \in Seq([n : Nat, schema : Schemas, payload : Payloads]) /\ Len(ds) = Len(fs)
      <4>1. ds \in [1 .. Len(fs) -> [n : Nat, schema : Schemas, payload : Payloads]]
        BY <3>4, <3>5 DEF Given
      <4> HIDE DEF ds
      <4>2. ds \in Seq([n : Nat, schema : Schemas, payload : Payloads])
        BY <3>4, <4>1, FunctionIsSeq
      <4> QED
        BY <3>4, <4>2
    <3> HIDE DEF ds
    <3>7. \A i \in 1 .. Len(delivered') : Tells(delivered'[i])
      <4> SUFFICES ASSUME NEW i \in 1 .. Len(delivered') PROVE Tells(delivered'[i])
        OBVIOUS
      <4>1. Len(delivered') = Len(delivered) + Len(fs) /\ Len(delivered) \in Nat
        <5>1. Len(delivered \o ds) = Len(delivered) + Len(ds) /\ Len(delivered) \in Nat
          <6> DEFINE D == [n : Nat, schema : Schemas, payload : Payloads]
          <6>1. delivered \in Seq(D) /\ ds \in Seq(D)
            BY <2>1, <3>6
          <6> HIDE DEF D
          <6> QED
            BY <6>1, ConcatProperties
        <5> QED
          BY <3>1, <3>6, <5>1
      <4>2. CASE i <= Len(delivered)
        <5>1. i \in DOMAIN delivered /\ delivered'[i] = delivered[i]
          BY <2>1, <3>1, <3>6, <4>1, <4>2
        <5> QED
          BY <2>1, <5>1 DEF NeverMisdecode, Tells
      <4>3. CASE i > Len(delivered)
        <5>1. i - Len(delivered) \in 1 .. Len(fs)
          BY <3>4, <4>1, <4>3
        <5>2. delivered'[i] = ds[i - Len(delivered)]
          BY <2>1, <3>1, <3>6, <4>1, <4>3
        <5> QED
          BY <3>5, <5>1, <5>2
      <4> QED
        BY <4>1, <4>2, <4>3
    <3>8. DOMAIN delivered' = 1 .. Len(delivered')
      BY <2>1, <3>1, <3>6
    <3>9. NeverMisdecode'
      BY <1>3, <2>1, <3>7, <3>8 DEF NeverMisdecode, Tells
    <3> QED
      BY <1>1, <2>3, <2>4, <2>5, <2>6, <3>1, <3>9
  <2>11. CASE Swaps
    <3> HIDE DEF Fine
    <3>1. batch' = batch /\ delivered' = delivered
      BY <2>11 DEF Swaps
    <3>2. PICK i \in taken + 1 .. Len(wire) - 1 :
              wire' = [wire EXCEPT ![i] = wire[i + 1], ![i + 1] = wire[i]]
      BY <2>11 DEF Swaps
    <3>3. i \in 1 .. Len(wire) /\ i + 1 \in 1 .. Len(wire) /\ DOMAIN wire = 1 .. Len(wire)
      BY <2>1, <3>2
    <3>4. /\ Len(wire') = Len(wire)
          /\ \A k \in 1 .. Len(wire) : wire'[k] \in {wire[k], wire[i], wire[i + 1]}
      BY <2>1, <3>2, <3>3
    <3>5. \A k \in 1 .. Len(wire') : Fine(wire'[k])
      BY <2>6, <3>3, <3>4
    <3> QED
      BY <1>1, <2>3, <2>4, <2>5, <2>8, <3>1, <3>5
  <2>12. CASE Loses \/ Forgets \/ UNCHANGED <<sent, wire, taken, batch, delivered>>
    <3>1. wire' = wire /\ delivered' = delivered /\ (batch' = batch \/ batch' = <<>>)
      BY <2>12 DEF Loses, Forgets
    <3> QED
      BY <1>1, <2>3, <2>4, <2>5, <2>6, <2>8, <3>1
  <2> QED
    BY <1>3, <2>9, <2>10, <2>11, <2>12
<1>4. Flushes \/ Takes \/ Loses \/ Swaps \/ Forgets => sent' = sent
  BY DEF Flushes, Takes, Loses, Swaps, Forgets
<1> QED
  BY <1>2, <1>3, <1>4, PlainKinds

\* In plain mode no record is ever decoded wrongly, whatever is lost,
\* overtaken, recovered, reconfigured or reset: a packet that is sent again
\* is the record it stands for, and so is every part of a batch.
THEOREM PlainNeverMisdecodes ==
    ASSUME PlainSetting
    PROVE  Spec => []NeverMisdecode
<1>1. Init => PlainInv
  BY PlainInit
<1>2. PlainInv /\ [Next]_vars => PlainInv'
  BY PlainStep
<1>3. PlainInv => NeverMisdecode
  BY DEF PlainInv
<1> QED
  BY <1>1, <1>2, <1>3, PTL DEF Spec

(* Where the records are.  A cell is a place that holds one record: an     *)
(* entry d of delivered, an entry b of batch, or a part of one of the      *)
(* packets w in the channel, of which t have left it.                      *)

Cell(a, i, j) == [at |-> a, i |-> i, j |-> j]

Cells(d, w, t, b) ==
    {c \in [at : {"delivered", "wire", "batch"}, i : Nat, j : Nat] :
        \/ c.at = "delivered" /\ c.i \in 1 .. Len(d) /\ c.j = 1
        \/ c.at = "wire" /\ c.i \in t + 1 .. Len(w) /\ c.j \in 1 .. Len(Parts(w[c.i]))
        \/ c.at = "batch" /\ c.i \in 1 .. Len(b) /\ c.j = 1}

\* The numbers of the records that the cells hold.
Holding(d, w, t, b) ==
    [c \in Cells(d, w, t, b) |->
        IF c.at = "delivered" THEN d[c.i].n
        ELSE IF c.at = "wire" THEN Parts(w[c.i])[c.j].n
        ELSE b[c.i].n]

\* The cells C, which hold f, have one of each of n records.
Numbers(C, f, n) ==
    /\ \A c \in C : f[c] \in 1 .. n
    /\ \A k \in 1 .. n : \E c \in C : f[c] = k
    /\ \A c, e \in C : f[c] = f[e] => c = e

OneEach(d, w, t, b, n) == Numbers(Cells(d, w, t, b), Holding(d, w, t, b), n)

\* The cells, place by place.
Laid(C, f, d, w, t, b) ==
    /\ \A i \in 1 .. Len(d) :
          /\ Cell("delivered", i, 1) \in C
          /\ f[Cell("delivered", i, 1)] = d[i].n
    /\ \A i \in t + 1 .. Len(w) : \A j \in 1 .. Len(Parts(w[i])) :
          /\ Cell("wire", i, j) \in C
          /\ f[Cell("wire", i, j)] = Parts(w[i])[j].n
    /\ \A i \in 1 .. Len(b) :
          /\ Cell("batch", i, 1) \in C
          /\ f[Cell("batch", i, 1)] = b[i].n
    /\ \A c \in C :
          \/ \E i \in 1 .. Len(d) : c = Cell("delivered", i, 1)
          \/ \E i \in t + 1 .. Len(w) : \E j \in 1 .. Len(Parts(w[i])) :
                c = Cell("wire", i, j)
          \/ \E i \in 1 .. Len(b) : c = Cell("batch", i, 1)

LEMMA CellsByPlace ==
    ASSUME NEW d, NEW w, NEW t \in Nat, NEW b
    PROVE  Laid(Cells(d, w, t, b), Holding(d, w, t, b), d, w, t, b)
<1>1. \A c \in Cells(d, w, t, b) : c = Cell(c.at, c.i, c.j)
  BY DEF Cells, Cell
<1>2. ASSUME NEW i \in 1 .. Len(d)
      PROVE  /\ Cell("delivered", i, 1) \in Cells(d, w, t, b)
             /\ Holding(d, w, t, b)[Cell("delivered", i, 1)] = d[i].n
  BY DEF Cells, Cell, Holding
<1>3. ASSUME NEW i \in t + 1 .. Len(w), NEW j \in 1 .. Len(Parts(w[i]))
      PROVE  /\ Cell("wire", i, j) \in Cells(d, w, t, b)
             /\ Holding(d, w, t, b)[Cell("wire", i, j)] = Parts(w[i])[j].n
  <2>1. i \in Nat /\ j \in Nat
    OBVIOUS
  <2> QED
    BY <2>1 DEF Cells, Cell, Holding
<1>4. ASSUME NEW i \in 1 .. Len(b)
      PROVE  /\ Cell("batch", i, 1) \in Cells(d, w, t, b)
             /\ Holding(d, w, t, b)[Cell("batch", i, 1)] = b[i].n
  BY DEF Cells, Cell, Holding
<1>5. ASSUME NEW c \in Cells(d, w, t, b)
      PROVE  \/ \E i \in 1 .. Len(d) : c = Cell("delivered", i, 1)
             \/ \E i \in t + 1 .. Len(w) : \E j \in 1 .. Len(Parts(w[i])) :
                   c = Cell("wire", i, j)
             \/ \E i \in 1 .. Len(b) : c = Cell("batch", i, 1)
  <2>1. \/ c.at = "delivered" /\ c.i \in 1 .. Len(d) /\ c.j = 1
        \/ c.at = "wire" /\ c.i \in t + 1 .. Len(w) /\ c.j \in 1 .. Len(Parts(w[c.i]))
        \/ c.at = "batch" /\ c.i \in 1 .. Len(b) /\ c.j = 1
    BY DEF Cells
  <2> QED
    BY <1>1, <2>1
<1> QED
  BY <1>2, <1>3, <1>4, <1>5 DEF Laid

LEMMA CellParts ==
    \A a, i, j : Cell(a, i, j).at = a /\ Cell(a, i, j).i = i /\ Cell(a, i, j).j = j
  BY DEF Cell

(* Cells that move by a map m, each with its record, still hold one of     *)
(* each, and so they do if the next record gets a cell of its own.  Here C *)
(* and D are the cells before and after, f and g what they hold.           *)

LEMMA CellsMove ==
    ASSUME NEW C, NEW D, NEW f, NEW g, NEW m, NEW n, Numbers(C, f, n),
           \A c \in C : m[c] \in D /\ g[m[c]] = f[c],
           \A e \in D : \E c \in C : e = m[c]
    PROVE  Numbers(D, g, n)
<1>1. \A e \in D : g[e] \in 1 .. n
  BY DEF Numbers
<1>2. \A k \in 1 .. n : \E e \in D : g[e] = k
  BY DEF Numbers
<1>3. ASSUME NEW d \in D, NEW e \in D, g[d] = g[e]
      PROVE  d = e
  <2>1. PICK c \in C : d = m[c]
    OBVIOUS
  <2>2. PICK b \in C : e = m[b]
    OBVIOUS
  <2>3. f[c] = f[b]
    BY <1>3, <2>1, <2>2
  <2> QED
    BY <2>1, <2>2, <2>3 DEF Numbers
<1> QED
  BY <1>1, <1>2, <1>3 DEF Numbers

LEMMA CellsAdd ==
    ASSUME NEW C, NEW D, NEW f, NEW g, NEW m, NEW n \in Nat, Numbers(C, f, n),
           NEW new \in D, g[new] = n + 1,
           \A c \in C : m[c] \in D /\ g[m[c]] = f[c],
           \A e \in D : e = new \/ \E c \in C : e = m[c]
    PROVE  Numbers(D, g, n + 1)
<1>1. ASSUME NEW d \in D PROVE g[d] \in 1 .. n + 1
  <2>1. CASE d = new
    BY <2>1
  <2>2. CASE \E c \in C : d = m[c]
    <3>1. g[d] \in 1 .. n
      BY <2>2 DEF Numbers
    <3> QED
      BY <3>1
  <2> QED
    BY <2>1, <2>2
<1>2. ASSUME NEW k \in 1 .. n + 1 PROVE \E d \in D : g[d] = k
  <2>1. k \in 1 .. n \/ k = n + 1
    OBVIOUS
  <2> QED
    BY <2>1 DEF Numbers
<1>3. ASSUME NEW d \in D, NEW e \in D, g[d] = g[e]
      PROVE  d = e
  <2>1. \A c \in C : g[m[c]] # n + 1
    <3>1. \A k \in 1 .. n : k # n + 1
      OBVIOUS
    <3> QED
      BY <3>1 DEF Numbers
  <2>2. CASE d = new \/ e = new
    BY <1>3, <2>1, <2>2
  <2>3. CASE d # new /\ e # new
    <3>1. PICK c \in C : d = m[c]
      BY <2>3
    <3>2. PICK b \in C : e = m[b]
      BY <2>3
    <3>3. f[c] = f[b]
      BY <1>3, <3>1, <3>2
    <3> QED
      BY <3>1, <3>2, <3>3 DEF Numbers
  <2> QED
    BY <2>2, <2>3
<1> QED
  BY <1>1, <1>2, <1>3 DEF Numbers

\* A packet of its own for the next record.
LEMMA OneMorePacket ==
    ASSUME NEW S, NEW d, NEW w \in Seq(S), NEW t \in 0 .. Len(w), NEW b, NEW n \in Nat,
           NEW pkt \in S, Parts(pkt) = <<pkt>>, pkt.n = n + 1,
           OneEach(d, w, t, b, n)
    PROVE  OneEach(d, Append(w, pkt), t, b, n + 1)
<1> DEFINE W == Len(w) + 1
           x == Append(w, pkt)
           C == Cells(d, w, t, b)
           D == Cells(d, x, t, b)
           f == Holding(d, w, t, b)
           g == Holding(d, x, t, b)
           new == Cell("wire", W, 1)
           m == [c \in C |-> c]
<1>1. /\ Len(w) \in Nat /\ t \in Nat /\ Len(x) = W /\ x[W] = pkt
      /\ \A i \in t + 1 .. Len(w) : x[i] = w[i] /\ i \in t + 1 .. W
  OBVIOUS
<1>2. W \in t + 1 .. W /\ \A i \in t + 1 .. W : i \in t + 1 .. Len(w) \/ i = W
  BY <1>1
<1>3. Len(<<pkt>>) = 1 /\ <<pkt>>[1] = pkt
  OBVIOUS
<1> HIDE DEF W, x
<1>0. Laid(C, f, d, w, t, b) /\ Laid(D, g, d, x, t, b)
  BY <1>1, CellsByPlace
<1> HIDE DEF C, D, f, g, m
<1>4. new \in D /\ g[new] = n + 1
  <2>1. 1 \in 1 .. Len(Parts(x[W])) /\ Parts(x[W])[1] = pkt
    <3>1. Parts(x[W]) = <<pkt>>
      BY <1>1
    <3> QED
      BY <1>3, <3>1
  <2> QED
    BY <1>1, <1>2, <2>1, <1>0 DEF Laid
<1>5. ASSUME NEW c \in C PROVE c \in D /\ g[c] = f[c]
  <2>1. CASE \E i \in 1 .. Len(d) : c = Cell("delivered", i, 1)
    BY <1>1, <2>1, <1>0 DEF Laid
  <2>2. CASE \E i \in t + 1 .. Len(w) : \E j \in 1 .. Len(Parts(w[i])) : c = Cell("wire", i, j)
    BY <1>1, <2>2, <1>0 DEF Laid
  <2>3. CASE \E i \in 1 .. Len(b) : c = Cell("batch", i, 1)
    BY <1>1, <2>3, <1>0 DEF Laid
  <2> QED
    BY <1>1, <2>1, <2>2, <2>3, <1>0 DEF Laid
<1>6. ASSUME NEW e \in D PROVE e = new \/ e \in C
  <2>1. CASE \E i \in 1 .. Len(d) : e = Cell("delivered", i, 1)
    BY <1>1, <2>1, <1>0 DEF Laid
  <2>2. CASE \E i \in t + 1 .. W : \E j \in 1 .. Len(Parts(x[i])) : e = Cell("wire", i, j)
    <3>1. PICK i \in t + 1 .. W : \E j \in 1 .. Len(Parts(x[i])) : e = Cell("wire", i, j)
      BY <2>2
    <3>2. CASE i = W
      <4>1. PICK j \in 1 .. 1 : e = Cell("wire", W, j)
        BY <1>1, <1>3, <3>1, <3>2
      <4> QED
        BY <4>1
    <3>3. CASE i \in t + 1 .. Len(w)
      BY <1>1, <3>1, <3>3, <1>0 DEF Laid
    <3> QED
      BY <1>2, <3>1, <3>2, <3>3
  <2>3. CASE \E i \in 1 .. Len(b) : e = Cell("batch", i, 1)
    BY <1>1, <2>3, <1>0 DEF Laid
  <2> QED
    BY <1>1, <2>1, <2>2, <2>3, <1>0 DEF Laid
<1> HIDE DEF new
<1>7. \A c \in C : m[c] = c
  BY DEF m
<1>8. Numbers(C, f, n)
  BY DEF OneEach, C, f
<1>9. Numbers(D, g, n + 1)
  BY <1>4, <1>5, <1>6, <1>7, <1>8, CellsAdd
<1> QED
  BY <1>9 DEF OneEach, D, g, x

\* A place in the queue for the next record.
LEMMA OneMoreQueued ==
    ASSUME NEW S, NEW d, NEW w, NEW t \in Nat, NEW b \in Seq(S), NEW n \in Nat,
           NEW pkt \in S, pkt.n = n + 1, OneEach(d, w, t, b, n)
    PROVE  OneEach(d, w, t, Append(b, pkt), n + 1)
<1> DEFINE B == Len(b) + 1
           x == Append(b, pkt)
           C == Cells(d, w, t, b)
           D == Cells(d, w, t, x)
           f == Holding(d, w, t, b)
           g == Holding(d, w, t, x)
           new == Cell("batch", B, 1)
           m == [c \in C |-> c]
<1>1. /\ Len(b) \in Nat /\ Len(x) = B /\ x[B] = pkt
      /\ \A i \in 1 .. Len(b) : x[i] = b[i] /\ i \in 1 .. B
  OBVIOUS
<1>2. B \in 1 .. B /\ \A i \in 1 .. B : i \in 1 .. Len(b) \/ i = B
  BY <1>1
<1> HIDE DEF B, x
<1>0. Laid(C, f, d, w, t, b) /\ Laid(D, g, d, w, t, x)
  BY CellsByPlace
<1> HIDE DEF C, D, f, g, m
<1>3. new \in D /\ g[new] = n + 1
  BY <1>1, <1>2, <1>0 DEF Laid
<1>4. ASSUME NEW c \in C PROVE c \in D /\ g[c] = f[c]
  <2>1. CASE \E i \in 1 .. Len(d) : c = Cell("delivered", i, 1)
    BY <2>1, <1>0 DEF Laid
  <2>2. CASE \E i \in t + 1 .. Len(w) : \E j \in 1 .. Len(Parts(w[i])) : c = Cell("wire", i, j)
    BY <2>2, <1>0 DEF Laid
  <2>3. CASE \E i \in 1 .. Len(b) : c = Cell("batch", i, 1)
    BY <1>1, <2>3, <1>0 DEF Laid
  <2> QED
    BY <2>1, <2>2, <2>3, <1>0 DEF Laid
<1>5. ASSUME NEW e \in D PROVE e = new \/ e \in C
  <2>1. CASE \E i \in 1 .. Len(d) : e = Cell("delivered", i, 1)
    BY <2>1, <1>0 DEF Laid
  <2>2. CASE \E i \in t + 1 .. Len(w) : \E j \in 1 .. Len(Parts(w[i])) : e = Cell("wire", i, j)
    BY <2>2, <1>0 DEF Laid
  <2>3. CASE \E i \in 1 .. B : e = Cell("batch", i, 1)
    BY <1>2, <2>3, <1>0 DEF Laid
  <2> QED
    BY <1>1, <2>1, <2>2, <2>3, <1>0 DEF Laid
<1> HIDE DEF new
<1>6. \A c \in C : m[c] = c
  BY DEF m
<1>7. Numbers(C, f, n)
  BY DEF OneEach, C, f
<1>8. Numbers(D, g, n + 1)
  BY <1>3, <1>4, <1>5, <1>6, <1>7, CellsAdd
<1> QED
  BY <1>8 DEF OneEach, D, g, x

\* The queue goes out as a batch.
LEMMA QueueSent ==
    ASSUME NEW S, NEW d, NEW w \in Seq(S), NEW t \in 0 .. Len(w), NEW b, NEW n,
           NEW pkt \in S, Parts(pkt) = b, OneEach(d, w, t, b, n)
    PROVE  OneEach(d, Append(w, pkt), t, <<>>, n)
<1> DEFINE W == Len(w) + 1
           x == Append(w, pkt)
           C == Cells(d, w, t, b)
           D == Cells(d, x, t, <<>>)
           f == Holding(d, w, t, b)
           g == Holding(d, x, t, <<>>)
           m == [c \in C |-> IF c.at = "batch" THEN Cell("wire", W, c.i) ELSE c]
<1>1. /\ Len(w) \in Nat /\ t \in Nat /\ Len(x) = W /\ x[W] = pkt
      /\ \A i \in t + 1 .. Len(w) : x[i] = w[i] /\ i \in t + 1 .. W
  OBVIOUS
<1>2. W \in t + 1 .. W /\ \A i \in t + 1 .. W : i \in t + 1 .. Len(w) \/ i = W
  BY <1>1
<1> HIDE DEF W, x
<1>3. Laid(C, f, d, w, t, b) /\ Laid(D, g, d, x, t, <<>>)
  BY <1>1, CellsByPlace
<1> HIDE DEF C, D, f, g
<1>4. \A c \in C : m[c] = IF c.at = "batch" THEN Cell("wire", W, c.i) ELSE c
  OBVIOUS
<1> HIDE DEF m
<1>5. ASSUME NEW c \in C PROVE m[c] \in D /\ g[m[c]] = f[c]
  <2>1. CASE \E i \in 1 .. Len(d) : c = Cell("delivered", i, 1)
    <3>1. m[c] = c
      BY <1>4, <2>1, CellParts
    <3> QED
      BY <1>3, <2>1, <3>1 DEF Laid
  <2>2. CASE \E i \in t + 1 .. Len(w) : \E j \in 1 .. Len(Parts(w[i])) : c = Cell("wire", i, j)
    <3>1. m[c] = c
      BY <1>4, <2>2, CellParts
    <3> QED
      BY <1>1, <1>3, <2>2, <3>1, SMTT(30) DEF Laid
  <2>3. CASE \E i \in 1 .. Len(b) : c = Cell("batch", i, 1)
    <3>1. PICK i \in 1 .. Len(b) : c = Cell("batch", i, 1)
      BY <2>3
    <3>2. m[c] = Cell("wire", W, i)
      BY <1>4, <3>1, CellParts
    <3>3. f[c] = b[i].n
      BY <1>3, <3>1 DEF Laid
    <3>4. Cell("wire", W, i) \in D /\ g[Cell("wire", W, i)] = b[i].n
      BY <1>1, <1>2, <1>3 DEF Laid
    <3> QED
      BY <3>2, <3>3, <3>4
  <2> QED
    BY <1>3, <2>1, <2>2, <2>3 DEF Laid
<1>6. ASSUME NEW e \in D PROVE \E c \in C : e = m[c]
  <2>1. CASE \E i \in 1 .. Len(d) : e = Cell("delivered", i, 1)
    <3>1. e \in C /\ e.at # "batch"
      BY <1>3, <2>1, CellParts DEF Laid
    <3> QED
      BY <1>4, <3>1
  <2>2. CASE \E i \in t + 1 .. W : \E j \in 1 .. Len(Parts(x[i])) : e = Cell("wire", i, j)
    <3>1. PICK i \in t + 1 .. W : \E j \in 1 .. Len(Parts(x[i])) : e = Cell("wire", i, j)
      BY <2>2
    <3>2. CASE i = W
      <4>1. PICK j \in 1 .. Len(b) : e = Cell("wire", W, j)
        BY <1>1, <3>1, <3>2
      <4>2. Cell("batch", j, 1) \in C
        BY <1>3 DEF Laid
      <4>3. m[Cell("batch", j, 1)] = e
        BY <1>4, <4>1, <4>2, CellParts
      <4> QED
        BY <4>2, <4>3
    <3>3. CASE i \in t + 1 .. Len(w)
      <4>1. e \in C
        BY <1>1, <1>3, <3>1, <3>3 DEF Laid
      <4>2. e.at # "batch"
        BY <3>1, CellParts
      <4> QED
        BY <1>4, <4>1, <4>2
    <3> QED
      BY <1>2, <3>2, <3>3
  <2> QED
    BY <1>1, <1>3, <2>1, <2>2 DEF Laid
<1>7. Numbers(C, f, n)
  BY DEF OneEach, C, f
<1>8. Numbers(D, g, n)
  BY <1>5, <1>6, <1>7, CellsMove
<1> QED
  BY <1>8 DEF OneEach, D, g, x

\* The packet at the head of the channel is handed over, part by part.
LEMMA HeadHandedOver ==
    ASSUME NEW S, NEW T, NEW d \in Seq(S), NEW w \in Seq(T), NEW t \in 0 .. Len(w),
           NEW b, NEW n, NEW given \in Seq(S), t < Len(w),
           Len(given) = Len(Parts(w[t + 1])),
           \A j \in 1 .. Len(given) : given[j].n = Parts(w[t + 1])[j].n,
           OneEach(d, w, t, b, n)
    PROVE  OneEach(d \o given, w, t + 1, b, n)
<1> DEFINE T1 == t + 1
           x == d \o given
           C == Cells(d, w, t, b)
           D == Cells(x, w, T1, b)
           f == Holding(d, w, t, b)
           g == Holding(x, w, T1, b)
           m == [c \in C |-> IF c.at = "wire" /\ c.i = T1
                             THEN Cell("delivered", Len(d) + c.j, 1) ELSE c]
<1>1. /\ Len(w) \in Nat /\ t \in Nat /\ T1 \in Nat /\ Len(d) \in Nat /\ Len(given) \in Nat
      /\ T1 \in t + 1 .. Len(w)
      /\ \A i \in t + 1 .. Len(w) : i = T1 \/ i \in T1 + 1 .. Len(w)
      /\ \A i \in T1 + 1 .. Len(w) : i # T1 /\ i \in t + 1 .. Len(w)
  OBVIOUS
<1>2. /\ Len(x) = Len(d) + Len(given)
      /\ \A i \in 1 .. Len(d) + Len(given) :
            x[i] = IF i <= Len(d) THEN d[i] ELSE given[i - Len(d)]
  BY ConcatProperties
<1>3. \A i \in 1 .. Len(d) : i \in 1 .. Len(x) /\ x[i] = d[i]
  BY <1>1, <1>2
<1>4. \A j \in 1 .. Len(given) : Len(d) + j \in 1 .. Len(x) /\ x[Len(d) + j] = given[j]
  <2> SUFFICES ASSUME NEW j \in 1 .. Len(given)
               PROVE  Len(d) + j \in 1 .. Len(x) /\ x[Len(d) + j] = given[j]
    OBVIOUS
  <2> HIDE DEF x
  <2>1. /\ Len(d) + j \in 1 .. Len(d) + Len(given) /\ ~(Len(d) + j <= Len(d))
        /\ Len(d) + j - Len(d) = j
    BY <1>1
  <2> QED
    BY <1>2, <2>1
<1>5. \A i \in 1 .. Len(x) : i \in 1 .. Len(d) \/ \E j \in 1 .. Len(given) : i = Len(d) + j
  <2> SUFFICES ASSUME NEW i \in 1 .. Len(x), i \notin 1 .. Len(d)
               PROVE  \E j \in 1 .. Len(given) : i = Len(d) + j
    OBVIOUS
  <2> HIDE DEF x
  <2>1. i - Len(d) \in 1 .. Len(given) /\ i = Len(d) + (i - Len(d))
    BY <1>1, <1>2
  <2> QED
    BY <2>1
<1>6. \A j \in 1 .. Len(given) : given[j].n = Parts(w[T1])[j].n
  OBVIOUS
<1>7. Len(Parts(w[T1])) = Len(given)
  OBVIOUS
<1>8. Laid(C, f, d, w, t, b) /\ Laid(D, g, x, w, T1, b)
  BY <1>1, CellsByPlace
<1> HIDE DEF x, C, D, f, g
<1>9. \A c \in C : m[c] = IF c.at = "wire" /\ c.i = T1
                          THEN Cell("delivered", Len(d) + c.j, 1) ELSE c
  OBVIOUS
<1> HIDE DEF m
<1>10. ASSUME NEW c \in C PROVE m[c] \in D /\ g[m[c]] = f[c]
  <2>1. CASE \E i \in 1 .. Len(d) : c = Cell("delivered", i, 1)
    <3>1. m[c] = c
      BY <1>9, <2>1, CellParts
    <3>2. PICK i \in 1 .. Len(d) : c = Cell("delivered", i, 1)
      BY <2>1
    <3>3. f[c] = d[i].n
      BY <1>8, <3>2 DEF Laid
    <3>4. c \in D /\ g[c] = x[i].n
      BY <1>3, <1>8, <3>2 DEF Laid
    <3> QED
      BY <1>3, <3>1, <3>3, <3>4
  <2>2. CASE \E i \in t + 1 .. Len(w) : \E j \in 1 .. Len(Parts(w[i])) : c = Cell("wire", i, j)
    <3>1. PICK i \in t + 1 .. Len(w) : \E j \in 1 .. Len(Parts(w[i])) : c = Cell("wire", i, j)
      BY <2>2
    <3>2. PICK j \in 1 .. Len(Parts(w[i])) : c = Cell("wire", i, j)
      BY <3>1
    <3>3. f[c] = Parts(w[i])[j].n
      BY <1>8, <3>2 DEF Laid
    <3>4. CASE i = T1
      <4>1. j \in 1 .. Len(given)
        BY <1>7, <3>4
      <4>2. m[c] = Cell("delivered", Len(d) + j, 1)
        BY <1>9, <3>2, <3>4, CellParts
      <4>3. Cell("delivered", Len(d) + j, 1) \in D
            /\ g[Cell("delivered", Len(d) + j, 1)] = given[j].n
        <5>1. PICK k \in 1 .. Len(x) : k = Len(d) + j /\ x[k] = given[j]
          BY <1>4, <4>1
        <5>2. Cell("delivered", k, 1) \in D /\ g[Cell("delivered", k, 1)] = x[k].n
          BY <1>8 DEF Laid
        <5> QED
          BY <5>1, <5>2
      <4> QED
        BY <1>6, <3>3, <3>4, <4>1, <4>2, <4>3
    <3>5. CASE i \in T1 + 1 .. Len(w)
      <4>1. m[c] = c
        BY <1>1, <1>9, <3>2, <3>5, CellParts
      <4>2. c \in D /\ g[c] = Parts(w[i])[j].n
        BY <1>8, <3>2, <3>5 DEF Laid
      <4> QED
        BY <3>3, <4>1, <4>2
    <3> QED
      BY <1>1, <3>4, <3>5
  <2>3. CASE \E i \in 1 .. Len(b) : c = Cell("batch", i, 1)
    <3>1. m[c] = c
      BY <1>9, <2>3, CellParts
    <3> QED
      BY <1>8, <2>3, <3>1 DEF Laid
  <2> QED
    BY <1>8, <2>1, <2>2, <2>3 DEF Laid
<1>11. ASSUME NEW e \in D PROVE \E c \in C : e = m[c]
  <2>1. CASE \E i \in 1 .. Len(x) : e = Cell("delivered", i, 1)
    <3>1. PICK i \in 1 .. Len(x) : e = Cell("delivered", i, 1)
      BY <2>1
    <3>2. CASE i \in 1 .. Len(d)
      <4>1. e \in C /\ e.at # "wire"
        BY <1>8, <3>1, <3>2, CellParts DEF Laid
      <4> QED
        BY <1>9, <4>1
    <3>3. CASE \E j \in 1 .. Len(given) : i = Len(d) + j
      <4>1. PICK j \in 1 .. Len(given) : i = Len(d) + j
        BY <3>3
      <4>2. Cell("wire", T1, j) \in C
        BY <1>1, <1>7, <1>8 DEF Laid
      <4>3. m[Cell("wire", T1, j)] = e
        <5>1. PICK c \in C : c = Cell("wire", T1, j)
          BY <4>2
        <5>2. c.at = "wire" /\ c.i = T1 /\ c.j = j
          BY <5>1, CellParts
        <5>3. m[c] = Cell("delivered", Len(d) + j, 1)
          BY <1>9, <5>2
        <5> QED
          BY <3>1, <4>1, <5>1, <5>3
      <4> QED
        BY <4>2, <4>3
    <3> QED
      BY <1>5, <3>2, <3>3
  <2>2. CASE \E i \in T1 + 1 .. Len(w) : \E j \in 1 .. Len(Parts(w[i])) : e = Cell("wire", i, j)
    <3>1. e \in C
      BY <1>1, <1>8, <2>2 DEF Laid
    <3>2. e.i # T1
      BY <1>1, <2>2, CellParts
    <3> QED
      BY <1>9, <3>1, <3>2
  <2>3. CASE \E i \in 1 .. Len(b) : e = Cell("batch", i, 1)
    <3>1. e \in C /\ e.at # "wire"
      BY <1>8, <2>3, CellParts DEF Laid
    <3> QED
      BY <1>9, <3>1
  <2> QED
    BY <1>8, <2>1, <2>2, <2>3 DEF Laid
<1>12. Numbers(C, f, n)
  BY DEF OneEach, C, f
<1>13. Numbers(D, g, n)
  BY <1>10, <1>11, <1>12, CellsMove, SMTT(30)
<1> QED
  BY <1>13 DEF OneEach, D, g, x

\* Two packets in flight change places.
LEMMA PacketsSwapped ==
    ASSUME NEW S, NEW d, NEW w \in Seq(S), NEW t \in 0 .. Len(w), NEW b, NEW n,
           NEW q \in t + 1 .. Len(w) - 1, OneEach(d, w, t, b, n)
    PROVE  OneEach(d, [w EXCEPT ![q] = w[q + 1], ![q + 1] = w[q]], t, b, n)
<1> DEFINE Q == q + 1
           x == [w EXCEPT ![q] = w[Q], ![Q] = w[q]]
           To(i) == IF i = q THEN Q ELSE IF i = Q THEN q ELSE i
           C == Cells(d, w, t, b)
           D == Cells(d, x, t, b)
           f == Holding(d, w, t, b)
           g == Holding(d, x, t, b)
           m == [c \in C |-> IF c.at = "wire" THEN Cell("wire", To(c.i), c.j) ELSE c]
<1>1. t \in Nat /\ Len(x) = Len(w) /\ q \in t + 1 .. Len(w) /\ Q \in t + 1 .. Len(w) /\ q # Q
  OBVIOUS
<1>2. \A i \in t + 1 .. Len(w) :
        /\ To(i) \in t + 1 .. Len(w) /\ To(To(i)) = i
        /\ x[To(i)] = w[i] /\ x[i] = w[To(i)]
  <2> SUFFICES ASSUME NEW i \in t + 1 .. Len(w)
               PROVE  /\ To(i) \in t + 1 .. Len(w) /\ To(To(i)) = i
                      /\ x[To(i)] = w[i] /\ x[i] = w[To(i)]
    OBVIOUS
  <2>1. i \in DOMAIN w /\ q \in DOMAIN w /\ Q \in DOMAIN w
    BY <1>1
  <2> QED
    BY <1>1, <2>1
<1>3. Laid(C, f, d, w, t, b) /\ Laid(D, g, d, x, t, b)
  BY <1>1, CellsByPlace
<1> HIDE DEF Q, x, C, D, f, g
<1>4. \A c \in C : m[c] = IF c.at = "wire" THEN Cell("wire", To(c.i), c.j) ELSE c
  OBVIOUS
<1> HIDE DEF m, To
<1>5. ASSUME NEW c \in C PROVE m[c] \in D /\ g[m[c]] = f[c]
  <2>1. CASE \E i \in 1 .. Len(d) : c = Cell("delivered", i, 1)
    <3>1. m[c] = c
      BY <1>4, <2>1, CellParts
    <3> QED
      BY <1>3, <2>1, <3>1 DEF Laid
  <2>2. CASE \E i \in t + 1 .. Len(w) : \E j \in 1 .. Len(Parts(w[i])) : c = Cell("wire", i, j)
    <3>1. PICK i \in t + 1 .. Len(w) : \E j \in 1 .. Len(Parts(w[i])) : c = Cell("wire", i, j)
      BY <2>2
    <3>2. PICK j \in 1 .. Len(Parts(w[i])) : c = Cell("wire", i, j)
      BY <3>1
    <3>3. f[c] = Parts(w[i])[j].n
      BY <1>3, <3>2 DEF Laid
    <3>4. m[c] = Cell("wire", To(i), j)
      BY <1>4, <3>2, CellParts
    <3>5. PICK k \in t + 1 .. Len(x) : k = To(i) /\ x[k] = w[i]
      BY <1>1, <1>2
    <3>6. Cell("wire", k, j) \in D /\ g[Cell("wire", k, j)] = Parts(x[k])[j].n
      BY <1>3, <3>5 DEF Laid
    <3> QED
      BY <3>3, <3>4, <3>5, <3>6
  <2>3. CASE \E i \in 1 .. Len(b) : c = Cell("batch", i, 1)
    <3>1. m[c] = c
      BY <1>4, <2>3, CellParts
    <3> QED
      BY <1>3, <2>3, <3>1 DEF Laid
  <2> QED
    BY <1>3, <2>1, <2>2, <2>3 DEF Laid
<1>6. ASSUME NEW e \in D PROVE \E c \in C : e = m[c]
  <2>1. CASE \E i \in 1 .. Len(d) : e = Cell("delivered", i, 1)
    <3>1. e \in C /\ e.at # "wire"
      BY <1>3, <2>1, CellParts DEF Laid
    <3> QED
      BY <1>4, <3>1
  <2>2. CASE \E i \in t + 1 .. Len(x) : \E j \in 1 .. Len(Parts(x[i])) : e = Cell("wire", i, j)
    <3>1. PICK i \in t + 1 .. Len(x) : \E j \in 1 .. Len(Parts(x[i])) : e = Cell("wire", i, j)
      BY <2>2
    <3>2. PICK j \in 1 .. Len(Parts(x[i])) : e = Cell("wire", i, j)
      BY <3>1
    <3>3. PICK k \in t + 1 .. Len(w) : k = To(i) /\ To(k) = i /\ x[i] = w[k]
      BY <1>1, <1>2
    <3>4. PICK c \in C : c = Cell("wire", k, j)
      BY <1>3, <3>3 DEF Laid
    <3>5. c.at = "wire" /\ c.i = k /\ c.j = j
      BY <3>4, CellParts
    <3>6. m[c] = Cell("wire", i, j)
      BY <1>4, <3>3, <3>5
    <3> QED
      BY <3>2, <3>6
  <2>3. CASE \E i \in 1 .. Len(b) : e = Cell("batch", i, 1)
    <3>1. e \in C /\ e.at # "wire"
      BY <1>3, <2>3, CellParts DEF Laid
    <3> QED
      BY <1>4, <3>1
  <2> QED
    BY <1>3, <2>1, <2>2, <2>3 DEF Laid
<1>7. Numbers(C, f, n)
  BY DEF OneEach, C, f
<1>8. Numbers(D, g, n)
  BY <1>5, <1>6, <1>7, CellsMove
<1> QED
  BY <1>8 DEF OneEach, D, g, x, Q

\* The invariant behind Conserved.
AllHeld == OneEach(delivered, wire, taken, batch, Len(sent))

LEMMA AllHeldStep ==
    ASSUME PlainSetting, NothingDropped, PlainInv, AllHeld, [Next]_vars
    PROVE  AllHeld'
<1> DEFINE D == [n : Nat, schema : Schemas, payload : Payloads]
<1>1. /\ sent \in Seq(Records) /\ wire \in Seq(Packets) /\ batch \in Seq(FullPackets)
      /\ delivered \in Seq(D) /\ Len(sent) \in Nat
      /\ taken \in 0 .. Len(wire) /\ taken \in Nat /\ Len(wire) \in Nat
  BY SMTT(30) DEF PlainInv, TypeInv, TypeOK
<1> HIDE DEF D
<1>2. SUFFICES OneEach(delivered', wire', taken', batch', Len(sent'))
  BY DEF AllHeld, OneEach, Numbers, Cells, Holding, Parts
<1>3. OneEach(delivered, wire, taken, batch, Len(sent))
  BY DEF AllHeld
<1>4. ASSUME NEW s \in Schemas, NEW p \in Payloads, Sends(s, p)
      PROVE  OneEach(delivered', wire', taken', batch', Len(sent'))
  <2>1. PICK new \in FullPackets : /\ new = This(s, p) /\ new.n = Len(sent) + 1
                                   /\ Parts(new) = <<new>>
    <3>1. This(s, p) \in FullPackets
      BY <1>1, FullType DEF This
    <3>2. This(s, p).n = Len(sent) + 1 /\ This(s, p).kind = "full"
      BY DEF This, Full
    <3> QED
      BY <3>1, <3>2 DEF Parts
  <2>2. /\ taken' = taken /\ delivered' = delivered /\ Len(sent') = Len(sent) + 1
        /\ new \in Packets
    BY <1>1, <1>4 DEF Sends, Packets
  <2>3. CASE wire' = Append(wire, new) /\ batch' = batch
    BY <1>1, <1>3, <2>1, <2>2, <2>3, OneMorePacket
  <2>4. OneEach(delivered, wire, taken, Append(batch, new), Len(sent) + 1)
    BY <1>1, <1>3, <2>1, OneMoreQueued
  <2>5. CASE wire' = wire /\ batch' = Append(batch, new)
    BY <2>2, <2>4, <2>5
  <2>6. CASE wire' = Append(wire, Batch(Append(batch, new))) /\ batch' = <<>>
    <3>1. /\ Parts(Batch(Append(batch, new))) = Append(batch, new)
          /\ Append(batch, new) \in Seq(FullPackets)
      BY <1>1 DEF Parts, Batch
    <3>2. Batch(Append(batch, new)) \in Packets
      BY <3>1 DEF Batch, BatchPackets, Packets
    <3> QED
      BY <1>1, <2>2, <2>4, <2>6, <3>1, <3>2, QueueSent
  <2> QED
    BY <1>4, <2>1, <2>3, <2>5, <2>6 DEF Sends
<1>5. CASE Flushes
  <2>1. Parts(Batch(batch)) = batch /\ Batch(batch) \in Packets
    BY <1>1 DEF Parts, Batch, BatchPackets, Packets
  <2> QED
    BY <1>1, <1>3, <1>5, <2>1, QueueSent DEF Flushes
<1>6. CASE Takes
  <2> DEFINE fs == Parts(wire[taken + 1])
  <2>1. taken < Len(wire) /\ taken + 1 \in 1 .. Len(wire)
    BY <1>1, <1>6 DEF Takes
  <2>2. fs \in Seq(FullPackets)
    BY <2>1, PartsType
  <2> HIDE DEF fs
  <2>3. /\ Given(fs) \in [1 .. Len(fs) -> D] /\ Len(fs) \in Nat
        /\ \A j \in 1 .. Len(fs) : Given(fs)[j].n = fs[j].n
    <3>1. \A j \in 1 .. Len(fs) : fs[j] \in FullPackets
      BY <2>2
    <3>2. \A j \in 1 .. Len(fs) : Delivery(fs[j], fs[j].payload) \in D
      BY <3>1 DEF Delivery, FullPackets, D
    <3>3. \A j \in 1 .. Len(fs) : Delivery(fs[j], fs[j].payload).n = fs[j].n
      BY DEF Delivery
    <3>4. DOMAIN fs = 1 .. Len(fs) /\ Len(fs) \in Nat
      BY <2>2
    <3> QED
      BY <3>2, <3>3, <3>4 DEF Given
  <2>4. Given(fs) \in Seq(D) /\ Len(Given(fs)) = Len(fs)
    <3>1. Given(fs) \in Seq(D) /\ DOMAIN Given(fs) = 1 .. Len(fs)
      BY <2>3, FunctionIsSeq
    <3> QED
      BY <2>3, <3>1
  <2>5. OneEach(delivered \o Given(fs), wire, taken + 1, batch, Len(sent))
    BY <1>1, <1>3, <2>1, <2>3, <2>4, HeadHandedOver DEF fs
  <2> QED
    BY <1>6, <2>5 DEF Takes, fs
<1>7. CASE Swaps
  <2>1. PICK q \in taken + 1 .. Len(wire) - 1 :
            wire' = [wire EXCEPT ![q] = wire[q + 1], ![q + 1] = wire[q]]
    BY <1>7 DEF Swaps
  <2>2. OneEach(delivered, [wire EXCEPT ![q] = wire[q + 1], ![q + 1] = wire[q]],
                taken, batch, Len(sent))
    BY <1>1, <1>3, PacketsSwapped
  <2> QED
    BY <1>7, <2>1, <2>2 DEF Swaps
<1>8. CASE UNCHANGED <<sent, wire, taken, batch, delivered>>
  BY <1>3, <1>8
<1>9. ~Loses /\ ~Forgets
  BY DEF Loses, Forgets, NothingDropped
<1> QED
  BY <1>4, <1>5, <1>6, <1>7, <1>8, <1>9, PlainKinds

LEMMA HeldConserved ==
    ASSUME PlainInv, AllHeld
    PROVE  Conserved
<1> DEFINE C == Cells(delivered, wire, taken, batch)
           f == Holding(delivered, wire, taken, batch)
<1>1. /\ DOMAIN sent = 1 .. Len(sent) /\ DOMAIN batch = 1 .. Len(batch)
      /\ DOMAIN delivered = 1 .. Len(delivered) /\ taken \in Nat
      /\ \A i \in taken + 1 .. Len(wire) : i \in 1 .. Len(wire)
  BY DEF PlainInv, TypeInv, TypeOK
<1>2. Laid(C, f, delivered, wire, taken, batch)
  BY <1>1, CellsByPlace
<1>3. Numbers(C, f, Len(sent))
  BY DEF AllHeld, OneEach
<1> HIDE DEF C, f
<1>4. ASSUME NEW i \in taken + 1 .. Len(wire), NEW k
      PROVE  InPacket(wire[i], k) <=> \E j \in 1 .. Len(Parts(wire[i])) : Parts(wire[i])[j].n = k
  <2>1. DOMAIN Parts(wire[i]) = 1 .. Len(Parts(wire[i]))
    BY <1>1, PartsType
  <2>2. CASE wire[i].kind = "batch"
    BY <2>1, <2>2 DEF InPacket, Parts
  <2>3. CASE wire[i].kind # "batch"
    <3>1. Parts(wire[i]) = <<wire[i]>>
      BY <2>3 DEF Parts
    <3>2. Len(<<wire[i]>>) = 1 /\ <<wire[i]>>[1] = wire[i] /\ 1 \in 1 .. 1
          /\ \A j \in 1 .. 1 : j = 1
      OBVIOUS
    <3> QED
      BY <2>3, <3>1, <3>2 DEF InPacket
  <2> QED
    BY <2>2, <2>3
<1>5. ASSUME NEW k \in DOMAIN sent PROVE Cardinality(Places(k)) = 1
  <2>1. PICK c \in C : f[c] = k
    BY <1>1, <1>3 DEF Numbers
  <2>2. \A e \in C : f[e] = k => e = c
    BY <1>3, <2>1 DEF Numbers
  <2>3. ASSUME NEW x \in Places(k) PROVE x = <<c.at, c.i>>
    <3>1. CASE \E i \in 1 .. Len(delivered) : delivered[i].n = k /\ x = <<"delivered", i>>
      BY <1>2, <2>2, <3>1, CellParts DEF Laid
    <3>2. CASE \E i \in taken + 1 .. Len(wire) : InPacket(wire[i], k) /\ x = <<"wire", i>>
      <4>1. PICK i \in taken + 1 .. Len(wire) : InPacket(wire[i], k) /\ x = <<"wire", i>>
        BY <3>2
      <4>2. PICK j \in 1 .. Len(Parts(wire[i])) : Parts(wire[i])[j].n = k
        BY <1>4, <4>1
      <4>3. Cell("wire", i, j) = c
        BY <1>2, <2>2, <4>2 DEF Laid
      <4> QED
        BY <4>1, <4>3, CellParts
    <3>3. CASE \E i \in 1 .. Len(batch) : batch[i].n = k /\ x = <<"batch", i>>
      BY <1>2, <2>2, <3>3, CellParts DEF Laid
    <3> QED
      BY <1>1, <3>1, <3>2, <3>3 DEF Places
  <2>4. <<c.at, c.i>> \in Places(k)
    <3>1. CASE \E i \in 1 .. Len(delivered) : c = Cell("delivered", i, 1)
      BY <1>1, <1>2, <2>1, <3>1, CellParts DEF Laid, Places
    <3>2. CASE \E i \in taken + 1 .. Len(wire) : \E j \in 1 .. Len(Parts(wire[i])) :
                  c = Cell("wire", i, j)
      <4>1. PICK i \in taken + 1 .. Len(wire) : \E j \in 1 .. Len(Parts(wire[i])) :
                    c = Cell("wire", i, j)
        BY <3>2
      <4>2. InPacket(wire[i], k)
        <5>1. PICK j \in 1 .. Len(Parts(wire[i])) : c = Cell("wire", i, j)
          BY <4>1
        <5>2. f[c] = Parts(wire[i])[j].n
          BY <1>2, <5>1 DEF Laid
        <5> QED
          BY <1>4, <2>1, <5>2
      <4>3. c.at = "wire" /\ c.i = i
        BY <4>1, CellParts
      <4> QED
        BY <4>1, <4>2, <4>3 DEF Places
    <3>3. CASE \E i \in 1 .. Len(batch) : c = Cell("batch", i, 1)
      BY <1>1, <1>2, <2>1, <3>3, CellParts DEF Laid, Places
    <3> QED
      BY <1>2, <3>1, <3>2, <3>3 DEF Laid
  <2>5. Places(k) = {<<c.at, c.i>>}
    BY <2>3, <2>4
  <2> QED
    BY <2>5, FS_Singleton
<1> QED
  BY <1>5 DEF Conserved

\* In plain mode, while nothing that holds a record is lost or dropped, every
\* record that was sent is in exactly one place: reuse, batching, overtaking
\* and changes of the settings neither lose a record nor repeat one.
THEOREM PlainConserves ==
    ASSUME PlainSetting, NothingDropped
    PROVE  Spec => []Conserved
<1>1. Init => PlainInv /\ AllHeld
  <2> SUFFICES ASSUME Init PROVE AllHeld
    BY PlainInit
  <2>1. /\ taken \in Nat /\ Len(delivered) = 0 /\ Len(wire) = 0 /\ Len(batch) = 0
        /\ Len(sent) = 0 /\ taken = 0
    BY DEF Init
  <2>2. Cells(delivered, wire, taken, batch) = {}
    BY <2>1 DEF Cells
  <2> QED
    BY <2>1, <2>2 DEF AllHeld, OneEach, Numbers
<1>2. PlainInv /\ AllHeld /\ [Next]_vars => PlainInv' /\ AllHeld'
  BY PlainStep, AllHeldStep
<1>3. PlainInv /\ AllHeld => Conserved
  BY HeldConserved
<1> QED
  BY <1>1, <1>2, <1>3, PTL DEF Spec

-----------------------------------------------------------------------------
(* Who writes the settings *)

\* The settings in force and those that the user installed are settings.
SettingsTypes ==
    /\ cfg \in Configs
    /\ installed.stream \in Configs
    /\ DOMAIN explicit = {"stream", "dictionary"}
    /\ DOMAIN installed = {"stream", "dictionary"}

SettingsInv == SettingsTypes /\ UserWins /\ DecisionInForce

\* Only the delta flag of a configuration is the profiler's to change.
LEMMA OnlyDelta ==
    ASSUME NEW c \in Configs, NEW d \in Configs, NEW on \in BOOLEAN,
           c = [d EXCEPT !.delta = c.delta]
    PROVE  /\ [c EXCEPT !.delta = on] = [d EXCEPT !.delta = on]
           /\ [c EXCEPT !.delta = on].delta = on
           /\ c = [c EXCEPT !.delta = c.delta]
           /\ [c EXCEPT !.delta = on] \in Configs
<1>1. /\ c \in [enabled : BOOLEAN, reuse : BOOLEAN, updates : BOOLEAN, batching : BOOLEAN,
                delta : BOOLEAN, keyframe : Nat \ {0}, aggressiveAfter : Nat,
                maxBatch : Nat \ {0}, lowChange : Nat]
      /\ d \in [enabled : BOOLEAN, reuse : BOOLEAN, updates : BOOLEAN, batching : BOOLEAN,
                delta : BOOLEAN, keyframe : Nat \ {0}, aggressiveAfter : Nat,
                maxBatch : Nat \ {0}, lowChange : Nat]
  BY LinkAssumption
<1>2. [c EXCEPT !.delta = on] \in Configs
  BY ProfilerAssumption
<1> QED
  BY <1>1, <1>2

\* No step of the stream itself touches the sender's configuration.
LEMMA SendKeepsSettings ==
    ASSUME NEW s, NEW p, SendStream(s, p)
    PROVE  cfg' = cfg
  BY DEF SendStream, SendDisabled, SendReuse, SendKeyframe, SendDelta, SendFull,
         SendBatched, EmitDelta, Remember

-----------------------------------------------------------------------------
(* The profiler's steps *)

\* A change by the profiler: what it installs is a decision about the two
\* switches, each unless the user configured it.
LEMMA DecidedKeeps ==
    ASSUME SettingsInv, NEW d \in [dictionary : BOOLEAN, delta : BOOLEAN],
           cfg' = Decided(d).stream, dictOn' = Decided(d).dictionary,
           UNCHANGED <<explicit, installed>>
    PROVE  /\ SettingsTypes' /\ UserWins'
           /\ explicit.stream \/ cfg'.delta = d.delta
           /\ explicit.dictionary \/ dictOn' = d.dictionary
<1> USE DEF SettingsInv, SettingsTypes
<1>1. CASE explicit.stream
  BY <1>1 DEF UserWins, Decided
<1>2. CASE ~explicit.stream
  <2>1. cfg' = [cfg EXCEPT !.delta = d.delta]
    BY <1>2 DEF Decided
  <2>2. /\ cfg' \in Configs /\ cfg'.delta = d.delta
        /\ cfg' = [installed.stream EXCEPT !.delta = d.delta]
    BY <2>1, OnlyDelta DEF UserWins
  <2> QED
    BY <1>2, <2>2 DEF UserWins, Decided
<1> QED
  BY <1>1, <1>2

LEMMA WantedType ==
    ASSUME NEW s, NEW w
    PROVE  Wanted(s, w) \in [dictionary : BOOLEAN, delta : BOOLEAN]
<1>1. \A part, whole, t : AtLeast(part, whole, t) \in BOOLEAN
  <2> TAKE part, whole, t
  <2>1. (t[1] = 0) \in BOOLEAN /\ (part * t[2] >= whole * t[1]) \in BOOLEAN
    BY SMT
  <2>2. AtLeast(part, whole, t) = (t[1] = 0)
        \/ AtLeast(part, whole, t) = (part * t[2] >= whole * t[1])
    BY SMT DEF AtLeast
  <2> QED
    BY <2>1, <2>2
<1> QED
  BY <1>1 DEF Wanted

\* A window that ends, or does not.
LEMMA MaybeApplyKeeps ==
    ASSUME SettingsInv, NEW now, MaybeApply(now), UNCHANGED <<explicit, installed>>
    PROVE  SettingsInv'
<1> DEFINE done == Completed(now)
           want == [s \in done |-> Wanted(s, now[s])]
<1>1. CASE done = {}
  BY <1>1 DEF MaybeApply, SettingsInv, SettingsTypes, UserWins, DecisionInForce
<1>2. CASE done # {}
  <2>1. PICK last \in done :
          /\ decision' = [dictionary |-> want[last].dictionary,
                          delta |-> want[last].delta, applied |-> TRUE]
          /\ IF MustApply(want, done)
             THEN LET c == Decided(want[last]) IN Install(c.stream, c.dictionary)
             ELSE UNCHANGED <<cfg, dictOn, sender>>
    BY <1>2 DEF MaybeApply
  <2>2. untouched' = (untouched \/ ~decision.applied)
    BY <1>2 DEF MaybeApply
  <2>3. want[last] \in [dictionary : BOOLEAN, delta : BOOLEAN]
    BY WantedType
  <2>4. /\ decision'.dictionary = want[last].dictionary
        /\ decision'.delta = want[last].delta
    BY <2>1
  <2> HIDE DEF want
  <2>5. CASE MustApply(want, done)
    <3>1. /\ cfg' = Decided(want[last]).stream
          /\ dictOn' = Decided(want[last]).dictionary
      BY <2>1, <2>5 DEF Install
    <3> QED
      BY <2>3, <2>4, <3>1, DecidedKeeps DEF SettingsInv, DecisionInForce
  <2>6. CASE ~MustApply(want, done)
    <3>1. /\ decision.applied
          /\ want[last].dictionary = decision.dictionary
          /\ want[last].delta = decision.delta
      BY <2>6 DEF MustApply
    <3>2. UNCHANGED <<cfg, dictOn>> /\ (untouched' => untouched)
      BY <2>1, <2>2, <2>6, <3>1
    <3> QED
      BY <2>4, <3>1, <3>2 DEF SettingsInv, SettingsTypes, UserWins, DecisionInForce
  <2> QED
    BY <2>5, <2>6
<1> QED
  BY <1>1, <1>2

LEMMA ProfileKeeps ==
    ASSUME SettingsInv, NEW s, NEW p, Profile(s, p), UNCHANGED <<explicit, installed>>
    PROVE  SettingsInv'
<1>1. CASE profiler.enabled
  BY <1>1, MaybeApplyKeeps DEF Profile
<1>2. CASE ~profiler.enabled
  BY <1>2 DEF Profile, SettingsInv, SettingsTypes, UserWins, DecisionInForce
<1> QED
  BY <1>1, <1>2

-----------------------------------------------------------------------------
(* The whole *)

LEMMA SettingsInit == ProfiledInit => SettingsInv
<1> SUFFICES ASSUME ProfiledInit PROVE SettingsInv
  OBVIOUS
<1>1. cfg = FirstConfig /\ FirstConfig \in Configs
  BY LinkAssumption DEF ProfiledInit, Init
<1>2. cfg = [cfg EXCEPT !.delta = cfg.delta]
  BY <1>1, LinkAssumption
<1> QED
  BY <1>1, <1>2 DEF ProfiledInit, SettingsInv, SettingsTypes, UserWins, DecisionInForce

LEMMA SettingsStep == SettingsInv /\ [ProfiledNext]_profiledVars => SettingsInv'
<1> SUFFICES ASSUME SettingsInv, [ProfiledNext]_profiledVars PROVE SettingsInv'
  OBVIOUS
<1> USE DEF SettingsInv
<1>1. ASSUME NEW s \in Schemas, NEW p \in Payloads, BeginSend(s, p) PROVE SettingsInv'
  BY <1>1, ProfileKeeps DEF BeginSend
<1>2. ASSUME NEW s \in Schemas, NEW p \in Payloads, Send(s, p) PROVE SettingsInv'
  BY <1>2, ProfileKeeps DEF Send
<1>3. CASE UNCHANGED <<cfg, settings, decision, untouched>>
  BY <1>3 DEF settings, SettingsTypes, UserWins, DecisionInForce
<1>4. CASE EndSend
  BY <1>3, <1>4, SendKeepsSettings DEF EndSend, observed
<1>5. ASSUME NEW c \in UserConfigs, SetStream(c) PROVE SettingsInv'
  <2>1. c \in Configs /\ cfg' = c
    BY <1>5, ProfilerAssumption DEF SetStream, Configure
  <2>2. c = [c EXCEPT !.delta = c.delta]
    BY <2>1, LinkAssumption
  <2>3. /\ installed'.stream = c /\ installed'.dictionary = installed.dictionary
        /\ explicit'.dictionary = explicit.dictionary
        /\ DOMAIN installed' = DOMAIN installed /\ DOMAIN explicit' = DOMAIN explicit
        /\ dictOn' = dictOn /\ untouched' = FALSE
    BY <1>5 DEF SetStream, SettingsTypes
  <2> QED
    BY <2>1, <2>2, <2>3 DEF SettingsTypes, UserWins, DecisionInForce
<1>6. ASSUME NEW d \in BOOLEAN, SetDictionary(d) PROVE SettingsInv'
  <2>1. /\ installed'.stream = installed.stream /\ installed'.dictionary = d
        /\ explicit'.stream = explicit.stream
        /\ DOMAIN installed' = DOMAIN installed /\ DOMAIN explicit' = DOMAIN explicit
        /\ dictOn' = d /\ cfg' = cfg /\ untouched' = FALSE
    BY <1>6 DEF SetDictionary, SettingsTypes
  <2> QED
    BY <2>1 DEF SettingsTypes, UserWins, DecisionInForce
<1>7. ASSUME NEW profile \in Profiles, ApplyProfile(profile) PROVE SettingsInv'
  <2>1. profile.stream \in Configs
    BY ProfilerAssumption
  <2>2. profile.stream = [profile.stream EXCEPT !.delta = profile.stream.delta]
    BY <2>1, LinkAssumption
  <2>3. /\ cfg' = profile.stream /\ dictOn' = profile.dictionary
        /\ installed' = [stream |-> profile.stream, dictionary |-> profile.dictionary]
        /\ explicit' = explicit /\ untouched' = FALSE
    BY <1>7 DEF ApplyProfile, Install
  <2> QED
    BY <2>1, <2>2, <2>3 DEF SettingsTypes, UserWins, DecisionInForce
<1>8. ASSUME NEW a \in Profilers, SetAdaptive(a) PROVE SettingsInv'
  BY <1>3, <1>8 DEF SetAdaptive
<1>9. CASE ResetProfiler
  BY <1>9 DEF ResetProfiler, settings, SettingsTypes, UserWins, DecisionInForce
<1>10. CASE OtherCalls /\ UNCHANGED <<settings, observed, pending, untouched>>
  BY <1>3, <1>10 DEF OtherCalls, Flush, ResetSender, observed
<1>11. CASE ReceiveStream /\ UNCHANGED <<settings, observed, pending, untouched>>
  BY <1>3, <1>11 DEF ReceiveStream, ReceiveFull, ReceiveDelta, RejectDelta,
                     ReceiveBatch, observed
<1>12. CASE UNCHANGED profiledVars
  BY <1>3, <1>12 DEF profiledVars, vars, observed
<1> QED
  BY <1>1, <1>2, <1>4, <1>5, <1>6, <1>7, <1>8, <1>9, <1>10, <1>11, <1>12 DEF ProfiledNext

\* UserWins for every schema, window, threshold and profile: however many
\* windows end, what the user configured explicitly stays, and of the rest
\* the profiler changes the two switches only.
THEOREM UserAlwaysWins == ProfiledSpec => []UserWins
<1>1. SettingsInv => UserWins
  BY DEF SettingsInv
<1> QED
  BY <1>1, SettingsInit, SettingsStep, PTL DEF ProfiledSpec

\* DecisionInForce likewise: the decision and the settings cannot drift
\* apart, although a decision that repeats the last one is not installed.
THEOREM DecisionsTakeEffect == ProfiledSpec => []DecisionInForce
<1>1. SettingsInv => DecisionInForce
  BY DEF SettingsInv
<1> QED
  BY <1>1, SettingsInit, SettingsStep, PTL DEF ProfiledSpec

-----------------------------------------------------------------------------
(* The profiler switches the delta mode in the middle of a stream *)

\* Where a switch does no harm: no record is ever queued for a batch, the
\* user installs configurations of the delta mode only, because
\* set_stream_optimizer_config leaves the state of the stream as it is, and
\* nothing is lost.
SwitchSetting ==
    /\ \A c \in Configs : c.enabled /\ ~c.batching
    /\ \A c \in UserConfigs : c.delta
    /\ ~Lossy /\ "resetReceiver" \notin Events

\* In plain mode nothing is left of the delta mode: the numbers start over,
\* and the packet kept for reuse is the full packet of the last record.
PlainStands ==
    ~cfg.delta => \A s \in Schemas :
        /\ seq[s] = 0
        /\ HasPrevious(s) => /\ lastPacket[s].kind = "full"
                             /\ lastPacket[s].schema = s
                             /\ lastPacket[s].payload = lastPayload[s]

ProfiledTypes == TypeInv /\ (pending = Nothing \/ pending \in Records)

SwitchSafe ==
    /\ ProfiledTypes
    /\ PacketsMatch
    /\ SenderStands
    /\ PlainStands
    /\ ReceiverStands
    /\ ReceiverKnows
    /\ NeverMisdecode
    /\ NothingRejected

\* The settings may change; if the delta mode does, the next packet of every
\* schema is a full one.
Reconfigures ==
    /\ cfg' \in Configs
    /\ IF cfg'.delta # cfg.delta THEN ForgetDeltas ELSE UNCHANGED sender
    /\ UNCHANGED <<receiver, channel, sent, outcome>>
    /\ controls' \in 0 .. MaxControls

LEMMA InstallSwitches ==
    ASSUME cfg \in Configs, NEW c \in Configs, NEW d, Install(c, d)
    PROVE  /\ cfg' \in Configs
           /\ IF cfg'.delta # cfg.delta THEN ForgetDeltas ELSE UNCHANGED sender
  BY DEF Install

LEMMA ProfileSwitches ==
    ASSUME cfg \in Configs, NEW s, NEW p, Profile(s, p)
    PROVE  /\ cfg' \in Configs
           /\ IF cfg'.delta # cfg.delta THEN ForgetDeltas ELSE UNCHANGED sender
<1>1. ASSUME UNCHANGED <<cfg, sender>>
      PROVE  /\ cfg' \in Configs
             /\ IF cfg'.delta # cfg.delta THEN ForgetDeltas ELSE UNCHANGED sender
  BY <1>1
<1>2. CASE ~profiler.enabled
  BY <1>1, <1>2 DEF Profile
<1>3. CASE profiler.enabled
  <2> DEFINE now == Observe(s, p)
             done == Completed(now)
             want == [x \in done |-> Wanted(x, now[x])]
  <2>1. MaybeApply(now)
    BY <1>3 DEF Profile
  <2> HIDE DEF now
  <2>2. CASE done = {}
    BY <1>1, <2>1, <2>2 DEF MaybeApply
  <2>3. CASE done # {}
    <3>1. PICK last \in done :
            IF MustApply(want, done)
            THEN LET c == Decided(want[last]) IN Install(c.stream, c.dictionary)
            ELSE UNCHANGED <<cfg, dictOn, sender>>
      BY <2>1, <2>3 DEF MaybeApply
    <3>2. want[last].delta \in BOOLEAN
      BY WantedType
    <3>3. Decided(want[last]).stream \in Configs
      BY <3>2, ProfilerAssumption DEF Decided
    <3> HIDE DEF want
    <3>4. CASE MustApply(want, done)
      BY <3>1, <3>3, <3>4, InstallSwitches
    <3>5. CASE ~MustApply(want, done)
      BY <1>1, <3>1, <3>5
    <3> QED
      BY <3>4, <3>5
  <2> QED
    BY <2>2, <2>3
<1> QED
  BY <1>2, <1>3

\* What every step is to the stream: the settings change, the pending record
\* is sent, or it is a step of the stream alone.
LEMMA ProfiledSteps ==
    ASSUME ProfiledTypes, [ProfiledNext]_profiledVars
    PROVE  \/ Reconfigures /\ (pending' = pending \/ pending' \in Records)
           \/ /\ pending \in Records /\ pending' = Nothing
              /\ SendStream(pending.schema, pending.payload)
           \/ pending' = pending /\ \E c \in UserConfigs : Configure(c)
           \/ pending' = pending /\ (Flush \/ ResetSender \/ ReceiveStream)
<1> DEFINE Goal ==
           \/ Reconfigures /\ (pending' = pending \/ pending' \in Records)
           \/ /\ pending \in Records /\ pending' = Nothing
              /\ SendStream(pending.schema, pending.payload)
           \/ pending' = pending /\ \E c \in UserConfigs : Configure(c)
           \/ pending' = pending /\ (Flush \/ ResetSender \/ ReceiveStream)
<1>0. cfg \in Configs /\ controls \in 0 .. MaxControls /\ MaxControls \in Nat
  BY Widths DEF ProfiledTypes, TypeInv, TypeOK
<1>00. controls < MaxControls => controls + 1 \in 0 .. MaxControls
  BY <1>0
<1>1. ASSUME NEW s \in Schemas, NEW p \in Payloads, BeginSend(s, p) PROVE Goal
  <2>1. Profile(s, p) /\ UNCHANGED <<receiver, channel, sent, outcome, controls>>
    BY <1>1 DEF BeginSend
  <2>2. Reconfigures
    BY <1>0, <2>1, ProfileSwitches DEF Reconfigures
  <2>3. pending' \in Records
    BY <1>1 DEF BeginSend, Records
  <2> QED
    BY <2>2, <2>3
<1>2. ASSUME NEW s \in Schemas, NEW p \in Payloads, Send(s, p) PROVE Goal
  <2>1. /\ Profile(s, p) /\ UNCHANGED <<receiver, channel, sent, outcome, pending>>
        /\ controls' \in 0 .. MaxControls
    BY <1>00, <1>2 DEF Send
  <2>2. Reconfigures
    BY <1>0, <2>1, ProfileSwitches DEF Reconfigures
  <2> QED
    BY <2>1, <2>2
<1>3. CASE EndSend
  BY <1>3 DEF EndSend, Idle, ProfiledTypes
<1>4. ASSUME NEW c \in UserConfigs, SetStream(c) PROVE Goal
  BY <1>4 DEF SetStream
<1>5. ASSUME NEW profile \in Profiles, ApplyProfile(profile) PROVE Goal
  <2>1. /\ Install(profile.stream, profile.dictionary)
        /\ UNCHANGED <<receiver, channel, sent, outcome, pending>>
        /\ controls' \in 0 .. MaxControls
    BY <1>00, <1>5 DEF ApplyProfile
  <2>2. profile.stream \in Configs
    BY ProfilerAssumption
  <2>3. Reconfigures
    BY <1>0, <2>1, <2>2, InstallSwitches DEF Reconfigures
  <2> QED
    BY <2>1, <2>3
<1>6. ASSUME UNCHANGED <<cfg, sender, receiver, channel, sent, outcome, pending>>,
             controls' \in 0 .. MaxControls
      PROVE  Goal
  BY <1>0, <1>6 DEF Reconfigures
<1>7. ASSUME NEW d \in BOOLEAN, SetDictionary(d) PROVE Goal
  BY <1>00, <1>6, <1>7 DEF SetDictionary
<1>8. ASSUME NEW a \in Profilers, SetAdaptive(a) PROVE Goal
  BY <1>00, <1>6, <1>8 DEF SetAdaptive
<1>9. CASE ResetProfiler
  BY <1>00, <1>6, <1>9 DEF ResetProfiler
<1>10. CASE OtherCalls /\ UNCHANGED <<settings, observed, pending, untouched>>
  BY <1>10 DEF OtherCalls
<1>11. CASE ReceiveStream /\ UNCHANGED <<settings, observed, pending, untouched>>
  BY <1>11
<1>12. CASE UNCHANGED profiledVars
  BY <1>0, <1>6, <1>12 DEF profiledVars, vars
<1> QED
  BY <1>1, <1>2, <1>3, <1>4, <1>5, <1>7, <1>8, <1>9, <1>10, <1>11, <1>12 DEF ProfiledNext

LEMMA ReconfiguresType ==
    ASSUME TypeInv, Reconfigures
    PROVE  TypeInv'
<1> USE DEF TypeInv, TypeOK, HasPrevious
<1>1. /\ UNCHANGED <<lastDecoded, expected, wire, taken, sent, delivered, rejected>>
      /\ cfg' \in Configs /\ controls' \in 0 .. MaxControls
  BY DEF Reconfigures, receiver, channel, outcome
<1>2. CASE ForgetDeltas
  BY <1>1, <1>2, Widths DEF ForgetDeltas
<1>3. CASE UNCHANGED sender
  BY <1>1, <1>3 DEF sender
<1> QED
  BY <1>2, <1>3 DEF Reconfigures

LEMMA ProfiledTypesStep ==
    ASSUME ProfiledTypes, [ProfiledNext]_profiledVars
    PROVE  ProfiledTypes'
<1> USE DEF ProfiledTypes
<1>1. CASE Reconfigures /\ (pending' = pending \/ pending' \in Records)
  <2>1. TypeInv'
    BY <1>1, ReconfiguresType
  <2> QED
    BY <1>1, <2>1 DEF Records
<1>2. CASE /\ pending \in Records /\ pending' = Nothing
           /\ SendStream(pending.schema, pending.payload)
  <2>1. pending.schema \in Schemas /\ pending.payload \in Payloads
    BY <1>2 DEF Records
  <2> QED
    BY <1>2, <2>1, SendType
<1>3. CASE pending' = pending /\ \E c \in UserConfigs : Configure(c)
  <2>1. \E c \in Configs : Configure(c) \/ ApplySettings(c)
    BY <1>3, ProfilerAssumption
  <2>2. TypeInv'
    BY <2>1, OtherType
  <2> QED
    BY <1>3, <2>2 DEF Records
<1>4. CASE pending' = pending /\ (Flush \/ ResetSender \/ ReceiveStream)
  <2>1. TypeInv'
    BY <1>4, OtherType, ReceiveType
  <2> QED
    BY <1>4, <2>1 DEF Records
<1> QED
  BY <1>1, <1>2, <1>3, <1>4, ProfiledSteps

-----------------------------------------------------------------------------
(* What the steps do to a stream that switches *)

\* A send in plain mode: a full packet, which is also what is kept for reuse.
LEMMA FullSends ==
    ASSUME TypeInv, PacketsMatch, PlainStands, SwitchSetting, ~cfg.delta,
           NEW s \in Schemas, NEW p \in Payloads, SendStream(s, p)
    PROVE  Grows(s, p) /\ PutsFull(s, p) /\ PlainStands'
<1> DEFINE n == Len(sent) + 1
<1>1. cfg.enabled /\ ~cfg.batching
  BY DEF SwitchSetting, TypeInv, TypeOK
<1>2. n \in Nat /\ Full(s, p, n) \in Packets
  BY FullType DEF TypeInv, TypeOK, Packets
<1>3. /\ \A t \in Schemas : seq[t] = 0
      /\ \A t \in Schemas : HasPrevious(t) =>
            /\ lastPacket[t].kind = "full" /\ lastPacket[t].schema = t
            /\ lastPacket[t].payload = lastPayload[t]
  BY DEF PlainStands
<1>4. /\ Remember(s, p, This(s, p)) /\ Emit(Full(s, p, n))
      /\ UNCHANGED <<seq, records, batch>>
  <2>1. CASE SendReuse(s, p)
    <3>1. lastPacket[s].kind = "full" /\ lastPacket[s].schema = s /\ lastPacket[s].payload = p
      BY <1>3, <2>1 DEF SendReuse, Repeats
    <3>2. Again(lastPacket[s], n) = Full(s, p, n)
      BY <3>1 DEF Again
    <3> QED
      BY <2>1, <3>2 DEF SendReuse
  <2>2. CASE SendFull(s, p)
    BY <2>2 DEF SendFull, This
  <2> QED
    BY <1>1, <2>1, <2>2
    DEF SendStream, SendDisabled, SendKeyframe, KeyframeDue, SendDelta, SendBatched,
        BatchAllowed
<1>5. Grows(s, p) /\ wire'[Len(sent) + 1] = Full(s, p, n)
  BY <1>2, <1>4, GrowsByOne
<1>6. seq' = [seq EXCEPT ![s] = 0]
  <2>1. seq \in [Schemas -> 0 .. SeqMod - 1] /\ seq' = seq
    BY <1>4 DEF TypeInv, TypeOK
  <2> QED
    BY <1>3, <2>1
<1>7. PlainStands'
  <2>1. /\ cfg' = cfg /\ seq' = seq
        /\ lastPacket' = [lastPacket EXCEPT ![s] = Full(s, p, n)]
        /\ lastPayload' = [lastPayload EXCEPT ![s] = p]
    BY <1>4 DEF Remember, This
  <2>2. DOMAIN lastPacket = Schemas /\ DOMAIN lastPayload = Schemas
    BY DEF TypeInv, TypeOK
  <2>3. ASSUME NEW t \in Schemas, HasPrevious(t)'
        PROVE  /\ lastPacket'[t].kind = "full" /\ lastPacket'[t].schema = t
               /\ lastPacket'[t].payload = lastPayload'[t]
    <3>1. CASE t = s
      BY <2>1, <2>2, <3>1 DEF Full
    <3>2. CASE t # s
      <4>1. lastPacket'[t] = lastPacket[t] /\ lastPayload'[t] = lastPayload[t]
        BY <2>1, <2>2, <3>2
      <4>2. HasPrevious(t)
        BY <2>3, <4>1 DEF HasPrevious
      <4> QED
        BY <1>3, <4>1, <4>2
    <3> QED
      BY <3>1, <3>2
  <2> QED
    BY <1>3, <2>1, <2>3 DEF PlainStands
<1> QED
  BY <1>5, <1>6, <1>7 DEF PutsFull

\* Without loss whatever arrives is decoded.
LEMMA AllDecodes ==
    ASSUME TypeInv, PacketsMatch, ReceiverStands, NumbersGrow, ReceiverKnows,
           NeverMisdecode, ~Lossy, "resetReceiver" \notin Events, ReceiveStream
    PROVE  Decodes
<1>1. CASE ReceiveFull
  BY <1>1, FullDecodes
<1>2. CASE ReceiveDelta
  BY <1>2, DeltaDecodes
<1>3. CASE RejectDelta
  <2>1. Skips
    BY <1>3, RejectSkips
  <2>2. /\ taken + 1 \in 1 .. taken' /\ sent' = sent /\ lastDecoded' = lastDecoded
        /\ lastDecoded[sent[taken + 1].schema] = NoPayload
    BY <2>1 DEF Skips, TypeInv, TypeOK
  <2>3. ReceiverKnows'
    BY <2>1, SkipsKeeps
  <2> QED
    BY <2>2, <2>3 DEF ReceiverKnows, Lossy
<1>4. CASE ReceiveBatch
  <2>1. Arrival /\ Arriving.kind = "batch"
    BY <1>4 DEF ReceiveBatch
  <2>2. taken + 1 \in 1 .. Len(wire) /\ Arriving = wire[taken + 1]
    BY <2>1, HeadPacket
  <2> QED
    BY <2>1, <2>2, WireTypes
<1> QED
  BY <1>1, <1>2, <1>3, <1>4 DEF ReceiveStream

LEMMA SwitchInit ==
    ASSUME ProfiledInit
    PROVE  SwitchSafe
<1>1. Init /\ pending = Nothing
  BY DEF ProfiledInit
<1>2. DeltaSafe
  BY <1>1, DeltaSafeInit
<1>3. NothingRejected
  BY <1>1 DEF Init, NothingRejected
<1>4. \A s \in Schemas : seq[s] = 0 /\ ~HasPrevious(s)
  BY <1>1 DEF Init, HasPrevious
<1>5. PlainStands
  BY <1>4 DEF PlainStands
<1> QED
  BY <1>1, <1>2, <1>3, <1>5 DEF DeltaSafe, SwitchSafe, ProfiledTypes

LEMMA SwitchStep ==
    ASSUME SwitchSetting, SwitchSafe, [ProfiledNext]_profiledVars
    PROVE  SwitchSafe'
<1> USE DEF SwitchSafe
<1>1. TypeInv /\ ProfiledTypes'
  BY ProfiledTypesStep DEF ProfiledTypes
<1>2. ~Lossy /\ "resetReceiver" \notin Events /\ NumbersGrow
  BY DEF SwitchSetting, NumbersGrow
<1>3. ASSUME UNCHANGED <<taken, lastDecoded, expected, wire, sent, delivered, rejected>>
      PROVE  ReceiverStands' /\ ReceiverKnows' /\ NeverMisdecode' /\ NothingRejected'
  BY <1>3 DEF ReceiverStands, ReceiverKnows, NeverMisdecode, NothingRejected, After, Lossy
<1>4. CASE Reconfigures
  <2>1. UNCHANGED <<taken, lastDecoded, expected, wire, sent, delivered, rejected>>
    BY <1>4 DEF Reconfigures, receiver, channel, outcome
  <2>2. CASE UNCHANGED sender /\ cfg'.delta = cfg.delta
    <3>1. UNCHANGED <<lastPayload, lastPacket, seq, records, batch>>
      BY <2>2 DEF sender
    <3>2. PacketsMatch' /\ SenderStands'
      BY <1>2, <2>1, <3>1, HistoryStays
    <3>3. PlainStands'
      BY <2>2, <3>1 DEF PlainStands, HasPrevious
    <3> QED
      BY <1>1, <1>3, <2>1, <3>2, <3>3
  <2>3. CASE ForgetDeltas
    <3>1. /\ batch' = batch
          /\ \A s \in Schemas : lastPayload'[s] = NoPayload /\ seq'[s] = 0
      BY <2>3 DEF ForgetDeltas
    <3>2. PacketsMatch'
      BY <2>1, <3>1, PacketsStay
    <3>3. SenderStands' /\ PlainStands'
      BY <3>1 DEF SenderStands, PlainStands, HasPrevious
    <3> QED
      BY <1>1, <1>3, <2>1, <3>2, <3>3
  <2> QED
    BY <1>4, <2>2, <2>3 DEF Reconfigures
<1>5. ASSUME pending \in Records, SendStream(pending.schema, pending.payload)
      PROVE  SwitchSafe'
  <2>1. PICK s \in Schemas, p \in Payloads : SendStream(s, p)
    BY <1>5 DEF Records
  <2>2. Grows(s, p) /\ (PutsFull(s, p) \/ AddsDelta(s, p)) /\ PlainStands'
    <3>1. CASE cfg.delta
      <4>1. cfg.enabled
        BY <1>1 DEF SwitchSetting, TypeInv, TypeOK
      <4>2. Grows(s, p) /\ (AddsFull(s, p) \/ AddsDelta(s, p))
        BY <1>1, <1>2, <2>1, <3>1, <4>1, DeltaSends
      <4>3. cfg' = cfg
        BY <2>1, SendKeepsSettings
      <4> QED
        BY <3>1, <4>2, <4>3 DEF AddsFull, PlainStands
    <3>2. CASE ~cfg.delta
      BY <1>1, <2>1, <3>2, FullSends
    <3> QED
      BY <3>1, <3>2
  <2>3. PacketsMatch' /\ SenderStands'
    BY <1>1, <2>2, SendPackets, SendSender
  <2>4. ReceiverStands' /\ ReceiverKnows' /\ NeverMisdecode'
    BY <1>1, <2>2, SendReceiver, SendKnows, SendDelivered
  <2>5. NothingRejected'
    BY <2>2 DEF Grows, NothingRejected
  <2> QED
    BY <1>1, <2>2, <2>3, <2>4, <2>5
<1>6. ASSUME NEW c \in UserConfigs, Configure(c) PROVE SwitchSafe'
  <2>1. UNCHANGED <<lastPayload, seq, records, batch, taken, lastDecoded, expected,
                    wire, sent, delivered, rejected>>
    BY <1>6 DEF Configure, Control, sender, receiver, channel, outcome
  <2>2. cfg'.delta
    BY <1>6 DEF Configure, SwitchSetting
  <2>3. PlainStands'
    BY <2>2 DEF PlainStands
  <2>4. PacketsMatch' /\ SenderStands'
    BY <1>2, <2>1, HistoryStays
  <2> QED
    BY <1>1, <1>3, <2>1, <2>3, <2>4
<1>7. CASE ResetSender
  <2>1. /\ UNCHANGED <<taken, lastDecoded, expected, wire, sent, delivered, rejected>>
        /\ batch' = <<>>
        /\ \A s \in Schemas : lastPayload'[s] = NoPayload /\ seq'[s] = 0
    BY <1>7 DEF ResetSender, Control, channel, receiver, outcome
  <2>2. PacketsMatch'
    <3>1. UNCHANGED <<batch, wire, sent>>
      BY <2>1 DEF PacketsMatch
    <3> QED
      BY <3>1, PacketsStay
  <2>3. SenderStands' /\ PlainStands'
    BY <2>1 DEF SenderStands, PlainStands, HasPrevious
  <2> QED
    BY <1>1, <1>3, <2>1, <2>2, <2>3
<1>8. CASE ReceiveStream
  <2>1. Decodes
    BY <1>1, <1>2, <1>8, AllDecodes
  <2>2. UNCHANGED <<lastPayload, seq, records, batch, wire, sent, rejected>>
    BY <2>1 DEF Decodes
  <2>3. UNCHANGED <<cfg, lastPacket>>
    BY <1>8 DEF ReceiveStream, ReceiveFull, ReceiveDelta, RejectDelta, ReceiveBatch, sender
  <2>4. PacketsMatch' /\ SenderStands'
    BY <1>2, <2>2, HistoryStays
  <2>5. ReceiverStands' /\ ReceiverKnows' /\ NeverMisdecode'
    BY <1>1, <2>1, DecodesKeeps
  <2>6. PlainStands' /\ NothingRejected'
    BY <2>2, <2>3 DEF PlainStands, HasPrevious, NothingRejected
  <2> QED
    BY <1>1, <2>4, <2>5, <2>6
<1>9. ~Flush
  BY DEF Flush, PacketsMatch
<1> QED
  BY <1>1, <1>4, <1>5, <1>6, <1>7, <1>8, <1>9, ProfiledSteps DEF ProfiledTypes

\* What a step is to the two applications while the mode switches.
LEMMA SwitchShape ==
    ASSUME SwitchSetting, SwitchSafe, [ProfiledNext]_profiledVars
    PROVE  \/ \E s \in Schemas, p \in Payloads : Grows(s, p)
           \/ Decodes
           \/ UNCHANGED <<sent, delivered, taken>>
<1> USE DEF SwitchSafe
<1>1. TypeInv /\ ~Lossy /\ "resetReceiver" \notin Events /\ NumbersGrow
  BY DEF ProfiledTypes, SwitchSetting, NumbersGrow
<1>2. CASE pending \in Records /\ SendStream(pending.schema, pending.payload)
  <2>1. PICK s \in Schemas, p \in Payloads : SendStream(s, p)
    BY <1>2 DEF Records
  <2>2. CASE cfg.delta
    <3>1. cfg.enabled
      BY <1>1 DEF SwitchSetting, TypeInv, TypeOK
    <3> QED
      BY <1>1, <2>1, <2>2, <3>1, DeltaSends
  <2>3. CASE ~cfg.delta
    BY <1>1, <2>1, <2>3, FullSends
  <2> QED
    BY <2>2, <2>3
<1>3. CASE ReceiveStream
  BY <1>1, <1>3, AllDecodes
<1>4. CASE Reconfigures \/ ResetSender \/ \E c \in UserConfigs : Configure(c)
  BY <1>4 DEF Reconfigures, ResetSender, Configure, Control, channel, outcome
<1>5. ~Flush
  BY DEF Flush, PacketsMatch
<1> QED
  BY <1>2, <1>3, <1>4, <1>5, ProfiledSteps

\* The types hold with the profiler at work too, whatever it and the user
\* install.
THEOREM ProfiledTypeCorrect == ProfiledSpec => []TypeOK
<1>1. ProfiledInit => ProfiledTypes
  BY TypeInductive DEF ProfiledInit, ProfiledTypes
<1>2. ProfiledTypes /\ [ProfiledNext]_profiledVars => ProfiledTypes'
  BY ProfiledTypesStep
<1>3. ProfiledTypes => TypeOK
  BY DEF ProfiledTypes, TypeInv
<1> QED
  BY <1>1, <1>2, <1>3, PTL DEF ProfiledSpec

\* The delta mode may go on and off between any two records, and between the
\* two halves of send_stream: whatever is decoded is what was sent.
THEOREM SwitchNeverMisdecodes ==
    ASSUME SwitchSetting
    PROVE  ProfiledSpec => []NeverMisdecode
<1>1. SwitchSafe /\ [ProfiledNext]_profiledVars => SwitchSafe'
  BY SwitchStep
<1>2. SwitchSafe => NeverMisdecode
  BY DEF SwitchSafe
<1> QED
  BY <1>1, <1>2, SwitchInit, PTL DEF ProfiledSpec

\* ... and no delta is refused: the first packet after a switch is a full one,
\* or a delta numbered 0 right after one ...
THEOREM SwitchNothingRejected ==
    ASSUME SwitchSetting
    PROVE  ProfiledSpec => []NothingRejected
<1>1. SwitchSafe /\ [ProfiledNext]_profiledVars => SwitchSafe'
  BY SwitchStep
<1>2. SwitchSafe => NothingRejected
  BY DEF SwitchSafe
<1> QED
  BY <1>1, <1>2, SwitchInit, PTL DEF ProfiledSpec

\* ... and when the channel is empty the two ends agree on the base and on
\* the number of the next delta, in either mode.
THEOREM SwitchInSync ==
    ASSUME SwitchSetting
    PROVE  ProfiledSpec => []InSync
<1>1. SwitchSafe /\ [ProfiledNext]_profiledVars => SwitchSafe'
  BY SwitchStep
<1>2. SwitchSafe => InSync
  BY StandInSync DEF SwitchSafe, ProfiledTypes, SwitchSetting
<1> QED
  BY <1>1, <1>2, SwitchInit, PTL DEF ProfiledSpec

\* FaithfulStream with the profiler at work: to its two applications the link
\* is a RecordStream, however often the delta mode goes on and off.
THEOREM SwitchFaithful ==
    ASSUME SwitchSetting
    PROVE  ProfiledSpec => FaithfulStream
<1> DEFINE Inv == SwitchSafe /\ InOrder
<1>1. ProfiledInit => Inv /\ Stream!Init
  <2> SUFFICES ASSUME ProfiledInit PROVE InOrder /\ Stream!Init
    BY SwitchInit
  <2> QED
    BY DEF ProfiledInit, Init, InOrder, Stream!Init
<1>2. Inv /\ [ProfiledNext]_profiledVars => Inv'
  <2> SUFFICES ASSUME Inv, [ProfiledNext]_profiledVars PROVE Inv'
    OBVIOUS
  <2>1. TypeInv /\ taken \in Nat
    BY DEF SwitchSafe, ProfiledTypes, TypeInv, TypeOK
  <2>2. \/ Decodes
        \/ UNCHANGED delivered /\ taken' \in {taken, taken + 1}
    BY SwitchShape DEF Grows
  <2> QED
    BY <2>1, <2>2, SwitchStep, StaysInOrder
<1>3. Inv /\ Inv' /\ [ProfiledNext]_profiledVars => [Stream!Next]_<<sent, Got>>
  <2> SUFFICES ASSUME Inv, Inv', [ProfiledNext]_profiledVars
               PROVE  [Stream!Next]_<<sent, Got>>
    OBVIOUS
  <2>1. CASE UNCHANGED <<sent, delivered>>
    BY <2>1 DEF Got
  <2>2. CASE Decodes
    BY <2>2, DeliverRefines DEF SwitchSafe, ProfiledTypes
  <2> QED
    BY <2>1, <2>2, SwitchShape, SendRefines
<1> QED
  BY <1>1, <1>2, <1>3, PTL DEF ProfiledSpec, FaithfulStream, Stream!Spec, Got
=============================================================================
