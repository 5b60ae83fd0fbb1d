----------------------------- MODULE StreamLink -----------------------------
(***************************************************************************)
(* A record stream between two runtimes.  The sender calls send_stream,    *)
(* which hands each encoded record to its StreamOptimizer; the optimizer   *)
(* emits a full packet, a delta packet, a copy of the last packet or a     *)
(* batch, or keeps the record for a later batch.  The packets cross a      *)
(* first-in first-out channel into receive_stream of the other runtime,    *)
(* whose StreamOptimizer keeps the base record that deltas apply to.       *)
(*                                                                         *)
(* wire is the list of every packet emitted and taken counts those that    *)
(* have left the channel, by being received or lost.  sent, delivered and  *)
(* rejected are history variables: they record what the applications saw   *)
(* and no guard of the code reads them.  Every packet carries n, the       *)
(* number of its record in sent; this field is history too.                *)
(***************************************************************************)
EXTENDS DeltaCodec, Sequences

CONSTANTS
    Schemas,      \* the schemas both runtimes registered
    Configs,      \* the StreamOptimizerConfigs that may be installed
    FirstConfig,  \* the one installed before the first record
    SeqMod,       \* delta sequence numbers are counted modulo SeqMod
    Events,       \* what may happen besides sending and receiving
    MaxRecords,   \* bound: records the application sends
    MaxControls,  \* bound: configuration changes and resets
    NoPayload,    \* "no entry in the map"
    NoPacket

ASSUME LinkAssumption ==
    /\ SeqMod \in Nat \ {0}
    /\ MaxRecords \in Nat
    /\ MaxControls \in Nat
    /\ FirstConfig \in Configs
    /\ Configs \subseteq [enabled : BOOLEAN, reuse : BOOLEAN,
                          updates : BOOLEAN, batching : BOOLEAN,
                          delta : BOOLEAN, keyframe : Nat \ {0},
                          aggressiveAfter : Nat, maxBatch : Nat \ {0},
                          lowChange : Nat]
    /\ Events \subseteq {"loseFull", "loseDelta", "overtake", "recover",
                         "configure", "apply", "resetSender",
                         "resetReceiver"}
    /\ NoPayload \notin Payloads

VARIABLES
    cfg,          \* config_ of the sender
    lastPayload,  \* last_payload_by_schema_
    lastPacket,   \* last_packet_by_schema_
    samples,      \* sample_count_by_schema_
    seq,          \* delta_seq_by_schema_
    records,      \* record_count_by_schema_
    batch,        \* batched_packets_
    lastDecoded,  \* last_decoded_by_schema_, at the receiver
    expected,     \* expected_delta_seq_by_schema_, at the receiver
    wire, taken,
    controls,     \* configuration changes and resets so far
    sent, delivered, rejected

sender   == <<lastPayload, lastPacket, samples, seq, records, batch>>
receiver == <<lastDecoded, expected>>
channel  == <<wire, taken>>
outcome  == <<delivered, rejected>>
vars == <<cfg, sender, receiver, channel, controls, sent, outcome>>

-----------------------------------------------------------------------------
(* Packets *)

Patches == {Patch(a, b) : a, b \in Payloads}

FullPackets  == [kind : {"full"}, schema : Schemas, payload : Payloads, n : Nat]
DeltaPackets == [kind : {"delta"}, schema : Schemas, seq : 0 .. SeqMod - 1,
                 patch : Patches, n : Nat]
BatchPackets == [kind : {"batch"}, parts : Seq(FullPackets)]
Packets == FullPackets \cup DeltaPackets \cup BatchPackets

Full(s, p, k) == [kind |-> "full", schema |-> s, payload |-> p, n |-> k]
Delta(s, q, d, k) ==
    [kind |-> "delta", schema |-> s, seq |-> q, patch |-> d, n |-> k]
Batch(parts) == [kind |-> "batch", parts |-> parts]

\* The same bytes, sent for record k.
Again(pkt, k) ==
    IF pkt.kind = "full" THEN Full(pkt.schema, pkt.payload, k)
                         ELSE Delta(pkt.schema, pkt.seq, pkt.patch, k)

Records == [schema : Schemas, payload : Payloads]

TypeOK ==
    /\ cfg \in Configs
    /\ lastPayload \in [Schemas -> Payloads \cup {NoPayload}]
    /\ lastPacket \in [Schemas -> FullPackets \cup DeltaPackets \cup {NoPacket}]
    /\ samples \in [Schemas -> Nat]
    /\ seq \in [Schemas -> 0 .. SeqMod - 1]
    /\ records \in [Schemas -> Nat]
    /\ batch \in Seq(FullPackets)
    /\ lastDecoded \in [Schemas -> Payloads \cup {NoPayload}]
    /\ expected \in [Schemas -> 0 .. SeqMod - 1]
    /\ wire \in Seq(Packets)
    /\ taken \in 0 .. Len(wire)
    /\ controls \in 0 .. MaxControls
    /\ sent \in Seq(Records)
    /\ delivered \in Seq([n : Nat, schema : Schemas, payload : Payloads])
    /\ rejected \subseteq Nat

\* An entry that is absent from a counter map reads as 0.
Init ==
    /\ cfg = FirstConfig
    /\ lastPayload = [s \in Schemas |-> NoPayload]
    /\ lastPacket = [s \in Schemas |-> NoPacket]
    /\ samples = [s \in Schemas |-> 0]
    /\ seq = [s \in Schemas |-> 0]
    /\ records = [s \in Schemas |-> 0]
    /\ batch = <<>>
    /\ lastDecoded = [s \in Schemas |-> NoPayload]
    /\ expected = [s \in Schemas |-> 0]
    /\ wire = <<>>
    /\ taken = 0
    /\ controls = 0
    /\ sent = <<>>
    /\ delivered = <<>>
    /\ rejected = {}

-----------------------------------------------------------------------------
(* The sender: optimize_outgoing, one action per way it can end *)

HasPrevious(s) == lastPayload[s] # NoPayload

\* Mutated forms, of NextSeq, Repeats and KeyframeDue: a number wider than
\* the wire's, a repetition that is not compared, an interval off by one.
NextSeqUnwrapped(q) == q + 1
RepeatsUncompared(s, p) == HasPrevious(s) /\ cfg.reuse
KeyframeLate(s) ==
    cfg.delta /\ (~HasPrevious(s) \/ records[s] > cfg.keyframe)

NextSeq(q) == (q + 1) % SeqMod

Aggressive(s) == samples[s] >= cfg.aggressiveAfter

LowChange(s, p) ==
    Cardinality(Changed(lastPayload[s], p)) <= cfg.lowChange

\* The branches are tried in this order; each excludes the ones before it.
Repeats(s, p) == HasPrevious(s) /\ cfg.reuse /\ lastPayload[s] = p

KeyframeDue(s) ==
    cfg.delta /\ (~HasPrevious(s) \/ records[s] >= cfg.keyframe)

DeltaAllowed(s, p) ==
    cfg.delta /\ HasPrevious(s) /\ cfg.updates /\ Aggressive(s) /\ LowChange(s, p)

BatchAllowed(s, p) ==
    /\ ~cfg.delta /\ HasPrevious(s) /\ cfg.updates /\ cfg.batching
    /\ Aggressive(s) /\ LowChange(s, p)

\* What every call leaves behind, whatever it emitted.
Remember(s, p, pkt) ==
    /\ Len(sent) < MaxRecords
    /\ sent' = Append(sent, [schema |-> s, payload |-> p])
    /\ lastPayload' = [lastPayload EXCEPT ![s] = p]
    /\ lastPacket' = [lastPacket EXCEPT ![s] = pkt]
    /\ samples' = [samples EXCEPT ![s] = @ + 1]
    /\ UNCHANGED <<cfg, receiver, taken, controls, outcome>>

Emit(pkt) == wire' = Append(wire, pkt)

This(s, p) == Full(s, p, Len(sent) + 1)

RestartNumber(s) == seq' = [seq EXCEPT ![s] = 0]

CountRecord(s) == records' = [records EXCEPT ![s] = @ + 1]

\* The delta packet for p: its number is the sender's, which then advances.
EmitDelta(s, p) ==
    LET pkt == Delta(s, seq[s], Patch(lastPayload[s], p), Len(sent) + 1)
    IN  /\ Emit(pkt)
        /\ seq' = [seq EXCEPT ![s] = NextSeq(@)]
        /\ CountRecord(s)
        /\ Remember(s, p, pkt)
        /\ UNCHANGED batch

SendDisabled(s, p) ==
    /\ ~cfg.enabled
    /\ Emit(This(s, p))
    /\ Remember(s, p, This(s, p))
    /\ UNCHANGED <<seq, records, batch>>

\* An unchanged record in plain mode: the last packet goes out again.
SendReuse(s, p) ==
    /\ cfg.enabled /\ Repeats(s, p) /\ ~cfg.delta
    /\ Emit(Again(lastPacket[s], Len(sent) + 1))
    /\ Remember(s, p, This(s, p))
    /\ UNCHANGED <<seq, records, batch>>

SendKeyframe(s, p) ==
    /\ cfg.enabled /\ ~Repeats(s, p) /\ KeyframeDue(s)
    /\ Emit(This(s, p))
    /\ RestartNumber(s)
    /\ records' = [records EXCEPT ![s] = 1]
    /\ Remember(s, p, This(s, p))
    /\ UNCHANGED batch

\* An unchanged record, whose delta has an empty bitmap, whatever is due; or
\* a delta that turned out smaller than the full packet.
SendDelta(s, p) ==
    /\ cfg.enabled /\ cfg.delta
    /\ Repeats(s, p) \/ (~KeyframeDue(s) /\ DeltaAllowed(s, p))
    /\ EmitDelta(s, p)

\* No delta was tried, or the one tried was not smaller: the receiver will
\* restart its numbering at the full packet, so the sender does too.
SendFull(s, p) ==
    /\ cfg.enabled /\ ~Repeats(s, p) /\ ~KeyframeDue(s) /\ ~BatchAllowed(s, p)
    /\ Emit(This(s, p))
    /\ IF cfg.delta THEN RestartNumber(s) /\ CountRecord(s)
                    ELSE UNCHANGED <<seq, records>>
    /\ Remember(s, p, This(s, p))
    /\ UNCHANGED batch

SendBatched(s, p) ==
    /\ cfg.enabled /\ ~Repeats(s, p) /\ BatchAllowed(s, p)
    /\ LET parts == Append(batch, This(s, p))
       IN  IF Len(parts) >= cfg.maxBatch
           THEN Emit(Batch(parts)) /\ batch' = <<>>
           ELSE UNCHANGED wire /\ batch' = parts
    /\ Remember(s, p, This(s, p))
    /\ UNCHANGED <<seq, records>>

\* Mutated form: the queue is not cleared once it is sent.
FlushKeepsQueue ==
    /\ batch # <<>>
    /\ Emit(Batch(batch))
    /\ UNCHANGED <<cfg, sender, receiver, taken, controls, sent, outcome>>

\* flush_stream: whatever waits for a batch goes out.
Flush ==
    /\ batch # <<>>
    /\ Emit(Batch(batch))
    /\ batch' = <<>>
    /\ UNCHANGED <<cfg, lastPayload, lastPacket, samples, seq, records,
                   receiver, taken, controls, sent, outcome>>

-----------------------------------------------------------------------------
(* The receiver: receive_stream on the packet at the head of the channel *)

Arriving == wire[taken + 1]

Arrival == taken < Len(wire) /\ taken' = taken + 1

Delivery(pkt, p) == [n |-> pkt.n, schema |-> pkt.schema, payload |-> p]

\* Mutated forms, of the three operators that follow: the number is not
\* restarted, the base is not advanced, the number is not compared.
RecordKeepsNumber(s, p) ==
    /\ lastDecoded' = [lastDecoded EXCEPT ![s] = p]
    /\ UNCHANGED expected
RecordKeepsBase(s, p) ==
    /\ UNCHANGED lastDecoded
    /\ expected' = [expected EXCEPT ![s] = NextSeq(@)]
DeltaUnchecked(pkt) == lastDecoded[pkt.schema] # NoPayload

\* record_decoded: any full packet becomes the base and restarts the numbers.
RecordDecoded(s, p) ==
    /\ lastDecoded' = [lastDecoded EXCEPT ![s] = p]
    /\ expected' = [expected EXCEPT ![s] = 0]

RecordDecodedDelta(s, p) ==
    /\ lastDecoded' = [lastDecoded EXCEPT ![s] = p]
    /\ expected' = [expected EXCEPT ![s] = NextSeq(@)]

\* expand_delta refuses a delta without a base or with another number.
DeltaExpands(pkt) ==
    /\ lastDecoded[pkt.schema] # NoPayload
    /\ pkt.seq = expected[pkt.schema]

ReceiveFull ==
    /\ Arrival
    /\ Arriving.kind = "full"
    /\ RecordDecoded(Arriving.schema, Arriving.payload)
    /\ delivered' = Append(delivered, Delivery(Arriving, Arriving.payload))
    /\ UNCHANGED <<cfg, sender, wire, controls, sent, rejected>>

ReceiveDelta ==
    /\ Arrival
    /\ Arriving.kind = "delta"
    /\ DeltaExpands(Arriving)
    /\ LET p == ApplyPatch(lastDecoded[Arriving.schema], Arriving.patch)
       IN  /\ RecordDecodedDelta(Arriving.schema, p)
           /\ delivered' = Append(delivered, Delivery(Arriving, p))
    /\ UNCHANGED <<cfg, sender, wire, controls, sent, rejected>>

RejectDelta ==
    /\ Arrival
    /\ Arriving.kind = "delta"
    /\ ~DeltaExpands(Arriving)
    /\ rejected' = rejected \cup {Arriving.n}
    /\ UNCHANGED <<cfg, sender, receiver, wire, controls, sent, delivered>>

\* Every part of a batch is decoded and recorded in turn: the last part of
\* a schema is the base that stays.
ReceiveBatch ==
    /\ Arrival
    /\ Arriving.kind = "batch"
    /\ LET parts == Arriving.parts
           In(s) == {i \in DOMAIN parts : parts[i].schema = s}
           Newest(s) == CHOOSE i \in In(s) : \A j \in In(s) : j <= i
       IN  /\ lastDecoded' = [s \in Schemas |-> IF In(s) = {}
                                                THEN lastDecoded[s]
                                                ELSE parts[Newest(s)].payload]
           /\ expected' = [s \in Schemas |-> IF In(s) = {} THEN expected[s] ELSE 0]
           /\ delivered' = delivered \o
                [i \in DOMAIN parts |-> Delivery(parts[i], parts[i].payload)]
    /\ UNCHANGED <<cfg, sender, wire, controls, sent, rejected>>

\* receive_recovered_stream decodes a full packet with receive() alone.
ReceiveRecovered ==
    /\ "recover" \in Events
    /\ Arrival
    /\ Arriving.kind = "full"
    /\ delivered' = Append(delivered, Delivery(Arriving, Arriving.payload))
    /\ UNCHANGED <<cfg, sender, receiver, wire, controls, sent, rejected>>

-----------------------------------------------------------------------------
(* The channel *)

Lose ==
    /\ Arrival
    /\ \/ Arriving.kind = "delta" /\ "loseDelta" \in Events
       \/ Arriving.kind # "delta" /\ "loseFull" \in Events
    /\ UNCHANGED <<cfg, sender, receiver, wire, controls, sent, outcome>>

\* Two neighbouring packets in flight change places (datagrams only).
Overtake ==
    /\ "overtake" \in Events
    /\ \E i \in taken + 1 .. Len(wire) - 1 :
          wire' = [wire EXCEPT ![i] = wire[i + 1], ![i + 1] = wire[i]]
    /\ controls < MaxControls
    /\ controls' = controls + 1
    /\ UNCHANGED <<cfg, sender, receiver, taken, sent, outcome>>

-----------------------------------------------------------------------------
(* Configuration changes and resets *)

Control(e) ==
    /\ e \in Events
    /\ controls < MaxControls
    /\ controls' = controls + 1
    /\ UNCHANGED <<channel, sent, outcome>>

\* set_stream_optimizer_config: the stream state is left as it is.
Configure(c) ==
    /\ Control("configure")
    /\ cfg' = c
    /\ UNCHANGED <<sender, receiver>>

\* reset_delta_state, the half of it that the sender uses.
ForgetDeltas ==
    /\ lastPayload' = [s \in Schemas |-> NoPayload]
    /\ seq' = [s \in Schemas |-> 0]
    /\ records' = [s \in Schemas |-> 0]
    /\ UNCHANGED <<lastPacket, samples, batch>>

\* apply_optimization_settings: a change of the delta mode forces a keyframe.
ApplySettings(c) ==
    /\ Control("apply")
    /\ cfg' = c
    /\ IF c.delta # cfg.delta THEN ForgetDeltas ELSE UNCHANGED sender
    /\ UNCHANGED receiver

\* reset_stream_optimizer at the sender; queued records are dropped.
ResetSender ==
    /\ Control("resetSender")
    /\ lastPayload' = [s \in Schemas |-> NoPayload]
    /\ lastPacket' = [s \in Schemas |-> NoPacket]
    /\ samples' = [s \in Schemas |-> 0]
    /\ seq' = [s \in Schemas |-> 0]
    /\ records' = [s \in Schemas |-> 0]
    /\ batch' = <<>>
    /\ UNCHANGED <<cfg, receiver>>

\* reset() or reset_delta_state() at the receiver, or its restart.
ResetReceiver ==
    /\ Control("resetReceiver")
    /\ lastDecoded' = [s \in Schemas |-> NoPayload]
    /\ expected' = [s \in Schemas |-> 0]
    /\ UNCHANGED <<cfg, sender>>

-----------------------------------------------------------------------------
SendStream(s, p) ==
    \/ SendDisabled(s, p)
    \/ SendReuse(s, p)
    \/ SendKeyframe(s, p)
    \/ SendDelta(s, p)
    \/ SendFull(s, p)
    \/ SendBatched(s, p)

ReceiveStream == ReceiveFull \/ ReceiveDelta \/ RejectDelta \/ ReceiveBatch

Next ==
    \/ \E s \in Schemas, p \in Payloads : SendStream(s, p)
    \/ Flush
    \/ ReceiveStream
    \/ ReceiveRecovered
    \/ Lose
    \/ Overtake
    \/ \E c \in Configs : Configure(c) \/ ApplySettings(c)
    \/ ResetSender
    \/ ResetReceiver

Spec == Init /\ [][Next]_vars
-----------------------------------------------------------------------------
(* What should be true of it *)

\* Whatever the receiver hands to its application is the very record that
\* was sent: a delta is never applied to another base than the one it was
\* computed from (expand_delta: "reject, never misdecode").
NeverMisdecode ==
    \A i \in DOMAIN delivered :
        LET d == delivered[i]
        IN  /\ d.n \in DOMAIN sent
            /\ sent[d.n] = [schema |-> d.schema, payload |-> d.payload]

\* Without loss no delta is ever refused: the sender restarts its numbers
\* exactly when the receiver does.
NothingRejected == rejected = {}

\* Once the channel has drained, the two sides agree on the base record and
\* on the number of the next delta.
InSync ==
    taken = Len(wire) =>
        \A s \in Schemas : HasPrevious(s) =>
            lastDecoded[s] = lastPayload[s] /\ expected[s] = seq[s]

RecordsOf(s) == {k \in DOMAIN sent : sent[k].schema = s}

\* The keyframe interval bounds an outage: of as many consecutive records of
\* one schema as the interval counts, at least one is not refused, whatever
\* was lost before them.
OutageBounded ==
    \A s \in Schemas : \A a, b \in RecordsOf(s) :
        LET window == {k \in RecordsOf(s) : a <= k /\ k <= b}
        IN  Cardinality(window) >= cfg.keyframe => ~(window \subseteq rejected)

\* Where record k is: handed over, in the channel, or waiting for a batch.
InPacket(pkt, k) ==
    IF pkt.kind = "batch" THEN \E i \in DOMAIN pkt.parts : pkt.parts[i].n = k
                          ELSE pkt.n = k
Places(k) ==
      {<<"delivered", i>> : i \in {j \in DOMAIN delivered : delivered[j].n = k}}
    \cup {<<"wire", i>> : i \in {j \in taken + 1 .. Len(wire) : InPacket(wire[j], k)}}
    \cup {<<"batch", i>> : i \in {j \in DOMAIN batch : batch[j].n = k}}

\* Without loss every record handed to send_stream is in exactly one place:
\* reusing packets and batching neither drop nor duplicate one.
Conserved == \A k \in DOMAIN sent : Cardinality(Places(k)) = 1

\* The stream, seen by its applications, is a RecordStream.
Stream == INSTANCE RecordStream WITH
            Record <- Records,
            got <- [i \in DOMAIN delivered |->
                      [n |-> delivered[i].n,
                       record |-> [schema |-> delivered[i].schema,
                                   payload |-> delivered[i].payload]]]

\* Records come out in order, at most once and unchanged.
FaithfulStream == Stream!Spec
=============================================================================
