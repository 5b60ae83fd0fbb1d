----------------------------- MODULE PacketPaths -----------------------------
(***************************************************************************)
(* A pair of runtimes with the same schemas.  Definitions are registered   *)
(* in any order; then one packet goes from a sending call to a receiving   *)
(* one, or several go through the stream calls, with a CRC or without.     *)
(* On the way a packet may be cut short or extended, and a byte changed.   *)
(***************************************************************************)
EXTENDS StreamEnvelope

CONSTANTS Jobs(_) \* what is tried with a registry

VARIABLES
    registry,
    offered,   \* the definitions given to register_schema so far
    job,       \* what is sent and how
    wire,      \* the bytes that arrive
    damage,    \* what happened to them
    messages,  \* what is handed over
    pc         \* where the calls are

paths == <<registry, offered, job, wire, damage, messages, pc>>

NoJob == [via |-> "none"]

PathsInit ==
    /\ registry = Empty
    /\ offered = {}
    /\ job = NoJob
    /\ wire = <<>>
    /\ damage = "none"
    /\ messages = <<>>
    /\ pc = "register"

RegisterSchema(def) ==
    /\ pc = "register"
    /\ offered' = offered \cup {def}
    /\ registry' = Registered(registry, def)
    /\ UNCHANGED <<job, wire, damage, messages, pc>>

\* What the application may ask for.  A call may fail for its data; a stream
\* is one of records that send accepts.
IsPacket(piece) == "name" \in DOMAIN piece

IsCall(j) ==
    /\ j.via = "call"
    /\ j.by \in {"send", "send_ordered", "fast_encode"}
    /\ j.to \in {"receive", "receive_as", "receive_ordered", "fast_decode"}
    /\ {j.omit, j.on} \subseteq BOOLEAN
    /\ IF j.by = "send" THEN j.data \in [DOMAIN j.data -> Value] ELSE j.data \in Seq(Value)
    /\ j.by = "fast_encode" => \A i \in DOMAIN j.data : ~j.data[i].ref

Sendable(m, omit) ==
    /\ m \in [name : {m.name}, payload : [DOMAIN m.payload -> Value]]
    /\ IsFiniteSet(DOMAIN m.payload)
    /\ Send(registry, m.name, m.payload, omit) # {}

IsStream(j) ==
    /\ j.via = "stream"
    /\ {j.omit, j.on, j.crc, j.batched} \subseteq BOOLEAN
    /\ j.records \in Seq({j.records[i] : i \in DOMAIN j.records}) \ {<<>>}
    /\ \A i \in DOMAIN j.records : Sendable(j.records[i], j.omit)
    /\ ~j.batched => Len(j.records) = 1

IsRecovery(j) ==
    /\ j.via = "recovery"
    /\ {j.omit, j.on} \subseteq BOOLEAN
    /\ j.pieces \in Seq({j.pieces[i] : i \in DOMAIN j.pieces})
    /\ \A i \in DOMAIN j.pieces :
           IF IsPacket(j.pieces[i]) THEN Sendable(j.pieces[i], j.omit)
                                    ELSE j.pieces[i].noise \in Seq(Bytes)

Start ==
    /\ pc = "register" /\ offered = Definitions
    /\ job' \in {j \in Jobs(registry) : IsCall(j) \/ IsStream(j) \/ IsRecovery(j)}
    /\ pc' = "emit"
    /\ UNCHANGED <<registry, offered, wire, damage, messages>>

-----------------------------------------------------------------------------
(* One packet: job.by sends it, job.to receives it *)

MadeBy(j) ==
    CASE j.by = "send" -> Send(registry, j.name, j.data, j.omit)
      [] j.by = "send_ordered" -> SendOrdered(registry, j.name, j.data, j.omit)
      [] j.by = "fast_encode" -> FastEncode(registry, j.name, j.data)

TakenBy(j, p) ==
    CASE j.to = "receive" -> Receive(registry, p, j.on)
      [] j.to = "receive_as" -> ReceiveAs(registry, j.name, p, j.on)
      [] j.to = "receive_ordered" -> ReceiveOrdered(registry, p, j.on)
      [] j.to = "fast_decode" -> FastDecode(registry, p)

MakePacket ==
    /\ pc = "emit" /\ job.via = "call"
    /\ IF MadeBy(job) = {} THEN pc' = "refused" /\ UNCHANGED wire
                           ELSE pc' = "sent" /\ wire' \in MadeBy(job)
    /\ UNCHANGED <<registry, offered, job, damage, messages>>

TakePacket ==
    /\ pc = "sent" /\ job.via = "call"
    /\ messages' = SetToSeq(TakenBy(job, wire))
    /\ pc' = IF messages' = <<>> THEN "failed" ELSE "done"
    /\ UNCHANGED <<registry, offered, job, wire, damage>>

-----------------------------------------------------------------------------
(* send_stream and flush_stream, and receive_stream *)

\* The packets of the records of a stream.
PacketOf(j, m) == CHOOSE p \in Send(registry, m.name, m.payload, j.omit) : TRUE
PacketsOf(j) == [i \in DOMAIN j.records |-> PacketOf(j, j.records[i])]

EmitStream ==
    /\ pc = "emit" /\ job.via = "stream"
    /\ LET out == IF job.batched THEN BatchOf(PacketsOf(job)) ELSE PacketsOf(job)[1]
       IN  wire' = IF job.crc THEN Wrap(out) ELSE out
    /\ pc' = "sent"
    /\ UNCHANGED <<registry, offered, job, damage, messages>>

TakeStream ==
    /\ pc = "sent" /\ job.via = "stream"
    /\ LET r == ReceiveStream(registry, wire, job.on)
       IN  /\ messages' = r.messages
           /\ pc' = IF r.ok THEN "done" ELSE "failed"
    /\ UNCHANGED <<registry, offered, job, wire, damage>>

-----------------------------------------------------------------------------
(* The way between them *)

Damage(kind, bytes) ==
    /\ pc = "sent" /\ damage = "none"
    /\ damage' = kind
    /\ wire' = bytes
    /\ UNCHANGED <<registry, offered, job, messages, pc>>

Cut(n) == job.via = "call" /\ Damage("cut", SubSeq(wire, 1, n))

Extend(b) == job.via = "call" /\ Damage("extended", Append(wire, b))

Change(i, b) ==
    /\ job.via = "stream" /\ job.crc
    /\ wire[i] # b
    /\ Damage(IF i = 1 THEN "marker" ELSE "byte", [wire EXCEPT ![i] = b])

PathsNext ==
    \/ \E def \in Definitions \ offered : RegisterSchema(def)
    \/ Start
    \/ MakePacket \/ TakePacket
    \/ EmitStream \/ TakeStream
    \/ \E n \in 0 .. Len(wire) - 1 : Cut(n)
    \/ \E b \in Bytes : Extend(b) \/ \E i \in DOMAIN wire : Change(i, b)
-----------------------------------------------------------------------------
(* What should be true of it *)

SchemaOf(j) == registry.schemas[j.name]
ValuesIn(j) == IF j.by = "send" THEN Ordered(SchemaOf(j), j.data) ELSE j.data

\* The lengths of its fields can be written, and none is the dictionary mark.
Writable(values) ==
    \A i \in DOMAIN values : values[i].kind # "fixed" /\ ~values[i].ref =>
        Len(values[i].bytes) < IF values[i].kind = "string" THEN RefMark ELSE Radix

\* The record is one of the schema, with every field in its bounds, and the
\* optimizer's bitmap has a bit for each.
Proper(j) ==
    /\ j.name \in DOMAIN registry.schemas
    /\ j.by = "send" => Maps(SchemaOf(j), j.data)
    /\ ValuesFit(SchemaOf(j), ValuesIn(j), Sends)
    /\ Writable(ValuesIn(j))
    /\ j.omit /\ j.by # "fast_encode" => Len(SchemaOf(j).fields) <= MostFields

\* A packet whose first field starts with the optimizer's mark is taken for
\* one without its zero fields; one without them needs a receiver that can
\* put them back.
Mistaken(plain, p) == p = plain /\ IsOptimized(p)
Clear(plain, p, on) == (on => ~Mistaken(plain, p)) /\ (p # plain => on)

ClearTo(j) ==
    LET plain == Encode(SchemaOf(j), ValuesIn(j))
    IN  \A p \in MadeBy(j) : IF j.to = "fast_decode" THEN ~Mistaken(plain, p)
                                                     ELSE Clear(plain, p, j.on)

Checks(j) == j.to \in {"receive", "receive_as"}

\* The receiver's dictionary has the strings, within the bounds it checks.
RefsKnown(sch, values, checked) ==
    \A i \in DOMAIN values : values[i].ref =>
        /\ values[i].bytes[1] \in DOMAIN Known
        /\ checked => Known[values[i].bytes[1]] <= sch.fields[i].size

CallOver == job.via = "call" /\ pc \in {"refused", "failed", "done"}

\* Encoder, optimizer, detector and the decoders agree on every field:
\* whichever call makes a packet of a record, each call that receives it
\* hands over that record, and no proper record is refused.
RoundTrip ==
    CallOver /\ damage = "none" /\ Proper(job) =>
        LET sch == SchemaOf(job)
            values == ValuesIn(job)
        IN  /\ pc # "refused"
            /\ RefsKnown(sch, values, Checks(job)) /\ ClearTo(job)
               /\ (job.to = "fast_decode" => sch.id # BatchMark)
               => /\ Len(messages) = 1 /\ messages[1].name = job.name
                  /\ values = IF Checks(job) THEN Ordered(sch, messages[1].payload)
                                             ELSE messages[1].values

\* No packet that is cut short is decoded, wherever it is cut, and none with
\* bytes behind its end, except by receive_ordered, which does not look.
WholeOnly ==
    CallOver /\ damage # "none" /\ Proper(job) /\ ClearTo(job)
    /\ (job.to = "receive_ordered" => damage = "cut")
    => messages = <<>>

\* A field whose length cannot be written, or reads as the dictionary mark,
\* never reaches a receiver that looks at the end of the packet as another
\* record, if no other field of its schema has a length.
OverlongRefused ==
    CallOver /\ damage = "none" /\ pc # "refused" /\ job.to # "receive_ordered"
    /\ Cardinality(DOMAIN SchemaOf(job).fields \ Fixed(SchemaOf(job))) = 1
    /\ ~Writable(ValuesIn(job)) /\ ClearTo(job)
    => messages = <<>>

StreamOver == job.via = "stream" /\ pc \in {"failed", "done"}

ReadableRecord(j, m, on) ==
    LET sch == registry.schemas[m.name]
        values == Ordered(sch, m.payload)
    IN  /\ RefsKnown(sch, values, TRUE)
        /\ Writable(values)
        /\ Clear(Encode(sch, values), PacketOf(j, m), on)

\* Records come out of the stream calls as they went in, if the batch can
\* count them and their lengths, and no id looks like another envelope.  A
\* batch of too many packets is refused as a whole.
EnvelopeKept ==
    StreamOver /\ damage = "none"
    /\ (\A i \in DOMAIN job.records : ReadableRecord(job, job.records[i], job.on))
    /\ (job.batched => \A i \in DOMAIN PacketsOf(job) : Len(PacketsOf(job)[i]) < Radix)
    /\ (job.batched \/ PacketsOf(job)[1][1] \notin StreamMarks)
    => IF job.batched /\ Len(job.records) >= Radix
       THEN pc = "failed" /\ messages = <<>>
       ELSE pc = "done" /\ messages = job.records

\* Of a packet in a CRC wrapper with a changed byte nothing is handed over,
\* as long as the changed byte is not the mark of the wrapper itself.
CorruptionRefused ==
    StreamOver /\ damage = "byte" => pc = "failed" /\ messages = <<>>
=============================================================================
