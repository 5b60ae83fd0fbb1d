--------------------------- MODULE RecoveredStream ---------------------------
(***************************************************************************)
(* PacketPaths, and the third way: packets with noise before, between and  *)
(* after them, and receive_recovered_stream at the other end.  First       *)
(* recover_all_packets cuts the stream up, then the packets found are      *)
(* decoded one by one, up to max_recovered_packets, until one is refused.  *)
(***************************************************************************)
EXTENDS PacketPaths

CONSTANTS Limit   \* max_recovered_packets

ASSUME LimitAssumption == Limit \in Nat

VARIABLES
    consumed,  \* how much of the stream is behind the rest of it, in wire
    found,     \* what recover_all_packets returns
    skipped    \* out_skipped_bytes

recovery == <<consumed, found, skipped>>
vars == <<paths, recovery>>

Stream ==
    FlattenSeq([i \in DOMAIN job.pieces |->
        IF IsPacket(job.pieces[i]) THEN PacketOf(job, job.pieces[i]) ELSE job.pieces[i].noise])

Init ==
    /\ PathsInit
    /\ consumed = 0
    /\ found = <<>>
    /\ skipped = 0

Arrives ==
    /\ pc = "emit" /\ job.via = "recovery"
    /\ wire' = Stream
    /\ pc' = "scan"
    /\ UNCHANGED <<registry, offered, job, damage, messages, recovery>>

-----------------------------------------------------------------------------
\* Mutated form, of Passed: the bytes skipped are forgotten.
PassedPacket(o, p) == Len(p)

\* How much of the stream is behind a packet found at offset o of the rest.
Passed(o, p) == o + Len(p)

RecoverNext ==
    /\ pc = "scan"
    /\ Offsets(registry, wire) # {}
    /\ LET o == Min(Offsets(registry, wire))
           p == CHOOSE p \in PacketsAt(registry, wire, o) : TRUE
       IN  /\ found' = Append(found, [offset |-> o + consumed, skipped |-> o, packet |-> p])
           /\ consumed' = consumed + Passed(o, p)
           /\ wire' = From(wire, o + Len(p))
    /\ UNCHANGED <<registry, offered, job, damage, messages, skipped, pc>>

ScanEnds ==
    /\ pc = "scan"
    /\ Offsets(registry, wire) = {}
    /\ pc' = IF found = <<>> THEN "failed" ELSE "decode"
    /\ UNCHANGED <<registry, offered, job, wire, damage, messages, recovery>>

Upcoming == found[Len(messages) + 1]

DecodeNext ==
    /\ pc = "decode"
    /\ Len(messages) < Len(found) /\ Len(messages) < Limit
    /\ LET got == Receive(registry, Upcoming.packet, job.on)
       IN  /\ messages' = messages \o SetToSeq(got)
           /\ pc' = IF got = {} THEN "failed" ELSE "decode"
    /\ skipped' = skipped + Upcoming.skipped
    /\ UNCHANGED <<registry, offered, job, wire, damage, consumed, found>>

DecodeEnds ==
    /\ pc = "decode"
    /\ Len(messages) = Len(found) \/ Len(messages) = Limit
    /\ pc' = "done"
    /\ UNCHANGED <<registry, offered, job, wire, damage, messages, recovery>>

Next ==
    \/ PathsNext /\ UNCHANGED recovery
    \/ Arrives \/ RecoverNext \/ ScanEnds \/ DecodeNext \/ DecodeEnds

Spec == Init /\ [][Next]_vars
-----------------------------------------------------------------------------
(* What should be true of it *)

Recovered == job.via = "recovery" /\ pc \in {"done", "failed"}

Sent ==
    FlattenSeq([i \in DOMAIN job.pieces |->
        IF IsPacket(job.pieces[i]) THEN <<job.pieces[i]>> ELSE <<>>])

\* The packets found lie in the stream where the results say, apart and in
\* order, and all that lies between them is accounted for as skipped.
FoundApart ==
    \A i \in DOMAIN found :
        LET f == found[i]
            before == IF i = 1 THEN 0 ELSE found[i-1].offset + Len(found[i-1].packet)
        IN  /\ f.offset = before + f.skipped
            /\ f.packet = SubSeq(Stream, f.offset + 1, f.offset + Len(f.packet))

Quiet(piece) ==
    IsPacket(piece) \/ \A i \in DOMAIN piece.noise : ById(registry, piece.noise[i]) = {}

\* Noise in which no message id occurs costs no packet: every record comes
\* out, once and in order, up to the limit and to the first packet that the
\* receiver cannot decode.
NoiseCostsNothing ==
    Recovered /\ Sent # <<>> /\ (\A i \in DOMAIN job.pieces : Quiet(job.pieces[i]))
    /\ (\A i \in DOMAIN Sent : \A on \in {job.on, TRUE} : ReadableRecord(job, Sent[i], on))
    => pc = "done" /\ messages = SubSeq(Sent, 1, Min({Len(Sent), Limit}))

\* What the synchronizer takes for a packet the decoder takes too, unless
\* its dictionary lacks an id or has a string that is too long: noise cannot
\* make the whole call fail.
FoundDecodes ==
    Recovered /\ pc = "failed" /\ found # <<>> /\ job.on =>
        \E sch \in OfPacket(registry, Upcoming.packet) :
            \E plain \in Restored(sch, Upcoming.packet, TRUE) :
                LET w == Walk(sch, plain, 1, TRUE, {})
                IN  Complete(w, plain) /\ ~RefsKnown(sch, ValuesOf(sch, w), TRUE)
=============================================================================
