--------------------------- MODULE StreamLinkInv ---------------------------
(***************************************************************************)
(* The inductive invariant behind NeverMisdecode, and the setting in which *)
(* it holds: delta mode throughout, a channel that delivers every full     *)
(* packet in order, and, if deltas can be lost, numbers that cannot come   *)
(* round between two keyframes.                                            *)
(***************************************************************************)
EXTENDS StreamLink

Lossy == "loseDelta" \in Events

\* Without packet reuse a keyframe comes at least every c.keyframe records,
\* so a number below c.keyframe names one delta between two full packets.
DeltaSetting ==
    /\ \A c \in Configs : c.enabled /\ c.delta
    /\ Events \cap {"loseFull", "overtake", "recover"} = {}
    /\ Lossy => \A c \in Configs : ~c.reuse /\ c.keyframe <= SeqMod

\* The number that follows packet k of the packets w.
After(w, k) == IF w[k].kind = "full" THEN 0 ELSE NextSeq(w[k].seq)

\* Record m is the last one of schema s among the first h of the records r.
Latest(r, s, h, m) ==
    /\ m \in 1 .. h
    /\ r[m].schema = s
    /\ \A k \in m + 1 .. h : r[k].schema # s

\* In delta mode every record is one packet, and a delta is computed from
\* the record before it.
PacketsMatch ==
    /\ batch = <<>>
    /\ Len(wire) = Len(sent)
    /\ \A k \in 1 .. Len(wire) :
          /\ wire[k].n = k
          /\ wire[k].schema = sent[k].schema
          /\ \/ /\ wire[k].kind = "full"
                /\ wire[k].payload = sent[k].payload
             \/ /\ wire[k].kind = "delta"
                /\ \E m \in 1 .. k - 1 :
                      /\ Latest(sent, sent[k].schema, k - 1, m)
                      /\ wire[k].seq = After(wire, m)
                      /\ wire[k].patch = Patch(sent[m].payload, sent[k].payload)

\* The sender stands right after the latest record of each schema.
SenderStands ==
    \A s \in Schemas : HasPrevious(s) =>
        \E m \in 1 .. Len(sent) :
            /\ Latest(sent, s, Len(sent), m)
            /\ lastPayload[s] = sent[m].payload
            /\ seq[s] = After(wire, m)

\* The receiver stands right after a record it decoded, and has passed only
\* deltas of that schema since; none at all if the channel loses nothing.
ReceiverStands ==
    \A s \in Schemas : lastDecoded[s] # NoPayload =>
        \E m \in 1 .. taken :
            /\ sent[m].schema = s
            /\ lastDecoded[s] = sent[m].payload
            /\ expected[s] = After(wire, m)
            /\ \A k \in m + 1 .. taken : sent[k].schema = s =>
                    wire[k].kind = "delta" /\ Lossy

\* Between two full packets of a schema the numbers only grow.
NumbersGrow ==
    Lossy =>
      /\ \A s \in Schemas : HasPrevious(s) => seq[s] + 1 <= records[s]
      /\ \A k \in 1 .. Len(wire) :
            wire[k].kind = "delta" => wire[k].seq + 1 < SeqMod
      /\ \A m, k \in 1 .. Len(wire) :
            /\ m < k
            /\ wire[m].schema = wire[k].schema
            /\ \A j \in m + 1 .. k :
                  wire[j].schema = wire[k].schema => wire[j].kind = "delta"
            => After(wire, m) <= wire[k].seq

\* Until the receiver is reset it has a base for every schema it has seen.
ReceiverKnows ==
    ~Lossy /\ "resetReceiver" \notin Events =>
        \A k \in 1 .. taken : lastDecoded[sent[k].schema] # NoPayload

\* The invariant of the delta mode: both ends stand at records of the
\* history, and the packets between them are the steps from one to the other.
DeltaInv ==
    DeltaSetting =>
      /\ PacketsMatch
      /\ SenderStands
      /\ ReceiverStands
      /\ NumbersGrow
      /\ ReceiverKnows
=============================================================================
