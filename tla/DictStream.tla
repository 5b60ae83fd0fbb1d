----------------------------- MODULE DictStream -----------------------------
(***************************************************************************)
(* Two runtimes that send each other records of one string each, encoded   *)
(* with their dictionaries.  A runtime has one dictionary: encoding a      *)
(* string looks it up and adds it, decoding a string sent in full adds it  *)
(* too, and decoding a reference looks its id up.  Nothing on the wire     *)
(* names the state a reference was taken in.                               *)
(*                                                                         *)
(* When the stream layer reuses a packet, batches it or replaces it by a   *)
(* delta is StreamLink's matter; here each may happen to any record.  A    *)
(* delta carries its strings in full, so to the dictionaries it is a text; *)
(* one that is refused is one that is lost.                                *)
(*                                                                         *)
(* wire[p] lists the packets p emitted, taken[p] counts those that have    *)
(* left the channel.  sent, delivered, rejected and lost (positions in     *)
(* wire) are history.                                                      *)
(***************************************************************************)
EXTENDS DictionaryOps

CONSTANTS
    Peers,       \* the runtimes
    Other(_),    \* where the packets of a peer go
    Senders,     \* those that send
    Streams,     \* the schemas both registered
    Setup(_),    \* the dictionary settings of a peer at the start
    Settable,    \* the settings that may replace them
    Events,      \* what may happen besides sending in full and receiving
    MaxRecords,  \* bound: records each peer sends
    MaxControls, \* bound: resets and configurations
    NoString, NoPacket

ASSUME DictStreamAssumption ==
    /\ \A p \in Peers : Other(p) \in Peers /\ Setup(p) \in Settings
    /\ \A p, q \in Peers : Other(p) = Other(q) => p = q
    /\ Senders \subseteq Peers
    /\ Settable \subseteq Settings
    /\ Events \subseteq {"lose", "delta", "reuse", "batch", "configure",
                         "resetBoth", "sendReset"}
    /\ MaxRecords \in Nat /\ MaxControls \in Nat
    /\ NoString \notin Strings

VARIABLES
    dict,        \* dictionary_ of each runtime
    lastString,  \* last_payload_by_schema_
    lastPacket,  \* last_packet_by_schema_
    batch,       \* batched_packets_
    wire, taken,
    controls,    \* resets and configurations so far
    sent, delivered, rejected, lost

stream  == <<lastString, lastPacket, batch>>
history == <<delivered, rejected, lost>>
vars == <<dict, stream, wire, taken, controls, sent, history>>

-----------------------------------------------------------------------------
(* Packets; n is the number of the record in sent *)

Texts      == [kind : {"text"}, value : Strings, n : Nat]
References == [kind : {"ref"}, id : Ids, n : Nat]
Batches    == [kind : {"batch"}, parts : Seq(Texts \cup References)]
Controls   == {[kind |-> "reset"]}

ASSUME PacketAssumption == NoPacket \notin Texts \cup References

Text(v, k) == [kind |-> "text", value |-> v, n |-> k]
Ref(id, k) == [kind |-> "ref", id |-> id, n |-> k]

TypeOK ==
    /\ dict \in [Peers -> Dictionaries]
    /\ lastString \in [Peers -> [Streams -> Strings \cup {NoString}]]
    /\ lastPacket \in [Peers -> [Streams -> Texts \cup References \cup {NoPacket}]]
    /\ batch \in [Peers -> Seq(Texts \cup References)]
    /\ wire \in [Peers -> Seq(Texts \cup References \cup Batches \cup Controls)]
    /\ taken \in [Peers -> Nat] /\ \A p \in Peers : taken[p] <= Len(wire[p])
    /\ controls \in 0 .. MaxControls
    /\ sent \in [Peers -> Seq([stream : Streams, value : Strings])]
    /\ delivered \in [Peers -> Seq([n : Nat, value : Strings])]
    /\ rejected \in [Peers -> SUBSET Nat]
    /\ lost \in [Peers -> SUBSET Nat]

Init ==
    /\ dict = [p \in Peers |-> Empty(Setup(p))]
    /\ lastString = [p \in Peers |-> [s \in Streams |-> NoString]]
    /\ lastPacket = [p \in Peers |-> [s \in Streams |-> NoPacket]]
    /\ batch = [p \in Peers |-> <<>>]
    /\ wire = [p \in Peers |-> <<>>]
    /\ taken = [p \in Peers |-> 0]
    /\ controls = 0
    /\ sent = [p \in Peers |-> <<>>]
    /\ delivered = [p \in Peers |-> <<>>]
    /\ rejected = [p \in Peers |-> {}]
    /\ lost = [p \in Peers |-> {}]

-----------------------------------------------------------------------------
(* encode_string and decode_string *)

Known(d, v) == d.set.enabled /\ v \in DOMAIN d.idOf

\* Mutated form, of Encode: the string is looked up after it was added.
EncodeAdded(d, v, k) ==
    LET e == IF d.set.enabled THEN CreateOrGet(d, v) ELSE d
    IN  [dict |-> e, packet |-> IF Known(e, v) THEN Ref(e.idOf[v], k) ELSE Text(v, k)]

Encode(d, v, k) ==
    IF Known(d, v)
    THEN [dict |-> d, packet |-> Ref(d.idOf[v], k)]
    ELSE [dict |-> IF d.set.enabled THEN CreateOrGet(d, v) ELSE d,
          packet |-> Text(v, k)]

\* Mutated form, of Learn: what is decoded is not added.
LearnNothing(d, v) == d

Learn(d, v) == IF d.set.enabled THEN CreateOrGet(d, v) ELSE d

Decodes(d, pkt) == pkt.kind = "ref" => pkt.id \in DOMAIN d.valueOf

Decoded(d, pkt) == IF pkt.kind = "ref" THEN d.valueOf[pkt.id] ELSE pkt.value

Decode(d, pkt) == IF pkt.kind = "ref" THEN d ELSE Learn(d, pkt.value)

-----------------------------------------------------------------------------
(* send_stream: every record is encoded first, whatever is then emitted *)

Emit(p, pkt) == wire' = [wire EXCEPT ![p] = Append(@, pkt)]

Base(p, v) == Encode(dict[p], v, Len(sent[p]) + 1)

Again(pkt, k) == [pkt EXCEPT !.n = k]

Remember(p, s, v, pkt) ==
    /\ p \in Senders
    /\ Len(sent[p]) < MaxRecords
    /\ sent' = [sent EXCEPT ![p] = Append(@, [stream |-> s, value |-> v])]
    /\ dict' = [dict EXCEPT ![p] = Base(p, v).dict]
    /\ lastString' = [lastString EXCEPT ![p][s] = v]
    /\ lastPacket' = [lastPacket EXCEPT ![p][s] = pkt]
    /\ UNCHANGED <<taken, controls, history>>

Repeats(p, s, v) == "reuse" \in Events /\ lastString[p][s] = v

SendFull(p, s, v) ==
    /\ ~Repeats(p, s, v)
    /\ Emit(p, Base(p, v).packet)
    /\ Remember(p, s, v, Base(p, v).packet)
    /\ UNCHANGED batch

\* The encoded packet is dropped; the delta in its place has the string.
SendDelta(p, s, v) ==
    /\ "delta" \in Events
    /\ Emit(p, Text(v, Len(sent[p]) + 1))
    /\ Remember(p, s, v, Text(v, Len(sent[p]) + 1))
    /\ UNCHANGED batch

\* The last packet of the stream goes out again; the one just encoded will
\* be the next to be reused.
SendReuse(p, s, v) ==
    /\ Repeats(p, s, v)
    /\ Emit(p, Again(lastPacket[p][s], Len(sent[p]) + 1))
    /\ Remember(p, s, v, Base(p, v).packet)
    /\ UNCHANGED batch

SendBatched(p, s, v) ==
    /\ "batch" \in Events
    /\ ~Repeats(p, s, v)
    /\ batch' = [batch EXCEPT ![p] = Append(@, Base(p, v).packet)]
    /\ Remember(p, s, v, Base(p, v).packet)
    /\ UNCHANGED wire

\* Mutated form, of Flush: the queue is not cleared once it is sent.
FlushKeepsQueue(p) ==
    /\ batch[p] # <<>>
    /\ Len(wire[p]) <= MaxRecords
    /\ Emit(p, [kind |-> "batch", parts |-> batch[p]])
    /\ UNCHANGED <<dict, stream, taken, controls, sent, history>>

\* A batch goes out when it is full, and at flush_stream.
Flush(p) ==
    /\ batch[p] # <<>>
    /\ Emit(p, [kind |-> "batch", parts |-> batch[p]])
    /\ batch' = [batch EXCEPT ![p] = <<>>]
    /\ UNCHANGED <<dict, lastString, lastPacket, taken, controls, sent, history>>

-----------------------------------------------------------------------------
(* receive_stream, at the other end of the channel of p *)

Arriving(p) == wire[p][taken[p] + 1]

Arrival(p) ==
    /\ taken[p] < Len(wire[p])
    /\ taken' = [taken EXCEPT ![p] = @ + 1]
    /\ UNCHANGED <<stream, wire, controls, sent>>

Single(p) == Arriving(p).kind \in {"text", "ref"}

Receive(p) ==
    /\ Arrival(p)
    /\ Single(p)
    /\ LET pkt == Arriving(p)
           d == dict[Other(p)]
       IN  /\ Decodes(d, pkt)
           /\ dict' = [dict EXCEPT ![Other(p)] = Decode(d, pkt)]
           /\ delivered' = [delivered EXCEPT ![p] =
                  Append(@, [n |-> pkt.n, value |-> Decoded(d, pkt)])]
    /\ UNCHANGED <<rejected, lost>>

Reject(p) ==
    /\ Arrival(p)
    /\ Single(p)
    /\ ~Decodes(dict[Other(p)], Arriving(p))
    /\ rejected' = [rejected EXCEPT ![p] = @ \cup {Arriving(p).n}]
    /\ UNCHANGED <<dict, delivered, lost>>

\* The parts of a batch are decoded in turn up to the first that fails.
DecodeNext(r, part) ==
    IF r.failed = {} /\ Decodes(r.dict, part)
    THEN [dict |-> Decode(r.dict, part),
          got |-> Append(r.got, [n |-> part.n, value |-> Decoded(r.dict, part)]),
          failed |-> {}]
    ELSE [dict |-> r.dict, got |-> r.got, failed |-> r.failed \cup {part.n}]

DecodeBatch(d, parts) ==
    LET after[i \in 0 .. Len(parts)] ==
            IF i = 0 THEN [dict |-> d, got |-> <<>>, failed |-> {}]
                     ELSE DecodeNext(after[i - 1], parts[i])
    IN  after[Len(parts)]

ReceiveBatch(p) ==
    /\ Arrival(p)
    /\ Arriving(p).kind = "batch"
    /\ LET r == DecodeBatch(dict[Other(p)], Arriving(p).parts)
       IN  /\ dict' = [dict EXCEPT ![Other(p)] = r.dict]
           /\ delivered' = [delivered EXCEPT ![p] = @ \o r.got]
           /\ rejected' = [rejected EXCEPT ![p] = @ \cup r.failed]
    /\ UNCHANGED lost

ReceiveReset(p) ==
    /\ Arrival(p)
    /\ Arriving(p).kind = "reset"
    /\ dict' = [dict EXCEPT ![Other(p)] = Reset(@)]
    /\ UNCHANGED history

Lose(p) ==
    /\ "lose" \in Events
    /\ Arrival(p)
    /\ lost' = [lost EXCEPT ![p] = @ \cup {taken[p] + 1}]
    /\ UNCHANGED <<dict, delivered, rejected>>

-----------------------------------------------------------------------------
(* Resets and configurations *)

Control(e) ==
    /\ e \in Events
    /\ controls < MaxControls
    /\ controls' = controls + 1
    /\ UNCHANGED <<stream, taken, sent, history>>

\* send_dictionary_reset makes the packet and nothing else.
SendReset(p) ==
    /\ Control("sendReset")
    /\ p \in Senders
    /\ Emit(p, [kind |-> "reset"])
    /\ UNCHANGED dict

\* Mutated form, of ResetBoth: the sender keeps its own dictionary.
ResetOther(p) ==
    /\ Control("resetBoth")
    /\ p \in Senders
    /\ Emit(p, [kind |-> "reset"])
    /\ UNCHANGED dict

\* reset_dictionary and then send_dictionary_reset.
ResetBoth(p) ==
    /\ Control("resetBoth")
    /\ p \in Senders
    /\ dict' = [dict EXCEPT ![p] = Reset(@)]
    /\ Emit(p, [kind |-> "reset"])

\* set_dictionary_config, or the decision of a profile or of the profiler.
SetDictionary(p, set) ==
    /\ Control("configure")
    /\ Enough(dict[p], set) # {}
    /\ dict' = [dict EXCEPT ![p] = Configure(@, set)]
    /\ UNCHANGED wire

-----------------------------------------------------------------------------
SendStream(p, s, v) ==
    SendFull(p, s, v) \/ SendDelta(p, s, v) \/ SendReuse(p, s, v) \/ SendBatched(p, s, v)

ReceiveStream(p) ==
    Receive(p) \/ Reject(p) \/ ReceiveBatch(p) \/ ReceiveReset(p)

Next ==
    \E p \in Peers :
        \/ \E s \in Streams, v \in Strings : SendStream(p, s, v)
        \/ Flush(p)
        \/ ReceiveStream(p)
        \/ Lose(p)
        \/ SendReset(p)
        \/ ResetBoth(p)
        \/ \E set \in Settable : SetDictionary(p, set)

Spec == Init /\ [][Next]_vars
-----------------------------------------------------------------------------
(* What should be true of it *)

\* A string comes out as it went in: every reference is resolved by a
\* dictionary in which its id means what it meant when it was written.
NeverMisread ==
    \A p \in Peers : \A i \in DOMAIN delivered[p] :
        LET got == delivered[p][i]
        IN  got.n \in DOMAIN sent[p] /\ sent[p][got.n].value = got.value

\* No reference is refused for an id that the receiver does not have.
NoneRefused == \A p \in Peers : rejected[p] = {}

\* Once a channel has drained, the dictionaries of its two ends are equal.
SameDictionary ==
    \A p \in Senders : taken[p] = Len(wire[p]) => dict[Other(p)] = dict[p]

\* Where record k of p is: handed over, refused, in the channel, in a queue.
Carries(pkt, k) ==
    \/ pkt.kind = "batch" /\ \E i \in DOMAIN pkt.parts : pkt.parts[i].n = k
    \/ pkt.kind \in {"text", "ref"} /\ pkt.n = k
Places(p, k) ==
      {<<"delivered", i>> : i \in {j \in DOMAIN delivered[p] : delivered[p][j].n = k}}
    \cup {<<"rejected", i>> : i \in rejected[p] \cap {k}}
    \cup {<<"wire", i>> : i \in {j \in (taken[p] + 1 .. Len(wire[p])) \cup lost[p] :
                                   Carries(wire[p][j], k)}}
    \cup {<<"batch", i>> : i \in {j \in DOMAIN batch[p] : batch[p][j].n = k}}

\* Whatever happens, a record is in one place: handed over once, refused,
\* lost or on its way, and never two of these.
Accounted ==
    \A p \in Peers : \A k \in DOMAIN sent[p] : Cardinality(Places(p, k)) = 1

\* Whatever a peer encodes, decodes, resets and configures, the references
\* its dictionary would write are those it would read back.
OwnRefsResolve ==
    \A p \in Peers : \A v \in DOMAIN dict[p].idOf :
        /\ dict[p].idOf[v] \in DOMAIN dict[p].valueOf
        /\ dict[p].valueOf[dict[p].idOf[v]] = v
=============================================================================
