# Keydrop: specifications and proofs

Keydrop is a C++17 library that encodes records of a known schema into small
binary packets and carries them over TCP, WebSocket or UDP. Two runtimes talk
to each other; what makes their packets small is *state that both must keep in
step*: the last record of each schema (delta packets), and a dictionary of
strings. This directory models that state, checks it with TLC and proves the
central results with TLAPS. Source paths below are relative to the repository
(`src/schema/stream_optimizer.cpp` is the file of that name in it); line numbers
of every definition are in `PROJECT.json`.

## 1. The system

| Component | State it keeps | Operations | Hard part |
|---|---|---|---|
| `StreamOptimizer`, sender half | per schema: last record, last packet, sample count, next delta number, records since the keyframe; a queue of packets waiting for a batch | `optimize_outgoing`, `flush_batched`, `configure`, `reset`, `reset_delta_state` | six ways out of one function, each of which must leave the delta number where the receiver will have it |
| `StreamOptimizer`, receiver half | per schema: last decoded record, expected delta number | `expand_incoming`, `expand_delta`, `record_decoded`, `record_decoded_delta` | lost, reordered and recovered packets; the only check on a delta's base is a 16-bit number |
| numeric deltas | none | `write_numeric_delta`, `read_numeric_delta` | tag boundaries, wrapping sums, sign extension |
| `AdaptiveDictionary` | string to id, id to string, insertion order, next 16-bit id | `create_or_get`, `lookup_*`, `update`, `evict`, `reset`, `configure` | two maps and a queue that must agree; eviction; ids that come round |
| `SchemaRuntime` | one dictionary, one optimizer, one profiler, registry, pools, configuration | `send`, `receive`, `send_stream`, `receive_stream`, `receive_recovered_stream`, `flush_stream`, resets and configuration | one dictionary serves both directions; nothing on the wire names its version |
| `SchemaRuntime`, one packet | none of its own | `send`, `send_ordered`, `fast_encode`; `receive`, `receive_as`, `receive_ordered`, `fast_decode`; `send_json`, `receive_json` | three ways to make a packet and four to take it, each with other checks |
| `RuntimeOptimizer` | none | `optimize_packet`, `deoptimize_packet` | a one-byte marker shares its place with field bytes |
| `CorruptionDetector`, `PacketSynchronizer` | none | structural check, CRC, rescan of a damaged stream | false positives while scanning |
| `AdaptiveProfiler` | statistics per schema, one pair of decisions | `observe`, `maybe_apply` | reconfigures the optimizer and the dictionary of one end only, between the encoding of a record and its emission |
| `SchemaRegistry`, `SchemaValidator` | schemas by name, names by id | `register_schema`, lookups | definitions that collide; two maps that must agree |
| `BufferPool`, `PayloadPool` | free lists, statistics | lease, release, configure | none in the library: leases end with the call that took them |
| `TcpAdapter` | two descriptors, state, counters | connect, listen, accept, send, receive, close, reconnect | partial writes, retry on a fresh connection, timeouts in the middle of a frame |
| `WebSocketAdapter` | descriptor, state, role | handshake, frames, close | fragmentation, control frames between data frames |
| `UdpAdapter` | descriptor, next outgoing and incoming number, counters | send, receive | loss and reordering, 32-bit number |
| `TransportScheduler` | queue | `enqueue`, `flush`, `clear` | what happens to packets that fail halfway |

A record travels `send_stream` → `send` (which also feeds the dictionary and
the profiler, and the profiler may reconfigure everything) →
`optimize_outgoing` → transport → `receive_stream` → `expand_*` → `receive`
→ `record_decoded*`. All calls into one runtime are sequential: the library
starts no thread and locks nothing. The concurrency is between two runtimes and
the channel between them: the sender runs ahead, packets are lost or overtake
each other, and either end may be reset, restarted or reconfigured while
packets are in flight.

Not a component of its own but important for every model: calls that fail. A
failed call returns an error and leaves behind whatever it had changed before;
the models keep those changes.

## 2. What is hard, and what must hold

* **Two ends, one state** (optimizer, dictionary). Each end moves its copy of
  the state on its own, driven by the packets. Correct means: what is decoded is
  what was sent (`NeverMisdecode`, `NeverMisread`), nothing is refused that was
  not lost (`NothingRejected`, `NoneRefused`), both copies agree whenever the
  channel is empty (`InSync`, `SameDictionary`), an outage ends with the next
  keyframe (`OutageBounded`), and no record is duplicated or swallowed
  (`Conserved`, `Accounted`).
* **Counters that come round**: delta numbers and dictionary ids have 16 bits,
  UDP numbers 32. `NeverMisdecode`, `TypeOK`, `StableIds`, `Consistent`,
  `LossObserved`.
* **One table in three containers**: `RefsResolve`, `Consistent`,
  `CreateSucceeds`, and the eviction loop of `configure` must end (`ConfigureEnds`).
* **Many walks over one layout** (encoder, optimizer, synchronizer, detector,
  two decoders): whichever call makes a packet, each call that takes it hands
  over the record (`RoundTrip`); nothing cut short or extended passes
  (`WholeOnly`), nor what its length field cannot say (`OverlongRefused`); a scan
  finds packets and steps over noise (`FoundApart`, `FoundDecodes`, `NoiseCostsNothing`).
* **Envelopes**: batches whose counts and lengths have a limit, four marks that
  share their place with message ids, a CRC (`EnvelopeKept`, `CorruptionRefused`).
* **Three hands on one configuration** (user, profiles, profiler), between any
  two records and in the middle of `send_stream`: both ends stay together
  (`NeverMisdecode`, `NothingRejected`, `InSync`), the user wins (`UserWins`), and
  what the profiler decided is what the runtime does (`DecisionInForce`).
* **Range checks**: `FieldRebuilt` for the numeric deltas, `JsonKept` for `send_json`.
* **Calls that stop half way** (TCP, WebSocket): a frame half written or half
  read, a retry on another connection, descriptors left open, both ends writing.
  `QueuedOrWritten`, `ReceivedInTurn`, `Faithful`, `LeaksAreFailures`,
  `CallsReturn`, `MessagesInTurn`, `Framed`, `WithinLimit`.

The full list of hazards, each at its line and with its properties, is
`"hazards"` in `PROJECT.json`.

## 3. The modules and the code

Names are those of the source where TLA+ allows it. Variables called `sent`,
`delivered`, `rejected`, `lost`, `got`, `heard`, `excess`, `written`, `cleared`,
`installed`, `untouched` are history:
no guard that models code reads them. An operator marked *Mutated form* is not
part of the model; it states a plausible bug, and each checked property is
violated when some mutated form takes the place of its original.

| Module | Models | State and actions |
|---|---|---|
| `DeltaCodec` | `build_delta_packet`, `expand_delta`, `field_changed`, `payload_equals` | No state. A record maps fields to values; a counter field is sent as a difference modulo `Modulus`, another field as it is. |
| `NumericDelta` | `write_numeric_delta`, `read_numeric_delta`, `sign_extend`, `fits_*` | No state. Widths are parameters: `Byte`, `Half`, `Word` stand for 2^8, 2^16, 2^32. |
| `StreamLink` | the stream calls of `SchemaRuntime` and `StreamOptimizer` | The sender's six containers, the receiver's two, the channel as a list and the number of packets taken from it. One action for each kind of packet `optimize_outgoing` ends with; `Flush`; one for each way in at the receiver, recovery included; `Configure`, `ApplySettings` and the two resets; loss and overtaking. |
| `RecordStream` | what a stream promises | Abstract: records handed in, records handed out, a subset of them, whole and in order. Implemented by `StreamLink` (`FaithfulStream`) and by each direction of `TcpLink`. |
| `StreamLinkInv` | | The setting of the delta mode and its inductive invariant, where a run can check it. |
| `DictionaryOps` | `AdaptiveDictionary`, each call as an operator on a record of two maps, a queue, the next id and the settings | `update`, `evict` and the inner `evict_oldest` are kept with all their effects on the three containers. |
| `AdaptiveDictionary` | a dictionary and its caller | One action per call, in any order; only the bound `MaxQueue` cuts `Create`. `left`, a history variable, counts the ids that may be given out after an `update` or `evict` before the counter comes round to those that were in the queue then. |
| `DictStream` | two runtimes, each with one dictionary for both directions, joined both ways | A record is one string. Full packets, deltas, reuse and batches; resets by packet and by call; settings changed at one end, as the profiler does. |
| `ProfiledLink` | `StreamLink` with the `AdaptiveProfiler`, profiles and the user's configuration calls | `send_stream` in two steps: `BeginSend` encodes, observes and may reconfigure, `EndSend` emits what `pending` holds under the settings it then finds. `send` alone, explicit settings, profiles and resets of the profiler in between. |
| `JsonField` | `json_value_to_field_value` and back | Operators; an integer, a decimal or a text against a field type, with the range check of each branch. |
| `FieldPaths` | `send_json`/`receive_json`, and a changed number through a delta | Two routes of a field: JSON object, packet, JSON object; number, delta, number. |
| `SchemaRegistry` | `SchemaRegistry`, `SchemaValidator::validate_schema` | The two maps as a record, registration and lookups as operators. |
| `PacketFormat` | encoder, `RuntimeOptimizer`, `CorruptionDetector`, `PacketSynchronizer`, the order of fields in `PacketLayout` | Operators. A byte has `Bits` bits and a 16-bit integer is one byte; so the optimizer's limit of 2040 fields is `MostFields`. |
| `PacketCalls` | `FieldMapper`, `validate_payload_values`, `FastCodec`, and the calls of `SchemaRuntime` for one packet | Operators; each call returns its result in a set that is empty when the call fails. |
| `StreamEnvelope` | batches, the CRC wrapper and the order in which `receive_stream` tells its marks apart | Operators; `crc32` is modelled bit by bit, over a register of `CrcBytes` bytes and any polynomial. |
| `PacketPaths` | two runtimes with the same registry | `RegisterSchema` in any order, then one job, of those that `IsCall`, `IsStream` and `IsRecovery` describe: `MakePacket`/`TakePacket` or `EmitStream`/`TakeStream`, with `Cut`, `Extend` and `Change` on the way. |
| `RecoveredStream` | `recover_all_packets`, `receive_recovered_stream`, on top of `PacketPaths` | The scanning loop and the decoding loop, one action per turn. |
| `TcpLink` | two `TcpAdapter`s with a `TransportScheduler` each | `clear` included. A call in progress is `call[e]`; `write_all` and `read_all` go on one unit at a time while the other end, the network and timeouts act. A connection is the list of all units an end wrote to it (`stream`) with the number of those that have left it (`read`). |
| `WebSocketLink` | two `WebSocketAdapter`s, or one and another implementation | Reading is piecewise: greeting, frame, payload. An end that is another implementation also fragments and pings. The bytes of a refused payload may be taken for any head in `Mistaken`. |
| `UdpLink` | `UdpAdapter`s around one listener | Datagrams in a set; loss, duplication and overtaking at will; statistics as in the code. |

`MC...` modules give the constants their values.
`DictionaryFacts` and the `...Proofs` modules hold lemmas and theorems.

Data is abstract wherever no property depends on it: strings, values and
records are model values or small integers, a frame is a number of units. A
datagram, a reset and a handshake keep all of their control. The bytes of a
packet matter only from `PacketFormat` up to `RecoveredStream`, which keep them, with
smaller bytes. `PacketCalls` takes the dictionaries of both ends as they are at that
moment, fixed maps from ids to lengths; how they get there is `DictStream`'s matter.
Both ends are taken to have registered the same schemas.

## 4. The runs

Every run checks all states its bounds allow. Deadlock checking is off where
the bounds make the model stop (all but `dictionary`).

| Run | Bounds | States | Shows |
|---|---|---|---|
| `lossless` | 2 schemas, 4 records of 2 fields, number modulo 2, windows of 1 or 2, one call of the user or profile | 2.2 million | Delta mode without loss, with the profiler at work: everything decoded as sent, nothing refused, ends in step; explicit settings stay and decisions are in force. |
| `delta_loss` | 1 schema, 5 records, number modulo 3, interval 3, deltas lost, one reset of either end | 181,000 | Still nothing wrong is decoded; at most two records in a row are refused; the stream implements `RecordStream`; the inductive invariant of the proofs. |
| `plain` | 2 schemas, 4 records, batches of 2 or 3, overtaking, recovery, one change | 889,000 | Plain mode neither alters, drops nor duplicates. |
| `lost_full` | 1 schema, 6 records, one full packet may be lost | 8,000 | **Violation**, see section 7. |
| `numeric` | every type and every pair of values of 2-, 4- and 6-bit integers; JSON objects with integers past every type, decimals, texts, missing and extra fields | 33,000 | The field the receiver rebuilds is the sender's; the object `receive_json` returns is the one given to `send_json`. |
| `dictionary` | 4 strings (symmetric), 4 ids, limits 0 to 3, a queue of at most 4 | 94,000 | All call sequences. Without `update` and `evict` everything agrees, however often the counter comes round; after them references resolve, ids keep their meaning and `configure` ends until the counter has come round to the ids in the queue (`left`). |
| `dict_oneway` | 5 records of 3 strings, 4 ids, limit 2, one reset | 54,000 | Both dictionaries move in step through evictions and a wrap of ids. |
| `dict_any` | both send 2 records, every event; the runtimes and the two strings are symmetric | 1.1 million | Each record is in one place. |
| `recovery` | 7 definitions, bytes of 3 bits, a CRC of 6; every sending call against every receiving one, batches of up to 9 in streams, 3 packets or pieces of noise | 109,000 | All walks agree; no damage passes; envelopes keep what they hold; noise between packets costs none. |
| `tcp` | 2 connections, buffers of 2 units, one break by the network, both ends queue and receive, the client clears its queue | 776,000 | Packets whole, in order, at most once; none lost between queue and socket; every call returns. |
| `websocket` | 2 connections, 3 units of buffer, one break, messages over the limit | 3.9 million | What is returned is whole and in turn; only an oversize frame puts a stream out of step. One message fits the limit at a time: the order of several is `MessagesAlwaysInTurn`. |
| `udp` | 5 datagrams, numbers modulo 5, 2 client ports, 1 duplicate, a bound the third packet exceeds at the server | 777,000 | Counters account for all missing datagrams until numbers repeat; only whole packets are returned. |

Why the bounds are enough to meet the interesting cases:

* a *counter that comes round* does so within the run: `SeqMod` is 2 or 3
  against 4 to 6 records, ids are 4 against limits of 2 or 3, UDP numbers 5
  against 5 datagrams and 2 connections;
* the *queue of a dictionary* can only outgrow the number of ids when it holds one
  twice, which is after the counter has come round to ids in use, where nothing is claimed;
* *keyframes* come within the run: intervals are 2 or 3;
* a *window* of the profiler ends after one or two of four records, for both
  schemas with the same record or not, so decisions flip and are repeated;
* a *count or length* of three bits is exceeded: batches of 7, 8 and 9 parts,
  strings of 6 to 9 bytes (7 is the dictionary's mark);
* the *bytes* include every mark, as a first byte, as a message id and inside
  fields, and bitmaps of one byte and of two;
* a *full buffer* holds less than a packet, so each frame is written and read in
  pieces, and both ends can be blocked at once;
* one *control event* (change or reset) suffices for the disagreements found so
  far, all of which need one event and one loss at most. Two would be better
  and are out of reach with two schemas; where the theorems of section 6 apply,
  the number of events does not matter.

No run takes more than about two minutes on two cores.

Type invariants are checked or proved where a counter's width is what could go
wrong (`StreamLink`) or a proof needs them; the property budget of the others goes to
the hazards.

## 5. Fairness

`TcpLink` assumes weak fairness of `Step(e)`, the next step of a call in
progress: the operating system goes on running the thread, and wakes it when
its timeout is over (`SO_RCVTIMEO`, `SO_SNDTIMEO`, set from the configuration).
`CallsReturn` is claimed only for ends whose timeouts are set; without them two
ends that both write wait for ever, as the sockets do. Nothing is assumed of the network,
of the other program or of the calls a program begins. All other specifications
are safety only: no call of the library waits for anything there, except the
WebSocket adapter's, whose state space leaves no room for a liveness check; its
`receive` may be kept busy by pings for ever.

## 6. What is proved

All for every value of the constants that satisfies the named assumption of the
module and the premises below.

| Theorem (module) | Premises | Says |
|---|---|---|
| `PatchRoundTrip` (`StreamLinkProofs`) | none | applying a patch to its base gives the record |
| `TypeCorrect` | none | `TypeOK`, under every event |
| `DeltaInvariant`, `DeltaNeverMisdecodes` | `DeltaSetting` | what is decoded was sent |
| `DeltaNothingRejected`, `DeltaInSync` | `DeltaSetting`, no lost delta, no reset of the receiver | nothing is refused; the ends agree on an empty channel |
| `StreamFaithful` | `DeltaSetting` | the stream implements `RecordStream`: records come out whole, in order and at most once |
| `OutagesAreBounded` | `FixedInterval`: `DeltaSetting`, no reuse, settings that stay | of as many records in a row as the keyframe interval counts at least one is accepted |
| `PlainNeverMisdecodes` | `PlainSetting`: no configuration has deltas | what is decoded was sent, under every event, overtaking and recovery included |
| `PlainConserves` | also `NothingDropped`: no packet lost, no reset of the sender | each record is in one place: handed over, on the way or waiting for a batch |
| `NumericRoundTrip` (`FormatProofs`) | none | `read_numeric_delta` undoes `write_numeric_delta`, for all widths, types and pairs |
| `PathsInvariant`, `FieldsRebuilt`, `JsonObjectsKept` | none | what is on the wire is what the sender made of its input; hence the number comes back, and so does the JSON object, for all schemas and objects |
| `PacketsAlways` | none | the registry stays consistent; what is on the wire, found and decoded is what the job makes of it |
| `AlwaysRoundTrip`, `AlwaysWholeOnly`, `AlwaysOverlongRefused` | none | each receiving call hands over the record of each sending call; no packet cut short or extended is decoded; no overlong field arrives as another record |
| `AlwaysEnvelopeKept`, `CorruptionAlwaysRefused` | none | records pass the stream calls unchanged, batched and wrapped or not; a changed byte in a CRC wrapper is refused, for every polynomial with its top bit |
| `AlwaysFoundApart`, `AlwaysFoundDecodes`, `AlwaysNoiseCostsNothing` | none | packets found in a stream lie where recovery says; one is refused only for a reference; noise without a message id costs no packet |
| `DictionaryType`, `DictionaryConsistent`, `DictionaryBounded`, `CreateNeverFull` (`DictionaryProofs`) | `Fitting`: limits below the number of ids | types; as long as neither `update` nor `evict` is called, both maps and the queue agree and stay in bounds, and nothing is refused |
| `ReferencesResolve`, `IdsStable`, `ConfigureTerminates` | `Fitting` | references resolve, ids keep their string, the eviction loop ends, whatever is called; after `update` or `evict` until the counter has come round to ids in the queue |
| `AlwaysAccounted` (`DictStreamProofs`) | none | each record is in one place: handed over, refused, lost, or on its way, batches, reuse, losses and resets included |
| `DictStreamTypes`, `OwnReferences` | `Narrow`: limits below the number of ids | types; each dictionary resolves what it would write, whatever is lost, batched or reset |
| `DictionaryLossless`, `ReferencesAccepted`, `DictionariesAgree` | `OneWay` | strings are read as sent, none is refused, dictionaries agree |
| `UserAlwaysWins`, `DecisionsTakeEffect` (`StreamLinkProofs`) | none | what the user configured stays; the last decision of the profiler is what the settings say |
| `ProfiledTypeCorrect` | none | `TypeOK` with the profiler, the user and the profiles installing settings |
| `SwitchNeverMisdecodes`, `SwitchNothingRejected`, `SwitchInSync` | `SwitchSetting`: no batches, no loss, no reset of the receiver, the user installs delta configurations only | the delta mode may go on and off between any two records: what is decoded was sent, nothing is refused, the ends agree on an empty channel |
| `SwitchFaithful` | the same | under the profiler, too, the stream implements `RecordStream` |
| `TcpInvariant`, `NoneSkipped` (`TcpLinkProofs`) | none | what was written and what still waits are the packets queued, once each and in order, but for those cleared |
| `LossOnlyAtTheEnd`, `TcpIsFaithful` | none | a connection loses packets only at its end; each direction implements `RecordStream`, across reconnections and retries |
| `LeaksAreBounded` | none | at most one descriptor is lost for each call that failed |
| `WebSocketInvariant`, `AlwaysFramed` (`WebSocketLinkProofs`) | none | a stream is a chain of whole frames; between two frames a reader stands at a head, unless it refused a frame at its length |
| `MessagesAlwaysInTurn` | none | `receive` returns the messages of a connection whole and in order until it refuses one for its size |
| `LimitAlwaysKept` | none | no message exceeds `max_message_bytes` |
| `LossAlwaysObserved`, `AlwaysWhole` (`UdpLinkProofs`) | none | the counter of losses covers all missing datagrams until numbers repeat; only whole packets are returned |

Where the premises are "none", the theorem holds for every event and every value of the constants
that the named assumption of the module allows; bounds among the constants can be
arbitrarily large.

**The delta mode.** `NeverMisdecode` is not inductive: a packet says nothing
about the record its patch was computed from. `DeltaInv` supplies it. Every
packet belongs to one record of the history and a delta is the patch from the
record of its schema before it (`PacketsMatch`); the sender stands right after
the last record (`SenderStands`); the receiver stands right after *some* record,
and since then only deltas of that schema have passed (`ReceiverStands`). If a delta
arrives with the expected number, it must be the very next one: nothing was
lost, or the numbers between have grown and cannot have come round
(`NumbersGrow`), because reuse is off and the interval is no longer than the numbers.
This is why `DeltaSetting` asks for both *when deltas may be lost*, and why it
excludes lost full packets: `lost_full` shows that the code needs the
exclusion. `ReceiverKnows` completes the argument for `NothingRejected`.

For the outage, `OutageInv` adds what the sender's counter means: it covers all records since
the last full packet (`Covered`), so that among as many records of a schema in a row as the
interval counts one was sent in full (`KeyframesOften`), and only deltas are ever refused
(`DeltasRefused`). Reuse has to be off, since a repeated record is sent before
the test for the keyframe; section 7 has the consequence.

**The plain mode.** Every packet tells the number of its record and that record's fields,
wherever it is: kept for reuse, in a batch or in the channel (`PlainInv`). For
`Conserved`, all places are taken as one set of cells, and each cell holds one
record; that no two cells hold the same record, and that none is missing, is kept by following where a
step moves each cell: a flushed batch moves all of its cells into one packet, a
packet that overtakes exchanges two.

**The profiler.** The three settings are proved together (`SettingsInv`), as each step that installs
one may take it from another: what the profiler installs is computed from what is in force,
which by `UserWins` differs from what the user installed by the profiler's own two switches only.
A repeated decision is not installed; it is in force all the same unless a profile or the
user has replaced the settings since, and `untouched` says that neither has.

**The delta mode, switched by the profiler.** The other theorems about `StreamLink` are about its own
`Next`; these are about `ProfiledLink`, where the mode may change between two records and, because
`send_stream` consults the profiler before it sends, between the two halves of one call. Every
step is one of four to the stream (`ProfiledSteps`): the settings change, the pending record goes out, the
user configures, or the stream moves by itself. `SwitchSafe` takes over from `DeltaInv`
where both ends stand, and adds what the plain mode leaves behind (`PlainStands`): numbers that
start over and, for reuse, the full packet of the last record. The profiler and the profiles
forget the previous record when they change the mode (`ForgetDeltas`), so that a full packet comes next. The
user's own call forgets nothing; going into delta mode by it is safe because of `PlainStands`: the first
delta is from a record that was sent in full and is numbered 0, which is what the receiver waits for.
`SwitchSetting` excludes the two cases in which the code has no such
safeguard, both in section 7: records queued in plain mode and sent after the
keyframe, and `set_stream_optimizer_config` from delta to plain mode, which forgets nothing. It is true of the
`lossless` run.

**TCP.** The units an end ever wrote to a connection are whole frames with
growing numbers, of which the last may be cut, and exactly the whole ones are `written`; the
packets received from it are the frames among the units read (`FramesInv`). A call in
progress stands at the end of what it has written or read of its frame, and between
calls a connected end stands at the end of a frame (`CallsStand`): a cut frame is therefore the
last thing on its connection. Connections not yet used are empty, and those in the backlog
are newer than those in use (`BacklogInOrder`, `NewAreUntouched`). A retry writes
again only what was cut before, because the queue is shortened when a frame is
whole and not sooner; so `QueuedOrWritten` is inductive. `LostAreFailures` charges each lost descriptor
to the failure that left it.

**WebSocket.** What lies between a writer and a reader is a chain of frames (`Chain`): a
function from the places of the stream at which a frame starts to what has been sent there
(`Marks`: messages done, bytes had of the current one, whether one is under way). Each frame leads from its
place to the one after its payload, and changes the mark as its head says. `Follows` says of
a receiver that it stands at such a place, or in the payload of the frame whose head
it has read; that its mark is the number of messages returned and the bytes collected; and, while
the peer may still write, that the chain ends where the peer stands. A frame cut by a failed
write ends the chain early, and nothing follows it. A receiver that begins a new connection
starts a new chain at the greeting, whatever `inbound_`, `fragmented_` and `message_` hold:
its mark there says that no message is under way, so `partial` is not consulted. `Base` has the types, the
phases of the calls, and that a greeting comes first and once. The chains
(`Watched`), `MessagesInTurn` and `Base` are inductive only together: that a message
is returned in turn follows from the chain, and the chain counts the messages
returned. They are kept step by step for both ends of a connection: the one that
acts and the one whose stream it changes. With a frame refused at its length the reader has lost
its place, and nothing more is claimed of it.

**UDP.** Until an adapter has used up its numbers, a datagram carries the number of its packet
(`NumbersTrue`). While a receiver hears one such adapter, the numbers missing between the first and
the last it heard are at most what it counted as lost, and that is at most those and
the ones counted as reordered (`CountersTrue`).

**The dictionary.** The invariant (`Always`) orders the entries by age: the queue holds
the ids given out last, oldest first, the i-th from the end being i behind `next`
(modulo the ids). So the next id is free as long as the limit is below the
number of ids, an eviction always removes a string that counts, and `configure`
comes to an end. `update` gives one string two ids and `evict` leaves gaps; what remains
then is that every reference resolves to an id in the queue (`Resolved`) and that the ids
in the queue are among the last `IdMod - left` given out (`Recent`). The next id is free
until `left` is used up, and a dictionary without a queue is empty, which ends the loop.

**Two runtimes.** `OneWayInv` says that there is a list of dictionaries, one for each
position on the wire, such that each packet leads from one to the next; the
sender stands at its end and the receiver where it has read to. Each packet is
decoded by the dictionary that it was encoded with.

**Fields.** `PathsInv` ties the packet on the wire to the input of the route;
with it `FieldRebuilt` is `NumericRoundTrip`, and `JsonKept` is that a value which
passes its range check is its own residue in the width of its field, with the sign put
back.

**Packets.** Walks over fields, bitmaps, CRC registers, envelopes and the decoding of a batch
are recursive *functions* in the model (`after[i]`), so that they can be reasoned about: such a
function is a `CHOOSE` of one that satisfies its equation, and `Recursion` shows that
one exists, by taking the least place at which a step would fail. What follows is stated without
recursion. A walk over a packet comes to its end just when there are `Cuts`, a function that says
where each field ends; there is at most one (`CutsOnce`), and another one over a packet cut short or with
bytes behind it would contradict it. The encoder lays its fields out along such cuts
(`Layout`), so every walk over what it wrote reads back what was written, with the zero fields
left out or not; that is what the optimizer, the detector, the synchronizer and
all decoders have in common, and `PacketRead` collects it. `PacketsInv` says of
each state that the wire holds what the job makes, that damage is one of the three kinds, and,
of recovery, where in the stream each packet lies, that it is the first in what was left, and
that those before the next one are decoded. The properties follow from it: for
`RoundTrip` and `EnvelopeKept` by `PacketRead`; for `WholeOnly` and `OverlongRefused` since
cuts that end elsewhere cannot exist.

A CRC step loses nothing: two registers that differ still differ after a shift, because
the highest bit tells whether the polynomial was added (`ShiftApart`; `EnvelopeAssumption` asks for that bit
of 0xEDB88320). So one changed byte changes the register to the end.

For noise, the pieces of the stream are walked in parallel with the packets found. Behind
the first *k* packets found are the first *k* sent and nothing else but noise (`Matched`):
in noise without a message id no offset is a candidate (`NotBefore`), and where the next packet starts the
synchronizer measures exactly that packet (`FoundPacket`), so it is the next one found.

**A place for every record.** `Accounted` of the dictionaries needs no premise. For each channel `Ledger` says
that of every record number exactly one of four sets has exactly one element, the others being empty: positions in
`delivered`, the number itself in `rejected`, packets on the way or lost that carry it, positions in the batch
queue; and that numbers not given out yet are in none. Each kind of step moves an element from one
set to another (`LedgerSends`, `LedgerFlushes`, `LedgerTakes` and so on), a batch all of its elements at
once. What a receiver does with a batch is `Settles`: each record in it is handed over, or
rejected from the first refused one on.

Proofs of liveness are out of the prover's reach. Only model-checked is therefore `CallsReturn`
of TCP. Where the two dictionaries drift apart, and where one goes on after its ids have
come round to those that an edit kept in use (section 7), there is nothing to prove.

## 7. Where the code and its documentation disagree

`lost_full` is kept as a run. `README.md:148` says that loss "is detected
and rejected, never silently misdecoded". Both ends restart the number at 0 with
each full packet; when one is lost, the delta after it is numbered 0, the number
the receiver may well be waiting for, and is applied to the record before.

The others were found while modelling and show up when the run named here is
changed as described.

| Where | To see it | What |
|---|---|---|
| `src/schema/stream_optimizer.cpp:390` | `delta_loss`, with reuse | Repeated records are sent before the keyframe test at line 414, so a constant stream emits no keyframe and a receiver that lost one packet refuses all that follow. `stream_optimizer.hpp:23`: "full packet every N records". |
| `stream_optimizer.cpp:404` | the same, `NeverMisdecode` | In such a stream the number also comes round: one lost delta and a round of repetitions later, a delta is accepted on the wrong base. |
| `schema_runtime.cpp:1186` | `delta_loss` with `recover` | Packets decoded by recovery do not become the base of later deltas. |
| `schema_runtime.cpp:1274` | `lossless` with a plain configuration that batches, five records, `NeverMisdecode` alone | Records queued in plain mode and flushed after the keyframe become the base of the delta numbered 0. No call of the user is needed: the profiler switches the delta mode on. |
| `stream_optimizer.cpp:411` | `lossless` with `UserConfigs <- AdaptiveConfigs`, `NothingRejected` | After `set_stream_optimizer_config` from delta to plain mode, the packet kept for reuse may be a delta, which the receiver refuses. |
| `adaptive_dictionary.cpp:84`, `42` | `dictionary`, `CreateSucceeds` without its condition | After `update` to a string another id stands for, `create_or_get` can answer full. |
| `adaptive_dictionary.cpp:47` | `dictionary`, `RefsResolve` or `StableIds` without `ComeRound` | Repeated `evict` (or `update`) keeps an id in use while `next_id_` comes round to it. `create_or_get` then overwrites `value_by_id_` for that id; the earlier string still has it in `id_by_value_` and is written as a reference to the other. |
| `adaptive_dictionary.cpp:18` | `dictionary`, `ConfigureEnds` without `ComeRound` | From there, `evict` of such ids leaves strings in `id_by_value_` that no id stands for: `configure` empties `insertion_order_` and loops for ever. |
| `schema_runtime.cpp:72` | `dict_oneway` with `lose` | After a lost packet that taught a string, references mean other strings, and no keyframe restores the dictionary. |
| `schema_runtime.cpp:160` | `dict_oneway`, both sending | One dictionary serves both directions: no loss is needed for two senders to number differently. |
| `stream_optimizer.cpp:411`, `447` | `dict_oneway` with `reuse` or `batch`, two streams | A kept or queued packet is read after its references have changed their meaning. |
| `schema_runtime.cpp:1199` | `dict_oneway` with `sendReset` | The reset packet alone leaves the sender using ids the peer has forgotten. |
| `adaptive_profiler.cpp:160` | `dict_oneway` with `configure` and settings to install | The decision to enable the dictionary is applied at one end only. |

Read in the code, modelled as they are, and excepted by name where a property would
otherwise fail:

* `runtime_optimizer.cpp:247`: a packet whose first field starts with 0xFD is taken for
  one without its zero fields (`Mistaken`); `fast_decode` does so with the optimizer off, too.
* `schema_runtime.cpp:165`: a string of 65535 bytes writes the dictionary's mark as its
  length. Longer fields write the rest modulo 65536; a receiver that looks at the
  end of the packet refuses them (`OverlongRefused`), `receive_ordered` does not look.
* `schema_runtime.cpp:1087`: a schema whose id has a mark as its low byte works in batches and
  nowhere else on a stream.
* `stream_optimizer.cpp:736`: the 256th part of a batch makes its count 0, and the receiver refuses
  all of them; parts of 65536 bytes cut the batch elsewhere.
* `schema_runtime.cpp:1061`: the mark of the CRC wrapper is not covered by the CRC; when it changes, the
  wrapper is dispatched as something else.
* `adaptive_profiler.cpp:136`: a decision equal to the last is not applied again, also when a profile
  has replaced the settings in between; `DecisionInForce` claims nothing then.

* `websocket_adapter.cpp:285`: a frame over `max_message_bytes` is refused with its
  payload unread, so that the payload is read as the next frame head
  (`excess = "frame"`; the comment at line 523 claims that framing survives).
  Line 568: a refused continuation keeps what was collected; a later fragment
  completes a message with a hole. Line 425: `connect` on a connected adapter
  clears `handshake_done_`. A failed handshake of an accepted connection closes the
  listener too. `handshake_timeout_ms` is never read.
* `udp_adapter.cpp:355`: a late datagram counts as lost *and* reordered; after the
  number comes round losses go unseen; numbers and the peer outlive `close`;
  `connect` leaves an old socket open.
* `tcp_adapter.cpp:305`: `connect` overwrites the descriptor of a failed connection
  (`LeaksAreFailures` bounds the leak). `write_all` (line 105) sends without `MSG_NOSIGNAL`, so that
  a write to a closed connection may end the program by a signal; the model lets the call fail.

## 8. What is not modelled

* *Containers and tables*: byte buffers, little-endian helpers, tables of names, option and
  configuration parsing (the text of a JSON object included), fingerprints,
  socket wrappers. They keep no state that later calls depend on.
* *Pools*: inside the library a lease ends with the call that took it, calls do not
  overlap, and what comes out of a pool is cleared; no property of a record can tell a
  pooled buffer from a new one.
* *`CorruptionDetector::check_packet`*: an envelope of its own that only its test uses.
* *Offsets in layouts*, which shorten lookups and change no result;
  `validate_payload_field_types`, which nothing calls.
* *The fast codec's dictionary*: it resolves references, as in `PacketCalls`, and teaches
  nothing; `DictStream` does not have it as an event.
* *JSON integers beyond 53 bits in a field of floats*, and the f32 rounding of the profiler's
  ratios.
* *Keys and headers of the WebSocket handshake*: a greeting is accepted or not.
* *Benchmarks and tools*.

## 9. Order of work

Done, in this order, the most important first: `DeltaCodec`, `StreamLink` and
its proofs; `NumericDelta`; `DictionaryOps`, `AdaptiveDictionary` and proofs;
`DictStream` and proofs; `PacketFormat` with `RecoveredStream`; `TcpLink` and
proofs; `WebSocketLink` and proofs; `UdpLink` and proofs; `ProfiledLink` and proofs; `JsonField` with `FieldPaths` and proofs;
`SchemaRegistry`, `PacketCalls`, `StreamEnvelope` and `PacketPaths`, on which
`RecoveredStream` now stands.

`FormatProofs` closes the list: since it, every invariant and action property that a run checks and that holds is a
theorem, for every value of the constants.

What would come next:

1. A property for healing: a reset of both dictionaries makes every later
   reference that no loss precedes right, whatever was lost before.
2. WebSocket: liveness on a smaller instance, and a run for the refused frame.
3. The profiler's decision about the dictionary, which `ProfiledLink` takes and
   `DictStream` only sees as a configuration, in one model.
