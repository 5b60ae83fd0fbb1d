---------------------------- MODULE WebSocketLink ----------------------------
(***************************************************************************)
(* Two WebSocketAdapters over a TCP connection.  An end may also be        *)
(* another implementation, which splits its messages into several frames   *)
(* and sends pings, as RFC 6455 lets it; the adapter itself does neither,  *)
(* but must understand both.                                               *)
(*                                                                         *)
(* A call of connect, accept_connection or receive reads piece by piece,   *)
(* and anything may happen meanwhile; send_frame is one step, but may fail *)
(* with a frame half written.  Clients mask and servers do not, so that    *)
(* receive never sees a frame it would refuse for its mask.                *)
(***************************************************************************)
EXTENDS Integers, FiniteSets, Sequences, Functions

CONSTANTS
    Client, Server,
    Foreign,        \* the ends that are another implementation
    Size(_),        \* the bytes of message n
    Mistaken,       \* the heads that bytes of a payload may be taken for
    MaxMessage,     \* max_message_bytes
    Capacity,       \* what the socket buffers of a direction hold
    MaxSends(_),    \* bound: messages and pings of an end
    MaxConnections, \* bound: connections
    MaxBreaks       \* bound: connections the network breaks

Ends == {Client, Server}
Other(e) == IF e = Client THEN Server ELSE Client

\* The head of a frame.
Heads == [op : {"data", "more", "ping", "pong", "close", "other"}, fin : BOOLEAN, size : Nat]

ASSUME WebSocketAssumption ==
    /\ Client # Server
    /\ Foreign \subseteq Ends
    /\ {MaxMessage, Capacity, MaxConnections, MaxBreaks} \subseteq Nat
    /\ \A e \in Ends : MaxSends(e) \in Nat
    /\ \A e \in Ends : \A n \in 1 .. MaxSends(e) : Size(n) \in Nat
    /\ Mistaken \subseteq Heads

VARIABLES
    state,     \* state() of each adapter
    link,      \* its connection, or 0
    session,   \* handshake_done_
    inbound,   \* inbound_: what was read beyond the handshake
    partial,   \* fragmented_ and message_
    call,      \* the call in progress
    listening, waiting,       \* the server's listener and whom it queues, or 0
    made, open, broken, pipe, \* the connections
    rest,      \* what a foreign end has still to send of its message
    begun,     \* the messages an end began to send, on each connection
    got,       \* the messages receive returned, with their connections
    excess,    \* what an end refused for its size: "none", "message" or "frame"
    pings, breaks

sockets == <<listening, waiting, made, open, broken>>
tcp == <<state, link, sockets>>
reader == <<inbound, partial, got, excess>>
writer == <<rest, begun, pings>>
vars == <<tcp, session, reader, call, pipe, writer, breaks>>

Connections == 1 .. MaxConnections

\* The pieces of a stream: a request or response, the head of a frame, one
\* byte of a message.
Greeting == [op |-> "greeting"]
FrameHead(op, fin, size) == [op |-> op, fin |-> fin, size |-> size]
Byte(n, i) == [op |-> "byte", n |-> n, i |-> i]
Message(n) == [i \in 1 .. Size(n) |-> Byte(n, i)]
Frame(op, fin, bytes) == <<FrameHead(op, fin, Len(bytes))>> \o bytes

PingFrame == Frame("ping", TRUE, <<>>)

Idle == [op |-> "none"]
Handshake == [op |-> "handshake"]
NextFrame == [op |-> "receive"]
Payload(h) == [op |-> "payload", head |-> h]
Responding == [op |-> "respond"]
Answering(op, b) == [op |-> op, bytes |-> b]
NoMessage == [on |-> FALSE, bytes |-> <<>>]

Init ==
    /\ state = [e \in Ends |-> "disconnected"]
    /\ link = [e \in Ends |-> 0]
    /\ session = [e \in Ends |-> FALSE]
    /\ inbound = [e \in Ends |-> <<>>]
    /\ partial = [e \in Ends |-> NoMessage]
    /\ call = [e \in Ends |-> Idle]
    /\ listening = FALSE /\ waiting = 0
    /\ made = 0 /\ open = [e \in Ends |-> {}] /\ broken = {}
    /\ pipe = [c \in Connections |-> [e \in Ends |-> <<>>]]
    /\ rest = [e \in Ends |-> NoMessage]
    /\ begun = [c \in Connections |-> [e \in Ends |-> <<>>]]
    /\ got = [e \in Ends |-> <<>>]
    /\ excess = [e \in Ends |-> "none"]
    /\ pings = [e \in Ends |-> 0] /\ breaks = 0

-----------------------------------------------------------------------------
(* connect, listen, accept_connection *)

CanConnect == listening /\ waiting = 0 /\ made < MaxConnections

\* The request is written as soon as TCP is connected.
Connected ==
    /\ CanConnect
    /\ made' = made + 1 /\ waiting' = made + 1
    /\ open' = [e \in Ends |-> open[e] \cup {made + 1}]
    /\ link' = [link EXCEPT ![Client] = made + 1]
    /\ state' = [state EXCEPT ![Client] = "connected"]
    /\ pipe' = [pipe EXCEPT ![made + 1][Client] = <<Greeting>>]
    /\ call' = [call EXCEPT ![Client] = Handshake]
    /\ excess' = [excess EXCEPT ![Client] = "none"]
    /\ rest' = [rest EXCEPT ![Client] = NoMessage]
    /\ UNCHANGED <<listening, broken>>

\* Refused, or too late: then the server may be left with a connection to
\* nobody.
NotConnected ==
    /\ state' = [state EXCEPT ![Client] = "failed"]
    /\ \/ ~CanConnect /\ UNCHANGED <<made, waiting, open>>
       \/ /\ CanConnect
          /\ made' = made + 1 /\ waiting' = made + 1
          /\ open' = [open EXCEPT ![Server] = @ \cup {made + 1}]
    /\ UNCHANGED <<link, listening, broken, pipe, call, excess, rest>>

\* handshake_done_ is cleared before anything else, also if the adapter turns
\* out to be connected already.
Connect ==
    /\ call[Client] = Idle
    /\ session' = [session EXCEPT ![Client] = FALSE]
    /\ \/ /\ state[Client] = "connected"
          /\ UNCHANGED <<tcp, pipe, call, excess, rest>>
       \/ state[Client] # "connected" /\ (Connected \/ NotConnected)
    /\ UNCHANGED <<inbound, partial, got, begun, pings, breaks>>

\* The address cannot be bound while the last listening socket is open.
Listen ==
    /\ call[Server] = Idle
    /\ session' = [session EXCEPT ![Server] = FALSE]
    /\ \/ state[Server] \in {"connected", "listening"} /\ UNCHANGED <<state, link, listening>>
       \/ /\ state[Server] \notin {"connected", "listening"}
          /\ listening' = TRUE
          /\ state' = [state EXCEPT ![Server] = IF listening THEN "failed" ELSE "listening"]
          /\ link' = IF listening THEN link ELSE [link EXCEPT ![Server] = 0]
    /\ UNCHANGED <<waiting, made, open, broken, reader, call, pipe, writer, breaks>>

Accept ==
    /\ call[Server] = Idle
    /\ state[Server] = "listening"
    /\ waiting # 0
    /\ link' = [link EXCEPT ![Server] = waiting]
    /\ waiting' = 0
    /\ state' = [state EXCEPT ![Server] = "connected"]
    /\ call' = [call EXCEPT ![Server] = Handshake]
    /\ excess' = [excess EXCEPT ![Server] = "none"]
    /\ rest' = [rest EXCEPT ![Server] = NoMessage]
    /\ UNCHANGED <<listening, made, open, broken, session, inbound, partial, got,
                   pipe, begun, pings, breaks>>

-----------------------------------------------------------------------------
(* Closing, writing a frame, reading *)

Closed(e) == state' = [state EXCEPT ![e] = "disconnected"]

\* tcp_.close(): whatever this end has not read resets the connection, and so
\* does a connection nobody accepted.
Hangup(e) ==
    LET queued == IF e = Server THEN {waiting} \ {0} ELSE {}
        gone == ({link[e]} \ {0}) \cup queued
    IN  /\ open' = [open EXCEPT ![e] = @ \ gone]
        /\ broken' = broken \cup queued \cup {c \in gone : pipe[c][Other(e)] # <<>>}
        /\ waiting' = IF e = Server THEN 0 ELSE waiting
        /\ listening' = (listening /\ e # Server)
        /\ link' = [link EXCEPT ![e] = 0]
        /\ Closed(e)
        /\ UNCHANGED made

Return(e) == call' = [call EXCEPT ![e] = Idle]
Continue(e) == call' = [call EXCEPT ![e] = NextFrame]

Room(e) == Capacity - Len(pipe[link[e]][e])
Wrote(e, pieces) == [pipe EXCEPT ![link[e]][e] = @ \o pieces]

CanWrite(e, frame) ==
    state[e] = "connected" /\ link[e] \notin broken /\ Len(frame) <= Room(e)

\* What is left in the stream when writing the frame failed: the connection is
\* reset or closed at the other end, or the timeout is over.
Torn(e, frame) ==
    {SubSeq(frame, 1, k) : k \in
        IF \/ state[e] # "connected"
           \/ CanWrite(e, frame) /\ link[e] \in open[Other(e)]
        THEN {}
        ELSE {k \in 0 .. Len(frame) - 1 : k <= Room(e)}}

Established(e) == session[e] /\ state[e] = "connected"

\* What this end can still read.
Stream(e) == IF state[e] = "connected" THEN inbound[e] \o pipe[link[e]][Other(e)] ELSE inbound[e]

\* read_exact takes first what the handshake left over.
Consume(e, k) ==
    LET kept == IF k < Len(inbound[e]) THEN k ELSE Len(inbound[e])
    IN  /\ inbound' = [inbound EXCEPT ![e] = SubSeq(@, kept + 1, Len(@))]
        /\ pipe' = IF k = kept THEN pipe
                   ELSE [pipe EXCEPT ![link[e]][Other(e)] = SubSeq(@, k - kept + 1, Len(@))]

-----------------------------------------------------------------------------
(* connect and accept_connection while they run *)

\* Mutated form, of AfterGreeting: what was left over stays in front.
KeepsOld(e, more) == [inbound EXCEPT ![e] = @ \o more]
\* Up to the blank line that ends the request or response, with whatever was
\* left over from before; what was read beyond it is kept.
AfterGreeting(e, more) == [inbound EXCEPT ![e] = more]

ReadGreeting(e) ==
    /\ call[e] = Handshake
    /\ LET in == pipe[link[e]][Other(e)]
       IN  \E g \in DOMAIN in :
            /\ in[g] = Greeting
            /\ \E k \in g .. Len(in) :
                /\ inbound' = AfterGreeting(e, SubSeq(in, g + 1, k))
                /\ pipe' = [pipe EXCEPT ![link[e]][Other(e)] = SubSeq(in, k + 1, Len(in))]
    /\ call' = [call EXCEPT ![e] = IF e = Server THEN Responding ELSE Idle]
    /\ session' = [session EXCEPT ![e] = (e = Client)]
    /\ UNCHANGED <<tcp, partial, got, excess, writer, breaks>>

Respond(e) ==
    /\ call[e] = Responding
    /\ CanWrite(e, <<Greeting>>)
    /\ pipe' = Wrote(e, <<Greeting>>)
    /\ session' = [session EXCEPT ![e] = TRUE]
    /\ Return(e)
    /\ UNCHANGED <<tcp, reader, writer, breaks>>

HandshakeFails(e) ==
    /\ \/ call[e] = Handshake /\ (link[e] \in broken \/ Greeting \notin Range(Stream(e)))
       \/ call[e] = Responding /\ Torn(e, <<Greeting>>) # {}
    /\ Hangup(e)
    /\ inbound' = IF call[e] = Handshake THEN [inbound EXCEPT ![e] = <<>>] ELSE inbound
    /\ Return(e)
    /\ UNCHANGED <<session, partial, got, excess, pipe, writer, breaks>>

-----------------------------------------------------------------------------
(* send and close; a foreign end sends in fragments and pings *)

\* Mutated form, of Fail: the adapter stays connected.
FailQuietly(e) == UNCHANGED state

Fail(e) == state' = [state EXCEPT ![e] = "failed"]

\* send_frame: the whole frame, or part of it and the connection has failed.
SendFrame(e, frame) ==
    \/ CanWrite(e, frame) /\ pipe' = Wrote(e, frame) /\ UNCHANGED state
    \/ \E part \in Torn(e, frame) : pipe' = Wrote(e, part) /\ Fail(e)

\* Messages are numbered over all connections.
NextNumber(e) == Cardinality(UNION {Range(begun[c][e]) : c \in Connections}) + 1
CanSend(e) == NextNumber(e) + pings[e] <= MaxSends(e)

\* Message n goes as one frame; a foreign end may send a first fragment only.
Send(e) ==
    /\ call[e] = Idle /\ Established(e) /\ ~rest[e].on
    /\ CanSend(e)
    /\ LET n == NextNumber(e)
       IN  /\ \/ /\ SendFrame(e, Frame("data", TRUE, Message(n)))
                /\ UNCHANGED rest
             \/ /\ e \in Foreign
                /\ \E k \in 0 .. Size(n) :
                    /\ SendFrame(e, Frame("data", FALSE, SubSeq(Message(n), 1, k)))
                    /\ rest' = [rest EXCEPT ![e] =
                        [on |-> TRUE, bytes |-> SubSeq(Message(n), k + 1, Size(n))]]
           /\ begun' = [begun EXCEPT ![link[e]][e] = Append(@, n)]
    /\ UNCHANGED <<link, sockets, session, reader, call, pings, breaks>>

\* The next fragment, or the last one.
SendMore(e) ==
    /\ call[e] = Idle /\ Established(e) /\ rest[e].on
    /\ LET bytes == rest[e].bytes
       IN  \/ /\ SendFrame(e, Frame("more", TRUE, bytes))
             /\ rest' = [rest EXCEPT ![e] = NoMessage]
          \/ \E k \in 1 .. Len(bytes) :
                /\ SendFrame(e, Frame("more", FALSE, SubSeq(bytes, 1, k)))
                /\ rest' = [rest EXCEPT ![e] =
                        [on |-> TRUE, bytes |-> SubSeq(bytes, k + 1, Len(bytes))]]
    /\ UNCHANGED <<link, sockets, session, reader, call, begun, pings, breaks>>

Ping(e) ==
    /\ e \in Foreign /\ call[e] = Idle /\ Established(e)
    /\ CanSend(e)
    /\ SendFrame(e, PingFrame)
    /\ pings' = [pings EXCEPT ![e] = @ + 1]
    /\ UNCHANGED <<link, sockets, session, reader, call, rest, begun, breaks>>

\* With a close frame first, if there is a session; whether it goes out does
\* not matter.
CloseFrames(e) ==
    LET frame == Frame("close", TRUE, <<>>)
    IN  IF ~Established(e) THEN {<<>>}
        ELSE (IF CanWrite(e, frame) THEN {frame} ELSE {}) \cup Torn(e, frame)

Close(e) ==
    /\ call[e] = Idle /\ state[e] # "disconnected"
    /\ \E frame \in CloseFrames(e) :
        pipe' = IF frame = <<>> THEN pipe ELSE Wrote(e, frame)
    /\ session' = [session EXCEPT ![e] = FALSE]
    /\ Hangup(e)
    /\ UNCHANGED <<reader, call, writer, breaks>>

-----------------------------------------------------------------------------
(* receive *)

Receive(e) ==
    /\ call[e] = Idle /\ Established(e)
    /\ Continue(e)
    /\ UNCHANGED <<tcp, session, reader, pipe, writer, breaks>>

\* Bytes that are no head are taken for one all the same.
HeadsOf(piece) == IF piece \in Heads THEN {piece} ELSE Mistaken

Refuse(e, what) == excess' = [excess EXCEPT ![e] = IF @ = "frame" THEN @ ELSE what]

\* A frame longer than max_message_bytes is refused at its length.
TooLong(h) == h.size > MaxMessage

ReadHead(e) ==
    /\ call[e] = NextFrame /\ Stream(e) # <<>>
    /\ Consume(e, 1)
    /\ \E h \in HeadsOf(Head(Stream(e))) :
        \/ ~TooLong(h) /\ call' = [call EXCEPT ![e] = Payload(h)] /\ UNCHANGED excess
        \/ TooLong(h) /\ Return(e) /\ Refuse(e, "frame")
    /\ UNCHANGED <<tcp, session, partial, got, writer, breaks>>

Deliver(e, bytes) ==
    /\ got' = [got EXCEPT ![e] =
            Append(@, [on |-> link[e], bytes |-> bytes, after |-> excess[e]])]
    /\ Return(e)

\* A first fragment replaces whatever an earlier message left behind.
StartWith(e, bytes) == bytes

Data(e, fin, bytes) ==
    /\ UNCHANGED excess
    /\ \/ fin /\ Deliver(e, bytes) /\ UNCHANGED partial
       \/ /\ ~fin
          /\ partial' = [partial EXCEPT ![e] = [on |-> TRUE, bytes |-> StartWith(e, bytes)]]
          /\ Continue(e) /\ UNCHANGED got

\* Mutated form, of Fits: only the fragment is measured.
FitsAlone(e, bytes) == Len(bytes) <= MaxMessage
Fits(e, bytes) == Len(partial[e].bytes) + Len(bytes) <= MaxMessage

\* A continuation that nothing precedes, or one too many, is an error; the
\* fragments before it stay.
More(e, fin, bytes) ==
    LET whole == partial[e].bytes \o bytes
        joins == partial[e].on /\ Fits(e, bytes)
    IN  \/ /\ joins /\ fin
          /\ Deliver(e, whole)
          /\ partial' = [partial EXCEPT ![e] = NoMessage]
          /\ UNCHANGED excess
       \/ /\ joins /\ ~fin
          /\ partial' = [partial EXCEPT ![e] = [on |-> TRUE, bytes |-> whole]]
          /\ Continue(e) /\ UNCHANGED <<got, excess>>
       \/ /\ ~joins
          /\ Refuse(e, "message")
          /\ Return(e) /\ UNCHANGED <<got, partial>>

\* The payload is read whatever becomes of the frame.
Dispatch(e, h, bytes) ==
    \/ h.op = "data" /\ Data(e, h.fin, bytes)
    \/ h.op = "more" /\ More(e, h.fin, bytes)
    \/ h.op = "pong" /\ Continue(e) /\ UNCHANGED <<got, partial, excess>>
    \/ h.op = "other" /\ Return(e) /\ UNCHANGED <<got, partial, excess>>
    \/ /\ h.op \in {"ping", "close"}
       /\ call' = [call EXCEPT ![e] =
            Answering(IF h.op = "ping" THEN "pong" ELSE "close", bytes)]
       /\ UNCHANGED <<got, partial, excess>>

ReadPayload(e) ==
    /\ call[e].op = "payload"
    /\ LET h == call[e].head
       IN  /\ Len(Stream(e)) >= h.size
           /\ Consume(e, h.size)
           /\ Dispatch(e, h, SubSeq(Stream(e), 1, h.size))
    /\ UNCHANGED <<tcp, session, writer, breaks>>

\* Whether the pong goes out does not matter.
Pong(e) ==
    /\ call[e].op = "pong"
    /\ \/ state[e] # "connected" /\ UNCHANGED <<state, pipe>>
       \/ state[e] = "connected" /\ SendFrame(e, Frame("pong", TRUE, call[e].bytes))
    /\ Continue(e)
    /\ UNCHANGED <<link, sockets, session, reader, writer, breaks>>

\* The close frame is echoed and the connection closed.
CloseBack(e) ==
    /\ call[e].op = "close"
    /\ \/ state[e] # "connected" /\ UNCHANGED pipe
       \/ LET frame == Frame("close", TRUE, call[e].bytes)
          IN  \/ CanWrite(e, frame) /\ pipe' = Wrote(e, frame)
              \/ \E part \in Torn(e, frame) : pipe' = Wrote(e, part)
    /\ session' = [session EXCEPT ![e] = FALSE]
    /\ Hangup(e)
    /\ Return(e)
    /\ UNCHANGED <<reader, writer, breaks>>

Missing(e) == IF call[e] = NextFrame THEN 1 ELSE call[e].head.size

\* Reset, closed or too late; what there was has been taken.
ReadFails(e) ==
    /\ call[e].op \in {"receive", "payload"}
    /\ Len(inbound[e]) < Missing(e)
    /\ Len(Stream(e)) < Missing(e) \/ link[e] \in broken
    /\ inbound' = [inbound EXCEPT ![e] = <<>>]
    /\ \/ state[e] # "connected" /\ UNCHANGED <<state, pipe>>
       \/ /\ state[e] = "connected" /\ Fail(e)
          /\ pipe' = [pipe EXCEPT ![link[e]][Other(e)] = <<>>]
    /\ Return(e)
    /\ UNCHANGED <<link, sockets, session, partial, got, excess, writer, breaks>>

-----------------------------------------------------------------------------
Break ==
    /\ breaks < MaxBreaks
    /\ \E c \in (1 .. made) \ broken : broken' = broken \cup {c}
    /\ breaks' = breaks + 1
    /\ UNCHANGED <<state, link, listening, waiting, made, open, session, reader, call, pipe, writer>>

Step(e) ==
    \/ ReadGreeting(e) \/ Respond(e) \/ HandshakeFails(e)
    \/ ReadHead(e) \/ ReadPayload(e) \/ Pong(e) \/ CloseBack(e) \/ ReadFails(e)

Next ==
    \/ Connect \/ Listen \/ Accept \/ Break
    \/ \E e \in Ends :
        Send(e) \/ SendMore(e) \/ Ping(e) \/ Close(e) \/ Receive(e) \/ Step(e)

Spec == Init /\ [][Next]_vars
-----------------------------------------------------------------------------
(* What should be true of it *)

\* The messages e returned from c before it refused anything for its size.
Regular(e, c) == {i \in DOMAIN got[e] : got[e][i].on = c /\ got[e][i].after = "none"}

\* Until a receiver has refused something for its size, the messages it
\* returns from a connection are the first ones sent on it, each whole and put
\* together from its own fragments, although inbound_, fragmented_ and message_
\* outlive a connection.
MessagesInTurn ==
    \A e \in Ends, c \in Connections :
        LET sent == begun[c][Other(e)]
        IN  \A i \in Regular(e, c) :
                LET k == Cardinality({j \in Regular(e, c) : j <= i})
                IN  k \in DOMAIN sent /\ got[e][i].bytes = Message(sent[k])

\* Between two frames the stream of an established session goes on with the
\* head of a frame, whatever receive refused before, but for one case: a frame
\* longer than max_message_bytes.
Framed ==
    \A e \in Ends :
        Established(e) /\ call[e] \in {Idle, NextFrame} /\ excess[e] # "frame" =>
            Stream(e) = <<>> \/ Head(Stream(e)) \in Heads

\* No message grows beyond max_message_bytes, however it is split and whatever
\* is left of earlier ones.
WithinLimit ==
    \A e \in Ends :
        /\ Len(partial[e].bytes) <= MaxMessage
        /\ \A i \in DOMAIN got[e] : Len(got[e][i].bytes) <= MaxMessage
=============================================================================
