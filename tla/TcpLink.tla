------------------------------- MODULE TcpLink -------------------------------
(***************************************************************************)
(* Two programs, each with a TcpAdapter and a TransportScheduler.  The     *)
(* client connects, and its adapter may reconnect on its own; the server   *)
(* listens, accepts one connection and, to serve another, closes and       *)
(* listens again.  Either may queue packets, flush them and receive.       *)
(*                                                                         *)
(* A packet is framed: its length, then its bytes.  write_all and read_all *)
(* move a frame piece by piece (units, of which the first is the length),  *)
(* while the other end, the network and the timeouts act in between.       *)
(* A program makes one call at a time; a flush or a receive in progress is *)
(* call[e].  stream[c][e] is the list of every unit e ever wrote to        *)
(* connection c, and read[c][e] counts those that have left it.            *)
(***************************************************************************)
EXTENDS Integers, FiniteSets, Sequences, Functions

CONSTANTS
    Client, Server,
    Senders,        \* the ends that queue packets
    Receivers,      \* the ends that call receive
    Clearers,       \* the ends that clear their queue
    Body(_),        \* the units of packet n after its length
    Capacity,       \* units the two socket buffers of a direction hold
    Backlog,        \* connections the kernel queues for accept
    Reconnects,     \* the client's reconnect_attempts is 1, not 0
    Timeouts,       \* the ends with timeouts, for all they wait for
    MaxPending,     \* max_pending of the schedulers, or 0
    MaxPackets(_),  \* bound: packets queued by an end
    MaxConnections, \* bound: connections
    MaxBreaks,      \* bound: connections the network breaks
    MaxFailures(_)  \* bound: calls of an end that fail

Ends == {Client, Server}
Other(e) == IF e = Client THEN Server ELSE Client

ASSUME TcpAssumption ==
    /\ Client # Server
    /\ Senders \subseteq Ends /\ Receivers \subseteq Ends
    /\ Clearers \subseteq Ends /\ Timeouts \subseteq Ends
    /\ Reconnects \in BOOLEAN
    /\ \A e \in Ends : MaxPackets(e) \in Nat /\ MaxFailures(e) \in Nat
    /\ \A e \in Ends : \A n \in 1 .. MaxPackets(e) : Body(n) \in Nat
    /\ Capacity \in Nat \ {0} /\ Backlog \in Nat \ {0}
    /\ {MaxPending, MaxConnections, MaxBreaks} \subseteq Nat

VARIABLES
    state,     \* state_ of each adapter
    link,      \* active_socket(): the connection, or 0
    endpoint,  \* has_last_endpoint_ of the client
    listening, \* the server has a listening socket
    made,      \* how many connections were made: 1 .. made
    backlog,   \* those not yet accepted
    open,      \* those whose descriptor an end has not closed
    broken,    \* those that were reset
    stream,    \* stream[c][e]: the units e wrote to c
    read,      \* read[c][e]: how many of them the other end has read
    queue,     \* queue_ of each scheduler
    call,      \* the call in progress
    enqueued, cleared, written, received, failures, breaks  \* history

adapter == <<state, link, endpoint>>
sockets == <<listening, made, backlog, open>>
queued == <<enqueued, cleared>>
history == <<queued, received, failures, breaks>>
pipe == <<stream, read>>
vars == <<adapter, sockets, broken, pipe, queue, call, written, history>>

Connections == 1 .. MaxConnections

Unit(n, k) == [n |-> n, k |-> k]
Frame(n) == [i \in 1 .. Body(n) + 1 |-> Unit(n, i - 1)]
Numbers == UNION {1 .. MaxPackets(e) : e \in Ends}

\* The units e wrote to c that no one has read yet.
InFlight(c, e) == Len(stream[c][e]) - read[c][e]

Idle == [op |-> "none"]
Flushing(k) == [op |-> "flush", at |-> k]
Receiving(g) == [op |-> "receive", got |-> g]

Init ==
    /\ state = [e \in Ends |-> "disconnected"]
    /\ link = [e \in Ends |-> 0]
    /\ endpoint = FALSE /\ listening = FALSE
    /\ made = 0 /\ backlog = <<>>
    /\ open = [e \in Ends |-> {}] /\ broken = {}
    /\ stream = [c \in Connections |-> [e \in Ends |-> <<>>]]
    /\ read = [c \in Connections |-> [e \in Ends |-> 0]]
    /\ queue = [e \in Ends |-> <<>>]
    /\ call = [e \in Ends |-> Idle]
    /\ enqueued = [e \in Ends |-> 0]
    /\ cleared = [e \in Ends |-> {}]
    /\ written = [e \in Ends |-> <<>>]
    /\ received = [e \in Ends |-> <<>>]
    /\ failures = [e \in Ends |-> 0] /\ breaks = 0

-----------------------------------------------------------------------------
(* connect, reconnect, listen, accept_connection, close *)

CanConnect ==
    listening /\ Len(backlog) < Backlog /\ made < MaxConnections

\* The new descriptor replaces the one of a failed connection, which stays
\* open.
Connected ==
    /\ CanConnect
    /\ made' = made + 1
    /\ backlog' = Append(backlog, made + 1)
    /\ open' = [e \in Ends |-> open[e] \cup {made + 1}]
    /\ link' = [link EXCEPT ![Client] = made + 1]
    /\ state' = [state EXCEPT ![Client] = "connected"]
    /\ endpoint' = TRUE
    /\ UNCHANGED listening

\* Refused, or not completed in time: then the server may be left with a
\* connection to nobody.
NotConnected ==
    /\ state' = [state EXCEPT ![Client] = "failed"]
    /\ endpoint' = TRUE
    /\ \/ /\ ~CanConnect
          /\ UNCHANGED <<made, backlog, open>>
       \/ /\ CanConnect /\ Client \in Timeouts
          /\ made' = made + 1
          /\ backlog' = Append(backlog, made + 1)
          /\ open' = [open EXCEPT ![Server] = @ \cup {made + 1}]
    /\ UNCHANGED <<link, listening>>

\* Mutated form, of Connect: a connected adapter connects again.
ConnectAgain ==
    /\ call[Client] = Idle
    /\ Connected \/ NotConnected
    /\ UNCHANGED <<broken, pipe, queue, call, written, history>>

\* connect, and reconnect() with the same endpoint.
Connect ==
    /\ call[Client] = Idle
    /\ state[Client] # "connected"
    /\ Connected \/ NotConnected
    /\ UNCHANGED <<broken, pipe, queue, call, written, history>>

\* The address cannot be bound while the last listening socket is open.
Listen ==
    /\ call[Server] = Idle
    /\ state[Server] \notin {"connected", "listening"}
    /\ listening' = TRUE
    /\ state' = [state EXCEPT ![Server] = IF listening THEN "failed" ELSE "listening"]
    /\ link' = IF listening THEN link ELSE [link EXCEPT ![Server] = 0]
    /\ UNCHANGED <<endpoint, made, backlog, open, broken, pipe, queue, call, written, history>>

Accept ==
    /\ call[Server] = Idle
    /\ state[Server] = "listening"
    /\ backlog # <<>>
    /\ link' = [link EXCEPT ![Server] = Head(backlog)]
    /\ backlog' = Tail(backlog)
    /\ state' = [state EXCEPT ![Server] = "connected"]
    /\ UNCHANGED <<endpoint, listening, made, open, broken, pipe, queue, call, written, history>>

\* Whatever the closing end has not read resets the connection, and so do
\* the connections nobody accepted.
Close(e) ==
    /\ call[e] = Idle
    /\ state[e] # "disconnected"
    /\ LET waiting == IF e = Server THEN Range(backlog) ELSE {}
           closed == ({link[e]} \cup waiting) \ {0}
       IN  /\ open' = [open EXCEPT ![e] = @ \ closed]
           /\ broken' = broken \cup waiting
                 \cup {c \in closed : InFlight(c, Other(e)) > 0}
    /\ backlog' = IF e = Server THEN <<>> ELSE backlog
    /\ listening' = (listening /\ e # Server)
    /\ link' = [link EXCEPT ![e] = 0]
    /\ state' = [state EXCEPT ![e] = "disconnected"]
    /\ UNCHANGED <<endpoint, made, pipe, queue, call, written, history>>

-----------------------------------------------------------------------------
(* The scheduler: enqueue, clear, flush *)

\* Beyond max_pending the packet is refused and nothing changes.
Enqueue(e) ==
    /\ e \in Senders
    /\ call[e] = Idle
    /\ enqueued[e] < MaxPackets(e)
    /\ MaxPending = 0 \/ Len(queue[e]) < MaxPending
    /\ queue' = [queue EXCEPT ![e] = Append(@, enqueued[e] + 1)]
    /\ enqueued' = [enqueued EXCEPT ![e] = @ + 1]
    /\ UNCHANGED <<adapter, sockets, broken, pipe, call, written, cleared, received, failures, breaks>>

Clear(e) ==
    /\ e \in Clearers
    /\ call[e] = Idle
    /\ queue[e] # <<>>
    /\ queue' = [queue EXCEPT ![e] = <<>>]
    /\ cleared' = [cleared EXCEPT ![e] = @ \cup Range(queue[e])]
    /\ UNCHANGED <<adapter, sockets, broken, pipe, call, written, enqueued,
                   received, failures, breaks>>

Begin(e, c) ==
    /\ call[e] = Idle
    /\ failures[e] < MaxFailures(e)
    /\ call' = [call EXCEPT ![e] = c]
    /\ UNCHANGED <<adapter, sockets, broken, pipe, queue, written, history>>

Flush(e) == queue[e] # <<>> /\ Begin(e, Flushing(0))

Receive(e) == e \in Receivers /\ Begin(e, Receiving(<<>>))

Return(e) == call' = [call EXCEPT ![e] = Idle]

Fail(e) ==
    /\ state' = [state EXCEPT ![e] = "failed"]
    /\ failures' = [failures EXCEPT ![e] = @ + 1]

-----------------------------------------------------------------------------
(* send and receive while they run *)

\* ensure_connected, before the first byte is written or read.
Automatic(e) == e = Client /\ Reconnects /\ endpoint

Reconnect(e) ==
    /\ call[e] # Idle
    /\ state[e] # "connected"
    /\ Automatic(e)
    /\ Connected
    /\ UNCHANGED <<broken, pipe, queue, call, written, history>>

Refuse(e) ==
    /\ call[e] # Idle
    /\ state[e] # "connected"
    /\ IF Automatic(e) THEN NotConnected ELSE UNCHANGED <<adapter, sockets>>
    /\ Return(e)
    /\ UNCHANGED <<broken, pipe, queue, written, history>>

Running(e, op) == call[e].op = op /\ state[e] = "connected"

Outgoing(e) == InFlight(link[e], e)
Incoming(e) == InFlight(link[e], Other(e))
Arriving(e) == stream[link[e]][Other(e)][read[link[e]][Other(e)] + 1]

LastUnit(n) == Body(n)

\* A packet leaves the queue when its last byte is written.
WriteUnit(e) ==
    /\ Running(e, "flush")
    /\ link[e] \notin broken
    /\ Outgoing(e) < Capacity
    /\ LET n == Head(queue[e])
           k == call[e].at
       IN  /\ stream' = [stream EXCEPT ![link[e]][e] = Append(@, Unit(n, k))]
           /\ \/ /\ k < LastUnit(n)
                 /\ call' = [call EXCEPT ![e] = Flushing(k + 1)]
                 /\ UNCHANGED <<queue, written>>
              \/ /\ k = LastUnit(n)
                 /\ queue' = [queue EXCEPT ![e] = Tail(@)]
                 /\ written' = [written EXCEPT ![e] =
                                Append(@, [on |-> link[e], n |-> n])]
                 /\ call' = [call EXCEPT ![e] =
                                 IF Len(queue[e]) = 1 THEN Idle ELSE Flushing(0)]
    /\ UNCHANGED <<adapter, sockets, broken, read, history>>

\* The connection is reset or closed at the other end, or the time is up.
CannotWrite(e) ==
    \/ link[e] \in broken
    \/ link[e] \notin open[Other(e)]
    \/ e \in Timeouts /\ Outgoing(e) = Capacity

\* Mutated forms, of WriteFails: the adapter stays connected; the packet is
\* given up; the timeout is not set.
WriteFailsConnected(e) ==
    /\ Running(e, "flush") /\ CannotWrite(e)
    /\ failures' = [failures EXCEPT ![e] = @ + 1]
    /\ Return(e)
    /\ UNCHANGED <<adapter, sockets, broken, pipe, queue, written, queued, received, breaks>>
WriteFailsDropping(e) ==
    /\ Running(e, "flush") /\ CannotWrite(e)
    /\ Fail(e) /\ Return(e)
    /\ queue' = [queue EXCEPT ![e] = Tail(@)]
    /\ UNCHANGED <<link, endpoint, sockets, broken, pipe, written, queued, received, breaks>>
WriteFailsUntimed(e) ==
    /\ Running(e, "flush")
    /\ link[e] \in broken \/ link[e] \notin open[Other(e)]
    /\ Fail(e) /\ Return(e)
    /\ UNCHANGED <<link, endpoint, sockets, broken, pipe, queue, written, queued, received, breaks>>

WriteFails(e) ==
    /\ Running(e, "flush")
    /\ CannotWrite(e)
    /\ Fail(e)
    /\ Return(e)
    /\ UNCHANGED <<link, endpoint, sockets, broken, pipe, queue, written, queued, received, breaks>>

\* The length that the first unit read announces; other bytes mean nothing.
Announced(u) == IF u.k = 0 THEN Body(u.n) ELSE 0

ReadUnit(e) ==
    /\ Running(e, "receive")
    /\ Incoming(e) > 0
    /\ LET got == Append(call[e].got, Arriving(e))
           whole == Len(got) = 1 + Announced(got[1])
       IN  /\ call' = [call EXCEPT ![e] = IF whole THEN Idle ELSE Receiving(got)]
           /\ received' = IF whole
                          THEN [received EXCEPT ![e] =
                                    Append(@, [on |-> link[e], units |-> got])]
                          ELSE received
    /\ read' = [read EXCEPT ![link[e]][Other(e)] = @ + 1]
    /\ UNCHANGED <<adapter, sockets, broken, stream, queue, written, queued, failures, breaks>>

CannotRead(e) ==
    \/ link[e] \in broken
    \/ Incoming(e) = 0 /\ (link[e] \notin open[Other(e)] \/ e \in Timeouts)

\* Mutated form, of ReadFails: the adapter stays connected.
ReadFailsConnected(e) ==
    /\ Running(e, "receive") /\ CannotRead(e)
    /\ failures' = [failures EXCEPT ![e] = @ + 1]
    /\ Return(e)
    /\ UNCHANGED <<adapter, sockets, broken, pipe, queue, written, queued, received, breaks>>

ReadFails(e) ==
    /\ Running(e, "receive")
    /\ CannotRead(e)
    /\ Fail(e)
    /\ Return(e)
    /\ UNCHANGED <<link, endpoint, sockets, broken, pipe, queue, written, queued, received, breaks>>

-----------------------------------------------------------------------------
Break ==
    /\ breaks < MaxBreaks
    /\ \E c \in (1 .. made) \ broken : broken' = broken \cup {c}
    /\ breaks' = breaks + 1
    /\ UNCHANGED <<adapter, sockets, pipe, queue, call, written, queued, received, failures>>

Step(e) ==
    Reconnect(e) \/ Refuse(e) \/ WriteUnit(e) \/ WriteFails(e) \/ ReadUnit(e) \/ ReadFails(e)

Next ==
    \/ Connect \/ Listen \/ Accept \/ Break
    \/ \E e \in Ends : Close(e) \/ Enqueue(e) \/ Clear(e) \/ Flush(e) \/ Receive(e) \/ Step(e)

\* A call in progress goes on: the operating system runs its thread and
\* wakes it when a timeout is over.
Spec == Init /\ [][Next]_vars /\ \A e \in Ends : WF_vars(Step(e))
-----------------------------------------------------------------------------
(* What should be true of it *)

\* Seen by the programs, each direction is a stream of packets: whole, in
\* order and at most once, although a packet whose sending failed is kept and
\* sent again on another connection.
Packets == {Frame(n) : n \in Numbers}
Queued(e) == [n \in 1 .. enqueued[e] |-> Frame(n)]
Returned(e) == [i \in DOMAIN received[e] |->
    [n |-> received[e][i].units[1].n, record |-> received[e][i].units]]

Requests == INSTANCE RecordStream WITH
    Record <- Packets, sent <- Queued(Client), got <- Returned(Server)
Replies == INSTANCE RecordStream WITH
    Record <- Packets, sent <- Queued(Server), got <- Returned(Client)

Faithful == Requests!Spec /\ Replies!Spec

\* No packet is lost between the queue and the sockets, whatever failed in
\* between: what was completely written, connection after connection, and
\* what still waits are the packets queued, once each and in order, but for
\* those that were cleared.
Handled(e) == [j \in DOMAIN written[e] |-> written[e][j].n] \o queue[e]

QueuedOrWritten ==
    \A e \in Ends :
        /\ Range(Handled(e)) = (1 .. enqueued[e]) \ cleared[e]
        /\ \A i, j \in DOMAIN Handled(e) : i < j => Handled(e)[i] < Handled(e)[j]

\* A connection loses packets only at its end: those received from it are
\* the first ones written to it.
Is(r, w) == r.on = w.on /\ r.units = Frame(w.n)

ReceivedInTurn ==
    \A e \in Ends : \A i \in DOMAIN received[e] :
        \E j \in DOMAIN written[Other(e)] :
            /\ Is(received[e][i], written[Other(e)][j])
            /\ \A k \in 1 .. j - 1 :
                  written[Other(e)][k].on = received[e][i].on =>
                      \E h \in 1 .. i - 1 : Is(received[e][h], written[Other(e)][k])

\* A descriptor that the adapter has lost sight of, and which close() will
\* not close, is the price of a failed call, one each.
LeaksAreFailures ==
    \A e \in Ends :
        Cardinality(open[e] \ ({link[e]} \cup Range(backlog))) <= failures[e]

\* Every call returns at an end whose timeouts are set, even if both ends
\* write and neither reads.
CallsReturn == \A e \in Timeouts : (call[e] # Idle) ~> (call[e] = Idle)
=============================================================================
