------------------------------- MODULE UdpLink -------------------------------
(***************************************************************************)
(* UdpAdapters: one listens, others connect to it and may close and        *)
(* connect again, each time from a new port.  Datagrams are lost,          *)
(* duplicated and overtaken at will.  What an adapter sends carries a      *)
(* sequence number of its own, from which the receiver counts what is      *)
(* missing or late.                                                        *)
(***************************************************************************)
EXTENDS Integers, FiniteSets

CONSTANTS
    Clients, Server,
    Size(_),      \* the bytes of the n-th packet of an adapter
    Limit(_),     \* what max_datagram_bytes leaves for a packet
    SeqMod,       \* a sequence number is one of 0 .. SeqMod - 1: 2^32
    MaxSends(_),  \* bound: datagrams an adapter numbers
    MaxPorts,     \* bound: ports the clients use
    MaxCopies     \* bound: datagrams the network duplicates

Ends == Clients \cup {Server}

ASSUME UdpAssumption ==
    /\ Server \notin Clients
    /\ SeqMod \in Nat \ {0, 1}
    /\ \A e \in Ends : Limit(e) \in Nat /\ MaxSends(e) \in Nat
    /\ \A e \in Ends : \A n \in 1 .. MaxSends(e) : Size(n) \in Nat
    /\ {MaxPorts, MaxCopies} \subseteq Nat

VARIABLES
    state,         \* state_ of each adapter
    port,          \* its socket: the port, 0 for none
    ports,         \* the ports clients have used are 1 .. ports
    peer,          \* peer_port_, or 0 before peer_set_
    next,          \* next_sequence_
    stats,         \* stats_
    net,           \* the datagrams on their way
    sends, copies, \* how many datagrams were numbered, and duplicated
    heard,         \* what an adapter counted since its last reset_stats
    got            \* the packets receive returned

vars == <<state, port, ports, peer, next, stats, net, sends, copies, heard, got>>

ServerPort == MaxPorts + 1

NoStats == [has |-> FALSE, last |-> 0, received |-> 0, lost |-> 0, reordered |-> 0]
Nothing == [by |-> {}, first |-> 0, all |-> {}]

Init ==
    /\ state = [e \in Ends |-> "disconnected"]
    /\ port = [e \in Ends |-> 0] /\ ports = 0
    /\ peer = [e \in Ends |-> 0]
    /\ next = [e \in Ends |-> 1]
    /\ stats = [e \in Ends |-> NoStats]
    /\ net = {}
    /\ sends = [e \in Ends |-> 0] /\ copies = 0
    /\ heard = [e \in Ends |-> Nothing]
    /\ got = [e \in Ends |-> {}]

-----------------------------------------------------------------------------
(* connect, listen, close, reset_stats *)

\* A new socket, from a port of its own, also if there was one already.
Connect(e) ==
    /\ e \in Clients /\ ports < MaxPorts
    /\ ports' = ports + 1
    /\ port' = [port EXCEPT ![e] = ports + 1]
    /\ state' = [state EXCEPT ![e] = "connected"]
    /\ UNCHANGED <<peer, next, stats, net, sends, copies, heard, got>>

\* A port that is still bound cannot be bound again; its socket stays.
Listen ==
    /\ \/ /\ port[Server] # 0
          /\ state' = [state EXCEPT ![Server] = "failed"]
          /\ UNCHANGED port
       \/ /\ port[Server] = 0
          /\ state' = [state EXCEPT ![Server] = "listening"]
          /\ port' = [port EXCEPT ![Server] = ServerPort]
    /\ UNCHANGED <<ports, peer, next, stats, net, sends, copies, heard, got>>

\* Mutated form, of AfterClose: numbers start again.
NumberAnew(e) == [next EXCEPT ![e] = 1]

AfterClose(e) == next

\* Only the socket goes, with the datagrams that waited in it: those still
\* travelling may find the next one, and numbers, counters and peer outlive it.
Close(e) ==
    /\ state[e] # "disconnected"
    /\ state' = [state EXCEPT ![e] = "disconnected"]
    /\ port' = [port EXCEPT ![e] = 0]
    /\ \E waiting \in SUBSET {d \in net : d.to = port[e]} : net' = net \ waiting
    /\ next' = AfterClose(e)
    /\ UNCHANGED <<ports, peer, stats, sends, copies, heard, got>>

ResetStats(e) ==
    /\ stats[e] # NoStats
    /\ stats' = [stats EXCEPT ![e] = NoStats]
    /\ heard' = [heard EXCEPT ![e] = Nothing]
    /\ UNCHANGED <<state, port, ports, peer, next, net, sends, copies, got>>

-----------------------------------------------------------------------------
(* send, receive *)

To(e) == IF e = Server THEN peer[e] ELSE ServerPort

SeqAfter(s) == (s + 1) % SeqMod

\* The number is used up whether or not the datagram goes out: there may be no
\* peer yet, or the socket reports an error.  Whether the other end is open
\* matters when the datagram gets there.
Send(e) ==
    /\ state[e] \in {"connected", "listening"}
    /\ sends[e] < MaxSends(e)
    /\ LET n == sends[e] + 1
           d == [from |-> port[e], to |-> To(e), by |-> e, n |-> n, seq |-> next[e]]
       IN  /\ Size(n) <= Limit(e)
           /\ net' = net \/ (To(e) # 0 /\ net' = net \cup {d})
           /\ sends' = [sends EXCEPT ![e] = n]
    /\ next' = [next EXCEPT ![e] = SeqAfter(@)]
    /\ UNCHANGED <<state, port, ports, peer, stats, copies, heard, got>>

\* The gap before a number is counted as lost, and stays so if it is filled
\* later; a number that is not above the last is counted as reordered.
Counted(s, seq) ==
    LET ahead == s.has /\ seq > s.last
    IN  [has |-> TRUE,
         last |-> IF ahead \/ ~s.has THEN seq ELSE s.last,
         received |-> s.received + 1,
         lost |-> IF ahead THEN s.lost + (seq - s.last - 1) ELSE s.lost,
         reordered |-> IF s.has /\ ~ahead THEN s.reordered + 1 ELSE s.reordered]

\* Mutated form, of Complete: the length on the wire is not compared.
Unmeasured(e, n) == TRUE

\* recvfrom cuts a datagram that is longer than the receiver's bound.
Complete(e, n) == Size(n) <= Limit(e)

Arrives(d) ==
    \/ net' = net \ {d} /\ UNCHANGED copies
    \/ copies < MaxCopies /\ copies' = copies + 1 /\ UNCHANGED net

Receive(e) ==
    \E d \in net :
        /\ port[e] # 0 /\ d.to = port[e]
        /\ Arrives(d)
        /\ peer' = [peer EXCEPT ![e] = d.from]
        /\ \/ ~Complete(e, d.n) /\ UNCHANGED <<stats, heard, got>>
           \/ /\ Complete(e, d.n)
              /\ stats' = [stats EXCEPT ![e] = Counted(@, d.seq)]
              /\ heard' = [heard EXCEPT ![e] =
                    [by |-> @.by \cup {d.by},
                     first |-> IF @ = Nothing THEN d.n ELSE @.first,
                     all |-> @.all \cup {d.n}]]
              /\ got' = [got EXCEPT ![e] = @ \cup
                    {[by |-> d.by, n |-> d.n,
                      size |-> IF Size(d.n) <= Limit(e) THEN Size(d.n) ELSE Limit(e)]}]
        /\ UNCHANGED <<state, port, ports, next, sends>>

Lose ==
    /\ \E d \in net : net' = net \ {d}
    /\ UNCHANGED <<state, port, ports, peer, next, stats, sends, copies, heard, got>>

Next ==
    \/ Listen \/ Lose
    \/ \E e \in Ends : Connect(e) \/ Close(e) \/ ResetStats(e) \/ Send(e) \/ Receive(e)

Spec == Init /\ [][Next]_vars
-----------------------------------------------------------------------------
(* What should be true of it *)

\* While an adapter hears one sender only, and the sender's numbers have not
\* come round, no loss goes unseen: between the first and the last datagram it
\* counted, it reports at least as many lost as are missing, and those it
\* reports beyond that were late and are among the reordered.  Reconnects of
\* either do not matter.
LossObserved ==
    \A e \in Ends :
        LET h == heard[e]
            s == stats[e]
            missing == (h.first .. s.last) \ h.all
        IN  Cardinality(h.by) = 1 /\ (\A b \in h.by : sends[b] < SeqMod) =>
                /\ \A n \in h.all : n <= s.last
                /\ Cardinality(missing) <= s.lost
                /\ s.lost <= Cardinality(missing) + s.reordered

\* A datagram that is not counted was not returned, and what is returned is a
\* whole packet, also if the sender's bound is above the receiver's.
DeliveredWhole ==
    \A e \in Ends : \A p \in got[e] : p.size = Size(p.n)
=============================================================================
