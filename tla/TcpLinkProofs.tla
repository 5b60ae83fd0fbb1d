--------------------------- MODULE TcpLinkProofs ---------------------------
(***************************************************************************)
(* Proofs about TcpLink, for any number of packets, of any length, over    *)
(* any number of connections.                                              *)
(***************************************************************************)
EXTENDS TcpLink, FiniteSetTheorems, SequenceTheorems, TLAPS

Units == [n : Numbers, k : Nat]
Calls == {Idle} \cup {Flushing(k) : k \in Nat} \cup {Receiving(g) : g \in Seq(Units)}

States == {"disconnected", "connected", "listening", "failed"}

\* The connections and the adapters; every connection in use has been made.
LinksOK ==
    /\ state \in [Ends -> States]
    /\ link \in [Ends -> Nat]
    /\ made \in 0 .. MaxConnections
    /\ backlog \in Seq(Connections)
    /\ open \in [Ends -> SUBSET Connections]
    /\ failures \in [Ends -> Nat]
    /\ \A e \in Ends : state[e] = "connected" => link[e] \in 1 .. made

\* The packets.
PacketsOK ==
    /\ stream \in [Connections -> [Ends -> Seq(Units)]]
    /\ read \in [Connections -> [Ends -> Nat]]
    /\ queue \in [Ends -> Seq(Numbers)]
    /\ call \in [Ends -> Calls]
    /\ enqueued \in [Ends -> Nat]
    /\ cleared \in [Ends -> SUBSET Nat]
    /\ written \in [Ends -> Seq([on : Connections, n : Numbers])]
    /\ received \in [Ends -> Seq([on : Connections, units : Seq(Units)])]

TypeInv == LinksOK /\ PacketsOK

LEMMA EndFacts ==
    /\ Client \in Ends /\ Server \in Ends /\ Client # Server
    /\ \A e \in Ends : Other(e) \in Ends /\ Other(e) # e /\ Other(Other(e)) = e
  BY TcpAssumption DEF Ends, Other

LEMMA NumberFacts ==
    /\ MaxConnections \in Nat
    /\ \A n \in Numbers : n \in Nat \ {0} /\ Body(n) \in Nat
    /\ \A e \in Ends : \A n \in 1 .. MaxPackets(e) : n \in Numbers
  BY TcpAssumption DEF Numbers

LEMMA AddedToRange ==
    ASSUME NEW S, NEW q \in Seq(S), NEW x \in S
    PROVE  Range(Append(q, x)) = Range(q) \cup {x}
<1>1. /\ Len(q) \in Nat /\ DOMAIN q = 1 .. Len(q)
      /\ DOMAIN Append(q, x) = 1 .. Len(q) + 1
      /\ \A i \in 1 .. Len(q) : Append(q, x)[i] = q[i]
      /\ Append(q, x)[Len(q) + 1] = x
  OBVIOUS
<1>2. \A i \in 1 .. Len(q) + 1 : i \in 1 .. Len(q) \/ i = Len(q) + 1
  BY <1>1
<1>3. \A i \in 1 .. Len(q) : i \in 1 .. Len(q) + 1
  BY <1>1
<1>4. Len(q) + 1 \in 1 .. Len(q) + 1
  BY <1>1
<1>5. Range(Append(q, x)) \subseteq Range(q) \cup {x}
  BY <1>1, <1>2 DEF Range
<1>6. Range(q) \cup {x} \subseteq Range(Append(q, x))
  BY <1>1, <1>3, <1>4 DEF Range
<1> QED
  BY <1>5, <1>6

LEMMA TakenFromRange ==
    ASSUME NEW S, NEW q \in Seq(S), q # <<>>
    PROVE  /\ Range(q) = {Head(q)} \cup Range(Tail(q))
           /\ Head(q) \in S /\ Tail(q) \in Seq(S)
           /\ \A i \in DOMAIN Tail(q) : i + 1 \in DOMAIN q /\ Tail(q)[i] = q[i + 1]
           /\ 1 \in DOMAIN q /\ Head(q) = q[1]
<1>1. Len(q) \in Nat \ {0} /\ DOMAIN q = 1 .. Len(q) /\ Head(q) = q[1] /\ q[1] \in S
  OBVIOUS
<1>2. /\ Tail(q) \in Seq(S) /\ DOMAIN Tail(q) = 1 .. Len(q) - 1
      /\ \A i \in 1 .. Len(q) - 1 : Tail(q)[i] = q[i + 1]
  BY <1>1
<1>3. \A i \in 2 .. Len(q) : i - 1 \in DOMAIN Tail(q) /\ Tail(q)[i - 1] = q[i]
  BY <1>1, <1>2
<1>4. Range(q) \subseteq {Head(q)} \cup Range(Tail(q))
  <2> SUFFICES ASSUME NEW i \in 1 .. Len(q), i # 1 PROVE q[i] \in Range(Tail(q))
    BY <1>1 DEF Range
  <2>1. i - 1 \in DOMAIN Tail(q) /\ Tail(q)[i - 1] = q[i]
    BY <1>1, <1>3
  <2> QED
    BY <2>1 DEF Range
<1>5. {Head(q)} \cup Range(Tail(q)) \subseteq Range(q)
  <2>1. \A i \in 1 .. Len(q) - 1 : i + 1 \in 1 .. Len(q)
    BY <1>1
  <2> QED
    BY <1>1, <1>2, <2>1 DEF Range
<1> QED
  BY <1>1, <1>2, <1>4, <1>5

LEMMA CallKinds ==
    ASSUME NEW c \in Calls
    PROVE  \/ c = Idle /\ c.op = "none"
           \/ c.op = "flush" /\ c.at \in Nat
           \/ c.op = "receive" /\ c.got \in Seq(Units)
  BY DEF Calls, Idle, Flushing, Receiving

-----------------------------------------------------------------------------
(* What a step does to the connections *)

\* Every end that is connected afterwards was so before, by the same
\* connection and in the same call.
Keeps ==
    \A e \in Ends : state'[e] = "connected" =>
        state[e] = "connected" /\ link'[e] = link[e] /\ call'[e] = call[e]

\* Nor is a connection given up in the middle of a call.
HangsUp ==
    \A e \in Ends : state[e] = "connected" /\ state'[e] # "connected" => call'[e] = Idle

Waiting ==
    \/ made' = made /\ backlog' \in {backlog, <<>>}
    \/ made' = made + 1 /\ backlog' = Append(backlog, made + 1)

\* An end starts to use connection c.
Uses(e, c) ==
    /\ state[e] # "connected"
    /\ state' = [state EXCEPT ![e] = "connected"]
    /\ link' = [link EXCEPT ![e] = c]
    /\ call' = call

\* The steps that leave the packets alone.
Relinks ==
    /\ UNCHANGED <<stream, read, queue, written, received, enqueued, cleared>>
    /\ call' \in [Ends -> Calls] /\ \A e \in Ends : call'[e] \in {call[e], Idle}
    /\ HangsUp
    /\ \/ Keeps /\ Waiting
       \/ /\ Uses(Client, made + 1)
          /\ made' = made + 1 /\ backlog' = Append(backlog, made + 1)
       \/ /\ Uses(Server, Head(backlog)) /\ backlog # <<>>
          /\ made' = made /\ backlog' = Tail(backlog)

\* What such a step does to the descriptors.  The new ones wait in the
\* server's backlog or are in use; others are given up only by a failure.
Using(e) == state[e] = "connected"
Held(e) == (IF Using(e) THEN {link[e]} ELSE {})
              \cup (IF e = Server THEN Range(backlog) ELSE {})
LostBy(e) == open[e] \ Held(e)

Loses ==
    \A e \in Ends :
        \/ failures'[e] = failures[e] /\ LostBy(e)' \subseteq LostBy(e)
        \/ /\ failures'[e] = failures[e] + 1
           /\ LostBy(e)' \subseteq LostBy(e) \cup {link[e]}

LEMMA ConnectedStep ==
    ASSUME TypeInv, Connected, UNCHANGED failures, state[Client] # "connected"
    PROVE  /\ LinksOK' /\ Loses
           /\ state' = [state EXCEPT ![Client] = "connected"]
           /\ link' = [link EXCEPT ![Client] = made + 1]
           /\ made' = made + 1 /\ backlog' = Append(backlog, made + 1)
<1> USE DEF TypeInv, LinksOK
<1>1. made + 1 \in Connections /\ made \in Nat /\ made + 1 \in Nat /\ made' = made + 1
  BY NumberFacts DEF Connected, CanConnect, Connections
<1>2. backlog' = Append(backlog, made + 1) /\ backlog' \in Seq(Connections)
  BY <1>1 DEF Connected
<1>3. /\ open' = [e \in Ends |-> open[e] \cup {made + 1}]
      /\ open' \in [Ends -> SUBSET Connections]
  <2>1. open' = [e \in Ends |-> open[e] \cup {made + 1}] /\ open \in [Ends -> SUBSET Connections]
    BY DEF Connected
  <2> QED
    BY <1>1, <2>1
<1>4. link' = [link EXCEPT ![Client] = made + 1] /\ link' \in [Ends -> Nat]
  BY <1>1 DEF Connected
<1>5. state' = [state EXCEPT ![Client] = "connected"] /\ state' \in [Ends -> States]
  BY DEF Connected, States
<1>6. ASSUME NEW e \in Ends, state'[e] = "connected"
      PROVE  link'[e] \in 1 .. made'
  <2>1. CASE e = Client
    BY <1>1, <1>4, <2>1
  <2>2. CASE e # Client
    BY <1>1, <1>4, <1>5, <1>6, <2>2
  <2> QED
    BY <2>1, <2>2
<1>7. LinksOK'
  BY <1>1, <1>2, <1>3, <1>4, <1>5, <1>6 DEF Connections
<1>8. Range(backlog') = Range(backlog) \cup {made + 1}
  BY <1>1, <1>2, AddedToRange
<1>9. Loses
  <2> SUFFICES ASSUME NEW e \in Ends PROVE LostBy(e)' \subseteq LostBy(e)
    BY DEF Loses
  <2>1. CASE e = Client
    BY <1>3, <1>4, <1>5, <2>1, EndFacts DEF LostBy, Held, Using
  <2>2. CASE e = Server
    BY <1>3, <1>4, <1>5, <1>8, <2>2, EndFacts DEF LostBy, Held, Using
  <2> QED
    BY <2>1, <2>2 DEF Ends
<1> QED
  BY <1>1, <1>2, <1>4, <1>5, <1>7, <1>9

LEMMA NotConnectedStep ==
    ASSUME TypeInv, NotConnected, UNCHANGED failures, state[Client] # "connected"
    PROVE  /\ LinksOK' /\ Loses /\ Waiting /\ link' = link
           /\ state' = [state EXCEPT ![Client] = "failed"]
<1> USE DEF TypeInv, LinksOK
<1>1. link' = link /\ state' = [state EXCEPT ![Client] = "failed"] /\ state' \in [Ends -> States]
  BY DEF NotConnected, States
<1>2. CASE UNCHANGED <<made, backlog, open>>
  <2>1. Loses
    BY <1>1, <1>2 DEF Loses, LostBy, Held, Using
  <2> QED
    BY <1>1, <1>2, <2>1 DEF Waiting
<1>3. CASE ~UNCHANGED <<made, backlog, open>>
  <2>1. /\ CanConnect /\ made' = made + 1 /\ backlog' = Append(backlog, made + 1)
        /\ open' = [open EXCEPT ![Server] = @ \cup {made + 1}]
    BY <1>3 DEF NotConnected
  <2>2. made + 1 \in Connections /\ made \in Nat
    BY <2>1, NumberFacts DEF CanConnect, Connections
  <2>3. backlog' \in Seq(Connections)
    BY <2>1, <2>2
  <2>4. open' \in [Ends -> SUBSET Connections]
    BY <2>1, <2>2
  <2>5. ASSUME NEW e \in Ends, state'[e] = "connected"
        PROVE  link'[e] \in 1 .. made'
    BY <1>1, <2>1, <2>2, <2>5
  <2>6. Range(backlog') = Range(backlog) \cup {made + 1}
    BY <2>1, <2>2, AddedToRange
  <2>7. Loses
    <3> SUFFICES ASSUME NEW e \in Ends PROVE LostBy(e)' \subseteq LostBy(e)
      BY DEF Loses
    <3> QED
      BY <1>1, <2>1, <2>6, EndFacts DEF LostBy, Held, Using
  <2> QED
    BY <1>1, <2>1, <2>2, <2>3, <2>4, <2>5, <2>7 DEF Waiting, Connections
<1> QED
  BY <1>2, <1>3
LEMMA ConnectStep ==
    ASSUME TypeInv, Connect
    PROVE  LinksOK' /\ Loses /\ Relinks
<1>1. /\ state[Client] # "connected" /\ UNCHANGED failures
      /\ UNCHANGED <<stream, read, queue, call, written, received, enqueued, cleared>>
  BY DEF Connect, pipe, history, queued
<1>2. CASE Connected
  <2>1. HangsUp
    BY <1>1, <1>2, ConnectedStep DEF HangsUp, TypeInv, LinksOK
  <2> QED
    BY <1>1, <1>2, <2>1, ConnectedStep DEF Relinks, Uses, TypeInv, PacketsOK
<1>3. CASE NotConnected
  <2>1. Keeps
    BY <1>1, <1>3, NotConnectedStep DEF Keeps, TypeInv, LinksOK
  <2>2. HangsUp
    BY <1>1, <1>3, NotConnectedStep DEF HangsUp, TypeInv, LinksOK
  <2> QED
    BY <1>1, <1>3, <2>1, <2>2, NotConnectedStep DEF Relinks, TypeInv, PacketsOK
<1> QED
  BY <1>2, <1>3 DEF Connect

LEMMA ListenStep ==
    ASSUME TypeInv, Listen
    PROVE  LinksOK' /\ Loses /\ Relinks
<1> USE DEF TypeInv, LinksOK
<1>1. /\ UNCHANGED <<made, backlog, open, failures>>
      /\ UNCHANGED <<stream, read, queue, call, written, received, enqueued, cleared>>
      /\ state[Server] # "connected"
  BY DEF Listen, pipe, history, queued
<1>2. /\ state' \in [Ends -> States] /\ state'[Server] # "connected"
      /\ \A e \in Ends \ {Server} : state'[e] = state[e]
      /\ link' \in [Ends -> Nat] /\ \A e \in Ends \ {Server} : link'[e] = link[e]
  BY EndFacts DEF Listen, States
<1>3. LinksOK' /\ Keeps /\ HangsUp
  BY <1>1, <1>2 DEF Keeps, HangsUp
<1>4. Loses
  BY <1>1, <1>2 DEF Loses, LostBy, Held, Using
<1> QED
  BY <1>1, <1>3, <1>4 DEF Relinks, Waiting, TypeInv, PacketsOK

LEMMA AcceptStep ==
    ASSUME TypeInv, Accept, \A i \in DOMAIN backlog : backlog[i] \in 1 .. made
    PROVE  LinksOK' /\ Loses /\ Relinks
<1> USE DEF TypeInv, LinksOK
<1>1. /\ UNCHANGED <<made, open, failures>>
      /\ UNCHANGED <<stream, read, queue, call, written, received, enqueued, cleared>>
      /\ state[Server] # "connected" /\ backlog # <<>>
      /\ backlog' = Tail(backlog)
      /\ link' = [link EXCEPT ![Server] = Head(backlog)]
      /\ state' = [state EXCEPT ![Server] = "connected"]
  BY DEF Accept, pipe, history, queued
<1>2. /\ Head(backlog) \in Connections /\ Head(backlog) \in 1 .. made
      /\ Tail(backlog) \in Seq(Connections)
      /\ Range(backlog) = {Head(backlog)} \cup Range(Tail(backlog))
  BY <1>1, TakenFromRange
<1>3. LinksOK'
  <2>1. state' \in [Ends -> States]
    BY <1>1 DEF States
  <2>2. Head(backlog) \in Nat
    BY <1>2 DEF Connections
  <2>3. link' \in [Ends -> Nat]
    BY <1>1, <2>2
  <2>4. \A e \in Ends : state'[e] = "connected" => link'[e] \in 1 .. made'
    BY <1>1, <1>2
  <2> QED
    BY <1>1, <1>2, <2>1, <2>3, <2>4
<1>4. Loses
  BY <1>1, <1>2, EndFacts DEF Loses, LostBy, Held, Using
<1>5. HangsUp
  BY <1>1 DEF HangsUp
<1> QED
  BY <1>1, <1>3, <1>4, <1>5 DEF Relinks, Uses, TypeInv, PacketsOK

LEMMA CloseStep ==
    ASSUME TypeInv, NEW e \in Ends, Close(e)
    PROVE  LinksOK' /\ Loses /\ Relinks
<1> USE DEF TypeInv, LinksOK
<1> DEFINE waiting == IF e = Server THEN Range(backlog) ELSE {}
           closed == ({link[e]} \cup waiting) \ {0}
<1>1. /\ UNCHANGED <<made, failures>>
      /\ UNCHANGED <<stream, read, queue, call, written, received, enqueued, cleared>>
      /\ open' = [open EXCEPT ![e] = @ \ closed]
      /\ backlog' = IF e = Server THEN <<>> ELSE backlog
      /\ link' = [link EXCEPT ![e] = 0]
      /\ state' = [state EXCEPT ![e] = "disconnected"] /\ call[e] = Idle
  BY DEF Close, pipe, history, queued
<1>2. /\ state' \in [Ends -> States] /\ link' \in [Ends -> Nat]
      /\ open' \in [Ends -> SUBSET Connections] /\ backlog' \in Seq(Connections)
  BY <1>1 DEF States
<1>3. LinksOK' /\ Keeps /\ HangsUp
  BY <1>1, <1>2 DEF Keeps, HangsUp
<1>4. Loses
  <2> SUFFICES ASSUME NEW f \in Ends PROVE LostBy(f)' \subseteq LostBy(f)
    BY <1>1 DEF Loses
  <2>1. CASE f = e
    <3>1. 0 \notin open[e]
      BY DEF Connections
    <3>2. LostBy(e)' \subseteq open[e] \ closed
      BY <1>1 DEF LostBy
    <3>3. open[e] \ closed \subseteq LostBy(e)
      BY <3>1 DEF LostBy, Held
    <3> QED
      BY <2>1, <3>2, <3>3
  <2>2. CASE f # e
    <3>1. open'[f] = open[f] /\ Using(f)' = Using(f) /\ link'[f] = link[f]
      BY <1>1, <2>2 DEF Using
    <3>2. f = Server => backlog' = backlog
      BY <1>1, <2>2
    <3> QED
      BY <3>1, <3>2 DEF LostBy, Held
  <2> QED
    BY <2>1, <2>2
<1> QED
  BY <1>1, <1>3, <1>4 DEF Relinks, Waiting, TypeInv, PacketsOK

LEMMA ReturnType ==
    ASSUME TypeInv, NEW e \in Ends, Return(e)
    PROVE  /\ call' \in [Ends -> Calls]
           /\ \A f \in Ends : call'[f] \in {call[f], Idle}
           /\ \A f \in Ends \ {e} : call'[f] = call[f]
           /\ call'[e] = Idle
  BY DEF Return, TypeInv, PacketsOK, Calls

\* A call that fails gives its connection up.
LEMMA FailStep ==
    ASSUME TypeInv, NEW e \in Ends, WriteFails(e) \/ ReadFails(e)
    PROVE  LinksOK' /\ Loses /\ Relinks
<1> USE DEF TypeInv, LinksOK
<1>1. /\ UNCHANGED <<link, made, backlog, open>>
      /\ UNCHANGED <<stream, read, queue, written, received, enqueued, cleared>>
      /\ state' = [state EXCEPT ![e] = "failed"]
      /\ failures' = [failures EXCEPT ![e] = @ + 1]
      /\ Return(e)
  BY DEF WriteFails, ReadFails, Fail, pipe, queued, sockets
<1>2. LinksOK' /\ Keeps
  <2>1. state' \in [Ends -> States] /\ failures' \in [Ends -> Nat]
    BY <1>1 DEF States
  <2>2. \A f \in Ends : state'[f] = "connected" => state[f] = "connected" /\ f # e
    BY <1>1
  <2>3. LinksOK'
    BY <1>1, <2>1, <2>2
  <2>4. Keeps
    BY <1>1, <2>2, ReturnType DEF Keeps
  <2> QED
    BY <2>3, <2>4
<1>3. Loses
  <2> SUFFICES ASSUME NEW f \in Ends
               PROVE  \/ failures'[f] = failures[f] /\ LostBy(f)' \subseteq LostBy(f)
                      \/ /\ failures'[f] = failures[f] + 1
                         /\ LostBy(f)' \subseteq LostBy(f) \cup {link[f]}
    BY DEF Loses
  <2>1. CASE f = e
    BY <1>1, <2>1 DEF LostBy, Held
  <2>2. CASE f # e
    BY <1>1, <2>2 DEF LostBy, Held, Using
  <2> QED
    BY <2>1, <2>2
<1>4. HangsUp
  BY <1>1, ReturnType DEF HangsUp
<1> QED
  BY <1>1, <1>2, <1>3, <1>4, ReturnType DEF Relinks, Waiting, TypeInv, PacketsOK

LEMMA EnsureStep ==
    ASSUME TypeInv, NEW e \in Ends, Reconnect(e) \/ Refuse(e)
    PROVE  LinksOK' /\ Loses /\ Relinks
<1>1. /\ state[e] # "connected" /\ UNCHANGED failures
      /\ UNCHANGED <<stream, read, queue, written, received, enqueued, cleared>>
  BY DEF Reconnect, Refuse, pipe, history, queued
<1>2. CASE Reconnect(e)
  <2>1. e = Client /\ Connected /\ call' = call
    BY <1>2 DEF Reconnect, Automatic
  <2>2. HangsUp
    BY <1>1, <2>1, ConnectedStep DEF HangsUp, TypeInv, LinksOK
  <2> QED
    BY <1>1, <2>1, <2>2, ConnectedStep DEF Relinks, Uses, TypeInv, PacketsOK
<1>3. CASE Refuse(e) /\ Automatic(e)
  <2>1. e = Client /\ NotConnected /\ Return(e)
    BY <1>3 DEF Refuse, Automatic
  <2>2. LinksOK' /\ Loses /\ Waiting /\ link' = link /\ state' = [state EXCEPT ![Client] = "failed"]
    BY <1>1, <2>1, NotConnectedStep
  <2>3. Keeps
    BY <2>1, <2>2, ReturnType DEF Keeps, TypeInv, LinksOK
  <2>4. HangsUp
    BY <1>1, <2>1, <2>2 DEF HangsUp, TypeInv, LinksOK
  <2> QED
    BY <1>1, <2>1, <2>2, <2>3, <2>4, ReturnType DEF Relinks
<1>4. CASE Refuse(e) /\ ~Automatic(e)
  <2>1. UNCHANGED <<state, link, made, backlog, open>> /\ Return(e)
    BY <1>4 DEF Refuse, adapter, sockets
  <2>2. Keeps
    BY <1>1, <2>1, ReturnType DEF Keeps
  <2>3. LinksOK' /\ Loses
    BY <1>1, <2>1 DEF TypeInv, LinksOK, Loses, LostBy, Held, Using
  <2> QED
    BY <1>1, <2>1, <2>2, <2>3, ReturnType DEF Relinks, HangsUp, Waiting, TypeInv, PacketsOK
<1> QED
  BY <1>2, <1>3, <1>4

LEMMA IdleStep ==
    ASSUME TypeInv, Break \/ UNCHANGED vars
    PROVE  LinksOK' /\ Loses /\ Relinks
<1>1. /\ UNCHANGED <<state, link, made, backlog, open, failures>>
      /\ UNCHANGED <<stream, read, queue, call, written, received, enqueued, cleared>>
  BY DEF Break, vars, adapter, sockets, pipe, history, queued
<1> QED
  BY <1>1 DEF TypeInv, LinksOK, Loses, LostBy, Held, Using, Relinks, Keeps, HangsUp,
             Waiting, PacketsOK
-----------------------------------------------------------------------------
(* The order in which connections are used *)

\* The server's backlog is in the order of the connections' numbers, above
\* the one it uses.
BacklogInOrder ==
    \A i \in DOMAIN backlog :
        /\ backlog[i] \in 1 .. made
        /\ Using(Server) => link[Server] < backlog[i]
        /\ \A j \in DOMAIN backlog : i < j => backlog[i] < backlog[j]

Touched(e, c) == stream[c][e] # <<>> \/ read[c][Other(e)] > 0

\* An end comes to connections in that order: it has neither written to nor
\* read from one that is above the one it uses.
NewAreUntouched ==
    \A e \in Ends, c \in Connections : Touched(e, c) =>
        /\ c <= made
        /\ Using(e) => c <= link[e]
        /\ e = Server => \A i \in DOMAIN backlog : c < backlog[i]

LEMMA RelinksInOrder ==
    ASSUME TypeInv, BacklogInOrder, NewAreUntouched, Relinks
    PROVE  BacklogInOrder' /\ NewAreUntouched'
<1> USE DEF TypeInv, LinksOK
<1>1. \A e \in Ends, c \in Connections : Touched(e, c)' = Touched(e, c)
  BY DEF Relinks, Touched
<1>2. made \in Nat /\ \A c \in Connections : c \in Nat
  BY DEF Connections
<1>3. Len(backlog) \in Nat /\ DOMAIN backlog = 1 .. Len(backlog)
  OBVIOUS
<1>4. ASSUME backlog' = Append(backlog, made + 1)
      PROVE  /\ DOMAIN backlog' = 1 .. Len(backlog) + 1
             /\ \A i \in 1 .. Len(backlog) + 1 :
                   \/ i \in DOMAIN backlog /\ backlog'[i] = backlog[i]
                   \/ i = Len(backlog) + 1 /\ backlog'[i] = made + 1
  BY <1>3, <1>4
<1>5. CASE Keeps /\ Waiting
  <2>1. \A e \in Ends : Using(e)' => Using(e) /\ link'[e] = link[e]
    BY <1>5 DEF Keeps, Using
  <2>2. CASE made' = made /\ backlog' = backlog
    BY <1>1, <2>1, <2>2, EndFacts DEF BacklogInOrder, NewAreUntouched
  <2>3. CASE made' = made /\ backlog' = <<>>
    BY <1>1, <2>1, <2>3 DEF BacklogInOrder, NewAreUntouched
  <2>4. CASE made' = made + 1 /\ backlog' = Append(backlog, made + 1)
    <3>1. BacklogInOrder'
      BY <1>2, <1>3, <1>4, <2>1, <2>4, EndFacts DEF BacklogInOrder, Using
    <3>2. NewAreUntouched'
      <4> SUFFICES ASSUME NEW e \in Ends, NEW c \in Connections, Touched(e, c)'
                   PROVE  /\ c <= made'
                          /\ Using(e)' => c <= link'[e]
                          /\ e = Server => \A i \in DOMAIN backlog' : c < backlog'[i]
        BY DEF NewAreUntouched
      <4>1. Touched(e, c)
        BY <1>1
      <4>2. /\ c <= made
            /\ Using(e) => c <= link[e]
            /\ e = Server => \A i \in DOMAIN backlog : c < backlog[i]
        BY <4>1 DEF NewAreUntouched
      <4>3. c <= made' /\ c < made + 1 /\ (Using(e)' => c <= link'[e])
        BY <1>2, <2>1, <2>4, <4>2
      <4>4. e = Server => \A i \in DOMAIN backlog' : c < backlog'[i]
        BY <1>4, <2>4, <4>2, <4>3
      <4> QED
        BY <4>3, <4>4
    <3> QED
      BY <3>1, <3>2
  <2> QED
    BY <1>5, <2>2, <2>3, <2>4 DEF Waiting
<1>6. CASE /\ Uses(Client, made + 1)
           /\ made' = made + 1 /\ backlog' = Append(backlog, made + 1)
  <2>1. \A e \in Ends : Using(e)' =>
            \/ e = Client /\ link'[e] = made + 1
            \/ e # Client /\ Using(e) /\ link'[e] = link[e]
    BY <1>6 DEF Uses, Using
  <2>2. BacklogInOrder'
    BY <1>2, <1>3, <1>4, <1>6, <2>1, EndFacts DEF BacklogInOrder, Using
  <2>3. NewAreUntouched'
    <3> SUFFICES ASSUME NEW e \in Ends, NEW c \in Connections, Touched(e, c)'
                 PROVE  /\ c <= made'
                        /\ Using(e)' => c <= link'[e]
                        /\ e = Server => \A i \in DOMAIN backlog' : c < backlog'[i]
      BY DEF NewAreUntouched
    <3>1. Touched(e, c)
      BY <1>1
    <3>2. /\ c <= made
          /\ Using(e) => c <= link[e]
          /\ e = Server => \A i \in DOMAIN backlog : c < backlog[i]
      BY <3>1 DEF NewAreUntouched
    <3>3. c <= made' /\ c < made + 1 /\ (Using(e)' => c <= link'[e])
      BY <1>2, <1>6, <2>1, <3>2
    <3>4. e = Server => \A i \in DOMAIN backlog' : c < backlog'[i]
      BY <1>4, <1>6, <3>2, <3>3
    <3> QED
      BY <3>3, <3>4
  <2> QED
    BY <2>2, <2>3
<1>7. CASE /\ Uses(Server, Head(backlog)) /\ backlog # <<>>
           /\ made' = made /\ backlog' = Tail(backlog)
  <2>1. \A e \in Ends : Using(e)' =>
            \/ e = Server /\ link'[e] = Head(backlog)
            \/ e # Server /\ Using(e) /\ link'[e] = link[e]
    BY <1>7 DEF Uses, Using
  <2>2. /\ 1 \in DOMAIN backlog /\ Head(backlog) = backlog[1]
        /\ DOMAIN backlog' = 1 .. Len(backlog) - 1
        /\ \A i \in DOMAIN backlog' : i + 1 \in DOMAIN backlog /\ backlog'[i] = backlog[i + 1]
    BY <1>3, <1>7, TakenFromRange
  <2>3. BacklogInOrder'
    <3> SUFFICES ASSUME NEW i \in DOMAIN backlog'
                 PROVE  /\ backlog'[i] \in 1 .. made'
                        /\ Using(Server)' => link'[Server] < backlog'[i]
                        /\ \A j \in DOMAIN backlog' : i < j => backlog'[i] < backlog'[j]
      BY DEF BacklogInOrder
    <3>9. i + 1 \in DOMAIN backlog /\ backlog'[i] = backlog[i + 1] /\ 1 < i + 1
      BY <1>3, <2>2
    <3>1. backlog[i + 1] \in 1 .. made /\ backlog[1] < backlog[i + 1]
      BY <2>2, <3>9 DEF BacklogInOrder
    <3>2. Using(Server)' => link'[Server] < backlog'[i]
      BY <2>1, <2>2, <3>9, <3>1, EndFacts
    <3>3. ASSUME NEW j \in DOMAIN backlog', i < j PROVE backlog'[i] < backlog'[j]
      <4>1. j + 1 \in DOMAIN backlog /\ backlog'[j] = backlog[j + 1] /\ i + 1 < j + 1
        BY <1>3, <2>2, <3>3
      <4> QED
        BY <3>9, <4>1 DEF BacklogInOrder
    <3> QED
      BY <1>7, <3>9, <3>1, <3>2, <3>3
  <2>4. NewAreUntouched'
    BY <1>1, <1>2, <1>7, <2>1, <2>2, EndFacts DEF NewAreUntouched
  <2> QED
    BY <2>3, <2>4
<1> QED
  BY <1>5, <1>6, <1>7 DEF Relinks

-----------------------------------------------------------------------------
(* Frames in the streams *)

IsLast(u) == u.k = Body(u.n)

\* v may follow u in a stream.
Follows(u, v) == IF IsLast(u) THEN v.k = 0 ELSE v = Unit(u.n, u.k + 1)

StreamsFramed ==
    \A c \in Connections, e \in Ends :
        LET s == stream[c][e]
        IN  /\ read[c][e] <= Len(s)
            /\ \A i \in 1 .. Len(s) :
                  /\ s[i].k <= Body(s[i].n)
                  /\ i = 1 => s[i].k = 0
                  /\ i > 1 => Follows(s[i - 1], s[i])

\* Where e's frames end in the stream of connection c.
LastUnits(c, e) == {i \in 1 .. Len(stream[c][e]) : IsLast(stream[c][e][i])}

Written(c, n) == [on |-> c, n |-> n]
Whole(c, n) == [on |-> c, units |-> Frame(n)]

\* A packet counts as written when its last unit is, and only then;
WrittenAreInStreams ==
    \A e \in Ends : \A j \in DOMAIN written[e] :
        \E c \in Connections : \E i \in LastUnits(c, e) :
            written[e][j] = Written(c, stream[c][e][i].n)
StreamsAreWritten ==
    \A e \in Ends, c \in Connections : \A i \in LastUnits(c, e) :
        \E j \in DOMAIN written[e] : written[e][j] = Written(c, stream[c][e][i].n)

\* and as received when its last unit is read, and only then.
ReceivedAreRead ==
    \A e \in Ends : \A x \in DOMAIN received[e] :
        \E c \in Connections : \E i \in LastUnits(c, Other(e)) :
            /\ i <= read[c][Other(e)]
            /\ received[e][x] = Whole(c, stream[c][Other(e)][i].n)
ReadAreReceived ==
    \A e \in Ends, c \in Connections : \A i \in LastUnits(c, Other(e)) :
        i <= read[c][Other(e)] =>
            \E x \in DOMAIN received[e] :
                received[e][x] = Whole(c, stream[c][Other(e)][i].n)

\* Packets end in the streams in the order of their numbers,
StreamsGrow ==
    \A e \in Ends, c, d \in Connections :
        \A i \in LastUnits(c, e), j \in LastUnits(d, e) :
            c < d \/ (c = d /\ i < j) => stream[c][e][i].n < stream[d][e][j].n

\* and are received in that order.
ReceivedGrow ==
    \A e \in Ends : \A i, j \in DOMAIN received[e] :
        i < j => received[e][i].units[1].n < received[e][j].units[1].n

FramesInv ==
    /\ StreamsFramed /\ WrittenAreInStreams /\ StreamsAreWritten
    /\ ReceivedAreRead /\ ReadAreReceived /\ StreamsGrow /\ ReceivedGrow

At(e) == IF call[e].op = "flush" THEN call[e].at ELSE 0
Got(e) == IF call[e].op = "receive" THEN call[e].got ELSE <<>>

\* A flush stands within the frame of the packet at the head of the queue,
WriterAt(e) ==
    /\ call[e].op = "flush" => queue[e] # <<>>
    /\ ~Using(e) => At(e) = 0
    /\ Using(e) =>
          LET s == stream[link[e]][e]
          IN  IF At(e) = 0 THEN s # <<>> => IsLast(s[Len(s)])
              ELSE /\ s # <<>>
                   /\ At(e) <= Body(Head(queue[e]))
                   /\ s[Len(s)] = Unit(Head(queue[e]), At(e) - 1)

\* and a receive within the frame it has begun.
ReaderAt(e) ==
    /\ ~Using(e) => Got(e) = <<>>
    /\ Using(e) =>
          LET s == stream[link[e]][Other(e)]
              r == read[link[e]][Other(e)]
              g == Got(e)
          IN  IF g = <<>> THEN r > 0 => IsLast(s[r])
              ELSE /\ r > 0
                   /\ Len(g) <= Body(g[1].n)
                   /\ s[r] = Unit(g[1].n, Len(g) - 1)
                   /\ \A i \in 1 .. Len(g) : g[i] = Unit(g[1].n, i - 1)

CallsStand == \A e \in Ends : WriterAt(e) /\ ReaderAt(e)

\* A step that leaves the packets alone keeps what they satisfy.
LEMMA FramesStay ==
    ASSUME FramesInv, UNCHANGED <<stream, read, written, received>>
    PROVE  FramesInv'
  BY DEF FramesInv, StreamsFramed, WrittenAreInStreams, StreamsAreWritten,
         ReceivedAreRead, ReadAreReceived, StreamsGrow, ReceivedGrow, LastUnits

LEMMA RelinksKeeps ==
    ASSUME TypeInv, LinksOK', BacklogInOrder, NewAreUntouched, FramesInv, CallsStand,
           QueuedOrWritten, Relinks
    PROVE  PacketsOK' /\ FramesInv' /\ CallsStand' /\ QueuedOrWritten'
<1>1. UNCHANGED <<stream, read, queue, written, received, enqueued, cleared>>
  BY DEF Relinks
<1>2. \A e \in Ends : call'[e] \in {call[e], Idle}
  BY DEF Relinks
<1>3. PacketsOK'
  <2>1. call' \in [Ends -> Calls]
    BY DEF Relinks
  <2> QED
    BY <1>1, <2>1 DEF TypeInv, PacketsOK
<1>4. FramesInv'
  BY <1>1, FramesStay
<1>5. QueuedOrWritten'
  BY <1>1 DEF QueuedOrWritten, Handled
<1> SUFFICES ASSUME NEW e \in Ends PROVE WriterAt(e)' /\ ReaderAt(e)'
  BY <1>3, <1>4, <1>5 DEF CallsStand
<1>6. /\ call'[e].op = "flush" => call[e].op = "flush"
      /\ At(e)' \in {At(e), 0} /\ Got(e)' \in {Got(e), <<>>}
  BY <1>2 DEF At, Got, Idle
<1>7. WriterAt(e) /\ ReaderAt(e)
  BY DEF CallsStand
<1>8. CASE Using(e)' /\ Using(e) /\ link'[e] = link[e] /\ call'[e] = call[e]
  <2>1. At(e)' = At(e) /\ Got(e)' = Got(e)
    BY <1>8 DEF At, Got
  <2> QED
    BY <1>1, <1>7, <1>8, <2>1 DEF WriterAt, ReaderAt
<1>9. CASE ~Using(e)'
  <2>1. At(e)' = 0 /\ Got(e)' = <<>>
    <3>1. CASE call'[e] = Idle
      BY <3>1 DEF At, Got, Idle
    <3>2. CASE call'[e] # Idle /\ ~Using(e)
      BY <1>6, <1>7, <3>2 DEF WriterAt, ReaderAt
    <3>3. CASE call'[e] # Idle /\ Using(e)
      BY <1>9, <3>3 DEF Relinks, HangsUp, Using
    <3> QED
      BY <3>1, <3>2, <3>3
  <2> QED
    BY <1>1, <1>6, <1>7, <1>9, <2>1 DEF WriterAt, ReaderAt
<1>10. ASSUME ~Using(e), ~Touched(e, link'[e]), call'[e] = call[e], link'[e] \in Connections
       PROVE  WriterAt(e)' /\ ReaderAt(e)'
  <2>1. stream[link'[e]][e] = <<>> /\ ~(read[link'[e]][Other(e)] > 0)
    BY <1>10 DEF Touched
  <2>2. At(e)' = 0 /\ Got(e)' = <<>>
    BY <1>7, <1>10 DEF WriterAt, ReaderAt, At, Got
  <2> QED
    BY <1>1, <1>6, <1>7, <2>1, <2>2 DEF WriterAt, ReaderAt
<1>11. CASE Keeps
  BY <1>8, <1>9, <1>11 DEF Keeps, Using
<1>12. ASSUME NEW f \in Ends, NEW c \in Connections, Uses(f, c), ~Touched(f, c)
       PROVE  WriterAt(e)' /\ ReaderAt(e)'
  <2>1. CASE e = f
    <3>1. ~Using(e) /\ link'[e] = c /\ call'[e] = call[e]
      BY <1>12, <2>1 DEF Uses, Using, TypeInv, LinksOK
    <3> QED
      BY <1>10, <1>12, <2>1, <3>1
  <2>2. CASE e # f
    <3>1. Using(e)' = Using(e) /\ link'[e] = link[e] /\ call'[e] = call[e]
      BY <1>12, <2>2 DEF Uses, Using, TypeInv, LinksOK
    <3> QED
      BY <1>8, <1>9, <3>1
  <2> QED
    BY <2>1, <2>2
<1>13. CASE Uses(Client, made + 1) /\ made' = made + 1
  <2>1. made \in Nat /\ made + 1 \in Connections
    BY <1>13, NumberFacts DEF TypeInv, LinksOK, Connections
  <2>2. ~Touched(Client, made + 1)
    BY <2>1, EndFacts DEF NewAreUntouched
  <2> QED
    BY <1>12, <1>13, <2>1, <2>2, EndFacts
<1>14. CASE Uses(Server, Head(backlog)) /\ backlog # <<>>
  <2>1. Head(backlog) \in Connections /\ 1 \in DOMAIN backlog /\ Head(backlog) = backlog[1]
    BY <1>14, TakenFromRange DEF TypeInv, LinksOK
  <2>2. ~(backlog[1] < backlog[1])
    BY <2>1 DEF Connections
  <2>3. ~Touched(Server, Head(backlog))
    BY <2>1, <2>2, EndFacts DEF NewAreUntouched
  <2> QED
    BY <1>12, <1>14, <2>1, <2>3, EndFacts
<1> QED
  BY <1>11, <1>13, <1>14 DEF Relinks
-----------------------------------------------------------------------------
(* The queue, and what was taken from it *)

WrittenSeqs == Seq([on : Connections, n : Numbers])

\* Handled, for any written packets w and any queue q.
Joined(w, q) == [j \in DOMAIN w |-> w[j].n] \o q

Increasing(h) == \A i, j \in DOMAIN h : i < j => h[i] < h[j]

LEMMA JoinFacts ==
    ASSUME NEW w \in WrittenSeqs, NEW q \in Seq(Numbers)
    PROVE  /\ Len(w) \in Nat /\ Len(q) \in Nat
           /\ DOMAIN Joined(w, q) = 1 .. Len(w) + Len(q)
           /\ \A j \in 1 .. Len(w) : Joined(w, q)[j] = w[j].n
           /\ \A j \in 1 .. Len(q) : Joined(w, q)[Len(w) + j] = q[j]
           /\ Joined(w, q) \in Seq(Numbers)
           /\ Range(Joined(w, q)) =
                 {w[j].n : j \in 1 .. Len(w)} \cup {q[j] : j \in 1 .. Len(q)}
<1> DEFINE a == [j \in DOMAIN w |-> w[j].n]
<1>1. Len(w) \in Nat /\ Len(q) \in Nat /\ DOMAIN w = 1 .. Len(w) /\ DOMAIN q = 1 .. Len(q)
  BY DEF WrittenSeqs
<1>2. a \in Seq(Numbers) /\ Len(a) = Len(w) /\ \A j \in 1 .. Len(w) : a[j] = w[j].n
  <2>1. ASSUME NEW j \in 1 .. Len(w) PROVE w[j].n \in Numbers
    <3>1. w[j] \in [on : Connections, n : Numbers]
      BY <1>1, <2>1, ElementOfSeq DEF WrittenSeqs
    <3> QED
      BY <3>1
  <2>2. a \in [1 .. Len(w) -> Numbers]
    BY <1>1, <2>1
  <2>3. a \in Seq(Numbers)
    BY <1>1, <2>2, SeqDef
  <2> QED
    BY <1>1, <2>2, <2>3
<1> HIDE DEF a
<1>3. /\ a \o q \in Seq(Numbers) /\ Len(a \o q) = Len(w) + Len(q)
      /\ DOMAIN (a \o q) = 1 .. Len(w) + Len(q)
      /\ \A j \in 1 .. Len(w) : (a \o q)[j] = a[j]
      /\ \A j \in 1 .. Len(q) : (a \o q)[Len(w) + j] = q[j]
  <2>1. /\ a \o q \in Seq(Numbers) /\ Len(a \o q) = Len(w) + Len(q)
        /\ \A i \in 1 .. Len(w) + Len(q) :
              (a \o q)[i] = IF i <= Len(w) THEN a[i] ELSE q[i - Len(w)]
    <3>1. a \in Seq(Numbers)
      BY <1>2
    <3>2. /\ a \o q \in Seq(Numbers) /\ Len(a \o q) = Len(a) + Len(q)
          /\ \A i \in 1 .. Len(a) + Len(q) :
                (a \o q)[i] = IF i <= Len(a) THEN a[i] ELSE q[i - Len(a)]
      BY <3>1, ConcatProperties, Zenon
    <3> QED
      BY <1>2, <3>2
  <2>2. DOMAIN (a \o q) = 1 .. Len(w) + Len(q)
    BY <2>1
  <2>3. \A j \in 1 .. Len(w) : (a \o q)[j] = a[j]
    BY <1>1, <2>1
  <2>4. ASSUME NEW j \in 1 .. Len(q) PROVE (a \o q)[Len(w) + j] = q[j]
    <3>1. Len(w) + j \in 1 .. Len(w) + Len(q) /\ ~(Len(w) + j <= Len(w)) /\ Len(w) + j - Len(w) = j
      BY <1>1
    <3> QED
      BY <2>1, <3>1
  <2> QED
    BY <2>1, <2>2, <2>3, <2>4
<1>4. Joined(w, q) = a \o q
  BY DEF Joined, a
<1>5. Range(Joined(w, q)) \subseteq
          {w[j].n : j \in 1 .. Len(w)} \cup {q[j] : j \in 1 .. Len(q)}
  <2> SUFFICES ASSUME NEW i \in 1 .. Len(w) + Len(q)
               PROVE  (a \o q)[i] \in
                        {w[j].n : j \in 1 .. Len(w)} \cup {q[j] : j \in 1 .. Len(q)}
    BY <1>3, <1>4 DEF Range
  <2>1. \/ i \in 1 .. Len(w)
        \/ i - Len(w) \in 1 .. Len(q) /\ i = Len(w) + (i - Len(w))
    BY <1>1
  <2> QED
    BY <1>2, <1>3, <2>1
<1>6. {w[j].n : j \in 1 .. Len(w)} \cup {q[j] : j \in 1 .. Len(q)}
          \subseteq Range(Joined(w, q))
  <2>1. /\ \A j \in 1 .. Len(w) : j \in 1 .. Len(w) + Len(q)
        /\ \A j \in 1 .. Len(q) : Len(w) + j \in 1 .. Len(w) + Len(q)
    BY <1>1
  <2>2. ASSUME NEW j \in 1 .. Len(w) PROVE w[j].n \in Range(Joined(w, q))
    BY <1>2, <1>3, <1>4, <2>1 DEF Range
  <2>3. ASSUME NEW j \in 1 .. Len(q) PROVE q[j] \in Range(Joined(w, q))
    BY <1>3, <1>4, <2>1 DEF Range
  <2> QED
    BY <2>2, <2>3
<1> QED
  BY <1>1, <1>2, <1>3, <1>4, <1>5, <1>6

\* One more packet, above all the others, is queued.
LEMMA JoinMore ==
    ASSUME NEW w \in WrittenSeqs, NEW q \in Seq(Numbers), NEW x \in Numbers,
           Increasing(Joined(w, q)), \A y \in Range(Joined(w, q)) : y < x
    PROVE  /\ Increasing(Joined(w, Append(q, x)))
           /\ Range(Joined(w, Append(q, x))) = Range(Joined(w, q)) \cup {x}
<1> DEFINE p == Append(q, x)
           h == Joined(w, q)
           g == Joined(w, p)
           N == Len(w) + Len(q)
<1>1. /\ p \in Seq(Numbers) /\ Len(p) = Len(q) + 1 /\ Len(q) \in Nat /\ Len(w) \in Nat
      /\ \A j \in 1 .. Len(q) : p[j] = q[j]
      /\ p[Len(q) + 1] = x
  BY JoinFacts
<1> HIDE DEF p
<1>2. /\ DOMAIN g = 1 .. N + 1 /\ DOMAIN h = 1 .. N
      /\ g[N + 1] = x
  <2>1. DOMAIN h = 1 .. N
    BY JoinFacts
  <2>2. /\ DOMAIN g = 1 .. Len(w) + Len(p)
        /\ \A j \in 1 .. Len(p) : g[Len(w) + j] = p[j]
    BY <1>1, JoinFacts
  <2>3. Len(w) + Len(p) = N + 1 /\ Len(p) \in 1 .. Len(p)
    BY <1>1
  <2> QED
    BY <1>1, <2>1, <2>2, <2>3
<1>3. \A i \in 1 .. N : g[i] = h[i]
  <2> SUFFICES ASSUME NEW i \in 1 .. N PROVE g[i] = h[i]
    OBVIOUS
  <2>1. CASE i \in 1 .. Len(w)
    BY <1>1, <2>1, JoinFacts
  <2>2. CASE i \notin 1 .. Len(w)
    <3>1. i - Len(w) \in 1 .. Len(q) /\ i - Len(w) \in 1 .. Len(p) /\ i = Len(w) + (i - Len(w))
      BY <1>1, <2>2
    <3>2. g[Len(w) + (i - Len(w))] = p[i - Len(w)] /\ h[Len(w) + (i - Len(w))] = q[i - Len(w)]
      BY <1>1, <3>1, JoinFacts
    <3> QED
      BY <1>1, <3>1, <3>2
  <2> QED
    BY <2>1, <2>2
<1>4. \A i \in 1 .. N : h[i] \in Range(h)
  BY <1>2 DEF Range
<1> HIDE DEF h, g, N
<1>5. N \in Nat
  BY <1>1 DEF N
<1>6. Increasing(g)
  BY <1>2, <1>3, <1>4, <1>5 DEF Increasing, h
<1>7. Range(g) = Range(h) \cup {x}
  BY <1>2, <1>3, <1>5 DEF Range
<1> QED
  BY <1>6, <1>7 DEF g, h, p

\* What was written, without what still waits.
LEMMA JoinNone ==
    ASSUME NEW w \in WrittenSeqs, NEW q \in Seq(Numbers), Increasing(Joined(w, q))
    PROVE  /\ Increasing(Joined(w, <<>>))
           /\ Range(Joined(w, <<>>)) = Range(Joined(w, q)) \ Range(q)
<1> DEFINE h == Joined(w, q)
           g == Joined(w, <<>>)
<1> DEFINE none == <<>>
<1>1. none \in Seq(Numbers) /\ Len(none) = 0 /\ 1 .. 0 = {}
  OBVIOUS
<1>2. Len(w) \in Nat /\ Len(q) \in Nat /\ h \in Seq(Numbers)
  BY JoinFacts
<1> HIDE DEF none
<1>3. /\ DOMAIN g = 1 .. Len(w) + Len(none)
      /\ \A i \in 1 .. Len(w) : g[i] = w[i].n
      /\ Range(g) = {w[j].n : j \in 1 .. Len(w)} \cup {none[j] : j \in 1 .. Len(none)}
  <2>1. g = Joined(w, none)
    BY DEF none
  <2> HIDE DEF g
  <2> QED
    BY <1>1, <2>1, JoinFacts
<1>4. DOMAIN g = 1 .. Len(w) /\ Range(g) = {w[j].n : j \in 1 .. Len(w)}
  <2> HIDE DEF g
  <2> QED
    BY <1>1, <1>2, <1>3
<1>5. /\ DOMAIN h = 1 .. Len(w) + Len(q)
      /\ \A i \in 1 .. Len(w) : h[i] = w[i].n
      /\ \A i \in 1 .. Len(q) : h[Len(w) + i] = q[i]
      /\ Range(h) = {w[j].n : j \in 1 .. Len(w)} \cup {q[j] : j \in 1 .. Len(q)}
  BY JoinFacts
<1>6. Range(q) = {q[j] : j \in 1 .. Len(q)}
  BY DEF Range
<1>7. Increasing(h)
  OBVIOUS
<1> HIDE DEF h, g
<1>8. ASSUME NEW i \in 1 .. Len(w), NEW j \in 1 .. Len(q) PROVE w[i].n # q[j]
  <2>1. i \in DOMAIN h /\ Len(w) + j \in DOMAIN h /\ i < Len(w) + j
    BY <1>2, <1>5
  <2>2. h[i] < h[Len(w) + j]
    BY <1>7, <2>1 DEF Increasing
  <2>3. h[i] \in Numbers /\ h[Len(w) + j] \in Numbers
    BY <1>2, <2>1
  <2> QED
    BY <1>5, <2>2, <2>3, NumberFacts
<1>9. Range(g) = Range(h) \ Range(q)
  BY <1>4, <1>5, <1>6, <1>8
<1>10. Increasing(g)
  BY <1>2, <1>3, <1>4, <1>5, <1>7 DEF Increasing
<1> QED
  BY <1>9, <1>10 DEF g, h

\* The packet at the head of the queue becomes the last one written.
LEMMA JoinMove ==
    ASSUME NEW w \in WrittenSeqs, NEW q \in Seq(Numbers), q # <<>>,
           NEW c \in Connections
    PROVE  Joined(Append(w, Written(c, Head(q))), Tail(q)) = Joined(w, q)
<1> DEFINE v == Append(w, Written(c, Head(q)))
           h == Joined(w, q)
           g == Joined(v, Tail(q))
<1>1. /\ Tail(q) \in Seq(Numbers) /\ Len(q) \in Nat \ {0} /\ Len(Tail(q)) = Len(q) - 1
      /\ Head(q) = q[1] /\ Head(q) \in Numbers
      /\ \A i \in 1 .. Len(q) - 1 : Tail(q)[i] = q[i + 1]
  OBVIOUS
<1>2. /\ v \in WrittenSeqs /\ Len(v) = Len(w) + 1 /\ Len(w) \in Nat
      /\ \A i \in 1 .. Len(w) : v[i] = w[i]
      /\ v[Len(w) + 1].n = q[1]
  <2>1. Written(c, Head(q)) \in [on : Connections, n : Numbers] /\ Written(c, Head(q)).n = q[1]
    BY <1>1 DEF Written
  <2> QED
    BY <2>1 DEF WrittenSeqs
<1> HIDE DEF v
<1>3. /\ DOMAIN g = 1 .. Len(w) + Len(q) /\ DOMAIN h = 1 .. Len(w) + Len(q)
      /\ g \in Seq(Numbers) /\ h \in Seq(Numbers)
  <2>1. DOMAIN g = 1 .. Len(v) + Len(Tail(q)) /\ g \in Seq(Numbers)
    BY <1>1, <1>2, JoinFacts
  <2>2. Len(v) + Len(Tail(q)) = Len(w) + Len(q)
    BY <1>1, <1>2
  <2> QED
    BY <2>1, <2>2, JoinFacts
<1>4. ASSUME NEW i \in 1 .. Len(w) + Len(q) PROVE g[i] = h[i]
  <2>1. CASE i \in 1 .. Len(w)
    <3>1. i \in 1 .. Len(v)
      BY <1>2, <2>1
    <3>2. g[i] = v[i].n
      BY <1>1, <1>2, <3>1, JoinFacts
    <3>3. h[i] = w[i].n
      BY <2>1, JoinFacts
    <3> QED
      BY <1>2, <2>1, <3>2, <3>3
  <2>2. CASE i = Len(w) + 1
    <3>1. i \in 1 .. Len(v) /\ 1 \in 1 .. Len(q)
      BY <1>1, <1>2, <2>2
    <3>2. g[i] = v[i].n
      BY <1>1, <1>2, <3>1, JoinFacts
    <3>3. h[Len(w) + 1] = q[1]
      BY <3>1, JoinFacts
    <3> QED
      BY <1>2, <2>2, <3>2, <3>3
  <2>3. CASE i > Len(w) + 1
    <3>1. /\ i - Len(w) \in 1 .. Len(q) /\ i - Len(v) \in 1 .. Len(Tail(q))
          /\ i = Len(w) + (i - Len(w)) /\ i = Len(v) + (i - Len(v))
          /\ i - Len(v) \in 1 .. Len(q) - 1 /\ (i - Len(v)) + 1 = i - Len(w)
      BY <1>1, <1>2, <2>3
    <3>2. g[Len(v) + (i - Len(v))] = Tail(q)[i - Len(v)]
      BY <1>1, <1>2, <3>1, JoinFacts
    <3>3. h[Len(w) + (i - Len(w))] = q[i - Len(w)]
      BY <3>1, JoinFacts
    <3> QED
      BY <1>1, <3>1, <3>2, <3>3
  <2> QED
    BY <1>1, <1>2, <2>1, <2>2, <2>3
<1> HIDE DEF g, h
<1>5. g = h
  BY <1>3, <1>4
<1> QED
  BY <1>5 DEF g, h, v
-----------------------------------------------------------------------------
(* Steps that touch the packets: those of the queue *)

Stays == UNCHANGED <<state, link, made, backlog, open, failures>>

LEMMA StaysKeeps ==
    ASSUME TypeInv, BacklogInOrder, Stays
    PROVE  LinksOK' /\ Loses /\ BacklogInOrder' /\ \A e \in Ends : Using(e)' = Using(e)
  BY DEF TypeInv, LinksOK, BacklogInOrder, Stays, Loses, LostBy, Held, Using

\* Only what was queued can be cleared.
ClearedWereQueued == \A e \in Ends : cleared[e] \subseteq 1 .. enqueued[e]

HandledOf(e) == Joined(written[e], queue[e])

LEMMA HandledIs ==
    QueuedOrWritten <=> \A e \in Ends :
        /\ Range(HandledOf(e)) = (1 .. enqueued[e]) \ cleared[e]
        /\ Increasing(HandledOf(e))
  BY DEF QueuedOrWritten, Handled, HandledOf, Joined, Increasing

LEMMA EnqueueStep ==
    ASSUME TypeInv, NewAreUntouched, FramesInv, CallsStand, QueuedOrWritten,
           ClearedWereQueued, NEW e \in Ends, Enqueue(e)
    PROVE  /\ Stays /\ PacketsOK' /\ NewAreUntouched' /\ FramesInv' /\ CallsStand'
           /\ ClearedWereQueued' /\ QueuedOrWritten'
<1> USE DEF TypeInv, PacketsOK
<1> DEFINE x == enqueued[e] + 1
<1>1. /\ Stays /\ UNCHANGED <<stream, read, call, written, received, cleared>>
      /\ call[e] = Idle /\ enqueued[e] < MaxPackets(e)
      /\ queue' = [queue EXCEPT ![e] = Append(queue[e], x)]
      /\ enqueued' = [enqueued EXCEPT ![e] = x]
  BY DEF Enqueue, Stays, adapter, sockets, pipe
<1>2. x \in Nat /\ x \in Numbers
  <2>1. x \in 1 .. MaxPackets(e)
    BY <1>1, TcpAssumption
  <2> QED
    BY <2>1, NumberFacts
<1>3. PacketsOK'
  <2>1. queue' \in [Ends -> Seq(Numbers)]
    BY <1>1, <1>2
  <2>2. enqueued' \in [Ends -> Nat]
    BY <1>1, <1>2
  <2> QED
    BY <1>1, <2>1, <2>2
<1>4. NewAreUntouched' /\ FramesInv'
  BY <1>1, FramesStay DEF Stays, NewAreUntouched, Touched, Using
<1>5. CallsStand'
  <2> SUFFICES ASSUME NEW f \in Ends PROVE WriterAt(f)' /\ ReaderAt(f)'
    BY DEF CallsStand
  <2>1. WriterAt(f) /\ ReaderAt(f) /\ At(f)' = At(f) /\ Got(f)' = Got(f) /\ Using(f)' = Using(f)
    BY <1>1 DEF CallsStand, At, Got, Using, Stays
  <2>2. CASE f = e
    <3>1. call[e].op = "none" /\ At(e) = 0
      BY <1>1 DEF Idle, At
    <3> QED
      BY <1>1, <2>1, <2>2, <3>1 DEF WriterAt, ReaderAt, Stays
  <2>3. CASE f # e
    BY <1>1, <2>1, <2>3 DEF WriterAt, ReaderAt, Stays
  <2> QED
    BY <2>2, <2>3
<1>6. ClearedWereQueued'
  BY <1>1, <1>2 DEF ClearedWereQueued
<1>7. QueuedOrWritten'
  <2> SUFFICES ASSUME NEW f \in Ends
               PROVE  /\ Range(HandledOf(f)') = (1 .. enqueued'[f]) \ cleared'[f]
                      /\ Increasing(HandledOf(f)')
    BY DEF QueuedOrWritten, Handled, HandledOf, Joined, Increasing
  <2>1. /\ Range(HandledOf(f)) = (1 .. enqueued[f]) \ cleared[f]
        /\ Increasing(HandledOf(f))
    BY HandledIs
  <2>2. CASE f # e
    BY <1>1, <2>1, <2>2 DEF HandledOf
  <2>3. CASE f = e
    <3>1. HandledOf(e)' = Joined(written[e], Append(queue[e], x))
      BY <1>1 DEF HandledOf
    <3>2. \A y \in Range(HandledOf(e)) : y < x
      BY <1>2, <2>1, <2>3
    <3>3. written[e] \in WrittenSeqs
      BY DEF WrittenSeqs
    <3>4. /\ Increasing(HandledOf(e)')
          /\ Range(HandledOf(e)') = Range(HandledOf(e)) \cup {x}
      <4>1. queue[e] \in Seq(Numbers)
        OBVIOUS
      <4>2. Increasing(Joined(written[e], queue[e]))
        BY <2>1, <2>3 DEF HandledOf
      <4>3. \A y \in Range(Joined(written[e], queue[e])) : y < x
        BY <3>2 DEF HandledOf
      <4> HIDE DEF x
      <4> QED
        BY <1>2, <3>1, <3>3, <4>1, <4>2, <4>3, JoinMore DEF HandledOf
    <3>5. (1 .. enqueued'[e]) \ cleared'[e] = ((1 .. enqueued[e]) \ cleared[e]) \cup {x}
      <4>1. cleared'[e] = cleared[e] /\ enqueued'[e] = x /\ enqueued[e] \in Nat
        BY <1>1
      <4>2. 1 .. x = (1 .. enqueued[e]) \cup {x} /\ x \notin 1 .. enqueued[e]
        BY <4>1
      <4>3. x \notin cleared[e]
        BY <4>2 DEF ClearedWereQueued
      <4> QED
        BY <4>1, <4>2, <4>3
    <3> QED
      BY <2>1, <2>3, <3>4, <3>5
  <2> QED
    BY <2>2, <2>3
<1> QED
  BY <1>1, <1>3, <1>4, <1>5, <1>6, <1>7
LEMMA ClearStep ==
    ASSUME TypeInv, NewAreUntouched, FramesInv, CallsStand, QueuedOrWritten,
           ClearedWereQueued, NEW e \in Ends, Clear(e)
    PROVE  /\ Stays /\ PacketsOK' /\ NewAreUntouched' /\ FramesInv' /\ CallsStand'
           /\ ClearedWereQueued' /\ QueuedOrWritten'
<1> USE DEF TypeInv, PacketsOK
<1>1. /\ Stays /\ UNCHANGED <<stream, read, call, written, received, enqueued>>
      /\ call[e] = Idle
      /\ queue' = [queue EXCEPT ![e] = <<>>]
      /\ cleared' = [cleared EXCEPT ![e] = cleared[e] \cup Range(queue[e])]
  BY DEF Clear, Stays, adapter, sockets, pipe
<1>2. ASSUME NEW f \in Ends
      PROVE  /\ Range(HandledOf(f)) = (1 .. enqueued[f]) \ cleared[f]
             /\ Increasing(HandledOf(f))
             /\ written[f] \in WrittenSeqs /\ queue[f] \in Seq(Numbers)
             /\ Range(queue[f]) \subseteq Range(HandledOf(f))
  <2>1. written[f] \in WrittenSeqs /\ queue[f] \in Seq(Numbers)
    BY DEF WrittenSeqs
  <2>2. Range(queue[f]) \subseteq Range(HandledOf(f))
    <3>1. Range(HandledOf(f)) = {written[f][j].n : j \in 1 .. Len(written[f])}
                                  \cup {queue[f][j] : j \in 1 .. Len(queue[f])}
      BY <2>1, JoinFacts DEF HandledOf
    <3>2. Range(queue[f]) = {queue[f][j] : j \in 1 .. Len(queue[f])}
      BY <2>1 DEF Range
    <3> QED
      BY <3>1, <3>2
  <2> QED
    BY <2>1, <2>2, HandledIs
<1>3. Range(queue[e]) \subseteq 1 .. enqueued[e]
  BY <1>2
<1>4. PacketsOK'
  <2>1. queue' \in [Ends -> Seq(Numbers)]
    BY <1>1
  <2>2. cleared' \in [Ends -> SUBSET Nat]
    BY <1>1, <1>3
  <2> QED
    BY <1>1, <2>1, <2>2
<1>5. NewAreUntouched' /\ FramesInv'
  BY <1>1, FramesStay DEF Stays, NewAreUntouched, Touched, Using
<1>6. CallsStand'
  <2> SUFFICES ASSUME NEW f \in Ends PROVE WriterAt(f)' /\ ReaderAt(f)'
    BY DEF CallsStand
  <2>1. WriterAt(f) /\ ReaderAt(f) /\ At(f)' = At(f) /\ Got(f)' = Got(f) /\ Using(f)' = Using(f)
    BY <1>1 DEF CallsStand, At, Got, Using, Stays
  <2>2. CASE f = e
    <3>1. call[e].op = "none" /\ At(e) = 0
      BY <1>1 DEF Idle, At
    <3> QED
      BY <1>1, <2>1, <2>2, <3>1 DEF WriterAt, ReaderAt, Stays
  <2>3. CASE f # e
    BY <1>1, <2>1, <2>3 DEF WriterAt, ReaderAt, Stays
  <2> QED
    BY <2>2, <2>3
<1>7. ClearedWereQueued'
  BY <1>1, <1>3 DEF ClearedWereQueued
<1>8. QueuedOrWritten'
  <2> SUFFICES ASSUME NEW f \in Ends
               PROVE  /\ Range(HandledOf(f)') = (1 .. enqueued'[f]) \ cleared'[f]
                      /\ Increasing(HandledOf(f)')
    BY DEF QueuedOrWritten, Handled, HandledOf, Joined, Increasing
  <2>1. CASE f # e
    BY <1>1, <1>2, <2>1 DEF HandledOf
  <2>2. CASE f = e
    <3>1. HandledOf(e)' = Joined(written[e], <<>>)
      BY <1>1 DEF HandledOf
    <3>2. /\ Increasing(HandledOf(e)')
          /\ Range(HandledOf(e)') = Range(HandledOf(e)) \ Range(queue[e])
      BY <1>2, <3>1, JoinNone DEF HandledOf
    <3>3. cleared'[e] = cleared[e] \cup Range(queue[e]) /\ enqueued'[e] = enqueued[e]
      BY <1>1
    <3> QED
      BY <1>2, <2>2, <3>2, <3>3
  <2> QED
    BY <2>1, <2>2
<1> QED
  BY <1>1, <1>4, <1>5, <1>6, <1>7, <1>8

\* A flush or a receive begins.
LEMMA BeginStep ==
    ASSUME TypeInv, NewAreUntouched, FramesInv, CallsStand, QueuedOrWritten,
           ClearedWereQueued, NEW e \in Ends, Flush(e) \/ Receive(e)
    PROVE  /\ Stays /\ PacketsOK' /\ NewAreUntouched' /\ FramesInv' /\ CallsStand'
           /\ ClearedWereQueued' /\ QueuedOrWritten'
<1>1. /\ Stays /\ UNCHANGED <<stream, read, queue, written, received, enqueued, cleared>>
      /\ call[e] = Idle
      /\ \/ queue[e] # <<>> /\ call' = [call EXCEPT ![e] = Flushing(0)]
         \/ call' = [call EXCEPT ![e] = Receiving(<<>>)]
  BY DEF Flush, Receive, Begin, Stays, adapter, sockets, pipe, history, queued
<1>2. PacketsOK'
  <2>1. Flushing(0) \in Calls /\ Receiving(<<>>) \in Calls
    <3>1. 0 \in Nat /\ <<>> \in Seq(Units)
      OBVIOUS
    <3> QED
      BY <3>1, Zenon DEF Calls
  <2> QED
    BY <1>1, <2>1 DEF TypeInv, PacketsOK
<1>3. NewAreUntouched' /\ FramesInv'
  BY <1>1, FramesStay DEF Stays, NewAreUntouched, Touched, Using
<1>4. CallsStand'
  <2> SUFFICES ASSUME NEW f \in Ends PROVE WriterAt(f)' /\ ReaderAt(f)'
    BY DEF CallsStand
  <2>1. WriterAt(f) /\ ReaderAt(f) /\ Using(f)' = Using(f)
    BY <1>1 DEF CallsStand, Using, Stays
  <2>2. /\ At(f)' = At(f) /\ Got(f)' = Got(f)
        /\ call'[f].op = "flush" => queue[f] # <<>>
    <3>1. CASE f = e
      BY <1>1, <3>1 DEF At, Got, Idle, Flushing, Receiving, TypeInv, PacketsOK
    <3>2. CASE f # e
      BY <1>1, <2>1, <3>2 DEF At, Got, TypeInv, PacketsOK, WriterAt
    <3> QED
      BY <3>1, <3>2
  <2> QED
    BY <1>1, <2>1, <2>2 DEF WriterAt, ReaderAt, Stays
<1>5. ClearedWereQueued'
  BY <1>1 DEF ClearedWereQueued
<1>6. QueuedOrWritten'
  <2>1. \A f \in Ends : Handled(f)' = Handled(f)
    BY <1>1 DEF Handled
  <2> QED
    BY <1>1, <2>1 DEF QueuedOrWritten
<1> QED
  BY <1>1, <1>2, <1>3, <1>4, <1>5, <1>6
-----------------------------------------------------------------------------
(* Writing *)

\* Unit u is added to what e wrote to connection c, and nothing else changes.
Grown(c, e, u) ==
    /\ Len(stream[c][e]) \in Nat
    /\ Len(stream'[c][e]) = Len(stream[c][e]) + 1
    /\ stream'[c][e][Len(stream[c][e]) + 1] = u
    /\ \A d \in Connections, f \in Ends :
          /\ d # c \/ f # e => stream'[d][f] = stream[d][f]
          /\ \A i \in 1 .. Len(stream[d][f]) :
                i \in 1 .. Len(stream'[d][f]) /\ stream'[d][f][i] = stream[d][f][i]
          /\ \A i \in 1 .. Len(stream'[d][f]) :
                \/ i \in 1 .. Len(stream[d][f])
                \/ d = c /\ f = e /\ i = Len(stream[c][e]) + 1

LEMMA StreamGrows ==
    ASSUME PacketsOK, NEW c \in Connections, NEW e \in Ends, NEW u \in Units,
           stream' = [stream EXCEPT ![c][e] = Append(stream[c][e], u)]
    PROVE  stream' \in [Connections -> [Ends -> Seq(Units)]] /\ Grown(c, e, u)
<1> DEFINE s == stream[c][e]
           t == Append(s, u)
<1>1. stream \in [Connections -> [Ends -> Seq(Units)]] /\ s \in Seq(Units)
  BY DEF PacketsOK
<1>2. /\ t \in Seq(Units) /\ Len(s) \in Nat /\ Len(t) = Len(s) + 1
      /\ \A i \in 1 .. Len(s) : t[i] = s[i]
      /\ t[Len(s) + 1] = u
  BY <1>1
<1> HIDE DEF t
<1>3. /\ stream' \in [Connections -> [Ends -> Seq(Units)]]
      /\ stream'[c][e] = t
      /\ \A d \in Connections, f \in Ends : d # c \/ f # e => stream'[d][f] = stream[d][f]
  BY <1>1, <1>2 DEF t
<1>4. ASSUME NEW d \in Connections, NEW f \in Ends
      PROVE  /\ \A i \in 1 .. Len(stream[d][f]) :
                   i \in 1 .. Len(stream'[d][f]) /\ stream'[d][f][i] = stream[d][f][i]
             /\ \A i \in 1 .. Len(stream'[d][f]) :
                   \/ i \in 1 .. Len(stream[d][f])
                   \/ d = c /\ f = e /\ i = Len(stream[c][e]) + 1
  <2>1. CASE d = c /\ f = e
    BY <1>2, <1>3, <2>1
  <2>2. CASE d # c \/ f # e
    BY <1>3, <2>2
  <2> QED
    BY <2>1, <2>2
<1> QED
  BY <1>2, <1>3, <1>4 DEF Grown

\* What one written unit is: the next one of the frame in progress.
Writes(e, c, n, k) ==
    /\ Using(e) /\ c = link[e] /\ c \in Connections
    /\ call[e].op = "flush" /\ k = call[e].at /\ k \in Nat /\ k <= Body(n) /\ At(e) = k
    /\ Got(e) = <<>>
    /\ queue[e] # <<>> /\ n = Head(queue[e]) /\ n \in Numbers /\ Unit(n, k) \in Units
    /\ stream' = [stream EXCEPT ![c][e] = Append(stream[c][e], Unit(n, k))]
    /\ Stays /\ UNCHANGED <<read, received, enqueued, cleared>>
    /\ \/ /\ k < Body(n)
          /\ call' = [call EXCEPT ![e] = Flushing(k + 1)]
          /\ UNCHANGED <<queue, written>>
       \/ /\ k = Body(n)
          /\ queue' = [queue EXCEPT ![e] = Tail(queue[e])]
          /\ written' = [written EXCEPT ![e] = Append(written[e], Written(c, n))]
          /\ call' = [call EXCEPT ![e] =
                            IF Len(queue[e]) = 1 THEN Idle ELSE Flushing(0)]

LEMMA WriteUnitIs ==
    ASSUME TypeInv, CallsStand, NEW e \in Ends, WriteUnit(e)
    PROVE  \E c, n, k : Writes(e, c, n, k)
<1> DEFINE c == link[e]
           n == Head(queue[e])
           k == call[e].at
<1> USE DEF TypeInv, LinksOK, PacketsOK
<1>1. Using(e) /\ call[e].op = "flush" /\ c \in Connections
  BY NumberFacts DEF WriteUnit, Running, Using, Connections
<1>2. WriterAt(e)
  BY DEF CallsStand
<1>3. queue[e] # <<>> /\ n \in Numbers /\ Body(n) \in Nat
  BY <1>1, <1>2, NumberFacts DEF WriterAt
<1>4. k \in Nat /\ At(e) = k /\ Got(e) = <<>>
  BY <1>1, CallKinds DEF At, Got, Idle
<1>5. k <= Body(n)
  BY <1>1, <1>2, <1>3, <1>4 DEF WriterAt
<1>6. Unit(n, k) \in Units
  BY <1>3, <1>4 DEF Unit, Units
<1>7. /\ stream' = [stream EXCEPT ![c][e] = Append(stream[c][e], Unit(n, k))]
      /\ Stays /\ UNCHANGED <<read, received, enqueued, cleared>>
  BY DEF WriteUnit, Stays, adapter, sockets, history, queued
<1>8. \/ /\ k < Body(n)
         /\ call' = [call EXCEPT ![e] = Flushing(k + 1)]
         /\ UNCHANGED <<queue, written>>
      \/ /\ k = Body(n)
         /\ queue' = [queue EXCEPT ![e] = Tail(queue[e])]
         /\ written' = [written EXCEPT ![e] = Append(written[e], Written(c, n))]
         /\ call' = [call EXCEPT ![e] =
                           IF Len(queue[e]) = 1 THEN Idle ELSE Flushing(0)]
  BY DEF WriteUnit, LastUnit, Written
<1>9. Writes(e, c, n, k)
  BY <1>1, <1>3, <1>4, <1>5, <1>6, <1>7, <1>8 DEF Writes
<1> QED
  BY <1>9

LEMMA WriteTypes ==
    ASSUME TypeInv, NEW e \in Ends, NEW c, NEW n, NEW k, Writes(e, c, n, k)
    PROVE  PacketsOK'
<1> USE DEF TypeInv, PacketsOK
<1>1. stream' \in [Connections -> [Ends -> Seq(Units)]]
  BY StreamGrows DEF Writes
<1>2. call' \in [Ends -> Calls]
  <2>1. Flushing(k + 1) \in Calls /\ Flushing(0) \in Calls /\ Idle \in Calls
    <3>1. 0 \in Nat /\ k + 1 \in Nat
      BY DEF Writes
    <3> QED
      BY <3>1, Zenon DEF Calls
  <2> QED
    BY <2>1 DEF Writes
<1>3. queue' \in [Ends -> Seq(Numbers)]
  <2>1. Tail(queue[e]) \in Seq(Numbers)
    BY DEF Writes
  <2> QED
    BY <2>1 DEF Writes
<1>4. written' \in [Ends -> Seq([on : Connections, n : Numbers])]
  <2>1. Written(c, n) \in [on : Connections, n : Numbers]
    BY DEF Writes, Written
  <2>2. Append(written[e], Written(c, n)) \in Seq([on : Connections, n : Numbers])
    <3>1. written[e] \in Seq([on : Connections, n : Numbers])
      OBVIOUS
    <3> QED
      BY <2>1, <3>1, AppendProperties
  <2> QED
    BY <2>2 DEF Writes
<1> QED
  BY <1>1, <1>2, <1>3, <1>4 DEF Writes

\* What is still queued has a higher number than all that was written.
LEMMA QueueAbove ==
    ASSUME TypeInv, QueuedOrWritten, NEW e \in Ends, queue[e] # <<>>,
           NEW j \in DOMAIN written[e]
    PROVE  written[e][j].n < Head(queue[e])
<1>1. written[e] \in WrittenSeqs /\ queue[e] \in Seq(Numbers)
  BY DEF TypeInv, PacketsOK, WrittenSeqs
<1>2. DOMAIN written[e] = 1 .. Len(written[e]) /\ Len(queue[e]) >= 1 /\ Head(queue[e]) = queue[e][1]
  BY <1>1 DEF WrittenSeqs
<1>3. Increasing(HandledOf(e))
  BY HandledIs
<1>4. /\ \A i \in 1 .. Len(written[e]) : HandledOf(e)[i] = written[e][i].n
      /\ \A i \in 1 .. Len(queue[e]) : HandledOf(e)[Len(written[e]) + i] = queue[e][i]
      /\ DOMAIN HandledOf(e) = 1 .. Len(written[e]) + Len(queue[e])
      /\ Len(written[e]) \in Nat /\ Len(queue[e]) \in Nat
  BY <1>1, JoinFacts DEF HandledOf
<1>5. /\ j \in 1 .. Len(written[e]) /\ 1 \in 1 .. Len(queue[e])
      /\ j \in DOMAIN HandledOf(e) /\ Len(written[e]) + 1 \in DOMAIN HandledOf(e)
      /\ j < Len(written[e]) + 1
  <2> DEFINE lw == Len(written[e])
             lq == Len(queue[e])
  <2>1. j \in 1 .. lw /\ lw \in Nat /\ lq \in Nat /\ lq >= 1
    BY <1>2, <1>4
  <2>2. DOMAIN HandledOf(e) = 1 .. lw + lq
    BY <1>4
  <2> HIDE DEF lw, lq
  <2>3. 1 \in 1 .. lq /\ j \in 1 .. lw + lq /\ lw + 1 \in 1 .. lw + lq /\ j < lw + 1
    BY <2>1
  <2> QED
    BY <2>1, <2>2, <2>3 DEF lw, lq
<1>6. HandledOf(e)[j] < HandledOf(e)[Len(written[e]) + 1]
  BY <1>3, <1>5 DEF Increasing
<1> QED
  BY <1>2, <1>4, <1>5, <1>6
LEMMA WriteFrames ==
    ASSUME TypeInv, BacklogInOrder, NewAreUntouched, CallsStand, StreamsFramed,
           NEW e \in Ends, NEW c, NEW n, NEW k, Writes(e, c, n, k)
    PROVE  NewAreUntouched' /\ StreamsFramed'
<1> DEFINE u == Unit(n, k)
           L == Len(stream[c][e])
<1>1. /\ Using(e) /\ c = link[e] /\ c \in Connections /\ u \in Units /\ At(e) = k /\ k \in Nat
      /\ stream' = [stream EXCEPT ![c][e] = Append(stream[c][e], u)]
      /\ Stays /\ read' = read /\ k <= Body(n) /\ n = Head(queue[e])
      /\ n \in Numbers /\ Body(n) \in Nat
  BY NumberFacts DEF Writes
<1>2. u.n = n /\ u.k = k
  BY DEF Unit
<1> HIDE DEF u
<1>3. /\ L \in Nat /\ Len(stream'[c][e]) = L + 1 /\ stream'[c][e][L + 1] = u
      /\ \A d \in Connections, f \in Ends :
            /\ d # c \/ f # e => stream'[d][f] = stream[d][f]
            /\ \A i \in 1 .. Len(stream[d][f]) :
                  i \in 1 .. Len(stream'[d][f]) /\ stream'[d][f][i] = stream[d][f][i]
            /\ \A i \in 1 .. Len(stream'[d][f]) :
                  \/ i \in 1 .. Len(stream[d][f])
                  \/ d = c /\ f = e /\ i = L + 1
  <2>1. PacketsOK
    BY DEF TypeInv
  <2>2. Grown(c, e, u)
    BY <1>1, <2>1, StreamGrows
  <2> QED
    BY <2>2 DEF Grown
<1>4. NewAreUntouched'
  <2> SUFFICES ASSUME NEW f \in Ends, NEW d \in Connections, Touched(f, d)'
               PROVE  /\ d <= made'
                      /\ Using(f)' => d <= link'[f]
                      /\ f = Server => \A i \in DOMAIN backlog' : d < backlog'[i]
    BY DEF NewAreUntouched
  <2>1. CASE d = c /\ f = e
    BY <1>1, <2>1 DEF Stays, BacklogInOrder, TypeInv, LinksOK, Using, Connections
  <2>2. CASE d # c \/ f # e
    <3>1. Touched(f, d)
      BY <1>1, <1>3, <2>2 DEF Touched
    <3> QED
      BY <1>1, <3>1 DEF Stays, NewAreUntouched, Using
  <2> QED
    BY <2>1, <2>2
<1>5. WriterAt(e)
  BY DEF CallsStand
<1>6. StreamsFramed'
  <2> SUFFICES ASSUME NEW d \in Connections, NEW f \in Ends
               PROVE  /\ read'[d][f] <= Len(stream'[d][f])
                      /\ \A i \in 1 .. Len(stream'[d][f]) :
                            /\ stream'[d][f][i].k <= Body(stream'[d][f][i].n)
                            /\ i = 1 => stream'[d][f][i].k = 0
                            /\ i > 1 => Follows(stream'[d][f][i - 1], stream'[d][f][i])
    BY DEF StreamsFramed, Follows, IsLast
  <2>1. CASE d # c \/ f # e
    BY <1>1, <1>3, <2>1 DEF StreamsFramed
  <2>2. CASE d = c /\ f = e
    <3>1. read'[c][e] <= Len(stream'[c][e])
      <4>1. read[c][e] <= L /\ read[c][e] \in Nat
        BY <1>1 DEF StreamsFramed, TypeInv, PacketsOK
      <4> QED
        BY <1>1, <1>3, <4>1
    <3>2. ASSUME NEW i \in 1 .. L
          PROVE  /\ stream'[c][e][i].k <= Body(stream'[c][e][i].n)
                 /\ i = 1 => stream'[c][e][i].k = 0
                 /\ i > 1 => Follows(stream'[c][e][i - 1], stream'[c][e][i])
      <4>1. /\ stream[c][e][i].k <= Body(stream[c][e][i].n)
            /\ i = 1 => stream[c][e][i].k = 0
            /\ i > 1 => Follows(stream[c][e][i - 1], stream[c][e][i])
        BY <1>1 DEF StreamsFramed
      <4>2. i > 1 => i - 1 \in 1 .. L
        BY <1>3
      <4> QED
        BY <1>1, <1>3, <4>1, <4>2
    <3>3. u.k <= Body(u.n)
      BY <1>1, <1>2
    <3>4. CASE L = 0
      <4>1. stream[c][e] = <<>>
        BY <1>1, <3>4 DEF TypeInv, PacketsOK
      <4>2. k = 0
        BY <1>1, <1>5, <4>1 DEF WriterAt
      <4> QED
        BY <1>2, <1>3, <2>2, <3>1, <3>3, <3>4, <4>2
    <3>5. CASE L > 0
      <4>1. stream[c][e] # <<>>
        BY <1>1, <3>5, SMTT(30) DEF TypeInv, PacketsOK
      <4>2. Follows(stream[c][e][L], u)
        <5>1. CASE k = 0
          BY <1>1, <1>2, <1>5, <4>1, <5>1 DEF WriterAt, Follows
        <5>2. CASE k # 0
          <6>1. stream[c][e][L] = Unit(n, k - 1)
            BY <1>1, <1>5, <4>1, <5>2 DEF WriterAt
          <6>2. ~IsLast(Unit(n, k - 1)) /\ Unit(n, k - 1).n = n /\ Unit(n, k - 1).k + 1 = k
            BY <1>1 DEF IsLast, Unit
          <6> QED
            BY <6>1, <6>2 DEF Follows, u
        <5> QED
          BY <5>1, <5>2
      <4>3. stream'[c][e][L] = stream[c][e][L] /\ L = L + 1 - 1 /\ L + 1 > 1
        BY <1>1, <1>3, <3>5
      <4> QED
        BY <1>3, <2>2, <3>1, <3>2, <3>3, <4>2, <4>3, SMTT(30)
    <3> QED
      BY <1>3, <3>4, <3>5
  <2> QED
    BY <2>1, <2>2
<1> QED
  BY <1>4, <1>6
\* The last units before and after: the new one may be one more.
LEMMA LastUnitsGrow ==
    ASSUME PacketsOK, NEW c \in Connections, NEW e \in Ends, NEW u \in Units,
           Grown(c, e, u), NEW d \in Connections, NEW f \in Ends
    PROVE  /\ \A i \in LastUnits(d, f) :
                 i \in LastUnits(d, f)' /\ stream'[d][f][i] = stream[d][f][i]
           /\ \A i \in LastUnits(d, f)' :
                 \/ i \in LastUnits(d, f) /\ stream'[d][f][i] = stream[d][f][i]
                 \/ /\ d = c /\ f = e /\ i = Len(stream[c][e]) + 1
                    /\ stream'[d][f][i] = u /\ IsLast(u)
           /\ IsLast(u) => Len(stream[c][e]) + 1 \in LastUnits(c, e)'
<1>1. ASSUME NEW i \in LastUnits(d, f)
      PROVE  i \in LastUnits(d, f)' /\ stream'[d][f][i] = stream[d][f][i]
  BY DEF Grown, LastUnits
<1>2. ASSUME NEW i \in LastUnits(d, f)'
      PROVE  \/ i \in LastUnits(d, f) /\ stream'[d][f][i] = stream[d][f][i]
             \/ /\ d = c /\ f = e /\ i = Len(stream[c][e]) + 1
                /\ stream'[d][f][i] = u /\ IsLast(u)
  BY DEF Grown, LastUnits
<1>3. IsLast(u) => Len(stream[c][e]) + 1 \in LastUnits(c, e)'
  BY DEF Grown, LastUnits
<1> QED
  BY <1>1, <1>2, <1>3

\* The history after a write, in terms of the one before it.
LEMMA WriteShape ==
    ASSUME TypeInv, NEW e \in Ends, NEW c, NEW n, NEW k, Writes(e, c, n, k)
    PROVE  /\ c \in Connections /\ Unit(n, k) \in Units /\ Grown(c, e, Unit(n, k))
           /\ Unit(n, k).n = n /\ (IsLast(Unit(n, k)) <=> k = Body(n))
           /\ \A f \in Ends : \A j \in DOMAIN written[f] :
                 j \in DOMAIN written'[f] /\ written'[f][j] = written[f][j]
           /\ \A f \in Ends : \A j \in DOMAIN written'[f] :
                 \/ j \in DOMAIN written[f] /\ written'[f][j] = written[f][j]
                 \/ /\ f = e /\ k = Body(n)
                    /\ written'[f][j] = Written(c, n)
           /\ k = Body(n) => \E j \in DOMAIN written'[e] : written'[e][j] = Written(c, n)
<1>1. c \in Connections /\ Unit(n, k) \in Units
  BY DEF Writes
<1>2. PacketsOK
  BY DEF TypeInv
<1>3. stream' = [stream EXCEPT ![c][e] = Append(stream[c][e], Unit(n, k))]
  BY DEF Writes
<1>4. Grown(c, e, Unit(n, k))
  BY <1>1, <1>2, <1>3, StreamGrows
<1>5. Unit(n, k).n = n /\ (IsLast(Unit(n, k)) <=> k = Body(n))
  BY DEF Unit, IsLast
<1>6. CASE k # Body(n)
  <2>1. written' = written
    BY <1>6 DEF Writes
  <2> QED
    BY <1>1, <1>4, <1>5, <1>6, <2>1
<1>7. CASE k = Body(n)
  <2> DEFINE w == written[e]
             v == Append(w, Written(c, n))
  <2>1. Written(c, n) \in [on : Connections, n : Numbers]
    BY DEF Writes, Written
  <2>2. w \in Seq([on : Connections, n : Numbers])
    BY <1>2 DEF PacketsOK
  <2>3. /\ Len(w) \in Nat /\ DOMAIN w = 1 .. Len(w) /\ DOMAIN v = 1 .. Len(w) + 1
        /\ v[Len(w) + 1] = Written(c, n)
        /\ \A j \in 1 .. Len(w) : v[j] = w[j]
    <3> DEFINE x == Written(c, n)
    <3> HIDE DEF x
    <3> QED
      BY <2>1, <2>2 DEF x
  <2>4. written' = [written EXCEPT ![e] = v]
    <3>1. k \in Nat /\ ~(k < Body(n))
      BY <1>7 DEF Writes
    <3> QED
      BY <3>1 DEF Writes
  <2>5. written'[e] = v /\ \A f \in Ends : f # e => written'[f] = written[f]
    BY <1>2, <2>4 DEF PacketsOK
  <2> HIDE DEF v, w
  <2>6. ASSUME NEW f \in Ends, NEW j \in DOMAIN written[f]
        PROVE  j \in DOMAIN written'[f] /\ written'[f][j] = written[f][j]
    BY <2>3, <2>5, <2>6 DEF w
  <2>7. ASSUME NEW f \in Ends, NEW j \in DOMAIN written'[f]
        PROVE  \/ j \in DOMAIN written[f] /\ written'[f][j] = written[f][j]
               \/ f = e /\ written'[f][j] = Written(c, n)
    <3>1. CASE f # e
      BY <2>5, <2>7, <3>1
    <3>2. CASE f = e
      <4>1. j \in 1 .. Len(w) \/ j = Len(w) + 1
        BY <2>3, <2>5, <2>7, <3>2
      <4> QED
        BY <2>3, <2>5, <3>2, <4>1 DEF w
    <3> QED
      BY <3>1, <3>2
  <2>8. \E j \in DOMAIN written'[e] : written'[e][j] = Written(c, n)
    <3>1. Len(w) + 1 \in 1 .. Len(w) + 1
      BY <2>3
    <3> QED
      BY <2>3, <2>5, <3>1
  <2> QED
    BY <1>1, <1>4, <1>5, <1>7, <2>6, <2>7, <2>8
<1> QED
  BY <1>6, <1>7

LEMMA WriteHistory ==
    ASSUME TypeInv, BacklogInOrder, NewAreUntouched, FramesInv, CallsStand,
           QueuedOrWritten, NEW e \in Ends, NEW c, NEW n, NEW k, Writes(e, c, n, k)
    PROVE  FramesInv'
<1> DEFINE u == Unit(n, k)
           L == Len(stream[c][e])
<1> USE DEF FramesInv
<1>1. /\ c \in Connections /\ u \in Units /\ Grown(c, e, u)
      /\ u.n = n /\ (IsLast(u) <=> k = Body(n))
      /\ L \in Nat
  BY WriteShape DEF Grown
<1>2. /\ \A f \in Ends : \A j \in DOMAIN written[f] :
            j \in DOMAIN written'[f] /\ written'[f][j] = written[f][j]
      /\ \A f \in Ends : \A j \in DOMAIN written'[f] :
            \/ j \in DOMAIN written[f] /\ written'[f][j] = written[f][j]
            \/ /\ f = e /\ k = Body(n)
               /\ written'[f][j] = Written(c, n)
      /\ k = Body(n) => \E j \in DOMAIN written'[e] : written'[e][j] = Written(c, n)
  BY WriteShape
<1>3. /\ Using(e) /\ c = link[e] /\ read' = read /\ received' = received
      /\ queue[e] # <<>> /\ n = Head(queue[e])
  BY DEF Writes
<1>4. PacketsOK /\ written \in [Ends -> Seq([on : Connections, n : Numbers])]
  BY DEF TypeInv, PacketsOK
<1> HIDE DEF u, L
<1>5. ASSUME NEW d \in Connections, NEW f \in Ends
      PROVE  /\ \A i \in LastUnits(d, f) :
                   i \in LastUnits(d, f)' /\ stream'[d][f][i] = stream[d][f][i]
             /\ \A i \in LastUnits(d, f)' :
                   \/ i \in LastUnits(d, f) /\ stream'[d][f][i] = stream[d][f][i]
                   \/ d = c /\ f = e /\ i = L + 1 /\ stream'[d][f][i] = u /\ IsLast(u)
             /\ IsLast(u) => L + 1 \in LastUnits(c, e)'
  BY <1>1, <1>4, LastUnitsGrow DEF L
<1>6. StreamsFramed'
  BY WriteFrames
<1>7. stream'[c][e][L + 1] = u
  BY <1>1 DEF Grown, L
<1>8. WrittenAreInStreams'
  <2> SUFFICES ASSUME NEW f \in Ends, NEW j \in DOMAIN written'[f]
               PROVE  \E d \in Connections : \E i \in LastUnits(d, f)' :
                          written'[f][j] = Written(d, stream'[d][f][i].n)
    BY DEF WrittenAreInStreams
  <2>1. CASE j \in DOMAIN written[f] /\ written'[f][j] = written[f][j]
    <3>1. PICK d \in Connections : \E i \in LastUnits(d, f) :
                  written[f][j] = Written(d, stream[d][f][i].n)
      BY <2>1 DEF WrittenAreInStreams
    <3> QED
      BY <1>5, <2>1, <3>1
  <2>2. CASE f = e /\ k = Body(n) /\ written'[f][j] = Written(c, n)
    BY <1>1, <1>5, <1>7, <2>2
  <2> QED
    BY <1>2, <2>1, <2>2
<1>9. StreamsAreWritten'
  <2> SUFFICES ASSUME NEW f \in Ends, NEW d \in Connections, NEW i \in LastUnits(d, f)'
               PROVE  \E j \in DOMAIN written'[f] :
                          written'[f][j] = Written(d, stream'[d][f][i].n)
    BY DEF StreamsAreWritten
  <2>1. CASE i \in LastUnits(d, f) /\ stream'[d][f][i] = stream[d][f][i]
    BY <1>2, <2>1 DEF StreamsAreWritten
  <2>2. CASE d = c /\ f = e /\ stream'[d][f][i] = u /\ IsLast(u)
    BY <1>1, <1>2, <2>2
  <2> QED
    BY <1>5, <2>1, <2>2
<1>10. ReceivedAreRead' /\ ReceivedGrow'
  <2>1. ReceivedGrow'
    BY <1>3 DEF ReceivedGrow
  <2>2. ReceivedAreRead'
    <3> SUFFICES ASSUME NEW f \in Ends, NEW x \in DOMAIN received[f]
                 PROVE  \E d \in Connections : \E i \in LastUnits(d, Other(f))' :
                           /\ i <= read[d][Other(f)]
                           /\ received[f][x] = Whole(d, stream'[d][Other(f)][i].n)
      BY <1>3 DEF ReceivedAreRead
    <3>1. PICK d \in Connections : \E i \in LastUnits(d, Other(f)) :
                 /\ i <= read[d][Other(f)]
                 /\ received[f][x] = Whole(d, stream[d][Other(f)][i].n)
      BY DEF ReceivedAreRead
    <3> QED
      BY <1>5, <3>1, EndFacts
  <2> QED
    BY <2>1, <2>2
<1>11. ReadAreReceived'
  <2> SUFFICES ASSUME NEW f \in Ends, NEW d \in Connections, NEW i \in LastUnits(d, Other(f))',
                      i <= read[d][Other(f)]
               PROVE  \E x \in DOMAIN received[f] :
                          received[f][x] = Whole(d, stream'[d][Other(f)][i].n)
    BY <1>3 DEF ReadAreReceived
  <2>1. ~(d = c /\ Other(f) = e /\ i = L + 1)
    <3>1. read[c][e] \in Nat /\ read[c][e] <= L
      BY <1>1, <1>4 DEF StreamsFramed, PacketsOK, L
    <3> QED
      BY <1>1, <3>1
  <2> QED
    BY <1>5, <2>1, EndFacts DEF ReadAreReceived
<1>12. StreamsGrow'
  <2> SUFFICES ASSUME NEW f \in Ends, NEW a \in Connections, NEW b \in Connections,
                      NEW i \in LastUnits(a, f)', NEW j \in LastUnits(b, f)',
                      a < b \/ (a = b /\ i < j)
               PROVE  stream'[a][f][i].n < stream'[b][f][j].n
    BY DEF StreamsGrow
  <2>1. \A d \in Connections : \A h \in LastUnits(d, e) : h <= Len(stream[d][e]) /\ stream[d][e] # <<>>
    BY <1>4 DEF LastUnits, PacketsOK
  <2>2. i \in LastUnits(a, f) /\ stream'[a][f][i] = stream[a][f][i]
    <3> SUFFICES ASSUME a = c, f = e, i = L + 1 PROVE FALSE
      BY <1>5
    <3>1. CASE b = a
      <4>1. j \in LastUnits(c, e)' /\ j > L + 1
        BY <3>1, <1>1 DEF Connections
      <4>2. j \in LastUnits(c, e)
        BY <1>1, <1>5, <4>1 DEF LastUnits
      <4> QED
        BY <1>1, <2>1, <4>1, <4>2 DEF L, LastUnits
    <3>2. CASE b # a
      <4>1. j \in LastUnits(b, e) /\ c < b
        BY <1>5, <3>2
      <4>2. Touched(e, b)
        BY <2>1, <4>1 DEF Touched
      <4>3. b <= c
        BY <1>3, <4>2 DEF NewAreUntouched
      <4> QED
        BY <1>1, <4>1, <4>3 DEF Connections
    <3> QED
      BY <3>1, <3>2
  <2>3. CASE j \in LastUnits(b, f) /\ stream'[b][f][j] = stream[b][f][j]
    BY <2>2, <2>3 DEF StreamsGrow
  <2>4. CASE b = c /\ f = e /\ stream'[b][f][j] = u
    <3>1. PICK h \in DOMAIN written[e] : written[e][h] = Written(a, stream[a][e][i].n)
      BY <2>2, <2>4 DEF StreamsAreWritten
    <3>2. written[e][h].n < n
      BY <1>3, QueueAbove
    <3> QED
      BY <1>1, <2>2, <2>4, <3>1, <3>2 DEF Written
  <2> QED
    BY <1>5, <2>3, <2>4
<1> QED
  BY <1>6, <1>8, <1>9, <1>10, <1>11, <1>12
LEMMA WriteCalls ==
    ASSUME TypeInv, FramesInv, CallsStand,
           NEW e \in Ends, NEW c, NEW n, NEW k, Writes(e, c, n, k)
    PROVE  CallsStand'
<1> DEFINE u == Unit(n, k)
           L == Len(stream[c][e])
<1>1. c \in Connections /\ Grown(c, e, u) /\ (IsLast(u) <=> k = Body(n))
  BY WriteShape
<1>2. /\ Using(e) /\ c = link[e] /\ read' = read /\ queue[e] # <<>> /\ n = Head(queue[e])
      /\ k \in Nat /\ Got(e) = <<>> /\ Stays /\ n \in Numbers /\ Body(n) \in Nat
      /\ Unit(n, k) \in Units
  BY NumberFacts DEF Writes
<1>3. /\ L \in Nat /\ Len(stream'[c][e]) = L + 1 /\ stream'[c][e][L + 1] = u
      /\ \A d \in Connections, f \in Ends : d # c \/ f # e => stream'[d][f] = stream[d][f]
      /\ \A i \in 1 .. L : stream'[c][e][i] = stream[c][e][i]
  BY <1>1 DEF Grown
<1>4. PacketsOK /\ call \in [Ends -> Calls] /\ queue \in [Ends -> Seq(Numbers)]
  BY DEF TypeInv, PacketsOK
<1>5. \A f \in Ends : Using(f)' = Using(f) /\ link'[f] = link[f]
  BY <1>2 DEF Stays, Using
<1>6. \A f \in Ends : Using(f) => link[f] \in Connections
  BY NumberFacts DEF Using, TypeInv, LinksOK, Connections
<1>7. \A f \in Ends : f # e => call'[f] = call[f] /\ queue'[f] = queue[f]
  BY <1>4 DEF Writes
<1>8. stream'[c][e] # <<>> /\ Len(stream'[c][e]) = L + 1
  <2>1. Len(<<>>) = 0 /\ L + 1 # 0
    BY <1>3
  <2> QED
    BY <1>3, <2>1
<1> HIDE DEF u, L
<1>9. WriterAt(e)'
  <2>1. CASE k < Body(n)
    <3>1. call'[e] = Flushing(k + 1) /\ queue' = queue
      BY <1>4, <2>1 DEF Writes
    <3>2. call'[e].op = "flush" /\ At(e)' = k + 1
      BY <3>1 DEF At, Flushing
    <3>3. /\ stream'[c][e][Len(stream'[c][e])] = Unit(n, k) /\ k = k + 1 - 1
          /\ k + 1 # 0 /\ k + 1 <= Body(n)
      BY <1>2, <1>3, <1>8, <2>1 DEF u
    <3> QED
      BY <1>2, <1>5, <1>8, <3>1, <3>2, <3>3 DEF WriterAt
  <2>2. CASE ~(k < Body(n))
    <3>1. /\ k = Body(n)
          /\ call'[e] = IF Len(queue[e]) = 1 THEN Idle ELSE Flushing(0)
          /\ queue'[e] = Tail(queue[e])
      BY <1>4, <2>2 DEF Writes
    <3>2. At(e)' = 0
      BY <3>1 DEF At, Flushing, Idle
    <3>3. call'[e].op = "flush" => queue'[e] # <<>>
      <4>1. queue[e] \in Seq(Numbers) /\ queue[e] # <<>>
        BY <1>2, <1>4
      <4>2. ASSUME Tail(queue[e]) = <<>> PROVE Len(queue[e]) = 1
        <5>1. Len(Tail(queue[e])) = Len(queue[e]) - 1 /\ Len(queue[e]) \in Nat
          BY <4>1
        <5>2. Tail(queue[e]) \in Seq(Numbers)
          BY <4>1
        <5>3. Len(Tail(queue[e])) = 0
          BY <4>2, <5>2, EmptySeq, Zenon
        <5> QED
          BY <5>1, <5>3
      <4> QED
        BY <3>1, <4>2 DEF Idle
    <3>4. IsLast(stream'[c][e][Len(stream'[c][e])])
      BY <1>1, <1>3, <1>8, <3>1
    <3> QED
      BY <1>2, <1>5, <3>2, <3>3, <3>4 DEF WriterAt
  <2> QED
    BY <2>1, <2>2
<1>10. ReaderAt(e)'
  <2>1. Got(e)' = <<>>
    BY <1>4 DEF Writes, Got, Idle, Flushing
  <2>2. stream'[link[e]][Other(e)] = stream[link[e]][Other(e)]
    BY <1>2, <1>3, <1>1, EndFacts
  <2>3. ReaderAt(e)
    BY DEF CallsStand
  <2> QED
    BY <1>2, <1>5, <2>1, <2>2, <2>3 DEF ReaderAt
<1>11. ASSUME NEW f \in Ends, f # e PROVE WriterAt(f)' /\ ReaderAt(f)'
  <2>1. /\ WriterAt(f) /\ ReaderAt(f) /\ At(f)' = At(f) /\ Got(f)' = Got(f)
        /\ call'[f] = call[f] /\ queue'[f] = queue[f] /\ Using(f)' = Using(f) /\ link'[f] = link[f]
    BY <1>5, <1>7, <1>11 DEF CallsStand, At, Got
  <2>2. Using(f) => stream'[link[f]][f] = stream[link[f]][f]
    BY <1>3, <1>6, <1>11
  <2>3. WriterAt(f)'
    BY <2>1, <2>2 DEF WriterAt
  <2>4. Using(f) /\ read[link[f]][Other(f)] > 0 =>
          stream'[link[f]][Other(f)][read[link[f]][Other(f)]] =
              stream[link[f]][Other(f)][read[link[f]][Other(f)]]
    <3> SUFFICES ASSUME Using(f), read[link[f]][Other(f)] > 0
                 PROVE  stream'[link[f]][Other(f)][read[link[f]][Other(f)]] =
                            stream[link[f]][Other(f)][read[link[f]][Other(f)]]
      OBVIOUS
    <3>1. CASE link[f] = c /\ Other(f) = e
      <4>1. read[c][e] \in 1 .. L
        BY <1>1, <1>3, <1>4, <3>1 DEF FramesInv, StreamsFramed, PacketsOK, L
      <4> QED
        BY <1>3, <3>1, <4>1
    <3>2. CASE ~(link[f] = c /\ Other(f) = e)
      BY <1>3, <1>6, <3>2, EndFacts
    <3> QED
      BY <3>1, <3>2
  <2>5. ReaderAt(f)'
    BY <1>2, <2>1, <2>4 DEF ReaderAt
  <2> QED
    BY <2>3, <2>5
<1> QED
  BY <1>9, <1>10, <1>11 DEF CallsStand

LEMMA WriteQueue ==
    ASSUME TypeInv, QueuedOrWritten, ClearedWereQueued,
           NEW e \in Ends, NEW c, NEW n, NEW k, Writes(e, c, n, k)
    PROVE  QueuedOrWritten' /\ ClearedWereQueued'
<1>1. /\ UNCHANGED <<enqueued, cleared>> /\ c \in Connections
      /\ queue[e] # <<>> /\ n = Head(queue[e])
  BY DEF Writes
<1>2. ClearedWereQueued'
  BY <1>1 DEF ClearedWereQueued
<1>3. \A f \in Ends : HandledOf(f)' = HandledOf(f)
  <2>1. CASE UNCHANGED <<queue, written>>
    BY <2>1 DEF HandledOf
  <2>2. CASE /\ queue' = [queue EXCEPT ![e] = Tail(queue[e])]
             /\ written' = [written EXCEPT ![e] = Append(written[e], Written(c, n))]
    <3>1. /\ queue'[e] = Tail(queue[e])
          /\ written'[e] = Append(written[e], Written(c, Head(queue[e])))
          /\ \A f \in Ends : f # e => queue'[f] = queue[f] /\ written'[f] = written[f]
          /\ written[e] \in WrittenSeqs /\ queue[e] \in Seq(Numbers)
      BY <1>1, <2>2 DEF TypeInv, PacketsOK, WrittenSeqs
    <3>2. HandledOf(e)' = HandledOf(e)
      BY <1>1, <3>1, JoinMove DEF HandledOf
    <3> QED
      BY <3>1, <3>2 DEF HandledOf
  <2> QED
    BY <2>1, <2>2 DEF Writes
<1>4. \A f \in Ends : /\ Range(HandledOf(f)) = (1 .. enqueued[f]) \ cleared[f]
                      /\ Increasing(HandledOf(f))
  BY HandledIs
<1>5. \A f \in Ends : /\ Range(HandledOf(f)') = (1 .. enqueued'[f]) \ cleared'[f]
                      /\ Increasing(HandledOf(f)')
  BY <1>1, <1>3, <1>4
<1>6. QueuedOrWritten'
  BY <1>5 DEF QueuedOrWritten, Handled, HandledOf, Joined, Increasing
<1> QED
  BY <1>2, <1>6

LEMMA WriteStep ==
    ASSUME TypeInv, BacklogInOrder, NewAreUntouched, FramesInv, CallsStand,
           QueuedOrWritten, ClearedWereQueued, NEW e \in Ends, WriteUnit(e)
    PROVE  /\ Stays /\ PacketsOK' /\ NewAreUntouched' /\ FramesInv' /\ CallsStand'
           /\ ClearedWereQueued' /\ QueuedOrWritten'
<1>1. PICK c, n, k : Writes(e, c, n, k)
  BY WriteUnitIs
<1>2. PacketsOK'
  BY <1>1, WriteTypes
<1>3. NewAreUntouched'
  BY <1>1, WriteFrames DEF FramesInv
<1>4. FramesInv' /\ CallsStand'
  BY <1>1, WriteHistory, WriteCalls
<1>5. ClearedWereQueued' /\ QueuedOrWritten'
  BY <1>1, WriteQueue
<1> QED
  BY <1>1, <1>2, <1>3, <1>4, <1>5 DEF Writes
-----------------------------------------------------------------------------
(* Reading *)

LEMMA FrameIs ==
    ASSUME NEW n \in Numbers
    PROVE  /\ Frame(n) \in Seq(Units) /\ Len(Frame(n)) = Body(n) + 1
           /\ \A i \in 1 .. Body(n) + 1 : Frame(n)[i] = Unit(n, i - 1)
           /\ Frame(n)[1].n = n
<1>1. Body(n) \in Nat /\ Body(n) + 1 \in Nat /\ 1 \in 1 .. Body(n) + 1
  BY NumberFacts
<1>2. Frame(n) = [i \in 1 .. Body(n) + 1 |-> Unit(n, i - 1)]
  BY DEF Frame
<1>3. \A i \in 1 .. Body(n) + 1 : Unit(n, i - 1) \in Units
  BY <1>1 DEF Unit, Units
<1>4. Frame(n) \in [1 .. Body(n) + 1 -> Units]
  BY <1>2, <1>3
<1>5. Frame(n) \in Seq(Units)
  BY <1>1, <1>4, SeqDef
<1>6. Len(Frame(n)) = Body(n) + 1
  BY <1>1, <1>4, <1>5, LenProperties
<1>7. Frame(n)[1].n = n
  BY <1>1, <1>2 DEF Unit
<1> QED
  BY <1>2, <1>5, <1>6, <1>7

\* h is the beginning of a frame, up to the unit u.
Beginning(h, u) ==
    /\ h \in Seq(Units) /\ Len(h) = u.k + 1 /\ h[1].n = u.n
    /\ u = Unit(u.n, u.k) /\ u.k <= Body(u.n)
    /\ \A i \in 1 .. Len(h) : h[i] = Unit(u.n, i - 1)

\* The unit after the first b of a stream continues the frame g in progress.
LEMMA FrameGoesOn ==
    ASSUME NEW s \in Seq(Units), NEW b \in Nat, b + 1 \in 1 .. Len(s), NEW g \in Seq(Units),
           \A i \in 1 .. Len(s) :
              /\ s[i].k <= Body(s[i].n)
              /\ i = 1 => s[i].k = 0
              /\ i > 1 => Follows(s[i - 1], s[i]),
           g = <<>> => (b > 0 => IsLast(s[b])),
           g # <<>> => /\ b > 0
                       /\ Len(g) <= Body(g[1].n)
                       /\ s[b] = Unit(g[1].n, Len(g) - 1)
                       /\ \A i \in 1 .. Len(g) : g[i] = Unit(g[1].n, i - 1),
           NEW u, u = s[b + 1], NEW h, h = Append(g, u)
    PROVE  /\ u \in Units /\ Beginning(h, u)
           /\ (Len(h) = 1 + Announced(h[1])) <=> IsLast(u)
<1>1. /\ u \in Units /\ u.n \in Numbers /\ u.k \in Nat /\ Body(u.n) \in Nat
      /\ u = Unit(u.n, u.k)
  <2>1. u \in Units
    OBVIOUS
  <2> QED
    BY <2>1, NumberFacts DEF Units, Unit
<1>2. u.k <= Body(u.n) /\ (b = 0 => u.k = 0) /\ (b > 0 => Follows(s[b], u))
  <2>1. /\ s[b + 1].k <= Body(s[b + 1].n)
        /\ b + 1 = 1 => s[b + 1].k = 0
        /\ b + 1 > 1 => Follows(s[b + 1 - 1], s[b + 1])
    OBVIOUS
  <2>2. b + 1 - 1 = b
    OBVIOUS
  <2> QED
    BY <2>1, <2>2
<1>3. /\ h \in Seq(Units) /\ Len(h) = Len(g) + 1 /\ Len(g) \in Nat
      /\ \A i \in 1 .. Len(g) : h[i] = g[i]
      /\ h[Len(g) + 1] = u
  BY <1>1
<1>4. CASE g = <<>>
  <2>1. u.k = 0
    BY <1>2, <1>4 DEF Follows
  <2>2. Len(g) = 0 /\ Len(h) = 1 /\ h[1] = u
    BY <1>3, <1>4
  <2>3. Beginning(h, u)
    BY <1>1, <1>2, <1>3, <2>1, <2>2 DEF Beginning
  <2>4. (Len(h) = 1 + Announced(h[1])) <=> IsLast(u)
    BY <1>1, <2>1, <2>2 DEF Announced, IsLast
  <2> QED
    BY <1>1, <2>3, <2>4
<1>5. CASE g # <<>>
  <2> DEFINE n == g[1].n
  <2>1. Len(g) >= 1
    BY <1>3, <1>5
  <2>2. Len(g) <= Body(n) /\ s[b] = Unit(n, Len(g) - 1) /\ b > 0
    BY <1>5
  <2>3. g[1] \in Units /\ n \in Numbers /\ Body(n) \in Nat
    <3>1. g[1] \in Units
      BY <2>1
    <3> QED
      BY <3>1, NumberFacts DEF Units
  <2>4. u = Unit(n, Len(g))
    <3>1. ~IsLast(Unit(n, Len(g) - 1)) /\ Unit(n, Len(g) - 1).n = n /\ Unit(n, Len(g) - 1).k + 1 = Len(g)
      BY <1>3, <2>2, <2>3 DEF IsLast, Unit
    <3> QED
      BY <1>2, <2>2, <3>1 DEF Follows
  <2>5. u.n = n /\ u.k = Len(g)
    BY <2>4 DEF Unit
  <2>6. ASSUME NEW i \in 1 .. Len(h) PROVE h[i] = Unit(n, i - 1)
    <3>1. CASE i \in 1 .. Len(g)
      BY <1>3, <1>5, <3>1
    <3>2. CASE i \notin 1 .. Len(g)
      <4>1. i = Len(g) + 1 /\ i - 1 = Len(g)
        BY <1>3, <3>2
      <4> QED
        BY <1>3, <2>4, <4>1
    <3> QED
      BY <3>1, <3>2
  <2>7. h[1] = g[1] /\ h[1] = Unit(n, 0)
    <3>1. 1 \in 1 .. Len(g) /\ 1 \in 1 .. Len(h)
      BY <1>3, <2>1
    <3> QED
      BY <1>3, <2>6, <3>1
  <2>8. Beginning(h, u)
    BY <1>1, <1>2, <1>3, <2>5, <2>6, <2>7 DEF Beginning
  <2>9. Announced(h[1]) = Body(n)
    BY <2>7 DEF Announced, Unit
  <2>10. (Len(h) = 1 + Announced(h[1])) <=> IsLast(u)
    BY <1>3, <2>3, <2>5, <2>9 DEF IsLast
  <2> QED
    BY <1>1, <2>8, <2>10
<1> QED
  BY <1>4, <1>5

\* A complete one is the frame itself.
LEMMA BeginningEnds ==
    ASSUME NEW u \in Units, NEW h, Beginning(h, u), IsLast(u)
    PROVE  h = Frame(u.n)
<1>1. u.n \in Numbers /\ Body(u.n) \in Nat /\ Len(h) = Body(u.n) + 1
  BY NumberFacts DEF Units, Beginning, IsLast
<1>2. /\ h \in Seq(Units) /\ Frame(u.n) \in Seq(Units) /\ Len(Frame(u.n)) = Len(h)
      /\ \A i \in 1 .. Len(h) : h[i] = Frame(u.n)[i]
  BY <1>1, FrameIs DEF Beginning
<1> QED
  BY <1>2, SeqEqual

\* What one read unit u is: the next one of the frame that is being read,
\* which is complete when u is its last.
Reads(e, c, u, h) ==
    /\ Using(e) /\ c = link[e] /\ c \in Connections
    /\ call[e].op = "receive" /\ At(e) = 0
    /\ read[c][Other(e)] + 1 \in 1 .. Len(stream[c][Other(e)])
    /\ u = stream[c][Other(e)][read[c][Other(e)] + 1] /\ u \in Units
    /\ Beginning(h, u)
    /\ read' = [read EXCEPT ![c][Other(e)] = read[c][Other(e)] + 1]
    /\ Stays /\ UNCHANGED <<stream, queue, written, enqueued, cleared>>
    /\ \/ /\ IsLast(u)
          /\ call' = [call EXCEPT ![e] = Idle]
          /\ received' = [received EXCEPT ![e] = Append(received[e], Whole(c, u.n))]
       \/ /\ ~IsLast(u)
          /\ call' = [call EXCEPT ![e] = Receiving(h)]
          /\ received' = received

LEMMA ReadUnitIs ==
    ASSUME TypeInv, FramesInv, CallsStand, NEW e \in Ends, ReadUnit(e)
    PROVE  \E c, u, h : Reads(e, c, u, h)
<1> DEFINE c == link[e]
           o == Other(e)
           s == stream[c][o]
           b == read[c][o]
           g == call[e].got
           u == s[b + 1]
           h == Append(g, u)
<1>1. Using(e) /\ call[e].op = "receive" /\ c \in Connections /\ o \in Ends
  <2>1. Using(e) /\ call[e].op = "receive"
    BY DEF ReadUnit, Running, Using
  <2>2. c \in Connections
    BY <2>1, NumberFacts DEF Using, Connections, TypeInv, LinksOK
  <2> QED
    BY <2>1, <2>2, EndFacts
<1>2. g \in Seq(Units) /\ Got(e) = g /\ At(e) = 0
  BY <1>1, CallKinds DEF Got, At, Idle, TypeInv, PacketsOK
<1>3. s \in Seq(Units) /\ b \in Nat /\ b + 1 \in 1 .. Len(s)
  <2>1. s \in Seq(Units) /\ b \in Nat
    BY <1>1 DEF TypeInv, PacketsOK
  <2>2. Len(s) - b > 0
    BY DEF ReadUnit, Incoming, InFlight
  <2> QED
    BY <2>1, <2>2
<1>4. \A i \in 1 .. Len(s) :
         /\ s[i].k <= Body(s[i].n)
         /\ i = 1 => s[i].k = 0
         /\ i > 1 => Follows(s[i - 1], s[i])
  BY <1>1 DEF FramesInv, StreamsFramed
<1>5. /\ g = <<>> => (b > 0 => IsLast(s[b]))
      /\ g # <<>> => /\ b > 0
                     /\ Len(g) <= Body(g[1].n)
                     /\ s[b] = Unit(g[1].n, Len(g) - 1)
                     /\ \A i \in 1 .. Len(g) : g[i] = Unit(g[1].n, i - 1)
  BY <1>1, <1>2 DEF CallsStand, ReaderAt
<1>6. /\ u \in Units /\ Beginning(h, u)
      /\ (Len(h) = 1 + Announced(h[1])) <=> IsLast(u)
  <2> HIDE DEF s, b, g
  <2> QED
    BY <1>2, <1>3, <1>4, <1>5, FrameGoesOn, ZenonT(40)
<1>7. /\ read' = [read EXCEPT ![c][o] = b + 1]
      /\ Stays /\ UNCHANGED <<stream, queue, written, enqueued, cleared>>
  BY DEF ReadUnit, Stays, adapter, sockets, queued
<1>8. /\ call' = [call EXCEPT ![e] = IF Len(h) = 1 + Announced(h[1]) THEN Idle ELSE Receiving(h)]
      /\ received' = IF Len(h) = 1 + Announced(h[1])
                     THEN [received EXCEPT ![e] = Append(received[e], [on |-> c, units |-> h])]
                     ELSE received
  BY DEF ReadUnit, Arriving
<1>9. IsLast(u) => [on |-> c, units |-> h] = Whole(c, u.n)
  BY <1>6, BeginningEnds, ZenonT(30) DEF Whole
<1> HIDE DEF h
<1>10. \/ /\ IsLast(u)
          /\ call' = [call EXCEPT ![e] = Idle]
          /\ received' = [received EXCEPT ![e] = Append(received[e], Whole(c, u.n))]
       \/ /\ ~IsLast(u)
          /\ call' = [call EXCEPT ![e] = Receiving(h)]
          /\ received' = received
  BY <1>6, <1>8, <1>9, ZenonT(30)
<1>11. Reads(e, c, u, h)
  BY <1>1, <1>2, <1>3, <1>6, <1>7, <1>10 DEF Reads
<1> QED
  BY <1>11

LEMMA ReadTypes ==
    ASSUME TypeInv, NEW e \in Ends, NEW c, NEW u, NEW h, Reads(e, c, u, h)
    PROVE  PacketsOK'
<1> USE DEF TypeInv, PacketsOK
<1>1. c \in Connections /\ u \in Units /\ h \in Seq(Units) /\ Other(e) \in Ends
  BY EndFacts DEF Reads, Beginning
<1>2. read' \in [Connections -> [Ends -> Nat]]
  <2>1. read[c][Other(e)] + 1 \in Nat
    BY <1>1
  <2> QED
    BY <1>1, <2>1 DEF Reads
<1>3. call' \in [Ends -> Calls]
  <2>1. Receiving(h) \in Calls /\ Idle \in Calls
    BY <1>1, Zenon DEF Calls
  <2> QED
    BY <2>1 DEF Reads
<1>4. received' \in [Ends -> Seq([on : Connections, units : Seq(Units)])]
  <2>1. u.n \in Numbers
    BY <1>1 DEF Units
  <2>2. Whole(c, u.n) \in [on : Connections, units : Seq(Units)]
    BY <1>1, <2>1, FrameIs DEF Whole
  <2>3. received[e] \in Seq([on : Connections, units : Seq(Units)])
    OBVIOUS
  <2>4. Append(received[e], Whole(c, u.n)) \in Seq([on : Connections, units : Seq(Units)])
    BY <2>2, <2>3, AppendProperties
  <2> QED
    BY <2>4 DEF Reads
<1> QED
  BY <1>2, <1>3, <1>4 DEF Reads

\* The history after a read, in terms of the one before it.
LEMMA ReadShape ==
    ASSUME TypeInv, NEW e \in Ends, NEW c, NEW u, NEW h, Reads(e, c, u, h)
    PROVE  /\ c \in Connections /\ Other(e) \in Ends
           /\ u \in Units /\ u.n \in Numbers
           /\ read[c][Other(e)] \in Nat
           /\ read'[c][Other(e)] = read[c][Other(e)] + 1
           /\ u = stream[c][Other(e)][read[c][Other(e)] + 1]
           /\ read[c][Other(e)] + 1 \in 1 .. Len(stream[c][Other(e)])
           /\ \A d \in Connections, f \in Ends :
                 d # c \/ f # Other(e) => read'[d][f] = read[d][f]
           /\ \A f \in Ends : /\ Len(received[f]) \in Nat
                              /\ DOMAIN received[f] = 1 .. Len(received[f])
           /\ \A f \in Ends : \A x \in DOMAIN received[f] :
                 x \in DOMAIN received'[f] /\ received'[f][x] = received[f][x]
           /\ \A f \in Ends : \A x \in DOMAIN received'[f] :
                 \/ x \in DOMAIN received[f] /\ received'[f][x] = received[f][x]
                 \/ /\ f = e /\ IsLast(u) /\ x = Len(received[e]) + 1
                    /\ received'[f][x] = Whole(c, u.n)
           /\ IsLast(u) => \E x \in DOMAIN received'[e] : received'[e][x] = Whole(c, u.n)
<1>1. /\ c \in Connections /\ Other(e) \in Ends /\ u \in Units /\ u.n \in Numbers
      /\ read[c][Other(e)] \in Nat
      /\ u = stream[c][Other(e)][read[c][Other(e)] + 1]
      /\ read[c][Other(e)] + 1 \in 1 .. Len(stream[c][Other(e)])
  <2>1. /\ c \in Connections /\ Other(e) \in Ends /\ u \in Units
        /\ u = stream[c][Other(e)][read[c][Other(e)] + 1]
        /\ read[c][Other(e)] + 1 \in 1 .. Len(stream[c][Other(e)])
    BY EndFacts DEF Reads
  <2>2. u.n \in Numbers
    BY <2>1 DEF Units
  <2>3. read[c][Other(e)] \in Nat
    BY <2>1, SMTT(30) DEF TypeInv, PacketsOK
  <2> QED
    BY <2>1, <2>2, <2>3, SMTT(30)
<1>2. /\ read'[c][Other(e)] = read[c][Other(e)] + 1
      /\ \A d \in Connections, f \in Ends : d # c \/ f # Other(e) => read'[d][f] = read[d][f]
  BY <1>1 DEF Reads, TypeInv, PacketsOK
<1>3. received \in [Ends -> Seq([on : Connections, units : Seq(Units)])]
  BY DEF TypeInv, PacketsOK
<1>4. \A f \in Ends : Len(received[f]) \in Nat /\ DOMAIN received[f] = 1 .. Len(received[f])
  BY <1>3
<1>5. CASE ~IsLast(u)
  <2>1. received' = received
    BY <1>5 DEF Reads
  <2> QED
    BY <1>1, <1>2, <1>4, <1>5, <2>1
<1>6. CASE IsLast(u)
  <2> DEFINE x == Whole(c, u.n)
             w == received[e]
             v == Append(w, x)
  <2>1. x \in [on : Connections, units : Seq(Units)]
    BY <1>1, FrameIs DEF Whole
  <2>2. w \in Seq([on : Connections, units : Seq(Units)])
    BY <1>3
  <2>3. /\ Len(w) \in Nat /\ DOMAIN w = 1 .. Len(w) /\ DOMAIN v = 1 .. Len(w) + 1
        /\ v[Len(w) + 1] = x
        /\ \A i \in 1 .. Len(w) : v[i] = w[i]
    <3> HIDE DEF x, w
    <3> QED
      BY <2>1, <2>2
  <2>4. received' = [received EXCEPT ![e] = v]
    BY <1>6 DEF Reads
  <2>5. received'[e] = v /\ \A f \in Ends : f # e => received'[f] = received[f]
    BY <1>3, <2>4
  <2> HIDE DEF v, w, x
  <2>6. ASSUME NEW f \in Ends, NEW i \in DOMAIN received[f]
        PROVE  i \in DOMAIN received'[f] /\ received'[f][i] = received[f][i]
    BY <2>3, <2>5, <2>6 DEF w
  <2>7. ASSUME NEW f \in Ends, NEW i \in DOMAIN received'[f]
        PROVE  \/ i \in DOMAIN received[f] /\ received'[f][i] = received[f][i]
               \/ f = e /\ i = Len(received[e]) + 1 /\ received'[f][i] = x
    <3>1. CASE f # e
      BY <2>5, <2>7, <3>1
    <3>2. CASE f = e
      <4>1. i \in 1 .. Len(w) \/ i = Len(w) + 1
        BY <2>3, <2>5, <2>7, <3>2
      <4> QED
        BY <2>3, <2>5, <3>2, <4>1 DEF w
    <3> QED
      BY <3>1, <3>2
  <2>8. \E i \in DOMAIN received'[e] : received'[e][i] = x
    <3>1. Len(w) + 1 \in 1 .. Len(w) + 1
      BY <2>3
    <3> QED
      BY <2>3, <2>5, <3>1
  <2> QED
    BY <1>1, <1>2, <1>4, <1>6, <2>6, <2>7, <2>8 DEF x
<1> QED
  BY <1>5, <1>6

LEMMA ReadHistory ==
    ASSUME TypeInv, NewAreUntouched, FramesInv, NEW e \in Ends,
           NEW c, NEW u, NEW h, Reads(e, c, u, h)
    PROVE  FramesInv'
<1> DEFINE o == Other(e)
           r == read[c][o]
<1> USE DEF FramesInv
<1>1. /\ c \in Connections /\ o \in Ends /\ u \in Units /\ u.n \in Numbers
      /\ r \in Nat /\ read'[c][o] = r + 1
      /\ u = stream[c][o][r + 1]
      /\ r + 1 \in 1 .. Len(stream[c][o])
      /\ \A d \in Connections, f \in Ends : d # c \/ f # o => read'[d][f] = read[d][f]
  BY ReadShape
<1>2. /\ \A f \in Ends : Len(received[f]) \in Nat /\ DOMAIN received[f] = 1 .. Len(received[f])
      /\ \A f \in Ends : \A x \in DOMAIN received[f] :
            x \in DOMAIN received'[f] /\ received'[f][x] = received[f][x]
      /\ \A f \in Ends : \A x \in DOMAIN received'[f] :
            \/ x \in DOMAIN received[f] /\ received'[f][x] = received[f][x]
            \/ /\ f = e /\ IsLast(u) /\ x = Len(received[e]) + 1
               /\ received'[f][x] = Whole(c, u.n)
      /\ IsLast(u) => \E x \in DOMAIN received'[e] : received'[e][x] = Whole(c, u.n)
  BY ReadShape
<1>3. stream' = stream /\ written' = written /\ Using(e) /\ c = link[e]
  BY DEF Reads
<1>4. \A d \in Connections, f \in Ends : LastUnits(d, f)' = LastUnits(d, f)
  BY <1>3 DEF LastUnits
<1>5. /\ stream \in [Connections -> [Ends -> Seq(Units)]]
      /\ read \in [Connections -> [Ends -> Nat]]
  BY DEF TypeInv, PacketsOK
<1>6. IsLast(u) => r + 1 \in LastUnits(c, o)
  BY <1>1 DEF LastUnits
<1>7. \A d \in Connections, f \in Ends : \A i \in LastUnits(d, f) :
          i \in Nat \ {0} /\ stream[d][f][i].n \in Numbers
  <2> SUFFICES ASSUME NEW d \in Connections, NEW f \in Ends, NEW i \in LastUnits(d, f)
               PROVE  i \in Nat \ {0} /\ stream[d][f][i].n \in Numbers
    OBVIOUS
  <2>1. stream[d][f] \in Seq(Units) /\ i \in 1 .. Len(stream[d][f])
    BY <1>5 DEF LastUnits
  <2>2. stream[d][f][i] \in Units /\ i \in Nat \ {0}
    BY <2>1
  <2> QED
    BY <2>2 DEF Units
<1> HIDE DEF o, r
<1>8. \A d \in Connections, f \in Ends :
          read[d][f] \in Nat /\ read'[d][f] \in Nat /\ read[d][f] <= read'[d][f]
  <2> SUFFICES ASSUME NEW d \in Connections, NEW f \in Ends
               PROVE  /\ read[d][f] \in Nat /\ read'[d][f] \in Nat
                      /\ read[d][f] <= read'[d][f]
    OBVIOUS
  <2>1. read[d][f] \in Nat
    BY <1>5
  <2>2. CASE d = c /\ f = o
    BY <1>1, <2>1, <2>2 DEF r
  <2>3. CASE d # c \/ f # o
    BY <1>1, <2>1, <2>3
  <2> QED
    BY <2>2, <2>3
<1>9. StreamsFramed'
  <2>1. \A d \in Connections, f \in Ends : read'[d][f] <= Len(stream'[d][f])
    BY <1>1, <1>3 DEF StreamsFramed
  <2> QED
    BY <1>3, <2>1 DEF StreamsFramed
<1>10. WrittenAreInStreams' /\ StreamsAreWritten' /\ StreamsGrow'
  BY <1>3, <1>4 DEF WrittenAreInStreams, StreamsAreWritten, StreamsGrow
<1>11. ReceivedAreRead'
  <2> SUFFICES ASSUME NEW f \in Ends, NEW x \in DOMAIN received'[f]
               PROVE  \E d \in Connections : \E i \in LastUnits(d, Other(f)) :
                         /\ i <= read'[d][Other(f)]
                         /\ received'[f][x] = Whole(d, stream[d][Other(f)][i].n)
    BY <1>3, <1>4, EndFacts DEF ReceivedAreRead
  <2>1. CASE x \in DOMAIN received[f] /\ received'[f][x] = received[f][x]
    <3>1. PICK d \in Connections : \E i \in LastUnits(d, Other(f)) :
                 /\ i <= read[d][Other(f)]
                 /\ received[f][x] = Whole(d, stream[d][Other(f)][i].n)
      BY <2>1 DEF ReceivedAreRead
    <3>2. PICK i \in LastUnits(d, Other(f)) :
                 /\ i <= read[d][Other(f)]
                 /\ received[f][x] = Whole(d, stream[d][Other(f)][i].n)
      BY <3>1
    <3>3. i <= read'[d][Other(f)]
      BY <1>7, <1>8, <3>2, EndFacts
    <3> QED
      BY <2>1, <3>2, <3>3
  <2>2. CASE f = e /\ IsLast(u) /\ received'[f][x] = Whole(c, u.n)
    <3>1. r + 1 <= read'[c][o]
      BY <1>1
    <3> QED
      BY <1>1, <1>6, <2>2, <3>1 DEF o
  <2> QED
    BY <1>2, <2>1, <2>2
<1>12. ReadAreReceived'
  <2> SUFFICES ASSUME NEW f \in Ends, NEW d \in Connections, NEW i \in LastUnits(d, Other(f)),
                      i <= read'[d][Other(f)]
               PROVE  \E x \in DOMAIN received'[f] :
                          received'[f][x] = Whole(d, stream[d][Other(f)][i].n)
    BY <1>3, <1>4, EndFacts DEF ReadAreReceived
  <2>1. CASE i <= read[d][Other(f)]
    BY <1>2, <2>1 DEF ReadAreReceived
  <2>2. CASE ~(i <= read[d][Other(f)])
    <3>1. d = c /\ Other(f) = o
      BY <1>1, <2>2, EndFacts
    <3>2. f = e /\ i = r + 1
      BY <1>1, <1>7, <2>2, <3>1, EndFacts DEF o, r
    <3>3. IsLast(u)
      BY <1>1, <3>1, <3>2 DEF LastUnits
    <3> QED
      BY <1>1, <1>2, <3>1, <3>2, <3>3
  <2> QED
    BY <2>1, <2>2
<1>13. ReceivedGrow'
  <2> SUFFICES ASSUME NEW f \in Ends, NEW i \in DOMAIN received'[f], NEW j \in DOMAIN received'[f],
                      i < j
               PROVE  received'[f][i].units[1].n < received'[f][j].units[1].n
    BY DEF ReceivedGrow
  <2>1. i \in DOMAIN received[f] /\ received'[f][i] = received[f][i]
    <3> SUFFICES ASSUME f = e, i = Len(received[e]) + 1 PROVE FALSE
      BY <1>2
    <3>1. j \in 1 .. Len(received[e]) \/ j = Len(received[e]) + 1
      BY <1>2
    <3> QED
      BY <1>2, <3>1
  <2>2. CASE j \in DOMAIN received[f] /\ received'[f][j] = received[f][j]
    BY <2>1, <2>2 DEF ReceivedGrow
  <2>3. CASE f = e /\ IsLast(u) /\ received'[f][j] = Whole(c, u.n)
    <3>1. PICK d \in Connections : \E m \in LastUnits(d, o) :
                 /\ m <= read[d][o]
                 /\ received[e][i] = Whole(d, stream[d][o][m].n)
      BY <2>1, <2>3 DEF ReceivedAreRead, o
    <3>2. PICK m \in LastUnits(d, o) :
                 /\ m <= read[d][o]
                 /\ received[e][i] = Whole(d, stream[d][o][m].n)
      BY <3>1
    <3>3. m \in Nat \ {0} /\ stream[d][o][m].n \in Numbers
      BY <1>1, <1>7
    <3>4. Touched(e, d)
      BY <1>1, <1>8, <3>2, <3>3 DEF Touched, o
    <3>5. d <= c
      BY <1>3, <3>4 DEF NewAreUntouched
    <3>6. d < c \/ (d = c /\ m < r + 1)
      BY <1>1, <3>2, <3>3, <3>5 DEF Connections, r
    <3>7. stream[d][o][m].n < u.n
      BY <1>1, <1>6, <2>3, <3>6 DEF StreamsGrow
    <3>8. /\ received'[f][i].units[1].n = stream[d][o][m].n
          /\ received'[f][j].units[1].n = u.n
      BY <1>1, <2>1, <2>3, <3>2, <3>3, FrameIs, SMTT(30) DEF Whole
    <3> QED
      BY <3>7, <3>8
  <2> QED
    BY <1>2, <2>2, <2>3
<1> QED
  BY <1>9, <1>10, <1>11, <1>12, <1>13

LEMMA ReadCalls ==
    ASSUME TypeInv, BacklogInOrder, NewAreUntouched, CallsStand, NEW e \in Ends,
           NEW c, NEW u, NEW h, Reads(e, c, u, h)
    PROVE  NewAreUntouched' /\ CallsStand'
<1> DEFINE o == Other(e)
           r == read[c][o]
<1>1. /\ c \in Connections /\ o \in Ends /\ u \in Units /\ u.n \in Numbers
      /\ r \in Nat /\ read'[c][o] = r + 1
      /\ u = stream[c][o][r + 1]
      /\ \A d \in Connections, f \in Ends : d # c \/ f # o => read'[d][f] = read[d][f]
  BY ReadShape
<1>2. /\ Stays /\ stream' = stream /\ queue' = queue /\ Using(e) /\ c = link[e]
      /\ At(e) = 0 /\ Beginning(h, u)
      /\ \/ IsLast(u) /\ call' = [call EXCEPT ![e] = Idle]
         \/ ~IsLast(u) /\ call' = [call EXCEPT ![e] = Receiving(h)]
  BY DEF Reads
<1>3. \A f \in Ends : Using(f)' = Using(f) /\ link'[f] = link[f]
  BY <1>2 DEF Stays, Using
<1>4. call \in [Ends -> Calls] /\ \A f \in Ends : f # e => call'[f] = call[f]
  BY <1>2 DEF TypeInv, PacketsOK
<1> HIDE DEF o, r
<1>5. NewAreUntouched'
  <2> SUFFICES ASSUME NEW f \in Ends, NEW d \in Connections, Touched(f, d)'
               PROVE  /\ d <= made'
                      /\ Using(f)' => d <= link'[f]
                      /\ f = Server => \A i \in DOMAIN backlog' : d < backlog'[i]
    BY DEF NewAreUntouched
  <2>1. CASE d = c /\ f = e
    BY <1>2, <2>1 DEF Stays, BacklogInOrder, TypeInv, LinksOK, Using, Connections
  <2>2. CASE d # c \/ f # e
    <3>1. read'[d][Other(f)] = read[d][Other(f)]
      BY <1>1, <2>2, EndFacts DEF o
    <3>2. Touched(f, d)
      BY <1>2, <3>1 DEF Touched
    <3> QED
      BY <1>2, <3>2 DEF Stays, NewAreUntouched, Using
  <2> QED
    BY <2>1, <2>2
<1>6. WriterAt(e)'
  <2>1. At(e)' = 0 /\ call'[e].op # "flush"
    BY <1>2, <1>4 DEF At, Idle, Receiving
  <2>2. WriterAt(e)
    BY DEF CallsStand
  <2> QED
    BY <1>2, <1>3, <2>1, <2>2 DEF WriterAt
<1>7. ReaderAt(e)'
  <2>1. Using(e)' /\ link'[e] = c /\ stream'[c][o][read'[c][o]] = u /\ read'[c][o] > 0
    BY <1>1, <1>2, <1>3
  <2>2. CASE IsLast(u)
    <3>1. Got(e)' = <<>>
      BY <1>2, <1>4, <2>2 DEF Got, Idle
    <3>2. IsLast(stream'[c][o][read'[c][o]])
      BY <2>1, <2>2
    <3> QED
      BY <2>1, <3>1, <3>2 DEF ReaderAt, o
  <2>3. CASE ~IsLast(u)
    <3>1. Got(e)' = h
      BY <1>2, <1>4, <2>3 DEF Got, Receiving
    <3>2. /\ h \in Seq(Units) /\ Len(h) = u.k + 1 /\ h[1].n = u.n
          /\ u = Unit(u.n, u.k) /\ u.k <= Body(u.n) /\ u.k \in Nat /\ Body(u.n) \in Nat
          /\ \A i \in 1 .. Len(h) : h[i] = Unit(u.n, i - 1)
      BY <1>1, <1>2, NumberFacts DEF Beginning, Units
    <3>3. h # <<>>
      BY <3>2, EmptySeq
    <3>4. Len(h) <= Body(h[1].n) /\ u.k = Len(h) - 1
      BY <2>3, <3>2 DEF IsLast
    <3>5. stream'[c][o][read'[c][o]] = Unit(h[1].n, Len(h) - 1)
      BY <2>1, <3>2, <3>4
    <3> QED
      BY <2>1, <3>1, <3>2, <3>3, <3>4, <3>5 DEF ReaderAt, o
  <2> QED
    BY <2>2, <2>3
<1>8. ASSUME NEW f \in Ends, f # e PROVE WriterAt(f)' /\ ReaderAt(f)'
  <2>1. /\ WriterAt(f) /\ ReaderAt(f) /\ At(f)' = At(f) /\ Got(f)' = Got(f)
        /\ call'[f] = call[f] /\ Using(f)' = Using(f) /\ link'[f] = link[f]
    BY <1>3, <1>4, <1>8 DEF CallsStand, At, Got
  <2>2. Using(f) => read'[link[f]][Other(f)] = read[link[f]][Other(f)]
    <3>1. Using(f) => link[f] \in Connections
      BY NumberFacts DEF Using, TypeInv, LinksOK, Connections
    <3>2. Other(f) # o
      BY <1>8, EndFacts DEF o
    <3> QED
      BY <1>1, <3>1, <3>2, EndFacts
  <2> QED
    BY <1>2, <2>1, <2>2 DEF WriterAt, ReaderAt
<1> QED
  BY <1>5, <1>6, <1>7, <1>8 DEF CallsStand

LEMMA ReadStep ==
    ASSUME TypeInv, BacklogInOrder, NewAreUntouched, FramesInv, CallsStand,
           QueuedOrWritten, ClearedWereQueued, NEW e \in Ends, ReadUnit(e)
    PROVE  /\ Stays /\ PacketsOK' /\ NewAreUntouched' /\ FramesInv' /\ CallsStand'
           /\ ClearedWereQueued' /\ QueuedOrWritten'
<1>1. PICK c, u, h : Reads(e, c, u, h)
  BY ReadUnitIs
<1>2. PacketsOK'
  BY <1>1, ReadTypes
<1>3. NewAreUntouched' /\ CallsStand'
  BY <1>1, ReadCalls
<1>4. FramesInv'
  BY <1>1, ReadHistory
<1>5. Stays /\ UNCHANGED <<queue, written, enqueued, cleared>>
  BY <1>1 DEF Reads
<1>6. ClearedWereQueued' /\ QueuedOrWritten'
  BY <1>5 DEF ClearedWereQueued, QueuedOrWritten, Handled
<1> QED
  BY <1>2, <1>3, <1>4, <1>5, <1>6

-----------------------------------------------------------------------------
(* The inductive invariant *)

\* The descriptors an end has lost were given up by its failures, one each.
LostAreFailures ==
    \A e \in Ends : Cardinality(LostBy(e)) <= failures[e]

TcpInv ==
    /\ TypeInv /\ BacklogInOrder /\ NewAreUntouched /\ FramesInv /\ CallsStand
    /\ ClearedWereQueued /\ QueuedOrWritten /\ LostAreFailures

LEMMA TcpInit == Init => TcpInv
<1> SUFFICES ASSUME Init PROVE TcpInv
  OBVIOUS
<1> USE DEF Init
<1>1. LinksOK
  <2>1. <<>> \in Seq(Connections) /\ 0 \in 0 .. MaxConnections
    BY NumberFacts
  <2> QED
    BY <2>1 DEF LinksOK, States
<1>2. PacketsOK
  <2>1. /\ <<>> \in Seq(Units) /\ <<>> \in Seq(Numbers)
        /\ <<>> \in Seq([on : Connections, n : Numbers])
        /\ <<>> \in Seq([on : Connections, units : Seq(Units)])
        /\ Idle \in Calls
    BY DEF Calls
  <2> QED
    BY <2>1 DEF PacketsOK
<1>3. BacklogInOrder /\ NewAreUntouched
  BY EndFacts DEF BacklogInOrder, NewAreUntouched, Touched
<1>4. \A c \in Connections, e \in Ends : LastUnits(c, e) = {}
  BY DEF LastUnits
<1>5. FramesInv
  <2>1. StreamsFramed
    BY DEF StreamsFramed
  <2> QED
    BY <1>4, <2>1, EndFacts
       DEF FramesInv, WrittenAreInStreams, StreamsAreWritten, ReceivedAreRead,
           ReadAreReceived, StreamsGrow, ReceivedGrow
<1>6. CallsStand
  BY EndFacts DEF CallsStand, WriterAt, ReaderAt, At, Got, Using, Idle
<1>7. ClearedWereQueued
  BY DEF ClearedWereQueued
<1>8. QueuedOrWritten
  <2> SUFFICES ASSUME NEW e \in Ends
               PROVE  /\ Range(HandledOf(e)) = (1 .. enqueued[e]) \ cleared[e]
                      /\ Increasing(HandledOf(e))
    BY HandledIs
  <2>1. HandledOf(e) = Joined(<<>>, <<>>)
    BY DEF HandledOf
  <2>2. DOMAIN Joined(<<>>, <<>>) = {}
    <3> DEFINE none == <<>>
    <3>1. none \in WrittenSeqs /\ none \in Seq(Numbers) /\ Len(none) = 0
      BY DEF WrittenSeqs
    <3> HIDE DEF none
    <3>2. DOMAIN Joined(none, none) = 1 .. Len(none) + Len(none)
      BY <3>1, JoinFacts
    <3>3. DOMAIN Joined(none, none) = {}
      BY <3>1, <3>2
    <3> QED
      BY <3>3 DEF none
  <2>3. (1 .. enqueued[e]) \ cleared[e] = {}
    OBVIOUS
  <2> QED
    BY <2>1, <2>2, <2>3 DEF Range, Increasing
<1>9. LostAreFailures
  <2> SUFFICES ASSUME NEW e \in Ends PROVE Cardinality(LostBy(e)) <= failures[e]
    BY DEF LostAreFailures
  <2>1. LostBy(e) = {} /\ failures[e] = 0
    BY DEF LostBy
  <2>2. Cardinality(LostBy(e)) = 0
    BY <2>1, FS_EmptySet
  <2> QED
    BY <2>1, <2>2
<1> QED
  BY <1>1, <1>2, <1>3, <1>5, <1>6, <1>7, <1>8, <1>9 DEF TcpInv, TypeInv

LEMMA LosesKeeps ==
    ASSUME LinksOK, LinksOK', LostAreFailures, Loses
    PROVE  LostAreFailures'
<1> SUFFICES ASSUME NEW e \in Ends PROVE Cardinality(LostBy(e)') <= failures'[e]
  BY DEF LostAreFailures
<1> DEFINE old == LostBy(e)
           new == LostBy(e)'
<1>1. IsFiniteSet(Connections)
  BY NumberFacts, FS_Interval DEF Connections
<1>2. old \subseteq Connections /\ new \subseteq Connections
  BY DEF LinksOK, LostBy
<1>3. /\ failures[e] \in Nat /\ Cardinality(old) <= failures[e]
      /\ \/ failures'[e] = failures[e] /\ new \subseteq old
         \/ failures'[e] = failures[e] + 1 /\ new \subseteq old \cup {link[e]}
  BY DEF LinksOK, LostAreFailures, Loses
<1> HIDE DEF old, new
<1>4. IsFiniteSet(old) /\ Cardinality(old) \in Nat
  BY <1>1, <1>2, FS_Subset, FS_CardinalityType
<1>5. CASE failures'[e] = failures[e] /\ new \subseteq old
  <2>1. IsFiniteSet(new) /\ Cardinality(new) <= Cardinality(old)
    BY <1>4, <1>5, FS_Subset
  <2>2. Cardinality(new) \in Nat
    BY <2>1, FS_CardinalityType
  <2> QED
    BY <1>3, <1>4, <1>5, <2>1, <2>2 DEF new
<1>6. CASE failures'[e] = failures[e] + 1 /\ new \subseteq old \cup {link[e]}
  <2> DEFINE more == old \cup {link[e]}
  <2>1. IsFiniteSet(more) /\ Cardinality(more) <= Cardinality(old) + 1
    BY <1>4, FS_AddElement
  <2>2. Cardinality(more) \in Nat
    BY <2>1, FS_CardinalityType
  <2> HIDE DEF more
  <2>3. new \in SUBSET more
    BY <1>6 DEF more
  <2>4. IsFiniteSet(new) /\ Cardinality(new) <= Cardinality(more)
    BY <2>1, <2>3, FS_Subset
  <2>5. Cardinality(new) \in Nat
    BY <2>4, FS_CardinalityType
  <2> QED
    BY <1>3, <1>4, <1>6, <2>1, <2>2, <2>4, <2>5 DEF new
<1> QED
  BY <1>3, <1>5, <1>6

\* The steps that leave the packets alone.
Relinking ==
    \/ Connect \/ Listen \/ Accept \/ Break \/ UNCHANGED vars
    \/ \E e \in Ends :
          Close(e) \/ Reconnect(e) \/ Refuse(e) \/ WriteFails(e) \/ ReadFails(e)

LEMMA RelinkingStep ==
    ASSUME TcpInv, Relinking
    PROVE  TcpInv'
<1> USE DEF TcpInv
<1>1. LinksOK' /\ Loses /\ Relinks
  <2>1. CASE Connect
    BY <2>1, ConnectStep
  <2>2. CASE Listen
    BY <2>2, ListenStep
  <2>3. CASE Accept
    BY <2>3, AcceptStep DEF BacklogInOrder
  <2>4. CASE Break \/ UNCHANGED vars
    BY <2>4, IdleStep
  <2>5. ASSUME NEW e \in Ends,
               Close(e) \/ Reconnect(e) \/ Refuse(e) \/ WriteFails(e) \/ ReadFails(e)
        PROVE  LinksOK' /\ Loses /\ Relinks
    BY <2>5, CloseStep, EnsureStep, FailStep
  <2> QED
    BY <2>1, <2>2, <2>3, <2>4, <2>5 DEF Relinking
<1>2. BacklogInOrder' /\ NewAreUntouched'
  BY <1>1, RelinksInOrder
<1>3. PacketsOK' /\ FramesInv' /\ CallsStand' /\ QueuedOrWritten'
  BY <1>1, RelinksKeeps
<1>4. ClearedWereQueued'
  BY <1>1 DEF Relinks, ClearedWereQueued
<1>5. LostAreFailures'
  BY <1>1, LosesKeeps DEF TypeInv
<1> QED
  BY <1>1, <1>2, <1>3, <1>4, <1>5 DEF TypeInv

\* The steps that touch them.
Packeting(e) ==
    Enqueue(e) \/ Clear(e) \/ Flush(e) \/ Receive(e) \/ WriteUnit(e) \/ ReadUnit(e)

LEMMA PacketingStep ==
    ASSUME TcpInv, NEW e \in Ends, Packeting(e)
    PROVE  TcpInv'
<1> USE DEF TcpInv
<1>1. /\ Stays /\ PacketsOK' /\ NewAreUntouched' /\ FramesInv' /\ CallsStand'
      /\ ClearedWereQueued' /\ QueuedOrWritten'
  BY EnqueueStep, ClearStep, BeginStep, WriteStep, ReadStep DEF Packeting
<1>2. LinksOK' /\ Loses /\ BacklogInOrder'
  BY <1>1, StaysKeeps
<1>3. LostAreFailures'
  BY <1>2, LosesKeeps DEF TypeInv
<1> QED
  BY <1>1, <1>2, <1>3 DEF TypeInv

LEMMA NextKinds ==
    ASSUME [Next]_vars
    PROVE  Relinking \/ \E e \in Ends : Packeting(e)
  BY DEF Next, Step, Relinking, Packeting

LEMMA TcpStep == TcpInv /\ [Next]_vars => TcpInv'
  BY NextKinds, RelinkingStep, PacketingStep

\* However calls, timeouts and resets fall together, every stream is whole
\* frames, of which the last may be cut; a call in progress stands at the end
\* of one; and the histories agree with the queues and the streams.
THEOREM TcpInvariant == Spec => []TcpInv
  BY TcpInit, TcpStep, PTL DEF Spec

-----------------------------------------------------------------------------
(* What follows from it *)

\* No packet is lost between the queue and the sockets, whatever fails.
THEOREM NoneSkipped == Spec => []QueuedOrWritten
<1>1. TcpInv => QueuedOrWritten
  BY DEF TcpInv
<1> QED
  BY <1>1, TcpInvariant, PTL

\* The written packets of an end have increasing numbers, among those it queued.
LEMMA WrittenGrow ==
    ASSUME TcpInv, NEW e \in Ends
    PROVE  /\ DOMAIN written[e] = 1 .. Len(written[e]) /\ Len(written[e]) \in Nat
           /\ \A j \in DOMAIN written[e] : written[e][j].n \in 1 .. enqueued[e]
           /\ \A i, j \in DOMAIN written[e] : i < j => written[e][i].n < written[e][j].n
<1>1. written[e] \in WrittenSeqs /\ queue[e] \in Seq(Numbers)
  BY DEF TcpInv, TypeInv, PacketsOK, WrittenSeqs
<1>2. /\ Range(HandledOf(e)) = (1 .. enqueued[e]) \ cleared[e]
      /\ Increasing(HandledOf(e))
  BY HandledIs DEF TcpInv
<1>3. /\ DOMAIN written[e] = 1 .. Len(written[e]) /\ Len(written[e]) \in Nat
      /\ \A j \in DOMAIN written[e] :
            j \in DOMAIN HandledOf(e) /\ HandledOf(e)[j] = written[e][j].n
  <2>1. DOMAIN written[e] = 1 .. Len(written[e])
    BY <1>1 DEF WrittenSeqs
  <2>2. /\ Len(written[e]) \in Nat /\ Len(queue[e]) \in Nat
        /\ DOMAIN HandledOf(e) = 1 .. Len(written[e]) + Len(queue[e])
        /\ \A j \in 1 .. Len(written[e]) : HandledOf(e)[j] = written[e][j].n
    BY <1>1, JoinFacts DEF HandledOf
  <2>3. \A j \in 1 .. Len(written[e]) : j \in 1 .. Len(written[e]) + Len(queue[e])
    <3>1. \A a, b \in Nat : \A j \in 1 .. a : j \in 1 .. a + b
      OBVIOUS
    <3> QED
      BY <2>2, <3>1
  <2> QED
    BY <2>1, <2>2, <2>3, Zenon
<1>4. \A j \in DOMAIN written[e] : written[e][j].n \in 1 .. enqueued[e]
  BY <1>2, <1>3 DEF Range
<1>5. \A i, j \in DOMAIN written[e] : i < j => written[e][i].n < written[e][j].n
  BY <1>2, <1>3 DEF Increasing
<1> QED
  BY <1>3, <1>4, <1>5

\* What was received: a whole frame, read from the stream of a connection.
LEMMA ReceivedIs ==
    ASSUME TcpInv, NEW e \in Ends, NEW i \in DOMAIN received[e]
    PROVE  \E c \in Connections : \E m \in LastUnits(c, Other(e)) :
              /\ m \in Nat \ {0} /\ m <= read[c][Other(e)] /\ read[c][Other(e)] \in Nat
              /\ stream[c][Other(e)][m].n \in Numbers
              /\ received[e][i] = Whole(c, stream[c][Other(e)][m].n)
              /\ received[e][i].units[1].n = stream[c][Other(e)][m].n
              /\ \E j \in DOMAIN written[Other(e)] :
                    written[Other(e)][j] = Written(c, stream[c][Other(e)][m].n)
<1> DEFINE o == Other(e)
<1>1. o \in Ends
  BY EndFacts
<1>2. PICK c \in Connections : \E m \in LastUnits(c, o) :
          m <= read[c][o] /\ received[e][i] = Whole(c, stream[c][o][m].n)
  BY DEF TcpInv, FramesInv, ReceivedAreRead
<1>3. PICK m \in LastUnits(c, o) :
          m <= read[c][o] /\ received[e][i] = Whole(c, stream[c][o][m].n)
  BY <1>2
<1> HIDE DEF o
<1>4. stream[c][o] \in Seq(Units) /\ read[c][o] \in Nat /\ m \in 1 .. Len(stream[c][o])
  BY <1>1 DEF TcpInv, TypeInv, PacketsOK, LastUnits
<1>5. stream[c][o][m] \in Units /\ m \in Nat \ {0}
  BY <1>4
<1>6. stream[c][o][m].n \in Numbers
  BY <1>5 DEF Units
<1>7. received[e][i].units[1].n = stream[c][o][m].n
  BY <1>3, <1>6, FrameIs DEF Whole
<1>8. \E j \in DOMAIN written[o] : written[o][j] = Written(c, stream[c][o][m].n)
  BY <1>1 DEF TcpInv, FramesInv, StreamsAreWritten
<1> QED
  BY <1>3, <1>4, <1>5, <1>6, <1>7, <1>8 DEF o

LEMMA InTurn == TcpInv => ReceivedInTurn
<1> SUFFICES ASSUME TcpInv, NEW e \in Ends, NEW i \in DOMAIN received[e]
             PROVE  \E j \in DOMAIN written[Other(e)] :
                       /\ Is(received[e][i], written[Other(e)][j])
                       /\ \A k \in 1 .. j - 1 :
                             written[Other(e)][k].on = received[e][i].on =>
                                \E h \in 1 .. i - 1 : Is(received[e][h], written[Other(e)][k])
  BY DEF ReceivedInTurn
<1> DEFINE o == Other(e)
           w == written[o]
<1>1. o \in Ends
  BY EndFacts
<1>2. PICK c \in Connections : \E m \in LastUnits(c, o) :
          /\ m \in Nat \ {0} /\ m <= read[c][o] /\ read[c][o] \in Nat
          /\ stream[c][o][m].n \in Numbers
          /\ received[e][i] = Whole(c, stream[c][o][m].n)
          /\ received[e][i].units[1].n = stream[c][o][m].n
          /\ \E j \in DOMAIN w : w[j] = Written(c, stream[c][o][m].n)
  BY ReceivedIs
<1>3. PICK m \in LastUnits(c, o) :
          /\ m \in Nat \ {0} /\ m <= read[c][o] /\ read[c][o] \in Nat
          /\ stream[c][o][m].n \in Numbers
          /\ received[e][i] = Whole(c, stream[c][o][m].n)
          /\ received[e][i].units[1].n = stream[c][o][m].n
          /\ \E j \in DOMAIN w : w[j] = Written(c, stream[c][o][m].n)
  BY <1>2
<1>4. PICK j \in DOMAIN w : w[j] = Written(c, stream[c][o][m].n)
  BY <1>3
<1>5. Is(received[e][i], w[j])
  BY <1>3, <1>4 DEF Is, Whole, Written
<1>6. /\ DOMAIN w = 1 .. Len(w) /\ Len(w) \in Nat
      /\ \A k \in DOMAIN w : w[k].n \in 1 .. enqueued[o]
      /\ \A h, k \in DOMAIN w : h < k => w[h].n < w[k].n
  BY <1>1, WrittenGrow
<1>7. DOMAIN received[e] = 1 .. Len(received[e]) /\ Len(received[e]) \in Nat
  BY DEF TcpInv, TypeInv, PacketsOK
<1>8. ASSUME NEW k \in 1 .. j - 1, w[k].on = received[e][i].on
      PROVE  \E h \in 1 .. i - 1 : Is(received[e][h], w[k])
  <2>1. k \in DOMAIN w /\ k < j
    BY <1>6
  <2>2. PICK d \in Connections : \E p \in LastUnits(d, o) : w[k] = Written(d, stream[d][o][p].n)
    BY <1>1, <2>1 DEF TcpInv, FramesInv, WrittenAreInStreams
  <2>3. d = c
    BY <1>3, <1>8, <2>2 DEF Written, Whole
  <2>4. PICK p \in LastUnits(c, o) : w[k] = Written(c, stream[c][o][p].n)
    BY <2>2, <2>3
  <2> DEFINE a == stream[c][o][p].n
             b == stream[c][o][m].n
  <2>5. a < b /\ a \in Nat /\ b \in Nat
    BY <1>4, <1>6, <2>1, <2>4 DEF Written
  <2>6. p \in Nat /\ a \in Numbers
    <3>1. stream[c][o] \in Seq(Units) /\ p \in 1 .. Len(stream[c][o])
      BY <1>1 DEF TcpInv, TypeInv, PacketsOK, LastUnits
    <3>2. stream[c][o][p] \in Units
      BY <3>1
    <3> QED
      BY <3>1, <3>2 DEF Units
  <2>7. p < m
    <3>1. m < p => b < a
      BY <1>1 DEF TcpInv, FramesInv, StreamsGrow
    <3>2. m = p => a = b
      OBVIOUS
    <3> HIDE DEF a, b
    <3> QED
      BY <1>3, <2>5, <2>6, <3>1, <3>2
  <2>8. PICK x \in DOMAIN received[e] : received[e][x] = Whole(c, a)
    <3>1. p <= read[c][o]
      BY <1>3, <2>6, <2>7
    <3> QED
      BY <3>1 DEF TcpInv, FramesInv, ReadAreReceived
  <2>9. received[e][x].units[1].n = a
    BY <2>6, <2>8, FrameIs DEF Whole
  <2>10. x < i
    <3>1. i < x => b < a
      BY <1>3, <2>9 DEF TcpInv, FramesInv, ReceivedGrow
    <3>2. i = x => a = b
      BY <1>3, <2>9
    <3> HIDE DEF a, b
    <3> QED
      BY <1>7, <2>5, <3>1, <3>2
  <2>11. x \in 1 .. i - 1
    BY <1>7, <2>10
  <2>12. Is(received[e][x], w[k])
    BY <2>4, <2>8 DEF Is, Whole, Written
  <2> QED
    BY <2>11, <2>12
<1> QED
  BY <1>5, <1>8

\* A connection loses packets only at its end.
THEOREM LossOnlyAtTheEnd == Spec => []ReceivedInTurn
  BY TcpInvariant, InTurn, PTL

\* The descriptors that close() will not close are at most as many as the
\* calls that failed.
THEOREM LeaksAreBounded == Spec => []LeaksAreFailures
<1>1. TcpInv => LeaksAreFailures
  <2> SUFFICES ASSUME TcpInv, NEW e \in Ends
               PROVE  Cardinality(open[e] \ ({link[e]} \cup Range(backlog))) <= failures[e]
    BY DEF LeaksAreFailures
  <2> DEFINE lost == LostBy(e)
             leaked == open[e] \ ({link[e]} \cup Range(backlog))
  <2>1. leaked \subseteq lost
    BY DEF LostBy, Held
  <2>2. IsFiniteSet(Connections) /\ lost \subseteq Connections
    BY NumberFacts, FS_Interval DEF Connections, TcpInv, TypeInv, LinksOK, LostBy
  <2>3. Cardinality(lost) <= failures[e] /\ failures[e] \in Nat
    BY DEF TcpInv, LostAreFailures, TypeInv, LinksOK
  <2> HIDE DEF lost, leaked
  <2>4. IsFiniteSet(lost)
    BY <2>2, FS_Subset
  <2>5. IsFiniteSet(leaked) /\ Cardinality(leaked) <= Cardinality(lost)
    BY <2>1, <2>4, FS_Subset
  <2>6. Cardinality(lost) \in Nat /\ Cardinality(leaked) \in Nat
    BY <2>4, <2>5, FS_CardinalityType
  <2>7. Cardinality(leaked) <= failures[e]
    BY <2>3, <2>5, <2>6
  <2> QED
    BY <2>7 DEF leaked
<1> QED
  BY <1>1, TcpInvariant, PTL

-----------------------------------------------------------------------------
(* Each direction implements RecordStream *)

\* A received packet is one that the other end queued, as it was.
ReceivedWereQueued ==
    \A e \in Ends : \A i \in DOMAIN received[e] :
        /\ received[e][i].units[1].n \in 1 .. enqueued[Other(e)]
        /\ received[e][i].units = Frame(received[e][i].units[1].n)

LEMMA FromQueues == TcpInv => ReceivedWereQueued
<1> SUFFICES ASSUME TcpInv, NEW e \in Ends, NEW i \in DOMAIN received[e]
             PROVE  /\ received[e][i].units[1].n \in 1 .. enqueued[Other(e)]
                    /\ received[e][i].units = Frame(received[e][i].units[1].n)
  BY DEF ReceivedWereQueued
<1> DEFINE o == Other(e)
<1>1. PICK c \in Connections : \E m \in LastUnits(c, o) :
          /\ received[e][i] = Whole(c, stream[c][o][m].n)
          /\ received[e][i].units[1].n = stream[c][o][m].n
          /\ \E j \in DOMAIN written[o] : written[o][j] = Written(c, stream[c][o][m].n)
  BY ReceivedIs
<1>2. PICK n : /\ received[e][i] = Whole(c, n)
               /\ received[e][i].units[1].n = n
               /\ \E j \in DOMAIN written[o] : written[o][j] = Written(c, n)
  BY <1>1
<1>3. PICK j \in DOMAIN written[o] : written[o][j] = Written(c, n)
  BY <1>2
<1>4. written[o][j].n = n /\ written[o][j].n \in 1 .. enqueued[o]
  BY <1>3, EndFacts, WrittenGrow DEF Written
<1> QED
  BY <1>2, <1>4 DEF Whole

\* What a step shows of the packets: one more is queued, or received.
Shows(f, w) ==
    \/ UNCHANGED <<enqueued, received>>
    \/ /\ received' = received
       /\ enqueued[f] < MaxPackets(f)
       /\ enqueued' = [enqueued EXCEPT ![f] = enqueued[f] + 1]
    \/ /\ enqueued' = enqueued
       /\ w \in [on : Connections, units : Seq(Units)]
       /\ received' = [received EXCEPT ![f] = Append(received[f], w)]

LEMMA StepsShow ==
    ASSUME TcpInv, [Next]_vars
    PROVE  \E f \in Ends : \E w : Shows(f, w)
<1> USE DEF TcpInv
<1>1. CASE Relinking
  <2>1. UNCHANGED <<enqueued, received>>
    BY <1>1 DEF Relinking, Connect, Listen, Accept, Break, Close, Reconnect, Refuse,
                WriteFails, ReadFails, vars, history, queued
  <2> QED
    BY <2>1, EndFacts DEF Shows
<1>2. ASSUME NEW f \in Ends, Enqueue(f) PROVE \E w : Shows(f, w)
  BY <1>2 DEF Enqueue, Shows
<1>3. ASSUME NEW f \in Ends, Clear(f) \/ Flush(f) \/ Receive(f) \/ WriteUnit(f)
      PROVE  \E w : Shows(f, w)
  <2>1. UNCHANGED <<enqueued, received>>
    BY <1>3, SMTT(30) DEF Clear, Flush, Receive, Begin, WriteUnit, history, queued
  <2> QED
    BY <2>1 DEF Shows
<1>4. ASSUME NEW f \in Ends, ReadUnit(f) PROVE \E w : Shows(f, w)
  <2>1. PICK c, u, h : Reads(f, c, u, h)
    BY <1>4, ReadUnitIs
  <2>2. Whole(c, u.n) \in [on : Connections, units : Seq(Units)]
    BY <2>1, ReadShape, FrameIs DEF Whole
  <2> QED
    BY <2>1, <2>2 DEF Reads, Shows
<1> QED
  BY <1>1, <1>2, <1>3, <1>4, NextKinds DEF Packeting

\* What e has received, as RecordStream sees it.
Shown(x) == [n |-> x.units[1].n, record |-> x.units]
AllShown(s) == [i \in DOMAIN s |-> Shown(s[i])]

LEMMA MoreShown ==
    ASSUME NEW R, NEW s \in Seq(R), NEW x \in R, NEW g, g = AllShown(s),
           NEW h, h = AllShown(Append(s, x))
    PROVE  /\ Len(s) \in Nat /\ Len(g) = Len(s) /\ Len(h) = Len(s) + 1
           /\ DOMAIN h = 1 .. Len(s) + 1
           /\ SubSeq(h, 1, Len(g)) = g
<1> DEFINE t == Append(s, x)
           m == Len(s)
<1>1. /\ m \in Nat /\ DOMAIN s = 1 .. m /\ DOMAIN t = 1 .. m + 1
      /\ \A i \in 1 .. m : t[i] = s[i]
  OBVIOUS
<1> HIDE DEF t, m
<1>2. /\ g = [i \in 1 .. m |-> Shown(s[i])] /\ h = [i \in 1 .. m + 1 |-> Shown(t[i])]
  BY <1>1 DEF AllShown, t
<1> HIDE DEF Shown
<1>3. Len(g) = m /\ Len(h) = m + 1 /\ DOMAIN h = 1 .. m + 1
  BY <1>1, <1>2
<1>4. SubSeq(h, 1, m) = [i \in 1 .. m |-> h[i]]
  BY <1>1, <1>2
<1>5. \A i \in 1 .. m : h[i] = Shown(s[i])
  BY <1>1, <1>2
<1>6. SubSeq(h, 1, m) = g
  BY <1>2, <1>4, <1>5
<1> QED
  BY <1>1, <1>3, <1>6 DEF m

LEMMA ReturnedIs ==
    ASSUME NEW e \in Ends
    PROVE  Returned(e) = AllShown(received[e])
  BY DEF Returned, AllShown, Shown

LEMMA OneMoreQueued ==
    ASSUME NEW k \in Nat, k + 1 \in Numbers
    PROVE  [n \in 1 .. k + 1 |-> Frame(n)] = Append([n \in 1 .. k |-> Frame(n)], Frame(k + 1))
  OBVIOUS

\* A step in which e receives, or its other end queues, is one of RecordStream.
StreamSteps(e) ==
    LET old == Queued(Other(e))
        got == Returned(e)
    IN  \/ UNCHANGED <<Queued(Other(e)), Returned(e)>>
        \/ /\ \E r \in Packets : Queued(Other(e))' = Append(old, r)
           /\ Returned(e)' = got
        \/ /\ Len(Returned(e)') > Len(got)
           /\ SubSeq(Returned(e)', 1, Len(got)) = got
           /\ \A i \in DOMAIN Returned(e)' :
                 /\ Returned(e)'[i].n \in DOMAIN old
                 /\ old[Returned(e)'[i].n] = Returned(e)'[i].record
           /\ \A i \in Len(got) + 1 .. Len(Returned(e)') :
                 i > 1 => Returned(e)'[i - 1].n < Returned(e)'[i].n
           /\ Queued(Other(e))' = old

LEMMA StepsAreStreamed ==
    ASSUME TcpInv, TcpInv', ReceivedWereQueued', [Next]_vars, NEW e \in Ends
    PROVE  StreamSteps(e)
<1> DEFINE o == Other(e)
<1>1. PICK f \in Ends : \E w : Shows(f, w)
  BY StepsShow
<1>10. PICK w : Shows(f, w)
  BY <1>1
<1>2. /\ enqueued \in [Ends -> Nat] /\ o \in Ends
      /\ received \in [Ends -> Seq([on : Connections, units : Seq(Units)])]
  BY EndFacts DEF TcpInv, TypeInv, PacketsOK
<1>3. CASE UNCHANGED <<enqueued[o], received[e]>>
  BY <1>3 DEF StreamSteps, Queued, Returned
<1>4. CASE /\ f = o /\ received' = received /\ enqueued[f] < MaxPackets(f)
           /\ enqueued' = [enqueued EXCEPT ![f] = enqueued[f] + 1]
  <2> DEFINE k == enqueued[o]
  <2>1. k \in Nat /\ enqueued'[o] = k + 1 /\ k + 1 \in 1 .. MaxPackets(o)
    BY <1>2, <1>4, TcpAssumption
  <2>2. k + 1 \in Numbers
    BY <1>2, <2>1, NumberFacts
  <2>3. /\ Queued(o) = [n \in 1 .. k |-> Frame(n)]
        /\ Queued(o)' = [n \in 1 .. k + 1 |-> Frame(n)]
    BY <2>1 DEF Queued
  <2>4. Queued(o)' = Append(Queued(o), Frame(k + 1))
    <3> HIDE DEF k
    <3> QED
      BY <2>1, <2>2, <2>3, OneMoreQueued
  <2>5. Frame(k + 1) \in Packets
    BY <2>2 DEF Packets
  <2>6. Returned(e)' = Returned(e)
    BY <1>4 DEF Returned
  <2> QED
    BY <2>4, <2>5, <2>6 DEF StreamSteps
<1>5. CASE /\ f = e /\ enqueued' = enqueued
           /\ w \in [on : Connections, units : Seq(Units)]
           /\ received' = [received EXCEPT ![f] = Append(received[f], w)]
  <2>1. received'[e] = Append(received[e], w)
    BY <1>2, <1>5
  <2>2. PICK s \in Seq([on : Connections, units : Seq(Units)]) : s = received[e]
    BY <1>2
  <2>3. PICK g, h : g = AllShown(s) /\ h = AllShown(Append(s, w))
    OBVIOUS
  <2>4. Returned(e) = g /\ Returned(e)' = h
    BY <2>1, <2>2, <2>3 DEF Returned, AllShown, Shown
  <2>5. /\ Len(s) \in Nat /\ Len(g) = Len(s) /\ Len(h) = Len(s) + 1
        /\ DOMAIN h = 1 .. Len(s) + 1 /\ SubSeq(h, 1, Len(g)) = g
    <3> DEFINE R == [on : Connections, units : Seq(Units)]
    <3>1. s \in Seq(R) /\ w \in R
      BY <1>5
    <3> HIDE DEF R
    <3> QED
      BY <2>3, <3>1, MoreShown
  <2>6. PICK t : t = received'[e]
    OBVIOUS
  <2>7. h = [i \in DOMAIN t |-> Shown(t[i])] /\ DOMAIN t = 1 .. Len(s) + 1
    BY <2>1, <2>2, <2>3, <2>5, <2>6 DEF AllShown
  <2>8. PICK q : q = Queued(o)
    OBVIOUS
  <2>9. q = [n \in 1 .. enqueued[o] |-> Frame(n)] /\ Queued(o)' = q
    BY <1>5, <2>8 DEF Queued
  <2>10. ASSUME NEW i \in DOMAIN h PROVE h[i].n \in DOMAIN q /\ q[h[i].n] = h[i].record
    <3>1. i \in DOMAIN t /\ h[i] = Shown(t[i])
      BY <2>7
    <3>2. t[i].units[1].n \in 1 .. enqueued[o] /\ t[i].units = Frame(t[i].units[1].n)
      BY <1>5, <2>6, <3>1 DEF ReceivedWereQueued
    <3> QED
      BY <2>9, <3>1, <3>2 DEF Shown
  <2>11. ASSUME NEW i \in Len(g) + 1 .. Len(h), i > 1 PROVE h[i - 1].n < h[i].n
    <3>1. i \in DOMAIN t /\ i - 1 \in DOMAIN t /\ i - 1 < i
      BY <2>5, <2>7, <2>11
    <3>2. t[i - 1].units[1].n < t[i].units[1].n
      BY <2>6, <3>1 DEF TcpInv, FramesInv, ReceivedGrow
    <3> QED
      BY <2>7, <3>1, <3>2 DEF Shown
  <2>12. Len(h) > Len(g)
    BY <2>5
  <2> QED
    BY <2>4, <2>5, <2>8, <2>9, <2>10, <2>11, <2>12 DEF StreamSteps
<1>6. CASE f # o /\ received' = received /\ enqueued' = [enqueued EXCEPT ![f] = enqueued[f] + 1]
  BY <1>2, <1>3, <1>6
<1>7. CASE /\ f # e /\ enqueued' = enqueued
           /\ received' = [received EXCEPT ![f] = Append(received[f], w)]
  BY <1>2, <1>3, <1>7
<1>8. CASE UNCHANGED <<enqueued, received>>
  BY <1>3, <1>8
<1> QED
  BY <1>10, <1>4, <1>5, <1>6, <1>7, <1>8 DEF Shows

\* Seen by the programs, each direction is a stream of packets: TcpLink
\* implements RecordStream twice, under the two mappings.
THEOREM TcpIsFaithful == Spec => Faithful
<1> DEFINE Inv == TcpInv /\ ReceivedWereQueued
<1>1. Init => Requests!Init /\ Replies!Init
  <2> SUFFICES ASSUME Init, NEW e \in Ends PROVE Queued(e) = <<>> /\ Returned(e) = <<>>
    BY EndFacts DEF Requests!Init, Replies!Init
  <2>1. enqueued[e] = 0 /\ received[e] = <<>>
    BY DEF Init
  <2> QED
    BY <2>1 DEF Queued, Returned
<1>2. Spec => []Inv
  BY TcpInvariant, FromQueues, PTL
<1>3. /\ Other(Server) = Client /\ Other(Client) = Server
      /\ Client \in Ends /\ Server \in Ends
  BY TcpAssumption DEF Other, Ends
<1>4. Inv /\ Inv' /\ [Next]_vars => [Requests!Next]_<<Queued(Client), Returned(Server)>>
  <2> SUFFICES ASSUME Inv, Inv', [Next]_vars
               PROVE  [Requests!Next]_<<Queued(Client), Returned(Server)>>
    OBVIOUS
  <2>1. StreamSteps(Server)
    BY <1>3, StepsAreStreamed
  <2> QED
    BY <1>3, <2>1
       DEF StreamSteps, Requests!Next, Requests!Send, Requests!Deliver, Requests!Faithful
<1>5. Inv /\ Inv' /\ [Next]_vars => [Replies!Next]_<<Queued(Server), Returned(Client)>>
  <2> SUFFICES ASSUME Inv, Inv', [Next]_vars
               PROVE  [Replies!Next]_<<Queued(Server), Returned(Client)>>
    OBVIOUS
  <2>1. StreamSteps(Client)
    BY <1>3, StepsAreStreamed
  <2> QED
    BY <1>3, <2>1
       DEF StreamSteps, Replies!Next, Replies!Send, Replies!Deliver, Replies!Faithful
<1> QED
  BY <1>1, <1>2, <1>4, <1>5, PTL DEF Spec, Faithful, Requests!Spec, Replies!Spec
=============================================================================
