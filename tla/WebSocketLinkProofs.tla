------------------------ MODULE WebSocketLinkProofs ------------------------
(***************************************************************************)
(* Theorems about WebSocketLink, for any messages, limits, buffers, bounds *)
(* and choice of the ends that are another implementation: what receive    *)
(* returns, and that it reads a stream frame by frame.                     *)
(***************************************************************************)
EXTENDS WebSocketLink, FiniteSetTheorems, SequenceTheorems, TLAPS

-----------------------------------------------------------------------------
(* Types *)

Numbers == UNION {1 .. MaxSends(e) : e \in Ends}
Bytes == [op : {"byte"}, n : Numbers, i : Nat]
Plain == Heads \cup Bytes
Pieces == Plain \cup {Greeting}

States == {"disconnected", "listening", "connected", "failed"}
Refusals == {"none", "message", "frame"}
Short == {h \in Heads : h.size <= MaxMessage}
Calls ==
    {Idle, Handshake, NextFrame, Responding} \cup {Payload(h) : h \in Short}
        \cup {Answering(op, b) : op \in {"pong", "close"}, b \in Seq(Plain)}
Messages == [on : Connections, bytes : Seq(Plain), after : Refusals]

\* The connections.
LinksOK ==
    /\ state \in [Ends -> States] /\ session \in [Ends -> BOOLEAN]
    /\ link \in [Ends -> Nat] /\ waiting \in Nat
    /\ made \in 0 .. MaxConnections
    /\ \A e \in Ends : link[e] <= made
    /\ waiting <= made

\* What goes through them.
StreamsOK ==
    /\ pipe \in [Connections -> [Ends -> Seq(Pieces)]]
    /\ inbound \in [Ends -> Seq(Plain)]
    /\ begun \in [Connections -> [Ends -> Seq(Numbers)]]
    /\ rest \in [Ends -> [on : BOOLEAN, bytes : Seq(Plain)]]
    /\ pings \in [Ends -> Nat]

\* The receiving ends.
ReadersOK ==
    /\ call \in [Ends -> Calls]
    /\ partial \in [Ends -> [on : BOOLEAN, bytes : Seq(Plain)]]
    /\ got \in [Ends -> Seq(Messages)]
    /\ excess \in [Ends -> Refusals]

LEMMA EndFacts ==
    /\ Client \in Ends /\ Server \in Ends /\ Client # Server
    /\ \A e \in Ends : Other(e) \in Ends /\ Other(e) # e /\ Other(Other(e)) = e
    /\ \A e \in Ends : e = Client \/ e = Server
    /\ Other(Client) = Server /\ Other(Server) = Client
  BY WebSocketAssumption DEF Ends, Other

\* The calls are told apart by their first field.
LEMMA CallFacts ==
    ASSUME NEW k \in Calls
    PROVE  /\ k.op = "none" <=> k = Idle
           /\ k.op = "handshake" <=> k = Handshake
           /\ k.op = "receive" <=> k = NextFrame
           /\ k.op = "respond" <=> k = Responding
           /\ k.op = "payload" => k.head \in Short /\ k = Payload(k.head)
           /\ k.op \in {"pong", "close"} => k.bytes \in Seq(Plain)
           /\ k.op \in {"none", "handshake", "receive", "respond", "payload", "pong", "close"}
<1>1. CASE k \in {Idle, Handshake, NextFrame, Responding}
  BY <1>1 DEF Idle, Handshake, NextFrame, Responding
<1>2. CASE k \in {Payload(h) : h \in Short}
  <2>1. PICK h \in Short : k = [op |-> "payload", head |-> h]
    BY <1>2 DEF Payload
  <2> QED
    BY <2>1 DEF Idle, Handshake, NextFrame, Responding, Payload
<1>3. CASE k \in {Answering(op, b) : op \in {"pong", "close"}, b \in Seq(Plain)}
  <2>1. PICK op \in {"pong", "close"}, b \in Seq(Plain) : k = [op |-> op, bytes |-> b]
    BY <1>3 DEF Answering
  <2> QED
    BY <2>1 DEF Idle, Handshake, NextFrame, Responding, Payload
<1> QED
  BY <1>1, <1>2, <1>3 DEF Calls

LEMMA SomeCalls ==
    /\ {Idle, Handshake, NextFrame, Responding} \subseteq Calls
    /\ \A h \in Short : Payload(h) \in Calls
    /\ \A b \in Seq(Plain) : Answering("pong", b) \in Calls /\ Answering("close", b) \in Calls
  BY DEF Calls

\* So are the pieces of a stream.
LEMMA PieceFacts ==
    /\ Greeting \notin Plain /\ Heads \cap Bytes = {}
    /\ \A h \in Heads : h.size \in Nat /\ h.op # "byte" /\ h.op # "greeting" /\ h.fin \in BOOLEAN
    /\ Greeting.op = "greeting"
    /\ Heads \subseteq Plain /\ Plain \subseteq Pieces /\ Greeting \in Pieces
    /\ Heads \subseteq Pieces
<1>1. \A h \in Heads : h.size \in Nat /\ h.op # "byte" /\ h.op # "greeting" /\ h.fin \in BOOLEAN
  BY DEF Heads
<1>2. \A x \in Bytes : x.op = "byte"
  BY DEF Bytes
<1>3. Greeting.op = "greeting"
  BY DEF Greeting
<1> QED
  BY <1>1, <1>2, <1>3 DEF Plain, Pieces

LEMMA ConnectionFacts ==
    /\ Connections \subseteq Nat \ {0}
    /\ LinksOK => \A c \in 1 .. made : c \in Connections
<1>1. MaxConnections \in Nat
  BY WebSocketAssumption
<1> QED
  BY <1>1 DEF LinksOK, Connections

\* The part of a frame that went out, at the end of the stream of its sender.
LEMMA WriteType ==
    ASSUME StreamsOK, NEW e \in Ends, link[e] \in Connections, NEW t \in Seq(Pieces),
           pipe' = Wrote(e, t)
    PROVE  /\ pipe' \in [Connections -> [Ends -> Seq(Pieces)]]
           /\ pipe'[link[e]][e] = pipe[link[e]][e] \o t
           /\ \A c \in Connections, f \in Ends :
                 c # link[e] \/ f # e => pipe'[c][f] = pipe[c][f]
<1>1. /\ pipe \in [Connections -> [Ends -> Seq(Pieces)]]
      /\ pipe[link[e]] \in [Ends -> Seq(Pieces)]
      /\ pipe[link[e]][e] \in Seq(Pieces)
  BY DEF StreamsOK
<1>2. pipe[link[e]][e] \o t \in Seq(Pieces)
  BY <1>1
<1>3. pipe' = [pipe EXCEPT ![link[e]] = [pipe[link[e]] EXCEPT ![e] = pipe[link[e]][e] \o t]]
  BY DEF Wrote
<1>4. [pipe[link[e]] EXCEPT ![e] = pipe[link[e]][e] \o t] \in [Ends -> Seq(Pieces)]
  BY <1>1, <1>2
<1> QED
  BY <1>1, <1>2, <1>3, <1>4

LEMMA FrameFacts ==
    ASSUME NEW op \in {"data", "more", "ping", "pong", "close", "other"}, NEW fin \in BOOLEAN,
           NEW bytes \in Seq(Plain)
    PROVE  /\ FrameHead(op, fin, Len(bytes)) \in Heads
           /\ FrameHead(op, fin, Len(bytes)).op = op
           /\ FrameHead(op, fin, Len(bytes)).fin = fin
           /\ FrameHead(op, fin, Len(bytes)).size = Len(bytes)
           /\ Frame(op, fin, bytes) \in Seq(Plain)
           /\ Len(Frame(op, fin, bytes)) = Len(bytes) + 1
           /\ Frame(op, fin, bytes)[1] = FrameHead(op, fin, Len(bytes))
           /\ \A i \in 1 .. Len(bytes) : Frame(op, fin, bytes)[i + 1] = bytes[i]
<1> DEFINE h == FrameHead(op, fin, Len(bytes))
<1>1. /\ h \in Heads /\ h.op = op /\ h.fin = fin /\ h.size = Len(bytes)
      /\ Len(bytes) \in Nat
  BY DEF FrameHead, Heads
<1> HIDE DEF h
<1>2. h \in Plain
  BY <1>1 DEF Plain
<1>3. Frame(op, fin, bytes) = <<h>> \o bytes
  BY DEF Frame, h
<1>4. <<h>> \in Seq(Plain) /\ Len(<<h>>) = 1 /\ <<h>>[1] = h
  BY <1>2
<1>5. /\ <<h>> \o bytes \in Seq(Plain) /\ Len(<<h>> \o bytes) = 1 + Len(bytes)
      /\ \A i \in 1 .. 1 + Len(bytes) :
            (<<h>> \o bytes)[i] = IF i <= 1 THEN <<h>>[i] ELSE bytes[i - 1]
  BY <1>4, ConcatProperties
<1>6. \A i \in 1 .. Len(bytes) : i + 1 \in 1 .. 1 + Len(bytes) /\ ~(i + 1 <= 1) /\ i + 1 - 1 = i
  BY <1>1
<1>7. \A i \in 1 .. Len(bytes) : (<<h>> \o bytes)[i + 1] = bytes[i]
  BY <1>5, <1>6
<1>8. (<<h>> \o bytes)[1] = h
  BY <1>1, <1>4, <1>5
<1> QED
  BY <1>1, <1>3, <1>5, <1>7, <1>8 DEF h

-----------------------------------------------------------------------------
(* Chains of frames: where each frame of a stream begins, and how far the   *)
(* messages have come there.                                                *)

\* Whole messages before this place, and whether one goes on, after how many
\* bytes.
Marks == {a \in [done : Nat, had : Nat, on : BOOLEAN] : ~a.on => a.had = 0}

Openings == Heads \cup {Greeting}
Span(x) == IF x = Greeting THEN 0 ELSE x.size
Carries(x) == x.op \in {"data", "more"}

Past(x, a) ==
    IF ~Carries(x) THEN a
    ELSE IF x.fin THEN [done |-> a.done + 1, had |-> 0, on |-> FALSE]
    ELSE [done |-> a.done, had |-> a.had + x.size, on |-> TRUE]

\* Head x goes on with the message of b that mark a stands in.
GoesOn(x, a, b) ==
    /\ a.done + 1 \in DOMAIN b
    /\ (x.op = "more") <=> a.on
    /\ a.had + x.size <= Size(b[a.done + 1])
    /\ x.fin => a.had + x.size = Size(b[a.done + 1])

\* Head x at place p of s goes on with messages b at mark a.
Right(x, p, s, a, b) ==
    /\ x \in Openings
    /\ Carries(x) =>
          /\ GoesOn(x, a, b)
          /\ \A i \in 1 .. x.size :
                p + i <= Len(s) => s[p + i] = Byte(b[a.done + 1], a.had + i)

\* A head that has been read already is at place 0.
Piece(h, s, p) == IF p = 0 THEN h ELSE s[p]

Chain(h, s, b, F) ==
    /\ DOMAIN F \subseteq Nat
    /\ \A p \in DOMAIN F : F[p] \in Marks
    /\ \A p \in DOMAIN F : p <= Len(s) =>
          /\ Right(Piece(h, s, p), p, s, F[p], b)
          /\ p + Span(Piece(h, s, p)) + 1 \in DOMAIN F
          /\ F[p + Span(Piece(h, s, p)) + 1] = Past(Piece(h, s, p), F[p])

\* No frame is cut.
Entire(s, F) == DOMAIN F \subseteq 0 .. Len(s) + 1 /\ Len(s) + 1 \in DOMAIN F

LEMMA SpanType == \A x \in Openings : Span(x) \in Nat
  BY PieceFacts DEF Openings, Span

LEMMA PastMark ==
    ASSUME NEW x \in Openings, NEW a \in Marks
    PROVE  Past(x, a) \in Marks
<1>1. CASE x = Greeting
  BY <1>1, PieceFacts DEF Past, Carries
<1>2. CASE x \in Heads
  <2>1. x.size \in Nat /\ x.fin \in BOOLEAN
    BY <1>2, PieceFacts
  <2> QED
    BY <2>1 DEF Past, Marks
<1> QED
  BY <1>1, <1>2 DEF Openings

\* A chain for t from place f on that goes on with F, k pieces later.
GoesWith(g, t, b, f, s, F, k) ==
    \E G : /\ Chain(g, t, b, G)
           /\ f \in DOMAIN G /\ G[f] = F[f + k]
           /\ Entire(s, F) /\ Len(t) + k = Len(s) =>
                 Entire(t, G) /\ G[Len(t) + 1] = F[Len(s) + 1]

\* Some first pieces taken from a chain, and perhaps some last ones: what is
\* left, from place f on.
LEMMA ChainPart ==
    ASSUME NEW h, NEW s \in Seq(Pieces), NEW b, NEW F, Chain(h, s, b, F),
           NEW k \in Nat, NEW f \in {0, 1}, NEW g, NEW t \in Seq(Pieces),
           Len(t) + k <= Len(s), \A i \in 1 .. Len(t) : t[i] = s[i + k],
           f = 0 => g = Piece(h, s, k),
           f + k \in DOMAIN F
    PROVE  GoesWith(g, t, b, f, s, F, k)
<1> DEFINE D == {q \in Nat : f <= q /\ q + k \in DOMAIN F}
           G == [p \in D |-> F[p + k]]
<1>1. Len(s) \in Nat /\ Len(t) \in Nat
  OBVIOUS
<1>2. /\ DOMAIN F \subseteq Nat
      /\ \A p \in DOMAIN F : F[p] \in Marks
      /\ \A p \in DOMAIN F : p <= Len(s) =>
            /\ Right(Piece(h, s, p), p, s, F[p], b)
            /\ p + Span(Piece(h, s, p)) + 1 \in DOMAIN F
            /\ F[p + Span(Piece(h, s, p)) + 1] = Past(Piece(h, s, p), F[p])
  BY DEF Chain
<1>3. DOMAIN G = D /\ \A p \in D : G[p] = F[p + k] /\ p \in Nat /\ f <= p /\ p + k \in DOMAIN F
  OBVIOUS
<1>4. \A q \in Nat : f <= q /\ q + k \in DOMAIN F => q \in D
  OBVIOUS
<1> HIDE DEF G, D
<1>5. ASSUME NEW p \in D, p <= Len(t)
      PROVE  /\ Right(Piece(g, t, p), p, t, G[p], b)
             /\ p + Span(Piece(g, t, p)) + 1 \in D
             /\ G[p + Span(Piece(g, t, p)) + 1] = Past(Piece(g, t, p), G[p])
  <2>1. p \in Nat /\ f <= p /\ p + k \in DOMAIN F /\ p + k <= Len(s) /\ G[p] = F[p + k]
    BY <1>1, <1>3, <1>5
  <2>2. Piece(g, t, p) = Piece(h, s, p + k)
    <3>1. CASE p = 0
      BY <2>1, <3>1 DEF Piece
    <3>2. CASE p # 0
      BY <1>5, <2>1, <3>2 DEF Piece
    <3> QED
      BY <3>1, <3>2
  <2>3. PICK x : x = Piece(g, t, p)
    OBVIOUS
  <2>4. /\ Right(x, p + k, s, F[p + k], b)
        /\ p + k + Span(x) + 1 \in DOMAIN F
        /\ F[p + k + Span(x) + 1] = Past(x, F[p + k])
    BY <1>2, <2>1, <2>2, <2>3
  <2>5. x \in Openings /\ Span(x) \in Nat
    BY <2>4, SpanType DEF Right
  <2>6. /\ p + Span(x) + 1 \in Nat /\ f <= p + Span(x) + 1
        /\ p + k + Span(x) + 1 = p + Span(x) + 1 + k
    BY <2>1, <2>5
  <2>7. /\ p + Span(x) + 1 \in D
        /\ G[p + Span(x) + 1] = Past(x, G[p])
    BY <1>3, <1>4, <2>1, <2>4, <2>6
  <2>8. Right(x, p, t, G[p], b)
    <3> SUFFICES ASSUME Carries(x)
                 PROVE  /\ GoesOn(x, F[p + k], b)
                        /\ \A i \in 1 .. x.size : p + i <= Len(t) =>
                              t[p + i] = Byte(b[F[p + k].done + 1], F[p + k].had + i)
      BY <2>1, <2>4 DEF Right
    <3>1. /\ GoesOn(x, F[p + k], b)
          /\ \A i \in 1 .. x.size : p + k + i <= Len(s) =>
                s[p + k + i] = Byte(b[F[p + k].done + 1], F[p + k].had + i)
      BY <2>4 DEF Right
    <3>2. x \in Heads /\ x.size \in Nat
      BY <2>5, PieceFacts DEF Openings, Carries
    <3>3. ASSUME NEW i \in 1 .. x.size, p + i <= Len(t)
          PROVE  t[p + i] = Byte(b[F[p + k].done + 1], F[p + k].had + i)
      <4>1. /\ p + i \in 1 .. Len(t) /\ p + i + k = p + k + i /\ p + k + i <= Len(s)
        BY <1>1, <2>1, <3>2, <3>3
      <4> QED
        BY <3>1, <4>1
    <3> QED
      BY <3>1, <3>3
  <2> QED
    BY <2>3, <2>7, <2>8
<1>6. Chain(g, t, b, G)
  <2>1. \A p \in D : G[p] \in Marks
    BY <1>2, <1>3
  <2> QED
    BY <1>3, <1>5, <2>1 DEF Chain
<1>7. f \in DOMAIN G /\ G[f] = F[f + k]
  <2>1. f \in Nat /\ f <= f
    OBVIOUS
  <2>2. f \in D
    BY <1>4, <2>1
  <2> QED
    BY <1>3, <2>2
<1>8. ASSUME Entire(s, F), Len(t) + k = Len(s)
      PROVE  Entire(t, G) /\ G[Len(t) + 1] = F[Len(s) + 1]
  <2>1. /\ Len(t) + 1 \in Nat /\ f <= Len(t) + 1 /\ Len(t) + 1 + k = Len(s) + 1
        /\ Len(s) + 1 \in DOMAIN F
    <3>1. f = 0 \/ f = 1
      OBVIOUS
    <3>2. Len(s) + 1 \in DOMAIN F
      BY <1>8 DEF Entire
    <3> QED
      BY <1>1, <1>8, <3>1, <3>2
  <2>2. Len(t) + 1 \in D /\ G[Len(t) + 1] = F[Len(s) + 1]
    BY <1>3, <1>4, <2>1
  <2>3. ASSUME NEW p \in D PROVE p \in 0 .. Len(t) + 1
    <3>1. p \in Nat /\ p + k \in 0 .. Len(s) + 1
      BY <1>3, <1>8 DEF Entire
    <3> QED
      BY <1>1, <1>8, <3>1
  <2> QED
    BY <1>3, <2>2, <2>3 DEF Entire
<1> QED
  BY <1>6, <1>7, <1>8 DEF GoesWith

Extends(b, c) == \A i \in DOMAIN b : i \in DOMAIN c /\ c[i] = b[i]

\* More messages have begun.
LEMMA ChainLonger ==
    ASSUME NEW h, NEW s, NEW b, NEW c, NEW F, Chain(h, s, b, F), Extends(b, c)
    PROVE  Chain(h, s, c, F)
<1>1. ASSUME NEW x, NEW p, NEW a, Right(x, p, s, a, b) PROVE Right(x, p, s, a, c)
  <2>1. CASE Carries(x)
    <3>1. a.done + 1 \in DOMAIN b
      BY <1>1, <2>1 DEF Right, GoesOn
    <3>2. a.done + 1 \in DOMAIN c /\ c[a.done + 1] = b[a.done + 1]
      BY <3>1 DEF Extends
    <3> QED
      BY <1>1, <2>1, <3>2 DEF Right, GoesOn
  <2>2. CASE ~Carries(x)
    BY <1>1, <2>2 DEF Right
  <2> QED
    BY <2>1, <2>2
<1> QED
  BY <1>1 DEF Chain

\* A chain that goes on where F ends, with the pieces t of a frame with head x.
GoesFurther(h, s, t, b, x, F) ==
    \E G : /\ Chain(h, s \o t, b, G)
           /\ \A p \in DOMAIN F : p \in DOMAIN G /\ G[p] = F[p]
           /\ Len(t) = Span(x) + 1 =>
                 /\ Entire(s \o t, G)
                 /\ G[Len(s \o t) + 1] = Past(x, F[Len(s) + 1])

\* The first pieces of one more frame.
LEMMA ChainMore ==
    ASSUME NEW h, NEW s \in Seq(Pieces), NEW b, NEW F, Chain(h, s, b, F), Entire(s, F),
           NEW x \in Openings, NEW t \in Seq(Pieces), Len(t) <= Span(x) + 1,
           Len(t) > 0 => t[1] = x,
           Carries(x) =>
              /\ GoesOn(x, F[Len(s) + 1], b)
              /\ \A i \in 1 .. x.size : i < Len(t) =>
                    t[i + 1] = Byte(b[F[Len(s) + 1].done + 1], F[Len(s) + 1].had + i)
    PROVE  GoesFurther(h, s, t, b, x, F)
<1> DEFINE N == Len(s)
           a == F[N + 1]
           z == N + Span(x) + 2
           D == IF Len(t) > 0 THEN DOMAIN F \cup {z} ELSE DOMAIN F
           G == [p \in D |-> IF p = z /\ Len(t) > 0 THEN Past(x, a) ELSE F[p]]
           u == s \o t
<1>1. /\ N \in Nat /\ Len(t) \in Nat /\ Span(x) \in Nat /\ z \in Nat
      /\ Len(u) = N + Len(t) /\ z > N + 1
      /\ \A p \in 1 .. N : u[p] = s[p]
      /\ \A i \in 1 .. Len(t) : u[N + i] = t[i]
  <2>1. N \in Nat /\ Len(t) \in Nat /\ Span(x) \in Nat
    BY SpanType
  <2>2. /\ Len(u) = N + Len(t)
        /\ \A p \in 1 .. N + Len(t) : u[p] = IF p <= N THEN s[p] ELSE t[p - N]
    BY ConcatProperties
  <2>3. \A i \in 1 .. Len(t) : N + i \in 1 .. N + Len(t) /\ ~(N + i <= N) /\ N + i - N = i
    BY <2>1
  <2>4. \A p \in 1 .. N : p \in 1 .. N + Len(t) /\ p <= N
    BY <2>1
  <2> QED
    BY <2>1, <2>2, <2>3, <2>4
<1>2. /\ DOMAIN F \subseteq 0 .. N + 1 /\ N + 1 \in DOMAIN F
      /\ \A p \in DOMAIN F : F[p] \in Marks
      /\ \A p \in DOMAIN F : p <= N =>
            /\ Right(Piece(h, s, p), p, s, F[p], b)
            /\ p + Span(Piece(h, s, p)) + 1 \in DOMAIN F
            /\ F[p + Span(Piece(h, s, p)) + 1] = Past(Piece(h, s, p), F[p])
  BY DEF Chain, Entire
<1>3. /\ z \notin DOMAIN F
      /\ DOMAIN G = D
      /\ \A p \in DOMAIN F : p \in D /\ G[p] = F[p]
      /\ Len(t) > 0 => z \in D /\ G[z] = Past(x, a)
      /\ \A p \in D : p \in DOMAIN F \/ (p = z /\ Len(t) > 0)
  BY <1>1, <1>2
<1> HIDE DEF G, D, u
<1>4. a \in Marks /\ Past(x, a) \in Marks
  BY <1>2, PastMark
<1>5. ASSUME NEW p \in DOMAIN F, p <= N
      PROVE  /\ Right(Piece(h, u, p), p, u, F[p], b)
             /\ p + Span(Piece(h, u, p)) + 1 \in DOMAIN F
             /\ F[p + Span(Piece(h, u, p)) + 1] = Past(Piece(h, u, p), F[p])
  <2>1. p \in Nat
    BY <1>2
  <2>2. Piece(h, u, p) = Piece(h, s, p)
    BY <1>1, <1>5, <2>1 DEF Piece
  <2>3. PICK y : y = Piece(h, s, p)
    OBVIOUS
  <2>4. /\ Right(y, p, s, F[p], b)
        /\ p + Span(y) + 1 \in DOMAIN F
        /\ F[p + Span(y) + 1] = Past(y, F[p])
    BY <1>2, <1>5, <2>3
  <2>5. y \in Openings /\ Span(y) \in Nat
    BY <2>4, SpanType DEF Right
  <2>6. Right(y, p, u, F[p], b)
    <3> SUFFICES ASSUME Carries(y), NEW i \in 1 .. y.size
                 PROVE  u[p + i] = Byte(b[F[p].done + 1], F[p].had + i)
      BY <2>4 DEF Right
    <3>1. y \in Heads /\ Span(y) = y.size
      BY <2>5, PieceFacts DEF Openings, Carries, Span
    <3>2. p + y.size + 1 \in 0 .. N + 1
      BY <1>2, <2>4, <3>1
    <3>3. p + i \in 1 .. N /\ p + i <= N
      <4>1. y.size \in Nat /\ i <= y.size /\ 1 <= i /\ i \in Nat /\ p + y.size + 1 <= N + 1
        BY <2>5, <3>1, <3>2
      <4>2. \A j, k, m, n \in Nat : 1 <= j /\ j <= k /\ m + k + 1 <= n + 1 =>
                m + j \in 1 .. n /\ m + j <= n
        OBVIOUS
      <4> QED
        BY <1>1, <2>1, <4>1, <4>2
    <3> QED
      BY <1>1, <2>4, <3>3 DEF Right
  <2> QED
    BY <2>2, <2>3, <2>4, <2>6
<1>6. ASSUME Len(t) > 0
      PROVE  Right(Piece(h, u, N + 1), N + 1, u, a, b) /\ Piece(h, u, N + 1) = x
  <2>1. 1 \in 1 .. Len(t) /\ N + 1 # 0
    BY <1>1, <1>6
  <2>2. Piece(h, u, N + 1) = x
    BY <1>1, <1>6, <2>1 DEF Piece
  <2>3. ASSUME Carries(x), NEW i \in 1 .. x.size, N + 1 + i <= Len(u)
        PROVE  u[N + 1 + i] = Byte(b[a.done + 1], a.had + i)
    <3>1. x.size \in Nat
      BY <2>3, PieceFacts DEF Openings, Carries
    <3>2. i < Len(t) /\ i + 1 \in 1 .. Len(t) /\ N + 1 + i = N + (i + 1)
      BY <1>1, <2>3, <3>1
    <3> QED
      BY <1>1, <2>3, <3>2
  <2> QED
    BY <2>2, <2>3 DEF Right
<1>7. Chain(h, u, b, G)
  <2>1. \A p \in D : p \in Nat /\ G[p] \in Marks
    BY <1>1, <1>2, <1>3, <1>4
  <2>2. ASSUME NEW p \in D, p <= Len(u)
        PROVE  /\ Right(Piece(h, u, p), p, u, G[p], b)
               /\ p + Span(Piece(h, u, p)) + 1 \in D
               /\ G[p + Span(Piece(h, u, p)) + 1] = Past(Piece(h, u, p), G[p])
    <3>1. p \in DOMAIN F
      BY <1>1, <1>3, <2>2
    <3>2. CASE p <= N
      BY <1>3, <1>5, <3>1, <3>2
    <3>3. CASE ~(p <= N)
      <4>1. p = N + 1 /\ Len(t) > 0
        BY <1>1, <1>2, <2>2, <3>1, <3>3
      <4>2. p + Span(x) + 1 = z
        BY <1>1, <4>1
      <4> QED
        BY <1>2, <1>3, <1>6, <4>1, <4>2
    <3> QED
      BY <3>2, <3>3
  <2> QED
    BY <1>3, <2>1, <2>2 DEF Chain
<1>8. ASSUME Len(t) = Span(x) + 1
      PROVE  Entire(u, G) /\ G[Len(u) + 1] = Past(x, a)
  <2>1. Len(t) > 0 /\ Len(u) + 1 = z
    BY <1>1, <1>8
  <2>2. \A p \in D : p \in 0 .. Len(u) + 1
    BY <1>1, <1>2, <1>3, <2>1
  <2> QED
    BY <1>3, <2>1, <2>2 DEF Entire
<1> QED
  BY <1>3, <1>7, <1>8 DEF u, GoesFurther

-----------------------------------------------------------------------------
(* What a receiver has before it: a chain of frames that starts where the   *)
(* receiver stands and, while the sender may write, ends where it stands.   *)

\* The receiver has returned k messages of b and collected p.
ReaderStands(k, p, b, a) ==
    /\ a.done = k
    /\ a.on => /\ p.on /\ Len(p.bytes) = a.had
               /\ a.done + 1 \in DOMAIN b
               /\ a.had <= Size(b[a.done + 1])
               /\ \A i \in 1 .. a.had : p.bytes[i] = Byte(b[a.done + 1], i)

\* The sender has begun the messages b and has still to send r.
WriterStands(b, r, a) ==
    /\ r.on <=> a.on
    /\ r.on => /\ Len(b) = a.done + 1
               /\ a.had + Len(r.bytes) = Size(b[Len(b)])
               /\ \A i \in 1 .. Len(r.bytes) : r.bytes[i] = Byte(b[Len(b)], a.had + i)
    /\ ~r.on => a.done = Len(b)

Follows(v) ==
    \E F : /\ Chain(v.pending, v.ahead, v.sent, F)
           /\ v.first \in DOMAIN F
           /\ v.clear => ReaderStands(v.count, v.partial, v.sent, F[v.first])
           /\ v.joined => /\ Entire(v.ahead, F)
                          /\ WriterStands(v.sent, v.rest, F[Len(v.ahead) + 1])

Views == [pending : Openings, first : {0, 1}, ahead : Seq(Pieces), sent : Seq(Numbers),
          count : Nat, partial : [on : BOOLEAN, bytes : Seq(Plain)],
          rest : [on : BOOLEAN, bytes : Seq(Plain)], clear : BOOLEAN, joined : BOOLEAN]

LEMMA ViewType ==
    ASSUME NEW v \in Views
    PROVE  /\ v.pending \in Openings /\ v.first \in {0, 1}
           /\ v.ahead \in Seq(Pieces) /\ Len(v.ahead) \in Nat
           /\ v.sent \in Seq(Numbers) /\ v.count \in Nat
           /\ v.partial \in [on : BOOLEAN, bytes : Seq(Plain)]
           /\ v.rest \in [on : BOOLEAN, bytes : Seq(Plain)]
           /\ v.clear \in BOOLEAN /\ v.joined \in BOOLEAN
<1>1. v.ahead \in Seq(Pieces)
  BY DEF Views
<1> QED
  BY <1>1 DEF Views

\* Nothing changed but that the sender may have gone away.
LEMMA ViewKept ==
    ASSUME NEW v \in Views, NEW w \in Views, Follows(v),
           w.pending = v.pending, w.first = v.first, w.ahead = v.ahead, w.sent = v.sent,
           w.count = v.count, w.partial = v.partial, w.clear => v.clear,
           w.joined => v.joined /\ w.rest = v.rest
    PROVE  Follows(w)
<1>1. PICK F :
        /\ Chain(v.pending, v.ahead, v.sent, F)
        /\ v.first \in DOMAIN F
        /\ v.clear => ReaderStands(v.count, v.partial, v.sent, F[v.first])
        /\ v.joined => /\ Entire(v.ahead, F)
                       /\ WriterStands(v.sent, v.rest, F[Len(v.ahead) + 1])
  BY DEF Follows
<1>2. /\ Chain(w.pending, w.ahead, w.sent, F)
      /\ w.first \in DOMAIN F
      /\ w.clear => ReaderStands(w.count, w.partial, w.sent, F[w.first])
      /\ w.joined => /\ Entire(w.ahead, F)
                     /\ WriterStands(w.sent, w.rest, F[Len(w.ahead) + 1])
  BY <1>1
<1> QED
  BY <1>2 DEF Follows

\* Nothing was sent yet, and nothing begun.
LEMMA ViewFresh ==
    ASSUME NEW v \in Views, v.first = 1, v.ahead \in {<<>>, <<Greeting>>}, v.sent = <<>>,
           v.count = 0, v.joined => ~v.rest.on
    PROVE  Follows(v)
<1> DEFINE a == [done |-> 0, had |-> 0, on |-> FALSE]
           F == [p \in 1 .. Len(v.ahead) + 1 |-> a]
<1>1. Len(v.ahead) \in {0, 1} /\ v.ahead \in Seq(Pieces) /\ Len(v.sent) = 0
  BY ViewType
<1>2. a \in Marks /\ a.done = 0 /\ a.had = 0 /\ a.on = FALSE
  BY DEF Marks
<1>3. /\ DOMAIN F = 1 .. Len(v.ahead) + 1 /\ \A p \in 1 .. Len(v.ahead) + 1 : F[p] = a
      /\ 1 \in 1 .. Len(v.ahead) + 1 /\ Len(v.ahead) + 1 \in 1 .. Len(v.ahead) + 1
      /\ 1 .. Len(v.ahead) + 1 \subseteq 0 .. Len(v.ahead) + 1
  BY <1>1
<1> HIDE DEF F, a
<1>4. Chain(v.pending, v.ahead, v.sent, F)
  <2>1. ASSUME NEW p \in 1 .. Len(v.ahead) + 1, p <= Len(v.ahead)
        PROVE  /\ Piece(v.pending, v.ahead, p) = Greeting
               /\ p + Span(Greeting) + 1 \in 1 .. Len(v.ahead) + 1
    <3>1. Len(v.ahead) = 1 /\ v.ahead = <<Greeting>>
      BY <1>1, <2>1
    <3>2. p = 1
      BY <2>1, <3>1
    <3> QED
      BY <3>1, <3>2 DEF Piece, Span
  <2>2. Greeting \in Openings /\ ~Carries(Greeting) /\ Past(Greeting, a) = a
    BY PieceFacts DEF Openings, Carries, Past
  <2>3. \A p : Right(Greeting, p, v.ahead, a, v.sent)
    BY <2>2 DEF Right
  <2>4. 1 .. Len(v.ahead) + 1 \subseteq Nat
    BY <1>1
  <2> QED
    BY <1>2, <1>3, <2>1, <2>2, <2>3, <2>4 DEF Chain
<1>5. ReaderStands(v.count, v.partial, v.sent, a)
  BY <1>2 DEF ReaderStands
<1>6. v.joined => WriterStands(v.sent, v.rest, a)
  BY <1>1, <1>2 DEF WriterStands
<1>7. Entire(v.ahead, F)
  BY <1>3 DEF Entire
<1> QED
  BY <1>3, <1>4, <1>5, <1>6, <1>7 DEF Follows

\* The receiver goes from place v.first to place w.first, k pieces on; the
\* stream may be cut at its end.
Moves(v, w, F, k) ==
    /\ Chain(v.pending, v.ahead, v.sent, F)
    /\ v.joined => /\ Entire(v.ahead, F)
                   /\ WriterStands(v.sent, v.rest, F[Len(v.ahead) + 1])
    /\ w.sent = v.sent
    /\ w.joined => v.joined /\ w.rest = v.rest
    /\ Len(w.ahead) + k <= Len(v.ahead)
    /\ w.joined => Len(w.ahead) + k = Len(v.ahead)
    /\ \A i \in 1 .. Len(w.ahead) : w.ahead[i] = v.ahead[i + k]
    /\ w.first = 0 => w.pending = Piece(v.pending, v.ahead, k)
    /\ w.first + k \in DOMAIN F
    /\ w.clear => ReaderStands(w.count, w.partial, w.sent, F[w.first + k])

LEMMA ViewMoved ==
    ASSUME NEW v \in Views, NEW w \in Views, NEW F, NEW k \in Nat, Moves(v, w, F, k)
    PROVE  Follows(w)
<1>0. /\ Chain(v.pending, v.ahead, v.sent, F)
      /\ v.joined => /\ Entire(v.ahead, F)
                     /\ WriterStands(v.sent, v.rest, F[Len(v.ahead) + 1])
      /\ w.sent = v.sent
      /\ w.joined => v.joined /\ w.rest = v.rest
      /\ Len(w.ahead) + k <= Len(v.ahead)
      /\ w.joined => Len(w.ahead) + k = Len(v.ahead)
      /\ \A i \in 1 .. Len(w.ahead) : w.ahead[i] = v.ahead[i + k]
      /\ w.first = 0 => w.pending = Piece(v.pending, v.ahead, k)
      /\ w.first + k \in DOMAIN F
      /\ w.clear => ReaderStands(w.count, w.partial, w.sent, F[w.first + k])
  BY DEF Moves
<1>1. v.ahead \in Seq(Pieces) /\ w.ahead \in Seq(Pieces) /\ w.first \in {0, 1}
  BY ViewType
<1>2. PICK s, t, f, g, h, b :
        /\ s = v.ahead /\ t = w.ahead /\ f = w.first
        /\ g = w.pending /\ h = v.pending /\ b = v.sent
  OBVIOUS
<1>3. PICK G : /\ Chain(g, t, b, G)
               /\ f \in DOMAIN G /\ G[f] = F[f + k]
               /\ Entire(s, F) /\ Len(t) + k = Len(s) =>
                     Entire(t, G) /\ G[Len(t) + 1] = F[Len(s) + 1]
  <2>1. /\ s \in Seq(Pieces) /\ t \in Seq(Pieces) /\ f \in {0, 1} /\ Chain(h, s, b, F)
        /\ Len(t) + k <= Len(s) /\ \A i \in 1 .. Len(t) : t[i] = s[i + k]
        /\ f = 0 => g = Piece(h, s, k)
        /\ f + k \in DOMAIN F
    BY <1>0, <1>1, <1>2
  <2>2. GoesWith(g, t, b, f, s, F, k)
    BY <2>1, ChainPart
  <2> QED
    BY <2>2 DEF GoesWith
<1>4. /\ Chain(w.pending, w.ahead, w.sent, G)
      /\ w.first \in DOMAIN G
      /\ w.clear => ReaderStands(w.count, w.partial, w.sent, G[w.first])
      /\ w.joined => /\ Entire(w.ahead, G)
                     /\ WriterStands(w.sent, w.rest, G[Len(w.ahead) + 1])
  BY <1>0, <1>2, <1>3
<1> QED
  BY <1>4 DEF Follows

\* The stream is cut at its end, and no more will come.
LEMMA ViewCut ==
    ASSUME NEW v \in Views, NEW w \in Views, Follows(v), ~w.joined,
           w.pending = v.pending, w.first = v.first, w.sent = v.sent,
           w.count = v.count, w.partial = v.partial, w.clear => v.clear,
           Len(w.ahead) <= Len(v.ahead),
           \A i \in 1 .. Len(w.ahead) : w.ahead[i] = v.ahead[i]
    PROVE  Follows(w)
<1>1. PICK F :
        /\ Chain(v.pending, v.ahead, v.sent, F)
        /\ v.first \in DOMAIN F
        /\ v.clear => ReaderStands(v.count, v.partial, v.sent, F[v.first])
        /\ v.joined => /\ Entire(v.ahead, F)
                       /\ WriterStands(v.sent, v.rest, F[Len(v.ahead) + 1])
  BY DEF Follows
<1>2. /\ v.ahead \in Seq(Pieces) /\ w.ahead \in Seq(Pieces) /\ w.first \in {0, 1}
      /\ v.first \in {0, 1}
  BY ViewType
<1>3. /\ Len(w.ahead) + 0 = Len(w.ahead) /\ w.first + 0 = w.first
      /\ \A i \in 1 .. Len(w.ahead) : i + 0 = i
  BY <1>2
<1>4. w.first = 0 => w.pending = Piece(v.pending, v.ahead, 0)
  BY DEF Piece
<1>5. Moves(v, w, F, 0)
  BY <1>1, <1>3, <1>4 DEF Moves
<1> QED
  BY <1>5, ViewMoved

\* The rest of what was before the receiver is thrown away.
LEMMA ViewEmptied ==
    ASSUME NEW v \in Views, NEW w \in Views, Follows(v), ~w.joined,
           w.ahead = <<>>, w.first = 1, w.sent = v.sent,
           w.count = v.count, w.partial = v.partial, w.clear => v.clear
    PROVE  Follows(w)
<1>1. PICK F :
        /\ Chain(v.pending, v.ahead, v.sent, F)
        /\ v.first \in DOMAIN F
        /\ v.clear => ReaderStands(v.count, v.partial, v.sent, F[v.first])
  BY DEF Follows
<1> DEFINE a == F[v.first]
           G == [p \in {1} |-> a]
<1>2. a \in Marks
  BY <1>1 DEF Chain
<1>3. DOMAIN G = {1} /\ G[1] = a
  OBVIOUS
<1> HIDE DEF G
<1>4. Chain(w.pending, w.ahead, w.sent, G)
  <2>1. Len(w.ahead) = 0
    OBVIOUS
  <2> QED
    BY <1>2, <1>3, <2>1 DEF Chain
<1> QED
  BY <1>1, <1>3, <1>4 DEF Follows

\* The greeting has been read.
LEMMA ViewGreeted ==
    ASSUME NEW v \in Views, NEW w \in Views, Follows(v),
           v.first = 1, w.first = 1, v.ahead # <<>>, v.ahead[1] = Greeting,
           w.sent = v.sent, w.joined => v.joined /\ w.rest = v.rest,
           w.count = v.count, w.partial = v.partial, w.clear => v.clear,
           Len(w.ahead) + 1 = Len(v.ahead),
           \A i \in 1 .. Len(w.ahead) : w.ahead[i] = v.ahead[i + 1]
    PROVE  Follows(w)
<1>1. PICK F :
        /\ Chain(v.pending, v.ahead, v.sent, F)
        /\ v.first \in DOMAIN F
        /\ v.clear => ReaderStands(v.count, v.partial, v.sent, F[v.first])
        /\ v.joined => /\ Entire(v.ahead, F)
                       /\ WriterStands(v.sent, v.rest, F[Len(v.ahead) + 1])
  BY DEF Follows
<1>2. v.ahead \in Seq(Pieces) /\ w.ahead \in Seq(Pieces) /\ 1 <= Len(v.ahead)
  BY ViewType
<1>3. Piece(v.pending, v.ahead, 1) = Greeting
  BY DEF Piece
<1>4. Span(Greeting) = 0 /\ Past(Greeting, F[1]) = F[1]
  BY PieceFacts DEF Span, Past, Carries
<1>5. 1 + 0 + 1 = 2 /\ 1 + 1 = 2
  OBVIOUS
<1>6. 2 \in DOMAIN F /\ F[2] = F[1]
  BY <1>1, <1>2, <1>3, <1>4, <1>5 DEF Chain
<1>7. /\ w.first + 1 \in DOMAIN F
      /\ w.clear => ReaderStands(w.count, w.partial, w.sent, F[w.first + 1])
      /\ w.first # 0 /\ Len(w.ahead) + 1 <= Len(v.ahead)
  BY <1>1, <1>2, <1>5, <1>6
<1>8. Moves(v, w, F, 1)
  BY <1>1, <1>7 DEF Moves
<1> QED
  BY <1>8, ViewMoved

\* The head of a frame has been read.
LEMMA ViewHead ==
    ASSUME NEW v \in Views, NEW w \in Views, Follows(v),
           v.first = 1, w.first = 0, v.ahead # <<>>, w.pending = v.ahead[1],
           w.sent = v.sent, w.joined => v.joined /\ w.rest = v.rest,
           w.count = v.count, w.partial = v.partial, w.clear => v.clear,
           Len(w.ahead) + 1 = Len(v.ahead),
           \A i \in 1 .. Len(w.ahead) : w.ahead[i] = v.ahead[i + 1]
    PROVE  Follows(w)
<1>1. PICK F :
        /\ Chain(v.pending, v.ahead, v.sent, F)
        /\ v.first \in DOMAIN F
        /\ v.clear => ReaderStands(v.count, v.partial, v.sent, F[v.first])
        /\ v.joined => /\ Entire(v.ahead, F)
                       /\ WriterStands(v.sent, v.rest, F[Len(v.ahead) + 1])
  BY DEF Follows
<1>2. v.ahead \in Seq(Pieces) /\ w.ahead \in Seq(Pieces)
  BY ViewType
<1>3. Piece(v.pending, v.ahead, 1) = w.pending
  BY DEF Piece
<1>4. w.first + 1 = 1 /\ Len(w.ahead) + 1 <= Len(v.ahead)
  BY <1>2
<1>5. Moves(v, w, F, 1)
  BY <1>1, <1>3, <1>4 DEF Moves
<1> QED
  BY <1>5, ViewMoved

\* What a chain says of the head that has been read.
LEMMA PendingRight ==
    ASSUME NEW v \in Views, NEW F, Chain(v.pending, v.ahead, v.sent, F),
           v.first = 0, 0 \in DOMAIN F
    PROVE  /\ F[0] \in Marks
           /\ Right(v.pending, 0, v.ahead, F[0], v.sent)
           /\ Span(v.pending) + 1 \in DOMAIN F
           /\ F[Span(v.pending) + 1] = Past(v.pending, F[0])
<1>1. Piece(v.pending, v.ahead, 0) = v.pending
  BY DEF Piece
<1>2. v.ahead \in Seq(Pieces) /\ v.pending \in Openings
  BY ViewType
<1>3. 0 <= Len(v.ahead) /\ Span(v.pending) \in Nat /\ 0 + Span(v.pending) + 1 = Span(v.pending) + 1
  BY <1>2, SpanType
<1> QED
  BY <1>1, <1>3 DEF Chain

\* The payload of the frame has been read.
LEMMA ViewPayload ==
    ASSUME NEW v \in Views, NEW w \in Views, Follows(v),
           v.first = 0, w.first = 1,
           w.sent = v.sent, w.joined => v.joined /\ w.rest = v.rest,
           Len(w.ahead) + Span(v.pending) = Len(v.ahead),
           \A i \in 1 .. Len(w.ahead) : w.ahead[i] = v.ahead[i + Span(v.pending)],
           \A a \in Marks :
              /\ w.clear
              /\ v.clear => ReaderStands(v.count, v.partial, v.sent, a)
              /\ Right(v.pending, 0, v.ahead, a, v.sent)
              => ReaderStands(w.count, w.partial, w.sent, Past(v.pending, a))
    PROVE  Follows(w)
<1>1. PICK F :
        /\ Chain(v.pending, v.ahead, v.sent, F)
        /\ v.first \in DOMAIN F
        /\ v.clear => ReaderStands(v.count, v.partial, v.sent, F[v.first])
        /\ v.joined => /\ Entire(v.ahead, F)
                       /\ WriterStands(v.sent, v.rest, F[Len(v.ahead) + 1])
  BY DEF Follows
<1>2. /\ v.ahead \in Seq(Pieces) /\ w.ahead \in Seq(Pieces) /\ Span(v.pending) \in Nat
  BY SpanType, ViewType
<1>3. /\ F[0] \in Marks
      /\ Right(v.pending, 0, v.ahead, F[0], v.sent)
      /\ Span(v.pending) + 1 \in DOMAIN F
      /\ F[Span(v.pending) + 1] = Past(v.pending, F[0])
  BY <1>1, PendingRight
<1>4. /\ w.first + Span(v.pending) = Span(v.pending) + 1 /\ w.first # 0
      /\ Len(w.ahead) + Span(v.pending) <= Len(v.ahead)
  BY <1>2
<1>5. w.clear => ReaderStands(w.count, w.partial, w.sent, F[w.first + Span(v.pending)])
  BY <1>1, <1>3, <1>4
<1>6. w.first + Span(v.pending) \in DOMAIN F
  BY <1>3, <1>4
<1>7. Moves(v, w, F, Span(v.pending))
  BY <1>1, <1>4, <1>5, <1>6 DEF Moves
<1> QED
  BY <1>2, <1>7, ViewMoved

\* More messages have begun, of which the receiver sees nothing any more.
LEMMA ViewLonger ==
    ASSUME NEW v \in Views, NEW w \in Views, Follows(v), ~w.joined,
           w.pending = v.pending, w.first = v.first, w.ahead = v.ahead,
           w.count = v.count, w.partial = v.partial, w.clear => v.clear,
           Extends(v.sent, w.sent)
    PROVE  Follows(w)
<1>1. PICK F :
        /\ Chain(v.pending, v.ahead, v.sent, F)
        /\ v.first \in DOMAIN F
        /\ v.clear => ReaderStands(v.count, v.partial, v.sent, F[v.first])
  BY DEF Follows
<1>2. Chain(w.pending, w.ahead, w.sent, F)
  BY <1>1, ChainLonger
<1>3. PICK a : a = F[v.first]
  OBVIOUS
<1>4. ReaderStands(v.count, v.partial, v.sent, a) => ReaderStands(w.count, w.partial, w.sent, a)
  BY DEF ReaderStands, Extends
<1> QED
  BY <1>1, <1>2, <1>3, <1>4 DEF Follows

\* The first pieces t of a frame with head x go on with the messages c, where
\* b had come with r still to be sent;
Carrying(b, r, x, t, c) ==
    \A a \in Marks : WriterStands(b, r, a) /\ Carries(x) =>
        /\ GoesOn(x, a, c)
        /\ \A i \in 1 .. x.size : i < Len(t) => t[i + 1] = Byte(c[a.done + 1], a.had + i)
\* and they are all of it, so that q remains of c.
Completing(b, r, x, t, c, q) ==
    /\ Len(t) = Span(x) + 1
    /\ \A a \in Marks : WriterStands(b, r, a) => WriterStands(c, q, Past(x, a))

\* The sender has written t, the first pieces of a frame with head x.
LEMMA ViewWritten ==
    ASSUME NEW v \in Views, NEW w \in Views, Follows(v), v.joined,
           NEW x \in Openings, NEW t \in Seq(Pieces), Len(t) <= Span(x) + 1,
           Len(t) > 0 => t[1] = x,
           w.pending = v.pending, w.first = v.first, w.ahead = v.ahead \o t,
           w.count = v.count, w.partial = v.partial, w.clear => v.clear,
           Extends(v.sent, w.sent),
           Carrying(v.sent, v.rest, x, t, w.sent),
           w.joined => Completing(v.sent, v.rest, x, t, w.sent, w.rest)
    PROVE  Follows(w)
<1>1. PICK F :
        /\ Chain(v.pending, v.ahead, v.sent, F)
        /\ v.first \in DOMAIN F
        /\ v.clear => ReaderStands(v.count, v.partial, v.sent, F[v.first])
        /\ v.joined => /\ Entire(v.ahead, F)
                       /\ WriterStands(v.sent, v.rest, F[Len(v.ahead) + 1])
  BY DEF Follows
<1>2. Entire(v.ahead, F) /\ WriterStands(v.sent, v.rest, F[Len(v.ahead) + 1])
  BY <1>1
<1>3. PICK s, h, b, a : s = v.ahead /\ h = v.pending /\ b = w.sent /\ a = F[Len(v.ahead) + 1]
  OBVIOUS
<1>4. Chain(h, s, b, F) /\ s \in Seq(Pieces) /\ Entire(s, F)
  <2>1. PICK d : d = v.sent
    OBVIOUS
  <2>2. Chain(h, s, d, F) /\ Extends(d, b)
    BY <1>1, <1>3, <2>1
  <2> QED
    BY <1>2, <1>3, <2>2, ChainLonger, ViewType
<1>5. a \in Marks
  BY <1>2, <1>3, <1>4 DEF Chain, Entire
<1>6. Carries(x) =>
         /\ GoesOn(x, a, b)
         /\ \A i \in 1 .. x.size : i < Len(t) => t[i + 1] = Byte(b[a.done + 1], a.had + i)
  BY <1>2, <1>3, <1>5 DEF Carrying
<1>7. w.joined => Len(t) = Span(x) + 1 /\ WriterStands(w.sent, w.rest, Past(x, a))
  BY <1>2, <1>3, <1>5 DEF Completing
<1>8. a = F[Len(s) + 1]
  BY <1>3
<1>9. PICK G : /\ Chain(h, s \o t, b, G)
               /\ \A p \in DOMAIN F : p \in DOMAIN G /\ G[p] = F[p]
               /\ Len(t) = Span(x) + 1 =>
                     /\ Entire(s \o t, G)
                     /\ G[Len(s \o t) + 1] = Past(x, F[Len(s) + 1])
  <2>1. GoesFurther(h, s, t, b, x, F)
    BY <1>4, <1>6, <1>8, ChainMore
  <2> QED
    BY <2>1 DEF GoesFurther
<1>10. PICK c : c = F[v.first]
  OBVIOUS
<1>11. ReaderStands(v.count, v.partial, v.sent, c) => ReaderStands(w.count, w.partial, w.sent, c)
  BY DEF ReaderStands, Extends
<1>12. /\ Chain(w.pending, w.ahead, w.sent, G)
       /\ w.first \in DOMAIN G
       /\ w.clear => ReaderStands(w.count, w.partial, w.sent, G[w.first])
       /\ w.joined => /\ Entire(w.ahead, G)
                      /\ WriterStands(w.sent, w.rest, G[Len(w.ahead) + 1])
  BY <1>1, <1>3, <1>7, <1>8, <1>9, <1>10, <1>11
<1> QED
  BY <1>12 DEF Follows

-----------------------------------------------------------------------------
(* Calls and connections                                                    *)

\* The greeting of its peer has been read.
Active(e) == session[e] \/ call[e] = Responding

CallsInPlace ==
    /\ \A e \in Ends :
          /\ session[e] => /\ link[e] # 0 /\ state[e] \in {"connected", "failed"}
                           /\ call[e] # Handshake /\ call[e] # Responding
          /\ call[e].op \in {"receive", "payload", "pong", "close"} => session[e]
          /\ call[e] \in {Handshake, Responding} => link[e] # 0 /\ state[e] = "connected"
          /\ state[e] = "connected" => link[e] # 0
    /\ call[Client] # Responding

\* Nothing went through the connections still to be made, nor came from them.
NewAreEmpty ==
    /\ \A c \in Connections, e \in Ends : c > made => pipe[c][e] = <<>> /\ begun[c][e] = <<>>
    /\ \A e \in Ends : \A i \in DOMAIN got[e] : got[e][i].on <= made

\* The server has not answered the greeting.
Ungreeted(c) ==
    /\ pipe[c][Server] = <<>> /\ pipe[c][Client] \in {<<>>, <<Greeting>>}
    /\ \A e \in Ends : begun[c][e] = <<>>
    /\ link[Client] = c => ~Active(Client) /\ ~rest[Client].on

WaitingIsNew ==
    waiting # 0 =>
        /\ Ungreeted(waiting) /\ link[Server] # waiting
        /\ \A i \in DOMAIN got[Server] : got[Server][i].on # waiting

ServerGreets == call[Server] \in {Handshake, Responding} => Ungreeted(link[Server])

\* A greeting comes first, and once.
GreetingFirst ==
    \A c \in Connections, e \in Ends : \A p \in DOMAIN pipe[c][e] :
        p > 1 => pipe[c][e][p] \in Plain

GreetingRead ==
    \A e \in Ends : Active(e) =>
        \A p \in DOMAIN pipe[link[e]][Other(e)] : pipe[link[e]][Other(e)][p] \in Plain

Base ==
    /\ LinksOK /\ StreamsOK /\ ReadersOK /\ CallsInPlace /\ NewAreEmpty
    /\ WaitingIsNew /\ ServerGreets /\ GreetingFirst /\ GreetingRead

LEMMA PlainPieces == \A s \in Seq(Plain) : s \in Seq(Pieces)
<1> SUFFICES ASSUME NEW s \in Seq(Plain) PROVE s \in Seq(Pieces)
  OBVIOUS
<1>1. s \in [1 .. Len(s) -> Pieces] /\ Len(s) \in Nat
  BY DEF Pieces
<1> QED
  BY <1>1

LEMMA PlainSeq ==
    ASSUME NEW s \in Seq(Pieces), \A p \in DOMAIN s : s[p] \in Plain
    PROVE  s \in Seq(Plain)
<1>1. s \in [1 .. Len(s) -> Plain] /\ Len(s) \in Nat
  OBVIOUS
<1> QED
  BY <1>1

LEMMA Part ==
    ASSUME NEW S, NEW s \in Seq(S), NEW m \in Nat, NEW n \in Nat, n <= Len(s)
    PROVE  /\ SubSeq(s, m + 1, n) \in Seq(S)
           /\ Len(SubSeq(s, m + 1, n)) = IF m <= n THEN n - m ELSE 0
           /\ \A i \in 1 .. n - m : SubSeq(s, m + 1, n)[i] = s[i + m]
<1>1. \A i \in m + 1 .. n : s[i] \in S
  OBVIOUS
<1>2. /\ SubSeq(s, m + 1, n) \in Seq(S)
      /\ Len(SubSeq(s, m + 1, n)) = IF m + 1 <= n THEN n - (m + 1) + 1 ELSE 0
      /\ \A i \in 1 .. n - (m + 1) + 1 : SubSeq(s, m + 1, n)[i] = s[m + 1 + i - 1]
  BY <1>1, SubSeqProperties
<1>3. /\ (IF m + 1 <= n THEN n - (m + 1) + 1 ELSE 0) = (IF m <= n THEN n - m ELSE 0)
      /\ n - (m + 1) + 1 = n - m
      /\ \A i \in 1 .. n - m : m + 1 + i - 1 = i + m
  OBVIOUS
<1> QED
  BY <1>2, <1>3

\* t of the frame went out.
Went(e, frame, t) ==
    /\ pipe' = Wrote(e, t)
    /\ Len(t) <= Len(frame) /\ \A i \in 1 .. Len(t) : t[i] = frame[i]
    /\ \/ state' = state /\ Len(t) = Len(frame)
       \/ state' = [state EXCEPT ![e] = "failed"]

\* What writing a frame leaves in the stream.
LEMMA SendFrameEffect ==
    ASSUME NEW S, NEW e \in Ends, NEW frame \in Seq(S), SendFrame(e, frame)
    PROVE  /\ state[e] = "connected"
           /\ \E t \in Seq(S) : Went(e, frame, t)
<1>1. CASE CanWrite(e, frame) /\ pipe' = Wrote(e, frame) /\ UNCHANGED state
  <2>1. Len(frame) <= Len(frame)
    OBVIOUS
  <2> QED
    BY <1>1, <2>1 DEF CanWrite, Went
<1>2. CASE \E part \in Torn(e, frame) : pipe' = Wrote(e, part) /\ Fail(e)
  <2>1. PICK part \in Torn(e, frame) : pipe' = Wrote(e, part) /\ Fail(e)
    BY <1>2
  <2>2. /\ state[e] = "connected"
        /\ \E k \in 0 .. Len(frame) - 1 : part = SubSeq(frame, 1, k)
    BY <2>1 DEF Torn
  <2>3. PICK k \in 0 .. Len(frame) - 1 : part = SubSeq(frame, 1, k)
    BY <2>2
  <2>4. k \in Nat /\ k <= Len(frame) /\ k - 0 = k /\ 0 <= k /\ 0 + 1 = 1
        /\ \A i \in 1 .. k : i + 0 = i
    OBVIOUS
  <2>5. part \in Seq(S) /\ Len(part) = k /\ \A i \in 1 .. k : part[i] = frame[i]
    BY <2>3, <2>4, Part
  <2> QED
    BY <2>1, <2>2, <2>4, <2>5 DEF Fail, Went
<1> QED
  BY <1>1, <1>2 DEF SendFrame

LEMMA EstablishedFacts ==
    ASSUME Base, NEW e \in Ends, Active(e) \/ state[e] = "connected" \/ call[e] # Idle
    PROVE  link[e] \in Connections /\ link[e] \in 1 .. made
<1>1. link[e] # 0
  <2>1. call[e] \in Calls
    BY DEF Base, ReadersOK
  <2>2. call[e] \in {Handshake, Responding} \/ call[e].op \in {"receive", "payload", "pong", "close"}
        \/ call[e] = Idle
    BY <2>1, CallFacts
  <2> QED
    BY <2>2 DEF Base, CallsInPlace, Active
<1>2. link[e] \in Nat /\ link[e] <= made /\ made \in Nat
  BY DEF Base, LinksOK
<1> QED
  BY <1>1, <1>2, ConnectionFacts DEF Base

LEMMA UngreetedStays ==
    ASSUME NEW c, Ungreeted(c), \A e \in Ends : pipe'[c][e] = pipe[c][e] /\ begun'[c][e] = begun[c][e],
           link'[Client] = c => /\ link[Client] = c
                                /\ Active(Client)' => Active(Client)
                                /\ rest'[Client] = rest[Client]
    PROVE  Ungreeted(c)'
<1>1. \A e \in Ends : begun'[c][e] = <<>>
  BY DEF Ungreeted
<1>2. pipe'[c][Server] = <<>> /\ pipe'[c][Client] \in {<<>>, <<Greeting>>}
  BY EndFacts DEF Ungreeted
<1>3. link'[Client] = c => ~Active(Client)' /\ ~rest'[Client].on
  BY DEF Ungreeted
<1> QED
  BY <1>1, <1>2, <1>3 DEF Ungreeted

\* An end with a session is not on a connection the server has not greeted.
LEMMA ActiveElsewhere ==
    ASSUME Base, NEW e \in Ends, session[e]
    PROVE  /\ waiting # 0 => link[e] # waiting
           /\ call[Server] \in {Handshake, Responding} => link[e] # link[Server] /\ e = Client
<1>1. Active(e)
  BY DEF Active
<1>2. e = Client \/ e = Server
  BY EndFacts
<1> QED
  BY <1>1, <1>2 DEF Base, WaitingIsNew, ServerGreets, Ungreeted, CallsInPlace

\* An end with a session goes on with its call, and perhaps its connection
\* has failed.
GoesOnWith(e) ==
    /\ session[e]
    /\ UNCHANGED <<link, sockets, session>>
    /\ state' = state \/ state' = [state EXCEPT ![e] = "failed"]
    /\ call' \in [Ends -> Calls]
    /\ call'[e] # Handshake /\ call'[e] # Responding
    /\ \A f \in Ends \ {e} : call'[f] = call[f]

LEMMA GoesOnFacts ==
    ASSUME Base, NEW e \in Ends, GoesOnWith(e)
    PROVE  /\ LinksOK' /\ CallsInPlace'
           /\ \A f \in Ends : Active(f)' = Active(f)
           /\ call'[Server] \in {Handshake, Responding} => call[Server] \in {Handshake, Responding}
<1>1. /\ state \in [Ends -> States] /\ session \in [Ends -> BOOLEAN]
      /\ link \in [Ends -> Nat] /\ waiting \in Nat /\ made \in 0 .. MaxConnections
      /\ \A f \in Ends : link[f] <= made
      /\ waiting <= made
      /\ UNCHANGED <<link, session, waiting, made>>
  BY DEF Base, LinksOK, GoesOnWith, sockets
<1>2. /\ state' \in [Ends -> States]
      /\ \A f \in Ends : f # e => state'[f] = state[f]
      /\ state'[e] \in {state[e], "failed"}
  BY <1>1 DEF GoesOnWith, States
<1>3. LinksOK'
  BY <1>1, <1>2 DEF LinksOK
<1>4. call'[e].op \in {"none", "receive", "payload", "pong", "close"}
  <2>1. call'[e] \in Calls /\ call'[e] # Handshake /\ call'[e] # Responding
    BY DEF GoesOnWith
  <2> QED
    BY <2>1, CallFacts
<1>5. CallsInPlace'
  <2>1. CallsInPlace /\ session[e]
    BY DEF Base, GoesOnWith
  <2>2. \A f \in Ends \ {e} : call'[f] = call[f] /\ state'[f] = state[f]
    BY <1>2 DEF GoesOnWith
  <2>3. call'[e] # Handshake /\ call'[e] # Responding
    BY DEF GoesOnWith
  <2>4. ASSUME NEW f \in Ends
        PROVE  /\ session'[f] => /\ link'[f] # 0 /\ state'[f] \in {"connected", "failed"}
                                 /\ call'[f] # Handshake /\ call'[f] # Responding
               /\ call'[f].op \in {"receive", "payload", "pong", "close"} => session'[f]
               /\ call'[f] \in {Handshake, Responding} => link'[f] # 0 /\ state'[f] = "connected"
               /\ state'[f] = "connected" => link'[f] # 0
    BY <1>1, <1>2, <2>1, <2>2, <2>3 DEF CallsInPlace
  <2>5. call'[Client] # Responding
    BY <2>1, <2>2, <2>3, EndFacts DEF CallsInPlace
  <2> QED
    BY <2>4, <2>5 DEF CallsInPlace
<1>6. \A f \in Ends : Active(f)' = Active(f)
  <2>1. ~ (call[e] = Responding)
    BY DEF Base, CallsInPlace, GoesOnWith
  <2> QED
    BY <1>1, <2>1 DEF Active, GoesOnWith
<1> QED
  BY <1>3, <1>5, <1>6, EndFacts DEF GoesOnWith

\* End e has perhaps written to its connection.
Written(e) ==
    /\ pipe' \in [Connections -> [Ends -> Seq(Pieces)]]
    /\ \A c \in Connections, f \in Ends : c # link[e] \/ f # e => pipe'[c][f] = pipe[c][f]
    /\ \A c \in Connections, f \in Ends : \A p \in DOMAIN pipe'[c][f] :
          \/ p \in DOMAIN pipe[c][f] /\ pipe'[c][f][p] = pipe[c][f][p]
          \/ pipe'[c][f][p] \in Plain

LEMMA WroteWritten ==
    ASSUME StreamsOK, NEW e \in Ends, link[e] \in Connections, NEW t \in Seq(Plain),
           pipe' = Wrote(e, t)
    PROVE  Written(e) /\ pipe'[link[e]][e] = pipe[link[e]][e] \o t
<1>1. t \in Seq(Pieces)
  BY PlainPieces
<1>2. /\ pipe' \in [Connections -> [Ends -> Seq(Pieces)]]
      /\ pipe'[link[e]][e] = pipe[link[e]][e] \o t
      /\ \A c \in Connections, f \in Ends :
            c # link[e] \/ f # e => pipe'[c][f] = pipe[c][f]
  BY <1>1, WriteType
<1>3. ASSUME NEW p \in DOMAIN pipe'[link[e]][e]
      PROVE  \/ p \in DOMAIN pipe[link[e]][e] /\ pipe'[link[e]][e][p] = pipe[link[e]][e][p]
             \/ pipe'[link[e]][e][p] \in Plain
  <2>1. PICK s \in Seq(Pieces) : s = pipe[link[e]][e]
    BY DEF StreamsOK
  <2>2. /\ Len(s \o t) = Len(s) + Len(t) /\ Len(s) \in Nat /\ Len(t) \in Nat
        /\ s \o t \in Seq(Pieces)
        /\ \A i \in 1 .. Len(s) + Len(t) : (s \o t)[i] = IF i <= Len(s) THEN s[i] ELSE t[i - Len(s)]
    BY <1>1, ConcatProperties
  <2>3. p \in 1 .. Len(s) + Len(t)
    BY <1>2, <1>3, <2>1, <2>2
  <2>4. CASE p <= Len(s)
    <3>1. p \in 1 .. Len(s) /\ (s \o t)[p] = s[p]
      BY <2>2, <2>3, <2>4
    <3> QED
      BY <1>2, <2>1, <3>1
  <2>5. CASE ~(p <= Len(s))
    <3>1. p - Len(s) \in 1 .. Len(t) /\ (s \o t)[p] = t[p - Len(s)]
      BY <2>2, <2>3, <2>5
    <3>2. t[p - Len(s)] \in Plain
      BY <3>1
    <3> QED
      BY <1>2, <2>1, <3>1, <3>2
  <2> QED
    BY <2>4, <2>5
<1> QED
  BY <1>2, <1>3 DEF Written

LEMMA NothingWritten ==
    ASSUME StreamsOK, NEW e \in Ends, pipe' = pipe
    PROVE  Written(e)
  BY DEF StreamsOK, Written

LEMMA WrittenGreetings ==
    ASSUME Base, NEW e \in Ends, Written(e)
    PROVE  /\ GreetingFirst'
           /\ \A f \in Ends : Active(f) => \A p \in DOMAIN pipe'[link[f]][Other(f)] :
                  pipe'[link[f]][Other(f)][p] \in Plain
<1>1. GreetingFirst'
  BY DEF Written, Base, GreetingFirst
<1>2. ASSUME NEW f \in Ends, Active(f), NEW p \in DOMAIN pipe'[link[f]][Other(f)]
      PROVE  pipe'[link[f]][Other(f)][p] \in Plain
  <2>1. link[f] \in Connections /\ Other(f) \in Ends
    BY <1>2, EstablishedFacts, EndFacts
  <2> QED
    BY <1>2, <2>1 DEF Written, Base, GreetingRead
<1> QED
  BY <1>1, <1>2

\* It writes,
LEMMA WriteBase ==
    ASSUME Base, NEW e \in Ends, GoesOnWith(e), NEW t \in Seq(Plain), pipe' = Wrote(e, t),
           UNCHANGED <<inbound, partial, got, excess>>,
           begun' \in [Connections -> [Ends -> Seq(Numbers)]],
           \A c \in Connections, f \in Ends : c # link[e] \/ f # e => begun'[c][f] = begun[c][f],
           rest' \in [Ends -> [on : BOOLEAN, bytes : Seq(Plain)]],
           \A f \in Ends \ {e} : rest'[f] = rest[f],
           pings' \in [Ends -> Nat]
    PROVE  Base'
<1>1. /\ LinksOK' /\ CallsInPlace'
      /\ \A f \in Ends : Active(f)' = Active(f)
      /\ call'[Server] \in {Handshake, Responding} => call[Server] \in {Handshake, Responding}
  BY GoesOnFacts
<1>2. /\ session[e] /\ UNCHANGED <<link, waiting, made>> /\ call' \in [Ends -> Calls]
      /\ Active(e)
  BY DEF GoesOnWith, sockets, Active
<1>3. link[e] \in Connections /\ link[e] \in 1 .. made /\ Connections \subseteq Nat
  BY <1>2, EstablishedFacts, ConnectionFacts
<1>4. Written(e)
  BY <1>3, WroteWritten DEF Base
<1>5. /\ pipe' \in [Connections -> [Ends -> Seq(Pieces)]]
      /\ \A c \in Connections, f \in Ends :
            c # link[e] \/ f # e => pipe'[c][f] = pipe[c][f]
  BY <1>4 DEF Written
<1>6. StreamsOK' /\ ReadersOK'
  BY <1>2, <1>5 DEF Base, StreamsOK, ReadersOK
<1>7. NewAreEmpty'
  <2>1. made \in Nat /\ NewAreEmpty
    BY DEF Base, LinksOK
  <2>2. ASSUME NEW c \in Connections, NEW f \in Ends, c > made
        PROVE  pipe'[c][f] = <<>> /\ begun'[c][f] = <<>>
    <3>1. c # link[e]
      BY <1>3, <2>1, <2>2
    <3>2. pipe'[c][f] = pipe[c][f] /\ begun'[c][f] = begun[c][f]
      BY <1>5, <3>1
    <3>3. pipe[c][f] = <<>> /\ begun[c][f] = <<>>
      BY <2>1, <2>2 DEF NewAreEmpty
    <3> QED
      BY <3>2, <3>3
  <2>3. \A f \in Ends : \A i \in DOMAIN got'[f] : got'[f][i].on <= made
    BY <2>1 DEF NewAreEmpty
  <2> QED
    BY <1>2, <2>2, <2>3 DEF NewAreEmpty
<1>8. ASSUME NEW c \in Connections, Ungreeted(c), c # link[e]
      PROVE  Ungreeted(c)'
  <2>1. \A f \in Ends : pipe'[c][f] = pipe[c][f] /\ begun'[c][f] = begun[c][f]
    BY <1>5, <1>8
  <2>2. link'[Client] = c => /\ link[Client] = c /\ Active(Client)' = Active(Client)
                             /\ rest'[Client] = rest[Client]
    BY <1>1, <1>2, <1>8, EndFacts
  <2> QED
    BY <1>8, <2>1, <2>2, UngreetedStays
<1>9. WaitingIsNew'
  <2>1. waiting # 0 => /\ waiting \in Connections /\ waiting # link[e] /\ Ungreeted(waiting)
                       /\ link[Server] # waiting
                       /\ \A i \in DOMAIN got[Server] : got[Server][i].on # waiting
    BY <1>2, ActiveElsewhere, ConnectionFacts DEF Base, WaitingIsNew, LinksOK
  <2>2. waiting # 0 => Ungreeted(waiting)'
    BY <1>2, <1>8, <2>1
  <2>3. PICK k : k = waiting
    OBVIOUS
  <2>4. k # 0 => Ungreeted(k)'
    BY <1>8, <2>1, <2>3
  <2> QED
    BY <1>2, <2>1, <2>3, <2>4 DEF WaitingIsNew
<1>10. ServerGreets'
  <2>1. PICK k : k = link[Server]
    OBVIOUS
  <2>2. call'[Server] \in {Handshake, Responding} =>
            k \in Connections /\ k # link[e] /\ Ungreeted(k)
    <3>1. call[Server] \in {Handshake, Responding} => call[Server] # Idle
      BY CallFacts DEF Handshake, Responding, Idle
    <3> QED
      BY <1>1, <1>2, <2>1, <3>1, ActiveElsewhere, EstablishedFacts, EndFacts DEF Base, ServerGreets
  <2>3. call'[Server] \in {Handshake, Responding} => Ungreeted(k)'
    BY <1>8, <2>2
  <2> QED
    BY <1>2, <2>1, <2>3 DEF ServerGreets
<1>11. GreetingFirst' /\ GreetingRead'
  BY <1>1, <1>2, <1>4, WrittenGreetings DEF GreetingRead
<1> QED
  BY <1>1, <1>6, <1>7, <1>9, <1>10, <1>11 DEF Base

\* t is what is left of s.
Remains(s, t) == \E m \in 0 .. Len(s) : t = SubSeq(s, m + 1, Len(s))

LEMMA RemainsFacts ==
    ASSUME NEW S, NEW s \in Seq(S), NEW t, Remains(s, t)
    PROVE  /\ t \in Seq(S)
           /\ \A p \in DOMAIN t : \E q \in DOMAIN s : q >= p /\ t[p] = s[q]
<1>1. PICK m \in 0 .. Len(s) : t = SubSeq(s, m + 1, Len(s))
  BY DEF Remains
<1>2. Len(s) \in Nat /\ m \in Nat /\ m <= Len(s)
  OBVIOUS
<1>3. t \in Seq(S) /\ Len(t) = Len(s) - m /\ \A i \in 1 .. Len(s) - m : t[i] = s[i + m]
  BY <1>1, <1>2, Part
<1>4. ASSUME NEW p \in DOMAIN t PROVE \E q \in DOMAIN s : q >= p /\ t[p] = s[q]
  <2>1. p \in 1 .. Len(s) - m
    BY <1>3, <1>4
  <2>2. p + m \in 1 .. Len(s) /\ p + m >= p
    BY <1>2, <2>1
  <2> QED
    BY <1>3, <2>1, <2>2
<1> QED
  BY <1>3, <1>4

LEMMA RemainsWhole ==
    ASSUME NEW S, NEW s \in Seq(S)
    PROVE  Remains(s, s)
<1>1. Len(s) \in Nat /\ 0 \in 0 .. Len(s) /\ 0 <= Len(s)
  OBVIOUS
<1>2. /\ SubSeq(s, 0 + 1, Len(s)) \in Seq(S) /\ Len(SubSeq(s, 0 + 1, Len(s))) = Len(s) - 0
      /\ \A i \in 1 .. Len(s) - 0 : SubSeq(s, 0 + 1, Len(s))[i] = s[i + 0]
  BY <1>1, Part
<1>3. Len(s) - 0 = Len(s) /\ \A i \in 1 .. Len(s) : i + 0 = i
  BY <1>1
<1>4. SubSeq(s, 0 + 1, Len(s)) = s
  BY <1>2, <1>3
<1> QED
  BY <1>1, <1>4 DEF Remains

\* Pieces taken from two streams, one after the other.
LEMMA TakenFromFirst ==
    ASSUME NEW S, NEW a \in Seq(S), NEW b \in Seq(S), NEW k \in Nat, k <= Len(a)
    PROVE  LET u == SubSeq(a, k + 1, Len(a))
           IN  /\ u \in Seq(S) /\ Len(u) + k = Len(a) /\ \A i \in 1 .. Len(u) : u[i] = a[i + k]
               /\ u \o b \in Seq(S) /\ a \o b \in Seq(S)
               /\ Len(u \o b) + k = Len(a \o b)
               /\ \A i \in 1 .. Len(u \o b) : (u \o b)[i] = (a \o b)[i + k]
<1> DEFINE u == SubSeq(a, k + 1, Len(a))
<1>1. Len(a) \in Nat /\ Len(b) \in Nat
  OBVIOUS
<1>2. u \in Seq(S) /\ Len(u) = Len(a) - k /\ \A i \in 1 .. Len(a) - k : u[i] = a[i + k]
  BY <1>1, Part
<1> HIDE DEF u
<1>3. /\ u \o b \in Seq(S) /\ Len(u \o b) = Len(u) + Len(b)
      /\ \A i \in 1 .. Len(u) + Len(b) : (u \o b)[i] = IF i <= Len(u) THEN u[i] ELSE b[i - Len(u)]
  BY <1>2, ConcatProperties
<1>4. /\ a \o b \in Seq(S) /\ Len(a \o b) = Len(a) + Len(b)
      /\ \A i \in 1 .. Len(a) + Len(b) : (a \o b)[i] = IF i <= Len(a) THEN a[i] ELSE b[i - Len(a)]
  BY ConcatProperties
<1>5. ASSUME NEW i \in 1 .. Len(u \o b) PROVE (u \o b)[i] = (a \o b)[i + k]
  <2>1. i \in 1 .. Len(u) + Len(b) /\ i \in Nat /\ i + k \in 1 .. Len(a) + Len(b)
    BY <1>1, <1>2, <1>3
  <2>2. (u \o b)[i] = IF i <= Len(u) THEN u[i] ELSE b[i - Len(u)]
    BY <1>3, <2>1
  <2>3. (a \o b)[i + k] = IF i + k <= Len(a) THEN a[i + k] ELSE b[i + k - Len(a)]
    BY <1>4, <2>1
  <2>4. CASE i <= Len(u)
    <3>1. i \in 1 .. Len(a) - k /\ i + k <= Len(a)
      BY <1>1, <1>2, <2>1, <2>4
    <3> QED
      BY <1>2, <2>2, <2>3, <2>4, <3>1
  <2>5. CASE ~(i <= Len(u))
    <3>1. ~(i + k <= Len(a)) /\ i + k - Len(a) = i - Len(u)
      BY <1>1, <1>2, <2>1, <2>5
    <3> QED
      BY <2>2, <2>3, <2>5, <3>1
  <2> QED
    BY <2>4, <2>5
<1>6. Len(u) + k = Len(a) /\ Len(u \o b) + k = Len(a \o b) /\ \A i \in 1 .. Len(u) : u[i] = a[i + k]
  BY <1>1, <1>2, <1>3, <1>4
<1> QED
  BY <1>2, <1>3, <1>4, <1>5, <1>6 DEF u

\* All of a is taken, and some of b; u and w remain.
TakesBoth(a, b, k, u, w) ==
    /\ k > Len(a) /\ k <= Len(a) + Len(b)
    /\ u = SubSeq(a, Len(a) + 1, Len(a))
    /\ w = SubSeq(b, k - Len(a) + 1, Len(b))

TookBoth(S, a, b, k, u, w) ==
    /\ u \in Seq(S) /\ u = <<>> /\ w \in Seq(S)
    /\ u \o w \in Seq(S) /\ a \o b \in Seq(S)
    /\ Len(u \o w) + k = Len(a \o b)
    /\ \A i \in 1 .. Len(u \o w) : (u \o w)[i] = (a \o b)[i + k]

LEMMA TakenFromSecond ==
    ASSUME NEW S, NEW a \in Seq(S), NEW b \in Seq(S), NEW k \in Nat, NEW u, NEW w,
           TakesBoth(a, b, k, u, w)
    PROVE  TookBoth(S, a, b, k, u, w)
<1> USE DEF TakesBoth
<1>0. PICK m : m = k - Len(a)
  OBVIOUS
<1>1. /\ Len(a) \in Nat /\ Len(b) \in Nat /\ m \in Nat /\ m <= Len(b) /\ Len(a) <= Len(a)
      /\ Len(a) - Len(a) = 0
  BY <1>0
<1>9. u = SubSeq(a, Len(a) + 1, Len(a))
  OBVIOUS
<1>2. u \in Seq(S) /\ Len(u) = 0
  BY <1>1, Part
<1>3. w \in Seq(S) /\ Len(w) = Len(b) - m /\ \A i \in 1 .. Len(b) - m : w[i] = b[i + m]
  <2>1. /\ SubSeq(b, m + 1, Len(b)) \in Seq(S)
        /\ Len(SubSeq(b, m + 1, Len(b))) = IF m <= Len(b) THEN Len(b) - m ELSE 0
        /\ \A i \in 1 .. Len(b) - m : SubSeq(b, m + 1, Len(b))[i] = b[i + m]
    BY <1>1, Part
  <2>2. w = SubSeq(b, m + 1, Len(b))
    BY <1>0
  <2> QED
    BY <1>1, <2>1, <2>2
<1>4. u = <<>> /\ u \o w = w
  <2>1. u = <<>>
    BY <1>2
  <2> QED
    BY <1>3, <2>1
<1>5. /\ a \o b \in Seq(S) /\ Len(a \o b) = Len(a) + Len(b)
      /\ \A i \in 1 .. Len(a) + Len(b) : (a \o b)[i] = IF i <= Len(a) THEN a[i] ELSE b[i - Len(a)]
  BY ConcatProperties
<1>6. ASSUME NEW i \in 1 .. Len(w) PROVE w[i] = (a \o b)[i + k]
  <2>1. /\ i \in 1 .. Len(b) - m /\ i + k \in 1 .. Len(a) + Len(b) /\ ~(i + k <= Len(a))
        /\ i + k - Len(a) = i + m
    BY <1>0, <1>1, <1>3
  <2> QED
    BY <1>3, <1>5, <2>1
<1>7. Len(w) + k = Len(a \o b)
  BY <1>0, <1>1, <1>3, <1>5
<1> QED
  BY <1>2, <1>3, <1>4, <1>5, <1>6, <1>7 DEF TookBoth

\* Replacing what is left in one stream.
Replaces(c, f, t) == pipe' = [pipe EXCEPT ![c][f] = t]
Replaced(c, f, t) ==
    /\ pipe' \in [Connections -> [Ends -> Seq(Pieces)]]
    /\ pipe'[c][f] = t
    /\ \A d \in Connections, g \in Ends : d # c \/ g # f => pipe'[d][g] = pipe[d][g]

LEMMA ReplaceType ==
    ASSUME StreamsOK, NEW c \in Connections, NEW f \in Ends, NEW t \in Seq(Pieces),
           Replaces(c, f, t)
    PROVE  Replaced(c, f, t)
<1>1. /\ pipe \in [Connections -> [Ends -> Seq(Pieces)]]
      /\ pipe[c] \in [Ends -> Seq(Pieces)]
  BY DEF StreamsOK
<1>2. pipe' = [pipe EXCEPT ![c] = [pipe[c] EXCEPT ![f] = t]]
  BY DEF Replaces
<1>3. [pipe[c] EXCEPT ![f] = t] \in [Ends -> Seq(Pieces)]
  BY <1>1
<1> QED
  BY <1>1, <1>2, <1>3 DEF Replaced

\* End e has read from its connection: only its inbound stream changed.
Read(e) ==
    /\ inbound' \in [Ends -> Seq(Plain)]
    /\ \A f \in Ends \ {e} : inbound'[f] = inbound[f]
    /\ pipe' \in [Connections -> [Ends -> Seq(Pieces)]]
    /\ \A c \in Connections, f \in Ends : c # link[e] \/ f # Other(e) => pipe'[c][f] = pipe[c][f]
    /\ link[e] \in Connections => Remains(pipe[link[e]][Other(e)], pipe'[link[e]][Other(e)])

LEMMA ConsumeEffect ==
    ASSUME StreamsOK, NEW e \in Ends, NEW k \in Nat, k <= Len(Stream(e)),
           state[e] = "connected" => link[e] \in Connections, Consume(e, k),
           UNCHANGED <<state, link>>
    PROVE  /\ Read(e)
           /\ Stream(e) \in Seq(Pieces) /\ Stream(e)' \in Seq(Pieces)
           /\ Len(Stream(e)') + k = Len(Stream(e))
           /\ \A i \in 1 .. Len(Stream(e)') : Stream(e)'[i] = Stream(e)[i + k]
<1>1. PICK a, b, kept, o :
        /\ a = inbound[e] /\ o = Other(e) /\ b = IF state[e] = "connected" THEN pipe[link[e]][o] ELSE <<>>
        /\ kept = IF k < Len(a) THEN k ELSE Len(a)
  OBVIOUS
<1>2. o \in Ends /\ o # e
  BY <1>1, EndFacts
<1>3. a \in Seq(Plain) /\ a \in Seq(Pieces) /\ inbound \in [Ends -> Seq(Plain)]
  BY <1>1, PlainPieces DEF StreamsOK
<1>4. /\ link[e] \in Connections => pipe[link[e]][o] \in Seq(Pieces)
      /\ b \in Seq(Pieces)
      /\ pipe \in [Connections -> [Ends -> Seq(Pieces)]]
  BY <1>1, <1>2 DEF StreamsOK
<1>5. /\ inbound' = [inbound EXCEPT ![e] = SubSeq(a, kept + 1, Len(a))]
      /\ k = kept => pipe' = pipe
      /\ k # kept => pipe' = [pipe EXCEPT ![link[e]][o] =
                                SubSeq(pipe[link[e]][o], k - kept + 1, Len(pipe[link[e]][o]))]
  BY <1>1 DEF Consume
<1>6. Stream(e) = IF state[e] = "connected" THEN a \o b ELSE a
  BY <1>1 DEF Stream
<1>7. a \o b \in Seq(Pieces) /\ Len(a \o b) = Len(a) + Len(b) /\ Len(a) \in Nat /\ Len(b) \in Nat
  BY <1>3, <1>4, ConcatProperties
<1>8. Stream(e)' = IF state[e] = "connected" THEN inbound'[e] \o pipe'[link[e]][o] ELSE inbound'[e]
  BY <1>1 DEF Stream
<1>9. CASE k <= Len(a)
  <2> DEFINE u == SubSeq(a, k + 1, Len(a))
  <2>1. kept = k
    BY <1>1, <1>7, <1>9
  <2>2. inbound' = [inbound EXCEPT ![e] = u] /\ pipe' = pipe
    BY <1>5, <2>1
  <2>3. u \in Seq(Plain)
    BY <1>3, <1>7, <1>9, TakenFromFirst
  <2>4. /\ u \in Seq(Pieces) /\ Len(u) + k = Len(a) /\ \A i \in 1 .. Len(u) : u[i] = a[i + k]
        /\ u \o b \in Seq(Pieces)
        /\ Len(u \o b) + k = Len(a \o b)
        /\ \A i \in 1 .. Len(u \o b) : (u \o b)[i] = (a \o b)[i + k]
    BY <1>3, <1>4, <1>9, TakenFromFirst, SMTT(20)
  <2> HIDE DEF u
  <2>5. inbound'[e] = u /\ Read(e)
    BY <1>1, <1>2, <1>3, <1>4, <2>2, <2>3, RemainsWhole DEF Read
  <2>6. Stream(e)' = IF state[e] = "connected" THEN u \o b ELSE u
    BY <1>1, <1>8, <2>2, <2>5
  <2> QED
    BY <1>3, <1>6, <1>7, <2>4, <2>5, <2>6
<1>10. CASE ~(k <= Len(a))
  <2>0. PICK u, w : u = SubSeq(a, Len(a) + 1, Len(a)) /\ w = SubSeq(b, k - Len(a) + 1, Len(b))
    OBVIOUS
  <2>1. kept = Len(a) /\ k # kept /\ k > Len(a)
    BY <1>1, <1>7, <1>10
  <2>2. state[e] = "connected" /\ k <= Len(a) + Len(b) /\ link[e] \in Connections
    BY <1>6, <1>7, <1>10
  <2>3. b = pipe[link[e]][o]
    BY <1>1, <2>2
  <2>4. inbound' = [inbound EXCEPT ![e] = u] /\ pipe' = [pipe EXCEPT ![link[e]][o] = w]
    BY <1>5, <2>0, <2>1, <2>3
  <2>5. /\ u \in Seq(Pieces) /\ u = <<>> /\ w \in Seq(Pieces)
        /\ u \o w \in Seq(Pieces)
        /\ Len(u \o w) + k = Len(a \o b)
        /\ \A i \in 1 .. Len(u \o w) : (u \o w)[i] = (a \o b)[i + k]
    <3>1. a \in Seq(Pieces) /\ b \in Seq(Pieces) /\ k > Len(a) /\ k <= Len(a) + Len(b)
      BY <1>3, <1>4, <2>1, <2>2
    <3> QED
      <4>1. TakesBoth(a, b, k, u, w)
        BY <2>0, <3>1 DEF TakesBoth
      <4>2. TookBoth(Pieces, a, b, k, u, w)
        BY <3>1, <4>1, TakenFromSecond
      <4> QED
        BY <4>2 DEF TookBoth
  <2>6. Remains(b, w)
    <3>1. k - Len(a) \in 0 .. Len(b)
      BY <1>7, <2>1, <2>2
    <3> QED
      BY <2>0, <3>1 DEF Remains
  <2>7. /\ pipe' \in [Connections -> [Ends -> Seq(Pieces)]]
        /\ pipe'[link[e]][o] = w
        /\ \A d \in Connections, g \in Ends : d # link[e] \/ g # o => pipe'[d][g] = pipe[d][g]
    <3>1. Replaces(link[e], o, w) /\ o \in Ends /\ StreamsOK
      BY <1>2, <2>4 DEF Replaces
    <3>2. Replaced(link[e], o, w)
      BY <2>2, <2>5, <3>1, ReplaceType
    <3> QED
      BY <3>2 DEF Replaced
  <2>8. u \in Seq(Plain) /\ inbound'[e] = u
    BY <1>3, <2>4, <2>5
  <2>9. Read(e)
    BY <1>1, <1>3, <2>3, <2>4, <2>6, <2>7, <2>8 DEF Read
  <2>10. Stream(e)' = u \o w
    BY <1>8, <2>2, <2>7, <2>8
  <2> QED
    BY <1>6, <1>7, <2>2, <2>5, <2>9, <2>10
<1> QED
  BY <1>9, <1>10

\* What the peer sends is plain once its greeting has been read.
LEMMA ReadGreetings ==
    ASSUME Base, NEW e \in Ends, Read(e)
    PROVE  /\ GreetingFirst'
           /\ \A f \in Ends : Active(f) => \A p \in DOMAIN pipe'[link[f]][Other(f)] :
                  pipe'[link[f]][Other(f)][p] \in Plain
<1>1. ASSUME NEW c \in Connections, NEW f \in Ends, NEW p \in DOMAIN pipe'[c][f]
      PROVE  \E q \in DOMAIN pipe[c][f] : q >= p /\ pipe'[c][f][p] = pipe[c][f][q]
  <2>1. pipe[c][f] \in Seq(Pieces)
    BY DEF Base, StreamsOK
  <2>2. CASE c = link[e] /\ f = Other(e)
    <3>1. PICK s, t : s = pipe[c][f] /\ t = pipe'[c][f]
      OBVIOUS
    <3>2. s \in Seq(Pieces) /\ Remains(s, t) /\ p \in DOMAIN t
      BY <1>1, <2>1, <2>2, <3>1 DEF Read
    <3>3. \E q \in DOMAIN s : q >= p /\ t[p] = s[q]
      BY <3>2, RemainsFacts
    <3> QED
      BY <3>1, <3>3
  <2>3. CASE ~(c = link[e] /\ f = Other(e))
    <3>1. pipe'[c][f] = pipe[c][f]
      BY <2>3 DEF Read
    <3>2. p \in Nat
      BY <2>1, <3>1, <1>1
    <3>3. p >= p
      BY <3>2
    <3> QED
      BY <1>1, <3>1, <3>3
  <2> QED
    BY <2>2, <2>3
<1>2. GreetingFirst'
  <2> SUFFICES ASSUME NEW c \in Connections, NEW f \in Ends, NEW p \in DOMAIN pipe'[c][f], p > 1
               PROVE  pipe'[c][f][p] \in Plain
    BY DEF GreetingFirst
  <2>1. pipe[c][f] \in Seq(Pieces) /\ pipe'[c][f] \in Seq(Pieces)
    BY DEF Base, StreamsOK, Read
  <2>2. PICK q \in DOMAIN pipe[c][f] : q >= p /\ pipe'[c][f][p] = pipe[c][f][q]
    BY <1>1
  <2>3. q > 1
    BY <2>1, <2>2
  <2> QED
    BY <2>2, <2>3 DEF Base, GreetingFirst
<1>3. ASSUME NEW f \in Ends, Active(f), NEW p \in DOMAIN pipe'[link[f]][Other(f)]
      PROVE  pipe'[link[f]][Other(f)][p] \in Plain
  <2>1. Active(f) /\ link[f] \in Connections /\ Other(f) \in Ends
    BY <1>3, EstablishedFacts, EndFacts
  <2>2. PICK q \in DOMAIN pipe[link[f]][Other(f)] :
            pipe'[link[f]][Other(f)][p] = pipe[link[f]][Other(f)][q]
    BY <1>1, <1>3, <2>1
  <2> QED
    BY <2>1, <2>2 DEF Base, GreetingRead
<1> QED
  BY <1>2, <1>3

\* and reads.
LEMMA ReadBase ==
    ASSUME Base, NEW e \in Ends, GoesOnWith(e), Read(e),
           UNCHANGED writer,
           partial' \in [Ends -> [on : BOOLEAN, bytes : Seq(Plain)]],
           got' \in [Ends -> Seq(Messages)],
           excess' \in [Ends -> Refusals],
           \A f \in Ends : \A i \in DOMAIN got'[f] :
              \/ i \in DOMAIN got[f] /\ got'[f][i] = got[f][i]
              \/ f = e /\ got'[f][i].on = link[e]
    PROVE  Base'
<1>1. /\ LinksOK' /\ CallsInPlace'
      /\ \A f \in Ends : Active(f)' = Active(f)
      /\ call'[Server] \in {Handshake, Responding} => call[Server] \in {Handshake, Responding}
  BY GoesOnFacts
<1>2. /\ session[e] /\ UNCHANGED <<link, waiting, made>> /\ call' \in [Ends -> Calls]
      /\ UNCHANGED <<rest, begun, pings>> /\ Active(e)
  BY DEF GoesOnWith, sockets, Active, writer
<1>3. link[e] \in Connections /\ link[e] \in 1 .. made /\ Connections \subseteq Nat
  BY <1>2, EstablishedFacts, ConnectionFacts
<1>4. Remains(pipe[link[e]][Other(e)], pipe'[link[e]][Other(e)]) /\ Other(e) \in Ends
  BY <1>3, EndFacts DEF Read
<1>5. \A c \in Connections, f \in Ends : c # link[e] => pipe'[c][f] = pipe[c][f]
  BY DEF Read
<1>6. StreamsOK' /\ ReadersOK'
  BY <1>2 DEF Base, StreamsOK, ReadersOK, Read
<1>7. NewAreEmpty'
  <2>1. made \in Nat /\ NewAreEmpty /\ link[e] <= made
    BY <1>3 DEF Base, LinksOK
  <2>2. ASSUME NEW c \in Connections, NEW f \in Ends, c > made
        PROVE  pipe'[c][f] = <<>> /\ begun'[c][f] = <<>>
    <3>1. c # link[e]
      BY <1>3, <2>1, <2>2
    <3> QED
      BY <1>2, <1>5, <2>1, <2>2, <3>1 DEF NewAreEmpty
  <2>3. \A f \in Ends : \A i \in DOMAIN got'[f] : got'[f][i].on <= made
    BY <2>1 DEF NewAreEmpty
  <2> QED
    BY <1>2, <2>1, <2>2, <2>3 DEF NewAreEmpty
<1>8. ASSUME NEW c \in Connections, Ungreeted(c), c # link[e]
      PROVE  Ungreeted(c)'
  <2>1. \A f \in Ends : pipe'[c][f] = pipe[c][f] /\ begun'[c][f] = begun[c][f]
    BY <1>2, <1>5, <1>8
  <2>2. link'[Client] = c => /\ link[Client] = c /\ Active(Client)' = Active(Client)
                             /\ rest'[Client] = rest[Client]
    BY <1>1, <1>2, EndFacts
  <2> QED
    BY <1>8, <2>1, <2>2, UngreetedStays
<1>9. WaitingIsNew'
  <2>1. waiting # 0 => /\ waiting \in Connections /\ waiting # link[e] /\ Ungreeted(waiting)
                       /\ link[Server] # waiting
                       /\ \A i \in DOMAIN got[Server] : got[Server][i].on # waiting
    BY <1>2, ActiveElsewhere, ConnectionFacts DEF Base, WaitingIsNew, LinksOK
  <2>2. PICK k : k = waiting
    OBVIOUS
  <2>3. k # 0 => Ungreeted(k)'
    BY <1>8, <2>1, <2>2
  <2>4. k # 0 => \A i \in DOMAIN got'[Server] : got'[Server][i].on # k
    BY <2>1, <2>2, EndFacts
  <2> QED
    BY <1>2, <2>1, <2>2, <2>3, <2>4 DEF WaitingIsNew
<1>10. ServerGreets'
  <2>1. PICK k : k = link[Server]
    OBVIOUS
  <2>2. call'[Server] \in {Handshake, Responding} =>
            k \in Connections /\ k # link[e] /\ Ungreeted(k)
    <3>1. call[Server] \in {Handshake, Responding} => call[Server] # Idle
      BY CallFacts DEF Handshake, Responding, Idle
    <3> QED
      BY <1>1, <1>2, <2>1, <3>1, ActiveElsewhere, EstablishedFacts, EndFacts DEF Base, ServerGreets
  <2>3. call'[Server] \in {Handshake, Responding} => Ungreeted(k)'
    BY <1>8, <2>2
  <2> QED
    BY <1>2, <2>1, <2>3 DEF ServerGreets
<1>11. GreetingFirst' /\ GreetingRead'
  BY <1>1, <1>2, ReadGreetings DEF GreetingRead
<1> QED
  BY <1>1, <1>6, <1>7, <1>9, <1>10, <1>11 DEF Base

\* What an established end reads is plain.
LEMMA StreamPlain ==
    ASSUME Base, NEW e \in Ends, Active(e)
    PROVE  Stream(e) \in Seq(Plain)
<1>1. inbound[e] \in Seq(Plain)
  BY DEF Base, StreamsOK
<1>2. PICK s : s = pipe[link[e]][Other(e)]
  OBVIOUS
<1>3. s \in Seq(Pieces) /\ \A p \in DOMAIN s : s[p] \in Plain
  BY <1>2, EstablishedFacts, EndFacts DEF Base, StreamsOK, GreetingRead
<1>4. s \in Seq(Plain)
  BY <1>3, PlainSeq
<1>5. inbound[e] \o s \in Seq(Plain)
  BY <1>1, <1>4
<1> QED
  BY <1>1, <1>2, <1>5 DEF Stream

\* A call that needs a session has one.
LEMMA SessionCalls ==
    ASSUME Base, NEW e \in Ends
    PROVE  /\ call[e].op \in {"payload", "pong", "close", "receive"} \/ call[e] = NextFrame => session[e]
           /\ call[e].op = "payload" => call[e].head \in Short /\ call[e] = Payload(call[e].head)
           /\ call[e].op \in {"pong", "close"} => call[e].bytes \in Seq(Plain)
           /\ session[e] => /\ Active(e) /\ link[e] \in Connections
                            /\ call[e] # Handshake /\ call[e] # Responding
<1>1. call[e] \in Calls
  BY DEF Base, ReadersOK
<1>2. session[e] => Active(e)
  BY DEF Active
<1> QED
  BY <1>1, <1>2, CallFacts, EstablishedFacts DEF Base, CallsInPlace

LEMMA ShowsNoPart ==
    /\ Idle # Handshake /\ Idle # Responding /\ NextFrame # Handshake /\ NextFrame # Responding
    /\ \A h : Payload(h) # Handshake /\ Payload(h) # Responding
    /\ \A op \in {"pong", "close"} : \A b : Answering(op, b) # Handshake /\ Answering(op, b) # Responding
    /\ Handshake # Responding /\ Idle # NextFrame
<1>1. /\ Idle.op = "none" /\ Handshake.op = "handshake" /\ NextFrame.op = "receive"
      /\ Responding.op = "respond" /\ \A h : Payload(h).op = "payload"
      /\ \A op, b : Answering(op, b).op = op
  BY DEF Idle, Handshake, NextFrame, Responding, Payload, Answering
<1> QED
  BY <1>1

\* What becomes of a message, and of the calls of the other end.
LEMMA DispatchTypes ==
    ASSUME ReadersOK, NEW e \in Ends, NEW h \in Short, NEW bytes \in Seq(Plain),
           link[e] \in Connections, Dispatch(e, h, bytes)
    PROVE  /\ call' \in [Ends -> Calls] /\ call'[e] # Handshake /\ call'[e] # Responding
           /\ partial' \in [Ends -> [on : BOOLEAN, bytes : Seq(Plain)]]
           /\ excess' \in [Ends -> Refusals]
           /\ \A f \in Ends \ {e} : /\ call'[f] = call[f] /\ partial'[f] = partial[f]
                                    /\ excess'[f] = excess[f]
           /\ \/ got' = got
              \/ \E m \in Messages : /\ m.on = link[e] /\ m.after = excess[e]
                                     /\ got' = [got EXCEPT ![e] = Append(@, m)]
           /\ call'[e].op # "payload"
<1>1. /\ call \in [Ends -> Calls]
      /\ partial \in [Ends -> [on : BOOLEAN, bytes : Seq(Plain)]]
      /\ got \in [Ends -> Seq(Messages)]
      /\ excess \in [Ends -> Refusals]
  BY DEF ReadersOK
<1> DEFINE CallGoesOn(x) == /\ call' = [call EXCEPT ![e] = x] /\ x \in Calls
                            /\ x # Handshake /\ x # Responding /\ x.op # "payload"
           Got(b) == got' = [got EXCEPT ![e] = Append(@, [on |-> link[e], bytes |-> b, after |-> excess[e]])]
           Kept == partial' = partial \/ \E p \in [on : BOOLEAN, bytes : Seq(Plain)] :
                                            partial' = [partial EXCEPT ![e] = p]
           Refused == excess' = excess \/ \E x \in Refusals : excess' = [excess EXCEPT ![e] = x]
<1>2. Return(e) => CallGoesOn(Idle)
  BY SomeCalls, ShowsNoPart DEF Return, Idle
<1>3. Continue(e) => CallGoesOn(NextFrame)
  BY SomeCalls, ShowsNoPart DEF Continue, NextFrame
<1>4. \A op \in {"pong", "close"} :
        call' = [call EXCEPT ![e] = Answering(op, bytes)] => CallGoesOn(Answering(op, bytes))
  BY SomeCalls, ShowsNoPart DEF Answering
<1>5. /\ partial[e] \in [on : BOOLEAN, bytes : Seq(Plain)] /\ partial[e].bytes \in Seq(Plain)
      /\ partial[e].bytes \o bytes \in Seq(Plain)
  BY <1>1
<1>6. \A b : Deliver(e, b) => Return(e) /\ Got(b)
  BY DEF Deliver
<1>7. \A b \in Seq(Plain) : [on |-> TRUE, bytes |-> b] \in [on : BOOLEAN, bytes : Seq(Plain)]
  OBVIOUS
<1>8. NoMessage \in [on : BOOLEAN, bytes : Seq(Plain)]
  BY DEF NoMessage
<1>9. /\ \E x : CallGoesOn(x)
      /\ Kept /\ Refused
      /\ got' = got \/ \E b \in Seq(Plain) : Got(b)
  <2> HIDE DEF CallGoesOn, Got
  <2>1. CASE Data(e, h.fin, bytes)
    BY <1>2, <1>3, <1>6, <1>7, <2>1 DEF Data, StartWith
  <2>2. CASE More(e, h.fin, bytes)
    <3> DEFINE whole == partial[e].bytes \o bytes
    <3>1. CASE Deliver(e, whole) /\ partial' = [partial EXCEPT ![e] = NoMessage] /\ UNCHANGED excess
      BY <1>2, <1>5, <1>6, <1>8, <3>1
    <3>2. CASE /\ partial' = [partial EXCEPT ![e] = [on |-> TRUE, bytes |-> whole]]
               /\ Continue(e) /\ UNCHANGED <<got, excess>>
      BY <1>3, <1>5, <1>7, <3>2
    <3>3. CASE Refuse(e, "message") /\ Return(e) /\ UNCHANGED <<got, partial>>
      <4>1. (IF excess[e] = "frame" THEN excess[e] ELSE "message") \in Refusals
        BY DEF Refusals
      <4>2. excess' = [excess EXCEPT ![e] = IF excess[e] = "frame" THEN excess[e] ELSE "message"]
        BY <3>3 DEF Refuse
      <4> QED
        BY <1>2, <3>3, <4>1, <4>2
    <3> QED
      BY <2>2, <3>1, <3>2, <3>3 DEF More
  <2>3. CASE Continue(e) /\ UNCHANGED <<got, partial, excess>>
    BY <1>3, <2>3
  <2>4. CASE Return(e) /\ UNCHANGED <<got, partial, excess>>
    BY <1>2, <2>4
  <2>5. CASE /\ call' = [call EXCEPT ![e] =
                    Answering(IF h.op = "ping" THEN "pong" ELSE "close", bytes)]
             /\ UNCHANGED <<got, partial, excess>>
    BY <1>4, <2>5
  <2> QED
    BY <2>1, <2>2, <2>3, <2>4, <2>5 DEF Dispatch
<1>10. \A b \in Seq(Plain) : [on |-> link[e], bytes |-> b, after |-> excess[e]] \in Messages
  BY <1>1 DEF Messages
<1>11. got' = got \/ \E m \in Messages : /\ m.on = link[e] /\ m.after = excess[e]
                                         /\ got' = [got EXCEPT ![e] = Append(@, m)]
  <2>1. ASSUME NEW b \in Seq(Plain), Got(b)
        PROVE  \E m \in Messages : /\ m.on = link[e] /\ m.after = excess[e]
                                   /\ got' = [got EXCEPT ![e] = Append(@, m)]
    <3> DEFINE m == [on |-> link[e], bytes |-> b, after |-> excess[e]]
    <3>1. m \in Messages /\ m.on = link[e] /\ m.after = excess[e]
      BY <1>10
    <3>2. got' = [got EXCEPT ![e] = Append(@, m)]
      BY <2>1
    <3> QED
      BY <3>1, <3>2
  <2> HIDE DEF Got
  <2> QED
    BY <1>9, <2>1
<1>12. /\ call' \in [Ends -> Calls] /\ call'[e] # Handshake /\ call'[e] # Responding
       /\ call'[e].op # "payload"
       /\ \A f \in Ends \ {e} : call'[f] = call[f]
  BY <1>1, <1>9
<1>13. /\ partial' \in [Ends -> [on : BOOLEAN, bytes : Seq(Plain)]]
       /\ \A f \in Ends \ {e} : partial'[f] = partial[f]
  BY <1>1, <1>9
<1>14. excess' \in [Ends -> Refusals] /\ \A f \in Ends \ {e} : excess'[f] = excess[f]
  BY <1>1, <1>9
<1> QED
  BY <1>11, <1>12, <1>13, <1>14

\* One more message.
LEMMA GotOne ==
    ASSUME ReadersOK, NEW e \in Ends, NEW m \in Messages, got' = [got EXCEPT ![e] = Append(@, m)]
    PROVE  /\ got' \in [Ends -> Seq(Messages)]
           /\ \A f \in Ends \ {e} : got'[f] = got[f]
           /\ DOMAIN got'[e] = DOMAIN got[e] \cup {Len(got[e]) + 1}
           /\ Len(got[e]) + 1 \notin DOMAIN got[e]
           /\ \A i \in DOMAIN got[e] : got'[e][i] = got[e][i]
           /\ got'[e][Len(got[e]) + 1] = m
<1>1. PICK s : s = got[e]
  OBVIOUS
<1>2. s \in Seq(Messages) /\ got \in [Ends -> Seq(Messages)] /\ Len(s) \in Nat
  BY <1>1 DEF ReadersOK
<1>3. /\ Append(s, m) \in Seq(Messages) /\ Len(Append(s, m)) = Len(s) + 1
      /\ \A i \in 1 .. Len(s) : Append(s, m)[i] = s[i]
      /\ Append(s, m)[Len(s) + 1] = m
  BY <1>2, AppendProperties
<1>4. got'[e] = Append(s, m) /\ \A f \in Ends \ {e} : got'[f] = got[f]
  BY <1>1, <1>2
<1>5. got' \in [Ends -> Seq(Messages)]
  BY <1>1, <1>2, <1>3
<1>6. DOMAIN s = 1 .. Len(s) /\ DOMAIN Append(s, m) = 1 .. Len(s) + 1
  BY <1>2, <1>3
<1>7. 1 .. Len(s) + 1 = (1 .. Len(s)) \cup {Len(s) + 1} /\ Len(s) + 1 \notin 1 .. Len(s)
  BY <1>2
<1> QED
  BY <1>1, <1>3, <1>4, <1>5, <1>6, <1>7

-----------------------------------------------------------------------------
(* Writing                                                                  *)

LEMMA MessageFacts ==
    ASSUME NEW n \in Numbers
    PROVE  /\ Size(n) \in Nat
           /\ Message(n) \in Seq(Plain) /\ Len(Message(n)) = Size(n)
           /\ \A i \in 1 .. Size(n) : Message(n)[i] = Byte(n, i)
<1>1. Size(n) \in Nat
  BY WebSocketAssumption DEF Numbers
<1>2. \A i \in 1 .. Size(n) : Byte(n, i) \in Plain
  BY <1>1 DEF Byte, Bytes, Plain
<1>3. Message(n) \in [1 .. Size(n) -> Plain] /\ \A i \in 1 .. Size(n) : Message(n)[i] = Byte(n, i)
  BY <1>2 DEF Message
<1>4. Message(n) \in Seq(Plain) /\ DOMAIN Message(n) = 1 .. Size(n)
  BY <1>1, <1>3
<1>5. Len(Message(n)) = Size(n)
  BY <1>1, <1>4
<1> QED
  BY <1>1, <1>3, <1>4, <1>5

\* Numbers are unused, and few.
LEMMA NextNumberType ==
    ASSUME Base, NEW e \in Ends, CanSend(e)
    PROVE  NextNumber(e) \in Numbers
<1> DEFINE used == UNION {Range(begun[c][e]) : c \in Connections}
           bound == (1 .. MaxSends(Client)) \cup (1 .. MaxSends(Server))
<1>1. begun \in [Connections -> [Ends -> Seq(Numbers)]] /\ pings[e] \in Nat
  BY DEF Base, StreamsOK
<1>2. MaxSends(Client) \in Nat /\ MaxSends(Server) \in Nat /\ MaxSends(e) \in Nat
  BY WebSocketAssumption, EndFacts
<1>3. \A c \in Connections : Range(begun[c][e]) \subseteq Numbers
  <2> SUFFICES ASSUME NEW c \in Connections PROVE Range(begun[c][e]) \subseteq Numbers
    OBVIOUS
  <2>1. begun[c][e] \in Seq(Numbers)
    BY <1>1
  <2> QED
    BY <2>1 DEF Range
<1>4. used \subseteq Numbers
  BY <1>3
<1>5. Numbers \subseteq bound
  BY EndFacts DEF Numbers
<1>6. IsFiniteSet(bound)
  <2>1. IsFiniteSet(1 .. MaxSends(Client)) /\ IsFiniteSet(1 .. MaxSends(Server))
    BY <1>2, FS_Interval
  <2> QED
    BY <2>1, FS_Union
<1>7. used \in SUBSET bound
  BY <1>4, <1>5
<1> HIDE DEF used, bound
<1>8. IsFiniteSet(used)
  BY <1>6, <1>7, FS_Subset
<1>9. Cardinality(used) \in Nat
  BY <1>8, FS_CardinalityType
<1>10. NextNumber(e) = Cardinality(used) + 1 /\ NextNumber(e) + pings[e] <= MaxSends(e)
  BY DEF NextNumber, used, CanSend
<1>11. NextNumber(e) \in 1 .. MaxSends(e)
  BY <1>1, <1>2, <1>9, <1>10
<1> QED
  BY <1>11 DEF Numbers

\* A frame with head x and these bytes goes on with the messages b, of which r
\* is still to be sent; after it they are c and q.
Proceeds(b, r, x, bytes, c, q) ==
    \A a \in Marks : WriterStands(b, r, a) =>
        /\ Carries(x) =>
              /\ GoesOn(x, a, c)
              /\ \A i \in 1 .. x.size : bytes[i] = Byte(c[a.done + 1], a.had + i)
        /\ WriterStands(c, q, Past(x, a))

LEMMA NothingProceeds ==
    ASSUME NEW b, NEW r, NEW x, ~Carries(x), NEW bytes
    PROVE  Proceeds(b, r, x, bytes, b, r)
  BY DEF Proceeds, Past

LEMMA MessageProceeds ==
    ASSUME NEW b \in Seq(Numbers), NEW r \in [on : BOOLEAN, bytes : Seq(Plain)], ~r.on,
           NEW n \in Numbers, NEW x \in Heads, x.op = "data", x.fin, x.size = Size(n)
    PROVE  Proceeds(b, r, x, Message(n), Append(b, n), r)
<1>1. PICK c : c = Append(b, n)
  OBVIOUS
<1>2. Len(b) \in Nat /\ Len(c) = Len(b) + 1 /\ DOMAIN c = 1 .. Len(b) + 1 /\ c[Len(b) + 1] = n
  BY <1>1, AppendProperties
<1>3. Size(n) \in Nat /\ \A i \in 1 .. Size(n) : Message(n)[i] = Byte(n, i)
  BY MessageFacts
<1>4. ASSUME NEW a \in Marks, WriterStands(b, r, a)
      PROVE  /\ GoesOn(x, a, c)
             /\ \A i \in 1 .. x.size : Message(n)[i] = Byte(c[a.done + 1], a.had + i)
             /\ WriterStands(c, r, Past(x, a))
  <2>1. ~a.on /\ a.done = Len(b) /\ a.had = 0
    BY <1>4 DEF WriterStands, Marks
  <2>2. GoesOn(x, a, c)
    BY <1>2, <1>3, <2>1 DEF GoesOn
  <2>3. \A i \in 1 .. x.size : 0 + i = i
    BY <1>3
  <2>4. \A i \in 1 .. x.size : Message(n)[i] = Byte(c[a.done + 1], a.had + i)
    BY <1>2, <1>3, <2>1, <2>3
  <2>5. Past(x, a) = [done |-> a.done + 1, had |-> 0, on |-> FALSE]
    BY DEF Past, Carries
  <2>6. WriterStands(c, r, Past(x, a))
    BY <1>2, <2>1, <2>5 DEF WriterStands
  <2> QED
    BY <2>2, <2>4, <2>6
<1> QED
  BY <1>1, <1>4 DEF Proceeds

LEMMA FirstProceeds ==
    ASSUME NEW b \in Seq(Numbers), NEW r \in [on : BOOLEAN, bytes : Seq(Plain)], ~r.on,
           NEW n \in Numbers, NEW k \in 0 .. Size(n),
           NEW x \in Heads, x.op = "data", ~x.fin, x.size = k
    PROVE  Proceeds(b, r, x, SubSeq(Message(n), 1, k), Append(b, n),
                    [on |-> TRUE, bytes |-> SubSeq(Message(n), k + 1, Size(n))])
<1>1. PICK c, s, t : /\ c = Append(b, n) /\ s = SubSeq(Message(n), 1, k)
                     /\ t = SubSeq(Message(n), k + 1, Size(n))
  OBVIOUS
<1>2. Len(b) \in Nat /\ Len(c) = Len(b) + 1 /\ DOMAIN c = 1 .. Len(b) + 1 /\ c[Len(b) + 1] = n
  BY <1>1, AppendProperties
<1>3. /\ Size(n) \in Nat /\ \A i \in 1 .. Size(n) : Message(n)[i] = Byte(n, i)
      /\ Message(n) \in Seq(Plain) /\ Len(Message(n)) = Size(n)
  BY MessageFacts
<1>4. k \in Nat /\ k <= Size(n) /\ 0 + 1 = 1 /\ k - 0 = k /\ \A i \in 1 .. k : i + 0 = i
  BY <1>3
<1>5. /\ \A i \in 1 .. k : s[i] = Message(n)[i]
      /\ Len(t) = Size(n) - k /\ \A i \in 1 .. Size(n) - k : t[i] = Message(n)[i + k]
  BY <1>1, <1>3, <1>4, Part
<1>6. /\ \A i \in 1 .. k : s[i] = Byte(n, i)
      /\ \A i \in 1 .. Size(n) - k : t[i] = Byte(n, k + i)
  <2>1. \A i \in 1 .. k : i \in 1 .. Size(n)
    BY <1>3, <1>4
  <2>2. \A i \in 1 .. Size(n) - k : i + k \in 1 .. Size(n) /\ i + k = k + i
    BY <1>3, <1>4
  <2> QED
    BY <1>3, <1>5, <2>1, <2>2
<1>7. ASSUME NEW a \in Marks, WriterStands(b, r, a)
      PROVE  /\ GoesOn(x, a, c)
             /\ \A i \in 1 .. x.size : s[i] = Byte(c[a.done + 1], a.had + i)
             /\ WriterStands(c, [on |-> TRUE, bytes |-> t], Past(x, a))
  <2>1. ~a.on /\ a.done = Len(b) /\ a.had = 0
    BY <1>7 DEF WriterStands, Marks
  <2>2. GoesOn(x, a, c)
    BY <1>2, <1>3, <1>4, <2>1 DEF GoesOn
  <2>3. 0 + k = k /\ \A i \in 1 .. k : 0 + i = i
    BY <1>4
  <2>4. \A i \in 1 .. x.size : s[i] = Byte(c[a.done + 1], a.had + i)
    BY <1>2, <1>6, <2>1, <2>3
  <2>5. Past(x, a) = [done |-> a.done, had |-> k, on |-> TRUE]
    BY <2>1, <2>3 DEF Past, Carries
  <2>6. WriterStands(c, [on |-> TRUE, bytes |-> t], Past(x, a))
    <3>1. /\ Len(c) = a.done + 1 /\ c[Len(c)] = n
          /\ k + Len(t) = Size(n)
          /\ \A i \in 1 .. Len(t) : t[i] = Byte(n, k + i)
      BY <1>2, <1>3, <1>4, <1>5, <1>6, <2>1
    <3> QED
      BY <2>5, <3>1 DEF WriterStands
  <2> QED
    BY <2>2, <2>4, <2>6
<1> QED
  BY <1>1, <1>7 DEF Proceeds

LEMMA LastProceeds ==
    ASSUME NEW b \in Seq(Numbers), NEW r \in [on : BOOLEAN, bytes : Seq(Plain)], r.on,
           NEW x \in Heads, x.op = "more", x.fin, x.size = Len(r.bytes)
    PROVE  Proceeds(b, r, x, r.bytes, b, NoMessage)
<1>1. Len(b) \in Nat /\ r.bytes \in Seq(Plain) /\ Len(r.bytes) \in Nat /\ DOMAIN b = 1 .. Len(b)
  OBVIOUS
<1>2. ASSUME NEW a \in Marks, WriterStands(b, r, a)
      PROVE  /\ GoesOn(x, a, b)
             /\ \A i \in 1 .. x.size : r.bytes[i] = Byte(b[a.done + 1], a.had + i)
             /\ WriterStands(b, NoMessage, Past(x, a))
  <2>1. /\ a.on /\ Len(b) = a.done + 1 /\ a.had + Len(r.bytes) = Size(b[Len(b)])
        /\ \A i \in 1 .. Len(r.bytes) : r.bytes[i] = Byte(b[Len(b)], a.had + i)
        /\ a.done \in Nat /\ a.had \in Nat
    BY <1>2 DEF WriterStands, Marks
  <2>2. GoesOn(x, a, b)
    BY <1>1, <2>1 DEF GoesOn
  <2>3. Past(x, a) = [done |-> a.done + 1, had |-> 0, on |-> FALSE]
    BY DEF Past, Carries
  <2>4. WriterStands(b, NoMessage, Past(x, a))
    BY <2>1, <2>3 DEF WriterStands, NoMessage
  <2> QED
    BY <2>1, <2>2, <2>4
<1> QED
  BY <1>2 DEF Proceeds

LEMMA MoreProceeds ==
    ASSUME NEW b \in Seq(Numbers), NEW r \in [on : BOOLEAN, bytes : Seq(Plain)], r.on,
           NEW k \in 1 .. Len(r.bytes),
           NEW x \in Heads, x.op = "more", ~x.fin, x.size = k
    PROVE  Proceeds(b, r, x, SubSeq(r.bytes, 1, k), b,
                    [on |-> TRUE, bytes |-> SubSeq(r.bytes, k + 1, Len(r.bytes))])
<1>1. PICK s, t, u : /\ u = r.bytes /\ s = SubSeq(u, 1, k) /\ t = SubSeq(u, k + 1, Len(u))
  OBVIOUS
<1>2. /\ Len(b) \in Nat /\ DOMAIN b = 1 .. Len(b)
      /\ u \in Seq(Plain) /\ Len(u) \in Nat /\ k \in Nat /\ k <= Len(u)
      /\ 0 + 1 = 1 /\ k - 0 = k /\ \A i \in 1 .. k : i + 0 = i
  BY <1>1
<1>3. /\ \A i \in 1 .. k : s[i] = u[i]
      /\ Len(t) = Len(u) - k /\ \A i \in 1 .. Len(u) - k : t[i] = u[i + k]
  BY <1>1, <1>2, Part
<1>4. ASSUME NEW a \in Marks, WriterStands(b, r, a)
      PROVE  /\ GoesOn(x, a, b)
             /\ \A i \in 1 .. x.size : s[i] = Byte(b[a.done + 1], a.had + i)
             /\ WriterStands(b, [on |-> TRUE, bytes |-> t], Past(x, a))
  <2>1. /\ a.on /\ Len(b) = a.done + 1 /\ a.had + Len(u) = Size(b[Len(b)])
        /\ \A i \in 1 .. Len(u) : u[i] = Byte(b[Len(b)], a.had + i)
        /\ a.done \in Nat /\ a.had \in Nat
    BY <1>1, <1>4 DEF WriterStands, Marks
  <2>2. GoesOn(x, a, b)
    BY <1>2, <2>1 DEF GoesOn
  <2>3. \A i \in 1 .. k : i \in 1 .. Len(u)
    BY <1>2
  <2>4. \A i \in 1 .. x.size : s[i] = Byte(b[a.done + 1], a.had + i)
    BY <1>3, <2>1, <2>3
  <2>5. Past(x, a) = [done |-> a.done, had |-> a.had + k, on |-> TRUE]
    BY DEF Past, Carries
  <2>6. \A i \in 1 .. Len(u) - k : t[i] = Byte(b[Len(b)], a.had + k + i)
    <3>1. \A i \in 1 .. Len(u) - k : i + k \in 1 .. Len(u) /\ a.had + (i + k) = a.had + k + i
      BY <1>2, <2>1
    <3> QED
      BY <1>3, <2>1, <3>1
  <2>7. a.had + k + Len(t) = Size(b[Len(b)])
    BY <1>2, <1>3, <2>1
  <2>8. WriterStands(b, [on |-> TRUE, bytes |-> t], Past(x, a))
    <3>1. \A i \in 1 .. Len(t) : t[i] = Byte(b[Len(b)], a.had + k + i)
      BY <1>3, <2>6
    <3> QED
      BY <2>1, <2>5, <2>7, <3>1 DEF WriterStands
  <2> QED
    BY <2>2, <2>4, <2>8
<1> QED
  BY <1>1, <1>4 DEF Proceeds

\* An end with a session writes a frame with head x.
Writes(e, x, bytes) ==
    /\ GoesOnWith(e)
    /\ x \in Heads /\ bytes \in Seq(Plain) /\ x.size = Len(bytes)
    /\ SendFrame(e, <<x>> \o bytes)
    /\ UNCHANGED <<inbound, partial, got, excess>>
    /\ call'[e].op # "payload" /\ call[e].op # "payload"
    /\ begun' \in [Connections -> [Ends -> Seq(Numbers)]]
    /\ \A c \in Connections, f \in Ends : c # link[e] \/ f # e => begun'[c][f] = begun[c][f]
    /\ rest' \in [Ends -> [on : BOOLEAN, bytes : Seq(Plain)]]
    /\ \A f \in Ends \ {e} : rest'[f] = rest[f]
    /\ pings' \in [Ends -> Nat]
    /\ Extends(begun[link[e]][e], begun'[link[e]][e])
    /\ Proceeds(begun[link[e]][e], rest[e], x, bytes, begun'[link[e]][e], rest'[e])

LEMMA FrameAsHead ==
    ASSUME NEW op \in {"data", "more", "ping", "pong", "close", "other"}, NEW fin \in BOOLEAN,
           NEW bytes \in Seq(Plain)
    PROVE  \E x \in Heads : /\ x.op = op /\ x.fin = fin /\ x.size = Len(bytes)
                            /\ Frame(op, fin, bytes) = <<x>> \o bytes
<1>1. PICK x : x = FrameHead(op, fin, Len(bytes))
  OBVIOUS
<1>2. Frame(op, fin, bytes) = <<x>> \o bytes
  BY <1>1 DEF Frame
<1>3. x \in Heads /\ x.op = op /\ x.fin = fin /\ x.size = Len(bytes)
  <2>1. Len(bytes) \in Nat
    OBVIOUS
  <2> QED
    BY <1>1, <2>1 DEF FrameHead, Heads
<1> QED
  BY <1>2, <1>3

LEMMA WritesFrame ==
    ASSUME NEW x \in Heads, NEW bytes \in Seq(Plain), x.size = Len(bytes)
    PROVE  /\ <<x>> \o bytes \in Seq(Plain)
           /\ Len(<<x>> \o bytes) = Len(bytes) + 1
           /\ (<<x>> \o bytes)[1] = x
           /\ \A i \in 1 .. Len(bytes) : (<<x>> \o bytes)[i + 1] = bytes[i]
<1>1. <<x>> \in Seq(Plain) /\ Len(<<x>>) = 1 /\ <<x>>[1] = x /\ Len(bytes) \in Nat
  BY PieceFacts
<1>2. /\ <<x>> \o bytes \in Seq(Plain) /\ Len(<<x>> \o bytes) = 1 + Len(bytes)
      /\ \A i \in 1 .. 1 + Len(bytes) :
            (<<x>> \o bytes)[i] = IF i <= 1 THEN <<x>>[i] ELSE bytes[i - 1]
  BY <1>1, ConcatProperties
<1>3. /\ 1 \in 1 .. 1 + Len(bytes) /\ 1 + Len(bytes) = Len(bytes) + 1
      /\ \A i \in 1 .. Len(bytes) : i + 1 \in 1 .. 1 + Len(bytes) /\ ~(i + 1 <= 1) /\ i + 1 - 1 = i
  BY <1>1
<1> QED
  BY <1>1, <1>2, <1>3

LEMMA WritesBase ==
    ASSUME Base, NEW e \in Ends, NEW x, NEW bytes, Writes(e, x, bytes)
    PROVE  Base'
<1>1. <<x>> \o bytes \in Seq(Plain)
  BY WritesFrame DEF Writes
<1>2. \E t \in Seq(Plain) : pipe' = Wrote(e, t)
  <2>1. PICK f : f = <<x>> \o bytes
    OBVIOUS
  <2>2. f \in Seq(Plain) /\ SendFrame(e, f)
    BY <1>1, <2>1 DEF Writes
  <2> QED
    BY <2>2, SendFrameEffect DEF Went
<1>3. PICK t \in Seq(Plain) : pipe' = Wrote(e, t)
  BY <1>2
<1>4. /\ GoesOnWith(e)
      /\ UNCHANGED <<inbound, partial, got, excess>>
      /\ begun' \in [Connections -> [Ends -> Seq(Numbers)]]
      /\ \A c \in Connections, f \in Ends : c # link[e] \/ f # e => begun'[c][f] = begun[c][f]
      /\ rest' \in [Ends -> [on : BOOLEAN, bytes : Seq(Plain)]]
      /\ \A f \in Ends \ {e} : rest'[f] = rest[f]
      /\ pings' \in [Ends -> Nat]
  BY DEF Writes
<1> QED
  BY <1>3, <1>4, WriteBase

\* An idle end goes on with no call.
LEMMA IdleGoesOn ==
    ASSUME Base, NEW e \in Ends, Established(e), call[e] = Idle, call' = call,
           UNCHANGED <<link, sockets, session>>, NEW x \in Seq(Plain), SendFrame(e, x)
    PROVE  /\ GoesOnWith(e)
           /\ call'[e].op # "payload" /\ call[e].op # "payload"
<1>1. state' = state \/ state' = [state EXCEPT ![e] = "failed"]
  BY SendFrameEffect DEF Went
<1>2. session[e] /\ call \in [Ends -> Calls]
  BY DEF Established, Base, ReadersOK
<1>3. call[e] # Handshake /\ call[e] # Responding /\ call[e].op = "none"
  BY ShowsNoPart DEF Idle
<1> QED
  BY <1>1, <1>2, <1>3 DEF GoesOnWith

LEMMA SendWrites ==
    ASSUME Base, NEW e \in Ends, Send(e)
    PROVE  \E x, bytes : Writes(e, x, bytes)
<1>1. /\ call[e] = Idle /\ Established(e) /\ ~rest[e].on /\ CanSend(e)
      /\ UNCHANGED <<link, sockets, session, reader, call, pings, breaks>>
  BY DEF Send
<1>2. PICK n : n = NextNumber(e)
  OBVIOUS
<1>3. n \in Numbers
  BY <1>1, <1>2, NextNumberType
<1>4. link[e] \in Connections
  BY <1>1, SessionCalls DEF Established
<1>5. /\ begun \in [Connections -> [Ends -> Seq(Numbers)]] /\ pings \in [Ends -> Nat]
      /\ rest \in [Ends -> [on : BOOLEAN, bytes : Seq(Plain)]]
      /\ rest[e] \in [on : BOOLEAN, bytes : Seq(Plain)]
  BY DEF Base, StreamsOK
<1>6. PICK b, l : b = begun[link[e]][e] /\ l = link[e]
  OBVIOUS
<1>7. b \in Seq(Numbers) /\ Append(b, n) \in Seq(Numbers)
  BY <1>3, <1>4, <1>5, <1>6
<1>8. begun' = [begun EXCEPT ![l] = [begun[l] EXCEPT ![e] = Append(b, n)]]
  BY <1>2, <1>6 DEF Send
<1>9. /\ begun' \in [Connections -> [Ends -> Seq(Numbers)]]
      /\ begun'[l][e] = Append(b, n)
      /\ \A c \in Connections, f \in Ends : c # l \/ f # e => begun'[c][f] = begun[c][f]
  <2>1. begun[l] \in [Ends -> Seq(Numbers)]
    BY <1>4, <1>5, <1>6
  <2>2. [begun[l] EXCEPT ![e] = Append(b, n)] \in [Ends -> Seq(Numbers)]
    BY <1>7, <2>1
  <2> QED
    BY <1>4, <1>5, <1>6, <1>8, <2>1, <2>2
<1>10. Extends(b, Append(b, n))
  <2>1. /\ Len(Append(b, n)) = Len(b) + 1 /\ Len(b) \in Nat
        /\ \A i \in 1 .. Len(b) : Append(b, n)[i] = b[i]
    BY <1>7, <1>3, AppendProperties
  <2>2. DOMAIN b = 1 .. Len(b) /\ DOMAIN Append(b, n) = 1 .. Len(b) + 1
    BY <1>7, <2>1
  <2> QED
    BY <2>1, <2>2 DEF Extends
<1>11. UNCHANGED <<inbound, partial, got, excess, pings>>
  BY <1>1 DEF reader
<1>12. ASSUME NEW x \in Heads, NEW bytes \in Seq(Plain), x.size = Len(bytes),
              SendFrame(e, <<x>> \o bytes), NEW r \in [on : BOOLEAN, bytes : Seq(Plain)],
              rest' = [rest EXCEPT ![e] = r],
              Proceeds(b, rest[e], x, bytes, Append(b, n), r)
       PROVE  Writes(e, x, bytes)
  <2>1. <<x>> \o bytes \in Seq(Plain)
    BY <1>12, WritesFrame
  <2>2. /\ GoesOnWith(e)
        /\ call'[e].op # "payload" /\ call[e].op # "payload"
    BY <1>1, <1>12, <2>1, IdleGoesOn
  <2>3. /\ rest' \in [Ends -> [on : BOOLEAN, bytes : Seq(Plain)]] /\ rest'[e] = r
        /\ \A f \in Ends \ {e} : rest'[f] = rest[f]
    BY <1>5, <1>12
  <2>4. pings' \in [Ends -> Nat]
    BY <1>5, <1>11
  <2> QED
    BY <1>6, <1>9, <1>10, <1>11, <1>12, <2>2, <2>3, <2>4 DEF Writes
<1>13. CASE SendFrame(e, Frame("data", TRUE, Message(n))) /\ UNCHANGED rest
  <2>1. Message(n) \in Seq(Plain) /\ Len(Message(n)) = Size(n)
    BY <1>3, MessageFacts
  <2>2. PICK x \in Heads : /\ x.op = "data" /\ x.fin = TRUE /\ x.size = Len(Message(n))
                           /\ Frame("data", TRUE, Message(n)) = <<x>> \o Message(n)
    BY <2>1, FrameAsHead
  <2>3. Proceeds(b, rest[e], x, Message(n), Append(b, n), rest[e])
    BY <1>1, <1>3, <1>5, <1>7, <2>1, <2>2, MessageProceeds
  <2>4. rest' = [rest EXCEPT ![e] = rest[e]]
    BY <1>5, <1>13
  <2> QED
    BY <1>5, <1>12, <1>13, <2>1, <2>2, <2>3, <2>4
<1>14. ASSUME NEW k \in 0 .. Size(n),
              SendFrame(e, Frame("data", FALSE, SubSeq(Message(n), 1, k))),
              rest' = [rest EXCEPT ![e] =
                        [on |-> TRUE, bytes |-> SubSeq(Message(n), k + 1, Size(n))]]
       PROVE  \E x, bytes : Writes(e, x, bytes)
  <2>1. Message(n) \in Seq(Plain) /\ Len(Message(n)) = Size(n) /\ Size(n) \in Nat
    BY <1>3, MessageFacts
  <2>2. k \in Nat /\ k <= Size(n) /\ 0 + 1 = 1 /\ k - 0 = k /\ 0 <= k
    BY <2>1
  <2>3. PICK s, t : s = SubSeq(Message(n), 1, k) /\ t = SubSeq(Message(n), k + 1, Size(n))
    OBVIOUS
  <2>4. s \in Seq(Plain) /\ Len(s) = k /\ t \in Seq(Plain)
    BY <2>1, <2>2, <2>3, Part
  <2>5. PICK x \in Heads : /\ x.op = "data" /\ x.fin = FALSE /\ x.size = Len(s)
                           /\ Frame("data", FALSE, s) = <<x>> \o s
    BY <2>4, FrameAsHead
  <2>6. Proceeds(b, rest[e], x, s, Append(b, n), [on |-> TRUE, bytes |-> t])
    BY <1>1, <1>3, <1>5, <1>7, <2>3, <2>4, <2>5, FirstProceeds
  <2>7. [on |-> TRUE, bytes |-> t] \in [on : BOOLEAN, bytes : Seq(Plain)]
    BY <2>4
  <2> QED
    BY <1>12, <1>14, <2>3, <2>4, <2>5, <2>6, <2>7
<1> QED
  BY <1>2, <1>13, <1>14 DEF Send

LEMMA SendMoreWrites ==
    ASSUME Base, NEW e \in Ends, SendMore(e)
    PROVE  \E x, bytes : Writes(e, x, bytes)
<1>1. /\ call[e] = Idle /\ Established(e) /\ rest[e].on
      /\ UNCHANGED <<link, sockets, session, reader, call, begun, pings, breaks>>
  BY DEF SendMore
<1>2. link[e] \in Connections
  BY <1>1, SessionCalls DEF Established
<1>3. /\ begun \in [Connections -> [Ends -> Seq(Numbers)]] /\ pings \in [Ends -> Nat]
      /\ rest \in [Ends -> [on : BOOLEAN, bytes : Seq(Plain)]]
      /\ rest[e] \in [on : BOOLEAN, bytes : Seq(Plain)]
  BY DEF Base, StreamsOK
<1>4. PICK b : b = begun[link[e]][e]
  OBVIOUS
<1>5. b \in Seq(Numbers) /\ Extends(b, b)
  BY <1>2, <1>3, <1>4 DEF Extends
<1>6. UNCHANGED <<inbound, partial, got, excess, begun, pings>>
  BY <1>1 DEF reader
<1>7. ASSUME NEW x \in Heads, NEW bytes \in Seq(Plain), x.size = Len(bytes),
             SendFrame(e, <<x>> \o bytes), NEW r \in [on : BOOLEAN, bytes : Seq(Plain)],
             rest' = [rest EXCEPT ![e] = r],
             Proceeds(b, rest[e], x, bytes, b, r)
      PROVE  Writes(e, x, bytes)
  <2>1. <<x>> \o bytes \in Seq(Plain)
    BY <1>7, WritesFrame
  <2>2. /\ GoesOnWith(e)
        /\ call'[e].op # "payload" /\ call[e].op # "payload"
    BY <1>1, <1>7, <2>1, IdleGoesOn
  <2>3. /\ rest' \in [Ends -> [on : BOOLEAN, bytes : Seq(Plain)]] /\ rest'[e] = r
        /\ \A f \in Ends \ {e} : rest'[f] = rest[f]
    BY <1>3, <1>7
  <2> QED
    BY <1>3, <1>4, <1>5, <1>6, <1>7, <2>2, <2>3 DEF Writes
<1>8. PICK u : u = rest[e].bytes
  OBVIOUS
<1>9. u \in Seq(Plain) /\ Len(u) \in Nat
  BY <1>3, <1>8
<1>10. CASE SendFrame(e, Frame("more", TRUE, u)) /\ rest' = [rest EXCEPT ![e] = NoMessage]
  <2>1. PICK x \in Heads : /\ x.op = "more" /\ x.fin = TRUE /\ x.size = Len(u)
                           /\ Frame("more", TRUE, u) = <<x>> \o u
    BY <1>9, FrameAsHead
  <2>2. Proceeds(b, rest[e], x, u, b, NoMessage)
    BY <1>1, <1>3, <1>5, <1>8, <2>1, LastProceeds
  <2>3. NoMessage \in [on : BOOLEAN, bytes : Seq(Plain)]
    BY DEF NoMessage
  <2> QED
    BY <1>7, <1>9, <1>10, <2>1, <2>2, <2>3
<1>11. ASSUME NEW k \in 1 .. Len(u),
              SendFrame(e, Frame("more", FALSE, SubSeq(u, 1, k))),
              rest' = [rest EXCEPT ![e] =
                        [on |-> TRUE, bytes |-> SubSeq(u, k + 1, Len(u))]]
       PROVE  \E x, bytes : Writes(e, x, bytes)
  <2>1. k \in Nat /\ k <= Len(u) /\ 0 + 1 = 1 /\ k - 0 = k /\ 0 <= k
    BY <1>9
  <2>2. PICK s, t : s = SubSeq(u, 1, k) /\ t = SubSeq(u, k + 1, Len(u))
    OBVIOUS
  <2>3. s \in Seq(Plain) /\ Len(s) = k /\ t \in Seq(Plain)
    BY <1>9, <2>1, <2>2, Part
  <2>4. PICK x \in Heads : /\ x.op = "more" /\ x.fin = FALSE /\ x.size = Len(s)
                           /\ Frame("more", FALSE, s) = <<x>> \o s
    BY <2>3, FrameAsHead
  <2>5. Proceeds(b, rest[e], x, s, b, [on |-> TRUE, bytes |-> t])
    BY <1>1, <1>3, <1>5, <1>8, <2>2, <2>3, <2>4, MoreProceeds
  <2>6. [on |-> TRUE, bytes |-> t] \in [on : BOOLEAN, bytes : Seq(Plain)]
    BY <2>3
  <2>7. rest' = [rest EXCEPT ![e] = [on |-> TRUE, bytes |-> t]]
    BY <1>11, <2>2
  <2> QED
    BY <1>7, <1>11, <2>2, <2>3, <2>4, <2>5, <2>6, <2>7
<1> QED
  BY <1>8, <1>10, <1>11 DEF SendMore

LEMMA PingWrites ==
    ASSUME Base, NEW e \in Ends, Ping(e)
    PROVE  \E x, bytes : Writes(e, x, bytes)
<1>1. /\ call[e] = Idle /\ Established(e) /\ SendFrame(e, PingFrame)
      /\ UNCHANGED <<link, sockets, session, reader, call, rest, begun, breaks>>
      /\ pings' = [pings EXCEPT ![e] = @ + 1]
  BY DEF Ping
<1>2. <<>> \in Seq(Plain) /\ Len(<<>>) = 0
  OBVIOUS
<1>3. PICK x \in Heads : /\ x.op = "ping" /\ x.fin = TRUE /\ x.size = Len(<<>>)
                         /\ PingFrame = <<x>> \o <<>>
  BY <1>2, FrameAsHead DEF PingFrame
<1>4. <<x>> \o <<>> \in Seq(Plain)
  BY <1>2, <1>3, WritesFrame
<1>5. /\ GoesOnWith(e)
      /\ call'[e].op # "payload" /\ call[e].op # "payload"
  BY <1>1, <1>3, <1>4, IdleGoesOn
<1>6. /\ begun \in [Connections -> [Ends -> Seq(Numbers)]] /\ pings \in [Ends -> Nat]
      /\ rest \in [Ends -> [on : BOOLEAN, bytes : Seq(Plain)]]
  BY DEF Base, StreamsOK
<1>7. PICK b : b = begun[link[e]][e]
  OBVIOUS
<1>8. Extends(b, b) /\ Proceeds(b, rest[e], x, <<>>, b, rest[e])
  BY <1>3, NothingProceeds DEF Extends, Carries
<1>9. UNCHANGED <<inbound, partial, got, excess, begun, rest>>
  BY <1>1 DEF reader
<1>10. pings' \in [Ends -> Nat]
  BY <1>1, <1>6
<1>11. SendFrame(e, <<x>> \o <<>>)
  BY <1>1, <1>3
<1>12. Writes(e, x, <<>>)
  BY <1>2, <1>3, <1>5, <1>6, <1>7, <1>8, <1>9, <1>10, <1>11 DEF Writes
<1> QED
  BY <1>12

LEMMA PongWrites ==
    ASSUME Base, NEW e \in Ends, Pong(e), state[e] = "connected"
    PROVE  \E x, bytes : Writes(e, x, bytes)
<1>1. /\ call[e].op = "pong" /\ SendFrame(e, Frame("pong", TRUE, call[e].bytes))
      /\ Continue(e)
      /\ UNCHANGED <<link, sockets, session, reader, writer, breaks>>
  BY DEF Pong
<1>2. PICK bytes : bytes = call[e].bytes
  OBVIOUS
<1>3. bytes \in Seq(Plain) /\ session[e]
  BY <1>1, <1>2, SessionCalls
<1>4. PICK x \in Heads : /\ x.op = "pong" /\ x.fin = TRUE /\ x.size = Len(bytes)
                         /\ Frame("pong", TRUE, bytes) = <<x>> \o bytes
  BY <1>3, FrameAsHead
<1>5. <<x>> \o bytes \in Seq(Plain)
  BY <1>3, <1>4, WritesFrame
<1>6. state' = state \/ state' = [state EXCEPT ![e] = "failed"]
  <2>1. PICK f : f = <<x>> \o bytes
    OBVIOUS
  <2>2. f \in Seq(Plain) /\ SendFrame(e, f)
    BY <1>1, <1>2, <1>4, <1>5, <2>1
  <2> QED
    BY <2>2, SendFrameEffect DEF Went
<1>7. /\ call \in [Ends -> Calls]
      /\ begun \in [Connections -> [Ends -> Seq(Numbers)]] /\ pings \in [Ends -> Nat]
      /\ rest \in [Ends -> [on : BOOLEAN, bytes : Seq(Plain)]]
  BY DEF Base, StreamsOK, ReadersOK
<1>8. /\ call' \in [Ends -> Calls] /\ call'[e] = NextFrame
      /\ \A f \in Ends \ {e} : call'[f] = call[f]
  BY <1>1, <1>7, SomeCalls DEF Continue
<1>9. /\ call'[e] # Handshake /\ call'[e] # Responding /\ call'[e].op # "payload"
  BY <1>8, ShowsNoPart DEF NextFrame
<1>10. GoesOnWith(e)
  BY <1>1, <1>3, <1>6, <1>8, <1>9 DEF GoesOnWith
<1>11. PICK b : b = begun[link[e]][e]
  OBVIOUS
<1>12. Extends(b, b) /\ Proceeds(b, rest[e], x, bytes, b, rest[e])
  BY <1>4, NothingProceeds DEF Extends, Carries
<1>13. UNCHANGED <<inbound, partial, got, excess, begun, rest, pings>>
  BY <1>1 DEF reader, writer
<1>14. SendFrame(e, <<x>> \o bytes) /\ call[e].op # "payload"
  BY <1>1, <1>2, <1>4
<1>15. Writes(e, x, bytes)
  BY <1>3, <1>4, <1>7, <1>9, <1>10, <1>11, <1>12, <1>13, <1>14 DEF Writes
<1> QED
  BY <1>15

-----------------------------------------------------------------------------
(* Reading                                                                  *)

LEMMA ReadNothing ==
    ASSUME Base, NEW e \in Ends, UNCHANGED <<inbound, pipe>>
    PROVE  Read(e)
<1>1. /\ pipe \in [Connections -> [Ends -> Seq(Pieces)]] /\ inbound \in [Ends -> Seq(Plain)]
      /\ Other(e) \in Ends
  BY EndFacts DEF Base, StreamsOK
<1>2. link[e] \in Connections => pipe[link[e]][Other(e)] \in Seq(Pieces)
  BY <1>1
<1>3. link[e] \in Connections => Remains(pipe[link[e]][Other(e)], pipe[link[e]][Other(e)])
  BY <1>2, RemainsWhole
<1> QED
  BY <1>1, <1>3 DEF Read

\* Its call goes on, and nothing else but what it has read.
LEMMA CallGoesOn ==
    ASSUME Base, NEW e \in Ends, session[e], UNCHANGED <<link, sockets, session>>,
           state' = state \/ state' = [state EXCEPT ![e] = "failed"],
           NEW k \in Calls, k # Handshake, k # Responding, call' = [call EXCEPT ![e] = k]
    PROVE  GoesOnWith(e) /\ call'[e] = k /\ \A f \in Ends \ {e} : call'[f] = call[f]
<1>1. call \in [Ends -> Calls]
  BY DEF Base, ReadersOK
<1>2. /\ call' \in [Ends -> Calls] /\ call'[e] = k
      /\ \A f \in Ends \ {e} : call'[f] = call[f]
  BY <1>1
<1> QED
  BY <1>2 DEF GoesOnWith

LEMMA ReadersKept ==
    ASSUME Base, UNCHANGED <<partial, got>>
    PROVE  /\ partial' \in [Ends -> [on : BOOLEAN, bytes : Seq(Plain)]]
           /\ got' \in [Ends -> Seq(Messages)]
           /\ \A f \in Ends : \A i \in DOMAIN got'[f] : i \in DOMAIN got[f] /\ got'[f][i] = got[f][i]
  BY DEF Base, ReadersOK

LEMMA ReceiveBase ==
    ASSUME Base, NEW e \in Ends, Receive(e)
    PROVE  Base'
<1>1. /\ session[e] /\ call' = [call EXCEPT ![e] = NextFrame]
      /\ UNCHANGED <<state, link, sockets, session, inbound, pipe, partial, got, excess, writer>>
  BY DEF Receive, Established, Continue, tcp, reader
<1>2. GoesOnWith(e)
  BY <1>1, SomeCalls, ShowsNoPart, CallGoesOn
<1>3. Read(e) /\ excess' \in [Ends -> Refusals]
  BY <1>1, ReadNothing DEF Base, ReadersOK
<1> QED
  BY <1>1, <1>2, <1>3, ReadersKept, ReadBase

LEMMA PongBase ==
    ASSUME Base, NEW e \in Ends, Pong(e), state[e] # "connected"
    PROVE  Base'
<1>1. /\ call[e].op = "pong" /\ call' = [call EXCEPT ![e] = NextFrame]
      /\ UNCHANGED <<state, link, sockets, session, inbound, pipe, partial, got, excess, writer>>
  BY DEF Pong, Continue, reader
<1>2. session[e]
  BY <1>1, SessionCalls
<1>3. GoesOnWith(e)
  BY <1>1, <1>2, SomeCalls, ShowsNoPart, CallGoesOn
<1>4. Read(e) /\ excess' \in [Ends -> Refusals]
  BY <1>1, ReadNothing DEF Base, ReadersOK
<1> QED
  BY <1>1, <1>3, <1>4, ReadersKept, ReadBase

\* A head, or what is taken for one.
LEMMA ReadHeadEffect ==
    ASSUME Base, NEW e \in Ends, ReadHead(e)
    PROVE  /\ session[e] /\ call[e] = NextFrame /\ Stream(e) # <<>>
           /\ Consume(e, 1)
           /\ UNCHANGED <<state, link, sockets, session, partial, got, writer>>
           /\ \/ \E h \in Short : /\ call' = [call EXCEPT ![e] = Payload(h)]
                                  /\ h \in HeadsOf(Head(Stream(e)))
                                  /\ excess' = excess
              \/ /\ call' = [call EXCEPT ![e] = Idle]
                 /\ excess' = [excess EXCEPT ![e] = "frame"]
<1>1. /\ call[e] = NextFrame /\ Stream(e) # <<>> /\ Consume(e, 1)
      /\ UNCHANGED <<state, link, sockets, session, partial, got, writer>>
  BY DEF ReadHead, tcp
<1>2. session[e]
  BY <1>1, SessionCalls
<1>3. PICK h \in HeadsOf(Head(Stream(e))) :
        \/ ~TooLong(h) /\ call' = [call EXCEPT ![e] = Payload(h)] /\ UNCHANGED excess
        \/ TooLong(h) /\ Return(e) /\ Refuse(e, "frame")
  BY DEF ReadHead
<1>4. h \in Heads
  BY <1>3, WebSocketAssumption DEF HeadsOf
<1>5. ~TooLong(h) => h \in Short
  <2>1. h.size \in Nat /\ MaxMessage \in Nat
    BY <1>4, PieceFacts, WebSocketAssumption
  <2> QED
    BY <1>4, <2>1 DEF TooLong, Short
<1>6. Refuse(e, "frame") => excess' = [excess EXCEPT ![e] = "frame"]
  BY DEF Refuse
<1> QED
  BY <1>1, <1>2, <1>3, <1>5, <1>6 DEF Return

LEMMA ReadHeadBase ==
    ASSUME Base, NEW e \in Ends, ReadHead(e)
    PROVE  Base'
<1>1. /\ session[e] /\ Stream(e) # <<>> /\ Consume(e, 1)
      /\ UNCHANGED <<state, link, sockets, session, partial, got, writer>>
  BY ReadHeadEffect
<1>2. \/ \E h \in Short : call' = [call EXCEPT ![e] = Payload(h)] /\ excess' = excess
      \/ /\ call' = [call EXCEPT ![e] = Idle]
         /\ excess' = [excess EXCEPT ![e] = "frame"]
  BY ReadHeadEffect
<1>3. GoesOnWith(e)
  <2>1. \E k \in Calls : /\ k # Handshake /\ k # Responding
                         /\ call' = [call EXCEPT ![e] = k]
    BY <1>2, SomeCalls, ShowsNoPart
  <2> QED
    BY <1>1, <2>1, CallGoesOn
<1>4. excess' \in [Ends -> Refusals]
  <2>1. excess \in [Ends -> Refusals] /\ "frame" \in Refusals
    BY DEF Base, ReadersOK, Refusals
  <2> QED
    BY <1>2, <2>1
<1>5. Read(e)
  <2>1. Stream(e) \in Seq(Plain) /\ link[e] \in Connections
    BY <1>1, StreamPlain, SessionCalls
  <2>2. 1 \in Nat /\ 1 <= Len(Stream(e))
    BY <1>1, <2>1
  <2> QED
    BY <1>1, <2>1, <2>2, ConsumeEffect DEF Base
<1> QED
  BY <1>1, <1>3, <1>4, <1>5, ReadersKept, ReadBase

LEMMA ReadPayloadEffect ==
    ASSUME Base, NEW e \in Ends, ReadPayload(e)
    PROVE  /\ session[e] /\ call[e].op = "payload"
           /\ UNCHANGED <<state, link, sockets, session, writer>>
           /\ \E h \in Short, bytes \in Seq(Plain) :
                 /\ call[e] = Payload(h) /\ call[e].head = h /\ h.size \in Nat
                 /\ h.size <= Len(Stream(e))
                 /\ Consume(e, h.size)
                 /\ Dispatch(e, h, bytes)
                 /\ Len(bytes) = h.size
                 /\ \A i \in 1 .. h.size : bytes[i] = Stream(e)[i]
<1>1. /\ call[e].op = "payload" /\ Len(Stream(e)) >= call[e].head.size
      /\ Consume(e, call[e].head.size)
      /\ Dispatch(e, call[e].head, SubSeq(Stream(e), 1, call[e].head.size))
      /\ UNCHANGED <<state, link, sockets, session, writer>>
  BY DEF ReadPayload, tcp
<1>2. session[e] /\ call[e].head \in Short /\ call[e] = Payload(call[e].head) /\ Active(e)
  BY <1>1, SessionCalls
<1>3. PICK h, bytes : h = call[e].head /\ bytes = SubSeq(Stream(e), 1, call[e].head.size)
  OBVIOUS
<1>4. h \in Short /\ h.size \in Nat /\ h.size <= Len(Stream(e))
  <2>1. h \in Short
    BY <1>2, <1>3
  <2>2. h.size \in Nat
    BY <2>1, PieceFacts DEF Short
  <2>3. Len(Stream(e)) \in Nat
    BY <1>2, StreamPlain
  <2> QED
    BY <1>1, <1>3, <2>1, <2>2, <2>3
<1>5. bytes \in Seq(Plain) /\ Len(bytes) = h.size /\ \A i \in 1 .. h.size : bytes[i] = Stream(e)[i]
  <2>1. PICK s : s = Stream(e)
    OBVIOUS
  <2>2. s \in Seq(Plain)
    BY <1>2, <2>1, StreamPlain
  <2>3. /\ 0 <= h.size /\ h.size - 0 = h.size /\ 0 + 1 = 1 /\ 0 \in Nat
        /\ \A i \in 1 .. h.size : i + 0 = i
    BY <1>4
  <2>4. bytes = SubSeq(s, 0 + 1, h.size) /\ h.size <= Len(s)
    BY <1>3, <1>4, <2>1, <2>3
  <2>5. /\ bytes \in Seq(Plain) /\ Len(bytes) = (IF 0 <= h.size THEN h.size - 0 ELSE 0)
        /\ \A i \in 1 .. h.size - 0 : bytes[i] = s[i + 0]
    BY <1>4, <2>2, <2>4, Part
  <2> QED
    BY <2>1, <2>3, <2>5
<1> QED
  BY <1>1, <1>2, <1>3, <1>4, <1>5

LEMMA ReadPayloadBase ==
    ASSUME Base, NEW e \in Ends, ReadPayload(e)
    PROVE  Base'
<1>1. session[e] /\ UNCHANGED <<state, link, sockets, session, writer>> /\ link[e] \in Connections
  BY ReadPayloadEffect, SessionCalls
<1>2. PICK h \in Short, bytes \in Seq(Plain) :
        /\ h.size \in Nat /\ h.size <= Len(Stream(e))
        /\ Consume(e, h.size) /\ Dispatch(e, h, bytes)
  BY ReadPayloadEffect
<1>3. /\ call' \in [Ends -> Calls] /\ call'[e] # Handshake /\ call'[e] # Responding
      /\ partial' \in [Ends -> [on : BOOLEAN, bytes : Seq(Plain)]]
      /\ excess' \in [Ends -> Refusals]
      /\ \A f \in Ends \ {e} : call'[f] = call[f]
      /\ \/ got' = got
         \/ \E m \in Messages : m.on = link[e] /\ got' = [got EXCEPT ![e] = Append(@, m)]
  BY <1>1, <1>2, DispatchTypes DEF Base
<1>4. GoesOnWith(e)
  BY <1>1, <1>3 DEF GoesOnWith
<1>5. Read(e)
  BY <1>1, <1>2, ConsumeEffect DEF Base
<1>6. /\ got' \in [Ends -> Seq(Messages)]
      /\ \A f \in Ends : \A i \in DOMAIN got'[f] :
            \/ i \in DOMAIN got[f] /\ got'[f][i] = got[f][i]
            \/ f = e /\ got'[f][i].on = link[e]
  <2>1. CASE got' = got
    BY <2>1 DEF Base, ReadersOK
  <2>2. ASSUME NEW m \in Messages, m.on = link[e], got' = [got EXCEPT ![e] = Append(@, m)]
        PROVE  /\ got' \in [Ends -> Seq(Messages)]
               /\ \A f \in Ends : \A i \in DOMAIN got'[f] :
                     \/ i \in DOMAIN got[f] /\ got'[f][i] = got[f][i]
                     \/ f = e /\ got'[f][i].on = link[e]
    <3>1. /\ got' \in [Ends -> Seq(Messages)]
          /\ \A f \in Ends \ {e} : got'[f] = got[f]
          /\ DOMAIN got'[e] = DOMAIN got[e] \cup {Len(got[e]) + 1}
          /\ \A i \in DOMAIN got[e] : got'[e][i] = got[e][i]
          /\ got'[e][Len(got[e]) + 1] = m
      BY <2>2, GotOne DEF Base
    <3> QED
      BY <2>2, <3>1
  <2> QED
    BY <1>3, <2>1, <2>2
<1> QED
  BY <1>1, <1>3, <1>4, <1>5, <1>6, ReadBase

LEMMA ReadFailsEffect ==
    ASSUME Base, NEW e \in Ends, ReadFails(e)
    PROVE  /\ session[e] /\ call' = [call EXCEPT ![e] = Idle]
           /\ inbound' = [inbound EXCEPT ![e] = <<>>]
           /\ UNCHANGED <<link, sockets, session, partial, got, excess, writer>>
           /\ \/ state[e] # "connected" /\ UNCHANGED <<state, pipe>>
              \/ /\ state[e] = "connected" /\ state' = [state EXCEPT ![e] = "failed"]
                 /\ pipe' = [pipe EXCEPT ![link[e]][Other(e)] = <<>>]
<1>1. call[e].op \in {"receive", "payload"}
  BY DEF ReadFails
<1>2. session[e]
  BY <1>1, SessionCalls
<1> QED
  BY <1>2 DEF ReadFails, Return, Fail

LEMMA ReadFailsRead ==
    ASSUME Base, NEW e \in Ends, ReadFails(e)
    PROVE  Read(e)
<1>1. /\ session[e] /\ inbound' = [inbound EXCEPT ![e] = <<>>]
      /\ \/ UNCHANGED <<state, pipe>>
         \/ pipe' = [pipe EXCEPT ![link[e]][Other(e)] = <<>>]
  BY ReadFailsEffect
<1>2. PICK o, c : o = Other(e) /\ c = link[e]
  OBVIOUS
<1>3. o \in Ends /\ c \in Connections
  BY <1>1, <1>2, EndFacts, SessionCalls
<1>4. /\ inbound' \in [Ends -> Seq(Plain)]
      /\ \A f \in Ends \ {e} : inbound'[f] = inbound[f]
  BY <1>1 DEF Base, StreamsOK
<1>5. pipe[c][o] \in Seq(Pieces) /\ <<>> \in Seq(Pieces)
  BY <1>3 DEF Base, StreamsOK
<1>6. CASE pipe' = pipe
  BY <1>2, <1>3, <1>4, <1>5, <1>6, RemainsWhole DEF Read, Base, StreamsOK
<1>7. CASE pipe' = [pipe EXCEPT ![c][o] = <<>>]
  <2>1. /\ pipe' \in [Connections -> [Ends -> Seq(Pieces)]]
        /\ pipe'[c][o] = <<>>
        /\ \A d \in Connections, g \in Ends : d # c \/ g # o => pipe'[d][g] = pipe[d][g]
    <3>1. Replaces(c, o, <<>>) /\ StreamsOK
      BY <1>7 DEF Base, Replaces
    <3>2. Replaced(c, o, <<>>)
      BY <1>3, <1>5, <3>1, ReplaceType
    <3> QED
      BY <3>2 DEF Replaced
  <2>2. Remains(pipe[c][o], <<>>)
    <3>1. PICK s : s = pipe[c][o]
      OBVIOUS
    <3>2. s \in Seq(Pieces) /\ Len(s) \in Nat /\ Len(s) \in 0 .. Len(s) /\ Len(s) <= Len(s)
      BY <1>5, <3>1
    <3>3. /\ SubSeq(s, Len(s) + 1, Len(s)) \in Seq(Pieces)
          /\ Len(SubSeq(s, Len(s) + 1, Len(s))) = IF Len(s) <= Len(s) THEN Len(s) - Len(s) ELSE 0
      BY <3>2, Part
    <3>4. SubSeq(s, Len(s) + 1, Len(s)) = <<>>
      BY <3>2, <3>3
    <3> QED
      BY <3>1, <3>2, <3>4 DEF Remains
  <2> QED
    BY <1>2, <1>4, <2>1, <2>2 DEF Read
<1> QED
  BY <1>1, <1>2, <1>6, <1>7

LEMMA ReadFailsBase ==
    ASSUME Base, NEW e \in Ends, ReadFails(e)
    PROVE  Base'
<1>1. /\ session[e] /\ call' = [call EXCEPT ![e] = Idle]
      /\ UNCHANGED <<link, sockets, session, partial, got, excess, writer>>
      /\ state' = state \/ state' = [state EXCEPT ![e] = "failed"]
  BY ReadFailsEffect
<1>2. GoesOnWith(e)
  BY <1>1, SomeCalls, ShowsNoPart, CallGoesOn
<1>3. Read(e) /\ excess' \in [Ends -> Refusals]
  BY <1>1, ReadFailsRead DEF Base, ReadersOK
<1> QED
  BY <1>1, <1>2, <1>3, ReadersKept, ReadBase

-----------------------------------------------------------------------------
(* Connecting and closing                                                   *)

\* End e has no call and no session any more, and perhaps no connection.
Leaves(e) ==
    /\ session' = [session EXCEPT ![e] = FALSE]
    /\ call' = [call EXCEPT ![e] = Idle]
    /\ \E s \in States, l \in {0, link[e]} :
          /\ s = "connected" => l # 0 /\ state[e] = "connected"
          /\ state' = [state EXCEPT ![e] = s] /\ link' = [link EXCEPT ![e] = l]
    /\ waiting' \in {0, waiting}
    /\ UNCHANGED <<made, partial, got, excess, rest, begun, pings>>
    /\ inbound' \in [Ends -> Seq(Plain)]
    /\ Written(e)
    /\ pipe' = pipe \/ session[e]

LEMMA LeavesBase ==
    ASSUME Base, NEW e \in Ends, Leaves(e)
    PROVE  Base'
<1>1. PICK s \in States, l \in {0, link[e]} :
        /\ s = "connected" => l # 0 /\ state[e] = "connected"
        /\ state' = [state EXCEPT ![e] = s] /\ link' = [link EXCEPT ![e] = l]
  BY DEF Leaves
<1>2. /\ state \in [Ends -> States] /\ session \in [Ends -> BOOLEAN]
      /\ link \in [Ends -> Nat] /\ waiting \in Nat /\ made \in 0 .. MaxConnections
      /\ \A f \in Ends : link[f] <= made
      /\ waiting <= made
      /\ call \in [Ends -> Calls] /\ made \in Nat
  BY DEF Base, LinksOK, ReadersOK
<1>3. /\ session' = [session EXCEPT ![e] = FALSE] /\ call' = [call EXCEPT ![e] = Idle]
      /\ waiting' \in {0, waiting} /\ made' = made
      /\ UNCHANGED <<partial, got, excess, rest, begun, pings>>
      /\ inbound' \in [Ends -> Seq(Plain)] /\ Written(e)
      /\ pipe' = pipe \/ session[e]
  BY DEF Leaves
<1>4. /\ session'[e] = FALSE /\ call'[e] = Idle /\ state'[e] = s /\ link'[e] = l
      /\ \A f \in Ends \ {e} : /\ session'[f] = session[f] /\ call'[f] = call[f]
                               /\ state'[f] = state[f] /\ link'[f] = link[f]
  BY <1>1, <1>2, <1>3
<1>5. LinksOK'
  BY <1>1, <1>2, <1>3 DEF LinksOK
<1>6. CallsInPlace'
  <2>1. CallsInPlace /\ Idle.op = "none" /\ Idle # Handshake /\ Idle # Responding
    BY ShowsNoPart DEF Base, Idle
  <2>2. ASSUME NEW f \in Ends
        PROVE  /\ session'[f] => /\ link'[f] # 0 /\ state'[f] \in {"connected", "failed"}
                                 /\ call'[f] # Handshake /\ call'[f] # Responding
               /\ call'[f].op \in {"receive", "payload", "pong", "close"} => session'[f]
               /\ call'[f] \in {Handshake, Responding} => link'[f] # 0 /\ state'[f] = "connected"
               /\ state'[f] = "connected" => link'[f] # 0
    <3>1. CASE f = e
      BY <1>1, <1>4, <2>1, <3>1
    <3>2. CASE f # e
      BY <1>4, <2>1, <3>2 DEF CallsInPlace
    <3> QED
      BY <3>1, <3>2
  <2>3. call'[Client] # Responding
    BY <1>4, <2>1, EndFacts DEF CallsInPlace
  <2> QED
    BY <2>2, <2>3 DEF CallsInPlace
<1>7. StreamsOK' /\ ReadersOK'
  <2>1. call' \in [Ends -> Calls]
    BY <1>2, <1>3, SomeCalls
  <2> QED
    BY <1>3, <2>1 DEF Base, StreamsOK, ReadersOK, Written
<1>8. \A f \in Ends : Active(f)' => f # e /\ Active(f)
  BY <1>4, ShowsNoPart DEF Active
<1>9. ASSUME NEW c \in Connections, session[e] => c # link[e]
      PROVE  \A f \in Ends : pipe'[c][f] = pipe[c][f] /\ begun'[c][f] = begun[c][f]
  BY <1>3, <1>9 DEF Written
<1>10. NewAreEmpty'
  <2>1. ASSUME NEW c \in Connections, NEW f \in Ends, c > made
        PROVE  pipe'[c][f] = <<>> /\ begun'[c][f] = <<>>
    <3>1. c # link[e]
      BY <1>2, <2>1, ConnectionFacts
    <3> QED
      BY <1>9, <2>1, <3>1 DEF Base, NewAreEmpty
  <2> QED
    BY <1>3, <2>1 DEF Base, NewAreEmpty
<1>11. ASSUME NEW c \in Connections, Ungreeted(c), session[e] => c # link[e]
       PROVE  Ungreeted(c)'
  <2>1. \A f \in Ends : pipe'[c][f] = pipe[c][f] /\ begun'[c][f] = begun[c][f]
    BY <1>9, <1>11
  <2>2. link'[Client] = c => /\ link[Client] = c
                             /\ Active(Client)' => Active(Client)
                             /\ rest'[Client] = rest[Client]
    <3>1. c # 0
      BY ConnectionFacts
    <3> QED
      BY <1>1, <1>3, <1>4, <1>8, <3>1, EndFacts
  <2> QED
    BY <1>11, <2>1, <2>2, UngreetedStays
<1>12. WaitingIsNew'
  <2>1. PICK k : k = waiting'
    OBVIOUS
  <2>2. k # 0 => /\ k \in Connections /\ Ungreeted(k) /\ link[Server] # k
                 /\ \A i \in DOMAIN got[Server] : got[Server][i].on # k
                 /\ session[e] => k # link[e]
    BY <1>2, <1>3, <2>1, ActiveElsewhere, ConnectionFacts DEF Base, WaitingIsNew
  <2>3. k # 0 => Ungreeted(k)'
    BY <1>11, <2>2
  <2>4. k # 0 => link'[Server] # k
    BY <1>1, <1>4, <2>2, EndFacts
  <2> QED
    BY <1>3, <2>1, <2>2, <2>3, <2>4 DEF WaitingIsNew
<1>13. ServerGreets'
  <2>1. PICK k : k = link[Server]
    OBVIOUS
  <2>2. call'[Server] \in {Handshake, Responding} =>
            /\ k \in Connections /\ Ungreeted(k) /\ link'[Server] = k
            /\ session[e] => k # link[e]
    <3>1. call'[Server] \in {Handshake, Responding} =>
              call[Server] = call'[Server] /\ call[Server] # Idle /\ link'[Server] = link[Server]
      BY <1>4, ShowsNoPart, EndFacts
    <3> QED
      BY <2>1, <3>1, ActiveElsewhere, EstablishedFacts, EndFacts DEF Base, ServerGreets
  <2>3. call'[Server] \in {Handshake, Responding} => Ungreeted(k)'
    BY <1>11, <2>2
  <2> QED
    BY <2>2, <2>3 DEF ServerGreets
<1>14. GreetingFirst' /\ GreetingRead'
  BY <1>3, <1>4, <1>8, WrittenGreetings DEF GreetingRead
<1> QED
  BY <1>5, <1>6, <1>7, <1>10, <1>12, <1>13, <1>14 DEF Base

LEMMA HangupFacts ==
    ASSUME NEW e \in Ends, Hangup(e)
    PROVE  /\ state' = [state EXCEPT ![e] = "disconnected"] /\ link' = [link EXCEPT ![e] = 0]
           /\ waiting' \in {0, waiting} /\ made' = made
           /\ e = Server => waiting' = 0
           /\ e # Server => waiting' = waiting
  BY DEF Hangup, Closed

LEMMA HandshakeFailsLeaves ==
    ASSUME Base, NEW e \in Ends, HandshakeFails(e)
    PROVE  Leaves(e) /\ pipe' = pipe
<1>1. /\ call[e] \in {Handshake, Responding} /\ Hangup(e)
      /\ inbound' = [inbound EXCEPT ![e] = <<>>] \/ inbound' = inbound
      /\ call' = [call EXCEPT ![e] = Idle]
      /\ UNCHANGED <<session, partial, got, excess, pipe, rest, begun, pings>>
  BY DEF HandshakeFails, Return, writer
<1>2. session' = [session EXCEPT ![e] = FALSE]
  <2>1. session \in [Ends -> BOOLEAN] /\ ~session[e]
    BY <1>1 DEF Base, LinksOK, CallsInPlace
  <2>2. session[e] = FALSE
    BY <2>1
  <2> QED
    BY <1>1, <2>1, <2>2
<1>3. inbound' \in [Ends -> Seq(Plain)]
  <2>1. inbound \in [Ends -> Seq(Plain)] /\ <<>> \in Seq(Plain)
    BY DEF Base, StreamsOK
  <2> QED
    BY <1>1, <2>1
<1>4. Written(e)
  BY <1>1, NothingWritten DEF Base
<1>5. "disconnected" \in States /\ 0 \in {0, link[e]}
  BY DEF States
<1>6. \E s \in States, l \in {0, link[e]} :
          /\ s = "connected" => l # 0 /\ state[e] = "connected"
          /\ state' = [state EXCEPT ![e] = s] /\ link' = [link EXCEPT ![e] = l]
  BY <1>1, <1>5, HangupFacts
<1> QED
  BY <1>1, <1>2, <1>3, <1>4, <1>6, HangupFacts DEF Leaves

\* A frame that goes out in part.
LEMMA TornPart ==
    ASSUME NEW S, NEW e, NEW frame \in Seq(S), NEW part \in Torn(e, frame)
    PROVE  /\ part \in Seq(S) /\ state[e] = "connected"
           /\ Len(part) <= Len(frame) /\ \A i \in 1 .. Len(part) : part[i] = frame[i]
<1>1. state[e] = "connected" /\ \E k \in 0 .. Len(frame) - 1 : part = SubSeq(frame, 1, k)
  BY DEF Torn
<1>2. PICK k \in 0 .. Len(frame) - 1 : part = SubSeq(frame, 1, k)
  BY <1>1
<1>3. k \in Nat /\ k <= Len(frame) /\ 0 + 1 = 1 /\ 0 \in Nat /\ k - 0 = k /\ 0 <= k
  OBVIOUS
<1>4. /\ SubSeq(frame, 0 + 1, k) \in Seq(S)
      /\ Len(SubSeq(frame, 0 + 1, k)) = IF 0 <= k THEN k - 0 ELSE 0
      /\ \A i \in 1 .. k - 0 : SubSeq(frame, 0 + 1, k)[i] = frame[i + 0]
  BY <1>3, Part
<1>5. part \in Seq(S) /\ Len(part) = k /\ \A i \in 1 .. k : part[i] = frame[i + 0]
  BY <1>2, <1>3, <1>4
<1>6. \A i \in 1 .. k : i + 0 = i
  BY <1>3
<1> QED
  BY <1>1, <1>3, <1>5, <1>6

\* A frame without a message, or its first pieces, is written.
Farewell(e) ==
    \E x \in Heads, t \in Seq(Plain) :
        /\ ~Carries(x) /\ Len(t) <= x.size + 1
        /\ Len(t) > 0 => t[1] = x
        /\ pipe' = Wrote(e, t)

LEMMA CloseFrame ==
    ASSUME NEW e \in Ends, NEW bytes \in Seq(Plain), NEW t,
           \/ t = Frame("close", TRUE, bytes)
           \/ t \in Torn(e, Frame("close", TRUE, bytes)),
           pipe' = Wrote(e, t)
    PROVE  t \in Seq(Plain) /\ Farewell(e)
<1>1. PICK x \in Heads : /\ x.op = "close" /\ x.fin = TRUE /\ x.size = Len(bytes)
                         /\ Frame("close", TRUE, bytes) = <<x>> \o bytes
  BY FrameAsHead
<1>2. PICK frame : frame = <<x>> \o bytes
  OBVIOUS
<1>3. frame \in Seq(Plain) /\ Len(frame) = x.size + 1 /\ frame[1] = x
  BY <1>1, <1>2, WritesFrame
<1>4. /\ t \in Seq(Plain) /\ Len(t) <= Len(frame) /\ \A i \in 1 .. Len(t) : t[i] = frame[i]
  <2>1. CASE t = frame
    BY <1>3, <2>1
  <2>2. CASE t \in Torn(e, frame)
    BY <1>3, <2>2, TornPart
  <2> QED
    BY <1>1, <1>2, <2>1, <2>2
<1>5. Len(t) <= x.size + 1 /\ (Len(t) > 0 => t[1] = x)
  BY <1>3, <1>4
<1>6. ~Carries(x)
  BY <1>1 DEF Carries
<1> QED
  BY <1>4, <1>5, <1>6 DEF Farewell

\* It leaves, perhaps with such a frame.
Departs(e) ==
    /\ Leaves(e) /\ state'[e] # "connected"
    /\ pipe' = pipe \/ (state[e] = "connected" /\ Farewell(e))

LEMMA FarewellLeaves ==
    ASSUME Base, NEW e \in Ends, Hangup(e), session' = [session EXCEPT ![e] = FALSE],
           call' = [call EXCEPT ![e] = Idle], UNCHANGED reader, UNCHANGED writer,
           pipe' = pipe \/ (session[e] /\ state[e] = "connected" /\ Farewell(e))
    PROVE  Departs(e)
<1>1. "disconnected" \in States /\ 0 \in {0, link[e]}
  BY DEF States
<1>2. \E s \in States, l \in {0, link[e]} :
          /\ s = "connected" => l # 0 /\ state[e] = "connected"
          /\ state' = [state EXCEPT ![e] = s] /\ link' = [link EXCEPT ![e] = l]
  BY <1>1, HangupFacts
<1>3. Written(e)
  <2>1. pipe' = pipe \/ (session[e] /\ \E t \in Seq(Plain) : pipe' = Wrote(e, t))
    BY DEF Farewell
  <2> QED
    BY <2>1, NothingWritten, WroteWritten, SessionCalls DEF Base
<1>4. inbound' \in [Ends -> Seq(Plain)]
  BY DEF Base, StreamsOK, reader
<1>5. Leaves(e)
  BY <1>2, <1>3, <1>4, HangupFacts DEF Leaves, reader, writer
<1>6. state'[e] # "connected"
  BY HangupFacts DEF Base, LinksOK
<1> QED
  BY <1>5, <1>6 DEF Departs

LEMMA CloseLeaves ==
    ASSUME Base, NEW e \in Ends, Close(e)
    PROVE  Departs(e)
<1>1. /\ call[e] = Idle /\ Hangup(e) /\ session' = [session EXCEPT ![e] = FALSE]
      /\ UNCHANGED <<reader, call, writer, breaks>>
      /\ \E frame \in CloseFrames(e) : pipe' = IF frame = <<>> THEN pipe ELSE Wrote(e, frame)
  BY DEF Close
<1>2. call' = [call EXCEPT ![e] = Idle]
  BY <1>1 DEF Base, ReadersOK
<1>3. PICK f \in CloseFrames(e) : pipe' = IF f = <<>> THEN pipe ELSE Wrote(e, f)
  BY <1>1
<1>4. PICK whole : whole = Frame("close", TRUE, <<>>)
  OBVIOUS
<1>5. \/ f = <<>>
      \/ session[e] /\ state[e] = "connected" /\ (f = whole \/ f \in Torn(e, whole))
  BY <1>4 DEF CloseFrames, Established
<1>6. pipe' = pipe \/ (session[e] /\ state[e] = "connected" /\ Farewell(e))
  <2>1. CASE f = <<>>
    BY <1>3, <2>1
  <2>2. CASE f # <<>>
    <3>1. /\ pipe' = Wrote(e, f) /\ session[e] /\ state[e] = "connected"
          /\ \/ f = Frame("close", TRUE, <<>>)
             \/ f \in Torn(e, Frame("close", TRUE, <<>>))
      BY <1>3, <1>4, <1>5, <2>2
    <3>2. <<>> \in Seq(Plain)
      OBVIOUS
    <3> QED
      BY <3>1, <3>2, CloseFrame
  <2> QED
    BY <2>1, <2>2
<1> QED
  BY <1>1, <1>2, <1>6, FarewellLeaves

LEMMA CloseBackLeaves ==
    ASSUME Base, NEW e \in Ends, CloseBack(e)
    PROVE  Departs(e)
<1>1. /\ call[e].op = "close" /\ Hangup(e) /\ session' = [session EXCEPT ![e] = FALSE]
      /\ call' = [call EXCEPT ![e] = Idle] /\ UNCHANGED reader /\ UNCHANGED writer
  BY DEF CloseBack, Return
<1>2. session[e] /\ call[e].bytes \in Seq(Plain)
  BY <1>1, SessionCalls
<1>3. PICK bytes \in Seq(Plain) : bytes = call[e].bytes
  BY <1>2
<1>4. PICK whole : whole = Frame("close", TRUE, bytes)
  OBVIOUS
<1>5. whole \in Seq(Plain)
  BY <1>4, FrameFacts
<1>6. \/ pipe' = pipe
      \/ \E t : /\ t = whole \/ t \in Torn(e, whole)
               /\ pipe' = Wrote(e, t) /\ state[e] = "connected"
  BY <1>3, <1>4, <1>5, TornPart DEF CloseBack, CanWrite
<1>7. pipe' = pipe \/ (state[e] = "connected" /\ Farewell(e))
  BY <1>4, <1>6, CloseFrame
<1> QED
  BY <1>1, <1>2, <1>7, FarewellLeaves

LEMMA ListenLeaves ==
    ASSUME Base, Listen
    PROVE  Leaves(Server) /\ pipe' = pipe
<1>1. /\ call[Server] = Idle /\ session' = [session EXCEPT ![Server] = FALSE]
      /\ UNCHANGED <<waiting, made, reader, call, pipe, writer>>
      /\ \/ UNCHANGED <<state, link>>
         \/ \E s \in {"failed", "listening"}, l \in {0, link[Server]} :
               state' = [state EXCEPT ![Server] = s] /\ link' = [link EXCEPT ![Server] = l]
  <2>1. link = [link EXCEPT ![Server] = link[Server]]
    BY EndFacts DEF Base, LinksOK
  <2>2. CASE UNCHANGED <<state, link>>
    BY <2>2 DEF Listen
  <2>3. CASE /\ state' = [state EXCEPT ![Server] = IF listening THEN "failed" ELSE "listening"]
             /\ link' = IF listening THEN link ELSE [link EXCEPT ![Server] = 0]
    <3>1. CASE listening
      BY <2>1, <2>3, <3>1 DEF Listen
    <3>2. CASE ~listening
      BY <2>3, <3>2 DEF Listen
    <3> QED
      BY <3>1, <3>2
  <2> QED
    BY <2>2, <2>3 DEF Listen
<1>2. call' = [call EXCEPT ![Server] = Idle]
  BY <1>1 DEF Base, ReadersOK
<1>3. \E s \in States, l \in {0, link[Server]} :
          /\ s = "connected" => l # 0 /\ state[Server] = "connected"
          /\ state' = [state EXCEPT ![Server] = s] /\ link' = [link EXCEPT ![Server] = l]
  <2>1. /\ state \in [Ends -> States] /\ state[Server] \in States
        /\ state[Server] = "connected" => link[Server] # 0
        /\ link \in [Ends -> Nat]
    BY EndFacts DEF Base, LinksOK, CallsInPlace
  <2>2. CASE UNCHANGED <<state, link>>
    <3>1. /\ state' = [state EXCEPT ![Server] = state[Server]]
          /\ link' = [link EXCEPT ![Server] = link[Server]]
      BY <2>1, <2>2
    <3> QED
      BY <2>1, <3>1
  <2>3. {"failed", "listening"} \subseteq States
    BY DEF States
  <2> QED
    BY <1>1, <2>2, <2>3
<1>4. Written(Server) /\ inbound' \in [Ends -> Seq(Plain)]
  BY <1>1, NothingWritten, EndFacts DEF Base, StreamsOK, reader
<1> QED
  BY <1>1, <1>2, <1>3, <1>4 DEF Leaves, reader, writer

\* A connect that made no connection.
LEMMA ConnectLeaves ==
    ASSUME Base, Connect, made' = made
    PROVE  Leaves(Client) /\ pipe' = pipe
<1>1. /\ call[Client] = Idle /\ session' = [session EXCEPT ![Client] = FALSE]
      /\ UNCHANGED <<inbound, partial, got, begun, pings>>
  BY DEF Connect
<1>2. /\ made \in Nat /\ made + 1 # made
      /\ state \in [Ends -> States] /\ link \in [Ends -> Nat]
      /\ state[Client] = "connected" => link[Client] # 0
      /\ call \in [Ends -> Calls]
  BY EndFacts DEF Base, LinksOK, CallsInPlace, ReadersOK
<1>3. ~Connected
  BY <1>2 DEF Connected
<1>4. CASE state[Client] = "connected" /\ UNCHANGED <<tcp, pipe, call, excess, rest>>
  <2>1. /\ state' = [state EXCEPT ![Client] = state[Client]]
        /\ link' = [link EXCEPT ![Client] = link[Client]]
        /\ call' = [call EXCEPT ![Client] = Idle]
    BY <1>1, <1>2, <1>4 DEF tcp
  <2>2. \E s \in States, l \in {0, link[Client]} :
          /\ s = "connected" => l # 0 /\ state[Client] = "connected"
          /\ state' = [state EXCEPT ![Client] = s] /\ link' = [link EXCEPT ![Client] = l]
    BY <1>2, <2>1, EndFacts
  <2>3. Written(Client) /\ inbound' \in [Ends -> Seq(Plain)] /\ waiting' = waiting
    BY <1>1, <1>4, NothingWritten, EndFacts DEF Base, StreamsOK, tcp, sockets
  <2> QED
    BY <1>1, <1>4, <2>1, <2>2, <2>3 DEF Leaves
<1>5. CASE NotConnected
  <2>1. /\ state' = [state EXCEPT ![Client] = "failed"]
        /\ UNCHANGED <<link, pipe, call, excess, rest>> /\ waiting' = waiting
    BY <1>2, <1>5 DEF NotConnected
  <2>2. link' = [link EXCEPT ![Client] = link[Client]] /\ call' = [call EXCEPT ![Client] = Idle]
    BY <1>1, <1>2, <2>1
  <2>3. \E s \in States, l \in {0, link[Client]} :
          /\ s = "connected" => l # 0 /\ state[Client] = "connected"
          /\ state' = [state EXCEPT ![Client] = s] /\ link' = [link EXCEPT ![Client] = l]
    <3>1. "failed" \in States
      BY DEF States
    <3> QED
      BY <2>1, <2>2, <3>1
  <2>4. Written(Client) /\ inbound' \in [Ends -> Seq(Plain)]
    BY <1>1, <2>1, NothingWritten, EndFacts DEF Base, StreamsOK
  <2> QED
    BY <1>1, <2>1, <2>2, <2>3, <2>4 DEF Leaves
<1> QED
  BY <1>3, <1>4, <1>5 DEF Connect

LEMMA ConnectMade ==
    ASSUME Base, Connect, made' # made
    PROVE  /\ call[Client] = Idle /\ session' = [session EXCEPT ![Client] = FALSE]
           /\ UNCHANGED <<inbound, partial, got, begun, pings>>
           /\ made' = made + 1 /\ waiting' = made + 1 /\ made + 1 \in Connections
           /\ state[Client] # "connected"
           /\ \/ /\ state' = [state EXCEPT ![Client] = "failed"]
                 /\ UNCHANGED <<link, pipe, call, excess, rest>>
              \/ /\ state' = [state EXCEPT ![Client] = "connected"]
                 /\ link' = [link EXCEPT ![Client] = made + 1]
                 /\ pipe' = [pipe EXCEPT ![made + 1][Client] = <<Greeting>>]
                 /\ call' = [call EXCEPT ![Client] = Handshake]
                 /\ excess' = [excess EXCEPT ![Client] = "none"]
                 /\ rest' = [rest EXCEPT ![Client] = NoMessage]
<1>1. /\ call[Client] = Idle /\ session' = [session EXCEPT ![Client] = FALSE]
      /\ UNCHANGED <<inbound, partial, got, begun, pings>>
  BY DEF Connect
<1>2. state[Client] # "connected" /\ (Connected \/ NotConnected)
  BY DEF Connect, tcp, sockets
<1>3. CanConnect /\ made' = made + 1 /\ waiting' = made + 1
  BY <1>2 DEF Connected, NotConnected
<1>4. made + 1 \in Connections
  <2>1. made \in Nat /\ made < MaxConnections /\ MaxConnections \in Nat
    BY <1>3, WebSocketAssumption DEF CanConnect, Base, LinksOK
  <2> QED
    BY <2>1 DEF Connections
<1> QED
  BY <1>1, <1>2, <1>3, <1>4 DEF Connected, NotConnected

LEMMA GotFrom ==
    ASSUME Base
    PROVE  \A f \in Ends : \A i \in DOMAIN got[f] :
              /\ got[f][i] \in Messages /\ got[f][i].on \in Connections
              /\ got[f][i].on \in Nat /\ got[f][i].on <= made
<1> SUFFICES ASSUME NEW f \in Ends, NEW i \in DOMAIN got[f]
             PROVE  /\ got[f][i] \in Messages /\ got[f][i].on \in Connections
                    /\ got[f][i].on \in Nat /\ got[f][i].on <= made
  OBVIOUS
<1>1. got[f] \in Seq(Messages)
  BY DEF Base, ReadersOK
<1>2. got[f][i] \in Messages
  BY <1>1
<1> QED
  BY <1>2, ConnectionFacts DEF Messages, Base, NewAreEmpty

LEMMA ConnectBase ==
    ASSUME Base, Connect, made' # made
    PROVE  Base'
<1>0. PICK n : n = made + 1
  OBVIOUS
<1>1. /\ call[Client] = Idle /\ session' = [session EXCEPT ![Client] = FALSE]
      /\ UNCHANGED <<inbound, partial, got, begun, pings>>
      /\ made' = n /\ waiting' = n /\ n \in Connections
  BY <1>0, ConnectMade
<1>2. /\ state \in [Ends -> States] /\ session \in [Ends -> BOOLEAN]
      /\ link \in [Ends -> Nat] /\ made \in Nat /\ made < n
      /\ \A f \in Ends : link[f] <= made
      /\ call \in [Ends -> Calls]
      /\ pipe \in [Connections -> [Ends -> Seq(Pieces)]]
      /\ rest \in [Ends -> [on : BOOLEAN, bytes : Seq(Plain)]]
      /\ excess \in [Ends -> Refusals]
  BY <1>0 DEF Base, LinksOK, StreamsOK, ReadersOK
<1>3. Client \in Ends /\ Server \in Ends /\ Client # Server
  BY EndFacts
<1>4. /\ session'[Client] = FALSE /\ session' \in [Ends -> BOOLEAN]
      /\ \A f \in Ends \ {Client} : session'[f] = session[f]
  BY <1>1, <1>2, <1>3
<1>5. /\ state' \in [Ends -> States] /\ link' \in [Ends -> Nat] /\ call' \in [Ends -> Calls]
      /\ rest' \in [Ends -> [on : BOOLEAN, bytes : Seq(Plain)]]
      /\ excess' \in [Ends -> Refusals]
      /\ \A f \in Ends \ {Client} : /\ state'[f] = state[f] /\ link'[f] = link[f]
                                    /\ call'[f] = call[f]
      /\ link'[Client] \in {link[Client], n}
      /\ link'[Client] = n => ~rest'[Client].on
      /\ call'[Client] \in {Idle, Handshake}
      /\ call'[Client] = Handshake \/ state'[Client] = "connected"
            => link'[Client] = n /\ state'[Client] = "connected"
  <2>1. {"failed", "connected"} \subseteq States /\ "none" \in Refusals /\ n \in Nat
    BY <1>1, ConnectionFacts DEF States, Refusals
  <2>2. NoMessage \in [on : BOOLEAN, bytes : Seq(Plain)] /\ ~NoMessage.on
    BY DEF NoMessage
  <2>3. CASE /\ state' = [state EXCEPT ![Client] = "failed"]
             /\ UNCHANGED <<link, pipe, call, excess, rest>>
    BY <1>1, <1>2, <1>3, <2>1, <2>3, ShowsNoPart
  <2>4. CASE /\ state' = [state EXCEPT ![Client] = "connected"]
             /\ link' = [link EXCEPT ![Client] = n]
             /\ call' = [call EXCEPT ![Client] = Handshake]
             /\ excess' = [excess EXCEPT ![Client] = "none"]
             /\ rest' = [rest EXCEPT ![Client] = NoMessage]
    BY <1>2, <1>3, <2>1, <2>2, <2>4, SomeCalls
  <2> QED
    BY <1>0, <2>3, <2>4, ConnectMade
<1>6. /\ pipe' \in [Connections -> [Ends -> Seq(Pieces)]]
      /\ \A c \in Connections, f \in Ends : c # n \/ f # Client => pipe'[c][f] = pipe[c][f]
      /\ pipe'[n][Client] \in {<<>>, <<Greeting>>}
  <2>1. CASE pipe' = pipe
    BY <1>1, <1>2, <1>3, <2>1 DEF Base, NewAreEmpty
  <2>2. CASE pipe' = [pipe EXCEPT ![n][Client] = <<Greeting>>]
    <3>1. <<Greeting>> \in Seq(Pieces)
      BY PieceFacts
    <3> QED
      <4>1. Replaces(n, Client, <<Greeting>>) /\ StreamsOK
        BY <2>2 DEF Base, Replaces
      <4>2. Replaced(n, Client, <<Greeting>>)
        BY <1>1, <1>3, <3>1, <4>1, ReplaceType
      <4> QED
        BY <4>2 DEF Replaced
  <2> QED
    BY <1>0, <2>1, <2>2, ConnectMade
<1>7. \A f \in Ends : Active(f)' => f = Server /\ Active(f)
  BY <1>3, <1>4, <1>5, ShowsNoPart, EndFacts DEF Active
<1>8. LinksOK'
  <2>1. n \in 0 .. MaxConnections /\ n \in Nat /\ n <= n
    BY <1>1, <1>2 DEF Connections
  <2>2. ASSUME NEW f \in Ends PROVE link'[f] <= n
    <3>1. link[f] \in Nat /\ link[f] <= made
      BY <1>2
    <3>2. link'[f] \in {link[f], n}
      BY <1>5
    <3> QED
      BY <1>2, <2>1, <3>1, <3>2
  <2> QED
    BY <1>1, <1>4, <1>5, <2>1, <2>2 DEF LinksOK
<1>9. StreamsOK' /\ ReadersOK'
  BY <1>1, <1>5, <1>6 DEF Base, StreamsOK, ReadersOK
<1>10. CallsInPlace'
  <2>1. CallsInPlace /\ Idle.op = "none" /\ Handshake.op = "handshake"
    BY DEF Base, Idle, Handshake
  <2>2. n # 0
    BY <1>1, ConnectionFacts
  <2>3. ASSUME NEW f \in Ends
        PROVE  /\ session'[f] => /\ link'[f] # 0 /\ state'[f] \in {"connected", "failed"}
                                 /\ call'[f] # Handshake /\ call'[f] # Responding
               /\ call'[f].op \in {"receive", "payload", "pong", "close"} => session'[f]
               /\ call'[f] \in {Handshake, Responding} => link'[f] # 0 /\ state'[f] = "connected"
               /\ state'[f] = "connected" => link'[f] # 0
    <3>1. CASE f = Client
      BY <1>4, <1>5, <2>1, <2>2, <3>1, ShowsNoPart
    <3>2. CASE f # Client
      BY <1>4, <1>5, <2>1, <3>2 DEF CallsInPlace
    <3> QED
      BY <3>1, <3>2
  <2>4. call'[Client] # Responding
    BY <1>5, ShowsNoPart
  <2> QED
    BY <2>3, <2>4 DEF CallsInPlace
<1>11. /\ pipe'[n][Server] = <<>>
       /\ \A f \in Ends : begun'[n][f] = <<>>
       /\ \A f \in Ends : \A i \in DOMAIN got[f] : got[f][i].on <= made
  BY <1>1, <1>2, <1>3, <1>6 DEF Base, NewAreEmpty
<1>12. NewAreEmpty'
  <2>1. ASSUME NEW c \in Connections, NEW f \in Ends, c > n
        PROVE  pipe'[c][f] = <<>> /\ begun'[c][f] = <<>>
    <3>1. c > made /\ c # n
      BY <1>1, <1>2, <2>1, ConnectionFacts
    <3> QED
      BY <1>1, <1>6, <3>1 DEF Base, NewAreEmpty
  <2>2. \A f \in Ends : \A i \in DOMAIN got[f] : got[f][i].on <= n
    BY <1>0, <1>2, GotFrom
  <2> QED
    BY <1>1, <2>1, <2>2 DEF NewAreEmpty
<1>13. WaitingIsNew'
  <2>1. Ungreeted(n)'
    <3>1. link'[Client] = n => ~Active(Client)' /\ ~rest'[Client].on
      BY <1>3, <1>5, <1>7
    <3> QED
      BY <1>6, <1>11, <3>1 DEF Ungreeted
  <2>2. link'[Server] # n
    BY <1>2, <1>3, <1>5
  <2>3. \A i \in DOMAIN got'[Server] : got'[Server][i].on # n
    BY <1>1, <1>2, <1>3, GotFrom
  <2>4. waiting' = n
    BY <1>1
  <2>5. PICK k : k = n
    OBVIOUS
  <2> QED
    BY <2>1, <2>2, <2>3, <2>4, <2>5 DEF WaitingIsNew
<1>14. ServerGreets'
  <2>1. PICK k : k = link[Server]
    OBVIOUS
  <2>2. call'[Server] \in {Handshake, Responding} =>
            k \in Connections /\ k # n /\ Ungreeted(k) /\ link'[Server] = k
    <3>1. call'[Server] \in {Handshake, Responding} =>
              call[Server] = call'[Server] /\ call[Server] # Idle /\ link'[Server] = link[Server]
      BY <1>3, <1>5, ShowsNoPart
    <3>2. link[Server] # n
      BY <1>2, <1>3
    <3> QED
      BY <1>3, <2>1, <3>1, <3>2, EstablishedFacts DEF Base, ServerGreets
  <2>3. call'[Server] \in {Handshake, Responding} => Ungreeted(k)'
    <3> SUFFICES ASSUME k \in Connections, k # n, Ungreeted(k) PROVE Ungreeted(k)'
      BY <2>2
    <3>1. \A f \in Ends : pipe'[k][f] = pipe[k][f] /\ begun'[k][f] = begun[k][f]
      BY <1>1, <1>6
    <3>2. link'[Client] = k => link'[Client] = link[Client]
      BY <1>5
    <3>3. \A f \in Ends : begun[k][f] = <<>>
      BY DEF Ungreeted
    <3>4. pipe'[k][Server] = <<>> /\ pipe'[k][Client] \in {<<>>, <<Greeting>>}
      BY <1>3, <3>1 DEF Ungreeted
    <3>5. link'[Client] = k => ~Active(Client)' /\ ~rest'[Client].on
      <4>1. link'[Client] = k => rest' = rest
        <5>1. CASE link' = [link EXCEPT ![Client] = made + 1]
          BY <1>0, <1>2, <1>3, <5>1
        <5>2. CASE UNCHANGED rest
          BY <5>2
        <5> QED
          BY <5>1, <5>2, ConnectMade
      <4> QED
        BY <1>3, <1>7, <3>2, <4>1 DEF Ungreeted
    <3> QED
      BY <3>1, <3>3, <3>4, <3>5 DEF Ungreeted
  <2> QED
    BY <2>2, <2>3 DEF ServerGreets
<1>15. GreetingFirst'
  <2> SUFFICES ASSUME NEW c \in Connections, NEW f \in Ends, NEW p \in DOMAIN pipe'[c][f], p > 1
               PROVE  pipe'[c][f][p] \in Plain
    BY DEF GreetingFirst
  <2>1. CASE c = n /\ f = Client
    <3>1. p \in DOMAIN <<>> \/ p \in DOMAIN <<Greeting>>
      BY <1>6, <2>1
    <3>2. p = 1
      BY <3>1
    <3> QED
      BY <3>2
  <2>2. CASE ~(c = n /\ f = Client)
    BY <1>6, <2>2 DEF Base, GreetingFirst
  <2> QED
    BY <2>1, <2>2
<1>16. GreetingRead'
  <2> SUFFICES ASSUME NEW f \in Ends, Active(f)', NEW p \in DOMAIN pipe'[link'[f]][Other(f)]
               PROVE  pipe'[link'[f]][Other(f)][p] \in Plain
    BY DEF GreetingRead
  <2>1. f = Server /\ Active(f) /\ link'[f] = link[f] /\ link[f] \in Connections /\ Other(f) \in Ends
    BY <1>3, <1>5, <1>7, EstablishedFacts, EndFacts
  <2>2. pipe'[link[f]][Other(f)] = pipe[link[f]][Other(f)]
    BY <1>2, <1>6, <2>1
  <2> QED
    BY <2>1, <2>2 DEF Base, GreetingRead
<1> QED
  BY <1>8, <1>9, <1>10, <1>12, <1>13, <1>14, <1>15, <1>16 DEF Base

\* Accepting needs no session to be cleared: a listening server has none.
LEMMA AcceptFacts ==
    ASSUME Base, Accept
    PROVE  /\ call[Server] = Idle /\ waiting # 0 /\ ~session[Server]
           /\ link' = [link EXCEPT ![Server] = waiting] /\ waiting' = 0
           /\ state' = [state EXCEPT ![Server] = "connected"]
           /\ call' = [call EXCEPT ![Server] = Handshake]
           /\ excess' = [excess EXCEPT ![Server] = "none"]
           /\ rest' = [rest EXCEPT ![Server] = NoMessage]
           /\ UNCHANGED <<made, session, inbound, partial, got, pipe, begun, pings>>
<1>1. state[Server] = "listening"
  BY DEF Accept
<1>2. ~session[Server]
  BY <1>1, EndFacts DEF Base, CallsInPlace
<1> QED
  BY <1>2 DEF Accept

LEMMA AcceptBase ==
    ASSUME Base, Accept
    PROVE  Base'
<1>1. /\ call[Server] = Idle /\ waiting # 0 /\ ~session[Server]
      /\ link' = [link EXCEPT ![Server] = waiting] /\ waiting' = 0
      /\ state' = [state EXCEPT ![Server] = "connected"]
      /\ call' = [call EXCEPT ![Server] = Handshake]
      /\ excess' = [excess EXCEPT ![Server] = "none"]
      /\ rest' = [rest EXCEPT ![Server] = NoMessage]
      /\ UNCHANGED <<made, session, inbound, partial, got, pipe, begun, pings>>
  BY AcceptFacts
<1>2. /\ state \in [Ends -> States] /\ session \in [Ends -> BOOLEAN]
      /\ link \in [Ends -> Nat] /\ made \in 0 .. MaxConnections
      /\ waiting \in Nat /\ waiting <= made
      /\ \A f \in Ends : link[f] <= made
      /\ call \in [Ends -> Calls]
      /\ rest \in [Ends -> [on : BOOLEAN, bytes : Seq(Plain)]]
      /\ excess \in [Ends -> Refusals]
  BY DEF Base, LinksOK, StreamsOK, ReadersOK
<1>3. Client \in Ends /\ Server \in Ends /\ Client # Server
  BY EndFacts
<1>4. /\ link'[Server] = waiting /\ call'[Server] = Handshake /\ state'[Server] = "connected"
      /\ \A f \in Ends \ {Server} : /\ state'[f] = state[f] /\ link'[f] = link[f]
                                    /\ call'[f] = call[f] /\ rest'[f] = rest[f]
  BY <1>1, <1>2, <1>3
<1>5. LinksOK'
  <2>1. state' \in [Ends -> States] /\ link' \in [Ends -> Nat]
    BY <1>1, <1>2 DEF States
  <2>2. \A f \in Ends : link'[f] <= made
    BY <1>2, <1>4
  <2>3. 0 \in Nat /\ 0 <= made
    BY <1>2
  <2> QED
    BY <1>1, <1>2, <2>1, <2>2, <2>3 DEF LinksOK
<1>6. StreamsOK' /\ ReadersOK'
  <2>1. NoMessage \in [on : BOOLEAN, bytes : Seq(Plain)]
    BY DEF NoMessage
  <2>2. rest' \in [Ends -> [on : BOOLEAN, bytes : Seq(Plain)]]
    BY <1>1, <1>2, <2>1
  <2>3. excess' \in [Ends -> Refusals] /\ call' \in [Ends -> Calls]
    BY <1>1, <1>2, SomeCalls DEF Refusals
  <2> QED
    BY <1>1, <2>2, <2>3 DEF Base, StreamsOK, ReadersOK
<1>7. CallsInPlace'
  <2>1. CallsInPlace /\ Handshake.op = "handshake"
    BY DEF Base, Handshake
  <2>2. ASSUME NEW f \in Ends
        PROVE  /\ session'[f] => /\ link'[f] # 0 /\ state'[f] \in {"connected", "failed"}
                                 /\ call'[f] # Handshake /\ call'[f] # Responding
               /\ call'[f].op \in {"receive", "payload", "pong", "close"} => session'[f]
               /\ call'[f] \in {Handshake, Responding} => link'[f] # 0 /\ state'[f] = "connected"
               /\ state'[f] = "connected" => link'[f] # 0
    <3>1. CASE f = Server
      BY <1>1, <1>4, <2>1, <3>1
    <3>2. CASE f # Server
      BY <1>1, <1>4, <2>1, <3>2 DEF CallsInPlace
    <3> QED
      BY <3>1, <3>2
  <2>3. call'[Client] # Responding
    BY <1>3, <1>4, <2>1 DEF CallsInPlace
  <2> QED
    BY <2>2, <2>3 DEF CallsInPlace
<1>8. NewAreEmpty'
  BY <1>1 DEF Base, NewAreEmpty
<1>9. \A f \in Ends : Active(f)' => f = Client /\ Active(f)
  BY <1>1, <1>3, <1>4, ShowsNoPart, EndFacts DEF Active
<1>10. WaitingIsNew'
  BY <1>1 DEF WaitingIsNew
<1>11. ServerGreets'
  <2>1. PICK k : k = waiting
    OBVIOUS
  <2>2. Ungreeted(k)
    BY <1>1, <2>1 DEF Base, WaitingIsNew
  <2>3. \A f \in Ends : pipe'[k][f] = pipe[k][f] /\ begun'[k][f] = begun[k][f]
    BY <1>1
  <2>4. link'[Client] = k => /\ link[Client] = k
                             /\ Active(Client)' => Active(Client)
                             /\ rest'[Client] = rest[Client]
    BY <1>3, <1>4, <1>9
  <2>5. Ungreeted(k)'
    BY <2>2, <2>3, <2>4, UngreetedStays
  <2>6. link'[Server] = k
    BY <1>4, <2>1
  <2> QED
    BY <2>5, <2>6 DEF ServerGreets
<1>12. GreetingFirst'
  BY <1>1 DEF Base, GreetingFirst
<1>13. GreetingRead'
  BY <1>1, <1>3, <1>4, <1>9 DEF Base, GreetingRead
<1> QED
  BY <1>5, <1>6, <1>7, <1>8, <1>10, <1>11, <1>12, <1>13 DEF Base

\* The greeting is the first piece of its stream s; k pieces were read.
Greeted(e, s, k) ==
    /\ s \in Seq(Pieces) /\ k \in Nat
    /\ s = pipe[link[e]][Other(e)] /\ 1 <= k /\ k <= Len(s)
    /\ s # <<>> /\ s[1] = Greeting
    /\ \A i \in 2 .. Len(s) : s[i] \in Plain
    /\ inbound' = [inbound EXCEPT ![e] = SubSeq(s, 2, k)]
    /\ SubSeq(s, 2, k) \in Seq(Plain) /\ Len(SubSeq(s, 2, k)) = k - 1
    /\ \A i \in 1 .. k - 1 : SubSeq(s, 2, k)[i] = s[i + 1]
    /\ pipe' = [pipe EXCEPT ![link[e]][Other(e)] = SubSeq(s, k + 1, Len(s))]

LEMMA ReadGreetingFacts ==
    ASSUME Base, NEW e \in Ends, ReadGreeting(e)
    PROVE  /\ call[e] = Handshake /\ link[e] \in Connections /\ state[e] = "connected"
           /\ call' = [call EXCEPT ![e] = IF e = Server THEN Responding ELSE Idle]
           /\ session' = [session EXCEPT ![e] = (e = Client)]
           /\ UNCHANGED <<state, link, sockets, partial, got, excess, writer>>
           /\ \E s, k : Greeted(e, s, k)
<1>1. /\ call[e] = Handshake
      /\ call' = [call EXCEPT ![e] = IF e = Server THEN Responding ELSE Idle]
      /\ session' = [session EXCEPT ![e] = (e = Client)]
      /\ UNCHANGED <<state, link, sockets, partial, got, excess, writer>>
  BY DEF ReadGreeting, tcp
<1>2. state[e] = "connected" /\ link[e] \in Connections
  <2>1. state[e] = "connected"
    BY <1>1 DEF Base, CallsInPlace
  <2> QED
    BY <2>1, EstablishedFacts
<1>3. PICK s, o : s = pipe[link[e]][Other(e)] /\ o = Other(e)
  OBVIOUS
<1>4. s \in Seq(Pieces) /\ Len(s) \in Nat
  BY <1>2, <1>3, EndFacts DEF Base, StreamsOK
<1>5. \A i \in DOMAIN s : i > 1 => s[i] \in Plain
  BY <1>2, <1>3, EndFacts DEF Base, GreetingFirst
<1>6. PICK g \in DOMAIN s : /\ s[g] = Greeting
                            /\ \E k \in g .. Len(s) :
                                 /\ inbound' = [inbound EXCEPT ![e] = SubSeq(s, g + 1, k)]
                                 /\ pipe' = [pipe EXCEPT ![link[e]][o] = SubSeq(s, k + 1, Len(s))]
  BY <1>3 DEF ReadGreeting, AfterGreeting
<1>7. g = 1
  BY <1>4, <1>5, <1>6, PieceFacts
<1>8. PICK k \in 1 .. Len(s) : /\ inbound' = [inbound EXCEPT ![e] = SubSeq(s, 2, k)]
                               /\ pipe' = [pipe EXCEPT ![link[e]][o] = SubSeq(s, k + 1, Len(s))]
  <2>1. 1 + 1 = 2
    OBVIOUS
  <2> QED
    BY <1>6, <1>7, <2>1
<1>9. k \in Nat /\ 1 <= k /\ k <= Len(s) /\ 1 + 1 = 2
  BY <1>4
<1>10. /\ SubSeq(s, 2, k) \in Seq(Pieces) /\ Len(SubSeq(s, 2, k)) = k - 1
       /\ \A i \in 1 .. k - 1 : SubSeq(s, 2, k)[i] = s[i + 1]
  <2>1. /\ SubSeq(s, 1 + 1, k) \in Seq(Pieces) /\ Len(SubSeq(s, 1 + 1, k)) = IF 1 <= k THEN k - 1 ELSE 0
        /\ \A i \in 1 .. k - 1 : SubSeq(s, 1 + 1, k)[i] = s[i + 1]
    BY <1>4, <1>9, Part
  <2> QED
    BY <1>9, <2>1
<1>11. SubSeq(s, 2, k) \in Seq(Plain)
  <2>1. PICK t : t = SubSeq(s, 2, k)
    OBVIOUS
  <2>2. \A i \in DOMAIN t : t[i] \in Plain
    <3>1. \A i \in 1 .. k - 1 : i + 1 \in DOMAIN s /\ i + 1 > 1
      BY <1>4, <1>9
    <3>2. t \in Seq(Pieces) /\ DOMAIN t = 1 .. k - 1
      BY <1>10, <2>1
    <3> QED
      BY <1>5, <1>10, <2>1, <3>1, <3>2
  <2> QED
    BY <1>10, <2>1, <2>2, PlainSeq
<1>12. s # <<>> /\ s[1] = Greeting /\ \A i \in 2 .. Len(s) : s[i] \in Plain
  <2>1. \A i \in 2 .. Len(s) : i \in DOMAIN s /\ i > 1
    BY <1>4
  <2> QED
    BY <1>5, <1>6, <1>7, <2>1
<1> QED
  <2>1. Greeted(e, s, k)
    BY <1>3, <1>4, <1>8, <1>9, <1>10, <1>11, <1>12 DEF Greeted
  <2> QED
    BY <1>1, <1>2, <2>1

LEMMA ReadGreetingRead ==
    ASSUME Base, NEW e \in Ends, ReadGreeting(e)
    PROVE  /\ Read(e)
           /\ \A p \in DOMAIN pipe'[link[e]][Other(e)] : pipe'[link[e]][Other(e)][p] \in Plain
           /\ pipe[link[e]][Other(e)] # <<>>
           /\ pipe[link[e]][Other(e)] = <<Greeting>> => pipe'[link[e]][Other(e)] = <<>>
<1>1. link[e] \in Connections /\ Other(e) \in Ends
  BY ReadGreetingFacts, EndFacts
<1>0. PICK s, k : Greeted(e, s, k)
  BY ReadGreetingFacts
<1>2. /\ s \in Seq(Pieces) /\ k \in Nat
      /\ s = pipe[link[e]][Other(e)] /\ 1 <= k /\ k <= Len(s)
      /\ s # <<>>
      /\ \A i \in 2 .. Len(s) : s[i] \in Plain
  BY <1>0 DEF Greeted
<1>3. PICK t : t = SubSeq(s, k + 1, Len(s))
  OBVIOUS
<1>4. Len(s) \in Nat /\ Len(s) <= Len(s) /\ k \in 0 .. Len(s)
  BY <1>2
<1>5. t \in Seq(Pieces) /\ Len(t) = Len(s) - k /\ \A i \in 1 .. Len(s) - k : t[i] = s[i + k]
  <2>1. /\ t \in Seq(Pieces) /\ Len(t) = IF k <= Len(s) THEN Len(s) - k ELSE 0
        /\ \A i \in 1 .. Len(s) - k : t[i] = s[i + k]
    BY <1>2, <1>3, <1>4, Part
  <2> QED
    BY <1>2, <2>1
<1>6. /\ pipe' \in [Connections -> [Ends -> Seq(Pieces)]]
      /\ pipe'[link[e]][Other(e)] = t
      /\ \A d \in Connections, h \in Ends : d # link[e] \/ h # Other(e) => pipe'[d][h] = pipe[d][h]
  <2>1. pipe' = [pipe EXCEPT ![link[e]][Other(e)] = t] /\ StreamsOK
    BY <1>0, <1>3 DEF Greeted, Base
  <2> QED
    <3>1. Replaces(link[e], Other(e), t) /\ StreamsOK
      BY <2>1 DEF Replaces
    <3>2. Replaced(link[e], Other(e), t)
      BY <1>1, <1>5, <3>1, ReplaceType
    <3> QED
      BY <3>2 DEF Replaced
<1>7. Remains(s, t)
  BY <1>3, <1>4 DEF Remains
<1>8. inbound' \in [Ends -> Seq(Plain)] /\ \A f \in Ends \ {e} : inbound'[f] = inbound[f]
  BY <1>0 DEF Greeted, Base, StreamsOK
<1>9. Read(e)
  BY <1>2, <1>6, <1>7, <1>8 DEF Read
<1>10. \A p \in DOMAIN t : t[p] \in Plain
  <2>1. \A p \in 1 .. Len(s) - k : p + k \in 2 .. Len(s)
    BY <1>2, <1>4
  <2>2. DOMAIN t = 1 .. Len(s) - k
    BY <1>5
  <2> QED
    BY <1>2, <1>5, <2>1, <2>2
<1>11. s = <<Greeting>> => t = <<>>
  <2>1. s = <<Greeting>> => Len(s) = 1
    OBVIOUS
  <2>2. s = <<Greeting>> => Len(t) = 0
    BY <1>2, <1>5, <2>1
  <2> QED
    BY <1>5, <2>2
<1> QED
  BY <1>2, <1>6, <1>9, <1>10, <1>11

LEMMA ReadGreetingBase ==
    ASSUME Base, NEW e \in Ends, ReadGreeting(e)
    PROVE  Base'
<1>1. /\ call[e] = Handshake /\ link[e] \in Connections /\ state[e] = "connected"
      /\ call' = [call EXCEPT ![e] = IF e = Server THEN Responding ELSE Idle]
      /\ session' = [session EXCEPT ![e] = (e = Client)]
      /\ UNCHANGED <<state, link, waiting, made, partial, got, excess, rest, begun, pings>>
  BY ReadGreetingFacts DEF sockets, writer
<1>2. /\ Read(e)
      /\ \A p \in DOMAIN pipe'[link[e]][Other(e)] : pipe'[link[e]][Other(e)][p] \in Plain
      /\ pipe[link[e]][Other(e)] # <<>>
      /\ pipe[link[e]][Other(e)] = <<Greeting>> => pipe'[link[e]][Other(e)] = <<>>
  BY ReadGreetingRead
<1>3. /\ Client \in Ends /\ Server \in Ends /\ Client # Server
      /\ Other(Client) = Server /\ Other(Server) = Client
      /\ e = Client \/ e = Server
  BY EndFacts
<1>4. /\ session \in [Ends -> BOOLEAN] /\ call \in [Ends -> Calls] /\ link[e] # 0
      /\ link[e] <= made /\ made \in Nat
  BY <1>1, ConnectionFacts DEF Base, LinksOK, ReadersOK
<1>5. /\ call' \in [Ends -> Calls] /\ session' \in [Ends -> BOOLEAN]
      /\ session'[e] <=> e = Client
      /\ e = Server => call'[e] = Responding
      /\ e = Client => call'[e] = Idle
      /\ \A f \in Ends \ {e} : call'[f] = call[f] /\ session'[f] = session[f]
  <2>1. PICK b \in BOOLEAN : b <=> e = Client
    OBVIOUS
  <2>2. session' = [session EXCEPT ![e] = b]
    <3>1. b = (e = Client)
      BY <2>1, Zenon
    <3> QED
      BY <1>1, <3>1, Zenon
  <2>3. /\ session' \in [Ends -> BOOLEAN] /\ session'[e] = b
        /\ \A f \in Ends \ {e} : session'[f] = session[f]
    BY <1>4, <2>2
  <2>4. /\ call' \in [Ends -> Calls]
        /\ e = Server => call'[e] = Responding
        /\ e = Client => call'[e] = Idle
        /\ \A f \in Ends \ {e} : call'[f] = call[f]
    BY <1>1, <1>3, <1>4, SomeCalls
  <2> QED
    BY <2>1, <2>3, <2>4
<1>6. LinksOK'
  BY <1>1, <1>5 DEF Base, LinksOK
<1>7. StreamsOK' /\ ReadersOK'
  BY <1>1, <1>2, <1>5 DEF Base, StreamsOK, ReadersOK, Read
<1>8. CallsInPlace'
  <2>1. CallsInPlace /\ Idle.op = "none" /\ Responding.op = "respond"
    BY DEF Base, Idle, Responding
  <2>2. ASSUME NEW f \in Ends
        PROVE  /\ session'[f] => /\ link'[f] # 0 /\ state'[f] \in {"connected", "failed"}
                                 /\ call'[f] # Handshake /\ call'[f] # Responding
               /\ call'[f].op \in {"receive", "payload", "pong", "close"} => session'[f]
               /\ call'[f] \in {Handshake, Responding} => link'[f] # 0 /\ state'[f] = "connected"
               /\ state'[f] = "connected" => link'[f] # 0
    <3>1. CASE f = e
      BY <1>1, <1>3, <1>4, <1>5, <2>1, <3>1, ShowsNoPart
    <3>2. CASE f # e
      BY <1>1, <1>5, <2>1, <3>2 DEF CallsInPlace
    <3> QED
      BY <3>1, <3>2
  <2>3. call'[Client] # Responding
    BY <1>3, <1>5, <2>1, ShowsNoPart DEF CallsInPlace
  <2> QED
    BY <2>2, <2>3 DEF CallsInPlace
<1>9. \A c \in Connections, f \in Ends : c # link[e] => pipe'[c][f] = pipe[c][f]
  BY <1>2 DEF Read
<1>10. NewAreEmpty'
  <2>1. ASSUME NEW c \in Connections, NEW f \in Ends, c > made
        PROVE  pipe'[c][f] = <<>> /\ begun'[c][f] = <<>>
    <3>1. c # link[e]
      BY <1>4, <2>1, ConnectionFacts
    <3> QED
      BY <1>1, <1>9, <2>1, <3>1 DEF Base, NewAreEmpty
  <2> QED
    BY <1>1, <2>1 DEF Base, NewAreEmpty
<1>11. ASSUME NEW c \in Connections, Ungreeted(c)
       PROVE  e = Client => c # link[e]
  BY <1>2, <1>3, <1>11 DEF Ungreeted
<1>12. WaitingIsNew'
  <2>1. PICK k : k = waiting
    OBVIOUS
  <2>2. k # 0 => /\ k \in Connections /\ Ungreeted(k) /\ link[Server] # k
                 /\ \A i \in DOMAIN got[Server] : got[Server][i].on # k
    BY <2>1, ConnectionFacts DEF Base, WaitingIsNew, LinksOK
  <2>3. ASSUME k # 0 PROVE Ungreeted(k)'
    <3>1. k # link[e]
      BY <1>3, <1>11, <2>2, <2>3
    <3>2. \A f \in Ends : pipe'[k][f] = pipe[k][f] /\ begun'[k][f] = begun[k][f]
      BY <1>1, <1>9, <2>2, <2>3, <3>1
    <3>3. link'[Client] = k => /\ link[Client] = k
                               /\ Active(Client)' => Active(Client)
                               /\ rest'[Client] = rest[Client]
      BY <1>1, <1>3, <1>5, <3>1 DEF Active
    <3> QED
      BY <2>2, <2>3, <3>2, <3>3, UngreetedStays
  <2> QED
    BY <1>1, <2>1, <2>2, <2>3 DEF WaitingIsNew
<1>13. ServerGreets'
  <2>1. PICK k : k = link[Server]
    OBVIOUS
  <2> SUFFICES ASSUME call'[Server] \in {Handshake, Responding} PROVE Ungreeted(k)'
    BY <1>1, <2>1 DEF ServerGreets
  <2>2. /\ call[Server] \in {Handshake, Responding} /\ call[Server] # Idle
    BY <1>1, <1>3, <1>5, ShowsNoPart
  <2>3. k \in Connections /\ Ungreeted(k)
    BY <1>3, <2>1, <2>2, EstablishedFacts DEF Base, ServerGreets
  <2>4. CASE e = Client
    <3>1. k # link[e]
      BY <1>11, <2>3, <2>4
    <3>2. \A f \in Ends : pipe'[k][f] = pipe[k][f] /\ begun'[k][f] = begun[k][f]
      BY <1>1, <1>9, <2>3, <3>1
    <3>3. link'[Client] # k
      BY <1>1, <2>4, <3>1
    <3> QED
      BY <2>3, <3>2, <3>3, UngreetedStays
  <2>5. CASE e = Server
    <3>1. /\ pipe[k][Client] \in {<<>>, <<Greeting>>} /\ pipe[k][Server] = <<>>
          /\ \A f \in Ends : begun'[k][f] = <<>>
      BY <1>1, <2>3 DEF Ungreeted
    <3>2. pipe'[k][Client] = <<>>
      BY <1>2, <1>3, <2>1, <2>5, <3>1
    <3>3. pipe'[k][Server] = <<>>
      BY <1>2, <1>3, <2>1, <2>3, <2>5, <3>1 DEF Read
    <3>4. link'[Client] = k => ~Active(Client)' /\ ~rest'[Client].on
      BY <1>1, <1>3, <1>5, <2>3, <2>5 DEF Ungreeted, Active
    <3> QED
      BY <3>1, <3>2, <3>3, <3>4 DEF Ungreeted
  <2> QED
    BY <1>3, <2>4, <2>5
<1>14. /\ GreetingFirst'
       /\ \A f \in Ends : Active(f) => \A p \in DOMAIN pipe'[link[f]][Other(f)] :
              pipe'[link[f]][Other(f)][p] \in Plain
  BY <1>2, ReadGreetings
<1>15. GreetingRead'
  <2>1. \A f \in Ends : Active(f)' => f = e \/ Active(f)
    BY <1>5 DEF Active
  <2> QED
    BY <1>1, <1>2, <1>14, <2>1 DEF GreetingRead
<1> QED
  BY <1>6, <1>7, <1>8, <1>10, <1>12, <1>13, <1>14, <1>15 DEF Base

\* Only the server answers; its stream was empty.
LEMMA RespondFacts ==
    ASSUME Base, NEW e \in Ends, Respond(e)
    PROVE  /\ e = Server /\ call[e] = Responding /\ link[e] \in Connections
           /\ pipe' = [pipe EXCEPT ![link[e]][e] = <<Greeting>>]
           /\ Ungreeted(link[e]) /\ pipe[link[e]][e] = <<>>
           /\ session' = [session EXCEPT ![e] = TRUE]
           /\ call' = [call EXCEPT ![e] = Idle]
           /\ UNCHANGED <<tcp, reader, writer, breaks>>
<1>1. /\ call[e] = Responding /\ pipe' = Wrote(e, <<Greeting>>)
      /\ session' = [session EXCEPT ![e] = TRUE] /\ call' = [call EXCEPT ![e] = Idle]
      /\ UNCHANGED <<tcp, reader, writer, breaks>>
  BY DEF Respond, Return
<1>2. e = Server
  BY <1>1, EndFacts DEF Base, CallsInPlace
<1>3. link[e] \in Connections
  BY <1>1, ShowsNoPart, EstablishedFacts DEF Active
<1>4. Ungreeted(link[e]) /\ pipe[link[e]][e] = <<>>
  BY <1>1, <1>2 DEF Base, ServerGreets, Ungreeted
<1>5. <<>> \o <<Greeting>> = <<Greeting>>
  OBVIOUS
<1> QED
  BY <1>1, <1>2, <1>3, <1>4, <1>5 DEF Wrote

LEMMA RespondBase ==
    ASSUME Base, NEW e \in Ends, Respond(e)
    PROVE  Base'
<1>1. /\ e = Server /\ call[e] = Responding /\ link[e] \in Connections
      /\ pipe' = [pipe EXCEPT ![link[e]][e] = <<Greeting>>]
      /\ Ungreeted(link[e]) /\ pipe[link[e]][e] = <<>>
      /\ session' = [session EXCEPT ![e] = TRUE]
      /\ call' = [call EXCEPT ![e] = Idle]
      /\ UNCHANGED <<state, link, waiting, made, inbound, partial, got, excess, rest, begun, pings>>
  BY RespondFacts DEF tcp, sockets, reader, writer
<1>2. /\ Client \in Ends /\ Server \in Ends /\ Client # Server
      /\ Other(Client) = Server /\ Other(Server) = Client
      /\ \A f \in Ends : f = Client \/ f = Server
  BY EndFacts
<1>3. <<Greeting>> \in Seq(Pieces)
  BY PieceFacts
<1>4. /\ pipe' \in [Connections -> [Ends -> Seq(Pieces)]]
      /\ pipe'[link[e]][e] = <<Greeting>>
      /\ \A d \in Connections, h \in Ends : d # link[e] \/ h # e => pipe'[d][h] = pipe[d][h]
  <2>1. pipe' = [pipe EXCEPT ![link[e]][e] = <<Greeting>>] /\ StreamsOK /\ link[e] \in Connections
    BY <1>1 DEF Base
  <2> QED
    <3>1. Replaces(link[e], e, <<Greeting>>)
      BY <2>1 DEF Replaces
    <3>2. Replaced(link[e], e, <<Greeting>>)
      BY <1>3, <2>1, <3>1, ReplaceType
    <3> QED
      BY <3>2 DEF Replaced
<1>5. /\ session \in [Ends -> BOOLEAN] /\ call \in [Ends -> Calls] /\ link[e] # 0
      /\ link[e] <= made /\ made \in Nat
  BY <1>1, ConnectionFacts DEF Base, LinksOK, ReadersOK
<1>6. /\ call' \in [Ends -> Calls] /\ session' \in [Ends -> BOOLEAN]
      /\ call'[e] = Idle /\ session'[e] = TRUE
      /\ \A f \in Ends \ {e} : call'[f] = call[f] /\ session'[f] = session[f]
  BY <1>1, <1>5, SomeCalls
<1>7. LinksOK'
  BY <1>1, <1>6 DEF Base, LinksOK
<1>8. StreamsOK' /\ ReadersOK'
  BY <1>1, <1>4, <1>6 DEF Base, StreamsOK, ReadersOK
<1>9. CallsInPlace'
  <2>1. CallsInPlace /\ Idle.op = "none"
    BY DEF Base, Idle
  <2>2. ASSUME NEW f \in Ends
        PROVE  /\ session'[f] => /\ link'[f] # 0 /\ state'[f] \in {"connected", "failed"}
                                 /\ call'[f] # Handshake /\ call'[f] # Responding
               /\ call'[f].op \in {"receive", "payload", "pong", "close"} => session'[f]
               /\ call'[f] \in {Handshake, Responding} => link'[f] # 0 /\ state'[f] = "connected"
               /\ state'[f] = "connected" => link'[f] # 0
    <3>1. CASE f = e
      <4>1. state[e] = "connected"
        BY <1>1, <2>1 DEF CallsInPlace
      <4> QED
        BY <1>1, <1>5, <1>6, <2>1, <3>1, <4>1, ShowsNoPart
    <3>2. CASE f # e
      BY <1>1, <1>6, <2>1, <3>2 DEF CallsInPlace
    <3> QED
      BY <3>1, <3>2
  <2>3. call'[Client] # Responding
    BY <1>1, <1>2, <1>6, <2>1 DEF CallsInPlace
  <2> QED
    BY <2>2, <2>3 DEF CallsInPlace
<1>10. NewAreEmpty'
  <2>1. ASSUME NEW c \in Connections, NEW f \in Ends, c > made
        PROVE  pipe'[c][f] = <<>> /\ begun'[c][f] = <<>>
    <3>1. c # link[e]
      BY <1>5, <2>1, ConnectionFacts
    <3> QED
      BY <1>1, <1>4, <2>1, <3>1 DEF Base, NewAreEmpty
  <2> QED
    BY <1>1, <2>1 DEF Base, NewAreEmpty
<1>11. \A f \in Ends : Active(f)' <=> Active(f)
  BY <1>1, <1>6 DEF Active
<1>12. WaitingIsNew'
  <2>1. PICK k : k = waiting
    OBVIOUS
  <2>2. k # 0 => /\ k \in Connections /\ Ungreeted(k) /\ link[Server] # k
                 /\ \A i \in DOMAIN got[Server] : got[Server][i].on # k
    BY <2>1, ConnectionFacts DEF Base, WaitingIsNew, LinksOK
  <2>3. ASSUME k # 0 PROVE Ungreeted(k)'
    <3>1. \A f \in Ends : pipe'[k][f] = pipe[k][f] /\ begun'[k][f] = begun[k][f]
      BY <1>1, <1>4, <2>2, <2>3
    <3>2. link'[Client] = k => /\ link[Client] = k
                               /\ Active(Client)' => Active(Client)
                               /\ rest'[Client] = rest[Client]
      BY <1>1, <1>2, <1>11
    <3> QED
      BY <2>2, <2>3, <3>1, <3>2, UngreetedStays
  <2> QED
    BY <1>1, <2>1, <2>2, <2>3 DEF WaitingIsNew
<1>13. ServerGreets'
  BY <1>1, <1>6, ShowsNoPart DEF ServerGreets
<1>14. GreetingFirst'
  <2> SUFFICES ASSUME NEW c \in Connections, NEW f \in Ends, NEW p \in DOMAIN pipe'[c][f], p > 1
               PROVE  pipe'[c][f][p] \in Plain
    BY DEF GreetingFirst
  <2>1. CASE c = link[e] /\ f = e
    <3>1. p = 1
      BY <1>4, <2>1
    <3> QED
      BY <3>1
  <2>2. CASE ~(c = link[e] /\ f = e)
    BY <1>4, <2>2 DEF Base, GreetingFirst
  <2> QED
    BY <2>1, <2>2
<1>15. GreetingRead'
  <2> SUFFICES ASSUME NEW f \in Ends, Active(f), NEW p \in DOMAIN pipe'[link[f]][Other(f)]
               PROVE  pipe'[link[f]][Other(f)][p] \in Plain
    BY <1>1, <1>11 DEF GreetingRead
  <2>1. link[f] \in Connections /\ Other(f) \in Ends
    BY EstablishedFacts, EndFacts
  <2>2. link[f] # link[e] \/ Other(f) # e
    BY <1>1, <1>2 DEF Ungreeted
  <2>3. pipe'[link[f]][Other(f)] = pipe[link[f]][Other(f)]
    BY <1>4, <2>1, <2>2
  <2> QED
    BY <2>3 DEF Base, GreetingRead
<1> QED
  BY <1>7, <1>8, <1>9, <1>10, <1>12, <1>13, <1>14, <1>15 DEF Base

LEMMA InitBase == Init => Base
<1> SUFFICES ASSUME Init PROVE Base
  OBVIOUS
<1>1. /\ \A e \in Ends : /\ state[e] = "disconnected" /\ link[e] = 0 /\ session[e] = FALSE
                         /\ call[e] = Idle /\ got[e] = <<>>
      /\ \A c \in Connections, e \in Ends : pipe[c][e] = <<>> /\ begun[c][e] = <<>>
      /\ waiting = 0 /\ made = 0
  BY DEF Init
<1>2. LinksOK
  <2>1. 0 \in 0 .. MaxConnections
    BY WebSocketAssumption
  <2> QED
    BY <1>1, <2>1 DEF Init, LinksOK, States
<1>3. StreamsOK
  <2>1. <<>> \in Seq(Pieces) /\ <<>> \in Seq(Plain) /\ <<>> \in Seq(Numbers)
    OBVIOUS
  <2>2. NoMessage \in [on : BOOLEAN, bytes : Seq(Plain)]
    BY DEF NoMessage
  <2> QED
    BY <2>1, <2>2 DEF Init, StreamsOK
<1>4. ReadersOK
  <2>1. <<>> \in Seq(Messages) /\ "none" \in Refusals /\ Idle \in Calls
    BY SomeCalls DEF Refusals
  <2>2. NoMessage \in [on : BOOLEAN, bytes : Seq(Plain)]
    BY DEF NoMessage
  <2> QED
    BY <2>1, <2>2 DEF Init, ReadersOK
<1>5. CallsInPlace
  <2>1. Idle.op = "none" /\ Idle # Handshake /\ Idle # Responding
    BY ShowsNoPart DEF Idle
  <2> QED
    BY <1>1, <2>1, EndFacts DEF CallsInPlace
<1>6. NewAreEmpty /\ WaitingIsNew
  BY <1>1 DEF NewAreEmpty, WaitingIsNew
<1>7. ServerGreets
  BY <1>1, ShowsNoPart, EndFacts DEF ServerGreets
<1>8. GreetingFirst /\ GreetingRead
  <2>1. \A e \in Ends : ~Active(e)
    BY <1>1, ShowsNoPart DEF Active
  <2>2. \A c \in Connections, e \in Ends : DOMAIN pipe[c][e] = {}
    BY <1>1
  <2> QED
    BY <2>1, <2>2 DEF GreetingFirst, GreetingRead
<1> QED
  BY <1>2, <1>3, <1>4, <1>5, <1>6, <1>7, <1>8 DEF Base

\* What is left unchanged.
LEMMA BaseKept ==
    ASSUME Base, UNCHANGED <<state, link, session, waiting, made, inbound, pipe, begun, rest,
                             pings, call, partial, got, excess>>
    PROVE  Base'
<1>1. LinksOK' /\ StreamsOK' /\ ReadersOK'
  BY DEF Base, LinksOK, StreamsOK, ReadersOK
<1>2. CallsInPlace' /\ NewAreEmpty'
  BY DEF Base, CallsInPlace, NewAreEmpty
<1>3. \A c : Ungreeted(c) => Ungreeted(c)'
  BY DEF Ungreeted, Active
<1>4. WaitingIsNew' /\ ServerGreets'
  <2>1. PICK k, l : k = waiting /\ l = link[Server]
    OBVIOUS
  <2> QED
    BY <1>3, <2>1 DEF Base, WaitingIsNew, ServerGreets
<1>5. GreetingFirst' /\ GreetingRead'
  BY DEF Base, GreetingFirst, GreetingRead, Active
<1> QED
  BY <1>1, <1>2, <1>4, <1>5 DEF Base

LEMMA NextBase == Base /\ [Next]_vars => Base'
<1> SUFFICES ASSUME Base, [Next]_vars PROVE Base'
  OBVIOUS
<1>1. CASE Connect
  BY <1>1, ConnectLeaves, LeavesBase, ConnectBase, EndFacts
<1>2. CASE Listen
  BY <1>2, ListenLeaves, LeavesBase, EndFacts
<1>3. CASE Accept
  BY <1>3, AcceptBase
<1>4. CASE Break
  BY <1>4, BaseKept DEF Break, reader, writer
<1>5. ASSUME NEW e \in Ends, Send(e) \/ SendMore(e) \/ Ping(e) PROVE Base'
  BY <1>5, SendWrites, SendMoreWrites, PingWrites, WritesBase
<1>6. ASSUME NEW e \in Ends, Close(e) \/ HandshakeFails(e) \/ CloseBack(e) PROVE Base'
  BY <1>6, CloseLeaves, HandshakeFailsLeaves, CloseBackLeaves, LeavesBase DEF Departs
<1>7. ASSUME NEW e \in Ends, Receive(e) \/ ReadHead(e) \/ ReadPayload(e) \/ ReadFails(e) PROVE Base'
  BY <1>7, ReceiveBase, ReadHeadBase, ReadPayloadBase, ReadFailsBase
<1>8. ASSUME NEW e \in Ends, Pong(e) PROVE Base'
  BY <1>8, PongBase, PongWrites, WritesBase
<1>9. ASSUME NEW e \in Ends, ReadGreeting(e) \/ Respond(e) PROVE Base'
  BY <1>9, ReadGreetingBase, RespondBase
<1>10. CASE UNCHANGED vars
  BY <1>10, BaseKept DEF vars, tcp, sockets, reader, writer
<1> QED
  BY <1>1, <1>2, <1>3, <1>4, <1>5, <1>6, <1>7, <1>8, <1>9, <1>10 DEF Next, Step

-----------------------------------------------------------------------------
(* What each end sees of its connection                                     *)

\* A call that reads frames, or will once the greeting is read; no frame was
\* refused, after which anything may be taken for a head.
Reading(e) == (call[e] = Handshake \/ Active(e)) /\ excess[e] # "frame"

\* The head that has been read, and where the reader stands in the stream.
Pending(e) == IF call[e].op = "payload" THEN call[e].head ELSE Greeting
First(e) == IF call[e].op = "payload" THEN 0 ELSE 1
\* A new connection begins with the first byte that comes from it.
Ahead(e) == IF call[e] = Handshake THEN pipe[link[e]][Other(e)] ELSE Stream(e)
Sent(e) == begun[link[e]][Other(e)]
Count(e) == Cardinality(Regular(e, link[e]))
\* Its peer may write what it will read.
Joined(e) == state[e] = "connected" /\ state[Other(e)] = "connected" /\ link[e] = link[Other(e)]

Sees(e, v) ==
    /\ v.pending = Pending(e) /\ v.first = First(e)
    /\ v.ahead = Ahead(e) /\ v.sent = Sent(e)
    /\ v.count = Count(e) /\ v.partial = partial[e]
    /\ v.rest = rest[Other(e)]
    /\ v.clear = (excess[e] = "none") /\ v.joined = Joined(e)

Watched(e) == Reading(e) => \E v \in Views : Sees(e, v) /\ Follows(v)

AllSee == \A e \in Ends : Reading(e) => \E v \in Views : Sees(e, v)

\* The messages of an end from one connection are finitely many.
LEMMA RegularFinite ==
    ASSUME NEW e \in Ends, got[e] \in Seq(Messages), NEW c
    PROVE  /\ IsFiniteSet(Regular(e, c)) /\ Cardinality(Regular(e, c)) \in Nat
           /\ Regular(e, c) \subseteq 1 .. Len(got[e])
<1>1. Regular(e, c) \subseteq 1 .. Len(got[e])
  BY DEF Regular
<1>2. IsFiniteSet(1 .. Len(got[e]))
  BY FS_Interval
<1>3. IsFiniteSet(Regular(e, c))
  BY <1>1, <1>2, FS_Subset
<1> QED
  BY <1>1, <1>3, FS_CardinalityType

LEMMA SeenNow == Base => AllSee
<1> SUFFICES ASSUME Base, NEW e \in Ends, Reading(e)
             PROVE  \E v \in Views : Sees(e, v)
  BY DEF AllSee
<1>1. /\ LinksOK /\ StreamsOK /\ ReadersOK /\ CallsInPlace
  BY DEF Base
<1>2. Other(e) \in Ends
  BY EndFacts
<1>3. link[e] \in Connections
  <2>1. Active(e) \/ call[e] # Idle
    BY ShowsNoPart DEF Reading
  <2> QED
    BY <2>1, EstablishedFacts
<1>4. call[e] \in Calls
  BY <1>1 DEF ReadersOK
<1>5. Pending(e) \in Openings /\ First(e) \in {0, 1}
  BY <1>4, CallFacts DEF Pending, First, Openings, Short
<1>6. pipe[link[e]][Other(e)] \in Seq(Pieces) /\ inbound[e] \in Seq(Plain)
  BY <1>1, <1>2, <1>3 DEF StreamsOK
<1>7. Ahead(e) \in Seq(Pieces)
  <2>1. inbound[e] \in Seq(Pieces)
    BY <1>6, PlainPieces
  <2>2. inbound[e] \o pipe[link[e]][Other(e)] \in Seq(Pieces)
    BY <1>6, <2>1, ConcatProperties
  <2> QED
    BY <1>6, <2>1, <2>2 DEF Ahead, Stream
<1>8. Sent(e) \in Seq(Numbers)
  BY <1>1, <1>2, <1>3 DEF StreamsOK, Sent
<1>9. Count(e) \in Nat
  BY <1>1, RegularFinite DEF ReadersOK, Count
<1>10. /\ partial[e] \in [on : BOOLEAN, bytes : Seq(Plain)]
       /\ rest[Other(e)] \in [on : BOOLEAN, bytes : Seq(Plain)]
  BY <1>1, <1>2 DEF ReadersOK, StreamsOK
<1>11. (excess[e] = "none") \in BOOLEAN /\ Joined(e) \in BOOLEAN
  BY DEF Joined
<1>12. \E v \in Views : /\ v.pending = Pending(e) /\ v.first = First(e) /\ v.ahead = Ahead(e)
                        /\ v.sent = Sent(e) /\ v.count = Count(e) /\ v.partial = partial[e]
                        /\ v.rest = rest[Other(e)] /\ v.clear = (excess[e] = "none")
                        /\ v.joined = Joined(e)
  <2>1. PICK p \in Openings, f \in {0, 1}, s \in Seq(Pieces), b \in Seq(Numbers), k \in Nat :
          p = Pending(e) /\ f = First(e) /\ s = Ahead(e) /\ b = Sent(e) /\ k = Count(e)
    BY <1>5, <1>7, <1>8, <1>9
  <2>2. PICK m \in [on : BOOLEAN, bytes : Seq(Plain)],
             r \in [on : BOOLEAN, bytes : Seq(Plain)] : m = partial[e] /\ r = rest[Other(e)]
    BY <1>10
  <2>3. PICK c \in BOOLEAN, j \in BOOLEAN : c = (excess[e] = "none") /\ j = Joined(e)
    BY <1>11
  <2> DEFINE v == [pending |-> p, first |-> f, ahead |-> s, sent |-> b, count |-> k,
                   partial |-> m, rest |-> r, clear |-> c, joined |-> j]
  <2>4. v \in Views
    BY DEF Views
  <2> QED
    BY <2>1, <2>2, <2>3, <2>4
<1> QED
  BY <1>12 DEF Sees

LEMMA SeenNext == Base' => AllSee'
  BY SeenNow, PTL

\* The peer of an end.
LEMMA PeerFacts ==
    ASSUME NEW e \in Ends, NEW f, f = Other(e)
    PROVE  f \in Ends /\ f # e /\ Other(f) = e /\ \A d \in Ends : d = e \/ d = f
  BY EndFacts

LEMMA CountKept ==
    ASSUME NEW e \in Ends, got'[e] = got[e], NEW c
    PROVE  Regular(e, c)' = Regular(e, c)
<1>1. PICK g : g = got[e] /\ g = got'[e]
  OBVIOUS
<1>2. Regular(e, c) = {i \in DOMAIN g : g[i].on = c /\ g[i].after = "none"}
  BY <1>1 DEF Regular
<1>3. Regular(e, c)' = {i \in DOMAIN g : g[i].on = c /\ g[i].after = "none"}
  BY <1>1 DEF Regular
<1> QED
  BY <1>2, <1>3

\* Views before and after a step.
LEMMA Looks ==
    ASSUME Base', NEW e \in Ends, Watched(e), Reading(e), Reading(e)'
    PROVE  \E v \in Views, w \in Views : Sees(e, v) /\ Follows(v) /\ Sees(e, w)'
<1>1. \E v \in Views : Sees(e, v) /\ Follows(v)
  BY DEF Watched
<1>2. \E w \in Views : Sees(e, w)'
  BY SeenNext DEF AllSee
<1> QED
  BY <1>1, <1>2

LEMMA Looked ==
    ASSUME NEW e \in Ends, NEW w \in Views, Sees(e, w)', Follows(w)
    PROVE  Watched(e)'
  BY DEF Watched

\* An end whose view of its connection stays as it was.
LEMMA SameView ==
    ASSUME Base', NEW e \in Ends, Watched(e),
           Reading(e)' =>
              /\ Reading(e)
              /\ Pending(e)' = Pending(e) /\ First(e)' = First(e)
              /\ Ahead(e)' = Ahead(e) /\ Sent(e)' = Sent(e) /\ Count(e)' = Count(e)
              /\ partial'[e] = partial[e] /\ excess'[e] = excess[e]
              /\ Joined(e)' => Joined(e) /\ rest'[Other(e)] = rest[Other(e)]
    PROVE  Watched(e)'
<1> SUFFICES ASSUME Reading(e)'
             PROVE  Watched(e)'
  BY DEF Watched
<1>1. PICK v \in Views, w \in Views : Sees(e, v) /\ Follows(v) /\ Sees(e, w)'
  BY Looks
<1>2. /\ w.pending = v.pending /\ w.first = v.first /\ w.ahead = v.ahead /\ w.sent = v.sent
      /\ w.count = v.count /\ w.partial = v.partial
  BY <1>1 DEF Sees
<1>3. w.clear => v.clear
  BY <1>1 DEF Sees
<1>4. w.joined => v.joined /\ w.rest = v.rest
  BY <1>1 DEF Sees
<1>5. Follows(w)
  BY <1>1, <1>2, <1>3, <1>4, ViewKept
<1> QED
  BY <1>1, <1>5, Looked

\* A step of its peer f that neither writes nor begins a message.
LEMMA PeerStep ==
    ASSUME Base, Base', NEW e \in Ends, Watched(e), NEW f, f = Other(e),
           call'[e] = call[e], session'[e] = session[e], state'[e] = state[e], link'[e] = link[e],
           inbound'[e] = inbound[e], partial'[e] = partial[e], got'[e] = got[e],
           excess'[e] = excess[e],
           Reading(e) => /\ pipe'[link[e]][f] = pipe[link[e]][f]
                         /\ begun'[link[e]][f] = begun[link[e]][f],
           Joined(e)' => state[f] = "connected" /\ link[f] = link[e] /\ rest'[f] = rest[f]
    PROVE  Watched(e)'
<1> SUFFICES ASSUME Reading(e)'
             PROVE  /\ Reading(e)
                    /\ Pending(e)' = Pending(e) /\ First(e)' = First(e)
                    /\ Ahead(e)' = Ahead(e) /\ Sent(e)' = Sent(e) /\ Count(e)' = Count(e)
                    /\ partial'[e] = partial[e] /\ excess'[e] = excess[e]
                    /\ Joined(e)' => Joined(e) /\ rest'[Other(e)] = rest[Other(e)]
  BY SameView
<1>1. Reading(e)
  BY DEF Reading, Active
<1>2. Pending(e)' = Pending(e) /\ First(e)' = First(e)
  BY DEF Pending, First
<1>3. Ahead(e)' = Ahead(e) /\ Sent(e)' = Sent(e)
  BY <1>1 DEF Ahead, Sent, Stream
<1>4. Count(e)' = Count(e)
  <2>1. PICK c : c = link[e]
    OBVIOUS
  <2>2. Regular(e, c)' = Regular(e, c)
    BY CountKept
  <2> QED
    BY <2>1, <2>2 DEF Count
<1>5. Joined(e)' => Joined(e) /\ rest'[Other(e)] = rest[Other(e)]
  BY DEF Joined
<1> QED
  BY <1>1, <1>2, <1>3, <1>4, <1>5

\* Its peer f writes t, the first pieces of a frame with head x, and may begin
\* a message with it.
LEMMA PeerWrites ==
    ASSUME Base, Base', NEW e \in Ends, Watched(e), NEW f, f = Other(e),
           call'[e] = call[e], session'[e] = session[e], state'[e] = state[e], link'[e] = link[e],
           inbound'[e] = inbound[e], partial'[e] = partial[e], got'[e] = got[e],
           excess'[e] = excess[e],
           state[f] = "connected", link[f] \in Connections,
           NEW x \in Openings, NEW t \in Seq(Pieces), Len(t) <= Span(x) + 1,
           Len(t) > 0 => t[1] = x, pipe' = Wrote(f, t),
           \A c \in Connections, g \in Ends : c # link[f] \/ g # f => begun'[c][g] = begun[c][g],
           NEW b, b = begun[link[f]][f], NEW d, d = begun'[link[f]][f], Extends(b, d),
           Joined(e)' => link[f] = link[e],
           Carrying(b, rest[f], x, t, d),
           Joined(e)' => Completing(b, rest[f], x, t, d, rest'[f])
    PROVE  Watched(e)'
<1> SUFFICES ASSUME Reading(e)'
             PROVE  Watched(e)'
  BY DEF Watched
<1>1. Reading(e)
  BY DEF Reading, Active
<1>2. PICK v \in Views, w \in Views : Sees(e, v) /\ Follows(v) /\ Sees(e, w)'
  BY <1>1, Looks
<1>3. f \in Ends /\ f # e
  BY PeerFacts
<1>4. link[e] \in Connections
  <2>1. Active(e) \/ call[e] # Idle
    BY <1>1, ShowsNoPart DEF Reading
  <2> QED
    BY <2>1, EstablishedFacts
<1>5. w.pending = v.pending /\ w.first = v.first
  BY <1>2 DEF Sees, Pending, First
<1>6. w.partial = v.partial /\ (w.clear => v.clear)
  BY <1>2 DEF Sees
<1>7. w.count = v.count
  <2>1. PICK c : c = link[e]
    OBVIOUS
  <2>2. Regular(e, c)' = Regular(e, c)
    BY CountKept
  <2> QED
    BY <1>2, <2>1, <2>2 DEF Count, Sees
<1>8. /\ pipe'[link[f]][f] = pipe[link[f]][f] \o t
      /\ link[e] # link[f] => pipe'[link[e]][f] = pipe[link[e]][f]
      /\ pipe[link[e]][f] \in Seq(Pieces) /\ inbound[e] \in Seq(Pieces)
  <2>1. StreamsOK
    BY DEF Base
  <2>2. pipe[link[e]][f] \in Seq(Pieces) /\ inbound[e] \in Seq(Pieces)
    BY <1>3, <1>4, <2>1, PlainPieces DEF StreamsOK
  <2> QED
    BY <1>3, <1>4, <2>1, <2>2, WriteType
<1>9. CASE Joined(e)
  <2>1. link[e] = link[f] /\ state[e] = "connected"
    BY <1>9 DEF Joined
  <2>2. w.ahead = v.ahead \o t
    <3>1. pipe'[link[e]][f] = pipe[link[e]][f] \o t
      BY <1>8, <2>1
    <3>2. Ahead(e)' = Ahead(e) \o t
      <4>1. CASE call[e] = Handshake
        BY <3>1, <4>1 DEF Ahead
      <4>2. CASE call[e] # Handshake
        <5>1. /\ Ahead(e) = inbound[e] \o pipe[link[e]][f]
              /\ Ahead(e)' = inbound[e] \o (pipe[link[e]][f] \o t)
          BY <2>1, <3>1, <4>2 DEF Ahead, Stream
        <5>2. \A r \in Seq(Pieces) : \A s \in Seq(Pieces) : r \o (s \o t) = (r \o s) \o t
          BY ConcatAssociative
        <5>3. inbound[e] \o (pipe[link[e]][f] \o t) = (inbound[e] \o pipe[link[e]][f]) \o t
          BY <1>8, <5>2
        <5> QED
          BY <5>1, <5>3
      <4> QED
        BY <4>1, <4>2
    <3> QED
      BY <1>2, <3>2 DEF Sees
  <2>3. v.sent = b /\ w.sent = d /\ v.rest = rest[f] /\ w.rest = rest'[f] /\ v.joined
    BY <1>2, <1>9, <2>1 DEF Sees, Sent
  <2>4. w.joined = Joined(e)'
    BY <1>2 DEF Sees
  <2>5. /\ Carrying(v.sent, v.rest, x, t, w.sent)
        /\ w.joined => Completing(v.sent, v.rest, x, t, w.sent, w.rest)
        /\ Extends(v.sent, w.sent)
    BY <2>3, <2>4
  <2>6. Follows(w)
    BY <1>2, <1>5, <1>6, <1>7, <2>2, <2>3, <2>5, ViewWritten
  <2> QED
    BY <1>2, <2>6, Looked
<1>10. CASE ~Joined(e)
  <2>1. link[e] # link[f] \/ state[e] # "connected"
    BY <1>10 DEF Joined
  <2>2. ~Joined(e)'
    BY <2>1 DEF Joined
  <2>3. Ahead(e)' = Ahead(e)
    <3>1. CASE link[e] # link[f]
      BY <1>8, <3>1 DEF Ahead, Stream
    <3>2. CASE state[e] # "connected"
      <4>1. call[e] # Handshake
        BY <3>2 DEF Base, CallsInPlace
      <4> QED
        BY <3>2, <4>1 DEF Ahead, Stream
    <3> QED
      BY <2>1, <3>1, <3>2
  <2>4. Extends(Sent(e), Sent(e)')
    <3>1. CASE link[e] = link[f]
      BY <3>1 DEF Sent
    <3>2. CASE link[e] # link[f]
      <4>1. Sent(e)' = Sent(e)
        BY <1>3, <1>4, <3>2 DEF Sent
      <4> QED
        BY <4>1 DEF Extends
    <3> QED
      BY <3>1, <3>2
  <2>5. /\ w.ahead = v.ahead /\ Extends(v.sent, w.sent) /\ ~w.joined
    BY <1>2, <2>2, <2>3, <2>4 DEF Sees
  <2>6. Follows(w)
    BY <1>2, <1>5, <1>6, <1>7, <2>5, ViewLonger
  <2> QED
    BY <1>2, <2>6, Looked
<1> QED
  BY <1>9, <1>10

LEMMA WritesSeen ==
    ASSUME Base, Base', NEW e \in Ends, Watched(e), NEW f, f = Other(e),
           NEW x, NEW bytes, Writes(f, x, bytes)
    PROVE  Watched(e)'
<1>1. /\ f \in Ends /\ f # e
  BY PeerFacts
<1>2. /\ GoesOnWith(f) /\ session[f]
      /\ x \in Heads /\ bytes \in Seq(Plain) /\ x.size = Len(bytes)
      /\ SendFrame(f, <<x>> \o bytes)
      /\ UNCHANGED <<inbound, partial, got, excess>>
      /\ \A c \in Connections, g \in Ends : c # link[f] \/ g # f => begun'[c][g] = begun[c][g]
      /\ Extends(begun[link[f]][f], begun'[link[f]][f])
      /\ Proceeds(begun[link[f]][f], rest[f], x, bytes, begun'[link[f]][f], rest'[f])
  BY DEF Writes, GoesOnWith
<1>3. /\ <<x>> \o bytes \in Seq(Plain)
      /\ Len(<<x>> \o bytes) = Len(bytes) + 1
      /\ (<<x>> \o bytes)[1] = x
      /\ \A i \in 1 .. Len(bytes) : (<<x>> \o bytes)[i + 1] = bytes[i]
  BY <1>2, WritesFrame
<1>12. PICK frame : frame = <<x>> \o bytes
  OBVIOUS
<1>13. /\ frame \in Seq(Plain) /\ SendFrame(f, frame)
       /\ Len(frame) = Len(bytes) + 1 /\ frame[1] = x
       /\ \A i \in 1 .. Len(bytes) : frame[i + 1] = bytes[i]
  BY <1>2, <1>3, <1>12
<1>21. PICK t \in Seq(Plain) : Went(f, frame, t)
  BY <1>1, <1>13, SendFrameEffect
<1>4. /\ t \in Seq(Plain) /\ pipe' = Wrote(f, t)
      /\ Len(t) <= Len(frame) /\ \A i \in 1 .. Len(t) : t[i] = frame[i]
      /\ \/ state' = state /\ Len(t) = Len(frame)
         \/ state' = [state EXCEPT ![f] = "failed"]
  BY <1>21 DEF Went
<1>5. state[f] = "connected" /\ state \in [Ends -> States] /\ link[f] \in Connections
  <2>1. state[f] = "connected"
    BY <1>1, <1>13, SendFrameEffect
  <2>2. link[f] \in Connections
    BY <1>1, <2>1, EstablishedFacts
  <2> QED
    BY <2>1, <2>2 DEF Base, LinksOK
<1>6. /\ call'[e] = call[e] /\ session'[e] = session[e] /\ link'[e] = link[e] /\ link'[f] = link[f]
      /\ state'[e] = state[e]
      /\ inbound'[e] = inbound[e] /\ partial'[e] = partial[e] /\ got'[e] = got[e]
      /\ excess'[e] = excess[e]
  BY <1>1, <1>2, <1>4, <1>5 DEF GoesOnWith
<1>7. /\ x \in Openings /\ Span(x) = Len(bytes) /\ Len(bytes) \in Nat
  <2>1. x # Greeting
    BY <1>2, PieceFacts
  <2> QED
    BY <1>2, <2>1 DEF Openings, Span
<1>8. /\ t \in Seq(Pieces) /\ Len(t) \in Nat /\ Len(t) <= Span(x) + 1
      /\ Len(t) > 0 => t[1] = x
  BY <1>13, <1>4, <1>7, PlainPieces
<1>9. PICK b, d : b = begun[link[f]][f] /\ d = begun'[link[f]][f]
  OBVIOUS
<1>10. Proceeds(b, rest[f], x, bytes, d, rest'[f]) /\ Extends(b, d)
  BY <1>2, <1>9
<1>11. Carrying(b, rest[f], x, t, d)
  <2> SUFFICES ASSUME NEW a \in Marks, WriterStands(b, rest[f], a), Carries(x)
               PROVE  /\ GoesOn(x, a, d)
                      /\ \A i \in 1 .. x.size : i < Len(t) =>
                            t[i + 1] = Byte(d[a.done + 1], a.had + i)
    BY DEF Carrying
  <2>1. /\ GoesOn(x, a, d)
        /\ \A i \in 1 .. x.size : bytes[i] = Byte(d[a.done + 1], a.had + i)
    BY <1>10 DEF Proceeds
  <2>2. ASSUME NEW i \in 1 .. x.size, i < Len(t)
        PROVE  t[i + 1] = Byte(d[a.done + 1], a.had + i)
    <3>1. i \in 1 .. Len(bytes) /\ i + 1 \in 1 .. Len(t)
      BY <1>2, <1>7, <1>8, <2>2
    <3>2. t[i + 1] = bytes[i]
      BY <1>13, <1>4, <3>1
    <3> QED
      BY <2>1, <3>2
  <2> QED
    BY <2>1, <2>2
<1>14. Joined(e)' => link[f] = link[e] /\ Completing(b, rest[f], x, t, d, rest'[f])
  <2> SUFFICES ASSUME Joined(e)'
               PROVE  link[f] = link[e] /\ Completing(b, rest[f], x, t, d, rest'[f])
    OBVIOUS
  <2>1. link[f] = link[e] /\ state'[f] = "connected"
    BY <1>6 DEF Joined
  <2>2. Len(t) = Span(x) + 1
    BY <1>1, <1>13, <1>4, <1>5, <1>7, <2>1
  <2>3. \A a \in Marks : WriterStands(b, rest[f], a) => WriterStands(d, rest'[f], Past(x, a))
    BY <1>10 DEF Proceeds
  <2> QED
    BY <2>1, <2>2, <2>3 DEF Completing
<1>15. /\ call'[e] = call[e] /\ session'[e] = session[e] /\ state'[e] = state[e]
       /\ link'[e] = link[e]
       /\ inbound'[e] = inbound[e] /\ partial'[e] = partial[e] /\ got'[e] = got[e]
       /\ excess'[e] = excess[e]
       /\ state[f] = "connected" /\ link[f] \in Connections
  BY <1>5, <1>6
<1>16. /\ x \in Openings /\ t \in Seq(Pieces) /\ Len(t) <= Span(x) + 1
       /\ Len(t) > 0 => t[1] = x
       /\ pipe' = Wrote(f, t)
       /\ b = begun[link[f]][f] /\ d = begun'[link[f]][f] /\ Extends(b, d)
       /\ \A c \in Connections, g \in Ends : c # link[f] \/ g # f => begun'[c][g] = begun[c][g]
  BY <1>2, <1>4, <1>7, <1>8, <1>9, <1>10
<1>17. /\ Joined(e)' => link[f] = link[e]
       /\ Joined(e)' => Completing(b, rest[f], x, t, d, rest'[f])
  BY <1>14
<1> QED
  BY <1>11, <1>15, <1>16, <1>17, PeerWrites

\* The other end is as it was when f leaves.
LEMMA LeavesOther ==
    ASSUME Base, NEW e \in Ends, NEW f, f = Other(e), Leaves(f), inbound'[e] = inbound[e]
    PROVE  /\ f \in Ends
           /\ call'[e] = call[e] /\ session'[e] = session[e] /\ state'[e] = state[e]
           /\ link'[e] = link[e]
           /\ inbound'[e] = inbound[e] /\ partial'[e] = partial[e] /\ got'[e] = got[e]
           /\ excess'[e] = excess[e] /\ rest' = rest /\ begun' = begun
           /\ Joined(e)' => state[f] = "connected" /\ link[f] = link[e]
<1>1. f \in Ends /\ f # e
  BY PeerFacts
<1>2. PICK s \in States, l \in {0, link[f]} :
          /\ s = "connected" => l # 0 /\ state[f] = "connected"
          /\ state' = [state EXCEPT ![f] = s] /\ link' = [link EXCEPT ![f] = l]
  BY DEF Leaves
<1>3. /\ state \in [Ends -> States] /\ link \in [Ends -> Nat] /\ session \in [Ends -> BOOLEAN]
      /\ call \in [Ends -> Calls]
  BY DEF Base, LinksOK, ReadersOK
<1>4. /\ session' = [session EXCEPT ![f] = FALSE] /\ call' = [call EXCEPT ![f] = Idle]
      /\ UNCHANGED <<partial, got, excess, rest, begun>>
  BY DEF Leaves
<1>5. /\ state'[e] = state[e] /\ link'[e] = link[e] /\ session'[e] = session[e]
      /\ call'[e] = call[e] /\ state'[f] = s /\ link'[f] = l
  BY <1>1, <1>2, <1>3, <1>4
<1>6. Joined(e)' => state[f] = "connected" /\ link[f] = link[e]
  BY <1>2, <1>5 DEF Joined
<1> QED
  BY <1>1, <1>4, <1>5, <1>6

LEMMA PeerLeaves ==
    ASSUME Base, Base', NEW e \in Ends, Watched(e), NEW f, f = Other(e), Leaves(f),
           inbound'[e] = inbound[e], pipe' = pipe
    PROVE  Watched(e)'
<1>1. /\ call'[e] = call[e] /\ session'[e] = session[e] /\ state'[e] = state[e]
      /\ link'[e] = link[e]
      /\ inbound'[e] = inbound[e] /\ partial'[e] = partial[e] /\ got'[e] = got[e]
      /\ excess'[e] = excess[e] /\ rest' = rest /\ begun' = begun
      /\ Joined(e)' => state[f] = "connected" /\ link[f] = link[e]
  BY LeavesOther
<1> QED
  BY <1>1, PeerStep

LEMMA PeerDeparts ==
    ASSUME Base, Base', NEW e \in Ends, Watched(e), NEW f, f = Other(e), Departs(f),
           inbound'[e] = inbound[e]
    PROVE  Watched(e)'
<1>1. Leaves(f) /\ state'[f] # "connected"
  BY DEF Departs
<1>2. CASE pipe' = pipe
  BY <1>1, <1>2, PeerLeaves
<1>3. CASE state[f] = "connected" /\ Farewell(f)
  <2>1. /\ call'[e] = call[e] /\ session'[e] = session[e] /\ state'[e] = state[e]
        /\ link'[e] = link[e]
        /\ inbound'[e] = inbound[e] /\ partial'[e] = partial[e] /\ got'[e] = got[e]
        /\ excess'[e] = excess[e] /\ rest' = rest /\ begun' = begun
        /\ state[f] = "connected" /\ link[f] \in Connections
    BY <1>1, <1>3, LeavesOther, EstablishedFacts
  <2>2. PICK x \in Heads, t \in Seq(Plain) :
          /\ ~Carries(x) /\ Len(t) <= x.size + 1
          /\ Len(t) > 0 => t[1] = x
          /\ pipe' = Wrote(f, t)
    BY <1>3 DEF Farewell
  <2>3. x # Greeting
    BY <2>2, PieceFacts
  <2>4. /\ x \in Openings /\ t \in Seq(Pieces) /\ Len(t) <= Span(x) + 1
        /\ Len(t) > 0 => t[1] = x
        /\ pipe' = Wrote(f, t)
    BY <2>2, <2>3, PlainPieces DEF Openings, Span
  <2>5. PICK b : b = begun[link[f]][f]
    OBVIOUS
  <2>6. /\ b = begun'[link[f]][f] /\ Extends(b, b)
        /\ \A c \in Connections, g \in Ends : c # link[f] \/ g # f => begun'[c][g] = begun[c][g]
    BY <2>1, <2>5 DEF Extends
  <2>7. Carrying(b, rest[f], x, t, b) /\ ~Joined(e)'
    BY <1>1, <2>2 DEF Carrying, Joined
  <2> QED
    BY <2>1, <2>4, <2>5, <2>6, <2>7, PeerWrites
<1> QED
  BY <1>1, <1>2, <1>3 DEF Departs

\* Its peer f reads from the other stream, or goes on with its call.
LEMMA PeerReads ==
    ASSUME Base, Base', NEW e \in Ends, Watched(e), NEW f, f = Other(e), Read(f),
           call'[e] = call[e], session'[e] = session[e], partial'[e] = partial[e],
           got'[e] = got[e], excess'[e] = excess[e],
           UNCHANGED <<link, begun, rest>>,
           state' = state \/ state' = [state EXCEPT ![f] = "failed"]
    PROVE  Watched(e)'
<1>1. f \in Ends /\ f # e /\ Other(f) = e
  BY PeerFacts
<1>2. state'[e] = state[e] /\ (state'[f] = "connected" => state[f] = "connected")
  BY <1>1 DEF Base, LinksOK
<1>3. link'[e] = link[e] /\ inbound'[e] = inbound[e]
  BY <1>1 DEF Read
<1>4. Reading(e) => /\ pipe'[link[e]][f] = pipe[link[e]][f]
                    /\ begun'[link[e]][f] = begun[link[e]][f]
  <2> SUFFICES ASSUME Reading(e)
               PROVE  pipe'[link[e]][f] = pipe[link[e]][f]
    OBVIOUS
  <2>1. Active(e) \/ call[e] # Idle
    BY ShowsNoPart DEF Reading
  <2>2. link[e] \in Connections
    BY <2>1, EstablishedFacts
  <2> QED
    BY <1>1, <2>2 DEF Read
<1>5. Joined(e)' => state[f] = "connected" /\ link[f] = link[e] /\ rest'[f] = rest[f]
  BY <1>2 DEF Joined
<1> QED
  BY <1>2, <1>3, <1>4, <1>5, PeerStep

-----------------------------------------------------------------------------
(* Messages in turn                                                         *)

\* The messages g[i], i in R, are the first ones of b.
Ordered(R, g, b) ==
    \A i \in R : LET k == Cardinality({j \in R : j <= i})
                 IN  k \in DOMAIN b /\ g[i].bytes = Message(b[k])

LEMMA InTurnOrdered ==
    MessagesInTurn <=>
        \A e \in Ends, c \in Connections : Ordered(Regular(e, c), got[e], begun[c][Other(e)])
  BY DEF MessagesInTurn, Ordered

LEMMA InTurnNext ==
    (MessagesInTurn <=>
        \A e \in Ends, c \in Connections : Ordered(Regular(e, c), got[e], begun[c][Other(e)]))'
  BY InTurnOrdered, PTL

LEMMA OrderedLonger ==
    ASSUME NEW R, NEW g, NEW b, NEW c, Ordered(R, g, b), Extends(b, c)
    PROVE  Ordered(R, g, c)
<1> SUFFICES ASSUME NEW i \in R
             PROVE  LET k == Cardinality({j \in R : j <= i})
                    IN  k \in DOMAIN c /\ g[i].bytes = Message(c[k])
  BY DEF Ordered
<1>1. PICK k : k = Cardinality({j \in R : j <= i})
  OBVIOUS
<1>2. k \in DOMAIN b /\ g[i].bytes = Message(b[k])
  BY <1>1 DEF Ordered
<1> QED
  BY <1>1, <1>2 DEF Extends

\* Nothing of an empty stream.
LEMMA OrderedNone ==
    ASSUME NEW R, NEW g, NEW b, Ordered(R, g, b), b = <<>>
    PROVE  R = {}
<1> SUFFICES ASSUME NEW i \in R PROVE FALSE
  OBVIOUS
<1>1. PICK k : k = Cardinality({j \in R : j <= i})
  OBVIOUS
<1>2. k \in DOMAIN b
  BY <1>1 DEF Ordered
<1> QED
  BY <1>2

\* One more message.
LEMMA OrderedMore ==
    ASSUME NEW n \in Nat, NEW R, R \subseteq 1 .. n, NEW g, NEW b, Ordered(R, g, b),
           NEW h, \A i \in 1 .. n : h[i] = g[i],
           NEW k, k = Cardinality(R) + 1, k \in DOMAIN b, h[n + 1].bytes = Message(b[k])
    PROVE  Ordered(R \cup {n + 1}, h, b)
<1> SUFFICES ASSUME NEW i \in R \cup {n + 1}
             PROVE  LET m == Cardinality({j \in R \cup {n + 1} : j <= i})
                    IN  m \in DOMAIN b /\ h[i].bytes = Message(b[m])
  BY DEF Ordered
<1>1. IsFiniteSet(R)
  <2>1. IsFiniteSet(1 .. n)
    BY FS_Interval
  <2> QED
    BY <2>1, FS_Subset
<1>2. CASE i \in R
  <2>1. i \in 1 .. n
    BY <1>2
  <2>2. {j \in R \cup {n + 1} : j <= i} = {j \in R : j <= i}
    BY <2>1
  <2>3. PICK m : m = Cardinality({j \in R : j <= i})
    OBVIOUS
  <2>4. m \in DOMAIN b /\ g[i].bytes = Message(b[m])
    BY <1>2, <2>3 DEF Ordered
  <2> QED
    BY <2>1, <2>2, <2>3, <2>4
<1>3. CASE i = n + 1
  <2>1. {j \in R \cup {n + 1} : j <= i} = R \cup {n + 1}
    <3>1. \A j \in R \cup {n + 1} : j <= n + 1
      OBVIOUS
    <3> QED
      BY <1>3, <3>1
  <2>2. n + 1 \notin R
    OBVIOUS
  <2>3. Cardinality(R \cup {n + 1}) = Cardinality(R) + 1
    BY <1>1, <2>2, FS_AddElement
  <2> QED
    BY <1>3, <2>1, <2>3
<1> QED
  BY <1>2, <1>3

\* No message came from a connection on which none was sent.
LEMMA NoneFrom ==
    ASSUME Base, MessagesInTurn, NEW e \in Ends, NEW c \in Connections,
           begun[c][Other(e)] = <<>>
    PROVE  Regular(e, c) = {}
<1>1. Ordered(Regular(e, c), got[e], begun[c][Other(e)])
  BY InTurnOrdered
<1> QED
  BY <1>1, OrderedNone

\* A step in which nothing is returned.
LEMMA InTurnKept ==
    ASSUME MessagesInTurn, got' = got,
           \A c \in Connections, e \in Ends : Extends(begun[c][e], begun'[c][e])
    PROVE  MessagesInTurn'
<1> SUFFICES ASSUME NEW e \in Ends, NEW c \in Connections
             PROVE  Ordered(Regular(e, c)', got'[e], begun'[c][Other(e)])
  BY InTurnNext
<1>1. Ordered(Regular(e, c), got[e], begun[c][Other(e)])
  BY InTurnOrdered
<1>2. Regular(e, c)' = Regular(e, c)
  BY CountKept
<1>3. PICK R, g, b, d : /\ R = Regular(e, c) /\ g = got[e]
                        /\ b = begun[c][Other(e)] /\ d = begun'[c][Other(e)]
  OBVIOUS
<1>4. Ordered(R, g, b) /\ Extends(b, d)
  BY <1>1, <1>3, EndFacts
<1>5. Ordered(R, g, d)
  BY <1>4, OrderedLonger
<1> QED
  BY <1>2, <1>3, <1>5

-----------------------------------------------------------------------------
(* Views after each step                                                    *)

LEMMA NoMessageFacts == ~NoMessage.on
  BY DEF NoMessage

\* Nothing was sent yet but perhaps a greeting.
LEMMA FreshView ==
    ASSUME Base', NEW e \in Ends,
           Reading(e)' =>
              /\ First(e)' = 1 /\ Ahead(e)' \in {<<>>, <<Greeting>>} /\ Sent(e)' = <<>>
              /\ Count(e)' = 0 /\ (Joined(e)' => ~rest'[Other(e)].on)
    PROVE  Watched(e)'
<1> SUFFICES ASSUME Reading(e)'
             PROVE  Watched(e)'
  BY DEF Watched
<1>1. PICK w \in Views : Sees(e, w)'
  BY SeenNext DEF AllSee
<1>2. /\ w.first = 1 /\ w.ahead \in {<<>>, <<Greeting>>} /\ w.sent = <<>> /\ w.count = 0
      /\ w.joined => ~w.rest.on
  BY <1>1 DEF Sees
<1>3. Follows(w)
  BY <1>2, ViewFresh
<1> QED
  BY <1>1, <1>3, Looked

LEMMA FirstPlace ==
    ASSUME NEW e \in Ends
    PROVE  call[e].op # "payload" => First(e) = 1 /\ Pending(e) = Greeting
  BY DEF First, Pending

LEMMA HandshakeFacts ==
    /\ Handshake.op # "payload" /\ Idle.op # "payload" /\ NextFrame.op # "payload"
    /\ Responding.op # "payload"
    /\ \A op \in {"pong", "close"} : \A b : Answering(op, b).op # "payload"
    /\ \A h : Payload(h).op = "payload" /\ Payload(h).head = h
    /\ \A h : Payload(h) # Idle /\ Payload(h) # NextFrame
  BY DEF Handshake, Idle, NextFrame, Responding, Answering, Payload

LEMMA EmptyCount ==
    ASSUME NEW e \in Ends, NEW c, c = link'[e], Regular(e, c)' = {}
    PROVE  Count(e)' = 0
<1>1. Cardinality({}) = 0
  BY FS_EmptySet
<1> QED
  BY <1>1 DEF Count

\* connect: the new connection is empty,
LEMMA ConnectSeen ==
    ASSUME Base, Base', Connect
    PROVE  Watched(Client)'
<1>1. Client \in Ends /\ Server \in Ends /\ Client # Server /\ Other(Client) = Server
  BY EndFacts
<1>2. /\ session \in [Ends -> BOOLEAN] /\ call \in [Ends -> Calls] /\ link \in [Ends -> Nat]
      /\ state \in [Ends -> States] /\ made \in Nat /\ link[Server] <= made
      /\ excess \in [Ends -> Refusals]
  BY <1>1 DEF Base, LinksOK, ReadersOK
<1>3. CASE made' = made
  <2>1. Leaves(Client)
    BY <1>3, ConnectLeaves
  <2>2. session'[Client] = FALSE /\ call'[Client] = Idle
    BY <1>1, <1>2, <2>1 DEF Leaves
  <2> QED
    BY <2>2, ShowsNoPart DEF Watched, Reading, Active
<1>4. CASE made' # made
  <2>1. /\ call[Client] = Idle /\ session' = [session EXCEPT ![Client] = FALSE]
        /\ UNCHANGED <<inbound, partial, got, begun, pings>>
        /\ made' = made + 1 /\ waiting' = made + 1 /\ made + 1 \in Connections
        /\ \/ /\ state' = [state EXCEPT ![Client] = "failed"]
              /\ UNCHANGED <<link, pipe, call, excess, rest>>
           \/ /\ state' = [state EXCEPT ![Client] = "connected"]
              /\ link' = [link EXCEPT ![Client] = made + 1]
              /\ pipe' = [pipe EXCEPT ![made + 1][Client] = <<Greeting>>]
              /\ call' = [call EXCEPT ![Client] = Handshake]
    BY <1>4, ConnectMade
  <2>2. session'[Client] = FALSE
    BY <1>1, <1>2, <2>1
  <2>3. CASE UNCHANGED call
    BY <2>1, <2>2, <2>3, ShowsNoPart DEF Watched, Reading, Active
  <2>4. CASE /\ link' = [link EXCEPT ![Client] = made + 1]
             /\ pipe' = [pipe EXCEPT ![made + 1][Client] = <<Greeting>>]
             /\ call' = [call EXCEPT ![Client] = Handshake]
    <3>0. PICK c \in Connections : c = made + 1
      BY <2>1
    <3>1. link'[Client] = c /\ link'[Server] = link[Server] /\ call'[Client] = Handshake
      BY <1>1, <1>2, <2>4, <3>0
    <3>2. pipe[c][Server] = <<>> /\ begun[c][Server] = <<>>
      <4>1. c > made
        BY <1>2, <3>0
      <4> QED
        BY <1>1, <4>1 DEF Base, NewAreEmpty
    <3>3. pipe'[c][Server] = <<>>
      <4>1. StreamsOK /\ <<Greeting>> \in Seq(Pieces)
        <5>1. Greeting \in Pieces
          BY PieceFacts
        <5> QED
          BY <5>1 DEF Base
      <4>2. \A d \in Connections, g \in Ends : d # c \/ g # Client => pipe'[d][g] = pipe[d][g]
        <5>1. Replaces(c, Client, <<Greeting>>)
          BY <2>4, <3>0 DEF Replaces
        <5>2. Replaced(c, Client, <<Greeting>>)
          BY <1>1, <3>0, <4>1, <5>1, ReplaceType
        <5> QED
          BY <5>2 DEF Replaced
      <4> QED
        BY <1>1, <3>2, <4>2
    <3>4. Ahead(Client)' = <<>> /\ Sent(Client)' = <<>> /\ First(Client)' = 1
      BY <1>1, <2>1, <3>1, <3>2, <3>3, HandshakeFacts DEF Ahead, Sent, First
    <3>5. Regular(Client, c)' = {}
      <4>1. \A i \in DOMAIN got[Client] : got[Client][i].on \in Nat /\ got[Client][i].on <= made
        BY <1>1, GotFrom
      <4>2. \A i \in DOMAIN got[Client] : got[Client][i].on # c
        BY <1>2, <3>0, <4>1
      <4>3. Regular(Client, c) = {}
        BY <4>2 DEF Regular
      <4> QED
        BY <1>1, <2>1, <4>3, CountKept
    <3>6. Count(Client)' = 0
      BY <1>1, <3>1, <3>5, EmptyCount
    <3>7. ~Joined(Client)'
      <4>1. link[Server] # c /\ link'[Server] # c
        BY <1>1, <1>2, <3>0, <3>1
      <4> QED
        BY <1>1, <3>1, <4>1 DEF Joined
    <3> QED
      BY <1>1, <3>4, <3>6, <3>7, FreshView
  <2> QED
    BY <2>1, <2>3, <2>4
<1> QED
  BY <1>3, <1>4

\* and not the server's.
LEMMA PeerConnects ==
    ASSUME Base, Base', Watched(Server), Connect
    PROVE  Watched(Server)'
<1>1. Client \in Ends /\ Server \in Ends /\ Client # Server /\ Other(Server) = Client
  BY EndFacts
<1>2. /\ session \in [Ends -> BOOLEAN] /\ call \in [Ends -> Calls] /\ link \in [Ends -> Nat]
      /\ state \in [Ends -> States] /\ made \in Nat /\ link[Server] <= made
      /\ excess \in [Ends -> Refusals]
  BY <1>1 DEF Base, LinksOK, ReadersOK
<1>3. CASE made' = made
  <2>1. Leaves(Client) /\ pipe' = pipe /\ inbound'[Server] = inbound[Server]
    BY <1>3, ConnectLeaves DEF Connect
  <2> QED
    BY <1>1, <2>1, PeerLeaves
<1>4. CASE made' # made
  <2>1. /\ session' = [session EXCEPT ![Client] = FALSE]
        /\ UNCHANGED <<inbound, partial, got, begun, pings>>
        /\ made + 1 \in Connections
        /\ \/ /\ state' = [state EXCEPT ![Client] = "failed"]
              /\ UNCHANGED <<link, pipe, call, excess, rest>>
           \/ /\ state' = [state EXCEPT ![Client] = "connected"]
              /\ link' = [link EXCEPT ![Client] = made + 1]
              /\ pipe' = [pipe EXCEPT ![made + 1][Client] = <<Greeting>>]
              /\ call' = [call EXCEPT ![Client] = Handshake]
              /\ excess' = [excess EXCEPT ![Client] = "none"]
    BY <1>4, ConnectMade
  <2>2. /\ session'[Server] = session[Server] /\ state'[Server] = state[Server]
        /\ call'[Server] = call[Server] /\ link'[Server] = link[Server]
        /\ inbound'[Server] = inbound[Server] /\ partial'[Server] = partial[Server]
        /\ got'[Server] = got[Server] /\ excess'[Server] = excess[Server]
    BY <1>1, <1>2, <2>1
  <2>3. ~Joined(Server)'
    <3>1. CASE state' = [state EXCEPT ![Client] = "failed"]
      <4>1. state'[Client] = "failed"
        BY <1>1, <1>2, <3>1
      <4> QED
        BY <1>1, <4>1 DEF Joined
    <3>2. CASE link' = [link EXCEPT ![Client] = made + 1]
      <4>1. link'[Client] = made + 1 /\ link'[Server] # made + 1
        BY <1>1, <1>2, <3>2
      <4> QED
        BY <1>1, <4>1 DEF Joined
    <3> QED
      BY <2>1, <3>1, <3>2
  <2>4. Reading(Server) => /\ pipe'[link[Server]][Client] = pipe[link[Server]][Client]
                           /\ begun'[link[Server]][Client] = begun[link[Server]][Client]
    <3> SUFFICES ASSUME Reading(Server)
                 PROVE  pipe'[link[Server]][Client] = pipe[link[Server]][Client]
      BY <2>1
    <3>1. CASE UNCHANGED pipe
      BY <3>1
    <3>2. CASE pipe' = [pipe EXCEPT ![made + 1][Client] = <<Greeting>>]
      <4>0. PICK c \in Connections : c = made + 1
        BY <2>1
      <4>1. Active(Server) \/ call[Server] # Idle
        BY ShowsNoPart DEF Reading
      <4>2. link[Server] \in Connections
        BY <1>1, <4>1, EstablishedFacts
      <4>3. StreamsOK /\ <<Greeting>> \in Seq(Pieces)
        <5>1. Greeting \in Pieces
          BY PieceFacts
        <5> QED
          BY <5>1 DEF Base
      <4>4. \A d \in Connections, g \in Ends : d # c \/ g # Client => pipe'[d][g] = pipe[d][g]
        <5>1. Replaces(c, Client, <<Greeting>>)
          BY <3>2, <4>0 DEF Replaces
        <5>2. Replaced(c, Client, <<Greeting>>)
          BY <1>1, <4>0, <4>3, <5>1, ReplaceType
        <5> QED
          BY <5>2 DEF Replaced
      <4>5. link[Server] # c
        BY <1>2, <4>0
      <4> QED
        BY <1>1, <4>2, <4>4, <4>5
    <3> QED
      BY <2>1, <3>1, <3>2
  <2> QED
    BY <1>1, <2>2, <2>3, <2>4, PeerStep
<1> QED
  BY <1>3, <1>4

\* accept: the connection of the client, which may be gone, has carried the
\* request at most.
LEMMA AcceptSeen ==
    ASSUME Base, Base', Accept
    PROVE  Watched(Server)'
<1>1. Client \in Ends /\ Server \in Ends /\ Client # Server /\ Other(Server) = Client
  BY EndFacts
<1>2. /\ call \in [Ends -> Calls] /\ link \in [Ends -> Nat]
      /\ state \in [Ends -> States] /\ waiting \in Nat /\ waiting <= made
      /\ rest \in [Ends -> [on : BOOLEAN, bytes : Seq(Plain)]]
  BY <1>1 DEF Base, LinksOK, ReadersOK, StreamsOK
<1>3. /\ call[Server] = Idle /\ waiting # 0
      /\ link' = [link EXCEPT ![Server] = waiting]
      /\ call' = [call EXCEPT ![Server] = Handshake]
      /\ rest' = [rest EXCEPT ![Server] = NoMessage]
      /\ UNCHANGED <<made, session, inbound, partial, got, pipe, begun, pings>>
  BY AcceptFacts
<1>4. PICK c : c = waiting
  OBVIOUS
<1>5. /\ link'[Server] = c /\ link'[Client] = link[Client] /\ call'[Server] = Handshake
      /\ rest'[Client] = rest[Client]
  BY <1>1, <1>2, <1>3, <1>4
<1>6. /\ Ungreeted(c) /\ \A i \in DOMAIN got[Server] : got[Server][i].on # c
  BY <1>3, <1>4 DEF Base, WaitingIsNew
<1>7. /\ pipe[c][Client] \in {<<>>, <<Greeting>>} /\ begun[c][Client] = <<>>
      /\ link[Client] = c => ~rest[Client].on
  BY <1>1, <1>6 DEF Ungreeted
<1>8. Ahead(Server)' \in {<<>>, <<Greeting>>} /\ Sent(Server)' = <<>> /\ First(Server)' = 1
  BY <1>1, <1>3, <1>5, <1>7, HandshakeFacts DEF Ahead, Sent, First
<1>9. Count(Server)' = 0
  <2>1. Regular(Server, c) = {}
    BY <1>6 DEF Regular
  <2>2. Regular(Server, c)' = {}
    BY <1>1, <1>3, <2>1, CountKept
  <2> QED
    BY <1>1, <1>5, <2>2, EmptyCount
<1>10. Joined(Server)' => ~rest'[Client].on
  BY <1>1, <1>5, <1>7 DEF Joined
<1> QED
  BY <1>1, <1>8, <1>9, <1>10, FreshView

LEMMA PeerAccepts ==
    ASSUME Base, Base', MessagesInTurn, Watched(Client), Accept
    PROVE  Watched(Client)'
<1>1. Client \in Ends /\ Server \in Ends /\ Client # Server /\ Other(Client) = Server
  BY EndFacts
<1>2. /\ call \in [Ends -> Calls] /\ link \in [Ends -> Nat]
      /\ state \in [Ends -> States] /\ waiting \in Nat /\ waiting <= made
      /\ excess \in [Ends -> Refusals]
      /\ rest \in [Ends -> [on : BOOLEAN, bytes : Seq(Plain)]]
  BY <1>1 DEF Base, LinksOK, ReadersOK, StreamsOK
<1>3. /\ waiting # 0
      /\ link' = [link EXCEPT ![Server] = waiting]
      /\ state' = [state EXCEPT ![Server] = "connected"]
      /\ call' = [call EXCEPT ![Server] = Handshake]
      /\ excess' = [excess EXCEPT ![Server] = "none"]
      /\ rest' = [rest EXCEPT ![Server] = NoMessage]
      /\ UNCHANGED <<made, session, inbound, partial, got, pipe, begun, pings>>
  BY AcceptFacts
<1>4. PICK c \in Connections : c = waiting
  <2>1. waiting \in 1 .. made
    BY <1>2, <1>3 DEF Base, LinksOK
  <2> QED
    BY <2>1, ConnectionFacts DEF Base
<1>5. /\ call'[Client] = call[Client] /\ session'[Client] = session[Client]
      /\ state'[Client] = state[Client] /\ link'[Client] = link[Client]
      /\ inbound'[Client] = inbound[Client] /\ partial'[Client] = partial[Client]
      /\ got'[Client] = got[Client] /\ excess'[Client] = excess[Client]
      /\ link'[Server] = c /\ rest'[Server] = NoMessage
  BY <1>1, <1>2, <1>3, <1>4
<1>6. CASE link[Client] # c
  <2>1. ~Joined(Client)'
    BY <1>1, <1>5, <1>6 DEF Joined
  <2> QED
    BY <1>1, <1>3, <1>5, <2>1, PeerStep
<1>7. CASE link[Client] = c
  <2>1. Ungreeted(c)
    BY <1>3, <1>4 DEF Base, WaitingIsNew
  <2>2. /\ pipe[c][Server] = <<>> /\ begun[c][Server] = <<>> /\ ~Active(Client)
    BY <1>1, <1>7, <2>1 DEF Ungreeted
  <2>3. Regular(Client, c)' = {}
    <3>1. Regular(Client, c) = {}
      BY <1>1, <2>2, NoneFrom
    <3> QED
      BY <1>1, <1>3, <3>1, CountKept
  <2>4. Count(Client)' = 0
    BY <1>1, <1>5, <1>7, <2>3, EmptyCount
  <2>5. Reading(Client)' => call'[Client] = Handshake
    BY <1>5, <2>2 DEF Reading, Active
  <2>6. Reading(Client)' =>
            /\ First(Client)' = 1 /\ Ahead(Client)' \in {<<>>, <<Greeting>>}
            /\ Sent(Client)' = <<>>
    BY <1>1, <1>3, <1>5, <1>7, <2>2, <2>5, HandshakeFacts DEF First, Ahead, Sent
  <2>7. ~rest'[Server].on
    BY <1>5, NoMessageFacts
  <2> QED
    BY <1>1, <2>4, <2>6, <2>7, FreshView
<1> QED
  BY <1>6, <1>7

\* listen, and the ends of a connection.
LEMMA LeavesSeen ==
    ASSUME Base, NEW e \in Ends, Leaves(e)
    PROVE  Watched(e)'
<1>1. session \in [Ends -> BOOLEAN] /\ call \in [Ends -> Calls]
  BY DEF Base, LinksOK, ReadersOK
<1>2. session'[e] = FALSE /\ call'[e] = Idle
  BY <1>1 DEF Leaves
<1> QED
  BY <1>2, ShowsNoPart DEF Watched, Reading, Active

\* The server answers: nothing changes before it,
LEMMA RespondSeen ==
    ASSUME Base, Base', NEW e \in Ends, Watched(e), Respond(e)
    PROVE  Watched(e)'
<1>1. /\ e = Server /\ call[e] = Responding /\ link[e] \in Connections
      /\ pipe' = [pipe EXCEPT ![link[e]][e] = <<Greeting>>]
      /\ call' = [call EXCEPT ![e] = Idle]
      /\ UNCHANGED <<tcp, reader, writer, breaks>>
  BY RespondFacts
<1>2. /\ Other(e) \in Ends /\ Other(e) # e
  BY EndFacts
<1>3. /\ UNCHANGED <<state, link, inbound, partial, got, excess, rest, begun>>
  BY <1>1 DEF tcp, reader, writer
<1>4. call'[e] = Idle
  BY DEF Base, ReadersOK, Respond, Return
<1>5. pipe'[link[e]][Other(e)] = pipe[link[e]][Other(e)]
  <2>1. StreamsOK /\ <<Greeting>> \in Seq(Pieces)
    <3>1. Greeting \in Pieces
      BY PieceFacts
    <3> QED
      BY <3>1 DEF Base
  <2>2. PICK c \in Connections : c = link[e]
    BY <1>1
  <2>3. \A d \in Connections, g \in Ends : d # c \/ g # e => pipe'[d][g] = pipe[d][g]
    <3>1. Replaces(c, e, <<Greeting>>)
      BY <1>1, <2>2 DEF Replaces
    <3>2. Replaced(c, e, <<Greeting>>)
      BY <1>1, <2>1, <2>2, <3>1, ReplaceType
    <3> QED
      BY <3>2 DEF Replaced
  <2> QED
    BY <1>2, <2>2, <2>3
<1>6. /\ Pending(e)' = Pending(e) /\ First(e)' = First(e)
  BY <1>1, <1>4, HandshakeFacts DEF Pending, First
<1>7. Ahead(e)' = Ahead(e) /\ Sent(e)' = Sent(e)
  BY <1>1, <1>3, <1>4, <1>5, ShowsNoPart DEF Ahead, Stream, Sent
<1>8. Count(e)' = Count(e)
  <2>1. PICK c : c = link[e]
    OBVIOUS
  <2>2. Regular(e, c)' = Regular(e, c)
    BY <1>3, CountKept
  <2> QED
    BY <1>3, <2>1, <2>2 DEF Count
<1>9. Reading(e)' => Reading(e)
  BY <1>1, <1>3 DEF Reading, Active
<1>10. Joined(e)' => Joined(e) /\ rest'[Other(e)] = rest[Other(e)]
  BY <1>3 DEF Joined
<1> QED
  BY <1>3, <1>6, <1>7, <1>8, <1>9, <1>10, SameView

\* but for the client.
LEMMA PeerResponds ==
    ASSUME Base, Base', NEW e \in Ends, Watched(e), NEW f, f = Other(e), Respond(f)
    PROVE  Watched(e)'
<1>1. f \in Ends /\ f # e
  BY PeerFacts
<1>2. /\ call[f] = Responding /\ link[f] \in Connections
      /\ session' = [session EXCEPT ![f] = TRUE]
      /\ call' = [call EXCEPT ![f] = Idle]
      /\ UNCHANGED <<tcp, reader, writer, breaks>>
  BY <1>1, RespondFacts
<1>3. UNCHANGED <<state, link, inbound, partial, got, excess, rest, begun>>
  BY <1>2 DEF tcp, reader, writer
<1>4. /\ session \in [Ends -> BOOLEAN] /\ call \in [Ends -> Calls]
  BY DEF Base, LinksOK, ReadersOK
<1>5. /\ call'[e] = call[e] /\ session'[e] = session[e]
  BY <1>1, <1>2, <1>4
<1>6. pipe' = Wrote(f, <<Greeting>>) /\ state[f] = "connected"
  BY DEF Respond, CanWrite
<1>7. PICK x, t : x = Greeting /\ t = <<Greeting>>
  OBVIOUS
<1>8. /\ x \in Openings /\ Span(x) = 0 /\ ~Carries(x)
      /\ t \in Seq(Pieces) /\ Len(t) = 1 /\ t[1] = x
  BY <1>7, PieceFacts DEF Openings, Span, Carries
<1>9. PICK b : b = begun[link[f]][f]
  OBVIOUS
<1>10. Carrying(b, rest[f], x, t, b)
  BY <1>8 DEF Carrying
<1>11. Completing(b, rest[f], x, t, b, rest'[f])
  <2>1. \A a : Past(x, a) = a
    BY <1>8 DEF Past
  <2>2. rest'[f] = rest[f]
    BY <1>3
  <2> QED
    BY <1>8, <2>1, <2>2 DEF Completing
<1>12. CASE link[f] = link[e]
  <2>1. /\ b = begun'[link[f]][f] /\ Extends(b, b)
        /\ \A c \in Connections, g \in Ends : c # link[f] \/ g # f => begun'[c][g] = begun[c][g]
    BY <1>3, <1>9 DEF Extends
  <2>2. Len(t) <= Span(x) + 1 /\ pipe' = Wrote(f, t)
    BY <1>6, <1>7, <1>8
  <2> QED
    BY <1>2, <1>3, <1>5, <1>6, <1>8, <1>9, <1>10, <1>11, <1>12, <2>1, <2>2, PeerWrites
<1>13. CASE link[f] # link[e]
  <2>1. ~Joined(e)'
    BY <1>3, <1>13 DEF Joined
  <2>2. Reading(e) => pipe'[link[e]][f] = pipe[link[e]][f]
    <3> SUFFICES ASSUME Reading(e) PROVE pipe'[link[e]][f] = pipe[link[e]][f]
      OBVIOUS
    <3>1. Active(e) \/ call[e] # Idle
      BY ShowsNoPart DEF Reading
    <3>2. link[e] \in Connections
      BY <3>1, EstablishedFacts
    <3>3. pipe' = Wrote(f, t) /\ StreamsOK
      BY <1>6, <1>7 DEF Base
    <3> QED
      BY <1>1, <1>2, <1>8, <1>13, <3>2, <3>3, WriteType
  <2> QED
    BY <1>3, <1>5, <2>1, <2>2, PeerStep
<1> QED
  BY <1>12, <1>13

\* The greeting is read; what follows it is still to come.
LEMMA GreetingSeen ==
    ASSUME Base, Base', NEW e \in Ends, Watched(e), ReadGreeting(e)
    PROVE  Watched(e)'
<1> SUFFICES ASSUME Reading(e)'
             PROVE  Watched(e)'
  BY DEF Watched
<1>1. /\ call[e] = Handshake /\ link[e] \in Connections /\ state[e] = "connected"
      /\ call' = [call EXCEPT ![e] = IF e = Server THEN Responding ELSE Idle]
      /\ UNCHANGED <<state, link, sockets, partial, got, excess, writer>>
      /\ \E s, k : Greeted(e, s, k)
  BY ReadGreetingFacts
<1>2. PICK s, k : Greeted(e, s, k)
  BY <1>1
<1>3. PICK f : f = Other(e) /\ f \in Ends /\ f # e
  BY EndFacts
<1>4. PICK c \in Connections : c = link[e]
  BY <1>1
<1>5. Reading(e)
  BY <1>1 DEF Reading
<1>6. PICK v \in Views, w \in Views : Sees(e, v) /\ Follows(v) /\ Sees(e, w)'
  BY <1>5, Looks
<1>7. call'[e] \in {Responding, Idle}
  BY <1>1 DEF Base, ReadersOK
<1>8. v.first = 1 /\ w.first = 1
  BY <1>1, <1>6, <1>7, HandshakeFacts DEF Sees, First
<1>9. v.ahead = s /\ v.ahead # <<>> /\ v.ahead[1] = Greeting
  BY <1>1, <1>2, <1>6 DEF Sees, Ahead, Greeted
<1>10. PICK q, r : q = SubSeq(s, 2, k) /\ r = SubSeq(s, k + 1, Len(s))
  OBVIOUS
<1>11. /\ s \in Seq(Pieces) /\ k \in Nat /\ 1 <= k /\ k <= Len(s)
       /\ q \in Seq(Plain) /\ Len(q) = k - 1
       /\ \A i \in 1 .. k - 1 : q[i] = s[i + 1]
       /\ inbound' = [inbound EXCEPT ![e] = q]
       /\ pipe' = [pipe EXCEPT ![c][f] = r]
  BY <1>2, <1>3, <1>4, <1>10 DEF Greeted
<1>12. /\ r \in Seq(Pieces) /\ Len(r) = Len(s) - k
       /\ \A i \in 1 .. Len(s) - k : r[i] = s[i + k]
  BY <1>10, <1>11, Part
<1>13. inbound'[e] = q /\ pipe'[c][f] = r
  <2>1. StreamsOK /\ inbound \in [Ends -> Seq(Plain)]
    BY DEF Base, StreamsOK
  <2> QED
    <3>1. Replaces(c, f, r)
      BY <1>11 DEF Replaces
    <3>2. Replaced(c, f, r)
      BY <1>3, <1>11, <1>12, <2>1, <3>1, ReplaceType
    <3>3. inbound'[e] = q
      BY <1>3, <1>11, <2>1
    <3> QED
      BY <3>2, <3>3 DEF Replaced
<1>14. w.ahead = q \o r
  <2>1. Ahead(e)' = q \o r
    BY <1>1, <1>3, <1>4, <1>7, <1>13, ShowsNoPart DEF Ahead, Stream
  <2> QED
    BY <1>6, <2>1 DEF Sees
<1>15. /\ Len(q \o r) = Len(q) + Len(r)
       /\ \A i \in 1 .. Len(q) + Len(r) : (q \o r)[i] = IF i <= Len(q) THEN q[i] ELSE r[i - Len(q)]
  <2>1. q \in Seq(Pieces)
    BY <1>11, PlainPieces
  <2> QED
    BY <1>12, <2>1, ConcatProperties
<1>16. /\ Len(w.ahead) + 1 = Len(v.ahead)
       /\ \A i \in 1 .. Len(w.ahead) : w.ahead[i] = v.ahead[i + 1]
  <2>1. Len(s) \in Nat /\ Len(q) = k - 1 /\ Len(r) = Len(s) - k /\ Len(q \o r) = Len(s) - 1
    BY <1>11, <1>12, <1>15
  <2>2. ASSUME NEW i \in 1 .. Len(s) - 1 PROVE (q \o r)[i] = s[i + 1]
    <3>1. (q \o r)[i] = IF i <= k - 1 THEN q[i] ELSE r[i - (k - 1)]
      BY <1>11, <1>15, <2>1
    <3>2. CASE i <= k - 1
      BY <1>11, <3>1, <3>2
    <3>3. CASE ~(i <= k - 1)
      <4>1. PICK j \in 1 .. Len(s) - k : j = i - (k - 1) /\ j + k = i + 1
        BY <1>11, <2>1, <3>3
      <4> QED
        BY <1>12, <3>1, <3>3, <4>1
    <3> QED
      BY <3>2, <3>3
  <2> QED
    BY <1>9, <1>14, <2>1, <2>2
<1>17. /\ w.partial = v.partial /\ (w.clear => v.clear) /\ w.sent = v.sent
       /\ (w.joined => v.joined /\ w.rest = v.rest)
  <2>1. /\ excess' = excess /\ partial' = partial /\ rest' = rest /\ begun' = begun
        /\ state' = state /\ link' = link
    BY <1>1 DEF writer
  <2> QED
    BY <1>6, <2>1 DEF Sees, Sent, Joined
<1>18. w.count = v.count
  <2>1. Regular(e, c)' = Regular(e, c)
    BY <1>1, CountKept
  <2> QED
    BY <1>1, <1>4, <1>6, <2>1 DEF Count, Sees
<1>19. Follows(w)
  BY <1>6, <1>8, <1>9, <1>16, <1>17, <1>18, ViewGreeted
<1> QED
  BY <1>6, <1>19, Looked

\* An end that sends, or that begins to receive; its connection may fail, and
\* with it what it had still to read.
LEMMA GoesOnSeen ==
    ASSUME Base, Base', NEW e \in Ends, Watched(e), GoesOnWith(e),
           UNCHANGED <<inbound, partial, got, excess>>,
           call[e].op # "payload", call'[e].op # "payload",
           pipe'[link[e]][Other(e)] = pipe[link[e]][Other(e)],
           begun'[link[e]][Other(e)] = begun[link[e]][Other(e)],
           rest'[Other(e)] = rest[Other(e)]
    PROVE  Watched(e)'
<1> SUFFICES ASSUME Reading(e)'
             PROVE  Watched(e)'
  BY DEF Watched
<1>1. /\ session[e] /\ session' = session /\ link' = link
      /\ state' = state \/ state' = [state EXCEPT ![e] = "failed"]
      /\ call'[e] # Handshake /\ call'[e] # Responding
      /\ call[e] # Handshake
  BY SessionCalls DEF GoesOnWith
<1>2. Reading(e)
  BY <1>1 DEF Reading, Active
<1>3. PICK v \in Views, w \in Views : Sees(e, v) /\ Follows(v) /\ Sees(e, w)'
  BY <1>2, Looks
<1>4. w.pending = v.pending /\ w.first = v.first
  BY <1>3 DEF Sees, Pending, First
<1>5. w.sent = v.sent /\ w.partial = v.partial /\ (w.clear => v.clear)
  BY <1>1, <1>3 DEF Sees, Sent
<1>6. w.count = v.count
  <2>1. PICK c : c = link[e]
    OBVIOUS
  <2>2. Regular(e, c)' = Regular(e, c)
    BY CountKept
  <2> QED
    BY <1>1, <1>3, <2>1, <2>2 DEF Count, Sees
<1>7. CASE state' = state
  <2>1. w.ahead = v.ahead /\ (w.joined => v.joined /\ w.rest = v.rest)
    BY <1>1, <1>3, <1>7 DEF Sees, Ahead, Stream, Joined
  <2>2. Follows(w)
    BY <1>3, <1>4, <1>5, <1>6, <2>1, ViewKept
  <2> QED
    BY <1>3, <2>2, Looked
<1>8. CASE state' = [state EXCEPT ![e] = "failed"]
  <2>1. state'[e] = "failed"
    BY <1>8 DEF Base, LinksOK
  <2>2. w.ahead = inbound[e] /\ ~w.joined
    BY <1>1, <1>3, <2>1 DEF Sees, Ahead, Stream, Joined
  <2>3. /\ Len(w.ahead) <= Len(v.ahead)
        /\ \A i \in 1 .. Len(w.ahead) : w.ahead[i] = v.ahead[i]
    <3>1. CASE state[e] = "connected"
      <4>1. link[e] \in Connections /\ Other(e) \in Ends
        BY <3>1, EstablishedFacts, EndFacts
      <4>2. pipe[link[e]][Other(e)] \in Seq(Pieces) /\ inbound[e] \in Seq(Pieces)
        BY <4>1, PlainPieces DEF Base, StreamsOK
      <4>3. v.ahead = inbound[e] \o pipe[link[e]][Other(e)]
        BY <1>1, <1>3, <3>1 DEF Sees, Ahead, Stream
      <4>4. PICK a \in Seq(Pieces), b \in Seq(Pieces) :
              a = inbound[e] /\ b = pipe[link[e]][Other(e)]
        BY <4>2
      <4>5. /\ Len(a \o b) = Len(a) + Len(b)
            /\ \A i \in 1 .. Len(a) + Len(b) : (a \o b)[i] = IF i <= Len(a) THEN a[i] ELSE b[i - Len(a)]
        BY ConcatProperties
      <4>6. Len(a) \in Nat /\ Len(b) \in Nat
        OBVIOUS
      <4>7. Len(a) <= Len(a \o b) /\ \A i \in 1 .. Len(a) : (a \o b)[i] = a[i]
        BY <4>5, <4>6
      <4> QED
        BY <2>2, <4>3, <4>4, <4>7
    <3>2. CASE state[e] # "connected"
      <4>1. v.ahead = inbound[e]
        BY <1>1, <1>3, <3>2 DEF Sees, Ahead, Stream
      <4>2. Len(v.ahead) \in Nat
        BY ViewType
      <4> QED
        BY <2>2, <4>1, <4>2
    <3> QED
      BY <3>1, <3>2
  <2>4. Follows(w)
    BY <1>3, <1>4, <1>5, <1>6, <2>2, <2>3, ViewCut
  <2> QED
    BY <1>3, <2>4, Looked
<1> QED
  BY <1>1, <1>7, <1>8

\* The next piece that a reader between two frames has before it.
LEMMA NextOpens ==
    ASSUME NEW v \in Views, Follows(v), v.first = 1, v.ahead # <<>>
    PROVE  v.ahead[1] \in Openings
<1>1. PICK F : Chain(v.pending, v.ahead, v.sent, F) /\ v.first \in DOMAIN F
  BY DEF Follows
<1>2. 1 \in DOMAIN F /\ 1 <= Len(v.ahead)
  <2>1. v.ahead \in Seq(Pieces) /\ Len(v.ahead) \in Nat /\ Len(v.ahead) # 0
    BY ViewType, EmptySeq
  <2> QED
    BY <1>1, <2>1
<1>3. Piece(v.pending, v.ahead, 1) = v.ahead[1]
  BY DEF Piece
<1> QED
  BY <1>1, <1>2, <1>3 DEF Chain, Right

LEMMA NextHead ==
    ASSUME Base, NEW e \in Ends, Active(e), NEW v \in Views, Follows(v), v.first = 1,
           v.ahead = Stream(e), v.ahead # <<>>
    PROVE  v.ahead[1] \in Heads /\ Head(Stream(e)) = v.ahead[1]
<1>1. v.ahead[1] \in Openings
  BY NextOpens
<1>2. Stream(e) \in Seq(Plain)
  BY StreamPlain
<1>3. v.ahead[1] \in Plain
  <2>1. Len(Stream(e)) \in Nat /\ Len(Stream(e)) # 0
    BY <1>2, EmptySeq
  <2> QED
    BY <1>2, <2>1
<1>4. v.ahead[1] \in Heads
  BY <1>1, <1>3, PieceFacts DEF Openings
<1> QED
  BY <1>2, <1>4

\* A frame's head is read for what it is.
LEMMA HeadSeen ==
    ASSUME Base, Base', NEW e \in Ends, Watched(e), ReadHead(e)
    PROVE  Watched(e)'
<1> SUFFICES ASSUME Reading(e)'
             PROVE  Watched(e)'
  BY DEF Watched
<1>1. /\ session[e] /\ call[e] = NextFrame /\ Stream(e) # <<>>
      /\ Consume(e, 1)
      /\ UNCHANGED <<state, link, sockets, session, partial, got, writer>>
      /\ \/ \E h \in Short : /\ call' = [call EXCEPT ![e] = Payload(h)]
                             /\ h \in HeadsOf(Head(Stream(e)))
                             /\ excess' = excess
         \/ /\ call' = [call EXCEPT ![e] = Idle]
            /\ excess' = [excess EXCEPT ![e] = "frame"]
  BY ReadHeadEffect
<1>2. call \in [Ends -> Calls] /\ excess \in [Ends -> Refusals] /\ StreamsOK
  BY DEF Base, ReadersOK
<1>3. PICK h \in Short : /\ call' = [call EXCEPT ![e] = Payload(h)]
                         /\ h \in HeadsOf(Head(Stream(e)))
                         /\ excess' = excess
  <2>1. excess'[e] # "frame"
    BY DEF Reading
  <2> QED
    BY <1>1, <1>2, <2>1
<1>4. call'[e] = Payload(h)
  BY <1>2, <1>3
<1>5. Active(e) /\ Reading(e)
  BY <1>1, <1>3 DEF Reading, Active
<1>6. PICK v \in Views, w \in Views : Sees(e, v) /\ Follows(v) /\ Sees(e, w)'
  BY <1>5, Looks
<1>7. v.first = 1 /\ w.first = 0 /\ w.pending = h
  BY <1>1, <1>4, <1>6, HandshakeFacts DEF Sees, First, Pending
<1>8. v.ahead = Stream(e) /\ w.ahead = Stream(e)' /\ v.ahead # <<>>
  BY <1>1, <1>4, <1>6, ShowsNoPart DEF Sees, Ahead
<1>9. w.pending = v.ahead[1]
  <2>1. v.ahead[1] \in Heads /\ Head(Stream(e)) = v.ahead[1]
    BY <1>5, <1>6, <1>7, <1>8, NextHead
  <2> QED
    BY <1>3, <1>7, <2>1 DEF HeadsOf
<1>10. /\ Len(w.ahead) + 1 = Len(v.ahead)
       /\ \A i \in 1 .. Len(w.ahead) : w.ahead[i] = v.ahead[i + 1]
  <2>1. Len(v.ahead) \in Nat /\ Len(v.ahead) # 0
    BY <1>8, ViewType, EmptySeq
  <2>2. 1 \in Nat /\ 1 <= Len(Stream(e))
    BY <1>8, <2>1
  <2>3. state[e] = "connected" => link[e] \in Connections
    BY EstablishedFacts
  <2>4. /\ Len(Stream(e)') + 1 = Len(Stream(e))
        /\ \A i \in 1 .. Len(Stream(e)') : Stream(e)'[i] = Stream(e)[i + 1]
    BY <1>1, <1>2, <2>2, <2>3, ConsumeEffect
  <2> QED
    BY <1>8, <2>4
<1>11. /\ w.sent = v.sent /\ w.partial = v.partial /\ (w.clear => v.clear)
       /\ (w.joined => v.joined /\ w.rest = v.rest)
  <2>1. /\ partial' = partial /\ rest' = rest /\ begun' = begun
        /\ state' = state /\ link' = link
    BY <1>1 DEF writer
  <2> QED
    BY <1>3, <1>6, <2>1 DEF Sees, Sent, Joined
<1>12. w.count = v.count
  <2>1. PICK c : c = link[e]
    OBVIOUS
  <2>2. Regular(e, c)' = Regular(e, c)
    BY <1>1, CountKept
  <2> QED
    BY <1>1, <1>6, <2>1, <2>2 DEF Count, Sees
<1>13. Follows(w)
  BY <1>6, <1>7, <1>8, <1>9, <1>10, <1>11, <1>12, ViewHead
<1> QED
  BY <1>6, <1>13, Looked

\* What there was is gone, and the connection.
LEMMA FailsSeen ==
    ASSUME Base, Base', NEW e \in Ends, Watched(e), ReadFails(e)
    PROVE  Watched(e)'
<1> SUFFICES ASSUME Reading(e)'
             PROVE  Watched(e)'
  BY DEF Watched
<1>1. /\ session[e] /\ call' = [call EXCEPT ![e] = Idle]
      /\ inbound' = [inbound EXCEPT ![e] = <<>>]
      /\ UNCHANGED <<link, sockets, session, partial, got, excess, writer>>
      /\ \/ state[e] # "connected" /\ UNCHANGED <<state, pipe>>
         \/ /\ state[e] = "connected" /\ state' = [state EXCEPT ![e] = "failed"]
            /\ pipe' = [pipe EXCEPT ![link[e]][Other(e)] = <<>>]
  BY ReadFailsEffect
<1>2. call'[e] = Idle /\ inbound'[e] = <<>> /\ state'[e] # "connected"
  BY <1>1 DEF Base, ReadersOK, StreamsOK, LinksOK
<1>3. Reading(e)
  BY <1>1 DEF Reading, Active
<1>4. PICK v \in Views, w \in Views : Sees(e, v) /\ Follows(v) /\ Sees(e, w)'
  BY <1>3, Looks
<1>5. w.first = 1 /\ w.ahead = <<>> /\ ~w.joined
  BY <1>2, <1>4, HandshakeFacts, ShowsNoPart DEF Sees, First, Ahead, Stream, Joined
<1>6. w.sent = v.sent /\ w.partial = v.partial /\ (w.clear => v.clear)
  <2>1. partial' = partial /\ begun' = begun /\ excess' = excess /\ link' = link
    BY <1>1 DEF writer
  <2> QED
    BY <1>4, <2>1 DEF Sees, Sent
<1>7. w.count = v.count
  <2>1. PICK c : c = link[e]
    OBVIOUS
  <2>2. Regular(e, c)' = Regular(e, c)
    BY <1>1, CountKept
  <2> QED
    BY <1>1, <1>4, <2>1, <2>2 DEF Count, Sees
<1>8. Follows(w)
  BY <1>4, <1>5, <1>6, <1>7, ViewEmptied
<1> QED
  BY <1>4, <1>8, Looked

\* What a reader has of a message after one more frame of it.
SoFar(h, p, bytes) == IF h.op = "more" THEN p.bytes \o bytes ELSE bytes

\* It is its next bytes, and what follows.
Brings(h, a, b, bytes) ==
    /\ GoesOn(h, a, b)
    /\ \A i \in 1 .. h.size : bytes[i] = Byte(b[a.done + 1], a.had + i)
Brought(k, p, b, h, a, bytes) ==
    /\ k + 1 \in DOMAIN b
    /\ h.fin => /\ SoFar(h, p, bytes) = Message(b[k + 1])
                /\ \A q : ReaderStands(k + 1, q, b, Past(h, a))
    /\ ~h.fin => \A q : q.on /\ q.bytes = SoFar(h, p, bytes) => ReaderStands(k, q, b, Past(h, a))

LEMMA Collected ==
    ASSUME NEW k \in Nat, NEW p \in [on : BOOLEAN, bytes : Seq(Plain)], NEW b \in Seq(Numbers),
           NEW a \in Marks, ReaderStands(k, p, b, a),
           NEW h \in Heads, Carries(h), NEW bytes \in Seq(Plain), Len(bytes) = h.size,
           Brings(h, a, b, bytes)
    PROVE  Brought(k, p, b, h, a, bytes)
<1>0. /\ GoesOn(h, a, b)
      /\ \A i \in 1 .. h.size : bytes[i] = Byte(b[a.done + 1], a.had + i)
  BY DEF Brings
<1>1. a.done = k /\ k + 1 \in DOMAIN b /\ a.had \in Nat /\ a.on \in BOOLEAN
  BY <1>0 DEF ReaderStands, GoesOn, Marks
<1>2. PICK n \in Numbers : n = b[k + 1]
  BY <1>1
<1>3. /\ (h.op = "more") <=> a.on
      /\ a.had + h.size <= Size(n)
      /\ h.fin => a.had + h.size = Size(n)
      /\ h.size \in Nat
  BY <1>0, <1>1, <1>2, PieceFacts DEF GoesOn
<1>4. /\ SoFar(h, p, bytes) \in Seq(Plain)
      /\ Len(SoFar(h, p, bytes)) = a.had + h.size
      /\ \A i \in 1 .. a.had + h.size : SoFar(h, p, bytes)[i] = Byte(n, i)
  <2>1. CASE h.op = "more"
    <3>1. /\ a.on /\ Len(p.bytes) = a.had /\ p.bytes \in Seq(Plain)
          /\ \A i \in 1 .. a.had : p.bytes[i] = Byte(n, i)
      BY <1>1, <1>2, <1>3, <2>1 DEF ReaderStands
    <3>2. PICK c \in Seq(Plain) : c = p.bytes
      BY <3>1
    <3>3. /\ c \o bytes \in Seq(Plain) /\ Len(c \o bytes) = Len(c) + Len(bytes)
          /\ \A i \in 1 .. Len(c) + Len(bytes) :
                (c \o bytes)[i] = IF i <= Len(c) THEN c[i] ELSE bytes[i - Len(c)]
      BY ConcatProperties
    <3>4. ASSUME NEW i \in 1 .. a.had + h.size PROVE (c \o bytes)[i] = Byte(n, i)
      <4>1. CASE i <= a.had
        <5>1. i \in 1 .. a.had
          BY <1>1, <4>1
        <5> QED
          BY <3>1, <3>2, <3>3, <4>1, <5>1
      <4>2. CASE ~(i <= a.had)
        <5>1. PICK m \in Nat : m = a.had
          BY <1>1
        <5>2. PICK d \in Nat : d = h.size
          BY <1>3
        <5>3. i \in 1 .. m + d /\ ~(i <= m)
          BY <4>2, <5>1, <5>2
        <5>4. i - m \in 1 .. d /\ m + (i - m) = i
          BY <5>3
        <5>5. i - m \in 1 .. h.size /\ m + (i - m) = i
          BY <5>2, <5>4
        <5>6. PICK j \in 1 .. h.size : j = i - a.had /\ a.had + j = i
          BY <5>1, <5>5
        <5>7. bytes[j] = Byte(n, a.had + j)
          BY <1>0, <1>1, <1>2, <5>6
        <5> QED
          BY <3>1, <3>2, <3>3, <4>2, <5>6, <5>7
      <4> QED
        BY <4>1, <4>2
    <3>5. SoFar(h, p, bytes) = c \o bytes
      BY <2>1, <3>2 DEF SoFar
    <3> QED
      BY <3>1, <3>2, <3>3, <3>4, <3>5
  <2>2. CASE h.op # "more"
    <3>1. a.had = 0 /\ a.had + h.size = h.size
      BY <1>1, <1>3, <2>2 DEF Marks
    <3>2. SoFar(h, p, bytes) = bytes
      BY <2>2 DEF SoFar
    <3>3. \A i \in 1 .. h.size : a.had + i = i
      BY <1>3, <3>1
    <3> QED
      BY <1>0, <1>1, <1>2, <3>1, <3>2, <3>3
  <2> QED
    BY <2>1, <2>2
<1>5. PICK whole \in Seq(Plain) : whole = SoFar(h, p, bytes)
  BY <1>4
<1>6. ASSUME h.fin PROVE whole = Message(n) /\ \A q : ReaderStands(k + 1, q, b, Past(h, a))
  <2>1. /\ Message(n) \in Seq(Plain) /\ Len(Message(n)) = Size(n)
        /\ \A i \in 1 .. Size(n) : Message(n)[i] = Byte(n, i)
    BY MessageFacts
  <2>2. Len(whole) = Len(Message(n)) /\ \A i \in 1 .. Len(whole) : whole[i] = Message(n)[i]
    BY <1>3, <1>4, <1>5, <1>6, <2>1
  <2>3. whole = Message(n)
    BY <2>1, <2>2, SeqEqual
  <2>4. Past(h, a) = [done |-> k + 1, had |-> 0, on |-> FALSE]
    BY <1>1, <1>6 DEF Past
  <2> QED
    BY <2>3, <2>4 DEF ReaderStands
<1>7. ASSUME ~h.fin, NEW q, q.on, q.bytes = whole
      PROVE  ReaderStands(k, q, b, Past(h, a))
  <2>1. Past(h, a) = [done |-> k, had |-> a.had + h.size, on |-> TRUE]
    BY <1>1, <1>7 DEF Past
  <2> QED
    BY <1>1, <1>2, <1>3, <1>4, <1>5, <1>7, <2>1 DEF ReaderStands
<1> QED
  BY <1>1, <1>2, <1>5, <1>6, <1>7 DEF Brought

\* What becomes of a frame that was read.
LEMMA DispatchEffect ==
    ASSUME ReadersOK, NEW e \in Ends, NEW h \in Short, NEW bytes \in Seq(Plain),
           link[e] \in Connections, Dispatch(e, h, bytes)
    PROVE  \/ /\ ~Carries(h)
              /\ got' = got /\ partial'[e] = partial[e] /\ excess' = excess
           \/ /\ Carries(h) /\ h.fin /\ excess' = excess
              /\ got' = [got EXCEPT ![e] = Append(@, [on |-> link[e], after |-> excess[e],
                                                      bytes |-> SoFar(h, partial[e], bytes)])]
           \/ /\ Carries(h) /\ ~h.fin /\ excess' = excess /\ got' = got
              /\ partial'[e].on /\ partial'[e].bytes = SoFar(h, partial[e], bytes)
           \/ got' = got /\ excess'[e] # "none"
<1>1. /\ partial \in [Ends -> [on : BOOLEAN, bytes : Seq(Plain)]] /\ excess \in [Ends -> Refusals]
      /\ h.fin \in BOOLEAN
  BY PieceFacts DEF ReadersOK, Short
<1>2. CASE h.op = "data" /\ Data(e, h.fin, bytes)
  <2>1. Carries(h) /\ SoFar(h, partial[e], bytes) = bytes
    BY <1>2 DEF Carries, SoFar
  <2>2. CASE h.fin
    BY <1>2, <2>1, <2>2 DEF Data, Deliver
  <2>3. CASE ~h.fin
    <3>1. /\ partial' = [partial EXCEPT ![e] = [on |-> TRUE, bytes |-> bytes]]
          /\ got' = got /\ excess' = excess
      BY <1>2, <2>3 DEF Data, StartWith
    <3>2. partial'[e] = [on |-> TRUE, bytes |-> bytes]
      BY <1>1, <3>1
    <3> QED
      BY <2>1, <2>3, <3>1, <3>2
  <2> QED
    BY <1>1, <2>2, <2>3
<1>3. CASE h.op = "more" /\ More(e, h.fin, bytes)
  <2>1. Carries(h) /\ SoFar(h, partial[e], bytes) = partial[e].bytes \o bytes
    BY <1>3 DEF Carries, SoFar
  <2>2. PICK whole : whole = partial[e].bytes \o bytes
    OBVIOUS
  <2>3. CASE h.fin /\ Deliver(e, whole) /\ UNCHANGED excess
    BY <2>1, <2>2, <2>3 DEF Deliver
  <2>4. CASE /\ ~h.fin /\ UNCHANGED <<got, excess>>
             /\ partial' = [partial EXCEPT ![e] = [on |-> TRUE, bytes |-> whole]]
    <3>1. partial'[e] = [on |-> TRUE, bytes |-> whole]
      BY <1>1, <2>4
    <3> QED
      BY <2>1, <2>2, <2>4, <3>1
  <2>5. CASE Refuse(e, "message") /\ UNCHANGED <<got, partial>>
    <3>1. excess'[e] # "none"
      BY <1>1, <2>5 DEF Refuse
    <3> QED
      BY <2>5, <3>1
  <2> QED
    BY <1>3, <2>2, <2>3, <2>4, <2>5 DEF More
<1>4. CASE h.op \notin {"data", "more"} /\ UNCHANGED <<got, partial, excess>>
  BY <1>4 DEF Carries
<1> QED
  BY <1>2, <1>3, <1>4 DEF Dispatch

\* What an end that reads a payload has before it.
LEMMA PayloadView ==
    ASSUME Base, NEW e \in Ends, NEW v \in Views, Sees(e, v), Follows(v), session[e],
           NEW h \in Short, call[e] = Payload(h)
    PROVE  /\ v.pending = h /\ v.first = 0 /\ v.ahead = Stream(e) /\ Span(h) = h.size
           /\ \E a \in Marks :
                 /\ v.clear => ReaderStands(v.count, v.partial, v.sent, a)
                 /\ Right(h, 0, v.ahead, a, v.sent)
<1>1. v.pending = h /\ v.first = 0 /\ v.ahead = Stream(e)
  BY HandshakeFacts, ShowsNoPart DEF Sees, First, Pending, Ahead
<1>2. Span(h) = h.size
  BY PieceFacts DEF Span, Short
<1>3. PICK F : /\ Chain(v.pending, v.ahead, v.sent, F) /\ v.first \in DOMAIN F
               /\ v.clear => ReaderStands(v.count, v.partial, v.sent, F[v.first])
  BY DEF Follows
<1>4. F[0] \in Marks /\ Right(v.pending, 0, v.ahead, F[0], v.sent)
  BY <1>1, <1>3, PendingRight
<1> QED
  BY <1>1, <1>2, <1>3, <1>4

\* The bytes read are those of the message that the frame goes on with.
LEMMA PayloadBytes ==
    ASSUME NEW s, Len(s) \in Nat, NEW h \in Heads, NEW a, NEW b, Right(h, 0, s, a, b), Carries(h),
           h.size <= Len(s), NEW bytes, \A i \in 1 .. h.size : bytes[i] = s[i]
    PROVE  /\ GoesOn(h, a, b)
           /\ \A i \in 1 .. h.size : bytes[i] = Byte(b[a.done + 1], a.had + i)
<1>1. /\ GoesOn(h, a, b)
      /\ \A i \in 1 .. h.size : 0 + i <= Len(s) => s[0 + i] = Byte(b[a.done + 1], a.had + i)
  BY DEF Right
<1>2. h.size \in Nat
  BY PieceFacts
<1>3. ASSUME NEW i \in 1 .. h.size
      PROVE  bytes[i] = Byte(b[a.done + 1], a.had + i)
  <2>1. 0 + i = i /\ i <= Len(s)
    BY <1>2
  <2> QED
    BY <1>1, <2>1
<1> QED
  BY <1>1, <1>3

\* A message that is returned before anything was refused for its size is the
\* next one that was sent, and whole.
LEMMA PayloadCollects ==
    ASSUME Base, NEW e \in Ends, Watched(e), excess[e] = "none", session[e],
           NEW h \in Short, call[e] = Payload(h), Carries(h),
           NEW bytes \in Seq(Plain), Len(bytes) = h.size, h.size <= Len(Stream(e)),
           \A i \in 1 .. h.size : bytes[i] = Stream(e)[i], h.fin
    PROVE  /\ Count(e) \in Nat /\ Count(e) + 1 \in DOMAIN Sent(e)
           /\ SoFar(h, partial[e], bytes) = Message(Sent(e)[Count(e) + 1])
<1>1. PICK v \in Views : Sees(e, v) /\ Follows(v)
  BY DEF Watched, Reading, Active
<1>2. /\ v.pending = h /\ v.first = 0 /\ v.ahead = Stream(e)
      /\ \E a \in Marks : /\ v.clear => ReaderStands(v.count, v.partial, v.sent, a)
                          /\ Right(h, 0, v.ahead, a, v.sent)
  BY <1>1, PayloadView
<1>3. v.clear /\ v.count = Count(e) /\ v.partial = partial[e] /\ v.sent = Sent(e)
  BY <1>1 DEF Sees
<1>4. PICK a \in Marks : /\ ReaderStands(v.count, v.partial, v.sent, a)
                         /\ Right(h, 0, v.ahead, a, v.sent)
  BY <1>2, <1>3
<1>5. /\ v.count \in Nat /\ v.partial \in [on : BOOLEAN, bytes : Seq(Plain)]
      /\ v.sent \in Seq(Numbers) /\ Len(v.ahead) \in Nat /\ h \in Heads
  BY ViewType DEF Short
<1>6. PICK s, b : s = v.ahead /\ b = v.sent
  OBVIOUS
<1>7. /\ GoesOn(h, a, v.sent)
      /\ \A i \in 1 .. h.size : bytes[i] = Byte(v.sent[a.done + 1], a.had + i)
  <2>1. /\ Len(s) \in Nat /\ h \in Heads /\ Right(h, 0, s, a, b) /\ Carries(h)
        /\ h.size <= Len(s) /\ \A i \in 1 .. h.size : bytes[i] = s[i]
    BY <1>2, <1>4, <1>5, <1>6
  <2>2. /\ GoesOn(h, a, b)
        /\ \A i \in 1 .. h.size : bytes[i] = Byte(b[a.done + 1], a.had + i)
    BY <2>1, PayloadBytes
  <2> QED
    BY <1>6, <2>2
<1>8. /\ v.count + 1 \in DOMAIN v.sent
      /\ h.fin => /\ SoFar(h, v.partial, bytes) = Message(v.sent[v.count + 1])
                  /\ \A q : ReaderStands(v.count + 1, q, v.sent, Past(h, a))
  <2>1. PICK c, k, q : c = v.sent /\ k = v.count /\ q = v.partial
    OBVIOUS
  <2>2. /\ k \in Nat /\ q \in [on : BOOLEAN, bytes : Seq(Plain)] /\ c \in Seq(Numbers)
        /\ ReaderStands(k, q, c, a) /\ h \in Heads /\ Brings(h, a, c, bytes)
    BY <1>4, <1>5, <1>7, <2>1 DEF Brings
  <2>3. Brought(k, q, c, h, a, bytes)
    BY <2>2, Collected
  <2> QED
    BY <2>1, <2>3 DEF Brought
<1> QED
  BY <1>3, <1>5, <1>8

LEMMA OrderedSame ==
    ASSUME NEW R, NEW g, NEW b, Ordered(R, g, b), NEW h, \A i \in R : h[i] = g[i]
    PROVE  Ordered(R, h, b)
<1> SUFFICES ASSUME NEW i \in R
             PROVE  LET k == Cardinality({j \in R : j <= i})
                    IN  k \in DOMAIN b /\ h[i].bytes = Message(b[k])
  BY DEF Ordered
<1>1. PICK k : k = Cardinality({j \in R : j <= i})
  OBVIOUS
<1>2. k \in DOMAIN b /\ g[i].bytes = Message(b[k])
  BY <1>1 DEF Ordered
<1> QED
  BY <1>1, <1>2

\* One more message, from c if nothing was refused before.
LEMMA RegularMore ==
    ASSUME ReadersOK, NEW e \in Ends, NEW m \in Messages,
           got' = [got EXCEPT ![e] = Append(@, m)], NEW c
    PROVE  Regular(e, c)' = IF m.on = c /\ m.after = "none"
                            THEN Regular(e, c) \cup {Len(got[e]) + 1} ELSE Regular(e, c)
<1>1. /\ DOMAIN got'[e] = DOMAIN got[e] \cup {Len(got[e]) + 1}
      /\ Len(got[e]) + 1 \notin DOMAIN got[e]
      /\ \A i \in DOMAIN got[e] : got'[e][i] = got[e][i]
      /\ got'[e][Len(got[e]) + 1] = m
  BY GotOne
<1>2. PICK g, d, n : g = got[e] /\ d = got'[e] /\ n = Len(got[e]) + 1
  OBVIOUS
<1>3. /\ Regular(e, c) = {i \in DOMAIN g : g[i].on = c /\ g[i].after = "none"}
      /\ Regular(e, c)' = {i \in DOMAIN d : d[i].on = c /\ d[i].after = "none"}
  BY <1>2 DEF Regular
<1>4. /\ DOMAIN d = DOMAIN g \cup {n} /\ n \notin DOMAIN g
      /\ \A i \in DOMAIN g : d[i] = g[i]
      /\ d[n] = m
  BY <1>1, <1>2
<1>5. CASE m.on = c /\ m.after = "none"
  BY <1>2, <1>3, <1>4, <1>5
<1>6. CASE ~(m.on = c /\ m.after = "none")
  BY <1>2, <1>3, <1>4, <1>6
<1> QED
  BY <1>5, <1>6

LEMMA ReturnedType ==
    ASSUME ReadersOK, NEW e \in Ends, NEW h, NEW bytes \in Seq(Plain), link[e] \in Connections
    PROVE  [on |-> link[e], after |-> excess[e], bytes |-> SoFar(h, partial[e], bytes)] \in Messages
<1>1. partial[e].bytes \in Seq(Plain) /\ excess[e] \in Refusals
  BY DEF ReadersOK
<1>2. SoFar(h, partial[e], bytes) \in Seq(Plain)
  <2>1. PICK c \in Seq(Plain) : c = partial[e].bytes
    BY <1>1
  <2>2. c \o bytes \in Seq(Plain)
    BY ConcatProperties
  <2> QED
    BY <2>1, <2>2 DEF SoFar
<1> QED
  BY <1>1, <1>2 DEF Messages

\* receive returns the next message, if it returns one.
LEMMA PayloadInTurn ==
    ASSUME Base, MessagesInTurn, NEW e \in Ends, Watched(e), ReadPayload(e)
    PROVE  MessagesInTurn'
<1>1. /\ session[e] /\ call[e].op = "payload"
      /\ UNCHANGED <<state, link, sockets, session, writer>>
      /\ \E h \in Short, bytes \in Seq(Plain) :
            /\ call[e] = Payload(h) /\ call[e].head = h /\ h.size \in Nat
            /\ h.size <= Len(Stream(e))
            /\ Consume(e, h.size)
            /\ Dispatch(e, h, bytes)
            /\ Len(bytes) = h.size
            /\ \A i \in 1 .. h.size : bytes[i] = Stream(e)[i]
  BY ReadPayloadEffect
<1>2. PICK h \in Short, bytes \in Seq(Plain) :
        /\ call[e] = Payload(h) /\ h.size <= Len(Stream(e))
        /\ Dispatch(e, h, bytes) /\ Len(bytes) = h.size
        /\ \A i \in 1 .. h.size : bytes[i] = Stream(e)[i]
  BY <1>1
<1>3. ReadersOK /\ link[e] \in Connections /\ begun' = begun
  BY <1>1, SessionCalls DEF Base, writer
<1>4. CASE got' = got
  <2>1. \A c \in Connections, f \in Ends : Extends(begun[c][f], begun'[c][f])
    BY <1>3 DEF Extends
  <2> QED
    BY <1>4, <2>1, InTurnKept
<1>5. CASE /\ Carries(h) /\ h.fin
           /\ got' = [got EXCEPT ![e] = Append(@, [on |-> link[e], after |-> excess[e],
                                                   bytes |-> SoFar(h, partial[e], bytes)])]
  <2>1. PICK m \in Messages : m = [on |-> link[e], after |-> excess[e],
                                   bytes |-> SoFar(h, partial[e], bytes)]
    BY <1>3, ReturnedType
  <2>2. /\ m.on = link[e] /\ m.after = excess[e] /\ m.bytes = SoFar(h, partial[e], bytes)
        /\ got' = [got EXCEPT ![e] = Append(@, m)]
    BY <1>5, <2>1
  <2>3. /\ \A f \in Ends \ {e} : got'[f] = got[f]
        /\ \A i \in DOMAIN got[e] : got'[e][i] = got[e][i]
        /\ got'[e][Len(got[e]) + 1] = m
    BY <1>3, <2>2, GotOne
  <2> SUFFICES ASSUME NEW f \in Ends, NEW c \in Connections
               PROVE  Ordered(Regular(f, c)', got'[f], begun'[c][Other(f)])
    BY InTurnNext
  <2>5. Ordered(Regular(f, c), got[f], begun[c][Other(f)])
    BY InTurnOrdered
  <2>6. PICK R, g, d, b : R = Regular(f, c) /\ g = got[f] /\ d = got'[f] /\ b = begun[c][Other(f)]
    OBVIOUS
  <2>7. Ordered(R, g, b) /\ b = begun'[c][Other(f)]
    BY <1>3, <2>5, <2>6
  <2>8. CASE f # e
    <3>1. got'[f] = got[f]
      BY <2>3, <2>8
    <3>2. Regular(f, c)' = R
      BY <2>6, <3>1, CountKept
    <3> QED
      BY <2>6, <2>7, <3>1, <3>2
  <2>9. CASE f = e /\ ~(m.on = c /\ m.after = "none")
    <3>1. Regular(f, c)' = R
      BY <1>3, <2>2, <2>6, <2>9, RegularMore
    <3>2. \A i \in R : d[i] = g[i]
      BY <2>3, <2>6, <2>9 DEF Regular
    <3>3. Ordered(R, d, b)
      BY <2>7, <3>2, OrderedSame
    <3> QED
      BY <2>6, <2>7, <3>1, <3>3
  <2>10. CASE f = e /\ m.on = c /\ m.after = "none"
    <3>1. PICK n \in Nat : n = Len(got[e])
      BY <1>3 DEF ReadersOK
    <3>2. Regular(f, c)' = R \cup {n + 1}
      BY <1>3, <2>2, <2>6, <2>10, <3>1, RegularMore
    <3>3. R \subseteq 1 .. n
      BY <1>3, <2>6, <2>10, <3>1, RegularFinite DEF ReadersOK
    <3>4. \A i \in 1 .. n : d[i] = g[i]
      BY <1>3, <2>3, <2>6, <2>10, <3>1 DEF ReadersOK
    <3>5. /\ Count(e) + 1 \in DOMAIN Sent(e)
          /\ SoFar(h, partial[e], bytes) = Message(Sent(e)[Count(e) + 1])
      BY <1>1, <1>2, <1>5, <2>2, <2>10, PayloadCollects
    <3>6. PICK k : k = Cardinality(R) + 1
      OBVIOUS
    <3>7. Count(e) + 1 = k /\ Sent(e) = b
      BY <2>2, <2>6, <2>10, <3>6 DEF Count, Sent
    <3>8. k \in DOMAIN b /\ d[n + 1].bytes = Message(b[k])
      BY <2>2, <2>3, <2>6, <2>10, <3>1, <3>5, <3>7
    <3>9. Ordered(R \cup {n + 1}, d, b)
      BY <2>7, <3>3, <3>4, <3>6, <3>8, OrderedMore
    <3> QED
      BY <2>6, <2>7, <3>2, <3>9
  <2> QED
    BY <2>8, <2>9, <2>10
<1>6. \/ got' = got
      \/ /\ Carries(h) /\ h.fin
         /\ got' = [got EXCEPT ![e] = Append(@, [on |-> link[e], after |-> excess[e],
                                                 bytes |-> SoFar(h, partial[e], bytes)])]
  BY <1>2, <1>3, DispatchEffect
<1> QED
  BY <1>4, <1>5, <1>6

\* The frame is taken from the stream, and its message goes on or is returned.
LEMMA PayloadSeen ==
    ASSUME Base, Base', NEW e \in Ends, Watched(e), ReadPayload(e)
    PROVE  Watched(e)'
<1> SUFFICES ASSUME Reading(e)'
             PROVE  Watched(e)'
  BY DEF Watched
<1>1. /\ session[e] /\ call[e].op = "payload"
      /\ UNCHANGED <<state, link, sockets, session, writer>>
      /\ \E h \in Short, bytes \in Seq(Plain) :
            /\ call[e] = Payload(h) /\ call[e].head = h /\ h.size \in Nat
            /\ h.size <= Len(Stream(e))
            /\ Consume(e, h.size)
            /\ Dispatch(e, h, bytes)
            /\ Len(bytes) = h.size
            /\ \A i \in 1 .. h.size : bytes[i] = Stream(e)[i]
  BY ReadPayloadEffect
<1>2. PICK h \in Short, bytes \in Seq(Plain) :
        /\ call[e] = Payload(h) /\ h.size \in Nat /\ h.size <= Len(Stream(e))
        /\ Consume(e, h.size)
        /\ Dispatch(e, h, bytes) /\ Len(bytes) = h.size
        /\ \A i \in 1 .. h.size : bytes[i] = Stream(e)[i]
  BY <1>1
<1>3. ReadersOK /\ StreamsOK /\ link[e] \in Connections
  BY <1>1, SessionCalls DEF Base
<1>4. Reading(e)
  <2>1. excess[e] = "frame" => excess'[e] = "frame"
    BY <1>2, <1>3 DEF Dispatch, Data, More, Refuse, ReadersOK
  <2> QED
    BY <1>1, <2>1 DEF Reading, Active
<1>5. PICK v \in Views, w \in Views : Sees(e, v) /\ Follows(v) /\ Sees(e, w)'
  BY <1>4, Looks
<1>6. /\ v.pending = h /\ v.first = 0 /\ v.ahead = Stream(e) /\ Span(v.pending) = h.size
  BY <1>1, <1>2, <1>5, PayloadView
<1>7. call'[e] # Handshake /\ call'[e].op # "payload"
  BY <1>2, <1>3, DispatchTypes
<1>8. w.first = 1 /\ w.ahead = Stream(e)'
  BY <1>5, <1>7 DEF Sees, First, Ahead
<1>9. /\ Len(w.ahead) + Span(v.pending) = Len(v.ahead)
      /\ \A i \in 1 .. Len(w.ahead) : w.ahead[i] = v.ahead[i + Span(v.pending)]
  <2>1. UNCHANGED <<state, link>>
    BY <1>1
  <2>2. /\ Len(Stream(e)') + h.size = Len(Stream(e))
        /\ \A i \in 1 .. Len(Stream(e)') : Stream(e)'[i] = Stream(e)[i + h.size]
    BY <1>2, <1>3, <2>1, ConsumeEffect
  <2> QED
    BY <1>6, <1>8, <2>2
<1>10. w.sent = v.sent /\ (w.joined => v.joined /\ w.rest = v.rest)
  <2>1. rest' = rest /\ begun' = begun /\ state' = state /\ link' = link
    BY <1>1 DEF writer
  <2> QED
    BY <1>5, <2>1 DEF Sees, Sent, Joined
<1>11. /\ v.partial = partial[e] /\ w.partial = partial'[e]
       /\ v.clear <=> excess[e] = "none"
       /\ w.clear <=> excess'[e] = "none"
       /\ v.count = Count(e) /\ w.count = Count(e)'
  BY <1>5 DEF Sees
<1>12. v.count \in Nat /\ v.sent \in Seq(Numbers) /\ Len(v.ahead) \in Nat
  BY ViewType
<1>13. got' = got => w.count = v.count
  <2> SUFFICES ASSUME got' = got PROVE w.count = v.count
    OBVIOUS
  <2>1. PICK c : c = link[e]
    OBVIOUS
  <2>2. Regular(e, c)' = Regular(e, c)
    BY CountKept
  <2> QED
    BY <1>1, <1>11, <2>1, <2>2 DEF Count
<1>14. ASSUME NEW a \in Marks, w.clear,
              v.clear => ReaderStands(v.count, v.partial, v.sent, a),
              Right(v.pending, 0, v.ahead, a, v.sent)
       PROVE  ReaderStands(w.count, w.partial, w.sent, Past(v.pending, a))
  <2>1. Right(h, 0, v.ahead, a, v.sent) /\ h \in Heads
    BY <1>6, <1>14 DEF Short
  <2>2. ASSUME Carries(h), v.clear
        PROVE  /\ h.fin => \A q : ReaderStands(v.count + 1, q, v.sent, Past(h, a))
               /\ ~h.fin => \A q : q.on /\ q.bytes = SoFar(h, v.partial, bytes)
                               => ReaderStands(v.count, q, v.sent, Past(h, a))
    <3>1. PICK s, b : s = v.ahead /\ b = v.sent
      OBVIOUS
    <3>2. /\ Len(s) \in Nat /\ h \in Heads /\ Right(h, 0, s, a, b)
          /\ h.size <= Len(s) /\ \A i \in 1 .. h.size : bytes[i] = s[i]
      BY <1>2, <1>6, <1>12, <2>1, <3>1
    <3>3. Brings(h, a, b, bytes)
      BY <2>2, <3>2, PayloadBytes DEF Brings
    <3>4. PICK k, p : k = v.count /\ p = v.partial
      OBVIOUS
    <3>5. /\ k \in Nat /\ p \in [on : BOOLEAN, bytes : Seq(Plain)] /\ b \in Seq(Numbers)
          /\ ReaderStands(k, p, b, a) /\ Len(bytes) = h.size
      BY <1>2, <1>12, <1>14, <2>2, <3>1, <3>4, ViewType
    <3>6. Brought(k, p, b, h, a, bytes)
      BY <2>2, <3>2, <3>3, <3>5, Collected
    <3> QED
      BY <3>1, <3>4, <3>6 DEF Brought
  <2>3. CASE ~Carries(h) /\ got' = got /\ partial'[e] = partial[e] /\ excess' = excess
    <3>1. Past(h, a) = a /\ v.clear
      BY <1>11, <1>14, <2>3 DEF Past
    <3> QED
      BY <1>6, <1>10, <1>11, <1>13, <1>14, <2>3, <3>1
  <2>4. CASE /\ Carries(h) /\ h.fin /\ excess' = excess
             /\ got' = [got EXCEPT ![e] = Append(@, [on |-> link[e], after |-> excess[e],
                                                     bytes |-> SoFar(h, partial[e], bytes)])]
    <3>1. PICK m \in Messages : m = [on |-> link[e], after |-> excess[e],
                                     bytes |-> SoFar(h, partial[e], bytes)]
      BY <1>3, ReturnedType
    <3>2. PICK c : c = link[e]
      OBVIOUS
    <3>3. v.clear /\ m.on = c /\ m.after = "none" /\ got' = [got EXCEPT ![e] = Append(@, m)]
      BY <1>11, <1>14, <2>4, <3>1, <3>2
    <3>4. Regular(e, c)' = Regular(e, c) \cup {Len(got[e]) + 1}
      BY <1>3, <3>3, RegularMore
    <3>5. /\ IsFiniteSet(Regular(e, c)) /\ Regular(e, c) \subseteq 1 .. Len(got[e])
          /\ Len(got[e]) \in Nat
      BY <1>3, RegularFinite DEF ReadersOK
    <3>6. Len(got[e]) + 1 \notin Regular(e, c)
      BY <3>5
    <3>7. Cardinality(Regular(e, c)') = Cardinality(Regular(e, c)) + 1
      BY <3>4, <3>5, <3>6, FS_AddElement
    <3>8. w.count = v.count + 1
      BY <1>1, <1>11, <3>2, <3>7 DEF Count
    <3>9. ReaderStands(v.count + 1, w.partial, v.sent, Past(h, a))
      BY <2>2, <2>4, <3>3
    <3> QED
      BY <1>6, <1>10, <3>8, <3>9
  <2>5. CASE /\ Carries(h) /\ ~h.fin /\ excess' = excess /\ got' = got
             /\ partial'[e].on /\ partial'[e].bytes = SoFar(h, partial[e], bytes)
    <3>1. v.clear
      BY <1>11, <1>14, <2>5
    <3>2. ReaderStands(v.count, w.partial, v.sent, Past(h, a))
      BY <1>11, <2>2, <2>5, <3>1
    <3> QED
      BY <1>6, <1>10, <1>13, <2>5, <3>2
  <2>6. CASE excess'[e] # "none"
    BY <1>11, <1>14, <2>6
  <2>7. \/ ~Carries(h) /\ got' = got /\ partial'[e] = partial[e] /\ excess' = excess
        \/ /\ Carries(h) /\ h.fin /\ excess' = excess
           /\ got' = [got EXCEPT ![e] = Append(@, [on |-> link[e], after |-> excess[e],
                                                   bytes |-> SoFar(h, partial[e], bytes)])]
        \/ /\ Carries(h) /\ ~h.fin /\ excess' = excess /\ got' = got
           /\ partial'[e].on /\ partial'[e].bytes = SoFar(h, partial[e], bytes)
        \/ excess'[e] # "none"
    BY <1>2, <1>3, DispatchEffect
  <2> QED
    BY <2>3, <2>4, <2>5, <2>6, <2>7
<1>15. \A a \in Marks :
          /\ w.clear
          /\ v.clear => ReaderStands(v.count, v.partial, v.sent, a)
          /\ Right(v.pending, 0, v.ahead, a, v.sent)
          => ReaderStands(w.count, w.partial, w.sent, Past(v.pending, a))
  BY <1>14
<1>16. Follows(w)
  BY <1>5, <1>6, <1>8, <1>9, <1>10, <1>15, ViewPayload
<1> QED
  BY <1>5, <1>16, Looked

\* Its peer reads,
LEMMA PeerReadSteps ==
    ASSUME Base, Base', NEW e \in Ends, Watched(e), NEW f, f = Other(e),
           ReadGreeting(f) \/ ReadHead(f) \/ ReadPayload(f) \/ ReadFails(f) \/ Receive(f)
    PROVE  Watched(e)'
<1>1. f \in Ends /\ f # e
  BY PeerFacts
<1>2. /\ session \in [Ends -> BOOLEAN] /\ call \in [Ends -> Calls] /\ ReadersOK /\ StreamsOK
      /\ partial \in [Ends -> [on : BOOLEAN, bytes : Seq(Plain)]]
      /\ got \in [Ends -> Seq(Messages)] /\ excess \in [Ends -> Refusals]
  BY DEF Base, LinksOK, ReadersOK
<1>3. CASE ReadGreeting(f)
  <2>1. /\ call' = [call EXCEPT ![f] = IF f = Server THEN Responding ELSE Idle]
        /\ session' = [session EXCEPT ![f] = (f = Client)]
        /\ UNCHANGED <<state, link, sockets, partial, got, excess, writer>>
    BY <1>1, <1>3, ReadGreetingFacts
  <2>2. Read(f)
    BY <1>1, <1>3, ReadGreetingRead
  <2>3. UNCHANGED <<state, link, begun, rest, partial, got, excess>>
    BY <2>1 DEF writer
  <2>4. call'[e] = call[e]
    BY <1>1, <1>2, <2>1
  <2>5. session'[e] = session[e]
    <3>1. PICK b \in BOOLEAN : b = (f = Client)
      OBVIOUS
    <3>2. session' = [session EXCEPT ![f] = b]
      BY <2>1, <3>1
    <3> QED
      BY <1>1, <1>2, <3>2
  <2> QED
    BY <2>2, <2>3, <2>4, <2>5, PeerReads
<1>4. CASE ReadHead(f)
  <2>1. /\ call[f] = NextFrame /\ Stream(f) # <<>> /\ Consume(f, 1)
        /\ UNCHANGED <<state, link, sockets, session, partial, got, writer>>
        /\ \/ \E h \in Short : /\ call' = [call EXCEPT ![f] = Payload(h)]
                               /\ excess' = excess
           \/ /\ call' = [call EXCEPT ![f] = Idle]
              /\ excess' = [excess EXCEPT ![f] = "frame"]
    BY <1>1, <1>4, ReadHeadEffect
  <2>2. call'[e] = call[e] /\ excess'[e] = excess[e]
    BY <1>1, <1>2, <2>1
  <2>3. UNCHANGED <<state, link, begun, rest, partial, got, session>>
    BY <2>1 DEF writer
  <2>4. Read(f)
    <3>1. Stream(f) \in Seq(Plain)
      BY <1>1, <2>1, SessionCalls, StreamPlain
    <3>2. 1 \in Nat /\ 1 <= Len(Stream(f))
      BY <2>1, <3>1, EmptySeq
    <3>3. state[f] = "connected" => link[f] \in Connections
      BY <1>1, EstablishedFacts
    <3> QED
      BY <1>1, <1>2, <2>1, <2>3, <3>2, <3>3, ConsumeEffect
  <2> QED
    BY <2>2, <2>3, <2>4, PeerReads
<1>5. CASE ReadPayload(f)
  <2>1. /\ session[f] /\ UNCHANGED <<state, link, sockets, session, writer>>
        /\ \E h \in Short, bytes \in Seq(Plain) :
              /\ h.size \in Nat /\ h.size <= Len(Stream(f)) /\ Consume(f, h.size)
              /\ Dispatch(f, h, bytes)
    BY <1>1, <1>5, ReadPayloadEffect
  <2>2. PICK h \in Short, bytes \in Seq(Plain) :
              /\ h.size \in Nat /\ h.size <= Len(Stream(f)) /\ Consume(f, h.size)
              /\ Dispatch(f, h, bytes)
    BY <2>1
  <2>3. link[f] \in Connections
    BY <1>1, <2>1, SessionCalls
  <2>4. /\ call'[e] = call[e] /\ partial'[e] = partial[e] /\ excess'[e] = excess[e]
        /\ got' = got \/ \E m \in Messages : got' = [got EXCEPT ![f] = Append(@, m)]
    BY <1>1, <1>2, <2>2, <2>3, DispatchTypes
  <2>5. got'[e] = got[e]
    BY <1>1, <1>2, <2>4
  <2>6. UNCHANGED <<state, link, begun, rest, session>>
    BY <2>1 DEF writer
  <2>7. Read(f)
    BY <1>1, <1>2, <2>2, <2>3, <2>6, ConsumeEffect
  <2> QED
    BY <2>4, <2>5, <2>6, <2>7, PeerReads
<1>6. CASE ReadFails(f)
  <2>1. /\ call' = [call EXCEPT ![f] = Idle]
        /\ UNCHANGED <<link, sockets, session, partial, got, excess, writer>>
        /\ state' = state \/ state' = [state EXCEPT ![f] = "failed"]
    BY <1>1, <1>6, ReadFailsEffect
  <2>2. Read(f)
    BY <1>1, <1>6, ReadFailsRead
  <2>3. call'[e] = call[e] /\ UNCHANGED <<link, begun, rest, session, partial, got, excess>>
    BY <1>1, <1>2, <2>1 DEF writer
  <2> QED
    BY <2>1, <2>2, <2>3, PeerReads
<1>7. CASE Receive(f)
  <2>1. /\ call' = [call EXCEPT ![f] = NextFrame]
        /\ UNCHANGED <<state, link, session, inbound, partial, got, excess, pipe, begun, rest>>
    BY <1>7 DEF Receive, Continue, tcp, reader, writer
  <2>2. Read(f)
    BY <1>1, <2>1, ReadNothing
  <2>3. call'[e] = call[e]
    BY <1>1, <1>2, <2>1
  <2> QED
    BY <2>1, <2>2, <2>3, PeerReads
<1> QED
  BY <1>1, <1>3, <1>4, <1>5, <1>6, <1>7

\* or answers a ping although its connection has failed.
LEMMA PongUnsent ==
    ASSUME Base, NEW e \in Ends, Pong(e), state[e] # "connected"
    PROVE  /\ call' = [call EXCEPT ![e] = NextFrame]
           /\ UNCHANGED <<state, link, sockets, session, inbound, partial, got, excess, pipe,
                          begun, rest, pings>>
  BY DEF Pong, Continue, reader, writer

\* An end that writes sees what it saw before, or less.
LEMMA WriterSeen ==
    ASSUME Base, Base', NEW e \in Ends, Watched(e), NEW x, NEW bytes, Writes(e, x, bytes)
    PROVE  Watched(e)'
<1>1. /\ GoesOnWith(e) /\ x \in Heads /\ bytes \in Seq(Plain) /\ x.size = Len(bytes)
      /\ SendFrame(e, <<x>> \o bytes)
      /\ UNCHANGED <<inbound, partial, got, excess>>
      /\ call'[e].op # "payload" /\ call[e].op # "payload"
      /\ \A c \in Connections, f \in Ends : c # link[e] \/ f # e => begun'[c][f] = begun[c][f]
      /\ \A f \in Ends \ {e} : rest'[f] = rest[f]
  BY DEF Writes
<1>2. Other(e) \in Ends /\ Other(e) # e
  BY EndFacts
<1>3. link[e] \in Connections
  BY <1>1, SessionCalls DEF GoesOnWith
<1>4. pipe'[link[e]][Other(e)] = pipe[link[e]][Other(e)]
  <2>1. PICK frame : frame = <<x>> \o bytes
    OBVIOUS
  <2>2. frame \in Seq(Plain) /\ SendFrame(e, frame)
    BY <1>1, <2>1, WritesFrame
  <2>3. \E t \in Seq(Plain) : pipe' = Wrote(e, t)
    BY <2>2, SendFrameEffect DEF Went
  <2>4. PICK t \in Seq(Pieces) : pipe' = Wrote(e, t)
    BY <2>3, PlainPieces
  <2>5. StreamsOK
    BY DEF Base
  <2> QED
    BY <1>2, <1>3, <2>4, <2>5, WriteType
<1>5. /\ begun'[link[e]][Other(e)] = begun[link[e]][Other(e)]
      /\ rest'[Other(e)] = rest[Other(e)]
  BY <1>1, <1>2, <1>3
<1> QED
  BY <1>1, <1>4, <1>5, GoesOnSeen

\* So does one whose call goes on.
LEMMA CallerSeen ==
    ASSUME Base, Base', NEW e \in Ends, Watched(e), session[e],
           call[e].op # "payload", call' = [call EXCEPT ![e] = NextFrame],
           UNCHANGED <<state, link, sockets, session, inbound, partial, got, excess, pipe,
                       begun, rest>>
    PROVE  Watched(e)'
<1>1. NextFrame \in Calls /\ NextFrame # Handshake /\ NextFrame # Responding
  BY SomeCalls, ShowsNoPart
<1>2. GoesOnWith(e) /\ call'[e] = NextFrame
  BY <1>1, CallGoesOn
<1>3. call'[e].op # "payload"
  BY <1>2, HandshakeFacts
<1> QED
  BY <1>2, <1>3, GoesOnSeen

LEMMA HandshakeFailsInbound ==
    ASSUME Base, NEW f \in Ends, HandshakeFails(f), NEW e \in Ends, e # f
    PROVE  inbound'[e] = inbound[e]
  BY DEF HandshakeFails, Base, StreamsOK

\* What a step of f does to the view of e.
LEMMA StepSeen ==
    ASSUME Base, Base', NEW e \in Ends, Watched(e), NEW f \in Ends,
           Send(f) \/ SendMore(f) \/ Ping(f) \/ Close(f) \/ Receive(f) \/ Step(f)
    PROVE  Watched(e)'
<1>1. f = e \/ f = Other(e)
  BY EndFacts
<1>2. session \in [Ends -> BOOLEAN] /\ call \in [Ends -> Calls]
  BY DEF Base, LinksOK, ReadersOK
<1>3. CASE \E x, bytes : Writes(f, x, bytes)
  <2>1. PICK x, bytes : Writes(f, x, bytes)
    BY <1>3
  <2> QED
    BY <1>1, <2>1, WriterSeen, WritesSeen
<1>4. CASE Send(f) \/ SendMore(f) \/ Ping(f)
  BY <1>3, <1>4, SendWrites, SendMoreWrites, PingWrites
<1>5. CASE Close(f) \/ CloseBack(f)
  <2>1. Departs(f) /\ Leaves(f)
    BY <1>5, CloseLeaves, CloseBackLeaves DEF Departs
  <2>2. inbound' = inbound
    BY <1>5 DEF Close, CloseBack, reader
  <2> QED
    BY <1>1, <2>1, <2>2, LeavesSeen, PeerDeparts
<1>6. CASE HandshakeFails(f)
  <2>1. Leaves(f) /\ pipe' = pipe
    BY <1>6, HandshakeFailsLeaves
  <2>2. f # e => inbound'[e] = inbound[e]
    BY <1>6, HandshakeFailsInbound
  <2>3. f = Other(e) => f # e
    BY EndFacts
  <2> QED
    BY <1>1, <2>1, <2>2, <2>3, LeavesSeen, PeerLeaves
<1>7. CASE Receive(f)
  <2>1. CASE f = e
    <3>1. /\ call[e] = Idle /\ session[e]
          /\ call' = [call EXCEPT ![e] = NextFrame]
          /\ UNCHANGED <<state, link, sockets, session, inbound, partial, got, excess, pipe,
                         begun, rest>>
      BY <1>7, <2>1 DEF Receive, Continue, Established, tcp, reader, writer
    <3>2. call[e].op # "payload"
      BY <3>1, HandshakeFacts
    <3> QED
      BY <3>1, <3>2, CallerSeen
  <2>2. CASE f = Other(e)
    BY <1>7, <2>2, PeerReadSteps
  <2> QED
    BY <1>1, <2>1, <2>2
<1>8. CASE ReadGreeting(f)
  BY <1>1, <1>8, GreetingSeen, PeerReadSteps
<1>9. CASE ReadHead(f)
  BY <1>1, <1>9, HeadSeen, PeerReadSteps
<1>10. CASE ReadPayload(f)
  BY <1>1, <1>10, PayloadSeen, PeerReadSteps
<1>11. CASE ReadFails(f)
  BY <1>1, <1>11, FailsSeen, PeerReadSteps
<1>12. CASE Respond(f)
  BY <1>1, <1>12, RespondSeen, PeerResponds
<1>13. CASE Pong(f) /\ state[f] = "connected"
  BY <1>3, <1>13, PongWrites
<1>14. CASE Pong(f) /\ state[f] # "connected"
  <2>1. /\ call' = [call EXCEPT ![f] = NextFrame]
        /\ UNCHANGED <<state, link, sockets, session, inbound, partial, got, excess, pipe,
                       begun, rest, pings>>
    BY <1>14, PongUnsent
  <2>2. CASE f = e
    <3>1. call[e].op = "pong" /\ session[e]
      BY <1>14, <2>2, SessionCalls DEF Pong
    <3> QED
      BY <2>1, <2>2, <3>1, CallerSeen
  <2>3. CASE f = Other(e)
    <3>1. f # e
      BY <2>3, EndFacts
    <3>2. call'[e] = call[e]
      BY <1>2, <2>1, <3>1
    <3>3. Read(f)
      BY <2>1, ReadNothing
    <3> QED
      BY <2>1, <2>3, <3>2, <3>3, PeerReads
  <2> QED
    BY <1>1, <2>2, <2>3
<1> QED
  BY <1>4, <1>5, <1>6, <1>7, <1>8, <1>9, <1>10, <1>11, <1>12, <1>13, <1>14 DEF Step

LEMMA StayKept ==
    ASSUME Base', NEW e \in Ends, Watched(e),
           UNCHANGED <<state, link, session, inbound, pipe, begun, rest, call, partial, got, excess>>
    PROVE  Watched(e)'
<1>1. Reading(e)' => Reading(e)
  BY DEF Reading, Active
<1>2. /\ Pending(e)' = Pending(e) /\ First(e)' = First(e)
      /\ Ahead(e)' = Ahead(e) /\ Sent(e)' = Sent(e)
  BY DEF Pending, First, Ahead, Sent, Stream
<1>3. Count(e)' = Count(e)
  <2>1. PICK c : c = link[e]
    OBVIOUS
  <2>2. Regular(e, c)' = Regular(e, c)
    BY CountKept
  <2> QED
    BY <2>1, <2>2 DEF Count
<1>4. Joined(e)' => Joined(e) /\ rest'[Other(e)] = rest[Other(e)]
  BY DEF Joined
<1> QED
  BY <1>1, <1>2, <1>3, <1>4, SameView

LEMMA NextSeen ==
    ASSUME Base, Base', MessagesInTurn, \A e \in Ends : Watched(e), [Next]_vars,
           NEW e \in Ends
    PROVE  Watched(e)'
<1>1. Watched(e) /\ Watched(Client) /\ Watched(Server) /\ Client \in Ends /\ Server \in Ends
  BY EndFacts
<1>2. /\ e = Client \/ e = Server
      /\ Other(Client) = Server /\ Other(Server) = Client /\ Client # Server
  BY EndFacts
<1>3. CASE Connect
  BY <1>1, <1>2, <1>3, ConnectSeen, PeerConnects
<1>4. CASE Listen
  <2>1. Leaves(Server) /\ pipe' = pipe
    BY <1>4, ListenLeaves
  <2>2. inbound' = inbound
    BY <1>4 DEF Listen, reader
  <2>3. Watched(Server)'
    BY <1>1, <2>1, LeavesSeen
  <2>4. Watched(Client)'
    BY <1>1, <1>2, <2>1, <2>2, PeerLeaves
  <2> QED
    BY <1>2, <2>3, <2>4
<1>5. CASE Accept
  BY <1>1, <1>2, <1>5, AcceptSeen, PeerAccepts
<1>6. CASE Break
  <2>1. UNCHANGED <<state, link, session, inbound, pipe, begun, rest, call, partial, got, excess>>
    BY <1>6 DEF Break, reader, writer
  <2> QED
    BY <1>1, <2>1, StayKept
<1>7. CASE UNCHANGED vars
  <2>1. UNCHANGED <<state, link, session, inbound, pipe, begun, rest, call, partial, got, excess>>
    BY <1>7 DEF vars, tcp, reader, writer
  <2> QED
    BY <1>1, <2>1, StayKept
<1>8. ASSUME NEW f \in Ends,
             Send(f) \/ SendMore(f) \/ Ping(f) \/ Close(f) \/ Receive(f) \/ Step(f)
      PROVE  Watched(e)'
  BY <1>1, <1>8, StepSeen
<1> QED
  BY <1>3, <1>4, <1>5, <1>6, <1>7, <1>8 DEF Next

\* Messages begin, and none is returned, in every step but the reading of a
\* payload.
LEMMA NextReturns ==
    ASSUME Base, [Next]_vars
    PROVE  \/ \E e \in Ends : ReadPayload(e)
           \/ /\ got' = got
              /\ \A c \in Connections, e \in Ends : Extends(begun[c][e], begun'[c][e])
<1>1. begun' = begun => \A c \in Connections, e \in Ends : Extends(begun[c][e], begun'[c][e])
  BY DEF Extends
<1>2. CASE Connect
  <2>1. got' = got /\ begun' = begun
    BY <1>2 DEF Connect
  <2> QED
    BY <1>1, <2>1
<1>3. CASE Listen \/ Break \/ UNCHANGED vars
  <2>1. got' = got /\ begun' = begun
    BY <1>3 DEF Listen, Break, vars, reader, writer
  <2> QED
    BY <1>1, <2>1
<1>4. CASE Accept
  <2>1. got' = got /\ begun' = begun
    BY <1>4, AcceptFacts
  <2> QED
    BY <1>1, <2>1
<1>5. ASSUME NEW f \in Ends, NEW x, NEW bytes, Writes(f, x, bytes)
      PROVE  got' = got /\ \A c \in Connections, e \in Ends : Extends(begun[c][e], begun'[c][e])
  <2>1. /\ got' = got
        /\ \A c \in Connections, e \in Ends : c # link[f] \/ e # f => begun'[c][e] = begun[c][e]
        /\ Extends(begun[link[f]][f], begun'[link[f]][f])
    BY <1>5 DEF Writes
  <2>2. ASSUME NEW c \in Connections, NEW e \in Ends
        PROVE  Extends(begun[c][e], begun'[c][e])
    <3>1. CASE c = link[f] /\ e = f
      BY <2>1, <3>1
    <3>2. CASE c # link[f] \/ e # f
      <4>1. begun'[c][e] = begun[c][e]
        BY <2>1, <3>2
      <4> QED
        BY <4>1 DEF Extends
    <3> QED
      BY <3>1, <3>2
  <2> QED
    BY <2>1, <2>2
<1>6. ASSUME NEW f \in Ends, Close(f) \/ Receive(f) \/ HandshakeFails(f) \/ CloseBack(f)
             \/ Respond(f) \/ ReadGreeting(f) \/ ReadHead(f) \/ ReadFails(f)
      PROVE  got' = got /\ begun' = begun
  <2>1. CASE Close(f) \/ Receive(f) \/ HandshakeFails(f) \/ CloseBack(f)
    BY <2>1 DEF Close, Receive, HandshakeFails, CloseBack, reader, writer
  <2>2. CASE Respond(f) \/ ReadGreeting(f) \/ ReadHead(f) \/ ReadFails(f)
    BY <2>2 DEF Respond, ReadGreeting, ReadHead, ReadFails, reader, writer
  <2> QED
    BY <1>6, <2>1, <2>2
<1>7. ASSUME NEW f \in Ends, Send(f) \/ SendMore(f) \/ Ping(f) \/ (Pong(f) /\ state[f] = "connected")
      PROVE  \E x, bytes : Writes(f, x, bytes)
  BY <1>7, SendWrites, SendMoreWrites, PingWrites, PongWrites
<1>8. ASSUME NEW f \in Ends, Pong(f), state[f] # "connected"
      PROVE  got' = got /\ begun' = begun
  BY <1>8, PongUnsent
<1>9. ASSUME NEW f \in Ends,
             Send(f) \/ SendMore(f) \/ Ping(f) \/ Close(f) \/ Receive(f) \/ Step(f),
             ~ReadPayload(f)
      PROVE  got' = got /\ \A c \in Connections, e \in Ends : Extends(begun[c][e], begun'[c][e])
  <2>1. CASE Close(f) \/ Receive(f) \/ HandshakeFails(f) \/ CloseBack(f)
             \/ Respond(f) \/ ReadGreeting(f) \/ ReadHead(f) \/ ReadFails(f)
    BY <1>1, <1>6, <2>1
  <2>2. CASE Send(f) \/ SendMore(f) \/ Ping(f) \/ (Pong(f) /\ state[f] = "connected")
    <3>1. PICK x, bytes : Writes(f, x, bytes)
      BY <1>7, <2>2
    <3> QED
      BY <1>5, <3>1
  <2>3. CASE Pong(f) /\ state[f] # "connected"
    BY <1>1, <1>8, <2>3
  <2> QED
    BY <1>9, <2>1, <2>2, <2>3 DEF Step
<1> QED
  BY <1>2, <1>3, <1>4, <1>9 DEF Next

LEMMA NextInTurn ==
    ASSUME Base, MessagesInTurn, \A e \in Ends : Watched(e), [Next]_vars
    PROVE  MessagesInTurn'
<1>1. CASE \E e \in Ends : ReadPayload(e)
  BY <1>1, PayloadInTurn
<1>2. CASE /\ got' = got
           /\ \A c \in Connections, e \in Ends : Extends(begun[c][e], begun'[c][e])
  BY <1>2, InTurnKept
<1> QED
  BY <1>1, <1>2, NextReturns

-----------------------------------------------------------------------------
(* Lengths                                                                  *)

LEMMA DispatchWithin ==
    ASSUME ReadersOK, WithinLimit, NEW e \in Ends, NEW h \in Short, NEW bytes \in Seq(Plain),
           Len(bytes) = h.size, link[e] \in Connections, Dispatch(e, h, bytes)
    PROVE  /\ Len(partial'[e].bytes) <= MaxMessage
           /\ \/ got' = got
              \/ \E m \in Messages : /\ Len(m.bytes) <= MaxMessage
                                     /\ got' = [got EXCEPT ![e] = Append(@, m)]
<1>1. /\ MaxMessage \in Nat /\ Len(bytes) <= MaxMessage /\ Len(partial[e].bytes) <= MaxMessage
  BY WebSocketAssumption DEF Short, WithinLimit
<1>2. /\ partial \in [Ends -> [on : BOOLEAN, bytes : Seq(Plain)]] /\ excess[e] \in Refusals
  BY DEF ReadersOK
<1>3. PICK p \in Seq(Plain) : p = partial[e].bytes
  BY <1>2
<1>4. p \o bytes \in Seq(Plain) /\ Len(p \o bytes) = Len(p) + Len(bytes)
  BY ConcatProperties
<1>5. ASSUME NEW b \in Seq(Plain), Len(b) <= MaxMessage, Deliver(e, b)
      PROVE  \E m \in Messages : /\ Len(m.bytes) <= MaxMessage
                                 /\ got' = [got EXCEPT ![e] = Append(@, m)]
  <2>1. PICK m : m = [on |-> link[e], bytes |-> b, after |-> excess[e]]
    OBVIOUS
  <2>2. m \in Messages /\ m.bytes = b
    BY <1>2, <2>1 DEF Messages
  <2> QED
    BY <1>5, <2>1, <2>2 DEF Deliver
<1>6. ASSUME NEW b \in Seq(Plain), Len(b) <= MaxMessage,
             partial' = [partial EXCEPT ![e] = [on |-> TRUE, bytes |-> b]]
      PROVE  Len(partial'[e].bytes) <= MaxMessage
  <2>1. partial'[e] = [on |-> TRUE, bytes |-> b]
    BY <1>2, <1>6
  <2> QED
    BY <1>6, <2>1
<1>7. CASE Data(e, h.fin, bytes)
  <2>1. CASE Deliver(e, bytes) /\ partial' = partial
    BY <1>1, <1>5, <2>1
  <2>2. CASE got' = got /\ partial' = [partial EXCEPT ![e] = [on |-> TRUE, bytes |-> bytes]]
    BY <1>1, <1>6, <2>2
  <2> QED
    BY <1>7, <2>1, <2>2 DEF Data, StartWith
<1>8. CASE More(e, h.fin, bytes)
  <2>1. CASE Fits(e, bytes) /\ Deliver(e, p \o bytes) /\ partial' = [partial EXCEPT ![e] = NoMessage]
    <3>1. Len(p \o bytes) <= MaxMessage
      BY <1>3, <1>4, <2>1 DEF Fits
    <3>2. partial'[e] = NoMessage /\ Len(NoMessage.bytes) = 0
      BY <1>2, <2>1 DEF NoMessage
    <3>3. Len(partial'[e].bytes) <= MaxMessage
      BY <1>1, <3>2
    <3>4. Len(p \o bytes) <= MaxMessage /\ Deliver(e, p \o bytes)
      BY <2>1, <3>1
    <3>5. \E m \in Messages : /\ Len(m.bytes) <= MaxMessage
                             /\ got' = [got EXCEPT ![e] = Append(@, m)]
      BY <1>4, <1>5, <3>4
    <3> QED
      BY <3>3, <3>5, Zenon
  <2>2. CASE /\ Fits(e, bytes) /\ got' = got
             /\ partial' = [partial EXCEPT ![e] = [on |-> TRUE, bytes |-> p \o bytes]]
    <3>1. Len(p \o bytes) <= MaxMessage
      BY <1>3, <1>4, <2>2 DEF Fits
    <3> QED
      BY <1>4, <1>6, <2>2, <3>1
  <2>3. CASE got' = got /\ partial' = partial
    BY <1>1, <2>3
  <2> QED
    BY <1>3, <1>8, <2>1, <2>2, <2>3 DEF More
<1>9. CASE got' = got /\ partial' = partial
  BY <1>1, <1>9
<1>10. Data(e, h.fin, bytes) \/ More(e, h.fin, bytes) \/ (got' = got /\ partial' = partial)
  BY DEF Dispatch
<1> QED
  BY <1>7, <1>8, <1>9, <1>10, Zenon

LEMMA NextWithin ==
    ASSUME Base, WithinLimit, [Next]_vars
    PROVE  WithinLimit'
<1>1. CASE UNCHANGED <<partial, got>>
  BY <1>1 DEF WithinLimit
<1>2. ASSUME NEW e \in Ends, ReadPayload(e)
      PROVE  WithinLimit'
  <2>1. /\ session[e]
        /\ \E h \in Short, bytes \in Seq(Plain) : Dispatch(e, h, bytes) /\ Len(bytes) = h.size
    BY <1>2, ReadPayloadEffect
  <2>2. PICK h \in Short, bytes \in Seq(Plain) : Dispatch(e, h, bytes) /\ Len(bytes) = h.size
    BY <2>1
  <2>3. link[e] \in Connections /\ ReadersOK
    BY <2>1, SessionCalls DEF Base
  <2>4. /\ Len(partial'[e].bytes) <= MaxMessage
        /\ \/ got' = got
           \/ \E m \in Messages : /\ Len(m.bytes) <= MaxMessage
                                  /\ got' = [got EXCEPT ![e] = Append(@, m)]
        /\ \A f \in Ends \ {e} : partial'[f] = partial[f]
    BY <2>2, <2>3, DispatchWithin, DispatchTypes
  <2>5. \A f \in Ends : Len(partial'[f].bytes) <= MaxMessage
    BY <2>4 DEF WithinLimit
  <2>6. CASE got' = got
    BY <2>5, <2>6 DEF WithinLimit
  <2>7. CASE \E m \in Messages : /\ Len(m.bytes) <= MaxMessage
                                 /\ got' = [got EXCEPT ![e] = Append(@, m)]
    <3>1. PICK m \in Messages : /\ Len(m.bytes) <= MaxMessage
                                /\ got' = [got EXCEPT ![e] = Append(@, m)]
      BY <2>7
    <3>2. /\ \A f \in Ends \ {e} : got'[f] = got[f]
          /\ DOMAIN got'[e] = DOMAIN got[e] \cup {Len(got[e]) + 1}
          /\ \A i \in DOMAIN got[e] : got'[e][i] = got[e][i]
          /\ got'[e][Len(got[e]) + 1] = m
      BY <2>3, <3>1, GotOne
    <3>3. \A f \in Ends : \A i \in DOMAIN got'[f] : Len(got'[f][i].bytes) <= MaxMessage
      BY <3>1, <3>2 DEF WithinLimit
    <3> QED
      BY <2>5, <3>3, Zenon DEF WithinLimit
  <2> QED
    BY <2>4, <2>6, <2>7, Zenon
<1>3. ASSUME NEW f \in Ends, \E x, bytes : Writes(f, x, bytes)
      PROVE  UNCHANGED <<partial, got>>
  BY <1>3 DEF Writes
<1>4. CASE Connect \/ Listen \/ Break \/ UNCHANGED vars
  <2>1. UNCHANGED <<partial, got>>
    BY <1>4 DEF Connect, Listen, Break, vars, reader
  <2> QED
    BY <1>1, <2>1
<1>5. CASE Accept
  <2>1. UNCHANGED <<partial, got>>
    BY <1>5, AcceptFacts
  <2> QED
    BY <1>1, <2>1
<1>6. ASSUME NEW f \in Ends, Send(f) \/ SendMore(f) \/ Ping(f) \/ Pong(f)
      PROVE  UNCHANGED <<partial, got>>
  BY <1>3, <1>6, SendWrites, SendMoreWrites, PingWrites, PongWrites, PongUnsent
<1>7. ASSUME NEW f \in Ends, Close(f) \/ Receive(f) \/ HandshakeFails(f) \/ CloseBack(f)
             \/ Respond(f) \/ ReadGreeting(f) \/ ReadHead(f) \/ ReadFails(f)
      PROVE  UNCHANGED <<partial, got>>
  <2>1. CASE Close(f) \/ Receive(f) \/ HandshakeFails(f) \/ CloseBack(f)
    BY <2>1 DEF Close, Receive, HandshakeFails, CloseBack, reader
  <2>2. CASE Respond(f) \/ ReadGreeting(f) \/ ReadHead(f) \/ ReadFails(f)
    BY <2>2 DEF Respond, ReadGreeting, ReadHead, ReadFails, reader
  <2> QED
    BY <1>7, <2>1, <2>2
<1> QED
  BY <1>1, <1>2, <1>4, <1>5, <1>6, <1>7 DEF Next, Step

-----------------------------------------------------------------------------
(* The invariant and the theorems                                           *)

\* Every reader stands at a frame's edge, or in the payload it has the head
\* of; it is with this that messages stay in turn, and the other way round.
WebSocketInv ==
    /\ Base /\ MessagesInTurn /\ WithinLimit
    /\ \A e \in Ends : Watched(e)

LEMMA InitInv ==
    ASSUME Init
    PROVE  WebSocketInv
<1>1. \A e \in Ends : call[e] = Idle /\ session[e] = FALSE /\ got[e] = <<>> /\ partial[e] = NoMessage
  BY DEF Init
<1>2. Idle # Handshake /\ Idle # Responding
  BY DEF Idle, Handshake, Responding
<1>3. \A e \in Ends : Watched(e)
  BY <1>1, <1>2 DEF Watched, Reading, Active
<1>4. MessagesInTurn
  <2>1. \A e \in Ends, c \in Connections : Regular(e, c) = {}
    BY <1>1 DEF Regular
  <2> QED
    BY <2>1 DEF MessagesInTurn
<1>5. WithinLimit
  <2>1. MaxMessage \in Nat
    BY WebSocketAssumption
  <2>2. Len(NoMessage.bytes) = 0
    BY DEF NoMessage
  <2> QED
    BY <1>1, <2>1, <2>2 DEF WithinLimit
<1> QED
  BY <1>3, <1>4, <1>5, InitBase DEF WebSocketInv

LEMMA NextInv ==
    ASSUME WebSocketInv, [Next]_vars
    PROVE  WebSocketInv'
<1>1. Base /\ MessagesInTurn /\ WithinLimit /\ \A e \in Ends : Watched(e)
  BY DEF WebSocketInv
<1>2. Base'
  BY <1>1, NextBase
<1>3. MessagesInTurn'
  BY <1>1, NextInTurn
<1>4. WithinLimit'
  BY <1>1, NextWithin
<1>5. \A e \in Ends : Watched(e)'
  BY <1>1, <1>2, NextSeen
<1> QED
  BY <1>2, <1>3, <1>4, <1>5 DEF WebSocketInv

\* Types, the order of the greetings, the chains of frames and what they hold,
\* in every state of every call of the two adapters.
THEOREM WebSocketInvariant == Spec => []WebSocketInv
<1>1. Init => WebSocketInv
  BY InitInv
<1>2. WebSocketInv /\ [Next]_vars => WebSocketInv'
  BY NextInv
<1> QED
  BY <1>1, <1>2, PTL DEF Spec

\* receive returns the messages of a connection whole and in the order they
\* were sent, until it refused one for its size, whatever inbound_,
\* fragmented_ and message_ held of an earlier connection.
THEOREM MessagesAlwaysInTurn == Spec => []MessagesInTurn
<1>1. WebSocketInv => MessagesInTurn
  BY DEF WebSocketInv
<1> QED
  BY <1>1, WebSocketInvariant, PTL

\* No message receive returns or puts together exceeds max_message_bytes.
THEOREM LimitAlwaysKept == Spec => []WithinLimit
<1>1. WebSocketInv => WithinLimit
  BY DEF WebSocketInv
<1> QED
  BY <1>1, WebSocketInvariant, PTL

LEMMA InvFramed ==
    ASSUME WebSocketInv
    PROVE  Framed
<1> SUFFICES ASSUME NEW e \in Ends, Established(e), call[e] \in {Idle, NextFrame},
                    excess[e] # "frame", Stream(e) # <<>>
             PROVE  Head(Stream(e)) \in Heads
  BY DEF Framed
<1>1. Base /\ Watched(e)
  BY DEF WebSocketInv
<1>2. Active(e)
  BY DEF Active, Established
<1>3. PICK v \in Views : Sees(e, v) /\ Follows(v)
  BY <1>1, <1>2 DEF Watched, Reading
<1>4. call[e].op # "payload" /\ call[e] # Handshake
  BY DEF Idle, NextFrame, Handshake
<1>5. v.first = 1 /\ v.ahead = Stream(e)
  BY <1>3, <1>4 DEF Sees, First, Ahead
<1> QED
  BY <1>1, <1>2, <1>3, <1>5, NextHead

\* Between two frames the stream of a session goes on with the head of a
\* frame, whatever send_frame tore, receive refused and the handshake left
\* over, but for a frame refused at its length.
THEOREM AlwaysFramed == Spec => []Framed
<1>1. WebSocketInv => Framed
  BY InvFramed
<1> QED
  BY <1>1, WebSocketInvariant, PTL
=============================================================================
