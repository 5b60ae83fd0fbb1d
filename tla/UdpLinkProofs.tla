--------------------------- MODULE UdpLinkProofs ---------------------------
(***************************************************************************)
(* What an adapter counts, for any adapters, packets, limits and range of  *)
(* sequence numbers, whatever the network loses, duplicates or reorders.   *)
(***************************************************************************)
EXTENDS UdpLink, FiniteSetTheorems, TLAPS

-----------------------------------------------------------------------------
(* The inductive invariant *)

Counters == [has : BOOLEAN, last : Nat, received : Nat, lost : Nat, reordered : Nat]

Notes == [by : SUBSET Ends, first : Nat, all : SUBSET Nat]

\* Until an adapter has used up its numbers, the next one is that of its next
\* packet, and a datagram carries the number of its packet.
NumbersTrue ==
    /\ sends \in [Ends -> Nat]
    /\ next \in [Ends -> 0 .. SeqMod - 1]
    /\ \A e \in Ends : sends[e] < SeqMod - 1 => next[e] = sends[e] + 1
    /\ \A d \in net :
          /\ d.by \in Ends /\ d.n \in Nat /\ d.seq \in Nat
          /\ sends[d.by] < SeqMod => d.seq = d.n

MissingOf(h, s) == (h.first .. s.last) \ h.all

\* What the counters of one adapter are worth while it hears b alone.
CountsTrue(h, s) ==
    /\ h.first <= s.last
    /\ \A n \in h.all : n <= s.last
    /\ Cardinality(MissingOf(h, s)) <= s.lost
    /\ s.lost <= Cardinality(MissingOf(h, s)) + s.reordered

\* The counters start again together with what was heard.
CountersTrue ==
    /\ stats \in [Ends -> Counters]
    /\ heard \in [Ends -> Notes]
    /\ \A e \in Ends :
          /\ IsFiniteSet(heard[e].by)
          /\ heard[e].by = {} => heard[e] = Nothing /\ stats[e] = NoStats
          /\ heard[e].by # {} => heard[e] # Nothing /\ stats[e].has
          /\ \A b \in Ends : heard[e].by = {b} /\ sends[b] < SeqMod =>
                CountsTrue(heard[e], stats[e])

WholePackets == {[by |-> b, n |-> n, size |-> Size(n)] : b \in Ends, n \in Nat}

ReturnedWhole == got \in [Ends -> SUBSET WholePackets]

LossInv == NumbersTrue /\ CountersTrue

-----------------------------------------------------------------------------
(* One datagram more *)

LEMMA CountedType ==
    ASSUME NEW s \in Counters, NEW q \in Nat
    PROVE  Counted(s, q) \in Counters
  BY DEF Counters, Counted

\* The first datagram after a reset.
LEMMA FirstCounted ==
    ASSUME NEW b, NEW n \in Nat
    PROVE  CountsTrue([by |-> {b}, first |-> n, all |-> {n}], Counted(NoStats, n))
<1> DEFINE h == [by |-> {b}, first |-> n, all |-> {n}]
           s == Counted(NoStats, n)
<1>1. s.last = n /\ s.lost = 0 /\ s.reordered = 0
  BY DEF Counted, NoStats
<1>2. MissingOf(h, s) = {}
  BY <1>1 DEF MissingOf
<1>3. h.all = {n} /\ h.first = n
  OBVIOUS
<1> HIDE DEF s, h
<1>4. CountsTrue(h, s)
  BY <1>1, <1>2, <1>3, FS_EmptySet DEF CountsTrue
<1> QED
  BY <1>4 DEF h, s

\* A later one: a gap before it is counted, the hole that it fills is one of
\* those counted before.
LEMMA NextCounted ==
    ASSUME NEW h \in Notes, NEW s \in Counters, NEW n \in Nat,
           s.has, CountsTrue(h, s)
    PROVE  CountsTrue([by |-> h.by, first |-> h.first, all |-> h.all \cup {n}],
                      Counted(s, n))
<1> DEFINE g == [by |-> h.by, first |-> h.first, all |-> h.all \cup {n}]
           t == Counted(s, n)
           M == MissingOf(h, s)
           N == MissingOf(g, t)
<1>1. /\ h.first \in Nat /\ h.all \subseteq Nat
      /\ s.last \in Nat /\ s.lost \in Nat /\ s.reordered \in Nat
  BY DEF Notes, Counters
<1>2. IsFiniteSet(M) /\ Cardinality(M) \in Nat
  <2>1. IsFiniteSet(h.first .. s.last)
    BY <1>1, FS_Interval
  <2> QED
    BY <2>1, FS_Subset, FS_CardinalityType DEF MissingOf
<1>3. h.first <= s.last /\ \A k \in h.all : k <= s.last
  BY DEF CountsTrue
<1>4. CASE n > s.last
  <2>1. /\ t.last = n /\ t.lost = s.lost + (n - s.last - 1)
        /\ t.reordered = s.reordered
    BY <1>1, <1>4 DEF Counted
  <2>2. N = M \cup (s.last + 1 .. n - 1) /\ M \cap (s.last + 1 .. n - 1) = {}
    BY <1>1, <1>3, <1>4, <2>1 DEF MissingOf
  <2>3. /\ IsFiniteSet(s.last + 1 .. n - 1)
        /\ Cardinality(s.last + 1 .. n - 1) = n - s.last - 1
    <3>1. s.last + 1 \in Int /\ n - 1 \in Int
      BY <1>1
    <3>2. /\ IsFiniteSet(s.last + 1 .. n - 1)
          /\ Cardinality(s.last + 1 .. n - 1) =
                IF s.last + 1 > n - 1 THEN 0 ELSE (n - 1) - (s.last + 1) + 1
      BY <3>1, FS_Interval
    <3> QED
      BY <1>1, <1>4, <3>2
  <2>4. Cardinality(N) = Cardinality(M) + (n - s.last - 1)
    <3>1. Cardinality(N) = Cardinality(M) + Cardinality(s.last + 1 .. n - 1) - Cardinality({})
      BY <1>2, <2>2, <2>3, FS_Union
    <3> HIDE DEF N, M
    <3> QED
      BY <1>1, <1>2, <2>3, <3>1, FS_EmptySet
  <2>5. g.first <= t.last /\ \A k \in g.all : k <= t.last
    BY <1>1, <1>3, <1>4, <2>1
  <2>6. Cardinality(M) <= s.lost /\ s.lost <= Cardinality(M) + s.reordered
    BY DEF CountsTrue
  <2> HIDE DEF N, M, t, g
  <2>7. Cardinality(N) <= t.lost /\ t.lost <= Cardinality(N) + t.reordered
    BY <1>1, <1>2, <1>4, <2>1, <2>4, <2>6
  <2> QED
    BY <2>5, <2>7 DEF CountsTrue, N, t, g
<1>5. CASE n <= s.last
  <2>1. /\ t.last = s.last /\ t.lost = s.lost
        /\ t.reordered = s.reordered + 1
    BY <1>1, <1>5 DEF Counted
  <2>2. N = M \ {n}
    BY <2>1 DEF MissingOf
  <2>3. Cardinality(N) \in {Cardinality(M), Cardinality(M) - 1}
    BY <1>2, <2>2, FS_RemoveElement
  <2>4. g.first <= t.last /\ \A k \in g.all : k <= t.last
    BY <1>3, <1>5, <2>1
  <2>5. Cardinality(M) <= s.lost /\ s.lost <= Cardinality(M) + s.reordered
    BY DEF CountsTrue
  <2> HIDE DEF N, M, t, g
  <2>6. Cardinality(N) <= t.lost /\ t.lost <= Cardinality(N) + t.reordered
    BY <1>1, <1>2, <2>1, <2>3, <2>5
  <2> QED
    BY <2>4, <2>6 DEF CountsTrue, N, t, g
<1> QED
  BY <1>1, <1>4, <1>5

-----------------------------------------------------------------------------
(* The steps of an adapter *)

\* What a datagram adds to the notes.
Noted(h, d) ==
    [by |-> h.by \cup {d.by},
     first |-> IF h = Nothing THEN d.n ELSE h.first,
     all |-> h.all \cup {d.n}]

\* A datagram that is counted keeps the counters true.
LEMMA CountKeeps ==
    ASSUME LossInv, NEW e \in Ends, NEW d \in net,
           stats' = [stats EXCEPT ![e] = Counted(@, d.seq)],
           heard' = [heard EXCEPT ![e] = Noted(@, d)],
           sends' = sends
    PROVE  CountersTrue'
<1> USE DEF LossInv, CountersTrue
<1>1. /\ d.by \in Ends /\ d.n \in Nat /\ d.seq \in Nat
      /\ sends[d.by] < SeqMod => d.seq = d.n
  BY DEF NumbersTrue
<1>2. heard[e] \in Notes /\ stats[e] \in Counters
  OBVIOUS
<1>3. Noted(heard[e], d) \in Notes
  BY <1>1, <1>2 DEF Notes, Noted
<1>4. stats' \in [Ends -> Counters] /\ heard' \in [Ends -> Notes]
  BY <1>1, <1>2, <1>3, CountedType
<1>5. /\ stats'[e] = Counted(stats[e], d.seq)
      /\ heard'[e] = Noted(heard[e], d)
      /\ \A f \in Ends \ {e} : stats'[f] = stats[f] /\ heard'[f] = heard[f]
  OBVIOUS
<1>6. /\ IsFiniteSet(heard'[e].by) /\ heard'[e].by # {}
      /\ heard'[e] # Nothing /\ stats'[e].has
  <2>1. heard'[e].by = heard[e].by \cup {d.by}
    BY <1>5 DEF Noted
  <2>2. IsFiniteSet(heard[e].by \cup {d.by})
    BY FS_AddElement
  <2>3. heard'[e].by # {} /\ Nothing.by = {}
    BY <2>1 DEF Nothing
  <2> QED
    BY <1>5, <2>1, <2>2, <2>3 DEF Counted
<1>7. ASSUME NEW b \in Ends, heard'[e].by = {b}, sends[b] < SeqMod
      PROVE  CountsTrue(heard'[e], stats'[e])
  <2>1. d.by = b /\ heard[e].by \subseteq {b}
    BY <1>5, <1>7 DEF Noted
  <2>2. d.seq = d.n
    BY <1>1, <1>7, <2>1
  <2>3. CASE heard[e].by = {}
    <3>1. heard[e] = Nothing /\ stats[e] = NoStats
      BY <2>3
    <3>2. heard'[e] = [by |-> {b}, first |-> d.n, all |-> {d.n}]
      BY <1>5, <2>1, <3>1 DEF Noted, Nothing
    <3>3. stats'[e] = Counted(NoStats, d.n)
      BY <1>5, <2>2, <3>1
    <3>4. CountsTrue([by |-> {b}, first |-> d.n, all |-> {d.n}], Counted(NoStats, d.n))
      BY <1>1, FirstCounted
    <3> QED
      BY <3>2, <3>3, <3>4, Zenon
  <2>4. CASE heard[e].by = {b}
    <3>1. heard[e] # Nothing /\ stats[e].has /\ CountsTrue(heard[e], stats[e])
      BY <1>7, <2>4
    <3>2. heard'[e] = [by |-> heard[e].by, first |-> heard[e].first,
                       all |-> heard[e].all \cup {d.n}]
      BY <1>5, <2>1, <2>4, <3>1, ZenonT(30) DEF Noted
    <3> QED
      BY <1>1, <1>2, <1>5, <2>2, <3>1, <3>2, NextCounted
  <2> QED
    BY <2>1, <2>3, <2>4
<1>8. ASSUME NEW f \in Ends
      PROVE  /\ IsFiniteSet(heard'[f].by)
             /\ heard'[f].by = {} => heard'[f] = Nothing /\ stats'[f] = NoStats
             /\ heard'[f].by # {} => heard'[f] # Nothing /\ stats'[f].has
             /\ \A b \in Ends : heard'[f].by = {b} /\ sends[b] < SeqMod =>
                    CountsTrue(heard'[f], stats'[f])
  <2>1. CASE f = e
    BY <1>6, <1>7, <2>1
  <2>2. CASE f # e
    BY <1>5, <2>2
  <2> QED
    BY <2>1, <2>2
<1> QED
  BY <1>4, <1>8 DEF Nothing, NoStats

\* Steps that count nothing: numbers may be used up meanwhile.
LEMMA UncountedKeeps ==
    ASSUME CountersTrue, UNCHANGED <<stats, heard>>,
           sends \in [Ends -> Nat], sends' \in [Ends -> Nat],
           \A e \in Ends : sends[e] <= sends'[e]
    PROVE  CountersTrue'
<1>1. \A b \in Ends : sends'[b] < SeqMod => sends[b] < SeqMod
  BY UdpAssumption
<1> QED
  BY <1>1 DEF CountersTrue

LEMMA NumbersKeep ==
    ASSUME NumbersTrue, UNCHANGED <<sends, next>>, net' \subseteq net
    PROVE  NumbersTrue'
  BY DEF NumbersTrue

LEMMA SendKeeps ==
    ASSUME LossInv, NEW e \in Ends, Send(e)
    PROVE  NumbersTrue' /\ CountersTrue'
<1> DEFINE n == sends[e] + 1
           d == [from |-> port[e], to |-> To(e), by |-> e, n |-> n, seq |-> next[e]]
<1>1. /\ net' \subseteq net \cup {d}
      /\ sends' = [sends EXCEPT ![e] = n]
      /\ next' = [next EXCEPT ![e] = SeqAfter(@)]
      /\ UNCHANGED <<stats, heard>>
  BY DEF Send
<1>2. /\ sends \in [Ends -> Nat] /\ next \in [Ends -> 0 .. SeqMod - 1]
      /\ sends[e] < SeqMod - 1 => next[e] = n
      /\ SeqMod \in Nat \ {0, 1}
  BY UdpAssumption DEF LossInv, NumbersTrue
<1>3. \A q \in 0 .. SeqMod - 1 : SeqAfter(q) \in 0 .. SeqMod - 1
                                 /\ (q < SeqMod - 1 => SeqAfter(q) = q + 1)
  BY <1>2 DEF SeqAfter
<1>4. sends' \in [Ends -> Nat] /\ next' \in [Ends -> 0 .. SeqMod - 1]
  BY <1>1, <1>2, <1>3
<1>5. \A f \in Ends : sends[f] <= sends'[f]
  BY <1>1, <1>2
<1>6. \A f \in Ends : sends'[f] < SeqMod - 1 => next'[f] = sends'[f] + 1
  BY <1>1, <1>2, <1>3 DEF LossInv, NumbersTrue
<1>7. ASSUME NEW c \in net'
      PROVE  /\ c.by \in Ends /\ c.n \in Nat /\ c.seq \in Nat
             /\ sends'[c.by] < SeqMod => c.seq = c.n
  <2>1. CASE c \in net
    BY <1>2, <1>4, <1>5, <2>1 DEF LossInv, NumbersTrue
  <2>2. CASE c = d
    BY <1>1, <1>2, <2>2
  <2> QED
    BY <1>1, <2>1, <2>2
<1> QED
  BY <1>1, <1>2, <1>4, <1>5, <1>6, <1>7, UncountedKeeps DEF LossInv, NumbersTrue

LEMMA ResetKeeps ==
    ASSUME LossInv, NEW e \in Ends, ResetStats(e)
    PROVE  NumbersTrue' /\ CountersTrue'
<1>1. /\ stats' = [stats EXCEPT ![e] = NoStats]
      /\ heard' = [heard EXCEPT ![e] = Nothing]
      /\ UNCHANGED <<net, sends, next>>
  BY DEF ResetStats
<1>2. NoStats \in Counters /\ Nothing \in Notes /\ Nothing.by = {}
  BY DEF NoStats, Counters, Nothing, Notes
<1>3. CountersTrue'
  BY <1>1, <1>2, FS_EmptySet DEF LossInv, CountersTrue
<1> QED
  BY <1>1, <1>3, NumbersKeep DEF LossInv

LEMMA ReceiveKeeps ==
    ASSUME LossInv, NEW e \in Ends, Receive(e)
    PROVE  NumbersTrue' /\ CountersTrue'
<1>1. PICK d \in net :
        /\ Arrives(d)
        /\ \/ ~Complete(e, d.n) /\ UNCHANGED <<stats, heard, got>>
           \/ /\ stats' = [stats EXCEPT ![e] = Counted(@, d.seq)]
              /\ heard' = [heard EXCEPT ![e] = Noted(@, d)]
  BY Zenon DEF Receive, Noted
<1>2. UNCHANGED <<sends, next>> /\ net' \subseteq net
  BY <1>1 DEF Receive, Arrives
<1>3. CountersTrue'
  <2>1. CASE UNCHANGED <<stats, heard>>
    BY <1>2, <2>1 DEF LossInv, CountersTrue
  <2>2. CASE /\ stats' = [stats EXCEPT ![e] = Counted(@, d.seq)]
             /\ heard' = [heard EXCEPT ![e] = Noted(@, d)]
    BY <1>2, <2>2, CountKeeps
  <2> QED
    BY <1>1, <2>1, <2>2
<1> QED
  BY <1>2, <1>3, NumbersKeep DEF LossInv

-----------------------------------------------------------------------------
(* The theorems *)

LEMMA LossInit == Init => LossInv
<1> SUFFICES ASSUME Init PROVE LossInv
  OBVIOUS
<1>1. NumbersTrue
  BY UdpAssumption DEF Init, NumbersTrue
<1>2. NoStats \in Counters /\ Nothing \in Notes /\ Nothing.by = {}
  BY DEF NoStats, Counters, Nothing, Notes
<1>3. CountersTrue
  BY <1>2, FS_EmptySet DEF Init, CountersTrue
<1> QED
  BY <1>1, <1>3 DEF LossInv

LEMMA LossStep == LossInv /\ [Next]_vars => LossInv'
<1> SUFFICES ASSUME LossInv, [Next]_vars PROVE LossInv'
  OBVIOUS
<1>1. ASSUME UNCHANGED <<stats, heard, sends, next>>, net' \subseteq net
      PROVE  LossInv'
  BY <1>1, NumbersKeep DEF LossInv, CountersTrue
<1>2. ASSUME NEW e \in Ends, Connect(e) PROVE LossInv'
  BY <1>1, <1>2 DEF Connect
<1>3. CASE Listen
  BY <1>1, <1>3 DEF Listen
<1>4. ASSUME NEW e \in Ends, Close(e) PROVE LossInv'
  BY <1>1, <1>4 DEF Close, AfterClose
<1>5. ASSUME NEW e \in Ends, ResetStats(e) PROVE LossInv'
  BY <1>5, ResetKeeps DEF LossInv
<1>6. ASSUME NEW e \in Ends, Send(e) PROVE LossInv'
  BY <1>6, SendKeeps DEF LossInv
<1>7. ASSUME NEW e \in Ends, Receive(e) PROVE LossInv'
  BY <1>7, ReceiveKeeps DEF LossInv
<1>8. CASE Lose
  BY <1>1, <1>8 DEF Lose
<1>9. CASE UNCHANGED vars
  BY <1>1, <1>9 DEF vars
<1> QED
  BY <1>2, <1>3, <1>4, <1>5, <1>6, <1>7, <1>8, <1>9 DEF Next

\* LossObserved for any number of adapters and any range of numbers: while
\* only one sender is heard and its numbers are not used up, the counters
\* bound what is missing from both sides.
THEOREM LossAlwaysObserved == Spec => []LossObserved
<1>1. LossInv => LossObserved
  <2> SUFFICES ASSUME LossInv, NEW e \in Ends, Cardinality(heard[e].by) = 1,
                      \A b \in heard[e].by : sends[b] < SeqMod
               PROVE  /\ \A n \in heard[e].all : n <= stats[e].last
                      /\ Cardinality(MissingOf(heard[e], stats[e])) <= stats[e].lost
                      /\ stats[e].lost <= Cardinality(MissingOf(heard[e], stats[e]))
                                            + stats[e].reordered
    BY DEF LossObserved, MissingOf
  <2>1. PICK b : heard[e].by = {b}
    BY FS_Singleton DEF LossInv, CountersTrue
  <2>2. b \in Ends
    BY <2>1 DEF LossInv, CountersTrue, Notes
  <2> QED
    BY <2>1, <2>2 DEF LossInv, CountersTrue, CountsTrue
<1> QED
  BY <1>1, LossInit, LossStep, PTL DEF Spec

LEMMA ReceiveWhole ==
    ASSUME NumbersTrue, ReturnedWhole, NEW e \in Ends, Receive(e)
    PROVE  ReturnedWhole'
<1> USE DEF ReturnedWhole
<1>1. PICK d \in net :
        \/ ~Complete(e, d.n) /\ UNCHANGED <<stats, heard, got>>
        \/ /\ Complete(e, d.n)
           /\ got' = [got EXCEPT ![e] = @ \cup
                {[by |-> d.by, n |-> d.n,
                  size |-> IF Size(d.n) <= Limit(e) THEN Size(d.n) ELSE Limit(e)]}]
  BY DEF Receive
<1>2. CASE got' = got
  BY <1>2
<1>3. CASE Complete(e, d.n) /\ got' # got
  <2>1. d.by \in Ends /\ d.n \in Nat
    BY DEF NumbersTrue
  <2>2. [by |-> d.by, n |-> d.n, size |-> Size(d.n)] \in WholePackets
    BY <2>1 DEF WholePackets
  <2>3. got' = [got EXCEPT ![e] = @ \cup {[by |-> d.by, n |-> d.n, size |-> Size(d.n)]}]
    BY <1>1, <1>3 DEF Complete
  <2> QED
    BY <2>2, <2>3
<1> QED
  BY <1>1, <1>2, <1>3

\* DeliveredWhole for all packets and limits: a datagram that was cut is
\* neither counted nor returned.
THEOREM AlwaysWhole == Spec => []DeliveredWhole
<1> DEFINE Inv == LossInv /\ ReturnedWhole
<1>1. Init => Inv
  BY LossInit DEF Init, ReturnedWhole
<1>2. Inv /\ [Next]_vars => Inv'
  <2> SUFFICES ASSUME Inv, [Next]_vars PROVE Inv'
    OBVIOUS
  <2>1. CASE \E e \in Ends : Receive(e)
    BY <2>1, LossStep, ReceiveWhole DEF LossInv
  <2>2. CASE ~ \E e \in Ends : Receive(e)
    <3>1. got' = got
      BY <2>2 DEF Next, Connect, Listen, Close, ResetStats, Send, Lose, vars
    <3> QED
      BY <3>1, LossStep DEF ReturnedWhole
  <2> QED
    BY <2>1, <2>2
<1>3. Inv => DeliveredWhole
  BY DEF ReturnedWhole, WholePackets, DeliveredWhole
<1> QED
  BY <1>1, <1>2, <1>3, PTL DEF Spec
=============================================================================
