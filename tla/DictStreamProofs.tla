-------------------------- MODULE DictStreamProofs --------------------------
(***************************************************************************)
(* Theorems about two runtimes with dictionaries.                          *)
(*                                                                         *)
(* First, whatever happens: types, and that every dictionary stays sound;  *)
(* then that every record is in one place, by a ledger of each channel.    *)
(* Last, the mode in which dictionaries are lossless: one end sends,       *)
(* nothing is lost, reused or batched, both ends start with the same       *)
(* settings, and a reset clears both.  The argument is a list D of         *)
(* dictionaries, one for each position on the wire: the sender stands at   *)
(* its end, the receiver where it has read to, and each packet leads from  *)
(* one to the next.                                                        *)
(***************************************************************************)
EXTENDS DictStream, DictionaryFacts

Unbatched == "batch" \notin Events

Narrow ==
    /\ \A p \in Peers : Setup(p).max < IdMod
    /\ \A set \in Settable : set.max < IdMod

\* The two ends are joined one way and begin alike; only what both learn of
\* happens.
OneWay ==
    /\ Events \subseteq {"delta", "resetBoth"}
    /\ Narrow
    /\ \A p \in Senders : Other(p) \notin Senders /\ Setup(Other(p)) = Setup(p)

\* The packet leads from dictionary d to dictionary e.
Follows(d, pkt, e) ==
    \/ pkt.kind = "reset" /\ e = Reset(d)
    \/ pkt.kind = "text" /\ e = Learn(d, pkt.value)
    \/ pkt.kind = "ref" /\ pkt.id \in DOMAIN d.valueOf /\ e = d

\* To a receiver with dictionary d it means what is among the records.
Meant(records, d, pkt) ==
    pkt.kind \in {"text", "ref"} =>
        pkt.n \in DOMAIN records /\ records[pkt.n].value = Decoded(d, pkt)

Track(p, D) ==
    /\ D \in [0 .. Len(wire[p]) -> Dictionaries]
    /\ dict[p] = D[Len(wire[p])]
    /\ dict[Other(p)] = D[taken[p]]
    /\ \A k \in 1 .. Len(wire[p]) :
          Follows(D[k - 1], wire[p][k], D[k]) /\ Meant(sent[p], D[k - 1], wire[p][k])

\* What is on the wire.
Packets == Texts \cup References \cup Controls \cup (IF Unbatched THEN {} ELSE Batches)

TypeSound ==
    /\ TypeOK
    /\ wire \in [Peers -> Seq(Packets)]
    /\ \A p \in Peers : Sound(dict[p]) /\ (Unbatched => batch[p] = <<>>)
    /\ \A p \in Peers, s \in Streams :
          lastString[p][s] # NoString => lastPacket[p][s] # NoPacket

OneWayInv ==
    /\ TypeSound
    /\ \A p \in Senders : \E D : Track(p, D)
    /\ \A p \in Peers \ Senders : wire[p] = <<>>
    /\ NeverMisread
    /\ NoneRefused

\* A list, whatever it is a list of.
IsList(s) == \E S : s \in Seq(S)

-----------------------------------------------------------------------------
(* Encoding and decoding one string *)

LEMMA Learned ==
    ASSUME NEW d, Sound(d), NEW v \in Strings
    PROVE  Sound(Learn(d, v)) /\ Learn(d, v).set = d.set
  BY Created DEF Learn

\* Whatever encode_string writes, a receiver in the same state reads back the
\* string and ends in the same state as the sender.
LEMMA Encoded ==
    ASSUME NEW d, Sound(d), NEW v \in Strings, NEW k \in Nat
    PROVE  LET r == Encode(d, v, k)
           IN  /\ Sound(r.dict)
               /\ r.packet \in Texts \cup References
               /\ r.packet.n = k
               /\ Follows(d, r.packet, r.dict)
               /\ Decoded(d, r.packet) = v
               /\ r.dict = Learn(d, v)
<1> DEFINE r == Encode(d, v, k)
<1>1. CASE Known(d, v)
  <2>1. r.dict = d /\ r.packet = Ref(d.idOf[v], k)
    BY <1>1 DEF Encode
  <2>2. /\ d.idOf[v] \in DOMAIN d.valueOf
        /\ d.valueOf[d.idOf[v]] = v
    BY <1>1, Resolves DEF Known, Sound
  <2>3. DOMAIN d.valueOf \subseteq Ids
    BY DictionaryParts, PartialMap DEF Sound, Linked
  <2>4. Learn(d, v) = d
    BY <1>1 DEF Known, Learn, CreateOrGet
  <2>5. /\ Ref(d.idOf[v], k) \in References
        /\ Ref(d.idOf[v], k).kind = "ref"
        /\ Ref(d.idOf[v], k).id = d.idOf[v]
        /\ Ref(d.idOf[v], k).n = k
    BY <2>2, <2>3 DEF Ref, References
  <2> HIDE DEF r
  <2> QED
    BY <2>1, <2>2, <2>4, <2>5 DEF Follows, Decoded, r
<1>2. CASE ~Known(d, v)
  <2>1. r.dict = Learn(d, v) /\ r.packet = Text(v, k)
    BY <1>2 DEF Encode, Learn
  <2>2. /\ Text(v, k) \in Texts
        /\ Text(v, k).kind = "text"
        /\ Text(v, k).value = v
        /\ Text(v, k).n = k
    BY DEF Text, Texts
  <2> HIDE DEF r
  <2> QED
    BY <2>1, <2>2, Learned DEF Follows, Decoded, r
<1> QED
  BY <1>1, <1>2

-----------------------------------------------------------------------------
(* Lists and the parts of a batch *)

LEMMA ListGrows ==
    ASSUME NEW s, IsList(s), NEW x
    PROVE  /\ IsList(Append(s, x))
           /\ Len(s) \in Nat /\ DOMAIN s = 1 .. Len(s)
           /\ Len(Append(s, x)) = Len(s) + 1
           /\ Append(s, x)[Len(s) + 1] = x
           /\ \A i \in 1 .. Len(s) : Append(s, x)[i] = s[i]
<1>1. PICK S : s \in Seq(S)
  BY DEF IsList
<1> DEFINE T == S \cup {x}
<1>2. s \in Seq(T) /\ x \in T
  BY <1>1
<1> HIDE DEF T
<1>3. Append(s, x) \in Seq(T)
  BY <1>2
<1> QED
  BY <1>2, <1>3 DEF IsList

LEMMA ListsJoin ==
    ASSUME NEW s, IsList(s), NEW g, IsList(g)
    PROVE  /\ IsList(s \o g)
           /\ Len(s) \in Nat /\ Len(g) \in Nat
           /\ Len(s \o g) = Len(s) + Len(g)
           /\ \A i \in 1 .. Len(s) : (s \o g)[i] = s[i]
           /\ \A i \in 1 .. Len(g) : (s \o g)[Len(s) + i] = g[i]
<1>1. PICK S, T : s \in Seq(S) /\ g \in Seq(T)
  BY DEF IsList
<1> DEFINE U == S \cup T
<1>2. s \in Seq(U) /\ g \in Seq(U)
  BY <1>1
<1> HIDE DEF U
<1>3. s \o g \in Seq(U)
  BY <1>2
<1>4. /\ Len(s) \in Nat /\ Len(g) \in Nat
      /\ Len(s \o g) = Len(s) + Len(g)
      /\ \A i \in 1 .. Len(s) : (s \o g)[i] = s[i]
  BY <1>2
<1>5. ASSUME NEW i \in 1 .. Len(g) PROVE (s \o g)[Len(s) + i] = g[i]
  BY <1>2, <1>4
<1> QED
  BY <1>3, <1>4, <1>5 DEF IsList

LEMMA Reaches ==
    ASSUME NEW m \in Nat, NEW G, 0 \in G, \A i \in 0 .. m - 1 : i \in G => i + 1 \in G
    PROVE  \A i \in 0 .. m : i \in G
<1> DEFINE T == {i \in 0 .. m : i \notin G}
<1>1. SUFFICES ASSUME T # {} PROVE FALSE
  OBVIOUS
<1>2. T \subseteq Nat
  OBVIOUS
<1> HIDE DEF T
<1>3. PICK x \in T : \A y \in T : x <= y
  BY <1>1, <1>2, Smallest
<1>4. x \in 0 .. m /\ x \notin G
  BY DEF T
<1>5. x - 1 \in 0 .. m - 1 /\ x - 1 \in 0 .. m /\ ~(x <= x - 1) /\ (x - 1) + 1 = x
  BY <1>4
<1>6. x - 1 \in G
  BY <1>3, <1>5 DEF T
<1> QED
  BY <1>4, <1>5, <1>6

Undecoded(d) == [dict |-> d, got |-> <<>>, failed |-> {}]

\* f gives what the first i parts were decoded to, for every i up to m.
Steps(f, d, parts, m) ==
    f = [i \in 0 .. m |-> IF i = 0 THEN Undecoded(d) ELSE DecodeNext(f[i - 1], parts[i])]

LEMMA BatchSteps ==
    ASSUME NEW d, NEW parts, Len(parts) \in Nat
    PROVE  \E f : Steps(f, d, parts, Len(parts)) /\ DecodeBatch(d, parts) = f[Len(parts)]
<1> DEFINE G == {m \in Nat : \E f : Steps(f, d, parts, m)}
<1>1. 0 \in G
  <2> DEFINE f == [i \in 0 .. 0 |-> Undecoded(d)]
  <2>1. Steps(f, d, parts, 0)
    BY DEF Steps
  <2> QED
    BY <2>1
<1>2. ASSUME NEW m \in 0 .. Len(parts) - 1, m \in G
      PROVE  m + 1 \in G
  <2>1. PICK f : Steps(f, d, parts, m)
    BY <1>2
  <2> DEFINE g == [i \in 0 .. m + 1 |->
                     IF i = m + 1 THEN DecodeNext(f[m], parts[m + 1]) ELSE f[i]]
  <2>2. ASSUME NEW i \in 0 .. m + 1
        PROVE  g[i] = IF i = 0 THEN Undecoded(d) ELSE DecodeNext(g[i - 1], parts[i])
    <3>1. CASE i = m + 1
      <4>1. i # 0 /\ i - 1 = m /\ m \in 0 .. m + 1 /\ m # m + 1
        BY <3>1
      <4> QED
        BY <3>1, <4>1
    <3>2. CASE i # m + 1
      <4>1. i \in 0 .. m
        BY <3>2
      <4>2. f[i] = IF i = 0 THEN Undecoded(d) ELSE DecodeNext(f[i - 1], parts[i])
        BY <2>1, <4>1 DEF Steps
      <4>3. i # 0 => i - 1 \in 0 .. m + 1 /\ i - 1 # m + 1
        BY <4>1
      <4>4. i # 0 => g[i - 1] = f[i - 1]
        BY <4>3
      <4>5. g[i] = f[i]
        BY <3>2
      <4> HIDE DEF g
      <4> QED
        BY <4>2, <4>4, <4>5
    <3> QED
      BY <3>1, <3>2
  <2>3. g = [i \in 0 .. m + 1 |->
               IF i = 0 THEN Undecoded(d) ELSE DecodeNext(g[i - 1], parts[i])]
    <3> DEFINE h == [i \in 0 .. m + 1 |->
                       IF i = 0 THEN Undecoded(d) ELSE DecodeNext(g[i - 1], parts[i])]
    <3>1. \A i \in 0 .. m + 1 : g[i] = h[i]
      BY <2>2
    <3> HIDE DEF Undecoded, DecodeNext
    <3>2. g = [i \in 0 .. m + 1 |-> g[i]] /\ h = [i \in 0 .. m + 1 |-> h[i]]
      OBVIOUS
    <3> HIDE DEF g, h
    <3>3. g = h
      BY <3>1, <3>2
    <3> QED
      BY <3>3 DEF h
  <2> HIDE DEF g
  <2>4. Steps(g, d, parts, m + 1)
    BY <2>3 DEF Steps
  <2> QED
    BY <2>4
<1> HIDE DEF G
<1>3. Len(parts) \in G
  <2>1. \A m \in 0 .. Len(parts) - 1 : m \in G => m + 1 \in G
    BY <1>2
  <2>2. \A i \in 0 .. Len(parts) : i \in G
    BY <1>1, <2>1, Reaches
  <2> QED
    BY <2>2
<1> DEFINE after == CHOOSE f : Steps(f, d, parts, Len(parts))
<1>4. Steps(after, d, parts, Len(parts))
  BY <1>3 DEF G
<1>5. DecodeBatch(d, parts) = after[Len(parts)]
  BY DEF DecodeBatch, Steps, Undecoded
<1> QED
  BY <1>4, <1>5
\* The parts are handed over up to some one, and the others are rejected.
Split(r, parts, i) ==
    \E m \in 0 .. i :
        /\ IsList(r.got) /\ Len(r.got) = m
        /\ \A j \in 1 .. m : r.got[j].n = parts[j].n
        /\ r.failed = {parts[j].n : j \in m + 1 .. i}

LEMMA BatchSplits ==
    ASSUME NEW d, NEW parts, IsList(parts)
    PROVE  Split(DecodeBatch(d, parts), parts, Len(parts))
<1> DEFINE L == Len(parts)
<1>0. L \in Nat
  BY ListGrows
<1>1. PICK f : Steps(f, d, parts, L) /\ DecodeBatch(d, parts) = f[L]
  BY <1>0, BatchSteps
<1> DEFINE G == {i \in 0 .. L : Split(f[i], parts, i)}
<1>2. 0 \in G
  <2>1. f[0] = Undecoded(d) /\ 0 \in 0 .. L
    BY <1>0, <1>1 DEF Steps
  <2>2. f[0].got = <<>> /\ f[0].failed = {}
    BY <2>1 DEF Undecoded
  <2>3. IsList(<<>>) /\ Len(<<>>) = 0
    <3>1. <<>> \in Seq({}) /\ Len(<<>>) = 0
      OBVIOUS
    <3> QED
      BY <3>1 DEF IsList
  <2>4. 0 + 1 .. 0 = {} /\ 1 .. 0 = {} /\ 0 \in 0 .. 0
    OBVIOUS
  <2>5. Split(f[0], parts, 0)
    BY <2>2, <2>3, <2>4 DEF Split
  <2> QED
    BY <2>1, <2>5
<1>3. ASSUME NEW i \in 0 .. L - 1, i \in G PROVE i + 1 \in G
  <2> DEFINE r == f[i]
             q == parts[i + 1]
             s == f[i + 1]
  <2>0. i + 1 \in 0 .. L /\ i + 1 # 0 /\ (i + 1) - 1 = i
    BY <1>0
  <2>1. s = DecodeNext(r, q)
    BY <1>1, <2>0 DEF Steps
  <2>2. PICK m \in 0 .. i :
          /\ IsList(r.got) /\ Len(r.got) = m
          /\ \A j \in 1 .. m : r.got[j].n = parts[j].n
          /\ r.failed = {parts[j].n : j \in m + 1 .. i}
    BY <1>3 DEF Split
  <2> HIDE DEF r, q, s
  <2>3. CASE r.failed = {} /\ Decodes(r.dict, q)
    <3>1. m = i
      <4>1. m # i => m + 1 \in m + 1 .. i
        OBVIOUS
      <4>2. m # i => parts[m + 1].n \in r.failed
        BY <2>2, <4>1
      <4> QED
        BY <2>3, <4>2
    <3> DEFINE x == [n |-> q.n, value |-> Decoded(r.dict, q)]
    <3>2. s.got = Append(r.got, x) /\ s.failed = {} /\ x.n = q.n
      BY <2>1, <2>3 DEF DecodeNext
    <3> HIDE DEF x
    <3>3. /\ IsList(s.got) /\ Len(s.got) = i + 1 /\ s.got[i + 1] = x
          /\ \A j \in 1 .. i : s.got[j] = r.got[j]
      BY <2>2, <3>1, <3>2, ListGrows
    <3>4. ASSUME NEW j \in 1 .. i + 1 PROVE s.got[j].n = parts[j].n
      <4>1. CASE j = i + 1
        BY <3>2, <3>3, <4>1 DEF q
      <4>2. CASE j # i + 1
        <5>1. j \in 1 .. i
          BY <4>2
        <5> QED
          BY <2>2, <3>1, <3>3, <5>1
      <4> QED
        BY <4>1, <4>2
    <3>5. (i + 1) + 1 .. i + 1 = {} /\ i + 1 \in 0 .. i + 1
      OBVIOUS
    <3>6. s.failed = {parts[j].n : j \in (i + 1) + 1 .. i + 1}
      BY <3>2, <3>5
    <3>7. Split(s, parts, i + 1)
      BY <3>3, <3>4, <3>5, <3>6 DEF Split
    <3> QED
      BY <2>0, <3>7 DEF s
  <2>4. CASE ~(r.failed = {} /\ Decodes(r.dict, q))
    <3>1. s.got = r.got /\ s.failed = r.failed \cup {q.n}
      BY <2>1, <2>4 DEF DecodeNext
    <3>2. m + 1 .. i + 1 = (m + 1 .. i) \cup {i + 1} /\ m \in 0 .. i + 1
      OBVIOUS
    <3>3. s.failed = {parts[j].n : j \in m + 1 .. i + 1}
      BY <2>2, <3>1, <3>2 DEF q
    <3>4. Split(s, parts, i + 1)
      BY <2>2, <3>1, <3>2, <3>3 DEF Split
    <3> QED
      BY <2>0, <3>4 DEF s
  <2> QED
    BY <2>3, <2>4
<1> HIDE DEF G
<1>4. L \in G
  <2>1. \A i \in 0 .. L - 1 : i \in G => i + 1 \in G
    BY <1>3
  <2> HIDE DEF L
  <2>2. \A i \in 0 .. L : i \in G
    BY <1>0, <1>2, <2>1, Reaches
  <2> QED
    BY <1>0, <2>2
<1> QED
  BY <1>1, <1>4 DEF G

-----------------------------------------------------------------------------
(* Types and sound dictionaries, whatever happens *)

LEMMA PacketKinds ==
    /\ \A pkt \in Texts : pkt.kind = "text" /\ pkt.value \in Strings /\ pkt.n \in Nat
    /\ \A pkt \in References : pkt.kind = "ref" /\ pkt.id \in Ids /\ pkt.n \in Nat
    /\ \A pkt \in Batches : pkt.kind = "batch" /\ pkt.parts \in Seq(Texts \cup References)
    /\ \A pkt \in Controls : pkt.kind = "reset"
    /\ \A v \in Strings, k \in Nat : Text(v, k) \in Texts
    /\ \A pkt \in Texts \cup References, k \in Nat :
          Again(pkt, k) \in Texts \cup References
<1>1. \A pkt \in Texts, k \in Nat : [pkt EXCEPT !.n = k] \in Texts
  BY DEF Texts
<1>2. \A pkt \in References, k \in Nat : [pkt EXCEPT !.n = k] \in References
  BY DEF References
<1> QED
  BY <1>1, <1>2 DEF Texts, References, Batches, Controls, Text, Again

LEMMA WireType ==
    ASSUME NEW w \in [Peers -> Seq(Packets)]
    PROVE  w \in [Peers -> Seq(Texts \cup References \cup Batches \cup Controls)]
<1>1. \A s \in Seq(Packets) : s \in Seq(Texts \cup References \cup Batches \cup Controls)
  BY DEF Packets
<1> QED
  BY <1>1

\* One sequence of a function grows by one element.
LEMMA Grows ==
    ASSUME NEW S, NEW T, NEW f \in [S -> Seq(T)], NEW p \in S, NEW x \in T
    PROVE  LET g == [f EXCEPT ![p] = Append(@, x)]
           IN  /\ g \in [S -> Seq(T)]
               /\ \A q \in S \ {p} : g[q] = f[q]
               /\ Len(f[p]) \in Nat /\ Len(g[p]) = Len(f[p]) + 1
               /\ g[p][Len(f[p]) + 1] = x
               /\ \A i \in 1 .. Len(f[p]) : g[p][i] = f[p][i]
               /\ DOMAIN f[p] = 1 .. Len(f[p]) /\ DOMAIN g[p] = 1 .. Len(f[p]) + 1
  OBVIOUS

\* A record is sent, whichever way: the state of the sender.
LEMMA RememberSound ==
    ASSUME TypeSound, NEW p \in Peers, NEW s \in Streams, NEW v \in Strings,
           NEW pkt \in Texts \cup References, Remember(p, s, v, pkt)
    PROVE  /\ p \in Senders
           /\ dict' \in [Peers -> Dictionaries]
           /\ \A q \in Peers : Sound(dict'[q])
           /\ dict' = [dict EXCEPT ![p] = Learn(dict[p], v)]
           /\ lastString' \in [Peers -> [Streams -> Strings \cup {NoString}]]
           /\ lastPacket' \in [Peers -> [Streams -> Texts \cup References \cup {NoPacket}]]
           /\ \A q \in Peers, r \in Streams :
                 lastString'[q][r] # NoString => lastPacket'[q][r] # NoPacket
           /\ sent' \in [Peers -> Seq([stream : Streams, value : Strings])]
           /\ sent' = [sent EXCEPT ![p] = Append(sent[p], [stream |-> s, value |-> v])]
           /\ UNCHANGED <<taken, controls, history>>
<1>0. /\ dict \in [Peers -> Dictionaries]
      /\ lastString \in [Peers -> [Streams -> Strings \cup {NoString}]]
      /\ lastPacket \in [Peers -> [Streams -> Texts \cup References \cup {NoPacket}]]
      /\ sent \in [Peers -> Seq([stream : Streams, value : Strings])]
      /\ \A q \in Peers : Sound(dict[q])
      /\ \A q \in Peers, r \in Streams :
            lastString[q][r] # NoString => lastPacket[q][r] # NoPacket
  BY DEF TypeSound, TypeOK
<1>1. Len(sent[p]) + 1 \in Nat
  BY <1>0
<1>2. Sound(Learn(dict[p], v)) /\ Base(p, v).dict = Learn(dict[p], v)
  BY <1>0, <1>1, Encoded, Learned DEF Base
<1>3. dict' = [dict EXCEPT ![p] = Learn(dict[p], v)]
  BY <1>2 DEF Remember
<1>4. dict' \in [Peers -> Dictionaries] /\ \A q \in Peers : Sound(dict'[q])
  <2>1. Learn(dict[p], v) \in Dictionaries
    BY <1>2 DEF Sound, Linked
  <2> QED
    BY <1>0, <1>2, <1>3, <2>1
<1>5. sent' = [sent EXCEPT ![p] = Append(sent[p], [stream |-> s, value |-> v])]
  BY DEF Remember
<1>6. sent' \in [Peers -> Seq([stream : Streams, value : Strings])]
  <2> DEFINE rec == [stream |-> s, value |-> v]
             All == [stream : Streams, value : Strings]
  <2>1. rec \in All
    OBVIOUS
  <2> HIDE DEF rec, All
  <2>2. sent \in [Peers -> Seq(All)]
    BY <1>0 DEF All
  <2>3. sent' = [sent EXCEPT ![p] = Append(@, rec)]
    BY <1>5 DEF rec
  <2>4. sent' \in [Peers -> Seq(All)]
    BY <2>1, <2>2, <2>3, Grows
  <2> QED
    BY <2>4 DEF All
<1>7. /\ lastString' = [lastString EXCEPT ![p] = [lastString[p] EXCEPT ![s] = v]]
      /\ lastPacket' = [lastPacket EXCEPT ![p] = [lastPacket[p] EXCEPT ![s] = pkt]]
  BY DEF Remember
<1>8. /\ lastString' \in [Peers -> [Streams -> Strings \cup {NoString}]]
      /\ lastPacket' \in [Peers -> [Streams -> Texts \cup References \cup {NoPacket}]]
  BY <1>0, <1>7
<1>9. \A q \in Peers, r \in Streams :
          lastString'[q][r] # NoString => lastPacket'[q][r] # NoPacket
  BY <1>0, <1>7, PacketAssumption
<1> QED
  BY <1>3, <1>4, <1>5, <1>6, <1>8, <1>9 DEF Remember

LEMMA EmitType ==
    ASSUME TypeSound, NEW p \in Peers, NEW pkt \in Packets, Emit(p, pkt)
    PROVE  /\ wire' \in [Peers -> Seq(Packets)]
           /\ \A q \in Peers : taken[q] <= Len(wire'[q])
<1>1. wire \in [Peers -> Seq(Packets)] /\ taken \in [Peers -> Nat]
      /\ \A q \in Peers : taken[q] <= Len(wire[q]) /\ Len(wire[q]) \in Nat
  BY DEF TypeSound, TypeOK, Packets
<1>2. wire' = [wire EXCEPT ![p] = Append(@, pkt)]
  BY DEF Emit
<1>3. /\ wire' \in [Peers -> Seq(Packets)]
      /\ \A q \in Peers \ {p} : wire'[q] = wire[q]
      /\ Len(wire'[p]) = Len(wire[p]) + 1
  BY <1>1, <1>2, Grows
<1>4. ASSUME NEW q \in Peers PROVE taken[q] <= Len(wire'[q])
  <2>1. taken[q] \in Nat /\ Len(wire[q]) \in Nat /\ taken[q] <= Len(wire[q])
    BY <1>1
  <2>2. CASE q = p
    BY <1>3, <2>1, <2>2
  <2>3. CASE q # p
    BY <1>3, <2>1, <2>3
  <2> QED
    BY <2>2, <2>3
<1> QED
  BY <1>3, <1>4

\* The parts of the state's type that the steps need.
LEMMA Sorts ==
    ASSUME TypeSound
    PROVE  /\ dict \in [Peers -> Dictionaries]
           /\ \A q \in Peers : Sound(dict[q]) /\ (Unbatched => batch[q] = <<>>)
           /\ wire \in [Peers -> Seq(Packets)]
           /\ batch \in [Peers -> Seq(Texts \cup References)]
           /\ taken \in [Peers -> Nat] /\ \A q \in Peers : taken[q] <= Len(wire[q])
           /\ controls \in 0 .. MaxControls
           /\ sent \in [Peers -> Seq([stream : Streams, value : Strings])]
           /\ delivered \in [Peers -> Seq([n : Nat, value : Strings])]
           /\ rejected \in [Peers -> SUBSET Nat]
           /\ lost \in [Peers -> SUBSET Nat]
  BY DEF TypeSound, TypeOK, Packets

LEMMA SendSound ==
    ASSUME TypeSound, NEW p \in Peers, NEW s \in Streams, NEW v \in Strings,
           SendStream(p, s, v)
    PROVE  TypeSound'
<1> DEFINE k == Len(sent[p]) + 1
<1>0. /\ Len(sent[p]) \in Nat /\ k \in Nat
      /\ Sound(dict[p])
      /\ lastPacket[p][s] \in Texts \cup References \cup {NoPacket}
  <2>1. /\ sent \in [Peers -> Seq([stream : Streams, value : Strings])]
        /\ lastPacket \in [Peers -> [Streams -> Texts \cup References \cup {NoPacket}]]
        /\ Sound(dict[p])
    BY DEF TypeSound, TypeOK
  <2>2. Len(sent[p]) \in Nat
    BY <2>1
  <2> QED
    BY <2>1, <2>2
<1>1. Base(p, v).packet \in Texts \cup References
  BY <1>0, Encoded DEF Base
<1>2. ASSUME NEW pkt \in Texts \cup References, NEW out \in Texts \cup References,
             Remember(p, s, v, pkt), Emit(p, out), UNCHANGED batch
      PROVE  TypeSound'
  <2>1. out \in Packets
    BY DEF Packets
  <2>2. /\ wire' \in [Peers -> Seq(Packets)]
        /\ \A q \in Peers : taken[q] <= Len(wire'[q])
    BY <1>2, <2>1, EmitType
  <2>3. UNCHANGED <<taken, controls, delivered, rejected, lost>>
    BY <1>2 DEF Remember, history
  <2> QED
    <3>1. /\ dict' \in [Peers -> Dictionaries]
          /\ \A q \in Peers : Sound(dict'[q])
          /\ lastString' \in [Peers -> [Streams -> Strings \cup {NoString}]]
          /\ lastPacket' \in [Peers -> [Streams -> Texts \cup References \cup {NoPacket}]]
          /\ \A q \in Peers, r \in Streams :
                lastString'[q][r] # NoString => lastPacket'[q][r] # NoPacket
          /\ sent' \in [Peers -> Seq([stream : Streams, value : Strings])]
      BY <1>2, RememberSound
    <3>2. /\ batch \in [Peers -> Seq(Texts \cup References)]
          /\ \A q \in Peers : Unbatched => batch[q] = <<>>
          /\ taken \in [Peers -> Nat] /\ controls \in 0 .. MaxControls
          /\ delivered \in [Peers -> Seq([n : Nat, value : Strings])]
          /\ rejected \in [Peers -> SUBSET Nat]
          /\ lost \in [Peers -> SUBSET Nat]
      BY DEF TypeSound, TypeOK
    <3>3. wire' \in [Peers -> Seq(Texts \cup References \cup Batches \cup Controls)]
      BY <2>2, WireType
    <3> QED
      BY <1>2, <2>2, <2>3, <3>1, <3>2, <3>3 DEF TypeSound, TypeOK
<1>3. CASE SendFull(p, s, v)
  BY <1>1, <1>2, <1>3 DEF SendFull
<1>4. CASE SendDelta(p, s, v)
  BY <1>0, <1>2, <1>4, PacketKinds DEF SendDelta
<1>5. CASE SendReuse(p, s, v)
  <2>1. lastPacket[p][s] \in Texts \cup References
    BY <1>0, <1>5, DictStreamAssumption DEF SendReuse, Repeats, TypeSound
  <2> QED
    BY <1>0, <1>1, <1>2, <1>5, <2>1, PacketKinds DEF SendReuse
<1>6. CASE SendBatched(p, s, v)
  <2> DEFINE pkt == Base(p, v).packet
             All == Texts \cup References
  <2>1. /\ Remember(p, s, v, pkt) /\ UNCHANGED wire /\ ~Unbatched
        /\ batch' = [batch EXCEPT ![p] = Append(@, pkt)]
    BY <1>6 DEF SendBatched, Unbatched
  <2>2. pkt \in All /\ batch \in [Peers -> Seq(All)]
    BY <1>1, Sorts
  <2> HIDE DEF pkt
  <2>3. batch' \in [Peers -> Seq(All)]
    <3> HIDE DEF All
    <3> QED
      BY <2>1, <2>2, Grows
  <2>4. UNCHANGED <<taken, controls, delivered, rejected, lost>>
    BY <2>1 DEF Remember, history
  <2>5. /\ dict' \in [Peers -> Dictionaries]
        /\ \A q \in Peers : Sound(dict'[q])
        /\ lastString' \in [Peers -> [Streams -> Strings \cup {NoString}]]
        /\ lastPacket' \in [Peers -> [Streams -> Texts \cup References \cup {NoPacket}]]
        /\ \A q \in Peers, r \in Streams :
              lastString'[q][r] # NoString => lastPacket'[q][r] # NoPacket
        /\ sent' \in [Peers -> Seq([stream : Streams, value : Strings])]
    BY <2>1, <2>2, RememberSound
  <2>6. /\ wire \in [Peers -> Seq(Packets)]
        /\ wire \in [Peers -> Seq(Texts \cup References \cup Batches \cup Controls)]
        /\ taken \in [Peers -> Nat] /\ \A q \in Peers : taken[q] <= Len(wire[q])
        /\ controls \in 0 .. MaxControls
        /\ delivered \in [Peers -> Seq([n : Nat, value : Strings])]
        /\ rejected \in [Peers -> SUBSET Nat]
        /\ lost \in [Peers -> SUBSET Nat]
    BY DEF TypeSound, TypeOK
  <2> QED
    BY <2>1, <2>3, <2>4, <2>5, <2>6 DEF TypeSound, TypeOK
<1> QED
  BY <1>3, <1>4, <1>5, <1>6 DEF SendStream

\* What arrives is the next packet on the wire.
LEMMA Arrives ==
    ASSUME TypeSound, NEW p \in Peers, Arrival(p)
    PROVE  /\ Len(wire[p]) \in Nat
           /\ taken[p] \in Nat /\ taken[p] + 1 \in 1 .. Len(wire[p])
           /\ Arriving(p) = wire[p][taken[p] + 1]
           /\ Arriving(p) \in Packets
           /\ taken' \in [Peers -> Nat]
           /\ taken'[p] = taken[p] + 1
           /\ \A q \in Peers \ {p} : taken'[q] = taken[q]
           /\ \A q \in Peers : taken'[q] <= Len(wire[q])
<1>1. /\ wire \in [Peers -> Seq(Packets)]
      /\ taken \in [Peers -> Nat] /\ \A q \in Peers : taken[q] <= Len(wire[q])
  BY Sorts
<1>2. taken[p] < Len(wire[p]) /\ taken' = [taken EXCEPT ![p] = @ + 1]
  BY DEF Arrival
<1>3. Len(wire[p]) \in Nat /\ taken[p] + 1 \in 1 .. Len(wire[p])
  BY <1>1, <1>2
<1>4. wire[p][taken[p] + 1] \in Packets
  BY <1>1, <1>3
<1>5. /\ taken'[p] = taken[p] + 1
      /\ \A q \in Peers \ {p} : taken'[q] = taken[q]
      /\ taken' \in [Peers -> Nat]
  BY <1>1, <1>2
<1>6. ASSUME NEW q \in Peers PROVE taken'[q] <= Len(wire[q])
  <2>1. CASE q = p
    BY <1>3, <1>5, <2>1
  <2>2. CASE q # p
    BY <1>1, <1>5, <2>2
  <2> QED
    BY <2>1, <2>2
<1> QED
  BY <1>1, <1>3, <1>4, <1>5, <1>6 DEF Arriving

\* The type survives a step that changes no more than this.
LEMMA SoundUpdate ==
    ASSUME TypeSound,
           dict' \in [Peers -> Dictionaries], \A q \in Peers : Sound(dict'[q]),
           wire' \in [Peers -> Seq(Packets)], taken' \in [Peers -> Nat],
           \A q \in Peers : taken'[q] <= Len(wire'[q]),
           controls' \in 0 .. MaxControls,
           delivered' \in [Peers -> Seq([n : Nat, value : Strings])],
           rejected' \in [Peers -> SUBSET Nat],
           lost' \in [Peers -> SUBSET Nat],
           UNCHANGED <<stream, sent>>
    PROVE  TypeSound'
<1>1. wire' \in [Peers -> Seq(Texts \cup References \cup Batches \cup Controls)]
  BY WireType
<1> QED
  BY <1>1 DEF TypeSound, TypeOK, stream

\* One dictionary is replaced by another that is sound.
LEMMA DictReplaced ==
    ASSUME TypeSound, NEW p \in Peers, NEW e, Sound(e),
           dict' = [dict EXCEPT ![p] = e]
    PROVE  /\ dict' \in [Peers -> Dictionaries]
           /\ \A q \in Peers : Sound(dict'[q])
           /\ dict'[p] = e /\ \A q \in Peers \ {p} : dict'[q] = dict[q]
<1>1. e \in Dictionaries
  BY DEF Sound, Linked
<1> QED
  BY <1>1, Sorts

\* A dictionary that is reset is sound.
LEMMA ResetSound ==
    ASSUME NEW d, Sound(d) PROVE Sound(Reset(d))
<1>1. d.set \in Settings /\ d.set.max < IdMod
  BY DictionaryParts DEF Sound, Linked
<1> QED
  BY <1>1, Emptied DEF Reset

\* One packet that can be decoded.
LEMMA PartDecoded ==
    ASSUME NEW d, Sound(d), NEW pkt \in Texts \cup References, Decodes(d, pkt)
    PROVE  Sound(Decode(d, pkt)) /\ Decoded(d, pkt) \in Strings /\ pkt.n \in Nat
<1>1. CASE pkt \in Texts
  BY <1>1, PacketKinds, Learned DEF Decode, Decoded
<1>2. CASE pkt \in References
  <2>1. pkt.kind = "ref" /\ pkt.n \in Nat /\ pkt.id \in DOMAIN d.valueOf
    BY <1>2, PacketKinds DEF Decodes
  <2>2. d.valueOf[pkt.id] \in Strings
    BY <2>1, DictionaryParts, PartialMap DEF Sound, Linked
  <2> QED
    BY <2>1, <2>2 DEF Decode, Decoded
<1> QED
  BY <1>1, <1>2

\* A batch, whichever of its parts fails first.
LEMMA BatchSound ==
    ASSUME NEW d, Sound(d), NEW parts \in Seq(Texts \cup References)
    PROVE  LET r == DecodeBatch(d, parts)
           IN  /\ Sound(r.dict)
               /\ r.got \in Seq([n : Nat, value : Strings])
               /\ r.failed \subseteq Nat
<1> DEFINE L == Len(parts)
           Gots == [n : Nat, value : Strings]
           Good(r) == Sound(r.dict) /\ r.got \in Seq(Gots) /\ r.failed \subseteq Nat
<1>0. L \in Nat /\ \A i \in 1 .. L : parts[i] \in Texts \cup References
  OBVIOUS
<1>1. PICK f : Steps(f, d, parts, L) /\ DecodeBatch(d, parts) = f[L]
  BY <1>0, BatchSteps
<1> DEFINE G == {i \in 0 .. L : Good(f[i])}
<1> HIDE DEF L
<1>2. 0 \in G
  <2>1. f[0] = Undecoded(d) /\ 0 \in 0 .. L
    BY <1>0, <1>1 DEF Steps
  <2>2. f[0].dict = d /\ f[0].got = <<>> /\ f[0].failed = {}
    BY <2>1 DEF Undecoded
  <2>3. <<>> \in Seq(Gots)
    OBVIOUS
  <2>4. Good(f[0])
    BY <2>2, <2>3
  <2> HIDE DEF Good
  <2> QED
    BY <2>1, <2>4
<1>3. ASSUME NEW i \in 0 .. L - 1, i \in G PROVE i + 1 \in G
  <2> DEFINE r == f[i]
             q == parts[i + 1]
             s == f[i + 1]
  <2>0. i + 1 \in 0 .. L /\ i + 1 # 0 /\ (i + 1) - 1 = i /\ i + 1 \in 1 .. L
    BY <1>0
  <2>1. s = DecodeNext(r, q)
    BY <1>1, <2>0 DEF Steps
  <2>2. Sound(r.dict) /\ r.got \in Seq(Gots) /\ r.failed \subseteq Nat
    BY <1>3
  <2>3. q \in Texts \cup References /\ q.n \in Nat
    BY <1>0, <2>0, PacketKinds
  <2> HIDE DEF r, q, s, G
  <2>4. CASE r.failed = {} /\ Decodes(r.dict, q)
    <3> DEFINE x == [n |-> q.n, value |-> Decoded(r.dict, q)]
    <3>1. /\ s.dict = Decode(r.dict, q) /\ s.got = Append(r.got, x) /\ s.failed = {}
      BY <2>1, <2>4 DEF DecodeNext
    <3>2. Sound(s.dict) /\ x \in Gots
      BY <2>2, <2>3, <2>4, <3>1, PartDecoded
    <3> HIDE DEF x, Gots
    <3>3. s.got \in Seq(Gots)
      BY <2>2, <3>1, <3>2
    <3> QED
      BY <2>0, <3>1, <3>2, <3>3 DEF G, s
  <2>5. CASE ~(r.failed = {} /\ Decodes(r.dict, q))
    <3>1. /\ s.dict = r.dict /\ s.got = r.got /\ s.failed = r.failed \cup {q.n}
      BY <2>1, <2>5 DEF DecodeNext
    <3> QED
      BY <2>0, <2>2, <2>3, <3>1 DEF G, s
  <2> QED
    BY <2>4, <2>5
<1>4. L \in G
  <2>1. \A i \in 0 .. L - 1 : i \in G => i + 1 \in G
    BY <1>3
  <2> HIDE DEF G
  <2>2. \A i \in 0 .. L : i \in G
    BY <1>0, <1>2, <2>1, Reaches
  <2> QED
    BY <1>0, <2>2
<1> QED
  BY <1>1, <1>4

LEMMA ReceiveSound ==
    ASSUME TypeSound, NEW p \in Peers, ReceiveStream(p)
    PROVE  TypeSound'
<1>0. /\ Other(p) \in Peers /\ Sound(dict[Other(p)])
  BY Sorts, DictStreamAssumption
<1>1. CASE Receive(p)
  <2> DEFINE pkt == Arriving(p)
             d == dict[Other(p)]
             got == [n |-> pkt.n, value |-> Decoded(d, pkt)]
             Gots == [n : Nat, value : Strings]
  <2>1. /\ Arrival(p) /\ Single(p) /\ Decodes(d, pkt)
        /\ dict' = [dict EXCEPT ![Other(p)] = Decode(d, pkt)]
        /\ delivered' = [delivered EXCEPT ![p] = Append(@, got)]
        /\ UNCHANGED <<rejected, lost>>
    BY <1>1 DEF Receive
  <2>2. UNCHANGED <<stream, wire, controls, sent>>
    BY <2>1 DEF Arrival
  <2>3. pkt \in Texts \cup References
    BY <2>1, Arrives, PacketKinds DEF Single, Packets
  <2>4. Sound(Decode(d, pkt)) /\ Decoded(d, pkt) \in Strings /\ pkt.n \in Nat
    BY <1>0, <2>1, <2>3, PartDecoded
  <2>5. got \in Gots
    BY <2>4
  <2> HIDE DEF got, Gots
  <2>6. delivered' \in [Peers -> Seq(Gots)]
    <3>1. delivered \in [Peers -> Seq(Gots)]
      BY Sorts DEF Gots
    <3> QED
      BY <2>1, <2>5, <3>1, Grows
  <2>7. dict' \in [Peers -> Dictionaries] /\ \A q \in Peers : Sound(dict'[q])
    BY <1>0, <2>1, <2>4, DictReplaced
  <2>8. /\ taken' \in [Peers -> Nat]
        /\ \A q \in Peers : taken'[q] <= Len(wire'[q])
    BY <2>1, <2>2, Arrives
  <2>9. delivered' \in [Peers -> Seq([n : Nat, value : Strings])]
    BY <2>6 DEF Gots
  <2> QED
    BY <2>1, <2>2, <2>7, <2>8, <2>9, Sorts, SoundUpdate
<1>2. CASE Reject(p)
  <2>1. /\ Arrival(p) /\ Single(p)
        /\ rejected' = [rejected EXCEPT ![p] = @ \cup {Arriving(p).n}]
        /\ UNCHANGED <<dict, delivered, lost>>
        /\ UNCHANGED <<stream, wire, controls, sent>>
    BY <1>2 DEF Reject, Arrival
  <2>2. Arriving(p).n \in Nat
    BY <2>1, Arrives, PacketKinds DEF Single, Packets
  <2>3. rejected' \in [Peers -> SUBSET Nat]
    BY <2>1, <2>2, Sorts
  <2>4. /\ taken' \in [Peers -> Nat]
        /\ \A q \in Peers : taken'[q] <= Len(wire'[q])
    BY <2>1, Arrives
  <2> QED
    BY <2>1, <2>3, <2>4, Sorts, SoundUpdate
<1>3. CASE ReceiveReset(p)
  <2>1. /\ Arrival(p)
        /\ dict' = [dict EXCEPT ![Other(p)] = Reset(dict[Other(p)])]
        /\ UNCHANGED <<delivered, rejected, lost>>
        /\ UNCHANGED <<stream, wire, controls, sent>>
    BY <1>3 DEF ReceiveReset, Arrival, history
  <2>2. dict' \in [Peers -> Dictionaries] /\ \A q \in Peers : Sound(dict'[q])
    BY <1>0, <2>1, ResetSound, DictReplaced
  <2>3. /\ taken' \in [Peers -> Nat]
        /\ \A q \in Peers : taken'[q] <= Len(wire'[q])
    BY <2>1, Arrives
  <2> QED
    BY <2>1, <2>2, <2>3, Sorts, SoundUpdate
<1>4. CASE ReceiveBatch(p)
  <2> DEFINE r == DecodeBatch(dict[Other(p)], Arriving(p).parts)
             Gots == [n : Nat, value : Strings]
  <2>1. /\ Arrival(p) /\ Arriving(p).kind = "batch"
        /\ dict' = [dict EXCEPT ![Other(p)] = r.dict]
        /\ delivered' = [delivered EXCEPT ![p] = @ \o r.got]
        /\ rejected' = [rejected EXCEPT ![p] = @ \cup r.failed]
        /\ UNCHANGED lost
        /\ UNCHANGED <<stream, wire, controls, sent>>
    BY <1>4 DEF ReceiveBatch, Arrival
  <2>2. Arriving(p) \in Batches
    BY <2>1, Arrives, PacketKinds DEF Packets
  <2>3. Sound(r.dict) /\ r.got \in Seq(Gots) /\ r.failed \subseteq Nat
    BY <1>0, <2>2, PacketKinds, BatchSound
  <2> HIDE DEF r
  <2>4. dict' \in [Peers -> Dictionaries] /\ \A q \in Peers : Sound(dict'[q])
    BY <1>0, <2>1, <2>3, DictReplaced
  <2>5. /\ taken' \in [Peers -> Nat]
        /\ \A q \in Peers : taken'[q] <= Len(wire'[q])
    BY <2>1, Arrives
  <2>6. delivered' \in [Peers -> Seq(Gots)] /\ rejected' \in [Peers -> SUBSET Nat]
    <3>1. delivered \in [Peers -> Seq(Gots)] /\ rejected \in [Peers -> SUBSET Nat]
      BY Sorts
    <3> HIDE DEF Gots
    <3> QED
      BY <2>1, <2>3, <3>1
  <2> QED
    BY <2>1, <2>4, <2>5, <2>6, Sorts, SoundUpdate
<1> QED
  BY <1>1, <1>2, <1>3, <1>4 DEF ReceiveStream

LEMMA OtherSound ==
    ASSUME TypeSound, Narrow, NEW p \in Peers,
           \/ Flush(p) \/ Lose(p) \/ SendReset(p) \/ ResetBoth(p)
           \/ \E set \in Settable : SetDictionary(p, set)
    PROVE  TypeSound'
<1>0. [kind |-> "reset"] \in Packets
  BY DEF Packets, Controls
<1>1. CASE Flush(p)
  <2> DEFINE x == [kind |-> "batch", parts |-> batch[p]]
             All == Texts \cup References
  <2>0. batch \in [Peers -> Seq(All)] /\ (Unbatched => batch[p] = <<>>)
    BY Sorts
  <2>1. /\ batch[p] # <<>> /\ Emit(p, x) /\ batch' = [batch EXCEPT ![p] = <<>>]
        /\ UNCHANGED <<dict, lastString, lastPacket, taken, controls, sent,
                       delivered, rejected, lost>>
    BY <1>1 DEF Flush, history
  <2>2. x \in Batches
    BY <2>0 DEF Batches
  <2>3. x \in Packets
    BY <2>0, <2>1, <2>2 DEF Packets
  <2> HIDE DEF x
  <2>4. wire' \in [Peers -> Seq(Packets)] /\ \A q \in Peers : taken[q] <= Len(wire'[q])
    BY <2>1, <2>3, EmitType
  <2>5. wire' \in [Peers -> Seq(Texts \cup References \cup Batches \cup Controls)]
    BY <2>4, WireType
  <2>6. /\ batch' \in [Peers -> Seq(All)]
        /\ \A q \in Peers : Unbatched => batch'[q] = <<>>
    <3>1. <<>> \in Seq(All) /\ \A q \in Peers : Unbatched => batch[q] = <<>>
      BY Sorts
    <3> HIDE DEF All
    <3> QED
      BY <2>0, <2>1, <3>1
  <2>7. /\ dict \in [Peers -> Dictionaries] /\ \A q \in Peers : Sound(dict[q])
        /\ lastString \in [Peers -> [Streams -> Strings \cup {NoString}]]
        /\ lastPacket \in [Peers -> [Streams -> Texts \cup References \cup {NoPacket}]]
        /\ \A q \in Peers, s \in Streams :
              lastString[q][s] # NoString => lastPacket[q][s] # NoPacket
        /\ taken \in [Peers -> Nat] /\ controls \in 0 .. MaxControls
        /\ sent \in [Peers -> Seq([stream : Streams, value : Strings])]
        /\ delivered \in [Peers -> Seq([n : Nat, value : Strings])]
        /\ rejected \in [Peers -> SUBSET Nat] /\ lost \in [Peers -> SUBSET Nat]
    BY DEF TypeSound, TypeOK
  <2> QED
    BY <2>1, <2>4, <2>5, <2>6, <2>7 DEF TypeSound, TypeOK
<1>2. CASE Lose(p)
  <2>1. /\ Arrival(p)
        /\ lost' = [lost EXCEPT ![p] = @ \cup {taken[p] + 1}]
        /\ UNCHANGED <<dict, delivered, rejected>>
        /\ UNCHANGED <<stream, wire, controls, sent>>
    BY <1>2 DEF Lose, Arrival
  <2>2. /\ taken[p] + 1 \in Nat /\ taken' \in [Peers -> Nat]
        /\ \A q \in Peers : taken'[q] <= Len(wire'[q])
    BY <2>1, Arrives
  <2>3. lost' \in [Peers -> SUBSET Nat]
    BY <2>1, <2>2, Sorts
  <2> QED
    BY <2>1, <2>2, <2>3, Sorts, SoundUpdate
<1>3. ASSUME NEW e \in Events, Control(e)
      PROVE  /\ controls' \in 0 .. MaxControls
             /\ UNCHANGED <<stream, taken, sent, delivered, rejected, lost>>
  <2>1. controls \in 0 .. MaxControls
    BY Sorts
  <2> QED
    BY <1>3, <2>1, DictStreamAssumption DEF Control, history
<1>4. CASE SendReset(p)
  <2>1. /\ Control("sendReset") /\ "sendReset" \in Events
        /\ Emit(p, [kind |-> "reset"]) /\ UNCHANGED dict
    BY <1>4 DEF SendReset, Control
  <2>2. wire' \in [Peers -> Seq(Packets)] /\ \A q \in Peers : taken[q] <= Len(wire'[q])
    BY <1>0, <2>1, EmitType
  <2> QED
    BY <1>3, <2>1, <2>2, Sorts, SoundUpdate
<1>5. CASE ResetBoth(p)
  <2>1. /\ Control("resetBoth") /\ "resetBoth" \in Events
        /\ Emit(p, [kind |-> "reset"])
        /\ dict' = [dict EXCEPT ![p] = Reset(dict[p])]
    BY <1>5 DEF ResetBoth, Control
  <2>2. wire' \in [Peers -> Seq(Packets)] /\ \A q \in Peers : taken[q] <= Len(wire'[q])
    BY <1>0, <2>1, EmitType
  <2>3. dict' \in [Peers -> Dictionaries] /\ \A q \in Peers : Sound(dict'[q])
    BY <2>1, Sorts, ResetSound, DictReplaced
  <2> QED
    BY <1>3, <2>1, <2>2, <2>3, Sorts, SoundUpdate
<1>6. ASSUME NEW set \in Settable, SetDictionary(p, set) PROVE TypeSound'
  <2>1. /\ Control("configure") /\ "configure" \in Events
        /\ dict' = [dict EXCEPT ![p] = Configure(dict[p], set)]
        /\ UNCHANGED wire
    BY <1>6 DEF SetDictionary, Control
  <2>2. Sound(Configure(dict[p], set))
    <3>1. set \in Settings /\ set.max < IdMod
      BY DictStreamAssumption DEF Narrow
    <3> QED
      BY <3>1, Sorts, Reconfigured
  <2>3. dict' \in [Peers -> Dictionaries] /\ \A q \in Peers : Sound(dict'[q])
    BY <2>1, <2>2, DictReplaced
  <2> QED
    BY <1>3, <2>1, <2>3, Sorts, SoundUpdate
<1> QED
  BY <1>1, <1>2, <1>4, <1>5, <1>6

LEMMA SoundInit ==
    ASSUME Narrow, Init PROVE TypeSound
<1>1. \A p \in Peers : Setup(p) \in Settings /\ Setup(p).max < IdMod
  BY DictStreamAssumption DEF Narrow
<1>2. \A p \in Peers : dict[p] = Empty(Setup(p)) /\ Sound(Empty(Setup(p)))
  BY <1>1, Emptied DEF Init
<1>3. dict \in [Peers -> Dictionaries]
  <2>1. \A p \in Peers : Empty(Setup(p)) \in Dictionaries
    BY <1>2 DEF Sound, Linked
  <2> QED
    BY <2>1 DEF Init
<1>4. /\ lastString \in [Peers -> [Streams -> Strings \cup {NoString}]]
      /\ lastPacket \in [Peers -> [Streams -> Texts \cup References \cup {NoPacket}]]
      /\ batch \in [Peers -> Seq(Texts \cup References)]
      /\ wire \in [Peers -> Seq(Packets)]
      /\ taken \in [Peers -> Nat] /\ \A p \in Peers : taken[p] <= Len(wire[p])
      /\ controls \in 0 .. MaxControls
      /\ sent \in [Peers -> Seq([stream : Streams, value : Strings])]
      /\ delivered \in [Peers -> Seq([n : Nat, value : Strings])]
      /\ rejected \in [Peers -> SUBSET Nat]
      /\ lost \in [Peers -> SUBSET Nat]
  BY DictStreamAssumption DEF Init
<1>5. \A p \in Peers, s \in Streams : lastString[p][s] = NoString
  BY DEF Init
<1>6. \A p \in Peers : batch[p] = <<>>
  BY DEF Init
<1> QED
  BY <1>2, <1>3, <1>4, <1>5, <1>6, WireType DEF TypeSound, TypeOK

LEMMA SoundStep ==
    ASSUME Narrow, TypeSound, [Next]_vars PROVE TypeSound'
<1>1. CASE UNCHANGED vars
  BY <1>1 DEF TypeSound, TypeOK, vars, stream, history
<1>2. ASSUME NEW p \in Peers, NEW s \in Streams, NEW v \in Strings, SendStream(p, s, v)
      PROVE  TypeSound'
  BY <1>2, SendSound
<1>3. ASSUME NEW p \in Peers, ReceiveStream(p) PROVE TypeSound'
  BY <1>3, ReceiveSound
<1>4. ASSUME NEW p \in Peers,
             \/ Flush(p) \/ Lose(p) \/ SendReset(p) \/ ResetBoth(p)
             \/ \E set \in Settable : SetDictionary(p, set)
      PROVE  TypeSound'
  BY <1>4, OtherSound
<1> QED
  BY <1>1, <1>2, <1>3, <1>4 DEF Next

LEMMA AlwaysSound ==
    ASSUME Narrow PROVE Spec => []TypeSound
  BY SoundInit, SoundStep, PTL DEF Spec

\* Every value of the state has its type, whatever is lost, reused, reset and
\* configured.
THEOREM DictStreamTypes ==
    ASSUME Narrow PROVE Spec => []TypeOK
<1>1. TypeSound => TypeOK
  BY DEF TypeSound
<1> QED
  BY <1>1, AlwaysSound, PTL

\* Whatever happens, what a dictionary would write it would read back:
\* a disagreement is always one between the two ends, never one inside a
\* dictionary.
THEOREM OwnReferences ==
    ASSUME Narrow PROVE Spec => []OwnRefsResolve
<1>1. TypeSound => OwnRefsResolve
  BY Resolves DEF TypeSound, Sound, OwnRefsResolve
<1> QED
  BY <1>1, AlwaysSound, PTL

-----------------------------------------------------------------------------
(* The ledger of a channel *)

\* The positions of a list at which record k is.
Held(s, k) == {i \in 1 .. Len(s) : s[i].n = k}

\* No record is twice in the list.
Distinct(s) == \A i, j \in 1 .. Len(s) : s[i].n = s[j].n => i = j

\* The positions of the packets with record k that are on their way or lost.
Pending(w, t, l, k) == {j \in (t + 1 .. Len(w)) \cup l : Carries(w[j], k)}

\* One of the four sets has one element, the others are empty.
Alone(D, R, W, B) ==
    \/ (\E x : D = {x}) /\ R = {} /\ W = {} /\ B = {}
    \/ D = {} /\ (\E x : R = {x}) /\ W = {} /\ B = {}
    \/ D = {} /\ R = {} /\ (\E x : W = {x}) /\ B = {}
    \/ D = {} /\ R = {} /\ W = {} /\ (\E x : B = {x})

Nowhere(D, R, W, B) == D = {} /\ R = {} /\ W = {} /\ B = {}

\* One channel: what is on its wire w, of which t packets were taken and those
\* at l lost, in the queue b, delivered, d, and rejected, r, are its first n
\* records, each in one place.
Ledger(w, t, l, b, d, r, n) ==
    /\ IsList(w) /\ IsList(b) /\ IsList(d)
    /\ t \in 0 .. Len(w) /\ l \subseteq 1 .. t /\ n \in Nat
    /\ \A j \in 1 .. Len(w) :
          w[j].kind = "batch" => IsList(w[j].parts) /\ Distinct(w[j].parts)
    /\ \A k \in 1 .. n : Alone(Held(d, k), r \cap {k}, Pending(w, t, l, k), Held(b, k))
    /\ \A k : k \notin 1 .. n =>
          Nowhere(Held(d, k), r \cap {k}, Pending(w, t, l, k), Held(b, k))

\* When packet x leaves the wire, delivered goes from d to e and the records f
\* are rejected: each record of x is either handed over or rejected.
Settles(x, d, e, f) ==
    \A k :
        /\ Carries(x, k) =>
              \/ k \notin f /\ (Held(d, k) = {} => \E i : Held(e, k) = {i})
              \/ k \in f /\ Held(e, k) = Held(d, k)
        /\ ~Carries(x, k) => k \notin f /\ Held(e, k) = Held(d, k)

LEMMA HeldGrows ==
    ASSUME NEW s, IsList(s), NEW x, NEW k
    PROVE  Held(Append(s, x), k) = Held(s, k) \cup (IF x.n = k THEN {Len(s) + 1} ELSE {})
<1> DEFINE u == Append(s, x)
<1>1. /\ Len(s) \in Nat /\ Len(u) = Len(s) + 1 /\ u[Len(s) + 1] = x
      /\ \A i \in 1 .. Len(s) : u[i] = s[i]
  BY ListGrows
<1> HIDE DEF u
<1>2. 1 .. Len(u) = 1 .. Len(s) \cup {Len(s) + 1}
  BY <1>1
<1>3. Held(u, k) = Held(s, k) \cup (IF x.n = k THEN {Len(s) + 1} ELSE {})
  BY <1>1, <1>2 DEF Held
<1> QED
  BY <1>3 DEF u

LEMMA HeldJoins ==
    ASSUME NEW s, IsList(s), NEW g, IsList(g), NEW k
    PROVE  Held(s \o g, k) = Held(s, k) \cup {Len(s) + i : i \in Held(g, k)}
<1> DEFINE u == s \o g
<1>1. /\ Len(s) \in Nat /\ Len(g) \in Nat /\ Len(u) = Len(s) + Len(g)
      /\ \A i \in 1 .. Len(s) : u[i] = s[i]
      /\ \A i \in 1 .. Len(g) : u[Len(s) + i] = g[i]
  BY ListsJoin
<1> HIDE DEF u
<1>2. ASSUME NEW i \in Held(u, k)
      PROVE  i \in Held(s, k) \cup {Len(s) + j : j \in Held(g, k)}
  <2>1. i \in 1 .. Len(u) /\ u[i].n = k
    BY DEF Held
  <2>2. CASE i <= Len(s)
    BY <1>1, <2>1, <2>2 DEF Held
  <2>3. CASE i > Len(s)
    <3>1. i - Len(s) \in 1 .. Len(g) /\ i = Len(s) + (i - Len(s))
      BY <1>1, <2>1, <2>3
    <3>2. i - Len(s) \in Held(g, k)
      BY <1>1, <2>1, <3>1 DEF Held
    <3> QED
      BY <3>1, <3>2
  <2> QED
    BY <1>1, <2>1, <2>2, <2>3
<1>3. ASSUME NEW i \in Held(s, k) PROVE i \in Held(u, k)
  BY <1>1 DEF Held
<1>4. ASSUME NEW j \in Held(g, k) PROVE Len(s) + j \in Held(u, k)
  <2>1. j \in 1 .. Len(g) /\ g[j].n = k
    BY DEF Held
  <2>2. Len(s) + j \in 1 .. Len(u)
    BY <1>1, <2>1
  <2> QED
    BY <1>1, <2>1, <2>2 DEF Held
<1>5. Held(u, k) = Held(s, k) \cup {Len(s) + i : i \in Held(g, k)}
  BY <1>2, <1>3, <1>4
<1> QED
  BY <1>5 DEF u

\* What is pending when a packet is added to the wire and when one leaves it.
LEMMA PendingGrows ==
    ASSUME NEW w, IsList(w), NEW t \in 0 .. Len(w), NEW l, l \subseteq 1 .. t, NEW x, NEW k
    PROVE  Pending(Append(w, x), t, l, k)
             = Pending(w, t, l, k) \cup (IF Carries(x, k) THEN {Len(w) + 1} ELSE {})
<1> DEFINE u == Append(w, x)
<1>1. /\ Len(w) \in Nat /\ Len(u) = Len(w) + 1 /\ u[Len(w) + 1] = x
      /\ \A i \in 1 .. Len(w) : u[i] = w[i]
  BY ListGrows
<1> HIDE DEF u
<1>2. (t + 1 .. Len(u)) \cup l = (t + 1 .. Len(w)) \cup l \cup {Len(w) + 1}
  BY <1>1
<1>3. (t + 1 .. Len(w)) \cup l \subseteq 1 .. Len(w)
  <2>1. \A j \in t + 1 .. Len(w) : j \in 1 .. Len(w)
    BY <1>1
  <2>2. \A j \in l : j \in 1 .. Len(w)
    BY <1>1
  <2> QED
    BY <2>1, <2>2
<1> HIDE DEF Carries
<1>4. Pending(u, t, l, k)
        = Pending(w, t, l, k) \cup (IF Carries(x, k) THEN {Len(w) + 1} ELSE {})
  BY <1>1, <1>2, <1>3 DEF Pending
<1> QED
  BY <1>4 DEF u

Shrinks(w, t, l, k) ==
    /\ Pending(w, t + 1, l, k) = Pending(w, t, l, k) \ {t + 1}
    /\ Pending(w, t + 1, l \cup {t + 1}, k) = Pending(w, t, l, k)
    /\ t + 1 \in Pending(w, t, l, k) <=> Carries(w[t + 1], k)
    /\ t + 1 \in 0 .. Len(w)
    /\ l \subseteq 1 .. t + 1 /\ l \cup {t + 1} \subseteq 1 .. t + 1

LEMMA PendingShrinks ==
    ASSUME NEW w, IsList(w), NEW t \in Nat, t < Len(w), NEW l \in SUBSET (1 .. t), NEW k
    PROVE  Shrinks(w, t, l, k)
<1>1. Len(w) \in Nat
  BY ListGrows
<1>2. t + 1 .. Len(w) = (t + 1 + 1 .. Len(w)) \cup {t + 1}
  BY <1>1
<1>3. t + 1 \notin l /\ t + 1 \notin t + 1 + 1 .. Len(w)
  OBVIOUS
<1>4. /\ Pending(w, t + 1, l, k) = Pending(w, t, l, k) \ {t + 1}
      /\ Pending(w, t + 1, l \cup {t + 1}, k) = Pending(w, t, l, k)
      /\ t + 1 \in Pending(w, t, l, k) <=> Carries(w[t + 1], k)
  <2> DEFINE rest == t + 1 + 1 .. Len(w)
             all == t + 1 .. Len(w)
             x == t + 1
  <2>1. all = rest \cup {x} /\ x \notin l /\ x \notin rest
    BY <1>2, <1>3
  <2>2. /\ Pending(w, t, l, k) = {j \in all \cup l : Carries(w[j], k)}
        /\ Pending(w, x, l, k) = {j \in rest \cup l : Carries(w[j], k)}
        /\ Pending(w, x, l \cup {x}, k) = {j \in rest \cup (l \cup {x}) : Carries(w[j], k)}
    BY DEF Pending
  <2> HIDE DEF rest, all, x
  <2>3. /\ Pending(w, x, l, k) = Pending(w, t, l, k) \ {x}
        /\ Pending(w, x, l \cup {x}, k) = Pending(w, t, l, k)
        /\ x \in Pending(w, t, l, k) <=> Carries(w[x], k)
    BY <2>1, <2>2
  <2> QED
    BY <2>3 DEF x
<1>5. /\ t + 1 \in 0 .. Len(w)
      /\ l \subseteq 1 .. t + 1 /\ l \cup {t + 1} \subseteq 1 .. t + 1
  BY <1>1
<1> QED
  BY <1>4, <1>5 DEF Shrinks

\* So a batch is settled: none of its records is twice in it.
LEMMA BatchSettles ==
    ASSUME NEW d, IsList(d), NEW x, x.kind = "batch", IsList(x.parts), Distinct(x.parts),
           NEW r, Split(r, x.parts, Len(x.parts))
    PROVE  IsList(d \o r.got) /\ Settles(x, d, d \o r.got, r.failed)
<1> DEFINE parts == x.parts
           L == Len(parts)
           e == d \o r.got
<1>0. L \in Nat /\ DOMAIN parts = 1 .. L
  BY ListGrows
<1>1. PICK m \in 0 .. L :
          /\ IsList(r.got) /\ Len(r.got) = m
          /\ \A j \in 1 .. m : r.got[j].n = parts[j].n
          /\ r.failed = {parts[j].n : j \in m + 1 .. L}
  BY DEF Split
<1>2. \A k : Carries(x, k) <=> \E i \in 1 .. L : parts[i].n = k
  BY <1>0 DEF Carries
<1>3. IsList(e)
  BY <1>1, ListsJoin
<1>4. \A k : Held(e, k) = Held(d, k) \cup {Len(d) + i : i \in Held(r.got, k)}
  BY <1>1, HeldJoins
<1>5. \A i, j \in 1 .. L : parts[i].n = parts[j].n => i = j
  BY DEF Distinct
<1> HIDE DEF parts, L, e
<1>6. ASSUME NEW k, Carries(x, k)
      PROVE  \/ k \notin r.failed /\ (Held(d, k) = {} => \E i : Held(e, k) = {i})
             \/ k \in r.failed /\ Held(e, k) = Held(d, k)
  <2>1. PICK i \in 1 .. L : parts[i].n = k
    BY <1>2, <1>6
  <2>2. CASE i <= m
    <3>1. Held(r.got, k) = {i}
      <4>1. i \in 1 .. m
        BY <1>0, <1>1, <2>2
      <4>2. \A j \in 1 .. m : j \in 1 .. L
        BY <1>0, <1>1
      <4> QED
        BY <1>1, <1>5, <2>1, <4>1, <4>2 DEF Held
    <3>2. k \notin r.failed
      <4>1. \A j \in m + 1 .. L : j \in 1 .. L /\ j # i
        BY <1>0, <1>1, <2>2
      <4> QED
        BY <1>1, <1>5, <2>1, <4>1
    <3>3. Held(d, k) = {} => Held(e, k) = {Len(d) + i}
      BY <1>4, <3>1
    <3> QED
      BY <3>2, <3>3
  <2>3. CASE ~(i <= m)
    <3>1. i \in m + 1 .. L
      BY <1>0, <1>1, <2>3
    <3>2. k \in r.failed
      BY <1>1, <2>1, <3>1
    <3>3. Held(r.got, k) = {}
      <4>1. \A j \in 1 .. m : j \in 1 .. L /\ j # i
        BY <1>0, <1>1, <2>3
      <4> QED
        BY <1>1, <1>5, <2>1, <4>1 DEF Held
    <3> QED
      BY <1>4, <3>2, <3>3
  <2> QED
    BY <2>2, <2>3
<1>7. ASSUME NEW k, ~Carries(x, k)
      PROVE  k \notin r.failed /\ Held(e, k) = Held(d, k)
  <2>1. (\A j \in m + 1 .. L : j \in 1 .. L) /\ (\A j \in 1 .. m : j \in 1 .. L)
    BY <1>0, <1>1
  <2>2. k \notin r.failed
    BY <1>1, <1>2, <1>7, <2>1
  <2>3. Held(r.got, k) = {}
    BY <1>1, <1>2, <1>7, <2>1 DEF Held
  <2> QED
    BY <1>4, <2>2, <2>3
<1>8. Settles(x, d, e, r.failed)
  BY <1>6, <1>7 DEF Settles
<1> QED
  BY <1>3, <1>8 DEF e

-----------------------------------------------------------------------------
(* What each kind of step does to the ledger of a channel *)

\* A record is sent at once.
LEMMA LedgerSends ==
    ASSUME NEW w, NEW t, NEW l, NEW b, NEW d, NEW r, NEW n, Ledger(w, t, l, b, d, r, n),
           NEW x, x.kind \in {"text", "ref"}, x.n = n + 1
    PROVE  Ledger(Append(w, x), t, l, b, d, r, n + 1)
<1> DEFINE u == Append(w, x)
<1>1. /\ IsList(w) /\ IsList(b) /\ IsList(d)
      /\ t \in 0 .. Len(w) /\ l \subseteq 1 .. t /\ n \in Nat
      /\ \A j \in 1 .. Len(w) :
            w[j].kind = "batch" => IsList(w[j].parts) /\ Distinct(w[j].parts)
      /\ \A k \in 1 .. n : Alone(Held(d, k), r \cap {k}, Pending(w, t, l, k), Held(b, k))
      /\ \A k : k \notin 1 .. n =>
            Nowhere(Held(d, k), r \cap {k}, Pending(w, t, l, k), Held(b, k))
  BY DEF Ledger
<1>2. /\ IsList(u) /\ Len(w) \in Nat /\ Len(u) = Len(w) + 1 /\ u[Len(w) + 1] = x
      /\ \A i \in 1 .. Len(w) : u[i] = w[i]
  BY <1>1, ListGrows
<1>3. \A k : Pending(u, t, l, k)
               = Pending(w, t, l, k) \cup (IF Carries(x, k) THEN {Len(w) + 1} ELSE {})
  BY <1>1, PendingGrows
<1> HIDE DEF u
<1>4. \A k : Carries(x, k) <=> k = n + 1
  BY DEF Carries
<1>5. ASSUME NEW j \in 1 .. Len(u), u[j].kind = "batch"
      PROVE  IsList(u[j].parts) /\ Distinct(u[j].parts)
  <2>1. j # Len(w) + 1
    BY <1>2, <1>5
  <2>2. j \in 1 .. Len(w)
    BY <1>2, <2>1
  <2> QED
    BY <1>1, <1>2, <1>5, <2>2
<1>6. ASSUME NEW k \in 1 .. n + 1
      PROVE  Alone(Held(d, k), r \cap {k}, Pending(u, t, l, k), Held(b, k))
  <2>1. CASE k = n + 1
    <3>1. k \notin 1 .. n
      BY <1>1, <2>1
    <3>2. Pending(u, t, l, k) = {Len(w) + 1}
      BY <1>1, <1>3, <1>4, <2>1, <3>1 DEF Nowhere
    <3> QED
      BY <1>1, <3>1, <3>2 DEF Nowhere, Alone
  <2>2. CASE k # n + 1
    <3>1. k \in 1 .. n
      BY <1>1, <2>2
    <3>2. Pending(u, t, l, k) = Pending(w, t, l, k)
      BY <1>3, <1>4, <2>2
    <3> QED
      BY <1>1, <3>1, <3>2
  <2> QED
    BY <2>1, <2>2
<1>7. ASSUME NEW k, k \notin 1 .. n + 1
      PROVE  Nowhere(Held(d, k), r \cap {k}, Pending(u, t, l, k), Held(b, k))
  <2>1. k \notin 1 .. n /\ k # n + 1
    BY <1>1, <1>7
  <2>2. Pending(u, t, l, k) = Pending(w, t, l, k)
    BY <1>3, <1>4, <2>1
  <2> QED
    BY <1>1, <2>1, <2>2
<1>8. t \in 0 .. Len(u) /\ n + 1 \in Nat
  BY <1>1, <1>2
<1>9. Ledger(u, t, l, b, d, r, n + 1)
  BY <1>1, <1>2, <1>5, <1>6, <1>7, <1>8 DEF Ledger
<1> QED
  BY <1>9 DEF u
\* A record is put into the queue.
LEMMA LedgerQueues ==
    ASSUME NEW w, NEW t, NEW l, NEW b, NEW d, NEW r, NEW n, Ledger(w, t, l, b, d, r, n),
           NEW x, x.n = n + 1
    PROVE  Ledger(w, t, l, Append(b, x), d, r, n + 1)
<1> DEFINE c == Append(b, x)
<1>1. /\ IsList(w) /\ IsList(b) /\ IsList(d)
      /\ t \in 0 .. Len(w) /\ l \subseteq 1 .. t /\ n \in Nat
      /\ \A j \in 1 .. Len(w) :
            w[j].kind = "batch" => IsList(w[j].parts) /\ Distinct(w[j].parts)
      /\ \A k \in 1 .. n : Alone(Held(d, k), r \cap {k}, Pending(w, t, l, k), Held(b, k))
      /\ \A k : k \notin 1 .. n =>
            Nowhere(Held(d, k), r \cap {k}, Pending(w, t, l, k), Held(b, k))
  BY DEF Ledger
<1>2. IsList(c)
  BY <1>1, ListGrows
<1>3. \A k : Held(c, k) = Held(b, k) \cup (IF x.n = k THEN {Len(b) + 1} ELSE {})
  BY <1>1, HeldGrows
<1> HIDE DEF c
<1>4. ASSUME NEW k \in 1 .. n + 1
      PROVE  Alone(Held(d, k), r \cap {k}, Pending(w, t, l, k), Held(c, k))
  <2>1. CASE k = n + 1
    <3>1. k \notin 1 .. n
      BY <1>1, <2>1
    <3>2. Held(c, k) = {Len(b) + 1}
      BY <1>1, <1>3, <2>1, <3>1 DEF Nowhere
    <3> QED
      BY <1>1, <3>1, <3>2 DEF Nowhere, Alone
  <2>2. CASE k # n + 1
    <3>1. k \in 1 .. n
      BY <1>1, <2>2
    <3>2. Held(c, k) = Held(b, k)
      BY <1>3, <2>2
    <3> QED
      BY <1>1, <3>1, <3>2
  <2> QED
    BY <2>1, <2>2
<1>5. ASSUME NEW k, k \notin 1 .. n + 1
      PROVE  Nowhere(Held(d, k), r \cap {k}, Pending(w, t, l, k), Held(c, k))
  <2>1. k \notin 1 .. n /\ k # n + 1
    BY <1>1, <1>5
  <2>2. Held(c, k) = Held(b, k)
    BY <1>3, <2>1
  <2> QED
    BY <1>1, <2>1, <2>2
<1>6. n + 1 \in Nat
  BY <1>1
<1>7. Ledger(w, t, l, c, d, r, n + 1)
  BY <1>1, <1>2, <1>4, <1>5, <1>6 DEF Ledger
<1> QED
  BY <1>7 DEF c

\* What goes out with no record in it moves none.
LEMMA LedgerControls ==
    ASSUME NEW w, NEW t, NEW l, NEW b, NEW d, NEW r, NEW n, Ledger(w, t, l, b, d, r, n),
           NEW x, x.kind = "reset"
    PROVE  Ledger(Append(w, x), t, l, b, d, r, n)
<1> DEFINE u == Append(w, x)
<1>1. /\ IsList(w) /\ IsList(b) /\ IsList(d)
      /\ t \in 0 .. Len(w) /\ l \subseteq 1 .. t /\ n \in Nat
      /\ \A j \in 1 .. Len(w) :
            w[j].kind = "batch" => IsList(w[j].parts) /\ Distinct(w[j].parts)
      /\ \A k \in 1 .. n : Alone(Held(d, k), r \cap {k}, Pending(w, t, l, k), Held(b, k))
      /\ \A k : k \notin 1 .. n =>
            Nowhere(Held(d, k), r \cap {k}, Pending(w, t, l, k), Held(b, k))
  BY DEF Ledger
<1>2. /\ IsList(u) /\ Len(w) \in Nat /\ Len(u) = Len(w) + 1 /\ u[Len(w) + 1] = x
      /\ \A i \in 1 .. Len(w) : u[i] = w[i]
  BY <1>1, ListGrows
<1>3. \A k : Pending(u, t, l, k) = Pending(w, t, l, k)
  <2>1. \A k : ~Carries(x, k)
    BY DEF Carries
  <2>2. \A k : Pending(u, t, l, k)
                 = Pending(w, t, l, k) \cup (IF Carries(x, k) THEN {Len(w) + 1} ELSE {})
    BY <1>1, PendingGrows
  <2> HIDE DEF u
  <2> QED
    BY <2>1, <2>2
<1> HIDE DEF u
<1>4. ASSUME NEW j \in 1 .. Len(u), u[j].kind = "batch"
      PROVE  IsList(u[j].parts) /\ Distinct(u[j].parts)
  <2>1. j # Len(w) + 1
    BY <1>2, <1>4
  <2>2. j \in 1 .. Len(w)
    BY <1>2, <2>1
  <2> QED
    BY <1>1, <1>2, <1>4, <2>2
<1>5. t \in 0 .. Len(u)
  BY <1>1, <1>2
<1>6. Ledger(u, t, l, b, d, r, n)
  BY <1>1, <1>2, <1>3, <1>4, <1>5 DEF Ledger
<1> QED
  BY <1>6 DEF u

\* The queue goes out as a batch.
LEMMA LedgerFlushes ==
    ASSUME NEW w, NEW t, NEW l, NEW b, NEW d, NEW r, NEW n, Ledger(w, t, l, b, d, r, n)
    PROVE  Ledger(Append(w, [kind |-> "batch", parts |-> b]), t, l, <<>>, d, r, n)
<1> DEFINE x == [kind |-> "batch", parts |-> b]
           u == Append(w, x)
<1>1. /\ IsList(w) /\ IsList(b) /\ IsList(d)
      /\ t \in 0 .. Len(w) /\ l \subseteq 1 .. t /\ n \in Nat
      /\ \A j \in 1 .. Len(w) :
            w[j].kind = "batch" => IsList(w[j].parts) /\ Distinct(w[j].parts)
      /\ \A k \in 1 .. n : Alone(Held(d, k), r \cap {k}, Pending(w, t, l, k), Held(b, k))
      /\ \A k : k \notin 1 .. n =>
            Nowhere(Held(d, k), r \cap {k}, Pending(w, t, l, k), Held(b, k))
  BY DEF Ledger
<1>2. /\ IsList(u) /\ Len(w) \in Nat /\ Len(u) = Len(w) + 1 /\ u[Len(w) + 1] = x
      /\ \A i \in 1 .. Len(w) : u[i] = w[i]
  BY <1>1, ListGrows
<1>3. DOMAIN b = 1 .. Len(b) /\ Len(b) \in Nat
  BY <1>1, ListGrows
<1>4. x.kind = "batch" /\ x.parts = b
  OBVIOUS
<1>5. \A k : Carries(x, k) <=> Held(b, k) # {}
  BY <1>3, <1>4 DEF Carries, Held
<1>6. \A k : Pending(u, t, l, k)
               = Pending(w, t, l, k) \cup (IF Carries(x, k) THEN {Len(w) + 1} ELSE {})
  BY <1>1, PendingGrows
<1>7. IsList(<<>>) /\ \A k : Held(<<>>, k) = {}
  <2>1. <<>> \in Seq({}) /\ Len(<<>>) = 0
    OBVIOUS
  <2> QED
    BY <2>1 DEF IsList, Held
<1> HIDE DEF u, x
<1>8. Distinct(b)
  <2> SUFFICES ASSUME NEW i \in 1 .. Len(b), NEW j \in 1 .. Len(b), b[i].n = b[j].n
               PROVE  i = j
    BY DEF Distinct
  <2> DEFINE k == b[i].n
  <2>1. i \in Held(b, k) /\ j \in Held(b, k)
    BY DEF Held
  <2> HIDE DEF k
  <2>2. k \in 1 .. n
    BY <1>1, <2>1 DEF Nowhere
  <2>3. \E y : Held(b, k) = {y}
    BY <1>1, <2>1, <2>2 DEF Alone
  <2> QED
    BY <2>1, <2>3
<1>9. ASSUME NEW j \in 1 .. Len(u), u[j].kind = "batch"
      PROVE  IsList(u[j].parts) /\ Distinct(u[j].parts)
  <2>1. CASE j = Len(w) + 1
    BY <1>1, <1>2, <1>4, <1>8, <2>1
  <2>2. CASE j # Len(w) + 1
    <3>1. j \in 1 .. Len(w)
      BY <1>2, <2>2
    <3> QED
      BY <1>1, <1>2, <1>9, <3>1
  <2> QED
    BY <2>1, <2>2
<1>10. ASSUME NEW k \in 1 .. n
       PROVE  Alone(Held(d, k), r \cap {k}, Pending(u, t, l, k), Held(<<>>, k))
  <2>1. Alone(Held(d, k), r \cap {k}, Pending(w, t, l, k), Held(b, k))
    BY <1>1
  <2>2. CASE Held(b, k) = {}
    <3>1. Pending(u, t, l, k) = Pending(w, t, l, k)
      BY <1>5, <1>6, <2>2
    <3> QED
      BY <1>7, <2>1, <2>2, <3>1
  <2>3. CASE Held(b, k) # {}
    <3>1. Held(d, k) = {} /\ r \cap {k} = {} /\ Pending(w, t, l, k) = {}
      BY <2>1, <2>3 DEF Alone
    <3>2. Pending(u, t, l, k) = {Len(w) + 1}
      BY <1>5, <1>6, <2>3, <3>1
    <3> QED
      BY <1>7, <3>1, <3>2 DEF Alone
  <2> QED
    BY <2>2, <2>3
<1>11. ASSUME NEW k, k \notin 1 .. n
       PROVE  Nowhere(Held(d, k), r \cap {k}, Pending(u, t, l, k), Held(<<>>, k))
  <2>1. Nowhere(Held(d, k), r \cap {k}, Pending(w, t, l, k), Held(b, k))
    BY <1>1, <1>11
  <2>2. Pending(u, t, l, k) = Pending(w, t, l, k)
    BY <1>5, <1>6, <2>1 DEF Nowhere
  <2> QED
    BY <1>7, <2>1, <2>2 DEF Nowhere
<1>12. t \in 0 .. Len(u)
  BY <1>1, <1>2
<1>13. Ledger(u, t, l, <<>>, d, r, n)
  BY <1>1, <1>2, <1>7, <1>9, <1>10, <1>11, <1>12 DEF Ledger
<1> QED
  BY <1>13 DEF u, x
\* A packet is received.
LEMMA LedgerTakes ==
    ASSUME NEW w, NEW t, NEW l, NEW b, NEW d, NEW r, NEW n, Ledger(w, t, l, b, d, r, n),
           t < Len(w), NEW e, IsList(e), NEW f, Settles(w[t + 1], d, e, f)
    PROVE  Ledger(w, t + 1, l, b, e, r \cup f, n)
<1>1. /\ IsList(w) /\ IsList(b) /\ IsList(d)
      /\ t \in 0 .. Len(w) /\ l \subseteq 1 .. t /\ n \in Nat
      /\ \A j \in 1 .. Len(w) :
            w[j].kind = "batch" => IsList(w[j].parts) /\ Distinct(w[j].parts)
      /\ \A k \in 1 .. n : Alone(Held(d, k), r \cap {k}, Pending(w, t, l, k), Held(b, k))
      /\ \A k : k \notin 1 .. n =>
            Nowhere(Held(d, k), r \cap {k}, Pending(w, t, l, k), Held(b, k))
  BY DEF Ledger
<1>2. /\ \A k : Pending(w, t + 1, l, k) = Pending(w, t, l, k) \ {t + 1}
      /\ \A k : t + 1 \in Pending(w, t, l, k) <=> Carries(w[t + 1], k)
      /\ t + 1 \in 0 .. Len(w) /\ l \subseteq 1 .. t + 1
  <2>1. IsList(w) /\ t \in Nat /\ t < Len(w) /\ l \in SUBSET (1 .. t)
    BY <1>1, ListGrows
  <2>2. \A k : Shrinks(w, t, l, k)
    BY <2>1, PendingShrinks
  <2> QED
    BY <2>2 DEF Shrinks
<1> DEFINE x == w[t + 1]
           j == t + 1
<1>3. ASSUME NEW k, ~Carries(x, k)
      PROVE  /\ Held(e, k) = Held(d, k) /\ (r \cup f) \cap {k} = r \cap {k}
             /\ Pending(w, j, l, k) = Pending(w, t, l, k)
  <2>1. Held(e, k) = Held(d, k) /\ k \notin f
    BY <1>3 DEF Settles
  <2>2. j \notin Pending(w, t, l, k) /\ Pending(w, j, l, k) = Pending(w, t, l, k) \ {j}
    BY <1>2, <1>3
  <2> HIDE DEF j, x
  <2> QED
    BY <2>1, <2>2
<1>4. ASSUME NEW k, Carries(x, k)
      PROVE  /\ k \in 1 .. n
             /\ Alone(Held(e, k), (r \cup f) \cap {k}, Pending(w, j, l, k), Held(b, k))
  <2>1. j \in Pending(w, t, l, k) /\ Pending(w, j, l, k) = Pending(w, t, l, k) \ {j}
    BY <1>2, <1>4
  <2>2. \/ k \notin f /\ (Held(d, k) = {} => \E i : Held(e, k) = {i})
        \/ k \in f /\ Held(e, k) = Held(d, k)
    BY <1>4 DEF Settles
  <2> HIDE DEF j, x
  <2>3. k \in 1 .. n
    BY <1>1, <2>1 DEF Nowhere
  <2>4. Held(d, k) = {} /\ r \cap {k} = {} /\ Held(b, k) = {} /\ \E y : Pending(w, t, l, k) = {y}
    BY <1>1, <2>1, <2>3 DEF Alone
  <2>5. Pending(w, j, l, k) = {}
    BY <2>1, <2>4
  <2>6. CASE k \notin f /\ \E i : Held(e, k) = {i}
    <3>1. (r \cup f) \cap {k} = {}
      BY <2>4, <2>6
    <3> QED
      BY <2>3, <2>4, <2>5, <2>6, <3>1 DEF Alone
  <2>7. CASE k \in f /\ Held(e, k) = {}
    <3>1. (r \cup f) \cap {k} = {k}
      BY <2>7
    <3> QED
      BY <2>3, <2>4, <2>5, <2>7, <3>1 DEF Alone
  <2> QED
    BY <2>2, <2>4, <2>6, <2>7
<1>5. \A k \in 1 .. n : Alone(Held(e, k), (r \cup f) \cap {k}, Pending(w, j, l, k), Held(b, k))
  BY <1>1, <1>3, <1>4
<1>6. ASSUME NEW k, k \notin 1 .. n
      PROVE  Nowhere(Held(e, k), (r \cup f) \cap {k}, Pending(w, j, l, k), Held(b, k))
  <2>1. ~Carries(x, k)
    BY <1>4, <1>6
  <2> QED
    BY <1>1, <1>3, <1>6, <2>1
<1> QED
  BY <1>1, <1>2, <1>5, <1>6 DEF Ledger

\* A packet is lost: its records stay where they are.
LEMMA LedgerLoses ==
    ASSUME NEW w, NEW t, NEW l, NEW b, NEW d, NEW r, NEW n, Ledger(w, t, l, b, d, r, n),
           t < Len(w)
    PROVE  Ledger(w, t + 1, l \cup {t + 1}, b, d, r, n)
<1>1. /\ IsList(w) /\ IsList(b) /\ IsList(d)
      /\ t \in 0 .. Len(w) /\ l \subseteq 1 .. t /\ n \in Nat
      /\ \A j \in 1 .. Len(w) :
            w[j].kind = "batch" => IsList(w[j].parts) /\ Distinct(w[j].parts)
      /\ \A k \in 1 .. n : Alone(Held(d, k), r \cap {k}, Pending(w, t, l, k), Held(b, k))
      /\ \A k : k \notin 1 .. n =>
            Nowhere(Held(d, k), r \cap {k}, Pending(w, t, l, k), Held(b, k))
  BY DEF Ledger
<1>2. /\ \A k : Pending(w, t + 1, l \cup {t + 1}, k) = Pending(w, t, l, k)
      /\ t + 1 \in 0 .. Len(w) /\ l \cup {t + 1} \subseteq 1 .. t + 1
  <2>1. IsList(w) /\ t \in Nat /\ t < Len(w) /\ l \in SUBSET (1 .. t)
    BY <1>1, ListGrows
  <2>2. \A k : Shrinks(w, t, l, k)
    BY <2>1, PendingShrinks
  <2> QED
    BY <2>2 DEF Shrinks
<1> QED
  BY <1>1, <1>2 DEF Ledger

\* Before anything is sent.
LEMMA LedgerStarts == Ledger(<<>>, 0, {}, <<>>, <<>>, {}, 0)
<1>1. <<>> \in Seq({}) /\ Len(<<>>) = 0
  OBVIOUS
<1>2. \A k : Held(<<>>, k) = {} /\ Pending(<<>>, 0, {}, k) = {} /\ {} \cap {k} = {}
  <2>1. 0 + 1 .. 0 = {} /\ 1 .. 0 = {}
    OBVIOUS
  <2> QED
    BY <1>1, <2>1 DEF Held, Pending
<1> QED
  BY <1>1, <1>2 DEF Ledger, IsList, Nowhere

\* A ledger says of every record that it is in one place.
LEMMA LedgerCounts ==
    ASSUME NEW p, Ledger(wire[p], taken[p], lost[p], batch[p], delivered[p], rejected[p], Len(sent[p])),
           NEW k \in 1 .. Len(sent[p])
    PROVE  Cardinality(Places(p, k)) = 1
<1> DEFINE D == Held(delivered[p], k)
           R == rejected[p] \cap {k}
           W == Pending(wire[p], taken[p], lost[p], k)
           B == Held(batch[p], k)
           Q == Places(p, k)
<1>1. Alone(D, R, W, B) /\ IsList(delivered[p]) /\ IsList(batch[p])
  BY DEF Ledger
<1>2. DOMAIN delivered[p] = 1 .. Len(delivered[p]) /\ DOMAIN batch[p] = 1 .. Len(batch[p])
  BY <1>1, ListGrows
<1>3. Q = {<<"delivered", i>> : i \in D} \cup {<<"rejected", i>> : i \in R}
            \cup {<<"wire", i>> : i \in W} \cup {<<"batch", i>> : i \in B}
  BY <1>2 DEF Places, Held, Pending
<1> HIDE DEF D, R, W, B, Q
<1>4. \E x : Q = {x}
  <2>1. CASE (\E x : D = {x}) /\ R = {} /\ W = {} /\ B = {}
    <3>1. PICK x : D = {x}
      BY <2>1
    <3>2. Q = {<<"delivered", x>>}
      BY <1>3, <2>1, <3>1
    <3> QED
      BY <3>2
  <2>2. CASE D = {} /\ (\E x : R = {x}) /\ W = {} /\ B = {}
    <3>1. PICK x : R = {x}
      BY <2>2
    <3>2. Q = {<<"rejected", x>>}
      BY <1>3, <2>2, <3>1
    <3> QED
      BY <3>2
  <2>3. CASE D = {} /\ R = {} /\ (\E x : W = {x}) /\ B = {}
    <3>1. PICK x : W = {x}
      BY <2>3
    <3>2. Q = {<<"wire", x>>}
      BY <1>3, <2>3, <3>1
    <3> QED
      BY <3>2
  <2>4. CASE D = {} /\ R = {} /\ W = {} /\ (\E x : B = {x})
    <3>1. PICK x : B = {x}
      BY <2>4
    <3>2. Q = {<<"batch", x>>}
      BY <1>3, <2>4, <3>1
    <3> QED
      BY <3>2
  <2> QED
    BY <1>1, <2>1, <2>2, <2>3, <2>4 DEF Alone
<1>5. Cardinality(Q) = 1
  BY <1>4, FS_Singleton
<1> QED
  BY <1>5 DEF Q

-----------------------------------------------------------------------------
(* Every channel has its ledger, whatever happens *)

\* A packet of one record.
IsPart(pkt) == (\E v, k : pkt = Text(v, k)) \/ (\E id, k : pkt = Ref(id, k))

Books(p) ==
    Ledger(wire[p], taken[p], lost[p], batch[p], delivered[p], rejected[p], Len(sent[p]))

AccountInv ==
    /\ DOMAIN wire = Peers /\ DOMAIN taken = Peers /\ DOMAIN batch = Peers
    /\ DOMAIN sent = Peers /\ DOMAIN delivered = Peers /\ DOMAIN rejected = Peers
    /\ DOMAIN lost = Peers /\ DOMAIN lastString = Peers /\ DOMAIN lastPacket = Peers
    /\ \A p \in Peers :
          /\ Books(p) /\ IsList(sent[p])
          /\ DOMAIN lastString[p] = Streams /\ DOMAIN lastPacket[p] = Streams
          /\ \A s \in Streams : lastString[p][s] # NoString => IsPart(lastPacket[p][s])

LEMMA PartLaws ==
    /\ \A v, k : IsPart(Text(v, k)) /\ Text(v, k).kind = "text" /\ Text(v, k).n = k
    /\ \A id, k : IsPart(Ref(id, k)) /\ Ref(id, k).kind = "ref" /\ Ref(id, k).n = k
    /\ \A pkt, k : IsPart(pkt) =>
          IsPart(Again(pkt, k)) /\ Again(pkt, k).kind \in {"text", "ref"} /\ Again(pkt, k).n = k
    /\ \A d, v, k : LET pkt == Encode(d, v, k).packet
                     IN  IsPart(pkt) /\ pkt.kind \in {"text", "ref"} /\ pkt.n = k
<1>1. \A v, k : IsPart(Text(v, k)) /\ Text(v, k).kind = "text" /\ Text(v, k).n = k
  <2>1. \A v, k : IsPart(Text(v, k))
    BY DEF IsPart
  <2> QED
    BY <2>1 DEF Text
<1>2. \A id, k : IsPart(Ref(id, k)) /\ Ref(id, k).kind = "ref" /\ Ref(id, k).n = k
  <2>1. \A id, k : IsPart(Ref(id, k))
    BY DEF IsPart
  <2> QED
    BY <2>1 DEF Ref
<1>3. ASSUME NEW pkt, NEW k, IsPart(pkt)
      PROVE  IsPart(Again(pkt, k)) /\ Again(pkt, k).kind \in {"text", "ref"} /\ Again(pkt, k).n = k
  <2>1. CASE \E v, j : pkt = Text(v, j)
    <3>1. PICK v, j : pkt = Text(v, j)
      BY <2>1
    <3>2. Again(pkt, k) = Text(v, k)
      BY <3>1 DEF Again, Text
    <3> QED
      BY <1>1, <3>2
  <2>2. CASE \E id, j : pkt = Ref(id, j)
    <3>1. PICK id, j : pkt = Ref(id, j)
      BY <2>2
    <3>2. Again(pkt, k) = Ref(id, k)
      BY <3>1 DEF Again, Ref
    <3> QED
      BY <1>2, <3>2
  <2> QED
    BY <1>3, <2>1, <2>2 DEF IsPart
<1>4. ASSUME NEW d, NEW v, NEW k
      PROVE  LET pkt == Encode(d, v, k).packet
             IN  IsPart(pkt) /\ pkt.kind \in {"text", "ref"} /\ pkt.n = k
  <2>1. Encode(d, v, k).packet = Ref(d.idOf[v], k) \/ Encode(d, v, k).packet = Text(v, k)
    BY DEF Encode
  <2> QED
    BY <1>1, <1>2, <2>1
<1> QED
  BY <1>1, <1>2, <1>3, <1>4
\* One value of a function is replaced.
LEMMA Replaced ==
    ASSUME NEW f, NEW S, DOMAIN f = S, NEW p \in S, NEW e, NEW g, g = [f EXCEPT ![p] = e]
    PROVE  DOMAIN g = S /\ g[p] = e /\ \A q \in S \ {p} : g[q] = f[q]
  OBVIOUS

\* The books of a channel are kept by a step that touches no other.
LEMMA BooksKept ==
    ASSUME AccountInv, NEW p \in Peers,
           DOMAIN wire' = Peers, DOMAIN taken' = Peers, DOMAIN batch' = Peers,
           DOMAIN sent' = Peers, DOMAIN delivered' = Peers, DOMAIN rejected' = Peers,
           DOMAIN lost' = Peers, DOMAIN lastString' = Peers, DOMAIN lastPacket' = Peers,
           \A q \in Peers \ {p} :
              /\ wire'[q] = wire[q] /\ taken'[q] = taken[q] /\ batch'[q] = batch[q]
              /\ sent'[q] = sent[q] /\ delivered'[q] = delivered[q]
              /\ rejected'[q] = rejected[q] /\ lost'[q] = lost[q]
              /\ lastString'[q] = lastString[q] /\ lastPacket'[q] = lastPacket[q],
           Ledger(wire'[p], taken'[p], lost'[p], batch'[p], delivered'[p], rejected'[p],
                  Len(sent'[p])),
           IsList(sent'[p]),
           DOMAIN lastString'[p] = Streams, DOMAIN lastPacket'[p] = Streams,
           \A s \in Streams : lastString'[p][s] # NoString => IsPart(lastPacket'[p][s])
    PROVE  AccountInv'
<1>1. ASSUME NEW q \in Peers
      PROVE  /\ Ledger(wire'[q], taken'[q], lost'[q], batch'[q], delivered'[q], rejected'[q],
                       Len(sent'[q]))
             /\ IsList(sent'[q])
             /\ DOMAIN lastString'[q] = Streams /\ DOMAIN lastPacket'[q] = Streams
             /\ \A s \in Streams : lastString'[q][s] # NoString => IsPart(lastPacket'[q][s])
  <2>1. CASE q = p
    BY <2>1
  <2>2. CASE q # p
    <3>1. /\ Ledger(wire[q], taken[q], lost[q], batch[q], delivered[q], rejected[q],
                    Len(sent[q]))
          /\ IsList(sent[q])
          /\ DOMAIN lastString[q] = Streams /\ DOMAIN lastPacket[q] = Streams
          /\ \A s \in Streams : lastString[q][s] # NoString => IsPart(lastPacket[q][s])
      BY DEF AccountInv, Books
    <3> QED
      BY <2>2, <3>1
  <2> QED
    BY <2>1, <2>2
<1> QED
  BY <1>1 DEF AccountInv, Books
LEMMA RememberBooks ==
    ASSUME AccountInv, NEW p \in Peers, NEW s \in Streams, NEW v, NEW pkt, IsPart(pkt),
           Remember(p, s, v, pkt)
    PROVE  /\ DOMAIN sent' = Peers /\ DOMAIN lastString' = Peers /\ DOMAIN lastPacket' = Peers
           /\ DOMAIN taken' = Peers /\ DOMAIN delivered' = Peers /\ DOMAIN rejected' = Peers
           /\ DOMAIN lost' = Peers
           /\ \A q \in Peers \ {p} :
                 /\ sent'[q] = sent[q] /\ taken'[q] = taken[q] /\ delivered'[q] = delivered[q]
                 /\ rejected'[q] = rejected[q] /\ lost'[q] = lost[q]
                 /\ lastString'[q] = lastString[q] /\ lastPacket'[q] = lastPacket[q]
           /\ taken'[p] = taken[p] /\ delivered'[p] = delivered[p]
           /\ rejected'[p] = rejected[p] /\ lost'[p] = lost[p]
           /\ IsList(sent'[p]) /\ Len(sent'[p]) = Len(sent[p]) + 1
           /\ DOMAIN lastString'[p] = Streams /\ DOMAIN lastPacket'[p] = Streams
           /\ \A r \in Streams : lastString'[p][r] # NoString => IsPart(lastPacket'[p][r])
<1>0. /\ DOMAIN sent = Peers /\ DOMAIN lastString = Peers /\ DOMAIN lastPacket = Peers
      /\ DOMAIN taken = Peers /\ DOMAIN delivered = Peers /\ DOMAIN rejected = Peers
      /\ DOMAIN lost = Peers
      /\ IsList(sent[p])
      /\ DOMAIN lastString[p] = Streams /\ DOMAIN lastPacket[p] = Streams
      /\ \A r \in Streams : lastString[p][r] # NoString => IsPart(lastPacket[p][r])
  BY DEF AccountInv
<1> DEFINE x == [stream |-> s, value |-> v]
           u == Append(sent[p], x)
           ls == [lastString[p] EXCEPT ![s] = v]
           lp == [lastPacket[p] EXCEPT ![s] = pkt]
<1>1. /\ sent' = [sent EXCEPT ![p] = u]
      /\ lastString' = [lastString EXCEPT ![p] = ls]
      /\ lastPacket' = [lastPacket EXCEPT ![p] = lp]
      /\ UNCHANGED <<taken, delivered, rejected, lost>>
  BY DEF Remember, history
<1>2. IsList(u) /\ Len(u) = Len(sent[p]) + 1
  BY <1>0, ListGrows
<1>3. /\ DOMAIN ls = Streams /\ ls[s] = v /\ \A r \in Streams \ {s} : ls[r] = lastString[p][r]
      /\ DOMAIN lp = Streams /\ lp[s] = pkt /\ \A r \in Streams \ {s} : lp[r] = lastPacket[p][r]
  BY <1>0
<1>4. \A r \in Streams : ls[r] # NoString => IsPart(lp[r])
  BY <1>0, <1>3
<1> HIDE DEF u, ls, lp
<1>5. DOMAIN sent' = Peers /\ sent'[p] = u /\ \A q \in Peers \ {p} : sent'[q] = sent[q]
  BY <1>0, <1>1, Replaced
<1>6. DOMAIN lastString' = Peers /\ lastString'[p] = ls
      /\ \A q \in Peers \ {p} : lastString'[q] = lastString[q]
  BY <1>0, <1>1, Replaced
<1>7. DOMAIN lastPacket' = Peers /\ lastPacket'[p] = lp
      /\ \A q \in Peers \ {p} : lastPacket'[q] = lastPacket[q]
  BY <1>0, <1>1, Replaced
<1> QED
  BY <1>0, <1>1, <1>2, <1>3, <1>4, <1>5, <1>6, <1>7

\* A record that is sent at once or put into the queue is entered.
LEMMA SendBooks ==
    ASSUME AccountInv, NEW p \in Peers, NEW s \in Streams, NEW v \in Strings,
           SendStream(p, s, v)
    PROVE  AccountInv'
<1> DEFINE k == Len(sent[p]) + 1
           N == Len(sent[p])
<1>0. /\ DOMAIN wire = Peers /\ DOMAIN batch = Peers
      /\ Ledger(wire[p], taken[p], lost[p], batch[p], delivered[p], rejected[p], N)
      /\ lastString[p][s] # NoString => IsPart(lastPacket[p][s])
  BY DEF AccountInv, Books
<1>1. LET b == Base(p, v).packet IN IsPart(b) /\ b.kind \in {"text", "ref"} /\ b.n = k
  BY PartLaws DEF Base
<1>2. LET b == Text(v, k) IN IsPart(b) /\ b.kind \in {"text", "ref"} /\ b.n = k
  BY PartLaws
<1>3. ASSUME NEW pkt, IsPart(pkt), NEW out, out.kind \in {"text", "ref"}, out.n = k,
             Remember(p, s, v, pkt), Emit(p, out), UNCHANGED batch
      PROVE  AccountInv'
  <2> DEFINE u == Append(wire[p], out)
  <2>1. wire' = [wire EXCEPT ![p] = u]
    BY <1>3 DEF Emit
  <2>2. Ledger(u, taken[p], lost[p], batch[p], delivered[p], rejected[p], N + 1)
    BY <1>0, <1>3, LedgerSends
  <2> HIDE DEF u
  <2>3. DOMAIN wire' = Peers /\ wire'[p] = u /\ \A q \in Peers \ {p} : wire'[q] = wire[q]
    BY <1>0, <2>1, Replaced
  <2>4. /\ DOMAIN sent' = Peers /\ DOMAIN lastString' = Peers /\ DOMAIN lastPacket' = Peers
        /\ DOMAIN taken' = Peers /\ DOMAIN delivered' = Peers /\ DOMAIN rejected' = Peers
        /\ DOMAIN lost' = Peers
        /\ \A q \in Peers \ {p} :
              /\ sent'[q] = sent[q] /\ taken'[q] = taken[q] /\ delivered'[q] = delivered[q]
              /\ rejected'[q] = rejected[q] /\ lost'[q] = lost[q]
              /\ lastString'[q] = lastString[q] /\ lastPacket'[q] = lastPacket[q]
        /\ taken'[p] = taken[p] /\ delivered'[p] = delivered[p]
        /\ rejected'[p] = rejected[p] /\ lost'[p] = lost[p]
        /\ IsList(sent'[p]) /\ Len(sent'[p]) = N + 1
        /\ DOMAIN lastString'[p] = Streams /\ DOMAIN lastPacket'[p] = Streams
        /\ \A r \in Streams : lastString'[p][r] # NoString => IsPart(lastPacket'[p][r])
    BY <1>3, RememberBooks
  <2>5. batch' = batch
    BY <1>3
  <2>6. Ledger(wire'[p], taken'[p], lost'[p], batch'[p], delivered'[p], rejected'[p], Len(sent'[p]))
    BY <2>2, <2>3, <2>4, <2>5
  <2> HIDE DEF N
  <2> QED
    BY <1>0, <2>3, <2>4, <2>5, <2>6, BooksKept
<1>4. CASE SendFull(p, s, v)
  BY <1>1, <1>3, <1>4 DEF SendFull
<1>5. CASE SendDelta(p, s, v)
  BY <1>2, <1>3, <1>5 DEF SendDelta
<1>6. CASE SendReuse(p, s, v)
  <2>1. IsPart(lastPacket[p][s])
    BY <1>0, <1>6, DictStreamAssumption DEF SendReuse, Repeats
  <2> DEFINE out == Again(lastPacket[p][s], k)
  <2>2. out.kind \in {"text", "ref"} /\ out.n = k
    BY <2>1, PartLaws
  <2>3. Remember(p, s, v, Base(p, v).packet) /\ Emit(p, out) /\ UNCHANGED batch
    BY <1>6 DEF SendReuse
  <2> HIDE DEF out
  <2> QED
    BY <1>1, <1>3, <2>2, <2>3
<1>7. CASE SendBatched(p, s, v)
  <2> DEFINE x == Base(p, v).packet
             c == Append(batch[p], x)
  <2>1. Remember(p, s, v, x) /\ batch' = [batch EXCEPT ![p] = c] /\ UNCHANGED wire
    BY <1>7 DEF SendBatched
  <2>2. IsPart(x) /\ x.n = N + 1
    BY <1>1
  <2> HIDE DEF x
  <2>3. Ledger(wire[p], taken[p], lost[p], c, delivered[p], rejected[p], N + 1)
    BY <1>0, <2>2, LedgerQueues
  <2> HIDE DEF c
  <2>4. DOMAIN batch' = Peers /\ batch'[p] = c /\ \A q \in Peers \ {p} : batch'[q] = batch[q]
    BY <1>0, <2>1, Replaced
  <2>5. /\ DOMAIN sent' = Peers /\ DOMAIN lastString' = Peers /\ DOMAIN lastPacket' = Peers
        /\ DOMAIN taken' = Peers /\ DOMAIN delivered' = Peers /\ DOMAIN rejected' = Peers
        /\ DOMAIN lost' = Peers
        /\ \A q \in Peers \ {p} :
              /\ sent'[q] = sent[q] /\ taken'[q] = taken[q] /\ delivered'[q] = delivered[q]
              /\ rejected'[q] = rejected[q] /\ lost'[q] = lost[q]
              /\ lastString'[q] = lastString[q] /\ lastPacket'[q] = lastPacket[q]
        /\ taken'[p] = taken[p] /\ delivered'[p] = delivered[p]
        /\ rejected'[p] = rejected[p] /\ lost'[p] = lost[p]
        /\ IsList(sent'[p]) /\ Len(sent'[p]) = N + 1
        /\ DOMAIN lastString'[p] = Streams /\ DOMAIN lastPacket'[p] = Streams
        /\ \A r \in Streams : lastString'[p][r] # NoString => IsPart(lastPacket'[p][r])
    BY <2>1, <2>2, RememberBooks
  <2>6. wire' = wire
    BY <2>1
  <2>7. Ledger(wire'[p], taken'[p], lost'[p], batch'[p], delivered'[p], rejected'[p], Len(sent'[p]))
    BY <2>3, <2>4, <2>5, <2>6
  <2> HIDE DEF N
  <2> QED
    BY <1>0, <2>4, <2>5, <2>6, <2>7, BooksKept
<1> QED
  BY <1>4, <1>5, <1>6, <1>7 DEF SendStream
\* What arrives is settled.
LEMMA TakeBooks ==
    ASSUME AccountInv, NEW p \in Peers, Arrival(p),
           NEW e, IsList(e), NEW f, Settles(Arriving(p), delivered[p], e, f),
           DOMAIN delivered' = Peers, delivered'[p] = e,
           \A q \in Peers \ {p} : delivered'[q] = delivered[q],
           DOMAIN rejected' = Peers, rejected'[p] = rejected[p] \cup f,
           \A q \in Peers \ {p} : rejected'[q] = rejected[q],
           UNCHANGED lost
    PROVE  AccountInv'
<1> DEFINE t == taken[p]
           N == Len(sent[p])
           g == rejected[p] \cup f
           w == wire[p]
           d == delivered[p]
<1>0. /\ DOMAIN wire = Peers /\ DOMAIN taken = Peers /\ DOMAIN batch = Peers
      /\ DOMAIN sent = Peers /\ DOMAIN lost = Peers
      /\ DOMAIN lastString = Peers /\ DOMAIN lastPacket = Peers
      /\ Ledger(w, t, lost[p], batch[p], d, rejected[p], N)
      /\ IsList(sent[p])
      /\ DOMAIN lastString[p] = Streams /\ DOMAIN lastPacket[p] = Streams
      /\ \A s \in Streams : lastString[p][s] # NoString => IsPart(lastPacket[p][s])
  BY DEF AccountInv, Books
<1>1. /\ t < Len(w) /\ taken' = [taken EXCEPT ![p] = t + 1]
      /\ UNCHANGED <<lastString, lastPacket, batch, wire, sent>>
  BY DEF Arrival, stream
<1>2. Settles(w[t + 1], d, e, f)
  BY DEF Arriving
<1>3. delivered'[p] = e /\ rejected'[p] = g
  OBVIOUS
<1>4. Ledger(w, t + 1, lost[p], batch[p], e, g, N)
  <2> HIDE DEF w, t, N, d
  <2> QED
    BY <1>0, <1>1, <1>2, LedgerTakes
<1> HIDE DEF t, N, g
<1>5. DOMAIN taken' = Peers /\ taken'[p] = t + 1 /\ \A q \in Peers \ {p} : taken'[q] = taken[q]
  BY <1>0, <1>1, Replaced
<1>6. Ledger(wire'[p], taken'[p], lost'[p], batch'[p], delivered'[p], rejected'[p], Len(sent'[p]))
  BY <1>1, <1>3, <1>4, <1>5 DEF N
<1> HIDE DEF w, d
<1> QED
  BY <1>0, <1>1, <1>5, <1>6, BooksKept

LEMMA ReceiveBooks ==
    ASSUME AccountInv, NEW p \in Peers, ReceiveStream(p)
    PROVE  AccountInv'
<1> DEFINE x == Arriving(p)
           d == delivered[p]
<1>0. /\ DOMAIN delivered = Peers /\ DOMAIN rejected = Peers /\ IsList(d)
      /\ Ledger(wire[p], taken[p], lost[p], batch[p], d, rejected[p], Len(sent[p]))
  BY DEF AccountInv, Books, Ledger
<1>1. Single(p) => \A k : Carries(x, k) <=> k = x.n
  BY DEF Single, Carries
<1>2. CASE Receive(p)
  <2> DEFINE y == [n |-> x.n, value |-> Decoded(dict[Other(p)], x)]
             e == Append(d, y)
  <2>1. /\ Arrival(p) /\ Single(p) /\ UNCHANGED <<rejected, lost>>
        /\ delivered' = [delivered EXCEPT ![p] = e]
    BY <1>2 DEF Receive
  <2>2. y.n = x.n
    OBVIOUS
  <2> HIDE DEF x, y
  <2>3. IsList(e) /\ Len(d) \in Nat
    BY <1>0, ListGrows
  <2>4. \A k : Held(e, k) = Held(d, k) \cup (IF y.n = k THEN {Len(d) + 1} ELSE {})
    BY <1>0, HeldGrows
  <2> HIDE DEF e
  <2>5. Settles(x, d, e, {})
    BY <1>1, <2>1, <2>2, <2>4 DEF Settles
  <2>6. DOMAIN delivered' = Peers /\ delivered'[p] = e
        /\ \A q \in Peers \ {p} : delivered'[q] = delivered[q]
    BY <1>0, <2>1, Replaced
  <2>7. DOMAIN rejected' = Peers /\ rejected'[p] = rejected[p] \cup {}
        /\ \A q \in Peers \ {p} : rejected'[q] = rejected[q]
    BY <1>0, <2>1
  <2> QED
    BY <2>1, <2>3, <2>5, <2>6, <2>7, TakeBooks DEF x
<1>3. CASE Reject(p)
  <2> DEFINE g == rejected[p] \cup {x.n}
  <2>1. /\ Arrival(p) /\ Single(p) /\ UNCHANGED <<delivered, lost>>
        /\ rejected' = [rejected EXCEPT ![p] = g]
    BY <1>3 DEF Reject
  <2> HIDE DEF x
  <2>2. Settles(x, d, d, {x.n})
    BY <1>1, <2>1 DEF Settles
  <2>3. DOMAIN rejected' = Peers /\ rejected'[p] = g
        /\ \A q \in Peers \ {p} : rejected'[q] = rejected[q]
    BY <1>0, <2>1, Replaced
  <2>4. DOMAIN delivered' = Peers /\ delivered'[p] = d
        /\ \A q \in Peers \ {p} : delivered'[q] = delivered[q]
    BY <1>0, <2>1
  <2> QED
    BY <1>0, <2>1, <2>2, <2>3, <2>4, TakeBooks DEF x
<1>4. CASE ReceiveBatch(p)
  <2> DEFINE r == DecodeBatch(dict[Other(p)], x.parts)
             e == d \o r.got
             g == rejected[p] \cup r.failed
  <2>1. /\ Arrival(p) /\ x.kind = "batch" /\ UNCHANGED lost
        /\ delivered' = [delivered EXCEPT ![p] = e]
        /\ rejected' = [rejected EXCEPT ![p] = g]
    BY <1>4 DEF ReceiveBatch
  <2>2. IsList(x.parts) /\ Distinct(x.parts)
    <3>1. /\ IsList(wire[p]) /\ taken[p] \in 0 .. Len(wire[p]) /\ taken[p] < Len(wire[p])
          /\ \A j \in 1 .. Len(wire[p]) : wire[p][j].kind = "batch" =>
                IsList(wire[p][j].parts) /\ Distinct(wire[p][j].parts)
      BY <1>0, <2>1 DEF Ledger, Arrival
    <3>2. Len(wire[p]) \in Nat
      BY <3>1, ListGrows
    <3>3. taken[p] + 1 \in 1 .. Len(wire[p])
      BY <3>1, <3>2
    <3> QED
      BY <2>1, <3>1, <3>3 DEF Arriving
  <2> HIDE DEF x
  <2>3. Split(r, x.parts, Len(x.parts))
    BY <2>2, BatchSplits
  <2> HIDE DEF r
  <2>4. IsList(e) /\ Settles(x, d, e, r.failed)
    BY <1>0, <2>1, <2>2, <2>3, BatchSettles
  <2> HIDE DEF e
  <2>5. DOMAIN delivered' = Peers /\ delivered'[p] = e
        /\ \A q \in Peers \ {p} : delivered'[q] = delivered[q]
    BY <1>0, <2>1, Replaced
  <2>6. DOMAIN rejected' = Peers /\ rejected'[p] = g
        /\ \A q \in Peers \ {p} : rejected'[q] = rejected[q]
    BY <1>0, <2>1, Replaced
  <2> QED
    BY <2>1, <2>4, <2>5, <2>6, TakeBooks DEF x
<1>5. CASE ReceiveReset(p)
  <2>1. /\ Arrival(p) /\ x.kind = "reset" /\ UNCHANGED <<delivered, rejected, lost>>
    BY <1>5 DEF ReceiveReset, history
  <2> HIDE DEF x
  <2>2. Settles(x, d, d, {})
    BY <2>1 DEF Settles, Carries
  <2>3. DOMAIN rejected' = Peers /\ rejected'[p] = rejected[p] \cup {}
        /\ \A q \in Peers \ {p} : rejected'[q] = rejected[q]
    BY <1>0, <2>1
  <2>4. DOMAIN delivered' = Peers /\ delivered'[p] = d
        /\ \A q \in Peers \ {p} : delivered'[q] = delivered[q]
    BY <1>0, <2>1
  <2> QED
    BY <1>0, <2>1, <2>2, <2>3, <2>4, TakeBooks DEF x
<1> QED
  BY <1>2, <1>3, <1>4, <1>5 DEF ReceiveStream

LEMMA OtherBooks ==
    ASSUME AccountInv, NEW p \in Peers,
           \/ Flush(p) \/ Lose(p) \/ SendReset(p) \/ ResetBoth(p)
           \/ \E set \in Settable : SetDictionary(p, set)
    PROVE  AccountInv'
<1> DEFINE N == Len(sent[p])
<1>0. /\ DOMAIN wire = Peers /\ DOMAIN taken = Peers /\ DOMAIN batch = Peers
      /\ DOMAIN sent = Peers /\ DOMAIN delivered = Peers /\ DOMAIN rejected = Peers
      /\ DOMAIN lost = Peers /\ DOMAIN lastString = Peers /\ DOMAIN lastPacket = Peers
      /\ Ledger(wire[p], taken[p], lost[p], batch[p], delivered[p], rejected[p], N)
      /\ IsList(sent[p])
      /\ DOMAIN lastString[p] = Streams /\ DOMAIN lastPacket[p] = Streams
      /\ \A s \in Streams : lastString[p][s] # NoString => IsPart(lastPacket[p][s])
  BY DEF AccountInv, Books
<1>1. CASE Flush(p)
  <2> DEFINE u == Append(wire[p], [kind |-> "batch", parts |-> batch[p]])
             c == <<>>
  <2>1. /\ wire' = [wire EXCEPT ![p] = u] /\ batch' = [batch EXCEPT ![p] = c]
        /\ UNCHANGED <<lastString, lastPacket, taken, sent, delivered, rejected, lost>>
    BY <1>1 DEF Flush, Emit, history
  <2>2. Ledger(u, taken[p], lost[p], c, delivered[p], rejected[p], N)
    BY <1>0, LedgerFlushes
  <2> HIDE DEF u, c
  <2>3. DOMAIN wire' = Peers /\ wire'[p] = u /\ \A q \in Peers \ {p} : wire'[q] = wire[q]
    BY <1>0, <2>1, Replaced
  <2>4. DOMAIN batch' = Peers /\ batch'[p] = c /\ \A q \in Peers \ {p} : batch'[q] = batch[q]
    BY <1>0, <2>1, Replaced
  <2>5. Ledger(wire'[p], taken'[p], lost'[p], batch'[p], delivered'[p], rejected'[p], Len(sent'[p]))
    BY <2>1, <2>2, <2>3, <2>4
  <2> QED
    BY <1>0, <2>1, <2>3, <2>4, <2>5, BooksKept
<1>2. CASE Lose(p)
  <2> DEFINE t == taken[p]
             m == lost[p] \cup {t + 1}
  <2>1. /\ t < Len(wire[p])
        /\ taken' = [taken EXCEPT ![p] = t + 1] /\ lost' = [lost EXCEPT ![p] = m]
        /\ UNCHANGED <<lastString, lastPacket, batch, wire, sent, delivered, rejected>>
    BY <1>2 DEF Lose, Arrival, stream
  <2>2. Ledger(wire[p], t + 1, m, batch[p], delivered[p], rejected[p], N)
    <3> HIDE DEF N
    <3> QED
      BY <1>0, <2>1, LedgerLoses
  <2> HIDE DEF t, m
  <2>3. DOMAIN taken' = Peers /\ taken'[p] = t + 1 /\ \A q \in Peers \ {p} : taken'[q] = taken[q]
    BY <1>0, <2>1, Replaced
  <2>4. DOMAIN lost' = Peers /\ lost'[p] = m /\ \A q \in Peers \ {p} : lost'[q] = lost[q]
    BY <1>0, <2>1, Replaced
  <2>5. Ledger(wire'[p], taken'[p], lost'[p], batch'[p], delivered'[p], rejected'[p], Len(sent'[p]))
    BY <2>1, <2>2, <2>3, <2>4
  <2> QED
    BY <1>0, <2>1, <2>3, <2>4, <2>5, BooksKept
<1>3. CASE SendReset(p) \/ ResetBoth(p)
  <2> DEFINE x == [kind |-> "reset"]
             u == Append(wire[p], x)
  <2>1. /\ wire' = [wire EXCEPT ![p] = u]
        /\ UNCHANGED <<lastString, lastPacket, batch, taken, sent, delivered, rejected, lost>>
    BY <1>3 DEF SendReset, ResetBoth, Control, Emit, stream, history
  <2>2. x.kind = "reset"
    OBVIOUS
  <2> HIDE DEF x
  <2>3. Ledger(u, taken[p], lost[p], batch[p], delivered[p], rejected[p], N)
    BY <1>0, <2>2, LedgerControls
  <2> HIDE DEF u
  <2>4. DOMAIN wire' = Peers /\ wire'[p] = u /\ \A q \in Peers \ {p} : wire'[q] = wire[q]
    BY <1>0, <2>1, Replaced
  <2>5. Ledger(wire'[p], taken'[p], lost'[p], batch'[p], delivered'[p], rejected'[p], Len(sent'[p]))
    BY <2>1, <2>3, <2>4
  <2> QED
    BY <1>0, <2>1, <2>4, <2>5, BooksKept
<1>4. CASE \E set \in Settable : SetDictionary(p, set)
  <2>1. UNCHANGED <<lastString, lastPacket, batch, wire, taken, sent, delivered, rejected, lost>>
    BY <1>4 DEF SetDictionary, Control, stream, history
  <2> QED
    BY <2>1 DEF AccountInv, Books
<1> QED
  BY <1>1, <1>2, <1>3, <1>4

LEMMA AccountInit == ASSUME Init PROVE AccountInv
<1>1. /\ DOMAIN wire = Peers /\ DOMAIN taken = Peers /\ DOMAIN batch = Peers
      /\ DOMAIN sent = Peers /\ DOMAIN delivered = Peers /\ DOMAIN rejected = Peers
      /\ DOMAIN lost = Peers /\ DOMAIN lastString = Peers /\ DOMAIN lastPacket = Peers
  BY DEF Init
<1>2. ASSUME NEW p \in Peers
      PROVE  /\ wire[p] = <<>> /\ taken[p] = 0 /\ lost[p] = {} /\ batch[p] = <<>>
             /\ delivered[p] = <<>> /\ rejected[p] = {} /\ sent[p] = <<>>
             /\ DOMAIN lastString[p] = Streams /\ DOMAIN lastPacket[p] = Streams
             /\ \A s \in Streams : lastString[p][s] = NoString
  BY DEF Init
<1>3. Len(<<>>) = 0 /\ IsList(<<>>)
  <2>1. <<>> \in Seq({})
    OBVIOUS
  <2> QED
    BY <2>1 DEF IsList
<1> QED
  BY <1>1, <1>2, <1>3, LedgerStarts DEF AccountInv, Books

LEMMA AccountStep == ASSUME AccountInv, [Next]_vars PROVE AccountInv'
<1>1. CASE UNCHANGED vars
  BY <1>1 DEF AccountInv, Books, vars, stream, history
<1>2. ASSUME NEW p \in Peers, NEW s \in Streams, NEW v \in Strings, SendStream(p, s, v)
      PROVE  AccountInv'
  BY <1>2, SendBooks
<1>3. ASSUME NEW p \in Peers, ReceiveStream(p) PROVE AccountInv'
  BY <1>3, ReceiveBooks
<1>4. ASSUME NEW p \in Peers,
             \/ Flush(p) \/ Lose(p) \/ SendReset(p) \/ ResetBoth(p)
             \/ \E set \in Settable : SetDictionary(p, set)
      PROVE  AccountInv'
  BY <1>4, OtherBooks
<1> QED
  BY <1>1, <1>2, <1>3, <1>4 DEF Next

\* Whatever is lost, reused, queued, reset and configured, by however many
\* peers: a record is in one place, and never handed over twice.
THEOREM AlwaysAccounted == Spec => []Accounted
<1>1. AccountInv => Accounted
  <2> SUFFICES ASSUME AccountInv, NEW p \in Peers, NEW k \in DOMAIN sent[p]
               PROVE  Cardinality(Places(p, k)) = 1
    BY DEF Accounted
  <2>1. IsList(sent[p]) /\ Books(p)
    BY DEF AccountInv
  <2>2. k \in 1 .. Len(sent[p])
    BY <2>1, ListGrows
  <2> QED
    BY <2>1, <2>2, LedgerCounts DEF Books
<1>2. Init => AccountInv
  BY AccountInit
<1>3. AccountInv /\ [Next]_vars => AccountInv'
  BY AccountStep
<1> QED
  BY <1>1, <1>2, <1>3, PTL DEF Spec

-----------------------------------------------------------------------------
(* The lossless mode *)

\* The list of dictionaries grows by one with each packet, if only its sender
\* moves.
LEMMA TrackGrows ==
    ASSUME TypeSound, TypeSound', NEW p \in Senders, NEW D, Track(p, D),
           Other(p) # p,
           NEW pkt \in Packets, NEW e, Sound(e),
           Emit(p, pkt), dict' = [dict EXCEPT ![p] = e],
           Follows(dict[p], pkt, e),
           Meant(sent'[p], dict[p], pkt),
           DOMAIN sent[p] \subseteq DOMAIN sent'[p],
           \A i \in DOMAIN sent[p] : sent'[p][i] = sent[p][i],
           UNCHANGED taken
    PROVE  (\E F : Track(p, F))'
<1> DEFINE L == Len(wire[p])
<1>0. p \in Peers /\ Other(p) \in Peers
  BY DictStreamAssumption
<1>1. /\ wire \in [Peers -> Seq(Packets)] /\ L \in Nat
      /\ taken[p] \in 0 .. L
  BY <1>0, Sorts
<1>2. /\ Len(wire'[p]) = L + 1
      /\ wire'[p][L + 1] = pkt
      /\ \A k \in 1 .. L : wire'[p][k] = wire[p][k]
  <2>1. wire' = [wire EXCEPT ![p] = Append(@, pkt)]
    BY DEF Emit
  <2> QED
    BY <1>0, <1>1, <2>1, Grows
<1>3. e \in Dictionaries
  BY DEF Sound, Linked
<1>4. dict'[p] = e /\ dict'[Other(p)] = dict[Other(p)]
  BY <1>0, DictReplaced
<1>5. /\ D \in [0 .. L -> Dictionaries] /\ dict[p] = D[L] /\ dict[Other(p)] = D[taken[p]]
      /\ \A k \in 1 .. L :
            Follows(D[k - 1], wire[p][k], D[k]) /\ Meant(sent[p], D[k - 1], wire[p][k])
  BY DEF Track
<1>6. PICK F \in [0 .. L + 1 -> Dictionaries] :
          (\A k \in 0 .. L : F[k] = D[k]) /\ F[L + 1] = e
  <2> DEFINE G == [k \in 0 .. L + 1 |-> IF k <= L THEN D[k] ELSE e]
  <2>1. /\ G \in [0 .. L + 1 -> Dictionaries]
        /\ \A k \in 0 .. L : G[k] = D[k]
        /\ G[L + 1] = e
    BY <1>1, <1>3, <1>5
  <2> QED
    BY <2>1
<1>7. ASSUME NEW k \in 1 .. L + 1
      PROVE  Follows(F[k - 1], wire'[p][k], F[k]) /\ Meant(sent'[p], F[k - 1], wire'[p][k])
  <2>1. CASE k = L + 1
    <3>0. k - 1 = L /\ L \in 0 .. L
      BY <1>1, <2>1
    <3>1. F[k - 1] = dict[p] /\ F[k] = e /\ wire'[p][k] = pkt
      BY <1>2, <1>5, <1>6, <2>1, <3>0
    <3> QED
      BY <3>1 DEF Meant, Decoded
  <2>2. CASE k # L + 1
    <3>0. L \in Int /\ k \in Int /\ k >= 1 /\ k <= L + 1
      BY <1>1
    <3>1. k \in 1 .. L /\ k - 1 \in 0 .. L /\ k \in 0 .. L
      BY <2>2, <3>0
    <3>2. F[k - 1] = D[k - 1] /\ F[k] = D[k] /\ wire'[p][k] = wire[p][k]
      BY <1>2, <1>6, <3>1
    <3> QED
      BY <1>5, <3>1, <3>2 DEF Meant, Decoded
  <2> QED
    BY <2>1, <2>2
<1>8. dict'[p] = F[Len(wire'[p])] /\ dict'[Other(p)] = F[taken'[p]]
  BY <1>1, <1>2, <1>4, <1>5, <1>6
<1>9. Track(p, F)'
  BY <1>2, <1>6, <1>7, <1>8 DEF Track
<1> QED
  BY <1>9

\* The receiver takes the next step on the list.
LEMMA TrackMoves ==
    ASSUME TypeSound, NEW p \in Senders, NEW D, Track(p, D), Other(p) # p,
           Arrival(p), dict' = [dict EXCEPT ![Other(p)] = D[taken[p] + 1]]
    PROVE  Track(p, D)'
<1>0. p \in Peers /\ Other(p) \in Peers /\ dict \in [Peers -> Dictionaries]
  BY Sorts, DictStreamAssumption
<1>1. UNCHANGED <<wire, sent>> /\ taken'[p] = taken[p] + 1
  BY <1>0, Arrives DEF Arrival
<1>2. dict'[p] = dict[p] /\ dict'[Other(p)] = D[taken[p] + 1]
  BY <1>0
<1> QED
  BY <1>1, <1>2 DEF Track, Meant, Decoded

\* What does not touch the two ends of a channel leaves its list alone.
LEMMA TrackStays ==
    ASSUME NEW p \in Senders, NEW D, Track(p, D),
           dict'[p] = dict[p], dict'[Other(p)] = dict[Other(p)],
           wire'[p] = wire[p], taken'[p] = taken[p], sent'[p] = sent[p]
    PROVE  Track(p, D)'
  BY DEF Track, Meant, Decoded

\* A channel of a sender does not run to itself or to another sender.
LEMMA Apart ==
    ASSUME OneWay, NEW p \in Senders, NEW q \in Senders
    PROVE  /\ Other(p) # q /\ p \in Peers /\ Other(p) \in Peers
           /\ q # p => Other(q) # Other(p)
  BY DictStreamAssumption DEF OneWay

\* Every record is sent as a step of the list.
LEMMA SendTracks ==
    ASSUME OneWay, OneWayInv, NEW p \in Peers, NEW s \in Streams, NEW v \in Strings,
           SendStream(p, s, v)
    PROVE  OneWayInv'
<1> DEFINE k == Len(sent[p]) + 1
           d == dict[p]
<1>0. /\ TypeSound /\ TypeSound' /\ Sound(d)
      /\ sent \in [Peers -> Seq([stream : Streams, value : Strings])]
      /\ k \in Nat
  <2>1. TypeSound
    BY DEF OneWayInv
  <2>2. TypeSound'
    BY <2>1, SendSound DEF OneWay, Unbatched
  <2>3. sent \in [Peers -> Seq([stream : Streams, value : Strings])] /\ Sound(d)
    BY <2>1, Sorts
  <2>4. Len(sent[p]) \in Nat
    BY <2>3
  <2>5. k \in Nat
    BY <2>4
  <2> HIDE DEF k, d
  <2> QED
    BY <2>1, <2>2, <2>3, <2>5
<1>1. PICK pkt \in Texts \cup References, out \in Texts \cup References :
          /\ Remember(p, s, v, pkt) /\ Emit(p, out) /\ UNCHANGED batch
          /\ out.n = k /\ Decoded(d, out) = v /\ Follows(d, out, Learn(d, v))
  <2>1. /\ Base(p, v).packet \in Texts \cup References
        /\ Base(p, v).packet.n = k
        /\ Decoded(d, Base(p, v).packet) = v
        /\ Follows(d, Base(p, v).packet, Learn(d, v))
    BY <1>0, Encoded DEF Base
  <2>2. /\ Text(v, k) \in Texts /\ Text(v, k).n = k
        /\ Decoded(d, Text(v, k)) = v /\ Follows(d, Text(v, k), Learn(d, v))
    BY <1>0, PacketKinds DEF Text, Decoded, Follows
  <2>3. CASE SendFull(p, s, v)
    BY <2>1, <2>3 DEF SendFull
  <2>4. CASE SendDelta(p, s, v)
    BY <2>2, <2>4 DEF SendDelta
  <2>5. ~SendReuse(p, s, v) /\ ~SendBatched(p, s, v)
    BY DEF SendReuse, Repeats, SendBatched, OneWay
  <2> QED
    BY <2>3, <2>4, <2>5 DEF SendStream
<1>2. /\ p \in Senders
      /\ dict' = [dict EXCEPT ![p] = Learn(d, v)]
      /\ sent' = [sent EXCEPT ![p] = Append(sent[p], [stream |-> s, value |-> v])]
      /\ UNCHANGED <<taken, delivered, rejected>>
  BY <1>0, <1>1, RememberSound DEF history
<1>3. /\ DOMAIN sent[p] = 1 .. Len(sent[p])
      /\ DOMAIN sent'[p] = 1 .. k
      /\ \A i \in DOMAIN sent[p] : sent'[p][i] = sent[p][i]
      /\ sent'[p][k].value = v
      /\ \A q \in Peers \ {p} : sent'[q] = sent[q]
  <2> DEFINE rec == [stream |-> s, value |-> v]
             All == [stream : Streams, value : Strings]
  <2>1. rec \in All /\ rec.value = v
    OBVIOUS
  <2>2. sent \in [Peers -> Seq(All)] /\ sent' = [sent EXCEPT ![p] = Append(@, rec)]
    BY <1>0, <1>2
  <2> HIDE DEF rec, All
  <2> QED
    BY <2>1, <2>2, Grows
<1>4. /\ DOMAIN sent[p] \subseteq DOMAIN sent'[p]
      /\ Meant(sent'[p], d, out)
  BY <1>0, <1>1, <1>3 DEF Meant
<1>5. ASSUME NEW q \in Senders PROVE (\E D : Track(q, D))'
  <2>1. PICK D : Track(q, D)
    BY DEF OneWayInv
  <2>2. CASE q = p
    <3>1. Other(p) # p
      BY <1>2, Apart
    <3>2. Sound(Learn(d, v)) /\ out \in Packets
      BY <1>0, Learned DEF Packets
    <3> QED
      BY <1>0, <1>1, <1>2, <1>3, <1>4, <2>1, <2>2, <3>1, <3>2, TrackGrows
  <2>3. CASE q # p
    <3>1. dict'[q] = dict[q] /\ dict'[Other(q)] = dict[Other(q)]
      BY <1>0, <1>2, <2>3, Apart, Sorts
    <3>2. wire'[q] = wire[q] /\ taken'[q] = taken[q] /\ sent'[q] = sent[q]
      BY <1>0, <1>1, <1>2, <1>3, <2>3, Apart, Sorts DEF Emit
    <3>3. Track(q, D)'
      BY <2>1, <3>1, <3>2, TrackStays
    <3> QED
      BY <3>3
  <2> QED
    BY <2>2, <2>3
<1>6. \A q \in Peers \ Senders : wire'[q] = <<>>
  BY <1>0, <1>1, <1>2, Sorts DEF Emit, OneWayInv
<1>7. NeverMisread'
  <2>1. \A q \in Peers : \A i \in DOMAIN sent[q] :
            i \in DOMAIN sent'[q] /\ sent'[q][i] = sent[q][i]
    BY <1>3, <1>4
  <2> QED
    BY <1>2, <2>1 DEF NeverMisread, OneWayInv
<1>8. NoneRefused'
  BY <1>2 DEF NoneRefused, OneWayInv
<1> QED
  BY <1>0, <1>5, <1>6, <1>7, <1>8 DEF OneWayInv

\* What arrives leads the receiver to the next dictionary of the list.
LEMMA ReceiveTracks ==
    ASSUME OneWay, OneWayInv, NEW p \in Peers, ReceiveStream(p)
    PROVE  OneWayInv'
<1> DEFINE pkt == Arriving(p)
           d == dict[Other(p)]
<1>0. TypeSound /\ TypeSound'
  BY ReceiveSound DEF OneWayInv
<1>1. Arrival(p)
  BY DEF ReceiveStream, Receive, Reject, ReceiveBatch, ReceiveReset
<1>2. /\ pkt = wire[p][taken[p] + 1] /\ taken[p] + 1 \in 1 .. Len(wire[p])
      /\ taken[p] \in Nat /\ pkt \in Packets
      /\ \A q \in Peers \ {p} : taken'[q] = taken[q]
  BY <1>0, <1>1, Arrives
<1>3. p \in Senders
  <2>1. wire[p] # <<>>
    BY <1>2
  <2> QED
    BY <2>1 DEF OneWayInv
<1>4. PICK D : Track(p, D)
  BY <1>3 DEF OneWayInv
<1> DEFINE e == D[taken[p] + 1]
<1>5. Follows(d, pkt, e) /\ Meant(sent[p], d, pkt)
  <2>1. (taken[p] + 1) - 1 = taken[p] /\ d = D[taken[p]]
    BY <1>2, <1>4 DEF Track
  <2> QED
    BY <1>2, <1>4, <2>1 DEF Track
<1>6. UNCHANGED <<wire, sent>>
  BY <1>1 DEF Arrival
<1> HIDE DEF pkt, d, e
<1>7. /\ dict' = [dict EXCEPT ![Other(p)] = e]
      /\ \/ UNCHANGED delivered
         \/ /\ pkt.kind \in {"text", "ref"}
            /\ delivered' = [delivered EXCEPT ![p] =
                   Append(@, [n |-> pkt.n, value |-> Decoded(d, pkt)])]
      /\ UNCHANGED rejected
  <2>1. CASE Receive(p)
    <3>1. /\ pkt.kind \in {"text", "ref"}
          /\ dict' = [dict EXCEPT ![Other(p)] = Decode(d, pkt)]
          /\ delivered' = [delivered EXCEPT ![p] =
                 Append(@, [n |-> pkt.n, value |-> Decoded(d, pkt)])]
          /\ UNCHANGED rejected
      BY <2>1 DEF Receive, Single, pkt, d
    <3>2. Decode(d, pkt) = e
      BY <1>5, <3>1 DEF Follows, Decode
    <3> QED
      BY <3>1, <3>2
  <2>2. ~Reject(p)
    <3>1. Decodes(d, pkt)
      BY <1>2, <1>5, PacketKinds DEF Follows, Decodes, Packets
    <3> QED
      BY <3>1 DEF Reject, pkt, d
  <2>3. CASE ReceiveReset(p)
    <3>1. pkt.kind = "reset" /\ dict' = [dict EXCEPT ![Other(p)] = Reset(d)]
          /\ UNCHANGED <<delivered, rejected>>
      BY <2>3 DEF ReceiveReset, history, pkt, d
    <3>2. Reset(d) = e
      BY <1>5, <3>1 DEF Follows
    <3> QED
      BY <3>1, <3>2
  <2>4. ~ReceiveBatch(p)
    BY <1>2, PacketKinds DEF ReceiveBatch, Packets, pkt, OneWay, Unbatched
  <2> QED
    BY <2>1, <2>2, <2>3, <2>4 DEF ReceiveStream
<1>8. ASSUME NEW q \in Senders PROVE (\E F : Track(q, F))'
  <2>1. CASE q = p
    <3>1. Track(p, D)'
      BY <1>0, <1>1, <1>3, <1>4, <1>7, Apart, TrackMoves DEF e
    <3> QED
      BY <2>1, <3>1
  <2>2. CASE q # p
    <3>1. PICK F : Track(q, F)
      BY DEF OneWayInv
    <3>2. dict'[q] = dict[q] /\ dict'[Other(q)] = dict[Other(q)]
      BY <1>0, <1>3, <1>7, <2>2, Apart, Sorts
    <3>3. taken'[q] = taken[q]
      BY <1>2, <2>2, Apart
    <3>4. Track(q, F)'
      BY <1>6, <3>1, <3>2, <3>3, TrackStays
    <3> QED
      BY <3>4
  <2> QED
    BY <2>1, <2>2
<1>9. NeverMisread'
  <2>1. CASE UNCHANGED delivered
    BY <1>6, <2>1 DEF NeverMisread, OneWayInv
  <2>2. CASE /\ pkt.kind \in {"text", "ref"}
             /\ delivered' = [delivered EXCEPT ![p] =
                    Append(@, [n |-> pkt.n, value |-> Decoded(d, pkt)])]
    <3> DEFINE got == [n |-> pkt.n, value |-> Decoded(d, pkt)]
               Gots == [n : Nat, value : Strings]
    <3>1. got.n \in DOMAIN sent[p] /\ sent[p][got.n].value = got.value
      BY <1>5, <2>2 DEF Meant
    <3>2. got \in Gots
      <4> DEFINE All == [stream : Streams, value : Strings]
      <4>1. sent[p] \in Seq(All)
        BY <1>0, Sorts
      <4> HIDE DEF All, got
      <4>2. got.n \in Nat /\ sent[p][got.n] \in All
        BY <3>1, <4>1
      <4>3. sent[p][got.n].value \in Strings
        BY <4>2 DEF All
      <4>4. got.value \in Strings
        BY <3>1, <4>3
      <4> QED
        BY <4>2, <4>4 DEF got
    <3>3. delivered \in [Peers -> Seq(Gots)]
      BY <1>0, Sorts
    <3> HIDE DEF got, Gots
    <3>4. delivered' = [delivered EXCEPT ![p] = Append(@, got)]
      BY <2>2 DEF got
    <3>5. /\ \A q \in Peers \ {p} : delivered'[q] = delivered[q]
          /\ DOMAIN delivered'[p] = 1 .. Len(delivered[p]) + 1
          /\ DOMAIN delivered[p] = 1 .. Len(delivered[p])
          /\ Len(delivered[p]) \in Nat
          /\ \A i \in 1 .. Len(delivered[p]) : delivered'[p][i] = delivered[p][i]
          /\ delivered'[p][Len(delivered[p]) + 1] = got
      BY <3>2, <3>3, <3>4, Grows
    <3>6. ASSUME NEW q \in Peers, NEW i \in DOMAIN delivered'[q]
          PROVE  /\ delivered'[q][i].n \in DOMAIN sent[q]
                 /\ sent[q][delivered'[q][i].n].value = delivered'[q][i].value
      <4>1. CASE q # p
        BY <3>5, <4>1 DEF NeverMisread, OneWayInv
      <4>2. CASE q = p /\ i \in 1 .. Len(delivered[p])
        BY <3>5, <4>2 DEF NeverMisread, OneWayInv
      <4>3. CASE q = p /\ i \notin 1 .. Len(delivered[p])
        <5>1. i = Len(delivered[p]) + 1
          BY <3>5, <4>3
        <5> QED
          BY <3>1, <3>5, <4>3, <5>1
      <4> QED
        BY <4>1, <4>2, <4>3
    <3> QED
      BY <1>6, <3>6 DEF NeverMisread
  <2> QED
    BY <1>7, <2>1, <2>2
<1>10. NoneRefused'
  BY <1>7 DEF NoneRefused, OneWayInv
<1>11. \A q \in Peers \ Senders : wire'[q] = <<>>
  BY <1>6 DEF OneWayInv
<1> QED
  BY <1>0, <1>8, <1>9, <1>10, <1>11 DEF OneWayInv

\* A reset of both ends is one more step of the list.
LEMMA ResetTracks ==
    ASSUME OneWay, OneWayInv, NEW p \in Peers, ResetBoth(p)
    PROVE  OneWayInv'
<1> DEFINE pkt == [kind |-> "reset"]
           e == Reset(dict[p])
<1>0. TypeSound /\ TypeSound'
  BY OtherSound DEF OneWayInv, OneWay
<1>1. /\ p \in Senders /\ Emit(p, pkt) /\ dict' = [dict EXCEPT ![p] = e]
      /\ UNCHANGED <<taken, sent, delivered, rejected>>
  BY DEF ResetBoth, Control, history
<1>2. pkt \in Packets /\ pkt.kind = "reset" /\ Sound(e) /\ Follows(dict[p], pkt, e)
  BY <1>0, Sorts, ResetSound DEF Packets, Controls, Follows
<1>3. Meant(sent'[p], dict[p], pkt)
  BY <1>2 DEF Meant
<1> HIDE DEF pkt, e
<1>4. ASSUME NEW q \in Senders PROVE (\E D : Track(q, D))'
  <2>1. PICK D : Track(q, D)
    BY DEF OneWayInv
  <2>2. CASE q = p
    <3>1. Other(p) # p
      BY <1>1, Apart
    <3> QED
      BY <1>0, <1>1, <1>2, <1>3, <2>1, <2>2, <3>1, TrackGrows
  <2>3. CASE q # p
    <3>1. dict'[q] = dict[q] /\ dict'[Other(q)] = dict[Other(q)]
      BY <1>0, <1>1, <2>3, Apart, Sorts
    <3>2. wire'[q] = wire[q]
      BY <1>0, <1>1, <2>3, Apart, Sorts DEF Emit
    <3>3. Track(q, D)'
      BY <1>1, <2>1, <3>1, <3>2, TrackStays
    <3> QED
      BY <3>3
  <2> QED
    BY <2>2, <2>3
<1>5. \A q \in Peers \ Senders : wire'[q] = <<>>
  BY <1>0, <1>1, Sorts DEF Emit, OneWayInv
<1> QED
  BY <1>0, <1>1, <1>4, <1>5 DEF OneWayInv, NeverMisread, NoneRefused

LEMMA OneWayInit ==
    ASSUME OneWay, Init PROVE OneWayInv
<1>1. TypeSound
  BY SoundInit DEF OneWay
<1>2. ASSUME NEW p \in Senders PROVE \E D : Track(p, D)
  <2> DEFINE start == Empty(Setup(p))
             D == [k \in 0 .. 0 |-> start]
  <2>1. /\ p \in Peers /\ Other(p) \in Peers
        /\ dict[p] = start /\ dict[Other(p)] = start
        /\ wire[p] = <<>> /\ taken[p] = 0
    BY DictStreamAssumption DEF Init, OneWay
  <2>2. start \in Dictionaries
    BY <1>1, <2>1 DEF TypeSound, Sound, Linked
  <2> HIDE DEF start
  <2>3. D \in [0 .. Len(wire[p]) -> Dictionaries] /\ D[0] = start /\ Len(wire[p]) = 0
    BY <2>1, <2>2
  <2>4. Track(p, D)
    BY <2>1, <2>3 DEF Track
  <2> QED
    BY <2>4
<1>3. (\A p \in Peers \ Senders : wire[p] = <<>>) /\ NeverMisread /\ NoneRefused
  BY DEF Init, NeverMisread, NoneRefused
<1> QED
  BY <1>1, <1>2, <1>3 DEF OneWayInv

LEMMA OneWayStep ==
    ASSUME OneWay, OneWayInv, [Next]_vars PROVE OneWayInv'
<1>1. CASE UNCHANGED vars
  <2>1. TypeSound'
    BY <1>1, SoundStep DEF OneWay, OneWayInv, Unbatched
  <2>2. UNCHANGED <<dict, wire, taken, sent, delivered, rejected>>
    BY <1>1 DEF vars, history
  <2>3. ASSUME NEW p \in Senders PROVE (\E D : Track(p, D))'
    <3>1. PICK D : Track(p, D)
      BY DEF OneWayInv
    <3>2. Track(p, D)'
      BY <2>2, <3>1, TrackStays
    <3> QED
      BY <3>2
  <2> QED
    BY <2>1, <2>2, <2>3 DEF OneWayInv, NeverMisread, NoneRefused
<1>2. ASSUME NEW p \in Peers, NEW s \in Streams, NEW v \in Strings, SendStream(p, s, v)
      PROVE  OneWayInv'
  BY <1>2, SendTracks
<1>3. ASSUME NEW p \in Peers, ReceiveStream(p) PROVE OneWayInv'
  BY <1>3, ReceiveTracks
<1>4. ASSUME NEW p \in Peers, ResetBoth(p) PROVE OneWayInv'
  BY <1>4, ResetTracks
<1>5. ASSUME NEW p \in Peers
      PROVE  /\ ~Flush(p) /\ ~Lose(p) /\ ~SendReset(p)
             /\ ~ \E set \in Settable : SetDictionary(p, set)
  BY Sorts DEF Flush, Lose, SendReset, SetDictionary, Control, OneWay, OneWayInv, Unbatched
<1> QED
  BY <1>1, <1>2, <1>3, <1>4, <1>5 DEF Next

LEMMA AlwaysOneWay ==
    ASSUME OneWay PROVE Spec => []OneWayInv
  BY OneWayInit, OneWayStep, PTL DEF Spec

\* One way, with nothing lost, reused or batched and resets of both ends:
\* every string comes out as it went in, however small the dictionary and
\* however often its ids come round.
THEOREM DictionaryLossless ==
    ASSUME OneWay PROVE Spec => []NeverMisread
<1>1. OneWayInv => NeverMisread
  BY DEF OneWayInv
<1> QED
  BY <1>1, AlwaysOneWay, PTL

\* Nor is a reference ever refused.
THEOREM ReferencesAccepted ==
    ASSUME OneWay PROVE Spec => []NoneRefused
<1>1. OneWayInv => NoneRefused
  BY DEF OneWayInv
<1> QED
  BY <1>1, AlwaysOneWay, PTL

\* And when the channel is empty the two dictionaries are equal.
THEOREM DictionariesAgree ==
    ASSUME OneWay PROVE Spec => []SameDictionary
<1>1. OneWayInv => SameDictionary
  BY DEF OneWayInv, Track, SameDictionary
<1> QED
  BY <1>1, AlwaysOneWay, PTL
=============================================================================
