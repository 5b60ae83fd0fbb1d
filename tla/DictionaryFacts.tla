-------------------------- MODULE DictionaryFacts ---------------------------
(***************************************************************************)
(* What the operations of a dictionary preserve, whatever the strings, the *)
(* limit and the width of an id.                                           *)
(***************************************************************************)
EXTENDS DictionaryOps, FiniteSetTheorems, WellFoundedInduction, TLAPS

\* A set of naturals that is not empty has a least element.
LEMMA Smallest ==
    ASSUME NEW T, T \subseteq Nat, T # {}
    PROVE  \E x \in T : \A y \in T : x <= y
<1> DEFINE R == OpToRel(<, Nat)
<1>1. \A a, b \in Nat : a < b => <<a, b>> \in R
  BY DEF OpToRel
<1>2. IsWellFoundedOn(R, Nat)
  BY NatLessThanWellFounded
<1> HIDE DEF R
<1>3. PICK x \in T : \A y \in T : ~ (<<y, x>> \in R)
  BY <1>2, WFMin
<1>4. ASSUME NEW y \in T PROVE x <= y
  <2>1. x \in Nat /\ y \in Nat
    OBVIOUS
  <2>2. ~(y < x)
    BY <1>1, <1>3, <2>1
  <2> QED
    BY <2>1, <2>2
<1> QED
  BY <1>4

\* A partial map is a function on part of its source.
LEMMA PartialMap ==
    ASSUME NEW A, NEW B, NEW f
    PROVE  f \in PartialMaps(A, B) <=>
             /\ f = [x \in DOMAIN f |-> f[x]]
             /\ DOMAIN f \subseteq A
             /\ \A x \in DOMAIN f : f[x] \in B
<1>1. ASSUME f \in PartialMaps(A, B)
      PROVE  /\ f = [x \in DOMAIN f |-> f[x]]
             /\ DOMAIN f \subseteq A
             /\ \A x \in DOMAIN f : f[x] \in B
  <2>1. PICK part \in SUBSET A : f \in [part -> B]
    BY <1>1 DEF PartialMaps
  <2> QED
    BY <2>1
<1>2. ASSUME /\ f = [x \in DOMAIN f |-> f[x]]
             /\ DOMAIN f \subseteq A
             /\ \A x \in DOMAIN f : f[x] \in B
      PROVE  f \in PartialMaps(A, B)
  <2>1. f \in [DOMAIN f -> B]
    BY <1>2
  <2> QED
    BY <1>2, <2>1 DEF PartialMaps
<1> QED
  BY <1>1, <1>2

\* The next id, without a modulus.
LEMMA NextAfter ==
    ASSUME NEW id \in Ids
    PROVE  IdAfter(id) = IF id + 1 = IdMod THEN 0 ELSE id + 1
  BY IdAssumption DEF IdAfter, Ids

\* Going back fewer steps than there are ids never meets the same id twice,
\* nor the next one.
LEMMA BackApart ==
    ASSUME NEW id \in Ids, NEW j \in 1 .. IdMod - 1, NEW k \in 1 .. IdMod - 1
    PROVE  /\ Back(id, k) \in Ids
           /\ Back(id, k) # id
           /\ Back(id, j) = Back(id, k) => j = k
           /\ k + 1 < IdMod => Back(IdAfter(id), k + 1) = Back(id, k)
           /\ Back(IdAfter(id), 1) = id
<1>1. IdAfter(id) = IF id + 1 = IdMod THEN 0 ELSE id + 1
  BY NextAfter
<1>2. IdMod \in Nat /\ IdMod > 1 /\ id \in Int /\ j \in Int /\ k \in Int
  BY IdAssumption DEF Ids
<1> QED
  BY <1>1, <1>2 DEF Back, Ids

\* The parts of a dictionary's type.
LEMMA DictionaryParts ==
    ASSUME NEW d \in Dictionaries
    PROVE  /\ d.idOf \in PartialMaps(Strings, Ids)
           /\ d.valueOf \in PartialMaps(Ids, Strings)
           /\ d.order \in Seq(Ids) /\ d.next \in Ids
           /\ d.set \in Settings
           /\ Len(d.order) \in Nat
           /\ d.set.max \in Nat \ {0}
  BY DEF Dictionaries, Settings

\* A dictionary with two, four or one of its fields replaced.
LEMMA ReplacedTwo ==
    ASSUME NEW d \in Dictionaries, NEW x, NEW y
    PROVE  [d EXCEPT !.idOf = x, !.valueOf = y] =
               [idOf |-> x, valueOf |-> y, order |-> d.order,
                next |-> d.next, set |-> d.set]
<1>1. PICK a, b, c, e, f :
          d = [idOf |-> a, valueOf |-> b, order |-> c, next |-> e, set |-> f]
  BY DEF Dictionaries
<1> DEFINE r(i, v) ==
               [idOf |-> i, valueOf |-> v, order |-> c, next |-> e, set |-> f]
<1>2. d.idOf = a /\ d.valueOf = b /\ d.order = c /\ d.next = e /\ d.set = f
  BY <1>1
<1>3. /\ [r(a, b) EXCEPT !.idOf = x] = r(x, b)
      /\ [r(x, b) EXCEPT !.valueOf = y] = r(x, y)
  OBVIOUS
<1>4. [d EXCEPT !.idOf = x, !.valueOf = y] =
          [[d EXCEPT !.idOf = x] EXCEPT !.valueOf = y]
  OBVIOUS
<1> QED
  BY <1>1, <1>2, <1>3, <1>4, Zenon

LEMMA ReplacedFour ==
    ASSUME NEW d \in Dictionaries, NEW x, NEW y, NEW z, NEW w
    PROVE  [d EXCEPT !.idOf = x, !.valueOf = y, !.order = z, !.next = w] =
               [idOf |-> x, valueOf |-> y, order |-> z, next |-> w, set |-> d.set]
<1>1. PICK a, b, c, e, f :
          d = [idOf |-> a, valueOf |-> b, order |-> c, next |-> e, set |-> f]
  BY DEF Dictionaries
<1> DEFINE r(i, v, o, n) ==
               [idOf |-> i, valueOf |-> v, order |-> o, next |-> n, set |-> f]
<1>2. d.set = f
  BY <1>1
<1>3. /\ [r(a, b, c, e) EXCEPT !.idOf = x] = r(x, b, c, e)
      /\ [r(x, b, c, e) EXCEPT !.valueOf = y] = r(x, y, c, e)
      /\ [r(x, y, c, e) EXCEPT !.order = z] = r(x, y, z, e)
      /\ [r(x, y, z, e) EXCEPT !.next = w] = r(x, y, z, w)
  OBVIOUS
<1>4. [d EXCEPT !.idOf = x, !.valueOf = y, !.order = z, !.next = w] =
          [[[[d EXCEPT !.idOf = x] EXCEPT !.valueOf = y] EXCEPT !.order = z]
              EXCEPT !.next = w]
  OBVIOUS
<1> QED
  BY <1>1, <1>2, <1>3, <1>4, Zenon

LEMMA ReplacedSet ==
    ASSUME NEW d \in Dictionaries, NEW x
    PROVE  [d EXCEPT !.set = x] =
               [idOf |-> d.idOf, valueOf |-> d.valueOf, order |-> d.order,
                next |-> d.next, set |-> x]
  BY DEF Dictionaries

\* The ids in the queue differ, and the next id is not among them.
LEMMA IdsApart ==
    ASSUME NEW d, Linked(d)
    PROVE  /\ \A i, j \in 1 .. Len(d.order) : d.order[i] = d.order[j] => i = j
           /\ \A i \in 1 .. Len(d.order) : d.order[i] \in Ids \ {d.next}
           /\ d.next \notin DOMAIN d.valueOf
<1>1. d.next \in Ids /\ Len(d.order) \in Nat /\ Len(d.order) < IdMod /\ IdMod \in Nat
  BY DictionaryParts, IdAssumption DEF Linked
<1>2. \A i \in 1 .. Len(d.order) :
         /\ Len(d.order) + 1 - i \in 1 .. IdMod - 1
         /\ d.order[i] = Back(d.next, Len(d.order) + 1 - i)
  BY <1>1 DEF Linked
<1>3. ASSUME NEW i \in 1 .. Len(d.order), NEW j \in 1 .. Len(d.order),
             d.order[i] = d.order[j]
      PROVE  i = j
  <2>0. \A k, m \in 1 .. IdMod - 1 : Back(d.next, k) = Back(d.next, m) => k = m
    BY <1>1, BackApart
  <2>1. Len(d.order) + 1 - i = Len(d.order) + 1 - j
    BY <1>2, <1>3, <2>0
  <2> QED
    BY <1>1, <2>1
<1>4. \A i \in 1 .. Len(d.order) : d.order[i] \in Ids \ {d.next}
  BY <1>1, <1>2, BackApart
<1>5. d.next \notin DOMAIN d.valueOf
  BY <1>4 DEF Linked
<1> QED
  BY <1>3, <1>4, <1>5

\* A reference is mapped back to its string, and a string to one id only.
LEMMA Resolves ==
    ASSUME NEW d, Linked(d), NEW v \in DOMAIN d.idOf
    PROVE  /\ d.idOf[v] \in DOMAIN d.valueOf
           /\ d.valueOf[d.idOf[v]] = v
           /\ \E i \in DOMAIN d.order : d.order[i] = d.idOf[v]
<1>1. PICK id \in DOMAIN d.valueOf : v = d.valueOf[id]
  BY DEF Linked
<1>2. d.idOf[v] = id
  BY <1>1 DEF Linked
<1>3. DOMAIN d.order = 1 .. Len(d.order)
  BY DictionaryParts DEF Linked
<1> QED
  BY <1>1, <1>2, <1>3 DEF Linked

\* size(), which counts one map, is the length of the queue.
LEMMA SizeIsLength ==
    ASSUME NEW d, Linked(d)
    PROVE  /\ Size(d) = Len(d.order)
           /\ IsFiniteSet(DOMAIN d.valueOf)
           /\ Cardinality(DOMAIN d.valueOf) = Len(d.order)
<1> DEFINE L == Len(d.order)
           f == [i \in 1 .. L |-> d.order[i]]
           g == [id \in DOMAIN d.valueOf |-> d.valueOf[id]]
<1>1. L \in Nat
  BY DictionaryParts DEF Linked
<1>2. IsFiniteSet(1 .. L) /\ Cardinality(1 .. L) = L
  BY <1>1, FS_Interval
<1>3. f \in Bijection(1 .. L, DOMAIN d.valueOf)
  <2>1. f \in [1 .. L -> DOMAIN d.valueOf]
    BY DEF Linked
  <2>2. \A i, j \in 1 .. L : f[i] = f[j] => i = j
    BY IdsApart
  <2>3. \A id \in DOMAIN d.valueOf : \E i \in 1 .. L : f[i] = id
    BY DEF Linked
  <2> QED
    BY <2>1, <2>2, <2>3 DEF Bijection, Injection, Surjection, IsInjective
<1>4. IsFiniteSet(DOMAIN d.valueOf) /\ Cardinality(DOMAIN d.valueOf) = L
  BY <1>2, <1>3, FS_Bijection DEF ExistsBijection
<1>5. g \in Bijection(DOMAIN d.valueOf, DOMAIN d.idOf)
  <2>1. g \in [DOMAIN d.valueOf -> DOMAIN d.idOf]
    BY DEF Linked
  <2>2. \A i, j \in DOMAIN d.valueOf : g[i] = g[j] => i = j
    BY DEF Linked
  <2>3. \A v \in DOMAIN d.idOf : \E id \in DOMAIN d.valueOf : g[id] = v
    BY DEF Linked
  <2> QED
    BY <2>1, <2>2, <2>3 DEF Bijection, Injection, Surjection, IsInjective
<1>6. Cardinality(DOMAIN d.idOf) = L
  BY <1>4, <1>5, FS_Bijection DEF ExistsBijection
<1> QED
  BY <1>4, <1>6 DEF Size

\* The parts of a dictionary from which the k oldest entries are dropped.
LEMMA DropParts ==
    ASSUME NEW d \in Dictionaries, NEW k \in 0 .. Len(d.order)
    PROVE  LET e == DropOldest(d, k)
               gone == {d.order[i] : i \in 1 .. k} \cap DOMAIN d.valueOf
           IN  /\ e \in Dictionaries /\ e.next = d.next /\ e.set = d.set
               /\ Len(e.order) = Len(d.order) - k
               /\ \A i \in 1 .. Len(d.order) - k : e.order[i] = d.order[i + k]
               /\ DOMAIN e.valueOf = DOMAIN d.valueOf \ gone
               /\ \A i \in DOMAIN e.valueOf : e.valueOf[i] = d.valueOf[i]
               /\ DOMAIN e.idOf = DOMAIN d.idOf \ {d.valueOf[i] : i \in gone}
               /\ \A v \in DOMAIN e.idOf : e.idOf[v] = d.idOf[v]
<1> DEFINE L == Len(d.order)
           gone == {d.order[i] : i \in 1 .. k} \cap DOMAIN d.valueOf
           e == DropOldest(d, k)
<1>0. L \in Nat /\ k \in Nat /\ k <= L /\ d.order \in Seq(Ids) /\ d \in Dictionaries
      /\ d.next \in Ids
  BY DictionaryParts
<1>1. /\ e.idOf = Without(d.idOf, {d.valueOf[i] : i \in gone})
      /\ e.valueOf = Without(d.valueOf, gone)
      /\ e.order = SubSeq(d.order, k + 1, L)
      /\ e.next = d.next
      /\ e.set = d.set
      /\ e = [idOf |-> e.idOf, valueOf |-> e.valueOf, order |-> e.order,
              next |-> e.next, set |-> e.set]
  <2> DEFINE x == Without(d.idOf, {d.valueOf[i] : i \in gone})
             y == Without(d.valueOf, gone)
             f == [idOf |-> x, valueOf |-> y, order |-> d.order,
                   next |-> d.next, set |-> d.set]
  <2>1. Forget(d, gone) = f
    <3>1. d \in Dictionaries
      BY <1>0
    <3>2. Forget(d, gone) = [d EXCEPT !.idOf = x, !.valueOf = y]
      BY DEF Forget
    <3> HIDE DEF x, y
    <3>3. [d EXCEPT !.idOf = x, !.valueOf = y] = f
      BY <3>1, ReplacedTwo, Zenon
    <3> QED
      BY <3>2, <3>3, Zenon
  <2>2. e = [f EXCEPT !.order = SubSeq(f.order, k + 1, Len(f.order))]
    BY <2>1 DEF DropOldest
  <2>3. e = [idOf |-> x, valueOf |-> y, order |-> SubSeq(d.order, k + 1, L),
             next |-> d.next, set |-> d.set]
    BY <2>2
  <2> HIDE DEF x, y, e
  <2>4. /\ e.idOf = x /\ e.valueOf = y /\ e.order = SubSeq(d.order, k + 1, L)
        /\ e.next = d.next /\ e.set = d.set
    BY <2>3
  <2> QED
    BY <2>3, <2>4 DEF x, y
<1>2. /\ Len(e.order) = L - k
      /\ e.order \in Seq(Ids)
      /\ \A i \in 1 .. L - k : e.order[i] = d.order[i + k]
  <2>1. e.order = SubSeq(d.order, k + 1, L)
    BY <1>1
  <2> HIDE DEF e
  <2> QED
    BY <1>0, <2>1, SMTT(30)
<1>3. /\ DOMAIN e.valueOf = DOMAIN d.valueOf \ gone
      /\ \A i \in DOMAIN e.valueOf : e.valueOf[i] = d.valueOf[i]
      /\ e.valueOf = [i \in DOMAIN e.valueOf |-> e.valueOf[i]]
      /\ DOMAIN e.idOf = DOMAIN d.idOf \ {d.valueOf[i] : i \in gone}
      /\ \A v \in DOMAIN e.idOf : e.idOf[v] = d.idOf[v]
      /\ e.idOf = [v \in DOMAIN e.idOf |-> e.idOf[v]]
  BY <1>1 DEF Without, Restrict
<1> HIDE DEF e, gone
<1>4. e \in Dictionaries
  <2>1. d.valueOf \in PartialMaps(Ids, Strings) /\ d.idOf \in PartialMaps(Strings, Ids)
    BY <1>0, DictionaryParts
  <2>2. e.valueOf \in PartialMaps(Ids, Strings)
    BY <1>3, <2>1, PartialMap
  <2>3. e.idOf \in PartialMaps(Strings, Ids)
    BY <1>3, <2>1, PartialMap
  <2> QED
    BY <1>0, <1>1, <1>2, <2>2, <2>3 DEF Dictionaries
<1> QED
  BY <1>1, <1>2, <1>3, <1>4 DEF e, gone

\* What is left when the k oldest entries are dropped.
LEMMA Dropped ==
    ASSUME NEW d, Linked(d), NEW k \in 0 .. Len(d.order)
    PROVE  LET e == DropOldest(d, k)
           IN  /\ Linked(e)
               /\ Len(e.order) = Len(d.order) - k
               /\ e.next = d.next /\ e.set = d.set
               /\ DOMAIN e.valueOf \subseteq DOMAIN d.valueOf
               /\ \A id \in DOMAIN e.valueOf : e.valueOf[id] = d.valueOf[id]
               /\ DOMAIN e.idOf \subseteq DOMAIN d.idOf
<1> DEFINE L == Len(d.order)
           gone == {d.order[i] : i \in 1 .. k} \cap DOMAIN d.valueOf
           e == DropOldest(d, k)
<1>0. L \in Nat /\ k \in Nat /\ k <= L /\ d.order \in Seq(Ids) /\ d \in Dictionaries
      /\ L < IdMod /\ IdMod \in Nat /\ d.next \in Ids
  BY DictionaryParts, IdAssumption DEF Linked
<1>1. /\ e \in Dictionaries /\ e.next = d.next /\ e.set = d.set
      /\ Len(e.order) = L - k
      /\ \A i \in 1 .. L - k : e.order[i] = d.order[i + k]
      /\ DOMAIN e.valueOf = DOMAIN d.valueOf \ gone
      /\ \A i \in DOMAIN e.valueOf : e.valueOf[i] = d.valueOf[i]
      /\ DOMAIN e.idOf = DOMAIN d.idOf \ {d.valueOf[i] : i \in gone}
      /\ \A v \in DOMAIN e.idOf : e.idOf[v] = d.idOf[v]
  BY <1>0, DropParts
<1>2. gone = {d.order[i] : i \in 1 .. k}
  BY <1>0 DEF Linked
<1> HIDE DEF e, gone
<1>3. \A i \in 1 .. Len(e.order) : e.order[i] = Back(e.next, Len(e.order) + 1 - i)
  <2>1. ASSUME NEW i \in 1 .. L - k
        PROVE  e.order[i] = Back(e.next, L - k + 1 - i)
    <3>1. i + k \in 1 .. L /\ L + 1 - (i + k) = L - k + 1 - i
      BY <1>0
    <3> QED
      BY <1>1, <3>1 DEF Linked
  <2> QED
    BY <1>1, <2>1
<1>4. DOMAIN e.valueOf = {e.order[i] : i \in 1 .. Len(e.order)}
  <2>1. ASSUME NEW id \in DOMAIN e.valueOf
        PROVE  \E i \in 1 .. L - k : e.order[i] = id
    <3>1. PICK i \in 1 .. L : d.order[i] = id
      BY <1>1, <2>1 DEF Linked
    <3>2. i \notin 1 .. k
      BY <1>1, <1>2, <2>1, <3>1
    <3>3. i - k \in 1 .. L - k /\ i - k + k = i
      BY <1>0, <3>2
    <3> QED
      BY <1>1, <3>1, <3>3
  <2>2. ASSUME NEW i \in 1 .. L - k
        PROVE  e.order[i] \in DOMAIN e.valueOf
    <3>1. i + k \in 1 .. L /\ i + k \notin 1 .. k
      BY <1>0
    <3>2. d.order[i + k] \in DOMAIN d.valueOf
      BY <3>1 DEF Linked
    <3>3. \A j \in 1 .. k : j \in 1 .. L /\ j # i + k
      BY <1>0, <3>1
    <3>4. \A j \in 1 .. k : d.order[j] # d.order[i + k]
      BY <3>1, <3>3, IdsApart
    <3> QED
      BY <1>1, <1>2, <3>2, <3>4, SMTT(60)
  <2>3. Len(e.order) = L - k
    BY <1>1
  <2> QED
    BY <2>1, <2>2, <2>3
<1>5. /\ DOMAIN e.idOf = {e.valueOf[i] : i \in DOMAIN e.valueOf}
      /\ \A i \in DOMAIN e.valueOf : e.idOf[e.valueOf[i]] = i
  <2>1. ASSUME NEW v \in DOMAIN e.idOf
        PROVE  \E i \in DOMAIN e.valueOf : v = e.valueOf[i]
    <3>1. PICK i \in DOMAIN d.valueOf : v = d.valueOf[i]
      BY <1>1, <2>1 DEF Linked
    <3> QED
      BY <1>1, <2>1, <3>1
  <2>2. ASSUME NEW i \in DOMAIN e.valueOf
        PROVE  e.valueOf[i] \in DOMAIN e.idOf /\ e.idOf[e.valueOf[i]] = i
    <3>1. i \in DOMAIN d.valueOf /\ i \notin gone /\ e.valueOf[i] = d.valueOf[i]
      BY <1>1, <2>2
    <3>2. d.idOf[d.valueOf[i]] = i /\ d.valueOf[i] \in DOMAIN d.idOf
      BY <3>1 DEF Linked
    <3>3. gone \subseteq DOMAIN d.valueOf
      BY DEF gone
    <3>4. \A j \in gone : d.valueOf[j] # d.valueOf[i]
      BY <3>1, <3>2, <3>3 DEF Linked
    <3> QED
      BY <1>1, <3>1, <3>2, <3>4
  <2> QED
    BY <2>1, <2>2
<1>6. Linked(e) /\ Len(e.order) = L - k
  <2>1. e \in Dictionaries /\ Len(e.order) = L - k /\ L - k < IdMod
    BY <1>0, <1>1
  <2> QED
    BY <1>3, <1>4, <1>5, <2>1 DEF Linked
<1> QED
  BY <1>1, <1>6 DEF e

\* The parts of a dictionary into which a string is inserted.
LEMMA InsertParts ==
    ASSUME NEW d \in Dictionaries, NEW v \in Strings
    PROVE  LET e == Insert(d, v)
               n == d.next
           IN  /\ e \in Dictionaries /\ e.next = IdAfter(n) /\ e.set = d.set
               /\ Len(e.order) = Len(d.order) + 1
               /\ e.order[Len(d.order) + 1] = n
               /\ \A i \in 1 .. Len(d.order) : e.order[i] = d.order[i]
               /\ DOMAIN e.valueOf = DOMAIN d.valueOf \cup {n}
               /\ e.valueOf[n] = v
               /\ \A i \in DOMAIN d.valueOf \ {n} : e.valueOf[i] = d.valueOf[i]
               /\ DOMAIN e.idOf = DOMAIN d.idOf \cup {v}
               /\ e.idOf[v] = n
               /\ \A w \in DOMAIN d.idOf \ {v} : e.idOf[w] = d.idOf[w]
<1> DEFINE L == Len(d.order)
           n == d.next
           e == Insert(d, v)
<1>0. L \in Nat /\ d.order \in Seq(Ids) /\ d \in Dictionaries /\ n \in Ids
  BY DictionaryParts
<1>1. /\ e.idOf = With(d.idOf, v, n)
      /\ e.valueOf = With(d.valueOf, n, v)
      /\ e.order = Append(d.order, n)
      /\ e.next = IdAfter(n)
      /\ e.set = d.set
      /\ e = [idOf |-> e.idOf, valueOf |-> e.valueOf, order |-> e.order,
              next |-> e.next, set |-> e.set]
  <2> DEFINE x == With(d.idOf, v, n)
             y == With(d.valueOf, n, v)
             z == Append(d.order, n)
             w == IdAfter(n)
  <2>1. e = [d EXCEPT !.idOf = x, !.valueOf = y, !.order = z, !.next = w]
    BY DEF Insert, NextId
  <2> HIDE DEF x, y, z, w, e
  <2>2. e = [idOf |-> x, valueOf |-> y, order |-> z, next |-> w, set |-> d.set]
    <3>1. d \in Dictionaries
      BY <1>0
    <3> QED
      BY <2>1, <3>1, ReplacedFour, ZenonT(60)
  <2>3. e.idOf = x /\ e.valueOf = y /\ e.order = z /\ e.next = w /\ e.set = d.set
    BY <2>2
  <2> QED
    BY <2>2, <2>3 DEF x, y, z, w
<1>2. /\ Len(e.order) = L + 1
      /\ e.order \in Seq(Ids)
      /\ e.order[L + 1] = n
      /\ \A i \in 1 .. L : e.order[i] = d.order[i]
  BY <1>0, <1>1
<1>3. /\ DOMAIN e.valueOf = DOMAIN d.valueOf \cup {n}
      /\ e.valueOf[n] = v
      /\ \A i \in DOMAIN d.valueOf \ {n} : e.valueOf[i] = d.valueOf[i]
      /\ e.valueOf = [i \in DOMAIN e.valueOf |-> e.valueOf[i]]
      /\ DOMAIN e.idOf = DOMAIN d.idOf \cup {v}
      /\ e.idOf[v] = n
      /\ \A w \in DOMAIN d.idOf \ {v} : e.idOf[w] = d.idOf[w]
      /\ e.idOf = [w \in DOMAIN e.idOf |-> e.idOf[w]]
  BY <1>1 DEF With
<1> HIDE DEF e
<1>4. e \in Dictionaries
  <2>1. d.valueOf \in PartialMaps(Ids, Strings) /\ d.idOf \in PartialMaps(Strings, Ids)
        /\ d.set \in Settings
    BY <1>0, DictionaryParts
  <2>2. e.valueOf \in PartialMaps(Ids, Strings)
    BY <1>0, <1>3, <2>1, PartialMap
  <2>3. e.idOf \in PartialMaps(Strings, Ids)
    BY <1>0, <1>3, <2>1, PartialMap
  <2>4. e.next \in Ids
    BY <1>0, <1>1, NextAfter, IdAssumption DEF Ids
  <2> QED
    BY <1>0, <1>1, <1>2, <2>1, <2>2, <2>3, <2>4 DEF Dictionaries
<1> QED
  BY <1>1, <1>2, <1>3, <1>4 DEF e

\* A new string gets the next id, and the dictionary stays linked.
LEMMA Inserted ==
    ASSUME NEW d, Linked(d), Len(d.order) + 1 < IdMod,
           NEW v \in Strings, v \notin DOMAIN d.idOf
    PROVE  LET e == Insert(d, v)
           IN  /\ Linked(e)
               /\ Len(e.order) = Len(d.order) + 1
               /\ e.set = d.set
               /\ v \in DOMAIN e.idOf
               /\ DOMAIN e.valueOf = DOMAIN d.valueOf \cup {d.next}
               /\ \A id \in DOMAIN d.valueOf : e.valueOf[id] = d.valueOf[id]
<1> DEFINE L == Len(d.order)
           n == d.next
           e == Insert(d, v)
<1>0. L \in Nat /\ d.order \in Seq(Ids) /\ d \in Dictionaries /\ n \in Ids
      /\ L < IdMod /\ IdMod \in Nat /\ L + 1 < IdMod
  BY DictionaryParts, IdAssumption DEF Linked
<1>1. /\ e \in Dictionaries /\ e.next = IdAfter(n) /\ e.set = d.set
      /\ Len(e.order) = L + 1
      /\ e.order[L + 1] = n
      /\ \A i \in 1 .. L : e.order[i] = d.order[i]
  BY <1>0, InsertParts
<1>2. n \notin DOMAIN d.valueOf
  BY IdsApart
<1>3. /\ DOMAIN e.valueOf = DOMAIN d.valueOf \cup {n}
      /\ e.valueOf[n] = v
      /\ \A i \in DOMAIN d.valueOf : e.valueOf[i] = d.valueOf[i]
      /\ DOMAIN e.idOf = DOMAIN d.idOf \cup {v}
      /\ e.idOf[v] = n
      /\ \A w \in DOMAIN d.idOf : e.idOf[w] = d.idOf[w]
  BY <1>0, <1>2, InsertParts
<1> HIDE DEF e
<1>4. \A i \in 1 .. Len(e.order) : e.order[i] = Back(e.next, Len(e.order) + 1 - i)
  <2>1. ASSUME NEW i \in 1 .. L PROVE e.order[i] = Back(e.next, L + 2 - i)
    <3>1. L + 1 - i \in 1 .. IdMod - 1 /\ (L + 1 - i) + 1 < IdMod
          /\ (L + 1 - i) + 1 = L + 2 - i
      BY <1>0
    <3>2. Back(IdAfter(n), (L + 1 - i) + 1) = Back(n, L + 1 - i)
      BY <1>0, <3>1, BackApart
    <3>3. d.order[i] = Back(n, L + 1 - i)
      BY DEF Linked
    <3> QED
      BY <1>1, <3>1, <3>2, <3>3
  <2>2. e.order[L + 1] = Back(e.next, 1)
    <3>1. 1 \in 1 .. IdMod - 1
      BY <1>0
    <3> QED
      BY <1>0, <1>1, <3>1, BackApart
  <2>3. \A i \in 1 .. L + 1 : i \in 1 .. L \/ i = L + 1
    BY <1>0
  <2>4. L + 1 + 1 - (L + 1) = 1 /\ \A i \in 1 .. L : L + 1 + 1 - i = L + 2 - i
    BY <1>0
  <2> QED
    BY <1>1, <2>1, <2>2, <2>3, <2>4
<1>5. DOMAIN e.valueOf = {e.order[i] : i \in 1 .. Len(e.order)}
  <2>1. 1 .. L + 1 = (1 .. L) \cup {L + 1}
    BY <1>0
  <2>2. DOMAIN d.valueOf = {d.order[i] : i \in 1 .. L}
    BY DEF Linked
  <2> QED
    <3>1. Len(e.order) = L + 1 /\ e.order[L + 1] = n
      BY <1>1
    <3>2. {e.order[i] : i \in 1 .. L} = {d.order[i] : i \in 1 .. L}
      BY <1>1
    <3>3. {e.order[i] : i \in (1 .. L) \cup {L + 1}} = {e.order[i] : i \in 1 .. L} \cup {e.order[L + 1]}
      OBVIOUS
    <3> QED
      BY <1>3, <2>1, <2>2, <3>1, <3>2, <3>3
<1>6. /\ DOMAIN e.idOf = {e.valueOf[i] : i \in DOMAIN e.valueOf}
      /\ \A i \in DOMAIN e.valueOf : e.idOf[e.valueOf[i]] = i
  <2>1. /\ DOMAIN d.idOf = {d.valueOf[i] : i \in DOMAIN d.valueOf}
        /\ \A i \in DOMAIN d.valueOf : d.idOf[d.valueOf[i]] = i
    BY DEF Linked
  <2> QED
    BY <1>2, <1>3, <2>1
<1>7. Linked(e) /\ Len(e.order) = L + 1
  BY <1>0, <1>1, <1>4, <1>5, <1>6 DEF Linked
<1> QED
  BY <1>1, <1>3, <1>7 DEF e

\* create_or_get: the string is there afterwards, whatever had to go, and an
\* id that was there and still is has kept its string.
LEMMA Created ==
    ASSUME NEW d, Sound(d), NEW v \in Strings
    PROVE  LET e == CreateOrGet(d, v)
           IN  /\ Sound(e)
               /\ e.set = d.set
               /\ v \in DOMAIN e.idOf
               /\ \A id \in DOMAIN d.valueOf \cap DOMAIN e.valueOf :
                     e.valueOf[id] = d.valueOf[id]
<1> DEFINE L == Len(d.order)
           m == MakeRoom(d)
           e == CreateOrGet(d, v)
<1>0. /\ Linked(d) /\ L <= d.set.max /\ d.set.max < IdMod
      /\ L \in Nat /\ d.set.max \in Nat \ {0} /\ IdMod \in Nat
  BY DictionaryParts, IdAssumption DEF Sound, Linked
<1>1. CASE v \in DOMAIN d.idOf
  BY <1>1 DEF CreateOrGet
<1>2. CASE v \notin DOMAIN d.idOf
  <2>1. /\ Linked(m) /\ Len(m.order) < d.set.max
        /\ m.set = d.set /\ m.next = d.next
        /\ DOMAIN m.valueOf \subseteq DOMAIN d.valueOf
        /\ \A id \in DOMAIN m.valueOf : m.valueOf[id] = d.valueOf[id]
        /\ v \notin DOMAIN m.idOf
    <3>1. CASE HasRoom(d)
      <4>1. m = d
        BY <3>1 DEF MakeRoom
      <4>2. L < d.set.max
        BY <1>0, <3>1, SizeIsLength DEF HasRoom
      <4> QED
        BY <1>0, <1>2, <4>1, <4>2
    <3>2. CASE ~HasRoom(d)
      <4>1. L = d.set.max /\ 1 \in 0 .. L
        BY <1>0, <3>2, SizeIsLength DEF HasRoom
      <4>2. m = DropOldest(d, 1)
        <5>1. d.order # <<>>
          BY <1>0, <4>1
        <5> QED
          BY <3>2, <5>1 DEF MakeRoom, EvictOldest
      <4> HIDE DEF m
      <4>3. /\ Linked(m) /\ Len(m.order) = L - 1
            /\ m.set = d.set /\ m.next = d.next
            /\ DOMAIN m.valueOf \subseteq DOMAIN d.valueOf
            /\ \A id \in DOMAIN m.valueOf : m.valueOf[id] = d.valueOf[id]
            /\ DOMAIN m.idOf \subseteq DOMAIN d.idOf
        BY <1>0, <4>1, <4>2, Dropped
      <4> QED
        BY <1>0, <1>2, <4>1, <4>3
    <3> QED
      BY <3>1, <3>2
  <2>2. Len(m.order) \in Nat
    BY <2>1, DictionaryParts DEF Linked
  <2>3. HasRoom(m)
    BY <2>1, SizeIsLength DEF HasRoom
  <2>4. e = Insert(m, v)
    BY <1>2, <2>3 DEF CreateOrGet
  <2> HIDE DEF m, e
  <2>5. /\ Linked(e) /\ Len(e.order) = Len(m.order) + 1 /\ e.set = m.set
        /\ v \in DOMAIN e.idOf
        /\ DOMAIN e.valueOf = DOMAIN m.valueOf \cup {m.next}
        /\ \A id \in DOMAIN m.valueOf : e.valueOf[id] = m.valueOf[id]
    BY <1>0, <2>1, <2>2, <2>4, Inserted
  <2>6. d.next \notin DOMAIN d.valueOf
    BY <1>0, IdsApart
  <2>7. Sound(e)
    BY <1>0, <2>1, <2>2, <2>5 DEF Sound
  <2>8. \A id \in DOMAIN d.valueOf \cap DOMAIN e.valueOf :
            e.valueOf[id] = d.valueOf[id]
    BY <2>1, <2>5, <2>6
  <2> QED
    BY <2>1, <2>5, <2>7, <2>8 DEF e
<1> QED
  BY <1>1, <1>2

\* An empty dictionary, as it starts and as reset leaves it.
LEMMA Emptied ==
    ASSUME NEW set \in Settings, set.max < IdMod
    PROVE  Sound(Empty(set)) /\ Empty(set).set = set /\ DOMAIN Empty(set).valueOf = {}
<1> DEFINE e == Empty(set)
<1>1. /\ e.order = <<>> /\ e.next = 1 /\ e.set = set
      /\ DOMAIN e.idOf = {} /\ DOMAIN e.valueOf = {}
      /\ e = [idOf |-> Nothing, valueOf |-> Nothing, order |-> <<>>,
              next |-> 1, set |-> set]
  BY DEF Empty, Nothing
<1>2. 1 \in Ids /\ Len(<<>>) = 0 /\ <<>> \in Seq(Ids) /\ set.max \in Nat \ {0}
      /\ IdMod \in Nat /\ IdMod > 1
  BY IdAssumption DEF Ids, Settings
<1>3. Nothing \in PartialMaps(Strings, Ids) /\ Nothing \in PartialMaps(Ids, Strings)
  <2>1. \A B : [{} -> B] = {Nothing}
    BY DEF Nothing
  <2> QED
    BY <2>1 DEF PartialMaps
<1>4. e \in Dictionaries
  BY <1>1, <1>2, <1>3 DEF Dictionaries
<1> HIDE DEF e
<1>5. Linked(e)
  BY <1>1, <1>2, <1>4 DEF Linked
<1>6. Sound(e)
  BY <1>1, <1>2, <1>5 DEF Sound
<1> QED
  BY <1>1, <1>6 DEF e

\* configure: some number of evictions is enough, and leaves a dictionary
\* that fits, in which the ids that are left mean what they meant.
LEMMA Reconfigured ==
    ASSUME NEW d, Sound(d), NEW set \in Settings, set.max < IdMod
    PROVE  /\ Enough(d, set) # {}
           /\ LET e == Configure(d, set)
              IN  /\ Sound(e)
                  /\ e.set = set
                  /\ DOMAIN e.valueOf \subseteq DOMAIN d.valueOf
                  /\ \A id \in DOMAIN e.valueOf : e.valueOf[id] = d.valueOf[id]
<1> DEFINE L == Len(d.order)
           c == [idOf |-> d.idOf, valueOf |-> d.valueOf, order |-> d.order,
                 next |-> d.next, set |-> set]
           least == IF L <= set.max THEN 0 ELSE L - set.max
           e == Configure(d, set)
<1>0. /\ Linked(d) /\ d \in Dictionaries /\ L \in Nat
      /\ set.max \in Nat \ {0} /\ set.max < IdMod /\ IdMod \in Nat
  BY DictionaryParts, IdAssumption DEF Sound, Linked, Settings
<1>1. /\ c.idOf = d.idOf /\ c.valueOf = d.valueOf /\ c.order = d.order
      /\ c.next = d.next /\ c.set = set
  OBVIOUS
<1>2. Linked(c)
  <2>1. c \in Dictionaries
    BY <1>0, DictionaryParts DEF Dictionaries
  <2>2. /\ L < IdMod
        /\ \A i \in 1 .. L : d.order[i] = Back(d.next, L + 1 - i)
        /\ DOMAIN d.valueOf = {d.order[i] : i \in 1 .. L}
        /\ DOMAIN d.idOf = {d.valueOf[i] : i \in DOMAIN d.valueOf}
        /\ \A i \in DOMAIN d.valueOf : d.idOf[d.valueOf[i]] = i
    BY <1>0 DEF Linked
  <2> QED
    BY <2>1, <2>2 DEF Linked
<1>3. Configured(d, set) = c
  BY <1>0, ReplacedSet DEF Configured
<1> HIDE DEF c
<1>4. Enough(d, set) = {k \in 0 .. L : L - k <= set.max}
  <2>1. ASSUME NEW k \in 0 .. L
        PROVE  Size(DropOldest(d, k)) = L - k
    BY <1>0, Dropped, SizeIsLength
  <2> QED
    BY <1>0, <2>1 DEF Enough
<1>5. least \in Enough(d, set) /\ \A j \in Enough(d, set) : least <= j
  BY <1>0, <1>4
<1>6. \A k \in Enough(d, set) :
          (\A j \in Enough(d, set) : k <= j) => k = least
  BY <1>0, <1>4, <1>5
<1>7. e = DropOldest(c, least)
  <2>1. (CHOOSE k \in Enough(d, set) : \A j \in Enough(d, set) : k <= j) = least
    BY <1>5, <1>6
  <2> QED
    BY <1>3, <2>1 DEF Configure
<1>8. least \in 0 .. Len(c.order) /\ L - least <= set.max
  BY <1>0, <1>1, <1>4, <1>5
<1> HIDE DEF e, least
<1>9. /\ Linked(e) /\ Len(e.order) = L - least /\ e.set = set
      /\ DOMAIN e.valueOf \subseteq DOMAIN c.valueOf
      /\ \A id \in DOMAIN e.valueOf : e.valueOf[id] = c.valueOf[id]
  BY <1>1, <1>2, <1>7, <1>8, Dropped
<1> QED
  BY <1>0, <1>1, <1>5, <1>8, <1>9 DEF Sound, e

-----------------------------------------------------------------------------
(* Dictionaries that are edited: what update and evict preserve, and what  *)
(* is kept after them as long as no id in use is given out again.          *)

\* Every reference resolves, and what is mapped is in the queue.
Resolved(d) ==
    /\ DOMAIN d.valueOf \subseteq {d.order[i] : i \in 1 .. Len(d.order)}
    /\ \A v \in DOMAIN d.idOf :
          d.idOf[v] \in DOMAIN d.valueOf /\ d.valueOf[d.idOf[v]] = v

\* The ids in the queue are among the last k that were given out.
Recent(d, k) ==
    \A i \in 1 .. Len(d.order) : \E j \in 1 .. k : d.order[i] = Back(d.next, j)

LEMMA LinkedIsResolved ==
    ASSUME NEW d, Linked(d)
    PROVE  Resolved(d) /\ Recent(d, Len(d.order))
<1>1. Len(d.order) \in Nat
  BY DictionaryParts DEF Linked
<1>2. Recent(d, Len(d.order))
  <2>1. ASSUME NEW i \in 1 .. Len(d.order)
        PROVE  \E j \in 1 .. Len(d.order) : d.order[i] = Back(d.next, j)
    <3>1. Len(d.order) + 1 - i \in 1 .. Len(d.order)
      BY <1>1
    <3> QED
      BY <3>1 DEF Linked
  <2> QED
    BY <2>1 DEF Recent
<1> QED
  BY <1>2, Resolves DEF Resolved, Linked

\* An element of a sequence.
Has(s, y) == \E i \in 1 .. Len(s) : s[i] = y

\* RemoveFirst takes one element out, if it is there.
LEMMA FirstRemoved ==
    ASSUME NEW S, NEW s \in Seq(S), NEW x \in S
    PROVE  LET r == RemoveFirst(s, x)
           IN  /\ r \in Seq(S)
               /\ \A y : Has(r, y) => Has(s, y)
               /\ \A y : Has(s, y) /\ y # x => Has(r, y)
<1> DEFINE I == {i \in 1 .. Len(s) : s[i] = x}
           r == RemoveFirst(s, x)
<1>1. CASE I = {}
  <2>1. r = s
    BY <1>1 DEF RemoveFirst
  <2> QED
    BY <2>1
<1>2. CASE I # {}
  <2>0. I \subseteq Nat
    OBVIOUS
  <2>1. PICK p \in I : \A y \in I : p <= y
    <3> HIDE DEF I
    <3> QED
      BY <1>2, <2>0, Smallest
  <2>2. \A q \in I : (\A y \in I : q <= y) => q = p
    BY <2>1
  <2>3. SelectInSeq(s, LAMBDA v : v = x) = p
    BY <1>2, <2>1, <2>2 DEF SelectInSeq, Min
  <2>4. r = SubSeq(s, 1, p - 1) \o SubSeq(s, p + 1, Len(s))
    BY <1>2, <2>3 DEF RemoveFirst, RemoveAt
  <2> DEFINE a == SubSeq(s, 1, p - 1)
             b == SubSeq(s, p + 1, Len(s))
             L == Len(s)
  <2>5. L \in Nat /\ p \in 1 .. L /\ s[p] = x
    BY <2>1
  <2>6. /\ a \in Seq(S) /\ Len(a) = p - 1 /\ \A i \in 1 .. p - 1 : a[i] = s[i]
        /\ b \in Seq(S) /\ Len(b) = L - p /\ \A i \in 1 .. L - p : b[i] = s[i + p]
    BY <2>5, SMTT(30)
  <2> HIDE DEF a, b, L, r, I
  <2>7. /\ r \in Seq(S) /\ Len(r) = L - 1
        /\ \A i \in 1 .. p - 1 : r[i] = s[i]
        /\ \A i \in p .. L - 1 : r[i] = s[i + 1]
    <3>1. r = a \o b
      BY <2>4 DEF a, b, L
    <3>2. r \in Seq(S) /\ Len(r) = L - 1
      BY <2>5, <2>6, <3>1
    <3>3. ASSUME NEW i \in 1 .. p - 1 PROVE r[i] = s[i]
      BY <2>5, <2>6, <3>1
    <3>4. ASSUME NEW i \in p .. L - 1 PROVE r[i] = s[i + 1]
      <4>1. i - (p - 1) \in 1 .. L - p /\ i - (p - 1) + p = i + 1
            /\ i \in 1 .. Len(a) + Len(b) /\ i > Len(a)
        BY <2>5, <2>6
      <4>2. r[i] = b[i - Len(a)]
        BY <2>6, <3>1, <4>1
      <4> QED
        BY <2>6, <4>1, <4>2
    <3> QED
      BY <3>2, <3>3, <3>4
  <2>8. ASSUME NEW y, Has(r, y) PROVE Has(s, y)
    <3>1. PICK i \in 1 .. L - 1 : r[i] = y
      BY <2>7, <2>8 DEF Has
    <3>2. i \in 1 .. L /\ i + 1 \in 1 .. L /\ (i \in 1 .. p - 1 \/ i \in p .. L - 1)
      BY <2>5
    <3> QED
      BY <2>7, <3>1, <3>2 DEF Has, L
  <2>9. ASSUME NEW y, Has(s, y), y # x PROVE Has(r, y)
    <3>1. PICK i \in 1 .. L : s[i] = y
      BY <2>9 DEF Has, L
    <3>2. CASE i < p
      <4>1. i \in 1 .. p - 1 /\ i \in 1 .. L - 1
        BY <2>5, <3>2
      <4> QED
        BY <2>7, <3>1, <4>1 DEF Has
    <3>3. CASE i > p
      <4>1. i - 1 \in p .. L - 1 /\ i - 1 \in 1 .. L - 1 /\ (i - 1) + 1 = i
        BY <2>5, <3>3
      <4> QED
        BY <2>7, <3>1, <4>1 DEF Has
    <3> QED
      BY <2>5, <2>9, <3>1, <3>2, <3>3
  <2> QED
    BY <2>7, <2>8, <2>9 DEF r
<1> QED
  BY <1>1, <1>2

\* The parts of a dictionary in which an id is updated.
LEMMA UpdateParts ==
    ASSUME NEW d \in Dictionaries, NEW id \in DOMAIN d.valueOf, NEW v \in Strings
    PROVE  LET e == Update(d, id, v)
               old == d.valueOf[id]
           IN  /\ e \in Dictionaries
               /\ e.order = d.order /\ e.next = d.next /\ e.set = d.set
               /\ DOMAIN e.valueOf = DOMAIN d.valueOf
               /\ e.valueOf[id] = v
               /\ \A i \in DOMAIN d.valueOf \ {id} : e.valueOf[i] = d.valueOf[i]
               /\ DOMAIN e.idOf = (DOMAIN d.idOf \ {old}) \cup {v}
               /\ e.idOf[v] = id
               /\ \A w \in DOMAIN d.idOf \ {old, v} : e.idOf[w] = d.idOf[w]
<1> DEFINE old == d.valueOf[id]
           x == With(Without(d.idOf, {old}), v, id)
           y == [d.valueOf EXCEPT ![id] = v]
           e == Update(d, id, v)
<1>0. /\ d.idOf \in PartialMaps(Strings, Ids) /\ d.valueOf \in PartialMaps(Ids, Strings)
      /\ d.order \in Seq(Ids) /\ d.next \in Ids /\ d.set \in Settings
  BY DictionaryParts
<1>1. d.valueOf = [i \in DOMAIN d.valueOf |-> d.valueOf[i]] /\ id \in Ids
  BY <1>0, PartialMap
<1>2. e = [d EXCEPT !.idOf = x, !.valueOf = y]
  BY DEF Update
<1>3. /\ DOMAIN y = DOMAIN d.valueOf /\ y[id] = v
      /\ \A i \in DOMAIN d.valueOf \ {id} : y[i] = d.valueOf[i]
      /\ y = [i \in DOMAIN y |-> y[i]]
  BY <1>1
<1>4. /\ DOMAIN x = (DOMAIN d.idOf \ {old}) \cup {v} /\ x[v] = id
      /\ \A w \in DOMAIN d.idOf \ {old, v} : x[w] = d.idOf[w]
      /\ x = [w \in DOMAIN x |-> x[w]]
  BY DEF With, Without, Restrict
<1> HIDE DEF x, y, e
<1>5. e = [idOf |-> x, valueOf |-> y, order |-> d.order, next |-> d.next, set |-> d.set]
  BY <1>2, ReplacedTwo, ZenonT(30)
<1>6. e.idOf = x /\ e.valueOf = y /\ e.order = d.order /\ e.next = d.next /\ e.set = d.set
  BY <1>5
<1>7. y \in PartialMaps(Ids, Strings)
  BY <1>0, <1>3, PartialMap
<1>8. x \in PartialMaps(Strings, Ids)
  BY <1>0, <1>1, <1>4, PartialMap
<1>9. e \in Dictionaries
  BY <1>0, <1>5, <1>7, <1>8 DEF Dictionaries
<1> QED
  BY <1>3, <1>4, <1>6, <1>9 DEF e

\* The parts of a dictionary from which an id is evicted.
LEMMA EvictParts ==
    ASSUME NEW d \in Dictionaries, NEW id \in DOMAIN d.valueOf
    PROVE  LET e == Evict(d, id)
               old == d.valueOf[id]
           IN  /\ e \in Dictionaries /\ e.next = d.next /\ e.set = d.set
               /\ e.order = RemoveFirst(d.order, id)
               /\ DOMAIN e.valueOf = DOMAIN d.valueOf \ {id}
               /\ \A i \in DOMAIN e.valueOf : e.valueOf[i] = d.valueOf[i]
               /\ DOMAIN e.idOf = DOMAIN d.idOf \ {old}
               /\ \A w \in DOMAIN e.idOf : e.idOf[w] = d.idOf[w]
<1> DEFINE old == d.valueOf[id]
           x == Without(d.idOf, {old})
           y == Without(d.valueOf, {id})
           z == RemoveFirst(d.order, id)
           f == [idOf |-> x, valueOf |-> y, order |-> d.order,
                 next |-> d.next, set |-> d.set]
           e == Evict(d, id)
<1>0. /\ d.idOf \in PartialMaps(Strings, Ids) /\ d.valueOf \in PartialMaps(Ids, Strings)
      /\ d.order \in Seq(Ids) /\ d.next \in Ids /\ d.set \in Settings
  BY DictionaryParts
<1>1. id \in Ids
  BY <1>0, PartialMap
<1>2. z \in Seq(Ids)
  BY <1>0, <1>1, FirstRemoved
<1>3. Forget(d, {id}) = f
  <2>1. {d.valueOf[i] : i \in {id}} = {old}
    OBVIOUS
  <2>2. Forget(d, {id}) = [d EXCEPT !.idOf = x, !.valueOf = y]
    BY <2>1 DEF Forget
  <2> HIDE DEF x, y
  <2> QED
    BY <2>2, ReplacedTwo, ZenonT(30)
<1>4. e = [idOf |-> x, valueOf |-> y, order |-> z, next |-> d.next, set |-> d.set]
  BY <1>3 DEF Evict
<1>5. /\ DOMAIN y = DOMAIN d.valueOf \ {id}
      /\ \A i \in DOMAIN y : y[i] = d.valueOf[i]
      /\ y = [i \in DOMAIN y |-> y[i]]
      /\ DOMAIN x = DOMAIN d.idOf \ {old}
      /\ \A w \in DOMAIN x : x[w] = d.idOf[w]
      /\ x = [w \in DOMAIN x |-> x[w]]
  BY DEF Without, Restrict
<1> HIDE DEF x, y, z, e
<1>6. e.idOf = x /\ e.valueOf = y /\ e.order = z /\ e.next = d.next /\ e.set = d.set
  BY <1>4
<1>7. x \in PartialMaps(Strings, Ids) /\ y \in PartialMaps(Ids, Strings)
  BY <1>0, <1>5, PartialMap
<1>8. e \in Dictionaries
  BY <1>0, <1>2, <1>4, <1>7 DEF Dictionaries
<1> QED
  BY <1>5, <1>6, <1>8 DEF e, z

\* configure drops some of the oldest entries, if any number is enough.
LEMMA ConfigureParts ==
    ASSUME NEW d \in Dictionaries, NEW set \in Settings, Enough(d, set) # {}
    PROVE  LET c == Configured(d, set)
           IN  /\ c \in Dictionaries
               /\ c.idOf = d.idOf /\ c.valueOf = d.valueOf /\ c.order = d.order
               /\ c.next = d.next /\ c.set = set
               /\ \E k \in 0 .. Len(c.order) : Configure(d, set) = DropOldest(c, k)
<1> DEFINE c == Configured(d, set)
<1>1. c = [idOf |-> d.idOf, valueOf |-> d.valueOf, order |-> d.order,
           next |-> d.next, set |-> set]
  BY ReplacedSet DEF Configured
<1>2. /\ c.idOf = d.idOf /\ c.valueOf = d.valueOf /\ c.order = d.order
      /\ c.next = d.next /\ c.set = set
  BY <1>1
<1>3. c \in Dictionaries
  BY <1>1, DictionaryParts DEF Dictionaries
<1>4. Enough(d, set) \subseteq 0 .. Len(d.order) /\ Enough(d, set) \subseteq Nat
  BY DEF Enough
<1>5. PICK k \in Enough(d, set) : \A j \in Enough(d, set) : k <= j
  BY <1>4, Smallest
<1>6. (CHOOSE i \in Enough(d, set) : \A j \in Enough(d, set) : i <= j) \in Enough(d, set)
  BY <1>5
<1> QED
  BY <1>2, <1>3, <1>4, <1>6 DEF Configure

\* create_or_get answers, or makes room and then inserts or gives up.
LEMMA CreateParts ==
    ASSUME NEW d \in Dictionaries, NEW v \in Strings
    PROVE  LET m == MakeRoom(d)
               e == CreateOrGet(d, v)
           IN  /\ m = d \/ (1 \in 0 .. Len(d.order) /\ m = DropOldest(d, 1))
               /\ e = d \/ (v \notin DOMAIN d.idOf /\ e \in {m, Insert(m, v)})
<1>1. d.order # <<>> => 1 \in 0 .. Len(d.order)
  BY DictionaryParts
<1> QED
  BY <1>1 DEF MakeRoom, EvictOldest, CreateOrGet

\* The ids mapped before and after are mapped to the same strings.
Stable(d, e) ==
    \A id \in DOMAIN d.valueOf \cap DOMAIN e.valueOf : e.valueOf[id] = d.valueOf[id]

LEMMA DropKeeps ==
    ASSUME NEW d \in Dictionaries, Resolved(d), NEW k \in 0 .. Len(d.order)
    PROVE  LET e == DropOldest(d, k)
           IN  /\ Resolved(e) /\ Stable(d, e)
               /\ \A j : Recent(d, j) => Recent(e, j)
<1> DEFINE L == Len(d.order)
           gone == {d.order[i] : i \in 1 .. k} \cap DOMAIN d.valueOf
           e == DropOldest(d, k)
<1>0. L \in Nat /\ k \in Nat /\ k <= L
  BY DictionaryParts
<1>1. /\ e.next = d.next
      /\ Len(e.order) = L - k
      /\ \A i \in 1 .. L - k : e.order[i] = d.order[i + k]
      /\ DOMAIN e.valueOf = DOMAIN d.valueOf \ gone
      /\ \A i \in DOMAIN e.valueOf : e.valueOf[i] = d.valueOf[i]
      /\ DOMAIN e.idOf = DOMAIN d.idOf \ {d.valueOf[i] : i \in gone}
      /\ \A v \in DOMAIN e.idOf : e.idOf[v] = d.idOf[v]
  BY DropParts
<1> HIDE DEF e
<1>2. ASSUME NEW id \in DOMAIN e.valueOf
      PROVE  \E i \in 1 .. Len(e.order) : e.order[i] = id
  <2>1. PICK i \in 1 .. L : d.order[i] = id
    BY <1>1, <1>2 DEF Resolved
  <2>2. i \notin 1 .. k
    BY <1>1, <1>2, <2>1
  <2>3. i - k \in 1 .. L - k /\ i - k + k = i
    BY <1>0, <2>1, <2>2
  <2> QED
    BY <1>1, <2>1, <2>3
<1>3. ASSUME NEW v \in DOMAIN e.idOf
      PROVE  e.idOf[v] \in DOMAIN e.valueOf /\ e.valueOf[e.idOf[v]] = v
  <2>1. v \in DOMAIN d.idOf /\ e.idOf[v] = d.idOf[v]
    BY <1>1, <1>3
  <2>2. d.idOf[v] \in DOMAIN d.valueOf /\ d.valueOf[d.idOf[v]] = v
    BY <2>1 DEF Resolved
  <2>3. d.idOf[v] \notin gone
    BY <1>1, <1>3, <2>2
  <2> HIDE DEF gone
  <2> QED
    BY <1>1, <2>1, <2>2, <2>3
<1>4. ASSUME NEW j, Recent(d, j) PROVE Recent(e, j)
  <2>1. \A i \in 1 .. L - k : i + k \in 1 .. L
    BY <1>0
  <2> QED
    BY <1>1, <1>4, <2>1 DEF Recent
<1> QED
  BY <1>1, <1>2, <1>3, <1>4 DEF e, Resolved, Stable

\* The next id is free as long as fewer ids were given out than there are.
LEMMA InsertKeeps ==
    ASSUME NEW d \in Dictionaries, Resolved(d),
           NEW k \in 1 .. IdMod - 1, Recent(d, k),
           NEW v \in Strings, v \notin DOMAIN d.idOf
    PROVE  LET e == Insert(d, v)
           IN  Resolved(e) /\ Stable(d, e) /\ Recent(e, k + 1)
<1> DEFINE L == Len(d.order)
           n == d.next
           e == Insert(d, v)
<1>0. L \in Nat /\ IdMod \in Nat /\ n \in Ids /\ k \in Nat
  BY DictionaryParts, IdAssumption
<1>1. /\ e.next = IdAfter(n)
      /\ Len(e.order) = L + 1
      /\ e.order[L + 1] = n
      /\ \A i \in 1 .. L : e.order[i] = d.order[i]
      /\ DOMAIN e.valueOf = DOMAIN d.valueOf \cup {n}
      /\ e.valueOf[n] = v
      /\ \A i \in DOMAIN d.valueOf \ {n} : e.valueOf[i] = d.valueOf[i]
      /\ DOMAIN e.idOf = DOMAIN d.idOf \cup {v}
      /\ e.idOf[v] = n
      /\ \A w \in DOMAIN d.idOf \ {v} : e.idOf[w] = d.idOf[w]
  BY InsertParts
<1> HIDE DEF e
<1>2. n \notin DOMAIN d.valueOf
  <2>1. \A i \in 1 .. L : d.order[i] # n
    BY <1>0, BackApart DEF Recent
  <2> QED
    BY <2>1 DEF Resolved
<1>3. \A i \in 1 .. L + 1 : i \in 1 .. L \/ i = L + 1
  BY <1>0
<1>4. (1 .. L) \subseteq 1 .. L + 1 /\ L + 1 \in 1 .. L + 1
  BY <1>0
<1>5. Resolved(e)
  <2>1. \A id \in DOMAIN e.valueOf : \E i \in 1 .. Len(e.order) : e.order[i] = id
    BY <1>1, <1>4 DEF Resolved
  <2>2. \A w \in DOMAIN e.idOf : e.idOf[w] \in DOMAIN e.valueOf /\ e.valueOf[e.idOf[w]] = w
    BY <1>1, <1>2 DEF Resolved
  <2> QED
    BY <2>1, <2>2 DEF Resolved
<1>6. Recent(e, k + 1)
  <2>1. ASSUME NEW i \in 1 .. L
        PROVE  \E j \in 1 .. k + 1 : e.order[i] = Back(e.next, j)
    <3>1. PICK j \in 1 .. k : d.order[i] = Back(n, j)
      BY DEF Recent
    <3>2. j + 1 \in 1 .. k + 1 /\ j \in 1 .. IdMod - 1
      BY <1>0
    <3>3. Back(IdAfter(n), j + 1) = Back(n, j)
      <4>1. IdAfter(n) = IF n + 1 = IdMod THEN 0 ELSE n + 1
        BY <1>0, NextAfter
      <4>2. n \in Nat /\ n < IdMod /\ j \in Nat /\ j > 0 /\ j < IdMod
        BY <1>0, <3>2 DEF Ids
      <4> HIDE DEF n
      <4> QED
        BY <1>0, <4>1, <4>2 DEF Back
    <3> QED
      BY <1>1, <3>1, <3>2, <3>3
  <2>2. \E j \in 1 .. k + 1 : e.order[L + 1] = Back(e.next, j)
    <3>1. 1 \in 1 .. k + 1 /\ Back(IdAfter(n), 1) = n
      BY <1>0, BackApart
    <3> QED
      BY <1>1, <3>1
  <2> QED
    BY <1>1, <1>3, <2>1, <2>2 DEF Recent
<1>7. Stable(d, e)
  BY <1>1, <1>2 DEF Stable
<1> QED
  BY <1>5, <1>6, <1>7 DEF e

LEMMA UpdateKeeps ==
    ASSUME NEW d \in Dictionaries, Resolved(d),
           NEW id \in DOMAIN d.valueOf, NEW v \in Strings
    PROVE  LET e == Update(d, id, v)
           IN  Resolved(e) /\ \A j : Recent(d, j) => Recent(e, j)
<1> DEFINE old == d.valueOf[id]
           e == Update(d, id, v)
<1>1. /\ e.order = d.order /\ e.next = d.next
      /\ DOMAIN e.valueOf = DOMAIN d.valueOf
      /\ e.valueOf[id] = v
      /\ \A i \in DOMAIN d.valueOf \ {id} : e.valueOf[i] = d.valueOf[i]
      /\ DOMAIN e.idOf = (DOMAIN d.idOf \ {old}) \cup {v}
      /\ e.idOf[v] = id
      /\ \A w \in DOMAIN d.idOf \ {old, v} : e.idOf[w] = d.idOf[w]
  BY UpdateParts
<1> HIDE DEF e
<1>2. ASSUME NEW w \in DOMAIN e.idOf
      PROVE  e.idOf[w] \in DOMAIN e.valueOf /\ e.valueOf[e.idOf[w]] = w
  <2>1. CASE w = v
    BY <1>1, <2>1
  <2>2. CASE w # v
    <3>1. w \in DOMAIN d.idOf \ {old, v} /\ e.idOf[w] = d.idOf[w]
      BY <1>1, <1>2, <2>2
    <3>2. d.idOf[w] \in DOMAIN d.valueOf /\ d.valueOf[d.idOf[w]] = w
      BY <3>1 DEF Resolved
    <3> QED
      BY <1>1, <3>1, <3>2
  <2> QED
    BY <2>1, <2>2
<1>3. Resolved(e)
  BY <1>1, <1>2 DEF Resolved
<1>4. \A j : Recent(d, j) => Recent(e, j)
  BY <1>1 DEF Recent
<1> QED
  BY <1>3, <1>4 DEF e

LEMMA EvictKeeps ==
    ASSUME NEW d \in Dictionaries, Resolved(d), NEW id \in DOMAIN d.valueOf
    PROVE  LET e == Evict(d, id)
           IN  /\ Resolved(e) /\ Stable(d, e)
               /\ \A j : Recent(d, j) => Recent(e, j)
<1> DEFINE old == d.valueOf[id]
           e == Evict(d, id)
<1>1. /\ e.next = d.next
      /\ e.order = RemoveFirst(d.order, id)
      /\ DOMAIN e.valueOf = DOMAIN d.valueOf \ {id}
      /\ \A i \in DOMAIN e.valueOf : e.valueOf[i] = d.valueOf[i]
      /\ DOMAIN e.idOf = DOMAIN d.idOf \ {old}
      /\ \A w \in DOMAIN e.idOf : e.idOf[w] = d.idOf[w]
  BY EvictParts
<1>2. d.order \in Seq(Ids) /\ id \in Ids
  BY DictionaryParts, PartialMap
<1> HIDE DEF e
<1>3. /\ \A y : Has(e.order, y) => Has(d.order, y)
      /\ \A y : Has(d.order, y) /\ y # id => Has(e.order, y)
  BY <1>1, <1>2, FirstRemoved
<1>4. DOMAIN e.valueOf \subseteq {e.order[i] : i \in 1 .. Len(e.order)}
  <2>1. \A x \in DOMAIN d.valueOf : Has(d.order, x)
    BY DEF Resolved, Has
  <2>2. \A x \in DOMAIN e.valueOf : Has(e.order, x)
    BY <1>1, <1>3, <2>1
  <2> QED
    BY <2>2 DEF Has
<1>5. \A w \in DOMAIN e.idOf : e.idOf[w] \in DOMAIN e.valueOf /\ e.valueOf[e.idOf[w]] = w
  BY <1>1 DEF Resolved
<1>6. ASSUME NEW j, Recent(d, j) PROVE Recent(e, j)
  <2>1. ASSUME NEW i \in 1 .. Len(e.order)
        PROVE  \E m \in 1 .. j : e.order[i] = Back(e.next, m)
    <3>1. PICK h \in 1 .. Len(d.order) : d.order[h] = e.order[i]
      BY <1>3 DEF Has
    <3> QED
      BY <1>1, <1>6, <3>1 DEF Recent
  <2> QED
    BY <2>1 DEF Recent
<1> QED
  BY <1>1, <1>4, <1>5, <1>6 DEF e, Resolved, Stable

\* configure terminates: without the queue nothing is left.
LEMMA EnoughThere ==
    ASSUME NEW d \in Dictionaries, Resolved(d), NEW set \in Settings
    PROVE  Enough(d, set) # {}
<1> DEFINE L == Len(d.order)
           e == DropOldest(d, L)
<1>1. L \in Nat /\ L \in 0 .. L /\ set.max \in Nat
  BY DictionaryParts DEF Settings
<1>2. Resolved(e) /\ Len(e.order) = 0
  BY <1>1, DropParts, DropKeeps
<1> HIDE DEF e
<1>3. DOMAIN e.idOf = {}
  BY <1>2 DEF Resolved
<1>4. Size(e) = 0
  BY <1>3, FS_EmptySet DEF Size
<1> QED
  BY <1>1, <1>4 DEF Enough, e

LEMMA ConfigureKeeps ==
    ASSUME NEW d \in Dictionaries, NEW set \in Settings, Enough(d, set) # {}
    PROVE  LET e == Configure(d, set)
           IN  /\ e \in Dictionaries /\ e.set = set
               /\ Resolved(d) => Resolved(e) /\ Stable(d, e)
               /\ \A j : Resolved(d) /\ Recent(d, j) => Recent(e, j)
<1> DEFINE c == Configured(d, set)
           e == Configure(d, set)
<1>1. /\ c \in Dictionaries
      /\ c.idOf = d.idOf /\ c.valueOf = d.valueOf /\ c.order = d.order
      /\ c.next = d.next /\ c.set = set
  BY ConfigureParts
<1>2. PICK k \in 0 .. Len(c.order) : e = DropOldest(c, k)
  BY ConfigureParts
<1> HIDE DEF c, e
<1>3. Resolved(d) => Resolved(c)
  BY <1>1 DEF Resolved
<1>4. \A j : Recent(d, j) => Recent(c, j)
  BY <1>1 DEF Recent
<1>5. e \in Dictionaries /\ e.set = set
  BY <1>1, <1>2, DropParts
<1>6. Resolved(d) => /\ Resolved(e) /\ Stable(c, e)
                     /\ \A j : Recent(c, j) => Recent(e, j)
  BY <1>1, <1>2, <1>3, DropKeeps
<1> QED
  BY <1>1, <1>4, <1>5, <1>6 DEF e, Stable

LEMMA CreateTyped ==
    ASSUME NEW d \in Dictionaries, NEW v \in Strings
    PROVE  CreateOrGet(d, v) \in Dictionaries /\ CreateOrGet(d, v).set = d.set
<1>1. MakeRoom(d) \in Dictionaries /\ MakeRoom(d).set = d.set
  BY CreateParts, DropParts
<1>2. Insert(MakeRoom(d), v) \in Dictionaries /\ Insert(MakeRoom(d), v).set = d.set
  BY <1>1, InsertParts
<1>3. CreateOrGet(d, v) \in {d, MakeRoom(d), Insert(MakeRoom(d), v)}
  BY CreateParts
<1> QED
  BY <1>1, <1>2, <1>3, Zenon

\* One more id is given out, or none.
LEMMA CreateKeeps ==
    ASSUME NEW d \in Dictionaries, Resolved(d), NEW k \in 1 .. IdMod, Recent(d, k),
           NEW v \in Strings
    PROVE  LET e == CreateOrGet(d, v)
           IN  /\ e.next = d.next => Resolved(e) /\ Stable(d, e) /\ Recent(e, k)
               /\ e.next # d.next /\ k # IdMod =>
                      Resolved(e) /\ Stable(d, e) /\ Recent(e, k + 1)
<1> DEFINE m == MakeRoom(d)
           e == CreateOrGet(d, v)
<1>1. /\ m = d \/ (1 \in 0 .. Len(d.order) /\ m = DropOldest(d, 1))
      /\ e = d \/ (v \notin DOMAIN d.idOf /\ e \in {m, Insert(m, v)})
  BY CreateParts
<1> HIDE DEF m, e
<1>2. /\ m \in Dictionaries /\ m.next = d.next
      /\ DOMAIN m.idOf \subseteq DOMAIN d.idOf
      /\ DOMAIN m.valueOf \subseteq DOMAIN d.valueOf
      /\ Resolved(m) /\ Stable(d, m) /\ Recent(m, k)
  <2>1. CASE m = d
    BY <2>1 DEF Stable
  <2>2. CASE 1 \in 0 .. Len(d.order) /\ m = DropOldest(d, 1)
    BY <2>2, DropParts, DropKeeps
  <2> QED
    BY <1>1, <2>1, <2>2
<1>3. CASE e = d
  BY <1>3 DEF Stable, e
<1>4. CASE e = m
  BY <1>2, <1>4 DEF e
<1>5. CASE v \notin DOMAIN d.idOf /\ e = Insert(m, v)
  <2>1. /\ e.next = IdAfter(d.next)
        /\ DOMAIN e.valueOf = DOMAIN m.valueOf \cup {d.next}
    BY <1>2, <1>5, InsertParts
  <2>2. IdAfter(d.next) # d.next
    BY DictionaryParts, NextAfter, IdAssumption DEF Ids
  <2>3. CASE k # IdMod
    <3>1. k \in 1 .. IdMod - 1
      BY <2>3, IdAssumption
    <3>2. Resolved(e) /\ Stable(m, e) /\ Recent(e, k + 1)
      BY <1>2, <1>5, <3>1, InsertKeeps
    <3>3. d.next \notin DOMAIN d.valueOf
      <4>1. \A i \in 1 .. Len(d.order) : d.order[i] # d.next
        BY <3>1, DictionaryParts, BackApart, IdAssumption DEF Recent
      <4> QED
        BY <4>1 DEF Resolved
    <3>4. Stable(d, e)
      BY <1>2, <2>1, <3>2, <3>3 DEF Stable
    <3> QED
      BY <2>1, <2>2, <3>2, <3>4 DEF e
  <2> QED
    BY <2>1, <2>2, <2>3 DEF e
<1> QED
  BY <1>1, <1>3, <1>4, <1>5
=============================================================================
