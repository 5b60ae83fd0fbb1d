---------------------------- MODULE DictionaryOps ----------------------------
(***************************************************************************)
(* The operations of AdaptiveDictionary as operators on its state: two     *)
(* maps, string to id and id to string, the ids in the order they were     *)
(* given out, the next id, and the configuration.  An id is 16 bits wide,  *)
(* so IdMod is 65536 in the program.                                       *)
(***************************************************************************)
EXTENDS Integers, FiniteSets, SequencesExt

CONSTANTS
    Strings,
    IdMod   \* ids are counted modulo IdMod

ASSUME IdAssumption == IdMod \in Nat /\ IdMod > 1

Ids == 0 .. IdMod - 1

\* Partial maps: idOf is id_by_value_, valueOf is value_by_id_.
PartialMaps(from, to) == UNION {[part -> to] : part \in SUBSET from}

Settings == [enabled : BOOLEAN, max : Nat \ {0}]

Dictionaries == [idOf : PartialMaps(Strings, Ids),
                 valueOf : PartialMaps(Ids, Strings),
                 order : Seq(Ids), next : Ids, set : Settings]

Without(f, gone) == Restrict(f, DOMAIN f \ gone)

With(f, k, v) == [x \in DOMAIN f \cup {k} |-> IF x = k THEN v ELSE f[x]]

Nothing == [x \in {} |-> x]

Empty(set) == [idOf |-> Nothing, valueOf |-> Nothing, order |-> <<>>,
               next |-> 1, set |-> set]

Size(d) == Cardinality(DOMAIN d.idOf)

HasRoom(d) == Size(d) < d.set.max

\* Mutated form, of Forget: the string keeps pointing at the id.
ForgetIdOnly(d, gone) == [d EXCEPT !.valueOf = Without(@, gone)]

\* The ids of the set gone, and the strings they stand for, are forgotten.
Forget(d, gone) ==
    [d EXCEPT !.idOf = Without(@, {d.valueOf[i] : i \in gone}),
              !.valueOf = Without(@, gone)]

\* evict_oldest_if_needed, k times over; an id that is no longer mapped is
\* only taken from the order.
DropOldest(d, k) ==
    LET gone == {d.order[i] : i \in 1 .. k} \cap DOMAIN d.valueOf
    IN  [Forget(d, gone) EXCEPT !.order = SubSeq(@, k + 1, Len(@))]

EvictOldest(d) == IF d.order = <<>> THEN d ELSE DropOldest(d, 1)

\* Mutated form, of NextId: the id counts the entries.
NextFree(d) == Size(d) + 1

IdAfter(id) == (id + 1) % IdMod

NextId(d) == d.next

Insert(d, v) ==
    [d EXCEPT !.idOf = With(@, v, NextId(d)),
              !.valueOf = With(@, NextId(d), v),
              !.order = Append(@, NextId(d)),
              !.next = IdAfter(@)]

\* Mutated form, of MakeRoom: a full dictionary stays as it is.
KeepAll(d) == d

MakeRoom(d) == IF HasRoom(d) THEN d ELSE EvictOldest(d)

\* The state after create_or_get(v); it answers "full" when v is still not
\* in the dictionary.
CreateOrGet(d, v) ==
    IF v \in DOMAIN d.idOf THEN d
    ELSE IF HasRoom(MakeRoom(d)) THEN Insert(MakeRoom(d), v)
                                 ELSE MakeRoom(d)

\* Mutated form, of Update: the old string keeps its entry.
UpdateKeepsOld(d, id, v) ==
    [d EXCEPT !.idOf = With(@, v, id), !.valueOf[id] = v]

\* update(id, v), for an id that is mapped.
Update(d, id, v) ==
    [d EXCEPT !.idOf = With(Without(@, {d.valueOf[id]}), v, id),
              !.valueOf[id] = v]

\* evict(id), for an id that is mapped.
Evict(d, id) ==
    [Forget(d, {id}) EXCEPT !.order = RemoveFirst(@, id)]

\* configure: evict until the dictionary fits.  If no number of evictions is
\* enough the loop does not end.
Configured(d, set) == [d EXCEPT !.set = set]

Enough(d, set) ==
    {k \in 0 .. Len(d.order) : Size(DropOldest(d, k)) <= set.max}

Configure(d, set) ==
    DropOldest(Configured(d, set),
               CHOOSE k \in Enough(d, set) : \A j \in Enough(d, set) : k <= j)

Reset(d) == Empty(d.set)
-----------------------------------------------------------------------------
\* What the calls of create_or_get, configure and reset preserve: the queue
\* holds the ids given out last, each mapped to a string that maps back.
Back(id, k) == IF id >= k THEN id - k ELSE id + IdMod - k

Linked(d) ==
    /\ d \in Dictionaries
    /\ Len(d.order) < IdMod
    /\ \A i \in 1 .. Len(d.order) :
          d.order[i] = Back(d.next, Len(d.order) + 1 - i)
    /\ DOMAIN d.valueOf = {d.order[i] : i \in 1 .. Len(d.order)}
    /\ DOMAIN d.idOf = {d.valueOf[i] : i \in DOMAIN d.valueOf}
    /\ \A i \in DOMAIN d.valueOf : d.idOf[d.valueOf[i]] = i

Sound(d) ==
    /\ Linked(d)
    /\ Len(d.order) <= d.set.max
    /\ d.set.max < IdMod
=============================================================================
