------------------------- MODULE AdaptiveDictionary -------------------------
(***************************************************************************)
(* One AdaptiveDictionary and the calls that may be made of it, in any     *)
(* order.  Its ids are right as long as none is given out that is still in *)
(* use; update and evict may keep an id in use while the others come       *)
(* round.  A history variable counts how far that is away.                 *)
(***************************************************************************)
EXTENDS DictionaryOps

CONSTANTS
    Limits,   \* the values of max_entries that may be configured
    Calls,    \* the calls besides create_or_get
    MaxQueue  \* bound: the length of insertion_order_

ASSUME CallsAssumption ==
    /\ Limits \subseteq Nat
    /\ Limits # {}
    /\ Calls \subseteq {"configure", "update", "evict", "reset"}
    /\ MaxQueue \in Nat

VARIABLES
    dict,
    left   \* after update or evict: how many ids may be given out before one
           \* of those that were in the queue then comes round

vars == <<dict, left>>

\* Since the last reset: update or evict was not called; it was, and so many
\* ids have been given out since that the counter has come round to the ids
\* that were in the queue before.
Untouched == IdMod
ComeRound == -1

Edited == left # Untouched

\* configure replaces a limit of 0 by 1.
Limited(m) == [enabled |-> TRUE, max |-> IF m = 0 THEN 1 ELSE m]

TypeOK == dict \in Dictionaries /\ left \in ComeRound .. Untouched

Init ==
    /\ \E m \in Limits : dict = Empty(Limited(m))
    /\ left = Untouched

Create(v) ==
    /\ dict' = CreateOrGet(dict, v)
    /\ Len(dict'.order) <= MaxQueue
    /\ left' = IF Edited /\ left # ComeRound /\ dict'.next # dict.next
               THEN left - 1 ELSE left

\* A call for which no number of evictions is enough never returns.
SetLimit(m) ==
    /\ "configure" \in Calls
    /\ Enough(dict, Limited(m)) # {}
    /\ dict' = Configure(dict, Limited(m))
    /\ UNCHANGED left

\* The ids in the queue are the last that were given out, all others are free.
Edit == left' = IF Edited THEN left ELSE IdMod - Len(dict.order)

Change(id, v) ==
    /\ "update" \in Calls
    /\ id \in DOMAIN dict.valueOf
    /\ dict' = Update(dict, id, v)
    /\ Edit

Drop(id) ==
    /\ "evict" \in Calls
    /\ id \in DOMAIN dict.valueOf
    /\ dict' = Evict(dict, id)
    /\ Edit

Clear ==
    /\ "reset" \in Calls
    /\ dict' = Reset(dict)
    /\ left' = Untouched

Next ==
    \/ \E v \in Strings : Create(v)
    \/ \E m \in Limits : SetLimit(m)
    \/ \E id \in Ids, v \in Strings : Change(id, v)
    \/ \E id \in Ids : Drop(id)
    \/ Clear

Spec == Init /\ [][Next]_vars
-----------------------------------------------------------------------------
(* What should be true of it *)

\* Every id that lookup_id can answer, and that encode_string would put on
\* the wire, is mapped back to the very string and still in the queue.  The
\* code keeps this, whatever is created, updated, evicted and configured in
\* whatever order, until after an update or evict the counter has come round.
RefsResolve == left # ComeRound =>
    \A v \in DOMAIN dict.idOf :
        /\ dict.idOf[v] \in DOMAIN dict.valueOf
        /\ dict.valueOf[dict.idOf[v]] = v
        /\ \E i \in DOMAIN dict.order : dict.order[i] = dict.idOf[v]

\* The two maps are inverses of each other and the queue holds the ids that
\* were given out last, in order: nothing but update and evict disturbs this.
Consistent == ~Edited => Sound(dict)

\* The limit bounds both maps and the queue, not only the one that size()
\* counts, until update gives one string two ids.
Bounded == ~Edited =>
    /\ Size(dict) <= dict.set.max
    /\ Cardinality(DOMAIN dict.valueOf) <= dict.set.max
    /\ Len(dict.order) <= dict.set.max

\* create_or_get never answers "full": when it is, the oldest entry goes.
CreateSucceeds == ~Edited => \A v \in Strings : v \in DOMAIN CreateOrGet(dict, v).idOf

\* The loop in configure ends, whatever limit is set, also when update has
\* given one string two ids and size() is less than the queue is long.
ConfigureEnds == left # ComeRound =>
    \A m \in Limits : Enough(dict, Limited(m)) # {}

\* An id keeps its meaning until it is evicted: a reference encoded before a
\* call and read after it is not silently another string (except by update),
\* also when the counter comes round, until it meets an id that update or
\* evict kept in use.
StableIds ==
    [][\/ \E id \in Ids, v \in Strings : Change(id, v)
       \/ left' = ComeRound
       \/ \A id \in DOMAIN dict.valueOf \cap DOMAIN dict'.valueOf :
              dict'.valueOf[id] = dict.valueOf[id]]_dict
=============================================================================
