-------------------------- MODULE DictionaryProofs --------------------------
(***************************************************************************)
(* Theorems about one dictionary whose limits are less than the number of  *)
(* ids, whatever is called of it, update and evict included.               *)
(***************************************************************************)
EXTENDS AdaptiveDictionary, DictionaryFacts

Fitting == \A m \in Limits : m < IdMod

LEMMA LimitedFits ==
    ASSUME Fitting, NEW m \in Limits
    PROVE  Limited(m) \in Settings /\ Limited(m).max < IdMod
  BY IdAssumption, CallsAssumption DEF Fitting, Limited, Settings

\* Until the first update or evict the dictionary is sound.  From then on,
\* until the counter has come round, every reference still resolves, and no
\* id in the queue was given out longer ago than the ids left allow: that is
\* what keeps the next id free.
Always ==
    /\ TypeOK
    /\ dict.set.max < IdMod
    /\ ~Edited => Sound(dict)
    /\ left \in 0 .. IdMod - 1 => Resolved(dict) /\ Recent(dict, IdMod - left)

LEMMA AlwaysInit ==
    ASSUME Fitting, Init PROVE Always
<1>1. Sound(dict) /\ ~Edited
  BY LimitedFits, Emptied DEF Init, Edited
<1>2. left = IdMod /\ left \notin 0 .. IdMod - 1
  BY IdAssumption DEF Init, Untouched
<1> QED
  BY <1>1, <1>2, IdAssumption
     DEF Always, TypeOK, Sound, Linked, Untouched, ComeRound

LEMMA AlwaysResolved ==
    ASSUME Always, left # ComeRound PROVE dict \in Dictionaries /\ Resolved(dict)
<1>1. left = Untouched \/ left \in 0 .. IdMod - 1
  BY IdAssumption DEF Always, TypeOK, Untouched, ComeRound
<1>2. ~Edited => Resolved(dict)
  BY LinkedIsResolved DEF Always, Sound
<1> QED
  BY <1>1, <1>2 DEF Always, TypeOK, Edited

\* A string is created, without an edit or after one.
LEMMA CreateStep ==
    ASSUME Always, NEW v \in Strings, Create(v)
    PROVE  Always' /\ (left' # ComeRound => Stable(dict, dict'))
<1>0. /\ dict \in Dictionaries /\ dict' = CreateOrGet(dict, v) /\ dict' \in Dictionaries
      /\ dict.set.max < IdMod /\ dict'.set = dict.set
      /\ left' = IF Edited /\ left # ComeRound /\ dict'.next # dict.next
                 THEN left - 1 ELSE left
      /\ left \in ComeRound .. Untouched /\ IdMod \in Nat /\ IdMod > 1
  BY CreateTyped, IdAssumption DEF Always, TypeOK, Create
<1>1. CASE ~Edited
  <2>1. left' = left /\ left = IdMod /\ Sound(dict)
    BY <1>0, <1>1 DEF Always, Edited, Untouched
  <2>2. Sound(dict') /\ Stable(dict, dict')
    BY <1>0, <2>1, Created DEF Stable
  <2> QED
    BY <1>0, <2>1, <2>2 DEF Always, TypeOK, Edited, Untouched, ComeRound
<1>2. CASE left = ComeRound
  BY <1>0, <1>2 DEF Always, TypeOK, Edited, Untouched, ComeRound
<1>3. CASE Edited /\ left # ComeRound
  <2>1. left \in 0 .. IdMod - 1
    BY <1>0, <1>3 DEF Edited, Untouched, ComeRound
  <2>2. /\ Resolved(dict) /\ Recent(dict, IdMod - left)
        /\ IdMod - left \in 1 .. IdMod
    BY <2>1, IdAssumption DEF Always
  <2>3. CASE dict'.next = dict.next
    <3>1. left' = left
      BY <1>0, <2>3
    <3>2. Resolved(dict') /\ Stable(dict, dict') /\ Recent(dict', IdMod - left)
      BY <1>0, <2>2, <2>3, CreateKeeps
    <3> QED
      BY <1>0, <1>3, <3>1, <3>2 DEF Always, TypeOK, Edited
  <2>4. CASE dict'.next # dict.next /\ left = 0
    <3>1. left' = ComeRound
      BY <1>0, <1>3, <2>4 DEF ComeRound
    <3> QED
      BY <1>0, <3>1 DEF Always, TypeOK, Edited, Untouched, ComeRound
  <2>5. CASE dict'.next # dict.next /\ left # 0
    <3>1. /\ left' = left - 1 /\ left' \in 0 .. IdMod - 2
          /\ IdMod - left # IdMod /\ IdMod - left + 1 = IdMod - left'
      BY <1>0, <1>3, <2>1, <2>5
    <3>2. Resolved(dict') /\ Stable(dict, dict') /\ Recent(dict', IdMod - left')
      BY <1>0, <2>2, <2>5, <3>1, CreateKeeps
    <3> QED
      BY <1>0, <3>1, <3>2 DEF Always, TypeOK, Edited, Untouched, ComeRound
  <2> QED
    BY <2>3, <2>4, <2>5
<1> QED
  BY <1>1, <1>2, <1>3

LEMMA SetLimitStep ==
    ASSUME Fitting, Always, NEW m \in Limits, SetLimit(m)
    PROVE  Always' /\ (left' # ComeRound => Stable(dict, dict'))
<1>0. /\ dict \in Dictionaries /\ Limited(m) \in Settings /\ Limited(m).max < IdMod
      /\ Enough(dict, Limited(m)) # {}
      /\ dict' = Configure(dict, Limited(m)) /\ left' = left
  BY LimitedFits DEF Always, TypeOK, SetLimit
<1>1. /\ dict' \in Dictionaries /\ dict'.set.max < IdMod
      /\ Resolved(dict) => Resolved(dict') /\ Stable(dict, dict')
      /\ \A j : Resolved(dict) /\ Recent(dict, j) => Recent(dict', j)
  BY <1>0, ConfigureKeeps
<1>2. ~Edited => Sound(dict')
  BY <1>0, Reconfigured DEF Always
<1>3. left # ComeRound => Resolved(dict)
  BY AlwaysResolved
<1> QED
  BY <1>0, <1>1, <1>2, <1>3 DEF Always, TypeOK, Edited

\* An edit: when it is the first, the queue tells how many ids are left.
LEMMA EditLeaves ==
    ASSUME Always, Edit, NEW id \in DOMAIN dict.valueOf
    PROVE  /\ left' \in ComeRound .. IdMod - 1
           /\ left' # ComeRound => /\ left # ComeRound
                                   /\ Resolved(dict) /\ Recent(dict, IdMod - left')
<1>0. left \in ComeRound .. Untouched /\ IdMod \in Nat /\ IdMod > 1
  BY IdAssumption DEF Always, TypeOK
<1>1. CASE Edited
  <2>1. left' = left /\ left \in ComeRound .. IdMod - 1
    BY <1>0, <1>1 DEF Edit, Edited, Untouched, ComeRound
  <2> QED
    BY <1>0, <2>1 DEF Always, ComeRound
<1>2. CASE ~Edited
  <2>1. Linked(dict) /\ left' = IdMod - Len(dict.order) /\ left # ComeRound
    BY <1>0, <1>2 DEF Always, Edit, Edited, Sound, Untouched, ComeRound
  <2>2. Resolved(dict) /\ Recent(dict, Len(dict.order))
    BY <2>1, LinkedIsResolved
  <2>3. Len(dict.order) \in Nat /\ Len(dict.order) < IdMod
    BY <2>1, DictionaryParts DEF Linked
  <2>4. \E i \in 1 .. Len(dict.order) : dict.order[i] = id
    BY <2>2 DEF Resolved
  <2>5. Len(dict.order) > 0
    BY <2>3, <2>4
  <2>6. left' \in 1 .. IdMod - 1 /\ IdMod - left' = Len(dict.order)
    BY <1>0, <2>1, <2>3, <2>5
  <2> QED
    BY <2>1, <2>2, <2>6 DEF ComeRound
<1> QED
  BY <1>1, <1>2

LEMMA ChangeStep ==
    ASSUME Always, NEW id \in Ids, NEW v \in Strings, Change(id, v)
    PROVE  Always'
<1>0. /\ dict \in Dictionaries /\ id \in DOMAIN dict.valueOf /\ Edit
      /\ dict' = Update(dict, id, v) /\ IdMod \in Nat
  BY IdAssumption DEF Always, TypeOK, Change
<1>1. /\ left' \in ComeRound .. IdMod - 1
      /\ left' # ComeRound => /\ left # ComeRound
                              /\ Resolved(dict) /\ Recent(dict, IdMod - left')
  BY <1>0, EditLeaves
<1>2. dict' \in Dictionaries /\ dict'.set = dict.set /\ dict.set.max < IdMod
  BY <1>0, UpdateParts DEF Always
<1>3. left' # ComeRound => Resolved(dict') /\ Recent(dict', IdMod - left')
  BY <1>0, <1>1, UpdateKeeps
<1> QED
  BY <1>0, <1>1, <1>2, <1>3 DEF Always, TypeOK, Edited, Untouched, ComeRound

LEMMA DropStep ==
    ASSUME Always, NEW id \in Ids, Drop(id)
    PROVE  Always' /\ (left' # ComeRound => Stable(dict, dict'))
<1>0. /\ dict \in Dictionaries /\ id \in DOMAIN dict.valueOf /\ Edit
      /\ dict' = Evict(dict, id) /\ IdMod \in Nat
  BY IdAssumption DEF Always, TypeOK, Drop
<1>1. /\ left' \in ComeRound .. IdMod - 1
      /\ left' # ComeRound => /\ left # ComeRound
                              /\ Resolved(dict) /\ Recent(dict, IdMod - left')
  BY <1>0, EditLeaves
<1>2. dict' \in Dictionaries /\ dict'.set = dict.set /\ dict.set.max < IdMod
  BY <1>0, EvictParts DEF Always
<1>3. left' # ComeRound => /\ Resolved(dict') /\ Recent(dict', IdMod - left')
                           /\ Stable(dict, dict')
  BY <1>0, <1>1, EvictKeeps
<1> QED
  BY <1>0, <1>1, <1>2, <1>3 DEF Always, TypeOK, Edited, Untouched, ComeRound

\* reset keeps the limit, which fits as every limit does.
LEMMA ClearStep ==
    ASSUME Always, Clear
    PROVE  Always' /\ Stable(dict, dict')
<1>1. /\ dict.set \in Settings /\ dict' = Empty(dict.set) /\ left' = Untouched
      /\ IdMod \in Nat /\ IdMod > 1 /\ dict.set.max < IdMod
  BY DictionaryParts, IdAssumption DEF Always, TypeOK, Clear, Reset
<1>2. Sound(dict') /\ DOMAIN dict'.valueOf = {}
  BY <1>1, Emptied
<1> QED
  BY <1>1, <1>2
     DEF Always, TypeOK, Edited, Untouched, ComeRound, Stable, Sound, Linked

\* A step keeps the invariant, and all but update keep what the ids mean.
Meaning ==
    \/ \E id \in Ids, v \in Strings : Change(id, v)
    \/ left' = ComeRound
    \/ Stable(dict, dict')

LEMMA AlwaysStep ==
    ASSUME Fitting, Always, [Next]_vars PROVE Always' /\ Meaning
<1>1. ASSUME NEW v \in Strings, Create(v) PROVE Always' /\ Meaning
  BY <1>1, CreateStep DEF Meaning
<1>2. ASSUME NEW m \in Limits, SetLimit(m) PROVE Always' /\ Meaning
  BY <1>2, SetLimitStep DEF Meaning
<1>3. ASSUME NEW id \in Ids, NEW v \in Strings, Change(id, v) PROVE Always' /\ Meaning
  BY <1>3, ChangeStep DEF Meaning
<1>4. ASSUME NEW id \in Ids, Drop(id) PROVE Always' /\ Meaning
  BY <1>4, DropStep DEF Meaning
<1>5. CASE Clear
  BY <1>5, ClearStep DEF Meaning
<1>6. CASE UNCHANGED vars
  BY <1>6 DEF vars, Always, TypeOK, Edited, Meaning, Stable
<1> QED
  BY <1>1, <1>2, <1>3, <1>4, <1>5, <1>6 DEF Next

LEMMA AlwaysHolds ==
    ASSUME Fitting PROVE Spec => []Always
<1>1. Init => Always
  BY AlwaysInit
<1>2. Always /\ [Next]_vars => Always'
  BY AlwaysStep
<1> QED
  BY <1>1, <1>2, PTL DEF Spec

\* Until update or evict is called the two maps are inverses of each other
\* and the queue holds the ids given out last, whatever is created,
\* configured and reset, and however often the ids come round.
THEOREM DictionaryConsistent ==
    ASSUME Fitting PROVE Spec => []Consistent
<1>1. Always => Consistent
  BY DEF Always, Consistent
<1> QED
  BY <1>1, AlwaysHolds, PTL

\* What holds in every state of the invariant.
LEMMA AlwaysImplies ==
    ASSUME Fitting, Always
    PROVE  TypeOK /\ RefsResolve /\ Bounded /\ CreateSucceeds /\ ConfigureEnds
<1>1. TypeOK
  BY DEF Always
<1>2. RefsResolve
  <2>1. ASSUME left # ComeRound, NEW v \in DOMAIN dict.idOf
        PROVE  /\ dict.idOf[v] \in DOMAIN dict.valueOf
               /\ dict.valueOf[dict.idOf[v]] = v
               /\ \E i \in DOMAIN dict.order : dict.order[i] = dict.idOf[v]
    <3>1. dict \in Dictionaries /\ Resolved(dict)
      BY <2>1, AlwaysResolved
    <3>2. DOMAIN dict.order = 1 .. Len(dict.order)
      BY <3>1, DictionaryParts
    <3> QED
      BY <2>1, <3>1, <3>2 DEF Resolved
  <2> QED
    BY <2>1 DEF RefsResolve
<1>3. Bounded
  BY SizeIsLength DEF Bounded, Always, Sound
<1>4. CreateSucceeds
  BY Created DEF CreateSucceeds, Always
<1>5. ConfigureEnds
  BY LimitedFits, AlwaysResolved, EnoughThere DEF ConfigureEnds
<1> QED
  BY <1>1, <1>2, <1>3, <1>4, <1>5

\* The dictionary is always of its type, whatever is called.
THEOREM DictionaryType ==
    ASSUME Fitting PROVE Spec => []TypeOK
  BY AlwaysHolds, AlwaysImplies, PTL

\* A reference that could be written is one that could be read back, also
\* after update and evict, until the counter has come round.
THEOREM ReferencesResolve ==
    ASSUME Fitting PROVE Spec => []RefsResolve
  BY AlwaysHolds, AlwaysImplies, PTL

\* Until update or evict is called the limit bounds the maps and the queue
\* alike.
THEOREM DictionaryBounded ==
    ASSUME Fitting PROVE Spec => []Bounded
  BY AlwaysHolds, AlwaysImplies, PTL

\* Until update or evict is called create_or_get never answers that the
\* dictionary is full.
THEOREM CreateNeverFull ==
    ASSUME Fitting PROVE Spec => []CreateSucceeds
  BY AlwaysHolds, AlwaysImplies, PTL

\* The loop in configure ends whenever it is entered, also after update and
\* evict, until the counter has come round.
THEOREM ConfigureTerminates ==
    ASSUME Fitting PROVE Spec => []ConfigureEnds
  BY AlwaysHolds, AlwaysImplies, PTL

\* As long as an id is mapped it is mapped to the same string, except by
\* update, also after update and evict, until the counter has come round.
THEOREM IdsStable ==
    ASSUME Fitting PROVE Spec => StableIds
<1>1. Always /\ [Next]_vars =>
          [\/ \E id \in Ids, v \in Strings : Change(id, v)
           \/ left' = ComeRound
           \/ \A id \in DOMAIN dict.valueOf \cap DOMAIN dict'.valueOf :
                  dict'.valueOf[id] = dict.valueOf[id]]_dict
  BY AlwaysStep DEF Meaning, Stable
<1> QED
  BY <1>1, AlwaysHolds, PTL DEF Spec, StableIds
=============================================================================
