--------------------------- MODULE SchemaRegistry ---------------------------
(***************************************************************************)
(* The schemas a runtime knows.  SchemaValidator::validate_schema looks at *)
(* a definition, SchemaRegistry keeps it in a map by name and its name in  *)
(* a map by message id; every lookup by id goes through both maps.         *)
(***************************************************************************)
EXTENDS Integers, SequencesExt

CONSTANTS
    Definitions, \* the definitions given to register_schema
    NoName       \* the empty name

Kinds == {"fixed", "string", "bytes"}

\* A field has a name, a kind, an index and a size: that of a fixed field, or
\* the greatest length of another one.
ASSUME DefinitionsAssumption ==
    \A def \in Definitions :
        /\ def.id \in Nat
        /\ def.fields \in Seq({def.fields[i] : i \in DOMAIN def.fields})
        /\ \A i \in DOMAIN def.fields :
               /\ def.fields[i].size \in Nat
               /\ def.fields[i].kind = "fixed" => def.fields[i].size > 0

Empty == [schemas |-> <<>>, names |-> <<>>]

ByName(reg, name) == {reg.schemas[n] : n \in DOMAIN reg.schemas \cap {name}}

ById(reg, id) == UNION {ByName(reg, reg.names[k]) : k \in DOMAIN reg.names \cap {id}}

\* Every field stands where its index says, under a name of its own.
WellFormed(fields) ==
    \A i \in DOMAIN fields :
        /\ fields[i].index = i - 1
        /\ fields[i].kind \in Kinds
        /\ \A j \in 1 .. i - 1 : fields[j].name # fields[i].name

\* validate_schema; the same name and id as those of a schema pass.
Validates(reg, def) ==
    /\ def.name # NoName
    /\ def.fields # <<>>
    /\ def.id # 0
    /\ WellFormed(def.fields)
    /\ \A s \in ByName(reg, def.name) : s.id = def.id
    /\ \A s \in ById(reg, def.id) : s.name = def.name

Taken(reg, def) == def.name \in DOMAIN reg.schemas \/ def.id \in DOMAIN reg.names

Put(map, key, value) ==
    [k \in DOMAIN map \cup {key} |-> IF k = key THEN value ELSE map[k]]

\* SchemaRegistry::register_schema
Entered(reg, def) ==
    IF def.name = NoName \/ def.fields = <<>> \/ Taken(reg, def) THEN reg
    ELSE [schemas |-> Put(reg.schemas, def.name, def),
          names |-> Put(reg.names, def.id, def.name)]

\* Mutated form, of Registered: no definition is validated.
RegisteredUnseen(reg, def) == Entered(reg, def)

\* SchemaRuntime::register_schema
Registered(reg, def) == IF Validates(reg, def) THEN Entered(reg, def) ELSE reg
=============================================================================
