----------------------------- MODULE FieldPaths -----------------------------
(***************************************************************************)
(* The two ways a field takes through a pair of runtimes.  On one, a JSON  *)
(* object goes through send_json, a full packet and receive_json; on the   *)
(* other, a changed number goes through a delta packet.                    *)
(***************************************************************************)
EXTENDS JsonField

CONSTANTS
    Objects(_), \* the JSON objects tried with a schema
    Schemas     \* each a function from names to field types

ASSUME PathsAssumption ==
    \A sch \in Schemas :
        /\ \A n \in DOMAIN sch : sch[n] \in FieldTypes
        /\ \A object \in Objects(sch) : \A n \in DOMAIN object : IsJsonValue(object[n])

VARIABLES
    route,    \* what is sent: a JSON object or a change of a number
    packet,   \* what is on the wire: <<>> or one item
    refused,  \* send_json returned json_conversion_failed
    result    \* what the receiver returned: <<>> or one item

fieldVars == <<route, packet, refused, result>>

JsonRoutes == UNION {[schema : {sch}, object : Objects(sch)] : sch \in Schemas}
DeltaRoutes ==
    UNION {[type : {t}, previous : NumbersOf(t), current : NumbersOf(t)] : t \in Types}

IsJson == "object" \in DOMAIN route

FieldInit ==
    /\ route \in JsonRoutes \cup DeltaRoutes
    /\ packet = <<>>
    /\ refused = FALSE
    /\ result = <<>>

\* The bytes of a field in a full packet.
Encoded(t, value) ==
    IF t \in Types THEN Form("raw", t.width, value) ELSE value

Decoded(t, bytes) == IF t \in Types THEN Cast(t, bytes.residue) ELSE bytes

\* A field that is missing, of the wrong type or out of range, and a field
\* too many: each makes the whole object fail.
Fitting(sch, object) ==
    /\ DOMAIN object = DOMAIN sch
    /\ \A n \in DOMAIN sch : Converts(sch[n], object[n])

SendJson ==
    /\ IsJson /\ packet = <<>> /\ ~refused
    /\ LET sch == route.schema
       IN  IF Fitting(sch, route.object)
           THEN /\ packet' = <<[n \in DOMAIN sch |->
                                  Encoded(sch[n], ToField(sch[n], route.object[n]))]>>
                /\ UNCHANGED refused
           ELSE refused' = TRUE /\ UNCHANGED packet
    /\ UNCHANGED <<route, result>>

ReceiveJson ==
    /\ IsJson /\ packet # <<>> /\ result = <<>>
    /\ LET sch == route.schema
       IN result' = <<[n \in DOMAIN sch |-> ToJson(sch[n], Decoded(sch[n], packet[1][n]))]>>
    /\ UNCHANGED <<route, packet, refused>>

SendChange ==
    /\ ~IsJson /\ packet = <<>>
    /\ packet' = <<WriteDelta(route.type, route.previous, route.current)>>
    /\ UNCHANGED <<route, refused, result>>

ReceiveChange ==
    /\ ~IsJson /\ packet # <<>> /\ result = <<>>
    /\ result' = <<ReadDelta(route.type, route.previous, packet[1])>>
    /\ UNCHANGED <<route, packet, refused>>

FieldNext == SendJson \/ ReceiveJson \/ SendChange \/ ReceiveChange

FieldSpec == FieldInit /\ [][FieldNext]_fieldVars
-----------------------------------------------------------------------------
(* What should be true of it *)

\* The receiver rebuilds the sender's value, across every tag boundary and
\* every wrap of read_numeric_delta's 64-bit sum.
FieldRebuilt == ~IsJson => result \in {<<>>, <<route.current>>}

\* What comes back as JSON is the object that was sent: no range check lets
\* a number through that its field cannot hold.  A number in a field of
\* floats comes back as a decimal, rounded to the precision of the field.
JsonKept ==
    IsJson /\ result # <<>> =>
        /\ DOMAIN result[1] = DOMAIN route.object
        /\ \A n \in DOMAIN result[1] :
              LET t == route.schema[n]
              IN  result[1][n] = IF IsFloat(t)
                                 THEN Decimal(Narrowed(t, RealOf(route.object[n])))
                                 ELSE route.object[n]

\* Why both hold: the packet is what the sender made of the route's input.
PathsInv ==
    /\ route \in JsonRoutes \cup DeltaRoutes
    /\ IsJson /\ packet # <<>> =>
          LET sch == route.schema
          IN  /\ Fitting(sch, route.object)
              /\ packet = <<[n \in DOMAIN sch |->
                               Encoded(sch[n], ToField(sch[n], route.object[n]))]>>
    /\ ~IsJson /\ packet # <<>> =>
          packet = <<WriteDelta(route.type, route.previous, route.current)>>
    /\ FieldRebuilt
    /\ JsonKept
=============================================================================
