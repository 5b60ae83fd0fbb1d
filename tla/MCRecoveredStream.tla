-------------------------- MODULE MCRecoveredStream --------------------------
(* Bytes of three bits; one schema around a string, one of mostly fixed     *)
(* fields that needs two bytes of bitmap, two with a length that may not    *)
(* fit, and definitions that collide with them or are refused.              *)
EXTENDS RecoveredStream

Fields(kinds) ==
    [i \in DOMAIN kinds |->
        [name |-> i, index |-> i - 1, kind |-> kinds[i][1], size |-> kinds[i][2]]]

Schema(name, id, kinds) == [name |-> name, id |-> id, fields |-> Fields(kinds)]

Reading == Schema("reading", 1, <<<<"fixed", 1>>, <<"string", 2>>, <<"fixed", 2>>>>)
Frame == Schema("frame", 2, <<<<"fixed", 2>>, <<"fixed", 3>>, <<"bytes", 1>>, <<"fixed", 2>>>>)
Note == Schema("note", 3, <<<<"string", 8>>>>)
Blob == Schema("blob", 4, <<<<"fixed", 2>>, <<"bytes", 9>>>>)

\* The id of one and the name of another: this one, or those two.
Clash == Schema("frame", 1, <<<<"fixed", 1>>, <<"fixed", 1>>>>)

Twice == [name |-> "twice", id |-> 5,
          fields |-> [i \in 1 .. 2 |-> [name |-> 1, index |-> i - 1, kind |-> "fixed", size |-> 1]]]
Zeroth == Schema("zeroth", 0, <<<<"fixed", 1>>>>)

AllDefinitions == {Reading, Frame, Note, Blob, Clash, Twice, Zeroth}

\* A string of both dictionaries, one that is longer in the receiver's, and
\* one that the receiver lacks.
SenderStrings == 2 :> 1 @@ 3 :> 2 @@ 5 :> 1
ReceiverStrings == 2 :> 1 @@ 3 :> 4

\* The CRC of six bits: x^6 + x + 1, reflected.
SmallPoly == {4, 5}

-----------------------------------------------------------------------------
F(bytes) == Own("fixed", bytes)
S(bytes) == Own("string", bytes)
B(bytes) == Own("bytes", bytes)
Copies(n, byte) == [i \in 1 .. n |-> byte]

\* Strings with bytes like the marks and ids, references, one too long; a
\* Reading may start with the optimizer's mark.  In a Frame all fixed fields
\* are zero, or all but the last, or too few for the optimizer.
Readings ==
    {<<F(<<0>>), s, F(<<0, 0>>)>> :
        s \in {S(<<>>), S(<<7>>), S(<<1, 0>>), S(<<1, 1, 1>>),
               Reference(2), Reference(3), Reference(5)}}
    \cup {<<F(<<6>>), S(<<7>>), F(<<0, 0>>)>>}
Frames ==
    {<<F(<<0, 0>>), F(v[1]), B(b), F(v[2])>> :
        v \in {<<<<0, 0, 0>>, <<0, 0>>>>, <<<<0, 0, 0>>, <<0, 3>>>>, <<<<6, 1, 0>>, <<0, 0>>>>},
        b \in {<<>>, <<5>>}}
Notes == {<<S(Copies(n, 1))>> : n \in {0, 6, 7, 8, 9}}
Blobs == {<<F(<<0, 0>>), B(Copies(n, 1))>> : n \in {1, 7, 8, 9, 10}}
Pairs == {<<F(<<a>>), F(<<b>>)>> : a, b \in {0, 1}}
Mistyped == {<<F(<<0>>)>>, <<F(<<0>>), B(<<1>>), F(<<0, 0>>)>>}

ValuesOfName(reg, name) ==
    IF name = "reading" THEN Readings \cup Mistyped
    ELSE IF name = "note" THEN Notes
    ELSE IF name = "blob" THEN Blobs
    ELSE IF name = "frame" /\ reg.schemas[name] = Frame THEN Frames
    ELSE Pairs

\* Field 9 is in no schema.
PayloadsOf(values) ==
    {values} \cup (IF values \in {<<F(<<0>>), S(<<7>>), F(<<0, 0>>)>>}
                   THEN {values @@ 9 :> F(<<0>>)} ELSE {})

Ways == {<<"send", FALSE>>, <<"send", TRUE>>, <<"send_ordered", FALSE>>,
         <<"send_ordered", TRUE>>, <<"fast_encode", FALSE>>}
Takers == {<<"receive", FALSE>>, <<"receive", TRUE>>, <<"receive_as", TRUE>>,
           <<"receive_ordered", FALSE>>, <<"receive_ordered", TRUE>>, <<"fast_decode", FALSE>>}

CallsWith(reg, name, values) ==
    {[via |-> "call", by |-> w[1], name |-> name, omit |-> w[2],
      data |-> d, to |-> t[1], on |-> t[2]] :
        w \in {x \in Ways : x[1] = "fast_encode" => \A i \in DOMAIN values : ~values[i].ref},
        d \in {values}, t \in Takers}
    \cup {[via |-> "call", by |-> "send", name |-> name, omit |-> FALSE,
           data |-> d, to |-> "receive", on |-> FALSE] : d \in PayloadsOf(values)}

Calls(reg) ==
    UNION {UNION {CallsWith(reg, name, values) : values \in ValuesOfName(reg, name)} :
              name \in DOMAIN reg.schemas}

-----------------------------------------------------------------------------
Record(name, values) == [name |-> name, payload |-> values]
Noise(bytes) == [noise |-> bytes]

AReading == Record("reading", <<F(<<0>>), S(<<1, 0>>), F(<<0, 0>>)>>)
Fresh == Record("reading", <<F(<<0>>), Reference(5), F(<<0, 0>>)>>)
Marked == Record("reading", <<F(<<6>>), S(<<7>>), F(<<0, 0>>)>>)
AFrame == Record("frame", <<F(<<0, 0>>), F(<<0, 0, 0>>), B(<<5>>), F(<<0, 3>>)>>)
Still == Record("frame", <<F(<<0, 0>>), F(<<0, 0, 0>>), B(<<>>), F(<<0, 0>>)>>)
ABlob == Record("blob", <<F(<<0, 0>>), B(<<1>>)>>)
ANote == Record("note", <<S(<<>>)>>)

Several == {AReading, Fresh, Marked, AFrame, Still, ABlob}

Batches ==
    {<<a>> : a \in Several} \cup {<<a, b>> : a, b \in Several}
    \cup {<<AReading, Fresh, AReading>>, Copies(7, ANote), Copies(8, ANote), Copies(9, ANote)}

Streams ==
    {[via |-> "stream", records |-> r, batched |-> b, crc |-> c, omit |-> o, on |-> on] :
        r \in Batches, b, c, o, on \in BOOLEAN}

SomeStreams == {j \in Streams : j.batched \/ Len(j.records) = 1}

Piece == {AReading, Fresh, Marked, AFrame, Still,
          Noise(<<0>>), Noise(<<5, 6>>), Noise(<<1, 0, 7>>), Noise(<<2, 6>>)}

Recoveries ==
    {[via |-> "recovery", pieces |-> p, omit |-> o, on |-> on] :
        p \in {<<a>> : a \in Piece} \cup {<<a, b>> : a, b \in Piece}
              \cup {<<a, b, c>> : a, b, c \in Piece},
        o, on \in BOOLEAN}

SomeJobs(reg) ==
    Calls(reg) \cup IF {"reading", "note"} \subseteq DOMAIN reg.schemas
                    THEN SomeStreams \cup Recoveries ELSE {}
=============================================================================
