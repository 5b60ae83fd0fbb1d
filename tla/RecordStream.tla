---------------------------- MODULE RecordStream ----------------------------
(***************************************************************************)
(* What a stream promises its two applications, whatever the packets look  *)
(* like: records come out in the order they went in, at most once each,    *)
(* and exactly as they were.  Some may be missing: the README promises     *)
(* that loss is detected, not that it is repaired.                         *)
(***************************************************************************)
EXTENDS Integers, Sequences

CONSTANTS Record

VARIABLES
    sent,  \* the records handed to send_stream
    got    \* what receive_stream returned: the records, each with its number

Init == sent = <<>> /\ got = <<>>

Send ==
    /\ \E r \in Record : sent' = Append(sent, r)
    /\ UNCHANGED got

\* One call may return several records (a batch).
Faithful(g, from) ==
    /\ \A i \in DOMAIN g : g[i].n \in DOMAIN sent /\ sent[g[i].n] = g[i].record
    /\ \A i \in from .. Len(g) : i > 1 => g[i - 1].n < g[i].n

Deliver ==
    /\ Len(got') > Len(got)
    /\ SubSeq(got', 1, Len(got)) = got
    /\ Faithful(got', Len(got) + 1)
    /\ UNCHANGED sent

Next == Send \/ Deliver

Spec == Init /\ [][Next]_<<sent, got>>
=============================================================================
