---------------------------- MODULE MCDictStream ----------------------------
(* Small instances of DictStream: two runtimes joined both ways. *)
EXTENDS DictStream

CONSTANTS a, b, s1, s2, x, y, z

Across(p) == IF p = a THEN b ELSE a
On(m) == [enabled |-> TRUE, max |-> m]
Two(p) == On(2)
Off == [enabled |-> FALSE, max |-> 2]
SomeSettings == {On(1), Off}
NoSettings == {}

\* Both runtimes start alike and do the same, and a string is only compared.
Alike == {f @@ g : f \in Permutations({a, b}), g \in Permutations({x, y})}
=============================================================================
