--------------------------- MODULE MCProfiledLink ---------------------------
(* A small instance of ProfiledLink: thresholds of a half. *)
EXTENDS ProfiledLink, MCStreamLink

Toggled(c) == [c EXCEPT !.delta = ~@]
AdaptiveConfigs == {Eager, Late, Toggled(Eager), Toggled(Late)}
Chosen == {Eager, Late}

\* A profile in delta mode, one in plain mode that is not adaptive.
SomeProfiles == {[stream |-> Late, dictionary |-> TRUE, adaptive |-> TRUE],
                 [stream |-> Toggled(Eager), dictionary |-> FALSE, adaptive |-> FALSE]}

Off == [enabled |-> FALSE, window |-> 2]
Short == [enabled |-> TRUE, window |-> 1]
Long == [enabled |-> TRUE, window |-> 2]
SomeProfilers == {Off, Short, Long}

Half == <<1, 2>>
Third == <<1, 3>>
=============================================================================
