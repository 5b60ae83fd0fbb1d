---------------------------- MODULE MCStreamLink ----------------------------
(* Small instances of StreamLink: the configurations its runs install. *)
EXTENDS StreamLinkInv

CONSTANTS id, reading, on, off, s1, s2

\* Delta mode: every flag that the runs do not vary is at its default.
DeltaConfig(reuse, keyframe, after) ==
    [enabled |-> TRUE, reuse |-> reuse, updates |-> TRUE, batching |-> FALSE,
     delta |-> TRUE, keyframe |-> keyframe, aggressiveAfter |-> after,
     maxBatch |-> 2, lowChange |-> 1]

PlainConfig(enabled, batching, maxBatch) ==
    [enabled |-> enabled, reuse |-> TRUE, updates |-> TRUE,
     batching |-> batching, delta |-> FALSE, keyframe |-> 2,
     aggressiveAfter |-> 1, maxBatch |-> maxBatch, lowChange |-> 1]

Eager == DeltaConfig(TRUE, 3, 0)
Late  == DeltaConfig(FALSE, 2, 1)
NoReuse == DeltaConfig(FALSE, 3, 0)
Batching == PlainConfig(TRUE, TRUE, 2)
Disabled == PlainConfig(FALSE, FALSE, 2)

DeltaConfigs == {Eager, Late}
OnlyNoReuse == {NoReuse}
PlainConfigs == {Batching, PlainConfig(TRUE, TRUE, 3), Disabled}
=============================================================================
