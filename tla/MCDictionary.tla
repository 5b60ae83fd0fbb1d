---------------------------- MODULE MCDictionary ----------------------------
(* A small instance of AdaptiveDictionary. *)
EXTENDS AdaptiveDictionary

CONSTANTS a, b, c, d

\* Nothing tells the strings apart.
Renamings == Permutations(Strings)
=============================================================================
