-------------------------------- MODULE Maps --------------------------------
(***************************************************************************)
(* Go maps as partial functions: a function whose domain is the set of     *)
(* keys present.                                                           *)
(***************************************************************************)

\* An empty map.
NoEntries == [k \in {} |-> TRUE]

\* delete, for every key of a set.
Without(f, keys) == [k \in DOMAIN f \ keys |-> f[k]]

\* Assignment to a key, present or not.
With(f, key, value) ==
    [k \in DOMAIN f \cup {key} |-> IF k = key THEN value ELSE f[k]]
=============================================================================
