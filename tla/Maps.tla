-------------------------------- MODULE Maps --------------------------------
(***************************************************************************)
(* Go maps as functions with a finite domain: insertion, deletion and the  *)
(* set of values.                                                          *)
(***************************************************************************)
EXTENDS FiniteSets, Functions

\* make(map[K]V)
EmptyMap == [k \in {} |-> {}]

\* m[k] = v
Put(m, k, v) == [x \in DOMAIN m \cup {k} |-> IF x = k THEN v ELSE m[x]]

\* delete(m, k), which does nothing when k is not a key
Drop(m, k) == [x \in DOMAIN m \ {k} |-> m[x]]

\* The entries of m whose key is in S
Only(m, S) == [x \in DOMAIN m \cap S |-> m[x]]

Values(m) == {m[x] : x \in DOMAIN m}

\* The orders in which a loop over a map may meet the keys S: the sequences that
\* list each key once
Orders(S) == UNION {Bijection(1 .. n, S) : n \in 0 .. Cardinality(S)}

\* m is a map from some of the keys K to V
IsMap(m, K, V) == DOMAIN m \subseteq K /\ m \in [DOMAIN m -> V]
=============================================================================
