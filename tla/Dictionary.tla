----------------------------- MODULE Dictionary -----------------------------
(***************************************************************************)
(* Swift dictionaries as functions whose domain is the set of keys.        *)
(* DataManager keeps one dictionary of images per category and one of      *)
(* codi sets; the Storage folders and the image caches have the same form. *)
(***************************************************************************)
EXTENDS Naturals, FiniteSets

\* The empty dictionary, [:].
EmptyDict == [k \in {} |-> k]

\* The dictionary after updateValue(v, forKey: k).
Updated(f, k, v) == [x \in DOMAIN f \cup {k} |-> IF x = k THEN v ELSE f[x]]

\* The dictionary after every entry of g has been stored into f.
Overlaid(f, g) ==
  [x \in DOMAIN f \cup DOMAIN g |-> IF x \in DOMAIN g THEN g[x] ELSE f[x]]

\* The part of f whose keys are in S.
Kept(f, S) == [x \in DOMAIN f \cap S |-> f[x]]

\* The value of .count.
Count(f) == Cardinality(DOMAIN f)

\* f maps some keys of K to values of V.
IsDict(f, K, V) == DOMAIN f \subseteq K /\ f \in [DOMAIN f -> V]

=============================================================================
