------------------------- MODULE DictionaryTheorems -------------------------
(***************************************************************************)
(* What the operators on dictionaries and caches return.                   *)
(***************************************************************************)
EXTENDS ImageCache, TLAPS

\* A dictionary after updateValue: one more key, every other entry as before.
LEMMA UpdatedDict ==
  ASSUME NEW K, NEW V, NEW f, IsDict(f, K, V), NEW k \in K, NEW v \in V
  PROVE  /\ IsDict(Updated(f, k, v), K, V)
         /\ DOMAIN Updated(f, k, v) = DOMAIN f \cup {k}
         /\ Updated(f, k, v)[k] = v
         /\ \A x \in DOMAIN f : x # k => Updated(f, k, v)[x] = f[x]
BY DEF IsDict, Updated

\* A dictionary after a second one has been stored into it.
LEMMA OverlaidDict ==
  ASSUME NEW K, NEW V, NEW f, IsDict(f, K, V), NEW g, IsDict(g, K, V)
  PROVE  /\ IsDict(Overlaid(f, g), K, V)
         /\ DOMAIN Overlaid(f, g) = DOMAIN f \cup DOMAIN g
         /\ \A x \in DOMAIN g : Overlaid(f, g)[x] = g[x]
         /\ \A x \in DOMAIN f \ DOMAIN g : Overlaid(f, g)[x] = f[x]
BY DEF IsDict, Overlaid

\* A dictionary of which only some keys are kept.
LEMMA KeptDict ==
  ASSUME NEW K, NEW V, NEW f, IsDict(f, K, V), NEW S
  PROVE  /\ IsDict(Kept(f, S), K, V)
         /\ DOMAIN Kept(f, S) = DOMAIN f \cap S
         /\ \A x \in DOMAIN f \cap S : Kept(f, S)[x] = f[x]
BY DEF IsDict, Kept

\* The empty dictionary.
LEMMA EmptyIsDict ==
  ASSUME NEW K, NEW V
  PROVE  IsDict(EmptyDict, K, V) /\ DOMAIN EmptyDict = {}
BY DEF IsDict, EmptyDict

\* setValue leaves a cache behind.
LEMMA CachePutDict ==
  ASSUME NEW K, NEW V, NEW c, IsDict(c, K, V), NEW k \in K, NEW v \in V,
         NEW capacity, NEW cache \in CachePuts(c, k, v, capacity)
  PROVE  IsDict(cache, K, V)
<1>1. CASE cache = Updated(c, k, v)
  BY <1>1 DEF Updated, IsDict
<1>2. ASSUME NEW victim \in DOMAIN c, cache = Updated(Kept(c, DOMAIN c \ {victim}), k, v)
      PROVE  IsDict(cache, K, V)
  BY <1>2 DEF Updated, Kept, IsDict
<1> QED  BY <1>1, <1>2 DEF CachePuts

\* setValue stores its entry, and what else the cache holds it held before.
LEMMA CachePutEntries ==
  ASSUME NEW K, NEW V, NEW c, IsDict(c, K, V), NEW k \in K, NEW v \in V,
         NEW capacity, NEW cache \in CachePuts(c, k, v, capacity), NEW x \in DOMAIN cache
  PROVE  IF x = k THEN cache[x] = v ELSE x \in DOMAIN c /\ cache[x] = c[x]
<1>1. CASE cache = Updated(c, k, v)
  BY <1>1 DEF Updated, IsDict
<1>2. ASSUME NEW victim \in DOMAIN c, cache = Updated(Kept(c, DOMAIN c \ {victim}), k, v)
      PROVE  IF x = k THEN cache[x] = v ELSE x \in DOMAIN c /\ cache[x] = c[x]
  BY <1>2 DEF Updated, Kept, IsDict
<1> QED  BY <1>1, <1>2 DEF CachePuts

=============================================================================
