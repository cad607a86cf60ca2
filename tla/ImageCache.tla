----------------------------- MODULE ImageCache -----------------------------
(***************************************************************************)
(* SwiftyLRUCache, the bounded cache behind APIManager.itemImageCache and  *)
(* APIManager.codiImagesCache.  Its source is a framework outside the      *)
(* repository, so only what its callers rely on is stated: getValue finds  *)
(* what setValue stored and has not been evicted, and setValue makes room  *)
(* by evicting an entry when the capacity is reached.  Which entry goes is *)
(* left open: least recently used is one of the choices, so what holds     *)
(* here holds for the framework's order of eviction.                       *)
(***************************************************************************)
EXTENDS Dictionary

\* The caches setValue(value: v, forKey: k) may leave behind.
CachePuts(c, k, v, capacity) ==
  IF k \in DOMAIN c \/ Count(c) < capacity
    THEN { Updated(c, k, v) }
    ELSE { Updated(Kept(c, DOMAIN c \ {victim}), k, v) : victim \in DOMAIN c }

=============================================================================
