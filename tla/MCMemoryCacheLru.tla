-------------------------- MODULE MCMemoryCacheLru --------------------------
(***************************************************************************)
(* MemoryCache beside a record of which key was used when, to compare what *)
(* a write evicts with what README.md and the release notes say of it.     *)
(***************************************************************************)
EXTENDS MemoryCache, Sequences

CONSTANTS k1, k2, k3, d1

MCKey == {k1, k2, k3}
MCData == {d1}
MCTtls == {0}
MCNamespaces == {{k1}}

VARIABLE recency  \* the keys used so far, least recently used first

Use(k) == recency' = Append(SelectSeq(recency, LAMBDA j : j # k), k)

LruInit == Init /\ recency = <<>>

LruNext ==
  \/ \E k \in Key : Get(k) /\ Use(k)
  \/ \E k \in Key, d \in Data, ttl \in Ttls : Set(k, d, ttl) /\ Use(k)
  \/ \E k \in Key : Has(k) /\ UNCHANGED recency
  \/ Tick /\ UNCHANGED recency

LruSpec == LruInit /\ [][LruNext]_<<vars, recency>>

Position(k) == CHOOSE n \in DOMAIN recency : recency[n] = k

\* The level-1 cache is called LRU (README.md, release_notes.md): the live entry
\* that a write evicts is the one used least recently.
EvictsLeastRecentlyUsed ==
  [][\A k \in LostTo(store, store') : \A j \in Key \ {k} :
       Fresh(store, j, clock) => Position(k) < Position(j)]_<<vars, recency>>
=============================================================================
