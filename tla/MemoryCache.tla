---------------------------- MODULE MemoryCache ----------------------------
(***************************************************************************)
(* MemoryCacheProvider, the level-1 cache of libs-core, as its callers see *)
(* it: every method runs to its end without awaiting anything, so each is  *)
(* one step.  written is auxiliary: the code does not keep it.             *)
(***************************************************************************)
EXTENDS CacheStore

CONSTANTS
  Ttls,        \* the ttlSeconds callers pass
  Namespaces,  \* sets of keys one flushNamespace pattern matches
  MaxClock     \* bound: the last tick of a run

ASSUME TtlsAssumption == Ttls \subseteq Nat \cup {NoTtl}
ASSUME NamespacesAssumption == Namespaces \subseteq SUBSET Key
ASSUME ClockAssumption == MaxClock \in Nat

VARIABLES
  clock,    \* Date.now()
  store,    \* the provider's Map
  answer,   \* what the last get returned
  written   \* for each key the entry the callers last wrote, if not removed

vars == <<clock, store, answer, written>>

Init ==
  /\ clock = 1
  /\ store = EmptyStore
  /\ answer = Absent
  /\ written = [k \in Key |-> Absent]

\* Mutant: an expired entry still answers.
GetIgnoringTime(k) ==
  /\ answer' = IF k \in Held(store) THEN store.entry[k].data ELSE Absent
  /\ UNCHANGED <<clock, store, written>>

Get(k) ==
  /\ answer' = IF Fresh(store, k, clock) THEN store.entry[k].data ELSE Absent
  /\ store' = Lookup(store, k, clock)
  /\ UNCHANGED <<clock, written>>

Has(k) ==
  /\ store' = Lookup(store, k, clock)
  /\ UNCHANGED <<clock, answer, written>>

\* Mutant: a key that has an entry keeps it.
SetIfAbsent(k, d, ttl) ==
  /\ store' = IF k \in Held(store) THEN store ELSE MemorySet(store, k, d, ttl, clock)
  /\ written' = [written EXCEPT ![k] =
       [data |-> d, exp |-> Deadline(IF ttl = NoTtl THEN DefaultTtl ELSE ttl, clock)]]
  /\ UNCHANGED <<clock, answer>>

Set(k, d, ttl) ==
  /\ store' = MemorySet(store, k, d, ttl, clock)
  /\ written' = [written EXCEPT ![k] =
       [data |-> d, exp |-> Deadline(IF ttl = NoTtl THEN DefaultTtl ELSE ttl, clock)]]
  /\ UNCHANGED <<clock, answer>>

\* A value JSON.stringify refuses: room has been made, nothing is stored.
SetUnserializable(k) ==
  /\ store' = MakeRoom(store, clock)
  /\ UNCHANGED <<clock, answer, written>>

Forget(ks) == written' = [k \in Key |-> IF k \in ks THEN Absent ELSE written[k]]

Del(ks) ==
  /\ store' = Delete(store, ks)
  /\ Forget(ks)
  /\ UNCHANGED <<clock, answer>>

FlushNamespace(ns) ==
  /\ store' = Delete(store, ns)
  /\ Forget(ns)
  /\ UNCHANGED <<clock, answer>>

FlushAll ==
  /\ store' = EmptyStore
  /\ Forget(Key)
  /\ UNCHANGED <<clock, answer>>

Tick ==
  /\ clock < MaxClock
  /\ clock' = clock + 1
  /\ UNCHANGED <<store, answer, written>>

Next ==
  \/ \E k \in Key : Get(k) \/ Has(k) \/ SetUnserializable(k)
  \/ \E k \in Key, d \in Data, ttl \in Ttls : Set(k, d, ttl)
  \/ \E ks \in SUBSET Key : Del(ks)
  \/ \E ns \in Namespaces : FlushNamespace(ns)
  \/ FlushAll
  \/ Tick

Spec == Init /\ [][Next]_vars

-----------------------------------------------------------------------------
\* Types, and the iteration order of the Map.
TypeOK ==
  /\ clock \in Nat
  /\ store \in Store
  /\ InsertionOrder(store)
  /\ answer \in Data \cup {Absent}
  /\ written \in [Key -> MaybeEntry]

\* The memory of the cache is bounded: set evicts before it inserts, so the Map
\* never holds more than maxItems entries, whatever mix of expired, immortal and
\* overwritten entries it is in (memory-cache.provider.ts, set and evict).
CapacityBound == Size(store) <= IF MaxItems = 0 THEN 1 ELSE MaxItems

\* Whatever is held is what the callers last wrote under that key: eviction,
\* expiry, flushes and failed writes never bring back an older value.
HoldsLastWrite ==
  \A k \in Held(store) : written[k] # Absent /\ store.entry[k] = written[k]

\* A step costs the callers a live entry they did not remove only when the store
\* is full of live entries, and then one entry: expired entries go first.
LostTo(m, n) == {k \in Key : Fresh(m, k, clock) /\ n.entry[k] = Absent /\ written'[k] # Absent}

EvictionIsLastResort ==
  [][LostTo(store, store') # {} =>
       /\ \E k \in Key : LostTo(store, store') = {k}
       /\ Cardinality({k \in Key : Fresh(store, k, clock)}) >= MaxItems]_vars

\* The provider is a map that may forget but never lies.
Promise == INSTANCE LossyMap

ImplementsLossyMap == Promise!Spec
=============================================================================
