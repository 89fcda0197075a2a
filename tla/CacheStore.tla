----------------------------- MODULE CacheStore -----------------------------
(***************************************************************************)
(* The data operations of the two cache providers of libs-core, without    *)
(* their state: the in-process map of MemoryCacheProvider (level 1) and    *)
(* the key space of the Redis server behind RedisCacheProvider (level 2).  *)
(*                                                                         *)
(* A JavaScript Map iterates its keys in the order they were inserted, and *)
(* writing a key it already holds does not move it.  A level-1 store is    *)
(* therefore a record of its entries and of the relation "inserted         *)
(* before" between the keys it holds.                                      *)
(***************************************************************************)
EXTENDS Integers, FiniteSets

CONSTANTS
  Key,         \* cache keys
  Data,        \* serialized values
  Absent,      \* no entry, null
  MaxItems,    \* l1MaxItems
  DefaultTtl,  \* l1DefaultTtl, in seconds
  Second       \* clock ticks in a second

Never     == 0    \* expiresAt = null: the entry does not expire
NoTtl     == -1   \* ttlSeconds = undefined
Entry     == [data : Data, exp : Nat]
MaybeEntry == Entry \cup {Absent}

ASSUME KeyAssumption    == IsFiniteSet(Key)
ASSUME DataAssumption   == Absent \notin Data
ASSUME EntryAssumption  == Absent \notin Entry
ASSUME ItemsAssumption  == MaxItems \in Nat
ASSUME TtlAssumption    == DefaultTtl \in Nat
ASSUME SecondAssumption == Second \in Nat \ {0}

\* Both providers keep an entry through the last tick of its life: the guard of
\* the code is expiresAt && now > expiresAt.
Expired(e, t) == e.exp # Never /\ t > e.exp

Deadline(ttl, t) == IF ttl > 0 THEN t + ttl * Second ELSE Never

-----------------------------------------------------------------------------
(* Level 1: MemoryCacheProvider                                            *)

Store == [entry : [Key -> MaybeEntry], older : SUBSET (Key \X Key)]

EmptyStore == [entry |-> [k \in Key |-> Absent], older |-> {}]

Held(m) == {k \in Key : m.entry[k] # Absent}

Size(m) == Cardinality(Held(m))

Fresh(m, k, t) == m.entry[k] # Absent /\ ~Expired(m.entry[k], t)

Delete(m, ks) ==
  [entry |-> [k \in Key |-> IF k \in ks THEN Absent ELSE m.entry[k]],
   older |-> {p \in m.older : p[1] \notin ks /\ p[2] \notin ks}]

\* Mutant: a key written again is inserted again.
PutTwice(m, k, e) ==
  [entry |-> [m.entry EXCEPT ![k] = e], older |-> m.older \cup (Held(m) \X {k})]

Put(m, k, e) ==
  [entry |-> [m.entry EXCEPT ![k] = e],
   older |-> IF k \in Held(m) THEN m.older ELSE m.older \cup (Held(m) \X {k})]

\* The relation "inserted before" is a strict total order of the keys held.
InsertionOrder(m) ==
  /\ m.older \subseteq Held(m) \X Held(m)
  /\ \A k \in Held(m) : <<k, k>> \notin m.older
  /\ \A j, k \in Held(m) : j # k => <<j, k>> \in m.older \/ <<k, j>> \in m.older
  /\ \A i, j, k \in Held(m) :
       <<i, j>> \in m.older /\ <<j, k>> \in m.older => <<i, k>> \in m.older

\* A lookup deletes the entry it finds expired.
Lookup(m, k, t) == IF Fresh(m, k, t) THEN m ELSE Delete(m, {k})

Sweep(m, t) == Delete(m, {k \in Held(m) : Expired(m.entry[k], t)})

Oldest(m) == {k \in Held(m) : \A j \in Held(m) : <<j, k>> \notin m.older}

\* Mutant: makes no difference between live and expired entries.
EvictUnswept(m, t) == Delete(m, Oldest(m))

Evict(m, t) ==
  LET s == Sweep(m, t)
  IN  IF Size(s) >= MaxItems THEN Delete(s, Oldest(s)) ELSE s

\* Mutant: lets the store grow one entry over the limit.
MakeRoomLate(m, t) == IF Size(m) > MaxItems THEN Evict(m, t) ELSE m

MakeRoom(m, t) == IF Size(m) >= MaxItems THEN Evict(m, t) ELSE m

\* ttlSeconds falls back to the default, and a ttl of 0 makes the entry immortal.
MemorySet(m, k, d, ttl, t) ==
  Put(MakeRoom(m, t), k,
      [data |-> d, exp |-> Deadline(IF ttl = NoTtl THEN DefaultTtl ELSE ttl, t)])

-----------------------------------------------------------------------------
(* Level 2: the Redis server, as RedisCacheProvider uses it                *)

EmptyRedis == [k \in Key |-> Absent]

RedisGet(r, k, t) ==
  IF r[k] = Absent \/ (r[k] # Absent /\ Expired(r[k], t)) THEN Absent ELSE r[k].data

\* Without a positive ttl the command carries no EX, which also clears the
\* expiry the key had.
RedisSet(r, k, d, ttl, t) ==
  [r EXCEPT ![k] = [data |-> d, exp |-> Deadline(ttl, t)]]

RedisDel(r, ks) == [k \in Key |-> IF k \in ks THEN Absent ELSE r[k]]
=============================================================================
