---------------------------- MODULE StoreProofs ----------------------------
(***************************************************************************)
(* Theorems of the components that keep data.  The level-1 cache is a map  *)
(* that may forget but never lies, and evicts only as a last resort.  The  *)
(* SQL repository keeps tenants apart as far as its callers do, and brings *)
(* no row back unasked.  The Mongo repository implements TenantStore, and  *)
(* the pages it reads and the metadata clients get of them agree.          *)
(* For every set of keys, values, tenants, ids and requests, every         *)
(* capacity, where clause and page, and every length of run.               *)
(***************************************************************************)
EXTENDS MemoryCache, CacheStoreProofs, SqlRepository, MongoRepository

-----------------------------------------------------------------------------
(* The level-1 cache. *)

\* Inductive: what is held can be compared with what was written only in a store
\* that is well-typed, and eviction makes room only in a store that has an oldest key.
IInv == TypeOK /\ CapacityBound /\ HoldsLastWrite

\* The kinds of change the Map undergoes.
Shrinks(m, n) ==
  /\ Good(n)
  /\ Held(n) \subseteq Held(m)
  /\ \A k \in Held(n) : n.entry[k] = m.entry[k]

LEMMA DeleteIsShrink ==
  ASSUME NEW m, Good(m), NEW ks
  PROVE  Shrinks(m, Delete(m, ks))
  BY DeleteGood, DeleteHeld DEF Shrinks, Good, Held

LEMMA LookupIsShrink ==
  ASSUME NEW m, Good(m), NEW k, NEW t
  PROVE  Shrinks(m, Lookup(m, k, t))
  BY DeleteIsShrink DEF Lookup, Shrinks

LEMMA ShrinkSize ==
  ASSUME NEW m, NEW n, Shrinks(m, n)
  PROVE  Size(n) <= Size(m)
  BY HeldFinite, FS_Subset DEF Shrinks, Size

LEMMA ExpiryNat ==
  ASSUME NEW ttl \in Nat \cup {NoTtl}, NEW t \in Nat
  PROVE  Deadline(IF ttl = NoTtl THEN DefaultTtl ELSE ttl, t) \in Nat
  BY DeadlineNat, TtlAssumption

-----------------------------------------------------------------------------
LEMMA InitInv == Init => IInv
<1> SUFFICES ASSUME Init PROVE IInv
  OBVIOUS
<1>1. Size(store) = 0
  BY EmptyStoreGood, FS_EmptySet DEF Init, Size
<1>2. TypeOK
  BY EmptyStoreGood DEF Init, TypeOK, Good, MaybeEntry
<1>3. CapacityBound
  BY <1>1, ItemsAssumption DEF CapacityBound
<1>4. HoldsLastWrite
  BY EmptyStoreGood DEF Init, HoldsLastWrite
<1> QED
  BY <1>2, <1>3, <1>4 DEF IInv

\* A step that only deletes entries, and forgets them together with the callers,
\* preserves everything.
LEMMA ShrinkInv ==
  ASSUME IInv, clock' \in Nat, answer' \in Data \cup {Absent},
         written' \in [Key -> MaybeEntry],
         Shrinks(store, store'),
         \A k \in Held(store') : written'[k] = written[k]
  PROVE  IInv'
<1>1. TypeOK'
  BY DEF TypeOK, Shrinks, Good
<1>2. CapacityBound'
  <2>1. Size(store') <= Size(store)
    BY ShrinkSize
  <2> QED
    BY <2>1, SizeNat, ItemsAssumption DEF IInv, CapacityBound
<1>3. HoldsLastWrite'
  BY DEF IInv, HoldsLastWrite, Shrinks
<1> QED
  BY <1>1, <1>2, <1>3 DEF IInv

LEMMA ForgetInv ==
  ASSUME IInv, NEW ks, store' = Delete(store, ks), Forget(ks), UNCHANGED <<clock, answer>>
  PROVE  IInv'
<1>1. Good(store)
  BY DEF IInv, TypeOK, Good
<1>2. Shrinks(store, store')
  BY <1>1, DeleteIsShrink
<1>3. Held(store') = Held(store) \ ks
  BY <1>1, DeleteHeld DEF Good
<1>4. written' \in [Key -> MaybeEntry]
  BY DEF IInv, TypeOK, Forget, MaybeEntry
<1>5. \A k \in Held(store') : written'[k] = written[k]
  BY <1>3 DEF Forget, Held
<1> QED
  BY <1>2, <1>4, <1>5, ShrinkInv DEF IInv, TypeOK

LEMMA SetInv ==
  ASSUME IInv, NEW k \in Key, NEW d \in Data, NEW ttl \in Ttls, Set(k, d, ttl)
  PROVE  IInv'
<1> DEFINE e == [data |-> d, exp |-> Deadline(IF ttl = NoTtl THEN DefaultTtl ELSE ttl, clock)]
           r == MakeRoom(store, clock)
<1>1. Good(store) /\ clock \in Nat
  BY DEF IInv, TypeOK, Good
<1>2. e \in Entry
  BY <1>1, ExpiryNat, TtlsAssumption DEF Entry
<1>3. store' = Put(r, k, e) /\ written' = [written EXCEPT ![k] = e]
  BY DEF Set, MemorySet
<1>4. Good(r) /\ Held(r) \subseteq Held(store) /\ \A j \in Held(r) : r.entry[j] = store.entry[j]
  BY <1>1, MakeRoomDeletes
<1>5. r \in Store
  BY <1>4 DEF Good
<1> HIDE DEF e, r
<1>6. TypeOK'
  <2>1. Good(store')
    BY <1>2, <1>3, <1>4, PutGood
  <2>2. written' \in [Key -> MaybeEntry]
    BY <1>2, <1>3 DEF IInv, TypeOK, MaybeEntry
  <2> QED
    BY <2>1, <2>2 DEF IInv, TypeOK, Good, Set
<1>7. CapacityBound'
  <2>1. Size(r) \in Nat /\ MaxItems \in Nat /\ Size(store') \in Nat
    BY SizeNat, ItemsAssumption
  <2>2. Size(store') <= Size(r) + 1
    BY <1>2, <1>3, <1>5, PutSize
  <2>3. (MaxItems > 0 => Size(r) <= MaxItems - 1) /\ (MaxItems = 0 => Size(r) <= 0)
    BY <1>1, MakeRoomSize DEF IInv, CapacityBound, r
  <2> QED
    BY <2>1, <2>2, <2>3 DEF CapacityBound
<1>8. HoldsLastWrite'
  <2>1. Held(store') = Held(r) \cup {k} /\ store'.entry[k] = e
        /\ \A j \in Key \ {k} : store'.entry[j] = r.entry[j]
    BY <1>2, <1>3, <1>5, PutHeld
  <2>2. written'[k] = e /\ e # Absent
    BY <1>2, <1>3, AbsentNotEntry DEF IInv, TypeOK
  <2>3. \A j \in Key \ {k} : written'[j] = written[j]
    BY <1>3 DEF IInv, TypeOK
  <2>4. Held(r) \subseteq Key
    BY DEF Held
  <2>5. \A j \in Held(r) : written[j] # Absent /\ r.entry[j] = written[j]
    BY <1>4 DEF IInv, HoldsLastWrite
  <2> QED
    BY <2>1, <2>2, <2>3, <2>4, <2>5 DEF HoldsLastWrite
<1> QED
  BY <1>6, <1>7, <1>8 DEF IInv

\* One step per action.
LEMMA NextInv == IInv /\ [Next]_vars => IInv'
<1> SUFFICES ASSUME IInv, [Next]_vars PROVE IInv'
  OBVIOUS
<1>1. Good(store) /\ clock \in Nat /\ store \in Store
  BY DEF IInv, TypeOK, Good
<1>2. ASSUME NEW k \in Key, Get(k) PROVE IInv'
  <2>1. Shrinks(store, store')
    BY <1>1, <1>2, LookupIsShrink DEF Get
  <2>2. answer' \in Data \cup {Absent}
    BY <1>1, <1>2 DEF Get, Fresh, Store, MaybeEntry, Entry
  <2> QED
    BY <1>2, <2>1, <2>2, ShrinkInv DEF Get, IInv, TypeOK
<1>3. ASSUME NEW k \in Key, Has(k) PROVE IInv'
  <2>1. Shrinks(store, store')
    BY <1>1, <1>3, LookupIsShrink DEF Has
  <2> QED
    BY <1>3, <2>1, ShrinkInv DEF Has, IInv, TypeOK
<1>4. ASSUME NEW k \in Key, SetUnserializable(k) PROVE IInv'
  <2>1. Shrinks(store, store')
    BY <1>1, <1>4, MakeRoomDeletes DEF SetUnserializable, Shrinks
  <2> QED
    BY <1>4, <2>1, ShrinkInv DEF SetUnserializable, IInv, TypeOK
<1>5. ASSUME NEW k \in Key, NEW d \in Data, NEW ttl \in Ttls, Set(k, d, ttl) PROVE IInv'
  BY <1>5, SetInv
<1>6. ASSUME NEW ks \in SUBSET Key, Del(ks) PROVE IInv'
  BY <1>6, ForgetInv DEF Del
<1>7. ASSUME NEW ns \in Namespaces, FlushNamespace(ns) PROVE IInv'
  BY <1>7, ForgetInv DEF FlushNamespace
<1>8. CASE FlushAll
  <2>1. Shrinks(store, store') /\ Held(store') = {}
    BY <1>8, EmptyStoreGood DEF FlushAll, Shrinks
  <2>2. written' \in [Key -> MaybeEntry]
    BY <1>8 DEF FlushAll, Forget, MaybeEntry
  <2> QED
    BY <1>8, <2>1, <2>2, ShrinkInv DEF FlushAll, IInv, TypeOK
<1>9. CASE Tick
  BY <1>9 DEF Tick, IInv, TypeOK, CapacityBound, HoldsLastWrite
<1>10. CASE UNCHANGED vars
  BY <1>10 DEF vars, IInv, TypeOK, CapacityBound, HoldsLastWrite
<1> QED
  BY <1>2, <1>3, <1>4, <1>5, <1>6, <1>7, <1>8, <1>9, <1>10 DEF Next

-----------------------------------------------------------------------------
THEOREM Invariance == Spec => []IInv
  BY InitInv, NextInv, PTL DEF Spec

\* The Map keeps its types and one order of insertion (memory-cache.provider.ts).
THEOREM TypeCorrect == Spec => []TypeOK
<1>1. IInv => TypeOK
  BY DEF IInv
<1> QED
  BY <1>1, Invariance, PTL

\* The Map never outgrows l1MaxItems (memory-cache.provider.ts, set and evict).
THEOREM Bounded == Spec => []CapacityBound
<1>1. IInv => CapacityBound
  BY DEF IInv
<1> QED
  BY <1>1, Invariance, PTL

\* Whatever is held is what was last written (memory-cache.provider.ts, set).
THEOREM Faithful == Spec => []HoldsLastWrite
<1>1. IInv => HoldsLastWrite
  BY DEF IInv
<1> QED
  BY <1>1, Invariance, PTL

-----------------------------------------------------------------------------
LEMMA InitMaps == Init => Promise!Init
  BY DEF Init, Promise!Init

LEMMA StepMaps == IInv /\ [Next]_vars => [Promise!Next]_(Promise!mapVars)
<1> SUFFICES ASSUME IInv, [Next]_vars PROVE [Promise!Next]_(Promise!mapVars)
  OBVIOUS
<1> USE DEF Promise!mapVars
<1>1. ASSUME NEW k \in Key, Get(k) PROVE Promise!Read(k)
  <2>1. CASE Fresh(store, k, clock)
    <3>1. written[k] = store.entry[k] /\ written[k] # Absent
      BY <2>1 DEF IInv, HoldsLastWrite, Fresh, Held
    <3> QED
      BY <1>1, <2>1, <3>1 DEF Get, Fresh, Expired, Never, Promise!Read, Promise!Over
  <2>2. CASE ~Fresh(store, k, clock)
    BY <1>1, <2>2 DEF Get, Promise!Read
  <2> QED
    BY <2>1, <2>2
<1>2. ASSUME NEW k \in Key, NEW d \in Data, NEW ttl \in Ttls, Set(k, d, ttl)
      PROVE  Promise!Write(k)
  BY <1>2 DEF Set, Promise!Write, IInv, TypeOK
<1>3. ASSUME NEW ks \in SUBSET Key, Forget(ks), UNCHANGED <<clock, answer>>
      PROVE  Promise!Remove(ks)
  BY <1>3 DEF Forget, Promise!Remove
<1>4. ASSUME Tick PROVE Promise!Tick
  BY <1>4 DEF Tick, Promise!Tick, IInv, TypeOK
<1>5. ASSUME NEW k \in Key, Has(k) \/ SetUnserializable(k) PROVE UNCHANGED Promise!mapVars
  BY <1>5 DEF Has, SetUnserializable
<1>6. CASE UNCHANGED vars
  BY <1>6 DEF vars
<1>7. ASSUME NEW ks \in SUBSET Key, Del(ks) PROVE Promise!Remove(ks)
  BY <1>3, <1>7 DEF Del
<1>8. ASSUME NEW ns \in Namespaces, FlushNamespace(ns)
      PROVE  ns \in SUBSET Key /\ Promise!Remove(ns)
  BY <1>3, <1>8, NamespacesAssumption DEF FlushNamespace
<1>9. CASE FlushAll
  <2>1. Promise!Remove(Key)
    BY <1>3, <1>9 DEF FlushAll
  <2> QED
    BY <2>1 DEF Promise!Next
<1> QED
  BY <1>1, <1>2, <1>4, <1>5, <1>6, <1>7, <1>8, <1>9 DEF Next, Promise!Next

\* The level-1 cache implements the map its callers rely on: it may forget, but a read
\* answers with the value last written, while its time lasts, or with nothing.
THEOREM Implements == Spec => ImplementsLossyMap
<1>1. Spec => Promise!Spec
  BY InitMaps, StepMaps, Invariance, PTL DEF Spec, Promise!Spec
<1> QED
  BY <1>1 DEF ImplementsLossyMap

-----------------------------------------------------------------------------
\* In one order there is at most one oldest key.
LEMMA OldestUnique ==
  ASSUME NEW m, Good(m), NEW j \in Oldest(m), NEW k \in Oldest(m)
  PROVE  j = k
  BY DEF Good, InsertionOrder, Oldest

LEMMA SweepHeld ==
  ASSUME NEW m, Good(m), NEW t
  PROVE  Held(Sweep(m, t)) = {k \in Key : Fresh(m, k, t)}
<1>1. Held(Sweep(m, t)) = Held(m) \ {k \in Held(m) : Expired(m.entry[k], t)}
  BY DeleteHeld DEF Sweep, Good
<1> QED
  BY <1>1 DEF Held, Fresh

\* Making room loses a live entry only if all places are taken by live entries, and
\* then no more than the oldest.
LEMMA RoomIsLastResort ==
  ASSUME NEW m, Good(m), NEW t,
         NEW k \in Key, Fresh(m, k, t), MakeRoom(m, t).entry[k] = Absent
  PROVE  /\ Cardinality({j \in Key : Fresh(m, j, t)}) >= MaxItems
         /\ k \in Oldest(Sweep(m, t))
<1> DEFINE s == Sweep(m, t)
<1>1. Good(s) /\ Held(s) = {j \in Key : Fresh(m, j, t)}
  BY DeleteGood, SweepHeld DEF Sweep
<1>2. k \in Held(s) /\ s.entry[k] # Absent
  BY <1>1 DEF Held
<1>3. MakeRoom(m, t).entry[k] # m.entry[k]
  BY DEF Fresh
<1>4. MakeRoom(m, t) = Evict(m, t)
  BY <1>3 DEF MakeRoom
<1>5. Size(s) >= MaxItems /\ Evict(m, t) = Delete(s, Oldest(s))
  BY <1>2, <1>4 DEF Evict
<1>6. k \in Oldest(s)
  <2>1. Delete(s, Oldest(s)).entry[k] # s.entry[k]
    BY <1>2, <1>4, <1>5
  <2> QED
    BY <1>1, <2>1, DeleteHeld DEF Good
<1> QED
  BY <1>1, <1>5, <1>6 DEF Size

LEMMA StepIsLastResort ==
  ASSUME IInv, [Next]_vars
  PROVE  LostTo(store, store') # {} =>
           /\ \E k \in Key : LostTo(store, store') = {k}
           /\ Cardinality({k \in Key : Fresh(store, k, clock)}) >= MaxItems
<1>1. Good(store)
  BY DEF IInv, TypeOK, Good
<1> DEFINE r == MakeRoom(store, clock)
           Only == \A k \in LostTo(store, store') : r.entry[k] = Absent
<1>2. ASSUME Only, LostTo(store, store') # {}
      PROVE  /\ \E k \in Key : LostTo(store, store') = {k}
             /\ Cardinality({k \in Key : Fresh(store, k, clock)}) >= MaxItems
  <2>1. PICK k \in LostTo(store, store') : TRUE
    BY <1>2
  <2>2. \A j \in LostTo(store, store') : j \in Key /\ Fresh(store, j, clock)
    BY DEF LostTo
  <2>3. \A j \in LostTo(store, store') : j \in Oldest(Sweep(store, clock))
    BY <1>1, <1>2, <2>2, RoomIsLastResort
  <2>4. LostTo(store, store') = {k}
    <3>1. Good(Sweep(store, clock))
      BY <1>1, DeleteGood DEF Sweep
    <3>2. \A j \in LostTo(store, store') : j = k
      BY <2>1, <2>3, <3>1, OldestUnique
    <3> QED
      BY <2>1, <3>2
  <2> QED
    BY <1>1, <1>2, <2>1, <2>2, <2>4, RoomIsLastResort
<1>3. ASSUME NEW k \in Key, store' = Lookup(store, k, clock) PROVE LostTo(store, store') = {}
  <2>1. \A j \in Key : Fresh(store, j, clock) => store'.entry[j] = store.entry[j]
    BY <1>1, <1>3, DeleteHeld DEF Lookup, Good
  <2> QED
    BY <2>1 DEF LostTo, Fresh
<1>4. ASSUME NEW ks \in SUBSET Key, store' = Delete(store, ks), Forget(ks)
      PROVE  LostTo(store, store') = {}
  <2>1. \A j \in Key \ ks : store'.entry[j] = store.entry[j]
    BY <1>1, <1>4, DeleteHeld DEF Good
  <2>2. \A j \in ks : written'[j] = Absent
    BY <1>4 DEF Forget
  <2> QED
    BY <2>1, <2>2 DEF LostTo, Fresh
<1>5. ASSUME NEW k \in Key, Get(k) \/ Has(k) PROVE LostTo(store, store') = {}
  BY <1>3, <1>5 DEF Get, Has
<1>6. ASSUME NEW k \in Key, SetUnserializable(k) PROVE Only
  BY <1>6 DEF SetUnserializable, LostTo
<1>7. ASSUME NEW k \in Key, NEW d \in Data, NEW ttl \in Ttls, Set(k, d, ttl) PROVE Only
  <2> DEFINE e == [data |-> d,
                   exp |-> Deadline(IF ttl = NoTtl THEN DefaultTtl ELSE ttl, clock)]
  <2>1. store' = Put(r, k, e)
    BY <1>7 DEF Set, MemorySet
  <2>2. e \in Entry
    BY ExpiryNat, TtlsAssumption DEF Entry, IInv, TypeOK
  <2> HIDE DEF e
  <2>3. Good(r)
    BY <1>1, MakeRoomDeletes
  <2> HIDE DEF r
  <2>4. store'.entry[k] # Absent /\ \A j \in Key \ {k} : store'.entry[j] = r.entry[j]
    BY <2>1, <2>2, <2>3, PutHeld, AbsentNotEntry DEF Good
  <2> QED
    BY <2>4 DEF LostTo
<1>8. ASSUME NEW ks \in SUBSET Key, Del(ks) PROVE LostTo(store, store') = {}
  BY <1>4, <1>8 DEF Del
<1>9. ASSUME NEW ns \in Namespaces, FlushNamespace(ns) PROVE LostTo(store, store') = {}
  BY <1>4, <1>9, NamespacesAssumption DEF FlushNamespace
<1>10. ASSUME FlushAll PROVE LostTo(store, store') = {}
  BY <1>10 DEF FlushAll, Forget, LostTo
<1>11. ASSUME Tick \/ UNCHANGED vars PROVE LostTo(store, store') = {}
  BY <1>11 DEF Tick, vars, LostTo, Fresh
<1> HIDE DEF Only
<1> QED
  BY <1>2, <1>5, <1>6, <1>7, <1>8, <1>9, <1>10, <1>11 DEF Next

\* A write costs the callers a live entry only when live entries take up all the places,
\* and then one (memory-cache.provider.ts, evict).
THEOREM LastResort == Spec => EvictionIsLastResort
<1>1. IInv /\ [Next]_vars =>
        [LostTo(store, store') # {} =>
           /\ \E k \in Key : LostTo(store, store') = {k}
           /\ Cardinality({k \in Key : Fresh(store, k, clock)}) >= MaxItems]_vars
  BY StepIsLastResort
<1> QED
  BY <1>1, Invariance, PTL DEF Spec, EvictionIsLastResort

-----------------------------------------------------------------------------
(* The SQL repository. *)

Known == Id \X {"live", "deleted"}

Clauses == [id : Id \cup {None}, tenant : Tenant \cup {None}]

\* A row that was never used has no tenant, so that no request was handed it.
UnusedIsNobodys == \A i \in Id : rows[i].state = "unused" => rows[i].tenant = None

\* A write that is to follow its count is for an id that has been handed to the
\* tenant of the request, or has strayed already.
ChecksAccountedFor ==
  \A c \in Caller :
    check[c] # NoCheck =>
      /\ check[c].op # "none"
      /\ check[c].id \in Id
      /\ Handed(check[c].id, TenantOf[c]) \/ check[c].id \in stray

\* Inductive: a write in progress disturbs no tenant only because its id is accounted
\* for since its count, and a new row only because nobody was handed it before.
SqlInv == SqlTypeOK /\ TenantsKeptApart /\ UnusedIsNobodys /\ ChecksAccountedFor

-----------------------------------------------------------------------------
\* Where clauses stay where clauses when options.where is merged over them.
LEMMA AskedAreClauses == \A where \in Asked : where \subseteq Clauses
<1>1. SUFFICES ASSUME NEW w0 \in Condition, NEW option \in {None} \cup SUBSET Condition
               PROVE  Combine(w0, option) \subseteq Clauses
  BY DEF Asked
<1>2. Condition \subseteq Clauses
  BY ConditionAssumption DEF Clauses
<1>3. CASE option = None
  BY <1>2, <1>3 DEF Combine
<1>4. CASE option # None
  <2>1. option \subseteq Condition
    BY <1>4
  <2>2. ASSUME NEW w \in option
        PROVE  [id |-> IF w.id = None THEN w0.id ELSE w.id,
                tenant |-> IF w.tenant = None THEN w0.tenant ELSE w.tenant] \in Clauses
    BY <1>2, <2>1 DEF Clauses
  <2> QED
    BY <1>4, <2>2 DEF Combine
<1> QED
  BY <1>3, <1>4

\* What a scoped read selects is there, and of the tenant of the request, whatever the
\* clause.
LEMMA ScopedIsOwn ==
  ASSUME SqlTypeOK, NEW c \in Caller, NEW withDeleted, NEW found \in Scoped(c, withDeleted)
  PROVE  /\ found \subseteq Id
         /\ \A i \in found : rows[i].tenant = TenantOf[c] /\ Entity(i) \in Known
<1>0. PICK where \in Asked : found = Matching(ApplyTenantScope(where, TenantOf[c]), withDeleted)
  BY DEF Scoped
<1>1. where \subseteq Clauses
  BY AskedAreClauses
<1>2. TenantOf[c] \in Tenant /\ TenantOf[c] # None
  BY CallerAssumption, NothingAssumption
<1>3. \A w \in ApplyTenantScope(where, TenantOf[c]) : w.tenant = TenantOf[c]
  <2>1. CASE where = {}
    BY <2>1 DEF ApplyTenantScope
  <2>2. CASE where # {}
    BY <1>1, <2>2 DEF ApplyTenantScope, Clauses
  <2> QED
    BY <2>1, <2>2
<1>4. ApplyTenantScope(where, TenantOf[c]) # {}
  BY DEF ApplyTenantScope
<1>5. found \subseteq Id /\ \A i \in found : rows[i].tenant = TenantOf[c]
  BY <1>0, <1>2, <1>3, <1>4 DEF Matching
<1>6. \A i \in found : i \in Id /\ rows[i].state \in {"live", "deleted"}
  BY <1>0 DEF Matching
<1> QED
  BY <1>5, <1>6 DEF Entity, Known

-----------------------------------------------------------------------------
LEMMA SqlInitInv == SqlInit => SqlInv
<1> SUFFICES ASSUME SqlInit PROVE SqlInv
  OBVIOUS
<1>1. SqlTypeOK
  BY DEF SqlInit, SqlTypeOK, NoRow, NoCheck, Shape
<1>2. TenantsKeptApart
  BY DEF SqlInit, TenantsKeptApart, NoRow, Handed
<1>3. UnusedIsNobodys /\ ChecksAccountedFor
  BY DEF SqlInit, UnusedIsNobodys, ChecksAccountedFor, NoRow
<1> QED
  BY <1>1, <1>2, <1>3 DEF SqlInv

\* A read hands out rows of the caller's tenant.
LEMMA HandInv ==
  ASSUME SqlInv, NEW c \in Caller, NEW found, found \subseteq Id,
         \A i \in found : rows[i].tenant = TenantOf[c] /\ Entity(i) \in Known,
         Hand(c, found)
  PROVE  SqlInv'
<1> DEFINE t == TenantOf[c]
           entities == {Entity(i) : i \in found}
<1>0. t \in Tenant
  BY CallerAssumption
<1>1. handed' = [handed EXCEPT ![t] = @ \cup entities] /\ UNCHANGED <<rows, check, stray>> /\ whole' = {}
  BY DEF Hand
<1>2. entities \subseteq Known /\ \A entity \in entities : entity[1] \in found
  BY DEF Entity
<1> HIDE DEF entities
<1>3. handed \in [Tenant -> SUBSET Known] /\ handed' \in [Tenant -> SUBSET Known]
  <2>1. handed \in [Tenant -> SUBSET Known]
    BY DEF SqlInv, SqlTypeOK, Known
  <2> QED
    BY <1>0, <1>1, <1>2, <2>1
<1>4. /\ handed'[t] = handed[t] \cup entities
      /\ \A u \in Tenant \ {t} : handed'[u] = handed[u]
  BY <1>0, <1>1, <1>3
<1> HIDE DEF t
<1>5. SqlTypeOK'
  BY <1>1, <1>3 DEF SqlInv, SqlTypeOK, Known
<1>6. \A u \in Tenant, j \in Id : Handed(j, u) => Handed(j, u)'
  BY <1>4 DEF Handed
<1>7. \A u \in Tenant, j \in Id : Handed(j, u)' => Handed(j, u) \/ (u = t /\ j \in found)
  BY <1>2, <1>4 DEF Handed
<1>8. TenantsKeptApart'
  BY <1>1, <1>7 DEF SqlInv, TenantsKeptApart, t
<1>9. UnusedIsNobodys'
  BY <1>1 DEF SqlInv, UnusedIsNobodys
<1>10. ChecksAccountedFor'
  BY <1>1, <1>6, CallerAssumption DEF SqlInv, ChecksAccountedFor
<1> QED
  BY <1>5, <1>8, <1>9, <1>10 DEF SqlInv

\* A request writes a row of its tenant, or one that strays; the tenant of the row
\* stays or becomes its own, and no row turns unused.
LEMMA RowWriteInv ==
  ASSUME SqlInv, NEW c \in Caller, NEW i \in Id,
         NEW state \in Shape \ {"unused"}, NEW tenant \in {rows[i].tenant, TenantOf[c]},
         rows' = [rows EXCEPT ![i] = [state |-> state, tenant |-> tenant, by |-> TenantOf[c]]],
         handed' = handed \/ (tenant = TenantOf[c] /\ handed' = [handed EXCEPT ![TenantOf[c]] = @ \cup {<<i, "live">>}]),
         stray' = stray \/ stray' = stray \cup {i},
         whole' \subseteq Id,
         \/ Handed(i, TenantOf[c]) \/ i \in stray'
         \/ rows[i].state = "unused" /\ tenant = TenantOf[c],
         \A k \in Caller : check'[k] \in {check[k], NoCheck},
         check' \in [Caller -> [op : {"none", "delete", "forceDelete", "restore"}, id : Id \cup {None}]]
  PROVE  SqlInv'
<1> DEFINE t == TenantOf[c]
<1>0. t \in Tenant /\ t # None
  BY CallerAssumption, NothingAssumption
<1>1. rows[i] \in [state : Shape, tenant : Tenant \cup {None}, by : Tenant \cup {None}]
  BY DEF SqlInv, SqlTypeOK
<1>2. [state |-> state, tenant |-> tenant, by |-> t] \in [state : Shape, tenant : Tenant \cup {None}, by : Tenant \cup {None}]
  BY <1>0, <1>1
<1>3. rows' \in [Id -> [state : Shape, tenant : Tenant \cup {None}, by : Tenant \cup {None}]]
  BY <1>2 DEF SqlInv, SqlTypeOK
<1>4. /\ handed' \in [Tenant -> SUBSET Known]
      /\ \A u \in Tenant, j \in Id : Handed(j, u) => Handed(j, u)'
      /\ \A u \in Tenant, j \in Id : Handed(j, u)' => Handed(j, u) \/ (u = t /\ j = i)
      /\ handed' # handed => tenant = t
  <2>1. CASE handed' = handed
    BY <2>1 DEF SqlInv, SqlTypeOK, Handed, Known
  <2>2. CASE tenant = t /\ handed' = [handed EXCEPT ![t] = @ \cup {<<i, "live">>}]
    <3>0. <<i, "live">> \in Known /\ <<i, "live">>[1] = i
      BY DEF Known
    <3>1. PICK entity \in Known : entity = <<i, "live">> /\ entity[1] = i
      BY Zenon, <3>0
    <3>2. handed' = [handed EXCEPT ![t] = @ \cup {entity}] /\ handed \in [Tenant -> SUBSET Known]
      BY <2>2, <3>1 DEF SqlInv, SqlTypeOK, Known
    <3>3. /\ handed' \in [Tenant -> SUBSET Known] /\ handed'[t] = handed[t] \cup {entity}
          /\ \A u \in Tenant \ {t} : handed'[u] = handed[u]
      BY <1>0, <3>2
    <3> HIDE DEF t
    <3> QED
      BY <2>2, <3>1, <3>3 DEF Handed
  <2> QED
    BY <2>1, <2>2
<1>5. stray' \subseteq Id /\ stray \subseteq stray' /\ stray' \subseteq stray \cup {i}
  BY DEF SqlInv, SqlTypeOK
<1>6. rows'[i].state = state /\ rows'[i].tenant = tenant /\ rows'[i].by = t
  BY DEF SqlInv, SqlTypeOK
<1>7. \A j \in Id \ {i} : rows'[j] = rows[j]
  BY DEF SqlInv, SqlTypeOK
<1>8. SqlTypeOK'
  BY <1>3, <1>4, <1>5 DEF SqlTypeOK, Known
<1>9. TenantsKeptApart'
  <2> SUFFICES ASSUME NEW j \in Id \ stray'
               PROVE  /\ rows'[j].by = rows'[j].tenant
                      /\ \A u \in Tenant : Handed(j, u)' => rows'[j].tenant = u
    BY DEF TenantsKeptApart
  <2>1. j \notin stray
    BY <1>5
  <2>2. CASE j # i
    BY <1>4, <1>7, <2>1, <2>2 DEF SqlInv, TenantsKeptApart
  <2>3. CASE j = i
    <3>1. CASE Handed(i, t)
      <4>1. rows[i].tenant = t
        BY <1>0, <2>1, <2>3, <3>1 DEF SqlInv, TenantsKeptApart
      <4>2. \A u \in Tenant : Handed(i, u)' => u = t
        BY <1>4, <2>1, <2>3, <4>1 DEF SqlInv, TenantsKeptApart
      <4> QED
        BY <1>6, <2>3, <4>1, <4>2
    <3>2. CASE rows[i].state = "unused" /\ tenant = t
      <4>1. \A u \in Tenant : ~Handed(i, u)
        BY <2>1, <2>3, <3>2, NothingAssumption DEF SqlInv, UnusedIsNobodys, TenantsKeptApart
      <4> QED
        BY <1>4, <1>6, <2>3, <3>2, <4>1
    <3> QED
      BY <2>3, <3>1, <3>2
  <2> QED
    BY <2>2, <2>3
<1>10. UnusedIsNobodys'
  BY <1>6, <1>7 DEF SqlInv, UnusedIsNobodys
<1>11. ChecksAccountedFor'
  BY <1>4, <1>5, CallerAssumption DEF SqlInv, ChecksAccountedFor
<1> QED
  BY <1>8, <1>9, <1>10, <1>11 DEF SqlInv

LEMMA BeginWriteInv ==
  ASSUME SqlInv, NEW c \in Caller, NEW i \in Id, NEW op \in {"delete", "forceDelete", "restore"},
         BeginWrite(c, i, op)
  PROVE  SqlInv'
<1>1. /\ UNCHANGED <<rows, handed>>
      /\ stray \subseteq stray' /\ stray' \subseteq Id
      /\ Handed(i, TenantOf[c]) \/ i \in stray'
      /\ whole' = {}
  BY DEF SqlInv, SqlTypeOK, BeginWrite, Writes
<1>2. check' = [check EXCEPT ![c] = [op |-> op, id |-> i]]
  BY DEF BeginWrite
<1>3. SqlTypeOK'
  BY <1>1, <1>2 DEF SqlInv, SqlTypeOK
<1>4. TenantsKeptApart' /\ UnusedIsNobodys'
  BY <1>1 DEF SqlInv, TenantsKeptApart, UnusedIsNobodys, Handed
<1>5. ChecksAccountedFor'
  <2> SUFFICES ASSUME NEW k \in Caller, check'[k] # NoCheck
               PROVE  /\ check'[k].op # "none" /\ check'[k].id \in Id
                      /\ Handed(check'[k].id, TenantOf[k]) \/ check'[k].id \in stray'
    BY <1>1 DEF ChecksAccountedFor, NoCheck, Handed
  <2>1. CASE k = c
    <3>1. check'[k] = [op |-> op, id |-> i]
      BY <1>2, <2>1 DEF SqlInv, SqlTypeOK
    <3> QED
      BY <1>1, <2>1, <3>1
  <2>2. CASE k # c
    <3>1. check'[k] = check[k]
      BY <1>2, <2>2 DEF SqlInv, SqlTypeOK
    <3> QED
      BY <1>1, <3>1 DEF SqlInv, ChecksAccountedFor
  <2> QED
    BY <2>1, <2>2
<1> QED
  BY <1>3, <1>4, <1>5 DEF SqlInv

LEMMA EndWriteInv ==
  ASSUME SqlInv, NEW c \in Caller, EndWrite(c)
  PROVE  SqlInv'
<1> DEFINE i == check[c].id
<1>1. /\ i \in Id /\ (Handed(i, TenantOf[c]) \/ i \in stray)
      /\ check' = [check EXCEPT ![c] = NoCheck]
      /\ UNCHANGED <<handed, stray>> /\ whole' = {}
  BY DEF SqlInv, ChecksAccountedFor, EndWrite
<1>2. /\ check' \in [Caller -> [op : {"none", "delete", "forceDelete", "restore"}, id : Id \cup {None}]]
      /\ \A k \in Caller : check'[k] \in {check[k], NoCheck}
  BY <1>1 DEF SqlInv, SqlTypeOK, NoCheck
<1>3. CASE There(i)
  <2>1. PICK state \in {"deleted", "gone", "live"} :
          rows' = [rows EXCEPT ![i] = [state |-> state, tenant |-> rows[i].tenant, by |-> TenantOf[c]]]
    BY <1>3 DEF EndWrite, Row
  <2> QED
    BY <1>1, <1>2, <2>1, RowWriteInv DEF Shape
<1>4. CASE ~There(i)
  <2>1. rows' = rows
    BY <1>4 DEF EndWrite
  <2>2. SqlTypeOK' /\ TenantsKeptApart' /\ UnusedIsNobodys'
    BY <1>1, <1>2, <2>1 DEF SqlInv, SqlTypeOK, TenantsKeptApart, UnusedIsNobodys, Handed
  <2>3. ChecksAccountedFor'
    BY <1>1, <1>2 DEF SqlInv, ChecksAccountedFor, Handed
  <2> QED
    BY <2>2, <2>3 DEF SqlInv
<1> QED
  BY <1>3, <1>4

LEMMA SqlNextInv == SqlInv /\ [SqlNext]_sqlVars => SqlInv'
<1> SUFFICES ASSUME SqlInv, [SqlNext]_sqlVars PROVE SqlInv'
  OBVIOUS
<1>1. CASE UNCHANGED sqlVars
  BY <1>1 DEF sqlVars, SqlInv, SqlTypeOK, TenantsKeptApart, UnusedIsNobodys, ChecksAccountedFor, Handed
<1>2. CASE SqlNext
  <2>1. PICK c \in Caller :
          \/ \E withDeleted \in BOOLEAN : FindOne(c, withDeleted) \/ Find(c, withDeleted)
          \/ \E page, limit \in Paging : FindPaginated(c, page, limit)
          \/ \E i \in Id : Create(c, i) \/ CreateNaming(c, i) \/ UpdatePart(c, i)
          \/ \E i \in Id, state \in {"live", "deleted"} : UpdateWhole(c, i, state)
          \/ \E i \in Id, op \in {"delete", "forceDelete", "restore"} : BeginWrite(c, i, op)
          \/ EndWrite(c)
    BY <1>2 DEF SqlNext
  <2>2. check \in [Caller -> [op : {"none", "delete", "forceDelete", "restore"}, id : Id \cup {None}]]
    BY DEF SqlInv, SqlTypeOK
  <2>3. ASSUME NEW withDeleted \in BOOLEAN, NEW found \in Scoped(c, withDeleted),
               NEW part \in SUBSET found, Hand(c, part)
        PROVE  SqlInv'
    <3>1. found \subseteq Id /\ \A i \in found : rows[i].tenant = TenantOf[c] /\ Entity(i) \in Known
      BY ScopedIsOwn DEF SqlInv
    <3> QED
      BY <2>3, <3>1, HandInv
  <2>4. ASSUME NEW withDeleted \in BOOLEAN, FindOne(c, withDeleted) \/ Find(c, withDeleted)
        PROVE  SqlInv'
    <3>1. PICK found \in Scoped(c, withDeleted) : Hand(c, found) \/ \E i \in found : Hand(c, {i})
      BY <2>4 DEF FindOne, Find
    <3>2. ASSUME NEW i \in found, Hand(c, {i})
          PROVE  SqlInv'
      <4>1. {i} \in SUBSET found
        OBVIOUS
      <4> QED
        BY <2>3, <3>2, <4>1
    <3>3. ASSUME Hand(c, found)
          PROVE  SqlInv'
      <4>1. found \in SUBSET found
        OBVIOUS
      <4> QED
        BY <2>3, <3>3, <4>1
    <3> QED
      BY <3>1, <3>2, <3>3
  <2>5. ASSUME NEW page \in Paging, NEW limit \in Paging, FindPaginated(c, page, limit)
        PROVE  SqlInv'
    <3>1. PICK found \in Scoped(c, FALSE) : \E part \in SUBSET found : Hand(c, part)
      BY <2>5 DEF FindPaginated
    <3> QED
      BY <2>3, <3>1
  <2>6. ASSUME NEW i \in Id, Create(c, i)
        PROVE  SqlInv'
    BY <2>2, <2>6, RowWriteInv DEF Create, OwnRow, Shape
  <2>7. ASSUME NEW i \in Id, CreateNaming(c, i)
        PROVE  SqlInv'
    <3> DEFINE state == IF There(i) THEN rows[i].state ELSE "live"
    <3>1. state \in Shape \ {"unused"}
      BY DEF There, Shape
    <3>2. rows' = [rows EXCEPT ![i] = [state |-> state, tenant |-> TenantOf[c], by |-> TenantOf[c]]]
      BY <2>7 DEF CreateNaming, OwnRow
    <3>3. /\ handed' \in {handed, [handed EXCEPT ![TenantOf[c]] = @ \cup {<<i, "live">>}]}
          /\ UNCHANGED check /\ whole' \subseteq Id
          /\ stray' = stray \/ stray' = stray \cup {i}
          /\ Handed(i, TenantOf[c]) \/ i \in stray'
      BY <2>7 DEF CreateNaming, Writes
    <3> HIDE DEF state
    <3> QED
      BY <2>2, <3>1, <3>2, <3>3, RowWriteInv
  <2>8. ASSUME NEW i \in Id, UpdatePart(c, i)
        PROVE  SqlInv'
    <3>1. rows[i].state \in Shape \ {"unused"}
      BY <2>8 DEF UpdatePart, There, Shape
    <3>2. /\ rows' = [rows EXCEPT ![i] = [state |-> rows[i].state, tenant |-> rows[i].tenant, by |-> TenantOf[c]]]
          /\ UNCHANGED <<check, handed>> /\ whole' = {}
          /\ stray' = stray \/ stray' = stray \cup {i}
          /\ Handed(i, TenantOf[c]) \/ i \in stray'
      BY <2>8 DEF UpdatePart, Writes, Row
    <3> QED
      BY <2>2, <3>1, <3>2, RowWriteInv
  <2>9. ASSUME NEW i \in Id, NEW state \in {"live", "deleted"}, UpdateWhole(c, i, state)
        PROVE  SqlInv'
    <3>1. /\ rows' = [rows EXCEPT ![i] = [state |-> state, tenant |-> TenantOf[c], by |-> TenantOf[c]]]
          /\ UNCHANGED <<check, handed, stray>> /\ whole' = {i}
          /\ <<i, state>> \in handed[TenantOf[c]]
      BY <2>9 DEF UpdateWhole, OwnRow
    <3>2. Handed(i, TenantOf[c]) /\ state \in Shape \ {"unused"}
      BY <3>1 DEF Handed, Shape
    <3> QED
      BY <2>2, <3>1, <3>2, RowWriteInv
  <2> QED
    BY <2>1, <2>3, <2>4, <2>5, <2>6, <2>7, <2>8, <2>9, BeginWriteInv, EndWriteInv
<1> QED
  BY <1>1, <1>2

-----------------------------------------------------------------------------
THEOREM SqlInvHolds == SqlSpec => []SqlInv
  BY SqlInitInv, SqlNextInv, PTL DEF SqlSpec

\* Rows, counts in progress and what callers know are well-typed
\* (base.repository.ts, its fields and the rows it writes).
THEOREM SqlTypeCorrect == SqlSpec => []SqlTypeOK
<1>1. SqlInv => SqlTypeOK
  BY DEF SqlInv
<1> QED
  BY <1>1, SqlInvHolds, PTL

\* Reads alone keep the tenants apart: a row is written by a request of another tenant
\* only if its id strayed (base.repository.ts, applyTenantScope and its callers).
THEOREM TenantsAreKeptApart == SqlSpec => []TenantsKeptApart
<1>1. SqlInv => TenantsKeptApart
  BY DEF SqlInv
<1> QED
  BY <1>1, SqlInvHolds, PTL

\* A row that was deleted comes back only by a restore whose count has passed, or written
\* whole: with an entity that the tenant of the request read while the row was live or,
\* once the row is gone, as a new one that bears its id.  No partial update and no other
\* write brings it back (base.repository.ts, create, update, restore).
THEOREM RowsComeBackOnlyIfAsked == SqlSpec => BackOnlyIfAsked
<1> DEFINE Back(i) ==
      rows[i].state \in {"deleted", "gone"} /\ rows'[i].state = "live" =>
        \/ /\ rows[i].state = "deleted"
           /\ \E c \in Caller : check[c] = [op |-> "restore", id |-> i] /\ check'[c] = NoCheck
        \/ /\ i \in whole'
           /\ rows'[i].by = rows'[i].tenant
           /\ rows[i].state = "gone" \/ <<i, "live">> \in handed[rows'[i].by]
<1>1. SqlInv /\ [SqlNext]_sqlVars => [\A i \in Id : Back(i)]_sqlVars
  <2> SUFFICES ASSUME SqlInv, SqlNext, NEW j \in Id,
                      rows[j].state \in {"deleted", "gone"}, rows'[j].state = "live"
               PROVE  \/ /\ rows[j].state = "deleted"
                         /\ \E c \in Caller : check[c] = [op |-> "restore", id |-> j] /\ check'[c] = NoCheck
                      \/ /\ j \in whole'
                         /\ rows'[j].by = rows'[j].tenant
                         /\ rows[j].state = "gone" \/ <<j, "live">> \in handed[rows'[j].by]
    OBVIOUS
  <2>1. rows'[j] # rows[j]
    OBVIOUS
  <2>2. PICK c \in Caller :
          \/ \E i \in Id : Create(c, i) \/ CreateNaming(c, i) \/ UpdatePart(c, i)
          \/ \E i \in Id, state \in {"live", "deleted"} : UpdateWhole(c, i, state)
          \/ EndWrite(c)
    BY <2>1 DEF SqlNext, FindOne, Find, FindPaginated, Hand, BeginWrite
  <2>3. TenantOf[c] \in Tenant
    BY CallerAssumption
  <2>4. ASSUME NEW i \in Id, Create(c, i)
        PROVE  FALSE
    BY <2>1, <2>4 DEF Create, SqlInv, SqlTypeOK
  <2>5. ASSUME NEW i \in Id, CreateNaming(c, i)
        PROVE  j \in whole' /\ rows'[j].by = rows'[j].tenant /\ rows[j].state = "gone"
    <3>1. i = j
      BY <2>1, <2>5 DEF CreateNaming, SqlInv, SqlTypeOK
    <3>2. ~There(j)
      BY <2>5, <3>1 DEF CreateNaming, OwnRow, There, SqlInv, SqlTypeOK
    <3> QED
      BY <2>5, <3>1, <3>2 DEF CreateNaming, OwnRow, There, SqlInv, SqlTypeOK
  <2>6. ASSUME NEW i \in Id, UpdatePart(c, i)
        PROVE  FALSE
    BY <2>1, <2>6 DEF UpdatePart, Row, SqlInv, SqlTypeOK
  <2>7. ASSUME NEW i \in Id, NEW state \in {"live", "deleted"}, UpdateWhole(c, i, state)
        PROVE  /\ j \in whole' /\ rows'[j].by = rows'[j].tenant
               /\ <<j, "live">> \in handed[rows'[j].by]
    <3>1. i = j
      BY <2>1, <2>7 DEF UpdateWhole, SqlInv, SqlTypeOK
    <3>2. rows'[j].state = state /\ rows'[j].tenant = TenantOf[c] /\ rows'[j].by = TenantOf[c]
      BY <2>7, <3>1 DEF UpdateWhole, OwnRow, SqlInv, SqlTypeOK
    <3> QED
      BY <2>7, <3>1, <3>2 DEF UpdateWhole
  <2>8. ASSUME EndWrite(c)
        PROVE  /\ rows[j].state = "deleted"
               /\ check[c] = [op |-> "restore", id |-> j] /\ check'[c] = NoCheck
    <3> DEFINE i == check[c].id
               to == CASE check[c].op = "delete" -> "deleted"
                       [] check[c].op = "forceDelete" -> "gone"
                       [] OTHER -> "live"
    <3>1. /\ i \in Id /\ check[c].op \in {"delete", "forceDelete", "restore"}
          /\ check[c] = [op |-> check[c].op, id |-> i]
      BY <2>8 DEF EndWrite, SqlInv, SqlTypeOK, ChecksAccountedFor
    <3>2. There(i) /\ rows' = [rows EXCEPT ![i] = Row(i, to, TenantOf[c])]
      BY <2>1, <2>8 DEF EndWrite
    <3>3. i = j
      BY <2>1, <3>1, <3>2 DEF SqlInv, SqlTypeOK
    <3>4. rows'[j].state = to
      BY <3>2, <3>3 DEF Row, SqlInv, SqlTypeOK
    <3>5. check[c].op = "restore"
      BY <3>1, <3>4
    <3>6. check'[c] = NoCheck
      BY <2>8 DEF EndWrite, SqlInv, SqlTypeOK
    <3> QED
      BY <3>1, <3>2, <3>3, <3>5, <3>6 DEF There
  <2> QED
    BY <2>2, <2>3, <2>4, <2>5, <2>6, <2>7, <2>8
<1>2. SqlSpec => [][\A i \in Id : Back(i)]_sqlVars
  BY <1>1, SqlInvHolds, PTL DEF SqlSpec
<1> QED
  BY <1>2 DEF BackOnlyIfAsked

-----------------------------------------------------------------------------
(* The Mongo repository. *)

Document == [state : Shape \ {"gone"}, tenant : Tenant \cup {None}, stamped : BOOLEAN]

\* What a request may write: a document of some tenant, live or deleted.
Owned(doc) == doc \in Document /\ doc.tenant \in Tenant /\ doc.state \in {"live", "deleted"}

IsListing(l) ==
  /\ l = [of |-> l.of, page |-> l.page, limit |-> l.limit, found |-> l.found,
          total |-> l.total, steady |-> l.steady]
  /\ l.of \in Tenant \cup {None}

\* Inductive: a document without a tenant was never used, so that create takes
\* nothing from the store of another tenant.
MongoInv ==
  /\ docs \in [Id -> Document]
  /\ \A i \in Id : docs[i].tenant = None <=> docs[i].state = "unused"
  /\ acting \in Tenant
  /\ IsListing(listing)

\* The records of a tenant.
Kept(t) == {<<i, docs[i].state, docs[i].stamped>> : i \in {j \in Id : docs[j].tenant = t}}

KeepsRecords == \A t \in Tenant : Kept(t) \subseteq Id \X {"live", "deleted"} \X BOOLEAN

LEMMA KeptAreRecords == MongoInv => KeepsRecords
<1> SUFFICES ASSUME MongoInv, NEW t \in Tenant, NEW i \in Id, docs[i].tenant = t
             PROVE  docs[i].state \in {"live", "deleted"} /\ docs[i].stamped \in BOOLEAN
  BY DEF KeepsRecords, Kept
<1>1. docs[i] \in Document /\ docs[i].state # "unused"
  BY NothingAssumption DEF MongoInv
<1> QED
  BY <1>1 DEF Document, Shape

LEMMA MongoInitInv == MongoInit => MongoInv /\ Stores!Init
<1> SUFFICES ASSUME MongoInit PROVE MongoInv /\ Stores!Init
  OBVIOUS
<1>1. MongoInv
  BY DEF MongoInit, MongoInv, IsListing, NoDoc, NoListing, Document, Shape
<1>2. \A t \in Tenant : {j \in Id : docs[j].tenant = t} = {}
  BY NothingAssumption DEF MongoInit, NoDoc
<1>3. Stores!Init
  BY <1>2 DEF Stores!Init, MongoInit
<1> QED
  BY <1>1, <1>3

-----------------------------------------------------------------------------
\* What a write leaves of the other documents and of the listing.
LEMMA DocWriteInv ==
  ASSUME MongoInv, NEW t \in Tenant, NEW i \in Id, NEW doc, Owned(doc), Write(t, i, doc)
  PROVE  MongoInv'
<1>1. docs' = [docs EXCEPT ![i] = doc] /\ acting' = t
  BY DEF Write
<1>4. IsListing(listing')
  BY DEF Write, MongoInv, IsListing
<1>2. docs' \in [Id -> Document]
  BY <1>1 DEF MongoInv, Owned
<1>3. \A j \in Id : docs'[j].tenant = None <=> docs'[j].state = "unused"
  BY <1>1, NothingAssumption DEF MongoInv, Owned
<1> QED
  BY <1>1, <1>2, <1>3, <1>4 DEF MongoInv

\* A write over a document of the tenant, or over none, is work within its store.
LEMMA WriteIsWork ==
  ASSUME MongoInv, NEW t \in Tenant, NEW i \in Id, NEW doc, Owned(doc), Write(t, i, doc),
         docs[i].tenant \in {t, None}, doc.tenant = t
  PROVE  Stores!Work(t)
<1>1. docs' = [docs EXCEPT ![i] = doc] /\ acting' = t
  BY DEF Write
<1>2. MongoInv'
  BY DocWriteInv
<1>3. KeepsRecords'
  BY <1>2, KeptAreRecords, PTL
<1>4. ASSUME NEW u \in Tenant \ {t}
      PROVE  Kept(u)' = Kept(u)
  <2>1. docs'[i].tenant # u /\ docs[i].tenant # u
    BY <1>1, <1>4, NothingAssumption DEF MongoInv
  <2>2. \A j \in Id \ {i} : docs'[j] = docs[j]
    BY <1>1 DEF MongoInv
  <2> QED
    BY <2>1, <2>2 DEF Kept
<1> QED
  BY <1>1, <1>3, <1>4 DEF Stores!Work, KeepsRecords, Kept

\* An update that names another tenant moves the document between two stores.
LEMMA MoveIsGift ==
  ASSUME MongoInv, NEW t \in Tenant, NEW u \in Tenant, t # u, NEW i \in Id, NEW doc,
         Owned(doc), Write(t, i, doc), docs[i].tenant = t, doc.tenant = u,
         doc.state = docs[i].state, doc.stamped = docs[i].stamped
  PROVE  Stores!GiveAway(t, u)
<1> DEFINE r == <<i, docs[i].state, docs[i].stamped>>
           kept == [v \in Tenant |-> Kept(v)]
<1>1. docs' = [docs EXCEPT ![i] = doc] /\ acting' = t
  BY DEF Write
<1>2. docs'[i] = doc /\ \A j \in Id \ {i} : docs'[j] = docs[j]
  BY <1>1 DEF MongoInv
<1>3. Kept(t)' = Kept(t) \ {r}
  BY <1>2 DEF Kept
<1>4. Kept(u)' = Kept(u) \cup {r}
  BY <1>2 DEF Kept
<1>5. \A v \in Tenant \ {t, u} : Kept(v)' = Kept(v)
  BY <1>2 DEF Kept
<1>6. r \in kept[t]
  BY DEF Kept
<1>7. [v \in Tenant |-> Kept(v)'] = [kept EXCEPT ![t] = @ \ {r}, ![u] = @ \cup {r}]
  <2> HIDE DEF r
  <2> QED
    BY <1>3, <1>4, <1>5
<1> QED
  BY <1>1, <1>6, <1>7 DEF Stores!GiveAway, Kept

LEMMA ListingIsWork ==
  ASSUME MongoInv, NEW l, IsListing(l), l.of \in Tenant, Listing(l)
  PROVE  MongoInv' /\ Stores!Work(l.of)
<1>1. docs' = docs /\ acting' = l.of /\ listing' = l
  BY DEF Listing
<1>2. MongoInv'
  BY <1>1 DEF MongoInv
<1>3. \A u \in Tenant : Kept(u)' = Kept(u) /\ Kept(u) \subseteq Id \X {"live", "deleted"} \X BOOLEAN
  BY <1>1, KeptAreRecords DEF KeepsRecords, Kept
<1> QED
  BY <1>1, <1>2, <1>3 DEF Stores!Work, Kept

-----------------------------------------------------------------------------
\* Every step is a step of the stores, and keeps the invariant.
LEMMA MongoNextInv == MongoInv /\ [MongoNext]_mongoVars => MongoInv' /\ [Stores!Next]_(Stores!storeVars)
<1> SUFFICES ASSUME MongoInv, [MongoNext]_mongoVars PROVE MongoInv' /\ [Stores!Next]_(Stores!storeVars)
  OBVIOUS
<1>1. CASE UNCHANGED mongoVars
  BY <1>1 DEF mongoVars, MongoInv, Stores!storeVars
<1>2. CASE FindPage \/ CountDocuments
  <2>1. PICK l : IsListing(l) /\ l.of \in Tenant /\ Listing(l)
    <3>1. ASSUME NEW n
          PROVE  /\ IsListing([listing EXCEPT !.found = n]) /\ [listing EXCEPT !.found = n].of = listing.of
                 /\ IsListing([listing EXCEPT !.total = n]) /\ [listing EXCEPT !.total = n].of = listing.of
      BY DEF MongoInv, IsListing
    <3>2. listing.of # None => listing.of \in Tenant
      BY DEF MongoInv, IsListing
    <3> QED
      BY <1>2, <3>1, <3>2 DEF FindPage, CountDocuments
  <2>2. MongoInv' /\ Stores!Work(l.of)
    BY <2>1, ListingIsWork
  <2> QED
    BY <2>1, <2>2 DEF Stores!Next
<1>3. ASSUME NEW t \in Tenant, NEW page \in PageNumbers, NEW limit \in PageLimits, BeginListing(t, page, limit)
      PROVE  MongoInv' /\ Stores!Next
  <2> DEFINE l == [of |-> t, page |-> page, limit |-> limit, found |-> None, total |-> None, steady |-> TRUE]
  <2>1. IsListing(l) /\ l.of = t
    BY DEF IsListing
  <2>2. Listing(l)
    BY <1>3 DEF BeginListing
  <2> HIDE DEF l
  <2> QED
    BY <2>1, <2>2, ListingIsWork DEF Stores!Next
<1>4. ASSUME NEW t \in Tenant, NEW i \in Id, MongoCreate(t, i)
      PROVE  MongoInv' /\ Stores!Next
  <2> DEFINE doc == [state |-> "live", tenant |-> t, stamped |-> FALSE]
  <2>1. Owned(doc) /\ doc.tenant = t
    BY DEF Owned, Document, Shape
  <2>2. Write(t, i, doc) /\ docs[i].tenant = None
    BY <1>4 DEF MongoCreate, MongoInv
  <2> QED
    BY <2>1, <2>2, DocWriteInv, WriteIsWork DEF Stores!Next
<1>5. ASSUME NEW t \in Tenant, NEW i \in Id, MongoDelete(t, i) \/ MongoRestore(t, i)
      PROVE  MongoInv' /\ Stores!Next
  <2>1. docs[i] \in Document /\ docs[i].tenant = t
    BY <1>5 DEF MongoDelete, MongoRestore, Filter, MongoInv
  <2>2. PICK doc : Owned(doc) /\ doc.tenant = t /\ Write(t, i, doc)
    <3>1. CASE MongoDelete(t, i)
      <4> DEFINE doc == [docs[i] EXCEPT !.state = "deleted", !.stamped = TRUE]
      <4>1. Owned(doc) /\ doc.tenant = t
        BY <2>1 DEF Owned, Document, Shape
      <4> QED
        BY <3>1, <4>1 DEF MongoDelete
    <3>2. CASE MongoRestore(t, i)
      <4> DEFINE doc == [docs[i] EXCEPT !.state = "live"]
      <4>1. Owned(doc) /\ doc.tenant = t
        BY <2>1 DEF Owned, Document, Shape
      <4> QED
        BY <3>2, <4>1 DEF MongoRestore
    <3> QED
      BY <1>5, <3>1, <3>2
  <2> QED
    BY <2>1, <2>2, DocWriteInv, WriteIsWork DEF Stores!Next
<1>6. ASSUME NEW t \in Tenant, NEW i \in Id, NEW u \in Tenant, MongoUpdate(t, i, u)
      PROVE  MongoInv' /\ Stores!Next
  <2> DEFINE doc == [docs[i] EXCEPT !.tenant = u]
  <2>1. docs[i] \in Document /\ docs[i].tenant = t /\ docs[i].state = "live"
    BY <1>6 DEF MongoUpdate, Filter, MongoInv
  <2>2. Owned(doc) /\ doc.tenant = u /\ doc.state = docs[i].state /\ doc.stamped = docs[i].stamped
    BY <2>1 DEF Owned, Document, Shape
  <2>3. Write(t, i, doc)
    BY <1>6 DEF MongoUpdate
  <2> HIDE DEF doc
  <2>4. CASE u = t
    BY <2>1, <2>2, <2>3, <2>4, DocWriteInv, WriteIsWork DEF Stores!Next
  <2>5. CASE u # t
    BY <2>1, <2>2, <2>3, <2>5, DocWriteInv, MoveIsGift DEF Stores!Next
  <2> QED
    BY <2>4, <2>5
<1> QED
  BY <1>1, <1>2, <1>3, <1>4, <1>5, <1>6 DEF MongoNext

\* Whatever ids and filters requests pass, they change the documents of their own tenant
\* only, and give away what they name another tenant for (tenant-soft-delete.plugin.ts,
\* every hook; base-mongo.repository.ts).
THEOREM TenantStoresAreKept == MongoSpec => KeepsTenantStores
<1>1. MongoSpec => []MongoInv
  BY MongoInitInv, MongoNextInv, PTL DEF MongoSpec
<1> QED
  BY <1>1, MongoInitInv, MongoNextInv, PTL DEF MongoSpec, KeepsTenantStores, Stores!Spec

-----------------------------------------------------------------------------
(* Pages of documents. *)

Used == {i \in Id : docs[i].state # "unused"}

\* How many documents the listing is about, now.
Amount == Cardinality(Filter(listing.of, FALSE))

\* Inductive: what has been answered of a listing is of this moment until the other
\* answer is there, and from then on the answers are of one moment.
PageInv ==
  /\ IsFiniteSet(Used)
  /\ listing.of = None => ~Answered
  /\ listing.of # None => listing.page \in Int /\ listing.limit \in Int
  /\ listing.of # None /\ listing.steady /\ ~Answered =>
       /\ listing.found # None => listing.found = OnPage(Amount, listing.page, listing.limit)
       /\ listing.total # None => listing.total = Amount
  /\ listing.of # None /\ listing.steady /\ Answered =>
       listing.total \in Nat /\ listing.found = OnPage(listing.total, listing.page, listing.limit)

\* A request finds finitely many documents, however many ids there are.
LEMMA AmountIsANumber == PageInv => Amount \in Nat
<1> SUFFICES ASSUME PageInv PROVE Amount \in Nat
  OBVIOUS
<1>1. Filter(listing.of, FALSE) \subseteq Used
  BY DEF Filter, Used
<1>2. IsFiniteSet(Filter(listing.of, FALSE))
  BY <1>1, FS_Subset DEF PageInv
<1> QED
  BY <1>2, FS_CardinalityType DEF Amount

\* A write changes the number of documents of a listing under way only if it tells the
\* listing so.
LEMMA WriteKeepsPages ==
  ASSUME MongoInv, PageInv, NEW t, NEW i \in Id, NEW doc, Write(t, i, doc)
  PROVE  PageInv'
<1>1. docs' = [docs EXCEPT ![i] = doc]
  BY DEF Write
<1>2. \A j \in Id \ {i} : docs'[j] = docs[j]
  BY <1>1 DEF MongoInv
<1>3. docs'[i] = doc
  BY <1>1 DEF MongoInv
<1>4. IsFiniteSet(Used')
  <2>1. Used' \subseteq Used \cup {i}
    BY <1>2 DEF Used
  <2>2. IsFiniteSet(Used \cup {i})
    BY FS_AddElement DEF PageInv
  <2> QED
    BY <2>1, <2>2, FS_Subset
<1>5. CASE listing.of \in Tenant \cap {docs[i].tenant, doc.tenant} /\ None \in {listing.found, listing.total}
  <2>1. listing' = [listing EXCEPT !.steady = FALSE]
    BY <1>5 DEF Write
  <2>2. /\ listing'.of = listing.of /\ listing'.page = listing.page /\ listing'.limit = listing.limit
        /\ listing'.found = listing.found /\ listing'.total = listing.total /\ listing'.steady = FALSE
    BY <2>1 DEF MongoInv, IsListing
  <2>3. Answered' = Answered
    BY <2>2 DEF Answered
  <2> QED
    BY <1>4, <2>2, <2>3 DEF PageInv
<1>6. CASE ~(listing.of \in Tenant \cap {docs[i].tenant, doc.tenant} /\ None \in {listing.found, listing.total})
  <2>1. listing' = listing
    BY <1>6 DEF Write
  <2>2. Answered' = Answered
    BY <2>1 DEF Answered
  <2>3. CASE Answered \/ listing.of = None
    BY <1>4, <2>1, <2>2, <2>3 DEF PageInv
  <2>4. CASE ~Answered /\ listing.of # None
    <3>1. docs[i].tenant # listing.of /\ doc.tenant # listing.of
      BY <1>6, <2>4 DEF MongoInv, IsListing, Answered
    <3>2. Filter(listing.of, FALSE)' = Filter(listing.of, FALSE)
      BY <1>2, <1>3, <2>1, <3>1 DEF Filter
    <3>3. Amount' = Amount
      BY <3>2 DEF Amount
    <3> QED
      BY <1>4, <2>1, <2>2, <2>4, <3>3 DEF PageInv
  <2> QED
    BY <2>3, <2>4
<1> QED
  BY <1>5, <1>6

LEMMA PageNextInv == MongoInv /\ PageInv /\ [MongoNext]_mongoVars => PageInv'
<1> SUFFICES ASSUME MongoInv, PageInv, [MongoNext]_mongoVars PROVE PageInv'
  OBVIOUS
<1>1. CASE UNCHANGED mongoVars
  <2>1. Used' = Used /\ Amount' = Amount /\ Answered' = Answered
    BY <1>1 DEF mongoVars, Used, Amount, Filter, Answered
  <2> QED
    BY <1>1, <2>1 DEF mongoVars, PageInv
<1>2. ASSUME NEW t \in Tenant, NEW i \in Id, NEW u \in Tenant,
             MongoCreate(t, i) \/ MongoDelete(t, i) \/ MongoRestore(t, i) \/ MongoUpdate(t, i, u)
      PROVE  PageInv'
  BY <1>2, WriteKeepsPages DEF MongoCreate, MongoDelete, MongoRestore, MongoUpdate
<1>3. ASSUME NEW t \in Tenant, NEW page \in PageNumbers, NEW limit \in PageLimits, BeginListing(t, page, limit)
      PROVE  PageInv'
  <2>1. /\ docs' = docs /\ listing'.of = t /\ listing'.page = page /\ listing'.limit = limit
        /\ listing'.found = None /\ listing'.total = None
    BY <1>3 DEF BeginListing, Listing
  <2>2. t # None /\ page \in Int /\ limit \in Int
    BY NothingAssumption, PagesAssumption
  <2>3. Used' = Used /\ ~Answered'
    BY <2>1 DEF Used, Answered
  <2> QED
    BY <2>1, <2>2, <2>3 DEF PageInv
<1>4. CASE FindPage
  <2> DEFINE number == OnPage(Amount, listing.page, listing.limit)
  <2>1. /\ docs' = docs /\ listing' = [listing EXCEPT !.found = number]
        /\ listing.of # None /\ listing.found = None
    BY <1>4 DEF FindPage, Listing, Amount
  <2> HIDE DEF number
  <2>2. /\ listing'.of = listing.of /\ listing'.page = listing.page /\ listing'.limit = listing.limit
        /\ listing'.found = number /\ listing'.total = listing.total /\ listing'.steady = listing.steady
    BY <2>1 DEF MongoInv, IsListing
  <2>3. Used' = Used /\ Amount' = Amount
    BY <2>1, <2>2 DEF Used, Amount, Filter
  <2>4. ~Answered
    BY <2>1 DEF Answered
  <2>5. Amount \in Nat
    BY AmountIsANumber
  <2>6. Answered' <=> number # None /\ listing.total # None
    BY <2>2 DEF Answered
  <2> QED
    BY <2>1, <2>2, <2>3, <2>4, <2>5, <2>6 DEF PageInv, number
<1>5. CASE CountDocuments
  <2>1. /\ docs' = docs /\ listing' = [listing EXCEPT !.total = Amount]
        /\ listing.of # None /\ listing.total = None
    BY <1>5 DEF CountDocuments, Listing, Amount
  <2> DEFINE number == Amount
  <2>2. number \in Nat
    BY AmountIsANumber
  <2>3. listing' = [listing EXCEPT !.total = number]
    BY <2>1
  <2> HIDE DEF number
  <2>4. /\ listing'.of = listing.of /\ listing'.page = listing.page /\ listing'.limit = listing.limit
        /\ listing'.found = listing.found /\ listing'.total = number /\ listing'.steady = listing.steady
    BY <2>3 DEF MongoInv, IsListing
  <2>5. Used' = Used /\ Amount' = number
    BY <2>1, <2>4 DEF Used, Amount, Filter, number
  <2>6. ~Answered
    BY <2>1 DEF Answered
  <2>7. Answered' <=> number # None /\ listing.found # None
    BY <2>4 DEF Answered
  <2>8. number = Amount
    BY DEF number
  <2> QED
    BY <2>1, <2>2, <2>4, <2>5, <2>6, <2>7, <2>8 DEF PageInv
<1> QED
  BY <1>1, <1>2, <1>3, <1>4, <1>5 DEF MongoNext

-----------------------------------------------------------------------------
(* The arithmetic of pages. *)

LEMMA TimesIsMonotone ==
  ASSUME NEW p \in Int, NEW q \in Int, NEW l \in Nat \ {0}, p <= q
  PROVE  p * l <= q * l
<1>1. PICK d \in Nat : q = p + d
  OBVIOUS
<1>2. d * l >= 0
  OBVIOUS
<1>3. q * l = p * l + d * l
  BY <1>1
<1> QED
  BY <1>2, <1>3

\* There is a page after page p of size l exactly if p pages do not hold everything.
LEMMA PagesAfter ==
  ASSUME NEW total \in Nat, NEW l \in Nat \ {0}, NEW p \in Int
  PROVE  p < Pages(total, l) <=> p * l < total
<1> DEFINE q == (total + l - 1) \div l
<1>1. q \in Int /\ q * l <= total + l - 1 /\ total + l - 1 < q * l + l
  OBVIOUS
<1> HIDE DEF q
<1>2. (p + 1) * l = p * l + l /\ p * l \in Int /\ q * l \in Int
  BY <1>1
<1>3. ASSUME p < q PROVE p * l < total
  <2>1. p + 1 <= q
    BY <1>1, <1>3
  <2>2. (p + 1) * l <= q * l
    BY <1>1, <2>1, TimesIsMonotone
  <2> QED
    BY <1>1, <1>2, <2>2
<1>4. ASSUME ~(p < q) PROVE ~(p * l < total)
  <2>1. q * l <= p * l
    BY <1>1, <1>4, TimesIsMonotone
  <2> QED
    BY <1>1, <1>2, <2>1
<1>5. p < Pages(total, l) <=> p < q
  BY DEF Pages, q
<1> QED
  BY <1>3, <1>4, <1>5

\* The metadata announce a next page exactly if records remain after this one.
LEMMA MetadataAgree ==
  ASSUME NEW total \in Nat, NEW page \in Int, NEW limit \in Nat \ {0}
  PROVE  HasNext(total, page, limit) <=> PageSkip(page, limit) + OnPage(total, page, limit) < total
<1> DEFINE p == PageNumber(page)
           skip == (p - 1) * limit
<1>1. p \in Nat \ {0}
  BY DEF PageNumber
<1>2. PageLimit(limit) = limit /\ MetaLimit(limit) = limit
  BY DEF PageLimit, MetaLimit
<1>3. HasNext(total, page, limit) <=> p * limit < total
  BY <1>1, <1>2, PagesAfter DEF HasNext
<1>4. PageSkip(page, limit) = skip
  BY <1>2 DEF PageSkip
<1> HIDE DEF p
<1>5. skip \in Nat /\ p * limit = skip + limit
  BY <1>1
<1>6. OnPage(total, page, limit) =
        IF total - skip <= 0 THEN 0 ELSE IF total - skip < limit THEN total - skip ELSE limit
  BY <1>2, <1>4 DEF OnPage
<1> HIDE DEF skip
<1> QED
  BY <1>3, <1>4, <1>5, <1>6

\* A client knows from a page and its metadata whether records remain, for every number of
\* documents and every page it asks for (base-mongo.repository.ts, findPaginated;
\* pagination.utils.ts, createPaginationMeta).
THEOREM PagesAndMetadataAgree == MongoSpec => []PageTellsTheRest
<1>1. MongoInit => PageInv
  <2> SUFFICES ASSUME MongoInit PROVE PageInv
    OBVIOUS
  <2>1. Used = {}
    BY DEF MongoInit, Used, NoDoc
  <2>2. listing.of = None /\ ~Answered
    BY DEF MongoInit, NoListing, Answered
  <2> QED
    BY <2>1, <2>2, FS_EmptySet DEF PageInv
<1>2. PageInv => PageTellsTheRest
  <2> SUFFICES ASSUME PageInv, Answered, listing.steady, listing.limit > 0
               PROVE  HasNext(listing.total, listing.page, listing.limit) <=>
                        PageSkip(listing.page, listing.limit) + listing.found < listing.total
    BY DEF PageTellsTheRest
  <2>1. /\ listing.total \in Nat /\ listing.page \in Int /\ listing.limit \in Nat \ {0}
        /\ listing.found = OnPage(listing.total, listing.page, listing.limit)
    BY DEF PageInv
  <2> QED
    BY <2>1, MetadataAgree
<1> QED
  BY <1>1, <1>2, MongoInitInv, MongoNextInv, PageNextInv, PTL DEF MongoSpec
=============================================================================
