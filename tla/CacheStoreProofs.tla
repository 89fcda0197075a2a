-------------------------- MODULE CacheStoreProofs --------------------------
(***************************************************************************)
(* What the operators of CacheStore preserve and bound, for every set of   *)
(* keys and every capacity.                                                *)
(***************************************************************************)
EXTENDS CacheStore, TLAPS, FiniteSetTheorems, WellFoundedInduction

\* A store in use: well-typed, its keys in one order of insertion.
Good(m) == m \in Store /\ InsertionOrder(m)

LEMMA AbsentNotEntry == ASSUME NEW e \in Entry PROVE e # Absent
  BY EntryAssumption

LEMMA EmptyStoreGood == Good(EmptyStore) /\ Held(EmptyStore) = {}
  BY DEF Good, Store, EmptyStore, InsertionOrder, Held, MaybeEntry

LEMMA HeldFinite ==
  ASSUME NEW m, NEW S \in SUBSET Held(m)
  PROVE  IsFiniteSet(S) /\ IsFiniteSet(Held(m))
<1>1. Held(m) \subseteq Key
  BY DEF Held
<1> QED
  BY <1>1, KeyAssumption, FS_Subset

LEMMA SizeNat == ASSUME NEW m PROVE Size(m) \in Nat
  BY HeldFinite, FS_CardinalityType DEF Size

\* Delete takes the keys given, and nothing else.
LEMMA DeleteHeld ==
  ASSUME NEW m, m \in Store, NEW ks
  PROVE  /\ Held(Delete(m, ks)) = Held(m) \ ks
         /\ \A k \in Key \ ks : Delete(m, ks).entry[k] = m.entry[k]
  BY DEF Delete, Held, Store

LEMMA DeleteGood ==
  ASSUME NEW m, Good(m), NEW ks
  PROVE  Good(Delete(m, ks))
<1>1. Delete(m, ks) \in Store
  BY DEF Good, Store, Delete, MaybeEntry
<1>2. Held(Delete(m, ks)) = Held(m) \ ks
  BY DeleteHeld DEF Good
<1>3. Delete(m, ks).older = {p \in m.older : p[1] \notin ks /\ p[2] \notin ks}
  BY DEF Delete
<1>4. InsertionOrder(m)
  BY DEF Good
<1>5. Delete(m, ks).older \subseteq Held(Delete(m, ks)) \X Held(Delete(m, ks))
  BY <1>2, <1>3, <1>4 DEF InsertionOrder
<1>6. \A j, k \in Held(Delete(m, ks)) :
        <<j, k>> \in m.older <=> <<j, k>> \in Delete(m, ks).older
  BY <1>2, <1>3
<1>7. Held(Delete(m, ks)) \subseteq Held(m)
  BY <1>2
<1>8. InsertionOrder(Delete(m, ks))
  BY <1>4, <1>5, <1>6, <1>7 DEF InsertionOrder
<1> QED
  BY <1>1, <1>8 DEF Good

LEMMA DeleteSize ==
  ASSUME NEW m, m \in Store, NEW ks
  PROVE  Size(Delete(m, ks)) <= Size(m)
<1>1. Held(Delete(m, ks)) \subseteq Held(m)
  BY DeleteHeld
<1> QED
  BY <1>1, HeldFinite, FS_Subset DEF Size

\* Put adds the key given, after all the others if it is new.
LEMMA PutHeld ==
  ASSUME NEW m, m \in Store, NEW k \in Key, NEW e \in Entry
  PROVE  /\ Held(Put(m, k, e)) = Held(m) \cup {k}
         /\ Put(m, k, e).entry[k] = e
         /\ \A j \in Key \ {k} : Put(m, k, e).entry[j] = m.entry[j]
  BY AbsentNotEntry DEF Put, Held, Store

LEMMA PutGood ==
  ASSUME NEW m, Good(m), NEW k \in Key, NEW e \in Entry
  PROVE  Good(Put(m, k, e))
<1> DEFINE n == Put(m, k, e)
<1>1. Held(n) = Held(m) \cup {k}
  BY PutHeld DEF Good
<1>2. Held(m) \subseteq Key
  BY DEF Held
<1>3. n.older = IF k \in Held(m) THEN m.older ELSE m.older \cup (Held(m) \X {k})
  BY DEF Put
<1>4. n.entry = [m.entry EXCEPT ![k] = e]
  BY DEF Put
<1>5. n = [entry |-> n.entry, older |-> n.older]
  BY DEF Put
<1>6. n \in Store
  <2>1. n.entry \in [Key -> MaybeEntry]
    BY <1>4 DEF Good, Store, MaybeEntry
  <2>2. n.older \in SUBSET (Key \X Key)
    BY <1>2, <1>3 DEF Good, Store
  <2> QED
    BY <1>5, <2>1, <2>2 DEF Store
<1>7. InsertionOrder(m)
  BY DEF Good
<1>8. CASE k \in Held(m)
  BY <1>1, <1>3, <1>6, <1>7, <1>8 DEF InsertionOrder, Good
<1>9. CASE k \notin Held(m)
  <2>1. n.older = m.older \cup (Held(m) \X {k})
    BY <1>3, <1>9
  <2>2. m.older \subseteq Held(m) \X Held(m)
    BY <1>7 DEF InsertionOrder
  <2>3. \A i, j \in Held(m) : <<i, j>> \in n.older <=> <<i, j>> \in m.older
    BY <1>9, <2>1
  <2>4. \A i \in Held(m) : <<i, k>> \in n.older /\ <<k, i>> \notin n.older
    BY <1>9, <2>1, <2>2
  <2>5. <<k, k>> \notin n.older
    BY <1>9, <2>1, <2>2
  <2>6. n.older \subseteq Held(n) \X Held(n)
    BY <1>1, <2>1, <2>2
  <2>7. \A i \in Held(n) : <<i, i>> \notin n.older
    BY <1>1, <1>7, <2>3, <2>5 DEF InsertionOrder
  <2>8. \A i, j \in Held(n) : i # j => <<i, j>> \in n.older \/ <<j, i>> \in n.older
    BY <1>1, <1>7, <2>3, <2>4 DEF InsertionOrder
  <2>9. \A h, i, j \in Held(n) :
          <<h, i>> \in n.older /\ <<i, j>> \in n.older => <<h, j>> \in n.older
    <3> SUFFICES ASSUME NEW h \in Held(n), NEW i \in Held(n), NEW j \in Held(n),
                        <<h, i>> \in n.older, <<i, j>> \in n.older
                 PROVE  <<h, j>> \in n.older
      OBVIOUS
    <3>1. h \in Held(m) /\ i \in Held(m)
      BY <1>1, <2>4, <2>5
    <3>2. CASE j = k
      BY <2>4, <3>1, <3>2
    <3>3. CASE j # k
      <4>1. j \in Held(m)
        BY <1>1, <3>3
      <4> QED
        BY <1>7, <2>3, <3>1, <4>1 DEF InsertionOrder
    <3> QED
      BY <3>2, <3>3
  <2>10. InsertionOrder(n)
    BY <2>6, <2>7, <2>8, <2>9 DEF InsertionOrder
  <2> QED
    BY <1>6, <2>10 DEF Good
<1> QED
  BY <1>8, <1>9

LEMMA PutSize ==
  ASSUME NEW m, m \in Store, NEW k \in Key, NEW e \in Entry
  PROVE  Size(Put(m, k, e)) <= Size(m) + 1
<1>1. Held(Put(m, k, e)) = Held(m) \cup {k}
  BY PutHeld
<1>2. IsFiniteSet(Held(m))
  BY HeldFinite
<1>3. Cardinality(Held(m) \cup {k}) \in {Cardinality(Held(m)), Cardinality(Held(m)) + 1}
  BY <1>2, FS_AddElement
<1>4. Cardinality(Held(m)) \in Nat
  BY <1>2, FS_CardinalityType
<1> QED
  BY <1>1, <1>3, <1>4 DEF Size

-----------------------------------------------------------------------------
LEMMA LeastNat ==
  ASSUME NEW T \in SUBSET Nat, T # {}
  PROVE  \E n \in T : \A l \in T : n <= l
<1> DEFINE R == {p \in Nat \X Nat : p[1] < p[2]}
<1>1. IsWellFoundedOn(R, Nat)
  BY NatLessThanWellFounded DEF OpToRel
<1>2. PICK n \in T : \A l \in T : <<l, n>> \notin R
  BY <1>1, WFMin
<1>3. \A l \in T : l \in Nat /\ n \in Nat
  BY <1>2
<1>4. \A l \in T : ~ (l < n)
  BY <1>2, <1>3
<1> QED
  BY <1>2, <1>3, <1>4

\* A store with an entry has an oldest one: the key with the fewest keys before it.
LEMMA OldestExists ==
  ASSUME NEW m, Good(m), Held(m) # {}
  PROVE  Oldest(m) # {}
<1> DEFINE Before(k) == {j \in Held(m) : <<j, k>> \in m.older}
           T == {Cardinality(Before(k)) : k \in Held(m)}
<1>1. InsertionOrder(m)
  BY DEF Good
<1>2. \A k : IsFiniteSet(Before(k)) /\ Cardinality(Before(k)) \in Nat
  BY HeldFinite, FS_CardinalityType
<1>3. T \in SUBSET Nat /\ T # {}
  BY <1>2
<1>4. PICK n \in T : \A l \in T : n <= l
  BY <1>3, LeastNat
<1>5. PICK k \in Held(m) : n = Cardinality(Before(k))
  BY <1>4
<1>6. ASSUME NEW j \in Held(m), <<j, k>> \in m.older
      PROVE  FALSE
  <2>1. Before(j) \subseteq Before(k)
    BY <1>1, <1>5, <1>6 DEF InsertionOrder
  <2>2. j \in Before(k) /\ j \notin Before(j)
    BY <1>1, <1>6 DEF InsertionOrder
  <2>3. Cardinality(Before(j)) <= Cardinality(Before(k))
        /\ Cardinality(Before(j)) # Cardinality(Before(k))
    BY <1>2, <2>1, <2>2, FS_Subset
  <2>4. Cardinality(Before(k)) <= Cardinality(Before(j))
    BY <1>4, <1>5
  <2>5. Cardinality(Before(j)) \in Nat /\ Cardinality(Before(k)) \in Nat
    BY <1>2
  <2> HIDE DEF Before, T
  <2> QED
    BY <2>3, <2>4, <2>5
<1>7. k \in Oldest(m)
  BY <1>5, <1>6 DEF Oldest
<1> QED
  BY <1>7

LEMMA DeleteShrinks ==
  ASSUME NEW m, m \in Store, NEW ks, NEW k \in Held(m), k \in ks
  PROVE  Size(Delete(m, ks)) <= Size(m) - 1
<1>1. Held(Delete(m, ks)) \subseteq Held(m) \ {k}
  BY DeleteHeld
<1>2. IsFiniteSet(Held(m))
  BY HeldFinite
<1>3. IsFiniteSet(Held(m) \ {k}) /\ Cardinality(Held(m) \ {k}) = Cardinality(Held(m)) - 1
  BY <1>2, FS_RemoveElement
<1>4. Cardinality(Held(Delete(m, ks))) <= Cardinality(Held(m) \ {k})
  BY <1>1, <1>3, FS_Subset
<1> QED
  BY <1>3, <1>4 DEF Size

\* Eviction of a store that is not over its limit leaves a place free, if the limit
\* allows for any.
LEMMA EvictMakesRoom ==
  ASSUME NEW m, Good(m), NEW t, Size(m) <= MaxItems, MaxItems > 0
  PROVE  Size(Evict(m, t)) <= MaxItems - 1
<1> DEFINE s == Sweep(m, t)
<1>1. Good(s)
  BY DeleteGood DEF Sweep
<1>2. Size(s) <= Size(m)
  BY DeleteSize DEF Sweep, Good
<1>3. Size(s) \in Nat /\ Size(m) \in Nat /\ MaxItems \in Nat
  BY SizeNat, ItemsAssumption
<1>4. CASE Size(s) >= MaxItems
  <2>1. Evict(m, t) = Delete(s, Oldest(s))
    BY <1>4 DEF Evict
  <2>2. Held(s) # {}
    BY <1>3, <1>4, FS_EmptySet DEF Size
  <2>3. PICK k \in Oldest(s) : TRUE
    BY <1>1, <2>2, OldestExists
  <2>4. k \in Held(s)
    BY <2>3 DEF Oldest
  <2>5. Size(Delete(s, Oldest(s))) <= Size(s) - 1
    BY <1>1, <2>3, <2>4, DeleteShrinks DEF Good
  <2>6. Size(Delete(s, Oldest(s))) \in Nat
    BY SizeNat
  <2> QED
    BY <1>2, <1>3, <2>1, <2>5, <2>6
<1>5. CASE ~(Size(s) >= MaxItems)
  BY <1>3, <1>5 DEF Evict
<1> QED
  BY <1>4, <1>5

\* Making room only ever deletes.
LEMMA MakeRoomDeletes ==
  ASSUME NEW m, Good(m), NEW t
  PROVE  /\ Good(MakeRoom(m, t))
         /\ Held(MakeRoom(m, t)) \subseteq Held(m)
         /\ \A k \in Held(MakeRoom(m, t)) : MakeRoom(m, t).entry[k] = m.entry[k]
<1> DEFINE s == Sweep(m, t)
<1>1. m \in Store
  BY DEF Good
<1>2. Good(s) /\ Held(s) \subseteq Held(m) /\ \A k \in Held(s) : s.entry[k] = m.entry[k]
  BY <1>1, DeleteGood, DeleteHeld DEF Sweep, Held
<1>3. s \in Store
  BY <1>2 DEF Good
<1> DEFINE d == Delete(s, Oldest(s))
<1>4. Good(d) /\ Held(d) \subseteq Held(s) /\ \A k \in Held(d) : d.entry[k] = s.entry[k]
  BY <1>2, <1>3, DeleteGood, DeleteHeld DEF Held
<1>5. MakeRoom(m, t) \in {m, s, d}
  BY DEF MakeRoom, Evict
<1> QED
  BY <1>2, <1>4, <1>5

LEMMA MakeRoomSize ==
  ASSUME NEW m, Good(m), NEW t, Size(m) <= (IF MaxItems = 0 THEN 1 ELSE MaxItems)
  PROVE  /\ MaxItems > 0 => Size(MakeRoom(m, t)) <= MaxItems - 1
         /\ MaxItems = 0 => Size(MakeRoom(m, t)) <= 0
<1>1. Size(m) \in Nat /\ MaxItems \in Nat
  BY SizeNat, ItemsAssumption
<1>2. CASE MaxItems > 0
  BY <1>1, <1>2, EvictMakesRoom DEF MakeRoom
<1>3. CASE MaxItems = 0
  <2> DEFINE s == Sweep(m, t)
  <2>1. MakeRoom(m, t) = Delete(s, Oldest(s))
    BY <1>1, <1>3, SizeNat DEF MakeRoom, Evict
  <2>2. Good(s) /\ Size(s) <= Size(m) /\ Size(s) \in Nat
    BY DeleteGood, DeleteSize, SizeNat DEF Sweep, Good
  <2>3. CASE Held(s) = {}
    <3>1. Held(Delete(s, Oldest(s))) = {}
      BY <2>2, <2>3, DeleteHeld DEF Good
    <3> QED
      BY <1>3, <2>1, <3>1, FS_EmptySet DEF Size
  <2>4. CASE Held(s) # {}
    <3>1. PICK k \in Oldest(s) : TRUE
      BY <2>2, <2>4, OldestExists
    <3>2. k \in Held(s)
      BY <3>1 DEF Oldest
    <3>3. Size(Delete(s, Oldest(s))) <= Size(s) - 1
      BY <2>2, <3>1, <3>2, DeleteShrinks DEF Good
    <3> QED
      BY <1>1, <1>3, <2>1, <2>2, <3>3, SizeNat
  <2> QED
    BY <2>3, <2>4
<1> QED
  BY <1>1, <1>2, <1>3

-----------------------------------------------------------------------------
(* What the operations on a level-1 store do to it                         *)

\* Store n is store m without some keys, and with keys of ks rewritten.
Less(n, m, ks) == \A k \in Key \ ks : n.entry[k] \in {m.entry[k], Absent}

Capacity == IF MaxItems = 0 THEN 1 ELSE MaxItems

LEMMA CapacityNat == Capacity \in Nat /\ Capacity >= 1
  BY ItemsAssumption DEF Capacity

LEMMA LessHeld ==
  ASSUME NEW n, NEW m, NEW ks, Less(n, m, ks)
  PROVE  Held(n) \subseteq Held(m) \cup ks
  BY DEF Less, Held

LEMMA DeleteLess ==
  ASSUME NEW m, Good(m), NEW ks
  PROVE  /\ Good(Delete(m, ks)) /\ Size(Delete(m, ks)) <= Size(m)
         /\ Less(Delete(m, ks), m, {})
         /\ Held(Delete(m, ks)) = Held(m) \ ks
<1>1. m \in Store
  BY DEF Good
<1>2. Less(Delete(m, ks), m, {})
  BY DEF Less, Delete
<1> QED
  BY <1>1, <1>2, DeleteGood, DeleteSize, DeleteHeld

LEMMA LookupLess ==
  ASSUME NEW m, Good(m), NEW k \in Key, NEW t
  PROVE  /\ Good(Lookup(m, k, t)) /\ Size(Lookup(m, k, t)) <= Size(m)
         /\ Less(Lookup(m, k, t), m, {})
<1>1. CASE Fresh(m, k, t)
  <2>1. Size(m) \in Nat
    BY SizeNat
  <2> QED
    BY <1>1, <2>1 DEF Lookup, Less
<1>2. CASE ~Fresh(m, k, t)
  BY <1>2, DeleteLess DEF Lookup
<1> QED
  BY <1>1, <1>2

LEMMA DeadlineNat ==
  ASSUME NEW t \in Nat, NEW ttl \in Nat \cup {NoTtl}
  PROVE  Deadline(ttl, t) \in Nat
<1>1. Second \in Nat
  BY SecondAssumption
<1>2. CASE ttl > 0
  <2>1. ttl * Second \in Nat
    BY <1>1, <1>2 DEF NoTtl
  <2> QED
    BY <1>2, <2>1 DEF Deadline
<1>3. CASE ~(ttl > 0)
  BY <1>3 DEF Deadline, Never
<1> QED
  BY <1>2, <1>3

LEMMA MemorySetEntry ==
  ASSUME NEW m, Good(m), NEW k \in Key, NEW d \in Data, NEW ttl \in Nat \cup {NoTtl},
         NEW t \in Nat
  PROVE  \E r, e : /\ MemorySet(m, k, d, ttl, t) = Put(r, k, e) /\ r = MakeRoom(m, t)
                   /\ Good(r) /\ Less(r, m, {}) /\ e \in Entry /\ e.data = d
<1>1. PICK r : r = MakeRoom(m, t)
  OBVIOUS
<1>2. PICK e : e = [data |-> d, exp |-> Deadline(IF ttl = NoTtl THEN DefaultTtl ELSE ttl, t)]
  OBVIOUS
<1>3. MemorySet(m, k, d, ttl, t) = Put(r, k, e)
  BY <1>1, <1>2 DEF MemorySet
<1>4. e \in Entry /\ e.data = d
  BY <1>2, DeadlineNat, TtlAssumption DEF Entry
<1>5. Good(r) /\ Less(r, m, {})
  <2>1. Good(r) /\ Held(r) \subseteq Held(m) /\ \A j \in Held(r) : r.entry[j] = m.entry[j]
    BY <1>1, MakeRoomDeletes
  <2> QED
    BY <2>1 DEF Good, Less, Held, Store
<1> QED
  BY <1>1, <1>3, <1>4, <1>5

LEMMA MemorySetLess ==
  ASSUME NEW m, Good(m), NEW k \in Key, NEW d \in Data, NEW ttl \in Nat \cup {NoTtl},
         NEW t \in Nat
  PROVE  /\ Good(MemorySet(m, k, d, ttl, t))
         /\ Size(m) <= Capacity => Size(MemorySet(m, k, d, ttl, t)) <= Capacity
         /\ Less(MemorySet(m, k, d, ttl, t), m, {k})
<1>1. PICK r, e : /\ MemorySet(m, k, d, ttl, t) = Put(r, k, e) /\ r = MakeRoom(m, t)
                  /\ Good(r) /\ Less(r, m, {}) /\ e \in Entry
  BY MemorySetEntry
<1>2. r \in Store
  BY <1>1 DEF Good
<1>3. Good(Put(r, k, e)) /\ \A j \in Key \ {k} : Put(r, k, e).entry[j] = r.entry[j]
  BY <1>1, <1>2, PutGood, PutHeld
<1>4. Less(Put(r, k, e), m, {k})
  BY <1>1, <1>3 DEF Less
<1>5. ASSUME Size(m) <= Capacity
      PROVE  Size(Put(r, k, e)) <= Capacity
  <2>1. Size(Put(r, k, e)) <= Size(r) + 1
    BY <1>1, <1>2, PutSize
  <2>2. (MaxItems > 0 => Size(r) <= MaxItems - 1) /\ (MaxItems = 0 => Size(r) <= 0)
    BY <1>1, <1>5, MakeRoomSize DEF Capacity
  <2>3. Size(r) \in Nat /\ Size(Put(r, k, e)) \in Nat /\ MaxItems \in Nat
    BY SizeNat, ItemsAssumption
  <2> QED
    BY <2>1, <2>2, <2>3 DEF Capacity
<1> QED
  BY <1>1, <1>3, <1>4, <1>5

LEMMA MemorySetData ==
  ASSUME NEW m, Good(m), NEW k \in Key, NEW d \in Data, NEW ttl \in Nat \cup {NoTtl},
         NEW t \in Nat
  PROVE  MemorySet(m, k, d, ttl, t).entry[k].data = d
<1>1. PICK r, e : /\ MemorySet(m, k, d, ttl, t) = Put(r, k, e)
                  /\ Good(r) /\ e \in Entry /\ e.data = d
  BY MemorySetEntry
<1>2. Put(r, k, e).entry[k] = e
  BY <1>1, PutHeld DEF Good
<1> QED
  BY <1>1, <1>2
=============================================================================
