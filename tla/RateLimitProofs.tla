-------------------------- MODULE RateLimitProofs --------------------------
(***************************************************************************)
(* Theorems of RateLimit, for every number of instances, requests and      *)
(* clients, every limit and window and every capacity of the level-1       *)
(* stores.                                                                 *)
(*                                                                         *)
(* A request changes what is stored for its own client only, so the        *)
(* invariants are stated client by client: every record that is anywhere   *)
(* in the system was earned, and as long as nothing disturbs a client the  *)
(* record that counts for it is the latest one, wherever it is read.       *)
(***************************************************************************)
EXTENDS RateLimit, CacheStoreProofs

State == [at : Stage, on : Instance \cup {Absent}, client : SUBSET Key,
          rec : Record \cup {Absent}, ttl : Nat]

InRequest(q) ==
  IF q.at = "idle" THEN q = Idle
  ELSE /\ q.on \in Instance
       /\ \E k \in Key : q.client = {k}
       /\ q.at \in {"missed", "getting"} => q.rec = Absent
       /\ q.at = "setting" => q.rec # Absent

Requests ==
  /\ req \in [Request -> State]
  /\ \A r \in Request : InRequest(req[r])

Levels ==
  /\ clock \in Nat \ {0} /\ clock <= MaxClock
  /\ l1 \in [Instance -> Store]
  /\ \A i \in Instance : Good(l1[i])
  /\ l2 \in [Key -> MaybeEntry]

Grants == grants \in [Key -> [1..Horizon -> Nat]] /\ disturbed \subseteq Key

Frame == Requests /\ Levels /\ Grants

-----------------------------------------------------------------------------
(* Windows, states and records                                             *)

Span == Window * Second

LEMMA SpanNat == Span \in Nat /\ Span > 0 /\ Horizon = MaxClock + Span /\ Horizon \in Nat
<1>1. Window \in Nat /\ Second \in Nat /\ Window > 0 /\ Second > 0 /\ MaxClock \in Nat
  BY LimitAssumption, SecondAssumption, BoundsAssumption
<1>2. Window * Second \in Nat /\ Window * Second > 0
  BY <1>1
<1> QED
  BY <1>1, <1>2 DEF Span, Horizon

LEMMA RecordTyped ==
  ASSUME NEW rec \in Record
  PROVE  /\ rec.count \in 1..Limit /\ rec.until \in 1..Horizon /\ rec # Absent
         /\ rec.count \in Nat /\ rec.count > 0 /\ rec.until \in Nat /\ rec \in Data
<1>1. rec.count \in 1..Limit /\ rec.until \in 1..Horizon
  BY DEF Record
<1>2. rec \in Data /\ rec # Absent
  BY RecordAssumption, DataAssumption
<1> QED
  BY <1>1, <1>2, LimitAssumption, SpanNat

LEMMA IdleTyped == Idle \in State /\ InRequest(Idle) /\ Idle.at = "idle" /\ Idle.client = {}
                   /\ Idle.rec = Absent
  BY DEF Idle, State, Stage, InRequest

LEMMA StateFields ==
  ASSUME NEW q \in State
  PROVE  /\ q.at \in Stage /\ q.on \in Instance \cup {Absent} /\ q.client \in SUBSET Key
         /\ q.rec \in Record \cup {Absent} /\ q.ttl \in Nat
         /\ DOMAIN q = {"at", "on", "client", "rec", "ttl"}
  BY DEF State

LEMMA StateAt ==
  ASSUME NEW q \in State, NEW a \in Stage, NEW p, p = [q EXCEPT !.at = a]
  PROVE  /\ p \in State /\ p.at = a /\ p.on = q.on /\ p.client = q.client
         /\ p.rec = q.rec /\ p.ttl = q.ttl
<1>1. p \in State
  BY DEF State
<1> QED
  BY <1>1, StateFields

LEMMA StateRec ==
  ASSUME NEW q \in State, NEW rec \in Record \cup {Absent}, NEW p, p = [q EXCEPT !.rec = rec]
  PROVE  /\ p \in State /\ p.at = q.at /\ p.on = q.on /\ p.client = q.client
         /\ p.rec = rec /\ p.ttl = q.ttl
<1>1. p \in State
  BY DEF State
<1> QED
  BY <1>1, StateFields

LEMMA StateTtl ==
  ASSUME NEW q \in State, NEW ttl \in Nat, NEW p, p = [q EXCEPT !.ttl = ttl]
  PROVE  /\ p \in State /\ p.at = q.at /\ p.on = q.on /\ p.client = q.client
         /\ p.rec = q.rec /\ p.ttl = ttl
<1>1. p \in State
  BY DEF State
<1> QED
  BY <1>1, StateFields

\* A request under way has one client.
LEMMA ClientIs ==
  ASSUME Frame, NEW r \in Request, req[r].at # "idle"
  PROVE  \E k \in Key : Client(r) = k /\ req[r].client = {k} /\ On(r) \in Instance
<1>1. PICK k \in Key : req[r].client = {k} /\ On(r) \in Instance
  BY DEF Frame, Requests, InRequest, On
<1>2. Client(r) = k
  BY <1>1 DEF Client
<1> QED
  BY <1>1, <1>2

-----------------------------------------------------------------------------
(* What a request's steps have in common: they touch one client's data     *)

Others(r) == \A o \in Request \ {r} : req'[o] = req[o]

\* Request r moves to state q; nothing of other clients than k is written.
Step(r, k, q) ==
  /\ req[r].client \subseteq {k} /\ q.client \subseteq {k}
  /\ req'[r] = q /\ Others(r)
  /\ clock' = clock
  /\ disturbed \subseteq disturbed'
  /\ \A i \in Instance : Less(l1'[i], l1[i], {k})
  /\ \A j \in Key \ {k} : l2'[j] = l2[j] /\ grants'[j] = grants[j]

\* Level 1 has of client k what it had, or record rec.
Keeps(k, rec) ==
  \A i \in Instance : \/ l1'[i].entry[k] \in {l1[i].entry[k], Absent}
                      \/ l1'[i].entry[k].data = rec

LEMMA RequestsMove ==
  ASSUME Requests, NEW r \in Request, NEW q \in State, InRequest(q),
         req' = [req EXCEPT ![r] = q]
  PROVE  Requests' /\ req'[r] = q /\ Others(r)
<1>1. req' \in [Request -> State] /\ req'[r] = q
  BY DEF Requests
<1>2. \A o \in Request \ {r} : req'[o] = req[o]
  BY DEF Requests
<1>3. \A o \in Request : InRequest(req'[o])
  BY <1>1, <1>2 DEF Requests
<1> QED
  BY <1>1, <1>2, <1>3 DEF Requests, Others

\* Instance i replaces its store.
LEMMA LevelsMove ==
  ASSUME Levels, NEW i \in Instance, NEW m, Good(m), l1' = [l1 EXCEPT ![i] = m],
         clock' = clock, l2' = l2
  PROVE  Levels' /\ l1'[i] = m /\ \A j \in Instance \ {i} : l1'[j] = l1[j]
<1>1. m \in Store
  BY DEF Good
<1>2. l1' \in [Instance -> Store] /\ l1'[i] = m /\ \A j \in Instance \ {i} : l1'[j] = l1[j]
  BY <1>1 DEF Levels
<1>3. \A j \in Instance : Good(l1'[j])
  BY <1>2 DEF Levels
<1> QED
  BY <1>2, <1>3 DEF Levels

\* Instance i stores record rec for client k.
LEMMA LevelsSet ==
  ASSUME Levels, NEW i \in Instance, NEW k \in Key, NEW rec \in Record,
         NEW ttl \in Nat \cup {NoTtl},
         l1' = [l1 EXCEPT ![i] = MemorySet(@, k, rec, ttl, clock)],
         clock' = clock, l2' = l2
  PROVE  /\ Levels' /\ \A j \in Instance : Less(l1'[j], l1[j], {k})
         /\ l1'[i].entry[k].data = rec /\ \A j \in Instance \ {i} : l1'[j] = l1[j]
<1>1. PICK s : s = l1[i]
  OBVIOUS
<1>2. PICK t \in Nat : t = clock
  BY DEF Levels
<1>3. PICK m : m = MemorySet(s, k, rec, ttl, t)
  OBVIOUS
<1>4. Good(s) /\ rec \in Data
  BY <1>1, RecordTyped DEF Levels
<1>5. Good(m) /\ Less(m, s, {k})
  BY <1>3, <1>4, MemorySetLess
<1>6. m.entry[k].data = rec
  BY <1>3, <1>4, MemorySetData
<1>7. l1' = [l1 EXCEPT ![i] = m]
  BY <1>1, <1>2, <1>3
<1>8. Levels' /\ l1'[i] = m /\ \A j \in Instance \ {i} : l1'[j] = l1[j]
  BY <1>5, <1>7, LevelsMove
<1>9. \A j \in Instance : Less(l1'[j], l1[j], {k})
  BY <1>1, <1>5, <1>8 DEF Less
<1> QED
  BY <1>6, <1>8, <1>9

LEMMA LevelsStay ==
  ASSUME Levels, l1' = l1, clock' = clock, NEW k \in Key, NEW rec
  PROVE  (\A j \in Instance : Less(l1'[j], l1[j], {k})) /\ Keeps(k, rec)
  BY DEF Less, Keeps

-----------------------------------------------------------------------------
(* The steps that only read, or only move a request                        *)

\* Nothing is granted, and Redis is not written.
Quiet == l2' = l2 /\ grants' = grants

ArriveDoes(r, i, k, q) ==
  /\ Frame' /\ Step(r, k, q) /\ Quiet /\ req[r] = Idle
  /\ disturbed' = disturbed \cup Overlap(k)
  /\ q.client = {k}
  /\ \/ q.at = "missed" /\ q.rec = Absent
     \/ q.at = "read" /\ Fresh(l1[i], k, clock) /\ q.rec = l1[i].entry[k].data
  /\ Keeps(k, Absent)

LEMMA ArriveFrame ==
  ASSUME Frame, NEW r \in Request, NEW i \in Instance, NEW k \in Key, Arrive(r, i, k)
  PROVE  \E q : ArriveDoes(r, i, k, q)
<1>1. PICK w : w = [Idle EXCEPT !.on = i, !.client = {k}]
  OBVIOUS
<1>2. w \in State /\ w.on = i /\ w.client = {k} /\ w.rec = Absent
  BY <1>1 DEF Idle, State, Stage
<1>3. PICK d : d = l1[i].entry[k].data
  OBVIOUS
<1>4. Fresh(l1[i], k, clock) => d \in Record
  BY <1>3, RecordAssumption DEF Fresh, Frame, Levels, Store, MaybeEntry, Entry
<1>5. PICK q : q = req'[r]
  OBVIOUS
<1>6. req' = [req EXCEPT ![r] = q]
  BY <1>5 DEF Arrive, Frame, Requests
<1>7. /\ q \in State /\ q.on = i /\ q.client = {k}
      /\ \/ q.at = "missed" /\ q.rec = Absent
         \/ q.at = "read" /\ Fresh(l1[i], k, clock) /\ q.rec = d
  <2>1. CASE Fresh(l1[i], k, clock)
    <3>1. q = [w EXCEPT !.at = "read", !.rec = d]
      BY <1>1, <1>3, <1>5, <2>1 DEF Arrive, Frame, Requests
    <3>2. PICK a : a = [w EXCEPT !.at = "read"]
      OBVIOUS
    <3>3. "read" \in Stage
      BY DEF Stage
    <3>4. a \in State /\ a.at = "read" /\ a.on = i /\ a.client = {k}
      BY <1>2, <3>2, <3>3, StateAt
    <3>5. q = [a EXCEPT !.rec = d]
      <4>1. DOMAIN w = {"at", "on", "client", "rec", "ttl"}
        BY <1>2, StateFields
      <4> QED
        BY <3>1, <3>2, <4>1
    <3>6. q \in State /\ q.at = "read" /\ q.on = i /\ q.client = {k} /\ q.rec = d
      BY <1>4, <2>1, <3>4, <3>5, StateRec
    <3> QED
      BY <2>1, <3>6
  <2>2. CASE ~Fresh(l1[i], k, clock)
    <3>1. q = [w EXCEPT !.at = "missed"]
      BY <1>1, <1>5, <2>2 DEF Arrive, Frame, Requests
    <3>2. "missed" \in Stage
      BY DEF Stage
    <3> QED
      BY <1>2, <3>1, <3>2, StateAt
  <2> QED
    BY <2>1, <2>2
<1>8. InRequest(q)
  BY <1>7 DEF InRequest
<1>9. Requests' /\ req'[r] = q /\ Others(r)
  BY <1>6, <1>7, <1>8, RequestsMove DEF Frame
<1>10. PICK m : m = Lookup(l1[i], k, clock)
  OBVIOUS
<1>11. Good(m) /\ Less(m, l1[i], {})
  BY <1>10, LookupLess DEF Frame, Levels
<1>12. Levels' /\ l1'[i] = m /\ \A j \in Instance \ {i} : l1'[j] = l1[j]
  BY <1>10, <1>11, LevelsMove DEF Arrive, Frame
<1>13. \A j \in Instance : Less(l1'[j], l1[j], {})
  BY <1>11, <1>12 DEF Less
<1>14. (\A j \in Instance : Less(l1'[j], l1[j], {k})) /\ Keeps(k, Absent)
  BY <1>13 DEF Less, Keeps
<1>15. disturbed' = disturbed \cup Overlap(k) /\ Quiet /\ clock' = clock
  BY DEF Arrive, Quiet
<1>16. Grants'
  BY <1>15 DEF Quiet, Overlap, Frame, Grants
<1>17. req[r] = Idle
  BY DEF Arrive, Frame, Requests, InRequest
<1>18. Step(r, k, q)
  BY <1>7, <1>9, <1>14, <1>15, <1>17, IdleTyped DEF Step, Quiet
<1> QED
  BY <1>3, <1>7, <1>9, <1>12, <1>14, <1>15, <1>16, <1>17, <1>18 DEF ArriveDoes, Frame

\* A request under way for client k moves on; Frame' but for the state of Redis.
LEMMA MoveOn ==
  ASSUME Frame, NEW r \in Request, NEW k \in Key, req[r].client = {k}, NEW q \in State,
         InRequest(q), q.client \subseteq {k}, req' = [req EXCEPT ![r] = q],
         l1' = l1, clock' = clock, grants' = grants, disturbed \subseteq disturbed',
         disturbed' \subseteq disturbed \cup {k}, l2' \in [Key -> MaybeEntry],
         \A j \in Key \ {k} : l2'[j] = l2[j], NEW rec
  PROVE  Frame' /\ Step(r, k, q) /\ Keeps(k, rec)
<1>1. Requests' /\ req'[r] = q /\ Others(r)
  BY RequestsMove DEF Frame
<1>2. Levels' /\ Grants'
  BY DEF Frame, Levels, Grants
<1>3. (\A j \in Instance : Less(l1'[j], l1[j], {k})) /\ Keeps(k, rec)
  BY LevelsStay DEF Frame
<1> QED
  BY <1>1, <1>2, <1>3 DEF Step, Frame

SendGetDoes(r, k, q) ==
  /\ Frame' /\ Step(r, k, q) /\ Quiet /\ req[r].client = {k} /\ disturbed' = disturbed
  /\ q.client = {k} /\ q.at = "getting" /\ q.rec = Absent /\ req[r].at = "missed"
  /\ Keeps(k, Absent)

LEMMA SendGetFrame ==
  ASSUME Frame, NEW r \in Request, SendGet(r)
  PROVE  \E k \in Key : \E q : SendGetDoes(r, k, q)
<1>1. PICK k \in Key : Client(r) = k /\ req[r].client = {k} /\ On(r) \in Instance
  BY ClientIs DEF SendGet
<1>2. PICK w \in State : w = req[r]
  BY DEF Frame, Requests
<1>3. PICK q : q = [w EXCEPT !.at = "getting"]
  OBVIOUS
<1>4. w.at = "missed" /\ w.rec = Absent /\ w.on \in Instance /\ w.client = {k}
  BY <1>1, <1>2 DEF SendGet, On, Frame, Requests, InRequest
<1>5. q \in State /\ q.at = "getting" /\ q.on = w.on /\ q.client = {k} /\ q.rec = Absent
  <2>1. "getting" \in Stage
    BY DEF Stage
  <2> QED
    BY <1>3, <1>4, <2>1, StateAt
<1>6. InRequest(q)
  BY <1>4, <1>5 DEF InRequest
<1>7. req' = [req EXCEPT ![r] = q]
  BY <1>2, <1>3 DEF SendGet, Frame, Requests
<1>8. Frame' /\ Step(r, k, q) /\ Keeps(k, Absent)
  <2>1. /\ l1' = l1 /\ l2' = l2 /\ clock' = clock /\ grants' = grants
        /\ disturbed' = disturbed
    BY DEF SendGet
  <2>2. l2' \in [Key -> MaybeEntry]
    BY <2>1 DEF Frame, Levels
  <2> QED
    BY <1>1, <1>5, <1>6, <1>7, <2>1, <2>2, MoveOn
<1> QED
  BY <1>1, <1>2, <1>4, <1>5, <1>8 DEF SendGetDoes, SendGet, Quiet

HydrateDoes(r, k, q) ==
  /\ Frame' /\ Step(r, k, q) /\ Quiet /\ req[r].client = {k} /\ disturbed' = disturbed
  /\ q.client = {k} /\ q.at = "read" /\ q.rec = req[r].rec /\ req[r].at = "replied"
  /\ Keeps(k, req[r].rec)

LEMMA HydrateFrame ==
  ASSUME Frame, NEW r \in Request, Hydrate(r)
  PROVE  \E k \in Key : \E q : HydrateDoes(r, k, q)
<1>1. PICK k \in Key : Client(r) = k /\ req[r].client = {k} /\ On(r) \in Instance
  BY ClientIs DEF Hydrate
<1>2. PICK w \in State : w = req[r]
  BY DEF Frame, Requests
<1>3. PICK q : q = [w EXCEPT !.at = "read"]
  OBVIOUS
<1>4. w.at = "replied" /\ w.on \in Instance /\ w.client = {k}
  BY <1>1, <1>2 DEF Hydrate, On
<1>5. q \in State /\ q.at = "read" /\ q.on = w.on /\ q.client = {k} /\ q.rec = w.rec
  <2>1. "read" \in Stage
    BY DEF Stage
  <2> QED
    BY <1>3, <1>4, <2>1, StateAt
<1>6. InRequest(q)
  BY <1>4, <1>5 DEF InRequest
<1>7. req' = [req EXCEPT ![r] = q]
  BY <1>2, <1>3 DEF Hydrate, Frame, Requests
<1>8. /\ l2' = l2 /\ clock' = clock /\ grants' = grants /\ disturbed' = disturbed
  BY DEF Hydrate
<1>9. Requests' /\ req'[r] = q /\ Others(r)
  BY <1>5, <1>6, <1>7, RequestsMove DEF Frame
<1>10. /\ Levels' /\ \A j \in Instance : Less(l1'[j], l1[j], {k})
       /\ Keeps(k, w.rec)
  <2>1. CASE w.rec = Absent
    <3>1. l1' = l1
      BY <1>2, <2>1 DEF Hydrate
    <3> QED
      BY <1>8, <3>1, LevelsStay DEF Frame, Levels
  <2>2. CASE w.rec # Absent
    <3>1. PICK rec \in Record : rec = w.rec
      BY <2>2, StateFields
    <3>2. PICK i \in Instance : i = On(r)
      BY <1>1
    <3>3. PICK ttl \in Nat \cup {NoTtl} : ttl = NoTtl
      OBVIOUS
    <3>4. l1' = [l1 EXCEPT ![i] = MemorySet(@, k, rec, ttl, clock)]
      BY <1>1, <1>2, <2>2, <3>1, <3>2, <3>3 DEF Hydrate
    <3>5. /\ Levels' /\ \A j \in Instance : Less(l1'[j], l1[j], {k})
          /\ l1'[i].entry[k].data = rec /\ \A j \in Instance \ {i} : l1'[j] = l1[j]
      BY <1>8, <3>4, LevelsSet DEF Frame
    <3> QED
      BY <3>1, <3>5 DEF Keeps
  <2> QED
    BY <2>1, <2>2
<1>11. Step(r, k, q)
  BY <1>1, <1>5, <1>8, <1>9, <1>10 DEF Step
<1>12. Frame'
  BY <1>8, <1>9, <1>10 DEF Frame, Grants
<1> QED
  BY <1>1, <1>2, <1>4, <1>5, <1>8, <1>10, <1>11, <1>12 DEF HydrateDoes, Quiet

\* The request is over.
EndDoes(r, k, q) ==
  /\ Frame' /\ Step(r, k, q) /\ grants' = grants /\ req[r].client = {k}
  /\ q = Idle /\ disturbed' \in {disturbed, disturbed \cup {k}} /\ Keeps(k, Absent)

LEMMA RefuseFrame ==
  ASSUME Frame, NEW r \in Request, Refuse(r)
  PROVE  \E k \in Key : \E q : /\ EndDoes(r, k, q) /\ Quiet /\ disturbed' = disturbed
                           /\ req[r].at # "setting"
<1>1. PICK k \in Key : Client(r) = k /\ req[r].client = {k} /\ On(r) \in Instance
  BY ClientIs DEF Refuse, Decides
<1>2. PICK q : q = Idle
  OBVIOUS
<1>3. q \in State /\ InRequest(q) /\ q.client = {}
  BY <1>2, IdleTyped
<1>4. /\ req' = [req EXCEPT ![r] = q]
      /\ l1' = l1 /\ l2' = l2 /\ clock' = clock /\ grants' = grants /\ disturbed' = disturbed
  BY <1>2 DEF Refuse
<1>5. l2' \in [Key -> MaybeEntry]
  BY <1>4 DEF Frame, Levels
<1>6. Frame' /\ Step(r, k, q) /\ Keeps(k, Absent)
  BY <1>1, <1>3, <1>4, <1>5, MoveOn
<1> QED
  BY <1>1, <1>2, <1>4, <1>6 DEF EndDoes, Quiet, Refuse, Decides

ReadDoes(r, k, q) ==
  /\ Frame' /\ Step(r, k, q) /\ Quiet /\ req[r].client = {k} /\ disturbed' = disturbed
  /\ q.client = {k} /\ q.at = "replied" /\ q.rec = RedisGet(l2, k, clock)
  /\ req[r].at = "getting"
  /\ Keeps(k, Absent)

LEMMA RedisReadsFrame ==
  ASSUME Frame, NEW r \in Request, RedisReads(r)
  PROVE  \E k \in Key : \E q : ReadDoes(r, k, q)
<1>1. PICK k \in Key : Client(r) = k /\ req[r].client = {k} /\ On(r) \in Instance
  BY ClientIs DEF RedisReads, Pop
<1>2. PICK w \in State : w = req[r]
  BY DEF Frame, Requests
<1>3. PICK d : d = RedisGet(l2, k, clock)
  OBVIOUS
<1>4. d \in Record \cup {Absent}
  BY <1>3, RecordAssumption DEF RedisGet, Frame, Levels, MaybeEntry, Entry
<1>5. w.at = "getting" /\ w.on \in Instance /\ w.client = {k}
  BY <1>1, <1>2 DEF RedisReads, Pop, On
<1>6. PICK a : a = [w EXCEPT !.at = "replied"]
  OBVIOUS
<1>7. PICK q : q = [a EXCEPT !.rec = d]
  OBVIOUS
<1>8. q \in State /\ q.at = "replied" /\ q.on = w.on /\ q.client = {k} /\ q.rec = d
  <2>1. "replied" \in Stage
    BY DEF Stage
  <2>2. a \in State /\ a.at = "replied" /\ a.on = w.on /\ a.client = {k}
    BY <1>5, <1>6, <2>1, StateAt
  <2> QED
    BY <1>4, <1>7, <2>2, StateRec
<1>9. InRequest(q)
  BY <1>5, <1>8 DEF InRequest
<1>10. req' = [req EXCEPT ![r] = q]
  <2>1. q = [w EXCEPT !.at = "replied", !.rec = d]
    <3>1. DOMAIN w = {"at", "on", "client", "rec", "ttl"}
      BY StateFields
    <3> QED
      BY <1>6, <1>7, <3>1
  <2>2. req' = [req EXCEPT ![r] = [w EXCEPT !.at = "replied", !.rec = d]]
    BY <1>1, <1>2, <1>3 DEF RedisReads, Frame, Requests
  <2> QED
    BY <2>1, <2>2
<1>11. /\ l1' = l1 /\ l2' = l2 /\ clock' = clock /\ grants' = grants
       /\ disturbed' = disturbed
  BY DEF RedisReads, Pop
<1>12. l2' \in [Key -> MaybeEntry]
  BY <1>11 DEF Frame, Levels
<1>13. Frame' /\ Step(r, k, q) /\ Keeps(k, Absent)
  BY <1>1, <1>8, <1>9, <1>10, <1>11, <1>12, MoveOn
<1> QED
  BY <1>1, <1>2, <1>3, <1>5, <1>8, <1>11, <1>13 DEF ReadDoes, Quiet

\* Redis stores the record of request r, or the command fails.
WriteDoes(r, k, q) ==
  /\ EndDoes(r, k, q) /\ req[r].at = "setting" /\ disturbed' = disturbed
  /\ req[r].rec # Absent
  /\ l2'[k] = [data |-> req[r].rec, exp |-> Deadline(req[r].ttl, clock)]

LEMMA RedisWritesFrame ==
  ASSUME Frame, NEW r \in Request, RedisWrites(r)
  PROVE  \E k \in Key : \E q : WriteDoes(r, k, q)
<1>1. PICK k \in Key : Client(r) = k /\ req[r].client = {k} /\ On(r) \in Instance
  BY ClientIs DEF RedisWrites, Pop
<1>2. PICK q : q = Idle
  OBVIOUS
<1>3. q \in State /\ InRequest(q) /\ q.client = {}
  BY <1>2, IdleTyped
<1>4. PICK w \in State : w = req[r]
  BY DEF Frame, Requests
<1>5. w.rec \in Record /\ w.ttl \in Nat
  BY <1>4, StateFields DEF RedisWrites, Pop, Frame, Requests, InRequest
<1>6. PICK e : e = [data |-> w.rec, exp |-> Deadline(w.ttl, clock)]
  OBVIOUS
<1>7. e \in MaybeEntry
  <2>1. Deadline(w.ttl, clock) \in Nat
    BY <1>5, DeadlineNat DEF Frame, Levels
  <2> QED
    BY <1>5, <1>6, <2>1, RecordAssumption DEF MaybeEntry, Entry
<1>8. l2' = [l2 EXCEPT ![k] = e]
  BY <1>1, <1>4, <1>6 DEF RedisWrites, RedisSet
<1>9. l2' \in [Key -> MaybeEntry] /\ l2'[k] = e /\ \A j \in Key \ {k} : l2'[j] = l2[j]
  BY <1>7, <1>8 DEF Frame, Levels
<1>10. /\ req' = [req EXCEPT ![r] = q]
       /\ l1' = l1 /\ clock' = clock /\ grants' = grants /\ disturbed' = disturbed
  BY <1>2 DEF RedisWrites, Pop
<1>11. Frame' /\ Step(r, k, q) /\ Keeps(k, Absent)
  BY <1>1, <1>3, <1>9, <1>10, MoveOn
<1>12. req[r].at = "setting" /\ req[r].rec # Absent
  BY <1>4, <1>5, RecordTyped DEF RedisWrites, Pop
<1> QED
  BY <1>1, <1>2, <1>4, <1>6, <1>9, <1>10, <1>11, <1>12 DEF WriteDoes, EndDoes

FailDoes(r, k, q) ==
  /\ Frame' /\ Step(r, k, q) /\ Quiet /\ req[r].client = {k}
  /\ disturbed' = disturbed \cup {k}
  /\ q = Idle \/ (q.rec = Absent /\ q.at # "setting")
  /\ Keeps(k, Absent)

LEMMA CommandFailsFrame ==
  ASSUME Frame, NEW r \in Request, CommandFails(r)
  PROVE  \E k \in Key : \E q : FailDoes(r, k, q)
<1>1. PICK k \in Key : Client(r) = k /\ req[r].client = {k} /\ On(r) \in Instance
  BY ClientIs DEF CommandFails, Pop
<1>2. PICK w \in State : w = req[r]
  BY DEF Frame, Requests
<1>3. /\ l1' = l1 /\ l2' = l2 /\ clock' = clock /\ grants' = grants
      /\ disturbed' = disturbed \cup {k}
  BY <1>1 DEF CommandFails, Pop
<1>4. l2' \in [Key -> MaybeEntry]
  BY <1>3 DEF Frame, Levels
<1>5. \E q \in State : /\ InRequest(q) /\ q.client \subseteq {k} /\ req' = [req EXCEPT ![r] = q]
                       /\ q = Idle \/ (q.rec = Absent /\ q.at # "setting")
  <2>1. CASE Pop(r, "getting") /\ req' = [req EXCEPT ![r].at = "replied"]
    <3>1. PICK q : q = [w EXCEPT !.at = "replied"]
      OBVIOUS
    <3>2. w.at = "getting" /\ w.rec = Absent /\ w.on \in Instance /\ w.client = {k}
      BY <1>1, <1>2, <2>1 DEF Pop, On, Frame, Requests, InRequest
    <3>3. q \in State /\ q.at = "replied" /\ q.on = w.on /\ q.client = {k} /\ q.rec = Absent
      <4>1. "replied" \in Stage
        BY DEF Stage
      <4> QED
        BY <3>1, <3>2, <4>1, StateAt
    <3>4. InRequest(q)
      BY <3>2, <3>3 DEF InRequest
    <3>5. req' = [req EXCEPT ![r] = q]
      BY <1>2, <2>1, <3>1 DEF Frame, Requests
    <3> QED
      BY <3>3, <3>4, <3>5
  <2>2. CASE Pop(r, "setting") /\ req' = [req EXCEPT ![r] = Idle]
    BY <2>2, IdleTyped
  <2> QED
    BY <2>1, <2>2 DEF CommandFails
<1>6. PICK q \in State :
        /\ InRequest(q) /\ q.client \subseteq {k} /\ req' = [req EXCEPT ![r] = q]
        /\ q = Idle \/ (q.rec = Absent /\ q.at # "setting")
  BY <1>5
<1>7. Frame' /\ Step(r, k, q) /\ Keeps(k, Absent)
  BY <1>1, <1>3, <1>4, <1>6, MoveOn
<1> QED
  BY <1>1, <1>3, <1>6, <1>7 DEF FailDoes, Quiet

-----------------------------------------------------------------------------
(* The guard admits a request                                              *)

AdmitDoes(r, k, q, rec, ttl) ==
  /\ Frame' /\ Step(r, k, q) /\ l2' = l2 /\ req[r].client = {k} /\ q.client = {k}
  /\ req[r].at = "read" /\ On(r) \in Instance
  /\ q.at = "setting" /\ q.rec = rec /\ q.ttl = ttl
  /\ l1'[On(r)].entry[k].data = rec
  /\ \A j \in Instance \ {On(r)} : l1'[j] = l1[j]
  /\ grants'[k][rec.until] = grants[k][rec.until] + 1
  /\ \A u \in 1..Horizon : u # rec.until => grants'[k][u] = grants[k][u]
  /\ disturbed' = disturbed \cup Drift(On(r), k)

LEMMA AdmitFrame ==
  ASSUME Frame, NEW r \in Request, Decides(r), NEW rec \in Record, NEW ttl \in Nat,
         Admit(r, rec, ttl)
  PROVE  \E k \in Key : \E q : AdmitDoes(r, k, q, rec, ttl)
<1>1. PICK k \in Key : Client(r) = k /\ req[r].client = {k} /\ On(r) \in Instance
  BY ClientIs DEF Decides
<1>2. PICK w \in State : w = req[r]
  BY DEF Frame, Requests
<1>3. PICK i \in Instance : i = On(r)
  BY <1>1
<1>4. w.at = "read" /\ w.on \in Instance /\ w.client = {k}
  BY <1>1, <1>2 DEF Decides, On
<1>5. PICK a : a = [w EXCEPT !.at = "setting"]
  OBVIOUS
<1>6. PICK b : b = [a EXCEPT !.rec = rec]
  OBVIOUS
<1>7. PICK q : q = [b EXCEPT !.ttl = ttl]
  OBVIOUS
<1>8. /\ q \in State /\ q.at = "setting" /\ q.on = w.on /\ q.client = {k}
      /\ q.rec = rec /\ q.ttl = ttl
  <2>1. "setting" \in Stage
    BY DEF Stage
  <2>2. a \in State /\ a.at = "setting" /\ a.on = w.on /\ a.client = {k}
    BY <1>4, <1>5, <2>1, StateAt
  <2>3. b \in State /\ b.at = "setting" /\ b.on = w.on /\ b.client = {k} /\ b.rec = rec
    BY <1>6, <2>2, StateRec
  <2> QED
    BY <1>7, <2>3, StateTtl
<1>9. InRequest(q)
  BY <1>4, <1>8, RecordTyped DEF InRequest
<1>10. req' = [req EXCEPT ![r] = q]
  <2>1. q = [w EXCEPT !.at = "setting", !.rec = rec, !.ttl = ttl]
    <3>1. DOMAIN w = {"at", "on", "client", "rec", "ttl"}
      BY StateFields
    <3> QED
      BY <1>5, <1>6, <1>7, <3>1
  <2>2. req' = [req EXCEPT ![r] = [w EXCEPT !.at = "setting", !.rec = rec, !.ttl = ttl]]
    BY <1>2 DEF Admit, Frame, Requests
  <2> QED
    BY <2>1, <2>2
<1>11. Requests' /\ req'[r] = q /\ Others(r)
  BY <1>8, <1>9, <1>10, RequestsMove DEF Frame
<1>12. l2' = l2 /\ clock' = clock /\ disturbed' = disturbed \cup Drift(i, k)
  BY <1>1, <1>3 DEF Admit
<1>13. l1' = [l1 EXCEPT ![i] = MemorySet(@, k, rec, ttl, clock)]
  BY <1>1, <1>3 DEF Admit
<1>14. /\ Levels' /\ \A j \in Instance : Less(l1'[j], l1[j], {k})
       /\ l1'[i].entry[k].data = rec /\ \A j \in Instance \ {i} : l1'[j] = l1[j]
  BY <1>12, <1>13, LevelsSet DEF Frame
<1>15. grants' = [grants EXCEPT ![k][rec.until] = @ + 1]
  BY <1>1 DEF Admit
<1>16. PICK u \in 1..Horizon : u = rec.until
  BY RecordTyped
<1>17. PICK g : g = [grants[k] EXCEPT ![u] = @ + 1]
  OBVIOUS
<1>18. /\ g \in [1..Horizon -> Nat] /\ g[u] = grants[k][u] + 1
       /\ \A v \in 1..Horizon : v # u => g[v] = grants[k][v]
  <2>1. PICK h \in [1..Horizon -> Nat] : h = grants[k]
    BY DEF Frame, Grants
  <2>2. g = [h EXCEPT ![u] = h[u] + 1]
    BY <1>17, <2>1
  <2>3. h[u] + 1 \in Nat
    OBVIOUS
  <2> QED
    BY <2>1, <2>2, <2>3
<1>19. grants' = [grants EXCEPT ![k] = g]
  BY <1>15, <1>16, <1>17 DEF Frame, Grants
<1>20. /\ grants' \in [Key -> [1..Horizon -> Nat]] /\ grants'[k] = g
       /\ \A j \in Key \ {k} : grants'[j] = grants[j]
  BY <1>18, <1>19 DEF Frame, Grants
<1>21. Grants'
  BY <1>12, <1>20 DEF Drift, Frame, Grants
<1>22. Step(r, k, q)
  BY <1>1, <1>8, <1>11, <1>12, <1>14, <1>20 DEF Step
<1>23. /\ grants'[k][rec.until] = grants[k][rec.until] + 1
       /\ \A v \in 1..Horizon : v # rec.until => grants'[k][v] = grants[k][v]
  BY <1>16, <1>18, <1>20
<1> QED
  BY <1>1, <1>2, <1>3, <1>4, <1>8, <1>11, <1>12, <1>14, <1>21, <1>22, <1>23
     DEF AdmitDoes, Frame

\* The seconds left of a window, rounded up, last as long as the window does, and
\* less than a second longer.
LEMMA RemainingCovers ==
  ASSUME NEW u \in Nat, clock \in Nat
  PROVE  /\ Remaining(u) \in Nat
         /\ u <= clock => Remaining(u) = 0
         /\ u > clock => /\ Remaining(u) > 0
                         /\ Remaining(u) * Second \in Nat
                         /\ Remaining(u) * Second >= u - clock
                         /\ Remaining(u) * Second < u - clock + Second
<1>1. PICK s \in Nat \ {0} : s = Second
  BY SecondAssumption
<1>2. PICK t \in Nat : t = clock
  OBVIOUS
<1>3. CASE u <= t
  BY <1>2, <1>3 DEF Remaining
<1>4. CASE u > t
  <2>1. PICK n \in Nat : n = u - t + s - 1
    BY <1>4
  <2>2. PICK p : p = n \div s
    OBVIOUS
  <2>3. p \in Int /\ p * s <= n /\ n < p * s + s
    BY <2>2
  <2>4. PICK m \in Int : m = p * s
    BY <2>3
  <2>5. m <= n /\ n < m + s
    BY <2>3, <2>4
  <2>6. m >= u - t /\ m < u - t + s /\ m > 0
    BY <1>4, <2>1, <2>5
  <2>7. p > 0
    <3>1. SUFFICES ASSUME p <= 0
                   PROVE  FALSE
      BY <2>3
    <3>2. p * s <= 0
      BY <2>3, <3>1
    <3> QED
      BY <2>4, <2>6, <3>2
  <2>8. Remaining(u) = p
    BY <1>1, <1>2, <1>4, <2>1, <2>2 DEF Remaining
  <2> QED
    BY <1>1, <1>2, <1>4, <2>3, <2>4, <2>6, <2>7, <2>8
<1> QED
  BY <1>2, <1>3, <1>4

\* Either a new window is opened, or the request is counted in the one it has read.
Opens(r, rec, ttl) ==
  req[r].rec = Absent /\ rec.count = 1 /\ rec.until = clock + Span /\ ttl = Window

Counts(r, rec, ttl) ==
  /\ req[r].rec \in Record
  /\ rec.count = req[r].rec.count + 1 /\ rec.until = req[r].rec.until
  /\ ttl = Remaining(rec.until)

LEMMA GuardAdmits ==
  ASSUME Frame, NEW r \in Request, OpenWindow(r) \/ CountRequest(r)
  PROVE  \E k \in Key, rec \in Record, ttl \in Nat : \E q :
           AdmitDoes(r, k, q, rec, ttl) /\ (Opens(r, rec, ttl) \/ Counts(r, rec, ttl))
<1>1. PICK w \in State : w = req[r]
  BY DEF Frame, Requests
<1>2. clock \in Nat /\ clock > 0 /\ clock <= MaxClock /\ MaxClock \in Nat
  BY BoundsAssumption DEF Frame, Levels
<1>3. w.rec \in Record \cup {Absent} /\ Limit \in Nat /\ Window \in Nat
  BY StateFields, LimitAssumption
<1>4. CASE OpenWindow(r)
  <2>1. w.rec = Absent
    <3>1. SUFFICES ASSUME w.rec # Absent
                   PROVE  FALSE
      OBVIOUS
    <3>2. PICK d \in Record : d = w.rec
      BY <1>3, <3>1
    <3>3. d.count = 0
      BY <1>1, <1>4, <3>1, <3>2 DEF OpenWindow, Count
    <3> QED
      BY <3>3, RecordTyped
  <2>2. Limit > 0
    BY <1>1, <1>4, <2>1 DEF OpenWindow, Admit, Count
  <2>3. PICK u : u = clock + Span
    OBVIOUS
  <2>4. u \in 1..Horizon
    BY <1>2, <2>3, SpanNat
  <2>5. PICK rec : rec = [count |-> 1, until |-> u]
    OBVIOUS
  <2>6. rec \in Record /\ rec.count = 1 /\ rec.until = u
    BY <1>3, <2>2, <2>4, <2>5 DEF Record
  <2>7. Admit(r, rec, Window) /\ Decides(r)
    BY <1>4, <2>3, <2>5 DEF OpenWindow, Span
  <2>8. PICK ttl \in Nat : ttl = Window
    BY <1>3
  <2>9. PICK k \in Key : \E q : AdmitDoes(r, k, q, rec, ttl)
    BY <2>6, <2>7, <2>8, AdmitFrame
  <2>10. Opens(r, rec, ttl)
    BY <1>1, <2>1, <2>3, <2>6, <2>8 DEF Opens
  <2> QED
    BY <2>6, <2>9, <2>10
<1>5. CASE CountRequest(r)
  <2>1. PICK d \in Record : d = w.rec
    BY <1>1, <1>3, <1>5 DEF CountRequest, Count
  <2>2. w.rec # Absent
    BY <2>1, RecordTyped
  <2>3. d.count < Limit
    BY <1>1, <1>5, <2>1, <2>2 DEF CountRequest, Admit, Count
  <2>4. PICK rec : rec = [d EXCEPT !.count = @ + 1]
    OBVIOUS
  <2>5. rec \in Record /\ rec.count = d.count + 1 /\ rec.until = d.until
    <3>1. d.count + 1 \in 1..Limit
      BY <1>3, <2>3, RecordTyped
    <3> QED
      BY <2>4, <3>1 DEF Record
  <2>6. PICK ttl \in Nat : ttl = Remaining(d.until)
    BY <1>2, RecordTyped, RemainingCovers
  <2>7. Admit(r, rec, ttl) /\ Decides(r)
    BY <1>1, <1>5, <2>1, <2>4, <2>6 DEF CountRequest
  <2>8. PICK k \in Key : \E q : AdmitDoes(r, k, q, rec, ttl)
    BY <2>5, <2>7, AdmitFrame
  <2>9. Counts(r, rec, ttl)
    BY <1>1, <2>1, <2>5, <2>6 DEF Counts
  <2> QED
    BY <2>5, <2>8, <2>9
<1> QED
  BY <1>4, <1>5

-----------------------------------------------------------------------------
(* Time passes, or an instance restarts                                    *)

LEMMA TickFrame ==
  ASSUME Frame, Tick
  PROVE  /\ Frame' /\ clock' = clock + 1 /\ grants' = grants /\ req' = req /\ l1' = l1
         /\ \A k \in Key : l2'[k] = l2[k] \/ (l2'[k] = Absent /\ Expired(l2[k], clock'))
<1>1. /\ clock' = clock + 1 /\ grants' = grants /\ req' = req /\ l1' = l1
      /\ disturbed' = disturbed
  BY DEF Tick
<1>2. clock' \in Nat \ {0} /\ clock' <= MaxClock
  BY BoundsAssumption DEF Tick, Frame, Levels
<1>3. PICK gone \in SUBSET Key :
        /\ l2' = RedisDel(l2, gone)
        /\ \A k \in gone : l2[k] # Absent /\ Expired(l2[k], clock')
  BY <1>1 DEF Tick
<1>4. l2' \in [Key -> MaybeEntry]
  BY <1>3 DEF RedisDel, Frame, Levels, MaybeEntry
<1>5. \A k \in Key : l2'[k] = l2[k] \/ (l2'[k] = Absent /\ Expired(l2[k], clock'))
  BY <1>3 DEF RedisDel
<1>6. Requests' /\ Grants'
  BY <1>1 DEF Frame, Requests, Grants
<1>7. Levels'
  BY <1>1, <1>2, <1>4 DEF Frame, Levels
<1> QED
  BY <1>1, <1>5, <1>6, <1>7 DEF Frame

LEMMA RestartFrame ==
  ASSUME Frame, NEW i \in Instance, Restart(i)
  PROVE  /\ Frame' /\ clock' = clock /\ grants' = grants /\ l2' = l2
         /\ disturbed \subseteq disturbed'
         /\ \A r \in Request : \/ req'[r] = req[r]
                               \/ req'[r] = Idle /\ req[r].client \subseteq disturbed'
         /\ \A j \in Instance : Less(l1'[j], l1[j], {})
<1>1. clock' = clock /\ grants' = grants /\ l2' = l2 /\ disturbed \subseteq disturbed'
  BY DEF Restart
<1>2. \A r \in Request : \/ req'[r] = req[r]
                         \/ req'[r] = Idle /\ req[r].client \subseteq disturbed'
  BY DEF Restart
<1>3. req' \in [Request -> State]
  BY IdleTyped DEF Restart, Frame, Requests
<1>4. Requests'
  BY <1>2, <1>3, IdleTyped DEF Frame, Requests
<1>5. PICK m : m = EmptyStore
  OBVIOUS
<1>6. Good(m) /\ \A k \in Key : m.entry[k] = Absent
  BY <1>5, EmptyStoreGood DEF EmptyStore
<1>7. l1' = [l1 EXCEPT ![i] = m]
  BY <1>5 DEF Restart
<1>8. Levels' /\ l1'[i] = m /\ \A j \in Instance \ {i} : l1'[j] = l1[j]
  BY <1>1, <1>6, <1>7, LevelsMove DEF Frame
<1>9. \A j \in Instance : Less(l1'[j], l1[j], {})
  BY <1>6, <1>8 DEF Less
<1>10. Grants'
  <2>1. \A r \in Request : req[r].client \subseteq Key
    BY StateFields DEF Frame, Requests
  <2>2. disturbed' \subseteq Key
    BY <2>1 DEF Restart, Frame, Grants
  <2> QED
    BY <1>1, <2>2 DEF Frame, Grants
<1> QED
  BY <1>1, <1>2, <1>4, <1>8, <1>9, <1>10 DEF Frame

LEMMA InitFrame == Init => Frame
<1> SUFFICES ASSUME Init
             PROVE  Frame
  OBVIOUS
<1>1. Requests
  BY IdleTyped DEF Init, Requests
<1>2. Levels
  BY EmptyStoreGood, BoundsAssumption DEF Init, Levels, EmptyRedis, MaybeEntry, Good
<1>3. Grants
  BY DEF Init, Grants
<1> QED
  BY <1>1, <1>2, <1>3 DEF Frame

-----------------------------------------------------------------------------
(* Every record was earned                                                 *)

\* Record rec of client k is stored at some level, or some request has it in hand.
Somewhere(k, rec) ==
  \/ \E i \in Instance : k \in Held(l1[i]) /\ l1[i].entry[k].data = rec
  \/ l2[k] # Absent /\ l2[k].data = rec
  \/ \E r \in Request : k \in req[r].client /\ req[r].rec = rec

Earned(k, rec) == rec.count <= grants[k][rec.until] /\ rec.until <= clock + Span

EarnedInv == \A k \in Key, rec \in Record : Somewhere(k, rec) => Earned(k, rec)

\* What was earned stays earned, as grants and time only grow.
LEMMA EarnedStays ==
  ASSUME Frame, Frame', NEW k \in Key, NEW rec \in Record, Earned(k, rec),
         clock' \in {clock, clock + 1}, grants'[k][rec.until] >= grants[k][rec.until]
  PROVE  Earned(k, rec)'
<1>1. rec.until \in 1..Horizon /\ rec.until \in Nat /\ rec.count \in Nat
  BY RecordTyped
<1>2. grants[k][rec.until] \in Nat
  BY <1>1 DEF Frame, Grants
<1>3. grants'[k][rec.until] \in Nat
  BY <1>1 DEF Frame, Grants
<1>4. rec.count <= grants'[k][rec.until]
  BY <1>1, <1>2, <1>3 DEF Earned
<1>5. rec.until <= clock' + Span
  BY <1>1, SpanNat DEF Earned, Frame, Levels
<1> QED
  BY <1>4, <1>5 DEF Earned

\* Level 1 has nothing new of client k but record d.
LEMMA KeepsSomewhere ==
  ASSUME Frame, Frame', NEW k \in Key, NEW d, Keeps(k, d), NEW rec \in Record,
         NEW i \in Instance, k \in Held(l1'[i]), l1'[i].entry[k].data = rec
  PROVE  rec = d \/ (k \in Held(l1[i]) /\ l1[i].entry[k].data = rec)
  BY DEF Keeps, Held

\* A step of client k leaves the records of the other clients as they are.
LEMMA StepElsewhere ==
  ASSUME NEW r \in Request, NEW k \in Key, NEW q, Step(r, k, q), NEW j \in Key \ {k},
         NEW rec, Somewhere(j, rec)'
  PROVE  Somewhere(j, rec)
<1>1. CASE \E i \in Instance : j \in Held(l1'[i]) /\ l1'[i].entry[j].data = rec
  BY <1>1 DEF Step, Less, Held, Somewhere
<1>2. CASE l2'[j] # Absent /\ l2'[j].data = rec
  BY <1>2 DEF Step, Somewhere
<1>3. CASE \E o \in Request : j \in req'[o].client /\ req'[o].rec = rec
  BY <1>3 DEF Step, Others, Somewhere
<1> QED
  BY <1>1, <1>2, <1>3 DEF Somewhere

\* A step of request r of client k, after which every record of k was there before
\* or is earned.
LEMMA EarnedStep ==
  ASSUME Frame, Frame', EarnedInv, NEW r \in Request, NEW k \in Key, NEW q, Step(r, k, q),
         \A u \in 1..Horizon : grants'[k][u] >= grants[k][u],
         \A rec \in Record : Somewhere(k, rec)' => Somewhere(k, rec) \/ Earned(k, rec)'
  PROVE  EarnedInv'
<1>1. clock' = clock
  BY DEF Step
<1>2. ASSUME NEW j \in Key, NEW rec \in Record, Somewhere(j, rec)'
      PROVE  Earned(j, rec)'
  <2>1. rec.until \in 1..Horizon
    BY RecordTyped
  <2>2. CASE j = k
    <3>1. CASE Somewhere(k, rec)
      <4>1. Earned(k, rec)
        BY <3>1 DEF EarnedInv
      <4>2. grants'[k][rec.until] >= grants[k][rec.until]
        BY <2>1
      <4> QED
        BY <1>1, <2>2, <4>1, <4>2, EarnedStays
    <3>2. CASE ~Somewhere(k, rec)
      <4>1. Somewhere(k, rec)' => Earned(k, rec)'
        BY <3>2
      <4> QED
        BY <1>2, <2>2, <4>1
    <3> QED
      BY <3>1, <3>2
  <2>3. CASE j # k
    <3>1. Somewhere(j, rec)
      BY <1>2, <2>3, StepElsewhere
    <3>2. Earned(j, rec)
      BY <3>1 DEF EarnedInv
    <3>3. grants'[j][rec.until] >= grants[j][rec.until]
      <4>1. grants'[j] = grants[j]
        BY <2>3 DEF Step
      <4>2. grants[j][rec.until] \in Nat
        BY <2>1 DEF Frame, Grants
      <4> QED
        BY <4>1, <4>2
    <3> QED
      BY <1>1, <3>2, <3>3, EarnedStays
  <2> QED
    BY <2>2, <2>3
<1> QED
  BY <1>2 DEF EarnedInv

\* A step that grants nothing, and after which request r has in hand, level 1 has
\* stored and Redis has stored nothing but what was there.
LEMMA EarnedQuiet ==
  ASSUME Frame, Frame', EarnedInv, NEW r \in Request, NEW k \in Key, NEW q, Step(r, k, q),
         grants' = grants, NEW d, Keeps(k, d),
         d = Absent \/ Somewhere(k, d),
         k \in q.client => q.rec = Absent \/ Somewhere(k, q.rec),
         l2'[k] = l2[k] \/ (l2'[k] # Absent /\ Somewhere(k, l2'[k].data))
  PROVE  EarnedInv'
<1>1. \A u \in 1..Horizon : grants'[k][u] >= grants[k][u]
  <2>1. \A u \in 1..Horizon : grants[k][u] \in Nat
    BY DEF Frame, Grants
  <2> QED
    BY <2>1
<1>2. ASSUME NEW rec \in Record, Somewhere(k, rec)'
      PROVE  Somewhere(k, rec)
  <2>1. rec # Absent
    BY RecordTyped
  <2>2. CASE \E i \in Instance : k \in Held(l1'[i]) /\ l1'[i].entry[k].data = rec
    <3>1. PICK i \in Instance : k \in Held(l1'[i]) /\ l1'[i].entry[k].data = rec
      BY <2>2
    <3>2. rec = d \/ (k \in Held(l1[i]) /\ l1[i].entry[k].data = rec)
      BY <3>1, KeepsSomewhere
    <3> QED
      BY <2>1, <3>2 DEF Somewhere
  <2>3. CASE l2'[k] # Absent /\ l2'[k].data = rec
    <3>1. CASE l2'[k] = l2[k]
      BY <2>3, <3>1 DEF Somewhere
    <3>2. CASE Somewhere(k, l2'[k].data)
      BY <2>3, <3>2
    <3> QED
      BY <3>1, <3>2
  <2>4. CASE \E o \in Request : k \in req'[o].client /\ req'[o].rec = rec
    <3>1. PICK o \in Request : k \in req'[o].client /\ req'[o].rec = rec
      BY <2>4
    <3>2. CASE o = r
      <4>1. q.rec = rec /\ k \in q.client
        BY <3>1, <3>2 DEF Step
      <4> QED
        BY <2>1, <4>1
    <3>3. CASE o # r
      BY <3>1, <3>3 DEF Step, Others, Somewhere
    <3> QED
      BY <3>2, <3>3
  <2> QED
    BY <1>2, <2>2, <2>3, <2>4 DEF Somewhere
<1> QED
  BY <1>1, <1>2, EarnedStep

LEMMA EarnedInit == ASSUME Init, Frame PROVE EarnedInv
<1>1. \A k \in Key, i \in Instance : k \notin Held(l1[i])
  BY EmptyStoreGood DEF Init
<1>2. \A k \in Key : l2[k] = Absent
  BY DEF Init, EmptyRedis
<1>3. \A k \in Key, r \in Request : k \notin req[r].client
  BY IdleTyped DEF Init
<1>4. \A k \in Key : \A rec : ~Somewhere(k, rec)
  BY <1>1, <1>2, <1>3 DEF Somewhere
<1> QED
  BY <1>4 DEF EarnedInv

LEMMA EarnedArrive ==
  ASSUME Frame, EarnedInv, NEW r \in Request, NEW i \in Instance, NEW k \in Key,
         Arrive(r, i, k)
  PROVE  EarnedInv'
<1>1. PICK q : ArriveDoes(r, i, k, q)
  BY ArriveFrame
<1>2. k \in q.client => q.rec = Absent \/ Somewhere(k, q.rec)
  BY <1>1 DEF ArriveDoes, Fresh, Held, Somewhere
<1>3. Frame' /\ Step(r, k, q) /\ grants' = grants /\ l2' = l2 /\ Keeps(k, Absent)
  BY <1>1 DEF ArriveDoes, Quiet
<1>4. l2'[k] = l2[k]
  BY <1>3
<1> QED
  BY <1>2, <1>3, <1>4, EarnedQuiet

LEMMA EarnedReads ==
  ASSUME Frame, EarnedInv, NEW r \in Request, SendGet(r) \/ Hydrate(r) \/ RedisReads(r)
  PROVE  EarnedInv'
<1>1. ASSUME SendGet(r)
      PROVE  EarnedInv'
  <2>1. PICK k \in Key : \E q : SendGetDoes(r, k, q)
    BY <1>1, SendGetFrame
  <2>2. PICK q : SendGetDoes(r, k, q)
    BY <2>1
  <2>3. /\ Frame' /\ Step(r, k, q) /\ grants' = grants /\ Keeps(k, Absent) /\ q.rec = Absent
        /\ l2'[k] = l2[k]
    BY <2>2 DEF SendGetDoes, Quiet
  <2> QED
    BY <2>3, EarnedQuiet
<1>2. ASSUME Hydrate(r)
      PROVE  EarnedInv'
  <2>1. PICK k \in Key : \E q : HydrateDoes(r, k, q)
    BY <1>2, HydrateFrame
  <2>2. PICK q : HydrateDoes(r, k, q)
    BY <2>1
  <2>3. PICK d : d = req[r].rec
    OBVIOUS
  <2>4. /\ Frame' /\ Step(r, k, q) /\ grants' = grants /\ Keeps(k, d) /\ q.rec = d
        /\ l2'[k] = l2[k] /\ req[r].client = {k}
    BY <2>2, <2>3 DEF HydrateDoes, Quiet
  <2>5. Somewhere(k, d)
    BY <2>3, <2>4 DEF Somewhere
  <2> QED
    BY <2>4, <2>5, EarnedQuiet
<1>3. ASSUME RedisReads(r)
      PROVE  EarnedInv'
  <2>1. PICK k \in Key : \E q : ReadDoes(r, k, q)
    BY <1>3, RedisReadsFrame
  <2>2. PICK q : ReadDoes(r, k, q)
    BY <2>1
  <2>3. /\ Frame' /\ Step(r, k, q) /\ grants' = grants /\ Keeps(k, Absent)
        /\ l2'[k] = l2[k] /\ q.rec = RedisGet(l2, k, clock)
    BY <2>2 DEF ReadDoes, Quiet
  <2>4. q.rec = Absent \/ Somewhere(k, q.rec)
    BY <2>3 DEF RedisGet, Somewhere
  <2> QED
    BY <2>3, <2>4, EarnedQuiet
<1> QED
  BY <1>1, <1>2, <1>3

LEMMA EarnedEnds ==
  ASSUME Frame, EarnedInv, NEW r \in Request, Refuse(r) \/ RedisWrites(r) \/ CommandFails(r)
  PROVE  EarnedInv'
<1>1. ASSUME Refuse(r)
      PROVE  EarnedInv'
  <2>1. PICK k \in Key : \E q : EndDoes(r, k, q) /\ Quiet
    BY <1>1, RefuseFrame
  <2>2. PICK q : EndDoes(r, k, q) /\ Quiet
    BY <2>1
  <2>3. /\ Frame' /\ Step(r, k, q) /\ grants' = grants /\ Keeps(k, Absent) /\ q.rec = Absent
        /\ l2'[k] = l2[k]
    BY <2>2, IdleTyped DEF EndDoes, Quiet
  <2> QED
    BY <2>3, EarnedQuiet
<1>2. ASSUME RedisWrites(r)
      PROVE  EarnedInv'
  <2>1. PICK k \in Key : \E q : WriteDoes(r, k, q)
    BY <1>2, RedisWritesFrame
  <2>2. PICK q : WriteDoes(r, k, q)
    BY <2>1
  <2>3. /\ Frame' /\ Step(r, k, q) /\ grants' = grants /\ Keeps(k, Absent) /\ q.rec = Absent
        /\ req[r].client = {k}
        /\ l2'[k] = [data |-> req[r].rec, exp |-> Deadline(req[r].ttl, clock)]
        /\ req[r].rec # Absent
    BY <2>2, IdleTyped DEF WriteDoes, EndDoes
  <2>4. l2'[k].data = req[r].rec
    BY <2>3
  <2>5. Somewhere(k, req[r].rec)
    BY <2>3 DEF Somewhere
  <2>6. l2'[k] # Absent
    <3>1. req[r].rec \in Record
      BY <2>3, StateFields DEF Frame, Requests
    <3>2. PICK w \in State : w = req[r]
      BY DEF Frame, Requests
    <3>3. PICK x \in Nat : x = Deadline(w.ttl, clock)
      BY StateFields, DeadlineNat DEF Frame, Levels
    <3>4. l2'[k] \in Entry
      BY <2>3, <3>1, <3>2, <3>3, RecordAssumption DEF Entry
    <3> QED
      BY <3>4, EntryAssumption
  <2>7. Somewhere(k, l2'[k].data)
    BY <2>4, <2>5
  <2> QED
    BY <2>3, <2>6, <2>7, EarnedQuiet
<1>3. ASSUME CommandFails(r)
      PROVE  EarnedInv'
  <2>1. PICK k \in Key : \E q : FailDoes(r, k, q)
    BY <1>3, CommandFailsFrame
  <2>2. PICK q : FailDoes(r, k, q)
    BY <2>1
  <2>3. /\ Frame' /\ Step(r, k, q) /\ grants' = grants /\ Keeps(k, Absent) /\ q.rec = Absent
        /\ l2'[k] = l2[k]
    BY <2>2, IdleTyped DEF FailDoes, Quiet
  <2> QED
    BY <2>3, EarnedQuiet
<1> QED
  BY <1>1, <1>2, <1>3

LEMMA EarnedAdmits ==
  ASSUME Frame, EarnedInv, NEW r \in Request, OpenWindow(r) \/ CountRequest(r)
  PROVE  EarnedInv'
<1>1. PICK k \in Key, rec \in Record, ttl \in Nat : \E q :
        AdmitDoes(r, k, q, rec, ttl) /\ (Opens(r, rec, ttl) \/ Counts(r, rec, ttl))
  BY GuardAdmits
<1>2. PICK q : AdmitDoes(r, k, q, rec, ttl) /\ (Opens(r, rec, ttl) \/ Counts(r, rec, ttl))
  BY <1>1
<1>3. rec.until \in 1..Horizon /\ rec.until \in Nat
  BY RecordTyped
<1>4. /\ Frame' /\ Step(r, k, q) /\ l2' = l2 /\ req[r].client = {k} /\ q.rec = rec
      /\ l1'[On(r)].entry[k].data = rec
      /\ \A j \in Instance \ {On(r)} : l1'[j] = l1[j]
      /\ grants'[k][rec.until] = grants[k][rec.until] + 1
      /\ \A u \in 1..Horizon : u # rec.until => grants'[k][u] = grants[k][u]
      /\ clock' = clock
  BY <1>2 DEF AdmitDoes, Step
<1>5. \A u \in 1..Horizon : grants[k][u] \in Nat
  BY DEF Frame, Grants
<1>6. \A u \in 1..Horizon : grants'[k][u] >= grants[k][u]
  BY <1>3, <1>4, <1>5
<1>7. Earned(k, rec)'
  <2>1. rec.count <= grants'[k][rec.until]
    <3>1. PICK g \in Nat : g = grants[k][rec.until]
      BY <1>3, <1>5
    <3>2. CASE Opens(r, rec, ttl)
      BY <1>4, <3>1, <3>2 DEF Opens
    <3>3. CASE Counts(r, rec, ttl)
      <4>1. PICK d \in Record : d = req[r].rec
        BY <3>3 DEF Counts
      <4>2. Somewhere(k, d)
        BY <1>4, <4>1 DEF Somewhere
      <4>3. rec.count = d.count + 1 /\ rec.until = d.until /\ d.count \in Nat
        BY <3>3, <4>1, RecordTyped DEF Counts
      <4>4. d.count <= g
        BY <3>1, <4>2, <4>3 DEF EarnedInv, Earned
      <4> QED
        BY <1>4, <3>1, <4>3, <4>4
    <3> QED
      BY <1>2, <3>2, <3>3
  <2>2. rec.until <= clock + Span
    <3>1. CASE Opens(r, rec, ttl)
      BY <1>3, <3>1 DEF Opens
    <3>2. CASE Counts(r, rec, ttl)
      <4>1. PICK d \in Record : d = req[r].rec
        BY <3>2 DEF Counts
      <4>2. Somewhere(k, d)
        BY <1>4, <4>1 DEF Somewhere
      <4>3. rec.until = d.until
        BY <3>2, <4>1 DEF Counts
      <4> QED
        BY <4>2, <4>3 DEF EarnedInv, Earned
    <3> QED
      BY <1>2, <3>1, <3>2
  <2> QED
    BY <1>4, <2>1, <2>2 DEF Earned
<1>8. ASSUME NEW d \in Record, Somewhere(k, d)'
      PROVE  Somewhere(k, d) \/ d = rec
  <2>1. CASE \E j \in Instance : k \in Held(l1'[j]) /\ l1'[j].entry[k].data = d
    BY <1>4, <2>1 DEF Somewhere
  <2>2. CASE l2'[k] # Absent /\ l2'[k].data = d
    BY <1>4, <2>2 DEF Somewhere
  <2>3. CASE \E o \in Request : k \in req'[o].client /\ req'[o].rec = d
    BY <1>4, <2>3 DEF Step, Others, Somewhere
  <2> QED
    BY <1>8, <2>1, <2>2, <2>3 DEF Somewhere
<1>9. \A d \in Record : Somewhere(k, d)' => Somewhere(k, d) \/ Earned(k, d)'
  BY <1>7, <1>8
<1> QED
  BY <1>4, <1>6, <1>9, EarnedStep

LEMMA EarnedTick == ASSUME Frame, EarnedInv, Tick PROVE EarnedInv'
<1>1. /\ Frame' /\ clock' = clock + 1 /\ grants' = grants /\ req' = req /\ l1' = l1
      /\ \A k \in Key : l2'[k] = l2[k] \/ l2'[k] = Absent
  BY TickFrame
<1>2. ASSUME NEW k \in Key, NEW rec \in Record, Somewhere(k, rec)'
      PROVE  Earned(k, rec)'
  <2>1. Somewhere(k, rec)
    BY <1>1, <1>2 DEF Somewhere
  <2>2. Earned(k, rec)
    BY <2>1 DEF EarnedInv
  <2>3. grants'[k][rec.until] >= grants[k][rec.until]
    <3>1. grants[k][rec.until] \in Nat
      BY RecordTyped DEF Frame, Grants
    <3> QED
      BY <1>1, <3>1
  <2> QED
    BY <1>1, <2>2, <2>3, EarnedStays
<1> QED
  BY <1>2 DEF EarnedInv

LEMMA EarnedRestart ==
  ASSUME Frame, EarnedInv, NEW i \in Instance, Restart(i)
  PROVE  EarnedInv'
<1>1. /\ Frame' /\ clock' = clock /\ grants' = grants /\ l2' = l2
      /\ \A r \in Request : req'[r] = req[r] \/ req'[r] = Idle
      /\ \A j \in Instance : Less(l1'[j], l1[j], {})
  BY RestartFrame
<1>2. ASSUME NEW k \in Key, NEW rec \in Record, Somewhere(k, rec)'
      PROVE  Earned(k, rec)'
  <2>1. CASE \E j \in Instance : k \in Held(l1'[j]) /\ l1'[j].entry[k].data = rec
    <3>1. Somewhere(k, rec)
      BY <1>1, <2>1 DEF Less, Held, Somewhere
    <3> QED
      BY <1>1, <3>1 DEF EarnedInv, Earned
  <2>2. CASE l2'[k] # Absent /\ l2'[k].data = rec
    BY <1>1, <2>2 DEF Somewhere, EarnedInv, Earned
  <2>3. CASE \E o \in Request : k \in req'[o].client /\ req'[o].rec = rec
    <3>1. Somewhere(k, rec)
      BY <1>1, <2>3, IdleTyped DEF Somewhere
    <3> QED
      BY <1>1, <3>1 DEF EarnedInv, Earned
  <2> QED
    BY <1>2, <2>1, <2>2, <2>3 DEF Somewhere
<1> QED
  BY <1>2 DEF EarnedInv

-----------------------------------------------------------------------------
(* A record stays in Redis as long as its window                           *)

\* The time to live of record rec covers the rest of its window, and not much more.
Covers(rec, ttl) ==
  /\ ttl > 0 => rec.until <= clock + ttl * Second /\ ttl * Second < Span + Second
  /\ ttl = 0 => rec.until <= clock

Lasts(e) ==
  /\ e.exp = Never => e.data.until <= clock
  /\ e.exp # Never => e.data.until <= e.exp
  /\ clock < e.data.until => e.exp < e.data.until + (Span + Second)

TimelyInv ==
  /\ \A r \in Request : req[r].at = "setting" => Covers(req[r].rec, req[r].ttl)
  /\ \A k \in Key : l2[k] # Absent => Lasts(l2[k])

LEMMA CoversStays ==
  ASSUME Frame, NEW rec \in Record, NEW ttl \in Nat, Covers(rec, ttl),
         clock' \in {clock, clock + 1}
  PROVE  Covers(rec, ttl)'
<1>1. PICK m \in Nat : m = ttl * Second
  BY SecondAssumption
<1>2. PICK t \in Nat : t = clock
  BY DEF Frame, Levels
<1>3. rec.until \in Nat
  BY RecordTyped
<1>4. PICK n \in Nat : n = clock' /\ t <= n
  BY <1>2
<1>5. ttl > 0 => rec.until <= t + m /\ m < Span + Second
  BY <1>1, <1>2 DEF Covers
<1>6. ttl = 0 => rec.until <= t
  BY <1>2 DEF Covers
<1>7. ttl > 0 => rec.until <= n + m
  BY <1>3, <1>4, <1>5
<1>8. ttl = 0 => rec.until <= n
  BY <1>3, <1>4, <1>6
<1> QED
  BY <1>1, <1>4, <1>5, <1>7, <1>8 DEF Covers

LEMMA LastsStays ==
  ASSUME Frame, NEW e \in Entry, Lasts(e), clock' \in {clock, clock + 1}
  PROVE  Lasts(e)'
<1>1. e.data.until \in Nat /\ e.exp \in Nat
  BY RecordTyped, RecordAssumption DEF Entry
<1>2. PICK t \in Nat : t = clock
  BY DEF Frame, Levels
<1>3. PICK n \in Nat : n = clock' /\ t <= n
  BY <1>2
<1> QED
  BY <1>1, <1>2, <1>3 DEF Lasts

\* What Redis stores of a record it is sent in time lasts.
LEMMA WriteLasts ==
  ASSUME Frame, NEW rec \in Record, NEW ttl \in Nat, Covers(rec, ttl), NEW e,
         e = [data |-> rec, exp |-> Deadline(ttl, clock)]
  PROVE  Lasts(e)
<1>1. PICK m \in Nat : m = ttl * Second
  BY SecondAssumption
<1>2. PICK t \in Nat \ {0} : t = clock
  BY DEF Frame, Levels
<1>3. PICK u \in Nat : u = rec.until
  BY RecordTyped
<1>4. e.data.until = u
  BY <1>3
<1>5. Span \in Nat /\ Second \in Nat
  BY SpanNat, SecondAssumption
<1>6. CASE ttl > 0
  <2>1. e.exp = t + m
    BY <1>1, <1>2, <1>6 DEF Deadline
  <2>2. u <= t + m /\ m < Span + Second
    BY <1>1, <1>2, <1>3, <1>6 DEF Covers
  <2>3. e.exp # Never
    BY <1>2, <2>1 DEF Never
  <2>4. t < u => e.exp < u + (Span + Second)
    BY <1>5, <2>1, <2>2
  <2>5. e.data.until <= e.exp
    BY <1>4, <2>1, <2>2
  <2>6. clock < e.data.until => e.exp < e.data.until + (Span + Second)
    BY <1>2, <1>4, <2>4
  <2> QED
    BY <2>3, <2>5, <2>6 DEF Lasts
<1>7. CASE ttl = 0
  <2>1. e.exp = Never
    BY <1>7 DEF Deadline
  <2>2. u <= t
    BY <1>2, <1>3, <1>7 DEF Covers
  <2>3. e.data.until <= clock /\ ~(clock < e.data.until)
    BY <1>2, <1>4, <2>2
  <2> QED
    BY <2>1, <2>3 DEF Lasts
<1> QED
  BY <1>6, <1>7

\* The guard sends every record with a time to live that covers its window.
LEMMA GuardCovers ==
  ASSUME Frame, EarnedInv, NEW r \in Request, NEW k \in Key, NEW rec \in Record,
         NEW ttl \in Nat, req[r].client = {k}, Opens(r, rec, ttl) \/ Counts(r, rec, ttl)
  PROVE  Covers(rec, ttl)
<1>1. rec.until \in Nat /\ clock \in Nat
  BY RecordTyped DEF Frame, Levels
<1>2. Span \in Nat /\ Second \in Nat /\ Second > 0 /\ Window > 0
  BY SpanNat, SecondAssumption, LimitAssumption
<1>3. CASE Opens(r, rec, ttl)
  <2>1. rec.until = clock + Span /\ ttl = Window /\ ttl * Second = Span
    BY <1>3 DEF Opens, Span
  <2>2. rec.until <= clock + ttl * Second /\ ttl * Second < Span + Second
    BY <1>1, <1>2, <2>1
  <2> QED
    BY <1>2, <2>1, <2>2 DEF Covers
<1>4. CASE Counts(r, rec, ttl)
  <2>1. PICK d \in Record : d = req[r].rec
    BY <1>4 DEF Counts
  <2>2. Somewhere(k, d)
    BY <2>1 DEF Somewhere
  <2>3. rec.until = d.until
    BY <1>4, <2>1 DEF Counts
  <2>4. rec.until <= clock + Span
    BY <2>2, <2>3 DEF EarnedInv, Earned
  <2>5. PICK u \in Nat : u = rec.until
    BY <1>1
  <2>6. ttl = Remaining(u)
    BY <1>4, <2>5 DEF Counts
  <2>7. CASE u <= clock
    <3>1. ttl = 0
      BY <1>1, <2>6, <2>7, RemainingCovers
    <3> QED
      BY <2>5, <2>7, <3>1 DEF Covers
  <2>8. CASE u > clock
    <3>1. /\ ttl > 0 /\ Remaining(u) * Second \in Nat
          /\ Remaining(u) * Second >= u - clock /\ Remaining(u) * Second < u - clock + Second
      BY <1>1, <2>6, <2>8, RemainingCovers
    <3>2. PICK m \in Nat : m = ttl * Second /\ m >= u - clock /\ m < u - clock + Second
      BY <2>6, <3>1
    <3>3. u <= clock + m /\ m < Span + Second
      BY <1>1, <1>2, <2>4, <2>5, <3>2
    <3> QED
      BY <2>5, <3>1, <3>2, <3>3 DEF Covers
  <2> QED
    BY <1>1, <2>7, <2>8
<1> QED
  BY <1>3, <1>4

\* A step of request r after which its record is covered, and what Redis stores lasts.
LEMMA TimelyStep ==
  ASSUME Frame, TimelyInv, NEW r \in Request, NEW k \in Key, NEW q, Step(r, k, q),
         q.at = "setting" => Covers(q.rec, q.ttl),
         l2'[k] = l2[k] \/ Lasts(l2'[k])
  PROVE  TimelyInv'
<1>1. clock' = clock /\ req'[r] = q /\ Others(r)
  BY DEF Step
<1>2. \A o \in Request : req'[o].at = "setting" => Covers(req'[o].rec, req'[o].ttl)
  <2>1. \A o \in Request \ {r} : req'[o] = req[o]
    BY <1>1 DEF Others
  <2> QED
    BY <1>1, <2>1 DEF TimelyInv
<1>3. \A j \in Key : l2'[j] # Absent => Lasts(l2'[j])
  BY DEF Step, TimelyInv
<1>4. \A o \in Request : req'[o].at = "setting" => Covers(req[o].rec, req[o].ttl)'
  BY <1>1, <1>2 DEF Covers
<1>5. \A j \in Key : l2'[j] # Absent => Lasts(l2[j])'
  BY <1>1, <1>3 DEF Lasts
<1> QED
  BY <1>4, <1>5 DEF TimelyInv

LEMMA TimelyInit == ASSUME Init PROVE TimelyInv
  BY IdleTyped DEF Init, EmptyRedis, TimelyInv

LEMMA TimelyReads ==
  ASSUME Frame, TimelyInv, NEW r \in Request,
         \/ \E i \in Instance, k \in Key : Arrive(r, i, k)
         \/ SendGet(r) \/ Hydrate(r) \/ RedisReads(r) \/ Refuse(r) \/ CommandFails(r)
  PROVE  TimelyInv'
<1>1. \E k \in Key : \E q : Step(r, k, q) /\ Quiet /\ q.at # "setting"
  <2>1. ASSUME NEW i \in Instance, NEW k \in Key, Arrive(r, i, k)
        PROVE  \E q : Step(r, k, q) /\ Quiet /\ q.at # "setting"
    BY <2>1, ArriveFrame DEF ArriveDoes
  <2>2. CASE SendGet(r)
    BY <2>2, SendGetFrame DEF SendGetDoes
  <2>3. CASE Hydrate(r)
    BY <2>3, HydrateFrame DEF HydrateDoes
  <2>4. CASE RedisReads(r)
    BY <2>4, RedisReadsFrame DEF ReadDoes
  <2>5. CASE Refuse(r)
    BY <2>5, RefuseFrame, IdleTyped DEF EndDoes
  <2>6. CASE CommandFails(r)
    BY <2>6, CommandFailsFrame, IdleTyped DEF FailDoes
  <2> QED
    BY <2>1, <2>2, <2>3, <2>4, <2>5, <2>6
<1>2. PICK k \in Key : \E q : Step(r, k, q) /\ Quiet /\ q.at # "setting"
  BY <1>1
<1>3. PICK q : Step(r, k, q) /\ Quiet /\ q.at # "setting"
  BY <1>2
<1>4. l2'[k] = l2[k]
  BY <1>3 DEF Quiet
<1> QED
  BY <1>3, <1>4, TimelyStep

LEMMA TimelyWrites ==
  ASSUME Frame, TimelyInv, NEW r \in Request, RedisWrites(r)
  PROVE  TimelyInv'
<1>1. PICK k \in Key : \E q : WriteDoes(r, k, q)
  BY RedisWritesFrame
<1>2. PICK q : WriteDoes(r, k, q)
  BY <1>1
<1>3. /\ Step(r, k, q) /\ q.at # "setting" /\ req[r].at = "setting" /\ req[r].rec # Absent
      /\ l2'[k] = [data |-> req[r].rec, exp |-> Deadline(req[r].ttl, clock)]
  BY <1>2, IdleTyped DEF WriteDoes, EndDoes
<1>4. PICK rec \in Record : rec = req[r].rec
  BY <1>3, StateFields DEF Frame, Requests
<1>5. PICK ttl \in Nat : ttl = req[r].ttl
  BY StateFields DEF Frame, Requests
<1>6. Covers(rec, ttl)
  BY <1>3, <1>4, <1>5 DEF TimelyInv
<1>7. PICK e : e = l2'[k]
  OBVIOUS
<1>8. e = [data |-> rec, exp |-> Deadline(ttl, clock)]
  BY <1>3, <1>4, <1>5, <1>7
<1>9. Lasts(e)
  BY <1>6, <1>8, WriteLasts
<1> QED
  BY <1>3, <1>7, <1>9, TimelyStep

LEMMA TimelyAdmits ==
  ASSUME Frame, EarnedInv, TimelyInv, NEW r \in Request, OpenWindow(r) \/ CountRequest(r)
  PROVE  TimelyInv'
<1>1. PICK k \in Key, rec \in Record, ttl \in Nat : \E q :
        AdmitDoes(r, k, q, rec, ttl) /\ (Opens(r, rec, ttl) \/ Counts(r, rec, ttl))
  BY GuardAdmits
<1>2. PICK q : AdmitDoes(r, k, q, rec, ttl) /\ (Opens(r, rec, ttl) \/ Counts(r, rec, ttl))
  BY <1>1
<1>3. Step(r, k, q) /\ l2'[k] = l2[k] /\ req[r].client = {k} /\ q.rec = rec /\ q.ttl = ttl
  BY <1>2 DEF AdmitDoes
<1>4. Covers(rec, ttl)
  BY <1>2, <1>3, GuardCovers
<1> QED
  BY <1>3, <1>4, TimelyStep

LEMMA TimelyTick == ASSUME Frame, TimelyInv, Tick PROVE TimelyInv'
<1>1. /\ clock' = clock + 1 /\ req' = req
      /\ \A k \in Key : l2'[k] = l2[k] \/ l2'[k] = Absent
  BY TickFrame
<1>2. ASSUME NEW r \in Request, req'[r].at = "setting"
      PROVE  Covers(req[r].rec, req[r].ttl)'
  <2>1. PICK rec \in Record : rec = req[r].rec
    BY <1>1, <1>2, StateFields DEF Frame, Requests, InRequest
  <2>2. PICK ttl \in Nat : ttl = req[r].ttl
    BY StateFields DEF Frame, Requests
  <2>3. Covers(rec, ttl)
    BY <1>1, <1>2, <2>1, <2>2 DEF TimelyInv
  <2>4. Covers(rec, ttl)'
    BY <1>1, <2>3, CoversStays
  <2> QED
    BY <1>1, <2>1, <2>2, <2>4
<1>3. ASSUME NEW k \in Key, l2'[k] # Absent
      PROVE  Lasts(l2[k])'
  <2>1. PICK e \in Entry : e = l2[k]
    BY <1>1, <1>3 DEF Frame, Levels, MaybeEntry
  <2>2. Lasts(e) /\ l2'[k] = e
    BY <1>1, <1>3, <2>1 DEF TimelyInv
  <2>3. Lasts(e)'
    BY <1>1, <2>2, LastsStays
  <2> QED
    BY <2>2, <2>3
<1> QED
  BY <1>2, <1>3 DEF TimelyInv

LEMMA TimelyRestart ==
  ASSUME Frame, TimelyInv, NEW i \in Instance, Restart(i)
  PROVE  TimelyInv'
<1>1. /\ clock' = clock /\ l2' = l2
      /\ \A r \in Request : req'[r] = req[r] \/ req'[r] = Idle
  BY RestartFrame
<1>2. \A r \in Request : req'[r].at = "setting" => req'[r] = req[r]
  BY <1>1, IdleTyped
<1>3. \A r \in Request : req'[r].at = "setting" => Covers(req[r].rec, req[r].ttl)'
  BY <1>1, <1>2 DEF TimelyInv, Covers
<1>4. \A k \in Key : l2'[k] # Absent => Lasts(l2[k])'
  BY <1>1 DEF TimelyInv, Lasts
<1> QED
  BY <1>3, <1>4 DEF TimelyInv

-----------------------------------------------------------------------------
(* An undisturbed client is counted exactly                                *)

\* Record rec has the number of requests admitted in the latest window of client k.
Latest(k, rec) ==
  /\ rec.count = grants[k][rec.until]
  /\ \A u \in 1..Horizon : grants[k][u] > 0 => u <= rec.until

\* Every window of client k is over.
OverBy(k) == \A u \in 1..Horizon : grants[k][u] > 0 => u < clock

AloneOn(k) ==
  \A o, p \in Request : k \in req[o].client /\ k \in req[p].client => o = p

FreshOn(k) ==
  \A i \in Instance : Fresh(l1[i], k, clock) => Latest(k, l1[i].entry[k].data)

SettledOn(k) ==
  (\A r \in Request : k \in req[r].client => req[r].at # "setting") =>
    IF l2[k] = Absent THEN OverBy(k) ELSE Latest(k, l2[k].data)

\* What request state q may have in hand for client k.
Heard(k, q) ==
  /\ q.rec # Absent => Latest(k, q.rec)
  /\ q.rec = Absent /\ q.at \in {"replied", "read"} => OverBy(k)

HeardOn(k) == \A r \in Request : k \in req[r].client => Heard(k, req[r])

Apart(k, u) ==
  /\ grants[k][u] <= Limit
  /\ \A v \in 1..Horizon : v # u /\ grants[k][v] > 0 => v > u + Span \/ u > v + Span

CountedOn(k) == \A u \in 1..Horizon : grants[k][u] > 0 => Apart(k, u)

ExactOn(k) == AloneOn(k) /\ FreshOn(k) /\ SettledOn(k) /\ HeardOn(k) /\ CountedOn(k)

ExactInv == \A k \in Key \ disturbed : ExactOn(k)

\* Nothing that concerns client k changes.
Untouched(k) ==
  /\ clock' = clock /\ grants'[k] = grants[k] /\ l2'[k] = l2[k]
  /\ \A i \in Instance : l1'[i].entry[k] \in {l1[i].entry[k], Absent}
  /\ \A r \in Request : k \in req[r].client \/ k \in req'[r].client => req'[r] = req[r]

LEMMA LatestStays ==
  ASSUME NEW k, NEW rec, grants'[k] = grants[k]
  PROVE  Latest(k, rec) <=> Latest(k, rec)'
  BY DEF Latest

LEMMA OverStays ==
  ASSUME Frame, Frame', NEW k \in Key, grants'[k] = grants[k], clock' \in {clock, clock + 1},
         OverBy(k)
  PROVE  OverBy(k)'
<1>1. PICK t \in Nat : t = clock
  BY DEF Frame, Levels
<1>2. \A u \in 1..Horizon : u \in Nat
  BY SpanNat
<1>3. \A u \in 1..Horizon : grants'[k][u] > 0 => u < clock'
  BY <1>1, <1>2 DEF OverBy
<1> QED
  BY <1>3 DEF OverBy

LEMMA CountedStays ==
  ASSUME NEW k, grants'[k] = grants[k], CountedOn(k)
  PROVE  CountedOn(k)'
  BY DEF CountedOn, Apart

\* Level 1 has no fresh record of client k but those it had, and the latest.
LEMMA FreshStays ==
  ASSUME Frame, NEW k \in Key, FreshOn(k), NEW d, Keeps(k, d), clock' \in {clock, clock + 1},
         grants'[k] = grants[k], d # Absent => Latest(k, d),
         d = Absent => \A i \in Instance : l1'[i].entry[k] \in {l1[i].entry[k], Absent}
  PROVE  FreshOn(k)'
<1> SUFFICES ASSUME NEW i \in Instance, Fresh(l1'[i], k, clock')
             PROVE  Latest(k, l1[i].entry[k].data)'
  BY DEF FreshOn
<1>1. CASE l1'[i].entry[k] \in {l1[i].entry[k], Absent}
  <2>1. PICK e \in Entry : e = l1[i].entry[k] /\ l1'[i].entry[k] = e
    BY <1>1 DEF Fresh, Frame, Levels, Store, MaybeEntry
  <2>2. e.exp \in Nat /\ clock \in Nat /\ e # Absent
    BY EntryAssumption DEF Entry, Frame, Levels
  <2>3. ~Expired(e, clock')
    BY <2>1 DEF Fresh
  <2>4. ~Expired(e, clock)
    BY <2>2, <2>3 DEF Expired
  <2>5. Fresh(l1[i], k, clock)
    BY <2>1, <2>2, <2>4 DEF Fresh
  <2>6. PICK rec : rec = e.data
    OBVIOUS
  <2>7. Latest(k, rec)
    BY <2>1, <2>5, <2>6 DEF FreshOn
  <2>8. Latest(k, rec)'
    BY <2>7, LatestStays
  <2>9. l1'[i].entry[k].data = rec
    BY <2>1, <2>6
  <2> QED
    BY <2>8, <2>9 DEF Latest
<1>2. CASE d # Absent /\ l1'[i].entry[k].data = d
  <2>1. Latest(k, d)'
    BY <1>2, LatestStays
  <2> QED
    BY <1>2, <2>1 DEF Latest
<1> QED
  BY <1>1, <1>2 DEF Keeps

LEMMA UntouchedExact ==
  ASSUME Frame, Frame', NEW k \in Key, ExactOn(k), Untouched(k)
  PROVE  ExactOn(k)'
<1>1. AloneOn(k)'
  BY DEF Untouched, ExactOn, AloneOn
<1>2. FreshOn(k)'
  BY FreshStays DEF Untouched, ExactOn, Keeps
<1>3. CountedOn(k)'
  BY CountedStays DEF Untouched, ExactOn
<1>4. OverBy(k) <=> OverBy(k)'
  BY DEF Untouched, OverBy
<1>5. \A rec : Latest(k, rec) <=> Latest(k, rec)'
  BY LatestStays DEF Untouched
<1>6. SettledOn(k)'
  <2>1. SUFFICES ASSUME \A r \in Request : k \in req'[r].client => req'[r].at # "setting"
                 PROVE  IF l2'[k] = Absent THEN OverBy(k)' ELSE Latest(k, l2[k].data)'
    BY DEF SettledOn
  <2>2. \A r \in Request : k \in req[r].client => req[r].at # "setting"
    BY <2>1 DEF Untouched
  <2>3. IF l2[k] = Absent THEN OverBy(k) ELSE Latest(k, l2[k].data)
    BY <2>2 DEF ExactOn, SettledOn
  <2>4. l2'[k] = l2[k]
    BY DEF Untouched
  <2>5. PICK rec : rec = l2[k].data
    OBVIOUS
  <2>6. CASE l2[k] = Absent
    BY <1>4, <2>3, <2>4, <2>6
  <2>7. CASE l2[k] # Absent
    <3>1. Latest(k, rec)'
      BY <1>5, <2>3, <2>5, <2>7
    <3> QED
      BY <2>4, <2>5, <2>7, <3>1 DEF Latest
  <2> QED
    BY <2>6, <2>7
<1>7. HeardOn(k)'
  <2>1. SUFFICES ASSUME NEW r \in Request, k \in req'[r].client
                 PROVE  Heard(k, req[r])'
    BY DEF HeardOn
  <2>2. req'[r] = req[r] /\ Heard(k, req[r])
    BY <2>1 DEF Untouched, ExactOn, HeardOn
  <2>3. PICK q : q = req[r]
    OBVIOUS
  <2>4. Heard(k, q)'
    BY <1>4, <1>5, <2>2, <2>3 DEF Heard
  <2> QED
    BY <2>2, <2>3, <2>4 DEF Heard, Latest
<1> QED
  BY <1>1, <1>2, <1>3, <1>6, <1>7 DEF ExactOn

\* A step of one client concerns no other.
LEMMA StepUntouched ==
  ASSUME NEW r \in Request, NEW k \in Key, NEW q, Step(r, k, q), NEW j \in Key \ {k}
  PROVE  Untouched(j)
<1>1. j \notin req[r].client /\ j \notin req'[r].client
  BY DEF Step
<1>2. \A o \in Request : j \in req[o].client \/ j \in req'[o].client => req'[o] = req[o]
  BY <1>1 DEF Step, Others
<1>3. \A i \in Instance : l1'[i].entry[j] \in {l1[i].entry[j], Absent}
  BY DEF Step, Less
<1> QED
  BY <1>2, <1>3 DEF Step, Untouched

LEMMA ExactStep ==
  ASSUME Frame, Frame', ExactInv, NEW r \in Request, NEW k \in Key, NEW q, Step(r, k, q),
         k \notin disturbed' => ExactOn(k)'
  PROVE  ExactInv'
<1> SUFFICES ASSUME NEW j \in Key \ disturbed'
             PROVE  ExactOn(j)'
  BY DEF ExactInv
<1>1. CASE j = k
  BY <1>1
<1>2. CASE j # k
  <2>1. j \in Key \ disturbed
    BY DEF Step
  <2>2. ExactOn(j)
    BY <2>1 DEF ExactInv
  <2>3. Untouched(j)
    BY <1>2, StepUntouched
  <2> QED
    BY <2>2, <2>3, UntouchedExact
<1> QED
  BY <1>1, <1>2

\* The only request of client k steps, and nothing is granted.
LEMMA QuietExact ==
  ASSUME Frame, Frame', NEW r \in Request, NEW k \in Key, ExactOn(k), NEW q, Step(r, k, q),
         grants' = grants,
         \A o \in Request \ {r} : k \notin req[o].client,
         NEW d, Keeps(k, d), d # Absent => Latest(k, d),
         d = Absent => \A i \in Instance : l1'[i].entry[k] \in {l1[i].entry[k], Absent},
         k \in q.client => Heard(k, q),
         (k \in q.client => q.at # "setting") =>
            IF l2'[k] = Absent THEN OverBy(k) ELSE Latest(k, l2'[k].data)
  PROVE  ExactOn(k)'
<1>1. /\ req'[r] = q /\ \A o \in Request \ {r} : req'[o] = req[o]
      /\ clock' = clock /\ grants'[k] = grants[k]
  BY DEF Step, Others
<1>2. \A o \in Request : k \in req'[o].client => o = r
  BY <1>1
<1>3. AloneOn(k)'
  BY <1>2 DEF AloneOn
<1>4. FreshOn(k)'
  BY <1>1, FreshStays DEF ExactOn
<1>5. CountedOn(k)'
  BY <1>1, CountedStays DEF ExactOn
<1>6. OverBy(k) <=> OverBy(k)'
  BY <1>1 DEF OverBy
<1>7. \A rec : Latest(k, rec) <=> Latest(k, rec)'
  BY <1>1, LatestStays
<1>8. SettledOn(k)'
  <2>1. SUFFICES ASSUME \A o \in Request : k \in req'[o].client => req'[o].at # "setting"
                 PROVE  IF l2'[k] = Absent THEN OverBy(k)' ELSE Latest(k, l2[k].data)'
    BY DEF SettledOn
  <2>2. IF l2'[k] = Absent THEN OverBy(k) ELSE Latest(k, l2'[k].data)
    BY <1>1, <2>1
  <2>3. PICK rec : rec = l2'[k].data
    OBVIOUS
  <2>4. CASE l2'[k] = Absent
    BY <1>6, <2>2, <2>4
  <2>5. CASE l2'[k] # Absent
    <3>1. Latest(k, rec)'
      BY <1>7, <2>2, <2>3, <2>5
    <3> QED
      BY <2>3, <2>5, <3>1 DEF Latest
  <2> QED
    BY <2>4, <2>5
<1>9. HeardOn(k)'
  <2>1. SUFFICES ASSUME NEW o \in Request, k \in req'[o].client
                 PROVE  Heard(k, req[o])'
    BY DEF HeardOn
  <2>2. o = r /\ req'[o] = q /\ Heard(k, q)
    BY <1>1, <1>2, <2>1
  <2>3. Heard(k, q)'
    BY <1>6, <1>7, <2>2 DEF Heard
  <2> QED
    BY <2>2, <2>3 DEF Heard, Latest
<1> QED
  BY <1>3, <1>4, <1>5, <1>8, <1>9 DEF ExactOn

LEMMA ExactArrive ==
  ASSUME Frame, ExactInv, NEW r \in Request, NEW i \in Instance, NEW k \in Key,
         Arrive(r, i, k)
  PROVE  ExactInv'
<1>1. PICK q : ArriveDoes(r, i, k, q)
  BY ArriveFrame
<1>2. /\ Frame' /\ Step(r, k, q) /\ grants' = grants /\ l2' = l2 /\ Keeps(k, Absent)
      /\ disturbed' = disturbed \cup Overlap(k) /\ req[r] = Idle
  BY <1>1 DEF ArriveDoes, Quiet
<1>3. ASSUME k \notin disturbed'
      PROVE  ExactOn(k)'
  <2>1. ExactOn(k)
    BY <1>2, <1>3 DEF ExactInv
  <2>2. \A o \in Request : k \notin req[o].client
    BY <1>2, <1>3 DEF Overlap
  <2>3. IF l2[k] = Absent THEN OverBy(k) ELSE Latest(k, l2[k].data)
    BY <2>1, <2>2 DEF ExactOn, SettledOn
  <2>4. \A j \in Instance : l1'[j].entry[k] \in {l1[j].entry[k], Absent}
    <3>1. PICK m : m = Lookup(l1[i], k, clock)
      OBVIOUS
    <3>2. m.entry[k] \in {l1[i].entry[k], Absent}
      <4>1. Good(l1[i])
        BY DEF Frame, Levels
      <4> QED
        BY <3>1, <4>1, LookupLess DEF Less
    <3>3. l1' = [l1 EXCEPT ![i] = m]
      BY <3>1 DEF Arrive
    <3> QED
      BY <3>2, <3>3 DEF Frame, Levels
  <2>5. Heard(k, q)
    <3>1. CASE q.at = "missed" /\ q.rec = Absent
      BY <3>1 DEF Heard
    <3>2. CASE q.at = "read" /\ Fresh(l1[i], k, clock) /\ q.rec = l1[i].entry[k].data
      <4>1. Latest(k, q.rec)
        BY <2>1, <3>2 DEF ExactOn, FreshOn
      <4>2. q.rec # Absent
        BY <3>2, RecordAssumption, DataAssumption
           DEF Fresh, Frame, Levels, Store, MaybeEntry, Entry
      <4> QED
        BY <4>1, <4>2 DEF Heard
    <3> QED
      BY <1>1, <3>1, <3>2 DEF ArriveDoes
  <2>6. l2'[k] = l2[k]
    BY <1>2
  <2> QED
    BY <1>2, <2>1, <2>2, <2>3, <2>4, <2>5, <2>6, QuietExact
<1> QED
  BY <1>2, <1>3, ExactStep

\* An undisturbed client has one request, and what this request has in hand is right.
LEMMA OnlyOne ==
  ASSUME ExactInv, NEW r \in Request, NEW k \in Key, req[r].client = {k}, k \notin disturbed
  PROVE  /\ ExactOn(k) /\ Heard(k, req[r])
         /\ \A o \in Request \ {r} : k \notin req[o].client
         /\ req[r].at # "setting" => IF l2[k] = Absent THEN OverBy(k) ELSE Latest(k, l2[k].data)
<1>1. ExactOn(k)
  BY DEF ExactInv
<1>2. Heard(k, req[r])
  BY <1>1 DEF ExactOn, HeardOn
<1>3. \A o \in Request \ {r} : k \notin req[o].client
  BY <1>1 DEF ExactOn, AloneOn
<1>4. ASSUME req[r].at # "setting"
      PROVE  IF l2[k] = Absent THEN OverBy(k) ELSE Latest(k, l2[k].data)
  <2>1. \A o \in Request : k \in req[o].client => req[o].at # "setting"
    BY <1>3, <1>4
  <2> QED
    BY <1>1, <2>1 DEF ExactOn, SettledOn
<1> QED
  BY <1>1, <1>2, <1>3, <1>4

LEMMA ExactSendGet ==
  ASSUME Frame, ExactInv, NEW r \in Request, SendGet(r)
  PROVE  ExactInv'
<1>1. PICK k \in Key : \E q : SendGetDoes(r, k, q)
  BY SendGetFrame
<1>2. PICK q : SendGetDoes(r, k, q)
  BY <1>1
<1>3. /\ Frame' /\ Step(r, k, q) /\ grants' = grants /\ l2'[k] = l2[k] /\ Keeps(k, Absent)
      /\ disturbed' = disturbed /\ req[r].client = {k} /\ q.rec = Absent
      /\ q.at = "getting" /\ req[r].at = "missed"
  BY <1>2 DEF SendGetDoes, Quiet
<1>4. \A j \in Instance : l1'[j].entry[k] \in {l1[j].entry[k], Absent}
  BY DEF SendGet
<1>5. ASSUME k \notin disturbed'
      PROVE  ExactOn(k)'
  <2>1. /\ ExactOn(k) /\ \A o \in Request \ {r} : k \notin req[o].client
        /\ IF l2[k] = Absent THEN OverBy(k) ELSE Latest(k, l2[k].data)
    BY <1>3, <1>5, OnlyOne
  <2>2. Heard(k, q)
    BY <1>3 DEF Heard
  <2> QED
    BY <1>3, <1>4, <2>1, <2>2, QuietExact
<1> QED
  BY <1>3, <1>5, ExactStep

LEMMA ExactHydrate ==
  ASSUME Frame, ExactInv, NEW r \in Request, Hydrate(r)
  PROVE  ExactInv'
<1>1. PICK k \in Key : \E q : HydrateDoes(r, k, q)
  BY HydrateFrame
<1>2. PICK q : HydrateDoes(r, k, q)
  BY <1>1
<1>3. PICK d : d = req[r].rec
  OBVIOUS
<1>4. /\ Frame' /\ Step(r, k, q) /\ grants' = grants /\ l2'[k] = l2[k] /\ Keeps(k, d)
      /\ disturbed' = disturbed /\ req[r].client = {k} /\ q.rec = d
      /\ q.at = "read" /\ req[r].at = "replied"
  BY <1>2, <1>3 DEF HydrateDoes, Quiet
<1>5. d = Absent => \A j \in Instance : l1'[j].entry[k] \in {l1[j].entry[k], Absent}
  BY <1>3 DEF Hydrate
<1>6. ASSUME k \notin disturbed'
      PROVE  ExactOn(k)'
  <2>1. /\ ExactOn(k) /\ \A o \in Request \ {r} : k \notin req[o].client
        /\ Heard(k, req[r])
        /\ IF l2[k] = Absent THEN OverBy(k) ELSE Latest(k, l2[k].data)
    BY <1>4, <1>6, OnlyOne
  <2>2. (d # Absent => Latest(k, d)) /\ (d = Absent => OverBy(k))
    BY <1>3, <1>4, <2>1 DEF Heard
  <2>3. Heard(k, q)
    BY <1>4, <2>2 DEF Heard
  <2> QED
    BY <1>4, <1>5, <2>1, <2>2, <2>3, QuietExact
<1> QED
  BY <1>4, <1>6, ExactStep

LEMMA ExactRefuse ==
  ASSUME Frame, ExactInv, NEW r \in Request, Refuse(r)
  PROVE  ExactInv'
<1>1. PICK k \in Key : \E q : /\ EndDoes(r, k, q) /\ Quiet /\ disturbed' = disturbed
                              /\ req[r].at # "setting"
  BY RefuseFrame
<1>2. PICK q : EndDoes(r, k, q) /\ Quiet /\ disturbed' = disturbed /\ req[r].at # "setting"
  BY <1>1
<1>3. /\ Frame' /\ Step(r, k, q) /\ grants' = grants /\ l2'[k] = l2[k] /\ Keeps(k, Absent)
      /\ disturbed' = disturbed /\ req[r].client = {k} /\ q.client = {}
      /\ req[r].at # "setting"
  BY <1>2, IdleTyped DEF EndDoes, Quiet
<1>4. \A j \in Instance : l1'[j].entry[k] \in {l1[j].entry[k], Absent}
  BY DEF Refuse
<1>5. ASSUME k \notin disturbed'
      PROVE  ExactOn(k)'
  <2>1. /\ ExactOn(k) /\ \A o \in Request \ {r} : k \notin req[o].client
        /\ IF l2[k] = Absent THEN OverBy(k) ELSE Latest(k, l2[k].data)
    BY <1>3, <1>5, OnlyOne
  <2>2. k \notin q.client
    BY <1>3
  <2> QED
    BY <1>3, <1>4, <2>1, <2>2, QuietExact
<1> QED
  BY <1>3, <1>5, ExactStep

\* Redis answers with the latest record, or with none once its window is over.
LEMMA ExactReads ==
  ASSUME Frame, TimelyInv, ExactInv, NEW r \in Request, RedisReads(r)
  PROVE  ExactInv'
<1>1. PICK k \in Key : \E q : ReadDoes(r, k, q)
  BY RedisReadsFrame
<1>2. PICK q : ReadDoes(r, k, q)
  BY <1>1
<1>3. /\ Frame' /\ Step(r, k, q) /\ grants' = grants /\ l2'[k] = l2[k] /\ Keeps(k, Absent)
      /\ disturbed' = disturbed /\ req[r].client = {k} /\ q.rec = RedisGet(l2, k, clock)
      /\ q.at = "replied" /\ req[r].at = "getting"
  BY <1>2 DEF ReadDoes, Quiet
<1>4. \A j \in Instance : l1'[j].entry[k] \in {l1[j].entry[k], Absent}
  BY DEF RedisReads, Pop
<1>5. ASSUME k \notin disturbed'
      PROVE  ExactOn(k)'
  <2>1. /\ ExactOn(k) /\ \A o \in Request \ {r} : k \notin req[o].client
        /\ IF l2[k] = Absent THEN OverBy(k) ELSE Latest(k, l2[k].data)
    BY <1>3, <1>5, OnlyOne
  <2>2. Heard(k, q)
    <3>1. CASE l2[k] = Absent
      <4>1. q.rec = Absent /\ OverBy(k)
        BY <1>3, <2>1, <3>1 DEF RedisGet
      <4> QED
        BY <4>1 DEF Heard
    <3>2. CASE l2[k] # Absent /\ Expired(l2[k], clock)
      <4>1. PICK e \in Entry : e = l2[k]
        BY <3>2 DEF Frame, Levels, MaybeEntry
      <4>2. PICK rec \in Record : rec = e.data
        BY RecordAssumption DEF Entry
      <4>3. Latest(k, rec) /\ Lasts(e)
        BY <2>1, <3>2, <4>1, <4>2 DEF TimelyInv
      <4>4. e.exp \in Nat /\ rec.until \in Nat /\ clock \in Nat
        BY RecordTyped DEF Entry, Frame, Levels
      <4>5. e.exp < clock /\ rec.until <= e.exp
        BY <3>2, <4>1, <4>2, <4>3, <4>4 DEF Expired, Lasts
      <4>6. rec.until < clock
        BY <4>4, <4>5
      <4>7. \A u \in 1..Horizon : u \in Nat
        BY SpanNat
      <4>8. \A u \in 1..Horizon : grants[k][u] > 0 => u < clock
        BY <4>3, <4>4, <4>6, <4>7 DEF Latest
      <4>9. q.rec = Absent
        BY <1>3, <3>2 DEF RedisGet
      <4> QED
        BY <4>8, <4>9 DEF Heard, OverBy
    <3>3. CASE l2[k] # Absent /\ ~Expired(l2[k], clock)
      <4>1. q.rec = l2[k].data /\ Latest(k, l2[k].data)
        BY <1>3, <2>1, <3>3 DEF RedisGet
      <4>2. q.rec # Absent
        BY <3>3, <4>1, RecordAssumption, DataAssumption DEF Frame, Levels, MaybeEntry, Entry
      <4> QED
        BY <4>1, <4>2 DEF Heard
    <3> QED
      BY <3>1, <3>2, <3>3
  <2> QED
    BY <1>3, <1>4, <2>1, <2>2, QuietExact
<1> QED
  BY <1>3, <1>5, ExactStep

LEMMA ExactWrites ==
  ASSUME Frame, ExactInv, NEW r \in Request, RedisWrites(r)
  PROVE  ExactInv'
<1>1. PICK k \in Key : \E q : WriteDoes(r, k, q)
  BY RedisWritesFrame
<1>2. PICK q : WriteDoes(r, k, q)
  BY <1>1
<1>3. /\ Frame' /\ Step(r, k, q) /\ grants' = grants /\ Keeps(k, Absent)
      /\ disturbed' = disturbed /\ req[r].client = {k} /\ q.client = {}
      /\ req[r].rec # Absent
      /\ l2'[k] = [data |-> req[r].rec, exp |-> Deadline(req[r].ttl, clock)]
  BY <1>2, IdleTyped DEF WriteDoes, EndDoes
<1>4. \A j \in Instance : l1'[j].entry[k] \in {l1[j].entry[k], Absent}
  BY DEF RedisWrites, Pop
<1>5. ASSUME k \notin disturbed'
      PROVE  ExactOn(k)'
  <2>1. /\ ExactOn(k) /\ \A o \in Request \ {r} : k \notin req[o].client
        /\ Heard(k, req[r])
    BY <1>3, <1>5, OnlyOne
  <2>2. l2'[k].data = req[r].rec
    BY <1>3
  <2>3. Latest(k, l2'[k].data)
    BY <1>3, <2>1, <2>2 DEF Heard
  <2>4. l2'[k] # Absent
    <3>1. PICK w \in State : w = req[r]
      BY DEF Frame, Requests
    <3>2. PICK x \in Nat : x = Deadline(w.ttl, clock)
      BY StateFields, DeadlineNat DEF Frame, Levels
    <3>3. w.rec \in Record
      BY <1>3, <3>1, StateFields
    <3>4. l2'[k] \in Entry
      BY <1>3, <3>1, <3>2, <3>3, RecordAssumption DEF Entry
    <3> QED
      BY <3>4, EntryAssumption
  <2>5. k \notin q.client
    BY <1>3
  <2> QED
    BY <1>3, <1>4, <2>1, <2>3, <2>4, <2>5, QuietExact
<1> QED
  BY <1>3, <1>5, ExactStep

LEMMA ExactFails ==
  ASSUME Frame, ExactInv, NEW r \in Request, CommandFails(r)
  PROVE  ExactInv'
<1>1. PICK k \in Key : \E q : FailDoes(r, k, q)
  BY CommandFailsFrame
<1>2. PICK q : FailDoes(r, k, q)
  BY <1>1
<1>3. Frame' /\ Step(r, k, q) /\ k \in disturbed'
  BY <1>2 DEF FailDoes
<1> QED
  BY <1>3, ExactStep

\* What an admitted request does to the grants of its client: one more in the latest
\* window, or the first one in a window after all others.
LEMMA AdmitCounts ==
  ASSUME Frame, NEW r \in Request, NEW k \in Key, ExactOn(k), NEW rec \in Record,
         NEW ttl, Heard(k, req[r]), req[r].at = "read",
         Opens(r, rec, ttl) \/ Counts(r, rec, ttl),
         grants' \in [Key -> [1..Horizon -> Nat]],
         grants'[k][rec.until] = grants[k][rec.until] + 1,
         \A u \in 1..Horizon : u # rec.until => grants'[k][u] = grants[k][u]
  PROVE  Latest(k, rec)' /\ CountedOn(k)'
<1>1. PICK x \in 1..Horizon : x = rec.until
  BY RecordTyped
<1>2. PICK g \in [1..Horizon -> Nat] : g = grants[k]
  BY DEF Frame, Grants
<1>3. PICK h \in [1..Horizon -> Nat] : h = grants'[k]
  OBVIOUS
<1>4. h[x] = g[x] + 1 /\ \A u \in 1..Horizon : u # x => h[u] = g[u]
  BY <1>1, <1>2, <1>3
<1>5. \A u \in 1..Horizon : u \in Nat
  BY SpanNat
<1>6. Span \in Nat /\ Span > 0 /\ Limit \in Nat
  BY SpanNat, LimitAssumption
<1>7. PICK t \in Nat : t = clock
  BY DEF Frame, Levels
<1>8. \A u \in 1..Horizon : g[u] > 0 =>
        /\ g[u] <= Limit
        /\ \A v \in 1..Horizon : v # u /\ g[v] > 0 => v > u + Span \/ u > v + Span
  BY <1>2 DEF ExactOn, CountedOn, Apart
<1>9. /\ h[x] = rec.count
      /\ \A u \in 1..Horizon : h[u] > 0 => u <= x
      /\ \A u \in 1..Horizon : u # x /\ g[u] > 0 => u + Span < x
  <2>1. CASE Opens(r, rec, ttl)
    <3>1. \A u \in 1..Horizon : g[u] > 0 => u < t
      BY <1>2, <1>7, <2>1 DEF Opens, Heard, OverBy
    <3>2. x = t + Span /\ rec.count = 1
      BY <1>1, <1>7, <2>1 DEF Opens
    <3>3. g[x] = 0
      <4>1. g[x] \in Nat /\ ~(x < t)
        BY <1>5, <1>6, <3>2
      <4>2. ~(g[x] > 0)
        BY <3>1, <4>1
      <4> QED
        BY <4>1, <4>2
    <3>4. h[x] = rec.count
      BY <1>4, <3>2, <3>3
    <3>5. \A u \in 1..Horizon : u # x /\ g[u] > 0 => u + Span < x
      BY <1>5, <1>6, <3>1, <3>2
    <3>6. \A u \in 1..Horizon : h[u] > 0 => u <= x
      BY <1>4, <1>5, <1>6, <3>1, <3>2
    <3> QED
      BY <3>4, <3>5, <3>6
  <2>2. CASE Counts(r, rec, ttl)
    <3>1. PICK d \in Record : d = req[r].rec
      BY <2>2 DEF Counts
    <3>2. Latest(k, d) /\ d.count \in Nat /\ d.count > 0
      BY <3>1, RecordTyped DEF Heard
    <3>3. d.until = x /\ rec.count = d.count + 1
      BY <1>1, <2>2, <3>1 DEF Counts
    <3>4. g[x] = d.count /\ \A u \in 1..Horizon : g[u] > 0 => u <= x
      BY <1>2, <3>2, <3>3 DEF Latest
    <3>5. h[x] = rec.count
      BY <1>4, <3>3, <3>4
    <3>6. \A u \in 1..Horizon : h[u] > 0 => u <= x
      BY <1>4, <1>5, <3>4
    <3>7. \A u \in 1..Horizon : u # x /\ g[u] > 0 => u + Span < x
      <4> SUFFICES ASSUME NEW u \in 1..Horizon, u # x, g[u] > 0
                   PROVE  u + Span < x
        OBVIOUS
      <4>1. g[x] > 0
        BY <3>2, <3>4
      <4>2. u > x + Span \/ x > u + Span
        BY <1>8, <4>1
      <4>3. u <= x /\ u \in Nat /\ x \in Nat
        BY <1>5, <3>4
      <4> QED
        BY <1>6, <4>2, <4>3
    <3> QED
      BY <3>5, <3>6, <3>7
  <2> QED
    BY <2>1, <2>2
<1>10. Latest(k, rec)'
  BY <1>1, <1>3, <1>9 DEF Latest
<1>11. h[x] <= Limit
  BY <1>9, RecordTyped, <1>6
<1>12. ASSUME NEW u \in 1..Horizon, h[u] > 0
       PROVE  /\ h[u] <= Limit
              /\ \A v \in 1..Horizon : v # u /\ h[v] > 0 => v > u + Span \/ u > v + Span
  <2>1. CASE u = x
    <3>1. ASSUME NEW v \in 1..Horizon, v # u, h[v] > 0
          PROVE  u > v + Span
      <4>1. g[v] > 0
        BY <1>4, <2>1, <3>1
      <4>2. v + Span < x
        BY <1>9, <2>1, <3>1, <4>1
      <4> QED
        BY <1>5, <1>6, <2>1, <4>2
    <3> QED
      BY <1>11, <2>1, <3>1
  <2>2. CASE u # x
    <3>1. h[u] = g[u] /\ g[u] > 0
      BY <1>4, <1>12, <2>2
    <3>2. ASSUME NEW v \in 1..Horizon, v # u, h[v] > 0
          PROVE  v > u + Span \/ u > v + Span
      <4>1. CASE v = x
        <5>1. u + Span < x
          BY <1>9, <2>2, <3>1
        <5> QED
          BY <1>5, <1>6, <4>1, <5>1
      <4>2. CASE v # x
        <5>1. g[v] > 0
          BY <1>4, <3>2, <4>2
        <5> QED
          BY <1>8, <3>1, <3>2, <5>1
      <4> QED
        BY <4>1, <4>2
    <3> QED
      BY <1>8, <3>1, <3>2
  <2> QED
    BY <2>1, <2>2
<1>13. CountedOn(k)'
  BY <1>3, <1>12 DEF CountedOn, Apart
<1> QED
  BY <1>10, <1>13

LEMMA ExactAdmits ==
  ASSUME Frame, ExactInv, NEW r \in Request, OpenWindow(r) \/ CountRequest(r)
  PROVE  ExactInv'
<1>1. PICK k \in Key, rec \in Record, ttl \in Nat : \E q :
        AdmitDoes(r, k, q, rec, ttl) /\ (Opens(r, rec, ttl) \/ Counts(r, rec, ttl))
  BY GuardAdmits
<1>2. PICK q : AdmitDoes(r, k, q, rec, ttl) /\ (Opens(r, rec, ttl) \/ Counts(r, rec, ttl))
  BY <1>1
<1>3. PICK i : i = On(r)
  OBVIOUS
<1>4. /\ Frame' /\ Step(r, k, q) /\ req[r].client = {k} /\ q.client = {k}
      /\ req[r].at = "read" /\ i \in Instance /\ q.at = "setting" /\ q.rec = rec
      /\ l1'[i].entry[k].data = rec
      /\ \A j \in Instance \ {i} : l1'[j] = l1[j]
      /\ grants'[k][rec.until] = grants[k][rec.until] + 1
      /\ \A u \in 1..Horizon : u # rec.until => grants'[k][u] = grants[k][u]
      /\ disturbed' = disturbed \cup Drift(i, k)
  BY <1>2, <1>3 DEF AdmitDoes
<1>5. ASSUME k \notin disturbed'
      PROVE  ExactOn(k)'
  <2>1. /\ ExactOn(k) /\ \A o \in Request \ {r} : k \notin req[o].client
        /\ Heard(k, req[r])
    BY <1>4, <1>5, OnlyOne
  <2>2. \A j \in Instance \ {i} : k \notin Held(l1'[j])
    BY <1>4, <1>5 DEF Drift
  <2>3. grants' \in [Key -> [1..Horizon -> Nat]]
    BY <1>4 DEF Frame, Grants
  <2>4. Latest(k, rec)' /\ CountedOn(k)'
    BY <1>2, <1>4, <2>1, <2>3, AdmitCounts
  <2>5. req'[r] = q /\ \A o \in Request : k \in req'[o].client => o = r
    BY <1>4, <2>1 DEF Step, Others
  <2>6. AloneOn(k)'
    BY <2>5 DEF AloneOn
  <2>7. FreshOn(k)'
    <3>1. SUFFICES ASSUME NEW j \in Instance, Fresh(l1'[j], k, clock')
                   PROVE  Latest(k, l1[j].entry[k].data)'
      BY DEF FreshOn
    <3>2. j = i
      BY <2>2, <3>1 DEF Fresh, Held
    <3>3. l1'[j].entry[k].data = rec
      BY <1>4, <3>2
    <3> QED
      BY <2>4, <3>3 DEF Latest
  <2>8. SettledOn(k)'
    BY <1>4, <2>5 DEF SettledOn
  <2>9. HeardOn(k)'
    <3>1. SUFFICES ASSUME NEW o \in Request, k \in req'[o].client
                   PROVE  Heard(k, req[o])'
      BY DEF HeardOn
    <3>2. req'[o] = q
      BY <2>5, <3>1
    <3>3. rec # Absent
      BY RecordTyped
    <3> QED
      BY <1>4, <2>4, <3>2, <3>3 DEF Heard, Latest
  <2> QED
    BY <2>4, <2>6, <2>7, <2>8, <2>9 DEF ExactOn
<1> QED
  BY <1>4, <1>5, ExactStep

\* Redis drops a record only once its window is over.
LEMMA ExactTick ==
  ASSUME Frame, TimelyInv, ExactInv, Tick
  PROVE  ExactInv'
<1>1. /\ Frame' /\ clock' = clock + 1 /\ grants' = grants /\ req' = req /\ l1' = l1
      /\ \A k \in Key : l2'[k] = l2[k] \/ (l2'[k] = Absent /\ Expired(l2[k], clock'))
      /\ disturbed' = disturbed
  BY TickFrame DEF Tick
<1> SUFFICES ASSUME NEW k \in Key \ disturbed
             PROVE  ExactOn(k)'
  BY <1>1 DEF ExactInv
<1>2. ExactOn(k)
  BY DEF ExactInv
<1>3. AloneOn(k)' /\ CountedOn(k)'
  BY <1>1, <1>2, CountedStays DEF ExactOn, AloneOn
<1>4. FreshOn(k)'
  <2>1. Keeps(k, Absent) /\ \A i \in Instance : l1'[i].entry[k] \in {l1[i].entry[k], Absent}
    BY <1>1 DEF Keeps
  <2> QED
    BY <1>1, <1>2, <2>1, FreshStays DEF ExactOn
<1>5. OverBy(k) => OverBy(k)'
  BY <1>1, OverStays
<1>6. \A rec : Latest(k, rec) <=> Latest(k, rec)'
  BY <1>1, LatestStays
<1>7. HeardOn(k)'
  <2>1. SUFFICES ASSUME NEW r \in Request, k \in req'[r].client
                 PROVE  Heard(k, req[r])'
    BY DEF HeardOn
  <2>2. PICK q : q = req[r] /\ req'[r] = q
    BY <1>1
  <2>3. Heard(k, q)
    BY <1>2, <2>1, <2>2 DEF ExactOn, HeardOn
  <2>4. Heard(k, q)'
    BY <1>5, <1>6, <2>3 DEF Heard
  <2> QED
    BY <2>2, <2>4 DEF Heard, Latest
<1>8. SettledOn(k)'
  <2>1. SUFFICES ASSUME \A r \in Request : k \in req'[r].client => req'[r].at # "setting"
                 PROVE  IF l2'[k] = Absent THEN OverBy(k)' ELSE Latest(k, l2[k].data)'
    BY DEF SettledOn
  <2>2. IF l2[k] = Absent THEN OverBy(k) ELSE Latest(k, l2[k].data)
    BY <1>1, <1>2, <2>1 DEF ExactOn, SettledOn
  <2>3. CASE l2[k] = Absent
    BY <1>1, <1>5, <2>2, <2>3
  <2>4. CASE l2[k] # Absent /\ l2'[k] = l2[k]
    <3>1. PICK rec : rec = l2[k].data
      OBVIOUS
    <3>2. Latest(k, rec)'
      BY <1>6, <2>2, <2>4, <3>1
    <3> QED
      BY <2>4, <3>1, <3>2 DEF Latest
  <2>5. CASE l2[k] # Absent /\ l2'[k] = Absent /\ Expired(l2[k], clock')
    <3>1. PICK e \in Entry : e = l2[k]
      BY <2>5 DEF Frame, Levels, MaybeEntry
    <3>2. PICK rec \in Record : rec = e.data
      BY RecordAssumption DEF Entry
    <3>3. Latest(k, rec) /\ Lasts(e)
      BY <2>2, <2>5, <3>1, <3>2 DEF TimelyInv
    <3>4. PICK n \in Nat : n = clock'
      BY <1>1 DEF Frame, Levels
    <3>5. e.exp \in Nat /\ rec.until \in Nat
      BY RecordTyped DEF Entry
    <3>6. e.exp < n /\ rec.until <= e.exp
      BY <2>5, <3>1, <3>2, <3>3, <3>4, <3>5 DEF Expired, Lasts
    <3>7. rec.until < n
      BY <3>5, <3>6
    <3>8. \A u \in 1..Horizon : u \in Nat
      BY SpanNat
    <3>9. \A u \in 1..Horizon : grants[k][u] > 0 => u < n
      BY <3>3, <3>5, <3>7, <3>8 DEF Latest
    <3>10. OverBy(k)'
      BY <1>1, <3>4, <3>9 DEF OverBy
    <3> QED
      BY <2>5, <3>10
  <2> QED
    BY <1>1, <2>3, <2>4, <2>5
<1> QED
  BY <1>3, <1>4, <1>7, <1>8 DEF ExactOn

LEMMA ExactRestart ==
  ASSUME Frame, ExactInv, NEW i \in Instance, Restart(i)
  PROVE  ExactInv'
<1>1. /\ Frame' /\ clock' = clock /\ grants' = grants /\ l2' = l2
      /\ disturbed \subseteq disturbed'
      /\ \A r \in Request : \/ req'[r] = req[r]
                            \/ req'[r] = Idle /\ req[r].client \subseteq disturbed'
      /\ \A j \in Instance : Less(l1'[j], l1[j], {})
  BY RestartFrame
<1> SUFFICES ASSUME NEW k \in Key \ disturbed'
             PROVE  ExactOn(k)'
  BY DEF ExactInv
<1>2. ExactOn(k)
  BY <1>1 DEF ExactInv
<1>3. \A r \in Request : k \in req[r].client \/ k \in req'[r].client => req'[r] = req[r]
  BY <1>1, IdleTyped
<1>4. \A j \in Instance : l1'[j].entry[k] \in {l1[j].entry[k], Absent}
  BY <1>1 DEF Less
<1>5. Untouched(k)
  BY <1>1, <1>3, <1>4 DEF Untouched
<1> QED
  BY <1>1, <1>2, <1>5, UntouchedExact

LEMMA ExactInit == ASSUME Init PROVE ExactInv
<1> SUFFICES ASSUME NEW k \in Key
             PROVE  ExactOn(k)
  BY DEF ExactInv
<1>1. \A r \in Request : k \notin req[r].client
  BY IdleTyped DEF Init
<1>2. \A i \in Instance : ~Fresh(l1[i], k, clock)
  BY DEF Init, EmptyStore, Fresh
<1>3. \A u \in 1..Horizon : grants[k][u] = 0
  BY DEF Init
<1>4. l2[k] = Absent
  BY DEF Init, EmptyRedis
<1>5. AloneOn(k) /\ HeardOn(k) /\ FreshOn(k)
  BY <1>1, <1>2 DEF AloneOn, HeardOn, FreshOn
<1>6. SettledOn(k) /\ CountedOn(k)
  BY <1>3, <1>4 DEF SettledOn, OverBy, CountedOn
<1> QED
  BY <1>5, <1>6 DEF ExactOn

-----------------------------------------------------------------------------
(* The invariant                                                           *)

Inv == Frame /\ EarnedInv /\ TimelyInv /\ ExactInv

LEMMA InitInv == Init => Inv
<1> SUFFICES ASSUME Init
             PROVE  Inv
  OBVIOUS
<1>1. Frame
  BY InitFrame
<1> QED
  BY <1>1, EarnedInit, TimelyInit, ExactInit DEF Inv

LEMMA FrameNext == ASSUME Frame, Next PROVE Frame'
<1>1. ASSUME NEW r \in Request, NEW i \in Instance, NEW k \in Key, Arrive(r, i, k)
      PROVE  Frame'
  BY <1>1, ArriveFrame DEF ArriveDoes
<1>2. ASSUME NEW r \in Request
      PROVE  /\ SendGet(r) \/ Hydrate(r) \/ RedisReads(r) => Frame'
             /\ Refuse(r) \/ RedisWrites(r) \/ CommandFails(r) => Frame'
             /\ OpenWindow(r) \/ CountRequest(r) => Frame'
  <2>1. SendGet(r) => Frame'
    BY SendGetFrame DEF SendGetDoes
  <2>2. Hydrate(r) => Frame'
    BY HydrateFrame DEF HydrateDoes
  <2>3. RedisReads(r) => Frame'
    BY RedisReadsFrame DEF ReadDoes
  <2>4. Refuse(r) => Frame'
    BY RefuseFrame DEF EndDoes
  <2>5. RedisWrites(r) => Frame'
    BY RedisWritesFrame DEF WriteDoes, EndDoes
  <2>6. CommandFails(r) => Frame'
    BY CommandFailsFrame DEF FailDoes
  <2>7. OpenWindow(r) \/ CountRequest(r) => Frame'
    BY GuardAdmits DEF AdmitDoes
  <2> QED
    BY <2>1, <2>2, <2>3, <2>4, <2>5, <2>6, <2>7
<1>3. ASSUME NEW i \in Instance, Restart(i)
      PROVE  Frame'
  BY <1>3, RestartFrame
<1>4. Tick => Frame'
  BY TickFrame
<1> QED
  BY <1>1, <1>2, <1>3, <1>4 DEF Next

LEMMA NextInv == Inv /\ [Next]_vars => Inv'
<1> SUFFICES ASSUME Inv, [Next]_vars
             PROVE  Inv'
  OBVIOUS
<1>1. Frame /\ EarnedInv /\ TimelyInv /\ ExactInv
  BY DEF Inv
<1>2. ASSUME NEW r \in Request, NEW i \in Instance, NEW k \in Key, Arrive(r, i, k)
      PROVE  EarnedInv' /\ TimelyInv' /\ ExactInv'
  BY <1>1, <1>2, EarnedArrive, TimelyReads, ExactArrive
<1>3. ASSUME NEW r \in Request, SendGet(r) \/ Hydrate(r) \/ RedisReads(r)
      PROVE  EarnedInv' /\ TimelyInv' /\ ExactInv'
  BY <1>1, <1>3, EarnedReads, TimelyReads, ExactSendGet, ExactHydrate, ExactReads
<1>4. ASSUME NEW r \in Request, Refuse(r) \/ CommandFails(r)
      PROVE  EarnedInv' /\ TimelyInv' /\ ExactInv'
  BY <1>1, <1>4, EarnedEnds, TimelyReads, ExactRefuse, ExactFails
<1>5. ASSUME NEW r \in Request, RedisWrites(r)
      PROVE  EarnedInv' /\ TimelyInv' /\ ExactInv'
  BY <1>1, <1>5, EarnedEnds, TimelyWrites, ExactWrites
<1>6. ASSUME NEW r \in Request, OpenWindow(r) \/ CountRequest(r)
      PROVE  EarnedInv' /\ TimelyInv' /\ ExactInv'
  BY <1>1, <1>6, EarnedAdmits, TimelyAdmits, ExactAdmits
<1>7. ASSUME NEW i \in Instance, Restart(i)
      PROVE  EarnedInv' /\ TimelyInv' /\ ExactInv'
  BY <1>1, <1>7, EarnedRestart, TimelyRestart, ExactRestart
<1>8. Tick => EarnedInv' /\ TimelyInv' /\ ExactInv'
  BY <1>1, EarnedTick, TimelyTick, ExactTick
<1>9. CASE Next
  <2>1. Frame'
    BY <1>1, <1>9, FrameNext
  <2>2. EarnedInv' /\ TimelyInv' /\ ExactInv'
    BY <1>2, <1>3, <1>4, <1>5, <1>6, <1>7, <1>8, <1>9 DEF Next
  <2> QED
    BY <2>1, <2>2 DEF Inv
<1>10. CASE UNCHANGED vars
  <2>1. /\ clock' = clock /\ l1' = l1 /\ l2' = l2 /\ req' = req /\ grants' = grants
        /\ disturbed' = disturbed
    BY <1>10 DEF vars
  <2>2. Frame'
    BY <1>1, <2>1 DEF Frame, Requests, Levels, Grants
  <2>3. EarnedInv'
    BY <1>1, <2>1 DEF EarnedInv, Somewhere, Earned
  <2>4. TimelyInv'
    BY <1>1, <2>1 DEF TimelyInv, Covers, Lasts
  <2>5. ASSUME NEW k \in Key, k \notin disturbed'
        PROVE  ExactOn(k)'
    <3>1. ExactOn(k)
      BY <1>1, <2>1, <2>5 DEF ExactInv
    <3>2. Untouched(k)
      BY <2>1 DEF Untouched
    <3> QED
      BY <1>1, <2>2, <3>1, <3>2, UntouchedExact
  <2>6. ExactInv'
    BY <2>5 DEF ExactInv
  <2> QED
    BY <2>2, <2>3, <2>4, <2>6 DEF Inv
<1> QED
  BY <1>9, <1>10

LEMMA InvHolds == Spec => []Inv
  BY InitInv, NextInv, PTL DEF Spec

\* A request is refused only if as many requests as the limit were admitted in the
\* window of the record it was refused for, wherever that record came from, however
\* requests interleave and whatever is lost (rate-limit.guard.ts, canActivate).
THEOREM RefusalsAreEarned == Spec => RefusalEarned
<1>1. Inv /\ [Next]_vars => [\A r \in Request : Refuse(r) /\ Count(r) > 0 =>
                               grants[Client(r)][req[r].rec.until] >= Limit]_vars
  <2> SUFFICES ASSUME Inv, NEW r \in Request, Refuse(r), Count(r) > 0
               PROVE  grants[Client(r)][req[r].rec.until] >= Limit
    OBVIOUS
  <2>1. Frame /\ EarnedInv
    BY DEF Inv
  <2>2. PICK k \in Key : Client(r) = k /\ req[r].client = {k} /\ On(r) \in Instance
    BY <2>1, ClientIs DEF Refuse, Decides
  <2>3. req[r].rec # Absent
    BY DEF Count
  <2>4. PICK rec \in Record : rec = req[r].rec
    BY <2>1, <2>3, StateFields DEF Frame, Requests
  <2>5. Earned(k, rec)
    BY <2>1, <2>2, <2>4 DEF EarnedInv, Somewhere
  <2>6. rec.count >= Limit
    BY <2>3, <2>4 DEF Refuse, Count
  <2>7. rec.count \in Nat /\ Limit \in Nat /\ grants[k][rec.until] \in Nat
    BY <2>1, RecordTyped, LimitAssumption DEF Frame, Grants
  <2> QED
    BY <2>2, <2>4, <2>5, <2>6, <2>7 DEF Earned
<1> QED
  BY <1>1, InvHolds, PTL DEF Spec, RefusalEarned

\* Redis keeps a client's record at least until its window is over, and forgets it
\* within another window and a second: the rounded-up time to live the guard sends
\* covers the rest of the window also when the command is delayed (rate-limit.guard.ts,
\* canActivate).
THEOREM RecordsGoWithTheirWindow == Spec => []ForgottenWithWindow
<1>1. Inv => ForgottenWithWindow
  <2> SUFFICES ASSUME Inv, NEW k \in Key, l2[k] # Absent, clock < l2[k].data.until
               PROVE  /\ l2[k].exp # Never
                      /\ l2[k].exp >= l2[k].data.until
                      /\ l2[k].exp < l2[k].data.until + (Window + 1) * Second
    BY DEF ForgottenWithWindow
  <2>1. Frame /\ Lasts(l2[k])
    BY DEF Inv, TimelyInv
  <2>2. PICK e \in Entry : e = l2[k]
    BY <2>1 DEF Frame, Levels, MaybeEntry
  <2>3. e.data.until \in Nat /\ e.exp \in Nat /\ clock \in Nat
    BY <2>1, RecordTyped, RecordAssumption DEF Entry, Frame, Levels
  <2>4. (Window + 1) * Second = Span + Second
    BY LimitAssumption, SecondAssumption DEF Span
  <2>5. e.exp # Never
    BY <2>1, <2>2, <2>3 DEF Lasts
  <2>6. e.exp >= e.data.until /\ e.exp < e.data.until + (Span + Second)
    BY <2>1, <2>2, <2>3, <2>5 DEF Lasts
  <2> QED
    BY <2>2, <2>4, <2>5, <2>6
<1> QED
  BY <1>1, InvHolds, PTL

\* A client whose requests come one after another to one instance, with no command
\* lost, is admitted at most as often as the limit in a window, and its windows do not
\* overlap (rate-limit.guard.ts, canActivate; cache.service.ts, get and set).
THEOREM ExactWhenInSequence == Spec => []ExactInSequence
<1>1. Inv => ExactInSequence
  <2> SUFFICES ASSUME Inv, NEW k \in Key \ disturbed
               PROVE  \A u \in 1..Horizon : grants[k][u] > 0 =>
                        /\ grants[k][u] <= Limit
                        /\ \A v \in 1..Horizon : v # u /\ grants[k][v] > 0 =>
                             v > u + Window * Second \/ u > v + Window * Second
    BY DEF ExactInSequence
  <2>1. CountedOn(k)
    BY DEF Inv, ExactInv, ExactOn
  <2> QED
    BY <2>1 DEF CountedOn, Apart, Span
<1> QED
  BY <1>1, InvHolds, PTL
=============================================================================
