------------------------ MODULE TwoLevelCacheProofs ------------------------
(***************************************************************************)
(* Theorems of TwoLevelCache, for every set of instances, fibers and keys: *)
(* the level-1 stores stay bounded, and as long as the calls on a key do   *)
(* not overlap, fail or drift apart, both levels agree with the last       *)
(* write, a callback runs once per marker and a flush clears its keys.     *)
(*                                                                         *)
(* The order of the commands in a queue plays no part: what keeps a key    *)
(* coherent is that nobody else is at work on it.  The invariant is        *)
(* therefore stated key by key, and relates what each fiber has read or    *)
(* has still to do to the value the key should have.                       *)
(***************************************************************************)
EXTENDS TwoLevelCache, CacheStoreProofs

-----------------------------------------------------------------------------
(* Types, and where a fiber may stand in its call                          *)

Stands(q, d) ==
  \/ d.op = "get" /\ q.cmd = "GET" /\ q.at \in {"missed", "sent", "replied"}
  \/ d.op = "once" /\ q.cmd = "GET" /\ q.at \in {"missed", "sent", "replied", "running"}
  \/ d.op \in {"once", "set"} /\ q.cmd = "SET" /\ q.at \in {"sent", "replied"}
  \/ d.op = "del" /\ q.cmd = "DEL" /\ q.at \in {"sent", "replied"}
  \/ d.op = "flush" /\ q.cmd \in {"SCAN", "DEL", "FLUSHDB"} /\ q.at \in {"sent", "replied"}

\* Fiber state q belongs to call d.
InCall(q, d) ==
  IF q.at = "idle" THEN q = Idle /\ d = NoCall
  ELSE /\ d.on \in Instance
       /\ Stands(q, d)
       /\ d.op \in {"get", "set", "once"} => \E k \in Key : d.keys = {k}
       /\ d.op \in {"set", "once"} => d.data \in Data
       /\ d.op = "once" => d.data = Marker
       /\ q.at \in {"missed", "sent"} /\ q.cmd = "GET" => q.got = Absent
       /\ q.todo \subseteq d.keys /\ q.found \subseteq d.keys
       /\ q.cmd = "FLUSHDB" => q.todo = {} /\ q.found = {}

\* A write that met an error has left its keys disturbed.
Failed(q, d, ks) == q.at # "idle" /\ Writes(d.op) /\ ~q.ok => d.keys \subseteq ks

Fibers ==
  /\ wait \in [Fiber -> Wait] /\ call \in [Fiber -> Call]
  /\ \A c \in Fiber : InCall(wait[c], call[c])

Levels ==
  /\ clock \in Nat /\ faults \in Nat
  /\ l1 \in [Instance -> Store]
  /\ \A i \in Instance : Good(l1[i]) /\ Size(l1[i]) <= Capacity
  /\ l2 \in [Key -> MaybeEntry]

Aux ==
  /\ truth \in [Key -> Data \cup {Absent}]
  /\ disturbed \subseteq Key
  /\ ran \in [Key -> Nat]
  /\ touched \in [Fiber -> SUBSET Key]
  /\ \A c \in Fiber : Failed(wait[c], call[c], disturbed)

Frame == Fibers /\ Levels /\ Aux

\* Fiber c moves on to state q of call d.
Moves(c, q, d) == wait' = [wait EXCEPT ![c] = q] /\ call' = [call EXCEPT ![c] = d]

LEMMA IdleTyped == Idle \in Wait /\ NoCall \in Call /\ InCall(Idle, NoCall)
  BY DEF Idle, Wait, Cmd, NoCall, Call, Op, NoTtl, InCall

LEMMA InitFrame == Init => Frame
<1> SUFFICES ASSUME Init
             PROVE  Frame
  OBVIOUS
<1>1. Fibers
  BY IdleTyped DEF Init, Fibers
<1>2. Good(EmptyStore) /\ Size(EmptyStore) = 0
  BY EmptyStoreGood, FS_EmptySet DEF Size
<1>3. Levels
  BY <1>2, CapacityNat DEF Init, Levels, EmptyRedis, MaybeEntry, Good
<1>4. Aux
  BY DEF Init, Aux, Failed, Idle
<1> QED
  BY <1>1, <1>3, <1>4 DEF Frame

LEMMA MovesFrame ==
  ASSUME Frame, NEW c \in Fiber, NEW q \in Wait, NEW d \in Call, Moves(c, q, d),
         InCall(q, d), Failed(q, d, disturbed'), disturbed \subseteq disturbed'
  PROVE  /\ Fibers' /\ wait'[c] = q /\ call'[c] = d
         /\ \A o \in Fiber \ {c} : wait'[o] = wait[o] /\ call'[o] = call[o]
         /\ \A o \in Fiber : Failed(wait'[o], call'[o], disturbed')
<1>1. /\ wait' \in [Fiber -> Wait] /\ call' \in [Fiber -> Call]
      /\ wait'[c] = q /\ call'[c] = d
      /\ \A o \in Fiber \ {c} : wait'[o] = wait[o] /\ call'[o] = call[o]
  BY DEF Moves, Frame, Fibers
<1>2. Fibers'
  BY <1>1 DEF Frame, Fibers
<1>3. \A o \in Fiber : Failed(wait'[o], call'[o], disturbed')
  BY <1>1 DEF Frame, Aux, Failed
<1> QED
  BY <1>1, <1>2, <1>3

\* Instance i replaces its store.
LEMMA StoreLevels ==
  ASSUME Levels, NEW i \in Instance, NEW m, Good(m), Size(m) <= Capacity,
         l1' = [l1 EXCEPT ![i] = m], clock' \in Nat, faults' \in Nat,
         l2' \in [Key -> MaybeEntry]
  PROVE  Levels'
<1>1. m \in Store
  BY DEF Good
<1>2. l1' \in [Instance -> Store]
  BY <1>1 DEF Levels
<1>3. \A j \in Instance : Good(l1'[j]) /\ Size(l1'[j]) <= Capacity
  BY DEF Levels
<1> QED
  BY <1>2, <1>3 DEF Levels

\* Instance i puts a value into its store.
LEMMA SetFrame ==
  ASSUME Frame, NEW i \in Instance, NEW k \in Key, NEW d \in Data, NEW ttl \in Nat \cup {NoTtl},
         l1' = [l1 EXCEPT ![i] = MemorySet(@, k, d, ttl, clock)],
         clock' \in Nat, faults' \in Nat, l2' \in [Key -> MaybeEntry]
  PROVE  /\ Levels'
         /\ \A j \in Instance : Less(l1'[j], l1[j], {k})
         /\ l1'[i].entry[k].data = d
         /\ \A j \in Instance \ {i} : l1'[j] = l1[j]
<1>1. PICK m : m = MemorySet(l1[i], k, d, ttl, clock)
  OBVIOUS
<1>2. Good(l1[i]) /\ Size(l1[i]) <= Capacity /\ clock \in Nat
  BY DEF Frame, Levels
<1>3. Good(m) /\ Size(m) <= Capacity /\ Less(m, l1[i], {k}) /\ m.entry[k].data = d
  <2>1. PICK s : s = l1[i]
    OBVIOUS
  <2>2. PICK t \in Nat : t = clock
    BY <1>2
  <2>3. Good(s) /\ Size(s) <= Capacity /\ m = MemorySet(s, k, d, ttl, t)
    BY <1>1, <1>2, <2>1, <2>2
  <2>4. Good(MemorySet(s, k, d, ttl, t))
    BY <2>3, MemorySetLess
  <2>5. Size(MemorySet(s, k, d, ttl, t)) <= Capacity
    BY <2>3, MemorySetLess
  <2>6. Less(MemorySet(s, k, d, ttl, t), s, {k})
    BY <2>3, MemorySetLess
  <2>7. MemorySet(s, k, d, ttl, t).entry[k].data = d
    BY <2>3, MemorySetData
  <2> QED
    BY <2>1, <2>3, <2>4, <2>5, <2>6, <2>7
<1>4. l1' = [l1 EXCEPT ![i] = m] /\ l1 \in [Instance -> Store]
  BY <1>1 DEF Frame, Levels
<1>5. Levels'
  BY <1>3, <1>4, StoreLevels DEF Frame
<1>6. l1'[i] = m /\ \A j \in Instance \ {i} : l1'[j] = l1[j]
  BY <1>4
<1>7. \A j \in Instance : Less(l1'[j], l1[j], {k})
  BY <1>3, <1>6 DEF Less
<1> QED
  BY <1>3, <1>5, <1>6, <1>7

-----------------------------------------------------------------------------
(* Every step keeps the types, and moves one fiber                         *)

Others(c) == \A o \in Fiber \ {c} : wait'[o] = wait[o] /\ call'[o] = call[o]

LEMMA WaitFields ==
  ASSUME NEW w \in Wait
  PROVE  /\ w.cmd \in Cmd /\ w.ok \in BOOLEAN /\ w.got \in Data \cup {Absent}
         /\ w.todo \in SUBSET Key /\ w.found \in SUBSET Key
         /\ DOMAIN w = {"at", "cmd", "ok", "got", "todo", "found"}
  BY DEF Wait

LEMMA WaitAt ==
  ASSUME NEW w \in Wait, NEW a \in {"idle", "missed", "sent", "replied", "running"}
  PROVE  /\ [w EXCEPT !.at = a] \in Wait
         /\ [w EXCEPT !.at = a].at = a /\ [w EXCEPT !.at = a].cmd = w.cmd
         /\ [w EXCEPT !.at = a].ok = w.ok /\ [w EXCEPT !.at = a].got = w.got
         /\ [w EXCEPT !.at = a].todo = w.todo /\ [w EXCEPT !.at = a].found = w.found
<1>1. [w EXCEPT !.at = a] \in Wait
  BY DEF Wait
<1> QED
  BY <1>1, WaitFields

LEMMA WaitCmd ==
  ASSUME NEW w \in Wait, NEW m \in Cmd
  PROVE  /\ [w EXCEPT !.cmd = m] \in Wait
         /\ [w EXCEPT !.cmd = m].at = w.at /\ [w EXCEPT !.cmd = m].cmd = m
         /\ [w EXCEPT !.cmd = m].ok = w.ok /\ [w EXCEPT !.cmd = m].got = w.got
         /\ [w EXCEPT !.cmd = m].todo = w.todo /\ [w EXCEPT !.cmd = m].found = w.found
<1>1. [w EXCEPT !.cmd = m] \in Wait
  BY DEF Wait
<1> QED
  BY <1>1, WaitFields

LEMMA WaitBoth ==
  ASSUME NEW w \in Wait, NEW a \in {"idle", "missed", "sent", "replied", "running"},
         NEW m \in Cmd
  PROVE  /\ [w EXCEPT !.cmd = m, !.at = a] = [[w EXCEPT !.cmd = m] EXCEPT !.at = a]
         /\ [w EXCEPT !.at = a, !.cmd = m] = [[w EXCEPT !.cmd = m] EXCEPT !.at = a]
<1>1. DOMAIN w = {"at", "cmd", "ok", "got", "todo", "found"}
  BY WaitFields
<1>2. [w EXCEPT !.cmd = m, !.at = a] = [[w EXCEPT !.cmd = m] EXCEPT !.at = a]
  BY <1>1
<1>3. [w EXCEPT !.at = a, !.cmd = m] = [[w EXCEPT !.cmd = m] EXCEPT !.at = a]
  BY <1>1
<1> QED
  BY <1>2, <1>3

LEMMA SentTyped ==
  ASSUME NEW m \in Cmd
  PROVE  /\ Sent(m) \in Wait
         /\ Sent(m).at = "sent" /\ Sent(m).cmd = m /\ Sent(m).ok = TRUE /\ Sent(m).got = Absent
         /\ Sent(m).todo = {} /\ Sent(m).found = {}
<1>1. PICK w : w = Idle
  OBVIOUS
<1>2. /\ w \in Wait /\ w.at = "idle" /\ w.ok = TRUE /\ w.got = Absent /\ w.todo = {}
      /\ w.found = {}
  BY <1>1, IdleTyped DEF Idle
<1>3. PICK x : x = [w EXCEPT !.cmd = m]
  OBVIOUS
<1>4. /\ x \in Wait /\ x.cmd = m /\ x.ok = w.ok /\ x.got = w.got
      /\ x.todo = w.todo /\ x.found = w.found
  BY <1>2, <1>3, WaitCmd
<1>5. PICK s : s = [x EXCEPT !.at = "sent"]
  OBVIOUS
<1>6. /\ s \in Wait /\ s.at = "sent" /\ s.cmd = m /\ s.ok = x.ok /\ s.got = x.got
      /\ s.todo = x.todo /\ s.found = x.found
  BY <1>4, <1>5, WaitAt
<1>7. Sent(m) = [w EXCEPT !.at = "sent", !.cmd = m]
  BY <1>1 DEF Sent
<1>8. Sent(m) = s
  BY <1>2, <1>3, <1>5, <1>7, WaitBoth
<1> QED
  BY <1>2, <1>4, <1>6, <1>8

LEMMA WaitTodo ==
  ASSUME NEW w \in Wait, NEW ks \in SUBSET Key, NEW z, z = [w EXCEPT !.todo = ks]
  PROVE  /\ z \in Wait /\ z.at = w.at /\ z.cmd = w.cmd /\ z.ok = w.ok /\ z.got = w.got
         /\ z.todo = ks /\ z.found = w.found
<1>1. z \in Wait
  BY DEF Wait
<1> QED
  BY <1>1, WaitFields

LEMMA OverlapKeys ==
  ASSUME NEW c, NEW op, NEW ks \in SUBSET Key, NEW i
  PROVE  Overlap(c, op, ks) \subseteq Key /\ Drift(i, ks) \subseteq Key
  BY DEF Overlap, Drift

LEMMA TouchTyped ==
  ASSUME Frame, NEW k \in Key, Touch(k)
  PROVE  touched' \in [Fiber -> SUBSET Key] /\ \A c \in Fiber : touched[c] \subseteq touched'[c]
<1>1. \A c \in Fiber : touched[c] \in SUBSET Key
  BY DEF Frame, Aux
<1>2. \A c \in Fiber : touched'[c] \in SUBSET Key /\ touched[c] \subseteq touched'[c]
  BY <1>1 DEF Touch
<1> QED
  BY <1>2 DEF Touch

LEMMA StartReadFrame ==
  ASSUME Frame, NEW c \in Fiber, NEW i \in Instance, NEW op \in {"get", "once"},
         NEW k \in Key, StartRead(c, i, op, k)
  PROVE  /\ Frame' /\ Others(c) /\ wait[c] = Idle
         /\ wait'[c].at = "missed" /\ wait'[c].cmd = "GET"
         /\ call'[c] = [on |-> i, op |-> op, keys |-> {k}, data |-> Marker, ttl |-> OnceTtl]
         /\ \A j \in Instance : Less(l1'[j], l1[j], {})
<1>1. PICK q : q = [wait[c] EXCEPT !.at = "missed"]
  OBVIOUS
<1>2. PICK d : d = [on |-> i, op |-> op, keys |-> {k}, data |-> Marker, ttl |-> OnceTtl]
  OBVIOUS
<1>6. wait[c] = Idle
  BY DEF StartRead, Begin, Active, Frame, Fibers, InCall
<1>3. /\ q \in Wait /\ q.at = "missed" /\ q.cmd = "GET" /\ q.ok = TRUE /\ q.got = Absent
      /\ q.todo = {} /\ q.found = {}
  <2>1. PICK w \in Wait : w = wait[c]
    BY DEF Frame, Fibers
  <2>2. w.cmd = "GET" /\ w.ok = TRUE /\ w.got = Absent /\ w.todo = {} /\ w.found = {}
    BY <1>6, <2>1 DEF Idle
  <2>3. q = [w EXCEPT !.at = "missed"]
    BY <1>1, <2>1
  <2>4. /\ q \in Wait /\ q.at = "missed" /\ q.cmd = w.cmd /\ q.ok = w.ok
        /\ q.got = w.got /\ q.todo = w.todo /\ q.found = w.found
    BY <2>3, WaitAt
  <2> QED
    BY <2>2, <2>4
<1>4. d \in Call
  BY <1>2, ValuesAssumption, TtlsAssumption DEF Call, Op
<1>5. InCall(q, d)
  BY <1>2, <1>3, ValuesAssumption DEF InCall, Stands
<1>7. wait' = [wait EXCEPT ![c] = q]
  BY <1>1 DEF StartRead, Frame, Fibers
<1>8. disturbed \subseteq disturbed' /\ disturbed' \subseteq Key
  BY OverlapKeys DEF StartRead, Frame, Aux
<1>9. /\ Fibers' /\ wait'[c] = q /\ call'[c] = d /\ Others(c)
      /\ \A o \in Fiber : Failed(wait'[o], call'[o], disturbed')
  <2>1. Moves(c, q, d)
    BY <1>2, <1>7 DEF StartRead, Begin, Moves
  <2>2. Failed(q, d, disturbed')
    BY <1>3 DEF Failed
  <2> QED
    BY <1>3, <1>4, <1>5, <1>8, <2>1, <2>2, MovesFrame DEF Others
<1>10. Aux'
  BY <1>8, <1>9 DEF StartRead, Frame, Aux
<1>11. PICK m : m = Lookup(l1[i], k, clock)
  OBVIOUS
<1>12. Good(l1[i]) /\ Size(l1[i]) <= Capacity
  BY DEF Frame, Levels
<1>13. Good(m) /\ Size(m) <= Size(l1[i]) /\ Less(m, l1[i], {})
  BY <1>11, <1>12, LookupLess
<1>14. Size(m) <= Capacity
  BY <1>12, <1>13, SizeNat, CapacityNat
<1>15. l1' = [l1 EXCEPT ![i] = m]
  BY <1>11 DEF StartRead
<1>16. Levels'
  BY <1>13, <1>14, <1>15, StoreLevels DEF StartRead, Frame, Levels
<1>17. \A j \in Instance : Less(l1'[j], l1[j], {})
  BY <1>13, <1>15 DEF Less, Frame, Levels
<1> QED
  BY <1>2, <1>3, <1>6, <1>9, <1>10, <1>16, <1>17 DEF Frame

\* What the start of a set does to the fiber and to the stores.
SetStarts(c, i, k, d, ttl) ==
  /\ Frame' /\ Others(c) /\ wait[c] = Idle
  /\ wait'[c].at = "sent" /\ wait'[c].cmd = "SET"
  /\ call'[c] = [on |-> i, op |-> "set", keys |-> {k}, data |-> d, ttl |-> ttl]
  /\ \A j \in Instance : Less(l1'[j], l1[j], {k})
  /\ l1'[i].entry[k].data = d
  /\ \A j \in Instance \ {i} : l1'[j] = l1[j]

LEMMA StartSetFrame ==
  ASSUME Frame, NEW c \in Fiber, NEW i \in Instance, NEW k \in Key, NEW d \in Values,
         NEW ttl \in Ttls, StartSet(c, i, k, d, ttl)
  PROVE  SetStarts(c, i, k, d, ttl)
<1>1. PICK q : q = Sent("SET")
  OBVIOUS
<1>2. PICK n : n = [on |-> i, op |-> "set", keys |-> {k}, data |-> d, ttl |-> ttl]
  OBVIOUS
<1>3. d \in Data /\ ttl \in Nat \cup {NoTtl}
  BY ValuesAssumption, TtlsAssumption
<1>4. /\ q \in Wait /\ q.at = "sent" /\ q.cmd = "SET" /\ q.ok = TRUE /\ q.got = Absent
      /\ q.todo = {} /\ q.found = {}
  <2>1. "SET" \in Cmd
    BY DEF Cmd
  <2> QED
    BY <1>1, <2>1, SentTyped
<1>5. n \in Call
  BY <1>2, <1>3 DEF Call, Op
<1>6. InCall(q, n)
  BY <1>2, <1>3, <1>4 DEF InCall, Stands
<1>7. wait[c] = Idle
  BY DEF StartSet, Begin, Active, Frame, Fibers, InCall
<1>8. disturbed \subseteq disturbed' /\ disturbed' \subseteq Key
  BY OverlapKeys DEF StartSet, Frame, Aux
<1>9. /\ Fibers' /\ wait'[c] = q /\ call'[c] = n /\ Others(c)
      /\ \A o \in Fiber : Failed(wait'[o], call'[o], disturbed')
  <2>1. Moves(c, q, n)
    BY <1>1, <1>2 DEF StartSet, Begin, Moves
  <2>2. Failed(q, n, disturbed')
    BY <1>4 DEF Failed
  <2> QED
    BY <1>4, <1>5, <1>6, <1>8, <2>1, <2>2, MovesFrame DEF Others
<1>10. Aux'
  <2>1. Touch(k) /\ ran' = ran /\ truth' = [truth EXCEPT ![k] = d]
    BY DEF StartSet
  <2>2. touched' \in [Fiber -> SUBSET Key]
    BY <2>1, TouchTyped
  <2>3. truth' \in [Key -> Data \cup {Absent}] /\ ran' \in [Key -> Nat]
    BY <1>3, <2>1 DEF Frame, Aux
  <2> QED
    BY <1>8, <1>9, <2>2, <2>3 DEF Aux
<1>11. /\ l1' = [l1 EXCEPT ![i] = MemorySet(@, k, d, ttl, clock)]
       /\ clock' \in Nat /\ faults' \in Nat /\ l2' \in [Key -> MaybeEntry]
  BY DEF StartSet, Frame, Levels
<1>12. /\ Levels' /\ \A j \in Instance : Less(l1'[j], l1[j], {k})
       /\ l1'[i].entry[k].data = d /\ \A j \in Instance \ {i} : l1'[j] = l1[j]
  BY <1>3, <1>11, SetFrame
<1> QED
  BY <1>2, <1>4, <1>7, <1>9, <1>10, <1>12 DEF Frame, SetStarts

\* The calls that remove keys: del, flushAll and flushNamespace.
Removes(op, ks, cmd, todo) ==
  \/ op = "del" /\ cmd = "DEL" /\ todo = {}
  \/ op = "flush" /\ cmd = "FLUSHDB" /\ todo = {}
  \/ op = "flush" /\ cmd = "SCAN" /\ todo = ks

LEMMA RemoveFrame ==
  ASSUME Frame, NEW c \in Fiber, NEW i \in Instance, NEW op, NEW ks \in SUBSET Key,
         NEW cmd, NEW todo, Removes(op, ks, cmd, todo), Remove(c, i, op, ks, cmd, todo)
  PROVE  /\ Frame' /\ Others(c) /\ wait[c] = Idle
         /\ wait'[c].at = "sent" /\ wait'[c].cmd = cmd /\ wait'[c].todo = todo
         /\ call'[c] = [on |-> i, op |-> op, keys |-> ks, data |-> Absent, ttl |-> NoTtl]
         /\ \A j \in Instance : Less(l1'[j], l1[j], {})
         /\ Held(l1'[i]) = Held(l1[i]) \ ks
         /\ \A j \in Instance \ {i} : l1'[j] = l1[j]
<1>1. PICK q : q = [Sent(cmd) EXCEPT !.todo = todo]
  OBVIOUS
<1>2. PICK n : n = [on |-> i, op |-> op, keys |-> ks, data |-> Absent, ttl |-> NoTtl]
  OBVIOUS
<1>3. op \in {"del", "flush"} /\ todo \in SUBSET Key /\ todo \subseteq ks /\ cmd \in Cmd
  BY DEF Removes, Cmd
<1>4. /\ q \in Wait /\ q.at = "sent" /\ q.cmd = cmd /\ q.ok = TRUE /\ q.got = Absent
      /\ q.todo = todo /\ q.found = {}
  <2>1. PICK w : w = Sent(cmd)
    OBVIOUS
  <2>2. /\ w \in Wait /\ w.at = "sent" /\ w.cmd = cmd /\ w.ok = TRUE /\ w.got = Absent
        /\ w.found = {}
    BY <1>3, <2>1, SentTyped
  <2>3. q = [w EXCEPT !.todo = todo]
    BY <1>1, <2>1
  <2> QED
    BY <1>3, <2>2, <2>3, WaitTodo
<1>5. n \in Call
  BY <1>2, <1>3 DEF Call, Op
<1>6. InCall(q, n)
  <2>1. Stands(q, n)
    BY <1>2, <1>4 DEF Removes, Stands
  <2>2. n.on \in Instance /\ n.op \in {"del", "flush"} /\ n.keys = ks
    BY <1>2, <1>3
  <2>3. cmd = "FLUSHDB" => todo = {}
    BY DEF Removes
  <2>4. cmd # "GET"
    BY DEF Removes
  <2> QED
    BY <1>3, <1>4, <2>1, <2>2, <2>3, <2>4 DEF InCall
<1>7. wait[c] = Idle
  BY DEF Remove, Begin, Active, Frame, Fibers, InCall
<1>8. disturbed \subseteq disturbed' /\ disturbed' \subseteq Key
  BY OverlapKeys DEF Remove, Frame, Aux
<1>9. /\ Fibers' /\ wait'[c] = q /\ call'[c] = n /\ Others(c)
      /\ \A o \in Fiber : Failed(wait'[o], call'[o], disturbed')
  <2>1. Moves(c, q, n)
    BY <1>1, <1>2 DEF Remove, Begin, Moves
  <2>2. Failed(q, n, disturbed')
    BY <1>4 DEF Failed
  <2> QED
    BY <1>4, <1>5, <1>6, <1>8, <2>1, <2>2, MovesFrame DEF Others
<1>10. Aux'
  <2>1. /\ truth' = [j \in Key |-> IF j \in ks THEN Absent ELSE truth[j]]
        /\ ran' = [j \in Key |-> IF j \in ks THEN 0 ELSE ran[j]] /\ touched' = touched
    BY DEF Remove
  <2>2. truth' \in [Key -> Data \cup {Absent}] /\ ran' \in [Key -> Nat]
    BY <2>1 DEF Frame, Aux
  <2> QED
    BY <1>8, <1>9, <2>1, <2>2 DEF Frame, Aux
<1>11. PICK m : m = Delete(l1[i], ks)
  OBVIOUS
<1>12. Good(l1[i]) /\ Size(l1[i]) <= Capacity
  BY DEF Frame, Levels
<1>13. Good(m) /\ Size(m) <= Size(l1[i]) /\ Less(m, l1[i], {}) /\ Held(m) = Held(l1[i]) \ ks
  BY <1>11, <1>12, DeleteLess
<1>14. Size(m) <= Capacity
  BY <1>12, <1>13, SizeNat, CapacityNat
<1>15. l1' = [l1 EXCEPT ![i] = m] /\ l1 \in [Instance -> Store]
  BY <1>11 DEF Remove, Frame, Levels
<1>16. Levels'
  BY <1>13, <1>14, <1>15, StoreLevels DEF Remove, Frame, Levels
<1>17. l1'[i] = m /\ \A j \in Instance \ {i} : l1'[j] = l1[j]
  BY <1>15
<1>18. \A j \in Instance : Less(l1'[j], l1[j], {})
  BY <1>13, <1>17 DEF Less
<1> QED
  BY <1>2, <1>4, <1>7, <1>9, <1>10, <1>13, <1>16, <1>17, <1>18 DEF Frame

-----------------------------------------------------------------------------
(* A fiber goes on in its call, or ends it                                 *)

LEMMA StaysFrame ==
  ASSUME Frame, NEW c \in Fiber, NEW q \in Wait, wait' = [wait EXCEPT ![c] = q], call' = call,
         InCall(q, call[c]), Failed(q, call[c], disturbed'), disturbed \subseteq disturbed'
  PROVE  /\ Fibers' /\ wait'[c] = q /\ call'[c] = call[c] /\ Others(c)
         /\ \A o \in Fiber : Failed(wait'[o], call'[o], disturbed')
<1>1. call[c] \in Call /\ call = [call EXCEPT ![c] = call[c]]
  BY DEF Frame, Fibers
<1>2. Moves(c, q, call[c])
  BY <1>1 DEF Moves
<1> QED
  BY <1>1, <1>2, MovesFrame DEF Others

LEMMA RestFrame ==
  ASSUME Frame, NEW c \in Fiber, Rest(c), disturbed \subseteq disturbed'
  PROVE  /\ Fibers' /\ wait'[c] = Idle /\ call'[c] = NoCall /\ Others(c)
         /\ \A o \in Fiber : Failed(wait'[o], call'[o], disturbed')
<1>1. Moves(c, Idle, NoCall)
  BY DEF Moves, Rest
<1>2. Failed(Idle, NoCall, disturbed')
  BY DEF Failed, Idle
<1> QED
  BY <1>1, <1>2, IdleTyped, MovesFrame DEF Others

\* What is known of a fiber in a call.
LEMMA CallFacts ==
  ASSUME Frame, NEW c \in Fiber
  PROVE  /\ wait[c] \in Wait /\ call[c] \in Call /\ InCall(wait[c], call[c])
         /\ Failed(wait[c], call[c], disturbed)
         /\ call[c].keys \in SUBSET Key
  BY DEF Frame, Fibers, Aux, Call

\* The one key of a read or of a set.
LEMMA TheKeyIs ==
  ASSUME Frame, NEW c \in Fiber, Active(c), call[c].op \in {"get", "set", "once"}
  PROVE  TheKey(c) \in Key /\ call[c].keys = {TheKey(c)}
<1>1. PICK k \in Key : call[c].keys = {k}
  BY CallFacts DEF InCall, Active
<1> QED
  BY <1>1 DEF TheKey

LEMMA SendReadFrame ==
  ASSUME Frame, NEW c \in Fiber, SendRead(c)
  PROVE  /\ Frame' /\ Others(c) /\ call'[c] = call[c]
         /\ wait'[c].at = "sent" /\ wait'[c].cmd = "GET"
<1>1. PICK q : q = Sent("GET")
  OBVIOUS
<1>2. /\ q \in Wait /\ q.at = "sent" /\ q.cmd = "GET" /\ q.ok = TRUE /\ q.got = Absent
      /\ q.todo = {} /\ q.found = {}
  <2>1. "GET" \in Cmd
    BY DEF Cmd
  <2> QED
    BY <1>1, <2>1, SentTyped
<1>3. InCall(wait[c], call[c]) /\ wait[c].at = "missed"
  BY CallFacts DEF SendRead
<1>4. InCall(q, call[c])
  BY <1>2, <1>3 DEF InCall, Stands
<1>5. Failed(q, call[c], disturbed')
  BY <1>2 DEF Failed
<1>6. wait' = [wait EXCEPT ![c] = q] /\ call' = call /\ disturbed' = disturbed
  BY <1>1 DEF SendRead
<1>7. /\ Fibers' /\ wait'[c] = q /\ call'[c] = call[c] /\ Others(c)
      /\ \A o \in Fiber : Failed(wait'[o], call'[o], disturbed')
  BY <1>2, <1>4, <1>5, <1>6, StaysFrame
<1>8. Levels' /\ Aux'
  BY <1>7 DEF SendRead, Frame, Levels, Aux
<1> QED
  BY <1>2, <1>7, <1>8 DEF Frame

LEMMA FinishSimpleFrame ==
  ASSUME Frame, NEW c \in Fiber, FinishSimple(c)
  PROVE  Frame' /\ Others(c) /\ wait'[c] = Idle
<1>1. Rest(c) /\ disturbed \subseteq disturbed'
  BY DEF FinishSimple
<1>2. /\ Fibers' /\ wait'[c] = Idle /\ Others(c)
      /\ \A o \in Fiber : Failed(wait'[o], call'[o], disturbed')
  BY <1>1, RestFrame
<1>3. Levels' /\ Aux'
  BY <1>2 DEF FinishSimple, Frame, Levels, Aux
<1> QED
  BY <1>2, <1>3 DEF Frame

LEMMA CallbackFailsFrame ==
  ASSUME Frame, NEW c \in Fiber, CallbackFails(c)
  PROVE  Frame' /\ Others(c) /\ wait'[c] = Idle
<1>1. Rest(c) /\ disturbed \subseteq disturbed'
  BY DEF CallbackFails
<1>2. /\ Fibers' /\ wait'[c] = Idle /\ Others(c)
      /\ \A o \in Fiber : Failed(wait'[o], call'[o], disturbed')
  BY <1>1, RestFrame
<1>3. Levels' /\ Aux'
  BY <1>2 DEF CallbackFails, Frame, Levels, Aux
<1> QED
  BY <1>2, <1>3 DEF Frame

\* A hydration writes the key of the call, with what was read.
LEMMA HydrateFrame ==
  ASSUME Frame, NEW c \in Fiber, Answered(c, {"get", "once"}), Hydrate(c),
         clock' = clock, faults' = faults, l2' = l2
  PROVE  /\ Levels' /\ touched' \in [Fiber -> SUBSET Key]
         /\ \A o \in Fiber : touched[o] \subseteq touched'[o]
         /\ \A j \in Instance : Less(l1'[j], l1[j], {TheKey(c)})
         /\ wait[c].got = Absent => l1' = l1
         /\ wait[c].got # Absent =>
              /\ Touch(TheKey(c))
              /\ l1'[On(c)].entry[TheKey(c)].data = wait[c].got
              /\ \A j \in Instance \ {On(c)} : l1'[j] = l1[j]
<1>1. Active(c) /\ call[c].op \in {"get", "once"} /\ On(c) \in Instance
  BY CallFacts DEF Answered, Active, InCall, On
<1>2. PICK k \in Key : k = TheKey(c)
  BY <1>1, TheKeyIs
<1>3. PICK i \in Instance : i = On(c)
  BY <1>1
<1>4. Levels /\ l1 \in [Instance -> Store] /\ l2' \in [Key -> MaybeEntry]
      /\ clock' \in Nat /\ faults' \in Nat
  BY DEF Frame, Levels
<1>5. CASE wait[c].got = Absent
  <2>1. l1' = l1 /\ touched' = touched
    BY <1>5 DEF Hydrate
  <2>2. Levels'
    BY <1>4, <2>1 DEF Levels
  <2> QED
    BY <1>5, <2>1, <2>2 DEF Less, Frame, Aux
<1>6. CASE wait[c].got # Absent
  <2>1. PICK d \in Data : d = wait[c].got
    BY <1>6, CallFacts, WaitFields
  <2>10. PICK n \in Nat \cup {NoTtl} : n = NoTtl
    OBVIOUS
  <2>2. l1' = [l1 EXCEPT ![i] = MemorySet(@, k, d, n, clock)] /\ Touch(k)
    BY <1>2, <1>3, <1>6, <2>1, <2>10 DEF Hydrate
  <2>3. /\ Levels' /\ \A j \in Instance : Less(l1'[j], l1[j], {k})
        /\ l1'[i].entry[k].data = d /\ \A j \in Instance \ {i} : l1'[j] = l1[j]
    BY <1>4, <2>2, SetFrame
  <2>9. touched' \in [Fiber -> SUBSET Key] /\ \A o \in Fiber : touched[o] \subseteq touched'[o]
    BY <2>2, TouchTyped
  <2> QED
    BY <1>2, <1>3, <1>6, <2>1, <2>2, <2>3, <2>9
<1> QED
  BY <1>5, <1>6

LEMMA FinishGetFrame ==
  ASSUME Frame, NEW c \in Fiber, FinishGet(c)
  PROVE  Frame' /\ Others(c) /\ wait'[c] = Idle
<1>1. Rest(c) /\ disturbed \subseteq disturbed'
  BY DEF FinishGet
<1>2. /\ Fibers' /\ wait'[c] = Idle /\ Others(c)
      /\ \A o \in Fiber : Failed(wait'[o], call'[o], disturbed')
  BY <1>1, RestFrame
<1>3. Answered(c, {"get", "once"}) /\ Hydrate(c)
  BY DEF FinishGet, Answered
<1>4. Levels' /\ touched' \in [Fiber -> SUBSET Key]
  BY <1>3, HydrateFrame DEF FinishGet
<1>5. Aux'
  BY <1>2, <1>4 DEF FinishGet, Frame, Aux
<1> QED
  BY <1>2, <1>4, <1>5 DEF Frame

LEMMA FinishOnceFrame ==
  ASSUME Frame, NEW c \in Fiber, FinishOnce(c)
  PROVE  /\ Frame' /\ Others(c)
         /\ wait[c].got # Absent => wait'[c] = Idle
         /\ wait[c].got = Absent =>
              wait'[c].at = "running" /\ wait'[c].cmd = "GET" /\ call'[c] = call[c]
<1>1. Answered(c, {"get", "once"}) /\ Hydrate(c) /\ disturbed \subseteq disturbed'
      /\ call[c].op = "once" /\ wait[c].cmd = "GET" /\ wait[c].at = "replied"
  BY DEF FinishOnce, Answered
<1>2. /\ Fibers' /\ Others(c) /\ \A o \in Fiber : Failed(wait'[o], call'[o], disturbed')
      /\ wait[c].got # Absent => wait'[c] = Idle
      /\ wait[c].got = Absent =>
           wait'[c].at = "running" /\ wait'[c].cmd = "GET" /\ call'[c] = call[c]
  <2>1. CASE wait[c].got # Absent
    <3>1. Rest(c)
      BY <2>1 DEF FinishOnce
    <3> QED
      BY <1>1, <2>1, <3>1, RestFrame
  <2>2. CASE wait[c].got = Absent
    <3>1. PICK w \in Wait : w = wait[c]
      BY CallFacts
    <3>2. PICK q : q = [w EXCEPT !.at = "running"]
      OBVIOUS
    <3>3. /\ q \in Wait /\ q.at = "running" /\ q.cmd = w.cmd /\ q.ok = w.ok
          /\ q.got = w.got /\ q.todo = w.todo /\ q.found = w.found
      BY <3>2, WaitAt
    <3>4. wait' = [wait EXCEPT ![c] = q] /\ call' = call /\ disturbed' = disturbed
      BY <2>2, <3>1, <3>2 DEF FinishOnce, Frame, Fibers
    <3>5. InCall(q, call[c])
      BY <1>1, <3>1, <3>3, CallFacts DEF InCall, Stands
    <3>6. Failed(q, call[c], disturbed')
      BY <1>1, <3>1, <3>3, <3>4, CallFacts DEF Failed
    <3> QED
      BY <1>1, <2>2, <3>1, <3>3, <3>4, <3>5, <3>6, StaysFrame
  <2> QED
    BY <2>1, <2>2
<1>3. Levels' /\ touched' \in [Fiber -> SUBSET Key]
  BY <1>1, HydrateFrame DEF FinishOnce
<1>4. Aux'
  BY <1>2, <1>3 DEF FinishOnce, Frame, Aux
<1> QED
  BY <1>2, <1>3, <1>4 DEF Frame

FlushOver(c) ==
  ~wait[c].ok \/ wait[c].cmd = "FLUSHDB"
  \/ (wait[c].todo = {} /\ ~(wait[c].cmd = "SCAN" /\ wait[c].found # {}))

LEMMA FinishFlushFrame ==
  ASSUME Frame, NEW c \in Fiber, FinishFlush(c)
  PROVE  /\ Frame' /\ Others(c)
         /\ FlushOver(c) => wait'[c] = Idle /\ call'[c] = NoCall
         /\ ~FlushOver(c) =>
              /\ call'[c] = call[c] /\ wait'[c].at = "sent" /\ touched' = touched
              /\ wait'[c].cmd = IF wait[c].cmd = "SCAN" /\ wait[c].found # {}
                                THEN "DEL" ELSE "SCAN"
              /\ wait'[c].todo = wait[c].todo /\ wait'[c].found = wait[c].found
              /\ wait'[c].ok = wait[c].ok
<1>1. /\ wait[c].at = "replied" /\ call[c].op = "flush"
      /\ UNCHANGED <<clock, l1, l2, calls, faults, truth, disturbed, ran>>
  BY DEF FinishFlush, Answered
<1>2. CASE FlushOver(c)
  <2>1. Rest(c) /\ touched' = [touched EXCEPT ![c] = {}]
    BY <1>2 DEF FinishFlush, FlushOver
  <2>2. /\ Fibers' /\ wait'[c] = Idle /\ call'[c] = NoCall /\ Others(c)
        /\ \A o \in Fiber : Failed(wait'[o], call'[o], disturbed')
    BY <1>1, <2>1, RestFrame
  <2>3. touched' \in [Fiber -> SUBSET Key]
    BY <2>1 DEF Frame, Aux
  <2>4. Levels' /\ Aux'
    BY <1>1, <2>2, <2>3 DEF Frame, Levels, Aux
  <2> QED
    BY <1>2, <2>2, <2>4 DEF Frame
<1>3. CASE ~FlushOver(c)
  <2>1. PICK w \in Wait : w = wait[c]
    BY CallFacts
  <2>2. PICK m : m = IF wait[c].cmd = "SCAN" /\ wait[c].found # {} THEN "DEL" ELSE "SCAN"
    OBVIOUS
  <2>3. m \in Cmd /\ m \in {"DEL", "SCAN"}
    BY <2>2 DEF Cmd
  <2>4. PICK x : x = [w EXCEPT !.cmd = m]
    OBVIOUS
  <2>5. /\ x \in Wait /\ x.cmd = m /\ x.ok = w.ok /\ x.got = w.got
        /\ x.todo = w.todo /\ x.found = w.found
    BY <2>3, <2>4, WaitCmd
  <2>6. PICK q : q = [x EXCEPT !.at = "sent"]
    OBVIOUS
  <2>7. /\ q \in Wait /\ q.at = "sent" /\ q.cmd = x.cmd /\ q.ok = x.ok
        /\ q.got = x.got /\ q.todo = x.todo /\ q.found = x.found
    BY <2>5, <2>6, WaitAt
  <2>8. PICK a \in {"idle", "missed", "sent", "replied", "running"} : a = "sent"
    OBVIOUS
  <2>9. [w EXCEPT !.cmd = m, !.at = a] = [[w EXCEPT !.cmd = m] EXCEPT !.at = a]
    BY <2>3, WaitBoth
  <2>10. q = [w EXCEPT !.cmd = m, !.at = "sent"]
    BY <2>4, <2>6, <2>8, <2>9
  <2>11. wait' = [wait EXCEPT ![c].cmd = m, ![c].at = "sent"] /\ call' = call
         /\ touched' = touched
    BY <1>3, <2>2 DEF FinishFlush, FlushOver
  <2>12. wait' = [wait EXCEPT ![c] = q]
    BY <2>1, <2>10, <2>11 DEF Frame, Fibers
  <2>13. InCall(q, call[c])
    <3>1. Stands(q, call[c])
      BY <1>1, <2>3, <2>5, <2>7 DEF Stands
    <3>2. InCall(w, call[c]) /\ w.at # "idle"
      BY <1>1, <2>1, CallFacts
    <3> QED
      BY <1>1, <2>3, <2>5, <2>7, <3>1, <3>2 DEF InCall
  <2>14. Failed(q, call[c], disturbed')
    BY <1>1, <2>1, <2>5, <2>7, CallFacts DEF Failed
  <2>15. /\ Fibers' /\ wait'[c] = q /\ call'[c] = call[c] /\ Others(c)
         /\ \A o \in Fiber : Failed(wait'[o], call'[o], disturbed')
    BY <1>1, <2>7, <2>11, <2>12, <2>13, <2>14, StaysFrame
  <2>16. Levels' /\ Aux'
    BY <1>1, <2>11, <2>15 DEF Frame, Levels, Aux
  <2>17. /\ wait'[c].at = "sent" /\ wait'[c].cmd = m /\ wait'[c].todo = wait[c].todo
         /\ wait'[c].found = wait[c].found /\ wait'[c].ok = wait[c].ok
    BY <2>1, <2>5, <2>7, <2>15
  <2> QED
    BY <1>3, <2>2, <2>11, <2>15, <2>16, <2>17 DEF Frame
<1> QED
  BY <1>2, <1>3

LEMMA CallbackDoneFrame ==
  ASSUME Frame, NEW c \in Fiber, CallbackDone(c)
  PROVE  /\ Frame' /\ Others(c) /\ call'[c] = call[c]
         /\ wait'[c].at = "sent" /\ wait'[c].cmd = "SET"
         /\ \A j \in Instance : Less(l1'[j], l1[j], {TheKey(c)})
         /\ l1'[On(c)].entry[TheKey(c)].data = Marker
         /\ \A j \in Instance \ {On(c)} : l1'[j] = l1[j]
         /\ call[c].op = "once" /\ wait[c].cmd = "GET"
<1>1. /\ wait[c].at = "running" /\ call' = call /\ Touch(TheKey(c))
      /\ wait' = [wait EXCEPT ![c] = Sent("SET")]
      /\ l1' = [l1 EXCEPT ![On(c)] = MemorySet(@, TheKey(c), Marker, OnceTtl, clock)]
      /\ truth' = [truth EXCEPT ![TheKey(c)] = Marker]
      /\ ran' = [ran EXCEPT ![TheKey(c)] = @ + 1]
      /\ disturbed' = disturbed \cup Drift(On(c), {TheKey(c)})
      /\ UNCHANGED <<clock, l2, faults>>
  BY DEF CallbackDone
<1>2. InCall(wait[c], call[c]) /\ wait[c].at # "idle"
  BY <1>1, CallFacts
<1>3. call[c].op = "once" /\ wait[c].cmd = "GET" /\ On(c) \in Instance /\ call[c].data = Marker
  BY <1>1, <1>2 DEF InCall, Stands, On
<1>4. PICK k \in Key : k = TheKey(c)
  BY <1>2, <1>3, TheKeyIs DEF Active
<1>5. PICK i \in Instance : i = On(c)
  BY <1>3
<1>6. PICK q : q = Sent("SET")
  OBVIOUS
<1>7. /\ q \in Wait /\ q.at = "sent" /\ q.cmd = "SET" /\ q.ok = TRUE /\ q.got = Absent
      /\ q.todo = {} /\ q.found = {}
  <2>1. "SET" \in Cmd
    BY DEF Cmd
  <2> QED
    BY <1>6, <2>1, SentTyped
<1>8. Stands(q, call[c])
  BY <1>3, <1>7 DEF Stands
<1>9. InCall(q, call[c])
  BY <1>2, <1>3, <1>7, <1>8 DEF InCall
<1>10. Failed(q, call[c], disturbed')
  BY <1>7 DEF Failed
<1>11. disturbed \subseteq disturbed' /\ disturbed' \subseteq Key
  BY <1>1, <1>4, OverlapKeys DEF Frame, Aux
<1>12. /\ Fibers' /\ wait'[c] = q /\ call'[c] = call[c] /\ Others(c)
       /\ \A o \in Fiber : Failed(wait'[o], call'[o], disturbed')
  BY <1>1, <1>6, <1>7, <1>9, <1>10, <1>11, StaysFrame
<1>13. Aux'
  <2>1. touched' \in [Fiber -> SUBSET Key]
    BY <1>1, <1>4, TouchTyped
  <2>2. truth' \in [Key -> Data \cup {Absent}] /\ ran' \in [Key -> Nat]
    BY <1>1, <1>4, ValuesAssumption DEF Frame, Aux
  <2> QED
    BY <1>11, <1>12, <2>1, <2>2 DEF Aux
<1>14. PICK d \in Data : d = Marker
  BY ValuesAssumption
<1>15. PICK ttl \in Nat \cup {NoTtl} : ttl = OnceTtl
  BY TtlsAssumption
<1>16. l1' = [l1 EXCEPT ![i] = MemorySet(@, k, d, ttl, clock)]
       /\ clock' \in Nat /\ faults' \in Nat /\ l2' \in [Key -> MaybeEntry]
  BY <1>1, <1>4, <1>5, <1>14, <1>15 DEF Frame, Levels
<1>17. /\ Levels' /\ \A j \in Instance : Less(l1'[j], l1[j], {k})
       /\ l1'[i].entry[k].data = d /\ \A j \in Instance \ {i} : l1'[j] = l1[j]
  BY <1>16, SetFrame
<1> QED
  BY <1>3, <1>4, <1>5, <1>7, <1>12, <1>13, <1>14, <1>17 DEF Frame

-----------------------------------------------------------------------------
(* Redis answers a command                                                 *)

LEMMA PopFrame ==
  ASSUME Frame, NEW c \in Fiber, NEW cmds, NEW q \in Wait, Pop(c, cmds, q),
         q.at = "replied", q.cmd = wait[c].cmd,
         q.todo \subseteq wait[c].todo, q.found \subseteq wait[c].found \cup wait[c].todo,
         q.ok = wait[c].ok \/ (Writes(call[c].op) => call[c].keys \subseteq disturbed'),
         disturbed \subseteq disturbed'
  PROVE  /\ Fibers' /\ wait'[c] = q /\ call'[c] = call[c] /\ Others(c)
         /\ \A o \in Fiber : Failed(wait'[o], call'[o], disturbed')
         /\ wait[c].at = "sent" /\ wait[c].cmd \in cmds
         /\ l1' = l1 /\ truth' = truth /\ clock' = clock
<1>1. /\ wait[c].at = "sent" /\ wait[c].cmd \in cmds /\ call' = call
      /\ wait' = [wait EXCEPT ![c] = q] /\ l1' = l1 /\ truth' = truth /\ clock' = clock
  BY DEF Pop
<1>2. InCall(wait[c], call[c]) /\ wait[c].at # "idle"
  BY <1>1, CallFacts
<1>3. Stands(q, call[c])
  BY <1>1, <1>2 DEF InCall, Stands
<1>4. q.todo \subseteq call[c].keys /\ q.found \subseteq call[c].keys
  BY <1>2 DEF InCall
<1>5. q.cmd = "FLUSHDB" => q.todo = {} /\ q.found = {}
  BY <1>2 DEF InCall
<1>6. InCall(q, call[c])
  BY <1>2, <1>3, <1>4, <1>5 DEF InCall
<1>7. Failed(q, call[c], disturbed')
  BY <1>2, CallFacts DEF Failed
<1> QED
  BY <1>1, <1>6, <1>7, StaysFrame

LEMMA RepliedTyped ==
  ASSUME Frame, NEW c \in Fiber
  PROVE  /\ Replied(c) \in Wait /\ Replied(c).at = "replied" /\ Replied(c).cmd = wait[c].cmd
         /\ Replied(c).ok = wait[c].ok /\ Replied(c).got = wait[c].got
         /\ Replied(c).todo = wait[c].todo /\ Replied(c).found = wait[c].found
<1>1. PICK w \in Wait : w = wait[c]
  BY CallFacts
<1>2. PICK q : q = [w EXCEPT !.at = "replied"]
  OBVIOUS
<1>3. /\ q \in Wait /\ q.at = "replied" /\ q.cmd = w.cmd /\ q.ok = w.ok
      /\ q.got = w.got /\ q.todo = w.todo /\ q.found = w.found
  BY <1>2, WaitAt
<1> QED
  BY <1>1, <1>2, <1>3 DEF Replied

LEMMA RedisGetTyped ==
  ASSUME Frame, NEW k \in Key
  PROVE  RedisGet(l2, k, clock) \in Data \cup {Absent}
<1>1. l2[k] \in MaybeEntry
  BY DEF Frame, Levels
<1> QED
  BY <1>1 DEF RedisGet, MaybeEntry, Entry

LEMMA RedisReadsFrame ==
  ASSUME Frame, NEW c \in Fiber, RedisReads(c)
  PROVE  /\ Frame' /\ Others(c) /\ call'[c] = call[c] /\ wait[c].cmd = "GET"
         /\ wait'[c].at = "replied" /\ wait'[c].cmd = "GET"
         /\ wait'[c].got = RedisGet(l2, TheKey(c), clock)
<1>1. wait[c].at = "sent" /\ wait[c].cmd = "GET" /\ disturbed' = disturbed
  BY DEF RedisReads, Pop
<1>2. PICK k \in Key : k = TheKey(c)
  BY <1>1, CallFacts, TheKeyIs DEF InCall, Stands, Active
<1>3. PICK w \in Wait : w = Replied(c)
  BY RepliedTyped
<1>4. PICK q : q = [w EXCEPT !.got = RedisGet(l2, k, clock)]
  OBVIOUS
<1>5. q \in Wait
  BY <1>4, RedisGetTyped DEF Wait
<1>6. /\ q.at = w.at /\ q.cmd = w.cmd /\ q.ok = w.ok /\ q.todo = w.todo
      /\ q.found = w.found /\ q.got = RedisGet(l2, k, clock)
  BY <1>4, WaitFields
<1>7. Pop(c, {"GET"}, q)
  BY <1>2, <1>3, <1>4 DEF RedisReads
<1>8. /\ Fibers' /\ wait'[c] = q /\ call'[c] = call[c] /\ Others(c)
      /\ \A o \in Fiber : Failed(wait'[o], call'[o], disturbed')
      /\ l1' = l1 /\ truth' = truth /\ clock' = clock
  BY <1>1, <1>3, <1>5, <1>6, <1>7, RepliedTyped, PopFrame
<1>9. Levels' /\ Aux'
  BY <1>8 DEF RedisReads, Frame, Levels, Aux
<1>10. wait'[c].at = "replied" /\ wait'[c].cmd = "GET"
  BY <1>1, <1>3, <1>6, <1>8, RepliedTyped
<1> QED
  BY <1>1, <1>2, <1>6, <1>8, <1>9, <1>10 DEF Frame

LEMMA RedisWritesFrame ==
  ASSUME Frame, NEW c \in Fiber, RedisWrites(c)
  PROVE  /\ Frame' /\ Others(c) /\ call'[c] = call[c]
         /\ wait[c].at = "sent" /\ wait[c].cmd = "SET"
         /\ wait'[c].at = "replied" /\ wait'[c].cmd = "SET"
         /\ TheKey(c) \in Key /\ call[c].keys = {TheKey(c)} /\ call[c].op \in {"set", "once"}
         /\ l2'[TheKey(c)] # Absent /\ l2'[TheKey(c)].data = call[c].data
         /\ \A j \in Key \ {TheKey(c)} : l2'[j] = l2[j]
<1>1. /\ wait[c].at = "sent" /\ wait[c].cmd = "SET" /\ Pop(c, {"SET"}, Replied(c))
      /\ l2' = RedisSet(l2, TheKey(c), call[c].data, call[c].ttl, clock)
      /\ Touch(TheKey(c)) /\ UNCHANGED <<faults, disturbed, ran>>
  BY DEF RedisWrites, Pop
<1>2. call[c].op \in {"set", "once"} /\ call[c].data \in Data
  BY <1>1, CallFacts DEF InCall, Stands
<1>3. TheKey(c) \in Key /\ call[c].keys = {TheKey(c)}
  BY <1>1, <1>2, TheKeyIs DEF Active
<1>4. PICK q \in Wait : q = Replied(c)
  BY RepliedTyped
<1>5. /\ q.at = "replied" /\ q.cmd = "SET" /\ q.ok = wait[c].ok
      /\ q.todo = wait[c].todo /\ q.found = wait[c].found
  BY <1>1, <1>4, RepliedTyped
<1>6. /\ Fibers' /\ wait'[c] = q /\ call'[c] = call[c] /\ Others(c)
      /\ \A o \in Fiber : Failed(wait'[o], call'[o], disturbed')
      /\ l1' = l1 /\ truth' = truth /\ clock' = clock
  BY <1>1, <1>4, <1>5, PopFrame
<1>7. PICK k \in Key : k = TheKey(c)
  BY <1>3
<1>8. PICK e : e = [data |-> call[c].data, exp |-> Deadline(call[c].ttl, clock)]
  OBVIOUS
<1>9. e \in Entry
  <2>1. call[c].ttl \in Nat \cup {NoTtl} /\ clock \in Nat
    BY CallFacts DEF Call, Frame, Levels
  <2>2. Deadline(call[c].ttl, clock) \in Nat
    BY <2>1, DeadlineNat
  <2> QED
    BY <1>2, <1>8, <2>2 DEF Entry
<1>10. l2' = [l2 EXCEPT ![k] = e] /\ l2 \in [Key -> MaybeEntry]
  BY <1>1, <1>7, <1>8 DEF RedisSet, Frame, Levels
<1>11. l2' \in [Key -> MaybeEntry]
  BY <1>9, <1>10 DEF MaybeEntry
<1>12. l2'[k] = e /\ e # Absent /\ e.data = call[c].data
       /\ \A j \in Key \ {k} : l2'[j] = l2[j]
  BY <1>8, <1>9, <1>10, AbsentNotEntry
<1>13. touched' \in [Fiber -> SUBSET Key]
  BY <1>1, <1>3, TouchTyped
<1>14. Levels' /\ Aux'
  BY <1>1, <1>6, <1>11, <1>13 DEF Frame, Levels, Aux
<1> QED
  BY <1>1, <1>2, <1>3, <1>5, <1>6, <1>7, <1>12, <1>14 DEF Frame

RemovedBy(c) ==
  IF call[c].op = "flush" /\ wait[c].cmd = "DEL" THEN wait[c].found ELSE call[c].keys

LEMMA DelTyped ==
  ASSUME NEW r \in [Key -> MaybeEntry], NEW ks
  PROVE  RedisDel(r, ks) \in [Key -> MaybeEntry]
  BY DEF RedisDel, MaybeEntry

LEMMA RedisDeletesFrame ==
  ASSUME Frame, NEW c \in Fiber, RedisDeletes(c)
  PROVE  /\ Frame' /\ Others(c) /\ call'[c] = call[c]
         /\ wait[c].at = "sent" /\ wait[c].cmd \in {"DEL", "FLUSHDB"}
         /\ wait'[c].at = "replied" /\ wait'[c].cmd = wait[c].cmd /\ wait'[c].ok = wait[c].ok
         /\ wait'[c].todo = wait[c].todo /\ wait'[c].found = wait[c].found
         /\ RemovedBy(c) \subseteq call[c].keys
         /\ \A j \in Key : l2'[j] = IF j \in RemovedBy(c) THEN Absent ELSE l2[j]
<1>1. /\ wait[c].at = "sent" /\ wait[c].cmd \in {"DEL", "FLUSHDB"}
      /\ Pop(c, {"DEL", "FLUSHDB"}, Replied(c)) /\ l2' = RedisDel(l2, RemovedBy(c))
      /\ UNCHANGED <<faults, disturbed, ran, touched>>
  BY DEF RedisDeletes, Pop, RemovedBy
<1>2. PICK q \in Wait : q = Replied(c)
  BY RepliedTyped
<1>3. /\ q.at = "replied" /\ q.cmd = wait[c].cmd /\ q.ok = wait[c].ok
      /\ q.todo = wait[c].todo /\ q.found = wait[c].found
  BY <1>2, RepliedTyped
<1>4. /\ Fibers' /\ wait'[c] = q /\ call'[c] = call[c] /\ Others(c)
      /\ \A o \in Fiber : Failed(wait'[o], call'[o], disturbed')
      /\ l1' = l1 /\ truth' = truth /\ clock' = clock
  BY <1>1, <1>2, <1>3, PopFrame
<1>5. l2' \in [Key -> MaybeEntry]
  BY <1>1, DelTyped DEF Frame, Levels
<1>6. Levels' /\ Aux'
  BY <1>1, <1>4, <1>5 DEF Frame, Levels, Aux
<1>7. RemovedBy(c) \subseteq call[c].keys
  BY <1>1, CallFacts DEF RemovedBy, InCall
<1>8. \A j \in Key : l2'[j] = IF j \in RemovedBy(c) THEN Absent ELSE l2[j]
  BY <1>1 DEF RedisDel
<1> QED
  BY <1>1, <1>3, <1>4, <1>6, <1>7, <1>8 DEF Frame

LEMMA RedisScansFrame ==
  ASSUME Frame, NEW c \in Fiber, RedisScans(c)
  PROVE  /\ Frame' /\ Others(c) /\ call'[c] = call[c]
         /\ wait[c].at = "sent" /\ wait[c].cmd = "SCAN"
         /\ wait'[c].at = "replied" /\ wait'[c].cmd = "SCAN" /\ wait'[c].ok = wait[c].ok
         /\ \A k \in wait[c].todo :
              k \in wait'[c].todo \/ k \in wait'[c].found \/ RedisGet(l2, k, clock) = Absent
<1>1. PICK part \in SUBSET wait[c].todo :
        /\ Pop(c, {"SCAN"}, [Replied(c) EXCEPT
             !.todo = @ \ part, !.found = {k \in part : RedisGet(l2, k, clock) # Absent}])
        /\ UNCHANGED <<l2, faults, disturbed, ran, touched>>
  BY DEF RedisScans
<1>2. wait[c].at = "sent" /\ wait[c].cmd = "SCAN"
  BY <1>1 DEF Pop
<1>3. PICK w \in Wait : w = Replied(c)
  BY RepliedTyped
<1>4. /\ w.at = "replied" /\ w.cmd = "SCAN" /\ w.ok = wait[c].ok
      /\ w.todo = wait[c].todo /\ w.found = wait[c].found /\ w.todo \in SUBSET Key
  BY <1>2, <1>3, RepliedTyped, WaitFields
<1>5. PICK f \in SUBSET Key : f = {k \in part : RedisGet(l2, k, clock) # Absent}
  BY <1>4
<1>6. PICK left \in SUBSET Key : left = w.todo \ part
  BY <1>4
<1>7. PICK q : q = [w EXCEPT !.todo = left, !.found = f]
  OBVIOUS
<1>8. q \in Wait
  BY <1>7 DEF Wait
<1>9. /\ q.at = w.at /\ q.cmd = w.cmd /\ q.ok = w.ok /\ q.todo = left /\ q.found = f
  BY <1>7, WaitFields
<1>10. Pop(c, {"SCAN"}, q)
  BY <1>1, <1>3, <1>5, <1>6, <1>7
<1>11. disturbed' = disturbed
  BY <1>1
<1>12. left \subseteq wait[c].todo /\ f \subseteq wait[c].found \cup wait[c].todo
  BY <1>4, <1>5, <1>6
<1>13. /\ Fibers' /\ wait'[c] = q /\ call'[c] = call[c] /\ Others(c)
       /\ \A o \in Fiber : Failed(wait'[o], call'[o], disturbed')
       /\ l1' = l1 /\ truth' = truth /\ clock' = clock
  BY <1>2, <1>4, <1>8, <1>9, <1>10, <1>11, <1>12, PopFrame
<1>14. Levels' /\ Aux'
  BY <1>1, <1>13 DEF Frame, Levels, Aux
<1>15. \A k \in wait[c].todo : k \in left \/ k \in f \/ RedisGet(l2, k, clock) = Absent
  BY <1>4, <1>5, <1>6
<1> QED
  BY <1>2, <1>4, <1>9, <1>13, <1>14, <1>15 DEF Frame

LEMMA CommandFailsFrame ==
  ASSUME Frame, NEW c \in Fiber, CommandFails(c)
  PROVE  /\ Frame' /\ Others(c) /\ call'[c] = call[c] /\ wait[c].at = "sent"
         /\ wait'[c].at = "replied" /\ wait'[c].cmd = wait[c].cmd /\ wait'[c].ok = FALSE
         /\ wait'[c].got = wait[c].got
<1>1. /\ Pop(c, Cmd, [Replied(c) EXCEPT !.ok = FALSE]) /\ faults' = faults + 1
      /\ disturbed' = IF Writes(call[c].op) THEN disturbed \cup call[c].keys ELSE disturbed
      /\ UNCHANGED <<l2, ran, touched>> /\ wait[c].at = "sent"
  BY DEF CommandFails, Pop
<1>2. PICK w \in Wait : w = Replied(c)
  BY RepliedTyped
<1>3. /\ w.at = "replied" /\ w.cmd = wait[c].cmd /\ w.got = wait[c].got
      /\ w.todo = wait[c].todo /\ w.found = wait[c].found
  BY <1>2, RepliedTyped
<1>4. PICK q : q = [w EXCEPT !.ok = FALSE]
  OBVIOUS
<1>5. q \in Wait
  BY <1>4 DEF Wait
<1>6. /\ q.at = w.at /\ q.cmd = w.cmd /\ q.ok = FALSE /\ q.got = w.got /\ q.todo = w.todo
      /\ q.found = w.found
  BY <1>4, WaitFields
<1>7. /\ disturbed \subseteq disturbed' /\ disturbed' \subseteq Key
      /\ Writes(call[c].op) => call[c].keys \subseteq disturbed'
  BY <1>1, CallFacts DEF Frame, Aux
<1>8. Pop(c, Cmd, q)
  BY <1>1, <1>2, <1>4
<1>9. /\ Fibers' /\ wait'[c] = q /\ call'[c] = call[c] /\ Others(c)
      /\ \A o \in Fiber : Failed(wait'[o], call'[o], disturbed')
      /\ l1' = l1 /\ truth' = truth /\ clock' = clock
  BY <1>3, <1>5, <1>6, <1>7, <1>8, PopFrame
<1>10. faults' \in Nat
  BY <1>1 DEF Frame, Levels
<1>11. Levels'
  BY <1>1, <1>9, <1>10 DEF Frame, Levels
<1>12. Aux'
  BY <1>1, <1>7, <1>9 DEF Frame, Aux
<1> QED
  BY <1>1, <1>3, <1>6, <1>9, <1>11, <1>12 DEF Frame

-----------------------------------------------------------------------------
(* Lookups, time and restarts                                              *)

LEMMA HasFrame ==
  ASSUME Frame, NEW i \in Instance, NEW k \in Key, Has(i, k)
  PROVE  Frame' /\ \A j \in Instance : Less(l1'[j], l1[j], {})
<1>1. PICK m : m = Lookup(l1[i], k, clock)
  OBVIOUS
<1>2. PICK s : s = l1[i]
  OBVIOUS
<1>3. Good(s) /\ Size(s) <= Capacity
  BY <1>2 DEF Frame, Levels
<1>4. PICK t : t = clock
  OBVIOUS
<1>5. Good(m) /\ Size(m) <= Size(s) /\ Less(m, s, {})
  BY <1>1, <1>2, <1>3, <1>4, LookupLess
<1>6. Size(m) <= Capacity
  BY <1>3, <1>5, SizeNat, CapacityNat
<1>7. l1' = [l1 EXCEPT ![i] = m] /\ l1 \in [Instance -> Store]
      /\ UNCHANGED <<clock, l2, call, wait, faults, truth, disturbed, ran, touched>>
  BY <1>1 DEF Has, Frame, Levels
<1>8. clock' \in Nat /\ faults' \in Nat /\ l2' \in [Key -> MaybeEntry]
  BY <1>7 DEF Frame, Levels
<1>9. Levels'
  BY <1>5, <1>6, <1>7, <1>8, StoreLevels DEF Frame
<1>10. Fibers' /\ Aux'
  BY <1>7 DEF Frame, Fibers, Aux
<1>11. \A j \in Instance : Less(l1'[j], l1[j], {})
  BY <1>2, <1>5, <1>7 DEF Less
<1> QED
  BY <1>9, <1>10, <1>11 DEF Frame

LEMMA TickFrame ==
  ASSUME Frame, Tick
  PROVE  Frame'
<1>1. PICK over : over = {k \in Key : l2[k] # Absent /\ Expired(l2[k], clock + 1)}
  OBVIOUS
<1>2. /\ clock' = clock + 1 /\ l2' = RedisDel(l2, over)
      /\ ran' = [k \in Key |-> IF k \in over THEN 0 ELSE ran[k]]
      /\ UNCHANGED <<l1, call, wait, faults, truth, disturbed, touched>>
  BY <1>1 DEF Tick
<1>3. l2' \in [Key -> MaybeEntry]
  BY <1>2, DelTyped DEF Frame, Levels
<1>4. clock' \in Nat
  BY <1>2 DEF Frame, Levels
<1>5. Levels'
  BY <1>2, <1>3, <1>4 DEF Frame, Levels
<1>6. ran' \in [Key -> Nat]
  BY <1>2 DEF Frame, Aux
<1>7. Fibers' /\ Aux'
  BY <1>2, <1>6 DEF Frame, Fibers, Aux
<1> QED
  BY <1>5, <1>7 DEF Frame

LEMMA RestartFrame ==
  ASSUME Frame, NEW i \in Instance, Restart(i)
  PROVE  /\ Frame' /\ l1'[i] = EmptyStore /\ \A j \in Instance \ {i} : l1'[j] = l1[j]
         /\ disturbed \subseteq disturbed'
         /\ \A o \in Fiber : On(o) = i => /\ wait'[o] = Idle /\ call'[o] = NoCall
                                          /\ Writes(call[o].op) => call[o].keys \subseteq disturbed'
         /\ \A o \in Fiber : On(o) # i => /\ wait'[o] = wait[o] /\ call'[o] = call[o]
                                          /\ touched'[o] = touched[o]
         /\ faults' = faults + 1
<1>1. PICK dead : dead = {c \in Fiber : On(c) = i}
  OBVIOUS
<1>2. /\ faults' = faults + 1 /\ l1' = [l1 EXCEPT ![i] = EmptyStore]
      /\ wait' = [c \in Fiber |-> IF c \in dead THEN Idle ELSE wait[c]]
      /\ call' = [c \in Fiber |-> IF c \in dead THEN NoCall ELSE call[c]]
      /\ disturbed' = disturbed \cup
           UNION {call[c].keys : c \in {o \in dead : Writes(call[o].op)}}
      /\ touched' = [c \in Fiber |-> IF c \in dead THEN {} ELSE touched[c]]
      /\ UNCHANGED <<clock, l2, truth, ran>>
  BY <1>1 DEF Restart
<1>3. faults' \in Nat /\ clock' \in Nat /\ l2' \in [Key -> MaybeEntry]
  BY <1>2 DEF Frame, Levels
<1>4. Good(EmptyStore) /\ Size(EmptyStore) = 0 /\ 0 <= Capacity
  BY EmptyStoreGood, FS_EmptySet, CapacityNat DEF Size
<1>5. PICK m : m = EmptyStore
  OBVIOUS
<1>6. Good(m) /\ Size(m) <= Capacity /\ l1' = [l1 EXCEPT ![i] = m]
  BY <1>2, <1>4, <1>5
<1>7. Levels'
  BY <1>3, <1>6, StoreLevels DEF Frame
<1>8. /\ \A o \in dead : wait'[o] = Idle /\ call'[o] = NoCall
      /\ \A o \in Fiber \ dead : wait'[o] = wait[o] /\ call'[o] = call[o]
      /\ \A o \in Fiber \ dead : touched'[o] = touched[o]
  BY <1>1, <1>2
<1>9. Fibers'
  <2>1. wait' \in [Fiber -> Wait] /\ call' \in [Fiber -> Call]
    BY <1>2, IdleTyped DEF Frame, Fibers
  <2>2. \A o \in Fiber : InCall(wait'[o], call'[o])
    BY <1>8, IdleTyped DEF Frame, Fibers
  <2> QED
    BY <2>1, <2>2 DEF Fibers
<1>10. disturbed \subseteq disturbed' /\ disturbed' \subseteq Key
  <2>1. \A c \in Fiber : call[c].keys \in SUBSET Key
    BY CallFacts
  <2> QED
    BY <1>1, <1>2, <2>1 DEF Frame, Aux
<1>11. \A o \in dead : Writes(call[o].op) => call[o].keys \subseteq disturbed'
  BY <1>2
<1>12. Aux'
  <2>1. \A o \in Fiber : Failed(wait'[o], call'[o], disturbed')
    BY <1>8, <1>10 DEF Frame, Aux, Failed, Idle
  <2>2. touched' \in [Fiber -> SUBSET Key]
    BY <1>2 DEF Frame, Aux
  <2> QED
    BY <1>2, <1>10, <2>1, <2>2 DEF Frame, Aux
<1>13. l1'[i] = EmptyStore /\ \A j \in Instance \ {i} : l1'[j] = l1[j]
  BY <1>2 DEF Frame, Levels
<1> QED
  BY <1>1, <1>2, <1>7, <1>8, <1>9, <1>10, <1>11, <1>12, <1>13 DEF Frame

LEMMA StutterFrame == ASSUME Frame, UNCHANGED vars PROVE Frame'
<1>1. UNCHANGED <<clock, l1, l2, call, wait, faults, truth, disturbed, ran, touched>>
  BY DEF vars, sut
<1> QED
  BY <1>1 DEF Frame, Fibers, Levels, Aux

\* The three calls that remove keys.
LEMMA RemovesIs ==
  ASSUME NEW c \in Fiber, NEW i \in Instance,
         \/ \E ks \in SUBSET Key \ {{}} : StartDel(c, i, ks)
         \/ \E ns \in Namespaces : StartFlushNamespace(c, i, ns)
         \/ StartFlushAll(c, i)
  PROVE  \E op, ks, cmd, todo :
           ks \in SUBSET Key /\ Removes(op, ks, cmd, todo) /\ Remove(c, i, op, ks, cmd, todo)
<1>1. CASE \E ks \in SUBSET Key \ {{}} : StartDel(c, i, ks)
  BY <1>1 DEF StartDel, Removes
<1>2. CASE \E ns \in Namespaces : StartFlushNamespace(c, i, ns)
  <2>1. PICK ns \in Namespaces : StartFlushNamespace(c, i, ns)
    BY <1>2
  <2>2. ns \in SUBSET Key
    BY NamespacesAssumption
  <2> QED
    BY <2>1, <2>2 DEF StartFlushNamespace, Removes
<1>3. CASE StartFlushAll(c, i)
  BY <1>3 DEF StartFlushAll, Removes
<1> QED
  BY <1>1, <1>2, <1>3

LEMMA StepFrame == Frame /\ [Next]_vars => Frame'
<1> SUFFICES ASSUME Frame, [Next]_vars
             PROVE  Frame'
  OBVIOUS
<1>1. ASSUME NEW c \in Fiber, Continue(c)
      PROVE  Frame'
  BY <1>1, SendReadFrame, FinishGetFrame, FinishOnceFrame, FinishSimpleFrame,
     FinishFlushFrame, CallbackDoneFrame, CallbackFailsFrame DEF Continue
<1>2. ASSUME NEW c \in Fiber, Redis(c)
      PROVE  Frame'
  BY <1>2, RedisReadsFrame, RedisWritesFrame, RedisDeletesFrame, RedisScansFrame,
     CommandFailsFrame DEF Redis
<1>3. ASSUME NEW c \in Fiber, NEW i \in Instance, Start(c, i)
      PROVE  Frame'
  <2>1. CASE \E k \in Key, op \in {"get", "once"} : StartRead(c, i, op, k)
    BY <2>1, StartReadFrame
  <2>2. CASE \E k \in Key, d \in Values, ttl \in Ttls : StartSet(c, i, k, d, ttl)
    BY <2>2, StartSetFrame DEF SetStarts
  <2>3. ASSUME \/ \E ks \in SUBSET Key \ {{}} : StartDel(c, i, ks)
               \/ \E ns \in Namespaces : StartFlushNamespace(c, i, ns)
               \/ StartFlushAll(c, i)
        PROVE  Frame'
    BY <2>3, RemovesIs, RemoveFrame
  <2> QED
    BY <1>3, <2>1, <2>2, <2>3 DEF Start
<1> QED
  BY <1>1, <1>2, <1>3, HasFrame, TickFrame, RestartFrame, StutterFrame DEF Next

\* Every reachable state is well-typed, every fiber stands where its call allows,
\* and every level-1 store is an ordered store within its limit.
LEMMA FrameHolds == Spec => []Frame
  BY InitFrame, StepFrame, PTL DEF Spec

\* No interleaving of calls and restarts takes the level-1 store of an instance over
\* maxItems (memory-cache.provider.ts, set).
THEOREM StoresStayBounded == Spec => []CapacityBound
<1>1. Frame => CapacityBound
  BY DEF Frame, Levels, CapacityBound, Capacity
<1> QED
  BY <1>1, FrameHolds, PTL

-----------------------------------------------------------------------------
(* The invariant of a key nobody has disturbed                             *)

\* Fiber state q in call d is at work on key k.
WorksIn(q, d, k) == q.at # "idle" /\ k \in d.keys

\* Level 2 has still to see the effect of the call on the key.
PendingIn(q, d, k) ==
  /\ WorksIn(q, d, k)
  /\ \/ q.cmd = "SET" /\ q.at = "sent"
     \/ d.op = "del" /\ q.at = "sent"
     \/ d.op = "flush" /\ q.cmd = "FLUSHDB" /\ q.at = "sent"
     \/ d.op = "flush" /\ k \in q.todo
     \/ d.op = "flush" /\ k \in q.found /\ q.cmd = "SCAN" /\ q.at = "replied"
     \/ d.op = "flush" /\ k \in q.found /\ q.cmd = "DEL" /\ q.at = "sent"

SettingIn(q, d, k) == WorksIn(q, d, k) /\ q.cmd = "SET" /\ q.at = "sent"

\* What was read, or is about to be written, is value v.
HeardIn(q, d, k, v) ==
  WorksIn(q, d, k) =>
    /\ q.cmd = "GET" /\ q.at = "replied" /\ q.got # Absent => q.got = v
    /\ q.cmd = "SET" => d.data = v

\* A call that removes the key, or that has found no marker there.
UnmarkedIn(q, d, k) ==
  /\ WorksIn(q, d, k)
  /\ \/ d.op \in {"del", "flush"}
     \/ d.op = "once" /\ q.cmd = "GET" /\ q.at = "running"
     \/ d.op = "once" /\ q.cmd = "GET" /\ q.at = "replied" /\ q.got = Absent

AloneOn(k) ==
  \A c, o \in Fiber :
    c # o /\ WorksIn(wait[c], call[c], k) /\ WorksIn(wait[o], call[o], k) =>
      call[c].op = "get" /\ call[o].op = "get"

FreshOn(k) ==
  \A i \in Instance : Fresh(l1[i], k, clock) => l1[i].entry[k].data = truth[k]

SettledOn(k) ==
  l2[k] # Absent /\ (\A c \in Fiber : ~PendingIn(wait[c], call[c], k)) =>
    l2[k].data = truth[k]

HeardOn(k) == \A c \in Fiber : HeardIn(wait[c], call[c], k, truth[k])

MarkedOn(k) ==
  /\ ran[k] <= 1
  /\ ran[k] # 0 => l2[k] # Absent \/ \E c \in Fiber : SettingIn(wait[c], call[c], k)
  /\ \A c \in Fiber : UnmarkedIn(wait[c], call[c], k) => ran[k] = 0

KeyOn(k) == AloneOn(k) /\ FreshOn(k) /\ SettledOn(k) /\ HeardOn(k) /\ MarkedOn(k)

Coherent == \A k \in Key \ disturbed : KeyOn(k)

\* Redis holds no expired entry.
Live == \A k \in Key : l2[k] # Absent => ~Expired(l2[k], clock)

LEMMA InitCoherent == Init => Coherent /\ Live
<1> SUFFICES ASSUME Init
             PROVE  Coherent /\ Live
  OBVIOUS
<1>1. /\ \A c \in Fiber : wait[c] = Idle /\ \A k \in Key : ran[k] = 0 /\ l2[k] = Absent
      /\ \A i \in Instance : l1[i] = EmptyStore
  BY DEF Init, EmptyRedis
<1>2. \A c \in Fiber : wait[c].at = "idle"
  BY <1>1 DEF Idle
<1>3. \A k \in Key, i \in Instance : ~Fresh(l1[i], k, clock)
  BY <1>1 DEF Fresh, EmptyStore
<1>4. \A k \in Key : ran[k] = 0 /\ l2[k] = Absent
  BY DEF Init, EmptyRedis
<1>5. ASSUME NEW k \in Key
      PROVE  KeyOn(k)
  <2>1. AloneOn(k) /\ FreshOn(k)
    BY <1>2, <1>3, <1>5 DEF AloneOn, FreshOn, WorksIn
  <2>2. SettledOn(k) /\ HeardOn(k)
    BY <1>2, <1>4, <1>5 DEF SettledOn, HeardOn, HeardIn, WorksIn
  <2>3. MarkedOn(k)
    BY <1>2, <1>4, <1>5 DEF MarkedOn, UnmarkedIn, WorksIn
  <2> QED
    BY <2>1, <2>2, <2>3 DEF KeyOn
<1> QED
  BY <1>4, <1>5 DEF Coherent, Live

\* A store that has only lost entries holds no value it did not hold.
LEMMA FreshLess ==
  ASSUME NEW n, NEW m, NEW ks, Less(n, m, ks), NEW k \in Key \ ks, NEW t, Fresh(n, k, t)
  PROVE  Fresh(m, k, t) /\ n.entry[k] = m.entry[k]
  BY DEF Less, Fresh

LEMMA FreshStays ==
  ASSUME NEW ks, NEW k \in Key \ ks, FreshOn(k), truth'[k] = truth[k], clock' = clock,
         \A j \in Instance : Less(l1'[j], l1[j], ks)
  PROVE  FreshOn(k)'
<1> SUFFICES ASSUME NEW j \in Instance, Fresh(l1'[j], k, clock')
             PROVE  l1'[j].entry[k].data = truth'[k]
  BY DEF FreshOn
<1>1. Fresh(l1[j], k, clock) /\ l1'[j].entry[k] = l1[j].entry[k]
  BY FreshLess
<1> QED
  BY <1>1 DEF FreshOn

LEMMA AloneStays ==
  ASSUME NEW c \in Fiber, Others(c), NEW k, AloneOn(k),
         WorksIn(wait'[c], call'[c], k) =>
           WorksIn(wait[c], call[c], k) /\ call'[c].op = call[c].op
  PROVE  AloneOn(k)'
<1> SUFFICES ASSUME NEW a \in Fiber, NEW o \in Fiber, a # o,
                    WorksIn(wait'[a], call'[a], k), WorksIn(wait'[o], call'[o], k)
             PROVE  call'[a].op = "get" /\ call'[o].op = "get"
  BY DEF AloneOn
<1>1. /\ WorksIn(wait[a], call[a], k) /\ call'[a].op = call[a].op
      /\ WorksIn(wait[o], call[o], k) /\ call'[o].op = call[o].op
  BY DEF Others
<1> QED
  BY <1>1 DEF AloneOn

\* A step that writes the key on neither level, or only loses it from level 1.
LEMMA QuietStep ==
  ASSUME NEW c \in Fiber, Others(c), NEW k, KeyOn(k), AloneOn(k)', FreshOn(k)',
         truth'[k] = truth[k], l2'[k] = l2[k], ran'[k] = ran[k],
         HeardIn(wait'[c], call'[c], k, truth[k]),
         PendingIn(wait[c], call[c], k) =>
           PendingIn(wait'[c], call'[c], k) \/ l2[k] = Absent,
         SettingIn(wait[c], call[c], k) => SettingIn(wait'[c], call'[c], k),
         UnmarkedIn(wait'[c], call'[c], k) => UnmarkedIn(wait[c], call[c], k) \/ ran[k] = 0
  PROVE  KeyOn(k)'
<1>1. HeardOn(k)'
  BY DEF KeyOn, HeardOn, Others
<1>2. SettledOn(k)'
  BY DEF KeyOn, SettledOn, Others
<1>3. MarkedOn(k)'
  <2>1. ran'[k] <= 1
    BY DEF KeyOn, MarkedOn
  <2>2. ran'[k] # 0 => l2'[k] # Absent \/ \E o \in Fiber : SettingIn(wait'[o], call'[o], k)
    BY DEF KeyOn, MarkedOn, Others
  <2>3. \A o \in Fiber : UnmarkedIn(wait'[o], call'[o], k) => ran'[k] = 0
    BY DEF KeyOn, MarkedOn, Others
  <2> QED
    BY <2>1, <2>2, <2>3 DEF MarkedOn
<1> QED
  BY <1>1, <1>2, <1>3 DEF KeyOn

\* A step of a fiber that is not, and does not come, to work on the key.
LEMMA Elsewhere ==
  ASSUME NEW c \in Fiber, Others(c), NEW ks, NEW k \in Key \ ks, KeyOn(k),
         ~WorksIn(wait[c], call[c], k), ~WorksIn(wait'[c], call'[c], k),
         truth'[k] = truth[k], l2'[k] = l2[k], ran'[k] = ran[k], clock' = clock,
         \A j \in Instance : Less(l1'[j], l1[j], ks)
  PROVE  KeyOn(k)'
<1>1. AloneOn(k)'
  BY AloneStays DEF KeyOn
<1>2. FreshOn(k)'
  BY FreshStays DEF KeyOn
<1> QED
  BY <1>1, <1>2, QuietStep DEF HeardIn, PendingIn, SettingIn, UnmarkedIn

LEMMA SameLess == ASSUME NEW ks, l1' = l1 PROVE \A j \in Instance : Less(l1'[j], l1[j], ks)
  BY DEF Less

LEMMA NobodyElse ==
  ASSUME NEW k, AloneOn(k), NEW c \in Fiber, NEW o \in Fiber, c # o,
         WorksIn(wait[c], call[c], k), WorksIn(wait[o], call[o], k)
  PROVE  call[c].op = "get" /\ call[o].op = "get"
  BY DEF AloneOn

LEMMA PendingWrites ==
  ASSUME Frame, NEW c \in Fiber, NEW k, PendingIn(wait[c], call[c], k)
  PROVE  WorksIn(wait[c], call[c], k) /\ call[c].op # "get" /\ wait[c].cmd # "GET"
<1>1. WorksIn(wait[c], call[c], k) /\ InCall(wait[c], call[c]) /\ wait[c].at # "idle"
  BY CallFacts DEF PendingIn, WorksIn
<1> QED
  BY <1>1 DEF PendingIn, InCall, Stands

LEMMA IdleWorks == ASSUME NEW d, NEW k PROVE ~WorksIn(Idle, d, k)
  BY DEF WorksIn, Idle

\* Nobody works on a key a new call has not disturbed, unless both only read it.
LEMMA NoOverlap ==
  ASSUME Frame, NEW c \in Fiber, NEW op \in Op, NEW ks, NEW k \in ks, k \notin Overlap(c, op, ks),
         NEW o \in Fiber \ {c}, WorksIn(wait[o], call[o], k)
  PROVE  op = "get" /\ call[o].op = "get"
<1>1. Active(o) /\ k \in call[o].keys
  BY DEF WorksIn, Active
<1>2. ~Writes(op) /\ ~Writes(call[o].op)
  BY <1>1 DEF Overlap
<1>3. call[o].op \in Op
  BY CallFacts DEF Call
<1> QED
  BY <1>2, <1>3 DEF Writes, Op

LEMMA NoDrift ==
  ASSUME NEW i, NEW ks, NEW k \in ks, k \in Key, k \notin Drift(i, ks), NEW j \in Instance \ {i}
  PROVE  ~Fresh(l1[j], k, clock)
  BY DEF Drift, Held, Fresh

LEMMA StartReadKey ==
  ASSUME Frame, NEW c \in Fiber, NEW i \in Instance, NEW op \in {"get", "once"},
         NEW h \in Key, StartRead(c, i, op, h), NEW k \in Key \ disturbed', KeyOn(k)
  PROVE  KeyOn(k)'
<1>1. /\ Others(c) /\ wait[c] = Idle /\ wait'[c].at = "missed" /\ wait'[c].cmd = "GET"
      /\ call'[c] = [on |-> i, op |-> op, keys |-> {h}, data |-> Marker, ttl |-> OnceTtl]
      /\ \A j \in Instance : Less(l1'[j], l1[j], {})
  BY StartReadFrame
<1>2. /\ truth' = truth /\ l2' = l2 /\ ran' = ran /\ clock' = clock
      /\ disturbed' = disturbed \cup Overlap(c, op, {h})
  BY DEF StartRead
<1>3. call'[c].op = op /\ call'[c].keys = {h}
  BY <1>1
<1>4. ~WorksIn(wait[c], call[c], k)
  BY <1>1, IdleWorks
<1>5. PICK ks : ks = {}
  OBVIOUS
<1>6. k \in Key \ ks /\ \A j \in Instance : Less(l1'[j], l1[j], ks)
  BY <1>1, <1>5
<1>7. CASE k # h
  <2>1. ~WorksIn(wait'[c], call'[c], k)
    BY <1>3, <1>7 DEF WorksIn
  <2> QED
    BY <1>1, <1>2, <1>4, <1>6, <2>1, Elsewhere
<1>8. CASE k = h
  <2>1. ASSUME NEW o \in Fiber \ {c}, WorksIn(wait[o], call[o], k)
        PROVE  op = "get" /\ call[o].op = "get"
    <3>1. PICK hs : hs = {h}
      OBVIOUS
    <3>2. k \in hs /\ k \notin Overlap(c, op, hs) /\ op \in Op
      BY <1>2, <1>8, <3>1 DEF Op
    <3> QED
      BY <2>1, <3>2, NoOverlap
  <2>2. AloneOn(k)'
    <3> SUFFICES ASSUME NEW a \in Fiber, NEW o \in Fiber, a # o,
                        WorksIn(wait'[a], call'[a], k), WorksIn(wait'[o], call'[o], k)
                 PROVE  call'[a].op = "get" /\ call'[o].op = "get"
      BY DEF AloneOn
    <3>1. CASE a = c
      BY <1>1, <1>3, <2>1, <3>1 DEF Others
    <3>2. CASE o = c
      BY <1>1, <1>3, <2>1, <3>2 DEF Others
    <3>3. CASE a # c /\ o # c
      BY <1>1, <3>3 DEF Others, KeyOn, AloneOn
    <3> QED
      BY <3>1, <3>2, <3>3
  <2>3. FreshOn(k)'
    BY <1>2, <1>6, FreshStays DEF KeyOn
  <2>4. HeardIn(wait'[c], call'[c], k, truth[k])
    BY <1>1 DEF HeardIn
  <2>5. ~UnmarkedIn(wait'[c], call'[c], k)
    BY <1>1, <1>3 DEF UnmarkedIn
  <2>6. ~PendingIn(wait[c], call[c], k) /\ ~SettingIn(wait[c], call[c], k)
    BY <1>4 DEF PendingIn, SettingIn
  <2> QED
    BY <1>1, <1>2, <2>2, <2>3, <2>4, <2>5, <2>6, QuietStep
<1> QED
  BY <1>7, <1>8

LEMMA StartSetKey ==
  ASSUME Frame, NEW c \in Fiber, NEW i \in Instance, NEW h \in Key, NEW d \in Values,
         NEW ttl \in Ttls, StartSet(c, i, h, d, ttl), NEW k \in Key \ disturbed', KeyOn(k)
  PROVE  KeyOn(k)'
<1>1. /\ Others(c) /\ wait[c] = Idle /\ wait'[c].at = "sent" /\ wait'[c].cmd = "SET"
      /\ call'[c] = [on |-> i, op |-> "set", keys |-> {h}, data |-> d, ttl |-> ttl]
      /\ \A j \in Instance : Less(l1'[j], l1[j], {h})
      /\ l1'[i].entry[h].data = d /\ \A j \in Instance \ {i} : l1'[j] = l1[j]
  <2>1. SetStarts(c, i, h, d, ttl)
    BY StartSetFrame
  <2> QED
    BY <2>1 DEF SetStarts
<1>2. /\ truth' = [truth EXCEPT ![h] = d] /\ l2' = l2 /\ ran' = ran /\ clock' = clock
      /\ disturbed' = disturbed \cup Overlap(c, "set", {h}) \cup Drift(i, {h})
  BY DEF StartSet
<1>3. call'[c].op = "set" /\ call'[c].keys = {h} /\ call'[c].data = d
  BY <1>1
<1>4. ~WorksIn(wait[c], call[c], k)
  BY <1>1, IdleWorks
<1>5. truth'[h] = d /\ \A j \in Key \ {h} : truth'[j] = truth[j]
  BY <1>2 DEF Frame, Aux
<1>6. PICK hs : hs = {h}
  OBVIOUS
<1>7. CASE k # h
  <2>1. ~WorksIn(wait'[c], call'[c], k)
    BY <1>3, <1>7 DEF WorksIn
  <2>2. k \in Key \ hs /\ (\A j \in Instance : Less(l1'[j], l1[j], hs)) /\ truth'[k] = truth[k]
    BY <1>1, <1>5, <1>6, <1>7
  <2> QED
    BY <1>1, <1>2, <1>4, <2>1, <2>2, Elsewhere
<1>8. CASE k = h
  <2>1. k \in hs /\ k \notin Overlap(c, "set", hs) /\ k \notin Drift(i, hs)
    BY <1>2, <1>6, <1>8
  <2>2. PICK op \in Op : op = "set"
    BY DEF Op
  <2>3. \A o \in Fiber \ {c} : ~WorksIn(wait[o], call[o], k)
    BY <2>1, <2>2, NoOverlap
  <2>4. \A o \in Fiber \ {c} : ~WorksIn(wait'[o], call'[o], k)
    BY <1>1, <2>3 DEF Others
  <2>5. AloneOn(k)'
    BY <2>4 DEF AloneOn
  <2>6. FreshOn(k)'
    <3> SUFFICES ASSUME NEW j \in Instance, Fresh(l1'[j], k, clock')
                 PROVE  l1'[j].entry[k].data = truth'[k]
      BY DEF FreshOn
    <3>1. CASE j = i
      BY <1>1, <1>5, <1>8, <3>1
    <3>2. CASE j # i
      BY <1>1, <1>2, <2>1, <3>2, NoDrift
    <3> QED
      BY <3>1, <3>2
  <2>7. WorksIn(wait'[c], call'[c], k)
    BY <1>1, <1>3, <1>8 DEF WorksIn
  <2>8. PendingIn(wait'[c], call'[c], k) /\ SettingIn(wait'[c], call'[c], k)
    BY <1>1, <2>7 DEF PendingIn, SettingIn
  <2>9. HeardOn(k)'
    BY <1>1, <1>3, <1>5, <1>8, <2>4 DEF HeardOn, HeardIn
  <2>10. SettledOn(k)'
    BY <2>8 DEF SettledOn
  <2>11. MarkedOn(k)'
    <3>1. \A o \in Fiber : ~UnmarkedIn(wait'[o], call'[o], k)
      BY <1>1, <1>3, <2>4 DEF UnmarkedIn
    <3> QED
      BY <1>2, <2>8, <3>1 DEF KeyOn, MarkedOn
  <2> QED
    BY <2>5, <2>6, <2>9, <2>10, <2>11 DEF KeyOn
<1> QED
  BY <1>7, <1>8

LEMMA RemoveKey ==
  ASSUME Frame, NEW c \in Fiber, NEW i \in Instance, NEW op, NEW ks \in SUBSET Key,
         NEW cmd, NEW todo, Removes(op, ks, cmd, todo), Remove(c, i, op, ks, cmd, todo),
         NEW k \in Key \ disturbed', KeyOn(k)
  PROVE  KeyOn(k)'
<1>1. /\ Others(c) /\ wait[c] = Idle
      /\ wait'[c].at = "sent" /\ wait'[c].cmd = cmd /\ wait'[c].todo = todo
      /\ call'[c] = [on |-> i, op |-> op, keys |-> ks, data |-> Absent, ttl |-> NoTtl]
      /\ \A j \in Instance : Less(l1'[j], l1[j], {})
      /\ Held(l1'[i]) = Held(l1[i]) \ ks /\ \A j \in Instance \ {i} : l1'[j] = l1[j]
  BY RemoveFrame
<1>2. /\ truth' = [j \in Key |-> IF j \in ks THEN Absent ELSE truth[j]]
      /\ ran' = [j \in Key |-> IF j \in ks THEN 0 ELSE ran[j]] /\ l2' = l2 /\ clock' = clock
      /\ disturbed' = disturbed \cup Overlap(c, op, ks) \cup Drift(i, ks)
  BY DEF Remove
<1>3. call'[c].op = op /\ call'[c].keys = ks /\ op \in {"del", "flush"} /\ cmd \notin {"GET", "SET"}
  BY <1>1 DEF Removes
<1>4. ~WorksIn(wait[c], call[c], k)
  BY <1>1, IdleWorks
<1>5. CASE k \notin ks
  <2>1. ~WorksIn(wait'[c], call'[c], k)
    BY <1>3, <1>5 DEF WorksIn
  <2>2. truth'[k] = truth[k] /\ ran'[k] = ran[k]
    BY <1>2, <1>5
  <2>3. PICK none : none = {}
    OBVIOUS
  <2>4. k \in Key \ none /\ \A j \in Instance : Less(l1'[j], l1[j], none)
    BY <1>1, <2>3
  <2> QED
    BY <1>1, <1>2, <1>4, <2>1, <2>2, <2>4, Elsewhere
<1>6. CASE k \in ks
  <2>1. k \notin Overlap(c, op, ks) /\ k \notin Drift(i, ks) /\ op \in Op /\ op # "get"
    BY <1>2, <1>3 DEF Op
  <2>2. \A o \in Fiber \ {c} : ~WorksIn(wait[o], call[o], k)
    BY <1>6, <2>1, NoOverlap
  <2>3. \A o \in Fiber \ {c} : ~WorksIn(wait'[o], call'[o], k)
    BY <1>1, <2>2 DEF Others
  <2>4. AloneOn(k)'
    BY <2>3 DEF AloneOn
  <2>5. FreshOn(k)'
    <3> SUFFICES ASSUME NEW j \in Instance, Fresh(l1'[j], k, clock')
                 PROVE  FALSE
      BY DEF FreshOn
    <3>1. CASE j = i
      BY <1>1, <1>6, <3>1 DEF Held, Fresh
    <3>2. CASE j # i
      BY <1>1, <1>2, <1>6, <2>1, <3>2, NoDrift
    <3> QED
      BY <3>1, <3>2
  <2>6. WorksIn(wait'[c], call'[c], k)
    BY <1>1, <1>3, <1>6 DEF WorksIn
  <2>7. PendingIn(wait'[c], call'[c], k)
    BY <1>1, <1>3, <1>6, <2>6 DEF PendingIn, Removes
  <2>8. HeardOn(k)'
    BY <1>1, <1>3, <2>3 DEF HeardOn, HeardIn
  <2>9. SettledOn(k)'
    BY <2>7 DEF SettledOn
  <2>10. ran'[k] = 0
    BY <1>2, <1>6
  <2>11. MarkedOn(k)'
    BY <2>10 DEF MarkedOn
  <2> QED
    BY <2>4, <2>5, <2>8, <2>9, <2>11 DEF KeyOn
<1> QED
  BY <1>5, <1>6

\* A call ends that Redis has nothing left to do for.
LEMMA EndKey ==
  ASSUME NEW c \in Fiber, Others(c), wait'[c] = Idle, NEW k, KeyOn(k), FreshOn(k)',
         truth'[k] = truth[k], l2'[k] = l2[k], ran'[k] = ran[k],
         ~PendingIn(wait[c], call[c], k)
  PROVE  KeyOn(k)'
<1>1. ~WorksIn(wait'[c], call'[c], k)
  BY IdleWorks
<1>2. AloneOn(k)'
  BY <1>1, AloneStays DEF KeyOn
<1>3. HeardIn(wait'[c], call'[c], k, truth[k]) /\ ~UnmarkedIn(wait'[c], call'[c], k)
  BY <1>1 DEF HeardIn, UnmarkedIn
<1>4. ~SettingIn(wait[c], call[c], k)
  BY DEF SettingIn, PendingIn
<1> QED
  BY <1>2, <1>3, <1>4, QuietStep

LEMMA SameFresh ==
  ASSUME NEW k \in Key, FreshOn(k), truth' = truth, clock' = clock, l1' = l1
  PROVE  FreshOn(k)'
  BY DEF FreshOn

LEMMA SendReadKey ==
  ASSUME Frame, NEW c \in Fiber, SendRead(c), NEW k \in Key \ disturbed', KeyOn(k)
  PROVE  KeyOn(k)'
<1>1. /\ Others(c) /\ call'[c] = call[c] /\ wait'[c].at = "sent" /\ wait'[c].cmd = "GET"
      /\ wait[c].at = "missed"
      /\ truth' = truth /\ l2' = l2 /\ ran' = ran /\ clock' = clock /\ l1' = l1
  BY SendReadFrame DEF SendRead
<1>2. InCall(wait[c], call[c])
  BY CallFacts
<1>3. wait[c].cmd = "GET" /\ call[c].op \in {"get", "once"}
  BY <1>1, <1>2 DEF InCall, Stands
<1>4. AloneOn(k)'
  BY <1>1, AloneStays DEF KeyOn, WorksIn
<1>5. FreshOn(k)'
  BY <1>1, SameFresh DEF KeyOn
<1>6. HeardIn(wait'[c], call'[c], k, truth[k]) /\ ~UnmarkedIn(wait'[c], call'[c], k)
  BY <1>1, <1>3 DEF HeardIn, UnmarkedIn
<1>7. ~PendingIn(wait[c], call[c], k) /\ ~SettingIn(wait[c], call[c], k)
  BY <1>1, <1>3, PendingWrites DEF SettingIn
<1> QED
  BY <1>1, <1>4, <1>5, <1>6, <1>7, QuietStep

LEMMA FinishSimpleKey ==
  ASSUME Frame, NEW c \in Fiber, FinishSimple(c), NEW k \in Key \ disturbed', KeyOn(k)
  PROVE  KeyOn(k)'
<1>1. /\ Others(c) /\ wait'[c] = Idle
      /\ wait[c].at = "replied" /\ call[c].op \in {"set", "del", "once"}
      /\ truth' = truth /\ l2' = l2 /\ ran' = ran /\ clock' = clock /\ l1' = l1
  BY FinishSimpleFrame DEF FinishSimple, Answered
<1>2. FreshOn(k)'
  BY <1>1, SameFresh DEF KeyOn
<1>3. ~PendingIn(wait[c], call[c], k)
  BY <1>1 DEF PendingIn
<1> QED
  BY <1>1, <1>2, <1>3, EndKey

LEMMA CallbackFailsKey ==
  ASSUME Frame, NEW c \in Fiber, CallbackFails(c), NEW k \in Key \ disturbed', KeyOn(k)
  PROVE  KeyOn(k)'
<1>1. /\ Others(c) /\ wait'[c] = Idle /\ wait[c].at = "running"
      /\ truth' = truth /\ l2' = l2 /\ ran' = ran /\ clock' = clock /\ l1' = l1
  BY CallbackFailsFrame DEF CallbackFails
<1>2. FreshOn(k)'
  BY <1>1, SameFresh DEF KeyOn
<1>3. ~PendingIn(wait[c], call[c], k)
  BY <1>1, CallFacts, PendingWrites DEF InCall, Stands
<1> QED
  BY <1>1, <1>2, <1>3, EndKey

\* What a hydration installs is the value the key should have.
LEMMA HydrateFresh ==
  ASSUME Frame, NEW c \in Fiber, Answered(c, {"get", "once"}), wait[c].cmd = "GET", Hydrate(c),
         clock' = clock, faults' = faults, l2' = l2, truth' = truth,
         NEW k \in Key, KeyOn(k)
  PROVE  FreshOn(k)'
<1>1. Active(c) /\ call[c].op \in {"get", "once"} /\ wait[c].at = "replied"
  BY DEF Answered, Active
<1>2. PICK h \in Key : h = TheKey(c) /\ call[c].keys = {h}
  BY <1>1, TheKeyIs
<1>3. PICK hs : hs = {h}
  OBVIOUS
<1>4. /\ \A j \in Instance : Less(l1'[j], l1[j], hs)
      /\ wait[c].got = Absent => l1' = l1
      /\ wait[c].got # Absent =>
           /\ l1'[On(c)].entry[h].data = wait[c].got
           /\ \A j \in Instance \ {On(c)} : l1'[j] = l1[j]
  BY <1>2, <1>3, HydrateFrame
<1>5. CASE k # h
  <2>1. k \in Key \ hs /\ truth'[k] = truth[k]
    BY <1>3, <1>5
  <2> QED
    BY <1>4, <2>1, FreshStays DEF KeyOn
<1>6. CASE k = h /\ wait[c].got = Absent
  BY <1>4, <1>6, SameFresh DEF KeyOn
<1>7. CASE k = h /\ wait[c].got # Absent
  <2>1. WorksIn(wait[c], call[c], k)
    BY <1>1, <1>2, <1>7 DEF WorksIn
  <2>2. wait[c].got = truth[k]
    BY <1>1, <1>7, <2>1 DEF KeyOn, HeardOn, HeardIn
  <2> SUFFICES ASSUME NEW j \in Instance, Fresh(l1'[j], k, clock')
               PROVE  l1'[j].entry[k].data = truth'[k]
    BY DEF FreshOn
  <2>3. CASE j = On(c)
    BY <1>4, <1>7, <2>2, <2>3
  <2>4. CASE j # On(c)
    BY <1>4, <1>7, <2>4 DEF KeyOn, FreshOn
  <2> QED
    BY <2>3, <2>4
<1> QED
  BY <1>5, <1>6, <1>7

LEMMA FinishGetKey ==
  ASSUME Frame, NEW c \in Fiber, FinishGet(c), NEW k \in Key \ disturbed', KeyOn(k)
  PROVE  KeyOn(k)'
<1>1. /\ Others(c) /\ wait'[c] = Idle
      /\ wait[c].at = "replied" /\ call[c].op = "get"
      /\ truth' = truth /\ l2' = l2 /\ ran' = ran /\ clock' = clock /\ faults' = faults
      /\ Hydrate(c) /\ Answered(c, {"get", "once"})
  BY FinishGetFrame DEF FinishGet, Answered
<1>2. wait[c].cmd = "GET"
  BY <1>1, CallFacts DEF InCall, Stands
<1>3. FreshOn(k)'
  BY <1>1, <1>2, HydrateFresh
<1>4. ~PendingIn(wait[c], call[c], k)
  BY <1>1, PendingWrites
<1> QED
  BY <1>1, <1>3, <1>4, EndKey

LEMMA FinishOnceKey ==
  ASSUME Frame, NEW c \in Fiber, FinishOnce(c), NEW k \in Key \ disturbed', KeyOn(k)
  PROVE  KeyOn(k)'
<1>1. /\ Others(c) /\ wait[c].at = "replied" /\ wait[c].cmd = "GET" /\ call[c].op = "once"
      /\ truth' = truth /\ l2' = l2 /\ ran' = ran /\ clock' = clock /\ faults' = faults
      /\ Hydrate(c) /\ Answered(c, {"get", "once"})
      /\ wait[c].got # Absent => wait'[c] = Idle
      /\ wait[c].got = Absent =>
           wait'[c].at = "running" /\ wait'[c].cmd = "GET" /\ call'[c] = call[c]
  BY FinishOnceFrame DEF FinishOnce, Answered
<1>2. FreshOn(k)'
  BY <1>1, HydrateFresh
<1>3. ~PendingIn(wait[c], call[c], k) /\ ~SettingIn(wait[c], call[c], k)
  BY <1>1, PendingWrites DEF SettingIn
<1>4. CASE wait[c].got # Absent
  BY <1>1, <1>2, <1>3, <1>4, EndKey
<1>5. CASE wait[c].got = Absent
  <2>1. AloneOn(k)'
    BY <1>1, <1>5, AloneStays DEF KeyOn, WorksIn
  <2>2. HeardIn(wait'[c], call'[c], k, truth[k])
    BY <1>1, <1>5 DEF HeardIn
  <2>3. UnmarkedIn(wait'[c], call'[c], k) => UnmarkedIn(wait[c], call[c], k)
    BY <1>1, <1>5 DEF UnmarkedIn, WorksIn
  <2> QED
    BY <1>1, <1>2, <1>3, <2>1, <2>2, <2>3, QuietStep
<1> QED
  BY <1>4, <1>5

LEMMA FinishFlushKey ==
  ASSUME Frame, NEW c \in Fiber, FinishFlush(c), NEW k \in Key \ disturbed', KeyOn(k)
  PROVE  KeyOn(k)'
<1>1. /\ Others(c) /\ wait[c].at = "replied" /\ call[c].op = "flush"
      /\ truth' = truth /\ l2' = l2 /\ ran' = ran /\ clock' = clock /\ l1' = l1
      /\ disturbed' = disturbed
  BY FinishFlushFrame DEF FinishFlush, Answered
<1>2. /\ FlushOver(c) => wait'[c] = Idle
      /\ ~FlushOver(c) =>
           /\ call'[c] = call[c] /\ wait'[c].at = "sent"
           /\ wait'[c].cmd = IF wait[c].cmd = "SCAN" /\ wait[c].found # {} THEN "DEL" ELSE "SCAN"
           /\ wait'[c].todo = wait[c].todo /\ wait'[c].found = wait[c].found
  BY FinishFlushFrame
<1>3. FreshOn(k)'
  BY <1>1, SameFresh DEF KeyOn
<1>4. CASE FlushOver(c)
  <2>1. k \in call[c].keys => wait[c].ok
    BY <1>1, CallFacts DEF Failed, Writes
  <2>2. wait[c].cmd = "FLUSHDB" => wait[c].todo = {} /\ wait[c].found = {}
    BY <1>1, CallFacts DEF InCall
  <2>3. ~PendingIn(wait[c], call[c], k)
    BY <1>1, <1>4, <2>1, <2>2 DEF PendingIn, WorksIn, FlushOver
  <2> QED
    BY <1>1, <1>2, <1>3, <1>4, <2>3, EndKey
<1>5. CASE ~FlushOver(c)
  <2>1. AloneOn(k)'
    BY <1>1, <1>2, <1>5, AloneStays DEF KeyOn, WorksIn
  <2>2. HeardIn(wait'[c], call'[c], k, truth[k])
    BY <1>1, <1>2, <1>5 DEF HeardIn
  <2>3. UnmarkedIn(wait'[c], call'[c], k) => UnmarkedIn(wait[c], call[c], k)
    BY <1>1, <1>2, <1>5 DEF UnmarkedIn, WorksIn
  <2>4. PendingIn(wait[c], call[c], k) => PendingIn(wait'[c], call'[c], k)
    BY <1>1, <1>2, <1>5 DEF PendingIn, WorksIn
  <2>5. ~SettingIn(wait[c], call[c], k)
    BY <1>1 DEF SettingIn
  <2> QED
    BY <1>1, <1>3, <2>1, <2>2, <2>3, <2>4, <2>5, QuietStep
<1> QED
  BY <1>4, <1>5

LEMMA CallbackDoneKey ==
  ASSUME Frame, NEW c \in Fiber, CallbackDone(c), NEW k \in Key \ disturbed', KeyOn(k)
  PROVE  KeyOn(k)'
<1>1. /\ Others(c) /\ call'[c] = call[c] /\ wait[c].at = "running" /\ wait[c].cmd = "GET"
      /\ wait'[c].at = "sent" /\ wait'[c].cmd = "SET" /\ call[c].op = "once"
      /\ \A j \in Instance : Less(l1'[j], l1[j], {TheKey(c)})
      /\ l1'[On(c)].entry[TheKey(c)].data = Marker
      /\ \A j \in Instance \ {On(c)} : l1'[j] = l1[j]
  BY CallbackDoneFrame DEF CallbackDone
<1>2. PICK h \in Key : h = TheKey(c) /\ call[c].keys = {h}
  BY <1>1, TheKeyIs DEF Active
<1>3. /\ truth' = [truth EXCEPT ![h] = Marker] /\ ran' = [ran EXCEPT ![h] = @ + 1]
      /\ l2' = l2 /\ clock' = clock /\ disturbed' = disturbed \cup Drift(On(c), {h})
  BY <1>2 DEF CallbackDone
<1>4. /\ truth'[h] = Marker /\ ran'[h] = ran[h] + 1
      /\ \A j \in Key \ {h} : truth'[j] = truth[j] /\ ran'[j] = ran[j]
  BY <1>3 DEF Frame, Aux
<1>5. PICK hs : hs = {h}
  OBVIOUS
<1>6. CASE k # h
  <2>1. ~WorksIn(wait[c], call[c], k) /\ ~WorksIn(wait'[c], call'[c], k)
    BY <1>1, <1>2, <1>6 DEF WorksIn
  <2>2. /\ k \in Key \ hs /\ truth'[k] = truth[k] /\ ran'[k] = ran[k] /\ l2'[k] = l2[k]
        /\ \A j \in Instance : Less(l1'[j], l1[j], hs)
    BY <1>1, <1>2, <1>3, <1>4, <1>5, <1>6
  <2> QED
    BY <1>1, <1>3, <2>1, <2>2, Elsewhere
<1>7. CASE k = h
  <2>1. WorksIn(wait[c], call[c], k) /\ WorksIn(wait'[c], call'[c], k)
    BY <1>1, <1>2, <1>7 DEF WorksIn
  <2>2. \A o \in Fiber \ {c} : ~WorksIn(wait[o], call[o], k)
    BY <1>1, <2>1, NobodyElse DEF KeyOn
  <2>3. \A o \in Fiber \ {c} : ~WorksIn(wait'[o], call'[o], k)
    BY <1>1, <2>2 DEF Others
  <2>4. AloneOn(k)'
    BY <2>3 DEF AloneOn
  <2>5. FreshOn(k)'
    <3> SUFFICES ASSUME NEW j \in Instance, Fresh(l1'[j], k, clock')
                 PROVE  l1'[j].entry[k].data = truth'[k]
      BY DEF FreshOn
    <3>1. CASE j = On(c)
      BY <1>1, <1>2, <1>4, <1>7, <3>1
    <3>2. CASE j # On(c)
      <4>1. PICK i : i = On(c)
        OBVIOUS
      <4>2. k \in hs /\ k \notin Drift(i, hs) /\ j \in Instance \ {i}
        BY <1>3, <1>5, <1>7, <3>2, <4>1
      <4>3. ~Fresh(l1[j], k, clock)
        BY <4>2, NoDrift
      <4> QED
        BY <1>1, <1>3, <3>2, <4>3
    <3> QED
      BY <3>1, <3>2
  <2>6. PendingIn(wait'[c], call'[c], k) /\ SettingIn(wait'[c], call'[c], k)
    BY <1>1, <2>1 DEF PendingIn, SettingIn
  <2>7. call[c].data = Marker
    BY <1>1, CallFacts DEF InCall
  <2>8. HeardOn(k)'
    BY <1>1, <1>4, <1>7, <2>3, <2>7 DEF HeardOn, HeardIn
  <2>9. SettledOn(k)'
    BY <2>6 DEF SettledOn
  <2>10. UnmarkedIn(wait[c], call[c], k)
    BY <1>1, <2>1 DEF UnmarkedIn
  <2>11. ran'[k] <= 1
    BY <1>4, <1>7, <2>10 DEF KeyOn, MarkedOn
  <2>12. \A o \in Fiber : ~UnmarkedIn(wait'[o], call'[o], k)
    BY <1>1, <2>3 DEF UnmarkedIn
  <2>13. MarkedOn(k)'
    BY <2>6, <2>11, <2>12 DEF MarkedOn
  <2> QED
    BY <2>4, <2>5, <2>8, <2>9, <2>13 DEF KeyOn
<1> QED
  BY <1>6, <1>7

LEMMA ReadsAbsent ==
  ASSUME Frame, Live, NEW k \in Key
  PROVE  /\ RedisGet(l2, k, clock) = Absent <=> l2[k] = Absent
         /\ l2[k] # Absent => RedisGet(l2, k, clock) = l2[k].data
<1>1. l2[k] \in MaybeEntry
  BY DEF Frame, Levels
<1>2. l2[k] # Absent => l2[k].data # Absent
  BY <1>1, DataAssumption DEF MaybeEntry, Entry
<1> QED
  BY <1>2 DEF RedisGet, Live

LEMMA RedisReadsKey ==
  ASSUME Frame, Live, NEW c \in Fiber, RedisReads(c), NEW k \in Key \ disturbed', KeyOn(k)
  PROVE  KeyOn(k)'
<1>1. /\ Others(c) /\ call'[c] = call[c] /\ wait[c].at = "sent" /\ wait[c].cmd = "GET"
      /\ wait'[c].at = "replied" /\ wait'[c].cmd = "GET"
      /\ wait'[c].got = RedisGet(l2, TheKey(c), clock)
      /\ truth' = truth /\ l2' = l2 /\ ran' = ran /\ clock' = clock /\ l1' = l1
  BY RedisReadsFrame DEF RedisReads, Pop
<1>2. call[c].op \in {"get", "once"}
  BY <1>1, CallFacts DEF InCall, Stands
<1>3. TheKey(c) \in Key /\ call[c].keys = {TheKey(c)}
  BY <1>1, <1>2, TheKeyIs DEF Active
<1>4. AloneOn(k)'
  BY <1>1, AloneStays DEF KeyOn, WorksIn
<1>5. FreshOn(k)'
  BY <1>1, SameFresh DEF KeyOn
<1>6. ~PendingIn(wait[c], call[c], k) /\ ~SettingIn(wait[c], call[c], k)
  BY <1>1, PendingWrites DEF SettingIn
<1>7. CASE ~WorksIn(wait[c], call[c], k)
  <2>1. ~WorksIn(wait'[c], call'[c], k)
    BY <1>1, <1>7 DEF WorksIn
  <2>2. HeardIn(wait'[c], call'[c], k, truth[k]) /\ ~UnmarkedIn(wait'[c], call'[c], k)
    BY <2>1 DEF HeardIn, UnmarkedIn
  <2> QED
    BY <1>1, <1>4, <1>5, <1>6, <2>2, QuietStep
<1>8. CASE WorksIn(wait[c], call[c], k)
  <2>1. k = TheKey(c)
    BY <1>3, <1>8 DEF WorksIn
  <2>2. \A o \in Fiber : ~PendingIn(wait[o], call[o], k)
    <3> SUFFICES ASSUME NEW o \in Fiber, PendingIn(wait[o], call[o], k)
                 PROVE  FALSE
      OBVIOUS
    <3>1. WorksIn(wait[o], call[o], k) /\ call[o].op # "get" /\ o # c
      BY <1>6, PendingWrites
    <3> QED
      BY <1>8, <3>1, NobodyElse DEF KeyOn
  <2>3. wait'[c].got # Absent => wait'[c].got = truth[k]
    BY <1>1, <2>1, <2>2, ReadsAbsent DEF KeyOn, SettledOn
  <2>4. HeardIn(wait'[c], call'[c], k, truth[k])
    BY <1>1, <2>3 DEF HeardIn
  <2>5. wait'[c].got = Absent => ran[k] = 0
    <3> SUFFICES ASSUME wait'[c].got = Absent
                 PROVE  ran[k] = 0
      OBVIOUS
    <3>1. l2[k] = Absent
      BY <1>1, <2>1, ReadsAbsent
    <3>2. \A o \in Fiber : ~SettingIn(wait[o], call[o], k)
      BY <2>2 DEF SettingIn, PendingIn
    <3> QED
      BY <3>1, <3>2 DEF KeyOn, MarkedOn
  <2>6. UnmarkedIn(wait'[c], call'[c], k) => ran[k] = 0
    BY <1>1, <1>2, <2>5 DEF UnmarkedIn
  <2> QED
    BY <1>1, <1>4, <1>5, <1>6, <2>4, <2>6, QuietStep
<1> QED
  BY <1>7, <1>8

LEMMA RedisWritesKey ==
  ASSUME Frame, NEW c \in Fiber, RedisWrites(c), NEW k \in Key \ disturbed', KeyOn(k)
  PROVE  KeyOn(k)'
<1>1. /\ Others(c) /\ call'[c] = call[c] /\ wait[c].at = "sent" /\ wait[c].cmd = "SET"
      /\ wait'[c].at = "replied" /\ wait'[c].cmd = "SET" /\ call[c].op \in {"set", "once"}
      /\ l2'[TheKey(c)] # Absent /\ l2'[TheKey(c)].data = call[c].data
      /\ \A j \in Key \ {TheKey(c)} : l2'[j] = l2[j]
      /\ truth' = truth /\ ran' = ran /\ clock' = clock /\ l1' = l1
  BY RedisWritesFrame DEF RedisWrites, Pop
<1>2. PICK h \in Key : h = TheKey(c) /\ call[c].keys = {h}
  BY RedisWritesFrame
<1>3. CASE k # h
  <2>1. ~WorksIn(wait[c], call[c], k) /\ ~WorksIn(wait'[c], call'[c], k)
    BY <1>1, <1>2, <1>3 DEF WorksIn
  <2>2. l2'[k] = l2[k]
    BY <1>1, <1>2, <1>3
  <2>3. PICK none : none = {}
    OBVIOUS
  <2>4. k \in Key \ none /\ \A j \in Instance : Less(l1'[j], l1[j], none)
    BY <1>1, <2>3, SameLess
  <2> QED
    BY <1>1, <2>1, <2>2, <2>4, Elsewhere
<1>4. CASE k = h
  <2>1. WorksIn(wait[c], call[c], k) /\ WorksIn(wait'[c], call'[c], k)
    BY <1>1, <1>2, <1>4 DEF WorksIn
  <2>2. \A o \in Fiber \ {c} : ~WorksIn(wait[o], call[o], k)
    BY <1>1, <2>1, NobodyElse DEF KeyOn
  <2>3. \A o \in Fiber \ {c} : ~WorksIn(wait'[o], call'[o], k)
    BY <1>1, <2>2 DEF Others
  <2>4. AloneOn(k)' /\ FreshOn(k)'
    BY <1>1, <2>3, SameFresh DEF AloneOn, KeyOn
  <2>5. call[c].data = truth[k]
    BY <1>1, <2>1 DEF KeyOn, HeardOn, HeardIn
  <2>6. HeardOn(k)'
    BY <1>1, <2>3, <2>5 DEF HeardOn, HeardIn
  <2>7. SettledOn(k)'
    BY <1>1, <1>2, <1>4, <2>5 DEF SettledOn
  <2>8. \A o \in Fiber : ~UnmarkedIn(wait'[o], call'[o], k)
    BY <1>1, <2>3 DEF UnmarkedIn
  <2>9. MarkedOn(k)'
    BY <1>1, <1>2, <1>4, <2>8 DEF KeyOn, MarkedOn
  <2> QED
    BY <2>4, <2>6, <2>7, <2>9 DEF KeyOn
<1> QED
  BY <1>3, <1>4

LEMMA RedisDeletesKey ==
  ASSUME Frame, NEW c \in Fiber, RedisDeletes(c), NEW k \in Key \ disturbed', KeyOn(k)
  PROVE  KeyOn(k)'
<1>1. /\ Others(c) /\ call'[c] = call[c] /\ wait[c].at = "sent"
      /\ wait[c].cmd \in {"DEL", "FLUSHDB"}
      /\ wait'[c].at = "replied" /\ wait'[c].cmd = wait[c].cmd
      /\ wait'[c].todo = wait[c].todo /\ wait'[c].found = wait[c].found
      /\ RemovedBy(c) \subseteq call[c].keys
      /\ \A j \in Key : l2'[j] = IF j \in RemovedBy(c) THEN Absent ELSE l2[j]
      /\ truth' = truth /\ ran' = ran /\ clock' = clock /\ l1' = l1
  BY RedisDeletesFrame DEF RedisDeletes, Pop
<1>2. call[c].op \in {"del", "flush"}
  BY <1>1, CallFacts DEF InCall, Stands
<1>3. AloneOn(k)'
  BY <1>1, AloneStays DEF KeyOn, WorksIn
<1>4. FreshOn(k)'
  BY <1>1, SameFresh DEF KeyOn
<1>5. HeardIn(wait'[c], call'[c], k, truth[k])
  BY <1>1 DEF HeardIn
<1>6. ~SettingIn(wait[c], call[c], k)
  BY <1>1 DEF SettingIn
<1>7. UnmarkedIn(wait'[c], call'[c], k) => UnmarkedIn(wait[c], call[c], k)
  BY <1>1, <1>2 DEF UnmarkedIn, WorksIn
<1>8. CASE k \notin RemovedBy(c)
  <2>1. l2'[k] = l2[k]
    BY <1>1, <1>8
  <2>2. PendingIn(wait[c], call[c], k) => PendingIn(wait'[c], call'[c], k)
    BY <1>1, <1>2, <1>8 DEF PendingIn, WorksIn, RemovedBy
  <2> QED
    BY <1>1, <1>3, <1>4, <1>5, <1>6, <1>7, <2>1, <2>2, QuietStep
<1>9. CASE k \in RemovedBy(c)
  <2>1. UnmarkedIn(wait[c], call[c], k) /\ l2'[k] = Absent
    BY <1>1, <1>2, <1>9 DEF UnmarkedIn, WorksIn
  <2>2. ran'[k] = 0
    BY <1>1, <2>1 DEF KeyOn, MarkedOn
  <2>3. MarkedOn(k)'
    BY <2>2 DEF MarkedOn
  <2>4. SettledOn(k)'
    BY <2>1 DEF SettledOn
  <2>5. HeardOn(k)'
    BY <1>1, <1>5 DEF KeyOn, HeardOn, Others
  <2> QED
    BY <1>3, <1>4, <2>3, <2>4, <2>5 DEF KeyOn
<1> QED
  BY <1>8, <1>9

LEMMA RedisScansKey ==
  ASSUME Frame, Live, NEW c \in Fiber, RedisScans(c), NEW k \in Key \ disturbed', KeyOn(k)
  PROVE  KeyOn(k)'
<1>1. /\ Others(c) /\ call'[c] = call[c] /\ wait[c].at = "sent" /\ wait[c].cmd = "SCAN"
      /\ wait'[c].at = "replied" /\ wait'[c].cmd = "SCAN"
      /\ \A j \in wait[c].todo :
           j \in wait'[c].todo \/ j \in wait'[c].found \/ RedisGet(l2, j, clock) = Absent
      /\ truth' = truth /\ l2' = l2 /\ ran' = ran /\ clock' = clock /\ l1' = l1
  BY RedisScansFrame DEF RedisScans, Pop
<1>2. call[c].op = "flush"
  BY <1>1, CallFacts DEF InCall, Stands
<1>3. AloneOn(k)'
  BY <1>1, AloneStays DEF KeyOn, WorksIn
<1>4. FreshOn(k)'
  BY <1>1, SameFresh DEF KeyOn
<1>5. HeardIn(wait'[c], call'[c], k, truth[k]) /\ ~SettingIn(wait[c], call[c], k)
  BY <1>1 DEF HeardIn, SettingIn
<1>6. UnmarkedIn(wait'[c], call'[c], k) => UnmarkedIn(wait[c], call[c], k)
  BY <1>1, <1>2 DEF UnmarkedIn, WorksIn
<1>7. PendingIn(wait[c], call[c], k) => PendingIn(wait'[c], call'[c], k) \/ l2[k] = Absent
  <2> SUFFICES ASSUME PendingIn(wait[c], call[c], k), l2[k] # Absent
               PROVE  PendingIn(wait'[c], call'[c], k)
    OBVIOUS
  <2>1. k \in wait[c].todo /\ k \in call[c].keys
    BY <1>1, <1>2 DEF PendingIn, WorksIn
  <2>2. k \in wait'[c].todo \/ k \in wait'[c].found
    BY <1>1, <2>1, ReadsAbsent
  <2> QED
    BY <1>1, <1>2, <2>1, <2>2 DEF PendingIn, WorksIn
<1> QED
  BY <1>1, <1>3, <1>4, <1>5, <1>6, <1>7, QuietStep

LEMMA CommandFailsKey ==
  ASSUME Frame, NEW c \in Fiber, CommandFails(c), NEW k \in Key \ disturbed', KeyOn(k)
  PROVE  KeyOn(k)'
<1>1. /\ Others(c) /\ call'[c] = call[c] /\ wait[c].at = "sent"
      /\ wait'[c].at = "replied" /\ wait'[c].cmd = wait[c].cmd /\ wait'[c].got = wait[c].got
      /\ truth' = truth /\ l2' = l2 /\ ran' = ran /\ clock' = clock /\ l1' = l1
      /\ Writes(call[c].op) => k \notin call[c].keys
  BY CommandFailsFrame DEF CommandFails, Pop
<1>2. AloneOn(k)'
  BY <1>1, AloneStays DEF KeyOn, WorksIn
<1>3. FreshOn(k)'
  BY <1>1, SameFresh DEF KeyOn
<1>4. call[c].op \in Op /\ InCall(wait[c], call[c])
  BY CallFacts DEF Call
<1>5. CASE Writes(call[c].op)
  <2>1. ~WorksIn(wait[c], call[c], k) /\ ~WorksIn(wait'[c], call'[c], k)
    BY <1>1, <1>5 DEF WorksIn
  <2> QED
    BY <1>1, <1>2, <1>3, <2>1, QuietStep DEF HeardIn, PendingIn, SettingIn, UnmarkedIn
<1>6. CASE ~Writes(call[c].op)
  <2>1. call[c].op = "get"
    BY <1>4, <1>6 DEF Writes, Op
  <2>2. wait[c].cmd = "GET" /\ wait[c].got = Absent
    BY <1>1, <1>4, <2>1 DEF InCall, Stands
  <2>3. HeardIn(wait'[c], call'[c], k, truth[k]) /\ ~UnmarkedIn(wait'[c], call'[c], k)
    BY <1>1, <2>1, <2>2 DEF HeardIn, UnmarkedIn
  <2>4. ~PendingIn(wait[c], call[c], k) /\ ~SettingIn(wait[c], call[c], k)
    BY <2>2, PendingWrites DEF SettingIn
  <2> QED
    BY <1>1, <1>2, <1>3, <2>3, <2>4, QuietStep
<1> QED
  BY <1>5, <1>6

LEMMA HasKey ==
  ASSUME Frame, NEW i \in Instance, NEW h \in Key, Has(i, h), NEW k \in Key, KeyOn(k)
  PROVE  KeyOn(k)'
<1>1. /\ UNCHANGED <<clock, l2, call, wait, truth, ran>>
      /\ \A j \in Instance : Less(l1'[j], l1[j], {})
  BY HasFrame DEF Has
<1>2. PICK none : none = {}
  OBVIOUS
<1>3. k \in Key \ none /\ truth'[k] = truth[k] /\ \A j \in Instance : Less(l1'[j], l1[j], none)
  BY <1>1, <1>2
<1>4. FreshOn(k)'
  BY <1>1, <1>3, FreshStays DEF KeyOn
<1> QED
  BY <1>1, <1>4 DEF KeyOn, AloneOn, SettledOn, HeardOn, MarkedOn

LEMMA TickKey ==
  ASSUME Frame, Tick, NEW k \in Key, KeyOn(k)
  PROVE  KeyOn(k)'
<1>1. PICK over : over = {h \in Key : l2[h] # Absent /\ Expired(l2[h], clock + 1)}
  OBVIOUS
<1>2. /\ clock' = clock + 1 /\ l2' = RedisDel(l2, over)
      /\ ran' = [h \in Key |-> IF h \in over THEN 0 ELSE ran[h]]
      /\ UNCHANGED <<l1, call, wait, truth>>
  BY <1>1 DEF Tick
<1>3. /\ l2'[k] = (IF k \in over THEN Absent ELSE l2[k])
      /\ ran'[k] = (IF k \in over THEN 0 ELSE ran[k])
  BY <1>2 DEF RedisDel
<1>4. FreshOn(k)'
  <2> SUFFICES ASSUME NEW j \in Instance, Fresh(l1'[j], k, clock')
               PROVE  l1'[j].entry[k].data = truth'[k]
    BY DEF FreshOn
  <2>1. l1[j] \in Store /\ clock \in Nat
    BY DEF Frame, Levels
  <2>2. l1[j].entry[k] # Absent /\ ~Expired(l1[j].entry[k], clock + 1)
    BY <1>2 DEF Fresh
  <2>3. PICK e \in Entry : e = l1[j].entry[k]
    BY <2>1, <2>2 DEF Store, MaybeEntry
  <2>4. e.exp \in Nat
    BY DEF Entry
  <2>5. ~Expired(e, clock)
    BY <2>1, <2>2, <2>3, <2>4 DEF Expired
  <2>6. Fresh(l1[j], k, clock)
    BY <2>2, <2>3, <2>5 DEF Fresh
  <2> QED
    BY <1>2, <2>6 DEF KeyOn, FreshOn
<1>5. AloneOn(k)' /\ HeardOn(k)'
  BY <1>2 DEF KeyOn, AloneOn, HeardOn
<1>6. SettledOn(k)'
  BY <1>2, <1>3 DEF KeyOn, SettledOn
<1>7. MarkedOn(k)'
  <2>1. CASE k \in over
    BY <1>3, <2>1 DEF MarkedOn
  <2>2. CASE k \notin over
    BY <1>2, <1>3, <2>2 DEF KeyOn, MarkedOn
  <2> QED
    BY <2>1, <2>2
<1> QED
  BY <1>4, <1>5, <1>6, <1>7 DEF KeyOn

LEMMA RestartKey ==
  ASSUME Frame, NEW i \in Instance, Restart(i), NEW k \in Key \ disturbed', KeyOn(k)
  PROVE  KeyOn(k)'
<1>1. /\ l1'[i] = EmptyStore /\ \A j \in Instance \ {i} : l1'[j] = l1[j]
      /\ \A o \in Fiber : On(o) = i => wait'[o] = Idle /\ (Writes(call[o].op) => k \notin call[o].keys)
      /\ \A o \in Fiber : On(o) # i => wait'[o] = wait[o] /\ call'[o] = call[o]
      /\ UNCHANGED <<clock, l2, truth, ran>>
  BY RestartFrame DEF Restart
<1>2. \A o \in Fiber : WorksIn(wait'[o], call'[o], k) =>
        wait'[o] = wait[o] /\ call'[o] = call[o]
  BY <1>1, IdleWorks
<1>3. \A o \in Fiber : PendingIn(wait[o], call[o], k) => wait'[o] = wait[o] /\ call'[o] = call[o]
  <2> SUFFICES ASSUME NEW o \in Fiber, PendingIn(wait[o], call[o], k), On(o) = i
               PROVE  FALSE
    BY <1>1
  <2>1. WorksIn(wait[o], call[o], k) /\ call[o].op # "get" /\ call[o].op \in Op
    BY PendingWrites, CallFacts DEF Call
  <2>2. Writes(call[o].op) /\ k \in call[o].keys
    BY <2>1 DEF Writes, Op, WorksIn
  <2> QED
    BY <1>1, <2>2
<1>4. AloneOn(k)'
  BY <1>2 DEF KeyOn, AloneOn
<1>5. FreshOn(k)'
  <2> SUFFICES ASSUME NEW j \in Instance, Fresh(l1'[j], k, clock')
               PROVE  l1'[j].entry[k].data = truth'[k]
    BY DEF FreshOn
  <2>1. j # i
    BY <1>1 DEF Fresh, EmptyStore
  <2> QED
    BY <1>1, <2>1 DEF KeyOn, FreshOn
<1>6. HeardOn(k)'
  BY <1>1, <1>2 DEF KeyOn, HeardOn, HeardIn
<1>7. SettledOn(k)'
  BY <1>1, <1>3 DEF KeyOn, SettledOn
<1>8. MarkedOn(k)'
  <2>1. ran'[k] <= 1
    BY <1>1 DEF KeyOn, MarkedOn
  <2>2. \A o \in Fiber : SettingIn(wait[o], call[o], k) => SettingIn(wait'[o], call'[o], k)
    BY <1>3 DEF SettingIn, PendingIn
  <2>3. ran'[k] # 0 => l2'[k] # Absent \/ \E o \in Fiber : SettingIn(wait'[o], call'[o], k)
    BY <1>1, <2>2 DEF KeyOn, MarkedOn
  <2>4. \A o \in Fiber : UnmarkedIn(wait'[o], call'[o], k) => UnmarkedIn(wait[o], call[o], k)
    BY <1>2 DEF UnmarkedIn
  <2>5. \A o \in Fiber : UnmarkedIn(wait'[o], call'[o], k) => ran'[k] = 0
    BY <1>1, <2>4 DEF KeyOn, MarkedOn
  <2> QED
    BY <2>1, <2>3, <2>5 DEF MarkedOn
<1> QED
  BY <1>4, <1>5, <1>6, <1>7, <1>8 DEF KeyOn

LEMMA StutterKey ==
  ASSUME UNCHANGED vars, NEW k \in Key, KeyOn(k)
  PROVE  KeyOn(k)'
<1>1. UNCHANGED <<clock, l1, l2, call, wait, truth, ran>>
  BY DEF vars, sut
<1> QED
  BY <1>1 DEF KeyOn, AloneOn, FreshOn, SettledOn, HeardOn, MarkedOn

-----------------------------------------------------------------------------
(* Level 2 keeps no expired entry                                          *)

LEMMA LiveDel ==
  ASSUME Live, clock' = clock, \A k \in Key : l2'[k] \in {l2[k], Absent}
  PROVE  Live'
  BY DEF Live

LEMMA LiveSame == ASSUME Live, clock' = clock, l2' = l2 PROVE Live'
  BY DEF Live

LEMMA LiveTick == ASSUME Live, Tick PROVE Live'
  BY DEF Live, Tick, RedisDel

LEMMA LiveWrites == ASSUME Frame, Live, NEW c \in Fiber, RedisWrites(c) PROVE Live'
<1>1. /\ l2' = RedisSet(l2, TheKey(c), call[c].data, call[c].ttl, clock) /\ clock' = clock
      /\ TheKey(c) \in Key
  BY RedisWritesFrame DEF RedisWrites, Pop
<1>2. PICK e : e = [data |-> call[c].data, exp |-> Deadline(call[c].ttl, clock)]
  OBVIOUS
<1>3. PICK k \in Key : k = TheKey(c)
  BY <1>1
<1>4. PICK ttl \in Nat \cup {NoTtl} : ttl = call[c].ttl
  BY CallFacts DEF Call
<1>5. PICK t \in Nat : t = clock
  BY DEF Frame, Levels
<1>6. ~Expired(e, t)
  <2>1. CASE ttl > 0
    <3>1. ttl \in Nat /\ Second \in Nat
      BY <2>1, SecondAssumption DEF NoTtl
    <3>2. ttl * Second \in Nat
      BY <3>1
    <3>3. e.exp = t + ttl * Second
      BY <1>2, <1>4, <1>5, <2>1 DEF Deadline
    <3> QED
      BY <3>2, <3>3 DEF Expired
  <2>2. CASE ~(ttl > 0)
    BY <1>2, <1>4, <1>5, <2>2 DEF Deadline, Expired
  <2> QED
    BY <2>1, <2>2
<1>7. l2' = [l2 EXCEPT ![k] = e] /\ l2 \in [Key -> MaybeEntry]
  BY <1>1, <1>2, <1>3 DEF RedisSet, Frame, Levels
<1>8. l2'[k] = e /\ \A j \in Key \ {k} : l2'[j] = l2[j]
  BY <1>7
<1> QED
  BY <1>1, <1>5, <1>6, <1>8 DEF Live

LEMMA StepLive == ASSUME Frame, Live, [Next]_vars PROVE Live'
<1>1. ASSUME NEW c \in Fiber, Continue(c)
      PROVE  Live'
  BY <1>1, LiveSame DEF Continue, SendRead, FinishGet, FinishOnce, FinishSimple, FinishFlush,
     CallbackDone, CallbackFails
<1>2. ASSUME NEW c \in Fiber, Redis(c)
      PROVE  Live'
  <2>1. CASE RedisReads(c) \/ RedisScans(c) \/ CommandFails(c)
    BY <2>1, LiveSame DEF RedisReads, RedisScans, CommandFails, Pop
  <2>2. CASE RedisWrites(c)
    BY <2>2, LiveWrites
  <2>3. CASE RedisDeletes(c)
    <3>1. clock' = clock /\ \A k \in Key : l2'[k] \in {l2[k], Absent}
      BY <2>3, RedisDeletesFrame DEF RedisDeletes, Pop
    <3> QED
      BY <3>1, LiveDel
  <2> QED
    BY <1>2, <2>1, <2>2, <2>3 DEF Redis
<1>3. ASSUME NEW c \in Fiber, NEW i \in Instance, Start(c, i)
      PROVE  Live'
  BY <1>3, LiveSame DEF Start, StartRead, StartSet, StartDel, StartFlushNamespace,
     StartFlushAll, Remove
<1>4. ASSUME NEW i \in Instance, NEW k \in Key, Has(i, k)
      PROVE  Live'
  BY <1>4, LiveSame DEF Has
<1>5. ASSUME NEW i \in Instance, Restart(i)
      PROVE  Live'
  BY <1>5, LiveSame DEF Restart
<1>6. CASE UNCHANGED vars
  BY <1>6, LiveSame DEF vars, sut
<1> QED
  BY <1>1, <1>2, <1>3, <1>4, <1>5, <1>6, LiveTick DEF Next

-----------------------------------------------------------------------------
(* Coherence is an invariant                                               *)

LEMMA DisturbedGrows == ASSUME Frame, [Next]_vars PROVE disturbed \subseteq disturbed'
<1>1. ASSUME NEW c \in Fiber, Continue(c)
      PROVE  disturbed \subseteq disturbed'
  BY <1>1 DEF Continue, SendRead, FinishGet, FinishOnce, FinishSimple, FinishFlush,
     CallbackDone, CallbackFails
<1>2. ASSUME NEW c \in Fiber, Redis(c)
      PROVE  disturbed \subseteq disturbed'
  BY <1>2 DEF Redis, RedisReads, RedisWrites, RedisDeletes, RedisScans, CommandFails
<1>3. ASSUME NEW c \in Fiber, NEW i \in Instance, Start(c, i)
      PROVE  disturbed \subseteq disturbed'
  BY <1>3 DEF Start, StartRead, StartSet, StartDel, StartFlushNamespace, StartFlushAll, Remove
<1>4. ASSUME NEW i \in Instance, NEW k \in Key, Has(i, k)
      PROVE  disturbed \subseteq disturbed'
  BY <1>4 DEF Has
<1>5. ASSUME NEW i \in Instance, Restart(i)
      PROVE  disturbed \subseteq disturbed'
  BY <1>5, RestartFrame
<1>6. CASE Tick
  BY <1>6 DEF Tick
<1>7. CASE UNCHANGED vars
  BY <1>7 DEF vars
<1> QED
  BY <1>1, <1>2, <1>3, <1>4, <1>5, <1>6, <1>7 DEF Next

LEMMA StepKey ==
  ASSUME Frame, Live, [Next]_vars, NEW k \in Key \ disturbed', KeyOn(k)
  PROVE  KeyOn(k)'
<1>1. ASSUME NEW c \in Fiber, Continue(c)
      PROVE  KeyOn(k)'
  BY <1>1, SendReadKey, FinishGetKey, FinishOnceKey, FinishSimpleKey, FinishFlushKey,
     CallbackDoneKey, CallbackFailsKey DEF Continue
<1>2. ASSUME NEW c \in Fiber, Redis(c)
      PROVE  KeyOn(k)'
  BY <1>2, RedisReadsKey, RedisWritesKey, RedisDeletesKey, RedisScansKey, CommandFailsKey DEF Redis
<1>3. ASSUME NEW c \in Fiber, NEW i \in Instance, Start(c, i)
      PROVE  KeyOn(k)'
  <2>1. CASE \E h \in Key, op \in {"get", "once"} : StartRead(c, i, op, h)
    BY <2>1, StartReadKey
  <2>2. CASE \E h \in Key, d \in Values, ttl \in Ttls : StartSet(c, i, h, d, ttl)
    BY <2>2, StartSetKey
  <2>3. ASSUME \/ \E ks \in SUBSET Key \ {{}} : StartDel(c, i, ks)
               \/ \E ns \in Namespaces : StartFlushNamespace(c, i, ns)
               \/ StartFlushAll(c, i)
        PROVE  KeyOn(k)'
    BY <2>3, RemovesIs, RemoveKey
  <2> QED
    BY <1>3, <2>1, <2>2, <2>3 DEF Start
<1> QED
  BY <1>1, <1>2, <1>3, HasKey, TickKey, RestartKey, StutterKey DEF Next

LEMMA StepCoherent == Frame /\ Live /\ Coherent /\ [Next]_vars => Coherent'
<1> SUFFICES ASSUME Frame, Live, Coherent, [Next]_vars, NEW k \in Key \ disturbed'
             PROVE  KeyOn(k)'
  BY DEF Coherent
<1>1. k \in Key \ disturbed
  BY DisturbedGrows
<1> QED
  BY <1>1, StepKey DEF Coherent

\* Every reachable state is coherent on the keys nobody has disturbed.
LEMMA CoherentHolds == Spec => [](Frame /\ Live /\ Coherent)
<1>1. Init => Frame /\ Live /\ Coherent
  BY InitFrame, InitCoherent
<1>2. Frame /\ Live /\ Coherent /\ [Next]_vars => (Frame /\ Live /\ Coherent)'
  BY StepFrame, StepLive, StepCoherent
<1> QED
  BY <1>1, <1>2, PTL DEF Spec

\* Overlapping calls, failed commands and the level-1 stores of other instances are
\* the only ways a cached value goes stale (cache.service.ts): a key without them
\* that nobody is at work on has its last written value on both levels, or no value.
THEOREM NothingElseGoesStale == Spec => []StaleOnlyIfDisturbed
<1>1. Coherent => StaleOnlyIfDisturbed
  <2> SUFFICES ASSUME Coherent, NEW k \in Key \ disturbed, Quiet(k)
               PROVE  /\ l2[k] # Absent => l2[k].data = truth[k]
                      /\ \A i \in Instance : Fresh(l1[i], k, clock) => l1[i].entry[k].data = truth[k]
    BY DEF StaleOnlyIfDisturbed
  <2>1. \A c \in Fiber : ~PendingIn(wait[c], call[c], k)
    BY DEF Quiet, Active, PendingIn, WorksIn
  <2> QED
    BY <2>1 DEF Coherent, KeyOn, SettledOn, FreshOn
<1> QED
  BY <1>1, CoherentHolds, PTL

\* The callback of executeIfAbsent runs to completion once per marker, on a key whose
\* calls do not overlap or fail (cache.service.ts, executeIfAbsent).
THEOREM OnceWhileMarked == Spec => []OncePerMarker
<1>1. Coherent => OncePerMarker
  BY DEF Coherent, KeyOn, MarkedOn, OncePerMarker
<1> QED
  BY <1>1, CoherentHolds, PTL

-----------------------------------------------------------------------------
(* What a flush has cleared, and what it has still to clear                *)

ClearedIn(c) ==
  wait[c].at # "idle" /\ call[c].op = "flush" /\ wait[c].ok =>
    \A k \in call[c].keys \ touched[c] :
      k \notin Held(l1[On(c)]) /\ (l2[k] = Absent \/ PendingIn(wait[c], call[c], k))

Cleared == \A c \in Fiber : ClearedIn(c)

\* Keys ks are all that a step installs, and every flush of another fiber knows.
Installs(ks) ==
  /\ \A j \in Instance : Less(l1'[j], l1[j], ks)
  /\ \A k \in Key \ ks : l2'[k] \in {l2[k], Absent}

Knows(a, ks) ==
  wait[a].at # "idle" /\ call[a].op = "flush" => touched[a] \cup ks \subseteq touched'[a]

LEMMA ClearedStays ==
  ASSUME Frame, NEW a \in Fiber, ClearedIn(a), wait'[a] = wait[a], call'[a] = call[a],
         NEW ks, Installs(ks), Knows(a, ks)
  PROVE  ClearedIn(a)'
<1> SUFFICES ASSUME wait[a].at # "idle", call[a].op = "flush", wait[a].ok,
                    NEW k \in call[a].keys \ touched'[a]
             PROVE  k \notin Held(l1'[On(a)]) /\ (l2'[k] = Absent \/ PendingIn(wait'[a], call'[a], k))
  BY DEF ClearedIn, On
<1>1. k \in call[a].keys \ touched[a] /\ k \in Key \ ks
  BY CallFacts DEF Knows
<1>2. k \notin Held(l1[On(a)]) /\ (l2[k] = Absent \/ PendingIn(wait[a], call[a], k))
  BY <1>1 DEF ClearedIn
<1>3. On(a) \in Instance
  BY CallFacts DEF InCall, On
<1>4. k \notin Held(l1'[On(a)])
  BY <1>1, <1>2, <1>3, LessHeld DEF Installs
<1> QED
  BY <1>1, <1>2, <1>4 DEF Installs

LEMMA TouchKnows ==
  ASSUME NEW k, Touch(k), NEW a \in Fiber
  PROVE  Knows(a, {k})
  BY DEF Touch, Knows, Active

LEMMA SameKnows == ASSUME NEW a \in Fiber, touched'[a] = touched[a] PROVE Knows(a, {})
  BY DEF Knows

\* A step of fiber c that every other flush knows of.
Known(c) == \E ks : Installs(ks) /\ \A a \in Fiber \ {c} : Knows(a, ks)

LEMMA StepCleared ==
  ASSUME Frame, Cleared, NEW c \in Fiber, Others(c), Known(c), ClearedIn(c)'
  PROVE  Cleared'
<1>1. PICK ks : Installs(ks) /\ \A a \in Fiber \ {c} : Knows(a, ks)
  BY DEF Known
<1>2. ASSUME NEW a \in Fiber \ {c}
      PROVE  ClearedIn(a)'
  BY <1>1, <1>2, ClearedStays DEF Cleared, Others
<1> QED
  BY <1>2 DEF Cleared

LEMMA NoFlush ==
  ASSUME NEW c \in Fiber, wait'[c].at = "idle" \/ call'[c].op # "flush"
  PROVE  ClearedIn(c)'
  BY DEF ClearedIn

\* A step that installs nothing.
LEMMA PlainKnown ==
  ASSUME NEW c \in Fiber, \A j \in Instance : Less(l1'[j], l1[j], {}),
         \A k \in Key : l2'[k] \in {l2[k], Absent},
         \A a \in Fiber \ {c} : touched'[a] = touched[a]
  PROVE  Known(c)
<1>1. Installs({})
  BY DEF Installs
<1>2. \A a \in Fiber \ {c} : Knows(a, {})
  BY SameKnows
<1> QED
  BY <1>1, <1>2 DEF Known

LEMMA TouchKnown ==
  ASSUME NEW c \in Fiber, NEW k, Installs({k}), Touch(k)
  PROVE  Known(c)
  BY TouchKnows DEF Known

LEMMA HydrateKnown ==
  ASSUME Frame, NEW c \in Fiber, Answered(c, {"get", "once"}), Hydrate(c),
         clock' = clock, faults' = faults, l2' = l2
  PROVE  Known(c)
<1>1. /\ \A j \in Instance : Less(l1'[j], l1[j], {TheKey(c)})
      /\ wait[c].got = Absent => l1' = l1
      /\ wait[c].got # Absent => Touch(TheKey(c))
  BY HydrateFrame
<1>2. CASE wait[c].got = Absent
  <2>1. touched' = touched
    BY <1>2 DEF Hydrate
  <2>2. PICK none : none = {}
    OBVIOUS
  <2>3. \A j \in Instance : Less(l1'[j], l1[j], none)
    BY <1>1, <1>2, SameLess
  <2> QED
    BY <2>1, <2>2, <2>3, PlainKnown
<1>3. CASE wait[c].got # Absent
  <2>1. PICK h : h = TheKey(c)
    OBVIOUS
  <2>2. Installs({h}) /\ Touch(h)
    BY <1>1, <1>3, <2>1 DEF Installs
  <2> QED
    BY <2>2, TouchKnown
<1> QED
  BY <1>2, <1>3

LEMMA ContinueCleared ==
  ASSUME Frame, Cleared, NEW c \in Fiber, Continue(c)
  PROVE  Cleared'
<1>1. CASE SendRead(c)
  <2>1. /\ Others(c) /\ call'[c] = call[c] /\ wait[c].at = "missed"
        /\ l1' = l1 /\ l2' = l2 /\ touched' = touched
    BY <1>1, SendReadFrame DEF SendRead
  <2>2. call'[c].op # "flush"
    BY <2>1, CallFacts DEF InCall, Stands
  <2>3. Known(c)
    BY <2>1, SameLess, PlainKnown
  <2> QED
    BY <2>1, <2>2, <2>3, NoFlush, StepCleared
<1>2. CASE FinishGet(c)
  <2>1. Others(c) /\ wait'[c].at = "idle"
    BY <1>2, FinishGetFrame DEF Idle
  <2>2. Known(c)
    BY <1>2, HydrateKnown DEF FinishGet, Answered
  <2> QED
    BY <2>1, <2>2, NoFlush, StepCleared
<1>3. CASE FinishOnce(c)
  <2>1. Others(c) /\ (wait'[c].at = "idle" \/ call'[c].op # "flush")
    BY <1>3, FinishOnceFrame DEF Idle, FinishOnce, Answered
  <2>2. Known(c)
    BY <1>3, HydrateKnown DEF FinishOnce, Answered
  <2> QED
    BY <2>1, <2>2, NoFlush, StepCleared
<1>4. CASE FinishSimple(c)
  <2>1. Others(c) /\ wait'[c].at = "idle" /\ l1' = l1 /\ l2' = l2 /\ touched' = touched
    BY <1>4, FinishSimpleFrame DEF Idle, FinishSimple
  <2>2. Known(c)
    BY <2>1, SameLess, PlainKnown
  <2> QED
    BY <2>1, <2>2, NoFlush, StepCleared
<1>5. CASE FinishFlush(c)
  <2>1. /\ Others(c) /\ l1' = l1 /\ l2' = l2 /\ wait[c].at = "replied" /\ call[c].op = "flush"
        /\ FlushOver(c) => wait'[c] = Idle
        /\ ~FlushOver(c) =>
              /\ call'[c] = call[c] /\ wait'[c].at = "sent" /\ touched' = touched
              /\ wait'[c].cmd = IF wait[c].cmd = "SCAN" /\ wait[c].found # {}
                                THEN "DEL" ELSE "SCAN"
              /\ wait'[c].todo = wait[c].todo /\ wait'[c].found = wait[c].found
              /\ wait'[c].ok = wait[c].ok
    BY <1>5, FinishFlushFrame DEF FinishFlush, Answered
  <2>2. \A a \in Fiber \ {c} : touched'[a] = touched[a]
    BY <1>5 DEF FinishFlush, Frame, Aux
  <2>3. Known(c)
    BY <2>1, <2>2, SameLess, PlainKnown
  <2>4. ClearedIn(c)'
    <3>1. CASE FlushOver(c)
      BY <2>1, <3>1, NoFlush DEF Idle
    <3>2. CASE ~FlushOver(c)
      <4>1. \A k \in Key : PendingIn(wait[c], call[c], k) => PendingIn(wait'[c], call'[c], k)
        BY <2>1, <3>2 DEF PendingIn, WorksIn
      <4>2. call[c].keys \subseteq Key
        BY CallFacts
      <4> QED
        BY <2>1, <3>2, <4>1, <4>2 DEF Cleared, ClearedIn, On
    <3> QED
      BY <3>1, <3>2
  <2> QED
    BY <2>1, <2>3, <2>4, StepCleared
<1>6. CASE CallbackDone(c)
  <2>1. /\ Others(c) /\ call'[c].op # "flush" /\ l2' = l2 /\ Touch(TheKey(c))
        /\ \A j \in Instance : Less(l1'[j], l1[j], {TheKey(c)})
    BY <1>6, CallbackDoneFrame DEF CallbackDone
  <2>2. PICK h : h = TheKey(c)
    OBVIOUS
  <2>3. Installs({h}) /\ Touch(h)
    BY <2>1, <2>2 DEF Installs
  <2> QED
    BY <2>1, <2>3, NoFlush, TouchKnown, StepCleared
<1>7. CASE CallbackFails(c)
  <2>1. Others(c) /\ wait'[c].at = "idle" /\ l1' = l1 /\ l2' = l2 /\ touched' = touched
    BY <1>7, CallbackFailsFrame DEF Idle, CallbackFails
  <2>2. Known(c)
    BY <2>1, SameLess, PlainKnown
  <2> QED
    BY <2>1, <2>2, NoFlush, StepCleared
<1> QED
  BY <1>1, <1>2, <1>3, <1>4, <1>5, <1>6, <1>7 DEF Continue

LEMMA RedisCleared ==
  ASSUME Frame, Live, Cleared, NEW c \in Fiber, Redis(c)
  PROVE  Cleared'
<1>1. CASE RedisReads(c)
  <2>1. /\ Others(c) /\ call'[c] = call[c] /\ wait[c].at = "sent" /\ wait[c].cmd = "GET"
        /\ l1' = l1 /\ l2' = l2 /\ touched' = touched
    BY <1>1, RedisReadsFrame DEF RedisReads, Pop
  <2>2. call'[c].op # "flush"
    BY <2>1, CallFacts DEF InCall, Stands
  <2>3. Known(c)
    BY <2>1, SameLess, PlainKnown
  <2> QED
    BY <2>1, <2>2, <2>3, NoFlush, StepCleared
<1>2. CASE RedisWrites(c)
  <2>1. /\ Others(c) /\ call'[c] = call[c] /\ call[c].op \in {"set", "once"}
        /\ l1' = l1 /\ Touch(TheKey(c)) /\ \A j \in Key \ {TheKey(c)} : l2'[j] = l2[j]
    BY <1>2, RedisWritesFrame DEF RedisWrites, Pop
  <2>2. PICK h : h = TheKey(c)
    OBVIOUS
  <2>3. Installs({h}) /\ Touch(h)
    BY <2>1, <2>2, SameLess DEF Installs
  <2> QED
    BY <2>1, <2>3, NoFlush, TouchKnown, StepCleared
<1>3. CASE RedisDeletes(c)
  <2>1. /\ Others(c) /\ call'[c] = call[c] /\ wait[c].at = "sent" /\ l1' = l1 /\ touched' = touched
        /\ wait[c].cmd \in {"DEL", "FLUSHDB"}
        /\ wait'[c].at = "replied" /\ wait'[c].cmd = wait[c].cmd /\ wait'[c].ok = wait[c].ok
        /\ wait'[c].todo = wait[c].todo /\ wait'[c].found = wait[c].found
        /\ \A j \in Key : l2'[j] = IF j \in RemovedBy(c) THEN Absent ELSE l2[j]
    BY <1>3, RedisDeletesFrame DEF RedisDeletes, Pop
  <2>2. Known(c)
    BY <2>1, SameLess, PlainKnown
  <2>3. ASSUME call[c].op = "flush", NEW k \in Key, PendingIn(wait[c], call[c], k)
        PROVE  l2'[k] = Absent \/ PendingIn(wait'[c], call'[c], k)
    BY <2>1, <2>3 DEF PendingIn, WorksIn, RemovedBy
  <2>4. call[c].keys \subseteq Key
    BY CallFacts
  <2>5. ClearedIn(c)'
    <3> SUFFICES ASSUME call[c].op = "flush", wait[c].ok, NEW k \in call[c].keys \ touched[c]
                 PROVE  k \notin Held(l1[On(c)])
                        /\ (l2'[k] = Absent \/ PendingIn(wait'[c], call'[c], k))
      BY <2>1 DEF ClearedIn, On
    <3>1. k \notin Held(l1[On(c)]) /\ (l2[k] = Absent \/ PendingIn(wait[c], call[c], k))
      BY <2>1 DEF Cleared, ClearedIn
    <3> QED
      BY <2>1, <2>3, <2>4, <3>1
  <2> QED
    BY <2>1, <2>2, <2>5, StepCleared
<1>4. CASE RedisScans(c)
  <2>1. /\ Others(c) /\ call'[c] = call[c] /\ wait[c].at = "sent" /\ wait[c].cmd = "SCAN"
        /\ wait'[c].at = "replied" /\ wait'[c].cmd = "SCAN" /\ wait'[c].ok = wait[c].ok
        /\ \A k \in wait[c].todo :
             k \in wait'[c].todo \/ k \in wait'[c].found \/ RedisGet(l2, k, clock) = Absent
        /\ l1' = l1 /\ l2' = l2 /\ touched' = touched
    BY <1>4, RedisScansFrame DEF RedisScans, Pop
  <2>2. Known(c)
    BY <2>1, SameLess, PlainKnown
  <2>3. ASSUME call[c].op = "flush", NEW k \in Key, PendingIn(wait[c], call[c], k)
        PROVE  l2[k] = Absent \/ PendingIn(wait'[c], call'[c], k)
    <3>1. k \in wait[c].todo /\ k \in call[c].keys
      BY <2>1, <2>3 DEF PendingIn, WorksIn
    <3>2. k \in wait'[c].todo \/ k \in wait'[c].found \/ l2[k] = Absent
      BY <2>1, <3>1, ReadsAbsent
    <3> QED
      BY <2>1, <2>3, <3>1, <3>2 DEF PendingIn, WorksIn
  <2>4. call[c].keys \subseteq Key
    BY CallFacts
  <2>5. ClearedIn(c)'
    <3> SUFFICES ASSUME call[c].op = "flush", wait[c].ok, NEW k \in call[c].keys \ touched[c]
                 PROVE  k \notin Held(l1[On(c)])
                        /\ (l2[k] = Absent \/ PendingIn(wait'[c], call'[c], k))
      BY <2>1 DEF ClearedIn, On
    <3>1. k \notin Held(l1[On(c)]) /\ (l2[k] = Absent \/ PendingIn(wait[c], call[c], k))
      BY <2>1 DEF Cleared, ClearedIn
    <3> QED
      BY <2>3, <2>4, <3>1
  <2> QED
    BY <2>1, <2>2, <2>5, StepCleared
<1>5. CASE CommandFails(c)
  <2>1. Others(c) /\ wait'[c].ok = FALSE /\ l1' = l1 /\ l2' = l2 /\ touched' = touched
    BY <1>5, CommandFailsFrame DEF CommandFails, Pop
  <2>2. ClearedIn(c)'
    BY <2>1 DEF ClearedIn
  <2>3. Known(c)
    BY <2>1, SameLess, PlainKnown
  <2> QED
    BY <2>1, <2>2, <2>3, StepCleared
<1> QED
  BY <1>1, <1>2, <1>3, <1>4, <1>5 DEF Redis

LEMMA StartSetCleared ==
  ASSUME Frame, Cleared, NEW c \in Fiber, NEW i \in Instance, NEW h \in Key, NEW d \in Values,
         NEW ttl \in Ttls, StartSet(c, i, h, d, ttl)
  PROVE  Cleared'
<1>1. /\ Others(c) /\ wait[c] = Idle /\ wait'[c].at = "sent" /\ wait'[c].cmd = "SET"
      /\ call'[c] = [on |-> i, op |-> "set", keys |-> {h}, data |-> d, ttl |-> ttl]
      /\ \A j \in Instance : Less(l1'[j], l1[j], {h})
      /\ l1'[i].entry[h].data = d /\ \A j \in Instance \ {i} : l1'[j] = l1[j]
  <2>1. SetStarts(c, i, h, d, ttl)
    BY StartSetFrame
  <2> QED
    BY <2>1 DEF SetStarts
<1>2. l2' = l2 /\ Touch(h)
  BY DEF StartSet
<1>3. Installs({h})
  BY <1>1, <1>2 DEF Installs
<1>4. call'[c].op # "flush"
  BY <1>1
<1> QED
  BY <1>1, <1>2, <1>3, <1>4, NoFlush, TouchKnown, StepCleared

LEMMA StartCleared ==
  ASSUME Frame, Cleared, NEW c \in Fiber, NEW i \in Instance, Start(c, i)
  PROVE  Cleared'
<1>1. ASSUME NEW k \in Key, NEW op \in {"get", "once"}, StartRead(c, i, op, k)
      PROVE  Cleared'
  <2>1. /\ Others(c) /\ \A j \in Instance : Less(l1'[j], l1[j], {})
        /\ call'[c] = [on |-> i, op |-> op, keys |-> {k}, data |-> Marker, ttl |-> OnceTtl]
    BY <1>1, StartReadFrame
  <2>2. l2' = l2 /\ touched' = touched
    BY <1>1 DEF StartRead
  <2>3. Known(c)
    BY <2>1, <2>2, PlainKnown
  <2>4. call'[c].op # "flush"
    BY <1>1, <2>1
  <2> QED
    BY <2>1, <2>3, <2>4, NoFlush, StepCleared
<1>2. CASE \E k \in Key, d \in Values, ttl \in Ttls : StartSet(c, i, k, d, ttl)
  BY <1>2, StartSetCleared
<1>3. ASSUME NEW op, NEW ks, NEW cmd, NEW todo, ks \in SUBSET Key,
             Removes(op, ks, cmd, todo), Remove(c, i, op, ks, cmd, todo)
      PROVE  Cleared'
  <2>1. /\ Others(c) /\ wait'[c].at = "sent" /\ wait'[c].cmd = cmd /\ wait'[c].todo = todo
        /\ call'[c] = [on |-> i, op |-> op, keys |-> ks, data |-> Absent, ttl |-> NoTtl]
        /\ \A j \in Instance : Less(l1'[j], l1[j], {})
        /\ Held(l1'[i]) = Held(l1[i]) \ ks
    BY <1>3, RemoveFrame
  <2>6. l2' = l2 /\ touched' = touched
    BY <1>3 DEF Remove
  <2>2. Known(c)
    BY <2>1, <2>6, PlainKnown
  <2>3. call'[c].op = op /\ call'[c].keys = ks /\ call'[c].on = i
    BY <2>1
  <2>4. ASSUME op = "flush", NEW k \in ks
        PROVE  PendingIn(wait'[c], call'[c], k)
    BY <1>3, <2>1, <2>3, <2>4 DEF PendingIn, WorksIn, Removes
  <2>5. ClearedIn(c)'
    BY <2>1, <2>3, <2>4, <2>6 DEF ClearedIn, On
  <2> QED
    BY <2>1, <2>2, <2>5, StepCleared
<1>4. ASSUME \/ \E ks \in SUBSET Key \ {{}} : StartDel(c, i, ks)
             \/ \E ns \in Namespaces : StartFlushNamespace(c, i, ns)
             \/ StartFlushAll(c, i)
      PROVE  Cleared'
  BY <1>3, <1>4, RemovesIs
<1> QED
  BY <1>1, <1>2, <1>4 DEF Start

LEMMA OtherCleared ==
  ASSUME Frame, Cleared,
         Tick \/ UNCHANGED vars \/ (\E i \in Instance, k \in Key : Has(i, k))
              \/ \E i \in Instance : Restart(i)
  PROVE  Cleared'
<1>1. ASSUME wait' = wait, call' = call, touched' = touched, NEW ks, ks = {}, Installs(ks)
      PROVE  Cleared'
  <2>1. ASSUME NEW a \in Fiber
        PROVE  ClearedIn(a)'
    <3>1. Knows(a, ks)
      BY <1>1 DEF Knows
    <3> QED
      BY <1>1, <3>1, ClearedStays DEF Cleared
  <2> QED
    BY <2>1 DEF Cleared
<1>2. PICK none : none = {}
  OBVIOUS
<1>3. CASE Tick
  <2>1. /\ wait' = wait /\ call' = call /\ touched' = touched /\ l1' = l1
        /\ \A k \in Key : l2'[k] \in {l2[k], Absent}
    BY <1>3 DEF Tick, RedisDel
  <2>2. Installs(none)
    BY <2>1, SameLess DEF Installs
  <2> QED
    BY <1>1, <1>2, <2>1, <2>2
<1>4. CASE UNCHANGED vars
  <2>1. wait' = wait /\ call' = call /\ touched' = touched /\ l1' = l1 /\ l2' = l2
    BY <1>4 DEF vars, sut
  <2>2. Installs(none)
    BY <2>1, SameLess DEF Installs
  <2> QED
    BY <1>1, <1>2, <2>1, <2>2
<1>5. ASSUME NEW i \in Instance, NEW k \in Key, Has(i, k)
      PROVE  Cleared'
  <2>1. /\ wait' = wait /\ call' = call /\ touched' = touched /\ l2' = l2
        /\ \A j \in Instance : Less(l1'[j], l1[j], {})
    BY <1>5, HasFrame DEF Has
  <2>2. Installs(none)
    BY <1>2, <2>1 DEF Installs
  <2> QED
    BY <1>1, <1>2, <2>1, <2>2
<1>6. ASSUME NEW i \in Instance, Restart(i)
      PROVE  Cleared'
  <2>1. /\ l1'[i] = EmptyStore /\ \A j \in Instance \ {i} : l1'[j] = l1[j]
        /\ \A o \in Fiber : On(o) = i => wait'[o] = Idle
        /\ \A o \in Fiber : On(o) # i => /\ wait'[o] = wait[o] /\ call'[o] = call[o]
                                         /\ touched'[o] = touched[o]
        /\ l2' = l2
    BY <1>6, RestartFrame DEF Restart
  <2>2. ASSUME NEW a \in Fiber
        PROVE  ClearedIn(a)'
    <3>1. CASE On(a) = i
      BY <2>1, <2>2, <3>1 DEF ClearedIn, Idle
    <3>2. CASE On(a) # i
      <4>1. wait'[a] = wait[a] /\ call'[a] = call[a] /\ touched'[a] = touched[a]
        BY <2>1, <2>2, <3>2
      <4>2. wait[a].at # "idle" => On(a) \in Instance \ {i}
        BY <3>2, CallFacts DEF InCall, On
      <4> QED
        BY <2>1, <4>1, <4>2 DEF Cleared, ClearedIn, On
    <3> QED
      BY <3>1, <3>2
  <2> QED
    BY <2>2 DEF Cleared
<1> QED
  BY <1>3, <1>4, <1>5, <1>6

LEMMA ClearedHolds == Spec => [](Frame /\ Live /\ Cleared)
<1>1. Init => Frame /\ Live /\ Cleared
  <2>1. Init => Cleared
    BY DEF Init, Idle, Cleared, ClearedIn
  <2> QED
    BY <2>1, InitFrame, InitCoherent
<1>2. Frame /\ Live /\ Cleared /\ [Next]_vars => (Frame /\ Live /\ Cleared)'
  <2> SUFFICES ASSUME Frame, Live, Cleared, [Next]_vars
               PROVE  Cleared'
    BY StepFrame, StepLive
  <2> QED
    BY ContinueCleared, RedisCleared, StartCleared, OtherCleared DEF Next
<1> QED
  BY <1>1, <1>2, PTL DEF Spec

-----------------------------------------------------------------------------
(* The end of a flush                                                      *)

LEMMA RestartCounts == ASSUME Frame, NEW i \in Instance, Restart(i) PROVE faults' # faults
<1>1. faults \in Nat
  BY DEF Frame, Levels
<1> QED
  BY <1>1, RestartFrame

\* A flush that ends without a restart has come to the end of its loop.
LEMMA FlushEndsInLoop ==
  ASSUME Frame, [Next]_vars, NEW a \in Fiber, FlushEnds(a)
  PROVE  wait[a].at = "replied" /\ FlushOver(a)
<1>1. /\ call[a].op = "flush" /\ wait[a].at # "idle" /\ wait'[a].at = "idle"
      /\ faults' = faults
  BY DEF FlushEnds, Active
<1>2. ASSUME NEW c \in Fiber, Others(c)
      PROVE  c = a
  BY <1>1, <1>2 DEF Others
<1>3. ASSUME NEW c \in Fiber, Continue(c)
      PROVE  wait[a].at = "replied" /\ FlushOver(a)
  <2>1. CASE FinishFlush(c)
    <3>1. Others(c) /\ wait[c].at = "replied" /\ (~FlushOver(c) => wait'[c].at = "sent")
      BY <2>1, FinishFlushFrame DEF FinishFlush, Answered
    <3> QED
      BY <1>1, <1>2, <3>1
  <2>2. CASE FinishGet(c) \/ FinishOnce(c) \/ FinishSimple(c)
    <3>1. Others(c) /\ call[c].op # "flush"
      BY <2>2, FinishGetFrame, FinishOnceFrame, FinishSimpleFrame
         DEF FinishGet, FinishOnce, FinishSimple, Answered
    <3> QED
      BY <1>1, <1>2, <3>1
  <2>3. CASE SendRead(c) \/ CallbackDone(c) \/ CallbackFails(c)
    <3>1. Others(c) /\ wait[c].at \in {"missed", "running"}
      BY <2>3, SendReadFrame, CallbackDoneFrame, CallbackFailsFrame
         DEF SendRead, CallbackDone, CallbackFails
    <3>2. call[c].op # "flush"
      BY <3>1, CallFacts DEF InCall, Stands
    <3> QED
      BY <1>1, <1>2, <3>1, <3>2
  <2> QED
    BY <1>3, <2>1, <2>2, <2>3 DEF Continue
<1>4. ASSUME NEW c \in Fiber, Redis(c)
      PROVE  FALSE
  <2>1. RedisReads(c) \/ RedisWrites(c) => Others(c) /\ wait'[c].at = "replied"
    BY RedisReadsFrame, RedisWritesFrame
  <2>2. RedisDeletes(c) \/ RedisScans(c) => Others(c) /\ wait'[c].at = "replied"
    BY RedisDeletesFrame, RedisScansFrame
  <2>3. CommandFails(c) => Others(c) /\ wait'[c].at = "replied"
    BY CommandFailsFrame
  <2> QED
    BY <1>1, <1>2, <1>4, <2>1, <2>2, <2>3 DEF Redis
<1>5. ASSUME NEW c \in Fiber, NEW i \in Instance, Start(c, i)
      PROVE  FALSE
  <2>1. Others(c) /\ wait'[c].at # "idle"
    <3>1. CASE \E k \in Key, op \in {"get", "once"} : StartRead(c, i, op, k)
      BY <3>1, StartReadFrame
    <3>2. CASE \E k \in Key, d \in Values, ttl \in Ttls : StartSet(c, i, k, d, ttl)
      BY <3>2, StartSetFrame DEF SetStarts
    <3>3. ASSUME \/ \E ks \in SUBSET Key \ {{}} : StartDel(c, i, ks)
                 \/ \E ns \in Namespaces : StartFlushNamespace(c, i, ns)
                 \/ StartFlushAll(c, i)
          PROVE  Others(c) /\ wait'[c].at # "idle"
      BY <3>3, RemovesIs, RemoveFrame
    <3> QED
      BY <1>5, <3>1, <3>2, <3>3 DEF Start
  <2> QED
    BY <1>1, <1>2, <2>1
<1>6. ASSUME wait' = wait
      PROVE  FALSE
  BY <1>1, <1>6
<1>7. (Tick \/ UNCHANGED vars \/ \E i \in Instance, k \in Key : Has(i, k)) => wait' = wait
  BY DEF Tick, Has, vars, sut
<1>8. ~ \E i \in Instance : Restart(i)
  BY <1>1, RestartCounts
<1> QED
  BY <1>3, <1>4, <1>5, <1>6, <1>7, <1>8 DEF Next

LEMMA FlushStep ==
  ASSUME Frame, Cleared, [Next]_vars, NEW a \in Fiber, FlushEnds(a),
         NEW k \in call[a].keys \ touched[a]
  PROVE  k \notin Held(l1[On(a)]) /\ RedisGet(l2, k, clock) = Absent
<1>1. call[a].op = "flush" /\ wait[a].ok /\ wait[a].at = "replied" /\ FlushOver(a)
  BY FlushEndsInLoop DEF FlushEnds
<1>2. k \notin Held(l1[On(a)]) /\ (l2[k] = Absent \/ PendingIn(wait[a], call[a], k))
  BY <1>1 DEF Cleared, ClearedIn
<1>3. ~PendingIn(wait[a], call[a], k)
  BY <1>1, CallFacts DEF PendingIn, WorksIn, FlushOver, InCall, Stands
<1> QED
  BY <1>2, <1>3 DEF RedisGet

\* A flush that met no error has removed from Redis and from its own instance every
\* key of the namespace that nothing installed while it ran, although the SCAN loop
\* deletes part by part (redis-cache.provider.ts, flushNamespace).
THEOREM FlushesClear == Spec => FlushClears
<1>1. Frame /\ Cleared /\ [Next]_vars =>
        [\A c \in Fiber : FlushEnds(c) => \A k \in call[c].keys \ touched[c] :
           k \notin Held(l1[On(c)]) /\ RedisGet(l2, k, clock) = Absent]_vars
  BY FlushStep
<1> QED
  BY <1>1, ClearedHolds, PTL DEF Spec, FlushClears
=============================================================================
