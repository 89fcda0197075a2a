--------------------------- MODULE TwoLevelCache ---------------------------
(***************************************************************************)
(* CacheService of libs-core in a deployment: every instance has a level-1 *)
(* store of its own, all share one Redis server.  A fiber is one chain of  *)
(* awaits, the handling of a request say: each of its calls runs in some   *)
(* instance, and it makes one call at a time.                              *)
(* Each action is the code between two awaits.  An instance sends its      *)
(* commands down one connection, so Redis executes them in the order they  *)
(* were issued; the reply reaches the fiber later.                         *)
(***************************************************************************)
EXTENDS CacheStore, Sequences

CONSTANTS
  Instance,     \* running processes
  Fiber,        \* chains of awaits
  Ttls,         \* the ttlSeconds callers pass to set
  Values,       \* the data callers pass to set
  Marker,       \* the value true that executeIfAbsent stores
  OnceTtl,      \* the ttl callers pass to executeIfAbsent
  Namespaces,   \* sets of keys one flushNamespace pattern matches
  MaxClock,     \* bound: the last tick of a run
  MaxCalls,     \* bound: calls of the service in a run
  MaxFaults     \* bound: failed commands and restarts in a run

ASSUME InstanceAssumption == Absent \notin Instance
ASSUME TtlsAssumption == Ttls \subseteq Nat \cup {NoTtl} /\ OnceTtl \in Nat
ASSUME ValuesAssumption == Values \subseteq Data /\ Marker \in Data
ASSUME NamespacesAssumption == Namespaces \subseteq SUBSET Key
ASSUME BoundsAssumption == MaxClock \in Nat /\ MaxCalls \in Nat /\ MaxFaults \in Nat

VARIABLES
  clock,      \* time
  l1,         \* the level-1 store of each instance
  l2,         \* the key space of Redis
  chan,       \* per instance, the fibers whose command Redis has still to execute
  call,       \* per fiber, the call it is in
  wait,       \* per fiber, where it stands in that call
  calls,      \* calls started so far
  faults,     \* faults so far
  (* auxiliary *)
  truth,      \* per key the value last written by a caller, Absent once removed
  disturbed,  \* the keys whose calls have overlapped, failed or drifted apart
  ran,        \* per key the callbacks executeIfAbsent completed for its marker
  touched     \* per fiber the keys installed somewhere since its call began

sut == <<clock, l1, l2, chan, call, wait, calls, faults>>
vars == <<sut, truth, disturbed, ran, touched>>

Op  == {"get", "set", "del", "flush", "once"}
Cmd == {"GET", "SET", "DEL", "SCAN", "FLUSHDB"}

Call == [on : Instance \cup {Absent}, op : Op, keys : SUBSET Key,
         data : Data \cup {Absent}, ttl : Nat \cup {NoTtl}]
Wait == [at : {"idle", "missed", "sent", "replied", "running"}, cmd : Cmd, ok : BOOLEAN,
         got : Data \cup {Absent}, todo : SUBSET Key, found : SUBSET Key]

Idle == [at |-> "idle", cmd |-> "GET", ok |-> TRUE, got |-> Absent, todo |-> {}, found |-> {}]

NoCall ==
  [on |-> Absent, op |-> "get", keys |-> {}, data |-> Absent, ttl |-> NoTtl]

Init ==
  /\ clock = 1
  /\ l1 = [i \in Instance |-> EmptyStore]
  /\ l2 = EmptyRedis
  /\ chan = [i \in Instance |-> <<>>]
  /\ call = [c \in Fiber |-> NoCall]
  /\ wait = [c \in Fiber |-> Idle]
  /\ calls = 0
  /\ faults = 0
  /\ truth = [k \in Key |-> Absent]
  /\ disturbed = {}
  /\ ran = [k \in Key |-> 0]
  /\ touched = [c \in Fiber |-> {}]

-----------------------------------------------------------------------------
(* Auxiliary bookkeeping                                                   *)

Active(c) == wait[c].at # "idle"
Writes(op) == op \in {"set", "del", "flush", "once"}

\* The keys of a new call that another call is at work on, one of them writing.
Overlap(c, op, ks) ==
  {k \in ks : \E o \in Fiber \ {c} :
     Active(o) /\ k \in call[o].keys /\ (Writes(op) \/ Writes(call[o].op))}

\* The keys a write by instance i leaves behind in another instance's store.
Drift(i, ks) == {k \in ks : \E j \in Instance \ {i} : k \in Held(l1[j])}

\* Key k is installed somewhere while these flushes run.
Touch(k) == touched' = [c \in Fiber |->
  IF Active(c) /\ call[c].op = "flush" THEN touched[c] \cup {k} ELSE touched[c]]

-----------------------------------------------------------------------------
(* A call begins                                                           *)

Begin(c, i, op, ks, d, ttl) ==
  /\ ~Active(c)
  /\ calls < MaxCalls
  /\ calls' = calls + 1
  /\ call' = [call EXCEPT ![c] =
       [on |-> i, op |-> op, keys |-> ks, data |-> d, ttl |-> ttl]]

Rest(c) == wait' = [wait EXCEPT ![c] = Idle] /\ call' = [call EXCEPT ![c] = NoCall]

\* The command joins the queue of instance i's connection.
Send(c, i) == chan' = [chan EXCEPT ![i] = Append(@, c)]

Sent(cmd) == [Idle EXCEPT !.at = "sent", !.cmd = cmd]

On(c) == call[c].on

\* get and executeIfAbsent when level 1 has no answer; with one they end at once
\* and change nothing.
StartRead(c, i, op, k) ==
  /\ ~Fresh(l1[i], k, clock)
  /\ Begin(c, i, op, {k}, Marker, OnceTtl)
  /\ l1' = [l1 EXCEPT ![i] = Lookup(@, k, clock)]
  /\ wait' = [wait EXCEPT ![c].at = "missed"]
  /\ disturbed' = disturbed \cup Overlap(c, op, {k})
  /\ UNCHANGED <<clock, l2, chan, faults, truth, ran, touched>>

\* A miss goes on to level 2 in a later microtask.
SendRead(c) ==
  /\ wait[c].at = "missed"
  /\ Send(c, On(c))
  /\ wait' = [wait EXCEPT ![c] = Sent("GET")]
  /\ UNCHANGED <<clock, l1, l2, call, calls, faults, truth, disturbed, ran, touched>>

\* has looks both levels up; all it can change is an expired entry of level 1.
Has(i, k) ==
  /\ l1' = [l1 EXCEPT ![i] = Lookup(@, k, clock)]
  /\ UNCHANGED <<clock, l2, chan, call, wait, calls, faults, truth, disturbed, ran, touched>>

\* Level 1 is written at once, the command for level 2 is issued with it.
StartSet(c, i, k, d, ttl) ==
  /\ Begin(c, i, "set", {k}, d, ttl)
  /\ l1' = [l1 EXCEPT ![i] = MemorySet(@, k, d, ttl, clock)]
  /\ Send(c, i)
  /\ wait' = [wait EXCEPT ![c] = Sent("SET")]
  /\ truth' = [truth EXCEPT ![k] = d]
  /\ disturbed' = disturbed \cup Overlap(c, "set", {k}) \cup Drift(i, {k})
  /\ Touch(k)
  /\ UNCHANGED <<clock, l2, faults, ran>>

\* Mutant: level 1 is left to expire.
RemoveFromLevel2(c, i, op, ks, cmd, todo) ==
  /\ Begin(c, i, op, ks, Absent, NoTtl)
  /\ Send(c, i)
  /\ wait' = [wait EXCEPT ![c] = [Sent(cmd) EXCEPT !.todo = todo]]
  /\ truth' = [k \in Key |-> IF k \in ks THEN Absent ELSE truth[k]]
  /\ ran' = [k \in Key |-> IF k \in ks THEN 0 ELSE ran[k]]
  /\ disturbed' = disturbed \cup Overlap(c, op, ks) \cup Drift(i, ks)
  /\ UNCHANGED <<clock, l1, l2, faults, touched>>

\* del, flushAll (every key) and the level-1 half of flushNamespace.
Remove(c, i, op, ks, cmd, todo) ==
  /\ Begin(c, i, op, ks, Absent, NoTtl)
  /\ l1' = [l1 EXCEPT ![i] = Delete(@, ks)]
  /\ Send(c, i)
  /\ wait' = [wait EXCEPT ![c] = [Sent(cmd) EXCEPT !.todo = todo]]
  /\ truth' = [k \in Key |-> IF k \in ks THEN Absent ELSE truth[k]]
  /\ ran' = [k \in Key |-> IF k \in ks THEN 0 ELSE ran[k]]
  /\ disturbed' = disturbed \cup Overlap(c, op, ks) \cup Drift(i, ks)
  /\ UNCHANGED <<clock, l2, faults, touched>>

StartDel(c, i, ks) == Remove(c, i, "del", ks, "DEL", {})
StartFlushAll(c, i) == Remove(c, i, "flush", Key, "FLUSHDB", {})
StartFlushNamespace(c, i, ns) == Remove(c, i, "flush", ns, "SCAN", ns)

-----------------------------------------------------------------------------
(* Redis executes the next command of an instance, or the command fails    *)

TheKey(c) == CHOOSE k \in call[c].keys : TRUE

\* Command cmd of fiber c leaves the queue with a reply.
Pop(c, cmds, reply) ==
  /\ wait[c].cmd \in cmds
  /\ wait[c].at = "sent"
  /\ Head(chan[On(c)]) = c
  /\ chan' = [chan EXCEPT ![On(c)] = Tail(@)]
  /\ wait' = [wait EXCEPT ![c] = reply]
  /\ UNCHANGED <<clock, l1, call, calls, truth>>

Replied(c) == [wait[c] EXCEPT !.at = "replied"]

RedisReads(c) ==
  /\ Pop(c, {"GET"}, [Replied(c) EXCEPT !.got = RedisGet(l2, TheKey(c), clock)])
  /\ UNCHANGED <<l2, faults, disturbed, ran, touched>>

RedisWrites(c) ==
  /\ Pop(c, {"SET"}, Replied(c))
  /\ l2' = RedisSet(l2, TheKey(c), call[c].data, call[c].ttl, clock)
  /\ Touch(TheKey(c))
  /\ UNCHANGED <<faults, disturbed, ran>>

RedisDeletes(c) ==
  /\ Pop(c, {"DEL", "FLUSHDB"}, Replied(c))
  /\ l2' = RedisDel(l2, IF call[c].op = "flush" /\ wait[c].cmd = "DEL"
                        THEN wait[c].found ELSE call[c].keys)
  /\ UNCHANGED <<faults, disturbed, ran, touched>>

\* A SCAN reports the live keys of the next part of the key space; the cursor is 0
\* once nothing is left to do.
RedisScans(c) ==
  \E part \in SUBSET wait[c].todo :
    /\ part # {} \/ wait[c].todo = {}
    /\ Pop(c, {"SCAN"}, [Replied(c) EXCEPT
         !.todo = @ \ part, !.found = {k \in part : RedisGet(l2, k, clock) # Absent}])
    /\ UNCHANGED <<l2, faults, disturbed, ran, touched>>

\* The provider logs the error and answers null, or nothing.
CommandFails(c) ==
  /\ faults < MaxFaults
  /\ Pop(c, Cmd, [Replied(c) EXCEPT !.ok = FALSE])
  /\ faults' = faults + 1
  /\ disturbed' = IF Writes(call[c].op) THEN disturbed \cup call[c].keys ELSE disturbed
  /\ UNCHANGED <<l2, ran, touched>>

-----------------------------------------------------------------------------
(* The fiber goes on with the reply                                        *)

Answered(c, ops) == wait[c].at = "replied" /\ call[c].op \in ops

\* Mutant: hydration makes no room.
HydrateInPlace(c) ==
  IF wait[c].got = Absent
  THEN UNCHANGED <<l1, touched>>
  ELSE /\ l1' = [l1 EXCEPT ![On(c)] =
            Put(@, TheKey(c), [data |-> wait[c].got, exp |-> Deadline(DefaultTtl, clock)])]
       /\ Touch(TheKey(c))

\* get hydrates level 1 with what level 2 held, for the default time to live.
Hydrate(c) ==
  IF wait[c].got = Absent
  THEN UNCHANGED <<l1, touched>>
  ELSE /\ l1' = [l1 EXCEPT ![On(c)] = MemorySet(@, TheKey(c), wait[c].got, NoTtl, clock)]
       /\ Touch(TheKey(c))

FinishGet(c) ==
  /\ Answered(c, {"get"})
  /\ Hydrate(c)
  /\ Rest(c)
  /\ UNCHANGED <<clock, l2, chan, calls, faults, truth, disturbed, ran>>

FinishOnce(c) ==
  /\ Answered(c, {"once"})
  /\ wait[c].cmd = "GET"
  /\ Hydrate(c)
  /\ IF wait[c].got = Absent
     THEN wait' = [wait EXCEPT ![c].at = "running"] /\ UNCHANGED call
     ELSE Rest(c)
  /\ UNCHANGED <<clock, l2, chan, calls, faults, truth, disturbed, ran>>

\* set and del, and the set that ends executeIfAbsent.
FinishSimple(c) ==
  /\ Answered(c, {"set", "del", "once"})
  /\ call[c].op = "once" => wait[c].cmd = "SET"
  /\ Rest(c)
  /\ UNCHANGED <<clock, l1, l2, chan, calls, faults, truth, disturbed, ran, touched>>

\* Mutant: the cursor is not followed.
FinishFlushAfterOnePart(c) ==
  /\ Answered(c, {"flush"})
  /\ IF wait[c].ok /\ wait[c].cmd = "SCAN" /\ wait[c].found # {}
     THEN /\ Send(c, On(c))
          /\ wait' = [wait EXCEPT ![c].cmd = "DEL", ![c].at = "sent"]
          /\ UNCHANGED <<call, touched>>
     ELSE Rest(c) /\ touched' = [touched EXCEPT ![c] = {}] /\ UNCHANGED chan
  /\ UNCHANGED <<clock, l1, l2, calls, faults, truth, disturbed, ran>>

\* flushNamespace deletes what a SCAN found before it asks for the next part.
\* An error ends the loop.
FinishFlush(c) ==
  /\ Answered(c, {"flush"})
  /\ LET purge == wait[c].cmd = "SCAN" /\ wait[c].found # {}
         over  == ~wait[c].ok \/ wait[c].cmd = "FLUSHDB" \/ (wait[c].todo = {} /\ ~purge)
     IN  IF over
         THEN Rest(c) /\ touched' = [touched EXCEPT ![c] = {}] /\ UNCHANGED chan
         ELSE /\ Send(c, On(c))
              /\ wait' = [wait EXCEPT ![c].cmd = IF purge THEN "DEL" ELSE "SCAN",
                                      ![c].at = "sent"]
              /\ UNCHANGED <<call, touched>>
  /\ UNCHANGED <<clock, l1, l2, calls, faults, truth, disturbed, ran>>

\* Mutant: the marker stays in the instance.
CallbackDoneMarkLevel1(c) ==
  LET k == TheKey(c)
  IN  /\ wait[c].at = "running"
      /\ l1' = [l1 EXCEPT ![On(c)] = MemorySet(@, k, Marker, OnceTtl, clock)]
      /\ Rest(c)
      /\ truth' = [truth EXCEPT ![k] = Marker]
      /\ ran' = [ran EXCEPT ![k] = @ + 1]
      /\ UNCHANGED <<clock, l2, chan, calls, faults, disturbed, touched>>

\* The callback of executeIfAbsent succeeds: the marker is set on both levels.
CallbackDone(c) ==
  LET k == TheKey(c)
  IN  /\ wait[c].at = "running"
      /\ l1' = [l1 EXCEPT ![On(c)] = MemorySet(@, k, Marker, OnceTtl, clock)]
      /\ Send(c, On(c))
      /\ wait' = [wait EXCEPT ![c] = Sent("SET")]
      /\ truth' = [truth EXCEPT ![k] = Marker]
      /\ ran' = [ran EXCEPT ![k] = @ + 1]
      /\ disturbed' = disturbed \cup Drift(On(c), {k})
      /\ Touch(k)
      /\ UNCHANGED <<clock, l2, call, calls, faults>>

\* The callback throws: nothing is marked, the error goes to the caller.
CallbackFails(c) ==
  /\ wait[c].at = "running"
  /\ Rest(c)
  /\ UNCHANGED <<clock, l1, l2, chan, calls, faults, truth, disturbed, ran, touched>>

-----------------------------------------------------------------------------
(* Time, and processes that come back empty                                *)

\* Redis drops a key whose time is over; level 1 keeps it until it is looked up.
Tick ==
  LET over == {k \in Key : l2[k] # Absent /\ Expired(l2[k], clock + 1)}
  IN  /\ clock < MaxClock
      /\ clock' = clock + 1
      /\ l2' = RedisDel(l2, over)
      /\ ran' = [k \in Key |-> IF k \in over THEN 0 ELSE ran[k]]
      /\ UNCHANGED <<l1, chan, call, wait, calls, faults, truth, disturbed, touched>>

Restart(i) ==
  LET dead == {c \in Fiber : On(c) = i}
  IN  /\ faults < MaxFaults
      /\ faults' = faults + 1
      /\ l1' = [l1 EXCEPT ![i] = EmptyStore]
      /\ chan' = [chan EXCEPT ![i] = <<>>]
      /\ wait' = [c \in Fiber |-> IF c \in dead THEN Idle ELSE wait[c]]
      /\ call' = [c \in Fiber |-> IF c \in dead THEN NoCall ELSE call[c]]
      /\ disturbed' = disturbed \cup
           UNION {call[c].keys : c \in {o \in dead : Writes(call[o].op)}}
      /\ touched' = [c \in Fiber |-> IF c \in dead THEN {} ELSE touched[c]]
      /\ UNCHANGED <<clock, l2, calls, truth, ran>>

Start(c, i) ==
  \/ \E k \in Key, op \in {"get", "once"} : StartRead(c, i, op, k)
  \/ \E k \in Key, d \in Values, ttl \in Ttls : StartSet(c, i, k, d, ttl)
  \/ \E ks \in SUBSET Key \ {{}} : StartDel(c, i, ks)
  \/ \E ns \in Namespaces : StartFlushNamespace(c, i, ns)
  \/ StartFlushAll(c, i)

Continue(c) ==
  \/ SendRead(c) \/ FinishGet(c) \/ FinishOnce(c) \/ FinishSimple(c) \/ FinishFlush(c)
  \/ CallbackDone(c) \/ CallbackFails(c)

Redis(c) ==
  RedisReads(c) \/ RedisWrites(c) \/ RedisDeletes(c) \/ RedisScans(c) \/ CommandFails(c)

Next ==
  \/ \E c \in Fiber : Continue(c) \/ Redis(c)
  \/ \E c \in Fiber, i \in Instance : Start(c, i)
  \/ \E i \in Instance, k \in Key : Has(i, k)
  \/ \E i \in Instance : Restart(i)
  \/ Tick

Spec == Init /\ [][Next]_vars

-----------------------------------------------------------------------------
\* Types; the Map of every instance keeps its iteration order, and a queue holds
\* exactly the fibers of its instance that wait for Redis, each once.
TypeOK ==
  /\ clock \in Nat /\ calls \in Nat /\ faults \in Nat
  /\ l1 \in [Instance -> Store]
  /\ \A i \in Instance : InsertionOrder(l1[i])
  /\ l2 \in [Key -> MaybeEntry]
  /\ chan \in [Instance -> Seq(Fiber)]
  /\ \A i \in Instance, c \in Fiber :
       Cardinality({n \in DOMAIN chan[i] : chan[i][n] = c})
         = IF wait[c].at = "sent" /\ On(c) = i THEN 1 ELSE 0
  /\ call \in [Fiber -> Call]
  /\ wait \in [Fiber -> Wait]
  /\ truth \in [Key -> Data \cup {Absent}]
  /\ disturbed \subseteq Key
  /\ ran \in [Key -> Nat]
  /\ touched \in [Fiber -> SUBSET Key]

\* No interleaving of sets, hydrations and restarts takes a level-1 store over
\* maxItems (memory-cache.provider.ts, set).
CapacityBound == \A i \in Instance : Size(l1[i]) <= IF MaxItems = 0 THEN 1 ELSE MaxItems

Quiet(k) == \A c \in Fiber : Active(c) => k \notin call[c].keys

\* Calls on a key that never overlap, never fail and are never made while another
\* instance still holds the key leave both levels with the last written value or
\* without one: overlapping calls, failed commands and the level-1 stores of other
\* instances are the only ways a cached value goes stale (cache.service.ts).
StaleOnlyIfDisturbed ==
  \A k \in Key \ disturbed : Quiet(k) =>
    /\ l2[k] # Absent => l2[k].data = truth[k]
    /\ \A i \in Instance : Fresh(l1[i], k, clock) => l1[i].entry[k].data = truth[k]

\* executeIfAbsent runs its callback to completion once per marker, as long as the
\* marker is not removed or expired and the calls on it do not overlap or fail: the
\* callback runs between the check and the set, and only overlap lets two in.
OncePerMarker == \A k \in Key \ disturbed : ran[k] <= 1

\* A flush that met no error has removed from Redis and from its own instance every
\* key of the namespace that nothing installed while it ran, although the SCAN loop
\* deletes part by part (redis-cache.provider.ts, flushNamespace).
FlushEnds(c) ==
  call[c].op = "flush" /\ Active(c) /\ wait[c].ok /\ wait'[c].at = "idle" /\ faults' = faults

FlushClears ==
  [][\A c \in Fiber : FlushEnds(c) => \A k \in call[c].keys \ touched[c] :
       k \notin Held(l1[On(c)]) /\ RedisGet(l2, k, clock) = Absent]_vars
=============================================================================
