----------------------------- MODULE RateLimit -----------------------------
(***************************************************************************)
(* RateLimitGuard of libs-apis over the two-level cache of libs-core, in a *)
(* deployment of several instances that share one Redis server.  The guard *)
(* reads a client's record, decides, and writes the record back: a request *)
(* is the chain of awaits that does so, and each action is the code        *)
(* between two of them.                                                    *)
(***************************************************************************)
EXTENDS CacheStore, Sequences

CONSTANTS
  Instance,     \* running processes
  Request,      \* chains of awaits; one serves a request after another
  Limit,        \* options.limit
  Window,       \* options.windowSeconds
  MaxClock,     \* bound: the last tick of a run
  MaxRequests,  \* bound: requests in a run
  MaxFaults     \* bound: failed commands and restarts in a run

Horizon == MaxClock + Window * Second

\* What the guard keeps for a client: its key is the client, its data such a record.
Record == [count : 1..Limit, until : 1..Horizon]

ASSUME RecordAssumption   == Data = Record
ASSUME InstanceAssumption == Absent \notin Instance
ASSUME LimitAssumption    == Limit \in Nat /\ Window \in Nat \ {0}
ASSUME BoundsAssumption   == MaxClock \in Nat \ {0} /\ MaxRequests \in Nat /\ MaxFaults \in Nat

VARIABLES
  clock,      \* Date.now(), and the time of Redis
  l1,         \* the level-1 store of each instance
  l2,         \* the key space of Redis
  chan,       \* per instance, the requests whose command Redis has still to execute
  req,        \* per request chain, where its request stands
  requests,   \* requests begun so far
  faults,     \* faults so far
  (* auxiliary *)
  grants,     \* per client and window, the requests admitted in that window
  disturbed   \* the clients whose requests overlapped, lost a command or moved
              \* between instances

vars == <<clock, l1, l2, chan, req, requests, faults, grants, disturbed>>

Idle == [at |-> "idle", on |-> Absent, client |-> {}, rec |-> Absent, ttl |-> 0]

Stage == {"idle", "missed", "getting", "replied", "read", "setting"}

Init ==
  /\ clock = 1
  /\ l1 = [i \in Instance |-> EmptyStore]
  /\ l2 = EmptyRedis
  /\ chan = [i \in Instance |-> <<>>]
  /\ req = [r \in Request |-> Idle]
  /\ requests = 0
  /\ faults = 0
  /\ grants = [k \in Key |-> [u \in 1..Horizon |-> 0]]
  /\ disturbed = {}

Client(r) == CHOOSE k \in req[r].client : TRUE

On(r) == req[r].on

Overlap(k) == IF \E r \in Request : k \in req[r].client THEN {k} ELSE {}

Drift(i, k) == IF \E j \in Instance \ {i} : k \in Held(l1[j]) THEN {k} ELSE {}

-----------------------------------------------------------------------------
(* The record is read: cacheProvider.get                                   *)

Arrive(r, i, k) ==
  /\ req[r].at = "idle"
  /\ requests < MaxRequests
  /\ requests' = requests + 1
  /\ l1' = [l1 EXCEPT ![i] = Lookup(@, k, clock)]
  /\ LET new == [Idle EXCEPT !.on = i, !.client = {k}]
     IN  req' = [req EXCEPT ![r] =
           IF Fresh(l1[i], k, clock)
           THEN [new EXCEPT !.at = "read", !.rec = l1[i].entry[k].data]
           ELSE [new EXCEPT !.at = "missed"]]
  /\ disturbed' = disturbed \cup Overlap(k)
  /\ UNCHANGED <<clock, l2, chan, faults, grants>>

SendGet(r) ==
  /\ req[r].at = "missed"
  /\ chan' = [chan EXCEPT ![On(r)] = Append(@, r)]
  /\ req' = [req EXCEPT ![r].at = "getting"]
  /\ UNCHANGED <<clock, l1, l2, requests, faults, grants, disturbed>>

Hydrate(r) ==
  /\ req[r].at = "replied"
  /\ l1' = IF req[r].rec = Absent THEN l1
           ELSE [l1 EXCEPT ![On(r)] = MemorySet(@, Client(r), req[r].rec, NoTtl, clock)]
  /\ req' = [req EXCEPT ![r].at = "read"]
  /\ UNCHANGED <<clock, l2, chan, requests, faults, grants, disturbed>>

-----------------------------------------------------------------------------
(* The guard decides                                                       *)

Count(r) == IF req[r].rec = Absent THEN 0 ELSE req[r].rec.count

Decides(r) == req[r].at = "read"

Refuse(r) ==
  /\ Decides(r)
  /\ Count(r) >= Limit
  /\ req' = [req EXCEPT ![r] = Idle]
  /\ UNCHANGED <<clock, l1, l2, chan, requests, faults, grants, disturbed>>

\* The record goes to level 1 at once, and to Redis when the command gets there.
Admit(r, rec, ttl) ==
  LET k == Client(r)
  IN  /\ Count(r) < Limit
      /\ l1' = [l1 EXCEPT ![On(r)] = MemorySet(@, k, rec, ttl, clock)]
      /\ chan' = [chan EXCEPT ![On(r)] = Append(@, r)]
      /\ req' = [req EXCEPT ![r].at = "setting", ![r].rec = rec, ![r].ttl = ttl]
      /\ grants' = [grants EXCEPT ![k][rec.until] = @ + 1]
      /\ disturbed' = disturbed \cup Drift(On(r), k)
      /\ UNCHANGED <<clock, l2, requests, faults>>

OpenWindow(r) ==
  /\ Decides(r) /\ Count(r) = 0
  /\ Admit(r, [count |-> 1, until |-> clock + Window * Second], Window)

\* Mutant: the last second of a window is cut off.
RemainingRoundedDown(until) == IF until > clock THEN (until - clock) \div Second ELSE 0

\* Seconds are rounded up, and a window that is over leaves 0 of them.
Remaining(until) ==
  IF until > clock THEN (until - clock + Second - 1) \div Second ELSE 0

\* Mutant: every request prolongs the window it is counted in.
CountInSlidingWindow(r) ==
  /\ Decides(r) /\ Count(r) > 0
  /\ Admit(r, [count |-> Count(r) + 1, until |-> clock + Window * Second], Window)

\* Mutant: the count stays what it was.
CountOnce(r) ==
  /\ Decides(r) /\ Count(r) > 0
  /\ Admit(r, req[r].rec, Remaining(req[r].rec.until))

CountRequest(r) ==
  /\ Decides(r) /\ Count(r) > 0
  /\ Admit(r, [req[r].rec EXCEPT !.count = @ + 1], Remaining(req[r].rec.until))

-----------------------------------------------------------------------------
(* Redis executes the next command of an instance, or the command fails    *)

Pop(r, at) ==
  /\ req[r].at = at
  /\ Head(chan[On(r)]) = r
  /\ chan' = [chan EXCEPT ![On(r)] = Tail(@)]
  /\ UNCHANGED <<clock, l1, requests, grants>>

RedisReads(r) ==
  /\ Pop(r, "getting")
  /\ req' = [req EXCEPT ![r].at = "replied", ![r].rec = RedisGet(l2, Client(r), clock)]
  /\ UNCHANGED <<l2, faults, disturbed>>

\* The request goes on to its handler.
RedisWrites(r) ==
  /\ Pop(r, "setting")
  /\ l2' = RedisSet(l2, Client(r), req[r].rec, req[r].ttl, clock)
  /\ req' = [req EXCEPT ![r] = Idle]
  /\ UNCHANGED <<faults, disturbed>>

CommandFails(r) ==
  /\ faults < MaxFaults
  /\ \/ Pop(r, "getting") /\ req' = [req EXCEPT ![r].at = "replied"]
     \/ Pop(r, "setting") /\ req' = [req EXCEPT ![r] = Idle]
  /\ faults' = faults + 1
  /\ disturbed' = disturbed \cup req[r].client
  /\ UNCHANGED l2

-----------------------------------------------------------------------------
Tick ==
  /\ clock < MaxClock
  /\ clock' = clock + 1
  /\ l2' = RedisDel(l2, {k \in Key : l2[k] # Absent /\ Expired(l2[k], clock + 1)})
  /\ UNCHANGED <<l1, chan, req, requests, faults, grants, disturbed>>

Restart(i) ==
  LET dead == {r \in Request : On(r) = i}
  IN  /\ faults < MaxFaults
      /\ faults' = faults + 1
      /\ l1' = [l1 EXCEPT ![i] = EmptyStore]
      /\ chan' = [chan EXCEPT ![i] = <<>>]
      /\ req' = [r \in Request |-> IF r \in dead THEN Idle ELSE req[r]]
      /\ disturbed' = disturbed \cup UNION {req[r].client : r \in dead}
      /\ UNCHANGED <<clock, l2, requests, grants>>

Next ==
  \/ \E r \in Request, i \in Instance, k \in Key : Arrive(r, i, k)
  \/ \E r \in Request :
       \/ SendGet(r) \/ Hydrate(r) \/ Refuse(r) \/ OpenWindow(r) \/ CountRequest(r)
       \/ RedisReads(r) \/ RedisWrites(r) \/ CommandFails(r)
  \/ \E i \in Instance : Restart(i)
  \/ Tick

Spec == Init /\ [][Next]_vars

-----------------------------------------------------------------------------
\* Types; a queue holds exactly the requests of its instance that wait for Redis.
TypeOK ==
  /\ clock \in Nat /\ requests \in Nat /\ faults \in Nat
  /\ l1 \in [Instance -> Store]
  /\ l2 \in [Key -> MaybeEntry]
  /\ \A i \in Instance : InsertionOrder(l1[i])
  /\ chan \in [Instance -> Seq(Request)]
  /\ \A i \in Instance, r \in Request :
       Cardinality({n \in DOMAIN chan[i] : chan[i][n] = r})
         = IF req[r].at \in {"getting", "setting"} /\ On(r) = i THEN 1 ELSE 0
  /\ \A r \in Request :
       /\ req[r].at \in Stage
       /\ On(r) \in Instance \cup {Absent}
       /\ req[r].client \subseteq Key
       /\ req[r].rec \in Record \cup {Absent}
       /\ req[r].ttl \in Nat
  /\ grants \in [Key -> [1..Horizon -> Nat]]
  /\ disturbed \subseteq Key

\* A request is refused only if as many requests as the limit were really admitted
\* in the window it is refused for, however requests interleave, whatever is lost
\* and whichever instance or level answered: lost updates only ever count too few
\* (rate-limit.guard.ts, canActivate).
RefusalEarned ==
  [][\A r \in Request : Refuse(r) /\ Count(r) > 0 =>
       grants[Client(r)][req[r].rec.until] >= Limit]_vars

\* A client whose requests come one after another to one instance gets exactly the
\* limit in a window, and the windows follow one another without overlap, also
\* around the rounding of the remaining seconds and after its record was hydrated.
ExactInSequence ==
  \A k \in Key \ disturbed : \A u \in 1..Horizon : grants[k][u] > 0 =>
    /\ grants[k][u] <= Limit
    /\ \A v \in 1..Horizon : v # u /\ grants[k][v] > 0 =>
         v > u + Window * Second \/ u > v + Window * Second

\* As long as its window lasts, Redis will forget a record: at the end of the window
\* at the earliest, and with the seconds rounded up and the command delayed within
\* another window and a second.  A record that stays for good can be written only
\* once its window is over.
ForgottenWithWindow ==
  \A k \in Key : l2[k] # Absent /\ clock < l2[k].data.until =>
    /\ l2[k].exp # Never
    /\ l2[k].exp >= l2[k].data.until
    /\ l2[k].exp < l2[k].data.until + (Window + 1) * Second
=============================================================================
