-------------------------- MODULE RequestPipeline --------------------------
(***************************************************************************)
(* What ApisModule of libs-apis puts around a handler: ContextMiddleware,  *)
(* AuthGuard, PermissionGuard, RateLimitGuard, the interceptors, the       *)
(* validation pipe and the exception filter, for the concurrent requests   *)
(* of one instance.  The guards read the session, the profile of the user  *)
(* and each role through CacheService, one await after another, while the  *)
(* authentication and authorization services write the same keys in Redis. *)
(*                                                                         *)
(* Level 1 is taken at what MemoryCache was shown to keep to (LossyMap): it *)
(* may forget any entry at any time; and what has a time to live it does   *)
(* forget in the end.                                                      *)
(***************************************************************************)
EXTENDS AccessEvaluator, Integers

CONSTANTS
  Request,        \* chains of awaits; one serves a request after another
  Tenant, User, Session,
  DefaultTenant,  \* DEFAULT_TENANT_CODE, where a context has no tenant
  Serves,         \* per chain the handlers it serves: their decorators, and
                  \* whether their method mutates
  Token,          \* verified tokens: tenantCode, sub and sid
  Target,         \* the resources requests are about
  Stored,         \* for each key in use, what the services may leave it at
  Initial,        \* what Redis may hold when a run begins
  DefaultTtl,     \* l1DefaultTtl
  MaxChanges      \* bound: writes of the services in a run

AuthContext ==
  [tenant : Tenant \cup {None}, user : User \cup {None}, employee : Person]

Route == [public : BOOLEAN, required : SUBSET Perm, mutative : BOOLEAN]

ASSUME RouteAssumption == Serves \in [Request -> SUBSET Route]
ASSUME TokenAssumption == Token \subseteq [tenant : Tenant, user : User, sid : Session]
ASSUME TargetAssumption == Target \subseteq Resource
ASSUME NoneAssumption ==
  None \notin Tenant \cup User \cup Session \cup {DefaultTenant}
ASSUME BoundsAssumption == DefaultTtl \in Nat /\ MaxChanges \in Nat
ASSUME StatusAssumption == None \notin Nat

buildSession(s)      == <<"auth:session", s>>
buildUserAuthz(t, u) == <<"authz:user", t, u>>
buildRoleAuthz(t, x) == <<"authz:role", t, x>>

Key == DOMAIN Stored

ASSUME InitialAssumption ==
  \A c \in Initial : DOMAIN c = Key /\ \A k \in Key : c[k] \in Stored[k]

\* A profile lists what its user was assigned.
ASSUME ProfileAssumption ==
  \A k \in Key : k[1] = "authz:user" => Stored[k] \subseteq Seq(Assignment) \cup {None}

VARIABLES
  redis,    \* the value of each key in Redis
  l1,       \* level 1: for each key the value it holds
  req,      \* per request chain, where its request stands
  changes,  \* writes so far
  (* auxiliary *)
  held      \* the values each key has had in Redis

vars == <<redis, l1, req, changes, held>>

Idle ==
  [at |-> "idle", route |-> None, tenant |-> None, user |-> None, sid |-> None,
   res |-> None, key |-> None, val |-> None, roles |-> <<>>, step |-> 0,
   perms |-> [x \in Role |-> {}], status |-> None, done |-> FALSE, audited |-> FALSE]

\* What Redis answers: also null when the command fails, which is only logged.
Answers(k) == {None} \cup IF k \in Key THEN {redis[k]} ELSE {}

Init ==
  /\ redis \in Initial
  /\ l1 = [k \in Key |-> None]
  /\ req = [r \in Request |-> Idle]
  /\ changes = 0
  /\ held = [k \in Key |-> {redis[k]} \ {None}]

To(r, q) == req' = [req EXCEPT ![r] = q]

\* canActivate has returned: its variables are gone, the request context stays.
Through(q) ==
  [q EXCEPT !.at = "limiting", !.step = 0, !.key = None, !.val = None, !.roles = <<>>,
            !.perms = Idle.perms]

\* What is left of a request once its handling is over: how it was answered.
Ended(q) ==
  [Idle EXCEPT !.at = "over", !.route = q.route, !.status = q.status, !.done = q.done,
               !.audited = q.audited]

Refused(q, status) == Ended([q EXCEPT !.status = status])

-----------------------------------------------------------------------------
(* CacheService.get                                                        *)

\* The lookup in level 1, in the same step as the code before it.
Read(q, k) ==
  IF k \in Key /\ l1[k] # None
  THEN [q EXCEPT !.at = "got", !.key = k, !.val = l1[k]]
  ELSE [q EXCEPT !.at = "asking", !.key = k, !.val = None]

Ask(r) ==
  /\ req[r].at = "asking"
  /\ \E v \in Answers(req[r].key) :
       To(r, [req[r] EXCEPT !.at = IF v = None THEN "got" ELSE "filling", !.val = v])
  /\ UNCHANGED <<redis, l1, changes, held>>

\* The answer is put into level 1 for the default time, whatever the key's time in
\* Redis is.
Fill(r) ==
  /\ req[r].at = "filling"
  /\ l1' = [l1 EXCEPT ![req[r].key] = req[r].val]
  /\ To(r, [req[r] EXCEPT !.at = "got"])
  /\ UNCHANGED <<redis, changes, held>>

\* Mutant: an entry is not given up while it is looked up.
ForgetUnused(k) ==
  /\ l1[k] # None
  /\ \A r \in Request : req[r].key # k
  /\ l1' = [l1 EXCEPT ![k] = None]
  /\ UNCHANGED <<redis, req, changes, held>>

\* Its time is over, or another key needs the room.
Forget(k) ==
  /\ l1[k] # None
  /\ l1' = [l1 EXCEPT ![k] = None]
  /\ UNCHANGED <<redis, req, changes, held>>

\* A login, a logout, a session that expires, a change of a profile or of a role.
Write(k, v) ==
  /\ changes < MaxChanges
  /\ redis[k] # v
  /\ redis' = [redis EXCEPT ![k] = v]
  /\ changes' = changes + 1
  /\ held' = [held EXCEPT ![k] = @ \cup ({v} \ {None})]
  /\ UNCHANGED <<l1, req>>

-----------------------------------------------------------------------------
(* ContextMiddleware and the guards, in the order ApisModule provides them *)

tenantCode(q) == IF q.tenant = None THEN DefaultTenant ELSE q.tenant

\* PermissionGuard begins with the profile; a handler that requires nothing is let
\* through to the rate limit.
EnterPermissionGuard(q) ==
  IF q.route.required = {} THEN Through(q)
  ELSE Read([q EXCEPT !.step = 1], buildUserAuthz(tenantCode(q), q.user.user))

EnterAuthGuard(q) ==
  IF q.route.public THEN EnterPermissionGuard(q)
  ELSE IF q.sid = None THEN Refused(q, 401)
  ELSE Read(q, buildSession(q.sid))

\* Without a token that verifies, the tenant is the one the query or the body names.
Arrive(r, route, token, tenant, res) ==
  LET q == IF token = None
           THEN [Idle EXCEPT !.tenant = tenant]
           ELSE [Idle EXCEPT !.tenant = token.tenant, !.sid = token.sid]
      sub == IF token = None THEN None ELSE token.user
  IN  /\ req[r].at \in {"idle", "over"}
      /\ To(r, EnterAuthGuard(
           [q EXCEPT !.route = route, !.res = res,
              !.user = [tenant |-> q.tenant, user |-> sub, employee |-> None]]))
      /\ UNCHANGED <<redis, l1, changes, held>>

\* The session is in hand: it becomes the user of the context if it is of the tenant.
AuthGuard(r) ==
  LET q == req[r]
  IN  /\ q.at = "got" /\ q.step = 0
      /\ To(r, IF q.val = None THEN Refused(q, 401)
               ELSE IF q.tenant # q.val.tenant THEN Refused(q, 403)
               ELSE EnterPermissionGuard([q EXCEPT !.user = q.val]))
      /\ UNCHANGED <<redis, l1, changes, held>>

ReadRole(q) ==
  Read(q, buildRoleAuthz(tenantCode(q), q.roles[q.step - 1].role))

\* The profile is in hand.
ReadProfile(r) ==
  LET q == req[r]
  IN  /\ q.at = "got" /\ q.step = 1
      /\ To(r, IF q.val = None \/ q.val = <<>> THEN Refused(q, 403)
               ELSE ReadRole([q EXCEPT !.step = 2, !.roles = q.val]))
      /\ UNCHANGED <<redis, l1, changes, held>>

Allowed(q) ==
  \A p \in q.route.required :
    EvaluateAccess(p, q.roles, q.perms, q.res, q.user.employee)

\* The permissions of one role are in hand, none if it has no entry: the next role is
\* read, and after the last one every required permission is evaluated.
PermissionGuard(r) ==
  LET q == [req[r] EXCEPT !.perms[req[r].roles[req[r].step - 1].role] =
              IF req[r].val = None THEN {} ELSE req[r].val]
  IN  /\ req[r].at = "got" /\ req[r].step > 1
      /\ To(r, IF q.step - 1 < Len(q.roles) THEN ReadRole([q EXCEPT !.step = @ + 1])
               ELSE IF Allowed(q) THEN Through(q)
               ELSE Refused(q, 403))
      /\ UNCHANGED <<redis, l1, changes, held>>

\* RateLimitGuard comes last: see RateLimit for how it decides.
RateLimitGuard(r) ==
  /\ req[r].at = "limiting"
  /\ \/ To(r, [req[r] EXCEPT !.at = "running"])
     \/ To(r, Refused(req[r], 429))
  /\ UNCHANGED <<redis, l1, changes, held>>

-----------------------------------------------------------------------------
(* Inside the interceptors: LoggingInterceptor around TimeoutInterceptor   *)
(* around AuditInterceptor around MetricsInterceptor around pipe and handler *)

Answered(r) == req[r].status # None

\* The work of the handler takes effect.
Work(r) ==
  /\ req[r].at = "running" /\ ~req[r].done
  /\ To(r, [req[r] EXCEPT !.done = TRUE])
  /\ UNCHANGED <<redis, l1, changes, held>>

\* Mutant: the audit interceptor stands outside the timeout.
ReturnAudited(r) ==
  /\ req[r].at = "running" /\ req[r].done
  /\ To(r, LET q == [req[r] EXCEPT !.audited = req[r].route.mutative]
           IN  Ended([q EXCEPT !.status = IF @ = None THEN 200 ELSE @]))
  /\ UNCHANGED <<redis, l1, changes, held>>

\* The handler returns.  Once the timeout has unsubscribed nobody listens: no audit
\* entry is written and the result goes nowhere.
Return(r) ==
  /\ req[r].at = "running" /\ req[r].done
  /\ To(r, IF Answered(r) THEN Ended(req[r])
           ELSE Ended([req[r] EXCEPT !.status = 200, !.audited = req[r].route.mutative]))
  /\ UNCHANGED <<redis, l1, changes, held>>

\* The filter answers if nobody else has.
Fails(q, status) == IF q.status = None THEN Refused(q, status) ELSE Ended(q)

\* The pipe refuses the input before the handler is called.
PipeRefuses(r) ==
  /\ req[r].at = "running" /\ ~req[r].done
  /\ To(r, Fails(req[r], 400))
  /\ UNCHANGED <<redis, l1, changes, held>>

\* The handler throws: 500 stands for the status of whatever it throws.
Throw(r) ==
  /\ req[r].at = "running"
  /\ To(r, Fails(req[r], 500))
  /\ UNCHANGED <<redis, l1, changes, held>>

\* Mutant: only requests that mutate are timed.
TimesOutMutation(r) ==
  /\ req[r].at = "running" /\ ~Answered(r) /\ req[r].route.mutative
  /\ To(r, [req[r] EXCEPT !.status = 408])
  /\ UNCHANGED <<redis, l1, changes, held>>

\* The client is answered; pipe and handler go on.
TimesOut(r) ==
  /\ req[r].at = "running" /\ ~Answered(r)
  /\ To(r, [req[r] EXCEPT !.status = 408])
  /\ UNCHANGED <<redis, l1, changes, held>>

-----------------------------------------------------------------------------
Guarded(r) ==
  \/ Ask(r) \/ Fill(r) \/ AuthGuard(r) \/ ReadProfile(r) \/ PermissionGuard(r)
  \/ RateLimitGuard(r) \/ TimesOut(r)

Next ==
  \/ \E r \in Request :
       \/ \E route \in Serves[r], token \in Token \cup {None}, res \in Target :
            \E tenant \in Tenant \cup {None} : Arrive(r, route, token, tenant, res)
       \/ Guarded(r) \/ PipeRefuses(r) \/ Work(r) \/ Return(r) \/ Throw(r)
  \/ \E k \in Key : Forget(k) \/ \E v \in Stored[k] : Write(k, v)

\* Redis answers or the command fails, timers fire, guards are synchronous between
\* their awaits, and time passes; a default time of 0 makes entries immortal.  Nothing
\* is assumed of handlers: one may hang for ever.
Spec ==
  /\ Init /\ [][Next]_vars
  /\ DefaultTtl > 0 => \A k \in Key : WF_vars(Forget(k))
  /\ \A r \in Request : WF_vars(Guarded(r))

-----------------------------------------------------------------------------
\* Types; a request that has been admitted by the guards was refused by none.
TypeOK ==
  /\ \A k \in Key :
       /\ redis[k] \in Stored[k]
       /\ l1[k] \in held[k] \cup {None}
       /\ held[k] \subseteq Stored[k]
  /\ changes \in 0..MaxChanges
  /\ \A r \in Request :
       /\ req[r].at \in {"idle", "asking", "filling", "got", "limiting", "running", "over"}
       /\ req[r].at = "running" => req[r].status \in {None, 408}
       /\ req[r].at \notin {"idle", "over"} => req[r].user \in AuthContext

Admitted(r) == req[r].at \in {"limiting", "running"}

HeldAt(k) == IF k \in Key THEN held[k] ELSE {}

\* No admission rests on anything that was never there: the user of a handler that is
\* not public has had the session of the token, for the tenant of the token, and every
\* required permission was at some time granted by a role that the user was at some
\* time assigned in that tenant, in a scope that holds for the resource; however the
\* awaits of the guards interleave with requests of other users and with changes.
OnlyWhatWasHeld ==
  \A r \in Request : LET q == req[r] IN Admitted(r) =>
    /\ ~q.route.public =>
         q.user \in HeldAt(buildSession(q.sid)) /\ q.user.tenant = q.tenant
    /\ \A p \in q.route.required :
         \E roles \in HeldAt(buildUserAuthz(tenantCode(q), q.user.user)) :
           \E a \in {roles[i] : i \in DOMAIN roles} :
             /\ p \in UNION HeldAt(buildRoleAuthz(tenantCode(q), a.role))
             /\ EvaluateScope(a.scope, q.res, q.user.employee)

Now(k) == IF k \in Key THEN redis[k] ELSE None

\* What Redis says of a request at this moment.
Entitled(q) ==
  /\ ~q.route.public => q.user = Now(buildSession(q.sid))
  /\ \A p \in q.route.required :
       LET roles == Now(buildUserAuthz(tenantCode(q), q.user.user))
       IN  /\ roles # None
           /\ \E a \in {roles[i] : i \in DOMAIN roles} :
                LET perms == Now(buildRoleAuthz(tenantCode(q), a.role))
                IN  /\ perms # None /\ p \in perms
                    /\ EvaluateScope(a.scope, q.res, q.user.employee)

\* A logout, a removed role and a revoked permission reach the guards: once the
\* services have stopped writing, the guards admit in the end only what Redis says,
\* although they read level 1 first and put into it what they read before the change.
CaughtUp == <>[](\A r \in Request : req[r].at = "limiting" => Entitled(req[r]))

\* The answer and the audit trail tell the truth: success is answered after the effect,
\* and with an audit entry where the method mutates; a refusal has no effect, not even
\* a late one; and the trail holds nothing else, whatever races the timeout.
AnswerHonest ==
  \A r \in Request : LET q == req[r] IN
    /\ q.status = 200 => q.done /\ (q.audited <=> q.route.mutative)
    /\ q.audited => q.status = 200
    /\ q.status \in {400, 401, 403, 429} => ~q.done

\* Every request is answered, also when its handler hangs for ever.
Waiting(r) == req[r].at # "idle" /\ ~Answered(r)

EveryRequestAnswered == \A r \in Request : Waiting(r) ~> Answered(r)
=============================================================================
