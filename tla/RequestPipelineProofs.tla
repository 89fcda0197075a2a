----------------------- MODULE RequestPipelineProofs -----------------------
(***************************************************************************)
(* Nobody is admitted on what was never there, and answers and audit trail *)
(* are honest: for every set of requests, keys, roles and permissions.     *)
(***************************************************************************)
EXTENDS RequestPipeline, TLAPS

Fields ==
  {"at", "route", "tenant", "user", "sid", "res", "key", "val", "roles", "step", "perms",
   "status", "done", "audited"}

Looking == {"asking", "filling", "got"}

\* A request is answered by the guards, or has not been answered when they are done.
Honest(q) ==
  /\ q.at \in Looking \cup {"idle", "limiting"} => q.status = None /\ q.done = FALSE /\ q.audited = FALSE
  /\ q.at = "running" => q.status \in {None, 408} /\ q.done \in BOOLEAN /\ q.audited = FALSE
  /\ q.status = 200 => q.done /\ (q.audited <=> q.route.mutative)
  /\ q.audited => q.status = 200
  /\ q.status \in {400, 401, 403, 429} => ~q.done

\* The user of the context is the one of the session.
Known(q) ==
  ~q.route.public => q.user \in HeldAt(buildSession(q.sid)) /\ q.user.tenant = q.tenant

\* The permissions read so far have been those of their roles.
Read0(q) ==
  \A x \in DOMAIN q.perms : q.perms[x] \subseteq UNION HeldAt(buildRoleAuthz(tenantCode(q), x))

\* What a guard is looking up is what the code before it asked for.
Sought(q) ==
  /\ q.val \in HeldAt(q.key) \cup {None}
  /\ q.at = "filling" => q.val # None
  /\ DOMAIN q.perms = Role
  /\ q.step \in Nat
  /\ q.step = 0 => q.key = buildSession(q.sid)
  /\ q.step # 0 => Known(q)
  /\ q.step = 1 => q.key = buildUserAuthz(tenantCode(q), q.user.user)
  /\ q.step > 1 => /\ q.roles \in HeldAt(buildUserAuthz(tenantCode(q), q.user.user))
                   /\ q.step - 1 \in DOMAIN q.roles
                   /\ q.key = buildRoleAuthz(tenantCode(q), q.roles[q.step - 1].role)
  /\ Read0(q)

Granted(q) ==
  \A p \in q.route.required :
    \E roles \in HeldAt(buildUserAuthz(tenantCode(q), q.user.user)) :
      \E a \in {roles[i] : i \in DOMAIN roles} :
        /\ p \in UNION HeldAt(buildRoleAuthz(tenantCode(q), a.role))
        /\ EvaluateScope(a.scope, q.res, q.user.employee)

Evident(q) ==
  /\ q.at \in Looking => Sought(q)
  /\ q.at \in {"limiting", "running"} => Known(q) /\ Granted(q)

Good(q) == DOMAIN q = Fields /\ Honest(q) /\ Evident(q)

\* Both levels hold what has been held, and profiles are lists of assignments.
Stores ==
  /\ DOMAIN redis = Key /\ DOMAIN l1 = Key /\ DOMAIN held = Key
  /\ \A k \in Key : /\ redis[k] \in held[k] \cup {None} /\ l1[k] \in held[k] \cup {None}
                    /\ redis[k] \in Stored[k] /\ held[k] \subseteq Stored[k] \ {None}

\* Inductive: the guards keep what they read while others write, and what they read
\* stays among what was held.
IInv == Stores /\ DOMAIN req = Request /\ \A r \in Request : Good(req[r])

-----------------------------------------------------------------------------
(* What the operators on requests leave alone. *)

LEMMA ReadFields ==
  ASSUME Stores, NEW q, DOMAIN q = Fields, NEW k, NEW z, z = Read(q, k)
  PROVE  /\ DOMAIN z = Fields
         /\ z.at \in {"got", "asking"} /\ z.key = k /\ z.val \in HeldAt(k) \cup {None}
         /\ z.route = q.route /\ z.tenant = q.tenant /\ z.user = q.user /\ z.sid = q.sid
         /\ z.res = q.res /\ z.roles = q.roles /\ z.step = q.step /\ z.perms = q.perms
         /\ z.status = q.status /\ z.done = q.done /\ z.audited = q.audited
<1>1. CASE k \in Key /\ l1[k] # None
  <2>1. z = [q EXCEPT !.at = "got", !.key = k, !.val = l1[k]]
    BY <1>1 DEF Read
  <2>2. l1[k] \in HeldAt(k)
    BY <1>1 DEF Stores, HeldAt
  <2>3. DOMAIN z = Fields /\ z.at = "got" /\ z.key = k /\ z.val = l1[k]
    BY <2>1, Zenon DEF Fields
  <2>4. /\ z.route = q.route /\ z.tenant = q.tenant /\ z.user = q.user /\ z.sid = q.sid
        /\ z.res = q.res /\ z.roles = q.roles /\ z.step = q.step /\ z.perms = q.perms
        /\ z.status = q.status /\ z.done = q.done /\ z.audited = q.audited
    BY <2>1, Zenon DEF Fields
  <2> QED
    BY <2>2, <2>3, <2>4
<1>2. CASE ~(k \in Key /\ l1[k] # None)
  <2>1. z = [q EXCEPT !.at = "asking", !.key = k, !.val = None]
    BY <1>2 DEF Read
  <2>3. DOMAIN z = Fields /\ z.at = "asking" /\ z.key = k /\ z.val = None
    BY <2>1, Zenon DEF Fields
  <2>4. /\ z.route = q.route /\ z.tenant = q.tenant /\ z.user = q.user /\ z.sid = q.sid
        /\ z.res = q.res /\ z.roles = q.roles /\ z.step = q.step /\ z.perms = q.perms
        /\ z.status = q.status /\ z.done = q.done /\ z.audited = q.audited
    BY <2>1, Zenon DEF Fields
  <2> QED
    BY <2>3, <2>4
<1> QED
  BY <1>1, <1>2

LEMMA ThroughFields ==
  ASSUME NEW q, DOMAIN q = Fields, NEW z, z = Through(q)
  PROVE  /\ DOMAIN z = Fields /\ z.at = "limiting"
         /\ z.route = q.route /\ z.tenant = q.tenant /\ z.user = q.user /\ z.sid = q.sid
         /\ z.res = q.res /\ z.status = q.status /\ z.done = q.done /\ z.audited = q.audited
<1>1. PICK perms : z = [q EXCEPT !.at = "limiting", !.step = 0, !.key = None, !.val = None,
                                 !.roles = <<>>, !.perms = perms]
  BY DEF Through
<1> QED
  BY <1>1, Zenon DEF Fields

LEMMA IdleFields ==
  /\ DOMAIN Idle = Fields /\ Idle.at = "idle" /\ Idle.status = None /\ Idle.done = FALSE
  /\ Idle.audited = FALSE /\ Idle.step = 0 /\ Idle.perms = [x \in Role |-> {}]
  /\ Idle.tenant = None /\ Idle.user = None /\ Idle.sid = None /\ Idle.val = None
  BY DEF Idle, Fields

LEMMA EndedFields ==
  ASSUME NEW q, NEW z, z = Ended(q)
  PROVE  /\ DOMAIN z = Fields /\ z.at = "over"
         /\ z.route = q.route /\ z.status = q.status /\ z.done = q.done /\ z.audited = q.audited
<1>1. z = [Idle EXCEPT !.at = "over", !.route = q.route, !.status = q.status, !.done = q.done,
                       !.audited = q.audited]
  BY DEF Ended
<1>2. DOMAIN Idle = Fields
  BY IdleFields
<1>3. DOMAIN z = Fields
  BY <1>1, <1>2, Zenon
<1>4. z.at = "over" /\ z.route = q.route /\ z.status = q.status
  BY <1>1, <1>2, Zenon DEF Fields
<1>5. z.done = q.done /\ z.audited = q.audited
  BY <1>1, <1>2, Zenon DEF Fields
<1> QED
  BY <1>3, <1>4, <1>5

\* A request that is over holds no evidence.
LEMMA EndedGood ==
  ASSUME NEW q, Honest(Ended(q)) PROVE Good(Ended(q))
  BY EndedFields DEF Good, Evident, Looking

LEMMA EndedHonest ==
  ASSUME NEW q,
         q.status = 200 => q.done /\ (q.audited <=> q.route.mutative),
         q.audited => q.status = 200,
         q.status \in {400, 401, 403, 429} => ~q.done
  PROVE  Good(Ended(q))
<1>0. PICK z : z = Ended(q)
  OBVIOUS
<1>1. z.at = "over" /\ z.route = q.route /\ z.status = q.status /\ z.done = q.done /\ z.audited = q.audited
  BY <1>0, EndedFields
<1>2. z.at \notin Looking \cup {"idle", "limiting"} /\ z.at # "running"
  BY <1>1 DEF Looking
<1>3. Honest(z)
  BY <1>1, <1>2 DEF Honest
<1> QED
  BY <1>0, <1>3, EndedGood

LEMMA RefusedGood ==
  \A q, status : DOMAIN q = Fields /\ q.done = FALSE /\ q.audited = FALSE /\ status # 200
                   => Good(Refused(q, status))
<1> SUFFICES ASSUME NEW q, NEW status, DOMAIN q = Fields, q.done = FALSE, q.audited = FALSE,
                    status # 200
             PROVE  Good(Refused(q, status))
  OBVIOUS
<1>1. PICK z : z = [q EXCEPT !.status = status]
  OBVIOUS
<1>2. z.status = status /\ z.done = FALSE /\ z.audited = FALSE
  BY <1>1 DEF Fields
<1>3. Good(Ended(z))
  BY <1>2, EndedHonest
<1> QED
  BY <1>1, <1>3 DEF Refused

-----------------------------------------------------------------------------
(* The guards, from one await to the next. *)

\* A request the guards have only begun with.
Fresh(q) ==
  /\ DOMAIN q = Fields /\ q.status = None /\ q.done = FALSE /\ q.audited = FALSE
  /\ DOMAIN q.perms = Role /\ Read0(q)

LEMMA FreshHonest ==
  ASSUME NEW q, q.status = None, q.done = FALSE, q.audited = FALSE PROVE Honest(q)
<1>1. q.status \notin {200, 400, 401, 403, 429}
  BY StatusAssumption
<1>2. q.status # 200 /\ q.status \in {None, 408}
  BY <1>1
<1>3. q.done \in BOOLEAN /\ ~q.done /\ ~q.audited
  OBVIOUS
<1> QED
  BY <1>1, <1>2, <1>3, ZenonT(60) DEF Honest

LEMMA EnterPermissionGuardGood ==
  ASSUME Stores, NEW q, Fresh(q), Known(q)
  PROVE  Good(EnterPermissionGuard(q))
<1>1. CASE q.route.required = {}
  <2>1. PICK z : z = Through(q)
    OBVIOUS
  <2>2. /\ DOMAIN z = Fields /\ z.at = "limiting"
        /\ z.route = q.route /\ z.tenant = q.tenant /\ z.user = q.user /\ z.sid = q.sid
        /\ z.status = None /\ z.done = FALSE /\ z.audited = FALSE
    BY <2>1, ThroughFields DEF Fresh
  <2>3. Known(z) /\ Granted(z)
    BY <1>1, <2>2 DEF Known, Granted
  <2>4. Good(z)
    BY <2>2, <2>3, FreshHonest DEF Good, Evident, Looking
  <2> QED
    BY <1>1, <2>1, <2>4 DEF EnterPermissionGuard
<1>2. CASE q.route.required # {}
  <2> DEFINE k == buildUserAuthz(tenantCode(q), q.user.user)
  <2>1. PICK y : y = [q EXCEPT !.step = 1]
    OBVIOUS
  <2>2. /\ DOMAIN y = Fields /\ y.step = 1
        /\ y.route = q.route /\ y.tenant = q.tenant /\ y.user = q.user /\ y.sid = q.sid
        /\ y.perms = q.perms /\ y.status = q.status /\ y.done = q.done /\ y.audited = q.audited
    BY <2>1 DEF Fresh, Fields
  <2>3. PICK z : z = Read(y, k)
    OBVIOUS
  <2> HIDE DEF k
  <2>4. /\ DOMAIN z = Fields
        /\ z.at \in {"got", "asking"} /\ z.key = k /\ z.val \in HeldAt(k) \cup {None}
        /\ z.route = q.route /\ z.tenant = q.tenant /\ z.user = q.user /\ z.sid = q.sid
        /\ z.step = 1 /\ z.perms = q.perms
        /\ z.status = None /\ z.done = FALSE /\ z.audited = FALSE
    BY <2>2, <2>3, ReadFields DEF Fresh
  <2>5. tenantCode(z) = tenantCode(q)
    BY <2>4 DEF tenantCode
  <2>6. Sought(z)
    <3>1. Known(z)
      BY <2>4 DEF Known
    <3>2. Read0(z) /\ DOMAIN z.perms = Role
      BY <2>4, <2>5 DEF Fresh, Read0
    <3>3. z.key = buildUserAuthz(tenantCode(z), z.user.user)
      BY <2>4, <2>5 DEF k
    <3> QED
      BY <2>4, <3>1, <3>2, <3>3 DEF Sought
  <2>7. Good(z)
    BY <2>4, <2>6, FreshHonest DEF Good, Evident
  <2> QED
    BY <1>2, <2>1, <2>3, <2>7 DEF EnterPermissionGuard, k
<1> QED
  BY <1>1, <1>2

LEMMA EnterAuthGuardGood ==
  ASSUME Stores, NEW q, Fresh(q), q.step = 0
  PROVE  Good(EnterAuthGuard(q))
<1>1. CASE q.route.public
  BY <1>1, EnterPermissionGuardGood DEF Known, EnterAuthGuard
<1>2. CASE ~q.route.public /\ q.sid = None
  <2>1. DOMAIN q = Fields /\ q.done = FALSE /\ q.audited = FALSE
    BY DEF Fresh
  <2>2. Good(Refused(q, 401))
    BY <2>1, RefusedGood
  <2>3. EnterAuthGuard(q) = Refused(q, 401)
    BY <1>2 DEF EnterAuthGuard
  <2> QED
    BY <2>2, <2>3
<1>3. CASE ~q.route.public /\ q.sid # None
  <2>1. PICK z : z = Read(q, buildSession(q.sid))
    OBVIOUS
  <2>2. /\ DOMAIN z = Fields
        /\ z.at \in {"got", "asking"} /\ z.key = buildSession(q.sid)
        /\ z.val \in HeldAt(z.key) \cup {None}
        /\ z.tenant = q.tenant /\ z.sid = q.sid /\ z.step = 0 /\ z.perms = q.perms
        /\ z.status = None /\ z.done = FALSE /\ z.audited = FALSE
    BY <2>1, ReadFields DEF Fresh
  <2>3. Read0(z) /\ DOMAIN z.perms = Role
    BY <2>2 DEF Fresh, Read0, tenantCode
  <2>4. Sought(z)
    BY <2>2, <2>3 DEF Sought
  <2>5. Good(z)
    BY <2>2, <2>4, FreshHonest DEF Good, Evident
  <2> QED
    BY <1>3, <2>1, <2>5 DEF EnterAuthGuard
<1> QED
  BY <1>1, <1>2, <1>3

\* The next role of the profile is looked up.
LEMMA ReadRoleGood ==
  ASSUME Stores, NEW q, Fresh(q), Known(q), q.step \in Nat, q.step > 1,
         q.roles \in HeldAt(buildUserAuthz(tenantCode(q), q.user.user)),
         q.step - 1 \in DOMAIN q.roles
  PROVE  Good(ReadRole(q))
<1> DEFINE k == buildRoleAuthz(tenantCode(q), q.roles[q.step - 1].role)
<1>1. PICK z : z = Read(q, k)
  OBVIOUS
<1> HIDE DEF k
<1>2. /\ DOMAIN z = Fields
      /\ z.at \in {"got", "asking"} /\ z.key = k /\ z.val \in HeldAt(k) \cup {None}
      /\ z.route = q.route /\ z.tenant = q.tenant /\ z.user = q.user /\ z.sid = q.sid
      /\ z.roles = q.roles /\ z.step = q.step /\ z.perms = q.perms
      /\ z.status = None /\ z.done = FALSE /\ z.audited = FALSE
  BY <1>1, ReadFields DEF Fresh
<1>3. tenantCode(z) = tenantCode(q)
  BY <1>2 DEF tenantCode
<1>4. Known(z)
  BY <1>2 DEF Known
<1>5. Read0(z) /\ DOMAIN z.perms = Role
  BY <1>2, <1>3 DEF Fresh, Read0
<1>6. /\ z.roles \in HeldAt(buildUserAuthz(tenantCode(z), z.user.user))
      /\ z.step - 1 \in DOMAIN z.roles
      /\ z.key = buildRoleAuthz(tenantCode(z), z.roles[z.step - 1].role)
  BY <1>2, <1>3 DEF k
<1>7. Sought(z)
  BY <1>2, <1>4, <1>5, <1>6 DEF Sought
<1>8. Good(z)
  BY <1>2, <1>7, FreshHonest DEF Good, Evident
<1> QED
  BY <1>1, <1>8 DEF ReadRole, k

\* A guard that goes on looking up the same thing.
LEMMA LookingGood ==
  ASSUME NEW q, Good(q), q.at \in Looking, NEW z, DOMAIN z = Fields, z.at \in Looking,
         z.val \in HeldAt(q.key) \cup {None}, z.at = "filling" => z.val # None,
         z.route = q.route, z.tenant = q.tenant, z.user = q.user, z.sid = q.sid, z.res = q.res,
         z.key = q.key, z.roles = q.roles, z.step = q.step, z.perms = q.perms,
         z.status = q.status, z.done = q.done, z.audited = q.audited
  PROVE  Good(z)
<1>1. q.status = None /\ q.done = FALSE /\ q.audited = FALSE
  BY DEF Good, Honest
<1>2. Sought(q)
  BY DEF Good, Evident
<1>3. tenantCode(z) = tenantCode(q)
  BY DEF tenantCode
<1>4. Known(q) => Known(z)
  BY DEF Known
<1>5. Read0(z)
  BY <1>2, <1>3 DEF Sought, Read0
<1>6. Sought(z)
  BY <1>2, <1>3, <1>4, <1>5 DEF Sought
<1> QED
  BY <1>1, <1>6, FreshHonest DEF Good, Evident, Looking

\* What is evidence stays evidence.
LEMMA MonotoneGood ==
  ASSUME \A k \in Key : held[k] \subseteq held'[k], NEW q, Good(q)
  PROVE  Good(q)'
<1>1. \A k : HeldAt(k) \subseteq HeldAt(k)'
  BY DEF HeldAt, Key
<1>2. \A k : UNION HeldAt(k) \subseteq UNION HeldAt(k)'
  BY <1>1
<1>3. Known(q) => Known(q)'
  BY <1>1 DEF Known
<1>4. Read0(q) => Read0(q)'
  BY <1>2 DEF Read0
<1>5. Sought(q) => Sought(q)'
  BY <1>1, <1>3, <1>4 DEF Sought
<1>6. Granted(q) => Granted(q)'
  BY <1>1, <1>2 DEF Granted
<1>7. Evident(q)'
  BY <1>3, <1>5, <1>6 DEF Good, Evident
<1>8. Honest(q)'
  BY DEF Good, Honest
<1> QED
  BY <1>7, <1>8 DEF Good

-----------------------------------------------------------------------------
(* Every step keeps the invariant. *)

LEMMA StepInv ==
  ASSUME IInv, Stores', \A k \in Key : held[k] \subseteq held'[k], DOMAIN req' = Request,
         \A x \in Request : Good(req'[x])
  PROVE  IInv'
<1>1. ASSUME NEW x \in Request PROVE Good(req[x])'
  <2>1. PICK z : z = req'[x]
    OBVIOUS
  <2>2. Good(z)'
    BY <2>1, <1>1, MonotoneGood
  <2> QED
    BY <2>1, <2>2 DEF Good, Honest, Evident, Known, Granted, Sought, Read0, HeldAt
<1> QED
  BY <1>1 DEF IInv

LEMMA ToInv ==
  ASSUME IInv, NEW r \in Request, NEW q, Good(q), To(r, q), UNCHANGED <<redis, l1, held>>
  PROVE  IInv'
<1>1. Stores'
  BY DEF IInv, Stores
<1>2. DOMAIN req' = Request /\ \A x \in Request : Good(req'[x])
  BY DEF IInv, To
<1> QED
  BY <1>1, <1>2, StepInv

LEMMA AskInv == ASSUME IInv, NEW r \in Request, Ask(r) PROVE IInv'
<1>1. PICK q : q = req[r]
  OBVIOUS
<1>2. Good(q) /\ DOMAIN q = Fields /\ q.at = "asking"
  BY <1>1 DEF IInv, Good, Ask
<1>3. PICK v \in Answers(q.key) :
        To(r, [q EXCEPT !.at = IF v = None THEN "got" ELSE "filling", !.val = v])
  BY <1>1 DEF Ask
<1>4. PICK at : at = IF v = None THEN "got" ELSE "filling"
  OBVIOUS
<1>5. PICK z : z = [q EXCEPT !.at = at, !.val = v]
  OBVIOUS
<1>6. /\ DOMAIN z = Fields /\ z.at = at /\ z.val = v
      /\ z.route = q.route /\ z.tenant = q.tenant /\ z.user = q.user /\ z.sid = q.sid
      /\ z.res = q.res /\ z.key = q.key /\ z.roles = q.roles /\ z.step = q.step
      /\ z.perms = q.perms /\ z.status = q.status /\ z.done = q.done /\ z.audited = q.audited
  BY <1>2, <1>5, Zenon DEF Fields
<1>7. v \in HeldAt(q.key) \cup {None}
  BY DEF IInv, Stores, Answers, HeldAt
<1>8. Good(z)
  BY <1>2, <1>4, <1>6, <1>7, LookingGood DEF Looking
<1> QED
  BY <1>3, <1>4, <1>5, <1>8, ToInv DEF Ask

LEMMA FillInv == ASSUME IInv, NEW r \in Request, Fill(r) PROVE IInv'
<1>1. PICK q : q = req[r]
  OBVIOUS
<1>2. Good(q) /\ DOMAIN q = Fields /\ q.at = "filling" /\ Sought(q)
  BY <1>1 DEF IInv, Good, Fill, Evident, Looking
<1>3. PICK z : z = [q EXCEPT !.at = "got"]
  OBVIOUS
<1>4. /\ DOMAIN z = Fields /\ z.at = "got" /\ z.val = q.val
      /\ z.route = q.route /\ z.tenant = q.tenant /\ z.user = q.user /\ z.sid = q.sid
      /\ z.res = q.res /\ z.key = q.key /\ z.roles = q.roles /\ z.step = q.step
      /\ z.perms = q.perms /\ z.status = q.status /\ z.done = q.done /\ z.audited = q.audited
  BY <1>2, <1>3, Zenon DEF Fields
<1>5. Good(z)
  BY <1>2, <1>4, LookingGood DEF Looking, Sought
<1>6. Stores'
  <2>1. l1' = [l1 EXCEPT ![q.key] = q.val] /\ redis' = redis /\ held' = held
    BY <1>1 DEF Fill
  <2>2. q.key \in Key => q.val \in held[q.key] \cup {None}
    BY <1>2 DEF Sought, HeldAt
  <2> QED
    BY <2>1, <2>2 DEF IInv, Stores
<1>7. DOMAIN req' = Request /\ \A x \in Request : Good(req'[x])
  BY <1>1, <1>3, <1>5 DEF IInv, To, Fill
<1> QED
  BY <1>6, <1>7, StepInv DEF Fill

LEMMA AuthGuardInv == ASSUME IInv, NEW r \in Request, AuthGuard(r) PROVE IInv'
<1>1. PICK q : q = req[r]
  OBVIOUS
<1>2. /\ Good(q) /\ DOMAIN q = Fields /\ q.at = "got" /\ q.step = 0 /\ Sought(q)
      /\ q.status = None /\ q.done = FALSE /\ q.audited = FALSE
  BY <1>1 DEF IInv, Good, AuthGuard, Evident, Looking, Honest
<1>3. CASE q.val = None
  <2>1. Good(Refused(q, 401))
    BY <1>2, RefusedGood
  <2>2. To(r, Refused(q, 401))
    BY <1>1, <1>3 DEF AuthGuard
  <2> QED
    BY <2>1, <2>2, ToInv DEF AuthGuard
<1>4. CASE q.val # None /\ q.tenant # q.val.tenant
  <2>1. Good(Refused(q, 403))
    BY <1>2, RefusedGood
  <2>2. To(r, Refused(q, 403))
    BY <1>1, <1>4 DEF AuthGuard
  <2> QED
    BY <2>1, <2>2, ToInv DEF AuthGuard
<1>5. CASE q.val # None /\ q.tenant = q.val.tenant
  <2>1. PICK y : y = [q EXCEPT !.user = q.val]
    OBVIOUS
  <2>2. /\ DOMAIN y = Fields /\ y.user = q.val /\ y.tenant = q.tenant /\ y.sid = q.sid
        /\ y.perms = q.perms /\ y.status = None /\ y.done = FALSE /\ y.audited = FALSE
    BY <1>2, <2>1 DEF Fields
  <2>3. Fresh(y)
    BY <1>2, <2>2 DEF Fresh, Sought, Read0, tenantCode
  <2>4. Known(y)
    BY <1>2, <1>5, <2>2 DEF Known, Sought
  <2>5. Good(EnterPermissionGuard(y))
    BY <2>3, <2>4, EnterPermissionGuardGood DEF IInv
  <2>6. To(r, EnterPermissionGuard(y))
    BY <1>1, <1>5, <2>1 DEF AuthGuard
  <2> QED
    BY <2>5, <2>6, ToInv DEF AuthGuard
<1> QED
  BY <1>3, <1>4, <1>5

\* What is found at the key of a user is a list of assignments.
LEMMA ProfilesAreLists ==
  ASSUME Stores, NEW t, NEW u, NEW roles \in HeldAt(buildUserAuthz(t, u))
  PROVE  roles \in Seq(Assignment) /\ roles # None
<1>1. PICK k : k = buildUserAuthz(t, u)
  OBVIOUS
<1>2. k \in Key /\ roles \in held[k]
  BY <1>1 DEF HeldAt
<1>3. k[1] = "authz:user"
  BY <1>1 DEF buildUserAuthz
<1>4. held[k] \subseteq Stored[k] \ {None}
  BY <1>2 DEF Stores
<1>5. Stored[k] \subseteq Seq(Assignment) \cup {None}
  BY <1>2, <1>3, ProfileAssumption
<1> QED
  BY <1>2, <1>4, <1>5

LEMMA ReadProfileInv == ASSUME IInv, NEW r \in Request, ReadProfile(r) PROVE IInv'
<1>1. PICK q : q = req[r]
  OBVIOUS
<1>2. /\ Good(q) /\ DOMAIN q = Fields /\ q.at = "got" /\ q.step = 1 /\ Sought(q)
      /\ q.status = None /\ q.done = FALSE /\ q.audited = FALSE
  BY <1>1 DEF IInv, Good, ReadProfile, Evident, Looking, Honest
<1>3. CASE q.val = None \/ q.val = <<>>
  <2>1. Good(Refused(q, 403))
    BY <1>2, RefusedGood
  <2>2. To(r, Refused(q, 403))
    BY <1>1, <1>3 DEF ReadProfile
  <2> QED
    BY <2>1, <2>2, ToInv DEF ReadProfile
<1>4. CASE q.val # None /\ q.val # <<>>
  <2>1. PICK y : y = [q EXCEPT !.step = 2, !.roles = q.val]
    OBVIOUS
  <2>2. /\ DOMAIN y = Fields /\ y.step = 2 /\ y.roles = q.val
        /\ y.route = q.route /\ y.user = q.user /\ y.tenant = q.tenant /\ y.sid = q.sid
        /\ y.perms = q.perms /\ y.status = None /\ y.done = FALSE /\ y.audited = FALSE
    BY <1>2, <2>1, Zenon DEF Fields
  <2>3. tenantCode(y) = tenantCode(q)
    BY <2>2 DEF tenantCode
  <2>4. Fresh(y)
    BY <1>2, <2>2, <2>3 DEF Fresh, Sought, Read0
  <2>5. Known(y)
    BY <1>2, <2>2 DEF Known, Sought
  <2>6. y.roles \in HeldAt(buildUserAuthz(tenantCode(y), y.user.user))
    BY <1>2, <1>4, <2>2, <2>3 DEF Sought
  <2>7. y.roles \in Seq(Assignment)
    BY <2>6, ProfilesAreLists DEF IInv
  <2>8. y.step - 1 \in DOMAIN y.roles
    BY <1>4, <2>2, <2>7
  <2>9. Good(ReadRole(y))
    BY <2>2, <2>4, <2>5, <2>6, <2>8, ReadRoleGood DEF IInv
  <2>10. To(r, ReadRole(y))
    BY <1>1, <1>4, <2>1 DEF ReadProfile
  <2> QED
    BY <2>9, <2>10, ToInv DEF ReadProfile
<1> QED
  BY <1>3, <1>4

\* What the evaluator grants on the permissions read rests on what was held.
LEMMA AllowedGranted ==
  ASSUME Stores, NEW q, Read0(q), DOMAIN q.perms = Role,
         q.roles \in HeldAt(buildUserAuthz(tenantCode(q), q.user.user)), Allowed(q)
  PROVE  Granted(q)
<1>1. q.roles \in Seq(Assignment)
  BY ProfilesAreLists
<1> SUFFICES ASSUME NEW p \in q.route.required
             PROVE  \E a \in {q.roles[i] : i \in DOMAIN q.roles} :
                      /\ p \in UNION HeldAt(buildRoleAuthz(tenantCode(q), a.role))
                      /\ EvaluateScope(a.scope, q.res, q.user.employee)
  BY DEF Granted
<1>2. PICK i \in DOMAIN q.roles : /\ p \in q.perms[q.roles[i].role]
                                  /\ EvaluateScope(q.roles[i].scope, q.res, q.user.employee)
  BY DEF Allowed, EvaluateAccess
<1>3. q.roles[i].role \in Role
  <2>1. q.roles[i] \in Assignment
    BY <1>1
  <2> QED
    BY <2>1 DEF Assignment
<1>4. p \in UNION HeldAt(buildRoleAuthz(tenantCode(q), q.roles[i].role))
  BY <1>2, <1>3 DEF Read0
<1> QED
  BY <1>2, <1>4

LEMMA PermissionGuardInv == ASSUME IInv, NEW r \in Request, PermissionGuard(r) PROVE IInv'
<1>1. PICK q : q = req[r]
  OBVIOUS
<1>2. /\ Good(q) /\ DOMAIN q = Fields /\ q.at = "got" /\ q.step > 1 /\ Sought(q)
      /\ q.status = None /\ q.done = FALSE /\ q.audited = FALSE
  <2>1. Good(q) /\ q.at = "got" /\ q.step > 1
    BY <1>1 DEF IInv, PermissionGuard
  <2>2. DOMAIN q = Fields /\ Sought(q)
    BY <2>1 DEF Good, Evident, Looking
  <2>3. q.status = None /\ q.done = FALSE /\ q.audited = FALSE
    BY <2>1 DEF Good, Honest, Looking
  <2> QED
    BY <2>1, <2>2, <2>3
<1>3. /\ q.step \in Nat /\ q.step # 0 /\ Known(q)
      /\ q.roles \in HeldAt(buildUserAuthz(tenantCode(q), q.user.user))
      /\ q.step - 1 \in DOMAIN q.roles
      /\ q.key = buildRoleAuthz(tenantCode(q), q.roles[q.step - 1].role)
      /\ q.val \in HeldAt(q.key) \cup {None} /\ Read0(q) /\ DOMAIN q.perms = Role
  BY <1>2 DEF Sought
<1>4. q.roles \in Seq(Assignment)
  BY <1>3, ProfilesAreLists DEF IInv
<1>5. PICK role : role = q.roles[q.step - 1].role
  OBVIOUS
<1>6. PICK granted : granted = IF q.val = None THEN {} ELSE q.val
  OBVIOUS
<1>7. PICK perms : perms = [q.perms EXCEPT ![role] = granted]
  OBVIOUS
<1>8. PICK z : z = [q EXCEPT !.perms = perms]
  OBVIOUS
<1>9. z = [q EXCEPT !.perms[q.roles[q.step - 1].role] = IF q.val = None THEN {} ELSE q.val]
  BY <1>2, <1>5, <1>6, <1>7, <1>8 DEF Fields
<1>10. /\ DOMAIN z = Fields /\ z.perms = perms
       /\ z.route = q.route /\ z.tenant = q.tenant /\ z.user = q.user /\ z.sid = q.sid
       /\ z.res = q.res /\ z.roles = q.roles /\ z.step = q.step
       /\ z.status = None /\ z.done = FALSE /\ z.audited = FALSE
  BY <1>2, <1>8 DEF Fields
<1>11. tenantCode(z) = tenantCode(q)
  BY <1>10 DEF tenantCode
<1>12. Read0(z) /\ DOMAIN z.perms = Role
  <2>1. granted \subseteq UNION HeldAt(buildRoleAuthz(tenantCode(q), role))
    BY <1>3, <1>5, <1>6
  <2>2. DOMAIN perms = Role /\ \A x \in Role : perms[x] = IF x = role THEN granted ELSE q.perms[x]
    BY <1>3, <1>7
  <2> QED
    BY <1>3, <1>10, <1>11, <2>1, <2>2 DEF Read0
<1>13. Known(z)
  BY <1>3, <1>10 DEF Known
<1>14. z.roles \in HeldAt(buildUserAuthz(tenantCode(z), z.user.user))
  BY <1>3, <1>10, <1>11
<1>15. CASE z.step - 1 < Len(z.roles)
  <2>1. PICK y : y = [z EXCEPT !.step = @ + 1]
    OBVIOUS
  <2>2. /\ DOMAIN y = Fields /\ y.step = z.step + 1 /\ y.perms = z.perms
        /\ y.route = z.route /\ y.tenant = z.tenant /\ y.user = z.user /\ y.sid = z.sid
        /\ y.roles = z.roles /\ y.status = None /\ y.done = FALSE /\ y.audited = FALSE
    BY <1>10, <2>1 DEF Fields
  <2>3. tenantCode(y) = tenantCode(z)
    BY <2>2 DEF tenantCode
  <2>4. Fresh(y)
    BY <1>12, <2>2, <2>3 DEF Fresh, Read0
  <2>5. Known(y)
    BY <1>13, <2>2 DEF Known
  <2>6. y.step \in Nat /\ y.step > 1 /\ y.step - 1 \in DOMAIN y.roles
    BY <1>2, <1>3, <1>4, <1>10, <1>15, <2>2
  <2>7. Good(ReadRole(y))
    BY <1>14, <2>2, <2>3, <2>4, <2>5, <2>6, ReadRoleGood DEF IInv
  <2>8. To(r, ReadRole(y))
    BY <1>1, <1>9, <1>15, <2>1 DEF PermissionGuard
  <2> QED
    BY <2>7, <2>8, ToInv DEF PermissionGuard
<1>16. CASE ~(z.step - 1 < Len(z.roles)) /\ Allowed(z)
  <2>1. PICK y : y = Through(z)
    OBVIOUS
  <2>2. /\ DOMAIN y = Fields /\ y.at = "limiting"
        /\ y.route = z.route /\ y.tenant = z.tenant /\ y.user = z.user /\ y.sid = z.sid
        /\ y.res = z.res /\ y.status = None /\ y.done = FALSE /\ y.audited = FALSE
    BY <1>10, <2>1, ThroughFields
  <2>3. Granted(z)
    BY <1>12, <1>14, <1>16, AllowedGranted DEF IInv
  <2>4. tenantCode(y) = tenantCode(z)
    BY <2>2 DEF tenantCode
  <2>5. Known(y) /\ Granted(y)
    BY <1>13, <2>2, <2>3, <2>4 DEF Known, Granted
  <2>6. Good(y)
    BY <2>2, <2>5, FreshHonest DEF Good, Evident, Looking
  <2>7. To(r, Through(z))
    BY <1>1, <1>9, <1>16 DEF PermissionGuard
  <2> QED
    BY <2>1, <2>6, <2>7, ToInv DEF PermissionGuard
<1>17. CASE ~(z.step - 1 < Len(z.roles)) /\ ~Allowed(z)
  <2>1. Good(Refused(z, 403))
    BY <1>10, RefusedGood
  <2>2. To(r, Refused(z, 403))
    BY <1>1, <1>9, <1>17 DEF PermissionGuard
  <2> QED
    BY <2>1, <2>2, ToInv DEF PermissionGuard
<1> QED
  BY <1>15, <1>16, <1>17

LEMMA ArriveInv ==
  ASSUME IInv, NEW r \in Request, NEW route, NEW token, NEW tenant, NEW res,
         Arrive(r, route, token, tenant, res)
  PROVE  IInv'
<1>1. PICK q : q = IF token = None
                   THEN [Idle EXCEPT !.tenant = tenant]
                   ELSE [Idle EXCEPT !.tenant = token.tenant, !.sid = token.sid]
  OBVIOUS
<1>2. DOMAIN q = Fields /\ q.step = 0 /\ q.perms = [x \in Role |-> {}]
      /\ q.status = None /\ q.done = FALSE /\ q.audited = FALSE
  <2>1. CASE token = None
    <3>1. q = [Idle EXCEPT !.tenant = tenant]
      BY <1>1, <2>1
    <3> QED
      BY <3>1, IdleFields, Zenon DEF Fields
  <2>2. CASE token # None
    <3>1. q = [Idle EXCEPT !.tenant = token.tenant, !.sid = token.sid]
      BY <1>1, <2>2
    <3> QED
      BY <3>1, IdleFields, Zenon DEF Fields
  <2> QED
    BY <2>1, <2>2
<1>3. PICK user : user = [tenant |-> q.tenant, user |-> IF token = None THEN None ELSE token.user,
                          employee |-> None]
  OBVIOUS
<1>4. PICK z : z = [q EXCEPT !.route = route, !.res = res, !.user = user]
  OBVIOUS
<1>5. DOMAIN z = Fields /\ z.step = 0 /\ z.perms = [x \in Role |-> {}]
      /\ z.status = None /\ z.done = FALSE /\ z.audited = FALSE
  BY <1>2, <1>4, Zenon DEF Fields
<1>6. Read0(z) /\ DOMAIN z.perms = Role
  BY <1>5 DEF Read0
<1>7. Good(EnterAuthGuard(z))
  BY <1>5, <1>6, EnterAuthGuardGood DEF Fresh, IInv
<1>8. To(r, EnterAuthGuard(z))
  BY <1>1, <1>3, <1>4 DEF Arrive
<1> QED
  BY <1>7, <1>8, ToInv DEF Arrive

-----------------------------------------------------------------------------
(* Behind the guards. *)

LEMMA RateLimitGuardInv == ASSUME IInv, NEW r \in Request, RateLimitGuard(r) PROVE IInv'
<1>1. PICK q : q = req[r]
  OBVIOUS
<1>2. /\ Good(q) /\ DOMAIN q = Fields /\ q.at = "limiting" /\ Known(q) /\ Granted(q)
      /\ q.status = None /\ q.done = FALSE /\ q.audited = FALSE
  BY <1>1 DEF IInv, Good, RateLimitGuard, Evident, Honest
<1>3. CASE To(r, [q EXCEPT !.at = "running"])
  <2>1. PICK z : z = [q EXCEPT !.at = "running"]
    OBVIOUS
  <2>2. /\ DOMAIN z = Fields /\ z.at = "running" /\ z.route = q.route /\ z.tenant = q.tenant
        /\ z.user = q.user /\ z.sid = q.sid /\ z.res = q.res
        /\ z.status = None /\ z.done = FALSE /\ z.audited = FALSE
    BY <1>2, <2>1, Zenon DEF Fields
  <2>3. Known(z) /\ Granted(z)
    BY <1>2, <2>2 DEF Known, Granted, tenantCode
  <2>4. Good(z)
    BY <2>2, <2>3, FreshHonest DEF Good, Evident, Looking
  <2> QED
    BY <1>3, <2>1, <2>4, ToInv DEF RateLimitGuard
<1>4. CASE To(r, Refused(q, 429))
  <2>1. Good(Refused(q, 429))
    BY <1>2, RefusedGood
  <2> QED
    BY <1>4, <2>1, ToInv DEF RateLimitGuard
<1> QED
  BY <1>1, <1>3, <1>4 DEF RateLimitGuard

\* What a request keeps while its handler runs.
LEMMA RunningFacts ==
  ASSUME IInv, NEW r \in Request, NEW q, q = req[r], q.at = "running"
  PROVE  DOMAIN q = Fields /\ Known(q) /\ Granted(q) /\ q.status \in {None, 408}
  BY DEF IInv, Good, Evident, Honest

LEMMA RunningFlags ==
  ASSUME IInv, NEW r \in Request, NEW q, q = req[r], q.at = "running"
  PROVE  q.done \in BOOLEAN /\ q.audited = FALSE
  BY DEF IInv, Good, Honest

LEMMA RunningGood ==
  ASSUME NEW q, Known(q), Granted(q), NEW z, DOMAIN z = Fields, z.at = "running",
         z.route = q.route, z.tenant = q.tenant, z.user = q.user, z.sid = q.sid,
         z.res = q.res, z.status \in {None, 408}, z.done \in BOOLEAN, z.audited = FALSE
  PROVE  Good(z)
<1>1. Known(z) /\ Granted(z)
  BY DEF Known, Granted, tenantCode
<1>2. z.status # 200 /\ z.status \notin {400, 401, 403, 429}
  BY StatusAssumption
<1>3. z.at \notin Looking \cup {"idle", "limiting"}
  BY DEF Looking
<1>4. Honest(z)
  BY <1>2, <1>3 DEF Honest
<1> QED
  BY <1>1, <1>3, <1>4 DEF Good, Evident

LEMMA WorkInv == ASSUME IInv, NEW r \in Request, Work(r) PROVE IInv'
<1>1. PICK q : q = req[r]
  OBVIOUS
<1>2. PICK z : z = [q EXCEPT !.done = TRUE]
  OBVIOUS
<1>3. q.at = "running"
  BY <1>1 DEF Work
<1>4. DOMAIN q = Fields /\ Known(q) /\ Granted(q) /\ q.status \in {None, 408}
  BY <1>1, <1>3, RunningFacts
<1>5. q.done \in BOOLEAN /\ q.audited = FALSE
  BY <1>1, <1>3, RunningFlags
<1>6. /\ DOMAIN z = Fields /\ z.at = "running" /\ z.route = q.route /\ z.tenant = q.tenant
      /\ z.user = q.user /\ z.sid = q.sid /\ z.res = q.res
      /\ z.status = q.status /\ z.done = TRUE /\ z.audited = FALSE
  <2>1. DOMAIN z = Fields /\ z.at = "running" /\ z.route = q.route /\ z.tenant = q.tenant
    BY <1>2, <1>3, <1>4, ZenonT(60) DEF Fields
  <2>2. z.user = q.user /\ z.sid = q.sid /\ z.res = q.res
    BY <1>2, <1>4, ZenonT(60) DEF Fields
  <2>3. z.status = q.status /\ z.done = TRUE /\ z.audited = FALSE
    BY <1>2, <1>4, <1>5, ZenonT(60) DEF Fields
  <2> QED
    BY <2>1, <2>2, <2>3
<1>7. Good(z)
  BY <1>4, <1>5, <1>6, RunningGood, ZenonT(60)
<1> QED
  BY <1>1, <1>2, <1>7, ToInv DEF Work

LEMMA TimesOutInv == ASSUME IInv, NEW r \in Request, TimesOut(r) PROVE IInv'
<1>1. PICK q : q = req[r]
  OBVIOUS
<1>2. PICK z : z = [q EXCEPT !.status = 408]
  OBVIOUS
<1>3. q.at = "running"
  BY <1>1 DEF TimesOut
<1>4. DOMAIN q = Fields /\ Known(q) /\ Granted(q) /\ q.status \in {None, 408}
  BY <1>1, <1>3, RunningFacts
<1>5. q.done \in BOOLEAN /\ q.audited = FALSE
  BY <1>1, <1>3, RunningFlags
<1>6. /\ DOMAIN z = Fields /\ z.at = "running" /\ z.route = q.route /\ z.tenant = q.tenant
      /\ z.user = q.user /\ z.sid = q.sid /\ z.res = q.res
      /\ z.status = 408 /\ z.done = q.done /\ z.audited = FALSE
  <2>1. DOMAIN z = Fields /\ z.at = "running" /\ z.route = q.route /\ z.tenant = q.tenant
    BY <1>2, <1>3, <1>4, ZenonT(60) DEF Fields
  <2>2. z.user = q.user /\ z.sid = q.sid /\ z.res = q.res
    BY <1>2, <1>4, ZenonT(60) DEF Fields
  <2>3. z.status = 408 /\ z.done = q.done /\ z.audited = FALSE
    BY <1>2, <1>4, <1>5, ZenonT(60) DEF Fields
  <2> QED
    BY <2>1, <2>2, <2>3
<1>7. Good(z)
  BY <1>4, <1>5, <1>6, RunningGood, ZenonT(60)
<1> QED
  BY <1>1, <1>2, <1>7, ToInv DEF TimesOut

LEMMA ReturnInv == ASSUME IInv, NEW r \in Request, Return(r) PROVE IInv'
<1>1. PICK q : q = req[r]
  OBVIOUS
<1>2. q.at = "running" /\ q.done
  BY <1>1 DEF Return
<1>3. DOMAIN q = Fields /\ q.status \in {None, 408}
  BY <1>1, <1>2, RunningFacts
<1>4. q.audited = FALSE
  BY <1>1, <1>2, RunningFlags
<1>5. q.status \notin {200, 400, 401, 403, 429}
  BY <1>3, StatusAssumption
<1>6. CASE Answered(r)
  <2>1. Good(Ended(q))
    BY <1>2, <1>4, <1>5, EndedHonest
  <2> QED
    BY <1>1, <1>6, <2>1, ToInv DEF Return
<1>7. CASE ~Answered(r)
  <2>1. PICK z : z = [q EXCEPT !.status = 200, !.audited = q.route.mutative]
    OBVIOUS
  <2>2. z.status = 200 /\ z.done = q.done /\ z.audited = q.route.mutative /\ z.route = q.route
    BY <1>3, <2>1, ZenonT(60) DEF Fields
  <2>3. Good(Ended(z))
    <3>1. z.done
      BY <1>2, <2>2, Zenon
    <3>2. z.audited <=> z.route.mutative
      BY <2>2, Zenon
    <3>3. z.status = 200 /\ z.status \notin {400, 401, 403, 429}
      BY <2>2
    <3> QED
      BY <3>1, <3>2, <3>3, EndedHonest
  <2>4. To(r, Ended(z))
    BY <1>1, <1>7, <2>1 DEF Return
  <2> QED
    BY <2>3, <2>4, ToInv DEF Return
<1> QED
  BY <1>6, <1>7

\* The filter answers with a status that tells nothing of the effect, or not at all.
LEMMA FailsGood ==
  ASSUME IInv, NEW r \in Request, NEW q, q = req[r], q.at = "running",
         NEW status, status # 200, status \in {400, 401, 403, 429} => ~q.done
  PROVE  Good(Fails(q, status))
<1>1. DOMAIN q = Fields /\ q.status \in {None, 408}
  BY RunningFacts
<1>2. q.audited = FALSE
  BY RunningFlags
<1>3. q.status \notin {200, 400, 401, 403, 429}
  BY <1>1, StatusAssumption
<1>4. CASE q.status = None
  <2>1. PICK z : z = [q EXCEPT !.status = status]
    OBVIOUS
  <2>2. z.status = status /\ z.done = q.done /\ z.audited = FALSE /\ z.route = q.route
    BY <1>1, <1>2, <1>3, <2>1 DEF Fields
  <2>3. Good(Ended(z))
    BY <2>2, EndedHonest
  <2> QED
    BY <1>4, <2>1, <2>3 DEF Fails, Refused
<1>5. CASE q.status # None
  <2>1. Good(Ended(q))
    BY <1>1, <1>2, <1>3, EndedHonest
  <2> QED
    BY <1>5, <2>1 DEF Fails
<1> QED
  BY <1>4, <1>5

LEMMA PipeRefusesInv == ASSUME IInv, NEW r \in Request, PipeRefuses(r) PROVE IInv'
<1>1. PICK q : q = req[r]
  OBVIOUS
<1>2. PICK status : status = 400
  OBVIOUS
<1>3. Good(Fails(q, status))
  BY <1>1, <1>2, FailsGood DEF PipeRefuses
<1> QED
  BY <1>1, <1>2, <1>3, ToInv DEF PipeRefuses

LEMMA ThrowInv == ASSUME IInv, NEW r \in Request, Throw(r) PROVE IInv'
<1>1. PICK q : q = req[r]
  OBVIOUS
<1>2. PICK status : status = 500
  OBVIOUS
<1>3. Good(Fails(q, status))
  BY <1>1, <1>2, FailsGood DEF Throw
<1> QED
  BY <1>1, <1>2, <1>3, ToInv DEF Throw

-----------------------------------------------------------------------------
(* Beside the requests. *)

LEMMA ForgetInv == ASSUME IInv, NEW k \in Key, Forget(k) PROVE IInv'
<1>1. Stores'
  BY DEF IInv, Stores, Forget
<1> QED
  BY <1>1, StepInv DEF IInv, Forget

LEMMA WriteInv == ASSUME IInv, NEW k \in Key, NEW v \in Stored[k], Write(k, v) PROVE IInv'
<1>1. /\ redis' = [redis EXCEPT ![k] = v]
      /\ held' = [held EXCEPT ![k] = held[k] \cup ({v} \ {None})]
      /\ l1' = l1 /\ req' = req
  BY DEF Write
<1>2. PICK after : after = held[k] \cup ({v} \ {None})
  OBVIOUS
<1>3. held[k] \subseteq after /\ v \in after \cup {None} /\ after \subseteq Stored[k] \ {None}
  BY <1>2 DEF IInv, Stores
<1>4. held' = [held EXCEPT ![k] = after]
  BY <1>1, <1>2
<1>5. \A x \in Key : held[x] \subseteq held'[x]
  BY <1>3, <1>4 DEF IInv, Stores
<1>6. Stores'
  BY <1>1, <1>3, <1>4 DEF IInv, Stores
<1> QED
  BY <1>1, <1>5, <1>6, StepInv DEF IInv

-----------------------------------------------------------------------------
LEMMA InitInv == Init => IInv
<1> SUFFICES ASSUME Init PROVE IInv
  OBVIOUS
<1>1. Stores
  BY InitialAssumption DEF Init, Stores
<1>2. ASSUME NEW r \in Request PROVE Good(req[r])
  <2>1. PICK q : q = req[r]
    OBVIOUS
  <2>2. q = Idle
    BY <2>1 DEF Init
  <2>3. DOMAIN q = Fields /\ q.at = "idle" /\ Honest(q)
    BY <2>2, IdleFields, FreshHonest
  <2>4. Good(q)
    BY <2>3 DEF Good, Evident, Looking
  <2> QED
    BY <2>1, <2>4
<1> QED
  BY <1>1, <1>2 DEF IInv, Init

LEMMA NextInv == IInv /\ [Next]_vars => IInv'
<1> SUFFICES ASSUME IInv, [Next]_vars PROVE IInv'
  OBVIOUS
<1>1. CASE UNCHANGED vars
  <2>1. Stores' /\ req' = req /\ held' = held
    BY <1>1 DEF vars, IInv, Stores
  <2> QED
    BY <2>1, StepInv DEF IInv
<1>2. ASSUME NEW r \in Request, Guarded(r) \/ PipeRefuses(r) \/ Work(r) \/ Return(r) \/ Throw(r)
      PROVE  IInv'
  BY <1>2, AskInv, FillInv, AuthGuardInv, ReadProfileInv, PermissionGuardInv, RateLimitGuardInv,
     TimesOutInv, PipeRefusesInv, WorkInv, ReturnInv, ThrowInv DEF Guarded
<1>3. ASSUME NEW r \in Request, NEW route, NEW token, NEW tenant, NEW res,
             Arrive(r, route, token, tenant, res)
      PROVE  IInv'
  BY <1>3, ArriveInv
<1>4. ASSUME NEW k \in Key, Forget(k) \/ \E v \in Stored[k] : Write(k, v)
      PROVE  IInv'
  BY <1>4, ForgetInv, WriteInv
<1> QED
  BY <1>1, <1>2, <1>3, <1>4 DEF Next

THEOREM Invariance == Spec => []IInv
  BY InitInv, NextInv, PTL DEF Spec

\* No admission rests on a session, a profile or a permission that was never there, for
\* the tenant of the token (auth.guard.ts, permission.guard.ts and the evaluator):
\* however many requests and writes come between the awaits of the guards.
THEOREM NobodyIsAdmittedOnNothing == Spec => []OnlyWhatWasHeld
<1>1. IInv => OnlyWhatWasHeld
  <2> SUFFICES ASSUME IInv, NEW r \in Request, Admitted(r)
               PROVE  Known(req[r]) /\ Granted(req[r])
    BY DEF OnlyWhatWasHeld, Known, Granted
  <2> QED
    BY DEF IInv, Good, Evident, Admitted
<1> QED
  BY <1>1, Invariance, PTL

\* Success is answered after the effect and with its audit entry, a refusal has no
\* effect, and the audit trail holds nothing else (audit.interceptor.ts inside
\* timeout.interceptor.ts), whichever of handler and timer comes first.
THEOREM AnswersAreHonest == Spec => []AnswerHonest
<1>1. IInv => AnswerHonest
  BY DEF IInv, Good, Honest, AnswerHonest
<1> QED
  BY <1>1, Invariance, PTL
=============================================================================
