------------------------- MODULE MCRequestPipeline -------------------------
(* RequestPipeline for TLC: two requests at a time, a session that may be of *)
(* either of two tenants, and two roles, one for the user's own records.   *)
EXTENDS RequestPipeline, TLC

CONSTANTS r1, r2, t1, t2, t0, u, s, e, a, b, view, edit

MCRequest == {r1, r2}
MCTenant == {t1, t2}
MCUser == {u}
MCSession == {s}
MCRole == {a, b}
MCPerm == {view, edit}
MCEmployee == {e}
MCUnit == {}

As(role, type) == [role |-> role, scope |-> [type |-> type, ref |-> None]]

\* Nothing is stored for b: the role has been deleted, and is still assigned.
OwnOnly  == <<As(a, "SELF"), As(b, "TENANT")>>
Anybody  == <<As(a, "TENANT")>>

MCStored ==
  (buildSession(s) :>
     {None} \cup {[tenant |-> t, user |-> u, employee |-> e] : t \in MCTenant})
  @@ (buildUserAuthz(t1, u) :> {OwnOnly, Anybody})
  @@ (buildRoleAuthz(t1, a) :> {{edit}, {view, edit}})

MCInitial ==
  {(buildSession(s) :> [tenant |-> t1, user |-> u, employee |-> e])
   @@ (buildUserAuthz(t1, u) :> OwnOnly)
   @@ (buildRoleAuthz(t1, a) :> {edit})}

MCServes ==
  (r1 :> {[public |-> FALSE, required |-> {view, edit}, mutative |-> TRUE],
          [public |-> TRUE, required |-> {}, mutative |-> FALSE]})
  @@ (r2 :> {[public |-> FALSE, required |-> {}, mutative |-> FALSE]})

MCToken == {[tenant |-> t1, user |-> u, sid |-> s]}

OfEmployee(x) ==
  [employee |-> x, manager |-> None, company |-> None, location |-> None,
   department |-> None]

MCTarget == {OfEmployee(None)}
=============================================================================
