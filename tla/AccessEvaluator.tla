-------------------------- MODULE AccessEvaluator --------------------------
(***************************************************************************)
(* CumulativeAccessEvaluator of libs-core: whether the roles a user has    *)
(* been assigned, each for a scope, grant a permission on a resource.      *)
(* Companies, locations and departments are compared without regard to     *)
(* case: they stand here for themselves.                                   *)
(***************************************************************************)
EXTENDS Sequences

CONSTANTS
  Role,
  Perm,      \* permission codes
  Employee,
  Unit,      \* companies, locations and departments
  None       \* null, undefined and the empty string

Person == Employee \cup {None}
Place  == Unit \cup {None}

Scope ==
  [type : {"SELF", "DIRECT_REPORTEES", "COMPANY", "LOCATION", "DEPARTMENT",
           "TENANT", "TENANT_WIDE"},
   ref : Place]

\* EffectiveUserRole: one entry of a user's profile.
Assignment == [role : Role, scope : Scope]

\* ResourceContext: what of the request the scopes are compared with.
Resource ==
  [employee : Person, manager : Person, company : Place, location : Place,
   department : Place]

SamePerson(id, me) == id # None /\ id = me

SamePlace(id, ref) == ref # None /\ id # None /\ id = ref

\* me is the employee the session belongs to, None for users who are not employed.
EvaluateScope(scope, res, me) ==
  \/ scope.type \in {"TENANT", "TENANT_WIDE"}
  \/ scope.type = "SELF" /\ SamePerson(res.employee, me)
  \/ scope.type = "DIRECT_REPORTEES" /\ SamePerson(res.manager, me)
  \/ scope.type = "COMPANY" /\ SamePlace(res.company, scope.ref)
  \/ scope.type = "LOCATION" /\ SamePlace(res.location, scope.ref)
  \/ scope.type = "DEPARTMENT" /\ SamePlace(res.department, scope.ref)

\* Mutant: a permission of one role is taken in the scope of another.
EvaluateAcross(perm, roles, perms, res, me) ==
  /\ \E i \in DOMAIN roles : perm \in perms[roles[i].role]
  /\ \E i \in DOMAIN roles : EvaluateScope(roles[i].scope, res, me)

\* The union over the assignments: one of them grants the permission in a scope that
\* holds for the resource.
EvaluateAccess(perm, roles, perms, res, me) ==
  \E i \in DOMAIN roles :
    /\ perm \in perms[roles[i].role]
    /\ EvaluateScope(roles[i].scope, res, me)
=============================================================================
