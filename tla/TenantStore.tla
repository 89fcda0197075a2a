---------------------------- MODULE TenantStore ----------------------------
(***************************************************************************)
(* What a repository promises its tenants: each has a store of its own,    *)
(* and a request changes the store of its own tenant only.  A request may  *)
(* give a record of its tenant away to another one.                        *)
(***************************************************************************)
CONSTANTS Tenant, Record

VARIABLES
  acting,   \* the tenant of the request that took the last step
  store     \* per tenant, its records with their states

storeVars == <<acting, store>>

Init ==
  /\ acting \in Tenant
  /\ store = [t \in Tenant |-> {}]

\* Anything a request does within the store of its tenant.
Work(t) ==
  /\ acting' = t
  /\ store' \in [Tenant -> SUBSET Record]
  /\ \A u \in Tenant \ {t} : store'[u] = store[u]

GiveAway(t, u) ==
  /\ acting' = t
  /\ \E r \in store[t] : store' = [store EXCEPT ![t] = @ \ {r}, ![u] = @ \cup {r}]

Next == \E t, u \in Tenant : Work(t) \/ GiveAway(t, u)

Spec == Init /\ [][Next]_storeVars
=============================================================================
