------------------------------ MODULE MCStores ------------------------------
(* For TLC: the in-memory cache, the SQL and the Mongo repository, which    *)
(* share no state.  A behaviour is one of one of them, so that the state    *)
(* spaces add up instead of multiplying.                                    *)
EXTENDS MemoryCache, SqlRepository, MongoRepository, TLC

CONSTANTS k1, k2, k3, d1, d2, tA, tB, i1, i2, c1, c2

\* Three keys for two places, so that a write at the limit has to choose, and lives
\* of one tick, of two and without end.
MCKey == {k1, k2, k3}
MCData == {d1, d2}
MCTtls == {NoTtl, 0, 1}
MCNamespaces == {{k1, k2}}

MCTenant == {tA, tB}
MCId == {i1, i2}
MCCaller == {c1, c2}
MCTenantOf == [c \in MCCaller |-> IF c = c2 THEN tB ELSE tA]

\* Clauses for one row, and one that asks for another tenant's rows.
MCCondition == [id : MCId, tenant : {None}] \cup {[id |-> None, tenant |-> tB]}

MCSymmetry == Permutations(MCId) \cup Permutations({k1, k2})

-----------------------------------------------------------------------------
VARIABLE part

StoresInit ==
  /\ part \in {"memory", "sql", "mongo"}
  /\ Init
  /\ SqlInit
  /\ MongoInit
  /\ part = "mongo" \/ acting = tA

StoresNext ==
  /\ UNCHANGED part
  /\ \/ part = "memory" /\ Next /\ UNCHANGED <<sqlVars, mongoVars>>
     \/ part = "sql" /\ SqlNext /\ UNCHANGED <<vars, mongoVars>>
     \/ part = "mongo" /\ MongoNext /\ UNCHANGED <<vars, sqlVars>>

StoresSpec == StoresInit /\ [][StoresNext]_<<part, vars, sqlVars, mongoVars>>
=============================================================================
