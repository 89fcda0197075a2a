--------------------------- MODULE SqlRepository ---------------------------
(***************************************************************************)
(* BaseRepository of libs-sql over one table.  Reads are scoped to the     *)
(* tenant of the request unless withTenancy is false; writes go by id      *)
(* alone.  Callers write with the ids, and the whole entities, they were   *)
(* handed by reads of their tenant; an id they write with that no such     *)
(* read handed out has strayed.  Statements are steps: delete, forceDelete *)
(* and restore count rows first and write in a second statement.           *)
(***************************************************************************)
EXTENDS Repository

CONSTANTS
  Caller,      \* requests
  TenantOf,    \* the tenant of each request's context
  Condition,   \* the alternatives of the where clauses callers write
  Paging,      \* the page numbers and limits they ask for
  MaxStray     \* bound: how many ids stray

ASSUME CallerAssumption == TenantOf \in [Caller -> Tenant]
ASSUME PagingAssumption == Paging \subseteq Int
ASSUME StrayAssumption == MaxStray \in Nat
ASSUME ConditionAssumption == Condition \subseteq [id : Id \cup {None}, tenant : Tenant \cup {None}]

VARIABLES
  rows,     \* the table; by is the tenant whose request last wrote the row
  check,    \* per caller, the write whose count of rows has passed
  (* auxiliary *)
  handed,   \* per tenant, the entities its scoped reads and its creates returned,
            \* as they were when they were read
  stray,    \* the ids written by requests of tenants they were never handed to
  whole     \* the rows of which the last step wrote every column

sqlVars == <<rows, check, handed, stray, whole>>

NoRow == [state |-> "unused", tenant |-> None, by |-> None]
NoCheck == [op |-> "none", id |-> None]

SqlInit ==
  /\ rows = [i \in Id |-> NoRow]
  /\ check = [c \in Caller |-> NoCheck]
  /\ handed = [t \in Tenant |-> {}]
  /\ stray = {}
  /\ whole = {}

There(i) == rows[i].state \in {"live", "deleted"}

\* An entity of the row as it is.
Entity(i) == <<i, rows[i].state>>

Handed(i, t) == \E entity \in handed[t] : entity[1] = i

-----------------------------------------------------------------------------
(* Where clauses are sets of alternatives; an empty one selects everything. *)

\* Mutant: what the caller says of the tenant wins.
ScopeUnderWhere(where, t) ==
  IF where = {} THEN {[id |-> None, tenant |-> t]}
  ELSE {[w EXCEPT !.tenant = IF @ = None THEN t ELSE @] : w \in where}

ApplyTenantScope(where, t) ==
  IF where = {} THEN {[id |-> None, tenant |-> t]} ELSE {[w EXCEPT !.tenant = t] : w \in where}

\* options.where is merged over the where argument; None stands for no option.
Combine(where, option) ==
  IF option = None THEN {where}
  ELSE {[id |-> IF w.id = None THEN where.id ELSE w.id,
         tenant |-> IF w.tenant = None THEN where.tenant ELSE w.tenant] : w \in option}

Matching(where, withDeleted) ==
  {i \in Id : /\ rows[i].state = "live" \/ (withDeleted /\ rows[i].state = "deleted")
              /\ \/ where = {}
                 \/ \E w \in where : w.id \in {None, i} /\ w.tenant \in {None, rows[i].tenant}}

\* The where clauses that reach the scope.
Asked == {Combine(where, option) : where \in Condition, option \in {None} \cup SUBSET Condition}

\* What reads scoped to the tenant of the caller may select.
Scoped(c, withDeleted) ==
  {Matching(where, withDeleted) : where \in {ApplyTenantScope(w, TenantOf[c]) : w \in Asked}}

Hand(c, found) ==
  /\ handed' = [handed EXCEPT ![TenantOf[c]] = @ \cup {Entity(i) : i \in found}]
  /\ whole' = {}
  /\ UNCHANGED <<rows, check, stray>>

\* findOne and findById: any of the rows selected.
FindOne(c, withDeleted) ==
  \E found \in Scoped(c, withDeleted) : \E i \in found : Hand(c, {i})

\* find, with or without onlyIds.
Find(c, withDeleted) == \E found \in Scoped(c, withDeleted) : Hand(c, found)

\* findPaginated, and find with pagination: scoped whatever withTenancy says,
\* no order, and the other options are not passed on.
FindPaginated(c, page, limit) ==
  \E found \in Scoped(c, FALSE) : \E part \in SUBSET found :
    /\ Cardinality(part) = OnPage(Cardinality(found), page, limit)
    /\ Hand(c, part)

-----------------------------------------------------------------------------
\* A row with its state set by a request of tenant t.
Row(i, state, t) == [state |-> state, tenant |-> rows[i].tenant, by |-> t]

\* A row written with the tenant of the request.
OwnRow(state, t) == [state |-> state, tenant |-> t, by |-> t]

\* A write by id: whoever may write it, the caller does.
Writes(c, i) ==
  /\ stray' = IF Handed(i, TenantOf[c]) THEN stray ELSE stray \cup {i}
  /\ Cardinality(stray') <= MaxStray

\* The tenant is the caller's, whatever its data say; without an id in them the
\* id is a new uuid.
Create(c, i) ==
  LET t == TenantOf[c]
  IN  /\ rows[i].state = "unused"
      /\ rows' = [rows EXCEPT ![i] = OwnRow("live", t)]
      /\ handed' = [handed EXCEPT ![t] = @ \cup {<<i, "live">>}]
      /\ whole' = {i}
      /\ UNCHANGED <<check, stray>>

\* create with an id in its data: save writes over a row that has it, whose ever, but
\* not its deletedAt, which the entity does not have; it inserts one that is gone.
CreateNaming(c, i) ==
  LET t == TenantOf[c]
  IN  /\ rows[i].state # "unused"
      /\ IF There(i)
         THEN /\ rows' = [rows EXCEPT ![i] = OwnRow(@.state, t)]
              /\ whole' = {}
              /\ UNCHANGED handed
         ELSE /\ rows' = [rows EXCEPT ![i] = OwnRow("live", t)]
              /\ whole' = {i}
              /\ handed' = [handed EXCEPT ![t] = @ \cup {<<i, "live">>}]
      /\ Writes(c, i)
      /\ UNCHANGED check

\* Mutant: the row is written back as if it were live.
UpdateReviving(c, i) ==
  /\ There(i)
  /\ rows' = [rows EXCEPT ![i] = Row(i, "live", TenantOf[c])]
  /\ Writes(c, i)
  /\ whole' = {}
  /\ UNCHANGED <<check, handed>>

\* update with some columns: save finds the row, deleted or not, of any tenant,
\* or fails to insert one that has no tenant.
UpdatePart(c, i) ==
  /\ There(i)
  /\ rows' = [rows EXCEPT ![i] = Row(i, rows[i].state, TenantOf[c])]
  /\ Writes(c, i)
  /\ whole' = {}
  /\ UNCHANGED <<check, handed>>

\* update with an entity: every column is written back as it was read, deletedAt
\* and tenantCode too, and a row that is gone is inserted again.
UpdateWhole(c, i, state) ==
  LET t == TenantOf[c]
  IN  /\ <<i, state>> \in handed[t]
      /\ rows' = [rows EXCEPT ![i] = OwnRow(state, t)]
      /\ whole' = {i}
      /\ UNCHANGED <<check, handed, stray>>

\* exists is given the id beside where, and so counts the rows of the table.
Exists(withDeleted) == Matching({}, withDeleted) # {}

BeginWrite(c, i, op) ==
  /\ check[c] = NoCheck
  /\ rows[i].state # "unused"
  /\ Exists(op = "restore")
  /\ check' = [check EXCEPT ![c] = [op |-> op, id |-> i]]
  /\ Writes(c, i)
  /\ whole' = {}
  /\ UNCHANGED <<rows, handed>>

\* softDelete, delete or restore by id; no row with that id is no error.
EndWrite(c) ==
  LET i == check[c].id
      to == CASE check[c].op = "delete" -> "deleted"
              [] check[c].op = "forceDelete" -> "gone"
              [] OTHER -> "live"
  IN  /\ check[c] # NoCheck
      /\ check' = [check EXCEPT ![c] = NoCheck]
      /\ rows' = IF There(i) THEN [rows EXCEPT ![i] = Row(i, to, TenantOf[c])] ELSE rows
      /\ whole' = {}
      /\ UNCHANGED <<handed, stray>>

SqlNext ==
  \E c \in Caller :
    \/ \E withDeleted \in BOOLEAN : FindOne(c, withDeleted) \/ Find(c, withDeleted)
    \/ \E page, limit \in Paging : FindPaginated(c, page, limit)
    \/ \E i \in Id : Create(c, i) \/ CreateNaming(c, i) \/ UpdatePart(c, i)
    \/ \E i \in Id, state \in {"live", "deleted"} : UpdateWhole(c, i, state)
    \/ \E i \in Id, op \in {"delete", "forceDelete", "restore"} : BeginWrite(c, i, op)
    \/ EndWrite(c)

SqlSpec == SqlInit /\ [][SqlNext]_sqlVars

-----------------------------------------------------------------------------
\* Rows, the counts in progress, and what the callers know.
SqlTypeOK ==
  /\ rows \in [Id -> [state : Shape, tenant : Tenant \cup {None}, by : Tenant \cup {None}]]
  /\ check \in [Caller -> [op : {"none", "delete", "forceDelete", "restore"}, id : Id \cup {None}]]
  /\ handed \in [Tenant -> SUBSET (Id \X {"live", "deleted"})]
  /\ stray \subseteq Id /\ whole \subseteq Id

\* Reads alone keep the tenants apart: no row is written by a request of another
\* tenant unless its id strayed, whatever where clauses, options and pages the
\* reads were given (base.repository.ts, applyTenantScope and its callers; create,
\* update, delete, forceDelete and restore write by id and check no tenant).
TenantsKeptApart ==
  \A i \in Id \ stray :
    /\ rows[i].by = rows[i].tenant
    /\ \A t \in Tenant : Handed(i, t) => rows[i].tenant = t

\* A row that was deleted, softly or for good, comes back only by a restore whose count
\* has passed, or written whole as a row of the tenant whose request saves it: with an
\* entity read before it was deleted or, once it is gone, a new one that bears its id.
\* No partial update and no other write revives it.  delete and forceDelete see neither
\* of the two coming, and specs/001-monorepo-library-foundation/data-model.md knows only
\* the restore (base.repository.ts, create, update, restore).
BackOnlyIfAsked ==
  [][\A i \in Id :
       rows[i].state \in {"deleted", "gone"} /\ rows'[i].state = "live" =>
         \/ /\ rows[i].state = "deleted"
            /\ \E c \in Caller : check[c] = [op |-> "restore", id |-> i] /\ check'[c] = NoCheck
         \/ /\ i \in whole'
            /\ rows'[i].by = rows'[i].tenant
            /\ rows[i].state = "gone" \/ <<i, "live">> \in handed[rows'[i].by]]_sqlVars
=============================================================================
