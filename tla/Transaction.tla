---------------------------- MODULE Transaction ----------------------------
(***************************************************************************)
(* TransactionService and UnitOfWork of libs-sql over a database with a    *)
(* pool of connections.  A work is one call of runInTransaction; it may    *)
(* call others, its children.  Works that share a request context find the *)
(* transaction to use under a key of that context, which the work that     *)
(* begins a transaction sets and deletes.  Each action is the code between *)
(* two awaits, or one statement the database executes.                     *)
(***************************************************************************)
EXTENDS Integers, FiniteSets

CONSTANTS
  MaxWorks,   \* bound: calls of runInTransaction
  None,       \* no caller, no transaction, no context
  Context,    \* request contexts
  Origin,     \* where works start: in which contexts, or None outside of a request
  PoolSize,   \* connections of the pool
  MaxRows,    \* bound: rows a work writes
  MaxFaults   \* bound: failed statements and crashes

\* Works are numbered in the order of their calls.
Work == 1..MaxWorks

ASSUME NoneAssumption   == None \notin Work \cup Context
ASSUME OriginAssumption == Origin \subseteq Context \cup {None}
ASSUME BoundsAssumption ==
  /\ MaxWorks \in Nat /\ PoolSize \in Nat
  /\ MaxRows \in Nat /\ MaxFaults \in Nat

Row == [by : Work, n : 1..MaxRows]

VARIABLES
  state,    \* where each work stands
  caller,   \* per work, the work whose callback made the call, None at the top
  context,  \* per work, the context it runs in
  awaited,  \* the works their callers await
  key,      \* per context, the work whose transaction manager it holds
  using,    \* per work, the manager its statement under way was issued on
  issued,   \* per work, the statements issued so far
  pending,  \* per work, the rows its transaction has written and not committed
  db,       \* the rows committed
  pool,     \* free connections
  faults,   \* faults so far
  (* auxiliary *)
  written,  \* the rows the database accepted
  mixed     \* contexts in which works that do not await one another overlapped

vars == <<state, caller, context, awaited, key, using, issued, pending, db, pool, faults, written, mixed>>

Running == {"joined", "open"}
Busy    == Running \cup {"beginning", "committing", "aborting"}
Over    == {"returned", "threw", "committed", "aborted"}

Idle == [at |-> "idle", tx |-> None]

Init ==
  /\ state = [w \in Work |-> "new"]
  /\ caller = [w \in Work |-> None]
  /\ context = [w \in Work |-> None]
  /\ awaited = {}
  /\ key = [c \in Context |-> None]
  /\ using = [w \in Work |-> Idle]
  /\ issued = [w \in Work |-> 0]
  /\ pending = [w \in Work |-> {}]
  /\ db = {}
  /\ pool = PoolSize
  /\ faults = 0
  /\ written = {}
  /\ mixed = {}

placed == <<caller, context, awaited>>

\* The manager a work finds in its context: what getManager answers.
Found(c) == IF c = None THEN None ELSE key[c]

\* Mutant: repositories always use the default manager.
DefaultManager(w) == None

Manager(w) == Found(context[w])

Become(w, s) == state' = [state EXCEPT ![w] = s]

Mix(c) == mixed' = mixed \cup ({c} \ {None})

-----------------------------------------------------------------------------
(* runInTransaction                                                        *)

\* Another unit of work has been started in the context and is not over.
Taken(c) == \E v \in Work : state[v] \in Busy /\ context[v] = c /\ caller[v] = None

\* Mutant: every call begins a transaction.
CallAnew(w, p, c, await) ==
  /\ {v \in Work : state[v] = "new"} = w..MaxWorks
  /\ p # None => state[p] \in Running /\ context[p] = c
  /\ caller' = [caller EXCEPT ![w] = p]
  /\ context' = [context EXCEPT ![w] = c]
  /\ awaited' = IF await THEN awaited \cup {w} ELSE awaited
  /\ Become(w, "beginning")
  /\ IF p = None /\ Taken(c) THEN Mix(c) ELSE UNCHANGED mixed
  /\ UNCHANGED <<key, using, issued, pending, db, pool, faults, written>>

\* Work w is called in context c, by the callback of work p or at the top.
Call(w, p, c, await) ==
  /\ {v \in Work : state[v] = "new"} = w..MaxWorks
  /\ p # None => state[p] \in Running /\ context[p] = c
  /\ caller' = [caller EXCEPT ![w] = p]
  /\ context' = [context EXCEPT ![w] = c]
  /\ awaited' = IF await THEN awaited \cup {w} ELSE awaited
  /\ Become(w, IF Found(c) # None THEN "joined" ELSE "beginning")
  /\ IF p = None /\ Taken(c) THEN Mix(c) ELSE UNCHANGED mixed
  /\ UNCHANGED <<key, using, issued, pending, db, pool, faults, written>>

\* Mutant: one key for the whole process.
BeginForAll(w) ==
  /\ state[w] = "beginning"
  /\ pool > 0
  /\ pool' = pool - 1
  /\ Become(w, "open")
  /\ key' = [c \in Context |-> w]
  /\ UNCHANGED <<placed, using, issued, pending, db, faults, written, mixed>>

\* defaultManager.transaction has its connection and calls back.
Begin(w) ==
  /\ state[w] = "beginning"
  /\ pool > 0
  /\ pool' = pool - 1
  /\ Become(w, "open")
  /\ key' = IF context[w] = None THEN key ELSE [key EXCEPT ![context[w]] = w]
  /\ UNCHANGED <<placed, using, issued, pending, db, faults, written, mixed>>

BeginFails(w) ==
  /\ state[w] = "beginning"
  /\ faults < MaxFaults
  /\ faults' = faults + 1
  /\ Become(w, "aborted")
  /\ UNCHANGED <<placed, key, using, issued, pending, db, pool, written, mixed>>

\* Mutant: the key outlives a work that threw.
ForgetOnSuccess(w, ok) ==
  key' = IF context[w] = None \/ ~ok THEN key ELSE [key EXCEPT ![context[w]] = None]

\* finally deletes the key, whoever set it.
Forget(w, ok) ==
  key' = IF context[w] = None THEN key ELSE [key EXCEPT ![context[w]] = None]

AtWork(w) == {v \in Work : caller[v] = w /\ state[v] \in Busy}

\* Mutant: a nested work commits or rolls back as well.
EndNested(w, ok) ==
  /\ using[w].at = "idle"
  /\ AtWork(w) \cap awaited = {}
  /\ IF AtWork(w) # {} THEN Mix(context[w]) ELSE UNCHANGED mixed
  /\ state[w] \in Running
  /\ Become(w, IF ok THEN "committing" ELSE "aborting")
  /\ Forget(w, ok)
  /\ UNCHANGED <<placed, using, issued, pending, db, pool, faults, written>>

\* The callback ends.  A child that is not awaited may outlive it.
End(w, ok) ==
  /\ using[w].at = "idle"
  /\ AtWork(w) \cap awaited = {}
  /\ IF AtWork(w) # {} THEN Mix(context[w]) ELSE UNCHANGED mixed
  /\ \/ /\ state[w] = "joined"
        /\ Become(w, IF ok THEN "returned" ELSE "threw")
        /\ UNCHANGED key
     \/ /\ state[w] = "open"
        /\ Become(w, IF ok THEN "committing" ELSE "aborting")
        /\ Forget(w, ok)
  /\ UNCHANGED <<placed, using, issued, pending, db, pool, faults, written>>

Release(w) ==
  /\ pool' = pool + 1
  /\ pending' = [pending EXCEPT ![w] = {}]

Commit(w) ==
  /\ state[w] = "committing"
  /\ db' = db \cup pending[w]
  /\ Become(w, "committed")
  /\ Release(w)
  /\ UNCHANGED <<placed, key, using, issued, faults, written, mixed>>

\* The transaction rolls back, because the work threw or because COMMIT failed.
Rollback(w) ==
  /\ \/ state[w] = "aborting" /\ UNCHANGED faults
     \/ state[w] = "committing" /\ faults < MaxFaults /\ faults' = faults + 1
  /\ Become(w, "aborted")
  /\ Release(w)
  /\ UNCHANGED <<placed, key, using, issued, db, written, mixed>>

-----------------------------------------------------------------------------
(* A repository writes a row                                               *)

\* The repository asks for the manager when it is used, not when the work began.
Issue(w) ==
  /\ state[w] \in Running
  /\ using[w].at = "idle"
  /\ issued[w] < MaxRows
  /\ issued' = [issued EXCEPT ![w] = @ + 1]
  /\ using' = [using EXCEPT ![w] = [at |-> "issued", tx |-> Manager(w)]]
  /\ UNCHANGED <<state, placed, key, pending, db, pool, faults, written, mixed>>

NewRow(w) == [by |-> w, n |-> issued[w]]

\* In a transaction whose connection is still there the row waits for its commit;
\* once it is gone the statement is refused.
ExecuteInTransaction(w) ==
  LET t == using[w].tx
  IN  /\ using[w].at = "issued" /\ t # None
      /\ using' = [using EXCEPT ![w] = Idle]
      /\ IF state[t] \in Over
         THEN UNCHANGED <<pending, written>>
         ELSE /\ pending' = [pending EXCEPT ![t] = @ \cup {NewRow(w)}]
              /\ written' = written \cup {NewRow(w)}
      /\ UNCHANGED <<state, placed, key, issued, db, pool, faults, mixed>>

\* The default manager takes a connection of the pool and commits at once.
ExecuteAlone(w) ==
  /\ using[w].at = "issued" /\ using[w].tx = None
  /\ pool > 0
  /\ using' = [using EXCEPT ![w] = Idle]
  /\ db' = db \cup {NewRow(w)}
  /\ written' = written \cup {NewRow(w)}
  /\ UNCHANGED <<state, placed, key, issued, pending, pool, faults, mixed>>

-----------------------------------------------------------------------------
\* The process dies with its contexts; the database rolls back what it had open.
Crash ==
  /\ faults < MaxFaults
  /\ faults' = faults + 1
  /\ state' = [w \in Work |-> IF state[w] = "joined" THEN "threw"
                              ELSE IF state[w] \in Busy THEN "aborted" ELSE state[w]]
  /\ key' = [c \in Context |-> None]
  /\ using' = [w \in Work |-> Idle]
  /\ pending' = [w \in Work |-> {}]
  /\ pool' = PoolSize
  /\ UNCHANGED <<placed, issued, db, written, mixed>>

Step(w) ==
  \/ Begin(w) \/ Commit(w) \/ Rollback(w) \/ ExecuteInTransaction(w) \/ ExecuteAlone(w)
  \/ \E ok \in BOOLEAN : End(w, ok)

Next ==
  \/ \E w \in Work, c \in Origin : Call(w, None, c, FALSE)
  \/ \E w, p \in Work, await \in BOOLEAN : Call(w, p, context[p], await)
  \/ \E w \in Work : Step(w) \/ BeginFails(w) \/ Issue(w)
  \/ Crash

\* The event loop goes on: as long as some callback can end or some statement can be
\* executed, one is.
Spec == Init /\ [][Next]_vars /\ WF_vars(\E w \in Work : Step(w))

-----------------------------------------------------------------------------
\* Types; a connection is in the pool or with a transaction that is not over.
Holding == {w \in Work : state[w] \in {"open", "committing", "aborting"}}

TypeOK ==
  /\ state \in [Work -> {"new"} \cup Busy \cup Over]
  /\ caller \in [Work -> Work \cup {None}]
  /\ context \in [Work -> Context \cup {None}]
  /\ awaited \subseteq Work
  /\ key \in [Context -> Work \cup {None}]
  /\ using \in [Work -> [at : {"idle", "issued"}, tx : Work \cup {None}]]
  /\ issued \in [Work -> 0..MaxRows]
  /\ pending \in [Work -> SUBSET Row]
  /\ db \subseteq Row /\ written \subseteq Row
  /\ mixed \subseteq Context
  /\ faults \in 0..MaxFaults
  /\ pool \in 0..PoolSize
  /\ pool + Cardinality(Holding) = PoolSize

\* The work at the top of the calls a work is part of.
top[v \in Work] == IF caller[v] = None THEN v ELSE top[caller[v]]

Tree(w) == {v \in Work : top[v] = w}
RowsOf(ws) == {r \in written : r.by \in ws}

\* In a context whose works await one another, everything a unit of work and the
\* works it calls have written is in the database once it has committed, and
\* nothing of it before that or when it aborts, at every interleaving with the
\* works of other contexts, failures and a crash (transaction.service.ts,
\* runInTransaction and getManager).
AllOrNothing ==
  \A w \in Work : caller[w] = None /\ context[w] \in Context \ mixed =>
    IF state[w] = "committed" THEN RowsOf(Tree(w)) \subseteq db
    ELSE RowsOf(Tree(w)) \cap db = {}

\* However works overlap in a context, getManager never hands out the manager of a
\* transaction that is being ended: every owner deletes the key before it ends, and
\* the key is only ever set to a transaction that has just begun.
ManagerOpen == \A c \in Context : key[c] # None => state[key[c]] = "open"

\* A row never gets into the transaction of another request.
RequestsKeptApart == \A w \in Work : \A r \in pending[w] : context[r.by] = context[w]

\* All connections are with works outside of a context: what these still have to write,
\* and the works they call, need a connection more.
Starved == pool = 0 /\ \A w \in Holding : context[w] = None

\* A moment comes when every call of runInTransaction has come to its end, although more
\* were under way than there are connections, unless works of a context overlap or works
\* outside of any context hold all connections for good: the works of a context need no
\* connection beyond that of their transaction, and outside of one each statement and
\* each nested work does (transaction.service.ts, getManager and runInTransaction).
EveryWorkEnds ==
  []<>~Starved =>
    (\E w \in Work : state[w] \in Busy) ~> (\A w \in Work : state[w] \notin Busy) \/ mixed # {}

\* A unit of work that aborts leaves no record in the database (quickstart.md).
AbortLeavesNothing ==
  \A w \in Work : state[w] = "aborted" => \A r \in db : r.by # w
=============================================================================
