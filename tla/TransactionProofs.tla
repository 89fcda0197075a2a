------------------------- MODULE TransactionProofs -------------------------
(***************************************************************************)
(* Requests never share a transaction, none is handed out once it is       *)
(* ending, its connection comes back, and a unit of work is all or nothing *)
(* in the database: for every number of works, contexts, connections, rows *)
(* and faults.                                                             *)
(***************************************************************************)
EXTENDS Transaction, FiniteSetTheorems, WellFoundedInduction, TLAPS

Shapes ==
  /\ state \in [Work -> {"new"} \cup Busy \cup Over]
  /\ context \in [Work -> Context \cup {None}]
  /\ key \in [Context -> Work \cup {None}]
  /\ using \in [Work -> [at : {"idle", "issued"}, tx : Work \cup {None}]]
  /\ issued \in [Work -> Nat]
  /\ pending \in [Work -> SUBSET [by : Work, n : Nat]]

\* The key of a context holds an open transaction that was begun in it.
KeysOwned ==
  \A c \in Context : key[c] # None => state[key[c]] = "open" /\ context[key[c]] = c

\* A statement was issued on a transaction of the context of its work ...
StatementsOwned ==
  \A w \in Work : using[w].at = "issued" =>
    /\ state[w] # "new"
    /\ using[w].tx # None => state[using[w].tx] # "new" /\ context[using[w].tx] = context[w]

\* ... and so was every row a transaction has written.
RowsOwned ==
  \A w \in Work : \A r \in pending[w] :
    /\ state[w] # "new" /\ state[r.by] # "new"
    /\ context[r.by] = context[w]

\* Inductive: a row gets into a transaction two steps after the key was read, and the
\* owner of the key may have ended in between; contexts, once given, stay.
IInv == Shapes /\ KeysOwned /\ StatementsOwned /\ RowsOwned

-----------------------------------------------------------------------------
LEMMA InitInv == Init => IInv
  BY DEF Init, IInv, Shapes, KeysOwned, StatementsOwned, RowsOwned, Idle

\* A step that gives no work a context, takes no transaction's key but its owner's,
\* and issues and writes nothing.
LEMMA QuietInv ==
  ASSUME IInv, Shapes',
         UNCHANGED <<context, issued>>,
         \A w \in Work : state[w] # "new" => state'[w] # "new",
         \A w \in Work : using'[w] \in {using[w], Idle},
         \A w \in Work : pending'[w] \subseteq pending[w],
         KeysOwned'
  PROVE  IInv'
<1>1. StatementsOwned'
  BY DEF IInv, Shapes, StatementsOwned, Idle
<1>2. RowsOwned'
  BY DEF IInv, Shapes, RowsOwned
<1> QED
  BY <1>1, <1>2 DEF IInv

\* A work that is called is placed in its context before anything refers to it.
LEMMA CallInv ==
  ASSUME IInv, NEW w \in Work, NEW p, NEW c \in Context \cup {None}, NEW await, Call(w, p, c, await)
  PROVE  IInv'
<1>1. state[w] = "new"
  <2>1. w \in w..MaxWorks
    BY BoundsAssumption DEF Work
  <2> QED
    BY <2>1 DEF Call
<1>2. /\ context' = [context EXCEPT ![w] = c]
      /\ \E s \in {"joined", "beginning"} : state' = [state EXCEPT ![w] = s]
      /\ UNCHANGED <<key, using, issued, pending>>
  BY DEF Call, Become
<1>3. Shapes'
  BY <1>2 DEF IInv, Shapes, Busy, Running
<1>4. \A v \in Work \ {w} : state'[v] = state[v] /\ context'[v] = context[v]
  BY <1>2 DEF IInv, Shapes
<1>5. state'[w] # "new"
  BY <1>2 DEF IInv, Shapes
<1>6. KeysOwned'
  BY <1>1, <1>2, <1>4 DEF IInv, Shapes, KeysOwned
<1>7. StatementsOwned'
  BY <1>1, <1>2, <1>4, <1>5 DEF IInv, Shapes, StatementsOwned
<1>8. RowsOwned'
  <2> SUFFICES ASSUME NEW v \in Work, NEW r \in pending[v]
               PROVE  /\ state'[v] # "new" /\ state'[r.by] # "new"
                      /\ context'[r.by] = context'[v]
    BY <1>2 DEF RowsOwned
  <2>1. r.by \in Work /\ v # w /\ r.by # w
    BY <1>1 DEF IInv, Shapes, RowsOwned
  <2> QED
    BY <1>4, <2>1 DEF IInv, RowsOwned
<1> QED
  BY <1>3, <1>6, <1>7, <1>8 DEF IInv

LEMMA BeginInv == ASSUME IInv, NEW w \in Work, Begin(w) PROVE IInv'
<1>1. /\ state[w] = "beginning" /\ state' = [state EXCEPT ![w] = "open"]
      /\ key' = IF context[w] = None THEN key ELSE [key EXCEPT ![context[w]] = w]
      /\ UNCHANGED <<context, using, issued, pending>>
  BY DEF Begin, Become, placed
<1>2. context[w] \in Context \cup {None}
  BY DEF IInv, Shapes
<1>3. Shapes'
  BY <1>1, <1>2 DEF IInv, Shapes, Busy, Running
<1>4. KeysOwned'
  BY <1>1, <1>2, NoneAssumption DEF IInv, Shapes, KeysOwned
<1> QED
  BY <1>1, <1>3, <1>4, QuietInv DEF IInv, Shapes

\* A work that was not open changes where it stands.
LEMMA MoveInv ==
  ASSUME IInv, NEW w \in Work, state[w] \in Busy \ {"open"}, NEW s \in Over,
         state' = [state EXCEPT ![w] = s],
         UNCHANGED <<context, key, using, issued>>,
         pending' = pending \/ pending' = [pending EXCEPT ![w] = {}]
  PROVE  IInv'
<1>1. Shapes'
  BY DEF IInv, Shapes
<1>2. KeysOwned'
  BY DEF IInv, Shapes, KeysOwned
<1>3. \A v \in Work : pending'[v] \subseteq pending[v]
  BY DEF IInv, Shapes
<1>4. \A v \in Work : state[v] # "new" => state'[v] # "new"
  BY DEF IInv, Shapes, Over
<1> QED
  BY <1>1, <1>2, <1>3, <1>4, QuietInv

\* The owner deletes the key of its context as it leaves, whoever holds it.
LEMMA EndInv == ASSUME IInv, NEW w \in Work, NEW ok \in BOOLEAN, End(w, ok) PROVE IInv'
<1>1. CASE state[w] = "joined"
  <2>1. PICK s \in {"returned", "threw"} : state' = [state EXCEPT ![w] = s]
    BY <1>1 DEF End, Become
  <2>2. UNCHANGED <<context, key, using, issued, pending>>
    BY <1>1 DEF End, placed
  <2> QED
    BY <1>1, <2>1, <2>2, MoveInv DEF Busy, Running, Over
<1>2. CASE state[w] = "open"
  <2>1. PICK s \in {"committing", "aborting"} : state' = [state EXCEPT ![w] = s]
    BY <1>2 DEF End, Become
  <2>2. /\ key' = IF context[w] = None THEN key ELSE [key EXCEPT ![context[w]] = None]
        /\ UNCHANGED <<context, using, issued, pending>>
    BY <1>2 DEF End, Forget, placed
  <2>3. context[w] \in Context \cup {None}
    BY DEF IInv, Shapes
  <2>4. Shapes'
    BY <2>1, <2>2, <2>3 DEF IInv, Shapes, Busy
  <2>5. KeysOwned'
    BY <2>1, <2>2, <2>3, NoneAssumption DEF IInv, Shapes, KeysOwned
  <2>6. \A v \in Work : state[v] # "new" => state'[v] # "new"
    BY <2>1 DEF IInv, Shapes
  <2> QED
    BY <2>2, <2>4, <2>5, <2>6, QuietInv
<1> QED
  BY <1>1, <1>2 DEF End

LEMMA IssueInv == ASSUME IInv, NEW w \in Work, Issue(w) PROVE IInv'
<1>1. /\ state[w] \in Running
      /\ using' = [using EXCEPT ![w] = [at |-> "issued", tx |-> Manager(w)]]
      /\ issued' = [issued EXCEPT ![w] = @ + 1]
      /\ UNCHANGED <<state, context, key, pending>>
  BY DEF Issue, placed
<1>2. /\ Manager(w) \in Work \cup {None}
      /\ Manager(w) # None => state[Manager(w)] = "open" /\ context[Manager(w)] = context[w]
  BY DEF IInv, Shapes, KeysOwned, Manager, Found
<1>3. Shapes'
  BY <1>1, <1>2 DEF IInv, Shapes
<1>4. KeysOwned' /\ RowsOwned'
  BY <1>1 DEF IInv, KeysOwned, RowsOwned
<1>5. StatementsOwned'
  BY <1>1, <1>2 DEF IInv, Shapes, StatementsOwned, Running
<1> QED
  BY <1>3, <1>4, <1>5 DEF IInv

LEMMA ExecuteInTransactionInv ==
  ASSUME IInv, NEW w \in Work, ExecuteInTransaction(w) PROVE IInv'
<1> DEFINE t == using[w].tx
<1>1. /\ using[w].at = "issued" /\ t # None
      /\ using' = [using EXCEPT ![w] = Idle]
      /\ pending' = pending \/ pending' = [pending EXCEPT ![t] = @ \cup {NewRow(w)}]
      /\ UNCHANGED <<state, context, key, issued>>
  BY DEF ExecuteInTransaction, placed
<1>2. /\ t \in Work /\ state[t] # "new" /\ state[w] # "new" /\ context[t] = context[w]
      /\ NewRow(w) \in [by : Work, n : Nat] /\ NewRow(w).by = w
  BY <1>1 DEF IInv, Shapes, StatementsOwned, NewRow
<1> HIDE DEF t
<1>3. Shapes'
  BY <1>1, <1>2 DEF IInv, Shapes, Idle
<1>4. KeysOwned' /\ StatementsOwned'
  BY <1>1 DEF IInv, Shapes, KeysOwned, StatementsOwned, Idle
<1>5. RowsOwned'
  BY <1>1, <1>2 DEF IInv, Shapes, RowsOwned
<1> QED
  BY <1>3, <1>4, <1>5 DEF IInv

LEMMA CrashInv == ASSUME IInv, Crash PROVE IInv'
<1>1. /\ \A w \in Work : state[w] # "new" => state'[w] # "new"
      /\ state' \in [Work -> {"new"} \cup Busy \cup Over]
  BY DEF IInv, Shapes, Crash, Over
<1>2. /\ key' = [c \in Context |-> None] /\ using' = [w \in Work |-> Idle]
      /\ pending' = [w \in Work |-> {}] /\ UNCHANGED <<context, issued>>
  BY DEF Crash, placed
<1>3. Shapes' /\ KeysOwned'
  BY <1>1, <1>2 DEF IInv, Shapes, KeysOwned, Idle
<1> QED
  BY <1>1, <1>2, <1>3, QuietInv

-----------------------------------------------------------------------------
LEMMA NextInv == IInv /\ [Next]_vars => IInv'
<1> SUFFICES ASSUME IInv, [Next]_vars PROVE IInv'
  OBVIOUS
<1>1. CASE UNCHANGED vars
  BY <1>1 DEF vars, IInv, Shapes, KeysOwned, StatementsOwned, RowsOwned
<1>2. ASSUME NEW w \in Work, NEW c \in Origin, Call(w, None, c, FALSE)
      PROVE  IInv'
  BY <1>2, OriginAssumption, CallInv
<1>3. ASSUME NEW w \in Work, NEW p \in Work, NEW await \in BOOLEAN, Call(w, p, context[p], await)
      PROVE  IInv'
  <2>1. context[p] \in Context \cup {None}
    BY DEF IInv, Shapes
  <2> QED
    BY <1>3, <2>1, CallInv
<1>4. ASSUME NEW w \in Work, Commit(w) \/ Rollback(w) \/ BeginFails(w)
      PROVE  IInv'
  <2>1. PICK s \in Over : state' = [state EXCEPT ![w] = s]
    BY <1>4 DEF Commit, Rollback, BeginFails, Become, Over
  <2>2. /\ state[w] \in Busy \ {"open"}
        /\ UNCHANGED <<context, key, using, issued>>
        /\ pending' = pending \/ pending' = [pending EXCEPT ![w] = {}]
    BY <1>4 DEF Commit, Rollback, BeginFails, Release, Busy, placed
  <2> QED
    BY <2>1, <2>2, MoveInv
<1>5. ASSUME NEW w \in Work, ExecuteAlone(w)
      PROVE  IInv'
  <2>1. using' = [using EXCEPT ![w] = Idle] /\ UNCHANGED <<state, context, key, issued, pending>>
    BY <1>5 DEF ExecuteAlone, placed
  <2>2. Shapes' /\ KeysOwned'
    BY <2>1 DEF IInv, Shapes, KeysOwned, Idle
  <2>3. \A v \in Work : using'[v] \in {using[v], Idle} /\ pending'[v] \subseteq pending[v]
    BY <2>1 DEF IInv, Shapes
  <2> QED
    BY <2>1, <2>2, <2>3, QuietInv
<1> QED
  BY <1>1, <1>2, <1>3, <1>4, <1>5, BeginInv, EndInv, IssueInv, ExecuteInTransactionInv, CrashInv
     DEF Next, Step

THEOREM Invariance == Spec => []IInv
  BY InitInv, NextInv, PTL DEF Spec

\* getManager hands out no transaction that is being ended, however the works of a
\* context overlap (transaction.service.ts, runInTransaction and getManager).
THEOREM ManagersAreOpen == Spec => []ManagerOpen
<1>1. IInv => ManagerOpen
  BY DEF IInv, KeysOwned, ManagerOpen
<1> QED
  BY <1>1, Invariance, PTL

\* No row gets into the transaction of another request, whatever transactions end
\* between the moment a repository asks for the manager and the statement.
THEOREM RequestsAreKeptApart == Spec => []RequestsKeptApart
<1>1. IInv => RequestsKeptApart
  BY DEF IInv, RowsOwned, RequestsKeptApart
<1> QED
  BY <1>1, Invariance, PTL

-----------------------------------------------------------------------------
(* Types and connections.                                                  *)

\* Inductive: a row has a number because its statement was counted when it was issued.
Counts ==
  /\ caller \in [Work -> Work \cup {None}]
  /\ awaited \subseteq Work
  /\ issued \in [Work -> 0..MaxRows]
  /\ \A w \in Work : using[w].at = "issued" => issued[w] # 0
  /\ pending \in [Work -> SUBSET Row]
  /\ db \subseteq Row /\ written \subseteq Row
  /\ mixed \subseteq Context
  /\ faults \in 0..MaxFaults
  /\ pool \in Nat
  /\ pool + Cardinality(Holding) = PoolSize

LEMMA HoldingIsFinite == IsFiniteSet(Holding) /\ Cardinality(Holding) \in Nat
<1>1. IsFiniteSet(Work)
  BY FS_Interval, BoundsAssumption DEF Work
<1>2. Holding \subseteq Work
  BY DEF Holding
<1> QED
  BY <1>1, <1>2, FS_Subset, FS_CardinalityType

LEMMA InitCounts == Init => Counts
<1> SUFFICES ASSUME Init PROVE Counts
  OBVIOUS
<1>1. Holding = {}
  BY DEF Init, Holding
<1>2. Cardinality(Holding) = 0
  BY <1>1, FS_EmptySet
<1>3. pool \in Nat /\ pool + Cardinality(Holding) = PoolSize
  BY <1>2, BoundsAssumption DEF Init
<1> QED
  BY <1>3, BoundsAssumption DEF Init, Counts, Idle

\* A context that gets mixed is one.
LEMMA MixIsOfContexts ==
  ASSUME Counts, NEW c \in Context \cup {None}, Mix(c) \/ UNCHANGED mixed
  PROVE  mixed' \subseteq Context
  BY DEF Counts, Mix

\* A step that takes and gives back no connection.
LEMMA SameConnections ==
  ASSUME Counts, Holding' = Holding, pool' = pool
  PROVE  pool' \in Nat /\ pool' + Cardinality(Holding') = PoolSize
  BY DEF Counts

LEMMA CallCounts ==
  ASSUME IInv, Counts, NEW w \in Work, NEW p \in Work \cup {None}, NEW c \in Context \cup {None},
         NEW await, Call(w, p, c, await)
  PROVE  Counts'
<1>1. state[w] = "new"
  <2>1. w \in w..MaxWorks
    BY BoundsAssumption DEF Work
  <2> QED
    BY <2>1 DEF Call
<1>2. /\ \E s \in {"joined", "beginning"} : state' = [state EXCEPT ![w] = s]
      /\ caller' = [caller EXCEPT ![w] = p]
      /\ awaited' \subseteq awaited \cup {w}
      /\ UNCHANGED <<using, issued, pending, db, pool, faults, written>>
      /\ Mix(c) \/ UNCHANGED mixed
  BY DEF Call, Become
<1>3. Holding' = Holding
  BY <1>1, <1>2 DEF Holding, IInv, Shapes
<1>4. pool' \in Nat /\ pool' + Cardinality(Holding') = PoolSize
  BY <1>2, <1>3, SameConnections
<1>5. mixed' \subseteq Context
  BY <1>2, MixIsOfContexts
<1> QED
  BY <1>2, <1>4, <1>5 DEF Counts

LEMMA BeginCounts == ASSUME IInv, Counts, NEW w \in Work, Begin(w) PROVE Counts'
<1>1. /\ state[w] = "beginning" /\ state' = [state EXCEPT ![w] = "open"]
      /\ pool > 0 /\ pool' = pool - 1
      /\ UNCHANGED <<caller, awaited, using, issued, pending, db, faults, written, mixed>>
  BY DEF Begin, Become, placed
<1>2. Holding' = Holding \cup {w} /\ w \notin Holding
  BY <1>1 DEF Holding, IInv, Shapes
<1>3. Cardinality(Holding') = Cardinality(Holding) + 1
  BY <1>2, HoldingIsFinite, FS_AddElement
<1>4. pool' \in Nat /\ pool' + Cardinality(Holding') = PoolSize
  BY <1>1, <1>3, HoldingIsFinite DEF Counts
<1> QED
  BY <1>1, <1>4 DEF Counts

\* A connection comes back to the pool.
LEMMA ReleaseCounts ==
  ASSUME IInv, Counts, NEW w \in Work, Commit(w) \/ Rollback(w)
  PROVE  Counts'
<1>1. /\ state[w] \in {"committing", "aborting"}
      /\ \E s \in {"committed", "aborted"} : state' = [state EXCEPT ![w] = s]
      /\ pool' = pool + 1
      /\ pending' = [pending EXCEPT ![w] = {}]
      /\ UNCHANGED <<caller, awaited, using, issued, written, mixed>>
  BY DEF Commit, Rollback, Become, Release, placed
<1>2. faults' \in 0..MaxFaults
  BY BoundsAssumption DEF Commit, Rollback, Counts
<1>3. db' \subseteq Row
  BY DEF Commit, Rollback, Counts
<1>4. Holding' = Holding \ {w} /\ w \in Holding
  BY <1>1 DEF Holding, IInv, Shapes
<1>5. Cardinality(Holding') = Cardinality(Holding) - 1
  BY <1>4, HoldingIsFinite, FS_RemoveElement
<1>6. pool' \in Nat /\ pool' + Cardinality(Holding') = PoolSize
  BY <1>1, <1>5, HoldingIsFinite DEF Counts
<1> QED
  BY <1>1, <1>2, <1>3, <1>6 DEF Counts

LEMMA BeginFailsCounts == ASSUME IInv, Counts, NEW w \in Work, BeginFails(w) PROVE Counts'
<1>1. /\ state[w] = "beginning" /\ state' = [state EXCEPT ![w] = "aborted"]
      /\ faults < MaxFaults /\ faults' = faults + 1
      /\ UNCHANGED <<caller, awaited, using, issued, pending, db, pool, written, mixed>>
  BY DEF BeginFails, Become, placed
<1>2. Holding' = Holding
  BY <1>1 DEF Holding, IInv, Shapes
<1>3. faults' \in 0..MaxFaults
  BY <1>1, BoundsAssumption DEF Counts
<1>4. pool' \in Nat /\ pool' + Cardinality(Holding') = PoolSize
  BY <1>1, <1>2, SameConnections
<1> QED
  BY <1>1, <1>3, <1>4 DEF Counts

LEMMA EndCounts == ASSUME IInv, Counts, NEW w \in Work, NEW ok \in BOOLEAN, End(w, ok) PROVE Counts'
<1>1. /\ \/ state[w] = "joined" /\ \E s \in {"returned", "threw"} : state' = [state EXCEPT ![w] = s]
         \/ state[w] = "open" /\ \E s \in {"committing", "aborting"} : state' = [state EXCEPT ![w] = s]
      /\ UNCHANGED <<caller, awaited, using, issued, pending, db, pool, faults, written>>
      /\ Mix(context[w]) \/ UNCHANGED mixed
  BY DEF End, Become, placed
<1>2. Holding' = Holding
  BY <1>1 DEF Holding, IInv, Shapes
<1>3. context[w] \in Context \cup {None}
  BY DEF IInv, Shapes
<1>4. mixed' \subseteq Context
  BY <1>1, <1>3, MixIsOfContexts
<1>5. pool' \in Nat /\ pool' + Cardinality(Holding') = PoolSize
  BY <1>1, <1>2, SameConnections
<1> QED
  BY <1>1, <1>4, <1>5 DEF Counts

LEMMA IssueCounts == ASSUME IInv, Counts, NEW w \in Work, Issue(w) PROVE Counts'
<1>1. /\ issued[w] < MaxRows /\ issued' = [issued EXCEPT ![w] = @ + 1]
      /\ using' = [using EXCEPT ![w] = [at |-> "issued", tx |-> Manager(w)]]
      /\ UNCHANGED <<state, caller, awaited, pending, db, pool, faults, written, mixed>>
  BY DEF Issue, placed
<1>2. issued[w] \in 0..MaxRows
  BY DEF Counts
<1>3. issued' \in [Work -> 0..MaxRows] /\ issued'[w] # 0
  BY <1>1, <1>2, BoundsAssumption DEF Counts
<1>4. \A v \in Work : using'[v].at = "issued" => issued'[v] # 0
  BY <1>1, <1>3 DEF IInv, Shapes, Counts
<1>5. Holding' = Holding
  BY <1>1 DEF Holding
<1>6. pool' \in Nat /\ pool' + Cardinality(Holding') = PoolSize
  BY <1>1, <1>5, SameConnections
<1> QED
  BY <1>1, <1>3, <1>4, <1>6 DEF Counts

\* The row of a statement that was issued.
LEMMA NewRowIsRow == ASSUME Counts, NEW w \in Work, using[w].at = "issued" PROVE NewRow(w) \in Row
<1>1. issued[w] \in 1..MaxRows
  BY BoundsAssumption DEF Counts
<1> QED
  BY <1>1 DEF NewRow, Row

LEMMA ExecuteCounts ==
  ASSUME IInv, Counts, NEW w \in Work, ExecuteInTransaction(w) \/ ExecuteAlone(w)
  PROVE  Counts'
<1> DEFINE row == NewRow(w)
<1>1. row \in Row
  BY NewRowIsRow DEF ExecuteInTransaction, ExecuteAlone
<1> HIDE DEF row
<1>2. /\ using[w].at = "issued"
      /\ using' = [using EXCEPT ![w] = Idle]
      /\ written' \subseteq written \cup {row} /\ db' \subseteq db \cup {row}
      /\ UNCHANGED <<state, caller, awaited, issued, pool, faults, mixed>>
  BY DEF ExecuteInTransaction, ExecuteAlone, placed, row
<1>3. pending' \in [Work -> SUBSET Row]
  <2>1. CASE pending' = pending
    BY <2>1 DEF Counts
  <2>2. CASE pending' = [pending EXCEPT ![using[w].tx] = @ \cup {row}]
    BY <1>1, <2>2 DEF Counts
  <2> QED
    BY <2>1, <2>2 DEF ExecuteInTransaction, ExecuteAlone, row
<1>4. \A v \in Work : using'[v].at = "issued" => issued'[v] # 0
  BY <1>2 DEF IInv, Shapes, Counts, Idle
<1>5. Holding' = Holding
  BY <1>2 DEF Holding
<1>6. pool' \in Nat /\ pool' + Cardinality(Holding') = PoolSize
  BY <1>2, <1>5, SameConnections
<1> QED
  BY <1>1, <1>2, <1>3, <1>4, <1>6 DEF Counts

LEMMA CrashCounts == ASSUME IInv, Counts, Crash PROVE Counts'
<1>1. /\ faults < MaxFaults /\ faults' = faults + 1
      /\ using' = [w \in Work |-> Idle] /\ pending' = [w \in Work |-> {}] /\ pool' = PoolSize
      /\ UNCHANGED <<caller, awaited, issued, db, written, mixed>>
  BY DEF Crash, placed
<1>2. \A w \in Work : state'[w] \notin {"open", "committing", "aborting"}
  BY DEF Crash, Busy, Running
<1>3. Holding' = {}
  BY <1>2 DEF Holding
<1>4. Cardinality(Holding') = 0
  BY <1>3, FS_EmptySet
<1>5. pool' \in Nat /\ pool' + Cardinality(Holding') = PoolSize
  BY <1>1, <1>4, BoundsAssumption
<1>6. faults' \in 0..MaxFaults
  BY <1>1, BoundsAssumption DEF Counts
<1> QED
  BY <1>1, <1>5, <1>6 DEF Counts, Idle

LEMMA NextCounts == IInv /\ Counts /\ [Next]_vars => Counts'
<1> SUFFICES ASSUME IInv, Counts, [Next]_vars PROVE Counts'
  OBVIOUS
<1>1. CASE UNCHANGED vars
  <2>1. Holding' = Holding
    BY <1>1 DEF vars, Holding
  <2> QED
    BY <1>1, <2>1 DEF vars, Counts
<1>2. ASSUME NEW w \in Work, NEW c \in Origin, Call(w, None, c, FALSE)
      PROVE  Counts'
  BY <1>2, OriginAssumption, CallCounts
<1>3. ASSUME NEW w \in Work, NEW p \in Work, NEW await \in BOOLEAN, Call(w, p, context[p], await)
      PROVE  Counts'
  <2>1. context[p] \in Context \cup {None}
    BY DEF IInv, Shapes
  <2> QED
    BY <1>3, <2>1, CallCounts
<1> QED
  BY <1>1, <1>2, <1>3, BeginCounts, ReleaseCounts, BeginFailsCounts, EndCounts, IssueCounts,
     ExecuteCounts, CrashCounts DEF Next, Step

LEMMA Counted == Spec => []Counts
  BY InitInv, NextInv, InitCounts, NextCounts, PTL DEF Spec

\* A transaction has one connection from its beginning to its end, and gives it back however
\* it ends, for every number of works and connections (transaction.service.ts,
\* runInTransaction; the pool behind defaultManager.transaction).
THEOREM ConnectionsAreReturned == Spec => []TypeOK
<1>1. IInv /\ Counts => TypeOK
  <2> SUFFICES ASSUME IInv, Counts PROVE TypeOK
    OBVIOUS
  <2>1. pool \in 0..PoolSize
    BY HoldingIsFinite, BoundsAssumption DEF Counts
  <2> QED
    BY <2>1 DEF IInv, Shapes, Counts, TypeOK
<1> QED
  BY <1>1, Invariance, Counted, PTL

-----------------------------------------------------------------------------
(* The work at the top.                                                    *)

LEMMA LeastWork ==
  ASSUME NEW T \in SUBSET Nat, T # {}
  PROVE  \E x \in T : \A y \in T : x <= y
<1> DEFINE R == OpToRel(<, Nat)
<1>1. IsWellFoundedOn(R, Nat)
  BY NatLessThanWellFounded
<1> HIDE DEF R
<1>2. PICK x \in T : \A y \in T : <<y, x>> \notin R
  BY <1>1, WFMin
<1>3. \A y \in T : y < x => <<y, x>> \in R
  BY DEF OpToRel, R
<1>4. \A y \in T : ~(y < x)
  BY Zenon, <1>2, <1>3
<1> QED
  BY <1>4

\* A work is called by an earlier one of its context.
Callers ==
  \A v \in Work : caller[v] # None =>
    /\ caller[v] \in Work /\ caller[v] < v
    /\ context[caller[v]] = context[v]
    /\ state[caller[v]] # "new" /\ state[v] # "new"

\* There is a work at the top, because the callers of a work get ever earlier.
LEMMA TopExists ==
  ASSUME Callers
  PROVE  \E f : f = [v \in Work |-> IF caller[v] = None THEN v ELSE f[caller[v]]]
<1> DEFINE P(n) == \E f : f = [v \in 1..n |-> IF caller[v] = None THEN v ELSE f[caller[v]]]
<1>1. P(0)
  <2> DEFINE f == [v \in 1..0 |-> v]
  <2>1. f = [v \in 1..0 |-> IF caller[v] = None THEN v ELSE f[caller[v]]]
    OBVIOUS
  <2> HIDE DEF f
  <2> QED
    BY <2>1
<1>2. ASSUME NEW n \in Nat, n < MaxWorks, P(n) PROVE P(n + 1)
  <2>1. PICK f : f = [v \in 1..n |-> IF caller[v] = None THEN v ELSE f[caller[v]]]
    BY <1>2
  <2> DEFINE m == n + 1
             g == [v \in 1..m |-> IF caller[v] = None THEN v ELSE f[caller[v]]]
             h == [v \in 1..m |-> IF caller[v] = None THEN v ELSE g[caller[v]]]
  <2>2. \A v \in 1..n : g[v] = f[v]
    BY <2>1
  <2>3. \A v \in 1..m : caller[v] # None => caller[v] \in 1..n
    BY <1>2, BoundsAssumption DEF Callers, Work
  <2>4. \A v \in 1..m : g[v] = h[v]
    BY <2>2, <2>3
  <2>5. g = [v \in 1..m |-> g[v]] /\ h = [v \in 1..m |-> h[v]]
    OBVIOUS
  <2> HIDE DEF g, h
  <2>6. g = h
    BY <2>4, <2>5
  <2> QED
    BY <2>6 DEF h
<1> HIDE DEF P
<1>3. \A n \in 0..MaxWorks : P(n)
  <2> DEFINE T == {n \in 0..MaxWorks : ~P(n)}
  <2> SUFFICES ASSUME T # {} PROVE FALSE
    OBVIOUS
  <2>1. T \subseteq Nat
    BY BoundsAssumption
  <2>2. PICK n \in T : \A k \in T : n <= k
    BY <2>1, LeastWork
  <2>3. n # 0
    BY <1>1, <2>2
  <2>4. n - 1 \in 0..MaxWorks /\ n - 1 < MaxWorks /\ n - 1 \notin T /\ n - 1 \in Nat
    BY <2>2, <2>3, BoundsAssumption
  <2>5. P((n - 1) + 1)
    BY <1>2, <2>4
  <2> QED
    BY <2>2, <2>5
<1>4. P(MaxWorks)
  BY <1>3, BoundsAssumption
<1> QED
  BY <1>4 DEF P, Work

TopOfCaller == top = [v \in Work |-> IF caller[v] = None THEN v ELSE top[caller[v]]]

LEMMA TopIs == Callers => TopOfCaller
  BY TopExists DEF TopOfCaller, top

\* The work at the top was called by none, in the same context.
Under(v) ==
  /\ top[v] \in Work
  /\ caller[top[v]] = None
  /\ context[top[v]] = context[v]
  /\ state[v] # "new" => state[top[v]] # "new"

LEMMA AllUnder == Callers => \A v \in Work : Under(v)
<1> SUFFICES ASSUME Callers PROVE \A v \in Work : Under(v)
  OBVIOUS
<1> DEFINE T == {v \in Work : ~Under(v)}
<1> SUFFICES ASSUME T # {} PROVE FALSE
  OBVIOUS
<1>1. T \subseteq Nat
  BY BoundsAssumption DEF Work
<1>2. PICK v \in T : \A u \in T : v <= u
  BY <1>1, LeastWork
<1>3. top[v] = IF caller[v] = None THEN v ELSE top[caller[v]]
  BY <1>2, TopIs DEF TopOfCaller
<1>4. CASE caller[v] = None
  BY <1>2, <1>3, <1>4 DEF Under
<1>5. CASE caller[v] # None
  <2> DEFINE p == caller[v]
  <2>1. p \in Work /\ p < v /\ context[p] = context[v] /\ state[p] # "new" /\ top[v] = top[p]
    BY <1>2, <1>3, <1>5 DEF Callers
  <2>2. p \notin T
    BY <1>1, <1>2, <2>1 DEF Work
  <2>3. Under(p)
    BY <2>1, <2>2
  <2> HIDE DEF p
  <2> QED
    BY <1>2, <2>1, <2>3 DEF Under
<1> QED
  BY <1>4, <1>5

-----------------------------------------------------------------------------
(* Units of work.                                                          *)

Apart == Context \ mixed

\* In a context of its own, a work that begins a transaction is at the top, and the works
\* it calls join it and are over before it ends.
Units ==
  \A v \in Work : context[v] \in Apart /\ state[v] \in Busy =>
    /\ caller[v] = None => state[v] # "joined"
    /\ caller[v] # None => state[v] = "joined" /\ state[caller[v]] \in Running

\* There is one work at the top at a time, ...
Alone ==
  \A v, w \in Work :
    /\ context[v] \in Apart /\ context[w] = context[v]
    /\ state[v] \in Busy /\ state[w] \in Busy
    /\ caller[v] = None /\ caller[w] = None
    => v = w

\* ... it has the key while it is open, ...
KeysHeld == \A v \in Work : context[v] \in Apart /\ state[v] = "open" => key[context[v]] = v

\* ... and every statement of the unit is issued on its transaction.
StatementsInUnit ==
  \A v \in Work : context[v] \in Apart /\ using[v].at = "issued" =>
    state[v] \in Running /\ using[v].tx = top[v]

UnitInv == Callers /\ Units /\ Alone /\ KeysHeld /\ StatementsInUnit

\* While a work of a unit runs, so does the work at the top, in an open transaction.
LEMMA RunningIsOpen ==
  UnitInv => \A v \in Work : context[v] \in Apart /\ state[v] \in Running => state[top[v]] = "open"
<1> SUFFICES ASSUME UnitInv
             PROVE  \A v \in Work : context[v] \in Apart /\ state[v] \in Running => state[top[v]] = "open"
  OBVIOUS
<1> DEFINE Bad(v) == context[v] \in Apart /\ state[v] \in Running /\ state[top[v]] # "open"
           T == {v \in Work : Bad(v)}
<1> SUFFICES ASSUME T # {} PROVE FALSE
  OBVIOUS
<1>1. T \subseteq Nat
  BY BoundsAssumption DEF Work
<1> HIDE DEF Bad
<1>2. PICK v \in T : \A u \in T : v <= u
  BY <1>1, LeastWork
<1>3. v \in Work /\ context[v] \in Apart /\ state[v] \in Running /\ state[top[v]] # "open"
  BY <1>2 DEF Bad
<1>4. top[v] = IF caller[v] = None THEN v ELSE top[caller[v]]
  BY <1>3, TopIs DEF TopOfCaller, UnitInv
<1>5. state[v] \in Busy
  BY <1>3 DEF Busy
<1>6. CASE caller[v] = None
  BY <1>3, <1>4, <1>5, <1>6 DEF UnitInv, Units, Running
<1>7. CASE caller[v] # None
  <2> DEFINE p == caller[v]
  <2>1. p \in Work /\ p < v /\ context[p] = context[v] /\ top[v] = top[p]
    BY <1>3, <1>4, <1>7 DEF UnitInv, Callers
  <2>2. state[p] \in Running
    BY <1>3, <1>5, <1>7 DEF UnitInv, Units
  <2> HIDE DEF p
  <2>3. p \notin T
    BY <1>1, <1>2, <2>1, <1>3 DEF Work
  <2>4. ~Bad(p)
    BY <2>1, <2>3
  <2> QED
    BY <1>3, <2>1, <2>2, <2>4 DEF Bad
<1> QED
  BY <1>6, <1>7

\* So nothing is under way in a context in which no work at the top is.
LEMMA QuietContext ==
  ASSUME IInv, UnitInv, NEW c \in Apart, ~Taken(c), NEW v \in Work, context[v] = c
  PROVE  state[v] \notin Busy
<1> SUFFICES ASSUME state[v] \in Busy PROVE FALSE
  OBVIOUS
<1>1. caller[v] # None
  BY DEF Taken
<1>2. state[v] \in Running
  BY <1>1 DEF UnitInv, Units, Running
<1>3. state[top[v]] = "open"
  BY <1>2, RunningIsOpen
<1>4. top[v] \in Work /\ caller[top[v]] = None /\ context[top[v]] = c
  BY AllUnder DEF UnitInv, Under
<1> QED
  BY <1>3, <1>4 DEF Taken, Busy, Running

\* The transaction of a unit is where every work of it finds it.
LEMMA FoundIsTop ==
  ASSUME IInv, UnitInv, NEW w \in Work, state[w] \in Running, context[w] \in Apart
  PROVE  Found(context[w]) = top[w] /\ top[w] \in Work /\ top[w] # None
<1>1. state[top[w]] = "open"
  BY RunningIsOpen
<1>2. top[w] \in Work /\ context[top[w]] = context[w]
  BY AllUnder DEF UnitInv, Under
<1>3. key[context[w]] = top[w]
  BY <1>1, <1>2 DEF UnitInv, KeysHeld
<1>4. context[w] # None
  BY NoneAssumption DEF Apart
<1> QED
  BY <1>2, <1>3, <1>4, NoneAssumption DEF Found

\* Two works at the top of a context are not both open.
LEMMA OneOpen ==
  ASSUME UnitInv, NEW v \in Work, NEW w \in Work, context[v] \in Apart, context[w] = context[v],
         state[v] = "open", state[w] \in Busy \ {"joined"}
  PROVE  v = w
<1>1. state[v] \in Busy /\ state[w] \in Busy
  BY DEF Busy, Running
<1>2. caller[v] = None /\ caller[w] = None
  BY <1>1 DEF UnitInv, Units
<1> QED
  BY <1>1, <1>2 DEF UnitInv, Alone

-----------------------------------------------------------------------------
\* A call gives a work its caller once and for all.
LEMMA CallCallers ==
  ASSUME IInv, Counts, Callers, NEW w \in Work, NEW p \in Work \cup {None}, NEW c \in Context \cup {None},
         NEW await, Call(w, p, c, await)
  PROVE  /\ state[w] = "new" /\ Callers'
         /\ \A v \in Work \ {w} : top'[v] = top[v]
         /\ top'[w] = IF p = None THEN w ELSE top[p]
<1>1. \A v \in Work : v < w => state[v] # "new"
  BY BoundsAssumption DEF Call, Work
<1>2. state[w] = "new"
  <2>1. w \in w..MaxWorks
    BY BoundsAssumption DEF Work
  <2> QED
    BY <2>1 DEF Call
<1>3. p # None => p \in Work /\ state[p] # "new" /\ context[p] = c /\ p # w
  BY <1>2 DEF Call, Running
<1>4. p # None => p < w
  <2> SUFFICES ASSUME p # None, p > w PROVE FALSE
    BY <1>3, BoundsAssumption DEF Work
  <2>1. p \in w..MaxWorks
    BY <1>3, BoundsAssumption DEF Work
  <2> QED
    BY <1>3, <2>1 DEF Call
<1>5. /\ caller' = [caller EXCEPT ![w] = p] /\ context' = [context EXCEPT ![w] = c]
      /\ caller'[w] = p /\ \A v \in Work \ {w} : caller'[v] = caller[v]
      /\ \E s \in {"joined", "beginning"} : state' = [state EXCEPT ![w] = s]
  BY DEF Call, Become, Counts
<1>6. Callers'
  <2>1. \A v \in Work : state[v] # "new" => state'[v] # "new" /\ v # w
    BY <1>2, <1>5 DEF IInv, Shapes
  <2>2. state'[w] # "new"
    BY <1>5 DEF IInv, Shapes
  <2>3. \A v \in Work \ {w} : context'[v] = context[v]
    BY <1>5 DEF IInv, Shapes
  <2>4. context'[w] = c
    BY <1>5 DEF IInv, Shapes
  <2>5. ASSUME NEW v \in Work, caller'[v] # None, v # w
        PROVE  /\ caller'[v] \in Work /\ caller'[v] < v
               /\ context'[caller'[v]] = context'[v]
               /\ state'[caller'[v]] # "new" /\ state'[v] # "new"
    <3>1. caller'[v] = caller[v]
      BY <1>5, <2>5
    <3> QED
      BY <2>1, <2>3, <2>5, <3>1 DEF Callers
  <2>6. caller'[w] = p
    BY <1>5
  <2> QED
    BY <1>3, <1>4, <2>1, <2>2, <2>3, <2>4, <2>5, <2>6 DEF Callers
<1>7. TopOfCaller'
  BY <1>6, TopIs, PTL
<1> PICK f : f = top'
  OBVIOUS
<1>8. f = [v \in Work |-> IF caller'[v] = None THEN v ELSE f[caller'[v]]]
  BY <1>7 DEF TopOfCaller
<1>9. \A v \in Work \ {w} : f[v] = top[v]
  <2> DEFINE T == {v \in Work \ {w} : f[v] # top[v]}
  <2> SUFFICES ASSUME T # {} PROVE FALSE
    OBVIOUS
  <2>1. T \subseteq Nat
    BY BoundsAssumption DEF Work
  <2>2. PICK v \in T : \A u \in T : v <= u
    BY <2>1, LeastWork
  <2>3. f[v] = IF caller[v] = None THEN v ELSE f[caller[v]]
    BY <1>5, <1>8, <2>2
  <2>4. top[v] = IF caller[v] = None THEN v ELSE top[caller[v]]
    BY <2>2, TopIs DEF TopOfCaller
  <2>5. caller[v] # None => caller[v] \in Work \ {w} /\ caller[v] < v
    BY <1>2, <2>2 DEF Callers
  <2>6. caller[v] # None => caller[v] \notin T
    BY <2>1, <2>2, <2>5 DEF Work
  <2> QED
    BY <2>2, <2>3, <2>4, <2>5, <2>6
<1>10. f[w] = IF p = None THEN w ELSE top[p]
  BY <1>3, <1>5, <1>8, <1>9
<1> QED
  BY <1>2, <1>6, <1>9, <1>10

LEMMA InitUnits == Init => UnitInv
<1> SUFFICES ASSUME Init PROVE UnitInv
  OBVIOUS
<1>1. \A v \in Work : state[v] \notin Busy /\ caller[v] = None /\ using[v].at # "issued"
  BY DEF Init, Busy, Running, Idle
<1> QED
  BY <1>1 DEF UnitInv, Callers, Units, Alone, KeysHeld, StatementsInUnit, Busy, Running

LEMMA CallUnits ==
  ASSUME IInv, Counts, UnitInv, NEW w \in Work, NEW p \in Work \cup {None}, NEW c \in Context \cup {None},
         NEW await, Call(w, p, c, await)
  PROVE  UnitInv'
<1>1. /\ state[w] = "new" /\ Callers'
      /\ \A v \in Work \ {w} : top'[v] = top[v]
  BY CallCallers DEF UnitInv
<1>2. /\ \A v \in Work \ {w} : caller'[v] = caller[v] /\ context'[v] = context[v] /\ state'[v] = state[v]
      /\ caller'[w] = p /\ context'[w] = c
      /\ state'[w] = IF Found(c) # None THEN "joined" ELSE "beginning"
      /\ key' = key /\ using' = using /\ mixed \subseteq mixed'
  BY DEF Call, Become, Mix, Counts, IInv, Shapes
<1>3. p # None => state[p] \in Running /\ context[p] = c /\ p # w
  BY <1>1 DEF Call, Running
<1>4. ASSUME p = None, c \in Apart'
      PROVE  c \in Apart /\ ~Taken(c)
  BY <1>4, NoneAssumption DEF Call, Mix, Apart
<1>5. Units'
  <2> SUFFICES ASSUME NEW v \in Work, context'[v] \in Apart', state'[v] \in Busy
               PROVE  /\ caller'[v] = None => state'[v] # "joined"
                      /\ caller'[v] # None => state'[v] = "joined" /\ state'[caller'[v]] \in Running
    BY DEF Units, Busy, Running
  <2>1. CASE v # w
    <3>1. context[v] \in Apart /\ state[v] \in Busy
      BY <1>2, <2>1 DEF Apart
    <3>2. caller[v] # None => caller[v] \in Work /\ caller[v] # w
      BY <1>1 DEF UnitInv, Callers
    <3> QED
      BY <1>2, <2>1, <3>1, <3>2 DEF UnitInv, Units
  <2>2. CASE v = w /\ p = None
    <3>1. c \in Apart /\ ~Taken(c)
      BY <1>2, <1>4, <2>2
    <3>2. key[c] # None => key[c] \in Work /\ state[key[c]] = "open" /\ context[key[c]] = c
      BY <3>1 DEF IInv, Shapes, KeysOwned, Apart
    <3>3. key[c] = None
      BY <3>1, <3>2, QuietContext DEF Busy, Running
    <3> QED
      BY <1>2, <2>2, <3>3 DEF Found
  <2>3. CASE v = w /\ p # None
    <3>1. context[p] \in Apart
      BY <1>2, <1>3, <2>3 DEF Apart
    <3>2. Found(c) # None
      BY <1>3, <2>3, <3>1, FoundIsTop
    <3> QED
      BY <1>2, <1>3, <2>3, <3>2
  <2> QED
    BY <2>1, <2>2, <2>3
<1>6. Alone'
  <2>1. ASSUME p = None, c \in Apart', NEW v \in Work \ {w}, context'[v] = c
        PROVE  state'[v] \notin Busy
    BY <1>2, <1>4, <2>1, QuietContext
  <2>2. Apart' \subseteq Apart
    BY <1>2 DEF Apart
  <2> QED
    BY <1>2, <2>1, <2>2 DEF UnitInv, Alone, Busy, Running
<1>7. KeysHeld'
  BY <1>2 DEF UnitInv, KeysHeld, Apart
<1>8. StatementsInUnit'
  BY <1>1, <1>2 DEF UnitInv, StatementsInUnit, Apart, IInv, StatementsOwned, Running
<1> QED
  BY <1>1, <1>5, <1>6, <1>7, <1>8 DEF UnitInv

\* The work at the top stays what it is.
LEMMA TopStays == caller' = caller => top' = top
  BY DEF top

LEMMA BeginUnits == ASSUME IInv, UnitInv, NEW w \in Work, Begin(w) PROVE UnitInv'
<1>1. /\ state[w] = "beginning" /\ state'[w] = "open"
      /\ \A v \in Work \ {w} : state'[v] = state[v]
      /\ key' = IF context[w] = None THEN key ELSE [key EXCEPT ![context[w]] = w]
      /\ UNCHANGED <<caller, context, using, mixed>>
  BY DEF Begin, Become, placed, IInv, Shapes
<1>2. top' = top /\ Apart' = Apart
  BY <1>1, TopStays DEF Apart
<1>3. Callers'
  BY <1>1 DEF UnitInv, Callers
<1>4. state[w] \in Busy /\ state[w] \notin Running /\ state'[w] \in Busy /\ state'[w] \in Running
  BY <1>1 DEF Busy, Running
<1>5. context[w] \in Apart => caller[w] = None
  BY <1>1, <1>4 DEF UnitInv, Units
<1>6. Units'
  <2> SUFFICES ASSUME NEW v \in Work, context[v] \in Apart, state'[v] \in Busy
               PROVE  /\ caller[v] = None => state'[v] # "joined"
                      /\ caller[v] # None => state'[v] = "joined" /\ state'[caller[v]] \in Running
    BY <1>1, <1>2 DEF Units, Busy, Running
  <2>1. CASE v = w
    BY <1>1, <1>5, <2>1
  <2>2. CASE v # w
    BY <1>1, <1>3, <1>4, <2>2 DEF UnitInv, Units, Callers
  <2> QED
    BY <2>1, <2>2
<1>7. Alone'
  <2>1. \A v \in Work : state'[v] \in Busy <=> state[v] \in Busy
    BY <1>1, <1>4
  <2> QED
    BY <1>1, <1>2, <2>1 DEF UnitInv, Alone, Busy, Running
<1>8. KeysHeld'
  <2> SUFFICES ASSUME NEW v \in Work, context[v] \in Apart, state'[v] = "open"
               PROVE  key'[context[v]] = v
    BY <1>1, <1>2 DEF KeysHeld
  <2>1. context[v] \in Context /\ context[v] # None
    BY NoneAssumption DEF Apart
  <2>2. CASE v = w
    BY <1>1, <2>1, <2>2 DEF IInv, Shapes
  <2>3. CASE v # w
    <3>1. state[v] = "open" /\ key[context[v]] = v
      BY <1>1, <2>3 DEF UnitInv, KeysHeld
    <3>2. context[v] # context[w]
      BY <1>1, <1>4, <2>3, <3>1, OneOpen
    <3> QED
      BY <1>1, <2>1, <3>1, <3>2 DEF IInv, Shapes
  <2> QED
    BY <2>2, <2>3
<1>9. StatementsInUnit'
  BY <1>1, <1>2, <1>4 DEF UnitInv, StatementsInUnit, Running
<1> QED
  BY <1>3, <1>6, <1>7, <1>8, <1>9 DEF UnitInv

\* A work that was not running is over.
LEMMA LeaveUnits ==
  ASSUME IInv, UnitInv, NEW w \in Work, state[w] \in Busy \ Running, NEW s \in Over,
         state' = [state EXCEPT ![w] = s],
         UNCHANGED <<caller, context, key, using, mixed>>
  PROVE  UnitInv'
<1>1. /\ \A v \in Work \ {w} : state'[v] = state[v]
      /\ state'[w] \notin Busy /\ state'[w] # "new" /\ state[w] # "new"
  BY DEF IInv, Shapes, Over, Busy, Running
<1>2. top' = top /\ Apart' = Apart
  BY TopStays DEF Apart
<1>3. Callers'
  BY <1>1 DEF UnitInv, Callers
<1>4. \A v \in Work : state'[v] \in Busy => v # w /\ state'[v] = state[v]
  BY <1>1
<1>5. \A v \in Work : state[v] \in Running => v # w /\ state'[v] = state[v]
  BY <1>1
<1>6. Units'
  <2> SUFFICES ASSUME NEW v \in Work, context[v] \in Apart, state'[v] \in Busy
               PROVE  /\ caller[v] = None => state'[v] # "joined"
                      /\ caller[v] # None => state'[v] = "joined" /\ state'[caller[v]] \in Running
    BY <1>2 DEF Units, Busy, Running
  <2> QED
    BY <1>3, <1>4, <1>5 DEF UnitInv, Units, Callers
<1>7. Alone'
  BY <1>2, <1>4 DEF UnitInv, Alone, Busy, Running
<1>8. KeysHeld'
  BY <1>1, <1>2 DEF UnitInv, KeysHeld, Busy, Running
<1>9. StatementsInUnit'
  BY <1>2, <1>5 DEF UnitInv, StatementsInUnit, Running
<1> QED
  BY <1>3, <1>6, <1>7, <1>8, <1>9 DEF UnitInv

\* A work that ends while works it called are busy mixes its context.
LEMMA EndUnits == ASSUME IInv, UnitInv, NEW w \in Work, NEW ok \in BOOLEAN, End(w, ok) PROVE UnitInv'
<1>1. /\ state[w] \in Running /\ using[w].at = "idle"
      /\ \A v \in Work \ {w} : state'[v] = state[v]
      /\ state'[w] \notin Running /\ state'[w] # "new" /\ state[w] # "new"
      /\ state[w] = "joined" => state'[w] \notin Busy
      /\ key' = key \/ (state[w] = "open" /\ Forget(w, ok))
      /\ UNCHANGED <<caller, context, using>>
      /\ mixed \subseteq mixed'
  BY DEF End, Become, placed, IInv, Shapes, Busy, Running, Mix
<1>2. top' = top /\ Apart' \subseteq Apart
  BY <1>1, TopStays DEF Apart
<1>3. Callers'
  BY <1>1 DEF UnitInv, Callers
<1>4. ASSUME context[w] \in Apart'
      PROVE  AtWork(w) = {}
  BY <1>4, NoneAssumption DEF End, Mix, Apart
<1>5. \A v \in Work : state'[v] \in Busy => state[v] \in Busy
  BY <1>1 DEF Busy
<1>6. Units'
  <2> SUFFICES ASSUME NEW v \in Work, context[v] \in Apart', state'[v] \in Busy
               PROVE  /\ caller[v] = None => state'[v] # "joined"
                      /\ caller[v] # None => state'[v] = "joined" /\ state'[caller[v]] \in Running
    BY <1>1 DEF Units, Busy, Running
  <2>1. context[v] \in Apart /\ state[v] \in Busy
    BY <1>2, <1>5
  <2>2. CASE caller[v] = None
    <3>1. state[v] # "joined"
      BY <2>1, <2>2 DEF UnitInv, Units
    <3>2. CASE v = w
      BY <1>1, <2>2, <3>2 DEF Running
    <3> QED
      BY <1>1, <2>2, <3>1, <3>2
  <2>3. CASE caller[v] # None
    <3>1. state[v] = "joined" /\ state[caller[v]] \in Running /\ caller[v] \in Work
      BY <2>1, <2>3 DEF UnitInv, Units, Callers
    <3>2. v # w
      BY <1>1, <3>1
    <3>3. caller[v] # w
      <4> SUFFICES ASSUME caller[v] = w PROVE FALSE
        OBVIOUS
      <4>1. v \in AtWork(w)
        BY <2>1 DEF AtWork
      <4>2. context[w] = context[v]
        BY <2>3 DEF UnitInv, Callers
      <4> QED
        BY <1>4, <4>1, <4>2
    <3> QED
      BY <1>1, <2>3, <3>1, <3>2, <3>3
  <2> QED
    BY <2>2, <2>3
<1>7. Alone'
  <2> SUFFICES ASSUME NEW u \in Work, NEW v \in Work, context[u] \in Apart', context[v] = context[u],
                      state'[u] \in Busy, state'[v] \in Busy, caller[u] = None, caller[v] = None
               PROVE  u = v
    BY <1>1 DEF Alone, Busy, Running
  <2> QED
    BY <1>2, <1>5 DEF UnitInv, Alone
<1>8. KeysHeld'
  <2> SUFFICES ASSUME NEW v \in Work, context[v] \in Apart', state'[v] = "open"
               PROVE  key'[context[v]] = v
    BY <1>1 DEF KeysHeld
  <2>1. v # w /\ state[v] = "open" /\ context[v] \in Apart
    BY <1>1, <1>2 DEF Running
  <2>2. key[context[v]] = v
    BY <2>1 DEF UnitInv, KeysHeld
  <2>3. CASE key' = key
    BY <2>2, <2>3
  <2>4. CASE state[w] = "open" /\ Forget(w, ok)
    <3>1. context[v] # context[w]
      BY <2>1, <2>4, OneOpen DEF Busy, Running
    <3> QED
      BY <2>1, <2>2, <2>4, <3>1 DEF Forget, IInv, Shapes, Apart
  <2> QED
    BY <1>1, <2>3, <2>4
<1>9. StatementsInUnit'
  BY <1>1, <1>2 DEF UnitInv, StatementsInUnit, Running
<1> QED
  BY <1>3, <1>6, <1>7, <1>8, <1>9 DEF UnitInv

\* A statement is issued or is over: no work begins or ends.
LEMMA StatementUnits ==
  ASSUME UnitInv, UNCHANGED <<state, caller, context, key, mixed>>, StatementsInUnit'
  PROVE  UnitInv'
<1>1. Apart' = Apart
  BY DEF Apart
<1>2. Callers' /\ Units' /\ Alone' /\ KeysHeld'
  BY <1>1 DEF UnitInv, Callers, Units, Alone, KeysHeld, Busy, Running
<1> QED
  BY <1>2 DEF UnitInv

LEMMA IssueUnits == ASSUME IInv, UnitInv, NEW w \in Work, Issue(w) PROVE UnitInv'
<1>1. /\ state[w] \in Running
      /\ using' = [using EXCEPT ![w] = [at |-> "issued", tx |-> Manager(w)]]
      /\ UNCHANGED <<state, caller, context, key, mixed>>
  BY DEF Issue, placed
<1>2. top' = top /\ Apart' = Apart
  BY <1>1, TopStays DEF Apart
<1>3. context[w] \in Apart => Manager(w) = top[w]
  BY <1>1, FoundIsTop DEF Manager
<1>4. StatementsInUnit'
  BY <1>1, <1>2, <1>3 DEF UnitInv, StatementsInUnit, IInv, Shapes, Running
<1> QED
  BY <1>1, <1>4, StatementUnits

LEMMA ExecuteUnits ==
  ASSUME IInv, UnitInv, NEW w \in Work, ExecuteInTransaction(w) \/ ExecuteAlone(w)
  PROVE  UnitInv'
<1>1. /\ using' = [using EXCEPT ![w] = Idle]
      /\ UNCHANGED <<state, caller, context, key, mixed>>
  BY DEF ExecuteInTransaction, ExecuteAlone, placed
<1>2. top' = top /\ Apart' = Apart
  BY <1>1, TopStays DEF Apart
<1>3. StatementsInUnit'
  BY <1>1, <1>2 DEF UnitInv, StatementsInUnit, IInv, Shapes, Idle, Running
<1> QED
  BY <1>1, <1>3, StatementUnits

LEMMA CrashUnits == ASSUME IInv, UnitInv, Crash PROVE UnitInv'
<1>1. /\ \A v \in Work : state'[v] \notin Busy /\ (state[v] # "new" => state'[v] # "new")
      /\ \A v \in Work : using'[v].at # "issued"
      /\ UNCHANGED <<caller, context, mixed>>
  BY DEF Crash, placed, Busy, Running, IInv, Shapes, Idle, Over
<1>2. Callers'
  BY <1>1 DEF UnitInv, Callers
<1> QED
  BY <1>1, <1>2 DEF UnitInv, Units, Alone, KeysHeld, StatementsInUnit, Busy, Running

LEMMA NextUnits == IInv /\ Counts /\ UnitInv /\ [Next]_vars => UnitInv'
<1> SUFFICES ASSUME IInv, Counts, UnitInv, [Next]_vars PROVE UnitInv'
  OBVIOUS
<1>1. CASE UNCHANGED vars
  <2>1. StatementsInUnit'
    BY <1>1, TopStays DEF vars, UnitInv, StatementsInUnit, Apart, Running
  <2> QED
    BY <1>1, <2>1, StatementUnits DEF vars
<1>2. ASSUME NEW w \in Work, NEW c \in Origin, Call(w, None, c, FALSE)
      PROVE  UnitInv'
  BY <1>2, OriginAssumption, CallUnits
<1>3. ASSUME NEW w \in Work, NEW p \in Work, NEW await \in BOOLEAN, Call(w, p, context[p], await)
      PROVE  UnitInv'
  <2>1. context[p] \in Context \cup {None}
    BY DEF IInv, Shapes
  <2> QED
    BY <1>3, <2>1, CallUnits
<1>4. ASSUME NEW w \in Work, Commit(w) \/ Rollback(w) \/ BeginFails(w)
      PROVE  UnitInv'
  <2>1. PICK s \in Over : state' = [state EXCEPT ![w] = s]
    BY <1>4 DEF Commit, Rollback, BeginFails, Become, Over
  <2>2. /\ state[w] \in Busy \ Running
        /\ UNCHANGED <<caller, context, key, using, mixed>>
    BY <1>4 DEF Commit, Rollback, BeginFails, Busy, Running, placed
  <2> QED
    BY <2>1, <2>2, LeaveUnits
<1> QED
  BY <1>1, <1>2, <1>3, <1>4, BeginUnits, EndUnits, IssueUnits, ExecuteUnits, CrashUnits DEF Next, Step

-----------------------------------------------------------------------------
(* What units of work leave in the database.                               *)

\* The rows of a unit are in its transaction until that ends, and in the database exactly
\* if it was committed.
RowOfUnit(r) ==
  LET t == top[r.by]
  IN  /\ state[t] # "beginning"
      /\ state[t] \in {"open", "committing", "aborting"} => r \in pending[t]
      /\ r \in db <=> state[t] = "committed"

\* Inductive: no row is written in a unit that has not begun, so that none is in the
\* database when it begins; and what a transaction holds is of its own unit.
RowsInv ==
  /\ \A r \in written : r.by \in Work /\ state[r.by] # "new"
  /\ \A r \in written : context[r.by] \in Apart => RowOfUnit(r)
  /\ \A w \in Work : context[w] \in Apart => \A r \in pending[w] : top[r.by] = w
  /\ db \subseteq written

\* A step that writes nothing and commits nothing.
LEMMA QuietRows ==
  ASSUME IInv, UnitInv, RowsInv, UNCHANGED <<caller, context, db, written>>, mixed \subseteq mixed',
         \A w \in Work : pending'[w] \subseteq pending[w],
         \A w \in Work : state'[w] \in {"new", "beginning"} => state'[w] = state[w],
         \A w \in Work : state'[w] = "committed" <=> state[w] = "committed",
         \A w \in Work : state'[w] \in {"open", "committing", "aborting"} =>
            state[w] \in {"beginning", "open", "committing", "aborting"} /\ pending'[w] = pending[w]
  PROVE  RowsInv'
<1>1. top' = top /\ Apart' \subseteq Apart
  BY TopStays DEF Apart
<1>2. ASSUME NEW r \in written, context[r.by] \in Apart'
      PROVE  RowOfUnit(r)'
  <2> DEFINE t == top[r.by]
  <2>1. r.by \in Work /\ t \in Work
    BY AllUnder DEF RowsInv, UnitInv, Under
  <2>2. /\ state[t] # "beginning"
        /\ state[t] \in {"open", "committing", "aborting"} => r \in pending[t]
        /\ r \in db <=> state[t] = "committed"
    BY <1>1, <1>2 DEF RowsInv, RowOfUnit
  <2> HIDE DEF t
  <2>3. /\ state'[t] # "beginning"
        /\ state'[t] \in {"open", "committing", "aborting"} => r \in pending'[t]
        /\ r \in db' <=> state'[t] = "committed"
    BY <2>1, <2>2
  <2> QED
    BY <1>1, <2>3 DEF RowOfUnit, t
<1>3. \A r \in written : r.by \in Work /\ state'[r.by] # "new"
  BY DEF RowsInv
<1>4. \A w \in Work : context[w] \in Apart' => \A r \in pending'[w] : top[r.by] = w
  BY <1>1 DEF RowsInv
<1> QED
  BY <1>1, <1>2, <1>3, <1>4 DEF RowsInv

LEMMA CallRows ==
  ASSUME IInv, Counts, UnitInv, RowsInv, NEW w \in Work, NEW p \in Work \cup {None},
         NEW c \in Context \cup {None}, NEW await, Call(w, p, c, await)
  PROVE  RowsInv'
<1>1. /\ state[w] = "new"
      /\ \A v \in Work \ {w} : top'[v] = top[v]
  BY CallCallers DEF UnitInv
<1>2. /\ \A v \in Work \ {w} : context'[v] = context[v] /\ state'[v] = state[v]
      /\ state'[w] # "new"
      /\ UNCHANGED <<db, pending, written>>
      /\ mixed \subseteq mixed'
  BY DEF Call, Become, Mix, IInv, Shapes
<1>3. Apart' \subseteq Apart
  BY <1>2 DEF Apart
<1>4. \A r \in written : r.by \in Work \ {w} /\ top[r.by] \in Work \ {w}
  BY <1>1, AllUnder DEF RowsInv, UnitInv, Under
<1>5. ASSUME NEW r \in written, context'[r.by] \in Apart'
      PROVE  RowOfUnit(r)'
  BY <1>1, <1>2, <1>3, <1>4, <1>5 DEF RowsInv, RowOfUnit
<1>6. ASSUME NEW v \in Work, context'[v] \in Apart', NEW r \in pending[v]
      PROVE  top'[r.by] = v
  <2>1. r.by \in Work /\ v # w /\ r.by # w
    BY <1>1 DEF IInv, Shapes, RowsOwned
  <2> QED
    BY <1>1, <1>2, <1>3, <1>6, <2>1 DEF RowsInv
<1>7. \A r \in written' : r.by \in Work /\ state'[r.by] # "new"
  BY <1>2, <1>4 DEF RowsInv
<1> QED
  BY <1>2, <1>5, <1>6, <1>7 DEF RowsInv

\* The rows of the unit get into the database together, and no others do.
LEMMA CommitRows ==
  ASSUME IInv, UnitInv, RowsInv, NEW w \in Work, Commit(w), pending[w] \subseteq written
  PROVE  RowsInv'
<1>1. /\ state[w] = "committing" /\ state'[w] = "committed"
      /\ \A v \in Work \ {w} : state'[v] = state[v] /\ pending'[v] = pending[v]
      /\ pending'[w] = {} /\ db' = db \cup pending[w]
      /\ UNCHANGED <<caller, context, written, mixed>>
  BY DEF Commit, Become, Release, placed, IInv, Shapes
<1>2. top' = top /\ Apart' = Apart
  BY <1>1, TopStays DEF Apart
<1>3. ASSUME NEW r \in written, context[r.by] \in Apart
      PROVE  RowOfUnit(r)'
  <2> DEFINE t == top[r.by]
  <2>1. r.by \in Work /\ t \in Work /\ context[t] = context[r.by]
    BY AllUnder DEF RowsInv, UnitInv, Under
  <2>2. /\ state[t] # "beginning"
        /\ state[t] \in {"open", "committing", "aborting"} => r \in pending[t]
        /\ r \in db <=> state[t] = "committed"
    BY <1>3 DEF RowsInv, RowOfUnit
  <2>3. r \in pending[w] => t = w
    BY <1>3 DEF IInv, RowsOwned, RowsInv
  <2> HIDE DEF t
  <2>4. /\ state'[t] # "beginning"
        /\ state'[t] \in {"open", "committing", "aborting"} => r \in pending'[t]
        /\ r \in db' <=> state'[t] = "committed"
    BY <1>1, <2>1, <2>2, <2>3
  <2> QED
    BY <1>2, <2>4 DEF RowOfUnit, t
<1>4. \A r \in written : r.by \in Work /\ state'[r.by] # "new"
  BY <1>1 DEF RowsInv
<1>5. \A v \in Work : context[v] \in Apart => \A r \in pending'[v] : top[r.by] = v
  BY <1>1 DEF RowsInv
<1> QED
  BY <1>1, <1>2, <1>3, <1>4, <1>5 DEF RowsInv

\* A statement of a unit writes to its transaction.
LEMMA ExecuteInTransactionRows ==
  ASSUME IInv, UnitInv, RowsInv, NEW w \in Work, ExecuteInTransaction(w)
  PROVE  RowsInv'
<1> PICK t, row : t = using[w].tx /\ row = NewRow(w)
  OBVIOUS
<1>1. /\ using[w].at = "issued" /\ t # None /\ row.by = w
      /\ UNCHANGED <<state, caller, context, db, mixed>>
  BY DEF ExecuteInTransaction, placed, NewRow
<1>2. t \in Work /\ state[w] # "new" /\ state[t] # "new" /\ context[t] = context[w]
  BY <1>1 DEF IInv, Shapes, StatementsOwned
<1>3. \/ UNCHANGED <<pending, written>>
      \/ pending' = [pending EXCEPT ![t] = @ \cup {row}] /\ written' = written \cup {row}
  BY DEF ExecuteInTransaction
<1>4. top' = top /\ Apart' = Apart
  BY <1>1, TopStays DEF Apart
<1>5. context[w] \in Apart => t = top[w] /\ state[t] = "open"
  BY <1>1, RunningIsOpen DEF UnitInv, StatementsInUnit
<1>6. CASE UNCHANGED <<pending, written>>
  <2>1. \A r \in written : context[r.by] \in Apart => RowOfUnit(r)'
    BY <1>1, <1>4, <1>6 DEF RowsInv, RowOfUnit
  <2> QED
    BY <1>1, <1>4, <1>6, <2>1 DEF RowsInv
<1>7. CASE pending' = [pending EXCEPT ![t] = @ \cup {row}] /\ written' = written \cup {row}
  <2>1. pending'[t] = pending[t] \cup {row} /\ \A v \in Work \ {t} : pending'[v] = pending[v]
    BY <1>2, <1>7 DEF IInv, Shapes
  <2>2. \A r \in written' : r.by \in Work /\ state'[r.by] # "new"
    BY <1>1, <1>2, <1>7 DEF RowsInv
  <2>3. \A v \in Work : context[v] \in Apart => \A r \in pending'[v] : top[r.by] = v
    BY <1>1, <1>2, <1>5, <2>1 DEF RowsInv
  <2>4. ASSUME NEW r \in written, context[r.by] \in Apart
        PROVE  RowOfUnit(r)'
    <3> DEFINE u == top[r.by]
    <3>1. r.by \in Work /\ u \in Work
      BY AllUnder DEF RowsInv, UnitInv, Under
    <3>2. /\ state[u] # "beginning"
          /\ state[u] \in {"open", "committing", "aborting"} => r \in pending[u]
          /\ r \in db <=> state[u] = "committed"
      BY <2>4 DEF RowsInv, RowOfUnit
    <3> HIDE DEF u
    <3>3. pending[u] \subseteq pending'[u]
      BY <2>1, <3>1
    <3>4. /\ state'[u] # "beginning"
          /\ state'[u] \in {"open", "committing", "aborting"} => r \in pending'[u]
          /\ r \in db' <=> state'[u] = "committed"
      BY <1>1, <3>2, <3>3
    <3> QED
      BY <1>4, <3>4 DEF RowOfUnit, u
  <2>5. ASSUME context[w] \in Apart, row \notin written
        PROVE  RowOfUnit(row)'
    <3>1. row \notin db
      BY <2>5 DEF RowsInv
    <3>2. top[row.by] = t /\ state[t] = "open" /\ row \in pending'[t]
      BY <1>1, <1>5, <2>1, <2>5
    <3> QED
      BY <1>1, <1>4, <3>1, <3>2 DEF RowOfUnit
  <2>6. \A r \in written' : context[r.by] \in Apart => RowOfUnit(r)'
    BY <1>1, <1>7, <2>4, <2>5
  <2> QED
    BY <1>1, <1>4, <1>7, <2>2, <2>3, <2>6 DEF RowsInv
<1> QED
  BY <1>3, <1>6, <1>7

\* A statement outside of any transaction is of no unit.
LEMMA ExecuteAloneRows ==
  ASSUME IInv, UnitInv, RowsInv, NEW w \in Work, ExecuteAlone(w)
  PROVE  RowsInv'
<1> PICK row : row = NewRow(w)
  OBVIOUS
<1>1. /\ using[w].at = "issued" /\ using[w].tx = None /\ row.by = w
      /\ db' = db \cup {row} /\ written' = written \cup {row}
      /\ UNCHANGED <<state, caller, context, pending, mixed>>
  BY DEF ExecuteAlone, placed, NewRow
<1>2. state[w] # "new"
  BY <1>1 DEF IInv, StatementsOwned
<1>3. context[w] \notin Apart
  <2>1. top[w] # None
    BY NoneAssumption, AllUnder DEF UnitInv, Under
  <2> QED
    BY <1>1, <2>1 DEF UnitInv, StatementsInUnit
<1>4. top' = top /\ Apart' = Apart
  BY <1>1, TopStays DEF Apart
<1>5. ASSUME NEW r \in written, context[r.by] \in Apart
      PROVE  RowOfUnit(r)'
  <2>1. r # row
    BY <1>1, <1>3, <1>5
  <2> QED
    BY <1>1, <1>4, <1>5, <2>1 DEF RowsInv, RowOfUnit
<1>6. \A r \in written' : r.by \in Work /\ state'[r.by] # "new"
  BY <1>1, <1>2 DEF RowsInv
<1> QED
  BY <1>1, <1>3, <1>4, <1>5, <1>6 DEF RowsInv

LEMMA CrashRows == ASSUME IInv, UnitInv, RowsInv, Crash PROVE RowsInv'
<1>1. /\ \A w \in Work : pending'[w] = {}
      /\ \A w \in Work : state'[w] \notin Busy
      /\ \A w \in Work : state'[w] = "new" => state[w] = "new"
      /\ \A w \in Work : state'[w] = "committed" <=> state[w] = "committed"
      /\ UNCHANGED <<caller, context, db, written, mixed>>
  BY DEF Crash, placed, Busy, Running, IInv, Shapes, Over
<1> QED
  BY <1>1, QuietRows DEF Busy, Running

LEMMA NextRows ==
  IInv /\ Counts /\ UnitInv /\ RowsInv /\ (\A w \in Work : pending[w] \subseteq written) /\ [Next]_vars
    => RowsInv'
<1> SUFFICES ASSUME IInv, Counts, UnitInv, RowsInv, \A w \in Work : pending[w] \subseteq written, [Next]_vars
             PROVE  RowsInv'
  OBVIOUS
<1>1. CASE UNCHANGED vars
  BY <1>1, QuietRows DEF vars
<1>2. ASSUME NEW w \in Work, NEW c \in Origin, Call(w, None, c, FALSE)
      PROVE  RowsInv'
  BY <1>2, OriginAssumption, CallRows
<1>3. ASSUME NEW w \in Work, NEW p \in Work, NEW await \in BOOLEAN, Call(w, p, context[p], await)
      PROVE  RowsInv'
  <2>1. context[p] \in Context \cup {None}
    BY DEF IInv, Shapes
  <2> QED
    BY <1>3, <2>1, CallRows
<1>4. ASSUME NEW w \in Work, Begin(w) \/ BeginFails(w) \/ Rollback(w)
      PROVE  RowsInv'
  <2>1. /\ \/ state[w] = "beginning" /\ state'[w] = "open" /\ pending' = pending
           \/ state[w] \in {"beginning", "committing", "aborting"} /\ state'[w] = "aborted"
        /\ \A v \in Work \ {w} : state'[v] = state[v] /\ pending'[v] = pending[v]
        /\ pending'[w] \subseteq pending[w]
        /\ UNCHANGED <<caller, context, db, written, mixed>>
    BY <1>4 DEF Begin, BeginFails, Rollback, Become, Release, placed, IInv, Shapes
  <2> QED
    BY <2>1, QuietRows
<1>5. ASSUME NEW w \in Work, NEW ok \in BOOLEAN, End(w, ok)
      PROVE  RowsInv'
  <2>1. /\ \/ state[w] = "joined" /\ state'[w] \in {"returned", "threw"}
           \/ state[w] = "open" /\ state'[w] \in {"committing", "aborting"}
        /\ \A v \in Work \ {w} : state'[v] = state[v]
        /\ UNCHANGED <<caller, context, pending, db, written>>
        /\ mixed \subseteq mixed'
    BY <1>5 DEF End, Become, Mix, placed, IInv, Shapes
  <2> QED
    BY <2>1, QuietRows
<1>6. ASSUME NEW w \in Work, Issue(w)
      PROVE  RowsInv'
  <2>1. UNCHANGED <<state, caller, context, pending, db, written, mixed>>
    BY <1>6 DEF Issue, placed
  <2> QED
    BY <2>1, QuietRows
<1> QED
  BY <1>1, <1>2, <1>3, <1>4, <1>5, <1>6, CommitRows, ExecuteInTransactionRows, ExecuteAloneRows, CrashRows
     DEF Next, Step

\* The database has accepted every row a transaction holds.
HeldIsWritten == \A w \in Work : pending[w] \subseteq written

LEMMA NextHeld == IInv /\ HeldIsWritten /\ [Next]_vars => HeldIsWritten'
<1> SUFFICES ASSUME IInv, HeldIsWritten, [Next]_vars PROVE HeldIsWritten'
  OBVIOUS
<1>1. CASE UNCHANGED <<pending, written>>
  BY <1>1 DEF HeldIsWritten
<1>2. ASSUME NEW w \in Work, Commit(w) \/ Rollback(w)
      PROVE  HeldIsWritten'
  BY <1>2 DEF Commit, Rollback, Release, HeldIsWritten, IInv, Shapes
<1>3. ASSUME NEW w \in Work, ExecuteInTransaction(w)
      PROVE  HeldIsWritten'
  <2> PICK t, row : t = using[w].tx /\ row = NewRow(w)
    OBVIOUS
  <2>1. \/ UNCHANGED <<pending, written>>
        \/ pending' = [pending EXCEPT ![t] = @ \cup {row}] /\ written' = written \cup {row}
    BY <1>3 DEF ExecuteInTransaction
  <2> QED
    BY <1>1, <2>1 DEF HeldIsWritten, IInv, Shapes
<1>4. ASSUME NEW w \in Work, ExecuteAlone(w)
      PROVE  HeldIsWritten'
  BY <1>4 DEF ExecuteAlone, HeldIsWritten
<1>5. CASE Crash
  BY <1>5 DEF Crash, HeldIsWritten
<1> QED
  BY <1>1, <1>2, <1>3, <1>4, <1>5
     DEF Next, Step, vars, Call, Begin, BeginFails, End, Issue, placed

\* In a context whose works await one another a unit of work is all or nothing, for every
\* number of works, however deep they are nested, of contexts, connections and rows, and
\* at whatever point a statement, a commit or the process fails (transaction.service.ts,
\* runInTransaction and getManager).
THEOREM UnitsAreAllOrNothing == Spec => []AllOrNothing
<1>1. Init => UnitInv /\ RowsInv /\ HeldIsWritten
  BY InitUnits DEF Init, RowsInv, HeldIsWritten
<1>2. IInv /\ Counts /\ UnitInv /\ RowsInv /\ HeldIsWritten /\ [Next]_vars
        => UnitInv' /\ RowsInv' /\ HeldIsWritten'
  BY NextUnits, NextRows, NextHeld DEF HeldIsWritten
<1>3. UnitInv /\ RowsInv => AllOrNothing
  <2> SUFFICES ASSUME UnitInv, RowsInv, NEW w \in Work, context[w] \in Apart,
                      NEW r \in written, r.by \in Tree(w)
               PROVE  r \in db <=> state[w] = "committed"
    BY DEF AllOrNothing, RowsOf, Apart
  <2>1. top[r.by] = w /\ r.by \in Work
    BY DEF Tree
  <2>2. context[r.by] = context[w]
    BY <2>1, AllUnder DEF UnitInv, Under
  <2> QED
    BY <2>1, <2>2 DEF RowsInv, RowOfUnit
<1> QED
  BY <1>1, <1>2, <1>3, Invariance, Counted, PTL DEF Spec
=============================================================================
