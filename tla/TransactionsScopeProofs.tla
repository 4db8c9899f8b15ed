---------------------- MODULE TransactionsScopeProofs -----------------------
(***************************************************************************)
(* The inductive invariant of Transactions, and that the steps of guarded  *)
(* operations and of their atomic scopes preserve it.                      *)
(*                                                                         *)
(* FailedOperationsLeaveNothing is not inductive.  What carries it is the  *)
(* argument the driver relies on: whoever is inside a scope holds the      *)
(* lock; an unfinished operation has nothing durable; what a failed        *)
(* operation left in the open transaction is covered by the rollback-only  *)
(* mark or by the server's aborted state; and the mark is read, and its    *)
(* reason removed, only by the lock holder.                                *)
(***************************************************************************)
EXTENDS Transactions, TLAPS

Holding  == {"target", "parts", "move", "finish", "script"}
InScope  == {"target", "parts", "move", "finish"}
OwnWrites(t) == {op[t].id} \X Parts
Left(i)  == result[i] = "err" /\ i \notin partialOk

\* The lock is held exactly while a thread is inside an operation.
LockInv == \A t \in Threads : pc[t] \in Holding <=> lock = t

\* Operations in progress have an identity of their own, and every write has
\* an operation that was started.
IdentityInv ==
    /\ \A t \in Threads : pc[t] # "idle" => op[t].id \in 1..issued
    /\ \A t \in Threads : pc[t] \notin {"idle", "drop"} => result[op[t].id] = "running"
    /\ \A t, u \in Threads :
         t # u /\ pc[t] # "idle" /\ pc[u] # "idle" => op[t].id # op[u].id
    /\ \A w \in txn \cup durable \cup keep : w[1] \in 1..issued
    /\ \A i \in Ids : i > issued => result[i] = "none" /\ executed[i] = {}

\* A closed session and an autocommit session have no open transaction.
SessionInv ==
    /\ ~alive => txn = {} /\ keep = {} /\ ~saved
    /\ autocommit => txn = {} /\ keep = {}
    /\ ~saved => keep = {}
    /\ lock = Free => ~saved

\* An atomic operation that waits has written nothing.
WaitingInv ==
    \A t \in Threads : pc[t] = "guarded" =>
        /\ op[t].scope = "none" /\ op[t].part = 0 /\ executed[op[t].id] = {}
        /\ OwnWrites(t) \cap (txn \cup durable \cup keep) = {}
        /\ op[t].path = "batch" <=> op[t].plan.route = "batch"

\* An atomic operation in its scope: nothing of it is durable, the savepoint
\* precedes it, and an autocommit scope holds its writes alone.
ScopeInv ==
    \A t \in Threads : pc[t] \in InScope =>
        /\ ~autocommit
        /\ op[t].path \in {"ingest", "batch"}
        /\ op[t].path = "batch" <=> op[t].plan.route = "batch"
        /\ op[t].scope \in {"autocommit", "caller", "savepoint"}
        /\ OwnWrites(t) \cap (durable \cup keep) = {}
        /\ ~op[t].started => OwnWrites(t) \cap txn = {}
        /\ op[t].scope = "autocommit" => txn \subseteq OwnWrites(t)
        /\ op[t].scope = "autocommit" /\ alive => WritesOf(op[t].id) \subseteq txn
        /\ saved => op[t].scope = "savepoint"

\* A script that contains COMMIT runs unmarked; a script that has executed
\* ROLLBACK has only its own writes in the transaction.
ScriptInv ==
    \A t \in Threads : pc[t] = "script" =>
        /\ ~saved
        /\ op[t].part <= Len(query[t])
        /\ HasCommit(query[t]) => ~poison
        /\ \A r \in 1..op[t].part : query[t][r] = "rollback" => txn \subseteq OwnWrites(t)

\* Leftovers of failed operations are covered, before and inside a savepoint.
LeftoverInv ==
    /\ \A w \in txn : Left(w[1]) => aborted \/ poison
    /\ \A w \in keep : Left(w[1]) => poison

IInv ==
    /\ TypeOK /\ LockInv /\ IdentityInv /\ SessionInv /\ WaitingInv /\ ScopeInv
    /\ ScriptInv /\ LeftoverInv /\ FailedOperationsLeaveNothing

\* The operations behind a set of writes.
LEMMA OwnersType ==
    ASSUME NEW ws \in SUBSET Writes
    PROVE  Owners(ws) \subseteq Ids
BY DEF Owners, Writes

\* Updating the fields of an operation keeps it an operation.
LEMMA OperationUpdate ==
    ASSUME NEW o \in Operations
    PROVE  /\ \A k \in Parts : [o EXCEPT !.part = k] \in Operations
           /\ \A s \in {"none", "autocommit", "caller", "savepoint"}, b \in BOOLEAN :
                [o EXCEPT !.scope = s, !.started = b] \in Operations
           /\ \A f \in {"no", "client", "sql", "missing", "dead"} :
                [o EXCEPT !.failed = f] \in Operations
           /\ \A b \in BOOLEAN : [o EXCEPT !.started = b] \in Operations
BY ZenonT(30) DEF Operations

\* A guarded call starts as an operation.
LEMMA NewOperationType ==
    ASSUME TypeOK, issued < MaxOps, NEW t \in Threads,
           NEW p \in AllPlans \cup {NoPlan},
           NEW path \in {"ingest", "batch", "update", "query"}
    PROVE  NewOperation(issued + 1, p, path, modified, MayModify(query[t]), FALSE)
             \in Operations
<1>1. MayModify(query[t]) \in BOOLEAN
  BY DEF MayModify
<1>2. issued + 1 \in 0..MaxOps
  BY BoundsAssumption DEF TypeOK, HistoryType
<1>3. modified \in BOOLEAN
  BY DEF TypeOK, DriverType
<1>. QED  BY <1>1, <1>2, <1>3, BoundsAssumption DEF Operations, Parts, NewOperation

\* begin_atomic records one of its scopes.
LEMMA OpenScopeType ==
    ASSUME TypeOK, NEW t \in Threads
    PROVE  [op[t] EXCEPT !.scope = ScopeOf(op[t]), !.started = ~op[t].plan.append]
             \in Operations
<1>1. op[t] \in Operations
  BY DEF TypeOK
<1>2. ScopeOf(op[t]) \in {"none", "autocommit", "caller", "savepoint"}
  BY DEF ScopeOf
<1>3. (~op[t].plan.append) \in BOOLEAN
  OBVIOUS
<1>. QED  BY <1>1, <1>2, <1>3, OperationUpdate, ZenonT(30)

\* A batch that runs again keeps its identity.
LEMMA RestartedOperation ==
    ASSUME NEW o \in Operations
    PROVE  /\ Restarted(o) \in Operations
           /\ Restarted(o).id = o.id /\ Restarted(o).plan = o.plan
           /\ Restarted(o).path = o.path
           /\ Restarted(o).scope = "none" /\ Restarted(o).part = 0
BY BoundsAssumption DEF Operations, Parts, NewOperation, Restarted

\* A running script is at a statement within the bound.
LEMMA ScriptPart ==
    ASSUME IInv, NEW t \in Threads, pc[t] = "script", op[t].part < Len(query[t])
    PROVE  op[t].part + 1 \in Parts
<1>1. op[t].part \in Nat /\ query[t] \in Scripts \cup {<<>>}
  BY BoundsAssumption DEF IInv, TypeOK, DriverType, Operations, Parts, NoQuery
<1>2. query[t] \in Scripts
  BY <1>1
<1>3. Len(query[t]) \in Nat /\ Len(query[t]) <= MaxParts
  BY <1>2, ScriptsAssumption
<1>. QED  BY <1>1, <1>3, BoundsAssumption DEF Parts

-----------------------------------------------------------------------------
(* The steps that give the connection back change the same parts of the     *)
(* invariant in the same way; these lemmas are about those parts alone.     *)

\* An operation that returns leaves nobody inside an operation, and the
\* operations of the other threads as they were.
LEMMA ReturnFrame ==
    ASSUME pc \in [Threads -> Labels], issued \in 0..MaxOps,
           result \in [Ids -> {"none", "running", "ok", "done", "err", "lost", "failed"}],
           LockInv, IdentityInv, WaitingInv,
           NEW t \in Threads, pc[t] \notin {"idle", "drop"}, lock \in {t, Free},
           NEW r, Return(t, r), UNCHANGED <<issued, executed>>,
           txn' \cup durable' \cup keep' \subseteq txn \cup durable \cup keep
    PROVE  LockInv' /\ IdentityInv' /\ WaitingInv' /\ ScopeInv' /\ ScriptInv'
<1>1. pc'[t] = "drop" /\ op' = op /\ \A u \in Threads : u # t => pc'[u] = pc[u]
  BY DEF Return
<1>2. \A u \in Threads : pc'[u] \notin Holding
  BY <1>1, ThreadsAssumption DEF LockInv, Holding, Free
<1>3. LockInv'
  BY <1>2, ThreadsAssumption DEF LockInv, Return, Free
<1>4. ScopeInv' /\ ScriptInv'
  BY <1>2 DEF ScopeInv, ScriptInv, Holding, InScope
<1>5. op[t].id \in 1..issued /\ 1..issued \subseteq Ids
  BY BoundsAssumption DEF IdentityInv, Ids
<1>6. \A i \in Ids : i # op[t].id => result'[i] = result[i]
  BY DEF Return
<1>7. IdentityInv'
  <2>1. \A u \in Threads : pc'[u] \notin {"idle", "drop"} => result'[op'[u].id] = "running"
    BY <1>1, <1>5, <1>6 DEF IdentityInv
  <2>2. \A i \in Ids : i > issued => result'[i] = "none" /\ executed[i] = {}
    BY <1>5, <1>6 DEF IdentityInv, Ids
  <2>. QED  BY <1>1, <2>1, <2>2 DEF IdentityInv
<1>8. WaitingInv'
  BY <1>1 DEF WaitingInv, OwnWrites
<1>. QED  BY <1>3, <1>4, <1>7, <1>8

\* How a recovered scope ends: the error is returned, or the batch waits again
\* as operation o.
Ends(t) == Return(t, "err") /\ UNCHANGED executed
WaitsAgain(t, o) ==
    /\ o.id = op[t].id /\ o.plan = op[t].plan /\ o.path = op[t].path
    /\ o.scope = "none" /\ o.part = 0
    /\ pc' = [pc EXCEPT ![t] = "guarded"]
    /\ op' = [op EXCEPT ![t] = o]
    /\ executed' = [executed EXCEPT ![op[t].id] = {}]
    /\ lock' = Free /\ UNCHANGED result

\* The same for a batch that waits again: it has the identity it had, and none
\* of its writes is left.
LEMMA WaitsFrame ==
    ASSUME pc \in [Threads -> Labels], op \in [Threads -> Operations],
           issued \in 0..MaxOps, executed \in [Ids -> SUBSET Parts],
           LockInv, IdentityInv, WaitingInv, ScopeInv,
           NEW t \in Threads, pc[t] = "finish", NEW o, WaitsAgain(t, o), UNCHANGED issued,
           txn' \cup durable' \cup keep' \subseteq txn \cup durable \cup keep,
           OwnWrites(t) \cap (txn' \cup durable' \cup keep') = {}
    PROVE  LockInv' /\ IdentityInv' /\ WaitingInv' /\ ScopeInv' /\ ScriptInv'
<1>1. /\ pc'[t] = "guarded" /\ op'[t] = o
      /\ \A u \in Threads : u # t => pc'[u] = pc[u] /\ op'[u] = op[u]
  BY DEF WaitsAgain
<1>2. \A u \in Threads : pc'[u] \notin Holding
  BY <1>1 DEF LockInv, Holding
<1>3. LockInv'
  BY <1>2, ThreadsAssumption DEF LockInv, WaitsAgain, Free
<1>4. ScopeInv' /\ ScriptInv'
  BY <1>2 DEF ScopeInv, ScriptInv, Holding, InScope
<1>5. op[t].id \in 1..issued /\ 1..issued \subseteq Ids
  BY BoundsAssumption DEF IdentityInv, Ids
<1>6. o.id = op[t].id /\ \A u \in Threads : op'[u].id = op[u].id
  BY <1>1 DEF WaitsAgain
<1>7. \A i \in Ids : executed'[i] = IF i = op[t].id THEN {} ELSE executed[i]
  BY DEF WaitsAgain
<1>8. IdentityInv'
  <2>1. \A i \in Ids : i > issued => executed'[i] = {}
    BY <1>5, <1>7 DEF IdentityInv, Ids
  <2>. QED  BY <1>1, <1>6, <2>1 DEF IdentityInv, WaitsAgain
<1>9. WaitingInv'
  <2>1. o.scope = "none" /\ o.part = 0 /\ (o.path = "batch" <=> o.plan.route = "batch")
    BY DEF ScopeInv, InScope, WaitsAgain
  <2>2. \A u \in Threads : OwnWrites(u)' = OwnWrites(u)
    BY <1>6 DEF OwnWrites
  <2>3. executed'[op'[t].id] = {}
    BY <1>5, <1>6, <1>7
  <2>4. \A u \in Threads : u # t /\ pc[u] = "guarded" => executed'[op[u].id] = executed[op[u].id]
    BY <1>5, <1>7 DEF IdentityInv
  <2>. QED  BY <1>1, <2>1, <2>2, <2>3, <2>4 DEF WaitingInv
<1>. QED  BY <1>3, <1>4, <1>8, <1>9

\* An operation that fails with nothing durable, of its own or added by the
\* step, keeps failure atomicity.
LEMMA FailedFrame ==
    ASSUME result \in [Ids -> {"none", "running", "ok", "done", "err", "lost", "failed"}],
           FailedOperationsLeaveNothing,
           NEW i \in Ids, NEW r, r # "lost", result' = [result EXCEPT ![i] = r],
           UNCHANGED <<executed, durable>>, partialOk \subseteq partialOk',
           r = "err" => durable \cap ({i} \X Parts) = {}
    PROVE  FailedOperationsLeaveNothing'
<1>1. result'[i] = r /\ \A j \in Ids : j # i => result'[j] = result[j]
  OBVIOUS
<1>. QED  BY <1>1 DEF FailedOperationsLeaveNothing, WritesOf

\* The leftovers of other operations stay covered while the step keeps the
\* mark and does not move a write; those of the operation are the caller's.
LEMMA LeftoverFrame ==
    ASSUME result \in [Ids -> {"none", "running", "ok", "done", "err", "lost", "failed"}],
           txn \subseteq Writes, keep \subseteq Writes, LeftoverInv,
           NEW i \in Ids, NEW r, result' = [result EXCEPT ![i] = r],
           partialOk \subseteq partialOk', poison => poison',
           \/ txn' \subseteq txn /\ (aborted => aborted' \/ poison')
           \/ txn' \subseteq keep,
           keep' \subseteq keep,
           Left(i)' => \A w \in txn' \cup keep' : w[1] # i
    PROVE  LeftoverInv'
<1>1. \A j \in Ids : j # i => result'[j] = result[j]
  OBVIOUS
<1>2. \A w \in txn \cup keep : w[1] \in Ids
  BY DEF Writes
<1>3. \A w \in txn \cup keep : w[1] # i /\ Left(w[1])' => Left(w[1])
  BY <1>1, <1>2 DEF Left
<1>. QED  BY <1>3 DEF LeftoverInv

-----------------------------------------------------------------------------
(* One lemma per action.                                                    *)

USE BoundsAssumption, ThreadsAssumption
    DEF IInv, TypeOK, SessionType, DriverType, HistoryType, server, driver, stmt,
        history, Ids, Parts, Writes, Free, Holding, InScope

\* set_sql_query touches the statement only.
LEMMA SetSqlQueryStep ==
    ASSUME IInv, NEW t \in Threads, NEW q \in Scripts, SetSqlQuery(t, q)
    PROVE  IInv'
<1>. USE ScriptsAssumption DEF SetSqlQuery, NoQuery
<1>1. TypeOK'
  BY DEF IdentityInv, Labels, Operations
<1>2. LockInv' /\ IdentityInv' /\ SessionInv'
  BY DEF LockInv, IdentityInv, SessionInv
<1>3. WaitingInv'
  BY SMTT(30) DEF IdentityInv, WaitingInv, OwnWrites
<1>4. ScopeInv'
  BY SMTT(30) DEF LockInv, IdentityInv, ScopeInv, OwnWrites, WritesOf
<1>5. ScriptInv'
  BY SMTT(30) DEF LockInv, IdentityInv, ScriptInv, OwnWrites
<1>6. LeftoverInv'
  BY SMTT(30) DEF IdentityInv, SessionInv, LeftoverInv, Left
<1>7. FailedOperationsLeaveNothing'
  BY SMTT(30) DEF IdentityInv, FailedOperationsLeaveNothing, WritesOf
<1>. QED  BY <1>1, <1>2, <1>3, <1>4, <1>5, <1>6, <1>7

\* Storing the target table touches the statement only.
LEMMA SetTargetTableStep ==
    ASSUME IInv, NEW t \in Threads, SetTargetTable(t)
    PROVE  IInv'
<1>. USE DEF SetTargetTable
<1>1. TypeOK'
  BY DEF IdentityInv, Labels, Operations
<1>2. LockInv' /\ IdentityInv' /\ SessionInv'
  BY DEF LockInv, IdentityInv, SessionInv
<1>3. WaitingInv'
  BY SMTT(30) DEF IdentityInv, WaitingInv, OwnWrites
<1>4. ScopeInv'
  BY SMTT(30) DEF LockInv, IdentityInv, ScopeInv, OwnWrites, WritesOf
<1>5. ScriptInv'
  BY SMTT(30) DEF LockInv, IdentityInv, ScriptInv, OwnWrites
<1>6. LeftoverInv'
  BY SMTT(30) DEF IdentityInv, SessionInv, LeftoverInv, Left
<1>7. FailedOperationsLeaveNothing'
  BY SMTT(30) DEF IdentityInv, FailedOperationsLeaveNothing, WritesOf
<1>. QED  BY <1>1, <1>2, <1>3, <1>4, <1>5, <1>6, <1>7

\* A new guarded operation has an identity nobody else has.
LEMMA TakeWriteGuardStep ==
    ASSUME IInv, NEW t \in Threads, NEW p \in AllPlans \cup {NoPlan},
           NEW path \in {"ingest", "batch", "update", "query"},
           path = "batch" <=> p.route = "batch",
           TakeWriteGuard(t, p, path)
    PROVE  IInv'
<1>. USE DEF TakeWriteGuard, NewOperation
<1>1. TypeOK'
  <2>1. NewOperation(issued + 1, p, path, modified, MayModify(query[t]), FALSE) \in Operations
    BY NewOperationType, ZenonT(30)
  <2>2. op' \in [Threads -> Operations]
    BY <2>1
  <2>3. SessionType'
    BY <2>1 DEF IdentityInv
  <2>4. DriverType'
    OBVIOUS
  <2>5. HistoryType'
    OBVIOUS
  <2>6. pc' \in [Threads -> Labels]
    BY DEF Labels
  <2>. QED  BY <2>2, <2>3, <2>4, <2>5, <2>6
<1>2. LockInv' /\ IdentityInv' /\ SessionInv'
  BY DEF LockInv, IdentityInv, SessionInv
<1>3. ScopeInv'
  BY SMTT(30) DEF LockInv, IdentityInv, ScopeInv, OwnWrites, WritesOf
<1>4. ScriptInv'
  BY SMTT(30) DEF LockInv, IdentityInv, ScriptInv, OwnWrites
<1>5. WaitingInv'
  <2>1. op'[t].scope = "none" /\ op'[t].part = 0 /\ op'[t].id = issued + 1
          /\ op'[t].path = path /\ op'[t].plan = p
    BY DEF NewOperation
  <2>2. issued + 1 \in Ids /\ executed[issued + 1] = {}
          /\ \A w \in txn \cup durable \cup keep : w[1] # issued + 1
    BY DEF IdentityInv
  <2>3. \A u \in Threads : u # t => op'[u] = op[u] /\ pc'[u] = pc[u]
    OBVIOUS
  <2>4. pc'[t] = "guarded"
    OBVIOUS
  <2>. QED  BY <2>1, <2>2, <2>3, <2>4 DEF WaitingInv, OwnWrites
<1>6. LeftoverInv'
  BY SMTT(30) DEF IdentityInv, SessionInv, LeftoverInv, Left
<1>7. FailedOperationsLeaveNothing'
  BY SMTT(30) DEF IdentityInv, FailedOperationsLeaveNothing, WritesOf
<1>. QED  BY <1>1, <1>2, <1>3, <1>4, <1>5, <1>6, <1>7

\* Dropping the write guard ends an operation that has already reported.
LEMMA DropWriteGuardStep ==
    ASSUME IInv, NEW t \in Threads, DropWriteGuard(t)
    PROVE  IInv'
<1>. USE DEF DropWriteGuard, NoOp, NewOperation
<1>1. TypeOK'
  BY DEF IdentityInv, Labels, Operations
<1>2. LockInv' /\ IdentityInv' /\ SessionInv'
  BY DEF LockInv, IdentityInv, SessionInv
<1>3. WaitingInv'
  BY SMTT(30) DEF IdentityInv, WaitingInv, OwnWrites
<1>4. ScopeInv'
  BY SMTT(30) DEF LockInv, IdentityInv, ScopeInv, OwnWrites, WritesOf
<1>5. ScriptInv'
  BY SMTT(30) DEF LockInv, IdentityInv, ScriptInv, OwnWrites
<1>6. LeftoverInv'
  BY SMTT(30) DEF IdentityInv, SessionInv, LeftoverInv, Left
<1>7. FailedOperationsLeaveNothing'
  BY SMTT(30) DEF IdentityInv, FailedOperationsLeaveNothing, WritesOf
<1>. QED  BY <1>1, <1>2, <1>3, <1>4, <1>5, <1>6, <1>7

\* An operation that is rejected before the lock has written nothing.
LEMMA RejectEarlyStep ==
    ASSUME IInv, NEW t \in Threads, RejectEarly(t)
    PROVE  IInv'
<1>. USE DEF RejectEarly
<1>1. TypeOK'
  BY DEF IdentityInv, Labels, Operations
<1>2. LockInv' /\ IdentityInv' /\ SessionInv'
  <2>1. LockInv'
    BY DEF LockInv
  <2>2. IdentityInv'
    BY DEF LockInv, IdentityInv
  <2>3. SessionInv'
    BY DEF LockInv, SessionInv
  <2>. QED  BY <2>1, <2>2, <2>3
<1>3. WaitingInv'
  BY SMTT(30) DEF IdentityInv, WaitingInv, OwnWrites
<1>4. ScopeInv'
  BY SMTT(30) DEF LockInv, IdentityInv, ScopeInv, OwnWrites, WritesOf
<1>5. ScriptInv'
  BY SMTT(30) DEF LockInv, IdentityInv, ScriptInv, OwnWrites
<1>6. LeftoverInv'
  BY SMTT(30) DEF Operations, LockInv, IdentityInv, SessionInv, WaitingInv, ScopeInv,
         ScriptInv, LeftoverInv, OwnWrites, Left
<1>7. FailedOperationsLeaveNothing'
  BY SMTT(30) DEF Operations, LockInv, IdentityInv, SessionInv, WaitingInv, ScopeInv,
         ScriptInv, LeftoverInv, FailedOperationsLeaveNothing, OwnWrites, WritesOf,
         Left, HasCommit
<1>. QED  BY <1>1, <1>2, <1>3, <1>4, <1>5, <1>6, <1>7

\* begin_atomic: the savepoint it opens precedes the operation's writes.
LEMMA OpenScopeStep ==
    ASSUME IInv, NEW t \in Threads, OpenScope(t)
    PROVE  IInv'
<1>. USE DEF OpenScope, ScopeOf, Continue
<1>1. TypeOK'
  <2>1. [op[t] EXCEPT !.scope = ScopeOf(op[t]), !.started = ~op[t].plan.append] \in Operations
    BY OpenScopeType, ZenonT(30)
  <2>2. op' \in [Threads -> Operations]
    BY <2>1
  <2>3. SessionType'
    BY <2>1, ZenonT(30) DEF IdentityInv
  <2>4. DriverType'
    OBVIOUS
  <2>5. HistoryType'
    OBVIOUS
  <2>6. pc' \in [Threads -> Labels]
    BY DEF Labels
  <2>. QED  BY <2>2, <2>3, <2>4, <2>5, <2>6
<1>2. LockInv'
  BY DEF LockInv
<1>3. IdentityInv'
  BY DEF LockInv, IdentityInv
<1>4. SessionInv'
  BY ZenonT(30) DEF LockInv, SessionInv
<1>5. WaitingInv'
  BY SMTT(30) DEF IdentityInv, WaitingInv, OwnWrites
<1>6. ScopeInv'
  BY SMTT(30) DEF Operations, LockInv, IdentityInv, SessionInv, WaitingInv, ScopeInv,
         OwnWrites, WritesOf
<1>7. ScriptInv'
  BY SMTT(30) DEF LockInv, IdentityInv, ScriptInv, OwnWrites
<1>8. LeftoverInv'
  BY SMTT(30) DEF IdentityInv, SessionInv, LeftoverInv, Left
<1>9. FailedOperationsLeaveNothing'
  BY SMTT(30) DEF IdentityInv, FailedOperationsLeaveNothing, WritesOf
<1>. QED  BY <1>1, <1>2, <1>3, <1>4, <1>5, <1>6, <1>7, <1>8, <1>9

\* A refused scope has written nothing.
LEMMA RefuseScopeStep ==
    ASSUME IInv, NEW t \in Threads, RefuseScope(t)
    PROVE  IInv'
<1>. USE DEF RefuseScope, Return
<1>1. TypeOK'
  BY DEF IdentityInv, Labels, Operations
<1>2. LockInv' /\ IdentityInv' /\ WaitingInv' /\ ScopeInv' /\ ScriptInv'
  <2>1. lock \in {t, Free}
    BY DEF LockInv
  <2>2. txn' \cup durable' \cup keep' \subseteq txn \cup durable \cup keep
    OBVIOUS
  <2>. QED  BY <2>1, <2>2, ReturnFrame, ZenonT(30)
<1>3. SessionInv'
  BY DEF LockInv, SessionInv
<1>4. LeftoverInv'
  <2>1. op[t].id \in Ids
    BY DEF IdentityInv
  <2>2. \A w \in txn \cup keep : w[1] # op[t].id
    BY DEF WaitingInv, OwnWrites
  <2>. QED  BY <2>1, <2>2, LeftoverFrame, ZenonT(30)
<1>5. FailedOperationsLeaveNothing'
  <2>1. op[t].id \in Ids
    BY DEF IdentityInv
  <2>2. durable \cap ({op[t].id} \X Parts) = {}
    BY DEF WaitingInv, OwnWrites
  <2>. QED  BY <2>1, <2>2, FailedFrame, ZenonT(30)
<1>. QED  BY <1>1, <1>2, <1>3, <1>4, <1>5

\* A failed begin_atomic leaves the caller's transaction aborted.
LEMMA OpenScopeFailsStep ==
    ASSUME IInv, NEW t \in Threads, OpenScopeFails(t)
    PROVE  IInv'
<1>. USE DEF OpenScopeFails, ServerError, Return
<1>1. TypeOK'
  BY DEF IdentityInv, Labels, Operations
<1>2. LockInv' /\ IdentityInv' /\ WaitingInv' /\ ScopeInv' /\ ScriptInv'
  <2>1. lock \in {t, Free}
    BY DEF LockInv
  <2>2. txn' \cup durable' \cup keep' \subseteq txn \cup durable \cup keep
    OBVIOUS
  <2>. QED  BY <2>1, <2>2, ReturnFrame, ZenonT(30)
<1>3. SessionInv'
  BY DEF LockInv, SessionInv
<1>4. LeftoverInv'
  <2>1. op[t].id \in Ids
    BY DEF IdentityInv
  <2>2. \A w \in txn \cup keep : w[1] # op[t].id
    BY DEF WaitingInv, OwnWrites
  <2>3. (txn' \subseteq txn /\ (aborted => aborted' \/ poison')) \/ txn' \subseteq keep
    BY DEF SessionInv
  <2>. QED  BY <2>1, <2>2, <2>3, LeftoverFrame, ZenonT(30)
<1>5. FailedOperationsLeaveNothing'
  <2>1. op[t].id \in Ids
    BY DEF IdentityInv
  <2>2. durable \cap ({op[t].id} \X Parts) = {}
    BY DEF WaitingInv, OwnWrites
  <2>. QED  BY <2>1, <2>2, FailedFrame, ZenonT(30)
<1>. QED  BY <1>1, <1>2, <1>3, <1>4, <1>5

\* What a step inside a scope does to its operation: it keeps its identity,
\* plan and scope.
Inside(t, l, o) ==
    /\ pc[t] \in InScope
    /\ o.id = op[t].id /\ o.plan = op[t].plan /\ o.path = op[t].path
    /\ o.scope = op[t].scope /\ (op[t].started => o.started)
    /\ Continue(t, l, o)
    /\ UNCHANGED <<modified, poison, stmt, issued, tracked, partialOk, callerMode>>

\* Such a step keeps the lock; the other threads and their writes are as
\* they were.
LEMMA InsideFrame ==
    ASSUME TypeOK, LockInv, IdentityInv, WaitingInv,
           NEW t \in Threads, NEW l \in InScope, NEW o \in Operations, Inside(t, l, o),
           txn' \cup durable' \cup keep'
             \subseteq (txn \cup durable \cup keep) \cup ({o.id} \X Parts),
           \A i \in Ids : i # o.id => executed'[i] = executed[i]
    PROVE  /\ pc[t] \in InScope /\ lock = t /\ lock' = t /\ o.id \in 1..issued
           /\ op[t].id = o.id /\ op'[t] = o /\ pc'[t] = l
           /\ \A u \in Threads : u # t => pc'[u] = pc[u] /\ op'[u] = op[u] /\ pc'[u] \notin Holding
           /\ LockInv' /\ IdentityInv' /\ WaitingInv' /\ ScriptInv'
<1>. HIDE DEF IInv, TypeOK, SessionType, DriverType, HistoryType
<1>1. pc \in [Threads -> Labels] /\ op \in [Threads -> Operations] /\ issued \in 0..MaxOps
  BY DEF TypeOK, HistoryType
<1>2. /\ pc[t] \in InScope /\ lock' = t /\ op[t].id = o.id /\ op'[t] = o /\ pc'[t] = l
      /\ \A u \in Threads : u # t => pc'[u] = pc[u] /\ op'[u] = op[u]
      /\ result' = result /\ issued' = issued
  BY <1>1 DEF Inside, Continue
<1>3. lock = t /\ \A u \in Threads : u # t => pc[u] \notin Holding
  BY <1>2 DEF LockInv
<1>4. LockInv'
  BY <1>2, <1>3 DEF LockInv
<1>5. ScriptInv'
  BY <1>2, <1>3 DEF ScriptInv
<1>6. o.id \in 1..issued /\ 1..issued \subseteq Ids
  BY <1>1, <1>2 DEF IdentityInv
<1>7. \A u \in Threads : op'[u].id = op[u].id /\ (pc'[u] # "idle" => pc[u] # "idle")
        /\ (pc'[u] \notin {"idle", "drop"} => pc[u] \notin {"idle", "drop"})
  BY <1>2
<1>8. IdentityInv'
  <2>1. \A w \in txn' \cup durable' \cup keep' : w[1] \in 1..issued
    BY <1>6 DEF IdentityInv
  <2>2. \A i \in Ids : i > issued => executed'[i] = {}
    BY <1>1, <1>6 DEF IdentityInv
  <2>. QED  BY <1>2, <1>7, <2>1, <2>2 DEF IdentityInv
<1>9. WaitingInv'
  <2>1. SUFFICES ASSUME NEW u \in Threads, pc'[u] = "guarded"
                 PROVE  /\ op'[u].scope = "none" /\ op'[u].part = 0
                        /\ executed'[op'[u].id] = {}
                        /\ OwnWrites(u)' \cap (txn' \cup durable' \cup keep') = {}
                        /\ op'[u].path = "batch" <=> op'[u].plan.route = "batch"
    BY DEF WaitingInv
  <2>2. u # t /\ pc[u] = "guarded" /\ op'[u] = op[u]
    BY <1>2, <2>1
  <2>3. op[u].id \in Ids /\ op[u].id # o.id
    BY <1>2, <1>6, <2>2 DEF IdentityInv
  <2>4. OwnWrites(u)' = OwnWrites(u) /\ OwnWrites(u) \cap ({o.id} \X Parts) = {}
    BY <2>2, <2>3 DEF OwnWrites
  <2>5. OwnWrites(u) \cap (txn \cup durable \cup keep) = {}
    BY <2>2 DEF WaitingInv
  <2>. QED  BY <2>2, <2>3, <2>4, <2>5 DEF WaitingInv
<1>. QED  BY <1>2, <1>3, <1>4, <1>5, <1>6, <1>8, <1>9

\* The scope survives a step that adds at most the operation's own writes.
LEMMA InsideScope ==
    ASSUME ScopeInv, NEW t \in Threads, NEW o \in Operations, NEW W, W \subseteq OwnWrites(t),
           pc[t] \in InScope, op'[t] = o,
           o.id = op[t].id, o.plan = op[t].plan, o.path = op[t].path, o.scope = op[t].scope,
           op[t].started => o.started, W # {} => o.started,
           \A u \in Threads : u # t => pc'[u] \notin Holding,
           UNCHANGED <<autocommit, durable, keep, saved, alive>>,
           txn' = txn \cup W, WritesOf(o.id)' \subseteq WritesOf(o.id) \cup W
    PROVE  ScopeInv'
<1>. HIDE DEF IInv, TypeOK, SessionType, DriverType, HistoryType, Operations
<1>1. /\ ~autocommit /\ o.path \in {"ingest", "batch"}
      /\ o.path = "batch" <=> o.plan.route = "batch"
      /\ o.scope \in {"autocommit", "caller", "savepoint"}
      /\ OwnWrites(t) \cap (durable \cup keep) = {}
      /\ ~op[t].started => OwnWrites(t) \cap txn = {}
      /\ o.scope = "autocommit" => txn \subseteq OwnWrites(t)
      /\ o.scope = "autocommit" /\ alive => WritesOf(o.id) \subseteq txn
      /\ saved => o.scope = "savepoint"
  BY DEF ScopeInv
<1>2. OwnWrites(t)' = OwnWrites(t)
  BY DEF OwnWrites
<1>. HIDE DEF OwnWrites, WritesOf, Parts, InScope, Holding
<1>4. \A u \in Threads : pc'[u] \in InScope => u = t
  BY DEF InScope, Holding
<1>5. /\ OwnWrites(t)' \cap (durable' \cup keep') = {}
      /\ ~o.started => OwnWrites(t)' \cap txn' = {}
      /\ o.scope = "autocommit" => txn' \subseteq OwnWrites(t)'
  BY <1>1, <1>2
<1>6. o.scope = "autocommit" /\ alive' => WritesOf(o.id)' \subseteq txn'
  BY <1>1
<1>. QED  BY <1>1, <1>4, <1>5, <1>6 DEF ScopeInv

LEMMA InsideScopeKept ==
    ASSUME ScopeInv, NEW t \in Threads, NEW o \in Operations,
           pc[t] \in InScope, op'[t] = o,
           o.id = op[t].id, o.plan = op[t].plan, o.path = op[t].path, o.scope = op[t].scope,
           op[t].started => o.started,
           \A u \in Threads : u # t => pc'[u] \notin Holding,
           UNCHANGED <<autocommit, durable, keep, saved, alive>>,
           txn' = txn, WritesOf(o.id)' = WritesOf(o.id)
    PROVE  ScopeInv'
<1>. HIDE DEF IInv, TypeOK, SessionType, DriverType, HistoryType, Operations, InScope, Holding
<1>. DEFINE W == {}
<1>1. W \subseteq OwnWrites(t) /\ txn' = txn \cup W /\ WritesOf(o.id)' \subseteq WritesOf(o.id) \cup W
        /\ (W # {} => o.started)
  OBVIOUS
<1>. HIDE DEF W
<1>. QED  BY <1>1, InsideScope, ZenonT(30)

\* A step inside a scope that leaves the server alone.
LEMMA InsidesStep ==
    ASSUME IInv, NEW t \in Threads, NEW l \in InScope, NEW o \in Operations, Inside(t, l, o), UNCHANGED <<server, executed>>
    PROVE  IInv'
<1>. USE DEF Inside, Continue
<1>1. TypeOK'
  <2>1. op' \in [Threads -> Operations]
    OBVIOUS
  <2>2. SessionType'
    BY DEF IdentityInv
  <2>3. DriverType'
    OBVIOUS
  <2>4. HistoryType'
    OBVIOUS
  <2>5. pc' \in [Threads -> Labels]
    BY DEF Labels
  <2>. QED  BY <2>1, <2>2, <2>3, <2>4, <2>5
<1>2. LockInv' /\ IdentityInv' /\ SessionInv'
  BY DEF LockInv, IdentityInv, SessionInv
<1>3. /\ WaitingInv' /\ ScriptInv'
      /\ \A u \in Threads : u # t => pc'[u] \notin Holding
  <2>1. txn' = txn /\ durable' = durable /\ keep' = keep /\ executed' = executed
    OBVIOUS
  <2>. QED  BY <2>1, InsideFrame, ZenonT(30)
<1>4. ScopeInv'
  <2>. HIDE DEF IInv, TypeOK, SessionType, DriverType, HistoryType
  <2>1. ScopeInv /\ op'[t] = o
    BY DEF IInv, TypeOK
  <2>2. WritesOf(o.id)' = WritesOf(o.id)
    BY DEF WritesOf
  <2>3. /\ pc[t] \in InScope /\ (op[t].started => o.started) /\ txn' = txn
        /\ o.id = op[t].id /\ o.plan = op[t].plan /\ o.path = op[t].path /\ o.scope = op[t].scope
        /\ UNCHANGED <<autocommit, durable, keep, saved, alive>>
    OBVIOUS
  <2>. HIDE DEF Inside, Continue
  <2>. QED  BY <1>3, <2>1, <2>2, <2>3, InsideScopeKept, ZenonT(30)
<1>5. LeftoverInv'
  BY DEF LeftoverInv, Left
<1>6. FailedOperationsLeaveNothing'
  BY DEF FailedOperationsLeaveNothing, WritesOf
<1>. QED  BY <1>1, <1>2, <1>3, <1>4, <1>5, <1>6

\* A refused command inside a scope aborts its transaction.
LEMMA InsideErrorStep ==
    ASSUME IInv, NEW t \in Threads, NEW l \in InScope, NEW o \in Operations, Inside(t, l, o),
           ServerError, UNCHANGED executed
    PROVE  IInv'
<1>. USE DEF Inside, Continue, ServerError
<1>1. TypeOK'
  <2>1. op' \in [Threads -> Operations]
    OBVIOUS
  <2>2. SessionType'
    BY DEF IdentityInv
  <2>3. DriverType'
    OBVIOUS
  <2>4. HistoryType'
    OBVIOUS
  <2>5. pc' \in [Threads -> Labels]
    BY DEF Labels
  <2>. QED  BY <2>1, <2>2, <2>3, <2>4, <2>5
<1>2. /\ LockInv' /\ IdentityInv' /\ WaitingInv' /\ ScriptInv'
      /\ \A u \in Threads : u # t => pc'[u] \notin Holding
  <2>1. txn' = txn /\ durable' = durable /\ keep' = keep /\ executed' = executed
    OBVIOUS
  <2>. QED  BY <2>1, InsideFrame, ZenonT(30)
<1>3. SessionInv'
  BY DEF LockInv, SessionInv
<1>4. ScopeInv'
  <2>. HIDE DEF IInv, TypeOK, SessionType, DriverType, HistoryType
  <2>1. ScopeInv /\ op'[t] = o
    BY DEF IInv, TypeOK
  <2>2. WritesOf(o.id)' = WritesOf(o.id)
    BY DEF WritesOf
  <2>3. /\ pc[t] \in InScope /\ (op[t].started => o.started) /\ txn' = txn
        /\ o.id = op[t].id /\ o.plan = op[t].plan /\ o.path = op[t].path /\ o.scope = op[t].scope
        /\ UNCHANGED <<autocommit, durable, keep, saved, alive>>
    OBVIOUS
  <2>. HIDE DEF Inside, Continue, ServerError
  <2>. QED  BY <1>2, <2>1, <2>2, <2>3, InsideScopeKept, ZenonT(30)
<1>5. LeftoverInv'
  BY DEF SessionInv, LeftoverInv, Left
<1>6. FailedOperationsLeaveNothing'
  BY DEF FailedOperationsLeaveNothing, WritesOf
<1>. QED  BY <1>1, <1>2, <1>3, <1>4, <1>5, <1>6

\* A command inside a scope adds a write of the operation.
LEMMA InsideWriteStep ==
    ASSUME IInv, NEW t \in Threads, NEW l \in InScope, NEW o \in Operations, Inside(t, l, o),
           NEW k \in Parts, alive, ServerWrite(<<o.id, k>>), o.started,
           executed' = [executed EXCEPT ![o.id] = @ \cup {k}]
    PROVE  IInv'
<1>. USE DEF Inside, Continue, ServerWrite
<1>1. TypeOK'
  <2>1. op' \in [Threads -> Operations]
    OBVIOUS
  <2>0. <<o.id, k>> \in Writes
    BY DEF IdentityInv
  <2>2. SessionType'
    BY <2>0 DEF IdentityInv
  <2>3. DriverType'
    OBVIOUS
  <2>4. HistoryType'
    BY ZenonT(30)
  <2>5. pc' \in [Threads -> Labels]
    BY DEF Labels
  <2>. QED  BY <2>1, <2>2, <2>3, <2>4, <2>5
<1>2. /\ LockInv' /\ IdentityInv' /\ WaitingInv' /\ ScriptInv'
      /\ op[t].id = o.id /\ op'[t] = o /\ pc'[t] = l /\ pc[t] \in InScope
      /\ \A u \in Threads : u # t => pc'[u] \notin Holding
  <2>. HIDE DEF IInv, TypeOK, SessionType, DriverType, HistoryType
  <2>1. TypeOK /\ LockInv /\ IdentityInv /\ WaitingInv /\ executed \in [Ids -> SUBSET Parts]
    BY DEF IInv, TypeOK, HistoryType
  <2>2. txn' \cup durable' \cup keep'
          \subseteq (txn \cup durable \cup keep) \cup ({o.id} \X Parts)
    OBVIOUS
  <2>3. \A i \in Ids : i # o.id => executed'[i] = executed[i]
    BY <2>1
  <2>4. t \in Threads /\ l \in InScope /\ o \in Operations /\ Inside(t, l, o)
    OBVIOUS
  <2>. HIDE DEF Inside, Continue, ServerWrite
  <2>. QED  BY <2>1, <2>2, <2>3, <2>4, InsideFrame, ZenonT(30)
<1>3. SessionInv'
  BY DEF LockInv, SessionInv
<1>4. ScopeInv'
  <2>. HIDE DEF IInv, TypeOK, SessionType, DriverType, HistoryType
  <2>1. ScopeInv /\ o.id \in Ids /\ executed \in [Ids -> SUBSET Parts]
    BY <1>2 DEF IInv, TypeOK, HistoryType, IdentityInv
  <2>2. OwnWrites(t)' = OwnWrites(t) /\ <<o.id, k>> \in OwnWrites(t)
    BY <1>2 DEF OwnWrites
  <2>3. ~autocommit /\ txn' = txn \cup {<<o.id, k>>}
    BY <1>2, <2>1 DEF ScopeInv
  <2>4. WritesOf(o.id)' = WritesOf(o.id) \cup {<<o.id, k>>}
    BY <2>1 DEF WritesOf
  <2>5. UNCHANGED <<autocommit, durable, keep, saved, alive>>
    BY <2>3
  <2>6. /\ pc[t] \in InScope /\ (op[t].started => o.started) /\ {<<o.id, k>>} \subseteq OwnWrites(t)
        /\ o.id = op[t].id /\ o.plan = op[t].plan /\ o.path = op[t].path /\ o.scope = op[t].scope
    BY <2>2
  <2>7. WritesOf(o.id)' \subseteq WritesOf(o.id) \cup {<<o.id, k>>}
    BY <2>4
  <2>. HIDE DEF Inside, Continue, ServerWrite
  <2>. QED  BY <1>2, <2>1, <2>3, <2>5, <2>6, <2>7, InsideScope, ZenonT(30)
<1>5. LeftoverInv'
  <2>1. ~Left(o.id) /\ result' = result /\ partialOk' = partialOk
    BY DEF IdentityInv, Left
  <2>2. \A w \in txn \cup keep : w[1] \in Ids
    BY DEF IdentityInv
  <2>3. LeftoverInv /\ o.id \in Ids /\ keep' = keep /\ aborted' = aborted /\ poison' = poison
        /\ txn' \subseteq txn \cup {<<o.id, k>>}
    BY DEF IdentityInv
  <2>. HIDE DEF IInv, TypeOK, SessionType, DriverType, HistoryType, Inside, Continue, ServerWrite
  <2>4. ASSUME NEW w \in txn' \cup keep', Left(w[1])'
        PROVE  Left(w[1]) /\ w \in txn \cup keep
    <3>1. Left(w[1])
      BY <2>1, <2>4 DEF Left
    <3>2. <<o.id, k>>[1] = o.id
      OBVIOUS
    <3>3. w # <<o.id, k>>
      BY <2>1, <3>1, <3>2, ZenonT(30)
    <3>. QED  BY <2>3, <3>1, <3>3
  <2>. QED  BY <2>3, <2>4 DEF LeftoverInv
<1>6. FailedOperationsLeaveNothing'
  <2>1. durable' = durable
    BY DEF ScopeInv
  <2>2. result' = result /\ result[o.id] = "running"
    BY DEF IdentityInv
  <2>3. \A i \in Ids : i # o.id => executed'[i] = executed[i]
    OBVIOUS
  <2>4. \A i \in Ids : result[i] = "lost" => WritesOf(i)' = WritesOf(i)
    BY <2>2, <2>3 DEF WritesOf
  <2>. QED  BY <2>1, <2>2, <2>4 DEF FailedOperationsLeaveNothing
<1>. QED  BY <1>1, <1>2, <1>3, <1>4, <1>5, <1>6

\* COMMIT of an autocommit scope makes the operation's writes durable.
LEMMA CommitScopeStep ==
    ASSUME IInv, NEW t \in Threads, CommitScope(t)
    PROVE  IInv'
<1>. USE DEF CommitScope, RestoreAutocommit, Return, ServerCommit
<1>1. TypeOK'
  BY ZenonT(30) DEF IdentityInv, Labels, Operations
<1>2. LockInv' /\ IdentityInv' /\ WaitingInv' /\ ScopeInv' /\ ScriptInv'
  <2>1. lock \in {t, Free}
    BY DEF LockInv
  <2>2. txn' \cup durable' \cup keep' \subseteq txn \cup durable \cup keep
    OBVIOUS
  <2>. QED  BY <2>1, <2>2, ReturnFrame, ZenonT(30)
<1>3. SessionInv'
  BY DEF LockInv, SessionInv
<1>4. LeftoverInv'
  BY DEF LeftoverInv
<1>5. FailedOperationsLeaveNothing'
  <2>1. op[t].id \in Ids
    BY DEF IdentityInv
  <2>2. \A w \in txn : w[1] = op[t].id
    BY DEF ScopeInv, OwnWrites
  <2>3. WritesOf(op[t].id) \subseteq txn
    BY DEF ScopeInv
  <2>4. result'[op[t].id] = "ok" /\ \A i \in Ids : i # op[t].id => result'[i] = result[i]
    BY <2>1
  <2>5. durable' = durable \cup txn /\ executed' = executed /\ partialOk' = partialOk
    OBVIOUS
  <2>. QED  BY <2>1, <2>2, <2>3, <2>4, <2>5 DEF FailedOperationsLeaveNothing, WritesOf
<1>. QED  BY <1>1, <1>2, <1>3, <1>4, <1>5

\* A COMMIT whose reply is lost is all or nothing.
LEMMA CommitScopeLostStep ==
    ASSUME IInv, NEW t \in Threads, CommitScopeLost(t)
    PROVE  IInv'
<1>. USE DEF CommitScopeLost, Return, ServerCommit
<1>1. TypeOK'
  BY ZenonT(30) DEF IdentityInv, Labels, Operations
<1>2. LockInv' /\ IdentityInv' /\ WaitingInv' /\ ScopeInv' /\ ScriptInv'
  <2>1. lock \in {t, Free}
    BY DEF LockInv
  <2>2. txn' \cup durable' \cup keep' \subseteq txn \cup durable \cup keep
    OBVIOUS
  <2>. QED  BY <2>1, <2>2, ReturnFrame, ZenonT(30)
<1>3. SessionInv'
  BY DEF LockInv, SessionInv
<1>4. LeftoverInv'
  BY DEF LeftoverInv
<1>5. FailedOperationsLeaveNothing'
  <2>1. op[t].id \in Ids
    BY DEF IdentityInv
  <2>2. \A w \in txn : w[1] = op[t].id
    BY DEF ScopeInv, OwnWrites
  <2>3. WritesOf(op[t].id) \subseteq txn
    BY DEF ScopeInv
  <2>4. result'[op[t].id] = "lost" /\ \A i \in Ids : i # op[t].id => result'[i] = result[i]
    BY <2>1
  <2>5. durable' = durable \cup txn /\ executed' = executed /\ partialOk' = partialOk
    OBVIOUS
  <2>. QED  BY <2>1, <2>2, <2>3, <2>4, <2>5 DEF FailedOperationsLeaveNothing, WritesOf
<1>. QED  BY <1>1, <1>2, <1>3, <1>4, <1>5

RolledBack(t) ==
    /\ pc[t] = "finish" /\ op[t].scope = "autocommit" /\ alive
    /\ ServerForget /\ autocommit' = TRUE
    /\ UNCHANGED <<durable, alive, modified, poison, stmt, issued, tracked, partialOk,
                   callerMode>>

Recovered(t) ==
    /\ pc[t] = "finish" /\ op[t].scope = "savepoint" /\ alive
    /\ txn' = keep /\ aborted' = FALSE /\ saved' = FALSE /\ keep' = {}
    /\ UNCHANGED <<autocommit, durable, alive, undone, modified, poison, stmt, issued,
                   tracked, partialOk, callerMode>>

\* ROLLBACK of an autocommit scope leaves nothing of the failed operation.
LEMMA RolledBackEndsStep ==
    ASSUME IInv, NEW t \in Threads, RolledBack(t), Ends(t)
    PROVE  IInv'
<1>. USE OwnersType DEF RolledBack, Ends, Return, ServerForget
<1>1. TypeOK'
  BY ZenonT(30) DEF IdentityInv, Labels, Operations
<1>2. LockInv' /\ IdentityInv' /\ WaitingInv' /\ ScopeInv' /\ ScriptInv'
  <2>1. lock \in {t, Free}
    BY DEF LockInv
  <2>2. txn' \cup durable' \cup keep' \subseteq txn \cup durable \cup keep
    OBVIOUS
  <2>. QED  BY <2>1, <2>2, ReturnFrame, ZenonT(30)
<1>3. SessionInv'
  BY DEF LockInv, SessionInv
<1>4. LeftoverInv'
  BY DEF LeftoverInv
<1>5. FailedOperationsLeaveNothing'
  <2>1. op[t].id \in Ids
    BY DEF IdentityInv
  <2>2. durable \cap ({op[t].id} \X Parts) = {}
    BY DEF ScopeInv, OwnWrites
  <2>. QED  BY <2>1, <2>2, FailedFrame, ZenonT(30)
<1>. QED  BY <1>1, <1>2, <1>3, <1>4, <1>5

\* ROLLBACK of an autocommit scope, and the batch runs again.
LEMMA RolledBackWaitsStep ==
    ASSUME IInv, NEW t \in Threads, NEW o \in Operations, WaitsAgain(t, o), RolledBack(t)
    PROVE  IInv'
<1>. USE OwnersType DEF RolledBack, WaitsAgain, ServerForget
<1>1. TypeOK'
  <2>1. op' \in [Threads -> Operations]
    OBVIOUS
  <2>2. SessionType'
    BY ZenonT(30) DEF IdentityInv
  <2>3. DriverType'
    OBVIOUS
  <2>4. HistoryType'
    BY ZenonT(30)
  <2>5. pc' \in [Threads -> Labels]
    BY DEF Labels
  <2>. QED  BY <2>1, <2>2, <2>3, <2>4, <2>5
<1>2. LockInv' /\ IdentityInv' /\ WaitingInv' /\ ScopeInv' /\ ScriptInv'
  <2>1. txn' \cup durable' \cup keep' \subseteq txn \cup durable \cup keep
    OBVIOUS
  <2>2. OwnWrites(t) \cap (txn' \cup durable' \cup keep') = {}
    BY DEF ScopeInv
  <2>. QED  BY <2>1, <2>2, WaitsFrame, ZenonT(30)
<1>3. SessionInv'
  BY DEF LockInv, SessionInv
<1>4. LeftoverInv'
  BY DEF LeftoverInv, Left
<1>5. FailedOperationsLeaveNothing'
  <2>1. result' = result /\ result[op[t].id] = "running" /\ op[t].id \in Ids
    BY DEF IdentityInv
  <2>2. \A i \in Ids : i # op[t].id => executed'[i] = executed[i]
    OBVIOUS
  <2>3. \A i \in Ids : result[i] = "lost" => WritesOf(i)' = WritesOf(i)
    BY <2>1, <2>2 DEF WritesOf
  <2>. QED  BY <2>1, <2>3 DEF FailedOperationsLeaveNothing
<1>. QED  BY <1>1, <1>2, <1>3, <1>4, <1>5

\* ROLLBACK TO SAVEPOINT leaves what preceded the failed operation.
LEMMA RecoveredEndsStep ==
    ASSUME IInv, NEW t \in Threads, Recovered(t), Ends(t)
    PROVE  IInv'
<1>. USE DEF Recovered, Ends, Return
<1>1. TypeOK'
  BY ZenonT(30) DEF IdentityInv, Labels, Operations
<1>2. LockInv' /\ IdentityInv' /\ WaitingInv' /\ ScopeInv' /\ ScriptInv'
  <2>1. lock \in {t, Free}
    BY DEF LockInv
  <2>2. txn' \cup durable' \cup keep' \subseteq txn \cup durable \cup keep
    BY DEF SessionInv
  <2>. QED  BY <2>1, <2>2, ReturnFrame, ZenonT(30)
<1>3. SessionInv'
  BY DEF LockInv, SessionInv
<1>4. LeftoverInv'
  <2>1. op[t].id \in Ids
    BY DEF IdentityInv
  <2>2. \A w \in keep : w[1] # op[t].id
    BY DEF ScopeInv, OwnWrites
  <2>. QED  BY <2>1, <2>2, LeftoverFrame, ZenonT(30)
<1>5. FailedOperationsLeaveNothing'
  <2>1. op[t].id \in Ids
    BY DEF IdentityInv
  <2>2. durable \cap ({op[t].id} \X Parts) = {}
    BY DEF ScopeInv, OwnWrites
  <2>. QED  BY <2>1, <2>2, FailedFrame, ZenonT(30)
<1>. QED  BY <1>1, <1>2, <1>3, <1>4, <1>5

\* ROLLBACK TO SAVEPOINT, and the batch runs again.
LEMMA RecoveredWaitsStep ==
    ASSUME IInv, NEW t \in Threads, NEW o \in Operations, WaitsAgain(t, o), Recovered(t)
    PROVE  IInv'
<1>. USE DEF Recovered, WaitsAgain
<1>1. TypeOK'
  <2>1. op' \in [Threads -> Operations]
    OBVIOUS
  <2>2. SessionType'
    BY ZenonT(30) DEF IdentityInv
  <2>3. DriverType'
    OBVIOUS
  <2>4. HistoryType'
    BY ZenonT(30)
  <2>5. pc' \in [Threads -> Labels]
    BY DEF Labels
  <2>. QED  BY <2>1, <2>2, <2>3, <2>4, <2>5
<1>2. LockInv' /\ IdentityInv' /\ WaitingInv' /\ ScopeInv' /\ ScriptInv'
  <2>1. txn' \cup durable' \cup keep' \subseteq txn \cup durable \cup keep
    BY DEF SessionInv
  <2>2. OwnWrites(t) \cap (txn' \cup durable' \cup keep') = {}
    BY DEF ScopeInv
  <2>. QED  BY <2>1, <2>2, WaitsFrame, ZenonT(30)
<1>3. SessionInv'
  BY DEF LockInv, SessionInv
<1>4. LeftoverInv'
  BY DEF LeftoverInv, Left
<1>5. FailedOperationsLeaveNothing'
  <2>1. result' = result /\ result[op[t].id] = "running" /\ op[t].id \in Ids
    BY DEF IdentityInv
  <2>2. \A i \in Ids : i # op[t].id => executed'[i] = executed[i]
    OBVIOUS
  <2>3. \A i \in Ids : result[i] = "lost" => WritesOf(i)' = WritesOf(i)
    BY <2>1, <2>2 DEF WritesOf
  <2>. QED  BY <2>1, <2>3 DEF FailedOperationsLeaveNothing
<1>. QED  BY <1>1, <1>2, <1>3, <1>4, <1>5

\* A closed session has dropped the writes of the scope.
LEMMA AbandonScopeStep ==
    ASSUME IInv, NEW t \in Threads, AbandonScope(t)
    PROVE  IInv'
<1>. USE DEF AbandonScope, Return
<1>1. TypeOK'
  BY DEF IdentityInv, Labels, Operations
<1>2. LockInv' /\ IdentityInv' /\ WaitingInv' /\ ScopeInv' /\ ScriptInv'
  <2>1. lock \in {t, Free}
    BY DEF LockInv
  <2>2. txn' \cup durable' \cup keep' \subseteq txn \cup durable \cup keep
    OBVIOUS
  <2>. QED  BY <2>1, <2>2, ReturnFrame, ZenonT(30)
<1>3. SessionInv'
  BY DEF LockInv, SessionInv
<1>4. LeftoverInv'
  BY DEF SessionInv, LeftoverInv
<1>5. FailedOperationsLeaveNothing'
  <2>1. op[t].id \in Ids
    BY DEF IdentityInv
  <2>2. durable \cap ({op[t].id} \X Parts) = {}
    BY DEF ScopeInv, OwnWrites
  <2>. QED  BY <2>1, <2>2, FailedFrame, ZenonT(30)
<1>. QED  BY <1>1, <1>2, <1>3, <1>4, <1>5

\* In the caller's transaction a failure that has written marks it.
LEMMA FinishCallerStep ==
    ASSUME IInv, NEW t \in Threads, FinishCaller(t)
    PROVE  IInv'
<1>. HIDE DEF IInv, TypeOK, SessionType, DriverType, HistoryType
<1>. DEFINE o == op[t]
            r == IF o.failed = "no" THEN "ok" ELSE "err"
<1>1. LockInv /\ IdentityInv /\ SessionInv /\ WaitingInv /\ ScopeInv /\ LeftoverInv
        /\ FailedOperationsLeaveNothing /\ TypeOK
  BY DEF IInv
<1>2. /\ pc \in [Threads -> Labels] /\ op \in [Threads -> Operations]
      /\ issued \in 0..MaxOps /\ poison \in BOOLEAN /\ partialOk \subseteq Ids
      /\ result \in [Ids -> {"none", "running", "ok", "done", "err", "lost", "failed"}]
      /\ txn \subseteq Writes /\ keep \subseteq Writes
  BY <1>1 DEF TypeOK, SessionType, DriverType, HistoryType
<1>3. /\ pc[t] = "finish" /\ o.scope = "caller" /\ Return(t, r)
      /\ poison' = (poison \/ MustPoison(o))
      /\ partialOk' = IF PartialAllowed(o) THEN partialOk \cup {o.id} ELSE partialOk
      /\ UNCHANGED <<server, modified, stmt, issued, executed, tracked, callerMode>>
  BY Zenon DEF FinishCaller
<1>4. o.id \in 1..issued /\ o.id \in Ids
  <2>1. o.id \in 1..issued
    <3>. HIDE DEF Ids
    <3>. QED  BY <1>1, <1>3, ZenonT(30) DEF IdentityInv
  <2>. QED  BY <1>2, <2>1
<1>5. lock = t
  BY <1>1, <1>3, Zenon DEF LockInv
<1>6. /\ ~autocommit /\ ~saved /\ keep = {}
      /\ OwnWrites(t) \cap durable = {} /\ (~o.started => OwnWrites(t) \cap txn = {})
      /\ (o.path = "batch" <=> o.plan.route = "batch") /\ o.path \in {"ingest", "batch"}
  <2>1. pc[t] \in InScope
    BY <1>3
  <2>. QED  BY <1>1, <1>3, <2>1 DEF ScopeInv, SessionInv
<1>7. TypeOK'
  <2>1. SessionType'
    BY <1>1, <1>3 DEF TypeOK, SessionType
  <2>2. MustPoison(o) \in BOOLEAN
    BY DEF MustPoison
  <2>3. DriverType'
    <3>1. lock' = Free /\ modified' = modified /\ query' = query /\ target' = target
      BY <1>3 DEF Return
    <3>2. poison' \in BOOLEAN
      BY <1>2, <1>3, <2>2
    <3>. QED  BY <1>1, <3>1, <3>2 DEF TypeOK, DriverType
  <2>4. HistoryType'
    <3>1. result' \in [Ids -> {"none", "running", "ok", "done", "err", "lost", "failed"}]
      BY <1>2, <1>3, ZenonT(30) DEF Return
    <3>2. partialOk' \subseteq Ids
      BY <1>2, <1>3, <1>4, ZenonT(30)
    <3>3. UNCHANGED <<callerMode, issued, executed, tracked, undone>>
      BY <1>3
    <3>. QED  BY <1>1, <3>1, <3>2, <3>3 DEF TypeOK, HistoryType
  <2>5. pc' \in [Threads -> Labels] /\ op' \in [Threads -> Operations]
    BY <1>2, <1>3 DEF Return, Labels
  <2>. QED  BY <2>1, <2>3, <2>4, <2>5 DEF TypeOK
<1>8. LockInv' /\ IdentityInv' /\ WaitingInv' /\ ScopeInv' /\ ScriptInv'
  <2>1. txn' \cup durable' \cup keep' \subseteq txn \cup durable \cup keep
          /\ pc[t] \notin {"idle", "drop"} /\ lock \in {t, Free}
          /\ UNCHANGED <<issued, executed>>
    BY <1>3, <1>5, ZenonT(30)
  <2>. QED  BY <1>1, <1>2, <1>3, <2>1, ReturnFrame, ZenonT(30)
<1>9. SessionInv'
  BY <1>1, <1>3, <1>6 DEF SessionInv
<1>10. LeftoverInv'
  <2>0. PICK i \in Ids : i = o.id
    BY <1>4
  <2>1. /\ result'[i] = r /\ \A j \in Ids : j # i => result'[j] = result[j]
        /\ partialOk \subseteq partialOk'
    BY <1>2, <1>3, <2>0 DEF Return
  <2>2. Left(i)' /\ o.started => poison'
    <3>1. r # "ok" /\ i \notin partialOk' => o.failed # "no" /\ ~PartialAllowed(o)
      BY <1>3, <2>0, ZenonT(30)
    <3>2. Left(i)' => r # "ok" /\ i \notin partialOk'
      BY <2>1, ZenonT(30) DEF Left
    <3>3. o.failed # "no" /\ ~PartialAllowed(o) /\ o.started => MustPoison(o)
      BY <1>3, Zenon DEF MustPoison
    <3>. QED  BY <1>3, <3>1, <3>2, <3>3, ZenonT(30)
  <2>3. \A j \in Ids : j # i /\ Left(j)' => Left(j)
    BY <2>1, ZenonT(30) DEF Left
  <2>4. \A w \in txn : w[1] \in Ids /\ (w[1] = i => w \in OwnWrites(t))
    BY <1>2, <2>0 DEF OwnWrites
  <2>5. txn' = txn /\ keep' = {} /\ aborted' = aborted /\ (poison => poison')
    BY <1>3, <1>6, ZenonT(30)
  <2>6. ASSUME NEW w \in txn, Left(w[1])'  PROVE aborted \/ poison'
    <3>1. CASE w[1] = i
      <4>1. Left(i)'
        BY <2>6, <3>1, ZenonT(30)
      <4>2. o.started
        BY <1>6, <2>4, <3>1, ZenonT(30)
      <4>. QED  BY <2>2, <4>1, <4>2
    <3>2. CASE w[1] # i
      BY <1>1, <2>3, <2>4, <2>5, <2>6, <3>2, ZenonT(30) DEF LeftoverInv
    <3>. QED  BY <3>1, <3>2
  <2>. QED  BY <2>5, <2>6 DEF LeftoverInv
<1>11. FailedOperationsLeaveNothing'
  <2>1. /\ partialOk \subseteq partialOk' /\ r # "lost" /\ UNCHANGED <<executed, durable>>
        /\ result' = [result EXCEPT ![o.id] = r]
    BY <1>3 DEF Return
  <2>2. durable \cap ({o.id} \X Parts) = {}
    BY <1>6 DEF OwnWrites
  <2>. QED  BY <1>1, <1>2, <1>4, <2>1, <2>2, FailedFrame, ZenonT(30)
<1>. QED  BY <1>7, <1>8, <1>9, <1>10, <1>11 DEF IInv

\* RELEASE keeps the writes of a successful operation.
LEMMA ReleaseScopeStep ==
    ASSUME IInv, NEW t \in Threads, ReleaseScope(t)
    PROVE  IInv'
<1>. USE DEF ReleaseScope, Return
<1>1. TypeOK'
  BY ZenonT(30) DEF IdentityInv, Labels, Operations
<1>2. LockInv' /\ IdentityInv' /\ WaitingInv' /\ ScopeInv' /\ ScriptInv'
  <2>1. lock \in {t, Free}
    BY DEF LockInv
  <2>2. txn' \cup durable' \cup keep' \subseteq txn \cup durable \cup keep
    OBVIOUS
  <2>. QED  BY <2>1, <2>2, ReturnFrame, ZenonT(30)
<1>3. SessionInv'
  BY DEF LockInv, SessionInv
<1>4. LeftoverInv'
  <2>1. op[t].id \in Ids
    BY DEF IdentityInv
  <2>2. ~Left(op[t].id)'
    BY <2>1 DEF Left
  <2>. QED  BY <2>1, <2>2, LeftoverFrame, ZenonT(30)
<1>5. FailedOperationsLeaveNothing'
  <2>1. op[t].id \in Ids
    BY DEF IdentityInv
  <2>. QED  BY <2>1, FailedFrame, ZenonT(30)
<1>. QED  BY <1>1, <1>2, <1>3, <1>4, <1>5

\* A failed recovery leaves the transaction aborted and marked.
LEMMA RecoverScopeFailsStep ==
    ASSUME IInv, NEW t \in Threads, RecoverScopeFails(t)
    PROVE  IInv'
<1>. USE DEF RecoverScopeFails, Return
<1>1. TypeOK'
  BY ZenonT(30) DEF IdentityInv, Labels, Operations
<1>2. LockInv' /\ IdentityInv' /\ WaitingInv' /\ ScopeInv' /\ ScriptInv'
  <2>1. lock \in {t, Free}
    BY DEF LockInv
  <2>2. txn' \cup durable' \cup keep' \subseteq txn \cup durable \cup keep
    OBVIOUS
  <2>. QED  BY <2>1, <2>2, ReturnFrame, ZenonT(30)
<1>3. SessionInv'
  BY DEF LockInv, SessionInv
<1>4. LeftoverInv'
  BY DEF LeftoverInv
<1>5. FailedOperationsLeaveNothing'
  <2>1. op[t].id \in Ids
    BY DEF IdentityInv
  <2>2. durable \cap ({op[t].id} \X Parts) = {}
    BY DEF ScopeInv, OwnWrites
  <2>. QED  BY <2>1, <2>2, FailedFrame, ZenonT(30)
<1>. QED  BY <1>1, <1>2, <1>3, <1>4, <1>5

HIDE DEF IInv, TypeOK, SessionType, DriverType, HistoryType, server, driver, stmt,
         history, Ids, Parts, Writes, Free, Holding, InScope
=============================================================================
