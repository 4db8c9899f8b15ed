---------------------------- MODULE Transactions ----------------------------
(***************************************************************************)
(* The transaction state one DriverConnection shares between the threads   *)
(* that use it: the operation lock (DriverConnection.inner), the write     *)
(* tracking flag (transaction_modified), the rollback-only mark            *)
(* (transaction_poison), and the atomic scopes that multi-row updates and  *)
(* ingests run in (begin_atomic / finish_atomic).                          *)
(*                                                                         *)
(* The MonetDB session is external.  It is described by what the driver    *)
(* relies on: a failed statement aborts an explicit transaction, ROLLBACK  *)
(* TO SAVEPOINT revives it, COMMIT of an aborted transaction rolls back,   *)
(* switching autocommit on commits, and a transport failure (timeout,      *)
(* cancellation, closed socket) ends the session for good.                 *)
(*                                                                         *)
(* A write is a pair <<operation, part>>: a part is one row batch, one     *)
(* COPY window or one DDL statement.  The lock is held from OpenScope or   *)
(* BeginScript to the step that gives it back; between the two only        *)
(* transaction_modified can be touched by another thread.                  *)
(***************************************************************************)
EXTENDS Naturals, Sequences

CONSTANTS
    Threads,    \* callers; each owns one MonetdbStatement on the connection
    MaxOps,     \* bound: guarded operations started in a behaviour
    MaxParts,   \* bound: parts one operation writes
    Scripts,    \* unbound SQL: sequences of "read", "write", "commit", "rollback"
    Plans       \* multi-part operations: what bind() and the options select

ASSUME ThreadsAssumption == "free" \notin Threads
ASSUME ScriptsAssumption ==
    Scripts \subseteq { q \in Seq({"read", "write", "commit", "rollback"}) :
                          q # <<>> /\ Len(q) <= MaxParts }
ASSUME BoundsAssumption == MaxOps \in Nat /\ MaxParts \in Nat

VARIABLES
    autocommit, \* session mode, server_info().autocommit
    txn,        \* writes of the open transaction
    saved,      \* the driver's own savepoint is set ...
    keep,       \* ... and preserves these writes of the transaction
    aborted,    \* a statement failed inside the open transaction
    durable,    \* committed writes
    alive,      \* FALSE once the session ended
    lock,       \* DriverConnection.inner: Free or the owner
    modified,   \* DriverConnection.transaction_modified
    poison,     \* DriverConnection.transaction_poison is Some
    query,      \* MonetdbStatement.query: NoQuery or a script
    target,     \* MonetdbStatement.options has TargetTable
    pc, op,     \* where each thread is, and its operation
    issued,     \* history: number of guarded operations so far
    result,     \* history: outcome reported for each operation
    executed,   \* history: parts each operation executed (last attempt)
    tracked,    \* history: operations whose guard counted as a write
    partialOk,  \* history: failed operations that may keep their windows
    undone,     \* history: operations lost with a whole transaction
    callerMode  \* history: the autocommit mode the caller asked for

server  == <<autocommit, txn, saved, keep, aborted, durable, alive, undone>>
driver  == <<lock, modified, poison>>
stmt    == <<query, target>>
history == <<result, executed, tracked, partialOk>>
vars == <<server, driver, stmt, pc, op, issued, history, callerMode>>

-----------------------------------------------------------------------------
Free    == "free"
NoQuery == <<>>
Ids     == 1..MaxOps
Parts   == 0..MaxParts
Writes  == Ids \X Parts

(* The parameter batch and the ingest routes.  "append" is the ingest mode  *)
(* append, "existing" its append_to_existing (create_append may find the    *)
(* table too); "atomicity" and "allow" are ingest_atomicity and             *)
(* ingest_partial.                                                          *)
AllPlans ==
    { p \in [route : {"batch", "insert", "copy", "staged"}, append : BOOLEAN,
             existing : BOOLEAN, atomicity : {"transaction", "savepoint"}, allow : BOOLEAN] :
        /\ p.route = "staged" => p.existing
        /\ p.existing => p.route \in {"copy", "staged"}
        /\ p.route = "batch" => p.append /\ p.atomicity = "transaction" /\ ~p.allow }

ASSUME PlansAssumption == Plans \subseteq AllPlans

NoPlan == [route |-> "script", append |-> TRUE, existing |-> FALSE,
           atomicity |-> "transaction", allow |-> FALSE]

NewOperation(i, plan, path, prior, modifies, retried) ==
    [id |-> i, plan |-> plan, path |-> path, prior |-> prior, modifies |-> modifies,
     scope |-> "none", started |-> FALSE, part |-> 0, failed |-> "no",
     retried |-> retried]

NoOp == NewOperation(0, NoPlan, "none", FALSE, FALSE, FALSE)

Init ==
    /\ autocommit \in BOOLEAN /\ callerMode = autocommit
    /\ txn = {} /\ saved = FALSE /\ keep = {} /\ aborted = FALSE
    /\ durable = {} /\ alive = TRUE
    /\ lock = Free /\ modified = FALSE /\ poison = FALSE
    /\ query = [t \in Threads |-> NoQuery]
    /\ target = [t \in Threads |-> FALSE]
    /\ pc = [t \in Threads |-> "idle"]
    /\ op = [t \in Threads |-> NoOp]
    /\ issued = 0
    /\ result = [i \in Ids |-> "none"]
    /\ executed = [i \in Ids |-> {}]
    /\ tracked = {} /\ partialOk = {} /\ undone = {}

-----------------------------------------------------------------------------
(* The session (external).                                                  *)

Owners(ws) == { w[1] : w \in ws }

\* A statement that writes w succeeds.
ServerWrite(w) ==
    /\ ~aborted
    /\ IF autocommit
         THEN durable' = durable \cup {w} /\ UNCHANGED txn
         ELSE txn' = txn \cup {w} /\ UNCHANGED durable
    /\ UNCHANGED <<autocommit, saved, keep, aborted, alive, undone>>

\* A statement fails with an SQL diagnostic.
ServerError ==
    /\ aborted' = ~autocommit
    /\ UNCHANGED <<autocommit, txn, saved, keep, durable, alive, undone>>

\* The transaction ends without its writes.
ServerForget ==
    /\ txn' = {} /\ saved' = FALSE /\ keep' = {} /\ aborted' = FALSE
    /\ undone' = undone \cup Owners(txn)

\* COMMIT succeeds.
ServerCommit ==
    /\ ~aborted
    /\ durable' = durable \cup txn
    /\ txn' = {} /\ saved' = FALSE /\ keep' = {}
    /\ UNCHANGED <<aborted, undone>>

\* A timeout, a cancellation or a transport error closes the session at any
\* moment; the server drops its transaction.
LoseSession ==
    /\ alive /\ alive' = FALSE
    /\ ServerForget
    /\ UNCHANGED <<autocommit, durable, driver, stmt, pc, op, issued, history,
                   callerMode>>

-----------------------------------------------------------------------------
(* The statement object.                                                    *)

\* Statement::set_sql_query drops the ingest options of an earlier use.
SetSqlQuery(t, q) ==
    /\ pc[t] = "idle"
    /\ query' = [query EXCEPT ![t] = q]
    /\ target' = [target EXCEPT ![t] = FALSE]
    /\ UNCHANGED <<server, driver, pc, op, issued, history, callerMode>>

\* Statement::set_option(TargetTable) stores the name and nothing else.
SetTargetTable(t) ==
    /\ pc[t] = "idle" /\ ~target[t]
    /\ target' = [target EXCEPT ![t] = TRUE]
    /\ UNCHANGED <<server, driver, query, pc, op, issued, history, callerMode>>

\* statement_may_modify over the statements of the text; no text counts.
MayModify(q) == q = NoQuery \/ \E i \in DOMAIN q : q[i] = "write"

\* TransactionWriteGuard::new, evaluated before the connection is locked.
TakeWriteGuard(t, plan, path) ==
    /\ pc[t] = "idle" /\ issued < MaxOps
    /\ issued' = issued + 1
    /\ pc' = [pc EXCEPT ![t] = "guarded"]
    /\ op' = [op EXCEPT ![t] =
                NewOperation(issued + 1, plan, path, modified, MayModify(query[t]), FALSE)]
    /\ modified' = (modified \/ MayModify(query[t]))
    /\ tracked' = IF MayModify(query[t]) THEN tracked \cup {issued + 1} ELSE tracked
    /\ result' = [result EXCEPT ![issued + 1] = "running"]
    /\ UNCHANGED <<server, lock, poison, stmt, executed, partialOk, callerMode>>

\* ExecuteUpdate with bound data and a target table: Statement::ingest.
CallIngest(t) ==
    /\ target[t]
    /\ \E p \in Plans : p.route # "batch" /\ TakeWriteGuard(t, p, "ingest")

\* ExecuteUpdate with more than one bound row of a writing statement.
CallBatch(t) ==
    /\ ~target[t] /\ query[t] = <<"write">>
    /\ \E p \in Plans : p.route = "batch" /\ TakeWriteGuard(t, p, "batch")

\* ExecuteUpdate and ExecuteQuery without bound data.
CallScript(t) ==
    /\ query[t] # NoQuery
    /\ \E path \in {"update", "query"} : TakeWriteGuard(t, NoPlan, path)

\* Mutant: the guard is dropped without raising the flag again.
DropWriteGuard_noStore(t) ==
    /\ pc[t] = "drop"
    /\ pc' = [pc EXCEPT ![t] = "idle"]
    /\ op' = [op EXCEPT ![t] = NoOp]
    /\ UNCHANGED <<server, driver, stmt, issued, history, callerMode>>

\* Drop for TransactionWriteGuard, after the connection is unlocked.
DropWriteGuard(t) ==
    /\ pc[t] = "drop"
    /\ modified' = (modified \/ op[t].modifies)
    /\ pc' = [pc EXCEPT ![t] = "idle"]
    /\ op' = [op EXCEPT ![t] = NoOp]
    /\ UNCHANGED <<server, lock, poison, stmt, issued, history, callerMode>>

-----------------------------------------------------------------------------
(* Atomic operations: the parameter batch and the ingest.                   *)

\* The operation reports r and gives the connection back.
Return(t, r) ==
    /\ pc' = [pc EXCEPT ![t] = "drop"]
    /\ result' = [result EXCEPT ![op[t].id] = r]
    /\ lock' = Free
    /\ UNCHANGED op

\* The operation keeps the connection and continues at label l.
Continue(t, l, o) ==
    /\ pc' = [pc EXCEPT ![t] = l]
    /\ op' = [op EXCEPT ![t] = o]
    /\ lock' = t
    /\ UNCHANGED result

\* Option checks and the peek at the bound stream fail before the lock.
RejectEarly(t) ==
    /\ pc[t] = "guarded" /\ op[t].path \in {"ingest", "batch"}
    /\ pc' = [pc EXCEPT ![t] = "drop"]
    /\ result' = [result EXCEPT ![op[t].id] = "err"]
    /\ UNCHANGED <<server, driver, stmt, op, issued, executed, tracked, partialOk,
                   callerMode>>

\* The CallerTransactionScope that ingest passes to begin_atomic.
DirectScope(p) == p.route = "copy" /\ p.existing /\ p.atomicity = "transaction"

\* ingest_atomicity=savepoint refuses a transaction with prior writes.
Refused(o) ==
    o.path = "ingest" /\ o.prior /\ o.plan.atomicity = "savepoint" /\ ~autocommit

\* Mutant: prior writes do not keep begin_atomic from opening a savepoint.
ScopeOf_ignoresPrior(o) ==
    IF autocommit THEN "autocommit"
    ELSE IF DirectScope(o.plan) THEN "caller" ELSE "savepoint"

\* begin_atomic: the scope the operation runs in.
ScopeOf(o) ==
    IF autocommit THEN "autocommit"
    ELSE IF o.prior \/ DirectScope(o.plan) THEN "caller" ELSE "savepoint"

\* lock_connection and begin_atomic.  A mode other than append counts as a
\* started write from here on.
OpenScope(t) ==
    LET o == op[t]
        scope == ScopeOf(o)
    IN
    /\ pc[t] = "guarded" /\ o.path \in {"ingest", "batch"} /\ lock = Free
    /\ alive /\ ~Refused(o)
    /\ scope = "savepoint" => ~aborted
    /\ autocommit' = FALSE
    /\ saved' = (scope = "savepoint")
    /\ keep' = IF scope = "savepoint" THEN txn ELSE {}
    /\ Continue(t, IF o.path = "ingest" THEN "target" ELSE "parts",
                [o EXCEPT !.scope = scope, !.started = ~o.plan.append])
    /\ UNCHANGED <<txn, aborted, durable, alive, undone, modified, poison, stmt, issued,
                   executed, tracked, partialOk, callerMode>>

\* The session is closed, or the prior-writes check refuses the ingest.
RefuseScope(t) ==
    /\ pc[t] = "guarded" /\ op[t].path \in {"ingest", "batch"} /\ lock = Free
    /\ ~alive \/ Refused(op[t])
    /\ Return(t, "err")
    /\ UNCHANGED <<server, modified, poison, stmt, issued, executed, tracked, partialOk,
                   callerMode>>

\* A catalog lookup of the ingest or the SAVEPOINT statement fails.
OpenScopeFails(t) ==
    /\ pc[t] = "guarded" /\ op[t].path \in {"ingest", "batch"} /\ lock = Free
    /\ alive /\ (op[t].path = "ingest" \/ ScopeOf(op[t]) = "savepoint")
    /\ ServerError /\ Return(t, "err")
    /\ UNCHANGED <<modified, poison, stmt, issued, executed, tracked, partialOk,
                   callerMode>>

\* The step fails: the error f reaches the end of the operation.
Fail(t, f, o) == Continue(t, "finish", [o EXCEPT !.failed = f])

\* Server command number k of operation o, continuing at label l: it runs, it
\* runs but the driver rejects its row count, it is refused, or the session is
\* gone.  "missing" is a refused first row whose prepared handle is unknown.
RunPart(t, k, l, o) ==
    \/ /\ alive /\ ServerWrite(<<o.id, k>>)
       /\ executed' = [executed EXCEPT ![o.id] = @ \cup {k}]
       /\ Continue(t, l, [o EXCEPT !.part = k]) \/ Fail(t, "client", [o EXCEPT !.part = k])
    \/ /\ alive /\ ServerError /\ UNCHANGED executed
       /\ \/ Fail(t, "sql", o)
          \/ o.path = "batch" /\ k = 1 /\ Fail(t, "missing", o)
    \/ /\ ~alive /\ Fail(t, "dead", o)
       /\ UNCHANGED <<server, executed>>

\* prepare_ingest_target and the staging table: DDL for the create modes and
\* for a constrained append, catalog reads otherwise.
PrepareTarget(t) ==
    LET o == [op[t] EXCEPT !.started = @ \/ op[t].plan.route = "staged"] IN
    /\ pc[t] = "target"
    /\ \/ /\ o.started /\ RunPart(t, 0, "parts", o)
       \/ /\ ~o.started /\ alive /\ ~aborted /\ Continue(t, "parts", o)
          /\ UNCHANGED <<server, executed>>
       \/ /\ ~o.started /\ alive /\ ServerError /\ Fail(t, "sql", o)
          /\ UNCHANGED executed
       \/ /\ Fail(t, IF alive THEN "client" ELSE "dead", op[t])
          /\ UNCHANGED <<server, executed>>
    /\ UNCHANGED <<modified, poison, stmt, issued, tracked, partialOk, callerMode>>

\* One bounded script of rows, or one COPY window.  The INSERT route has one.
WritePart(t) ==
    LET o == [op[t] EXCEPT !.started = TRUE] IN
    /\ pc[t] = "parts" /\ o.part < MaxParts
    /\ o.plan.route = "insert" => o.part = 0
    /\ RunPart(t, o.part + 1, "parts", o)
    /\ UNCHANGED <<modified, poison, stmt, issued, tracked, partialOk, callerMode>>

\* The bound stream, the deadline or a local conversion fails between parts.
StreamFails(t) ==
    /\ pc[t] = "parts"
    /\ Fail(t, "client", op[t])
    /\ UNCHANGED <<server, modified, poison, stmt, issued, executed, tracked,
                   partialOk, callerMode>>

\* The stream ends.  A parameter batch has at least two rows.
StreamEnds(t) ==
    LET o == op[t] IN
    /\ pc[t] = "parts"
    /\ o.plan.route = "batch" => o.part >= 2
    /\ o.plan.route = "insert" => o.part = 1
    /\ Continue(t, IF o.plan.route = "staged" THEN "move" ELSE "finish", o)
    /\ UNCHANGED <<server, modified, poison, stmt, issued, executed, tracked,
                   partialOk, callerMode>>

\* A constrained append moves the staged rows and drops the staging table.
MoveStage(t) ==
    LET o == op[t] IN
    /\ pc[t] = "move"
    /\ \/ alive /\ ~aborted /\ Continue(t, "finish", o) /\ UNCHANGED server
       \/ alive /\ ~aborted /\ Fail(t, "client", o) /\ UNCHANGED server
       \/ alive /\ Fail(t, "sql", o) /\ ServerError
       \/ ~alive /\ Fail(t, "dead", o) /\ UNCHANGED server
    /\ UNCHANGED <<modified, poison, stmt, issued, executed, tracked, partialOk,
                   callerMode>>

\* ingest_partial=allow keeps completed windows of a direct append whose error
\* carries no SQLSTATE.
PartialAllowed(o) ==
    /\ o.plan.route = "copy" /\ o.plan.append /\ o.plan.allow
    /\ o.part > 0 /\ o.failed \in {"client", "dead"}

\* Mutant: one failed window does not count as a partial write.
MustPoison_secondPart(o) ==
    o.scope = "caller" /\ o.failed # "no" /\ o.part > 1 /\ ~PartialAllowed(o)

\* Mutant: the DDL of the create modes does not count as a write.
MustPoison_dataOnly(o) ==
    o.scope = "caller" /\ o.failed # "no" /\ o.part > 0 /\ ~PartialAllowed(o)

\* poison_transaction / poison_ingest at the end of a failed operation.
MustPoison(o) ==
    /\ o.scope = "caller" /\ o.failed # "no"
    /\ o.plan.route = "batch" \/ (o.started /\ ~PartialAllowed(o))

\* The batch's first row met an unknown handle inside a scope of its own.
Retries(o) == o.failed = "missing" /\ ~o.retried /\ o.scope # "caller"

Restarted(o) == NewOperation(o.id, o.plan, o.path, o.prior, o.modifies, TRUE)

\* The failed operation ends; or, its scope recovered, the batch runs again
\* from begin_atomic with the prior_writes it was first given.
ReturnOrRetry(t) ==
    IF Retries(op[t])
      THEN /\ pc' = [pc EXCEPT ![t] = "guarded"]
           /\ op' = [op EXCEPT ![t] = Restarted(@)]
           /\ executed' = [executed EXCEPT ![op[t].id] = {}]
           /\ lock' = Free /\ UNCHANGED result
      ELSE Return(t, "err") /\ UNCHANGED executed

\* Mutant: finish_atomic leaves the session in explicit mode.
RestoreAutocommit_skipped == UNCHANGED autocommit

\* set_autocommit(true) at the end of finish_atomic.
RestoreAutocommit == autocommit' = TRUE

\* finish_atomic, AtomicScope::Autocommit: COMMIT and back to autocommit.
CommitScope(t) ==
    /\ pc[t] = "finish" /\ op[t].scope = "autocommit"
    /\ op[t].failed = "no" /\ alive
    /\ ServerCommit /\ RestoreAutocommit
    /\ Return(t, "ok")
    /\ UNCHANGED <<alive, modified, poison, stmt, issued, executed, tracked, partialOk,
                   callerMode>>

\* The same, but the session ends after the server has committed.
CommitScopeLost(t) ==
    /\ pc[t] = "finish" /\ op[t].scope = "autocommit"
    /\ op[t].failed = "no" /\ alive
    /\ ServerCommit /\ alive' = FALSE
    /\ Return(t, "lost")
    /\ UNCHANGED <<autocommit, modified, poison, stmt, issued, executed, tracked,
                   partialOk, callerMode>>

\* The operation or its COMMIT failed: ROLLBACK and back to autocommit.
RollbackScope(t) ==
    /\ pc[t] = "finish" /\ op[t].scope = "autocommit" /\ alive
    /\ ServerForget /\ RestoreAutocommit
    /\ ReturnOrRetry(t)
    /\ UNCHANGED <<durable, alive, modified, poison, stmt, issued, tracked, partialOk,
                   callerMode>>

\* Nothing can be recovered in a closed session.
AbandonScope(t) ==
    /\ pc[t] = "finish" /\ op[t].scope # "caller" /\ ~alive
    /\ Return(t, "err")
    /\ UNCHANGED <<server, modified, poison, stmt, issued, executed, tracked, partialOk,
                   callerMode>>

\* finish_atomic with AtomicScope::CallerTransaction does nothing; a failure
\* leaves the transaction rollback-only unless partial appends are allowed.
FinishCaller(t) ==
    LET o == op[t] IN
    /\ pc[t] = "finish" /\ o.scope = "caller"
    /\ poison' = (poison \/ MustPoison(o))
    /\ partialOk' = IF PartialAllowed(o) THEN partialOk \cup {o.id} ELSE partialOk
    /\ Return(t, IF o.failed = "no" THEN "ok" ELSE "err")
    /\ UNCHANGED <<server, modified, stmt, issued, executed, tracked, callerMode>>

\* Mutant: recovery rolls the whole transaction back.
RollbackToSavepoint_whole == txn' = {} /\ aborted' = FALSE

\* ROLLBACK TO SAVEPOINT with the name begin_atomic chose.
RollbackToSavepoint == txn' = keep /\ aborted' = FALSE

\* finish_atomic, AtomicScope::Savepoint: RELEASE, which is skipped while a
\* transaction-scoped temporary table exists.
ReleaseScope(t) ==
    /\ pc[t] = "finish" /\ op[t].scope = "savepoint"
    /\ op[t].failed = "no" /\ alive /\ ~aborted
    /\ saved' = FALSE /\ keep' = {}
    /\ Return(t, "ok")
    /\ UNCHANGED <<autocommit, txn, aborted, durable, alive, undone, modified, poison,
                   stmt, issued, executed, tracked, partialOk, callerMode>>

\* The operation or its RELEASE failed: ROLLBACK TO and RELEASE.
RecoverScope(t) ==
    /\ pc[t] = "finish" /\ op[t].scope = "savepoint" /\ alive
    /\ RollbackToSavepoint /\ saved' = FALSE /\ keep' = {}
    /\ ReturnOrRetry(t)
    /\ UNCHANGED <<autocommit, durable, alive, undone, modified, poison, stmt, issued,
                   tracked, partialOk, callerMode>>

\* ROLLBACK TO is refused as well; the transaction stays aborted.
RecoverScopeFails(t) ==
    /\ pc[t] = "finish" /\ op[t].scope = "savepoint" /\ alive
    /\ aborted' = TRUE /\ saved' = FALSE /\ keep' = {}
    /\ Return(t, "err")
    /\ UNCHANGED <<autocommit, txn, durable, alive, undone, modified, poison, stmt,
                   issued, executed, tracked, partialOk, callerMode>>

-----------------------------------------------------------------------------
(* Unbound SQL and the transaction calls.                                   *)

\* Mutant: the rollback-only mark does not stop a commit.
CommitAllowed_always == TRUE

\* commit_error, read while the connection is locked.
CommitAllowed == ~poison

HasCommit(q)   == \E i \in DOMAIN q : q[i] = "commit"
HasRollback(q) == \E i \in DOMAIN q : q[i] = "rollback"

\* transaction_effects, lock_connection and guard_transaction_commit.
BeginScript(t) ==
    /\ pc[t] = "guarded" /\ op[t].path \in {"update", "query"} /\ lock = Free
    /\ IF ~alive \/ (HasCommit(query[t]) /\ ~CommitAllowed)
         THEN Return(t, "failed")
         ELSE Continue(t, "script", op[t])
    /\ UNCHANGED <<server, modified, poison, stmt, issued, executed, tracked,
                   partialOk, callerMode>>

\* The statement the script is at; the text does not change while it runs.
Current(t) == query[t][op[t].part + 1]
AtStatement(t, kinds) ==
    /\ pc[t] = "script" /\ op[t].part < Len(query[t])
    /\ Current(t) \in kinds
NextStatement(t) == Continue(t, "script", [op[t] EXCEPT !.part = @ + 1])

ScriptRead(t) ==
    /\ AtStatement(t, {"read"}) /\ alive /\ ~aborted
    /\ NextStatement(t)
    /\ UNCHANGED <<server, modified, poison, stmt, issued, executed, tracked, partialOk,
                   callerMode>>

ScriptWrite(t) ==
    /\ AtStatement(t, {"write"}) /\ alive
    /\ ServerWrite(<<op[t].id, op[t].part + 1>>)
    /\ executed' = [executed EXCEPT ![op[t].id] = @ \cup {op[t].part + 1}]
    /\ NextStatement(t)
    /\ UNCHANGED <<modified, poison, stmt, issued, tracked, partialOk, callerMode>>

ScriptCommit(t) ==
    /\ AtStatement(t, {"commit"}) /\ alive /\ ~autocommit
    /\ ServerCommit
    /\ NextStatement(t)
    /\ UNCHANGED <<autocommit, alive, modified, poison, stmt, issued, executed, tracked,
                   partialOk, callerMode>>

\* A conflict, or an aborted transaction: the server rolls back instead.
ScriptCommitFails(t) ==
    /\ AtStatement(t, {"commit"}) /\ alive /\ ~autocommit
    /\ ServerForget
    /\ Return(t, "failed")
    /\ UNCHANGED <<autocommit, durable, alive, modified, poison, stmt, issued, executed,
                   tracked, partialOk, callerMode>>

\* execute_update_script applies a ROLLBACK at once.  The query path sends the
\* text in one request and applies its effects at the end.
ScriptRollback(t) ==
    LET clears == op[t].path = "update" IN
    /\ AtStatement(t, {"rollback"}) /\ alive /\ ~autocommit
    /\ ServerForget
    /\ modified' = (modified /\ ~clears) /\ poison' = (poison /\ ~clears)
    /\ NextStatement(t)
    /\ UNCHANGED <<autocommit, durable, alive, stmt, issued, executed, tracked,
                   partialOk, callerMode>>

\* The server refuses the statement; COMMIT and ROLLBACK need a transaction.
ScriptError(t) ==
    /\ AtStatement(t, {"read", "write", "commit", "rollback"}) /\ alive
    /\ Current(t) \in {"commit", "rollback"} => autocommit
    /\ ServerError
    /\ Return(t, "failed")
    /\ UNCHANGED <<modified, poison, stmt, issued, executed, tracked, partialOk,
                   callerMode>>

ScriptAbandoned(t) ==
    /\ pc[t] = "script" /\ ~alive
    /\ Return(t, "failed")
    /\ UNCHANGED <<server, modified, poison, stmt, issued, executed, tracked, partialOk,
                   callerMode>>

\* The whole text succeeded; apply_transaction_rollback on the query path.
EndScript(t) ==
    LET q == query[t]
        applies == op[t].path = "query"
    IN
    /\ pc[t] = "script" /\ op[t].part = Len(q)
    /\ modified' = (modified /\ ~(applies /\ (HasCommit(q) \/ HasRollback(q))))
    /\ poison' = (poison /\ ~(applies /\ HasRollback(q)))
    /\ Return(t, "done")
    /\ UNCHANGED <<server, stmt, issued, executed, tracked, partialOk, callerMode>>

\* Connection::commit.
ConnectionCommit(t) ==
    /\ pc[t] = "idle" /\ lock = Free /\ CommitAllowed
    /\ alive /\ ~autocommit
    /\ ServerCommit
    /\ modified' = FALSE
    /\ UNCHANGED <<autocommit, alive, lock, poison, stmt, pc, op, issued, history,
                   callerMode>>

\* The COMMIT of Connection::commit or of set_option(AutoCommit, true) reports
\* a conflict: the call returns early and the server has rolled back.
CommitConflict(t) ==
    /\ pc[t] = "idle" /\ lock = Free /\ CommitAllowed
    /\ alive /\ ~autocommit
    /\ ServerForget
    /\ UNCHANGED <<autocommit, durable, alive, driver, stmt, pc, op, issued, history,
                   callerMode>>

\* Connection::rollback.
ConnectionRollback(t) ==
    /\ pc[t] = "idle" /\ lock = Free
    /\ alive /\ ~autocommit
    /\ ServerForget
    /\ modified' = FALSE /\ poison' = FALSE
    /\ UNCHANGED <<autocommit, durable, alive, lock, stmt, pc, op, issued, history,
                   callerMode>>

\* Connection::set_option(AutoCommit, true): COMMIT, then the mode change.
EnableAutoCommit(t) ==
    /\ pc[t] = "idle" /\ lock = Free /\ CommitAllowed
    /\ alive
    /\ IF autocommit THEN UNCHANGED <<txn, saved, keep, aborted, durable, undone>>
                     ELSE ServerCommit
    /\ autocommit' = TRUE /\ modified' = FALSE /\ callerMode' = TRUE
    /\ UNCHANGED <<alive, lock, poison, stmt, pc, op, issued, history>>

\* Connection::set_option(AutoCommit, false).
DisableAutoCommit(t) ==
    /\ pc[t] = "idle" /\ lock = Free /\ alive /\ autocommit
    /\ autocommit' = FALSE /\ modified' = FALSE /\ callerMode' = FALSE
    /\ UNCHANGED <<txn, saved, keep, aborted, durable, alive, undone>>
    /\ UNCHANGED <<lock, poison, stmt, pc, op, issued, history>>

-----------------------------------------------------------------------------
Statement(t) ==
    \/ \E q \in Scripts : SetSqlQuery(t, q)
    \/ SetTargetTable(t)
    \/ CallIngest(t) \/ CallBatch(t) \/ CallScript(t) \/ DropWriteGuard(t)

Operation(t) ==
    \/ RejectEarly(t) \/ OpenScope(t) \/ RefuseScope(t) \/ OpenScopeFails(t)
    \/ PrepareTarget(t) \/ WritePart(t) \/ StreamFails(t) \/ StreamEnds(t)
    \/ MoveStage(t)
    \/ CommitScope(t) \/ CommitScopeLost(t) \/ RollbackScope(t) \/ AbandonScope(t)
    \/ FinishCaller(t)
    \/ ReleaseScope(t) \/ RecoverScope(t) \/ RecoverScopeFails(t)

Script(t) ==
    \/ BeginScript(t) \/ ScriptRead(t) \/ ScriptWrite(t) \/ ScriptCommit(t)
    \/ ScriptCommitFails(t) \/ ScriptRollback(t) \/ ScriptError(t)
    \/ ScriptAbandoned(t) \/ EndScript(t)

TransactionCall(t) ==
    \/ ConnectionCommit(t) \/ CommitConflict(t) \/ ConnectionRollback(t)
    \/ EnableAutoCommit(t) \/ DisableAutoCommit(t)

Next ==
    \/ \E t \in Threads :
        Statement(t) \/ Operation(t) \/ Script(t) \/ TransactionCall(t)
    \/ LoseSession

Spec == Init /\ [][Next]_vars

-----------------------------------------------------------------------------
(* Properties.                                                              *)

Labels == {"idle", "guarded", "target", "parts", "move", "finish", "script", "drop"}

Operations ==
    [id : 0..MaxOps, plan : AllPlans \cup {NoPlan},
     path : {"none", "ingest", "batch", "update", "query"},
     prior : BOOLEAN, modifies : BOOLEAN,
     scope : {"none", "autocommit", "caller", "savepoint"}, started : BOOLEAN,
     part : Parts, failed : {"no", "client", "sql", "missing", "dead"},
     retried : BOOLEAN]

SessionType ==
    /\ autocommit \in BOOLEAN /\ saved \in BOOLEAN /\ aborted \in BOOLEAN
    /\ alive \in BOOLEAN
    /\ txn \subseteq Writes /\ keep \subseteq Writes /\ durable \subseteq Writes

DriverType ==
    /\ lock \in Threads \cup {Free} /\ modified \in BOOLEAN /\ poison \in BOOLEAN
    /\ query \in [Threads -> Scripts \cup {NoQuery}] /\ target \in [Threads -> BOOLEAN]

HistoryType ==
    /\ callerMode \in BOOLEAN
    /\ issued \in 0..MaxOps
    /\ result \in [Ids -> {"none", "running", "ok", "done", "err", "lost", "failed"}]
    /\ executed \in [Ids -> SUBSET Parts]
    /\ tracked \subseteq Ids /\ partialOk \subseteq Ids /\ undone \subseteq Ids

\* Type correctness of the shared connection, the statements and the operations
\* in progress; a part number never leaves the bound, an operation its scopes.
TypeOK ==
    /\ SessionType /\ DriverType /\ HistoryType
    /\ pc \in [Threads -> Labels]
    /\ op \in [Threads -> Operations]

WritesOf(i) == { <<i, k>> : k \in executed[i] }

\* Failure atomicity: a multi-row update or an ingest that reported an error
\* leaves none of its parts committed, whichever commit path ends the caller's
\* transaction and whichever thread takes it; the exceptions are windows kept
\* under ingest_partial=allow and a COMMIT whose reply was lost, which is still
\* all or nothing.
FailedOperationsLeaveNothing ==
    \A i \in Ids :
        /\ result[i] = "err" /\ i \notin partialOk => durable \cap ({i} \X Parts) = {}
        /\ result[i] = "lost" => WritesOf(i) \subseteq durable

\* A successful operation is never undone piecemeal (finish_atomic of one
\* operation cannot discard another's work): the writes of a multi-row update
\* or an ingest stay in the open transaction or become durable together, those
\* of a text, which may hold a COMMIT between them, stay or become durable,
\* until the whole transaction is rolled back.
AcknowledgedWritesKept ==
    \A i \in Ids :
        /\ result[i] = "ok" =>
              WritesOf(i) \subseteq txn \/ WritesOf(i) \subseteq durable \/ i \in undone
        /\ result[i] = "done" => WritesOf(i) \subseteq txn \cup durable \/ i \in undone

\* Between operations, leftovers of a failed operation in a transaction that
\* the server would commit always carry the rollback-only mark (poison_ingest,
\* poison_transaction), so guard_transaction_commit can stop every COMMIT.
LeftoversArePoisoned ==
    lock = Free /\ ~aborted /\ ~poison =>
        \A w \in txn : result[w[1]] = "err" => w[1] \in partialOk

\* Whatever way an autocommit-scope operation ends, the session is back in the
\* mode the caller chose once the connection is unlocked (finish_atomic).
AutocommitRestored == lock = Free /\ alive => autocommit = callerMode

\* With no call in progress, a transaction holding writes of a call whose SQL
\* text may modify data is known to be modified, although the flag is raised
\* and cleared outside the connection lock by other threads.
WritesAreTracked ==
    /\ alive /\ \A t \in Threads : pc[t] = "idle"
    /\ \E w \in txn : w[1] \in tracked
    => modified

\* The rollback-only mark never survives into autocommit mode, where ROLLBACK
\* is not available to clear it.
PoisonNeedsTransaction == poison /\ alive /\ lock = Free => ~autocommit

\* One thread at most has used its statement; others may still call commit,
\* rollback and set_option(AutoCommit) on the connection.
HasStatement(t) == query[t] # NoQuery \/ target[t]
OneCaller == \A t, u \in Threads : HasStatement(t) /\ HasStatement(u) => t = u

\* While one thread executes statements, begin_atomic never opens a savepoint
\* over writes of calls that raised transaction_modified: the prior_writes it is
\* given is exact enough although it was read before the lock, and although
\* other threads may commit, roll back or change the mode in between.
TrackedWritesBlockSavepoints == OneCaller /\ saved => Owners(keep) \cap tracked = {}

\* Operation savepoints are restricted to transactions without prior writes:
\* begin_atomic opens one only when the transaction holds nothing yet.
SavepointsOnlyInCleanTransactions == saved => keep = {}

\* A successful SQL COMMIT clears the write tracking, on the query path and on
\* the update path alike.
CommitClearsTracking ==
    [][\A t \in Threads :
         pc[t] = "script" /\ pc'[t] = "drop" /\ query[t] = <<"commit">>
            /\ result'[op[t].id] = "done" => ~modified']_vars
=============================================================================
