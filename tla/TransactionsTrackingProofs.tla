--------------------- MODULE TransactionsTrackingProofs ---------------------
(***************************************************************************)
(* What the shared flags of a connection and its savepoints are worth, for *)
(* any number of threads, operations and parts: the autocommit mode is     *)
(* restored, acknowledged writes are kept, tracked writes are known, and   *)
(* the rollback-only mark stays inside an explicit transaction.            *)
(*                                                                         *)
(* Each property is about the moments when the connection is unlocked or   *)
(* nobody calls.  The invariants below carry it through the operations in  *)
(* between: which mode a scope has to restore, which writes are in the     *)
(* transaction for the one that holds the lock, and who will raise         *)
(* transaction_modified again after another thread has cleared it.         *)
(***************************************************************************)
EXTENDS TransactionsProofs

\* A scope knows the mode it has to restore, a savepoint scope has its
\* savepoint, and a marked transaction is an explicit one.
ModeInv ==
    /\ alive /\ lock = Free => autocommit = callerMode
    /\ alive /\ poison => ~callerMode
    /\ \A t \in Threads : alive /\ pc[t] = "script" => autocommit = callerMode
    /\ \A t \in Threads :
         alive /\ pc[t] \in InScope =>
            /\ op[t].scope = "autocommit" <=> callerMode
            /\ op[t].scope = "savepoint" => saved

\* Where the writes of operation i are while the transaction holds ws: in one
\* place, or divided by a COMMIT in the text that made them.
Together(i, ws) == WritesOf(i) \subseteq ws \/ WritesOf(i) \subseteq durable \/ i \in undone
Within(i, ws)   == WritesOf(i) \subseteq ws \cup durable \/ i \in undone

\* ws and what is durable hold every acknowledged write.
Kept(ws) ==
    \A i \in Ids : /\ result[i] = "ok" => Together(i, ws)
                   /\ result[i] = "done" => Within(i, ws)

\* That is so of the transaction, of what ROLLBACK TO SAVEPOINT would leave of
\* it, and of the operation that holds the lock.
KeptInv ==
    /\ Kept(txn) /\ (saved => Kept(keep))
    /\ \A t \in Threads : pc[t] \in InScope => Together(op[t].id, txn)
    /\ \A t \in Threads : pc[t] = "script" => Within(op[t].id, txn)

\* Tracked writes are covered by transaction_modified or by the guard of an
\* operation that has yet to drop it; after a COMMIT in a text the transaction
\* holds the writes of that text alone.
InProgress(i) == \E t \in Threads : pc[t] # "idle" /\ op[t].id = i
TrackInv ==
    /\ \A i \in tracked : i <= issued
    /\ \A t \in Threads : pc[t] # "idle" => (op[t].id \in tracked <=> op[t].modifies)
    /\ \A w \in txn \cup keep : w[1] \in tracked => modified \/ InProgress(w[1])
    /\ \A t \in Threads : pc[t] = "script" =>
         \A r \in 1..op[t].part : query[t][r] = "commit" => txn \subseteq OwnWrites(t)

\* A single caller that saw no prior writes has none before it; a thread without
\* a statement has no operation.
Untracked(ws) == \A w \in ws : w[1] \notin tracked
CallerInv ==
    /\ \A t \in Threads : pc[t] # "idle" => HasStatement(t)
    /\ OneCaller =>
         /\ \A t \in Threads : pc[t] = "guarded" /\ ~op[t].prior => Untracked(txn)
         /\ Untracked(keep)

USE BoundsAssumption, ThreadsAssumption
    DEF server, driver, stmt, history, Ids, Parts, Writes, Free, Holding, InScope

-----------------------------------------------------------------------------
(* Steps inside a scope.                                                    *)

\* A step inside a scope.
Advances(t) ==
    /\ pc[t] \in InScope /\ pc'[t] \in InScope /\ lock' = t
    /\ op'[t].id = op[t].id /\ op'[t].scope = op[t].scope /\ op'[t].modifies = op[t].modifies
    /\ \A u \in Threads : u # t => pc'[u] = pc[u] /\ op'[u] = op[u]
    /\ UNCHANGED <<autocommit, saved, keep, durable, alive, undone, modified, poison, query,
                   target, tracked, callerMode, result, issued>>
    /\ \/ UNCHANGED <<txn, executed>>
       \/ \E k \in Parts :
            /\ txn' = txn \cup {<<op[t].id, k>>}
            /\ executed' = [executed EXCEPT ![op[t].id] = @ \cup {k}]

\* Operation o is operation s at another place of its scope.
Same(o, s) == o.id = s.id /\ o.scope = s.scope /\ o.modifies = s.modifies

\* An operation that goes on with its identity, scope and guard advances.
LEMMA ContinueAdvances ==
    ASSUME pc \in [Threads -> Labels], op \in [Threads -> Operations], NEW t \in Threads,
           NEW l \in InScope, NEW o, Same(o, op[t]),
           pc[t] \in InScope, Continue(t, l, o),
           UNCHANGED <<modified, poison, stmt, issued, tracked, callerMode>>,
           UNCHANGED <<autocommit, saved, keep, durable, alive, undone>>,
           \/ UNCHANGED <<txn, executed>>
           \/ \E k \in Parts :
                /\ txn' = txn \cup {<<op[t].id, k>>}
                /\ executed' = [executed EXCEPT ![op[t].id] = @ \cup {k}]
    PROVE  Advances(t)
BY DEF Continue, Same, Advances

\* So does one that runs a server command, however the command ends.
LEMMA RunPartAdvances ==
    ASSUME pc \in [Threads -> Labels], op \in [Threads -> Operations], ScopeInv,
           NEW t \in Threads, NEW k \in Parts, NEW o \in Operations, Same(o, op[t]),
           pc[t] \in InScope, RunPart(t, k, "parts", o),
           UNCHANGED <<modified, poison, stmt, issued, tracked, callerMode>>
    PROVE  Advances(t)
<1>. DEFINE r == [o EXCEPT !.part = k]
<1>1. Same(r, op[t]) /\ Same([r EXCEPT !.failed = "client"], op[t])
        /\ \A f \in {"sql", "missing", "dead"} : Same([o EXCEPT !.failed = f], op[t])
  BY DEF Same, Operations
<1>2. ~autocommit /\ o.id = op[t].id
  BY DEF ScopeInv, Same
<1>. HIDE DEF r
<1>3. CASE /\ ServerWrite(<<o.id, k>>) /\ executed' = [executed EXCEPT ![o.id] = @ \cup {k}]
           /\ Continue(t, "parts", r) \/ Fail(t, "client", r)
  <2>1. /\ UNCHANGED <<autocommit, saved, keep, durable, alive, undone>>
        /\ txn' = txn \cup {<<op[t].id, k>>}
    BY <1>2, <1>3 DEF ServerWrite
  <2>. QED  BY <1>1, <1>2, <1>3, <2>1, ContinueAdvances, Zenon DEF Fail
<1>4. ASSUME NEW f \in {"sql", "missing", "dead"}, ServerError \/ UNCHANGED server,
             UNCHANGED executed, Fail(t, f, o)
      PROVE  Advances(t)
  <2>1. UNCHANGED <<autocommit, saved, keep, durable, alive, undone, txn>>
    BY <1>4 DEF ServerError
  <2>. QED  BY <1>1, <1>4, <2>1, ContinueAdvances DEF Fail
<1>. QED  BY <1>3, <1>4 DEF RunPart, r

\* The target, the parts, the stream and the staged move do no more.
LEMMA ScopeAdvances ==
    ASSUME pc \in [Threads -> Labels], op \in [Threads -> Operations], ScopeInv, NEW t \in Threads,
           PrepareTarget(t) \/ WritePart(t) \/ StreamFails(t) \/ StreamEnds(t) \/ MoveStage(t)
    PROVE  Advances(t)
<1>1. op[t] \in Operations /\ pc[t] \in InScope /\ Same(op[t], op[t])
  BY DEF PrepareTarget, WritePart, StreamFails, StreamEnds, MoveStage, Same
<1>2. \A b \in BOOLEAN : [op[t] EXCEPT !.started = b] \in Operations
                           /\ Same([op[t] EXCEPT !.started = b], op[t])
  BY <1>1 DEF Operations, Same
<1>3. \A o \in Operations, f \in {"client", "sql", "dead"} :
         Same(o, op[t]) => Same([o EXCEPT !.failed = f], op[t])
  BY DEF Operations, Same
<1>4. UNCHANGED <<modified, poison, stmt, issued, tracked, callerMode>>
  BY DEF PrepareTarget, WritePart, StreamFails, StreamEnds, MoveStage
<1>5. ASSUME NEW o \in Operations, Same(o, op[t]), NEW l \in InScope, NEW f \in {"client", "sql",
             "dead"},
             Continue(t, l, o) \/ Fail(t, f, o), ServerError \/ UNCHANGED server,
             UNCHANGED executed
      PROVE  Advances(t)
  <2>1. UNCHANGED <<autocommit, saved, keep, durable, alive, undone, txn>>
    BY <1>5 DEF ServerError
  <2>. QED  BY <1>1, <1>3, <1>4, <1>5, <2>1, ContinueAdvances, Zenon DEF Fail
<1>6. CASE PrepareTarget(t)
  <2>. DEFINE o == [op[t] EXCEPT !.started = @ \/ op[t].plan.route = "staged"]
  <2>1. o \in Operations /\ Same(o, op[t])
    BY <1>1, Zenon DEF Operations, Same
  <2>. HIDE DEF o
  <2>2. \/ RunPart(t, 0, "parts", o)
        \/ Continue(t, "parts", o) /\ UNCHANGED <<server, executed>>
        \/ ServerError /\ Fail(t, "sql", o) /\ UNCHANGED executed
        \/ Fail(t, IF alive THEN "client" ELSE "dead", op[t]) /\ UNCHANGED <<server, executed>>
    BY <1>6 DEF PrepareTarget, o
  <2>. QED  BY <1>1, <1>4, <1>5, <2>1, <2>2, RunPartAdvances
<1>7. CASE WritePart(t)
  <2>. DEFINE o == [op[t] EXCEPT !.started = TRUE]
  <2>1. o \in Operations /\ Same(o, op[t])
    BY <1>2, Zenon
  <2>2. o.part + 1 \in Parts
    BY <1>7, <2>1 DEF WritePart, Operations
  <2>. HIDE DEF o
  <2>3. RunPart(t, o.part + 1, "parts", o)
    BY <1>7 DEF WritePart, o
  <2>. QED  BY <1>1, <1>4, <2>1, <2>2, <2>3, RunPartAdvances
<1>8. CASE StreamFails(t)
  BY <1>1, <1>5, <1>8 DEF StreamFails
<1>9. CASE StreamEnds(t)
  BY <1>1, <1>5, <1>9 DEF StreamEnds
<1>10. CASE MoveStage(t)
  BY <1>1, <1>5, <1>10 DEF MoveStage
<1>. QED  BY <1>6, <1>7, <1>8, <1>9, <1>10

-----------------------------------------------------------------------------
(* Acknowledged writes.                                                     *)

\* An operation that is waiting or at work is recorded as running.
LEMMA RunningOperation ==
    ASSUME IdentityInv, issued \in 0..MaxOps, NEW t \in Threads, pc[t] \notin {"idle", "drop"}
    PROVE  op[t].id \in Ids /\ result[op[t].id] = "running"
BY DEF IdentityInv

\* The writes of an operation carry its number.
LEMMA WritesOwned ==
    ASSUME NEW i \in Ids
    PROVE  /\ \A w \in WritesOf(i) : w[1] = i
           /\ executed[i]' = executed[i] => WritesOf(i)' = WritesOf(i)
BY DEF WritesOf

\* The session keeps what it had, commits it or rolls the transaction back.
SessionMove ==
    /\ durable \subseteq durable' /\ undone \subseteq undone'
    /\ txn \subseteq txn' \/ txn \subseteq durable' \/ Owners(txn) \subseteq undone'

\* Such a step of the session loses no write it has not given up.
LEMMA StaysWritten ==
    ASSUME NEW i \in Ids, SessionMove, WritesOf(i)' = WritesOf(i)
    PROVE  /\ Together(i, txn) => Together(i, txn)'
           /\ Within(i, txn) => Within(i, txn)'
<1>1. \A w \in WritesOf(i) : w \in txn => i \in Owners(txn)
  BY WritesOwned DEF Owners
<1>. HIDE DEF Owners, WritesOf
<1>. QED  BY <1>1 DEF Together, Within, SessionMove

\* Operations acknowledged by the step have their writes in one place, and
\* those acknowledged before have the writes they had.
Acknowledges ==
    \A i \in Ids : result'[i] \in {"ok", "done"} =>
        /\ WritesOf(i)' = WritesOf(i)
        /\ \/ result'[i] = result[i]
           \/ /\ ~saved'
              /\ result'[i] = "ok" => Together(i, txn)
              /\ result'[i] = "done" => Within(i, txn)

\* Thread u is inside an operation: a new one, the one it was in, or one whose
\* writes are still where they have to be.
Proceeds(u) ==
    \/ WritesOf(op[u].id)' = {}
    \/ /\ op'[u].id = op[u].id /\ op[u].id \in Ids
       /\ WritesOf(op[u].id)' = WritesOf(op[u].id)
       /\ pc[u] \in Holding /\ (pc'[u] = "script" <=> pc[u] = "script")
    \/ /\ pc'[u] \in InScope => Together(op[u].id, txn)'
       /\ pc'[u] = "script" => Within(op[u].id, txn)'

\* What KeptInv needs of a step.
LEMMA KeptFrame ==
    ASSUME KeptInv, SessionMove, Acknowledges,
           saved' => (saved /\ keep' = keep) \/ keep' = txn,
           \A u \in Threads : pc'[u] \in Holding => Proceeds(u)
    PROVE  KeptInv'
<1>1. Kept(txn)'
  <2>1. SUFFICES ASSUME NEW i \in Ids
                 PROVE  /\ result'[i] = "ok" => Together(i, txn)'
                        /\ result'[i] = "done" => Within(i, txn)'
    BY DEF Kept
  <2>. QED  BY StaysWritten DEF KeptInv, Kept, Acknowledges
<1>2. saved' => Kept(keep)'
  <2>1. SUFFICES ASSUME NEW i \in Ids, saved'
                 PROVE  /\ result'[i] = "ok" => Together(i, keep)'
                        /\ result'[i] = "done" => Within(i, keep)'
    BY DEF Kept
  <2>2. result'[i] \in {"ok", "done"} => result'[i] = result[i] /\ WritesOf(i)' = WritesOf(i)
    BY <2>1 DEF Acknowledges
  <2>. HIDE DEF WritesOf
  <2>3. PICK ws \in {keep, txn} : keep' = ws /\ Kept(ws)
    BY <2>1 DEF KeptInv
  <2>4. /\ result[i] = "ok" => Together(i, ws)
        /\ result[i] = "done" => Within(i, ws)
    BY <2>3 DEF Kept
  <2>. QED  BY <2>2, <2>3, <2>4 DEF Together, Within, SessionMove
<1>3. ASSUME NEW u \in Threads, pc'[u] \in Holding
      PROVE  /\ pc'[u] \in InScope => Together(op[u].id, txn)'
             /\ pc'[u] = "script" => Within(op[u].id, txn)'
  <2>1. CASE WritesOf(op[u].id)' = {}
    BY <2>1 DEF Together, Within
  <2>2. CASE /\ op'[u].id = op[u].id /\ op[u].id \in Ids
             /\ WritesOf(op[u].id)' = WritesOf(op[u].id)
             /\ pc[u] \in Holding /\ (pc'[u] = "script" <=> pc[u] = "script")
    BY <1>3, <2>2, StaysWritten DEF KeptInv
  <2>. QED  BY <1>3, <2>1, <2>2 DEF Proceeds
<1>. QED  BY <1>1, <1>2, <1>3 DEF KeptInv

\* A statement that succeeds adds its write to those of its operation.
LEMMA WriteAdded ==
    ASSUME NEW i \in Ids, NEW k, executed \in [Ids -> SUBSET Parts],
           executed' = [executed EXCEPT ![i] = @ \cup {k}]
    PROVE  /\ WritesOf(i)' = WritesOf(i) \cup {<<i, k>>}
           /\ \A j \in Ids : j # i => WritesOf(j)' = WritesOf(j)
<1>1. executed'[i] = executed[i] \cup {k} /\ \A j \in Ids : j # i => executed'[j] = executed[j]
  OBVIOUS
<1>. QED  BY <1>1, Zenon DEF WritesOf

\* The same for a step after which nobody holds the lock.
LEMMA KeptReturn ==
    ASSUME LockInv', SessionInv', KeptInv, SessionMove, Acknowledges, lock' = Free
    PROVE  KeptInv'
<1>1. ~saved' /\ \A u \in Threads : pc'[u] \notin Holding
  BY DEF SessionInv, LockInv
<1>. QED  BY <1>1, KeptFrame

-----------------------------------------------------------------------------
(* Every step keeps each invariant.                                         *)

\* begin_atomic leaves autocommit, finish_atomic restores it; only the calls that
\* need an unlocked connection change what is to be restored.
LEMMA ModeInvStep ==
    ASSUME TypeOK, LockInv, LockInv', SessionInv, ScopeInv, ModeInv, Next
    PROVE  ModeInv'
<1>0. /\ autocommit \in BOOLEAN /\ saved \in BOOLEAN /\ alive \in BOOLEAN
      /\ txn \subseteq Writes /\ keep \subseteq Writes /\ durable \subseteq Writes
      /\ lock \in Threads \cup {Free} /\ modified \in BOOLEAN /\ poison \in BOOLEAN
      /\ callerMode \in BOOLEAN /\ issued \in 0..MaxOps
      /\ result \in [Ids -> {"none", "running", "ok", "done", "err", "lost", "failed"}]
      /\ executed \in [Ids -> SUBSET Parts]
      /\ pc \in [Threads -> Labels] /\ op \in [Threads -> Operations]
  BY DEF TypeOK, SessionType, DriverType, HistoryType
<1>. USE <1>0
<1>1. ASSUME NEW t \in Threads, SetTargetTable(t) PROVE ModeInv'
  BY <1>1 DEF SetTargetTable, ModeInv, LockInv, ScopeInv, SessionInv
<1>2. ASSUME NEW t \in Threads, DropWriteGuard(t) PROVE ModeInv'
  BY <1>2 DEF DropWriteGuard, ModeInv, LockInv, ScopeInv, SessionInv
<1>3. ASSUME NEW t \in Threads, RejectEarly(t) PROVE ModeInv'
  BY <1>3 DEF RejectEarly, ModeInv, LockInv, ScopeInv, SessionInv
<1>4. ASSUME NEW t \in Threads, OpenScope(t) PROVE ModeInv'
  <2>1. /\ alive /\ lock = Free /\ lock' = t /\ autocommit' = FALSE
        /\ UNCHANGED <<alive, callerMode, poison>>
        /\ saved' = (ScopeOf(op[t]) = "savepoint")
    BY <1>4 DEF OpenScope, Continue
  <2>2. op'[t].scope = ScopeOf(op[t])
    BY <1>4 DEF OpenScope, Continue, Operations
  <2>3. \A u \in Threads : pc'[u] \in Holding => u = t
    BY <2>1 DEF LockInv
  <2>4. pc'[t] # "script"
    BY <1>4 DEF OpenScope, Continue
  <2>5. ScopeOf(op[t]) = "autocommit" <=> callerMode
    BY <2>1 DEF ModeInv, ScopeOf
  <2>. QED  BY <2>1, <2>2, <2>3, <2>4, <2>5, Zenon DEF ModeInv
<1>5. ASSUME NEW t \in Threads, RefuseScope(t) PROVE ModeInv'
  BY <1>5 DEF RefuseScope, Return, ModeInv, LockInv, ScopeInv, SessionInv
<1>6. ASSUME NEW t \in Threads, OpenScopeFails(t) PROVE ModeInv'
  BY <1>6 DEF OpenScopeFails, ServerError, Return, ModeInv, LockInv, ScopeInv, SessionInv
<1>7. ASSUME NEW t \in Threads, CommitScope(t) PROVE ModeInv'
  <2>1. /\ lock' = Free /\ autocommit' = TRUE /\ callerMode = TRUE
        /\ UNCHANGED <<alive, callerMode, poison>>
    BY <1>7 DEF CommitScope, RestoreAutocommit, Return, ModeInv
  <2>2. \A u \in Threads : pc'[u] \notin Holding
    BY <2>1 DEF LockInv
  <2>. QED  BY <2>1, <2>2 DEF ModeInv
<1>8. ASSUME NEW t \in Threads, CommitScopeLost(t) PROVE ModeInv'
  BY <1>8 DEF CommitScopeLost, ServerCommit, Return, ModeInv, LockInv, ScopeInv, SessionInv
<1>9. ASSUME NEW t \in Threads, RollbackScope(t) PROVE ModeInv'
  <2>1. /\ lock' = Free /\ autocommit' = TRUE /\ callerMode = TRUE
        /\ UNCHANGED <<alive, callerMode, poison>>
    BY <1>9 DEF RollbackScope, RestoreAutocommit, ReturnOrRetry, Return, ModeInv
  <2>2. \A u \in Threads : pc'[u] \notin Holding
    BY <2>1 DEF LockInv
  <2>. QED  BY <2>1, <2>2 DEF ModeInv
<1>10. ASSUME NEW t \in Threads, AbandonScope(t) PROVE ModeInv'
  BY <1>10 DEF AbandonScope, Return, ModeInv, LockInv, ScopeInv, SessionInv
<1>11. ASSUME NEW t \in Threads, FinishCaller(t) PROVE ModeInv'
  BY <1>11 DEF FinishCaller, Return, MustPoison, ModeInv, LockInv, ScopeInv, SessionInv
<1>12. ASSUME NEW t \in Threads, ReleaseScope(t) PROVE ModeInv'
  BY <1>12 DEF ReleaseScope, Return, ModeInv, LockInv, ScopeInv, SessionInv
<1>13. ASSUME NEW t \in Threads, RecoverScope(t) PROVE ModeInv'
  BY <1>13 DEF RecoverScope, RollbackToSavepoint, ReturnOrRetry, Return, Restarted, NewOperation,
     ModeInv, LockInv, ScopeInv, SessionInv
<1>14. ASSUME NEW t \in Threads, RecoverScopeFails(t) PROVE ModeInv'
  BY <1>14 DEF RecoverScopeFails, Return, ModeInv, LockInv, ScopeInv, SessionInv
<1>15. ASSUME NEW t \in Threads, BeginScript(t) PROVE ModeInv'
  <2>1. /\ lock = Free /\ lock' \in {t, Free}
        /\ UNCHANGED <<alive, autocommit, callerMode, poison>>
    BY <1>15 DEF BeginScript, Return, Continue
  <2>2. pc'[t] \in {"drop", "script"}
    BY <1>15 DEF BeginScript, Return, Continue
  <2>3. \A u \in Threads : pc'[u] \in Holding => u = t
    BY <2>1 DEF LockInv
  <2>. QED  BY <2>1, <2>2, <2>3, Zenon DEF ModeInv
<1>16. ASSUME NEW t \in Threads, ScriptRead(t) PROVE ModeInv'
  BY <1>16 DEF ScriptRead, AtStatement, NextStatement, Continue, ModeInv, LockInv, ScopeInv,
     SessionInv
<1>17. ASSUME NEW t \in Threads, ScriptWrite(t) PROVE ModeInv'
  BY <1>17 DEF ScriptWrite, AtStatement, NextStatement, Continue, ServerWrite, ModeInv, LockInv,
     ScopeInv, SessionInv
<1>18. ASSUME NEW t \in Threads, ScriptCommit(t) PROVE ModeInv'
  BY <1>18 DEF ScriptCommit, AtStatement, NextStatement, Continue, ServerCommit, ModeInv, LockInv,
     ScopeInv, SessionInv
<1>19. ASSUME NEW t \in Threads, ScriptCommitFails(t) PROVE ModeInv'
  BY <1>19 DEF ScriptCommitFails, AtStatement, Return, ServerForget, ModeInv, LockInv, ScopeInv,
     SessionInv
<1>20. ASSUME NEW t \in Threads, ScriptRollback(t) PROVE ModeInv'
  BY <1>20 DEF ScriptRollback, AtStatement, NextStatement, Continue, ServerForget, ModeInv,
     LockInv,
     ScopeInv, SessionInv
<1>21. ASSUME NEW t \in Threads, ScriptError(t) PROVE ModeInv'
  BY <1>21 DEF ScriptError, AtStatement, Return, ServerError, ModeInv, LockInv, ScopeInv,
     SessionInv
<1>22. ASSUME NEW t \in Threads, ScriptAbandoned(t) PROVE ModeInv'
  BY <1>22 DEF ScriptAbandoned, Return, ModeInv, LockInv, ScopeInv, SessionInv
<1>23. ASSUME NEW t \in Threads, EndScript(t) PROVE ModeInv'
  BY <1>23 DEF EndScript, Return, ModeInv, LockInv, ScopeInv, SessionInv
<1>24. ASSUME NEW t \in Threads, ConnectionCommit(t) PROVE ModeInv'
  BY <1>24 DEF ConnectionCommit, ServerCommit, ModeInv, LockInv, ScopeInv, SessionInv
<1>25. ASSUME NEW t \in Threads, CommitConflict(t) PROVE ModeInv'
  BY <1>25 DEF CommitConflict, ServerForget, ModeInv, LockInv, ScopeInv, SessionInv
<1>26. ASSUME NEW t \in Threads, ConnectionRollback(t) PROVE ModeInv'
  BY <1>26 DEF ConnectionRollback, ServerForget, ModeInv, LockInv, ScopeInv, SessionInv
<1>27. ASSUME NEW t \in Threads, EnableAutoCommit(t) PROVE ModeInv'
  BY <1>27 DEF EnableAutoCommit, ServerCommit, CommitAllowed, ModeInv, LockInv, ScopeInv,
     SessionInv
<1>28. ASSUME NEW t \in Threads, DisableAutoCommit(t) PROVE ModeInv'
  BY <1>28, Zenon DEF DisableAutoCommit, ModeInv, LockInv, ScopeInv, SessionInv
<1>29. ASSUME NEW t \in Threads, Advances(t) PROVE ModeInv'
  BY <1>29 DEF Advances, ModeInv, LockInv, ScopeInv, SessionInv
<1>30. ASSUME NEW t \in Threads, NEW q \in Scripts, SetSqlQuery(t, q) PROVE ModeInv'
  BY <1>30 DEF SetSqlQuery, ModeInv, LockInv, ScopeInv, SessionInv
<1>31. ASSUME NEW t \in Threads, NEW p, NEW path, TakeWriteGuard(t, p, path) PROVE ModeInv'
  BY <1>31 DEF TakeWriteGuard, NewOperation, ModeInv, LockInv, ScopeInv, SessionInv
<1>32. CASE LoseSession
  BY <1>32 DEF LoseSession, ServerForget, ModeInv, LockInv, ScopeInv, SessionInv
<1>. QED  BY ScopeAdvances, <1>1, <1>2, <1>3, <1>4, <1>5, <1>6, <1>7, <1>8, <1>9, <1>10, <1>11,
             <1>12, <1>13, <1>14, <1>15, <1>16, <1>17, <1>18, <1>19, <1>20, <1>21, <1>22, <1>23,
             <1>24, <1>25, <1>26, <1>27, <1>28, <1>29, <1>30, <1>31, <1>32
   DEF Next, Statement, Operation, Script, TransactionCall, CallIngest, CallBatch, CallScript

\* COMMIT moves the whole transaction, ROLLBACK gives the whole of it up, and
\* ROLLBACK TO SAVEPOINT leaves what was there when the scope began.
LEMMA KeptInvStep ==
    ASSUME TypeOK, LockInv, LockInv', IdentityInv, SessionInv, SessionInv', WaitingInv, ScopeInv,
           ModeInv, KeptInv, Next
    PROVE  KeptInv'
<1>0. /\ autocommit \in BOOLEAN /\ saved \in BOOLEAN /\ alive \in BOOLEAN
      /\ txn \subseteq Writes /\ keep \subseteq Writes /\ durable \subseteq Writes
      /\ lock \in Threads \cup {Free} /\ modified \in BOOLEAN /\ poison \in BOOLEAN
      /\ callerMode \in BOOLEAN /\ issued \in 0..MaxOps
      /\ result \in [Ids -> {"none", "running", "ok", "done", "err", "lost", "failed"}]
      /\ executed \in [Ids -> SUBSET Parts]
      /\ pc \in [Threads -> Labels] /\ op \in [Threads -> Operations]
  BY DEF TypeOK, SessionType, DriverType, HistoryType
<1>. USE <1>0
<1>1. ASSUME NEW t \in Threads, SetTargetTable(t) PROVE KeptInv'
  <2>1. SessionMove /\ (saved' => saved /\ keep' = keep)
    BY <1>1 DEF SetTargetTable, SessionMove
  <2>2. \A i \in Ids : result'[i] \in {"ok", "done"} => result'[i] = result[i]
    BY <1>1 DEF SetTargetTable, IdentityInv
  <2>3. executed' = executed
    BY <1>1 DEF SetTargetTable
  <2>4. \A u \in Threads : pc'[u] \in Holding =>
          pc[u] = pc'[u] /\ op'[u] = op[u] /\ op[u].id \in Ids
    BY <1>1 DEF SetTargetTable, IdentityInv
  <2>. QED  BY <2>1, <2>2, <2>3, <2>4, KeptFrame, WritesOwned DEF Acknowledges, Proceeds
<1>2. ASSUME NEW t \in Threads, DropWriteGuard(t) PROVE KeptInv'
  <2>1. SessionMove /\ (saved' => saved /\ keep' = keep)
    BY <1>2 DEF DropWriteGuard, SessionMove
  <2>2. \A i \in Ids : result'[i] \in {"ok", "done"} => result'[i] = result[i]
    BY <1>2 DEF DropWriteGuard, IdentityInv
  <2>3. executed' = executed
    BY <1>2 DEF DropWriteGuard
  <2>4. \A u \in Threads : pc'[u] \in Holding =>
          pc[u] = pc'[u] /\ op'[u] = op[u] /\ op[u].id \in Ids
    BY <1>2 DEF DropWriteGuard, IdentityInv
  <2>. QED  BY <2>1, <2>2, <2>3, <2>4, KeptFrame, WritesOwned DEF Acknowledges, Proceeds
<1>3. ASSUME NEW t \in Threads, RejectEarly(t) PROVE KeptInv'
  <2>1. SessionMove /\ (saved' => saved /\ keep' = keep)
    BY <1>3 DEF RejectEarly, SessionMove
  <2>2. \A i \in Ids : result'[i] \in {"ok", "done"} => result'[i] = result[i]
    BY <1>3 DEF RejectEarly, IdentityInv
  <2>3. executed' = executed
    BY <1>3 DEF RejectEarly
  <2>4. \A u \in Threads : pc'[u] \in Holding =>
          pc[u] = pc'[u] /\ op'[u] = op[u] /\ op[u].id \in Ids
    BY <1>3 DEF RejectEarly, IdentityInv
  <2>. QED  BY <2>1, <2>2, <2>3, <2>4, KeptFrame, WritesOwned DEF Acknowledges, Proceeds
<1>4. ASSUME NEW t \in Threads, OpenScope(t) PROVE KeptInv'
  <2>1. SessionMove /\ (saved' => keep' = txn)
    BY <1>4, Zenon DEF OpenScope, SessionMove
  <2>2. result' = result /\ executed' = executed
    BY <1>4 DEF OpenScope, Continue
  <2>3. executed[op[t].id] = {}
    BY <1>4 DEF OpenScope, WaitingInv
  <2>6. op'[t].id = op[t].id
    BY <1>4 DEF OpenScope, Continue, Operations
  <2>4. \A u \in Threads : pc'[u] \in Holding => u = t
    BY <1>4 DEF OpenScope, Continue, LockInv
  <2>5. WritesOf(op[t].id)' = {}
    BY <2>2, <2>3, <2>6 DEF WritesOf
  <2>. QED  BY <2>1, <2>2, <2>4, <2>5, KeptFrame, WritesOwned DEF Acknowledges, Proceeds
<1>5. ASSUME NEW t \in Threads, RefuseScope(t) PROVE KeptInv'
  <2>1. SessionMove
    BY <1>5 DEF RefuseScope, Return, SessionMove, SessionInv
  <2>2. lock' = Free /\ \A i \in Ids : result'[i] \in {"ok", "done"} => result'[i] = result[i]
    BY <1>5 DEF RefuseScope, Return, IdentityInv
  <2>3. executed' = executed
    BY <1>5 DEF RefuseScope, Return
  <2>. QED  BY <2>1, <2>2, <2>3, KeptReturn, WritesOwned DEF Acknowledges
<1>6. ASSUME NEW t \in Threads, OpenScopeFails(t) PROVE KeptInv'
  <2>1. SessionMove
    BY <1>6 DEF OpenScopeFails, ServerError, Return, SessionMove, SessionInv
  <2>2. lock' = Free /\ \A i \in Ids : result'[i] \in {"ok", "done"} => result'[i] = result[i]
    BY <1>6 DEF OpenScopeFails, ServerError, Return, IdentityInv
  <2>3. executed' = executed
    BY <1>6 DEF OpenScopeFails, ServerError, Return
  <2>. QED  BY <2>1, <2>2, <2>3, KeptReturn, WritesOwned DEF Acknowledges
<1>7. ASSUME NEW t \in Threads, CommitScope(t) PROVE KeptInv'
  <2>1. SessionMove
    BY <1>7 DEF CommitScope, ServerCommit, RestoreAutocommit, Return, SessionMove
  <2>2. lock' = Free /\ executed' = executed
          /\ \A i \in Ids : i # op[t].id => result'[i] = result[i]
    BY <1>7 DEF CommitScope, ServerCommit, RestoreAutocommit, Return
  <2>3. result'[op[t].id] = "ok" /\ Together(op[t].id, txn)
    BY <1>7 DEF CommitScope, ServerCommit, RestoreAutocommit, Return, KeptInv, IdentityInv
  <2>4. ~saved'
    BY <2>2 DEF SessionInv
  <2>. QED  BY <2>1, <2>2, <2>3, <2>4, KeptReturn, WritesOwned DEF Acknowledges
<1>8. ASSUME NEW t \in Threads, CommitScopeLost(t) PROVE KeptInv'
  <2>1. SessionMove
    BY <1>8 DEF CommitScopeLost, ServerCommit, Return, SessionMove, SessionInv
  <2>2. lock' = Free /\ \A i \in Ids : result'[i] \in {"ok", "done"} => result'[i] = result[i]
    BY <1>8 DEF CommitScopeLost, ServerCommit, Return, IdentityInv
  <2>3. executed' = executed
    BY <1>8 DEF CommitScopeLost, ServerCommit, Return
  <2>. QED  BY <2>1, <2>2, <2>3, KeptReturn, WritesOwned DEF Acknowledges
<1>9. ASSUME NEW t \in Threads, RollbackScope(t) PROVE KeptInv'
  <2>1. SessionMove /\ lock' = Free
    BY <1>9 DEF RollbackScope, ServerForget, SessionMove, ReturnOrRetry, Return
  <2>0. pc[t] = "finish"
    BY <1>9 DEF RollbackScope
  <2>2. op[t].id \in Ids /\ result[op[t].id] = "running"
    BY <2>0, RunningOperation
  <2>3. /\ \A i \in Ids : i # op[t].id => executed'[i] = executed[i] /\ result'[i] = result[i]
        /\ result'[op[t].id] \in {"running", "err"}
    BY <1>9, <2>2 DEF RollbackScope, ReturnOrRetry, Return
  <2>. QED  BY <2>1, <2>2, <2>3, KeptReturn, WritesOwned DEF Acknowledges
<1>10. ASSUME NEW t \in Threads, AbandonScope(t) PROVE KeptInv'
  <2>1. SessionMove
    BY <1>10 DEF AbandonScope, Return, SessionMove, SessionInv
  <2>2. lock' = Free /\ \A i \in Ids : result'[i] \in {"ok", "done"} => result'[i] = result[i]
    BY <1>10 DEF AbandonScope, Return, IdentityInv
  <2>3. executed' = executed
    BY <1>10 DEF AbandonScope, Return
  <2>. QED  BY <2>1, <2>2, <2>3, KeptReturn, WritesOwned DEF Acknowledges
<1>11. ASSUME NEW t \in Threads, FinishCaller(t) PROVE KeptInv'
  <2>1. SessionMove
    BY <1>11 DEF FinishCaller, Return, MustPoison, SessionMove
  <2>2. lock' = Free /\ executed' = executed
          /\ \A i \in Ids : i # op[t].id => result'[i] = result[i]
    BY <1>11 DEF FinishCaller, Return, MustPoison
  <2>3. result'[op[t].id] \in {"ok", "err"} /\ Together(op[t].id, txn)
    BY <1>11 DEF FinishCaller, Return, MustPoison, KeptInv, IdentityInv
  <2>4. ~saved'
    BY <2>2 DEF SessionInv
  <2>. QED  BY <2>1, <2>2, <2>3, <2>4, KeptReturn, WritesOwned DEF Acknowledges
<1>12. ASSUME NEW t \in Threads, ReleaseScope(t) PROVE KeptInv'
  <2>1. SessionMove
    BY <1>12 DEF ReleaseScope, Return, SessionMove
  <2>2. lock' = Free /\ executed' = executed
          /\ \A i \in Ids : i # op[t].id => result'[i] = result[i]
    BY <1>12 DEF ReleaseScope, Return
  <2>3. result'[op[t].id] = "ok" /\ Together(op[t].id, txn)
    BY <1>12 DEF ReleaseScope, Return, KeptInv, IdentityInv
  <2>4. ~saved'
    BY <2>2 DEF SessionInv
  <2>. QED  BY <2>1, <2>2, <2>3, <2>4, KeptReturn, WritesOwned DEF Acknowledges
<1>13. ASSUME NEW t \in Threads, RecoverScope(t) PROVE KeptInv'
  <2>1. /\ txn' = keep /\ lock' = Free /\ UNCHANGED <<durable, undone>>
    BY <1>13 DEF RecoverScope, RollbackToSavepoint, ReturnOrRetry, Return
  <2>2. op[t].id \in Ids /\ result[op[t].id] = "running" /\ Kept(keep)
    BY <1>13 DEF RecoverScope, IdentityInv, ModeInv, KeptInv
  <2>3. /\ \A i \in Ids : i # op[t].id => executed'[i] = executed[i] /\ result'[i] = result[i]
        /\ result'[op[t].id] \in {"running", "err"}
    BY <1>13, <2>2 DEF RecoverScope, ReturnOrRetry, Return
  <2>4. \A i \in Ids : result'[i] \in {"ok", "done"} =>
           result'[i] = result[i] /\ WritesOf(i)' = WritesOf(i)
    BY <2>2, <2>3, WritesOwned
  <2>5. Kept(txn)'
    <3>. HIDE DEF WritesOf
    <3>. QED  BY <2>1, <2>2, <2>4 DEF Kept, Together, Within
  <2>6. ~saved' /\ \A u \in Threads : pc'[u] \notin Holding
    BY <2>1 DEF SessionInv, LockInv
  <2>. QED  BY <2>5, <2>6 DEF KeptInv
<1>14. ASSUME NEW t \in Threads, RecoverScopeFails(t) PROVE KeptInv'
  <2>1. SessionMove
    BY <1>14 DEF RecoverScopeFails, Return, SessionMove, SessionInv
  <2>2. lock' = Free /\ \A i \in Ids : result'[i] \in {"ok", "done"} => result'[i] = result[i]
    BY <1>14 DEF RecoverScopeFails, Return, IdentityInv
  <2>3. executed' = executed
    BY <1>14 DEF RecoverScopeFails, Return
  <2>. QED  BY <2>1, <2>2, <2>3, KeptReturn, WritesOwned DEF Acknowledges
<1>15. ASSUME NEW t \in Threads, BeginScript(t) PROVE KeptInv'
  <2>1. SessionMove /\ executed' = executed /\ (saved' => saved /\ keep' = keep)
    BY <1>15 DEF BeginScript, SessionMove
  <2>2. \A i \in Ids : result'[i] \in {"ok", "done"} => result'[i] = result[i]
    BY <1>15 DEF BeginScript, Return, Continue, IdentityInv
  <2>3. executed[op[t].id] = {} /\ op'[t].id = op[t].id
    BY <1>15 DEF BeginScript, Return, Continue, WaitingInv
  <2>4. \A u \in Threads : pc'[u] \in Holding => u = t
    BY <1>15 DEF BeginScript, Return, Continue, LockInv
  <2>5. WritesOf(op[t].id)' = {}
    BY <2>1, <2>3 DEF WritesOf
  <2>. QED  BY <2>1, <2>2, <2>4, <2>5, KeptFrame, WritesOwned DEF Acknowledges, Proceeds
<1>16. ASSUME NEW t \in Threads, ScriptRead(t) PROVE KeptInv'
  <2>1. SessionMove /\ (saved' => saved /\ keep' = keep)
    BY <1>16 DEF ScriptRead, AtStatement, NextStatement, Continue, SessionMove
  <2>2. result' = result /\ executed' = executed
    BY <1>16 DEF ScriptRead, AtStatement, NextStatement, Continue
  <2>3. \A u \in Threads : pc'[u] \in Holding =>
          pc[u] = pc'[u] /\ op'[u].id = op[u].id /\ op[u].id \in Ids
    BY <1>16 DEF ScriptRead, AtStatement, NextStatement, Continue, IdentityInv, LockInv
  <2>. QED  BY <2>1, <2>2, <2>3, KeptFrame, WritesOwned DEF Acknowledges, Proceeds
<1>17. ASSUME NEW t \in Threads, ScriptWrite(t) PROVE KeptInv'
  <2>. DEFINE w == <<op[t].id, op[t].part + 1>>
  <2>1. /\ op[t].id \in Ids /\ result[op[t].id] = "running" /\ op'[t].id = op[t].id
        /\ pc'[t] = "script"
    BY <1>17 DEF ScriptWrite, AtStatement, NextStatement, Continue, IdentityInv
  <2>2. /\ WritesOf(op[t].id)' = WritesOf(op[t].id) \cup {w}
        /\ \A j \in Ids : j # op[t].id => WritesOf(j)' = WritesOf(j)
    BY <1>17, <2>1, WriteAdded, Zenon DEF ScriptWrite
  <2>3. /\ result' = result /\ UNCHANGED <<saved, keep, undone>>
        /\ txn \subseteq txn' /\ durable \subseteq durable' /\ w \in txn' \cup durable'
    BY <1>17 DEF ScriptWrite, ServerWrite, NextStatement, Continue
  <2>4. \A u \in Threads : pc'[u] \in Holding => u = t
    BY <1>17 DEF ScriptWrite, NextStatement, Continue, LockInv
  <2>5. Within(op[t].id, txn)
    BY <1>17 DEF ScriptWrite, AtStatement, KeptInv
  <2>. HIDE DEF w, WritesOf
  <2>6. Within(op[t].id, txn)'
    BY <2>1, <2>2, <2>3, <2>5 DEF Within
  <2>7. Acknowledges /\ SessionMove
    BY <2>1, <2>2, <2>3 DEF Acknowledges, SessionMove
  <2>. QED  BY <2>1, <2>3, <2>4, <2>6, <2>7, KeptFrame DEF Proceeds
<1>18. ASSUME NEW t \in Threads, ScriptCommit(t) PROVE KeptInv'
  <2>1. SessionMove /\ (saved' => saved /\ keep' = keep)
    BY <1>18 DEF ScriptCommit, AtStatement, NextStatement, Continue, ServerCommit, SessionMove
  <2>2. result' = result /\ executed' = executed
    BY <1>18 DEF ScriptCommit, AtStatement, NextStatement, Continue, ServerCommit
  <2>3. \A u \in Threads : pc'[u] \in Holding =>
          pc[u] = pc'[u] /\ op'[u].id = op[u].id /\ op[u].id \in Ids
    BY <1>18 DEF ScriptCommit, AtStatement, NextStatement, Continue, ServerCommit, IdentityInv,
       LockInv
  <2>. QED  BY <2>1, <2>2, <2>3, KeptFrame, WritesOwned DEF Acknowledges, Proceeds
<1>19. ASSUME NEW t \in Threads, ScriptCommitFails(t) PROVE KeptInv'
  <2>1. SessionMove
    BY <1>19 DEF ScriptCommitFails, AtStatement, Return, ServerForget, SessionMove, SessionInv
  <2>2. lock' = Free /\ \A i \in Ids : result'[i] \in {"ok", "done"} => result'[i] = result[i]
    BY <1>19 DEF ScriptCommitFails, AtStatement, Return, ServerForget, IdentityInv
  <2>3. executed' = executed
    BY <1>19 DEF ScriptCommitFails, AtStatement, Return, ServerForget
  <2>. QED  BY <2>1, <2>2, <2>3, KeptReturn, WritesOwned DEF Acknowledges
<1>20. ASSUME NEW t \in Threads, ScriptRollback(t) PROVE KeptInv'
  <2>1. SessionMove /\ (saved' => saved /\ keep' = keep)
    BY <1>20 DEF ScriptRollback, AtStatement, NextStatement, Continue, ServerForget, SessionMove
  <2>2. result' = result /\ executed' = executed
    BY <1>20 DEF ScriptRollback, AtStatement, NextStatement, Continue, ServerForget
  <2>3. \A u \in Threads : pc'[u] \in Holding =>
          pc[u] = pc'[u] /\ op'[u].id = op[u].id /\ op[u].id \in Ids
    BY <1>20 DEF ScriptRollback, AtStatement, NextStatement, Continue, ServerForget, IdentityInv,
       LockInv
  <2>. QED  BY <2>1, <2>2, <2>3, KeptFrame, WritesOwned DEF Acknowledges, Proceeds
<1>21. ASSUME NEW t \in Threads, ScriptError(t) PROVE KeptInv'
  <2>1. SessionMove
    BY <1>21 DEF ScriptError, AtStatement, Return, ServerError, SessionMove, SessionInv
  <2>2. lock' = Free /\ \A i \in Ids : result'[i] \in {"ok", "done"} => result'[i] = result[i]
    BY <1>21 DEF ScriptError, AtStatement, Return, ServerError, IdentityInv
  <2>3. executed' = executed
    BY <1>21 DEF ScriptError, AtStatement, Return, ServerError
  <2>. QED  BY <2>1, <2>2, <2>3, KeptReturn, WritesOwned DEF Acknowledges
<1>22. ASSUME NEW t \in Threads, ScriptAbandoned(t) PROVE KeptInv'
  <2>1. SessionMove
    BY <1>22 DEF ScriptAbandoned, Return, SessionMove, SessionInv
  <2>2. lock' = Free /\ \A i \in Ids : result'[i] \in {"ok", "done"} => result'[i] = result[i]
    BY <1>22 DEF ScriptAbandoned, Return, IdentityInv
  <2>3. executed' = executed
    BY <1>22 DEF ScriptAbandoned, Return
  <2>. QED  BY <2>1, <2>2, <2>3, KeptReturn, WritesOwned DEF Acknowledges
<1>23. ASSUME NEW t \in Threads, EndScript(t) PROVE KeptInv'
  <2>1. SessionMove
    BY <1>23 DEF EndScript, Return, SessionMove
  <2>2. lock' = Free /\ executed' = executed
          /\ \A i \in Ids : i # op[t].id => result'[i] = result[i]
    BY <1>23 DEF EndScript, Return
  <2>3. result'[op[t].id] = "done" /\ Within(op[t].id, txn)
    BY <1>23 DEF EndScript, Return, KeptInv, IdentityInv
  <2>4. ~saved'
    BY <2>2 DEF SessionInv
  <2>. QED  BY <2>1, <2>2, <2>3, <2>4, KeptReturn, WritesOwned DEF Acknowledges
<1>24. ASSUME NEW t \in Threads, ConnectionCommit(t) PROVE KeptInv'
  <2>1. SessionMove
    BY <1>24 DEF ConnectionCommit, ServerCommit, SessionMove, SessionInv
  <2>2. lock' = Free /\ \A i \in Ids : result'[i] \in {"ok", "done"} => result'[i] = result[i]
    BY <1>24 DEF ConnectionCommit, ServerCommit, IdentityInv
  <2>3. executed' = executed
    BY <1>24 DEF ConnectionCommit, ServerCommit
  <2>. QED  BY <2>1, <2>2, <2>3, KeptReturn, WritesOwned DEF Acknowledges
<1>25. ASSUME NEW t \in Threads, CommitConflict(t) PROVE KeptInv'
  <2>1. SessionMove
    BY <1>25 DEF CommitConflict, ServerForget, SessionMove, SessionInv
  <2>2. lock' = Free /\ \A i \in Ids : result'[i] \in {"ok", "done"} => result'[i] = result[i]
    BY <1>25 DEF CommitConflict, ServerForget, IdentityInv
  <2>3. executed' = executed
    BY <1>25 DEF CommitConflict, ServerForget
  <2>. QED  BY <2>1, <2>2, <2>3, KeptReturn, WritesOwned DEF Acknowledges
<1>26. ASSUME NEW t \in Threads, ConnectionRollback(t) PROVE KeptInv'
  <2>1. SessionMove
    BY <1>26 DEF ConnectionRollback, ServerForget, SessionMove, SessionInv
  <2>2. lock' = Free /\ \A i \in Ids : result'[i] \in {"ok", "done"} => result'[i] = result[i]
    BY <1>26 DEF ConnectionRollback, ServerForget, IdentityInv
  <2>3. executed' = executed
    BY <1>26 DEF ConnectionRollback, ServerForget
  <2>. QED  BY <2>1, <2>2, <2>3, KeptReturn, WritesOwned DEF Acknowledges
<1>27. ASSUME NEW t \in Threads, EnableAutoCommit(t) PROVE KeptInv'
  <2>1. SessionMove
    BY <1>27 DEF EnableAutoCommit, ServerCommit, CommitAllowed, SessionMove, SessionInv
  <2>2. lock' = Free /\ \A i \in Ids : result'[i] \in {"ok", "done"} => result'[i] = result[i]
    BY <1>27 DEF EnableAutoCommit, ServerCommit, CommitAllowed, IdentityInv
  <2>3. executed' = executed
    BY <1>27 DEF EnableAutoCommit, ServerCommit, CommitAllowed
  <2>. QED  BY <2>1, <2>2, <2>3, KeptReturn, WritesOwned DEF Acknowledges
<1>28. ASSUME NEW t \in Threads, DisableAutoCommit(t) PROVE KeptInv'
  <2>1. SessionMove
    BY <1>28 DEF DisableAutoCommit, Return, SessionMove, SessionInv
  <2>2. lock' = Free /\ \A i \in Ids : result'[i] \in {"ok", "done"} => result'[i] = result[i]
    BY <1>28 DEF DisableAutoCommit, Return, IdentityInv
  <2>3. executed' = executed
    BY <1>28 DEF DisableAutoCommit, Return
  <2>. QED  BY <2>1, <2>2, <2>3, KeptReturn, WritesOwned DEF Acknowledges
<1>29. ASSUME NEW t \in Threads, Advances(t) PROVE KeptInv'
  <2>1. /\ op[t].id \in Ids /\ result[op[t].id] = "running" /\ op'[t].id = op[t].id
        /\ pc[t] \in InScope /\ pc'[t] \in InScope
    BY <1>29 DEF Advances, IdentityInv
  <2>2. result' = result /\ UNCHANGED <<saved, keep, undone, durable>>
    BY <1>29 DEF Advances
  <2>3. \A u \in Threads : pc'[u] \in Holding => u = t
    BY <1>29 DEF Advances, LockInv
  <2>4. CASE UNCHANGED <<txn, executed>>
    BY <2>1, <2>2, <2>3, <2>4, KeptFrame, WritesOwned, ZenonT(30)
       DEF Acknowledges, Proceeds, SessionMove
  <2>5. ASSUME NEW k \in Parts, txn' = txn \cup {<<op[t].id, k>>},
               executed' = [executed EXCEPT ![op[t].id] = @ \cup {k}]
        PROVE  KeptInv'
    <3>1. /\ WritesOf(op[t].id)' = WritesOf(op[t].id) \cup {<<op[t].id, k>>}
          /\ \A j \in Ids : j # op[t].id => WritesOf(j)' = WritesOf(j)
      BY <2>1, <2>5, WriteAdded DEF WritesOf
    <3>2. WritesOf(op[t].id) \subseteq txn \/ op[t].id \in undone
      <4>1. WritesOf(op[t].id) \cap durable = {}
        BY <2>1 DEF WritesOf, ScopeInv, OwnWrites
      <4>2. Together(op[t].id, txn)
        BY <2>1 DEF KeptInv
      <4>. QED  BY <4>1, <4>2 DEF Together
    <3>. HIDE DEF WritesOf
    <3>3. Together(op[t].id, txn)'
      BY <2>1, <2>2, <2>5, <3>1, <3>2 DEF Together
    <3>4. Acknowledges /\ SessionMove
      BY <2>1, <2>2, <2>5, <3>1 DEF Acknowledges, SessionMove
    <3>. QED  BY <2>1, <2>2, <2>3, <3>3, <3>4, KeptFrame DEF Proceeds
  <2>. QED  BY <1>29, <2>4, <2>5 DEF Advances
<1>30. ASSUME NEW t \in Threads, NEW q \in Scripts, SetSqlQuery(t, q) PROVE KeptInv'
  <2>1. SessionMove /\ (saved' => saved /\ keep' = keep)
    BY <1>30 DEF SetSqlQuery, SessionMove
  <2>2. \A i \in Ids : result'[i] \in {"ok", "done"} => result'[i] = result[i]
    BY <1>30 DEF SetSqlQuery, IdentityInv
  <2>3. executed' = executed
    BY <1>30 DEF SetSqlQuery
  <2>4. \A u \in Threads : pc'[u] \in Holding =>
          pc[u] = pc'[u] /\ op'[u] = op[u] /\ op[u].id \in Ids
    BY <1>30 DEF SetSqlQuery, IdentityInv
  <2>. QED  BY <2>1, <2>2, <2>3, <2>4, KeptFrame, WritesOwned DEF Acknowledges, Proceeds
<1>31. ASSUME NEW t \in Threads, NEW p, NEW path, TakeWriteGuard(t, p, path) PROVE KeptInv'
  <2>1. SessionMove /\ (saved' => saved /\ keep' = keep)
    BY <1>31 DEF TakeWriteGuard, NewOperation, SessionMove
  <2>2. \A i \in Ids : result'[i] \in {"ok", "done"} => result'[i] = result[i]
    BY <1>31 DEF TakeWriteGuard, NewOperation, IdentityInv
  <2>3. executed' = executed
    BY <1>31 DEF TakeWriteGuard
  <2>4. \A u \in Threads : pc'[u] \in Holding =>
          pc[u] = pc'[u] /\ op'[u] = op[u] /\ op[u].id \in Ids
    BY <1>31 DEF TakeWriteGuard, NewOperation, IdentityInv
  <2>. QED  BY <2>1, <2>2, <2>3, <2>4, KeptFrame, WritesOwned DEF Acknowledges, Proceeds
<1>32. CASE LoseSession
  <2>1. SessionMove /\ (saved' => saved /\ keep' = keep)
    BY <1>32 DEF LoseSession, ServerForget, SessionMove
  <2>2. \A i \in Ids : result'[i] \in {"ok", "done"} => result'[i] = result[i]
    BY <1>32 DEF LoseSession, ServerForget, IdentityInv
  <2>3. executed' = executed
    BY <1>32 DEF LoseSession
  <2>4. \A u \in Threads : pc'[u] \in Holding =>
          pc[u] = pc'[u] /\ op'[u] = op[u] /\ op[u].id \in Ids
    BY <1>32 DEF LoseSession, ServerForget, IdentityInv
  <2>. QED  BY <2>1, <2>2, <2>3, <2>4, KeptFrame, WritesOwned, Zenon DEF Acknowledges, Proceeds
<1>. QED  BY ScopeAdvances, <1>1, <1>2, <1>3, <1>4, <1>5, <1>6, <1>7, <1>8, <1>9, <1>10, <1>11,
             <1>12, <1>13, <1>14, <1>15, <1>16, <1>17, <1>18, <1>19, <1>20, <1>21, <1>22, <1>23,
             <1>24, <1>25, <1>26, <1>27, <1>28, <1>29, <1>30, <1>31, <1>32
   DEF Next, Statement, Operation, Script, TransactionCall, CallIngest, CallBatch, CallScript

\* transaction_modified is cleared when the transaction is empty or holds the
\* writes of an operation whose guard is still to be dropped.
LEMMA TrackInvStep ==
    ASSUME TypeOK, TypeOK', LockInv, LockInv', IdentityInv, SessionInv, WaitingInv, ScopeInv,
           ScriptInv, TrackInv, Next
    PROVE  TrackInv'
<1>0. /\ autocommit \in BOOLEAN /\ saved \in BOOLEAN /\ alive \in BOOLEAN
      /\ txn \subseteq Writes /\ keep \subseteq Writes /\ durable \subseteq Writes
      /\ lock \in Threads \cup {Free} /\ modified \in BOOLEAN /\ poison \in BOOLEAN
      /\ callerMode \in BOOLEAN /\ issued \in 0..MaxOps
      /\ result \in [Ids -> {"none", "running", "ok", "done", "err", "lost", "failed"}]
      /\ executed \in [Ids -> SUBSET Parts]
      /\ pc \in [Threads -> Labels] /\ op \in [Threads -> Operations]
  BY DEF TypeOK, SessionType, DriverType, HistoryType
<1>. USE <1>0
<1>1. ASSUME NEW t \in Threads, SetTargetTable(t) PROVE TrackInv'
  <2>1. UNCHANGED <<pc, op, txn, keep, issued, tracked, modified, query>>
    BY <1>1 DEF SetTargetTable
  <2>2. \A i : InProgress(i)' = InProgress(i)
    BY <2>1 DEF InProgress
  <2>. QED  BY <2>1, <2>2, Zenon DEF TrackInv, OwnWrites
<1>2. ASSUME NEW t \in Threads, DropWriteGuard(t) PROVE TrackInv'
  <2>1. /\ pc[t] = "drop" /\ pc'[t] = "idle"
        /\ \A u \in Threads : u # t => pc'[u] = pc[u] /\ op'[u] = op[u]
        /\ modified \/ op[t].modifies => modified'
        /\ UNCHANGED <<txn, keep, issued, tracked, query>>
    BY <1>2, Zenon DEF DropWriteGuard
  <2>2. \A i \in tracked : InProgress(i) => InProgress(i)' \/ modified'
    BY <2>1 DEF InProgress, TrackInv
  <2>. QED  BY <2>1, <2>2 DEF TrackInv, OwnWrites
<1>3. ASSUME NEW t \in Threads, RejectEarly(t) PROVE TrackInv'
  BY <1>3 DEF RejectEarly, TrackInv, InProgress, OwnWrites, LockInv, IdentityInv, SessionInv
<1>4. ASSUME NEW t \in Threads, OpenScope(t) PROVE TrackInv'
  BY <1>4 DEF OpenScope, Continue, ScopeOf, TrackInv, InProgress, OwnWrites, LockInv, IdentityInv,
     SessionInv
<1>5. ASSUME NEW t \in Threads, RefuseScope(t) PROVE TrackInv'
  <2>1. /\ op' = op /\ pc[t] # "idle" /\ pc'[t] # "idle" /\ lock' = Free
        /\ \A u \in Threads : u # t => pc'[u] = pc[u]
    BY <1>5 DEF RefuseScope, Return
  <2>2. txn' \cup keep' \subseteq txn \cup keep /\ UNCHANGED <<issued, tracked, modified>>
    BY <1>5 DEF RefuseScope, Return
  <2>3. \A u \in Threads : pc'[u] # "script"
    BY <2>1 DEF LockInv
  <2>4. \A i \in Ids : InProgress(i) => InProgress(i)'
    BY <2>1 DEF InProgress
  <2>5. \A v \in txn \cup keep : v[1] \in Ids
    OBVIOUS
  <2>. QED  BY <2>1, <2>2, <2>3, <2>4, <2>5, Zenon DEF TrackInv
<1>6. ASSUME NEW t \in Threads, OpenScopeFails(t) PROVE TrackInv'
  BY <1>6 DEF OpenScopeFails, ServerError, Return, TrackInv, InProgress, OwnWrites, LockInv,
     IdentityInv, SessionInv
<1>7. ASSUME NEW t \in Threads, CommitScope(t) PROVE TrackInv'
  BY <1>7 DEF CommitScope, ServerCommit, RestoreAutocommit, Return, TrackInv, InProgress,
     OwnWrites,
     LockInv, IdentityInv, SessionInv
<1>8. ASSUME NEW t \in Threads, CommitScopeLost(t) PROVE TrackInv'
  BY <1>8 DEF CommitScopeLost, ServerCommit, Return, TrackInv, InProgress, OwnWrites, LockInv,
     IdentityInv, SessionInv
<1>9. ASSUME NEW t \in Threads, RollbackScope(t) PROVE TrackInv'
  <2>1. /\ op'[t].id = op[t].id /\ op'[t].modifies = op[t].modifies
        /\ pc[t] # "idle" /\ pc'[t] # "idle" /\ lock' = Free
        /\ \A u \in Threads : u # t => pc'[u] = pc[u] /\ op'[u] = op[u]
    BY <1>9 DEF RollbackScope, ReturnOrRetry, Return, Restarted, NewOperation
  <2>2. /\ txn' \cup keep' \subseteq txn \cup keep
        /\ UNCHANGED <<issued, tracked, modified>>
    BY <1>9 DEF RollbackScope, ServerForget
  <2>3. \A u \in Threads : pc'[u] # "script"
    BY <2>1 DEF LockInv
  <2>4. \A i \in Ids : InProgress(i) => InProgress(i)'
    BY <2>1 DEF InProgress
  <2>5. \A v \in txn \cup keep : v[1] \in Ids
    OBVIOUS
  <2>. QED  BY <2>1, <2>2, <2>3, <2>4, <2>5, Zenon DEF TrackInv
<1>10. ASSUME NEW t \in Threads, AbandonScope(t) PROVE TrackInv'
  <2>1. /\ op' = op /\ pc[t] # "idle" /\ pc'[t] # "idle" /\ lock' = Free
        /\ \A u \in Threads : u # t => pc'[u] = pc[u]
        /\ UNCHANGED <<issued, tracked, modified, txn, keep>>
    BY <1>10 DEF AbandonScope, Return
  <2>2. \A u \in Threads : pc'[u] # "script"
    BY <2>1 DEF LockInv
  <2>3. \A i \in Ids : InProgress(i) => InProgress(i)'
    BY <2>1 DEF InProgress
  <2>4. \A v \in txn \cup keep : v[1] \in Ids
    OBVIOUS
  <2>. QED  BY <2>1, <2>2, <2>3, <2>4, Zenon DEF TrackInv
<1>11. ASSUME NEW t \in Threads, FinishCaller(t) PROVE TrackInv'
  <2>1. /\ op' = op /\ pc[t] # "idle" /\ pc'[t] # "idle" /\ lock' = Free
        /\ \A u \in Threads : u # t => pc'[u] = pc[u]
    BY <1>11 DEF FinishCaller, Return, MustPoison
  <2>2. txn' \cup keep' \subseteq txn \cup keep /\ UNCHANGED <<issued, tracked, modified>>
    BY <1>11 DEF FinishCaller, Return, MustPoison
  <2>3. \A u \in Threads : pc'[u] # "script"
    BY <2>1 DEF LockInv
  <2>4. \A i \in Ids : InProgress(i) => InProgress(i)'
    BY <2>1 DEF InProgress
  <2>5. \A v \in txn \cup keep : v[1] \in Ids
    OBVIOUS
  <2>. QED  BY <2>1, <2>2, <2>3, <2>4, <2>5, Zenon DEF TrackInv
<1>12. ASSUME NEW t \in Threads, ReleaseScope(t) PROVE TrackInv'
  <2>1. /\ op' = op /\ pc[t] # "idle" /\ pc'[t] # "idle" /\ lock' = Free
        /\ \A u \in Threads : u # t => pc'[u] = pc[u]
    BY <1>12 DEF ReleaseScope, Return
  <2>2. txn' \cup keep' \subseteq txn \cup keep /\ UNCHANGED <<issued, tracked, modified>>
    BY <1>12 DEF ReleaseScope, Return
  <2>3. \A u \in Threads : pc'[u] # "script"
    BY <2>1 DEF LockInv
  <2>4. \A i \in Ids : InProgress(i) => InProgress(i)'
    BY <2>1 DEF InProgress
  <2>5. \A v \in txn \cup keep : v[1] \in Ids
    OBVIOUS
  <2>. QED  BY <2>1, <2>2, <2>3, <2>4, <2>5, Zenon DEF TrackInv
<1>13. ASSUME NEW t \in Threads, RecoverScope(t) PROVE TrackInv'
  <2>1. /\ op'[t].id = op[t].id /\ op'[t].modifies = op[t].modifies
        /\ pc[t] # "idle" /\ pc'[t] # "idle" /\ lock' = Free
        /\ \A u \in Threads : u # t => pc'[u] = pc[u] /\ op'[u] = op[u]
    BY <1>13 DEF RecoverScope, ReturnOrRetry, Return, Restarted, NewOperation
  <2>2. /\ txn' \cup keep' \subseteq txn \cup keep
        /\ UNCHANGED <<issued, tracked, modified>>
    BY <1>13 DEF RecoverScope, RollbackToSavepoint
  <2>3. \A u \in Threads : pc'[u] # "script"
    BY <2>1 DEF LockInv
  <2>4. \A i \in Ids : InProgress(i) => InProgress(i)'
    BY <2>1 DEF InProgress
  <2>5. \A v \in txn \cup keep : v[1] \in Ids
    OBVIOUS
  <2>. QED  BY <2>1, <2>2, <2>3, <2>4, <2>5 DEF TrackInv
<1>14. ASSUME NEW t \in Threads, RecoverScopeFails(t) PROVE TrackInv'
  <2>1. /\ op' = op /\ pc[t] # "idle" /\ pc'[t] # "idle" /\ lock' = Free
        /\ \A u \in Threads : u # t => pc'[u] = pc[u]
    BY <1>14 DEF RecoverScopeFails, Return
  <2>2. txn' \cup keep' \subseteq txn \cup keep /\ UNCHANGED <<issued, tracked, modified>>
    BY <1>14 DEF RecoverScopeFails, Return
  <2>3. \A u \in Threads : pc'[u] # "script"
    BY <2>1 DEF LockInv
  <2>4. \A i \in Ids : InProgress(i) => InProgress(i)'
    BY <2>1 DEF InProgress
  <2>5. \A v \in txn \cup keep : v[1] \in Ids
    OBVIOUS
  <2>. QED  BY <2>1, <2>2, <2>3, <2>4, <2>5, Zenon DEF TrackInv
<1>15. ASSUME NEW t \in Threads, BeginScript(t) PROVE TrackInv'
  <2>1. /\ op'[t].id = op[t].id /\ op'[t].modifies = op[t].modifies /\ op'[t].part = op[t].part
        /\ pc[t] = "guarded" /\ pc'[t] # "idle"
        /\ \A u \in Threads : u # t => pc'[u] = pc[u] /\ op'[u] = op[u]
        /\ UNCHANGED <<txn, keep, issued, tracked, modified, query>>
    BY <1>15 DEF BeginScript, Return, Continue
  <2>2. \A u \in Threads : pc'[u] = "script" => u = t
    BY <1>15 DEF BeginScript, Return, Continue, LockInv
  <2>3. op'[t].part = 0
    BY <2>1 DEF WaitingInv
  <2>. QED  BY <2>1, <2>2, <2>3 DEF TrackInv, InProgress
<1>16. ASSUME NEW t \in Threads, ScriptRead(t) PROVE TrackInv'
  <2>1. /\ op'[t].id = op[t].id /\ op'[t].modifies = op[t].modifies
        /\ pc' = pc /\ pc[t] = "script"
        /\ \A u \in Threads : u # t => op'[u] = op[u]
        /\ UNCHANGED <<keep, issued, tracked, modified, query>>
    BY <1>16 DEF ScriptRead, AtStatement, NextStatement, Continue
  <2>2. op'[t].part = op[t].part + 1 /\ op[t].part \in Nat
          /\ query[t][op[t].part + 1] # "commit"
    BY <1>16 DEF ScriptRead, AtStatement, NextStatement, Continue, Current, Operations
  <2>3. txn' = txn
    BY <1>16 DEF ScriptRead
  <2>4. OwnWrites(t)' = OwnWrites(t)
    BY <2>1 DEF OwnWrites
  <2>5. \A r \in 1..op'[t].part : query'[t][r] = "commit" => txn' \subseteq OwnWrites(t)'
    <3>1. \A r \in 1..op'[t].part : query[t][r] = "commit" => r \in 1..op[t].part
      <4>1. \A p \in Nat : \A r \in 1..(p + 1) : r # p + 1 => r \in 1..p
        OBVIOUS
      <4>. QED  BY <2>2, <4>1
    <3>2. \A r \in 1..op[t].part : query[t][r] = "commit" => txn \subseteq OwnWrites(t)
      BY <2>1 DEF TrackInv
    <3>. QED  BY <2>1, <2>3, <2>4, <3>1, <3>2
  <2>6. \A u \in Threads : pc'[u] = "script" => u = t
    BY <2>1 DEF LockInv
  <2>7. \A v \in txn' \cup keep' : v[1] \in tracked => modified \/ InProgress(v[1])'
    <3>1. \A i \in Ids : InProgress(i) \/ i = op[t].id => InProgress(i)'
      BY <2>1 DEF InProgress
    <3>2. \A v \in txn' \cup keep' : v[1] \in Ids /\ (v \in txn \cup keep \/ v[1] = op[t].id)
      BY <2>1, <2>3, RunningOperation DEF OwnWrites
    <3>. QED  BY <3>1, <3>2 DEF TrackInv
  <2>8. \A u \in Threads : pc'[u] # "idle" => (op'[u].id \in tracked' <=> op'[u].modifies)
    BY <2>1 DEF TrackInv
  <2>. QED  BY <2>1, <2>5, <2>6, <2>7, <2>8 DEF TrackInv
<1>17. ASSUME NEW t \in Threads, ScriptWrite(t) PROVE TrackInv'
  <2>1. /\ op'[t].id = op[t].id /\ op'[t].modifies = op[t].modifies
        /\ pc' = pc /\ pc[t] = "script"
        /\ \A u \in Threads : u # t => op'[u] = op[u]
        /\ UNCHANGED <<keep, issued, tracked, modified, query>>
    BY <1>17 DEF ScriptWrite, AtStatement, NextStatement, Continue, ServerWrite
  <2>2. op'[t].part = op[t].part + 1 /\ op[t].part \in Nat
          /\ query[t][op[t].part + 1] # "commit"
    BY <1>17 DEF ScriptWrite, AtStatement, NextStatement, Continue, ServerWrite, Current,
       Operations
  <2>3. txn' \subseteq txn \cup OwnWrites(t)
    <3>1. txn' \subseteq txn \cup {<<op[t].id, op[t].part + 1>>} /\ txn' \subseteq Writes
      BY <1>17 DEF ScriptWrite, ServerWrite, TypeOK, SessionType
    <3>. QED  BY <3>1 DEF OwnWrites
  <2>4. OwnWrites(t)' = OwnWrites(t)
    BY <2>1 DEF OwnWrites
  <2>5. \A r \in 1..op'[t].part : query'[t][r] = "commit" => txn' \subseteq OwnWrites(t)'
    <3>1. \A r \in 1..op'[t].part : query[t][r] = "commit" => r \in 1..op[t].part
      <4>1. \A p \in Nat : \A r \in 1..(p + 1) : r # p + 1 => r \in 1..p
        OBVIOUS
      <4>. QED  BY <2>2, <4>1
    <3>2. \A r \in 1..op[t].part : query[t][r] = "commit" => txn \subseteq OwnWrites(t)
      BY <2>1 DEF TrackInv
    <3>. QED  BY <2>1, <2>3, <2>4, <3>1, <3>2
  <2>6. \A u \in Threads : pc'[u] = "script" => u = t
    BY <2>1 DEF LockInv
  <2>7. \A v \in txn' \cup keep' : v[1] \in tracked => modified \/ InProgress(v[1])'
    <3>1. \A i \in Ids : InProgress(i) \/ i = op[t].id => InProgress(i)'
      BY <2>1 DEF InProgress
    <3>2. \A v \in txn' \cup keep' : v[1] \in Ids /\ (v \in txn \cup keep \/ v[1] = op[t].id)
      BY <2>1, <2>3, RunningOperation DEF OwnWrites
    <3>. QED  BY <3>1, <3>2 DEF TrackInv
  <2>8. \A u \in Threads : pc'[u] # "idle" => (op'[u].id \in tracked' <=> op'[u].modifies)
    BY <2>1 DEF TrackInv
  <2>. QED  BY <2>1, <2>5, <2>6, <2>7, <2>8 DEF TrackInv
<1>18. ASSUME NEW t \in Threads, ScriptCommit(t) PROVE TrackInv'
  BY <1>18 DEF ScriptCommit, AtStatement, NextStatement, Continue, ServerCommit, TrackInv,
     InProgress, OwnWrites, LockInv, IdentityInv, SessionInv
<1>19. ASSUME NEW t \in Threads, ScriptCommitFails(t) PROVE TrackInv'
  BY <1>19 DEF ScriptCommitFails, AtStatement, Return, ServerForget, TrackInv, InProgress,
     OwnWrites, LockInv, IdentityInv, SessionInv
<1>20. ASSUME NEW t \in Threads, ScriptRollback(t) PROVE TrackInv'
  BY <1>20 DEF ScriptRollback, AtStatement, NextStatement, Continue, ServerForget, TrackInv,
     InProgress, OwnWrites, LockInv, IdentityInv, SessionInv
<1>21. ASSUME NEW t \in Threads, ScriptError(t) PROVE TrackInv'
  BY <1>21 DEF ScriptError, AtStatement, Return, ServerError, TrackInv, InProgress, OwnWrites,
     LockInv, IdentityInv, SessionInv
<1>22. ASSUME NEW t \in Threads, ScriptAbandoned(t) PROVE TrackInv'
  BY <1>22 DEF ScriptAbandoned, Return, TrackInv, InProgress, OwnWrites, LockInv, IdentityInv,
     SessionInv
<1>23. ASSUME NEW t \in Threads, EndScript(t) PROVE TrackInv'
  <2>1. /\ op' = op /\ pc[t] # "idle" /\ pc'[t] # "idle" /\ lock' = Free
        /\ \A u \in Threads : u # t => pc'[u] = pc[u]
        /\ UNCHANGED <<txn, keep, issued, tracked>>
    BY <1>23 DEF EndScript, Return
  <2>2. \A u \in Threads : pc'[u] # "script"
    BY <2>1 DEF LockInv
  <2>3. modified' = modified \/ \A w \in txn \cup keep : InProgress(w[1])'
    <3>1. CASE HasCommit(query[t]) \/ HasRollback(query[t])
      <4>1. PICK r \in DOMAIN query[t] : query[t][r] \in {"commit", "rollback"}
        BY <3>1 DEF HasCommit, HasRollback
      <4>2. r \in 1..op[t].part
        BY <1>23, <4>1, ScriptsAssumption DEF EndScript, NoQuery
      <4>3. txn \subseteq OwnWrites(t) /\ keep = {}
        BY <1>23, <4>1, <4>2 DEF EndScript, TrackInv, ScriptInv, SessionInv
      <4>. QED  BY <2>1, <4>3 DEF InProgress, OwnWrites
    <3>2. CASE ~ (HasCommit(query[t]) \/ HasRollback(query[t]))
      BY <1>23, <3>2 DEF EndScript
    <3>. QED  BY <3>1, <3>2
  <2>. QED  BY <2>1, <2>2, <2>3 DEF TrackInv, InProgress
<1>24. ASSUME NEW t \in Threads, ConnectionCommit(t) PROVE TrackInv'
  BY <1>24 DEF ConnectionCommit, ServerCommit, TrackInv, InProgress, OwnWrites, LockInv,
     IdentityInv, SessionInv
<1>25. ASSUME NEW t \in Threads, CommitConflict(t) PROVE TrackInv'
  BY <1>25 DEF CommitConflict, ServerForget, TrackInv, InProgress, OwnWrites, LockInv,
     IdentityInv,
     SessionInv
<1>26. ASSUME NEW t \in Threads, ConnectionRollback(t) PROVE TrackInv'
  BY <1>26 DEF ConnectionRollback, ServerForget, TrackInv, InProgress, OwnWrites, LockInv,
     IdentityInv, SessionInv
<1>27. ASSUME NEW t \in Threads, EnableAutoCommit(t) PROVE TrackInv'
  BY <1>27 DEF EnableAutoCommit, ServerCommit, CommitAllowed, TrackInv, InProgress, OwnWrites,
     LockInv, IdentityInv, SessionInv
<1>28. ASSUME NEW t \in Threads, DisableAutoCommit(t) PROVE TrackInv'
  BY <1>28 DEF DisableAutoCommit, TrackInv, InProgress, OwnWrites, LockInv, IdentityInv,
     SessionInv
<1>29. ASSUME NEW t \in Threads, Advances(t) PROVE TrackInv'
  <2>1. /\ op'[t].id = op[t].id /\ op'[t].modifies = op[t].modifies
        /\ pc[t] \in InScope /\ pc'[t] \in InScope /\ lock' = t
        /\ \A u \in Threads : u # t => pc'[u] = pc[u] /\ op'[u] = op[u]
        /\ UNCHANGED <<keep, issued, tracked, modified>>
    BY <1>29 DEF Advances
  <2>2. txn' \subseteq txn \cup OwnWrites(t)
    BY <1>29 DEF Advances, OwnWrites
  <2>3. \A u \in Threads : pc'[u] # "script"
    BY <2>1 DEF LockInv
  <2>4. \A i \in Ids : InProgress(i) \/ i = op[t].id => InProgress(i)'
    BY <2>1 DEF InProgress
  <2>5. \A v \in txn' \cup keep' : v[1] \in Ids /\ (v \in txn \cup keep \/ v[1] = op[t].id)
    BY <2>1, <2>2, RunningOperation DEF OwnWrites
  <2>. QED  BY <2>1, <2>3, <2>4, <2>5, ZenonT(30) DEF TrackInv
<1>30. ASSUME NEW t \in Threads, NEW q \in Scripts, SetSqlQuery(t, q) PROVE TrackInv'
  <2>1. /\ UNCHANGED <<pc, op, txn, keep, issued, tracked, modified>>
        /\ \A u \in Threads : pc[u] = "script" => query'[u] = query[u]
    BY <1>30 DEF SetSqlQuery, TypeOK, DriverType
  <2>2. \A i : InProgress(i)' = InProgress(i)
    BY <2>1 DEF InProgress
  <2>. QED  BY <2>1, <2>2, ZenonT(30) DEF TrackInv, OwnWrites
<1>31. ASSUME NEW t \in Threads, NEW p, NEW path, TakeWriteGuard(t, p, path) PROVE TrackInv'
  <2>. DEFINE i == issued + 1
  <2>1. /\ pc[t] = "idle" /\ pc'[t] = "guarded" /\ op'[t].id = i
        /\ op'[t].modifies = MayModify(query[t])
        /\ \A u \in Threads : u # t => pc'[u] = pc[u] /\ op'[u] = op[u]
    BY <1>31 DEF TakeWriteGuard, NewOperation
  <2>2. /\ modified => modified'
        /\ tracked' = IF MayModify(query[t]) THEN tracked \cup {i} ELSE tracked
        /\ issued' = i /\ UNCHANGED <<txn, keep, query>>
    BY <1>31 DEF TakeWriteGuard
  <2>3. /\ \A u \in Threads : pc[u] # "idle" => op[u].id # i
        /\ \A v \in txn \cup keep : v[1] # i
        /\ i \notin tracked
    BY DEF IdentityInv, TrackInv
  <2>4. \A j \in Ids : InProgress(j) => InProgress(j)'
    BY <2>1 DEF InProgress
  <2>5. \A u \in Threads : pc'[u] # "idle" => (op'[u].id \in tracked' <=> op'[u].modifies)
    BY <2>1, <2>2, <2>3 DEF TrackInv
  <2>6. \A j \in tracked' : j <= issued'
    <3>1. \A j \in tracked : j \in Nat /\ j <= issued
      BY DEF TrackInv, TypeOK, HistoryType
    <3>. QED  BY <2>2, <3>1
  <2>7. \A v \in txn' \cup keep' : v[1] \in tracked' => modified' \/ InProgress(v[1])'
    BY <2>2, <2>3, <2>4 DEF TrackInv
  <2>8. \A u \in Threads : pc'[u] = "script" =>
          \A r \in 1..op'[u].part : query'[u][r] = "commit" => txn' \subseteq OwnWrites(u)'
    BY <2>1, <2>2 DEF TrackInv, OwnWrites
  <2>. QED  BY <2>5, <2>6, <2>7, <2>8 DEF TrackInv
<1>32. CASE LoseSession
  BY <1>32 DEF LoseSession, ServerForget, TrackInv, InProgress, OwnWrites, LockInv, IdentityInv,
     SessionInv
<1>. QED  BY ScopeAdvances, <1>1, <1>2, <1>3, <1>4, <1>5, <1>6, <1>7, <1>8, <1>9, <1>10, <1>11,
             <1>12, <1>13, <1>14, <1>15, <1>16, <1>17, <1>18, <1>19, <1>20, <1>21, <1>22, <1>23,
             <1>24, <1>25, <1>26, <1>27, <1>28, <1>29, <1>30, <1>31, <1>32, Zenon
   DEF Next, Statement, Operation, Script, TransactionCall, CallIngest, CallBatch, CallScript

\* With one caller no write happens between the guard and begin_atomic.
LEMMA CallerInvStep ==
    ASSUME TypeOK, IdentityInv, SessionInv, ScopeInv, TrackInv, CallerInv, Next
    PROVE  CallerInv'
<1>0. /\ autocommit \in BOOLEAN /\ saved \in BOOLEAN /\ alive \in BOOLEAN
      /\ txn \subseteq Writes /\ keep \subseteq Writes /\ durable \subseteq Writes
      /\ lock \in Threads \cup {Free} /\ modified \in BOOLEAN /\ poison \in BOOLEAN
      /\ callerMode \in BOOLEAN /\ issued \in 0..MaxOps
      /\ result \in [Ids -> {"none", "running", "ok", "done", "err", "lost", "failed"}]
      /\ executed \in [Ids -> SUBSET Parts]
      /\ pc \in [Threads -> Labels] /\ op \in [Threads -> Operations]
      /\ query \in [Threads -> Scripts \cup {NoQuery}] /\ target \in [Threads -> BOOLEAN]
  BY DEF TypeOK, SessionType, DriverType, HistoryType
<1>. USE <1>0
<1>1. ASSUME NEW t \in Threads, SetTargetTable(t) PROVE CallerInv'
  BY <1>1 DEF SetTargetTable, CallerInv, OneCaller, HasStatement, Untracked, SessionInv
<1>2. ASSUME NEW t \in Threads, DropWriteGuard(t) PROVE CallerInv'
  BY <1>2 DEF DropWriteGuard, CallerInv, OneCaller, HasStatement, Untracked, SessionInv
<1>3. ASSUME NEW t \in Threads, RejectEarly(t) PROVE CallerInv'
  BY <1>3 DEF RejectEarly, CallerInv, OneCaller, HasStatement, Untracked, SessionInv
<1>4. ASSUME NEW t \in Threads, OpenScope(t) PROVE CallerInv'
  BY <1>4 DEF OpenScope, Continue, ScopeOf, CallerInv, OneCaller, HasStatement, Untracked, SessionInv
<1>5. ASSUME NEW t \in Threads, RefuseScope(t) PROVE CallerInv'
  BY <1>5 DEF RefuseScope, Return, CallerInv, OneCaller, HasStatement, Untracked, SessionInv
<1>6. ASSUME NEW t \in Threads, OpenScopeFails(t) PROVE CallerInv'
  BY <1>6 DEF OpenScopeFails, ServerError, Return, CallerInv, OneCaller, HasStatement, Untracked, SessionInv
<1>7. ASSUME NEW t \in Threads, CommitScope(t) PROVE CallerInv'
  BY <1>7 DEF CommitScope, ServerCommit, RestoreAutocommit, Return, CallerInv, OneCaller, HasStatement,
     Untracked,
     SessionInv
<1>8. ASSUME NEW t \in Threads, CommitScopeLost(t) PROVE CallerInv'
  BY <1>8 DEF CommitScopeLost, ServerCommit, Return, CallerInv, OneCaller, HasStatement, Untracked, SessionInv
<1>9. ASSUME NEW t \in Threads, RollbackScope(t) PROVE CallerInv'
  BY <1>9 DEF RollbackScope, ServerForget, RestoreAutocommit, ReturnOrRetry, Return, Restarted,
     NewOperation, CallerInv, OneCaller, HasStatement, Untracked, SessionInv
<1>10. ASSUME NEW t \in Threads, AbandonScope(t) PROVE CallerInv'
  BY <1>10 DEF AbandonScope, Return, CallerInv, OneCaller, HasStatement, Untracked, SessionInv
<1>11. ASSUME NEW t \in Threads, FinishCaller(t) PROVE CallerInv'
  BY <1>11 DEF FinishCaller, Return, MustPoison, CallerInv, OneCaller, HasStatement, Untracked, SessionInv
<1>12. ASSUME NEW t \in Threads, ReleaseScope(t) PROVE CallerInv'
  BY <1>12 DEF ReleaseScope, Return, CallerInv, OneCaller, HasStatement, Untracked, SessionInv
<1>13. ASSUME NEW t \in Threads, RecoverScope(t) PROVE CallerInv'
  BY <1>13 DEF RecoverScope, RollbackToSavepoint, ReturnOrRetry, Return, Restarted, NewOperation,
     CallerInv, OneCaller, HasStatement, Untracked, SessionInv
<1>14. ASSUME NEW t \in Threads, RecoverScopeFails(t) PROVE CallerInv'
  BY <1>14 DEF RecoverScopeFails, Return, CallerInv, OneCaller, HasStatement, Untracked, SessionInv
<1>15. ASSUME NEW t \in Threads, BeginScript(t) PROVE CallerInv'
  BY <1>15 DEF BeginScript, Return, Continue, CallerInv, OneCaller, HasStatement, Untracked, SessionInv
<1>16. ASSUME NEW t \in Threads, ScriptRead(t) PROVE CallerInv'
  BY <1>16 DEF ScriptRead, AtStatement, NextStatement, Continue, CallerInv, OneCaller, HasStatement, Untracked,
     SessionInv
<1>17. ASSUME NEW t \in Threads, ScriptWrite(t) PROVE CallerInv'
  BY <1>17 DEF ScriptWrite, AtStatement, NextStatement, Continue, ServerWrite, CallerInv,
     OneCaller, HasStatement,
     Untracked, SessionInv
<1>18. ASSUME NEW t \in Threads, ScriptCommit(t) PROVE CallerInv'
  BY <1>18 DEF ScriptCommit, AtStatement, NextStatement, Continue, ServerCommit, CallerInv,
     OneCaller, HasStatement, Untracked, SessionInv
<1>19. ASSUME NEW t \in Threads, ScriptCommitFails(t) PROVE CallerInv'
  BY <1>19 DEF ScriptCommitFails, AtStatement, Return, ServerForget, CallerInv, OneCaller, HasStatement,
     Untracked, SessionInv
<1>20. ASSUME NEW t \in Threads, ScriptRollback(t) PROVE CallerInv'
  BY <1>20 DEF ScriptRollback, AtStatement, NextStatement, Continue, ServerForget, CallerInv,
     OneCaller, HasStatement, Untracked, SessionInv
<1>21. ASSUME NEW t \in Threads, ScriptError(t) PROVE CallerInv'
  BY <1>21 DEF ScriptError, AtStatement, Return, ServerError, CallerInv, OneCaller, HasStatement, Untracked,
     SessionInv
<1>22. ASSUME NEW t \in Threads, ScriptAbandoned(t) PROVE CallerInv'
  BY <1>22 DEF ScriptAbandoned, Return, CallerInv, OneCaller, HasStatement, Untracked, SessionInv
<1>23. ASSUME NEW t \in Threads, EndScript(t) PROVE CallerInv'
  BY <1>23 DEF EndScript, Return, CallerInv, OneCaller, HasStatement, Untracked, SessionInv
<1>24. ASSUME NEW t \in Threads, ConnectionCommit(t) PROVE CallerInv'
  BY <1>24 DEF ConnectionCommit, ServerCommit, CallerInv, OneCaller, HasStatement, Untracked, SessionInv
<1>25. ASSUME NEW t \in Threads, CommitConflict(t) PROVE CallerInv'
  BY <1>25 DEF CommitConflict, ServerForget, CallerInv, OneCaller, HasStatement, Untracked, SessionInv
<1>26. ASSUME NEW t \in Threads, ConnectionRollback(t) PROVE CallerInv'
  BY <1>26 DEF ConnectionRollback, ServerForget, CallerInv, OneCaller, HasStatement, Untracked, SessionInv
<1>27. ASSUME NEW t \in Threads, EnableAutoCommit(t) PROVE CallerInv'
  BY <1>27 DEF EnableAutoCommit, ServerCommit, CommitAllowed, CallerInv, OneCaller, HasStatement, Untracked,
     SessionInv
<1>28. ASSUME NEW t \in Threads, DisableAutoCommit(t) PROVE CallerInv'
  BY <1>28 DEF DisableAutoCommit, CallerInv, OneCaller, HasStatement, Untracked, SessionInv
<1>29. ASSUME NEW t \in Threads, Advances(t) PROVE CallerInv'
  BY <1>29 DEF Advances, CallerInv, OneCaller, HasStatement, Untracked, SessionInv
<1>30. ASSUME NEW t \in Threads, NEW q \in Scripts, SetSqlQuery(t, q) PROVE CallerInv'
  <2>1. q # NoQuery
    BY ScriptsAssumption DEF NoQuery
  <2>2. HasStatement(t)' /\ \A u \in Threads : u # t => HasStatement(u)' = HasStatement(u)
    BY <1>30, <2>1 DEF SetSqlQuery, HasStatement
  <2>3. OneCaller' => OneCaller
    BY <2>2 DEF OneCaller
  <2>. QED  BY <1>30, <2>2, <2>3 DEF SetSqlQuery, CallerInv, Untracked
<1>31. ASSUME NEW t \in Threads, NEW p, NEW path, TakeWriteGuard(t, p, path), HasStatement(t)
       PROVE  CallerInv'
  <2>1. /\ \A u \in Threads : HasStatement(u)' = HasStatement(u)
        /\ OneCaller' = OneCaller
        /\ \A u \in Threads : u # t => pc'[u] = pc[u]
    BY <1>31 DEF TakeWriteGuard, HasStatement, OneCaller
  <2>2. SUFFICES ASSUME OneCaller
                 PROVE  /\ \A u \in Threads : pc'[u] = "guarded" /\ ~op'[u].prior => Untracked(txn)'
                        /\ Untracked(keep)'
    BY <1>31, <2>1 DEF CallerInv
  <2>3. UNCHANGED <<txn, keep>> /\ tracked' \subseteq tracked \cup {issued + 1}
    BY <1>31 DEF TakeWriteGuard
  <2>4. \A v \in txn \cup keep : v[1] # issued + 1
    BY DEF IdentityInv
  <2>5. op'[t].prior = modified
    BY <1>31 DEF TakeWriteGuard, NewOperation
  <2>6. \A u \in Threads : pc[u] = "idle"
    BY <1>31, <2>2 DEF TakeWriteGuard, OneCaller, CallerInv
  <2>7. \A u \in Threads : pc'[u] = "guarded" => u = t
    BY <2>1, <2>6
  <2>8. ~modified => Untracked(txn)
    BY <2>6 DEF TrackInv, InProgress, Untracked
  <2>9. Untracked(keep)
    BY <2>2 DEF CallerInv
  <2>. QED  BY <2>3, <2>4, <2>5, <2>7, <2>8, <2>9 DEF Untracked
<1>32. CASE LoseSession
  BY <1>32 DEF LoseSession, ServerForget, CallerInv, OneCaller, HasStatement, Untracked, SessionInv
<1>33. ASSUME NEW t \in Threads, CallIngest(t) \/ CallBatch(t) \/ CallScript(t)
       PROVE  CallerInv'
  <2>1. HasStatement(t)
    <3>1. CASE target[t]
      BY <3>1 DEF HasStatement
    <3>2. CASE query[t] = <<"write">>
      <4>1. <<"write">> # <<>>
        OBVIOUS
      <4>. QED  BY <3>2, <4>1 DEF HasStatement, NoQuery
    <3>3. CASE query[t] # NoQuery
      BY <3>3 DEF HasStatement
    <3>. QED  BY <1>33, <3>1, <3>2, <3>3, Zenon DEF CallIngest, CallBatch, CallScript
  <2>. QED  BY <1>31, <1>33, <2>1 DEF CallIngest, CallBatch, CallScript
<1>. QED  BY ScopeAdvances, <1>1, <1>2, <1>3, <1>4, <1>5, <1>6, <1>7, <1>8, <1>9, <1>10, <1>11,
             <1>12, <1>13, <1>14, <1>15, <1>16, <1>17, <1>18, <1>19, <1>20, <1>21, <1>22, <1>23,
             <1>24, <1>25, <1>26, <1>27, <1>28, <1>29, <1>30, <1>32, <1>33, Zenon
   DEF Next, Statement, Operation, Script, TransactionCall

-----------------------------------------------------------------------------
(* The theorems.                                                            *)

TInv == ModeInv /\ KeptInv /\ TrackInv /\ CallerInv

\* Nothing is written, marked or tracked at first.
LEMMA InitTracking == Init => TInv
<1>. SUFFICES ASSUME Init PROVE TInv
  OBVIOUS
<1>1. ModeInv
  BY DEF Init, ModeInv
<1>2. KeptInv
  BY DEF Init, KeptInv, Kept
<1>3. TrackInv /\ CallerInv
  BY DEF Init, TrackInv, CallerInv, Untracked
<1>. QED  BY <1>1, <1>2, <1>3 DEF TInv

\* Every step keeps the invariants.
LEMMA NextTracking == IInv /\ IInv' /\ TInv /\ [Next]_vars => TInv'
<1>. SUFFICES ASSUME IInv, IInv', TInv, [Next]_vars PROVE TInv'
  OBVIOUS
<1>1. CASE Next
  BY <1>1, ModeInvStep, KeptInvStep, TrackInvStep, CallerInvStep DEF IInv, TInv
<1>2. CASE UNCHANGED vars
  <2>1. ModeInv'
    BY <1>2 DEF vars, TInv, ModeInv
  <2>2. KeptInv'
    <3>1. \A i : WritesOf(i)' = WritesOf(i)
      BY <1>2 DEF vars, WritesOf
    <3>. QED  BY <1>2, <3>1 DEF vars, TInv, KeptInv, Kept, Together, Within
  <2>3. TrackInv'
    BY <1>2 DEF vars, TInv, TrackInv, InProgress, OwnWrites
  <2>4. CallerInv'
    BY <1>2 DEF vars, TInv, CallerInv, OneCaller, HasStatement, Untracked
  <2>. QED  BY <2>1, <2>2, <2>3, <2>4 DEF TInv
<1>. QED  BY <1>1, <1>2

\* The inductive invariants hold in every reachable state.
THEOREM TrackingInvariance == Spec => [](IInv /\ TInv)
<1>. QED  BY Invariance, InitTracking, NextTracking, PTL DEF Spec

\* begin_atomic and finish_atomic leave the session in the mode the caller
\* chose, whichever way an operation ended, once the connection is unlocked.
THEOREM ModeAlwaysRestored == Spec => []AutocommitRestored
<1>1. TInv => AutocommitRestored
  BY DEF TInv, ModeInv, AutocommitRestored
<1>. QED  BY <1>1, TrackingInvariance, PTL

\* transaction_poison is never set on an unlocked connection in autocommit mode,
\* where no ROLLBACK could clear it.
THEOREM MarkNeedsTransaction == Spec => []PoisonNeedsTransaction
<1>1. TInv => PoisonNeedsTransaction
  BY DEF TInv, ModeInv, PoisonNeedsTransaction
<1>. QED  BY <1>1, TrackingInvariance, PTL

\* No recovery of one operation (finish_atomic, ROLLBACK TO SAVEPOINT) discards
\* writes that another one has acknowledged; they go with the transaction, and
\* those of a multi-row update or an ingest go together.
THEOREM AcknowledgedAlwaysKept == Spec => []AcknowledgedWritesKept
<1>1. TInv => AcknowledgedWritesKept
  BY DEF TInv, KeptInv, Kept, Together, Within, AcknowledgedWritesKept
<1>. QED  BY <1>1, TrackingInvariance, PTL

\* When every call has returned, transaction_modified is set if the transaction
\* holds a tracked write, although other threads raise and clear it without
\* holding the connection.
THEOREM WritesAlwaysTracked == Spec => []WritesAreTracked
<1>1. TInv => WritesAreTracked
  BY DEF TInv, TrackInv, InProgress, WritesAreTracked
<1>. QED  BY <1>1, TrackingInvariance, PTL

\* While one thread executes statements, begin_atomic opens no savepoint over
\* tracked writes: between TransactionWriteGuard::new, which reads the flag, and
\* the lock, other threads can only end the transaction.
THEOREM PriorWritesBlockSavepoints == Spec => []TrackedWritesBlockSavepoints
<1>1. TInv => TrackedWritesBlockSavepoints
  BY DEF TInv, CallerInv, Untracked, Owners, TrackedWritesBlockSavepoints
<1>. QED  BY <1>1, TrackingInvariance, PTL
=============================================================================
