------------------------- MODULE TransactionsProofs -------------------------
(***************************************************************************)
(* Type correctness and failure atomicity of Transactions for any number   *)
(* of threads, operations and parts.  The steps of SQL texts, of the       *)
(* Connection calls and of a lost session preserve the invariant of        *)
(* TransactionsScopeProofs; the disjuncts of Next are these steps and the  *)
(* ones of that module.                                                    *)
(***************************************************************************)
EXTENDS TransactionsScopeProofs

USE BoundsAssumption, ThreadsAssumption
    DEF IInv, TypeOK, SessionType, DriverType, HistoryType, server, driver, stmt,
        history, Ids, Parts, Writes, Free, Holding, InScope

\* How BeginScript ends: the text is refused, or it runs.
RefusesScript(t) ==
    /\ pc[t] = "guarded" /\ lock = Free
    /\ Return(t, "failed")
    /\ UNCHANGED <<server, modified, poison, stmt, issued, executed, tracked,
                   partialOk, callerMode>>
StartsScript(t) ==
    /\ pc[t] = "guarded" /\ lock = Free
    /\ HasCommit(query[t]) => ~poison
    /\ op' = op /\ pc' = [pc EXCEPT ![t] = "script"] /\ lock' = t
    /\ UNCHANGED <<server, modified, poison, stmt, issued, executed, tracked,
                   partialOk, callerMode, result>>

\* A refused text has executed nothing.
LEMMA RefusesScriptStep ==
    ASSUME IInv, NEW t \in Threads, RefusesScript(t)
    PROVE  IInv'
<1>. USE DEF RefusesScript, Return
<1>1. TypeOK'
  BY DEF IdentityInv, Labels, Operations
<1>2. LockInv' /\ IdentityInv' /\ SessionInv'
  BY DEF LockInv, IdentityInv, SessionInv
<1>3. WaitingInv'
  BY SMTT(30) DEF Operations, LockInv, IdentityInv, SessionInv, WaitingInv, OwnWrites
<1>4. ScopeInv'
  BY SMTT(30) DEF LockInv, IdentityInv, ScopeInv, OwnWrites, WritesOf
<1>5. ScriptInv'
  BY SMTT(30) DEF LockInv, IdentityInv, ScriptInv, OwnWrites
<1>6. LeftoverInv'
  BY SMTT(30) DEF IdentityInv, SessionInv, LeftoverInv, Left
<1>7. FailedOperationsLeaveNothing'
  BY SMTT(30) DEF IdentityInv, FailedOperationsLeaveNothing, WritesOf
<1>. QED  BY <1>1, <1>2, <1>3, <1>4, <1>5, <1>6, <1>7

\* A text with COMMIT starts in an unmarked transaction.
LEMMA StartsScriptStep ==
    ASSUME IInv, NEW t \in Threads, StartsScript(t)
    PROVE  IInv'
<1>. USE ScriptsAssumption DEF StartsScript
<1>1. TypeOK'
  BY DEF IdentityInv, Labels, Operations
<1>2. LockInv' /\ IdentityInv' /\ SessionInv'
  BY DEF LockInv, IdentityInv, SessionInv
<1>3. WaitingInv'
  BY SMTT(30) DEF IdentityInv, WaitingInv, OwnWrites
<1>4. ScopeInv'
  BY SMTT(30) DEF LockInv, IdentityInv, ScopeInv, OwnWrites, WritesOf
<1>5. ScriptInv'
  BY SMTT(30) DEF Operations, LockInv, IdentityInv, SessionInv, WaitingInv, ScriptInv,
         OwnWrites, HasCommit
<1>6. LeftoverInv'
  BY SMTT(30) DEF IdentityInv, SessionInv, LeftoverInv, Left
<1>7. FailedOperationsLeaveNothing'
  BY SMTT(30) DEF IdentityInv, FailedOperationsLeaveNothing, WritesOf
<1>. QED  BY <1>1, <1>2, <1>3, <1>4, <1>5, <1>6, <1>7

\* A statement of a text that reads.
LEMMA ScriptReadStep ==
    ASSUME IInv, NEW t \in Threads, ScriptRead(t)
    PROVE  IInv'
<1>. USE ScriptsAssumption DEF ScriptRead, AtStatement, Current, NextStatement, Continue
<1>1. TypeOK'
  <2>1. [op[t] EXCEPT !.part = @ + 1] \in Operations
    BY ScriptPart, OperationUpdate, ZenonT(30)
  <2>2. op' \in [Threads -> Operations]
    BY <2>1
  <2>3. SessionType'
    BY <2>1 DEF IdentityInv
  <2>4. DriverType'
    OBVIOUS
  <2>5. HistoryType'
    OBVIOUS
  <2>6. pc' \in [Threads -> Labels]
    BY DEF Labels
  <2>. QED  BY <2>2, <2>3, <2>4, <2>5, <2>6
<1>2. LockInv' /\ IdentityInv' /\ SessionInv'
  BY DEF LockInv, IdentityInv, SessionInv
<1>3. WaitingInv'
  BY SMTT(30) DEF IdentityInv, WaitingInv, OwnWrites
<1>4. ScopeInv'
  BY SMTT(30) DEF LockInv, IdentityInv, ScopeInv, OwnWrites, WritesOf
<1>5. ScriptInv'
  BY SMTT(30) DEF Operations, LockInv, IdentityInv, SessionInv, ScriptInv, OwnWrites,
         HasCommit
<1>6. LeftoverInv'
  BY SMTT(30) DEF IdentityInv, SessionInv, LeftoverInv, Left
<1>7. FailedOperationsLeaveNothing'
  BY SMTT(30) DEF IdentityInv, FailedOperationsLeaveNothing, WritesOf
<1>. QED  BY <1>1, <1>2, <1>3, <1>4, <1>5, <1>6, <1>7

\* A statement of a text that writes.
LEMMA ScriptWriteStep ==
    ASSUME IInv, NEW t \in Threads, ScriptWrite(t)
    PROVE  IInv'
<1>. USE ScriptsAssumption DEF ScriptWrite, ServerWrite, AtStatement, Current, NextStatement, Continue
<1>1. TypeOK'
  <2>1. [op[t] EXCEPT !.part = @ + 1] \in Operations
    BY ScriptPart, OperationUpdate, ZenonT(30)
  <2>2. op' \in [Threads -> Operations]
    BY <2>1
  <2>0. op[t].id \in Ids /\ op[t].part + 1 \in Parts
    BY ScriptPart DEF IdentityInv
  <2>3. SessionType'
    BY <2>0 DEF IdentityInv
  <2>4. DriverType'
    OBVIOUS
  <2>a. executed' \in [Ids -> SUBSET Parts]
    BY <2>0
  <2>5. HistoryType'
    BY <2>a
  <2>6. pc' \in [Threads -> Labels]
    BY DEF Labels
  <2>. QED  BY <2>2, <2>3, <2>4, <2>5, <2>6
<1>2. LockInv' /\ IdentityInv' /\ SessionInv'
  BY DEF LockInv, IdentityInv, SessionInv
<1>3. WaitingInv'
  BY SMTT(30) DEF IdentityInv, WaitingInv, OwnWrites
<1>4. ScopeInv'
  BY SMTT(30) DEF LockInv, IdentityInv, ScopeInv, OwnWrites, WritesOf
<1>5. ScriptInv'
  <2>1. <<op[t].id, op[t].part + 1>> \in OwnWrites(t)
    BY ScriptPart DEF OwnWrites
  <2>2. txn' \subseteq txn \cup {<<op[t].id, op[t].part + 1>>}
    OBVIOUS
  <2>3. op'[t].part = op[t].part + 1 /\ op'[t].id = op[t].id /\ op[t].part \in Nat
          /\ \A u \in Threads : u # t => op'[u] = op[u] /\ pc'[u] = pc[u]
    BY DEF Operations
  <2>4. OwnWrites(t)' = OwnWrites(t)
    BY <2>3 DEF OwnWrites
  <2>5. \A u \in Threads : u # t => pc'[u] # "script"
    BY <2>3 DEF LockInv
  <2>6. Len(query[t]) \in Nat
    BY DEF NoQuery
  <2>7. \A r \in 1..op'[t].part : query[t][r] = "rollback" => r \in 1..op[t].part
    BY <2>3
  <2>8. /\ ~saved' /\ op'[t].part <= Len(query[t])
        /\ HasCommit(query[t]) => ~poison'
    BY <2>3, <2>6 DEF ScriptInv
  <2>9. \A r \in 1..op'[t].part : query[t][r] = "rollback" => txn' \subseteq OwnWrites(t)'
    <3>1. \A r \in 1..op[t].part : query[t][r] = "rollback" => txn \subseteq OwnWrites(t)
      BY DEF ScriptInv
    <3>. HIDE DEF IInv, TypeOK, ScriptWrite, AtStatement, NextStatement, Continue
    <3>. QED  BY <2>1, <2>2, <2>4, <2>7, <3>1
  <2>. QED  BY <2>5, <2>8, <2>9 DEF ScriptInv
<1>6. LeftoverInv'
  <2>1. op[t].id \in Ids /\ result[op[t].id] = "running"
    BY DEF IdentityInv
  <2>2. txn' \subseteq txn \cup {<<op[t].id, op[t].part + 1>>}
    OBVIOUS
  <2>. QED  BY <2>1, <2>2 DEF LeftoverInv, Left
<1>7. FailedOperationsLeaveNothing'
  <2>1. op[t].id \in Ids /\ result[op[t].id] = "running"
    BY DEF IdentityInv
  <2>2. /\ durable' \subseteq durable \cup {<<op[t].id, op[t].part + 1>>}
        /\ durable \subseteq durable'
    OBVIOUS
  <2>3. \A i \in Ids : i # op[t].id => WritesOf(i)' = WritesOf(i)
    BY DEF WritesOf
  <2>4. result' = result /\ partialOk' = partialOk /\ FailedOperationsLeaveNothing
    OBVIOUS
  <2>. HIDE DEF IInv, TypeOK, ScriptWrite, AtStatement, NextStatement, Continue
  <2>. QED  BY <2>1, <2>2, <2>3, <2>4 DEF FailedOperationsLeaveNothing
<1>. QED  BY <1>1, <1>2, <1>3, <1>4, <1>5, <1>6, <1>7

\* COMMIT in a text: the transaction is unmarked and has no leftovers.
LEMMA ScriptCommitStep ==
    ASSUME IInv, NEW t \in Threads, ScriptCommit(t)
    PROVE  IInv'
<1>. USE ScriptsAssumption DEF ScriptCommit, ServerCommit, AtStatement, Current, NextStatement, Continue
<1>1. TypeOK'
  <2>1. [op[t] EXCEPT !.part = @ + 1] \in Operations
    BY ScriptPart, OperationUpdate, ZenonT(30)
  <2>2. op' \in [Threads -> Operations]
    BY <2>1
  <2>3. SessionType'
    BY <2>1, ZenonT(30) DEF IdentityInv
  <2>4. DriverType'
    OBVIOUS
  <2>5. HistoryType'
    OBVIOUS
  <2>6. pc' \in [Threads -> Labels]
    BY DEF Labels
  <2>. QED  BY <2>2, <2>3, <2>4, <2>5, <2>6
<1>2. LockInv' /\ IdentityInv' /\ SessionInv'
  BY DEF LockInv, IdentityInv, SessionInv
<1>3. WaitingInv'
  BY SMTT(30) DEF IdentityInv, WaitingInv, OwnWrites
<1>4. ScopeInv'
  BY SMTT(30) DEF LockInv, IdentityInv, ScopeInv, OwnWrites, WritesOf
<1>5. ScriptInv'
  BY SMTT(30) DEF Operations, LockInv, IdentityInv, SessionInv, ScriptInv, OwnWrites,
         HasCommit
<1>6. LeftoverInv'
  BY SMTT(30) DEF IdentityInv, SessionInv, LeftoverInv, Left
<1>7. FailedOperationsLeaveNothing'
  BY SMTT(30) DEF Operations, LockInv, IdentityInv, SessionInv, ScriptInv, LeftoverInv,
         FailedOperationsLeaveNothing, OwnWrites, WritesOf, Left, HasCommit
<1>. QED  BY <1>1, <1>2, <1>3, <1>4, <1>5, <1>6, <1>7

\* A refused COMMIT in a text rolls the transaction back.
LEMMA ScriptCommitFailsStep ==
    ASSUME IInv, NEW t \in Threads, ScriptCommitFails(t)
    PROVE  IInv'
<1>. USE OwnersType DEF ScriptCommitFails, ServerForget, Return, AtStatement
<1>1. TypeOK'
  BY ZenonT(30) DEF IdentityInv, Labels, Operations
<1>2. LockInv' /\ IdentityInv' /\ SessionInv'
  BY DEF LockInv, IdentityInv, SessionInv
<1>3. WaitingInv'
  BY SMTT(30) DEF IdentityInv, WaitingInv, OwnWrites
<1>4. ScopeInv' /\ ScriptInv'
  <2>1. \A u \in Threads : pc'[u] \notin Holding
    BY DEF LockInv
  <2>. QED  BY <2>1 DEF ScopeInv, ScriptInv
<1>5. LeftoverInv'
  BY SMTT(30) DEF IdentityInv, SessionInv, LeftoverInv, Left
<1>6. FailedOperationsLeaveNothing'
  BY SMTT(30) DEF IdentityInv, FailedOperationsLeaveNothing, WritesOf
<1>. QED  BY <1>1, <1>2, <1>3, <1>4, <1>5, <1>6

\* ROLLBACK in a text empties the transaction.
LEMMA ScriptRollbackStep ==
    ASSUME IInv, NEW t \in Threads, ScriptRollback(t)
    PROVE  IInv'
<1>. USE ScriptsAssumption, OwnersType DEF ScriptRollback, ServerForget, AtStatement, Current, NextStatement, Continue
<1>1. TypeOK'
  <2>1. [op[t] EXCEPT !.part = @ + 1] \in Operations
    BY ScriptPart, OperationUpdate, ZenonT(30)
  <2>2. op' \in [Threads -> Operations]
    BY <2>1
  <2>3. SessionType'
    BY <2>1, ZenonT(30) DEF IdentityInv
  <2>4. DriverType'
    OBVIOUS
  <2>5. HistoryType'
    BY Zenon
  <2>6. pc' \in [Threads -> Labels]
    BY DEF Labels
  <2>. QED  BY <2>2, <2>3, <2>4, <2>5, <2>6
<1>2. LockInv' /\ IdentityInv' /\ SessionInv'
  BY DEF LockInv, IdentityInv, SessionInv
<1>3. WaitingInv'
  BY SMTT(30) DEF IdentityInv, WaitingInv, OwnWrites
<1>4. ScopeInv'
  BY SMTT(30) DEF LockInv, IdentityInv, ScopeInv, OwnWrites, WritesOf
<1>5. ScriptInv'
  BY SMTT(30) DEF Operations, LockInv, IdentityInv, SessionInv, ScriptInv, OwnWrites,
         HasCommit
<1>6. LeftoverInv'
  BY SMTT(30) DEF IdentityInv, SessionInv, LeftoverInv, Left
<1>7. FailedOperationsLeaveNothing'
  BY SMTT(30) DEF IdentityInv, FailedOperationsLeaveNothing, WritesOf
<1>. QED  BY <1>1, <1>2, <1>3, <1>4, <1>5, <1>6, <1>7

\* A failed statement of a text aborts an explicit transaction.
LEMMA ScriptErrorStep ==
    ASSUME IInv, NEW t \in Threads, ScriptError(t)
    PROVE  IInv'
<1>. USE DEF ScriptError, ServerError, Return, AtStatement
<1>1. TypeOK'
  BY DEF IdentityInv, Labels, Operations
<1>2. LockInv'
  BY DEF LockInv
<1>3. IdentityInv'
  BY DEF LockInv, IdentityInv
<1>4. SessionInv'
  BY DEF LockInv, SessionInv, ScopeInv, ScriptInv
<1>5. WaitingInv'
  BY SMTT(30) DEF IdentityInv, WaitingInv, OwnWrites
<1>6. ScopeInv' /\ ScriptInv'
  <2>1. \A u \in Threads : pc'[u] \notin Holding
    BY DEF LockInv
  <2>. QED  BY <2>1 DEF ScopeInv, ScriptInv
<1>7. LeftoverInv'
  BY SMTT(30) DEF IdentityInv, SessionInv, LeftoverInv, Left
<1>8. FailedOperationsLeaveNothing'
  BY SMTT(30) DEF IdentityInv, FailedOperationsLeaveNothing, WritesOf
<1>. QED  BY <1>1, <1>2, <1>3, <1>4, <1>5, <1>6, <1>7, <1>8

\* The session closes while a text runs.
LEMMA ScriptAbandonedStep ==
    ASSUME IInv, NEW t \in Threads, ScriptAbandoned(t)
    PROVE  IInv'
<1>. USE DEF ScriptAbandoned, Return
<1>1. TypeOK'
  BY DEF IdentityInv, Labels, Operations
<1>2. LockInv' /\ IdentityInv' /\ SessionInv'
  BY DEF LockInv, IdentityInv, SessionInv
<1>3. WaitingInv'
  BY SMTT(30) DEF IdentityInv, WaitingInv, OwnWrites
<1>4. ScopeInv' /\ ScriptInv'
  <2>1. \A u \in Threads : pc'[u] \notin Holding
    BY DEF LockInv
  <2>. QED  BY <2>1 DEF ScopeInv, ScriptInv
<1>5. LeftoverInv'
  BY SMTT(30) DEF IdentityInv, SessionInv, LeftoverInv, Left
<1>6. FailedOperationsLeaveNothing'
  BY SMTT(30) DEF IdentityInv, FailedOperationsLeaveNothing, WritesOf
<1>. QED  BY <1>1, <1>2, <1>3, <1>4, <1>5, <1>6

\* The end of a text: its effects on the mark and the tracking.
LEMMA EndScriptStep ==
    ASSUME IInv, NEW t \in Threads, EndScript(t)
    PROVE  IInv'
<1>. USE ScriptsAssumption DEF EndScript, Return
<1>1. TypeOK'
  BY DEF IdentityInv, Labels, Operations
<1>2. LockInv'
  BY DEF LockInv
<1>3. IdentityInv'
  BY DEF LockInv, IdentityInv
<1>4. SessionInv'
  BY DEF LockInv, SessionInv, ScopeInv, ScriptInv
<1>5. WaitingInv'
  BY SMTT(30) DEF IdentityInv, WaitingInv, OwnWrites
<1>6. ScopeInv' /\ ScriptInv'
  <2>1. \A u \in Threads : pc'[u] \notin Holding
    BY DEF LockInv
  <2>. QED  BY <2>1, ZenonT(30) DEF ScopeInv, ScriptInv
<1>7. FailedOperationsLeaveNothing'
  BY SMTT(30) DEF IdentityInv, FailedOperationsLeaveNothing, WritesOf
<1>8. LeftoverInv'
  <2>1. op[t].id \in Ids /\ result'[op[t].id] = "done"
    BY DEF IdentityInv
  <2>2. CASE HasRollback(query[t])
    <3>1. PICK r \in DOMAIN query[t] : query[t][r] = "rollback"
      BY <2>2 DEF HasRollback
    <3>2. r \in 1..op[t].part
      BY <3>1
    <3>3. txn \subseteq OwnWrites(t) /\ keep = {}
      BY <3>1, <3>2 DEF ScriptInv, SessionInv
    <3>. QED  BY <2>1, <3>3 DEF LeftoverInv, Left, OwnWrites
  <2>3. CASE ~HasRollback(query[t])
    BY <2>1, <2>3 DEF LeftoverInv, Left
  <2>. QED  BY <2>2, <2>3
<1>. QED  BY <1>1, <1>2, <1>3, <1>4, <1>5, <1>6, <1>7, <1>8

\* Connection::commit is refused while the transaction is marked.
LEMMA ConnectionCommitStep ==
    ASSUME IInv, NEW t \in Threads, ConnectionCommit(t)
    PROVE  IInv'
<1>. USE DEF ConnectionCommit, CommitAllowed, ServerCommit
<1>1. TypeOK'
  BY ZenonT(30) DEF IdentityInv, Labels, Operations
<1>2. LockInv' /\ IdentityInv' /\ SessionInv'
  BY DEF LockInv, IdentityInv, SessionInv
<1>3. WaitingInv'
  BY SMTT(30) DEF IdentityInv, WaitingInv, OwnWrites
<1>4. ScopeInv' /\ ScriptInv'
  <2>1. \A u \in Threads : pc'[u] \notin Holding
    BY DEF LockInv
  <2>. QED  BY <2>1 DEF ScopeInv, ScriptInv
<1>5. LeftoverInv'
  BY SMTT(30) DEF IdentityInv, SessionInv, LeftoverInv, Left
<1>6. FailedOperationsLeaveNothing'
  BY SMTT(30) DEF Operations, LockInv, IdentityInv, SessionInv, ScopeInv, LeftoverInv,
         FailedOperationsLeaveNothing, OwnWrites, WritesOf, Left
<1>. QED  BY <1>1, <1>2, <1>3, <1>4, <1>5, <1>6

\* A refused Connection::commit rolls the transaction back.
LEMMA CommitConflictStep ==
    ASSUME IInv, NEW t \in Threads, CommitConflict(t)
    PROVE  IInv'
<1>. USE OwnersType DEF CommitConflict, ServerForget
<1>1. TypeOK'
  BY ZenonT(30) DEF IdentityInv, Labels, Operations
<1>2. LockInv' /\ IdentityInv' /\ SessionInv'
  BY DEF LockInv, IdentityInv, SessionInv
<1>3. WaitingInv'
  BY SMTT(30) DEF IdentityInv, WaitingInv, OwnWrites
<1>4. ScopeInv' /\ ScriptInv'
  <2>1. \A u \in Threads : pc'[u] \notin Holding
    BY DEF LockInv
  <2>. QED  BY <2>1 DEF ScopeInv, ScriptInv
<1>5. LeftoverInv'
  BY SMTT(30) DEF IdentityInv, SessionInv, LeftoverInv, Left
<1>6. FailedOperationsLeaveNothing'
  BY SMTT(30) DEF IdentityInv, FailedOperationsLeaveNothing, WritesOf
<1>. QED  BY <1>1, <1>2, <1>3, <1>4, <1>5, <1>6

\* Connection::rollback empties the transaction and lifts the mark.
LEMMA ConnectionRollbackStep ==
    ASSUME IInv, NEW t \in Threads, ConnectionRollback(t)
    PROVE  IInv'
<1>. USE OwnersType DEF ConnectionRollback, ServerForget
<1>1. TypeOK'
  BY ZenonT(30) DEF IdentityInv, Labels, Operations
<1>2. LockInv' /\ IdentityInv' /\ SessionInv'
  BY DEF LockInv, IdentityInv, SessionInv
<1>3. WaitingInv'
  BY SMTT(30) DEF IdentityInv, WaitingInv, OwnWrites
<1>4. ScopeInv' /\ ScriptInv'
  <2>1. \A u \in Threads : pc'[u] \notin Holding
    BY DEF LockInv
  <2>. QED  BY <2>1 DEF ScopeInv, ScriptInv
<1>5. LeftoverInv'
  BY SMTT(30) DEF IdentityInv, SessionInv, LeftoverInv, Left
<1>6. FailedOperationsLeaveNothing'
  BY SMTT(30) DEF IdentityInv, FailedOperationsLeaveNothing, WritesOf
<1>. QED  BY <1>1, <1>2, <1>3, <1>4, <1>5, <1>6

\* Enabling autocommit commits an unmarked transaction.
LEMMA EnableAutoCommitStep ==
    ASSUME IInv, NEW t \in Threads, EnableAutoCommit(t)
    PROVE  IInv'
<1>. USE DEF EnableAutoCommit, CommitAllowed, ServerCommit
<1>1. TypeOK'
  BY ZenonT(30) DEF IdentityInv, Labels, Operations
<1>2. LockInv' /\ IdentityInv' /\ SessionInv'
  BY DEF LockInv, IdentityInv, SessionInv
<1>3. WaitingInv'
  BY SMTT(30) DEF IdentityInv, WaitingInv, OwnWrites
<1>4. ScopeInv' /\ ScriptInv'
  <2>1. \A u \in Threads : pc'[u] \notin Holding
    BY DEF LockInv
  <2>. QED  BY <2>1 DEF ScopeInv, ScriptInv
<1>5. LeftoverInv'
  BY SMTT(30) DEF IdentityInv, SessionInv, LeftoverInv, Left
<1>6. FailedOperationsLeaveNothing'
  BY SMTT(30) DEF Operations, LockInv, IdentityInv, SessionInv, ScopeInv, LeftoverInv,
         FailedOperationsLeaveNothing, OwnWrites, WritesOf, Left
<1>. QED  BY <1>1, <1>2, <1>3, <1>4, <1>5, <1>6

\* Disabling autocommit starts with an empty transaction.
LEMMA DisableAutoCommitStep ==
    ASSUME IInv, NEW t \in Threads, DisableAutoCommit(t)
    PROVE  IInv'
<1>. USE DEF DisableAutoCommit
<1>1. TypeOK'
  BY ZenonT(30) DEF IdentityInv, Labels, Operations
<1>2. LockInv' /\ IdentityInv' /\ SessionInv'
  BY DEF LockInv, IdentityInv, SessionInv
<1>3. WaitingInv'
  BY SMTT(30) DEF IdentityInv, WaitingInv, OwnWrites
<1>4. ScopeInv' /\ ScriptInv'
  <2>1. \A u \in Threads : pc'[u] \notin Holding
    BY DEF LockInv
  <2>. QED  BY <2>1 DEF ScopeInv, ScriptInv
<1>5. LeftoverInv'
  BY SMTT(30) DEF IdentityInv, SessionInv, LeftoverInv, Left
<1>6. FailedOperationsLeaveNothing'
  BY SMTT(30) DEF IdentityInv, FailedOperationsLeaveNothing, WritesOf
<1>. QED  BY <1>1, <1>2, <1>3, <1>4, <1>5, <1>6, ZenonT(30)

\* A lost session keeps durable writes and drops the transaction.
LEMMA LoseSessionStep ==
    ASSUME IInv, LoseSession
    PROVE  IInv'
<1>1. txn' = {} /\ keep' = {} /\ saved' = FALSE /\ aborted' = FALSE /\ alive' = FALSE
  BY DEF LoseSession, ServerForget
<1>2. UNCHANGED <<autocommit, durable, lock, modified, poison, query, target, pc, op,
                  issued, result, executed, tracked, partialOk, callerMode>>
  BY DEF LoseSession
<1>3. TypeOK'
  BY <1>1, <1>2, OwnersType, ZenonT(30) DEF LoseSession, ServerForget
<1>4. LockInv' /\ SessionInv'
  BY <1>1, <1>2 DEF LockInv, SessionInv
<1>5. IdentityInv'
  BY <1>1, <1>2 DEF IdentityInv
<1>6. WaitingInv'
  BY <1>1, <1>2 DEF WaitingInv, OwnWrites
<1>7. ScopeInv'
  BY <1>1, <1>2 DEF ScopeInv, OwnWrites
<1>8. ScriptInv'
  BY <1>1, <1>2 DEF ScriptInv, OwnWrites, HasCommit
<1>9. LeftoverInv' /\ FailedOperationsLeaveNothing'
  BY <1>1, <1>2 DEF LeftoverInv, FailedOperationsLeaveNothing, WritesOf
<1>. QED  BY <1>3, <1>4, <1>5, <1>6, <1>7, <1>8, <1>9

HIDE DEF IInv, TypeOK, SessionType, DriverType, HistoryType, server, driver, stmt,
         history, Ids, Parts, Writes, Free, Holding, InScope

-----------------------------------------------------------------------------
(* The disjuncts of Next, case by case.                                     *)

HIDE DEF IInv, TypeOK, SessionType, DriverType, HistoryType, server, driver, stmt,
         history, Ids, Parts, Writes, Free, Holding, InScope

\* Operation o is operation s of the same thread, further on in its scope.
Follows(o, s) ==
    /\ o.id = s.id /\ o.plan = s.plan /\ o.path = s.path
    /\ o.scope = s.scope /\ (s.started => o.started)

Around == <<modified, poison, stmt, issued, tracked, partialOk, callerMode>>

\* Every way a server command inside a scope can end preserves the invariant.
LEMMA RunPartStep ==
    ASSUME IInv, NEW t \in Threads, NEW k \in Parts, NEW o \in Operations,
           pc[t] \in InScope, Follows(o, op[t]), o.started,
           RunPart(t, k, "parts", o), UNCHANGED Around
    PROVE  IInv'
<1>. DEFINE r == [o EXCEPT !.part = k]
            Err(f) == [o EXCEPT !.failed = f]
<1>1. /\ r \in Operations /\ Follows(r, op[t]) /\ r.started /\ r.id = o.id
  BY DEF Operations, Follows
<1>2. /\ [r EXCEPT !.failed = "client"] \in Operations
      /\ Follows([r EXCEPT !.failed = "client"], op[t])
      /\ [r EXCEPT !.failed = "client"].started
      /\ [r EXCEPT !.failed = "client"].id = o.id
  BY <1>1, ZenonT(30) DEF Operations, Follows
<1>3. \A f \in {"sql", "missing", "dead"} : Err(f) \in Operations /\ Follows(Err(f), op[t])
  BY DEF Operations, Follows
<1>4. {"parts", "finish"} \subseteq InScope
  BY DEF InScope
<1>. HIDE DEF r, Err
<1>5. CASE /\ alive /\ ServerWrite(<<o.id, k>>)
           /\ executed' = [executed EXCEPT ![o.id] = @ \cup {k}]
           /\ Continue(t, "parts", r)
  <2>1. Inside(t, "parts", r)
    BY <1>1, <1>5, ZenonT(30) DEF Inside, Follows, Around
  <2>. QED  BY <1>1, <1>4, <1>5, <2>1, InsideWriteStep, ZenonT(30)
<1>6. CASE /\ alive /\ ServerWrite(<<o.id, k>>)
           /\ executed' = [executed EXCEPT ![o.id] = @ \cup {k}]
           /\ Fail(t, "client", r)
  <2>1. Inside(t, "finish", [r EXCEPT !.failed = "client"])
    BY <1>2, <1>6 DEF Inside, Follows, Around, Fail
  <2>. QED  BY <1>2, <1>4, <1>6, <2>1, InsideWriteStep, ZenonT(30)
<1>7. ASSUME NEW f \in {"sql", "missing"}, ServerError, UNCHANGED executed,
             Continue(t, "finish", Err(f))
      PROVE  IInv'
  <2>1. Inside(t, "finish", Err(f))
    BY <1>3, <1>7 DEF Inside, Follows, Around
  <2>. QED  BY <1>3, <1>4, <1>7, <2>1, InsideErrorStep
<1>8. CASE Continue(t, "finish", Err("dead")) /\ UNCHANGED <<server, executed>>
  <2>1. Inside(t, "finish", Err("dead"))
    BY <1>3, <1>8 DEF Inside, Follows, Around
  <2>. QED  BY <1>3, <1>4, <1>8, <2>1, InsidesStep
<1>. QED  BY <1>5, <1>6, <1>7, <1>8 DEF RunPart, Fail, r, Err

\* The steps that only move an operation on inside its scope.
LEMMA PrepareTargetStep ==
    ASSUME IInv, NEW t \in Threads, PrepareTarget(t)
    PROVE  IInv'
<1>. DEFINE o == [op[t] EXCEPT !.started = @ \/ op[t].plan.route = "staged"]
<1>1. op[t] \in Operations /\ pc[t] \in InScope
  BY DEF IInv, TypeOK, InScope, PrepareTarget
<1>2. o \in Operations /\ Follows(o, op[t])
  BY <1>1, ZenonT(30) DEF Operations, Follows
<1>3. \A s \in Operations, f \in {"sql", "client", "dead"} :
         /\ [s EXCEPT !.failed = f] \in Operations
         /\ Follows(s, op[t]) => Follows([s EXCEPT !.failed = f], op[t])
  BY DEF Operations, Follows
<1>4. {"parts", "finish"} \subseteq InScope /\ Follows(op[t], op[t])
  BY DEF InScope, Follows
<1>5. UNCHANGED Around
  BY DEF PrepareTarget, Around
<1>. HIDE DEF o
<1>6. CASE o.started /\ RunPart(t, 0, "parts", o)
  BY <1>1, <1>2, <1>5, <1>6, RunPartStep, BoundsAssumption DEF Parts
<1>7. CASE Continue(t, "parts", o) /\ UNCHANGED <<server, executed>>
  <2>1. Inside(t, "parts", o)
    BY <1>1, <1>2, <1>5, <1>7 DEF Inside, Follows, Around
  <2>. QED  BY <1>2, <1>4, <1>7, <2>1, InsidesStep
<1>8. CASE ServerError /\ Fail(t, "sql", o) /\ UNCHANGED executed
  <2>1. Inside(t, "finish", [o EXCEPT !.failed = "sql"])
    BY <1>1, <1>2, <1>3, <1>5, <1>8 DEF Inside, Follows, Around, Fail
  <2>. QED  BY <1>2, <1>3, <1>4, <1>8, <2>1, InsideErrorStep, ZenonT(30)
<1>9. ASSUME NEW f \in {"client", "dead"}, Fail(t, f, op[t]),
             UNCHANGED <<server, executed>>
      PROVE  IInv'
  <2>1. Inside(t, "finish", [op[t] EXCEPT !.failed = f])
    BY <1>1, <1>3, <1>4, <1>5, <1>9 DEF Inside, Follows, Around, Fail
  <2>. QED  BY <1>1, <1>3, <1>4, <1>9, <2>1, InsidesStep, ZenonT(30)
<1>. QED  BY <1>6, <1>7, <1>8, <1>9 DEF PrepareTarget, o

\* Each row script or COPY window is a command inside the scope.
LEMMA WritePartStep ==
    ASSUME IInv, NEW t \in Threads, WritePart(t)
    PROVE  IInv'
<1>. DEFINE o == [op[t] EXCEPT !.started = TRUE]
<1>1. op[t] \in Operations /\ pc[t] \in InScope
  BY DEF IInv, TypeOK, InScope, WritePart
<1>2. o \in Operations /\ Follows(o, op[t]) /\ o.started
  BY <1>1, ZenonT(30) DEF Operations, Follows
<1>3. o.part + 1 \in Parts /\ UNCHANGED Around
  BY <1>2, BoundsAssumption DEF WritePart, Around, Operations, Parts
<1>. HIDE DEF o
<1>4. RunPart(t, o.part + 1, "parts", o)
  BY DEF WritePart, o
<1>. QED  BY <1>1, <1>2, <1>3, <1>4, RunPartStep

\* The end or the failure of the input moves the operation on.
LEMMA StreamStep ==
    ASSUME IInv, NEW t \in Threads, StreamFails(t) \/ StreamEnds(t)
    PROVE  IInv'
<1>1. op[t] \in Operations /\ pc[t] \in InScope
  BY ZenonT(30) DEF IInv, TypeOK, InScope, StreamFails, StreamEnds
<1>2. /\ [op[t] EXCEPT !.failed = "client"] \in Operations
      /\ Follows([op[t] EXCEPT !.failed = "client"], op[t])
      /\ Follows(op[t], op[t])
  BY <1>1 DEF Operations, Follows
<1>3. {"move", "finish"} \subseteq InScope
  BY DEF InScope
<1>4. CASE StreamFails(t)
  <2>1. Inside(t, "finish", [op[t] EXCEPT !.failed = "client"])
    BY <1>1, <1>2, <1>4 DEF Inside, Follows, StreamFails, Fail
  <2>2. UNCHANGED <<server, executed>>
    BY <1>4 DEF StreamFails
  <2>. QED  BY <1>2, <1>3, <2>1, <2>2, InsidesStep
<1>5. CASE StreamEnds(t)
  <2>1. PICK l \in {"move", "finish"} : Continue(t, l, op[t])
    BY <1>5 DEF StreamEnds
  <2>2. Inside(t, l, op[t])
    BY <1>1, <1>2, <1>5, <2>1 DEF Inside, Follows, StreamEnds
  <2>3. UNCHANGED <<server, executed>>
    BY <1>5 DEF StreamEnds
  <2>. QED  BY <1>1, <1>3, <2>2, <2>3, InsidesStep
<1>. QED  BY <1>4, <1>5

\* The staged move is a command inside the scope.
LEMMA MoveStageStep ==
    ASSUME IInv, NEW t \in Threads, MoveStage(t)
    PROVE  IInv'
<1>1. op[t] \in Operations /\ pc[t] \in InScope
  BY DEF IInv, TypeOK, InScope, MoveStage
<1>2. \A f \in {"sql", "client", "dead"} :
         /\ [op[t] EXCEPT !.failed = f] \in Operations
         /\ Follows([op[t] EXCEPT !.failed = f], op[t])
  BY <1>1 DEF Operations, Follows
<1>3. "finish" \in InScope /\ Follows(op[t], op[t])
  BY DEF InScope, Follows
<1>4. UNCHANGED <<modified, poison, stmt, issued, executed, tracked, partialOk, callerMode>>
  BY DEF MoveStage
<1>5. CASE Continue(t, "finish", op[t]) /\ UNCHANGED server
  <2>1. Inside(t, "finish", op[t])
    BY <1>1, <1>3, <1>4, <1>5 DEF Inside, Follows
  <2>. QED  BY <1>1, <1>3, <1>4, <1>5, <2>1, InsidesStep
<1>6. CASE Fail(t, "sql", op[t]) /\ ServerError
  <2>1. Inside(t, "finish", [op[t] EXCEPT !.failed = "sql"])
    BY <1>1, <1>2, <1>4, <1>6 DEF Inside, Follows, Fail
  <2>. QED  BY <1>2, <1>3, <1>4, <1>6, <2>1, InsideErrorStep
<1>7. ASSUME NEW f \in {"client", "dead"}, Fail(t, f, op[t]), UNCHANGED server
      PROVE  IInv'
  <2>1. Inside(t, "finish", [op[t] EXCEPT !.failed = f])
    BY <1>1, <1>2, <1>4, <1>7 DEF Inside, Follows, Fail
  <2>. QED  BY <1>2, <1>3, <1>4, <1>7, <2>1, InsidesStep
<1>. QED  BY <1>5, <1>6, <1>7 DEF MoveStage

\* The guarded calls: ingest, batch and script.
LEMMA CallStep ==
    ASSUME IInv, NEW t \in Threads, CallIngest(t) \/ CallBatch(t) \/ CallScript(t)
    PROVE  IInv'
<1>1. CASE CallIngest(t)
  BY <1>1, PlansAssumption, TakeWriteGuardStep DEF CallIngest
<1>2. CASE CallBatch(t)
  BY <1>2, PlansAssumption, TakeWriteGuardStep DEF CallBatch
<1>3. CASE CallScript(t)
  <2>1. PICK path \in {"update", "query"} : TakeWriteGuard(t, NoPlan, path)
    BY <1>3 DEF CallScript
  <2>2. path # "batch" /\ NoPlan.route # "batch"
    BY <2>1 DEF NoPlan
  <2>. QED  BY <2>1, <2>2, TakeWriteGuardStep
<1>. QED  BY <1>1, <1>2, <1>3

\* finish_atomic rolls an autocommit scope back.
LEMMA RollbackScopeStep ==
    ASSUME IInv, NEW t \in Threads, RollbackScope(t)
    PROVE  IInv'
<1>1. RolledBack(t)
  BY DEF RollbackScope, RolledBack, RestoreAutocommit
<1>2. CASE ~Retries(op[t])
  BY <1>1, <1>2, RolledBackEndsStep DEF RollbackScope, ReturnOrRetry, Ends
<1>3. CASE Retries(op[t])
  <2>1. op[t] \in Operations
    BY DEF IInv, TypeOK
  <2>2. WaitsAgain(t, Restarted(op[t]))
    BY <1>3, <2>1, RestartedOperation DEF RollbackScope, ReturnOrRetry, WaitsAgain
  <2>. QED  BY <1>1, <2>1, <2>2, RestartedOperation, RolledBackWaitsStep
<1>. QED  BY <1>2, <1>3

\* finish_atomic rolls back to the savepoint.
LEMMA RecoverScopeStep ==
    ASSUME IInv, NEW t \in Threads, RecoverScope(t)
    PROVE  IInv'
<1>1. Recovered(t)
  BY ZenonT(30) DEF RecoverScope, Recovered, RollbackToSavepoint
<1>2. CASE ~Retries(op[t])
  BY <1>1, <1>2, RecoveredEndsStep DEF RecoverScope, ReturnOrRetry, Ends
<1>3. CASE Retries(op[t])
  <2>1. op[t] \in Operations
    BY DEF IInv, TypeOK
  <2>2. WaitsAgain(t, Restarted(op[t]))
    BY <1>3, <2>1, RestartedOperation DEF RecoverScope, ReturnOrRetry, WaitsAgain
  <2>. QED  BY <1>1, <2>1, <2>2, RestartedOperation, RecoveredWaitsStep
<1>. QED  BY <1>2, <1>3

\* A text is refused or starts.
LEMMA BeginScriptStep ==
    ASSUME IInv, NEW t \in Threads, BeginScript(t)
    PROVE  IInv'
<1>1. CASE ~alive \/ (HasCommit(query[t]) /\ ~CommitAllowed)
  BY <1>1, RefusesScriptStep DEF BeginScript, RefusesScript
<1>2. CASE ~(~alive \/ (HasCommit(query[t]) /\ ~CommitAllowed))
  <2>1. op' = op
    BY <1>2 DEF BeginScript, Continue, IInv, TypeOK
  <2>. QED  BY <1>2, <2>1, StartsScriptStep
            DEF BeginScript, StartsScript, Continue, CommitAllowed
<1>. QED  BY <1>1, <1>2

\* The steps of set_sql_query, of the guard and of early rejection.
LEMMA StatementStep ==
    ASSUME IInv, NEW t \in Threads, Statement(t)
    PROVE  IInv'
BY SetSqlQueryStep, SetTargetTableStep, CallStep, DropWriteGuardStep DEF Statement

\* The steps of an atomic operation.
LEMMA OperationStep ==
    ASSUME IInv, NEW t \in Threads, Operation(t)
    PROVE  IInv'
BY RejectEarlyStep, OpenScopeStep, RefuseScopeStep, OpenScopeFailsStep,
   PrepareTargetStep, WritePartStep, StreamStep, MoveStageStep, CommitScopeStep,
   CommitScopeLostStep, RollbackScopeStep, AbandonScopeStep, FinishCallerStep,
   ReleaseScopeStep, RecoverScopeStep, RecoverScopeFailsStep DEF Operation

\* The steps of a text.
LEMMA ScriptStep ==
    ASSUME IInv, NEW t \in Threads, Script(t)
    PROVE  IInv'
BY BeginScriptStep, ScriptReadStep, ScriptWriteStep, ScriptCommitStep,
   ScriptCommitFailsStep, ScriptRollbackStep, ScriptErrorStep, ScriptAbandonedStep,
   EndScriptStep DEF Script

\* The steps of Connection::commit, rollback and set_option.
LEMMA TransactionCallStep ==
    ASSUME IInv, NEW t \in Threads, TransactionCall(t)
    PROVE  IInv'
BY ConnectionCommitStep, CommitConflictStep, ConnectionRollbackStep,
   EnableAutoCommitStep, DisableAutoCommitStep DEF TransactionCall

LEMMA InitInv == Init => IInv
<1>. SUFFICES ASSUME Init PROVE IInv
  OBVIOUS
<1>. USE BoundsAssumption, ThreadsAssumption DEF Init, Ids, Parts, Writes, Free
<1>1. TypeOK
  <2>1. NoOp \in Operations
    BY DEF NoOp, NewOperation, Operations
  <2>2. SessionType /\ DriverType
    BY ZenonT(30) DEF SessionType, DriverType
  <2>3. HistoryType
    BY DEF HistoryType
  <2>. QED  BY <2>1, <2>2, <2>3 DEF TypeOK, Labels
<1>2. LockInv /\ SessionInv /\ WaitingInv /\ ScopeInv /\ ScriptInv
  BY ZenonT(30) DEF LockInv, SessionInv, WaitingInv, ScopeInv, ScriptInv, Holding, InScope
<1>3. IdentityInv /\ LeftoverInv /\ FailedOperationsLeaveNothing
  BY DEF IdentityInv, LeftoverInv, FailedOperationsLeaveNothing
<1>. QED  BY <1>1, <1>2, <1>3 DEF IInv

LEMMA NextInv == IInv /\ [Next]_vars => IInv'
<1>. SUFFICES ASSUME IInv, [Next]_vars PROVE IInv'
  OBVIOUS
<1>1. CASE Next
  BY <1>1, StatementStep, OperationStep, ScriptStep, TransactionCallStep,
     LoseSessionStep DEF Next
<1>2. CASE UNCHANGED vars
  <2>. USE <1>2 DEF vars, server, driver, stmt, history, IInv
  <2>1. TypeOK'
    BY DEF TypeOK, SessionType, DriverType, HistoryType
  <2>2. LockInv' /\ IdentityInv' /\ SessionInv'
    BY DEF LockInv, IdentityInv, SessionInv
  <2>3. WaitingInv' /\ ScriptInv'
    BY ZenonT(30) DEF WaitingInv, ScriptInv, OwnWrites
  <2>4. ScopeInv'
    BY DEF ScopeInv, OwnWrites, WritesOf
  <2>5. LeftoverInv' /\ FailedOperationsLeaveNothing'
    BY ZenonT(30) DEF LeftoverInv, Left, FailedOperationsLeaveNothing, WritesOf
  <2>. QED  BY <2>1, <2>2, <2>3, <2>4, <2>5
<1>. QED  BY <1>1, <1>2

\* The inductive invariant holds in every reachable state.
THEOREM Invariance == Spec => []IInv
BY InitInv, NextInv, PTL DEF Spec

\* Type correctness of the shared connection state and of the operations in
\* progress, for any number of threads, operations and parts.
THEOREM TypeCorrect == Spec => []TypeOK
<1>1. IInv => TypeOK
  BY DEF IInv
<1>. QED  BY <1>1, Invariance, PTL

\* Failure atomicity: whatever the threads interleave, a multi-row update or an
\* ingest that reported an error has nothing committed (begin_atomic,
\* finish_atomic, poison_ingest and guard_transaction_commit together).
THEOREM FailureAtomicity == Spec => []FailedOperationsLeaveNothing
<1>1. IInv => FailedOperationsLeaveNothing
  BY DEF IInv
<1>. QED  BY <1>1, Invariance, PTL

\* Leftovers of a failed operation never sit unmarked in a transaction that the
\* server would commit once the connection is unlocked.
THEOREM LeftoversMarked == Spec => []LeftoversArePoisoned
<1>1. IInv => LeftoversArePoisoned
  BY DEF IInv, LeftoverInv, Left, LeftoversArePoisoned
<1>. QED  BY <1>1, Invariance, PTL
=============================================================================
