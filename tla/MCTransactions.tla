--------------------------- MODULE MCTransactions ---------------------------
(***************************************************************************)
(* Transactions on small instances.  One run asks two questions of the     *)
(* same two threads: every ingest route, mode, atomicity and partial       *)
(* option while one of them executes statements, and the interleavings of  *)
(* parameter batches, COPY appends and scripts once both do.               *)
(***************************************************************************)
EXTENDS Transactions, TLC

\* A text that writes, one that reads and commits, one that writes again after
\* a rollback.
MCScripts == { <<"write">>, <<"read", "commit">>, <<"rollback", "write">> }

\* A cursor that reads, writes and ingests.
ReadWriteScripts == { <<"read">>, <<"write">> }

\* A COMMIT sent as SQL.
CommitScripts == { <<"write">>, <<"commit">> }

\* Every route and scope; options that a route does not read have one value.
MCPlans ==
    { p \in AllPlans :
        /\ p.append /\ p.route = "copy" => p.existing
        /\ p.allow => p.append /\ p.route = "copy"
        /\ p.atomicity = "savepoint" => p.route = "copy" }

PairPlans ==
    { p \in MCPlans :
        /\ p.route = "batch" \/ (p.route = "copy" /\ p.existing)
        /\ p.append /\ p.atomicity = "transaction" /\ ~p.allow }

\* A second thread that executes statements makes its first one before any
\* operation (later ones differ in order only: a statement is its thread's own),
\* and both then run operations of PairPlans.
AloneOrPair ==
    OneCaller' \/ /\ OneCaller => issued = 0
                  /\ \A t \in Threads : (op[t].plan \in PairPlans \cup {NoPlan})'

ThreadSymmetry == Permutations(Threads)
=============================================================================
