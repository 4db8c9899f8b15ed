---------------------------- MODULE PreparedPlans ----------------------------
(***************************************************************************)
(* The life of server-side prepared handles: PREPARE under the connection  *)
(* lock, the PreparedEntry that owns a handle, its leases (the cache, the  *)
(* statements and the rendered rows), the generation that DDL advances,    *)
(* deferred deallocation, and the one retry after a missing handle.        *)
(*                                                                         *)
(* The server is external.  It keeps a handle until it is deallocated,     *)
(* until schema changes of this session succeed, or until schema changes   *)
(* of another session discard it silently.                                 *)
(*                                                                         *)
(* The cache holds prepared outcomes only, as with prepare_threshold = 1;  *)
(* PreparedCache has the other outcomes.  An id stands for its entry.      *)
(***************************************************************************)
EXTENDS Naturals, Sequences, FiniteSets

CONSTANTS
    Threads,     \* callers, one statement each
    Shapes,      \* normalized query texts
    Capacity,    \* prepared_cache_capacity
    MaxIds,      \* bound: PREPARE statements
    MaxDdl,      \* bound: schema changes of this session
    MaxDiscards  \* bound: handles discarded by other sessions

ASSUME PlansAssumption ==
    /\ "free" \notin Threads /\ "none" \notin Shapes
    /\ Capacity \in Nat \ {0}
    /\ MaxIds \in Nat /\ MaxDdl \in Nat /\ MaxDiscards \in Nat

VARIABLES
    live,       \* server: handles that exist
    ids,        \* server: handles given out
    discards,   \* server: handles discarded by other sessions so far
    explicit,   \* the caller runs an explicit transaction
    lock,       \* DriverConnection.inner
    generation, \* DriverConnection.prepared_generation
    pending,    \* DriverConnection.pending_deallocations
    cache,      \* PreparedCache: [q, outcome] records, least recent first
    gen,        \* PreparedEntry.generation of each entry
    th,         \* each thread's statement and call
    ddls,       \* history: schema changes started
    released,   \* history: handles the driver deallocated
    disturbed   \* history: a handle was lost around the thread's call

server  == <<live, ids, discards, explicit>>
history == <<ddls, released, disturbed>>
vars == <<server, lock, generation, pending, cache, gen, th, history>>

Lru == INSTANCE LruCache
         WITH table <- cache, size <- Capacity, used <- "none", Outcomes <- 1..MaxIds, Capacities <- {Capacity}

Free == "free"
None == 0
Ids  == 1..MaxIds

\* slot is the statement's prepared_entry; first and second are the leases of
\* the rendered rows, cand is the handle between PREPARE and insertion.
Idle == [pc |-> "idle", q |-> "none", slot |-> None, first |-> None, second |-> None,
         cand |-> None, why |-> "none", batch |-> FALSE, own |-> FALSE,
         retried |-> FALSE, result |-> "none"]

Init ==
    /\ live = {} /\ ids = 0 /\ discards = 0 /\ explicit \in BOOLEAN
    /\ lock = Free /\ generation = 0 /\ pending = {} /\ cache = <<>>
    /\ gen = [i \in Ids |-> 0]
    /\ th = [t \in Threads |-> Idle]
    /\ ddls = 0 /\ released = {} /\ disturbed = [t \in Threads |-> FALSE]

-----------------------------------------------------------------------------
(* Leases.                                                                  *)

InCache(c) == { c[i].outcome : i \in DOMAIN c }

LeasesOf(r) == {r.slot, r.first, r.second} \cup (IF r.pc = "insert" THEN {r.cand} ELSE {})

\* The entries some Arc still refers to.
Leases(c, s) == (InCache(c) \cup UNION { LeasesOf(s[t]) : t \in Threads }) \ {None}

\* Mutant: leaving the cache releases the handle.
DropEntries_evicts(base, queue) ==
    LET gone == InCache(cache) \ InCache(cache')
        due  == { i \in gone : gen[i] = generation }
    IN IF lock = Free
         THEN live' = base \ due /\ released' = released \cup due /\ pending' = queue
         ELSE live' = base /\ pending' = queue \cup due /\ UNCHANGED released

\* Mutant: a busy connection loses the deallocation.
DropEntries_lost(base, queue) ==
    LET gone == Leases(cache, th) \ Leases(cache', th')
        due  == { i \in gone : gen[i] = generation }
    IN IF lock = Free
         THEN live' = base \ due /\ released' = released \cup due /\ pending' = queue
         ELSE live' = base /\ pending' = queue /\ UNCHANGED released

\* Drop for PreparedEntry, for the entries whose last lease this step ends: an
\* entry of an older generation is left alone, a busy connection defers.
DropEntries(base, queue) ==
    LET gone == Leases(cache, th) \ Leases(cache', th')
        due  == { i \in gone : gen[i] = generation }
    IN IF lock = Free
         THEN live' = base \ due /\ released' = released \cup due /\ pending' = queue
         ELSE live' = base /\ pending' = queue \cup due /\ UNCHANGED released

\* The step ends leases and does not touch the server otherwise.
OnlyDrops == DropEntries(live, pending)

\* lock_connection hands the deferred deallocations to the connection.
LockConnection ==
    /\ lock = Free
    /\ live' = live \ pending /\ released' = released \cup pending /\ pending' = {}

-----------------------------------------------------------------------------
(* Preparing a shape: prepare_cached.                                       *)

\* The entry e reaches the call that asked for it.
Obtain(t, e) ==
    th' = [th EXCEPT ![t] =
        IF @.why = "declare" THEN [Idle EXCEPT !.q = th[t].q, !.slot = e, !.pc = "ready"]
        ELSE [@ EXCEPT !.slot = e, !.first = e, !.cand = None, !.pc = "send"]]

\* Statement::prepare of a new query.
Declare(t, q) ==
    /\ th[t].pc = "idle"
    /\ th' = [th EXCEPT ![t] = [Idle EXCEPT !.pc = "get", !.why = "declare", !.q = q]]
    /\ UNCHANGED <<server, lock, generation, pending, cache, gen, history>>

\* set_sql_query or the end of the statement: clear_prepared.
ClearPrepared(t) ==
    /\ th[t].pc = "ready"
    /\ th' = [th EXCEPT ![t] = Idle]
    /\ UNCHANGED cache /\ OnlyDrops
    /\ UNCHANGED <<ids, discards, explicit, lock, generation, gen, ddls, disturbed>>

\* PreparedCache::get.
Get(t) ==
    LET q == th[t].q IN
    /\ th[t].pc = "get"
    /\ IF Lru!Holds(cache, q)
         THEN /\ cache' = Lru!Remember(cache, q, Lru!Verdict(cache, q), Capacity)
              /\ Obtain(t, Lru!Verdict(cache, q))
         ELSE th' = [th EXCEPT ![t].pc = "prepare"] /\ UNCHANGED cache
    /\ OnlyDrops
    /\ UNCHANGED <<ids, discards, explicit, lock, generation, gen, ddls, disturbed>>

\* prepare_query: one request under the connection lock.
Prepare(t) ==
    /\ th[t].pc = "prepare" /\ lock = Free /\ ids < MaxIds
    /\ ids' = ids + 1
    /\ live' = (live \ pending) \cup {ids + 1}
    /\ released' = released \cup pending /\ pending' = {}
    /\ th' = [th EXCEPT ![t].pc = "wrap", ![t].cand = ids + 1]
    /\ UNCHANGED <<discards, explicit, lock, generation, cache, gen, ddls, disturbed>>

\* The server refuses; the declaration or the call ends.
PrepareFails(t) ==
    /\ th[t].pc = "prepare" /\ LockConnection
    /\ th' = [th EXCEPT ![t] = IF @.why = "declare" THEN Idle
                               ELSE [@ EXCEPT !.pc = "done", !.result = "error"]]
    /\ UNCHANGED <<ids, discards, explicit, lock, generation, cache, gen, ddls, disturbed>>

\* PreparedEntry::new reads the generation after the connection is unlocked.
Wrap(t) ==
    /\ th[t].pc = "wrap"
    /\ gen' = [gen EXCEPT ![th[t].cand] = generation]
    /\ th' = [th EXCEPT ![t].pc = "insert"]
    /\ UNCHANGED <<server, lock, generation, pending, cache, history>>

\* PreparedCache::insert: the entry of the first caller wins.
Insert(t) ==
    LET r == th[t]
        e == IF Lru!Holds(cache, r.q) THEN Lru!Verdict(cache, r.q) ELSE r.cand
    IN
    /\ r.pc = "insert"
    /\ cache' = Lru!Remember(cache, r.q, e, Capacity)
    /\ Obtain(t, e)
    /\ OnlyDrops
    /\ UNCHANGED <<ids, discards, explicit, lock, generation, gen, ddls, disturbed>>

-----------------------------------------------------------------------------
(* Executing bound rows.                                                    *)

\* A dead handle is on its way into the cache.
StaleCandidate == \E t \in Threads : th[t].pc \in {"wrap", "insert"} /\ th[t].cand \notin live

\* execute_updates_atomic: the first row is rendered, and is_empty renders the
\* second one, if there is any, with the same entry.  A batch owns its scope
\* except in a caller transaction with prior writes.
Call(t) ==
    /\ th[t].pc = "ready"
    /\ \E batch \in BOOLEAN, own \in BOOLEAN :
        /\ ~explicit => own = batch
        /\ own => batch
        /\ th' = [th EXCEPT ![t] =
             [@ EXCEPT !.pc = "get", !.why = "refresh", !.batch = batch, !.own = own,
                       !.first = th[t].slot, !.second = IF batch THEN th[t].slot ELSE None,
                       !.retried = FALSE, !.result = "none"]]
    /\ disturbed' = [disturbed EXCEPT ![t] = StaleCandidate]
    /\ UNCHANGED <<server, lock, generation, pending, cache, gen, ddls, released>>

\* The retry of execute_single_bound_update and bound_query_reader_with_retry
\* needs autocommit, that of a batch a scope of its own.
CanRetry(r) == ~r.retried /\ (IF r.batch THEN r.own ELSE ~explicit)

\* EXECUTE of the first row.  A batch keeps the connection for its other rows.
Send(t) ==
    LET r == th[t] IN
    /\ r.pc = "send" /\ LockConnection
    /\ \/ /\ r.first \in live' /\ r.batch /\ lock' = t
          /\ th' = [th EXCEPT ![t].pc = "rows"]
       \/ /\ r.first \in live' /\ ~r.batch /\ UNCHANGED lock
          /\ th' = [th EXCEPT ![t].pc = "done", ![t].result = "ok"]
       \/ /\ r.first \notin live' /\ UNCHANGED lock
          /\ th' = [th EXCEPT ![t] = IF CanRetry(r) THEN [r EXCEPT !.pc = "evict"]
                                     ELSE [r EXCEPT !.pc = "done", !.result = "missing"]]
    /\ UNCHANGED <<ids, discards, explicit, generation, cache, gen, ddls, disturbed>>

\* Mutant: the stale entry stays in the cache.
Evicted_kept(r) == cache

\* remove_if_id drops that very entry.
Evicted(r) ==
    IF Lru!Holds(cache, r.q) /\ Lru!Verdict(cache, r.q) = r.first
      THEN Lru!Forget(cache, r.q) ELSE cache

\* retry_bound_query up to its prepare_cached.
Evict(t) ==
    /\ th[t].pc = "evict"
    /\ cache' = Evicted(th[t])
    /\ th' = [th EXCEPT ![t].pc = "get", ![t].why = "retry", ![t].retried = TRUE]
    /\ OnlyDrops
    /\ UNCHANGED <<ids, discards, explicit, lock, generation, gen, ddls, disturbed>>

\* execute_update_batch sends the remaining rows as they were rendered and
\* drops them before the connection is unlocked.
SendRows(t) ==
    LET r == th[t] IN
    /\ r.pc = "rows"
    /\ th' = [th EXCEPT ![t].pc = "done", ![t].second = None,
                        ![t].result = IF r.second \in live THEN "ok" ELSE "missing"]
    /\ lock' = Free
    /\ UNCHANGED cache /\ OnlyDrops
    /\ UNCHANGED <<ids, discards, explicit, generation, gen, ddls, disturbed>>

\* The call returns; its rendered rows are dropped, the statement's slot stays.
Return(t) ==
    /\ th[t].pc = "done"
    /\ th' = [th EXCEPT ![t] = [Idle EXCEPT !.q = th[t].q, !.slot = th[t].slot, !.pc = "ready"]]
    /\ disturbed' = [disturbed EXCEPT ![t] = FALSE]
    /\ UNCHANGED cache /\ OnlyDrops
    /\ UNCHANGED <<ids, discards, explicit, lock, generation, gen, ddls>>

-----------------------------------------------------------------------------
(* Schema changes.                                                          *)

\* The threads whose call is in progress.
Calls == [t \in Threads |-> th[t].why \in {"refresh", "retry"}]

\* execute_update of a statement that invalidates the cache.
BeginDdl(t) ==
    /\ th[t].pc = "idle" /\ ddls < MaxDdl
    /\ ddls' = ddls + 1
    /\ th' = [th EXCEPT ![t].pc = "bump", ![t].why = "before"]
    /\ UNCHANGED <<server, lock, generation, pending, cache, gen, released, disturbed>>

\* invalidate_prepared_cache: the generation first ...
Bump(t) ==
    /\ th[t].pc = "bump"
    /\ generation' = generation + 1
    /\ th' = [th EXCEPT ![t].pc = "clear"]
    /\ UNCHANGED <<server, lock, pending, cache, gen, history>>

\* ... and then the entries.
Clear(t) ==
    /\ th[t].pc = "clear"
    /\ cache' = <<>>
    /\ th' = [th EXCEPT ![t] = IF @.why = "before" THEN [@ EXCEPT !.pc = "ddl"] ELSE Idle]
    /\ OnlyDrops
    /\ UNCHANGED <<ids, discards, explicit, lock, generation, gen, ddls, disturbed>>

\* The statement runs: every handle of the session goes, and the cache is
\* invalidated a second time.
Ddl(t) ==
    /\ th[t].pc = "ddl" /\ lock = Free
    /\ live' = {} /\ pending' = {} /\ released' = released \cup pending
    /\ th' = [th EXCEPT ![t].pc = "bump", ![t].why = "after"]
    /\ disturbed' = Calls
    /\ UNCHANGED <<ids, discards, explicit, lock, generation, cache, gen, ddls>>

\* The server refuses it: nothing changes at the server.
DdlFails(t) ==
    /\ th[t].pc = "ddl" /\ LockConnection
    /\ th' = [th EXCEPT ![t] = Idle]
    /\ UNCHANGED <<ids, discards, explicit, lock, generation, cache, gen, ddls, disturbed>>

\* DDL of another session makes the server discard a handle.
ServerDiscards ==
    /\ discards < MaxDiscards /\ discards' = discards + 1
    /\ \E i \in live : live' = live \ {i}
    /\ disturbed' = Calls
    /\ UNCHANGED <<ids, explicit, lock, generation, pending, cache, gen, th, ddls, released>>

Next ==
    \/ \E t \in Threads :
        \/ \E q \in Shapes : Declare(t, q)
        \/ ClearPrepared(t) \/ Get(t) \/ Prepare(t) \/ PrepareFails(t) \/ Wrap(t)
        \/ Insert(t) \/ Call(t) \/ Send(t) \/ Evict(t) \/ SendRows(t) \/ Return(t)
        \/ BeginDdl(t) \/ Bump(t) \/ Clear(t) \/ Ddl(t) \/ DdlFails(t)
    \/ ServerDiscards

Spec == Init /\ [][Next]_vars

-----------------------------------------------------------------------------
(* Properties.                                                              *)

Statements ==
    [pc : {"idle", "get", "prepare", "wrap", "insert", "ready", "send", "rows", "evict",
           "done", "bump", "clear", "ddl"},
     q : Shapes \cup {"none"}, slot : 0..ids, first : 0..ids, second : 0..ids,
     cand : 0..ids, why : {"none", "declare", "refresh", "retry", "before", "after"},
     batch : BOOLEAN, own : BOOLEAN, retried : BOOLEAN,
     result : {"none", "ok", "missing", "error"}]

\* Type correctness; no handle is used that the server never gave out, and the
\* cache never exceeds its capacity.
TypeOK ==
    /\ live \subseteq 1..ids /\ pending \subseteq 1..ids /\ released \subseteq 1..ids
    /\ lock \in Threads \cup {Free}
    /\ th \in [Threads -> Statements]
    /\ Len(cache) <= Capacity /\ InCache(cache) \subseteq 1..ids

\* Shared leases prevent deallocation: no handle that the cache, a statement or
\* a rendered row still refers to was deallocated or waits for it, whatever
\* eviction, insertion races and deferred drops did in between.
LeasedHandlesStay == (released \cup pending) \cap Leases(cache, th) = {}

InFlight == { th[t].cand : t \in { u \in Threads : th[u].pc \in {"wrap", "insert"} } }

\* Every handle that lives at the server without an owner was given up by a
\* generation change; eviction, lost insertion races and busy connections
\* always lead to a deallocation, now or with the next lock_connection.
OrphansAreOld ==
    \A i \in live \ (Leases(cache, th) \cup pending \cup InFlight) : gen[i] # generation

\* In autocommit mode a one-row execution reports a missing handle only if a
\* handle was lost while it ran, or was on its way into the cache when it
\* began: the retry recovers from everything that went stale before the call.
RetryRecovers ==
    \A t \in Threads :
        th[t].pc = "done" /\ th[t].result = "missing" /\ ~th[t].batch /\ ~explicit
            => disturbed[t]

\* The same for a multi-row batch in a scope of its own: its first row is the
\* stale-plan probe after which the batch is retried.
BatchRetryRecovers ==
    \A t \in Threads :
        th[t].pc = "done" /\ th[t].result = "missing" /\ th[t].own => disturbed[t]

\* The cache bounds the session: with no call or schema change in progress the
\* server holds no more handles than the cache's capacity, the statements'
\* leases and the deferred deallocations account for.
CacheBoundsSession ==
    (\A t \in Threads : th[t].pc \in {"idle", "ready"}) =>
        live \subseteq Leases(cache, th) \cup pending
=============================================================================
