# A TLA+ verification of adbc-driver-monetdb

The driver is a Rust library (`src/crates/adbc-monetdb`) that implements the ADBC
interface for MonetDB. Its own logic is small compared with what it coordinates: one
MAPI session shared by many statements and threads, transactions that must stay atomic
across several server round trips, a cache of server-side handles, threads that move
result and ingest windows, and two codecs (`src/crates/monetdb-arrow` and the SQL literals
of `driver/parameters.rs`) that must not change a value. This project models that in
TLA+, checks it with TLC on small instances, and proves with TLAPS, for every instance,
the safety of the transactions, the prepared handles, the result readers, the ingest
pipeline, the rows and budgets of its windows, and the fixed-width cells.

All line numbers refer to `src/crates/adbc-monetdb/src/driver.rs` unless another file
is named. `PROJECT.json` maps every definition to the lines it models.

## The system

| Part | Where | Model |
|---|---|---|
| Transactions and atomic scopes: write tracking, rollback-only mark, savepoints, autocommit, scripts, commit and rollback | 698-900, 2800-3000, 3323-3992, 7700-8330 | `Transactions`; proofs in `TransactionsScopeProofs`, `TransactionsProofs`, `TransactionsTrackingProofs` |
| Prepared-statement cache: counter-based LRU, prepare decisions | 1605-1859, 6900-7100 | `PreparedCache` implements `LruCache`; proofs in `PreparedCacheProofs` |
| Prepared handles: leases, generations, deferred deallocation, retry | 1500-1604, 6750-7100, 8225-8330 | `PreparedPlans` (with `LruCache`); proofs in `PreparedPlansProofs` |
| Result readers: prefetch thread, direct reader, window sizes | 7455-7593, 8509-9192 | `ResultReader` (with `ReadWindows`) implements `ResultStream`; proofs in `ReadProofs` |
| Ingest pipeline: memory admission, window thread, timeouts | 3696-3927, 4177-4373 | `IngestPipeline`; proofs in `IngestPipelineProofs` |
| Ingest windows: batch queue, compressed and retained windows, upload and encoder thread | 4387-5634 | `IngestQueue`, `EncodedWindow`, `IngestWindows`; proofs in `IngestWindowsProofs` |
| Arrow codec: type mapping, cells, columns, frames | `monetdb-arrow/src/{encode,decode,exportbin,wire}.rs` | `WireCells`, `WireColumns`, `ResultDecode`; proofs of the cells in `ReadProofs` |
| SQL literals of parameters and small ingests | `driver/parameters.rs` | `SqlLiterals`; of the lexer only the verdict of `statement_may_modify`, in `Transactions` |
| The routes a value takes to a table and back | both codecs | `ValueRoutes` |
| Prepared-execution verification, typed parameter templates, connection options, catalog metadata, Python package | see the last section | not modelled |

The parts meet in `DriverConnection`. Its mutex `inner` serialises the session; a
statement takes it for one operation or one fetch. Three things live beside the mutex
and are touched without it: the write-tracking flag, the prepared generation with its
queue of deferred deallocations, and the ingest memory counter (which is global to the
process). Most hazards in `PROJECT.json` come from values that are read on one side of
the mutex and used on the other.

## Modules

### Transactions

State: the session (`autocommit`, the writes `txn` of the open transaction, the driver's
savepoint with the writes it preserves, `aborted`, `durable`, `alive`), the connection
(`lock`, `modified`, `poison`), each thread's statement (`query`, `target`) and operation
(`pc`, `op`), and history variables. A write is a pair of operation and part; a part is
one batch script, one COPY window or one DDL statement (the DROP and CREATE of a replace
are one part, and CREATE IF NOT EXISTS counts as a write).

| Action | Code |
|---|---|
| `CallIngest`, `CallBatch`, `CallScript` | `execute_update`, `execute` up to `TransactionWriteGuard::new` |
| `OpenScope`, `RefuseScope`, `OpenScopeFails` | `lock_connection`, `begin_atomic`, the prior-writes check of `ingest` |
| `PrepareTarget`, `WritePart`, `StreamFails`, `StreamEnds`, `MoveStage` | target DDL, row scripts and COPY windows, the staged move |
| `CommitScope`, `CommitScopeLost`, `RollbackScope`, `FinishCaller`, `ReleaseScope`, `RecoverScope`, `RecoverScopeFails`, `AbandonScope` | `finish_atomic` for each scope, the batch retry, `poison_transaction` and `poison_ingest` |
| `BeginScript` ... `EndScript` | `execute_update_script`, the query path, their transaction effects |
| `ConnectionCommit`, `ConnectionRollback`, `EnableAutoCommit`, ... | the `Connection` calls |
| `DropWriteGuard` | `Drop for TransactionWriteGuard` |
| `LoseSession` | external: timeout, cancellation, closed socket, at any step |

The server is external. A failed statement aborts an explicit transaction, ROLLBACK TO
SAVEPOINT revives it, COMMIT of an aborted transaction rolls back, ROLLBACK fails only by
losing the session. An ingest or a parameter batch that succeeds reports `ok`, an SQL text
`done`: its own COMMIT and ROLLBACK decide about its parts. Not modelled: savepoints named
by the user, ROLLBACK TO in scripts, START TRANSACTION while in autocommit mode.

### PreparedCache and LruCache

`LruCache` is what the cache promises: a list ordered by recency, bounded by its size,
from which the oldest go first. `PreparedCache` is the code: a map whose entries carry a
use counter, the trim loop that removes the smallest counter, and the decision each
lookup takes (reuse, render literals, defer, PREPARE), with the cache unlocked between a
decision to PREPARE and the insertion of its result. The refinement mapping orders the
map by its counters.

### PreparedPlans

The handles behind the cache. An entry is alive while the cache, a statement or a
rendered row refers to it; the last reference deallocates the handle, unless the
connection is busy (then the deallocation is queued for the next lock) or the generation
has moved on. A schema change advances the generation, empties the cache, then runs. A
missing handle evicts the entry and the call is retried once when that cannot roll back
user work. The cache holds prepared outcomes only, as with `prepare_threshold = 1`.
The server is external: its own successful schema change discards every handle of the
session (`docs/design-decisions.md`), a refused one none, and another session's discards
any handle at any time. Whether the caller is in an explicit transaction is fixed for a
behaviour. Readers that keep a statement's handle after the call are not modelled.

### ReadWindows, ResultStream, ResultReader

`ReadWindows` has the arithmetic of `ReadWindowScheduler` as operators over a record of
its fields. `ResultStream` is what a caller is promised: the rows of the result, in
order, each once, then the end or one error, and nothing after it. `ResultReader` is the
three implementations chosen by `query_result_with_timeouts`: the prefetch thread with
its frame channel of capacity one, the recycled buffers, the completion channel and the
drop grace; the direct reader that fetches on the caller's thread; and a first response
that holds everything and is only sliced. They share the wire with other statements of
the connection. A reply may be short, malformed or an error, the fetch and the decoder
may panic, the caller may drop the reader at any time. Abstracted: the decoder's checks
(a frame is intact or not), the read statistics; the completion message and the drop of
the sender are one step.

### IngestPipeline

Several ingests of one process. Each reads the memory in use and the reservation counter,
admits itself with a compare-and-swap loop, spawns the window thread, receives windows
over a channel without buffer and uploads them. The Arrow source may yield any prefix of
its rows, fail, panic or hang; the spawn, an upload and the whole operation may fail or
time out. The memory in use is the base or the base and all that is reserved. An upload
is one step; the scheduler chooses any number of the remaining rows. Both are taken apart
in `IngestWindows`.

### IngestQueue, EncodedWindow, IngestWindows

`IngestQueue` has the queue of `IngestWindowScheduler` as operators over a record of its
fields: what a push, a pop, a compaction and a split make of the pending batches and of
the counters of rows and bytes. `EncodedWindow` has one window: the pieces a column is
encoded in (`encode_column_chunks` of `monetdb-arrow/src/encode.rs`: each array in slices
of whole rows, as many as its average row size fits into a chunk), the column's chunks, the
choice between raw, LZ4 and byte-shuffled LZ4, the shared arena with its slabs, and the
change to retained Arrow batches once a window proves incompressible. A byte is named by
its row, column and place, so a byte moved or lost anywhere is seen; LZ4 is external and
abstract (tokens that only decompress together).

`IngestWindows` composes them. Every loop of the scheduler is a loop of actions, so that
its invariant can be stated and proved: `fill_staging` reads a batch at a time
(`ReadBatch`) and compacts until nothing can be compacted (`CompactPending`),
`take_staging` takes a batch at a time (`TakeBatch`) or halves the range of
`rows_within_budget` (`SearchHalves`) and takes a prefix (`TakePrefix`), and `append`
pushes a piece of a column at a time (`EncodePiece`, `FinishColumn`). `phase` says in which
loop the scheduler is, `stage` holds its local variables; no other thread reads or writes
them, so the finer steps add no behaviour. Then comes the upload, where the server asks for one column
after the other, the call asks the encoder thread for the retained part over a channel
without buffer and receives its chunks over a channel of one message. The source, the
encoder, the thread and the server may each fail at any point.

### WireCells, WireColumns, ResultDecode

Pure operators. `WireCells` is one value: the type mapping between Arrow and MonetDB and
the slot of every fixed-width type, with the calendar and the units of time. `WireColumns`
is a column: strings with their back-references and blobs as bytes, addresses as words of
four bytes, everything else as slots, the estimate of its size, and the pieces of an
upload. `ResultDecode` is the answer to a window request: the frame parser, its validation
(a column whose length is no multiple of its slot is refused), the choice between adopting
and copying the response buffer, and the text rows of inline results. An `inet` column has
no declared width: `DecodeInet` takes one word or four to a row from the length of the
column and the row count of the frame, as `decode.rs` does.

### SqlLiterals, ValueRoutes

`SqlLiterals` renders a cell as an SQL literal, a record of what its text says, with the
server's conversion beside it (external). The text of a date has a sign when its year is
after 9999, as chrono writes it, and the server refuses that. `ValueRoutes` composes the codecs: a column is
built cell by cell, written by COPY BINARY or by INSERT, and a window of the table is read
back from an Xexportbin frame or from inline text, after another client may have stored
rows of its own or the answer was late, cut or inconsistent. Two of its properties name an
exception the code has. `InsertStoresTheColumn`: a column with a date or timestamp after the
year 9999 is refused by INSERT, and stored by COPY BINARY. `OtherAnswersAreRefused`: an
answer of addresses whose length and row count agree at the other width is not told from a
real one.

## Model checking

Deadlock is checked in `value_routes` and `ingest_windows`, whose behaviours have a
stated end. The other runs set `CHECK_DEADLOCK FALSE` because callers may stop calling and
the bounds below end a behaviour; that nobody waits for ever is stated as liveness instead.

| Run | Instance | What it shows |
|---|---|---|
| `transactions` | 2 threads, 2 operations, 2 parts; every route and option while one thread executes statements, batches, COPY appends and scripts once both do | Failed operations leave nothing, acknowledged ones are not undone piecemeal, leftovers are marked and only in transactions, autocommit is restored, writes are tracked, no savepoint is opened over a tracked write while one thread executes statements; under every interleaving and a session lost at any step |
| `transactions_dirty_savepoint` | 1 thread | **Violated**: a reused statement ingests untracked, and a savepoint is opened over its rows |
| `transactions_commit_tracking` | 1 thread | **Violated**: COMMIT through ExecuteUpdate leaves the tracking raised |
| `prepared_cache` | 2 statements, 3 shapes, capacity 1 and 2 | The counters implement the recency list; a late result never replaces another caller's handle |
| `prepared_leases` | 2 statements, 2 shapes, 3 handles, own DDL, 2 discards | No leased handle is deallocated, no current one is orphaned, one-row calls recover |
| `prepared_batch_retry` | as above | **Violated**: a batch of two rows does not recover, its second row is rendered before the refresh |
| `prepared_session_bound` | as above | **Violated**: refused DDL leaves handles nobody owns |
| `result_reader` | up to 5 rows, 4 schedulers, 1 other statement | Every reader implements the stream; calls return, the thread stops, the wire is freed; buffers, waste and window sizes are bounded |
| `ingest_pipeline` | 2 ingests, up to 2 rows, limit or none | Reservations add up, fit, cover what is alive and come back; calls return; success means every row |
| `ingest_windows` | 20 sources of up to 6 rows in 2 columns, 3 compressions, 2 row targets | The windows are the source's rows in order and fill their budget; the server receives every column byte for byte; every upload ends |
| `ingest_exact_rows` | the same sources, a row target of 3 | **Violated**: a window is closed short of `write_batch_rows` before a row wider than a staging target |
| `value_routes` | 50 columns, one for each Arrow type and unit, with cells at every boundary | Both write routes store what has a MonetDB value and refuse the rest, INSERT also the dates after the year 9999; both read routes return what is stored; other answers are refused, except addresses of the other width; a buffer the driver allocates holds the frame |

The bounds. Two threads are enough for every pair of a holder and an observer of the
lock; two operations are enough for one to leave something and another to commit it; two
parts make a first, a last and a partly executed operation. The action constraint of
`transactions` (`AloneOrPair`) keeps two families of behaviours: one thread executes
statements with every option while the other uses the connection, or both make a statement
before the first operation and then run the operations of `PairPlans`. A statement is its
thread's own, so making it earlier changes no other step; what the run leaves out is the
remaining options while two threads ingest. Three shapes over capacities
of one and two make both an eviction and a survivor. Three handles allow a prepare, its
eviction and its retry beside another statement's. Five rows with granules of four make
an aligned window, a partial granule and a short reply. Two ingests contend for the
counter with budgets of which two small ones, or a small and a large one, exactly fit and
two large ones do not; a third saturates the arithmetic. The sources of `ingest_windows`
have rows wider than a staging target and than a window, empty batches and an error, and
chunks of 4 bytes make every column span several. Symmetry is used only in runs without
liveness.

TLC's integers have 32 bits. In `value_routes` the magnitudes of the wide integers
(`Half`), the powers of ten (`Pow10`), the limits of the string format and the units of a
day (`Thousand`, `Sixty`, `Hours`) are constants scaled down so that every comparison in
the code still has values on both sides; the calendar is the real one. The assumptions on
these constants hold for the real values too, and the proofs of the cells need nothing else.

Fairness. `ResultReader` assumes weak fairness of the prefetch thread, of a call in
progress and of other statements, `IngestPipeline` of each thread and each call in
progress: operating-system threads that can run do run, and a round trip ends because the
server answers or the socket fails or times out. Nothing is assumed of the caller between
calls, nor of a source that hangs; `CallReturns` claims a return only if the source
yields or an operation timeout is set. The number of other statements is bounded, so
weak fairness of the wire is enough. `IngestWindows` assumes weak fairness of the upload
and of the encoder thread only; nothing makes the source continue.

Each property has a mutant in `PROJECT.json`: a plausible defect of one definition (an
operator beside it with a suffix in its name) under which TLC finds the property violated.

### Disagreements between code and documents

The five violated runs are described under `findings` in `PROJECT.json` with the quoted
lines. Four share a shape: a decision is taken from state that belongs to an earlier or a
later moment (the statement's old text, the effects of only one of two paths, a row
rendered before a refresh, an invalidation before its cause). The fifth is about an option:
`docs/monetdb.md:119` says that `write_batch_rows` "forces an exact row count". In the code
it is an upper bound: a window is closed short where the next row does not fit a staging
target (5397-5422, 5478-5481). `RowTargetIsExact` states the document,
`WindowsFillTheirBudget` what the code guarantees.

## Proofs

Every theorem is about `Spec` with its constants left open: any number of threads, calls,
handles, rows and operations, within the named assumptions of the module it is about. A
run checks the same property on a small instance, and checked the inductive invariants
there before they were proved. Each proof has one lemma per action (or one step per action
in a lemma about all of `Next`) and ends in the theorem that composes them. `FairSpec`
implies `Spec`, so the theorems hold of the specifications with fairness too.

### Transactions

Assumptions: the free lock is not a thread, scripts are non-empty and within the bound,
plans are combinations the options allow.

- `FailureAtomicity` (`FailedOperationsLeaveNothing`) and `LeftoversMarked`
  (`LeftoversArePoisoned`), in `TransactionsProofs`, with the types (`TypeCorrect`) they
  rest on.
- `ModeAlwaysRestored` (`AutocommitRestored`), `MarkNeedsTransaction`
  (`PoisonNeedsTransaction`), `AcknowledgedAlwaysKept` (`AcknowledgedWritesKept`),
  `WritesAlwaysTracked` (`WritesAreTracked`) and `PriorWritesBlockSavepoints`
  (`TrackedWritesBlockSavepoints`), in `TransactionsTrackingProofs`.

Failure atomicity is not inductive: that nothing of a failed operation is durable now
says nothing about what the open transaction will make durable. The invariant `IInv` adds
why it cannot: `LockInv` (who is inside an operation holds the lock), `IdentityInv`
(every write belongs to a started operation, operations in progress are distinct),
`SessionInv` (closed and autocommit sessions have no open transaction), `WaitingInv` and
`ScopeInv` (an unfinished operation has nothing durable, its savepoint precedes its
writes, an autocommit scope holds its writes alone), `ScriptInv` (a script with COMMIT
runs unmarked; one that executed ROLLBACK has only its own writes pending) and
`LeftoverInv` (what a failed operation left in the transaction is covered by the mark or
by the aborted state, what it left before a savepoint by the mark).
`TransactionsScopeProofs` defines `IInv` and has the lemmas of guarded operations and
their scopes; `TransactionsProofs` has those of SQL texts, of the `Connection` calls and of
a lost session, and composes all of them along the disjuncts of `Next`.

The tracking invariant `TInv` stands on `IInv`. `ModeInv` says which mode each scope has
to restore. `KeptInv` says that the writes of an acknowledged operation are together: in
the transaction, in what ROLLBACK TO SAVEPOINT would leave of it, and in what is durable;
a savepoint is taken between operations, never inside one. `TrackInv` says that a tracked
write in the transaction is covered by the flag or by a guard that has yet to drop.
`CallerInv` says that a thread that saw no prior writes has none before it as long as no
other thread made a statement, however many threads commit, roll back or change the mode
between its guard and the lock. Once two threads execute statements that is false of the
code's order of steps: the flag is read before the lock is taken, and the other may write
in between. The condition `OneCaller` is therefore part of `TrackedWritesBlockSavepoints`;
the theorem makes no assumption on `Threads`.

### Prepared-statement cache

`PreparedCacheProofs`, for any number of statements and shapes, any capacities and any
threshold: `DeferralsEnd` (`DeferredBelowThreshold`: no shape is deferred once its
executions reach the threshold), `HandlesStay` (the action property `FirstHandleStays`) and
`CacheIsLru`, the refinement of `LruCache`; `CacheTypes` has the types. A list and a map agree
(`Lists`) when the list names every entry once and in the order of `last_used`. The place
of a shape is then the number of shapes used no later (`ListRank`, by counting), so the map
has only one such list, the one the refinement mapping builds (`ListIsRecency`). Removal,
insertion with a later use, and the trim loop turn it into the list `LruCache` prescribes
(`ForgetList`, `AppendList`, `NewestList`). The invariant therefore keeps that no use is
later than `use_counter`, which makes each new use the latest, that the list fits the
capacity, and that every handle a statement holds was given out.

### Prepared handles

`PreparedPlansProofs`, for any number of callers, shapes, handles, schema changes and
discards and any capacity: `PlansTypeCorrect` (`TypeOK`), `LeasedNeverDeallocated`
(`LeasedHandlesStay`), `OrphansAlwaysOld` (`OrphansAreOld`), `RetryAlwaysRecovers`
(`RetryRecovers`). The invariant adds what each statement may hold at each step
(`Consistent`), that a handle on its way into the cache belongs to one caller and has no
lease yet (`CarriedInv`), and which cached handles may be dead while a call is undisturbed
(`Recovers`: after the first lookup only the one it sends, after the eviction none). The
lemmas about the recency list (what a lookup, an insertion and an eviction return) come
first; then five relations between two states (`Settles`, `Passes`, `GenerationsKept`,
`PairsKept`, `Orderly`) are shown of every step once, and each invariant follows from them.

### Result readers

The first part of `ReadProofs`, for results, budgets and alignments of any size: `ReaderTypes`
(`TypeOK`), `ThreadAlwaysExplains`, `BuffersStayBounded`, `WindowsAlwaysFollowBudget` (an
action property) and `ReadersImplementStream`, the refinement of `ResultStream` by every
kind of reader. The invariant follows the rows: the frame under decoding, the frame in the
channel and the thread's position adjoin each other while the caller listens (`FlowInv`),
and a thread that ended has left the reason on the way. `ReadWindows` assumes that the
alignments are the powers of two up to the granule, in the form that each number has one
within a factor of two below it.

### Ingest pipeline

`IngestPipelineProofs`, for any finite number of ingests, any budgets and any limit whose
nine tenths can be computed without overflow: `CounterAlwaysAccounts`
(`ReservationsAccounted`), `LimitNeverOvercommitted` (`NeverOvercommitted`),
`WindowsAlwaysCovered` (`WindowsCovered`), `SuccessCopiesWholeSource`
(`CopiesWholeSource`). What all ingests hold is a sum by recursion over sets; its three
facts (it is a natural number, it is zero when nothing is held, it moves by the difference
when one ingest's part changes) are proved from a smallest set that would contradict them,
as is the existence of the recursive function itself. `AccountInv` then says that the
counter is that sum, that it fits beside the base once it is positive, and that a call
that is still being admitted holds nothing: the exchange succeeds on the very counter the
check was made with, so age of the usage does not matter, and the subtraction on release
never wraps. `CoverInv` places the thread relative to its call, `RowsInv` says that each
row is in the source, in the window on offer, in the upload or copied.

### Ingest windows

`IngestWindowsProofs`, for every source, every cut of it into batches, all budgets, row
targets, fanouts and chunk sizes: `IngestsTheSource` (`WindowsAreTheSource`) and
`FillsTheBudget` (`WindowsFillTheirBudget`). The invariant `IInv` has three parts.
`TypeInv` says of a window only that it has rows and their estimate, because neither
property depends on how the columns are encoded. `RowsInv` places each row: confirmed, in
the window, staged, pending or unread, in this order. `BudgetInv` is what makes the second
property inductive: while rows are taken, what was taken and what may still be taken are
the round's target, or one row that fits no target was taken first (`Taking`); the binary
search knows that `low` rows fit and that one more than `high` does not (`Searching`); and
a window that is closed has the reason (`Closed`). With a row target the property says only
that no window has more rows. Sums and flattened sequences are
recursive functions. That they exist and distribute over concatenation is proved from a
smallest counterexample (`LeastNumber`, `UpTo`), which takes the place of induction. On
this rest the two theorems about the queue: `Splits` and `Compacts`.

The rest of the module is about the operators that keep a window's bytes: `PiecesJoin`
(the slices `encode_column_chunks` cuts of every array are encoded to pieces that together
are the column of all arrays, in order and none empty; whatever the average row size is,
each slice has a row and the last one ends with the array), `Unshuffles` (the byte shuffle is undone for every
width and length), `Stores` (the arena finds what it stored, earlier data included) and,
from these, `PushGrows`: a round of `EncodedColumn::push` adds to what the column restores
exactly the bytes it took, whatever becomes of the full buffer, and leaves the other
columns alone.

### Cells

The second part of `ReadProofs` is about the operators, for every value of a type: `days_from_civil` is
the calendar's day number (`CivilDaysAgree`), and integers, OIDs, decimals of every
precision, dates, times, timestamps of every unit and durations are read back as what was
written, or refused exactly where MonetDB has no such value. `value_routes` tries the
boundaries of these on a scaled instance and composes them with the columns.

### Only model-checked

- Liveness: `NextReturns`, `ThreadStops`, `AbandonedWireFrees`, `CallReturns`,
  `MemoryReturns`, `UploadEnds`. The prover has no rules for fairness.
- `ValueRoutes`: the columns, the back-references, the frame and the digits of literals
  are folds and recursive functions over sequences. What they compute for every input
  needs induction over data. The cells they are made of are proved.
- `IngestWindows`: `UploadsTheWindow`. What a push does to a column is proved
  (`PushGrows`); that the sequence of pushes, the retained batches and the two channels
  deliver the whole column is checked by `ingest_windows` only.

## What is not modelled

- `execute_unverified_prepared_result` (6672-6760): the savepoint around an unverified prepared execution and
  the demotion to typed literals.
- `typed_template_literal` and `value_dependent_literal_type` (`driver/parameters.rs`
  892-934), and `sql_type_for_field`: the types written into a query's template.
- The lexer of `driver/parameters.rs`, beyond its verdict on whether a text may modify.
- `ParameterQueryReader` (9101): one query per parameter row, behind one stream.
- Connection options, catalog metadata and the Python package: validation and conversion
  without state of their own.
