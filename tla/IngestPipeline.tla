--------------------------- MODULE IngestPipeline ---------------------------
(***************************************************************************)
(* Concurrent COPY ingests of one process.  Each ingest call admits itself *)
(* against the memory limit with a compare-and-swap on one counter, starts *)
(* a thread that builds windows from the caller's Arrow source, and        *)
(* uploads the windows it takes from the thread over a channel without     *)
(* buffer.  The thread owns the memory reservation and outlives a call     *)
(* that fails.                                                             *)
(***************************************************************************)
EXTENDS Integers, FiniteSets, FiniteSetsExt

CONSTANTS
    Ingests,    \* calls to Statement::ingest, one statement each
    Budgets,    \* physical window budgets
    Overhead,   \* ENCODE_STAGING_BYTES
    Headroom,   \* INGEST_RESERVATION_SOURCE_BYTES
    Limits,     \* cgroup memory limits; NoLimit if there is none
    Base,       \* memory the process uses apart from ingests
    MaxUsize,
    MaxRows     \* bound: rows of a source

NoLimit == 0

ASSUME IngestAssumption ==
    /\ IsFiniteSet(Ingests)
    /\ Budgets \subseteq Nat /\ {Overhead, Headroom, Base} \subseteq Nat
    /\ MaxUsize \in Nat /\ MaxRows \in Nat
    /\ Limits \subseteq { n \in Nat : n * 9 <= MaxUsize }

VARIABLES
    limit,     \* the limit of this process
    reserved,  \* RESERVED_INGEST_MEMORY_BYTES
    call,      \* where each ingest call is
    budget,    \* its physical window budget, 0 before it asks for memory
    seen,      \* the usage and the counter it has read
    result,    \* how it ended
    held,      \* the reservation its thread owns
    thread,    \* where its thread is
    source,    \* what is left of the Arrow source
    window,    \* the window its thread offers
    upload,    \* the window the call uploads
    receiver,  \* the receiving end is alive
    copied     \* rows the server has confirmed

memory  == <<reserved, held, limit>>
calls   == <<call, budget, result, upload, copied>>
threads == <<thread, source, window, receiver>>
vars    == <<memory, calls, threads, seen>>

\* A source has rows left and may fail instead of yielding them.  A stuck one
\* never reports its end.  timed: the statement has an operation timeout.
Sources == [rows : 0..MaxRows, total : 0..MaxRows, stuck : BOOLEAN, timed : BOOLEAN]
Nothing == [kind |-> "none", rows |-> 0]

Saturate(n) == IF n > MaxUsize THEN MaxUsize ELSE n

ingest_memory_reservation_bytes(b) ==
    Saturate(Saturate(Saturate(b + Overhead) * 2) + Headroom)

Allowed == (limit * 9) \div 10

\* checked_add: an overflow does not fit.
ingest_memory_reservation_fits(current, taken, bytes) ==
    /\ current + taken <= MaxUsize /\ current + taken + bytes <= MaxUsize
    /\ current + taken + bytes <= Allowed

\* What a call has read of the memory in use, and of the counter.
Unread == [current |-> 0, reserved |-> 0]

Held == MapThenSumSet(LAMBDA i : held[i], Ingests)

Init ==
    /\ limit \in Limits
    /\ reserved = 0 /\ held = [i \in Ingests |-> 0]
    /\ call = [i \in Ingests |-> "admit"]
    /\ budget = [i \in Ingests |-> 0]
    /\ seen = [i \in Ingests |-> Unread]
    /\ result = [i \in Ingests |-> "none"]
    /\ thread = [i \in Ingests |-> "none"]
    /\ source \in [Ingests -> { s \in Sources : s.rows = s.total }]
    /\ window = [i \in Ingests |-> Nothing] /\ upload = [i \in Ingests |-> Nothing]
    /\ receiver = [i \in Ingests |-> FALSE] /\ copied = [i \in Ingests |-> 0]

-----------------------------------------------------------------------------
(* Admission: reserve_ingest_memory and the start of the thread.            *)

Bytes(i) == ingest_memory_reservation_bytes(budget[i])

Ends(i, how) ==
    /\ call' = [call EXCEPT ![i] = "done"]
    /\ result' = [result EXCEPT ![i] = how]

Unlimited(i) ==
    /\ call[i] = "admit" /\ limit = NoLimit
    /\ call' = [call EXCEPT ![i] = "spawn"]
    /\ UNCHANGED <<memory, budget, result, upload, copied, threads, seen>>

\* Memory in use is what the process needs anyway and some of what the
\* ingests have reserved.
ReadsUsage(i) ==
    /\ call[i] = "admit" /\ limit # NoLimit
    /\ \E resident \in {0, Held} :
         seen' = [seen EXCEPT ![i] = [current |-> Base + resident, reserved |-> reserved]]
    /\ \E b \in Budgets : budget' = [budget EXCEPT ![i] = b]
    /\ call' = [call EXCEPT ![i] = "swap"]
    /\ UNCHANGED <<memory, result, upload, copied, threads>>

Fits(i) == ingest_memory_reservation_fits(seen[i].current, seen[i].reserved, Bytes(i))

Rejected(i) ==
    /\ call[i] = "swap" /\ ~Fits(i)
    /\ Ends(i, "rejected")
    /\ seen' = [seen EXCEPT ![i] = Unread]
    /\ UNCHANGED <<memory, budget, upload, copied, threads>>

Swapped_blindly(i) == TRUE
Swapped(i)         == reserved = seen[i].reserved

SwapSucceeds(i) ==
    /\ call[i] = "swap" /\ Fits(i) /\ Swapped(i)
    /\ reserved' = seen[i].reserved + Bytes(i)
    /\ held' = [held EXCEPT ![i] = Bytes(i)]
    /\ call' = [call EXCEPT ![i] = "spawn"]
    /\ seen' = [seen EXCEPT ![i] = Unread]
    /\ UNCHANGED <<limit, budget, result, upload, copied, threads>>

\* The exchange fails, possibly spuriously, and the counter is read again.
SwapFails(i) ==
    /\ call[i] = "swap" /\ Fits(i)
    /\ seen' = [seen EXCEPT ![i].reserved = reserved]
    /\ UNCHANGED <<memory, calls, threads>>

Releases_uncounted(i) == held' = [held EXCEPT ![i] = 0] /\ UNCHANGED <<reserved, limit>>

\* IngestMemoryReservation::drop.
Releases(i) ==
    /\ reserved' = (reserved - held[i]) % (MaxUsize + 1)
    /\ held' = [held EXCEPT ![i] = 0] /\ UNCHANGED limit

Spawns_unheld(i) ==
    /\ call[i] = "spawn"
    /\ thread' = [thread EXCEPT ![i] = "build"]
    /\ receiver' = [receiver EXCEPT ![i] = TRUE]
    /\ call' = [call EXCEPT ![i] = "receive"] /\ Releases(i)
    /\ UNCHANGED <<budget, result, upload, copied, source, window, seen>>

\* The thread takes the reservation over.
Spawns(i) ==
    /\ call[i] = "spawn"
    /\ thread' = [thread EXCEPT ![i] = "build"]
    /\ receiver' = [receiver EXCEPT ![i] = TRUE]
    /\ call' = [call EXCEPT ![i] = "receive"]
    /\ UNCHANGED <<memory, budget, result, upload, copied, source, window, seen>>

\* The thread cannot be started: its closure and the reservation in it go.
SpawnFails(i) ==
    /\ call[i] = "spawn"
    /\ Releases(i) /\ Ends(i, "failed")
    /\ UNCHANGED <<budget, upload, copied, threads, seen>>

-----------------------------------------------------------------------------
(* The thread.                                                              *)

ExitsAs(i, how) ==
    /\ thread' = [thread EXCEPT ![i] = how]
    /\ Releases(i)

Consumes(i, n)         == source' = [source EXCEPT ![i].rows = @ - n]

\* The source returns from its next call.
Yields(i) == source[i].rows > 0 \/ ~source[i].stuck

\* next_window: rows, the end, or an error of the source or of the encoder.
Builds(i) ==
    /\ thread[i] = "build" /\ Yields(i)
    /\ \/ \E n \in 1..source[i].rows :
            /\ window' = [window EXCEPT ![i] = [kind |-> "rows", rows |-> n]]
            /\ Consumes(i, n)
       \/ /\ source[i].rows = 0
          /\ window' = [window EXCEPT ![i] = [kind |-> "end", rows |-> 0]]
          /\ UNCHANGED source
       \/ /\ window' = [window EXCEPT ![i] = [kind |-> "error", rows |-> 0]]
          /\ UNCHANGED source
    /\ thread' = [thread EXCEPT ![i] = "offer"]
    /\ UNCHANGED <<memory, calls, receiver, seen>>

Panics(i) ==
    /\ thread[i] = "build" /\ Yields(i)
    /\ ExitsAs(i, "panicked")
    /\ UNCHANGED <<calls, source, window, receiver, seen>>

\* The call left: the send fails and the loop ends.
OfferFails(i) ==
    /\ thread[i] = "offer" /\ ~receiver[i]
    /\ thread' = [thread EXCEPT ![i] = "leave"]
    /\ window' = [window EXCEPT ![i] = Nothing]
    /\ UNCHANGED <<memory, calls, source, receiver, seen>>

\* The thread function returns and drops the reservation.
Leaves(i) ==
    /\ thread[i] = "leave"
    /\ ExitsAs(i, "exited")
    /\ UNCHANGED <<calls, source, window, receiver, seen>>

-----------------------------------------------------------------------------
(* The call: next_window, the COPY, detach and finish.                      *)

FailsAndDetaches_joins(i) ==
    /\ receiver' = [receiver EXCEPT ![i] = FALSE]
    /\ upload' = [upload EXCEPT ![i] = Nothing]
    /\ call' = [call EXCEPT ![i] = "join"]
    /\ result' = [result EXCEPT ![i] = "failed"]

FailsAndDetaches_open(i) ==
    /\ UNCHANGED receiver
    /\ upload' = [upload EXCEPT ![i] = Nothing]
    /\ Ends(i, "failed")

\* detach() before finish(): the thread is not waited for.
FailsAndDetaches(i) ==
    /\ receiver' = [receiver EXCEPT ![i] = FALSE]
    /\ upload' = [upload EXCEPT ![i] = Nothing]
    /\ Ends(i, "failed")

\* The channel has no buffer: the thread offers and the call receives at once.
ReceivesWindow(i) ==
    /\ call[i] = "receive" /\ thread[i] = "offer" /\ window[i].kind = "rows"
    /\ upload' = [upload EXCEPT ![i] = window[i]]
    /\ window' = [window EXCEPT ![i] = Nothing]
    /\ call' = [call EXCEPT ![i] = "upload"]
    /\ thread' = [thread EXCEPT ![i] = "build"]
    /\ UNCHANGED <<memory, budget, result, copied, source, receiver, seen>>

EndOf_any(w) == w.kind # "rows"
EndOf(w)     == w.kind = "end"

ReceivesEnd(i) ==
    /\ call[i] = "receive" /\ thread[i] = "offer" /\ EndOf(window[i])
    /\ window' = [window EXCEPT ![i] = Nothing]
    /\ thread' = [thread EXCEPT ![i] = "leave"]
    /\ call' = [call EXCEPT ![i] = "join"]
    /\ UNCHANGED <<memory, budget, result, upload, copied, source, receiver, seen>>

ReceivesError(i) ==
    /\ call[i] = "receive" /\ thread[i] = "offer" /\ window[i].kind = "error"
    /\ window' = [window EXCEPT ![i] = Nothing]
    /\ thread' = [thread EXCEPT ![i] = "leave"]
    /\ FailsAndDetaches(i)
    /\ UNCHANGED <<memory, budget, copied, source, seen>>

\* The thread is gone without a word: it panicked.
Disconnected(i) ==
    /\ call[i] = "receive" /\ thread[i] = "panicked"
    /\ FailsAndDetaches(i)
    /\ UNCHANGED <<memory, budget, copied, thread, source, window, seen>>

TimesOut(i) ==
    /\ call[i] = "receive" /\ source[i].timed
    /\ FailsAndDetaches(i)
    /\ UNCHANGED <<memory, budget, copied, thread, source, window, seen>>

Uploads(i) ==
    /\ call[i] = "upload"
    /\ copied' = [copied EXCEPT ![i] = @ + upload[i].rows]
    /\ upload' = [upload EXCEPT ![i] = Nothing]
    /\ call' = [call EXCEPT ![i] = "receive"]
    /\ UNCHANGED <<memory, budget, result, threads, seen>>

\* The COPY fails, the encoder does, or the server confirms another row count.
UploadFails(i) ==
    /\ call[i] = "upload"
    /\ FailsAndDetaches(i)
    /\ UNCHANGED <<memory, budget, copied, thread, source, window, seen>>

Joins(i) ==
    /\ call[i] = "join" /\ thread[i] \in {"exited", "panicked"}
    /\ receiver' = [receiver EXCEPT ![i] = FALSE]
    /\ Ends(i, IF result[i] = "none" THEN "ok" ELSE result[i])
    /\ UNCHANGED <<memory, budget, upload, copied, thread, source, window, seen>>

-----------------------------------------------------------------------------
Admission(i) ==
    \/ Unlimited(i) \/ ReadsUsage(i) \/ Rejected(i)
    \/ SwapSucceeds(i) \/ SwapFails(i) \/ Spawns(i) \/ SpawnFails(i)

ThreadStep(i) == Builds(i) \/ Panics(i) \/ OfferFails(i) \/ Leaves(i)

CallStep(i) ==
    \/ ReceivesWindow(i) \/ ReceivesEnd(i) \/ ReceivesError(i) \/ Disconnected(i)
    \/ TimesOut(i) \/ Uploads(i) \/ UploadFails(i) \/ Joins(i)

Next == \E i \in Ingests : Admission(i) \/ ThreadStep(i) \/ CallStep(i)

Spec == Init /\ [][Next]_vars

\* Threads that can run do, and the server answers or the request times out.
\* A stuck source is not helped.
FairSpec ==
    /\ Spec
    /\ \A i \in Ingests :
         WF_vars(Admission(i)) /\ WF_vars(ThreadStep(i)) /\ WF_vars(CallStep(i))

-----------------------------------------------------------------------------
(* Properties.                                                              *)

\* The counter is the sum of the reservations alive: every path that ends a
\* reservation gives it back once, also when the thread cannot start, panics
\* or is detached.
ReservationsAccounted == reserved = Held

\* Whatever the order of the compare-and-swaps, and however old the usage
\* each call has read: the reservations and the memory the process needs
\* anyway stay within 90% of the limit.
NeverOvercommitted == Held > 0 => Base + Held <= Allowed

\* While the thread lives, everything it builds and everything its call
\* uploads is covered by its reservation, also after the call timed out.
WindowsCovered ==
    \A i \in Ingests :
        /\ limit # NoLimit /\ thread[i] # "panicked"
        /\ thread[i] \in {"build", "offer"} \/ upload[i] # Nothing
        => held[i] = Bytes(i)

\* An ingest that reports success has copied every row of its source; a
\* source that fails, or a thread that dies, is never taken for its end.
CopiesWholeSource ==
    \A i \in Ingests : result[i] = "ok" => copied[i] = source[i].total

\* An ingest returns if its source yields or it has an operation timeout,
\* whatever its thread does: next_window waits no longer than the deadline
\* and an upload that fails detaches.
CallReturns ==
    \A i \in Ingests : source[i].timed \/ ~source[i].stuck ~> call[i] = "done"

\* The reservation of an ingest that has returned is given back if its source
\* yields: a detached thread finds the channel closed and ends.
MemoryReturns ==
    \A i \in Ingests : call[i] = "done" /\ ~source[i].stuck ~> held[i] = 0
=============================================================================
