---------------------------- MODULE ResultReader ----------------------------
(***************************************************************************)
(* The reader of one query result.  query_result_with_timeouts picks an    *)
(* inline slice reader, a reader that fetches on demand (BinaryReader) or  *)
(* one fed by a prefetch thread (PrefetchedBinaryReader).  The thread and  *)
(* the caller share a one-place channel of frames, a two-place channel of  *)
(* emptied buffers and a one-place completion channel.  Every fetch holds  *)
(* the connection's wire, which other statements of the connection use     *)
(* between fetches.                                                        *)
(***************************************************************************)
EXTENDS ReadWindows, Sequences

CONSTANTS
    MaxTotal,       \* bound: rows of the result
    NewSchedulers,  \* what ReadWindowScheduler::new returns
    RowBytes,       \* bytes a row may take on the wire
    MaxStatements   \* bound: other statements that run on the connection

ASSUME ReaderAssumption ==
    /\ MaxTotal \in Nat /\ MaxStatements \in Nat
    /\ NewSchedulers \subseteq Schedulers /\ RowBytes \subseteq Nat

VARIABLES
    path,       \* the kind of reader
    adopt,      \* adopt_frame: Arrow keeps the response buffer
    total, sched,
    worker,     \* where the prefetch thread is
    next_row,   \* its position
    asked,      \* rows of the request in flight
    message,    \* what it is about to send
    channel,    \* frames sent and not received
    receiver,   \* the receiving end is alive
    recycle,    \* emptied buffers on their way back
    completion, \* the completion message was sent
    rd,         \* where the caller is
    finished, decoded,
    frame,      \* the frame under decoding
    wire,       \* who holds the connection's wire
    others,     \* statements that wait, run, and are done
    out, stream,\* history: rows handed over, how the stream stands
    wasted      \* history: frames fetched and thrown away

scan   == <<total, path, adopt>>
thread == <<worker, next_row, asked, message, completion>>
pipe   == <<channel, receiver, recycle, wasted>>
caller == <<rd, finished, decoded, frame>>
told   == <<out, stream>>
vars   == <<scan, sched, thread, pipe, caller, wire, others, told>>

Frames == [ kind : {"frame"}, start : 0..MaxTotal, asked : 1..MaxTotal,
            rows : 0..MaxTotal, intact : BOOLEAN ]
Failure == [kind |-> "error"]
NoFrame == [kind |-> "none"]

\* sync_channel(1).
Room     == Len(channel) < 1

\* fetch_binary_into holds the wire until the reply is in.
FreesWire_never == UNCHANGED wire
FreesWire       == wire' = "free"

\* Where the next window starts.
Advanced_asked == next_row + message.asked
Advanced       == next_row + message.rows

-----------------------------------------------------------------------------
Init ==
    /\ total \in 0..MaxTotal /\ sched \in NewSchedulers /\ adopt \in BOOLEAN
    /\ \/ path = "inline"
       \/ /\ total > 0
          /\ \E prefetch \in BOOLEAN :
               path = IF prefetch /\ total > next_rows(sched, total)
                      THEN "prefetch" ELSE "direct"
    /\ worker = IF path = "prefetch" THEN "plan" ELSE "exited"
    /\ next_row = 0 /\ asked = 0 /\ message = NoFrame /\ completion = FALSE
    /\ channel = <<>> /\ receiver = (path = "prefetch") /\ recycle = 0 /\ wasted = 0
    /\ rd = "idle" /\ finished = FALSE /\ decoded = 0 /\ frame = NoFrame
    /\ wire = "free" /\ others = [waiting |-> 0, done |-> 0]
    /\ out = <<>> /\ stream = "open"

-----------------------------------------------------------------------------
(* The prefetch thread: fetch_binary_frames inside catch_unwind.            *)

\* fetch_binary_frames returns: its end of the recycle channel goes with it.
WorkerReturns == worker' = "complete" /\ recycle' = 0

TakesBuffer_new == UNCHANGED recycle
TakesBuffer     == recycle' = IF recycle > 0 THEN recycle - 1 ELSE 0

\* A request is planned into a recycled buffer if there is one.  A buffer
\* that has grown past twice the budget is dropped for a new one.
WorkerPlans ==
    /\ worker = "plan" /\ next_row < total
    /\ asked' = next_rows(sched, total - next_row)
    /\ sched' = Requested(sched, asked')
    /\ TakesBuffer /\ worker' = "fetch"
    /\ UNCHANGED <<scan, next_row, message, completion, channel, receiver, wasted,
                   caller, wire, others, told>>

WorkerFinishes ==
    /\ worker = "plan" /\ next_row >= total
    /\ WorkerReturns
    /\ UNCHANGED <<scan, sched, next_row, asked, message, completion, channel, receiver,
                   wasted, caller, wire, others, told>>

WorkerTakesWire ==
    /\ worker = "fetch" /\ wire = "free"
    /\ wire' = "worker" /\ worker' = "reply"
    /\ UNCHANGED <<scan, sched, next_row, asked, message, completion, pipe, caller,
                   others, told>>

WorkerFetchFails_silent ==
    /\ worker = "reply"
    /\ FreesWire /\ WorkerReturns
    /\ UNCHANGED <<scan, sched, next_row, asked, message, completion, channel, receiver,
                   wasted, caller, others, told>>

WorkerFetchFails ==
    /\ worker = "reply"
    /\ FreesWire /\ worker' = "send" /\ message' = Failure
    /\ UNCHANGED <<scan, sched, next_row, asked, completion, pipe, caller, others, told>>

\* The header must name this result, the row asked for, and at most the rows
\* asked for.
HeaderValid(id, start, rows) ==
    id = "ours" /\ start = next_row /\ rows <= asked

WorkerFetches ==
    /\ worker = "reply"
    /\ FreesWire /\ worker' = "send"
    /\ \E id \in {"ours", "other"}, start \in {next_row, next_row + 1},
          rows \in 0..asked + 1, intact \in BOOLEAN, width \in RowBytes :
         IF HeaderValid(id, start, rows)
         THEN /\ message' = [ kind |-> "frame", start |-> next_row, asked |-> asked,
                              rows |-> rows, intact |-> intact ]
              /\ sched' = observe(sched, width * rows, rows)
         ELSE message' = Failure /\ UNCHANGED sched
    /\ UNCHANGED <<scan, next_row, asked, completion, pipe, caller, others, told>>

\* The send blocks while the channel is full, and fails once the receiver is
\* gone.
Sent ==
    \/ receiver /\ Room /\ channel' = Append(channel, message) /\ UNCHANGED wasted
    \/ /\ ~receiver /\ UNCHANGED channel
       /\ wasted' = IF message.kind = "frame" THEN wasted + 1 ELSE wasted

WorkerSends ==
    /\ worker = "send"
    /\ Sent
    /\ IF receiver /\ message.kind = "frame" /\ message.rows > 0
       THEN /\ next_row' = Advanced
            /\ worker' = "plan" /\ UNCHANGED recycle
       ELSE WorkerReturns /\ UNCHANGED next_row
    /\ message' = NoFrame
    /\ UNCHANGED <<scan, sched, asked, completion, receiver, caller, wire, others, told>>

\* A panic unwinds fetch_binary_frames; the thread then reports it.
WorkerPanics ==
    /\ worker \in {"plan", "reply"}
    /\ worker' = "report" /\ message' = Failure /\ recycle' = 0
    /\ wire' = IF worker = "reply" THEN "free" ELSE wire
    /\ UNCHANGED <<scan, sched, next_row, asked, completion, channel, receiver, wasted,
                   caller, others, told>>

WorkerReports ==
    /\ worker = "report"
    /\ Sent
    /\ worker' = "complete" /\ message' = NoFrame
    /\ UNCHANGED <<scan, sched, next_row, asked, completion, receiver, recycle, caller,
                   wire, others, told>>

WorkerCompletes_rendezvous ==
    /\ worker = "complete" /\ rd = "closing"
    /\ completion' = TRUE /\ worker' = "exited"
    /\ UNCHANGED <<scan, sched, next_row, asked, message, pipe, caller, wire, others, told>>

\* The completion message goes to a channel with room for it.
WorkerCompletes ==
    /\ worker = "complete"
    /\ completion' = TRUE /\ worker' = "exited"
    /\ UNCHANGED <<scan, sched, next_row, asked, message, pipe, caller, wire, others, told>>

-----------------------------------------------------------------------------
(* The caller: Iterator::next and Drop.                                     *)

\* PrefetchedBinaryReader::finish drops the receiver and what it holds.
DropsReceiver ==
    /\ receiver' = FALSE /\ channel' = <<>>
    /\ wasted' = wasted + (IF channel # <<>> /\ channel[1].kind = "frame" THEN 1 ELSE 0)

Hands(start, rows) == out' = out \o [i \in 1..rows |-> start + i - 1]

\* next() with nothing left to do returns None.
NextIsNone ==
    /\ rd = "idle" /\ (finished \/ decoded >= total)
    /\ finished' = TRUE /\ DropsReceiver
    /\ stream' = IF stream = "open" THEN "ended" ELSE stream
    /\ UNCHANGED <<scan, sched, thread, recycle, rd, decoded, frame, wire, others, out>>

\* SlicedBatchReader: the rows came with the reply.
NextSlice ==
    /\ path = "inline" /\ rd = "idle" /\ decoded < total
    /\ LET rows == Least(OrElse(sched.exact, total), total - decoded)
       IN  Hands(decoded, rows) /\ decoded' = decoded + rows
    /\ UNCHANGED <<scan, sched, thread, pipe, rd, finished, frame, wire, others, stream>>

NextPrefetched ==
    /\ path = "prefetch" /\ rd = "idle" /\ ~finished /\ decoded < total
    /\ rd' = "receive"
    /\ UNCHANGED <<scan, sched, thread, pipe, finished, decoded, frame, wire, others, told>>

Fails == rd' = "idle" /\ finished' = TRUE /\ stream' = "failed"

\* recv returns a message, or an error once the channel is empty and the
\* thread is gone.
Received == IF channel = <<>> THEN Failure ELSE Head(channel)

Receives ==
    /\ rd = "receive"
    /\ ~(channel = <<>> /\ worker # "exited")
    /\ IF Received.kind = "frame"
       THEN /\ frame' = Received /\ channel' = Tail(channel) /\ rd' = "decode"
            /\ UNCHANGED <<receiver, wasted, finished, stream>>
       ELSE Fails /\ DropsReceiver /\ UNCHANGED frame
    /\ UNCHANGED <<scan, sched, thread, recycle, decoded, wire, others, out>>

Recycles_unbounded ==
    recycle' = IF ~adopt /\ worker \notin {"report", "complete", "exited"}
               THEN recycle + 1 ELSE recycle

\* A copied frame's buffer goes back to the thread while there is room.
Recycles ==
    recycle' = IF ~adopt /\ recycle < 2 /\ worker \notin {"report", "complete", "exited"}
               THEN recycle + 1 ELSE recycle

Decodes ==
    /\ rd = "decode" /\ frame.intact /\ frame.rows > 0
    /\ Hands(frame.start, frame.rows) /\ decoded' = decoded + frame.rows
    /\ finished' = (decoded' >= total)
    /\ IF finished' THEN DropsReceiver ELSE UNCHANGED <<receiver, channel, wasted>>
    /\ rd' = "idle" /\ frame' = NoFrame /\ Recycles
    /\ UNCHANGED <<scan, sched, thread, wire, others, stream>>

\* A malformed or an empty window ends the stream.
DecodeFails ==
    /\ rd = "decode" /\ ~(frame.intact /\ frame.rows > 0)
    /\ Fails /\ DropsReceiver /\ frame' = NoFrame /\ Recycles
    /\ UNCHANGED <<scan, sched, thread, decoded, wire, others, out>>

DecodePanics ==
    /\ rd = "decode"
    /\ Fails /\ DropsReceiver /\ frame' = NoFrame
    /\ UNCHANGED <<scan, sched, thread, recycle, decoded, wire, others, out>>

\* BinaryReader::next plans, takes the wire and decodes on the caller's
\* thread.
NextDirect ==
    /\ path = "direct" /\ rd = "idle" /\ ~finished /\ decoded < total
    /\ asked' = next_rows(sched, total - decoded)
    /\ sched' = Requested(sched, asked')
    /\ rd' = "fetch"
    /\ UNCHANGED <<scan, worker, next_row, message, completion, pipe, finished, decoded,
                   frame, wire, others, told>>

DirectTakesWire ==
    /\ rd = "fetch" /\ wire = "free"
    /\ wire' = "reader" /\ rd' = "reply"
    /\ UNCHANGED <<scan, sched, thread, pipe, finished, decoded, frame, others, told>>

\* BinaryReader tells the scheduler the rows it asked for, not the rows it got.
DirectFetches ==
    /\ rd = "reply" /\ FreesWire
    /\ \E rows \in 1..asked, width \in RowBytes :
         /\ Hands(decoded, rows) /\ decoded' = decoded + rows
         /\ sched' = observe(sched, width * rows, asked)
    /\ rd' = "idle"
    /\ UNCHANGED <<scan, thread, pipe, finished, frame, others, stream>>

DirectFails ==
    /\ rd = "reply" /\ FreesWire
    /\ Fails
    /\ UNCHANGED <<scan, sched, thread, pipe, decoded, frame, others, out>>

Drops ==
    /\ rd = "idle"
    /\ DropsReceiver
    /\ rd' = IF path = "prefetch" THEN "closing" ELSE "joined"
    /\ UNCHANGED <<scan, sched, thread, recycle, finished, decoded, frame, wire, others,
                   told>>

\* Drop waits for the thread, at most for PREFETCH_DROP_GRACE.
DropJoins ==
    /\ rd = "closing" /\ completion
    /\ rd' = "joined"
    /\ UNCHANGED <<scan, sched, thread, pipe, finished, decoded, frame, wire, others, told>>

DropDetaches ==
    /\ rd = "closing" /\ ~completion
    /\ rd' = "detached"
    /\ UNCHANGED <<scan, sched, thread, pipe, finished, decoded, frame, wire, others, told>>

-----------------------------------------------------------------------------
(* Other statements of the connection.                                      *)

StatementWaits ==
    /\ others.waiting = 0 /\ others.done < MaxStatements
    /\ others' = [others EXCEPT !.waiting = 1]
    /\ UNCHANGED <<scan, sched, thread, pipe, caller, wire, told>>

StatementTakesWire ==
    /\ others.waiting = 1 /\ wire = "free"
    /\ wire' = "statement"
    /\ UNCHANGED <<scan, sched, thread, pipe, caller, others, told>>

StatementEnds ==
    /\ wire = "statement"
    /\ wire' = "free" /\ others' = [waiting |-> 0, done |-> others.done + 1]
    /\ UNCHANGED <<scan, sched, thread, pipe, caller, told>>

-----------------------------------------------------------------------------
WorkerStep ==
    \/ WorkerPlans \/ WorkerFinishes \/ WorkerTakesWire \/ WorkerFetchFails
    \/ WorkerFetches \/ WorkerSends \/ WorkerPanics \/ WorkerReports \/ WorkerCompletes

\* The steps inside a call to next() or drop(), once it has begun.
CallStep ==
    \/ Receives \/ Decodes \/ DecodeFails \/ DecodePanics
    \/ DirectTakesWire \/ DirectFetches \/ DirectFails \/ DropJoins \/ DropDetaches

Calls == NextIsNone \/ NextSlice \/ NextPrefetched \/ NextDirect \/ Drops

StatementStep == StatementTakesWire \/ StatementEnds

Next == WorkerStep \/ CallStep \/ Calls \/ StatementWaits \/ StatementStep

Spec == Init /\ [][Next]_vars

\* Threads that can run do; the server answers or the request times out.
FairSpec == Spec /\ WF_vars(WorkerStep) /\ WF_vars(CallStep) /\ WF_vars(StatementStep)

-----------------------------------------------------------------------------
(* Properties.                                                              *)

TypeOK ==
    /\ path \in {"inline", "direct", "prefetch"} /\ adopt \in BOOLEAN
    /\ total \in 0..MaxTotal /\ sched \in Schedulers
    /\ worker \in {"plan", "fetch", "reply", "send", "report", "complete", "exited"}
    /\ next_row \in 0..MaxTotal /\ asked \in 0..MaxTotal
    /\ message \in Frames \cup {Failure, NoFrame} /\ completion \in BOOLEAN
    /\ channel # <<>> => channel = <<channel[1]>> /\ channel[1] \in Frames \cup {Failure}
    /\ receiver \in BOOLEAN /\ recycle \in 0..2 /\ wasted \in Nat
    /\ rd \in {"idle", "receive", "decode", "fetch", "reply", "closing", "joined", "detached"}
    /\ finished \in BOOLEAN /\ decoded \in 0..MaxTotal /\ frame \in Frames \cup {NoFrame}
    /\ wire \in {"free", "worker", "reader", "statement"}
    /\ others \in [waiting : 0..1, done : 0..MaxStatements]
    /\ out \in Seq(Nat) /\ stream \in {"open", "ended", "failed"}

Stream == INSTANCE ResultStream

\* Every kind of reader hands over the rows of the result in order, each once,
\* ends only after the last one, and reports an error only while rows are
\* missing: PrefetchedBinaryReader, BinaryReader and SlicedBatchReader all
\* implement ResultStream, whatever the thread, the server and the caller do.
ImplementsStream == Stream!Spec

\* "MonetDB result prefetch ended before the result was complete" is never
\* what a caller sees: before the thread exits it has sent every row, or an
\* error, or an empty window.
ThreadExplainsItsEnd == rd = "receive" /\ worker = "exited" => channel # <<>>

\* Copied frames use at most three buffers at a time: one decoding, one in the
\* channel and one with the thread, the recycled ones included; and a caller
\* that abandons the stream wastes at most two fetched windows, the buffered
\* one and the one in flight.
BuffersBounded ==
    LET InHand(b) == IF b THEN 1 ELSE 0
    IN  /\ InHand(worker \in {"fetch", "reply"} \/ (worker = "send" /\ message # Failure))
               + Len(channel) + InHand(rd = "decode") + (IF adopt THEN 0 ELSE recycle) <= 3
        /\ wasted <= 2

\* An adaptive request never asks for more than the byte budget buys, except
\* for a single row or a granule known to fit; it grows at most MaxGrowth-fold;
\* and unless it reaches the end of the result it ends on an export boundary.
GoodWindow(s, rows, remaining) ==
    /\ rows \in 1..remaining
    /\ s.exact = None =>
         /\ rows = 1 \/ rows * s.estimate <= s.budget \/ (s.fits /\ rows <= Granule)
         /\ s.previous # None => rows <= s.previous * MaxGrowth
         /\ rows < remaining /\ s.observed + Target(s) <= MaxUsize
              => (s.observed + rows) % export_alignment_rows(Target(s)) = 0

WindowsFollowBudget ==
    [][ /\ WorkerPlans => GoodWindow(sched, asked', total - next_row)
        /\ NextDirect => GoodWindow(sched, asked', total - decoded) ]_vars

\* A call to next() returns: the thread always sends, fails or exits.
NextReturns == rd \in {"receive", "decode", "fetch", "reply"} ~> rd = "idle"

\* Once the receiver is dropped the thread stops by itself, so that the memory
\* and the cursor it holds are released even if the reader is kept.
ThreadStops == path = "prefetch" /\ ~receiver ~> worker = "exited"

\* A statement that waits behind an abandoned prefetch gets the wire.
AbandonedWireFrees ==
    others.waiting = 1 /\ path = "prefetch" /\ ~receiver ~> others.waiting = 0
=============================================================================
