--------------------------- MODULE IngestWindows ---------------------------
(***************************************************************************)
(* A COPY ingest from its source to the server: the scheduler builds a     *)
(* window out of staged batches, the call uploads its columns as the       *)
(* server asks for them, and a retained encoder thread encodes the part    *)
(* that was kept as Arrow.  The two threads of the upload share a channel  *)
(* without buffer for column numbers and a channel of one message for the  *)
(* encoded chunks.  (IngestPipeline has the thread the scheduler runs in.) *)
(***************************************************************************)
EXTENDS EncodedWindow

CONSTANTS
    Sources,        \* the batches a source yields
    Wires,          \* WireCompression: "none", "lz4", "auto"
    RowTargets,     \* write_batch_rows; Automatic if it is not set
    WindowBudget, PhysicalBudget, IncompressibleBudget,
    StagingBytes,   \* ENCODE_STAGING_BYTES
    PinnedBytes     \* sizes of the Arrow buffers a source may share

Automatic == 0
MaxUsize == 1073741824

ASSUME BudgetAssumption ==
    /\ {WindowBudget, PhysicalBudget, IncompressibleBudget, StagingBytes} \subseteq Nat \ {0}
    /\ RowTargets \subseteq Nat /\ PinnedBytes \subseteq Nat
    /\ Sources \subseteq Seq(SourceBatches) /\ Wires \subseteq {"none", "lz4", "auto"}

VARIABLES
    source,   \* the batches of this ingest
    target,   \* its write_batch_rows
    queue,    \* IngestWindowScheduler: pending batches
    stage,    \* take_staging and append: the batches taken and what is left to do
    window,   \* the window being built or uploaded
    phase,    \* where the ingest is
    upload,   \* where the callback is, its column, its ends of the channels
    encoder,  \* where the retained encoder is
    reply,    \* messages in its channel to the upload
    files,    \* the columns as the server has received them
    copied    \* rows of the windows the server has confirmed

vars == <<source, target, queue, stage, window, phase, upload, encoder, reply, files, copied>>
building  == <<queue, stage, window>>
uploading == <<upload, encoder, reply, files>>

NoStage    == [staged |-> <<>>, rows |-> 0, bytes |-> 0, low |-> 0, high |-> 0, column |-> 0, pieces |-> <<>>]
NoUpload   == [at |-> "none", column |-> 0, failed |-> FALSE, open |-> FALSE]
NoEncoder  == [at |-> "none", column |-> 0, left |-> <<>>, panicked |-> FALSE]
EmptyFiles == [k \in Columns |-> <<>>]

Init ==
    /\ source \in Sources /\ target \in RowTargets
    /\ queue = EmptyQueue /\ stage = NoStage
    /\ window \in { EmptyWindow(wire) : wire \in Wires }
    /\ phase = "build"
    /\ upload = NoUpload /\ encoder = NoEncoder /\ reply = <<>> /\ files = EmptyFiles
    /\ copied = <<>>

-----------------------------------------------------------------------------
(* The scheduler: next_window, one round of a loop of it at a time.        *)

RowsLeft == IF target = Automatic THEN MaxUsize ELSE target - Len(window.rows)
BytesLeft == IF target = Automatic THEN Less(WindowBudget, window.estimated) ELSE CompactionMax
StagingLeft ==
    IF target = Automatic /\ window.incompressible
    THEN Least(Less(IncompressibleBudget, window.estimated), BytesLeft)
    ELSE BytesLeft
StageBytes == Least(StagingLeft, StagingBytes)

should_finish_automatic_window(w) ==
    /\ target = Automatic
    /\ \/ physical_stored_bytes(w) >= PhysicalBudget
       \/ w.incompressible /\ w.estimated >= IncompressibleBudget

\* fill_staging: batches are read until there are enough rows and bytes.
HasTarget == RowsLeft > 0 /\ StagingLeft > 0
MustRead == queue.rows < RowsLeft /\ queue.bytes < StageBytes /\ ~queue.exhausted
Filling == phase = "build" /\ HasTarget /\ MustRead
NextBatch == source[queue.read + 1]

SourceEnds ==
    /\ Filling /\ queue.read = Len(source)
    /\ queue' = [queue EXCEPT !.exhausted = TRUE]
    /\ UNCHANGED <<source, target, stage, window, phase, uploading, copied>>

SourceFails ==
    /\ Filling /\ queue.read # Len(source) /\ ~NextBatch.ok
    /\ phase' = "failed"
    /\ UNCHANGED <<source, target, building, uploading, copied>>

ReadBatch ==
    /\ Filling /\ queue.read # Len(source) /\ NextBatch.ok
    /\ LET read == [queue EXCEPT !.read = @ + 1] IN
       IF NextBatch.rows = <<>> THEN queue' = read /\ UNCHANGED phase
       ELSE /\ queue' = push_back(read, Batch(NextBatch.rows, 0))
            /\ phase' = "compact"
    /\ UNCHANGED <<source, target, stage, window, uploading, copied>>

CompactPending ==
    /\ phase = "compact"
    /\ IF Compactable(queue) THEN queue' = Compacted(queue) /\ UNCHANGED phase
       ELSE phase' = "build" /\ UNCHANGED queue
    /\ UNCHANGED <<source, target, stage, window, uploading, copied>>

\* The round that appends nothing: the window is full, or there is no row left.
RoundEnds ==
    /\ phase = "build"
    /\ ~HasTarget \/ (~MustRead /\ queue.rows = 0)
    /\ phase' = "close"
    /\ UNCHANGED <<source, target, building, uploading, copied>>

TakeStarts ==
    /\ phase = "build" /\ HasTarget /\ ~MustRead /\ queue.rows # 0
    /\ stage' = [NoStage EXCEPT !.rows = RowsLeft, !.bytes = StageBytes]
    /\ phase' = "take"
    /\ UNCHANGED <<source, target, queue, window, uploading, copied>>

\* take_staging: one row that fits no target is taken only as the first of its
\* window.
TakesMore ==
    stage.rows > 0 /\ queue.pending # <<>> /\ (stage.bytes > 0 \/ stage.staged = <<>>)
Oldest == Head(queue.pending)

MayTakeAlone_always == TRUE
MayTakeAlone_never == FALSE
MayTakeAlone == window.rows = <<>>

Refuses(rows) == rows = 0 /\ (stage.staged # <<>> \/ ~MayTakeAlone)

TakeRows(rows) ==
    IF Refuses(rows) THEN phase' = "staged" /\ UNCHANGED <<queue, stage>>
    ELSE LET selected == Selected(Oldest, AtLeastOne(rows)) IN
         /\ queue' = split_pending(pop_front(queue), Oldest, AtLeastOne(rows))
         /\ stage' = [stage EXCEPT !.staged = Append(@, selected), !.rows = @ - Len(selected.rows),
                                   !.bytes = Less(@, selected.estimated)]
         /\ phase' = "take"

TakeBatch ==
    /\ phase = "take" /\ TakesMore /\ Oldest.estimated <= stage.bytes
    /\ TakeRows(Least(Len(Oldest.rows), stage.rows))
    /\ UNCHANGED <<source, target, window, uploading, copied>>

\* rows_within_budget: the binary search for the longest prefix that fits.
SearchStarts ==
    /\ phase = "take" /\ TakesMore /\ Oldest.estimated > stage.bytes
    /\ stage' = [stage EXCEPT !.low = 0, !.high = Len(Oldest.rows)]
    /\ phase' = "search"
    /\ UNCHANGED <<source, target, queue, window, uploading, copied>>

Middle == stage.low + (stage.high - stage.low + 1) \div 2

SearchHalves ==
    /\ phase = "search" /\ stage.low < stage.high
    /\ stage' = IF estimated_batch_size(SubSeq(Oldest.rows, 1, Middle)) <= stage.bytes
                THEN [stage EXCEPT !.low = Middle] ELSE [stage EXCEPT !.high = Middle - 1]
    /\ UNCHANGED <<source, target, queue, window, phase, uploading, copied>>

TakePrefix ==
    /\ phase = "search" /\ stage.low >= stage.high
    /\ TakeRows(Least(stage.low, stage.rows))
    /\ UNCHANGED <<source, target, window, uploading, copied>>

TakeEnds ==
    /\ phase = "take" /\ ~TakesMore
    /\ phase' = "staged"
    /\ UNCHANGED <<source, target, building, uploading, copied>>

StagedNothing ==
    /\ phase = "staged" /\ stage.staged = <<>>
    /\ stage' = NoStage
    /\ phase' = "close"
    /\ UNCHANGED <<source, target, queue, window, uploading, copied>>

\* append: the staged batches are retained, or encoded column by column.
Appended(w) ==
    /\ window' = w
    /\ stage' = NoStage
    /\ phase' = IF should_finish_automatic_window(w) THEN "close" ELSE "build"
    /\ UNCHANGED <<source, target, queue, uploading, copied>>

RetainBatches ==
    /\ phase = "staged" /\ stage.staged # <<>> /\ window.retain
    /\ \E pinned \in PinnedBytes : Appended(Retained(window, stage.staged, pinned))

StartColumn(k) ==
    stage' = [stage EXCEPT !.column = k, !.pieces = encode_column_chunks(stage.staged, k)]

EncodeStarts ==
    /\ phase = "staged" /\ stage.staged # <<>> /\ ~window.retain
    /\ StartColumn(1)
    /\ phase' = "encode"
    /\ UNCHANGED <<source, target, queue, window, uploading, copied>>

EncodePiece(pick) ==
    /\ phase = "encode" /\ stage.pieces # <<>>
    /\ LET bytes == Head(stage.pieces)
           n     == Pushed(window, stage.column, bytes)
       IN  /\ window' = push(window, stage.column, bytes, pick)
           /\ stage' = [stage EXCEPT !.pieces =
                  IF n = Len(bytes) THEN Tail(@) ELSE <<SubSeq(bytes, n + 1, Len(bytes))>> \o Tail(@)]
    /\ UNCHANGED <<source, target, queue, phase, uploading, copied>>

EncodedColumn(pick) ==
    [finish_pending(window, stage.column, pick) EXCEPT
        !.encoded = @ + Len(encode_column(RowsOf(stage.staged), stage.column))]

FinishColumn(pick) ==
    /\ phase = "encode" /\ stage.pieces = <<>>
    /\ IF stage.column = Len(FixedWidth)
       THEN Appended(Judged(Noted(EncodedColumn(pick), stage.staged)))
       ELSE /\ window' = EncodedColumn(pick)
            /\ StartColumn(stage.column + 1)
            /\ UNCHANGED <<source, target, queue, phase, uploading, copied>>

\* A value of a staged row has no encoding, and the ingest fails.
AppendFails ==
    /\ phase = "encode"
    /\ phase' = "failed"
    /\ UNCHANGED <<source, target, building, uploading, copied>>

\* No row means the end of the source.  A window starts its upload, with the
\* encoder thread if some of it is retained; its finish finds no buffer that
\* append has not finished.
EndOfWindows ==
    /\ phase = "close" /\ window.rows = <<>>
    /\ phase' = "end"
    /\ UNCHANGED <<source, target, building, uploading, copied>>

WindowStarts ==
    /\ phase = "close" /\ window.rows # <<>>
    /\ phase' = "upload"
    /\ upload' = [NoUpload EXCEPT !.at = "wait", !.open = TRUE]
    /\ encoder' = [NoEncoder EXCEPT !.at = IF window.retained = <<>> THEN "none" ELSE "recv"]
    /\ reply' = <<>> /\ files' = EmptyFiles
    /\ UNCHANGED <<source, target, building, copied>>

-----------------------------------------------------------------------------
(* The upload: the callback of execute_with_streaming_uploads.             *)

CallbackFails ==
    /\ upload' = [upload EXCEPT !.at = "done", !.failed = TRUE]
    /\ UNCHANGED files

\* The server asks for its columns in turn.  The encoded chunks are written as
\* they are, or restored; the chunks of a compressed upload must be frames.
ServerAsks(k) ==
    /\ phase = "upload" /\ upload.at = "wait" /\ k = upload.column + 1 /\ k \in Columns
    /\ IF uses_wire_lz4(window) /\ ClientOnly(window, k)
       THEN CallbackFails
       ELSE /\ files' = [files EXCEPT ![k] = WrittenColumn(window, k, uses_wire_lz4(window))]
            /\ upload' = [upload EXCEPT !.at = IF window.retained = <<>> THEN "wait" ELSE "request", !.column = k]
    /\ UNCHANGED <<source, target, building, phase, encoder, reply, copied>>

\* request.send: the encoder takes the column number, or has stopped.
RequestColumn ==
    /\ phase = "upload" /\ upload.at = "request" /\ encoder.at \in {"recv", "exited"}
    /\ IF encoder.at = "recv"
       THEN /\ upload' = [upload EXCEPT !.at = "start"]
            /\ encoder' = [encoder EXCEPT !.at = "start", !.column = upload.column]
            /\ UNCHANGED files
       ELSE CallbackFails /\ UNCHANGED encoder
    /\ UNCHANGED <<source, target, building, phase, reply, copied>>

Message(kind, value) == [kind |-> kind, value |-> value]

\* upload_retained_column, one message at a time.
UploadMessage(m) ==
    CASE upload.at = "start" /\ m.kind = "start" /\ m.value = upload.column ->
            upload' = [upload EXCEPT !.at = "chunks"] /\ UNCHANGED files
      [] upload.at = "chunks" /\ m.kind = "chunk" ->
            files' = [files EXCEPT ![upload.column] = @ \o m.value] /\ UNCHANGED upload
      [] upload.at = "chunks" /\ m.kind = "finish" ->
            upload' = [upload EXCEPT !.at = "wait"] /\ UNCHANGED files
      [] OTHER -> CallbackFails

ReceiveMessage ==
    /\ phase = "upload" /\ upload.at \in {"start", "chunks"} /\ reply # <<>>
    /\ UploadMessage(Head(reply))
    /\ reply' = Tail(reply)
    /\ UNCHANGED <<source, target, building, phase, encoder, copied>>

EncoderGone ==
    /\ phase = "upload" /\ upload.at \in {"start", "chunks"}
    /\ reply = <<>> /\ encoder.at = "exited"
    /\ CallbackFails
    /\ UNCHANGED <<source, target, building, phase, encoder, reply, copied>>

\* A write to the server fails, or the server rejects the COPY.
ServerFails ==
    /\ phase = "upload" /\ upload.at \in {"wait", "chunks"}
    /\ CallbackFails
    /\ UNCHANGED <<source, target, building, phase, encoder, reply, copied>>

\* The server has every column and answers.
ServerAnswers ==
    /\ phase = "upload" /\ upload.at = "wait" /\ upload.column = Len(FixedWidth)
    /\ upload' = [upload EXCEPT !.at = "done"]
    /\ UNCHANGED <<source, target, building, phase, encoder, reply, files, copied>>

\* Both ends the call holds are dropped, and the encoder is joined.
DropChannels_kept ==
    /\ phase = "upload" /\ upload.at = "done"
    /\ phase' = "join"
    /\ UNCHANGED <<source, target, building, uploading, copied>>
DropChannels ==
    /\ phase = "upload" /\ upload.at = "done"
    /\ phase' = "join"
    /\ upload' = [upload EXCEPT !.open = FALSE]
    /\ UNCHANGED <<source, target, building, encoder, reply, files, copied>>

\* The row count of the server is the number of rows it made of the files; a
\* count other than the window's fails the ingest.
Joins(counted) ==
    /\ phase = "join" /\ encoder.at \in {"none", "exited"}
    /\ phase' = IF upload.failed \/ encoder.panicked \/ ~counted THEN "failed" ELSE "build"
    /\ copied' = IF phase' = "failed" THEN copied ELSE copied \o window.rows
    /\ window' = EmptyWindow(window.wire)
    /\ upload' = NoUpload /\ encoder' = NoEncoder /\ reply' = <<>> /\ files' = EmptyFiles
    /\ UNCHANGED <<source, target, queue, stage>>

-----------------------------------------------------------------------------
(* The retained encoder: encode_retained_columns.                          *)

EncoderExits == encoder' = [encoder EXCEPT !.at = "exited", !.left = <<>>]

\* A send fails once the receiver is dropped, and the thread returns.
EncoderSends(m, next) ==
    \/ /\ upload.open /\ reply = <<>>
       /\ reply' = <<m>>
       /\ encoder' = next
    \/ /\ ~upload.open
       /\ EncoderExits
       /\ UNCHANGED reply

EncoderStep(from, m, next) ==
    /\ encoder.at = from
    /\ EncoderSends(m, next)
    /\ UNCHANGED <<source, target, building, phase, upload, files, copied>>

SendStart ==
    EncoderStep("start", Message("start", encoder.column),
                [encoder EXCEPT !.at = "encode",
                                !.left = encode_column_chunks(window.retained, encoder.column)])

SendChunk ==
    /\ encoder.left # <<>>
    /\ EncoderStep("encode", Message("chunk", Head(encoder.left)), [encoder EXCEPT !.left = Tail(@)])

SendFinish ==
    /\ encoder.left = <<>>
    /\ EncoderStep("encode", Message("finish", <<>>), [encoder EXCEPT !.at = "recv"])

EncodingFails ==
    /\ encoder.at = "encode" /\ encoder.left # <<>>
    /\ encoder' = [encoder EXCEPT !.at = "error", !.left = <<>>]
    /\ UNCHANGED <<source, target, building, phase, upload, reply, files, copied>>

SendError == EncoderStep("error", Message("error", <<>>), [encoder EXCEPT !.at = "exited"])

RequestsEnd ==
    /\ encoder.at = "recv" /\ ~upload.open
    /\ EncoderExits
    /\ UNCHANGED <<source, target, building, phase, upload, reply, files, copied>>

EncoderPanics ==
    /\ encoder.at = "encode"
    /\ encoder' = [encoder EXCEPT !.at = "exited", !.left = <<>>, !.panicked = TRUE]
    /\ UNCHANGED <<source, target, building, phase, upload, reply, files, copied>>

-----------------------------------------------------------------------------

Picks == {"plain", "shuffle", "no"}
Staging ==
    \/ SourceEnds \/ SourceFails \/ ReadBatch \/ CompactPending \/ RoundEnds
    \/ TakeStarts \/ TakeBatch \/ SearchStarts \/ SearchHalves \/ TakePrefix \/ TakeEnds
Appending ==
    \/ StagedNothing \/ RetainBatches \/ EncodeStarts
    \/ \E pick \in Picks : EncodePiece(pick) \/ FinishColumn(pick)
Scheduler == Staging \/ Appending \/ EndOfWindows \/ WindowStarts
Upload ==
    \/ \E k \in Columns : ServerAsks(k)
    \/ RequestColumn \/ ReceiveMessage \/ EncoderGone \/ ServerAnswers
    \/ DropChannels \/ \E counted \in BOOLEAN : Joins(counted)
Encoder == SendStart \/ SendChunk \/ SendFinish \/ SendError \/ RequestsEnd
Faults  == AppendFails \/ ServerFails \/ EncodingFails \/ EncoderPanics
Ended   == phase \in {"end", "failed"} /\ UNCHANGED vars

Next == Scheduler \/ Upload \/ Encoder \/ Faults \/ Ended

Spec == Init /\ [][Next]_vars

\* Both threads of an upload keep running; the server asks for the next column, answers or
\* the statement's timeout fails the wait.
FairSpec == Spec /\ WF_vars(Upload) /\ WF_vars(Encoder)

-----------------------------------------------------------------------------

Unread == RowsOf(SubSeq(source, queue.read + 1, Len(source)))

\* next_window, take_staging, split_pending and compact_pending_batches: the
\* confirmed windows, the window at hand, the pending batches and what was not
\* read yet are the source's rows in their order, none lost or doubled by a
\* split or a compaction; the counters of the queue agree with it; and the end
\* of the windows, which the ingest takes for success, comes only after the
\* last row.
WindowsAreTheSource ==
    /\ phase # "failed" =>
          copied \o window.rows \o RowsOf(stage.staged) \o RowsOf(queue.pending) \o Unread = RowsOf(source)
    /\ queue.rows = Len(RowsOf(queue.pending))
    /\ queue.bytes = BytesOf(queue.pending)
    /\ \A i \in DOMAIN queue.pending :
          queue.pending[i].estimated = estimated_batch_size(queue.pending[i].rows)
    /\ phase = "end" => copied = RowsOf(source)

NextRow == RowsOf(queue.pending) \o Unread

\* next_window: an automatic window exceeds its budget only as a single row,
\* and one that its storage did not close is as long as the next row allows; a
\* row target is never exceeded.
WindowsFillTheirBudget ==
    phase = "upload" =>
        IF target = Automatic
        THEN /\ window.estimated <= WindowBudget \/ Len(window.rows) = 1
             /\ \/ NextRow = <<>>
                \/ should_finish_automatic_window(window)
                \/ Weight(NextRow[1]) > StageBytes
        ELSE Len(window.rows) <= target

\* next_window under write_batch_rows, which docs/monetdb.md says "forces an
\* exact row count": every window but the last has that many rows.  A window
\* that has rows is closed before one that is wider than a staging target.
RowTargetIsExact ==
    phase = "upload" /\ target # Automatic => Len(window.rows) = target \/ NextRow = <<>>

\* EncodedColumn, CompressedArena, unshuffle_bytes and upload_retained_column:
\* an upload that ends well has given the server every column of the window,
\* byte for byte and in row order, whatever mixture of raw, compressed,
\* shuffled and retained chunks it was kept as.
UploadsTheWindow ==
    upload.at = "done" /\ ~upload.failed =>
        \A k \in Columns : files[k] = encode_column(window.rows, k)

\* start_retained_encoder and the join of its thread: every upload that starts
\* is left again, however the server, the source data or the thread failed.
UploadEnds == phase = "upload" ~> phase \in {"build", "failed"}

=============================================================================
