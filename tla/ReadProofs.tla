---------------------------- MODULE ReadProofs ------------------------------
(***************************************************************************)
(* What a query's rows go through on their way to the caller.  First the   *)
(* readers of a result, for results, budgets and alignments of any size:   *)
(* they implement ResultStream, the thread never leaves its caller without *)
(* an answer, and buffers and windows are bounded.  Then the cells of the  *)
(* rows: fixed-width values survive the wire for every value of their      *)
(* type, where the value_routes run tries the boundaries of a scaled-down  *)
(* calendar.                                                               *)
(***************************************************************************)
EXTENDS ResultReader, WireCells, SequenceTheorems, TLAPS

\* At most one other statement is counted, from its wait to its end.
StatementInv ==
    /\ wire = "statement" => others.waiting = 1
    /\ others.waiting = 1 => others.done < MaxStatements

\* What the caller was handed, and how the stream stands.
CallerInv ==
    /\ decoded <= total /\ Len(out) = decoded
    /\ stream # "open" => finished
    /\ finished /\ (stream = "open" \/ path = "inline") => decoded = total
    /\ rd \in {"receive", "decode", "fetch", "reply"} => ~finished /\ stream = "open" /\ decoded < total
    /\ rd \in {"receive", "decode"} => path = "prefetch" /\ receiver
    /\ rd \in {"fetch", "reply"} => path = "direct" /\ asked \in 1 .. total - decoded
    /\ path = "prefetch" /\ rd = "idle" /\ ~finished => receiver
    /\ rd = "decode" => frame \in Frames

\* What the thread fetched and is about to send.
ThreadInv ==
    /\ path # "prefetch" => worker = "exited" /\ ~receiver
    /\ ~receiver => channel = <<>>
    /\ next_row <= total
    /\ worker \in {"fetch", "reply"} => asked \in 1 .. total - next_row
    /\ worker = "send" => message # NoFrame
    /\ worker = "send" /\ message # Failure => message.start = next_row /\ message.rows <= total - next_row
    /\ worker = "report" => message = Failure
    /\ worker \in {"report", "complete", "exited"} => recycle = 0

\* The first row that the caller has not received.
Position == decoded + (IF rd = "decode" THEN frame.rows ELSE 0)

\* Between the thread and a caller that still listens no row is lost: the frame
\* under decoding, the frame in the channel and the thread's position follow
\* each other; and a thread that ended has left the reason on the way.
FlowInv ==
    receiver =>
      /\ rd = "decode" => frame.start = decoded /\ frame.rows <= total - decoded
      /\ channel = <<>> => next_row = Position
      /\ channel # <<>> /\ channel[1] # Failure =>
           channel[1].start = Position /\ next_row = Position + channel[1].rows
      /\ worker \in {"complete", "exited"} =>
           \/ next_row = total
           \/ channel # <<>> /\ (channel[1] = Failure \/ channel[1].rows = 0)
           \/ rd = "decode" /\ frame.rows = 0

\* A dropped receiver throws away the buffered frame; the thread then throws
\* away at most one more.
WasteInv ==
    /\ receiver => wasted = 0
    /\ worker \notin {"complete", "exited"} => wasted <= 1

IInv == TypeOK /\ StatementInv /\ CallerInv /\ ThreadInv /\ FlowInv /\ WasteInv /\ BuffersBounded

-----------------------------------------------------------------------------
(* Windows: ReadWindowScheduler.                                            *)

\* The numbers a scheduler computes with.
LEMMA Numbers ==
    /\ Granule \in Nat \ {0} /\ MaxGrowth \in Nat \ {0} /\ MaxUsize \in Nat \ {0}
    /\ \A s \in Schedulers :
         /\ s.exact \in Nat /\ s.budget \in Nat /\ s.estimate \in Nat \ {0} /\ s.initial \in Nat
         /\ s.previous \in Nat /\ s.observed \in Nat /\ s.fits \in BOOLEAN
         /\ s.exact <= MaxUsize /\ s.observed <= MaxUsize /\ s.initial <= MaxUsize
  BY WindowAssumption DEF Schedulers

\* The budget buys budget / estimate rows.
LEMMA Affordable ==
    ASSUME NEW b \in Nat, NEW e \in Nat \ {0}
    PROVE  b \div e \in Nat /\ (b \div e) * e <= b
  OBVIOUS

\* More rows take more bytes.
LEMMA MulMonotone ==
    ASSUME NEW x \in Nat, NEW y \in Nat, NEW e \in Nat, x <= y
    PROVE  x * e <= y * e
  OBVIOUS

\* Cutting the remainder off leaves a multiple.
LEMMA Multiple ==
    ASSUME NEW n \in Nat, NEW a \in Nat \ {0}
    PROVE  /\ n % a \in Nat /\ n % a < a /\ n - (n % a) \in Nat
           /\ (n - (n % a)) % a = 0
  <1>1. PICK q \in Nat, r \in Nat : q = n \div a /\ r = n % a /\ n = a * q + r /\ r < a
    OBVIOUS
  <1>2. n - r = a * q /\ a * q \in Nat
    BY <1>1
  <1>3. (a * q) % a = 0
    OBVIOUS
  <1>. QED  BY <1>1, <1>2, <1>3

\* The boundary granularity of a window is at most the window.
LEMMA Alignment ==
    ASSUME NEW n \in Nat \ {0}
    PROVE  export_alignment_rows(n) \in Nat \ {0} /\ export_alignment_rows(n) <= n
  <1>. DEFINE clamped == Least(Greatest(n, 1), Granule)
  <1>1. clamped \in 1..Granule /\ clamped \in Nat /\ clamped <= n
    BY Numbers DEF Least, Greatest
  <1>. HIDE DEF clamped
  <1>2. \E a \in Alignments : a <= clamped /\ clamped < 2 * a
    BY <1>1, WindowAssumption, Zenon
  <1>3. /\ export_alignment_rows(n) \in Alignments
        /\ export_alignment_rows(n) <= clamped
    BY <1>2 DEF export_alignment_rows, clamped
  <1>4. \A a \in Alignments : a \in Nat \ {0}
    BY WindowAssumption
  <1>. QED  BY <1>1, <1>3, <1>4

\* The rows aimed at: at least one, at most what the budget buys, a granule
\* known to fit, and the growth limit.
LEMMA TargetBounds ==
    ASSUME NEW s \in Schedulers
    PROVE  /\ Target(s) \in Nat \ {0}
           /\ Target(s) = 1 \/ Target(s) <= s.budget \div s.estimate \/ (s.fits /\ Target(s) <= Granule)
           /\ s.previous # None => Target(s) <= s.previous * MaxGrowth
  <1>1. s.budget \div s.estimate \in Nat
    BY Numbers, Affordable
  <1>2. s.previous * MaxGrowth \in Nat /\ (s.previous # None => s.previous * MaxGrowth > 0)
    BY Numbers DEF None
  <1>. DEFINE bought     == s.budget \div s.estimate
              grown      == s.previous * MaxGrowth
              affordable == Greatest(Greatest(bought, 1), IF s.fits THEN Granule ELSE 1)
              limit      == IF s.previous = None THEN OrElse(s.initial, MaxUsize) ELSE Saturate(grown)
  <1>3. Target(s) = Least(affordable, limit)
    BY DEF Target
  <1>. HIDE DEF bought, grown
  <1>4. bought \in Nat /\ grown \in Nat /\ (s.previous # None => grown > 0)
    BY <1>1, <1>2 DEF bought, grown
  <1>5. /\ affordable \in Nat \ {0}
        /\ affordable = 1 \/ affordable <= bought \/ (s.fits /\ affordable <= Granule)
    BY <1>4, Numbers DEF Greatest
  <1>6. limit \in Nat \ {0} /\ (s.previous # None => limit <= grown)
    BY <1>4, Numbers DEF OrElse, Saturate, Least, None
  <1>. HIDE DEF affordable, limit
  <1>. QED  BY <1>3, <1>4, <1>5, <1>6, Numbers DEF Least, bought, grown

\* Below usize::MAX the aligned end lies beyond the rows observed so far.
LEMMA EndBounds ==
    ASSUME NEW s \in Schedulers
    PROVE  /\ AlignedEnd(s) \in Nat /\ AlignedEnd(s) <= s.observed + Target(s)
           /\ AlignedEnd(s) <= MaxUsize
           /\ s.observed + Target(s) <= MaxUsize =>
                /\ AlignedEnd(s) > s.observed
                /\ AlignedEnd(s) % export_alignment_rows(Target(s)) = 0
  <1>1. PICK t \in Nat \ {0}, o \in Nat : t = Target(s) /\ o = s.observed
    BY TargetBounds, Numbers
  <1>2. PICK a \in Nat \ {0} : a = export_alignment_rows(t) /\ a <= t
    BY <1>1, Alignment
  <1>3. PICK end \in Nat : end = Saturate(o + t)
    BY <1>1, Numbers DEF Saturate, Least
  <1>4. end <= o + t /\ end <= MaxUsize /\ (o + t <= MaxUsize => end = o + t)
    BY <1>1, <1>3, Numbers DEF Saturate, Least
  <1>5. AlignedEnd(s) = end - (end % a)
    BY <1>1, <1>2, <1>3 DEF AlignedEnd
  <1>6. /\ end % a \in Nat /\ end % a < a /\ end - (end % a) \in Nat
        /\ (end - (end % a)) % a = 0
    BY Multiple, Zenon
  <1>7. (end - (end % a)) % export_alignment_rows(Target(s)) = 0
    BY <1>1, <1>2, <1>6
  <1>. QED  BY <1>1, <1>2, <1>3, <1>4, <1>5, <1>6, <1>7, Numbers

\* next_rows asks for some of the remaining rows, within the representable.
LEMMA RowsBounds ==
    ASSUME NEW s \in Schedulers, NEW remaining \in Nat \ {0}
    PROVE  /\ next_rows(s, remaining) \in 1..remaining /\ next_rows(s, remaining) <= MaxUsize
           /\ s.exact = None =>
                /\ next_rows(s, remaining) <= Greatest(AlignedEnd(s) - s.observed, 1)
                /\ \/ next_rows(s, remaining) = Greatest(AlignedEnd(s) - s.observed, 1)
                   \/ next_rows(s, remaining) = remaining
                   \/ next_rows(s, remaining) = MaxUsize
  <1>1. PICK k \in Nat \ {0} :
          k = IF s.exact # None THEN s.exact ELSE Greatest(AlignedEnd(s) - s.observed, 1)
    BY EndBounds, Numbers DEF Greatest, None
  <1>2. next_rows(s, remaining) = Least(k, Saturate(remaining))
    BY <1>1 DEF next_rows
  <1>3. Saturate(remaining) \in {remaining, MaxUsize} /\ Saturate(remaining) \in Nat \ {0}
        /\ Saturate(remaining) <= remaining /\ Saturate(remaining) <= MaxUsize
    BY Numbers DEF Saturate, Least
  <1>4. /\ next_rows(s, remaining) \in Nat \ {0} /\ next_rows(s, remaining) <= k
        /\ next_rows(s, remaining) \in {k, remaining, MaxUsize}
        /\ next_rows(s, remaining) <= remaining /\ next_rows(s, remaining) <= MaxUsize
    BY <1>1, <1>2, <1>3, Numbers DEF Least
  <1>. QED  BY <1>1, <1>4

\* ReadWindowScheduler::next_rows, for every budget, estimate and alignment: the
\* request stays within the budget and the growth limit and ends on an export
\* boundary.
LEMMA WindowIsGood ==
    ASSUME NEW s \in Schedulers, NEW remaining \in Nat \ {0}
    PROVE  GoodWindow(s, next_rows(s, remaining), remaining)
  <1>. DEFINE rows == next_rows(s, remaining)
  <1>1. rows \in 1..remaining /\ rows \in Nat \ {0} /\ rows <= MaxUsize
    BY RowsBounds
  <1>2. ASSUME s.exact = None
        PROVE  /\ rows = 1 \/ rows * s.estimate <= s.budget \/ (s.fits /\ rows <= Granule)
               /\ s.previous # None => rows <= s.previous * MaxGrowth
               /\ rows < remaining /\ s.observed + Target(s) <= MaxUsize
                    => (s.observed + rows) % export_alignment_rows(Target(s)) = 0
    <2>. HIDE DEF rows
    <2>1. PICK t \in Nat \ {0}, o \in Nat, b \in Nat, e \in Nat \ {0} :
             t = Target(s) /\ o = s.observed /\ b = s.budget /\ e = s.estimate
      BY TargetBounds, Numbers
    <2>2. PICK end \in Nat : /\ end = AlignedEnd(s) /\ end <= o + t /\ end <= MaxUsize
                             /\ o + t <= MaxUsize => end > o
      BY <2>1, EndBounds
    <2>3. /\ rows <= Greatest(end - o, 1)
          /\ rows = Greatest(end - o, 1) \/ rows = remaining \/ rows = MaxUsize
      BY <1>2, <2>1, <2>2, RowsBounds DEF rows
    <2>4. rows <= t
      BY <1>1, <2>1, <2>2, <2>3 DEF Greatest
    <2>5. rows = 1 \/ rows * e <= b \/ (s.fits /\ rows <= Granule)
      <3>1. t = 1 \/ t <= b \div e \/ (s.fits /\ t <= Granule)
        BY <2>1, TargetBounds
      <3>2. b \div e \in Nat /\ (b \div e) * e <= b
        BY <2>1, Affordable
      <3>3. rows <= b \div e => rows * e <= (b \div e) * e
        BY <1>1, <2>1, <3>2, MulMonotone
      <3>4. rows * e \in Nat /\ (b \div e) * e \in Nat
        BY <1>1, <2>1, <3>2
      <3>. QED  BY <1>1, <2>1, <2>4, <3>1, <3>2, <3>3, <3>4, Numbers
    <2>6. s.previous # None => rows <= s.previous * MaxGrowth
      <3>1. s.previous # None => t <= s.previous * MaxGrowth
        BY <2>1, TargetBounds
      <3>2. s.previous * MaxGrowth \in Nat
        BY Numbers
      <3>. QED  BY <1>1, <2>1, <2>4, <3>1, <3>2
    <2>7. ASSUME rows < remaining, o + t <= MaxUsize
          PROVE  (o + rows) % export_alignment_rows(t) = 0
      <3>1. o + rows = end
        BY <1>1, <2>1, <2>2, <2>3, <2>4, <2>7, Numbers DEF Greatest
      <3>2. end % export_alignment_rows(t) = 0
        BY <2>1, <2>2, <2>7, EndBounds
      <3>. QED  BY <3>1, <3>2
    <2>. QED  BY <2>1, <2>5, <2>6, <2>7
  <1>. QED  BY <1>1, <1>2 DEF GoodWindow

\* What a scheduler learns keeps it a scheduler.
LEMMA SchedulerSteps ==
    ASSUME NEW s \in Schedulers, NEW bytes \in Nat, NEW rows \in Nat
    PROVE  /\ observe(s, bytes, rows) \in Schedulers
           /\ rows <= MaxUsize => Requested(s, rows) \in Schedulers
  <1>1. Saturate(s.observed + rows) \in 0..MaxUsize
    BY Numbers DEF Saturate, Least
  <1>2. ASSUME rows > 0
        PROVE  Greatest(Saturate(bytes + rows - 1) \div rows, 1) \in 1..MaxUsize
    <2>1. PICK n \in Nat : n = Saturate(bytes + rows - 1) /\ n <= MaxUsize
      BY <1>2, Numbers DEF Saturate, Least
    <2>2. n \div rows \in Nat /\ (n \div rows) * rows <= n
      BY <1>2, <2>1, Affordable
    <2>3. n \div rows <= (n \div rows) * rows
      BY <1>2, <2>2
    <2>4. n \div rows <= MaxUsize
      BY <2>1, <2>2, <2>3, Numbers
    <2>. QED  BY <2>1, <2>2, <2>4, Numbers DEF Greatest
  <1>3. observe(s, bytes, rows) \in Schedulers
    BY <1>1, <1>2, Zenon DEF observe, Schedulers
  <1>4. rows <= MaxUsize => Requested(s, rows) \in Schedulers
    BY DEF Requested, Schedulers
  <1>. QED  BY <1>3, <1>4

-----------------------------------------------------------------------------
(* Messages.                                                                *)

Messages == Frames \cup {Failure, NoFrame}

\* Frames, errors and the absence of both are told apart by their kind.
LEMMA Kinds ==
    /\ \A m \in Frames : /\ m.kind = "frame" /\ m # Failure /\ m # NoFrame
                         /\ m.start \in Nat /\ m.rows \in Nat /\ m.rows <= MaxTotal
    /\ Failure.kind = "error" /\ NoFrame.kind = "none" /\ Failure # NoFrame
  BY ReaderAssumption DEF Frames, Failure, NoFrame

\* sync_channel(1): empty, or one message.
LEMMA OnePlace ==
    /\ channel # <<>> /\ channel = <<channel[1]>> =>
         Head(channel) = channel[1] /\ Tail(channel) = <<>> /\ Len(channel) = 1 /\ ~Room
    /\ channel = <<>> => Len(channel) = 0 /\ Room
    /\ \A m : Append(<<>>, m) = <<m>> /\ <<m>> # <<>> /\ <<m>>[1] = m /\ Len(<<m>>) = 1
  <1>1. ASSUME NEW m PROVE Head(<<m>>) = m /\ Tail(<<m>>) = <<>> /\ Len(<<m>>) = 1
    OBVIOUS
  <1>2. ASSUME NEW m PROVE Append(<<>>, m) = <<m>> /\ <<m>> # <<>> /\ <<m>>[1] = m
    OBVIOUS
  <1>3. channel = <<>> => Len(channel) = 0 /\ Room
    BY DEF Room
  <1>4. ASSUME channel = <<channel[1]>>
        PROVE  Head(channel) = channel[1] /\ Tail(channel) = <<>> /\ Len(channel) = 1
    BY <1>1, <1>4, Zenon
  <1>5. Len(channel) = 1 => ~Room
    BY DEF Room
  <1>. QED  BY <1>1, <1>2, <1>3, <1>4, <1>5, Zenon

\* A batch extends what was handed over.
LEMMA Extended ==
    ASSUME NEW k \in Nat, NEW start \in Nat, out \in Seq(Nat)
    PROVE  LET more == out \o [i \in 1..k |-> start + i - 1] IN
           more \in Seq(Nat) /\ Len(more) = Len(out) + k
  <1>1. [i \in 1..k |-> start + i - 1] \in Seq(Nat) /\ Len([i \in 1..k |-> start + i - 1]) = k
    OBVIOUS
  <1>. QED  BY <1>1, ConcatProperties

\* Frames in the channel.
Buffered == Len(channel)

\* send, by what it does to the channel.
LEMMA SentCases ==
    ASSUME TypeOK, Sent, message \in Frames \cup {Failure}, receiver' = receiver
    PROVE  \/ /\ receiver' /\ receiver /\ channel = <<>> /\ channel' = <<message>> /\ channel' # <<>>
              /\ channel'[1] = message /\ Buffered = 0 /\ Buffered' = 1 /\ wasted' = wasted
           \/ /\ ~receiver' /\ ~receiver /\ channel' = channel
              /\ wasted' = IF message # Failure THEN wasted + 1 ELSE wasted
  <1>1. CASE ~receiver
    BY <1>1, Kinds DEF Sent
  <1>2. CASE receiver
    <2>1. Room /\ channel' = Append(channel, message) /\ wasted' = wasted
      BY <1>2 DEF Sent
    <2>2. channel = <<>>
      BY <2>1, OnePlace DEF TypeOK
    <2>. QED  BY <1>2, <2>1, <2>2, OnePlace DEF Buffered
  <1>. QED  BY <1>1, <1>2

\* Dropping the receiver.
LEMMA DroppedCases ==
    ASSUME TypeOK, DropsReceiver
    PROVE  /\ receiver' = FALSE /\ channel' = <<>> /\ Buffered' = 0 /\ wasted' \in Nat
           /\ IF channel = <<>> THEN wasted' = wasted ELSE wasted' <= wasted + 1
<1>1. CASE channel = <<>>
  BY <1>1, OnePlace DEF TypeOK, DropsReceiver, Buffered
<1>2. CASE channel # <<>>
  BY <1>2, OnePlace DEF TypeOK, DropsReceiver, Buffered
<1>. QED  BY <1>1, <1>2, Zenon

\* recv.
LEMMA ReceivedCases ==
    ASSUME TypeOK
    PROVE  /\ channel = <<>> => Received = Failure
           /\ channel # <<>> => /\ Received = channel[1] /\ Tail(channel) = <<>>
                                /\ Received \in Frames \cup {Failure} /\ Buffered = 1
  BY OnePlace DEF TypeOK, Received, Buffered

\* The channel's part of TypeOK, after a step that changes it.
ChannelOK == channel # <<>> => channel = <<channel[1]>> /\ channel[1] \in Frames \cup {Failure}

\* It holds of an empty channel and of one with a message.
LEMMA ChannelChanges ==
    /\ channel' = <<>> => ChannelOK'
    /\ \A m \in Frames \cup {Failure} : channel' = <<m>> => ChannelOK'
    /\ TypeOK => ChannelOK
    /\ ChannelOK /\ channel' = channel => ChannelOK'
  <1>1. \A m \in Frames \cup {Failure} : channel' = <<m>> => ChannelOK'
    BY OnePlace, Zenon DEF ChannelOK
  <1>. QED  BY <1>1, Zenon DEF TypeOK, ChannelOK

\* The buffers of BuffersBounded, one by one.
Held     == IF worker \in {"fetch", "reply"} \/ (worker = "send" /\ message # Failure) THEN 1 ELSE 0
Decoding == IF rd = "decode" THEN 1 ELSE 0
Kept     == IF adopt THEN 0 ELSE recycle

\* BuffersBounded as a sum of them.
LEMMA Buffers ==
    /\ BuffersBounded <=> Held + Buffered + Decoding + Kept <= 3 /\ wasted <= 2
    /\ BuffersBounded' <=> Held' + Buffered' + Decoding' + Kept' <= 3 /\ wasted' <= 2
    /\ TypeOK => Buffered \in {0, 1} /\ (Buffered = 0 <=> channel = <<>>)
    /\ channel' = channel => Buffered' = Buffered
    /\ channel' = <<>> => Buffered' = 0
  <1>1. BuffersBounded <=> Held + Buffered + Decoding + Kept <= 3 /\ wasted <= 2
    BY Zenon DEF BuffersBounded, Held, Buffered, Decoding, Kept
  <1>2. BuffersBounded' <=> Held' + Buffered' + Decoding' + Kept' <= 3 /\ wasted' <= 2
    BY Zenon DEF BuffersBounded, Held, Buffered, Decoding, Kept
  <1>3. ASSUME TypeOK PROVE Buffered \in {0, 1} /\ (Buffered = 0 <=> channel = <<>>)
    <2>1. CASE channel = <<>>
      BY <2>1 DEF Buffered
    <2>2. CASE channel # <<>>
      <3>1. channel = <<channel[1]>>
        BY <1>3, <2>2, Zenon DEF TypeOK
      <3>2. Len(channel) = 1
        BY <2>2, <3>1, OnePlace, Zenon
      <3>. QED  BY <2>2, <3>2 DEF Buffered
    <2>. QED  BY <2>1, <2>2
  <1>4. channel' = channel => Buffered' = Buffered
    BY Zenon DEF Buffered
  <1>5. channel' = <<>> => Buffered' = 0
    BY DEF Buffered
  <1>. QED  BY <1>1, <1>2, <1>3, <1>4, <1>5

-----------------------------------------------------------------------------
(* The steps of the prefetch thread.                                        *)

\* Planning a request takes a buffer from the recycled ones or a new one.
LEMMA WorkerPlansStep ==
    ASSUME IInv, WorkerPlans
    PROVE  IInv'
  <1>. USE DEF IInv, WorkerPlans, TakesBuffer, scan, caller, told
  <1>a. total - next_row \in Nat \ {0} /\ sched \in Schedulers
    BY DEF TypeOK
  <1>b. asked' \in 1 .. total - next_row /\ asked' <= MaxUsize
    BY <1>a, RowsBounds
  <1>c. asked' \in Nat /\ asked' <= MaxTotal
    BY <1>b, ReaderAssumption DEF TypeOK
  <1>0. /\ asked' \in 1 .. total - next_row /\ asked' \in Nat /\ asked' <= MaxTotal
        /\ sched' \in Schedulers
    <2>1. sched' = Requested(sched, asked')
      OBVIOUS
    <2>. HIDE DEF WorkerPlans
    <2>. QED  BY <1>a, <1>b, <1>c, <2>1, SchedulerSteps
  <1>1. TypeOK'
    BY <1>0 DEF TypeOK
  <1>2. StatementInv'
    BY DEF StatementInv
  <1>3. CallerInv'
    BY DEF CallerInv, ThreadInv
  <1>4. ThreadInv'
    BY <1>0 DEF ThreadInv
  <1>5. FlowInv'
    BY DEF FlowInv, Position
  <1>6. WasteInv'
    BY DEF WasteInv
  <1>7. BuffersBounded'
    BY Buffers DEF TypeOK, Held, Decoding, Kept
  <1>. QED  BY <1>1, <1>2, <1>3, <1>4, <1>5, <1>6, <1>7

\* fetch_binary_frames returns once its position is the end of the result.
LEMMA WorkerFinishesStep ==
    ASSUME IInv, WorkerFinishes
    PROVE  IInv'
  <1>. USE DEF IInv, WorkerFinishes, WorkerReturns, scan, caller, told
  <1>1. TypeOK'
    BY DEF TypeOK
  <1>2. StatementInv'
    BY DEF StatementInv
  <1>3. CallerInv'
    BY DEF CallerInv
  <1>4. ThreadInv'
    BY DEF ThreadInv
  <1>5. FlowInv'
    BY DEF TypeOK, ThreadInv, FlowInv, Position
  <1>6. WasteInv'
    BY DEF WasteInv
  <1>7. BuffersBounded'
    BY Buffers DEF Held, Decoding, Kept
  <1>. QED  BY <1>1, <1>2, <1>3, <1>4, <1>5, <1>6, <1>7

\* The thread locks the connection for a fetch.
LEMMA WorkerTakesWireStep ==
    ASSUME IInv, WorkerTakesWire
    PROVE  IInv'
  <1>. USE DEF IInv, WorkerTakesWire, scan, pipe, caller, told
  <1>1. TypeOK'
    BY DEF TypeOK
  <1>2. StatementInv'
    BY DEF StatementInv
  <1>3. CallerInv'
    BY DEF CallerInv
  <1>4. ThreadInv'
    BY DEF ThreadInv
  <1>5. FlowInv'
    BY DEF FlowInv, Position
  <1>6. WasteInv'
    BY DEF WasteInv
  <1>7. BuffersBounded'
    BY Buffers DEF Held, Decoding, Kept
  <1>. QED  BY <1>1, <1>2, <1>3, <1>4, <1>5, <1>6, <1>7

\* An error of the server, or a timeout, is a message like any other.
LEMMA WorkerFetchFailsStep ==
    ASSUME IInv, WorkerFetchFails
    PROVE  IInv'
  <1>. USE DEF IInv, WorkerFetchFails, FreesWire, scan, pipe, caller, told
  <1>1. TypeOK'
    BY DEF TypeOK
  <1>2. StatementInv'
    BY DEF StatementInv
  <1>3. CallerInv'
    BY DEF CallerInv
  <1>4. ThreadInv'
    BY Kinds DEF ThreadInv
  <1>5. FlowInv'
    BY DEF FlowInv, Position
  <1>6. WasteInv'
    BY DEF WasteInv
  <1>7. BuffersBounded'
    BY Buffers DEF TypeOK, Held, Decoding, Kept
  <1>. QED  BY <1>1, <1>2, <1>3, <1>4, <1>5, <1>6, <1>7

\* A reply is a frame at the thread's position, of at most the rows asked for,
\* or fails the header checks.
LEMMA WorkerFetchesStep ==
    ASSUME IInv, WorkerFetches
    PROVE  IInv'
  <1>. USE DEF IInv, WorkerFetches, FreesWire, scan, pipe, caller, told
  <1>a. asked \in Nat /\ asked >= 1 /\ asked <= total - next_row /\ total \in Nat /\ total <= MaxTotal
        /\ next_row \in Nat /\ sched \in Schedulers
    BY DEF TypeOK, ThreadInv
  <1>0. /\ sched' \in Schedulers
        /\ \/ message' = Failure
           \/ /\ message' \in Frames /\ message'.start = next_row
              /\ message'.rows \in Nat /\ message'.rows <= total - next_row
    <2>1. PICK start \in {next_row, next_row + 1}, rows \in 0..asked + 1, id \in {"ours", "other"},
               intact \in BOOLEAN, width \in RowBytes :
            IF HeaderValid(id, start, rows)
            THEN /\ message' = [ kind |-> "frame", start |-> next_row, asked |-> asked,
                                 rows |-> rows, intact |-> intact ]
                 /\ sched' = observe(sched, width * rows, rows)
            ELSE message' = Failure /\ UNCHANGED sched
      OBVIOUS
    <2>2. rows \in Nat /\ width \in Nat /\ width * rows \in Nat
      BY ReaderAssumption
    <2>3. CASE HeaderValid(id, start, rows)
      <3>1. rows <= asked
        BY <2>3 DEF HeaderValid
      <3>2. sched' \in Schedulers
        BY <1>a, <2>1, <2>2, <2>3, SchedulerSteps
      <3>3. message' \in Frames /\ message'.start = next_row /\ message'.rows = rows
        BY <1>a, <2>1, <2>2, <2>3, <3>1, ReaderAssumption DEF Frames
      <3>. QED  BY <1>a, <2>2, <3>1, <3>2, <3>3
    <2>. QED  BY <1>a, <2>1, <2>3
  <1>1. TypeOK'
    BY <1>0 DEF TypeOK
  <1>2. StatementInv'
    BY DEF StatementInv
  <1>3. CallerInv'
    BY DEF CallerInv
  <1>4. ThreadInv'
    BY <1>0, Kinds DEF ThreadInv
  <1>5. FlowInv'
    BY DEF FlowInv, Position
  <1>6. WasteInv'
    BY DEF WasteInv
  <1>7. BuffersBounded'
    BY Buffers DEF TypeOK, Held, Decoding, Kept
  <1>. QED  BY <1>1, <1>2, <1>3, <1>4, <1>5, <1>6, <1>7

\* send moves the frame into the channel and the position past it, or ends the
\* thread.
LEMMA WorkerSendsStep ==
    ASSUME IInv, WorkerSends
    PROVE  IInv'
  <1>. USE DEF IInv, WorkerSends, WorkerReturns, Advanced, scan, caller, told
  <1>a. message \in Frames \cup {Failure}
    BY DEF TypeOK, ThreadInv
  <1>0. \/ /\ receiver' /\ receiver /\ channel = <<>> /\ channel' = <<message>> /\ channel' # <<>>
           /\ channel'[1] = message /\ Buffered = 0 /\ Buffered' = 1 /\ wasted' = wasted
        \/ /\ ~receiver' /\ ~receiver /\ channel' = channel
           /\ wasted' = IF message # Failure THEN wasted + 1 ELSE wasted
    BY <1>a, SentCases
  <1>w. wasted' \in Nat
    BY <1>0 DEF TypeOK
  <1>t. ChannelOK' /\ wasted' \in Nat
    BY <1>0, <1>a, <1>w, ChannelChanges, Zenon
  <1>1. TypeOK'
    BY <1>t, Kinds, ReaderAssumption, SMTT(30) DEF TypeOK, ChannelOK, ThreadInv
  <1>2. StatementInv'
    BY DEF StatementInv
  <1>3. CallerInv'
    BY DEF CallerInv
  <1>4. ThreadInv'
    BY <1>0, Kinds DEF TypeOK, ThreadInv
  <1>5. FlowInv'
    BY <1>a, <1>0, Kinds DEF CallerInv, ThreadInv, FlowInv, Position
  <1>6. WasteInv'
    BY <1>0 DEF WasteInv
  <1>7. BuffersBounded'
    BY <1>0, Kinds, Buffers DEF TypeOK, WasteInv, Held, Decoding, Kept
  <1>. QED  BY <1>1, <1>2, <1>3, <1>4, <1>5, <1>6, <1>7

\* The panic handler has an error to report.
LEMMA WorkerPanicsStep ==
    ASSUME IInv, WorkerPanics
    PROVE  IInv'
  <1>. USE DEF IInv, WorkerPanics, scan, caller, told
  <1>1. TypeOK'
    BY DEF TypeOK
  <1>2. StatementInv'
    BY DEF StatementInv
  <1>3. CallerInv'
    BY DEF CallerInv
  <1>4. ThreadInv'
    BY DEF ThreadInv
  <1>5. FlowInv'
    BY DEF FlowInv, Position
  <1>6. WasteInv'
    BY DEF WasteInv
  <1>7. BuffersBounded'
    BY Buffers DEF Held, Decoding, Kept
  <1>. QED  BY <1>1, <1>2, <1>3, <1>4, <1>5, <1>6, <1>7

\* It reports the panic through the same channel.
LEMMA WorkerReportsStep ==
    ASSUME IInv, WorkerReports
    PROVE  IInv'
  <1>. USE DEF IInv, WorkerReports, scan, caller, told
  <1>a. message \in Frames \cup {Failure}
    BY DEF ThreadInv
  <1>0. \/ /\ receiver' /\ receiver /\ channel = <<>> /\ channel' = <<message>> /\ channel' # <<>>
           /\ channel'[1] = message /\ Buffered = 0 /\ Buffered' = 1 /\ wasted' = wasted
        \/ /\ ~receiver' /\ ~receiver /\ channel' = channel
           /\ wasted' = IF message # Failure THEN wasted + 1 ELSE wasted
    BY <1>a, SentCases
  <1>w. wasted' \in Nat
    BY <1>0 DEF TypeOK
  <1>t. ChannelOK' /\ wasted' \in Nat
    BY <1>0, <1>a, <1>w, ChannelChanges, Zenon
  <1>1. TypeOK'
    BY <1>t DEF TypeOK, ChannelOK
  <1>2. StatementInv'
    BY DEF StatementInv
  <1>3. CallerInv'
    BY DEF CallerInv
  <1>4. ThreadInv'
    BY <1>0 DEF ThreadInv
  <1>5. FlowInv'
    BY <1>0 DEF ThreadInv, FlowInv, Position
  <1>6. WasteInv'
    BY <1>0 DEF WasteInv
  <1>7. BuffersBounded'
    BY <1>0, Buffers DEF ThreadInv, Held, Decoding, Kept
  <1>. QED  BY <1>1, <1>2, <1>3, <1>4, <1>5, <1>6, <1>7

\* The completion message changes nothing a caller of next() sees.
LEMMA WorkerCompletesStep ==
    ASSUME IInv, WorkerCompletes
    PROVE  IInv'
  <1>. USE DEF IInv, WorkerCompletes, scan, pipe, caller, told
  <1>1. TypeOK'
    BY DEF TypeOK
  <1>2. StatementInv'
    BY DEF StatementInv
  <1>3. CallerInv'
    BY DEF CallerInv
  <1>4. ThreadInv'
    BY DEF ThreadInv
  <1>5. FlowInv'
    BY DEF FlowInv, Position
  <1>6. WasteInv'
    BY DEF WasteInv
  <1>7. BuffersBounded'
    BY Buffers DEF Held, Decoding, Kept
  <1>. QED  BY <1>1, <1>2, <1>3, <1>4, <1>5, <1>6, <1>7

-----------------------------------------------------------------------------
(* The steps of the caller and of other statements.                         *)

\* A frame that does not decode ends the stream.
LEMMA DecodeFailsStep ==
    ASSUME IInv, DecodeFails
    PROVE  IInv'
  <1>. USE DEF IInv, DecodeFails, Recycles, Fails, scan, thread
  <1>0. /\ receiver' = FALSE /\ channel' = <<>> /\ Buffered' = 0 /\ wasted' \in Nat
        /\ IF channel = <<>> THEN wasted' = wasted ELSE wasted' <= wasted + 1
    BY DroppedCases
  <1>t. ChannelOK' /\ receiver' \in BOOLEAN /\ wasted' \in Nat
    BY <1>0, ChannelChanges, Zenon
  <1>1. TypeOK'
    BY <1>t DEF TypeOK, ChannelOK
  <1>2. StatementInv'
    BY DEF StatementInv
  <1>3. CallerInv'
    BY DEF CallerInv
  <1>4. ThreadInv'
    BY <1>0 DEF ThreadInv
  <1>5. FlowInv'
    BY <1>0 DEF FlowInv, Position
  <1>6. WasteInv'
    BY <1>0 DEF ThreadInv, WasteInv
  <1>7. BuffersBounded'
    BY <1>0, Buffers DEF TypeOK, ThreadInv, WasteInv, Held, Decoding, Kept
  <1>. QED  BY <1>1, <1>2, <1>3, <1>4, <1>5, <1>6, <1>7

\* So does a panic of the decoder.
LEMMA DecodePanicsStep ==
    ASSUME IInv, DecodePanics
    PROVE  IInv'
  <1>. USE DEF IInv, DecodePanics, Fails, scan, thread
  <1>0. /\ receiver' = FALSE /\ channel' = <<>> /\ Buffered' = 0 /\ wasted' \in Nat
        /\ IF channel = <<>> THEN wasted' = wasted ELSE wasted' <= wasted + 1
    BY DroppedCases
  <1>t. ChannelOK' /\ receiver' \in BOOLEAN /\ wasted' \in Nat
    BY <1>0, ChannelChanges, Zenon
  <1>1. TypeOK'
    BY <1>t DEF TypeOK, ChannelOK
  <1>2. StatementInv'
    BY DEF StatementInv
  <1>3. CallerInv'
    BY DEF CallerInv
  <1>4. ThreadInv'
    BY <1>0 DEF ThreadInv
  <1>5. FlowInv'
    BY <1>0 DEF FlowInv, Position
  <1>6. WasteInv'
    BY <1>0 DEF ThreadInv, WasteInv
  <1>7. BuffersBounded'
    BY <1>0, Buffers DEF TypeOK, ThreadInv, WasteInv, Held, Decoding, Kept
  <1>. QED  BY <1>1, <1>2, <1>3, <1>4, <1>5, <1>6, <1>7

\* BinaryReader locks the connection on the caller's thread.
LEMMA DirectTakesWireStep ==
    ASSUME IInv, DirectTakesWire
    PROVE  IInv'
  <1>. USE DEF IInv, DirectTakesWire, scan, thread, pipe, told
  <1>1. TypeOK'
    BY DEF TypeOK
  <1>2. StatementInv'
    BY DEF StatementInv
  <1>3. CallerInv'
    BY DEF CallerInv
  <1>4. ThreadInv'
    BY DEF ThreadInv
  <1>5. FlowInv'
    BY DEF FlowInv, Position
  <1>6. WasteInv'
    BY DEF WasteInv
  <1>7. BuffersBounded'
    BY Buffers DEF Held, Decoding, Kept
  <1>. QED  BY <1>1, <1>2, <1>3, <1>4, <1>5, <1>6, <1>7

\* It hands over the rows of the reply.
LEMMA DirectFetchesStep ==
    ASSUME IInv, DirectFetches
    PROVE  IInv'
  <1>. USE DEF IInv, DirectFetches, FreesWire, scan, thread, pipe
  <1>0. /\ sched' \in Schedulers /\ decoded' \in Nat /\ decoded' <= total
        /\ out' \in Seq(Nat) /\ Len(out') = decoded'
    <2>1. PICK rows \in 1..asked, width \in RowBytes :
             /\ Hands(decoded, rows) /\ decoded' = decoded + rows
             /\ sched' = observe(sched, width * rows, asked)
      OBVIOUS
    <2>2. /\ rows \in Nat /\ asked \in Nat /\ rows <= asked /\ asked <= total - decoded
          /\ decoded \in Nat /\ total \in Nat /\ width * rows \in Nat /\ Len(out) = decoded
      BY <2>1, ReaderAssumption, SMTT(30) DEF TypeOK, CallerInv
    <2>3. sched' \in Schedulers
      BY <2>1, <2>2, SchedulerSteps DEF TypeOK
    <2>4. out' \in Seq(Nat) /\ Len(out') = Len(out) + rows
      BY <2>1, <2>2, Extended, ZenonT(30) DEF TypeOK, Hands
    <2>. QED  BY <2>1, <2>2, <2>3, <2>4
  <1>1. TypeOK'
    BY <1>0, ReaderAssumption DEF TypeOK
  <1>2. StatementInv'
    BY DEF StatementInv
  <1>3. CallerInv'
    BY <1>0 DEF CallerInv
  <1>4. ThreadInv'
    BY DEF ThreadInv
  <1>5. FlowInv'
    BY DEF CallerInv, ThreadInv, FlowInv, Position
  <1>6. WasteInv'
    BY DEF WasteInv
  <1>7. BuffersBounded'
    BY Buffers DEF Held, Decoding, Kept
  <1>. QED  BY <1>1, <1>2, <1>3, <1>4, <1>5, <1>6, <1>7

\* An error of a direct fetch ends the stream.
LEMMA DirectFailsStep ==
    ASSUME IInv, DirectFails
    PROVE  IInv'
  <1>. USE DEF IInv, DirectFails, FreesWire, Fails, scan, thread, pipe
  <1>1. TypeOK'
    BY DEF TypeOK
  <1>2. StatementInv'
    BY DEF StatementInv
  <1>3. CallerInv'
    BY DEF CallerInv
  <1>4. ThreadInv'
    BY DEF ThreadInv
  <1>5. FlowInv'
    BY DEF FlowInv, Position
  <1>6. WasteInv'
    BY DEF WasteInv
  <1>7. BuffersBounded'
    BY Buffers DEF Held, Decoding, Kept
  <1>. QED  BY <1>1, <1>2, <1>3, <1>4, <1>5, <1>6, <1>7

\* Drop waits for the completion message,
LEMMA DropJoinsStep ==
    ASSUME IInv, DropJoins
    PROVE  IInv'
  <1>. USE DEF IInv, DropJoins, scan, thread, pipe, told
  <1>1. TypeOK'
    BY DEF TypeOK
  <1>2. StatementInv'
    BY DEF StatementInv
  <1>3. CallerInv'
    BY DEF CallerInv
  <1>4. ThreadInv'
    BY DEF ThreadInv
  <1>5. FlowInv'
    BY DEF FlowInv, Position
  <1>6. WasteInv'
    BY DEF WasteInv
  <1>7. BuffersBounded'
    BY Buffers DEF Held, Decoding, Kept
  <1>. QED  BY <1>1, <1>2, <1>3, <1>4, <1>5, <1>6, <1>7

\* or leaves the thread to itself.
LEMMA DropDetachesStep ==
    ASSUME IInv, DropDetaches
    PROVE  IInv'
  <1>. USE DEF IInv, DropDetaches, scan, thread, pipe, told
  <1>1. TypeOK'
    BY DEF TypeOK
  <1>2. StatementInv'
    BY DEF StatementInv
  <1>3. CallerInv'
    BY DEF CallerInv
  <1>4. ThreadInv'
    BY DEF ThreadInv
  <1>5. FlowInv'
    BY DEF FlowInv, Position
  <1>6. WasteInv'
    BY DEF WasteInv
  <1>7. BuffersBounded'
    BY Buffers DEF Held, Decoding, Kept
  <1>. QED  BY <1>1, <1>2, <1>3, <1>4, <1>5, <1>6, <1>7

\* next() after the end, or after an error, drops the receiver.
LEMMA NextIsNoneStep ==
    ASSUME IInv, NextIsNone
    PROVE  IInv'
  <1>. USE DEF IInv, NextIsNone, scan, thread
  <1>0. /\ receiver' = FALSE /\ channel' = <<>> /\ Buffered' = 0 /\ wasted' \in Nat
        /\ IF channel = <<>> THEN wasted' = wasted ELSE wasted' <= wasted + 1
    BY DroppedCases
  <1>t. ChannelOK' /\ receiver' \in BOOLEAN /\ wasted' \in Nat
    BY <1>0, ChannelChanges, Zenon
  <1>1. TypeOK'
    BY <1>t DEF TypeOK, ChannelOK
  <1>2. StatementInv'
    BY DEF StatementInv
  <1>3. CallerInv'
    BY DEF TypeOK, CallerInv
  <1>4. ThreadInv'
    BY <1>0 DEF ThreadInv
  <1>5. FlowInv'
    BY <1>0 DEF FlowInv, Position
  <1>6. WasteInv'
    BY <1>0 DEF ThreadInv, WasteInv
  <1>7. BuffersBounded'
    BY <1>0, Buffers DEF TypeOK, ThreadInv, WasteInv, Held, Decoding, Kept
  <1>. QED  BY <1>1, <1>2, <1>3, <1>4, <1>5, <1>6, <1>7

\* SlicedBatchReader hands over the next slice of its batch.
LEMMA NextSliceStep ==
    ASSUME IInv, NextSlice
    PROVE  IInv'
  <1>. USE DEF IInv, NextSlice, scan, thread, pipe
  <1>0. /\ decoded' \in Nat /\ decoded' <= total /\ decoded' > decoded
        /\ out' \in Seq(Nat) /\ Len(out') = decoded'
    <2>1. PICK rows \in Nat \ {0} : /\ rows = Least(OrElse(sched.exact, total), total - decoded)
                                    /\ rows <= total - decoded
      BY Numbers DEF TypeOK, Least, OrElse, None
    <2>2. Hands(decoded, rows) /\ decoded' = decoded + rows /\ decoded \in Nat /\ Len(out) = decoded
      BY <2>1 DEF CallerInv
    <2>3. out' \in Seq(Nat) /\ Len(out') = Len(out) + rows
      BY <2>1, <2>2, Extended DEF TypeOK, Hands
    <2>. QED  BY <2>1, <2>2, <2>3 DEF TypeOK
  <1>1. TypeOK'
    BY <1>0, ReaderAssumption DEF TypeOK
  <1>2. StatementInv'
    BY DEF StatementInv
  <1>3. CallerInv'
    BY <1>0 DEF CallerInv
  <1>4. ThreadInv'
    BY DEF ThreadInv
  <1>5. FlowInv'
    BY DEF ThreadInv, FlowInv, Position
  <1>6. WasteInv'
    BY DEF WasteInv
  <1>7. BuffersBounded'
    BY Buffers DEF Held, Decoding, Kept
  <1>. QED  BY <1>1, <1>2, <1>3, <1>4, <1>5, <1>6, <1>7

\* next() goes to recv only while the receiver is there.
LEMMA NextPrefetchedStep ==
    ASSUME IInv, NextPrefetched
    PROVE  IInv'
  <1>. USE DEF IInv, NextPrefetched, scan, thread, pipe, told
  <1>1. TypeOK'
    BY DEF TypeOK
  <1>2. StatementInv'
    BY DEF StatementInv
  <1>3. CallerInv'
    BY DEF CallerInv
  <1>4. ThreadInv'
    BY DEF ThreadInv
  <1>5. FlowInv'
    BY DEF FlowInv, Position
  <1>6. WasteInv'
    BY DEF WasteInv
  <1>7. BuffersBounded'
    BY Buffers DEF Held, Decoding, Kept
  <1>. QED  BY <1>1, <1>2, <1>3, <1>4, <1>5, <1>6, <1>7

\* BinaryReader plans a request for rows that are left.
LEMMA NextDirectStep ==
    ASSUME IInv, NextDirect
    PROVE  IInv'
  <1>. USE DEF IInv, NextDirect, scan, pipe, told
  <1>a. total - decoded \in Nat \ {0} /\ sched \in Schedulers
    BY DEF TypeOK
  <1>b. asked' \in 1 .. total - decoded /\ asked' <= MaxUsize
    BY <1>a, RowsBounds
  <1>c. asked' \in Nat /\ asked' <= MaxTotal
    BY <1>b, ReaderAssumption DEF TypeOK
  <1>0. /\ asked' \in 1 .. total - decoded /\ asked' \in Nat /\ asked' <= MaxTotal
        /\ sched' \in Schedulers
    <2>1. sched' = Requested(sched, asked')
      OBVIOUS
    <2>. HIDE DEF NextDirect
    <2>. QED  BY <1>a, <1>b, <1>c, <2>1, SchedulerSteps
  <1>1. TypeOK'
    BY <1>0 DEF TypeOK
  <1>2. StatementInv'
    BY DEF StatementInv
  <1>3. CallerInv'
    BY <1>0 DEF CallerInv
  <1>4. ThreadInv'
    BY DEF ThreadInv
  <1>5. FlowInv'
    BY DEF FlowInv, Position
  <1>6. WasteInv'
    BY DEF WasteInv
  <1>7. BuffersBounded'
    BY Buffers DEF Held, Decoding, Kept
  <1>. QED  BY <1>1, <1>2, <1>3, <1>4, <1>5, <1>6, <1>7

\* Dropping the reader drops the receiver first.
LEMMA DropsStep ==
    ASSUME IInv, Drops
    PROVE  IInv'
  <1>. USE DEF IInv, Drops, scan, thread, told
  <1>0. /\ receiver' = FALSE /\ channel' = <<>> /\ Buffered' = 0 /\ wasted' \in Nat
        /\ IF channel = <<>> THEN wasted' = wasted ELSE wasted' <= wasted + 1
    BY DroppedCases
  <1>t. ChannelOK' /\ receiver' \in BOOLEAN /\ wasted' \in Nat
    BY <1>0, ChannelChanges, Zenon
  <1>1. TypeOK'
    BY <1>t DEF TypeOK, ChannelOK
  <1>2. StatementInv'
    BY DEF StatementInv
  <1>3. CallerInv'
    BY DEF CallerInv
  <1>4. ThreadInv'
    BY <1>0 DEF ThreadInv
  <1>5. FlowInv'
    BY <1>0 DEF FlowInv, Position
  <1>6. WasteInv'
    BY <1>0 DEF ThreadInv, WasteInv
  <1>7. BuffersBounded'
    BY <1>0, Buffers DEF TypeOK, ThreadInv, WasteInv, Held, Decoding, Kept
  <1>. QED  BY <1>1, <1>2, <1>3, <1>4, <1>5, <1>6, <1>7

\* Another statement of the connection waits for the wire,
LEMMA StatementWaitsStep ==
    ASSUME IInv, StatementWaits
    PROVE  IInv'
  <1>. USE DEF IInv, StatementWaits, scan, thread, pipe, caller, told
  <1>1. TypeOK'
    BY DEF TypeOK
  <1>2. StatementInv'
    BY DEF StatementInv
  <1>3. CallerInv'
    BY DEF CallerInv
  <1>4. ThreadInv'
    BY DEF ThreadInv
  <1>5. FlowInv'
    BY DEF FlowInv, Position
  <1>6. WasteInv'
    BY DEF WasteInv
  <1>7. BuffersBounded'
    BY Buffers DEF Held, Decoding, Kept
  <1>. QED  BY <1>1, <1>2, <1>3, <1>4, <1>5, <1>6, <1>7

\* takes it
LEMMA StatementTakesWireStep ==
    ASSUME IInv, StatementTakesWire
    PROVE  IInv'
  <1>. USE DEF IInv, StatementTakesWire, scan, thread, pipe, caller, told
  <1>1. TypeOK'
    BY DEF TypeOK
  <1>2. StatementInv'
    BY DEF StatementInv
  <1>3. CallerInv'
    BY DEF CallerInv
  <1>4. ThreadInv'
    BY DEF ThreadInv
  <1>5. FlowInv'
    BY DEF FlowInv, Position
  <1>6. WasteInv'
    BY DEF WasteInv
  <1>7. BuffersBounded'
    BY Buffers DEF Held, Decoding, Kept
  <1>. QED  BY <1>1, <1>2, <1>3, <1>4, <1>5, <1>6, <1>7

\* and releases it.
LEMMA StatementEndsStep ==
    ASSUME IInv, StatementEnds
    PROVE  IInv'
  <1>. USE DEF IInv, StatementEnds, scan, thread, pipe, caller, told
  <1>0. others' \in [waiting : 0..1, done : 0..MaxStatements] /\ others'.waiting = 0
    BY ReaderAssumption DEF TypeOK, StatementInv
  <1>1. TypeOK'
    BY <1>0 DEF TypeOK
  <1>2. StatementInv'
    BY DEF StatementInv
  <1>3. CallerInv'
    BY DEF CallerInv
  <1>4. ThreadInv'
    BY DEF ThreadInv
  <1>5. FlowInv'
    BY DEF FlowInv, Position
  <1>6. WasteInv'
    BY DEF WasteInv
  <1>7. BuffersBounded'
    BY Buffers DEF Held, Decoding, Kept
  <1>. QED  BY <1>1, <1>2, <1>3, <1>4, <1>5, <1>6, <1>7

\* recv takes the frame in the channel, or tells the caller of an error.
LEMMA ReceivesStep ==
    ASSUME IInv, Receives
    PROVE  IInv'
  <1>. USE DEF IInv, scan, thread
  <1>a. /\ rd = "receive" /\ UNCHANGED <<sched, recycle, decoded, wire, others, out>>
        /\ UNCHANGED scan /\ UNCHANGED thread
        /\ channel # <<>> \/ worker = "exited"
    BY DEF Receives
  <1>1. CASE Received.kind = "frame"
    <2>a. channel # <<>>
      BY <1>1, ReceivedCases, Kinds
    <2>b. channel[1] \in Frames /\ Received = channel[1] /\ Tail(channel) = <<>>
      BY <1>1, ReceivedCases, Kinds
    <2>c. /\ frame' = channel[1] /\ channel' = <<>> /\ rd' = "decode"
          /\ receiver' = receiver /\ wasted' = wasted /\ finished' = finished /\ stream' = stream
      BY <1>1, <2>b, Zenon DEF Receives
    <2>d. Buffered = 1 /\ Buffered' = 0
      BY <2>a, <2>c, Buffers
    <2>t. ChannelOK'
      BY <2>c, ChannelChanges, Zenon
    <2>1. TypeOK'
      BY <1>a, <2>b, <2>c, <2>t DEF TypeOK, ChannelOK
    <2>2. StatementInv'
      BY <1>a, <2>c, <2>d DEF StatementInv
    <2>3. CallerInv'
      BY <1>a, <2>b, <2>c, <2>d DEF CallerInv
    <2>4. ThreadInv'
      BY <1>a, <2>c, <2>d, SMTT(30) DEF ThreadInv
    <2>5. FlowInv'
      BY <1>a, <2>a, <2>b, <2>c, <2>d, Kinds, SMTT(30) DEF TypeOK, ThreadInv, FlowInv, Position
    <2>6. WasteInv'
      BY <1>a, <2>c, <2>d, SMTT(30) DEF WasteInv
    <2>7. BuffersBounded'
      BY <1>a, <2>c, <2>d, Buffers DEF TypeOK, Held, Decoding, Kept
    <2>. QED  BY <2>1, <2>2, <2>3, <2>4, <2>5, <2>6, <2>7
  <1>2. CASE Received.kind # "frame"
    <2>a. rd' = "idle" /\ finished' = TRUE /\ stream' = "failed" /\ frame' = frame
      BY <1>2, Zenon DEF Receives, Fails
    <2>b. /\ receiver' = FALSE /\ channel' = <<>> /\ Buffered' = 0 /\ wasted' \in Nat
          /\ IF channel = <<>> THEN wasted' = wasted ELSE wasted' <= wasted + 1
      BY <1>2, DroppedCases DEF Receives
    <2>t. ChannelOK' /\ receiver' \in BOOLEAN /\ wasted' \in Nat
      BY <2>b, ChannelChanges, Zenon
    <2>1. TypeOK'
      BY <1>a, <2>a, <2>t DEF TypeOK, ChannelOK
    <2>2. StatementInv'
      BY <1>a DEF StatementInv
    <2>3. CallerInv'
      BY <1>a, <2>a DEF CallerInv
    <2>4. ThreadInv'
      BY <1>a, <2>b DEF ThreadInv
    <2>5. FlowInv'
      BY <2>b DEF FlowInv, Position
    <2>6. WasteInv'
      BY <1>a, <2>b, SMTT(30) DEF ThreadInv, WasteInv
    <2>7. BuffersBounded'
      BY <1>a, <2>b, Buffers DEF TypeOK, ThreadInv, WasteInv, Held, Decoding, Kept
    <2>. QED  BY <2>1, <2>2, <2>3, <2>4, <2>5, <2>6, <2>7
  <1>. QED  BY <1>1, <1>2

\* A decoded frame is the rows that follow those handed over.
LEMMA DecodesStep ==
    ASSUME IInv, Decodes
    PROVE  IInv'
  <1>. USE DEF IInv, scan, thread
  <1>a. /\ rd = "decode" /\ rd' = "idle" /\ frame' = NoFrame /\ frame.rows > 0
        /\ decoded' = decoded + frame.rows
        /\ UNCHANGED <<sched, wire, others, stream>> /\ UNCHANGED scan /\ UNCHANGED thread
    BY Zenon DEF Decodes
  <1>e. /\ finished' = (decoded' >= total)
        /\ IF finished' THEN DropsReceiver ELSE UNCHANGED <<receiver, channel, wasted>>
    BY Zenon DEF Decodes
  <1>b. frame.rows \in Nat /\ frame.start = decoded /\ frame.rows <= total - decoded
        /\ decoded \in Nat /\ total \in Nat
    BY <1>a, Kinds DEF TypeOK, CallerInv, FlowInv
  <1>c. out' \in Seq(Nat) /\ Len(out') = Len(out) + frame.rows
    BY <1>b, Extended DEF TypeOK, Hands, Decodes
  <1>f. decoded' \in 0..MaxTotal
    BY <1>a, <1>b, ReaderAssumption DEF TypeOK
  <1>d. /\ recycle' \in 0..2 /\ recycle' <= recycle + 1
        /\ worker \in {"report", "complete", "exited"} => recycle' = recycle
        /\ adopt => recycle' = recycle
    BY DEF Decodes, Recycles, TypeOK
  <1>g. /\ path' \in {"inline", "direct", "prefetch"} /\ adopt' \in BOOLEAN
        /\ total' \in 0..MaxTotal /\ sched' \in Schedulers
        /\ worker' \in {"plan", "fetch", "reply", "send", "report", "complete", "exited"}
        /\ next_row' \in 0..MaxTotal /\ asked' \in 0..MaxTotal
        /\ message' \in Frames \cup {Failure, NoFrame} /\ completion' \in BOOLEAN
        /\ wire' \in {"free", "worker", "reader", "statement"}
        /\ others' \in [waiting : 0..1, done : 0..MaxStatements]
        /\ stream' \in {"open", "ended", "failed"}
    BY <1>a, ZenonT(30) DEF TypeOK
  <1>h. /\ rd' \in {"idle", "receive", "decode", "fetch", "reply", "closing", "joined",
                    "detached"}
        /\ frame' \in Frames \cup {NoFrame}
        /\ TRUE \in BOOLEAN /\ FALSE \in BOOLEAN
    BY <1>a
  <1>1. CASE decoded' >= total
    <2>a. finished' = TRUE
      BY <1>1, <1>e, Zenon
    <2>b. /\ receiver' = FALSE /\ channel' = <<>> /\ Buffered' = 0 /\ wasted' \in Nat
          /\ IF channel = <<>> THEN wasted' = wasted ELSE wasted' <= wasted + 1
      BY <1>e, <2>a, DroppedCases
    <2>t. ChannelOK' /\ receiver' \in BOOLEAN /\ wasted' \in Nat
      BY <2>b, ChannelChanges, Zenon
    <2>1. TypeOK'
      BY <1>c, <1>d, <1>f, <1>g, <1>h, <2>a, <2>t, ZenonT(30) DEF TypeOK, ChannelOK
    <2>2. StatementInv'
      BY <1>1, <1>a DEF StatementInv
    <2>3. CallerInv'
      BY <1>1, <1>a, <1>b, <1>c, <2>a DEF CallerInv
    <2>4. ThreadInv'
      BY <1>1, <1>a, <1>d, <2>b DEF ThreadInv
    <2>5. FlowInv'
      BY <1>1, <2>b DEF FlowInv, Position
    <2>6. WasteInv'
      BY <1>1, <1>a, <2>b, SMTT(30) DEF ThreadInv, WasteInv
    <2>7. BuffersBounded'
      BY <1>1, <1>a, <1>d, <2>b, Buffers, SMTT(30) DEF TypeOK, ThreadInv, WasteInv, Held,
         Decoding, Kept
    <2>. QED  BY <2>1, <2>2, <2>3, <2>4, <2>5, <2>6, <2>7
  <1>2. CASE ~(decoded' >= total)
    <2>a. finished' = FALSE
      <3>1. (decoded' >= total) = FALSE
        BY <1>2
      <3>. QED  BY <3>1, <1>e, Zenon
    <2>b. receiver' = receiver /\ channel' = channel /\ wasted' = wasted /\ Buffered' = Buffered
      BY <1>e, <2>a, Buffers, Zenon
    <2>t. ChannelOK' /\ receiver' \in BOOLEAN /\ wasted' \in Nat
      BY <2>b, ChannelChanges, Zenon DEF TypeOK
    <2>1. TypeOK'
      BY <1>c, <1>d, <1>f, <1>g, <1>h, <2>a, <2>t, ZenonT(30) DEF TypeOK, ChannelOK
    <2>2. StatementInv'
      BY <1>2, <1>a DEF StatementInv
    <2>3. CallerInv'
      BY <1>2, <1>a, <1>b, <1>c, <2>a, <2>b, SMTT(30) DEF CallerInv
    <2>4. ThreadInv'
      BY <1>2, <1>a, <1>d, <2>b DEF ThreadInv
    <2>5. FlowInv'
      <3>1. Position' = decoded' /\ Position = decoded + frame.rows
        BY <1>a DEF Position
      <3>. HIDE DEF Position
      <3>. QED  BY <1>a, <2>b, <3>1 DEF FlowInv
    <2>6. WasteInv'
      BY <1>2, <1>a, <2>b, SMTT(30) DEF WasteInv
    <2>7. BuffersBounded'
      BY <1>2, <1>a, <1>d, <2>b, Buffers DEF TypeOK, CallerInv, Held, Decoding, Kept
    <2>. QED  BY <2>1, <2>2, <2>3, <2>4, <2>5, <2>6, <2>7
  <1>. QED  BY <1>1, <1>2

-----------------------------------------------------------------------------
(* The theorems.                                                            *)

\* A reader starts with nothing sent, received or handed over.
LEMMA InitInv ==
    ASSUME Init
    PROVE  IInv
  <1>. USE DEF Init
  <1>1. path \in {"inline", "direct", "prefetch"} /\ receiver \in BOOLEAN
        /\ (path # "prefetch" => worker = "exited" /\ receiver = FALSE)
        /\ (path = "prefetch" => worker = "plan" /\ receiver = TRUE /\ total > 0)
    BY Zenon
  <1>2. total \in 0..MaxTotal /\ total \in Nat /\ sched \in Schedulers
    BY ReaderAssumption
  <1>3. channel = <<>> /\ Buffered = 0 /\ out \in Seq(Nat) /\ Len(out) = 0
    BY DEF Buffered
  <1>4. TypeOK
    <2>1. ChannelOK
      BY Zenon DEF ChannelOK
    <2>2. others \in [waiting : 0..1, done : 0..MaxStatements]
      BY ReaderAssumption
    <2>3. /\ adopt \in BOOLEAN /\ recycle \in 0..2 /\ wasted \in Nat
          /\ next_row \in 0..MaxTotal /\ asked \in 0..MaxTotal /\ decoded \in 0..MaxTotal
      BY ReaderAssumption
    <2>4. /\ worker \in {"plan", "exited"} /\ rd = "idle" /\ stream = "open" /\ wire = "free"
          /\ message = NoFrame /\ frame = NoFrame /\ finished = FALSE /\ completion = FALSE
      OBVIOUS
    <2>. HIDE DEF Init
    <2>. QED  BY <1>1, <1>2, <1>3, <2>1, <2>2, <2>3, <2>4, Zenon DEF TypeOK, ChannelOK
  <1>5. StatementInv /\ WasteInv
    BY DEF StatementInv, WasteInv
  <1>6. CallerInv
    BY <1>1, <1>2, <1>3 DEF CallerInv
  <1>7. ThreadInv
    BY <1>1, <1>2 DEF ThreadInv
  <1>8. FlowInv
    BY <1>1, <1>2 DEF FlowInv, Position
  <1>9. BuffersBounded
    <2>1. Held = 0 /\ Decoding = 0 /\ Kept = 0
      BY <1>1 DEF Held, Decoding, Kept
    <2>. QED  BY <1>3, <2>1, Buffers
  <1>. QED  BY <1>4, <1>5, <1>6, <1>7, <1>8, <1>9 DEF IInv

\* Every step keeps the invariant.
LEMMA NextInv ==
    ASSUME IInv, [Next]_vars
    PROVE  IInv'
  <1>1. CASE Next
    BY <1>1,
       WorkerPlansStep, WorkerFinishesStep, WorkerTakesWireStep,
       WorkerFetchFailsStep, WorkerFetchesStep, WorkerSendsStep, WorkerPanicsStep,
       WorkerReportsStep, WorkerCompletesStep, ReceivesStep, DecodesStep,
       DecodeFailsStep, DecodePanicsStep, DirectTakesWireStep, DirectFetchesStep,
       DirectFailsStep, DropJoinsStep, DropDetachesStep, NextIsNoneStep,
       NextSliceStep, NextPrefetchedStep, NextDirectStep, DropsStep,
       StatementWaitsStep, StatementTakesWireStep, StatementEndsStep, SMTT(30)
       DEF Next, WorkerStep, CallStep, Calls, StatementStep
  <1>2. CASE UNCHANGED vars
    <2>. USE <1>2 DEF vars, scan, thread, pipe, caller, told, IInv
    <2>1. TypeOK' /\ StatementInv' /\ CallerInv'
      BY SMTT(30) DEF TypeOK, StatementInv, CallerInv
    <2>2. ThreadInv' /\ FlowInv' /\ WasteInv'
      BY DEF ThreadInv, FlowInv, Position, WasteInv
    <2>3. BuffersBounded'
      BY Zenon DEF BuffersBounded
    <2>. QED  BY <2>1, <2>2, <2>3, SMTT(30)
  <1>. QED  BY <1>1, <1>2

\* The inductive invariant of the prefetch thread, its channels and the caller.
THEOREM ReaderInvariance == Spec => []IInv
  BY InitInv, NextInv, PTL DEF Spec

\* Type correctness of the readers.
THEOREM ReaderTypes == Spec => []TypeOK
  <1>1. IInv => TypeOK
    BY DEF IInv
  <1>. QED  BY <1>1, ReaderInvariance, PTL

\* fetch_binary_frames never exits without a row, an error or an empty window
\* for a caller that waits in recv: the "ended before the result was complete"
\* branch of PrefetchedBinaryReader::next is unreachable.
THEOREM ThreadAlwaysExplains == Spec => []ThreadExplainsItsEnd
  <1>1. IInv => ThreadExplainsItsEnd
    BY ReaderAssumption DEF IInv, TypeOK, CallerInv, FlowInv, Position, ThreadExplainsItsEnd
  <1>. QED  BY <1>1, ReaderInvariance, PTL

\* Three buffers and two wasted windows are enough, whatever the result's size.
THEOREM BuffersStayBounded == Spec => []BuffersBounded
  <1>1. IInv => BuffersBounded
    BY DEF IInv
  <1>. QED  BY <1>1, ReaderInvariance, PTL

\* Every request that the thread or BinaryReader plans is within the budget and
\* the growth limit, and aligned, for every budget, width and alignment.
THEOREM WindowsAlwaysFollowBudget == Spec => WindowsFollowBudget
  <1>1. ASSUME IInv, WorkerPlans
        PROVE  GoodWindow(sched, asked', total - next_row)
    <2>1. total - next_row \in Nat \ {0} /\ sched \in Schedulers
      BY <1>1, ReaderAssumption DEF IInv, TypeOK, WorkerPlans
    <2>2. asked' = next_rows(sched, total - next_row)
      BY <1>1 DEF WorkerPlans
    <2>. QED  BY <2>1, <2>2, WindowIsGood
  <1>2. ASSUME IInv, NextDirect
        PROVE  GoodWindow(sched, asked', total - decoded)
    <2>1. total - decoded \in Nat \ {0} /\ sched \in Schedulers
      BY <1>2, ReaderAssumption DEF IInv, TypeOK, NextDirect
    <2>2. asked' = next_rows(sched, total - decoded)
      BY <1>2 DEF NextDirect
    <2>. QED  BY <2>1, <2>2, WindowIsGood
  <1>. QED  BY <1>1, <1>2, ReaderInvariance, PTL DEF WindowsFollowBudget, Spec

\* A step of a reader is a batch, the end or the error of the stream it
\* implements, or changes nothing its caller sees.
LEMMA StreamStep ==
    ASSUME IInv, [Next]_vars
    PROVE  [Stream!Batch \/ Stream!End \/ Stream!Fail]_<<total, out, stream>>
  <1>. USE DEF IInv
  <1>a. Len(out) = decoded /\ decoded \in Nat /\ total \in Nat /\ decoded <= total
    BY ReaderAssumption DEF TypeOK, CallerInv
  <1>b. ASSUME NEW n \in Nat, n > 0, n <= total - decoded, Hands(decoded, n),
               stream = "open", UNCHANGED <<total, stream>>
        PROVE  Stream!Batch
    BY <1>a, <1>b DEF Hands, Stream!Batch, Stream!NextRows
  <1>c. ASSUME stream = "open", decoded < total, stream' = "failed", UNCHANGED <<total, out>>
        PROVE  Stream!Fail
    BY <1>a, <1>c DEF Stream!Fail
  <1>1. CASE Decodes
    <2>1. /\ frame.rows \in Nat /\ frame.rows > 0 /\ frame.start = decoded
          /\ frame.rows <= total - decoded /\ stream = "open"
      BY <1>1, <1>a, Kinds DEF Decodes, CallerInv, FlowInv
    <2>. QED  BY <1>1, <1>b, <2>1, SMTT(30) DEF Decodes, scan
  <1>2. CASE DirectFetches
    <2>1. PICK rows \in 1..asked : Hands(decoded, rows)
      BY <1>2 DEF DirectFetches
    <2>2. rows \in Nat /\ rows > 0 /\ rows <= total - decoded /\ stream = "open"
      BY <1>2, <1>a, <2>1 DEF DirectFetches, CallerInv
    <2>. QED  BY <1>2, <1>b, <2>1, <2>2 DEF DirectFetches, scan
  <1>3. CASE NextSlice
    <2>1. PICK rows \in Nat : /\ rows = Least(OrElse(sched.exact, total), total - decoded)
                              /\ rows > 0 /\ rows <= total - decoded
      BY <1>3, <1>a, Numbers DEF TypeOK, NextSlice, Least, OrElse, None
    <2>2. Hands(decoded, rows) /\ UNCHANGED <<total, stream>>
      BY <1>3, <2>1 DEF NextSlice, scan
    <2>3. stream = "open"
      BY <1>3, <1>a, SMTT(30) DEF TypeOK, CallerInv, NextSlice
    <2>. QED  BY <1>b, <2>1, <2>2, <2>3, SMTT(30)
  <1>4. CASE NextIsNone
    BY <1>4, <1>a DEF NextIsNone, scan, TypeOK, CallerInv, Stream!End
  <1>5. CASE Receives
    BY <1>5, <1>c, ZenonT(30) DEF Receives, Fails, scan, CallerInv
  <1>6. CASE DecodeFails
    BY <1>6, <1>c DEF DecodeFails, Fails, scan, CallerInv
  <1>7. CASE DecodePanics
    BY <1>7, <1>c DEF DecodePanics, Fails, scan, CallerInv
  <1>8. CASE DirectFails
    BY <1>8, <1>c DEF DirectFails, Fails, scan, CallerInv
  <1>9. CASE WorkerStep
    BY <1>9, ZenonT(30) DEF WorkerStep, WorkerPlans, WorkerFinishes, WorkerTakesWire,
       WorkerFetchFails,
       WorkerFetches, WorkerSends, WorkerPanics, WorkerReports, WorkerCompletes, scan, told
  <1>10. CASE NextPrefetched \/ NextDirect \/ Drops \/ DirectTakesWire \/ DropJoins \/ DropDetaches
    BY <1>10 DEF NextPrefetched, NextDirect, Drops, DirectTakesWire, DropJoins, DropDetaches,
       scan, told
  <1>11. CASE StatementWaits \/ StatementStep
    BY <1>11 DEF StatementStep, StatementWaits, StatementTakesWire, StatementEnds, scan, told
  <1>12. CASE UNCHANGED vars
    BY <1>12 DEF vars, scan, told
  <1>. QED  BY <1>1, <1>2, <1>3, <1>4, <1>5, <1>6, <1>7, <1>8, <1>9, <1>10, <1>11, <1>12, SMTT(30)
            DEF Next, CallStep, Calls

\* SlicedBatchReader, BinaryReader and PrefetchedBinaryReader implement
\* ResultStream: every row once and in order, the end only after the last row,
\* an error only while rows are missing, for every result and interleaving.
THEOREM ReadersImplementStream == Spec => ImplementsStream
  <1>1. Init => Stream!Init
    BY DEF Init, Stream!Init
  <1>. QED  BY <1>1, StreamStep, ReaderInvariance, PTL DEF Spec, ImplementsStream, Stream!Spec

-----------------------------------------------------------------------------
(* The cells.                                                               *)

\* What a cell means: its value, or SQL NULL.
Option(c) == IF c.valid THEN <<c.value>> ELSE <<>>
Cells(S)  == [valid : BOOLEAN, value : S]

-----------------------------------------------------------------------------
(* The calendar.                                                            *)

\* The days before a shifted year: years counted from March have their leap
\* day last, so that the count is a sum of floors.
ShiftedDays(y) == 365 * y + y \div 4 - y \div 100 + y \div 400

\* The era of days_from_civil is floor division by 400, also of a negative year.
LEMMA EraIsFloor ==
    ASSUME NEW y \in Int
    PROVE  TruncDiv(IF y >= 0 THEN y ELSE y - 399, 400) = y \div 400
  BY DEF TruncDiv

\* days_from_civil: an era and a year of the era make the days before the year.
LEMMA EraDays ==
    ASSUME NEW y \in Int, NEW e \in Int, e = y \div 400
    PROVE  e * 146097 + (y - e * 400) * 365 + (y - e * 400) \div 4 - (y - e * 400) \div 100
             = ShiftedDays(y)
  <1>. DEFINE z == y - e * 400
  <1>1. z \in 0..399
    OBVIOUS
  <1>2. y \div 4 = 100 * e + z \div 4
    BY <1>1
  <1>3. y \div 100 = 4 * e + z \div 100
    BY <1>1
  <1>. QED  BY <1>1, <1>2, <1>3 DEF ShiftedDays

\* The shifted count against chrono's: a year's days begin in January.
LEMMA YearStarts ==
    ASSUME NEW y \in Int
    PROVE  /\ DaysBeforeYear(y) = ShiftedDays(y - 1) + 366
           /\ ShiftedDays(y) = ShiftedDays(y - 1) + 365 + (IF Leap(y) THEN 1 ELSE 0)
  <1>1. (y + 3) \div 4 = (y - 1) \div 4 + 1
    OBVIOUS
  <1>2. (y + 99) \div 100 = (y - 1) \div 100 + 1
    OBVIOUS
  <1>3. (y + 399) \div 400 = (y - 1) \div 400 + 1
    OBVIOUS
  <1>4. y \div 4 = (y - 1) \div 4 + (IF y % 4 = 0 THEN 1 ELSE 0)
    OBVIOUS
  <1>5. y \div 100 = (y - 1) \div 100 + (IF y % 100 = 0 THEN 1 ELSE 0)
    OBVIOUS
  <1>6. y \div 400 = (y - 1) \div 400 + (IF y % 400 = 0 THEN 1 ELSE 0)
    OBVIOUS
  <1>7. (y % 400 = 0 => y % 100 = 0) /\ (y % 100 = 0 => y % 4 = 0)
    OBVIOUS
  <1>8. DaysBeforeYear(y) = ShiftedDays(y - 1) + 366
    BY <1>1, <1>2, <1>3 DEF DaysBeforeYear, ShiftedDays
  <1>9. ShiftedDays(y) = ShiftedDays(y - 1) + 365 + (IF Leap(y) THEN 1 ELSE 0)
    BY <1>4, <1>5, <1>6, <1>7 DEF ShiftedDays, Leap
  <1>. QED  BY <1>8, <1>9

\* The months of days_from_civil run from March in steps of 153 days per five.
LEMMA MonthStarts ==
    ASSUME NEW y \in Int, NEW m \in 1..12
    PROVE  DaysBeforeMonth(y, m) =
             IF m > 2 THEN (153 * (m - 3) + 2) \div 5 + 59 + (IF Leap(y) THEN 1 ELSE 0)
                      ELSE (153 * (m + 9) + 2) \div 5 - 306
  <1>1. m = 1 \/ m = 2 \/ m = 3 \/ m = 4 \/ m = 5 \/ m = 6
          \/ m = 7 \/ m = 8 \/ m = 9 \/ m = 10 \/ m = 11 \/ m = 12
    OBVIOUS
  <1>2. CASE m \in 1..2
    BY <1>1, <1>2 DEF DaysBeforeMonth
  <1>3. CASE m \in 3..7
    BY <1>1, <1>3 DEF DaysBeforeMonth
  <1>4. CASE m \in 8..12
    BY <1>1, <1>4 DEF DaysBeforeMonth
  <1>. QED  BY <1>2, <1>3, <1>4

\* days_from_civil computes the day number of every date of every year, also
\* before year zero: it is the count of chrono's calendar, which date columns
\* are encoded with.
THEOREM CivilDaysAgree ==
    ASSUME NEW y \in Int, NEW m \in 1..12, NEW d \in Int
    PROVE  DaysFromCivil(y, m, d) = UnixDays([day |-> d, month |-> m, year |-> y])
  <1>. DEFINE year  == IF m <= 2 THEN y - 1 ELSE y
              shift == IF m > 2 THEN m - 3 ELSE m + 9
              era   == year \div 400
  <1>1. year \in Int /\ era \in Int
    OBVIOUS
  <1>2. DaysFromCivil(y, m, d) =
          era * 146097 + ((year - era * 400) * 365 + (year - era * 400) \div 4
             - (year - era * 400) \div 100 + ((153 * shift + 2) \div 5 + d - 1)) - 719468
    <2>1. TruncDiv(IF year >= 0 THEN year ELSE year - 399, 400) = era
      <3>. HIDE DEF year
      <3>. QED  BY <1>1, EraIsFloor, ZenonT(30)
    <2>. HIDE DEF era
    <2>. QED  BY <2>1 DEF DaysFromCivil
  <1>3. DaysFromCivil(y, m, d) = ShiftedDays(year) + (153 * shift + 2) \div 5 + d - 1 - 719468
    <2>. HIDE DEF year
    <2>1. era * 146097 + (year - era * 400) * 365 + (year - era * 400) \div 4
            - (year - era * 400) \div 100 = ShiftedDays(year)
      BY <1>1, EraDays
    <2>. HIDE DEF era
    <2>. QED  BY <1>1, <1>2, <2>1
  <1>4. UnixDays([day |-> d, month |-> m, year |-> y]) =
          DaysBeforeYear(y) + DaysBeforeMonth(y, m) + d - 1 - 719528
    BY DEF UnixDays
  <1>5. ShiftedDays(y) \in Int /\ ShiftedDays(y - 1) \in Int
    BY DEF ShiftedDays
  <1>6. /\ m > 2 => year = y /\ shift = m - 3
        /\ m <= 2 => year = y - 1 /\ shift = m + 9
    OBVIOUS
  <1>. DEFINE leap == IF Leap(y) THEN 1 ELSE 0
  <1>7. /\ leap \in Int /\ DaysBeforeYear(y) = ShiftedDays(y - 1) + 366
        /\ ShiftedDays(y) = ShiftedDays(y - 1) + 365 + leap
    BY YearStarts
  <1>. DEFINE steps == (153 * shift + 2) \div 5
  <1>8. /\ steps \in Int
        /\ m > 2 => DaysBeforeMonth(y, m) = steps + 59 + leap
        /\ m <= 2 => DaysBeforeMonth(y, m) = steps - 306
    <2>. HIDE DEF leap, shift
    <2>1. shift \in Int /\ steps \in Int
      BY <1>6
    <2>2. /\ m > 2 => DaysBeforeMonth(y, m) = (153 * (m - 3) + 2) \div 5 + 59 + leap
          /\ m <= 2 => DaysBeforeMonth(y, m) = (153 * (m + 9) + 2) \div 5 - 306
      BY MonthStarts DEF leap
    <2>. QED  BY <1>6, <2>1, <2>2
  <1>. HIDE DEF year, shift, leap, steps
  <1>9. DaysFromCivil(y, m, d) = ShiftedDays(year) + steps + d - 1 - 719468
    BY <1>3 DEF steps
  <1>10. CASE m > 2
    BY <1>4, <1>5, <1>6, <1>7, <1>8, <1>9, <1>10, SMTT(20)
  <1>11. CASE m <= 2
    BY <1>4, <1>5, <1>6, <1>7, <1>8, <1>9, <1>11, SMTT(20)
  <1>. QED  BY <1>10, <1>11

\* chrono finds the year of every day of an era.
LEMMA EraYear ==
    ASSUME NEW day \in Int, 0 <= day, day < 146097
    PROVE  /\ YearOfEra(day) \in 0..399
           /\ DaysBeforeYear(YearOfEra(day)) <= day
           /\ day < DaysBeforeYear(YearOfEra(day) + 1)
  <1>1. PICK q \in 0..400 : /\ q = day \div 365 /\ day \div 366 <= q
                            /\ 365 * q <= day /\ day < 365 * (q + 1)
    OBVIOUS
  <1>2. ASSUME NEW y \in 0..401
        PROVE  /\ DaysBeforeYear(y) \in Int /\ 365 * y <= DaysBeforeYear(y)
               /\ DaysBeforeYear(y) <= 365 * y + 100 /\ DaysBeforeYear(y) <= 366 * y
    BY DEF DaysBeforeYear
  <1>3. \E y \in (day \div 366) .. (day \div 365) :
            DaysBeforeYear(y) <= day /\ day < DaysBeforeYear(y + 1)
    <2>1. CASE DaysBeforeYear(q) <= day
      <3>1. day < DaysBeforeYear(q + 1)
        BY <1>1, <1>2
      <3>2. q \in (day \div 366) .. (day \div 365)
        BY <1>1
      <3>. QED  BY <2>1, <3>1, <3>2
    <2>2. CASE day < DaysBeforeYear(q)
      <3>1. day < 366 * q
        BY <1>1, <1>2, <2>2
      <3>2. q - 1 \in 0..401 /\ (q - 1) + 1 = q /\ q - 1 \in (day \div 366) .. (day \div 365)
        BY <1>1, <3>1
      <3>3. DaysBeforeYear(q - 1) <= day
        BY <1>1, <1>2, <3>2
      <3>4. day < DaysBeforeYear((q - 1) + 1)
        BY <2>2, <3>2
      <3>. QED  BY <3>2, <3>3, <3>4
    <2>. QED  BY <1>2, <2>1, <2>2, SMTT(30)
  <1>4. /\ YearOfEra(day) \in (day \div 366) .. (day \div 365)
        /\ DaysBeforeYear(YearOfEra(day)) <= day
        /\ day < DaysBeforeYear(YearOfEra(day) + 1)
    BY <1>3 DEF YearOfEra
  <1>5. YearOfEra(day) \in 0..400
    BY <1>4
  <1>6. DaysBeforeYear(400) = 146097
    BY DEF DaysBeforeYear
  <1>7. YearOfEra(day) # 400
    BY <1>4, <1>6
  <1>. QED  BY <1>4, <1>5, <1>7

\* The months partition the days of a year.
LEMMA YearMonth ==
    ASSUME NEW y \in Int, NEW day \in 0 .. 364 + (IF Leap(y) THEN 1 ELSE 0)
    PROVE  LET m == MonthOf(y, day) IN
           m \in 1..12 /\ DaysBeforeMonth(y, m) <= day /\ day < DaysBeforeMonth(y, m) + MonthDays(y, m)
  <1>. DEFINE In(m) == DaysBeforeMonth(y, m) <= day /\ day < DaysBeforeMonth(y, m) + MonthDays(y, m)
              leap  == IF Leap(y) THEN 1 ELSE 0
  <1>1. leap \in 0..1 /\ day \in 0 .. 364 + leap
    OBVIOUS
  <1>2. /\ DaysBeforeMonth(y, 1) = 0 /\ DaysBeforeMonth(y, 2) = 31
        /\ MonthDays(y, 1) = 31 /\ MonthDays(y, 2) = 28 + leap
    BY DEF DaysBeforeMonth, MonthDays
  <1>3. /\ DaysBeforeMonth(y, 3) = 59 + leap /\ DaysBeforeMonth(y, 4) = 90 + leap
        /\ MonthDays(y, 3) = 31 /\ MonthDays(y, 4) = 30
    BY DEF DaysBeforeMonth, MonthDays
  <1>4. /\ DaysBeforeMonth(y, 5) = 120 + leap /\ DaysBeforeMonth(y, 6) = 151 + leap
        /\ MonthDays(y, 5) = 31 /\ MonthDays(y, 6) = 30
    BY DEF DaysBeforeMonth, MonthDays
  <1>5. /\ DaysBeforeMonth(y, 7) = 181 + leap /\ DaysBeforeMonth(y, 8) = 212 + leap
        /\ MonthDays(y, 7) = 31 /\ MonthDays(y, 8) = 31
    BY DEF DaysBeforeMonth, MonthDays
  <1>6. /\ DaysBeforeMonth(y, 9) = 243 + leap /\ DaysBeforeMonth(y, 10) = 273 + leap
        /\ MonthDays(y, 9) = 30 /\ MonthDays(y, 10) = 31
    BY DEF DaysBeforeMonth, MonthDays
  <1>7. /\ DaysBeforeMonth(y, 11) = 304 + leap /\ DaysBeforeMonth(y, 12) = 334 + leap
        /\ MonthDays(y, 11) = 30 /\ MonthDays(y, 12) = 31
    BY SMTT(30) DEF DaysBeforeMonth, MonthDays
  <1>. HIDE DEF leap
  <1>8. In(1) \/ In(2) \/ In(3) \/ In(4) \/ In(5) \/ In(6) \/ In(7) \/ In(8) \/ In(9) \/ In(10)
          \/ In(11) \/ In(12)
    BY <1>1, <1>2, <1>3, <1>4, <1>5, <1>6, <1>7
  <1>. HIDE DEF In
  <1>9. \E m \in 1..12 : In(m)
    BY <1>8
  <1>10. MonthOf(y, day) \in 1..12 /\ In(MonthOf(y, day))
    BY <1>9 DEF MonthOf, In
  <1>. QED  BY <1>10 DEF In

\* Eras repeat the calendar.
LEMMA EraRepeats ==
    ASSUME NEW e \in Int, NEW y \in Int
    PROVE  DaysBeforeYear(400 * e + y) = 146097 * e + DaysBeforeYear(y)
  <1>1. (400 * e + y + 3) \div 4 = 100 * e + (y + 3) \div 4
    OBVIOUS
  <1>2. (400 * e + y + 99) \div 100 = 4 * e + (y + 99) \div 100
    OBVIOUS
  <1>3. (400 * e + y + 399) \div 400 = e + (y + 399) \div 400
    OBVIOUS
  <1>. QED  BY <1>1, <1>2, <1>3 DEF DaysBeforeYear

\* date_from_unix_days names the day of every day number, or refuses the number.
LEMMA DateOfDay ==
    ASSUME NEW n \in Int
    PROVE  \E y \in Int, m \in 1..12, d \in Int :
             /\ 1 <= d /\ d <= MonthDays(y, m)
             /\ UnixDays([day |-> d, month |-> m, year |-> y]) = n
             /\ DateFromUnixDays(n) \in {Fail, Ok([day |-> d, month |-> m, year |-> y])}
  <1>1. PICK e \in Int, day \in Int : /\ e = (n + 719528) \div 146097 /\ day = (n + 719528) % 146097
                                      /\ 0 <= day /\ day < 146097
                                      /\ n + 719528 = 146097 * e + day
    OBVIOUS
  <1>2. PICK z \in Int : /\ z = YearOfEra(day)
                         /\ DaysBeforeYear(z) <= day /\ day < DaysBeforeYear(z + 1)
    BY <1>1, EraYear
  <1>3. PICK y \in Int : y = 400 * e + z
    BY <1>1, <1>2
  <1>4. DaysBeforeYear(z) \in Int /\ DaysBeforeYear(z + 1) \in Int /\ DaysBeforeYear(y) \in Int
    BY DEF DaysBeforeYear
  <1>5. PICK k \in Int : k = day - DaysBeforeYear(z)
    BY <1>4
  <1>6. DaysBeforeYear(y) = 146097 * e + DaysBeforeYear(z)
    BY <1>3, EraRepeats
  <1>7. DaysBeforeYear(y + 1) = 146097 * e + DaysBeforeYear(z + 1)
    <2>1. y + 1 = 400 * e + (z + 1)
      BY <1>3
    <2>. QED  BY <2>1, EraRepeats
  <1>8. DaysBeforeYear(y + 1) = DaysBeforeYear(y) + 365 + (IF Leap(y) THEN 1 ELSE 0)
    <2>1. DaysBeforeYear(y) = ShiftedDays(y - 1) + 366 /\ ShiftedDays(y - 1) \in Int
      BY YearStarts DEF ShiftedDays
    <2>2. DaysBeforeYear(y + 1) = ShiftedDays((y + 1) - 1) + 366
      BY YearStarts
    <2>3. (y + 1) - 1 = y
      OBVIOUS
    <2>4. ShiftedDays(y) = ShiftedDays(y - 1) + 365 + (IF Leap(y) THEN 1 ELSE 0)
      BY YearStarts
    <2>. QED  BY <2>1, <2>2, <2>3, <2>4
  <1>9. k \in 0 .. 364 + (IF Leap(y) THEN 1 ELSE 0)
    BY <1>2, <1>4, <1>5, <1>6, <1>7, <1>8
  <1>10. PICK m \in 1..12 : /\ m = MonthOf(y, k)
                            /\ DaysBeforeMonth(y, m) <= k /\ k < DaysBeforeMonth(y, m) + MonthDays(y, m)
    BY <1>9, YearMonth
  <1>11. DaysBeforeMonth(y, m) \in Int /\ MonthDays(y, m) \in Int
    BY <1>10 DEF DaysBeforeMonth, MonthDays
  <1>12. PICK d \in Int : d = k - DaysBeforeMonth(y, m) + 1
    BY <1>11
  <1>13. 1 <= d /\ d <= MonthDays(y, m)
    BY <1>10, <1>11, <1>12
  <1>14. UnixDays([day |-> d, month |-> m, year |-> y]) = n
    BY <1>1, <1>4, <1>5, <1>6, <1>11, <1>12, SMTT(30) DEF UnixDays
  <1>15. DateFromUnixDays(n) \in {Fail, Ok([day |-> d, month |-> m, year |-> y])}
    BY <1>1, <1>2, <1>3, <1>5, <1>10, <1>12 DEF DateFromUnixDays
  <1>. QED  BY <1>13, <1>14, <1>15, Zenon

\* encode_date32 and decode_date: a date that append_date writes is read back as
\* the same day number, and a number it cannot write is an error.
THEOREM DatesSurvive ==
    ASSUME NEW n \in Int, AppendDate(n) # Fail
    PROVE  DateValue(AppendDate(n)[1]) = Ok(<<n>>)
  <1>1. PICK y \in Int, m \in 1..12, d \in Int :
             /\ 1 <= d /\ d <= MonthDays(y, m)
             /\ UnixDays([day |-> d, month |-> m, year |-> y]) = n
             /\ DateFromUnixDays(n) \in {Fail, Ok([day |-> d, month |-> m, year |-> y])}
    BY DateOfDay, ZenonT(30)
  <1>2. DateFromUnixDays(n) # Fail
    BY Zenon DEF AppendDate, Then
  <1>3. DateFromUnixDays(n) = Ok([day |-> d, month |-> m, year |-> y])
    BY <1>1, <1>2, ZenonT(30)
  <1>. DEFINE date == [day |-> d, month |-> m, year |-> y]
  <1>4. AppendDate(n) \in {Fail, Ok(DateFromUnixDays(n)[1])}
    BY <1>2 DEF AppendDate, Then
  <1>5. AppendDate(n)[1] = date
    <2>1. AppendDate(n) = Ok(DateFromUnixDays(n)[1])
      BY <1>4, Zenon
    <2>. QED  BY <1>3, <2>1 DEF Ok
  <1>6. ValidYmd(y, m, d)
    BY <1>1 DEF ValidYmd
  <1>7. DateValue(date) = Ok(<<DaysFromCivil(y, m, d)>>)
    <2>1. date.day = d /\ date.month = m /\ date.year = y /\ m # 255
      OBVIOUS
    <2>. HIDE DEF date
    <2>. QED  BY <1>6, <2>1, Zenon DEF DateValue
  <1>8. DaysFromCivil(y, m, d) = n
    BY <1>1, CivilDaysAgree
  <1>. QED  BY <1>5, <1>7, <1>8, Zenon

-----------------------------------------------------------------------------
(* Times.                                                                   *)

\* Division by a positive unit.
LEMMA Euclid ==
    ASSUME NEW a \in Int, NEW b \in Nat \ {0}
    PROVE  /\ a \div b \in Int /\ a % b \in Int
           /\ a = b * (a \div b) + (a % b) /\ 0 <= a % b /\ a % b < b
  <1>1. a \div b \in Int /\ a % b \in Int
    OBVIOUS
  <1>2. 0 <= a % b /\ a % b < b
    OBVIOUS
  <1>3. a = b * (a \div b) + (a % b)
    OBVIOUS
  <1>. QED  BY <1>1, <1>2, <1>3

\* The quotient and the remainder are unique.
LEMMA EuclidUnique ==
    ASSUME NEW b \in Nat \ {0}, NEW q \in Int, NEW r \in Int, 0 <= r, r < b
    PROVE  (b * q + r) \div b = q /\ (b * q + r) % b = r
  OBVIOUS

\* Products may be rearranged.
LEMMA Products ==
    ASSUME NEW a \in Int, NEW b \in Int, NEW c \in Int
    PROVE  a * (a * b + c) = (a * a) * b + a * c /\ b * a * a = (a * a) * b
  <1>1. a * (a * b + c) = (a * a) * b + a * c
    OBVIOUS
  <1>2. b * a * a = (a * a) * b
    OBVIOUS
  <1>. QED  BY <1>1, <1>2

\* A positive factor keeps the order.
LEMMA MulOrder ==
    ASSUME NEW a \in Nat \ {0}, NEW x \in Int, NEW y \in Int, a * x < a * y
    PROVE  x < y
  <1>. SUFFICES ASSUME y <= x PROVE FALSE
    OBVIOUS
  <1>1. a * y <= a * x
    OBVIOUS
  <1>. QED  BY <1>1

\* The units of a day, multiplied out.
LEMMA Units ==
    /\ Thousand \in Nat \ {0} /\ Sixty \in Nat \ {0} /\ Hours \in Nat \ {0}
    /\ Thousand * Thousand \in Nat \ {0} /\ Sixty * Sixty \in Nat \ {0}
    /\ DayMillis \in Nat \ {0} /\ DayMicros \in Nat \ {0}
    /\ DayMicros = (Thousand * Thousand) * ((Sixty * Sixty) * Hours)
  <1>1. Thousand \in Nat \ {0} /\ Sixty \in Nat \ {0} /\ Hours \in Nat \ {0}
    BY UnitsAssumption
  <1>2. Thousand * Thousand \in Nat \ {0} /\ Sixty * Sixty \in Nat \ {0}
    BY <1>1
  <1>3. (Sixty * Sixty) * Hours \in Nat \ {0}
    BY <1>1, <1>2
  <1>4. DayMillis = Thousand * ((Sixty * Sixty) * Hours)
    BY <1>1 DEF DayMillis
  <1>5. DayMillis \in Nat \ {0}
    BY <1>1, <1>3, <1>4
  <1>6. DayMicros = (Thousand * Thousand) * ((Sixty * Sixty) * Hours)
    BY <1>1, <1>3, <1>4 DEF DayMicros
  <1>7. DayMicros \in Nat \ {0}
    BY <1>2, <1>3, <1>6
  <1>. QED  BY <1>1, <1>2, <1>5, <1>6, <1>7

\* encode_time and decode_time: a time of day that append_time splits into its
\* fields is put together again, and its microseconds are never the nil mark.
THEOREM TimesSurvive ==
    ASSUME NEW us \in Int, 0 <= us, us < DayMicros
    PROVE  /\ AppendTime(us) # Fail
           /\ TimeValue(AppendTime(us)[1]) = Ok(<<us>>)
  <1>. DEFINE million == Thousand * Thousand
              square  == Sixty * Sixty
  <1>1. million \in Nat \ {0} /\ square \in Nat \ {0} /\ Sixty \in Nat \ {0} /\ Hours \in Nat \ {0}
        /\ Thousand \in Nat /\ DayMicros \in Nat \ {0} /\ DayMicros = million * (square * Hours)
    BY Units
  <1>. HIDE DEF million, square
  <1>2. PICK s \in Int, f \in Int : /\ s = us \div million /\ f = us % million
                                    /\ us = million * s + f /\ 0 <= f /\ f < million
    <2>1. million \in Nat \ {0}
      BY <1>1
    <2>. QED  BY <2>1, Euclid
  <1>3. PICK mt \in Int, sec \in Int : /\ mt = s \div Sixty /\ sec = s % Sixty
                                       /\ s = Sixty * mt + sec /\ 0 <= sec /\ sec < Sixty
    <2>1. Sixty \in Nat \ {0}
      BY <1>1
    <2>. QED  BY <2>1, Euclid
  <1>4. PICK h \in Int, mn \in Int : /\ h = mt \div Sixty /\ mn = mt % Sixty
                                     /\ mt = Sixty * h + mn /\ 0 <= mn /\ mn < Sixty
    <2>1. Sixty \in Nat \ {0}
      BY <1>1
    <2>. QED  BY <2>1, Euclid
  <1>5. s = square * h + (Sixty * mn + sec)
    <2>1. Sixty * (Sixty * h + mn) = (Sixty * Sixty) * h + Sixty * mn
      BY <1>1, Products
    <2>2. s = Sixty * (Sixty * h + mn) + sec
      BY <1>3, <1>4
    <2>3. (Sixty * Sixty) * h \in Int /\ Sixty * mn \in Int
      BY <1>1, <1>4
    <2>. QED  BY <1>3, <2>1, <2>2, <2>3 DEF square
  <1>6. Sixty * mn + sec \in Int /\ 0 <= Sixty * mn + sec /\ Sixty * mn + sec < square
    <2>1. Sixty * mn <= Sixty * (Sixty - 1) /\ 0 <= Sixty * mn
      BY <1>1, <1>4
    <2>2. Sixty * (Sixty - 1) = square - Sixty
      BY <1>1 DEF square
    <2>. QED  BY <1>1, <1>3, <1>4, <2>1, <2>2
  <1>7. s \div square = h
    BY <1>1, <1>5, <1>6, EuclidUnique
  <1>8. h < Hours
    <2>1. million * s < million * (square * Hours)
      BY <1>1, <1>2
    <2>2. square * Hours \in Int
      BY <1>1
    <2>3. s < square * Hours
      BY <1>1, <2>1, <2>2, MulOrder
    <2>4. square * h < square * Hours
      BY <1>1, <1>5, <1>6, <2>2, <2>3
    <2>. QED  BY <1>1, <2>4, MulOrder
  <1>. DEFINE time == [micros |-> f, second |-> sec, minute |-> mn, hour |-> h, pad |-> 0]
  <1>9. AppendTime(us) = Ok(time)
    <2>1. us \in 0 .. DayMicros - 1
      BY <1>1
    <2>2. us % (Thousand * Thousand) = f /\ us \div (Thousand * Thousand) = s
      BY <1>2 DEF million
    <2>3. s \div (Sixty * Sixty) = h
      BY <1>7 DEF square
    <2>. QED  BY <1>3, <1>4, <2>1, <2>2, <2>3, Zenon DEF AppendTime
  <1>10. f # NilTime.micros
    <2>1. Half[4] \in Nat /\ Thousand * Thousand < 2 * Half[4]
      BY WidthsAssumption DEF Widths
    <2>. QED  BY <1>1, <1>2, <2>1 DEF NilTime, million
  <1>11. ((h * Sixty + mn) * Sixty + sec) * Thousand * Thousand + f = us
    <2>1. (h * Sixty + mn) * Sixty + sec = s
      <3>1. h * Sixty + mn = mt
        BY <1>1, <1>4
      <3>2. mt * Sixty + sec = s
        BY <1>1, <1>3
      <3>. QED  BY <3>1, <3>2
    <2>2. s * Thousand * Thousand = million * s
      BY <1>1, Products DEF million
    <2>. QED  BY <1>2, <2>1, <2>2
  <1>12. TimeValue(time) = Ok(<<us>>)
    <2>1. /\ time.micros = f /\ time.second = sec /\ time.minute = mn /\ time.hour = h
      OBVIOUS
    <2>2. ~(f >= Thousand * Thousand \/ sec >= Sixty \/ mn >= Sixty \/ h >= Hours)
      BY <1>1, <1>2, <1>3, <1>4, <1>8 DEF million
    <2>. HIDE DEF time
    <2>. QED  BY <1>10, <1>11, <2>1, <2>2, Zenon DEF TimeValue
  <1>. HIDE DEF time
  <1>. QED  BY <1>9, <1>12 DEF Ok, Fail

-----------------------------------------------------------------------------
(* Cells: what encode_column writes for one row, decode_column reads back.   *)

\* Rust's division is exact when the Euclidean remainder is zero.
LEMMA TruncExact ==
    ASSUME NEW a \in Int, NEW b \in Nat \ {0}, a % b = 0
    PROVE  TruncDiv(a, b) \in Int /\ TruncDiv(a, b) * b = a
  <1>1. PICK q \in Int : q = a \div b /\ a = b * q + 0
    BY Euclid
  <1>2. CASE a >= 0
    BY <1>1, <1>2 DEF TruncDiv
  <1>3. CASE a < 0
    <2>1. -a = b * (-q) + 0
      BY <1>1
    <2>2. (-a) \div b = -q
      BY <1>1, <2>1, EuclidUnique
    <2>. QED  BY <1>1, <1>3, <2>2 DEF TruncDiv
  <1>. QED  BY <1>2, <1>3

\* append_timestamp and decode_timestamp: the day and the time of day that a
\* count of microseconds, also a negative one, is split into make it again.
THEOREM TimestampsSurvive ==
    ASSUME NEW us \in Int, AppendTimestamp(us) # Fail
    PROVE  TimestampValue(AppendTimestamp(us)[1]) = Ok(<<us>>)
  <1>1. DayMicros \in Nat \ {0}
    BY Units
  <1>2. PICK n \in Int, t \in Int : /\ n = us \div DayMicros /\ t = us % DayMicros
                                    /\ us = DayMicros * n + t /\ 0 <= t /\ t < DayMicros
    BY <1>1, Euclid
  <1>3. AppendTime(t) # Fail /\ TimeValue(AppendTime(t)[1]) = Ok(<<t>>)
    BY <1>2, TimesSurvive
  <1>4. AppendTimestamp(us) = Then(AppendDate(n), LAMBDA date :
                                   Ok([time |-> AppendTime(t)[1], date |-> date]))
    BY <1>2, <1>3, Zenon DEF AppendTimestamp, Then
  <1>5. AppendDate(n) # Fail
    BY <1>4, Zenon DEF Then
  <1>6. DateValue(AppendDate(n)[1]) = Ok(<<n>>)
    BY <1>5, DatesSurvive
  <1>7. AppendTimestamp(us) = Ok([time |-> AppendTime(t)[1], date |-> AppendDate(n)[1]])
    BY <1>4, <1>5, Zenon DEF Then
  <1>. DEFINE slot == [time |-> AppendTime(t)[1], date |-> AppendDate(n)[1]]
  <1>8. AppendTimestamp(us)[1] = slot
    BY <1>7 DEF Ok
  <1>9. slot.time = AppendTime(t)[1] /\ slot.date = AppendDate(n)[1]
    OBVIOUS
  <1>. HIDE DEF slot
  <1>10. TimestampValue(slot) = Ok(<<n * DayMicros + t>>)
    <2>1. Ok(<<t>>) # Fail /\ Ok(<<n>>) # Fail /\ Ok(<<t>>)[1] = <<t>> /\ Ok(<<n>>)[1] = <<n>>
      BY DEF Ok, Fail
    <2>2. <<t>> # <<>> /\ <<n>> # <<>> /\ <<t>>[1] = t /\ <<n>>[1] = n
      OBVIOUS
    <2>. QED  BY <1>3, <1>6, <1>9, <2>1, <2>2, ZenonT(30) DEF TimestampValue, Then
  <1>11. n * DayMicros + t = us
    BY <1>1, <1>2
  <1>. QED  BY <1>8, <1>10, <1>11, Zenon

\* encode_primitive and decode_primitive: only the value that marks NULL is
\* refused, every other integer and every null is read back as itself.
THEOREM IntegerCells ==
    ASSUME NEW w \in Widths, NEW c \in Cells(Int)
    PROVE  /\ (EncodePrimitive(w, c) = Fail) <=> (c.valid /\ c.value = -Half[w])
           /\ EncodePrimitive(w, c) # Fail =>
                DecodePrimitive(w, EncodePrimitive(w, c)[1]) = Ok(Option(c))
  BY DEF EncodePrimitive, DecodePrimitive, Option, Cells, Ok, Fail

\* The unsigned! macro: a value of the narrower unsigned type fits the wire
\* type, is never its NULL mark, and none is refused.
THEOREM UnsignedCells ==
    ASSUME NEW v \in {1, 2, 4, 8}, NEW c \in Cells(Nat), c.value < 2 * Half[v]
    PROVE  /\ EncodeUnsigned(2 * v, c) # Fail
           /\ EncodeUnsigned(2 * v, c)[1] \in Signed(2 * v)
           /\ DecodePrimitive(2 * v, EncodeUnsigned(2 * v, c)[1]) = Ok(Option(c))
  <1>1. /\ 2 * v \in Widths /\ Half[v] \in Nat \ {0} /\ Half[2 * v] \in Nat \ {0}
        /\ 2 * Half[v] <= Half[2 * v]
    BY WidthsAssumption DEF Widths
  <1>2. c.value \in Nat /\ c.valid \in BOOLEAN
    BY DEF Cells
  <1>. QED  BY <1>1, <1>2 DEF EncodeUnsigned, DecodePrimitive, Option, Signed, Ok, Fail

\* encode_oid and the Oid arm of decode_column: half of the unsigned range is
\* usable, the rest is refused, and NULL is the first value beyond.
THEOREM OidCells ==
    ASSUME NEW c \in Cells(Nat)
    PROVE  LET m == Monet("Oid", 0, 0) IN
           /\ (EncodeOid(c) = Fail) <=> (c.valid /\ c.value >= Half[8])
           /\ EncodeOid(c) # Fail => DecodeCell(m, EncodeOid(c)[1]) = Ok(Option(c))
  <1>1. c.value \in Nat /\ c.valid \in BOOLEAN /\ Half[8] \in Nat
    BY WidthsAssumption DEF Cells, Widths
  <1>2. ASSUME NEW x
        PROVE  DecodeCell(Monet("Oid", 0, 0), x) = IF x = Half[8] THEN Ok(<<>>) ELSE Ok(<<x>>)
    BY DEF DecodeCell, Monet
  <1>. QED  BY <1>1, <1>2 DEF EncodeOid, Option, Ok, Fail

\* encode_decimal and decode_decimal: exactly the values of more digits than
\* the declared precision are refused; every other one fits its backing
\* integer, is not its NULL mark and passes the decoder's precision check.
THEOREM DecimalCells ==
    ASSUME NEW p \in 1..38, NEW c \in Cells(Int)
    PROVE  LET slot == EncodeDecimal(p, TRUE, c) IN
           /\ (slot = Fail) <=> (c.valid /\ (c.value <= -Pow10[p] \/ c.value >= Pow10[p]))
           /\ slot # Fail => DecodeDecimal(p, DecimalWidth(p), slot[1]) = Ok(Option(c))
  <1>1. PICK w \in Widths : w = DecimalWidth(p)
    BY DEF DecimalWidth, Widths
  <1>2. Half[w] \in Nat \ {0} /\ Pow10[p] \in Nat \ {0} /\ Pow10[p] <= Half[w]
    BY <1>1, WidthsAssumption
  <1>3. c.value \in Int /\ c.valid \in BOOLEAN
    BY SMTT(30) DEF Cells
  <1>4. CASE ~c.valid
    BY <1>1, <1>4, SMTT(30) DEF EncodeDecimal, DecodeDecimal, Option, Ok, Fail
  <1>5. CASE c.valid /\ (c.value <= -Pow10[p] \/ c.value >= Pow10[p])
    BY <1>5 DEF EncodeDecimal, Fail
  <1>6. CASE c.valid /\ ~(c.value <= -Pow10[p] \/ c.value >= Pow10[p])
    <2>1. c.value \in Signed(w) /\ c.value # -Half[w]
      BY <1>2, <1>3, <1>6 DEF Signed
    <2>2. EncodeDecimal(p, TRUE, c) = Ok(c.value)
      BY <1>1, <1>6, <2>1, Zenon DEF EncodeDecimal
    <2>3. DecodeDecimal(p, w, c.value) = Ok(<<c.value>>)
      BY <1>6, <2>1, Zenon DEF DecodeDecimal
    <2>4. Ok(c.value) # Fail /\ Ok(c.value)[1] = c.value
      BY DEF Ok, Fail
    <2>. QED  BY <1>1, <1>6, <2>2, <2>3, <2>4, Zenon DEF Option
  <1>. QED  BY <1>4, <1>5, <1>6, Zenon

\* i64::checked_mul returns the product or nothing.
LEMMA CheckedProduct ==
    ASSUME NEW a \in Int, NEW f \in Int
    PROVE  CheckedMul(a, f) \in {Fail, Ok(a * f)}
  BY SMTT(30) DEF CheckedMul

\* encode_date32, encode_date64 and decode_date with nulls: days come back as
\* days, milliseconds as the days they are a multiple of.
THEOREM DateCells ==
    ASSUME NEW type \in {"Date32", "Date64"}, NEW c \in Cells(Int), EncodeDate(type, c) # Fail
    PROVE  LET read == DateValue(EncodeDate(type, c)[1]) IN
           /\ ~c.valid => read = Ok(<<>>)
           /\ c.valid /\ type = "Date32" => read = Ok(<<c.value>>)
           /\ c.valid /\ type = "Date64" => \E n \in Int : n * DayMillis = c.value /\ read = Ok(<<n>>)
  <1>1. c.value \in Int /\ c.valid \in BOOLEAN
    BY DEF Cells
  <1>2. CASE ~c.valid
    <2>1. EncodeDate(type, c)[1] = NilDate
      BY <1>2 DEF EncodeDate, Ok
    <2>2. DateValue(NilDate) = Ok(<<>>)
      BY DEF DateValue, NilDate
    <2>. QED  BY <1>2, <2>1, <2>2, Zenon
  <1>3. CASE c.valid /\ type = "Date32"
    <2>1. EncodeDate(type, c) = AppendDate(c.value)
      BY <1>3, Zenon DEF EncodeDate
    <2>2. DateValue(AppendDate(c.value)[1]) = Ok(<<c.value>>)
      BY <1>1, <2>1, DatesSurvive
    <2>3. "Date32" # "Date64"
      OBVIOUS
    <2>. QED  BY <1>3, <2>1, <2>2, <2>3, Zenon
  <1>4. CASE c.valid /\ type = "Date64"
    <2>1. "Date64" # "Date32"
      OBVIOUS
    <2>2. c.value % DayMillis = 0 /\ EncodeDate(type, c) = AppendDate(TruncDiv(c.value, DayMillis))
      BY <1>4, <2>1, Zenon DEF EncodeDate
    <2>3. TruncDiv(c.value, DayMillis) \in Int /\ TruncDiv(c.value, DayMillis) * DayMillis = c.value
      BY <1>1, <2>2, Units, TruncExact
    <2>4. DateValue(AppendDate(TruncDiv(c.value, DayMillis))[1]) = Ok(<<TruncDiv(c.value, DayMillis)>>)
      BY <2>2, <2>3, DatesSurvive, SMTT(30)
    <2>. QED  BY <1>4, <2>1, <2>2, <2>3, <2>4, Zenon
  <1>. QED  BY <1>1, <1>2, <1>3, <1>4

\* encode_timestamp and decode_timestamp with nulls and units: a coarser unit
\* comes back multiplied, nanoseconds come back as the microseconds they are a
\* multiple of, and no accepted value changes.
THEOREM TimestampCells ==
    ASSUME NEW unit \in {"s", "ms", "us", "ns"}, NEW c \in Cells(Int),
           EncodeTimestamp(unit, c) # Fail
    PROVE  LET read == TimestampValue(EncodeTimestamp(unit, c)[1]) IN
           /\ ~c.valid => read = Ok(<<>>)
           /\ c.valid /\ unit = "ns" => \E us \in Int : us * Thousand = c.value /\ read = Ok(<<us>>)
           /\ c.valid /\ unit # "ns" => read = Ok(<<c.value * MicrosPer(unit)>>)
  <1>1. c.value \in Int /\ c.valid \in BOOLEAN
    BY DEF Cells
  <1>2. CASE ~c.valid
    <2>. DEFINE nil == [time |-> NilTime, date |-> NilDate]
    <2>1. EncodeTimestamp(unit, c)[1] = nil
      BY <1>2 DEF EncodeTimestamp, Ok
    <2>2. nil.time = NilTime /\ nil.date = NilDate
      OBVIOUS
    <2>. HIDE DEF nil
    <2>3. TimeValue(NilTime) = Ok(<<>>) /\ DateValue(NilDate) = Ok(<<>>)
      BY DEF TimeValue, DateValue, NilDate
    <2>4. Ok(<<>>) # Fail /\ Ok(<<>>)[1] = <<>>
      BY DEF Ok, Fail
    <2>5. TimestampValue(nil) = Ok(<<>>)
      BY <2>2, <2>3, <2>4, Zenon DEF TimestampValue, Then
    <2>. QED  BY <1>2, <2>1, <2>5, Zenon
  <1>3. CASE c.valid /\ unit = "ns"
    <2>1. /\ c.value % Thousand = 0
          /\ EncodeTimestamp(unit, c) = AppendTimestamp(TruncDiv(c.value, Thousand))
      BY <1>3, Zenon DEF EncodeTimestamp
    <2>2. TruncDiv(c.value, Thousand) \in Int /\ TruncDiv(c.value, Thousand) * Thousand = c.value
      BY <1>1, <2>1, Units, TruncExact
    <2>3. TimestampValue(AppendTimestamp(TruncDiv(c.value, Thousand))[1])
            = Ok(<<TruncDiv(c.value, Thousand)>>)
      BY <2>1, <2>2, TimestampsSurvive
    <2>. QED  BY <1>3, <2>1, <2>2, <2>3, Zenon
  <1>4. CASE c.valid /\ unit # "ns"
    <2>1. MicrosPer(unit) \in Int /\ c.value * MicrosPer(unit) \in Int
      <3>1. MicrosPer(unit) \in Int
        BY Units DEF MicrosPer
      <3>. QED  BY <1>1, <3>1
    <2>2. CheckedMul(c.value, MicrosPer(unit)) \in {Fail, Ok(c.value * MicrosPer(unit))}
      BY <1>1, <2>1, CheckedProduct
    <2>3. EncodeTimestamp(unit, c) = Then(CheckedMul(c.value, MicrosPer(unit)), AppendTimestamp)
      BY <1>4, Zenon DEF EncodeTimestamp
    <2>4. CheckedMul(c.value, MicrosPer(unit)) # Fail
      BY <2>3, Zenon DEF Then
    <2>5. CheckedMul(c.value, MicrosPer(unit)) = Ok(c.value * MicrosPer(unit))
      BY <2>2, <2>4, Zenon
    <2>6. Ok(c.value * MicrosPer(unit))[1] = c.value * MicrosPer(unit)
      BY DEF Ok
    <2>7. EncodeTimestamp(unit, c) = AppendTimestamp(c.value * MicrosPer(unit))
      BY <2>3, <2>4, <2>5, <2>6, Zenon DEF Then
    <2>8. TimestampValue(AppendTimestamp(c.value * MicrosPer(unit))[1])
            = Ok(<<c.value * MicrosPer(unit)>>)
      BY <2>1, <2>7, TimestampsSurvive, SMTT(30)
    <2>. QED  BY <1>4, <2>7, <2>8, Zenon
  <1>. QED  BY <1>1, <1>2, <1>3, <1>4


\* encode_duration and decode_primitive: an accepted duration comes back as the
\* same length in milliseconds, and the NULL mark is never written for one.
THEOREM DurationCells ==
    ASSUME NEW unit \in {"s", "ms", "us", "ns"}, NEW wholeDays \in BOOLEAN, NEW c \in Cells(Int),
           EncodeDuration(unit, wholeDays, c) # Fail
    PROVE  LET read == DecodePrimitive(8, EncodeDuration(unit, wholeDays, c)[1]) IN
           /\ ~c.valid => read = Ok(<<>>)
           /\ c.valid => \E ms \in Int :
                /\ read = Ok(<<ms>>)
                /\ unit = "s" => ms = c.value * Thousand
                /\ unit = "ms" => ms = c.value
                /\ unit = "us" => ms * Thousand = c.value
                /\ unit = "ns" => ms * (Thousand * Thousand) = c.value
  <1>. DEFINE divisor == CASE unit = "us" -> Thousand [] unit = "ns" -> Thousand * Thousand [] OTHER -> 1
              factor  == IF unit = "s" THEN Thousand ELSE 1
              whole   == TruncDiv(c.value, divisor)
              millis  == CheckedMul(whole, factor)
  <1>1. c.value \in Int /\ c.valid \in BOOLEAN
    BY DEF Cells
  <1>2. /\ divisor \in Nat \ {0} /\ factor \in Int
        /\ unit = "s" => divisor = 1 /\ factor = Thousand
        /\ unit = "ms" => divisor = 1 /\ factor = 1
        /\ unit = "us" => divisor = Thousand /\ factor = 1
        /\ unit = "ns" => divisor = Thousand * Thousand /\ factor = 1
    BY Units
  <1>3. EncodeDuration(unit, wholeDays, c) =
          IF ~c.valid THEN Ok(-Half[8])
          ELSE IF c.value % divisor # 0 \/ millis = Fail THEN Fail
          ELSE IF millis[1] = -Half[8] \/ (wholeDays /\ millis[1] % DayMillis # 0) THEN Fail
          ELSE millis
    BY ZenonT(30) DEF EncodeDuration
  <1>. HIDE DEF divisor, factor, millis
  <1>4. CASE ~c.valid
    BY <1>3, <1>4 DEF DecodePrimitive, Ok
  <1>5. CASE c.valid
    <2>1. /\ c.value % divisor = 0 /\ millis # Fail /\ millis[1] # -Half[8]
          /\ EncodeDuration(unit, wholeDays, c) = millis
      BY <1>3, <1>5, Zenon
    <2>2. whole \in Int /\ whole * divisor = c.value
      <3>1. divisor \in Nat \ {0}
        BY <1>2
      <3>. QED  BY <1>1, <2>1, <3>1, TruncExact, Zenon
    <2>. HIDE DEF whole
    <2>3. millis \in {Fail, Ok(whole * factor)}
      BY <1>2, <2>2, CheckedProduct DEF millis
    <2>4. millis = Ok(whole * factor)
      BY <2>1, <2>3, Zenon
    <2>5. millis[1] = whole * factor
      BY <2>4 DEF Ok
    <2>6. DecodePrimitive(8, millis[1]) = Ok(<<whole * factor>>)
      BY <2>1, <2>5, Zenon DEF DecodePrimitive
    <2>7. whole * factor \in Int
      BY <1>2, <2>2
    <2>8. /\ unit = "s" => whole * factor = c.value * Thousand
          /\ unit = "ms" => whole * factor = c.value
          /\ unit = "us" => (whole * factor) * Thousand = c.value
          /\ unit = "ns" => (whole * factor) * (Thousand * Thousand) = c.value
      BY <1>1, <1>2, <2>2, Units
    <2>. QED  BY <1>5, <2>1, <2>6, <2>7, <2>8, Zenon
  <1>. QED  BY <1>1, <1>4, <1>5
=============================================================================
