---------------------------- MODULE DataQuality ----------------------------
(***************************************************************************)
(* The data quality processor (pravaha/dataquality/processor.py): one      *)
(* process that counts the events of events.validated and events.raw per   *)
(* minute in memory, and a flush task that upserts the counts of minutes   *)
(* that are over into data_quality_records.                                *)
(*                                                                         *)
(* Messages are copies <<e, n>> of an event: copy 0 is the one on          *)
(* events.validated, the others are on events.raw.  The consumer framework *)
(* around handle() is the one of StreamConsumer, reduced to what can be    *)
(* seen from here: check, handle, mark, retry, dead-letter, commit.  All   *)
(* events have the same producer.  A crash and a stop include the restart. *)
(***************************************************************************)
EXTENDS EventQuality

CONSTANTS
    Events,         \* event ids that reach a topic or a dead-letter row
    Raw,            \* Raw[e]: the submission the event came from
    Bucket,         \* Bucket[e]: the minute of its event_time
    MaxCopies,      \* bound: messages on events.raw per event
    MaxAttempts,    \* settings.consumer_retry_max_attempts
    MaxFaults,      \* bound: failing calls, rebalances and crashes in a behaviour
    MaxStops,       \* bound: graceful stops in a behaviour
    MaxClock        \* bound: the last minute of the behaviour

ASSUME QualityAssumption ==
    /\ Raw \in [Events -> RawEvents] /\ Bucket \in [Events -> Nat]
    /\ \A e \in Events : Parses(Raw[e]) => BuildsEnvelope(Raw[e])
    /\ MaxCopies \in Nat \ {0} /\ MaxAttempts \in Nat \ {0} /\ MaxClock \in Nat \ {0}
    /\ MaxFaults \in Nat /\ MaxStops \in Nat

VARIABLES
    pc,         \* where each copy is: not published, unread, in a task, done, committed
    attempt,    \* ctx.attempt of the copy's task
    record,     \* event_processing_records.status of the processor
    open,       \* the keys of _acc
    acc,        \* _acc, zero where there is no key
    rows,       \* data_quality_records, zero where there is no row
    flush,      \* _flush(): its phase, to_write, and the rows of its transaction
    clock,      \* the current minute
    dlq,        \* dead_letter_events.status of each entry
    faults, stops,  \* environment counters, capped by the bounds
    counted,    \* history: everything handle() counted, by bucket
    spoiled,    \* history: buckets in one of the code's windows of loss
    tallies,    \* history: how often the event was added to a total
    doubts      \* history: how often the record could not vouch for the event

taskVars == <<pc, attempt, record>>
flushVars == <<open, acc, rows, flush, counted, spoiled>>
onceVars == <<tallies, doubts>>
envVars == <<faults, stops>>
qualityVars == <<taskVars, flushVars, onceVars, envVars, clock, dlq>>

----------------------------------------------------------------------------
Copies == Events \X (0..MaxCopies)
OnValidated(c) == c[2] = 0
Buckets == {Bucket[e] : e \in Events}
\* Rows of dead_letter_events: processor, event, copy, and the how manieth row of
\* that message it is; a message is dead-lettered again only when it was delivered
\* again, which takes a fault.
Entries == ({"ingestion"} \X Events \X {0} \X {0})
            \cup ({"persistence"} \X Events \X {0} \X (0..MaxFaults))
            \cup ({"dataquality"} \X Events \X (0..MaxCopies) \X (0..MaxFaults))

Flags(e) == PublishedFlags(Raw[e])
\* Events that ingestion published; the others are only dead-letter rows.
Published(e) == BuildsEnvelope(Raw[e])
Accepted(e) == Published(e) /\ is_valid(Flags(e))

IdleFlush == [phase |-> "idle", keys |-> {}, snap |-> <<>>]
InTask == {"handle", "mark"}

Counts == [CountKeys -> Nat]

QualityTypeOK ==
    /\ pc \in [Copies -> {"none", "ready", "done", "committed"} \cup InTask]
    /\ attempt \in [Copies -> 1..MaxAttempts]
    /\ record \in [Events -> {"none", "processed", "failed"}]
    /\ open \in SUBSET Buckets /\ spoiled \in SUBSET Buckets
    /\ acc \in [Buckets -> Counts] /\ rows \in [Buckets -> Counts] /\ counted \in [Buckets -> Counts]
    /\ flush \in [phase: {"idle", "tx", "pop"}, keys: SUBSET Buckets, snap: {flush.snap}]
    /\ flush.snap \in [DOMAIN flush.snap -> Counts]
    /\ tallies \in [Events -> Nat] /\ doubts \in [Events -> Nat]
    /\ clock \in 1..MaxClock /\ faults \in 0..MaxFaults /\ stops \in 0..MaxStops
    /\ dlq \in [Entries -> {"absent", "PENDING", "RETRIED", "DISCARDED"}]

\* Ingestion has published the submitted events and stored the rejected ones.
QualityInit(submitted) ==
    /\ pc = [c \in Copies |->
                IF /\ c[1] \in submitted
                   /\ \/ c[2] = 0 /\ Accepted(c[1])
                      \/ c[2] = 1 /\ Published(c[1])
                THEN "ready" ELSE "none"]
    /\ attempt = [c \in Copies |-> 1]
    /\ record = [e \in Events |-> "none"]
    /\ open = {} /\ acc = [b \in Buckets |-> NoCounts] /\ rows = acc
    /\ flush = IdleFlush
    /\ clock = 1
    /\ dlq = [d \in Entries |->
                IF d[1] = "ingestion" /\ d[2] \in submitted /\ ~Accepted(d[2])
                THEN "PENDING" ELSE "absent"]
    /\ faults = 0 /\ stops = 0
    /\ counted = acc /\ spoiled = {}
    /\ tallies = [e \in Events |-> 0] /\ doubts = [e \in Events |-> 0]

----------------------------------------------------------------------------
(* The consumer framework around handle() *)

\* A dead letter is a new row, whatever became of earlier ones of the message.
DeadLetter(p, c) ==
    LET row(n) == <<p, c[1], c[2], n>>
    IN  \E n \in 0..MaxFaults :
            /\ dlq[row(n)] = "absent" /\ \A m \in 0..(n - 1) : dlq[row(m)] # "absent"
            /\ dlq' = [dlq EXCEPT ![row(n)] = "PENDING"]

\* _process_one() on a message that is no envelope: a dead letter at once.
Malformed(c) ==
    /\ pc[c] = "ready" /\ ~Published(c[1])
    /\ DeadLetter("dataquality", c)
    /\ pc' = [pc EXCEPT ![c] = "done"]
    /\ UNCHANGED <<attempt, record, flushVars, onceVars, envVars, clock>>

InATask(e) == \E n \in 0..MaxCopies : pc[<<e, n>>] \in InTask
\* History: from here on the record cannot vouch for a count of the event.
Doubt(e, really) == doubts' = [doubts EXCEPT ![e] = IF really THEN @ + 1 ELSE @]

\* Mutant: the idempotency record is not looked at.
CheckIgnoresRecord(c) ==
    /\ pc[c] = "ready" /\ Published(c[1])
    /\ pc' = [pc EXCEPT ![c] = "handle"]
    /\ Doubt(c[1], record[c[1]] # "processed" /\ InATask(c[1]))
    /\ UNCHANGED <<attempt, record, flushVars, tallies, envVars, clock, dlq>>

\* already_processed(): both topics share the record of the event.
Check(c) ==
    /\ pc[c] = "ready" /\ Published(c[1])
    /\ pc' = [pc EXCEPT ![c] = IF record[c[1]] = "processed" THEN "done" ELSE "handle"]
    /\ Doubt(c[1], record[c[1]] # "processed" /\ InATask(c[1]))
    /\ UNCHANGED <<attempt, record, flushVars, tallies, envVars, clock, dlq>>

\* An exception in an attempt: the message is tried again or, after the last one,
\* dead-lettered.
AttemptFails(c) ==
    IF attempt[c] < MaxAttempts
    THEN /\ pc' = [pc EXCEPT ![c] = "ready"]
         /\ attempt' = [attempt EXCEPT ![c] = @ + 1]
         /\ UNCHANGED dlq
    ELSE /\ pc' = [pc EXCEPT ![c] = "done"]
         /\ DeadLetter("dataquality", c)
         /\ UNCHANGED attempt

\* After the last attempt the event is recorded as failed, over a success too; a
\* failure of that write is suppressed.
MayBecome(c) == IF attempt[c] < MaxAttempts THEN {} ELSE {"failed"}
Becomes(e, status) == record' = [record EXCEPT ![e] = status]

\* already_processed() raises.
CheckFails(c) ==
    /\ pc[c] = "ready" /\ Published(c[1]) /\ faults < MaxFaults
    /\ faults' = faults + 1
    /\ AttemptFails(c)
    /\ \E status \in {record[c[1]]} \cup MayBecome(c) :
        /\ Becomes(c[1], status)
        /\ Doubt(c[1], record[c[1]] = "processed" /\ status # "processed")
    /\ UNCHANGED <<flushVars, tallies, stops, clock>>

\* What one message adds to its bucket.  The validated copy counts as valid;
\* a raw copy only when it carries a flag other than late_events.
Delta(c) ==
    LET flags == Flags(c[1])
        one(keys) == [k \in CountKeys |-> IF k \in keys THEN 1 ELSE 0]
    IN  IF OnValidated(c) THEN one({"total", "valid"} \cup (flags \cap {"late_events"}))
        ELSE IF flags \ {"late_events"} # {} THEN one({"total"} \cup flags)
        ELSE NoCounts

Add(x, y) == [k \in CountKeys |-> x[k] + y[k]]

\* handle() has no await.  Reading _acc[key] creates the entry even when
\* nothing is counted.
Handle(c) ==
    LET b == Bucket[c[1]] IN
    /\ pc[c] = "handle"
    /\ pc' = [pc EXCEPT ![c] = "mark"]
    /\ open' = open \cup {b}
    /\ acc' = [acc EXCEPT ![b] = Add(@, Delta(c))]
    /\ counted' = [counted EXCEPT ![b] = Add(@, Delta(c))]
    /\ tallies' = [tallies EXCEPT ![c[1]] = @ + Delta(c)["total"]]
    /\ spoiled' = IF \/ b \in DOMAIN flush.snap /\ Delta(c) # NoCounts
                     \/ b \notin open /\ rows[b] # NoCounts
                  THEN spoiled \cup {b} ELSE spoiled
    /\ UNCHANGED <<attempt, record, rows, flush, doubts, envVars, clock, dlq>>

\* mark_processed()
Mark(c) ==
    /\ pc[c] = "mark"
    /\ pc' = [pc EXCEPT ![c] = "done"]
    /\ record' = [record EXCEPT ![c[1]] = "processed"]
    /\ UNCHANGED <<attempt, flushVars, onceVars, envVars, clock, dlq>>

\* mark_processed() raises after handle() has counted, with the record written or
\* not.
MarkFails(c) ==
    /\ pc[c] = "mark" /\ faults < MaxFaults
    /\ faults' = faults + 1
    /\ AttemptFails(c)
    /\ \E status \in {record[c[1]], "processed"} \cup MayBecome(c) :
        /\ Becomes(c[1], status)
        /\ Doubt(c[1], status # "processed")
    /\ UNCHANGED <<flushVars, tallies, stops, clock>>

\* No task of the batch is under way, none waits for its next attempt.
Quiet == \A c \in Copies : pc[c] \notin InTask /\ (pc[c] = "ready" => attempt[c] = 1)
CommitDone == [c \in Copies |-> IF pc[c] = "done" THEN "committed" ELSE pc[c]]

\* The loop commits offsets when every task of the batch has returned.
Commit ==
    /\ Quiet /\ CommitDone # pc
    /\ pc' = CommitDone
    /\ UNCHANGED <<attempt, record, flushVars, onceVars, envVars, clock, dlq>>

\* A rebalance gives the partitions back before the batch is committed (external):
\* it comes again, to a process that still has its memory.
Rebalance ==
    /\ Quiet /\ faults < MaxFaults
    /\ faults' = faults + 1
    /\ pc' = [c \in Copies |-> IF pc[c] = "done" THEN "ready" ELSE pc[c]]
    /\ attempt' = [c \in Copies |-> 1]
    /\ UNCHANGED <<record, flushVars, onceVars, stops, clock, dlq>>

----------------------------------------------------------------------------
(* The flush task *)

\* Minutes are multiples of 60 s, so now - 90 s leaves the last two out.
Ready == {b \in open : b <= clock - 2}

\* A row's values are read when its turn comes.
Reading(snap, b) == [x \in DOMAIN snap \cup {b} |-> IF x = b THEN acc[b] ELSE snap[x]]

\* _flush(): to_write is chosen once; the first row's values are read before
\* the first await.
FlushBegin ==
    /\ flush.phase = "idle"
    /\ \E b \in Ready :
        flush' = [phase |-> "tx", keys |-> Ready, snap |-> Reading(<<>>, b)]
    /\ UNCHANGED <<taskVars, open, acc, rows, counted, spoiled, onceVars, envVars, clock, dlq>>

\* The rows that follow, each after an await.
FlushWrite ==
    /\ flush.phase = "tx"
    /\ \E b \in flush.keys \ DOMAIN flush.snap :
        flush' = [flush EXCEPT !.snap = Reading(@, b)]
    /\ UNCHANGED <<taskVars, open, acc, rows, counted, spoiled, onceVars, envVars, clock, dlq>>

\* The transaction commits; the upsert replaces the row.
FlushCommit ==
    /\ flush.phase = "tx" /\ DOMAIN flush.snap = flush.keys
    /\ rows' = [b \in Buckets |-> IF b \in DOMAIN flush.snap THEN flush.snap[b] ELSE rows[b]]
    /\ flush' = [flush EXCEPT !.phase = "pop"]
    /\ UNCHANGED <<taskVars, open, acc, counted, spoiled, onceVars, envVars, clock, dlq>>

\* The transaction fails and is rolled back; _flush_loop() logs it.
FlushFails ==
    /\ flush.phase = "tx" /\ faults < MaxFaults
    /\ faults' = faults + 1
    /\ flush' = IdleFlush
    /\ UNCHANGED <<taskVars, open, acc, rows, counted, spoiled, onceVars, stops, clock, dlq>>

\* Mutant: memory is cleared as a whole.
FlushPopAll ==
    /\ flush.phase = "pop"
    /\ open' = {}
    /\ acc' = [b \in Buckets |-> NoCounts]
    /\ flush' = IdleFlush
    /\ UNCHANGED <<taskVars, rows, counted, spoiled, onceVars, envVars, clock, dlq>>

\* The entries are dropped from memory, whatever was counted since.
FlushPop ==
    /\ flush.phase = "pop"
    /\ open' = open \ flush.keys
    /\ acc' = [b \in Buckets |-> IF b \in flush.keys THEN NoCounts ELSE acc[b]]
    /\ flush' = IdleFlush
    /\ UNCHANGED <<taskVars, rows, counted, spoiled, onceVars, envVars, clock, dlq>>

FlushStep == FlushBegin \/ FlushWrite \/ FlushCommit \/ FlushPop

----------------------------------------------------------------------------
\* A process ends and a new one begins with an empty _acc.
EndOfProcess ==
    /\ open' = {} /\ acc' = [b \in Buckets |-> NoCounts]
    /\ flush' = IdleFlush
    /\ attempt' = [c \in Copies |-> 1]

Unwritten == {b \in open : rows[b] # acc[b]}

\* stop() after the last batch: the flusher is cancelled, everything is flushed
\* by force, a failure of that is suppressed, offsets are committed.
Stop ==
    /\ Quiet /\ stops < MaxStops
    /\ stops' = stops + 1
    /\ pc' = CommitDone
    /\ EndOfProcess
    /\ \/ /\ rows' = [b \in Buckets |-> IF b \in open THEN acc[b] ELSE rows[b]]
          /\ UNCHANGED <<spoiled, faults>>
       \/ /\ faults < MaxFaults /\ faults' = faults + 1
          /\ spoiled' = spoiled \cup Unwritten
          /\ UNCHANGED rows
    /\ UNCHANGED <<record, counted, onceVars, clock, dlq>>

\* The process dies (external): memory is gone, uncommitted messages come again.
Crash ==
    /\ faults < MaxFaults
    /\ faults' = faults + 1
    /\ pc' = [c \in Copies |-> IF pc[c] \in InTask \cup {"done"} THEN "ready" ELSE pc[c]]
    /\ doubts' = [e \in Events |->
                    IF record[e] # "processed" /\ \E n \in 0..MaxCopies : pc[<<e, n>>] = "mark"
                    THEN doubts[e] + 1 ELSE doubts[e]]
    /\ EndOfProcess
    /\ spoiled' = spoiled \cup Unwritten
    /\ UNCHANGED <<record, rows, counted, tallies, stops, clock, dlq>>

Tick ==
    /\ clock < MaxClock
    /\ clock' = clock + 1
    /\ UNCHANGED <<taskVars, flushVars, onceVars, envVars, dlq>>

TaskStep == \E c \in Copies : Malformed(c) \/ Check(c) \/ Handle(c) \/ Mark(c)

QualityNext ==
    \/ TaskStep
    \/ \E c \in Copies : CheckFails(c) \/ MarkFails(c)
    \/ Commit
    \/ Rebalance
    \/ FlushStep
    \/ FlushFails
    \/ Stop
    \/ Crash
    \/ Tick

----------------------------------------------------------------------------
(* Properties *)

\* A row of data_quality_records never says more than was counted.  Outside the
\* windows the code leaves open (counting while the bucket's transaction is under
\* way, counting into a bucket whose row was written, a crash, a failing last
\* flush) no count is lost either: a bucket that has left memory has exactly its
\* events in its row.  And as long as a bucket has fewer than Unit events, so that
\* rounding cannot hide one, every flag in a row lowers one of its five sub-scores
\* and nothing else does.
RowsAreExact ==
    /\ \A b \in Buckets \ (open \cup spoiled) : rows[b] = counted[b]
    /\ \A b \in Buckets : \A k \in CountKeys : rows[b][k] <= counted[b][k]
    /\ \A b \in Buckets : rows[b]["total"] < Unit =>
          LET s == score_from_counts(rows[b])
          IN  (\A k \in DOMAIN s : s[k] = Unit) <=> (\A f \in QualityFlags : rows[b][f] = 0)

\* A raw copy of the event adds nothing.
Uncounted(e) == Delta(<<e, 1>>) = NoCounts
\* The processor has given up a copy of the event.
GaveUp(e) == \E n \in 0..MaxCopies, k \in 0..MaxFaults : dlq[<<"dataquality", e, n, k>>] # "absent"

\* handle()'s comment "only count each event once".  Not more often: every further
\* count of an event, over both topics, redeliveries and retried dead letters, takes
\* a doubt of its own: a copy admitted while another was in a task, a count whose
\* mark raised or was lost in a crash, or a failing check that overwrote the record.
\* Not less: an event that was consumed from events.validated and is in no total is
\* a dead letter, or was hidden by its raw copy, which adds nothing and marks the
\* record both topics share.
CountedOnce ==
    \A e \in Events :
        /\ tallies[e] <= 1 + doubts[e]
        /\ pc[<<e, 0>>] = "committed" /\ tallies[e] = 0 =>
              GaveUp(e) \/ (record[e] = "processed" /\ Uncounted(e))

----------------------------------------------------------------------------
(* Inductive invariants *)

\* The flush works on open buckets, and has read all of its own when it committed.
FlushIsWithin ==
    /\ flush.keys \subseteq open /\ DOMAIN flush.snap \subseteq flush.keys
    /\ flush.phase = "pop" => DOMAIN flush.snap = flush.keys

\* Outside the windows of loss: what is in memory is all that was counted, what is
\* not in memory is in the row, and what the flush has read is still so.
BucketIsExact(b) ==
    /\ b \in open => acc[b] = counted[b]
    /\ b \notin open => rows[b] = counted[b]
    /\ b \in DOMAIN flush.snap => flush.snap[b] = acc[b]
    /\ b \in DOMAIN flush.snap /\ flush.phase = "pop" => rows[b] = acc[b]

MemoryIsOpen == \A b \in Buckets \ open : acc[b] = NoCounts

ExactInv ==
    /\ FlushIsWithin /\ MemoryIsOpen
    /\ \A b \in Buckets \ spoiled : BucketIsExact(b)

\* What was read, written or is in memory was counted.
NothingInvented ==
    \A b \in Buckets : \A k \in CountKeys :
        /\ acc[b][k] <= counted[b][k] /\ rows[b][k] <= counted[b][k]
        /\ b \in DOMAIN flush.snap => flush.snap[b][k] <= counted[b][k]

\* A copy that is about to be counted has been paid for, and what was counted is
\* on record or doubtful once no copy is in a task.
AboutToCount(e) == {n \in 0..MaxCopies : pc[<<e, n>>] = "handle"}
OnceInv(e) ==
    /\ tallies[e] + Cardinality(AboutToCount(e)) <= 1 + doubts[e]
    /\ record[e] # "processed" /\ ~InATask(e) => tallies[e] <= doubts[e]

\* An event that is marked or about to be is counted, or its raw copy adds nothing;
\* one that failed is a dead letter; and a copy of events.validated that is done with
\* was counted, is on record, or was given up.
SeenInv(e) ==
    /\ record[e] = "processed" => tallies[e] > 0 \/ Uncounted(e)
    /\ record[e] = "failed" => GaveUp(e)
    /\ \A n \in 0..MaxCopies :
          pc[<<e, n>>] = "mark" => tallies[e] > 0 \/ (n # 0 /\ Uncounted(e))
    /\ pc[<<e, 0>>] \in {"done", "committed"} =>
          tallies[e] > 0 \/ record[e] = "processed" \/ GaveUp(e)
=============================================================================
