--------------------------- MODULE StreamConsumer ---------------------------
(***************************************************************************)
(* The consumer framework of pravaha/kafka/consumer.py: a consumer group   *)
(* of StreamConsumer processes that fetch batches, run one task per        *)
(* message (idempotency check, handle, mark, retry, dead-letter), and      *)
(* commit explicit offsets when the whole batch is done.                   *)
(*                                                                         *)
(* One task step is the code between two awaits.  A step that calls        *)
(* PostgreSQL, Kafka or the handler may fail when its name is in Faults.   *)
(* Members crash (losing every task), stop gracefully on SIGTERM, restart  *)
(* and are re-assigned partitions by the group coordinator (external) in   *)
(* the middle of a batch.                                                  *)
(*                                                                         *)
(* Left out: metrics, logging, latencies, the length of the backoff.  The  *)
(* log is fixed: a fetch may return any shorter run of messages, so it     *)
(* also stands for a log that grows.                                       *)
(***************************************************************************)
EXTENDS Integers, Sequences, FiniteSets

CONSTANTS
    Members,        \* processes of one consumer group
    Partitions,     \* topic partitions it subscribes to
    EventIds,       \* event_id values
    Log,            \* Log[p]: the event ids of partition p, in offset order
    Malformed,      \* event ids EventEnvelope.from_wire rejects
    Envelope,       \* FALSE for events.metrics / events.anomalies / events.audit
    NoMember,       \* owner of an unassigned partition
    Faults,         \* the operations that may fail
    MaxAttempts,    \* settings.consumer_retry_max_attempts
    MaxInflight,    \* settings.consumer_max_concurrency
    MaxPoll,        \* max_records of one getmany
    MaxCrashes,     \* bound: crashes in a behaviour
    MaxStops,       \* bound: SIGTERMs in a behaviour
    MaxMoves        \* bound: rebalances that are not forced by an orphan

FaultNames == {"check", "handle", "handled", "permanent", "mark", "marked",
               "topic", "table", "commit"}

ASSUME LogAssumption == Log \in [Partitions -> Seq(EventIds)]
ASSUME MemberAssumption == NoMember \notin Members
ASSUME BoundAssumption ==
    /\ MaxAttempts \in Nat \ {0}
    /\ MaxInflight \in Nat \ {0}
    /\ MaxPoll \in Nat \ {0}
    /\ MaxCrashes \in Nat /\ MaxStops \in Nat /\ MaxMoves \in Nat
ASSUME FlagAssumption == Envelope \in BOOLEAN /\ Faults \subseteq FaultNames

VARIABLES
    committed,  \* broker: messages of each partition the group is done with
    owner,      \* coordinator: the member each partition is assigned to
    phase,      \* where each member is in run() / _loop() / stop()
    stopping,   \* _stopping of each member
    pos,        \* the fetch position of each member in each partition
    commitTo,   \* commit_offsets of the member's batch; 0: not in the batch
    pc,         \* where the task of each message is in _process_one
    attempt,    \* ctx.attempt of each task
    record,     \* event_processing_records.status of this processor
    applied,    \* how often handle() applied the event's side effect
    dlqTopic,   \* slots dead-lettered to events.dlq
    dlqTable,   \* slots dead-lettered to dead_letter_events
    lost,       \* slots for which neither dead-letter write succeeded (history)
    crashes, stops, moves   \* environment counters, capped by the bounds

memberVars == <<phase, stopping, pos, commitTo>>
taskVars   == <<pc, attempt>>
storeVars  == <<record, applied, dlqTopic, dlqTable, lost>>
envVars    == <<crashes, stops, moves>>
vars == <<committed, owner, memberVars, taskVars, storeVars, envVars>>

----------------------------------------------------------------------------
Slots == UNION {{p} \X (1..Len(Log[p])) : p \in Partitions}
EventOf(s) == Log[s[1]][s[2]]

Phases == {"down", "getmany", "handling", "commit", "stop"}
\* Task states that still have code to run; the other two are "idle" (no task)
\* and "done" (the task returned).
Busy == {"queued", "check", "handle", "mark", "permanentTopic", "permanentTable",
         "exhaustedTopic", "exhaustedTable", "markFailed"}
\* A task that holds the semaphore.
Running == Busy \ {"queued"}

Up == {m \in Members : phase[m] # "down"}

\* The fate of a message is decided once its side effect was applied at least
\* once or it was dead-lettered, or the dead-lettering itself was given up.
Settled(s) == \/ applied[EventOf(s)] > 0
              \/ s \in dlqTopic \cup dlqTable \cup lost

TypeOK ==
    /\ committed \in [Partitions -> Nat]
    /\ owner \in [Partitions -> Members \cup {NoMember}]
    /\ phase \in [Members -> Phases]
    /\ stopping \in [Members -> BOOLEAN]
    /\ pos \in [Members -> [Partitions -> Nat]]
    /\ commitTo \in [Members -> [Partitions -> Nat]]
    /\ pc \in [Members -> [Slots -> Busy \cup {"idle", "done"}]]
    /\ attempt \in [Members -> [Slots -> 0..MaxAttempts]]
    /\ record \in [EventIds -> {"none", "processed", "failed"}]
    /\ applied \in [EventIds -> Nat]
    /\ dlqTopic \in SUBSET Slots
    /\ dlqTable \in SUBSET Slots
    /\ lost \in SUBSET Slots
    /\ crashes \in 0..MaxCrashes
    /\ stops \in 0..MaxStops
    /\ moves \in 0..MaxMoves

Init ==
    /\ committed = [p \in Partitions |-> 0]
    /\ owner = [p \in Partitions |-> NoMember]
    /\ phase = [m \in Members |-> "down"]
    /\ stopping = [m \in Members |-> FALSE]
    /\ pos = [m \in Members |-> [p \in Partitions |-> 0]]
    /\ commitTo = [m \in Members |-> [p \in Partitions |-> 0]]
    /\ pc = [m \in Members |-> [s \in Slots |-> "idle"]]
    /\ attempt = [m \in Members |-> [s \in Slots |-> 0]]
    /\ record = [e \in EventIds |-> "none"]
    /\ applied = [e \in EventIds |-> 0]
    /\ dlqTopic = {} /\ dlqTable = {} /\ lost = {}
    /\ crashes = 0 /\ stops = 0 /\ moves = 0

----------------------------------------------------------------------------
(* Lifecycle and the group coordinator *)

\* start(): a fresh process; its tasks and positions are those of a new object.
Start(m) ==
    /\ phase[m] = "down"
    /\ phase' = [phase EXCEPT ![m] = "getmany"]
    /\ stopping' = [stopping EXCEPT ![m] = FALSE]
    /\ UNCHANGED <<committed, owner, pos, commitTo, taskVars, storeVars, envVars>>

\* The coordinator (external) hands every partition to a live member, eagerly:
\* each member's position in what it gets, kept partitions included, restarts
\* at the committed offset.  A member in the middle of a batch is not told.
Rebalance(assign) ==
    /\ \A p \in Partitions : assign[p] \in Up
    /\ \/ \E p \in Partitions : owner[p] \notin Up
       \/ moves < MaxMoves
    /\ moves' = IF \E p \in Partitions : owner[p] \notin Up
                THEN moves ELSE moves + 1
    /\ owner' = assign
    /\ pos' = [m \in Members |-> [p \in Partitions |->
                  IF assign[p] = m THEN committed[p] ELSE pos[m][p]]]
    /\ UNCHANGED <<committed, phase, stopping, commitTo, taskVars, storeVars,
                   crashes, stops>>

\* The SIGINT / SIGTERM handler only sets the flag.
Signal(m) ==
    /\ phase[m] \in {"getmany", "handling", "commit"}
    /\ ~stopping[m]
    /\ stops < MaxStops
    /\ stops' = stops + 1
    /\ stopping' = [stopping EXCEPT ![m] = TRUE]
    /\ UNCHANGED <<committed, owner, phase, pos, commitTo, taskVars, storeVars,
                   crashes, moves>>

\* The process dies: every task, position and pending commit is gone.  The
\* coordinator notices when it next rebalances.
Crash(m) ==
    /\ phase[m] # "down"
    /\ crashes < MaxCrashes
    /\ crashes' = crashes + 1
    /\ phase' = [phase EXCEPT ![m] = "down"]
    /\ owner' = [p \in Partitions |-> IF owner[p] = m THEN NoMember ELSE owner[p]]
    /\ pos' = [pos EXCEPT ![m] = [p \in Partitions |-> 0]]
    /\ commitTo' = [commitTo EXCEPT ![m] = [p \in Partitions |-> 0]]
    /\ pc' = [pc EXCEPT ![m] = [s \in Slots |-> "idle"]]
    /\ attempt' = [attempt EXCEPT ![m] = [s \in Slots |-> 0]]
    /\ UNCHANGED <<committed, stopping, storeVars, stops, moves>>

----------------------------------------------------------------------------
(* _loop(): fetch, gather, commit *)

\* Where the loop condition sends a member that is done with an iteration.
LoopTop(m) == IF stopping[m] THEN "stop" ELSE "getmany"

\* getmany() returns nothing or raises KafkaError: back to the loop condition.
PollNothing(m) ==
    /\ phase[m] = "getmany"
    /\ phase' = [phase EXCEPT ![m] = LoopTop(m)]
    /\ UNCHANGED <<committed, owner, stopping, pos, commitTo, taskVars,
                   storeVars, envVars>>

\* The messages getmany() returns when it takes n[p] from partition p.
Batch(m, n) == {s \in Slots : /\ s[2] > pos[m][s[1]]
                              /\ s[2] <= pos[m][s[1]] + n[s[1]]}

\* The runs of messages one getmany() may return.
Fetches(m) ==
    {n \in [Partitions -> 0..MaxPoll] :
        /\ \A p \in Partitions : n[p] > 0 => owner[p] = m
        /\ \A p \in Partitions : n[p] > 0 => pos[m][p] + n[p] <= Len(Log[p])
        /\ Cardinality(Batch(m, n)) \in 1..MaxPoll}

\* commit_offsets[tp] = messages[-1].offset + 1, and one task per message.
Fetch(m, n) ==
    /\ phase[m] = "getmany"
    /\ phase' = [phase EXCEPT ![m] = "handling"]
    /\ pos' = [pos EXCEPT ![m] = [p \in Partitions |-> pos[m][p] + n[p]]]
    /\ commitTo' = [commitTo EXCEPT ![m] =
          [p \in Partitions |-> IF n[p] > 0 THEN pos[m][p] + n[p] ELSE 0]]
    /\ pc' = [pc EXCEPT ![m] =
          [s \in Slots |-> IF s \in Batch(m, n) THEN "queued" ELSE "idle"]]
    /\ attempt' = [attempt EXCEPT ![m] = [s \in Slots |-> 0]]
    /\ UNCHANGED <<committed, owner, stopping, storeVars, envVars>>

\* Mutant: the first finished task ends the batch.
BatchDoneEarly(m) ==
    /\ phase[m] = "handling"
    /\ \E s \in Slots : pc[m][s] = "done"
    /\ phase' = [phase EXCEPT ![m] = IF stopping[m] THEN "stop" ELSE "commit"]
    /\ UNCHANGED <<committed, owner, stopping, pos, commitTo, taskVars,
                   storeVars, envVars>>

\* gather() returns when every task has: commit, unless the member is stopping
\* (then stop() commits).
BatchDone(m) ==
    /\ phase[m] = "handling"
    /\ \A s \in Slots : pc[m][s] \notin Busy
    /\ phase' = [phase EXCEPT ![m] = IF stopping[m] THEN "stop" ELSE "commit"]
    /\ UNCHANGED <<committed, owner, stopping, pos, commitTo, taskVars,
                   storeVars, envVars>>

BatchIsOwned(m) == \A p \in Partitions : commitTo[m][p] > 0 => owner[p] = m

\* Mutant: the loop forgets to commit.
CommitForgotten(m) ==
    /\ phase[m] = "commit"
    /\ phase' = [phase EXCEPT ![m] = LoopTop(m)]
    /\ UNCHANGED <<committed, owner, stopping, pos, commitTo, taskVars, storeVars, envVars>>

\* commit(commit_offsets): refused whole when a partition of it is no longer
\* assigned; a failure is logged and swallowed.
Commit(m) ==
    /\ phase[m] = "commit"
    /\ \/ /\ BatchIsOwned(m)
          /\ committed' = [p \in Partitions |->
                IF commitTo[m][p] > 0 THEN commitTo[m][p] ELSE committed[p]]
       \/ /\ "commit" \in Faults \/ ~BatchIsOwned(m)
          /\ UNCHANGED committed
    /\ phase' = [phase EXCEPT ![m] = LoopTop(m)]
    /\ UNCHANGED <<owner, stopping, pos, commitTo, taskVars, storeVars, envVars>>

\* stop(): nothing is in flight any more; commit() without arguments commits
\* the positions of the assigned partitions, errors suppressed; leave the group.
StopCommit(m) ==
    /\ phase[m] = "stop"
    /\ \/ committed' = [p \in Partitions |->
              IF owner[p] = m THEN pos[m][p] ELSE committed[p]]
       \/ "commit" \in Faults /\ UNCHANGED committed
    /\ phase' = [phase EXCEPT ![m] = "down"]
    /\ owner' = [p \in Partitions |-> IF owner[p] = m THEN NoMember ELSE owner[p]]
    /\ pos' = [pos EXCEPT ![m] = [p \in Partitions |-> 0]]
    /\ commitTo' = [commitTo EXCEPT ![m] = [p \in Partitions |-> 0]]
    /\ pc' = [pc EXCEPT ![m] = [s \in Slots |-> "idle"]]
    /\ attempt' = [attempt EXCEPT ![m] = [s \in Slots |-> 0]]
    /\ UNCHANGED <<stopping, storeVars, envVars>>

MemberStep(m) ==
    \/ PollNothing(m)
    \/ \E n \in Fetches(m) : Fetch(m, n)
    \/ BatchDone(m)
    \/ Commit(m)
    \/ StopCommit(m)

----------------------------------------------------------------------------
(* _process_one() and _handle_with_retry(): the task of one message *)

\* With envelope = FALSE there is no event_id, so no check and no record.
FirstStep == IF Envelope THEN "check" ELSE "handle"

\* The task goes on at step st with the same attempt.
GoTo(m, s, st) == /\ pc' = [pc EXCEPT ![m][s] = st]
                  /\ UNCHANGED attempt

\* The task returns.
Return(m, s) == /\ pc' = [pc EXCEPT ![m][s] = "done"]
                /\ attempt' = [attempt EXCEPT ![m][s] = 0]

\* Mutant: attempt > max_attempts instead of attempt >= max_attempts.
RetryOnceTooOften(m, s) ==
    IF attempt[m][s] <= MaxAttempts
    THEN /\ pc' = [pc EXCEPT ![m][s] = FirstStep]
         /\ attempt' = [attempt EXCEPT ![m][s] = @ + 1]
    ELSE GoTo(m, s, "exhaustedTopic")

\* The except branch for anything but PermanentError: back off and try again
\* from the check, or dead-letter after the last attempt.
RetryOrDeadLetter(m, s) ==
    IF attempt[m][s] < MaxAttempts
    THEN /\ pc' = [pc EXCEPT ![m][s] = FirstStep]
         /\ attempt' = [attempt EXCEPT ![m][s] = @ + 1]
    ELSE GoTo(m, s, "exhaustedTopic")

\* The semaphore admits the task, which parses the envelope.
Admit(m, s) ==
    /\ pc[m][s] = "queued"
    /\ Cardinality({t \in Slots : pc[m][t] \in Running}) < MaxInflight
    /\ pc' = [pc EXCEPT ![m][s] = IF Envelope /\ EventOf(s) \in Malformed
                                  THEN "permanentTopic" ELSE FirstStep]
    /\ attempt' = [attempt EXCEPT ![m][s] = 1]
    /\ UNCHANGED storeVars

\* Mutant: no idempotency check.
CheckIgnoresRecord(m, s) ==
    /\ pc[m][s] = "check"
    /\ GoTo(m, s, "handle")
    /\ UNCHANGED storeVars

\* already_processed(): only a "processed" record ends the task.
Check(m, s) ==
    /\ pc[m][s] = "check"
    /\ \/ IF record[EventOf(s)] = "processed"
          THEN Return(m, s)
          ELSE GoTo(m, s, "handle")
       \/ "check" \in Faults /\ RetryOrDeadLetter(m, s)
    /\ UNCHANGED storeVars

\* Mutant: an exception of handle() is swallowed and the event marked.
HandleSwallowsError(m, s) ==
    /\ pc[m][s] = "handle"
    /\ \/ applied' = [applied EXCEPT ![EventOf(s)] = @ + 1]
       \/ "handle" \in Faults /\ UNCHANGED applied
    /\ GoTo(m, s, "mark")
    /\ UNCHANGED <<record, dlqTopic, dlqTable, lost>>

\* handle() applies its side effect and returns; or it raises, before or after
\* the effect (a handler awaits several stores); or it raises PermanentError.
Handle(m, s) ==
    /\ pc[m][s] = "handle"
    /\ \/ /\ applied' = [applied EXCEPT ![EventOf(s)] = @ + 1]
          /\ IF Envelope THEN GoTo(m, s, "mark") ELSE Return(m, s)
       \/ /\ "handle" \in Faults
          /\ RetryOrDeadLetter(m, s)
          /\ UNCHANGED applied
       \/ /\ "handled" \in Faults
          /\ applied' = [applied EXCEPT ![EventOf(s)] = @ + 1]
          /\ RetryOrDeadLetter(m, s)
       \/ /\ "permanent" \in Faults
          /\ GoTo(m, s, "permanentTopic")
          /\ UNCHANGED applied
    /\ UNCHANGED <<record, dlqTopic, dlqTable, lost>>

\* mark_processed() is inside the same try: its failure, before or after the
\* record is written, starts the next attempt.
Mark(m, s) ==
    /\ pc[m][s] = "mark"
    /\ \/ /\ record' = [record EXCEPT ![EventOf(s)] = "processed"]
          /\ Return(m, s)
       \/ /\ "mark" \in Faults
          /\ RetryOrDeadLetter(m, s)
          /\ UNCHANGED record
       \/ /\ "marked" \in Faults
          /\ RetryOrDeadLetter(m, s)
          /\ record' = [record EXCEPT ![EventOf(s)] = "processed"]
    /\ UNCHANGED <<applied, dlqTopic, dlqTable, lost>>

\* Mutant: permanent errors are not published to events.dlq.
PublishOnlyExhausted(m, s) ==
    /\ pc[m][s] \in {"permanentTopic", "exhaustedTopic"}
    /\ dlqTopic' = IF pc[m][s] = "exhaustedTopic" THEN dlqTopic \cup {s} ELSE dlqTopic
    /\ GoTo(m, s, IF pc[m][s] = "permanentTopic" THEN "permanentTable"
                                                ELSE "exhaustedTable")
    /\ UNCHANGED <<record, applied, dlqTable, lost>>

\* _to_dlq(), first half: publish to events.dlq, every exception suppressed.
PublishDeadLetter(m, s) ==
    /\ pc[m][s] \in {"permanentTopic", "exhaustedTopic"}
    /\ \/ dlqTopic' = dlqTopic \cup {s}
       \/ "topic" \in Faults /\ UNCHANGED dlqTopic
    /\ GoTo(m, s, IF pc[m][s] = "permanentTopic" THEN "permanentTable"
                                                ELSE "exhaustedTable")
    /\ UNCHANGED <<record, applied, dlqTable, lost>>

\* _to_dlq(), second half: insert the row; an exception is logged only.
InsertDeadLetter(m, s) ==
    /\ pc[m][s] \in {"permanentTable", "exhaustedTable"}
    /\ \/ /\ dlqTable' = dlqTable \cup {s}
          /\ UNCHANGED lost
       \/ /\ "table" \in Faults
          /\ lost' = IF s \in dlqTopic \cup dlqTable THEN lost ELSE lost \cup {s}
          /\ UNCHANGED dlqTable
    /\ IF pc[m][s] = "exhaustedTable" /\ Envelope
       THEN GoTo(m, s, "markFailed")
       ELSE Return(m, s)
    /\ UNCHANGED <<record, applied, dlqTopic>>

\* mark_processed(status="failed"), suppressed; the upsert overwrites the status.
MarkFailed(m, s) ==
    /\ pc[m][s] = "markFailed"
    /\ \/ record' = [record EXCEPT ![EventOf(s)] = "failed"]
       \/ "mark" \in Faults /\ UNCHANGED record
    /\ Return(m, s)
    /\ UNCHANGED <<applied, dlqTopic, dlqTable, lost>>

TaskStep(m, s) ==
    /\ \/ Admit(m, s)
       \/ Check(m, s)
       \/ Handle(m, s)
       \/ Mark(m, s)
       \/ PublishDeadLetter(m, s)
       \/ InsertDeadLetter(m, s)
       \/ MarkFailed(m, s)
    /\ UNCHANGED <<committed, owner, memberVars, envVars>>

----------------------------------------------------------------------------
Next ==
    \/ \E m \in Members : Start(m) \/ Signal(m) \/ Crash(m) \/ MemberStep(m)
    \/ \E assign \in [Partitions -> Members] : Rebalance(assign)
    \/ \E m \in Members, s \in Slots : TaskStep(m, s)

Spec == Init /\ [][Next]_vars

\* asyncio runs every ready task, a supervisor restarts a process that is down
\* and the coordinator reassigns orphaned partitions.
Fairness ==
    /\ \A m \in Members : WF_vars(Start(m)) /\ WF_vars(MemberStep(m))
    /\ \A m \in Members, s \in Slots : WF_vars(TaskStep(m, s))
    /\ WF_vars(/\ \E p \in Partitions : owner[p] \notin Up
               /\ \E assign \in [Partitions -> Members] : Rebalance(assign))

FairSpec == Spec /\ Fairness

----------------------------------------------------------------------------
(* Properties *)

\* "Offsets are committed only after every message in the batch has been fully
\* handled": no committed offset, whoever committed it and however stale its
\* batch, covers a message that was neither applied nor dead-lettered nor given
\* up by _to_dlq().
CommittedIsSettled ==
    \A p \in Partitions :
        /\ committed[p] <= Len(Log[p])
        /\ \A i \in 1..committed[p] : Settled(<<p, i>>)

\* The idempotency record never claims work that did not happen: whatever
\* already_processed() lets a redelivery skip was applied.
ProcessedWasApplied ==
    \A e \in EventIds : record[e] = "processed" => applied[e] > 0

\* No silent event loss (ADR 0008): what the group will never fetch again was
\* applied or can be found in the DLQ topic or the DLQ table.
NoSilentLoss ==
    \A p \in Partitions : \A i \in 1..committed[p] :
        \/ applied[Log[p][i]] > 0
        \/ <<p, i>> \in dlqTopic \cup dlqTable

\* A successful record is final, however the broker redelivers the event after
\* crashes and failed commits: mark_processed(status="failed") upserts over the same
\* row and must never reach it, and the side effect is never applied again (one
\* member, each event in the log once, a check that answers, and a mark that raises
\* only when it wrote nothing).
ProcessedIsFinal ==
    [][\A e \in EventIds : record[e] = "processed" =>
          record'[e] = "processed" /\ applied'[e] = applied[e]]_vars

\* When commits do not fail the group eventually stays caught up: the whole log
\* is committed for good.
EventuallyCaughtUp == <>[](\A p \in Partitions : committed[p] = Len(Log[p]))

\* The consumer group implements the abstract at-least-once specification.
ALO == INSTANCE AtLeastOnce
          WITH settled <- {s \in Slots : Settled(s)},
               Length <- [p \in Partitions |-> Len(Log[p])]

\* Every step of the group settles messages for good, or moves the committed
\* offsets to a point below which every message is settled.
ImplementsAtLeastOnce == ALO!Spec

----------------------------------------------------------------------------
(* The inductive invariant behind CommittedIsSettled *)

\* Up to offset k of partition p, what is not settled is still being worked on
\* by a task of member m.
InHand(m, p, k) ==
    /\ k <= Len(Log[p])
    /\ \A i \in 1..k : Settled(<<p, i>>) \/ pc[m][<<p, i>>] \in Busy

\* A task that is about to mark its event applied it; one that is about to
\* record a failure settled it.
TasksAreHonest ==
    \A m \in Members : \A s \in Slots :
        /\ pc[m][s] = "mark" => applied[EventOf(s)] > 0
        /\ pc[m][s] = "markFailed" => Settled(s)

\* Whatever a member may commit later, in _loop() or in stop(), is in hand.
CommitsAreInHand ==
    \A m \in Members : \A p \in Partitions :
        InHand(m, p, commitTo[m][p]) /\ InHand(m, p, pos[m][p])

\* Only a member that is handling its batch has tasks.
TasksOnlyInBatch ==
    \A m \in Members : phase[m] # "handling" =>
        \A s \in Slots : pc[m][s] \notin Busy

IndInv ==
    /\ TypeOK
    /\ ProcessedWasApplied
    /\ TasksAreHonest
    /\ CommitsAreInHand
    /\ TasksOnlyInBatch
    /\ CommittedIsSettled

\* With one reliable dead-letter sink nothing is ever given up.
OneSinkIsReliable == ~({"topic", "table"} \subseteq Faults)
NothingGivenUp ==
    /\ lost = {}
    /\ "topic" \notin Faults =>
         \A m \in Members : \A s \in Slots :
            pc[m][s] \in {"permanentTable", "exhaustedTable"} => s \in dlqTopic
=============================================================================
