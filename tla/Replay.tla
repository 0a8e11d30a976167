------------------------------- MODULE Replay -------------------------------
(***************************************************************************)
(* Event replay: the replay_jobs API (pravaha/api/routers/replay.py), the  *)
(* runner that polls for jobs (pravaha/replay/runner.py) and the engine    *)
(* that pages through the events table and republishes to events.replay    *)
(* (pravaha/replay/engine.py).                                             *)
(*                                                                         *)
(* Every session_scope() block is one step: it reads, and its writes       *)
(* become visible at its commit.  The operator's cancel is two steps, the  *)
(* status it read and the status it writes.  While a job runs, persistence *)
(* inserts events (primary keys are random, so anywhere in the key order)  *)
(* and retention deletes them.                                             *)
(*                                                                         *)
(* Events are their primary keys; only those that match the job's range    *)
(* and filters are in the model, so estimated_count is left out.           *)
(***************************************************************************)
EXTENDS Integers, FiniteSets, FiniteSetsExt

CONSTANTS
    Runners,        \* replay-runner processes
    Jobs,           \* replay jobs, numbered in the order of created_at
    Ids,            \* primary keys of matching events
    InitialIds,     \* the ones stored at the start
    BatchSize,      \* batch_size of run_replay_job
    Faults,         \* subset of FaultNames: calls that may raise
    MaxCrashes,     \* bound: jobs a runner drops (see Crash)
    MaxChanges      \* bound: inserts and deletes of events

FaultNames == {"read", "publish", "progress", "finish"}

ASSUME ParameterAssumption ==
    /\ Jobs \subseteq Nat /\ Ids \subseteq Nat \ {0} /\ InitialIds \subseteq Ids
    /\ IsFiniteSet(Runners) /\ IsFiniteSet(Jobs) /\ IsFiniteSet(Ids)
    /\ BatchSize \in Nat \ {0}
    /\ Faults \subseteq FaultNames
    /\ MaxCrashes \in Nat /\ MaxChanges \in Nat

NoJob == -1

VARIABLES
    status,     \* replay_jobs.status; "none": not created yet
    counts,     \* replay_jobs.replayed_count, failed_count
    cancelling, \* jobs whose cancel handler has checked the status
    store,      \* primary keys in the events table
    pc,         \* where each runner is
    job,        \* the job it claimed
    lastId,     \* last_id
    page,       \* rows of the current page that are not handled yet
    local,      \* its replayed and failed
    sent,       \* messages of each job on events.replay
    present,    \* keys stored ever since the runner's job began (history)
    tried,      \* keys the runner has handled (history)
    afterCancel,\* messages sent since the job became CANCELLED (history)
    begun,      \* how often a runner began each job (history)
    crashes, changes

runVars == <<pc, job, lastId, page, local>>
history == <<present, tried, afterCancel, begun>>
vars == <<status, counts, cancelling, store, runVars, sent, history, crashes, changes>>

Statuses == {"none", "CREATED", "RUNNING", "COMPLETED", "FAILED", "CANCELLED"}
Terminal == {"COMPLETED", "FAILED", "CANCELLED"}
Counts == [replayed : 0..Cardinality(Ids), failed : 0..Cardinality(Ids)]
NoCounts == [replayed |-> 0, failed |-> 0]

TypeOK ==
    /\ status \in [Jobs -> Statuses]
    /\ counts \in [Jobs -> Counts]
    /\ cancelling \subseteq Jobs
    /\ store \subseteq Ids
    /\ pc \in [Runners -> {"poll", "claimed", "page", "publish", "progress", "finish", "fail"}]
    /\ job \in [Runners -> Jobs \cup {NoJob}]
    /\ \A r \in Runners : (pc[r] = "poll") <=> (job[r] = NoJob)
    /\ lastId \in [Runners -> Ids \cup {0}]
    /\ page \in [Runners -> SUBSET Ids]
    /\ \A r \in Runners : Cardinality(page[r]) <= BatchSize
    /\ local \in [Runners -> Counts]
    /\ sent \in [Jobs -> Nat]
    /\ present \in [Runners -> SUBSET Ids] /\ tried \in [Runners -> SUBSET Ids]
    /\ afterCancel \in [Jobs -> Nat] /\ begun \in [Jobs -> Nat]
    /\ crashes \in 0..MaxCrashes /\ changes \in 0..MaxChanges

Init ==
    /\ status = [j \in Jobs |-> "none"]
    /\ counts = [j \in Jobs |-> NoCounts]
    /\ cancelling = {}
    /\ store = InitialIds
    /\ pc = [r \in Runners |-> "poll"]
    /\ job = [r \in Runners |-> NoJob]
    /\ lastId = [r \in Runners |-> 0]
    /\ page = [r \in Runners |-> {}]
    /\ local = [r \in Runners |-> NoCounts]
    /\ sent = [j \in Jobs |-> 0]
    /\ present = [r \in Runners |-> {}] /\ tried = [r \in Runners |-> {}]
    /\ afterCancel = [j \in Jobs |-> 0] /\ begun = [j \in Jobs |-> 0]
    /\ crashes = 0 /\ changes = 0

----------------------------------------------------------------------------
(* The API *)

\* create_job().
Create(j) ==
    /\ status[j] = "none"
    /\ \A k \in Jobs : k < j => status[k] # "none"
    /\ status' = [status EXCEPT ![j] = "CREATED"]
    /\ UNCHANGED <<counts, cancelling, store, runVars, sent, history, crashes, changes>>

\* cancel(): the row is read and its status checked...
CancelCheck(j) ==
    /\ status[j] \notin Terminal \cup {"none"}
    /\ j \notin cancelling
    /\ cancelling' = cancelling \cup {j}
    /\ UNCHANGED <<status, counts, store, runVars, sent, history, crashes, changes>>

\* ... and the status written whatever it is by then.
CancelWrite(j) ==
    /\ j \in cancelling
    /\ cancelling' = cancelling \ {j}
    /\ status' = [status EXCEPT ![j] = "CANCELLED"]
    /\ afterCancel' = [afterCancel EXCEPT ![j] = 0]
    /\ UNCHANGED <<counts, store, runVars, sent, present, tried, begun, crashes, changes>>

----------------------------------------------------------------------------
(* The events table *)

\* Persistence (external to replay) stores an event of the range.
Insert(i) ==
    /\ i \notin store /\ changes < MaxChanges
    /\ changes' = changes + 1
    /\ store' = store \cup {i}
    /\ UNCHANGED <<status, counts, cancelling, runVars, sent, history, crashes>>

\* RetentionWorker.run_once() deletes one.
Delete(i) ==
    /\ i \in store /\ changes < MaxChanges
    /\ changes' = changes + 1
    /\ store' = store \ {i}
    /\ present' = [r \in Runners |-> present[r] \ {i}]
    /\ UNCHANGED <<status, counts, cancelling, runVars, sent, tried, afterCancel, begun, crashes>>

----------------------------------------------------------------------------
(* The runner *)

\* The runner gives up its job and polls again.
Release(r) ==
    /\ pc' = [pc EXCEPT ![r] = "poll"]
    /\ job' = [job EXCEPT ![r] = NoJob]
    /\ lastId' = [lastId EXCEPT ![r] = 0]
    /\ page' = [page EXCEPT ![r] = {}]
    /\ local' = [local EXCEPT ![r] = NoCounts]
    /\ present' = [present EXCEPT ![r] = {}]
    /\ tried' = [tried EXCEPT ![r] = {}]

GoTo(r, step) == pc' = [pc EXCEPT ![r] = step]

\* _next_job(): the oldest CREATED row that no other runner has locked.  The lock
\* ends with the select's transaction; the status is still CREATED.
Claim(r, j) ==
    /\ pc[r] = "poll"
    /\ status[j] = "CREATED"
    /\ Cardinality({k \in Jobs : k < j /\ status[k] = "CREATED"})
         <= Cardinality({q \in Runners \ {r} : pc[q] = "poll"})
    /\ GoTo(r, "claimed")
    /\ job' = [job EXCEPT ![r] = j]
    /\ UNCHANGED <<status, counts, cancelling, store, lastId, page, local, sent, history,
                   crashes, changes>>

\* run_replay_job(), first block: RUNNING, whatever the status is by now.
Begin(r) ==
    /\ pc[r] = "claimed"
    /\ status' = [status EXCEPT ![job[r]] = "RUNNING"]
    /\ begun' = [begun EXCEPT ![job[r]] = @ + 1]
    /\ present' = [present EXCEPT ![r] = store]
    /\ GoTo(r, "page")
    /\ UNCHANGED <<counts, cancelling, store, job, lastId, page, local, sent, tried,
                   afterCancel, crashes, changes>>

\* The next page: the BatchSize smallest keys above last_id.
Rows(r) ==
    {i \in store : /\ i > lastId[r]
                   /\ Cardinality({k \in store : lastId[r] < k /\ k < i}) < BatchSize}

\* Mutant: a page that cannot be read counts as empty.
ReadPageSwallows(r) ==
    /\ pc[r] = "page"
    /\ \E rows \in {Rows(r)} \cup (IF "read" \in Faults THEN {{}} ELSE {}) :
          /\ page' = [page EXCEPT ![r] = rows]
          /\ GoTo(r, IF rows = {} THEN "finish" ELSE "publish")
    /\ UNCHANGED <<status, counts, cancelling, store, job, lastId, local, sent, history,
                   crashes, changes>>

\* The block that reads a page; an empty page ends the loop.
ReadPage(r) ==
    /\ pc[r] = "page"
    /\ \/ LET rows == Rows(r) IN
          /\ page' = [page EXCEPT ![r] = rows]
          /\ GoTo(r, IF rows = {} THEN "finish" ELSE "publish")
       \/ "read" \in Faults /\ GoTo(r, "fail") /\ UNCHANGED page
    /\ UNCHANGED <<status, counts, cancelling, store, job, lastId, local, sent, history,
                   crashes, changes>>

\* Mutant: a failed event is skipped and not counted.
PublishForgetsFailed(r) ==
    LET i == Min(page[r]) IN
    /\ pc[r] = "publish"
    /\ lastId' = [lastId EXCEPT ![r] = i]
    /\ tried' = [tried EXCEPT ![r] = @ \cup {i}]
    /\ \/ /\ sent' = [sent EXCEPT ![job[r]] = @ + 1]
          /\ local' = [local EXCEPT ![r].replayed = @ + 1]
       \/ "publish" \in Faults /\ UNCHANGED <<sent, local>>
    /\ page' = [page EXCEPT ![r] = @ \ {i}]
    /\ GoTo(r, IF page[r] = {i} THEN "progress" ELSE "publish")
    /\ UNCHANGED <<status, counts, cancelling, store, job, present, afterCancel, begun,
                   crashes, changes>>

\* One event of the page: published and counted, or failed, counted and skipped.
\* A publish that raises may have reached the broker.
Publish(r) ==
    LET i == Min(page[r])
        j == job[r]
        Send(b) == /\ sent' = IF b THEN [sent EXCEPT ![j] = @ + 1] ELSE sent
                   /\ afterCancel' = IF b /\ status[j] = "CANCELLED"
                                     THEN [afterCancel EXCEPT ![j] = @ + 1] ELSE afterCancel
    IN  /\ pc[r] = "publish"
        /\ lastId' = [lastId EXCEPT ![r] = i]
        /\ tried' = [tried EXCEPT ![r] = @ \cup {i}]
        /\ \/ Send(TRUE) /\ local' = [local EXCEPT ![r].replayed = @ + 1]
           \/ /\ "publish" \in Faults
              /\ Send(TRUE) \/ Send(FALSE)
              /\ local' = [local EXCEPT ![r].failed = @ + 1]
        /\ page' = [page EXCEPT ![r] = @ \ {i}]
        /\ GoTo(r, IF page[r] = {i} THEN "progress" ELSE "publish")
        /\ UNCHANGED <<status, counts, cancelling, store, job, present, begun, crashes, changes>>

\* Mutant: progress is written without looking at the status.
ProgressIgnoresCancel(r) ==
    /\ pc[r] = "progress"
    /\ counts' = [counts EXCEPT ![job[r]] = local[r]]
    /\ GoTo(r, "page")
    /\ UNCHANGED <<status, cancelling, store, job, lastId, page, local, sent, history,
                   crashes, changes>>

\* After the page: stop when the job was cancelled, else write the counts.
Progress(r) ==
    /\ pc[r] = "progress"
    /\ \/ /\ status[job[r]] = "CANCELLED"
          /\ Release(r)
          /\ UNCHANGED counts
       \/ /\ status[job[r]] # "CANCELLED"
          /\ counts' = [counts EXCEPT ![job[r]] = local[r]]
          /\ GoTo(r, "page")
          /\ UNCHANGED <<job, lastId, page, local, present, tried>>
       \/ /\ "progress" \in Faults
          /\ GoTo(r, "fail")
          /\ UNCHANGED <<counts, job, lastId, page, local, present, tried>>
    /\ UNCHANGED <<status, cancelling, store, sent, afterCancel, begun, crashes, changes>>

\* The last block: COMPLETED, whatever the status is, and the final counts.
Finish(r) ==
    /\ pc[r] = "finish"
    /\ \/ /\ status' = [status EXCEPT ![job[r]] = "COMPLETED"]
          /\ counts' = [counts EXCEPT ![job[r]] = local[r]]
          /\ Release(r)
       \/ /\ "finish" \in Faults
          /\ GoTo(r, "fail")
          /\ UNCHANGED <<status, counts, job, lastId, page, local, present, tried>>
    /\ UNCHANGED <<cancelling, store, sent, afterCancel, begun, crashes, changes>>

\* Mutant: the exception is logged and the job left as it is.
FailWithoutStatus(r) ==
    /\ pc[r] = "fail"
    /\ Release(r)
    /\ UNCHANGED <<status, counts, cancelling, store, sent, afterCancel, begun, crashes, changes>>

\* The except block: FAILED, whatever the status is.
Fail(r) ==
    /\ pc[r] = "fail"
    /\ status' = [status EXCEPT ![job[r]] = "FAILED"]
    /\ counts' = [counts EXCEPT ![job[r]] = local[r]]
    /\ Release(r)
    /\ UNCHANGED <<cancelling, store, sent, afterCancel, begun, crashes, changes>>

\* The runner drops its job: the process dies and is restarted, or the first block,
\* producer.start() or the except block raises and run() only logs it.  Nothing
\* looks at RUNNING jobs.
Crash(r) ==
    /\ pc[r] # "poll"
    /\ crashes < MaxCrashes
    /\ crashes' = crashes + 1
    /\ Release(r)
    /\ UNCHANGED <<status, counts, cancelling, store, sent, afterCancel, begun, changes>>

RunnerStep(r) ==
    \/ \E j \in Jobs : Claim(r, j)
    \/ Begin(r) \/ ReadPage(r) \/ Publish(r) \/ Progress(r) \/ Finish(r) \/ Fail(r)

Next ==
    \/ \E j \in Jobs : Create(j) \/ CancelCheck(j) \/ CancelWrite(j)
    \/ \E i \in Ids : Insert(i) \/ Delete(i)
    \/ \E r \in Runners : RunnerStep(r) \/ Crash(r)

Spec == Init /\ [][Next]_vars

\* The event loop runs the runner; a started cancel request is finished.
FairSpec == /\ Spec
            /\ \A r \in Runners : WF_vars(RunnerStep(r))
            /\ \A j \in Jobs : WF_vars(CancelWrite(j))

----------------------------------------------------------------------------
(* Properties *)

\* Paging by key misses nothing: when a run reaches its end, it has handled every
\* event that was stored from its beginning on, whatever was inserted or deleted
\* between two pages.
CompletedCoversRange ==
    \A r \in Runners : pc[r] = "finish" => present[r] \subseteq tried[r]

\* replayed + failed counts every event once: no event is handled twice in a run
\* and no failed one is left out.  The row of a completed job that was begun once
\* tells how many messages reached events.replay: at least the replayed ones, and
\* never more than replayed and failed together.
CountsAreHonest ==
    /\ TypeOK
    /\ \A r \in Runners :
          local[r].replayed + local[r].failed = Cardinality(tried[r])
    /\ \A j \in Jobs : status[j] = "COMPLETED" /\ begun[j] = 1 =>
          /\ counts[j].replayed <= sent[j]
          /\ sent[j] <= counts[j].replayed + counts[j].failed

\* Cancelling takes effect within a page: while a job is CANCELLED each runner
\* publishes at most the rest of the page it has in hand.
CancelStopsWithinAPage ==
    \A j \in Jobs : afterCancel[j] <= BatchSize * Cardinality(Runners)

\* Every job that is created ends, unless a runner drops it.
EveryJobEnds ==
    \A j \in Jobs : status[j] = "CREATED" ~> status[j] \in Terminal \/ crashes > 0
----------------------------------------------------------------------------
(* The inductive invariants behind them *)

\* The keyset cursor: what was handled is at or below last_id, the rows in hand
\* are above it, and no stored event lies between the two or inside the page
\* without being in hand.
Paging(r) ==
    /\ pc[r] \in {"poll", "claimed"} =>
          lastId[r] = 0 /\ page[r] = {} /\ local[r] = NoCounts /\ tried[r] = {}
    /\ present[r] \subseteq store
    /\ \A i \in tried[r] : i <= lastId[r]
    /\ \A i \in page[r] : i > lastId[r]
    /\ pc[r] = "publish" => page[r] # {}
    /\ pc[r] \in {"page", "publish", "progress"} =>
          \A i \in present[r] : i <= lastId[r] => i \in tried[r]
    /\ pc[r] = "publish" =>
          \A i \in present[r] : i > lastId[r] => i \in page[r] \/ \A k \in page[r] : k < i
    /\ pc[r] = "finish" => present[r] \subseteq tried[r]
    /\ local[r].replayed + local[r].failed = Cardinality(tried[r])

\* Runners between the first and the last block of run_replay_job(), on job j.
Active(j) == {r \in Runners : job[r] = j /\ pc[r] \notin {"poll", "claimed"}}

Honest(c, n) == c.replayed <= n /\ n <= c.replayed + c.failed

\* Nothing is sent for a job nobody began; while one runner at most has begun it,
\* that runner's own counts, and then the row's, tell what was sent.
RowTellsSent(j) ==
    /\ begun[j] = 0 => Active(j) = {} /\ sent[j] = 0 /\ status[j] # "COMPLETED"
    /\ begun[j] = 1 =>
          /\ \A r \in Active(j) :
                Active(j) = {r} /\ Honest(local[r], sent[j]) /\ status[j] # "COMPLETED"
          /\ status[j] = "COMPLETED" => Honest(counts[j], sent[j])

\* Messages the runners may still send for job j before they look at its status:
\* the rows in hand, or a page about to be read.
Budget(j) ==
    {p \in Runners \X (1..BatchSize) :
        /\ job[p[1]] = j
        /\ \/ pc[p[1]] = "page"
           \/ pc[p[1]] = "publish" /\ p[2] <= Cardinality(page[p[1]])}

WithinBudget(j) ==
    LET limit == BatchSize * Cardinality(Runners) IN
    /\ afterCancel[j] <= limit
    /\ status[j] = "CANCELLED" => afterCancel[j] + Cardinality(Budget(j)) <= limit

IndInv ==
    /\ TypeOK
    /\ \A r \in Runners : Paging(r)
    /\ \A j \in Jobs : RowTellsSent(j) /\ WithinBudget(j)
=============================================================================
