----------------------------- MODULE Analytics -----------------------------
(***************************************************************************)
(* The analytics processor (pravaha/analytics/processor.py) with its       *)
(* watermark (pravaha/processing/watermark.py) and its Redis state         *)
(* (pravaha/processing/state.py): handlers fold events into per-bucket     *)
(* counters in Redis, a flush task reads the counters of the buckets the   *)
(* watermark has passed, upserts the durable row and forgets the bucket.   *)
(*                                                                         *)
(* Several processes share Redis and PostgreSQL; each has its own          *)
(* watermark and its own set of open buckets, both in memory only.  A step *)
(* is the code between two awaits.  Every event contributes to a ratio, so *)
(* a bucket has a numerator, a denominator and a count of late events; the *)
(* numerator is incremented before the denominator and read after it, as   *)
(* METRIC_DEFS and the sorted read order have it.  Every counter is a      *)
(* Redis key of its own with a time to live: it may vanish (Expire).       *)
(*                                                                         *)
(* The framework around handle() is StreamConsumer, reduced here to: any   *)
(* process may be given an event, and again after a crash, a rebalance or  *)
(* a failed commit, while another one still handles it; an event with a    *)
(* "processed" record is skipped; a failed attempt is retried in process   *)
(* MaxAttempts times and then dead-lettered.                               *)
(***************************************************************************)
EXTENDS Integers, FiniteSets, FiniteSetsExt

CONSTANTS
    Procs,          \* analytics processes
    Events,         \* events of the topic
    EventTime,      \* EventTime[e]: the producer's event time
    BucketSize,     \* BUCKET_SECONDS
    Lateness,       \* watermark_allowed_lateness_seconds, also the flush grace
    IdleAdvance,    \* watermark_idle_advance_seconds
    MaxIdle,        \* bound: the wall clock is not told apart after this idle time
    MaxAttempts,    \* consumer_retry_max_attempts
    Faults,         \* subset of {"redis", "pg"}: stores that may fail
    MaxDeliveries,  \* bound: deliveries of an event to a process
    MaxExpiries,    \* bound: counters that expire in a behaviour
    MaxCrashes,     \* bound: crashes in a behaviour
    MaxStops        \* bound: graceful stops in a behaviour

BucketOf(t) == (t \div BucketSize) * BucketSize
BucketEnd(b) == b + BucketSize
Buckets == {BucketOf(EventTime[e]) : e \in Events}
EventsOf(b) == {e \in Events : BucketOf(EventTime[e]) = b}
Keys == {"num", "den", "late"}

ASSUME ParameterAssumption ==
    /\ IsFiniteSet(Procs) /\ IsFiniteSet(Events) /\ EventTime \in [Events -> Nat]
    /\ BucketSize \in Nat \ {0}
    /\ Lateness \in Nat /\ IdleAdvance \in Nat /\ MaxIdle \in Nat
    /\ MaxAttempts \in Nat \ {0}
    /\ MaxDeliveries \in Nat /\ MaxExpiries \in Nat /\ MaxCrashes \in Nat /\ MaxStops \in Nat
    /\ Faults \subseteq {"redis", "pg"}

VARIABLES
    up,         \* "up", "stopping" (in stop()) or "down"
    maxSeen,    \* _max_event_time of each process, -1 for None
    idle,       \* wall-clock time since _last_update_wall
    open,       \* _open_buckets
    flush,      \* where the flush of each process is
    todo,       \* the ready buckets its flush has not finished
    snap,       \* the counters its flush has read so far
    pc,         \* where each process is with each event
    attempt,    \* ctx.attempt
    deliveries, \* how often each process was given each event
    processed,  \* events with a "processed" record
    redis,      \* the counters of each bucket
    row,        \* the durable counters of each bucket (aggregations, windows)
    closed,     \* buckets with a durable row (is_closed)
    emitted,    \* buckets published on events.metrics
    attempts,   \* history: calls of handle() for the events of each bucket
    expired,    \* history: counters that expired
    crashes, stops

procVars  == <<up, maxSeen, idle, open>>
flushVars == <<flush, todo, snap>>
taskVars  == <<pc, attempt, deliveries, processed>>
redisVars == <<redis, attempts, expired>>
storeVars == <<row, closed, emitted>>
vars == <<procVars, flushVars, taskVars, redisVars, storeVars, crashes, stops>>

Zero == [k \in Keys |-> 0]
TaskStates == {"none", "todo", "bumpTooLate", "bumpAccepted", "num", "den", "mark"}
FlushStates == {"idle", "den", "num", "late", "persist", "emit"}

TypeOK ==
    /\ up \in [Procs -> {"up", "stopping", "down"}]
    /\ maxSeen \in [Procs -> Nat \cup {-1}]
    /\ idle \in [Procs -> 0..MaxIdle]
    /\ open \in [Procs -> SUBSET Buckets]
    /\ flush \in [Procs -> FlushStates]
    /\ todo \in [Procs -> SUBSET Buckets]
    /\ snap \in [Procs -> [Keys -> Nat]]
    /\ pc \in [Procs -> [Events -> TaskStates]]
    /\ attempt \in [Procs -> [Events -> 1..MaxAttempts]]
    /\ deliveries \in [Procs -> [Events -> 0..MaxDeliveries]]
    /\ processed \subseteq Events
    /\ redis \in [Buckets -> [Keys -> Nat]]
    /\ attempts \in [Buckets -> Nat]
    /\ expired \subseteq Buckets \X Keys
    /\ row \in [Buckets -> [Keys -> Nat]]
    /\ closed \subseteq Buckets
    /\ emitted \subseteq Buckets
    /\ crashes \in 0..MaxCrashes
    /\ stops \in 0..MaxStops

Init ==
    /\ up = [i \in Procs |-> "up"]
    /\ maxSeen = [i \in Procs |-> -1]
    /\ idle = [i \in Procs |-> 0]
    /\ open = [i \in Procs |-> {}]
    /\ flush = [i \in Procs |-> "idle"]
    /\ todo = [i \in Procs |-> {}]
    /\ snap = [i \in Procs |-> Zero]
    /\ pc = [i \in Procs |-> [e \in Events |-> "none"]]
    /\ attempt = [i \in Procs |-> [e \in Events |-> 1]]
    /\ deliveries = [i \in Procs |-> [e \in Events |-> 0]]
    /\ processed = {}
    /\ redis = [b \in Buckets |-> Zero]
    /\ attempts = [b \in Buckets |-> 0]
    /\ expired = {}
    /\ row = [b \in Buckets |-> Zero]
    /\ closed = {}
    /\ emitted = {}
    /\ crashes = 0 /\ stops = 0

----------------------------------------------------------------------------
(* Watermark *)

\* Mutant: an idle partition stalls the watermark.
WatermarkWithoutIdle(max, idl) == max - Lateness

\* Watermark.value: the newest event time less the lateness, advanced by the
\* wall-clock time that exceeds the tolerated idleness.
Watermark(max, idl) ==
    max - Lateness + (IF idl > IdleAdvance THEN idl - IdleAdvance ELSE 0)

\* Watermark.observe: the newest event time (the idle clock restarts with it).
Observe(max, t) == IF t > max THEN t ELSE max

\* Watermark.classify of an event that was just observed.
Classify(max, end) ==
    LET wm == Watermark(max, 0) IN
    IF wm < end THEN "onTime"
    ELSE IF wm < end + Lateness THEN "acceptedLate"
    ELSE "tooLate"

\* The wall clock of every process moves on.
Tick ==
    /\ idle' = [i \in Procs |-> IF idle[i] < MaxIdle THEN idle[i] + 1 ELSE idle[i]]
    /\ UNCHANGED <<up, maxSeen, open, flushVars, taskVars, redisVars, storeVars,
                   crashes, stops>>

----------------------------------------------------------------------------
(* handle() *)

\* Process i is given event e.  Offsets and assignments are StreamConsumer's; here
\* a process that is not at work on e may be given it again at any time.
Deliver(i, e) ==
    /\ up[i] = "up"
    /\ pc[i][e] = "none"
    /\ deliveries[i][e] < MaxDeliveries
    /\ deliveries' = [deliveries EXCEPT ![i][e] = @ + 1]
    /\ pc' = [pc EXCEPT ![i][e] = "todo"]
    /\ attempt' = [attempt EXCEPT ![i][e] = 1]
    /\ UNCHANGED <<procVars, flushVars, processed, redisVars, storeVars, crashes, stops>>

\* already_processed() finds the record.
Skip(i, e) ==
    /\ pc[i][e] = "todo"
    /\ e \in processed
    /\ pc' = [pc EXCEPT ![i][e] = "none"]
    /\ UNCHANGED <<procVars, flushVars, attempt, deliveries, processed, redisVars,
                   storeVars, crashes, stops>>

\* already_processed() finds none; handle() up to its first await: observe,
\* classify, and for an event on time remember the bucket.
Begin(i, e) ==
    LET t == EventTime[e]
        max == Observe(maxSeen[i], t)
        class == Classify(max, BucketEnd(BucketOf(t)))
    IN  /\ pc[i][e] = "todo"
        /\ e \notin processed
        /\ maxSeen' = [maxSeen EXCEPT ![i] = max]
        /\ idle' = [idle EXCEPT ![i] = 0]
        /\ pc' = [pc EXCEPT ![i][e] = CASE class = "onTime" -> "num"
                                        [] class = "acceptedLate" -> "bumpAccepted"
                                        [] class = "tooLate" -> "bumpTooLate"]
        /\ open' = IF class = "onTime"
                   THEN [open EXCEPT ![i] = @ \cup {BucketOf(t)}]
                   ELSE open
        /\ attempts' = [attempts EXCEPT ![BucketOf(t)] = @ + 1]
        /\ UNCHANGED <<up, attempt, deliveries, processed, flushVars, redis, expired,
                       storeVars, crashes, stops>>

Increment(e, k) ==
    redis' = [redis EXCEPT ![BucketOf(EventTime[e])][k] = @ + 1]

\* _bump_late(): a late event is counted; one that is accepted goes on to open
\* its bucket, one that is too late returns.
BumpLate(i, e) ==
    /\ pc[i][e] \in {"bumpTooLate", "bumpAccepted"}
    /\ Increment(e, "late")
    /\ pc' = [pc EXCEPT ![i][e] = IF @ = "bumpTooLate" THEN "mark" ELSE "num"]
    /\ open' = IF pc[i][e] = "bumpAccepted"
               THEN [open EXCEPT ![i] = @ \cup {BucketOf(EventTime[e])}]
               ELSE open
    /\ UNCHANGED <<up, maxSeen, idle, flushVars, attempt, deliveries, processed, attempts,
                   expired, storeVars, crashes, stops>>

\* One awaited increment of the event's contributions.
Contribute(i, e) ==
    /\ pc[i][e] \in {"num", "den"}
    /\ Increment(e, pc[i][e])
    /\ pc' = [pc EXCEPT ![i][e] = IF @ = "num" THEN "den" ELSE "mark"]
    /\ UNCHANGED <<procVars, flushVars, attempt, deliveries, processed, attempts, expired,
                   storeVars, crashes, stops>>

\* mark_processed(): from here on a delivery is skipped.
MarkProcessed(i, e) ==
    /\ pc[i][e] = "mark"
    /\ processed' = processed \cup {e}
    /\ pc' = [pc EXCEPT ![i][e] = "none"]
    /\ UNCHANGED <<procVars, flushVars, attempt, deliveries, redisVars, storeVars, crashes, stops>>

\* A store call raises (the write of the record perhaps after it took effect): the
\* framework tries the event again from the start; after the last attempt it
\* dead-letters the event and puts "failed" over whatever the record says, if that
\* write is not lost as well.
AttemptFails(i, e) ==
    /\ \/ "redis" \in Faults /\ pc[i][e] \notin {"none", "todo", "mark"}
       \/ "pg" \in Faults /\ pc[i][e] \in {"todo", "mark"}
    /\ \E wrote \in {processed} \cup (IF pc[i][e] = "mark" THEN {processed \cup {e}} ELSE {}) :
          IF attempt[i][e] < MaxAttempts
          THEN /\ pc' = [pc EXCEPT ![i][e] = "todo"]
               /\ attempt' = [attempt EXCEPT ![i][e] = @ + 1]
               /\ processed' = wrote
          ELSE /\ pc' = [pc EXCEPT ![i][e] = "none"]
               /\ processed' \in {wrote, wrote \ {e}}
               /\ UNCHANGED attempt
    /\ UNCHANGED <<procVars, flushVars, deliveries, redisVars, storeVars, crashes, stops>>

TaskStep(i, e) ==
    \/ Skip(i, e)
    \/ Begin(i, e)
    \/ BumpLate(i, e)
    \/ Contribute(i, e)
    \/ MarkProcessed(i, e)
    \/ AttemptFails(i, e)

\* The time to live of a counter, renewed by each increment, runs out.  The hour is
\* not measured: a counter may be gone at any time.
Expire(b, k) ==
    /\ redis[b][k] > 0
    /\ Cardinality(expired \cup {<<b, k>>}) <= MaxExpiries
    /\ redis' = [redis EXCEPT ![b][k] = 0]
    /\ expired' = expired \cup {<<b, k>>}
    /\ UNCHANGED <<procVars, flushVars, taskVars, attempts, storeVars, crashes, stops>>

----------------------------------------------------------------------------
(* _flush() and _finalize_bucket() *)

Ready(i) == IF maxSeen[i] = -1 THEN {}
            ELSE {b \in open[i] :
                    Watermark(maxSeen[i], idle[i]) >= BucketEnd(b) + Lateness}

\* _flush_loop() wakes up and some open bucket is past its grace.
FlushStart(i) ==
    /\ up[i] = "up"
    /\ flush[i] = "idle"
    /\ Ready(i) # {}
    /\ todo' = [todo EXCEPT ![i] = Ready(i)]
    /\ flush' = [flush EXCEPT ![i] = "den"]
    /\ UNCHANGED <<procVars, snap, taskVars, redisVars, storeVars, crashes, stops>>

\* ready is sorted: the oldest bucket first.
Current(i) == Min(todo[i])

\* One awaited read of _finalize_bucket().
FlushRead(i) ==
    /\ flush[i] \in Keys
    /\ snap' = [snap EXCEPT ![i][flush[i]] = redis[Current(i)][flush[i]]]
    /\ flush' = [flush EXCEPT ![i] = CASE @ = "den" -> "num"
                                       [] @ = "num" -> "late"
                                       [] @ = "late" -> "persist"]
    /\ UNCHANGED <<procVars, todo, taskVars, redisVars, storeVars, crashes, stops>>

\* Mutant: the Redis state is deleted with the flush, as ADR 0005 has it.
PersistAndDelete(i) ==
    /\ flush[i] = "persist"
    /\ row' = [row EXCEPT ![Current(i)] = snap[i]]
    /\ closed' = closed \cup {Current(i)}
    /\ redis' = [redis EXCEPT ![Current(i)] = Zero]
    /\ flush' = [flush EXCEPT ![i] = "emit"]
    /\ UNCHANGED <<procVars, todo, snap, taskVars, attempts, expired, emitted, crashes, stops>>

\* Mutant: the upsert adds to the row instead of replacing it.
PersistAdds(i) ==
    /\ flush[i] = "persist"
    /\ row' = [row EXCEPT ![Current(i)] = [k \in Keys |-> @[k] + snap[i][k]]]
    /\ closed' = closed \cup {Current(i)}
    /\ flush' = [flush EXCEPT ![i] = "emit"]
    /\ UNCHANGED <<procVars, todo, snap, taskVars, redisVars, emitted, crashes, stops>>

\* _persist(): one transaction upserts the aggregations and the window row.
Persist(i) ==
    /\ flush[i] = "persist"
    /\ row' = [row EXCEPT ![Current(i)] = snap[i]]
    /\ closed' = closed \cup {Current(i)}
    /\ flush' = [flush EXCEPT ![i] = "emit"]
    /\ UNCHANGED <<procVars, todo, snap, taskVars, redisVars, emitted, crashes, stops>>

\* Where a flush goes when the buckets in rest are left: the next bucket, or
\* back to sleep; a forced flush ends the process.
FlushGoesOn(i, rest) ==
    /\ todo' = [todo EXCEPT ![i] = rest]
    /\ snap' = [snap EXCEPT ![i] = Zero]
    /\ flush' = [flush EXCEPT ![i] = IF rest = {} THEN "idle" ELSE "den"]
    /\ up' = [up EXCEPT ![i] = IF rest = {} /\ @ = "stopping" THEN "down" ELSE @]

\* Publish on events.metrics (errors suppressed), then forget the bucket.
Emit(i) ==
    /\ flush[i] = "emit"
    /\ \/ emitted' = emitted \cup {Current(i)}
       \/ UNCHANGED emitted
    /\ open' = [open EXCEPT ![i] = @ \ {Current(i)}]
    /\ FlushGoesOn(i, todo[i] \ {Current(i)})
    /\ UNCHANGED <<maxSeen, idle, taskVars, redisVars, row, closed, crashes, stops>>

\* A read or the transaction raises: the flush is abandoned, its buckets stay open.
FlushFails(i) ==
    /\ \/ "redis" \in Faults /\ flush[i] \in Keys
       \/ "pg" \in Faults /\ flush[i] = "persist"
    /\ FlushGoesOn(i, {})
    /\ UNCHANGED <<maxSeen, idle, open, taskVars, redisVars, storeVars, crashes, stops>>

FlushStep(i) ==
    FlushStart(i) \/ FlushRead(i) \/ Persist(i) \/ Emit(i) \/ FlushFails(i)

----------------------------------------------------------------------------
(* Process lifecycle *)

\* Mutant: stop() does not flush.
StopWithoutFlush(i) ==
    /\ up[i] = "up"
    /\ \A e \in Events : pc[i][e] = "none"
    /\ stops < MaxStops
    /\ stops' = stops + 1
    /\ up' = [up EXCEPT ![i] = "down"]
    /\ todo' = [todo EXCEPT ![i] = {}]
    /\ flush' = [flush EXCEPT ![i] = "idle"]
    /\ snap' = [snap EXCEPT ![i] = Zero]
    /\ UNCHANGED <<maxSeen, idle, open, taskVars, redisVars, storeVars, crashes>>

\* stop(): the loop has drained its batch; the flusher is cancelled wherever it
\* is, and a forced flush takes every open bucket.
Stop(i) ==
    /\ up[i] = "up"
    /\ \A e \in Events : pc[i][e] = "none"
    /\ stops < MaxStops
    /\ stops' = stops + 1
    /\ up' = [up EXCEPT ![i] = IF open[i] = {} THEN "down" ELSE "stopping"]
    /\ todo' = [todo EXCEPT ![i] = open[i]]
    /\ flush' = [flush EXCEPT ![i] = IF open[i] = {} THEN "idle" ELSE "den"]
    /\ snap' = [snap EXCEPT ![i] = Zero]
    /\ UNCHANGED <<maxSeen, idle, open, taskVars, redisVars, storeVars, crashes>>

\* The process dies with its watermark, its open buckets and its handlers.
Crash(i) ==
    /\ up[i] # "down"
    /\ crashes < MaxCrashes
    /\ crashes' = crashes + 1
    /\ up' = [up EXCEPT ![i] = "down"]
    /\ todo' = [todo EXCEPT ![i] = {}]
    /\ flush' = [flush EXCEPT ![i] = "idle"]
    /\ snap' = [snap EXCEPT ![i] = Zero]
    /\ pc' = [pc EXCEPT ![i] = [e \in Events |-> "none"]]
    /\ UNCHANGED <<maxSeen, idle, open, attempt, deliveries, processed, redisVars, storeVars,
                   stops>>

\* __init__() and start(): a fresh watermark and no open bucket.
Restart(i) ==
    /\ up[i] = "down"
    /\ up' = [up EXCEPT ![i] = "up"]
    /\ maxSeen' = [maxSeen EXCEPT ![i] = -1]
    /\ idle' = [idle EXCEPT ![i] = 0]
    /\ open' = [open EXCEPT ![i] = {}]
    /\ UNCHANGED <<flushVars, taskVars, redisVars, storeVars, crashes, stops>>

Next ==
    \/ Tick
    \/ \E i \in Procs, e \in Events : Deliver(i, e) \/ TaskStep(i, e)
    \/ \E b \in Buckets, k \in Keys : Expire(b, k)
    \/ \E i \in Procs : FlushStep(i) \/ Stop(i) \/ Crash(i) \/ Restart(i)

Spec == Init /\ [][Next]_vars

\* The clock runs, asyncio schedules the handlers and the flush task, and the
\* supervisor restarts a process that is down.
Fairness ==
    /\ WF_vars(Tick)
    /\ \A i \in Procs, e \in Events : WF_vars(TaskStep(i, e))
    /\ \A i \in Procs : WF_vars(FlushStep(i)) /\ WF_vars(Restart(i))

FairSpec == Spec /\ Fairness

----------------------------------------------------------------------------
(* Properties *)

\* A durable row loses counts by the time to live only: however often a bucket is
\* reopened after it was closed, stopped, redelivered or restarted, each upsert of
\* _persist() writes at least what was there, except for a counter whose Redis key
\* expired in between and started again from zero (one process).
OnlyExpiryShrinksRows ==
    [][\A b \in Buckets : \A k \in Keys :
          row'[b][k] < row[b][k] => <<b, k>> \in expired]_vars

\* No attempt at an event is counted twice, however crashes, rebalances, retries and
\* reopened buckets follow each other: neither Redis nor a durable row ever holds
\* more than one contribution per call of handle(), and a row holds no more than
\* Redis as long as the counter did not expire.
NoOvercountPerAttempt ==
    /\ TypeOK
    /\ \A b \in Buckets : \A k \in Keys :
          /\ redis[b][k] <= attempts[b]
          /\ row[b][k] <= attempts[b]
          /\ row[b][k] <= redis[b][k] \/ <<b, k>> \in expired

\* A graceful stop leaves no bucket behind: when every process is down and none
\* ever crashed, each bucket an event was folded into has a durable row.
GracefulStopKeepsBuckets ==
    (crashes = 0 /\ \A i \in Procs : up[i] = "down")
    => \A b \in Buckets : redis[b]["den"] > 0 => b \in closed

\* Every bucket an event was folded into is eventually closed, even when no
\* newer event ever moves the watermark (idle advance), unless a crash forgets it.
EventuallyClosed ==
    \A b \in Buckets : redis[b]["den"] > 0 ~> b \in closed \/ crashes > 0

----------------------------------------------------------------------------
(* Inductive invariants *)

\* A flush that is under way has a bucket, of which it has read counts that were
\* counted, and that Redis has unless they expired; one that is not has read none.
FlushReadsPast(i) ==
    IF flush[i] = "idle" THEN snap[i] = Zero
    ELSE /\ todo[i] # {}
         /\ \A k \in Keys :
               /\ snap[i][k] <= attempts[Current(i)]
               /\ snap[i][k] <= redis[Current(i)][k] \/ <<Current(i), k>> \in expired

RowsAreBehind ==
    \A b \in Buckets : \A k \in Keys :
        /\ row[b][k] <= attempts[b]
        /\ row[b][k] <= redis[b][k] \/ <<b, k>> \in expired

\* Where handle() is while its increment of k is still ahead.
Ahead(k) ==
    CASE k = "late" -> {"bumpTooLate", "bumpAccepted"}
      [] k = "num"  -> {"bumpAccepted", "num"}
      [] k = "den"  -> {"bumpAccepted", "num", "den"}

\* The calls of handle() for events of b that have not incremented k yet.
Pending(b, k) == {t \in Procs \X EventsOf(b) : pc[t[1]][t[2]] \in Ahead(k)}

CountsHaveAttempts ==
    \A b \in Buckets : \A k \in Keys :
        redis[b][k] + Cardinality(Pending(b, k)) <= attempts[b]

IndInv ==
    /\ TypeOK
    /\ \A i \in Procs : FlushReadsPast(i)
    /\ RowsAreBehind
    /\ CountsHaveAttempts

\* The counters that a flush has read of its bucket.
HasRead(i, k) ==
    flush[i] \in {"persist", "emit"} \cup
        CASE k = "den"  -> {"num", "late"}
          [] k = "num"  -> {"late"}
          [] k = "late" -> {}

\* What a flush has read is at least what the row has, unless it expired (one process).
ReadsAheadOfRow(i) ==
    \A k \in Keys :
        HasRead(i, k) => \/ row[Current(i)][k] <= snap[i][k]
                         \/ <<Current(i), k>> \in expired

\* Handlers run in processes that are up.
HandlersAreUp == \A i \in Procs, e \in Events : pc[i][e] # "none" => up[i] = "up"

\* A bucket has its row before its metrics are published.
EmitIsClosed == \A i \in Procs : flush[i] = "emit" => Current(i) \in closed

\* A forced flush has all open buckets to do, and a process that it ended none.
ForcedFlushCovers(i) ==
    /\ up[i] = "stopping" => flush[i] # "idle" /\ open[i] \subseteq todo[i]
    /\ up[i] = "down" => open[i] = {}

\* A bucket that is counted, or about to be, has its row or is remembered.
Remembered(b) == b \in closed \/ \E i \in Procs : b \in open[i]

StopInv ==
    /\ HandlersAreUp
    /\ EmitIsClosed
    /\ crashes = 0 =>
        /\ \A i \in Procs : ForcedFlushCovers(i)
        /\ \A b \in Buckets : redis[b]["den"] > 0 => Remembered(b)
        /\ \A i \in Procs, e \in Events :
              pc[i][e] \in {"num", "den"} => Remembered(BucketOf(EventTime[e]))

=============================================================================
