----------------------------- MODULE Anomalies -----------------------------
(***************************************************************************)
(* The anomaly detector (pravaha/consumers/anomaly_worker.py with          *)
(* anomaly/service.py and alerting/engine.py): concurrent handle() tasks,  *)
(* each one PostgreSQL transaction that stores anomalies and alerts and    *)
(* publishes both before it commits; and the alert rule API.               *)
(*                                                                         *)
(* One message of events.metrics stands for one minute.  A detector's      *)
(* floating-point score is chosen freely from Scores.  There is one rule.  *)
(* All samples fall into the same ten-minute window of the dedup key.      *)
(* Transactions are READ COMMITTED: an insert of a key, or an update of a  *)
(* rule, that another transaction has under way waits for its end.         *)
(***************************************************************************)
EXTENDS Integers, Sequences, FiniteSets, FiniteSetsExt

CONSTANTS
    Detectors,      \* concurrent handle() tasks of the group
    Metrics,        \* WATCH_METRICS that are in the message
    Scores,         \* the absolute z scores a detector may compute
    Series,         \* Series[t]: the rule's metric in minute t, or NoSample
    NoSample,
    Rule,           \* operator, threshold, duration and cooldown, in minutes
    MaxIds,         \* bound: anomaly rows ever inserted
    MaxAttempts,    \* settings.consumer_retry_max_attempts
    MaxFaults       \* bound: failing calls and crashes in a behaviour

MaxClock == Len(Series)

ASSUME AnomalyAssumption ==
    /\ Scores \subseteq Nat
    /\ Rule \in [operator: {"gt", "gte", "lt", "lte", "drop_pct", "rise_pct"},
                 threshold: Nat, duration: Nat, cooldown: Nat]
    /\ Series \in Seq(Nat \cup {NoSample}) /\ IsFiniteSet(Detectors)
    /\ MaxAttempts \in Nat \ {0} /\ MaxIds \in Nat /\ MaxFaults \in Nat

VARIABLES
    clock,      \* the current minute
    samples,    \* messages of events.metrics not yet taken up
    task,       \* task[d]: the handle() call of a detector task
    nextId,     \* ids handed out by the database so far
    anomalies,  \* anomaly_records: key and status, by id
    published,  \* messages of events.anomalies: id and severity
    rule,       \* alert_rules: "enabled", "disabled" or "deleted", last_fired_at
    alerts,     \* committed alerts: fired_at, numbered within a minute
    faults      \* environment counter, capped by its bound

detectVars == <<clock, samples, task, nextId, anomalies, published, rule, alerts, faults>>

----------------------------------------------------------------------------
\* severity_for()
severity_for(z) ==
    IF z >= 6 THEN "CRITICAL" ELSE IF z >= 4 THEN "HIGH"
    ELSE IF z >= 3 THEN "MEDIUM" ELSE "LOW"

\* Detector.detect() of the z-score detectors: at three deviations.
IsAnomaly(z) == z >= 3

Statuses == {"OPEN", "INVESTIGATING", "RESOLVED", "DISMISSED"}
Keys == Metrics \X {severity_for(z) : z \in Scores}

\* evaluate_single_rule(): the condition on the samples of the lookback.
RuleHolds(now) ==
    LET known(lo, hi) == {t \in 1..MaxClock :
                            lo <= t /\ t <= hi /\ t <= now /\ Series[t] # NoSample}
        all      == known(now - Max({Rule.duration, 1}) - 2, now)
        latest   == Series[Max(all)]
        within   == known(now - Rule.duration, now) \cap all
        window   == IF within = {} THEN {Max(all)} ELSE within
        prior    == all \ within
        compare(v) == CASE Rule.operator = "gt"  -> v > Rule.threshold
                        [] Rule.operator = "gte" -> v >= Rule.threshold
                        [] Rule.operator = "lt"  -> v < Rule.threshold
                        [] OTHER                 -> v <= Rule.threshold
        value(t) == Series[t]
        \* 100 * (latest - base) / base against the threshold, times n * base
        n        == IF prior = {} THEN 1 ELSE Cardinality(prior)
        base     == IF prior = {} THEN Series[Min(window)] ELSE MapThenSumSet(value, prior)
        rise     == 100 * (n * latest - base)
    IN  /\ all # {}
        /\ CASE Rule.operator = "drop_pct" -> base > 0 /\ rise <= -(Rule.threshold * base)
             [] Rule.operator = "rise_pct" -> base > 0 /\ rise >= Rule.threshold * base
             [] OTHER -> \A t \in window : compare(Series[t])

----------------------------------------------------------------------------
Idle == [pc |-> "idle"]

\* A fresh handle() call: nothing inserted, nothing fired.
Begun(now, attempt) ==
    [pc |-> "metrics", now |-> now, attempt |-> attempt, todo |-> Metrics,
     rows |-> <<>>, fires |-> FALSE]

\* A call under way: the ids it inserted are among those handed out.
IsCall(t) ==
    /\ t \in [pc: {"metrics", "publish", "fire", "alert", "commit"},
              now: 1..MaxClock, attempt: 1..MaxAttempts, todo: SUBSET Metrics,
              rows: {t.rows}, fires: BOOLEAN]
    /\ DOMAIN t.rows \subseteq 1..nextId /\ t.rows \in [DOMAIN t.rows -> Keys]

DetectTypeOK ==
    /\ clock \in 1..MaxClock /\ samples \in 0..MaxClock
    /\ DOMAIN task = Detectors
    /\ \A d \in Detectors : task[d] = Idle \/ IsCall(task[d])
    /\ nextId \in 0..MaxIds
    /\ DOMAIN anomalies \subseteq 1..nextId
    /\ anomalies \in [DOMAIN anomalies -> [key: Keys, status: Statuses]]
    /\ \A m \in published : m.id \in 1..nextId
    /\ rule \in [state: {"enabled", "disabled", "deleted"}, last: 0..MaxClock]
    /\ alerts \subseteq (1..MaxClock) \X (Nat \ {0}) /\ IsFiniteSet(alerts)

\* The detector's part of a situation: its rows are committed and were published.
DetectInit(s) ==
    /\ clock = s.clock /\ samples = s.samples
    /\ task = [d \in Detectors |-> Idle]
    /\ nextId = Len(s.rows)
    /\ anomalies = [x \in DOMAIN s.rows |-> [key |-> s.rows[x], status |-> "OPEN"]]
    /\ published = {[id |-> x, severity |-> s.rows[x][2]] : x \in DOMAIN s.rows}
    /\ rule = [state |-> "enabled", last |-> 0]
    /\ alerts = {}
    /\ faults = s.faults

\* The analytics worker closes a minute and publishes its metrics (external).
Tick ==
    /\ clock < MaxClock
    /\ clock' = clock + 1 /\ samples' = samples + 1
    /\ UNCHANGED <<task, nextId, anomalies, published, rule, alerts, faults>>

\* handle() takes a message: detected_at is now.
Begin(d) ==
    /\ task[d] = Idle /\ samples > 0
    /\ samples' = samples - 1
    /\ task' = [task EXCEPT ![d] = Begun(clock, 1)]
    /\ UNCHANGED <<clock, nextId, anomalies, published, rule, alerts, faults>>

\* The function f with the value v for x.
With(f, x, v) == [y \in DOMAIN f \cup {x} |-> IF y = x THEN v ELSE f[y]]

\* A transaction that has inserted the key and is still open.
Inserting(d, k) == task[d] # Idle /\ \E x \in DOMAIN task[d].rows : task[d].rows[x] = k

\* Mutant: the dedup key is read, and not unique in the table.
EvaluateUnlocked(d) ==
    /\ task[d] # Idle /\ task[d].pc = "metrics" /\ task[d].todo # {}
    /\ \E m \in task[d].todo, z \in Scores :
        LET k == <<m, severity_for(z)>>
            known == \E x \in DOMAIN anomalies : anomalies[x].key = k
            rest == [task[d] EXCEPT !.todo = @ \ {m}]
        IN  IF ~IsAnomaly(z) \/ known
            THEN task' = [task EXCEPT ![d] = rest] /\ UNCHANGED nextId
            ELSE /\ nextId < MaxIds /\ nextId' = nextId + 1
                 /\ task' = [task EXCEPT ![d] =
                        [rest EXCEPT !.pc = "publish", !.rows = With(@, nextId', k)]]
    /\ UNCHANGED <<clock, samples, anomalies, published, rule, alerts, faults>>

\* evaluate_metric(): no anomaly, a known dedup key, or a new row.
Evaluate(d) ==
    /\ task[d] # Idle /\ task[d].pc = "metrics" /\ task[d].todo # {}
    /\ \E m \in task[d].todo, z \in Scores :
        LET k == <<m, severity_for(z)>>
            known == \E x \in DOMAIN anomalies : anomalies[x].key = k
            rest == [task[d] EXCEPT !.todo = @ \ {m}]
        IN  IF ~IsAnomaly(z) \/ known
            THEN task' = [task EXCEPT ![d] = rest] /\ UNCHANGED nextId
            ELSE /\ \A o \in Detectors \ {d} : ~Inserting(o, k)
                 /\ nextId < MaxIds /\ nextId' = nextId + 1
                 /\ task' = [task EXCEPT ![d] =
                        [rest EXCEPT !.pc = "publish", !.rows = With(@, nextId', k)]]
    /\ UNCHANGED <<clock, samples, anomalies, published, rule, alerts, faults>>

\* The anomaly goes to events.anomalies while its row is not committed.
Publish(d) ==
    /\ task[d] # Idle /\ task[d].pc = "publish"
    /\ LET x == Max(DOMAIN task[d].rows)
       IN  published' = published \cup {[id |-> x, severity |-> task[d].rows[x][2]]}
    /\ task' = [task EXCEPT ![d].pc = "metrics"]
    /\ UNCHANGED <<clock, samples, nextId, anomalies, rule, alerts, faults>>

\* Mutant: the cooldown is not looked at.
EvaluateAlways(d) ==
    /\ task[d] # Idle /\ task[d].pc = "metrics" /\ task[d].todo = {}
    /\ LET fires == rule.state = "enabled" /\ RuleHolds(task[d].now)
       IN  task' = [task EXCEPT ![d].pc = IF fires THEN "fire" ELSE "commit"]
    /\ UNCHANGED <<clock, samples, nextId, anomalies, published, rule, alerts, faults>>

\* evaluate_rules(): enabled, outside its cooldown, and the condition holds.
EvaluateRules(d) ==
    /\ task[d] # Idle /\ task[d].pc = "metrics" /\ task[d].todo = {}
    /\ LET fires == /\ rule.state = "enabled"
                    /\ rule.last = 0 \/ task[d].now - rule.last >= Rule.cooldown
                    /\ RuleHolds(task[d].now)
       IN  task' = [task EXCEPT ![d].pc = IF fires THEN "fire" ELSE "commit"]
    /\ UNCHANGED <<clock, samples, nextId, anomalies, published, rule, alerts, faults>>

Updating(d) == task[d] # Idle /\ task[d].fires

\* The alert is inserted and last_fired_at updated; an update waits for the
\* row, and one of a rule that was deleted raises.
Fire(d) ==
    /\ task[d] # Idle /\ task[d].pc = "fire" /\ rule.state # "deleted"
    /\ \A o \in Detectors \ {d} : ~Updating(o)
    /\ task' = [task EXCEPT ![d].pc = "alert", ![d].fires = TRUE]
    /\ UNCHANGED <<clock, samples, nextId, anomalies, published, rule, alerts, faults>>

\* alert.fired goes to events.audit.
PublishAlert(d) ==
    /\ task[d] # Idle /\ task[d].pc = "alert"
    /\ task' = [task EXCEPT ![d].pc = "commit"]
    /\ UNCHANGED <<clock, samples, nextId, anomalies, published, rule, alerts, faults>>

\* The alerts that were fired in the n minutes from t on.
FiredIn(t, n) == {a \in alerts : t <= a[1] /\ a[1] < t + n}

Commit(d) ==
    /\ task[d] # Idle /\ task[d].pc = "commit"
    /\ LET rows == task[d].rows
       IN  anomalies' = [x \in DOMAIN anomalies \cup DOMAIN rows |->
                            IF x \in DOMAIN anomalies THEN anomalies[x]
                            ELSE [key |-> rows[x], status |-> "OPEN"]]
    /\ IF task[d].fires
       THEN /\ alerts' = alerts \cup {<<task[d].now, Cardinality(FiredIn(task[d].now, 1)) + 1>>}
            /\ rule' = [rule EXCEPT !.last = task[d].now]
       ELSE UNCHANGED <<alerts, rule>>
    /\ task' = [task EXCEPT ![d] = Idle]
    /\ UNCHANGED <<clock, samples, nextId, published, faults>>

\* A call raises: the transaction is rolled back, what was published stays; the
\* framework handles the message again, or dead-letters it at the last attempt.
Rollback(d) ==
    /\ task' = [task EXCEPT ![d] = IF @.attempt < MaxAttempts
                                   THEN Begun(clock, @.attempt + 1) ELSE Idle]
    /\ UNCHANGED <<clock, samples, nextId, anomalies, published, rule, alerts>>

HandleFails(d) ==
    /\ task[d] # Idle
    /\ \/ task[d].pc = "fire" /\ rule.state = "deleted" /\ UNCHANGED faults
       \/ faults < MaxFaults /\ faults' = faults + 1
    /\ Rollback(d)

\* The process dies (external); the message is delivered again.
CrashDetector(d) ==
    /\ task[d] # Idle /\ faults < MaxFaults
    /\ faults' = faults + 1
    /\ task' = [task EXCEPT ![d] = Idle]
    /\ samples' = samples + 1
    /\ UNCHANGED <<clock, nextId, anomalies, published, rule, alerts>>

\* update_rule() and delete_rule(); both wait for a transaction that updates it.
SetRule(state) ==
    /\ rule.state # "deleted" /\ rule.state # state
    /\ \A d \in Detectors : ~Updating(d)
    /\ rule' = [rule EXCEPT !.state = state]
    /\ UNCHANGED <<clock, samples, task, nextId, anomalies, published, alerts, faults>>

DetectorStep(d) ==
    \/ Begin(d) \/ Evaluate(d) \/ Publish(d) \/ EvaluateRules(d)
    \/ Fire(d) \/ PublishAlert(d) \/ Commit(d)

DetectNext ==
    \/ Tick
    \/ \E d \in Detectors : DetectorStep(d) \/ HandleFails(d) \/ CrashDetector(d)

----------------------------------------------------------------------------
(* Properties *)

\* Publishing before the commit means that an anomaly in the table was on the
\* stream; and the unique dedup key leaves one row of a kind per window however
\* many tasks see it at once.
StoredIsPublishedOnce ==
    /\ \A x \in DOMAIN anomalies : \E m \in published : m.id = x
    /\ \A x, y \in DOMAIN anomalies : anomalies[x].key = anomalies[y].key => x = y

\* The cooldown is the code's guard against alert storms.  It is read before
\* the rule's row is locked, so it stops nobody who read it already; and a task
\* that began earlier and commits later puts last_fired_at back, which ends the
\* cooldown for all who are not pending.  So k tasks fire at most
\* k + (k - 1) + ... + 1 alerts within any cooldown.
BoundedStorm ==
    \A t \in 1..MaxClock :
        2 * Cardinality(FiredIn(t, Rule.cooldown))
            <= Cardinality(Detectors) * (Cardinality(Detectors) + 1)

\* What the table rests on: an id or a key that an open transaction inserted is
\* nobody else's, and not committed; the metrics still to do have no row yet.
KeysAreNew ==
    \A d \in Detectors : task[d] # Idle => \A x \in DOMAIN task[d].rows :
        /\ x \notin DOMAIN anomalies
        /\ task[d].rows[x][1] \notin task[d].todo
        /\ \A y \in DOMAIN task[d].rows : task[d].rows[y] = task[d].rows[x] => y = x
        /\ \A y \in DOMAIN anomalies : anomalies[y].key # task[d].rows[x]
        /\ \A o \in Detectors \ {d} : task[o] # Idle =>
              x \notin DOMAIN task[o].rows /\ ~Inserting(o, task[d].rows[x])

\* Only the newest row of a task may still have to be published.
Newest(t, x) == \A y \in DOMAIN t.rows : y <= x
RowsArePublished ==
    \A d \in Detectors : task[d] # Idle =>
        /\ task[d].pc = "publish" => \E x \in DOMAIN task[d].rows : Newest(task[d], x)
        /\ \A x \in DOMAIN task[d].rows :
            \/ \E m \in published : m.id = x
            \/ task[d].pc = "publish" /\ Newest(task[d], x)

\* A message is either still to be taken up or with a task.
SamplesAreFew == samples + Cardinality({d \in Detectors : task[d] # Idle}) <= clock

DetectInv ==
    /\ DetectTypeOK /\ SamplesAreFew
    /\ KeysAreNew /\ RowsArePublished /\ StoredIsPublishedOnce

\* For the span from t on: the tasks that began before it; those in it that
\* will fire; and whether last_fired_at lets the others of the span fire.
Stale(t) == {d \in Detectors : task[d] # Idle /\ task[d].now < t}
Firing(d) == task[d] # Idle /\ (task[d].pc = "fire" \/ task[d].fires)
Pending(t) == {d \in Detectors : Firing(d) /\ t <= task[d].now
                                  /\ task[d].now < t + Rule.cooldown}
Triangle(n) == n * (n + 1)

\* The alerts of a span, and those that are on their way, are bounded by the
\* tasks that are not stale; a stale task that ends makes room for one round.
SpanIsBounded(t) ==
    LET n == Cardinality(Detectors) - Cardinality(Stale(t))
        f == Cardinality(FiredIn(t, Rule.cooldown))
    IN  2 * (f + (IF rule.last < t THEN n ELSE Cardinality(Pending(t)))) <= Triangle(n)

StormInv ==
    /\ rule.last <= clock
    /\ \A d \in Detectors : task[d] # Idle =>
          /\ task[d].now <= clock
          /\ task[d].fires => task[d].pc \in {"alert", "commit"}
    /\ \A a \in alerts : a[1] <= clock /\ a[2] <= Cardinality(FiredIn(a[1], 1))
    /\ \A t \in 1..MaxClock : SpanIsBounded(t)
=============================================================================
