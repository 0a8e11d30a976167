------------------------------ MODULE Gateway ------------------------------
(***************************************************************************)
(* The API in front of the platform (pravaha/api/deps.py, api/audit.py,    *)
(* producers/service.py, redis_client.py, the auth and producers routers   *)
(* and consumers/audit_worker.py): API keys, the sliding-window rate       *)
(* limiter, administration of one producer, logins, and the audit trail    *)
(* that is written twice, in the request's transaction and from a topic.   *)
(*                                                                         *)
(* A request is a task; what lies between two awaits is one step.  A keyed *)
(* hash is modelled by its key, a password by whether it matches.  Request *)
(* transactions commit when the handler has returned, before the response. *)
(***************************************************************************)
EXTENDS Integers, Sequences, FiniteSets, FiniteSetsExt

CONSTANTS
    Callers,    \* requests that may be under way at once
    Window,     \* window_ms of enforce_rate_limit()
    MaxDelay,   \* bound: time between reading the clock and the Lua script
    Limits,     \* values of rate_limit_per_min an administrator sets
    MaxNow,     \* bound: time
    MaxOps,     \* bound: administrative requests and logins
    MaxGateFaults \* bound: failing calls

ASSUME GateAssumption ==
    /\ Window \in Nat /\ MaxDelay \in 0..Window /\ MaxNow \in Nat
    /\ Limits \subseteq Nat /\ Limits # {} /\ IsFiniteSet(Limits) /\ IsFiniteSet(Callers)
    /\ MaxOps \in Nat /\ MaxGateFaults \in Nat

VARIABLES
    now,        \* time
    producer,   \* the producers row: status, current key, rate limit
    keys,       \* API keys generated so far
    names,      \* committed rows with the name that create() is asked for
    call,       \* call[c]: the request of a task
    zset,       \* the limiter's sorted set: members, a score and a random number
    expiry,     \* when its key expires
    granted,    \* history: members that allowed requests added
    ops,        \* outcome of each administrative request or login
    trail,      \* audit_logs: rows of an operation, by writer
    audits,     \* operations on events.audit, not consumed yet
    silent,     \* history: operations whose emit to the topic failed
    misfits,    \* operations with an actor that the column of audit_logs cannot hold
    deadAudits, \* operations whose message the audit worker gave up: a dead letter
    gateFaults  \* environment counter, capped by its bound

gateVars == <<now, producer, keys, names, call, zset, expiry, granted,
              ops, trail, audits, silent, misfits, deadAudits, gateFaults>>

----------------------------------------------------------------------------
NoCall == [pc |-> "idle"]
Outcomes == {"open", "done", "refused", "failed", "undone"}
Changes == {"rotate", "enable", "disable", "limit", "create"}

\* Operations that something was noted of on the way to audit_logs.
Messages == audits \cup silent \cup misfits \cup deadAudits

GateTypeOK ==
    /\ now \in 0..MaxNow /\ keys \in 1..MaxOps + 1
    /\ producer \in [status: {"ACTIVE", "DISABLED"}, key: 1..keys, limit: Limits]
    /\ \A c \in Callers : call[c] = NoCall \/
        call[c].pc \in {"limit", "eval", "flush", "audit", "commit", "refuse"}
    /\ granted \subseteq (0..MaxNow) \X (Nat \ {0}) /\ IsFiniteSet(granted) /\ zset \subseteq granted
    /\ ops \in Seq(Outcomes)
    /\ trail \subseteq (DOMAIN ops) \X {"api", "worker"}
    /\ Messages \subseteq DOMAIN ops
    /\ names <= 1

GateInit ==
    /\ now = 0 /\ keys = 1 /\ names = 0
    /\ producer = [status |-> "ACTIVE", key |-> 1, limit |-> Min(Limits)]
    /\ call = [c \in Callers |-> NoCall]
    /\ zset = {} /\ expiry = 0 /\ granted = {}
    /\ ops = <<>> /\ trail = {} /\ audits = {} /\ silent = {}
    /\ misfits = {} /\ deadAudits = {} /\ gateFaults = 0

----------------------------------------------------------------------------
(* Requests of producers *)

\* authed_producer(): the key of an active producer; its limit is read here.
Authenticate(c, k) ==
    /\ call[c] = NoCall
    /\ k = producer.key /\ producer.status = "ACTIVE"
    /\ call' = [call EXCEPT ![c] = [pc |-> "limit", limit |-> producer.limit]]
    /\ UNCHANGED <<now, producer, keys, names, zset, expiry, granted,
                   ops, trail, audits, silent, misfits, deadAudits, gateFaults>>

\* enforce_rate_limit() reads the clock ...
Stamp(c) ==
    /\ call[c] # NoCall /\ call[c].pc = "limit"
    /\ call' = [call EXCEPT ![c] = [pc |-> "eval", limit |-> @.limit, at |-> now]]
    /\ UNCHANGED <<now, producer, keys, names, zset, expiry, granted,
                   ops, trail, audits, silent, misfits, deadAudits, gateFaults>>

\* math.random() of the script (external): a number that a member with this
\* score has, as Redis may begin every script with the same seed, or a new one.
Draws(at) == 1..Cardinality({e \in granted : e[1] = at}) + 1

\* Mutant: entries as old as half the window are removed.
EvaluateShort(c) ==
    /\ call[c] # NoCall /\ call[c].pc = "eval"
    /\ LET at   == call[c].at
           kept == {e \in zset : e[1] > at - (Window \div 2)}
       IN  IF Cardinality(kept) < call[c].limit
           THEN /\ \E n \in Draws(at) :
                    zset' = kept \cup {<<at, n>>} /\ granted' = granted \cup {<<at, n>>}
                /\ expiry' = now + Window
           ELSE zset' = kept /\ UNCHANGED <<expiry, granted>>
    /\ call' = [call EXCEPT ![c] = NoCall]
    /\ UNCHANGED <<now, producer, keys, names, ops, trail, audits, silent, misfits, deadAudits, gateFaults>>

\* ... and the script, one step of Redis, removes entries older than the window
\* before the stated time, counts the rest and adds a member; one that is there
\* already is not added twice.
Evaluate(c) ==
    /\ call[c] # NoCall /\ call[c].pc = "eval"
    /\ LET at   == call[c].at
           kept == {e \in zset : e[1] > at - Window}
       IN  IF Cardinality(kept) < call[c].limit
           THEN /\ \E n \in Draws(at) :
                    zset' = kept \cup {<<at, n>>} /\ granted' = granted \cup {<<at, n>>}
                /\ expiry' = now + Window
           ELSE zset' = kept /\ UNCHANGED <<expiry, granted>>
    /\ call' = [call EXCEPT ![c] = NoCall]
    /\ UNCHANGED <<now, producer, keys, names, ops, trail, audits, silent, misfits, deadAudits, gateFaults>>

\* Redis raises: the limiter fails open.
LimiterFails(c) ==
    /\ call[c] # NoCall /\ call[c].pc = "eval" /\ gateFaults < MaxGateFaults
    /\ gateFaults' = gateFaults + 1
    /\ call' = [call EXCEPT ![c] = NoCall]
    /\ UNCHANGED <<now, producer, keys, names, zset, expiry, granted, ops, trail, audits, silent, misfits, deadAudits>>

\* Time passes, at most MaxDelay for a call on its way to Redis; the key expires.
GateTick ==
    /\ now < MaxNow
    /\ \A c \in Callers : call[c] # NoCall /\ call[c].pc = "eval" => now - call[c].at < MaxDelay
    /\ now' = now + 1
    /\ zset' = IF now' >= expiry THEN {} ELSE zset
    /\ UNCHANGED <<producer, keys, names, call, expiry, granted,
                   ops, trail, audits, silent, misfits, deadAudits, gateFaults>>

----------------------------------------------------------------------------
(* Administration: read, flush (the row is locked), audit, commit *)

Opens(c, step, request, unchanged) ==
    /\ call[c] = NoCall /\ Len(ops) < MaxOps
    /\ ops' = Append(ops, "open")
    /\ call' = [call EXCEPT ![c] = [pc |-> step, what |-> request, same |-> unchanged,
                                    op |-> Len(ops) + 1]]
    /\ UNCHANGED <<now, producer, keys, names, zset, expiry, granted,
                   trail, audits, silent, deadAudits, gateFaults>>

\* require_admin, then the row, or the name, is read.  A column that has the new
\* value already will not be written.
Edit(c, what) ==
    LET same == \/ what = "enable" /\ producer.status = "ACTIVE"
                \/ what = "disable" /\ producer.status = "DISABLED"
                \/ what = "create" /\ names > 0
    IN  Opens(c, "flush", what, same) /\ UNCHANGED misfits

\* login() with credentials that do not match: the actor is the text that was given,
\* of any length.
LoginFails(c) ==
    /\ Opens(c, "audit", "login", TRUE)
    /\ misfits' \in {misfits, misfits \cup {Len(ops')}}

\* login() with credentials that match: an audited request that changes no producer.
LoginSucceeds(c) == Opens(c, "audit", "signin", TRUE) /\ UNCHANGED misfits

Holds(c, what) ==
    /\ call[c] # NoCall /\ call[c].pc \in {"audit", "commit"}
    /\ call[c].what \in what /\ ~call[c].same
Rows == Changes \ {"create"}

\* Ends the request without a change: the transaction is rolled back.
End(c, outcome) ==
    /\ call' = [call EXCEPT ![c] = NoCall]
    /\ ops' = [ops EXCEPT ![call[c].op] = outcome]

\* The flush waits for a transaction that has the row, or has inserted the name;
\* a name that was taken meanwhile is refused by the unique index.
Flush(c) ==
    /\ call[c] # NoCall /\ call[c].pc = "flush"
    /\ LET what == call[c].what
           lock == IF what = "create" THEN {"create"} ELSE Rows
       IN  /\ call[c].same \/ \A o \in Callers \ {c} : ~Holds(o, lock)
           /\ IF what = "create" /\ (call[c].same \/ names > 0)
              THEN End(c, "failed") /\ UNCHANGED keys
              ELSE /\ keys' = IF what \in {"rotate", "create"} THEN keys + 1 ELSE keys
                   /\ call' = [call EXCEPT ![c] = [pc |-> "audit", what |-> what,
                                    same |-> @.same, op |-> @.op, key |-> keys']]
                   /\ UNCHANGED ops
    /\ UNCHANGED <<now, producer, names, zset, expiry, granted,
                   trail, audits, silent, misfits, deadAudits, gateFaults>>

\* Mutant: nothing is published for a login that failed.
AuditChangesOnly(c) ==
    /\ call[c] # NoCall /\ call[c].pc = "audit"
    /\ audits' = IF call[c].what = "login" THEN audits ELSE audits \cup {call[c].op}
    /\ call' = [call EXCEPT ![c].pc = IF call[c].what = "login" THEN "refuse" ELSE "commit"]
    /\ UNCHANGED <<now, producer, keys, names, zset, expiry, granted, ops, trail,
                   silent, misfits, deadAudits, gateFaults>>

\* audit(): the row is added to the transaction, and the operation published
\* before the commit; an error of the broker, before or after it has the message,
\* is swallowed.
Audit(c) ==
    /\ call[c] # NoCall /\ call[c].pc = "audit"
    /\ \/ audits' = audits \cup {call[c].op} /\ UNCHANGED <<silent, gateFaults>>
       \/ /\ gateFaults < MaxGateFaults /\ gateFaults' = gateFaults + 1
          /\ silent' = silent \cup {call[c].op}
          /\ audits' \in {audits, audits \cup {call[c].op}}
    /\ call' = [call EXCEPT ![c].pc = IF call[c].what = "login" THEN "refuse" ELSE "commit"]
    /\ UNCHANGED <<now, producer, keys, names, zset, expiry, granted, ops, trail, misfits, deadAudits>>

\* login() raises: the rollback of get_db() takes its audit row with it.
Refuse(c) ==
    /\ call[c] # NoCall /\ call[c].pc = "refuse"
    /\ End(c, "refused")
    /\ UNCHANGED <<now, producer, keys, names, zset, expiry, granted,
                   trail, audits, silent, misfits, deadAudits, gateFaults>>

\* get_db() commits: the changed column, the audit row; then the response.
CommitEdit(c) ==
    /\ call[c] # NoCall /\ call[c].pc = "commit"
    /\ LET what == call[c].what
       IN  /\ \/ call[c].same    /\ UNCHANGED producer
              \/ what = "rotate"  /\ producer' = [producer EXCEPT !.key = call[c].key]
              \/ what = "enable"  /\ ~call[c].same /\ producer' = [producer EXCEPT !.status = "ACTIVE"]
              \/ what = "disable" /\ ~call[c].same /\ producer' = [producer EXCEPT !.status = "DISABLED"]
              \/ what = "limit"   /\ \E n \in Limits : producer' = [producer EXCEPT !.limit = n]
              \/ what = "create"  /\ UNCHANGED producer
           /\ names' = IF what = "create" THEN names + 1 ELSE names
    /\ trail' = trail \cup {<<call[c].op, "api">>}
    /\ End(c, "done")
    /\ UNCHANGED <<now, keys, zset, expiry, granted, audits, silent, misfits, deadAudits, gateFaults>>

\* The commit fails: what was published stays.
CommitEditFails(c) ==
    /\ call[c] # NoCall /\ call[c].pc = "commit" /\ gateFaults < MaxGateFaults
    /\ gateFaults' = gateFaults + 1
    /\ End(c, "undone")
    /\ UNCHANGED <<now, producer, keys, names, zset, expiry, granted,
                   trail, audits, silent, misfits, deadAudits>>

\* A message is behind the worker, or comes again because its batch was not committed.
Consumed(n) == audits' \in {audits, audits \ {n}}

\* AuditProcessor.handle() appends a row.  These messages have no record of having
\* been processed: one that comes again is appended again.
AuditWorker ==
    /\ \E n \in audits \ misfits :
        Consumed(n) /\ trail' = trail \cup {<<n, "worker">>}
    /\ UNCHANGED <<now, producer, keys, names, call, zset, expiry, granted,
                   ops, silent, misfits, deadAudits, gateFaults>>

\* The insert fails, for an actor that does not fit or by an error, until the
\* attempts are used up and the message is a dead letter.
AuditWorkerFails ==
    /\ \E n \in audits :
        /\ Consumed(n) /\ deadAudits' = deadAudits \cup {n}
        /\ \/ n \in misfits /\ UNCHANGED gateFaults
           \/ gateFaults < MaxGateFaults /\ gateFaults' = gateFaults + 1
    /\ UNCHANGED <<now, producer, keys, names, call, zset, expiry, granted,
                   ops, trail, silent, misfits>>

GateNext ==
    \/ GateTick \/ AuditWorker \/ AuditWorkerFails
    \/ \E c \in Callers :
        \/ \E k \in 1..keys : Authenticate(c, k)
        \/ Stamp(c) \/ Evaluate(c) \/ LimiterFails(c)
        \/ LoginFails(c) \/ LoginSucceeds(c) \/ Flush(c) \/ Audit(c)
        \/ Refuse(c) \/ CommitEdit(c) \/ CommitEditFails(c)
        \/ \E what \in Changes : Edit(c, what)

GateSpec == GateInit /\ [][GateNext]_gateVars

----------------------------------------------------------------------------
(* Properties *)

Within(t) == {e \in granted : t <= e[1] /\ e[1] < t + (Window - MaxDelay)}

\* The sliding window holds although the time of a request is read before Redis
\* is asked, requests overtake each other and the key expires: no span shorter
\* than the window by the longest delay sees more members than the limit while
\* Redis answers.  Requests of one millisecond that draw one number are one member.
RateBound ==
    /\ GateTypeOK
    /\ \A t \in 0..MaxNow : Cardinality(Within(t)) <= Max(Limits)

\* Operations that left a trace: a row of audit_logs, a message, a dead letter.
Traced == audits \cup deadAudits \cup {row[1] : row \in trail}

\* Its message is on the topic, appended, a dead letter, or was not taken.
Accounted(n) == n \in audits \cup silent \cup deadAudits \/ <<n, "worker">> \in trail

\* What the trail is worth when the broker, the commit or the worker fails.  A change
\* that was committed or rolled back by its commit, and a login that was refused, is
\* on the topic, appended by the worker, a dead letter of the worker, or was not
\* taken by the broker: for a refused login, whose own row is rolled back, that is
\* all there is.  A request that ended before its audit() has no trace anywhere, so a
\* row of something that did not happen is one of a commit that failed.
TrailIsComplete ==
    \A n \in DOMAIN ops :
        /\ ops[n] \in {"done", "refused", "undone"} => Accounted(n)
        /\ ops[n] = "failed" => n \notin Traced

\* What the trail rests on: an operation belongs to one request and is open; before
\* its audit() it has no trace, after it the message is accounted for.
BeforeAudit(c) == call[c].pc \in {"flush", "audit"}
AfterAudit(c) == call[c].pc \in {"commit", "refuse"}
Audited(c) == call[c] # NoCall /\ (BeforeAudit(c) \/ AfterAudit(c))
RequestIsOpen ==
    \A c \in Callers : Audited(c) =>
        /\ call[c].op \in DOMAIN ops /\ ops[call[c].op] = "open"
        /\ BeforeAudit(c) => call[c].op \notin Traced
        /\ AfterAudit(c) => Accounted(call[c].op)
        /\ \A d \in Callers : Audited(d) /\ call[d].op = call[c].op => d = c

TrailInv == /\ DOMAIN call = Callers /\ ops \in Seq(Outcomes) /\ Traced \subseteq DOMAIN ops
            /\ TrailIsComplete /\ RequestIsOpen

\* Two requests for one name: the transaction that has inserted it is the only
\* one, and no row was committed before it; so the name is taken once.
Inserts(c) == call[c] # NoCall /\ call[c].pc \in {"audit", "commit"} /\ call[c].what = "create"
NameIsUnique ==
    /\ names \in {0, 1}
    /\ \A c \in Callers : Inserts(c) => names = 0 /\ ~call[c].same
    /\ \A c, d \in Callers : Inserts(c) /\ Inserts(d) => c = d

\* What the limiter rests on: a call on its way to Redis is not too late, a
\* member is gone only when its window is over, and the key outlives its members.
LimiterInv ==
    /\ now \in 0..MaxNow /\ expiry \in Nat /\ DOMAIN call = Callers /\ producer.limit \in Limits
    /\ granted \subseteq (0..now) \X (Nat \ {0}) /\ IsFiniteSet(granted) /\ zset \subseteq granted
    /\ \A c \in Callers : call[c] # NoCall /\ call[c].pc = "limit" => call[c].limit \in Limits
    /\ \A c \in Callers : call[c] # NoCall /\ call[c].pc = "eval" =>
          call[c].limit \in Limits /\ call[c].at \in 0..now /\ now - call[c].at <= MaxDelay
    /\ \A e \in granted \ zset : e[1] + Window <= now
    /\ \A e \in zset : e[1] + Window <= expiry

\* Requests before their flush are operations that have no key yet.
Unflushed == {c \in Callers : call[c] # NoCall /\ call[c].pc = "flush"}
AdminInv ==
    /\ ops \in Seq(Outcomes) /\ Len(ops) <= MaxOps
    /\ keys \in Nat \ {0} /\ keys + Cardinality(Unflushed) <= Len(ops) + 1
    /\ producer \in [status: {"ACTIVE", "DISABLED"}, key: 1..keys, limit: Limits]
    /\ \A c \in Callers : call[c] # NoCall =>
          /\ "pc" \in DOMAIN call[c]
          /\ call[c].pc \in {"limit", "eval", "flush", "audit", "commit", "refuse"}
          /\ call[c].pc \notin {"limit", "eval"} => call[c].op \in DOMAIN ops
          /\ call[c].pc \in {"audit", "commit"} /\ call[c].what = "rotate" => call[c].key \in 1..keys
    /\ trail \subseteq (DOMAIN ops) \X {"api", "worker"}
    /\ Messages \subseteq DOMAIN ops
=============================================================================
