----------------------------- MODULE Ingestion -----------------------------
(***************************************************************************)
(* Event ingestion: POST /events and POST /events/batch                    *)
(* (pravaha/api/routers/events.py) over ingest_event()                     *)
(* (pravaha/ingestion/service.py), in the database session of get_db()     *)
(* (pravaha/api/deps.py).                                                  *)
(*                                                                         *)
(* Requests run concurrently; a producer that gets no answer sends the     *)
(* same events again.  A step is the code between two awaits.  Dead-letter *)
(* rows belong to the request's transaction, which commits when the        *)
(* handler returns and rolls back when it raises; the Redis reservation    *)
(* and the Kafka messages do not roll back.                                *)
(*                                                                         *)
(* A publish that raises may or may not have reached the broker.  Payloads *)
(* are reduced to what decides the path: whether the envelope parses,      *)
(* whether the producer may emit the type, whether the payload is valid.   *)
(***************************************************************************)
EXTENDS Integers, Sequences, FiniteSets, SequencesExt

CONSTANTS
    Requests,       \* HTTP requests of one producer
    Events,         \* event ids it sends
    Malformed,      \* events EventEnvelopeIn rejects
    Shapeless,      \* items of a batch that are no object: malformed
    Undated,        \* events whose event_time from_input() cannot read
    Forbidden,      \* events of a type the producer may not emit
    Invalid,        \* events that fail schema validation or data quality
    MaxBatch,       \* settings.ingest_max_batch_size
    Faults,         \* subset of FaultNames: calls that may raise
    MaxCrashes,     \* bound: requests cut off by a crash of the API process
    MaxExpiries     \* bound: reservations that outlive their TTL

FaultNames == {"redis", "registry", "kafka", "dlqKafka", "dlqRow", "commit"}

ASSUME ParameterAssumption ==
    /\ Malformed \subseteq Events /\ Shapeless \subseteq Malformed /\ Undated \subseteq Events
    /\ Forbidden \subseteq Events /\ Invalid \subseteq Events
    /\ MaxBatch \in Nat \ {0}
    /\ Faults \subseteq FaultNames
    /\ MaxCrashes \in Nat /\ MaxExpiries \in Nat

VARIABLES
    pc,         \* where each request is
    endpoint,   \* "one" or "batch"
    items,      \* the events of the request
    at,         \* index of the event ingest_event() is working on
    rows,       \* dead-letter rows of the request's open transaction
    results,    \* outcomes collected so far
    answered,   \* <<event, outcome>> pairs the producer was told
    reserved,   \* Redis: pravaha:idem:ingest:... keys
    raw,        \* copies of each event on events.raw
    validated,  \* copies of each event on events.validated
    dlqTopic,   \* events on events.dlq
    dlqTable,   \* events with a committed dead_letter_events row
    unreserved, \* reservations lost to TTL or to a Redis failure (history)
    crashes, expiries

reqVars == <<pc, endpoint, items, at, rows, results>>
busVars == <<raw, validated, dlqTopic>>
vars == <<reqVars, answered, reserved, busVars, dlqTable, unreserved, crashes, expiries>>

Steps == {"idle", "parse", "malformedTopic", "malformedRow", "reserve", "validate",
          "raw", "validated", "invalidTopic", "invalidRow", "commit", "over"}
Outcomes == {"accepted", "duplicate", "rejected"}

TypeOK ==
    /\ pc \in [Requests -> Steps]
    /\ endpoint \in [Requests -> {"one", "batch"}]
    /\ items \in [Requests -> Seq(Events)]
    /\ \A r \in Requests : Len(items[r]) <= MaxBatch
    /\ at \in [Requests -> 1..(MaxBatch + 1)]
    /\ results \in [Requests -> Seq(Outcomes)]
    /\ \A r \in Requests : pc[r] # "over" => Len(results[r]) = at[r] - 1
    /\ rows \in [Requests -> SUBSET Events]
    /\ answered \subseteq Events \X Outcomes
    /\ reserved \subseteq Events
    /\ raw \in [Events -> Nat] /\ validated \in [Events -> Nat]
    /\ dlqTopic \subseteq Events /\ dlqTable \subseteq Events
    /\ unreserved \in [Events -> Nat]
    /\ crashes \in 0..MaxCrashes /\ expiries \in 0..MaxExpiries

Init ==
    /\ pc = [r \in Requests |-> "idle"]
    /\ endpoint = [r \in Requests |-> "one"]
    /\ items = [r \in Requests |-> <<>>]
    /\ at = [r \in Requests |-> 1]
    /\ rows = [r \in Requests |-> {}]
    /\ results = [r \in Requests |-> <<>>]
    /\ answered = {}
    /\ reserved = {}
    /\ raw = [e \in Events |-> 0] /\ validated = [e \in Events |-> 0]
    /\ dlqTopic = {} /\ dlqTable = {}
    /\ unreserved = [e \in Events |-> 0]
    /\ crashes = 0 /\ expiries = 0

Item(r) == items[r][at[r]]

----------------------------------------------------------------------------
(* The request and its transaction *)

\* ingest_one() / ingest_batch(): the body passed the size and rate checks.
Submit(r, kind, batch) ==
    /\ pc[r] = "idle"
    /\ kind = "one" => Len(batch) = 1 /\ batch[1] \notin Shapeless
    /\ pc' = [pc EXCEPT ![r] = "parse"]
    /\ endpoint' = [endpoint EXCEPT ![r] = kind]
    /\ items' = [items EXCEPT ![r] = batch]
    /\ UNCHANGED <<at, rows, results, answered, reserved, busVars, dlqTable,
                   unreserved, crashes, expiries>>

\* The handler raises: get_db() rolls back and the producer gets an error.
Abort(r) ==
    /\ pc' = [pc EXCEPT ![r] = "over"]
    /\ rows' = [rows EXCEPT ![r] = {}]
    /\ results' = [results EXCEPT ![r] = <<>>]
    /\ UNCHANGED <<endpoint, items, at>>

\* ingest_event() returns an outcome: on to the next event or to the commit.
Finish(r, outcome) ==
    /\ results' = [results EXCEPT ![r] = Append(@, outcome)]
    /\ at' = [at EXCEPT ![r] = @ + 1]
    /\ pc' = [pc EXCEPT ![r] = IF at[r] < Len(items[r]) THEN "parse" ELSE "commit"]
    /\ UNCHANGED <<endpoint, items>>

GoTo(r, step) ==
    /\ pc' = [pc EXCEPT ![r] = step]
    /\ UNCHANGED <<endpoint, items, at, results>>

\* IngestionRejected: the single endpoint turns it into an error response, the
\* batch endpoint into a rejected result, for which it asks the item for its
\* event_id: an item that is no object raises again.  kept: the rows of the
\* transaction so far.
Reject(r, kept) ==
    \/ /\ endpoint[r] = "one" \/ Item(r) \in Shapeless
       /\ Abort(r)
    \/ /\ endpoint[r] = "batch" /\ Item(r) \notin Shapeless
       /\ Finish(r, "rejected")
       /\ rows' = [rows EXCEPT ![r] = kept]

\* session.commit(), then the response.
Commit(r) ==
    /\ pc[r] = "commit"
    /\ \/ /\ dlqTable' = dlqTable \cup rows[r]
          /\ answered' = answered \cup {<<items[r][k], results[r][k]>> : k \in 1..Len(results[r])}
          /\ GoTo(r, "over")
          /\ UNCHANGED rows
       \/ /\ "commit" \in Faults
          /\ Abort(r)
          /\ UNCHANGED <<dlqTable, answered>>
    /\ UNCHANGED <<reserved, busVars, unreserved, crashes, expiries>>

\* The API process dies under the request.
Crash(r) ==
    /\ pc[r] \notin {"idle", "over"}
    /\ crashes < MaxCrashes
    /\ crashes' = crashes + 1
    /\ Abort(r)
    /\ UNCHANGED <<answered, reserved, busVars, dlqTable, unreserved, expiries>>

----------------------------------------------------------------------------
(* ingest_event() *)

\* Envelope parse, producer authorization and from_input() (no await between
\* them); before the first event the known event types are read.
Parse(r) ==
    LET e == Item(r) IN
    /\ pc[r] = "parse"
    /\ \/ e \in Malformed /\ GoTo(r, "malformedTopic") /\ UNCHANGED rows
       \/ e \in Forbidden \ Malformed /\ Reject(r, rows[r])
       \/ e \in Undated \ (Malformed \cup Forbidden) /\ Abort(r)
       \/ e \notin Malformed \cup Forbidden \cup Undated /\ GoTo(r, "reserve") /\ UNCHANGED rows
       \/ "registry" \in Faults /\ at[r] = 1 /\ Abort(r)
    /\ UNCHANGED <<answered, reserved, busVars, dlqTable, unreserved, crashes, expiries>>

\* Mutant: GET, then SET: both of two concurrent requests are first.
ReserveNotAtomic(r) ==
    /\ pc[r] = "reserve"
    /\ \/ Item(r) \in reserved /\ Finish(r, "duplicate")
       \/ /\ \/ Item(r) \notin reserved
             \/ \E q \in Requests \ {r} : pc[q] = "validate" /\ Item(q) = Item(r)
          /\ GoTo(r, "validate")
    /\ reserved' = reserved \cup {Item(r)}
    /\ UNCHANGED <<rows, answered, busVars, dlqTable, unreserved, crashes, expiries>>

\* _dedup_reserve(): SET NX; a Redis failure fails open.
Reserve(r) ==
    LET e == Item(r) IN
    /\ pc[r] = "reserve"
    /\ \/ /\ e \in reserved
          /\ Finish(r, "duplicate")
          /\ UNCHANGED <<reserved, unreserved>>
       \/ /\ e \notin reserved
          /\ GoTo(r, "validate")
          /\ reserved' = reserved \cup {e}
          /\ UNCHANGED unreserved
       \/ /\ "redis" \in Faults
          /\ GoTo(r, "validate")
          /\ unreserved' = [unreserved EXCEPT ![e] = @ + 1]
          /\ UNCHANGED reserved
    /\ UNCHANGED <<rows, answered, busVars, dlqTable, crashes, expiries>>

\* The reservation's TTL runs out.
Expire(e) ==
    /\ e \in reserved
    /\ expiries < MaxExpiries
    /\ expiries' = expiries + 1
    /\ reserved' = reserved \ {e}
    /\ unreserved' = [unreserved EXCEPT ![e] = @ + 1]
    /\ UNCHANGED <<reqVars, answered, busVars, dlqTable, crashes>>

\* validate_event_payload() reads the active schema version.
Validate(r) ==
    /\ pc[r] = "validate"
    /\ \/ GoTo(r, "raw") /\ UNCHANGED rows
       \/ "registry" \in Faults /\ Abort(r)
    /\ UNCHANGED <<answered, reserved, busVars, dlqTable, unreserved, crashes, expiries>>

\* publish() to events.raw, whatever the verdict; raising ends the request.
PublishRaw(r) ==
    LET e == Item(r) IN
    /\ pc[r] = "raw"
    /\ \/ /\ raw' = [raw EXCEPT ![e] = @ + 1]
          /\ GoTo(r, IF e \in Invalid THEN "invalidTopic" ELSE "validated")
          /\ UNCHANGED rows
       \/ /\ "kafka" \in Faults
          /\ raw' \in {raw, [raw EXCEPT ![e] = @ + 1]}
          /\ Abort(r)
    /\ UNCHANGED <<answered, reserved, validated, dlqTopic, dlqTable, unreserved,
                   crashes, expiries>>

\* Mutant: a failed publish is logged and the event reported as accepted.
PublishValidatedSwallows(r) ==
    LET e == Item(r) IN
    /\ pc[r] = "validated"
    /\ validated' \in {[validated EXCEPT ![e] = @ + 1]}
                      \cup (IF "kafka" \in Faults THEN {validated} ELSE {})
    /\ Finish(r, "accepted")
    /\ UNCHANGED <<rows, answered, reserved, raw, dlqTopic, dlqTable, unreserved,
                   crashes, expiries>>

\* publish() to events.validated, only for a valid event.
PublishValidated(r) ==
    LET e == Item(r) IN
    /\ pc[r] = "validated"
    /\ \/ /\ validated' = [validated EXCEPT ![e] = @ + 1]
          /\ Finish(r, "accepted")
          /\ UNCHANGED rows
       \/ /\ "kafka" \in Faults
          /\ validated' \in {validated, [validated EXCEPT ![e] = @ + 1]}
          /\ Abort(r)
    /\ UNCHANGED <<answered, reserved, raw, dlqTopic, dlqTable, unreserved,
                   crashes, expiries>>

\* _dlq(), the topic: an exception is only logged.
DlqPublish(r) ==
    /\ pc[r] \in {"malformedTopic", "invalidTopic"}
    /\ \/ dlqTopic' = dlqTopic \cup {Item(r)}
       \/ "dlqKafka" \in Faults /\ UNCHANGED dlqTopic
    /\ GoTo(r, IF pc[r] = "malformedTopic" THEN "malformedRow" ELSE "invalidRow")
    /\ UNCHANGED <<rows, answered, reserved, raw, validated, dlqTable, unreserved,
                   crashes, expiries>>

\* Mutant: an invalid event is rejected without a dead-letter row.
DlqInsertNothing(r) ==
    /\ pc[r] \in {"malformedRow", "invalidRow"}
    /\ IF pc[r] = "malformedRow" THEN Reject(r, rows[r])
       ELSE Finish(r, "rejected") /\ UNCHANGED rows
    /\ UNCHANGED <<answered, reserved, busVars, dlqTable, unreserved, crashes, expiries>>

\* _dlq(), the row, in a savepoint of the request's transaction: an exception is
\* only logged.  A malformed event then raises IngestionRejected, an invalid one
\* returns a rejected result.
DlqInsert(r) ==
    /\ pc[r] \in {"malformedRow", "invalidRow"}
    /\ \E kept \in {rows[r] \cup {Item(r)}}
                   \cup (IF "dlqRow" \in Faults THEN {rows[r]} ELSE {}) :
          \/ pc[r] = "malformedRow" /\ Reject(r, kept)
          \/ /\ pc[r] = "invalidRow"
             /\ Finish(r, "rejected")
             /\ rows' = [rows EXCEPT ![r] = kept]
    /\ UNCHANGED <<answered, reserved, busVars, dlqTable, unreserved, crashes, expiries>>

RequestStep(r) ==
    \/ Parse(r) \/ Reserve(r) \/ Validate(r) \/ PublishRaw(r) \/ PublishValidated(r)
    \/ DlqPublish(r) \/ DlqInsert(r) \/ Commit(r)

\* Every request was made and is over: nothing is left to happen.
Done == (\A r \in Requests : pc[r] = "over") /\ UNCHANGED vars

Next ==
    \/ \E r \in Requests, kind \in {"one", "batch"} :
          \E batch \in SeqOf(Events, MaxBatch) \ {<<>>} : Submit(r, kind, batch)
    \/ \E r \in Requests : RequestStep(r) \/ Crash(r)
    \/ \E e \in Events : Expire(e)
    \/ Done

Spec == Init /\ [][Next]_vars

----------------------------------------------------------------------------
(* Properties *)

Told(e, outcome) == <<e, outcome>> \in answered

\* An event reported as accepted is on both streams: no failure of a later event
\* of the batch, of the commit or of the process takes it back; and the validated
\* stream is a sub-stream of the raw one, copy by copy, whichever publish fails.
AcceptedIsPublished ==
    /\ TypeOK
    /\ \A e \in Events :
          /\ Told(e, "accepted") => raw[e] > 0 /\ validated[e] > 0
          /\ validated[e] <= raw[e]

\* SET NX lets one request through, however many carry the event at once: a
\* second copy on events.validated means that a reservation was lost.
OneCopyPerReservation == \A e \in Events : validated[e] <= 1 + unreserved[e]

\* While the DLQ table takes rows, an event reported as rejected for its content
\* has its row: the row was committed with the answer.
RejectedIsInTable ==
    \A e \in Events \ Forbidden :
        Told(e, "rejected") => e \in dlqTable

\* No silent event loss (ADR 0008): once every request is over, an event whose
\* producer was told it is a duplicate is on the validated stream or in the DLQ.
DuplicateMeansKnown ==
    (\A r \in Requests : pc[r] = "over") =>
        \A e \in Events : Told(e, "duplicate")
            => validated[e] > 0 \/ e \in dlqTopic \cup dlqTable

----------------------------------------------------------------------------
(* The inductive invariants behind them *)

Working == Steps \ {"idle", "commit", "over"}

\* A request at work has an event in hand and a result for each one before it.
AtAnItem ==
    \A r \in Requests :
        /\ pc[r] = "idle" => at[r] = 1
        /\ pc[r] \in Working => at[r] <= Len(items[r])
        /\ pc[r] = "commit" => at[r] = Len(items[r]) + 1
        /\ pc[r] = "over" => Len(results[r]) <= Len(items[r])

\* Requests with event e in hand at one of the given steps.
Holding(e, steps) == {r \in Requests : pc[r] \in steps /\ Item(r) = e}

\* Each request about to publish to events.validated has its own copy on events.raw.
RawIsAhead ==
    \A e \in Events : LET ahead == Holding(e, {"validated"}) IN
        IsFiniteSet(ahead) /\ validated[e] + Cardinality(ahead) <= raw[e]

\* Copies on events.validated, and the requests that may still add one, are
\* covered by the reservation and by those that were lost.
ReservationsCover ==
    \A e \in Events : LET onTheWay == Holding(e, {"validate", "raw", "validated"}) IN
        /\ IsFiniteSet(onTheWay)
        /\ validated[e] + Cardinality(onTheWay)
             <= unreserved[e] + (IF e \in reserved THEN 1 ELSE 0)

\* Collected results are as good as answers: a request that reports an event as
\* accepted has published it, and keeps the row of one it reports as rejected.
Backed(r) ==
    \A k \in 1..Len(results[r]) : LET e == items[r][k] IN
        /\ results[r][k] = "accepted" => raw[e] > 0 /\ validated[e] > 0
        /\ ("dlqRow" \notin Faults /\ results[r][k] = "rejected" /\ e \notin Forbidden)
             => e \in rows[r]
ResultsAreBacked == \A r \in Requests : Backed(r)

IndInv ==
    /\ TypeOK /\ AtAnItem
    /\ RawIsAhead /\ ReservationsCover /\ ResultsAreBacked
    /\ AcceptedIsPublished
    /\ "dlqRow" \notin Faults => RejectedIsInTable
=============================================================================
