---------------------------- MODULE EventQuality ----------------------------
(***************************************************************************)
(* The pure part of data quality: what ingestion makes of a submitted      *)
(* event (pravaha/events/envelope.py), the flags it attaches and the       *)
(* scores a bucket's counts give (pravaha/dataquality/engine.py).          *)
(*                                                                         *)
(* A submitted event is abstracted to what these functions tell apart.     *)
(* Left out: the regular expressions for names and versions, time zones,   *)
(* and a timestamp that is falsy (0 or ""), which assess_envelope skips    *)
(* and from_input does not.                                                *)
(***************************************************************************)
EXTENDS Integers, FiniteSets

\* A submission: its event_type, its payload and metadata, its timestamp
\* relative to now, and whether the payload satisfies the active schema.
RawEvents == [type: {"known", "unknown", "missing"}, payload: {"object", "other"},
              time: {"absent", "unparseable", "future", "current", "stale"},
              conforms: BOOLEAN]

BlockingFlags == {"missing_fields", "invalid_schema", "invalid_timestamp", "malformed_payload"}
QualityFlags == BlockingFlags \cup
    {"future_timestamp", "duplicate_events", "unknown_event_type", "late_events"}

\* QualityFinding.is_valid
is_valid(flags) == flags \cap BlockingFlags = {}

\* assess_envelope(): the flags of the checks that need no I/O.
assess_envelope(r) ==
    {f \in QualityFlags :
        \/ f = "missing_fields"     /\ r.type = "missing"
        \/ f = "malformed_payload"  /\ r.payload = "other"
        \/ f = "invalid_timestamp"  /\ r.time = "unparseable"
        \/ f = "future_timestamp"   /\ r.time = "future"
        \/ f = "late_events"        /\ r.time = "stale"
        \/ f = "unknown_event_type" /\ r.type = "unknown"}

\* EventEnvelopeIn.model_validate(): the submission has the envelope's shape.
Parses(r) == r.type # "missing" /\ r.payload = "object"

\* EventEnvelope.from_input(): _parse_dt raises on a timestamp it cannot read,
\* _sanity on one that is more than MAX_FUTURE_SKEW ahead of ingestion_time.
BuildsEnvelope(r) == Parses(r) /\ r.time \notin {"unparseable", "future"}

\* The flags ingest_event() publishes in metadata._quality: the schema check
\* runs for event types that have an active schema.
PublishedFlags(r) ==
    assess_envelope(r) \cup
        (IF r.type = "known" /\ ~r.conforms THEN {"invalid_schema"} ELSE {})

----------------------------------------------------------------------------
(* score_from_counts *)

CountKeys == {"total", "valid"} \cup QualityFlags
NoCounts == [k \in CountKeys |-> 0]

\* _clamp, for scores in units of 1 / one.
Clamp(v, one) == IF v < 0 THEN 0 ELSE IF v > one THEN one ELSE v

\* round(v / one, 4), in units of 1 / Unit.  A tie goes up here; in the code the
\* nearest float of the tie decides.
Unit == 10000
Round4(v, one) == (2 * Unit * v + one) \div (2 * one)

\* The five sub-scores of a bucket, in units of 1 / Unit; before they are rounded
\* they are multiples of 1 / one.  The overall score is their weighted geometric
\* mean and is left out.
score_from_counts(c) ==
    LET total    == IF c["total"] > 1 THEN c["total"] ELSE 1
        one      == 2 * total
        ratio(k) == IF c[k] < total THEN c[k] ELSE total
        score(v) == Round4(Clamp(v, one), one)
    IN  [validity     |-> score(one - 2 * ratio("invalid_schema") - 2 * ratio("malformed_payload")),
         completeness |-> score(one - 2 * ratio("missing_fields")),
         uniqueness   |-> score(one - 2 * ratio("duplicate_events")),
         timeliness   |-> score(one - ratio("late_events") - 2 * ratio("future_timestamp")
                                    - 2 * ratio("invalid_timestamp")),
         compliance   |-> score(one - 2 * ratio("invalid_schema") - ratio("unknown_event_type"))]
=============================================================================
