--------------------------- MODULE EvidenceTools ---------------------------
(***************************************************************************)
(* The read-only tools of an investigation (pravaha/ai/tools.py), over the *)
(* tables of Anomalies.  A result is reduced to the references that        *)
(* _extract_refs() (ai/investigator.py) finds in it, in fields "ref" and   *)
(* "evidence_refs" at any depth: <<kind, row>>.  Row limits and lookbacks  *)
(* reach beyond every instance; rows of tables that no module here keeps   *)
(* are given as a set, "there".                                            *)
(***************************************************************************)
EXTENDS Anomalies

CONSTANT
    Embedded        \* what fields of those names hold in the payloads of events

\* References of a kind, of rows that are there.
OfKind(kind, there) == {r \in there : r[1] = kind}

\* get_anomaly_context(): the anomaly and its metric's bucket, and, as items,
\* the other anomalies of that metric.
ContextRefs(x) == {<<"A", x>>, <<"M", anomalies[x].key[1]>>}
get_anomaly_context(x) ==
    ContextRefs(x) \cup
    {<<"A", y>> : y \in {z \in DOMAIN anomalies : anomalies[z].key[1] = anomalies[x].key[1]}}

\* query_metrics(): the aggregation rows of the metrics of interest.
query_metrics(there) == OfKind("M", there)

\* get_correlated_events(), get_event(): rows of events, with the field "reason" of
\* their payload or all of it, in which _extract_refs() looks as well.
PayloadRefs(rows) == IF rows = {} THEN {} ELSE Embedded
get_correlated_events(there) == OfKind("E", there) \cup PayloadRefs(OfKind("E", there))
get_event(there) == OfKind("E", there) \cup PayloadRefs(OfKind("E", there))

\* get_anomaly_history(): every anomaly of the last days.
get_anomaly_history == {<<"A", y>> : y \in DOMAIN anomalies}

\* get_consumer_lag(), get_data_quality(), get_producer_health().
get_consumer_lag(there) == OfKind("L", there)
get_data_quality(there) == OfKind("D", there)
get_producer_health(there) == OfKind("P", there)

\* get_recent_alerts(): the alerts fired in the lookback.
get_recent_alerts == {<<"ALERT", a[1]>> : a \in alerts}

ALLOWED_TOOLS ==
    {"get_anomaly_context", "query_metrics", "get_correlated_events", "get_event",
     "get_anomaly_history", "get_consumer_lag", "get_data_quality",
     "get_producer_health", "get_recent_alerts"}

\* run_tool() of a name on the list; any other name raises.
run_tool(name, x, there) ==
    CASE name = "get_anomaly_context"   -> get_anomaly_context(x)
      [] name = "query_metrics"         -> query_metrics(there)
      [] name = "get_correlated_events" -> get_correlated_events(there)
      [] name = "get_event"             -> get_event(there)
      [] name = "get_anomaly_history"   -> get_anomaly_history
      [] name = "get_consumer_lag"      -> get_consumer_lag(there)
      [] name = "get_data_quality"      -> get_data_quality(there)
      [] name = "get_producer_health"   -> get_producer_health(there)
      [] name = "get_recent_alerts"     -> get_recent_alerts
=============================================================================
