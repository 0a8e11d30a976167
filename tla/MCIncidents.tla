---------------------------- MODULE MCIncidents ----------------------------
(* Small instances of Investigations for TLC. *)
EXTENDS Investigations, TLC

CONSTANTS d1, d2, a1, a2

\* The rule's metric is above the threshold, with one minute missing.
SeriesFew == <<5, NoSample, 9, 9>>
RuleFew == [operator |-> "gt", threshold |-> 4, duration |-> 1, cooldown |-> 3]

InventedFew == {<<"A", 0>>}
EmbeddedFew == {<<"X", 0>>}
PlanFew == <<"get_anomaly_context">>

\* With rows already stored no message is to come; otherwise one is waiting.
Situation(minute, rows, calls, bad, used, others) ==
    [clock |-> minute, samples |-> IF rows = <<>> THEN 1 ELSE 0,
     rows |-> rows, requests |-> calls, faults |-> bad, rate |-> used,
     elsewhere |-> others]
High == <<"m1", "HIGH">>

\* Detectors and agents without faults; detectors with one, or with a request,
\* the hour's limit used up; a stored anomaly and two requests; one with a
\* request and a fault; one with rows in the other tables and neither.
IncidentsFew == {Situation(2, <<>>, 0, MaxFaults, 0, {}), Situation(1, <<>>, 0, MaxFaults, RateLimit, {}),
                 Situation(2, <<>>, 0, 0, RateLimit, {}),
                 Situation(2, <<>>, 1, MaxFaults, RateLimit, {}),
                 Situation(4, <<High>>, 2, MaxFaults, 0, {}), Situation(4, <<High>>, 1, 0, 0, {}),
                 Situation(4, <<High>>, 0, MaxFaults, 0,
                           {"E", "L", "D", "P"} \X {1} \cup {<<"M", "m1">>})}

TaskSymmetry == Permutations(Detectors) \cup Permutations(Agents)
=============================================================================
