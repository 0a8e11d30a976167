---------------------------- MODULE MCAnalytics ----------------------------
(* Small instances of Analytics for TLC. *)
EXTENDS Analytics, TLC

CONSTANTS a1, e1, e2, e3

\* One event, whose bucket is closed by the idle clock.
TimesOne == e1 :> 0
\* Three events in three buckets, each late or accepted late after the next.
TimesSpread == (e1 :> 1) @@ (e2 :> 4) @@ (e3 :> 5)
=============================================================================
