--------------------------- MODULE MCDeadLetters ---------------------------
(* Small instances of DeadLetters for TLC. *)
EXTENDS DeadLetters, TLC

CONSTANTS ok, bad, junk, plain, a1, a2

\* An accepted event, one its schema rejects, one that is no envelope, and an
\* accepted one without a flag.
RawOf == ok   :> [type |-> "unknown", payload |-> "object", time |-> "stale", conforms |-> TRUE]
      @@ bad  :> [type |-> "known", payload |-> "object", time |-> "current", conforms |-> FALSE]
      @@ junk :> [type |-> "missing", payload |-> "object", time |-> "current", conforms |-> TRUE]
      @@ plain :> [type |-> "known", payload |-> "object", time |-> "current", conforms |-> TRUE]

RawFew == [e \in Events |-> RawOf[e]]
\* One event with two calls about it; a malformed one with a third, for a dead letter
\* of the same message after a crash; an accepted one whose raw copy adds nothing;
\* or an accepted and a rejected event.
OneOrTwo == {[submitted |-> {e}, calls |-> 2] : e \in {ok, bad, junk}}
            \cup {[submitted |-> {plain}, calls |-> 0]}
            \cup {[submitted |-> {ok, bad}, calls |-> 0], [submitted |-> {junk}, calls |-> 3]}

\* In a bucket of 20000 events a late one no longer shows in the scores.
ASSUME RoundingHides ==
    LET s == score_from_counts([NoCounts EXCEPT !["total"] = 2 * Unit, !["late_events"] = 1])
    IN  \A k \in DOMAIN s : s[k] = Unit

AdminSymmetry == Permutations(Admins)
\* The accepted and the rejected event are of different minutes.
BucketFew == [e \in Events |-> IF e = bad THEN 1 ELSE 0]
=============================================================================
