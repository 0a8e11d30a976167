-------------------------- MODULE MCStreamConsumer --------------------------
(* Small instances of StreamConsumer for TLC. *)
EXTENDS StreamConsumer, TLC

CONSTANTS m1, m2, p1, e1, e2

\* One partition, two messages.
LogOfTwo == (p1 :> <<e1, e2>>)

MemberSymmetry == Permutations(Members)
=============================================================================
