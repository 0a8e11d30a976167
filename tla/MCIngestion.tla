---------------------------- MODULE MCIngestion ----------------------------
(* Small instances of Ingestion for TLC. *)
EXTENDS Ingestion, TLC

CONSTANTS r1, r2, e1, e2, e3, e4, e5, e6

RequestSymmetry == Permutations(Requests)
=============================================================================
