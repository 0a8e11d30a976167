---------------------------- MODULE AtLeastOnce ----------------------------
(***************************************************************************)
(* What pravaha/kafka/consumer.py promises of a consumer group, without    *)
(* saying how: the committed offset of a partition never covers a message  *)
(* whose fate is not settled, and a settled fate stays settled.  Messages  *)
(* settle in any order and several may settle in one step (two copies of   *)
(* one event share a fate).  The committed offset may go BACK: a member    *)
(* that lost a partition and got it again commits the offsets of the batch *)
(* it fetched before.                                                      *)
(***************************************************************************)
EXTENDS Naturals

CONSTANTS Partitions,   \* the topic partitions of the subscription
          Length        \* Length[p]: number of messages in partition p

VARIABLES settled,      \* the slots <<p, i>> whose fate is decided for good
          committed     \* committed[p]: messages the group never asks for again

vars == <<settled, committed>>

Slots == UNION {{p} \X (1..Length[p]) : p \in Partitions}

Covered(s, k) == \A p \in Partitions : \A i \in 1..k[p] : <<p, i>> \in s

Init == /\ settled = {}
        /\ committed = [p \in Partitions |-> 0]

Settle == /\ settled' \in SUBSET Slots
          /\ settled \subseteq settled'
          /\ UNCHANGED committed

Commit == /\ committed' \in [Partitions -> Nat]
          /\ \A p \in Partitions : committed'[p] <= Length[p]
          /\ Covered(settled, committed')
          /\ UNCHANGED settled

Next == Settle \/ Commit

Spec == Init /\ [][Next]_vars
=============================================================================
