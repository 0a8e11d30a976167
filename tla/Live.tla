-------------------------------- MODULE Live --------------------------------
(***************************************************************************)
(* What the console watches: one connection of the live alert stream       *)
(* (pravaha/realtime/sse.py with live_alerts() of api/routers/live.py) and *)
(* the samples of the lag monitor (consumers/lag_monitor.py).              *)
(*                                                                         *)
(* An alert is a number, the place of its fired_at; alerts are committed   *)
(* in any order.  Between the query of a poll and the next sleep the       *)
(* generator and the pump do not suspend: a poll is one step.  A group     *)
(* reads one partition, a log from starts to ends: retention (kafka/       *)
(* topics.py) deletes its oldest records.                                  *)
(***************************************************************************)
EXTENDS Integers, FiniteSets, FiniteSetsExt, Sequences, SequencesExt

CONSTANTS
    MaxAlerts,  \* bound: alerts
    PageSize,   \* limit(50) of the poll
    MaxQueue,   \* MAX_QUEUE
    Groups,     \* GROUPS of the lag monitor, in order
    MaxOffset   \* bound: log end offset

ASSUME LiveAssumption ==
    /\ MaxAlerts \in Nat /\ PageSize \in Nat \ {0} /\ MaxQueue \in Nat \ {0}
    /\ MaxOffset \in Nat /\ Groups \in Seq(ToSet(Groups))

VARIABLES
    stored,     \* alerts committed
    aged,       \* alerts of more than thirty minutes ago
    since,      \* history: alerts committed after the last poll
    pump,       \* the pump task: "first", "on", "failing", "dead" or "closed"
    seen,       \* ids the generator has met
    initial,    \* history: ids of its first poll
    queue,      \* the connection's queue
    sent,       \* what the client received
    dropped,    \* events taken out of a full queue
    starts,     \* first offset that retention has left in a group's partition
    ends,       \* its log end offset
    commits,    \* its committed offset, or None
    probe,      \* the sample under way: group, end offset read, rows so far
    lags        \* consumer_lag: the rows of the latest sample persisted

streamVars == <<stored, aged, since, pump, seen, initial, queue, sent, dropped>>
lagVars == <<starts, ends, commits, probe, lags>>
liveVars == <<streamVars, lagVars>>

----------------------------------------------------------------------------
Error == 0
None == -1
Alerts == 1..MaxAlerts
GroupSet == ToSet(Groups)
NoProbe == [at |-> 0, leo |-> None, behind |-> 0, expired |-> 0, rows |-> <<>>]

LiveTypeOK ==
    /\ stored \subseteq Alerts /\ aged \subseteq stored /\ since \subseteq stored
    /\ pump \in {"first", "on", "failing", "dead", "closed"}
    /\ seen \subseteq stored /\ initial \subseteq seen
    /\ Len(queue) <= MaxQueue /\ ToSet(queue \o sent) \subseteq Alerts \cup {Error}
    /\ starts \in [GroupSet -> 0..MaxOffset] /\ ends \in [GroupSet -> 0..MaxOffset]
    /\ commits \in [GroupSet -> None..MaxOffset]
    /\ probe.at \in 0..Len(Groups) /\ probe.leo \in None..MaxOffset

LiveInit ==
    /\ stored = {} /\ aged = {} /\ since = {} /\ pump = "first" /\ seen = {}
    /\ initial = {} /\ queue = <<>> /\ sent = <<>> /\ dropped = 0
    /\ starts = [g \in GroupSet |-> 0] /\ ends = [g \in GroupSet |-> 0]
    /\ commits = [g \in GroupSet |-> None]
    /\ probe = NoProbe /\ lags = <<>>

----------------------------------------------------------------------------
(* The stream *)

\* A detector commits an alert (see Anomalies); time passes.
StoreAlert ==
    /\ \E x \in Alerts \ stored : stored' = stored \cup {x} /\ since' = since \cup {x}
    /\ UNCHANGED <<aged, pump, seen, initial, queue, sent, dropped, lagVars>>

AgeAlert ==
    /\ stored \ aged # {}
    /\ aged' = aged \cup {Min(stored \ aged)}
    /\ UNCHANGED <<stored, since, pump, seen, initial, queue, sent, dropped, lagVars>>

\* The rows of a poll: the newest of the last thirty minutes.
Page == {x \in stored \ aged : Cardinality({y \in stored \ aged : y > x}) < PageSize}

\* order_by(fired_at.desc()): the i-th row has i - 1 newer ones.
NewestFirst(xs) ==
    [i \in 1..Cardinality(xs) |-> CHOOSE x \in xs : Cardinality({y \in xs : y > x}) = i - 1]

\* _pump(): an item goes into the queue; a full one loses its oldest.
Pushed(items) ==
    LET all == queue \o items
        over == Max({Len(all) - MaxQueue, 0})
    IN  /\ queue' = SubSeq(all, over + 1, Len(all))
        /\ dropped' = dropped + over

\* Mutant: only what is newer than everything seen is new.
PollNewest ==
    /\ pump \in {"first", "on"}
    /\ LET new == {x \in Page : \A y \in seen : x > y}
       IN  /\ seen' = seen \cup new
           /\ initial' = IF pump = "first" THEN new ELSE initial
           /\ IF pump = "first" THEN UNCHANGED <<queue, dropped>> ELSE Pushed(NewestFirst(new))
    /\ since' = {} /\ pump' = "on"
    /\ UNCHANGED <<stored, aged, sent, lagVars>>

\* gen() of live_alerts(): the first poll only remembers, a later one sends what
\* it has not met.
Poll ==
    /\ pump \in {"first", "on"}
    /\ LET new == Page \ seen
       IN  /\ seen' = seen \cup new
           /\ initial' = IF pump = "first" THEN new ELSE initial
           /\ IF pump = "first" THEN UNCHANGED <<queue, dropped>> ELSE Pushed(NewestFirst(new))
    /\ since' = {} /\ pump' = "on"
    /\ UNCHANGED <<stored, aged, sent, lagVars>>

\* The source raises; the error waits for room in the queue, and the pump ends.
SourceFails ==
    /\ pump \in {"first", "on"} /\ pump' = "failing"
    /\ UNCHANGED <<stored, aged, since, seen, initial, queue, sent, dropped, lagVars>>

PutError ==
    /\ pump = "failing" /\ Len(queue) < MaxQueue
    /\ queue' = Append(queue, Error) /\ pump' = "dead"
    /\ UNCHANGED <<stored, aged, since, seen, initial, sent, dropped, lagVars>>

\* _stream() sends the head of the queue; a client that leaves ends the pump.
Send ==
    /\ pump # "closed" /\ queue # <<>>
    /\ sent' = Append(sent, Head(queue)) /\ queue' = Tail(queue)
    /\ UNCHANGED <<stored, aged, since, pump, seen, initial, dropped, lagVars>>

Disconnect ==
    /\ pump # "closed" /\ pump' = "closed"
    /\ UNCHANGED <<stored, aged, since, seen, initial, queue, sent, dropped, lagVars>>

----------------------------------------------------------------------------
(* The lag monitor *)

\* A record is appended, and a group commits what it has handled, possibly records
\* that have expired since (see StreamConsumer).
AppendRecord(g) ==
    /\ ends[g] < MaxOffset /\ ends' = [ends EXCEPT ![g] = @ + 1]
    /\ UNCHANGED <<streamVars, starts, commits, probe, lags>>

CommitOffset(g) ==
    /\ \E n \in 1..ends[g] : n > commits[g] /\ commits' = [commits EXCEPT ![g] = n]
    /\ UNCHANGED <<streamVars, starts, ends, probe, lags>>

\* retention.ms with cleanup.policy delete, whether or not a group has read them.
DropExpired(g) ==
    /\ \E n \in 1..ends[g] : n > starts[g] /\ starts' = [starts EXCEPT ![g] = n]
    /\ UNCHANGED <<streamVars, ends, commits, probe, lags>>

\* What a group has before it: it reads on from its committed offset, or with
\* auto_offset_reset from the start when there is none or its record is gone.
Position(g) == Max({commits[g], starts[g]})
Backlog(g) == ends[g] - Position(g)

\* Records that expired before the group committed them: it will never read them.
Expired(g) == Position(g) - Max({commits[g], 0})

\* _sample_once(): the end offset of the next group's partition ...
EndOffsets ==
    /\ probe.leo = None /\ probe.at < Len(Groups)
    /\ LET g == Groups[probe.at + 1]
       IN  probe' = [probe EXCEPT !.leo = ends[g], !.behind = Backlog(g), !.expired = Expired(g)]
    /\ UNCHANGED <<streamVars, starts, ends, commits, lags>>

\* The row of a group whose end offset is leo, and the next group.
Sampled(leo) ==
    LET lag == Max({leo - Max({commits[Groups[probe.at + 1]], 0}), 0})
    IN  [at |-> probe.at + 1, leo |-> None, behind |-> 0, expired |-> 0,
         rows |-> Append(probe.rows,
                         [lag |-> lag, behind |-> probe.behind, expired |-> probe.expired])]

\* Mutant: the end is read after the committed offset.
CommittedFirst ==
    /\ probe.leo # None
    /\ probe' = Sampled(ends[Groups[probe.at + 1]])
    /\ UNCHANGED <<streamVars, starts, ends, commits, lags>>

\* ... then its committed offset; none counts as zero.
Committed ==
    /\ probe.leo # None
    /\ probe' = Sampled(probe.leo)
    /\ UNCHANGED <<streamVars, starts, ends, commits, lags>>

\* _persist() writes the rows of all groups; an error before drops the sample.
PersistLags ==
    /\ probe.leo = None /\ probe.at = Len(Groups)
    /\ lags' = probe.rows /\ probe' = NoProbe
    /\ UNCHANGED <<streamVars, starts, ends, commits>>

SampleFails ==
    /\ probe # NoProbe /\ probe' = NoProbe
    /\ UNCHANGED <<streamVars, starts, ends, commits, lags>>

StreamNext ==
    \/ StoreAlert \/ AgeAlert \/ Poll \/ SourceFails \/ PutError \/ Send \/ Disconnect

LagNext ==
    \/ EndOffsets \/ Committed \/ PersistLags \/ SampleFails
    \/ \E g \in GroupSet : AppendRecord(g) \/ CommitOffset(g) \/ DropExpired(g)

StreamSpec == LiveInit /\ [][StreamNext]_liveVars
LagSpec == LiveInit /\ [][LagNext]_liveVars

----------------------------------------------------------------------------
(* Properties *)

\* What a connection has put out: what the client received, and what is to be sent.
Out == sent \o queue

\* What the last poll did not meet was beyond its page or too old.
NoneIsMissed ==
    pump = "on" => \A x \in stored \ (seen \cup since) :
        x \in aged \/ Cardinality({y \in stored : y > x}) >= PageSize

\* A client gets an alert once, and every alert the stream met after its first
\* poll was sent, is queued or is counted as dropped; when the source failed,
\* the error is behind all of them and is never dropped.  An alert that is committed
\* late, behind newer ones, is still picked up: one the last poll did not meet was
\* beyond its page or too old.
StreamAccountsForAll ==
    /\ LiveTypeOK
    /\ IsInjective(Out)
    /\ Len(Out) + dropped
          = Cardinality(seen \ initial) + (IF Error \in ToSet(Out) THEN 1 ELSE 0)
    /\ pump = "dead" => Last(Out) = Error
    /\ NoneIsMissed

\* What the account rests on: only alerts met after the first poll go out, the
\* error last of all, when the pump has ended.
StreamInv ==
    /\ stored \subseteq Alerts /\ aged \subseteq stored /\ since \subseteq stored
    /\ pump \in {"first", "on", "failing", "dead", "closed"}
    /\ seen \subseteq stored /\ initial \subseteq seen
    /\ queue \in Seq(Alerts \cup {Error}) /\ sent \in Seq(Alerts \cup {Error})
    /\ Len(queue) <= MaxQueue /\ dropped \in Nat
    /\ pump = "first" => seen = {}
    /\ IsInjective(Out) /\ ToSet(Out) \subseteq (seen \ initial) \cup {Error}
    /\ pump \in {"first", "on", "failing"} => Error \notin ToSet(Out)
    /\ pump = "dead" => Out # <<>> /\ Last(Out) = Error
    /\ Len(Out) + dropped
          = Cardinality(seen \ initial) + (IF Error \in ToSet(Out) THEN 1 ELSE 0)
    /\ NoneIsMissed

\* A lag is never more than what the group had before it when the end offset was
\* read, which is before the committed offset, and the records that had expired
\* uncommitted by then: those the monitor still counts, as it measures from the
\* committed offset or from zero and not from the log's start.  A sample has all
\* groups.
LagOverstatesOnlyExpired ==
    /\ lags # <<>> => Len(lags) = Len(Groups)
    /\ \A n \in DOMAIN lags :
        0 <= lags[n].lag /\ lags[n].lag <= lags[n].behind + lags[n].expired

\* What the sample rests on: commits only grow, so the end offset that was read
\* stays at most behind and expired away from what is committed; one row per group
\* so far.
SampleIsHonest ==
    /\ probe.at \in 0..Len(Groups) /\ probe.leo \in None..MaxOffset
    /\ probe.behind \in Nat /\ probe.expired \in Nat
    /\ probe.rows \in Seq([lag: Nat, behind: Nat, expired: Nat]) /\ Len(probe.rows) = probe.at
    /\ \A n \in 1..probe.at : probe.rows[n].lag <= probe.rows[n].behind + probe.rows[n].expired
    /\ probe.leo # None =>
        /\ probe.at < Len(Groups)
        /\ probe.leo - Max({commits[Groups[probe.at + 1]], 0}) <= probe.behind + probe.expired

LagInv ==
    /\ starts \in [GroupSet -> 0..MaxOffset] /\ ends \in [GroupSet -> 0..MaxOffset]
    /\ commits \in [GroupSet -> None..MaxOffset]
    /\ \A g \in GroupSet : starts[g] <= ends[g] /\ commits[g] <= ends[g]
    /\ SampleIsHonest
    /\ DOMAIN probe = {"at", "leo", "behind", "expired", "rows"}
    /\ lags \in Seq([lag: Nat, behind: Nat, expired: Nat]) /\ LagOverstatesOnlyExpired
=============================================================================
