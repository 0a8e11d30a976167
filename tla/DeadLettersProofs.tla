------------------------- MODULE DeadLettersProofs -------------------------
(***************************************************************************)
(* Proofs about DataQuality and DeadLetters: a row never says more than    *)
(* was counted and is exact outside the code's windows of loss, the scores *)
(* of a bucket that is not too large tell every flag, and what is counted  *)
(* or republished more than once has a doubtful record or a stray request  *)
(* for every further time.                                                 *)
(***************************************************************************)
EXTENDS DeadLetters, FiniteSetTheorems, TLAPS

----------------------------------------------------------------------------
(* Counts and scores *)

\* handle() adds zero or one to each count, so an event is once in a total at most.
LEMMA DeltaType ==
    ASSUME NEW c \in Copies PROVE Delta(c) \in Counts /\ Delta(c)["total"] \in {0, 1}
BY DEF Delta, Counts, CountKeys, NoCounts

\* Adding up counts gives counts.
LEMMA AddType ==
    ASSUME NEW x \in Counts, NEW y \in Counts PROVE Add(x, y) \in Counts
BY DEF Add, Counts

\* A message that counts nothing leaves the bucket as it is.
LEMMA AddNothing ==
    ASSUME NEW x \in Counts PROVE Add(x, NoCounts) = x
BY DEF Add, Counts, NoCounts

\* Integer division.
LEMMA Division ==
    ASSUME NEW n \in Nat, NEW d \in Nat \ {0}
    PROVE  n \div d \in Int /\ d * (n \div d) <= n /\ n < d * (n \div d) + d
BY Z3T(30)

\* round(v / one, 4) is 1.0 for v = one only when one is not too large.
LEMMA RoundTells ==
    ASSUME NEW one \in Nat \ {0}, one < 2 * Unit, NEW v \in Nat, v <= one
    PROVE  Round4(v, one) = Unit <=> v = one
<1> DEFINE n == 20000 * v + one
           d == 2 * one
           q == n \div d
<1>1. Round4(v, one) = q
    BY DEF Round4, Unit
<1>2. n \in Nat /\ d \in Nat \ {0}
    OBVIOUS
<1> HIDE DEF n, d
<1>3. q \in Int /\ d * q <= n /\ n < d * q + d
    BY <1>2, Division
<1> HIDE DEF q
<1>4. q = 10000 <=> v = one
    BY <1>3, Z3T(30) DEF Unit, n, d
<1> QED BY <1>1, <1>4 DEF Unit

\* A ratio of score_from_counts() is zero when the flag was not counted only, and
\* no more than one; rounding hides no flag of a bucket with fewer than Unit events.
LEMMA ScoresTellFlags ==
    ASSUME NEW c \in Counts, c["total"] < Unit
    PROVE  LET s == score_from_counts(c)
           IN  (\A k \in DOMAIN s : s[k] = Unit) <=> (\A f \in QualityFlags : c[f] = 0)
<1> DEFINE total == IF c["total"] > 1 THEN c["total"] ELSE 1
           one == 2 * total
           ratio(k) == IF c[k] < total THEN c[k] ELSE total
           score(v) == Round4(Clamp(v, one), one)
           s == score_from_counts(c)
<1>1. \A f \in QualityFlags \cup {"total"} : c[f] \in Nat
    BY DEF Counts, CountKeys
<1>2. total \in Nat /\ total >= 1 /\ one \in Nat \ {0} /\ one < 2 * Unit
    BY <1>1 DEF Unit
<1>3. \A f \in QualityFlags : ratio(f) \in Nat /\ (ratio(f) = 0 <=> c[f] = 0)
    BY <1>1, <1>2
<1>4. s = [validity     |-> score(one - 2 * ratio("invalid_schema") - 2 * ratio("malformed_payload")),
           completeness |-> score(one - 2 * ratio("missing_fields")),
           uniqueness   |-> score(one - 2 * ratio("duplicate_events")),
           timeliness   |-> score(one - ratio("late_events") - 2 * ratio("future_timestamp")
                                      - 2 * ratio("invalid_timestamp")),
           compliance   |-> score(one - 2 * ratio("invalid_schema") - ratio("unknown_event_type"))]
    BY DEF score_from_counts
<1> HIDE DEF total, one, ratio, s
<1>5. ASSUME NEW v \in Int, v <= one PROVE score(v) = Unit <=> v = one
    <2>1. Clamp(v, one) \in Nat /\ Clamp(v, one) <= one /\ (Clamp(v, one) = one <=> v = one)
        BY <1>2, <1>5 DEF Clamp
    <2> QED BY <1>2, <2>1, RoundTells
<1> HIDE DEF score
<1>6. /\ DOMAIN s = {"validity", "completeness", "uniqueness", "timeliness", "compliance"}
      /\ (s["validity"] = Unit) <=> (ratio("invalid_schema") = 0 /\ ratio("malformed_payload") = 0)
      /\ (s["completeness"] = Unit) <=> ratio("missing_fields") = 0
      /\ (s["uniqueness"] = Unit) <=> ratio("duplicate_events") = 0
      /\ (s["timeliness"] = Unit) <=>
            (ratio("late_events") = 0 /\ ratio("future_timestamp") = 0 /\ ratio("invalid_timestamp") = 0)
      /\ (s["compliance"] = Unit) <=> (ratio("invalid_schema") = 0 /\ ratio("unknown_event_type") = 0)
    BY <1>2, <1>3, <1>4, <1>5 DEF QualityFlags, BlockingFlags
<1>7. QualityFlags = {"missing_fields", "invalid_schema", "invalid_timestamp", "malformed_payload",
                      "future_timestamp", "duplicate_events", "unknown_event_type", "late_events"}
    BY DEF QualityFlags, BlockingFlags
<1>8. (\A k \in DOMAIN s : s[k] = Unit) <=> (\A f \in QualityFlags : ratio(f) = 0)
    BY <1>6, <1>7
<1> QED BY <1>3, <1>8 DEF s

----------------------------------------------------------------------------
(* Types *)

\* A dead letter is a row that was not there.
LEMMA DeadLetterRow ==
    ASSUME TypeOK, NEW p \in {"persistence", "dataquality"}, NEW c \in Copies,
           p = "persistence" => c[2] = 0, DeadLetter(p, c)
    PROVE  \E d \in Entries : dlq[d] = "absent" /\ dlq' = [dlq EXCEPT ![d] = "PENDING"]
<1>1. PICK n \in 0..MaxFaults :
        /\ dlq[<<p, c[1], c[2], n>>] = "absent"
        /\ dlq' = [dlq EXCEPT ![<<p, c[1], c[2], n>>] = "PENDING"]
    BY DEF DeadLetter
<1>2. <<p, c[1], c[2], n>> \in Entries
    BY DEF Entries, Copies
<1> QED BY <1>1, <1>2

\* The flush of a fresh process.
LEMMA IdleFlushType ==
    /\ IdleFlush \in [phase: {"idle", "tx", "pop"}, keys: SUBSET Buckets, snap: {IdleFlush.snap}]
    /\ IdleFlush.snap \in [DOMAIN IdleFlush.snap -> Counts]
    /\ DOMAIN IdleFlush.snap = {}
<1>1. DOMAIN <<>> = {}
    OBVIOUS
<1>2. <<>> \in [{} -> Counts]
    BY <1>1
<1> QED BY <1>1, <1>2 DEF IdleFlush

\* The bucket of a copy, and its event.
LEMMA CopyType ==
    ASSUME NEW c \in Copies
    PROVE  /\ c[1] \in Events /\ c[2] \in 0..MaxCopies /\ c = <<c[1], c[2]>>
           /\ Bucket[c[1]] \in Buckets
BY DEF Copies, Buckets

\* What an attempt that failed does to its message.
LEMMA AttemptFailsType ==
    ASSUME TypeOK, NEW c \in Copies, AttemptFails(c)
    PROVE  /\ pc' = [pc EXCEPT ![c] = "ready"] \/ pc' = [pc EXCEPT ![c] = "done"]
           /\ attempt' \in [Copies -> 1..MaxAttempts]
           /\ dlq' = dlq \/ \E d \in Entries : dlq[d] = "absent" /\ dlq' = [dlq EXCEPT ![d] = "PENDING"]
<1>1. CASE attempt[c] < MaxAttempts
    BY <1>1, QualityAssumption DEF AttemptFails, TypeOK, QualityTypeOK
<1>2. CASE ~(attempt[c] < MaxAttempts)
    BY <1>2, DeadLetterRow DEF AttemptFails, TypeOK, QualityTypeOK
<1> QED BY <1>1, <1>2

\* The steps of the consumer framework keep the types.
LEMMA TaskTypeNext ==
    ASSUME TypeOK, NEW c \in Copies, UNCHANGED <<adminVars, storeVars>>,
           Malformed(c) \/ Check(c) \/ Handle(c) \/ Mark(c) \/ CheckFails(c) \/ MarkFails(c)
    PROVE  TypeOK'
<1> USE QualityAssumption DEF QualityTypeOK, TypeOK, InTask, taskVars, flushVars, onceVars, envVars, adminVars, storeVars
<1>0. c[1] \in Events
    BY CopyType
<1>1. CASE Malformed(c)
    <2>1. PICK d \in Entries : dlq' = [dlq EXCEPT ![d] = "PENDING"]
        BY <1>1, DeadLetterRow DEF Malformed
    <2> QED BY <1>1, <2>1 DEF Malformed
<1>2. CASE Check(c)
    <2>1. pc' \in [Copies -> {"none", "ready", "done", "committed"} \cup InTask]
        BY <1>2 DEF Check
    <2>2. doubts' \in [Events -> Nat]
        BY <1>0, <1>2 DEF Check, Doubt
    <2> QED BY <1>2, <2>1, <2>2 DEF Check
<1>3. CASE Handle(c)
    <2>1. Bucket[c[1]] \in Buckets /\ Delta(c) \in Counts /\ Delta(c)["total"] \in Nat
        BY CopyType, DeltaType
    <2>2. acc' \in [Buckets -> Counts]
        BY <1>3, <2>1, AddType DEF Handle
    <2>3. counted' \in [Buckets -> Counts]
        BY <1>3, <2>1, AddType DEF Handle
    <2>4. tallies' \in [Events -> Nat]
        BY <1>0, <1>3, <2>1 DEF Handle
    <2>5. open' \in SUBSET Buckets /\ spoiled' \in SUBSET Buckets
        BY <1>3, <2>1 DEF Handle
    <2> QED BY <1>3, <2>2, <2>3, <2>4, <2>5 DEF Handle
<1>4. CASE Mark(c)
    BY <1>0, <1>4 DEF Mark
<1>5. CASE CheckFails(c) \/ MarkFails(c)
    <2>1. faults' \in 0..MaxFaults /\ AttemptFails(c) /\ UNCHANGED <<flushVars, tallies, stops, clock>>
        BY <1>5 DEF CheckFails, MarkFails
    <2>2. record' \in [Events -> {"none", "processed", "failed"}] /\ doubts' \in [Events -> Nat]
        BY <1>0, <1>5 DEF CheckFails, MarkFails, Becomes, Doubt, MayBecome
    <2>3. /\ pc' \in [Copies -> {"none", "ready", "done", "committed"} \cup InTask]
          /\ dlq' \in [Entries -> {"absent", "PENDING", "RETRIED", "DISCARDED"}]
          /\ attempt' \in [Copies -> 1..MaxAttempts]
        BY <2>1, AttemptFailsType
    <2> QED BY <2>1, <2>2, <2>3
<1> QED BY <1>1, <1>2, <1>3, <1>4, <1>5

\* A commit of offsets, and the end of a process, keep the types of what they touch.
LEMMA EndTypes ==
    ASSUME TypeOK
    PROVE  /\ CommitDone \in [Copies -> {"none", "ready", "done", "committed"} \cup InTask]
           /\ EndOfProcess => /\ open' \in SUBSET Buckets /\ acc' \in [Buckets -> Counts]
                              /\ flush' = IdleFlush /\ attempt' \in [Copies -> 1..MaxAttempts]
<1>1. CommitDone \in [Copies -> {"none", "ready", "done", "committed"} \cup InTask]
    BY DEF TypeOK, QualityTypeOK, CommitDone
<1>2. NoCounts \in Counts
    BY DEF NoCounts, Counts
<1> QED BY <1>1, <1>2, QualityAssumption DEF EndOfProcess

\* The flush, the commits and the ends of the process keep the types.
LEMMA FlushTypeNext ==
    ASSUME TypeOK, Commit \/ Rebalance \/ FlushStep \/ FlushFails \/ Stop \/ Crash \/ Tick, UNCHANGED <<adminVars, storeVars>>
    PROVE  TypeOK'
<1> USE QualityAssumption DEF QualityTypeOK, TypeOK, taskVars, flushVars, onceVars, envVars, adminVars, storeVars
<1>1. CASE Commit
    BY <1>1, EndTypes DEF Commit
<1>2. CASE FlushBegin
    <2>1. PICK b \in Ready : flush' = [phase |-> "tx", keys |-> Ready, snap |-> Reading(<<>>, b)]
        BY <1>2 DEF FlushBegin
    <2>2. b \in Buckets /\ Ready \in SUBSET Buckets
        BY DEF Ready
    <2>3. Reading(<<>>, b) \in [DOMAIN Reading(<<>>, b) -> Counts]
        BY <2>2, IdleFlushType DEF IdleFlush, Reading
    <2>4. flush'.snap \in [DOMAIN flush'.snap -> Counts]
        BY <2>1, <2>3
    <2>5. flush' \in [phase: {"idle", "tx", "pop"}, keys: SUBSET Buckets, snap: {flush'.snap}]
        BY <2>1, <2>2
    <2> QED BY <1>2, <2>4, <2>5 DEF FlushBegin
<1>3. CASE FlushWrite
    <2>1. PICK b \in flush.keys \ DOMAIN flush.snap : flush' = [flush EXCEPT !.snap = Reading(@, b)]
        BY <1>3 DEF FlushWrite
    <2>2. b \in Buckets
        OBVIOUS
    <2>3. Reading(flush.snap, b) \in [DOMAIN Reading(flush.snap, b) -> Counts]
        BY <2>2 DEF Reading
    <2>4. flush'.snap = Reading(flush.snap, b)
        BY <2>1
    <2>5. flush' \in [phase: {"idle", "tx", "pop"}, keys: SUBSET Buckets, snap: {flush'.snap}]
        BY <2>1
    <2> QED BY <1>3, <2>3, <2>4, <2>5 DEF FlushWrite
<1>4. CASE FlushCommit
    <2>1. \A b \in DOMAIN flush.snap : flush.snap[b] \in Counts
        OBVIOUS
    <2>2. rows' \in [Buckets -> Counts]
        BY <1>4, <2>1 DEF FlushCommit
    <2>3. flush' \in [phase: {"idle", "tx", "pop"}, keys: SUBSET Buckets, snap: {flush'.snap}] /\ flush'.snap = flush.snap
        BY <1>4 DEF FlushCommit
    <2> QED BY <1>4, <2>2, <2>3 DEF FlushCommit
<1>5. CASE FlushPop
    <2>1. NoCounts \in Counts
        BY DEF NoCounts, Counts
    <2>2. acc' \in [Buckets -> Counts] /\ open' \in SUBSET Buckets
        BY <1>5, <2>1 DEF FlushPop
    <2> QED BY <1>5, <2>2, IdleFlushType DEF FlushPop
<1>6. CASE FlushFails
    BY <1>6, IdleFlushType, SMTT(30) DEF FlushFails
<1>7. CASE Stop
    <2>1. EndOfProcess /\ pc' = CommitDone /\ stops' \in 0..MaxStops /\ UNCHANGED <<record, counted, onceVars, clock, dlq>>
        BY <1>7 DEF Stop
    <2>2. rows' \in [Buckets -> Counts] /\ spoiled' \in SUBSET Buckets /\ faults' \in 0..MaxFaults
        BY <1>7 DEF Stop, Unwritten
    <2> QED BY <2>1, <2>2, EndTypes, IdleFlushType
<1>8. CASE Crash
    <2>1. EndOfProcess /\ UNCHANGED <<record, rows, counted, tallies, stops, clock, dlq>>
        BY <1>8 DEF Crash
    <2>2. pc' \in [Copies -> {"none", "ready", "done", "committed"} \cup InTask]
        BY <1>8 DEF Crash
    <2>3. doubts' \in [Events -> Nat]
        <3>1. \A e \in Events : doubts[e] \in Nat /\ doubts[e] + 1 \in Nat
            OBVIOUS
        <3> QED BY <1>8, <3>1 DEF Crash
    <2>4. spoiled' \in SUBSET Buckets /\ faults' \in 0..MaxFaults
        BY <1>8 DEF Crash, Unwritten
    <2> QED BY <2>1, <2>2, <2>3, <2>4, EndTypes, IdleFlushType
<1>9. CASE Tick
    BY <1>9 DEF Tick
<1>10. CASE Rebalance
    <2>1. /\ pc' \in [Copies -> {"none", "ready", "done", "committed"} \cup InTask]
          /\ attempt' \in [Copies -> 1..MaxAttempts] /\ faults' \in 0..MaxFaults
        BY <1>10 DEF Rebalance
    <2> QED BY <1>10, <2>1 DEF Rebalance
<1> QED BY <1>1, <1>2, <1>3, <1>4, <1>5, <1>6, <1>7, <1>8, <1>9, <1>10 DEF FlushStep

\* A request of the dead-letter API is about an entry.
LEMMA RequestEntry ==
    ASSUME TypeOK, NEW a \in Admins, request[a] # Idle
    PROVE  /\ request[a] \in [step: {"publish", "commit"}, entry: Entries]
           /\ request[a].entry \in Entries /\ request[a].step \in {"publish", "commit"}
<1>1. request[a] \in [step: {"publish", "commit"}, entry: Entries]
    BY DEF TypeOK
<1> QED BY <1>1

\* The dead-letter API and the persistence consumer keep the types.
LEMMA AdminTypeNext ==
    ASSUME TypeOK,
           \/ \E a \in Admins, d \in Entries : Retry(a, d)
           \/ \E a \in Admins : Republish(a) \/ RepublishFails(a) \/ RetryCommit(a)
           \/ \E d \in Entries : Discard(d)
           \/ \E e \in Events : Persist(e) \/ PersistFails(e)
    PROVE  TypeOK'
<1> USE ScenarioAssumption, QualityAssumption
    DEF QualityTypeOK, TypeOK, qualityVars, taskVars, flushVars, onceVars, envVars, adminVars, storeVars
<1>1. ASSUME NEW a \in Admins, NEW d \in Entries, Retry(a, d) PROVE TypeOK'
    <2>1. strays' \in [Entries -> Nat]
        BY <1>1 DEF Retry, Stray
    <2> QED BY <1>1, <2>1 DEF Retry
<1>2. ASSUME NEW d \in Entries, Arrives(d)
      PROVE  /\ pc' \in [Copies -> {"none", "ready", "done", "committed"} \cup InTask]
             /\ republished' \in [Entries -> Nat]
    <2>1. pc' \in [Copies -> {"none", "ready", "done", "committed"} \cup InTask]
        BY <1>2, ZenonT(30) DEF Arrives
    <2> QED BY <1>2, <2>1 DEF Arrives
<1>3. ASSUME NEW a \in Admins, Republish(a) PROVE TypeOK'
    <2>1. request[a].entry \in Entries /\ request[a] \in [step: {"publish", "commit"}, entry: Entries]
        BY <1>3, RequestEntry DEF Republish
    <2>2. request' \in [Admins -> {Idle} \cup [step: {"publish", "commit"}, entry: Entries]]
        BY <1>3, <2>1 DEF Republish
    <2>3. /\ pc' \in [Copies -> {"none", "ready", "done", "committed"} \cup InTask]
          /\ republished' \in [Entries -> Nat]
        BY <1>2, <1>3, <2>1 DEF Republish
    <2> QED BY <1>3, <2>2, <2>3 DEF Republish
<1>4. ASSUME NEW a \in Admins, RepublishFails(a) PROVE TypeOK'
    <2>1. PICK d \in Entries : request[a].entry = d
        BY <1>4, RequestEntry DEF RepublishFails
    <2>2. /\ pc' \in [Copies -> {"none", "ready", "done", "committed"} \cup InTask]
          /\ republished' \in [Entries -> Nat] /\ strays' \in [Entries -> Nat]
        BY <1>2, <1>4, <2>1 DEF RepublishFails, Stray
    <2> QED BY <1>4, <2>2 DEF RepublishFails
<1>5. ASSUME NEW a \in Admins, RetryCommit(a) PROVE TypeOK'
    <2>1. PICK d \in Entries : request[a].entry = d
        BY <1>5, RequestEntry DEF RetryCommit
    <2>2. /\ dlq' \in [Entries -> {"absent", "PENDING", "RETRIED", "DISCARDED"}]
          /\ strays' \in [Entries -> Nat] /\ faults' \in 0..MaxFaults /\ stops' = stops
        BY <1>5, <2>1 DEF RetryCommit, Stray
    <2> QED BY <1>5, <2>2 DEF RetryCommit
<1>6. ASSUME NEW d \in Entries, Discard(d) PROVE TypeOK'
    BY <1>6 DEF Discard
<1>7. ASSUME NEW e \in Events, Persist(e) PROVE TypeOK'
    BY <1>7 DEF Persist
<1>8. ASSUME NEW e \in Events, PersistFails(e) PROVE TypeOK'
    <2>1. <<e, 0>> \in Copies /\ <<e, 0>>[2] = 0
        BY DEF Copies
    <2>2. PICK d \in Entries : dlq' = [dlq EXCEPT ![d] = "PENDING"]
        BY <1>8, <2>1, DeadLetterRow DEF PersistFails
    <2>3. faults' \in 0..MaxFaults /\ stored' \subseteq Events /\ unstored' \subseteq Events
        BY <1>8 DEF PersistFails
    <2> QED BY <1>8, <2>2, <2>3 DEF PersistFails
<1> QED BY <1>1, <1>3, <1>4, <1>5, <1>6, <1>7, <1>8

\* Every step keeps the types.
LEMMA TypeNext == ASSUME TypeOK, Next PROVE TypeOK'
BY TaskTypeNext, FlushTypeNext, AdminTypeNext DEF Next, QualityNext, TaskStep

----------------------------------------------------------------------------
(* The rows of a bucket are exact *)

\* Steps of tasks, requests and persistence that count nothing.
LEMMA QuietCounts ==
    ASSUME ExactInv, UNCHANGED flushVars PROVE ExactInv'
BY DEF ExactInv, FlushIsWithin, MemoryIsOpen, BucketIsExact, flushVars

\* handle() counts in memory; in a window of loss it spoils the bucket.
LEMMA HandleExact ==
    ASSUME TypeOK, ExactInv, NEW c \in Copies, Handle(c) PROVE ExactInv'
<1> DEFINE b == Bucket[c[1]]
<1>1. b \in Buckets /\ Delta(c) \in Counts
    BY CopyType, DeltaType
<1>2. /\ open' = open \cup {b} /\ flush' = flush /\ rows' = rows /\ spoiled \subseteq spoiled'
      /\ acc'[b] = Add(acc[b], Delta(c)) /\ counted'[b] = Add(counted[b], Delta(c))
      /\ \A x \in Buckets \ {b} : acc'[x] = acc[x] /\ counted'[x] = counted[x]
    BY <1>1 DEF Handle, TypeOK, QualityTypeOK
<1>3. b \notin spoiled' =>
        /\ b \in DOMAIN flush.snap => Delta(c) = NoCounts
        /\ b \notin open => rows[b] = NoCounts
    BY DEF Handle
<1>4. acc[b] \in Counts /\ counted[b] \in Counts
    BY <1>1 DEF TypeOK, QualityTypeOK
<1> HIDE DEF b
<1>5. FlushIsWithin'
    BY <1>2 DEF ExactInv, FlushIsWithin
<1>6. MemoryIsOpen'
    BY <1>2 DEF ExactInv, MemoryIsOpen
<1>7. ASSUME NEW x \in Buckets \ spoiled', x # b PROVE BucketIsExact(x)'
    <2>1. x \in Buckets \ spoiled /\ acc'[x] = acc[x] /\ counted'[x] = counted[x] /\ (x \in open' <=> x \in open)
        BY <1>2, <1>7
    <2> QED BY <1>2, <2>1 DEF ExactInv, BucketIsExact
<1>8. ASSUME b \notin spoiled' PROVE BucketIsExact(b)'
    <2>1. BucketIsExact(b)
        BY <1>1, <1>2, <1>8 DEF ExactInv
    <2>2. acc[b] = counted[b]
        <3>1. CASE b \in open
            BY <2>1, <3>1 DEF BucketIsExact
        <3>2. CASE b \notin open
            BY <1>1, <1>3, <1>8, <2>1, <3>2 DEF BucketIsExact, ExactInv, MemoryIsOpen
        <3> QED BY <3>1, <3>2
    <2>3. b \in DOMAIN flush.snap => acc'[b] = acc[b]
        BY <1>2, <1>3, <1>4, <1>8, AddNothing
    <2> QED BY <1>2, <2>1, <2>2, <2>3 DEF BucketIsExact
<1> QED BY <1>1, <1>5, <1>6, <1>7, <1>8 DEF ExactInv

\* The reads of the flush are of memory as it is.
LEMMA ReadExact ==
    ASSUME TypeOK, ExactInv, FlushBegin \/ FlushWrite PROVE ExactInv'
<1>1. CASE FlushBegin
    <2>1. PICK b \in Ready : flush' = [phase |-> "tx", keys |-> Ready, snap |-> Reading(<<>>, b)]
        BY <1>1 DEF FlushBegin
    <2>2. Ready \subseteq open /\ UNCHANGED <<open, acc, rows, counted, spoiled>>
        BY <1>1 DEF FlushBegin, Ready
    <2>3. DOMAIN Reading(<<>>, b) = {b} /\ Reading(<<>>, b)[b] = acc[b]
        BY IdleFlushType DEF Reading, IdleFlush
    <2>4. flush'.phase = "tx" /\ flush'.keys = Ready /\ DOMAIN flush'.snap = {b} /\ flush'.snap[b] = acc[b]
        BY <2>1, <2>3
    <2>5. FlushIsWithin'
        BY <2>2, <2>4 DEF FlushIsWithin
    <2>6. MemoryIsOpen'
        BY <2>2 DEF ExactInv, MemoryIsOpen
    <2>7. \A x \in Buckets \ spoiled : BucketIsExact(x)'
        BY <2>2, <2>4 DEF ExactInv, BucketIsExact
    <2> QED BY <2>2, <2>5, <2>6, <2>7 DEF ExactInv
<1>2. CASE FlushWrite
    <2>1. PICK b \in flush.keys \ DOMAIN flush.snap : flush' = [flush EXCEPT !.snap = Reading(@, b)]
        BY <1>2 DEF FlushWrite
    <2>2. UNCHANGED <<open, acc, rows, counted, spoiled>> /\ flush.phase = "tx"
        BY <1>2 DEF FlushWrite
    <2>3. flush'.phase = "tx" /\ flush'.keys = flush.keys /\ flush'.snap = Reading(flush.snap, b)
        BY <2>1, <2>2 DEF TypeOK, QualityTypeOK
    <2>4. /\ DOMAIN flush'.snap = DOMAIN flush.snap \cup {b} /\ flush'.snap[b] = acc[b]
          /\ \A x \in DOMAIN flush.snap : flush'.snap[x] = flush.snap[x]
        BY <2>1, <2>3 DEF Reading
    <2>5. FlushIsWithin'
        BY <2>1, <2>2, <2>3, <2>4 DEF ExactInv, FlushIsWithin
    <2>6. MemoryIsOpen'
        BY <2>2 DEF ExactInv, MemoryIsOpen
    <2>7. \A x \in Buckets \ spoiled : BucketIsExact(x)'
        BY <2>2, <2>3, <2>4 DEF ExactInv, BucketIsExact
    <2> QED BY <2>2, <2>5, <2>6, <2>7 DEF ExactInv
<1> QED BY <1>1, <1>2

\* The upsert writes what was read; the pop takes it out of memory.
LEMMA WriteExact ==
    ASSUME TypeOK, ExactInv, FlushCommit \/ FlushPop \/ FlushFails PROVE ExactInv'
<1>1. CASE FlushCommit
    <2>1. /\ flush'.phase = "pop" /\ flush'.keys = flush.keys /\ flush'.snap = flush.snap
          /\ DOMAIN flush.snap = flush.keys /\ UNCHANGED <<open, acc, counted, spoiled>>
        BY <1>1 DEF FlushCommit, TypeOK, QualityTypeOK
    <2>2. \A b \in Buckets : rows'[b] = IF b \in DOMAIN flush.snap THEN flush.snap[b] ELSE rows[b]
        BY <1>1 DEF FlushCommit
    <2>3. FlushIsWithin' /\ MemoryIsOpen'
        BY <2>1 DEF ExactInv, FlushIsWithin, MemoryIsOpen
    <2>4. ASSUME NEW b \in Buckets \ spoiled PROVE BucketIsExact(b)'
        <3>1. BucketIsExact(b)
            BY DEF ExactInv
        <3>2. b \in DOMAIN flush.snap => b \in open
            BY DEF ExactInv, FlushIsWithin
        <3> QED BY <2>1, <2>2, <3>1, <3>2 DEF BucketIsExact
    <2> QED BY <2>1, <2>3, <2>4 DEF ExactInv
<1>2. CASE FlushPop
    <2>1. /\ open' = open \ flush.keys /\ flush' = IdleFlush /\ UNCHANGED <<rows, counted, spoiled>>
          /\ flush.phase = "pop" /\ \A b \in Buckets : acc'[b] = IF b \in flush.keys THEN NoCounts ELSE acc[b]
        BY <1>2 DEF FlushPop
    <2>2. DOMAIN flush'.snap = {} /\ flush'.keys = {} /\ flush'.phase = "idle"
        BY <2>1, IdleFlushType DEF IdleFlush
    <2>3. FlushIsWithin' /\ MemoryIsOpen'
        BY <2>1, <2>2 DEF ExactInv, FlushIsWithin, MemoryIsOpen
    <2>4. ASSUME NEW b \in Buckets \ spoiled PROVE BucketIsExact(b)'
        <3>1. BucketIsExact(b)
            BY DEF ExactInv
        <3>2. b \in flush.keys => b \in open /\ b \in DOMAIN flush.snap
            BY <2>1 DEF ExactInv, FlushIsWithin
        <3> QED BY <2>1, <2>2, <3>1, <3>2 DEF BucketIsExact
    <2> QED BY <2>1, <2>3, <2>4 DEF ExactInv
<1>3. CASE FlushFails
    <2>1. flush' = IdleFlush /\ UNCHANGED <<open, acc, rows, counted, spoiled>>
        BY <1>3 DEF FlushFails
    <2>2. DOMAIN flush'.snap = {} /\ flush'.keys = {} /\ flush'.phase = "idle"
        BY <2>1, IdleFlushType DEF IdleFlush
    <2> QED BY <2>1, <2>2 DEF ExactInv, FlushIsWithin, MemoryIsOpen, BucketIsExact
<1> QED BY <1>1, <1>2, <1>3

\* A process that ends has written what is in memory, or spoils what it has not.
LEMMA EndExact ==
    ASSUME TypeOK, ExactInv, Stop \/ Crash PROVE ExactInv'
<1>1. /\ open' = {} /\ flush' = IdleFlush /\ counted' = counted
      /\ \A b \in Buckets : acc'[b] = NoCounts
    BY DEF Stop, Crash, EndOfProcess
<1>2. DOMAIN flush'.snap = {} /\ flush'.keys = {} /\ flush'.phase = "idle"
    BY <1>1, IdleFlushType DEF IdleFlush
<1>3. spoiled \subseteq spoiled'
    BY DEF Stop, Crash
<1>4. ASSUME NEW b \in Buckets \ spoiled' PROVE rows'[b] = counted[b]
    <2>1. BucketIsExact(b)
        BY <1>3 DEF ExactInv
    <2>2. CASE b \in open
        <3>1. rows'[b] = acc[b]
            BY <1>4, <2>2 DEF Stop, Crash, Unwritten
        <3> QED BY <2>1, <2>2, <3>1 DEF BucketIsExact
    <2>3. CASE b \notin open
        <3>1. rows'[b] = rows[b]
            BY <2>3 DEF Stop, Crash
        <3> QED BY <2>1, <2>3, <3>1 DEF BucketIsExact
    <2> QED BY <2>2, <2>3
<1>5. FlushIsWithin' /\ MemoryIsOpen'
    BY <1>1, <1>2 DEF FlushIsWithin, MemoryIsOpen
<1>6. \A b \in Buckets \ spoiled' : BucketIsExact(b)'
    BY <1>1, <1>2, <1>4 DEF BucketIsExact
<1> QED BY <1>5, <1>6 DEF ExactInv

\* Every step keeps the counts exact.
LEMMA ExactNext == ASSUME TypeOK, ExactInv, Next PROVE ExactInv'
<1>1. ASSUME NEW c \in Copies, Malformed(c) \/ Check(c) \/ Mark(c) \/ CheckFails(c) \/ MarkFails(c) PROVE ExactInv'
    BY <1>1, QuietCounts DEF Malformed, Check, Mark, CheckFails, MarkFails
<1>2. CASE Commit \/ Rebalance \/ Tick
    BY <1>2, QuietCounts DEF Commit, Rebalance, Tick
<1>3. CASE QualityNext
    BY <1>1, <1>2, <1>3, HandleExact, ReadExact, WriteExact, EndExact DEF QualityNext, TaskStep, FlushStep
<1>4. ASSUME NEW a \in Admins, \/ \E d \in Entries : Retry(a, d)
                              \/ Republish(a) \/ RepublishFails(a) \/ RetryCommit(a)
      PROVE  ExactInv'
    BY <1>4, QuietCounts DEF Retry, Republish, RepublishFails, RetryCommit, qualityVars
<1>5. ASSUME NEW d \in Entries, Discard(d) PROVE ExactInv'
    BY <1>5, QuietCounts DEF Discard
<1>6. ASSUME NEW e \in Events, Persist(e) \/ PersistFails(e) PROVE ExactInv'
    BY <1>6, QuietCounts DEF Persist, PersistFails, qualityVars
<1> QED BY <1>3, <1>4, <1>5, <1>6 DEF Next

----------------------------------------------------------------------------
(* No row says more than was counted *)

\* Steps that count, read and write nothing.
LEMMA QuietInvented ==
    ASSUME NothingInvented, UNCHANGED flushVars PROVE NothingInvented'
BY DEF NothingInvented, flushVars

\* handle() counts in memory what the history counts.
LEMMA HandleInvented ==
    ASSUME TypeOK, NothingInvented, NEW c \in Copies, Handle(c) PROVE NothingInvented'
<1> DEFINE b == Bucket[c[1]]
<1>1. b \in Buckets /\ Delta(c) \in Counts
    BY CopyType, DeltaType
<1>2. /\ flush' = flush /\ rows' = rows
      /\ acc'[b] = Add(acc[b], Delta(c)) /\ counted'[b] = Add(counted[b], Delta(c))
      /\ \A x \in Buckets \ {b} : acc'[x] = acc[x] /\ counted'[x] = counted[x]
    BY <1>1 DEF Handle, TypeOK, QualityTypeOK
<1>3. /\ acc[b] \in Counts /\ rows[b] \in Counts /\ counted[b] \in Counts
      /\ flush.snap \in [DOMAIN flush.snap -> Counts]
    BY <1>1 DEF TypeOK, QualityTypeOK
<1> HIDE DEF b
<1>4. ASSUME NEW k \in CountKeys
      PROVE  /\ acc'[b][k] <= counted'[b][k] /\ rows[b][k] <= counted'[b][k]
             /\ b \in DOMAIN flush.snap => flush.snap[b][k] <= counted'[b][k]
    <2>1. Delta(c)[k] \in Nat /\ acc[b][k] \in Nat /\ rows[b][k] \in Nat /\ counted[b][k] \in Nat
        BY <1>1, <1>3 DEF Counts
    <2>2. b \in DOMAIN flush.snap => flush.snap[b][k] \in Nat
        BY <1>3 DEF Counts
    <2>3. acc'[b][k] = acc[b][k] + Delta(c)[k] /\ counted'[b][k] = counted[b][k] + Delta(c)[k]
        BY <1>2 DEF Add
    <2>4. /\ acc[b][k] <= counted[b][k] /\ rows[b][k] <= counted[b][k]
          /\ b \in DOMAIN flush.snap => flush.snap[b][k] <= counted[b][k]
        BY <1>1 DEF NothingInvented
    <2> QED BY <2>1, <2>2, <2>3, <2>4
<1> QED BY <1>2, <1>4 DEF NothingInvented

\* The flush writes what it read of memory, and what leaves memory is zero.
LEMMA InventedNext == ASSUME TypeOK, NothingInvented, Next PROVE NothingInvented'
<1>0. \A b \in Buckets : \A k \in CountKeys : NoCounts[k] <= counted[b][k]
    BY DEF NoCounts, TypeOK, QualityTypeOK, Counts
<1>1. ASSUME NEW c \in Copies, Malformed(c) \/ Check(c) \/ Mark(c) \/ CheckFails(c) \/ MarkFails(c)
      PROVE  NothingInvented'
    BY <1>1, QuietInvented DEF Malformed, Check, Mark, CheckFails, MarkFails
<1>2. CASE Commit \/ Rebalance \/ Tick
    BY <1>2, QuietInvented DEF Commit, Rebalance, Tick
<1>3. CASE FlushBegin
    <2>1. PICK b \in Ready : flush'.snap = Reading(<<>>, b)
        BY <1>3 DEF FlushBegin
    <2>2. DOMAIN flush'.snap = {b} /\ flush'.snap[b] = acc[b]
        BY <2>1, IdleFlushType DEF Reading, IdleFlush
    <2> QED BY <1>3, <2>2 DEF FlushBegin, NothingInvented
<1>4. CASE FlushWrite
    <2>1. PICK b \in flush.keys \ DOMAIN flush.snap : flush' = [flush EXCEPT !.snap = Reading(@, b)]
        BY <1>4 DEF FlushWrite
    <2>2. flush'.snap = Reading(flush.snap, b)
        BY <2>1 DEF TypeOK, QualityTypeOK
    <2>3. \A x \in DOMAIN flush'.snap :
             flush'.snap[x] = acc[x] \/ (x \in DOMAIN flush.snap /\ flush'.snap[x] = flush.snap[x])
        BY <2>2 DEF Reading
    <2> QED BY <1>4, <2>3 DEF FlushWrite, NothingInvented
<1>5. CASE FlushCommit
    <2>1. flush'.snap = flush.snap /\ UNCHANGED <<acc, counted>>
        BY <1>5 DEF FlushCommit, TypeOK, QualityTypeOK
    <2>2. \A b \in Buckets : rows'[b] = IF b \in DOMAIN flush.snap THEN flush.snap[b] ELSE rows[b]
        BY <1>5 DEF FlushCommit
    <2> QED BY <2>1, <2>2 DEF NothingInvented
<1>6. CASE FlushPop \/ FlushFails
    <2>1. /\ flush' = IdleFlush /\ UNCHANGED <<rows, counted>>
          /\ \A b \in Buckets : acc'[b] = NoCounts \/ acc'[b] = acc[b]
        BY <1>6 DEF FlushPop, FlushFails
    <2>2. DOMAIN flush'.snap = {}
        BY <2>1, IdleFlushType
    <2> QED BY <1>0, <2>1, <2>2 DEF NothingInvented
<1>7. CASE Stop \/ Crash
    <2>1. /\ flush' = IdleFlush /\ counted' = counted
          /\ \A b \in Buckets : acc'[b] = NoCounts /\ (rows'[b] = acc[b] \/ rows'[b] = rows[b])
        BY <1>7 DEF Stop, Crash, EndOfProcess
    <2>2. DOMAIN flush'.snap = {}
        BY <2>1, IdleFlushType
    <2> QED BY <1>0, <2>1, <2>2 DEF NothingInvented
<1>8. CASE QualityNext
    BY <1>1, <1>2, <1>3, <1>4, <1>5, <1>6, <1>7, <1>8, HandleInvented DEF QualityNext, TaskStep, FlushStep
<1>9. ASSUME NEW a \in Admins, \/ \E d \in Entries : Retry(a, d)
                              \/ Republish(a) \/ RepublishFails(a) \/ RetryCommit(a)
      PROVE  NothingInvented'
    BY <1>9, QuietInvented DEF Retry, Republish, RepublishFails, RetryCommit, qualityVars
<1>10. ASSUME NEW d \in Entries, Discard(d) PROVE NothingInvented'
    BY <1>10, QuietInvented DEF Discard
<1>11. ASSUME NEW e \in Events, Persist(e) \/ PersistFails(e) PROVE NothingInvented'
    BY <1>11, QuietInvented DEF Persist, PersistFails, qualityVars
<1> QED BY <1>8, <1>9, <1>10, <1>11 DEF Next

----------------------------------------------------------------------------
(* Every further count is a doubt *)

\* What the cardinality of a finite set does when an element comes or goes.
LEMMA Counting ==
    ASSUME NEW S, IsFiniteSet(S), NEW x
    PROVE  /\ Cardinality(S) \in Nat
           /\ Cardinality(S) = 0 <=> S = {}
           /\ x \in S => Cardinality(S) > 0 /\ Cardinality(S \ {x}) = Cardinality(S) - 1
           /\ x \notin S => Cardinality(S \cup {x}) = Cardinality(S) + 1
<1>1. Cardinality(S) \in Nat /\ (Cardinality(S) = 0 <=> S = {})
    BY FS_CardinalityType, FS_EmptySet
<1>2. x \in S => Cardinality(S \ {x}) = Cardinality(S) - 1
    BY FS_RemoveElement
<1>3. x \notin S => Cardinality(S \cup {x}) = Cardinality(S) + 1
    BY FS_AddElement
<1> QED BY <1>1, <1>2, <1>3

\* The copies of an event that are about to be counted are finitely many.
LEMMA FiniteCopies == ASSUME NEW e \in Events PROVE IsFiniteSet(AboutToCount(e))
<1>1. IsFiniteSet(0..MaxCopies) /\ AboutToCount(e) \subseteq 0..MaxCopies
    BY FS_Interval, QualityAssumption DEF AboutToCount
<1> QED BY <1>1, FS_Subset

\* A step that moves copies of an event outside tasks only.
LEMMA QuietOnce ==
    ASSUME NEW e \in Events, OnceInv(e),
           tallies'[e] = tallies[e], record'[e] = record[e], doubts'[e] = doubts[e],
           \A n \in 0..MaxCopies : \/ pc'[<<e, n>>] = pc[<<e, n>>]
                                   \/ pc'[<<e, n>>] \notin InTask /\ pc[<<e, n>>] \notin InTask
    PROVE  OnceInv(e)'
<1>1. AboutToCount(e)' = AboutToCount(e)
    BY DEF AboutToCount, InTask
<1>2. InATask(e)' <=> InATask(e)
    BY DEF InATask
<1> QED BY <1>1, <1>2 DEF OnceInv

\* The copies of another event stay where they are.
LEMMA OtherCopies ==
    ASSUME NEW c \in Copies, NEW e \in Events, e # c[1], NEW n \in 0..MaxCopies
    PROVE  <<e, n>> # c /\ <<e, n>> \in Copies
BY DEF Copies

\* A step of a task changes nothing of another event.
LEMMA OthersOnce ==
    ASSUME TypeOK, NEW e \in Events, OnceInv(e), NEW c \in Copies, e # c[1],
           Malformed(c) \/ Check(c) \/ Handle(c) \/ Mark(c) \/ CheckFails(c) \/ MarkFails(c)
    PROVE  OnceInv(e)'
<1> USE DEF TypeOK, QualityTypeOK
<1>1. tallies'[e] = tallies[e]
    BY CopyType DEF Malformed, Check, Handle, Mark, CheckFails, MarkFails, onceVars
<1>2. record'[e] = record[e]
    BY CopyType DEF Malformed, Check, Handle, Mark, CheckFails, MarkFails, Becomes
<1>3. doubts'[e] = doubts[e]
    BY CopyType DEF Malformed, Check, Handle, Mark, CheckFails, MarkFails, Doubt, onceVars
<1>4. \A x \in Copies : x # c => pc'[x] = pc[x]
    <2>1. CASE CheckFails(c) \/ MarkFails(c)
        BY <2>1, AttemptFailsType DEF CheckFails, MarkFails
    <2>2. CASE Malformed(c) \/ Check(c) \/ Handle(c) \/ Mark(c)
        BY <2>2 DEF Malformed, Check, Handle, Mark
    <2> QED BY <2>1, <2>2
<1>5. \A n \in 0..MaxCopies : pc'[<<e, n>>] = pc[<<e, n>>]
    BY <1>4, OtherCopies
<1> QED BY <1>1, <1>2, <1>3, <1>5, QuietOnce

\* The steps of a task: the record is looked at before handle(), and written after.
LEMMA TaskOnce ==
    ASSUME TypeOK, NEW e \in Events, OnceInv(e), NEW c \in Copies, e = c[1],
           Malformed(c) \/ Check(c) \/ Handle(c) \/ Mark(c) \/ CheckFails(c) \/ MarkFails(c)
    PROVE  OnceInv(e)'
<1> DEFINE k == c[2]
           A == AboutToCount(e)
<1>1. c = <<e, k>> /\ k \in 0..MaxCopies
    BY CopyType
<1>2. \A n \in 0..MaxCopies : <<e, n>> \in Copies /\ (n # k => <<e, n>> # c)
    BY <1>1 DEF Copies
<1>3. /\ tallies[e] \in Nat /\ doubts[e] \in Nat /\ A \in SUBSET (0..MaxCopies)
      /\ IsFiniteSet(A) /\ Cardinality(A) \in Nat
    BY FiniteCopies, FS_CardinalityType DEF TypeOK, QualityTypeOK, AboutToCount
<1>4. /\ tallies[e] + Cardinality(A) <= 1 + doubts[e]
      /\ record[e] # "processed" /\ ~InATask(e) => tallies[e] <= doubts[e]
    BY DEF OnceInv
<1>5. \A n \in 0..MaxCopies : n \in A <=> pc[<<e, n>>] = "handle"
    BY DEF AboutToCount
<1>6. ASSUME NEW B \in SUBSET (0..MaxCopies),
             \A n \in 0..MaxCopies : n \in B <=> pc'[<<e, n>>] = "handle"
      PROVE  AboutToCount(e)' = B
    BY <1>6 DEF AboutToCount
<1> HIDE DEF k, A
<1>7. CASE Malformed(c)
    <2>1. \A n \in 0..MaxCopies : \/ pc'[<<e, n>>] = pc[<<e, n>>]
                                  \/ pc'[<<e, n>>] \notin InTask /\ pc[<<e, n>>] \notin InTask
        BY <1>1, <1>2, <1>7 DEF Malformed, InTask, TypeOK, QualityTypeOK
    <2>2. tallies' = tallies /\ record' = record /\ doubts' = doubts
        BY <1>7 DEF Malformed, onceVars
    <2> QED BY <2>1, <2>2, QuietOnce
<1>8. CASE Check(c)
    <2>1. pc[c] = "ready" /\ tallies' = tallies /\ record' = record
        BY <1>8 DEF Check
    <2>2. /\ pc'[c] = IF record[e] = "processed" THEN "done" ELSE "handle"
          /\ doubts'[e] = IF record[e] # "processed" /\ InATask(e) THEN doubts[e] + 1 ELSE doubts[e]
        BY <1>8 DEF Check, Doubt, TypeOK, QualityTypeOK
    <2>3. \A n \in 0..MaxCopies : n # k => pc'[<<e, n>>] = pc[<<e, n>>]
        BY <1>2, <1>8 DEF Check, TypeOK, QualityTypeOK
    <2>4. CASE record[e] = "processed"
        <3>1. \A n \in 0..MaxCopies : \/ pc'[<<e, n>>] = pc[<<e, n>>]
                                      \/ pc'[<<e, n>>] \notin InTask /\ pc[<<e, n>>] \notin InTask
            BY <1>1, <2>1, <2>2, <2>3, <2>4 DEF InTask
        <3> QED BY <2>1, <2>2, <2>4, <3>1, QuietOnce
    <2>5. CASE record[e] # "processed"
        <3>1. AboutToCount(e)' = A \cup {k}
            <4>1. pc'[<<e, k>>] = "handle" /\ A \cup {k} \in SUBSET (0..MaxCopies)
                BY <1>1, <1>3, <2>2, <2>5
            <4>2. \A n \in 0..MaxCopies : n \in A \cup {k} <=> pc'[<<e, n>>] = "handle"
                BY <1>5, <2>3, <4>1
            <4> QED BY <1>6, <4>1, <4>2
        <3>2. k \notin A
            BY <1>1, <1>5, <2>1
        <3>3. Cardinality(AboutToCount(e)') = Cardinality(A) + 1
            BY <1>3, <3>1, <3>2, Counting
        <3>4. ~InATask(e) => A = {}
            BY <1>3, <1>5 DEF InATask, InTask
        <3>5. ~InATask(e) => Cardinality(A) = 0
            BY <3>4, FS_EmptySet
        <3>6. InATask(e)'
            BY <1>1, <2>2, <2>5 DEF InATask, InTask
        <3> QED BY <1>3, <1>4, <2>1, <2>2, <2>5, <3>3, <3>5, <3>6 DEF OnceInv
    <2> QED BY <2>4, <2>5
<1>9. CASE Handle(c)
    <2>1. /\ pc[c] = "handle" /\ pc'[c] = "mark" /\ record' = record /\ doubts' = doubts
          /\ tallies'[e] = tallies[e] + Delta(c)["total"]
        BY <1>9 DEF Handle, TypeOK, QualityTypeOK
    <2>2. \A n \in 0..MaxCopies : n # k => pc'[<<e, n>>] = pc[<<e, n>>]
        BY <1>2, <1>9 DEF Handle, TypeOK, QualityTypeOK
    <2>3. AboutToCount(e)' = A \ {k} /\ k \in A
        BY <1>1, <1>3, <1>5, <1>6, <2>1, <2>2
    <2>4. Cardinality(AboutToCount(e)') = Cardinality(A) - 1
        BY <1>3, <2>3, Counting
    <2>5. InATask(e)'
        BY <1>1, <2>1 DEF InATask, InTask
    <2>6. Delta(c)["total"] \in {0, 1}
        BY DeltaType
    <2> QED BY <1>3, <1>4, <2>1, <2>4, <2>5, <2>6 DEF OnceInv
<1>10. CASE Mark(c)
    <2>1. pc[c] = "mark" /\ pc'[c] = "done" /\ record'[e] = "processed" /\ tallies' = tallies /\ doubts' = doubts
        BY <1>10 DEF Mark, onceVars, TypeOK, QualityTypeOK
    <2>2. \A n \in 0..MaxCopies : n # k => pc'[<<e, n>>] = pc[<<e, n>>]
        BY <1>2, <1>10 DEF Mark, TypeOK, QualityTypeOK
    <2>3. AboutToCount(e)' = A
        BY <1>1, <1>3, <1>5, <1>6, <2>1, <2>2
    <2> QED BY <1>4, <2>1, <2>3 DEF OnceInv
<1>11. CASE CheckFails(c) \/ MarkFails(c)
    <2>1. pc[c] \in {"ready", "mark"} /\ tallies' = tallies /\ AttemptFails(c)
        BY <1>11 DEF CheckFails, MarkFails
    <2>2. /\ pc'[c] \in {"ready", "done"}
          /\ \A n \in 0..MaxCopies : n # k => pc'[<<e, n>>] = pc[<<e, n>>]
        BY <1>2, <2>1, AttemptFailsType DEF TypeOK, QualityTypeOK
    <2>3. AboutToCount(e)' = A
        BY <1>1, <1>3, <1>5, <1>6, <2>1, <2>2
    <2>4. CASE CheckFails(c)
        <3>1. pc[c] = "ready"
            BY <2>4 DEF CheckFails
        <3>2. InATask(e)' <=> InATask(e)
            BY <1>1, <2>2, <3>1 DEF InATask, InTask
        <3>3. \/ record'[e] = record[e] /\ doubts'[e] = doubts[e]
              \/ record'[e] = "processed" /\ doubts'[e] \in {doubts[e], doubts[e] + 1}
              \/ record[e] = "processed" /\ doubts'[e] = doubts[e] + 1
              \/ record[e] # "processed" /\ doubts'[e] = doubts[e]
            BY <2>4 DEF CheckFails, Becomes, Doubt, MayBecome, TypeOK, QualityTypeOK
        <3> QED BY <1>3, <1>4, <2>1, <2>3, <3>2, <3>3 DEF OnceInv
    <2>5. CASE MarkFails(c)
        <3>1. (record'[e] = "processed" /\ doubts'[e] = doubts[e]) \/ doubts'[e] = doubts[e] + 1
            BY <2>5 DEF MarkFails, Becomes, Doubt, MayBecome, TypeOK, QualityTypeOK
        <3> QED BY <1>3, <1>4, <2>1, <2>3, <3>1 DEF OnceInv
    <2> QED BY <1>11, <2>4, <2>5
<1> QED BY <1>7, <1>8, <1>9, <1>10, <1>11

\* A crash takes tasks along: a count whose mark it lost is doubtful, and a copy
\* that was not counted yet has paid for its next delivery.
LEMMA CrashOnce ==
    ASSUME TypeOK, NEW e \in Events, OnceInv(e), Crash
    PROVE  OnceInv(e)'
<1>1. \A n \in 0..MaxCopies : <<e, n>> \in Copies
    BY DEF Copies
<1>2. /\ tallies' = tallies /\ record' = record
      /\ doubts'[e] = IF record[e] # "processed" /\ \E n \in 0..MaxCopies : pc[<<e, n>>] = "mark"
                      THEN doubts[e] + 1 ELSE doubts[e]
    BY DEF Crash
<1>3. \A n \in 0..MaxCopies : pc'[<<e, n>>] \notin InTask
    BY <1>1 DEF Crash, InTask, TypeOK, QualityTypeOK
<1>4. AboutToCount(e)' = {}
    BY <1>3 DEF AboutToCount, InTask
<1>5. Cardinality(AboutToCount(e)') = 0
    BY <1>4, FS_EmptySet
<1>7. /\ tallies[e] \in Nat /\ doubts[e] \in Nat /\ Cardinality(AboutToCount(e)) \in Nat
      /\ Cardinality(AboutToCount(e)) = 0 <=> AboutToCount(e) = {}
    BY FiniteCopies, Counting DEF TypeOK, QualityTypeOK
<1>8. InATask(e) => AboutToCount(e) # {} \/ \E n \in 0..MaxCopies : pc[<<e, n>>] = "mark"
    BY DEF InATask, InTask, AboutToCount
<1> DEFINE now  == tallies[e]
           free == doubts[e]
           next == doubts'[e]
           near == Cardinality(AboutToCount(e))
<1>9. /\ now \in Nat /\ free \in Nat /\ near \in Nat /\ now + near <= 1 + free
      /\ record[e] # "processed" /\ ~InATask(e) => now <= free
      /\ next = free \/ next = free + 1
    BY <1>2, <1>7 DEF OnceInv
<1>10. record[e] # "processed" => near > 0 \/ next = free + 1 \/ ~InATask(e)
    BY <1>2, <1>7, <1>8
<1> HIDE DEF now, free, next, near
<1>11. now <= 1 + next
    BY <1>9
<1>12. record[e] # "processed" => now <= next
    BY <1>9, <1>10
<1> QED BY <1>2, <1>5, <1>9, <1>11, <1>12 DEF OnceInv, now, next

\* Every step keeps it.
LEMMA OnceNext ==
    ASSUME TypeOK, \A e \in Events : OnceInv(e), Next
    PROVE  \A e \in Events : OnceInv(e)'
<1> SUFFICES ASSUME NEW e \in Events PROVE OnceInv(e)'
    OBVIOUS
<1> USE DEF taskVars, onceVars, flushVars
<1>1. OnceInv(e)
    OBVIOUS
<1>2. ASSUME UNCHANGED <<pc, record, tallies, doubts>> PROVE OnceInv(e)'
    BY <1>1, <1>2, QuietOnce
<1>3. \A n \in 0..MaxCopies : <<e, n>> \in Copies
    BY DEF Copies
<1>4. CASE Commit \/ Stop \/ Rebalance
    <2>1. UNCHANGED <<record, tallies, doubts>>
        BY <1>4 DEF Commit, Stop, Rebalance
    <2>2. \A x \in Copies : pc'[x] = pc[x] \/ (pc[x] = "done" /\ pc'[x] \in {"committed", "ready"})
        BY <1>4 DEF Commit, Stop, Rebalance, CommitDone
    <2>3. \A n \in 0..MaxCopies : \/ pc'[<<e, n>>] = pc[<<e, n>>]
                                  \/ pc'[<<e, n>>] \notin InTask /\ pc[<<e, n>>] \notin InTask
        BY <1>3, <2>2 DEF InTask
    <2> QED BY <1>1, <2>1, <2>3, QuietOnce
<1>5. CASE FlushStep \/ FlushFails \/ Tick
    BY <1>2, <1>5 DEF FlushStep, FlushBegin, FlushWrite, FlushCommit, FlushPop, FlushFails, Tick
<1>6. CASE QualityNext
    <2>1. ASSUME NEW c \in Copies,
                 Malformed(c) \/ Check(c) \/ Handle(c) \/ Mark(c) \/ CheckFails(c) \/ MarkFails(c)
          PROVE  OnceInv(e)'
        BY <1>1, <2>1, OthersOnce, TaskOnce
    <2> QED BY <1>1, <1>4, <1>5, <1>6, <2>1, CrashOnce DEF QualityNext, TaskStep
<1>7. ASSUME NEW d \in Entries, Arrives(d), UNCHANGED <<record, tallies, doubts>> PROVE OnceInv(e)'
    <2>1. PICK x : pc[x] = "none" /\ pc' = [pc EXCEPT ![x] = "ready"]
        BY <1>7 DEF Arrives
    <2>2. \A n \in 0..MaxCopies : \/ pc'[<<e, n>>] = pc[<<e, n>>]
                                  \/ pc'[<<e, n>>] \notin InTask /\ pc[<<e, n>>] \notin InTask
        BY <1>3, <2>1 DEF InTask, TypeOK, QualityTypeOK
    <2> QED BY <1>1, <1>7, <2>2, QuietOnce
<1>8. ASSUME NEW a \in Admins, Republish(a) \/ RepublishFails(a) PROVE OnceInv(e)'
    <2>1. request[a].entry \in Entries
        BY <1>8, RequestEntry DEF Republish, RepublishFails
    <2>2. UNCHANGED <<record, tallies, doubts>> /\ (pc' = pc \/ Arrives(request[a].entry))
        BY <1>8 DEF Republish, RepublishFails
    <2> QED BY <1>2, <1>7, <2>1, <2>2
<1>9. ASSUME NEW a \in Admins, RetryCommit(a) \/ \E d \in Entries : Retry(a, d) PROVE OnceInv(e)'
    BY <1>2, <1>9 DEF RetryCommit, Retry, qualityVars
<1>10. ASSUME NEW d \in Entries, Discard(d) PROVE OnceInv(e)'
    BY <1>2, <1>10 DEF Discard
<1>11. ASSUME NEW f \in Events, Persist(f) \/ PersistFails(f) PROVE OnceInv(e)'
    BY <1>2, <1>11 DEF Persist, PersistFails, qualityVars
<1> QED BY <1>6, <1>8, <1>9, <1>10, <1>11 DEF Next

----------------------------------------------------------------------------
(* Every further publish of a dead letter is a stray *)

\* How the data quality processor and persistence change the table of dead letters.
LEMMA NewRow ==
    ASSUME TypeOK, QualityNext \/ \E e \in Events : PersistFails(e), dlq' # dlq
    PROVE  \E d \in Entries : dlq[d] = "absent" /\ dlq' = [dlq EXCEPT ![d] = "PENDING"]
<1>1. ASSUME NEW c \in Copies, Malformed(c)
      PROVE  \E d \in Entries : dlq[d] = "absent" /\ dlq' = [dlq EXCEPT ![d] = "PENDING"]
    BY <1>1, DeadLetterRow DEF Malformed
<1>2. ASSUME NEW c \in Copies, AttemptFails(c)
      PROVE  \E d \in Entries : dlq[d] = "absent" /\ dlq' = [dlq EXCEPT ![d] = "PENDING"]
    BY <1>2, AttemptFailsType
<1>3. CASE QualityNext
    <2>1. \E c \in Copies : Malformed(c) \/ AttemptFails(c)
        BY <1>3 DEF QualityNext, TaskStep, Check, Handle, Mark, CheckFails, MarkFails, Commit, Rebalance, FlushStep,
                    FlushBegin, FlushWrite, FlushCommit, FlushPop, FlushFails, Stop, Crash, Tick
    <2> QED BY <1>1, <1>2, <2>1
<1>4. ASSUME NEW e \in Events, PersistFails(e)
      PROVE  \E d \in Entries : dlq[d] = "absent" /\ dlq' = [dlq EXCEPT ![d] = "PENDING"]
    <2>1. <<e, 0>> \in Copies /\ <<e, 0>>[2] = 0
        BY QualityAssumption DEF Copies
    <2> QED BY <1>4, <2>1, DeadLetterRow DEF PersistFails
<1> QED BY <1>3, <1>4

\* A step that leaves the requests alone and at most adds a row.
LEMMA QuietRequests ==
    ASSUME TypeOK, RetryInv, UNCHANGED <<request, republished, strays>>,
           dlq' = dlq \/ \E d \in Entries : dlq[d] = "absent" /\ dlq' = [dlq EXCEPT ![d] = "PENDING"]
    PROVE  RetryInv'
<1>1. \A d \in Entries : dlq'[d] = dlq[d] \/ (dlq[d] = "absent" /\ dlq'[d] = "PENDING")
    BY DEF TypeOK, QualityTypeOK
<1>2. ASSUME NEW a \in Admins PROVE RequestIsReal(a)'
    <2>1. request[a] # Idle => request[a].entry \in Entries
        BY RequestEntry
    <2> QED BY <1>1, <2>1 DEF RetryInv, RequestIsReal
<1>3. \A d \in Entries : dlq'[d] = "RETRIED" => republished'[d] > 0
    BY <1>1 DEF RetryInv
<1>4. ASSUME NEW d \in Entries PROVE EntryIsOrderly(d)'
    <2>1. EntryIsOrderly(d)
        BY DEF RetryInv
    <2>2. AboutToPublish(d)' = AboutToPublish(d) /\ \A a \in Admins : On(a, d)' <=> On(a, d)
        BY DEF AboutToPublish, On
    <2> QED BY <1>1, <2>1, <2>2 DEF EntryIsOrderly
<1> QED BY <1>2, <1>3, <1>4 DEF RetryInv

\* A step about another entry.
LEMMA OtherEntry ==
    ASSUME NEW d \in Entries, EntryIsOrderly(d),
           dlq'[d] = dlq[d], republished'[d] = republished[d], strays'[d] = strays[d],
           \A a \in Admins : request'[a] = request[a] \/ (~On(a, d) /\ ~On(a, d)')
    PROVE  EntryIsOrderly(d)'
<1>1. \A a \in Admins : On(a, d)' <=> On(a, d)
    BY DEF On
<1>2. AboutToPublish(d)' = AboutToPublish(d)
    BY DEF AboutToPublish, On
<1> QED BY <1>1, <1>2 DEF EntryIsOrderly

\* What is known of an entry and a request about to publish it, or not.
LEMMA EntryCount ==
    ASSUME TypeOK, NEW d \in Entries, NEW a \in Admins
    PROVE  /\ republished[d] \in Nat /\ strays[d] \in Nat
           /\ Cardinality(AboutToPublish(d)) \in Nat
           /\ Cardinality(AboutToPublish(d)) = 0 <=> AboutToPublish(d) = {}
           /\ a \in AboutToPublish(d) =>
                /\ Cardinality(AboutToPublish(d)) > 0
                /\ Cardinality(AboutToPublish(d) \ {a}) = Cardinality(AboutToPublish(d)) - 1
           /\ a \notin AboutToPublish(d) =>
                Cardinality(AboutToPublish(d) \cup {a}) = Cardinality(AboutToPublish(d)) + 1
<1>1. IsFiniteSet(AboutToPublish(d))
    BY FS_Subset, ScenarioAssumption DEF AboutToPublish
<1>2. republished[d] \in Nat /\ strays[d] \in Nat
    BY DEF TypeOK
<1> QED BY <1>1, <1>2, Counting

\* retry() reads the entry: what was published is a stray, or somebody is about it.
LEMMA RetryOrderly ==
    ASSUME TypeOK, RetryInv, NEW a \in Admins, NEW x \in Entries, Retry(a, x)
    PROVE  RetryInv'
<1>1. /\ dlq[x] = "PENDING" /\ request[a] = Idle /\ dlq' = dlq /\ republished' = republished
      /\ request'[a] = [step |-> "publish", entry |-> x]
      /\ \A b \in Admins : b # a => request'[b] = request[b]
    BY DEF Retry, TypeOK, qualityVars
<1>2. request'[a] # Idle /\ request'[a].entry = x /\ request'[a].step = "publish"
    BY <1>1 DEF Idle
<1>3. /\ \A d \in Entries : d # x => strays'[d] = strays[d]
      /\ strays'[x] = IF Others(a, x) THEN strays[x] + 1 ELSE strays[x]
    BY DEF Retry, Stray, TypeOK
<1>4. \A b \in Admins : RequestIsReal(b)'
    BY <1>1, <1>2 DEF RetryInv, RequestIsReal
<1>5. ASSUME NEW d \in Entries, d # x PROVE EntryIsOrderly(d)'
    <2>1. \A b \in Admins : request'[b] = request[b] \/ (~On(b, d) /\ ~On(b, d)')
        BY <1>1, <1>2, <1>5 DEF On
    <2> QED BY <1>1, <1>3, <1>5, <2>1, OtherEntry DEF RetryInv
<1>6. EntryIsOrderly(x)'
    <2>1. AboutToPublish(x)' = AboutToPublish(x) \cup {a} /\ a \notin AboutToPublish(x) /\ On(a, x)'
        BY <1>1, <1>2 DEF AboutToPublish, On
    <2>2. Cardinality(AboutToPublish(x)') = Cardinality(AboutToPublish(x)) + 1
        BY <2>1, EntryCount
    <2>3. ~Others(a, x) => \A b \in Admins : ~On(b, x)
        BY <1>1 DEF Others, On
    <2>4. ~Others(a, x) => Cardinality(AboutToPublish(x)) = 0
        BY <2>3, EntryCount DEF AboutToPublish
    <2>5. EntryIsOrderly(x) /\ republished[x] \in Nat /\ strays[x] \in Nat /\ Cardinality(AboutToPublish(x)) \in Nat
        BY EntryCount DEF RetryInv
    <2> QED BY <1>1, <1>3, <2>1, <2>2, <2>3, <2>4, <2>5 DEF EntryIsOrderly
<1>7. \A d \in Entries : EntryIsOrderly(d)'
    BY <1>5, <1>6
<1> QED BY <1>1, <1>4, <1>7 DEF RetryInv

\* The publish of retry(), and its failure before or after the broker has it.
LEMMA RepublishOrderly ==
    ASSUME TypeOK, RetryInv, NEW a \in Admins, Republish(a) \/ RepublishFails(a)
    PROVE  RetryInv'
<1>1. request[a] # Idle /\ request[a].step = "publish" /\ dlq' = dlq
    BY DEF Republish, RepublishFails
<1>2. request[a] \in [step: {"publish", "commit"}, entry: Entries]
    BY <1>1, RequestEntry
<1>3. PICK x \in Entries : request[a].entry = x
    BY <1>2
<1>4. \A b \in Admins : b # a => request'[b] = request[b]
    BY DEF Republish, RepublishFails, TypeOK
<1>5. /\ \A d \in Entries : republished[d] \in Nat /\ strays[d] \in Nat
      /\ \A d \in Entries : d # x => republished'[d] = republished[d] /\ strays'[d] = strays[d]
    BY <1>3 DEF Republish, RepublishFails, Arrives, Stray, TypeOK
<1>6. \/ /\ request'[a] # Idle /\ request'[a].step = "commit" /\ request'[a].entry = x
         /\ republished'[x] = republished[x] + 1 /\ strays'[x] = strays[x]
      \/ /\ request'[a] = Idle
         /\ \/ republished'[x] = republished[x] /\ strays'[x] = strays[x]
            \/ republished'[x] = republished[x] + 1 /\ strays'[x] = strays[x] + 1
    <2>1. CASE Republish(a)
        <3>1. request'[a] = [request[a] EXCEPT !.step = "commit"] /\ republished'[x] = republished[x] + 1 /\ strays' = strays
            BY <1>2, <1>3, <2>1 DEF Republish, Arrives, TypeOK
        <3>2. request'[a].step = "commit" /\ request'[a].entry = x
            BY <1>2, <1>3, <3>1
        <3>3. Idle.step = "idle"
            BY DEF Idle
        <3> QED BY <3>1, <3>2, <3>3
    <2>2. CASE RepublishFails(a)
        <3>1. request'[a] = Idle
            BY <2>2 DEF RepublishFails, TypeOK
        <3>2. \/ republished' = republished /\ strays' = strays
              \/ republished' = [republished EXCEPT ![x] = @ + 1] /\ strays' = [strays EXCEPT ![x] = @ + 1]
            BY <1>3, <2>2 DEF RepublishFails, Arrives, Stray
        <3> QED BY <3>1, <3>2 DEF TypeOK
    <2> QED BY <2>1, <2>2
<1>7. \A d \in Entries : republished[d] > 0 => republished'[d] > 0
    BY <1>5, <1>6
<1>8. ASSUME NEW b \in Admins PROVE RequestIsReal(b)'
    <2>1. CASE b = a
        BY <1>1, <1>3, <1>5, <1>6, <2>1 DEF RetryInv, RequestIsReal
    <2>2. CASE b # a
        <3>1. RequestIsReal(b) /\ request'[b] = request[b]
            BY <1>4, <2>2 DEF RetryInv
        <3>2. request[b] # Idle => request[b].entry \in Entries
            BY RequestEntry
        <3> QED BY <1>1, <1>7, <3>1, <3>2 DEF RequestIsReal
    <2> QED BY <2>1, <2>2
<1>9. \A d \in Entries : dlq'[d] = "RETRIED" => republished'[d] > 0
    BY <1>1, <1>7 DEF RetryInv
<1>10. ASSUME NEW d \in Entries, d # x PROVE EntryIsOrderly(d)'
    <2>1. ~On(a, d) /\ ~On(a, d)'
        BY <1>3, <1>6, <1>10 DEF On
    <2>2. \A b \in Admins : request'[b] = request[b] \/ (~On(b, d) /\ ~On(b, d)')
        BY <1>4, <2>1
    <2> QED BY <1>1, <1>5, <1>10, <2>2, OtherEntry DEF RetryInv
<1>11. EntryIsOrderly(x)'
    <2>1. a \in AboutToPublish(x)
        BY <1>1, <1>3 DEF AboutToPublish, On
    <2>2. AboutToPublish(x)' = AboutToPublish(x) \ {a}
        <3>1. a \notin AboutToPublish(x)'
            BY <1>6 DEF AboutToPublish, On
        <3>2. \A b \in Admins : b # a => (b \in AboutToPublish(x)' <=> b \in AboutToPublish(x))
            BY <1>4 DEF AboutToPublish, On
        <3>3. AboutToPublish(x)' \subseteq Admins /\ AboutToPublish(x) \subseteq Admins
            BY DEF AboutToPublish
        <3> QED BY <3>1, <3>2, <3>3
    <2>3. Cardinality(AboutToPublish(x)') = Cardinality(AboutToPublish(x)) - 1
        BY <2>1, <2>2, EntryCount
    <2>4. Cardinality(AboutToPublish(x)) \in Nat \ {0}
        BY <2>1, EntryCount
    <2>5. republished[x] + Cardinality(AboutToPublish(x)) <= 1 + strays[x]
        BY DEF RetryInv, EntryIsOrderly
    <2>6. republished'[x] + Cardinality(AboutToPublish(x)') <= 1 + strays'[x]
        BY <1>5, <1>6, <2>3, <2>4, <2>5
    <2>7. request'[a] = Idle => republished'[x] <= strays'[x]
        BY <1>5, <1>6, <2>4, <2>5
    <2>8. request'[a] # Idle => On(a, x)'
        BY <1>6 DEF On
    <2> QED BY <2>6, <2>7, <2>8 DEF EntryIsOrderly
<1>12. \A d \in Entries : EntryIsOrderly(d)'
    BY <1>10, <1>11
<1> QED BY <1>8, <1>9, <1>12 DEF RetryInv

\* The commit of retry(), and its failure, which is a stray.
LEMMA CommitOrderly ==
    ASSUME TypeOK, RetryInv, NEW a \in Admins, RetryCommit(a)
    PROVE  RetryInv'
<1>1. request[a] # Idle /\ request[a].step = "commit" /\ republished' = republished
    BY DEF RetryCommit
<1>2. PICK x \in Entries : request[a].entry = x
    BY <1>1, RequestEntry
<1>3. request'[a] = Idle /\ \A b \in Admins : b # a => request'[b] = request[b]
    BY DEF RetryCommit, TypeOK
<1>4. /\ \/ dlq'[x] = "RETRIED" /\ strays'[x] = strays[x]
         \/ dlq'[x] = dlq[x] /\ strays'[x] = strays[x] + 1
      /\ \A d \in Entries : d # x => dlq'[d] = dlq[d] /\ strays'[d] = strays[d]
    <2>1. \/ dlq' = [dlq EXCEPT ![x] = "RETRIED"] /\ strays' = strays
          \/ dlq' = dlq /\ strays' = [strays EXCEPT ![x] = @ + 1]
        BY <1>2 DEF RetryCommit, Stray
    <2> QED BY <2>1 DEF TypeOK, QualityTypeOK
<1>5. dlq[x] # "absent" /\ republished[x] > 0
    BY <1>1, <1>2 DEF RetryInv, RequestIsReal
<1>6. ASSUME NEW b \in Admins PROVE RequestIsReal(b)'
    <2>1. RequestIsReal(b) /\ (request[b] # Idle => request[b].entry \in Entries)
        BY RequestEntry DEF RetryInv
    <2> QED BY <1>1, <1>3, <1>4, <1>5, <2>1 DEF RequestIsReal
<1>7. \A d \in Entries : dlq'[d] = "RETRIED" => republished'[d] > 0
    BY <1>1, <1>4, <1>5 DEF RetryInv
<1>8. ASSUME NEW d \in Entries, d # x PROVE EntryIsOrderly(d)'
    <2>1. \A b \in Admins : request'[b] = request[b] \/ (~On(b, d) /\ ~On(b, d)')
        BY <1>2, <1>3, <1>8 DEF On
    <2> QED BY <1>1, <1>4, <1>8, <2>1, OtherEntry DEF RetryInv
<1>9. EntryIsOrderly(x)'
    <2>1. AboutToPublish(x)' = AboutToPublish(x)
        BY <1>1, <1>3 DEF AboutToPublish, On
    <2>2. republished[x] \in Nat /\ strays[x] \in Nat /\ Cardinality(AboutToPublish(x)) \in Nat
        BY EntryCount
    <2>3. republished[x] + Cardinality(AboutToPublish(x)) <= 1 + strays[x]
        BY DEF RetryInv, EntryIsOrderly
    <2> QED BY <1>1, <1>4, <2>1, <2>2, <2>3 DEF EntryIsOrderly
<1>10. \A d \in Entries : EntryIsOrderly(d)'
    BY <1>8, <1>9
<1> QED BY <1>6, <1>7, <1>10 DEF RetryInv

\* discard() changes the status only.
LEMMA DiscardOrderly ==
    ASSUME TypeOK, RetryInv, NEW x \in Entries, Discard(x)
    PROVE  RetryInv'
<1>1. /\ UNCHANGED <<request, republished, strays>> /\ dlq[x] # "absent" /\ dlq'[x] = "DISCARDED"
      /\ \A d \in Entries : d # x => dlq'[d] = dlq[d]
    BY DEF Discard, TypeOK, QualityTypeOK
<1>2. ASSUME NEW b \in Admins PROVE RequestIsReal(b)'
    <2>1. RequestIsReal(b) /\ (request[b] # Idle => request[b].entry \in Entries)
        BY RequestEntry DEF RetryInv
    <2> QED BY <1>1, <2>1 DEF RequestIsReal
<1>3. \A d \in Entries : dlq'[d] = "RETRIED" => republished'[d] > 0
    BY <1>1 DEF RetryInv
<1>4. ASSUME NEW d \in Entries PROVE EntryIsOrderly(d)'
    <2>1. EntryIsOrderly(d)
        BY DEF RetryInv
    <2>2. AboutToPublish(d)' = AboutToPublish(d) /\ \A a \in Admins : On(a, d)' <=> On(a, d)
        BY <1>1 DEF AboutToPublish, On
    <2> QED BY <1>1, <2>1, <2>2 DEF EntryIsOrderly
<1> QED BY <1>2, <1>3, <1>4 DEF RetryInv

\* Every step keeps the requests in order.
LEMMA RetryNext ==
    ASSUME TypeOK, RetryInv, Next PROVE RetryInv'
<1>1. ASSUME QualityNext, UNCHANGED <<adminVars, storeVars>> PROVE RetryInv'
    BY <1>1, NewRow, QuietRequests DEF adminVars
<1>2. ASSUME NEW e \in Events, Persist(e) PROVE RetryInv'
    BY <1>2, QuietRequests DEF Persist, qualityVars, adminVars
<1>3. ASSUME NEW e \in Events, PersistFails(e) PROVE RetryInv'
    BY <1>3, NewRow, QuietRequests DEF PersistFails, adminVars
<1> QED BY <1>1, <1>2, <1>3, RetryOrderly, RepublishOrderly, CommitOrderly, DiscardOrderly DEF Next

----------------------------------------------------------------------------
(* What is in no total was given up, or its raw copy came first *)

\* Rows of dead_letter_events are not deleted.
LEMMA RowsStay ==
    ASSUME TypeOK, Next, NEW d \in Entries, dlq[d] # "absent" PROVE dlq'[d] # "absent"
<1>1. CASE QualityNext \/ \E f \in Events : PersistFails(f)
    BY <1>1, NewRow DEF TypeOK, QualityTypeOK
<1>2. ASSUME NEW x \in Entries, Discard(x) PROVE dlq'[d] # "absent"
    BY <1>2 DEF Discard, TypeOK, QualityTypeOK
<1>3. ASSUME NEW a \in Admins, RetryCommit(a) PROVE dlq'[d] # "absent"
    BY <1>3 DEF RetryCommit, TypeOK, QualityTypeOK
<1>4. ASSUME NEW a \in Admins, Republish(a) \/ RepublishFails(a) \/ \E x \in Entries : Retry(a, x)
      PROVE  dlq' = dlq
    BY <1>4 DEF Republish, RepublishFails, Retry, qualityVars
<1>5. ASSUME NEW f \in Events, Persist(f) PROVE dlq' = dlq
    BY <1>5 DEF Persist, qualityVars
<1> QED BY <1>1, <1>2, <1>3, <1>4, <1>5 DEF Next

\* Nor does the processor take back what it gave up.
LEMMA GaveUpStays ==
    ASSUME TypeOK, Next, NEW e \in Events, GaveUp(e) PROVE GaveUp(e)'
<1>1. PICK n \in 0..MaxCopies, k \in 0..MaxFaults : dlq[<<"dataquality", e, n, k>>] # "absent"
    BY DEF GaveUp
<1>2. <<"dataquality", e, n, k>> \in Entries
    BY DEF Entries
<1>3. dlq'[<<"dataquality", e, n, k>>] # "absent"
    BY <1>1, <1>2, RowsStay
<1> QED BY <1>3 DEF GaveUp

\* _to_dlq() inserts the row of its message.
LEMMA DeadLetterGivesUp ==
    ASSUME TypeOK, NEW c \in Copies, DeadLetter("dataquality", c) PROVE GaveUp(c[1])'
<1>1. PICK n \in 0..MaxFaults : dlq' = [dlq EXCEPT ![<<"dataquality", c[1], c[2], n>>] = "PENDING"]
    BY DEF DeadLetter
<1>2. <<"dataquality", c[1], c[2], n>> \in Entries /\ c[2] \in 0..MaxCopies
    BY CopyType DEF Entries
<1>3. dlq'[<<"dataquality", c[1], c[2], n>>] = "PENDING"
    BY <1>1, <1>2 DEF TypeOK, QualityTypeOK
<1> QED BY <1>2, <1>3 DEF GaveUp

\* A step that neither marks, finishes nor fails a copy of the event.
LEMMA QuietSeen ==
    ASSUME TypeOK, NEW e \in Events, SeenInv(e), GaveUp(e) => GaveUp(e)',
           tallies'[e] = tallies[e], record'[e] = record[e],
           \A n \in 0..MaxCopies :
               \/ pc'[<<e, n>>] = pc[<<e, n>>]
               \/ pc'[<<e, n>>] \notin {"mark", "done", "committed"}
               \/ pc[<<e, n>>] = "done" /\ pc'[<<e, n>>] = "committed"
    PROVE  SeenInv(e)'
<1>1. Uncounted(e)' <=> Uncounted(e)
    BY DEF Uncounted, Delta, Flags
<1>2. \A n \in 0..MaxCopies : pc'[<<e, n>>] = "mark" => pc[<<e, n>>] = "mark"
    OBVIOUS
<1>3. 0 \in 0..MaxCopies
    BY QualityAssumption
<1>4. pc'[<<e, 0>>] \in {"done", "committed"} => pc[<<e, 0>>] \in {"done", "committed"}
    BY <1>3
<1> QED BY <1>1, <1>2, <1>4 DEF SeenInv

\* What a copy adds: one of events.validated always, the others as the first does.
LEMMA DeltaSeen ==
    ASSUME NEW c \in Copies
    PROVE  /\ Delta(c)["total"] \in {0, 1}
           /\ Delta(c)["total"] = 0 => c[2] # 0 /\ Uncounted(c[1])
<1>1. "total" \in CountKeys
    BY DEF CountKeys
<1>2. ASSUME c[2] = 0 PROVE Delta(c)["total"] = 1
    BY <1>1, <1>2 DEF Delta, OnValidated
<1>3. ASSUME c[2] # 0, Delta(c)["total"] = 0 PROVE Uncounted(c[1])
    <2>1. Flags(c[1]) \ {"late_events"} = {}
        BY <1>1, <1>3 DEF Delta, OnValidated
    <2> QED BY <2>1 DEF Uncounted, Delta, OnValidated
<1> QED BY <1>2, <1>3, DeltaType

\* The steps of a task: it marks what it has handled, and fails into a dead letter.
LEMMA TaskSeen ==
    ASSUME TypeOK, Next, NEW e \in Events, SeenInv(e), NEW c \in Copies, e = c[1],
           Malformed(c) \/ Check(c) \/ Handle(c) \/ Mark(c) \/ CheckFails(c) \/ MarkFails(c)
    PROVE  SeenInv(e)'
<1> DEFINE k == c[2]
<1>1. c = <<e, k>> /\ k \in 0..MaxCopies
    BY CopyType
<1>2. \A n \in 0..MaxCopies : <<e, n>> \in Copies /\ (n # k => <<e, n>> # c)
    BY <1>1 DEF Copies
<1>3. Uncounted(e)' <=> Uncounted(e)
    BY DEF Uncounted, Delta, Flags
<1>4. GaveUp(e) => GaveUp(e)'
    BY GaveUpStays
<1>5. /\ record[e] = "processed" => tallies[e] > 0 \/ Uncounted(e)
      /\ record[e] = "failed" => GaveUp(e)
      /\ \A n \in 0..MaxCopies : pc[<<e, n>>] = "mark" => tallies[e] > 0 \/ (n # 0 /\ Uncounted(e))
      /\ pc[<<e, 0>>] \in {"done", "committed"} => tallies[e] > 0 \/ record[e] = "processed" \/ GaveUp(e)
    BY DEF SeenInv
<1>6. tallies[e] \in Nat /\ 0 \in 0..MaxCopies
    BY QualityAssumption DEF TypeOK, QualityTypeOK
<1>7. ASSUME NEW st, pc' = [pc EXCEPT ![c] = st]
      PROVE  pc'[<<e, k>>] = st /\ \A n \in 0..MaxCopies : n # k => pc'[<<e, n>>] = pc[<<e, n>>]
    BY <1>1, <1>2, <1>7 DEF TypeOK, QualityTypeOK
<1> HIDE DEF k
<1>8. CASE Malformed(c)
    <2>1. GaveUp(e)' /\ tallies' = tallies /\ record' = record
        BY <1>8, DeadLetterGivesUp DEF Malformed, onceVars
    <2>2. pc'[<<e, k>>] = "done" /\ \A n \in 0..MaxCopies : n # k => pc'[<<e, n>>] = pc[<<e, n>>]
        BY <1>7, <1>8 DEF Malformed
    <2> QED BY <1>3, <1>5, <2>1, <2>2 DEF SeenInv
<1>9. CASE Check(c)
    <2>1. tallies' = tallies /\ record' = record
        BY <1>9 DEF Check
    <2>2. /\ pc'[<<e, k>>] = IF record[e] = "processed" THEN "done" ELSE "handle"
          /\ \A n \in 0..MaxCopies : n # k => pc'[<<e, n>>] = pc[<<e, n>>]
        BY <1>7, <1>9 DEF Check
    <2>3. \A n \in 0..MaxCopies : pc'[<<e, n>>] = "mark" => pc[<<e, n>>] = "mark"
        BY <2>2
    <2>4. pc'[<<e, 0>>] \in {"done", "committed"} =>
            pc[<<e, 0>>] \in {"done", "committed"} \/ record[e] = "processed"
        BY <1>6, <2>2
    <2> QED BY <1>3, <1>4, <1>5, <2>1, <2>3, <2>4 DEF SeenInv
<1>10. CASE Handle(c)
    <2>1. record' = record /\ tallies'[e] = tallies[e] + Delta(c)["total"]
        BY <1>10 DEF Handle, TypeOK, QualityTypeOK
    <2>2. pc'[<<e, k>>] = "mark" /\ \A n \in 0..MaxCopies : n # k => pc'[<<e, n>>] = pc[<<e, n>>]
        BY <1>7, <1>10 DEF Handle
    <2>3. tallies[e] > 0 => tallies'[e] > 0
        BY <1>6, <2>1, DeltaSeen
    <2>4. tallies'[e] > 0 \/ (k # 0 /\ Uncounted(e))
        BY <1>6, <2>1, DeltaSeen DEF k
    <2>5. \A n \in 0..MaxCopies : pc'[<<e, n>>] = "mark" => n = k \/ pc[<<e, n>>] = "mark"
        BY <2>2
    <2>6. \A n \in 0..MaxCopies :
            pc'[<<e, n>>] = "mark" => tallies'[e] > 0 \/ (n # 0 /\ Uncounted(e))
        BY <1>5, <2>3, <2>4, <2>5
    <2>7. pc'[<<e, 0>>] \in {"done", "committed"} => pc[<<e, 0>>] \in {"done", "committed"}
        BY <1>6, <2>2
    <2> QED BY <1>3, <1>4, <1>5, <2>1, <2>3, <2>6, <2>7 DEF SeenInv
<1>11. CASE Mark(c)
    <2>1. tallies' = tallies /\ record'[e] = "processed" /\ pc[<<e, k>>] = "mark"
        BY <1>1, <1>11 DEF Mark, onceVars, TypeOK, QualityTypeOK
    <2>2. pc'[<<e, k>>] = "done" /\ \A n \in 0..MaxCopies : n # k => pc'[<<e, n>>] = pc[<<e, n>>]
        BY <1>7, <1>11 DEF Mark
    <2> QED BY <1>1, <1>3, <1>4, <1>5, <2>1, <2>2 DEF SeenInv
<1>12. CASE CheckFails(c) \/ MarkFails(c)
    <2>1. tallies' = tallies /\ AttemptFails(c)
        BY <1>12 DEF CheckFails, MarkFails
    <2>2. attempt[c] < MaxAttempts \/ GaveUp(e)'
        BY <2>1, DeadLetterGivesUp DEF AttemptFails
    <2>3. /\ pc'[<<e, k>>] = IF attempt[c] < MaxAttempts THEN "ready" ELSE "done"
          /\ \A n \in 0..MaxCopies : n # k => pc'[<<e, n>>] = pc[<<e, n>>]
        BY <1>7, <2>1 DEF AttemptFails
    <2>4. \/ record'[e] = record[e]
          \/ record'[e] = "processed" /\ pc[<<e, k>>] = "mark"
          \/ record'[e] = "failed" /\ ~(attempt[c] < MaxAttempts)
        BY <1>1, <1>12 DEF CheckFails, MarkFails, Becomes, MayBecome, TypeOK, QualityTypeOK
    <2>5. record'[e] = "processed" => tallies'[e] > 0 \/ Uncounted(e)
        BY <1>1, <1>5, <2>1, <2>4
    <2>6. record'[e] = "failed" => GaveUp(e)'
        BY <1>4, <1>5, <2>2, <2>4
    <2>7. pc'[<<e, 0>>] \in {"done", "committed"} =>
            tallies'[e] > 0 \/ record'[e] = "processed" \/ GaveUp(e)'
        <3>1. CASE GaveUp(e)'
            BY <3>1
        <3>2. CASE ~GaveUp(e)'
            <4>1. attempt[c] < MaxAttempts /\ ~GaveUp(e)
                BY <1>4, <2>2, <3>2
            <4>2. pc'[<<e, 0>>] \in {"done", "committed"} => pc[<<e, 0>>] \in {"done", "committed"}
                BY <1>6, <2>3, <4>1
            <4> QED BY <1>5, <2>1, <2>4, <4>1, <4>2
        <3> QED BY <3>1, <3>2
    <2>8. \A n \in 0..MaxCopies : pc'[<<e, n>>] = "mark" => pc[<<e, n>>] = "mark"
        BY <2>3
    <2> QED BY <1>3, <1>5, <2>1, <2>5, <2>6, <2>7, <2>8 DEF SeenInv
<1> QED BY <1>8, <1>9, <1>10, <1>11, <1>12

\* Every step keeps it.
LEMMA SeenNext ==
    ASSUME TypeOK, \A e \in Events : SeenInv(e), Next
    PROVE  \A e \in Events : SeenInv(e)'
<1> SUFFICES ASSUME NEW e \in Events PROVE SeenInv(e)'
    OBVIOUS
<1> USE DEF taskVars, onceVars, flushVars
<1>1. SeenInv(e) /\ (GaveUp(e) => GaveUp(e)')
    BY GaveUpStays
<1>2. ASSUME UNCHANGED <<pc, record, tallies>> PROVE SeenInv(e)'
    BY <1>1, <1>2, QuietSeen
<1>3. \A n \in 0..MaxCopies : <<e, n>> \in Copies
    BY DEF Copies
<1>4. CASE Commit \/ Stop \/ Rebalance \/ Crash
    <2>1. UNCHANGED <<record, tallies>>
        BY <1>4 DEF Commit, Stop, Rebalance, Crash
    <2>2. \A x \in Copies : \/ pc'[x] = pc[x]
                            \/ pc'[x] = "ready"
                            \/ pc[x] = "done" /\ pc'[x] = "committed"
        BY <1>4 DEF Commit, Stop, Rebalance, Crash, CommitDone
    <2> QED BY <1>1, <1>3, <2>1, <2>2, QuietSeen
<1>5. CASE FlushStep \/ FlushFails \/ Tick
    BY <1>2, <1>5 DEF FlushStep, FlushBegin, FlushWrite, FlushCommit, FlushPop, FlushFails, Tick
<1>6. CASE QualityNext
    <2>1. ASSUME NEW c \in Copies, c[1] # e,
                 Malformed(c) \/ Check(c) \/ Handle(c) \/ Mark(c) \/ CheckFails(c) \/ MarkFails(c)
          PROVE  SeenInv(e)'
        <3>1. tallies'[e] = tallies[e]
            BY <2>1, CopyType DEF Malformed, Check, Handle, Mark, CheckFails, MarkFails, TypeOK, QualityTypeOK
        <3>2. record'[e] = record[e]
            BY <2>1, CopyType DEF Malformed, Check, Handle, Mark, CheckFails, MarkFails, Becomes, TypeOK, QualityTypeOK
        <3>3. \A x \in Copies : x # c => pc'[x] = pc[x]
            <4>1. CASE CheckFails(c) \/ MarkFails(c)
                BY <4>1, AttemptFailsType DEF CheckFails, MarkFails, TypeOK, QualityTypeOK
            <4>2. CASE Malformed(c) \/ Check(c) \/ Handle(c) \/ Mark(c)
                BY <4>2 DEF Malformed, Check, Handle, Mark, TypeOK, QualityTypeOK
            <4> QED BY <2>1, <4>1, <4>2
        <3>4. \A n \in 0..MaxCopies : pc'[<<e, n>>] = pc[<<e, n>>]
            BY <2>1, <3>3, OtherCopies
        <3> QED BY <1>1, <3>1, <3>2, <3>4, QuietSeen
    <2>2. ASSUME NEW c \in Copies,
                 Malformed(c) \/ Check(c) \/ Handle(c) \/ Mark(c) \/ CheckFails(c) \/ MarkFails(c)
          PROVE  SeenInv(e)'
        BY <1>1, <2>1, <2>2, TaskSeen
    <2> QED BY <1>4, <1>5, <1>6, <2>2 DEF QualityNext, TaskStep
<1>7. ASSUME NEW d \in Entries, Arrives(d), UNCHANGED <<record, tallies>> PROVE SeenInv(e)'
    <2>1. PICK x : pc' = [pc EXCEPT ![x] = "ready"]
        BY <1>7 DEF Arrives
    <2>2. \A n \in 0..MaxCopies : pc'[<<e, n>>] = pc[<<e, n>>] \/ pc'[<<e, n>>] = "ready"
        BY <1>3, <2>1 DEF TypeOK, QualityTypeOK
    <2> QED BY <1>1, <1>7, <2>2, QuietSeen
<1>8. ASSUME NEW a \in Admins, Republish(a) \/ RepublishFails(a) PROVE SeenInv(e)'
    <2>1. request[a].entry \in Entries
        BY <1>8, RequestEntry DEF Republish, RepublishFails
    <2>2. UNCHANGED <<record, tallies>> /\ (pc' = pc \/ Arrives(request[a].entry))
        BY <1>8 DEF Republish, RepublishFails
    <2> QED BY <1>2, <1>7, <2>1, <2>2
<1>9. ASSUME NEW a \in Admins, RetryCommit(a) \/ \E d \in Entries : Retry(a, d) PROVE SeenInv(e)'
    BY <1>2, <1>9 DEF RetryCommit, Retry, qualityVars
<1>10. ASSUME NEW d \in Entries, Discard(d) PROVE SeenInv(e)'
    BY <1>2, <1>10 DEF Discard
<1>11. ASSUME NEW f \in Events, Persist(f) \/ PersistFails(f) PROVE SeenInv(e)'
    BY <1>2, <1>11 DEF Persist, PersistFails, qualityVars
<1> QED BY <1>6, <1>8, <1>9, <1>10, <1>11 DEF Next

----------------------------------------------------------------------------
(* The inductive invariant *)

\* The initial states satisfy it.
LEMMA IndInit == Init => IndInv
<1> SUFFICES ASSUME Init PROVE IndInv
    OBVIOUS
<1>1. PICK s \in Scenarios :
        /\ QualityInit(s.submitted) /\ calls = s.calls
        /\ unstored = {e \in s.submitted : Accepted(e)}
    BY DEF Init
<1>2. s.submitted \in SUBSET Events /\ s.calls \in Nat
    BY ScenarioAssumption
<1>3. NoCounts \in Counts
    BY DEF NoCounts, Counts
<1>4. QualityTypeOK
    BY <1>1, <1>3, IdleFlushType, QualityAssumption DEF QualityInit, QualityTypeOK
<1>5. TypeOK
    BY <1>1, <1>2, <1>4 DEF Init, TypeOK
<1>6. /\ open = {} /\ flush = IdleFlush /\ \A b \in Buckets : acc[b] = NoCounts /\ rows[b] = NoCounts /\ counted[b] = NoCounts
    BY <1>1 DEF QualityInit
<1>7. DOMAIN flush.snap = {} /\ flush.keys = {} /\ flush.phase = "idle"
    BY <1>6, IdleFlushType DEF IdleFlush
<1>8. ExactInv
    BY <1>6, <1>7 DEF ExactInv, FlushIsWithin, MemoryIsOpen, BucketIsExact
<1>9. ASSUME NEW e \in Events PROVE OnceInv(e)
    <2>1. /\ tallies[e] = 0 /\ doubts[e] = 0
          /\ \A n \in 0..MaxCopies : pc[<<e, n>>] \notin InTask
        BY <1>1 DEF QualityInit, Copies, InTask
    <2>2. AboutToCount(e) = {}
        BY <2>1 DEF AboutToCount, InTask
    <2> QED BY <2>1, <2>2, FS_EmptySet DEF OnceInv
<1>12. ASSUME NEW e \in Events PROVE SeenInv(e)
    <2>1. record[e] = "none" /\ \A n \in 0..MaxCopies : pc[<<e, n>>] \in {"ready", "none"}
        BY <1>1 DEF QualityInit, Copies
    <2>2. 0 \in 0..MaxCopies
        BY QualityAssumption
    <2> QED BY <2>1, <2>2 DEF SeenInv
<1>10. NothingInvented
    BY <1>3, <1>6, <1>7 DEF NothingInvented, Counts
<1>11. RetryInv
    <2>1. /\ \A a \in Admins : request[a] = Idle
          /\ \A d \in Entries : republished[d] = 0 /\ strays[d] = 0 /\ dlq[d] # "RETRIED"
        BY <1>1 DEF Init, QualityInit
    <2>2. \A d \in Entries : AboutToPublish(d) = {}
        BY <2>1 DEF AboutToPublish, On
    <2>3. Cardinality({}) = 0
        BY FS_EmptySet
    <2> QED BY <2>1, <2>2, <2>3 DEF RetryInv, RequestIsReal, EntryIsOrderly
<1> QED BY <1>5, <1>8, <1>9, <1>10, <1>11, <1>12 DEF IndInv

\* Every step keeps it.
LEMMA IndNext == IndInv /\ [Next]_vars => IndInv'
<1>1. ASSUME IndInv, Next PROVE IndInv'
    BY <1>1, TypeNext, ExactNext, InventedNext, OnceNext, SeenNext, RetryNext DEF IndInv
<1>2. ASSUME IndInv, UNCHANGED vars PROVE IndInv'
    <2> USE <1>2 DEF IndInv, vars, qualityVars, adminVars, storeVars, taskVars, flushVars, onceVars, envVars
    <2>1. TypeOK'
        BY DEF TypeOK, QualityTypeOK
    <2>2. ExactInv'
        BY QuietCounts
    <2>3. NothingInvented'
        BY QuietInvented
    <2>4. \A e \in Events : OnceInv(e)'
        BY QuietOnce
    <2>5. RetryInv'
        BY QuietRequests
    <2>6. \A e \in Events : SeenInv(e)'
        BY QuietSeen DEF GaveUp
    <2> QED BY <2>1, <2>2, <2>3, <2>4, <2>5, <2>6
<1> QED BY <1>1, <1>2

LEMMA Invariance == Spec => []IndInv
BY IndInit, IndNext, PTL DEF Spec

----------------------------------------------------------------------------
(* The theorems *)

\* _flush() and score_from_counts(): a row never says more than was counted, outside
\* the windows of loss a bucket that has left memory has exactly its events in its
\* row, and the rounded sub-scores of a bucket of fewer than 10000 events are lowered
\* by every flag in the row and by nothing else.
THEOREM CountsExactness == Spec => []RowsAreExact
<1>1. IndInv => RowsAreExact
    <2> SUFFICES ASSUME IndInv PROVE RowsAreExact
        OBVIOUS
    <2>1. \A b \in Buckets \ (open \cup spoiled) : rows[b] = counted[b]
        BY DEF IndInv, ExactInv, BucketIsExact
    <2>2. \A b \in Buckets : rows[b] \in Counts
        BY DEF IndInv, TypeOK, QualityTypeOK
    <2>3. \A b \in Buckets : \A k \in CountKeys : rows[b][k] <= counted[b][k]
        BY DEF IndInv, NothingInvented
    <2> QED BY <2>1, <2>2, <2>3, ScoresTellFlags DEF RowsAreExact
<1> QED BY <1>1, Invariance, PTL

\* already_processed() before handle(), mark_processed() after it: over the copies of
\* an event on both topics, redeliveries and retried dead letters, every count after
\* the first has a doubt of its own, and an event that was consumed from events.validated
\* without a count was given up or hidden by its raw copy.
THEOREM CountedOnceSafety == Spec => []CountedOnce
<1>1. IndInv => CountedOnce
    <2> SUFFICES ASSUME IndInv, NEW e \in Events
                 PROVE  /\ tallies[e] <= 1 + doubts[e]
                        /\ pc[<<e, 0>>] = "committed" /\ tallies[e] = 0 =>
                              GaveUp(e) \/ (record[e] = "processed" /\ Uncounted(e))
        BY DEF CountedOnce
    <2>1. tallies[e] \in Nat /\ doubts[e] \in Nat /\ Cardinality(AboutToCount(e)) \in Nat
        BY FiniteCopies, FS_CardinalityType DEF IndInv, TypeOK, QualityTypeOK
    <2>2. tallies[e] <= 1 + doubts[e]
        BY <2>1 DEF IndInv, OnceInv
    <2>3. SeenInv(e)
        BY DEF IndInv
    <2> QED BY <2>1, <2>2, <2>3 DEF SeenInv
<1> QED BY <1>1, Invariance, PTL

\* retry() publishes before it commits: a row that says RETRIED was published, and
\* every publish after the first has a stray request of its own.
THEOREM RetrySafety == Spec => []RetryPublishesOnce
<1>1. IndInv => RetryPublishesOnce
    <2> SUFFICES ASSUME IndInv, NEW d \in Entries PROVE republished[d] <= 1 + strays[d]
        BY DEF RetryPublishesOnce, IndInv, RetryInv
    <2>1. AboutToPublish(d) \in SUBSET Admins
        BY DEF AboutToPublish
    <2>2. republished[d] \in Nat /\ strays[d] \in Nat
        BY DEF IndInv, TypeOK
    <2>3. Cardinality(AboutToPublish(d)) \in Nat
        BY <2>1, FS_Subset, FS_CardinalityType, ScenarioAssumption
    <2> QED BY <2>2, <2>3 DEF IndInv, RetryInv, EntryIsOrderly
<1> QED BY <1>1, Invariance, PTL
=============================================================================
