-------------------------- MODULE AnalyticsProofs --------------------------
(***************************************************************************)
(* Proofs about Analytics: what is durable was counted and no attempt is   *)
(* counted twice; one process lowers a row only after its counter expired; *)
(* and a graceful stop leaves no bucket without a row when the stores      *)
(* answer.                                                                 *)
(***************************************************************************)
EXTENDS Analytics, FiniteSetTheorems, WellFoundedInduction, TLAPS

----------------------------------------------------------------------------
(* Buckets *)

\* A bucket is named by its start, a number.
LEMMA BucketsAreNumbers == Buckets \subseteq Nat
<1> SUFFICES ASSUME NEW e \in Events PROVE BucketOf(EventTime[e]) \in Nat
    BY DEF Buckets
<1>1. EventTime[e] \in Nat /\ BucketSize \in Nat /\ BucketSize > 0
    BY ParameterAssumption
<1>2. EventTime[e] \div BucketSize \in Nat
    BY <1>1
<1> QED BY <1>1, <1>2 DEF BucketOf

\* The bucket an event is folded into is one of the buckets.
LEMMA OwnBucket ==
    \A e \in Events : BucketOf(EventTime[e]) \in Buckets /\ e \in EventsOf(BucketOf(EventTime[e]))
BY DEF Buckets, EventsOf

\* sorted(ready) begins with a bucket that is ready.
LEMMA LeastBucket ==
    ASSUME NEW S \in SUBSET Buckets, S # {} PROVE Min(S) \in S
<1> DEFINE Less == {p \in Nat \X Nat : p[1] < p[2]}
<1>1. IsWellFoundedOn(Less, Nat)
    BY NatLessThanWellFounded DEF OpToRel
<1>2. S \in SUBSET Nat
    BY BucketsAreNumbers
<1>3. PICK m \in S : \A k \in S : ~ (<<k, m>> \in Less)
    <2> HIDE DEF Less
    <2> QED BY <1>1, <1>2, WFMin
<1>4. ASSUME NEW k \in S PROVE m <= k
    <2>1. k \in Nat /\ m \in Nat
        BY <1>2
    <2>2. ~(k < m)
        BY <1>3, <2>1
    <2> QED BY <2>1, <2>2
<1> QED BY <1>4 DEF Min

\* The bucket a flush works on is one of the buckets.
LEMMA CurrentIsBucket ==
    ASSUME TypeOK, NEW i \in Procs, FlushReadsPast(i), flush[i] # "idle"
    PROVE  Current(i) \in todo[i] /\ Current(i) \in Buckets
<1>1. todo[i] \in SUBSET Buckets /\ todo[i] # {}
    BY DEF TypeOK, FlushReadsPast
<1> QED BY <1>1, LeastBucket DEF Current

----------------------------------------------------------------------------
(* Types *)

\* Watermark.observe() keeps a time.
LEMMA ObserveType ==
    ASSUME NEW max \in Nat \cup {-1}, NEW t \in Nat PROVE Observe(max, t) \in Nat
BY DEF Observe

\* incr() adds one to one counter of one bucket and leaves the others alone.
LEMMA IncrementAdds ==
    ASSUME TypeOK, NEW e \in Events, NEW k \in Keys, Increment(e, k)
    PROVE  /\ redis' \in [Buckets -> [Keys -> Nat]]
           /\ \A b \in Buckets : \A c \in Keys :
                redis'[b][c] = IF b = BucketOf(EventTime[e]) /\ c = k
                               THEN redis[b][c] + 1 ELSE redis[b][c]
<1> DEFINE own == BucketOf(EventTime[e])
           counts == [redis[own] EXCEPT ![k] = redis[own][k] + 1]
<1>1. own \in Buckets
    BY OwnBucket
<1>2. redis[own] \in [Keys -> Nat]
    BY <1>1 DEF TypeOK
<1>3. counts \in [Keys -> Nat] /\ \A c \in Keys : counts[c] = IF c = k THEN redis[own][c] + 1 ELSE redis[own][c]
    BY <1>2
<1>4. redis' = [redis EXCEPT ![own] = counts]
    BY DEF Increment
<1>5. redis \in [Buckets -> [Keys -> Nat]]
    BY DEF TypeOK
<1> HIDE DEF counts, own
<1>6. redis' \in [Buckets -> [Keys -> Nat]] /\ \A b \in Buckets : redis'[b] = IF b = own THEN counts ELSE redis[b]
    BY <1>1, <1>3, <1>4, <1>5
<1> QED BY <1>3, <1>6 DEF own

\* One task of one process moves, the others stay.
LEMMA TaskSet ==
    ASSUME TypeOK, NEW i \in Procs, NEW e \in Events, NEW c \in TaskStates
    PROVE  /\ [pc EXCEPT ![i][e] = c] \in [Procs -> [Events -> TaskStates]]
           /\ \A j \in Procs, f \in Events :
                [pc EXCEPT ![i][e] = c][j][f] = IF j = i /\ f = e THEN c ELSE pc[j][f]
BY DEF TypeOK

\* Every step keeps the types, given that a flush at work has a bucket.
LEMMA TypeNext ==
    ASSUME TypeOK, \A i \in Procs : FlushReadsPast(i), Next
    PROVE  TypeOK'
<1> USE ParameterAssumption
<1>1. CASE Tick
    BY <1>1 DEF TypeOK, redisVars, Tick, flushVars, taskVars, storeVars
<1>2. ASSUME NEW i \in Procs, NEW e \in Events, Begin(i, e) PROVE TypeOK'
    <2>1. Observe(maxSeen[i], EventTime[e]) \in Nat
        BY ObserveType DEF TypeOK
    <2>2. BucketOf(EventTime[e]) \in Buckets
        BY OwnBucket
    <2>3. maxSeen' \in [Procs -> Nat \cup {-1}] /\ idle' \in [Procs -> 0..MaxIdle]
        BY <1>2, <2>1 DEF Begin, TypeOK
    <2>4. open' \in [Procs -> SUBSET Buckets] /\ attempts' \in [Buckets -> Nat]
        BY <1>2, <2>2 DEF Begin, TypeOK
    <2>5. PICK c \in TaskStates : pc' = [pc EXCEPT ![i][e] = c]
        BY <1>2 DEF Begin, TaskStates, Classify
    <2>6. pc' \in [Procs -> [Events -> TaskStates]]
        BY <2>5, TaskSet
    <2> QED BY <1>2, <2>3, <2>4, <2>6 DEF Begin, TypeOK, flushVars, storeVars
<1>3. ASSUME NEW e \in Events, NEW k \in Keys, Increment(e, k)
      PROVE  redis' \in [Buckets -> [Keys -> Nat]]
    BY <1>3, IncrementAdds
<1>4. ASSUME NEW i \in Procs, NEW e \in Events, BumpLate(i, e) PROVE TypeOK'
    <2>1. redis' \in [Buckets -> [Keys -> Nat]]
        BY <1>3, <1>4 DEF BumpLate, Keys
    <2>2. open' \in [Procs -> SUBSET Buckets]
        BY <1>4, OwnBucket DEF BumpLate, TypeOK
    <2>3. PICK c \in TaskStates : pc' = [pc EXCEPT ![i][e] = c]
        BY <1>4 DEF BumpLate, TaskStates
    <2>4. pc' \in [Procs -> [Events -> TaskStates]]
        BY <2>3, TaskSet
    <2> QED BY <1>4, <2>1, <2>2, <2>4 DEF BumpLate, TypeOK, flushVars, storeVars
<1>5. ASSUME NEW i \in Procs, NEW e \in Events, Contribute(i, e) PROVE TypeOK'
    <2>1. redis' \in [Buckets -> [Keys -> Nat]]
        BY <1>3, <1>5 DEF Contribute, Keys
    <2>2. PICK c \in TaskStates : pc' = [pc EXCEPT ![i][e] = c]
        BY <1>5 DEF Contribute, TaskStates
    <2>3. pc' \in [Procs -> [Events -> TaskStates]]
        BY <2>2, TaskSet
    <2> QED BY <1>5, <2>1, <2>3 DEF Contribute, TypeOK, procVars, flushVars, storeVars
<1>6. ASSUME NEW i \in Procs, NEW e \in Events, MarkProcessed(i, e) \/ Skip(i, e) PROVE TypeOK'
    <2>1. pc' = [pc EXCEPT ![i][e] = "none"]
        BY <1>6 DEF MarkProcessed, Skip
    <2>2. pc' \in [Procs -> [Events -> TaskStates]]
        BY <2>1, TaskSet DEF TaskStates
    <2> QED BY <1>6, <2>2 DEF MarkProcessed, Skip, TypeOK, procVars, flushVars, redisVars, storeVars
<1>7. ASSUME NEW i \in Procs, NEW e \in Events, AttemptFails(i, e) PROVE TypeOK'
    <2>1. PICK c \in TaskStates : pc' = [pc EXCEPT ![i][e] = c]
        BY <1>7 DEF AttemptFails, TaskStates
    <2>2. pc' \in [Procs -> [Events -> TaskStates]]
        BY <2>1, TaskSet
    <2>3. processed' \subseteq Events
        BY <1>7 DEF AttemptFails, TypeOK
    <2>4. attempt' \in [Procs -> [Events -> 1..MaxAttempts]]
        <3>1. attempt' = attempt \/ (attempt[i][e] < MaxAttempts /\ attempt' = [attempt EXCEPT ![i][e] = attempt[i][e] + 1])
            BY <1>7 DEF AttemptFails
        <3>2. attempt \in [Procs -> [Events -> 1..MaxAttempts]] /\ attempt[i][e] \in 1..MaxAttempts
            BY DEF TypeOK
        <3>3. attempt[i][e] < MaxAttempts => attempt[i][e] + 1 \in 1..MaxAttempts
            BY <3>2
        <3> QED BY <3>1, <3>2, <3>3
    <2> QED BY <1>7, <2>2, <2>3, <2>4 DEF AttemptFails, TypeOK, procVars, flushVars, redisVars, storeVars
<1>17. ASSUME NEW i \in Procs, NEW e \in Events, Deliver(i, e) PROVE TypeOK'
    <2>1. pc' \in [Procs -> [Events -> TaskStates]]
        BY <1>17, TaskSet DEF Deliver, TaskStates
    <2>2. attempt' \in [Procs -> [Events -> 1..MaxAttempts]]
        BY <1>17 DEF Deliver, TypeOK
    <2>3. deliveries' \in [Procs -> [Events -> 0..MaxDeliveries]]
        <3>1. deliveries \in [Procs -> [Events -> 0..MaxDeliveries]] /\ deliveries[i][e] \in 0..MaxDeliveries
            BY DEF TypeOK
        <3> QED BY <1>17, <3>1 DEF Deliver
    <2> QED BY <1>17, <2>1, <2>2, <2>3 DEF Deliver, TypeOK, procVars, flushVars, redisVars, storeVars
<1>18. ASSUME NEW b \in Buckets, NEW k \in Keys, Expire(b, k) PROVE TypeOK'
    <2>1. redis' \in [Buckets -> [Keys -> Nat]]
        BY <1>18 DEF Expire, TypeOK
    <2> QED BY <1>18, <2>1 DEF Expire, TypeOK, procVars, flushVars, taskVars, storeVars
<1>8. ASSUME NEW i \in Procs, FlushStart(i) PROVE TypeOK'
    <2>1. Ready(i) \in SUBSET Buckets
        BY DEF Ready, TypeOK
    <2> QED BY <1>8, <2>1 DEF FlushStart, TypeOK, redisVars, FlushStates, procVars, taskVars, storeVars
<1>9. ASSUME NEW i \in Procs, FlushRead(i) PROVE TypeOK'
    <2>1. flush[i] # "idle" /\ flush[i] \in Keys
        BY <1>9 DEF FlushRead, Keys
    <2>2. Current(i) \in Buckets
        BY <2>1, CurrentIsBucket
    <2>3. redis[Current(i)][flush[i]] \in Nat
        BY <2>1, <2>2 DEF TypeOK
    <2>4. snap' \in [Procs -> [Keys -> Nat]]
        BY <1>9, <2>1, <2>3 DEF FlushRead, TypeOK
    <2>5. flush' \in [Procs -> FlushStates]
        BY <1>9 DEF FlushRead, TypeOK, FlushStates, Keys
    <2> QED BY <1>9, <2>4, <2>5 DEF FlushRead, TypeOK, redisVars, procVars, taskVars, storeVars
<1>10. ASSUME NEW i \in Procs, Persist(i) PROVE TypeOK'
    <2>1. Current(i) \in Buckets
        BY <1>10, CurrentIsBucket DEF Persist
    <2> QED BY <1>10, <2>1 DEF Persist, TypeOK, redisVars, FlushStates, procVars, taskVars
<1>11. ASSUME NEW i \in Procs, NEW rest \in SUBSET Buckets, FlushGoesOn(i, rest)
       PROVE  /\ todo' \in [Procs -> SUBSET Buckets] /\ snap' \in [Procs -> [Keys -> Nat]]
              /\ flush' \in [Procs -> FlushStates] /\ up' \in [Procs -> {"up", "stopping", "down"}]
    BY <1>11 DEF FlushGoesOn, TypeOK, FlushStates, Zero
<1>12. ASSUME NEW i \in Procs, Emit(i) PROVE TypeOK'
    <2>1. Current(i) \in Buckets
        BY <1>12, CurrentIsBucket DEF Emit
    <2>2. todo[i] \ {Current(i)} \in SUBSET Buckets
        BY DEF TypeOK
    <2> QED BY <1>11, <1>12, <2>1, <2>2 DEF Emit, TypeOK, redisVars, taskVars
<1>13. ASSUME NEW i \in Procs, FlushFails(i) PROVE TypeOK'
    BY <1>11, <1>13 DEF FlushFails, TypeOK, redisVars, taskVars, storeVars
<1>14. ASSUME NEW i \in Procs, Stop(i) PROVE TypeOK'
    BY <1>14 DEF Stop, TypeOK, redisVars, FlushStates, Zero, taskVars, storeVars
<1>15. ASSUME NEW i \in Procs, Crash(i) PROVE TypeOK'
    <2>1. pc' \in [Procs -> [Events -> TaskStates]]
        BY <1>15 DEF Crash, TypeOK, TaskStates
    <2> QED BY <1>15, <2>1 DEF Crash, TypeOK, FlushStates, Zero, redisVars, storeVars
<1>16. ASSUME NEW i \in Procs, Restart(i) PROVE TypeOK'
    BY <1>16 DEF Restart, TypeOK, redisVars, flushVars, taskVars, storeVars
<1> QED BY <1>1, <1>2, <1>4, <1>5, <1>6, <1>7, <1>8, <1>9, <1>10, <1>12, <1>13, <1>14,
           <1>15, <1>16, <1>17, <1>18 DEF Next, TaskStep, FlushStep

----------------------------------------------------------------------------
(* Calls of handle() *)

\* There are finitely many of them at a time.
LEMMA TasksFinite ==
    ASSUME NEW b, NEW D \in SUBSET (Procs \X EventsOf(b))
    PROVE  IsFiniteSet(D) /\ Cardinality(D) \in Nat
<1>1. EventsOf(b) \in SUBSET Events
    BY DEF EventsOf
<1>2. IsFiniteSet(EventsOf(b)) /\ IsFiniteSet(Procs)
    BY <1>1, FS_Subset, ParameterAssumption
<1>3. IsFiniteSet(Procs \X EventsOf(b))
    BY <1>2, FS_Product
<1> QED BY <1>3, FS_Subset, FS_CardinalityType

LEMMA PendingFinite ==
    ASSUME NEW b, NEW k PROVE IsFiniteSet(Pending(b, k)) /\ Cardinality(Pending(b, k)) \in Nat
<1>1. Pending(b, k) \in SUBSET (Procs \X EventsOf(b))
    BY DEF Pending
<1> QED BY <1>1, TasksFinite

\* So a counter is within the calls that were begun.
LEMMA CountsBounded ==
    ASSUME TypeOK, CountsHaveAttempts, NEW b \in Buckets, NEW k \in Keys
    PROVE  redis[b][k] <= attempts[b]
<1> DEFINE n == Cardinality(Pending(b, k))
<1>1. n \in Nat /\ redis[b][k] \in Nat /\ attempts[b] \in Nat
    BY PendingFinite DEF TypeOK
<1>2. redis[b][k] + n <= attempts[b]
    BY DEF CountsHaveAttempts
<1> HIDE DEF n
<1> QED BY <1>1, <1>2

\* A call that increments a counter had it ahead and has it behind.
LEMMA IncrementOnce ==
    ASSUME TypeOK, NEW i \in Procs, NEW e \in Events, BumpLate(i, e) \/ Contribute(i, e)
    PROVE  \E d \in Keys :
              /\ Increment(e, d) /\ pc[i][e] \in Ahead(d)
              /\ \E c \in TaskStates \ Ahead(d) : pc' = [pc EXCEPT ![i][e] = c]
<1>1. CASE BumpLate(i, e)
    <2>1. Increment(e, "late") /\ pc[i][e] \in Ahead("late")
        BY <1>1 DEF BumpLate, Ahead
    <2>2. \E c \in {"num", "den", "mark"} : c \notin Ahead("late") /\ pc' = [pc EXCEPT ![i][e] = c]
        BY <1>1 DEF BumpLate, Ahead
    <2> QED BY <2>1, <2>2 DEF Keys, TaskStates
<1>2. CASE Contribute(i, e) /\ pc[i][e] = "num"
    <2>1. Increment(e, "num") /\ pc[i][e] \in Ahead("num")
        BY <1>2 DEF Contribute, Ahead
    <2>2. \E c \in {"num", "den", "mark"} : c \notin Ahead("num") /\ pc' = [pc EXCEPT ![i][e] = c]
        BY <1>2 DEF Contribute, Ahead
    <2> QED BY <2>1, <2>2 DEF Keys, TaskStates
<1>3. CASE Contribute(i, e) /\ pc[i][e] = "den"
    <2>1. Increment(e, "den") /\ pc[i][e] \in Ahead("den")
        BY <1>3 DEF Contribute, Ahead
    <2>2. \E c \in {"num", "den", "mark"} : c \notin Ahead("den") /\ pc' = [pc EXCEPT ![i][e] = c]
        BY <1>3 DEF Contribute, Ahead
    <2> QED BY <2>1, <2>2 DEF Keys, TaskStates
<1> QED BY <1>1, <1>2, <1>3 DEF Contribute

----------------------------------------------------------------------------
(* Which steps write what *)

\* Counters change by the increments of handle() and by expiry, rows in the flush's
\* transaction, and only a crash counts as one.
LEMMA WhoWrites ==
    ASSUME Next
    PROVE  /\ \/ UNCHANGED redisVars
              \/ \E i \in Procs, e \in Events : Begin(i, e) \/ BumpLate(i, e) \/ Contribute(i, e)
              \/ \E b \in Buckets, k \in Keys : Expire(b, k)
           /\ UNCHANGED <<row, closed>> \/ \E i \in Procs : Persist(i)
           /\ crashes' = crashes \/ crashes' = crashes + 1
<1>1. CASE Tick
    BY <1>1 DEF Tick, storeVars
<1>2. ASSUME NEW i \in Procs, NEW e \in Events, Deliver(i, e)
      PROVE  UNCHANGED <<redisVars, row, closed, crashes>>
    BY <1>2 DEF Deliver, storeVars
<1>3. ASSUME NEW i \in Procs, NEW e \in Events, TaskStep(i, e)
      PROVE  /\ UNCHANGED redisVars \/ Begin(i, e) \/ BumpLate(i, e) \/ Contribute(i, e)
             /\ UNCHANGED <<row, closed, crashes>>
    <2>1. CASE Skip(i, e) \/ MarkProcessed(i, e) \/ AttemptFails(i, e)
        BY <2>1 DEF Skip, MarkProcessed, AttemptFails, storeVars
    <2>2. CASE Begin(i, e)
        BY <2>2 DEF Begin, storeVars
    <2>3. CASE BumpLate(i, e) \/ Contribute(i, e)
        BY <2>3 DEF BumpLate, Contribute, storeVars
    <2> QED BY <1>3, <2>1, <2>2, <2>3 DEF TaskStep
<1>4. ASSUME NEW b \in Buckets, NEW k \in Keys, Expire(b, k)
      PROVE  UNCHANGED <<row, closed, crashes>>
    BY <1>4 DEF Expire, storeVars
<1>5. ASSUME NEW i \in Procs, FlushStep(i)
      PROVE  UNCHANGED <<redisVars, crashes>> /\ (UNCHANGED <<row, closed>> \/ Persist(i))
    BY <1>5 DEF FlushStep, FlushStart, FlushRead, Persist, Emit, FlushFails, storeVars
<1>6. ASSUME NEW i \in Procs, Stop(i) \/ Crash(i) \/ Restart(i)
      PROVE  /\ UNCHANGED <<redisVars, row, closed>>
             /\ crashes' = crashes \/ crashes' = crashes + 1
    BY <1>6 DEF Stop, Crash, Restart, storeVars
<1> QED BY <1>1, <1>2, <1>3, <1>4, <1>5, <1>6 DEF Next

----------------------------------------------------------------------------
(* What is durable was counted *)

\* Only an expiry lowers a Redis counter: the flush leaves them alone.
LEMMA RedisGrows ==
    ASSUME TypeOK, TypeOK', Next
    PROVE  /\ \A b \in Buckets : attempts[b] <= attempts'[b]
           /\ expired \subseteq expired'
           /\ \A b \in Buckets : \A k \in Keys :
                redis[b][k] <= redis'[b][k] \/ <<b, k>> \in expired'
<1> DEFINE Grow == \A b \in Buckets : \A k \in Keys :
                       redis[b][k] <= redis'[b][k] \/ <<b, k>> \in expired'
<1>1. ASSUME UNCHANGED redis PROVE Grow
    BY <1>1 DEF TypeOK
<1>2. ASSUME NEW e \in Events, NEW c \in Keys, Increment(e, c) PROVE Grow
    <2> SUFFICES ASSUME NEW b \in Buckets, NEW k \in Keys PROVE redis[b][k] <= redis'[b][k]
        OBVIOUS
    <2>1. redis[b][k] \in Nat
        BY DEF TypeOK
    <2>2. redis'[b][k] = redis[b][k] + 1 \/ redis'[b][k] = redis[b][k]
        BY <1>2, IncrementAdds
    <2> QED BY <2>1, <2>2
<1>3. ASSUME NEW c \in Buckets, NEW d \in Keys, Expire(c, d) PROVE Grow
    BY <1>3 DEF Expire, TypeOK
<1>4. \/ UNCHANGED redisVars
      \/ \E i \in Procs, e \in Events : Begin(i, e)
      \/ UNCHANGED <<attempts, expired>> /\ \E e \in Events, c \in Keys : Increment(e, c)
      \/ \E b \in Buckets, k \in Keys : Expire(b, k)
    BY WhoWrites DEF BumpLate, Contribute, Keys
<1>5. ASSUME NEW i \in Procs, NEW e \in Events, Begin(i, e)
      PROVE  /\ UNCHANGED <<redis, expired>>
             /\ \A b \in Buckets : attempts'[b] = attempts[b] \/ attempts'[b] = attempts[b] + 1
    BY <1>5, OwnBucket DEF Begin, TypeOK
<1>6. \A b \in Buckets : attempts'[b] = attempts[b] \/ attempts'[b] = attempts[b] + 1
    BY <1>4, <1>5 DEF redisVars, Expire
<1>7. \A b \in Buckets : attempts[b] \in Nat
    BY DEF TypeOK
<1>8. \A b \in Buckets : attempts[b] <= attempts'[b]
    BY <1>6, <1>7
<1>9. expired \subseteq expired'
    BY <1>4, <1>5 DEF redisVars, Expire
<1>10. Grow
    BY <1>1, <1>2, <1>3, <1>4, <1>5 DEF redisVars
<1> QED BY <1>8, <1>9, <1>10

\* A flush that does not move keeps having read the past.
LEMMA FlushRests ==
    ASSUME TypeOK, TypeOK', Next, NEW i \in Procs, FlushReadsPast(i),
           flush'[i] = flush[i], todo'[i] = todo[i], snap'[i] = snap[i]
    PROVE  FlushReadsPast(i)'
<1>1. CASE flush[i] = "idle"
    BY <1>1 DEF FlushReadsPast
<1>2. CASE flush[i] # "idle"
    <2>1. Current(i) \in Buckets /\ Current(i)' = Current(i)
        BY <1>2, CurrentIsBucket DEF Current
    <2> DEFINE b == Current(i)
    <2>2. ASSUME NEW k \in Keys
          PROVE  /\ snap'[i][k] <= attempts'[b]
                 /\ snap'[i][k] <= redis'[b][k] \/ <<b, k>> \in expired'
        <3>1. /\ snap[i][k] <= attempts[b]
              /\ snap[i][k] <= redis[b][k] \/ <<b, k>> \in expired
            BY <1>2 DEF FlushReadsPast
        <3>2. /\ redis[b][k] <= redis'[b][k] \/ <<b, k>> \in expired'
              /\ attempts[b] <= attempts'[b] /\ expired \subseteq expired'
            BY <2>1, RedisGrows
        <3>3. snap[i][k] \in Nat /\ redis[b][k] \in Nat /\ attempts[b] \in Nat
            BY <2>1 DEF TypeOK
        <3>4. redis'[b][k] \in Nat /\ attempts'[b] \in Nat
            BY <2>1 DEF TypeOK
        <3> HIDE DEF b
        <3> QED BY <3>1, <3>2, <3>3, <3>4
    <2>3. todo'[i] # {} /\ flush'[i] # "idle"
        BY <1>2 DEF FlushReadsPast
    <2> QED BY <2>1, <2>2, <2>3 DEF FlushReadsPast
<1> QED BY <1>1, <1>2

\* A flush that goes on begins its next bucket with nothing read, or sleeps.
LEMMA FlushRestarts ==
    ASSUME TypeOK, TypeOK', NEW i \in Procs, snap'[i] = Zero,
           flush'[i] = "den" => todo'[i] # {}, flush'[i] \in {"idle", "den"}
    PROVE  FlushReadsPast(i)'
<1>1. CASE flush'[i] = "idle"
    BY <1>1 DEF FlushReadsPast
<1>2. CASE flush'[i] = "den"
    <2>1. todo'[i] \in SUBSET Buckets /\ todo'[i] # {}
        BY <1>2 DEF TypeOK
    <2>2. Current(i)' \in Buckets
        BY <2>1, LeastBucket DEF Current
    <2>3. ASSUME NEW k \in Keys
          PROVE  snap'[i][k] <= redis'[Current(i)'][k] /\ snap'[i][k] <= attempts'[Current(i)']
        <3>1. redis'[Current(i)'][k] \in Nat /\ attempts'[Current(i)'] \in Nat
            BY <2>2 DEF TypeOK
        <3>2. snap'[i][k] = 0
            BY DEF Zero
        <3> QED BY <3>1, <3>2
    <2> QED BY <1>2, <2>1, <2>3 DEF FlushReadsPast
<1> QED BY <1>1, <1>2

\* _finalize_bucket() reads a counter as it is; the other ones it read stay behind.
LEMMA FlushReadNext ==
    ASSUME TypeOK, NEW i \in Procs, FlushReadsPast(i), CountsHaveAttempts, FlushRead(i)
    PROVE  FlushReadsPast(i)'
<1>1. flush[i] \in Keys /\ flush[i] # "idle" /\ flush'[i] # "idle"
    BY DEF FlushRead, TypeOK, Keys
<1>2. todo'[i] = todo[i] /\ UNCHANGED redisVars /\ Current(i)' = Current(i)
    BY DEF FlushRead, Current
<1>3. Current(i) \in Buckets
    BY <1>1, CurrentIsBucket
<1> DEFINE b == Current(i)
<1>4. ASSUME NEW k \in Keys
      PROVE  /\ snap'[i][k] <= attempts[b]
             /\ snap'[i][k] <= redis[b][k] \/ <<b, k>> \in expired
    <2>1. redis[b][k] \in Nat /\ redis[b][k] <= redis[b][k] /\ redis[b][k] <= attempts[b]
        BY <1>3, CountsBounded DEF TypeOK
    <2>2. snap'[i][k] = IF k = flush[i] THEN redis[b][k] ELSE snap[i][k]
        BY <1>1 DEF FlushRead, TypeOK
    <2>3. snap[i][k] <= attempts[b] /\ (snap[i][k] <= redis[b][k] \/ <<b, k>> \in expired)
        BY <1>1 DEF FlushReadsPast
    <2> HIDE DEF b
    <2> QED BY <2>1, <2>2, <2>3
<1> QED BY <1>1, <1>2, <1>4 DEF FlushReadsPast, redisVars

\* Every step keeps what flushes have read behind Redis.
LEMMA FlushNext ==
    ASSUME TypeOK, TypeOK', \A i \in Procs : FlushReadsPast(i), CountsHaveAttempts, Next, NEW j \in Procs
    PROVE  FlushReadsPast(j)'
<1>1. ASSUME UNCHANGED flushVars PROVE FlushReadsPast(j)'
    BY <1>1, FlushRests DEF flushVars
<1>2. ASSUME NEW i \in Procs, NEW e \in Events, Deliver(i, e) \/ TaskStep(i, e) PROVE UNCHANGED flushVars
    BY <1>2 DEF Deliver, TaskStep, Skip, Begin, BumpLate, Contribute, MarkProcessed, AttemptFails
<1>3. ASSUME NEW i \in Procs, FlushStep(i) \/ Stop(i) \/ Crash(i), j # i PROVE FlushReadsPast(j)'
    <2>1. flush'[j] = flush[j] /\ todo'[j] = todo[j] /\ snap'[j] = snap[j]
        BY <1>3 DEF FlushStep, FlushStart, FlushRead, Persist, Emit, FlushFails, FlushGoesOn, Stop, Crash, TypeOK
    <2> QED BY <2>1, FlushRests
<1>4. CASE FlushStart(j)
    BY <1>4, FlushRestarts DEF FlushStart, FlushReadsPast, TypeOK
<1>5. CASE FlushRead(j)
    BY <1>5, FlushReadNext
<1>6. CASE Persist(j)
    <2>1. flush[j] # "idle" /\ flush'[j] # "idle" /\ todo' = todo /\ UNCHANGED redisVars /\ snap' = snap
        BY <1>6 DEF Persist, TypeOK
    <2> QED BY <2>1 DEF FlushReadsPast, Current, redisVars
<1>7. CASE Emit(j) \/ FlushFails(j) \/ Stop(j) \/ Crash(j)
    <2>1. snap'[j] = Zero /\ flush'[j] \in {"idle", "den"} /\ (flush'[j] = "den" => todo'[j] # {})
        BY <1>7 DEF Emit, FlushFails, FlushGoesOn, Stop, Crash, TypeOK
    <2> QED BY <2>1, FlushRestarts
<1>8. CASE Tick \/ (\E i \in Procs : Restart(i)) \/ \E b \in Buckets, k \in Keys : Expire(b, k)
    BY <1>1, <1>8 DEF Tick, Restart, Expire
<1> QED BY <1>1, <1>2, <1>3, <1>4, <1>5, <1>6, <1>7, <1>8 DEF Next, FlushStep

\* _persist() writes what was read, and Redis is never below it.
LEMMA RowsNext ==
    ASSUME TypeOK, TypeOK', \A i \in Procs : FlushReadsPast(i), RowsAreBehind, Next
    PROVE  RowsAreBehind'
<1> DEFINE Behind(b, k) == row'[b][k] <= attempts'[b] /\ (row'[b][k] <= redis'[b][k] \/ <<b, k>> \in expired')
<1> SUFFICES ASSUME NEW b \in Buckets, NEW k \in Keys PROVE Behind(b, k)
    BY DEF RowsAreBehind
<1>1. /\ redis[b][k] \in Nat /\ redis'[b][k] \in Nat /\ row[b][k] \in Nat
      /\ attempts[b] \in Nat /\ attempts'[b] \in Nat
    BY DEF TypeOK
<1>5. /\ redis[b][k] <= redis'[b][k] \/ <<b, k>> \in expired'
      /\ attempts[b] <= attempts'[b] /\ expired \subseteq expired'
    BY RedisGrows
<1>2. CASE row'[b] = row[b]
    <2>1. row[b][k] <= attempts[b] /\ (row[b][k] <= redis[b][k] \/ <<b, k>> \in expired)
        BY DEF RowsAreBehind
    <2> QED BY <1>1, <1>2, <1>5, <2>1
<1>3. ASSUME NEW i \in Procs, Persist(i), row'[b] # row[b] PROVE Behind(b, k)
    <2>1. b = Current(i) /\ row'[b] = snap[i]
        BY <1>3 DEF Persist, TypeOK
    <2>2. flush[i] # "idle" /\ snap[i] \in [Keys -> Nat]
        BY <1>3 DEF Persist, TypeOK
    <2>3. /\ snap[i][k] \in Nat /\ snap[i][k] <= attempts[b]
          /\ snap[i][k] <= redis[b][k] \/ <<b, k>> \in expired
        BY <2>1, <2>2 DEF FlushReadsPast
    <2> QED BY <1>1, <1>5, <2>1, <2>3
<1>4. row' = row \/ \E i \in Procs : Persist(i)
    BY WhoWrites
<1> QED BY <1>2, <1>3, <1>4

----------------------------------------------------------------------------
(* No attempt is counted twice *)

\* Every step moves one call of handle() at most, starts one, or drops some.
LEMMA CountsNext ==
    ASSUME TypeOK, TypeOK', CountsHaveAttempts, Next
    PROVE  CountsHaveAttempts'
<1> SUFFICES ASSUME NEW b \in Buckets, NEW k \in Keys
             PROVE  redis'[b][k] + Cardinality(Pending(b, k)') <= attempts'[b]
    BY DEF CountsHaveAttempts
<1> DEFINE D == Pending(b, k)
           E == Pending(b, k)'
<1>1. IsFiniteSet(D) /\ Cardinality(D) \in Nat
    BY PendingFinite
<1>2. E \in SUBSET (Procs \X EventsOf(b)) /\ IsFiniteSet(E) /\ Cardinality(E) \in Nat
    <2>1. E \in SUBSET (Procs \X EventsOf(b))
        BY DEF Pending
    <2> HIDE DEF E
    <2> QED BY <2>1, TasksFinite
<1>3. /\ redis[b][k] \in Nat /\ redis'[b][k] \in Nat /\ attempts[b] \in Nat /\ attempts'[b] \in Nat
      /\ redis[b][k] + Cardinality(D) <= attempts[b]
    BY DEF TypeOK, CountsHaveAttempts
<1>4. ASSUME E \subseteq D, redis'[b][k] <= redis[b][k], attempts[b] <= attempts'[b]
      PROVE  redis'[b][k] + Cardinality(E) <= attempts'[b]
    <2> HIDE DEF D, E
    <2>1. Cardinality(E) <= Cardinality(D)
        BY <1>1, <1>4, FS_Subset
    <2> QED BY <1>1, <1>2, <1>3, <1>4, <2>1
<1>5. ASSUME NEW i \in Procs, NEW e \in Events, NEW c \in TaskStates,
             pc' = [pc EXCEPT ![i][e] = c], c \notin Ahead(k)
      PROVE  E \subseteq D /\ <<i, e>> \notin E
    BY <1>5, TaskSet DEF Pending, EventsOf
<1>6. ASSUME NEW i \in Procs, NEW e \in Events, NEW c \in TaskStates,
             pc' = [pc EXCEPT ![i][e] = c], b # BucketOf(EventTime[e]) \/ pc[i][e] \in Ahead(k)
      PROVE  E \subseteq D
    BY <1>6, TaskSet DEF Pending, EventsOf
<1>7. ASSUME pc' = pc PROVE E = D
    BY <1>7 DEF Pending
<1>8. ASSUME NEW i \in Procs, NEW e \in Events, Begin(i, e)
      PROVE  redis'[b][k] + Cardinality(E) <= attempts'[b]
    <2>1. PICK c \in TaskStates : pc' = [pc EXCEPT ![i][e] = c]
        BY <1>8 DEF Begin, TaskStates, Classify
    <2>2. redis' = redis
        BY <1>8 DEF Begin
    <2>3. CASE b # BucketOf(EventTime[e])
        <3>1. attempts'[b] = attempts[b]
            BY <1>8, <2>3, OwnBucket DEF Begin, TypeOK
        <3>2. E \subseteq D
            BY <1>6, <2>1, <2>3
        <3> HIDE DEF D, E
        <3> QED BY <1>3, <1>4, <2>2, <3>1, <3>2
    <2>4. CASE b = BucketOf(EventTime[e])
        <3>1. attempts'[b] = attempts[b] + 1
            BY <1>8, <2>4, OwnBucket DEF Begin, TypeOK
        <3>2. E \subseteq D \cup {<<i, e>>}
            BY <2>1, TaskSet DEF Pending, EventsOf
        <3> DEFINE t == <<i, e>>
        <3> HIDE DEF D, E, t
        <3>3. /\ IsFiniteSet(D \cup {t})
              /\ Cardinality(D \cup {t}) = Cardinality(D) \/ Cardinality(D \cup {t}) = Cardinality(D) + 1
            BY <1>1, FS_AddElement
        <3>4. Cardinality(E) <= Cardinality(D \cup {t})
            BY <3>2, <3>3, FS_Subset DEF t
        <3> QED BY <1>1, <1>2, <1>3, <2>2, <3>1, <3>3, <3>4
    <2> QED BY <2>3, <2>4
<1>9. ASSUME NEW i \in Procs, NEW e \in Events, BumpLate(i, e) \/ Contribute(i, e)
      PROVE  redis'[b][k] + Cardinality(E) <= attempts'[b]
    <2>1. attempts' = attempts
        BY <1>9 DEF BumpLate, Contribute
    <2>2. PICK d \in Keys :
            /\ Increment(e, d) /\ pc[i][e] \in Ahead(d)
            /\ \E c \in TaskStates \ Ahead(d) : pc' = [pc EXCEPT ![i][e] = c]
        BY <1>9, IncrementOnce
    <2>3. PICK c \in TaskStates \ Ahead(d) : pc' = [pc EXCEPT ![i][e] = c]
        BY <2>2
    <2>4. CASE b = BucketOf(EventTime[e]) /\ d = k
        <3> DEFINE t == <<i, e>>
        <3>1. redis'[b][k] = redis[b][k] + 1
            BY <2>2, <2>4, IncrementAdds
        <3>2. t \in D
            BY <2>2, <2>4, OwnBucket DEF Pending
        <3>3. E \subseteq D /\ t \notin E
            BY <1>5, <2>3, <2>4
        <3> HIDE DEF D, E, t
        <3>4. IsFiniteSet(D \ {t}) /\ Cardinality(D \ {t}) = Cardinality(D) - 1
            BY <1>1, <3>2, FS_RemoveElement
        <3>5. Cardinality(E) <= Cardinality(D \ {t})
            BY <3>3, <3>4, FS_Subset
        <3> QED BY <1>1, <1>2, <1>3, <2>1, <3>1, <3>4, <3>5
    <2>5. CASE ~(b = BucketOf(EventTime[e]) /\ d = k)
        <3>1. redis'[b][k] = redis[b][k]
            BY <2>2, <2>5, IncrementAdds
        <3>2. E \subseteq D
            <4>1. CASE b # BucketOf(EventTime[e])
                BY <1>6, <2>3, <4>1
            <4>2. CASE pc[i][e] \in Ahead(k)
                BY <1>6, <2>3, <4>2
            <4>3. CASE pc[i][e] \notin Ahead(k) /\ b = BucketOf(EventTime[e])
                <5>1. c \notin Ahead(k)
                    BY <1>9, <2>3, <4>3, TaskSet DEF BumpLate, Contribute, Ahead, Keys, TypeOK
                <5> QED BY <1>5, <2>3, <5>1
            <4> QED BY <4>1, <4>2, <4>3
        <3> HIDE DEF D, E
        <3> QED BY <1>3, <1>4, <2>1, <3>1, <3>2
    <2> QED BY <2>4, <2>5
<1>10. ASSUME NEW i \in Procs, NEW e \in Events,
              Deliver(i, e) \/ Skip(i, e) \/ MarkProcessed(i, e) \/ AttemptFails(i, e)
       PROVE  redis'[b][k] + Cardinality(E) <= attempts'[b]
    <2>1. UNCHANGED redisVars
        BY <1>10 DEF Deliver, Skip, MarkProcessed, AttemptFails
    <2>2. PICK c \in {"none", "todo"} : pc' = [pc EXCEPT ![i][e] = c]
        BY <1>10 DEF Deliver, Skip, MarkProcessed, AttemptFails
    <2>3. c \in TaskStates /\ c \notin Ahead(k)
        BY DEF TaskStates, Ahead, Keys
    <2>4. E \subseteq D
        BY <1>5, <2>2, <2>3
    <2> HIDE DEF D, E
    <2> QED BY <1>3, <1>4, <2>1, <2>4 DEF redisVars
<1>11. ASSUME NEW i \in Procs, Crash(i) PROVE redis'[b][k] + Cardinality(E) <= attempts'[b]
    <2>1. UNCHANGED redisVars
        BY <1>11 DEF Crash
    <2>2. ASSUME NEW j \in Procs, NEW f \in Events PROVE pc'[j][f] = pc[j][f] \/ pc'[j][f] = "none"
        BY <1>11 DEF Crash, TypeOK
    <2>3. "none" \notin Ahead(k)
        BY DEF Ahead, Keys
    <2>4. E \subseteq D
        BY <2>2, <2>3 DEF Pending, EventsOf
    <2> HIDE DEF D, E
    <2> QED BY <1>3, <1>4, <2>1, <2>4 DEF redisVars
<1>12. ASSUME NEW c \in Buckets, NEW d \in Keys, Expire(c, d)
       PROVE  redis'[b][k] + Cardinality(E) <= attempts'[b]
    <2>1. E = D /\ attempts' = attempts
        BY <1>7, <1>12 DEF Expire, taskVars
    <2>2. redis'[b][k] <= redis[b][k]
        BY <1>3, <1>12 DEF Expire, TypeOK
    <2> HIDE DEF D, E
    <2> QED BY <1>3, <1>4, <2>1, <2>2
<1>13. ASSUME UNCHANGED <<pc, redisVars>> PROVE redis'[b][k] + Cardinality(E) <= attempts'[b]
    <2>1. E = D
        BY <1>7, <1>13
    <2> HIDE DEF D, E
    <2> QED BY <1>3, <1>13, <2>1 DEF redisVars
<1>14. ASSUME Tick \/ \E i \in Procs : FlushStep(i) \/ Stop(i) \/ Restart(i) PROVE UNCHANGED <<pc, redisVars>>
    BY <1>14 DEF Tick, FlushStep, FlushStart, FlushRead, Persist, Emit, FlushFails, Stop, Restart, taskVars
<1> HIDE DEF D, E
<1>15. redis'[b][k] + Cardinality(E) <= attempts'[b]
    BY <1>8, <1>9, <1>10, <1>11, <1>12, <1>13, <1>14 DEF Next, TaskStep
<1> QED BY <1>15 DEF E

----------------------------------------------------------------------------
(* The inductive invariant *)

\* The initial state satisfies it: nothing is counted.
LEMMA IndInit == Init => IndInv
<1> SUFFICES ASSUME Init PROVE IndInv
    OBVIOUS
<1>1. TypeOK
    BY ParameterAssumption DEF Init, TypeOK, TaskStates, FlushStates, Zero
<1>2. RowsAreBehind /\ \A i \in Procs : FlushReadsPast(i)
    BY DEF Init, RowsAreBehind, FlushReadsPast, Zero
<1>3. ASSUME NEW b \in Buckets, NEW k \in Keys PROVE redis[b][k] + Cardinality(Pending(b, k)) <= attempts[b]
    <2>1. Pending(b, k) = {}
        BY DEF Init, Pending, Ahead, Keys, EventsOf
    <2>2. redis[b][k] = 0 /\ attempts[b] = 0
        BY DEF Init, Zero
    <2> QED BY <2>1, <2>2, FS_EmptySet
<1> QED BY <1>1, <1>2, <1>3 DEF IndInv, CountsHaveAttempts

\* Every step keeps it.
LEMMA IndNext == IndInv /\ [Next]_vars => IndInv'
<1>1. ASSUME IndInv, Next PROVE IndInv'
    <2>1. TypeOK'
        BY <1>1, TypeNext DEF IndInv
    <2> QED BY <1>1, <2>1, FlushNext, RowsNext, CountsNext DEF IndInv
<1>2. ASSUME IndInv, UNCHANGED vars PROVE IndInv'
    <2> USE <1>2 DEF IndInv, vars, procVars, flushVars, taskVars, redisVars, storeVars
    <2>1. TypeOK'
        BY DEF TypeOK
    <2>2. RowsAreBehind' /\ \A i \in Procs : FlushReadsPast(i)'
        BY DEF RowsAreBehind, FlushReadsPast, Current
    <2>3. ASSUME NEW b \in Buckets, NEW k \in Keys PROVE Pending(b, k)' = Pending(b, k)
        BY DEF Pending
    <2>4. CountsHaveAttempts'
        BY <2>3 DEF CountsHaveAttempts
    <2> QED BY <2>1, <2>2, <2>4
<1> QED BY <1>1, <1>2

LEMMA Invariance == Spec => []IndInv
BY IndInit, IndNext, PTL DEF Spec

\* _persist(), handle() and the framework's deliveries and retries, whatever fails,
\* crashes, expires or is delivered again and however many processes share Redis:
\* Redis and the durable row hold at most one contribution per call of handle(), and
\* the row no more than Redis until a counter expires.
THEOREM CountSafety == Spec => []NoOvercountPerAttempt
<1>1. IndInv => NoOvercountPerAttempt
    BY CountsBounded DEF IndInv, RowsAreBehind, NoOvercountPerAttempt
<1> QED BY <1>1, Invariance, PTL

----------------------------------------------------------------------------
(* One process lowers a row by an expiry only *)

\* What the only flush has read stays ahead of the row: nobody else writes one.
LEMMA ReadsNext ==
    ASSUME \A i, j \in Procs : i = j, IndInv, Next, NEW i \in Procs, ReadsAheadOfRow(i)
    PROVE  ReadsAheadOfRow(i)'
<1> SUFFICES ASSUME NEW k \in Keys, HasRead(i, k)'
             PROVE  row'[Current(i)'][k] <= snap'[i][k] \/ <<Current(i)', k>> \in expired'
    BY DEF ReadsAheadOfRow
<1>7. expired \subseteq expired'
    <2>1. TypeOK'
        BY TypeNext DEF IndInv
    <2> QED BY <2>1, RedisGrows DEF IndInv
<1>1. CASE flush'[i] = flush[i] /\ todo'[i] = todo[i] /\ snap'[i] = snap[i] /\ row' = row
    BY <1>1, <1>7 DEF ReadsAheadOfRow, HasRead, Current
<1>2. CASE FlushRead(i)
    <2>1. flush[i] \in Keys /\ flush[i] # "idle" /\ row' = row /\ todo' = todo
        BY <1>2 DEF FlushRead, Keys, storeVars
    <2>2. Current(i) \in Buckets /\ Current(i)' = Current(i)
        BY <2>1, CurrentIsBucket DEF IndInv, Current
    <2>3. CASE k = flush[i]
        <3>1. snap'[i][k] = redis[Current(i)][k]
            BY <1>2, <2>1, <2>3 DEF FlushRead, IndInv, TypeOK
        <3> QED BY <1>7, <2>1, <2>2, <3>1 DEF IndInv, RowsAreBehind
    <2>4. CASE k # flush[i]
        <3>1. snap'[i][k] = snap[i][k]
            BY <1>2, <2>1, <2>4 DEF FlushRead, IndInv, TypeOK
        <3>2. HasRead(i, k)
            BY <1>2, <2>4 DEF FlushRead, HasRead, Keys, IndInv, TypeOK
        <3> QED BY <1>7, <2>1, <2>2, <3>1, <3>2 DEF ReadsAheadOfRow
    <2> QED BY <2>3, <2>4
<1>3. CASE Persist(i)
    <2>1. Current(i) \in Buckets /\ Current(i)' = Current(i)
        BY <1>3, CurrentIsBucket DEF IndInv, Persist, Current
    <2>2. row'[Current(i)] = snap[i] /\ snap' = snap
        BY <1>3, <2>1 DEF Persist, IndInv, TypeOK
    <2>3. snap[i][k] \in Nat
        BY DEF IndInv, TypeOK
    <2> QED BY <2>1, <2>2, <2>3
<1>4. CASE FlushStart(i) \/ Emit(i) \/ FlushFails(i) \/ Stop(i) \/ Crash(i)
    <2>1. flush'[i] \in {"idle", "den"}
        BY <1>4 DEF FlushStart, Emit, FlushFails, FlushGoesOn, Stop, Crash, IndInv, TypeOK
    <2> QED BY <2>1 DEF HasRead, Keys
<1>5. ASSUME NEW j \in Procs, NEW e \in Events, Deliver(j, e) \/ TaskStep(j, e)
      PROVE  flush' = flush /\ todo' = todo /\ snap' = snap /\ row' = row
    BY <1>5 DEF Deliver, TaskStep, Skip, Begin, BumpLate, Contribute, MarkProcessed, AttemptFails, flushVars, storeVars
<1>6. CASE Tick \/ Restart(i) \/ \E b \in Buckets, c \in Keys : Expire(b, c)
    BY <1>1, <1>6 DEF Tick, Restart, Expire, flushVars, storeVars
<1> QED BY <1>1, <1>2, <1>3, <1>4, <1>5, <1>6 DEF Next, FlushStep

\* The upsert of _persist() with a single analytics process, whatever fails: a
\* durable row is replaced by counts that are at least its own, or that expired.
THEOREM RowSafety ==
    ASSUME \A i, j \in Procs : i = j
    PROVE  Spec => OnlyExpiryShrinksRows
<1> DEFINE Reads == \A i \in Procs : ReadsAheadOfRow(i)
           Grow == \A b \in Buckets : \A k \in Keys : row'[b][k] < row[b][k] => <<b, k>> \in expired
<1>1. Init => Reads
    BY DEF Init, ReadsAheadOfRow, HasRead, Keys
<1>2. IndInv /\ Reads /\ [Next]_vars => Reads'
    <2>1. ASSUME IndInv, Reads, Next PROVE Reads'
        BY <2>1, ReadsNext
    <2>2. ASSUME Reads, UNCHANGED vars PROVE Reads'
        BY <2>2 DEF ReadsAheadOfRow, HasRead, Current, vars, flushVars, redisVars, storeVars
    <2> QED BY <2>1, <2>2
<1>3. IndInv /\ Reads /\ [Next]_vars => [Grow]_vars
    <2> SUFFICES ASSUME IndInv, Reads, Next, NEW b \in Buckets, NEW k \in Keys, row'[b][k] < row[b][k]
                 PROVE  <<b, k>> \in expired
        OBVIOUS
    <2>1. row[b][k] \in Nat
        BY DEF IndInv, TypeOK
    <2>2. ASSUME NEW i \in Procs, Persist(i), row'[b] # row[b] PROVE <<b, k>> \in expired
        <3>1. b = Current(i) /\ row'[b] = snap[i]
            BY <2>2 DEF Persist, IndInv, TypeOK
        <3>2. snap[i][k] \in Nat /\ (row[b][k] <= snap[i][k] \/ <<b, k>> \in expired)
            BY <2>2, <3>1 DEF Persist, ReadsAheadOfRow, HasRead, IndInv, TypeOK
        <3> QED BY <2>1, <3>1, <3>2
    <2>3. row' = row \/ \E i \in Procs : Persist(i)
        BY WhoWrites
    <2> QED BY <2>1, <2>2, <2>3
<1> HIDE DEF Reads
<1>4. Spec => [][Grow]_vars
    BY <1>1, <1>2, <1>3, Invariance, PTL DEF Spec
<1> QED BY <1>4 DEF OnlyExpiryShrinksRows

----------------------------------------------------------------------------
(* A graceful stop keeps the buckets *)

\* stop() waits for the batch and a crash takes the handlers along.
LEMMA HandlersNext ==
    ASSUME TypeOK, HandlersAreUp, Next PROVE HandlersAreUp'
<1> SUFFICES ASSUME NEW j \in Procs, NEW f \in Events, pc'[j][f] # "none" PROVE up'[j] = "up"
    BY DEF HandlersAreUp
<1>1. ASSUME up' = up, pc' = pc PROVE up'[j] = "up"
    BY <1>1 DEF HandlersAreUp
<1>2. ASSUME NEW i \in Procs, NEW e \in Events, Deliver(i, e) \/ TaskStep(i, e) PROVE up'[j] = "up"
    <2>1. /\ up' = up /\ up[i] = "up"
          /\ \E c \in TaskStates : pc' = [pc EXCEPT ![i][e] = c]
        BY <1>2 DEF Deliver, TaskStep, Skip, Begin, BumpLate, Contribute, MarkProcessed, AttemptFails,
                    procVars, HandlersAreUp, TaskStates, Classify
    <2>2. PICK c \in TaskStates : pc' = [pc EXCEPT ![i][e] = c]
        BY <2>1
    <2>3. j = i \/ pc'[j][f] = pc[j][f]
        BY <2>2, TaskSet
    <2> QED BY <2>1, <2>3 DEF HandlersAreUp
<1>3. ASSUME NEW i \in Procs, FlushStep(i) PROVE up'[j] = "up"
    <2>1. pc' = pc /\ \A k \in Procs : up[k] = "up" => up'[k] = "up"
        BY <1>3 DEF FlushStep, FlushStart, FlushRead, Persist, Emit, FlushFails, FlushGoesOn, procVars, taskVars, TypeOK
    <2> QED BY <2>1 DEF HandlersAreUp
<1>4. ASSUME NEW i \in Procs, Stop(i) \/ Restart(i) PROVE up'[j] = "up"
    <2>1. pc' = pc /\ \A e \in Events : pc[i][e] = "none" \/ up'[i] = "up"
        BY <1>4 DEF Stop, Restart, taskVars, TypeOK
    <2>2. j # i => up'[j] = up[j]
        BY <1>4 DEF Stop, Restart, TypeOK
    <2> QED BY <2>1, <2>2 DEF HandlersAreUp
<1>5. ASSUME NEW i \in Procs, Crash(i) PROVE up'[j] = "up"
    <2>1. j # i /\ pc'[j] = pc[j] /\ up'[j] = up[j]
        BY <1>5 DEF Crash, TypeOK
    <2> QED BY <2>1 DEF HandlersAreUp
<1>6. CASE Tick \/ \E b \in Buckets, k \in Keys : Expire(b, k)
    BY <1>1, <1>6 DEF Tick, Expire, procVars, taskVars
<1> QED BY <1>2, <1>3, <1>4, <1>5, <1>6 DEF Next

\* The metrics of a bucket are published after its row is committed.
LEMMA EmitNext ==
    ASSUME TypeOK, EmitIsClosed, Next PROVE EmitIsClosed' /\ closed \subseteq closed'
<1>1. closed \subseteq closed'
    BY WhoWrites DEF Persist
<1>2. ASSUME NEW j \in Procs, flush'[j] = "emit" PROVE Current(j)' \in closed'
    <2>1. CASE flush'[j] = flush[j] /\ todo'[j] = todo[j]
        BY <1>1, <1>2, <2>1 DEF EmitIsClosed, Current
    <2>2. CASE Persist(j)
        BY <2>2 DEF Persist, Current
    <2>3. ASSUME NEW i \in Procs, FlushStep(i) \/ Stop(i) \/ Crash(i), i # j
          PROVE  flush'[j] = flush[j] /\ todo'[j] = todo[j]
        BY <2>3 DEF FlushStep, FlushStart, FlushRead, Persist, Emit, FlushFails, FlushGoesOn, Stop, Crash, TypeOK
    <2>4. CASE FlushStart(j) \/ FlushRead(j) \/ Emit(j) \/ FlushFails(j) \/ Stop(j) \/ Crash(j)
        <3>1. flush'[j] # "emit"
            BY <2>4 DEF FlushStart, FlushRead, Emit, FlushFails, FlushGoesOn, Stop, Crash, TypeOK, Keys
        <3> QED BY <1>2, <3>1
    <2>5. ASSUME NEW i \in Procs, NEW e \in Events, Deliver(i, e) \/ TaskStep(i, e) PROVE flush' = flush /\ todo' = todo
        BY <2>5 DEF Deliver, TaskStep, Skip, Begin, BumpLate, Contribute, MarkProcessed, AttemptFails, flushVars
    <2>6. ASSUME Tick \/ (\E i \in Procs : Restart(i)) \/ \E b \in Buckets, k \in Keys : Expire(b, k)
          PROVE  flush' = flush /\ todo' = todo
        BY <2>6 DEF Tick, Restart, Expire, flushVars
    <2> QED BY <2>1, <2>2, <2>3, <2>4, <2>5, <2>6 DEF Next, FlushStep
<1> QED BY <1>1, <1>2 DEF EmitIsClosed

\* A forced flush drops a bucket from both sets at once and ends with none; nobody
\* opens a bucket in a process that is stopping.
LEMMA ForcedNext ==
    ASSUME Faults = {}, TypeOK, HandlersAreUp, \A i \in Procs : ForcedFlushCovers(i),
           Next, crashes' = crashes, NEW j \in Procs
    PROVE  ForcedFlushCovers(j)'
<1> USE DEF ForcedFlushCovers
<1>1. ASSUME up'[j] = up[j], open'[j] = open[j], flush'[j] = flush[j], todo'[j] = todo[j]
      PROVE  ForcedFlushCovers(j)'
    BY <1>1
<1>2. ASSUME up'[j] = "up" PROVE ForcedFlushCovers(j)'
    BY <1>2
<1>3. ASSUME NEW i \in Procs, NEW e \in Events, Deliver(i, e) \/ TaskStep(i, e) PROVE ForcedFlushCovers(j)'
    <2>1. up' = up /\ flush' = flush /\ todo' = todo
        BY <1>3 DEF Deliver, TaskStep, Skip, Begin, BumpLate, Contribute, MarkProcessed, AttemptFails, procVars, flushVars
    <2>2. i # j => open'[j] = open[j]
        BY <1>3 DEF Deliver, TaskStep, Skip, Begin, BumpLate, Contribute, MarkProcessed, AttemptFails, procVars, TypeOK
    <2>3. up[i] = "up" \/ open' = open
        BY <1>3 DEF Deliver, TaskStep, Skip, Begin, BumpLate, Contribute, MarkProcessed, AttemptFails, procVars, HandlersAreUp
    <2> QED BY <1>1, <1>2, <2>1, <2>2, <2>3
<1>4. ASSUME NEW i \in Procs, FlushStep(i) \/ Stop(i) \/ Restart(i), i # j PROVE ForcedFlushCovers(j)'
    <2>1. up'[j] = up[j] /\ open'[j] = open[j] /\ flush'[j] = flush[j] /\ todo'[j] = todo[j]
        BY <1>4 DEF FlushStep, FlushStart, FlushRead, Persist, Emit, FlushFails, FlushGoesOn, Stop, Restart,
                    TypeOK, procVars, flushVars
    <2> QED BY <1>1, <2>1
<1>5. CASE FlushStart(j) \/ Restart(j)
    BY <1>2, <1>5 DEF FlushStart, Restart, procVars, TypeOK
<1>6. CASE FlushRead(j) \/ Persist(j)
    <2>1. up' = up /\ open' = open /\ todo' = todo /\ flush'[j] # "idle"
        BY <1>6 DEF FlushRead, Persist, procVars, TypeOK, Keys
    <2> QED BY <2>1
<1>7. CASE Emit(j)
    <2> DEFINE rest == todo[j] \ {Current(j)}
    <2>1. /\ open'[j] = open[j] \ {Current(j)} /\ todo'[j] = rest
          /\ flush'[j] = IF rest = {} THEN "idle" ELSE "den"
          /\ up'[j] = IF rest = {} /\ up[j] = "stopping" THEN "down" ELSE up[j]
        BY <1>7 DEF Emit, FlushGoesOn, TypeOK
    <2>2. up[j] = "stopping" => open'[j] \subseteq rest
        BY <2>1
    <2>3. up[j] = "down" => open'[j] = {}
        BY <2>1
    <2> HIDE DEF rest
    <2> QED BY <2>1, <2>2, <2>3
<1>8. CASE Stop(j)
    BY <1>8 DEF Stop, TypeOK
<1>9. ASSUME NEW i \in Procs PROVE ~FlushFails(i)
    BY DEF FlushFails
<1>10. ASSUME NEW i \in Procs PROVE ~Crash(i)
    BY DEF Crash, TypeOK
<1>11. CASE Tick \/ \E b \in Buckets, k \in Keys : Expire(b, k)
    BY <1>1, <1>11 DEF Tick, Expire, procVars, flushVars
<1> QED BY <1>3, <1>4, <1>5, <1>6, <1>7, <1>8, <1>9, <1>10, <1>11 DEF Next, FlushStep

\* A bucket leaves memory when it has its row.
LEMMA RememberedStays ==
    ASSUME TypeOK, EmitIsClosed, \A i \in Procs : ForcedFlushCovers(i), Next,
           NEW b \in Buckets, Remembered(b)
    PROVE  Remembered(b)'
<1>1. closed \subseteq closed'
    BY EmitNext
<1>2. CASE b \in closed
    BY <1>1, <1>2 DEF Remembered
<1>3. ASSUME NEW i \in Procs, b \in open[i], b \notin closed PROVE b \in open'[i]
    <2>1. ASSUME NEW j \in Procs, Emit(j) PROVE b \in open'[i]
        BY <1>3, <2>1 DEF Emit, EmitIsClosed, TypeOK
    <2>2. ASSUME NEW j \in Procs, Restart(j) PROVE b \in open'[i]
        BY <1>3, <2>2 DEF Restart, ForcedFlushCovers, TypeOK
    <2>3. ASSUME NEW j \in Procs, NEW e \in Events, Deliver(j, e) \/ TaskStep(j, e) PROVE b \in open'[i]
        <3>1. CASE Begin(j, e)
            BY <1>3, <3>1 DEF Begin, TypeOK
        <3>2. CASE BumpLate(j, e)
            BY <1>3, <3>2 DEF BumpLate, TypeOK
        <3>3. CASE Deliver(j, e) \/ Skip(j, e) \/ Contribute(j, e) \/ MarkProcessed(j, e) \/ AttemptFails(j, e)
            BY <1>3, <3>3 DEF Deliver, Skip, Contribute, MarkProcessed, AttemptFails, procVars
        <3> QED BY <2>3, <3>1, <3>2, <3>3 DEF TaskStep
    <2>4. ASSUME NEW j \in Procs, FlushStart(j) \/ FlushRead(j) \/ Persist(j) \/ FlushFails(j) \/ Stop(j) \/ Crash(j)
          PROVE  b \in open'[i]
        BY <1>3, <2>4 DEF FlushStart, FlushRead, Persist, FlushFails, Stop, Crash, procVars
    <2>5. CASE Tick \/ \E c \in Buckets, k \in Keys : Expire(c, k)
        BY <1>3, <2>5 DEF Tick, Expire, procVars
    <2> QED BY <2>1, <2>2, <2>3, <2>4, <2>5 DEF Next, FlushStep
<1> QED BY <1>2, <1>3 DEF Remembered

\* handle() remembers the bucket before it increments the first contribution.
LEMMA HandlerRemembers ==
    ASSUME TypeOK, EmitIsClosed, \A i \in Procs : ForcedFlushCovers(i), Next,
           \A i \in Procs, e \in Events : pc[i][e] \in {"num", "den"} => Remembered(BucketOf(EventTime[e])),
           NEW j \in Procs, NEW f \in Events, pc'[j][f] \in {"num", "den"}
    PROVE  Remembered(BucketOf(EventTime[f]))'
<1> DEFINE b == BucketOf(EventTime[f])
<1>1. b \in Buckets
    BY OwnBucket
<1>2. CASE pc[j][f] \in {"num", "den"}
    BY <1>1, <1>2, RememberedStays
<1>3. CASE pc[j][f] \notin {"num", "den"}
    <2>1. Begin(j, f) \/ BumpLate(j, f)
        <3>1. ASSUME NEW i \in Procs, NEW e \in Events, Deliver(i, e) \/ TaskStep(i, e),
                     ~(Begin(j, f) \/ BumpLate(j, f))
              PROVE  pc'[j][f] = pc[j][f] \/ pc'[j][f] \notin {"num", "den"}
            <4>1. PICK c \in TaskStates : pc' = [pc EXCEPT ![i][e] = c]
                BY <3>1 DEF Deliver, TaskStep, Skip, Begin, BumpLate, Contribute, MarkProcessed, AttemptFails,
                            TaskStates, Classify
            <4>2. CASE ~(i = j /\ e = f)
                BY <4>1, <4>2, TaskSet
            <4>3. CASE i = j /\ e = f
                BY <1>3, <3>1, <4>3 DEF Deliver, TaskStep, Skip, Contribute, MarkProcessed, AttemptFails, TypeOK
            <4> QED BY <4>2, <4>3
        <3>2. ASSUME NEW i \in Procs, FlushStep(i) \/ Stop(i) \/ Restart(i) PROVE pc' = pc
            BY <3>2 DEF FlushStep, FlushStart, FlushRead, Persist, Emit, FlushFails, Stop, Restart, taskVars
        <3>3. ASSUME NEW i \in Procs, Crash(i) PROVE pc'[j][f] \in {"none", pc[j][f]}
            BY <3>3 DEF Crash, TypeOK
        <3>4. ASSUME Tick \/ \E c \in Buckets, k \in Keys : Expire(c, k) PROVE pc' = pc
            BY <3>4 DEF Tick, Expire, taskVars
        <3> QED BY <1>3, <3>1, <3>2, <3>3, <3>4 DEF Next
    <2>2. b \in open'[j]
        <3>1. CASE Begin(j, f)
            <4>1. Classify(Observe(maxSeen[j], EventTime[f]), BucketEnd(b)) = "onTime"
                BY <3>1 DEF Begin, TypeOK, Classify
            <4> QED BY <3>1, <4>1 DEF Begin, TypeOK
        <3>2. CASE BumpLate(j, f)
            <4>1. pc[j][f] = "bumpAccepted"
                BY <3>2 DEF BumpLate, TypeOK
            <4> QED BY <3>2, <4>1 DEF BumpLate, TypeOK
        <3> QED BY <2>1, <3>1, <3>2
    <2> QED BY <2>2 DEF Remembered
<1> QED BY <1>2, <1>3

\* A denominator rises by a handler that has remembered the bucket.
LEMMA CountedRemembers ==
    ASSUME TypeOK, EmitIsClosed, \A i \in Procs : ForcedFlushCovers(i), Next,
           \A i \in Procs, e \in Events : pc[i][e] \in {"num", "den"} => Remembered(BucketOf(EventTime[e])),
           \A b \in Buckets : redis[b]["den"] > 0 => Remembered(b),
           NEW c \in Buckets, redis'[c]["den"] > 0
    PROVE  Remembered(c)'
<1>1. ASSUME Remembered(c) PROVE Remembered(c)'
    BY <1>1, RememberedStays
<1>2. CASE redis'[c]["den"] = redis[c]["den"]
    BY <1>1, <1>2
<1>6. ASSUME NEW b \in Buckets, NEW k \in Keys, Expire(b, k), redis'[c]["den"] # redis[c]["den"] PROVE FALSE
    <2>1. redis'[c]["den"] = 0
        BY <1>6 DEF Expire, TypeOK
    <2> QED BY <2>1
<1>3. ASSUME NEW i \in Procs, NEW e \in Events, BumpLate(i, e) PROVE redis'[c]["den"] = redis[c]["den"]
    BY <1>3, IncrementAdds DEF BumpLate, Keys
<1>4. ASSUME NEW i \in Procs, NEW e \in Events, Contribute(i, e), redis'[c]["den"] # redis[c]["den"]
      PROVE  Remembered(c)
    <2>1. c = BucketOf(EventTime[e]) /\ pc[i][e] \in {"num", "den"}
        BY <1>4, IncrementAdds DEF Contribute, Keys
    <2> QED BY <2>1
<1>5. \/ redis' = redis
      \/ \E i \in Procs, e \in Events : BumpLate(i, e) \/ Contribute(i, e)
      \/ \E b \in Buckets, k \in Keys : Expire(b, k)
    BY WhoWrites DEF Begin, redisVars
<1> QED BY <1>1, <1>2, <1>3, <1>4, <1>5, <1>6

\* stop() drains the batch and flushes every open bucket by force: when the stores
\* answer and no process crashed, processes that are down have left no bucket with
\* a count and without its row.
THEOREM StopSafety ==
    ASSUME Faults = {}
    PROVE  Spec => []GracefulStopKeepsBuckets
<1>1. Init => StopInv
    BY ParameterAssumption DEF Init, StopInv, EmitIsClosed, HandlersAreUp, ForcedFlushCovers, Zero, Keys
<1>2. IndInv /\ StopInv /\ [Next]_vars => StopInv'
    <2>1. ASSUME IndInv, StopInv, Next PROVE StopInv'
        <3>1. TypeOK /\ HandlersAreUp /\ EmitIsClosed
            BY <2>1 DEF IndInv, StopInv
        <3>2. HandlersAreUp' /\ EmitIsClosed'
            BY <2>1, <3>1, HandlersNext, EmitNext
        <3>3. crashes' = 0 => crashes = 0
            <4>1. crashes' = crashes \/ crashes' = crashes + 1
                BY <2>1, WhoWrites
            <4> QED BY <3>1, <4>1, ParameterAssumption DEF TypeOK
        <3>4. ASSUME crashes' = 0
              PROVE  /\ \A i \in Procs : ForcedFlushCovers(i)'
                     /\ \A b \in Buckets : redis'[b]["den"] > 0 => Remembered(b)'
                     /\ \A i \in Procs, e \in Events :
                          pc'[i][e] \in {"num", "den"} => Remembered(BucketOf(EventTime[e]))'
            <4>1. /\ crashes' = crashes /\ \A i \in Procs : ForcedFlushCovers(i)
                  /\ \A b \in Buckets : redis[b]["den"] > 0 => Remembered(b)
                  /\ \A i \in Procs, e \in Events :
                        pc[i][e] \in {"num", "den"} => Remembered(BucketOf(EventTime[e]))
                BY <2>1, <3>3, <3>4 DEF StopInv
            <4>2. \A i \in Procs : ForcedFlushCovers(i)'
                BY <2>1, <3>1, <4>1, ForcedNext
            <4>3. \A b \in Buckets : redis'[b]["den"] > 0 => Remembered(b)'
                BY <2>1, <3>1, <4>1, CountedRemembers
            <4>4. \A i \in Procs, e \in Events :
                    pc'[i][e] \in {"num", "den"} => Remembered(BucketOf(EventTime[e]))'
                BY <2>1, <3>1, <4>1, HandlerRemembers
            <4> QED BY <4>2, <4>3, <4>4
        <3> QED BY <3>2, <3>4 DEF StopInv
    <2>2. ASSUME StopInv, UNCHANGED vars PROVE StopInv'
        BY <2>2 DEF StopInv, EmitIsClosed, HandlersAreUp, ForcedFlushCovers, Remembered, Current,
                    vars, procVars, flushVars, taskVars, redisVars, storeVars
    <2> QED BY <2>1, <2>2
<1>3. StopInv => GracefulStopKeepsBuckets
    BY DEF StopInv, GracefulStopKeepsBuckets, ForcedFlushCovers, Remembered
<1> QED BY <1>1, <1>2, <1>3, Invariance, PTL DEF Spec
=============================================================================
