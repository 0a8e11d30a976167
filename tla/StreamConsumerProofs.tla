------------------------ MODULE StreamConsumerProofs ------------------------
(***************************************************************************)
(* Machine-checked proofs about StreamConsumer, for every group, log,      *)
(* fault set and bound.                                                    *)
(***************************************************************************)
EXTENDS StreamConsumer, TLAPS

\* A slot is a pair of a partition and an offset inside its log.
LEMMA SlotFacts ==
    /\ \A s \in Slots : /\ s[1] \in Partitions
                        /\ s[2] \in 1..Len(Log[s[1]])
                        /\ s = <<s[1], s[2]>>
                        /\ EventOf(s) \in EventIds
    /\ \A p \in Partitions : \A i \in 1..Len(Log[p]) : <<p, i>> \in Slots
    /\ \A p \in Partitions : Len(Log[p]) \in Nat
<1>1. \A p \in Partitions : /\ Log[p] \in Seq(EventIds)
                            /\ Len(Log[p]) \in Nat
                            /\ \A i \in 1..Len(Log[p]) : Log[p][i] \in EventIds
  BY LogAssumption
<1>2. ASSUME NEW s \in Slots
      PROVE  s[1] \in Partitions /\ s[2] \in 1..Len(Log[s[1]]) /\ s = <<s[1], s[2]>>
  <2>1. PICK p \in Partitions : s \in {p} \X (1..Len(Log[p]))
    BY DEF Slots
  <2> QED
    BY <2>1
<1>3. ASSUME NEW s \in Slots PROVE EventOf(s) \in EventIds
  BY <1>1, <1>2 DEF EventOf
<1>4. ASSUME NEW p \in Partitions, NEW i \in 1..Len(Log[p]) PROVE <<p, i>> \in Slots
  BY DEF Slots
<1> QED
  BY <1>1, <1>2, <1>3, <1>4

----------------------------------------------------------------------------
(* Type correctness *)

\* The initial state, every member down and nothing stored, is well typed.
LEMMA TypeInit == Init => TypeOK
BY BoundAssumption, FlagAssumption DEF Init, TypeOK, Busy, Phases

\* Every operation of the consumer and of its environment keeps the types.
LEMMA TypeNext == TypeOK /\ [Next]_vars => TypeOK'
<1> SUFFICES ASSUME TypeOK, [Next]_vars PROVE TypeOK'
  OBVIOUS
<1> USE BoundAssumption, FlagAssumption
<1>1. ASSUME NEW m \in Members, Start(m) PROVE TypeOK'
  BY <1>1 DEF TypeOK, Start, Phases, taskVars, storeVars, envVars
<1>2. ASSUME NEW m \in Members, Signal(m) PROVE TypeOK'
  BY <1>2 DEF TypeOK, Signal, Phases, taskVars, storeVars
<1>3. ASSUME NEW m \in Members, Crash(m) PROVE TypeOK'
  BY <1>3 DEF TypeOK, Crash, Phases, storeVars
<1>4. ASSUME NEW m \in Members, PollNothing(m) PROVE TypeOK'
  BY <1>4 DEF TypeOK, PollNothing, LoopTop, Phases, taskVars, storeVars, envVars
<1>5. ASSUME NEW m \in Members, NEW n \in Fetches(m), Fetch(m, n) PROVE TypeOK'
  <2>1. n \in [Partitions -> Nat]
    BY DEF Fetches
  <2>2. pos' \in [Members -> [Partitions -> Nat]]
    BY <1>5, <2>1 DEF TypeOK, Fetch
  <2>3. commitTo' \in [Members -> [Partitions -> Nat]]
    BY <1>5, <2>1 DEF TypeOK, Fetch
  <2>4. pc' \in [Members -> [Slots -> Busy \cup {"idle", "done"}]]
    BY <1>5 DEF TypeOK, Fetch, Busy
  <2>5. attempt' \in [Members -> [Slots -> 0..MaxAttempts]]
    BY <1>5 DEF TypeOK, Fetch
  <2> QED
    BY <1>5, <2>2, <2>3, <2>4, <2>5 DEF TypeOK, Fetch, Phases, storeVars, envVars
<1>6. ASSUME NEW m \in Members, BatchDone(m) PROVE TypeOK'
  BY <1>6 DEF TypeOK, BatchDone, Phases, taskVars, storeVars, envVars
<1>7. ASSUME NEW m \in Members, Commit(m) PROVE TypeOK'
  <2>1. committed' \in [Partitions -> Nat]
    <3>1. committed \in [Partitions -> Nat] /\ commitTo[m] \in [Partitions -> Nat]
      BY DEF TypeOK
    <3>2. \/ committed' = [p \in Partitions |->
                IF commitTo[m][p] > 0 THEN commitTo[m][p] ELSE committed[p]]
          \/ committed' = committed
      BY <1>7 DEF Commit
    <3> QED
      BY <3>1, <3>2
  <2>2. phase' \in [Members -> Phases]
    BY <1>7 DEF TypeOK, Commit, LoopTop, Phases
  <2> QED
    BY <1>7, <2>1, <2>2 DEF TypeOK, Commit, taskVars, storeVars, envVars
<1>8. ASSUME NEW m \in Members, StopCommit(m) PROVE TypeOK'
  <2>1. committed' \in [Partitions -> Nat]
    BY <1>8 DEF TypeOK, StopCommit
  <2> QED
    BY <1>8, <2>1 DEF TypeOK, StopCommit, Phases, storeVars, envVars
<1>9. ASSUME NEW assign \in [Partitions -> Members], Rebalance(assign) PROVE TypeOK'
  <2>1. moves' \in 0..MaxMoves
    BY <1>9 DEF TypeOK, Rebalance
  <2>2. owner' \in [Partitions -> Members \cup {NoMember}]
    BY <1>9 DEF Rebalance
  <2>3. pos' \in [Members -> [Partitions -> Nat]]
    BY <1>9 DEF TypeOK, Rebalance
  <2> QED
    BY <1>9, <2>1, <2>2, <2>3 DEF TypeOK, Rebalance, taskVars, storeVars
<1>10. ASSUME NEW m \in Members, NEW s \in Slots, TaskStep(m, s) PROVE TypeOK'
  <2>0. EventOf(s) \in EventIds
    BY SlotFacts
  <2>1. ASSUME NEW st \in Busy, GoTo(m, s, st)
        PROVE  /\ pc' \in [Members -> [Slots -> Busy \cup {"idle", "done"}]]
               /\ attempt' \in [Members -> [Slots -> 0..MaxAttempts]]
    BY <2>1 DEF TypeOK, GoTo
  <2>2. ASSUME Return(m, s)
        PROVE  /\ pc' \in [Members -> [Slots -> Busy \cup {"idle", "done"}]]
               /\ attempt' \in [Members -> [Slots -> 0..MaxAttempts]]
    BY <2>2 DEF TypeOK, Return
  <2>3. ASSUME RetryOrDeadLetter(m, s)
        PROVE  /\ pc' \in [Members -> [Slots -> Busy \cup {"idle", "done"}]]
               /\ attempt' \in [Members -> [Slots -> 0..MaxAttempts]]
    <3>1. CASE attempt[m][s] < MaxAttempts
      <4>1. FirstStep \in Busy
        BY DEF FirstStep, Busy
      <4>2. pc' = [pc EXCEPT ![m][s] = FirstStep]
        BY <2>3, <3>1 DEF RetryOrDeadLetter
      <4>3. attempt' = [attempt EXCEPT ![m][s] = attempt[m][s] + 1]
        BY <2>3, <3>1 DEF RetryOrDeadLetter
      <4>4. attempt[m][s] + 1 \in 0..MaxAttempts
        BY <3>1 DEF TypeOK
      <4> QED
        BY <4>1, <4>2, <4>3, <4>4 DEF TypeOK
    <3>2. CASE ~(attempt[m][s] < MaxAttempts)
      BY <2>1, <2>3, <3>2 DEF RetryOrDeadLetter, Busy
    <3> QED
      BY <3>1, <3>2
  <2>4. /\ pc' \in [Members -> [Slots -> Busy \cup {"idle", "done"}]]
        /\ attempt' \in [Members -> [Slots -> 0..MaxAttempts]]
    <3>1. CASE Admit(m, s)
      BY <3>1 DEF TypeOK, Admit, FirstStep, Busy
    <3>2. CASE Check(m, s)
      BY <2>1, <2>2, <2>3, <3>2 DEF Check, Busy
    <3>3. CASE Handle(m, s)
      BY <2>1, <2>2, <2>3, <3>3 DEF Handle, Busy
    <3>4. CASE Mark(m, s)
      BY <2>2, <2>3, <3>4 DEF Mark
    <3>5. CASE PublishDeadLetter(m, s)
      BY <2>1, <3>5 DEF PublishDeadLetter, Busy
    <3>6. CASE InsertDeadLetter(m, s)
      BY <2>1, <2>2, <3>6 DEF InsertDeadLetter, Busy
    <3>7. CASE MarkFailed(m, s)
      BY <2>2, <3>7 DEF MarkFailed
    <3> QED
      BY <1>10, <3>1, <3>2, <3>3, <3>4, <3>5, <3>6, <3>7 DEF TaskStep
  <2>5. record' \in [EventIds -> {"none", "processed", "failed"}]
    BY <1>10, <2>0 DEF TaskStep, TypeOK, Admit, Check, Handle, Mark, PublishDeadLetter,
       InsertDeadLetter, MarkFailed, storeVars
  <2>6. applied' \in [EventIds -> Nat]
    BY <1>10, <2>0 DEF TaskStep, TypeOK, Admit, Check, Handle, Mark, PublishDeadLetter,
       InsertDeadLetter, MarkFailed, storeVars
  <2>7. dlqTopic' \in SUBSET Slots /\ dlqTable' \in SUBSET Slots /\ lost' \in SUBSET Slots
    BY <1>10 DEF TaskStep, TypeOK, Admit, Check, Handle, Mark, PublishDeadLetter,
       InsertDeadLetter, MarkFailed, storeVars
  <2> QED
    BY <1>10, <2>4, <2>5, <2>6, <2>7 DEF TaskStep, TypeOK, memberVars, envVars
<1>11. CASE UNCHANGED vars
  BY <1>11 DEF TypeOK, vars, memberVars, taskVars, storeVars, envVars
<1> QED
  BY <1>1, <1>2, <1>3, <1>4, <1>5, <1>6, <1>7, <1>8, <1>9, <1>10, <1>11
     DEF Next, MemberStep

\* Every reachable state of the consumer group is well typed.
THEOREM TypeCorrect == Spec => []TypeOK
BY TypeInit, TypeNext, PTL DEF Spec

----------------------------------------------------------------------------
(* The committed offset never covers a message that is not settled *)

\* A decided fate stays decided: the effect count and the dead letters only grow.
LEMMA SettledStays ==
    ASSUME TypeOK, [Next]_vars, NEW s \in Slots, Settled(s)
    PROVE  Settled(s)'
<1>0. EventOf(s) \in EventIds /\ \A t \in Slots : EventOf(t) \in EventIds
  BY SlotFacts
<1>1. CASE UNCHANGED storeVars
  BY <1>1 DEF Settled, EventOf, storeVars
<1>2. ASSUME NEW m \in Members, NEW t \in Slots, TaskStep(m, t) PROVE Settled(s)'
  <2>1. \A e \in EventIds : applied'[e] \in Nat /\ applied[e] \in Nat /\ applied'[e] >= applied[e]
    BY <1>0, <1>2 DEF TaskStep, TypeOK, Admit, Check, Handle, Mark, PublishDeadLetter,
       InsertDeadLetter, MarkFailed, storeVars
  <2>2. dlqTopic \subseteq dlqTopic' /\ dlqTable \subseteq dlqTable' /\ lost \subseteq lost'
    BY <1>2 DEF TaskStep, Admit, Check, Handle, Mark, PublishDeadLetter,
       InsertDeadLetter, MarkFailed, storeVars
  <2>3. applied[EventOf(s)] > 0 => applied'[EventOf(s)] > 0
    BY <1>0, <2>1
  <2>4. Settled(s)' <=> \/ applied'[EventOf(s)] > 0
                       \/ s \in dlqTopic' \cup dlqTable' \cup lost'
    BY DEF Settled, EventOf
  <2> QED
    BY <2>2, <2>3, <2>4 DEF Settled
<1> QED
  BY <1>1, <1>2 DEF Next, MemberStep, Start, Signal, Crash, PollNothing, Fetch, BatchDone,
     Commit, StopCommit, Rebalance, vars

\* A task step touches its own task only, and leaves it busy or its message settled.
LEMMA TaskStepSettles ==
    ASSUME TypeOK, TypeOK', ProcessedWasApplied, TasksAreHonest,
           NEW m \in Members, NEW s \in Slots, TaskStep(m, s)
    PROVE  /\ pc[m][s] \in Busy
           /\ pc'[m][s] \in Busy \/ Settled(s)'
           /\ \A n \in Members : \A t \in Slots :
                 n # m \/ t # s => pc'[n][t] = pc[n][t]
<1>0. EventOf(s) \in EventIds
  BY SlotFacts
<1>1. pc[m][s] \in Busy
  BY DEF TaskStep, Admit, Check, Handle, Mark, PublishDeadLetter, InsertDeadLetter,
     MarkFailed, Busy
<1>2. \E st : pc' = [pc EXCEPT ![m][s] = st]
  BY DEF TaskStep, Admit, Check, Handle, Mark, PublishDeadLetter, InsertDeadLetter,
     MarkFailed, GoTo, Return, RetryOrDeadLetter
<1>3. \A n \in Members : \A t \in Slots : n # m \/ t # s => pc'[n][t] = pc[n][t]
  BY <1>2 DEF TypeOK
<1>4. ASSUME NEW st, pc' = [pc EXCEPT ![m][s] = st] PROVE pc'[m][s] = st
  BY <1>4 DEF TypeOK
<1>5. ASSUME RetryOrDeadLetter(m, s) PROVE pc'[m][s] \in Busy
  BY <1>4, <1>5 DEF RetryOrDeadLetter, GoTo, FirstStep, Busy
<1>6. ASSUME NEW st \in Busy, GoTo(m, s, st) PROVE pc'[m][s] \in Busy
  BY <1>4, <1>6 DEF GoTo
<1>7. pc'[m][s] \in Busy \/ Settled(s)'
  <2>0. Settled(s)' <=> \/ applied'[EventOf(s)] > 0
                       \/ s \in dlqTopic' \cup dlqTable' \cup lost'
    BY DEF Settled, EventOf
  <2>1. CASE Admit(m, s)
    BY <1>4, <2>1 DEF Admit, FirstStep, Busy
  <2>2. CASE Check(m, s)
    <3>1. CASE record[EventOf(s)] = "processed"
      BY <1>0, <2>0, <2>2, <3>1 DEF Check, ProcessedWasApplied, storeVars
    <3>2. CASE record[EventOf(s)] # "processed"
      BY <1>5, <1>6, <2>2, <3>2 DEF Check, Busy
    <3> QED
      BY <3>1, <3>2
  <2>3. CASE Handle(m, s)
    <3>1. CASE applied' = [applied EXCEPT ![EventOf(s)] = @ + 1]
      <4>1. applied'[EventOf(s)] > 0
        BY <1>0, <3>1 DEF TypeOK
      <4> QED
        BY <2>0, <4>1
    <3>2. CASE applied' # [applied EXCEPT ![EventOf(s)] = @ + 1]
      BY <1>5, <1>6, <2>3, <3>2 DEF Handle, Busy
    <3> QED
      BY <3>1, <3>2
  <2>4. CASE Mark(m, s)
    BY <1>0, <2>0, <2>4 DEF Mark, TasksAreHonest
  <2>5. CASE PublishDeadLetter(m, s)
    BY <1>6, <2>5 DEF PublishDeadLetter, Busy
  <2>6. CASE InsertDeadLetter(m, s)
    BY <2>0, <2>6 DEF InsertDeadLetter
  <2>7. CASE MarkFailed(m, s)
    <3>1. Settled(s)
      BY <2>7 DEF MarkFailed, TasksAreHonest
    <3> QED
      BY <2>0, <2>7, <3>1 DEF MarkFailed, Settled
  <2> QED
    BY <2>1, <2>2, <2>3, <2>4, <2>5, <2>6, <2>7 DEF TaskStep
<1> QED
  BY <1>1, <1>3, <1>7

\* The inductive invariant holds before any member has started.
LEMMA IndInit == Init => IndInv
<1> SUFFICES ASSUME Init PROVE IndInv
  OBVIOUS
<1>1. TypeOK
  BY TypeInit
<1>2. ProcessedWasApplied
  BY DEF Init, ProcessedWasApplied
<1>3. TasksAreHonest
  BY DEF Init, TasksAreHonest
<1>4. CommitsAreInHand
  BY SlotFacts DEF Init, CommitsAreInHand, InHand
<1>5. TasksOnlyInBatch
  BY DEF Init, TasksOnlyInBatch, Busy
<1>6. CommittedIsSettled
  BY SlotFacts DEF Init, CommittedIsSettled
<1> QED
  BY <1>1, <1>2, <1>3, <1>4, <1>5, <1>6 DEF IndInv

\* mark_processed() is only reached after handle() applied the effect.
LEMMA ProcessedWasAppliedNext ==
    ASSUME IndInv, [Next]_vars PROVE ProcessedWasApplied'
<1> USE DEF IndInv
<1>0. \A s \in Slots : EventOf(s) \in EventIds
  BY SlotFacts
<1>1. CASE UNCHANGED storeVars
  BY <1>1 DEF ProcessedWasApplied, storeVars
<1>2. ASSUME NEW m \in Members, NEW s \in Slots, TaskStep(m, s)
      PROVE  ProcessedWasApplied'
  <2>1. CASE Mark(m, s)
    BY <1>0, <2>1 DEF Mark, TasksAreHonest, ProcessedWasApplied, TypeOK
  <2>2. CASE MarkFailed(m, s)
    BY <1>0, <2>2 DEF MarkFailed, ProcessedWasApplied, TypeOK
  <2>3. CASE Handle(m, s)
    <3>1. \A e \in EventIds : applied[e] > 0 => applied'[e] > 0
      BY <1>0, <2>3 DEF Handle, TypeOK
    <3>2. record' = record
      BY <2>3 DEF Handle
    <3> QED
      BY <3>1, <3>2 DEF ProcessedWasApplied
  <2>4. CASE UNCHANGED <<record, applied>>
    BY <2>4 DEF ProcessedWasApplied
  <2> QED
    BY <1>2, <2>1, <2>2, <2>3, <2>4 DEF TaskStep, Admit, Check, PublishDeadLetter,
       InsertDeadLetter, storeVars
<1> QED
  BY <1>1, <1>2 DEF Next, MemberStep, Start, Signal, Crash, PollNothing, Fetch, BatchDone,
     Commit, StopCommit, Rebalance, vars

\* What a member step does to the tasks: nothing, or a new batch, or none left.
LEMMA OtherStepsKeepTasks ==
    ASSUME TypeOK, [Next]_vars,
           ~ \E m \in Members, s \in Slots : TaskStep(m, s)
    PROVE  /\ UNCHANGED storeVars
           /\ \A m \in Members : \A s \in Slots :
                 pc'[m][s] \in {pc[m][s], "idle", "queued"}
<1>1. UNCHANGED storeVars
  BY DEF Next, MemberStep, Start, Signal, Crash, PollNothing, Fetch, BatchDone,
     Commit, StopCommit, Rebalance, vars
<1>2. CASE UNCHANGED pc
  BY <1>1, <1>2
<1>3. ASSUME NEW m \in Members, Crash(m) \/ StopCommit(m)
      PROVE  \A n \in Members : \A s \in Slots :
                 pc'[n][s] \in {pc[n][s], "idle", "queued"}
  <2>1. pc' = [pc EXCEPT ![m] = [s \in Slots |-> "idle"]]
    BY <1>3 DEF Crash, StopCommit
  <2> QED
    BY <2>1 DEF TypeOK
<1>4. ASSUME NEW m \in Members, NEW n \in Fetches(m), Fetch(m, n)
      PROVE  \A k \in Members : \A s \in Slots :
                 pc'[k][s] \in {pc[k][s], "idle", "queued"}
  <2>1. pc' = [pc EXCEPT ![m] =
                 [s \in Slots |-> IF s \in Batch(m, n) THEN "queued" ELSE "idle"]]
    BY <1>4 DEF Fetch
  <2> QED
    BY <2>1 DEF TypeOK
<1>5. \/ UNCHANGED pc
      \/ \E m \in Members : Crash(m) \/ StopCommit(m)
      \/ \E m \in Members : \E n \in Fetches(m) : Fetch(m, n)
  <2>1. ASSUME NEW m \in Members,
               Start(m) \/ Signal(m) \/ PollNothing(m) \/ BatchDone(m) \/ Commit(m)
        PROVE  UNCHANGED pc
    BY <2>1 DEF Start, Signal, PollNothing, BatchDone, Commit, taskVars
  <2>2. ASSUME NEW assign \in [Partitions -> Members], Rebalance(assign)
        PROVE  UNCHANGED pc
    BY <2>2 DEF Rebalance, taskVars
  <2>3. CASE UNCHANGED vars
    BY <2>3 DEF vars, taskVars
  <2> QED
    BY <2>1, <2>2, <2>3 DEF Next, MemberStep
<1> QED
  BY <1>1, <1>2, <1>3, <1>4, <1>5

\* A task reaches mark_processed() only through handle() or _to_dlq().
LEMMA TasksAreHonestNext ==
    ASSUME IndInv, [Next]_vars PROVE TasksAreHonest'
<1> USE DEF IndInv
<1>0. \A s \in Slots : EventOf(s) \in EventIds
  BY SlotFacts
<1>1. CASE ~ \E m \in Members, s \in Slots : TaskStep(m, s)
  <2>1. /\ UNCHANGED storeVars
        /\ \A m \in Members : \A s \in Slots :
              pc'[m][s] \in {pc[m][s], "idle", "queued"}
    BY <1>1, OtherStepsKeepTasks
  <2> QED
    BY <2>1 DEF TasksAreHonest, Settled, EventOf, storeVars
<1>2. ASSUME NEW m \in Members, NEW s \in Slots, TaskStep(m, s)
      PROVE  TasksAreHonest'
  <2>0. TypeOK'
    BY TypeNext
  <2>1. \A n \in Members : \A t \in Slots :
           n # m \/ t # s => pc'[n][t] = pc[n][t]
    BY <1>2, <2>0, TaskStepSettles
  <2>2. \A t \in Slots : applied[EventOf(t)] > 0 => applied'[EventOf(t)] > 0
    <3>1. \/ applied' = applied
          \/ applied' = [applied EXCEPT ![EventOf(s)] = @ + 1]
      BY <1>2 DEF TaskStep, Admit, Check, Handle, Mark, PublishDeadLetter,
         InsertDeadLetter, MarkFailed, storeVars
    <3>2. applied \in [EventIds -> Nat] /\ EventOf(s) \in EventIds
      BY <1>0 DEF TypeOK
    <3>3. \A e \in EventIds : applied[e] > 0 => applied'[e] > 0
      BY <3>1, <3>2
    <3> QED
      BY <1>0, <3>3
  <2>3. \A t \in Slots : Settled(t) => Settled(t)'
    BY SettledStays
  <2>4. \A t \in Slots : EventOf(t)' = EventOf(t)
    BY DEF EventOf
  <2>5. pc'[m][s] = "mark" => applied'[EventOf(s)] > 0
    <3>1. ASSUME NEW st, pc' = [pc EXCEPT ![m][s] = st] PROVE pc'[m][s] = st
      BY <3>1 DEF TypeOK
    <3>2. CASE Handle(m, s)
      <4>1. CASE applied' = [applied EXCEPT ![EventOf(s)] = @ + 1]
        BY <1>0, <4>1 DEF TypeOK
      <4>2. CASE applied' # [applied EXCEPT ![EventOf(s)] = @ + 1]
        BY <3>1, <3>2, <4>2 DEF Handle, RetryOrDeadLetter, GoTo, FirstStep
      <4> QED
        BY <4>1, <4>2
    <3>3. CASE ~Handle(m, s)
      BY <1>2, <3>1, <3>3 DEF TaskStep, Admit, Check, Mark, PublishDeadLetter,
         InsertDeadLetter, MarkFailed, RetryOrDeadLetter, GoTo, Return, FirstStep
    <3> QED
      BY <3>2, <3>3
  <2>6. pc'[m][s] = "markFailed" => Settled(s)'
    <3>1. ASSUME NEW st, pc' = [pc EXCEPT ![m][s] = st] PROVE pc'[m][s] = st
      BY <3>1 DEF TypeOK
    <3>2. CASE InsertDeadLetter(m, s)
      BY <3>2 DEF InsertDeadLetter, Settled
    <3>3. CASE ~InsertDeadLetter(m, s)
      BY <1>2, <3>1, <3>3 DEF TaskStep, Admit, Check, Handle, Mark, PublishDeadLetter,
         MarkFailed, RetryOrDeadLetter, GoTo, Return, FirstStep
    <3> QED
      BY <3>2, <3>3
  <2> QED
    BY <2>1, <2>2, <2>3, <2>4, <2>5, <2>6 DEF TasksAreHonest
<1> QED
  BY <1>1, <1>2

\* gather() leaves no task behind: outside "handling" a member has none.
LEMMA TasksOnlyInBatchNext ==
    ASSUME IndInv, [Next]_vars PROVE TasksOnlyInBatch'
<1> USE DEF IndInv
<1>1. ASSUME NEW m \in Members, Start(m) PROVE TasksOnlyInBatch'
  BY <1>1 DEF Start, TasksOnlyInBatch, TypeOK, taskVars
<1>2. ASSUME NEW m \in Members, Signal(m) PROVE TasksOnlyInBatch'
  BY <1>2 DEF Signal, TasksOnlyInBatch, taskVars
<1>3. ASSUME NEW m \in Members, Crash(m) PROVE TasksOnlyInBatch'
  BY <1>3 DEF Crash, TasksOnlyInBatch, TypeOK, Busy
<1>4. ASSUME NEW m \in Members, PollNothing(m) PROVE TasksOnlyInBatch'
  BY <1>4 DEF PollNothing, LoopTop, TasksOnlyInBatch, TypeOK, taskVars
<1>5. ASSUME NEW m \in Members, NEW n \in Fetches(m), Fetch(m, n)
      PROVE  TasksOnlyInBatch'
  BY <1>5 DEF Fetch, TasksOnlyInBatch, TypeOK
<1>6. ASSUME NEW m \in Members, BatchDone(m) PROVE TasksOnlyInBatch'
  BY <1>6 DEF BatchDone, TasksOnlyInBatch, TypeOK, taskVars
<1>7. ASSUME NEW m \in Members, Commit(m) PROVE TasksOnlyInBatch'
  BY <1>7 DEF Commit, LoopTop, TasksOnlyInBatch, TypeOK, taskVars
<1>8. ASSUME NEW m \in Members, StopCommit(m) PROVE TasksOnlyInBatch'
  BY <1>8 DEF StopCommit, TasksOnlyInBatch, TypeOK, Busy
<1>9. ASSUME NEW assign \in [Partitions -> Members], Rebalance(assign)
      PROVE  TasksOnlyInBatch'
  BY <1>9 DEF Rebalance, TasksOnlyInBatch, taskVars
<1>10. ASSUME NEW m \in Members, NEW s \in Slots, TaskStep(m, s)
       PROVE  TasksOnlyInBatch'
  <2>0. TypeOK'
    BY TypeNext
  <2>1. /\ pc[m][s] \in Busy
        /\ \A n \in Members : \A t \in Slots :
              n # m \/ t # s => pc'[n][t] = pc[n][t]
    BY <1>10, <2>0, TaskStepSettles
  <2>2. phase' = phase
    BY <1>10 DEF TaskStep, memberVars
  <2> QED
    BY <2>1, <2>2 DEF TasksOnlyInBatch
<1>11. CASE UNCHANGED vars
  BY <1>11 DEF TasksOnlyInBatch, vars, memberVars, taskVars
<1> QED
  BY <1>1, <1>2, <1>3, <1>4, <1>5, <1>6, <1>7, <1>8, <1>9, <1>10, <1>11
     DEF Next, MemberStep

\* What is in hand stays in hand as long as a task leaves Busy only by settling.
LEMMA InHandStays ==
    ASSUME TypeOK, [Next]_vars, NEW m \in Members, NEW p \in Partitions, NEW k \in Nat,
           InHand(m, p, k),
           \A s \in Slots : pc[m][s] \in Busy => pc'[m][s] \in Busy \/ Settled(s)'
    PROVE  /\ k <= Len(Log[p])
           /\ \A i \in 1..k : Settled(<<p, i>>)' \/ pc'[m][<<p, i>>] \in Busy
<1>1. k <= Len(Log[p])
  BY DEF InHand
<1>2. ASSUME NEW i \in 1..k PROVE Settled(<<p, i>>)' \/ pc'[m][<<p, i>>] \in Busy
  <2>1. <<p, i>> \in Slots
    BY <1>1, SlotFacts
  <2>2. Settled(<<p, i>>) \/ pc[m][<<p, i>>] \in Busy
    BY DEF InHand
  <2> QED
    BY <2>1, <2>2, SettledStays
<1> QED
  BY <1>1, <1>2

\* A prefix without live tasks is settled to the last message.
LEMMA InHandIdle ==
    ASSUME NEW m \in Members, NEW p \in Partitions, NEW k \in Nat, InHand(m, p, k),
           \A s \in Slots : pc[m][s] \notin Busy
    PROVE  k <= Len(Log[p]) /\ \A i \in 1..k : Settled(<<p, i>>)
<1>1. ASSUME NEW i \in 1..k PROVE Settled(<<p, i>>)
  <2>1. <<p, i>> \in Slots
    BY SlotFacts DEF InHand
  <2> QED
    BY <2>1 DEF InHand
<1> QED
  BY <1>1 DEF InHand

\* Both commits, in _loop() and in stop(), keep the committed offsets settled.
LEMMA CommittedIsSettledNext ==
    ASSUME IndInv, [Next]_vars PROVE CommittedIsSettled'
<1> USE DEF IndInv
<1>1. SUFFICES ASSUME NEW p \in Partitions
               PROVE  /\ committed'[p] <= Len(Log[p])
                      /\ \A i \in 1..committed'[p] : Settled(<<p, i>>)
  <2>1. TypeOK'
    BY TypeNext
  <2>2. ASSUME NEW p \in Partitions, NEW i \in 1..committed'[p] PROVE Settled(<<p, i>>)'
    <3>1. <<p, i>> \in Slots
      <4>1. committed'[p] \in Nat /\ Len(Log[p]) \in Nat /\ committed'[p] <= Len(Log[p])
        BY <1>1, <2>1, SlotFacts DEF TypeOK
      <4>2. i \in 1..Len(Log[p])
        BY <4>1
      <4> QED
        BY <4>2, SlotFacts
    <3> QED
      BY <1>1, <3>1, SettledStays
  <2> QED
    BY <1>1, <2>2 DEF CommittedIsSettled
<1>2. CASE committed' = committed
  BY <1>2 DEF CommittedIsSettled
<1>3. ASSUME NEW m \in Members, Commit(m), committed' # committed
      PROVE  /\ committed'[p] <= Len(Log[p])
             /\ \A i \in 1..committed'[p] : Settled(<<p, i>>)
  <2>1. committed' = [q \in Partitions |->
            IF commitTo[m][q] > 0 THEN commitTo[m][q] ELSE committed[q]]
    BY <1>3 DEF Commit
  <2>2. commitTo[m][p] \in Nat /\ InHand(m, p, commitTo[m][p])
    BY DEF TypeOK, CommitsAreInHand
  <2>3. \A s \in Slots : pc[m][s] \notin Busy
    BY <1>3 DEF Commit, TasksOnlyInBatch
  <2>4. /\ commitTo[m][p] <= Len(Log[p])
        /\ \A i \in 1..commitTo[m][p] : Settled(<<p, i>>)
    BY <2>2, <2>3, InHandIdle
  <2> QED
    BY <2>1, <2>4 DEF CommittedIsSettled
<1>4. ASSUME NEW m \in Members, StopCommit(m), committed' # committed
      PROVE  /\ committed'[p] <= Len(Log[p])
             /\ \A i \in 1..committed'[p] : Settled(<<p, i>>)
  <2>1. committed' = [q \in Partitions |->
            IF owner[q] = m THEN pos[m][q] ELSE committed[q]]
    BY <1>4 DEF StopCommit
  <2>2. pos[m][p] \in Nat /\ InHand(m, p, pos[m][p])
    BY DEF TypeOK, CommitsAreInHand
  <2>3. \A s \in Slots : pc[m][s] \notin Busy
    BY <1>4 DEF StopCommit, TasksOnlyInBatch
  <2>4. /\ pos[m][p] <= Len(Log[p])
        /\ \A i \in 1..pos[m][p] : Settled(<<p, i>>)
    BY <2>2, <2>3, InHandIdle
  <2> QED
    BY <2>1, <2>4 DEF CommittedIsSettled
<1>5. \/ committed' = committed
      \/ \E m \in Members : Commit(m) \/ StopCommit(m)
  <2>1. ASSUME NEW m \in Members, \/ Start(m) \/ Signal(m) \/ Crash(m) \/ PollNothing(m)
                                  \/ BatchDone(m) \/ \E n \in Fetches(m) : Fetch(m, n)
        PROVE  committed' = committed
    BY <2>1 DEF Start, Signal, Crash, PollNothing, BatchDone, Fetch
  <2>2. ASSUME NEW assign \in [Partitions -> Members], Rebalance(assign)
        PROVE  committed' = committed
    BY <2>2 DEF Rebalance
  <2>3. ASSUME NEW m \in Members, NEW s \in Slots, TaskStep(m, s)
        PROVE  committed' = committed
    BY <2>3 DEF TaskStep
  <2>4. CASE UNCHANGED vars
    BY <2>4 DEF vars
  <2> QED
    BY <2>1, <2>2, <2>3, <2>4 DEF Next, MemberStep
<1> QED
  BY <1>2, <1>3, <1>4, <1>5

\* Fetches, task steps and rebalances keep what may be committed in hand.
LEMMA CommitsAreInHandNext ==
    ASSUME IndInv, [Next]_vars PROVE CommitsAreInHand'
<1> USE DEF IndInv
<1>0. TypeOK' /\ \A p \in Partitions : Len(Log[p]) \in Nat
  BY TypeNext, SlotFacts
\* the general case: no offset moves and no task leaves Busy unsettled
<1>2. ASSUME UNCHANGED <<pos, commitTo>>,
             \A m \in Members : \A s \in Slots :
                pc[m][s] \in Busy => pc'[m][s] \in Busy \/ Settled(s)'
      PROVE  CommitsAreInHand'
  <2> SUFFICES ASSUME NEW m \in Members, NEW p \in Partitions
               PROVE  InHand(m, p, commitTo[m][p])' /\ InHand(m, p, pos[m][p])'
    BY DEF CommitsAreInHand
  <2>1. commitTo[m][p] \in Nat /\ pos[m][p] \in Nat
    BY DEF TypeOK
  <2>2. InHand(m, p, commitTo[m][p]) /\ InHand(m, p, pos[m][p])
    BY DEF CommitsAreInHand
  <2>3. /\ commitTo[m][p] <= Len(Log[p])
        /\ \A i \in 1..commitTo[m][p] : Settled(<<p, i>>)' \/ pc'[m][<<p, i>>] \in Busy
    BY <1>2, <2>1, <2>2, InHandStays
  <2>4. /\ pos[m][p] <= Len(Log[p])
        /\ \A i \in 1..pos[m][p] : Settled(<<p, i>>)' \/ pc'[m][<<p, i>>] \in Busy
    BY <1>2, <2>1, <2>2, InHandStays
  <2> QED
    BY <1>2, <2>3, <2>4 DEF InHand
<1>3. ASSUME NEW m \in Members, \/ Start(m) \/ Signal(m) \/ PollNothing(m)
                                \/ BatchDone(m) \/ Commit(m)
      PROVE  CommitsAreInHand'
  BY <1>2, <1>3 DEF Start, Signal, PollNothing, BatchDone, Commit, taskVars
<1>4. CASE UNCHANGED vars
  BY <1>2, <1>4 DEF vars, memberVars, taskVars
<1>5. ASSUME NEW m \in Members, NEW s \in Slots, TaskStep(m, s)
      PROVE  CommitsAreInHand'
  <2>1. /\ pc'[m][s] \in Busy \/ Settled(s)'
        /\ \A n \in Members : \A t \in Slots :
              n # m \/ t # s => pc'[n][t] = pc[n][t]
    BY <1>0, <1>5, TaskStepSettles
  <2>2. \A n \in Members : \A t \in Slots :
            pc[n][t] \in Busy => pc'[n][t] \in Busy \/ Settled(t)'
    BY <2>1
  <2>3. UNCHANGED <<pos, commitTo>>
    BY <1>5 DEF TaskStep, memberVars
  <2> QED
    BY <1>2, <2>2, <2>3
\* a member whose tasks and offsets do not change keeps its work in hand
<1>6. ASSUME NEW m \in Members, NEW p \in Partitions, pc'[m] = pc[m],
             NEW k \in {commitTo[m][p], pos[m][p]}
      PROVE  /\ k <= Len(Log[p])
             /\ \A i \in 1..k : Settled(<<p, i>>)' \/ pc'[m][<<p, i>>] \in Busy
  <2>1. k \in Nat /\ InHand(m, p, k)
    BY DEF TypeOK, CommitsAreInHand
  <2> QED
    BY <1>6, <2>1, InHandStays
<1>7. ASSUME NEW m \in Members, Crash(m) \/ StopCommit(m)
      PROVE  CommitsAreInHand'
  <2>1. /\ pos' = [pos EXCEPT ![m] = [p \in Partitions |-> 0]]
        /\ commitTo' = [commitTo EXCEPT ![m] = [p \in Partitions |-> 0]]
        /\ pc' = [pc EXCEPT ![m] = [s \in Slots |-> "idle"]]
    BY <1>7 DEF Crash, StopCommit
  <2> SUFFICES ASSUME NEW k \in Members, NEW p \in Partitions
               PROVE  InHand(k, p, commitTo[k][p])' /\ InHand(k, p, pos[k][p])'
    BY DEF CommitsAreInHand
  <2>2. CASE k = m
    <3>1. pos'[k][p] = 0 /\ commitTo'[k][p] = 0
      BY <2>1, <2>2 DEF TypeOK
    <3> QED
      BY <1>0, <3>1 DEF InHand
  <2>3. CASE k # m
    <3>1. pos'[k] = pos[k] /\ commitTo'[k] = commitTo[k] /\ pc'[k] = pc[k]
      BY <2>1, <2>3 DEF TypeOK
    <3> QED
      BY <1>6, <3>1 DEF InHand
  <2> QED
    BY <2>2, <2>3
<1>8. ASSUME NEW assign \in [Partitions -> Members], Rebalance(assign)
      PROVE  CommitsAreInHand'
  <2> SUFFICES ASSUME NEW k \in Members, NEW p \in Partitions
               PROVE  InHand(k, p, commitTo[k][p])' /\ InHand(k, p, pos[k][p])'
    BY DEF CommitsAreInHand
  <2>1. pc'[k] = pc[k] /\ commitTo'[k][p] = commitTo[k][p]
    BY <1>8 DEF Rebalance, taskVars
  <2>2. pos'[k][p] = IF assign[p] = k THEN committed[p] ELSE pos[k][p]
    BY <1>8 DEF Rebalance
  <2>3. InHand(k, p, commitTo[k][p])'
    BY <1>6, <2>1 DEF InHand
  <2>4. CASE assign[p] # k
    BY <1>6, <2>1, <2>2, <2>3, <2>4 DEF InHand
  <2>5. CASE assign[p] = k
    <3>1. committed'[p] = committed[p]
      BY <1>8 DEF Rebalance
    <3>2. CommittedIsSettled'
      BY CommittedIsSettledNext
    <3>3. /\ committed'[p] <= Len(Log[p])
          /\ \A i \in 1..committed'[p] : Settled(<<p, i>>)'
      BY <3>2 DEF CommittedIsSettled
    <3> QED
      BY <2>2, <2>3, <2>5, <3>1, <3>3 DEF InHand
  <2> QED
    BY <2>4, <2>5
<1>9. ASSUME NEW m \in Members, NEW n \in Fetches(m), Fetch(m, n)
      PROVE  CommitsAreInHand'
  <2> SUFFICES ASSUME NEW k \in Members, NEW p \in Partitions
               PROVE  InHand(k, p, commitTo[k][p])' /\ InHand(k, p, pos[k][p])'
    BY DEF CommitsAreInHand
  <2>1. CASE k # m
    <3>1. pos'[k] = pos[k] /\ commitTo'[k] = commitTo[k] /\ pc'[k] = pc[k]
      BY <1>9, <2>1 DEF Fetch, TypeOK
    <3> QED
      BY <1>6, <3>1 DEF InHand
  <2>2. CASE k = m
    <3>1. n[p] \in Nat /\ pos[m][p] \in Nat
      BY DEF Fetches, TypeOK
    <3>2. InHand(m, p, pos[m][p])
      BY DEF CommitsAreInHand
    <3>3. \A s \in Slots : pc[m][s] \notin Busy
      BY <1>9 DEF Fetch, TasksOnlyInBatch
    <3>4. pos[m][p] <= Len(Log[p]) /\ \A i \in 1..pos[m][p] : Settled(<<p, i>>)
      BY <3>1, <3>2, <3>3, InHandIdle
    <3>5. pos[m][p] + n[p] <= Len(Log[p])
      BY <3>1, <3>4 DEF Fetches
    <3>6. ASSUME NEW i \in 1..(pos[m][p] + n[p])
          PROVE  Settled(<<p, i>>)' \/ pc'[m][<<p, i>>] \in Busy
      <4>1. <<p, i>> \in Slots
        BY <1>0, <3>1, <3>5, SlotFacts
      <4>2. CASE i <= pos[m][p]
        BY <3>1, <3>4, <4>1, <4>2, SettledStays
      <4>3. CASE i > pos[m][p]
        <5>1. <<p, i>> \in Batch(m, n)
          BY <4>1, <4>3 DEF Batch
        <5>2. pc'[m] = [s \in Slots |-> IF s \in Batch(m, n) THEN "queued" ELSE "idle"]
          BY <1>9 DEF Fetch, TypeOK
        <5> QED
          BY <4>1, <5>1, <5>2 DEF Busy
      <4> QED
        BY <3>1, <4>2, <4>3
    <3>7. pos'[m][p] = pos[m][p] + n[p]
      BY <1>9 DEF Fetch, TypeOK
    <3>8. commitTo'[m][p] = IF n[p] > 0 THEN pos[m][p] + n[p] ELSE 0
      BY <1>9 DEF Fetch, TypeOK
    <3>9. InHand(m, p, pos[m][p])'
      BY <3>5, <3>6, <3>7 DEF InHand
    <3>10. InHand(m, p, commitTo[m][p])'
      BY <1>0, <3>1, <3>5, <3>6, <3>8 DEF InHand
    <3> QED
      BY <2>2, <3>9, <3>10
  <2> QED
    BY <2>1, <2>2
<1> QED
  BY <1>3, <1>4, <1>5, <1>7, <1>8, <1>9 DEF Next, MemberStep

\* IndInv is inductive.
LEMMA IndNext == IndInv /\ [Next]_vars => IndInv'
<1> SUFFICES ASSUME IndInv, [Next]_vars PROVE IndInv'
  OBVIOUS
<1>1. TypeOK'
  BY TypeNext DEF IndInv
<1> QED
  BY <1>1, ProcessedWasAppliedNext, TasksAreHonestNext, CommitsAreInHandNext,
     TasksOnlyInBatchNext, CommittedIsSettledNext DEF IndInv

\* The inductive invariant holds in every reachable state of the group.
LEMMA IndCorrect == Spec => []IndInv
BY IndInit, IndNext, PTL DEF Spec

\* No committed offset of _loop() or stop() ever covers an unsettled message, in
\* any interleaving of crashes, rebalances, retries and stale commits.
THEOREM CommitSafety == Spec => []CommittedIsSettled
<1>1. IndInv => CommittedIsSettled
  BY DEF IndInv
<1> QED
  BY <1>1, IndCorrect, PTL

\* already_processed() only skips an event whose effect was applied.
THEOREM DedupSafety == Spec => []ProcessedWasApplied
<1>1. IndInv => ProcessedWasApplied
  BY DEF IndInv
<1> QED
  BY <1>1, IndCorrect, PTL

----------------------------------------------------------------------------
(* No silent loss while one dead-letter sink works *)

\* While one dead-letter sink is reliable, _to_dlq() never gives a message up.
LEMMA NothingGivenUpNext ==
    ASSUME OneSinkIsReliable, TypeOK, NothingGivenUp, [Next]_vars
    PROVE  NothingGivenUp'
<1>1. CASE ~ \E m \in Members, s \in Slots : TaskStep(m, s)
  <2>1. /\ UNCHANGED storeVars
        /\ \A m \in Members : \A s \in Slots :
              pc'[m][s] \in {pc[m][s], "idle", "queued"}
    BY <1>1, OtherStepsKeepTasks
  <2> QED
    BY <2>1 DEF NothingGivenUp, storeVars
<1>2. ASSUME NEW m \in Members, NEW s \in Slots, TaskStep(m, s)
      PROVE  NothingGivenUp'
  <2>1. lost' = {}
    <3>1. CASE InsertDeadLetter(m, s)
      <4>1. "table" \in Faults => s \in dlqTopic
        BY <3>1 DEF OneSinkIsReliable, NothingGivenUp, InsertDeadLetter
      <4> QED
        BY <3>1, <4>1 DEF InsertDeadLetter, NothingGivenUp
    <3>2. CASE ~InsertDeadLetter(m, s)
      BY <1>2, <3>2 DEF TaskStep, Admit, Check, Handle, Mark, PublishDeadLetter, MarkFailed,
         storeVars, NothingGivenUp
    <3> QED
      BY <3>1, <3>2
  <2>2. dlqTopic \subseteq dlqTopic'
    BY <1>2 DEF TaskStep, Admit, Check, Handle, Mark, PublishDeadLetter, InsertDeadLetter,
       MarkFailed, storeVars
  <2>3. PICK st : pc' = [pc EXCEPT ![m][s] = st]
    BY <1>2 DEF TaskStep, Admit, Check, Handle, Mark, PublishDeadLetter, InsertDeadLetter,
       MarkFailed, GoTo, Return, RetryOrDeadLetter
  <2>4. /\ pc'[m][s] = st
        /\ \A n \in Members : \A t \in Slots : n # m \/ t # s => pc'[n][t] = pc[n][t]
    BY <2>3 DEF TypeOK
  <2>5. ASSUME "topic" \notin Faults, pc'[m][s] \in {"permanentTable", "exhaustedTable"}
        PROVE  s \in dlqTopic'
    <3>1. ASSUME NEW x, pc' = [pc EXCEPT ![m][s] = x] PROVE pc'[m][s] = x
      BY <3>1 DEF TypeOK
    <3>2. CASE PublishDeadLetter(m, s)
      BY <2>5, <3>2 DEF PublishDeadLetter
    <3>3. CASE ~PublishDeadLetter(m, s)
      BY <1>2, <2>5, <3>1, <3>3 DEF TaskStep, Admit, Check, Handle, Mark, InsertDeadLetter,
         MarkFailed, RetryOrDeadLetter, GoTo, Return, FirstStep
    <3> QED
      BY <3>2, <3>3
  <2> QED
    BY <2>1, <2>2, <2>4, <2>5 DEF NothingGivenUp
<1> QED
  BY <1>1, <1>2

\* As long as the DLQ topic or the DLQ table accepts writes, everything below a
\* committed offset was applied or can be found in one of them.
THEOREM NoLossWithOneSink == OneSinkIsReliable => (Spec => []NoSilentLoss)
<1> SUFFICES ASSUME OneSinkIsReliable PROVE Spec => []NoSilentLoss
  OBVIOUS
<1>1. Init => NothingGivenUp
  BY DEF Init, NothingGivenUp
<1>2. IndInv /\ NothingGivenUp /\ [Next]_vars => NothingGivenUp'
  BY NothingGivenUpNext DEF IndInv
<1>3. IndInv /\ NothingGivenUp => NoSilentLoss
  <2> SUFFICES ASSUME IndInv, NothingGivenUp, NEW p \in Partitions,
                      NEW i \in 1..committed[p]
               PROVE  applied[Log[p][i]] > 0 \/ <<p, i>> \in dlqTopic \cup dlqTable
    BY DEF NoSilentLoss
  <2>1. Settled(<<p, i>>)
    BY DEF IndInv, CommittedIsSettled
  <2> QED
    BY <2>1 DEF Settled, EventOf, NothingGivenUp
<1> QED
  BY <1>1, <1>2, <1>3, IndCorrect, PTL DEF Spec

----------------------------------------------------------------------------
(* A successful record is final *)

\* The situation of the property: one member, each event once in the log, an
\* idempotency check that answers, and no mark that raises after it was written.
Undisturbed ==
    /\ \A m, n \in Members : m = n
    /\ \A s, t \in Slots : EventOf(s) = EventOf(t) => s = t
    /\ "check" \notin Faults /\ "marked" \notin Faults

\* A task whose event is marked is in front of the check or has nothing left that
\* handles or marks; only an envelope is marked.
Handled == {"handle", "mark", "exhaustedTopic", "exhaustedTable", "markFailed"}
MarkedIsOver ==
    \A m \in Members : \A s \in Slots :
        /\ record[EventOf(s)] = "processed" => Envelope /\ pc[m][s] \notin Handled
        /\ pc[m][s] = "mark" => Envelope

\* mark_processed() ends the only task that could handle its event.
LEMMA MarkedIsOverNext ==
    ASSUME Undisturbed, TypeOK, MarkedIsOver, [Next]_vars
    PROVE  MarkedIsOver'
<1>1. CASE ~ \E m \in Members, s \in Slots : TaskStep(m, s)
  <2>1. /\ UNCHANGED storeVars
        /\ \A m \in Members : \A s \in Slots :
              pc'[m][s] \in {pc[m][s], "idle", "queued"}
    BY <1>1, OtherStepsKeepTasks
  <2> QED
    BY <2>1 DEF MarkedIsOver, Handled, storeVars
<1>2. ASSUME NEW m \in Members, NEW s \in Slots, TaskStep(m, s)
      PROVE  MarkedIsOver'
  <2>1. PICK st : pc' = [pc EXCEPT ![m][s] = st]
    BY <1>2 DEF TaskStep, Admit, Check, Handle, Mark, PublishDeadLetter, InsertDeadLetter,
       MarkFailed, GoTo, Return, RetryOrDeadLetter
  <2>2. /\ pc'[m][s] = st
        /\ \A t \in Slots : t # s => pc'[m][t] = pc[m][t]
    BY <2>1 DEF TypeOK
  <2>3. \A t \in Slots : t # s => record'[EventOf(t)] = record[EventOf(t)]
    BY <1>2, SlotFacts, SMTT(30) DEF Undisturbed, TaskStep, Admit, Check, Handle, Mark, PublishDeadLetter,
       InsertDeadLetter, MarkFailed, storeVars, TypeOK
  <2>4. /\ record'[EventOf(s)] = "processed" => Envelope /\ st \notin Handled
        /\ st = "mark" => Envelope
    <3>1. ASSUME NEW x, pc' = [pc EXCEPT ![m][s] = x] PROVE x = st
      BY <2>2, <3>1 DEF TypeOK
    <3>2. EventOf(s) \in EventIds
      BY SlotFacts
    <3>3. CASE Admit(m, s)
      BY <3>1, <3>3 DEF Admit, MarkedIsOver, Handled, FirstStep, storeVars
    <3>4. CASE Check(m, s)
      BY <3>1, <3>4 DEF Undisturbed, Check, Return, GoTo, MarkedIsOver, Handled, storeVars
    <3>5. CASE Handle(m, s)
      BY <3>1, <3>5 DEF Handle, MarkedIsOver, Handled, RetryOrDeadLetter, GoTo, Return,
         FirstStep
    <3>6. CASE Mark(m, s)
      <4>1. Envelope /\ record[EventOf(s)] # "processed"
        BY <3>6 DEF Mark, MarkedIsOver, Handled
      <4> QED
        BY <3>1, <3>6, <4>1 DEF Undisturbed, Mark, Handled, RetryOrDeadLetter, GoTo, Return, FirstStep
    <3>7. CASE PublishDeadLetter(m, s)
      BY <3>1, <3>7 DEF PublishDeadLetter, MarkedIsOver, Handled, GoTo
    <3>8. CASE InsertDeadLetter(m, s)
      BY <3>1, <3>8 DEF InsertDeadLetter, MarkedIsOver, Handled, GoTo, Return
    <3>9. CASE MarkFailed(m, s)
      BY <3>1, <3>2, <3>9 DEF MarkFailed, MarkedIsOver, Handled, Return, TypeOK
    <3> QED
      BY <1>2, <3>3, <3>4, <3>5, <3>6, <3>7, <3>8, <3>9 DEF TaskStep
  <2>5. \A n \in Members : n = m
    BY DEF Undisturbed
  <2> QED
    BY <2>2, <2>3, <2>4, <2>5 DEF MarkedIsOver
<1> QED
  BY <1>1, <1>2

\* already_processed() and mark_processed() make a success final: for one member,
\* distinct events, a check that answers and a mark that raises only when it wrote
\* nothing, no later redelivery, retry or crash applies the event again or overwrites
\* its record, for any log, any other faults and any bound.
THEOREM FinalSafety == Undisturbed => (Spec => ProcessedIsFinal)
<1> SUFFICES ASSUME Undisturbed PROVE Spec => ProcessedIsFinal
  OBVIOUS
<1> DEFINE Final == \A e \in EventIds : record[e] = "processed" =>
                        record'[e] = "processed" /\ applied'[e] = applied[e]
<1>1. Init => MarkedIsOver
  BY SlotFacts DEF Init, MarkedIsOver, Handled
<1>2. IndInv /\ MarkedIsOver /\ [Next]_vars => MarkedIsOver'
  BY MarkedIsOverNext DEF IndInv
<1>3. IndInv /\ MarkedIsOver /\ [Next]_vars => [Final]_vars
  <2> SUFFICES ASSUME TypeOK, MarkedIsOver, [Next]_vars PROVE Final
    BY DEF IndInv
  <2>1. CASE ~ \E m \in Members, s \in Slots : TaskStep(m, s)
    <3>1. UNCHANGED storeVars
      BY <2>1, OtherStepsKeepTasks
    <3> QED
      BY <3>1 DEF storeVars
  <2>2. ASSUME NEW m \in Members, NEW s \in Slots, TaskStep(m, s) PROVE Final
    <3>1. EventOf(s) \in EventIds
      BY SlotFacts
    <3>2. CASE pc[m][s] \in Handled
      <4>1. record[EventOf(s)] # "processed"
        BY <3>2 DEF MarkedIsOver
      <4>2. \A e \in EventIds : e # EventOf(s) => record'[e] = record[e] /\ applied'[e] = applied[e]
        BY <2>2, <3>1 DEF TaskStep, Admit, Check, Handle, Mark, PublishDeadLetter,
           InsertDeadLetter, MarkFailed, storeVars, TypeOK
      <4> QED
        BY <4>1, <4>2
    <3>3. CASE pc[m][s] \notin Handled
      BY <2>2, <3>3 DEF Handled, TaskStep, Admit, Check, Handle, Mark, PublishDeadLetter,
         InsertDeadLetter, MarkFailed, storeVars
    <3> QED
      BY <3>2, <3>3
  <2> QED
    BY <2>1, <2>2
<1> HIDE DEF Final
<1>4. Spec => [][Final]_vars
  BY <1>1, <1>2, <1>3, IndCorrect, PTL DEF Spec
<1> QED
  BY <1>4 DEF ProcessedIsFinal, Final

----------------------------------------------------------------------------
(* The consumer group implements AtLeastOnce *)

\* An initial state of the group is an initial state of AtLeastOnce.
LEMMA RefineInit == Init => ALO!Init
<1> SUFFICES ASSUME Init PROVE ALO!Init
  OBVIOUS
<1>1. {s \in Slots : Settled(s)} = {}
  <2>1. \A s \in Slots : EventOf(s) \in EventIds
    BY SlotFacts
  <2> QED
    BY <2>1 DEF Init, Settled
<1> QED
  BY <1>1 DEF Init, ALO!Init

\* Every step of the group settles, commits settled offsets, or stutters.
LEMMA RefineNext == IndInv /\ IndInv' /\ [Next]_vars => [ALO!Next]_(ALO!vars)
<1> SUFFICES ASSUME IndInv, IndInv', [Next]_vars PROVE [ALO!Next]_(ALO!vars)
  OBVIOUS
<1> DEFINE set == {s \in Slots : Settled(s)}
<1>0. ALO!Slots = Slots
  BY DEF ALO!Slots, Slots
<1>1. CASE committed' = committed
  <2>1. set \subseteq set'
    BY SettledStays DEF IndInv
  <2>2. set' \in SUBSET ALO!Slots
    BY <1>0
  <2> QED
    BY <1>1, <2>1, <2>2 DEF ALO!Next, ALO!Settle
<1>2. CASE committed' # committed
  <2>1. UNCHANGED storeVars
    BY <1>2 DEF Next, MemberStep, Start, Signal, Crash, PollNothing, Fetch, BatchDone,
       Commit, StopCommit, Rebalance, TaskStep, vars
  <2>2. set' = set
    BY <2>1 DEF Settled, EventOf, storeVars
  <2>3. committed' \in [Partitions -> Nat]
    BY DEF IndInv, TypeOK
  <2>4. ASSUME NEW p \in Partitions
        PROVE  /\ committed'[p] <= Len(Log[p])
               /\ \A i \in 1..committed'[p] : <<p, i>> \in set
    <3>1. /\ committed'[p] <= Len(Log[p])
          /\ \A i \in 1..committed'[p] : Settled(<<p, i>>)'
      BY DEF IndInv, CommittedIsSettled
    <3>2. \A i \in 1..committed'[p] : <<p, i>> \in Slots
      BY <2>3, <3>1, SlotFacts
    <3> QED
      BY <2>2, <3>1, <3>2
  <2>5. ALO!Covered(set, committed')
    BY <2>4 DEF ALO!Covered
  <2> QED
    BY <2>2, <2>3, <2>4, <2>5 DEF ALO!Next, ALO!Commit
<1> QED
  BY <1>1, <1>2

\* StreamConsumer refines AtLeastOnce: whatever the members do, the log's fates
\* and the committed offsets move only as the abstract specification allows.
THEOREM Refinement == Spec => ImplementsAtLeastOnce
BY IndCorrect, RefineInit, RefineNext, PTL DEF Spec, ImplementsAtLeastOnce, ALO!Spec
=============================================================================
