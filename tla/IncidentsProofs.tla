-------------------------- MODULE IncidentsProofs --------------------------
(***************************************************************************)
(* Proofs about the anomaly detector (Anomalies) and the investigations    *)
(* it feeds (Investigations): the table of anomalies against the stream,   *)
(* messages that are not forgotten, anomalies that are given back,         *)
(* conclusions that cite rows, and the cost of a burst.                    *)
(***************************************************************************)
EXTENDS Investigations, FiniteSetTheorems, TLAPS

----------------------------------------------------------------------------
(* The detector *)

Busy == {d \in Detectors : task[d] # Idle}

\* The parts of DetectInv that are about rows.
RowInv == KeysAreNew /\ RowsArePublished /\ StoredIsPublishedOnce

\* Keys stay new while no transaction gains a row or a metric to do, and the
\* table stays as it is.
LEMMA QuietKeys ==
  ASSUME KeysAreNew, UNCHANGED anomalies,
         \A o \in Detectors : task'[o] # Idle /\ DOMAIN task'[o].rows # {} =>
            /\ task[o] # Idle /\ task'[o].rows = task[o].rows
            /\ task'[o].todo \subseteq task[o].todo
  PROVE  KeysAreNew'
<1>1. \A o \in Detectors : \A k : Inserting(o, k)' => Inserting(o, k)
  BY DEF Inserting
<1> SUFFICES ASSUME NEW o \in Detectors, task'[o] # Idle, NEW x \in DOMAIN task'[o].rows
             PROVE  /\ x \notin DOMAIN anomalies
                    /\ task'[o].rows[x][1] \notin task'[o].todo
                    /\ \A y \in DOMAIN task'[o].rows :
                          task'[o].rows[y] = task'[o].rows[x] => y = x
                    /\ \A y \in DOMAIN anomalies : anomalies[y].key # task'[o].rows[x]
                    /\ \A p \in Detectors \ {o} : task'[p] # Idle =>
                          /\ x \notin DOMAIN task'[p].rows
                          /\ ~Inserting(p, task[o].rows[x])'
  BY DEF KeysAreNew
<1>2. /\ task[o] # Idle /\ task'[o].rows = task[o].rows
      /\ task'[o].todo \subseteq task[o].todo
  OBVIOUS
<1>3. \A p \in Detectors \ {o} : task'[p] # Idle => x \notin DOMAIN task'[p].rows
  BY <1>2 DEF KeysAreNew
<1>4. PICK k : k = task[o].rows[x]
  OBVIOUS
<1>5. \A p \in Detectors \ {o} : ~Inserting(p, k)
  BY <1>2, <1>4 DEF KeysAreNew, Inserting
<1>6. \A p \in Detectors \ {o} : ~Inserting(p, task[o].rows[x])'
  BY <1>1, <1>2, <1>4, <1>5 DEF Inserting
<1> QED BY <1>2, <1>3, <1>4, <1>6 DEF KeysAreNew

\* A step of one task that inserts, publishes and commits nothing.
LEMMA QuietTask ==
  ASSUME RowInv, NEW d \in Detectors, UNCHANGED <<anomalies, published>>,
         \A o \in Detectors \ {d} : task'[o] = task[o],
         \/ task'[d] = Idle
         \/ DOMAIN task'[d].rows = {} /\ task'[d].pc # "publish"
         \/ /\ task[d] # Idle /\ task'[d].rows = task[d].rows
            /\ task'[d].todo \subseteq task[d].todo
            /\ task[d].pc = "publish" <=> task'[d].pc = "publish"
  PROVE  RowInv'
<1>1. StoredIsPublishedOnce'
  BY DEF RowInv, StoredIsPublishedOnce
<1>2. RowsArePublished'
  <2> SUFFICES ASSUME NEW o \in Detectors, task'[o] # Idle
               PROVE  /\ task'[o].pc = "publish" =>
                            \E x \in DOMAIN task'[o].rows : Newest(task'[o], x)
                      /\ \A x \in DOMAIN task'[o].rows :
                            \/ \E m \in published : m.id = x
                            \/ task'[o].pc = "publish" /\ Newest(task'[o], x)
    BY DEF RowsArePublished
  <2>1. CASE o # d
    BY <2>1 DEF RowInv, RowsArePublished
  <2>2. CASE o = d
    BY <2>2 DEF RowInv, RowsArePublished, Newest
  <2> QED BY <2>1, <2>2
<1>3. KeysAreNew'
  BY QuietKeys DEF RowInv
<1> QED BY <1>1, <1>2, <1>3 DEF RowInv

\* evaluate_metric() inserts a row: the unique index has seen to it that no
\* other transaction has the key, and the task had no row of the metric.
LEMMA InsertRow ==
  ASSUME RowInv, DetectTypeOK, NEW d \in Detectors, UNCHANGED <<anomalies, published>>,
         DOMAIN task' = Detectors, \A o \in Detectors \ {d} : task'[o] = task[o],
         task[d] # Idle, NEW m \in task[d].todo, NEW k, k[1] = m,
         \A y \in DOMAIN anomalies : anomalies[y].key # k,
         \A o \in Detectors \ {d} : ~Inserting(o, k),
         NEW n, n = nextId + 1, task[d].pc = "metrics",
         task'[d] # Idle, task'[d].pc = "publish", task'[d].todo = task[d].todo \ {m},
         task'[d].rows = With(task[d].rows, n, k)
  PROVE  RowInv'
<1>1. StoredIsPublishedOnce'
  BY DEF RowInv, StoredIsPublishedOnce
<1>2. /\ nextId \in Nat /\ n \notin 1..nextId
      /\ \A o \in Detectors : task[o] # Idle => DOMAIN task[o].rows \subseteq 1..nextId
      /\ DOMAIN anomalies \subseteq 1..nextId
  BY DEF DetectTypeOK, IsCall
<1>3. DOMAIN task'[d].rows = DOMAIN task[d].rows \cup {n}
  BY DEF With
<1>4. task'[d].rows[n] = k /\ \A x \in DOMAIN task[d].rows : task'[d].rows[x] = task[d].rows[x]
  BY <1>2 DEF With
<1>5. RowsArePublished'
  <2> SUFFICES ASSUME NEW o \in Detectors, task'[o] # Idle
               PROVE  /\ task'[o].pc = "publish" =>
                            \E x \in DOMAIN task'[o].rows : Newest(task'[o], x)
                      /\ \A x \in DOMAIN task'[o].rows :
                            \/ \E q \in published : q.id = x
                            \/ task'[o].pc = "publish" /\ Newest(task'[o], x)
    BY DEF RowsArePublished
  <2>1. CASE o # d
    BY <2>1 DEF RowInv, RowsArePublished
  <2>2. CASE o = d
    <3>1. n \in DOMAIN task'[d].rows /\ Newest(task'[d], n)
      BY <1>2, <1>3 DEF Newest
    <3>2. \A x \in DOMAIN task[d].rows : \E q \in published : q.id = x
      BY DEF RowInv, RowsArePublished
    <3> QED BY <1>3, <2>2, <3>1, <3>2
  <2> QED BY <2>1, <2>2
<1>6. \A o \in Detectors : \A c : Inserting(o, c)' => Inserting(o, c) \/ (o = d /\ c = k)
  BY <1>3, <1>4 DEF Inserting
<1>7. KeysAreNew'
  <2> SUFFICES ASSUME NEW o \in Detectors, task'[o] # Idle, NEW x \in DOMAIN task'[o].rows
               PROVE  /\ x \notin DOMAIN anomalies
                      /\ task'[o].rows[x][1] \notin task'[o].todo
                      /\ \A y \in DOMAIN task'[o].rows :
                            task'[o].rows[y] = task'[o].rows[x] => y = x
                      /\ \A y \in DOMAIN anomalies : anomalies[y].key # task'[o].rows[x]
                      /\ \A p \in Detectors \ {o} : task'[p] # Idle =>
                            /\ x \notin DOMAIN task'[p].rows
                            /\ ~Inserting(p, task[o].rows[x])'
    BY DEF KeysAreNew
  <2>1. PICK c : c = task'[o].rows[x]
    OBVIOUS
  <2>2. CASE o = d /\ x = n
    <3>1. c = k
      BY <1>4, <2>1, <2>2
    <3>2. \A y \in DOMAIN task[d].rows : task[d].rows[y][1] # m
      BY DEF RowInv, KeysAreNew
    <3>3. \A y \in DOMAIN task[d].rows : task'[d].rows[y] # k
      BY <1>4, <3>2
    <3>4. \A p \in Detectors \ {o} : task'[p] # Idle => x \notin DOMAIN task'[p].rows
      BY <1>2, <2>2
    <3>5. \A p \in Detectors \ {o} : ~Inserting(p, c)'
      BY <1>6, <2>2, <3>1
    <3>6. \A p \in Detectors \ {o} : ~Inserting(p, task[o].rows[x])'
      BY <2>1, <3>5 DEF Inserting
    <3> QED BY <1>2, <1>3, <2>1, <2>2, <3>1, <3>3, <3>4, <3>6
  <2>3. CASE o = d /\ x # n
    <3>1. x \in DOMAIN task[d].rows /\ c = task[d].rows[x]
      BY <1>3, <1>4, <2>1, <2>3
    <3>2. c # k
      BY <3>1 DEF RowInv, KeysAreNew
    <3>3. \A y \in DOMAIN task'[d].rows : task'[d].rows[y] = c => y = x
      BY <1>3, <1>4, <3>1, <3>2 DEF RowInv, KeysAreNew
    <3>4. \A p \in Detectors \ {o} : ~Inserting(p, c)
      BY <2>3, <3>1 DEF RowInv, KeysAreNew, Inserting
    <3>5. \A p \in Detectors \ {o} : ~Inserting(p, task[o].rows[x])'
      BY <1>6, <2>1, <2>3, <3>4 DEF Inserting
    <3>6. \A p \in Detectors \ {o} : task'[p] # Idle => x \notin DOMAIN task'[p].rows
      BY <2>3, <3>1 DEF RowInv, KeysAreNew
    <3> QED BY <2>1, <2>3, <3>1, <3>3, <3>5, <3>6 DEF RowInv, KeysAreNew
  <2>4. CASE o # d
    <3>1. task'[o] = task[o] /\ Inserting(o, c) /\ x \in 1..nextId
      BY <1>2, <2>1, <2>4 DEF Inserting
    <3>2. c # k
      BY <2>4, <3>1
    <3>3. \A p \in Detectors \ {o} : ~Inserting(p, c)
      BY <2>1, <3>1 DEF RowInv, KeysAreNew, Inserting
    <3>4. \A p \in Detectors \ {o} : ~Inserting(p, task[o].rows[x])'
      BY <1>6, <2>1, <3>2, <3>3 DEF Inserting
    <3>5. \A p \in Detectors \ {o} : task'[p] # Idle => x \notin DOMAIN task'[p].rows
      BY <1>2, <1>3, <2>4, <3>1 DEF RowInv, KeysAreNew
    <3> QED BY <2>1, <3>1, <3>4, <3>5 DEF RowInv, KeysAreNew
  <2> QED BY <2>2, <2>3, <2>4
<1> QED BY <1>1, <1>5, <1>7 DEF RowInv

\* Max() of a set that has a largest element is that element.
LEMMA MaxIsLargest ==
  ASSUME NEW S, S \subseteq Nat, NEW x \in S, \A y \in S : y <= x
  PROVE  Max(S) = x
<1>1. \A y \in S : x >= y
  OBVIOUS
<1>2. Max(S) \in S /\ \A y \in S : Max(S) >= y
  BY <1>1 DEF Max
<1>3. Max(S) >= x /\ x >= Max(S) /\ Max(S) \in Nat /\ x \in Nat
  BY <1>1, <1>2
<1> QED BY <1>3

\* The newest row of a task is published; no other was waiting.
LEMMA PublishRow ==
  ASSUME RowInv, DetectTypeOK, NEW d \in Detectors, Publish(d)
  PROVE  RowInv'
<1>1. /\ task[d] # Idle /\ task[d].pc = "publish" /\ UNCHANGED anomalies
      /\ \A o \in Detectors \ {d} : task'[o] = task[o]
      /\ task'[d].rows = task[d].rows /\ task'[d].todo = task[d].todo
      /\ task'[d].pc = "metrics"
  BY DEF Publish, DetectTypeOK, IsCall
<1>2. DOMAIN task[d].rows \subseteq Nat
  BY <1>1 DEF DetectTypeOK, IsCall
<1> DEFINE new == [id |-> Max(DOMAIN task[d].rows),
                   severity |-> task[d].rows[Max(DOMAIN task[d].rows)][2]]
<1>3. published' = published \cup {new} /\ new.id = Max(DOMAIN task[d].rows)
  BY DEF Publish
<1> HIDE DEF new
<1>4. KeysAreNew'
  BY <1>1, QuietKeys DEF RowInv
<1>5. StoredIsPublishedOnce'
  BY <1>1, <1>3 DEF RowInv, StoredIsPublishedOnce
<1>6. RowsArePublished'
  <2> SUFFICES ASSUME NEW o \in Detectors, task'[o] # Idle
               PROVE  /\ task'[o].pc = "publish" =>
                            \E x \in DOMAIN task'[o].rows : Newest(task'[o], x)
                      /\ \A x \in DOMAIN task'[o].rows :
                            \/ \E m \in published' : m.id = x
                            \/ task'[o].pc = "publish" /\ Newest(task'[o], x)
    BY DEF RowsArePublished
  <2>1. CASE o # d
    BY <1>1, <1>3, <2>1 DEF RowInv, RowsArePublished
  <2>2. ASSUME NEW x \in DOMAIN task[d].rows PROVE \E m \in published' : m.id = x
    <3>1. CASE \E m \in published : m.id = x
      BY <1>3, <3>1
    <3>2. CASE ~\E m \in published : m.id = x
      <4>1. \A y \in DOMAIN task[d].rows : y <= x
        BY <1>1, <3>2 DEF RowInv, RowsArePublished, Newest
      <4>2. new.id = x
        BY <1>2, <1>3, <4>1, MaxIsLargest
      <4> QED BY <1>3, <4>2
    <3> QED BY <3>1, <3>2
  <2> QED BY <1>1, <2>1, <2>2
<1> QED BY <1>4, <1>5, <1>6 DEF RowInv

\* A commit makes the rows of a task visible: all were published, and their
\* keys are in no other row.
LEMMA CommitRows ==
  ASSUME RowInv, DetectTypeOK, NEW d \in Detectors, Commit(d)
  PROVE  RowInv'
<1>1. /\ task[d] # Idle /\ task[d].pc = "commit" /\ UNCHANGED published
      /\ task'[d] = Idle /\ \A o \in Detectors \ {d} : task'[o] = task[o]
  BY DEF Commit, DetectTypeOK
<1>2. PICK rows : rows = task[d].rows
  OBVIOUS
<1>3. anomalies' = [x \in DOMAIN anomalies \cup DOMAIN rows |->
                       IF x \in DOMAIN anomalies THEN anomalies[x]
                       ELSE [key |-> rows[x], status |-> "OPEN"]]
  BY <1>2, Zenon DEF Commit
<1>4. /\ DOMAIN anomalies' = DOMAIN anomalies \cup DOMAIN rows
      /\ \A x \in DOMAIN anomalies : anomalies'[x] = anomalies[x]
  BY <1>3
<1>5. \A x \in DOMAIN rows : x \notin DOMAIN anomalies /\ anomalies'[x].key = rows[x]
  BY <1>1, <1>2, <1>3 DEF RowInv, KeysAreNew
<1>6. StoredIsPublishedOnce'
  <2>1. ASSUME NEW x \in DOMAIN anomalies' PROVE \E m \in published : m.id = x
    BY <1>1, <1>2, <1>4 DEF RowInv, StoredIsPublishedOnce, RowsArePublished
  <2>2. ASSUME NEW x \in DOMAIN anomalies', NEW y \in DOMAIN anomalies',
               anomalies'[x].key = anomalies'[y].key
        PROVE  x = y
    <3>1. CASE x \in DOMAIN anomalies /\ y \in DOMAIN anomalies
      BY <1>4, <2>2, <3>1 DEF RowInv, StoredIsPublishedOnce
    <3>2. CASE x \in DOMAIN rows /\ y \in DOMAIN rows
      BY <1>1, <1>2, <1>5, <2>2, <3>2 DEF RowInv, KeysAreNew
    <3>3. \A u \in DOMAIN anomalies, v \in DOMAIN rows : anomalies'[u].key # anomalies'[v].key
      BY <1>1, <1>2, <1>4, <1>5 DEF RowInv, KeysAreNew
    <3> QED BY <1>4, <2>2, <3>1, <3>2, <3>3
  <2> QED BY <1>1, <2>1, <2>2 DEF StoredIsPublishedOnce
<1>7. RowsArePublished'
  BY <1>1 DEF RowInv, RowsArePublished
<1>8. \A o \in Detectors : \A k : Inserting(o, k)' => Inserting(o, k)
  BY <1>1 DEF Inserting
<1>9. KeysAreNew'
  <2> SUFFICES ASSUME NEW o \in Detectors, task'[o] # Idle, NEW x \in DOMAIN task'[o].rows
               PROVE  /\ x \notin DOMAIN anomalies'
                      /\ task'[o].rows[x][1] \notin task'[o].todo
                      /\ \A y \in DOMAIN task'[o].rows :
                            task'[o].rows[y] = task'[o].rows[x] => y = x
                      /\ \A y \in DOMAIN anomalies' : anomalies'[y].key # task'[o].rows[x]
                      /\ \A p \in Detectors \ {o} : task'[p] # Idle =>
                            /\ x \notin DOMAIN task'[p].rows
                            /\ ~Inserting(p, task[o].rows[x])'
    BY DEF KeysAreNew
  <2>1. o # d /\ task'[o] = task[o]
    BY <1>1
  <2>2. PICK k : k = task[o].rows[x]
    OBVIOUS
  <2>3. x \notin DOMAIN rows /\ ~Inserting(d, k)
    BY <1>1, <1>2, <2>1, <2>2 DEF RowInv, KeysAreNew
  <2>4. \A y \in DOMAIN rows : anomalies'[y].key # k
    BY <1>1, <1>2, <1>5, <2>3 DEF Inserting
  <2>5. \A p \in Detectors \ {o} : ~Inserting(p, k)
    BY <2>1, <2>2 DEF RowInv, KeysAreNew, Inserting
  <2>6. \A p \in Detectors \ {o} : ~Inserting(p, task[o].rows[x])'
    BY <1>8, <2>1, <2>2, <2>5 DEF Inserting
  <2>7. \A p \in Detectors \ {o} : task'[p] # Idle => x \notin DOMAIN task'[p].rows
    BY <1>1, <2>1 DEF RowInv, KeysAreNew
  <2> QED BY <1>4, <2>1, <2>2, <2>3, <2>4, <2>6, <2>7 DEF RowInv, KeysAreNew
<1> QED BY <1>6, <1>7, <1>9 DEF RowInv

\* A fresh call, for any minute that the clock may show.
LEMMA BegunIsCall ==
  ASSUME NEW now \in 1..MaxClock, NEW attempt \in 1..MaxAttempts, nextId \in Nat
  PROVE  IsCall(Begun(now, attempt)) /\ Begun(now, attempt) # Idle
         /\ DOMAIN Begun(now, attempt).rows = {} /\ Begun(now, attempt).pc = "metrics"
<1>1. Begun(now, attempt).rows = <<>> /\ DOMAIN <<>> = {}
  BY DEF Begun
<1>2. Begun(now, attempt).rows \in [DOMAIN Begun(now, attempt).rows -> Keys]
  BY <1>1
<1> QED BY <1>1, <1>2 DEF Begun, IsCall, Idle

\* What a step of one task may change of the types.
LEMMA TaskType ==
  ASSUME DetectTypeOK, NEW d \in Detectors, DOMAIN task' = Detectors,
         \A o \in Detectors \ {d} : task'[o] = task[o],
         task'[d] = Idle \/ IsCall(task[d])',
         nextId' \in nextId..MaxIds
  PROVE  \A o \in Detectors : task'[o] = Idle \/ IsCall(task[o])'
<1>1. nextId \in Nat /\ nextId' \in Nat /\ 1..nextId \subseteq 1..nextId'
  BY AnomalyAssumption DEF DetectTypeOK
<1> SUFFICES ASSUME NEW o \in Detectors, o # d, task'[o] # Idle PROVE IsCall(task[o])'
  OBVIOUS
<1>2. IsCall(task[o]) /\ task'[o] = task[o]
  BY DEF DetectTypeOK
<1> QED BY <1>1, <1>2 DEF IsCall

\* The set of busy tasks is finite, and counted.
LEMMA BusyIsFinite == IsFiniteSet(Busy) /\ Cardinality(Busy) \in Nat
BY AnomalyAssumption, FS_Subset, FS_CardinalityType DEF Busy

\* Messages are not multiplied by a step of a task.
LEMMA SamplesNext ==
  ASSUME DetectTypeOK, SamplesAreFew, NEW d \in Detectors, UNCHANGED clock,
         \A o \in Detectors \ {d} : task'[o] = task[o],
         \/ samples' = samples /\ task[d] # Idle
         \/ samples' = samples - 1 /\ samples > 0 /\ task[d] = Idle
         \/ samples' = samples + 1 /\ task[d] # Idle /\ task'[d] = Idle
  PROVE  SamplesAreFew' /\ samples' \in 0..MaxClock
<1>1. /\ IsFiniteSet(Busy) /\ Cardinality(Busy) \in Nat
      /\ samples \in Nat /\ clock \in Nat /\ samples + Cardinality(Busy) <= clock
  BY BusyIsFinite, AnomalyAssumption DEF DetectTypeOK, SamplesAreFew, Busy
<1> DEFINE B == {o \in Detectors : task'[o] # Idle}
<1>2. ASSUME IsFiniteSet(B), Cardinality(B) \in Nat, samples' \in Nat,
             samples' + Cardinality(B) <= clock
      PROVE  SamplesAreFew' /\ samples' \in 0..MaxClock
  <2>1. MaxClock \in Nat /\ clock \in 1..MaxClock
    BY AnomalyAssumption DEF DetectTypeOK, MaxClock
  <2>2. samples' \in 0..MaxClock
    BY <1>2, <2>1
  <2> QED BY <1>2, <2>2 DEF SamplesAreFew
<1>3. CASE samples' = samples /\ task[d] # Idle
  <2>1. B \subseteq Busy
    BY <1>3 DEF Busy
  <2>2. IsFiniteSet(B) /\ Cardinality(B) \in Nat /\ Cardinality(B) <= Cardinality(Busy)
    BY <1>1, <2>1, FS_Subset, FS_CardinalityType
  <2> QED BY <1>1, <1>2, <1>3, <2>2
<1>4. CASE samples' = samples - 1 /\ samples > 0 /\ task[d] = Idle
  <2>1. B \subseteq Busy \cup {d} /\ d \notin Busy
    BY <1>4 DEF Busy
  <2>2. IsFiniteSet(Busy \cup {d}) /\ Cardinality(Busy \cup {d}) = Cardinality(Busy) + 1
    BY <1>1, <2>1, FS_AddElement
  <2>3. /\ IsFiniteSet(B) /\ Cardinality(B) \in Nat
        /\ Cardinality(B) <= Cardinality(Busy \cup {d})
    BY <2>1, <2>2, FS_Subset, FS_CardinalityType
  <2> QED BY <1>1, <1>2, <1>4, <2>2, <2>3
<1>5. CASE samples' = samples + 1 /\ task[d] # Idle /\ task'[d] = Idle
  <2>1. B = Busy \ {d} /\ d \in Busy
    BY <1>5 DEF Busy
  <2>2. IsFiniteSet(B) /\ Cardinality(B) = Cardinality(Busy) - 1
    BY <1>1, <2>1, FS_RemoveElement
  <2>3. Cardinality(B) \in Nat
    BY <2>2, FS_CardinalityType
  <2> QED BY <1>1, <1>2, <1>5, <2>2, <2>3
<1> QED BY <1>3, <1>4, <1>5

\* What the detector does to the tables that the investigations read.
Grows ==
    /\ nextId <= nextId' /\ DOMAIN anomalies \subseteq DOMAIN anomalies'
    /\ \A x \in DOMAIN anomalies : anomalies'[x] = anomalies[x]
    /\ \A x \in DOMAIN anomalies' \ DOMAIN anomalies : anomalies'[x].status = "OPEN"
    /\ alerts \subseteq alerts'

\* A step of one task that commits nothing.
LEMMA TaskStep ==
  ASSUME DetectInv, RowInv', NEW d \in Detectors, DOMAIN task' = Detectors,
         \A o \in Detectors \ {d} : task'[o] = task[o],
         task'[d] = Idle \/ IsCall(task[d])',
         nextId' \in nextId..MaxIds, UNCHANGED <<clock, anomalies, rule, alerts>>,
         \A m \in published' : m.id \in 1..nextId',
         \/ samples' = samples /\ task[d] # Idle
         \/ samples' = samples - 1 /\ samples > 0 /\ task[d] = Idle
         \/ samples' = samples + 1 /\ task[d] # Idle /\ task'[d] = Idle
  PROVE  DetectInv' /\ Grows
<1>1. DetectTypeOK /\ SamplesAreFew
  BY DEF DetectInv
<1>2. SamplesAreFew' /\ samples' \in 0..MaxClock
  BY <1>1, SamplesNext
<1>3. \A o \in Detectors : task'[o] = Idle \/ IsCall(task[o])'
  BY <1>1, TaskType
<1>4. nextId \in Nat /\ nextId' \in 0..MaxIds /\ nextId <= nextId' /\ 1..nextId \subseteq 1..nextId'
  BY <1>1, AnomalyAssumption DEF DetectTypeOK
<1>5. DetectTypeOK'
  BY <1>1, <1>2, <1>3, <1>4 DEF DetectTypeOK
<1>6. Grows
  BY <1>1, <1>4 DEF Grows, DetectTypeOK
<1> QED BY <1>2, <1>5, <1>6 DEF DetectInv, RowInv

\* Every step of the detector keeps DetectInv, and only adds to the tables.
LEMMA DetectStep ==
  ASSUME DetectInv, DetectNext
  PROVE  DetectInv' /\ Grows
<1>0. /\ DetectTypeOK /\ RowInv /\ MaxClock \in Nat /\ nextId \in Nat /\ nextId \in nextId..MaxIds
      /\ clock \in 1..MaxClock /\ \A m \in published : m.id \in 1..nextId
  BY AnomalyAssumption DEF DetectInv, RowInv, DetectTypeOK, MaxClock
<1>1. CASE Tick
  <2>1. SamplesAreFew' /\ samples' \in 0..MaxClock /\ clock' \in 1..MaxClock
    <3>1. /\ Cardinality(Busy) \in Nat /\ samples + Cardinality(Busy) <= clock /\ samples \in Nat
          /\ clock < MaxClock /\ clock' = clock + 1 /\ samples' = samples + 1
      BY <1>0, <1>1, BusyIsFinite DEF Tick, DetectInv, SamplesAreFew, Busy, DetectTypeOK
    <3>2. samples' + Cardinality(Busy) <= clock'
      BY <1>0, <3>1
    <3>3. SamplesAreFew'
      BY <1>1, <3>2 DEF Tick, SamplesAreFew, Busy
    <3> QED BY <1>0, <3>1, <3>3
  <2>2. UNCHANGED <<task, nextId, anomalies, published, rule, alerts>>
    BY <1>1 DEF Tick
  <2>3. DetectTypeOK'
    BY <1>0, <2>1, <2>2 DEF DetectTypeOK, IsCall
  <2>4. RowInv'
    BY <1>0, <2>2 DEF RowInv, KeysAreNew, RowsArePublished, StoredIsPublishedOnce, Inserting
  <2>5. Grows
    BY <1>0, <2>2 DEF Grows, DetectTypeOK
  <2> QED BY <2>1, <2>3, <2>4, <2>5 DEF DetectInv, RowInv
<1>2. ASSUME NEW d \in Detectors, Begin(d) PROVE DetectInv' /\ Grows
  <2>1. /\ task[d] = Idle /\ samples > 0 /\ samples' = samples - 1
        /\ DOMAIN task' = Detectors /\ \A o \in Detectors \ {d} : task'[o] = task[o]
        /\ task'[d] = Begun(clock, 1)
        /\ UNCHANGED <<clock, nextId, anomalies, published, rule, alerts>>
    BY <1>0, <1>2 DEF Begin, DetectTypeOK
  <2>2. IsCall(task[d])' /\ DOMAIN task'[d].rows = {} /\ task'[d].pc = "metrics"
    BY <1>0, <2>1, BegunIsCall, AnomalyAssumption DEF IsCall
  <2>3. RowInv'
    BY <1>0, <2>1, <2>2, QuietTask
  <2> QED BY <1>0, <2>1, <2>2, <2>3, TaskStep
<1>3. ASSUME NEW d \in Detectors, Evaluate(d) PROVE DetectInv' /\ Grows
  <2>1. /\ task[d] # Idle /\ task[d].pc = "metrics" /\ IsCall(task[d])
        /\ UNCHANGED <<clock, samples, anomalies, published, rule, alerts>>
    BY <1>0, <1>3 DEF Evaluate, DetectTypeOK
  <2>2. PICK m \in task[d].todo, z \in Scores :
            LET k == <<m, severity_for(z)>>
                known == \E x \in DOMAIN anomalies : anomalies[x].key = k
                rest == [task[d] EXCEPT !.todo = @ \ {m}]
            IN  IF ~IsAnomaly(z) \/ known
                THEN task' = [task EXCEPT ![d] = rest] /\ UNCHANGED nextId
                ELSE /\ \A o \in Detectors \ {d} : ~Inserting(o, k)
                     /\ nextId < MaxIds /\ nextId' = nextId + 1
                     /\ task' = [task EXCEPT ![d] =
                            [rest EXCEPT !.pc = "publish", !.rows = With(@, nextId', k)]]
    BY <1>3 DEF Evaluate
  <2>3. PICK k : k = <<m, severity_for(z)>>
    OBVIOUS
  <2>4. k \in Keys /\ k[1] = m
    BY <2>1, <2>3 DEF IsCall, Keys
  <2>5. CASE /\ task' = [task EXCEPT ![d] = [task[d] EXCEPT !.todo = @ \ {m}]]
             /\ UNCHANGED nextId
    <3>1. /\ DOMAIN task' = Detectors /\ \A o \in Detectors \ {d} : task'[o] = task[o]
          /\ task'[d] = [task[d] EXCEPT !.todo = @ \ {m}]
      BY <1>0, <2>5 DEF DetectTypeOK
    <3>2. /\ task'[d].rows = task[d].rows /\ task'[d].todo \subseteq task[d].todo
          /\ task'[d].pc = task[d].pc
      BY <2>1, <3>1 DEF IsCall
    <3>3. IsCall(task[d])'
      BY <2>1, <2>5, <3>1 DEF IsCall
    <3>4. RowInv'
      BY <1>0, <2>1, <3>1, <3>2, QuietTask
    <3> QED BY <1>0, <2>1, <2>5, <3>1, <3>3, <3>4, TaskStep
  <2>6. CASE /\ ~\E x \in DOMAIN anomalies : anomalies[x].key = k
             /\ \A o \in Detectors \ {d} : ~Inserting(o, k)
             /\ nextId < MaxIds /\ nextId' = nextId + 1
             /\ task' = [task EXCEPT ![d] =
                    [[task[d] EXCEPT !.todo = @ \ {m}] EXCEPT !.pc = "publish",
                                                             !.rows = With(@, nextId', k)]]
    <3>1. PICK n : n = nextId + 1
      OBVIOUS
    <3>2. /\ DOMAIN task' = Detectors /\ \A o \in Detectors \ {d} : task'[o] = task[o]
          /\ task'[d] = [[task[d] EXCEPT !.todo = @ \ {m}] EXCEPT !.pc = "publish",
                                                                !.rows = With(@, n, k)]
      BY <1>0, <2>6, <3>1 DEF DetectTypeOK
    <3>3. /\ task'[d].rows = With(task[d].rows, n, k) /\ task'[d].todo = task[d].todo \ {m}
          /\ task'[d].pc = "publish" /\ task'[d].now = task[d].now
          /\ task'[d].attempt = task[d].attempt /\ task'[d].fires = task[d].fires
      BY <2>1, <3>2 DEF IsCall
    <3>4. task'[d] \in
            [pc: {"metrics", "publish", "fire", "alert", "commit"},
             now: 1..MaxClock, attempt: 1..MaxAttempts, todo: SUBSET Metrics,
             rows: {With(task[d].rows, n, k)}, fires: BOOLEAN]
      <4>1. PICK w : w = With(task[d].rows, n, k)
        OBVIOUS
      <4>2. task'[d] = [[task[d] EXCEPT !.todo = @ \ {m}] EXCEPT !.pc = "publish", !.rows = w]
        BY <3>2, <4>1
      <4>3. \E R : task[d] \in
                [pc: {"metrics", "publish", "fire", "alert", "commit"},
                 now: 1..MaxClock, attempt: 1..MaxAttempts, todo: SUBSET Metrics,
                 rows: R, fires: BOOLEAN]
        BY <2>1 DEF IsCall
      <4>4. task'[d] \in
                [pc: {"metrics", "publish", "fire", "alert", "commit"},
                 now: 1..MaxClock, attempt: 1..MaxAttempts, todo: SUBSET Metrics,
                 rows: {w}, fires: BOOLEAN]
        BY <4>2, <4>3
      <4> QED BY <4>1, <4>4
    <3>9. task'[d] # Idle
      BY <3>3 DEF Idle
    <3>5. /\ DOMAIN With(task[d].rows, n, k) \subseteq 1..nextId'
          /\ With(task[d].rows, n, k) \in [DOMAIN With(task[d].rows, n, k) -> Keys]
      BY <1>0, <2>1, <2>4, <2>6, <3>1 DEF IsCall, With
    <3>6. IsCall(task[d])'
      BY <3>3, <3>4, <3>5 DEF IsCall
    <3>7. RowInv'
      BY <1>0, <2>1, <2>4, <2>6, <3>1, <3>2, <3>3, <3>9, InsertRow
    <3>8. nextId' \in nextId..MaxIds /\ 1..nextId \subseteq 1..nextId'
      BY <1>0, <2>6, AnomalyAssumption
    <3> QED BY <1>0, <2>1, <3>2, <3>6, <3>7, <3>8, TaskStep
  <2> QED BY <2>2, <2>3, <2>5, <2>6
<1>4. ASSUME NEW d \in Detectors, Publish(d) PROVE DetectInv' /\ Grows
  <2>1. /\ task[d] # Idle /\ IsCall(task[d])
        /\ UNCHANGED <<clock, samples, nextId, anomalies, rule, alerts>>
        /\ DOMAIN task' = Detectors /\ \A o \in Detectors \ {d} : task'[o] = task[o]
        /\ task'[d] = [task[d] EXCEPT !.pc = "metrics"]
    BY <1>0, <1>4 DEF Publish, DetectTypeOK
  <2>2. IsCall(task[d])'
    BY <2>1 DEF IsCall
  <2>3. \A m \in published' : m.id \in 1..nextId
    <3> SUFFICES Max(DOMAIN task[d].rows) \in 1..nextId
      BY <1>0, <1>4 DEF Publish
    <3>1. PICK x \in DOMAIN task[d].rows : \A y \in DOMAIN task[d].rows : y <= x
      BY <1>0, <1>4, <2>1 DEF Publish, RowInv, RowsArePublished, Newest
    <3>2. DOMAIN task[d].rows \subseteq 1..nextId
      BY <2>1 DEF IsCall
    <3> QED BY <3>1, <3>2, MaxIsLargest
  <2> QED BY <1>0, <1>4, <2>1, <2>2, <2>3, PublishRow, TaskStep
<1>5. ASSUME NEW d \in Detectors, EvaluateRules(d) \/ Fire(d) \/ PublishAlert(d)
      PROVE  DetectInv' /\ Grows
  <2>1. /\ task[d] # Idle /\ IsCall(task[d]) /\ task[d].pc # "publish"
        /\ UNCHANGED <<clock, samples, nextId, anomalies, published, rule, alerts>>
        /\ DOMAIN task' = Detectors /\ \A o \in Detectors \ {d} : task'[o] = task[o]
    BY <1>0, <1>5 DEF EvaluateRules, Fire, PublishAlert, DetectTypeOK
  <2>2. PICK pc \in {"fire", "commit", "alert"}, fires \in BOOLEAN :
            task'[d] = [task[d] EXCEPT !.pc = pc, !.fires = fires]
    <3>1. CASE EvaluateRules(d)
      <4>1. \E pc \in {"fire", "commit", "alert"} : task' = [task EXCEPT ![d].pc = pc]
        BY <3>1 DEF EvaluateRules
      <4>2. PICK pc \in {"fire", "commit", "alert"} : task'[d] = [task[d] EXCEPT !.pc = pc]
        BY <1>0, <4>1 DEF DetectTypeOK
      <4>3. task'[d] = [task[d] EXCEPT !.pc = pc, !.fires = task[d].fires]
        BY <2>1, <4>2 DEF IsCall
      <4>4. task[d].fires \in BOOLEAN
        BY <2>1 DEF IsCall
      <4> QED BY <4>3, <4>4
    <3>2. CASE Fire(d)
      <4>1. task'[d] = [task[d] EXCEPT !.pc = "alert", !.fires = TRUE]
        BY <1>0, <3>2 DEF Fire, DetectTypeOK
      <4> QED BY <4>1
    <3>3. CASE PublishAlert(d)
      <4>1. task'[d] = [task[d] EXCEPT !.pc = "commit"]
        BY <1>0, <3>3 DEF PublishAlert, DetectTypeOK
      <4>2. task'[d] = [task[d] EXCEPT !.pc = "commit", !.fires = task[d].fires]
        BY <2>1, <4>1 DEF IsCall
      <4>3. task[d].fires \in BOOLEAN
        BY <2>1 DEF IsCall
      <4> QED BY <4>2, <4>3
    <3> QED BY <1>5, <3>1, <3>2, <3>3
  <2>3. /\ task'[d].rows = task[d].rows /\ task'[d].todo = task[d].todo
        /\ task'[d].pc # "publish"
    BY <2>1, <2>2 DEF IsCall
  <2>4. IsCall(task[d])'
    BY <2>1, <2>2 DEF IsCall
  <2>5. RowInv'
    BY <1>0, <2>1, <2>3, QuietTask
  <2> QED BY <1>0, <2>1, <2>4, <2>5, TaskStep
<1>6. ASSUME NEW d \in Detectors, Commit(d) PROVE DetectInv' /\ Grows
  <2>1. /\ task[d] # Idle /\ IsCall(task[d]) /\ task'[d] = Idle
        /\ UNCHANGED <<clock, samples, nextId, published>>
        /\ DOMAIN task' = Detectors /\ \A o \in Detectors \ {d} : task'[o] = task[o]
    BY <1>0, <1>6 DEF Commit, DetectTypeOK
  <2>2. PICK rows : rows = task[d].rows
    OBVIOUS
  <2>3. anomalies' = [x \in DOMAIN anomalies \cup DOMAIN rows |->
                         IF x \in DOMAIN anomalies THEN anomalies[x]
                         ELSE [key |-> rows[x], status |-> "OPEN"]]
    BY <1>6, <2>2, Zenon DEF Commit
  <2>4. DOMAIN rows \subseteq 1..nextId /\ rows \in [DOMAIN rows -> Keys]
    BY <2>1, <2>2 DEF IsCall
  <2>5. /\ DOMAIN anomalies' \subseteq 1..nextId
        /\ anomalies' \in [DOMAIN anomalies' -> [key: Keys, status: Statuses]]
    BY <1>0, <2>3, <2>4 DEF DetectTypeOK, Statuses
  <2>6. PICK now \in 1..MaxClock : now = task[d].now
    BY <2>1 DEF IsCall
  <2>7. /\ rule' \in [state: {"enabled", "disabled", "deleted"}, last: 0..MaxClock]
        /\ alerts' \subseteq (1..MaxClock) \X (Nat \ {0}) /\ IsFiniteSet(alerts')
        /\ alerts \subseteq alerts'
    <3>1. /\ rule \in [state: {"enabled", "disabled", "deleted"}, last: 0..MaxClock]
          /\ alerts \subseteq (1..MaxClock) \X (Nat \ {0}) /\ IsFiniteSet(alerts)
      BY <1>0 DEF DetectTypeOK
    <3>2. CASE UNCHANGED <<alerts, rule>>
      BY <3>1, <3>2
    <3>3. CASE /\ alerts' = alerts \cup {<<now, Cardinality(FiredIn(now, 1)) + 1>>}
               /\ rule' = [rule EXCEPT !.last = now]
      <4>1. IsFiniteSet(FiredIn(now, 1)) /\ Cardinality(FiredIn(now, 1)) \in Nat
        BY <3>1, FS_Subset, FS_CardinalityType DEF FiredIn
      <4>2. IsFiniteSet(alerts')
        BY <3>1, <3>3, FS_AddElement
      <4>3. Cardinality(FiredIn(now, 1)) + 1 \in Nat \ {0}
        BY <4>1
      <4>4. alerts' \subseteq (1..MaxClock) \X (Nat \ {0}) /\ alerts \subseteq alerts'
        BY <2>6, <3>1, <3>3, <4>3
      <4>5. rule' \in [state: {"enabled", "disabled", "deleted"}, last: 0..MaxClock]
        BY <1>0, <2>6, <3>1, <3>3, SMTT(30)
      <4> QED BY <4>2, <4>4, <4>5
    <3> QED BY <1>6, <2>6, <3>2, <3>3 DEF Commit
  <2>8. SamplesAreFew' /\ samples' \in 0..MaxClock
    BY <1>0, <2>1, SamplesNext DEF DetectInv
  <2>9. \A o \in Detectors : task'[o] = Idle \/ IsCall(task[o])'
    BY <1>0, <2>1, TaskType
  <2>10. DetectTypeOK'
    BY <1>0, <2>1, <2>5, <2>7, <2>8, <2>9 DEF DetectTypeOK
  <2>11. Grows
    BY <1>0, <2>1, <2>3, <2>7 DEF Grows
  <2> QED BY <1>0, <1>6, <2>8, <2>10, <2>11, CommitRows DEF DetectInv, RowInv
<1>7. ASSUME NEW d \in Detectors, HandleFails(d) PROVE DetectInv' /\ Grows
  <2>1. /\ task[d] # Idle /\ IsCall(task[d])
        /\ UNCHANGED <<clock, samples, nextId, anomalies, published, rule, alerts>>
        /\ DOMAIN task' = Detectors /\ \A o \in Detectors \ {d} : task'[o] = task[o]
    BY <1>0, <1>7 DEF HandleFails, Rollback, DetectTypeOK
  <2>2. CASE task'[d] = Idle
    <3>1. RowInv'
      BY <1>0, <2>1, <2>2, QuietTask
    <3> QED BY <1>0, <2>1, <2>2, <3>1, TaskStep
  <2>3. CASE task[d].attempt < MaxAttempts /\ task'[d] = Begun(clock, task[d].attempt + 1)
    <3>1. task[d].attempt + 1 \in 1..MaxAttempts
      BY <2>1, <2>3, AnomalyAssumption DEF IsCall
    <3>2. IsCall(task[d])' /\ DOMAIN task'[d].rows = {} /\ task'[d].pc = "metrics"
      BY <1>0, <2>1, <2>3, <3>1, BegunIsCall DEF IsCall
    <3>3. RowInv'
      BY <1>0, <2>1, <3>2, QuietTask
    <3> QED BY <1>0, <2>1, <3>2, <3>3, TaskStep
  <2> QED BY <1>0, <1>7, <2>2, <2>3 DEF HandleFails, Rollback, DetectTypeOK
<1>8. ASSUME NEW d \in Detectors, CrashDetector(d) PROVE DetectInv' /\ Grows
  <2>1. /\ task[d] # Idle /\ task'[d] = Idle /\ samples' = samples + 1
        /\ UNCHANGED <<clock, nextId, anomalies, published, rule, alerts>>
        /\ DOMAIN task' = Detectors /\ \A o \in Detectors \ {d} : task'[o] = task[o]
    BY <1>0, <1>8 DEF CrashDetector, DetectTypeOK
  <2>2. RowInv'
    BY <1>0, <2>1, QuietTask
  <2> QED BY <1>0, <2>1, <2>2, TaskStep
<1> QED BY <1>1, <1>2, <1>3, <1>4, <1>5, <1>6, <1>7, <1>8 DEF DetectNext, DetectorStep

\* A step of somebody else: the detector's tables keep their ids and keys.
Rewrites ==
    /\ UNCHANGED <<clock, samples, task, nextId, published, alerts>>
    /\ DOMAIN anomalies' = DOMAIN anomalies
    /\ \A x \in DOMAIN anomalies : anomalies'[x].key = anomalies[x].key
    /\ anomalies' \in [DOMAIN anomalies' -> [key: Keys, status: Statuses]]
    /\ rule' \in [state: {"enabled", "disabled", "deleted"}, last: 0..MaxClock]

\* Such a step keeps DetectInv.
LEMMA DetectFrame ==
  ASSUME DetectInv, Rewrites
  PROVE  DetectInv'
<1>1. DetectTypeOK'
  BY DEF DetectInv, DetectTypeOK, IsCall, Rewrites
<1>2. SamplesAreFew'
  BY DEF DetectInv, SamplesAreFew, Rewrites
<1>3. \A o \in Detectors : \A k : Inserting(o, k)' = Inserting(o, k)
  BY DEF Inserting, Rewrites
<1>4. KeysAreNew'
  BY <1>3 DEF DetectInv, KeysAreNew, Rewrites, Inserting
<1>5. RowsArePublished' /\ StoredIsPublishedOnce'
  BY DEF DetectInv, RowsArePublished, StoredIsPublishedOnce, Rewrites
<1> QED BY <1>1, <1>2, <1>4, <1>5 DEF DetectInv

\* A change of one status leaves ids, keys and the other rows alone.
LEMMA StatusOnly ==
  ASSUME DetectTypeOK, NEW x, NEW st \in Statuses,
         anomalies' = [anomalies EXCEPT ![x].status = st]
  PROVE  /\ DOMAIN anomalies' = DOMAIN anomalies
         /\ \A y \in DOMAIN anomalies : anomalies'[y].key = anomalies[y].key
         /\ \A y \in DOMAIN anomalies : y # x => anomalies'[y] = anomalies[y]
         /\ x \in DOMAIN anomalies => anomalies'[x].status = st
         /\ anomalies' \in [DOMAIN anomalies' -> [key: Keys, status: Statuses]]
BY DEF DetectTypeOK

----------------------------------------------------------------------------
(* The cooldown *)

\* Sets of tasks and of alerts are finite; a task is not both stale and pending.
LEMMA SpanSets ==
  ASSUME DetectTypeOK, NEW t \in 1..MaxClock
  PROVE  /\ IsFiniteSet(Stale(t)) /\ IsFiniteSet(Pending(t))
         /\ IsFiniteSet(FiredIn(t, Rule.cooldown))
         /\ Cardinality(Stale(t)) \in Nat /\ Cardinality(Pending(t)) \in Nat
         /\ Cardinality(FiredIn(t, Rule.cooldown)) \in Nat /\ Cardinality(Detectors) \in Nat
         /\ Cardinality(Stale(t)) + Cardinality(Pending(t)) <= Cardinality(Detectors)
<1>1. /\ Stale(t) \subseteq Detectors /\ Pending(t) \subseteq Detectors
      /\ FiredIn(t, Rule.cooldown) \subseteq alerts /\ IsFiniteSet(Detectors) /\ IsFiniteSet(alerts)
  BY AnomalyAssumption DEF Stale, Pending, FiredIn, DetectTypeOK
<1>2. \A d \in Pending(t) : task[d].now \in Nat /\ ~(task[d].now < t)
  BY DEF Pending, Firing, DetectTypeOK, IsCall
<1>3. Stale(t) \cap Pending(t) = {}
  BY <1>2 DEF Stale
<1>4. /\ IsFiniteSet(Stale(t)) /\ IsFiniteSet(Pending(t))
      /\ IsFiniteSet(FiredIn(t, Rule.cooldown))
  BY <1>1, FS_Subset
<1>5. /\ Cardinality(Stale(t)) \in Nat /\ Cardinality(Pending(t)) \in Nat
      /\ Cardinality(FiredIn(t, Rule.cooldown)) \in Nat /\ Cardinality(Detectors) \in Nat
  BY <1>1, <1>4, FS_CardinalityType
<1>6. /\ IsFiniteSet(Stale(t) \cup Pending(t))
      /\ Cardinality(Stale(t) \cup Pending(t))
           = Cardinality(Stale(t)) + Cardinality(Pending(t)) - Cardinality(Stale(t) \cap Pending(t))
  BY <1>4, FS_Union
<1>7. Cardinality(Stale(t) \cap Pending(t)) = 0
  BY <1>3, FS_EmptySet
<1>8. Cardinality(Stale(t) \cup Pending(t)) <= Cardinality(Detectors)
  <2>1. Stale(t) \cup Pending(t) \subseteq Detectors
    BY <1>1
  <2> QED BY <1>1, <2>1, FS_Subset
<1> QED BY <1>4, <1>5, <1>6, <1>7, <1>8

\* More room for more tasks that are not stale.
LEMMA TriangleGrows ==
  ASSUME NEW n \in Nat, NEW m \in Nat, n <= m
  PROVE  Triangle(n) \in Nat /\ Triangle(n) <= Triangle(m) /\ Triangle(n) - 2 * n <= Triangle(m) - 2 * m
<1>1. PICK e \in Nat : m = n + e
  <2>1. m - n \in Nat /\ m = n + (m - n)
    OBVIOUS
  <2> QED BY <2>1
<1>2. n * n \in Nat /\ n * e \in Nat /\ e * e \in Nat
  OBVIOUS
<1>3. e <= e * e
  <2>1. CASE e = 0
    BY <2>1
  <2>2. CASE e # 0
    <3>1. PICK g \in Nat : e = g + 1
      <4>1. e - 1 \in Nat /\ e = (e - 1) + 1
        BY <2>2
      <4> QED BY <4>1
    <3>2. e * e = e * g + e /\ e * g \in Nat
      BY <3>1
    <3> QED BY <3>2
  <2> QED BY <2>1, <2>2
<1>4. n * (n + 1) = n * n + n /\ (n + e) * (n + e + 1) = n * n + 2 * (n * e) + e * e + n + e
  OBVIOUS
<1> QED BY <1>1, <1>2, <1>3, <1>4 DEF Triangle

\* One task no longer stale makes room for a whole round.
LEMMA TriangleNext ==
  ASSUME NEW n \in Nat
  PROVE  /\ Triangle(n) \in Nat /\ Triangle(n + 1) = Triangle(n) + 2 * (n + 1)
         /\ 2 * n <= Triangle(n)
<1>1. n * n \in Nat /\ n <= n * n
  <2>1. CASE n = 0
    BY <2>1
  <2>2. CASE n # 0
    <3>1. PICK g \in Nat : n = g + 1
      <4>1. n - 1 \in Nat /\ n = (n - 1) + 1
        BY <2>2
      <4> QED BY <4>1
    <3>2. n * n = n * g + n /\ n * g \in Nat
      BY <3>1
    <3> QED BY <3>2
  <2> QED BY <2>1, <2>2
<1>2. n * (n + 1) = n * n + n /\ (n + 1) * (n + 1 + 1) = n * n + 3 * n + 2
  OBVIOUS
<1> QED BY <1>1, <1>2 DEF Triangle

\* A step that fires nothing: no task becomes stale, and none becomes pending
\* in a span in whose cooldown the rule is.
LEMMA SpanQuiet ==
  ASSUME DetectTypeOK, NEW t \in 1..MaxClock, SpanIsBounded(t),
         FiredIn(t, Rule.cooldown)' = FiredIn(t, Rule.cooldown), rule'.last = rule.last,
         Stale(t)' \subseteq Stale(t), rule.last < t \/ Pending(t)' \subseteq Pending(t)
  PROVE  SpanIsBounded(t)'
<1> DEFINE k == Cardinality(Detectors)
           n == k - Cardinality(Stale(t))
           m == k - Cardinality(Stale(t)')
           f == Cardinality(FiredIn(t, Rule.cooldown))
           p == Cardinality(Pending(t))
           q == Cardinality(Pending(t)')
<1>1. n \in Nat /\ f \in Nat /\ p \in Nat /\ IsFiniteSet(Stale(t)) /\ IsFiniteSet(Pending(t))
  BY SpanSets
<1>2. m \in Nat /\ q \in Nat
  <2>1. Stale(t)' \subseteq Detectors /\ Pending(t)' \subseteq Detectors /\ IsFiniteSet(Detectors)
    BY AnomalyAssumption DEF Stale, Pending
  <2>2. /\ Cardinality(Stale(t)') \in Nat /\ Cardinality(Pending(t)') \in Nat
        /\ Cardinality(Stale(t)') <= Cardinality(Detectors) /\ Cardinality(Detectors) \in Nat
    BY <2>1, FS_Subset, FS_CardinalityType
  <2> QED BY <2>2
<1>3. n <= m
  <2>1. Cardinality(Stale(t)') <= Cardinality(Stale(t)) /\ Cardinality(Stale(t)') \in Nat
    BY <1>1, FS_Subset, FS_CardinalityType
  <2> QED BY <2>1, SpanSets
<1>4. rule.last < t \/ q <= p
  BY <1>1, FS_Subset
<1>5. 2 * (f + (IF rule.last < t THEN n ELSE p)) <= Triangle(n)
  BY DEF SpanIsBounded
<1>6. /\ Triangle(n) \in Nat /\ Triangle(n) <= Triangle(m) /\ Triangle(m) \in Nat
      /\ Triangle(n) - 2 * n <= Triangle(m) - 2 * m
  BY <1>1, <1>2, <1>3, TriangleGrows
<1>7. 2 * (f + (IF rule.last < t THEN m ELSE q)) <= Triangle(m)
  <2> HIDE DEF n, m, f, p, q
  <2> QED BY <1>1, <1>2, <1>4, <1>5, <1>6
<1> QED BY <1>7 DEF SpanIsBounded

\* In a span that has not begun nothing was fired.
LEMMA SpanFuture ==
  ASSUME NEW t \in 1..MaxClock, clock' \in Nat, clock' < t,
         rule'.last \in Nat, rule'.last <= clock', \A a \in alerts' : a[1] \in Nat /\ a[1] <= clock'
  PROVE  SpanIsBounded(t)'
<1>1. FiredIn(t, Rule.cooldown)' = {}
  BY DEF FiredIn
<1>2. Cardinality(FiredIn(t, Rule.cooldown)') = 0
  BY <1>1, FS_EmptySet
<1>3. PICK n \in Nat : n = Cardinality(Detectors) - Cardinality(Stale(t)')
  <2>1. Stale(t)' \subseteq Detectors /\ IsFiniteSet(Detectors)
    BY AnomalyAssumption DEF Stale
  <2>2. /\ Cardinality(Stale(t)') \in Nat /\ Cardinality(Detectors) \in Nat
        /\ Cardinality(Stale(t)') <= Cardinality(Detectors)
    BY <2>1, FS_Subset, FS_CardinalityType
  <2> QED BY <2>2
<1>4. 2 * n <= Triangle(n)
  BY <1>3, TriangleNext
<1>5. rule'.last < t
  <2>1. t \in Nat
    BY AnomalyAssumption DEF MaxClock
  <2> QED BY <2>1
<1> QED BY <1>2, <1>3, <1>4, <1>5 DEF SpanIsBounded

\* A task that fires.  When it is stale the others of the span may follow; when
\* it is in the span they may not, and nor may they when it is later.
LEMMA SpanFires ==
  ASSUME DetectTypeOK, NEW t \in 1..MaxClock, SpanIsBounded(t), NEW d \in Detectors,
         task[d] # Idle, task[d].fires, task'[d] = Idle,
         \A o \in Detectors \ {d} : task'[o] = task[o],
         rule'.last = task[d].now, NEW a, a \notin alerts, a[1] = task[d].now,
         alerts' = alerts \cup {a}
  PROVE  SpanIsBounded(t)'
<1> DEFINE k == Cardinality(Detectors)
           s == Cardinality(Stale(t))
           n == k - s
           f == Cardinality(FiredIn(t, Rule.cooldown))
           p == Cardinality(Pending(t))
<1>1. /\ n \in Nat /\ f \in Nat /\ p \in Nat /\ IsFiniteSet(Stale(t)) /\ IsFiniteSet(Pending(t))
      /\ IsFiniteSet(FiredIn(t, Rule.cooldown)) /\ p <= n /\ s \in Nat /\ k \in Nat
  BY SpanSets
<1>2. 2 * (f + p) <= Triangle(n) /\ 2 * (f + (IF rule.last < t THEN n ELSE p)) <= Triangle(n)
  <2>1. 2 * (f + (IF rule.last < t THEN n ELSE p)) <= Triangle(n)
    BY DEF SpanIsBounded
  <2>2. Triangle(n) \in Nat
    BY <1>1, TriangleNext
  <2> HIDE DEF n, f, p
  <2> QED BY <1>1, <2>1, <2>2
<1>3. PICK now \in 1..MaxClock : now = task[d].now
  BY DEF DetectTypeOK, IsCall
<1>4. PICK c \in Nat : c = Rule.cooldown
  BY AnomalyAssumption
<1>5. MaxClock \in Nat /\ t \in Nat /\ now \in Nat
  BY AnomalyAssumption DEF MaxClock
<1>6. FiredIn(t, Rule.cooldown)' =
        IF t <= now /\ now < t + c THEN FiredIn(t, Rule.cooldown) \cup {a} ELSE FiredIn(t, Rule.cooldown)
  BY <1>3, <1>4 DEF FiredIn
<1>7. Stale(t)' = Stale(t) \ {d} /\ Pending(t)' = Pending(t) \ {d}
  BY DEF Stale, Pending, Firing
<1>8. CASE now < t
  <2>1. d \in Stale(t) /\ d \notin Pending(t) /\ FiredIn(t, Rule.cooldown)' = FiredIn(t, Rule.cooldown)
    BY <1>3, <1>5, <1>6, <1>8 DEF Stale, Pending
  <2>2. Cardinality(Stale(t)') = s - 1
    BY <1>1, <1>7, <2>1, FS_RemoveElement
  <2>3. Triangle(n + 1) = Triangle(n) + 2 * (n + 1) /\ Triangle(n) \in Nat
    BY <1>1, TriangleNext
  <2>4. k - Cardinality(Stale(t)') = n + 1
    BY <1>1, <2>2
  <2>5. 2 * (f + (n + 1)) <= Triangle(n + 1)
    <3> HIDE DEF n, f, p
    <3> QED BY <1>1, <1>2, <2>3
  <2> QED BY <1>3, <1>8, <2>1, <2>4, <2>5 DEF SpanIsBounded
<1>9. CASE t <= now /\ now < t + c
  <2>1. d \in Pending(t) /\ d \notin Stale(t) /\ FiredIn(t, Rule.cooldown)' = FiredIn(t, Rule.cooldown) \cup {a}
    BY <1>3, <1>4, <1>5, <1>6, <1>9 DEF Stale, Pending, Firing
  <2>2. Cardinality(Pending(t)') = p - 1
    BY <1>1, <1>7, <2>1, FS_RemoveElement
  <2>3. Cardinality(FiredIn(t, Rule.cooldown)') = f + 1
    <3>1. a \notin FiredIn(t, Rule.cooldown)
      BY DEF FiredIn
    <3> QED BY <1>1, <2>1, <3>1, FS_AddElement
  <2>4. Stale(t)' = Stale(t)
    BY <1>7, <2>1
  <2>5. 2 * ((f + 1) + (p - 1)) <= Triangle(n)
    <3>1. Triangle(n) \in Nat
      BY <1>1, TriangleNext
    <3> HIDE DEF n, f, p
    <3> QED BY <1>1, <1>2, <3>1
  <2>6. ~(now < t)
    BY <1>5, <1>9
  <2> QED BY <1>3, <2>2, <2>3, <2>4, <2>5, <2>6 DEF SpanIsBounded
<1>10. CASE t + c <= now
  <2>1. d \notin Pending(t) /\ d \notin Stale(t) /\ FiredIn(t, Rule.cooldown)' = FiredIn(t, Rule.cooldown)
    BY <1>3, <1>4, <1>5, <1>6, <1>10 DEF Stale, Pending
  <2>2. ~(now < t)
    BY <1>4, <1>5, <1>10
  <2>3. Stale(t)' = Stale(t) /\ Pending(t)' = Pending(t)
    BY <1>7, <2>1
  <2> QED BY <1>2, <1>3, <2>1, <2>2, <2>3 DEF SpanIsBounded
<1> QED BY <1>4, <1>5, <1>8, <1>9, <1>10

\* An alert is numbered after those of its minute.
LEMMA AlertIsNew ==
  ASSUME DetectTypeOK, NEW now \in 1..MaxClock, NEW b, b = <<now, Cardinality(FiredIn(now, 1)) + 1>>,
         \A a \in alerts : a[2] <= Cardinality(FiredIn(a[1], 1))
  PROVE  /\ b \notin alerts
         /\ alerts' = alerts \cup {b} => \A a \in alerts' : a[2] <= Cardinality(FiredIn(a[1], 1)')
<1>1. \A a \in alerts : a[1] \in 1..MaxClock /\ a[2] \in Nat /\ a = <<a[1], a[2]>>
  BY DEF DetectTypeOK
<1>2. \A u \in 1..MaxClock : IsFiniteSet(FiredIn(u, 1)) /\ Cardinality(FiredIn(u, 1)) \in Nat
  BY FS_Subset, FS_CardinalityType DEF FiredIn, DetectTypeOK
<1>3. PICK n \in Nat : n = Cardinality(FiredIn(now, 1))
  BY <1>2
<1>4. b = <<now, n + 1>> /\ b[1] = now /\ b[2] = n + 1
  BY <1>3
<1>5. b \notin alerts
  <2> SUFFICES ASSUME b \in alerts PROVE FALSE
    OBVIOUS
  <2>1. b[2] <= n
    BY <1>3, <1>4
  <2> QED BY <1>3, <1>4, <2>1
<1>6. ASSUME alerts' = alerts \cup {b}, NEW a \in alerts' PROVE a[2] <= Cardinality(FiredIn(a[1], 1)')
  <2>1. PICK u \in 1..MaxClock : u = a[1]
    BY <1>1, <1>4, <1>6
  <2>2. FiredIn(u, 1) \subseteq FiredIn(u, 1)' /\ IsFiniteSet(FiredIn(u, 1)')
        /\ Cardinality(FiredIn(u, 1)') \in Nat
    <3>1. FiredIn(u, 1)' \subseteq FiredIn(u, 1) \cup {b}
      BY <1>6 DEF FiredIn
    <3>2. IsFiniteSet(FiredIn(u, 1) \cup {b})
      BY <1>2, FS_AddElement
    <3>3. FiredIn(u, 1) \subseteq FiredIn(u, 1)'
      BY <1>6 DEF FiredIn
    <3> QED BY <3>1, <3>2, <3>3, FS_Subset, FS_CardinalityType
  <2>3. CASE a \in alerts
    <3>1. Cardinality(FiredIn(u, 1)) <= Cardinality(FiredIn(u, 1)') /\ Cardinality(FiredIn(u, 1)) \in Nat
      BY <1>2, <2>2, FS_Subset
    <3>2. a[2] <= Cardinality(FiredIn(u, 1)) /\ a[2] \in Nat
      BY <1>1, <2>1, <2>3
    <3>3. a[2] <= Cardinality(FiredIn(u, 1)')
      BY <2>2, <3>1, <3>2
    <3> QED BY <2>1, <3>3
  <2>4. CASE a = b
    <3>1. u = now
      BY <1>4, <2>1, <2>4
    <3>2. FiredIn(u, 1)' = FiredIn(u, 1) \cup {b} /\ b \notin FiredIn(u, 1)
      BY <1>4, <1>5, <1>6, <3>1 DEF FiredIn
    <3>3. Cardinality(FiredIn(u, 1)') = n + 1
      BY <1>2, <1>3, <3>1, <3>2, FS_AddElement
    <3> QED BY <1>4, <2>1, <2>4, <3>3
  <2> QED BY <1>6, <2>3, <2>4
<1> QED BY <1>5, <1>6

\* A step that fires nothing, of the clock or of one task: it goes on, ends, or
\* begins now, and becomes one that fires only outside the rule's cooldown.
LEMMA StormQuiet ==
  ASSUME DetectTypeOK, DetectTypeOK', StormInv, UNCHANGED alerts, rule'.last = rule.last,
         clock' \in {clock, clock + 1},
         \A o \in Detectors : task'[o] # Idle =>
            /\ task'[o].fires => task'[o].pc \in {"alert", "commit"}
            /\ \/ task'[o].now = clock' /\ task'[o].pc = "metrics"
               \/ /\ task[o] # Idle /\ task'[o].now = task[o].now
                  /\ Firing(o)' => \/ Firing(o) \/ rule.last = 0
                                   \/ task[o].now - rule.last >= Rule.cooldown
  PROVE  StormInv'
<1>0. /\ clock \in Nat /\ clock' \in Nat /\ rule.last \in Nat /\ MaxClock \in Nat
      /\ Rule.cooldown \in Nat
      /\ \A o \in Detectors : task[o] # Idle => task[o].now \in Nat
      /\ \A o \in Detectors : task'[o] # Idle => task'[o].now \in Nat
      /\ \A a \in alerts : a[1] \in Nat
  <2>1. clock \in Nat /\ clock' \in Nat /\ rule.last \in Nat /\ MaxClock \in Nat
        /\ Rule.cooldown \in Nat
    BY AnomalyAssumption DEF DetectTypeOK, MaxClock
  <2>2. ASSUME NEW o \in Detectors, task[o] # Idle PROVE task[o].now \in Nat
    <3>1. IsCall(task[o])
      BY <2>2 DEF DetectTypeOK
    <3> QED BY <2>1, <3>1 DEF IsCall
  <2>3. ASSUME NEW o \in Detectors, task'[o] # Idle PROVE task'[o].now \in Nat
    <3>1. IsCall(task[o])'
      BY <2>3 DEF DetectTypeOK
    <3> QED BY <2>1, <3>1 DEF IsCall
  <2>4. \A a \in alerts : a[1] \in Nat
    BY DEF DetectTypeOK
  <2> QED BY <2>1, <2>2, <2>3, <2>4
<1>1. rule'.last <= clock' /\ \A a \in alerts' : a[1] <= clock' /\ a[1] \in Nat
  BY <1>0 DEF StormInv
<1>2. \A o \in Detectors : task'[o] # Idle => task'[o].now <= clock'
  BY <1>0 DEF StormInv
<1>3. \A a \in alerts' : a[2] <= Cardinality(FiredIn(a[1], 1))'
  BY DEF StormInv, FiredIn
<1>4. ASSUME NEW t \in 1..MaxClock PROVE SpanIsBounded(t)'
  <2>0. t \in Nat /\ t # 0
    BY <1>0
  <2>1. CASE clock' < t
    BY <1>0, <1>1, <2>1, SpanFuture
  <2>2. CASE ~(clock' < t)
    <3>1. Stale(t)' \subseteq Stale(t)
      <4> SUFFICES ASSUME NEW o \in Detectors, task'[o] # Idle, task'[o].now < t
                   PROVE  task[o] # Idle /\ task[o].now < t
        BY DEF Stale
      <4> QED BY <1>0, <2>2
    <3>2. ASSUME ~(rule.last < t), NEW o \in Pending(t)' PROVE o \in Pending(t)
      <4>1. /\ o \in Detectors /\ Firing(o)' /\ task'[o] # Idle /\ t <= task'[o].now
            /\ task'[o].now < t + Rule.cooldown
        BY <3>2 DEF Pending, Firing
      <4>2. task'[o].pc # "metrics"
        BY <4>1 DEF Firing
      <4>3. /\ task[o] # Idle /\ task'[o].now = task[o].now
            /\ Firing(o) \/ rule.last = 0 \/ task[o].now - rule.last >= Rule.cooldown
        BY <4>1, <4>2
      <4>4. Firing(o)
        BY <1>0, <2>0, <3>2, <4>1, <4>3
      <4> QED BY <4>1, <4>3, <4>4 DEF Pending
    <3>3. FiredIn(t, Rule.cooldown)' = FiredIn(t, Rule.cooldown)
      BY DEF FiredIn
    <3> QED BY <3>1, <3>2, <3>3, SpanQuiet DEF StormInv
  <2> QED BY <2>1, <2>2
<1> QED BY <1>1, <1>2, <1>3, <1>4 DEF StormInv

\* Every step of the detector keeps StormInv.
LEMMA StormStep ==
  ASSUME DetectTypeOK, DetectTypeOK', StormInv, DetectNext
  PROVE  StormInv'
<1>0. /\ DOMAIN task = Detectors /\ clock \in Nat
      /\ \A o \in Detectors : task[o] = Idle \/ IsCall(task[o])
      /\ \A o \in Detectors : task[o] # Idle => (task[o].fires => task[o].pc \in {"alert", "commit"})
      /\ \A o \in Detectors : task[o] # Idle => task[o].fires \in BOOLEAN
  <2>1. DOMAIN task = Detectors /\ clock \in Nat
        /\ \A o \in Detectors : task[o] = Idle \/ IsCall(task[o])
    BY DEF DetectTypeOK
  <2>2. \A o \in Detectors : task[o] # Idle => (task[o].fires => task[o].pc \in {"alert", "commit"})
    BY DEF StormInv
  <2>3. ASSUME NEW o \in Detectors, task[o] # Idle PROVE task[o].fires \in BOOLEAN
    BY <2>1, <2>3 DEF IsCall
  <2> QED BY <2>1, <2>2, <2>3
<1>1. CASE Tick
  <2>1. UNCHANGED <<task, rule, alerts>> /\ clock' = clock + 1
    BY <1>1 DEF Tick
  <2>2. \A o \in Detectors : Firing(o)' => Firing(o)
    BY <2>1 DEF Firing
  <2> QED BY <1>0, <2>1, <2>2, StormQuiet
<1>2. ASSUME NEW d \in Detectors,
             \/ Begin(d) \/ Evaluate(d) \/ Publish(d) \/ EvaluateRules(d) \/ Fire(d)
             \/ PublishAlert(d) \/ HandleFails(d) \/ CrashDetector(d)
      PROVE  StormInv'
  <2>1. /\ UNCHANGED <<clock, rule, alerts>> /\ \A o \in Detectors \ {d} : task'[o] = task[o]
    BY <1>0, <1>2
    DEF Begin, Evaluate, Publish, EvaluateRules, Fire, PublishAlert, HandleFails, Rollback, CrashDetector
  <2>2. \A o \in Detectors \ {d} : Firing(o)' => Firing(o)
    BY <2>1 DEF Firing
  <2>3. SUFFICES ASSUME task'[d] # Idle
                 PROVE  /\ task'[d].fires => task'[d].pc \in {"alert", "commit"}
                        /\ \/ task'[d].now = clock /\ task'[d].pc = "metrics"
                           \/ /\ task[d] # Idle /\ task'[d].now = task[d].now
                              /\ Firing(d)' => \/ Firing(d) \/ rule.last = 0
                                               \/ task[d].now - rule.last >= Rule.cooldown
    BY <1>0, <2>1, <2>2, StormQuiet
  <2>4. PICK g : g = task[d]
    OBVIOUS
  <2>5. g # Idle => IsCall(g) /\ (g.fires => g.pc \in {"alert", "commit"})
    BY <1>0, <2>4
  <2>6. CASE Begin(d)
    BY <1>0, <2>6 DEF Begin, Begun
  <2>7. CASE Evaluate(d)
    <3>1. g # Idle /\ g.pc = "metrics" /\ ~g.fires
      BY <2>4, <2>5, <2>7 DEF Evaluate
    <3>2. PICK m \in g.todo, z \in Scores :
              LET r == [g EXCEPT !.todo = @ \ {m}]
              IN  \/ task' = [task EXCEPT ![d] = r]
                  \/ task' = [task EXCEPT ![d] =
                        [r EXCEPT !.pc = "publish", !.rows = With(@, nextId', <<m, severity_for(z)>>)]]
      BY <2>4, <2>7, Zenon DEF Evaluate
    <3>3. PICK r : r = [g EXCEPT !.todo = @ \ {m}]
      OBVIOUS
    <3>4. PICK w : w = With(r.rows, nextId', <<m, severity_for(z)>>)
      OBVIOUS
    <3>5. r.pc = "metrics" /\ r.now = g.now /\ r.fires = g.fires
      BY <2>5, <3>1, <3>3 DEF IsCall
    <3>6. task'[d] = r \/ task'[d] = [r EXCEPT !.pc = "publish", !.rows = w]
      BY <1>0, <3>2, <3>3, <3>4
    <3>7. /\ task'[d].now = g.now /\ task'[d].fires = g.fires
          /\ task'[d].pc \in {"metrics", "publish"}
      BY <2>5, <3>1, <3>3, <3>5, <3>6 DEF IsCall
    <3> QED BY <2>4, <3>1, <3>7 DEF Firing
  <2>8. CASE Publish(d)
    <3>1. g # Idle /\ g.pc = "publish" /\ ~g.fires /\ task'[d] = [g EXCEPT !.pc = "metrics"]
      BY <1>0, <2>4, <2>5, <2>8 DEF Publish
    <3>2. task'[d].now = g.now /\ task'[d].fires = g.fires /\ task'[d].pc = "metrics"
      BY <2>5, <3>1 DEF IsCall
    <3> QED BY <2>4, <3>1, <3>2 DEF Firing
  <2>9. CASE EvaluateRules(d)
    <3>1. PICK pc \in {"fire", "commit"} :
                /\ g # Idle /\ g.pc = "metrics" /\ ~g.fires /\ task'[d] = [g EXCEPT !.pc = pc]
                /\ pc = "fire" => rule.last = 0 \/ g.now - rule.last >= Rule.cooldown
      BY <1>0, <2>4, <2>5, <2>9 DEF EvaluateRules
    <3>2. task'[d].now = g.now /\ task'[d].fires = g.fires /\ task'[d].pc = pc
      BY <2>5, <3>1 DEF IsCall
    <3> QED BY <2>4, <3>1, <3>2 DEF Firing
  <2>10. CASE Fire(d)
    <3>1. g # Idle /\ g.pc = "fire" /\ task'[d] = [g EXCEPT !.pc = "alert", !.fires = TRUE]
      BY <1>0, <2>4, <2>10 DEF Fire
    <3>2. task'[d].now = g.now /\ task'[d].pc = "alert"
      BY <2>5, <3>1 DEF IsCall
    <3> QED BY <2>4, <3>1, <3>2 DEF Firing
  <2>11. CASE PublishAlert(d)
    <3>1. g # Idle /\ g.pc = "alert" /\ task'[d] = [g EXCEPT !.pc = "commit"]
      BY <1>0, <2>4, <2>11 DEF PublishAlert
    <3>2. task'[d].now = g.now /\ task'[d].pc = "commit" /\ task'[d].fires = g.fires
      BY <2>5, <3>1 DEF IsCall
    <3> QED BY <2>4, <3>1, <3>2 DEF Firing
  <2>12. CASE HandleFails(d) \/ CrashDetector(d)
    <3>1. task'[d] = Begun(clock, g.attempt + 1)
      BY <1>0, <2>3, <2>4, <2>12 DEF HandleFails, Rollback, CrashDetector
    <3> QED BY <3>1 DEF Begun
  <2> QED BY <1>2, <2>6, <2>7, <2>8, <2>9, <2>10, <2>11, <2>12
<1>3. ASSUME NEW d \in Detectors, Commit(d) PROVE StormInv'
  <2>1. /\ task[d] # Idle /\ task'[d] = Idle /\ clock' = clock
        /\ \A o \in Detectors \ {d} : task'[o] = task[o]
    BY <1>0, <1>3 DEF Commit
  <2>2. CASE ~task[d].fires
    <3>1. UNCHANGED <<alerts, rule>>
      BY <1>3, <2>2 DEF Commit
    <3>2. \A o \in Detectors \ {d} : Firing(o)' => Firing(o)
      BY <2>1 DEF Firing
    <3> QED BY <1>0, <2>1, <3>1, <3>2, StormQuiet
  <2>3. CASE task[d].fires
    <3>1. PICK now \in 1..MaxClock : now = task[d].now
      BY <1>0, <2>1 DEF IsCall
    <3>2. PICK b : b = <<now, Cardinality(FiredIn(now, 1)) + 1>>
      OBVIOUS
    <3>3. alerts' = alerts \cup {b} /\ rule' = [rule EXCEPT !.last = now]
      BY <1>3, <2>3, <3>1, <3>2 DEF Commit
    <3>4. rule'.last = now /\ now <= clock
      BY <2>1, <3>1, <3>3 DEF StormInv, DetectTypeOK
    <3>5. b \notin alerts /\ \A a \in alerts' : a[2] <= Cardinality(FiredIn(a[1], 1)')
      BY <3>2, <3>3, AlertIsNew DEF StormInv
    <3>6. b[1] = now /\ \A a \in alerts' : a[1] <= clock'
      BY <2>1, <3>2, <3>3, <3>4 DEF StormInv
    <3>7. \A t \in 1..MaxClock : SpanIsBounded(t)'
      BY <2>1, <2>3, <3>1, <3>3, <3>4, <3>5, <3>6, SpanFires DEF StormInv
    <3>8. \A o \in Detectors : task'[o] # Idle =>
            task'[o].now <= clock' /\ (task'[o].fires => task'[o].pc \in {"alert", "commit"})
      BY <2>1 DEF StormInv
    <3> QED BY <2>1, <3>4, <3>5, <3>6, <3>7, <3>8 DEF StormInv
  <2> QED BY <1>0, <2>1, <2>2, <2>3
<1> QED BY <1>1, <1>2, <1>3 DEF DetectNext, DetectorStep

\* What nobody but the detector does.
LEMMA StormFrame ==
  ASSUME StormInv, UNCHANGED <<clock, task, alerts>>, rule'.last = rule.last, DetectTypeOK'
  PROVE  StormInv'
BY DEF StormInv, SpanIsBounded, Stale, Pending, Firing, FiredIn

----------------------------------------------------------------------------
(* The parts of the invariant under a step of one task *)

\* The rows of investigations are only added, and keep their anomaly.
InvsGrow ==
    /\ Len(invs) <= Len(invs') /\ DOMAIN invs \subseteq DOMAIN invs'
    /\ \A i \in DOMAIN invs : invs'[i].anomaly = invs[i].anomaly
                            /\ invs[i].refs \subseteq invs'[i].refs

\* Task a moves; the others do not.
Moves(a) == DOMAIN agent' = Agents /\ \A b \in Agents \ {a} : agent'[b] = agent[b]

\* What the type says of a row of ai_investigations.
LEMMA InvType ==
  ASSUME TypeOK
  PROVE  /\ DOMAIN invs = 1..Len(invs) /\ Len(invs) \in Nat
         /\ \A i \in DOMAIN invs : /\ invs[i] \in Investigation
                                  /\ invs[i].refs \subseteq References
                                  /\ invs[i].conclusion \in Answers(References)
                                  /\ invs[i].conclusion.refs \subseteq References
<1>1. invs \in Seq(Investigation)
  BY DEF TypeOK
<1>2. DOMAIN invs = 1..Len(invs) /\ Len(invs) \in Nat /\ \A i \in DOMAIN invs : invs[i] \in Investigation
  BY <1>1
<1>3. \A v \in Investigation : v.refs \subseteq References /\ v.conclusion \in Answers(References)
  BY DEF Investigation
<1>4. \A c \in Answers(References) : c.refs \subseteq References
  BY DEF Answers
<1> QED BY <1>2, <1>3, <1>4

\* Types of all tasks, when one moves.
LEMMA RunTypes ==
  ASSUME TypeOK, NEW a \in Agents, Moves(a), Len(invs) <= Len(invs'), Len(invs') \in Nat,
         nextId <= nextId', nextId' \in Nat,
         agent'[a] = Resting \/ IsRun(agent[a])'
  PROVE  \A b \in Agents : agent'[b] = Resting \/ IsRun(agent[b])'
<1> SUFFICES ASSUME NEW b \in Agents, b # a, agent'[b] # Resting PROVE IsRun(agent[b])'
  OBVIOUS
<1>1. IsRun(agent[b]) /\ agent'[b] = agent[b] /\ nextId \in Nat /\ Len(invs) \in Nat
  BY AnomalyAssumption, SMTT(30) DEF TypeOK, Moves, DetectTypeOK
<1>2. Ids \subseteq Ids' /\ 0..Len(invs) \subseteq 0..Len(invs')
  BY <1>1 DEF Ids
<1> QED BY <1>1, <1>2 DEF IsRun

\* Rows of the tasks.
LEMMA RunRows ==
  ASSUME RunsHaveRows, NEW a \in Agents, Moves(a), InvsGrow,
         DOMAIN anomalies \subseteq DOMAIN anomalies', agent'[a] = Resting \/ HasRow(a)'
  PROVE  RunsHaveRows'
BY DEF RunsHaveRows, Moves, InvsGrow, HasRow

\* Consumed messages, when the one of the task that moves stays known.
LEMMA RunKnown ==
  ASSUME TakenIsKnown, NEW a \in Agents, Moves(a), InvsGrow, dropped \subseteq dropped',
         \A x \in taken' \ taken : Known(x)',
         \A x \in taken' : agent[a] # Resting /\ agent[a].worker /\ agent[a].anomaly = x => Known(x)'
  PROVE  TakenIsKnown'
<1> SUFFICES ASSUME NEW x \in taken', x \in taken PROVE Known(x)'
  BY DEF TakenIsKnown
<1>1. CASE Of(x) # {}
  BY <1>1 DEF Known, Of, InvsGrow
<1>2. CASE x \in dropped
  BY <1>2 DEF Known
<1>3. ASSUME NEW b \in Agents, agent[b] # Resting, agent[b].worker, agent[b].anomaly = x
      PROVE  Known(x)'
  <2>1. CASE b = a
    BY <1>3, <2>1
  <2>2. CASE b # a
    BY <1>3, <2>2 DEF Known, Moves
  <2> QED BY <2>1, <2>2
<1> QED BY <1>1, <1>2, <1>3 DEF TakenIsKnown, Known

\* Anomalies under investigation, when none becomes one, no investigation fails
\* and the task that moves is not about to write a failure.
LEMMA RunRelease ==
  ASSUME ReleaseIsDue, NEW a \in Agents, Moves(a), InvsGrow,
         \A i \in DOMAIN invs : invs'[i].status = "FAILED" => invs[i].status = "FAILED",
         \A x \in DOMAIN anomalies' \ byHand' : anomalies'[x].status = "INVESTIGATING" =>
              x \in DOMAIN anomalies \ byHand /\ anomalies[x].status = "INVESTIGATING",
         ~At(a, "failing")'
  PROVE  ReleaseIsDue'
<1> SUFFICES ASSUME NEW x \in DOMAIN anomalies' \ byHand', anomalies'[x].status = "INVESTIGATING"
             PROVE  \E i \in Of(x)' : invs'[i].status # "FAILED" /\ Releases(i)'
  BY DEF ReleaseIsDue
<1>1. PICK i \in Of(x) : invs[i].status # "FAILED" /\ Releases(i)
  BY DEF ReleaseIsDue
<1>2. i \in Of(x)' /\ invs'[i].status # "FAILED"
  BY <1>1 DEF Of, InvsGrow
<1>3. Releases(i)'
  BY <1>1 DEF Releases, At, Moves
<1> QED BY <1>2, <1>3

\* Rows do not disappear: what a reference of theirs names is still there.
RowsRemain ==
    /\ DOMAIN anomalies \subseteq DOMAIN anomalies'
    /\ alerts \subseteq alerts' /\ elsewhere' = elsewhere

\* What a tool could return it still can.
LEMMA NamesRemain ==
  ASSUME RowsRemain, NEW r \in References, Citable(r)
  PROVE  Citable(r)'
BY DEF Citable, NamesARow, RowsRemain

\* Evidence, when a step stores references that name rows.
LEMMA RunEvidence ==
  ASSUME TypeOK, RunsHaveRows, EvidenceIsStored, NEW a \in Agents, Moves(a), InvsGrow, RowsRemain,
         \A i \in DOMAIN invs' : \A r \in invs'[i].refs :
            (i \in DOMAIN invs /\ r \in invs[i].refs) \/ Citable(r)',
         agent'[a] = Resting \/ Stored(a)'
  PROVE  EvidenceIsStored'
<1>1. \A i \in DOMAIN invs : invs[i].refs \subseteq References
  BY InvType
<1>2. ASSUME NEW i \in DOMAIN invs', NEW r \in invs'[i].refs PROVE Citable(r)'
  BY <1>1, <1>2, NamesRemain DEF EvidenceIsStored
<1>3. ASSUME NEW b \in Agents, b # a, agent'[b] # Resting PROVE Stored(b)'
  BY <1>3 DEF EvidenceIsStored, Stored, Moves, InvsGrow, RunsHaveRows, HasRow
<1> QED BY <1>2, <1>3 DEF EvidenceIsStored

\* Conclusions, when none is written.
LEMMA RunGrounded ==
  ASSUME TypeOK, GroundedConclusion, InvsGrow, RowsRemain,
         \A i \in DOMAIN invs' : \/ i \in DOMAIN invs /\ invs'[i].conclusion = invs[i].conclusion
                                 \/ invs'[i].conclusion = NoConclusion
  PROVE  GroundedConclusion'
<1>1. \A i \in DOMAIN invs : invs[i].conclusion.refs \subseteq References
  BY InvType
<1> SUFFICES ASSUME NEW i \in DOMAIN invs'
             PROVE  /\ invs'[i].conclusion.refs \subseteq invs'[i].refs
                    /\ \A r \in invs'[i].conclusion.refs : Citable(r)'
                    /\ invs'[i].conclusion.cause = "found" /\ invs'[i].conclusion.refs = {} =>
                            invs'[i].conclusion.confidence <= 20
  BY DEF GroundedConclusion
<1>2. CASE invs'[i].conclusion = NoConclusion
  BY <1>2 DEF NoConclusion
<1>3. CASE i \in DOMAIN invs /\ invs'[i].conclusion = invs[i].conclusion
  <2>1. invs[i].conclusion.refs \subseteq invs[i].refs
        /\ (invs[i].conclusion.cause = "found" /\ invs[i].conclusion.refs = {} =>
                            invs[i].conclusion.confidence <= 20)
    BY <1>3 DEF GroundedConclusion
  <2>2. \A r \in invs[i].conclusion.refs : Citable(r)'
    BY <1>1, <1>3, NamesRemain DEF GroundedConclusion
  <2> QED BY <1>3, <2>1, <2>2 DEF InvsGrow
<1> QED BY <1>2, <1>3

----------------------------------------------------------------------------
(* The cost *)

\* The calls that are left are finitely many.
LEMMA CallsLeftIsFinite == IsFiniteSet(CallsLeft) /\ Cardinality(CallsLeft) \in Nat
<1>1. IsFiniteSet(Agents) /\ IsFiniteSet(1..MaxCalls + 3)
  BY InvestigationAssumption, FS_Interval
<1>2. IsFiniteSet(Agents \X (1..MaxCalls + 3))
  BY <1>1, FS_Product
<1> QED BY <1>2, FS_Subset, FS_CardinalityType DEF CallsLeft

\* Nothing is metered anew: the calls made and left stay within the budget.
LEMMA CostStays ==
  ASSUME CostIsCounted, TypeOK, UNCHANGED rate, NEW a \in Agents, Moves(a),
         agent'[a] = Resting \/ Frugal(a)',
         \/ CallsLeft' \subseteq CallsLeft /\ chats' = chats
         \/ \E p \in CallsLeft : CallsLeft' \subseteq CallsLeft \ {p} /\ chats' = chats + 1
  PROVE  CostIsCounted'
<1>1. \A b \in Agents : agent'[b] # Resting => Frugal(b)'
  BY DEF CostIsCounted, Frugal, Moves
<1> DEFINE n == Cardinality(CallsLeft)
           limit == Budget(IF rate <= RateLimit THEN rate ELSE RateLimit)
<1>2. IsFiniteSet(CallsLeft) /\ n \in Nat /\ chats \in Nat /\ chats + n <= limit
  BY CallsLeftIsFinite DEF CostIsCounted, TypeOK
<1>3. limit \in Int
  BY InvestigationAssumption DEF TypeOK, Budget
<1>4. PICK L : L = CallsLeft'
  OBVIOUS
<1>5. L \subseteq CallsLeft
  BY <1>4
<1>6. IsFiniteSet(L) /\ Cardinality(L) \in Nat /\ Cardinality(L) <= n
  BY <1>2, <1>5, FS_Subset, FS_CardinalityType
<1>7. CASE chats' = chats
  <2>1. chats' + Cardinality(L) <= limit
    BY <1>2, <1>3, <1>6, <1>7
  <2> QED BY <1>1, <1>4, <2>1 DEF CostIsCounted, Budget
<1>8. CASE \E p \in CallsLeft : CallsLeft' \subseteq CallsLeft \ {p} /\ chats' = chats + 1
  <2>1. PICK p \in CallsLeft : L \subseteq CallsLeft \ {p}
    BY <1>4, <1>8
  <2>2. IsFiniteSet(CallsLeft \ {p}) /\ Cardinality(CallsLeft \ {p}) = n - 1
    BY <1>2, <2>1, FS_RemoveElement
  <2>3. Cardinality(L) <= n - 1
    BY <2>1, <2>2, FS_Subset
  <2>4. chats' + Cardinality(L) <= limit
    BY <1>2, <1>3, <1>6, <1>8, <2>3
  <2> QED BY <1>1, <1>4, <2>4 DEF CostIsCounted, Budget
<1> QED BY <1>7, <1>8

\* A task that ends, is not metered or goes on with its steps leaves no more calls.
LEMMA CallsShrink ==
  ASSUME TypeOK, NEW a \in Agents, Moves(a),
         \/ agent'[a] = Resting
         \/ ~agent'[a].metered
         \/ agent'[a].pc \notin {"read", "create", "start", "starting", "chat"}
         \/ /\ agent[a] # Resting /\ agent[a].metered /\ agent'[a].step = agent[a].step
            /\ agent[a].pc \in {"read", "create", "start", "starting", "chat"}
  PROVE  CallsLeft' \subseteq CallsLeft
<1> SUFFICES ASSUME NEW p \in CallsLeft' PROVE p \in CallsLeft
  OBVIOUS
<1>1. /\ p \in Agents \X (1..MaxCalls + 3) /\ agent'[p[1]] # Resting
      /\ agent'[p[1]].metered /\ agent'[p[1]].step < p[2]
      /\ agent'[p[1]].pc \in {"read", "create", "start", "starting", "chat"}
  BY DEF CallsLeft
<1>2. CASE p[1] # a
  BY <1>1, <1>2 DEF CallsLeft, Moves
<1>3. CASE p[1] = a
  BY <1>1, <1>3 DEF CallsLeft
<1> QED BY <1>2, <1>3

\* A chat() call of a metered investigation uses up one of its calls.
LEMMA CallsUsed ==
  ASSUME TypeOK, NEW a \in Agents, Moves(a), At(a, "chat"), agent[a].metered,
         agent[a].step < MaxCalls + 3,
         \/ agent'[a].pc = "complete"
         \/ agent'[a].step = agent[a].step + 1
  PROVE  \E p \in CallsLeft : CallsLeft' \subseteq CallsLeft \ {p}
<1>1. agent[a] # Resting /\ IsRun(agent[a]) /\ agent[a].pc = "chat"
  BY DEF At, TypeOK
<1>2. PICK k : k = agent[a].step + 1
  OBVIOUS
<1>3. k \in 1..MaxCalls + 3 /\ agent[a].step < k /\ agent[a].step \in Nat
  <2>1. agent[a].step \in Nat /\ MaxCalls \in Nat
    BY <1>1, InvestigationAssumption DEF IsRun
  <2> QED BY <1>2, <2>1
<1>4. <<a, k>> \in CallsLeft
  BY <1>1, <1>3 DEF CallsLeft
<1>5. ASSUME NEW p \in CallsLeft' PROVE p \in CallsLeft \ {<<a, k>>}
  <2>1. /\ p \in Agents \X (1..MaxCalls + 3) /\ agent'[p[1]] # Resting
        /\ agent'[p[1]].metered /\ agent'[p[1]].step < p[2]
        /\ agent'[p[1]].pc \in {"read", "create", "start", "starting", "chat"}
    BY DEF CallsLeft
  <2>2. CASE p[1] # a
    BY <2>1, <2>2 DEF CallsLeft, Moves
  <2>3. CASE p[1] = a
    <3>1. k < p[2] /\ p[2] \in Nat
      BY <1>2, <2>1, <2>3, InvestigationAssumption
    <3>2. agent[a].step < p[2] /\ p[2] # k
      BY <1>3, <3>1
    <3> QED BY <1>1, <2>1, <2>3, <3>2 DEF CallsLeft
  <2> QED BY <2>2, <2>3
<1> QED BY <1>4, <1>5

\* The limiter lets an investigation through: it adds what one may cost.
LEMMA CostOfOne ==
  ASSUME CostIsCounted, TypeOK, NEW a \in Agents, Moves(a), rate < RateLimit, rate' = rate + 1,
         UNCHANGED chats, Frugal(a)'
  PROVE  CostIsCounted'
<1>1. \A b \in Agents : agent'[b] # Resting => Frugal(b)'
  BY DEF CostIsCounted, Frugal, Moves
<1> DEFINE K == MaxCalls + 3
           n == Cardinality(CallsLeft)
           E == {a} \X (1..K)
<1>2. /\ IsFiniteSet(CallsLeft) /\ n \in Nat /\ chats \in Nat /\ K \in Nat
      /\ rate \in Nat /\ RateLimit \in Nat
  BY CallsLeftIsFinite, InvestigationAssumption DEF TypeOK
<1>3. chats + n <= rate * K
  BY <1>2 DEF CostIsCounted, Budget
<1>4. IsFiniteSet(E) /\ Cardinality(E) = K
  <2>1. IsFiniteSet({a}) /\ Cardinality({a}) = 1
    BY FS_Singleton
  <2>2. IsFiniteSet(1..K) /\ Cardinality(1..K) = K
    BY <1>2, FS_Interval
  <2>3. IsFiniteSet(E) /\ Cardinality(E) = Cardinality({a}) * Cardinality(1..K)
    BY <2>1, <2>2, FS_Product
  <2>4. Cardinality(E) = 1 * K
    BY <2>1, <2>2, <2>3
  <2> HIDE DEF E, K
  <2> QED BY <1>2, <2>3, <2>4
<1>5. PICK L : L = CallsLeft'
  OBVIOUS
<1>6. L \subseteq CallsLeft \cup E
  <2> SUFFICES ASSUME NEW p \in CallsLeft', p[1] # a PROVE p \in CallsLeft
    BY <1>5 DEF CallsLeft
  <2> QED BY DEF CallsLeft, Moves
<1> HIDE DEF E, n, K
<1>7. IsFiniteSet(CallsLeft \cup E) /\ Cardinality(CallsLeft \cup E) <= n + K
  <2>1. /\ IsFiniteSet(CallsLeft \cup E)
        /\ Cardinality(CallsLeft \cup E) = n + K - Cardinality(CallsLeft \cap E)
    BY <1>2, <1>4, FS_Union DEF n
  <2>2. Cardinality(CallsLeft \cap E) \in Nat
    BY <1>2, FS_Intersection, FS_CardinalityType
  <2> QED BY <1>2, <2>1, <2>2
<1>8. Cardinality(L) \in Nat /\ Cardinality(L) <= n + K
  <2>1. IsFiniteSet(L) /\ Cardinality(L) <= Cardinality(CallsLeft \cup E)
    BY <1>6, <1>7, FS_Subset
  <2>2. Cardinality(L) \in Nat /\ Cardinality(CallsLeft \cup E) \in Nat
    BY <1>7, <2>1, FS_CardinalityType
  <2> QED BY <1>2, <1>7, <2>1, <2>2
<1>9. (rate + 1) * K = rate * K + K /\ rate * K \in Nat
  BY <1>2
<1>10. chats' + Cardinality(L) <= rate' * K
  BY <1>2, <1>3, <1>8, <1>9
<1>11. rate' <= RateLimit
  BY <1>2
<1> QED BY <1>1, <1>5, <1>10, <1>11 DEF CostIsCounted, Budget, K

----------------------------------------------------------------------------
(* One step of a task: everything together *)

\* A step that rewrites at most statuses of the detector's rows.
LEMMA RunStep ==
  ASSUME IndInv, NEW a \in Agents, Moves(a), Rewrites, InvsGrow, UNCHANGED <<elsewhere, cancelling>>,
         invs' \in Seq(Investigation), Len(invs') <= MaxInvestigations,
         \A i \in DOMAIN invs' : invs'[i].anomaly \in Ids,
         taken' \subseteq Ids, dropped \subseteq dropped', dropped' \subseteq Ids, byHand' \subseteq byHand,
         rate' \in 0..RateLimit + 1, chats' \in Nat,
         agent'[a] = Resting \/ (IsRun(agent[a])' /\ HasRow(a)' /\ Stored(a)'),
         \A x \in taken' \ taken : Known(x)',
         \A x \in taken' : agent[a] # Resting /\ agent[a].worker /\ agent[a].anomaly = x => Known(x)',
         \A i \in DOMAIN invs' : \A r \in invs'[i].refs :
            (i \in DOMAIN invs /\ r \in invs[i].refs) \/ Citable(r)',
         ReleaseIsDue', GroundedConclusion', CostIsCounted'
  PROVE  IndInv'
<1>1. DetectInv'
  BY DetectFrame DEF IndInv
<1>2. RowsRemain /\ DOMAIN anomalies \subseteq DOMAIN anomalies' /\ Ids' = Ids /\ nextId' = nextId
      /\ nextId \in Nat /\ Len(invs') \in Nat /\ Len(invs) <= Len(invs')
  BY AnomalyAssumption DEF Rewrites, RowsRemain, Ids, IndInv, DetectInv, DetectTypeOK, InvsGrow
<1>3. \A b \in Agents : agent'[b] = Resting \/ IsRun(agent[b])'
  BY <1>2, RunTypes DEF IndInv
<1>4. TypeOK'
  BY <1>1, <1>2, <1>3 DEF IndInv, TypeOK, DetectInv, Moves, InvsGrow
<1>5. RunsHaveRows'
  BY <1>2, RunRows DEF IndInv
<1>6. TakenIsKnown'
  BY RunKnown DEF IndInv
<1>7. EvidenceIsStored'
  BY <1>2, RunEvidence DEF IndInv
<1> QED BY <1>1, <1>4, <1>5, <1>6, <1>7 DEF IndInv

\* A step that writes neither table.
LEMMA RunQuiet ==
  ASSUME IndInv, NEW a \in Agents, Moves(a),
         UNCHANGED <<clock, samples, task, nextId, anomalies, published, rule, alerts,
                     elsewhere, invs, cancelling, byHand>>,
         taken' \subseteq Ids, dropped \subseteq dropped', dropped' \subseteq Ids,
         rate' \in 0..RateLimit + 1, chats' \in Nat,
         \/ agent'[a] = Resting
         \/ IsRun(agent[a])' /\ HasRow(a)' /\ Stored(a)' /\ agent'[a].pc # "failing",
         \A x \in taken' \ taken : Known(x)',
         \A x \in taken' : agent[a] # Resting /\ agent[a].worker /\ agent[a].anomaly = x => Known(x)',
         CostIsCounted'
  PROVE  IndInv'
<1>1. Rewrites
  BY DEF Rewrites, IndInv, DetectInv, DetectTypeOK
<1>2. InvsGrow /\ invs' \in Seq(Investigation) /\ Len(invs') <= MaxInvestigations /\ RowsRemain
      /\ \A i \in DOMAIN invs' : invs'[i].anomaly \in Ids
  <2>1. invs \in Seq(Investigation) /\ Len(invs) <= MaxInvestigations /\ Len(invs) \in Nat
    BY DEF IndInv, TypeOK
  <2>2. \A i \in DOMAIN invs : invs[i].anomaly \in Ids
    BY DEF IndInv, TypeOK
  <2> QED BY <2>1, <2>2 DEF InvsGrow, RowsRemain
<1>3. ReleaseIsDue'
  <2>1. ~At(a, "failing")'
    BY DEF At
  <2> QED BY <1>2, <2>1, RunRelease DEF IndInv
<1>4. GroundedConclusion'
  BY <1>2, RunGrounded DEF IndInv
<1> QED BY <1>1, <1>2, <1>3, <1>4, RunStep

\* A task opened for an anomaly has not concluded, and nothing behind it.
LEMMA OpenedFields ==
  ASSUME Len(invs) \in Nat
  PROVE  /\ NoConclusion \in Answers(References \cup Invented)
         /\ 0 \in 0..Len(invs) /\ 0 \in 0..MaxCalls + 3
BY InvestigationAssumption DEF NoConclusion, Answers

\* A task in front of its investigation needs no row, evidence or budget yet.
LEMMA OpenedIsSound ==
  ASSUME NEW a \in Agents, agent'[a].pc \in {"rate", "read"}, agent'[a].refs = {},
         agent'[a].step = 0, agent'[a].seq = 0, agent'[a].pc = "rate" => ~agent'[a].metered
  PROVE  HasRow(a)' /\ Stored(a)' /\ Frugal(a)'
BY InvestigationAssumption DEF HasRow, Stored, Frugal

\* handle() takes a message.
LEMMA TakeStep ==
  ASSUME IndInv, NEW a \in Agents, Take(a)
  PROVE  IndInv'
<1>1. PICK m \in published :
        /\ m.id \notin taken /\ taken' = taken \cup {m.id}
        /\ \/ agent' = agent /\ dropped' = dropped \cup {m.id}
           \/ agent' = [agent EXCEPT ![a] = Opened(m.id, "rate", TRUE, 1)] /\ UNCHANGED dropped
  BY DEF Take
<1>2. /\ agent[a] = Resting /\ UNCHANGED <<rate, chats>>
      /\ UNCHANGED <<clock, samples, task, nextId, anomalies, published, rule, alerts,
                     elsewhere, invs, cancelling, byHand>>
  BY DEF Take, detectVars
<1>3. /\ TypeOK /\ CostIsCounted /\ DOMAIN agent = Agents /\ m.id \in Ids /\ Len(invs) \in Nat
      /\ taken \subseteq Ids /\ dropped \subseteq Ids
      /\ rate \in 0..RateLimit + 1 /\ chats \in Nat
  BY DEF IndInv, TypeOK, DetectTypeOK, Ids
<1>4. CASE agent' = agent /\ dropped' = dropped \cup {m.id}
  <2>1. Moves(a) /\ CallsLeft' \subseteq CallsLeft
    BY <1>2, <1>3, <1>4 DEF Moves, CallsLeft
  <2>2. CostIsCounted'
    BY <1>2, <1>3, <1>4, <2>1, CostStays
  <2>3. \A x \in taken' \ taken : Known(x)'
    BY <1>1, <1>4 DEF Known
  <2> QED BY <1>1, <1>2, <1>3, <1>4, <2>1, <2>2, <2>3, RunQuiet
<1>5. CASE agent' = [agent EXCEPT ![a] = Opened(m.id, "rate", TRUE, 1)] /\ UNCHANGED dropped
  <2>1. Moves(a) /\ agent'[a] = Opened(m.id, "rate", TRUE, 1)
    BY <1>3, <1>5 DEF Moves
  <2>2. /\ IsRun(agent[a])' /\ agent'[a] # Resting /\ agent'[a].pc = "rate"
        /\ agent'[a].anomaly = m.id /\ agent'[a].worker = TRUE /\ agent'[a].metered = FALSE
        /\ agent'[a].refs = {} /\ agent'[a].step = 0 /\ agent'[a].seq = 0
    <3>1. 1 \in 1..MaxAttempts
      BY AnomalyAssumption
    <3> QED BY <1>2, <1>3, <2>1, <3>1, OpenedFields DEF Opened, IsRun, Resting, Ids
  <2>3. HasRow(a)' /\ Stored(a)' /\ Frugal(a)'
    BY <2>2, OpenedIsSound
  <2>4. CostIsCounted'
    BY <1>2, <1>3, <2>1, <2>2, <2>3, CallsShrink, CostStays
  <2>5. \A x \in taken' \ taken : Known(x)'
    BY <1>1, <2>2 DEF Known
  <2> QED BY <1>1, <1>2, <1>3, <1>5, <2>1, <2>2, <2>3, <2>4, <2>5, RunQuiet
<1> QED BY <1>1, <1>4, <1>5

\* rate_ok() lets a message through, or drops it.
LEMMA RateStep ==
  ASSUME IndInv, NEW a \in Agents, rate_ok(a)
  PROVE  IndInv'
<1>1. /\ agent[a] # Resting /\ agent[a].pc = "rate" /\ UNCHANGED <<taken, chats>>
      /\ UNCHANGED <<clock, samples, task, nextId, anomalies, published, rule, alerts,
                     elsewhere, invs, cancelling, byHand>>
  BY DEF rate_ok, At, detectVars
<1>2. /\ TypeOK /\ CostIsCounted /\ DOMAIN agent = Agents /\ IsRun(agent[a])
      /\ taken \subseteq Ids /\ dropped \subseteq Ids /\ agent[a].anomaly \in Ids
      /\ rate \in 0..RateLimit + 1 /\ chats \in Nat /\ RateLimit \in Nat
      /\ agent[a].refs = {} /\ agent[a].step = 0 /\ agent[a].seq = 0
  BY <1>1, InvestigationAssumption
  DEF IndInv, TypeOK, EvidenceIsStored, Stored, CostIsCounted, Frugal, IsRun
<1>3. rate' = IF rate + 1 <= RateLimit + 1 THEN rate + 1 ELSE RateLimit + 1
  <2>1. \A u, v \in Int : Min({u, v}) = IF u <= v THEN u ELSE v
    <3> SUFFICES ASSUME NEW u \in Int, NEW v \in Int
                 PROVE  Min({u, v}) = IF u <= v THEN u ELSE v
      OBVIOUS
    <3>1. \E x \in {u, v} : \A y \in {u, v} : x =< y
      OBVIOUS
    <3> QED BY <3>1 DEF Min
  <2> QED BY <1>2, <2>1 DEF rate_ok
<1>4. CASE rate < RateLimit
  <2>1. agent' = [agent EXCEPT ![a].pc = "read", ![a].metered = TRUE] /\ UNCHANGED dropped
    BY <1>4 DEF rate_ok
  <2>2. Moves(a) /\ agent'[a] = [agent[a] EXCEPT !.pc = "read", !.metered = TRUE]
    BY <1>2, <2>1 DEF Moves
  <2>3. /\ IsRun(agent[a])' /\ agent'[a].pc = "read" /\ agent'[a].refs = {}
        /\ agent'[a].step = 0 /\ agent'[a].seq = 0 /\ agent'[a].anomaly = agent[a].anomaly
        /\ agent'[a].worker = agent[a].worker
    BY <1>1, <1>2, <2>2 DEF IsRun, Ids
  <2>4. HasRow(a)' /\ Stored(a)' /\ Frugal(a)' /\ agent'[a] # Resting
    BY <2>3, OpenedIsSound DEF Resting
  <2>5. rate' = rate + 1 /\ rate' \in 0..RateLimit + 1
    BY <1>2, <1>3, <1>4
  <2>6. CostIsCounted'
    BY <1>1, <1>2, <1>4, <2>2, <2>4, <2>5, CostOfOne
  <2>7. \A x \in taken' : agent[a] # Resting /\ agent[a].worker /\ agent[a].anomaly = x => Known(x)'
    BY <2>3, <2>4 DEF Known
  <2> QED BY <1>1, <1>2, <2>1, <2>2, <2>3, <2>4, <2>5, <2>6, <2>7, RunQuiet
<1>5. CASE ~(rate < RateLimit)
  <2>1. agent' = [agent EXCEPT ![a] = Resting] /\ dropped' = dropped \cup {agent[a].anomaly}
    BY <1>5 DEF rate_ok
  <2>2. Moves(a) /\ agent'[a] = Resting
    BY <1>2, <2>1 DEF Moves
  <2>3. rate' = RateLimit + 1 /\ rate' \in 0..RateLimit + 1
    BY <1>2, <1>3, <1>5
  <2>4. CostIsCounted'
    <3>1. CallsLeft' \subseteq CallsLeft
      BY <1>2, <2>2, CallsShrink
    <3>2. PICK L : L = CallsLeft'
      OBVIOUS
    <3>3. IsFiniteSet(CallsLeft) /\ L \subseteq CallsLeft /\ Cardinality(CallsLeft) \in Nat
      BY <3>1, <3>2, CallsLeftIsFinite
    <3>4. Cardinality(L) \in Nat /\ Cardinality(L) <= Cardinality(CallsLeft)
      BY <3>3, FS_Subset, FS_CardinalityType
    <3>5. chats + Cardinality(CallsLeft) <= Budget(RateLimit) /\ Budget(RateLimit) \in Int
      BY <1>2, <1>5, InvestigationAssumption DEF CostIsCounted, Budget
    <3>6. chats' + Cardinality(L) <= Budget(RateLimit)
      BY <1>1, <1>2, <3>3, <3>4, <3>5
    <3>7. \A b \in Agents : agent'[b] # Resting => Frugal(b)'
      BY <1>2, <2>2 DEF CostIsCounted, Frugal, Moves
    <3> QED BY <1>2, <2>3, <3>2, <3>6, <3>7 DEF CostIsCounted, Budget
  <2>5. \A x \in taken' : agent[a] # Resting /\ agent[a].worker /\ agent[a].anomaly = x => Known(x)'
    BY <2>1 DEF Known
  <2> QED BY <1>1, <1>2, <2>1, <2>2, <2>3, <2>4, <2>5, RunQuiet
<1> QED BY <1>4, <1>5

\* What is known of a task under way.
LEMMA RunFacts ==
  ASSUME IndInv, NEW a \in Agents, agent[a] # Resting
  PROVE  /\ TypeOK /\ CostIsCounted /\ DOMAIN agent = Agents /\ IsRun(agent[a])
         /\ HasRow(a) /\ Stored(a) /\ Frugal(a) /\ Len(invs) \in Nat
         /\ taken \subseteq Ids /\ dropped \subseteq Ids /\ agent[a].anomaly \in Ids
         /\ rate \in 0..RateLimit + 1 /\ chats \in Nat
<1>1. IsRun(agent[a])
  BY DEF IndInv, TypeOK
<1>2. TypeOK /\ CostIsCounted
  BY DEF IndInv
<1>3. HasRow(a) /\ Stored(a) /\ Frugal(a)
  BY DEF IndInv, RunsHaveRows, EvidenceIsStored, CostIsCounted
<1>4. agent[a].anomaly \in Ids
  BY <1>1 DEF IsRun
<1>5. /\ DOMAIN agent = Agents /\ Len(invs) \in Nat /\ taken \subseteq Ids /\ dropped \subseteq Ids
      /\ rate \in 0..RateLimit + 1 /\ chats \in Nat
  BY <1>2 DEF TypeOK
<1> QED BY <1>1, <1>2, <1>3, <1>4, <1>5

\* Redis raises: the investigation goes on without being metered.
LEMMA RateUnknownStep ==
  ASSUME IndInv, NEW a \in Agents, RateUnknown(a)
  PROVE  IndInv'
<1>1. /\ agent[a] # Resting /\ agent[a].pc = "rate"
      /\ agent' = [agent EXCEPT ![a].pc = "read"] /\ UNCHANGED <<taken, dropped, rate, chats>>
      /\ UNCHANGED <<clock, samples, task, nextId, anomalies, published, rule, alerts,
                     elsewhere, invs, cancelling, byHand>>
  BY DEF RateUnknown, At
<1>2. /\ TypeOK /\ CostIsCounted /\ DOMAIN agent = Agents /\ IsRun(agent[a])
      /\ Stored(a) /\ Frugal(a) /\ taken \subseteq Ids /\ dropped \subseteq Ids
      /\ rate \in 0..RateLimit + 1 /\ chats \in Nat
  BY <1>1, RunFacts
<1>3. Moves(a) /\ agent'[a] = [agent[a] EXCEPT !.pc = "read"]
  BY <1>1, <1>2 DEF Moves
<1>4. /\ IsRun(agent[a])' /\ agent'[a].pc = "read" /\ agent'[a].refs = {}
      /\ agent'[a].step = 0 /\ agent'[a].seq = 0 /\ ~agent'[a].metered
      /\ agent'[a].anomaly = agent[a].anomaly /\ agent'[a].worker = agent[a].worker
  BY <1>1, <1>2, <1>3 DEF IsRun, Ids, Stored, Frugal
<1>5. HasRow(a)' /\ Stored(a)' /\ Frugal(a)' /\ agent'[a] # Resting
  BY <1>4, OpenedIsSound DEF Resting
<1>6. CostIsCounted'
  BY <1>1, <1>2, <1>3, <1>4, <1>5, CallsShrink, CostStays
<1>7. \A x \in taken' : agent[a] # Resting /\ agent[a].worker /\ agent[a].anomaly = x => Known(x)'
  BY <1>4, <1>5 DEF Known
<1> QED BY <1>1, <1>2, <1>3, <1>4, <1>5, <1>6, <1>7, RunQuiet

\* start_investigation() for a row that is there.
LEMMA RequestStep ==
  ASSUME IndInv, NEW a \in Agents, Request(a)
  PROVE  IndInv'
<1>1. PICK x \in DOMAIN anomalies : agent' = [agent EXCEPT ![a] = Opened(x, "read", FALSE, 1)]
  BY DEF Request
<1>2. /\ agent[a] = Resting /\ UNCHANGED <<taken, dropped, rate, chats>>
      /\ UNCHANGED <<clock, samples, task, nextId, anomalies, published, rule, alerts,
                     elsewhere, invs, cancelling, byHand>>
  BY DEF Request, detectVars
<1>3. /\ TypeOK /\ CostIsCounted /\ DOMAIN agent = Agents /\ x \in Ids /\ Len(invs) \in Nat
      /\ taken \subseteq Ids /\ dropped \subseteq Ids
      /\ rate \in 0..RateLimit + 1 /\ chats \in Nat
  BY SMTT(30) DEF IndInv, TypeOK, DetectTypeOK, Ids
<1>4. Moves(a) /\ agent'[a] = Opened(x, "read", FALSE, 1)
  BY <1>1, <1>3 DEF Moves
<1>5. /\ IsRun(agent[a])' /\ agent'[a] # Resting /\ agent'[a].pc = "read"
      /\ agent'[a].metered = FALSE
      /\ agent'[a].refs = {} /\ agent'[a].step = 0 /\ agent'[a].seq = 0
  <2>1. 1 \in 1..MaxAttempts
    BY AnomalyAssumption
  <2> QED BY <1>2, <1>3, <1>4, <2>1, OpenedFields DEF Opened, IsRun, Resting, Ids
<1>6. HasRow(a)' /\ Stored(a)' /\ Frugal(a)'
  BY <1>5, OpenedIsSound
<1>7. CostIsCounted'
  BY <1>2, <1>3, <1>4, <1>5, <1>6, CallsShrink, CostStays
<1> QED BY <1>2, <1>3, <1>4, <1>5, <1>6, <1>7, RunQuiet

\* create_investigation() reads the anomaly, or ends when there is none.
LEMMA ReadStep ==
  ASSUME IndInv, NEW a \in Agents, ReadAnomaly(a)
  PROVE  IndInv'
<1>1. /\ agent[a] # Resting /\ agent[a].pc = "read" /\ UNCHANGED <<taken, rate, chats>>
      /\ UNCHANGED <<clock, samples, task, nextId, anomalies, published, rule, alerts,
                     elsewhere, invs, cancelling, byHand>>
  BY DEF ReadAnomaly, At, detectVars
<1>2. /\ TypeOK /\ CostIsCounted /\ DOMAIN agent = Agents /\ IsRun(agent[a])
      /\ Stored(a) /\ Frugal(a) /\ taken \subseteq Ids /\ dropped \subseteq Ids
      /\ rate \in 0..RateLimit + 1 /\ chats \in Nat /\ agent[a].anomaly \in Ids
  BY <1>1, RunFacts
<1>3. CASE agent[a].anomaly \in DOMAIN anomalies
  <2>1. PICK open \in BOOLEAN : agent' = [agent EXCEPT ![a].pc = "create", ![a].open = open]
    BY <1>3 DEF ReadAnomaly
  <2>2. UNCHANGED dropped
    BY <1>3 DEF ReadAnomaly
  <2>3. Moves(a) /\ agent'[a] = [agent[a] EXCEPT !.pc = "create", !.open = open]
    BY <1>2, <2>1 DEF Moves
  <2>4. /\ IsRun(agent[a])' /\ agent'[a].pc = "create" /\ agent'[a].refs = {}
        /\ agent'[a].step = 0 /\ agent'[a].seq = 0 /\ agent'[a].metered = agent[a].metered
        /\ agent'[a].anomaly = agent[a].anomaly /\ agent'[a].worker = agent[a].worker
        /\ agent[a].step = 0
    BY <1>1, <1>2, <2>3 DEF IsRun, Ids, Stored, Frugal
  <2>5. HasRow(a)' /\ Stored(a)' /\ Frugal(a)' /\ agent'[a] # Resting
    BY <1>1, <1>3, <2>4, InvestigationAssumption DEF HasRow, Stored, Frugal, Resting
  <2>6. CallsLeft' \subseteq CallsLeft
    BY <1>1, <1>2, <2>3, <2>4, CallsShrink
  <2>7. CostIsCounted'
    BY <1>1, <1>2, <2>3, <2>5, <2>6, CostStays
  <2>8. \A x \in taken' : agent[a] # Resting /\ agent[a].worker /\ agent[a].anomaly = x => Known(x)'
    BY <2>4, <2>5 DEF Known
  <2> QED BY <1>1, <1>2, <2>2, <2>3, <2>4, <2>5, <2>7, <2>8, RunQuiet
<1>4. CASE agent[a].anomaly \notin DOMAIN anomalies
  <2>1. agent' = [agent EXCEPT ![a] = Resting] /\ dropped' = dropped \cup {agent[a].anomaly}
    BY <1>4 DEF ReadAnomaly
  <2>2. Moves(a) /\ agent'[a] = Resting
    BY <1>2, <2>1 DEF Moves
  <2>3. CostIsCounted'
    BY <1>1, <1>2, <2>2, CallsShrink, CostStays
  <2>4. \A x \in taken' : agent[a] # Resting /\ agent[a].worker /\ agent[a].anomaly = x => Known(x)'
    BY <2>1 DEF Known
  <2> QED BY <1>1, <1>2, <2>1, <2>2, <2>3, <2>4, RunQuiet
<1> QED BY <1>3, <1>4

\* The loop ends without a conclusion.
LEMMA ProviderFailsStep ==
  ASSUME IndInv, NEW a \in Agents, ProviderFails(a)
  PROVE  IndInv'
<1>1. /\ agent[a] # Resting /\ agent[a].pc = "chat" /\ UNCHANGED <<taken, dropped, rate, chats>>
      /\ agent' = [agent EXCEPT ![a].pc = "fail", ![a].step = 0, ![a].seq = 0, ![a].refs = {}]
      /\ UNCHANGED <<clock, samples, task, nextId, anomalies, published, rule, alerts,
                     elsewhere, invs, cancelling, byHand>>
  BY DEF ProviderFails, At
<1>2. /\ TypeOK /\ CostIsCounted /\ DOMAIN agent = Agents /\ IsRun(agent[a])
      /\ HasRow(a) /\ taken \subseteq Ids /\ dropped \subseteq Ids
      /\ rate \in 0..RateLimit + 1 /\ chats \in Nat
  BY <1>1, RunFacts
<1>3. /\ Moves(a)
      /\ agent'[a] = [agent[a] EXCEPT !.pc = "fail", !.step = 0, !.seq = 0, !.refs = {}]
  BY <1>1, <1>2 DEF Moves
<1>4. /\ IsRun(agent[a])' /\ agent'[a].pc = "fail" /\ agent'[a].refs = {}
      /\ agent'[a].step = 0 /\ agent'[a].seq = 0 /\ agent'[a].inv = agent[a].inv
      /\ agent'[a].anomaly = agent[a].anomaly /\ agent'[a].worker = agent[a].worker
  <2>1. PICK g : g = agent[a]
    OBVIOUS
  <2>2. PICK h : h = [g EXCEPT !.pc = "fail", !.step = 0, !.seq = 0, !.refs = {}]
    OBVIOUS
  <2>3. 0 \in 0..MaxCalls + 3 /\ IsRun(g)
    BY <1>2, <2>1, InvestigationAssumption
  <2>4. IsRun(h)
    BY <2>2, <2>3 DEF IsRun
  <2>5. /\ h.pc = "fail" /\ h.refs = {} /\ h.step = 0 /\ h.seq = 0
        /\ h.inv = g.inv /\ h.anomaly = g.anomaly /\ h.worker = g.worker
    BY <2>2, <2>3 DEF IsRun
  <2>6. IsRun(h)'
    BY <1>1, <2>4 DEF IsRun, Ids
  <2>7. agent'[a] = h
    BY <1>3, <2>1, <2>2
  <2> QED BY <2>1, <2>5, <2>6, <2>7
<1>5. HasRow(a)' /\ Stored(a)' /\ Frugal(a)' /\ agent'[a] # Resting
  <2>1. HasRow(a)'
    BY <1>1, <1>2, <1>4 DEF HasRow
  <2>2. Stored(a)' /\ agent'[a] # Resting
    BY <1>4 DEF Stored, Resting
  <2>3. Frugal(a)'
    BY <1>4, InvestigationAssumption DEF Frugal
  <2> QED BY <2>1, <2>2, <2>3
<1>6. CostIsCounted'
  BY <1>1, <1>2, <1>3, <1>4, <1>5, CallsShrink, CostStays
<1>7. \A x \in taken' : agent[a] # Resting /\ agent[a].worker /\ agent[a].anomaly = x => Known(x)'
  BY <1>4, <1>5 DEF Known
<1> QED BY <1>1, <1>2, <1>3, <1>4, <1>5, <1>6, <1>7, RunQuiet

\* A task past create_investigation() leaves its investigation behind.
LEMMA InvIsKnown ==
  ASSUME IndInv, NEW a \in Agents, agent[a] # Resting,
         agent[a].pc \notin {"rate", "read", "create"}, InvsGrow
  PROVE  \A x : agent[a].anomaly = x => Known(x)'
<1>1. HasRow(a)
  BY RunFacts
<1> QED BY <1>1 DEF HasRow, Known, Of, InvsGrow

\* The database raises, in any session scope of a task.
LEMMA DatabaseFailsStep ==
  ASSUME IndInv, NEW a \in Agents, DatabaseFails(a)
  PROVE  IndInv'
<1>1. /\ agent[a] # Resting /\ agent[a].pc \notin {"rate", "chat"} /\ UNCHANGED <<taken, rate, chats>>
      /\ UNCHANGED <<clock, samples, task, nextId, anomalies, published, rule, alerts,
                     elsewhere, invs, cancelling, byHand>>
  BY DEF DatabaseFails
<1>2. /\ TypeOK /\ CostIsCounted /\ DOMAIN agent = Agents /\ IsRun(agent[a]) /\ Len(invs) \in Nat
      /\ taken \subseteq Ids /\ dropped \subseteq Ids /\ agent[a].anomaly \in Ids
      /\ rate \in 0..RateLimit + 1 /\ chats \in Nat
  BY <1>1, RunFacts
<1>3. /\ dropped' \in {dropped, dropped \cup {agent[a].anomaly}}
      /\ agent[a].worker /\ agent[a].pc \in {"read", "create"} => agent[a].anomaly \in dropped'
  BY DEF DatabaseFails
<1>4. InvsGrow
  BY <1>1, <1>2 DEF InvsGrow
<1>5. \A x \in taken' : agent[a] # Resting /\ agent[a].worker /\ agent[a].anomaly = x => Known(x)'
  <2>1. CASE agent[a].pc \in {"read", "create"}
    BY <1>3, <2>1 DEF Known
  <2>2. CASE agent[a].pc \notin {"rate", "read", "create"}
    BY <1>1, <1>4, <2>2, InvIsKnown
  <2> QED BY <1>1, <2>1, <2>2
<1>6. Moves(a)
  BY <1>2 DEF DatabaseFails, Moves
<1>7. CASE agent'[a] = Resting
  <2>1. CostIsCounted'
    BY <1>1, <1>2, <1>6, <1>7, CallsShrink, CostStays
  <2> QED BY <1>1, <1>2, <1>3, <1>5, <1>6, <1>7, <2>1, RunQuiet
<1>8. CASE /\ agent[a].attempt < MaxAttempts
           /\ agent'[a] = Opened(agent[a].anomaly, "rate", TRUE, agent[a].attempt + 1)
  <2>1. agent[a].attempt + 1 \in 1..MaxAttempts
    BY <1>2, <1>8, AnomalyAssumption DEF IsRun
  <2>2. PICK x, n : x = agent[a].anomaly /\ n = agent[a].attempt + 1
    OBVIOUS
  <2>3. /\ IsRun(agent[a])' /\ agent'[a] # Resting /\ agent'[a].pc = "rate"
        /\ agent'[a].metered = FALSE
        /\ agent'[a].refs = {} /\ agent'[a].step = 0 /\ agent'[a].seq = 0
    BY <1>1, <1>2, <1>8, <2>1, <2>2, OpenedFields DEF Opened, IsRun, Resting, Ids
  <2>4. HasRow(a)' /\ Stored(a)' /\ Frugal(a)'
    BY <2>3, OpenedIsSound
  <2>5. CostIsCounted'
    BY <1>1, <1>2, <1>6, <2>3, <2>4, CallsShrink, CostStays
  <2> QED BY <1>1, <1>2, <1>3, <1>5, <1>6, <2>3, <2>4, <2>5, RunQuiet
<1> QED BY <1>2, <1>7, <1>8 DEF DatabaseFails

\* The process of a task dies; the worker's message comes again.
LEMMA CrashStep ==
  ASSUME IndInv, NEW a \in Agents, CrashAgent(a)
  PROVE  IndInv'
<1>1. /\ agent[a] # Resting /\ agent' = [agent EXCEPT ![a] = Resting]
      /\ taken' = IF agent[a].worker THEN taken \ {agent[a].anomaly} ELSE taken
      /\ UNCHANGED <<dropped, rate, chats>>
      /\ UNCHANGED <<clock, samples, task, nextId, anomalies, published, rule, alerts,
                     elsewhere, invs, cancelling, byHand>>
  BY DEF CrashAgent
<1>2. /\ TypeOK /\ CostIsCounted /\ DOMAIN agent = Agents
      /\ taken \subseteq Ids /\ dropped \subseteq Ids
      /\ rate \in 0..RateLimit + 1 /\ chats \in Nat
  BY <1>1, RunFacts
<1>3. Moves(a) /\ agent'[a] = Resting
  BY <1>1, <1>2 DEF Moves
<1>4. CostIsCounted'
  BY <1>1, <1>2, <1>3, CallsShrink, CostStays
<1>5. taken' \subseteq taken
      /\ \A x \in taken' : ~(agent[a] # Resting /\ agent[a].worker /\ agent[a].anomaly = x)
  BY <1>1
<1> QED BY <1>1, <1>2, <1>3, <1>4, <1>5, RunQuiet

\* One row of ai_investigations is written.
LEMMA InvWritten ==
  ASSUME IndInv, NEW i \in DOMAIN invs, NEW v \in Investigation,
         invs' = [invs EXCEPT ![i] = v], v.anomaly = invs[i].anomaly, invs[i].refs \subseteq v.refs
  PROVE  /\ InvsGrow /\ invs' \in Seq(Investigation) /\ Len(invs') = Len(invs)
         /\ DOMAIN invs' = DOMAIN invs /\ invs'[i] = v /\ Len(invs') <= MaxInvestigations
         /\ \A j \in DOMAIN invs : j # i => invs'[j] = invs[j]
         /\ \A j \in DOMAIN invs' : invs'[j].anomaly \in Ids
<1>1. /\ invs \in Seq(Investigation) /\ Len(invs) <= MaxInvestigations /\ Len(invs) \in Nat
      /\ \A j \in DOMAIN invs : invs[j].anomaly \in Ids
  BY DEF IndInv, TypeOK
<1>2. /\ invs' \in Seq(Investigation) /\ Len(invs') = Len(invs) /\ DOMAIN invs' = DOMAIN invs
      /\ invs'[i] = v /\ \A j \in DOMAIN invs : j # i => invs'[j] = invs[j]
  BY <1>1
<1>3. InvsGrow
  BY <1>1, <1>2 DEF InvsGrow
<1> QED BY <1>1, <1>2, <1>3

\* The statuses that a row may take keep its type.
LEMMA InvStatus ==
  ASSUME NEW v \in Investigation, NEW w,
         NEW st \in {"CREATED", "RUNNING", "COMPLETED", "FAILED", "CANCELLED"},
         w = [v EXCEPT !.status = st]
  PROVE  /\ w \in Investigation /\ w.anomaly = v.anomaly /\ w.refs = v.refs
         /\ w.conclusion = v.conclusion /\ w.status = st
BY DEF Investigation

\* run_investigation() reads its row.
LEMMA StartReadStep ==
  ASSUME IndInv, NEW a \in Agents, StartRead(a)
  PROVE  IndInv'
<1>1. /\ agent[a] # Resting /\ agent[a].pc = "start" /\ UNCHANGED <<taken, dropped, rate, chats>>
      /\ UNCHANGED <<clock, samples, task, nextId, anomalies, published, rule, alerts,
                     elsewhere, invs, cancelling, byHand>>
  BY DEF StartRead, At, detectVars
<1>2. /\ TypeOK /\ CostIsCounted /\ DOMAIN agent = Agents /\ IsRun(agent[a])
      /\ HasRow(a) /\ Stored(a) /\ Frugal(a) /\ Len(invs) \in Nat
      /\ taken \subseteq Ids /\ dropped \subseteq Ids
      /\ rate \in 0..RateLimit + 1 /\ chats \in Nat
  BY <1>1, RunFacts
<1>3. InvsGrow
  BY <1>1, <1>2 DEF InvsGrow
<1>4. \A x \in taken' : agent[a] # Resting /\ agent[a].worker /\ agent[a].anomaly = x => Known(x)'
  BY <1>1, <1>3, InvIsKnown
<1>5. CASE agent' = [agent EXCEPT ![a] = Resting]
  <2>1. Moves(a) /\ agent'[a] = Resting
    BY <1>2, <1>5 DEF Moves
  <2>2. CostIsCounted'
    BY <1>1, <1>2, <2>1, CallsShrink, CostStays
  <2> QED BY <1>1, <1>2, <1>4, <2>1, <2>2, RunQuiet
<1>6. CASE agent' = [agent EXCEPT ![a].pc = "starting"]
  <2>1. Moves(a) /\ agent'[a] = [agent[a] EXCEPT !.pc = "starting"]
    BY <1>2, <1>6 DEF Moves
  <2>2. /\ IsRun(agent[a])' /\ agent'[a].pc = "starting" /\ agent'[a].refs = {}
        /\ agent'[a].step = 0 /\ agent'[a].seq = 0 /\ agent'[a].inv = agent[a].inv
        /\ agent'[a].metered = agent[a].metered /\ agent'[a].anomaly = agent[a].anomaly
        /\ agent[a].step = 0
    BY <1>1, <1>2, <2>1 DEF IsRun, Ids, Stored, Frugal
  <2>3. HasRow(a)' /\ Stored(a)' /\ Frugal(a)' /\ agent'[a] # Resting
    <3>1. HasRow(a)'
      BY <1>1, <1>2, <2>2 DEF HasRow
    <3>2. Stored(a)' /\ agent'[a] # Resting
      BY <2>2 DEF Stored, Resting
    <3>3. Frugal(a)'
      BY <2>2, InvestigationAssumption DEF Frugal
    <3> QED BY <3>1, <3>2, <3>3
  <2>4. CostIsCounted'
    <3>1. CallsLeft' \subseteq CallsLeft
      BY <1>1, <1>2, <2>1, <2>2, CallsShrink
    <3> QED BY <1>1, <1>2, <2>1, <2>3, <3>1, CostStays
  <2> QED BY <1>1, <1>2, <1>4, <2>1, <2>2, <2>3, <2>4, RunQuiet
<1> QED BY <1>1, <1>5, <1>6 DEF StartRead

\* ... and starts it.
LEMMA StartStep ==
  ASSUME IndInv, NEW a \in Agents, Start(a)
  PROVE  IndInv'
<1>1. /\ agent[a] # Resting /\ agent[a].pc = "starting" /\ UNCHANGED <<taken, dropped, rate, chats>>
      /\ UNCHANGED <<clock, samples, task, nextId, anomalies, published, rule, alerts,
                     elsewhere, cancelling, byHand>>
  BY DEF Start, At, detectVars
<1>2. /\ TypeOK /\ CostIsCounted /\ DOMAIN agent = Agents /\ IsRun(agent[a])
      /\ HasRow(a) /\ Stored(a) /\ Frugal(a) /\ Len(invs) \in Nat
      /\ taken \subseteq Ids /\ dropped \subseteq Ids
      /\ rate \in 0..RateLimit + 1 /\ chats \in Nat
  BY <1>1, RunFacts
<1>3. PICK i : i = agent[a].inv
  OBVIOUS
<1>4. i \in DOMAIN invs /\ invs[i] \in Investigation /\ invs[i].anomaly = agent[a].anomaly
      /\ agent[a].anomaly \in DOMAIN anomalies
  BY <1>1, <1>2, <1>3, InvType DEF HasRow
<1>5. ASSUME NEW mock \in BOOLEAN, invs' = [invs EXCEPT ![i].status = "RUNNING"],
             agent' = [agent EXCEPT ![a].pc = "chat", ![a].mock = mock]
      PROVE  IndInv'
  <2>1. PICK v : v = [invs[i] EXCEPT !.status = "RUNNING"]
    OBVIOUS
  <2>2. /\ v \in Investigation /\ v.anomaly = invs[i].anomaly /\ v.refs = invs[i].refs
        /\ v.conclusion = invs[i].conclusion /\ v.status = "RUNNING"
    BY <1>4, <2>1, InvStatus
  <2>3. /\ InvsGrow /\ invs' \in Seq(Investigation) /\ Len(invs') = Len(invs)
        /\ DOMAIN invs' = DOMAIN invs /\ invs'[i] = v /\ Len(invs') <= MaxInvestigations
        /\ \A j \in DOMAIN invs : j # i => invs'[j] = invs[j]
        /\ \A j \in DOMAIN invs' : invs'[j].anomaly \in Ids
    BY <1>4, <1>5, <2>1, <2>2, InvWritten
  <2>4. Moves(a) /\ agent'[a] = [agent[a] EXCEPT !.pc = "chat", !.mock = mock]
    BY <1>2, <1>5 DEF Moves
  <2>5. /\ IsRun(agent[a])' /\ agent'[a].pc = "chat" /\ agent'[a].refs = {}
        /\ agent'[a].step = 0 /\ agent'[a].seq = 0 /\ agent'[a].inv = i
        /\ agent'[a].metered = agent[a].metered /\ agent'[a].anomaly = agent[a].anomaly
        /\ agent'[a].worker = agent[a].worker /\ agent[a].step = 0
    BY <1>1, <1>2, <1>3, <2>3, <2>4 DEF IsRun, Ids, Stored, Frugal
  <2>6. HasRow(a)' /\ Stored(a)' /\ Frugal(a)' /\ agent'[a] # Resting
    <3>1. HasRow(a)'
      BY <1>1, <1>4, <2>2, <2>3, <2>5 DEF HasRow
    <3>2. Stored(a)' /\ agent'[a] # Resting
      BY <2>5 DEF Stored, Resting
    <3>3. Frugal(a)'
      BY <2>5, InvestigationAssumption DEF Frugal
    <3> QED BY <3>1, <3>2, <3>3
  <2>7. CostIsCounted'
    <3>1. CallsLeft' \subseteq CallsLeft
      BY <1>1, <1>2, <2>4, <2>5, CallsShrink
    <3> QED BY <1>1, <1>2, <2>4, <2>6, <3>1, CostStays
  <2>8. \A x \in taken' : agent[a] # Resting /\ agent[a].worker /\ agent[a].anomaly = x => Known(x)'
    BY <1>1, <2>3, InvIsKnown
  <2>9. Rewrites /\ RowsRemain
    BY <1>1 DEF Rewrites, RowsRemain, IndInv, DetectInv, DetectTypeOK
  <2>10. ReleaseIsDue'
    <3>1. ~At(a, "failing")'
      BY <2>5 DEF At
    <3> QED BY <1>1, <2>2, <2>3, <2>4, <3>1, RunRelease DEF IndInv
  <2>11. GroundedConclusion'
    <3>1. \A j \in DOMAIN invs' : j \in DOMAIN invs /\ invs'[j].conclusion = invs[j].conclusion
      BY <2>2, <2>3
    <3> QED BY <1>2, <2>3, <2>9, <3>1, RunGrounded DEF IndInv
  <2>12. \A j \in DOMAIN invs' : \A r \in invs'[j].refs : j \in DOMAIN invs /\ r \in invs[j].refs
    BY <2>2, <2>3
  <2> QED BY <1>1, <1>2, <2>3, <2>4, <2>5, <2>6, <2>7, <2>8, <2>9, <2>10, <2>11, <2>12, RunStep
<1> QED BY <1>3, <1>5 DEF Start

\* The commit of create_investigation().
LEMMA CreateStep ==
  ASSUME IndInv, NEW a \in Agents, Create(a)
  PROVE  IndInv'
<1>1. /\ agent[a] # Resting /\ agent[a].pc = "create" /\ UNCHANGED <<taken, dropped, rate, chats>>
      /\ UNCHANGED <<clock, samples, task, nextId, published, rule, alerts, elsewhere, cancelling>>
      /\ Len(invs) < MaxInvestigations
  BY DEF Create, At
<1>2. /\ TypeOK /\ CostIsCounted /\ DOMAIN agent = Agents /\ IsRun(agent[a])
      /\ HasRow(a) /\ Stored(a) /\ Frugal(a) /\ Len(invs) \in Nat
      /\ taken \subseteq Ids /\ dropped \subseteq Ids /\ agent[a].anomaly \in Ids
      /\ rate \in 0..RateLimit + 1 /\ chats \in Nat
  BY <1>1, RunFacts
<1>3. PICK x : x = agent[a].anomaly
  OBVIOUS
<1>4. x \in Ids /\ x \in 1..MaxIds /\ x \in DOMAIN anomalies /\ DetectTypeOK
  BY <1>1, <1>2, <1>3, AnomalyAssumption, SMTT(30) DEF HasRow, Ids, TypeOK, DetectTypeOK
<1>5. PICK v : v = [anomaly |-> x, status |-> "CREATED", refs |-> {}, conclusion |-> NoConclusion]
  OBVIOUS
<1>6. /\ v \in Investigation /\ v.anomaly = x /\ v.refs = {} /\ v.conclusion = NoConclusion
      /\ v.status = "CREATED"
  BY <1>4, <1>5 DEF Investigation, Answers, NoConclusion
<1>7. PICK n : n = Len(invs) + 1
  OBVIOUS
<1>8. invs' = Append(invs, v)
  BY <1>3, <1>5 DEF Create
<1>9. /\ invs' \in Seq(Investigation) /\ Len(invs') = n /\ n \in Nat /\ Len(invs) <= Len(invs')
      /\ DOMAIN invs' = DOMAIN invs \cup {n} /\ n \notin DOMAIN invs /\ invs'[n] = v
      /\ \A j \in DOMAIN invs : invs'[j] = invs[j]
  <2>1. invs \in Seq(Investigation)
    BY <1>2 DEF TypeOK
  <2> QED BY <1>2, <1>6, <1>7, <1>8, <2>1
<1>10. /\ InvsGrow /\ Len(invs') <= MaxInvestigations
       /\ \A j \in DOMAIN invs' : invs'[j].anomaly \in Ids
  <2>1. \A j \in DOMAIN invs : invs[j].anomaly \in Ids
    BY <1>2 DEF TypeOK
  <2> QED BY <1>1, <1>2, <1>4, <1>6, <1>7, <1>9, <2>1, InvestigationAssumption DEF InvsGrow
<1>11. Moves(a) /\ agent'[a] = [agent[a] EXCEPT !.pc = "start", !.inv = n]
  BY <1>2, <1>9 DEF Create, Moves
<1>12. /\ IsRun(agent[a])' /\ agent'[a].pc = "start" /\ agent'[a].refs = {}
       /\ agent'[a].step = 0 /\ agent'[a].seq = 0 /\ agent'[a].inv = n
       /\ agent'[a].metered = agent[a].metered /\ agent'[a].anomaly = x
       /\ agent'[a].worker = agent[a].worker /\ agent[a].step = 0
  <2>1. n \in 0..Len(invs')
    BY <1>9
  <2> QED BY <1>1, <1>2, <1>3, <1>11, <2>1 DEF IsRun, Ids, Stored, Frugal
<1>13. /\ DOMAIN anomalies' = DOMAIN anomalies
       /\ \A y \in DOMAIN anomalies : anomalies'[y].key = anomalies[y].key
       /\ \A y \in DOMAIN anomalies : y # x => anomalies'[y] = anomalies[y]
       /\ anomalies' \in [DOMAIN anomalies' -> [key: Keys, status: Statuses]]
  <2>1. CASE anomalies' = [anomalies EXCEPT ![x].status = "INVESTIGATING"]
    BY <1>4, <2>1, StatusOnly DEF Statuses
  <2>2. CASE anomalies' = anomalies
    BY <1>4, <2>2 DEF DetectTypeOK
  <2> QED BY <1>3, <2>1, <2>2 DEF Create
<1>21. byHand' \in {byHand, byHand \ {x}} /\ byHand' \subseteq Ids
  <2>1. byHand \subseteq Ids
    BY <1>2 DEF TypeOK
  <2>2. byHand' \in {byHand, byHand \ {x}}
    BY <1>3 DEF Create
  <2> QED BY <2>1, <2>2
<1>14. Rewrites /\ RowsRemain
  BY <1>1, <1>4, <1>13 DEF Rewrites, RowsRemain, DetectTypeOK
<1>15. HasRow(a)' /\ Stored(a)' /\ Frugal(a)' /\ agent'[a] # Resting
  <2>1. HasRow(a)'
    BY <1>4, <1>6, <1>9, <1>12, <1>13 DEF HasRow
  <2>2. Stored(a)' /\ agent'[a] # Resting
    BY <1>12 DEF Stored, Resting
  <2>3. Frugal(a)'
    BY <1>12, InvestigationAssumption DEF Frugal
  <2> QED BY <2>1, <2>2, <2>3
<1>16. CostIsCounted'
  <2>1. CallsLeft' \subseteq CallsLeft
    BY <1>1, <1>2, <1>11, <1>12, CallsShrink
  <2> QED BY <1>1, <1>2, <1>11, <1>15, <2>1, CostStays
<1>17. n \in Of(x)' /\ Known(x)'
  BY <1>6, <1>9 DEF Of, Known
<1>18. ReleaseIsDue'
  <2> SUFFICES ASSUME NEW y \in DOMAIN anomalies' \ byHand', anomalies'[y].status = "INVESTIGATING"
               PROVE  \E i \in Of(y)' : invs'[i].status # "FAILED" /\ Releases(i)'
    BY DEF ReleaseIsDue
  <2>1. CASE y = x
    <3>1. Releases(n)'
      <4> SUFFICES ASSUME NEW b \in Agents, At(b, "failing")', agent'[b].inv = n PROVE FALSE
        BY DEF Releases
      <4>1. b # a /\ agent'[b] = agent[b]
        BY <1>11, <1>12 DEF At, Moves
      <4>2. agent[b] # Resting /\ IsRun(agent[b])
        BY <1>2, <4>1 DEF At, TypeOK
      <4>3. agent[b].inv \in 0..Len(invs)
        BY <4>2 DEF IsRun
      <4> QED BY <1>2, <1>7, <4>1, <4>3
    <3> QED BY <1>6, <1>9, <1>17, <2>1, <3>1
  <2>2. CASE y # x
    <3>1. PICK i \in Of(y) : invs[i].status # "FAILED" /\ Releases(i)
      BY <1>13, <1>21, <2>2 DEF IndInv, ReleaseIsDue
    <3>2. i \in Of(y)' /\ invs'[i].status # "FAILED"
      BY <1>9, <3>1 DEF Of
    <3>3. Releases(i)'
      BY <1>11, <1>12, <3>1 DEF Releases, At, Moves
    <3> QED BY <3>2, <3>3
  <2> QED BY <2>1, <2>2
<1>19. GroundedConclusion'
  <2>1. \A j \in DOMAIN invs' : \/ j \in DOMAIN invs /\ invs'[j].conclusion = invs[j].conclusion
                                \/ invs'[j].conclusion = NoConclusion
    BY <1>6, <1>9
  <2> QED BY <1>2, <1>10, <1>14, <2>1, RunGrounded DEF IndInv
<1>20. \A j \in DOMAIN invs' : \A r \in invs'[j].refs : j \in DOMAIN invs /\ r \in invs[j].refs
  BY <1>6, <1>9
<1> QED BY <1>1, <1>2, <1>3, <1>9, <1>10, <1>11, <1>12, <1>14, <1>15, <1>16, <1>17, <1>18, <1>19,
           <1>20, <1>21, RunStep

----------------------------------------------------------------------------
(* The loop *)

\* Every reference that a tool returns names a row or is of a payload.
LEMMA ToolRefs ==
  ASSUME TypeOK, NEW x \in DOMAIN anomalies, NEW name \in ALLOWED_TOOLS,
         NEW r \in run_tool(name, x, elsewhere)
  PROVE  r \in References /\ Citable(r)
<1>1. /\ DOMAIN anomalies \subseteq 1..MaxIds /\ \A a \in alerts : a[1] \in 1..MaxClock
      /\ \A y \in DOMAIN anomalies : anomalies[y].key[1] \in Metrics
  <2>1. DetectTypeOK
    BY DEF TypeOK
  <2>2. DOMAIN anomalies \subseteq 1..MaxIds /\ \A a \in alerts : a[1] \in 1..MaxClock
    <3>1. DOMAIN anomalies \subseteq 1..nextId /\ nextId \in 0..MaxIds
          /\ alerts \subseteq (1..MaxClock) \X (Nat \ {0})
      BY <2>1 DEF DetectTypeOK
    <3>2. DOMAIN anomalies \subseteq 1..MaxIds
      BY <3>1, AnomalyAssumption
    <3> QED BY <3>1, <3>2
  <2>3. \A y \in DOMAIN anomalies : anomalies[y].key \in Keys
    BY <2>1 DEF DetectTypeOK
  <2>4. \A k \in Keys : k[1] \in Metrics
    BY DEF Keys
  <2> QED BY <2>2, <2>3, <2>4
<1>2. PICK s \in Incidents : elsewhere = s.elsewhere
  BY DEF TypeOK
<1>3. /\ elsewhere \subseteq References
      /\ \A q \in elsewhere : q[1] \notin {"A", "ALERT"}
  BY <1>2, IncidentAssumption DEF References
<1>4. CASE r \in elsewhere
  BY <1>3, <1>4 DEF Citable, NamesARow
<1>5. ASSUME NEW y \in DOMAIN anomalies, r = <<"A", y>> PROVE r \in References /\ Citable(r)
  BY <1>1, <1>5 DEF References, Citable, NamesARow
<1>6. ASSUME NEW m \in Metrics, r = <<"M", m>> PROVE r \in References /\ Citable(r)
  BY <1>6 DEF References, Citable, NamesARow
<1>7. ASSUME NEW t \in alerts, r = <<"ALERT", t[1]>>
      PROVE  r \in References /\ Citable(r)
  BY <1>1, <1>7 DEF References, Citable, NamesARow
<1>8. CASE name = "get_anomaly_context"
  <2>1. r \in get_anomaly_context(x)
    BY <1>8 DEF run_tool
  <2> QED BY <1>1, <1>5, <1>6, <2>1 DEF get_anomaly_context, ContextRefs
<1>9. CASE name = "get_anomaly_history"
  <2>1. r \in get_anomaly_history
    BY <1>9 DEF run_tool
  <2> QED BY <1>5, <2>1 DEF get_anomaly_history
<1>10. CASE name = "get_recent_alerts"
  <2>1. r \in get_recent_alerts
    BY <1>10 DEF run_tool
  <2> QED BY <1>7, <2>1 DEF get_recent_alerts
<1>11. CASE r \in Embedded
  BY <1>11 DEF References, Citable
<1>12. CASE name \notin {"get_anomaly_context", "get_anomaly_history", "get_recent_alerts"}
  BY <1>4, <1>11, <1>12
  DEF run_tool, ALLOWED_TOOLS, query_metrics, get_correlated_events, get_event, get_consumer_lag,
      get_data_quality, get_producer_health, OfKind, PayloadRefs
<1> QED BY <1>8, <1>9, <1>10, <1>12

\* A response: the task goes on or concludes, with what was found stored.
LEMMA ChatStep ==
  ASSUME IndInv, NEW a \in Agents, Chat(a), Moves(a), IsRun(agent[a])', Frugal(a)',
         agent'[a].inv = agent[a].inv, agent'[a].anomaly = agent[a].anomaly,
         agent'[a].worker = agent[a].worker, agent'[a].metered = agent[a].metered,
         \/ agent'[a].pc = "complete"
         \/ agent'[a].pc = "chat" /\ agent'[a].step = agent[a].step + 1,
         NEW found, \A r \in found : Citable(r),
         agent'[a].refs = agent[a].refs \cup found,
         NEW v \in Investigation, invs' = [invs EXCEPT ![agent[a].inv] = v],
         v.anomaly = invs[agent[a].inv].anomaly, v.status = invs[agent[a].inv].status,
         v.conclusion = invs[agent[a].inv].conclusion, v.refs = invs[agent[a].inv].refs \cup found
  PROVE  IndInv'
<1>1. /\ agent[a] # Resting /\ agent[a].pc = "chat" /\ UNCHANGED <<taken, dropped, rate>>
      /\ agent[a].step < MaxCalls + 3 /\ chats' = IF agent[a].metered THEN chats + 1 ELSE chats
      /\ UNCHANGED <<clock, samples, task, nextId, anomalies, published, rule, alerts,
                     elsewhere, cancelling, byHand>>
  BY DEF Chat, At, detectVars
<1>2. /\ TypeOK /\ CostIsCounted /\ DOMAIN agent = Agents /\ IsRun(agent[a])
      /\ HasRow(a) /\ Stored(a) /\ Len(invs) \in Nat
      /\ taken \subseteq Ids /\ dropped \subseteq Ids
      /\ rate \in 0..RateLimit + 1 /\ chats \in Nat
  BY <1>1, RunFacts
<1>3. PICK i : i = agent[a].inv
  OBVIOUS
<1>4. i \in DOMAIN invs /\ invs[i].anomaly = agent[a].anomaly
      /\ agent[a].anomaly \in DOMAIN anomalies /\ agent[a].refs \subseteq invs[i].refs
  BY <1>1, <1>2, <1>3 DEF HasRow, Stored
<1>5. /\ InvsGrow /\ invs' \in Seq(Investigation) /\ Len(invs') = Len(invs)
      /\ DOMAIN invs' = DOMAIN invs /\ invs'[i] = v /\ Len(invs') <= MaxInvestigations
      /\ \A j \in DOMAIN invs : j # i => invs'[j] = invs[j]
      /\ \A j \in DOMAIN invs' : invs'[j].anomaly \in Ids
  BY <1>3, <1>4, InvWritten
<1>6. agent'[a].pc \in {"chat", "complete"} /\ agent'[a] # Resting
  BY DEF Resting
<1>7. HasRow(a)'
  BY <1>1, <1>3, <1>4, <1>5, <1>6 DEF HasRow
<1>8. Stored(a)'
  BY <1>3, <1>4, <1>5, <1>6 DEF Stored
<1>9. CostIsCounted'
  <2>1. CASE agent[a].metered
    <3>1. \E p \in CallsLeft : CallsLeft' \subseteq CallsLeft \ {p}
      BY <1>1, <1>2, <2>1, CallsUsed DEF At
    <3> QED BY <1>1, <1>2, <2>1, <3>1, CostStays
  <2>2. CASE ~agent[a].metered
    <3>1. CallsLeft' \subseteq CallsLeft
      BY <1>2, <2>2, CallsShrink
    <3> QED BY <1>1, <1>2, <2>2, <3>1, CostStays
  <2> QED BY <2>1, <2>2
<1>10. \A x \in taken' : agent[a] # Resting /\ agent[a].worker /\ agent[a].anomaly = x => Known(x)'
  BY <1>1, <1>5, InvIsKnown
<1>11. Rewrites /\ RowsRemain
  BY <1>1 DEF Rewrites, RowsRemain, IndInv, DetectInv, DetectTypeOK
<1>12. ReleaseIsDue'
  <2>1. ~At(a, "failing")'
    BY <1>6 DEF At
  <2> QED BY <1>1, <1>3, <1>5, <2>1, RunRelease DEF IndInv
<1>13. GroundedConclusion'
  <2>1. \A j \in DOMAIN invs' : j \in DOMAIN invs /\ invs'[j].conclusion = invs[j].conclusion
    BY <1>3, <1>5
  <2> QED BY <1>2, <1>5, <1>11, <2>1, RunGrounded DEF IndInv
<1>14. ASSUME NEW j \in DOMAIN invs', NEW r \in invs'[j].refs
       PROVE  (j \in DOMAIN invs /\ r \in invs[j].refs) \/ Citable(r)'
  <2>1. CASE j # i
    BY <1>5, <2>1
  <2>2. CASE j = i /\ r \in found
    <3>1. Citable(r)
      BY <2>2
    <3> QED BY <1>1, <3>1 DEF Citable, NamesARow
  <2> QED BY <1>3, <1>4, <1>5, <2>1, <2>2
<1> QED BY <1>1, <1>2, <1>5, <1>7, <1>8, <1>9, <1>10, <1>11, <1>12, <1>13, <1>14, RunStep

\* A step of the loop that calls no tool.
Skips(a) == agent' = [agent EXCEPT ![a].step = @ + 1] /\ UNCHANGED invs
LEMMA SkipStep ==
  ASSUME IndInv, NEW a \in Agents, Chat(a), Skips(a),
         ~agent[a].mock \/ MaxCalls < Len(Plan)
  PROVE  IndInv'
<1>1. /\ agent[a] # Resting /\ agent[a].pc = "chat" /\ agent[a].step < MaxCalls + 3
      /\ UNCHANGED nextId
  BY DEF Chat, At, detectVars
<1>2. /\ TypeOK /\ DOMAIN agent = Agents /\ IsRun(agent[a]) /\ HasRow(a) /\ Frugal(a)
  BY <1>1, RunFacts
<1>3. Moves(a) /\ agent'[a] = [agent[a] EXCEPT !.step = @ + 1]
  BY <1>2 DEF Moves, Skips
<1>4. agent[a].step + 1 \in 0..MaxCalls + 3
  BY <1>1, <1>2, InvestigationAssumption DEF IsRun
<1>5. /\ IsRun(agent[a])' /\ agent'[a].inv = agent[a].inv /\ agent'[a].anomaly = agent[a].anomaly
      /\ agent'[a].worker = agent[a].worker /\ agent'[a].metered = agent[a].metered
      /\ agent'[a].pc = "chat" /\ agent'[a].step = agent[a].step + 1
      /\ agent'[a].refs = agent[a].refs /\ agent'[a].seq = agent[a].seq
      /\ agent'[a].mock = agent[a].mock
  BY <1>1, <1>2, <1>3, <1>4 DEF IsRun, Ids, Skips
<1>6. Frugal(a)'
  BY <1>2, <1>5 DEF Frugal
<1>7. PICK i : i = agent[a].inv
  OBVIOUS
<1>8. i \in DOMAIN invs /\ invs[i] \in Investigation
  BY <1>1, <1>2, <1>7, InvType DEF HasRow
<1>9. invs' = [invs EXCEPT ![i] = invs[i]]
  BY <1>2, <1>8 DEF TypeOK, Skips
<1>10. PICK none : none = {}
  OBVIOUS
<1>11. PICK v \in Investigation : v = invs[i]
  BY <1>8
<1>12. agent'[a].refs = agent[a].refs \cup none /\ v.refs = invs[i].refs \cup none
  BY <1>5, <1>10, <1>11
<1>13. \A r \in none : Citable(r)
  BY <1>10
<1>14. /\ invs' = [invs EXCEPT ![agent[a].inv] = v] /\ v.anomaly = invs[agent[a].inv].anomaly
       /\ v.status = invs[agent[a].inv].status /\ v.conclusion = invs[agent[a].inv].conclusion
       /\ v.refs = invs[agent[a].inv].refs \cup none
  BY <1>7, <1>9, <1>11, <1>12
<1> QED BY <1>3, <1>5, <1>6, <1>12, <1>13, <1>14, ChatStep

\* A response with tool calls.
LEMMA ToolsStep ==
  ASSUME IndInv, NEW a \in Agents, Chat(a), NEW n \in 1..PerResponse, NEW found,
         \A r \in found : r \in References /\ Citable(r), Tools(a, n, found),
         agent[a].mock => n = 1 /\ agent[a].seq < Len(Plan)
  PROVE  IndInv'
<1>1. /\ agent[a] # Resting /\ agent[a].pc = "chat" /\ agent[a].step < MaxCalls + 3
      /\ UNCHANGED nextId
  BY DEF Chat, At, detectVars
<1>2. /\ TypeOK /\ DOMAIN agent = Agents /\ IsRun(agent[a]) /\ HasRow(a) /\ Frugal(a)
      /\ Len(invs) \in Nat
  BY <1>1, RunFacts
<1>3. /\ agent[a].seq \in Nat /\ agent[a].step \in Nat /\ MaxCalls \in Nat /\ PerResponse \in Nat
      /\ Len(Plan) \in Nat /\ n \in Nat /\ n <= PerResponse /\ agent[a].mock \in BOOLEAN
  BY <1>2, InvestigationAssumption DEF IsRun
<1>4. CASE agent[a].seq >= MaxCalls
  <2>1. agent' = [agent EXCEPT ![a].step = @ + 1] /\ UNCHANGED invs
    BY <1>4 DEF Tools
  <2>2. ~agent[a].mock \/ MaxCalls < Len(Plan)
    BY <1>3, <1>4
  <2> QED BY <2>1, <2>2, SkipStep DEF Skips
<1>5. CASE ~(agent[a].seq >= MaxCalls)
  <2>1. PICK i : i = agent[a].inv
    OBVIOUS
  <2>2. /\ agent' = [agent EXCEPT ![a].step = @ + 1, ![a].seq = @ + n, ![a].refs = @ \cup found]
        /\ invs' = [invs EXCEPT ![i].refs = @ \cup found]
    BY <1>5, <2>1 DEF Tools
  <2>3. i \in DOMAIN invs /\ invs[i] \in Investigation
    BY <1>1, <1>2, <2>1, InvType DEF HasRow
  <2>4. PICK v : v = [invs[i] EXCEPT !.refs = @ \cup found]
    OBVIOUS
  <2>5. /\ v \in Investigation /\ v.anomaly = invs[i].anomaly /\ v.status = invs[i].status
        /\ v.conclusion = invs[i].conclusion /\ v.refs = invs[i].refs \cup found
    BY <2>3, <2>4 DEF Investigation
  <2>6. invs' = [invs EXCEPT ![i] = v]
    BY <2>2, <2>4
  <2>7. PICK g : g = agent[a]
    OBVIOUS
  <2>8. PICK h : h = [g EXCEPT !.step = @ + 1, !.seq = @ + n, !.refs = @ \cup found]
    OBVIOUS
  <2>9. Moves(a) /\ agent'[a] = h
    BY <1>2, <2>2, <2>7, <2>8 DEF Moves
  <2>10. g.step + 1 \in 0..MaxCalls + 3 /\ g.seq + n \in Nat /\ IsRun(g)
    BY <1>1, <1>2, <1>3, <2>7
  <2>11. g.refs \cup found \in SUBSET References
    BY <2>10 DEF IsRun
  <2>12. IsRun(h)
    BY <2>8, <2>10, <2>11 DEF IsRun
  <2>13. /\ h.inv = g.inv /\ h.anomaly = g.anomaly /\ h.worker = g.worker /\ h.metered = g.metered
         /\ h.pc = g.pc /\ h.step = g.step + 1 /\ h.seq = g.seq + n /\ h.refs = g.refs \cup found
         /\ h.mock = g.mock
    BY <2>8, <2>10 DEF IsRun
  <2>14. Len(invs') = Len(invs)
    BY <2>2, <2>3, <1>2 DEF TypeOK
  <2>15. IsRun(h)'
    BY <1>1, <2>12, <2>14 DEF IsRun, Ids
  <2>16. Frugal(a)'
    <3>1. agent'[a].seq < MaxCalls + PerResponse
      BY <1>3, <1>5, <2>7, <2>9, <2>13
    <3>2. agent'[a].pc = "chat"
      BY <1>1, <2>7, <2>9, <2>13
    <3>3. ASSUME agent'[a].mock
          PROVE  \/ MaxCalls < Len(Plan)
                 \/ agent'[a].step = agent'[a].seq /\ agent'[a].seq <= MaxCalls
      <4>1. agent[a].mock /\ n = 1
        BY <2>7, <2>9, <2>13, <3>3
      <4>2. MaxCalls < Len(Plan) \/ (agent[a].step = agent[a].seq /\ agent[a].seq <= MaxCalls)
        BY <1>1, <1>2, <4>1 DEF Frugal
      <4>3. agent'[a].step = agent[a].step + 1 /\ agent'[a].seq = agent[a].seq + 1
        BY <2>7, <2>9, <2>13, <4>1
      <4> QED BY <1>3, <1>5, <4>2, <4>3
    <3> QED BY <3>1, <3>2, <3>3 DEF Frugal
  <2> HIDE DEF IsRun
  <2> QED BY <1>1, <2>1, <2>5, <2>6, <2>7, <2>9, <2>13, <2>15, <2>16, ChatStep
<1> QED BY <1>4, <1>5

\* A response with a conclusion.
LEMMA ConcludeStep ==
  ASSUME IndInv, NEW a \in Agents, Chat(a), NEW raw \in Answers(References \cup Invented),
         Conclude(a, raw)
  PROVE  IndInv'
<1>1. /\ agent[a] # Resting /\ agent[a].pc = "chat" /\ UNCHANGED <<nextId, invs>>
      /\ agent' = [agent EXCEPT ![a].pc = "complete", ![a].step = 0, ![a].seq = 0, ![a].raw = raw]
  BY DEF Chat, At, detectVars, Conclude
<1>2. TypeOK /\ DOMAIN agent = Agents /\ IsRun(agent[a]) /\ HasRow(a)
  BY <1>1, RunFacts
<1>3. PICK g : g = agent[a]
  OBVIOUS
<1>4. PICK h : h = [g EXCEPT !.pc = "complete", !.step = 0, !.seq = 0, !.raw = raw]
  OBVIOUS
<1>5. Moves(a) /\ agent'[a] = h
  BY <1>1, <1>2, <1>3, <1>4 DEF Moves
<1>6. 0 \in 0..MaxCalls + 3 /\ IsRun(g)
  BY <1>2, <1>3, InvestigationAssumption
<1>7. IsRun(h)
  BY <1>4, <1>6 DEF IsRun
<1>8. /\ h.inv = g.inv /\ h.anomaly = g.anomaly /\ h.worker = g.worker /\ h.metered = g.metered
      /\ h.pc = "complete" /\ h.step = 0 /\ h.seq = 0 /\ h.refs = g.refs
  BY <1>4, <1>6 DEF IsRun
<1>9. IsRun(h)'
  BY <1>1, <1>7 DEF IsRun, Ids
<1>10. Frugal(a)'
  BY <1>5, <1>8, InvestigationAssumption DEF Frugal
<1>11. PICK i : i = agent[a].inv
  OBVIOUS
<1>12. i \in DOMAIN invs /\ invs[i] \in Investigation
  BY <1>1, <1>2, <1>11, InvType DEF HasRow
<1>13. invs' = [invs EXCEPT ![i] = invs[i]]
  BY <1>1, <1>2, <1>12 DEF TypeOK
<1>14. agent'[a].refs = agent[a].refs \cup {} /\ invs[i].refs = invs[i].refs \cup {}
  BY <1>3, <1>5, <1>8
<1> QED BY <1>3, <1>5, <1>8, <1>9, <1>10, <1>11, <1>12, <1>13, <1>14, ChatStep, ZenonT(30)

\* A model answers.
LEMMA ChatModelStep ==
  ASSUME IndInv, NEW a \in Agents, ChatModel(a)
  PROVE  IndInv'
<1>1. Chat(a) /\ ~agent[a].mock /\ agent[a] # Resting /\ agent[a].pc = "chat"
  BY DEF ChatModel, Chat, At
<1>2. TypeOK /\ IsRun(agent[a]) /\ HasRow(a) /\ agent[a].anomaly \in DOMAIN anomalies
  BY <1>1, RunFacts DEF HasRow
<1>3. ASSUME NEW n \in 1..PerResponse, NEW k \in 0..n,
             NEW results \in kSubset(k, {run_tool(t, agent[a].anomaly, elsewhere) : t \in ALLOWED_TOOLS}),
             Tools(a, n, UNION results)
      PROVE  IndInv'
  <2>1. results \subseteq {run_tool(t, agent[a].anomaly, elsewhere) : t \in ALLOWED_TOOLS}
    BY DEF kSubset
  <2>2. PICK found : found = UNION results
    OBVIOUS
  <2>3. ASSUME NEW r \in found PROVE r \in References /\ Citable(r)
    <3>1. PICK t \in ALLOWED_TOOLS : r \in run_tool(t, agent[a].anomaly, elsewhere)
      BY <2>1, <2>2
    <3> QED BY <1>2, <3>1, ToolRefs
  <2>4. Tools(a, n, found)
    BY <1>3, <2>2
  <2> QED BY <1>1, <2>3, <2>4, ToolsStep
<1>4. ASSUME NEW raw \in Conclusions(agent[a].refs), Conclude(a, raw) PROVE IndInv'
  <2>1. agent[a].refs \subseteq References
    BY <1>2 DEF IsRun
  <2>2. raw \in Answers(References \cup Invented)
    BY <2>1 DEF Conclusions, Answers
  <2> QED BY <1>1, <1>4, <2>2, ConcludeStep
<1>5. CASE agent' = [agent EXCEPT ![a].step = @ + 1] /\ UNCHANGED invs
  BY <1>1, <1>5, SkipStep DEF Skips
<1> QED BY <1>3, <1>4, <1>5 DEF ChatModel

\* The mock's conclusion is an answer: its confidence is one of its five.
LEMMA MockAnswers ==
  ASSUME NEW e \in Evidence, NEW refs \in SUBSET References
  PROVE  mock_reason(e, refs) \in Answers(References \cup Invented)
<1> DEFINE h == <<IF e.payment THEN 80 ELSE 20, IF e.surge THEN 75 ELSE 15,
                  IF e.lag THEN 80 ELSE 10, IF 100 < 70 THEN 78 ELSE 10, 30>>
           S == {h[n] : n \in 1..5}
           top == IF e.payment \/ e.lag THEN 80 ELSE IF e.surge THEN 75 ELSE 30
<1>1. /\ h[1] \in {80, 20} /\ h[2] \in {75, 15} /\ h[3] \in {80, 10} /\ h[4] = 10 /\ h[5] = 30
      /\ (h[1] = 80 <=> e.payment) /\ (h[2] = 75 <=> e.surge) /\ (h[3] = 80 <=> e.lag)
  OBVIOUS
<1> HIDE DEF h
<1>2. S = {h[1], h[2], h[3], h[4], h[5]}
  <2>1. 1..5 = {1, 2, 3, 4, 5}
    OBVIOUS
  <2> QED BY <2>1
<1>3. top \in S /\ \A y \in S : y \in Int /\ y <= top
  BY <1>1, <1>2
<1>4. Max(S) \in 0..100
  <2>1. Max(S) \in S
    BY <1>3 DEF Max
  <2> QED BY <1>1, <1>2, <2>1
<1>5. mock_reason(e, refs) = [cause |-> IF Max(S) >= 60 THEN "found" ELSE "inconclusive",
                              confidence |-> Max(S), refs |-> refs]
  BY DEF mock_reason, h
<1> HIDE DEF S
<1> QED BY <1>4, <1>5 DEF Answers

\* The mock answers.
LEMMA ChatMockStep ==
  ASSUME IndInv, NEW a \in Agents, ChatMock(a)
  PROVE  IndInv'
<1>1. Chat(a) /\ agent[a].mock /\ agent[a] # Resting /\ agent[a].pc = "chat"
  BY DEF ChatMock, Chat, At
<1>2. TypeOK /\ IsRun(agent[a]) /\ HasRow(a) /\ agent[a].anomaly \in DOMAIN anomalies
  BY <1>1, RunFacts DEF HasRow
<1>3. PICK x : x = agent[a].anomaly
  OBVIOUS
<1>4. 1 \in 1..PerResponse /\ agent[a].seq \in Nat
  BY <1>2, InvestigationAssumption DEF IsRun
<1>5. CASE agent[a].seq < Len(Plan)
  <2>1. CASE Tools(a, 1, {})
    BY <1>1, <1>4, <1>5, <2>1, ToolsStep
  <2>2. CASE Tools(a, 1, run_tool(Plan[agent[a].seq + 1], x, elsewhere))
    <3>1. PICK name : name = Plan[agent[a].seq + 1]
      OBVIOUS
    <3>2. name \in ALLOWED_TOOLS
      BY <1>4, <1>5, <3>1, InvestigationAssumption
    <3>3. PICK found : found = run_tool(name, x, elsewhere)
      OBVIOUS
    <3>4. \A r \in found : r \in References /\ Citable(r)
      BY <1>2, <1>3, <3>2, <3>3, ToolRefs
    <3>5. Tools(a, 1, found)
      BY <2>2, <3>1, <3>3
    <3> QED BY <1>1, <1>4, <1>5, <3>4, <3>5, ToolsStep
  <2> QED BY <1>3, <1>5, <2>1, <2>2 DEF ChatMock
<1>6. CASE ~(agent[a].seq < Len(Plan))
  <2>1. PICK context : context = IF <<"A", x>> \in agent[a].refs THEN ContextRefs(x) ELSE {}
    OBVIOUS
  <2>2. context \subseteq References
    <3>1. \A r \in ContextRefs(x) : r \in run_tool("get_anomaly_context", x, elsewhere)
      BY DEF run_tool, get_anomaly_context
    <3>2. "get_anomaly_context" \in ALLOWED_TOOLS
      BY DEF ALLOWED_TOOLS
    <3> QED BY <1>2, <1>3, <2>1, <3>1, <3>2, ToolRefs
  <2>3. PICK e \in Evidence : Conclude(a, mock_reason(e, context))
    BY <1>3, <1>6, <2>1 DEF ChatMock
  <2>4. mock_reason(e, context) \in Answers(References \cup Invented)
    BY <2>2, MockAnswers
  <2>5. PICK raw \in Answers(References \cup Invented) : raw = mock_reason(e, context)
    BY <2>4
  <2>6. Conclude(a, raw)
    BY <2>3, <2>5
  <2> QED BY <1>1, <2>6, ConcludeStep
<1> QED BY <1>5, <1>6

----------------------------------------------------------------------------
(* The end of an investigation *)

\* validate_conclusion() keeps collected references, and confidence only with one.
LEMMA Validated ==
  ASSUME NEW raw \in Answers(References \cup Invented), NEW refs \in SUBSET References, NEW c,
         c = validate_conclusion(raw, refs)
  PROVE  /\ c \in Answers(References) /\ c.refs \subseteq refs
         /\ c.cause = "found" /\ c.refs = {} => c.confidence <= 20
<1>1. /\ raw.confidence \in 0..100 /\ raw.cause \in {"none", "found", "inconclusive"}
      /\ raw = [cause |-> raw.cause, confidence |-> raw.confidence, refs |-> raw.refs]
  BY DEF Answers
<1>2. PICK low : low = Min({raw.confidence, 20})
  OBVIOUS
<1>3. low \in 0..100 /\ low <= 20
  <2>1. \E x \in {raw.confidence, 20} : \A y \in {raw.confidence, 20} : x <= y
    BY <1>1
  <2>2. low \in {raw.confidence, 20} /\ \A y \in {raw.confidence, 20} : low <= y
    BY <1>2, <2>1 DEF Min
  <2> QED BY <1>1, <2>2
<1>4. PICK grounded : grounded = raw.refs \cap refs
  OBVIOUS
<1>5. c = [cause |-> raw.cause, refs |-> grounded,
           confidence |-> IF grounded = {} /\ raw.cause # "inconclusive" THEN low ELSE raw.confidence]
  BY <1>1, <1>2, <1>4 DEF validate_conclusion
<1> QED BY <1>1, <1>3, <1>4, <1>5 DEF Answers

\* _complete(): the conclusion is stored, whatever the status has become.
LEMMA CompleteStep ==
  ASSUME IndInv, NEW a \in Agents, Complete(a)
  PROVE  IndInv'
<1>1. /\ agent[a] # Resting /\ agent[a].pc = "complete" /\ UNCHANGED <<taken, dropped, rate, chats>>
      /\ UNCHANGED <<clock, samples, task, nextId, anomalies, published, rule, alerts,
                     elsewhere, cancelling, byHand>>
      /\ agent' = [agent EXCEPT ![a] = Resting]
  BY DEF Complete, At, detectVars
<1>2. /\ TypeOK /\ CostIsCounted /\ DOMAIN agent = Agents /\ IsRun(agent[a])
      /\ HasRow(a) /\ Stored(a) /\ Len(invs) \in Nat
      /\ taken \subseteq Ids /\ dropped \subseteq Ids
      /\ rate \in 0..RateLimit + 1 /\ chats \in Nat
  BY <1>1, RunFacts
<1>3. PICK i, c : i = agent[a].inv /\ c = validate_conclusion(agent[a].raw, agent[a].refs)
  OBVIOUS
<1>4. i \in DOMAIN invs /\ invs[i] \in Investigation /\ agent[a].refs \subseteq invs[i].refs
  BY <1>1, <1>2, <1>3, InvType DEF HasRow, Stored
<1>5. agent[a].raw \in Answers(References \cup Invented) /\ agent[a].refs \in SUBSET References
  BY <1>2 DEF IsRun
<1>6. /\ c \in Answers(References) /\ c.refs \subseteq agent[a].refs
      /\ c.cause = "found" /\ c.refs = {} => c.confidence <= 20
  <2>1. PICK raw, refs : raw = agent[a].raw /\ refs = agent[a].refs
    OBVIOUS
  <2>2. raw \in Answers(References \cup Invented) /\ refs \in SUBSET References
    BY <1>5, <2>1
  <2>3. c = validate_conclusion(raw, refs)
    BY <1>3, <2>1
  <2>4. /\ c \in Answers(References) /\ c.refs \subseteq refs
        /\ c.cause = "found" /\ c.refs = {} => c.confidence <= 20
    BY <2>2, <2>3, Validated
  <2> QED BY <2>1, <2>4
<1>7. PICK v : v = [invs[i] EXCEPT !.status = "COMPLETED", !.conclusion = c]
  OBVIOUS
<1>8. /\ v \in Investigation /\ v.anomaly = invs[i].anomaly /\ v.refs = invs[i].refs
      /\ v.conclusion = c /\ v.status = "COMPLETED"
  BY <1>4, <1>6, <1>7 DEF Investigation
<1>9. invs' = [invs EXCEPT ![i] = v]
  BY <1>3, <1>7 DEF Complete
<1>10. /\ InvsGrow /\ invs' \in Seq(Investigation) /\ Len(invs') = Len(invs)
       /\ DOMAIN invs' = DOMAIN invs /\ invs'[i] = v /\ Len(invs') <= MaxInvestigations
       /\ \A j \in DOMAIN invs : j # i => invs'[j] = invs[j]
       /\ \A j \in DOMAIN invs' : invs'[j].anomaly \in Ids
  BY <1>4, <1>8, <1>9, InvWritten
<1>11. Moves(a) /\ agent'[a] = Resting
  BY <1>1, <1>2 DEF Moves
<1>12. CostIsCounted'
  BY <1>1, <1>2, <1>11, CallsShrink, CostStays
<1>13. \A x \in taken' : agent[a] # Resting /\ agent[a].worker /\ agent[a].anomaly = x => Known(x)'
  BY <1>1, <1>10, InvIsKnown
<1>14. Rewrites /\ RowsRemain
  BY <1>1 DEF Rewrites, RowsRemain, IndInv, DetectInv, DetectTypeOK
<1>15. ReleaseIsDue'
  <2>1. ~At(a, "failing")'
    BY <1>11 DEF At
  <2> QED BY <1>1, <1>8, <1>10, <1>11, <2>1, RunRelease DEF IndInv
<1>16. GroundedConclusion'
  <2>1. \A r : Citable(r)' = Citable(r)
    BY <1>1 DEF Citable, NamesARow
  <2>2. \A r \in c.refs : Citable(r)
    BY <1>4, <1>6 DEF IndInv, EvidenceIsStored
  <2>3. c.refs \subseteq v.refs
    BY <1>4, <1>6, <1>8
  <2> QED BY <1>6, <1>8, <1>10, <2>1, <2>2, <2>3 DEF IndInv, GroundedConclusion
<1>17. \A j \in DOMAIN invs' : \A r \in invs'[j].refs : j \in DOMAIN invs /\ r \in invs[j].refs
  BY <1>8, <1>10
<1> QED BY <1>1, <1>2, <1>10, <1>11, <1>12, <1>13, <1>14, <1>15, <1>16, <1>17, RunStep

\* _fail() reads both rows: it will release an anomaly that is under investigation.
LEMMA FailReadStep ==
  ASSUME IndInv, NEW a \in Agents, FailRead(a)
  PROVE  IndInv'
<1>1. /\ agent[a] # Resting /\ agent[a].pc = "fail" /\ UNCHANGED <<taken, dropped, rate, chats>>
      /\ UNCHANGED <<clock, samples, task, nextId, anomalies, published, rule, alerts,
                     elsewhere, invs, cancelling, byHand>>
  BY DEF FailRead, At, detectVars
<1>2. /\ TypeOK /\ CostIsCounted /\ DOMAIN agent = Agents /\ IsRun(agent[a])
      /\ HasRow(a) /\ Stored(a) /\ Frugal(a) /\ Len(invs) \in Nat
      /\ taken \subseteq Ids /\ dropped \subseteq Ids
      /\ rate \in 0..RateLimit + 1 /\ chats \in Nat
  BY <1>1, RunFacts
<1>3. PICK open \in BOOLEAN :
        /\ open <=> anomalies[agent[a].anomaly].status = "INVESTIGATING"
        /\ agent' = [agent EXCEPT ![a].pc = "failing", ![a].open = open]
  BY DEF FailRead
<1>4. Moves(a) /\ agent'[a] = [agent[a] EXCEPT !.pc = "failing", !.open = open]
  BY <1>2, <1>3 DEF Moves
<1>5. /\ IsRun(agent[a])' /\ agent'[a].pc = "failing" /\ agent'[a].refs = {}
      /\ agent'[a].step = 0 /\ agent'[a].seq = 0 /\ agent'[a].inv = agent[a].inv
      /\ agent'[a].anomaly = agent[a].anomaly /\ agent'[a].worker = agent[a].worker
      /\ agent'[a].open = open
  BY <1>1, <1>2, <1>4 DEF IsRun, Ids, Stored, Frugal
<1>6. HasRow(a)' /\ Stored(a)' /\ Frugal(a)' /\ agent'[a] # Resting
  <2>1. HasRow(a)'
    BY <1>1, <1>2, <1>5 DEF HasRow
  <2>2. Stored(a)' /\ agent'[a] # Resting
    BY <1>5 DEF Stored, Resting
  <2>3. Frugal(a)'
    BY <1>5, InvestigationAssumption DEF Frugal
  <2> QED BY <2>1, <2>2, <2>3
<1>7. CostIsCounted'
  BY <1>1, <1>2, <1>4, <1>5, <1>6, CallsShrink, CostStays
<1>8. \A x \in taken' : agent[a] # Resting /\ agent[a].worker /\ agent[a].anomaly = x => Known(x)'
  BY <1>5, <1>6 DEF Known
<1>9. Rewrites /\ RowsRemain
  BY <1>1 DEF Rewrites, RowsRemain, IndInv, DetectInv, DetectTypeOK
<1>10. /\ InvsGrow /\ invs' \in Seq(Investigation) /\ Len(invs') <= MaxInvestigations
       /\ \A i \in DOMAIN invs' : invs'[i].anomaly \in Ids
  BY <1>1, <1>2 DEF InvsGrow, TypeOK
<1>11. ReleaseIsDue'
  <2> SUFFICES ASSUME NEW x \in DOMAIN anomalies \ byHand, anomalies[x].status = "INVESTIGATING"
               PROVE  \E i \in Of(x)' : invs'[i].status # "FAILED" /\ Releases(i)'
    BY <1>1 DEF ReleaseIsDue
  <2>1. PICK i \in Of(x) : invs[i].status # "FAILED" /\ Releases(i)
    BY DEF IndInv, ReleaseIsDue
  <2>2. agent[a].inv = i => agent[a].anomaly = x
    BY <1>1, <1>2, <2>1 DEF HasRow, Of
  <2>3. Releases(i)'
    BY <1>3, <1>4, <1>5, <2>1, <2>2 DEF Releases, At, Moves
  <2> QED BY <1>1, <2>1, <2>3 DEF Of
<1>12. GroundedConclusion'
  BY <1>1, <1>2, <1>9, <1>10, RunGrounded DEF IndInv
<1> QED BY <1>1, <1>2, <1>4, <1>5, <1>6, <1>7, <1>8, <1>9, <1>10, <1>11, <1>12, RunStep

\* ... and writes.
LEMMA FailStep ==
  ASSUME IndInv, NEW a \in Agents, Fail(a)
  PROVE  IndInv'
<1>1. /\ agent[a] # Resting /\ agent[a].pc = "failing" /\ UNCHANGED <<taken, dropped, rate, chats>>
      /\ UNCHANGED <<clock, samples, task, nextId, published, rule, alerts, elsewhere, cancelling>>
      /\ agent' = [agent EXCEPT ![a] = Resting]
  BY DEF Fail, At
<1>2. /\ TypeOK /\ CostIsCounted /\ DOMAIN agent = Agents /\ IsRun(agent[a])
      /\ HasRow(a) /\ Len(invs) \in Nat
      /\ taken \subseteq Ids /\ dropped \subseteq Ids
      /\ rate \in 0..RateLimit + 1 /\ chats \in Nat
  BY <1>1, RunFacts
<1>3. PICK i, x : i = agent[a].inv /\ x = agent[a].anomaly
  OBVIOUS
<1>4. /\ i \in DOMAIN invs /\ invs[i] \in Investigation /\ invs[i].anomaly = x
      /\ x \in DOMAIN anomalies /\ DetectTypeOK
  BY <1>1, <1>2, <1>3, InvType DEF HasRow, TypeOK
<1>5. PICK v : v = [invs[i] EXCEPT !.status = "FAILED"]
  OBVIOUS
<1>6. /\ v \in Investigation /\ v.anomaly = invs[i].anomaly /\ v.refs = invs[i].refs
      /\ v.conclusion = invs[i].conclusion /\ v.status = "FAILED"
  BY <1>4, <1>5, InvStatus
<1>7. invs' = [invs EXCEPT ![i] = v]
  BY <1>3, <1>5 DEF Fail
<1>8. /\ InvsGrow /\ invs' \in Seq(Investigation) /\ Len(invs') = Len(invs)
      /\ DOMAIN invs' = DOMAIN invs /\ invs'[i] = v /\ Len(invs') <= MaxInvestigations
      /\ \A j \in DOMAIN invs : j # i => invs'[j] = invs[j]
      /\ \A j \in DOMAIN invs' : invs'[j].anomaly \in Ids
  BY <1>4, <1>6, <1>7, InvWritten
<1>9. Moves(a) /\ agent'[a] = Resting
  BY <1>1, <1>2 DEF Moves
<1>10. CostIsCounted'
  BY <1>1, <1>2, <1>9, CallsShrink, CostStays
<1>11. \A y \in taken' : agent[a] # Resting /\ agent[a].worker /\ agent[a].anomaly = y => Known(y)'
  BY <1>1, <1>8, InvIsKnown
<1>12. /\ DOMAIN anomalies' = DOMAIN anomalies
       /\ \A y \in DOMAIN anomalies : anomalies'[y].key = anomalies[y].key
       /\ \A y \in DOMAIN anomalies : y # x => anomalies'[y] = anomalies[y]
       /\ anomalies' \in [DOMAIN anomalies' -> [key: Keys, status: Statuses]]
       /\ anomalies'[x].status = "INVESTIGATING" =>
              ~agent[a].open /\ anomalies[x].status = "INVESTIGATING"
  <2>1. CASE agent[a].open /\ anomalies' = [anomalies EXCEPT ![x].status = "OPEN"]
    BY <1>4, <2>1, StatusOnly DEF Statuses
  <2>2. CASE ~agent[a].open /\ anomalies' = anomalies
    BY <1>4, <2>2 DEF DetectTypeOK
  <2> QED BY <1>3, <2>1, <2>2 DEF Fail
<1>17. /\ byHand' \in {byHand, byHand \ {x}} /\ byHand' \subseteq Ids
       /\ anomalies'[x].status = "INVESTIGATING" => byHand' = byHand
  <2>1. byHand \subseteq Ids
    BY <1>2 DEF TypeOK
  <2>2. byHand' \in {byHand, byHand \ {x}} /\ (~agent[a].open => byHand' = byHand)
    BY <1>3 DEF Fail
  <2> QED BY <1>12, <2>1, <2>2
<1>13. Rewrites /\ RowsRemain
  BY <1>1, <1>4, <1>12 DEF Rewrites, RowsRemain, DetectTypeOK
<1>14. ReleaseIsDue'
  <2> SUFFICES ASSUME NEW y \in DOMAIN anomalies' \ byHand', anomalies'[y].status = "INVESTIGATING"
               PROVE  \E j \in Of(y)' : invs'[j].status # "FAILED" /\ Releases(j)'
    BY DEF ReleaseIsDue
  <2>1. y \in DOMAIN anomalies \ byHand /\ anomalies[y].status = "INVESTIGATING"
    BY <1>12, <1>17
  <2>2. PICK j \in Of(y) : invs[j].status # "FAILED" /\ Releases(j)
    BY <2>1 DEF IndInv, ReleaseIsDue
  <2>3. j # i
    <3> SUFFICES ASSUME j = i PROVE FALSE
      OBVIOUS
    <3>1. y = x /\ agent[a].open
      BY <1>1, <1>3, <1>4, <2>2 DEF Of, Releases, At
    <3> QED BY <1>12, <3>1
  <2>4. j \in Of(y)' /\ invs'[j].status # "FAILED"
    BY <1>8, <2>2, <2>3 DEF Of
  <2>5. Releases(j)'
    BY <1>9, <2>2 DEF Releases, At, Moves
  <2> QED BY <2>4, <2>5
<1>15. GroundedConclusion'
  <2>1. \A j \in DOMAIN invs' : j \in DOMAIN invs /\ invs'[j].conclusion = invs[j].conclusion
    BY <1>6, <1>8
  <2> QED BY <1>2, <1>8, <1>13, <2>1, RunGrounded DEF IndInv
<1>16. \A j \in DOMAIN invs' : \A r \in invs'[j].refs : j \in DOMAIN invs /\ r \in invs[j].refs
  BY <1>6, <1>8
<1> QED BY <1>1, <1>2, <1>8, <1>9, <1>10, <1>11, <1>13, <1>14, <1>15, <1>16, <1>17, RunStep

----------------------------------------------------------------------------
(* People, the detector, and the whole *)

\* A step that moves no task and adds to the tables, or rewrites statuses.
LEMMA OthersStep ==
  ASSUME IndInv, DetectInv', RowsRemain, nextId <= nextId', InvsGrow,
         UNCHANGED <<elsewhere, agent, taken, dropped, rate, chats>>,
         invs' \in Seq(Investigation), Len(invs') = Len(invs),
         \A i \in DOMAIN invs : /\ invs'[i].refs = invs[i].refs
                                /\ invs'[i].conclusion = invs[i].conclusion
                                /\ invs'[i].status = "FAILED" => invs[i].status = "FAILED",
         \A x \in DOMAIN anomalies' \ byHand' : anomalies'[x].status = "INVESTIGATING" =>
              x \in DOMAIN anomalies \ byHand /\ anomalies[x].status = "INVESTIGATING",
         cancelling' \subseteq DOMAIN invs, byHand' \subseteq Ids
  PROVE  IndInv'
<1>1. /\ nextId \in Nat /\ nextId' \in Nat /\ Len(invs) \in Nat /\ DOMAIN invs' = DOMAIN invs
      /\ Ids \subseteq Ids' /\ Len(invs) <= MaxInvestigations
      /\ \A i \in DOMAIN invs : invs[i].anomaly \in Ids
  <2>1. nextId \in Nat /\ nextId' \in Nat
    BY AnomalyAssumption DEF IndInv, DetectInv, DetectTypeOK
  <2>2. /\ invs \in Seq(Investigation) /\ Len(invs) <= MaxInvestigations
        /\ \A i \in DOMAIN invs : invs[i].anomaly \in Ids
    BY DEF IndInv, TypeOK
  <2> QED BY <2>1, <2>2 DEF Ids
<1>2. \A a \in Agents : agent'[a] = Resting \/ IsRun(agent[a])'
  <2> SUFFICES ASSUME NEW a \in Agents, agent[a] # Resting PROVE IsRun(agent[a])'
    OBVIOUS
  <2>1. IsRun(agent[a])
    BY DEF IndInv, TypeOK
  <2> QED BY <1>1, <2>1 DEF IsRun
<1>3. TypeOK'
  BY <1>1, <1>2 DEF IndInv, TypeOK, DetectInv, InvsGrow
<1>4. RunsHaveRows'
  BY <1>1 DEF IndInv, RunsHaveRows, HasRow, RowsRemain, InvsGrow
<1>5. \A x : Of(x)' = Of(x)
  BY <1>1 DEF Of, InvsGrow
<1>6. TakenIsKnown'
  BY <1>5 DEF IndInv, TakenIsKnown, Known
<1>7. ReleaseIsDue'
  <2> SUFFICES ASSUME NEW x \in DOMAIN anomalies' \ byHand', anomalies'[x].status = "INVESTIGATING"
               PROVE  \E i \in Of(x)' : invs'[i].status # "FAILED" /\ Releases(i)'
    BY DEF ReleaseIsDue
  <2>1. PICK i \in Of(x) : invs[i].status # "FAILED" /\ Releases(i)
    BY DEF IndInv, ReleaseIsDue
  <2>2. invs'[i].status # "FAILED" /\ Releases(i)'
    BY <2>1 DEF Releases, At, Of
  <2> QED BY <1>5, <2>1, <2>2
<1>8. EvidenceIsStored'
  <2>1. \A i \in DOMAIN invs : invs[i].refs \subseteq References
    BY InvType DEF IndInv
  <2>2. \A i \in DOMAIN invs' : \A r \in invs'[i].refs : Citable(r)'
    BY <1>1, <2>1, NamesRemain DEF IndInv, EvidenceIsStored
  <2>3. \A a \in Agents : agent'[a] # Resting => Stored(a)'
    BY DEF IndInv, EvidenceIsStored, Stored, RunsHaveRows, HasRow
  <2> QED BY <2>2, <2>3 DEF EvidenceIsStored
<1>9. GroundedConclusion'
  BY <1>1, RunGrounded DEF IndInv
<1>10. CostIsCounted'
  BY DEF IndInv, CostIsCounted, CallsLeft, Frugal
<1> QED BY <1>3, <1>4, <1>6, <1>7, <1>8, <1>9, <1>10 DEF IndInv

\* cancel() reads.
LEMMA CancelReadStep ==
  ASSUME IndInv, NEW i \in DOMAIN invs, CancelRead(i)
  PROVE  IndInv'
<1>1. /\ UNCHANGED <<elsewhere, agent, invs, taken, dropped, rate, chats, byHand>>
      /\ UNCHANGED <<clock, samples, task, nextId, anomalies, published, rule, alerts>>
      /\ cancelling' \subseteq cancelling \cup {i}
  BY DEF CancelRead, detectVars
<1>2. /\ invs \in Seq(Investigation) /\ Len(invs) \in Nat /\ cancelling \subseteq DOMAIN invs /\ byHand \subseteq Ids
      /\ nextId \in Nat
  BY AnomalyAssumption DEF IndInv, TypeOK, DetectTypeOK
<1>3. Rewrites /\ RowsRemain /\ InvsGrow /\ nextId <= nextId'
  BY <1>1, <1>2 DEF Rewrites, RowsRemain, InvsGrow, IndInv, DetectInv, DetectTypeOK
<1>4. DetectInv'
  BY <1>3, DetectFrame DEF IndInv
<1> QED BY <1>1, <1>2, <1>3, <1>4, OthersStep

\* cancel() writes.
LEMMA CancelStep ==
  ASSUME IndInv, NEW i \in DOMAIN invs, Cancel(i)
  PROVE  IndInv'
<1>1. /\ UNCHANGED <<elsewhere, agent, taken, dropped, rate, chats, byHand>>
      /\ UNCHANGED <<clock, samples, task, nextId, anomalies, published, rule, alerts>>
      /\ cancelling' \subseteq cancelling
      /\ invs' = [invs EXCEPT ![i].status = "CANCELLED"]
  BY DEF Cancel, detectVars
<1>2. /\ invs[i] \in Investigation /\ Len(invs) \in Nat /\ cancelling \subseteq DOMAIN invs /\ byHand \subseteq Ids
      /\ nextId \in Nat
  <2>1. TypeOK /\ DetectTypeOK
    BY DEF IndInv, TypeOK
  <2>2. invs[i] \in Investigation
    BY <2>1, InvType
  <2>3. nextId \in Nat
    BY <2>1, AnomalyAssumption DEF DetectTypeOK
  <2> QED BY <2>1, <2>2, <2>3 DEF TypeOK
<1>3. PICK v : v = [invs[i] EXCEPT !.status = "CANCELLED"]
  OBVIOUS
<1>4. /\ v \in Investigation /\ v.anomaly = invs[i].anomaly /\ v.refs = invs[i].refs
      /\ v.conclusion = invs[i].conclusion /\ v.status = "CANCELLED"
  BY <1>2, <1>3, InvStatus
<1>5. invs' = [invs EXCEPT ![i] = v]
  BY <1>1, <1>3
<1>6. /\ InvsGrow /\ invs' \in Seq(Investigation) /\ Len(invs') = Len(invs)
      /\ DOMAIN invs' = DOMAIN invs /\ invs'[i] = v
      /\ \A j \in DOMAIN invs : j # i => invs'[j] = invs[j]
  BY <1>4, <1>5, InvWritten
<1>7. Rewrites /\ RowsRemain /\ nextId <= nextId'
  BY <1>1, <1>2 DEF Rewrites, RowsRemain, IndInv, DetectInv, DetectTypeOK
<1>8. DetectInv'
  BY <1>7, DetectFrame DEF IndInv
<1>9. \A j \in DOMAIN invs : /\ invs'[j].refs = invs[j].refs
                             /\ invs'[j].conclusion = invs[j].conclusion
                             /\ invs'[j].status = "FAILED" => invs[j].status = "FAILED"
  BY <1>4, <1>6
<1> QED BY <1>1, <1>2, <1>6, <1>7, <1>8, <1>9, OthersStep

\* set_status() and the rule's API.
LEMMA PeopleStep ==
  ASSUME IndInv, (\E x \in DOMAIN anomalies : SetStatus(x)) \/ ChangeRule
  PROVE  IndInv'
<1>1. /\ UNCHANGED <<elsewhere, agent, invs, taken, dropped, rate, chats, cancelling>>
      /\ UNCHANGED <<clock, samples, task, nextId, published, alerts>>
  BY DEF SetStatus, ChangeRule, SetRule
<1>2. /\ invs \in Seq(Investigation) /\ Len(invs) \in Nat /\ cancelling \subseteq DOMAIN invs /\ byHand \subseteq Ids
      /\ nextId \in Nat /\ DetectTypeOK
  BY AnomalyAssumption, SMTT(30) DEF IndInv, TypeOK, DetectTypeOK
<1>3. /\ Rewrites /\ byHand' \subseteq Ids
      /\ \A x \in DOMAIN anomalies' \ byHand' : anomalies'[x].status = "INVESTIGATING" =>
            x \in DOMAIN anomalies \ byHand /\ anomalies[x].status = "INVESTIGATING"
  <2>1. ASSUME NEW x \in DOMAIN anomalies, SetStatus(x)
        PROVE  /\ Rewrites /\ byHand' \subseteq Ids
               /\ \A y \in DOMAIN anomalies' \ byHand' : anomalies'[y].status = "INVESTIGATING" =>
                     y \in DOMAIN anomalies \ byHand /\ anomalies[y].status = "INVESTIGATING"
    <3>1. PICK st \in Statuses :
            /\ anomalies' = [anomalies EXCEPT ![x].status = st]
            /\ byHand' = IF st = "INVESTIGATING" THEN byHand \cup {x} ELSE byHand \ {x}
      BY <2>1 DEF SetStatus
    <3>2. /\ DOMAIN anomalies' = DOMAIN anomalies
          /\ \A y \in DOMAIN anomalies : anomalies'[y].key = anomalies[y].key
          /\ \A y \in DOMAIN anomalies : y # x => anomalies'[y] = anomalies[y]
          /\ anomalies'[x].status = st
          /\ anomalies' \in [DOMAIN anomalies' -> [key: Keys, status: Statuses]]
      BY <1>2, <3>1, StatusOnly DEF Statuses
    <3>3. UNCHANGED rule
      BY <2>1 DEF SetStatus
    <3>4. rule' \in [state: {"enabled", "disabled", "deleted"}, last: 0..MaxClock]
      BY <1>2, <3>3 DEF DetectTypeOK
    <3>5. Rewrites
      BY <1>1, <3>2, <3>4 DEF Rewrites
    <3>6. byHand' \subseteq Ids
      BY <1>2, <3>1 DEF DetectTypeOK, Ids
    <3> QED BY <3>1, <3>2, <3>5, <3>6
  <2>2. CASE ChangeRule
    <3>1. PICK s \in {"enabled", "disabled", "deleted"} : SetRule(s)
      BY <2>2 DEF ChangeRule
    <3>2. UNCHANGED <<anomalies, byHand>> /\ rule' = [rule EXCEPT !.state = s]
      BY <2>2, <3>1 DEF SetRule, ChangeRule
    <3>3. rule' \in [state: {"enabled", "disabled", "deleted"}, last: 0..MaxClock]
      BY <1>2, <3>2 DEF DetectTypeOK
    <3> QED BY <1>1, <1>2, <3>2, <3>3 DEF Rewrites, DetectTypeOK
  <2> QED BY <2>1, <2>2
<1>4. DetectInv' /\ RowsRemain /\ InvsGrow /\ nextId <= nextId'
  BY <1>1, <1>2, <1>3, DetectFrame DEF IndInv, Rewrites, RowsRemain, InvsGrow
<1> QED BY <1>1, <1>2, <1>3, <1>4, OthersStep

\* The detector adds rows, open ones, and alerts.
LEMMA DetectorsStep ==
  ASSUME IndInv, DetectNext, UNCHANGED agentVars
  PROVE  IndInv'
<1>1. DetectInv' /\ Grows
  BY DetectStep DEF IndInv
<1>2. UNCHANGED <<elsewhere, agent, invs, taken, dropped, rate, chats, cancelling, byHand>>
  BY DEF agentVars
<1>3. /\ invs \in Seq(Investigation) /\ Len(invs) \in Nat /\ cancelling \subseteq DOMAIN invs /\ byHand \subseteq Ids
  BY DEF IndInv, TypeOK
<1>5. RowsRemain /\ InvsGrow /\ nextId <= nextId'
  BY <1>1, <1>2, <1>3 DEF Grows, RowsRemain, InvsGrow
<1>6. \A x \in DOMAIN anomalies' \ byHand' : anomalies'[x].status = "INVESTIGATING" =>
            x \in DOMAIN anomalies \ byHand /\ anomalies[x].status = "INVESTIGATING"
  BY <1>1, <1>2 DEF Grows
<1> QED BY <1>1, <1>2, <1>3, <1>5, <1>6, OthersStep

\* Nothing moves.
LEMMA StutterStep ==
  ASSUME IndInv, UNCHANGED vars
  PROVE  IndInv'
<1>1. /\ UNCHANGED <<elsewhere, agent, invs, taken, dropped, rate, chats, cancelling, byHand>>
      /\ UNCHANGED <<clock, samples, task, nextId, anomalies, published, rule, alerts>>
  BY DEF vars, detectVars, agentVars
<1>2. /\ invs \in Seq(Investigation) /\ Len(invs) \in Nat /\ cancelling \subseteq DOMAIN invs /\ byHand \subseteq Ids
      /\ nextId \in Nat
  BY AnomalyAssumption DEF IndInv, TypeOK, DetectTypeOK
<1>3. Rewrites /\ RowsRemain /\ InvsGrow /\ nextId <= nextId'
  BY <1>1, <1>2 DEF Rewrites, RowsRemain, InvsGrow, IndInv, DetectInv, DetectTypeOK
<1>4. DetectInv'
  BY <1>3, DetectFrame DEF IndInv
<1> QED BY <1>1, <1>2, <1>3, <1>4, OthersStep

\* Every step keeps the invariant.
LEMMA IndNext == IndInv /\ [Next]_vars => IndInv'
<1> SUFFICES ASSUME IndInv, [Next]_vars PROVE IndInv'
  OBVIOUS
<1>1. ASSUME NEW a \in Agents,
             \/ Take(a) \/ Request(a) \/ AgentStep(a)
             \/ RateUnknown(a) \/ DatabaseFails(a) \/ CrashAgent(a)
      PROVE  IndInv'
  BY <1>1, TakeStep, RequestStep, RateUnknownStep, DatabaseFailsStep, CrashStep, RateStep, ReadStep,
     CreateStep, StartReadStep, StartStep, ChatModelStep, ChatMockStep, ProviderFailsStep, CompleteStep,
     FailReadStep, FailStep DEF AgentStep
<1>2. ASSUME NEW i \in DOMAIN invs, CancelRead(i) \/ Cancel(i) PROVE IndInv'
  BY <1>2, CancelReadStep, CancelStep
<1>3. CASE (\E x \in DOMAIN anomalies : SetStatus(x)) \/ ChangeRule
  BY <1>3, PeopleStep
<1>4. CASE DetectNext /\ UNCHANGED agentVars
  BY <1>4, DetectorsStep
<1>5. CASE UNCHANGED vars
  BY <1>5, StutterStep
<1> QED BY <1>1, <1>2, <1>3, <1>4, <1>5 DEF Next

\* It holds in every initial situation.
LEMMA IndInit == Init => IndInv
<1> SUFFICES ASSUME NEW s \in Incidents, DetectInit(s), elsewhere = s.elsewhere,
                    agent = [a \in Agents |-> Resting], invs = <<>>, taken = {}, dropped = {},
                    rate = s.rate, chats = 0, cancelling = {}, byHand = {}
             PROVE  IndInv
  BY DEF Init
<1>1. /\ s.clock \in 1..MaxClock /\ s.samples \in 0..s.clock /\ s.rows \in Seq(Keys)
      /\ Len(s.rows) <= MaxIds /\ s.rate \in 0..RateLimit
      /\ \A x, y \in DOMAIN s.rows : s.rows[x] = s.rows[y] => x = y
  BY IncidentAssumption
<1>2. PICK rows : rows = s.rows
  OBVIOUS
<1>3. /\ rows \in Seq(Keys) /\ Len(rows) \in Nat /\ DOMAIN rows = 1..Len(rows)
      /\ \A x \in DOMAIN rows : rows[x] \in Keys
  BY <1>1, <1>2
<1>4. /\ anomalies = [x \in DOMAIN rows |-> [key |-> rows[x], status |-> "OPEN"]]
      /\ nextId = Len(rows) /\ task = [d \in Detectors |-> Idle]
      /\ clock = s.clock /\ samples = s.samples /\ rule = [state |-> "enabled", last |-> 0]
      /\ alerts = {}
      /\ published = {[id |-> x, severity |-> rows[x][2]] : x \in DOMAIN rows}
  BY <1>2 DEF DetectInit
<1>5. MaxClock \in Nat /\ MaxIds \in Nat /\ RateLimit \in Nat /\ MaxInvestigations \in Nat
  BY AnomalyAssumption, InvestigationAssumption DEF MaxClock
<1>6. DetectTypeOK
  <2>1. clock \in 1..MaxClock /\ samples \in 0..MaxClock /\ nextId \in 0..MaxIds
    BY <1>1, <1>2, <1>3, <1>4, <1>5
  <2>2. DOMAIN anomalies = 1..nextId /\ anomalies \in [DOMAIN anomalies -> [key: Keys, status: Statuses]]
    BY <1>3, <1>4 DEF Statuses
  <2>3. \A m \in published : m.id \in 1..nextId
    BY <1>3, <1>4
  <2>4. rule \in [state: {"enabled", "disabled", "deleted"}, last: 0..MaxClock]
    BY <1>4, <1>5
  <2> QED BY <1>4, <2>1, <2>2, <2>3, <2>4, FS_EmptySet DEF DetectTypeOK
<1>7. SamplesAreFew
  <2>1. {d \in Detectors : task[d] # Idle} = {}
    BY <1>4
  <2>2. Cardinality({d \in Detectors : task[d] # Idle}) = 0
    BY <2>1, FS_EmptySet
  <2> QED BY <1>1, <1>4, <1>5, <2>2 DEF SamplesAreFew
<1>8. KeysAreNew /\ RowsArePublished
  BY <1>4 DEF KeysAreNew, RowsArePublished
<1>9. StoredIsPublishedOnce
  <2>1. \A x \in DOMAIN anomalies : \E m \in published : m.id = x
    <3> SUFFICES ASSUME NEW x \in DOMAIN rows PROVE \E m \in published : m.id = x
      BY <1>4
    <3>1. PICK m : m = [id |-> x, severity |-> rows[x][2]]
      OBVIOUS
    <3>2. m \in published /\ m.id = x
      BY <1>4, <3>1
    <3> QED BY <3>2
  <2>2. \A x, y \in DOMAIN anomalies : anomalies[x].key = anomalies[y].key => x = y
    BY <1>1, <1>2, <1>4
  <2> QED BY <2>1, <2>2 DEF StoredIsPublishedOnce
<1>10. TypeOK
  <2>1. invs \in Seq(Investigation) /\ Len(invs) <= MaxInvestigations /\ DOMAIN invs = {}
    BY <1>5
  <2>2. rate \in 0..RateLimit + 1
    BY <1>1, <1>5
  <2> QED BY <1>6, <2>1, <2>2 DEF TypeOK
<1>11. \A a \in Agents : agent[a] = Resting
  OBVIOUS
<1>12. RunsHaveRows /\ TakenIsKnown /\ EvidenceIsStored /\ GroundedConclusion
  <2>1. DOMAIN invs = {}
    OBVIOUS
  <2> QED BY <1>11, <2>1
      DEF RunsHaveRows, TakenIsKnown, EvidenceIsStored, GroundedConclusion
<1>13. ReleaseIsDue
  BY <1>4 DEF ReleaseIsDue
<1>14. CostIsCounted
  <2>1. CallsLeft = {}
    BY <1>11 DEF CallsLeft
  <2>2. Cardinality(CallsLeft) = 0
    BY <2>1, FS_EmptySet
  <2>3. Budget(rate) \in Nat /\ rate <= RateLimit
    BY <1>1, <1>5, InvestigationAssumption DEF Budget
  <2> QED BY <1>11, <2>2, <2>3 DEF CostIsCounted
<1> QED BY <1>6, <1>7, <1>8, <1>9, <1>10, <1>12, <1>13, <1>14 DEF IndInv, DetectInv

\* The inductive invariant holds throughout.
LEMMA Invariance == Spec => []IndInv
BY IndInit, IndNext, PTL DEF Spec

----------------------------------------------------------------------------
(* The theorems *)

\* evaluate_metric() publishes before the transaction commits, and the unique
\* dedup key admits one row of a kind: for any number of detector tasks, metrics
\* and faults, every anomaly in the table was on events.anomalies and has a key
\* of its own.
THEOREM StoredSafety == Spec => []StoredIsPublishedOnce
<1>1. IndInv => StoredIsPublishedOnce
  BY DEF IndInv, DetectInv
<1> QED BY <1>1, Invariance, PTL

\* The rule's cooldown in evaluate_single_rule(): k concurrent tasks fire at most
\* k (k + 1) / 2 alerts within any cooldown, for any number of tasks and minutes,
\* any rule, and any failures, crashes and changes of the rule.
THEOREM StormSafety == Spec => []BoundedStorm
<1>1. ASSUME Init PROVE StormInv
  <2>1. PICK s \in Incidents : DetectInit(s)
    BY <1>1 DEF Init
  <2>2. /\ task = [d \in Detectors |-> Idle] /\ rule = [state |-> "enabled", last |-> 0]
        /\ alerts = {} /\ clock = s.clock /\ s.clock \in 1..MaxClock /\ MaxClock \in Nat
    BY <2>1, IncidentAssumption, AnomalyAssumption DEF DetectInit, MaxClock
  <2>3. ASSUME NEW t \in 1..MaxClock PROVE SpanIsBounded(t)
    <3>1. Stale(t) = {} /\ FiredIn(t, Rule.cooldown) = {} /\ rule.last < t
      BY <2>2, <2>3 DEF Stale, FiredIn
    <3>2. /\ Cardinality({}) = 0 /\ Cardinality(Detectors) \in Nat
      BY AnomalyAssumption, FS_EmptySet, FS_CardinalityType
    <3>3. 2 * Cardinality(Detectors) <= Triangle(Cardinality(Detectors))
      BY <3>2, TriangleNext
    <3> QED BY <3>1, <3>2, <3>3 DEF SpanIsBounded
  <2> QED BY <2>2, <2>3 DEF StormInv
<1>2. ASSUME IndInv, IndInv', StormInv, [Next]_vars PROVE StormInv'
  <2>1. DetectTypeOK /\ DetectTypeOK'
    BY <1>2 DEF IndInv, TypeOK
  <2>2. CASE DetectNext
    BY <1>2, <2>1, <2>2, StormStep
  <2>3. CASE UNCHANGED <<clock, task, alerts>> /\ rule'.last = rule.last
    BY <1>2, <2>1, <2>3, StormFrame
  <2>4. CASE UNCHANGED vars
    BY <2>3, <2>4 DEF vars, detectVars
  <2>5. ASSUME NEW a \in Agents,
               \/ Take(a) \/ Request(a) \/ AgentStep(a)
               \/ RateUnknown(a) \/ DatabaseFails(a) \/ CrashAgent(a)
        PROVE  UNCHANGED <<clock, task, alerts, rule>>
    <3>1. CASE Take(a) \/ Request(a) \/ RateUnknown(a) \/ DatabaseFails(a) \/ CrashAgent(a)
      BY <3>1, Zenon DEF Take, Request, RateUnknown, DatabaseFails, CrashAgent, detectVars
    <3>2. CASE rate_ok(a) \/ ReadAnomaly(a) \/ Create(a) \/ StartRead(a) \/ Start(a)
      BY <3>2, Zenon DEF rate_ok, ReadAnomaly, Create, StartRead, Start, detectVars
    <3>3. CASE ChatModel(a) \/ ChatMock(a) \/ ProviderFails(a)
      BY <3>3, Zenon DEF ChatModel, ChatMock, Chat, ProviderFails, detectVars
    <3>4. CASE Complete(a) \/ FailRead(a) \/ Fail(a)
      BY <3>4, Zenon DEF Complete, FailRead, Fail, detectVars
    <3> QED BY <2>5, <3>1, <3>2, <3>3, <3>4, Zenon DEF AgentStep
  <2>6. ASSUME NEW i \in DOMAIN invs, CancelRead(i) \/ Cancel(i)
        PROVE  UNCHANGED <<clock, task, alerts, rule>>
    BY <2>6 DEF CancelRead, Cancel, detectVars
  <2>7. ASSUME NEW x \in DOMAIN anomalies, SetStatus(x)
        PROVE  UNCHANGED <<clock, task, alerts, rule>>
    BY <2>7 DEF SetStatus
  <2>8. CASE ChangeRule
    <3>1. PICK s : SetRule(s)
      BY <2>8 DEF ChangeRule
    <3>2. UNCHANGED <<clock, task, alerts>> /\ rule' = [rule EXCEPT !.state = s]
      BY <3>1 DEF SetRule
    <3>3. rule'.last = rule.last
      BY <2>1, <3>2 DEF DetectTypeOK
    <3> QED BY <2>3, <3>2, <3>3
  <2> QED BY <1>2, <2>2, <2>3, <2>4, <2>5, <2>6, <2>7, <2>8 DEF Next
<1>3. ASSUME IndInv, StormInv PROVE BoundedStorm
  <2>1. DetectTypeOK
    BY <1>3 DEF IndInv, TypeOK
  <2> SUFFICES ASSUME NEW t \in 1..MaxClock
               PROVE  2 * Cardinality(FiredIn(t, Rule.cooldown))
                        <= Cardinality(Detectors) * (Cardinality(Detectors) + 1)
    BY DEF BoundedStorm
  <2> DEFINE k == Cardinality(Detectors)
             n == k - Cardinality(Stale(t))
             f == Cardinality(FiredIn(t, Rule.cooldown))
             p == Cardinality(Pending(t))
  <2>2. k \in Nat /\ n \in Nat /\ f \in Nat /\ p \in Nat /\ n <= k
    BY <2>1, SpanSets
  <2>3. 2 * (f + (IF rule.last < t THEN n ELSE p)) <= Triangle(n)
    BY <1>3 DEF StormInv, SpanIsBounded
  <2>4. Triangle(n) <= Triangle(k) /\ Triangle(n) \in Nat /\ Triangle(k) \in Nat
    BY <2>2, TriangleGrows
  <2>5. 2 * f <= Triangle(k)
    <3> HIDE DEF k, n, f, p
    <3> QED BY <2>2, <2>3, <2>4
  <2> QED BY <2>5 DEF Triangle
<1> QED BY <1>1, <1>2, <1>3, Invariance, PTL DEF Spec

\* handle() of the AI worker: a consumed message of a stored anomaly led to an
\* investigation, was dropped by the limit or an error, or is with a task, after
\* any crashes, retries and concurrent requests.
THEOREM ForgottenSafety == Spec => []NoAnomalyForgotten
<1>1. IndInv => NoAnomalyForgotten
  BY DEF IndInv, TakenIsKnown, Known, NoAnomalyForgotten
<1> QED BY <1>1, Invariance, PTL

\* _fail() releases: an anomaly that is INVESTIGATING, and not by the hand of a
\* person, has an investigation that did not fail, although _fail(),
\* create_investigation() and run_investigation() each read and write in two steps.
THEOREM ReleaseSafety == Spec => []AnomalyIsReleased
<1>1. IndInv => AnomalyIsReleased
  BY DEF IndInv, ReleaseIsDue, AnomalyIsReleased
<1> QED BY <1>1, Invariance, PTL

\* validate_conclusion(): whatever a provider makes up, a stored conclusion cites
\* what the investigation's own tool calls returned, a row or a reference that the
\* payload of an event holds, and a cause that cites nothing has low confidence.
THEOREM GroundedSafety == Spec => []GroundedConclusion
<1>1. IndInv => GroundedConclusion
  BY DEF IndInv
<1> QED BY <1>1, Invariance, PTL

\* rate_ok() and _agent_loop() bound the cost of an hour by the limit times the
\* calls of one investigation, for any limit, budget, plan and number of tasks.
THEOREM CostSafety == Spec => []CostBound
<1>1. ASSUME IndInv PROVE CostBound
  <2>1. TypeOK /\ CostIsCounted /\ rate \in Nat /\ RateLimit \in Nat /\ MaxCalls \in Nat
        /\ chats \in Nat /\ Cardinality(CallsLeft) \in Nat /\ PerResponse \in Nat
    BY <1>1, CallsLeftIsFinite, InvestigationAssumption DEF IndInv, TypeOK
  <2>2. chats <= RateLimit * (MaxCalls + 3)
    <3>1. PICK n : n = IF rate <= RateLimit THEN rate ELSE RateLimit
      OBVIOUS
    <3>2. n \in Nat /\ n <= RateLimit /\ chats + Cardinality(CallsLeft) <= n * (MaxCalls + 3)
      BY <2>1, <3>1 DEF CostIsCounted, Budget
    <3>3. PICK k \in Nat : k = MaxCalls + 3
      BY <2>1
    <3>4. n * k <= RateLimit * k /\ n * k \in Nat /\ RateLimit * k \in Nat
      <4>1. PICK d \in Nat : RateLimit = n + d
        <5>1. RateLimit - n \in Nat /\ RateLimit = n + (RateLimit - n)
          BY <2>1, <3>2
        <5> QED BY <5>1
      <4>2. (n + d) * k = n * k + d * k /\ n * k \in Nat /\ d * k \in Nat
        BY <3>2, <3>3, <4>1
      <4> QED BY <4>1, <4>2
    <3> QED BY <2>1, <3>2, <3>3, <3>4
  <2>3. ASSUME NEW a \in Agents, At(a, "chat")
        PROVE  /\ agent[a].seq < MaxCalls + PerResponse
               /\ agent[a].mock /\ agent[a].step = MaxCalls + 3 => MaxCalls < Len(Plan)
    <3>1. Frugal(a) /\ agent[a].pc = "chat" /\ IsRun(agent[a])
      BY <2>1, <2>3 DEF At, CostIsCounted, TypeOK
    <3>2. agent[a].seq \in Nat /\ agent[a].step \in Nat
      BY <2>1, <3>1 DEF IsRun
    <3> QED BY <2>1, <3>1, <3>2 DEF Frugal
  <2> QED BY <2>1, <2>2, <2>3 DEF CostBound
<1> QED BY <1>1, Invariance, PTL

\* An investigation that nobody runs is written by no task but one that starts it.
LEMMA CancelKept ==
  ASSUME IndInv, [Next]_vars, NEW i \in DOMAIN invs, invs[i].status = "CANCELLED",
         \A a \in Agents : ~Runs(a, i)
  PROVE  invs'[i] = invs[i] /\ \A a \in Agents : ~Runs(a, i)'
<1>1. /\ DOMAIN agent = Agents /\ invs \in Seq(Investigation) /\ invs[i] \in Investigation
      /\ Len(invs) \in Nat
      /\ \A a \in Agents : agent[a] # Resting => IsRun(agent[a])
  BY InvType DEF IndInv, TypeOK
<1>2. ASSUME NEW a \in Agents, Moves(a), invs'[i] = invs[i], ~Runs(a, i)'
      PROVE  invs'[i] = invs[i] /\ \A b \in Agents : ~Runs(b, i)'
  BY <1>2 DEF Moves, Runs
<1>3. ASSUME NEW a \in Agents, Moves(a), invs'[i] = invs[i],
             agent'[a] = Resting \/ agent'[a].pc \in {"rate", "read", "create", "start"}
      PROVE  invs'[i] = invs[i] /\ \A b \in Agents : ~Runs(b, i)'
  BY <1>2, <1>3 DEF Runs
<1>4. ASSUME NEW a \in Agents, Moves(a), Runs(a, agent[a].inv),
             agent'[a] = Resting \/ agent'[a].inv = agent[a].inv,
             i # agent[a].inv => invs'[i] = invs[i]
      PROVE  invs'[i] = invs[i] /\ \A b \in Agents : ~Runs(b, i)'
  <2>1. i # agent[a].inv
    BY <1>4 DEF Runs
  <2> QED BY <1>2, <1>4, <2>1 DEF Runs
<1>5. ASSUME NEW a \in Agents,
             Take(a) \/ Request(a) \/ rate_ok(a) \/ RateUnknown(a) \/ ReadAnomaly(a)
             \/ DatabaseFails(a) \/ CrashAgent(a)
      PROVE  invs'[i] = invs[i] /\ \A b \in Agents : ~Runs(b, i)'
  <2>1. UNCHANGED invs
    BY <1>5, Zenon DEF Take, Request, rate_ok, RateUnknown, ReadAnomaly, DatabaseFails, CrashAgent
  <2>2. \/ agent' = agent
        \/ \E x, n : agent' = [agent EXCEPT ![a] = Opened(x, "rate", TRUE, n)]
        \/ \E x : agent' = [agent EXCEPT ![a] = Opened(x, "read", FALSE, 1)]
        \/ agent' = [agent EXCEPT ![a] = Resting]
        \/ At(a, "rate") /\ agent' = [agent EXCEPT ![a].pc = "read", ![a].metered = TRUE]
        \/ At(a, "rate") /\ agent' = [agent EXCEPT ![a].pc = "read"]
        \/ At(a, "read") /\ \E open : agent' = [agent EXCEPT ![a].pc = "create", ![a].open = open]
    <3>1. CASE Take(a)
      BY <3>1 DEF Take
    <3>2. CASE Request(a)
      BY <3>2 DEF Request
    <3>3. CASE rate_ok(a) \/ RateUnknown(a)
      BY <3>3 DEF rate_ok, RateUnknown
    <3>4. CASE ReadAnomaly(a)
      BY <3>4 DEF ReadAnomaly
    <3>5. CASE DatabaseFails(a) \/ CrashAgent(a)
      BY <3>5 DEF DatabaseFails, CrashAgent
    <3> QED BY <1>5, <3>1, <3>2, <3>3, <3>4, <3>5
  <2>3. CASE agent' = agent
    BY <2>1, <2>3 DEF Runs
  <2>4. CASE agent' # agent
    <3>1. Moves(a)
      BY <1>1, <2>2, <2>4 DEF Moves
    <3>2. agent'[a] = Resting \/ agent'[a].pc \in {"rate", "read", "create", "start"}
      BY <1>1, <2>2, <2>4 DEF Opened, At, IsRun
    <3> QED BY <1>3, <2>1, <3>1, <3>2
  <2> QED BY <2>3, <2>4
<1>6. ASSUME NEW a \in Agents, Create(a)
      PROVE  invs'[i] = invs[i] /\ \A b \in Agents : ~Runs(b, i)'
  <2>1. IsRun(agent[a]) /\ \E n : agent' = [agent EXCEPT ![a].pc = "start", ![a].inv = n]
    BY <1>1, <1>6 DEF Create, At
  <2>2. Moves(a) /\ agent'[a].pc = "start"
    BY <1>1, <2>1 DEF Moves, IsRun
  <2>3. invs'[i] = invs[i]
    BY <1>1, <1>6 DEF Create
  <2> QED BY <1>3, <2>2, <2>3
<1>7. ASSUME NEW a \in Agents, StartRead(a)
      PROVE  invs'[i] = invs[i] /\ \A b \in Agents : ~Runs(b, i)'
  <2>1. /\ IsRun(agent[a]) /\ UNCHANGED invs
        /\ \/ agent' = [agent EXCEPT ![a] = Resting]
           \/ /\ invs[agent[a].inv].status # "CANCELLED"
              /\ agent' = [agent EXCEPT ![a].pc = "starting"]
    BY <1>1, <1>7 DEF StartRead, At
  <2>2. CASE agent' = [agent EXCEPT ![a] = Resting]
    <3>1. Moves(a) /\ agent'[a] = Resting
      BY <1>1, <2>2 DEF Moves
    <3> QED BY <1>3, <2>1, <3>1
  <2>3. CASE agent[a].inv # i /\ agent' = [agent EXCEPT ![a].pc = "starting"]
    <3>1. Moves(a) /\ agent'[a] = [agent[a] EXCEPT !.pc = "starting"]
      BY <1>1, <2>3 DEF Moves
    <3>2. agent'[a].inv # i
      BY <2>1, <2>3, <3>1 DEF IsRun
    <3> QED BY <1>2, <2>1, <3>1, <3>2 DEF Runs
  <2> QED BY <2>1, <2>2, <2>3
<1>8. ASSUME NEW a \in Agents,
             Start(a) \/ ChatModel(a) \/ ChatMock(a) \/ ProviderFails(a)
             \/ Complete(a) \/ FailRead(a) \/ Fail(a)
      PROVE  invs'[i] = invs[i] /\ \A b \in Agents : ~Runs(b, i)'
  <2>1. agent[a] # Resting /\ agent[a].pc \in {"starting", "chat", "complete", "fail", "failing"}
    BY <1>8, Zenon DEF Start, ChatModel, ChatMock, Chat, ProviderFails, Complete, FailRead, Fail, At
  <2>2. IsRun(agent[a]) /\ Runs(a, agent[a].inv)
    BY <1>1, <2>1 DEF Runs
  <2>3. Moves(a) /\ (agent'[a] = Resting \/ agent'[a].inv = agent[a].inv)
    <3>1. CASE Start(a)
      BY <1>1, <2>2, <3>1 DEF Start, Moves, IsRun
    <3>2. CASE ChatModel(a)
      <4>1. ASSUME NEW n, NEW found, Tools(a, n, found) PROVE Moves(a) /\ agent'[a].inv = agent[a].inv
        BY <1>1, <2>2, <4>1 DEF Tools, Moves, IsRun
      <4>2. ASSUME NEW raw, Conclude(a, raw) PROVE Moves(a) /\ agent'[a].inv = agent[a].inv
        BY <1>1, <2>2, <4>2 DEF Conclude, Moves, IsRun
      <4>3. CASE agent' = [agent EXCEPT ![a].step = @ + 1]
        BY <1>1, <2>2, <4>3 DEF Moves, IsRun
      <4> QED BY <3>2, <4>1, <4>2, <4>3 DEF ChatModel
    <3>3. CASE ChatMock(a)
      BY <1>1, <2>2, <3>3 DEF ChatMock, Tools, Conclude, Moves, IsRun
    <3>4. CASE ProviderFails(a)
      BY <1>1, <2>2, <3>4 DEF ProviderFails, Moves, IsRun
    <3>5. CASE Complete(a) \/ FailRead(a) \/ Fail(a)
      BY <1>1, <2>2, <3>5 DEF Complete, FailRead, Fail, Moves, IsRun
    <3> QED BY <1>8, <3>1, <3>2, <3>3, <3>4, <3>5
  <2>4. i # agent[a].inv => invs'[i] = invs[i]
    <3>1. CASE Start(a) \/ ProviderFails(a)
      BY <1>1, <3>1 DEF Start, ProviderFails
    <3>2. CASE ChatModel(a)
      BY <1>1, <3>2 DEF ChatModel, Tools, Conclude
    <3>3. CASE ChatMock(a)
      BY <1>1, <3>3 DEF ChatMock, Tools, Conclude
    <3>4. CASE Complete(a) \/ FailRead(a) \/ Fail(a)
      BY <1>1, <3>4 DEF Complete, FailRead, Fail
    <3> QED BY <1>8, <3>1, <3>2, <3>3, <3>4
  <2> QED BY <1>4, <2>2, <2>3, <2>4
<1>9. ASSUME UNCHANGED agent, invs'[i] = invs[i]
      PROVE  invs'[i] = invs[i] /\ \A b \in Agents : ~Runs(b, i)'
  BY <1>9 DEF Runs
<1>10. ASSUME NEW j \in DOMAIN invs, CancelRead(j) \/ Cancel(j)
       PROVE  invs'[i] = invs[i] /\ \A b \in Agents : ~Runs(b, i)'
  <2>1. UNCHANGED agent
    BY <1>10 DEF CancelRead, Cancel
  <2>2. invs'[i] = invs[i]
    <3>1. [invs[i] EXCEPT !.status = "CANCELLED"] = invs[i]
      BY <1>1 DEF Investigation
    <3> QED BY <1>1, <1>10, <3>1 DEF CancelRead, Cancel
  <2> QED BY <1>9, <2>1, <2>2
<1>11. ASSUME NEW x \in DOMAIN anomalies, SetStatus(x)
       PROVE  invs'[i] = invs[i] /\ \A b \in Agents : ~Runs(b, i)'
  BY <1>9, <1>11 DEF SetStatus
<1>12. CASE ChangeRule \/ UNCHANGED agentVars \/ UNCHANGED vars
  BY <1>9, <1>12 DEF ChangeRule, agentVars, vars
<1> QED BY <1>5, <1>6, <1>7, <1>8, <1>10, <1>11, <1>12 DEF Next, AgentStep

\* cancel() and run_investigation() write a status without looking at it: for any
\* number of tasks and requests, a cancel that no task has read past is final, and
\* only a task that runs the investigation already writes over it.
THEOREM CancelSafety == Spec => CancelIsKept
<1>1. IndInv /\ [Next]_vars =>
        [\A i \in DOMAIN invs :
            invs[i].status = "CANCELLED" /\ (\A a \in Agents : ~Runs(a, i)) =>
                /\ invs'[i] = invs[i]
                /\ \A a \in Agents : ~Runs(a, i)']_vars
  BY CancelKept
<1> QED BY <1>1, Invariance, PTL DEF Spec, CancelIsKept
=============================================================================
