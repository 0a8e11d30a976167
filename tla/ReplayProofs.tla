---------------------------- MODULE ReplayProofs ----------------------------
(***************************************************************************)
(* Machine-checked proofs about Replay, for every finite set of runners,   *)
(* jobs and events, every page size, every fault set and every bound.      *)
(***************************************************************************)
EXTENDS Replay, FiniteSetTheorems, TLAPS

----------------------------------------------------------------------------
(* Keys and pages *)

\* A set of keys that is not empty has a least one.
LEMMA LeastKey ==
    ASSUME NEW S \in SUBSET Nat, S # {} PROVE \E m \in S : \A k \in S : m <= k
<1> DEFINE Less == {p \in Nat \X Nat : p[1] < p[2]}
<1>1. IsWellFoundedOn(Less, Nat)
    BY NatLessThanWellFounded DEF OpToRel
<1>2. PICK m \in S : \A k \in S : ~ (<<k, m>> \in Less)
    <2> HIDE DEF Less
    <2> QED BY <1>1, WFMin
<1>3. ASSUME NEW k \in S PROVE m <= k
    <2>1. k \in Nat /\ m \in Nat
        OBVIOUS
    <2>2. k < m => <<k, m>> \in Less
        BY <2>1
    <2>3. ~(k < m)
        BY <1>2, <2>2
    <2> QED BY <2>1, <2>3
<1> QED BY <1>3

\* min(rows): the key the loop handles next.
LEMMA MinKey ==
    ASSUME NEW S \in SUBSET Nat, S # {} PROVE Min(S) \in S /\ \A k \in S : Min(S) <= k
BY LeastKey DEF Min

\* Keys of S between l and i, and the page of S above l.
Between(S, l, i) == {k \in S : l < k /\ k < i}
PageOf(S, l) == {i \in S : i > l /\ Cardinality(Between(S, l, i)) < BatchSize}

LEMMA BetweenFinite ==
    ASSUME NEW S \in SUBSET Ids, NEW l, NEW i
    PROVE  IsFiniteSet(Between(S, l, i)) /\ Cardinality(Between(S, l, i)) \in Nat
<1>1. Between(S, l, i) \in SUBSET Ids
    BY DEF Between
<1> QED BY <1>1, FS_Subset, FS_CardinalityType, ParameterAssumption

\* A page holds BatchSize rows at most: their ranks above l differ.
LEMMA PageBounded ==
    ASSUME NEW S \in SUBSET Ids, NEW l \in Nat
    PROVE  IsFiniteSet(PageOf(S, l)) /\ Cardinality(PageOf(S, l)) <= BatchSize
<1> DEFINE rank == [i \in PageOf(S, l) |-> Cardinality(Between(S, l, i))]
<1>1. rank \in [PageOf(S, l) -> 0..(BatchSize - 1)]
    <2> SUFFICES ASSUME NEW i \in PageOf(S, l)
                 PROVE  Cardinality(Between(S, l, i)) \in 0..(BatchSize - 1)
        OBVIOUS
    <2> QED BY BetweenFinite, ParameterAssumption DEF PageOf
<1>2. ASSUME NEW i \in PageOf(S, l), NEW j \in PageOf(S, l), i < j
      PROVE  rank[i] # rank[j]
    <2>1. i \in Nat /\ j \in Nat /\ i \in S /\ l < i
        BY ParameterAssumption DEF PageOf
    <2>2. /\ Between(S, l, i) \in SUBSET Between(S, l, j)
          /\ i \in Between(S, l, j) /\ i \notin Between(S, l, i)
        <3>1. S \subseteq Nat
            BY ParameterAssumption
        <3>2. (\A n \in S : n < i => n < j) /\ ~(i < i)
            BY <1>2, <2>1, <3>1
        <3> QED BY <1>2, <2>1, <3>2 DEF Between
    <2>3. IsFiniteSet(Between(S, l, j))
        BY BetweenFinite
    <2> HIDE DEF rank
    <2>4. Cardinality(Between(S, l, j)) # Cardinality(Between(S, l, i))
        BY <2>2, <2>3, FS_Subset
    <2> QED BY <2>4 DEF rank
<1>3. rank \in Injection(PageOf(S, l), 0..(BatchSize - 1))
    <2> HIDE DEF rank
    <2>1. PageOf(S, l) \subseteq Nat
        BY ParameterAssumption DEF PageOf
    <2>2. \A i, j \in PageOf(S, l) : rank[i] = rank[j] => i = j
        BY <1>2, <2>1
    <2> QED BY <1>1, <2>2 DEF Injection, IsInjective
<1>4. IsFiniteSet(0..(BatchSize - 1)) /\ Cardinality(0..(BatchSize - 1)) = BatchSize
    BY FS_Interval, ParameterAssumption
<1> HIDE DEF rank
<1> QED BY <1>3, <1>4, FS_Injection

\* A page leaves no key below one of its own.
LEMMA PageIsDense ==
    ASSUME NEW S \in SUBSET Ids, NEW l \in Nat, NEW i \in PageOf(S, l),
           NEW k \in S, l < k, k < i
    PROVE  k \in PageOf(S, l)
<1>1. i \in Nat /\ k \in Nat /\ i \in S /\ Cardinality(Between(S, l, i)) < BatchSize
    BY ParameterAssumption DEF PageOf
<1>2. Between(S, l, k) \in SUBSET Between(S, l, i)
    <2>1. S \subseteq Nat
        BY ParameterAssumption
    <2>2. \A n \in S : n < k => n < i
        BY <1>1, <2>1
    <2> QED BY <2>2 DEF Between
<1>3. Cardinality(Between(S, l, k)) <= Cardinality(Between(S, l, i))
    BY <1>2, BetweenFinite, FS_Subset
<1>4. /\ Cardinality(Between(S, l, k)) \in Nat /\ Cardinality(Between(S, l, i)) \in Nat
      /\ BatchSize \in Nat
    BY BetweenFinite, ParameterAssumption
<1> QED BY <1>1, <1>3, <1>4 DEF PageOf

\* The page is empty only when no key is left.
LEMMA PageIsLast ==
    ASSUME NEW S \in SUBSET Ids, NEW l \in Nat, NEW k \in S, k > l
    PROVE  PageOf(S, l) # {}
<1> DEFINE T == {i \in S : i > l}
<1>1. T \in SUBSET Nat /\ T # {}
    BY ParameterAssumption
<1>2. PICK m \in T : \A i \in T : m <= i
    BY <1>1, LeastKey
<1>3. Between(S, l, m) = {}
    BY <1>1, <1>2, ParameterAssumption DEF Between
<1>4. Cardinality(Between(S, l, m)) = 0
    BY <1>3, FS_EmptySet
<1> QED BY <1>2, <1>4, ParameterAssumption DEF PageOf

\* Rows() is the page of the stored keys above last_id.
LEMMA RowsIsPage == \A r \in Runners : Rows(r) = PageOf(store, lastId[r])
BY DEF Rows, PageOf, Between

----------------------------------------------------------------------------
(* Types *)

\* A cursor is a number.
LEMMA CursorType == \A x \in Ids \cup {0} : x \in Nat
<1> SUFFICES ASSUME NEW x \in Ids \cup {0} PROVE x \in Nat
    OBVIOUS
<1>1. Ids \subseteq Nat
    BY ParameterAssumption
<1> QED BY <1>1

\* Sets of keys are finite.
LEMMA KeysFinite ==
    ASSUME NEW S \in SUBSET Ids
    PROVE  /\ IsFiniteSet(S) /\ Cardinality(S) \in Nat
           /\ Cardinality(Ids) \in Nat /\ Cardinality(S) <= Cardinality(Ids)
BY FS_Subset, FS_CardinalityType, ParameterAssumption

\* The event a publish handles was not handled before, so there is room to count it.
LEMMA NextKey ==
    ASSUME TypeOK, NEW r \in Runners, Paging(r), pc[r] = "publish"
    PROVE  LET i == Min(page[r]) IN
           /\ i \in page[r] /\ i \in Ids /\ i \in Nat /\ lastId[r] \in Nat /\ i > lastId[r]
           /\ \A k \in page[r] : k \in Nat /\ i <= k
           /\ i \notin tried[r]
           /\ IsFiniteSet(page[r]) /\ Cardinality(page[r]) \in Nat
           /\ Cardinality(page[r] \ {i}) = Cardinality(page[r]) - 1
           /\ Cardinality(tried[r] \cup {i}) = Cardinality(tried[r]) + 1
           /\ Cardinality(tried[r]) < Cardinality(Ids)
<1> DEFINE i == Min(page[r])
<1>1. /\ page[r] \in SUBSET Ids /\ tried[r] \in SUBSET Ids /\ page[r] # {}
      /\ Ids \subseteq Nat /\ lastId[r] \in Nat
    <2>1. page[r] \in SUBSET Ids /\ tried[r] \in SUBSET Ids /\ lastId[r] \in Ids \cup {0}
        BY DEF TypeOK
    <2>2. page[r] # {}
        BY DEF Paging
    <2>3. Ids \subseteq Nat
        BY ParameterAssumption
    <2> QED BY <2>1, <2>2, <2>3, CursorType
<1>2. i \in page[r] /\ \A k \in page[r] : i <= k
    BY <1>1, MinKey
<1> HIDE DEF i
<1>3. i \in Ids /\ i \in Nat /\ i > lastId[r] /\ \A k \in page[r] : k \in Nat
    BY <1>1, <1>2 DEF Paging
<1>4. i \notin tried[r]
    BY <1>1, <1>3 DEF Paging
<1>5. /\ IsFiniteSet(page[r]) /\ IsFiniteSet(tried[r]) /\ Cardinality(page[r]) \in Nat
      /\ Cardinality(tried[r]) \in Nat
    BY <1>1, KeysFinite
<1>6. Cardinality(page[r] \ {i}) = Cardinality(page[r]) - 1
    BY <1>2, <1>5, FS_RemoveElement
<1>7. Cardinality(tried[r] \cup {i}) = Cardinality(tried[r]) + 1
    BY <1>4, <1>5, FS_AddElement
<1>8. Cardinality(tried[r] \cup {i}) <= Cardinality(Ids) /\ Cardinality(Ids) \in Nat
    BY <1>1, <1>3, KeysFinite
<1>9. Cardinality(tried[r]) < Cardinality(Ids)
    BY <1>5, <1>7, <1>8
<1> QED BY <1>1, <1>2, <1>3, <1>4, <1>5, <1>6, <1>7, <1>9 DEF i

LEMMA NoCountsType == NoCounts \in Counts
BY KeysFinite DEF NoCounts, Counts

\* What a runner that gives up its job leaves behind is well typed.
LEMMA ReleaseType ==
    ASSUME TypeOK, NEW r \in Runners, Release(r), UNCHANGED <<cancelling, store, sent, begun>>,
           status' \in [Jobs -> Statuses], counts' \in [Jobs -> Counts],
           afterCancel' = afterCancel, crashes' \in 0..MaxCrashes, UNCHANGED changes
    PROVE  TypeOK'
<1>1. NoCounts \in Counts /\ NoJob \notin Jobs /\ Cardinality({}) = 0 /\ BatchSize \in Nat
    BY NoCountsType, FS_EmptySet, ParameterAssumption DEF NoJob
<1>2. \A q \in Runners : (pc[q] = "poll" <=> job[q] = NoJob)
    BY DEF TypeOK
<1>3. /\ pc' \in [Runners -> {"poll", "claimed", "page", "publish", "progress", "finish", "fail"}]
      /\ job' \in [Runners -> Jobs \cup {NoJob}]
      /\ \A q \in Runners : (pc'[q] = "poll" <=> job'[q] = NoJob)
    BY <1>2 DEF TypeOK, Release
<1>4. /\ lastId' \in [Runners -> Ids \cup {0}] /\ page' \in [Runners -> SUBSET Ids]
      /\ local' \in [Runners -> Counts] /\ present' \in [Runners -> SUBSET Ids]
      /\ tried' \in [Runners -> SUBSET Ids]
    BY <1>1 DEF TypeOK, Release
<1>5. \A q \in Runners : Cardinality(page'[q]) <= BatchSize
    BY <1>1 DEF TypeOK, Release
<1> QED BY <1>3, <1>4, <1>5 DEF TypeOK

LEMMA TypeNext ==
    ASSUME TypeOK, \A r \in Runners : Paging(r), [Next]_vars PROVE TypeOK'
<1>0. /\ \A r \in Runners : pc[r] # "poll" => job[r] \in Jobs
      /\ NoJob \notin Jobs /\ MaxCrashes \in Nat /\ MaxChanges \in Nat
    BY ParameterAssumption DEF TypeOK, NoJob
<1>1. ASSUME NEW j \in Jobs, Create(j) PROVE TypeOK'
    BY <1>1 DEF TypeOK, Create, Statuses, runVars, history
<1>2. ASSUME NEW j \in Jobs, CancelCheck(j) PROVE TypeOK'
    BY <1>2 DEF TypeOK, CancelCheck, runVars, history
<1>3. ASSUME NEW j \in Jobs, CancelWrite(j) PROVE TypeOK'
    BY <1>3 DEF TypeOK, CancelWrite, Statuses, runVars
<1>4. ASSUME NEW i \in Ids, Insert(i) PROVE TypeOK'
    BY <1>0, <1>4 DEF TypeOK, Insert, runVars, history
<1>5. ASSUME NEW i \in Ids, Delete(i) PROVE TypeOK'
    <2>1. /\ present' \in [Runners -> SUBSET Ids] /\ store' \subseteq Ids
          /\ changes' \in 0..MaxChanges
        BY <1>0, <1>5 DEF TypeOK, Delete
    <2> QED BY <1>5, <2>1 DEF TypeOK, Delete, runVars
<1>6. ASSUME NEW r \in Runners, NEW j \in Jobs, Claim(r, j) PROVE TypeOK'
    BY <1>0, <1>6 DEF TypeOK, Claim, GoTo, history
<1>7. ASSUME NEW r \in Runners, Begin(r) PROVE TypeOK'
    BY <1>0, <1>7 DEF TypeOK, Begin, GoTo, Statuses
<1>8. ASSUME NEW r \in Runners, ReadPage(r) PROVE TypeOK'
    <2>1. lastId[r] \in Nat /\ store \in SUBSET Ids /\ Rows(r) \in SUBSET Ids
        <3>1. lastId[r] \in Ids \cup {0} /\ store \in SUBSET Ids /\ Rows(r) \subseteq store
            BY DEF TypeOK, Rows
        <3> QED BY <3>1, CursorType
    <2>2. Cardinality(Rows(r)) <= BatchSize
        BY <2>1, PageBounded, RowsIsPage
    <2> QED BY <1>8, <2>1, <2>2 DEF TypeOK, ReadPage, GoTo, history
<1>9. ASSUME NEW r \in Runners, Publish(r) PROVE TypeOK'
    <2> DEFINE i == Min(page[r])
               n == Cardinality(Ids)
    <2>1. pc[r] = "publish" /\ job[r] \in Jobs
        BY <1>0, <1>9 DEF Publish
    <2>2. /\ i \in Ids /\ Cardinality(page[r] \ {i}) <= BatchSize
          /\ Cardinality(tried[r]) < n
        <3>1. /\ i \in Ids /\ Cardinality(page[r]) \in Nat /\ Cardinality(tried[r]) < n
              /\ Cardinality(page[r] \ {i}) = Cardinality(page[r]) - 1
            BY <2>1, NextKey
        <3>2. Cardinality(page[r]) <= BatchSize
            BY DEF TypeOK
        <3> HIDE DEF i, n
        <3> QED BY <3>1, <3>2, ParameterAssumption
    <2>3. /\ local[r] \in Counts /\ n \in Nat
          /\ local[r].replayed + local[r].failed = Cardinality(tried[r])
        BY KeysFinite DEF Paging, TypeOK
    <2>4. /\ local[r].replayed \in Nat /\ local[r].failed \in Nat
          /\ local[r].replayed + 1 \in 0..n /\ local[r].failed + 1 \in 0..n
        BY <2>2, <2>3 DEF Counts
    <2> HIDE DEF i, n
    <2>5. /\ [local[r] EXCEPT !.replayed = @ + 1] \in Counts
          /\ [local[r] EXCEPT !.failed = @ + 1] \in Counts
        BY <2>3, <2>4 DEF Counts, n
    <2>6. local' \in [Runners -> Counts]
        BY <1>9, <2>5 DEF TypeOK, Publish
    <2>7. sent' \in [Jobs -> Nat] /\ afterCancel' \in [Jobs -> Nat]
        BY <1>9, <2>1 DEF TypeOK, Publish
    <2>8. /\ lastId' \in [Runners -> Ids \cup {0}] /\ tried' \in [Runners -> SUBSET Ids]
          /\ page' \in [Runners -> SUBSET Ids]
          /\ \A q \in Runners : Cardinality(page'[q]) <= BatchSize
        BY <1>9, <2>2 DEF TypeOK, Publish, i
    <2>9. /\ pc' \in [Runners -> {"poll", "claimed", "page", "publish", "progress", "finish", "fail"}]
          /\ \A q \in Runners : (pc'[q] = "poll" <=> job'[q] = NoJob)
        BY <1>9 DEF TypeOK, Publish, GoTo
    <2> QED BY <1>9, <2>6, <2>7, <2>8, <2>9 DEF TypeOK, Publish
<1>10. ASSUME NEW r \in Runners, Progress(r) PROVE TypeOK'
    <2>1. job[r] \in Jobs /\ local[r] \in Counts
        BY <1>0, <1>10 DEF Progress, TypeOK
    <2>2. CASE Release(r) /\ UNCHANGED counts
        BY <1>10, <2>2, ReleaseType DEF Progress, TypeOK
    <2>3. CASE ~Release(r)
        BY <1>0, <1>10, <2>1, <2>3 DEF TypeOK, Progress, GoTo
    <2>4. CASE UNCHANGED <<job, lastId, page, local, present, tried>>
        BY <1>0, <1>10, <2>1, <2>4 DEF TypeOK, Progress, GoTo, Release
    <2> QED BY <1>10, <2>2, <2>3, <2>4 DEF Progress
<1>11. ASSUME NEW r \in Runners, Finish(r) PROVE TypeOK'
    <2>1. job[r] \in Jobs /\ local[r] \in Counts
        BY <1>0, <1>11 DEF Finish, TypeOK
    <2>2. CASE /\ Release(r)
               /\ status' = [status EXCEPT ![job[r]] = "COMPLETED"]
               /\ counts' = [counts EXCEPT ![job[r]] = local[r]]
        <3>1. status' \in [Jobs -> Statuses] /\ counts' \in [Jobs -> Counts]
            BY <2>1, <2>2 DEF TypeOK, Statuses
        <3> QED BY <1>11, <2>2, <3>1, ReleaseType DEF Finish, TypeOK
    <2>3. CASE GoTo(r, "fail") /\ UNCHANGED <<status, counts, job, lastId, page, local, present, tried>>
        BY <1>0, <1>11, <2>1, <2>3 DEF TypeOK, Finish, GoTo
    <2> QED BY <1>11, <2>2, <2>3 DEF Finish
<1>12. ASSUME NEW r \in Runners, Fail(r) PROVE TypeOK'
    <2>1. job[r] \in Jobs /\ local[r] \in Counts
        BY <1>0, <1>12 DEF Fail, TypeOK
    <2>2. status' \in [Jobs -> Statuses] /\ counts' \in [Jobs -> Counts]
        BY <1>12, <2>1 DEF TypeOK, Statuses, Fail
    <2> QED BY <1>12, <2>2, ReleaseType DEF Fail, TypeOK
<1>13. ASSUME NEW r \in Runners, Crash(r) PROVE TypeOK'
    <2>1. crashes' \in 0..MaxCrashes
        BY <1>0, <1>13 DEF Crash, TypeOK
    <2> QED BY <1>13, <2>1, ReleaseType DEF Crash, TypeOK
<1>14. CASE UNCHANGED vars
    BY <1>14 DEF TypeOK, vars, runVars, history
<1> QED BY <1>1, <1>2, <1>3, <1>4, <1>5, <1>6, <1>7, <1>8, <1>9, <1>10, <1>11, <1>12, <1>13,
           <1>14 DEF Next, RunnerStep

----------------------------------------------------------------------------
(* The cursor *)

\* What a step leaves alone of a runner.
Same(q) ==
    /\ pc'[q] = pc[q] /\ lastId'[q] = lastId[q] /\ page'[q] = page[q]
    /\ local'[q] = local[q] /\ tried'[q] = tried[q]

LEMMA SamePaging ==
    ASSUME NEW q \in Runners, Paging(q), Same(q),
           present'[q] \subseteq present[q], present'[q] \subseteq store'
    PROVE  Paging(q)'
BY DEF Paging, Same

\* A runner that polls again has an empty cursor.
LEMMA ReleasePaging ==
    ASSUME TypeOK, NEW r \in Runners, Release(r) PROVE Paging(r)'
<1>1. /\ pc'[r] = "poll" /\ lastId'[r] = 0 /\ page'[r] = {} /\ local'[r] = NoCounts
      /\ present'[r] = {} /\ tried'[r] = {}
    BY DEF TypeOK, Release
<1>2. Cardinality({}) = 0 /\ NoCounts.replayed + NoCounts.failed = 0
    BY FS_EmptySet DEF NoCounts
<1> QED BY <1>1, <1>2 DEF Paging

\* A page in hand covers what lies between the cursor and its last row.
LEMMA ReadPaging ==
    ASSUME TypeOK, NEW r \in Runners, Paging(r), ReadPage(r) PROVE Paging(r)'
<1>1. /\ lastId[r] \in Nat /\ store \in SUBSET Ids /\ present[r] \subseteq store
      /\ Ids \subseteq Nat
    BY CursorType, ParameterAssumption DEF TypeOK, Paging
<1>2. CASE GoTo(r, "fail") /\ UNCHANGED page
    BY <1>2 DEF Paging, ReadPage, GoTo, TypeOK, history
<1>3. CASE /\ page' = [page EXCEPT ![r] = Rows(r)]
           /\ GoTo(r, IF Rows(r) = {} THEN "finish" ELSE "publish")
    <2> DEFINE P == PageOf(store, lastId[r])
    <2>1. /\ page'[r] = P /\ pc'[r] = IF P = {} THEN "finish" ELSE "publish"
          /\ lastId'[r] = lastId[r] /\ local'[r] = local[r]
          /\ present'[r] = present[r] /\ tried'[r] = tried[r] /\ store' = store
        BY <1>3, RowsIsPage DEF ReadPage, GoTo, TypeOK, history
    <2>2. \A i \in P : i > lastId[r] /\ i \in store /\ i \in Nat
        BY <1>1 DEF PageOf
    <2>3. ASSUME NEW i \in present[r], i > lastId[r], i \notin P, NEW k \in P PROVE k < i
        <3>1. i \in store /\ i \in Nat /\ k \in Nat
            BY <1>1, <2>2
        <3>2. ~(i < k)
            BY <1>1, <2>3, <3>1, PageIsDense
        <3>3. i # k
            BY <2>3
        <3> QED BY <3>1, <3>2, <3>3
    <2>4. P = {} => \A i \in present[r] : i <= lastId[r]
        <3> SUFFICES ASSUME P = {}, NEW i \in present[r] PROVE i <= lastId[r]
            OBVIOUS
        <3>1. ~(i > lastId[r])
            BY <1>1, PageIsLast
        <3>2. i \in Nat
            BY <1>1
        <3> QED BY <1>1, <3>1, <3>2
    <2>5. pc[r] = "page"
        BY <1>3 DEF ReadPage
    <2>6. \A i \in present[r] : i <= lastId[r] => i \in tried[r]
        BY <2>5 DEF Paging
    <2>7. P = {} => present[r] \subseteq tried[r]
        BY <2>4, <2>6
    <2> HIDE DEF P
    <2> QED BY <1>1, <2>1, <2>2, <2>3, <2>6, <2>7 DEF Paging
<1> QED BY <1>2, <1>3 DEF ReadPage

\* Handling the least row in hand moves the cursor past nothing else.
LEMMA PublishPaging ==
    ASSUME TypeOK, NEW r \in Runners, Paging(r), Publish(r) PROVE Paging(r)'
<1> DEFINE i == Min(page[r])
<1>1. pc[r] = "publish"
    BY DEF Publish
<1>2. /\ i \in page[r] /\ i \in Nat /\ lastId[r] \in Nat /\ i > lastId[r]
      /\ \A k \in page[r] : k \in Nat /\ i <= k
      /\ Cardinality(tried[r] \cup {i}) = Cardinality(tried[r]) + 1
    BY <1>1, NextKey
<1>3. /\ lastId'[r] = i /\ tried'[r] = tried[r] \cup {i} /\ page'[r] = page[r] \ {i}
      /\ pc'[r] = IF page[r] = {i} THEN "progress" ELSE "publish"
      /\ present'[r] = present[r] /\ store' = store
    BY DEF Publish, GoTo, TypeOK
<1>4. local'[r].replayed + local'[r].failed = local[r].replayed + local[r].failed + 1
    <2>1. local[r] \in Counts /\ local \in [Runners -> Counts]
        BY DEF TypeOK
    <2>2. local[r].replayed \in Nat /\ local[r].failed \in Nat
        BY <2>1, KeysFinite DEF Counts
    <2>3. \/ local'[r] = [local[r] EXCEPT !.replayed = @ + 1]
          \/ local'[r] = [local[r] EXCEPT !.failed = @ + 1]
        BY <2>1 DEF Publish
    <2> QED BY <2>1, <2>2, <2>3 DEF Counts
<1> HIDE DEF i
<1>5. /\ present[r] \subseteq Nat /\ tried[r] \subseteq Nat /\ present[r] \subseteq store
      /\ \A k \in tried[r] : k <= lastId[r]
      /\ \A k \in present[r] : k <= lastId[r] => k \in tried[r]
      /\ \A k \in present[r] : k > lastId[r] => k \in page[r] \/ \A n \in page[r] : n < k
    BY <1>1, ParameterAssumption DEF TypeOK, Paging
<1>6. \A k \in tried'[r] : k <= lastId'[r]
    BY <1>2, <1>3, <1>5
<1>7. \A k \in page'[r] : k > lastId'[r]
    BY <1>2, <1>3
<1>8. pc'[r] = "publish" => page'[r] # {}
    BY <1>2, <1>3
<1>9. ASSUME NEW k \in present[r], k <= i PROVE k \in tried[r] \cup {i}
    <2>1. CASE k <= lastId[r]
        BY <1>5, <2>1
    <2>2. CASE ~(k <= lastId[r])
        <3>1. k > lastId[r] /\ k \in Nat
            BY <1>2, <1>5, <2>2
        <3>2. CASE k \in page[r]
            BY <1>2, <1>9, <3>1, <3>2
        <3>3. CASE i < k
            BY <1>2, <1>9, <3>1, <3>3
        <3> QED BY <1>2, <1>5, <3>1, <3>2, <3>3
    <2> QED BY <2>1, <2>2
<1>10. ASSUME NEW k \in present[r], k > i, k \notin page[r] \ {i}, NEW n \in page[r] \ {i}
       PROVE  n < k
    <2>1. k > lastId[r] /\ k \notin page[r]
        BY <1>2, <1>5, <1>10
    <2> QED BY <1>5, <2>1
<1>11. pc'[r] \in {"progress", "publish"}
    BY <1>3
<1>12. local'[r].replayed + local'[r].failed = Cardinality(tried'[r])
    BY <1>2, <1>3, <1>4 DEF Paging
<1> QED BY <1>3, <1>5, <1>6, <1>7, <1>8, <1>9, <1>10, <1>11, <1>12 DEF Paging

\* Every step keeps every cursor.
LEMMA PagingNext ==
    ASSUME TypeOK, \A r \in Runners : Paging(r), [Next]_vars
    PROVE  \A r \in Runners : Paging(r)'
<1> SUFFICES ASSUME NEW q \in Runners PROVE Paging(q)'
    OBVIOUS
<1>0. Paging(q) /\ present[q] \subseteq store
    BY DEF Paging
<1>a. ASSUME NEW r \in Runners, Release(r), UNCHANGED store PROVE Paging(q)'
    <2>1. CASE q = r
        BY <1>a, <2>1, ReleasePaging
    <2>2. CASE q # r
        BY <1>0, <1>a, <2>2, SamePaging DEF Same, Release, TypeOK
    <2> QED BY <2>1, <2>2
<1>1. ASSUME NEW j \in Jobs, Create(j) \/ CancelCheck(j) \/ CancelWrite(j) PROVE Paging(q)'
    BY <1>0, <1>1, SamePaging DEF Same, Create, CancelCheck, CancelWrite, runVars, history
<1>2. ASSUME NEW i \in Ids, Insert(i) PROVE Paging(q)'
    BY <1>0, <1>2, SamePaging DEF Same, Insert, runVars, history
<1>3. ASSUME NEW i \in Ids, Delete(i) PROVE Paging(q)'
    <2>1. present'[q] \subseteq present[q] /\ present'[q] \subseteq store' /\ Same(q)
        BY <1>0, <1>3 DEF Same, Delete, runVars
    <2> QED BY <1>0, <2>1, SamePaging
<1>4. ASSUME NEW r \in Runners, NEW j \in Jobs, Claim(r, j) PROVE Paging(q)'
    BY <1>0, <1>4 DEF Paging, Claim, GoTo, TypeOK, history
<1>5. ASSUME NEW r \in Runners, Begin(r) PROVE Paging(q)'
    <2>1. CASE q = r
        <3>1. /\ pc[r] = "claimed" /\ pc'[r] = "page" /\ present'[r] = store /\ store' = store
              /\ lastId'[r] = lastId[r] /\ page'[r] = page[r] /\ local'[r] = local[r]
              /\ tried'[r] = tried[r]
            BY <1>5 DEF Begin, GoTo, TypeOK
        <3>2. \A i \in store : i \in Nat \ {0}
            BY ParameterAssumption DEF TypeOK
        <3>3. \A i \in store : ~(i <= 0)
            BY <3>2
        <3> QED BY <1>0, <2>1, <3>1, <3>3 DEF Paging
    <2>2. CASE q # r
        BY <1>0, <1>5, <2>2, SamePaging DEF Same, Begin, GoTo, TypeOK
    <2> QED BY <2>1, <2>2
<1>6. ASSUME NEW r \in Runners, ReadPage(r) PROVE Paging(q)'
    <2>1. CASE q = r
        BY <1>0, <1>6, <2>1, ReadPaging
    <2>2. CASE q # r
        BY <1>0, <1>6, <2>2, SamePaging DEF Same, ReadPage, GoTo, TypeOK, history
    <2> QED BY <2>1, <2>2
<1>7. ASSUME NEW r \in Runners, Publish(r) PROVE Paging(q)'
    <2>1. CASE q = r
        BY <1>0, <1>7, <2>1, PublishPaging
    <2>2. CASE q # r
        BY <1>0, <1>7, <2>2, SamePaging DEF Same, Publish, GoTo, TypeOK
    <2> QED BY <2>1, <2>2
<1>8. ASSUME NEW r \in Runners, Progress(r) PROVE Paging(q)'
    <2>1. CASE Release(r)
        BY <1>8, <1>a, <2>1 DEF Progress
    <2>2. CASE /\ pc' = [pc EXCEPT ![r] = "page"] \/ pc' = [pc EXCEPT ![r] = "fail"]
               /\ UNCHANGED <<job, lastId, page, local, present, tried>>
        BY <1>0, <1>8, <2>2 DEF Progress, Paging, TypeOK
    <2> QED BY <1>8, <2>1, <2>2 DEF Progress, GoTo
<1>9. ASSUME NEW r \in Runners, Finish(r) PROVE Paging(q)'
    <2>1. CASE Release(r)
        BY <1>9, <1>a, <2>1 DEF Finish
    <2>2. CASE /\ pc' = [pc EXCEPT ![r] = "fail"]
               /\ UNCHANGED <<job, lastId, page, local, present, tried>>
        BY <1>0, <1>9, <2>2 DEF Finish, Paging, TypeOK
    <2> QED BY <1>9, <2>1, <2>2 DEF Finish, GoTo
<1>10. ASSUME NEW r \in Runners, Fail(r) \/ Crash(r) PROVE Paging(q)'
    BY <1>10, <1>a DEF Fail, Crash
<1>11. CASE UNCHANGED vars
    BY <1>0, <1>11, SamePaging DEF Same, vars, runVars, history
<1> QED BY <1>1, <1>2, <1>3, <1>4, <1>5, <1>6, <1>7, <1>8, <1>9, <1>10, <1>11
        DEF Next, RunnerStep

----------------------------------------------------------------------------
(* The counts in the row *)

\* A step that sends nothing and begins nothing: runners leave the job, its row
\* changes under a runner, or its status becomes anything but COMPLETED.
LEMMA QuietRow ==
    ASSUME NEW j \in Jobs, RowTellsSent(j), begun'[j] = begun[j], sent'[j] = sent[j],
           Active(j)' \subseteq Active(j), \A r \in Active(j)' : local'[r] = local[r],
           counts'[j] = counts[j] \/ Active(j) # {},
           status'[j] = status[j] \/ status'[j] # "COMPLETED"
    PROVE  RowTellsSent(j)'
<1>1. CASE begun[j] = 0
    BY <1>1 DEF RowTellsSent
<1>2. CASE begun[j] = 1
    <2>1. ASSUME NEW r \in Active(j)'
          PROVE  /\ Active(j)' = {r} /\ Honest(local'[r], sent'[j])
                 /\ status'[j] # "COMPLETED"
        BY <1>2, <2>1 DEF RowTellsSent
    <2>2. ASSUME status'[j] = "COMPLETED" PROVE Honest(counts'[j], sent'[j])
        BY <1>2, <2>2 DEF RowTellsSent
    <2> QED BY <1>2, <2>1, <2>2 DEF RowTellsSent, Honest
<1>3. CASE begun[j] \notin {0, 1}
    BY <1>3 DEF RowTellsSent
<1> QED BY <1>1, <1>2, <1>3

\* The runner that sends for a job that was begun once is the only one, and it
\* counts what it sends.
LEMMA PublishRow ==
    ASSUME TypeOK, NEW r \in Runners, Publish(r), NEW j \in Jobs, job[r] = j, RowTellsSent(j)
    PROVE  RowTellsSent(j)'
<1>1. /\ job' = job /\ status' = status /\ begun' = begun /\ counts' = counts
      /\ r \in Active(j) /\ Active(j)' = Active(j) /\ begun[j] \in Nat
    BY DEF Publish, GoTo, Active, TypeOK
<1>2. local \in [Runners -> Counts] /\ local[r].replayed \in Nat /\ local[r].failed \in Nat
    BY KeysFinite DEF TypeOK, Counts
<1>3. sent[j] \in Nat /\ sent \in [Jobs -> Nat]
    BY DEF TypeOK
<1>4. CASE begun[j] = 1
    <2>1. Active(j) = {r} /\ Honest(local[r], sent[j]) /\ status[j] # "COMPLETED"
        BY <1>1, <1>4 DEF RowTellsSent
    <2>2. \/ /\ local'[r].replayed = local[r].replayed + 1 /\ local'[r].failed = local[r].failed
             /\ sent'[j] = sent[j] + 1
          \/ /\ local'[r].failed = local[r].failed + 1 /\ local'[r].replayed = local[r].replayed
             /\ sent'[j] \in {sent[j], sent[j] + 1}
        BY <1>2, <1>3 DEF Publish, Counts
    <2>3. Honest(local'[r], sent'[j])
        BY <1>2, <1>3, <2>1, <2>2 DEF Honest
    <2>4. \A q \in Active(j)' : q = r
        BY <1>1, <2>1
    <2>5. \A q \in Active(j)' :
             Active(j)' = {q} /\ Honest(local'[q], sent'[j]) /\ status'[j] # "COMPLETED"
        BY <1>1, <2>1, <2>3, <2>4
    <2>6. begun'[j] = 1 /\ status'[j] # "COMPLETED"
        BY <1>1, <1>4, <2>1
    <2> QED BY <2>5, <2>6 DEF RowTellsSent, Honest
<1>5. CASE begun[j] = 0
    BY <1>1, <1>5 DEF RowTellsSent
<1>6. CASE begun[j] \notin {0, 1}
    BY <1>1, <1>6 DEF RowTellsSent
<1> QED BY <1>4, <1>5, <1>6

\* Every step keeps every row.
LEMMA RowNext ==
    ASSUME TypeOK, \A r \in Runners : Paging(r), [Next]_vars, NEW j \in Jobs,
           \A k \in Jobs : RowTellsSent(k)
    PROVE  RowTellsSent(j)'
<1>0. RowTellsSent(j) /\ NoJob \notin Jobs /\ \A r \in Runners : pc[r] # "poll" => job[r] \in Jobs
    BY ParameterAssumption DEF TypeOK, NoJob
<1>a. ASSUME NEW r \in Runners, Release(r), UNCHANGED <<sent, begun>>,
             counts'[j] = counts[j] \/ r \in Active(j),
             status'[j] = status[j] \/ status'[j] # "COMPLETED"
      PROVE  RowTellsSent(j)'
    <2>1. Active(j)' \subseteq Active(j) \ {r}
        BY <1>0, <1>a DEF Active, Release, TypeOK
    <2>2. \A q \in Active(j)' : local'[q] = local[q]
        BY <1>a, <2>1 DEF Release, Active, TypeOK
    <2> QED BY <1>0, <1>a, <2>1, <2>2, QuietRow
<1>1. ASSUME NEW k \in Jobs, Create(k) \/ CancelCheck(k) \/ CancelWrite(k) PROVE RowTellsSent(j)'
    <2>1. Active(j)' = Active(j) /\ UNCHANGED <<begun, sent, local, counts>>
        BY <1>1 DEF Active, Create, CancelCheck, CancelWrite, runVars, history
    <2>2. status'[j] = status[j] \/ status'[j] # "COMPLETED"
        BY <1>1 DEF Create, CancelCheck, CancelWrite, TypeOK
    <2> QED BY <1>0, <2>1, <2>2, QuietRow
<1>2. CASE \/ \E i \in Ids : Insert(i) \/ Delete(i)
           \/ UNCHANGED vars
    <2>1. Active(j)' = Active(j) /\ UNCHANGED <<begun, sent, local, counts, status>>
        BY <1>2 DEF Active, Insert, Delete, runVars, history, vars
    <2> QED BY <1>0, <2>1, QuietRow
<1>3. ASSUME NEW r \in Runners, NEW k \in Jobs, Claim(r, k) PROVE RowTellsSent(j)'
    <2>1. Active(j)' \subseteq Active(j) /\ UNCHANGED <<begun, sent, local, counts, status>>
        BY <1>3 DEF Active, Claim, GoTo, history, TypeOK
    <2> QED BY <1>0, <2>1, QuietRow
<1>4. ASSUME NEW r \in Runners, Begin(r) PROVE RowTellsSent(j)'
    <2>1. pc[r] = "claimed" /\ job[r] \in Jobs /\ UNCHANGED <<job, sent, local, counts>>
        BY <1>0, <1>4 DEF Begin
    <2>2. CASE job[r] # j
        <3>1. Active(j)' = Active(j) /\ begun'[j] = begun[j] /\ status'[j] = status[j]
            BY <1>4, <2>1, <2>2 DEF Active, Begin, GoTo, TypeOK
        <3> QED BY <1>0, <2>1, <3>1, QuietRow
    <2>3. CASE job[r] = j
        <3>1. /\ begun[j] \in Nat /\ begun'[j] = begun[j] + 1 /\ status'[j] = "RUNNING"
              /\ Active(j)' = Active(j) \cup {r}
            BY <1>4, <2>1, <2>3 DEF Active, Begin, GoTo, TypeOK
        <3>2. CASE begun[j] = 0
            <4>1. Active(j)' = {r} /\ sent'[j] = 0 /\ local'[r] = NoCounts
                BY <1>0, <2>1, <3>1, <3>2 DEF RowTellsSent, Paging
            <4>2. Honest(local'[r], sent'[j])
                BY <4>1 DEF Honest, NoCounts
            <4>3. \A q \in Active(j)' : q = r
                BY <4>1
            <4>4. begun'[j] = 1
                BY <3>1, <3>2
            <4> QED BY <3>1, <4>1, <4>2, <4>3, <4>4 DEF RowTellsSent, Honest
        <3>3. CASE begun[j] # 0
            <4>1. begun'[j] \notin {0, 1}
                BY <3>1, <3>3
            <4> QED BY <4>1 DEF RowTellsSent
        <3> QED BY <3>2, <3>3
    <2> QED BY <2>2, <2>3
<1>5. ASSUME NEW r \in Runners, ReadPage(r) PROVE RowTellsSent(j)'
    <2>1. Active(j)' = Active(j) /\ UNCHANGED <<begun, sent, local, counts, status>>
        BY <1>5 DEF Active, ReadPage, GoTo, history, TypeOK
    <2> QED BY <1>0, <2>1, QuietRow
<1>6. ASSUME NEW r \in Runners, Publish(r) PROVE RowTellsSent(j)'
    <2>1. job[r] \in Jobs
        BY <1>0, <1>6 DEF Publish
    <2>2. CASE job[r] # j
        <3>1. Active(j)' = Active(j) /\ UNCHANGED <<begun, counts, status>> /\ sent'[j] = sent[j]
            BY <1>6, <2>1, <2>2 DEF Active, Publish, GoTo, TypeOK
        <3>2. \A q \in Active(j)' : local'[q] = local[q]
            BY <1>6, <2>2, <3>1 DEF Active, Publish, TypeOK
        <3> QED BY <1>0, <3>1, <3>2, QuietRow
    <2>3. CASE job[r] = j
        BY <1>0, <1>6, <2>3, PublishRow
    <2> QED BY <2>2, <2>3
<1>7. ASSUME NEW r \in Runners, Progress(r) PROVE RowTellsSent(j)'
    <2>1. CASE Release(r) /\ UNCHANGED counts
        BY <1>7, <1>a, <2>1 DEF Progress
    <2>2. CASE /\ pc' = [pc EXCEPT ![r] = "page"] \/ pc' = [pc EXCEPT ![r] = "fail"]
               /\ UNCHANGED <<job, lastId, page, local, present, tried>>
               /\ UNCHANGED counts \/ counts' = [counts EXCEPT ![job[r]] = local[r]]
        <3>1. /\ Active(j)' = Active(j) /\ UNCHANGED <<begun, sent, local, status>>
              /\ r \in Active(job[r])
            BY <1>7, <2>2 DEF Active, Progress, TypeOK
        <3>2. counts'[j] = counts[j] \/ r \in Active(j)
            BY <2>2, <3>1 DEF TypeOK
        <3> QED BY <1>0, <3>1, <3>2, QuietRow
    <2> QED BY <1>7, <2>1, <2>2 DEF Progress, GoTo
<1>8. ASSUME NEW r \in Runners, Finish(r) PROVE RowTellsSent(j)'
    <2>1. /\ pc[r] = "finish" /\ job[r] \in Jobs /\ r \in Active(job[r])
          /\ UNCHANGED <<sent, begun>>
        BY <1>0, <1>8 DEF Finish, Active
    <2>2. CASE GoTo(r, "fail") /\ UNCHANGED <<status, counts, job, lastId, page, local, present, tried>>
        <3>1. Active(j)' = Active(j)
            BY <2>1, <2>2 DEF Active, GoTo, TypeOK
        <3> QED BY <1>0, <2>1, <2>2, <3>1, QuietRow
    <2>3. CASE /\ status' = [status EXCEPT ![job[r]] = "COMPLETED"]
               /\ counts' = [counts EXCEPT ![job[r]] = local[r]]
               /\ Release(r)
        <3>1. CASE job[r] # j
            BY <1>a, <2>1, <2>3, <3>1 DEF TypeOK
        <3>2. CASE job[r] = j
            <4>1. /\ Active(j)' \subseteq Active(j) \ {r} /\ counts'[j] = local[r]
                  /\ begun[j] \in Nat
                BY <1>0, <2>1, <2>3, <3>2 DEF Active, Release, TypeOK
            <4>2. begun[j] # 0
                BY <1>0, <2>1, <3>2 DEF RowTellsSent
            <4>3. begun[j] = 1 => Active(j)' = {} /\ Honest(counts'[j], sent'[j])
                BY <1>0, <2>1, <3>2, <4>1 DEF RowTellsSent
            <4> QED BY <2>1, <4>2, <4>3 DEF RowTellsSent, Honest
        <3> QED BY <3>1, <3>2
    <2> QED BY <1>8, <2>2, <2>3 DEF Finish
<1>9. ASSUME NEW r \in Runners, Fail(r) PROVE RowTellsSent(j)'
    <2>1. /\ job[r] \in Jobs /\ UNCHANGED <<sent, begun>> /\ Release(r)
          /\ counts'[j] = counts[j] \/ r \in Active(j)
          /\ status'[j] = status[j] \/ status'[j] # "COMPLETED"
        BY <1>0, <1>9 DEF Fail, Active, TypeOK
    <2> QED BY <1>a, <2>1
<1>10. ASSUME NEW r \in Runners, Crash(r) PROVE RowTellsSent(j)'
    BY <1>10, <1>a DEF Crash
<1> QED BY <1>1, <1>2, <1>3, <1>4, <1>5, <1>6, <1>7, <1>8, <1>9, <1>10 DEF Next, RunnerStep

----------------------------------------------------------------------------
(* Messages after a cancel *)

Limit == BatchSize * Cardinality(Runners)

\* All runners together never have more than a page each in hand.
LEMMA BudgetBound ==
    ASSUME NEW j
    PROVE  /\ IsFiniteSet(Budget(j)) /\ Cardinality(Budget(j)) \in Nat
           /\ Cardinality(Budget(j)) <= Limit /\ Limit \in Nat
<1>1. /\ IsFiniteSet(1..BatchSize) /\ Cardinality(1..BatchSize) = BatchSize
      /\ BatchSize \in Nat
    BY FS_Interval, ParameterAssumption
<1>2. IsFiniteSet(Runners) /\ Cardinality(Runners) \in Nat
    BY FS_CardinalityType, ParameterAssumption
<1>3. /\ IsFiniteSet(Runners \X (1..BatchSize))
      /\ Cardinality(Runners \X (1..BatchSize)) = Cardinality(Runners) * BatchSize
    BY <1>1, <1>2, FS_Product
<1>4. Cardinality(Runners) * BatchSize = Limit /\ Limit \in Nat
    BY <1>1, <1>2 DEF Limit
<1>5. Budget(j) \in SUBSET (Runners \X (1..BatchSize))
    BY DEF Budget
<1> QED BY <1>3, <1>4, <1>5, FS_Subset, FS_CardinalityType

\* A step that sends nothing, and gives no runner a new page while the job is
\* cancelled.
LEMMA QuietBudget ==
    ASSUME TypeOK, NEW j \in Jobs, WithinBudget(j), afterCancel'[j] = afterCancel[j],
           status'[j] = "CANCELLED" => status[j] = "CANCELLED" /\ Budget(j)' \subseteq Budget(j)
    PROVE  WithinBudget(j)'
<1>1. afterCancel[j] \in Nat
    BY DEF TypeOK
<1>2. CASE status'[j] # "CANCELLED"
    BY <1>2 DEF WithinBudget
<1>3. CASE status'[j] = "CANCELLED"
    <2>1. IsFiniteSet(Budget(j)) /\ Cardinality(Budget(j)) \in Nat /\ Limit \in Nat
        BY BudgetBound
    <2>2. Cardinality(Budget(j)') <= Cardinality(Budget(j)) /\ Cardinality(Budget(j)') \in Nat
        BY <1>3, <2>1, FS_Subset, FS_CardinalityType
    <2>3. /\ afterCancel[j] + Cardinality(Budget(j)) <= Limit
          /\ afterCancel[j] <= Limit
        BY <1>3 DEF WithinBudget, Limit
    <2>4. afterCancel'[j] + Cardinality(Budget(j)') <= Limit /\ afterCancel'[j] <= Limit
        BY <1>1, <2>1, <2>2, <2>3
    <2> QED BY <2>4 DEF WithinBudget, Limit
<1> QED BY <1>2, <1>3

\* A message sent is one row less in hand.
LEMMA PublishBudget ==
    ASSUME TypeOK, NEW r \in Runners, Paging(r), Publish(r), NEW j \in Jobs, job[r] = j,
           WithinBudget(j)
    PROVE  WithinBudget(j)'
<1> DEFINE i == Min(page[r])
           n == Cardinality(page[r])
<1>1. pc[r] = "publish" /\ status' = status /\ job' = job
    BY DEF Publish
<1>2. /\ i \in page[r] /\ IsFiniteSet(page[r]) /\ n \in Nat
      /\ Cardinality(page[r] \ {i}) = n - 1 /\ n <= BatchSize /\ BatchSize \in Nat
    BY <1>1, NextKey, ParameterAssumption DEF TypeOK
<1>3. n # 0
    BY <1>2, FS_EmptySet
<1>4. page[r] = {i} => n = 1
    BY FS_Singleton
<1>5. /\ pc' = [pc EXCEPT ![r] = IF page[r] = {i} THEN "progress" ELSE "publish"]
      /\ page' = [page EXCEPT ![r] = page[r] \ {i}]
    BY DEF Publish, GoTo
<1> HIDE DEF i
<1>6. <<r, n>> \in Budget(j)
    BY <1>1, <1>2, <1>3 DEF Budget
<1>7. Budget(j)' \subseteq Budget(j) \ {<<r, n>>}
    <2> SUFFICES ASSUME NEW p \in Budget(j)' PROVE p \in Budget(j) /\ p # <<r, n>>
        OBVIOUS
    <2>1. /\ p \in Runners \X (1..BatchSize) /\ job[p[1]] = j
          /\ \/ pc'[p[1]] = "page"
             \/ pc'[p[1]] = "publish" /\ p[2] <= Cardinality(page'[p[1]])
        BY <1>1 DEF Budget
    <2>2. CASE p[1] # r
        <3>1. pc'[p[1]] = pc[p[1]] /\ page'[p[1]] = page[p[1]]
            BY <1>5, <2>1, <2>2 DEF TypeOK
        <3> QED BY <2>1, <2>2, <3>1 DEF Budget
    <2>3. CASE p[1] = r
        <3>1. page'[r] = page[r] \ {i} /\ pc'[r] \in {"progress", "publish"}
            BY <1>5 DEF TypeOK
        <3>2. p[2] <= n - 1 /\ p[2] \in 1..BatchSize
            BY <1>2, <2>1, <2>3, <3>1
        <3>3. p[2] <= n /\ p[2] # n
            BY <1>2, <3>2
        <3> QED BY <1>1, <2>1, <2>3, <3>3 DEF Budget
    <2> QED BY <2>2, <2>3
<1> HIDE DEF n
<1>8. afterCancel[j] \in Nat /\ afterCancel \in [Jobs -> Nat]
    BY DEF TypeOK
<1>9. CASE status[j] # "CANCELLED"
    <2>1. afterCancel'[j] = afterCancel[j]
        BY <1>9 DEF Publish
    <2> QED BY <1>1, <1>9, <2>1, QuietBudget
<1>10. CASE status[j] = "CANCELLED"
    <2>1. afterCancel'[j] \in {afterCancel[j], afterCancel[j] + 1}
        BY <1>8 DEF Publish
    <2>2. IsFiniteSet(Budget(j)) /\ Cardinality(Budget(j)) \in Nat /\ Limit \in Nat
        BY BudgetBound
    <2>3. /\ IsFiniteSet(Budget(j) \ {<<r, n>>})
          /\ Cardinality(Budget(j) \ {<<r, n>>}) = Cardinality(Budget(j)) - 1
        BY <1>6, <2>2, FS_RemoveElement
    <2>4. /\ Cardinality(Budget(j)') <= Cardinality(Budget(j)) - 1
          /\ Cardinality(Budget(j)') \in Nat
        BY <1>7, <2>3, FS_Subset, FS_CardinalityType
    <2>5. /\ afterCancel[j] + Cardinality(Budget(j)) <= Limit
          /\ afterCancel[j] <= Limit
        BY <1>10 DEF WithinBudget, Limit
    <2>6. afterCancel'[j] + Cardinality(Budget(j)') <= Limit /\ afterCancel'[j] <= Limit
        BY <1>8, <2>1, <2>2, <2>4, <2>5
    <2> QED BY <2>6 DEF WithinBudget, Limit
<1> QED BY <1>9, <1>10

\* Every step stays within the budget.
LEMMA BudgetNext ==
    ASSUME TypeOK, \A r \in Runners : Paging(r), [Next]_vars, NEW j \in Jobs, WithinBudget(j),
           TypeOK'
    PROVE  WithinBudget(j)'
<1>0. NoJob \notin Jobs /\ \A r \in Runners : pc[r] # "poll" => job[r] \in Jobs
    BY ParameterAssumption DEF TypeOK, NoJob
<1>a. ASSUME NEW r \in Runners, Release(r), UNCHANGED afterCancel,
             status'[j] = status[j] \/ status'[j] # "CANCELLED"
      PROVE  WithinBudget(j)'
    <2>1. /\ pc'[r] = "poll"
          /\ \A q \in Runners \ {r} : pc'[q] = pc[q] /\ job'[q] = job[q] /\ page'[q] = page[q]
        BY <1>a DEF Release, TypeOK
    <2>2. Budget(j)' \subseteq Budget(j)
        BY <2>1 DEF Budget
    <2> QED BY <1>a, <2>2, QuietBudget
<1>1. ASSUME NEW k \in Jobs, Create(k) \/ CancelCheck(k) PROVE WithinBudget(j)'
    <2>1. /\ Budget(j)' = Budget(j) /\ UNCHANGED afterCancel
          /\ status'[j] = "CANCELLED" => status[j] = "CANCELLED"
        BY <1>1 DEF Budget, Create, CancelCheck, runVars, history, TypeOK
    <2> QED BY <2>1, QuietBudget
<1>2. ASSUME NEW k \in Jobs, CancelWrite(k) PROVE WithinBudget(j)'
    <2>1. CASE k # j
        <3>1. /\ Budget(j)' = Budget(j) /\ afterCancel'[j] = afterCancel[j]
              /\ status'[j] = status[j]
            BY <1>2, <2>1 DEF Budget, CancelWrite, runVars, TypeOK
        <3> QED BY <3>1, QuietBudget
    <2>2. CASE k = j
        <3>1. afterCancel'[j] = 0
            BY <1>2, <2>2 DEF CancelWrite, TypeOK
        <3>2. Budget(j)' = Budget(j)
            BY <1>2 DEF Budget, CancelWrite, runVars
        <3>3. /\ Cardinality(Budget(j)) \in Nat /\ Limit \in Nat
              /\ Cardinality(Budget(j)) <= Limit
            BY BudgetBound
        <3>4. /\ afterCancel'[j] + Cardinality(Budget(j)') <= Limit
              /\ afterCancel'[j] <= Limit
            BY <3>1, <3>2, <3>3
        <3> QED BY <3>4 DEF WithinBudget, Limit
    <2> QED BY <2>1, <2>2
<1>3. CASE \/ \E i \in Ids : Insert(i) \/ Delete(i)
           \/ UNCHANGED vars
    <2>1. Budget(j)' = Budget(j) /\ UNCHANGED <<afterCancel, status>>
        BY <1>3 DEF Budget, Insert, Delete, runVars, history, vars
    <2> QED BY <2>1, QuietBudget
<1>4. ASSUME NEW r \in Runners, NEW k \in Jobs, Claim(r, k) PROVE WithinBudget(j)'
    <2>1. /\ pc'[r] = "claimed"
          /\ \A q \in Runners \ {r} : pc'[q] = pc[q] /\ job'[q] = job[q]
          /\ UNCHANGED <<afterCancel, status, page>>
        BY <1>4 DEF Claim, GoTo, TypeOK, history
    <2>2. Budget(j)' \subseteq Budget(j)
        BY <2>1 DEF Budget
    <2> QED BY <2>1, <2>2, QuietBudget
<1>5. ASSUME NEW r \in Runners, Begin(r) PROVE WithinBudget(j)'
    <2>1. /\ job[r] \in Jobs /\ UNCHANGED <<job, page, afterCancel>>
          /\ \A q \in Runners \ {r} : pc'[q] = pc[q]
        BY <1>0, <1>5 DEF Begin, GoTo, TypeOK
    <2>2. CASE job[r] = j
        <3>1. status'[j] = "RUNNING"
            BY <1>5, <2>2 DEF Begin, TypeOK
        <3> QED BY <2>1, <3>1, QuietBudget
    <2>3. CASE job[r] # j
        <3>1. status'[j] = status[j]
            BY <1>5, <2>1, <2>3 DEF Begin, TypeOK
        <3>2. Budget(j)' \subseteq Budget(j)
            BY <2>1, <2>3 DEF Budget
        <3> QED BY <2>1, <3>1, <3>2, QuietBudget
    <2> QED BY <2>2, <2>3
<1>6. ASSUME NEW r \in Runners, ReadPage(r) PROVE WithinBudget(j)'
    <2>1. /\ pc[r] = "page" /\ UNCHANGED <<job, afterCancel, status>>
          /\ \A q \in Runners \ {r} : pc'[q] = pc[q] /\ page'[q] = page[q]
        BY <1>6 DEF ReadPage, GoTo, TypeOK, history
    <2>2. Budget(j)' \subseteq Budget(j)
        BY <2>1 DEF Budget
    <2> QED BY <2>1, <2>2, QuietBudget
<1>7. ASSUME NEW r \in Runners, Publish(r) PROVE WithinBudget(j)'
    <2>1. job[r] \in Jobs
        BY <1>0, <1>7 DEF Publish
    <2>2. CASE job[r] # j
        <3>1. /\ UNCHANGED <<job, status>> /\ afterCancel'[j] = afterCancel[j]
              /\ \A q \in Runners \ {r} : pc'[q] = pc[q] /\ page'[q] = page[q]
            BY <1>7, <2>1, <2>2 DEF Publish, GoTo, TypeOK
        <3>2. Budget(j)' \subseteq Budget(j)
            BY <2>2, <3>1 DEF Budget
        <3> QED BY <3>1, <3>2, QuietBudget
    <2>3. CASE job[r] = j
        BY <1>7, <2>3, PublishBudget
    <2> QED BY <2>2, <2>3
<1>8. ASSUME NEW r \in Runners, Progress(r) PROVE WithinBudget(j)'
    <2>1. CASE Release(r)
        BY <1>8, <1>a, <2>1 DEF Progress
    <2>2. CASE /\ pc' = [pc EXCEPT ![r] = "fail"] \/ status[job[r]] # "CANCELLED"
               /\ \A q \in Runners \ {r} : pc'[q] = pc[q]
               /\ UNCHANGED <<job, page>>
        <3>1. UNCHANGED <<status, afterCancel>>
            BY <1>8 DEF Progress
        <3>2. CASE job[r] = j /\ status[j] # "CANCELLED"
            BY <3>1, <3>2, QuietBudget
        <3>3. CASE job[r] # j \/ status[j] = "CANCELLED"
            <4>1. job[r] # j \/ pc'[r] = "fail"
                BY <2>2, <3>3 DEF TypeOK
            <4>2. Budget(j)' \subseteq Budget(j)
                BY <2>2, <4>1 DEF Budget
            <4> QED BY <3>1, <4>2, QuietBudget
        <3> QED BY <3>2, <3>3
    <2>3. CASE ~Release(r)
        <3>1. /\ pc' = [pc EXCEPT ![r] = "fail"] \/ status[job[r]] # "CANCELLED"
              /\ pc' = [pc EXCEPT ![r] = "fail"] \/ pc' = [pc EXCEPT ![r] = "page"]
              /\ UNCHANGED <<job, page>>
            BY <1>8, <2>3 DEF Progress, GoTo
        <3>2. \A q \in Runners \ {r} : pc'[q] = pc[q]
            BY <3>1 DEF TypeOK
        <3> QED BY <2>2, <3>1, <3>2
    <2> QED BY <2>1, <2>3
<1>9. ASSUME NEW r \in Runners, Finish(r) PROVE WithinBudget(j)'
    <2>1. job[r] \in Jobs /\ UNCHANGED afterCancel
        BY <1>0, <1>9 DEF Finish
    <2>2. CASE Release(r) /\ status' = [status EXCEPT ![job[r]] = "COMPLETED"]
        BY <1>a, <2>1, <2>2 DEF TypeOK
    <2>3. CASE GoTo(r, "fail") /\ UNCHANGED <<status, job, page>>
        <3>1. pc'[r] = "fail" /\ \A q \in Runners \ {r} : pc'[q] = pc[q]
            BY <2>3 DEF GoTo, TypeOK
        <3>2. Budget(j)' \subseteq Budget(j)
            BY <2>3, <3>1 DEF Budget
        <3> QED BY <2>1, <2>3, <3>2, QuietBudget
    <2> QED BY <1>9, <2>2, <2>3 DEF Finish
<1>10. ASSUME NEW r \in Runners, Fail(r) \/ Crash(r) PROVE WithinBudget(j)'
    <2>1. /\ Release(r) /\ UNCHANGED afterCancel
          /\ status'[j] = status[j] \/ status'[j] # "CANCELLED"
        BY <1>0, <1>10 DEF Fail, Crash, TypeOK
    <2> QED BY <1>a, <2>1
<1> QED BY <1>1, <1>2, <1>3, <1>4, <1>5, <1>6, <1>7, <1>8, <1>9, <1>10 DEF Next, RunnerStep

----------------------------------------------------------------------------
(* The theorems *)

\* Nothing is claimed, begun or sent at the start.
LEMMA IndInit == Init => IndInv
<1> SUFFICES ASSUME Init PROVE IndInv
    OBVIOUS
<1>1. /\ NoCounts \in Counts /\ NoJob \notin Jobs /\ Cardinality({}) = 0 /\ BatchSize \in Nat
      /\ NoCounts.replayed + NoCounts.failed = 0 /\ InitialIds \subseteq Ids
      /\ MaxCrashes \in Nat /\ MaxChanges \in Nat
    BY NoCountsType, FS_EmptySet, ParameterAssumption DEF NoJob, NoCounts
<1>2. TypeOK
    BY <1>1 DEF Init, TypeOK, Statuses
<1>3. \A r \in Runners : Paging(r)
    BY <1>1 DEF Init, Paging
<1>4. \A j \in Jobs : RowTellsSent(j)
    BY DEF Init, RowTellsSent, Active
<1>5. ASSUME NEW j \in Jobs PROVE WithinBudget(j)
    <2>1. Limit \in Nat
        BY BudgetBound
    <2> QED BY <2>1 DEF Init, WithinBudget, Limit
<1> QED BY <1>2, <1>3, <1>4, <1>5 DEF IndInv

\* Every step preserves the inductive invariant: its parts, lemma by lemma.
LEMMA IndNext == IndInv /\ [Next]_vars => IndInv'
<1> SUFFICES ASSUME IndInv, [Next]_vars PROVE IndInv'
    OBVIOUS
<1> USE DEF IndInv
<1>1. TypeOK'
    BY TypeNext
<1>2. \A r \in Runners : Paging(r)'
    BY PagingNext
<1>3. \A j \in Jobs : RowTellsSent(j)' /\ WithinBudget(j)'
    BY <1>1, RowNext, BudgetNext
<1> QED BY <1>1, <1>2, <1>3

\* It holds in every reachable state.
LEMMA Invariance == Spec => []IndInv
BY IndInit, IndNext, PTL DEF Spec

\* Paging by key misses nothing: a run that reaches its end has handled every event
\* that was stored from its beginning on, for every page size and every pattern of
\* inserts and deletes between the pages.
THEOREM CompletedSafety == Spec => []CompletedCoversRange
<1>1. IndInv => CompletedCoversRange
    BY DEF IndInv, Paging, CompletedCoversRange
<1> QED BY <1>1, Invariance, PTL

\* A runner counts every event it handles once, and the row of a completed job that
\* was begun once brackets the number of messages on events.replay.
THEOREM CountsSafety == Spec => []CountsAreHonest
<1>1. IndInv => CountsAreHonest
    BY DEF IndInv, Paging, RowTellsSent, Honest, CountsAreHonest
<1> QED BY <1>1, Invariance, PTL

\* While a job is CANCELLED the runners send at most a page each, however the cancel
\* falls between a runner's steps.
THEOREM CancelSafety == Spec => []CancelStopsWithinAPage
<1>1. IndInv => CancelStopsWithinAPage
    BY DEF IndInv, WithinBudget, CancelStopsWithinAPage
<1> QED BY <1>1, Invariance, PTL
=============================================================================
