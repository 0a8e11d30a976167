-------------------------- MODULE IngestionProofs --------------------------
(***************************************************************************)
(* Machine-checked proofs about Ingestion, for every set of requests and   *)
(* events, every mixture of malformed, forbidden, undated and invalid      *)
(* events, every fault set and bound.                                      *)
(***************************************************************************)
EXTENDS Ingestion, FiniteSetTheorems, TLAPS

\* The part of the invariant that is about a request's progress.
ReqOK ==
    /\ pc \in [Requests -> Steps]
    /\ endpoint \in [Requests -> {"one", "batch"}]
    /\ items \in [Requests -> Seq(Events)]
    /\ \A r \in Requests : Len(items[r]) <= MaxBatch
    /\ at \in [Requests -> 1..(MaxBatch + 1)]
    /\ results \in [Requests -> Seq(Outcomes)]
    /\ \A r \in Requests : pc[r] # "over" => Len(results[r]) = at[r] - 1
    /\ AtAnItem

\* The rest of the type invariant: what the requests share.
SharedOK ==
    /\ rows \in [Requests -> SUBSET Events]
    /\ answered \subseteq Events \X Outcomes
    /\ reserved \subseteq Events
    /\ raw \in [Events -> Nat] /\ validated \in [Events -> Nat]
    /\ dlqTopic \subseteq Events /\ dlqTable \subseteq Events
    /\ unreserved \in [Events -> Nat]
    /\ crashes \in 0..MaxCrashes /\ expiries \in 0..MaxExpiries

LEMMA TypeSplits == (TypeOK /\ AtAnItem) <=> (ReqOK /\ SharedOK)
BY DEF TypeOK, ReqOK, SharedOK

\* An element of a sequence over S is in S.
LEMMA ElementOf ==
    ASSUME NEW S, NEW q \in Seq(S), NEW i \in 1..Len(q) PROVE q[i] \in S
OBVIOUS

\* The event in hand is one of the producer's.
LEMMA ItemType ==
    ASSUME ReqOK, NEW r \in Requests, pc[r] \in Working PROVE Item(r) \in Events
<1>1. items[r] \in Seq(Events) /\ at[r] \in 1..Len(items[r])
    BY ParameterAssumption DEF ReqOK, AtAnItem
<1> QED BY <1>1, ElementOf DEF Item

----------------------------------------------------------------------------
(* The progress of a request *)

\* Going on to another step with the same event.
LEMMA GoToKeeps ==
    ASSUME ReqOK, NEW r \in Requests, pc[r] \in Working, NEW step \in Working, GoTo(r, step)
    PROVE  ReqOK'
BY DEF ReqOK, AtAnItem, GoTo, Working, Steps

\* The response: the request is over with its results.
LEMMA RespondKeeps ==
    ASSUME ReqOK, NEW r \in Requests, pc[r] = "commit", GoTo(r, "over")
    PROVE  ReqOK'
BY ParameterAssumption DEF ReqOK, AtAnItem, GoTo, Working, Steps

\* An error or a crash: the request is over without results.
LEMMA AbortKeeps ==
    ASSUME ReqOK, NEW r \in Requests, Abort(r) PROVE ReqOK'
BY DEF ReqOK, AtAnItem, Abort, Working, Steps

\* One more result, and the next event or the commit.
LEMMA FinishKeeps ==
    ASSUME ReqOK, NEW r \in Requests, pc[r] \in Working, NEW outcome \in Outcomes,
           Finish(r, outcome)
    PROVE  ReqOK'
<1>1. /\ at[r] \in 1..Len(items[r]) /\ Len(items[r]) \in Nat /\ Len(items[r]) <= MaxBatch
      /\ results[r] \in Seq(Outcomes) /\ Len(results[r]) = at[r] - 1
    BY ParameterAssumption DEF ReqOK, AtAnItem, Working
<1>2. /\ Append(results[r], outcome) \in Seq(Outcomes)
      /\ Len(Append(results[r], outcome)) = at[r]
    BY <1>1
<1>3. /\ results' = [results EXCEPT ![r] = Append(results[r], outcome)]
      /\ at' = [at EXCEPT ![r] = at[r] + 1]
      /\ pc' = [pc EXCEPT ![r] = IF at[r] < Len(items[r]) THEN "parse" ELSE "commit"]
      /\ UNCHANGED <<endpoint, items>>
    BY DEF Finish
<1>4. at[r] + 1 \in 1..(MaxBatch + 1)
    BY <1>1, ParameterAssumption
<1> QED BY <1>1, <1>2, <1>3, <1>4 DEF ReqOK, AtAnItem, Working, Steps

\* A request body: one to MaxBatch events.
LEMMA BatchType ==
    ASSUME NEW batch \in SeqOf(Events, MaxBatch) \ {<<>>}
    PROVE  batch \in Seq(Events) /\ Len(batch) \in 1..MaxBatch
<1>1. PICK n \in 0..MaxBatch : batch \in [1..n -> Events]
    BY DEF SeqOf
<1>2. n \in Nat /\ batch \in Seq(Events) /\ Len(batch) = n
    BY <1>1, ParameterAssumption
<1>3. n # 0
    BY <1>1, <1>2
<1> QED BY <1>1, <1>2, <1>3, ParameterAssumption

\* A new request starts at its first event.
LEMMA SubmitKeeps ==
    ASSUME ReqOK, NEW r \in Requests, NEW kind \in {"one", "batch"},
           NEW batch \in SeqOf(Events, MaxBatch) \ {<<>>}, Submit(r, kind, batch)
    PROVE  ReqOK'
<1>1. batch \in Seq(Events) /\ Len(batch) \in 1..MaxBatch
    BY BatchType
<1> QED BY <1>1, ParameterAssumption DEF ReqOK, AtAnItem, Submit, Working, Steps

\* A rejection either ends the request or is one of its results.
LEMMA RejectKeeps ==
    ASSUME ReqOK, NEW r \in Requests, pc[r] \in Working, NEW kept, Reject(r, kept)
    PROVE  ReqOK'
BY AbortKeeps, FinishKeeps DEF Reject, Outcomes

\* Every step of a request keeps its progress well formed.
LEMMA ProgressNext == ReqOK /\ [Next]_vars => ReqOK'
<1> SUFFICES ASSUME ReqOK, [Next]_vars PROVE ReqOK'
    OBVIOUS
<1> USE DEF Outcomes
<1>1. ASSUME NEW r \in Requests, Parse(r) PROVE ReqOK'
    BY <1>1, GoToKeeps, AbortKeeps, RejectKeeps DEF Parse, Working, Steps
<1>2. ASSUME NEW r \in Requests, Reserve(r) PROVE ReqOK'
    BY <1>2, GoToKeeps, FinishKeeps DEF Reserve, Working, Steps
<1>3. ASSUME NEW r \in Requests, Validate(r) PROVE ReqOK'
    BY <1>3, GoToKeeps, AbortKeeps DEF Validate, Working, Steps
<1>4. ASSUME NEW r \in Requests, PublishRaw(r) PROVE ReqOK'
    BY <1>4, GoToKeeps, AbortKeeps DEF PublishRaw, Working, Steps
<1>5. ASSUME NEW r \in Requests, PublishValidated(r) PROVE ReqOK'
    BY <1>5, FinishKeeps, AbortKeeps DEF PublishValidated, Working, Steps
<1>6. ASSUME NEW r \in Requests, DlqPublish(r) PROVE ReqOK'
    BY <1>6, GoToKeeps DEF DlqPublish, Working, Steps
<1>7. ASSUME NEW r \in Requests, DlqInsert(r) PROVE ReqOK'
    BY <1>7, FinishKeeps, RejectKeeps DEF DlqInsert, Working, Steps
<1>8. ASSUME NEW r \in Requests, Commit(r) PROVE ReqOK'
    BY <1>8, RespondKeeps, AbortKeeps DEF Commit
<1>9. ASSUME NEW r \in Requests, Crash(r) PROVE ReqOK'
    BY <1>9, AbortKeeps DEF Crash
<1>10. CASE UNCHANGED reqVars
    BY <1>10 DEF reqVars, ReqOK, AtAnItem
<1> QED BY <1>1, <1>2, <1>3, <1>4, <1>5, <1>6, <1>7, <1>8, <1>9, <1>10, SubmitKeeps
        DEF Next, RequestStep, Expire, Done, vars

\* Results are about events of the request.
LEMMA ResultType ==
    ASSUME ReqOK, NEW r \in Requests, NEW k \in 1..Len(results[r])
    PROVE  items[r][k] \in Events /\ results[r][k] \in Outcomes
<1>1. /\ items[r] \in Seq(Events) /\ results[r] \in Seq(Outcomes)
      /\ Len(items[r]) \in Nat /\ Len(results[r]) \in Nat
    BY DEF ReqOK
<1>2. Len(results[r]) <= Len(items[r])
    <2>1. at[r] \in 1..(MaxBatch + 1) /\ pc[r] \in Steps
        BY DEF ReqOK
    <2>2. CASE pc[r] = "idle"
        BY <1>1, <2>1, <2>2 DEF ReqOK, AtAnItem
    <2>3. CASE pc[r] \in Working
        BY <1>1, <2>1, <2>3, ParameterAssumption DEF ReqOK, AtAnItem, Working
    <2>4. CASE pc[r] \in {"commit", "over"}
        BY <1>1, <2>1, <2>4, ParameterAssumption DEF ReqOK, AtAnItem
    <2> QED BY <2>1, <2>2, <2>3, <2>4 DEF Working
<1> QED BY <1>1, <1>2, ElementOf

\* Every step keeps the types of what the requests share.
LEMMA SharedNext == ReqOK /\ SharedOK /\ [Next]_vars => SharedOK'
<1> SUFFICES ASSUME ReqOK, SharedOK, [Next]_vars PROVE SharedOK'
    OBVIOUS
<1> USE ParameterAssumption DEF SharedOK, busVars
<1>0. ASSUME NEW r \in Requests, NEW kept \in SUBSET Events, Reject(r, kept)
      PROVE  rows' \in [Requests -> SUBSET Events]
    BY <1>0 DEF Reject, Abort
<1>1. ASSUME NEW r \in Requests, Parse(r) PROVE SharedOK'
    <2>1. rows[r] \in SUBSET Events
        OBVIOUS
    <2> QED BY <1>0, <1>1, <2>1 DEF Parse, Abort
<1>2. ASSUME NEW r \in Requests, Reserve(r) PROVE SharedOK'
    <2>1. Item(r) \in Events
        BY <1>2, ItemType DEF Reserve, Working, Steps
    <2> QED BY <1>2, <2>1 DEF Reserve
<1>3. ASSUME NEW r \in Requests, Validate(r) PROVE SharedOK'
    BY <1>3 DEF Validate, Abort
<1>4. ASSUME NEW r \in Requests, PublishRaw(r) PROVE SharedOK'
    <2>1. Item(r) \in Events
        BY <1>4, ItemType DEF PublishRaw, Working, Steps
    <2>2. [raw EXCEPT ![Item(r)] = @ + 1] \in [Events -> Nat]
        BY <2>1
    <2>3. raw' \in [Events -> Nat]
        BY <1>4, <2>2 DEF PublishRaw
    <2> QED BY <1>4, <2>3 DEF PublishRaw, Abort
<1>5. ASSUME NEW r \in Requests, PublishValidated(r) PROVE SharedOK'
    <2>1. Item(r) \in Events
        BY <1>5, ItemType DEF PublishValidated, Working, Steps
    <2>2. [validated EXCEPT ![Item(r)] = @ + 1] \in [Events -> Nat]
        BY <2>1
    <2>3. validated' \in [Events -> Nat]
        BY <1>5, <2>2 DEF PublishValidated
    <2> QED BY <1>5, <2>3 DEF PublishValidated, Abort
<1>6. ASSUME NEW r \in Requests, DlqPublish(r) PROVE SharedOK'
    <2>1. Item(r) \in Events
        BY <1>6, ItemType DEF DlqPublish, Working, Steps
    <2> QED BY <1>6, <2>1 DEF DlqPublish
<1>7. ASSUME NEW r \in Requests, DlqInsert(r) PROVE SharedOK'
    <2>1. Item(r) \in Events
        BY <1>7, ItemType DEF DlqInsert, Working, Steps
    <2>2. PICK kept \in {rows[r] \cup {Item(r)}, rows[r]} :
             \/ Reject(r, kept)
             \/ rows' = [rows EXCEPT ![r] = kept]
        BY <1>7 DEF DlqInsert
    <2>3. kept \in SUBSET Events
        BY <2>1
    <2>4. rows' \in [Requests -> SUBSET Events]
        BY <1>0, <2>2, <2>3
    <2> QED BY <1>7, <2>4 DEF DlqInsert
<1>8. ASSUME NEW r \in Requests, Commit(r) PROVE SharedOK'
    <2>1. {<<items[r][k], results[r][k]>> : k \in 1..Len(results[r])}
             \subseteq Events \X Outcomes
        BY ResultType
    <2> QED BY <1>8, <2>1 DEF Commit, Abort
<1>9. ASSUME NEW r \in Requests, Crash(r) PROVE SharedOK'
    BY <1>9 DEF Crash, Abort
<1>10. ASSUME NEW e \in Events, Expire(e) PROVE SharedOK'
    BY <1>10 DEF Expire, reqVars
<1>11. CASE UNCHANGED vars
    BY <1>11 DEF vars, reqVars
<1> QED BY <1>1, <1>2, <1>3, <1>4, <1>5, <1>6, <1>7, <1>8, <1>9, <1>10, <1>11
        DEF Next, RequestStep, Submit, Done

\* The service starts idle.
LEMMA TypeInit == Init => ReqOK /\ SharedOK
BY ParameterAssumption DEF Init, ReqOK, SharedOK, AtAnItem, Working, Steps

----------------------------------------------------------------------------
(* Counting requests *)

\* Only request r moves.
Moves(r) ==
    \A q \in Requests \ {r} : /\ pc'[q] = pc[q] /\ items'[q] = items[q]
                              /\ at'[q] = at[q] /\ results'[q] = results[q]

\* One request more or less holds the event.
LEMMA HoldingStep ==
    ASSUME NEW r \in Requests, Moves(r), NEW e, NEW steps, IsFiniteSet(Holding(e, steps))
    PROVE  LET held == Holding(e, steps)
               was == pc[r] \in steps /\ Item(r) = e
               is == pc'[r] \in steps /\ Item(r)' = e
           IN  /\ IsFiniteSet(Holding(e, steps)')
               /\ Cardinality(held) \in Nat
               /\ Cardinality(Holding(e, steps)') =
                    Cardinality(held) + (IF is THEN 1 ELSE 0) - (IF was THEN 1 ELSE 0)
<1> DEFINE held == Holding(e, steps)
           is == pc'[r] \in steps /\ Item(r)' = e
<1>1. Cardinality(held) \in Nat
    BY FS_CardinalityType
<1>2. Holding(e, steps)' = IF is THEN held \cup {r} ELSE held \ {r}
    BY DEF Holding, Moves, Item
<1>3. r \in held <=> pc[r] \in steps /\ Item(r) = e
    BY DEF Holding
<1>4. /\ IsFiniteSet(held \cup {r}) /\ IsFiniteSet(held \ {r})
      /\ Cardinality(held \cup {r}) = IF r \in held THEN Cardinality(held) ELSE Cardinality(held) + 1
      /\ Cardinality(held \ {r}) = IF r \in held THEN Cardinality(held) - 1 ELSE Cardinality(held)
    BY FS_AddElement, FS_RemoveElement
<1> HIDE DEF held
<1> QED BY <1>1, <1>2, <1>3, <1>4 DEF held

\* GoTo, Finish, Abort and Reject move one request, which keeps its items.
LEMMA OneMoves ==
    ASSUME ReqOK, NEW r \in Requests
    PROVE  /\ \A step : GoTo(r, step) => Moves(r) /\ pc'[r] = step /\ Item(r)' = Item(r)
           /\ \A outcome : Finish(r, outcome) => Moves(r) /\ pc'[r] \in {"parse", "commit"}
           /\ Abort(r) => Moves(r) /\ pc'[r] = "over"
           /\ \A kept : Reject(r, kept) => Moves(r) /\ pc'[r] \in {"parse", "commit", "over"}
<1>1. /\ \A step : GoTo(r, step) => Moves(r) /\ pc'[r] = step /\ Item(r)' = Item(r)
      /\ \A outcome : Finish(r, outcome) => Moves(r) /\ pc'[r] \in {"parse", "commit"}
      /\ Abort(r) => Moves(r) /\ pc'[r] = "over"
    BY DEF ReqOK, GoTo, Finish, Abort, Moves, Item
<1> QED BY <1>1 DEF Reject

\* A request that is not at the publish and does not come there changes nothing.
LEMMA RawQuiet ==
    ASSUME SharedOK, RawIsAhead, NEW r \in Requests, Moves(r),
           pc'[r] # "validated", UNCHANGED validated,
           \A e \in Events : raw'[e] \in Nat /\ raw'[e] >= raw[e]
    PROVE  RawIsAhead'
<1> SUFFICES ASSUME NEW e \in Events
             PROVE  /\ IsFiniteSet(Holding(e, {"validated"})')
                    /\ validated'[e] + Cardinality(Holding(e, {"validated"})') <= raw'[e]
    BY DEF RawIsAhead
<1>1. /\ IsFiniteSet(Holding(e, {"validated"}))
      /\ validated[e] + Cardinality(Holding(e, {"validated"})) <= raw[e]
    BY DEF RawIsAhead
<1>2. /\ IsFiniteSet(Holding(e, {"validated"})')
      /\ Cardinality(Holding(e, {"validated"})) \in Nat
      /\ \/ Cardinality(Holding(e, {"validated"})') = Cardinality(Holding(e, {"validated"}))
         \/ Cardinality(Holding(e, {"validated"})') = Cardinality(Holding(e, {"validated"})) - 1
    BY <1>1, HoldingStep
<1> QED BY <1>1, <1>2 DEF SharedOK

\* Every copy on events.validated follows one on events.raw, request by request.
LEMMA RawNext == ReqOK /\ SharedOK /\ RawIsAhead /\ [Next]_vars => RawIsAhead'
<1> SUFFICES ASSUME ReqOK, SharedOK, RawIsAhead, [Next]_vars PROVE RawIsAhead'
    OBVIOUS
<1> USE DEF busVars
<1>0. \A e \in Events : raw[e] \in Nat /\ raw[e] >= raw[e]
    BY DEF SharedOK
<1>1. ASSUME NEW r \in Requests, Parse(r) PROVE RawIsAhead'
    BY <1>0, <1>1, OneMoves, RawQuiet DEF Parse
<1>2. ASSUME NEW r \in Requests, Reserve(r) PROVE RawIsAhead'
    BY <1>0, <1>2, OneMoves, RawQuiet DEF Reserve
<1>3. ASSUME NEW r \in Requests, Validate(r) PROVE RawIsAhead'
    BY <1>0, <1>3, OneMoves, RawQuiet DEF Validate
<1>4. ASSUME NEW r \in Requests, PublishRaw(r) PROVE RawIsAhead'
    <2>1. Item(r) \in Events /\ pc[r] = "raw"
        BY <1>4, ItemType DEF PublishRaw, Working, Steps
    <2>2. \A e \in Events : /\ raw'[e] \in Nat
                            /\ raw'[e] >= raw[e]
        BY <1>4, <2>1 DEF PublishRaw, SharedOK
    <2>3. CASE pc'[r] # "validated"
        BY <1>4, <2>2, <2>3, OneMoves, RawQuiet DEF PublishRaw
    <2>4. CASE pc'[r] = "validated"
        <3>1. /\ raw' = [raw EXCEPT ![Item(r)] = @ + 1] /\ UNCHANGED validated
              /\ Moves(r) /\ Item(r)' = Item(r)
            BY <1>4, <2>4, OneMoves DEF PublishRaw
        <3> SUFFICES ASSUME NEW e \in Events
                     PROVE  /\ IsFiniteSet(Holding(e, {"validated"})')
                            /\ validated'[e] + Cardinality(Holding(e, {"validated"})') <= raw'[e]
            BY DEF RawIsAhead
        <3>2. /\ IsFiniteSet(Holding(e, {"validated"}))
              /\ validated[e] + Cardinality(Holding(e, {"validated"})) <= raw[e]
            BY DEF RawIsAhead
        <3>3. /\ IsFiniteSet(Holding(e, {"validated"})')
              /\ Cardinality(Holding(e, {"validated"})) \in Nat
              /\ Cardinality(Holding(e, {"validated"})')
                   = Cardinality(Holding(e, {"validated"})) + (IF Item(r) = e THEN 1 ELSE 0)
            BY <2>1, <2>4, <3>1, <3>2, HoldingStep
        <3>4. raw'[e] = raw[e] + (IF Item(r) = e THEN 1 ELSE 0)
            BY <2>1, <3>1 DEF SharedOK
        <3> QED BY <3>1, <3>2, <3>3, <3>4 DEF SharedOK
    <2> QED BY <2>3, <2>4
<1>5. ASSUME NEW r \in Requests, PublishValidated(r) PROVE RawIsAhead'
    <2>1. Item(r) \in Events /\ pc[r] = "validated"
        BY <1>5, ItemType DEF PublishValidated, Working, Steps
    <2>2. /\ Moves(r) /\ pc'[r] # "validated" /\ UNCHANGED raw
          /\ validated' \in {validated, [validated EXCEPT ![Item(r)] = @ + 1]}
        BY <1>5, OneMoves DEF PublishValidated
    <2> SUFFICES ASSUME NEW e \in Events
                 PROVE  /\ IsFiniteSet(Holding(e, {"validated"})')
                        /\ validated'[e] + Cardinality(Holding(e, {"validated"})') <= raw'[e]
        BY DEF RawIsAhead
    <2>3. /\ IsFiniteSet(Holding(e, {"validated"}))
          /\ validated[e] + Cardinality(Holding(e, {"validated"})) <= raw[e]
        BY DEF RawIsAhead
    <2>4. /\ IsFiniteSet(Holding(e, {"validated"})')
          /\ Cardinality(Holding(e, {"validated"})) \in Nat
          /\ Cardinality(Holding(e, {"validated"})')
               = Cardinality(Holding(e, {"validated"})) - (IF Item(r) = e THEN 1 ELSE 0)
        BY <2>1, <2>2, <2>3, HoldingStep
    <2>5. /\ validated[e] \in Nat /\ raw[e] \in Nat
          /\ validated'[e] \in {validated[e], validated[e] + (IF Item(r) = e THEN 1 ELSE 0)}
        BY <2>1, <2>2 DEF SharedOK
    <2> QED BY <2>2, <2>3, <2>4, <2>5
<1>6. ASSUME NEW r \in Requests, DlqPublish(r) PROVE RawIsAhead'
    BY <1>0, <1>6, OneMoves, RawQuiet DEF DlqPublish
<1>7. ASSUME NEW r \in Requests, DlqInsert(r) PROVE RawIsAhead'
    BY <1>0, <1>7, OneMoves, RawQuiet DEF DlqInsert
<1>8. ASSUME NEW r \in Requests, Commit(r) PROVE RawIsAhead'
    BY <1>0, <1>8, OneMoves, RawQuiet DEF Commit
<1>9. ASSUME NEW r \in Requests, Crash(r) PROVE RawIsAhead'
    BY <1>0, <1>9, OneMoves, RawQuiet DEF Crash
<1>10. ASSUME NEW r \in Requests, NEW kind, NEW batch, Submit(r, kind, batch)
       PROVE  RawIsAhead'
    <2>1. Moves(r) /\ pc'[r] # "validated"
        BY <1>10 DEF Submit, Moves, ReqOK
    <2> QED BY <1>0, <1>10, <2>1, RawQuiet DEF Submit
<1>11. CASE UNCHANGED <<reqVars, busVars>>
    BY <1>11 DEF reqVars, RawIsAhead, Holding, Item
<1> QED BY <1>1, <1>2, <1>3, <1>4, <1>5, <1>6, <1>7, <1>8, <1>9, <1>10, <1>11
        DEF Next, RequestStep, Expire, Done, vars

\* From the reservation to the publish.
Way == {"validate", "raw", "validated"}

\* A request that is nowhere on the way afterwards, or stays on it with its event,
\* needs no new reservation.
LEMMA WayQuiet ==
    ASSUME SharedOK, ReservationsCover, NEW r \in Requests, Moves(r),
           pc'[r] \in Way => pc[r] \in Way /\ Item(r)' = Item(r),
           UNCHANGED <<validated, reserved, unreserved>>
    PROVE  ReservationsCover'
<1> SUFFICES ASSUME NEW e \in Events
             PROVE  /\ IsFiniteSet(Holding(e, Way)')
                    /\ validated'[e] + Cardinality(Holding(e, Way)')
                         <= unreserved'[e] + (IF e \in reserved' THEN 1 ELSE 0)
    BY DEF ReservationsCover, Way
<1>1. /\ IsFiniteSet(Holding(e, Way))
      /\ validated[e] + Cardinality(Holding(e, Way))
           <= unreserved[e] + (IF e \in reserved THEN 1 ELSE 0)
    BY DEF ReservationsCover, Way
<1>2. /\ IsFiniteSet(Holding(e, Way)')
      /\ Cardinality(Holding(e, Way)) \in Nat
      /\ \/ Cardinality(Holding(e, Way)') = Cardinality(Holding(e, Way))
         \/ Cardinality(Holding(e, Way)') = Cardinality(Holding(e, Way)) - 1
    BY <1>1, HoldingStep
<1> QED BY <1>1, <1>2 DEF SharedOK

\* SET NX, the failures that lose a reservation and the publishes keep the balance.
LEMMA CoverNext ==
    ReqOK /\ SharedOK /\ ReservationsCover /\ [Next]_vars => ReservationsCover'
<1> SUFFICES ASSUME ReqOK, SharedOK, ReservationsCover, [Next]_vars
             PROVE  ReservationsCover'
    OBVIOUS
<1> USE DEF busVars
<1>1. ASSUME NEW r \in Requests, Parse(r) PROVE ReservationsCover'
    BY <1>1, OneMoves, WayQuiet DEF Parse, Way
<1>2. ASSUME NEW r \in Requests, Reserve(r) PROVE ReservationsCover'
    <2>1. Item(r) \in Events /\ pc[r] = "reserve"
        BY <1>2, ItemType DEF Reserve, Working, Steps
    <2>2. CASE Finish(r, "duplicate") /\ UNCHANGED <<reserved, unreserved>>
        BY <1>2, <2>2, OneMoves, WayQuiet DEF Reserve, Way
    <2>3. CASE /\ GoTo(r, "validate") 
               /\ \/ /\ Item(r) \notin reserved /\ reserved' = reserved \cup {Item(r)}
                     /\ UNCHANGED unreserved
                  \/ /\ unreserved' = [unreserved EXCEPT ![Item(r)] = @ + 1]
                     /\ UNCHANGED reserved
        <3>1. Moves(r) /\ pc'[r] = "validate" /\ Item(r)' = Item(r) /\ UNCHANGED validated
            BY <1>2, <2>3, OneMoves DEF Reserve
        <3> SUFFICES ASSUME NEW e \in Events
                     PROVE  /\ IsFiniteSet(Holding(e, Way)')
                            /\ validated'[e] + Cardinality(Holding(e, Way)')
                                 <= unreserved'[e] + (IF e \in reserved' THEN 1 ELSE 0)
            BY DEF ReservationsCover, Way
        <3>2. /\ IsFiniteSet(Holding(e, Way))
              /\ validated[e] + Cardinality(Holding(e, Way))
                   <= unreserved[e] + (IF e \in reserved THEN 1 ELSE 0)
            BY DEF ReservationsCover, Way
        <3>3. /\ IsFiniteSet(Holding(e, Way)')
              /\ Cardinality(Holding(e, Way)) \in Nat
              /\ Cardinality(Holding(e, Way)')
                   = Cardinality(Holding(e, Way)) + (IF Item(r) = e THEN 1 ELSE 0)
            BY <2>1, <3>1, <3>2, HoldingStep DEF Way
        <3>4. unreserved'[e] + (IF e \in reserved' THEN 1 ELSE 0)
                = unreserved[e] + (IF e \in reserved THEN 1 ELSE 0)
                    + (IF Item(r) = e THEN 1 ELSE 0)
            BY <2>1, <2>3 DEF SharedOK
        <3> QED BY <3>1, <3>2, <3>3, <3>4 DEF SharedOK
    <2> QED BY <1>2, <2>2, <2>3 DEF Reserve
<1>3. ASSUME NEW r \in Requests, Validate(r) PROVE ReservationsCover'
    BY <1>3, OneMoves, WayQuiet DEF Validate, Way
<1>4. ASSUME NEW r \in Requests, PublishRaw(r) PROVE ReservationsCover'
    BY <1>4, OneMoves, WayQuiet DEF PublishRaw, Way
<1>5. ASSUME NEW r \in Requests, PublishValidated(r) PROVE ReservationsCover'
    <2>1. Item(r) \in Events /\ pc[r] = "validated"
        BY <1>5, ItemType DEF PublishValidated, Working, Steps
    <2>2. /\ Moves(r) /\ pc'[r] \notin Way /\ UNCHANGED <<reserved, unreserved>>
          /\ validated' \in {validated, [validated EXCEPT ![Item(r)] = @ + 1]}
        BY <1>5, OneMoves DEF PublishValidated, Way
    <2> SUFFICES ASSUME NEW e \in Events
                 PROVE  /\ IsFiniteSet(Holding(e, Way)')
                        /\ validated'[e] + Cardinality(Holding(e, Way)')
                             <= unreserved'[e] + (IF e \in reserved' THEN 1 ELSE 0)
        BY DEF ReservationsCover, Way
    <2>3. /\ IsFiniteSet(Holding(e, Way))
          /\ validated[e] + Cardinality(Holding(e, Way))
               <= unreserved[e] + (IF e \in reserved THEN 1 ELSE 0)
        BY DEF ReservationsCover, Way
    <2>4. /\ IsFiniteSet(Holding(e, Way)')
          /\ Cardinality(Holding(e, Way)) \in Nat
          /\ Cardinality(Holding(e, Way)')
               = Cardinality(Holding(e, Way)) - (IF Item(r) = e THEN 1 ELSE 0)
        BY <2>1, <2>2, <2>3, HoldingStep DEF Way
    <2>5. /\ validated[e] \in Nat /\ unreserved[e] \in Nat
          /\ validated'[e] \in {validated[e], validated[e] + (IF Item(r) = e THEN 1 ELSE 0)}
        BY <2>1, <2>2 DEF SharedOK
    <2> QED BY <2>2, <2>3, <2>4, <2>5
<1>6. ASSUME NEW r \in Requests, DlqPublish(r) PROVE ReservationsCover'
    BY <1>6, OneMoves, WayQuiet DEF DlqPublish, Way
<1>7. ASSUME NEW r \in Requests, DlqInsert(r) PROVE ReservationsCover'
    BY <1>7, OneMoves, WayQuiet DEF DlqInsert, Way
<1>8. ASSUME NEW r \in Requests, Commit(r) PROVE ReservationsCover'
    BY <1>8, OneMoves, WayQuiet DEF Commit, Way
<1>9. ASSUME NEW r \in Requests, Crash(r) PROVE ReservationsCover'
    BY <1>9, OneMoves, WayQuiet DEF Crash, Way
<1>10. ASSUME NEW r \in Requests, NEW kind, NEW batch, Submit(r, kind, batch)
       PROVE  ReservationsCover'
    <2>1. Moves(r) /\ pc'[r] \notin Way
        BY <1>10 DEF Submit, Moves, ReqOK, Way
    <2> QED BY <1>10, <2>1, WayQuiet DEF Submit
<1>11. ASSUME NEW x \in Events, Expire(x) PROVE ReservationsCover'
    <2>1. \A e \in Events : Holding(e, Way)' = Holding(e, Way)
        BY <1>11 DEF Expire, reqVars, Holding, Item
    <2>2. \A e \in Events : unreserved'[e] + (IF e \in reserved' THEN 1 ELSE 0)
                          = unreserved[e] + (IF e \in reserved THEN 1 ELSE 0)
        BY <1>11 DEF Expire, SharedOK
    <2> QED BY <1>11, <2>1, <2>2 DEF ReservationsCover, Way, Expire
<1>12. CASE UNCHANGED vars
    BY <1>12 DEF vars, reqVars, ReservationsCover, Holding, Item
<1> QED BY <1>1, <1>2, <1>3, <1>4, <1>5, <1>6, <1>7, <1>8, <1>9, <1>10, <1>11, <1>12
        DEF Next, RequestStep, Done

----------------------------------------------------------------------------
(* Results and answers *)

\* Streams only grow.
Grows == \A e \in Events : /\ raw'[e] \in Nat /\ raw'[e] >= raw[e]
                           /\ validated'[e] \in Nat /\ validated'[e] >= validated[e]

LEMMA StreamsGrow == ReqOK /\ SharedOK /\ [Next]_vars => Grows
<1> SUFFICES ASSUME ReqOK, SharedOK, [Next]_vars PROVE Grows
    OBVIOUS
<1>1. ASSUME NEW r \in Requests, PublishRaw(r) PROVE Grows
    <2>1. Item(r) \in Events
        BY <1>1, ItemType DEF PublishRaw, Working, Steps
    <2>2. raw' \in {raw, [raw EXCEPT ![Item(r)] = @ + 1]} /\ UNCHANGED validated
        BY <1>1 DEF PublishRaw
    <2> QED BY <2>1, <2>2 DEF Grows, SharedOK
<1>2. ASSUME NEW r \in Requests, PublishValidated(r) PROVE Grows
    <2>1. Item(r) \in Events
        BY <1>2, ItemType DEF PublishValidated, Working, Steps
    <2>2. validated' \in {validated, [validated EXCEPT ![Item(r)] = @ + 1]} /\ UNCHANGED raw
        BY <1>2 DEF PublishValidated
    <2> QED BY <2>1, <2>2 DEF Grows, SharedOK
<1>3. CASE UNCHANGED <<raw, validated>>
    BY <1>3 DEF Grows, SharedOK
<1> QED BY <1>1, <1>2, <1>3
        DEF Next, RequestStep, Submit, Parse, Reserve, Validate, DlqPublish, DlqInsert, Commit,
            Crash, Expire, Done, vars, busVars

\* The results of the other requests are as they were.
LEMMA OthersStayBacked ==
    ASSUME ReqOK, SharedOK, ResultsAreBacked, Grows, NEW r \in Requests, Moves(r),
           \A q \in Requests \ {r} : rows'[q] = rows[q],
           Backed(r)'
    PROVE  ResultsAreBacked'
<1> SUFFICES ASSUME NEW q \in Requests \ {r} PROVE Backed(q)'
    BY DEF ResultsAreBacked
<1>1. items'[q] = items[q] /\ results'[q] = results[q] /\ rows'[q] = rows[q]
    BY DEF Moves
<1>2. \A k \in 1..Len(results[q]) : items[q][k] \in Events
    BY ResultType
<1>3. Backed(q)
    BY DEF ResultsAreBacked
<1> QED BY <1>1, <1>2, <1>3, SMTT(30) DEF Backed, Grows, SharedOK

\* A request that goes on, or starts, keeps its results; one that fails has none.
LEMMA QuietStaysBacked ==
    ASSUME ReqOK, SharedOK, ResultsAreBacked, Grows, NEW r \in Requests, Moves(r),
           \/ results'[r] = results[r] /\ items'[r] = items[r] /\ UNCHANGED rows
           \/ results'[r] = <<>> /\ \A q \in Requests \ {r} : rows'[q] = rows[q]
    PROVE  ResultsAreBacked'
<1>1. CASE results'[r] = results[r] /\ items'[r] = items[r] /\ UNCHANGED rows
    <2>1. \A k \in 1..Len(results[r]) : items[r][k] \in Events
        BY ResultType
    <2>2. Backed(r)
        BY DEF ResultsAreBacked
    <2>3. Backed(r)'
        BY <1>1, <2>1, <2>2 DEF Backed, Grows, SharedOK
    <2> QED BY <1>1, <2>3, OthersStayBacked
<1>2. CASE results'[r] = <<>> /\ \A q \in Requests \ {r} : rows'[q] = rows[q]
    <2>1. Backed(r)'
        BY <1>2 DEF Backed
    <2> QED BY <1>2, <2>1, OthersStayBacked
<1> QED BY <1>1, <1>2

\* A new result is backed when its event is.
LEMMA FinishIsBacked ==
    ASSUME ReqOK, SharedOK, ResultsAreBacked, Grows, NEW r \in Requests, pc[r] \in Working,
           NEW outcome \in Outcomes, Finish(r, outcome),
           NEW kept, rows[r] \subseteq kept, rows' = [rows EXCEPT ![r] = kept],
           outcome = "accepted" => raw'[Item(r)] > 0 /\ validated'[Item(r)] > 0,
           ("dlqRow" \notin Faults /\ outcome = "rejected" /\ Item(r) \notin Forbidden)
             => Item(r) \in kept
    PROVE  ResultsAreBacked'
<1>1. /\ results[r] \in Seq(Outcomes) /\ Len(results[r]) = at[r] - 1 /\ at[r] \in Nat \ {0}
    BY ParameterAssumption DEF ReqOK, Working
<1>2. /\ results'[r] = Append(results[r], outcome) /\ items'[r] = items[r]
      /\ rows'[r] = kept
    BY DEF Finish, ReqOK, SharedOK
<1>3. \A k \in 1..Len(results[r]) : items[r][k] \in Events
    BY ResultType
<1>4. Backed(r)
    BY DEF ResultsAreBacked
<1>5. Backed(r)'
    <2> SUFFICES ASSUME NEW k \in 1..Len(results'[r])
                 PROVE  /\ results'[r][k] = "accepted" =>
                             raw'[items[r][k]] > 0 /\ validated'[items[r][k]] > 0
                        /\ ("dlqRow" \notin Faults /\ results'[r][k] = "rejected"
                              /\ items[r][k] \notin Forbidden) => items[r][k] \in kept
        BY <1>2 DEF Backed
    <2>1. CASE k \in 1..Len(results[r])
        <3>1. results'[r][k] = results[r][k]
            BY <1>1, <1>2, <2>1
        <3> QED BY <1>3, <1>4, <2>1, <3>1, SMTT(30) DEF Backed, Grows, SharedOK
    <2>2. CASE k = at[r]
        <3>1. results'[r][k] = outcome /\ items[r][k] = Item(r)
            BY <1>1, <1>2, <2>2 DEF Item
        <3> QED BY <3>1
    <2>3. k \in 1..Len(results[r]) \/ k = at[r]
        BY <1>1, <1>2
    <2> QED BY <2>1, <2>2, <2>3
<1>6. Moves(r)
    BY OneMoves
<1> QED BY <1>5, <1>6, OthersStayBacked DEF SharedOK

\* A rejection is backed when the row is kept, or the event is forbidden.
LEMMA RejectIsBacked ==
    ASSUME ReqOK, SharedOK, ResultsAreBacked, Grows, NEW r \in Requests, pc[r] \in Working,
           NEW kept, rows[r] \subseteq kept, Reject(r, kept),
           ("dlqRow" \notin Faults /\ Item(r) \notin Forbidden) => Item(r) \in kept
    PROVE  ResultsAreBacked'
<1>1. CASE Abort(r)
    <2>1. Moves(r) /\ results'[r] = <<>> /\ \A q \in Requests \ {r} : rows'[q] = rows[q]
        BY <1>1, OneMoves DEF Abort, ReqOK, SharedOK
    <2> QED BY <2>1, QuietStaysBacked
<1>2. CASE Finish(r, "rejected") /\ rows' = [rows EXCEPT ![r] = kept]
    BY <1>2, FinishIsBacked DEF Outcomes
<1> QED BY <1>1, <1>2 DEF Reject

\* Every result a step collects is backed, and every one collected before stays so.
LEMMA BackedNext ==
    ReqOK /\ SharedOK /\ RawIsAhead /\ ResultsAreBacked /\ [Next]_vars => ResultsAreBacked'
<1> SUFFICES ASSUME ReqOK, SharedOK, RawIsAhead, ResultsAreBacked, [Next]_vars
             PROVE  ResultsAreBacked'
    OBVIOUS
<1>0. Grows
    BY StreamsGrow
<1>a. ASSUME NEW r \in Requests, NEW step, GoTo(r, step), UNCHANGED rows
      PROVE  ResultsAreBacked'
    <2>1. Moves(r) /\ results'[r] = results[r] /\ items'[r] = items[r]
        BY <1>a, OneMoves DEF GoTo
    <2> QED BY <1>0, <1>a, <2>1, QuietStaysBacked
<1>b. ASSUME NEW r \in Requests, Abort(r) PROVE ResultsAreBacked'
    <2>1. Moves(r) /\ results'[r] = <<>> /\ \A q \in Requests \ {r} : rows'[q] = rows[q]
        BY <1>b, OneMoves DEF Abort, ReqOK, SharedOK
    <2> QED BY <1>0, <2>1, QuietStaysBacked
<1>1. ASSUME NEW r \in Requests, Parse(r) PROVE ResultsAreBacked'
    <2>1. ASSUME Item(r) \in Forbidden, Reject(r, rows[r]) PROVE ResultsAreBacked'
        BY <1>0, <1>1, <2>1, RejectIsBacked DEF Parse, Working, Steps
    <2> QED BY <1>1, <1>a, <1>b, <2>1 DEF Parse
<1>2. ASSUME NEW r \in Requests, Reserve(r) PROVE ResultsAreBacked'
    <2>1. ASSUME Finish(r, "duplicate") PROVE ResultsAreBacked'
        <3>1. rows' = [rows EXCEPT ![r] = rows[r]] /\ pc[r] \in Working
            BY <1>2 DEF Reserve, SharedOK, Working, Steps
        <3> QED BY <1>0, <2>1, <3>1, FinishIsBacked DEF Outcomes
    <2> QED BY <1>2, <1>a, <2>1 DEF Reserve
<1>3. ASSUME NEW r \in Requests, Validate(r) PROVE ResultsAreBacked'
    BY <1>3, <1>a, <1>b DEF Validate
<1>4. ASSUME NEW r \in Requests, PublishRaw(r) PROVE ResultsAreBacked'
    BY <1>4, <1>a, <1>b DEF PublishRaw
<1>5. ASSUME NEW r \in Requests, PublishValidated(r) PROVE ResultsAreBacked'
    <2>1. ASSUME /\ Finish(r, "accepted") /\ UNCHANGED <<rows, raw>>
                 /\ validated' = [validated EXCEPT ![Item(r)] = @ + 1]
          PROVE  ResultsAreBacked'
        <3>1. pc[r] = "validated" /\ pc[r] \in Working /\ Item(r) \in Events
            BY <1>5, ItemType DEF PublishValidated, Working, Steps
        <3>2. validated'[Item(r)] > 0
            BY <2>1, <3>1 DEF SharedOK
        <3>3. raw'[Item(r)] > 0
            <4> DEFINE ahead == Holding(Item(r), {"validated"})
            <4>1. IsFiniteSet(ahead) /\ validated[Item(r)] + Cardinality(ahead) <= raw[Item(r)]
                BY <3>1 DEF RawIsAhead
            <4>2. r \in ahead
                BY <3>1 DEF Holding
            <4>3. Cardinality(ahead) \in Nat /\ Cardinality(ahead) # 0
                BY <4>1, <4>2, FS_CardinalityType, FS_EmptySet
            <4> QED BY <2>1, <3>1, <4>1, <4>3 DEF SharedOK
        <3>4. rows' = [rows EXCEPT ![r] = rows[r]]
            BY <2>1 DEF SharedOK
        <3> QED BY <1>0, <2>1, <3>1, <3>2, <3>3, <3>4, FinishIsBacked DEF Outcomes
    <2> QED BY <1>5, <1>b, <2>1 DEF PublishValidated
<1>6. ASSUME NEW r \in Requests, DlqPublish(r) PROVE ResultsAreBacked'
    BY <1>6, <1>a DEF DlqPublish
<1>7. ASSUME NEW r \in Requests, DlqInsert(r) PROVE ResultsAreBacked'
    <2>1. PICK kept \in {rows[r] \cup {Item(r)}}
                        \cup (IF "dlqRow" \in Faults THEN {rows[r]} ELSE {}) :
             \/ Reject(r, kept)
             \/ Finish(r, "rejected") /\ rows' = [rows EXCEPT ![r] = kept]
        BY <1>7 DEF DlqInsert
    <2>2. /\ rows[r] \subseteq kept /\ "dlqRow" \notin Faults => Item(r) \in kept
          /\ pc[r] \in Working
        BY <1>7 DEF DlqInsert, Working, Steps
    <2> QED BY <1>0, <2>1, <2>2, RejectIsBacked, FinishIsBacked DEF Outcomes
<1>8. ASSUME NEW r \in Requests, Commit(r) PROVE ResultsAreBacked'
    BY <1>8, <1>a, <1>b DEF Commit
<1>9. ASSUME NEW r \in Requests, Crash(r) PROVE ResultsAreBacked'
    BY <1>9, <1>b DEF Crash
<1>10. ASSUME NEW r \in Requests, NEW kind, NEW batch, Submit(r, kind, batch)
       PROVE  ResultsAreBacked'
    <2>1. results[r] = <<>>
        <3>1. results[r] \in Seq(Outcomes) /\ Len(results[r]) = 0
            <4>1. pc[r] = "idle"
                BY <1>10 DEF Submit
            <4>2. at[r] = 1 /\ results[r] \in Seq(Outcomes) /\ Len(results[r]) = at[r] - 1
                BY <1>0, <4>1 DEF ReqOK, AtAnItem
            <4> QED BY <4>2
        <3> QED BY <3>1
    <2>2. Moves(r) /\ results'[r] = <<>> /\ UNCHANGED rows
        BY <1>10, <2>1 DEF Submit, Moves, ReqOK
    <2> QED BY <1>0, <2>2, QuietStaysBacked
<1>11. CASE UNCHANGED <<reqVars, busVars>>
    BY <1>11 DEF reqVars, busVars, ResultsAreBacked, Backed
<1> QED BY <1>1, <1>2, <1>3, <1>4, <1>5, <1>6, <1>7, <1>8, <1>9, <1>10, <1>11
        DEF Next, RequestStep, Expire, Done, vars

\* An answer is a committed result: accepted events are on the streams.
LEMMA AcceptedNext ==
    ASSUME IndInv, [Next]_vars, TypeOK', RawIsAhead' PROVE AcceptedIsPublished'
<1>0. ReqOK /\ SharedOK
    BY TypeSplits DEF IndInv
<1>1. Grows
    BY <1>0, StreamsGrow
<1>2. ASSUME NEW e \in Events PROVE validated'[e] <= raw'[e]
    <2>1. /\ IsFiniteSet(Holding(e, {"validated"})')
          /\ validated'[e] + Cardinality(Holding(e, {"validated"})') <= raw'[e]
        BY DEF RawIsAhead
    <2>2. Cardinality(Holding(e, {"validated"})') \in Nat
        BY <2>1, FS_CardinalityType
    <2> QED BY <2>1, <2>2 DEF TypeOK
<1>3. ASSUME NEW e \in Events, <<e, "accepted">> \in answered'
      PROVE  raw'[e] > 0 /\ validated'[e] > 0
    <2>1. raw[e] > 0 /\ validated[e] > 0
        <3>1. CASE <<e, "accepted">> \in answered
            BY <3>1 DEF IndInv, AcceptedIsPublished, Told
        <3>2. CASE <<e, "accepted">> \notin answered
            <4>1. PICK r \in Requests : Commit(r) /\ answered' # answered
                BY <1>3, <3>2 DEF Next, RequestStep, Submit, Parse, Reserve, Validate, PublishRaw,
                   PublishValidated, DlqPublish, DlqInsert, Crash, Expire, Done, vars
            <4>2. PICK k \in 1..Len(results[r]) : <<e, "accepted">> = <<items[r][k], results[r][k]>>
                BY <1>3, <3>2, <4>1 DEF Commit
            <4> QED BY <4>2 DEF IndInv, ResultsAreBacked, Backed
        <3> QED BY <3>1, <3>2
    <2> QED BY <1>1, <2>1, <1>0 DEF Grows, SharedOK
<1> QED BY <1>2, <1>3 DEF AcceptedIsPublished, Told

\* An answer is a committed result: rejected events have their row.
LEMMA RejectedNext ==
    ASSUME IndInv, [Next]_vars, "dlqRow" \notin Faults PROVE RejectedIsInTable'
<1> SUFFICES ASSUME NEW e \in Events \ Forbidden, <<e, "rejected">> \in answered'
             PROVE  e \in dlqTable'
    BY DEF RejectedIsInTable, Told
<1>1. dlqTable \subseteq dlqTable'
    BY DEF Next, RequestStep, Submit, Parse, Reserve, Validate, PublishRaw, PublishValidated,
           DlqPublish, DlqInsert, Commit, Crash, Expire, Done, vars
<1>2. CASE <<e, "rejected">> \in answered
    BY <1>1, <1>2 DEF IndInv, RejectedIsInTable, Told
<1>3. CASE <<e, "rejected">> \notin answered
    <2>1. PICK r \in Requests : Commit(r) /\ answered' # answered
        BY <1>3 DEF Next, RequestStep, Submit, Parse, Reserve, Validate, PublishRaw,
           PublishValidated, DlqPublish, DlqInsert, Crash, Expire, Done, vars
    <2>2. PICK k \in 1..Len(results[r]) : <<e, "rejected">> = <<items[r][k], results[r][k]>>
        BY <1>3, <2>1 DEF Commit
    <2>3. e \in rows[r]
        BY <2>2 DEF IndInv, ResultsAreBacked, Backed
    <2> QED BY <2>1, <2>3 DEF Commit
<1> QED BY <1>2, <1>3

----------------------------------------------------------------------------
(* The theorems *)

\* Nothing is published, reserved or answered at the start.
LEMMA IndInit == Init => IndInv
<1> SUFFICES ASSUME Init PROVE IndInv
    OBVIOUS
<1>1. TypeOK /\ AtAnItem
    BY TypeInit, TypeSplits
<1>2. \A e : \A steps \in SUBSET (Steps \ {"idle"}) : Holding(e, steps) = {}
    BY DEF Init, Holding
<1>3. RawIsAhead /\ ReservationsCover
    <2>1. /\ \A e : Holding(e, {"validated"}) = {}
          /\ \A e : Holding(e, {"validate", "raw", "validated"}) = {}
        BY <1>2 DEF Steps
    <2>2. IsFiniteSet({}) /\ Cardinality({}) = 0
        BY FS_EmptySet
    <2>3. \A e \in Events : raw[e] = 0 /\ validated[e] = 0 /\ unreserved[e] = 0 /\ e \notin reserved
        BY DEF Init
    <2>4. RawIsAhead
        BY <2>1, <2>2, <2>3 DEF RawIsAhead
    <2>5. ReservationsCover
        BY <2>1, <2>2, <2>3 DEF ReservationsCover
    <2> QED BY <2>4, <2>5
<1>4. ResultsAreBacked
    BY DEF Init, ResultsAreBacked, Backed
<1>5. AcceptedIsPublished /\ RejectedIsInTable
    BY <1>1 DEF Init, AcceptedIsPublished, RejectedIsInTable, Told
<1> QED BY <1>1, <1>3, <1>4, <1>5 DEF IndInv

\* Every step preserves the inductive invariant: its parts, lemma by lemma.
LEMMA IndNext == IndInv /\ [Next]_vars => IndInv'
<1> SUFFICES ASSUME IndInv, [Next]_vars PROVE IndInv'
    OBVIOUS
<1>1. ReqOK /\ SharedOK
    BY TypeSplits DEF IndInv
<1>2. ReqOK' /\ SharedOK'
    BY <1>1, ProgressNext, SharedNext
<1>3. TypeOK' /\ AtAnItem'
    BY <1>2 DEF TypeOK, ReqOK, SharedOK
<1>4. RawIsAhead' /\ ReservationsCover' /\ ResultsAreBacked'
    BY <1>1, RawNext, CoverNext, BackedNext DEF IndInv
<1> QED BY <1>3, <1>4, AcceptedNext, RejectedNext DEF IndInv

\* It holds in every reachable state.
LEMMA Invariance == Spec => []IndInv
BY IndInit, IndNext, PTL DEF Spec

\* An event the producer was told is accepted is on both streams, and each copy on
\* events.validated follows one on events.raw, whatever fails in between.
THEOREM AcceptedSafety == Spec => []AcceptedIsPublished
<1>1. IndInv => AcceptedIsPublished
    BY DEF IndInv
<1> QED BY <1>1, Invariance, PTL

\* However many requests carry an event at once, a second copy on events.validated
\* means that a reservation was lost to its TTL or to Redis.
THEOREM ReservationSafety == Spec => []OneCopyPerReservation
<1>1. IndInv => OneCopyPerReservation
    <2> SUFFICES ASSUME IndInv, NEW e \in Events PROVE validated[e] <= 1 + unreserved[e]
        BY DEF OneCopyPerReservation
    <2> DEFINE way == Holding(e, {"validate", "raw", "validated"})
    <2>1. /\ IsFiniteSet(way)
          /\ validated[e] + Cardinality(way) <= unreserved[e] + (IF e \in reserved THEN 1 ELSE 0)
        BY DEF IndInv, ReservationsCover
    <2>2. Cardinality(way) \in Nat
        BY <2>1, FS_CardinalityType
    <2>3. validated[e] \in Nat /\ unreserved[e] \in Nat
        BY DEF IndInv, TypeOK
    <2> QED BY <2>1, <2>2, <2>3
<1> QED BY <1>1, Invariance, PTL

\* While the DLQ table takes rows, an event the producer was told is rejected for
\* its content has its row.
THEOREM RejectedSafety ==
    ASSUME "dlqRow" \notin Faults PROVE Spec => []RejectedIsInTable
<1>1. IndInv => RejectedIsInTable
    BY DEF IndInv
<1> QED BY <1>1, Invariance, PTL
=============================================================================
