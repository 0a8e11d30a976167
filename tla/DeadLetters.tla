---------------------------- MODULE DeadLetters ----------------------------
(***************************************************************************)
(* Dead-letter administration (pravaha/api/routers/dlq.py) composed with   *)
(* the consumers a retried event can reach: the data quality processor,    *)
(* which reads events.raw, and the persistence consumer                    *)
(* (pravaha/analytics/persistence.py), which reads events.validated only.  *)
(*                                                                         *)
(* A retry is three steps: it reads the entry, publishes, and commits the  *)
(* status it decided on.  Requests run concurrently.  Listing and          *)
(* statistics only read.  The audit row is part of the commit.             *)
(***************************************************************************)
EXTENDS DataQuality

CONSTANTS
    Admins,         \* concurrent requests to the dead-letter API
    Scenarios       \* bound: the events submitted, and how many calls of retry
                    \* and discard may follow

ASSUME ScenarioAssumption ==
    /\ Scenarios \subseteq [submitted: SUBSET Events, calls: Nat]
    /\ IsFiniteSet(Admins)

VARIABLES
    calls,          \* calls of retry and discard that may still come
    request,        \* request[a]: the entry a retry is about and its next step
    stored,         \* the events table
    unstored,       \* messages of events.validated persistence has not read
    republished,    \* history: how often a retry published the entry
    strays          \* history: requests that overlapped, or failed having published

adminVars == <<calls, request, republished, strays>>
storeVars == <<stored, unstored>>
vars == <<qualityVars, adminVars, storeVars>>

Idle == [step |-> "idle"]

TypeOK ==
    /\ QualityTypeOK
    /\ request \in [Admins -> {Idle} \cup [step: {"publish", "commit"}, entry: Entries]]
    /\ calls \in Nat
    /\ stored \subseteq Events /\ unstored \subseteq Events
    /\ republished \in [Entries -> Nat] /\ strays \in [Entries -> Nat]

Init ==
    /\ \E s \in Scenarios :
        /\ QualityInit(s.submitted) /\ calls = s.calls
        /\ unstored = {e \in s.submitted : Accepted(e)}
    /\ request = [a \in Admins |-> Idle]
    /\ stored = {}
    /\ republished = [d \in Entries |-> 0] /\ strays = [d \in Entries |-> 0]

----------------------------------------------------------------------------
Others(a, d) == \E x \in Admins \ {a} : request[x] # Idle /\ request[x].entry = d
Stray(d) == strays' = [strays EXCEPT ![d] = @ + 1]

\* Mutant: the status is not looked at.
RetryAnyStatus(a, d) ==
    /\ calls > 0 /\ calls' = calls - 1
    /\ request[a] = Idle /\ dlq[d] # "absent"
    /\ request' = [request EXCEPT ![a] = [step |-> "publish", entry |-> d]]
    /\ IF Others(a, d) THEN Stray(d) ELSE UNCHANGED strays
    /\ UNCHANGED <<qualityVars, republished, storeVars>>

\* retry(): the entry must be PENDING and hold an event_id, as all of these do.
Retry(a, d) ==
    /\ calls > 0 /\ calls' = calls - 1
    /\ request[a] = Idle /\ dlq[d] = "PENDING"
    /\ request' = [request EXCEPT ![a] = [step |-> "publish", entry |-> d]]
    /\ IF Others(a, d) THEN Stray(d) ELSE UNCHANGED strays
    /\ UNCHANGED <<qualityVars, republished, storeVars>>

\* The envelope, or the raw payload of a malformed submission, arrives on events.raw.
Arrives(d) ==
    /\ \E n \in 1..MaxCopies :
        /\ pc[<<d[2], n>>] = "none"
        /\ \A k \in 1..(n - 1) : pc[<<d[2], k>>] # "none"
        /\ pc' = [pc EXCEPT ![<<d[2], n>>] = "ready"]
    /\ republished' = [republished EXCEPT ![d] = @ + 1]

\* publish(), while the entry is still PENDING for everyone else.
Republish(a) ==
    /\ request[a] # Idle /\ request[a].step = "publish"
    /\ Arrives(request[a].entry)
    /\ request' = [request EXCEPT ![a].step = "commit"]
    /\ UNCHANGED <<attempt, record, flushVars, onceVars, envVars, clock, dlq, calls, strays, storeVars>>

\* The publish raises, before or after the broker has the message: the request
\* fails and its transaction is rolled back.
RepublishFails(a) ==
    /\ request[a] # Idle /\ request[a].step = "publish" /\ faults < MaxFaults
    /\ faults' = faults + 1
    /\ \/ UNCHANGED <<pc, republished, strays>>
       \/ Arrives(request[a].entry) /\ Stray(request[a].entry)
    /\ request' = [request EXCEPT ![a] = Idle]
    /\ UNCHANGED <<attempt, record, flushVars, onceVars, stops, clock, dlq, calls, storeVars>>

\* The status is written whatever it is by now; a failing commit leaves it.
RetryCommit(a) ==
    /\ request[a] # Idle /\ request[a].step = "commit"
    /\ LET d == request[a].entry IN
       \/ /\ dlq' = [dlq EXCEPT ![d] = "RETRIED"]
          /\ UNCHANGED <<envVars, strays>>
       \/ /\ faults < MaxFaults /\ faults' = faults + 1
          /\ Stray(d)
          /\ UNCHANGED <<dlq, stops>>
    /\ request' = [request EXCEPT ![a] = Idle]
    /\ UNCHANGED <<taskVars, flushVars, onceVars, clock, calls, republished, storeVars>>

\* discard(confirm=true) does not look at the status.
Discard(d) ==
    /\ calls > 0 /\ calls' = calls - 1
    /\ dlq[d] \in {"PENDING", "RETRIED"}
    /\ dlq' = [dlq EXCEPT ![d] = "DISCARDED"]
    /\ UNCHANGED <<taskVars, flushVars, onceVars, envVars, clock, request, republished, strays, storeVars>>

\* PersistenceProcessor.handle(): INSERT ... ON CONFLICT DO NOTHING.
Persist(e) ==
    /\ e \in unstored
    /\ unstored' = unstored \ {e}
    /\ stored' = stored \cup {e}
    /\ UNCHANGED <<qualityVars, adminVars>>

\* The insert, or the mark after it, fails on the last attempt: the framework
\* dead-letters the message, stored or not, and unless its batch is committed it
\* comes again.
PersistFails(e) ==
    /\ e \in unstored /\ faults < MaxFaults
    /\ faults' = faults + 1
    /\ stored' \in {stored, stored \cup {e}}
    /\ unstored' \in {unstored, unstored \ {e}}
    /\ DeadLetter("persistence", <<e, 0>>)
    /\ UNCHANGED <<taskVars, flushVars, onceVars, stops, clock, adminVars>>

Next ==
    \/ QualityNext /\ UNCHANGED <<adminVars, storeVars>>
    \/ \E a \in Admins, d \in Entries : Retry(a, d)
    \/ \E a \in Admins : Republish(a) \/ RepublishFails(a) \/ RetryCommit(a)
    \/ \E d \in Entries : Discard(d)
    \/ \E e \in Events : Persist(e) \/ PersistFails(e)

Spec == Init /\ [][Next]_vars

----------------------------------------------------------------------------
(* Properties *)

\* retry() publishes before it commits: an entry that says RETRIED was published,
\* and every publish of it after the first takes a stray of its own: a request that
\* began while another was about the entry, a publish that raised although the
\* broker had the message, or a commit that failed.
RetryPublishesOnce ==
    /\ TypeOK
    /\ \A d \in Entries :
          /\ dlq[d] = "RETRIED" => republished[d] > 0
          /\ republished[d] <= 1 + strays[d]

----------------------------------------------------------------------------
(* Inductive invariants *)

\* A request is about a row that is there, and was published before its commit.
RequestIsReal(a) ==
    request[a] # Idle =>
        /\ dlq[request[a].entry] # "absent"
        /\ request[a].step = "commit" => republished[request[a].entry] > 0

On(a, d) == request[a] # Idle /\ request[a].entry = d
AboutToPublish(d) == {a \in Admins : On(a, d) /\ request[a].step = "publish"}

\* A request that is about to publish has been paid for, and what was published is
\* on the row or a stray once no request is about it.
EntryIsOrderly(d) ==
    /\ republished[d] + Cardinality(AboutToPublish(d)) <= 1 + strays[d]
    /\ dlq[d] \in {"absent", "PENDING"} /\ (\A a \in Admins : ~On(a, d)) => republished[d] <= strays[d]

RetryInv ==
    /\ \A a \in Admins : RequestIsReal(a)
    /\ \A d \in Entries : dlq[d] = "RETRIED" => republished[d] > 0
    /\ \A d \in Entries : EntryIsOrderly(d)

IndInv ==
    /\ TypeOK
    /\ ExactInv /\ NothingInvented
    /\ \A e \in Events : OnceInv(e) /\ SeenInv(e)
    /\ RetryInv
=============================================================================
