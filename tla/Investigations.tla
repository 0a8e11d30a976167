--------------------------- MODULE Investigations ---------------------------
(***************************************************************************)
(* AI investigations of anomalies (pravaha/consumers/ai_worker.py,         *)
(* ai/investigator.py, ai/provider.py, the ai and anomalies routers), over *)
(* the tools of EvidenceTools and the detector of Anomalies that feeds     *)
(* them.                                                                   *)
(*                                                                         *)
(* An agent is a task that runs one investigation at a time: the worker's  *)
(* handle() of a message, or the background task of a request.  Session    *)
(* scopes that read a row and write it back are two steps.  Prompts, token *)
(* counts and the wording of answers are left out; evidence is a set of    *)
(* references; confidences are percentages.                                *)
(***************************************************************************)
EXTENDS EvidenceTools

CONSTANTS
    Agents,         \* tasks that run investigations
    Invented,       \* references a model may make up
    Plan,           \* the mock provider's plan: names of tools
    MaxCalls,       \* settings.ai_max_tool_calls
    PerResponse,    \* bound: tool calls in one response of a provider
    RateLimit,      \* settings.ai_investigation_rate_limit_per_hour
    MaxInvestigations, \* bound: rows of ai_investigations
    Incidents       \* initial situations: stored rows, budgets left, the hour's count

ASSUME InvestigationAssumption ==
    /\ Plan \in Seq(ALLOWED_TOOLS) /\ MaxCalls \in Nat /\ PerResponse \in Nat \ {0}
    /\ RateLimit \in Nat /\ MaxInvestigations \in Nat /\ IsFiniteSet(Agents)

\* A situation: rows of the detector with different keys, at most a message per
\* minute, and rows of other tables.  What a model makes up names none of them, and
\* neither does what the payloads of events hold: that could be any text.
ASSUME IncidentAssumption ==
    /\ \A s \in Incidents :
        /\ s.clock \in 1..MaxClock /\ s.samples \in 0..s.clock
        /\ s.rows \in Seq(Keys) /\ Len(s.rows) <= MaxIds
        /\ \A x, y \in DOMAIN s.rows : s.rows[x] = s.rows[y] => x = y
        /\ s.rate \in 0..RateLimit
        /\ s.elsewhere \cap Invented = {} /\ \A r \in s.elsewhere : r[1] \notin {"A", "ALERT"}
    /\ Invented \cap ({"M"} \X Metrics) = {}
    /\ \A r \in Embedded : r[1] \notin {"A", "M", "ALERT"} /\ \A s \in Incidents : r \notin s.elsewhere

VARIABLES
    elsewhere,  \* references of rows in tables that no module here keeps; constant
    agent,      \* agent[a]: the investigation a task is running
    invs,       \* ai_investigations with their tool calls, in order of id
    taken,      \* ids of messages of events.anomalies that were consumed
    dropped,    \* history: ids whose message led to no investigation: low, limit, early, error
    rate,       \* the INCR counter of this hour
    chats,      \* history: chat() calls of investigations that passed the limit
    requests,   \* requests people may still make
    cancelling, \* investigations whose cancel() has read the row
    byHand      \* history: anomalies that a person has set to INVESTIGATING

agentVars == <<elsewhere, agent, invs, taken, dropped, rate, chats, requests, cancelling, byHand>>
vars == <<detectVars, agentVars>>

----------------------------------------------------------------------------
Resting == [pc |-> "idle"]
NoConclusion == [cause |-> "none", confidence |-> 0, refs |-> {}]

\* What a model, sure of itself, may answer with: a cause or none, the references
\* it was given or none of them (they are judged one by one), and some made up.
Conclusions(collected) ==
    [cause: {"found", "inconclusive"}, confidence: {90},
     refs: {real \cup madeUp : real \in {{}, collected}, madeUp \in SUBSET Invented}]

\* Mutant: every reference that was cited is kept.
ValidateNothing(raw, collected) == raw

\* validate_conclusion(): only collected references are kept; a cause without
\* any is not trusted.
validate_conclusion(raw, collected) ==
    LET grounded == raw.refs \cap collected
    IN  [raw EXCEPT !.refs = grounded,
            !.confidence = IF grounded = {} /\ raw.cause # "inconclusive"
                           THEN Min({@, 20}) ELSE @]

\* mock_reason(): five hypotheses over the evidence, the first most confident
\* one selected.  The quality tool has no field overall_score: worst_dq is 1.0.
mock_reason(e, refs) ==
    LET worst_dq == 100
        h == <<IF e.payment THEN 80 ELSE 20, IF e.surge THEN 75 ELSE 15,
               IF e.lag THEN 80 ELSE 10, IF worst_dq < 70 THEN 78 ELSE 10, 30>>
        best == Max({h[n] : n \in 1..5})
    IN  [cause |-> IF best >= 60 THEN "found" ELSE "inconclusive",
         confidence |-> best, refs |-> refs]

Evidence == [payment: BOOLEAN, surge: BOOLEAN, lag: BOOLEAN]

----------------------------------------------------------------------------
Ids == 1..nextId

\* References of a row of an anomaly, a metric, an alert or another table, and those
\* in payloads.
References ==
    ({"A"} \X (1..MaxIds)) \cup ({"M"} \X Metrics) \cup ({"ALERT"} \X (1..MaxClock))
    \cup Embedded \cup UNION {s.elsewhere : s \in Incidents}

Answers(refs) == [cause: {"none", "found", "inconclusive"}, confidence: 0..100, refs: SUBSET refs]

Investigation ==
    [anomaly: 1..MaxIds, refs: SUBSET References, conclusion: Answers(References),
     status: {"CREATED", "RUNNING", "COMPLETED", "FAILED", "CANCELLED"}]

IsRun(g) ==
    g \in [pc: {"rate", "read", "create", "start", "starting", "chat", "complete", "fail", "failing"},
           anomaly: Ids, worker: BOOLEAN, metered: BOOLEAN, attempt: 1..MaxAttempts,
           inv: 0..Len(invs), step: 0..MaxCalls + 3, seq: Nat, mock: BOOLEAN,
           refs: SUBSET References, open: BOOLEAN, raw: Answers(References \cup Invented)]

TypeOK ==
    /\ DetectTypeOK
    /\ elsewhere \in {s.elsewhere : s \in Incidents}
    /\ DOMAIN agent = Agents
    /\ \A a \in Agents : agent[a] = Resting \/ IsRun(agent[a])
    /\ invs \in Seq(Investigation) /\ Len(invs) <= MaxInvestigations
    /\ \A i \in DOMAIN invs : invs[i].anomaly \in Ids
    /\ taken \subseteq Ids /\ dropped \subseteq Ids
    /\ rate \in 0..RateLimit + 1 /\ chats \in Nat
    /\ cancelling \subseteq DOMAIN invs /\ byHand \subseteq Ids

Init ==
    \E s \in Incidents :
        /\ DetectInit(s)
        /\ elsewhere = s.elsewhere
        /\ agent = [a \in Agents |-> Resting]
        /\ invs = <<>> /\ taken = {} /\ dropped = {}
        /\ rate = s.rate /\ chats = 0 /\ requests = s.requests
        /\ cancelling = {} /\ byHand = {}

----------------------------------------------------------------------------
(* Starting an investigation *)

\* A task for an anomaly: of the worker (attempt of its message) or a request.
Opened(x, pc, worker, attempt) ==
    [pc |-> pc, anomaly |-> x, worker |-> worker, metered |-> FALSE, attempt |-> attempt, inv |-> 0,
     step |-> 0, seq |-> 0, mock |-> FALSE, refs |-> {}, open |-> FALSE,
     raw |-> NoConclusion]

At(a, pc) == agent[a] # Resting /\ agent[a].pc = pc

\* handle(): a message of low severity is skipped.
Take(a) ==
    /\ agent[a] = Resting
    /\ \E m \in published :
        /\ m.id \notin taken
        /\ taken' = taken \cup {m.id}
        /\ IF m.severity = "LOW"
           THEN agent' = agent /\ dropped' = dropped \cup {m.id}
           ELSE agent' = [agent EXCEPT ![a] = Opened(m.id, "rate", TRUE, 1)]
                /\ UNCHANGED dropped
    /\ UNCHANGED <<elsewhere, detectVars, invs, rate, chats, requests, cancelling, byHand>>

\* Mutant: one more than the limit passes.
RateOffByOne(a) ==
    /\ At(a, "rate")
    /\ rate' = Min({rate + 1, RateLimit + 1})
    /\ IF rate <= RateLimit
       THEN agent' = [agent EXCEPT ![a].pc = "read", ![a].metered = TRUE] /\ UNCHANGED dropped
       ELSE /\ agent' = [agent EXCEPT ![a] = Resting]
            /\ dropped' = dropped \cup {agent[a].anomaly}
    /\ UNCHANGED <<elsewhere, detectVars, invs, taken, chats, requests, cancelling, byHand>>

\* rate_ok(): the message is dropped when the hour's counter is beyond the limit.
rate_ok(a) ==
    /\ At(a, "rate")
    /\ rate' = Min({rate + 1, RateLimit + 1})
    /\ IF rate < RateLimit
       THEN agent' = [agent EXCEPT ![a].pc = "read", ![a].metered = TRUE] /\ UNCHANGED dropped
       ELSE /\ agent' = [agent EXCEPT ![a] = Resting]
            /\ dropped' = dropped \cup {agent[a].anomaly}
    /\ UNCHANGED <<elsewhere, detectVars, invs, taken, chats, requests, cancelling, byHand>>

\* Redis raises: the limit fails open.
RateUnknown(a) ==
    /\ At(a, "rate") /\ faults < MaxFaults
    /\ faults' = faults + 1
    /\ agent' = [agent EXCEPT ![a].pc = "read"]
    /\ UNCHANGED <<elsewhere, clock, samples, task, nextId, anomalies, published, rule, alerts,
                   invs, taken, dropped, rate, chats, requests, cancelling, byHand>>

\* start_investigation(): somebody asks for one, of a row that is there.
Request(a) ==
    /\ agent[a] = Resting /\ requests > 0
    /\ requests' = requests - 1
    /\ \E x \in DOMAIN anomalies :
        agent' = [agent EXCEPT ![a] = Opened(x, "read", FALSE, 1)]
    /\ UNCHANGED <<elsewhere, detectVars, invs, taken, dropped, rate, chats, cancelling, byHand>>

\* Mutant: an anomaly that is being looked at is left alone.
ReadOnlyOpen(a) ==
    /\ At(a, "read")
    /\ LET x == agent[a].anomaly
       IN  IF x \in DOMAIN anomalies /\ anomalies[x].status = "OPEN"
           THEN agent' = [agent EXCEPT ![a].pc = "create", ![a].open = TRUE]
           ELSE agent' = [agent EXCEPT ![a] = Resting]
    /\ UNCHANGED <<elsewhere, detectVars, invs, taken, dropped, rate, chats, requests, cancelling, byHand>>

\* create_investigation(): the anomaly is read, and one that is not there ends
\* the handling of the message.
ReadAnomaly(a) ==
    /\ At(a, "read")
    /\ LET x == agent[a].anomaly
       IN  IF x \in DOMAIN anomalies
           THEN /\ agent' = [agent EXCEPT ![a].pc = "create",
                                ![a].open = anomalies[x].status = "OPEN"]
                /\ UNCHANGED dropped
           ELSE /\ agent' = [agent EXCEPT ![a] = Resting]
                /\ dropped' = dropped \cup {x}
    /\ UNCHANGED <<elsewhere, detectVars, invs, taken, rate, chats, requests, cancelling, byHand>>

\* The commit of create_investigation(); an open anomaly becomes INVESTIGATING.
Create(a) ==
    /\ At(a, "create") /\ Len(invs) < MaxInvestigations
    /\ LET x == agent[a].anomaly
       IN  /\ invs' = Append(invs, [anomaly |-> x, status |-> "CREATED", refs |-> {},
                                    conclusion |-> NoConclusion])
           /\ IF agent[a].open
              THEN anomalies' = [anomalies EXCEPT ![x].status = "INVESTIGATING"]
                   /\ byHand' = byHand \ {x}
              ELSE UNCHANGED <<anomalies, byHand>>
    /\ agent' = [agent EXCEPT ![a].pc = "start", ![a].inv = Len(invs')]
    /\ UNCHANGED <<elsewhere, clock, samples, task, nextId, published, rule, alerts, faults,
                   taken, dropped, rate, chats, requests, cancelling>>

\* Mutant: a cancelled investigation is run as well.
StartCancelled(a) ==
    /\ At(a, "start")
    /\ agent' = [agent EXCEPT ![a] =
            IF invs[@.inv].status = "COMPLETED" THEN Resting ELSE [@ EXCEPT !.pc = "starting"]]
    /\ UNCHANGED <<elsewhere, detectVars, invs, taken, dropped, rate, chats, requests, cancelling, byHand>>

\* run_investigation() reads the row; one that has ended is left alone ...
StartRead(a) ==
    /\ At(a, "start")
    /\ agent' = [agent EXCEPT ![a] =
            IF invs[@.inv].status \in {"COMPLETED", "CANCELLED"} THEN Resting
            ELSE [@ EXCEPT !.pc = "starting"]]
    /\ UNCHANGED <<elsewhere, detectVars, invs, taken, dropped, rate, chats, requests, cancelling, byHand>>

\* ... and commits RUNNING, whatever the status has become; get_ai_client() gives
\* the first provider with a key, else the mock.
Start(a) ==
    /\ At(a, "starting")
    /\ invs' = [invs EXCEPT ![agent[a].inv].status = "RUNNING"]
    /\ \E mock \in BOOLEAN : agent' = [agent EXCEPT ![a].pc = "chat", ![a].mock = mock]
    /\ UNCHANGED <<elsewhere, detectVars, taken, dropped, rate, chats, requests, cancelling, byHand>>

----------------------------------------------------------------------------
(* _agent_loop(): at most ai_max_tool_calls + 3 responses *)

\* One chat() call, counted in ai_usage.
Chat(a) ==
    /\ At(a, "chat") /\ agent[a].step < MaxCalls + 3
    /\ chats' = IF agent[a].metered THEN chats + 1 ELSE chats
    /\ UNCHANGED <<elsewhere, detectVars, taken, dropped, rate, requests, cancelling, byHand>>

\* All calls of a response run while the budget was not used up before it; a
\* tool that raises yields no references.  Each is stored.
Tools(a, n, found) ==
    IF agent[a].seq >= MaxCalls
    THEN agent' = [agent EXCEPT ![a].step = @ + 1] /\ UNCHANGED invs
    ELSE /\ agent' = [agent EXCEPT ![a].step = @ + 1, ![a].seq = @ + n,
                                   ![a].refs = @ \cup found]
         /\ invs' = [invs EXCEPT ![agent[a].inv].refs = @ \cup found]

Conclude(a, raw) ==
    /\ agent' = [agent EXCEPT ![a].pc = "complete", ![a].step = 0, ![a].seq = 0, ![a].raw = raw]
    /\ UNCHANGED invs

\* OpenAICompatibleClient.chat(): n tool calls, of which some run and the others
\* raise; a conclusion; or text that is none.
ChatModel(a) ==
    /\ Chat(a) /\ ~agent[a].mock
    /\ \/ LET returned == {run_tool(t, agent[a].anomaly, elsewhere) : t \in ALLOWED_TOOLS}
          IN  \E n \in 1..PerResponse : \E k \in 0..n : \E results \in kSubset(k, returned) :
                Tools(a, n, UNION results)
       \/ \E raw \in Conclusions(agent[a].refs) : Conclude(a, raw)
       \/ agent' = [agent EXCEPT ![a].step = @ + 1] /\ UNCHANGED invs

\* MockClient.chat(): one call after the other of its plan, whether they succeed
\* or not, then a conclusion that cites the references of the anomaly's context.
ChatMock(a) ==
    /\ Chat(a) /\ agent[a].mock
    /\ LET x == agent[a].anomaly
           context == IF <<"A", x>> \in agent[a].refs THEN ContextRefs(x) ELSE {}
       IN  IF agent[a].seq < Len(Plan)
           THEN \/ Tools(a, 1, {})
                \/ Tools(a, 1, run_tool(Plan[agent[a].seq + 1], x, elsewhere))
           ELSE \E e \in Evidence : Conclude(a, mock_reason(e, context))

\* A provider that raises, or a loop without a conclusion, fails the investigation.
ProviderFails(a) ==
    /\ At(a, "chat")
    /\ \/ agent[a].step = MaxCalls + 3
       \/ ~agent[a].mock
       \/ faults < MaxFaults
    /\ faults' = IF agent[a].step = MaxCalls + 3 \/ ~agent[a].mock THEN faults ELSE faults + 1
    /\ agent' = [agent EXCEPT ![a].pc = "fail", ![a].step = 0, ![a].seq = 0, ![a].refs = {}]
    /\ UNCHANGED <<elsewhere, clock, samples, task, nextId, anomalies, published, rule, alerts,
                   invs, taken, dropped, rate, chats, requests, cancelling, byHand>>

----------------------------------------------------------------------------
(* Its end *)

\* _complete(): whatever the row's status has become.
Complete(a) ==
    /\ At(a, "complete")
    /\ invs' = [invs EXCEPT ![agent[a].inv].status = "COMPLETED",
                            ![agent[a].inv].conclusion =
                                validate_conclusion(agent[a].raw, agent[a].refs)]
    /\ agent' = [agent EXCEPT ![a] = Resting]
    /\ UNCHANGED <<elsewhere, detectVars, taken, dropped, rate, chats, requests, cancelling, byHand>>

\* _fail() reads both rows ...
FailRead(a) ==
    /\ At(a, "fail")
    /\ agent' = [agent EXCEPT ![a].pc = "failing",
            ![a].open = anomalies[agent[a].anomaly].status = "INVESTIGATING"]
    /\ UNCHANGED <<elsewhere, detectVars, invs, taken, dropped, rate, chats, requests, cancelling, byHand>>

\* Mutant: the anomaly is not released.
FailKeepsAnomaly(a) ==
    /\ At(a, "failing")
    /\ invs' = [invs EXCEPT ![agent[a].inv].status = "FAILED"]
    /\ agent' = [agent EXCEPT ![a] = Resting]
    /\ UNCHANGED <<elsewhere, detectVars, taken, dropped, rate, chats, requests, cancelling, byHand>>

\* ... and writes: an anomaly under investigation is open again.
Fail(a) ==
    /\ At(a, "failing")
    /\ invs' = [invs EXCEPT ![agent[a].inv].status = "FAILED"]
    /\ IF agent[a].open
       THEN anomalies' = [anomalies EXCEPT ![agent[a].anomaly].status = "OPEN"]
            /\ byHand' = byHand \ {agent[a].anomaly}
       ELSE UNCHANGED <<anomalies, byHand>>
    /\ agent' = [agent EXCEPT ![a] = Resting]
    /\ UNCHANGED <<elsewhere, clock, samples, task, nextId, published, rule, alerts, faults,
                   taken, dropped, rate, chats, requests, cancelling>>

\* The database raises.  The worker logs it while it creates the row; later the
\* framework handles the message again, with another investigation; _fail()
\* swallows it, and a background task just ends.
DatabaseFails(a) ==
    /\ agent[a] # Resting /\ faults < MaxFaults
    /\ agent[a].pc \notin {"rate", "chat"}
    /\ faults' = faults + 1
    /\ LET again == /\ agent[a].pc \in {"start", "starting", "complete"} /\ agent[a].worker
                    /\ agent[a].attempt < MaxAttempts
       IN  agent' = [agent EXCEPT ![a] =
                IF again THEN Opened(@.anomaly, "rate", TRUE, @.attempt + 1) ELSE Resting]
    /\ dropped' = IF agent[a].worker /\ agent[a].pc \in {"read", "create"}
                  THEN dropped \cup {agent[a].anomaly} ELSE dropped
    /\ UNCHANGED <<elsewhere, clock, samples, task, nextId, anomalies, published, rule, alerts,
                   invs, taken, rate, chats, requests, cancelling, byHand>>

\* The process dies (external): the worker's message is delivered again.
CrashAgent(a) ==
    /\ agent[a] # Resting /\ faults < MaxFaults
    /\ faults' = faults + 1
    /\ agent' = [agent EXCEPT ![a] = Resting]
    /\ taken' = IF agent[a].worker THEN taken \ {agent[a].anomaly} ELSE taken
    /\ UNCHANGED <<elsewhere, clock, samples, task, nextId, anomalies, published, rule, alerts,
                   invs, dropped, rate, chats, requests, cancelling, byHand>>

----------------------------------------------------------------------------
(* People *)

\* cancel() reads the row and refuses one that has ended ...
CancelRead(i) ==
    /\ requests > 0 /\ i \notin cancelling
    /\ requests' = requests - 1
    /\ cancelling' = IF invs[i].status \in {"COMPLETED", "FAILED"}
                     THEN cancelling ELSE cancelling \cup {i}
    /\ UNCHANGED <<elsewhere, detectVars, agent, invs, taken, dropped, rate, chats, byHand>>

\* ... and writes it when the request ends; nobody tells the running task.
Cancel(i) ==
    /\ i \in cancelling
    /\ cancelling' = cancelling \ {i}
    /\ invs' = [invs EXCEPT ![i].status = "CANCELLED"]
    /\ UNCHANGED <<elsewhere, detectVars, agent, taken, dropped, rate, chats, requests, byHand>>

\* set_status() of an anomaly, whatever investigations it has.
SetStatus(x) ==
    /\ requests > 0 /\ requests' = requests - 1
    /\ \E st \in Statuses :
        /\ anomalies' = [anomalies EXCEPT ![x].status = st]
        /\ byHand' = IF st = "INVESTIGATING" THEN byHand \cup {x} ELSE byHand \ {x}
    /\ UNCHANGED <<elsewhere, clock, samples, task, nextId, published, rule, alerts, faults,
                   agent, invs, taken, dropped, rate, chats, cancelling>>

\* An alert rule is switched off, on, or deleted.
ChangeRule ==
    /\ requests > 0 /\ requests' = requests - 1
    /\ \E s \in {"enabled", "disabled", "deleted"} : SetRule(s)
    /\ UNCHANGED <<elsewhere, agent, invs, taken, dropped, rate, chats, cancelling, byHand>>

AgentStep(a) ==
    \/ rate_ok(a) \/ ReadAnomaly(a) \/ Create(a) \/ StartRead(a) \/ Start(a)
    \/ ChatModel(a) \/ ChatMock(a) \/ ProviderFails(a)
    \/ Complete(a) \/ FailRead(a) \/ Fail(a)

Next ==
    \/ DetectNext /\ UNCHANGED agentVars
    \/ \E a \in Agents : Take(a) \/ Request(a) \/ AgentStep(a)
                        \/ RateUnknown(a) \/ DatabaseFails(a) \/ CrashAgent(a)
    \/ \E i \in DOMAIN invs : CancelRead(i) \/ Cancel(i)
    \/ \E x \in DOMAIN anomalies : SetStatus(x)
    \/ ChangeRule

Spec == Init /\ [][Next]_vars

----------------------------------------------------------------------------
(* Properties *)

Of(x) == {i \in DOMAIN invs : invs[i].anomaly = x}

\* An anomaly in the table whose message was consumed has an investigation,
\* unless the hour's limit or an error dropped it, a task is still on it, or
\* the message was taken up before the detector had committed the row.
NoAnomalyForgotten ==
    \A x \in DOMAIN anomalies \cap taken :
        \/ Of(x) # {}
        \/ x \in dropped
        \/ \E a \in Agents : agent[a] # Resting /\ agent[a].anomaly = x

\* A failed investigation gives its anomaly back: one that is INVESTIGATING, and was
\* not set so by a person since, has an investigation that did not fail, whatever
\* the order in which several investigations of it, database errors and people
\* interfered.
AnomalyIsReleased ==
    \A x \in DOMAIN anomalies \ byHand :
        anomalies[x].status = "INVESTIGATING" =>
            \E i \in Of(x) : invs[i].status # "FAILED"

\* The tasks that run an investigation, from the moment they have read its row on.
Runs(a, i) ==
    /\ agent[a] # Resting /\ agent[a].inv = i
    /\ agent[a].pc \notin {"rate", "read", "create", "start"}

\* What cancel() can promise although statuses are written without looking at them:
\* an investigation that is CANCELLED while no task has read its row to run it stays
\* so and collects nothing more; only a task that runs it already writes over that.
CancelIsKept ==
    [][\A i \in DOMAIN invs :
          invs[i].status = "CANCELLED" /\ (\A a \in Agents : ~Runs(a, i)) =>
              /\ invs'[i] = invs[i]
              /\ \A a \in Agents : ~Runs(a, i)']_vars

NamesARow(r) == CASE r[1] = "A"     -> r[2] \in DOMAIN anomalies
                  [] r[1] = "M"     -> r[2] \in Metrics \/ r \in elsewhere
                  [] r[1] = "ALERT" -> \E a \in alerts : a[1] = r[2]
                  [] OTHER          -> r \in elsewhere

\* What a tool may return: a reference of a row, or one that the payload of an event holds.
Citable(r) == NamesARow(r) \/ r \in Embedded

\* A conclusion cites only what its own stored tool calls returned: rows that the
\* platform has, or what the payload of an event calls a reference, never what a
\* model made up; and a cause that cites nothing is not stated with confidence,
\* whichever provider answered.
GroundedConclusion ==
    \A i \in DOMAIN invs :
        LET c == invs[i].conclusion
        IN  /\ c.refs \subseteq invs[i].refs
            /\ \A r \in c.refs : Citable(r)
            /\ c.cause = "found" /\ c.refs = {} => c.confidence <= 20

\* The hourly limit bounds what a burst of anomalies costs: the worker's
\* investigations make at most ai_max_tool_calls + 3 calls each, retries of a
\* message and crashes included, as long as Redis keeps the count; one response
\* can overrun the tool budget, none after it.  The mock provider asks for its
\* whole plan before it concludes, so it runs out of responses only when the plan
\* does not fit into ai_max_tool_calls.
CostBound ==
    /\ TypeOK
    /\ chats <= RateLimit * (MaxCalls + 3)
    /\ \A a \in Agents : At(a, "chat") =>
          /\ agent[a].seq < MaxCalls + PerResponse
          /\ agent[a].mock /\ agent[a].step = MaxCalls + 3 => MaxCalls < Len(Plan)

----------------------------------------------------------------------------
(* What the properties rest on *)

\* A task past create_investigation() has its row, of an anomaly that is there.
HasRow(a) ==
    /\ agent[a].pc \notin {"rate", "read"} => agent[a].anomaly \in DOMAIN anomalies
    /\ agent[a].pc \notin {"rate", "read", "create"} =>
          agent[a].inv \in DOMAIN invs /\ invs[agent[a].inv].anomaly = agent[a].anomaly
RunsHaveRows == \A a \in Agents : agent[a] # Resting => HasRow(a)

\* Every consumed message, committed row or not, led to an investigation, was
\* dropped, or is with a task of the worker: one of a request may just end.
Known(x) ==
    \/ Of(x) # {} \/ x \in dropped
    \/ \E a \in Agents : agent[a] # Resting /\ agent[a].worker /\ agent[a].anomaly = x
TakenIsKnown == \A x \in taken : Known(x)

\* An anomaly under investigation has one that did not fail and, if it is about
\* to, has read that it must release the anomaly.
Releases(i) == \A a \in Agents : At(a, "failing") /\ agent[a].inv = i => agent[a].open
ReleaseIsDue ==
    \A x \in DOMAIN anomalies \ byHand : anomalies[x].status = "INVESTIGATING" =>
        \E i \in Of(x) : invs[i].status # "FAILED" /\ Releases(i)

\* What a task collected was stored with its investigation, and is of a row or of a
\* payload.
Stored(a) ==
    IF agent[a].pc \in {"chat", "complete"} THEN agent[a].refs \subseteq invs[agent[a].inv].refs
    ELSE agent[a].refs = {}
EvidenceIsStored ==
    /\ \A i \in DOMAIN invs : \A r \in invs[i].refs : Citable(r)
    /\ \A a \in Agents : agent[a] # Resting => Stored(a)

\* chat() calls that metered investigations may still make; none before its first.
CallsLeft ==
    {p \in Agents \X (1..MaxCalls + 3) :
        /\ agent[p[1]] # Resting /\ agent[p[1]].metered /\ agent[p[1]].step < p[2]
        /\ agent[p[1]].pc \in {"read", "create", "start", "starting", "chat"}}
Budget(n) == n * (MaxCalls + 3)
Frugal(a) ==
    /\ agent[a].seq < MaxCalls + PerResponse
    /\ agent[a].pc # "chat" => agent[a].step = 0 /\ agent[a].seq = 0
    /\ agent[a].pc = "rate" => ~agent[a].metered
    /\ agent[a].pc = "chat" /\ agent[a].mock =>
          MaxCalls < Len(Plan) \/ (agent[a].step = agent[a].seq /\ agent[a].seq <= MaxCalls)
CostIsCounted ==
    /\ chats + Cardinality(CallsLeft) <= Budget(IF rate <= RateLimit THEN rate ELSE RateLimit)
    /\ \A a \in Agents : agent[a] # Resting => Frugal(a)

IndInv ==
    /\ DetectInv /\ TypeOK /\ RunsHaveRows /\ TakenIsKnown /\ ReleaseIsDue
    /\ EvidenceIsStored /\ GroundedConclusion /\ CostIsCounted
=============================================================================
