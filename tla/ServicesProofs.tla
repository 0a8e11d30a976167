--------------------------- MODULE ServicesProofs ---------------------------
(***************************************************************************)
(* Proofs about the services around the event path: the audit trail, the   *)
(* names of producers and the rate limiter (Gateway); the samples of the   *)
(* lag monitor and the console's stream (Live); windows and the states of  *)
(* the aggregators (Windows).                                              *)
(***************************************************************************)
EXTENDS Gateway, Live, Windows, FiniteSetTheorems, WellFoundedInduction, TLAPS

----------------------------------------------------------------------------
(* The audit trail *)

\* Before the first request the trail has nothing to account for.
LEMMA TrailInit == GateInit => TrailInv
BY DEF GateInit, TrailInv, TrailIsComplete, RequestIsOpen, NoCall, Audited, Traced

\* A step that touches no outcome, leaves no new trace and loses no message.
LEMMA QuietTrail ==
  ASSUME TrailInv, UNCHANGED ops, DOMAIN call' = Callers, Traced' \subseteq Traced,
         \A n \in DOMAIN ops : Accounted(n) => Accounted(n)',
         \A c \in Callers : Audited(c)' =>
            /\ Audited(c) /\ call'[c].op = call[c].op
            /\ BeforeAudit(c)' => BeforeAudit(c)
            /\ AfterAudit(c)' => AfterAudit(c)
  PROVE  TrailInv'
<1>1. TrailIsComplete'
  BY DEF TrailInv, TrailIsComplete
<1>2. RequestIsOpen'
  BY DEF TrailInv, RequestIsOpen
<1> QED BY <1>1, <1>2 DEF TrailInv

\* A step that leaves the trail alone, and the requests but one that is not audited.
LEMMA RestTrail ==
  ASSUME TrailInv, UNCHANGED <<ops, trail, audits, silent, deadAudits>>, DOMAIN call' = Callers,
         \A c \in Callers : call'[c] = call[c] \/ ~Audited(c)'
  PROVE  TrailInv'
<1>1. Traced' = Traced /\ \A n : Accounted(n)' <=> Accounted(n)
  BY DEF Traced, Accounted
<1>2. \A c \in Callers : Audited(c)' =>
        /\ Audited(c) /\ call'[c].op = call[c].op
        /\ BeforeAudit(c)' => BeforeAudit(c)
        /\ AfterAudit(c)' => AfterAudit(c)
  BY DEF Audited, BeforeAudit, AfterAudit
<1> QED BY <1>1, <1>2, QuietTrail

\* Opening a request adds an operation without an outcome.
LEMMA OpensTrail ==
  ASSUME TrailInv, NEW c \in Callers, NEW step \in {"flush", "audit"}, NEW what, NEW same,
         Opens(c, step, what, same)
  PROVE  TrailInv'
<1>1. /\ ops \in Seq(Outcomes) /\ "open" \in Outcomes /\ DOMAIN call = Callers
      /\ Traced \subseteq DOMAIN ops
  BY DEF TrailInv, Outcomes
<1>2. ops' = Append(ops, "open") /\ UNCHANGED <<trail, audits, silent, deadAudits>>
  BY DEF Opens
<1>3. /\ ops' \in Seq(Outcomes) /\ DOMAIN ops' = DOMAIN ops \cup {Len(ops) + 1}
      /\ Len(ops) + 1 \notin DOMAIN ops /\ ops'[Len(ops) + 1] = "open"
      /\ \A n \in DOMAIN ops : ops'[n] = ops[n]
  BY <1>1, <1>2
<1>4. PICK g : g = [pc |-> step, what |-> what, same |-> same, op |-> Len(ops) + 1]
  OBVIOUS
<1>5. /\ DOMAIN call' = Callers /\ call'[c] = g /\ g.pc = step /\ g.op = Len(ops) + 1
      /\ \A d \in Callers \ {c} : call'[d] = call[d]
  BY <1>1, <1>4 DEF Opens
<1>6. Traced' = Traced /\ \A n : Accounted(n)' <=> Accounted(n)
  BY <1>2 DEF Traced, Accounted
<1>7. TrailIsComplete'
  BY <1>3, <1>6 DEF TrailInv, TrailIsComplete
<1>8. ASSUME NEW d \in Callers, d # c
      PROVE  /\ (Audited(d)' <=> Audited(d)) /\ (BeforeAudit(d)' <=> BeforeAudit(d)) /\ (AfterAudit(d)' <=> AfterAudit(d))
             /\ Audited(d) => call[d].op \in DOMAIN ops
  BY <1>5, <1>8 DEF Audited, BeforeAudit, AfterAudit, TrailInv, RequestIsOpen
<1>9. ~AfterAudit(c)' /\ call'[c].op = Len(ops) + 1
  BY <1>5 DEF AfterAudit
<1>10. RequestIsOpen'
  <2> SUFFICES ASSUME NEW d \in Callers, Audited(d)'
               PROVE  /\ call'[d].op \in DOMAIN ops' /\ ops'[call'[d].op] = "open"
                      /\ BeforeAudit(d)' => call'[d].op \notin Traced'
                      /\ AfterAudit(d)' => Accounted(call[d].op)'
                      /\ \A b \in Callers : Audited(b)' /\ call'[b].op = call'[d].op => b = d
    BY DEF RequestIsOpen
  <2>1. CASE d = c
    BY <1>1, <1>3, <1>5, <1>6, <1>8, <1>9, <2>1
  <2>2. CASE d # c
    BY <1>3, <1>5, <1>6, <1>8, <1>9, <2>2 DEF TrailInv, RequestIsOpen
  <2> QED BY <2>1, <2>2
<1> QED BY <1>1, <1>3, <1>5, <1>6, <1>7, <1>10 DEF TrailInv

\* Ending a request with an outcome that the trail bears out.
LEMMA EndTrail ==
  ASSUME TrailInv, NEW c \in Callers, NEW outcome \in Outcomes, End(c, outcome), Audited(c),
         Traced' \subseteq Traced \cup {call[c].op},
         \A n \in DOMAIN ops : Accounted(n) => Accounted(n)',
         outcome = "failed" => BeforeAudit(c) /\ Traced' \subseteq Traced,
         outcome # "failed" => AfterAudit(c)
  PROVE  TrailInv'
<1>1. PICK op : op = call[c].op
  OBVIOUS
<1>2. /\ op \in DOMAIN ops /\ ops[op] = "open" /\ ops \in Seq(Outcomes) /\ DOMAIN call = Callers
      /\ Traced \subseteq DOMAIN ops
      /\ BeforeAudit(c) => op \notin Traced
      /\ AfterAudit(c) => Accounted(op)
      /\ \A d \in Callers : Audited(d) /\ d # c => call[d].op # op
  BY <1>1 DEF TrailInv, RequestIsOpen
<1>3. /\ DOMAIN call' = Callers /\ ops' \in Seq(Outcomes) /\ DOMAIN ops' = DOMAIN ops
      /\ ops'[op] = outcome /\ \A n \in DOMAIN ops : n # op => ops'[n] = ops[n]
  <2>1. ops' = [ops EXCEPT ![op] = outcome] /\ DOMAIN call' = Callers
    BY <1>1, <1>2 DEF End
  <2>2. ops \in [1..Len(ops) -> Outcomes] /\ Len(ops) \in Nat
    BY <1>2
  <2>3. ops' \in [1..Len(ops) -> Outcomes]
    BY <2>1, <2>2
  <2>4. ops' \in Seq(Outcomes)
    BY <2>2, <2>3, SMTT(30)
  <2> QED BY <1>2, <2>1, <2>2, <2>4
<1>4. Traced' \subseteq Traced \cup {op}
  BY <1>1
<1>5. TrailIsComplete'
  <2> SUFFICES ASSUME NEW n \in DOMAIN ops
               PROVE  /\ ops'[n] \in {"done", "refused", "undone"} => Accounted(n)'
                      /\ ops'[n] = "failed" => n \notin Traced'
    BY <1>3 DEF TrailIsComplete
  <2>1. CASE n = op
    BY <1>2, <1>3, <2>1
  <2>2. CASE n # op
    BY <1>3, <1>4, <2>2 DEF TrailInv, TrailIsComplete
  <2> QED BY <2>1, <2>2
<1>6. ~Audited(c)' /\ \A d \in Callers \ {c} : call'[d] = call[d]
  BY <1>2 DEF End, Audited
<1>7. RequestIsOpen'
  <2> SUFFICES ASSUME NEW d \in Callers, Audited(d)'
               PROVE  /\ call'[d].op \in DOMAIN ops' /\ ops'[call'[d].op] = "open"
                      /\ BeforeAudit(d)' => call'[d].op \notin Traced'
                      /\ AfterAudit(d)' => Accounted(call[d].op)'
                      /\ \A b \in Callers : Audited(b)' /\ call'[b].op = call'[d].op => b = d
    BY DEF RequestIsOpen
  <2>1. /\ d # c /\ call'[d] = call[d] /\ Audited(d)
        /\ (BeforeAudit(d)' <=> BeforeAudit(d)) /\ (AfterAudit(d)' <=> AfterAudit(d))
    BY <1>6 DEF Audited, BeforeAudit, AfterAudit
  <2>2. /\ call[d].op \in DOMAIN ops /\ ops[call[d].op] = "open" /\ call[d].op # op
        /\ BeforeAudit(d) => call[d].op \notin Traced
        /\ AfterAudit(d) => Accounted(call[d].op)
        /\ \A b \in Callers : Audited(b) /\ call[b].op = call[d].op => b = d
    BY <1>2, <2>1 DEF TrailInv, RequestIsOpen
  <2>3. \A b \in Callers : Audited(b)' => Audited(b) /\ call'[b] = call[b]
    BY <1>6 DEF Audited, BeforeAudit, AfterAudit
  <2> QED BY <1>3, <1>4, <2>1, <2>2, <2>3
<1> QED BY <1>2, <1>3, <1>4, <1>5, <1>7 DEF TrailInv

\* audit(): the operation leaves its trace.
LEMMA AuditTrail ==
  ASSUME TrailInv, NEW c \in Callers, Audit(c)
  PROVE  TrailInv'
<1>1. PICK op, g : op = call[c].op /\ g = call[c]
  OBVIOUS
<1>2. /\ call[c] # NoCall /\ g.pc = "audit" /\ DOMAIN call = Callers
      /\ UNCHANGED <<ops, trail, deadAudits>> /\ silent \subseteq silent'
      /\ op \in audits' \cup silent' /\ audits \subseteq audits' /\ audits' \subseteq audits \cup {op}
      /\ \E pc \in {"commit", "refuse"} : call' = [call EXCEPT ![c].pc = pc]
  BY <1>1 DEF Audit, TrailInv
<1>3. /\ Audited(c) /\ op \in DOMAIN ops /\ ops[op] = "open" /\ Traced \subseteq DOMAIN ops
      /\ \A d \in Callers : Audited(d) /\ d # c => call[d].op # op
  BY <1>1, <1>2 DEF Audited, BeforeAudit, TrailInv, RequestIsOpen
<1>4. PICK pc \in {"commit", "refuse"} : call' = [call EXCEPT ![c].pc = pc]
  BY <1>2
<1>5. /\ DOMAIN call' = Callers /\ call'[c] = [g EXCEPT !.pc = pc]
      /\ \A d \in Callers \ {c} : call'[d] = call[d]
  BY <1>1, <1>2, <1>4
<1>6. call'[c].op = op /\ ~BeforeAudit(c)'
  <2>1. call'[c].op = op
    BY <1>1, <1>5
  <2>2. g.pc = "audit" => call'[c].pc = pc \/ "pc" \notin DOMAIN g
    BY <1>5
  <2>3. call'[c].pc \notin {"flush", "audit"}
    BY <1>2, <1>5, <2>2
  <2> QED BY <2>1, <2>3 DEF BeforeAudit
<1>7. Traced' \subseteq Traced \cup {op} /\ Accounted(op)' /\ \A n : Accounted(n) => Accounted(n)'
  BY <1>2 DEF Traced, Accounted
<1>8. TrailIsComplete'
  BY <1>2, <1>3, <1>7 DEF TrailInv, TrailIsComplete
<1>9. RequestIsOpen'
  <2> SUFFICES ASSUME NEW d \in Callers, Audited(d)'
               PROVE  /\ call'[d].op \in DOMAIN ops' /\ ops'[call'[d].op] = "open"
                      /\ BeforeAudit(d)' => call'[d].op \notin Traced'
                      /\ AfterAudit(d)' => Accounted(call[d].op)'
                      /\ \A b \in Callers : Audited(b)' /\ call'[b].op = call'[d].op => b = d
    BY DEF RequestIsOpen
  <2>1. \A b \in Callers \ {c} : /\ call'[b] = call[b] /\ (Audited(b)' <=> Audited(b))
                                 /\ (BeforeAudit(b)' <=> BeforeAudit(b)) /\ (AfterAudit(b)' <=> AfterAudit(b))
    BY <1>5 DEF Audited, BeforeAudit, AfterAudit
  <2>2. CASE d = c
    BY <1>2, <1>3, <1>6, <1>7, <2>1, <2>2
  <2>3. CASE d # c
    BY <1>2, <1>3, <1>6, <1>7, <2>1, <2>3 DEF TrailInv, RequestIsOpen
  <2> QED BY <2>2, <2>3
<1> QED BY <1>2, <1>3, <1>5, <1>7, <1>8, <1>9 DEF TrailInv

\* Every step of the API and of the audit worker keeps the trail complete.
LEMMA TrailNext == TrailInv /\ [GateNext]_gateVars => TrailInv'
<1> SUFFICES ASSUME TrailInv, [GateNext]_gateVars PROVE TrailInv'
  OBVIOUS
<1>1. CASE GateTick
  BY <1>1, RestTrail DEF GateTick, TrailInv
<1>2. CASE AuditWorker \/ AuditWorkerFails
  <2>1. UNCHANGED <<ops, call>> /\ DOMAIN call' = Callers
    BY <1>2 DEF AuditWorker, AuditWorkerFails, TrailInv
  <2>2. PICK n \in audits :
          /\ audits \ {n} \subseteq audits' /\ audits' \subseteq audits /\ UNCHANGED silent
          /\ \/ trail' = trail \cup {<<n, "worker">>} /\ UNCHANGED deadAudits
             \/ deadAudits' = deadAudits \cup {n} /\ UNCHANGED trail
    BY <1>2 DEF AuditWorker, AuditWorkerFails, Consumed
  <2>3. Traced' \subseteq Traced
    BY <2>2 DEF Traced
  <2>4. \A m \in DOMAIN ops : Accounted(m) => Accounted(m)'
    BY <2>2 DEF Accounted
  <2>5. \A c \in Callers : Audited(c)' =>
          /\ Audited(c) /\ call'[c].op = call[c].op
          /\ BeforeAudit(c)' => BeforeAudit(c)
          /\ AfterAudit(c)' => AfterAudit(c)
    BY <2>1 DEF Audited, BeforeAudit, AfterAudit
  <2> QED BY <2>1, <2>3, <2>4, <2>5, QuietTrail
<1>3. ASSUME NEW c \in Callers, NEW k \in 1..keys, Authenticate(c, k) PROVE TrailInv'
  BY <1>3, RestTrail DEF Authenticate, TrailInv, Audited, BeforeAudit, AfterAudit
<1>4. ASSUME NEW c \in Callers, Stamp(c) PROVE TrailInv'
  BY <1>4, RestTrail DEF Stamp, TrailInv, Audited, BeforeAudit, AfterAudit
<1>5. ASSUME NEW c \in Callers, Evaluate(c) PROVE TrailInv'
  BY <1>5, RestTrail DEF Evaluate, TrailInv, Audited
<1>6. ASSUME NEW c \in Callers, LimiterFails(c) PROVE TrailInv'
  BY <1>6, RestTrail DEF LimiterFails, TrailInv, Audited
<1>7. ASSUME NEW c \in Callers, LoginFails(c) \/ LoginSucceeds(c) PROVE TrailInv'
  BY <1>7, OpensTrail DEF LoginFails, LoginSucceeds
<1>8. ASSUME NEW c \in Callers, NEW what \in Changes, Edit(c, what) PROVE TrailInv'
  BY <1>8, OpensTrail DEF Edit
<1>9. ASSUME NEW c \in Callers, Flush(c) PROVE TrailInv'
  <2>1. /\ call[c] # NoCall /\ BeforeAudit(c) /\ Audited(c)
        /\ UNCHANGED <<trail, audits, silent, deadAudits>>
    BY <1>9 DEF Flush, Audited, BeforeAudit
  <2>2. Traced' = Traced /\ \A n : Accounted(n)' <=> Accounted(n)
    BY <2>1 DEF Traced, Accounted
  <2>3. CASE End(c, "failed")
    BY <2>1, <2>2, <2>3, EndTrail DEF Outcomes
  <2>4. CASE ~End(c, "failed")
    <3>1. UNCHANGED ops /\ DOMAIN call' = Callers
      BY <1>9, <2>4 DEF Flush, TrailInv
    <3>2. call'[c].op = call[c].op /\ call'[c].pc = "audit"
      BY <1>9, <2>4 DEF Flush, TrailInv
    <3>3. \A d \in Callers \ {c} : call'[d] = call[d]
      BY <1>9, <2>4 DEF Flush, TrailInv
    <3>4. \A d \in Callers : Audited(d)' =>
            /\ Audited(d) /\ call'[d].op = call[d].op
            /\ BeforeAudit(d)' => BeforeAudit(d)
            /\ AfterAudit(d)' => AfterAudit(d)
      BY <2>1, <3>2, <3>3 DEF Audited, BeforeAudit, AfterAudit
    <3> QED BY <2>2, <3>1, <3>4, QuietTrail
  <2> QED BY <2>3, <2>4
<1>10. ASSUME NEW c \in Callers, Audit(c) PROVE TrailInv'
  BY <1>10, AuditTrail
<1>11. ASSUME NEW c \in Callers, NEW outcome \in {"done", "refused", "undone"}, End(c, outcome),
              call[c] # NoCall, AfterAudit(c), UNCHANGED <<audits, silent, deadAudits>>,
              trail \subseteq trail', trail' \subseteq trail \cup {<<call[c].op, "api">>}
       PROVE  TrailInv'
  <2>1. Audited(c) /\ outcome \in Outcomes
    BY <1>11 DEF Audited, Outcomes
  <2>2. Traced' \subseteq Traced \cup {call[c].op} /\ \A n : Accounted(n) => Accounted(n)'
    BY <1>11 DEF Traced, Accounted
  <2> QED BY <1>11, <2>1, <2>2, EndTrail
<1>12. ASSUME NEW c \in Callers, Refuse(c) PROVE TrailInv'
  BY <1>11, <1>12 DEF Refuse, AfterAudit
<1>13. ASSUME NEW c \in Callers, CommitEdit(c) PROVE TrailInv'
  <2>1. /\ call[c] # NoCall /\ call[c].pc = "commit" /\ End(c, "done")
        /\ UNCHANGED <<audits, silent, deadAudits>> /\ trail' = trail \cup {<<call[c].op, "api">>}
    BY <1>13, Zenon DEF CommitEdit
  <2> QED BY <1>11, <2>1 DEF AfterAudit
<1>14. ASSUME NEW c \in Callers, CommitEditFails(c) PROVE TrailInv'
  BY <1>11, <1>14 DEF CommitEditFails, AfterAudit
<1>15. CASE UNCHANGED gateVars
  BY <1>15, RestTrail DEF gateVars, TrailInv
<1> QED
  BY <1>1, <1>2, <1>3, <1>4, <1>5, <1>6, <1>7, <1>8, <1>9, <1>10, <1>12, <1>13, <1>14, <1>15
  DEF GateNext

\* For any number of callers, limits and failures, of the broker, of commits and of
\* the audit worker: the message of a change or of a refused login is on the topic, in
\* the table, a dead letter, or was lost to the broker, and a request that ended
\* before its audit() left no trace.
THEOREM TrailSafety == GateSpec => []TrailIsComplete
<1>1. TrailInv => TrailIsComplete
  BY DEF TrailInv
<1> QED BY <1>1, TrailInit, TrailNext, PTL DEF GateSpec

----------------------------------------------------------------------------
(* Names of producers *)

\* A step that commits no name, in which no request comes to hold one anew.
LEMMA QuietNames ==
  ASSUME NameIsUnique, UNCHANGED names,
         \A c \in Callers : call'[c] = call[c] \/ ~Inserts(c)'
  PROVE  NameIsUnique'
BY DEF NameIsUnique, Inserts

\* The unique index and the lock of an uncommitted insert keep a name unique.
LEMMA NamesNext ==
  NameIsUnique /\ DOMAIN call = Callers /\ [GateNext]_gateVars => NameIsUnique'
<1> SUFFICES ASSUME NameIsUnique, DOMAIN call = Callers, [GateNext]_gateVars
             PROVE  NameIsUnique'
  OBVIOUS
<1>1. CASE GateTick \/ AuditWorker \/ AuditWorkerFails \/ UNCHANGED gateVars
  BY <1>1, QuietNames DEF GateTick, AuditWorker, AuditWorkerFails, gateVars
<1>2. ASSUME NEW c \in Callers, NEW k \in 1..keys, Authenticate(c, k) PROVE NameIsUnique'
  BY <1>2, QuietNames DEF Authenticate, Inserts
<1>3. ASSUME NEW c \in Callers, Stamp(c) PROVE NameIsUnique'
  <2>1. UNCHANGED names /\ \A d \in Callers : d # c => call'[d] = call[d]
    BY <1>3 DEF Stamp
  <2>2. call'[c].pc = "eval"
    BY <1>3 DEF Stamp
  <2> QED BY <2>1, <2>2, QuietNames DEF Inserts
<1>4. ASSUME NEW c \in Callers, Evaluate(c) \/ LimiterFails(c) \/ Refuse(c) \/ CommitEditFails(c)
      PROVE  NameIsUnique'
  <2>1. UNCHANGED names /\ call' = [call EXCEPT ![c] = NoCall]
    BY <1>4, Zenon DEF Evaluate, LimiterFails, Refuse, CommitEditFails, End
  <2> QED BY <2>1, QuietNames DEF Inserts
<1>5. ASSUME NEW c \in Callers,
             \/ LoginFails(c) \/ LoginSucceeds(c)
             \/ \E what \in Changes : Edit(c, what)
      PROVE  NameIsUnique'
  <2>1. UNCHANGED names /\ \A d \in Callers : d # c => call'[d] = call[d]
    BY <1>5 DEF LoginFails, LoginSucceeds, Edit, Opens
  <2>2. call'[c].pc = "flush" \/ call'[c].what \in {"login", "signin"}
    BY <1>5 DEF LoginFails, LoginSucceeds, Edit, Opens
  <2> QED BY <2>1, <2>2, QuietNames DEF Inserts
<1>6. ASSUME NEW c \in Callers, Flush(c) PROVE NameIsUnique'
  <2>1. UNCHANGED names /\ \A d \in Callers : d # c => call'[d] = call[d]
    BY <1>6 DEF Flush, End
  <2>2. CASE call[c].what # "create" \/ call'[c] = NoCall
    <3>1. call'[c] = NoCall \/ call'[c].what = call[c].what
      BY <1>6 DEF Flush, End
    <3> QED BY <2>1, <2>2, <3>1, QuietNames DEF Inserts
  <2>3. CASE call[c].what = "create" /\ call'[c] # NoCall
    <3>1. ~call[c].same /\ ~(names > 0)
      BY <1>6, <2>3 DEF Flush, End
    <3>2. \A o \in Callers \ {c} : ~Holds(o, {"create"})
      BY <1>6, <2>3, <3>1 DEF Flush
    <3>3. names = 0 /\ \A o \in Callers \ {c} : ~Inserts(o)
      BY <3>1, <3>2 DEF NameIsUnique, Inserts, Holds
    <3>4. call'[c].same = call[c].same
      BY <1>6, <2>3, <3>1 DEF Flush
    <3>5. \A o \in Callers : Inserts(o)' => o = c
      BY <2>1, <3>3 DEF Inserts
    <3> QED BY <2>1, <3>1, <3>3, <3>4, <3>5 DEF NameIsUnique
  <2> QED BY <2>2, <2>3
<1>7. ASSUME NEW c \in Callers, Audit(c) PROVE NameIsUnique'
  <2>1. UNCHANGED names /\ \A d \in Callers : d # c => call'[d] = call[d]
    BY <1>7 DEF Audit
  <2>2. call'[c].what = call[c].what /\ call'[c].same = call[c].same
    BY <1>7 DEF Audit
  <2>3. \A d \in Callers : Inserts(d)' => Inserts(d) /\ call'[d].same = call[d].same
    BY <1>7, <2>1, <2>2 DEF Inserts, Audit
  <2> QED BY <2>1, <2>3 DEF NameIsUnique
<1>8. ASSUME NEW c \in Callers, CommitEdit(c) PROVE NameIsUnique'
  <2>1. call' = [call EXCEPT ![c] = NoCall]
    BY <1>8, Zenon DEF CommitEdit, End
  <2>2. call[c] # NoCall /\ call[c].pc = "commit"
    BY <1>8, Zenon DEF CommitEdit
  <2>3. names' = IF call[c].what = "create" THEN names + 1 ELSE names
    BY <1>8, Zenon DEF CommitEdit
  <2>4. CASE call[c].what = "create"
    <3>1. Inserts(c) /\ names = 0 /\ names' = 1
      BY <2>2, <2>3, <2>4 DEF Inserts, NameIsUnique
    <3>2. \A d \in Callers : ~Inserts(d)'
      BY <2>1, <3>1 DEF Inserts, NameIsUnique
    <3> QED BY <3>1, <3>2 DEF NameIsUnique
  <2>5. CASE call[c].what # "create"
    BY <2>1, <2>3, <2>5, QuietNames DEF Inserts
  <2> QED BY <2>4, <2>5
<1> QED BY <1>1, <1>2, <1>3, <1>4, <1>5, <1>6, <1>7, <1>8 DEF GateNext

\* For any number of concurrent create() requests: of those that ask for a name
\* at most one is between its insert and its commit, none once the name is
\* committed, and the name never has two rows.
THEOREM NameSafety == GateSpec => []NameIsUnique
<1>1. GateInit => NameIsUnique
  BY DEF GateInit, NameIsUnique, Inserts, NoCall
<1>2. TrailInv => DOMAIN call = Callers
  BY DEF TrailInv
<1> QED BY <1>1, <1>2, NamesNext, TrailInit, TrailNext, PTL DEF GateSpec

----------------------------------------------------------------------------
(* The rate limiter *)

\* A set of natural numbers that is not empty has a least one.
LEMMA LeastNumber ==
  ASSUME NEW S \in SUBSET Nat, S # {}
  PROVE  \E m \in S : \A k \in S : m <= k
<1> DEFINE Less == {p \in Nat \X Nat : p[1] < p[2]}
<1>1. IsWellFoundedOn(Less, Nat)
  BY NatLessThanWellFounded DEF OpToRel
<1>2. PICK m \in S : \A k \in S : ~ (<<k, m>> \in Less)
  <2> HIDE DEF Less
  <2> QED BY <1>1, WFMin
<1>3. ASSUME NEW k \in S PROVE m <= k
  <2>1. k \in Nat /\ m \in Nat
    OBVIOUS
  <2>2. ~(k < m)
    BY <1>2, <2>1
  <2> QED BY <2>1, <2>2
<1> QED BY <1>3

\* A finite one has a greatest: the one with the fewest above it.
LEMMA GreatestNumber ==
  ASSUME NEW S \in SUBSET Nat, S # {}, IsFiniteSet(S)
  PROVE  Max(S) \in S /\ \A k \in S : k <= Max(S)
<1> DEFINE Above(x) == {y \in S : y > x}
           Counts == {Cardinality(Above(x)) : x \in S}
<1>1. \A x \in S : IsFiniteSet(Above(x)) /\ Cardinality(Above(x)) \in Nat
  <2> TAKE x \in S
  <2>1. Above(x) \subseteq S
    OBVIOUS
  <2>2. IsFiniteSet(Above(x))
    BY <2>1, FS_Subset
  <2> QED BY <2>2, FS_CardinalityType
<1>2. PICK c \in Counts : \A k \in Counts : c <= k
  <2>1. Counts \in SUBSET Nat /\ Counts # {}
    BY <1>1
  <2> HIDE DEF Counts
  <2> QED BY <2>1, LeastNumber
<1>3. PICK x \in S : c = Cardinality(Above(x))
  OBVIOUS
<1>4. ASSUME NEW y \in S PROVE y <= x
  <2>0. x \in Nat /\ y \in Nat
    OBVIOUS
  <2> SUFFICES ASSUME y > x PROVE FALSE
    BY <2>0
  <2>1. Above(y) \subseteq Above(x) /\ y \in Above(x) /\ y \notin Above(y)
    <3>1. ASSUME NEW z \in S, z > y PROVE z > x
      <4>1. z \in Nat
        OBVIOUS
      <4> QED BY <2>0, <3>1, <4>1
    <3>2. ~(y > y)
      BY <2>0
    <3> QED BY <3>1, <3>2
  <2>2. Cardinality(Above(y)) < Cardinality(Above(x))
    <3>1. /\ Cardinality(Above(y)) <= Cardinality(Above(x))
          /\ Cardinality(Above(x)) = Cardinality(Above(y)) => Above(x) = Above(y)
      <4>1. Above(y) \in SUBSET Above(x) /\ IsFiniteSet(Above(x))
        BY <1>1, <2>1
      <4> HIDE DEF Above
      <4> QED BY <4>1, FS_Subset
    <3>2. Above(x) # Above(y)
      BY <2>1
    <3>3. Cardinality(Above(x)) \in Nat /\ Cardinality(Above(y)) \in Nat
      BY <1>1
    <3> HIDE DEF Above
    <3> QED BY <3>1, <3>2, <3>3
  <2>3. c <= Cardinality(Above(y))
    BY <1>2
  <2>4. Cardinality(Above(x)) \in Nat /\ Cardinality(Above(y)) \in Nat
    BY <1>1
  <2> HIDE DEF Above, Counts
  <2> QED BY <1>3, <2>2, <2>3, <2>4
<1> QED BY <1>4 DEF Max

\* A step that leaves the limiter alone.
LEMMA QuietLimiter ==
  ASSUME LimiterInv, UNCHANGED <<now, zset, expiry, granted>>, DOMAIN call' = Callers,
         producer'.limit \in Limits,
         \A c \in Callers : \/ call'[c] = call[c] \/ call'[c] = NoCall
                            \/ call'[c].pc \notin {"limit", "eval"}
                            \/ call'[c].pc = "limit" /\ call'[c].limit \in Limits
                            \/ /\ call'[c].pc = "eval" /\ call'[c].limit \in Limits
                               /\ call'[c].at = now
  PROVE  LimiterInv'
<1>1. now \in Nat /\ MaxDelay \in Nat
  BY GateAssumption DEF LimiterInv
<1>2. \A c \in Callers : call'[c] # NoCall /\ call'[c].pc = "limit" => call'[c].limit \in Limits
  BY DEF LimiterInv
<1>3. \A c \in Callers : call'[c] # NoCall /\ call'[c].pc = "eval" =>
          call'[c].limit \in Limits /\ call'[c].at \in 0..now /\ now - call'[c].at <= MaxDelay
  BY <1>1 DEF LimiterInv
<1> QED BY <1>2, <1>3 DEF LimiterInv

\* The script: what it removes is over, what it adds is new to every span with
\* room, as all other members of such a span are still in the sorted set.
LEMMA EvaluateLimiter ==
  ASSUME LimiterInv, NEW c \in Callers, Evaluate(c)
  PROVE  /\ LimiterInv'
         /\ \A t \in 0..MaxNow : Cardinality(Within(t)) <= Max(Limits) =>
                Cardinality(Within(t)') <= Max(Limits)
<1>1. PICK at : at = call[c].at
  OBVIOUS
<1>2. PICK kept : kept = {e \in zset : e[1] > at - Window}
  OBVIOUS
<1>3. /\ now \in Nat /\ at \in 0..now /\ now - at <= MaxDelay /\ call[c].limit \in Limits
      /\ Window \in Nat /\ MaxDelay \in 0..Window /\ MaxNow \in Nat /\ now \in 0..MaxNow
      /\ \A e \in granted : e[1] \in Nat /\ e[1] <= now
  BY <1>1, GateAssumption DEF LimiterInv, Evaluate
<1>4. /\ now' = now /\ producer' = producer /\ call' = [call EXCEPT ![c] = NoCall]
  BY DEF Evaluate
<1>5. /\ DOMAIN call' = Callers /\ \A d \in Callers : call'[d] = call[d] \/ call'[d] = NoCall
  BY <1>4 DEF LimiterInv
<1>6. kept \subseteq granted /\ \A e \in granted \ kept : e[1] + Window <= now
  <2> SUFFICES ASSUME NEW e \in granted, e \notin kept PROVE e[1] + Window <= now
    BY <1>2 DEF LimiterInv
  <2>1. CASE e \in zset
    BY <1>2, <1>3, <2>1
  <2> QED BY <2>1 DEF LimiterInv
<1>7. CASE zset' = kept /\ UNCHANGED <<expiry, granted>>
  <2>1. LimiterInv'
    BY <1>2, <1>4, <1>5, <1>6, <1>7 DEF LimiterInv
  <2> QED BY <1>7, <2>1 DEF Within
<1>8. ASSUME NEW n \in Draws(at), Cardinality(kept) < call[c].limit,
             zset' = kept \cup {<<at, n>>}, granted' = granted \cup {<<at, n>>},
             expiry' = now + Window
      PROVE  /\ LimiterInv'
             /\ \A t \in 0..MaxNow : Cardinality(Within(t)) <= Max(Limits) =>
                    Cardinality(Within(t)') <= Max(Limits)
  <2>1. n \in Nat \ {0}
    <3>1. IsFiniteSet({e \in granted : e[1] = at})
      BY FS_Subset DEF LimiterInv
    <3>2. Cardinality({e \in granted : e[1] = at}) \in Nat
      BY <3>1, FS_CardinalityType
    <3> QED BY <1>8, <3>2 DEF Draws
  <2>2. PICK b : b = <<at, n>>
    OBVIOUS
  <2>3. IsFiniteSet(granted') /\ granted' \subseteq (0..now) \X (Nat \ {0}) /\ zset' \subseteq granted'
    <3>1. IsFiniteSet(granted')
      BY <1>8, FS_AddElement DEF LimiterInv
    <3>2. b \in (0..now) \X (Nat \ {0})
      BY <1>3, <2>1, <2>2
    <3> QED BY <1>6, <1>8, <2>2, <3>1, <3>2 DEF LimiterInv
  <2>4. \A e \in granted' \ zset' : e[1] + Window <= now
    BY <1>6, <1>8
  <2>5. \A e \in zset' : e[1] + Window <= expiry'
    BY <1>3, <1>6, <1>8
  <2>6. LimiterInv'
    BY <1>3, <1>4, <1>5, <1>8, <2>3, <2>4, <2>5 DEF LimiterInv
  <2>7. ASSUME NEW t \in 0..MaxNow, Cardinality(Within(t)) <= Max(Limits)
        PROVE  Cardinality(Within(t)') <= Max(Limits)
    <3>1. CASE Within(t)' = Within(t)
      BY <2>7, <3>1
    <3>2. CASE Within(t)' # Within(t)
      <4>1. t \in Nat /\ t <= at /\ at < t + (Window - MaxDelay)
        BY <1>3, <1>8, <3>2 DEF Within
      <4>2. Within(t)' \subseteq kept \cup {b}
        <5> SUFFICES ASSUME NEW e \in granted, t <= e[1] PROVE e \in kept
          BY <1>8, <2>2 DEF Within
        <5>1. e[1] + Window > now
          BY <1>3, <4>1
        <5> QED BY <1>3, <1>6, <5>1
      <4>3. IsFiniteSet(kept) /\ Cardinality(kept) \in Nat
        BY <1>6, FS_Subset, FS_CardinalityType DEF LimiterInv
      <4>4. IsFiniteSet(kept \cup {b}) /\ Cardinality(kept \cup {b}) <= Cardinality(kept) + 1
        <5>1. /\ IsFiniteSet(kept \cup {b})
              /\ Cardinality(kept \cup {b}) = IF b \in kept THEN Cardinality(kept) ELSE Cardinality(kept) + 1
          BY <4>3, FS_AddElement
        <5> QED BY <4>3, <5>1
      <4>5. /\ Cardinality(Within(t)') <= Cardinality(kept \cup {b})
            /\ Cardinality(Within(t)') \in Nat /\ Cardinality(kept \cup {b}) \in Nat
        BY <4>2, <4>4, FS_Subset, FS_CardinalityType
      <4>6. call[c].limit \in Nat /\ Max(Limits) \in Nat /\ call[c].limit <= Max(Limits)
        BY <1>3, GreatestNumber, GateAssumption
      <4> QED BY <1>8, <4>3, <4>4, <4>5, <4>6
    <3> QED BY <3>1, <3>2
  <2> QED BY <2>6, <2>7
<1> QED BY <1>1, <1>2, <1>7, <1>8 DEF Evaluate

\* Every step of the API keeps the limiter's invariant, and the bound.
LEMMA LimiterNext ==
  ASSUME LimiterInv, producer'.limit \in Limits, [GateNext]_gateVars
  PROVE  /\ LimiterInv'
         /\ \A t \in 0..MaxNow : Cardinality(Within(t)) <= Max(Limits) =>
                Cardinality(Within(t)') <= Max(Limits)
<1>0. DOMAIN call = Callers /\ Window \in Nat /\ MaxDelay \in Nat /\ now \in Nat /\ MaxNow \in Nat
  BY GateAssumption DEF LimiterInv
<1>1. CASE GateTick
  <2>1. /\ now' = now + 1 /\ now < MaxNow /\ UNCHANGED <<producer, call, expiry, granted>>
        /\ zset' = IF now' >= expiry THEN {} ELSE zset
        /\ \A d \in Callers : call[d] # NoCall /\ call[d].pc = "eval" => now - call[d].at < MaxDelay
    BY <1>1 DEF GateTick
  <2>2. now' \in 0..MaxNow /\ granted' \subseteq (0..now') \X (Nat \ {0}) /\ zset' \subseteq granted'
    BY <1>0, <2>1 DEF LimiterInv
  <2>3. \A e \in granted : e[1] \in Nat
    BY DEF LimiterInv
  <2>4. \A e \in granted' \ zset' : e[1] + Window <= now'
    <3> SUFFICES ASSUME NEW e \in granted, e \notin zset' PROVE e[1] + Window <= now'
      BY <2>1
    <3>1. CASE e \notin zset
      BY <1>0, <2>1, <2>3, <3>1 DEF LimiterInv
    <3>2. CASE e \in zset
      BY <1>0, <2>1, <2>3, <3>2 DEF LimiterInv
    <3> QED BY <3>1, <3>2
  <2>5. \A d \in Callers : call[d] # NoCall /\ call[d].pc = "eval" =>
            call[d].limit \in Limits /\ call[d].at \in 0..now' /\ now' - call[d].at <= MaxDelay
    BY <1>0, <2>1 DEF LimiterInv
  <2>6. LimiterInv'
    BY <1>0, <2>1, <2>2, <2>4, <2>5 DEF LimiterInv
  <2> QED BY <2>1, <2>6 DEF Within
<1>2. ASSUME NEW c \in Callers, Evaluate(c)
      PROVE  /\ LimiterInv'
             /\ \A t \in 0..MaxNow : Cardinality(Within(t)) <= Max(Limits) =>
                    Cardinality(Within(t)') <= Max(Limits)
  BY <1>2, EvaluateLimiter
<1>3. ASSUME UNCHANGED <<now, zset, expiry, granted>>, LimiterInv'
      PROVE  /\ LimiterInv'
             /\ \A t \in 0..MaxNow : Cardinality(Within(t)) <= Max(Limits) =>
                    Cardinality(Within(t)') <= Max(Limits)
  BY <1>3 DEF Within
<1>4. CASE AuditWorker \/ AuditWorkerFails \/ UNCHANGED gateVars
  <2>1. UNCHANGED <<now, zset, expiry, granted, call>>
    BY <1>4 DEF AuditWorker, AuditWorkerFails, gateVars
  <2>2. LimiterInv'
    BY <1>0, <2>1, QuietLimiter
  <2> QED BY <1>3, <2>1, <2>2
<1>5. ASSUME NEW c \in Callers, NEW k \in 1..keys, Authenticate(c, k)
      PROVE  LimiterInv' /\ UNCHANGED <<now, zset, expiry, granted>>
  <2>1. /\ UNCHANGED <<now, zset, expiry, granted>>
        /\ call' = [call EXCEPT ![c] = [pc |-> "limit", limit |-> producer.limit]]
        /\ producer.limit \in Limits
    BY <1>5 DEF Authenticate, LimiterInv
  <2>2. call'[c].pc = "limit" /\ call'[c].limit \in Limits
    BY <1>0, <2>1
  <2> QED BY <1>0, <2>1, <2>2, QuietLimiter
<1>6. ASSUME NEW c \in Callers, Stamp(c)
      PROVE  LimiterInv' /\ UNCHANGED <<now, zset, expiry, granted>>
  <2>1. PICK l \in Limits : l = call[c].limit
    BY <1>6 DEF Stamp, LimiterInv
  <2>2. /\ UNCHANGED <<now, zset, expiry, granted>>
        /\ call' = [call EXCEPT ![c] = [pc |-> "eval", limit |-> l, at |-> now]]
    BY <1>6, <2>1 DEF Stamp
  <2>3. call'[c].pc = "eval" /\ call'[c].limit \in Limits /\ call'[c].at = now
    BY <1>0, <2>1, <2>2
  <2> QED BY <1>0, <2>2, <2>3, QuietLimiter
<1>7. ASSUME NEW c \in Callers,
             \/ LimiterFails(c) \/ LoginFails(c) \/ LoginSucceeds(c) \/ Flush(c) \/ Audit(c)
             \/ Refuse(c) \/ CommitEdit(c) \/ CommitEditFails(c)
             \/ \E what \in Changes : Edit(c, what)
      PROVE  LimiterInv' /\ UNCHANGED <<now, zset, expiry, granted>>
  <2>1. UNCHANGED <<now, zset, expiry, granted>>
    BY <1>7, Zenon
    DEF LimiterFails, LoginFails, LoginSucceeds, Flush, Audit, Refuse, CommitEdit, CommitEditFails,
        Edit, Opens
  <2>2. PICK v : call' = [call EXCEPT ![c] = v]
    BY <1>7, Zenon
    DEF LimiterFails, LoginFails, LoginSucceeds, Flush, Audit, Refuse, CommitEdit, CommitEditFails,
        Edit, Opens, End
  <2>3. call'[c] = NoCall \/ call'[c].pc \notin {"limit", "eval"}
    <3>1. CASE LimiterFails(c) \/ Refuse(c) \/ CommitEdit(c) \/ CommitEditFails(c)
      BY <1>0, <3>1 DEF LimiterFails, Refuse, CommitEdit, CommitEditFails, End
    <3>2. CASE LoginFails(c) \/ LoginSucceeds(c) \/ \E what \in Changes : Edit(c, what)
      BY <1>0, <3>2 DEF LoginFails, LoginSucceeds, Edit, Opens
    <3>3. CASE Flush(c)
      BY <1>0, <3>3 DEF Flush, End
    <3>4. CASE Audit(c)
      BY <1>0, <3>4 DEF Audit
    <3> QED BY <1>7, <3>1, <3>2, <3>3, <3>4
  <2> QED BY <1>0, <2>1, <2>2, <2>3, QuietLimiter
<1> QED BY <1>1, <1>2, <1>3, <1>4, <1>5, <1>6, <1>7 DEF GateNext

\* A step that opens no request and flushes none.
LEMMA QuietAdmin ==
  ASSUME AdminInv, ops' \in Seq(Outcomes), Len(ops') = Len(ops), UNCHANGED <<keys, producer>>,
         \A c \in Callers : \/ call'[c] = call[c] \/ call'[c] = NoCall
                            \/ "pc" \in DOMAIN call'[c] /\ call'[c].pc \in {"limit", "eval"}
                            \/ /\ call[c] # NoCall /\ call[c].pc = "audit" /\ "pc" \in DOMAIN call'[c]
                               /\ call'[c].pc \in {"commit", "refuse"} /\ call'[c].op = call[c].op
                               /\ call'[c].what = call[c].what
                               /\ call[c].what = "rotate" => call'[c].key = call[c].key,
         trail' \subseteq (DOMAIN ops) \X {"api", "worker"},
         Messages' \subseteq DOMAIN ops
  PROVE  AdminInv'
<1>1. Unflushed' \subseteq Unflushed /\ IsFiniteSet(Unflushed)
  <2>1. IsFiniteSet(Unflushed)
    BY FS_Subset, GateAssumption DEF Unflushed
  <2> QED BY <2>1 DEF Unflushed
<1>2. /\ Cardinality(Unflushed') <= Cardinality(Unflushed)
      /\ Cardinality(Unflushed') \in Nat /\ Cardinality(Unflushed) \in Nat
  BY <1>1, FS_Subset, FS_CardinalityType
<1>3. keys' + Cardinality(Unflushed') <= Len(ops') + 1 /\ Len(ops') <= MaxOps
  <2>1. keys \in Nat /\ Len(ops) <= MaxOps /\ keys + Cardinality(Unflushed) <= Len(ops) + 1
    BY DEF AdminInv
  <2>2. PICK a \in Nat, b \in Nat : a = Cardinality(Unflushed) /\ b = Cardinality(Unflushed')
    BY <1>2
  <2>3. b <= a
    BY <1>2, <2>2
  <2>4. Len(ops) \in Nat
    BY DEF AdminInv
  <2> QED BY <2>1, <2>2, <2>3, <2>4
<1>4. \A c \in Callers : call'[c] # NoCall =>
          /\ "pc" \in DOMAIN call'[c]
          /\ call'[c].pc \in {"limit", "eval", "flush", "audit", "commit", "refuse"}
          /\ call'[c].pc \notin {"limit", "eval"} => call'[c].op \in DOMAIN ops
          /\ call'[c].pc \in {"audit", "commit"} /\ call'[c].what = "rotate" => call'[c].key \in 1..keys
  BY DEF AdminInv
<1>5. DOMAIN ops' = DOMAIN ops
  BY DEF AdminInv
<1> QED BY <1>3, <1>4, <1>5 DEF AdminInv

\* A request that is opened is one more operation, and at most one more without a key.
LEMMA OpensAdmin ==
  ASSUME AdminInv, DOMAIN call = Callers, NEW c \in Callers, NEW step \in {"flush", "audit"},
         NEW what, NEW same, Opens(c, step, what, same),
         step = "audit" => what # "rotate", misfits' \subseteq misfits \cup {Len(ops')}
  PROVE  AdminInv'
<1>1. /\ ops' = Append(ops, "open") /\ Len(ops) < MaxOps /\ call[c] = NoCall
      /\ UNCHANGED <<keys, producer, trail, audits, silent, deadAudits>>
      /\ call' = [call EXCEPT ![c] = [pc |-> step, what |-> what, same |-> same, op |-> Len(ops) + 1]]
  BY DEF Opens
<1>2. /\ ops \in Seq(Outcomes) /\ Len(ops) \in Nat /\ ops' \in Seq(Outcomes) /\ Len(ops') = Len(ops) + 1
      /\ DOMAIN ops \subseteq DOMAIN ops' /\ Len(ops) + 1 \in DOMAIN ops'
  <2>1. ops \in Seq(Outcomes) /\ "open" \in Outcomes
    BY DEF AdminInv, Outcomes
  <2> QED BY <1>1, <2>1
<1>3. Len(ops') <= MaxOps
  BY <1>1, <1>2, GateAssumption
<1>4. /\ "pc" \in DOMAIN call'[c] /\ call'[c].pc = step /\ call'[c].what = what /\ call'[c].op = Len(ops) + 1
      /\ \A d \in Callers \ {c} : call'[d] = call[d]
  BY <1>1
<1>5. Unflushed' \subseteq Unflushed \cup {c}
  BY <1>4 DEF Unflushed
<1>6. IsFiniteSet(Unflushed) /\ Cardinality(Unflushed) \in Nat
  BY FS_Subset, FS_CardinalityType, GateAssumption DEF Unflushed
<1>7. Cardinality(Unflushed') <= Cardinality(Unflushed) + 1 /\ Cardinality(Unflushed') \in Nat
  <2>1. /\ IsFiniteSet(Unflushed \cup {c})
        /\ Cardinality(Unflushed \cup {c})
              = IF c \in Unflushed THEN Cardinality(Unflushed) ELSE Cardinality(Unflushed) + 1
    BY <1>6, FS_AddElement
  <2>2. /\ Cardinality(Unflushed') <= Cardinality(Unflushed \cup {c})
        /\ Cardinality(Unflushed') \in Nat
    BY <1>5, <2>1, FS_Subset, FS_CardinalityType
  <2> QED BY <1>6, <2>1, <2>2
<1>8. keys' + Cardinality(Unflushed') <= Len(ops') + 1
  <2>1. keys \in Nat /\ keys + Cardinality(Unflushed) <= Len(ops) + 1
    BY DEF AdminInv
  <2> QED BY <1>1, <1>2, <1>6, <1>7, <2>1
<1>9. \A d \in Callers : call'[d] # NoCall =>
          /\ "pc" \in DOMAIN call'[d]
          /\ call'[d].pc \in {"limit", "eval", "flush", "audit", "commit", "refuse"}
          /\ call'[d].pc \notin {"limit", "eval"} => call'[d].op \in DOMAIN ops'
          /\ call'[d].pc \in {"audit", "commit"} /\ call'[d].what = "rotate" => call'[d].key \in 1..keys
  <2>1. ASSUME NEW d \in Callers \ {c}, call'[d] # NoCall
        PROVE  /\ "pc" \in DOMAIN call'[d]
               /\ call'[d].pc \in {"limit", "eval", "flush", "audit", "commit", "refuse"}
               /\ call'[d].pc \notin {"limit", "eval"} => call'[d].op \in DOMAIN ops'
               /\ call'[d].pc \in {"audit", "commit"} /\ call'[d].what = "rotate" =>
                        call'[d].key \in 1..keys
    BY <1>2, <1>4, <2>1 DEF AdminInv
  <2> QED BY <1>2, <1>4, <2>1
<1>10. /\ trail' \subseteq (DOMAIN ops') \X {"api", "worker"}
       /\ Messages' \subseteq DOMAIN ops'
  BY <1>1, <1>2 DEF AdminInv, Messages
<1> QED BY <1>1, <1>2, <1>3, <1>8, <1>9, <1>10 DEF AdminInv

\* The outcome of an operation is written.
LEMMA OutcomeType ==
  ASSUME ops \in Seq(Outcomes), NEW n, NEW outcome \in Outcomes, ops' = [ops EXCEPT ![n] = outcome]
  PROVE  ops' \in Seq(Outcomes) /\ Len(ops') = Len(ops)
<1>1. ops \in [1..Len(ops) -> Outcomes] /\ Len(ops) \in Nat
  OBVIOUS
<1>2. ops' \in [1..Len(ops) -> Outcomes]
  BY <1>1
<1>3. ops' \in Seq(Outcomes)
  BY <1>1, <1>2, SMTT(30)
<1> QED BY <1>1, <1>2, <1>3

\* A flush that passes may generate a key.
LEMMA FlushAdmin ==
  ASSUME AdminInv, DOMAIN call = Callers, NEW c \in Callers, Flush(c)
  PROVE  AdminInv'
<1>1. /\ call[c] # NoCall /\ call[c].pc = "flush" /\ call[c].op \in DOMAIN ops
      /\ UNCHANGED <<producer, trail, Messages>>
  BY DEF Flush, AdminInv, Messages
<1>2. /\ trail \subseteq (DOMAIN ops) \X {"api", "worker"} /\ ops \in Seq(Outcomes)
      /\ Messages \subseteq DOMAIN ops
  BY DEF AdminInv
<1>3. CASE End(c, "failed") /\ UNCHANGED keys
  <2>1. ops' \in Seq(Outcomes) /\ Len(ops') = Len(ops)
    BY <1>2, <1>3, OutcomeType DEF End, Outcomes
  <2>2. \A d \in Callers : call'[d] = call[d] \/ call'[d] = NoCall
    BY <1>3 DEF End
  <2> QED BY <1>1, <1>2, <1>3, <2>1, <2>2, QuietAdmin
<1>4. ASSUME keys' \in {keys, keys + 1}, UNCHANGED ops, NEW what, NEW same, NEW op, op = call[c].op,
             call' = [call EXCEPT ![c] = [pc |-> "audit", what |-> what, same |-> same,
                                          op |-> op, key |-> keys']]
      PROVE  AdminInv'
  <2>1. /\ "pc" \in DOMAIN call'[c] /\ call'[c].pc = "audit" /\ call'[c].op = op /\ call'[c].key = keys'
        /\ \A d \in Callers \ {c} : call'[d] = call[d]
    BY <1>4
  <2>2. Unflushed' = Unflushed \ {c} /\ c \in Unflushed
    BY <1>1, <2>1 DEF Unflushed
  <2>3. IsFiniteSet(Unflushed) /\ Cardinality(Unflushed) \in Nat
    BY FS_Subset, FS_CardinalityType, GateAssumption DEF Unflushed
  <2>4. Cardinality(Unflushed') = Cardinality(Unflushed) - 1
    BY <2>2, <2>3, FS_RemoveElement
  <2>5. keys \in Nat \ {0} /\ keys + Cardinality(Unflushed) <= Len(ops) + 1 /\ Len(ops) \in Nat
    BY DEF AdminInv
  <2>6. /\ keys' \in Nat \ {0} /\ keys' + Cardinality(Unflushed') <= Len(ops) + 1
        /\ 1..keys \subseteq 1..keys' /\ keys' \in 1..keys'
    BY <1>4, <2>3, <2>4, <2>5
  <2>7. producer' \in [status: {"ACTIVE", "DISABLED"}, key: 1..keys', limit: Limits]
    <3>1. producer \in [status: {"ACTIVE", "DISABLED"}, key: 1..keys, limit: Limits]
      BY DEF AdminInv
    <3> QED BY <1>1, <2>6, <3>1
  <2>8. \A d \in Callers : call'[d] # NoCall =>
          /\ "pc" \in DOMAIN call'[d]
          /\ call'[d].pc \in {"limit", "eval", "flush", "audit", "commit", "refuse"}
          /\ call'[d].pc \notin {"limit", "eval"} => call'[d].op \in DOMAIN ops
          /\ call'[d].pc \in {"audit", "commit"} /\ call'[d].what = "rotate" => call'[d].key \in 1..keys'
    <3>1. ASSUME NEW d \in Callers \ {c}, call'[d] # NoCall
          PROVE  /\ "pc" \in DOMAIN call'[d]
                 /\ call'[d].pc \in {"limit", "eval", "flush", "audit", "commit", "refuse"}
                 /\ call'[d].pc \notin {"limit", "eval"} => call'[d].op \in DOMAIN ops
                 /\ call'[d].pc \in {"audit", "commit"} /\ call'[d].what = "rotate" =>
                        call'[d].key \in 1..keys'
      BY <2>1, <2>6, <3>1 DEF AdminInv
    <3> QED BY <1>1, <1>4, <2>1, <2>6, <3>1
  <2> QED BY <1>1, <1>2, <1>4, <2>5, <2>6, <2>7, <2>8 DEF AdminInv
<1>5. PICK what, same, op : what = call[c].what /\ same = call[c].same /\ op = call[c].op
  OBVIOUS
<1>6. \/ End(c, "failed") /\ UNCHANGED keys
      \/ /\ keys' \in {keys, keys + 1} /\ UNCHANGED ops
         /\ call' = [call EXCEPT ![c] = [pc |-> "audit", what |-> what, same |-> same,
                                         op |-> op, key |-> keys']]
  BY <1>5 DEF Flush
<1> QED BY <1>3, <1>4, <1>5, <1>6

\* Every step of the API keeps AdminInv.
LEMMA AdminNext ==
  ASSUME AdminInv, DOMAIN call = Callers, [GateNext]_gateVars
  PROVE  AdminInv'
<1>0. /\ trail \subseteq (DOMAIN ops) \X {"api", "worker"} /\ ops \in Seq(Outcomes)
      /\ Messages \subseteq DOMAIN ops
      /\ \A c \in Callers : call[c] # NoCall /\ call[c].pc \notin {"limit", "eval"} =>
            call[c].op \in DOMAIN ops
  BY DEF AdminInv
<1>1. CASE GateTick \/ UNCHANGED gateVars
  <2>1. UNCHANGED <<ops, keys, producer, call, trail, Messages>>
    BY <1>1 DEF GateTick, gateVars, Messages
  <2> QED BY <1>0, <2>1, QuietAdmin
<1>2. CASE AuditWorker \/ AuditWorkerFails
  <2>1. PICK n \in audits :
          /\ audits' \subseteq audits /\ deadAudits' \subseteq deadAudits \cup {n}
          /\ trail' \subseteq trail \cup {<<n, "worker">>}
    BY <1>2 DEF AuditWorker, AuditWorkerFails, Consumed
  <2>2. UNCHANGED <<ops, keys, producer, call, silent, misfits>>
    BY <1>2 DEF AuditWorker, AuditWorkerFails
  <2>3. Messages' \subseteq Messages /\ n \in Messages
    BY <2>1, <2>2 DEF Messages
  <2> QED BY <1>0, <2>1, <2>2, <2>3, QuietAdmin
<1>3. ASSUME NEW c \in Callers,
             \/ \E k \in 1..keys : Authenticate(c, k)
             \/ Stamp(c) \/ Evaluate(c) \/ LimiterFails(c)
      PROVE  AdminInv'
  <2>1. UNCHANGED <<ops, keys, producer, trail, Messages>>
    BY <1>3, Zenon DEF Authenticate, Stamp, Evaluate, LimiterFails, Messages
  <2>2. /\ \A d \in Callers \ {c} : call'[d] = call[d]
        /\ \/ call'[c] = NoCall
           \/ "pc" \in DOMAIN call'[c] /\ call'[c].pc \in {"limit", "eval"}
    <3>1. CASE \E k \in 1..keys : Authenticate(c, k)
      BY <3>1 DEF Authenticate
    <3>2. CASE Stamp(c)
      BY <3>2 DEF Stamp
    <3>3. CASE Evaluate(c) \/ LimiterFails(c)
      <4>1. call' = [call EXCEPT ![c] = NoCall]
        BY <3>3, Zenon DEF Evaluate, LimiterFails
      <4>2. call'[c] = NoCall /\ \A d \in Callers \ {c} : call'[d] = call[d]
        BY <4>1
      <4> QED BY <4>2
    <3> QED BY <1>3, <3>1, <3>2, <3>3
  <2> QED BY <1>0, <2>1, <2>2, QuietAdmin
<1>4. ASSUME NEW c \in Callers, LoginFails(c) \/ LoginSucceeds(c) PROVE AdminInv'
  BY <1>4, OpensAdmin DEF LoginFails, LoginSucceeds
<1>5. ASSUME NEW c \in Callers, NEW what \in Changes, Edit(c, what) PROVE AdminInv'
  BY <1>5, OpensAdmin DEF Edit
<1>6. ASSUME NEW c \in Callers, Flush(c) PROVE AdminInv'
  BY <1>6, FlushAdmin
<1>7. ASSUME NEW c \in Callers, Audit(c) PROVE AdminInv'
  <2>1. PICK v : v = call[c]
    OBVIOUS
  <2>2. /\ v # NoCall /\ v.pc = "audit" /\ v.op \in DOMAIN ops /\ "pc" \in DOMAIN v
        /\ UNCHANGED <<ops, keys, producer, trail>>
    BY <1>0, <1>7, <2>1 DEF Audit, AdminInv
  <2>3. Messages' \subseteq Messages \cup {v.op}
    BY <1>7, <2>1 DEF Audit, Messages
  <2>4. PICK pc \in {"commit", "refuse"} : call' = [call EXCEPT ![c].pc = pc]
    BY <1>7 DEF Audit
  <2>5. call'[c] = [v EXCEPT !.pc = pc] /\ \A d \in Callers \ {c} : call'[d] = call[d]
    BY <2>1, <2>4
  <2>6. /\ "pc" \in DOMAIN call'[c] /\ call'[c].pc = pc
        /\ call'[c].op = v.op /\ call'[c].what = v.what /\ call'[c].key = v.key
    BY <2>2, <2>5
  <2> QED BY <1>0, <2>1, <2>2, <2>3, <2>5, <2>6, QuietAdmin
<1>8. ASSUME NEW c \in Callers, Refuse(c) \/ CommitEditFails(c) PROVE AdminInv'
  <2>1. /\ UNCHANGED <<keys, producer, trail, Messages>>
        /\ End(c, "refused") \/ End(c, "undone")
    BY <1>8, Zenon DEF Refuse, CommitEditFails, Messages
  <2>2. ops' \in Seq(Outcomes) /\ Len(ops') = Len(ops)
    BY <1>0, <2>1, OutcomeType DEF End, Outcomes
  <2>3. \A d \in Callers : call'[d] = call[d] \/ call'[d] = NoCall
    BY <2>1 DEF End
  <2> QED BY <1>0, <2>1, <2>2, <2>3, QuietAdmin
<1>9. ASSUME NEW c \in Callers, CommitEdit(c) PROVE AdminInv'
  <2>1. /\ UNCHANGED <<keys, Messages>> /\ End(c, "done") /\ call[c] # NoCall
        /\ call[c].pc = "commit" /\ trail' = trail \cup {<<call[c].op, "api">>}
    BY <1>9, Zenon DEF CommitEdit, Messages
  <2>2. ops' \in Seq(Outcomes) /\ Len(ops') = Len(ops) /\ DOMAIN ops' = DOMAIN ops
    BY <1>0, <2>1, OutcomeType DEF End, Outcomes
  <2>3. \A d \in Callers : call'[d] = call[d] \/ call'[d] = NoCall
    BY <2>1 DEF End
  <2>4. trail' \subseteq (DOMAIN ops) \X {"api", "worker"}
    BY <1>0, <2>1
  <2>5. producer' \in [status: {"ACTIVE", "DISABLED"}, key: 1..keys, limit: Limits]
    <3>1. /\ producer \in [status: {"ACTIVE", "DISABLED"}, key: 1..keys, limit: Limits]
          /\ call[c].what = "rotate" => call[c].key \in 1..keys
      BY <2>1 DEF AdminInv
    <3>2. \/ UNCHANGED producer
          \/ call[c].what = "rotate" /\ producer' = [producer EXCEPT !.key = call[c].key]
          \/ producer' = [producer EXCEPT !.status = "ACTIVE"]
          \/ producer' = [producer EXCEPT !.status = "DISABLED"]
          \/ \E n \in Limits : producer' = [producer EXCEPT !.limit = n]
      BY <1>9, Zenon DEF CommitEdit
    <3> QED BY <3>1, <3>2
  <2>6. /\ keys \in Nat \ {0} /\ keys + Cardinality(Unflushed) <= Len(ops) + 1 /\ Len(ops) \in Nat
        /\ Len(ops) <= MaxOps
    BY DEF AdminInv
  <2>7. IsFiniteSet(Unflushed) /\ Unflushed' \subseteq Unflushed
    BY <2>3, FS_Subset, GateAssumption DEF Unflushed
  <2>8. /\ Cardinality(Unflushed') <= Cardinality(Unflushed)
        /\ Cardinality(Unflushed') \in Nat /\ Cardinality(Unflushed) \in Nat
    BY <2>7, FS_Subset, FS_CardinalityType
  <2>9. keys' + Cardinality(Unflushed') <= Len(ops') + 1
    BY <2>1, <2>2, <2>6, <2>8
  <2>10. \A d \in Callers : call'[d] # NoCall =>
          /\ "pc" \in DOMAIN call'[d]
          /\ call'[d].pc \in {"limit", "eval", "flush", "audit", "commit", "refuse"}
          /\ call'[d].pc \notin {"limit", "eval"} => call'[d].op \in DOMAIN ops
          /\ call'[d].pc \in {"audit", "commit"} /\ call'[d].what = "rotate" => call'[d].key \in 1..keys
    BY <2>3 DEF AdminInv
  <2> QED BY <1>0, <2>1, <2>2, <2>4, <2>5, <2>6, <2>9, <2>10 DEF AdminInv
<1> QED BY <1>1, <1>2, <1>3, <1>4, <1>5, <1>6, <1>7, <1>8, <1>9 DEF GateNext

\* The sliding window of rate_limit_check(): for any window, limits, number of
\* concurrent requests and delay, no span shorter than the window by the longest
\* delay sees more members than the highest limit; and the API's state is typed.
THEOREM RateSafety == GateSpec => []RateBound
<1> DEFINE Bounded == \A t \in 0..MaxNow : Cardinality(Within(t)) <= Max(Limits)
           Inv == TrailInv /\ NameIsUnique /\ AdminInv /\ LimiterInv /\ Bounded
<1>1. ASSUME GateInit PROVE Inv
  <2>1. TrailInv /\ NameIsUnique
    BY <1>1, TrailInit DEF GateInit, NameIsUnique, Inserts, NoCall
  <2>2. Min(Limits) \in Limits
    <3>1. \E m \in Limits : \A k \in Limits : m <= k
      BY GateAssumption, LeastNumber
    <3> QED BY <3>1 DEF Min
  <2>3. /\ call = [c \in Callers |-> NoCall] /\ zset = {} /\ granted = {} /\ ops = <<>> /\ now = 0
        /\ trail = {} /\ Messages = {} /\ keys = 1 /\ expiry = 0
        /\ producer = [status |-> "ACTIVE", key |-> 1, limit |-> Min(Limits)]
    BY <1>1 DEF GateInit, Messages
  <2>4. IsFiniteSet({}) /\ Cardinality({}) = 0
    BY FS_EmptySet
  <2>5. LimiterInv
    BY <2>2, <2>3, <2>4, GateAssumption DEF LimiterInv
  <2>6. AdminInv
    <3>1. Unflushed = {}
      BY <2>3 DEF Unflushed
    <3>2. Len(ops) = 0 /\ ops \in Seq(Outcomes)
      BY <2>3
    <3> QED BY <2>2, <2>3, <2>4, <3>1, <3>2, GateAssumption DEF AdminInv
  <2>7. Bounded
    <3>1. \A t \in 0..MaxNow : Within(t) = {}
      BY <2>3 DEF Within
    <3>2. Max(Limits) \in Nat
      BY GreatestNumber, GateAssumption
    <3> QED BY <2>4, <3>1, <3>2
  <2> QED BY <2>1, <2>5, <2>6, <2>7
<1>2. ASSUME Inv, [GateNext]_gateVars PROVE Inv'
  <2>1. DOMAIN call = Callers
    BY <1>2 DEF TrailInv
  <2>2. TrailInv' /\ NameIsUnique'
    BY <1>2, <2>1, TrailNext, NamesNext
  <2>3. AdminInv'
    BY <1>2, <2>1, AdminNext
  <2>4. producer'.limit \in Limits
    BY <2>3 DEF AdminInv
  <2>5. LimiterInv' /\ Bounded'
    BY <1>2, <2>4, LimiterNext
  <2> QED BY <2>2, <2>3, <2>5
<1>3. ASSUME Inv PROVE RateBound
  <2>1. keys \in 1..MaxOps + 1
    <3>1. IsFiniteSet(Unflushed)
      BY FS_Subset, GateAssumption DEF Unflushed
    <3>2. Cardinality(Unflushed) \in Nat
      BY <3>1, FS_CardinalityType
    <3>3. /\ keys \in Nat \ {0} /\ keys + Cardinality(Unflushed) <= Len(ops) + 1 /\ Len(ops) \in Nat
          /\ Len(ops) <= MaxOps
      BY <1>3 DEF AdminInv
    <3> QED BY <3>2, <3>3, GateAssumption
  <2>2. granted \subseteq (0..MaxNow) \X (Nat \ {0}) /\ names <= 1
    BY <1>3, GateAssumption DEF LimiterInv, NameIsUnique
  <2>3. GateTypeOK
    BY <1>3, <2>1, <2>2 DEF GateTypeOK, LimiterInv, AdminInv
  <2> QED BY <1>3, <2>3 DEF RateBound
<1>4. GateSpec => []Inv
  <2> HIDE DEF Inv
  <2> QED BY <1>1, <1>2, PTL DEF GateSpec
<1> QED
  <2> HIDE DEF Inv
  <2> QED BY <1>3, <1>4, PTL

----------------------------------------------------------------------------
(* The lag monitor *)

\* Max() of two integers is the larger one.
LEMMA MaxOfTwo ==
  ASSUME NEW a \in Int, NEW b \in Int
  PROVE  Max({a, b}) = IF a >= b THEN a ELSE b
<1>1. \E x \in {a, b} : \A y \in {a, b} : x >= y
  OBVIOUS
<1> QED BY <1>1 DEF Max

\* The elements of a sequence are in its range, and its domain is an interval.
LEMMA SequenceFacts ==
  ASSUME NEW S, NEW s \in Seq(S)
  PROVE  DOMAIN s = 1..Len(s) /\ \A n \in 1..Len(s) : s[n] \in S
OBVIOUS

\* A group of the list is one whose offsets are kept.
LEMMA GroupInRange ==
  ASSUME NEW n \in Nat, n < Len(Groups)
  PROVE  Groups[n + 1] \in GroupSet
BY LiveAssumption DEF GroupSet, ToSet

\* The monitor starts with no sample and no row.
LEMMA LagInit == LiveInit => LagInv
<1> SUFFICES ASSUME LiveInit PROVE LagInv
  OBVIOUS
<1>1. Len(Groups) \in Nat
  BY LiveAssumption
<1> QED BY <1>1, LiveAssumption
        DEF LiveInit, LagInv, SampleIsHonest, LagOverstatesOnlyExpired, NoProbe, None

\* Every step of the brokers, the groups and the monitor keeps the samples honest.
LEMMA LagStep == LagInv /\ [LagNext]_liveVars => LagInv'
<1> SUFFICES ASSUME LagInv, [LagNext]_liveVars PROVE LagInv'
  OBVIOUS
<1> USE LiveAssumption
<1> DEFINE g == Groups[probe.at + 1]
<1>0. /\ \A h \in GroupSet : /\ ends[h] \in Nat /\ commits[h] \in Int /\ commits[h] <= ends[h]
                             /\ starts[h] \in Nat /\ starts[h] <= ends[h]
                             /\ Max({commits[h], 0}) = IF commits[h] >= 0 THEN commits[h] ELSE 0
                             /\ Position(h) = IF commits[h] >= starts[h] THEN commits[h] ELSE starts[h]
      /\ Len(Groups) \in Nat
  <2>1. ASSUME NEW h \in GroupSet
        PROVE  /\ ends[h] \in Nat /\ commits[h] \in Int /\ commits[h] <= ends[h]
               /\ starts[h] \in Nat /\ starts[h] <= ends[h]
    BY DEF LagInv, None
  <2>2. ASSUME NEW h \in GroupSet
        PROVE  /\ Max({commits[h], 0}) = IF commits[h] >= 0 THEN commits[h] ELSE 0
               /\ Position(h) = IF commits[h] >= starts[h] THEN commits[h] ELSE starts[h]
    <3>1. commits[h] \in Int /\ starts[h] \in Int /\ 0 \in Int
      BY <2>1
    <3> QED BY <3>1, MaxOfTwo DEF Position
  <2>3. Len(Groups) \in Nat
    OBVIOUS
  <2> QED BY <2>1, <2>2, <2>3
<1>1. ASSUME NEW h \in GroupSet, AppendRecord(h) PROVE LagInv'
  BY <1>0, <1>1 DEF AppendRecord, LagInv, SampleIsHonest, LagOverstatesOnlyExpired
<1>2. ASSUME NEW h \in GroupSet, CommitOffset(h) PROVE LagInv'
  <2>1. PICK n \in 1..ends[h] : n > commits[h] /\ commits' = [commits EXCEPT ![h] = n]
    BY <1>2 DEF CommitOffset
  <2>2. n \in 0..MaxOffset /\ commits[h] <= n /\ n <= ends[h]
    BY <1>0, <2>1 DEF LagInv
  <2>3. commits' \in [GroupSet -> None..MaxOffset] /\ \A k \in GroupSet : commits'[k] <= ends[k]
    BY <1>0, <2>1, <2>2 DEF LagInv, None
  <2>4. UNCHANGED <<starts, ends, probe, lags>>
    BY <1>2 DEF CommitOffset
  <2>5. ASSUME probe.leo # None
        PROVE  probe.leo - Max({commits'[g], 0}) <= probe.behind + probe.expired
    <3>1. g \in GroupSet /\ probe.leo - Max({commits[g], 0}) <= probe.behind + probe.expired
          /\ probe.leo \in Int /\ probe.behind \in Nat /\ probe.expired \in Nat
      BY <2>5, GroupInRange DEF LagInv, SampleIsHonest, None
    <3>2. Max({commits'[g], 0}) = IF commits'[g] >= 0 THEN commits'[g] ELSE 0
      <4>1. commits'[g] \in Int /\ 0 \in Int
        BY <2>3, <3>1 DEF None
      <4> QED BY <4>1, MaxOfTwo
    <3>3. commits[g] <= commits'[g] /\ commits'[g] \in Int
      <4>1. commits[g] \in Int /\ commits \in [GroupSet -> None..MaxOffset]
        BY <1>0, <3>1 DEF LagInv
      <4>2. commits'[g] = IF g = h THEN n ELSE commits[g]
        BY <2>1, <3>1, <4>1
      <4> QED BY <2>1, <4>1, <4>2
    <3> DEFINE m == Max({commits[g], 0})
               k == Max({commits'[g], 0})
    <3>4. m \in Int /\ k \in Int /\ m <= k
      <4>1. m = (IF commits[g] >= 0 THEN commits[g] ELSE 0) /\ commits[g] \in Int
        BY <1>0, <3>1
      <4> QED BY <3>2, <3>3, <4>1
    <3>5. probe.leo - m <= probe.behind + probe.expired /\ probe.leo \in Int
          /\ probe.behind \in Nat /\ probe.expired \in Nat
      BY <3>1
    <3> HIDE DEF m, k
    <3>6. probe.leo - k <= probe.behind + probe.expired
      BY <3>4, <3>5
    <3> QED BY <3>6 DEF k
  <2>6. SampleIsHonest'
    BY <2>4, <2>5 DEF LagInv, SampleIsHonest
  <2> QED BY <2>3, <2>4, <2>6 DEF LagInv, LagOverstatesOnlyExpired
<1>8. ASSUME NEW h \in GroupSet, DropExpired(h) PROVE LagInv'
  BY <1>0, <1>8 DEF DropExpired, LagInv, SampleIsHonest, LagOverstatesOnlyExpired
<1>3. CASE EndOffsets
  <2>1. g \in GroupSet /\ probe.at < Len(Groups)
    BY <1>3, GroupInRange DEF EndOffsets, LagInv, SampleIsHonest
  <2>2. /\ probe'.at = probe.at /\ probe'.rows = probe.rows /\ probe'.leo = ends[g]
        /\ probe'.behind = Backlog(g) /\ probe'.expired = Expired(g) /\ DOMAIN probe' = DOMAIN probe
        /\ UNCHANGED <<starts, ends, commits, lags>>
    BY <1>3 DEF EndOffsets, LagInv
  <2>3. /\ Backlog(g) \in Nat /\ Expired(g) \in Nat
        /\ ends[g] - Max({commits[g], 0}) <= Backlog(g) + Expired(g)
    <3>1. PICK e \in Nat, c \in Int, b \in Nat :
             /\ e = ends[g] /\ c = commits[g] /\ b = starts[g] /\ c <= e /\ b <= e
             /\ Max({commits[g], 0}) = (IF c >= 0 THEN c ELSE 0)
             /\ Position(g) = IF c >= b THEN c ELSE b
      BY <1>0, <2>1
    <3>2. PICK p \in Int, m \in Int : p = Position(g) /\ m = Max({commits[g], 0})
      BY <3>1
    <3>3. p <= e /\ m <= p
      BY <3>1, <3>2
    <3>4. Backlog(g) = e - p /\ Expired(g) = p - m
      BY <3>1, <3>2 DEF Backlog, Expired
    <3>5. e - p \in Nat /\ p - m \in Nat /\ e - m <= (e - p) + (p - m)
      BY <3>2, <3>3
    <3> QED BY <3>1, <3>2, <3>4, <3>5
  <2>4. ends[g] \in None..MaxOffset
    BY <2>1 DEF LagInv, None
  <2>5. SampleIsHonest'
    BY <2>1, <2>2, <2>3, <2>4 DEF LagInv, SampleIsHonest
  <2> QED BY <2>2, <2>5 DEF LagInv, LagOverstatesOnlyExpired
<1>4. CASE Committed
  <2>1. g \in GroupSet /\ probe.at < Len(Groups) /\ probe.leo \in Int /\ probe.behind \in Nat
        /\ probe.expired \in Nat
        /\ probe.leo - Max({commits[g], 0}) <= probe.behind + probe.expired /\ probe.at \in Nat
    BY <1>4, GroupInRange DEF Committed, LagInv, SampleIsHonest, None
  <2> DEFINE l == Max({probe.leo - Max({commits[g], 0}), 0})
             row == [lag |-> l, behind |-> probe.behind, expired |-> probe.expired]
  <2>2. l \in Nat /\ l <= probe.behind + probe.expired
    <3>1. probe.leo - Max({commits[g], 0}) \in Int
      <4>1. Max({commits[g], 0}) = (IF commits[g] >= 0 THEN commits[g] ELSE 0) /\ commits[g] \in Int
        BY <1>0, <2>1
      <4> QED BY <2>1, <4>1
    <3> DEFINE d == probe.leo - Max({commits[g], 0})
    <3>2. d \in Int /\ d <= probe.behind + probe.expired /\ probe.behind + probe.expired \in Nat
      BY <2>1, <3>1
    <3> HIDE DEF d
    <3>3. Max({d, 0}) \in Nat /\ Max({d, 0}) <= probe.behind + probe.expired
      BY <3>2, MaxOfTwo
    <3> QED BY <3>3 DEF d
  <2>3. /\ probe' = [at |-> probe.at + 1, leo |-> None, behind |-> 0, expired |-> 0,
                      rows |-> Append(probe.rows, row)]
        /\ UNCHANGED <<starts, ends, commits, lags>>
    BY <1>4 DEF Committed, Sampled
  <2>4. row \in [lag: Nat, behind: Nat, expired: Nat] /\ row.lag <= row.behind + row.expired
    BY <2>1, <2>2
  <2> HIDE DEF row
  <2>5. /\ Append(probe.rows, row) \in Seq([lag: Nat, behind: Nat, expired: Nat])
        /\ Len(Append(probe.rows, row)) = probe.at + 1
        /\ \A n \in 1..probe.at + 1 :
              Append(probe.rows, row)[n].lag 
                  <= Append(probe.rows, row)[n].behind + Append(probe.rows, row)[n].expired
    <3>1. PICK rows \in Seq([lag: Nat, behind: Nat, expired: Nat]), at \in Nat, add \in [lag: Nat, behind: Nat, expired: Nat] :
             rows = probe.rows /\ at = probe.at /\ add = row
      BY <2>1, <2>4 DEF LagInv, SampleIsHonest
    <3>2. Len(rows) = at /\ (\A n \in 1..at : rows[n].lag <= rows[n].behind + rows[n].expired)
          /\ add.lag <= add.behind + add.expired
      BY <2>4, <3>1 DEF LagInv, SampleIsHonest
    <3>3. Append(rows, add) \in Seq([lag: Nat, behind: Nat, expired: Nat]) /\ Len(Append(rows, add)) = at + 1
      BY <3>1, <3>2
    <3>4. ASSUME NEW n \in 1..at + 1
          PROVE  Append(rows, add)[n].lag
                    <= Append(rows, add)[n].behind + Append(rows, add)[n].expired
      <4>1. CASE n = at + 1
        <5>1. Append(rows, add)[n] = add
          BY <3>1, <3>2, <4>1
        <5> QED BY <3>2, <5>1
      <4>2. CASE n # at + 1
        <5>1. n \in 1..at
          BY <3>1, <4>2
        <5>2. Append(rows, add)[n] = rows[n]
          BY <3>1, <3>2, <5>1
        <5> QED BY <3>2, <5>1, <5>2
      <4> QED BY <4>1, <4>2
    <3> QED BY <3>1, <3>3, <3>4
  <2>6. SampleIsHonest'
    <3>1. PICK w : w = Append(probe.rows, row)
      OBVIOUS
    <3>2. /\ w \in Seq([lag: Nat, behind: Nat, expired: Nat]) /\ Len(w) = probe.at + 1
          /\ \A n \in 1..probe.at + 1 : w[n].lag <= w[n].behind + w[n].expired
      BY <2>5, <3>1
    <3>3. /\ probe'.at = probe.at + 1 /\ probe'.leo = None /\ probe'.behind = 0 /\ probe'.expired = 0
          /\ probe'.rows = w
      BY <2>3, <3>1
    <3>4. /\ probe.at + 1 \in 0..Len(Groups) /\ MaxOffset \in Nat
          /\ None \in None..MaxOffset
      BY <1>0, <2>1 DEF None
    <3> QED BY <3>2, <3>3, <3>4 DEF SampleIsHonest
  <2> QED BY <2>3, <2>6 DEF LagInv, LagOverstatesOnlyExpired
<1>5. CASE PersistLags
  <2>1. SampleIsHonest' /\ DOMAIN probe' = {"at", "leo", "behind", "expired", "rows"}
    BY <1>0, <1>5 DEF PersistLags, SampleIsHonest, NoProbe, None
  <2>2. lags' \in Seq([lag: Nat, behind: Nat, expired: Nat]) /\ LagOverstatesOnlyExpired'
    <3>1. lags' = probe.rows /\ probe.at = Len(Groups)
      BY <1>5 DEF PersistLags
    <3>2. /\ probe.rows \in Seq([lag: Nat, behind: Nat, expired: Nat]) /\ Len(probe.rows) = Len(Groups)
          /\ \A n \in 1..Len(Groups) : probe.rows[n].lag <= probe.rows[n].behind + probe.rows[n].expired
      BY <3>1 DEF LagInv, SampleIsHonest
    <3>3. \A n \in 1..Len(Groups) : probe.rows[n] \in [lag: Nat, behind: Nat, expired: Nat]
      BY <3>2, SequenceFacts, Zenon
    <3>4. \A n \in 1..Len(Groups) : 0 <= probe.rows[n].lag
      BY <3>3
    <3>5. DOMAIN lags' = 1..Len(Groups)
      BY <3>1, <3>2, SequenceFacts
    <3> QED BY <3>1, <3>2, <3>4, <3>5 DEF LagOverstatesOnlyExpired
  <2> QED BY <1>5, <2>1, <2>2 DEF PersistLags, LagInv
<1>6. CASE SampleFails
  <2>1. SampleIsHonest' /\ DOMAIN probe' = {"at", "leo", "behind", "expired", "rows"}
    BY <1>0, <1>6 DEF SampleFails, SampleIsHonest, NoProbe, None
  <2> QED BY <1>6, <2>1 DEF SampleFails, LagInv, LagOverstatesOnlyExpired
<1>7. CASE UNCHANGED liveVars
  BY <1>7 DEF liveVars, lagVars, LagInv, SampleIsHonest, LagOverstatesOnlyExpired
<1> QED BY <1>1, <1>2, <1>3, <1>4, <1>5, <1>6, <1>7, <1>8 DEF LagNext

\* For any list of groups: the lag that _persist() writes for a group is at most
\* what the group had before it when the end offset was read, and what had expired
\* before the group committed it, whatever is appended, committed and deleted by
\* retention between the two reads; and a persisted sample has all groups.
THEOREM LagSafety == LagSpec => []LagOverstatesOnlyExpired
<1>1. LagInv => LagOverstatesOnlyExpired
  BY DEF LagInv
<1> QED BY <1>1, LagInit, LagStep, PTL DEF LagSpec

----------------------------------------------------------------------------
(* The live stream *)

\* Rows of a poll are sorted without loss: every one has its own place.
LEMMA NewestFirstIsSort ==
  ASSUME NEW xs \in SUBSET Nat, IsFiniteSet(xs)
  PROVE  /\ NewestFirst(xs) \in [1..Cardinality(xs) -> xs] /\ IsInjective(NewestFirst(xs))
         /\ \A x \in xs : \E i \in 1..Cardinality(xs) : NewestFirst(xs)[i] = x
<1> DEFINE Newer(x) == {y \in xs : y > x}
           n == Cardinality(xs)
           rank == [x \in xs |-> Cardinality(Newer(x))]
<1>1. n \in Nat
  BY FS_CardinalityType
<1>2. \A x \in xs : IsFiniteSet(Newer(x)) /\ Cardinality(Newer(x)) \in Nat
  <2> TAKE x \in xs
  <2>1. Newer(x) \in SUBSET xs
    OBVIOUS
  <2>2. IsFiniteSet(Newer(x))
    BY <2>1, FS_Subset
  <2> QED BY <2>2, FS_CardinalityType
<1>3. ASSUME NEW x \in xs, NEW z \in xs, z > x PROVE Cardinality(Newer(z)) < Cardinality(Newer(x))
  <2>1. Newer(z) \in SUBSET Newer(x) /\ z \in Newer(x) /\ z \notin Newer(z)
    <3>1. ASSUME NEW y \in xs, y > z PROVE y > x
      <4>1. x \in Nat /\ y \in Nat /\ z \in Nat
        OBVIOUS
      <4> QED BY <1>3, <3>1, <4>1
    <3>2. ~(z > z)
      OBVIOUS
    <3> QED BY <1>3, <3>1, <3>2
  <2>2. Newer(x) # Newer(z)
    BY <2>1
  <2>3. /\ IsFiniteSet(Newer(x)) /\ Cardinality(Newer(x)) \in Nat /\ Cardinality(Newer(z)) \in Nat
    BY <1>2
  <2> HIDE DEF Newer
  <2>4. /\ Cardinality(Newer(z)) <= Cardinality(Newer(x))
        /\ Cardinality(Newer(x)) = Cardinality(Newer(z)) => Newer(x) = Newer(z)
    BY <2>1, <2>3, FS_Subset
  <2> QED BY <2>2, <2>3, <2>4
<1>4. ASSUME NEW x \in xs PROVE Cardinality(Newer(x)) \in 0..(n - 1)
  <2>1. Newer(x) \in SUBSET xs /\ x \notin Newer(x)
    <3>1. ~(x > x)
      OBVIOUS
    <3> QED BY <3>1
  <2>2. Newer(x) # xs
    BY <2>1
  <2>3. Cardinality(Newer(x)) \in Nat
    BY <1>2
  <2> HIDE DEF Newer
  <2>4. Cardinality(Newer(x)) <= n /\ (n = Cardinality(Newer(x)) => xs = Newer(x))
    BY <2>1, FS_Subset
  <2> QED BY <1>1, <2>2, <2>3, <2>4
<1>5. rank \in Injection(xs, 0..(n - 1))
  <2>1. rank \in [xs -> 0..(n - 1)]
    BY <1>4
  <2>2. ASSUME NEW x \in xs, NEW z \in xs, rank[x] = rank[z] PROVE x = z
    <3>1. x \in Nat /\ z \in Nat
      OBVIOUS
    <3>2. Cardinality(Newer(x)) \in Nat /\ Cardinality(Newer(z)) \in Nat
      BY <1>2
    <3>3. Cardinality(Newer(x)) = Cardinality(Newer(z))
      BY <2>2
    <3>4. ~(z > x) /\ ~(x > z)
      <4> HIDE DEF Newer
      <4> QED BY <1>3, <3>2, <3>3
    <3> QED BY <3>1, <3>4
  <2> HIDE DEF rank
  <2> QED BY <2>1, <2>2 DEF Injection, IsInjective
<1>6. rank \in Surjection(xs, 0..(n - 1))
  <2>1. IsFiniteSet(0..(n - 1)) /\ Cardinality(0..(n - 1)) = n
    <3>1. 0 \in Int /\ n - 1 \in Int
      BY <1>1
    <3>2. /\ IsFiniteSet(0..(n - 1))
          /\ Cardinality(0..(n - 1)) = IF 0 > n - 1 THEN 0 ELSE n - 1 - 0 + 1
      <4> HIDE DEF n
      <4> QED BY <3>1, FS_Interval
    <3> HIDE DEF n
    <3> QED BY <1>1, <3>2
  <2> HIDE DEF rank
  <2> QED BY <1>5, <2>1, FS_Injection
<1>7. ASSUME NEW i \in 1..n
      PROVE  /\ NewestFirst(xs)[i] \in xs
             /\ Cardinality(Newer(NewestFirst(xs)[i])) = i - 1
  <2>1. i - 1 \in 0..(n - 1)
    BY <1>1
  <2>2. \E x \in xs : rank[x] = i - 1
    <3> HIDE DEF rank
    <3> QED BY <1>6, <2>1 DEF Surjection
  <2>3. \E x \in xs : Cardinality(Newer(x)) = i - 1
    BY <2>2
  <2>4. NewestFirst(xs)[i] = CHOOSE x \in xs : Cardinality(Newer(x)) = i - 1
    BY DEF NewestFirst
  <2> HIDE DEF Newer
  <2> QED BY <2>3, <2>4
<1>8. DOMAIN NewestFirst(xs) = 1..n /\ NewestFirst(xs) \in [1..n -> xs]
  <2>1. NewestFirst(xs) = [i \in 1..n |-> CHOOSE x \in xs : Cardinality(Newer(x)) = i - 1]
    BY DEF NewestFirst
  <2>2. \A i \in 1..n : (CHOOSE x \in xs : Cardinality(Newer(x)) = i - 1) \in xs
    BY <1>7, <2>1
  <2> HIDE DEF Newer, n
  <2> QED BY <2>1, <2>2
<1>9. ASSUME NEW i \in 1..n, NEW j \in 1..n, NewestFirst(xs)[i] = NewestFirst(xs)[j] PROVE i = j
  <2>1. i - 1 = j - 1
    <3> HIDE DEF Newer
    <3> QED BY <1>7, <1>9
  <2>2. i \in Nat /\ j \in Nat
    BY <1>1
  <2> HIDE DEF n
  <2> QED BY <2>1, <2>2
<1>10. ASSUME NEW x \in xs PROVE \E i \in 1..n : NewestFirst(xs)[i] = x
  <2>1. PICK k \in 0..(n - 1) : k = rank[x]
    BY <1>4
  <2>2. k + 1 \in 1..n /\ (k + 1) - 1 = k
    BY <1>1
  <2>3. Cardinality(Newer(NewestFirst(xs)[k + 1])) = k /\ NewestFirst(xs)[k + 1] \in xs
    <3> HIDE DEF Newer, n
    <3> QED BY <1>7, <2>2
  <2>4. rank[NewestFirst(xs)[k + 1]] = rank[x]
    BY <2>1, <2>3
  <2>5. NewestFirst(xs)[k + 1] = x
    <3> HIDE DEF rank, n
    <3> QED BY <1>5, <2>3, <2>4 DEF Injection, IsInjective
  <2> QED BY <2>2, <2>5
<1> QED BY <1>8, <1>9, <1>10 DEF IsInjective

\* Sets of alerts are finite.
LEMMA AlertsAreFinite ==
  ASSUME NEW S \in SUBSET Alerts
  PROVE  S \in SUBSET Nat /\ IsFiniteSet(S) /\ Cardinality(S) \in Nat
<1>1. IsFiniteSet(Alerts) /\ Alerts \subseteq Nat
  BY FS_Interval, LiveAssumption DEF Alerts
<1>2. IsFiniteSet(S)
  BY <1>1, FS_Subset
<1> QED BY <1>1, <1>2, FS_CardinalityType

\* More alerts do not take an alert back onto the page.
LEMMA StillBeyond ==
  ASSUME NEW S \in SUBSET Alerts, NEW T \in SUBSET Alerts, S \subseteq T, NEW x,
         Cardinality({y \in S : y > x}) >= PageSize
  PROVE  Cardinality({y \in T : y > x}) >= PageSize
<1> DEFINE U == {y \in S : y > x}
           V == {y \in T : y > x}
<1>1. U \in SUBSET V /\ U \in SUBSET Alerts /\ V \in SUBSET Alerts
  OBVIOUS
<1>2. Cardinality(U) >= PageSize
  OBVIOUS
<1> HIDE DEF U, V
<1>3. /\ IsFiniteSet(V) /\ Cardinality(U) \in Nat /\ Cardinality(V) \in Nat
  BY <1>1, AlertsAreFinite
<1>4. Cardinality(U) <= Cardinality(V)
  BY <1>1, <1>3, FS_Subset
<1>5. Cardinality(V) >= PageSize
  BY <1>2, <1>3, <1>4, LiveAssumption
<1> QED BY <1>5 DEF V

\* The elements of what a connection has put out.
LEMMA OutFacts ==
  ASSUME NEW S, NEW a \in Seq(S), NEW b \in Seq(S)
  PROVE  /\ a \o b \in Seq(S) /\ Len(a \o b) = Len(a) + Len(b) /\ Len(a) \in Nat /\ Len(b) \in Nat
         /\ DOMAIN (a \o b) = 1..(Len(a) + Len(b))
         /\ \A i \in 1..(Len(a) + Len(b)) : (a \o b)[i] = IF i <= Len(a) THEN a[i] ELSE b[i - Len(a)]
OBVIOUS

\* The end of a sequence.
LEMMA SuffixFacts ==
  ASSUME NEW S, NEW a \in Seq(S), NEW k \in 0..Len(a)
  PROVE  /\ SubSeq(a, k + 1, Len(a)) \in Seq(S) /\ Len(SubSeq(a, k + 1, Len(a))) = Len(a) - k
         /\ \A i \in 1..(Len(a) - k) : SubSeq(a, k + 1, Len(a))[i] = a[i + k]
OBVIOUS

\* A poll puts the new rows behind what is there and drops from the front of the
\* queue: what remains was there, in the same order, and is still there once.
LEMMA PushedOut ==
  ASSUME StreamInv, Error \notin ToSet(Out), NEW new \in SUBSET Alerts, new \cap seen = {},
         Pushed(NewestFirst(new)), sent' = sent
  PROVE  /\ queue' \in Seq(Alerts \cup {Error}) /\ Len(queue') <= MaxQueue /\ dropped' \in Nat
         /\ IsInjective(Out') /\ ToSet(Out') \subseteq ToSet(Out) \cup new
         /\ Len(Out') + dropped' = Len(Out) + dropped + Cardinality(new)
<1> DEFINE V == Alerts \cup {Error}
           n == Cardinality(new)
           items == NewestFirst(new)
           all == queue \o items
           over == Max({Len(all) - MaxQueue, 0})
<1>1. n \in Nat /\ new \in SUBSET Nat /\ IsFiniteSet(new)
  BY AlertsAreFinite
<1>2. items \in [1..n -> new] /\ IsInjective(items)
  BY <1>1, NewestFirstIsSort
<1>3. items \in Seq(V) /\ Len(items) = n /\ \A i \in 1..n : items[i] \in new
  <2> HIDE DEF items, n
  <2>1. items \in Seq(new) /\ Len(items) = n
    BY <1>1, <1>2
  <2> QED BY <1>2, <2>1
<1>4. queue \in Seq(V) /\ sent \in Seq(V) /\ Len(queue) \in Nat /\ Len(sent) \in Nat /\ dropped \in Nat
  BY DEF StreamInv
<1>5. /\ all \in Seq(V) /\ Len(all) = Len(queue) + n
      /\ \A i \in 1..(Len(queue) + n) :
            all[i] = IF i <= Len(queue) THEN queue[i] ELSE items[i - Len(queue)]
  <2> HIDE DEF items, V, n
  <2> QED BY <1>3, <1>4, OutFacts
<1>6. /\ MaxQueue \in Nat /\ over \in 0..Len(all) /\ Len(all) - over <= MaxQueue
  <2>1. PICK l \in Nat : l = Len(all)
    BY <1>1, <1>4, <1>5
  <2>2. over = IF l - MaxQueue >= 0 THEN l - MaxQueue ELSE 0
    BY <2>1, MaxOfTwo, LiveAssumption
  <2> HIDE DEF all, over
  <2> QED BY <2>1, <2>2, LiveAssumption
<1>7. queue' = SubSeq(all, over + 1, Len(all)) /\ dropped' = dropped + over
  BY DEF Pushed
<1>8. PICK k \in Nat, l \in Nat, q \in Nat, t \in Nat :
            k = over /\ l = Len(all) /\ q = Len(queue) /\ t = Len(sent)
  BY <1>1, <1>4, <1>5, <1>6
<1> HIDE DEF all, over, items, V, n
<1>9. /\ queue' \in Seq(V) /\ Len(queue') = l - k
      /\ \A i \in 1..(l - k) : queue'[i] = all[i + k]
  BY <1>5, <1>6, <1>7, <1>8, SuffixFacts
<1>10. /\ l = q + n /\ k <= l /\ l - k <= MaxQueue /\ dropped' = dropped + k
  BY <1>5, <1>6, <1>7, <1>8
<1>11. /\ Out \in Seq(V) /\ Len(Out) = t + q /\ DOMAIN Out = 1..(t + q)
       /\ \A i \in 1..(t + q) : Out[i] = IF i <= t THEN sent[i] ELSE queue[i - t]
  BY <1>4, <1>8, OutFacts DEF Out
<1>12. /\ Out' \in Seq(V) /\ Len(Out') = t + (l - k) /\ DOMAIN Out' = 1..(t + (l - k))
       /\ \A i \in 1..(t + (l - k)) : Out'[i] = IF i <= t THEN sent[i] ELSE queue'[i - t]
  <2>1. Out' = sent \o queue'
    BY DEF Out
  <2>2. PICK r \in Seq(V) : r = queue'
    BY <1>9
  <2>3. /\ sent \o r \in Seq(V) /\ Len(sent \o r) = Len(sent) + Len(r)
        /\ DOMAIN (sent \o r) = 1..(Len(sent) + Len(r))
        /\ \A i \in 1..(Len(sent) + Len(r)) :
              (sent \o r)[i] = IF i <= Len(sent) THEN sent[i] ELSE r[i - Len(sent)]
    BY <1>4, OutFacts
  <2>4. Len(r) = l - k /\ Len(sent) = t
    BY <1>8, <1>9, <2>2
  <2> QED BY <2>1, <2>2, <2>3, <2>4
<1>13. ASSUME NEW i \in 1..(t + (l - k))
       PROVE  \E j \in 1..(t + l) :
                /\ j = IF i <= t THEN i ELSE i + k
                /\ Out'[i] = IF j <= t + q THEN Out[j] ELSE items[j - (t + q)]
  <2>1. CASE i <= t
    <3>1. i \in 1..(t + q) /\ i \in 1..(t + l)
      BY <1>8, <1>10, <1>13, <2>1
    <3>2. Out'[i] = Out[i]
      BY <1>11, <1>12, <2>1, <3>1
    <3> QED BY <1>8, <2>1, <3>1, <3>2
  <2>2. CASE i > t
    <3>1. i - t \in 1..(l - k) /\ (i - t) + k \in 1..l /\ i + k \in 1..(t + l)
      BY <1>8, <1>10, <1>13, <2>2
    <3>2. Out'[i] = all[(i - t) + k]
      <4>1. Out'[i] = queue'[i - t]
        <5>1. ~(i <= t)
          BY <1>8, <1>13, <2>2
        <5> QED BY <1>12, <1>13, <5>1
      <4> QED BY <1>9, <3>1, <4>1
    <3>3. CASE (i - t) + k <= q
      <4>1. i + k \in 1..(t + q) /\ ~(i + k <= t) /\ (i + k) - t = (i - t) + k /\ i + k <= t + q
        BY <1>8, <1>13, <2>2, <3>1, <3>3
      <4>2. all[(i - t) + k] = queue[(i - t) + k]
        BY <1>5, <1>8, <1>10, <3>1, <3>3
      <4>3. Out[i + k] = queue[(i - t) + k]
        BY <1>11, <4>1
      <4> QED BY <1>8, <1>13, <2>2, <3>1, <3>2, <4>1, <4>2, <4>3
    <3>4. CASE ~((i - t) + k <= q)
      <4>1. ~(i + k <= t + q) /\ (i + k) - (t + q) = ((i - t) + k) - q
        BY <1>8, <1>13, <2>2, <3>1, <3>4
      <4>2. all[(i - t) + k] = items[((i - t) + k) - q]
        BY <1>5, <1>8, <1>10, <3>1, <3>4
      <4> QED BY <1>8, <1>13, <2>2, <3>1, <3>2, <4>1, <4>2
    <3> QED BY <3>3, <3>4
  <2> QED BY <1>8, <1>13, <2>1, <2>2
<1>14. \A j \in 1..(t + q) : Out[j] \in ToSet(Out)
  BY <1>11 DEF ToSet
<1>15. ToSet(Out) \subseteq seen
  BY DEF StreamInv
<1>16. ASSUME NEW j \in 1..(t + l), ~(j <= t + q)
       PROVE  j - (t + q) \in 1..n /\ items[j - (t + q)] \in new
  <2>1. j - (t + q) \in 1..n
    BY <1>1, <1>8, <1>10, <1>16
  <2> QED BY <1>3, <2>1
<1>17. ToSet(Out') \subseteq ToSet(Out) \cup new
  <2> SUFFICES ASSUME NEW i \in 1..(t + (l - k)) PROVE Out'[i] \in ToSet(Out) \cup new
    BY <1>12 DEF ToSet
  <2>1. PICK j \in 1..(t + l) : Out'[i] = IF j <= t + q THEN Out[j] ELSE items[j - (t + q)]
    BY <1>13
  <2>2. CASE j <= t + q
    <3>1. j \in 1..(t + q)
      BY <1>8, <2>2
    <3> QED BY <1>14, <2>1, <2>2, <3>1
  <2> QED BY <1>16, <2>1, <2>2
<1>18. ASSUME NEW i \in 1..(t + (l - k)), NEW j \in 1..(t + (l - k)), Out'[i] = Out'[j] PROVE i = j
  <2>1. PICK a \in 1..(t + l) : /\ a = IF i <= t THEN i ELSE i + k
                                /\ Out'[i] = IF a <= t + q THEN Out[a] ELSE items[a - (t + q)]
    BY <1>13, SMTT(60)
  <2>2. PICK b \in 1..(t + l) : /\ b = IF j <= t THEN j ELSE j + k
                                /\ Out'[j] = IF b <= t + q THEN Out[b] ELSE items[b - (t + q)]
    BY <1>13, SMTT(60)
  <2>3. a = b => i = j
    <3>1. a = (IF i <= t THEN i ELSE i + k) /\ b = (IF j <= t THEN j ELSE j + k)
      BY <2>1, <2>2
    <3>2. t \in Nat /\ k \in Nat /\ i \in Nat /\ j \in Nat
      BY <1>8, <1>10
    <3> QED BY <3>1, <3>2
  <2>4. CASE a <= t + q /\ b <= t + q
    <3>1. a \in 1..(t + q) /\ b \in 1..(t + q) /\ Out[a] = Out[b]
      <4>1. a \in 1..(t + q) /\ b \in 1..(t + q)
        BY <1>8, <2>4
      <4> QED BY <1>18, <2>1, <2>2, <2>4, <4>1
    <3>2. a = b
      BY <1>11, <3>1 DEF StreamInv, IsInjective
    <3> QED BY <2>3, <3>2
  <2>5. CASE ~(a <= t + q) /\ ~(b <= t + q)
    <3>1. a - (t + q) \in 1..n /\ b - (t + q) \in 1..n /\ items[a - (t + q)] = items[b - (t + q)]
      BY <1>16, <1>18, <2>1, <2>2, <2>5
    <3>2. a - (t + q) = b - (t + q)
      BY <1>2, <3>1 DEF IsInjective
    <3>3. a = b
      BY <1>8, <3>2
    <3> QED BY <2>3, <3>3
  <2>6. CASE a <= t + q /\ ~(b <= t + q)
    <3>1. a \in 1..(t + q) /\ Out[a] \in seen /\ items[b - (t + q)] \in new
      <4>1. a \in 1..(t + q)
        BY <1>8, <2>6
      <4> QED BY <1>14, <1>15, <1>16, <2>6, <4>1
    <3> QED BY <1>18, <2>1, <2>2, <2>6, <3>1
  <2>7. CASE ~(a <= t + q) /\ b <= t + q
    <3>1. b \in 1..(t + q) /\ Out[b] \in seen /\ items[a - (t + q)] \in new
      <4>1. b \in 1..(t + q)
        BY <1>8, <2>7
      <4> QED BY <1>14, <1>15, <1>16, <2>7, <4>1
    <3> QED BY <1>18, <2>1, <2>2, <2>7, <3>1
  <2> QED BY <2>4, <2>5, <2>6, <2>7
<1>19. Len(Out') + dropped' = Len(Out) + dropped + n /\ dropped' \in Nat
  BY <1>1, <1>4, <1>8, <1>10, <1>11, <1>12
<1>20. IsInjective(Out')
  BY <1>12, <1>18 DEF IsInjective
<1> QED BY <1>9, <1>10, <1>17, <1>19, <1>20 DEF V, n

\* A step that puts nothing out and meets nothing.
LEMMA StreamQuiet ==
  ASSUME StreamInv, stored' \in SUBSET Alerts, stored \subseteq stored', aged' \subseteq stored',
         aged \subseteq aged', since' \subseteq stored', stored' \ since' \subseteq stored \ since,
         UNCHANGED <<seen, initial, queue, sent, dropped>>,
         pump' = pump \/ (pump \in {"first", "on"} /\ pump' = "failing") \/ pump' = "closed"
  PROVE  StreamInv'
<1>1. Out' = Out
  BY DEF Out
<1>2. NoneIsMissed'
  <2> SUFFICES ASSUME pump = "on", NEW x \in stored' \ (seen \cup since')
               PROVE  x \in aged' \/ Cardinality({y \in stored' : y > x}) >= PageSize
    BY DEF NoneIsMissed
  <2>1. x \in aged \/ Cardinality({y \in stored : y > x}) >= PageSize
    BY DEF StreamInv, NoneIsMissed
  <2>2. CASE Cardinality({y \in stored : y > x}) >= PageSize
    <3>1. stored \in SUBSET Alerts
      BY DEF StreamInv
    <3> QED BY <2>2, <3>1, StillBeyond
  <2> QED BY <2>1, <2>2
<1> QED BY <1>1, <1>2 DEF StreamInv

\* What a poll leaves out is old, or beyond its page.
LEMMA PollMisses ==
  ASSUME StreamInv, Poll
  PROVE  NoneIsMissed' /\ Page \subseteq stored
<1>1. seen' = seen \cup (Page \ seen) /\ UNCHANGED <<stored, aged>> /\ since' = {}
  BY DEF Poll
<1>2. ASSUME NEW x \in stored, x \notin seen', x \notin aged
      PROVE  Cardinality({y \in stored : y > x}) >= PageSize
  <2>1. ~(Cardinality({y \in stored \ aged : y > x}) < PageSize)
    BY <1>1, <1>2 DEF Page
  <2>2. stored \ aged \in SUBSET Alerts /\ stored \in SUBSET Alerts
    BY DEF StreamInv
  <2>3. PICK U \in SUBSET Alerts : U = {y \in stored \ aged : y > x}
    BY <2>2
  <2>4. Cardinality(U) \in Nat
    BY AlertsAreFinite
  <2>5. Cardinality({y \in stored \ aged : y > x}) >= PageSize
    BY <2>1, <2>3, <2>4, LiveAssumption
  <2> QED BY <2>2, <2>5, StillBeyond
<1> QED BY <1>1, <1>2 DEF NoneIsMissed, Page

\* Every step of a connection keeps its account.
LEMMA StreamStep ==
  ASSUME StreamInv, [StreamNext]_liveVars
  PROVE  StreamInv'
<1> DEFINE V == Alerts \cup {Error}
<1>0. /\ stored \in SUBSET Alerts /\ aged \subseteq stored /\ since \subseteq stored
      /\ seen \subseteq stored /\ initial \subseteq seen
      /\ queue \in Seq(V) /\ sent \in Seq(V) /\ dropped \in Nat
  BY DEF StreamInv
<1>1. CASE StoreAlert
  <2>1. PICK x \in Alerts \ stored : stored' = stored \cup {x} /\ since' = since \cup {x}
    BY <1>1 DEF StoreAlert
  <2>2. UNCHANGED <<aged, pump, seen, initial, queue, sent, dropped>>
    BY <1>1 DEF StoreAlert
  <2> QED BY <1>0, <2>1, <2>2, StreamQuiet
<1>2. CASE AgeAlert
  <2>1. PICK m \in stored \ aged : m = Min(stored \ aged)
    <3>1. stored \ aged \in SUBSET Nat /\ stored \ aged # {}
      BY <1>0, <1>2, AlertsAreFinite DEF AgeAlert
    <3>2. \E m \in stored \ aged : \A k \in stored \ aged : m <= k
      BY <3>1, LeastNumber
    <3> QED BY <3>2 DEF Min
  <2>2. aged' = aged \cup {m} /\ UNCHANGED <<stored, since, pump, seen, initial, queue, sent, dropped>>
    BY <1>2, <2>1 DEF AgeAlert
  <2> QED BY <1>0, <2>1, <2>2, StreamQuiet
<1>3. CASE SourceFails
  <2>1. /\ pump \in {"first", "on"} /\ pump' = "failing"
        /\ UNCHANGED <<stored, aged, since, seen, initial, queue, sent, dropped>>
    BY <1>3 DEF SourceFails
  <2> QED BY <1>0, <2>1, StreamQuiet
<1>4. CASE Disconnect
  <2>1. pump' = "closed" /\ UNCHANGED <<stored, aged, since, seen, initial, queue, sent, dropped>>
    BY <1>4 DEF Disconnect
  <2> QED BY <1>0, <2>1, StreamQuiet
<1>5. CASE UNCHANGED liveVars
  <2>1. UNCHANGED <<stored, aged, since, pump, seen, initial, queue, sent, dropped>>
    BY <1>5 DEF liveVars, streamVars
  <2> QED BY <1>0, <2>1, StreamQuiet
<1>6. CASE Send
  <2>1. /\ queue # <<>> /\ sent' = Append(sent, Head(queue)) /\ queue' = Tail(queue)
        /\ UNCHANGED <<stored, aged, since, pump, seen, initial, dropped>>
    BY <1>6 DEF Send
  <2>2. queue' \in Seq(V) /\ sent' \in Seq(V) /\ Len(queue') = Len(queue) - 1 /\ Len(queue) \in Nat
    BY <1>0, <2>1
  <2>3. Out' = Out
    <3>1. Append(sent, Head(queue)) \o Tail(queue) = sent \o queue
      BY <1>0, <2>1, SMTT(30)
    <3> QED BY <2>1, <3>1 DEF Out
  <2>4. Len(queue') <= MaxQueue
    BY <2>2, LiveAssumption DEF StreamInv
  <2>5. NoneIsMissed'
    BY <2>1 DEF StreamInv, NoneIsMissed
  <2> QED BY <2>1, <2>2, <2>3, <2>4, <2>5 DEF StreamInv
<1>7. CASE PutError
  <2>1. /\ pump = "failing" /\ pump' = "dead" /\ queue' = Append(queue, Error) /\ Len(queue) < MaxQueue
        /\ UNCHANGED <<stored, aged, since, seen, initial, sent, dropped>>
    BY <1>7 DEF PutError
  <2>2. queue' \in Seq(V) /\ Len(queue') <= MaxQueue /\ Error \notin ToSet(Out)
    BY <1>0, <2>1, LiveAssumption DEF StreamInv
  <2>3. Out \in Seq(V) /\ Out' = Append(Out, Error)
    <3>1. sent \o Append(queue, Error) = Append(sent \o queue, Error)
      BY <1>0, SMTT(30)
    <3>2. sent \o queue \in Seq(V)
      BY <1>0
    <3> QED BY <2>1, <3>1, <3>2 DEF Out
  <2>4. PICK n \in Nat : n = Len(Out)
    BY <2>3
  <2>5. /\ Len(Out') = n + 1 /\ DOMAIN Out' = 1..(n + 1) /\ DOMAIN Out = 1..n /\ Out'[n + 1] = Error
        /\ \A i \in 1..n : Out'[i] = Out[i]
    BY <2>3, <2>4
  <2>6. ToSet(Out') = ToSet(Out) \cup {Error}
    <3>1. 1..(n + 1) = (1..n) \cup {n + 1}
      BY <2>4
    <3> QED BY <2>5, <3>1 DEF ToSet
  <2>7. IsInjective(Out')
    <3>1. \A i \in 1..n : Out[i] # Error
      BY <2>2, <2>5 DEF ToSet
    <3>2. \A i, j \in 1..n : Out[i] = Out[j] => i = j
      BY <2>5 DEF StreamInv, IsInjective
    <3>3. \A i \in 1..(n + 1) : i \in 1..n \/ i = n + 1
      BY <2>4
    <3>4. ASSUME NEW i \in 1..(n + 1), NEW j \in 1..(n + 1), Out'[i] = Out'[j] PROVE i = j
      BY <2>5, <3>1, <3>2, <3>3, <3>4
    <3> QED BY <2>5, <3>4 DEF IsInjective
  <2>8. Out' # <<>> /\ Last(Out') = Error
    <3>1. Len(<<>>) = 0 /\ Len(Out') # 0
      BY <2>4, <2>5
    <3> QED BY <2>5, <3>1 DEF Last
  <2>9. Len(Out') + dropped' = Cardinality(seen' \ initial') + (IF Error \in ToSet(Out') THEN 1 ELSE 0)
    <3>1. n + dropped = Cardinality(seen \ initial) + 0
      BY <2>2, <2>4 DEF StreamInv
    <3>2. Cardinality(seen \ initial) \in Nat
      BY <1>0, AlertsAreFinite
    <3> QED BY <1>0, <2>1, <2>4, <2>5, <2>6, <3>1, <3>2
  <2> QED BY <1>0, <2>1, <2>2, <2>6, <2>7, <2>8, <2>9 DEF StreamInv, NoneIsMissed
<1>8. CASE Poll /\ pump = "first"
  <2>1. /\ UNCHANGED <<stored, aged, sent, queue, dropped>> /\ since' = {} /\ pump' = "on"
        /\ seen' = seen \cup (Page \ seen) /\ initial' = Page \ seen /\ seen = {}
    BY <1>8 DEF Poll, StreamInv
  <2>2. NoneIsMissed' /\ Page \subseteq stored
    BY <1>8, PollMisses
  <2>3. seen' \ initial' = seen \ initial /\ Out' = Out
    BY <2>1 DEF Out
  <2>4. Error \notin ToSet(Out)
    BY <1>8 DEF StreamInv
  <2> QED BY <1>0, <2>1, <2>2, <2>3, <2>4 DEF StreamInv
<1>9. CASE Poll /\ pump = "on"
  <2>1. PICK new : new = Page \ seen
    OBVIOUS
  <2>2. /\ UNCHANGED <<stored, aged, sent, initial>> /\ since' = {} /\ pump' = "on"
        /\ seen' = seen \cup new /\ Pushed(NewestFirst(new))
    BY <1>9, <2>1 DEF Poll
  <2>3. NoneIsMissed' /\ Page \subseteq stored
    BY <1>9, PollMisses
  <2>4. new \in SUBSET Alerts /\ new \cap seen = {} /\ Error \notin ToSet(Out)
    BY <1>0, <1>9, <2>1, <2>3 DEF StreamInv
  <2>5. /\ queue' \in Seq(V) /\ Len(queue') <= MaxQueue /\ dropped' \in Nat
        /\ IsInjective(Out') /\ ToSet(Out') \subseteq ToSet(Out) \cup new
        /\ Len(Out') + dropped' = Len(Out) + dropped + Cardinality(new)
    BY <2>2, <2>4, PushedOut
  <2>6. Error \notin ToSet(Out')
    BY <2>4, <2>5 DEF Alerts, Error
  <2>7. Cardinality(seen' \ initial') = Cardinality(seen \ initial) + Cardinality(new)
    <3>1. seen' \ initial' = (seen \ initial) \cup new /\ (seen \ initial) \cap new = {}
      BY <1>0, <2>2, <2>4
    <3>2. /\ IsFiniteSet(seen \ initial) /\ IsFiniteSet(new)
          /\ Cardinality(seen \ initial) \in Nat /\ Cardinality(new) \in Nat
      BY <1>0, <2>4, AlertsAreFinite
    <3>3. Cardinality((seen \ initial) \cup new)
             = Cardinality(seen \ initial) + Cardinality(new) - Cardinality((seen \ initial) \cap new)
      BY <3>2, FS_Union
    <3>4. Cardinality((seen \ initial) \cap new) = 0
      BY <3>1, FS_EmptySet
    <3>5. PICK a \in Nat, b \in Nat : a = Cardinality(seen \ initial) /\ b = Cardinality(new)
      BY <3>2
    <3>6. Cardinality((seen \ initial) \cup new) = a + b - 0
      BY <3>3, <3>4, <3>5
    <3>7. Cardinality((seen \ initial) \cup new) = a + b
      BY <3>5, <3>6
    <3> QED BY <3>1, <3>5, <3>7
  <2>8. Len(Out') + dropped' = Cardinality(seen' \ initial')
    <3>1. Len(Out) + dropped = Cardinality(seen \ initial) + 0
      BY <2>4 DEF StreamInv
    <3>2. Cardinality(seen \ initial) \in Nat
      BY <1>0, AlertsAreFinite
    <3> QED BY <2>5, <2>7, <3>1, <3>2
  <2>9. Cardinality(seen' \ initial') \in Nat
    BY <1>0, <2>2, <2>4, AlertsAreFinite
  <2>10. ToSet(Out') \subseteq (seen' \ initial') \cup {Error}
    BY <1>0, <2>2, <2>4, <2>5 DEF StreamInv
  <2> QED BY <1>0, <2>1, <2>2, <2>3, <2>5, <2>6, <2>8, <2>9, <2>10 DEF StreamInv
<1>10. Poll => pump \in {"first", "on"}
  BY DEF Poll
<1> QED BY <1>1, <1>2, <1>3, <1>4, <1>5, <1>6, <1>7, <1>8, <1>9, <1>10 DEF StreamNext

\* gen() of live_alerts() and _pump(): for any page, queue and number of alerts,
\* committed in any order, what a poll met is received, queued or counted as
\* dropped, once; the error comes last; and what no poll met was old or beyond a page.
THEOREM StreamSafety == StreamSpec => []StreamAccountsForAll
<1> DEFINE Still == /\ starts = [g \in GroupSet |-> 0] /\ ends = [g \in GroupSet |-> 0]
                    /\ commits = [g \in GroupSet |-> None] /\ probe = NoProbe
<1>1. ASSUME LiveInit PROVE StreamInv /\ Still
  <2>1. /\ stored = {} /\ aged = {} /\ since = {} /\ pump = "first" /\ seen = {} /\ initial = {}
        /\ queue = <<>> /\ sent = <<>> /\ dropped = 0 /\ Still
    BY <1>1 DEF LiveInit
  <2>2. Out = <<>> /\ Len(Out) = 0 /\ DOMAIN Out = {}
    BY <2>1 DEF Out
  <2>3. ToSet(Out) = {} /\ IsInjective(Out)
    BY <2>2 DEF ToSet, IsInjective
  <2>4. Cardinality(seen \ initial) = 0
    <3>1. seen \ initial = {}
      BY <2>1
    <3> QED BY <3>1, FS_EmptySet
  <2>5. Len(queue) <= MaxQueue /\ queue \in Seq(Alerts \cup {Error})
    BY <2>1, LiveAssumption
  <2> QED BY <2>1, <2>2, <2>3, <2>4, <2>5 DEF StreamInv, NoneIsMissed
<1>2. ASSUME StreamInv, Still, [StreamNext]_liveVars PROVE StreamInv' /\ Still'
  <2>1. UNCHANGED lagVars
    BY <1>2 DEF StreamNext, StoreAlert, AgeAlert, Poll, SourceFails, PutError, Send, Disconnect, liveVars
  <2>2. Still'
    BY <1>2, <2>1 DEF lagVars
  <2> QED BY <1>2, <2>2, StreamStep
<1>3. ASSUME StreamInv, Still PROVE StreamAccountsForAll
  <2>1. ToSet(queue \o sent) \subseteq Alerts \cup {Error}
    <3>1. queue \o sent \in Seq(Alerts \cup {Error})
      BY <1>3 DEF StreamInv
    <3> QED BY <3>1 DEF ToSet
  <2>2. /\ starts \in [GroupSet -> 0..MaxOffset] /\ ends \in [GroupSet -> 0..MaxOffset]
        /\ commits \in [GroupSet -> None..MaxOffset]
        /\ probe.at \in 0..Len(Groups) /\ probe.leo \in None..MaxOffset
    BY <1>3, LiveAssumption DEF NoProbe, None
  <2>3. LiveTypeOK
    BY <1>3, <2>1, <2>2 DEF LiveTypeOK, StreamInv
  <2> QED BY <1>3, <2>3 DEF StreamAccountsForAll, StreamInv
<1> HIDE DEF Still
<1> QED BY <1>1, <1>2, <1>3, PTL DEF StreamSpec

----------------------------------------------------------------------------
(* Windows: what the states of events add up to *)

\* The units of one event.
LEMMA UnitsOfOne ==
  ASSUME NEW e \in Samples, NEW sign \in {1, -1}
  PROVE  /\ Weight(e) \in Int /\ IsFiniteSet(Units({e}, sign))
         /\ Cardinality(Units({e}, sign)) = IF sign * Weight(e) > 0 THEN sign * Weight(e) ELSE 0
<1>1. Weight(e) \in Int
  BY WindowAssumption, FloatAssumption DEF Weight
<1>2. Units({e}, sign) = {e} \X (1..(sign * Weight(e)))
  BY DEF Units
<1>3. PICK n \in Int : n = sign * Weight(e)
  BY <1>1
<1>4. IsFiniteSet({e}) /\ Cardinality({e}) = 1
  BY FS_Singleton
<1>5. IsFiniteSet(1..n)
  BY FS_Interval
<1>6. Cardinality(1..n) = IF 1 > n THEN 0 ELSE n - 1 + 1
  BY FS_Interval
<1>7. Cardinality(1..n) = IF n > 0 THEN n ELSE 0
  BY <1>6
<1>8. IsFiniteSet({e} \X (1..n)) /\ Cardinality({e} \X (1..n)) = Cardinality({e}) * Cardinality(1..n)
  BY <1>4, <1>5, FS_Product
<1>9. Cardinality({e} \X (1..n)) = 1 * (IF n > 0 THEN n ELSE 0)
  BY <1>4, <1>7, <1>8
<1>10. Cardinality({e} \X (1..n)) = IF n > 0 THEN n ELSE 0
  BY <1>9
<1> QED BY <1>1, <1>2, <1>3, <1>8, <1>10

\* Sets of events are finite, and so are their units.
LEMMA UnitsFinite ==
  ASSUME NEW A \in SUBSET Samples, NEW sign \in {1, -1}
  PROVE  /\ IsFiniteSet(A) /\ Cardinality(A) \in Nat
         /\ IsFiniteSet(Units(A, sign)) /\ Cardinality(Units(A, sign)) \in Nat
<1> DEFINE F == {{e} \X (1..(sign * Weight(e))) : e \in A}
<1>1. IsFiniteSet(A) /\ Cardinality(A) \in Nat
  BY WindowAssumption, FS_Subset, FS_CardinalityType
<1>2. IsFiniteSet(F)
  <2> DEFINE f == [e \in A |-> {e} \X (1..(sign * Weight(e)))]
  <2>1. f \in Surjection(A, F)
    BY DEF Surjection
  <2> HIDE DEF f, F
  <2> QED BY <1>1, <2>1, FS_Surjection
<1>3. ASSUME NEW T \in F PROVE IsFiniteSet(T)
  <2>1. PICK e \in A : T = {e} \X (1..(sign * Weight(e)))
    OBVIOUS
  <2>2. PICK n \in Int : n = sign * Weight(e)
    <3>1. e \in Samples /\ Weight(e) \in Int
      BY UnitsOfOne
    <3> QED BY <3>1
  <2>3. IsFiniteSet({e})
    BY FS_Singleton
  <2>4. IsFiniteSet(1..n)
    BY <2>2, FS_Interval
  <2> QED BY <2>1, <2>2, <2>3, <2>4, FS_Product
<1>4. IsFiniteSet(UNION F)
  <2> HIDE DEF F
  <2> QED BY <1>2, <1>3, FS_UNION
<1>5. Units(A, sign) = UNION F
  BY DEF Units
<1> QED BY <1>1, <1>4, <1>5, FS_CardinalityType

\* Counting two sets that have nothing in common.
LEMMA CountBoth ==
  ASSUME NEW S, NEW T, IsFiniteSet(S), IsFiniteSet(T), S \cap T = {}
  PROVE  Cardinality(S \cup T) = Cardinality(S) + Cardinality(T)
<1>1. Cardinality(S \cup T) = Cardinality(S) + Cardinality(T) - Cardinality(S \cap T)
  BY FS_Union
<1>2. Cardinality(S \cap T) = 0
  BY FS_EmptySet
<1>3. PICK s \in Nat, t \in Nat : s = Cardinality(S) /\ t = Cardinality(T)
  BY FS_CardinalityType
<1>4. Cardinality(S \cup T) = s + t - 0
  BY <1>1, <1>2, <1>3
<1>5. s + t - 0 = s + t
  OBVIOUS
<1> QED BY <1>3, <1>4, <1>5

\* Units add up.
LEMMA UnitsBoth ==
  ASSUME NEW A \in SUBSET Samples, NEW B \in SUBSET Samples, A \cap B = {}, NEW sign \in {1, -1}
  PROVE  Cardinality(Units(A \cup B, sign)) = Cardinality(Units(A, sign)) + Cardinality(Units(B, sign))
<1> DEFINE Of(e) == {e} \X (1..(sign * Weight(e)))
<1>0. \A S : Units(S, sign) = UNION {Of(e) : e \in S}
  BY DEF Units
<1>1. Units(A \cup B, sign) = Units(A, sign) \cup Units(B, sign)
  <2> HIDE DEF Of
  <2> QED BY <1>0
<1>2. Units(A, sign) \cap Units(B, sign) = {}
  <2> SUFFICES ASSUME NEW x \in Units(A, sign), x \in Units(B, sign) PROVE FALSE
    OBVIOUS
  <2>1. PICK a \in A : x \in Of(a)
    BY <1>0
  <2>2. PICK b \in B : x \in Of(b)
    BY <1>0
  <2>3. x[1] = a /\ x[1] = b
    BY <2>1, <2>2
  <2> QED BY <2>3
<1> QED BY <1>1, <1>2, UnitsFinite, CountBoth

\* So do what events add and what they take away;
LEMMA SumsBoth ==
  ASSUME NEW A \in SUBSET Samples, NEW B \in SUBSET Samples, A \cap B = {}
  PROVE  /\ Up(A) \in Nat /\ Down(A) \in Nat /\ Up(B) \in Nat /\ Down(B) \in Nat
         /\ Up(A \cup B) = Up(A) + Up(B) /\ Down(A \cup B) = Down(A) + Down(B)
<1>1. 1 \in {1, -1} /\ -1 \in {1, -1}
  OBVIOUS
<1>2. Up(A \cup B) = Up(A) + Up(B)
  BY <1>1, UnitsBoth DEF Up
<1>3. Down(A \cup B) = Down(A) + Down(B)
  BY <1>1, UnitsBoth DEF Down
<1>4. Up(A) \in Nat /\ Up(B) \in Nat
  BY <1>1, UnitsFinite DEF Up
<1>5. Down(A) \in Nat /\ Down(B) \in Nat
  BY <1>1, UnitsFinite DEF Down
<1> QED BY <1>2, <1>3, <1>4, <1>5

\* one event adds or takes away its weight, which is a float when it is not too large.
LEMMA SumOfOne ==
  ASSUME NEW e \in Samples
  PROVE  SumIs(Float(Weight(e)), {e})
<1>1. PICK w \in Int : w = Weight(e)
  BY UnitsOfOne
<1>2. Up({e}) = IF 1 * w > 0 THEN 1 * w ELSE 0
  <2>1. 1 \in {1, -1}
    OBVIOUS
  <2> QED BY <1>1, <2>1, UnitsOfOne DEF Up
<1>3. Down({e}) = IF -1 * w > 0 THEN -1 * w ELSE 0
  <2>1. -1 \in {1, -1}
    OBVIOUS
  <2> QED BY <1>1, <2>1, UnitsOfOne DEF Down
<1> SUFFICES ASSUME Up({e}) + Down({e}) <= Exact PROVE Float(w) = Up({e}) - Down({e})
  BY <1>1 DEF SumIs
<1>4. w \in (-Exact)..Exact /\ Up({e}) - Down({e}) = w
  BY <1>2, <1>3, FloatAssumption
<1> QED BY <1>4, FloatAssumption

\* The float addition of two sums is the sum of both sets, when that one is exact.
LEMMA FloatSum ==
  ASSUME NEW A \in SUBSET Samples, NEW B \in SUBSET Samples, A \cap B = {},
         NEW x, NEW y, SumIs(x, A), SumIs(y, B)
  PROVE  SumIs(Float(x + y), A \cup B)
<1>1. PICK a \in Nat, b \in Nat, c \in Nat, d \in Nat :
         /\ a = Up(A) /\ b = Up(B) /\ c = Down(A) /\ d = Down(B)
         /\ Up(A \cup B) = a + b /\ Down(A \cup B) = c + d
  BY SumsBoth
<1> SUFFICES ASSUME a + b + (c + d) <= Exact PROVE Float(x + y) = a + b - (c + d)
  BY <1>1 DEF SumIs
<1>2. a + c <= Exact /\ b + d <= Exact
  BY FloatAssumption
<1>3. x = a - c /\ y = b - d
  BY <1>1, <1>2 DEF SumIs
<1>4. x + y \in (-Exact)..Exact /\ x + y = a + b - (c + d)
  BY <1>3, FloatAssumption
<1> QED BY <1>4, FloatAssumption

\* No events add up to nothing.
LEMMA SumOfNone == SumIs(0, {})
<1>1. \A sign : Units({}, sign) = {}
  BY DEF Units
<1>2. Up({}) = 0 /\ Down({}) = 0
  BY <1>1, FS_EmptySet DEF Up, Down
<1> QED BY <1>2 DEF SumIs

Matching(es) == {e \in es : Amount[e] = RateValue}

\* merge() of the states of two sets of events is a state of both.
LEMMA MergeState ==
  ASSUME NEW A \in SUBSET Samples, NEW B \in SUBSET Samples, A \cap B = {},
         NEW a, NEW b, StateIs(a, A), StateIs(b, B)
  PROVE  StateIs(merge(a, b), A \cup B)
<1> DEFINE m == merge(a, b)
<1>0. /\ m.count = a.count + b.count /\ m.sum = Float(a.sum + b.sum) /\ m.summed = a.summed + b.summed
      /\ m.matched = a.matched + b.matched /\ m.members = a.members \cup b.members
      /\ \A u \in Users : m.counts[u] = Float(a.counts[u] + b.counts[u])
  BY DEF merge
<1> HIDE DEF m
<1>1. \A S, T \in SUBSET Samples : S \cap T = {} => Cardinality(S \cup T) = Cardinality(S) + Cardinality(T)
  <2> TAKE S, T \in SUBSET Samples
  <2>1. IsFiniteSet(S) /\ IsFiniteSet(T)
    <3>1. 1 \in {1, -1}
      OBVIOUS
    <3> QED BY <3>1, UnitsFinite
  <2> QED BY <2>1, CountBoth
<1>2. /\ Numbers(A \cup B) = Numbers(A) \cup Numbers(B) /\ Numbers(A) \cap Numbers(B) = {}
      /\ Numbers(A) \in SUBSET Samples /\ Numbers(B) \in SUBSET Samples
  BY DEF Numbers
<1>3. /\ Matching(A \cup B) = Matching(A) \cup Matching(B) /\ Matching(A) \cap Matching(B) = {}
      /\ Matching(A) \in SUBSET Samples /\ Matching(B) \in SUBSET Samples
  BY DEF Matching
<1>4. /\ m.count = Cardinality(A \cup B) /\ m.summed = Cardinality(Numbers(A \cup B))
      /\ m.matched = Cardinality(Matching(A \cup B))
  <2>1. /\ a.count = Cardinality(A) /\ a.summed = Cardinality(Numbers(A))
        /\ a.matched = Cardinality(Matching(A))
        /\ b.count = Cardinality(B) /\ b.summed = Cardinality(Numbers(B))
        /\ b.matched = Cardinality(Matching(B))
    BY DEF StateIs, Matching
  <2>2. /\ Cardinality(A \cup B) = Cardinality(A) + Cardinality(B)
        /\ Cardinality(Numbers(A) \cup Numbers(B)) = Cardinality(Numbers(A)) + Cardinality(Numbers(B))
        /\ Cardinality(Matching(A) \cup Matching(B)) = Cardinality(Matching(A)) + Cardinality(Matching(B))
    BY <1>1, <1>2, <1>3
  <2> QED BY <1>0, <1>2, <1>3, <2>1, <2>2
<1>5. m.members = {User[e] : e \in A \cup B} \ {NoUser}
  BY <1>0 DEF StateIs
<1>6. SumIs(m.sum, Numbers(A \cup B))
  <2>1. SumIs(a.sum, Numbers(A)) /\ SumIs(b.sum, Numbers(B))
    BY DEF StateIs
  <2>2. SumIs(Float(a.sum + b.sum), Numbers(A) \cup Numbers(B))
    BY <1>2, <2>1, FloatSum
  <2> QED BY <1>0, <1>2, <2>2
<1>7. ASSUME NEW u \in Users PROVE SumIs(m.counts[u], OfUser(A \cup B, u))
  <2>1. /\ OfUser(A \cup B, u) = OfUser(A, u) \cup OfUser(B, u)
        /\ OfUser(A, u) \cap OfUser(B, u) = {}
        /\ OfUser(A, u) \in SUBSET Samples /\ OfUser(B, u) \in SUBSET Samples
    BY DEF OfUser
  <2>2. SumIs(a.counts[u], OfUser(A, u)) /\ SumIs(b.counts[u], OfUser(B, u))
    BY DEF StateIs
  <2>3. SumIs(Float(a.counts[u] + b.counts[u]), OfUser(A, u) \cup OfUser(B, u))
    BY <2>1, <2>2, FloatSum
  <2> QED BY <1>0, <2>1, <2>3
<1>8. StateIs(m, A \cup B)
  BY <1>4, <1>5, <1>6, <1>7 DEF StateIs, Matching
<1> QED BY <1>8 DEF m

\* The initial state is that of no events,
LEMMA StateOfNone == StateIs(init_state, {})
<1>1. /\ Numbers({}) = {} /\ {e \in {} : Amount[e] = RateValue} = {} /\ {User[e] : e \in {}} = {}
      /\ \A u : OfUser({}, u) = {}
  BY DEF Numbers, OfUser
<1>2. Cardinality({}) = 0
  BY FS_EmptySet
<1>3. /\ init_state.count = 0 /\ init_state.sum = 0 /\ init_state.summed = 0
      /\ init_state.matched = 0 /\ init_state.members = {}
      /\ \A u \in Users : init_state.counts[u] = 0
  BY DEF init_state
<1> QED BY <1>1, <1>2, <1>3, SumOfNone DEF StateIs

\* and update() adds one event.
LEMMA UpdateState ==
  ASSUME NEW A \in SUBSET Samples, NEW e \in Samples \ A, NEW s, StateIs(s, A)
  PROVE  StateIs(update(s, e), A \cup {e})
<1> DEFINE n == update(s, e)
           B == A \cup {e}
           number == Amount[e] # NoAmount
<1>0. /\ n.count = s.count + 1
      /\ n.sum = (IF number THEN Float(s.sum + Float(Amount[e])) ELSE s.sum)
      /\ n.summed = (IF number THEN s.summed + 1 ELSE s.summed)
      /\ n.matched = (IF Amount[e] = RateValue THEN s.matched + 1 ELSE s.matched)
      /\ n.members = s.members \cup ({User[e]} \ {NoUser})
      /\ \A u \in Users : n.counts[u] = IF u = User[e] THEN Float(s.counts[u] + Float(Weight(e)))
                                                       ELSE s.counts[u]
  BY DEF update
<1>1. \A S \in SUBSET A : Cardinality(S \cup {e}) = Cardinality(S) + 1
  <2> TAKE S \in SUBSET A
  <2>1. IsFiniteSet(S)
    <3>1. 1 \in {1, -1} /\ S \in SUBSET Samples
      OBVIOUS
    <3> QED BY <3>1, UnitsFinite
  <2>2. IsFiniteSet({e}) /\ Cardinality({e}) = 1 /\ S \cap {e} = {}
    BY FS_Singleton
  <2>3. Cardinality(S \cup {e}) = Cardinality(S) + Cardinality({e})
    BY <2>1, <2>2, CountBoth
  <2> QED BY <2>2, <2>3
<1>2. /\ Numbers(B) = (IF number THEN Numbers(A) \cup {e} ELSE Numbers(A)) /\ Numbers(A) \in SUBSET A
      /\ Matching(B) = (IF Amount[e] = RateValue THEN Matching(A) \cup {e} ELSE Matching(A))
      /\ Matching(A) \in SUBSET A
  BY DEF Numbers, Matching
<1> HIDE DEF n, number
<1>3. /\ n.count = Cardinality(B) /\ n.summed = Cardinality(Numbers(B))
      /\ n.matched = Cardinality(Matching(B))
  <2>1. /\ s.count = Cardinality(A) /\ s.summed = Cardinality(Numbers(A))
        /\ s.matched = Cardinality(Matching(A)) /\ A \in SUBSET A
    BY DEF StateIs, Matching
  <2> QED BY <1>0, <1>1, <1>2, <2>1
<1>4. n.members = {User[f] : f \in B} \ {NoUser}
  BY <1>0 DEF StateIs
<1>5. ASSUME NEW x, NEW S \in SUBSET A, SumIs(x, S)
      PROVE  SumIs(Float(x + Float(Weight(e))), S \cup {e})
  <2>1. S \in SUBSET Samples /\ {e} \in SUBSET Samples /\ S \cap {e} = {}
    OBVIOUS
  <2>2. SumIs(Float(Weight(e)), {e})
    BY SumOfOne
  <2> QED BY <1>5, <2>1, <2>2, FloatSum
<1>6. SumIs(n.sum, Numbers(B))
  <2>1. SumIs(s.sum, Numbers(A))
    BY DEF StateIs
  <2>2. CASE number
    <3>1. Weight(e) = Amount[e]
      BY <2>2 DEF Weight, number
    <3>2. SumIs(Float(s.sum + Float(Weight(e))), Numbers(A) \cup {e})
      BY <1>2, <1>5, <2>1
    <3> QED BY <1>0, <1>2, <2>2, <3>1, <3>2
  <2>3. CASE ~number
    BY <1>0, <1>2, <2>1, <2>3
  <2> QED BY <2>2, <2>3
<1>7. ASSUME NEW u \in Users PROVE SumIs(n.counts[u], OfUser(B, u))
  <2>1. SumIs(s.counts[u], OfUser(A, u)) /\ OfUser(A, u) \in SUBSET A
    BY DEF StateIs, OfUser
  <2>2. CASE u = User[e]
    <3>1. OfUser(B, u) = OfUser(A, u) \cup {e}
      BY <2>2 DEF OfUser
    <3>2. SumIs(Float(s.counts[u] + Float(Weight(e))), OfUser(A, u) \cup {e})
      BY <1>5, <2>1
    <3> QED BY <1>0, <2>2, <3>1, <3>2
  <2>3. CASE u # User[e]
    <3>1. OfUser(B, u) = OfUser(A, u)
      BY <2>3 DEF OfUser
    <3> QED BY <1>0, <2>1, <2>3, <3>1
  <2> QED BY <2>2, <2>3
<1>8. StateIs(n, B)
  BY <1>3, <1>4, <1>6, <1>7 DEF StateIs, Matching
<1> QED BY <1>8 DEF n

----------------------------------------------------------------------------
(* Windows: assignment *)

\* The latest multiple of d up to t, and the ones before it.
LEMMA Latest ==
  ASSUME NEW t \in Int, NEW d \in Nat \ {0}, NEW last, last = (t \div d) * d, NEW k \in Nat
  PROVE  /\ last \in Int /\ last <= t /\ t < last + d
         /\ (last - k * d) % d = 0 /\ last - k * d <= last /\ last - k * d \in Int
<1>1. PICK q \in Int : q = t \div d
  OBVIOUS
<1>2. last <= t /\ t < last + d /\ last \in Int /\ last = q * d
  BY <1>1
<1>3. last - k * d = (q - k) * d /\ q - k \in Int
  BY <1>2
<1>4. ((q - k) * d) % d = 0 /\ (q - k) * d \in Int
  BY <1>3
<1>5. k * d >= 0 /\ k * d \in Int
  OBVIOUS
<1> QED BY <1>2, <1>3, <1>4, <1>5

\* There are no others.
LEMMA Multiples ==
  ASSUME NEW t \in Int, NEW d \in Nat \ {0}, NEW last, last = (t \div d) * d,
         NEW s \in Int, s % d = 0, s <= t
  PROVE  \E k \in Nat : s = last - k * d /\ k <= last - s
<1>1. PICK q \in Int : q = t \div d
  OBVIOUS
<1>2. last <= t /\ t < last + d /\ last \in Int /\ last = q * d
  BY <1>1
<1>3. PICK m \in Int : s = m * d
  <2>1. s = (s \div d) * d /\ s \div d \in Int
    OBVIOUS
  <2> QED BY <2>1
<1>4. m <= q
  <2> SUFFICES ASSUME m > q PROVE FALSE
    OBVIOUS
  <2>1. m * d >= q * d + d
    OBVIOUS
  <2>2. m * d \in Int
    OBVIOUS
  <2> QED BY <1>2, <1>3, <2>1, <2>2
<1>5. PICK k \in Nat : k = q - m
  BY <1>4
<1>6. last - k * d = s
  BY <1>2, <1>3, <1>5
<1>7. k * d >= k /\ k * d \in Int
  OBVIOUS
<1>8. k <= last - s
  BY <1>2, <1>6, <1>7
<1> QED BY <1>6, <1>8

\* The starts of the windows that cover t.
Covering(t, step) == {s \in {t - d : d \in 0..(Size - 1)} : s % step = 0}

\* TumblingWindower.assign() finds the one of them that there is.
LEMMA TumblingCovers ==
  ASSUME NEW t \in Nat
  PROVE  Tumbling(t) = {Pane("tumbling", s, s + Size) : s \in Covering(t, Size)}
<1>0. Size \in Nat \ {0}
  BY WindowAssumption
<1>1. PICK last \in Int : last = (t \div Size) * Size
  BY <1>0
<1>2. /\ last <= t
      /\ \A k \in Nat : (last - k * Size) % Size = 0
      /\ \A s \in Int : s % Size = 0 /\ s <= t => \E k \in Nat : s = last - k * Size
  <2>1. t \in Int
    OBVIOUS
  <2>2. last <= t
    BY <1>0, <1>1, <2>1, Latest
  <2>3. ASSUME NEW k \in Nat PROVE (last - k * Size) % Size = 0
    BY <1>0, <1>1, <2>1, <2>3, Latest
  <2>4. ASSUME NEW s \in Int, s % Size = 0, s <= t PROVE \E k \in Nat : s = last - k * Size
    <3>1. PICK k \in Nat : s = last - k * Size /\ k <= last - s
      BY <1>0, <1>1, <2>1, <2>4, Multiples
    <3> QED BY <3>1
  <2> QED BY <2>2, <2>3, <2>4
<1>3. t < last + Size
  BY <1>0, <1>1
<1>4. last \in Covering(t, Size)
  <2>1. last % Size = 0
    <3>1. (last - 0 * Size) % Size = 0 /\ last - 0 * Size = last
      BY <1>0, <1>2
    <3> QED BY <3>1
  <2>2. t - last \in 0..(Size - 1) /\ last = t - (t - last)
    BY <1>0, <1>2, <1>3
  <2> QED BY <2>1, <2>2 DEF Covering
<1>5. ASSUME NEW s \in Covering(t, Size) PROVE s = last
  <2>1. PICK d \in 0..(Size - 1) : s = t - d
    BY DEF Covering
  <2>2. s \in Int /\ s % Size = 0 /\ s <= t /\ t < s + Size
    BY <1>0, <2>1 DEF Covering
  <2>3. PICK k \in Nat : s = last - k * Size
    BY <1>2, <2>2
  <2>4. k = 0
    <3> SUFFICES ASSUME k >= 1 PROVE FALSE
      OBVIOUS
    <3>1. k * Size >= Size /\ k * Size \in Int
      BY <1>0
    <3> QED BY <1>0, <1>2, <2>2, <2>3, <3>1
  <2> QED BY <1>0, <2>3, <2>4
<1>6. Covering(t, Size) = {last}
  BY <1>4, <1>5
<1> QED BY <1>1, <1>6 DEF Tumbling

\* SlidingWindower.assign() finds them walking back from the latest start.
LEMMA SlidingCovers ==
  ASSUME NEW t \in Nat
  PROVE  Sliding(t) = {Pane("sliding", s, s + Size) : s \in Covering(t, Slide)}
<1>0. Size \in Nat \ {0} /\ Slide \in Nat \ {0}
  BY WindowAssumption
<1>1. PICK last \in Int : last = (t \div Slide) * Slide
  BY <1>0
<1>2. /\ last <= t
      /\ \A k \in Nat : (last - k * Slide) % Slide = 0 /\ last - k * Slide <= last /\ last - k * Slide \in Int
      /\ \A s \in Int : s % Slide = 0 /\ s <= t => \E k \in Nat : s = last - k * Slide /\ k <= last - s
  <2>1. t \in Int
    OBVIOUS
  <2>2. last <= t
    BY <1>0, <1>1, <2>1, Latest
  <2>3. ASSUME NEW k \in Nat PROVE (last - k * Slide) % Slide = 0 /\ last - k * Slide <= last /\ last - k * Slide \in Int
    BY <1>0, <1>1, <2>1, <2>3, Latest
  <2>4. ASSUME NEW s \in Int, s % Slide = 0, s <= t
        PROVE  \E k \in Nat : s = last - k * Slide /\ k <= last - s
    BY <1>0, <1>1, <2>1, <2>4, Multiples
  <2> QED BY <2>2, <2>3, <2>4
<1> DEFINE backs == {last - k * Slide : k \in 0..Size}
           chosen == {s \in backs : s + Size > t /\ s >= last - Size}
<1>3. ASSUME NEW s \in chosen PROVE s \in Covering(t, Slide)
  <2>1. PICK k \in 0..Size : s = last - k * Slide
    OBVIOUS
  <2>2. k \in Nat /\ s \in Int /\ s <= t /\ s % Slide = 0 /\ s + Size > t
    BY <1>0, <1>2, <2>1
  <2>3. t - s \in 0..(Size - 1) /\ s = t - (t - s)
    BY <1>0, <2>2
  <2> QED BY <2>2, <2>3 DEF Covering
<1>4. ASSUME NEW s \in Covering(t, Slide) PROVE s \in chosen
  <2>1. PICK d \in 0..(Size - 1) : s = t - d
    BY DEF Covering
  <2>2. s \in Int /\ s % Slide = 0 /\ s <= t /\ t < s + Size
    BY <1>0, <2>1 DEF Covering
  <2>3. PICK k \in Nat : s = last - k * Slide /\ k <= last - s
    BY <1>2, <2>2
  <2>4. k \in 0..Size
    BY <1>0, <1>2, <2>2, <2>3
  <2>5. s + Size > t /\ s >= last - Size
    BY <1>0, <1>2, <2>2
  <2> QED BY <2>3, <2>4, <2>5
<1>5. chosen = Covering(t, Slide)
  <2> HIDE DEF chosen
  <2> QED BY <1>3, <1>4
<1>6. Sliding(t) = {Pane("sliding", s, s + Size) : s \in chosen}
  BY <1>1 DEF Sliding
<1> HIDE DEF chosen
<1> QED BY <1>5, <1>6

\* The starts for one more event.
LEMMA StartsMore ==
  ASSUME NEW A \in SUBSET Samples, NEW e \in Samples, NEW step \in Nat
  PROVE  Starts(A \cup {e}, step) = Starts(A, step) \cup Covering(time[e], step)
BY DEF Starts, Covering

\* Those are the windows whose span the event's time is in.
LEMMA CoveringSpan ==
  ASSUME NEW t \in Nat, NEW step \in Nat \ {0}, NEW s \in Int, s % step = 0
  PROVE  s \in Covering(t, step) <=> s <= t /\ t < s + Size
<1>0. Size \in Nat \ {0}
  BY WindowAssumption
<1>1. ASSUME s \in Covering(t, step) PROVE s <= t /\ t < s + Size
  <2>1. PICK d \in 0..(Size - 1) : s = t - d
    BY <1>1 DEF Covering
  <2> QED BY <1>0, <2>1
<1>2. ASSUME s <= t, t < s + Size PROVE s \in Covering(t, step)
  <2>1. t - s \in 0..(Size - 1) /\ s = t - (t - s)
    BY <1>0, <1>2
  <2> QED BY <2>1 DEF Covering
<1> QED BY <1>1, <1>2

\* Where no window starts, no event is covered.
LEMMA NotCovered ==
  ASSUME NEW A \in SUBSET Samples, \A e \in A : time[e] \in Nat, NEW step, NEW s \in Int, s % step = 0,
         s \notin Starts(A, step)
  PROVE  Covered(A, s) = {}
<1>0. Size \in Nat \ {0}
  BY WindowAssumption
<1> SUFFICES ASSUME NEW e \in A, s <= time[e], time[e] < s + Size PROVE FALSE
  BY DEF Covered
<1>1. time[e] - s \in 0..(Size - 1) /\ s = time[e] - (time[e] - s)
  BY <1>0
<1> QED BY <1>1 DEF Starts

\* Epoch-aligned windows of one kind after one more event: update() of the states of
\* the windows it is assigned to.
LEMMA PanesMore ==
  ASSUME NEW store, NEW A \in SUBSET Samples, NEW e \in Samples \ A, \A f \in Samples : time[f] \in Nat,
         NEW kind, NEW step \in Nat \ {0}, HoldsPanes(store, A, kind, step), NEW new,
         {p \in DOMAIN new : p.kind = kind}
            = {p \in DOMAIN store : p.kind = kind}
              \cup {Pane(kind, s, s + Size) : s \in Covering(time[e], step)},
         \A s \in Covering(time[e], step) : LET p == Pane(kind, s, s + Size) IN
            new[p] = update(IF p \in DOMAIN store THEN store[p] ELSE init_state, e),
         \A s \in Starts(A, step) \ Covering(time[e], step) :
            new[Pane(kind, s, s + Size)] = store[Pane(kind, s, s + Size)]
  PROVE  HoldsPanes(new, A \cup {e}, kind, step)
<1>0. Size \in Nat \ {0}
  BY WindowAssumption
<1>1. {p \in DOMAIN new : p.kind = kind}
         = {Pane(kind, s, s + Size) : s \in Starts(A \cup {e}, step)}
  <2>1. PICK I, J : I = Starts(A, step) /\ J = Covering(time[e], step)
    OBVIOUS
  <2>2. Starts(A \cup {e}, step) = I \cup J
    <3>1. Starts(A \cup {e}, step) = Starts(A, step) \cup Covering(time[e], step)
      BY StartsMore
    <3> QED BY <2>1, <3>1
  <2>3. {p \in DOMAIN store : p.kind = kind} = {Pane(kind, s, s + Size) : s \in I}
    BY <2>1 DEF HoldsPanes
  <2>4. {Pane(kind, s, s + Size) : s \in I \cup J}
           = {Pane(kind, s, s + Size) : s \in I} \cup {Pane(kind, s, s + Size) : s \in J}
    OBVIOUS
  <2> QED BY <2>1, <2>2, <2>3, <2>4
<1>2. ASSUME NEW s \in Starts(A \cup {e}, step)
      PROVE  StateIs(new[Pane(kind, s, s + Size)], Covered(A \cup {e}, s))
  <2>0. s \in Int /\ s % step = 0
    <3>1. PICK f \in A \cup {e}, d \in 0..(Size - 1) : s = time[f] - d
      BY DEF Starts
    <3>2. time[f] \in Nat /\ d \in Int
      BY <1>0, <3>1
    <3> QED BY <3>1, <3>2 DEF Starts
  <2>1. Covered(A, s) \in SUBSET Samples /\ e \notin Covered(A, s)
    BY DEF Covered
  <2>4. s \in Covering(time[e], step) <=> s <= time[e] /\ time[e] < s + Size
    <3>1. PICK t \in Nat : t = time[e]
      OBVIOUS
    <3>2. s \in Covering(t, step) <=> s <= t /\ t < s + Size
      BY <2>0, CoveringSpan
    <3> QED BY <3>1, <3>2
  <2>2. CASE s \in Covering(time[e], step)
    <3> DEFINE p == Pane(kind, s, s + Size)
    <3>1. new[p] = update(IF p \in DOMAIN store THEN store[p] ELSE init_state, e)
      BY <2>2
    <3>2. StateIs(IF p \in DOMAIN store THEN store[p] ELSE init_state, Covered(A, s))
      <4>1. CASE s \in Starts(A, step)
        <5>1. p \in DOMAIN store /\ StateIs(store[p], Covered(A, s))
          BY <4>1 DEF HoldsPanes
        <5> QED BY <5>1
      <4>2. CASE s \notin Starts(A, step)
        <5>1. p \notin DOMAIN store
          <6> SUFFICES ASSUME p \in DOMAIN store PROVE FALSE
            OBVIOUS
          <6>1. p.kind = kind /\ p.start = s
            BY DEF Pane
          <6>2. PICK r \in Starts(A, step) : p = Pane(kind, r, r + Size)
            BY <6>1 DEF HoldsPanes
          <6>3. p.start = r
            BY <6>2 DEF Pane
          <6> QED BY <4>2, <6>1, <6>2, <6>3
        <5>2. Covered(A, s) = {}
          BY <2>0, <4>2, NotCovered
        <5> QED BY <5>1, <5>2, StateOfNone
      <4> QED BY <4>1, <4>2
    <3>3. Covered(A \cup {e}, s) = Covered(A, s) \cup {e}
      BY <2>2, <2>4 DEF Covered
    <3>4. \A x : StateIs(x, Covered(A, s)) => StateIs(update(x, e), Covered(A, s) \cup {e})
      BY <2>1, UpdateState
    <3> HIDE DEF p
    <3>5. StateIs(new[p], Covered(A \cup {e}, s))
      BY <3>1, <3>2, <3>3, <3>4
    <3> QED BY <3>5 DEF p
  <2>3. CASE s \notin Covering(time[e], step)
    <3>1. s \in Starts(A, step)
      <4>1. Starts(A \cup {e}, step) = Starts(A, step) \cup Covering(time[e], step)
        BY StartsMore
      <4> QED BY <2>3, <4>1
    <3>2. Covered(A \cup {e}, s) = Covered(A, s)
      BY <2>3, <2>4 DEF Covered
    <3> QED BY <2>3, <3>1, <3>2 DEF HoldsPanes
  <2> QED BY <2>2, <2>3
<1> QED BY <1>1, <1>2 DEF HoldsPanes


PaneType == [kind: {"tumbling", "sliding"}, start: Int, end: Int]

\* An event updates the windows it is assigned to and no other.
LEMMA StoreHolds ==
  ASSUME NEW store, NEW A \in SUBSET Samples, NEW e \in Samples \ A, \A f \in Samples : time[f] \in Nat,
         HoldsPanes(store, A, "tumbling", Size), HoldsPanes(store, A, "sliding", Slide)
  PROVE  /\ HoldsPanes(Store(store, e), A \cup {e}, "tumbling", Size)
         /\ HoldsPanes(Store(store, e), A \cup {e}, "sliding", Slide)
<1> DEFINE T == Tumbling(time[e])
           S == Sliding(time[e])
           new == Store(store, e)
           old(p) == IF p \in DOMAIN store THEN store[p] ELSE init_state
<1>0. Size \in Nat \ {0} /\ Slide \in Nat \ {0}
  BY WindowAssumption
<1>1. /\ T = {Pane("tumbling", s, s + Size) : s \in Covering(time[e], Size)}
      /\ S = {Pane("sliding", s, s + Size) : s \in Covering(time[e], Slide)}
  BY TumblingCovers, SlidingCovers
<1>2. (\A p \in T : p.kind = "tumbling") /\ (\A p \in S : p.kind = "sliding")
  <2>1. \A k, s : Pane(k, s, s + Size).kind = k
    BY DEF Pane
  <2> HIDE DEF T, S
  <2> QED BY <1>1, <2>1
<1>3. /\ DOMAIN new = DOMAIN store \cup (T \cup S)
      /\ \A p \in T \cup S : new[p] = update(old(p), e)
      /\ \A p \in DOMAIN store : p \notin T \cup S => new[p] = store[p]
  BY DEF Store
<1> HIDE DEF T, S, new
<1>4. HoldsPanes(new, A \cup {e}, "tumbling", Size)
  <2>1. {p \in DOMAIN new : p.kind = "tumbling"} = {p \in DOMAIN store : p.kind = "tumbling"} \cup T
    BY <1>2, <1>3
  <2>2. \A s \in Covering(time[e], Size) : LET p == Pane("tumbling", s, s + Size) IN
          new[p] = update(old(p), e)
    BY <1>1, <1>3
  <2>3. ASSUME NEW s \in Starts(A, Size) \ Covering(time[e], Size)
        PROVE  new[Pane("tumbling", s, s + Size)] = store[Pane("tumbling", s, s + Size)]
    <3>1. Pane("tumbling", s, s + Size) \in DOMAIN store
      BY DEF HoldsPanes
    <3>2. Pane("tumbling", s, s + Size).kind = "tumbling" /\ Pane("tumbling", s, s + Size).start = s
          /\ \A r : Pane("tumbling", r, r + Size).start = r
      BY DEF Pane
    <3>3. Pane("tumbling", s, s + Size) \notin T \cup S
      BY <1>1, <1>2, <3>2
    <3> QED BY <1>3, <3>1, <3>3
  <2> QED BY <1>0, <1>1, <2>1, <2>2, <2>3, PanesMore
<1>5. HoldsPanes(new, A \cup {e}, "sliding", Slide)
  <2>1. {p \in DOMAIN new : p.kind = "sliding"} = {p \in DOMAIN store : p.kind = "sliding"} \cup S
    BY <1>2, <1>3
  <2>2. \A s \in Covering(time[e], Slide) : LET p == Pane("sliding", s, s + Size) IN
          new[p] = update(old(p), e)
    BY <1>1, <1>3
  <2>3. ASSUME NEW s \in Starts(A, Slide) \ Covering(time[e], Slide)
        PROVE  new[Pane("sliding", s, s + Size)] = store[Pane("sliding", s, s + Size)]
    <3>1. Pane("sliding", s, s + Size) \in DOMAIN store
      BY DEF HoldsPanes
    <3>2. Pane("sliding", s, s + Size).kind = "sliding" /\ Pane("sliding", s, s + Size).start = s
          /\ \A r : Pane("sliding", r, r + Size).start = r
      BY DEF Pane
    <3>3. Pane("sliding", s, s + Size) \notin T \cup S
      BY <1>1, <1>2, <3>2
    <3> QED BY <1>3, <3>1, <3>3
  <2> QED BY <1>0, <1>1, <2>1, <2>2, <2>3, PanesMore
<1> QED BY <1>4, <1>5 DEF new

----------------------------------------------------------------------------
(* Windows: sessions *)

\* Min() of two integers is the smaller one.
LEMMA MinOfTwo ==
  ASSUME NEW a \in Int, NEW b \in Int
  PROVE  Min({a, b}) = IF a <= b THEN a ELSE b
<1>1. \E x \in {a, b} : \A y \in {a, b} : x <= y
  OBVIOUS
<1> QED BY <1>1 DEF Min

\* The greatest of some events up to t.
LEMMA LastUpTo ==
  ASSUME NEW S \in SUBSET Samples, \A e \in S : time[e] \in Nat, NEW t \in Nat,
         \E e \in S : time[e] <= t
  PROVE  \E e \in S : time[e] <= t /\ \A f \in S : time[f] <= t => time[f] <= time[e]
<1> DEFINE D == {t - time[e] : e \in {f \in S : time[f] <= t}}
<1>1. D \in SUBSET Nat /\ D # {}
  OBVIOUS
<1>2. PICK m \in D : \A k \in D : m <= k
  <2> HIDE DEF D
  <2> QED BY <1>1, LeastNumber
<1>3. PICK e \in S : time[e] <= t /\ m = t - time[e]
  BY <1>2
<1>4. ASSUME NEW f \in S, time[f] <= t PROVE time[f] <= time[e]
  <2>1. t - time[f] \in D
    BY <1>4
  <2>2. m <= t - time[f]
    BY <1>2, <2>1
  <2> QED BY <1>3, <2>2
<1> QED BY <1>3, <1>4


SessionType(s) ==
    /\ s.pane \in [kind: {"session"}, start: Int, end: Int]
    /\ s.pane.start < s.pane.end /\ s.of \in SUBSET Samples

\* What SessionWindower.merge() makes of two sessions.
LEMMA SpanOfTwo ==
  ASSUME NEW a, NEW b, a.start \in Int, a.end \in Int, b.start \in Int, b.end \in Int
  PROVE  /\ Span(a, b) \in [kind: {"session"}, start: Int, end: Int]
         /\ Span(a, b).start = IF a.start <= b.start THEN a.start ELSE b.start
         /\ Span(a, b).end = IF a.end >= b.end THEN a.end ELSE b.end
<1>1. /\ Min({a.start, b.start}) = IF a.start <= b.start THEN a.start ELSE b.start
      /\ Max({a.end, b.end}) = IF a.end >= b.end THEN a.end ELSE b.end
  BY MinOfTwo, MaxOfTwo
<1>2. /\ Span(a, b) = [kind |-> "session", start |-> Min({a.start, b.start}),
                       end |-> Max({a.end, b.end})]
      /\ Min({a.start, b.start}) \in Int /\ Max({a.end, b.end}) \in Int
  BY <1>1 DEF Span, Pane
<1> QED BY <1>1, <1>2

\* An event of a chain that the other one, which it touches, outlasts is followed there.
LEMMA FollowedOver ==
  ASSUME NEW a, NEW b, SessionType(a), SessionType(b), IsChain(a), IsChain(b),
         \A f \in Samples : time[f] \in Nat,
         Touch(a.pane, b.pane), NEW x \in a.of, time[x] + Gap = a.pane.end, a.pane.end < b.pane.end
  PROVE  \E f \in b.of : Follows(f, x)
<1>0. /\ Gap \in Nat \ {0} /\ x \in Samples /\ b.of \in SUBSET Samples
      /\ b.pane.start \in Int /\ b.pane.end \in Int
      /\ b.pane.start <= a.pane.end
  BY WindowAssumption DEF SessionType, Touch
<1>1. PICK t \in Nat : t = time[x]
  BY <1>0
<1>2. PICK y \in b.of : time[y] = b.pane.start
  BY DEF IsChain
<1>3. CASE b.pane.start > t
  <2>1. Follows(y, x)
    BY <1>0, <1>1, <1>2, <1>3 DEF Follows
  <2> QED BY <2>1
<1>4. CASE b.pane.start <= t
  <2>1. PICK m \in b.of : time[m] <= t /\ \A f \in b.of : time[f] <= t => time[f] <= time[m]
    BY <1>0, <1>2, <1>4, LastUpTo
  <2>2. time[m] \in Nat /\ time[m] + Gap # b.pane.end
    BY <1>0, <1>1, <2>1
  <2>3. PICK f \in b.of : Follows(f, m)
    BY <2>1, <2>2 DEF IsChain
  <2>4. time[f] \in Nat
    BY <1>0
  <2>5. time[f] > t /\ time[f] <= t + Gap
    BY <1>0, <2>1, <2>2, <2>3, <2>4 DEF Follows
  <2> QED BY <1>1, <2>5 DEF Follows
<1> QED BY <1>0, <1>3, <1>4

\* Two chains that touch are one chain,
LEMMA JoinedChain ==
  ASSUME NEW a, NEW b, SessionType(a), SessionType(b), IsChain(a), IsChain(b),
         \A f \in Samples : time[f] \in Nat, Touch(a.pane, b.pane),
         NEW j, j.pane = Span(a.pane, b.pane), j.of = a.of \cup b.of
  PROVE  IsChain(j) /\ SessionType(j)
<1>0. /\ Gap \in Nat \ {0} /\ a.of \in SUBSET Samples /\ b.of \in SUBSET Samples
      /\ a.pane.start \in Int /\ a.pane.end \in Int /\ b.pane.start \in Int /\ b.pane.end \in Int
      /\ a.pane.start < a.pane.end /\ b.pane.start < b.pane.end
  BY WindowAssumption DEF SessionType
<1>1. /\ j.pane \in [kind: {"session"}, start: Int, end: Int]
      /\ j.pane.start = IF a.pane.start <= b.pane.start THEN a.pane.start ELSE b.pane.start
      /\ j.pane.end = IF a.pane.end >= b.pane.end THEN a.pane.end ELSE b.pane.end
  BY <1>0, SpanOfTwo
<1>2. SessionType(j)
  BY <1>0, <1>1 DEF SessionType
<1>3. \E e \in j.of : time[e] = j.pane.start
  BY <1>1 DEF IsChain
<1>4. ASSUME NEW e \in j.of PROVE j.pane.start <= time[e] /\ time[e] + Gap <= j.pane.end
  <2>1. time[e] \in Nat
    BY <1>0
  <2>2. CASE e \in a.of
    BY <1>0, <1>1, <2>1, <2>2 DEF IsChain
  <2>3. CASE e \in b.of
    BY <1>0, <1>1, <2>1, <2>3 DEF IsChain
  <2> QED BY <2>2, <2>3
<1>5. ASSUME NEW e \in j.of PROVE time[e] + Gap = j.pane.end \/ \E f \in j.of : Follows(f, e)
  <2>1. Touch(b.pane, a.pane)
    BY DEF Touch
  <2>2. CASE e \in a.of
    <3>1. CASE \E f \in a.of : Follows(f, e)
      BY <3>1
    <3>2. CASE time[e] + Gap = a.pane.end /\ a.pane.end < b.pane.end
      BY <2>2, <3>2, FollowedOver
    <3> QED BY <1>0, <1>1, <2>2, <3>1, <3>2 DEF IsChain
  <2>3. CASE e \in b.of
    <3>1. CASE \E f \in b.of : Follows(f, e)
      BY <3>1
    <3>2. CASE time[e] + Gap = b.pane.end /\ b.pane.end < a.pane.end
      BY <2>1, <2>3, <3>2, FollowedOver
    <3> QED BY <1>0, <1>1, <2>3, <3>1, <3>2 DEF IsChain
  <2> QED BY <2>2, <2>3
<1> QED BY <1>2, <1>3, <1>4, <1>5 DEF IsChain

\* and the events of chains that do not touch are apart.
LEMMA ChainsApart ==
  ASSUME NEW a, NEW b, SessionType(a), SessionType(b), IsChain(a), IsChain(b),
         \A f \in Samples : time[f] \in Nat, ~Touch(a.pane, b.pane),
         NEW e \in a.of, NEW f \in b.of
  PROVE  Apart(e, f)
<1>1. /\ Gap \in Nat \ {0} /\ time[e] \in Nat /\ time[f] \in Nat
      /\ a.pane.start \in Int /\ a.pane.end \in Int /\ b.pane.start \in Int /\ b.pane.end \in Int
  BY WindowAssumption DEF SessionType
<1>2. /\ a.pane.start <= time[e] /\ time[e] + Gap <= a.pane.end
      /\ b.pane.start <= time[f] /\ time[f] + Gap <= b.pane.end
  BY DEF IsChain
<1>3. a.pane.start > b.pane.end \/ b.pane.start > a.pane.end
  BY <1>1 DEF Touch
<1> QED BY <1>1, <1>2, <1>3 DEF Apart

----------------------------------------------------------------------------
(* Windows: the invariant *)

\* What one worker has of the events that it handled.
Kept(store, es) ==
    /\ DOMAIN store \subseteq PaneType /\ \A p \in DOMAIN store : p.start < p.end
    /\ HoldsPanes(store, es, "tumbling", Size) /\ HoldsPanes(store, es, "sliding", Slide)

\* It keeps that when it handles one more.
LEMMA ArriveKeeps ==
  ASSUME NEW store, NEW A \in SUBSET Samples, NEW e \in Samples \ A, \A f \in Samples : time[f] \in Nat,
         Kept(store, A)
  PROVE  Kept(Store(store, e), A \cup {e})
<1> DEFINE new == Store(store, e)
<1>0. Size \in Nat \ {0}
  BY WindowAssumption
<1>1. HoldsPanes(new, A \cup {e}, "tumbling", Size) /\ HoldsPanes(new, A \cup {e}, "sliding", Slide)
  BY StoreHolds DEF Kept
<1>2. ASSUME NEW p \in Tumbling(time[e]) \cup Sliding(time[e])
      PROVE  p \in PaneType /\ p.start < p.end
  <2>0. time[e] \in Nat
    OBVIOUS
  <2>1. PICK kind \in {"tumbling", "sliding"}, s \in Covering(time[e], Size) \cup Covering(time[e], Slide) :
           p = Pane(kind, s, s + Size)
    <3>1. CASE p \in Tumbling(time[e])
      BY <2>0, <3>1, TumblingCovers
    <3>2. CASE p \in Sliding(time[e])
      BY <2>0, <3>2, SlidingCovers
    <3> QED BY <3>1, <3>2
  <2>2. s \in Int
    BY <1>0, <2>0 DEF Covering
  <2> QED BY <1>0, <2>1, <2>2 DEF Pane, PaneType
<1>3. DOMAIN new = DOMAIN store \cup (Tumbling(time[e]) \cup Sliding(time[e]))
  BY DEF Store
<1> HIDE DEF new
<1>4. Kept(new, A \cup {e})
  BY <1>1, <1>2, <1>3 DEF Kept
<1> QED BY <1>4 DEF new

\* The events of the workers are different ones, and those of the sessions are theirs.
KeptByAll ==
    /\ time \in [Samples -> Times]
    /\ got \in [Workers -> SUBSET Samples] /\ DOMAIN panes = Workers
    /\ \A v, w \in Workers : v # w => got[v] \cap got[w] = {}
    /\ \A w \in Workers : Kept(panes[w], got[w])

SessionsKept ==
    /\ UNION {s.of : s \in sessions} = Arrived
    /\ \A s, r \in sessions : s # r => s.of \cap r.of = {}
    /\ \A s \in sessions : SessionType(s) /\ IsChain(s) /\ StateIs(s.state, s.of)

WindowInv == KeptByAll /\ SessionsKept

\* Before the first event there are no windows.
LEMMA KeptInit == WindowInit => WindowInv
<1> SUFFICES ASSUME WindowInit PROVE WindowInv
  OBVIOUS
<1>1. ASSUME NEW w \in Workers PROVE Kept(panes[w], got[w])
  <2>1. panes[w] = <<>> /\ got[w] = {} /\ DOMAIN <<>> = {}
    BY DEF WindowInit
  <2>2. \A step : Starts({}, step) = {}
    BY DEF Starts
  <2> QED BY <2>1, <2>2 DEF Kept, HoldsPanes
<1>2. KeptByAll
  BY <1>1 DEF WindowInit, KeptByAll
<1>3. Arrived = {}
  BY DEF WindowInit, Arrived
<1> QED BY <1>2, <1>3 DEF WindowInit, SessionsKept, WindowInv

\* Event times do not change, so it does not matter in which state they are read.
LEMMA KeptLater ==
  ASSUME time' = time, NEW v \in Workers, Kept(panes'[v], got'[v])
  PROVE  Kept(panes[v], got[v])'
<1>1. /\ Starts(got[v], Size)' = Starts(got'[v], Size)
      /\ Starts(got[v], Slide)' = Starts(got'[v], Slide)
  BY DEF Starts
<1>2. ASSUME NEW s PROVE Covered(got[v], s)' = Covered(got'[v], s)
  BY DEF Covered
<1> QED BY <1>1, <1>2 DEF Kept, HoldsPanes

LEMMA SessionsLater ==
  ASSUME time' = time, UNION {s.of : s \in sessions'} = UNION {got'[w] : w \in Workers},
         \A s, r \in sessions' : s # r => s.of \cap r.of = {},
         \A s \in sessions' : SessionType(s) /\ IsChain(s) /\ StateIs(s.state, s.of)
  PROVE  SessionsKept'
<1>1. Arrived' = UNION {got'[w] : w \in Workers}
  BY DEF Arrived
<1>2. \A e, f : Follows(e, f)' <=> Follows(e, f)
  BY DEF Follows
<1>3. ASSUME NEW s \in sessions' PROVE IsChain(s)'
  BY <1>2 DEF IsChain
<1> QED BY <1>1, <1>3 DEF SessionsKept

\* Sets with the same elements are equal.
LEMMA SameSet ==
  ASSUME NEW U, NEW V, \A x : x \in U <=> x \in V
  PROVE  U = V
OBVIOUS

\* An event is handled,
LEMMA ArriveStep ==
  ASSUME WindowInv, NEW w \in Workers, NEW e \in Samples, Arrive(w, e)
  PROVE  WindowInv'
<1> DEFINE one == [pane |-> Session(time[e]), of |-> {e}, state |-> update(init_state, e)]
<1>1. /\ time' = time /\ \A v \in Workers : e \notin got[v]
      /\ got' = [got EXCEPT ![w] = @ \cup {e}]
      /\ panes' = [panes EXCEPT ![w] = Store(@, e)]
      /\ sessions' = sessions \cup {one}
  BY DEF Arrive
<1>2. \A f \in Samples : time[f] \in Nat
  BY WindowAssumption DEF WindowInv, KeptByAll
<1>3. got[w] \in SUBSET Samples /\ e \in Samples \ got[w] /\ Kept(panes[w], got[w])
  BY <1>1 DEF WindowInv, KeptByAll
<1>4. Kept(Store(panes[w], e), got[w] \cup {e})
  BY <1>2, <1>3, ArriveKeeps
<1>5. /\ got' \in [Workers -> SUBSET Samples] /\ DOMAIN panes' = Workers
      /\ got'[w] = got[w] \cup {e}
      /\ panes'[w] = Store(panes[w], e)
      /\ \A v \in Workers \ {w} : got'[v] = got[v] /\ panes'[v] = panes[v]
  BY <1>1 DEF WindowInv, KeptByAll
<1>6. ASSUME NEW v \in Workers PROVE Kept(panes'[v], got'[v])
  <2>1. CASE v = w
    BY <1>4, <1>5, <2>1
  <2>2. CASE v # w
    BY <1>5, <2>2 DEF WindowInv, KeptByAll
  <2> QED BY <2>1, <2>2
<1>7. \A v, u \in Workers : v # u => got'[v] \cap got'[u] = {}
  BY <1>1, <1>5 DEF WindowInv, KeptByAll
<1>8. KeptByAll'
  <2>1. \A v \in Workers : Kept(panes[v], got[v])'
    BY <1>1, <1>6, KeptLater
  <2> QED BY <1>1, <1>5, <1>7, <2>1 DEF WindowInv, KeptByAll
<1>9. SessionType(one) /\ IsChain(one) /\ StateIs(one.state, one.of)
  <2>1. StateIs(one.state, one.of)
    <3>1. {} \in SUBSET Samples /\ e \in Samples \ {} /\ {} \cup {e} = {e}
      OBVIOUS
    <3>2. StateIs(update(init_state, e), {} \cup {e})
      BY <3>1, StateOfNone, UpdateState
    <3> QED BY <3>1, <3>2
  <2>2. Gap \in Nat \ {0} /\ time[e] \in Nat
    BY <1>2, WindowAssumption
  <2>3. one.pane = [kind |-> "session", start |-> time[e], end |-> time[e] + Gap] /\ one.of = {e}
    BY DEF Session, Pane
  <2> HIDE DEF one
  <2> QED BY <2>1, <2>2, <2>3 DEF SessionType, IsChain
<1>10. UNION {s.of : s \in sessions'} = UNION {got'[v] : v \in Workers}
  <2>1. one.of = {e} /\ UNION {s.of : s \in sessions} = UNION {got[v] : v \in Workers}
    BY DEF WindowInv, SessionsKept, Arrived
  <2> HIDE DEF one
  <2>2. ASSUME NEW x
        PROVE  x \in UNION {s.of : s \in sessions'} <=> x \in UNION {got'[v] : v \in Workers}
    <3>1. x \in UNION {s.of : s \in sessions'} <=> \E s \in sessions' : x \in s.of
      BY Zenon
    <3>2. x \in UNION {s.of : s \in sessions} <=> \E s \in sessions : x \in s.of
      BY Zenon
    <3>3. (\E s \in sessions' : x \in s.of) <=> (\E s \in sessions : x \in s.of) \/ x \in one.of
      BY <1>1, Zenon
    <3>4. x \in UNION {got'[v] : v \in Workers} <=> \E v \in Workers : x \in got'[v]
      BY Zenon
    <3>5. x \in UNION {got[v] : v \in Workers} <=> \E v \in Workers : x \in got[v]
      BY Zenon
    <3>6. (\E v \in Workers : x \in got'[v]) <=> (\E v \in Workers : x \in got[v]) \/ x = e
      BY <1>5
    <3> QED BY <2>1, <3>1, <3>2, <3>3, <3>4, <3>5, <3>6
  <2> QED BY <2>2, SameSet
<1>11. \A s, r \in sessions' : s # r => s.of \cap r.of = {}
  <2>1. \A s \in sessions : e \notin s.of
    BY <1>1 DEF WindowInv, SessionsKept, Arrived
  <2>2. one.of = {e}
    OBVIOUS
  <2> HIDE DEF one
  <2> QED BY <1>1, <2>1, <2>2 DEF WindowInv, SessionsKept
<1>12. \A s \in sessions' : SessionType(s) /\ IsChain(s) /\ StateIs(s.state, s.of)
  <2> HIDE DEF one
  <2> QED BY <1>1, <1>9 DEF WindowInv, SessionsKept
<1>13. SessionsKept'
  BY <1>1, <1>10, <1>11, <1>12, SessionsLater
<1> QED BY <1>8, <1>13 DEF WindowInv

\* or two sessions are joined.
LEMMA JoinStep ==
  ASSUME WindowInv, NEW a \in sessions, NEW b \in sessions, JoinSessions(a, b)
  PROVE  WindowInv'
<1> DEFINE j == [pane |-> Span(a.pane, b.pane), of |-> a.of \cup b.of,
                 state |-> merge(a.state, b.state)]
<1>1. /\ time' = time /\ got' = got /\ panes' = panes
      /\ a # b /\ Touch(a.pane, b.pane) /\ sessions' = (sessions \ {a, b}) \cup {j}
  BY DEF JoinSessions
<1>2. \A f \in Samples : time[f] \in Nat
  BY WindowAssumption DEF WindowInv, KeptByAll
<1>3. KeptByAll'
  <2>1. ASSUME NEW v \in Workers PROVE Kept(panes[v], got[v])'
    <3>1. Kept(panes'[v], got'[v])
      BY <1>1 DEF WindowInv, KeptByAll
    <3> QED BY <1>1, <3>1, KeptLater
  <2> QED BY <1>1, <2>1 DEF WindowInv, KeptByAll
<1>4. /\ SessionType(a) /\ SessionType(b) /\ IsChain(a) /\ IsChain(b)
      /\ StateIs(a.state, a.of) /\ StateIs(b.state, b.of) /\ a.of \cap b.of = {}
      /\ a.of \in SUBSET Samples /\ b.of \in SUBSET Samples
  BY <1>1 DEF WindowInv, SessionsKept, SessionType
<1>5. /\ j.pane = Span(a.pane, b.pane) /\ j.of = a.of \cup b.of
      /\ j.state = merge(a.state, b.state)
  OBVIOUS
<1> HIDE DEF j
<1>6. SessionType(j) /\ IsChain(j)
  BY <1>1, <1>2, <1>4, <1>5, JoinedChain
<1>7. StateIs(j.state, j.of)
  <2>1. StateIs(merge(a.state, b.state), a.of \cup b.of)
    BY <1>4, MergeState
  <2> QED BY <1>5, <2>1
<1>8. UNION {s.of : s \in sessions'} = UNION {got'[v] : v \in Workers}
  <2>1. UNION {s.of : s \in sessions'} = UNION {s.of : s \in sessions}
    BY <1>1, <1>5
  <2> QED BY <1>1, <2>1 DEF WindowInv, SessionsKept, Arrived
<1>9. \A s, r \in sessions' : s # r => s.of \cap r.of = {}
  BY <1>1, <1>5 DEF WindowInv, SessionsKept
<1>10. \A s \in sessions' : SessionType(s) /\ IsChain(s) /\ StateIs(s.state, s.of)
  BY <1>1, <1>6, <1>7 DEF WindowInv, SessionsKept
<1>11. SessionsKept'
  BY <1>1, <1>8, <1>9, <1>10, SessionsLater
<1> QED BY <1>3, <1>11 DEF WindowInv

\* Every step keeps the invariant.
LEMMA KeptStep == WindowInv /\ [WindowNext]_windowVars => WindowInv'
<1> SUFFICES ASSUME WindowInv, [WindowNext]_windowVars PROVE WindowInv'
  OBVIOUS
<1>1. CASE UNCHANGED windowVars
  <2>1. time' = time /\ got' = got /\ panes' = panes /\ sessions' = sessions
    BY <1>1 DEF windowVars
  <2>2. ASSUME NEW v \in Workers PROVE Kept(panes[v], got[v])'
    <3>1. Kept(panes'[v], got'[v])
      BY <2>1 DEF WindowInv, KeptByAll
    <3> QED BY <2>1, <3>1, KeptLater
  <2>3. KeptByAll'
    BY <2>1, <2>2 DEF WindowInv, KeptByAll
  <2>4. UNION {s.of : s \in sessions'} = UNION {got'[w] : w \in Workers}
    BY <2>1 DEF WindowInv, SessionsKept, Arrived
  <2>5. SessionsKept'
    BY <2>1, <2>4, SessionsLater DEF WindowInv, SessionsKept
  <2> QED BY <2>3, <2>5 DEF WindowInv
<1>2. ASSUME NEW w \in Workers, NEW e \in Samples, Arrive(w, e) PROVE WindowInv'
  BY <1>2, ArriveStep
<1>3. ASSUME NEW a \in sessions, NEW b \in sessions, JoinSessions(a, b) PROVE WindowInv'
  BY <1>3, JoinStep
<1> QED BY <1>1, <1>2, <1>3 DEF WindowNext

\* A window of a worker has the state of the events that it covers.
LEMMA PaneState ==
  ASSUME NEW store, NEW es, Kept(store, es), NEW p \in DOMAIN store
  PROVE  StateIs(store[p], Covered(es, p.start))
<1>1. PICK kind \in {"tumbling", "sliding"} : p.kind = kind
  BY DEF Kept, PaneType
<1>2. PICK step \in {Size, Slide} : HoldsPanes(store, es, kind, step)
  BY <1>1 DEF Kept
<1>3. PICK s \in Starts(es, step) : p = Pane(kind, s, s + Size)
  BY <1>1, <1>2 DEF HoldsPanes
<1>4. p.start = s
  BY <1>3 DEF Pane
<1>5. StateIs(store[Pane(kind, s, s + Size)], Covered(es, s))
  BY <1>2 DEF HoldsPanes
<1> QED BY <1>3, <1>4, <1>5

\* The invariant is what the property says, merge() adding up states.
LEMMA KeptMatches == WindowInv => WindowsMatchEvents
<1> SUFFICES ASSUME WindowInv PROVE WindowsMatchEvents
  OBVIOUS
<1>0. \A f \in Samples : time[f] \in Nat
  BY WindowAssumption DEF WindowInv, KeptByAll
<1>1. WindowTypeOK
  BY DEF WindowInv, KeptByAll, SessionsKept, SessionType, Kept, WindowTypeOK, PaneType
<1>2. PanesMatchEvents
  BY DEF WindowInv, KeptByAll, Kept, PanesMatchEvents
<1>3. PanesMerge
  <2> SUFFICES ASSUME NEW v \in Workers, NEW w \in Workers, v # w,
                      NEW p \in DOMAIN panes[v] \cap DOMAIN panes[w]
               PROVE  StateIs(merge(panes[v][p], panes[w][p]), Covered(got[v] \cup got[w], p.start))
    BY DEF PanesMerge
  <2> DEFINE A == Covered(got[v], p.start)
             B == Covered(got[w], p.start)
  <2>1. StateIs(panes[v][p], A)
    BY PaneState DEF WindowInv, KeptByAll
  <2>2. StateIs(panes[w][p], B)
    BY PaneState DEF WindowInv, KeptByAll
  <2>3. A \in SUBSET Samples /\ B \in SUBSET Samples /\ A \cap B = {}
    BY DEF WindowInv, KeptByAll, Covered
  <2>4. Covered(got[v] \cup got[w], p.start) = A \cup B
    BY DEF Covered
  <2> HIDE DEF A, B
  <2>5. StateIs(merge(panes[v][p], panes[w][p]), A \cup B)
    BY <2>1, <2>2, <2>3, MergeState
  <2> QED BY <2>4, <2>5
<1>4. SessionsAreChains
  <2>1. ASSUME Settled, NEW s \in sessions, NEW r \in sessions, s # r, NEW e \in s.of, NEW f \in r.of
        PROVE  Apart(e, f)
    <3>1. ~Touch(s.pane, r.pane)
      BY <2>1 DEF Settled
    <3>2. SessionType(s) /\ SessionType(r) /\ IsChain(s) /\ IsChain(r)
      BY DEF WindowInv, SessionsKept
    <3> QED BY <1>0, <3>1, <3>2, ChainsApart
  <2> QED BY <2>1 DEF WindowInv, SessionsKept, SessionsAreChains
<1> QED BY <1>1, <1>2, <1>3, <1>4 DEF WindowsMatchEvents

\* Whatever the events, their times, amounts and users, whatever the sizes, the slide
\* and the gap, and in whatever order events reach the workers: every worker has exactly
\* the tumbling and sliding windows that TumblingWindower and SlidingWindower assign to
\* its events, each with the state of the events it covers, and merge() makes the states
\* of two workers the one of all their events; joined by SessionWindower.merge() in
\* whatever order, sessions are chains of events no further apart than the gap, and
\* maximal ones when no two touch.  Sums are those of the events as long as they are
\* exact, for every rounding that is exact up to Exact.
THEOREM WindowSafety == WindowSpec => []WindowsMatchEvents
<1>1. WindowSpec => []WindowInv
  BY KeptInit, KeptStep, PTL DEF WindowSpec
<1> QED BY <1>1, KeptMatches, PTL
=============================================================================
