-------------------------- MODULE CatalogueProofs --------------------------
(***************************************************************************)
(* Machine-checked proofs about SchemaRegistry, Pipelines and              *)
(* PipelineGraph, for every set of documents and graphs, every number of   *)
(* concurrent requests and every bound.                                    *)
(***************************************************************************)
EXTENDS SchemaRegistry, Pipelines, FiniteSetTheorems, WellFoundedInduction, TLAPS

\* An element of a sequence over S is in S.
LEMMA ElementOf ==
    ASSUME NEW S, NEW q \in Seq(S), NEW i \in 1..Len(q) PROVE q[i] \in S
OBVIOUS

\* What the check is worth: where the older document is closed and every property
\* has a type, Compatible() implies that no payload is turned away.
LEMMA CompatibleReads ==
    ASSUME NEW old \in AllDocs, NEW new \in AllDocs,
           ~old.open, \A n \in DOMAIN old.props : old.props[n] # {},
           Compatible(old, new)
    PROVE  Reads(new, old)
<1> SUFFICES ASSUME NEW payload \in Payloads, Accepts(old, payload)
             PROVE  Accepts(new, payload)
    BY DEF Reads
<1>1. new.required \subseteq DOMAIN payload
    BY DEF Compatible, Accepts
<1>2. new.open \/ DOMAIN payload \subseteq DOMAIN new.props
    BY DEF Compatible, Accepts
<1>3. ASSUME NEW n \in DOMAIN new.props \cap DOMAIN payload, new.props[n] # {}
      PROVE  TypesOf[payload[n]] \cap new.props[n] # {}
    <2>1. n \in DOMAIN old.props
        BY <1>3 DEF Accepts
    <2>2. old.props[n] \subseteq new.props[n]
        BY <1>3, <2>1 DEF Compatible
    <2>3. TypesOf[payload[n]] \cap old.props[n] # {}
        BY <1>3, <2>1 DEF Accepts
    <2> QED BY <2>2, <2>3
<1> QED BY <1>1, <1>2, <1>3 DEF Accepts

\* The record a session holds while it is idle, and an empty list of loads.
LEMMA Defaults == NoRequest \in Requests /\ NothingLoaded \in Loaded
<1>1. NoDoc \in AllDocs
    <2>1. NoDoc.props \in [{} -> SUBSET Types]
        BY DEF NoDoc
    <2>2. {} \in SUBSET Names
        OBVIOUS
    <2>3. NoDoc.props \in Properties
        BY <2>1, <2>2 DEF Properties
    <2> QED BY <2>3 DEF NoDoc, AllDocs
<1> QED BY <1>1 DEF NoRequest, Requests, NothingLoaded, Loaded

\* The registry starts in the inductive invariant.
LEMMA IndInit == Init => IndInv
<1> SUFFICES ASSUME Init PROVE IndInv
    OBVIOUS
<1>1. overlapped \in BOOLEAN
    BY DEF Init
<1>2. TypeOK
    <2>1. versions \in Seq([doc : Docs, force : BOOLEAN]) /\ Len(versions) = 0
        BY DEF Init
    <2> QED BY <1>1, <2>1, Defaults, BoundAssumption DEF Init, TypeOK
<1>3. ChainIsCompatible /\ PendingIsChecked
    BY DEF Init, ChainIsCompatible, PendingIsChecked
<1> QED BY <1>2, <1>3 DEF IndInv

\* End() of any session keeps its types and leaves the other sessions' requests.
LEMMA EndKeeps ==
    ASSUME TypeOK, NEW s \in Sessions, End(s)
    PROVE  /\ pc' \in [Sessions -> {"idle", "others", "commit"}]
           /\ req' \in [Sessions -> Requests] /\ seen' \in [Sessions -> Loaded]
           /\ requests' \in 0..MaxRequests
           /\ overlapped' \in BOOLEAN
           /\ \A t \in Sessions : pc'[t] # "idle" => t # s /\ pc[t] # "idle" /\ req'[t] = req[t]
BY Defaults DEF TypeOK, End

\* Begin() takes an idle session and leaves the other sessions' requests.
LEMMA BeginKeeps ==
    ASSUME TypeOK, NEW s \in Sessions, NEW r \in Requests, NEW l \in Loaded,
           NEW step \in {"idle", "others", "commit"}, Begin(s, step, r, l)
    PROVE  /\ pc' \in [Sessions -> {"idle", "others", "commit"}]
           /\ req' \in [Sessions -> Requests] /\ seen' \in [Sessions -> Loaded]
           /\ requests' \in 0..MaxRequests
           /\ overlapped' \in BOOLEAN
           /\ pc'[s] = step /\ req'[s] = r
           /\ \A t \in Sessions \ {s} : pc'[t] = pc[t] /\ req'[t] = req[t]
BY BoundAssumption DEF TypeOK, Begin

\* Versions are only appended.
Grows == /\ Len(versions) <= Len(versions')
         /\ \A i \in 1..Len(versions) : versions'[i] = versions[i]

\* A request that keeps its record keeps what was checked for it while the list of
\* versions grows.
LEMMA CheckedStays ==
    ASSUME TypeOK, TypeOK', Grows, NEW t \in Sessions, req'[t] = req[t], Checked(t)
    PROVE  Checked(t)'
<1> req[t] \in Requests /\ Len(versions) \in Nat /\ Len(versions') \in Nat
    BY DEF TypeOK
<1>1. CASE req[t].op = "register"
    <2>1. /\ req[t].number - 1 \in 1..Len(versions)
          /\ versions'[req[t].number - 1] = versions[req[t].number - 1]
        BY <1>1 DEF Checked, Grows
    <2>2. /\ req'[t].doc \in Docs /\ req'[t].number <= MaxVersions
          /\ req'[t].number - 1 \in 1..Len(versions')
        BY <1>1, <2>1 DEF Checked, Grows
    <2>3. req'[t].force \/ Compatible(versions'[req'[t].number - 1].doc, req'[t].doc)
        BY <1>1, <2>1 DEF Checked
    <2> QED BY <1>1, <2>2, <2>3 DEF Checked
<1>2. CASE req[t].op # "register"
    BY <1>2 DEF Checked, Grows, Requests
<1> QED BY <1>1, <1>2

\* A new version keeps the chain when it was forced or checked against the last one.
LEMMA ChainGrows ==
    ASSUME TypeOK, ChainIsCompatible, NEW v \in [doc : Docs, force : BOOLEAN],
           versions' = Append(versions, v), versions # <<>>,
           v.force \/ Compatible(versions[Len(versions)].doc, v.doc)
    PROVE  ChainIsCompatible'
<1> DEFINE n == Len(versions)
<1>1. n \in Nat \ {0} /\ Len(versions') = n + 1 /\ versions'[n + 1] = v
    BY DEF TypeOK
<1>2. \A i \in 1..n : versions'[i] = versions[i]
    BY DEF TypeOK
<1> SUFFICES ASSUME NEW i \in 1..(n + 1), i > 1, ~versions'[i].force
             PROVE  Compatible(versions'[i - 1].doc, versions'[i].doc)
    BY <1>1 DEF ChainIsCompatible, Unforced, Compatible
<1>3. CASE i = n + 1
    BY <1>1, <1>2, <1>3
<1>4. CASE i \in 1..n
    <2>1. versions'[i] = versions[i] /\ versions'[i - 1] = versions[i - 1]
        BY <1>1, <1>2, <1>4
    <2> QED BY <1>4, <2>1 DEF ChainIsCompatible, Unforced
<1> HIDE DEF n
<1> QED BY <1>1, <1>3, <1>4

\* A step that leaves the versions alone leaves the chain alone.
LEMMA ChainStays ==
    ASSUME ChainIsCompatible, versions' = versions PROVE ChainIsCompatible'
BY DEF ChainIsCompatible, Unforced, Compatible

\* Every step preserves the inductive invariant.
LEMMA IndNext == IndInv /\ [Next]_vars => IndInv'
<1> SUFFICES ASSUME TypeOK, ChainIsCompatible, PendingIsChecked, [Next]_vars PROVE IndInv'
    BY DEF IndInv
<1>1. ASSUME NEW s \in Sessions, NEW doc \in Docs, Create(s, doc) PROVE IndInv'
    <2>1. Begin(s, "idle", NoRequest, NothingLoaded) /\ versions = <<>>
        BY <1>1 DEF Create
    <2>2. \A t \in Sessions : pc[t] = "idle"
        BY <2>1 DEF PendingIsChecked, Checked
    <2>3. versions' = <<[doc |-> doc, force |-> FALSE]>> /\ Len(versions') = 1
        BY <1>1 DEF Create
    <2>4. TypeOK'
        BY <1>1, <2>1, <2>3, BeginKeeps, Defaults, BoundAssumption DEF TypeOK, Create
    <2>5. ChainIsCompatible'
        BY <2>3 DEF ChainIsCompatible, Unforced
    <2>6. PendingIsChecked'
        BY <2>1, <2>2, BeginKeeps, Defaults DEF PendingIsChecked
    <2> QED BY <2>4, <2>5, <2>6 DEF IndInv
<1>2. ASSUME NEW s \in Sessions, NEW doc \in Docs, NEW activate \in BOOLEAN,
             NEW force \in BOOLEAN, Register(s, doc, activate, force)
      PROVE  IndInv'
    <2> DEFINE r == [op |-> "register", doc |-> doc, number |-> Len(versions) + 1,
                     on |-> activate, force |-> force]
               l == [own |-> activate, others |-> isActive \cap {Len(versions)}, pointer |-> 0]
               step == IF activate THEN "others" ELSE "commit"
    <2>1. r \in Requests /\ l \in Loaded /\ step \in {"others", "commit"}
        <3>1. r \in Requests
            BY DocAssumption DEF TypeOK, Requests
        <3>2. isActive \cap {Len(versions)} \subseteq Nat
            BY DEF TypeOK
        <3>3. l \in Loaded
            BY <3>2 DEF Loaded
        <3> QED BY <3>1, <3>3
    <2>2. Begin(s, step, r, l)
        BY <1>2 DEF Register
    <2>3. UNCHANGED stored
        BY <1>2 DEF Register
    <2> HIDE DEF l, step
    <2>4. TypeOK'
        BY <2>1, <2>2, <2>3, BeginKeeps DEF TypeOK, stored
    <2>5. Checked(s)'
        <3>1. req'[s] = r
            BY <2>1, <2>2, BeginKeeps
        <3>2. Len(versions) \in 1..(MaxVersions - 1) /\ Len(versions) \in Nat
            BY <1>2 DEF Register, TypeOK
        <3>3. force \/ Compatible(versions[Len(versions)].doc, doc)
            BY <1>2 DEF Register
        <3> QED BY <2>3, <3>1, <3>2, <3>3, BoundAssumption DEF Checked, stored, Compatible
    <2>6. \A t \in Sessions \ {s} : pc'[t] = pc[t] /\ req'[t] = req[t]
        BY <2>1, <2>2, BeginKeeps
    <2>7. \A t \in Sessions \ {s} : pc'[t] # "idle" => Checked(t)'
        BY <2>3, <2>4, <2>6, CheckedStays DEF Grows, stored, PendingIsChecked
    <2> QED BY <2>3, <2>4, <2>5, <2>7, ChainStays DEF IndInv, PendingIsChecked, stored
<1>3. ASSUME NEW s \in Sessions, NEW number \in 1..Len(versions), NEW on \in BOOLEAN,
             SetVersion(s, number, on)
      PROVE  IndInv'
    <2> DEFINE r == [op |-> "set", doc |-> NoDoc, number |-> number, on |-> on, force |-> FALSE]
               l == [own |-> number \in isActive, others |-> {}, pointer |-> active]
               step == IF on THEN "others" ELSE "commit"
    <2>1. r \in Requests /\ l \in Loaded /\ step \in {"others", "commit"}
        <3>2. NoDoc \in AllDocs /\ number \in Nat /\ active \in Nat
            BY Defaults DEF NoRequest, Requests, TypeOK
        <3>3. r \in Requests
            BY <3>2 DEF Requests
        <3>4. l \in Loaded
            BY <3>2 DEF Loaded
        <3> QED BY <3>3, <3>4
    <2>2. Begin(s, step, r, l)
        BY <1>3 DEF SetVersion
    <2>3. UNCHANGED stored
        BY <1>3 DEF SetVersion
    <2>4. r.op = "set" /\ r.number = number
        OBVIOUS
    <2> HIDE DEF r, l, step
    <2>5. TypeOK'
        BY <2>1, <2>2, <2>3, BeginKeeps DEF TypeOK, stored
    <2>6. Checked(s)'
        <3>1. req'[s] = r
            BY <2>1, <2>2, BeginKeeps
        <3> QED BY <2>3, <2>4, <3>1 DEF Checked, stored
    <2>7. \A t \in Sessions \ {s} : pc'[t] = pc[t] /\ req'[t] = req[t]
        BY <2>1, <2>2, BeginKeeps
    <2>8. \A t \in Sessions \ {s} : pc'[t] # "idle" => Checked(t)'
        BY <2>3, <2>5, <2>7, CheckedStays DEF Grows, stored, PendingIsChecked
    <2> QED BY <2>3, <2>5, <2>6, <2>8, ChainStays DEF IndInv, PendingIsChecked, stored
<1>4. ASSUME NEW s \in Sessions, DeactivateOthers(s) PROVE IndInv'
    <2>1. seen' \in [Sessions -> Loaded]
        <3>1. seen[s] \in Loaded
            BY DEF TypeOK
        <3>4. isActive \subseteq 1..Len(versions) /\ Len(versions) \in Nat
            BY DEF TypeOK
        <3>2. [seen[s] EXCEPT !.others = @ \cup (isActive \ Held(req[s]))] \in Loaded
            BY <3>1, <3>4 DEF Loaded
        <3>3. seen' = [seen EXCEPT ![s] =
                          [seen[s] EXCEPT !.others = @ \cup (isActive \ Held(req[s]))]]
            BY <1>4 DEF DeactivateOthers
        <3> QED BY <3>2, <3>3 DEF TypeOK
    <2>2. pc' \in [Sessions -> {"idle", "others", "commit"}]
          /\ \A t \in Sessions : pc'[t] # "idle" => pc[t] # "idle"
        BY <1>4 DEF DeactivateOthers, TypeOK
    <2>3. UNCHANGED <<stored, req, requests, overlapped>>
        BY <1>4 DEF DeactivateOthers
    <2>4. TypeOK'
        BY <2>1, <2>2, <2>3 DEF TypeOK, stored
    <2>5. \A t \in Sessions : pc'[t] # "idle" => Checked(t)'
        BY <2>2, <2>3, <2>4, CheckedStays DEF Grows, stored, PendingIsChecked
    <2> QED BY <2>3, <2>4, <2>5, ChainStays DEF IndInv, PendingIsChecked, stored
<1>5. ASSUME NEW s \in Sessions, CommitRegister(s) PROVE IndInv'
    <2> DEFINE r == req[s]
               v == [doc |-> r.doc, force |-> r.force]
    <2>1. End(s) /\ pc[s] = "commit" /\ r.op = "register" /\ r \in Requests
        BY <1>5 DEF CommitRegister, TypeOK
    <2>2. Checked(s)
        BY <2>1 DEF PendingIsChecked
    <2>3. CASE r.number # Len(versions) + 1
        <3>1. UNCHANGED stored
            BY <1>5, <2>3 DEF CommitRegister
        <3>2. TypeOK'
            BY <2>1, <3>1, EndKeeps DEF TypeOK, stored
        <3>3. \A t \in Sessions : pc'[t] # "idle" => Checked(t)'
            BY <2>1, <3>1, <3>2, EndKeeps, CheckedStays DEF Grows, stored, PendingIsChecked
        <3> QED BY <3>1, <3>2, <3>3, ChainStays DEF IndInv, PendingIsChecked, stored
    <2>4. CASE r.number = Len(versions) + 1
        <3>1. v \in [doc : Docs, force : BOOLEAN]
            BY <2>1, <2>2 DEF Checked, Requests
        <3>2. versions' = Append(versions, v)
            BY <1>5, <2>4 DEF CommitRegister
        <3>3. /\ Len(versions) \in Nat /\ versions \in Seq([doc : Docs, force : BOOLEAN])
              /\ Len(versions') = Len(versions) + 1
            BY <3>1, <3>2 DEF TypeOK
        <3>4. r.number <= MaxVersions /\ versions # <<>>
              /\ (r.force \/ Compatible(versions[Len(versions)].doc, r.doc))
            BY <2>1, <2>2, <2>4, <3>3 DEF Checked
        <3>5. /\ isActive' \subseteq 1..Len(versions')
              /\ active' \in 0..Len(versions')
            <4>1. r.number \in 1..Len(versions')
                BY <2>4, <3>3
            <4>2. isActive \subseteq 1..Len(versions') /\ active \in 0..Len(versions')
                BY <3>3 DEF TypeOK
            <4>3. /\ isActive' = IF r.on THEN (isActive \ seen[s].others) \cup {r.number}
                                ELSE isActive
                  /\ active' = IF r.on THEN r.number ELSE active
                BY <1>5, <2>4 DEF CommitRegister
            <4>4. CASE r.on
                <5>1. isActive' = (isActive \ seen[s].others) \cup {r.number}
                    BY <4>3, <4>4
                <5>2. active' = r.number
                    BY <4>3, <4>4
                <5> HIDE DEF r
                <5>3. isActive' \subseteq 1..Len(versions')
                    BY <4>1, <4>2, <5>1
                <5>4. active' \in 0..Len(versions')
                    BY <3>3, <4>1, <5>2
                <5> QED BY <5>3, <5>4
            <4>5. CASE ~r.on
                BY <4>2, <4>3, <4>5
            <4> HIDE DEF r
            <4> QED BY <4>4, <4>5
        <3>6. TypeOK'
            BY <2>1, <2>4, <3>1, <3>2, <3>3, <3>4, <3>5, EndKeeps DEF TypeOK
        <3>7. ChainIsCompatible'
            BY <3>1, <3>2, <3>4, ChainGrows
        <3>8. Grows
            BY <3>1, <3>2, <3>3 DEF Grows
        <3>9. \A t \in Sessions : pc'[t] # "idle" => Checked(t)'
            BY <2>1, <3>6, <3>8, EndKeeps, CheckedStays DEF PendingIsChecked
        <3> QED BY <3>6, <3>7, <3>9 DEF IndInv, PendingIsChecked
    <2> QED BY <2>3, <2>4
<1>6. ASSUME NEW s \in Sessions, CommitSet(s) PROVE IndInv'
    <2>1. /\ End(s) /\ versions' = versions /\ pc[s] = "commit"
          /\ req[s].op = "set" /\ req[s] \in Requests
        BY <1>6 DEF CommitSet, TypeOK
    <2>2. req[s].number \in 1..Len(versions)
        BY <2>1 DEF PendingIsChecked, Checked
    <2>3. isActive' \subseteq 1..Len(versions)
        BY <1>6, <2>2 DEF CommitSet, TypeOK
    <2>4. active' \in 0..Len(versions)
        <3>1. active' \in {req[s].number, 0, active}
            BY <1>6 DEF CommitSet
        <3> QED BY <2>2, <3>1 DEF TypeOK
    <2>5. TypeOK'
        BY <2>1, <2>3, <2>4, EndKeeps DEF TypeOK
    <2>6. \A t \in Sessions : pc'[t] # "idle" => Checked(t)'
        BY <2>1, <2>5, EndKeeps, CheckedStays DEF Grows, PendingIsChecked, TypeOK
    <2> QED BY <2>1, <2>5, <2>6, ChainStays DEF IndInv, PendingIsChecked
<1>7. CASE UNCHANGED vars
    <2>1. TypeOK'
        BY <1>7 DEF vars, stored, TypeOK
    <2>2. \A t \in Sessions : pc'[t] # "idle" => Checked(t)'
        BY <1>7, <2>1, CheckedStays DEF Grows, vars, stored, PendingIsChecked, TypeOK
    <2> QED BY <1>7, <2>1, <2>2, ChainStays DEF IndInv, PendingIsChecked, vars, stored
<1> QED BY <1>1, <1>2, <1>3, <1>4, <1>5, <1>6, <1>7 DEF Next

\* The inductive invariant holds in every reachable state.
LEMMA IndCorrect == Spec => []IndInv
BY IndInit, IndNext, PTL DEF Spec

\* However registrations race, every unforced version was checked against the very
\* version before it (register_version and the unique version number).
THEOREM ChainSafety == Spec => []ChainIsCompatible
<1>1. IndInv => ChainIsCompatible
    BY DEF IndInv
<1> QED BY <1>1, IndCorrect, PTL

\* After a closed and fully typed version, an unforced one accepts every payload the
\* older one accepted (check_backward_compatible).
THEOREM ReadableSafety == Spec => []ClosedIsReadable
<1>1. IndInv => ClosedIsReadable
    <2> SUFFICES ASSUME IndInv, NEW i \in 1..Len(versions), Unforced(i),
                        ~versions[i - 1].doc.open,
                        \A n \in DOMAIN versions[i - 1].doc.props :
                            versions[i - 1].doc.props[n] # {}
                 PROVE  Reads(versions[i].doc, versions[i - 1].doc)
        BY DEF ClosedIsReadable
    <2>1. i - 1 \in 1..Len(versions)
        BY DEF IndInv, TypeOK, Unforced
    <2>2. versions[i].doc \in AllDocs /\ versions[i - 1].doc \in AllDocs
        <3>1. /\ versions[i] \in [doc : Docs, force : BOOLEAN]
              /\ versions[i - 1] \in [doc : Docs, force : BOOLEAN]
            BY <2>1, ElementOf DEF IndInv, TypeOK
        <3> QED BY <3>1, DocAssumption
    <2>3. Compatible(versions[i - 1].doc, versions[i].doc)
        BY DEF IndInv, ChainIsCompatible
    <2> QED BY <2>2, <2>3, CompatibleReads
<1> QED BY <1>1, IndCorrect, PTL

----------------------------------------------------------------------------
(* The flags and the pointer *)

\* A request that begins alone has loaded what is stored.
LEMMA BeginAlone ==
    ASSUME TypeOK, AloneIsCurrent, NEW s \in Sessions, NEW r \in Requests, NEW l \in Loaded,
           NEW step \in {"idle", "others", "commit"}, Begin(s, step, r, l), UNCHANGED stored,
           r.op = "set" => (l.own <=> r.number \in isActive) /\ l.pointer = active,
           step = "others" => l.others = isActive \cap (Held(r) \ {r.number}),
           step = "commit" => ~r.on
    PROVE  AloneIsCurrent'
<1>1. /\ pc'[s] = step /\ req'[s] = r /\ seen'[s] = l
      /\ \A t \in Sessions \ {s} : pc'[t] = pc[t] /\ req'[t] = req[t]
    BY DEF TypeOK, Begin
<1>2. overlapped' = (overlapped \/ \E t \in Sessions \ {s} : pc[t] # "idle")
    BY DEF Begin
<1>3. UNCHANGED <<isActive, active>>
    BY DEF stored
<1> SUFFICES ASSUME ~overlapped'
             PROVE  /\ isActive' = {active'} \ {0}
                    /\ \A t \in Sessions : pc'[t] # "idle" => LoadedIsCurrent(t)'
    BY DEF AloneIsCurrent
<1>4. ~overlapped /\ \A t \in Sessions \ {s} : pc[t] = "idle"
    BY <1>2
<1>5. \A t \in Sessions : pc'[t] # "idle" => t = s
    BY <1>1, <1>4
<1>6. LoadedIsCurrent(s)'
    BY <1>1, <1>3, <1>4 DEF LoadedIsCurrent, Held
<1> QED BY <1>3, <1>4, <1>5, <1>6 DEF AloneIsCurrent

\* When the only request ends with flags and pointer that agree, they agree.
LEMMA EndAlone ==
    ASSUME TypeOK, AloneIsCurrent, NEW s \in Sessions, pc[s] # "idle", End(s),
           (~overlapped /\ LoadedIsCurrent(s)) => isActive' = {active'} \ {0}
    PROVE  AloneIsCurrent'
<1>1. overlapped' = overlapped /\ pc'[s] = "idle" /\ \A t \in Sessions \ {s} : pc'[t] = pc[t]
    BY DEF TypeOK, End
<1> SUFFICES ASSUME ~overlapped'
             PROVE  isActive' = {active'} \ {0} /\ \A t \in Sessions : pc'[t] = "idle"
    BY DEF AloneIsCurrent
<1>2. LoadedIsCurrent(s)
    BY <1>1 DEF AloneIsCurrent
<1> QED BY <1>1, <1>2 DEF LoadedIsCurrent

\* Every step of the registry keeps what a lone request has loaded current.
LEMMA AloneNext ==
    ASSUME IndInv, AloneIsCurrent, [Next]_vars PROVE AloneIsCurrent'
<1>0. TypeOK /\ PendingIsChecked
    BY DEF IndInv
<1>1. ASSUME NEW s \in Sessions, NEW doc \in Docs, Create(s, doc) PROVE AloneIsCurrent'
    <2>1. Begin(s, "idle", NoRequest, NothingLoaded) /\ versions = <<>>
        BY <1>1 DEF Create
    <2>2. \A t \in Sessions : pc[t] = "idle"
        BY <1>0, <2>1 DEF PendingIsChecked, Checked
    <2>3. \A t \in Sessions : pc'[t] = "idle"
        BY <1>0, <2>1, <2>2, BeginKeeps, Defaults
    <2>4. isActive' = {1} /\ active' = 1
        BY <1>1 DEF Create
    <2> QED BY <2>3, <2>4 DEF AloneIsCurrent
<1>2. ASSUME NEW s \in Sessions, NEW doc \in Docs, NEW activate \in BOOLEAN,
             NEW force \in BOOLEAN, Register(s, doc, activate, force)
      PROVE  AloneIsCurrent'
    <2> DEFINE r == [op |-> "register", doc |-> doc, number |-> Len(versions) + 1,
                     on |-> activate, force |-> force]
               l == [own |-> activate, others |-> isActive \cap {Len(versions)}, pointer |-> 0]
               step == IF activate THEN "others" ELSE "commit"
    <2>1. r \in Requests
        BY <1>0, DocAssumption DEF TypeOK, Requests
    <2>2. l \in Loaded
        <3>1. isActive \cap {Len(versions)} \subseteq Nat
            BY <1>0 DEF TypeOK
        <3> QED BY <3>1 DEF Loaded
    <2>3. step \in {"others", "commit"} /\ (step = "commit" => ~r.on) /\ r.op # "set"
        OBVIOUS
    <2>5. l.others = isActive \cap (Held(r) \ {r.number})
        <3>1. Len(versions) \in Nat
            BY <1>0 DEF TypeOK
        <3>2. Held(r) = {Len(versions) + 1, Len(versions)}
            BY <3>1 DEF Held
        <3>3. Held(r) \ {r.number} = {Len(versions)}
            BY <3>1, <3>2
        <3> QED BY <3>3
    <2>4. Begin(s, step, r, l) /\ UNCHANGED stored
        BY <1>2 DEF Register
    <2> HIDE DEF r, l, step
    <2> QED BY <1>0, <2>1, <2>2, <2>3, <2>4, <2>5, BeginAlone
<1>3. ASSUME NEW s \in Sessions, NEW number \in 1..Len(versions), NEW on \in BOOLEAN,
             SetVersion(s, number, on)
      PROVE  AloneIsCurrent'
    <2> DEFINE r == [op |-> "set", doc |-> NoDoc, number |-> number, on |-> on, force |-> FALSE]
               l == [own |-> number \in isActive, others |-> {}, pointer |-> active]
               step == IF on THEN "others" ELSE "commit"
    <2>0. NoDoc \in AllDocs /\ number \in Nat /\ active \in Nat
        BY <1>0, Defaults DEF NoRequest, Requests, TypeOK
    <2>1. r \in Requests
        BY <2>0 DEF Requests
    <2>2. l \in Loaded
        BY <2>0 DEF Loaded
    <2>3. /\ step \in {"others", "commit"} /\ (step = "commit" => ~r.on)
          /\ (l.own <=> r.number \in isActive) /\ l.pointer = active
        OBVIOUS
    <2>5. l.others = isActive \cap (Held(r) \ {r.number})
        BY DEF Held
    <2>4. Begin(s, step, r, l) /\ UNCHANGED stored
        BY <1>3 DEF SetVersion
    <2> HIDE DEF r, l, step
    <2> QED BY <1>0, <2>1, <2>2, <2>3, <2>4, <2>5, BeginAlone
<1>4. ASSUME NEW s \in Sessions, DeactivateOthers(s) PROVE AloneIsCurrent'
    <2>1. /\ pc[s] = "others" /\ pc'[s] = "commit" /\ seen \in [Sessions -> Loaded]
          /\ \A t \in Sessions \ {s} : pc'[t] = pc[t]
          /\ UNCHANGED <<stored, req, overlapped>>
        BY <1>0, <1>4 DEF DeactivateOthers, TypeOK
    <2>2. seen'[s] = [seen[s] EXCEPT !.others = @ \cup (isActive \ Held(req[s]))]
        BY <1>4, <2>1 DEF DeactivateOthers
    <2>3. /\ seen'[s].own = seen[s].own /\ seen'[s].pointer = seen[s].pointer
          /\ seen'[s].others = seen[s].others \cup (isActive \ Held(req[s]))
        BY <2>1, <2>2 DEF Loaded
    <2> SUFFICES ASSUME ~overlapped'
                 PROVE  /\ isActive' = {active'} \ {0}
                        /\ \A t \in Sessions : pc'[t] # "idle" => LoadedIsCurrent(t)'
        BY DEF AloneIsCurrent
    <2>4. LoadedIsCurrent(s) /\ isActive = {active} \ {0}
        BY <2>1 DEF AloneIsCurrent
    <2>5. \A t \in Sessions : pc'[t] # "idle" => t = s
        BY <2>1, <2>4 DEF LoadedIsCurrent
    <2>7. req[s].number \in Held(req[s])
        BY DEF Held
    <2>8. seen[s].others = isActive \cap (Held(req[s]) \ {req[s].number})
        BY <2>1, <2>4 DEF LoadedIsCurrent
    <2>9. seen'[s].others = isActive \ {req[s].number}
        BY <2>3, <2>7, <2>8
    <2>6. LoadedIsCurrent(s)'
        BY <2>1, <2>3, <2>4, <2>9 DEF LoadedIsCurrent, stored
    <2> QED BY <2>1, <2>4, <2>5, <2>6 DEF stored
<1>5. ASSUME NEW s \in Sessions, CommitRegister(s) PROVE AloneIsCurrent'
    <2>1. /\ pc[s] = "commit" /\ End(s) /\ req[s].op = "register"
          /\ \/ /\ isActive' = IF req[s].on THEN (isActive \ seen[s].others) \cup {req[s].number}
                               ELSE isActive
                /\ active' = IF req[s].on THEN req[s].number ELSE active
             \/ UNCHANGED <<isActive, active>>
        BY <1>5 DEF CommitRegister, stored
    <2>2. req[s].number # 0
        BY <1>0, <2>1 DEF PendingIsChecked, Checked, TypeOK
    <2>3. ASSUME ~overlapped, LoadedIsCurrent(s) PROVE isActive' = {active'} \ {0}
        <3>1. isActive = {active} \ {0}
            BY <2>3 DEF AloneIsCurrent
        <3>2. CASE UNCHANGED <<isActive, active>>
            BY <3>1, <3>2
        <3>3. CASE /\ req[s].on /\ active' = req[s].number
                   /\ isActive' = (isActive \ seen[s].others) \cup {req[s].number}
            BY <2>1, <2>2, <2>3, <3>3 DEF LoadedIsCurrent
        <3> QED BY <2>1, <3>2, <3>3
    <2> QED BY <1>0, <2>1, <2>3, EndAlone
<1>6. ASSUME NEW s \in Sessions, CommitSet(s) PROVE AloneIsCurrent'
    <2> DEFINE n == req[s].number
    <2>1. pc[s] = "commit" /\ End(s) /\ req[s].op = "set"
        BY <1>6 DEF CommitSet
    <2>2. n # 0
        BY <1>0, <2>1 DEF PendingIsChecked, Checked, TypeOK
    <2>3. ASSUME ~overlapped, LoadedIsCurrent(s) PROVE isActive' = {active'} \ {0}
        <3>1. /\ isActive = {active} \ {0} /\ (seen[s].own <=> n \in isActive)
              /\ seen[s].pointer = active /\ (req[s].on => seen[s].others = isActive \ {n})
            BY <2>1, <2>3 DEF AloneIsCurrent, LoadedIsCurrent
        <3>2. CASE req[s].on /\ ~seen[s].own
            <4>1. isActive' = (isActive \ seen[s].others) \cup {n}
                BY <1>6, <3>2 DEF CommitSet
            <4>2. active' = IF seen[s].pointer # n THEN n ELSE active
                BY <1>6, <3>2 DEF CommitSet
            <4> QED BY <2>2, <3>1, <3>2, <4>1, <4>2
        <3>3. CASE req[s].on /\ seen[s].own
            <4>1. isActive' = isActive \ seen[s].others
                BY <1>6, <3>3 DEF CommitSet
            <4>2. active' = IF seen[s].pointer # n THEN n ELSE active
                BY <1>6, <3>3 DEF CommitSet
            <4> QED BY <2>2, <3>1, <3>3, <4>1, <4>2
        <3>4. CASE ~req[s].on /\ seen[s].own
            <4>1. isActive' = isActive \ {n}
                BY <1>6, <3>4 DEF CommitSet
            <4>2. active' = IF seen[s].pointer = n THEN 0 ELSE active
                BY <1>6, <3>4 DEF CommitSet
            <4> QED BY <2>2, <3>1, <3>4, <4>1, <4>2
        <3>5. CASE ~req[s].on /\ ~seen[s].own
            <4>1. isActive' = isActive
                BY <1>6, <3>5 DEF CommitSet
            <4>2. active' = IF seen[s].pointer = n THEN 0 ELSE active
                BY <1>6, <3>5 DEF CommitSet
            <4> QED BY <2>2, <3>1, <3>5, <4>1, <4>2
        <3> QED BY <3>2, <3>3, <3>4, <3>5
    <2> QED BY <1>0, <2>1, <2>3, EndAlone
<1>7. CASE UNCHANGED vars
    BY <1>7 DEF vars, stored, AloneIsCurrent, LoadedIsCurrent
<1> QED BY <1>1, <1>2, <1>3, <1>4, <1>5, <1>6, <1>7 DEF Next

\* While requests come one at a time the active version is the one and only version
\* with is_active set, and the pointer is always to a version that exists, in every
\* registry and however many versions it has.
THEOREM FlagsSafety == Spec => []FlagsAgree
<1>1. Init => AloneIsCurrent
    BY DEF Init, AloneIsCurrent
<1>2. IndInv /\ AloneIsCurrent => FlagsAgree
    BY DEF IndInv, AloneIsCurrent, FlagsAgree
<1>3. IndInv /\ AloneIsCurrent /\ [Next]_vars => AloneIsCurrent'
    BY AloneNext
<1> QED BY <1>1, <1>2, <1>3, IndCorrect, PTL DEF Spec

----------------------------------------------------------------------------
(* The life cycle of a pipeline's versions *)

Edit == Update \cup Publication

\* What PublishedIsSound says of the stored versions.
Sound ==
    /\ \A i \in Published : IsValid(revisions[i].graph)
    /\ Published = {current} \ {0}
    /\ \A i \in 1..Len(revisions) : revisions[i].nodes = revisions[i].graph

LEMMA HeldEdit ==
    ASSUME PipelineTypeOK, NEW s \in Editors, at[s] # "idle"
    PROVE  held[s] \in Edit /\ held[s].op \in {"update", "publish"}
BY DEF PipelineTypeOK, Edit, Update, Publication

\* A request begins: what the others hold stays, and it is alone or the race is known.
LEMMA BeginEditInv ==
    ASSUME PipelineInv, NEW s \in Editors, NEW r \in Edit, NEW step \in {"others", "commit"},
           BeginEdit(s, step, r), UNCHANGED <<revisions, current>>, HeldExists(s)',
           ~raced' => HeldIsCurrent(s)'
    PROVE  PipelineInv'
<1>1. PipelineTypeOK
    BY DEF PipelineInv, PublishedIsSound
<1>2. r # NoEdit
    BY DEF Edit, Update, Publication, NoEdit
<1>3. PipelineTypeOK'
    BY <1>1, <1>2, EditBounds DEF PipelineTypeOK, BeginEdit, Edit
<1>4. /\ \A t \in Editors \ {s} : at'[t] = at[t] /\ held'[t] = held[t]
      /\ ~raced' => ~raced /\ \A t \in Editors \ {s} : at[t] = "idle"
    BY <1>1 DEF PipelineTypeOK, BeginEdit
<1>5. ASSUME NEW t \in Editors, at'[t] # "idle" PROVE HeldExists(t)'
    <2>1. CASE t = s
        BY <2>1
    <2>2. CASE t # s
        <3>1. HeldExists(t) /\ at'[t] = at[t] /\ held'[t] = held[t]
            BY <1>4, <1>5, <2>2 DEF PipelineInv
        <3> QED BY <3>1 DEF HeldExists
    <2> QED BY <2>1, <2>2
<1>6. ASSUME ~raced', NEW t \in Editors, at'[t] # "idle" PROVE HeldIsCurrent(t)'
    BY <1>4, <1>6
<1>7. OnlyLatestIsDraft' /\ (~raced' => Sound')
    BY <1>4 DEF PipelineInv, PublishedIsSound, OnlyLatestIsDraft, Sound, Published
<1> QED BY <1>3, <1>5, <1>6, <1>7 DEF PipelineInv, PublishedIsSound, Sound

\* A request ends: versions are kept or added, and none becomes a draft again.
LEMMA EndEditInv ==
    ASSUME PipelineInv, NEW s \in Editors, at[s] # "idle", EndEdit(s),
           revisions' \in Seq(Version), Len(revisions) <= Len(revisions'),
           Len(revisions') <= MaxRevisions,
           \A i \in 1..Len(revisions) :
               revisions[i].status # "DRAFT" => revisions'[i].status # "DRAFT",
           current' \in 0..Len(revisions'), OnlyLatestIsDraft',
           (~raced /\ HeldIsCurrent(s)) => Sound'
    PROVE  PipelineInv'
<1>1. PipelineTypeOK
    BY DEF PipelineInv, PublishedIsSound
<1>2. PipelineTypeOK'
    BY <1>1, EditBounds DEF PipelineTypeOK, EndEdit
<1>3. /\ at'[s] = "idle" /\ \A t \in Editors \ {s} : at'[t] = at[t] /\ held'[t] = held[t]
      /\ raced' = raced /\ Len(revisions) \in Nat /\ Len(revisions') \in Nat
    BY <1>1, <1>2 DEF PipelineTypeOK, EndEdit
<1>4. ASSUME NEW t \in Editors, at'[t] # "idle" PROVE HeldExists(t)'
    <2>1. HeldExists(t) /\ at'[t] = at[t] /\ held'[t] = held[t]
        BY <1>3, <1>4 DEF PipelineInv
    <2>2. held[t].number \in 1..Len(revisions)
        BY <2>1 DEF HeldExists
    <2>3. held[t].number \in 1..Len(revisions')
        BY <1>3, <2>2
    <2>4. held[t].op = "publish" =>
             held[t].others \subseteq (1..Len(revisions')) \ {held[t].number}
        BY <1>3, <2>1 DEF HeldExists
    <2> QED BY <2>1, <2>2, <2>3, <2>4 DEF HeldExists
<1>5. ASSUME ~raced' PROVE Sound' /\ \A t \in Editors : at'[t] = "idle"
    <2>1. HeldIsCurrent(s)
        BY <1>3, <1>5 DEF PipelineInv
    <2> QED BY <1>3, <1>5, <2>1 DEF HeldIsCurrent
<1> QED BY <1>2, <1>4, <1>5 DEF PipelineInv, PublishedIsSound, Sound

\* The first version is a draft.
LEMMA CreateInv ==
    ASSUME PipelineInv, NEW s \in Editors, NEW graph \in Graphs, CreatePipeline(s, graph)
    PROVE  PipelineInv'
<1>1. PipelineTypeOK
    BY DEF PipelineInv, PublishedIsSound
<1>2. /\ BeginEdit(s, "idle", NoEdit) /\ revisions = <<>> /\ revisions' = <<Draft(graph)>>
      /\ current' = current
    BY DEF CreatePipeline
<1>3. Draft(graph) \in Version /\ Draft(graph).status = "DRAFT"
      /\ Draft(graph).nodes = Draft(graph).graph
    BY DEF Draft, Version, Status
<1>4. /\ revisions' \in Seq(Version) /\ Len(revisions') = 1 /\ Len(revisions) = 0
      /\ revisions'[1] = Draft(graph)
    BY <1>2, <1>3
<1>5. \A t \in Editors : at[t] = "idle"
    BY <1>4 DEF PipelineInv, HeldExists
<1>6. \A t \in Editors : at'[t] = "idle" /\ held'[t] = NoEdit
    BY <1>1, <1>2, <1>5 DEF PipelineTypeOK, BeginEdit
<1>7. current = 0
    BY <1>1, <1>4 DEF PipelineTypeOK
<1>8. PipelineTypeOK'
    <2>1. /\ at' \in [Editors -> {"idle", "others", "commit"}]
          /\ held' \in [Editors -> Update \cup Publication \cup {NoEdit}]
          /\ edits' \in 0..MaxEdits /\ raced' \in BOOLEAN
        BY <1>1, <1>2, EditBounds DEF PipelineTypeOK, BeginEdit
    <2> QED BY <1>2, <1>4, <1>6, <1>7, <2>1, EditBounds DEF PipelineTypeOK
<1>9. OnlyLatestIsDraft' /\ Sound'
    <2>1. \A i \in 1..Len(revisions') : i = 1 /\ revisions'[i] = Draft(graph)
        BY <1>4
    <2>2. Published' = {}
        BY <1>3, <2>1 DEF Published
    <2> QED BY <1>2, <1>3, <1>4, <1>7, <2>1, <2>2 DEF OnlyLatestIsDraft, Sound
<1> QED BY <1>6, <1>8, <1>9 DEF PipelineInv, PublishedIsSound, Sound

\* update_draft() loads the latest version.
LEMMA UpdateInv ==
    ASSUME PipelineInv, NEW s \in Editors, NEW graph \in Graphs, UpdateDraft(s, graph)
    PROVE  PipelineInv'
<1> DEFINE n == Len(revisions)
           r == [op |-> "update", number |-> n, status |-> revisions[n].status,
                 loaded |-> revisions[n].graph, graph |-> graph]
<1>1. PipelineTypeOK
    BY DEF PipelineInv, PublishedIsSound
<1>2. n \in 1..Len(revisions) /\ n \in Nat /\ revisions[n] \in Version /\ n <= MaxRevisions
    BY <1>1, ElementOf DEF UpdateDraft, PipelineTypeOK
<1>3. r \in Edit
    BY <1>2 DEF Edit, Update, Version
<1>4. /\ BeginEdit(s, "commit", r) /\ UNCHANGED <<revisions, current>>
      /\ revisions[n].status # "DRAFT" => n < MaxRevisions
    BY DEF UpdateDraft
<1>5. r.op = "update" /\ r.number = n /\ r.status = revisions[n].status
      /\ r.loaded = revisions[n].graph
    OBVIOUS
<1> HIDE DEF n, r
<1>6. /\ held'[s] = r /\ at'[s] = "commit" /\ \A t \in Editors \ {s} : at'[t] = at[t]
      /\ ~raced' => \A t \in Editors \ {s} : at[t] = "idle"
    BY <1>1, <1>4 DEF PipelineTypeOK, BeginEdit
<1>7. HeldExists(s)'
    BY <1>2, <1>4, <1>5, <1>6 DEF HeldExists
<1>8. ~raced' => HeldIsCurrent(s)'
    BY <1>4, <1>5, <1>6 DEF HeldIsCurrent, n
<1> QED BY <1>3, <1>4, <1>7, <1>8, BeginEditInv

\* publish() loads a version that is not published and whose graph is valid.
LEMMA PublishInv ==
    ASSUME PipelineInv, NEW s \in Editors, NEW n \in 1..Len(revisions), Publish(s, n)
    PROVE  PipelineInv'
<1> DEFINE r == [op |-> "publish", number |-> n, others |-> {}, pointer |-> 0]
<1>1. PipelineTypeOK
    BY DEF PipelineInv, PublishedIsSound
<1>2. r \in Edit
    BY <1>1 DEF Edit, Publication, PipelineTypeOK
<1>3. /\ BeginEdit(s, "others", r) /\ UNCHANGED <<revisions, current>>
      /\ revisions[n].status # "PUBLISHED" /\ IsValid(revisions[n].graph)
    BY DEF Publish
<1>4. r.op = "publish" /\ r.number = n /\ r.others = {}
    OBVIOUS
<1> HIDE DEF r
<1>5. /\ held'[s] = r /\ at'[s] = "others" /\ \A t \in Editors \ {s} : at'[t] = at[t]
      /\ ~raced' => \A t \in Editors \ {s} : at[t] = "idle"
    BY <1>1, <1>3 DEF PipelineTypeOK, BeginEdit
<1>6. HeldExists(s)'
    BY <1>3, <1>4, <1>5 DEF HeldExists
<1>7. ~raced' => HeldIsCurrent(s)'
    BY <1>3, <1>4, <1>5 DEF HeldIsCurrent
<1> QED BY <1>2, <1>3, <1>6, <1>7, BeginEditInv

\* It reads the other published versions and the pointer.
LEMMA ReadOthersInv ==
    ASSUME PipelineInv, NEW s \in Editors, ReadOthers(s) PROVE PipelineInv'
<1> DEFINE r == held[s]
           others == {i \in 1..Len(revisions) : i # r.number /\ revisions[i].status = "PUBLISHED"}
<1>1. PipelineTypeOK /\ at[s] = "others" /\ UNCHANGED <<revisions, current, edits, raced>>
    BY DEF PipelineInv, PublishedIsSound, ReadOthers
<1>2. HeldExists(s) /\ r.op = "publish" /\ r \in Publication
    BY <1>1, HeldEdit DEF PipelineInv, HeldExists, Edit, Update, Publication
<1>3. /\ held' = [held EXCEPT ![s] = [r EXCEPT !.others = others, !.pointer = current]]
      /\ at' = [at EXCEPT ![s] = "commit"]
    BY DEF ReadOthers
<1>4. others \subseteq Nat /\ current \in Nat /\ others \subseteq (1..Len(revisions)) \ {r.number}
    BY <1>1 DEF PipelineTypeOK
<1>5. /\ held'[s] = [r EXCEPT !.others = others, !.pointer = current]
      /\ at'[s] = "commit"
      /\ \A t \in Editors \ {s} : at'[t] = at[t] /\ held'[t] = held[t]
    BY <1>1, <1>3 DEF PipelineTypeOK
<1>6. others = Published \ {r.number}
    BY DEF Published
<1> HIDE DEF others
<1>7. /\ held'[s] \in Publication /\ held'[s].op = "publish" /\ held'[s].number = r.number
      /\ held'[s].others = others /\ held'[s].pointer = current
    BY <1>2, <1>4, <1>5 DEF Publication
<1>8. PipelineTypeOK'
    <2>1. held'[s] # NoEdit
        BY <1>7 DEF NoEdit
    <2>2. held' \in [Editors -> Update \cup Publication \cup {NoEdit}]
        BY <1>1, <1>3, <1>7 DEF PipelineTypeOK
    <2>3. \A t \in Editors : (at'[t] = "idle") <=> (held'[t] = NoEdit)
        BY <1>1, <1>5, <2>1 DEF PipelineTypeOK
    <2> QED BY <1>1, <1>3, <2>2, <2>3 DEF PipelineTypeOK
<1>9. ASSUME NEW t \in Editors, at'[t] # "idle" PROVE HeldExists(t)'
    <2>1. CASE t = s
        BY <1>1, <1>2, <1>4, <1>7, <2>1 DEF HeldExists
    <2>2. CASE t # s
        <3>1. HeldExists(t) /\ at'[t] = at[t] /\ held'[t] = held[t]
            BY <1>5, <1>9, <2>2 DEF PipelineInv
        <3> QED BY <1>1, <3>1 DEF HeldExists
    <2> QED BY <2>1, <2>2
<1>10. ASSUME ~raced' PROVE \A t \in Editors : at'[t] # "idle" => HeldIsCurrent(t)'
    <2>1. HeldIsCurrent(s) /\ \A t \in Editors \ {s} : at[t] = "idle"
        BY <1>1, <1>10 DEF PipelineInv, HeldIsCurrent
    <2>2. HeldIsCurrent(s)'
        BY <1>1, <1>2, <1>5, <1>6, <1>7, <2>1 DEF HeldIsCurrent, Published
    <2> QED BY <1>5, <2>1, <2>2
<1>11. OnlyLatestIsDraft' /\ (~raced' => Sound')
    BY <1>1 DEF PipelineInv, PublishedIsSound, OnlyLatestIsDraft, Sound, Published
<1> QED BY <1>8, <1>9, <1>10, <1>11 DEF PipelineInv, PublishedIsSound, Sound

\* A new draft follows versions that are none.
LEMMA AppendInv ==
    ASSUME PipelineInv, NEW s \in Editors, at[s] = "commit", held[s].op = "update",
           held[s].status # "DRAFT", Len(revisions) = held[s].number,
           revisions' = Append(revisions, Draft(held[s].graph)), EndEdit(s), UNCHANGED current
    PROVE  PipelineInv'
<1> DEFINE n == Len(revisions)
           d == Draft(held[s].graph)
<1>1. PipelineTypeOK /\ HeldExists(s)
    BY DEF PipelineInv, PublishedIsSound
<1>2. held[s].graph \in Graphs /\ revisions[n].status # "DRAFT" /\ n < MaxRevisions /\ n \in Nat
    BY <1>1, HeldEdit DEF HeldExists, Edit, Update, Publication, PipelineTypeOK
<1>3. d \in Version /\ d.status = "DRAFT" /\ d.nodes = d.graph
    BY <1>2 DEF Draft, Version, Status
<1> HIDE DEF d
<1>4. /\ revisions' \in Seq(Version) /\ Len(revisions') = n + 1 /\ revisions'[n + 1] = d
      /\ \A i \in 1..n : revisions'[i] = revisions[i]
    BY <1>1, <1>3 DEF PipelineTypeOK, d
<1>5. \A i \in 1..n : revisions[i].status # "DRAFT"
    BY <1>2 DEF PipelineInv, OnlyLatestIsDraft
<1>6. OnlyLatestIsDraft'
    BY <1>2, <1>4, <1>5 DEF OnlyLatestIsDraft
<1>7. ASSUME ~raced PROVE Sound'
    <2>1. Sound
        BY <1>7 DEF PipelineInv, PublishedIsSound, Sound
    <2>2. \A i \in 1..(n + 1) : i = n + 1 \/ i \in 1..n
        BY <1>2
    <2>3. Published' = Published /\ \A i \in Published : i \in 1..n
        BY <1>2, <1>3, <1>4, <2>2 DEF Published
    <2>4. \A i \in 1..Len(revisions') : revisions'[i].nodes = revisions'[i].graph
        BY <1>3, <1>4, <2>1, <2>2 DEF Sound
    <2>5. \A i \in Published' : IsValid(revisions'[i].graph)
        BY <1>4, <2>1, <2>3 DEF Sound
    <2> QED BY <2>1, <2>3, <2>4, <2>5 DEF Sound
<1>8. current' \in 0..Len(revisions') /\ n <= Len(revisions') /\ Len(revisions') <= MaxRevisions
    BY <1>1, <1>2, <1>4, EditBounds DEF PipelineTypeOK
<1> QED BY <1>4, <1>5, <1>6, <1>7, <1>8, EndEditInv

\* A version loaded as a draft gets the new graph and the new node rows.
LEMMA EditInv ==
    ASSUME PipelineInv, NEW s \in Editors, at[s] = "commit", held[s].op = "update",
           held[s].status = "DRAFT", CommitUpdate(s)
    PROVE  PipelineInv'
<1> DEFINE r == held[s]
           m == r.number
           v == [revisions[m] EXCEPT !.graph = IF r.graph = r.loaded THEN revisions[m].graph
                                               ELSE r.graph,
                                     !.nodes = r.graph]
<1>1. PipelineTypeOK /\ HeldExists(s) /\ EndEdit(s) /\ UNCHANGED current
    BY DEF PipelineInv, PublishedIsSound, CommitUpdate
<1>2. m \in 1..Len(revisions) /\ revisions[m] \in Version /\ r.graph \in Graphs
    BY <1>1, HeldEdit, ElementOf DEF HeldExists, Edit, Update, Publication, PipelineTypeOK
<1>3. revisions' = [revisions EXCEPT ![m] = v]
    BY DEF CommitUpdate
<1>4. /\ v \in Version /\ v.status = revisions[m].status /\ v.nodes = r.graph
      /\ r.loaded = revisions[m].graph => v.graph = r.graph
    BY <1>2 DEF Version
<1> HIDE DEF v, m
<1>5. /\ revisions' \in Seq(Version) /\ Len(revisions') = Len(revisions)
      /\ revisions'[m] = v
      /\ \A i \in 1..Len(revisions) \ {m} : revisions'[i] = revisions[i]
    BY <1>1, <1>2, <1>3, <1>4 DEF PipelineTypeOK
<1>6. \A i \in 1..Len(revisions) : revisions'[i].status = revisions[i].status
    BY <1>2, <1>4, <1>5
<1>7. OnlyLatestIsDraft'
    BY <1>5, <1>6 DEF PipelineInv, OnlyLatestIsDraft
<1>8. ASSUME ~raced, HeldIsCurrent(s) PROVE Sound'
    <2>1. Sound
        BY <1>8 DEF PipelineInv, PublishedIsSound, Sound
    <2>2. revisions[m].status = "DRAFT" /\ v.graph = r.graph
        BY <1>4, <1>8 DEF HeldIsCurrent, m
    <2>3. Published' = Published /\ \A i \in Published : i \in 1..Len(revisions) \ {m}
        BY <1>5, <1>6, <2>2 DEF Published
    <2>4. \A i \in 1..Len(revisions') : revisions'[i].nodes = revisions'[i].graph
        BY <1>4, <1>5, <2>1, <2>2 DEF Sound
    <2>5. \A i \in Published' : IsValid(revisions'[i].graph)
        BY <1>5, <2>1, <2>3 DEF Sound
    <2> QED BY <1>1, <2>1, <2>3, <2>4, <2>5 DEF Sound
<1>9. /\ current' \in 0..Len(revisions') /\ Len(revisions) <= Len(revisions')
      /\ Len(revisions') <= MaxRevisions
    BY <1>1, <1>5 DEF PipelineTypeOK
<1> QED BY <1>1, <1>5, <1>6, <1>7, <1>8, <1>9, EndEditInv

LEMMA CommitUpdateInv ==
    ASSUME PipelineInv, NEW s \in Editors, CommitUpdate(s) PROVE PipelineInv'
<1>1. /\ at[s] = "commit" /\ held[s].op = "update" /\ EndEdit(s) /\ UNCHANGED current
      /\ PipelineTypeOK
    BY DEF CommitUpdate, PipelineInv, PublishedIsSound
<1>2. CASE held[s].status = "DRAFT"
    BY <1>1, <1>2, EditInv
<1>3. CASE held[s].status # "DRAFT" /\ Len(revisions) = held[s].number
    BY <1>1, <1>3, AppendInv DEF CommitUpdate
<1>4. CASE held[s].status # "DRAFT" /\ Len(revisions) # held[s].number
    <2>1. revisions' = revisions
        BY <1>4 DEF CommitUpdate
    <2>2. OnlyLatestIsDraft' /\ (~raced => Sound')
        BY <1>1, <2>1 DEF PipelineInv, PublishedIsSound, OnlyLatestIsDraft, Sound, Published
    <2> QED BY <1>1, <2>1, <2>2, EndEditInv DEF PipelineTypeOK
<1> QED BY <1>2, <1>3, <1>4

\* The version is published, the others that were seen are disabled.
LEMMA CommitPublishInv ==
    ASSUME PipelineInv, NEW s \in Editors, CommitPublish(s) PROVE PipelineInv'
<1> DEFINE r == held[s]
           m == r.number
           n == Len(revisions)
<1>1. PipelineTypeOK /\ HeldExists(s) /\ EndEdit(s) /\ at[s] = "commit" /\ r.op = "publish"
    BY DEF PipelineInv, PublishedIsSound, CommitPublish
<1>2. m \in 1..n /\ n \in Nat /\ n <= MaxRevisions /\ r.others \subseteq (1..n) \ {m} /\ m # 0
    BY <1>1 DEF HeldExists, PipelineTypeOK
<1>3. ASSUME NEW i \in 1..n
      PROVE  /\ revisions[i] \in Version
             /\ revisions'[i] = CASE i = m          -> [revisions[i] EXCEPT !.status = "PUBLISHED"]
                                  [] i \in r.others -> [revisions[i] EXCEPT !.status = "DISABLED"]
                                  [] OTHER          -> revisions[i]
    BY <1>1, <1>3, ElementOf DEF CommitPublish, PipelineTypeOK
<1>4. ASSUME NEW i \in 1..n
      PROVE  /\ revisions'[i] \in Version
             /\ revisions'[i].graph = revisions[i].graph /\ revisions'[i].nodes = revisions[i].nodes
             /\ revisions'[i].status = IF i = m THEN "PUBLISHED"
                                       ELSE IF i \in r.others THEN "DISABLED"
                                       ELSE revisions[i].status
    <2> HIDE DEF m, n
    <2>1. CASE i = m
        <3>1. revisions'[i] = [revisions[i] EXCEPT !.status = "PUBLISHED"]
            BY <1>2, <1>3, <2>1
        <3> QED BY <1>3, <2>1, <3>1 DEF Version, Status
    <2>2. CASE i # m /\ i \in r.others
        <3>1. revisions'[i] = [revisions[i] EXCEPT !.status = "DISABLED"]
            BY <1>3, <2>2
        <3> QED BY <1>3, <2>2, <3>1 DEF Version, Status
    <2>3. CASE i # m /\ i \notin r.others
        BY <1>3, <2>3 DEF Version, Status
    <2> QED BY <2>1, <2>2, <2>3
<1>5. revisions' \in Seq(Version) /\ Len(revisions') = n
    <2>1. DOMAIN revisions' = 1..n /\ revisions' = [i \in 1..n |-> revisions'[i]]
        BY DEF CommitPublish
    <2>2. revisions' \in [1..n -> Version]
        BY <1>4, <2>1
    <2> QED BY <1>2, <2>2
<1>6. current' = IF r.pointer = m THEN current ELSE m
    BY DEF CommitPublish
<1> HIDE DEF m, n
<1>7. current' \in 0..Len(revisions')
    BY <1>1, <1>2, <1>5, <1>6 DEF PipelineTypeOK, n
<1>8. \A i \in 1..n : revisions[i].status # "DRAFT" => revisions'[i].status # "DRAFT"
    BY <1>4
<1>9. OnlyLatestIsDraft'
    BY <1>4, <1>5 DEF PipelineInv, OnlyLatestIsDraft, n
<1>10. ASSUME ~raced, HeldIsCurrent(s) PROVE Sound'
    <2>1. Sound
        BY <1>10 DEF PipelineInv, PublishedIsSound, Sound
    <2>2. /\ IsValid(revisions[m].graph) /\ r.others = Published \ {m}
          /\ r.pointer = current
        BY <1>1, <1>10 DEF HeldIsCurrent, m
    <2>3. \A i \in 1..n : revisions'[i].status = "PUBLISHED" <=> i = m
        BY <1>4, <2>2 DEF Published, n
    <2>4. Published' = {m} /\ current' = m
        BY <1>2, <1>5, <1>6, <2>2, <2>3 DEF Published
    <2>5. IsValid(revisions'[m].graph)
        BY <1>2, <1>4, <2>2
    <2>6. \A i \in 1..n : revisions'[i].nodes = revisions'[i].graph
        BY <1>4, <2>1 DEF Sound, n
    <2> QED BY <1>2, <1>5, <2>4, <2>5, <2>6 DEF Sound
<1> QED BY <1>1, <1>2, <1>5, <1>7, <1>8, <1>9, <1>10, EndEditInv DEF n

\* There is no version at the start.
LEMMA PipelineStart == PipelineInit => PipelineInv
<1> SUFFICES ASSUME PipelineInit PROVE PipelineInv
    OBVIOUS
<1>1. revisions \in Seq(Version) /\ Len(revisions) = 0
    BY DEF PipelineInit
<1>2. PipelineTypeOK
    <2>1. raced \in BOOLEAN
        BY DEF PipelineInit
    <2>2. /\ at \in [Editors -> {"idle", "others", "commit"}]
          /\ held \in [Editors -> Update \cup Publication \cup {NoEdit}]
          /\ \A s \in Editors : at[s] = "idle" /\ held[s] = NoEdit
        BY DEF PipelineInit
    <2>3. current \in 0..Len(revisions) /\ edits \in 0..MaxEdits /\ Len(revisions) <= MaxRevisions
        BY <1>1, EditBounds DEF PipelineInit
    <2> QED BY <1>1, <2>1, <2>2, <2>3 DEF PipelineTypeOK
<1> QED BY <1>1, <1>2
        DEF PipelineInit, PipelineInv, OnlyLatestIsDraft, PublishedIsSound, Published

\* Every step of an edit preserves the inductive invariant.
LEMMA PipelineStep == PipelineInv /\ [PipelineNext]_pipelineVars => PipelineInv'
<1> SUFFICES ASSUME PipelineInv, [PipelineNext]_pipelineVars PROVE PipelineInv'
    OBVIOUS
<1>1. CASE UNCHANGED pipelineVars
    BY <1>1 DEF pipelineVars, PipelineInv, OnlyLatestIsDraft, PublishedIsSound, Published,
                PipelineTypeOK, HeldExists, HeldIsCurrent
<1> QED BY <1>1, CreateInv, UpdateInv, PublishInv, ReadOthersInv, CommitUpdateInv,
           CommitPublishInv DEF PipelineNext

LEMMA PipelineInvariance == PipelineSpec => []PipelineInv
BY PipelineStart, PipelineStep, PTL DEF PipelineSpec

\* However edits race, only the latest version of a pipeline can be a draft.
THEOREM DraftSafety == PipelineSpec => []OnlyLatestIsDraft
<1>1. PipelineInv => OnlyLatestIsDraft
    BY DEF PipelineInv
<1> QED BY <1>1, PipelineInvariance, PTL

\* While edits come one at a time the active version is the only published one, its
\* graph was validated, and the node rows are the graph column's.
THEOREM PublishedSafety == PipelineSpec => []PublishedIsSound
<1>1. PipelineInv => PublishedIsSound
    BY DEF PipelineInv
<1> QED BY <1>1, PipelineInvariance, PTL

\* While edits come one at a time, no step changes the graph of a version that has
\* left DRAFT.
THEOREM ImmutableSafety == PipelineSpec => AloneIsImmutable
<1>1. ASSUME PipelineInv, PipelineNext, ~raced' PROVE GraphsStay
    <2>0. PipelineTypeOK /\ ~raced
        BY <1>1 DEF PipelineInv, PublishedIsSound, PipelineTypeOK, PipelineNext, CreatePipeline,
            UpdateDraft, Publish, ReadOthers, CommitUpdate, CommitPublish, BeginEdit, EndEdit
    <2>1. CASE UNCHANGED revisions
        BY <2>1 DEF GraphsStay
    <2>2. CASE revisions = <<>>
        BY <2>2 DEF GraphsStay
    <2>3. ASSUME NEW s \in Editors, CommitUpdate(s) PROVE GraphsStay
        <3>1. HeldIsCurrent(s) /\ HeldExists(s)
            BY <1>1, <2>0, <2>3 DEF CommitUpdate, PipelineInv
        <3>2. CASE revisions' = Append(revisions, Draft(held[s].graph))
            <4>1. \A i \in 1..Len(revisions) : revisions'[i] = revisions[i]
                <5>1. revisions \in Seq(Version) /\ held[s].graph \in Graphs
                    BY <2>0, <2>3, HeldEdit DEF PipelineTypeOK, CommitUpdate, Edit, Update, Publication
                <5>2. Draft(held[s].graph) \in Version
                    BY <5>1 DEF Draft, Version, Status
                <5> QED BY <3>2, <5>1, <5>2
            <4> QED BY <4>1 DEF GraphsStay
        <3>3. CASE held[s].status = "DRAFT"
            <4>1. revisions[held[s].number].status = "DRAFT"
                BY <2>3, <3>1, <3>3 DEF HeldIsCurrent, CommitUpdate
            <4>2. \A i \in 1..Len(revisions) : i # held[s].number => revisions'[i] = revisions[i]
                BY <2>0, <2>3, <3>3 DEF CommitUpdate, PipelineTypeOK
            <4> QED BY <4>1, <4>2 DEF GraphsStay
        <3> QED BY <2>1, <2>3, <3>2, <3>3 DEF CommitUpdate
    <2>4. ASSUME NEW s \in Editors, CommitPublish(s) PROVE GraphsStay
        <3> SUFFICES ASSUME NEW i \in 1..Len(revisions)
                     PROVE  revisions'[i].graph = revisions[i].graph
            BY DEF GraphsStay
        <3>1. revisions[i] \in Version
            BY <2>0, ElementOf DEF PipelineTypeOK
        <3>2. \/ revisions'[i] = [revisions[i] EXCEPT !.status = "PUBLISHED"]
              \/ revisions'[i] = [revisions[i] EXCEPT !.status = "DISABLED"]
              \/ revisions'[i] = revisions[i]
            BY <2>4 DEF CommitPublish
        <3> QED BY <3>1, <3>2 DEF Version
    <2> QED BY <1>1, <2>1, <2>2, <2>3, <2>4
            DEF PipelineNext, CreatePipeline, UpdateDraft, Publish, ReadOthers
<1>2. PipelineInv /\ [PipelineNext]_pipelineVars => [~raced' => GraphsStay]_pipelineVars
    BY <1>1
<1> QED BY <1>2, PipelineInvariance, PTL DEF PipelineSpec, AloneIsImmutable

----------------------------------------------------------------------------
(* The validator of graphs *)

\* A set of numbers has a least.
LEMMA LeastNumber ==
    ASSUME NEW S \in SUBSET Nat, S # {}
    PROVE  \E m \in S : \A k \in S : m <= k
<1> DEFINE Less == {p \in Nat \X Nat : p[1] < p[2]}
<1>1. IsWellFoundedOn(Less, Nat)
    BY NatLessThanWellFounded DEF OpToRel
<1>2. PICK m \in S : \A k \in S : ~ (<<k, m>> \in Less)
    <2> HIDE DEF Less
    <2> QED BY <1>1, WFMin
<1>3. ASSUME NEW k \in S PROVE m <= k
    <2>1. k \in Nat /\ m \in Nat
        OBVIOUS
    <2>2. ~(k < m)
        BY <1>2, <2>1
    <2> QED BY <2>1, <2>2
<1> QED BY <1>3

\* SetToSeqs: a listing of a finite set has every element, once.
LEMMA Listing ==
    ASSUME NEW S, IsFiniteSet(S), NEW f \in SetToSeqs(S)
    PROVE  f \in Seq(S) /\ IsInjective(f) /\ ToSet(f) = S
<1>1. Cardinality(S) \in Nat
    BY FS_CardinalityType
<1>2. PICK c \in Nat : c = Cardinality(S)
    BY <1>1
<1>3. f \in [1..c -> S] /\ \A i, j \in 1..c : i # j => f[i] # f[j]
    BY <1>2 DEF SetToSeqs
<1>4. IsInjective(f) /\ DOMAIN f = 1..c
    BY <1>3 DEF IsInjective
<1>5. f \in Seq(S)
    BY <1>3
<1>6. f \in Surjection(1..c, S)
    <2>1. f \in Injection(1..c, S)
        BY <1>3 DEF Injection, IsInjective
    <2>2. Cardinality(1..c) = c
        <3>1. Cardinality(1..c) = IF 1 > c THEN 0 ELSE c - 1 + 1
            BY FS_Interval
        <3> QED BY <3>1
    <2>3. Cardinality(1..c) = Cardinality(S)
        BY <1>2, <2>2
    <2> QED BY <2>1, <2>3, FS_Injection
<1>7. ToSet(f) = S
    BY <1>3, <1>6 DEF Surjection, ToSet
<1> QED BY <1>4, <1>5, <1>7

\* A sequence without repetition is as long as it has elements.
LEMMA LengthIsCount ==
    ASSUME NEW S, NEW q \in Seq(S), IsInjective(q)
    PROVE  IsFiniteSet(ToSet(q)) /\ Cardinality(ToSet(q)) = Len(q)
<1>1. Len(q) \in Nat /\ DOMAIN q = 1..Len(q)
    OBVIOUS
<1>2. q \in Bijection(1..Len(q), ToSet(q))
    <2>1. q \in [1..Len(q) -> ToSet(q)]
        BY DEF ToSet
    <2>2. q \in Injection(1..Len(q), ToSet(q))
        BY <1>1, <2>1 DEF Injection, IsInjective
    <2>3. q \in Surjection(1..Len(q), ToSet(q))
        BY <1>1, <2>1 DEF Surjection, ToSet
    <2> QED BY <2>2, <2>3 DEF Bijection
<1>3. ExistsBijection(1..Len(q), ToSet(q))
    BY <1>2 DEF ExistsBijection
<1>4. IsFiniteSet(1..Len(q))
    BY <1>1, FS_Interval
<1> QED BY <1>1, <1>3, <1>4, FS_CountingElements, FS_Bijection

\* Along a walk, a set that keeps its successors is not left.
LEMMA StaysInside ==
    ASSUME NEW X, NEW n \in Nat, NEW p \in [0..n -> X], NEW m \in 0..n, NEW V,
           \A i \in 1..n : p[i - 1] \in V => p[i] \in V, p[m] \in V
    PROVE  p[n] \in V
<1> DEFINE Left == {i \in m..n : p[i] \notin V}
<1>1. CASE Left = {}
    BY <1>1
<1>2. CASE Left # {}
    <2>1. Left \in SUBSET Nat
        OBVIOUS
    <2>2. PICK i \in Left : \A k \in Left : i <= k
        <3> HIDE DEF Left
        <3> QED BY <1>2, <2>1, LeastNumber
    <2>3. i \in m..n /\ i # m /\ p[i] \notin V /\ i - 1 \in m..n /\ i \in 1..n
        OBVIOUS
    <2>4. p[i - 1] \in V
        <3>1. CASE i - 1 \in Left
            BY <2>2, <2>3, <3>1
        <3> QED BY <2>3, <3>1
    <2> QED BY <2>3, <2>4
<1> QED BY <1>1, <1>2

\* Along a walk whose every edge advances, the end is further than the start.
LEMMA Advances ==
    ASSUME NEW X, NEW n \in Nat \ {0}, NEW p \in [0..n -> X], NEW f \in [X -> Int],
           \A i \in 1..n : f[p[i - 1]] < f[p[i]]
    PROVE  f[p[0]] < f[p[n]]
<1> DEFINE V == {x \in X : f[p[0]] < f[x]}
<1>1. p[1] \in V
    OBVIOUS
<1>2. ASSUME NEW i \in 1..n, p[i - 1] \in V PROVE p[i] \in V
    <2>1. f[p[0]] \in Int /\ f[p[i - 1]] \in Int /\ f[p[i]] \in Int /\ p[i] \in X
        OBVIOUS
    <2>2. f[p[0]] < f[p[i - 1]] /\ f[p[i - 1]] < f[p[i]]
        BY <1>2
    <2> QED BY <2>1, <2>2
<1>3. p[n] \in V
    <2>1. n \in Nat /\ 1 \in 0..n
        OBVIOUS
    <2> HIDE DEF V
    <2> QED BY <1>1, <1>2, <2>1, StaysInside
<1> QED BY <1>3

\* A path that visits no node twice is shorter than the number of nodes.
LEMMA ChainIsShort ==
    ASSUME NEW S, IsFiniteSet(S), NEW n \in Nat, NEW p \in [0..n -> S], IsInjective(p)
    PROVE  n + 1 <= Cardinality(S)
<1>1. p \in Injection(0..n, S)
    BY DEF Injection, IsInjective
<1>2. IsFiniteSet(0..n) /\ Cardinality(0..n) = n + 1
    <2>1. Cardinality(0..n) = IF 0 > n THEN 0 ELSE n - 0 + 1
        BY FS_Interval
    <2> QED BY <2>1, FS_Interval
<1> QED BY <1>1, <1>2, FS_Injection

----------------------------------------------------------------------------
\* The listed edges to a node, from a finite set.
LEMMA EntriesFinite ==
    ASSUME NEW g, IsGraph(g), NEW S \in SUBSET Nodes(g), NEW b \in Nodes(g)
    PROVE  IsFiniteSet(Entries(g, S, b)) /\ Cardinality(Entries(g, S, b)) \in Nat
<1> DEFINE F == {{a} \X (1..g.edges[<<a, b>>]) : a \in S}
<1>1. IsFiniteSet(S)
    BY FS_Subset DEF IsGraph
<1>2. IsFiniteSet(F)
    <2> DEFINE f == [a \in S |-> {a} \X (1..g.edges[<<a, b>>])]
    <2>1. f \in Surjection(S, F)
        BY DEF Surjection
    <2> HIDE DEF f, F
    <2> QED BY <1>1, <2>1, FS_Surjection
<1>3. ASSUME NEW T \in F PROVE IsFiniteSet(T)
    <2>1. PICK a \in S : T = {a} \X (1..g.edges[<<a, b>>])
        OBVIOUS
    <2>2. g.edges[<<a, b>>] \in Nat
        BY DEF IsGraph
    <2>3. IsFiniteSet({a})
        BY FS_Singleton
    <2>4. IsFiniteSet(1..g.edges[<<a, b>>])
        BY <2>2, FS_Interval
    <2> QED BY <2>1, <2>3, <2>4, FS_Product
<1>4. IsFiniteSet(UNION F)
    <2> HIDE DEF F
    <2> QED BY <1>2, <1>3, FS_UNION
<1> QED BY <1>4, FS_CardinalityType DEF Entries

\* There are none exactly when no node of the set has an edge to it.
LEMMA EntriesZero ==
    ASSUME NEW g, IsGraph(g), NEW S \in SUBSET Nodes(g), NEW b \in Nodes(g)
    PROVE  Cardinality(Entries(g, S, b)) = 0 <=> \A a \in S : ~Edge(g, a, b)
<1>1. \A a \in S : g.edges[<<a, b>>] \in Nat
    BY DEF IsGraph
<1>2. Entries(g, S, b) = {} <=> \A a \in S : ~Edge(g, a, b)
    <2>1. ASSUME NEW a \in S, Edge(g, a, b) PROVE Entries(g, S, b) # {}
        <3>1. 1 \in 1..g.edges[<<a, b>>]
            BY <1>1, <2>1 DEF Edge
        <3>2. <<a, 1>> \in {a} \X (1..g.edges[<<a, b>>])
            BY <3>1
        <3> QED BY <3>2 DEF Entries
    <2>2. ASSUME NEW e \in Entries(g, S, b) PROVE \E a \in S : Edge(g, a, b)
        <3>1. PICK a \in S : e \in {a} \X (1..g.edges[<<a, b>>])
            BY DEF Entries
        <3>2. g.edges[<<a, b>>] > 0
            BY <1>1, <3>1
        <3> QED BY <3>2 DEF Edge
    <2> QED BY <2>1, <2>2
<1> QED BY <1>2, EntriesFinite, FS_EmptySet

\* Taking a node out takes off as many as its edge is listed.
LEMMA EntriesLess ==
    ASSUME NEW g, IsGraph(g), NEW S \in SUBSET Nodes(g), NEW b \in Nodes(g), NEW a \in S
    PROVE  Cardinality(Entries(g, S \ {a}, b)) = Cardinality(Entries(g, S, b)) - g.edges[<<a, b>>]
<1> DEFINE M == {a} \X (1..g.edges[<<a, b>>])
           R == Entries(g, S \ {a}, b)
<1>1. g.edges[<<a, b>>] \in Nat
    BY DEF IsGraph
<1>2. IsFiniteSet(M) /\ Cardinality(M) = g.edges[<<a, b>>]
    <2>1. PICK e \in Nat : e = g.edges[<<a, b>>]
        BY <1>1
    <2>2. IsFiniteSet({a}) /\ Cardinality({a}) = 1
        BY FS_Singleton
    <2>6. IsFiniteSet(1..e)
        BY FS_Interval
    <2>3. Cardinality(1..e) = IF 1 > e THEN 0 ELSE e - 1 + 1
        BY FS_Interval
    <2>4. Cardinality(1..e) = e
        BY <2>3
    <2>5. /\ IsFiniteSet({a} \X (1..e))
          /\ Cardinality({a} \X (1..e)) = Cardinality({a}) * Cardinality(1..e)
        BY <2>2, <2>6, FS_Product
    <2>7. Cardinality({a} \X (1..e)) = 1 * e
        BY <2>2, <2>4, <2>5
    <2>8. Cardinality({a} \X (1..e)) = e
        BY <2>7
    <2> QED BY <2>1, <2>5, <2>8
<1>3. IsFiniteSet(R) /\ Cardinality(R) \in Nat
    BY EntriesFinite
<1>4. Entries(g, S, b) = R \cup M
    <2>1. ASSUME NEW x \in Entries(g, S, b) PROVE x \in R \cup M
        <3>1. PICK c \in S : x \in {c} \X (1..g.edges[<<c, b>>])
            BY DEF Entries
        <3>2. CASE c = a
            BY <3>1, <3>2
        <3>3. CASE c # a
            BY <3>1, <3>3 DEF Entries
        <3> QED BY <3>2, <3>3
    <2>2. ASSUME NEW x \in R PROVE x \in Entries(g, S, b)
        <3>1. PICK c \in S \ {a} : x \in {c} \X (1..g.edges[<<c, b>>])
            BY DEF Entries
        <3> QED BY <3>1 DEF Entries
    <2>3. ASSUME NEW x \in M PROVE x \in Entries(g, S, b)
        BY DEF Entries
    <2> HIDE DEF R, M
    <2> QED BY <2>1, <2>2, <2>3
<1>5. R \cap M = {}
    <2> SUFFICES ASSUME NEW x \in R, x \in M PROVE FALSE
        OBVIOUS
    <2>1. PICK c \in S \ {a} : x \in {c} \X (1..g.edges[<<c, b>>])
        BY DEF Entries
    <2>2. x[1] = c /\ x[1] = a
        BY <2>1
    <2> QED BY <2>1, <2>2
<1>6. Cardinality(R \cap M) = 0
    BY <1>5, FS_EmptySet
<1> HIDE DEF M, R
<1>7. Cardinality(R \cup M) = Cardinality(R) + Cardinality(M) - Cardinality(R \cap M)
    BY <1>2, <1>3, FS_Union
<1>8. PICK r \in Nat, e \in Nat : r = Cardinality(R) /\ e = g.edges[<<a, b>>]
    BY <1>1, <1>3
<1>9. Cardinality(Entries(g, S, b)) = r + e - 0
    BY <1>2, <1>4, <1>6, <1>7, <1>8
<1>10. r = (r + e - 0) - e
    BY <1>8
<1> QED BY <1>8, <1>9, <1>10 DEF R
----------------------------------------------------------------------------
\* Where every node of a set has a predecessor in it, every node of it is on a cycle
\* or behind one: a longest path that ends there cannot be made longer.
LEMMA CycleBehind ==
    ASSUME NEW g, IsGraph(g), NEW T \in SUBSET Nodes(g), NEW k \in T,
           \A x \in T : \E y \in T : Edge(g, y, x)
    PROVE  \E c \in T : Path(g, c, c) /\ (c = k \/ Path(g, c, k))
<1>0. IsFiniteSet(Nodes(g)) /\ IsFiniteSet(T) /\ Cardinality(T) \in Nat
      /\ Cardinality(Nodes(g)) \in Nat /\ Cardinality(T) <= Cardinality(Nodes(g))
    BY FS_Subset, FS_CardinalityType DEF IsGraph
<1>1. PICK N \in Nat, M \in Nat : N = Cardinality(Nodes(g)) /\ M = Cardinality(T) /\ M <= N
    BY <1>0
<1> DEFINE Short(n) == \E p \in [0..n -> T] :
              IsInjective(p) /\ p[n] = k /\ \A i \in 1..n : Edge(g, p[i - 1], p[i])
           Room == {r \in Nat : r <= M /\ Short(M - r)}
<1>2. ASSUME NEW n \in Nat, Short(n) PROVE n + 1 <= M
    BY <1>0, <1>1, <1>2, ChainIsShort
<1>3. Short(0)
    <2> DEFINE p == [i \in 0..0 |-> k]
    <2>1. p \in [0..0 -> T] /\ IsInjective(p) /\ p[0] = k
        BY DEF IsInjective
    <2> HIDE DEF p
    <2> QED BY <2>1
<1>4. M \in Room
    <2>1. M \in Nat /\ M <= M /\ M - M = 0
        BY <1>1
    <2> HIDE DEF Short
    <2> QED BY <1>3, <2>1
<1>5. PICK r \in Room : \A q \in Room : r <= q
    <2>1. Room \in SUBSET Nat /\ Room # {}
        BY <1>4
    <2> HIDE DEF Room
    <2> QED BY <2>1, LeastNumber
<1>6. PICK n \in Nat : n = M - r
    OBVIOUS
<1>7. Short(n) /\ n + 1 <= M /\ n + r = M /\ r \in Nat
    <2>1. Short(n) /\ n + r = M /\ r \in Nat
        BY <1>6
    <2> HIDE DEF Short
    <2> QED BY <1>2, <2>1
<1>8. PICK p \in [0..n -> T] :
         IsInjective(p) /\ p[n] = k /\ \A i \in 1..n : Edge(g, p[i - 1], p[i])
    BY <1>7
<1>9. p[0] \in T
    OBVIOUS
<1>10. PICK y \in T : Edge(g, y, p[0])
    BY <1>9
<1>11. \E j \in 0..n : p[j] = y
    <2> SUFFICES ASSUME \A j \in 0..n : p[j] # y PROVE FALSE
        OBVIOUS
    <2> DEFINE q == [i \in 0..(n + 1) |-> IF i = 0 THEN y ELSE p[i - 1]]
    <2>1. q \in [0..(n + 1) -> T] /\ q[n + 1] = k /\ q[0] = y
        BY <1>8
    <2>2. \A i \in 1..(n + 1) : q[i] = p[i - 1] /\ i - 1 \in 0..n
        OBVIOUS
    <2>3. IsInjective(q)
        <3> SUFFICES ASSUME NEW i \in 0..(n + 1), NEW j \in 0..(n + 1), q[i] = q[j] PROVE i = j
            BY DEF IsInjective
        <3>1. CASE i = 0 /\ j # 0
            BY <2>1, <2>2, <3>1
        <3>2. CASE i # 0 /\ j = 0
            BY <2>1, <2>2, <3>2
        <3>3. CASE i # 0 /\ j # 0
            <4>1. p[i - 1] = p[j - 1] /\ i - 1 \in 0..n /\ j - 1 \in 0..n
                BY <2>2, <3>3
            <4>2. i - 1 = j - 1
                BY <1>8, <4>1 DEF IsInjective
            <4> QED BY <4>2
        <3> QED BY <3>1, <3>2, <3>3
    <2>4. ASSUME NEW i \in 1..(n + 1) PROVE Edge(g, q[i - 1], q[i])
        <3>1. CASE i = 1
            BY <1>10, <2>1, <2>2, <3>1
        <3>2. CASE i # 1
            <4>1. i - 1 \in 1..n /\ i - 1 \in 1..(n + 1) /\ q[i - 1] = p[(i - 1) - 1]
                BY <2>2, <3>2
            <4>2. Edge(g, p[(i - 1) - 1], p[i - 1])
                BY <1>8, <4>1
            <4> QED BY <2>2, <4>1, <4>2
        <3> QED BY <3>1, <3>2
    <2> HIDE DEF q
    <2>5. Short(n + 1)
        BY <2>1, <2>3, <2>4
    <2>6. r - 1 \in Nat /\ r - 1 <= M /\ M - (r - 1) = n + 1
        BY <1>6, <1>7
    <2>7. r - 1 \in Room
        <3> HIDE DEF Short
        <3> QED BY <2>5, <2>6
    <2>8. r <= r - 1
        <3> HIDE DEF Room
        <3> QED BY <1>5, <2>7
    <2> QED BY <1>7, <2>8
<1>12. PICK j \in 0..n : p[j] = y
    BY <1>11
<1>13. Path(g, p[0], p[0])
    <2> DEFINE q == [i \in 0..(j + 1) |-> IF i = j + 1 THEN p[0] ELSE p[i]]
    <2>1. j + 1 \in 1..N
        BY <1>1, <1>7
    <2>2. q \in [0..(j + 1) -> Nodes(g)] /\ q[0] = p[0] /\ q[j + 1] = p[0]
        OBVIOUS
    <2>3. \A i \in 0..j : q[i] = p[i]
        OBVIOUS
    <2>4. ASSUME NEW i \in 1..(j + 1) PROVE Edge(g, q[i - 1], q[i])
        <3>1. CASE i = j + 1
            BY <1>10, <1>12, <2>2, <2>3, <3>1
        <3>2. CASE i # j + 1
            <4>1. i \in 1..n /\ i \in 0..j /\ i - 1 \in 0..j
                BY <3>2
            <4> QED BY <1>8, <2>3, <4>1
        <3> QED BY <3>1, <3>2
    <2> HIDE DEF q
    <2> QED BY <1>1, <2>1, <2>2, <2>4 DEF Path
<1>14. p[0] = k \/ Path(g, p[0], k)
    <2>1. CASE n = 0
        BY <1>8, <2>1
    <2>2. CASE n # 0
        <3>1. n \in 1..N
            BY <1>1, <1>7, <2>2
        <3>2. p \in [0..n -> Nodes(g)]
            OBVIOUS
        <3> QED BY <1>1, <1>8, <3>1, <3>2 DEF Path
    <2> QED BY <2>1, <2>2
<1> QED BY <1>9, <1>13, <1>14

\* An order in which every node follows all its predecessors, and which is left out
\* of only by nodes that have a predecessor left out, is topological.
LEMMA SortedIsTopological ==
    ASSUME ValidatorInv, queue = <<>>
    PROVE  OrderIsTopological
<1> DEFINE S == ToSet(order)
           G == Nodes(input)
<1>0. IsGraph(input) /\ order \in Seq(G) /\ Len(order) \in Nat /\ DOMAIN order = 1..Len(order)
    BY GraphAssumption DEF ValidatorInv, SortInv
<1>1. IsInjective(order) /\ S = {k \in G : indegree[k] = 0} /\ S \subseteq G
    <2>1. order \o queue = order
        BY <1>0
    <2> QED BY <2>1 DEF ValidatorInv, SortInv
<1>2. \A j \in DOMAIN order, a \in G : Edge(input, a, order[j]) => \E i \in 1..(j - 1) : order[i] = a
    BY DEF ValidatorInv, SortInv
<1>3. ASSUME NEW i \in DOMAIN order, NEW j \in DOMAIN order, Edge(input, order[i], order[j])
      PROVE  i < j
    <2>1. order[i] \in G
        BY <1>0
    <2>2. PICK h \in 1..(j - 1) : order[h] = order[i]
        BY <1>2, <1>3, <2>1
    <2>3. h = i
        BY <1>0, <1>1, <2>2 DEF IsInjective
    <2> QED BY <1>0, <2>2, <2>3
<1>4. ASSUME NEW k \in G, k \notin S
      PROVE  \E c \in G : Path(input, c, c) /\ (c = k \/ Path(input, c, k))
    <2>1. ASSUME NEW x \in G \ S PROVE \E y \in G \ S : Edge(input, y, x)
        <3>1. indegree[x] # 0 /\ indegree[x] = Cardinality(Entries(input, G \ S, x))
            BY <1>1, <2>1 DEF ValidatorInv, SortInv
        <3>2. G \ S \in SUBSET Nodes(input) /\ x \in Nodes(input)
            BY <2>1
        <3> HIDE DEF S, G
        <3> QED BY <1>0, <3>1, <3>2, EntriesZero
    <2>2. G \ S \in SUBSET Nodes(input) /\ k \in G \ S
        BY <1>4
    <2>3. PICK c \in G \ S : Path(input, c, c) /\ (c = k \/ Path(input, c, k))
        <3> HIDE DEF S, G
        <3> QED BY <1>0, <2>1, <2>2, CycleBehind
    <2> QED BY <2>3
<1>5. ASSUME NEW k \in S, NEW c \in G, Path(input, c, c), c = k \/ Path(input, c, k)
      PROVE  FALSE
    <2> DEFINE V == G \ S
    <2>1. ASSUME NEW x \in V, NEW y \in G, Edge(input, x, y) PROVE y \in V
        <3> SUFFICES ASSUME y \in S PROVE FALSE
            OBVIOUS
        <3>1. PICK j \in DOMAIN order : order[j] = y
            BY DEF ToSet
        <3>2. PICK i \in 1..(j - 1) : order[i] = x
            BY <1>2, <2>1, <3>1
        <3>3. i \in DOMAIN order
            BY <1>0, <3>1, <3>2
        <3> QED BY <3>2, <3>3 DEF ToSet
    <2>2. ASSUME NEW n \in Nat, NEW p \in [0..n -> G], NEW m \in 0..n,
                 \A i \in 1..n : Edge(input, p[i - 1], p[i]), p[n] \in S
          PROVE  p[m] \in S
        <3> SUFFICES ASSUME p[m] \notin S PROVE FALSE
            OBVIOUS
        <3>1. p[m] \in V
            OBVIOUS
        <3>2. \A i \in 1..n : p[i - 1] \in V => p[i] \in V
            BY <2>1, <2>2
        <3>3. p[n] \in V
            <4> HIDE DEF V, S, G
            <4> QED BY <3>1, <3>2, StaysInside
        <3> QED BY <2>2, <3>3
    <2>3. c \in S
        <3>1. CASE c = k
            BY <3>1
        <3>2. CASE Path(input, c, k)
            <4>0. PICK n \in 1..Cardinality(Nodes(input)) : \E p \in [0..n -> G] :
                     p[0] = c /\ p[n] = k /\ \A i \in 1..n : Edge(input, p[i - 1], p[i])
                BY <3>2 DEF Path
            <4>1. PICK p \in [0..n -> G] :
                     p[0] = c /\ p[n] = k /\ \A i \in 1..n : Edge(input, p[i - 1], p[i])
                BY <4>0
            <4>2. n \in Nat /\ 0 \in 0..n
                OBVIOUS
            <4> QED BY <2>2, <4>1, <4>2
        <3> QED BY <1>5, <3>1, <3>2
    <2>0. PICK n \in 1..Cardinality(Nodes(input)) : \E p \in [0..n -> G] :
             p[0] = c /\ p[n] = c /\ \A i \in 1..n : Edge(input, p[i - 1], p[i])
        BY <1>5 DEF Path
    <2>4. PICK p \in [0..n -> G] :
             p[0] = c /\ p[n] = c /\ \A i \in 1..n : Edge(input, p[i - 1], p[i])
        BY <2>0
    <2>5. n \in Nat \ {0} /\ n \in Nat
        OBVIOUS
    <2>6. \A m \in 0..n : p[m] \in S
        BY <2>2, <2>3, <2>4, <2>5
    <2>7. p \in [0..n -> S]
        BY <2>6
    <2> DEFINE pos == [x \in S |-> CHOOSE i \in DOMAIN order : order[i] = x]
    <2>8. \A x \in S : pos[x] \in DOMAIN order /\ order[pos[x]] = x
        BY DEF ToSet
    <2>9. pos \in [S -> Int]
        BY <1>0, <2>8
    <2>10. ASSUME NEW i \in 1..n PROVE pos[p[i - 1]] < pos[p[i]]
        <3>1. p[i - 1] \in S /\ p[i] \in S /\ Edge(input, p[i - 1], p[i])
            BY <2>4, <2>5, <2>6
        <3> HIDE DEF pos, S
        <3> QED BY <1>3, <2>8, <3>1
    <2>11. pos[c] < pos[c]
        <3> HIDE DEF pos, S, G
        <3>1. pos[p[0]] < pos[p[n]]
            BY <2>5, <2>7, <2>9, <2>10, Advances
        <3> QED BY <2>4, <3>1
    <2> QED
        <3> HIDE DEF pos, S
        <3> QED BY <2>3, <2>9, <2>11
<1>6. S = {k \in G : \A c \in G : Path(input, c, c) => c # k /\ ~Path(input, c, k)}
    <2> HIDE DEF S, G
    <2> QED BY <1>1, <1>4, <1>5
<1> QED BY <1>3, <1>6 DEF OrderIsTopological

\* A graph without a static error: its stages advance along every path.
LEMMA StagesAdvance ==
    ASSUME NEW g, IsGraph(g), StaticErrors(g) = {},
           NEW a \in Nodes(g), NEW b \in Nodes(g), Path(g, a, b)
    PROVE  Rank[g.types[a]] < Rank[g.types[b]] /\ Rank[g.types[a]] \in Int
<1> DEFINE typed == {k \in Nodes(g) : g.types[k] \in DOMAIN Rank}
<1>1. typed = Nodes(g)
    BY Zenon DEF StaticErrors
<1>2. \A x, y \in typed : Edge(g, x, y) => ~(Rank[g.types[y]] <= Rank[g.types[x]])
    BY Zenon DEF StaticErrors
<1>3. ASSUME NEW t \in DOMAIN Rank PROVE Rank[t] \in Int
    <2>1. DOMAIN Rank = ToSet(NODE_TYPES)
        BY DEF Rank
    <2>2. \E i \in DOMAIN NODE_TYPES : NODE_TYPES[i] = t
        BY <2>1 DEF ToSet
    <2>3. Rank[t] \in DOMAIN NODE_TYPES
        BY <2>1, <2>2 DEF Rank
    <2>4. DOMAIN NODE_TYPES = 1..7
        BY DEF NODE_TYPES
    <2> QED BY <2>3, <2>4
<1> DEFINE f == [k \in Nodes(g) |-> Rank[g.types[k]]]
<1>4. f \in [Nodes(g) -> Int] /\ \A k \in Nodes(g) : f[k] = Rank[g.types[k]]
    BY <1>1, <1>3
<1>5. \A x, y \in Nodes(g) : Edge(g, x, y) => f[x] < f[y]
    <2>1. \A x \in Nodes(g) : f[x] \in Int
        BY <1>4
    <2> HIDE DEF f
    <2> QED BY <1>1, <1>2, <1>4, <2>1
<1> HIDE DEF f
<1>0. PICK n \in 1..Cardinality(Nodes(g)) : \E p \in [0..n -> Nodes(g)] :
         p[0] = a /\ p[n] = b /\ \A i \in 1..n : Edge(g, p[i - 1], p[i])
    BY DEF Path
<1>6. PICK p \in [0..n -> Nodes(g)] :
         p[0] = a /\ p[n] = b /\ \A i \in 1..n : Edge(g, p[i - 1], p[i])
    BY <1>0
<1>7. n \in Nat \ {0} /\ \A i \in 1..n : f[p[i - 1]] < f[p[i]]
    BY <1>5, <1>6
<1>8. f[p[0]] < f[p[n]]
    BY <1>4, <1>7, Advances
<1> QED BY <1>4, <1>6, <1>8

----------------------------------------------------------------------------
\* Elements of a concatenation.
LEMMA ConcatSet ==
    ASSUME NEW X, NEW a \in Seq(X), NEW b \in Seq(X)
    PROVE  ToSet(a \o b) = ToSet(a) \cup ToSet(b)
<1>1. /\ Len(a) \in Nat /\ Len(b) \in Nat /\ DOMAIN (a \o b) = 1..(Len(a) + Len(b))
      /\ \A i \in 1..Len(a) : (a \o b)[i] = a[i]
      /\ \A i \in 1..Len(b) : (a \o b)[Len(a) + i] = b[i]
      /\ DOMAIN a = 1..Len(a) /\ DOMAIN b = 1..Len(b)
    OBVIOUS
<1>2. ASSUME NEW x \in ToSet(a \o b) PROVE x \in ToSet(a) \cup ToSet(b)
    <2>1. PICK i \in 1..(Len(a) + Len(b)) : (a \o b)[i] = x
        BY <1>1 DEF ToSet
    <2>2. CASE i <= Len(a)
        BY <1>1, <2>1, <2>2 DEF ToSet
    <2>3. CASE ~(i <= Len(a))
        <3>1. i - Len(a) \in 1..Len(b) /\ Len(a) + (i - Len(a)) = i
            BY <1>1, <2>1, <2>3
        <3>2. b[i - Len(a)] = x
            BY <1>1, <2>1, <3>1
        <3> QED BY <1>1, <3>1, <3>2 DEF ToSet
    <2> QED BY <2>2, <2>3
<1>3. ASSUME NEW x \in ToSet(a) PROVE x \in ToSet(a \o b)
    <2>1. PICK i \in 1..Len(a) : a[i] = x
        BY <1>1 DEF ToSet
    <2>2. i \in DOMAIN (a \o b) /\ (a \o b)[i] = x
        BY <1>1, <2>1
    <2> QED BY <2>2 DEF ToSet
<1>4. ASSUME NEW x \in ToSet(b) PROVE x \in ToSet(a \o b)
    <2>1. PICK i \in 1..Len(b) : b[i] = x
        BY <1>1 DEF ToSet
    <2>2. Len(a) + i \in DOMAIN (a \o b) /\ (a \o b)[Len(a) + i] = x
        BY <1>1, <2>1
    <2> QED BY <2>2 DEF ToSet
<1> QED BY <1>2, <1>3, <1>4

\* It has no repetition when its parts have none and nothing in common.
LEMMA ConcatInjective ==
    ASSUME NEW X, NEW a \in Seq(X), NEW b \in Seq(X), IsInjective(a), IsInjective(b),
           ToSet(a) \cap ToSet(b) = {}
    PROVE  IsInjective(a \o b)
<1> SUFFICES ASSUME NEW i \in DOMAIN (a \o b), NEW j \in DOMAIN (a \o b), (a \o b)[i] = (a \o b)[j]
             PROVE  i = j
    BY DEF IsInjective
<1>1. PICK la \in Nat, lb \in Nat : la = Len(a) /\ lb = Len(b)
    OBVIOUS
<1>2. DOMAIN (a \o b) = 1..(la + lb) /\ DOMAIN a = 1..la /\ DOMAIN b = 1..lb
    BY <1>1
<1>3. ASSUME NEW h \in 1..(la + lb), h <= la PROVE h \in DOMAIN a /\ (a \o b)[h] = a[h]
    BY <1>1, <1>2, <1>3
<1>4. ASSUME NEW h \in 1..(la + lb), ~(h <= la)
      PROVE  h - la \in DOMAIN b /\ (a \o b)[h] = b[h - la]
    BY <1>1, <1>2, <1>4
<1>5. CASE i <= la /\ j <= la
    BY <1>2, <1>3, <1>5 DEF IsInjective
<1>6. CASE ~(i <= la) /\ ~(j <= la)
    <2>1. i - la = j - la
        BY <1>2, <1>4, <1>6 DEF IsInjective
    <2> QED BY <1>2, <2>1
<1>7. CASE i <= la /\ ~(j <= la)
    <2>1. a[i] \in ToSet(a) /\ b[j - la] \in ToSet(b)
        BY <1>2, <1>3, <1>4, <1>7 DEF ToSet
    <2>2. a[i] = b[j - la]
        BY <1>2, <1>3, <1>4, <1>7
    <2> QED BY <2>1, <2>2
<1>8. CASE ~(i <= la) /\ j <= la
    <2>1. a[j] \in ToSet(a) /\ b[i - la] \in ToSet(b)
        BY <1>2, <1>3, <1>4, <1>8 DEF ToSet
    <2>2. a[j] = b[i - la]
        BY <1>2, <1>3, <1>4, <1>8
    <2> QED BY <2>1, <2>2
<1> QED BY <1>5, <1>6, <1>7, <1>8

\* Moving the head of a queue to the end of what came before it.
LEMMA HeadMoves ==
    ASSUME NEW X, NEW a \in Seq(X), NEW q \in Seq(X), q # <<>>, NEW f \in Seq(X)
    PROVE  Append(a, Head(q)) \o (Tail(q) \o f) = (a \o q) \o f
<1>1. q = <<Head(q)>> \o Tail(q) /\ Head(q) \in X /\ Tail(q) \in Seq(X)
    OBVIOUS
<1>2. PICK h \in X, t \in Seq(X) : h = Head(q) /\ t = Tail(q)
    BY <1>1
<1>3. q = <<h>> \o t
    BY <1>1, <1>2
<1>4. Append(a, h) \o (t \o f) = (a \o (<<h>> \o t)) \o f
    BY SMTT(60)
<1> QED BY <1>2, <1>3, <1>4

\* The start of the sort.
LEMMA ValidatorStart == ValidatorInit => ValidatorInv
<1> SUFFICES ASSUME ValidatorInit PROVE ValidatorInv
    OBVIOUS
<1> DEFINE G == Nodes(input)
           Z == {k \in G : indegree[k] = 0}
<1>0. input \in Inputs /\ IsGraph(input) /\ IsFiniteSet(G)
    BY GraphAssumption DEF ValidatorInit, IsGraph
<1>1. queue \in SetToSeqs(Z) /\ order = <<>> /\ indegree = Indegree(input)
    BY DEF ValidatorInit
<1>2. queue \in Seq(Z) /\ IsInjective(queue) /\ ToSet(queue) = Z
    <2>1. IsFiniteSet(Z)
        BY <1>0, FS_Subset
    <2> HIDE DEF Z
    <2> QED BY <1>1, <2>1, Listing
<1>3. queue \in Seq(G) /\ order \in Seq(G) /\ order \o queue = queue /\ ToSet(order) = {} /\ DOMAIN order = {}
    <2>1. queue \in Seq(G)
        BY <1>2
    <2>2. order \in Seq(G) /\ DOMAIN order = {}
        BY <1>1
    <2>3. ToSet(order) = {}
        BY <2>2 DEF ToSet
    <2> QED BY <1>1, <2>1, <2>2, <2>3
<1>4. G \ ToSet(order) = G
    BY <1>3
<1>5. /\ indegree \in [G -> Nat]
      /\ \A k \in G : indegree[k] = Cardinality(Entries(input, G \ ToSet(order), k))
    BY <1>0, <1>1, <1>4, EntriesFinite DEF Indegree
<1>6. SortInv
    <2> HIDE DEF Z
    <2>1. ToSet(order \o queue) = Z
        BY <1>2, <1>3
    <2> QED BY <1>2, <1>3, <1>5, <2>1 DEF SortInv, Z
<1> QED BY <1>0, <1>6 DEF ValidatorInit, ValidatorInv

\* One node of the sort.
LEMMA VisitKeeps ==
    ASSUME ValidatorInv, Visit
    PROVE  ValidatorInv'
<1> DEFINE G == Nodes(input)
<1>0. input \in Inputs /\ IsGraph(input) /\ IsFiniteSet(G)
    BY GraphAssumption DEF ValidatorInv, IsGraph
<1>1. PICK node, left : node = Head(queue) /\ left = [k \in G |-> indegree[k] - input.edges[<<node, k>>]]
    OBVIOUS
<1> DEFINE F == {k \in G : indegree[k] > 0 /\ left[k] = 0}
<1>2. /\ phase = "sort" /\ queue # <<>> /\ indegree' = left /\ order' = Append(order, node)
      /\ UNCHANGED <<input, errors, stack, reached, phase>>
    BY <1>1 DEF Visit
<1>3. PICK free \in SetToSeqs(F) : queue' = Tail(queue) \o free
    BY <1>1 DEF Visit
<1>4. free \in Seq(F) /\ IsInjective(free) /\ ToSet(free) = F
    <2>1. IsFiniteSet(F)
        BY <1>0, FS_Subset
    <2> HIDE DEF F
    <2> QED BY <2>1, Listing
<1>5. free \in Seq(G)
    BY <1>4
<1>6. /\ order \in Seq(G) /\ queue \in Seq(G) /\ IsInjective(order \o queue)
      /\ \A k \in G : indegree[k] = Cardinality(Entries(input, G \ ToSet(order), k))
      /\ ToSet(order \o queue) = {k \in G : indegree[k] = 0}
      /\ \A j \in DOMAIN order, a \in G :
            Edge(input, a, order[j]) => \E i \in 1..(j - 1) : order[i] = a
    BY DEF ValidatorInv, SortInv
<1>7. order' \o queue' = (order \o queue) \o free /\ order' \in Seq(G) /\ queue' \in Seq(G)
    <2>1. order' \o queue' = (order \o queue) \o free
        <3>1. order \in Seq(G) /\ queue \in Seq(G) /\ queue # <<>> /\ free \in Seq(G)
            BY <1>2, <1>5, <1>6
        <3> HIDE DEF G, F
        <3>2. Append(order, Head(queue)) \o (Tail(queue) \o free) = (order \o queue) \o free
            BY <3>1, HeadMoves, SMTT(60)
        <3> QED BY <1>1, <1>2, <1>3, <3>2
    <2>2. order \in Seq(G) /\ node \in G /\ Tail(queue) \in Seq(G) /\ free \in Seq(G)
        BY <1>1, <1>2, <1>5, <1>6
    <2>3. order' \in Seq(G)
        BY <1>2, <2>2
    <2>4. queue' \in Seq(G)
        BY <1>3, <2>2
    <2> QED BY <2>1, <2>3, <2>4
<1>8. node \in G /\ node \in ToSet(order \o queue) /\ node \notin ToSet(order) /\ indegree[node] = 0
    <2>1. PICK n \in Nat : n = Len(order)
        BY <1>6
    <2>2. n + 1 \in DOMAIN (order \o queue) /\ (order \o queue)[n + 1] = node
        BY <1>1, <1>2, <1>6, <2>1
    <2>3. ASSUME node \in ToSet(order) PROVE FALSE
        <3>1. PICK i \in 1..n : order[i] = node
            BY <1>6, <2>1, <2>3 DEF ToSet
        <3>2. i \in DOMAIN (order \o queue) /\ (order \o queue)[i] = node
            BY <1>6, <2>1, <3>1
        <3>3. i = n + 1
            BY <1>6, <2>2, <3>2 DEF IsInjective
        <3> QED BY <3>1, <3>3
    <2>4. node \in ToSet(order \o queue)
        BY <2>2 DEF ToSet
    <2> QED BY <1>6, <2>3, <2>4
<1>9. ToSet(order') = ToSet(order) \cup {node}
    <2>1. order' = order \o <<node>> /\ <<node>> \in Seq(G)
        BY <1>2, <1>6, <1>8
    <2>2. ToSet(<<node>>) = {node}
        BY DEF ToSet
    <2>3. order \in Seq(G)
        BY <1>6
    <2> HIDE DEF G
    <2>4. PICK x \in Seq(G) : x = <<node>>
        BY <2>1, Zenon
    <2>5. ToSet(order \o x) = ToSet(order) \cup ToSet(x)
        BY <2>3, ConcatSet
    <2> QED BY <2>1, <2>2, <2>4, <2>5, Zenon
<1>10. /\ \A k \in G : left[k] = Cardinality(Entries(input, G \ ToSet(order'), k)) /\ left[k] \in Nat
       /\ \A k \in G : left[k] = indegree[k] - input.edges[<<node, k>>]
       /\ \A k \in G : indegree[k] \in Nat /\ input.edges[<<node, k>>] \in Nat
    <2> SUFFICES ASSUME NEW k \in G
                 PROVE  /\ left[k] = Cardinality(Entries(input, G \ ToSet(order'), k)) /\ left[k] \in Nat
                        /\ left[k] = indegree[k] - input.edges[<<node, k>>]
                        /\ indegree[k] \in Nat /\ input.edges[<<node, k>>] \in Nat
        OBVIOUS
    <2>1. G \ ToSet(order') = (G \ ToSet(order)) \ {node} /\ node \in G \ ToSet(order)
        BY <1>8, <1>9
    <2>2. left[k] = indegree[k] - input.edges[<<node, k>>] /\ input.edges[<<node, k>>] \in Nat
        BY <1>0, <1>1, <1>8 DEF IsGraph
    <2>3. /\ G \ ToSet(order) \in SUBSET Nodes(input) /\ G \ ToSet(order') \in SUBSET Nodes(input)
          /\ k \in Nodes(input)
        OBVIOUS
    <2> HIDE DEF G
    <2>4. Cardinality(Entries(input, G \ ToSet(order'), k)) = indegree[k] - input.edges[<<node, k>>]
        <3>1. PICK U \in SUBSET Nodes(input) : U = G \ ToSet(order)
            BY <2>3
        <3>2. node \in U /\ G \ ToSet(order') = U \ {node}
            BY <2>1, <3>1
        <3>3. Cardinality(Entries(input, U \ {node}, k))
                 = Cardinality(Entries(input, U, k)) - input.edges[<<node, k>>]
            BY <1>0, <2>3, <3>2, EntriesLess
        <3>4. indegree[k] = Cardinality(Entries(input, U, k))
            BY <1>6, <3>1
        <3> QED BY <3>2, <3>3, <3>4
    <2>5. indegree[k] \in Nat /\ Cardinality(Entries(input, G \ ToSet(order'), k)) \in Nat
        BY <1>0, <1>6, <2>3, EntriesFinite
    <2> QED BY <2>2, <2>4, <2>5
<1>11. ToSet(order' \o queue') = {k \in G : left[k] = 0} /\ IsInjective(order' \o queue')
    <2>1. \A k \in G : left[k] = 0 <=> indegree[k] = 0 \/ (indegree[k] > 0 /\ left[k] = 0)
        <3> TAKE k \in G
        <3>1. PICK l \in Nat, d \in Nat, e \in Nat :
                 l = left[k] /\ d = indegree[k] /\ e = input.edges[<<node, k>>] /\ l = d - e
            BY <1>10
        <3> QED BY <3>1
    <2>2. ToSet(order \o queue) \cap F = {}
        BY <1>6
    <2>3. order \o queue \in Seq(G)
        BY <1>6
    <2>4. ToSet((order \o queue) \o free) = ToSet(order \o queue) \cup F
        <3> HIDE DEF G, F
        <3>1. PICK z \in Seq(G) : z = order \o queue
            BY <2>3
        <3>2. ToSet(z \o free) = ToSet(z) \cup ToSet(free)
            BY <1>5, ConcatSet
        <3> QED BY <1>4, <3>1, <3>2
    <2>5. IsInjective((order \o queue) \o free)
        <3> HIDE DEF G, F
        <3>1. PICK z \in Seq(G) : z = order \o queue
            BY <2>3
        <3>2. IsInjective(z) /\ IsInjective(free) /\ ToSet(z) \cap ToSet(free) = {}
            BY <1>4, <1>6, <2>2, <3>1
        <3>3. IsInjective(z \o free)
            BY <1>5, <3>2, ConcatInjective
        <3> QED BY <3>1, <3>3
    <2> QED BY <1>6, <1>7, <2>1, <2>4, <2>5
<1>12. ASSUME NEW j \in DOMAIN order', NEW a \in G, Edge(input, a, order'[j])
       PROVE  \E i \in 1..(j - 1) : order'[i] = a
    <2>1. PICK n \in Nat : n = Len(order) /\ DOMAIN order = 1..n /\ DOMAIN order' = 1..(n + 1)
        BY <1>2, <1>6
    <2>2. order'[n + 1] = node /\ \A i \in 1..n : order'[i] = order[i]
        BY <1>2, <1>6, <2>1
    <2>3. CASE j = n + 1
        <3>1. a \notin G \ ToSet(order)
            <4>1. G \ ToSet(order) \in SUBSET Nodes(input) /\ node \in Nodes(input) /\ Edge(input, a, node)
                BY <1>8, <1>12, <2>2, <2>3
            <4>2. Cardinality(Entries(input, G \ ToSet(order), node)) = 0
                BY <1>6, <1>8
            <4> HIDE DEF G
            <4> QED BY <1>0, <4>1, <4>2, EntriesZero
        <3>2. PICK i \in 1..n : order[i] = a
            BY <2>1, <3>1 DEF ToSet
        <3> QED BY <2>1, <2>2, <2>3, <3>2
    <2>4. CASE j # n + 1
        <3>1. j \in DOMAIN order /\ Edge(input, a, order[j])
            BY <1>12, <2>1, <2>2, <2>4
        <3>2. PICK i \in 1..(j - 1) : order[i] = a
            BY <1>6, <3>1
        <3>3. i \in 1..n
            BY <2>1, <3>1, <3>2
        <3> QED BY <2>2, <3>2, <3>3
    <2> QED BY <2>3, <2>4
<1>13. SortInv'
    <2>1. /\ order' \in Seq(Nodes(input')) /\ queue' \in Seq(Nodes(input')) /\ IsInjective(order' \o queue')
          /\ indegree' \in [Nodes(input') -> Nat]
        BY <1>1, <1>2, <1>7, <1>10, <1>11
    <2>2. \A k \in Nodes(input') :
             indegree'[k] = Cardinality(Entries(input', Nodes(input') \ ToSet(order'), k))
        BY <1>2, <1>10
    <2>3. ToSet(order' \o queue') = {k \in Nodes(input') : indegree'[k] = 0}
        BY <1>2, <1>11
    <2>4. \A j \in DOMAIN order', a \in Nodes(input') :
             Edge(input', a, order'[j]) => \E i \in 1..(j - 1) : order'[i] = a
        BY <1>2, <1>12
    <2> QED BY <2>1, <2>2, <2>3, <2>4 DEF SortInv
<1> QED BY <1>2, <1>13 DEF ValidatorInv

\* A path of the search still is one when more nodes are found,
LEMMA ChainWiden ==
    ASSUME NEW g, NEW S, NEW T, S \subseteq T, NEW n \in Nat, NEW a, NEW b, Chain(g, S, n, a, b)
    PROVE  Chain(g, T, n, a, b)
<1>1. PICK p \in [0..n -> S] :
         IsInjective(p) /\ p[0] = a /\ p[n] = b /\ \A i \in 1..n : Edge(g, p[i - 1], p[i])
    BY DEF Chain
<1>2. p \in [0..n -> T]
    OBVIOUS
<1> QED BY <1>1, <1>2 DEF Chain

\* and goes on to a node that was not found before.
LEMMA ChainGoesOn ==
    ASSUME NEW g, NEW S, NEW T, S \subseteq T, NEW n \in Nat, NEW a, NEW b, Chain(g, S, n, a, b),
           NEW k \in T \ S, Edge(g, b, k)
    PROVE  Chain(g, T, n + 1, a, k)
<1>1. PICK p \in [0..n -> S] :
         IsInjective(p) /\ p[0] = a /\ p[n] = b /\ \A i \in 1..n : Edge(g, p[i - 1], p[i])
    BY DEF Chain
<1> DEFINE q == [i \in 0..(n + 1) |-> IF i = n + 1 THEN k ELSE p[i]]
<1>2. q \in [0..(n + 1) -> T] /\ q[n + 1] = k /\ q[0] = a
    BY <1>1
<1>3. \A i \in 0..n : q[i] = p[i] /\ p[i] \in S
    OBVIOUS
<1>4. IsInjective(q)
    <2> SUFFICES ASSUME NEW i \in 0..(n + 1), NEW j \in 0..(n + 1), q[i] = q[j] PROVE i = j
        BY DEF IsInjective
    <2>1. CASE i \in 0..n /\ j \in 0..n
        BY <1>1, <1>3, <2>1 DEF IsInjective
    <2>2. CASE i \in 0..n /\ j = n + 1
        BY <1>2, <1>3, <2>2
    <2>3. CASE i = n + 1 /\ j \in 0..n
        BY <1>2, <1>3, <2>3
    <2> QED BY <2>1, <2>2, <2>3
<1>5. ASSUME NEW i \in 1..(n + 1) PROVE Edge(g, q[i - 1], q[i])
    <2>1. CASE i = n + 1
        BY <1>1, <1>2, <1>3, <2>1
    <2>2. CASE i # n + 1
        <3>1. i \in 1..n /\ i \in 0..n /\ i - 1 \in 0..n
            BY <2>2
        <3> QED BY <1>1, <1>3, <3>1
    <2> QED BY <2>1, <2>2
<1> HIDE DEF q
<1> QED BY <1>2, <1>4, <1>5 DEF Chain

\* The end of the sort.
LEMMA SortedKeeps ==
    ASSUME ValidatorInv, Sorted
    PROVE  ValidatorInv'
<1>0. input \in Inputs /\ IsGraph(input) /\ Cardinality(Nodes(input)) \in Nat
    BY GraphAssumption, FS_CardinalityType DEF ValidatorInv, IsGraph
<1>1. /\ phase = "sort" /\ queue = <<>> /\ UNCHANGED <<input, queue, indegree, order>>
      /\ errors' = errors \cup (IF Len(order) # Cardinality(Nodes(input)) THEN {"cycle"} ELSE {})
      /\ errors = StaticErrors(input) /\ stack = <<>> /\ reached = {} /\ SortInv
    BY DEF Sorted, ValidatorInv
<1>2. SortInv'
    BY <1>1 DEF SortInv
<1>3. CASE OfType(input, "source") = {} \/ order = <<>>
    <2>1. phase' = "done" /\ UNCHANGED <<stack, reached>>
        BY <1>3 DEF Sorted
    <2> QED BY <1>0, <1>1, <1>2, <1>3, <2>1 DEF ValidatorInv
<1>4. CASE ~(OfType(input, "source") = {} \/ order = <<>>)
    <2>1. phase' = "search"
        BY <1>4 DEF Sorted
    <2>2. PICK first \in OfType(input, "source") : stack' = <<first>> /\ reached' = {first}
        BY <1>4 DEF Sorted
    <2>3. Chain(input, {first}, 0, first, first)
        <3> DEFINE p == [i \in 0..0 |-> first]
        <3>1. p \in [0..0 -> {first}] /\ IsInjective(p) /\ p[0] = first
            BY DEF IsInjective
        <3> HIDE DEF p
        <3> QED BY <3>1 DEF Chain
    <2>4. ToSet(stack') = {first} /\ stack' \in Seq(reached') /\ first \in Nodes(input)
        BY <2>2 DEF ToSet, OfType
    <2>5. 0 \in 0..Cardinality(Nodes(input))
        BY <1>0
    <2>6. SearchFrom(first)'
        BY <1>1, <2>2, <2>3, <2>4, <2>5 DEF SearchFrom
    <2>7. first \in OfType(input', "source")
        BY <1>1
    <2>8. \E s \in OfType(input', "source") : SearchFrom(s)'
        BY <2>6, <2>7
    <2> QED BY <1>0, <1>1, <1>2, <2>1, <2>8 DEF ValidatorInv
<1> QED BY <1>3, <1>4

\* One node of the search: what it finds is one edge further.
LEMMA FoundFrom ==
    ASSUME ValidatorInv, NEW s, SearchFrom(s), stack # <<>>,
           NEW found, found = {k \in Nodes(input) : Edge(input, Last(stack), k)} \ reached,
           reached' = reached \cup found, NEW next \in SetToSeqs(found),
           stack' = Front(stack) \o next, UNCHANGED input
    PROVE  SearchFrom(s)'
<1>0. IsGraph(input) /\ IsFiniteSet(Nodes(input)) /\ Cardinality(Nodes(input)) \in Nat
    BY GraphAssumption, FS_CardinalityType DEF ValidatorInv, IsGraph
<1>1. found \subseteq Nodes(input) /\ IsFiniteSet(found) /\ reached' \subseteq Nodes(input)
    <2>1. found \subseteq Nodes(input)
        OBVIOUS
    <2> QED BY <1>0, <2>1, FS_Subset DEF SearchFrom
<1>2. next \in Seq(found) /\ ToSet(next) = found
    BY <1>1, Listing
<1>3. /\ stack \in Seq(reached) /\ Last(stack) \in reached /\ Front(stack) \in Seq(reached)
      /\ ToSet(stack) = ToSet(Front(stack)) \cup {Last(stack)}
    <2>1. stack \in Seq(reached)
        BY DEF SearchFrom
    <2>2. PICK n \in Nat : n + 1 = Len(stack)
        <3>1. Len(stack) \in Nat /\ Len(stack) # 0
            BY <2>1
        <3>2. Len(stack) - 1 \in Nat /\ Len(stack) - 1 + 1 = Len(stack)
            BY <3>1
        <3> QED BY <3>2
    <2>3. /\ Front(stack) \in Seq(reached) /\ Len(Front(stack)) = n
          /\ \A i \in 1..n : Front(stack)[i] = stack[i]
        BY <2>1, <2>2 DEF Front
    <2>4. Last(stack) = stack[n + 1] /\ DOMAIN stack = 1..(n + 1) /\ DOMAIN Front(stack) = 1..n
        BY <2>1, <2>2, <2>3 DEF Last
    <2>5. Last(stack) \in reached
        BY <2>1, <2>2, <2>4
    <2>6. ToSet(stack) = ToSet(Front(stack)) \cup {Last(stack)}
        <3>1. ASSUME NEW x \in ToSet(stack) PROVE x \in ToSet(Front(stack)) \cup {Last(stack)}
            <4>1. PICK i \in 1..(n + 1) : stack[i] = x
                BY <2>4 DEF ToSet
            <4>2. CASE i = n + 1
                BY <2>4, <4>1, <4>2
            <4>3. CASE i # n + 1
                <5>1. i \in 1..n
                    BY <4>3
                <5> QED BY <2>3, <2>4, <4>1, <5>1 DEF ToSet
            <4> QED BY <4>2, <4>3
        <3>2. ASSUME NEW x \in ToSet(Front(stack)) PROVE x \in ToSet(stack)
            <4>1. PICK i \in 1..n : Front(stack)[i] = x
                BY <2>4 DEF ToSet
            <4>2. i \in DOMAIN stack /\ stack[i] = x
                BY <2>3, <2>4, <4>1
            <4> QED BY <4>2 DEF ToSet
        <3>3. Last(stack) \in ToSet(stack)
            BY <2>4 DEF ToSet
        <3> QED BY <3>1, <3>2, <3>3
    <2> QED BY <2>1, <2>3, <2>5, <2>6
<1>4. stack' \in Seq(reached') /\ ToSet(stack') = ToSet(Front(stack)) \cup found
    <2>1. Front(stack) \in Seq(reached') /\ next \in Seq(reached')
        BY <1>2, <1>3
    <2>2. ToSet(Front(stack) \o next) = ToSet(Front(stack)) \cup ToSet(next)
        <3>1. PICK X : X = reached'
            OBVIOUS
        <3>2. Front(stack) \in Seq(X) /\ next \in Seq(X)
            BY <2>1, <3>1
        <3> QED BY <3>2, ConcatSet
    <2> QED BY <1>2, <2>1, <2>2
<1>5. ASSUME NEW x \in reached' \ ToSet(stack'), NEW k \in Nodes(input'), Edge(input', x, k)
      PROVE  k \in reached'
    <2>1. x \in reached /\ x \notin ToSet(Front(stack)) /\ k \in Nodes(input) /\ Edge(input, x, k)
        BY <1>4, <1>5
    <2>2. CASE x = Last(stack)
        BY <2>1, <2>2
    <2>3. CASE x # Last(stack)
        BY <1>3, <2>1, <2>3 DEF SearchFrom
    <2> QED BY <2>2, <2>3
<1>6. ASSUME NEW x \in reached'
      PROVE  \E n \in 0..Cardinality(Nodes(input)) : Chain(input, reached', n, s, x)
    <2>1. CASE x \in reached
        <3>1. PICK n \in 0..Cardinality(Nodes(input)) : Chain(input, reached, n, s, x)
            BY <2>1 DEF SearchFrom
        <3>2. n \in Nat /\ reached \subseteq reached'
            BY <1>0
        <3>3. Chain(input, reached', n, s, x)
            BY <3>1, <3>2, ChainWiden
        <3> QED BY <3>3
    <2>2. CASE x \notin reached
        <3>1. PICK n \in 0..Cardinality(Nodes(input)) : Chain(input, reached, n, s, Last(stack))
            BY <1>3 DEF SearchFrom
        <3>2. /\ n \in Nat /\ reached \subseteq reached' /\ x \in reached' \ reached
              /\ Edge(input, Last(stack), x)
            BY <1>0, <2>2
        <3>3. Chain(input, reached', n + 1, s, x)
            BY <3>1, <3>2, ChainGoesOn
        <3>4. n + 1 \in 0..Cardinality(Nodes(input))
            <4>1. PICK p \in [0..(n + 1) -> reached'] : IsInjective(p)
                BY <3>3 DEF Chain
            <4>2. p \in [0..(n + 1) -> Nodes(input)]
                BY <1>1
            <4>3. n + 1 \in Nat /\ (n + 1) + 1 <= Cardinality(Nodes(input))
                BY <1>0, <3>2, <4>1, <4>2, ChainIsShort
            <4> QED BY <1>0, <3>2, <4>3
        <3> QED BY <3>3, <3>4
    <2> QED BY <2>1, <2>2
<1>7. s \in reached'
    BY DEF SearchFrom
<1> QED BY <1>1, <1>4, <1>5, <1>6, <1>7 DEF SearchFrom

\* A step of the search.
LEMMA ReachKeeps ==
    ASSUME ValidatorInv, Reach
    PROVE  ValidatorInv'
<1>1. /\ phase = "search" /\ UNCHANGED <<input, errors, queue, indegree, order>>
      /\ input \in Inputs /\ SortInv /\ queue = <<>>
      /\ errors = StaticErrors(input) \cup
            (IF Len(order) # Cardinality(Nodes(input)) THEN {"cycle"} ELSE {})
      /\ \/ (OfType(input, "source") = {} \/ order = <<>>) /\ stack = <<>> /\ reached = {}
         \/ \E s \in OfType(input, "source") : SearchFrom(s)
    BY DEF Reach, ValidatorInv
<1>2. SortInv'
    BY <1>1 DEF SortInv
<1>3. CASE stack = <<>>
    <2>1. phase' = "done" /\ UNCHANGED <<stack, reached>>
        BY <1>3 DEF Reach
    <2>2. \A s : SearchFrom(s) => SearchFrom(s)'
        BY <1>1, <2>1 DEF SearchFrom
    <2> QED BY <1>1, <1>2, <1>3, <2>1, <2>2 DEF ValidatorInv
<1>4. CASE stack # <<>>
    <2>1. PICK s \in OfType(input, "source") : SearchFrom(s)
        BY <1>1, <1>4
    <2>2. PICK found : found = {k \in Nodes(input) : Edge(input, Last(stack), k)} \ reached
        OBVIOUS
    <2>3. reached' = reached \cup found /\ phase' = "search"
        BY <1>1, <1>4, <2>2 DEF Reach
    <2>4. PICK next \in SetToSeqs(found) : stack' = Front(stack) \o next
        BY <1>4, <2>2 DEF Reach
    <2>5. SearchFrom(s)'
        BY <1>1, <1>4, <2>1, <2>2, <2>3, <2>4, FoundFrom
    <2>6. \E t \in OfType(input', "source") : SearchFrom(t)'
        BY <1>1, <2>1, <2>5
    <2> QED BY <1>1, <1>2, <2>3, <2>6 DEF ValidatorInv
<1> QED BY <1>3, <1>4

\* A search that has ended has found exactly what the source reaches.
LEMMA SearchIsRight ==
    ASSUME ValidatorInv, phase = "done"
    PROVE  WarningIsRight
<1> SUFFICES ASSUME OfType(input, "source") # {}, order # <<>>
             PROVE  \E s \in OfType(input, "source") :
                       reached = {s} \cup {k \in Nodes(input) : Path(input, s, k)}
    BY DEF WarningIsRight
<1>0. IsGraph(input) /\ Cardinality(Nodes(input)) \in Nat /\ stack = <<>> /\ ToSet(stack) = {}
    <2>1. input \in Inputs /\ stack = <<>>
        BY DEF ValidatorInv
    <2>2. ToSet(stack) = {}
        BY <2>1 DEF ToSet
    <2> QED BY <2>1, <2>2, GraphAssumption, FS_CardinalityType DEF IsGraph
<1>1. PICK s \in OfType(input, "source") : SearchFrom(s)
    BY DEF ValidatorInv
<1>2. ASSUME NEW x \in reached, x # s PROVE Path(input, s, x)
    <2>1. PICK n \in 0..Cardinality(Nodes(input)) : Chain(input, reached, n, s, x)
        BY <1>1 DEF SearchFrom
    <2>2. PICK p \in [0..n -> reached] :
             p[0] = s /\ p[n] = x /\ \A i \in 1..n : Edge(input, p[i - 1], p[i])
        BY <2>1 DEF Chain
    <2>3. p \in [0..n -> Nodes(input)]
        BY <1>1 DEF SearchFrom
    <2>4. n \in 1..Cardinality(Nodes(input))
        BY <1>0, <1>2, <2>2
    <2> QED BY <2>2, <2>3, <2>4 DEF Path
<1>3. ASSUME NEW k \in Nodes(input), Path(input, s, k) PROVE k \in reached
    <2>1. PICK n \in 1..Cardinality(Nodes(input)) : \E p \in [0..n -> Nodes(input)] :
             p[0] = s /\ p[n] = k /\ \A i \in 1..n : Edge(input, p[i - 1], p[i])
        BY <1>3 DEF Path
    <2>2. PICK p \in [0..n -> Nodes(input)] :
             p[0] = s /\ p[n] = k /\ \A i \in 1..n : Edge(input, p[i - 1], p[i])
        BY <2>1
    <2>3. n \in Nat /\ 0 \in 0..n /\ p[0] \in reached
        BY <1>0, <1>1, <2>2 DEF SearchFrom
    <2>4. \A i \in 1..n : p[i - 1] \in reached => p[i] \in reached
        BY <1>0, <1>1, <2>2, <2>3 DEF SearchFrom
    <2>5. p[n] \in reached
        BY <2>3, <2>4, StaysInside
    <2> QED BY <2>2, <2>5
<1>4. s \in reached /\ reached \subseteq Nodes(input)
    BY <1>1 DEF SearchFrom
<1> QED BY <1>2, <1>3, <1>4

\* The validator's invariant at any time, and at the end, is its correctness.
LEMMA ValidatorAnswers == ValidatorInv => ValidatorIsRight
<1> SUFFICES ASSUME ValidatorInv PROVE ValidatorIsRight
    OBVIOUS
<1>0. IsGraph(input) /\ IsFiniteSet(Nodes(input)) /\ Cardinality(Nodes(input)) \in Nat
    BY GraphAssumption, FS_CardinalityType DEF ValidatorInv, IsGraph
<1>1. ValidatorTypeOK
    <2>1. StaticErrors(input) \subseteq {"entry", "type", "stage", "source", "sink"}
        BY Zenon DEF StaticErrors
    <2>2. errors \subseteq {"entry", "type", "stage", "source", "sink", "cycle"}
        BY <2>1 DEF ValidatorInv
    <2>3. /\ indegree \in [Nodes(input) -> Nat]
          /\ IsInjective(order \o queue) /\ ToSet(order \o queue) \subseteq Nodes(input)
        BY DEF ValidatorInv, SortInv
    <2>4. ToSet(stack) \subseteq reached /\ reached \subseteq Nodes(input)
        <3>1. CASE stack = <<>> /\ reached = {}
            BY <3>1 DEF ToSet
        <3>2. CASE \E s : SearchFrom(s)
            BY <3>2 DEF SearchFrom, ToSet
        <3> QED BY <3>1, <3>2 DEF ValidatorInv
    <2> QED BY <2>2, <2>3, <2>4 DEF ValidatorTypeOK, ValidatorInv
<1>2. CASE phase # "done"
    BY <1>1, <1>2 DEF ValidatorIsRight
<1>3. CASE phase = "done"
    <2>1. /\ queue = <<>> /\ order \in Seq(Nodes(input)) /\ IsInjective(order)
          /\ errors = StaticErrors(input) \cup
                (IF Len(order) # Cardinality(Nodes(input)) THEN {"cycle"} ELSE {})
        <3>1. queue = <<>> /\ order \in Seq(Nodes(input)) /\ IsInjective(order \o queue)
            BY <1>3 DEF ValidatorInv, SortInv
        <3>2. order \o queue = order
            BY <3>1
        <3> QED BY <1>3, <3>1, <3>2 DEF ValidatorInv
    <2>2. OrderIsTopological /\ WarningIsRight
        BY <1>3, <2>1, SortedIsTopological, SearchIsRight
    <2>3. ASSUME StaticErrors(input) = {} PROVE Len(order) = Cardinality(Nodes(input))
        <3>1. ASSUME NEW c \in Nodes(input) PROVE ~Path(input, c, c)
            <4> SUFFICES ASSUME Path(input, c, c) PROVE FALSE
                OBVIOUS
            <4>1. Rank[input.types[c]] < Rank[input.types[c]] /\ Rank[input.types[c]] \in Int
                BY <1>0, <2>3, StagesAdvance
            <4>2. PICK i \in Int : i = Rank[input.types[c]]
                BY <4>1
            <4> QED BY <4>1, <4>2
        <3>2. ToSet(order) = Nodes(input)
            BY <2>2, <3>1 DEF OrderIsTopological
        <3> QED BY <2>1, <3>2, LengthIsCount
    <2>4. errors = {} <=> IsValid(input)
        BY <2>1, <2>3 DEF IsValid
    <2>5. ASSUME errors = {}, NEW a \in Nodes(input), NEW b \in Nodes(input), Path(input, a, b)
          PROVE  Rank[input.types[a]] < Rank[input.types[b]]
        <3>1. StaticErrors(input) = {}
            BY <2>4, <2>5 DEF IsValid
        <3> QED BY <1>0, <2>5, <3>1, StagesAdvance
    <2> QED BY <1>1, <2>2, <2>4, <2>5 DEF ValidatorIsRight
<1> QED BY <1>2, <1>3

\* validate_graph() and _reachable(): for any graph, whatever the order of its nodes
\* and edges, the sort is topological and leaves out exactly what a cycle reaches, the
\* warning names exactly what the source does not reach, and a graph is accepted
\* exactly when it has no static error, in which case stages advance on every path.
THEOREM ValidatorSafety == ValidatorSpec => []ValidatorIsRight
<1>1. ASSUME ValidatorInv, [ValidatorNext]_validatorVars PROVE ValidatorInv'
    <2>1. CASE UNCHANGED validatorVars
        BY <1>1, <2>1 DEF validatorVars, ValidatorInv, SortInv, SearchFrom
    <2> QED BY <1>1, <2>1, VisitKeeps, SortedKeeps, ReachKeeps DEF ValidatorNext
<1> QED BY <1>1, ValidatorStart, ValidatorAnswers, PTL DEF ValidatorSpec
=============================================================================
