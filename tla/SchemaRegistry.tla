--------------------------- MODULE SchemaRegistry ---------------------------
(***************************************************************************)
(* The schema registry (pravaha/registry/service.py and its API,           *)
(* pravaha/api/routers/schemas.py) for one event type: versions of a JSON  *)
(* Schema document, the BACKWARD compatibility check between consecutive   *)
(* ones, the active version and the is_active flags.                       *)
(*                                                                         *)
(* Each session is a request in its own database transaction (READ         *)
(* COMMITTED, autoflush off): a step reads what is committed, the writes   *)
(* appear together at the commit, and only a value that differs from the   *)
(* one loaded is written.  A version is its number: it is one more than    *)
(* the latest and unique, so the numbers have no gap.                      *)
(*                                                                         *)
(* A document keeps what the check looks at: required fields, the types of *)
(* the properties ({}: no type given), and whether other properties are    *)
(* allowed.  Schemas are in BACKWARD mode.                                 *)
(***************************************************************************)
EXTENDS Integers, Sequences, FiniteSets

CONSTANTS
    Names,          \* property names
    Types,          \* JSON Schema type names
    Kinds,          \* kinds of JSON values
    TypesOf,        \* TypesOf[k]: the type names a value of kind k satisfies
    Docs,           \* the documents the requests carry
    Sessions,       \* concurrent requests
    MaxRequests,    \* bound: requests in a behaviour
    MaxVersions     \* bound: versions

Properties == UNION {[S -> SUBSET Types] : S \in SUBSET Names}
AllDocs == [required : SUBSET Names, props : Properties, open : BOOLEAN]
Payloads == UNION {[S -> Kinds] : S \in SUBSET Names}

ASSUME DocAssumption == Docs \subseteq AllDocs
ASSUME TypesAssumption == TypesOf \in [Kinds -> SUBSET Types]
ASSUME BoundAssumption == MaxRequests \in Nat /\ MaxVersions \in Nat \ {0}

VARIABLES
    versions,   \* schema_versions of the schema: document and how it got in
    isActive,   \* versions with is_active set
    active,     \* event_schemas.active_version_id; 0 for NULL
    pc,         \* where each request is
    req,        \* what it asks for
    seen,       \* the version numbers and flags it has loaded
    requests,   \* requests so far, capped by MaxRequests
    overlapped  \* two requests were in progress at the same time (history)

stored == <<versions, isActive, active>>
vars == <<stored, pc, req, seen, requests, overlapped>>

NoDoc == [required |-> {}, props |-> [n \in {} |-> {}], open |-> TRUE]
Requests == [op : {"register", "set"}, doc : AllDocs, number : Nat,
             on : BOOLEAN, force : BOOLEAN]
NoRequest == [op |-> "set", doc |-> NoDoc, number |-> 0, on |-> FALSE, force |-> FALSE]
\* own: is_active of the version the request is about; others: the versions it
\* loaded with is_active set; pointer: active_version_id.
Loaded == [own : BOOLEAN, others : SUBSET Nat, pointer : Nat]
NothingLoaded == [own |-> FALSE, others |-> {}, pointer |-> 0]

TypeOK ==
    /\ versions \in Seq([doc : Docs, force : BOOLEAN]) /\ Len(versions) <= MaxVersions
    /\ isActive \subseteq 1..Len(versions)
    /\ active \in 0..Len(versions)
    /\ pc \in [Sessions -> {"idle", "others", "commit"}]
    /\ req \in [Sessions -> Requests]
    /\ seen \in [Sessions -> Loaded]
    /\ requests \in 0..MaxRequests
    /\ overlapped \in BOOLEAN

Init ==
    /\ versions = <<>> /\ isActive = {} /\ active = 0
    /\ pc = [s \in Sessions |-> "idle"]
    /\ req = [s \in Sessions |-> NoRequest]
    /\ seen = [s \in Sessions |-> NothingLoaded]
    /\ requests = 0 /\ overlapped = FALSE

----------------------------------------------------------------------------
(* The compatibility check, and what it is for *)

\* Mutant: required fields are compared the wrong way round.
CompatibleRequiredSwapped(old, new) ==
    /\ old.required \subseteq new.required
    /\ new.open \/ DOMAIN old.props \subseteq DOMAIN new.props
    /\ \A n \in DOMAIN old.props \cap DOMAIN new.props :
          old.props[n] = {} \/ new.props[n] = {} \/ old.props[n] \subseteq new.props[n]
    /\ old.open => new.open

\* check_backward_compatible(): no new required field, nothing removed from a
\* closed document, no type narrowed, the document not closed.
Compatible(old, new) ==
    /\ new.required \subseteq old.required
    /\ new.open \/ DOMAIN old.props \subseteq DOMAIN new.props
    /\ \A n \in DOMAIN old.props \cap DOMAIN new.props :
          old.props[n] = {} \/ new.props[n] = {} \/ old.props[n] \subseteq new.props[n]
    /\ old.open => new.open

\* validate_payload(), with the validator of the jsonschema library.
Accepts(doc, payload) ==
    /\ doc.required \subseteq DOMAIN payload
    /\ doc.open \/ DOMAIN payload \subseteq DOMAIN doc.props
    /\ \A n \in DOMAIN doc.props \cap DOMAIN payload :
          doc.props[n] = {} \/ TypesOf[payload[n]] \cap doc.props[n] # {}

\* Consumers using new read every payload written against old.
Reads(new, old) ==
    \A payload \in Payloads : Accepts(old, payload) => Accepts(new, payload)

----------------------------------------------------------------------------
(* Requests *)

\* A new request takes the session and goes on at step.
Begin(s, step, r, loaded) ==
    /\ pc[s] = "idle"
    /\ requests < MaxRequests
    /\ requests' = requests + 1
    /\ overlapped' = (overlapped \/ \E t \in Sessions \ {s} : pc[t] # "idle")
    /\ pc' = [pc EXCEPT ![s] = step]
    /\ req' = [req EXCEPT ![s] = r]
    /\ seen' = [seen EXCEPT ![s] = loaded]

\* The request is over, whatever came of it.
End(s) ==
    /\ pc' = [pc EXCEPT ![s] = "idle"]
    /\ req' = [req EXCEPT ![s] = NoRequest]
    /\ seen' = [seen EXCEPT ![s] = NothingLoaded]
    /\ UNCHANGED <<requests, overlapped>>

\* create_schema(): refused when the event type has a schema, by the check or by
\* the unique event_type; else version 1, active.
Create(s, doc) ==
    /\ Begin(s, "idle", NoRequest, NothingLoaded)
    /\ versions = <<>>
    /\ versions' = <<[doc |-> doc, force |-> FALSE]>>
    /\ isActive' = {1}
    /\ active' = 1

\* register_version() up to the check: the document is compared with the latest
\* version, unless forced; an incompatible one is refused.
Register(s, doc, activate, force) ==
    LET latest == Len(versions) IN
    /\ latest \in 1..(MaxVersions - 1)
    /\ force \/ Compatible(versions[latest].doc, doc)
    /\ Begin(s, IF activate THEN "others" ELSE "commit",
             [op |-> "register", doc |-> doc, number |-> latest + 1,
              on |-> activate, force |-> force],
             [own |-> activate, others |-> isActive \cap {latest}, pointer |-> 0])
    /\ UNCHANGED stored

\* set_version_active(): the schema and the version are read.
SetVersion(s, number, on) ==
    /\ number \in 1..Len(versions)
    /\ Begin(s, IF on THEN "others" ELSE "commit",
             [op |-> "set", doc |-> NoDoc, number |-> number, on |-> on, force |-> FALSE],
             [own |-> number \in isActive, others |-> {}, pointer |-> active])
    /\ UNCHANGED stored

\* The versions that a request has loaded: its own, and the latest to compare with.
Held(r) == IF r.op = "register" THEN {r.number, r.number - 1} ELSE {r.number}

\* _deactivate_others() reads the flags of every version; a row that the session has
\* loaded before keeps the flag that it had then.
DeactivateOthers(s) ==
    /\ pc[s] = "others"
    /\ seen' = [seen EXCEPT ![s].others = @ \cup (isActive \ Held(req[s]))]
    /\ pc' = [pc EXCEPT ![s] = "commit"]
    /\ UNCHANGED <<stored, req, requests, overlapped>>

\* Mutant: the number is taken at the insert, not where the check was made.
CommitRegisterRenumbers(s) ==
    /\ pc[s] = "commit" /\ req[s].op = "register"
    /\ Len(versions) < MaxVersions
    /\ versions' = Append(versions, [doc |-> req[s].doc, force |-> req[s].force])
    /\ isActive' = IF req[s].on THEN (isActive \ seen[s].others) \cup {Len(versions) + 1}
                   ELSE isActive
    /\ active' = IF req[s].on THEN Len(versions) + 1 ELSE active
    /\ End(s)

\* The rest of register_version() and the commit: the insert fails when another
\* request has taken the number.
CommitRegister(s) ==
    LET r == req[s] IN
    /\ pc[s] = "commit" /\ r.op = "register"
    /\ \/ /\ r.number = Len(versions) + 1
          /\ versions' = Append(versions, [doc |-> r.doc, force |-> r.force])
          /\ isActive' = IF r.on THEN (isActive \ seen[s].others) \cup {r.number}
                         ELSE isActive
          /\ active' = IF r.on THEN r.number ELSE active
       \/ r.number # Len(versions) + 1 /\ UNCHANGED stored
    /\ End(s)

\* Mutant: deactivating the active version leaves the pointer.
CommitSetKeepsPointer(s) ==
    LET r == req[s] IN
    /\ pc[s] = "commit" /\ r.op = "set"
    /\ isActive' = IF r.on THEN (isActive \ seen[s].others) \cup {r.number}
                   ELSE isActive \ {r.number}
    /\ active' = IF r.on THEN r.number ELSE active
    /\ UNCHANGED versions
    /\ End(s)

\* The rest of set_version_active() and the commit.
CommitSet(s) ==
    LET r == req[s]
        old == seen[s]
    IN  /\ pc[s] = "commit" /\ r.op = "set"
        /\ isActive' = CASE r.on /\ ~old.own -> (isActive \ old.others) \cup {r.number}
                         [] r.on /\ old.own  -> isActive \ old.others
                         [] ~r.on /\ old.own -> isActive \ {r.number}
                         [] OTHER            -> isActive
        /\ active' = CASE r.on /\ old.pointer # r.number  -> r.number
                       [] ~r.on /\ old.pointer = r.number -> 0
                       [] OTHER                           -> active
        /\ UNCHANGED versions
        /\ End(s)

Next ==
    \E s \in Sessions :
        \/ \E doc \in Docs : Create(s, doc)
        \/ \E doc \in Docs, activate, force \in BOOLEAN : Register(s, doc, activate, force)
        \/ \E number \in 1..Len(versions), on \in BOOLEAN : SetVersion(s, number, on)
        \/ DeactivateOthers(s) \/ CommitRegister(s) \/ CommitSet(s)

Spec == Init /\ [][Next]_vars

----------------------------------------------------------------------------
(* Properties *)

Unforced(i) == i > 1 /\ ~versions[i].force

\* The unique version number makes the check stick: however registrations race,
\* an unforced version is compatible with the version right before it, not with
\* the one that was the latest when its request began.
ChainIsCompatible ==
    \A i \in 1..Len(versions) :
        Unforced(i) => Compatible(versions[i - 1].doc, versions[i].doc)

\* The check is worth something where it looks: when the older document is closed
\* and gives every property a type, an unforced successor accepts every payload
\* that the older version accepted.
ClosedIsReadable ==
    \A i \in 1..Len(versions) :
        LET old == versions[i - 1].doc IN
        (/\ Unforced(i)
         /\ ~old.open
         /\ \A n \in DOMAIN old.props : old.props[n] # {})
        => Reads(versions[i].doc, old)

\* What a request in progress holds: its document was checked against the version
\* before its number, and a version it is about exists.
Checked(s) ==
    IF req[s].op = "register"
    THEN /\ req[s].doc \in Docs
         /\ req[s].number - 1 \in 1..Len(versions)
         /\ req[s].number <= MaxVersions
         /\ req[s].force \/ Compatible(versions[req[s].number - 1].doc, req[s].doc)
    ELSE req[s].number \in 1..Len(versions)

\* The inductive strengthening of ChainIsCompatible.
PendingIsChecked == \A s \in Sessions : pc[s] # "idle" => Checked(s)

IndInv == TypeOK /\ ChainIsCompatible /\ PendingIsChecked

\* As long as requests come one at a time, the flags and the pointer agree: the
\* active version is the one and only version with is_active set; the pointer is
\* always to a version that exists.
FlagsAgree == TypeOK /\ (~overlapped => isActive = {active} \ {0})

\* What a request loaded is what is stored, and no other request is in progress.
LoadedIsCurrent(s) ==
    /\ \A t \in Sessions \ {s} : pc[t] = "idle"
    /\ req[s].op = "set" =>
          (seen[s].own <=> req[s].number \in isActive) /\ seen[s].pointer = active
    /\ pc[s] = "others" =>
          seen[s].others = isActive \cap (Held(req[s]) \ {req[s].number})
    /\ pc[s] = "commit" /\ req[s].on => seen[s].others = isActive \ {req[s].number}

\* The inductive strengthening of FlagsAgree.
AloneIsCurrent ==
    ~overlapped => /\ isActive = {active} \ {0}
                   /\ \A s \in Sessions : pc[s] # "idle" => LoadedIsCurrent(s)
=============================================================================
