----------------------------- MODULE Pipelines -----------------------------
(***************************************************************************)
(* The life cycle of a pipeline's versions                                 *)
(* (pravaha/api/routers/pipelines.py, pravaha/models/pipelines.py): drafts *)
(* are created and edited, versions are validated and published, the       *)
(* version that was published before is disabled.                          *)
(*                                                                         *)
(* Each session is a request in its own database transaction (READ         *)
(* COMMITTED, autoflush off): a step reads what is committed, the writes   *)
(* appear together at the commit, and only a value that differs from the   *)
(* one loaded is written.  A version is its number: one more than the      *)
(* latest and unique, so the numbers have no gap.  validate_graph() reads  *)
(* nothing but its argument and is one operator here.                      *)
(***************************************************************************)
EXTENDS PipelineGraph

CONSTANTS
    Graphs,         \* the graphs requests carry
    Editors,        \* concurrent requests
    MaxEdits,       \* bound: requests in a behaviour
    MaxRevisions    \* bound: versions

ASSUME EditBounds == MaxEdits \in Nat /\ MaxRevisions \in Nat \ {0}

VARIABLES
    revisions,  \* pipeline_versions: status, graph and the graph of its node rows
    current,    \* pipelines.active_version_id; 0 for NULL
    at,         \* where each request is
    held,       \* the version and graph it has loaded or is to write
    edits,      \* requests so far, capped by MaxEdits
    raced       \* two requests were in progress at the same time (history)

pipelineVars == <<revisions, current, at, held, edits, raced>>

Status == {"DRAFT", "PUBLISHED", "DISABLED"}
Version == [status : Status, graph : Graphs, nodes : Graphs]
\* An update has loaded the latest version and carries a new graph; a publish has
\* loaded the version and then the other published versions and the pointer.
Update == [op : {"update"}, number : Nat, status : Status, loaded : Graphs, graph : Graphs]
Publication == [op : {"publish"}, number : Nat, others : SUBSET Nat, pointer : Nat]
NoEdit == [op |-> "none"]

Draft(graph) == [status |-> "DRAFT", graph |-> graph, nodes |-> graph]

PipelineTypeOK ==
    /\ revisions \in Seq(Version) /\ Len(revisions) <= MaxRevisions
    /\ current \in 0..Len(revisions)
    /\ at \in [Editors -> {"idle", "others", "commit"}]
    /\ held \in [Editors -> Update \cup Publication \cup {NoEdit}]
    /\ \A s \in Editors : (at[s] = "idle") <=> (held[s] = NoEdit)
    /\ edits \in 0..MaxEdits
    /\ raced \in BOOLEAN

PipelineInit ==
    /\ revisions = <<>> /\ current = 0
    /\ at = [s \in Editors |-> "idle"]
    /\ held = [s \in Editors |-> NoEdit]
    /\ edits = 0 /\ raced = FALSE

----------------------------------------------------------------------------
\* A new request takes the session and goes on at step.
BeginEdit(s, step, r) ==
    /\ at[s] = "idle"
    /\ edits < MaxEdits
    /\ edits' = edits + 1
    /\ raced' = (raced \/ \E t \in Editors \ {s} : at[t] # "idle")
    /\ at' = [at EXCEPT ![s] = step]
    /\ held' = [held EXCEPT ![s] = r]

\* The request is over, whatever came of it.
EndEdit(s) ==
    /\ at' = [at EXCEPT ![s] = "idle"]
    /\ held' = [held EXCEPT ![s] = NoEdit]
    /\ UNCHANGED <<edits, raced>>

\* create_pipeline(): refused when the name exists, by the check or by the unique
\* name; the first draft may be invalid.
CreatePipeline(s, graph) ==
    /\ BeginEdit(s, "idle", NoEdit)
    /\ revisions = <<>>
    /\ revisions' = <<Draft(graph)>>
    /\ UNCHANGED current

\* update_draft() reads the latest version.
UpdateDraft(s, graph) ==
    LET latest == Len(revisions) IN
    /\ latest > 0
    /\ revisions[latest].status # "DRAFT" => latest < MaxRevisions
    /\ BeginEdit(s, "commit", [op |-> "update", number |-> latest,
                           status |-> revisions[latest].status,
                           loaded |-> revisions[latest].graph, graph |-> graph])
    /\ UNCHANGED <<revisions, current>>

\* Mutant: the number of the new draft is taken at the insert.
CommitUpdateRenumbers(s) ==
    LET r == held[s] IN
    /\ at[s] = "commit" /\ r.op = "update"
    /\ IF r.status # "DRAFT"
       THEN revisions' = Append(revisions, Draft(r.graph))
       ELSE revisions' = [revisions EXCEPT ![r.number].graph = r.graph,
                                         ![r.number].nodes = r.graph]
    /\ EndEdit(s)
    /\ UNCHANGED current

\* Mutant: the latest version is edited in place, whatever its status.
CommitUpdateInPlace(s) ==
    LET r == held[s] IN
    /\ at[s] = "commit" /\ r.op = "update"
    /\ revisions' = [revisions EXCEPT ![r.number].graph = r.graph,
                                    ![r.number].nodes = r.graph]
    /\ EndEdit(s)
    /\ UNCHANGED current

\* The rest of update_draft(), _sync_nodes_edges() and the commit.  After a version
\* that was no draft a new one is inserted, which fails when its number is taken;
\* a draft gets the new graph, whatever its status is by now, unless the graph is
\* the one that was loaded; its node rows are replaced in any case.
CommitUpdate(s) ==
    LET r == held[s] IN
    /\ at[s] = "commit" /\ r.op = "update"
    /\ \/ /\ r.status # "DRAFT"
          /\ revisions' = IF Len(revisions) = r.number
                         THEN Append(revisions, Draft(r.graph)) ELSE revisions
       \/ /\ r.status = "DRAFT"
          /\ revisions' = [revisions EXCEPT
                ![r.number].graph = IF r.graph = r.loaded THEN @ ELSE r.graph,
                ![r.number].nodes = r.graph]
    /\ EndEdit(s)
    /\ UNCHANGED current

\* Mutant: the graph is not validated.
PublishUnvalidated(s, number) ==
    /\ number \in 1..Len(revisions)
    /\ revisions[number].status # "PUBLISHED"
    /\ BeginEdit(s, "others", [op |-> "publish", number |-> number, others |-> {}, pointer |-> 0])
    /\ UNCHANGED <<revisions, current>>

\* publish() reads the version: it must not be published yet and its graph valid.
Publish(s, number) ==
    /\ number \in 1..Len(revisions)
    /\ revisions[number].status # "PUBLISHED"
    /\ IsValid(revisions[number].graph)
    /\ BeginEdit(s, "others", [op |-> "publish", number |-> number, others |-> {}, pointer |-> 0])
    /\ UNCHANGED <<revisions, current>>

\* It reads the pipeline and the other published versions.
ReadOthers(s) ==
    /\ at[s] = "others"
    /\ held' = [held EXCEPT
          ![s].others = {i \in 1..Len(revisions) :
                            i # held[s].number /\ revisions[i].status = "PUBLISHED"},
          ![s].pointer = current]
    /\ at' = [at EXCEPT ![s] = "commit"]
    /\ UNCHANGED <<revisions, current, edits, raced>>

\* The commit of publish(): PUBLISHED, the others that were seen DISABLED, and the
\* pipeline points to the version, unless it did when it was loaded.
CommitPublish(s) ==
    LET r == held[s] IN
    /\ at[s] = "commit" /\ r.op = "publish"
    /\ revisions' = [i \in 1..Len(revisions) |->
          CASE i = r.number   -> [revisions[i] EXCEPT !.status = "PUBLISHED"]
            [] i \in r.others -> [revisions[i] EXCEPT !.status = "DISABLED"]
            [] OTHER          -> revisions[i]]
    /\ current' = IF r.pointer = r.number THEN current ELSE r.number
    /\ EndEdit(s)

PipelineNext ==
    \E s \in Editors :
        \/ \E graph \in Graphs : CreatePipeline(s, graph) \/ UpdateDraft(s, graph)
        \/ \E number \in 1..Len(revisions) : Publish(s, number)
        \/ ReadOthers(s) \/ CommitUpdate(s) \/ CommitPublish(s)

PipelineSpec == PipelineInit /\ [][PipelineNext]_pipelineVars

----------------------------------------------------------------------------
(* Properties *)

Published == {i \in 1..Len(revisions) : revisions[i].status = "PUBLISHED"}

\* However edits race, only the latest version can be a draft: a version that
\* left DRAFT never returns, and the unique number keeps two edits of the same
\* published version from leaving two drafts.
OnlyLatestIsDraft ==
    \A i \in 1..Len(revisions) : revisions[i].status = "DRAFT" => i = Len(revisions)

\* Published versions are immutable (README, section 9) as long as requests come one
\* at a time: the graph of a version that was published, disabled since or not,
\* never changes, and an edit after a publication makes a new draft.
GraphsStay ==
    \A i \in 1..Len(revisions) :
        revisions[i].status # "DRAFT" => revisions'[i].graph = revisions[i].graph
AloneIsImmutable == [][~raced' => GraphsStay]_pipelineVars

\* As long as edits come one at a time: a graph is validated before it can be
\* published (README, section 9), publishing disables the version that was published
\* before, so that the active version is the only published one, and the graph
\* column is the node and edge rows, denormalised (models/pipelines.py).
PublishedIsSound ==
    /\ PipelineTypeOK
    /\ ~raced =>
          /\ \A i \in Published : IsValid(revisions[i].graph)
          /\ Published = {current} \ {0}
          /\ \A i \in 1..Len(revisions) : revisions[i].nodes = revisions[i].graph

\* What a request in progress holds, however edits race: its versions exist, and a
\* version that was no draft when it was loaded has not become one.
HeldExists(s) ==
    /\ held[s].number \in 1..Len(revisions)
    /\ held[s].op = "publish" => held[s].others \subseteq (1..Len(revisions)) \ {held[s].number}
    /\ held[s].op = "update" =>
          /\ at[s] = "commit"
          /\ held[s].status # "DRAFT" =>
                revisions[held[s].number].status # "DRAFT" /\ held[s].number < MaxRevisions

\* While no other request is in progress: what it holds is what is stored.
HeldIsCurrent(s) ==
    LET r == held[s] IN
    /\ \A t \in Editors \ {s} : at[t] = "idle"
    /\ r.op = "update" => /\ r.number = Len(revisions)
                          /\ r.status = revisions[r.number].status
                          /\ r.loaded = revisions[r.number].graph
    /\ r.op = "publish" => revisions[r.number].status # "PUBLISHED"
                           /\ IsValid(revisions[r.number].graph)
    /\ r.op = "publish" /\ at[s] = "commit" =>
          r.others = Published \ {r.number} /\ r.pointer = current

\* The inductive strengthening of OnlyLatestIsDraft and PublishedIsSound.
PipelineInv ==
    /\ OnlyLatestIsDraft /\ PublishedIsSound
    /\ \A s \in Editors : at[s] # "idle" => HeldExists(s)
    /\ ~raced => \A s \in Editors : at[s] # "idle" => HeldIsCurrent(s)
=============================================================================
