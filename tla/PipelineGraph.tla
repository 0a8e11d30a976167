--------------------------- MODULE PipelineGraph ---------------------------
(***************************************************************************)
(* validate_graph() (pravaha/processing/pipeline_spec.py): the stage       *)
(* ordering, the topological sort that finds cycles (Kahn's algorithm) and *)
(* the search for nodes the source does not reach.                         *)
(*                                                                         *)
(* A graph keeps the type of every node key and how often each edge        *)
(* between known nodes is listed; faulty stands for the errors that are    *)
(* found by looking at one entry (a missing or repeated key, a window or   *)
(* aggregate configuration, an edge with an unknown end).  The order of    *)
(* the node set and of the adjacency lists is any.                         *)
(***************************************************************************)
EXTENDS Integers, Sequences, FiniteSets, SequencesExt

CONSTANT Inputs     \* the graphs that are validated step by step

VARIABLES
    input,      \* the graph
    errors,     \* kinds of errors found
    queue,      \* Kahn: nodes without an unvisited predecessor
    indegree,   \* Kahn: edges from unvisited predecessors
    order,      \* Kahn: the topological order
    stack,      \* reachability: nodes to look at
    reached,    \* reachability: nodes found
    phase       \* "sort", "search" or "done"

validatorVars == <<input, errors, queue, indegree, order, stack, reached, phase>>

NODE_TYPES == <<"source", "filter", "transform", "group", "window", "aggregate", "sink">>
Rank == [t \in ToSet(NODE_TYPES) |-> CHOOSE i \in DOMAIN NODE_TYPES : NODE_TYPES[i] = t]

Nodes(g) == DOMAIN g.types
Edge(g, a, b) == g.edges[<<a, b>>] > 0
IsGraph(g) == IsFiniteSet(Nodes(g)) /\ g.edges \in [Nodes(g) \X Nodes(g) -> Nat]

ASSUME GraphAssumption == \A g \in Inputs : IsGraph(g)

OfType(g, t) == {k \in Nodes(g) : g.types[k] = t}

\* The errors that need no traversal.
StaticErrors(g) ==
    LET typed == {k \in Nodes(g) : g.types[k] \in DOMAIN Rank} IN
    {kind \in {"entry", "type", "stage", "source", "sink"} :
        CASE kind = "entry"  -> g.faulty
          [] kind = "type"   -> typed # Nodes(g)
          [] kind = "stage"  -> \E a, b \in typed :
                                    Edge(g, a, b) /\ Rank[g.types[b]] <= Rank[g.types[a]]
          [] kind = "source" -> Cardinality(OfType(g, "source")) # 1
          [] kind = "sink"   -> OfType(g, "sink") = {}}

\* What publish() asks of a graph; ValidatorIsRight says validate_graph() answers it.
IsValid(g) == StaticErrors(g) = {}

----------------------------------------------------------------------------
\* The edges to b that are listed for the nodes of S.
Entries(g, S, b) == UNION {{a} \X (1..g.edges[<<a, b>>]) : a \in S}

\* The loop over the edges counts every one into the indegree of its end.
Indegree(g) == [b \in Nodes(g) |-> Cardinality(Entries(g, Nodes(g), b))]

ValidatorInit ==
    /\ input \in Inputs
    /\ errors = StaticErrors(input)
    /\ indegree = Indegree(input)
    /\ queue \in SetToSeqs({k \in Nodes(input) : indegree[k] = 0})
    /\ order = <<>> /\ stack = <<>> /\ reached = {}
    /\ phase = "sort"

\* Mutant: a successor is queued when its first predecessor is visited.
VisitEager ==
    /\ phase = "sort" /\ queue # <<>>
    /\ LET node == Head(queue)
           left == [k \in Nodes(input) |-> indegree[k] - input.edges[<<node, k>>]]
           open == Nodes(input) \ (ToSet(order) \cup ToSet(queue))
       IN  /\ indegree' = left
           /\ order' = Append(order, node)
           /\ \E free \in SetToSeqs({k \in open : Edge(input, node, k)}) :
                 queue' = Tail(queue) \o free
    /\ UNCHANGED <<input, errors, stack, reached, phase>>

\* One node of Kahn's loop: every edge out of it is taken off, and a successor
\* whose last edge that was is queued.
Visit ==
    /\ phase = "sort" /\ queue # <<>>
    /\ LET node == Head(queue)
           left == [k \in Nodes(input) |-> indegree[k] - input.edges[<<node, k>>]]
       IN  /\ indegree' = left
           /\ order' = Append(order, node)
           /\ \E free \in SetToSeqs({k \in Nodes(input) : indegree[k] > 0 /\ left[k] = 0}) :
                 queue' = Tail(queue) \o free
    /\ UNCHANGED <<input, errors, stack, reached, phase>>

\* The loop is over: nodes that were not visited are on a cycle or behind one.  The
\* search starts at the first source, in the order of the node list, if there is one.
Sorted ==
    /\ phase = "sort" /\ queue = <<>>
    /\ errors' = errors \cup (IF Len(order) # Cardinality(Nodes(input)) THEN {"cycle"} ELSE {})
    /\ IF OfType(input, "source") = {} \/ order = <<>>
       THEN phase' = "done" /\ UNCHANGED <<stack, reached>>
       ELSE /\ phase' = "search"
            /\ \E first \in OfType(input, "source") : stack' = <<first>> /\ reached' = {first}
    /\ UNCHANGED <<input, queue, indegree, order>>

\* One node of _reachable(), or its end.
Reach ==
    /\ phase = "search"
    /\ IF stack = <<>>
       THEN phase' = "done" /\ UNCHANGED <<stack, reached>>
       ELSE LET found == {k \in Nodes(input) : Edge(input, Last(stack), k)} \ reached IN
            /\ reached' = reached \cup found
            /\ \E next \in SetToSeqs(found) : stack' = Front(stack) \o next
            /\ UNCHANGED phase
    /\ UNCHANGED <<input, errors, queue, indegree, order>>

ValidatorNext == Visit \/ Sorted \/ Reach

ValidatorSpec == ValidatorInit /\ [][ValidatorNext]_validatorVars

----------------------------------------------------------------------------
(* Properties *)

\* Reference: there is a path of at least one edge from a to b.
Path(g, a, b) ==
    \E n \in 1..Cardinality(Nodes(g)) : \E p \in [0..n -> Nodes(g)] :
        p[0] = a /\ p[n] = b /\ \A i \in 1..n : Edge(g, p[i - 1], p[i])

\* The queue holds nodes without unvisited predecessors, each visited once, and the
\* sort never counts an edge twice.
ValidatorTypeOK ==
    /\ phase \in {"sort", "search", "done"}
    /\ errors \subseteq {"entry", "type", "stage", "source", "sink", "cycle"}
    /\ indegree \in [Nodes(input) -> Nat]
    /\ IsInjective(order \o queue) /\ ToSet(order \o queue) \subseteq Nodes(input)
    /\ ToSet(stack) \subseteq reached /\ reached \subseteq Nodes(input)

\* The topological order lists a node after all its predecessors, and what it leaves
\* out is exactly what a cycle reaches (pipeline_spec.py: "the graph is a DAG").
OrderIsTopological ==
    /\ \A i, j \in DOMAIN order : Edge(input, order[i], order[j]) => i < j
    /\ ToSet(order) = {k \in Nodes(input) : \A c \in Nodes(input) :
          Path(input, c, c) => c # k /\ ~Path(input, c, k)}

\* The nodes the warning leaves out are the ones some source reaches.
WarningIsRight ==
    OfType(input, "source") # {} /\ order # <<>> =>
        \E s \in OfType(input, "source") :
            reached = {s} \cup {k \in Nodes(input) : Path(input, s, k)}

\* Whatever the order of nodes and edges and however often an edge is listed, the
\* sort and the warning are right, and a graph is accepted exactly when it has no
\* static error: since stages only advance along an edge, a typed graph that obeys
\* them has no cycle, and what publish() accepts has advancing stages on every path.
ValidatorIsRight ==
    /\ ValidatorTypeOK
    /\ phase = "done" =>
          /\ OrderIsTopological
          /\ WarningIsRight
          /\ (errors = {}) <=> IsValid(input)
          /\ errors = {} => \A a, b \in Nodes(input) :
                Path(input, a, b) => Rank[input.types[a]] < Rank[input.types[b]]

----------------------------------------------------------------------------
(* Inductive invariant *)

\* The sort: the counts are those of the edges from unvisited nodes, the nodes without
\* one are visited or queued, and a visited node comes after all its predecessors.
SortInv ==
    /\ order \in Seq(Nodes(input)) /\ queue \in Seq(Nodes(input))
    /\ IsInjective(order \o queue)
    /\ indegree \in [Nodes(input) -> Nat]
    /\ \A k \in Nodes(input) :
          indegree[k] = Cardinality(Entries(input, Nodes(input) \ ToSet(order), k))
    /\ ToSet(order \o queue) = {k \in Nodes(input) : indegree[k] = 0}
    /\ \A j \in DOMAIN order, a \in Nodes(input) :
          Edge(input, a, order[j]) => \E i \in 1..(j - 1) : order[i] = a

\* A path from a to b in S that visits no node twice.
Chain(g, S, n, a, b) ==
    \E p \in [0..n -> S] :
        IsInjective(p) /\ p[0] = a /\ p[n] = b /\ \A i \in 1..n : Edge(g, p[i - 1], p[i])

\* The search from s: what it found has a path through what it found, and what it
\* has looked at has no successor that it has not found.
SearchFrom(s) ==
    /\ s \in reached /\ reached \subseteq Nodes(input) /\ stack \in Seq(reached)
    /\ \A x \in reached \ ToSet(stack), k \in Nodes(input) : Edge(input, x, k) => k \in reached
    /\ \A x \in reached : \E n \in 0..Cardinality(Nodes(input)) : Chain(input, reached, n, s, x)

\* The phases: errors of the sort are there once it has ended, and a search follows
\* it unless there is no source or no node was visited.
ValidatorInv ==
    /\ input \in Inputs /\ phase \in {"sort", "search", "done"} /\ SortInv
    /\ IF phase = "sort"
       THEN errors = StaticErrors(input) /\ stack = <<>> /\ reached = {}
       ELSE /\ queue = <<>>
            /\ errors = StaticErrors(input) \cup
                  (IF Len(order) # Cardinality(Nodes(input)) THEN {"cycle"} ELSE {})
            /\ phase = "done" => stack = <<>>
            /\ \/ (OfType(input, "source") = {} \/ order = <<>>) /\ stack = <<>> /\ reached = {}
               \/ \E s \in OfType(input, "source") : SearchFrom(s)
=============================================================================
