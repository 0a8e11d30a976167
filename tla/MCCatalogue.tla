---------------------------- MODULE MCCatalogue ----------------------------
(***************************************************************************)
(* Small instances of what engineers design before events flow, for TLC:   *)
(* schemas, pipelines and the validator of pipeline graphs.  They share no *)
(* state: a behaviour follows one of them.                                 *)
(***************************************************************************)
EXTENDS SchemaRegistry, Pipelines

CONSTANTS s1, s2, s3, a, b, c

VARIABLE focus

\* A whole number satisfies "integer" and "number", a fraction only "number".
KindTypes == ("whole" :> {"integer", "number"}) @@ ("fraction" :> {"number"})
             @@ ("text" :> {"string"})

\* Four documents that are compatible in some orders only: one that requires its
\* property, one that does not, one that also takes another type, and an open one
\* that gives no type.
FewDocs ==
    LET Doc(required, types, open) ==
            [required |-> required, props |-> [n \in Names |-> types], open |-> open]
    IN  {Doc(Names, {"integer"}, FALSE), Doc({}, {"integer"}, FALSE),
         Doc({}, {"integer", "string"}, FALSE), Doc({}, {}, TRUE)}

\* Three nodes of four type assignments with all choices of up to four edges, one
\* edge repeatedly included, and two graphs that have an error of their own.
Pairs == {a, b, c} \X {a, b, c}
SmallEdges == {[p \in Pairs |-> Cardinality({i \in 1..4 : list[i] = p})] :
                  list \in [1..4 -> Pairs \cup {<<>>}]}
Stages == {<<"source", "filter", "sink">>, <<"source", "sink", "sink">>,
           <<"source", "source", "sink">>, <<"source", "filter", "filter">>}
GraphOf(types, edges, faulty) == [types |-> types, edges |-> edges, faulty |-> faulty]
Line(type, faulty) ==
    GraphOf(a :> "source" @@ b :> type @@ c :> "sink",
            [p \in Pairs |-> IF p \in {<<a, b>>, <<b, c>>} THEN 1 ELSE 0], faulty)
FewInputs ==
    {GraphOf(a :> t[1] @@ b :> t[2] @@ c :> t[3], e, FALSE) : t \in Stages, e \in SmallEdges}
    \cup {Line("custom", FALSE), Line("window", TRUE)}

\* Two valid pipelines and one with an unknown type.
FewGraphs == {Line("filter", FALSE), Line("window", FALSE), Line("custom", FALSE)}

CatalogueInit ==
    /\ focus \in {"schemas", "pipelines", "graphs"}
    /\ Init /\ PipelineInit /\ ValidatorInit
    /\ focus # "graphs" => input = Line("custom", FALSE)

CatalogueNext ==
    /\ UNCHANGED focus
    /\ \/ focus = "schemas" /\ Next /\ UNCHANGED <<pipelineVars, validatorVars>>
       \/ focus = "pipelines" /\ PipelineNext /\ UNCHANGED <<vars, validatorVars>>
       \/ focus = "graphs" /\ ValidatorNext /\ UNCHANGED <<vars, pipelineVars>>

CatalogueSpec == CatalogueInit /\ [][CatalogueNext]_<<focus, vars, pipelineVars, validatorVars>>

SessionSymmetry == Permutations(Sessions)
=============================================================================
