--------------------------- MODULE WorkflowCheck ---------------------------
(***************************************************************************)
(* How comfyui_runtime.py takes a graph the user exported: overrides are   *)
(* applied, every node is compared with what the server offers, and a      *)
(* depth-first walk looks for a cycle.  Of the inputs of a node only the   *)
(* links are kept; an override gives a node other links.                   *)
(***************************************************************************)
EXTENDS Naturals, Sequences

CONSTANTS
    Ids,      \* names of nodes
    Workflows \* exported graphs with overrides, as a set of sets of records

VARIABLES
    workflow,  \* the graph: nodes, links, those the server refuses, those that save; overrides
    verdictOf, \* how far the check is, and its result
    links,     \* node -> the nodes it depends on
    pending,   \* nodes the outer loop has not come to
    path,      \* calls of visit() that are open: node, dependencies to come
    visited,
    active

checkVars == <<workflow, verdictOf, links, pending, path, visited, active>>

ASSUME WorkflowsAssumption == \A some \in Workflows : \A w \in some :
    /\ w.present \subseteq Ids /\ w.faulty \subseteq Ids /\ w.saving \subseteq Ids
    /\ w.links \in [Ids -> SUBSET Ids] /\ w.overridden \subseteq Ids /\ w.by \subseteq Ids

CheckInit ==
    /\ \E some \in Workflows : workflow \in some
    /\ verdictOf = "prepare" /\ links = workflow.links
    /\ pending = {} /\ path = <<>> /\ visited = {} /\ active = {}

\* The links with the overrides in their place.
GivenLinks == [n \in Ids |-> IF n \in workflow.overridden THEN workflow.by ELSE workflow.links[n]]

\* prepare_workflow(): API format, not empty, and overrides of inputs that are there.
PrepareWorkflow ==
    /\ verdictOf = "prepare"
    /\ links' = [n \in Ids |-> IF n \in workflow.overridden THEN workflow.by ELSE links[n]]
    /\ verdictOf' = IF workflow.present = {} \/ ~(workflow.overridden \subseteq workflow.present)
                    THEN "rejected" ELSE "schema"
    /\ UNCHANGED <<workflow, pending, path, visited, active>>

\* validate_workflow(): classes, required inputs, choices, links and slots; an output node.
CheckSchema ==
    /\ verdictOf = "schema"
    /\ IF \/ workflow.faulty \cap workflow.present # {} \/ workflow.saving \cap workflow.present = {}
          \/ \E n \in workflow.present : ~(GivenLinks[n] \subseteq workflow.present)
       THEN verdictOf' = "rejected" /\ UNCHANGED pending
       ELSE verdictOf' = "walk" /\ pending' = workflow.present
    /\ UNCHANGED <<workflow, links, path, visited, active>>

Visiting    == verdictOf = "walk" /\ path # <<>>
Innermost  == path[Len(path)]

\* Mutant: what is on the path is taken for visited.
VisitMutant(n, calls) ==
    IF n \in active \cup visited THEN path' = calls /\ UNCHANGED <<verdictOf, active>>
    ELSE /\ path' = Append(calls, [node |-> n, left |-> links[n]])
         /\ active' = active \cup {n} /\ UNCHANGED verdictOf

\* visit(n), called by the outer loop or by the visit that is open: a node on the path is a
\* cycle, one that was visited is left, another one opens a visit.
Visit(n, calls) ==
    IF n \in active THEN verdictOf' = "cycle" /\ UNCHANGED <<path, active>>
    ELSE IF n \in visited THEN path' = calls /\ UNCHANGED <<verdictOf, active>>
    ELSE /\ path' = Append(calls, [node |-> n, left |-> links[n]])
         /\ active' = active \cup {n} /\ UNCHANGED verdictOf

NextRoot(n) ==
    /\ verdictOf = "walk" /\ path = <<>> /\ n \in pending
    /\ pending' = pending \ {n} /\ Visit(n, <<>>)
    /\ UNCHANGED <<workflow, links, visited>>

Follow(n) ==
    /\ Visiting /\ n \in Innermost.left
    /\ Visit(n, [path EXCEPT ![Len(path)].left = @ \ {n}])
    /\ UNCHANGED <<workflow, links, pending, visited>>

\* The end of a visit.
Leave ==
    /\ Visiting /\ Innermost.left = {}
    /\ active' = active \ {Innermost.node} /\ visited' = visited \cup {Innermost.node}
    /\ path' = SubSeq(path, 1, Len(path) - 1)
    /\ UNCHANGED <<workflow, verdictOf, links, pending>>

Accept ==
    /\ verdictOf = "walk" /\ path = <<>> /\ pending = {}
    /\ verdictOf' = "accepted"
    /\ UNCHANGED <<workflow, links, pending, path, visited, active>>

CheckNext ==
    \/ PrepareWorkflow \/ CheckSchema \/ Leave \/ Accept
    \/ \E n \in Ids : NextRoot(n) \/ Follow(n)

CheckSpec == CheckInit /\ [][CheckNext]_checkVars

-----------------------------------------------------------------------------
\* Some nodes each depend on another of them: as there are finitely many, along a cycle.
Cyclic == \E round \in SUBSET workflow.present :
    round # {} /\ \A n \in round : links[n] \cap round # {}

\* The walk keeps what it is in and what it is done with apart, and what it is done with
\* depends on nothing else (comfyui_runtime.py:180-189).
CheckTypeOK ==
    /\ active = {path[i].node : i \in DOMAIN path} \/ verdictOf = "cycle"
    /\ active \cap visited = {} /\ \A n \in visited : links[n] \subseteq visited

\* A graph is refused as cyclic if and only if it has a cycle, in whatever order the nodes
\* are listed; nodes two others depend on are no cycle (comfyui_runtime.py:179-191).
CyclesFound ==
    /\ verdictOf = "cycle" => Cyclic
    /\ verdictOf = "accepted" => ~Cyclic

\* What is accepted has a node for every link, the overridden ones included, and saves
\* something (comfyui_runtime.py:118-124, 157-178).
AcceptedIsWhole == verdictOf = "accepted" =>
    /\ \A n \in workflow.present : links[n] \subseteq workflow.present
    /\ workflow.saving \cap workflow.present # {}

\* An exported graph is accepted only if it is whole, and refused as cyclic only if it is.
AcceptedIsSound == CheckTypeOK /\ CyclesFound /\ AcceptedIsWhole
=============================================================================
