-------------------------- MODULE SyntheticSnapshot --------------------------
(***************************************************************************)
(* The pipeline adapter of synthetic ChatGPT conversations                 *)
(* (adapter-chatgpt/src/synthetic.ts): a conversation is validated         *)
(* (index.ts), a window at the end of its active path is planned           *)
(* (core/src/legacy-index.ts), the selected nodes are copied into a        *)
(* snapshot that is cut loose from the rest, and the snapshot is checked   *)
(* as an independent conversation.                                         *)
(*                                                                         *)
(* A conversation is the graph that the reading of its nodes leaves, any   *)
(* issue of theirs being one refusal; children are sets, since a repeated  *)
(* child is refused.  Contents of nodes are copied and compared whole, and *)
(* are left out.  FailOpenPipeline has the stages around these callbacks.  *)
(***************************************************************************)
EXTENDS Naturals, FiniteSets, Sequences, FiniteSetsExt, SequencesExt

CONSTANTS
    Node,                   \* ids of nodes
    Unresolved,             \* an id that no mapping resolves
    NoNode,                 \* null
    TurnGroup, NoGroup,     \* names of turn groups; no valid name
    GroupLimit,             \* values of maxGroups of the policies
    maxActivePathDepth,
    maxSiblingReferences

ASSUME SyntheticSnapshotAssumption ==
    /\ IsFiniteSet(Node)
    /\ Unresolved \notin Node /\ NoNode \notin Node /\ NoNode # Unresolved
    /\ NoGroup \notin TurnGroup
    /\ GroupLimit \subseteq Nat \ {0}
    /\ maxActivePathDepth \in Nat \ {0} /\ maxSiblingReferences \in Nat \ {0}

VARIABLES
    chat,           \* the conversation: current node, parents, children
    chatPlan,       \* ActivePathSelectionPlan
    chatSnapshot,   \* the graph made of it, with its metadata
    chatStage       \* the callback to come, or the outcome

syntheticVars == <<chat, chatPlan, chatSnapshot, chatStage>>

Mapping(graph) == DOMAIN graph.parent

(***************************************************************************)
(* traceActivePath: the path from the root, empty if there is an issue.    *)
(***************************************************************************)
TraceActivePath(graph) ==
    LET climb[path \in Seq(Mapping(graph))] ==
            LET above == graph.parent[Head(path)] IN
            IF above = NoNode THEN path
            ELSE IF /\ Len(path) < maxActivePathDepth
                    /\ above \in Mapping(graph) \ ToSet(path)
                    /\ Head(path) \in graph.children[above]
                 THEN climb[<<above>> \o path]
                 ELSE <<>>
    IN  IF graph.current \in Mapping(graph) THEN climb[<<graph.current>>]
                                            ELSE <<>>

\* Both directions of every link resolve and agree.
LinksMutual(graph) ==
    \A n \in Mapping(graph) :
        /\ graph.parent[n] # NoNode =>
                /\ graph.parent[n] \in Mapping(graph)
                /\ n \in graph.children[graph.parent[n]]
        /\ \A c \in graph.children[n] :
                c \in Mapping(graph) /\ graph.parent[c] = n

\* validateAllParentChains: no set of nodes has all its parents in itself.
ParentChainsEnd(graph) ==
    \A cycle \in (SUBSET Mapping(graph)) \ {{}} :
        \E n \in cycle : graph.parent[n] \notin cycle

ValidConversation(graph) ==
    /\ graph.current \in Mapping(graph)
    /\ LinksMutual(graph) /\ ParentChainsEnd(graph)
    /\ TraceActivePath(graph) # <<>>

(***************************************************************************)
(* planActivePathWindow                                                    *)
(***************************************************************************)
\* The number of the group of each place on the path: a group is a run of
\* equal keys, and a key that comes back begins another group.
GroupNumber(path, key, i) ==
    1 + Quantify(2..i, LAMBDA j : key[path[j]] # key[path[j - 1]])

SiblingsAndSelf(graph, n) ==
    IF graph.parent[n] \in Mapping(graph) THEN graph.children[graph.parent[n]]
                                          ELSE {}

\* Every child inspected counts, the node itself included.
SiblingReferences(graph, retained) ==
    MapThenSumSet(LAMBDA n : Cardinality(SiblingsAndSelf(graph, n)),
                  ToSet(retained))

PlanFrom(graph, path, first, policy) ==
    LET retained == SubSeq(path, first, Len(path))
        siblings == UNION {SiblingsAndSelf(graph, n) : n \in ToSet(retained)}
        selected == ToSet(retained)
                    \union (IF policy.includeRoot THEN {path[1]} ELSE {})
                    \union (IF policy.includeBranchSiblings THEN siblings ELSE {})
        above == graph.parent[path[first]]
    IN  [activePath |-> path, retained |-> retained,
         omittedPrefix |-> SubSeq(path, 1, first - 1),
         selected |-> selected,
         rootAnchor |-> IF policy.includeRoot THEN path[1] ELSE NoNode,
         omittedParent |-> IF above \in selected THEN NoNode ELSE above]

\* Where the last maxGroups groups of the path begin.
FirstRetained(path, key, maxGroups) ==
    CHOOSE i \in DOMAIN path :
        /\ GroupNumber(path, key, Len(path)) - GroupNumber(path, key, i)
                < maxGroups
        /\ i > 1 => GroupNumber(path, key, Len(path))
                        - GroupNumber(path, key, i - 1) = maxGroups

\* The plan, and whether there is one: a path, a valid key for each of its
\* nodes, siblings that resolve and agree, not too many of them.
PlanActivePathWindow(graph, key, policy) ==
    LET path == TraceActivePath(graph)
        first == FirstRetained(path, key, policy.maxGroups)
        plan == PlanFrom(graph, path, first, policy)
        readable == path # <<>> /\ \A n \in ToSet(path) : key[n] \in TurnGroup
        siblingsRead ==
            /\ SiblingReferences(graph, plan.retained) <= maxSiblingReferences
            /\ \A n \in ToSet(plan.retained) :
                    \A c \in SiblingsAndSelf(graph, n) :
                        /\ c \in Mapping(graph)
                        /\ graph.parent[c] = graph.parent[n]
    IN  IF readable /\ (policy.includeBranchSiblings => siblingsRead)
        THEN [ok |-> TRUE, value |-> plan] ELSE [ok |-> FALSE]

(***************************************************************************)
(* The snapshot                                                            *)
(***************************************************************************)
\* validatePlan: every part of the plan is derived once more.
PlanConsistent(graph, plan) ==
    LET path == TraceActivePath(graph)
        above == graph.parent[plan.retained[1]]
    IN  /\ path # <<>> /\ plan.activePath = path
        /\ plan.omittedPrefix \o plan.retained = path
        /\ graph.current \in plan.selected
        /\ plan.selected \subseteq Mapping(graph)
        /\ plan.retained # <<>>
        /\ plan.omittedParent = IF above \in plan.selected THEN NoNode
                                                           ELSE above

Boundary(plan) ==
    IF plan.omittedParent = NoNode THEN [kind |-> "complete"]
    ELSE [kind |-> "omitted-parent", retainedNode |-> plan.retained[1],
          omittedParent |-> plan.omittedParent,
          omittedCount |-> Len(plan.omittedPrefix)]

\* Faulty variant of CutParent: the parent stays as it was.
KeptParent(graph, plan, n) == graph.parent[n]

CutParent(graph, plan, n) ==
    IF graph.parent[n] \in plan.selected THEN graph.parent[n] ELSE NoNode

DisconnectedRootAnchor(graph, plan) ==
    /\ plan.rootAnchor # NoNode
    /\ plan.rootAnchor \notin ToSet(plan.retained)
    /\ graph.parent[plan.rootAnchor] = NoNode

MaterializeSyntheticSnapshot(graph, plan) ==
    [current |-> graph.current,
     parent |-> [n \in plan.selected |-> CutParent(graph, plan, n)],
     children |-> [n \in plan.selected |-> graph.children[n] \intersect plan.selected],
     omittedNodes |-> Cardinality(Mapping(graph)) - Cardinality(plan.selected),
     omittedChildEdges |->
        MapThenSumSet(LAMBDA n : Cardinality(graph.children[n] \ plan.selected),
                      plan.selected),
     boundary |-> Boundary(plan),
     disconnectedRootAnchor |-> DisconnectedRootAnchor(graph, plan)]

\* validateSyntheticSnapshot: a conversation of its own, and in every part
\* what the plan asks for.
SnapshotValid(candidate, graph, plan) ==
    /\ ValidConversation(candidate)
    /\ candidate = MaterializeSyntheticSnapshot(graph, plan)

(***************************************************************************)
(* The callbacks, in the order of the pipeline                             *)
(***************************************************************************)
NoPlan == [selected |-> {}]
NoSnapshot == [boundary |-> [kind |-> "none"]]

\* Links that are the parents', but for an odd one, a child too many or too
\* few of a node.
Conversation(c, parent, odd) ==
    [current |-> c, parent |-> parent,
     children |-> [n \in Node |->
            LET own == {m \in Node : parent[m] = n} IN
            IF n # odd[1] THEN own
            ELSE (own \ {odd[2]}) \union ({odd[2]} \ own)]]

Policies == [maxGroups : GroupLimit, includeRoot : BOOLEAN,
             includeBranchSiblings : BOOLEAN]

SyntheticInit(currents) ==
    /\ \E c \in currents, parent \in [Node -> Node \union {Unresolved, NoNode}],
          odd \in (Node \X (Node \union {Unresolved}))
                    \union {<<NoNode, NoNode>>} :
            chat = Conversation(c, parent, odd)
    /\ chatPlan = NoPlan /\ chatSnapshot = NoSnapshot
    /\ chatStage = "detect"

\* The fixture's marker: synthetic, absent or malformed.
DetectSynthetic(marker) ==
    /\ chatStage = "detect"
    /\ chatStage' = IF marker = "synthetic" THEN "validate-input" ELSE "refused"
    /\ UNCHANGED <<chat, chatPlan, chatSnapshot>>

ValidateChat ==
    /\ chatStage = "validate-input"
    /\ chatStage' = IF ValidConversation(chat) THEN "plan" ELSE "refused"
    /\ UNCHANGED <<chat, chatPlan, chatSnapshot>>

\* Keys are read off the nodes, the policy is the caller's.
PlanWindow(key, policy) ==
    /\ chatStage = "plan"
    /\ LET answer == PlanActivePathWindow(chat, key, policy) IN
       IF answer.ok
       THEN chatPlan' = answer.value /\ chatStage' = "materialize"
       ELSE chatStage' = "refused" /\ UNCHANGED chatPlan
    /\ UNCHANGED <<chat, chatSnapshot>>

\* A conversation with the reserved field is itself a snapshot.
Materialize(reserved) ==
    /\ chatStage = "materialize"
    /\ IF PlanConsistent(chat, chatPlan) /\ ~reserved
       THEN /\ chatSnapshot' = MaterializeSyntheticSnapshot(chat, chatPlan)
            /\ chatStage' = "validate-output"
       ELSE chatStage' = "refused" /\ UNCHANGED chatSnapshot
    /\ UNCHANGED <<chat, chatPlan>>

ValidateSnapshot ==
    /\ chatStage = "validate-output"
    /\ chatStage' = IF SnapshotValid(chatSnapshot, chat, chatPlan)
                    THEN "transformed" ELSE "disowned"
    /\ UNCHANGED <<chat, chatPlan, chatSnapshot>>

SyntheticNext ==
    \/ \E marker \in {"synthetic", "absent", "malformed"} :
            DetectSynthetic(marker)
    \/ ValidateChat
    \/ \E key \in [Node -> TurnGroup \union {NoGroup}], policy \in Policies :
            PlanWindow(key, policy)
    \/ \E reserved \in BOOLEAN : Materialize(reserved)
    \/ ValidateSnapshot
    \/ chatStage \in {"refused", "transformed"} /\ UNCHANGED syntheticVars

SyntheticSpec ==
    /\ SyntheticInit(Node \union {Unresolved})
    /\ [][SyntheticNext]_syntheticVars

-----------------------------------------------------------------------------
(* Properties                                                              *)

\* A snapshot is a conversation of its own: it passes the validation that
\* the source passed, so the pipeline never throws away what it made itself;
\* its active path is an end of the source's, the whole of it exactly if the
\* boundary says complete, and otherwise short of it by the nodes it counts.
SnapshotStandsAlone ==
    /\ chatStage # "disowned"
    /\ chatSnapshot # NoSnapshot =>
        LET full == TraceActivePath(chat)
            path == TraceActivePath(chatSnapshot)
            said == chatSnapshot.boundary
        IN  /\ ValidConversation(chatSnapshot)
            /\ path = SubSeq(full, Len(full) - Len(path) + 1, Len(full))
            /\ said.kind = "complete" <=> path = full
            /\ said.kind = "omitted-parent" =>
                    said.omittedCount = Len(full) - Len(path)

\* What the documentation says of the metadata: disconnectedRootAnchor records
\* an isolated root.  The code compares the anchor with the retained path
\* only, and a root right above that path is selected with it and linked.
DisconnectedIsIsolated ==
    chatSnapshot # NoSnapshot =>
        (chatSnapshot.disconnectedRootAnchor =>
            chatPlan.rootAnchor \notin ToSet(TraceActivePath(chatSnapshot)))

=============================================================================
