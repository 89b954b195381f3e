---------------------------- MODULE DerivedGraph ----------------------------
(***************************************************************************)
(* The graph derived from the memories of one scope: nodes, edges from a   *)
(* memory's item node to its entity nodes, and the evidence rows that link *)
(* both to memories (store.py, memory_graph_* and *_evidence tables).      *)
(*                                                                         *)
(* Each action is one whole transaction: approval of a candidate, a        *)
(* lifecycle change, a correction or rollback, optimize_graph(             *)
(* "consolidate_duplicates").  All items have one node type.               *)
(***************************************************************************)
EXTENDS Naturals, FiniteSets

CONSTANTS
    Mem,            \* memories
    Text,           \* texts; two of them differ within the 80 characters of a label
    Entity,         \* keys of the entities a text may name
    ItemTyped,      \* entities with the node type of items (the rules' "fact" node)
    Alias,          \* Alias[e]: the key of e without GRAPH_CONSOLIDATION_SUFFIXES
    Item,           \* the slot of a memory's item node
    NoKey,          \* the key "merged-..." no upsert ever asks for
    MaxCorrections  \* bound: corrections and rollbacks

ASSUME KeysAssumption == Item \notin Entity /\ ItemTyped \subseteq Entity
ASSUME BoundAssumption == MaxCorrections \in Nat
\* Bound: at most two keys are forms of one name.
ASSUME AliasAssumption ==
    \A e, f, g \in Entity : Alias[e] = Alias[f] /\ Alias[f] = Alias[g]
                              => e = f \/ f = g \/ e = g

VARIABLES
    mem,        \* status of each memory and of its item
    text,       \* memories.text, and the quote of the memory's evidence
    node,       \* memory_graph_nodes
    edge,       \* memory_graph_edges, by source and target (both are UNIQUE)
    nodeEv,     \* node_evidence: which node which memory supports
    edgeEv,     \* edge_evidence
    corrections

vars == <<mem, text, node, edge, nodeEv, edgeEv, corrections>>

\* A node is named by the memory it was inserted for and what it stood for.
ItemNode == Mem \X {Item}
EntityNode == Mem \X Entity
Node == ItemNode \cup EntityNode
Link == ItemNode \X EntityNode

ItemKey(t) == <<"item", t>>
EntityKey(e) == <<"entity", e>>
Key == {ItemKey(t) : t \in Text} \cup {EntityKey(e) : e \in Entity}
ASSUME NoKeyAssumption == NoKey \notin Key
KeyOf(slot, t) == IF slot = Item THEN ItemKey(t) ELSE EntityKey(slot)

RowStatus == {"none", "active", "inactive"}
NodeRow == [key : Key \cup {NoKey}, status : RowStatus, blob : SUBSET Text]
NoRow == [key |-> NoKey, status |-> "none", blob |-> {}]

TypeOK ==
    /\ mem \in [Mem -> RowStatus]
    /\ text \in [Mem -> Text]
    /\ node \in [Node -> NodeRow]
    /\ edge \in [Link -> RowStatus]
    /\ nodeEv \subseteq Node \X Mem
    /\ edgeEv \subseteq Link \X Mem
    /\ corrections \in 0 .. MaxCorrections

Init ==
    /\ mem = [m \in Mem |-> "none"]
    /\ text \in [Mem -> Text]
    /\ node = [n \in Node |-> NoRow]
    /\ edge = [l \in Link |-> "none"]
    /\ nodeEv = {}
    /\ edgeEv = {}
    /\ corrections = 0

----------------------------------------------------------------------------
\* The existing row with the key, or the row memory m inserts for it.
Holders(key) == {n \in Node : node[n].status # "none" /\ node[n].key = key}
UpsertTarget(m, slot) ==
    LET held == Holders(KeyOf(slot, text[m]))
    IN  IF held = {} THEN <<m, slot>> ELSE CHOOSE n \in held : TRUE

\* Mutant: the upsert revives an inactive node.
UpsertNode_Revives(n, t) ==
    IF node[n].status = "none"
    THEN [key |-> KeyOf(n[2], t), status |-> "active", blob |-> {t}]
    ELSE [node[n] EXCEPT !.status = "active", !.blob = @ \cup {t}]

\* An existing node keeps its status, whatever it is.
UpsertNode(n, t) ==
    IF node[n].status = "none"
    THEN [key |-> KeyOf(n[2], t), status |-> "active", blob |-> {t}]
    ELSE [node[n] EXCEPT !.blob = @ \cup {t}]

\* approve_candidate: _create_memory_graph with the entities E of the text.
Activate(m, E) ==
    LET item == UpsertTarget(m, Item)
        targets == {UpsertTarget(m, e) : e \in E}
    IN  /\ mem[m] = "none"
        /\ mem' = [mem EXCEPT ![m] = "active"]
        /\ node' = [n \in Node |->
                       IF n \in targets \cup {item} THEN UpsertNode(n, text[m]) ELSE node[n]]
        /\ nodeEv' = nodeEv \cup ((targets \cup {item}) \X {m})
        /\ edge' = [l \in Link |-> IF l \in {item} \X targets THEN "active" ELSE edge[l]]
        /\ edgeEv' = edgeEv \cup (({item} \X targets) \X {m})
        /\ UNCHANGED <<text, corrections>>

\* The active memories behind a node or an edge, by a status function s.
NodeSupport(n, s) == {m \in Mem : <<n, m>> \in nodeEv /\ s[m] = "active"}
EdgeSupport(l, s) == {m \in Mem : <<l, m>> \in edgeEv /\ s[m] = "active"}

RefreshedEdge(l, s) == IF EdgeSupport(l, s) = {} THEN "inactive" ELSE "active"

\* Mutant: the blob of a node that keeps some support is not rebuilt.
RefreshedNode_KeepsBlob(n, s) ==
    IF NodeSupport(n, s) = {} THEN [node[n] EXCEPT !.status = "inactive"] ELSE node[n]

\* Mutant: support is counted before the status of the memory changes.
RefreshedNode_OldStatus(n, s) ==
    IF NodeSupport(n, mem) = {}
    THEN [node[n] EXCEPT !.status = "inactive"]
    ELSE [node[n] EXCEPT !.blob = {text[m] : m \in NodeSupport(n, s)}]

\* _refresh_graph_node_from_active_evidence rebuilds the blob, not the status.
RefreshedNode(n, s) ==
    IF NodeSupport(n, s) = {}
    THEN [node[n] EXCEPT !.status = "inactive"]
    ELSE [node[n] EXCEPT !.blob = {text[m] : m \in NodeSupport(n, s)}]

\* delete, distrust, expire or supersede: _propagate_inactive_memory.
Deactivate(m) ==
    LET after == [mem EXCEPT ![m] = "inactive"]
    IN  /\ mem[m] # "none"
        /\ mem' = after
        /\ edge' = [l \in Link |->
                       IF <<l, m>> \in edgeEv THEN RefreshedEdge(l, after) ELSE edge[l]]
        /\ node' = [n \in Node |->
                       IF <<n, m>> \in nodeEv THEN RefreshedNode(n, after) ELSE node[n]]
        /\ UNCHANGED <<text, nodeEv, edgeEv, corrections>>

\* The nodes of the item's type that memory m supports: all get the new key.
Corrected(m) ==
    {n \in Node : /\ <<n, m>> \in nodeEv
                  /\ n[2] \in ItemTyped \cup {Item}}

\* UNIQUE(scope, node_type, canonical_key): otherwise the UPDATE raises and
\* the correction is rolled back with the connection.
Correctable(m, t) ==
    /\ \A n, k \in Corrected(m) : n = k
    /\ Holders(ItemKey(t)) \subseteq Corrected(m)

\* correct_memory and rollback_memory, whatever the status of the memory.
Correct(m, t) ==
    /\ mem[m] # "none"
    /\ t # text[m]
    /\ Correctable(m, t)
    /\ corrections < MaxCorrections
    /\ corrections' = corrections + 1
    /\ text' = [text EXCEPT ![m] = t]
    /\ node' = [n \in Node |->
                   IF n \in Corrected(m)
                   THEN [node[n] EXCEPT !.key = ItemKey(t), !.blob = {t}]
                   ELSE node[n]]
    /\ UNCHANGED <<mem, edge, nodeEv, edgeEv>>

\* Two active entity nodes whose keys are forms of one name.
Twins(n, k) ==
    /\ n # k
    /\ node[n].status = "active" /\ node[k].status = "active"
    /\ \E e, f \in Entity : /\ node[n].key = EntityKey(e)
                            /\ node[k].key = EntityKey(f)
                            /\ Alias[e] = Alias[f]

Canonical(n) == \E e \in Entity : node[n].key = EntityKey(e) /\ Alias[e] = e
EvidenceCount(n) == Cardinality({m \in Mem : <<n, m>> \in nodeEv})

\* The sort key of the winner; importance and label length break ties either way.
Outranks(k, n) ==
    \/ Canonical(k) /\ ~Canonical(n)
    \/ Canonical(k) = Canonical(n) /\ EvidenceCount(k) >= EvidenceCount(n)

\* A row of the loser moves to the winner; where the winner has a row already,
\* that row becomes active and the loser's inactive.  Nobody looks at evidence.
MovedEdges(into) ==
    [l \in Link |->
        LET to == <<l[1], into[l[2]]>>
            from == {<<l[1], n>> : n \in {x \in EntityNode \ {l[2]} : into[x] = l[2]}}
        IN  IF to # l
            THEN IF edge[l] # "none" /\ edge[to] # "none" THEN "inactive" ELSE "none"
            ELSE IF \E f \in from : edge[f] # "none" THEN "active" ELSE edge[l]]

MovedNodeEvidence(into) ==
    {<<IF p[1] \in EntityNode THEN into[p[1]] ELSE p[1], p[2]>> : p \in nodeEv}

MovedEdgeEvidence(into) == {<<<<p[1][1], into[p[1][2]]>>, p[2]>> : p \in edgeEv}

\* Mutant: a status the table's readers do not know.
MergedNode_Status(n, losers, into) ==
    IF n \in losers THEN [node[n] EXCEPT !.status = "merged", !.key = NoKey] ELSE node[n]

MergedNode(n, losers, into) ==
    IF n \in losers
    THEN [node[n] EXCEPT !.status = "inactive", !.key = NoKey]
    ELSE [node[n] EXCEPT !.blob = @ \cup UNION {node[k].blob : k \in {x \in losers : into[x] = n}}]

\* The node that n loses to (there is one at most: AliasAssumption).
Winners(n, losers) == {k \in EntityNode \ losers : Twins(n, k) /\ Outranks(k, n)}

\* optimize_graph("consolidate_duplicates"): of every pair of twins one loses.
Consolidate(losers) ==
    LET into == [n \in EntityNode |->
                    IF n \in losers THEN CHOOSE k \in Winners(n, losers) : TRUE ELSE n]
    IN  /\ losers # {}
        /\ \A n \in losers : Winners(n, losers) # {}
        /\ \A n, k \in EntityNode : Twins(n, k) => n \in losers \/ k \in losers
        /\ node' = [n \in Node |-> MergedNode(n, losers, into)]
        /\ edge' = MovedEdges(into)
        /\ nodeEv' = MovedNodeEvidence(into)
        /\ edgeEv' = MovedEdgeEvidence(into)
        /\ UNCHANGED <<mem, text, corrections>>

Next ==
    \/ \E m \in Mem : \/ \E E \in SUBSET Entity : Activate(m, E)
                      \/ Deactivate(m)
                      \/ \E t \in Text : Correct(m, t)
    \/ \E losers \in SUBSET {n \in EntityNode : node[n].status = "active"} : Consolidate(losers)

Spec == Init /\ [][Next]_vars
----------------------------------------------------------------------------
Merged(n) == node[n].status = "inactive" /\ node[n].key = NoKey

\* A node that is shown has an active memory behind it: no sequence of
\* approvals, deletions, corrections and merges leaves it with dead evidence
\* only (_propagate_inactive_memory against every other writer of nodes).
ActiveNodeHasSupport ==
    \A n \in Node : node[n].status = "active" => NodeSupport(n, mem) # {}

\* Edge evidence never points past its ends: a memory behind an edge is behind
\* both of its nodes, also after optimize_graph moved nodes and edges, which
\* are rewired by separate statements.
EdgeEvidenceMatchesNodes ==
    \A p \in edgeEv : <<p[1][1], p[2]>> \in nodeEv /\ <<p[1][2], p[2]>> \in nodeEv

\* A merged node is forgotten by everything that could lead back to it: no
\* evidence row names it and no active edge ends at it.
ReleasedNodeIsInert ==
    \A n \in Node : Merged(n) =>
        /\ \A m \in Mem : <<n, m>> \notin nodeEv
        /\ \A l \in Link : n \in {l[1], l[2]} =>
              edge[l] # "active" /\ \A m \in Mem : <<l, m>> \notin edgeEv

\* What the graph shows rests on active memories, and its evidence names what it shows.
ShownIsSupported == ActiveNodeHasSupport /\ EdgeEvidenceMatchesNodes /\ ReleasedNodeIsInert

\* A node that a deletion (or a merge) hid stays hidden: retained evidence, a
\* refresh, a correction or a merge never brings it back.
HiddenNodeStaysHidden ==
    [][\A n \in Node : node[n].status = "inactive" => node'[n].status = "inactive"]_vars

\* An edge that is shown has an active memory behind it ("no remaining active
\* evidence" makes it inactive).  Consolidation breaks this: it revives edges.
ActiveEdgeHasSupport ==
    \A l \in Link : edge[l] = "active" => EdgeSupport(l, mem) # {}

\* The blob of a node that is shown says only what the active memories behind
\* it say now: nothing of a deleted memory, nothing a correction replaced.
BlobIsOfActiveMemories ==
    \A n \in Node : node[n].status = "active" =>
        node[n].blob \subseteq {text[m] : m \in NodeSupport(n, mem)}

\* Blobs are right until something is corrected: approvals, deletions and merges
\* keep every shown blob within the current texts of the memories behind it.
BlobsUntilCorrection == corrections = 0 => BlobIsOfActiveMemories

\* Edges are right until something is merged: approvals, deletions and corrections
\* never leave a shown edge without an active memory behind it.
EdgesUntilMerge == (\A n \in Node : ~Merged(n)) => ActiveEdgeHasSupport

\* Approvals and deletions, the operations every memory goes through, keep both right.
ShownIsCurrent == BlobsUntilCorrection /\ EdgesUntilMerge
=============================================================================
