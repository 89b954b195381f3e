---------------------------- MODULE GraphCommands ----------------------------
(***************************************************************************)
(* The graph commands an agent proposes: how they are normalised           *)
(* (graph_commands.py), recorded with a candidate, carried out when it is  *)
(* approved, and what of them is left when its memory is retired           *)
(* (apply_graph_commands, _apply_extraction_graph_commands and             *)
(* _propagate_inactive_memory in store.py).                                *)
(*                                                                         *)
(* Each action is one transaction.  The item node of a memory and the      *)
(* edges from it, which DerivedGraph models, stand and fall with the       *)
(* memory and are left out, as are the kinds of nodes and edges: a node is *)
(* its scope and its label.                                                *)
(***************************************************************************)
EXTENDS Naturals, Sequences, FiniteSets

CONSTANTS
    Draft,          \* candidates that hold commands; a memory goes by its candidate
    Label,          \* labels of nodes
    NoLabel,        \* an end, or a node, that an update does not name
    Home, Abroad,   \* the scope of the candidates, and another one
    Proposed,       \* the lists of updates that are proposed
    Nothing,        \* "no memory is named", in a mark_conflict
    Missing,        \* an id that is no memory's
    MaxCommands     \* updates that are taken from a list (100 in the code)

ASSUME NamesAssumption ==
    /\ Home # Abroad /\ NoLabel \notin Label
    /\ {Nothing, Missing} \cap Draft = {} /\ Nothing # Missing
ASSUME MaxAssumption == MaxCommands \in Nat \ {0}
ASSUME FiniteAssumption == IsFiniteSet(Draft) /\ IsFiniteSet(Label)

VARIABLES
    draft,      \* candidate_memories: status and commands
    memory,     \* memories: status
    gnode,      \* memory_graph_nodes: status
    gedge,      \* memory_graph_edges: status
    nodeProof,  \* node_evidence
    edgeProof,  \* edge_evidence
    clashes,    \* memory_conflicts
    journal,    \* graph_commands: the statuses of the rows of each candidate
    group,      \* memory_graph_groups: active nodes counted in each scope
    strayed     \* history: the other scope was written to since it was counted

graphVars ==
    <<draft, memory, gnode, gedge, nodeProof, edgeProof, clashes, journal, group, strayed>>

Space == {Home, Abroad}
GNode == Space \X Label
GEdge == {e \in GNode \X GNode : e[1][1] = e[2][1]}

\* Updates, as they come: what they ask for, with the fields that matter to it.  An
\* operation that is not known is "other".
Update ==
    [op : {"node", "edge", "conflict", "other"}, scope : Space, label : Label \cup {NoLabel},
     to : Label \cup {NoLabel}, mem : Draft \cup {Nothing, Missing},
     other : Draft \cup {Nothing, Missing}]

ASSUME ProposedAssumption == Proposed \subseteq Seq(Update)

NoDraft == [status |-> "none", commands |-> <<>>]

DraftRow ==
    [status : {"none", "pending", "quarantined", "rejected", "approved"}, commands : Seq(Update)]

GraphTypeOK ==
    /\ draft \in [Draft -> DraftRow]
    /\ memory \in [Draft -> {"none", "active", "inactive"}]
    /\ gnode \in [GNode -> {"none", "active", "inactive"}]
    /\ gedge \in [GEdge -> {"none", "active", "inactive"}]
    /\ nodeProof \subseteq GNode \X Draft /\ edgeProof \subseteq GEdge \X Draft
    /\ clashes \subseteq (Draft \cup {Missing}) \X (Draft \cup {Missing})
    /\ journal \in [Draft -> SUBSET {"proposed", "quarantined", "applied"}]
    /\ group \in [Space -> 0 .. Cardinality(Label) + Cardinality(Draft)]
    /\ strayed \in BOOLEAN

GraphInit ==
    /\ draft = [d \in Draft |-> NoDraft]
    /\ memory = [d \in Draft |-> "none"]
    /\ gnode = [n \in GNode |-> "none"]
    /\ gedge = [e \in GEdge |-> "none"]
    /\ nodeProof = {} /\ edgeProof = {} /\ clashes = {}
    /\ journal = [d \in Draft |-> {}]
    /\ group = [s \in Space |-> 0]
    /\ strayed = FALSE

----------------------------------------------------------------------------
(* Normalisation. *)

\* What is not known is an edge if it names an end to go to, and a node otherwise.
CommandType(u) ==
    IF u.op # "other" THEN u.op ELSE IF u.to # NoLabel THEN "edge" ELSE "node"

\* A node needs a label, an edge both of its ends.
WellFormed(u) ==
    /\ CommandType(u) \in {"node", "edge"} => u.label # NoLabel
    /\ CommandType(u) = "edge" => u.to # NoLabel

\* One bad update refuses the list, and so does an empty one; what is beyond the bound is
\* not looked at.
Taken(list) == SubSeq(list, 1, IF Len(list) < MaxCommands THEN Len(list) ELSE MaxCommands)
Accepted(list) == list # <<>> /\ \A i \in DOMAIN Taken(list) : WellFormed(Taken(list)[i])
Normalized(list) ==
    [i \in DOMAIN Taken(list) |-> [Taken(list)[i] EXCEPT !.op = CommandType(Taken(list)[i])]]

Commands(d) == {draft[d].commands[i] : i \in DOMAIN draft[d].commands}

----------------------------------------------------------------------------
(* What the commands write. *)

EndsOf(c) == IF c.op = "node" THEN {c.label} ELSE IF c.op = "edge" THEN {c.label, c.to} ELSE {}

\* The nodes of a command in the command's scope, and as entities of the candidate in its own.
NodesOf(C) == UNION {{c.scope, Home} \X EndsOf(c) : c \in C}
EdgesOf(C) ==
    {<<<<c.scope, c.label>>, <<c.scope, c.to>>>> : c \in {b \in C : b.op = "edge"}}

\* A conflict is between the memory the command names, or that of the candidate if it names
\* none, and the other one; without an other one it is skipped.
ClashesOf(d, C) ==
    {<<IF c.mem = Nothing THEN d ELSE c.mem, c.other>> :
       c \in {b \in C : b.op = "conflict" /\ b.other # Nothing}}

\* Mutant: a conflict may name what is no memory.
Sound_AnyMemory(d, C) == TRUE

\* FOREIGN KEY: a conflict with an unknown memory raises, and takes the approval with it.
Sound(d, C) == \A pair \in ClashesOf(d, C) : Missing \notin {pair[1], pair[2]}

Shown(nodes, s) == {n \in GNode : n[1] = s /\ nodes[n] = "active"}

\* _refresh_graph_groups, with the item nodes of the active memories.
Count(nodes, mems, s) ==
    Cardinality(Shown(nodes, s))
      + (IF s = Home THEN Cardinality({d \in Draft : mems[d] = "active"}) ELSE 0)

\* _activate_candidate with _create_memory_graph: a node that is there keeps its status, an
\* edge that is there is made active again; the groups of the candidate's scope are counted.
Activate(d, cs) ==
    LET C == {cs[i] : i \in DOMAIN cs}
        nodes == [n \in GNode |-> IF n \in NodesOf(C) /\ gnode[n] = "none"
                                  THEN "active" ELSE gnode[n]]
        mems == [memory EXCEPT ![d] = "active"]
    IN
    /\ Sound(d, C)
    /\ draft' = [draft EXCEPT ![d] = [status |-> "approved", commands |-> cs]]
    /\ memory' = mems
    /\ gnode' = nodes
    /\ gedge' = [e \in GEdge |-> IF e \in EdgesOf(C) THEN "active" ELSE gedge[e]]
    /\ nodeProof' = nodeProof \cup (NodesOf(C) \X {d})
    /\ edgeProof' = edgeProof \cup (EdgesOf(C) \X {d})
    /\ clashes' = clashes \cup ClashesOf(d, C)
    /\ journal' = [journal EXCEPT ![d] = @ \cup {"applied"}]
    /\ group' = [group EXCEPT ![Home] = Count(nodes, mems, Home)]
    /\ strayed' = (strayed \/ \E n \in NodesOf(C) : n[1] = Abroad)

----------------------------------------------------------------------------
(* The operations. *)

\* apply_graph_commands, with what the admission policy says of it.  A memory that is named
\* is one there is, or none.
Propose(d, list, status) ==
    LET cs == Normalized(list) IN
    /\ draft[d] = NoDraft
    /\ \A i \in DOMAIN list : \A m \in {list[i].mem, list[i].other} \cap Draft : memory[m] # "none"
    /\ Accepted(list)
    /\ \/ status = "approved" /\ Activate(d, cs)
       \/ /\ status # "approved"
          /\ draft' = [draft EXCEPT ![d] = [status |-> status, commands |-> cs]]
          /\ journal' = [journal EXCEPT ![d] = {IF status = "pending" THEN "proposed" ELSE status}]
          /\ UNCHANGED <<memory, gnode, gedge, nodeProof, edgeProof, clashes, group, strayed>>

\* approve_candidate: if a command raises, the candidate stays pending.
Approve(d) ==
    /\ draft[d].status = "pending"
    /\ Activate(d, draft[d].commands)

Reject(d) ==
    /\ draft[d].status \in {"pending", "quarantined"}
    /\ draft' = [draft EXCEPT ![d].status = "rejected"]
    /\ UNCHANGED <<memory, gnode, gedge, nodeProof, edgeProof, clashes, journal, group, strayed>>

Backed(x, proof, mems) == \E d \in Draft : <<x, d>> \in proof /\ mems[d] = "active"

\* _propagate_inactive_memory: what the memory was evidence for loses its status with the
\* last active memory behind it, and the groups of every scope it was in are counted.
Retire(d) ==
    LET mems == [memory EXCEPT ![d] = "inactive"]
        mine(x, proof) == <<x, d>> \in proof
        nodes == [n \in GNode |-> IF mine(n, nodeProof) /\ ~Backed(n, nodeProof, mems)
                                  THEN "inactive" ELSE gnode[n]]
        scopes == {Home} \cup {n[1] : n \in {k \in GNode : mine(k, nodeProof)}}
    IN
    /\ memory[d] = "active"
    /\ memory' = mems
    /\ gnode' = nodes
    /\ gedge' = [e \in GEdge |-> IF ~mine(e, edgeProof) THEN gedge[e]
                                 ELSE IF Backed(e, edgeProof, mems) THEN "active" ELSE "inactive"]
    /\ group' = [s \in Space |-> IF s \in scopes THEN Count(nodes, mems, s) ELSE group[s]]
    /\ strayed' = (strayed /\ Abroad \notin scopes)
    /\ UNCHANGED <<draft, nodeProof, edgeProof, clashes, journal>>

GraphNext ==
    \E d \in Draft :
      \/ \E list \in Proposed, status \in {"pending", "quarantined", "approved"} :
           Propose(d, list, status)
      \/ Approve(d) \/ Reject(d) \/ Retire(d)

GraphSpec == GraphInit /\ [][GraphNext]_graphVars

----------------------------------------------------------------------------
(* Properties. *)

\* The commands of a candidate are carried out all together, and only with its memory: an
\* approved candidate is evidence for every node and edge it names, any other one for none of
\* them, and the conflicts on record are those of the approved ones.
AllOrNothing ==
    /\ \A d \in Draft :
         LET C == Commands(d)
             done ==
               {n \in GNode : <<n, d>> \in nodeProof} \cup {e \in GEdge : <<e, d>> \in edgeProof}
         IN  /\ done = IF draft[d].status = "approved" THEN NodesOf(C) \cup EdgesOf(C) ELSE {}
             /\ "applied" \in journal[d] <=> draft[d].status = "approved"
             /\ "quarantined" \in journal[d] => draft[d].status \in {"quarantined", "rejected"}
    /\ clashes = UNION {ClashesOf(d, Commands(d)) : d \in {b \in Draft : draft[b].status = "approved"}}

\* What the commands leave in the graph rests on active memories, conflicts name memories
\* that are there, and the groups count what is shown, unless a command of another scope
\* wrote to theirs since.
GraphRestsOnMemories ==
    /\ \A n \in GNode : gnode[n] = "active" => Backed(n, nodeProof, memory)
    /\ \A e \in GEdge : gedge[e] = "active" => Backed(e, edgeProof, memory)
    /\ \A pair \in clashes : \A m \in {pair[1], pair[2]} : m \in Draft /\ memory[m] # "none"
    /\ \A s \in Space : s = Home \/ ~strayed => group[s] = Count(gnode, memory, s)

CommandsFollowTheirMemory == AllOrNothing /\ GraphRestsOnMemories
=============================================================================
