------------------------- MODULE DerivedGraphProofs -------------------------
(***************************************************************************)
(* Proofs about DerivedGraph for any memories, texts, entities and number  *)
(* of corrections.  Inv is what every writer of the graph keeps; two more  *)
(* theorems say what holds until something is corrected, and until        *)
(* something is merged.                                                    *)
(***************************************************************************)
EXTENDS DerivedGraph, TLAPS

\* No row was inserted for a memory that is not approved yet.
FreshRows ==
    \A n \in Node : mem[n[1]] = "none" => node[n].status = "none"

\* Item nodes have keys of items, entity nodes of entities (or none, merged).
KeyMatchesSlot ==
    \A n \in Node : node[n].status # "none" =>
        /\ n \in ItemNode => \E t \in Text : node[n].key = ItemKey(t)
        /\ n \in EntityNode =>
              node[n].key = NoKey \/ \E e \in Entity : node[n].key = EntityKey(e)

\* Only a merge takes the key away, and it hides the node.
ActiveHasKey ==
    \A n \in Node : node[n].status = "active" => node[n].key # NoKey

\* An approved memory supports an item node.
ApprovedHasItem ==
    \A m \in Mem : mem[m] # "none" => \E n \in ItemNode : <<n, m>> \in nodeEv

\* Evidence is there for approved memories and existing rows only.
EvidenceOfRows ==
    \A p \in nodeEv : mem[p[2]] # "none" /\ node[p[1]].status # "none"

Inv ==
    /\ TypeOK
    /\ FreshRows
    /\ KeyMatchesSlot
    /\ ActiveHasKey
    /\ ApprovedHasItem
    /\ EvidenceOfRows
    /\ ActiveNodeHasSupport
    /\ EdgeEvidenceMatchesNodes
    /\ ReleasedNodeIsInert

\* UNIQUE(scope, node_type, canonical_key)
KeysUnique ==
    \A n, k \in Node :
        /\ node[n].status # "none" /\ node[k].status # "none"
        /\ node[n].key = node[k].key /\ node[n].key # NoKey
        => n = k

----------------------------------------------------------------------------
LEMMA InitInv == Init => Inv /\ KeysUnique
  BY BoundAssumption
     DEF Init, Inv, KeysUnique, TypeOK, FreshRows, KeyMatchesSlot, ActiveHasKey,
         ApprovedHasItem, EvidenceOfRows, ActiveNodeHasSupport, EdgeEvidenceMatchesNodes,
         ReleasedNodeIsInert, Merged, NoRow, NodeRow, RowStatus

\* Item nodes and entity nodes are told apart by their slot.
LEMMA NodeSlots ==
    /\ \A n \in Node : n = <<n[1], n[2]>> /\ n[1] \in Mem /\ n[2] \in Entity \cup {Item}
    /\ \A n \in Node : n \in ItemNode <=> n[2] = Item
    /\ \A n \in Node : n \in EntityNode <=> n[2] \in Entity
    /\ ItemNode \cap EntityNode = {}
  BY KeysAssumption DEF Node, ItemNode, EntityNode

LEMMA KeysDiffer ==
    /\ \A t \in Text, e \in Entity : ItemKey(t) # EntityKey(e)
    /\ \A t, u \in Text : ItemKey(t) = ItemKey(u) => t = u
    /\ \A e, f \in Entity : EntityKey(e) = EntityKey(f) => e = f
    /\ \A t \in Text : ItemKey(t) \in Key /\ ItemKey(t) # NoKey
    /\ \A e \in Entity : EntityKey(e) \in Key /\ EntityKey(e) # NoKey
  BY NoKeyAssumption DEF ItemKey, EntityKey, Key

\* The node an upsert finds or inserts has the kind it was asked for.
LEMMA UpsertTargets ==
    ASSUME Inv, NEW m \in Mem, mem[m] = "none", NEW slot \in Entity \cup {Item}
    PROVE  LET n == UpsertTarget(m, slot)
           IN  /\ n \in Node
               /\ slot = Item => n \in ItemNode
               /\ slot \in Entity => n \in EntityNode
               /\ KeyOf(slot, text[m]) \in Key /\ KeyOf(slot, text[m]) # NoKey
               /\ \/ n = <<m, slot>> /\ node[n].status = "none"
                     /\ Holders(KeyOf(slot, text[m])) = {}
                  \/ node[n].status # "none" /\ node[n].key = KeyOf(slot, text[m])
<1> DEFINE key == KeyOf(slot, text[m])
           n == UpsertTarget(m, slot)
<1>1. key \in Key /\ key # NoKey
  BY KeysDiffer, KeysAssumption DEF KeyOf, Inv, TypeOK
<1>2. CASE Holders(key) = {}
  <2>1. n = <<m, slot>> /\ n \in Node
    BY <1>2 DEF UpsertTarget, Node, ItemNode, EntityNode
  <2>2. node[n].status = "none"
    BY <2>1 DEF Inv, FreshRows
  <2> QED
    BY <1>1, <1>2, <2>1, <2>2, NodeSlots
<1>3. CASE Holders(key) # {}
  <2>1. n \in Holders(key)
    BY <1>3 DEF UpsertTarget
  <2>2. n \in Node /\ node[n].status # "none" /\ node[n].key = key
    BY <2>1 DEF Holders
  <2>3. slot = Item => n \in ItemNode
    <3>1. SUFFICES ASSUME slot = Item, n \in EntityNode PROVE FALSE
      BY <2>2 DEF Node
    <3>2. key = ItemKey(text[m]) /\ text[m] \in Text
      BY <3>1 DEF KeyOf, Inv, TypeOK
    <3> QED
      BY <2>2, <3>1, <3>2, KeysDiffer DEF Inv, KeyMatchesSlot
  <2>4. slot \in Entity => n \in EntityNode
    <3>1. SUFFICES ASSUME slot \in Entity, n \in ItemNode PROVE FALSE
      BY <2>2 DEF Node
    <3>2. key = EntityKey(slot)
      BY <3>1, KeysAssumption DEF KeyOf
    <3> QED
      BY <2>2, <3>1, <3>2, KeysDiffer DEF Inv, KeyMatchesSlot
  <2> QED
    BY <1>1, <2>2, <2>3, <2>4
<1> QED
  BY <1>2, <1>3

\* What an approval does, with the nodes it upserts as fixed values: a node it
\* inserts is the memory's own and has a key no other row has.
LEMMA ActivateShape ==
    ASSUME Inv, NEW m \in Mem, NEW E \in SUBSET Entity, Activate(m, E)
    PROVE  \E item \in ItemNode, targets \in SUBSET EntityNode :
             /\ mem[m] = "none"
             /\ mem' = [mem EXCEPT ![m] = "active"]
             /\ text' = text
             /\ corrections' = corrections
             /\ node' = [n \in Node |->
                           IF n \in targets \cup {item} THEN UpsertNode(n, text[m]) ELSE node[n]]
             /\ nodeEv' = nodeEv \cup ((targets \cup {item}) \X {m})
             /\ edge' = [l \in Link |-> IF l \in {item} \X targets THEN "active" ELSE edge[l]]
             /\ edgeEv' = edgeEv \cup (({item} \X targets) \X {m})
             /\ \A n \in targets \cup {item} :
                  \/ /\ node[n].status = "none" /\ n[1] = m
                     /\ Holders(KeyOf(n[2], text[m])) = {}
                  \/ node[n].status # "none" /\ node[n].key # NoKey
<1> DEFINE item == UpsertTarget(m, Item)
           targets == {UpsertTarget(m, e) : e \in E}
<1>1. mem[m] = "none"
  BY DEF Activate
<1>2. item \in ItemNode /\ targets \in SUBSET EntityNode
  BY <1>1, UpsertTargets
<1>3. ASSUME NEW n \in targets \cup {item}
      PROVE  \/ /\ node[n].status = "none" /\ n[1] = m
                /\ Holders(KeyOf(n[2], text[m])) = {}
             \/ node[n].status # "none" /\ node[n].key # NoKey
  <2>1. PICK slot \in Entity \cup {Item} : n = UpsertTarget(m, slot)
    BY <1>3
  <2> QED
    BY <2>1, <1>1, UpsertTargets
<1> QED
  BY <1>1, <1>2, <1>3 DEF Activate

LEMMA ActivateInv ==
    ASSUME Inv, KeysUnique, NEW m \in Mem, NEW E \in SUBSET Entity, Activate(m, E)
    PROVE  Inv' /\ KeysUnique'
<1>1. PICK item \in ItemNode :
        \E targets \in SUBSET EntityNode :
             /\ mem[m] = "none"
             /\ mem' = [mem EXCEPT ![m] = "active"]
             /\ text' = text
             /\ corrections' = corrections
             /\ node' = [n \in Node |->
                           IF n \in targets \cup {item} THEN UpsertNode(n, text[m]) ELSE node[n]]
             /\ nodeEv' = nodeEv \cup ((targets \cup {item}) \X {m})
             /\ edge' = [l \in Link |-> IF l \in {item} \X targets THEN "active" ELSE edge[l]]
             /\ edgeEv' = edgeEv \cup (({item} \X targets) \X {m})
             /\ \A n \in targets \cup {item} :
                  \/ /\ node[n].status = "none" /\ n[1] = m
                     /\ Holders(KeyOf(n[2], text[m])) = {}
                  \/ node[n].status # "none" /\ node[n].key # NoKey
  BY ActivateShape
<1>2. PICK targets \in SUBSET EntityNode :
             /\ mem[m] = "none"
             /\ mem' = [mem EXCEPT ![m] = "active"]
             /\ text' = text
             /\ corrections' = corrections
             /\ node' = [n \in Node |->
                           IF n \in targets \cup {item} THEN UpsertNode(n, text[m]) ELSE node[n]]
             /\ nodeEv' = nodeEv \cup ((targets \cup {item}) \X {m})
             /\ edge' = [l \in Link |-> IF l \in {item} \X targets THEN "active" ELSE edge[l]]
             /\ edgeEv' = edgeEv \cup (({item} \X targets) \X {m})
             /\ \A n \in targets \cup {item} :
                  \/ /\ node[n].status = "none" /\ n[1] = m
                     /\ Holders(KeyOf(n[2], text[m])) = {}
                  \/ node[n].status # "none" /\ node[n].key # NoKey
  BY <1>1
<1> DEFINE touched == targets \cup {item}
<1>3. touched \subseteq Node /\ text[m] \in Text
  BY DEF Node, Inv, TypeOK
<1>4. ASSUME NEW n \in Node
      PROVE  /\ n \notin touched => node'[n] = node[n]
             /\ n \in touched /\ node[n].status = "none" =>
                  /\ n[1] = m
                  /\ Holders(KeyOf(n[2], text[m])) = {}
                  /\ node'[n].key = KeyOf(n[2], text[m])
                  /\ node'[n].status = "active"
             /\ n \in touched /\ node[n].status # "none" =>
                  /\ node[n].key # NoKey
                  /\ node'[n].key = node[n].key
                  /\ node'[n].status = node[n].status
  <2>1. node[n] \in NodeRow /\ node'[n] = IF n \in touched THEN UpsertNode(n, text[m]) ELSE node[n]
    BY <1>2 DEF Inv, TypeOK
  <2>2. /\ node[n].status = "none" =>
             UpsertNode(n, text[m]).key = KeyOf(n[2], text[m])
             /\ UpsertNode(n, text[m]).status = "active"
        /\ node[n].status # "none" =>
             UpsertNode(n, text[m]).key = node[n].key
             /\ UpsertNode(n, text[m]).status = node[n].status
    BY <2>1 DEF UpsertNode, NodeRow
  <2> QED
    BY <1>2, <2>1, <2>2
<1>5. ASSUME NEW n \in Node
      PROVE  KeyOf(n[2], text[m]) \in Key /\ KeyOf(n[2], text[m]) # NoKey
  BY <1>3, NodeSlots, KeysDiffer, KeysAssumption DEF KeyOf
<1>6. TypeOK'
  <2>1. node' \in [Node -> NodeRow]
    <3>1. ASSUME NEW n \in Node
          PROVE  UpsertNode(n, text[m]) \in NodeRow
      BY <1>3, <1>5 DEF UpsertNode, Inv, TypeOK, NodeRow, RowStatus
    <3> QED
      BY <1>2, <3>1 DEF Inv, TypeOK
  <2>2. mem' \in [Mem -> RowStatus] /\ edge' \in [Link -> RowStatus]
    BY <1>2 DEF Inv, TypeOK, RowStatus
  <2>3. nodeEv' \subseteq Node \X Mem
    BY <1>2, <1>3 DEF Inv, TypeOK
  <2>4. edgeEv' \subseteq Link \X Mem
    BY <1>2 DEF Inv, TypeOK, Link
  <2> QED
    BY <1>2, <2>1, <2>2, <2>3, <2>4 DEF Inv, TypeOK
<1>7. FreshRows'
  BY <1>2, <1>4, NodeSlots DEF Inv, TypeOK, FreshRows
<1>8. KeyMatchesSlot'
  <2>1. SUFFICES ASSUME NEW n \in Node, node'[n].status # "none"
                 PROVE  /\ n \in ItemNode => \E t \in Text : node'[n].key = ItemKey(t)
                        /\ n \in EntityNode =>
                             node'[n].key = NoKey \/ \E e \in Entity : node'[n].key = EntityKey(e)
    BY DEF KeyMatchesSlot
  <2>2. CASE node[n].status # "none"
    BY <1>4, <2>2 DEF Inv, KeyMatchesSlot
  <2>3. CASE node[n].status = "none"
    <3>1. node'[n].key = KeyOf(n[2], text[m])
      BY <1>4, <2>1, <2>3
    <3> QED
      BY <1>3, <3>1, NodeSlots, KeysAssumption DEF KeyOf
  <2> QED
    BY <2>2, <2>3
<1>9. ApprovedHasItem'
  BY <1>2 DEF Inv, TypeOK, ApprovedHasItem
<1>10. EvidenceOfRows'
  <2>1. SUFFICES ASSUME NEW p \in nodeEv'
                 PROVE  mem'[p[2]] # "none" /\ node'[p[1]].status # "none"
    BY DEF EvidenceOfRows
  <2>2. p[1] \in Node /\ p[2] \in Mem
    BY <1>6 DEF TypeOK
  <2>3. nodeEv' = nodeEv \cup (touched \X {m}) /\ mem' = [mem EXCEPT ![m] = "active"]
    BY <1>2
  <2>4. p \in nodeEv \/ (p[1] \in touched /\ p[2] = m)
    BY <2>3
  <2>5. mem'[p[2]] # "none"
    BY <2>2, <2>3, <2>4 DEF Inv, TypeOK, EvidenceOfRows
  <2>6. node'[p[1]].status # "none"
    BY <1>4, <2>2, <2>4 DEF Inv, EvidenceOfRows
  <2> QED
    BY <2>5, <2>6
<1>11. ActiveNodeHasSupport'
  <2>1. SUFFICES ASSUME NEW n \in Node, node'[n].status = "active"
                 PROVE  \E x \in Mem : <<n, x>> \in nodeEv' /\ mem'[x] = "active"
    BY DEF ActiveNodeHasSupport, NodeSupport
  <2>2. CASE n \in touched
    BY <1>2, <2>2 DEF Inv, TypeOK
  <2>3. CASE n \notin touched
    <3>1. PICK x \in Mem : <<n, x>> \in nodeEv /\ mem[x] = "active"
      BY <1>4, <2>1, <2>3 DEF Inv, ActiveNodeHasSupport, NodeSupport
    <3> QED
      BY <1>2, <3>1 DEF Inv, TypeOK
  <2> QED
    BY <2>2, <2>3
<1>12. EdgeEvidenceMatchesNodes'
  BY <1>2 DEF Inv, EdgeEvidenceMatchesNodes
<1>13. ReleasedNodeIsInert'
  <2>1. SUFFICES ASSUME NEW n \in Node, node'[n].status = "inactive", node'[n].key = NoKey
                 PROVE  /\ \A x \in Mem : <<n, x>> \notin nodeEv'
                        /\ \A l \in Link : n \in {l[1], l[2]} =>
                             edge'[l] # "active" /\ \A x \in Mem : <<l, x>> \notin edgeEv'
    BY DEF ReleasedNodeIsInert, Merged
  <2>2. n \notin touched
    BY <1>4, <1>5, <2>1
  <2>3. node[n].status = "inactive" /\ node[n].key = NoKey
    BY <1>4, <2>1, <2>2
  <2> QED
    BY <1>2, <2>2, <2>3 DEF Inv, TypeOK, ReleasedNodeIsInert, Merged
<1>14. ActiveHasKey'
  BY <1>4, <1>5 DEF Inv, ActiveHasKey
<1>15. KeysUnique'
  <2>1. SUFFICES ASSUME NEW n \in Node, NEW k \in Node,
                        node'[n].status # "none", node'[k].status # "none",
                        node'[n].key = node'[k].key, node'[n].key # NoKey
                 PROVE  n = k
    BY DEF KeysUnique
  <2>2. ASSUME NEW x \in Node, node'[x].status # "none", node[x].status # "none"
        PROVE  node'[x].key = node[x].key
    BY <1>4, <2>2
  <2>3. ASSUME NEW x \in Node, node'[x].status # "none", node[x].status = "none"
        PROVE  /\ node'[x].key = KeyOf(x[2], text[m]) /\ x[1] = m
               /\ \A y \in Node : node[y].status # "none" => node[y].key # KeyOf(x[2], text[m])
    BY <1>4, <2>3 DEF Holders
  <2>4. CASE node[n].status # "none" /\ node[k].status # "none"
    BY <2>1, <2>2, <2>4 DEF KeysUnique
  <2>5. CASE node[n].status = "none" /\ node[k].status = "none"
    <3>1. KeyOf(n[2], text[m]) = KeyOf(k[2], text[m]) /\ n[1] = k[1]
      BY <2>1, <2>3, <2>5
    <3>2. n[2] = k[2]
      BY <1>3, <3>1, NodeSlots, KeysDiffer, KeysAssumption DEF KeyOf
    <3> QED
      BY <3>1, <3>2, NodeSlots
  <2> QED
    BY <2>1, <2>2, <2>3, <2>4, <2>5
<1> QED
  BY <1>6, <1>7, <1>8, <1>9, <1>10, <1>11, <1>12, <1>13, <1>14, <1>15 DEF Inv

\* A deactivation keeps every key, inserts no row and hides only.
LEMMA DeactivateNodes ==
    ASSUME Inv, NEW m \in Mem, Deactivate(m), NEW n \in Node
    PROVE  /\ node'[n] \in NodeRow
           /\ node'[n].key = node[n].key
           /\ node'[n].status = "none" <=> node[n].status = "none"
           /\ node[n].status = "inactive" => node'[n].status = "inactive"
           /\ node'[n].status = "active" =>
                /\ node[n].status = "active"
                /\ \E x \in Mem : <<n, x>> \in nodeEv /\ mem'[x] = "active"
<1> DEFINE after == [mem EXCEPT ![m] = "inactive"]
<1>1. /\ mem' = after
      /\ node'[n] = IF <<n, m>> \in nodeEv THEN RefreshedNode(n, after) ELSE node[n]
  BY DEF Deactivate
<1>2. node[n] \in NodeRow
  BY DEF Inv, TypeOK
<1>3. CASE <<n, m>> \notin nodeEv
  <2>1. node'[n] = node[n]
    BY <1>1, <1>3
  <2>2. ASSUME node[n].status = "active"
        PROVE  \E x \in Mem : <<n, x>> \in nodeEv /\ mem'[x] = "active"
    <3>1. PICK x \in Mem : <<n, x>> \in nodeEv /\ mem[x] = "active"
      BY <2>2 DEF Inv, ActiveNodeHasSupport, NodeSupport
    <3> QED
      BY <1>1, <1>3, <3>1 DEF Inv, TypeOK
  <2> QED
    BY <1>2, <2>1, <2>2
<1>4. CASE <<n, m>> \in nodeEv /\ NodeSupport(n, after) = {}
  <2>1. node'[n] = [node[n] EXCEPT !.status = "inactive"]
    BY <1>1, <1>4 DEF RefreshedNode
  <2>2. node[n].status # "none"
    BY <1>4 DEF Inv, EvidenceOfRows
  <2> QED
    BY <1>2, <2>1, <2>2 DEF NodeRow, RowStatus
<1>5. CASE <<n, m>> \in nodeEv /\ NodeSupport(n, after) # {}
  <2>1. node'[n] = [node[n] EXCEPT !.blob = {text[x] : x \in NodeSupport(n, after)}]
    BY <1>1, <1>5 DEF RefreshedNode
  <2>2. {text[x] : x \in NodeSupport(n, after)} \in SUBSET Text
    BY DEF NodeSupport, Inv, TypeOK
  <2>3. \E x \in Mem : <<n, x>> \in nodeEv /\ mem'[x] = "active"
    BY <1>1, <1>5 DEF NodeSupport
  <2> QED
    BY <1>2, <2>1, <2>2, <2>3 DEF NodeRow, RowStatus
<1> QED
  BY <1>3, <1>4, <1>5

LEMMA DeactivateInv ==
    ASSUME Inv, KeysUnique, NEW m \in Mem, Deactivate(m)
    PROVE  Inv' /\ KeysUnique'
<1>1. /\ mem[m] # "none"
      /\ mem' = [mem EXCEPT ![m] = "inactive"]
      /\ UNCHANGED <<text, nodeEv, edgeEv, corrections>>
  BY DEF Deactivate
<1>2. ASSUME NEW l \in Link
      PROVE  /\ edge'[l] \in RowStatus
             /\ (\A x \in Mem : <<l, x>> \notin edgeEv) => edge'[l] = edge[l]
  BY DEF Deactivate, RefreshedEdge, RowStatus, Inv, TypeOK
<1>3. TypeOK'
  <2>1. node' \in [Node -> NodeRow]
    <3>1. node' = [n \in Node |-> node'[n]]
      BY DEF Deactivate
    <3> QED
      BY <3>1, DeactivateNodes
  <2>2. edge' \in [Link -> RowStatus]
    <3>1. edge' = [l \in Link |-> edge'[l]]
      BY DEF Deactivate
    <3> QED
      BY <1>2, <3>1
  <2>3. mem' \in [Mem -> RowStatus]
    BY <1>1 DEF Inv, TypeOK, RowStatus
  <2> QED
    BY <1>1, <2>1, <2>2, <2>3 DEF Inv, TypeOK
<1>4. \A x \in Mem : mem'[x] = "none" <=> mem[x] = "none"
  BY <1>1 DEF Inv, TypeOK
<1>5. FreshRows'
  BY <1>4, DeactivateNodes, NodeSlots DEF Inv, FreshRows
<1>6. KeyMatchesSlot'
  BY DeactivateNodes DEF Inv, KeyMatchesSlot
<1>7. ApprovedHasItem'
  BY <1>1, <1>4 DEF Inv, ApprovedHasItem
<1>8. EvidenceOfRows'
  <2>1. \A p \in nodeEv : p[1] \in Node /\ p[2] \in Mem
    BY DEF Inv, TypeOK
  <2> QED
    BY <1>1, <1>4, <2>1, DeactivateNodes DEF Inv, EvidenceOfRows
<1>9. ActiveNodeHasSupport'
  BY <1>1, DeactivateNodes DEF ActiveNodeHasSupport, NodeSupport
<1>10. EdgeEvidenceMatchesNodes'
  BY <1>1 DEF Inv, EdgeEvidenceMatchesNodes
<1>11. ReleasedNodeIsInert'
  <2>1. SUFFICES ASSUME NEW n \in Node, node'[n].status = "inactive", node'[n].key = NoKey
                 PROVE  /\ \A x \in Mem : <<n, x>> \notin nodeEv'
                        /\ \A l \in Link : n \in {l[1], l[2]} =>
                             edge'[l] # "active" /\ \A x \in Mem : <<l, x>> \notin edgeEv'
    BY DEF ReleasedNodeIsInert, Merged
  <2>2. node[n].status = "inactive" /\ node[n].key = NoKey
    BY <2>1, DeactivateNodes DEF Inv, ActiveHasKey, TypeOK, NodeRow, RowStatus
  <2> QED
    BY <1>1, <1>2, <2>2 DEF Inv, ReleasedNodeIsInert, Merged
<1>12. KeysUnique'
  BY DeactivateNodes DEF KeysUnique
<1>13. ActiveHasKey'
  BY DeactivateNodes DEF Inv, ActiveHasKey
<1> QED
  BY <1>3, <1>5, <1>6, <1>7, <1>8, <1>9, <1>10, <1>11, <1>12, <1>13 DEF Inv

\* A correction that goes through rewrites one row, an item node.
LEMMA CorrectShape ==
    ASSUME Inv, NEW m \in Mem, NEW t \in Text, Correct(m, t)
    PROVE  \E item \in ItemNode :
             /\ node' = [n \in Node |->
                           IF n = item THEN [node[n] EXCEPT !.key = ItemKey(t), !.blob = {t}]
                                       ELSE node[n]]
             /\ node[item].status # "none"
             /\ node[item].key # NoKey
             /\ Holders(ItemKey(t)) \subseteq {item}
<1>1. PICK item \in ItemNode : <<item, m>> \in nodeEv
  BY DEF Correct, Inv, ApprovedHasItem
<1>2. Corrected(m) = {item}
  <2>1. item \in Node /\ item[2] = Item
    BY NodeSlots DEF Node
  <2>2. item \in Corrected(m)
    BY <1>1, <2>1 DEF Corrected
  <2>3. \A n, k \in Corrected(m) : n = k
    BY DEF Correct, Correctable
  <2> QED
    BY <2>2, <2>3
<1>3. node[item].status # "none"
  BY <1>1 DEF Inv, EvidenceOfRows
<1>4. node[item].key # NoKey
  BY <1>3, KeysDiffer DEF Inv, KeyMatchesSlot, Node
<1>5. \A n \in Node : n \in Corrected(m) <=> n = item
  BY <1>2
<1> QED
  BY <1>2, <1>3, <1>4, <1>5 DEF Correct, Correctable

LEMMA CorrectInv ==
    ASSUME Inv, KeysUnique, NEW m \in Mem, NEW t \in Text, Correct(m, t)
    PROVE  Inv' /\ KeysUnique'
<1>1. PICK item \in ItemNode :
             /\ node' = [n \in Node |->
                           IF n = item THEN [node[n] EXCEPT !.key = ItemKey(t), !.blob = {t}]
                                       ELSE node[n]]
             /\ node[item].status # "none"
             /\ node[item].key # NoKey
             /\ Holders(ItemKey(t)) \subseteq {item}
  BY CorrectShape
<1>2. /\ text' = [text EXCEPT ![m] = t]
      /\ corrections' \in 0 .. MaxCorrections
      /\ UNCHANGED <<mem, edge, nodeEv, edgeEv>>
  <2>1. corrections \in 0 .. MaxCorrections
    BY DEF Inv, TypeOK
  <2>2. corrections < MaxCorrections /\ corrections' = corrections + 1
    BY DEF Correct
  <2>3. corrections' \in 0 .. MaxCorrections
    BY <2>1, <2>2, BoundAssumption
  <2> QED
    BY <2>3 DEF Correct
<1>3. ItemKey(t) \in Key /\ ItemKey(t) # NoKey
  BY KeysDiffer
<1>4. ASSUME NEW n \in Node
      PROVE  /\ node'[n] \in NodeRow
             /\ node'[n].status = node[n].status
             /\ node'[n].key = IF n = item THEN ItemKey(t) ELSE node[n].key
  BY <1>1, <1>3 DEF Inv, TypeOK, NodeRow
<1>5. TypeOK'
  BY <1>1, <1>2, <1>4 DEF Inv, TypeOK
<1>6. FreshRows' /\ ApprovedHasItem'
  BY <1>2, <1>4 DEF Inv, FreshRows, ApprovedHasItem
<1>7. EvidenceOfRows'
  BY <1>2, <1>4 DEF Inv, TypeOK, EvidenceOfRows
<1>8. KeyMatchesSlot'
  BY <1>4, NodeSlots DEF Inv, KeyMatchesSlot
<1>9. ActiveHasKey'
  BY <1>3, <1>4 DEF Inv, ActiveHasKey
<1>10. ActiveNodeHasSupport'
  BY <1>2, <1>4 DEF Inv, ActiveNodeHasSupport, NodeSupport
<1>11. EdgeEvidenceMatchesNodes'
  BY <1>2 DEF Inv, EdgeEvidenceMatchesNodes
<1>12. ReleasedNodeIsInert'
  BY <1>2, <1>3, <1>4 DEF Inv, ReleasedNodeIsInert, Merged
<1>13. KeysUnique'
  <2>1. \A n \in Node : node[n].status # "none" /\ node[n].key = ItemKey(t) => n = item
    BY <1>1 DEF Holders
  <2> QED
    BY <1>4, <2>1 DEF KeysUnique
<1> QED
  BY <1>5, <1>6, <1>7, <1>8, <1>9, <1>10, <1>11, <1>12, <1>13 DEF Inv

\* A merge maps every loser to another node, which stays, and the rest to
\* themselves.
LEMMA ConsolidateShape ==
    ASSUME Inv, NEW losers \in SUBSET EntityNode, Consolidate(losers)
    PROVE  \E into \in [EntityNode -> EntityNode] :
             /\ \A n \in EntityNode : n \notin losers => into[n] = n
             /\ \A n \in losers : into[n] \notin losers /\ Twins(n, into[n])
             /\ node' = [n \in Node |-> MergedNode(n, losers, into)]
             /\ edge' = MovedEdges(into)
             /\ nodeEv' = MovedNodeEvidence(into)
             /\ edgeEv' = MovedEdgeEvidence(into)
             /\ UNCHANGED <<mem, text, corrections>>
<1> DEFINE into == [n \in EntityNode |->
                      IF n \in losers THEN CHOOSE k \in Winners(n, losers) : TRUE ELSE n]
<1>1. \A n \in losers : \E k : k \in Winners(n, losers)
  BY DEF Consolidate
<1>2. \A n \in losers : into[n] \in Winners(n, losers)
  BY <1>1
<1>3. \A n \in losers : into[n] \in EntityNode \ losers /\ Twins(n, into[n])
  BY <1>2 DEF Winners
<1>4. into \in [EntityNode -> EntityNode]
  BY <1>3
<1>5. \A n \in EntityNode : n \notin losers => into[n] = n
  OBVIOUS
<1>6. /\ node' = [n \in Node |-> MergedNode(n, losers, into)]
      /\ edge' = MovedEdges(into)
      /\ nodeEv' = MovedNodeEvidence(into)
      /\ edgeEv' = MovedEdgeEvidence(into)
      /\ UNCHANGED <<mem, text, corrections>>
  BY DEF Consolidate
<1> QED
  <2> HIDE DEF into
  <2> QED
    BY <1>3, <1>4, <1>5, <1>6

LEMMA ConsolidateInv ==
    ASSUME Inv, KeysUnique, NEW losers \in SUBSET EntityNode, Consolidate(losers)
    PROVE  Inv' /\ KeysUnique'
<1>1. PICK into \in [EntityNode -> EntityNode] :
             /\ \A n \in EntityNode : n \notin losers => into[n] = n
             /\ \A n \in losers : into[n] \notin losers /\ Twins(n, into[n])
             /\ node' = [n \in Node |-> MergedNode(n, losers, into)]
             /\ edge' = MovedEdges(into)
             /\ nodeEv' = MovedNodeEvidence(into)
             /\ edgeEv' = MovedEdgeEvidence(into)
             /\ UNCHANGED <<mem, text, corrections>>
  BY ConsolidateShape
<1> DEFINE to(n) == IF n \in EntityNode THEN into[n] ELSE n
<1>2. ASSUME NEW n \in Node
      PROVE  /\ to(n) \in Node
             /\ to(n) \in EntityNode <=> n \in EntityNode
             /\ to(n) \notin losers
             /\ n \notin losers => to(n) = n
             /\ n \in losers => node[n].status = "active" /\ node[to(n)].status = "active"
  BY <1>1, NodeSlots DEF Node, Twins
<1>3. ASSUME NEW n \in Node
      PROVE  /\ node'[n] \in NodeRow
             /\ n \in losers => node'[n].status = "inactive" /\ node'[n].key = NoKey
             /\ n \notin losers => node'[n].status = node[n].status /\ node'[n].key = node[n].key
  <2>1. node[n] \in NodeRow /\ node'[n] = MergedNode(n, losers, into)
    BY <1>1 DEF Inv, TypeOK
  <2>2. UNION {node[k].blob : k \in {x \in losers : into[x] = n}} \in SUBSET Text
    BY DEF Inv, TypeOK, NodeRow, Node
  <2>3. CASE n \in losers
    <3>1. MergedNode(n, losers, into) = [node[n] EXCEPT !.status = "inactive", !.key = NoKey]
      BY <2>3 DEF MergedNode
    <3> QED
      BY <2>1, <2>3, <3>1 DEF NodeRow, RowStatus
  <2>4. CASE n \notin losers
    BY <2>1, <2>2, <2>4 DEF MergedNode, NodeRow, RowStatus
  <2> QED
    BY <2>3, <2>4
<1>4. nodeEv' = {<<to(p[1]), p[2]>> : p \in nodeEv}
  BY <1>1 DEF MovedNodeEvidence
<1>5. edgeEv' = {<<<<p[1][1], to(p[1][2])>>, p[2]>> : p \in edgeEv}
  <2>1. \A p \in edgeEv : p[1][2] \in EntityNode
    BY DEF Inv, TypeOK, Link
  <2> QED
    BY <1>1, <2>1 DEF MovedEdgeEvidence
<1>6. \A p \in nodeEv : p[1] \in Node /\ p[2] \in Mem /\ p = <<p[1], p[2]>>
  BY DEF Inv, TypeOK
<1>7. \A p \in edgeEv : /\ p[1] \in Link /\ p[2] \in Mem
                        /\ p[1][1] \in ItemNode /\ p[1][2] \in EntityNode
  BY DEF Inv, TypeOK, Link
<1>8. ASSUME NEW l \in Link
      PROVE  /\ edge'[l] \in RowStatus
             /\ l[2] \in losers => edge'[l] # "active"
             /\ l[2] \notin losers /\ edge'[l] # edge[l] =>
                  \E n \in losers : into[n] = l[2]
  <2>1. edge[l] \in RowStatus /\ l = <<l[1], l[2]>> /\ l[1] \in ItemNode /\ l[2] \in EntityNode
    BY DEF Inv, TypeOK, Link
  <2>2. edge'[l] = MovedEdges(into)[l]
    BY <1>1
  <2>3. CASE l[2] \in losers
    <3>1. <<l[1], into[l[2]]>> # l
      BY <1>1, <2>1, <2>3
    <3> QED
      BY <2>1, <2>2, <2>3, <3>1 DEF MovedEdges, RowStatus
  <2>4. CASE l[2] \notin losers
    <3>1. <<l[1], into[l[2]]>> = l
      BY <1>1, <2>1, <2>4
    <3>2. CASE {x \in EntityNode \ {l[2]} : into[x] = l[2]} = {}
      BY <2>1, <2>2, <2>4, <3>1, <3>2 DEF MovedEdges
    <3>3. CASE {x \in EntityNode \ {l[2]} : into[x] = l[2]} # {}
      <4>1. PICK x \in EntityNode \ {l[2]} : into[x] = l[2]
        BY <3>3
      <4>2. x \in losers
        BY <1>1, <4>1
      <4>3. edge'[l] \in {"active", edge[l]}
        BY <2>2, <3>1 DEF MovedEdges
      <4> QED
        BY <2>1, <2>4, <4>1, <4>2, <4>3 DEF RowStatus
    <3> QED
      BY <3>2, <3>3
  <2> QED
    BY <2>3, <2>4
<1>9. UNCHANGED <<mem, text, corrections>>
  BY <1>1
<1>10. TypeOK'
  <2>1. node' \in [Node -> NodeRow]
    <3>1. node' = [n \in Node |-> node'[n]]
      BY <1>1
    <3> QED
      BY <1>3, <3>1
  <2>2. edge' \in [Link -> RowStatus]
    <3>1. edge' = [l \in Link |-> edge'[l]]
      BY <1>1 DEF MovedEdges
    <3> QED
      BY <1>8, <3>1
  <2>3. nodeEv' \subseteq Node \X Mem
    BY <1>2, <1>4, <1>6
  <2>4. edgeEv' \subseteq Link \X Mem
    <3>1. \A n \in EntityNode : to(n) \in EntityNode
      BY <1>1
    <3> QED
      BY <1>5, <1>7, <3>1 DEF Link
  <2> QED
    BY <1>9, <2>1, <2>2, <2>3, <2>4 DEF Inv, TypeOK
<1>11. FreshRows'
  BY <1>2, <1>3, <1>9 DEF Inv, FreshRows
<1>12. KeyMatchesSlot'
  BY <1>3, NodeSlots DEF Inv, KeyMatchesSlot
<1>13. ActiveHasKey'
  BY <1>3 DEF Inv, ActiveHasKey
<1>14. ApprovedHasItem'
  <2>1. SUFFICES ASSUME NEW m \in Mem, mem[m] # "none"
                 PROVE  \E n \in ItemNode : <<n, m>> \in nodeEv'
    BY <1>9 DEF ApprovedHasItem
  <2>2. PICK n \in ItemNode : <<n, m>> \in nodeEv
    BY <2>1 DEF Inv, ApprovedHasItem
  <2>3. to(n) = n
    BY NodeSlots
  <2> QED
    BY <1>4, <2>2, <2>3
<1>15. EvidenceOfRows'
  <2>1. SUFFICES ASSUME NEW p \in nodeEv
                 PROVE  mem[p[2]] # "none" /\ node'[to(p[1])].status # "none"
    BY <1>4, <1>9 DEF EvidenceOfRows
  <2>2. node[to(p[1])].status # "none"
    BY <1>2, <1>6 DEF Inv, EvidenceOfRows
  <2> QED
    BY <1>2, <1>3, <1>6, <2>2 DEF Inv, EvidenceOfRows
<1>16. ActiveNodeHasSupport'
  <2>1. SUFFICES ASSUME NEW n \in Node, node'[n].status = "active"
                 PROVE  \E x \in Mem : <<n, x>> \in nodeEv' /\ mem[x] = "active"
    BY <1>9 DEF ActiveNodeHasSupport, NodeSupport
  <2>2. n \notin losers /\ node[n].status = "active"
    BY <1>3, <2>1
  <2>3. PICK x \in Mem : <<n, x>> \in nodeEv /\ mem[x] = "active"
    BY <2>2 DEF Inv, ActiveNodeHasSupport, NodeSupport
  <2>4. to(n) = n
    BY <1>2, <2>2
  <2> QED
    BY <1>4, <2>3, <2>4
<1>17. EdgeEvidenceMatchesNodes'
  <2>1. SUFFICES ASSUME NEW p \in edgeEv
                 PROVE  /\ <<p[1][1], p[2]>> \in nodeEv'
                        /\ <<to(p[1][2]), p[2]>> \in nodeEv'
    <3>1. SUFFICES ASSUME NEW q \in edgeEv'
                   PROVE  <<q[1][1], q[2]>> \in nodeEv' /\ <<q[1][2], q[2]>> \in nodeEv'
      BY DEF EdgeEvidenceMatchesNodes
    <3>2. PICK p \in edgeEv : q = <<<<p[1][1], to(p[1][2])>>, p[2]>>
      BY <1>5
    <3> QED
      BY <3>2
  <2>2. <<p[1][1], p[2]>> \in nodeEv /\ <<p[1][2], p[2]>> \in nodeEv
    BY DEF Inv, EdgeEvidenceMatchesNodes
  <2>3. to(p[1][1]) = p[1][1]
    BY <1>7, NodeSlots
  <2> QED
    BY <1>4, <2>2, <2>3
<1>18. ReleasedNodeIsInert'
  <2>1. SUFFICES ASSUME NEW n \in Node, node'[n].status = "inactive", node'[n].key = NoKey
                 PROVE  /\ \A x \in Mem : <<n, x>> \notin nodeEv'
                        /\ \A l \in Link : n \in {l[1], l[2]} =>
                             edge'[l] # "active" /\ \A x \in Mem : <<l, x>> \notin edgeEv'
    BY DEF ReleasedNodeIsInert, Merged
  <2>2. CASE n \in losers
    <3>1. \A x \in Mem : <<n, x>> \notin nodeEv'
      BY <1>2, <1>4, <1>6, <2>2
    <3>2. \A l \in Link, x \in Mem : <<l, x>> \in edgeEv' => l[2] \notin losers
      BY <1>2, <1>5, <1>7 DEF Node
    <3>3. \A l \in Link : n \in {l[1], l[2]} => l[2] = n
      BY <2>2, NodeSlots DEF Link
    <3> QED
      BY <1>8, <2>2, <3>1, <3>2, <3>3
  <2>3. CASE n \notin losers
    <3>1. node[n].status = "inactive" /\ node[n].key = NoKey
      BY <1>3, <2>1, <2>3
    <3>2. n \in EntityNode
      BY <3>1, KeysDiffer DEF Inv, KeyMatchesSlot, Node
    <3>3. /\ \A x \in Mem : <<n, x>> \notin nodeEv
          /\ \A l \in Link : l[2] = n =>
               edge[l] # "active" /\ \A x \in Mem : <<l, x>> \notin edgeEv
      BY <3>1 DEF Inv, ReleasedNodeIsInert, Merged
    <3>4. \A k \in Node : to(k) = n => k = n
      BY <1>1, <1>2, <3>1 DEF Node
    <3>5. \A x \in Mem : <<n, x>> \notin nodeEv'
      BY <1>4, <1>6, <3>3, <3>4
    <3>6. \A l \in Link : n \in {l[1], l[2]} => l[2] = n
      BY <3>2, NodeSlots DEF Link
    <3>7. \A l \in Link, x \in Mem : l[2] = n => <<l, x>> \notin edgeEv'
      <4>1. SUFFICES ASSUME NEW p \in edgeEv, to(p[1][2]) = n PROVE FALSE
        BY <1>5
      <4>2. p[1][2] = n /\ p = <<p[1], p[2]>>
        BY <1>7, <3>4, <4>1 DEF Node, Inv, TypeOK
      <4> QED
        BY <1>7, <3>3, <4>2
    <3>8. \A l \in Link : l[2] = n => edge'[l] # "active"
      BY <1>2, <1>8, <2>3, <3>3, <3>4 DEF Node
    <3> QED
      BY <3>5, <3>6, <3>7, <3>8
  <2> QED
    BY <2>2, <2>3
<1>19. KeysUnique'
  BY <1>3 DEF KeysUnique
<1> QED
  BY <1>10, <1>11, <1>12, <1>13, <1>14, <1>15, <1>16, <1>17, <1>18, <1>19 DEF Inv

LEMMA NextInv == Inv /\ KeysUnique /\ [Next]_vars => Inv' /\ KeysUnique'
<1> SUFFICES ASSUME Inv, KeysUnique, [Next]_vars PROVE Inv' /\ KeysUnique'
  OBVIOUS
<1>1. ASSUME NEW m \in Mem, NEW E \in SUBSET Entity, Activate(m, E)
      PROVE  Inv' /\ KeysUnique'
  BY <1>1, ActivateInv
<1>2. ASSUME NEW m \in Mem, Deactivate(m) PROVE Inv' /\ KeysUnique'
  BY <1>2, DeactivateInv
<1>3. ASSUME NEW m \in Mem, NEW t \in Text, Correct(m, t) PROVE Inv' /\ KeysUnique'
  BY <1>3, CorrectInv
<1>4. ASSUME NEW losers \in SUBSET EntityNode, Consolidate(losers) PROVE Inv' /\ KeysUnique'
  BY <1>4, ConsolidateInv
<1>5. CASE UNCHANGED vars
  <2>1. UNCHANGED <<mem, text, node, edge, nodeEv, edgeEv, corrections>>
    BY <1>5 DEF vars
  <2>2. TypeOK' /\ FreshRows' /\ KeyMatchesSlot' /\ ActiveHasKey'
    BY <2>1 DEF Inv, TypeOK, FreshRows, KeyMatchesSlot, ActiveHasKey
  <2>3. ApprovedHasItem' /\ EvidenceOfRows' /\ EdgeEvidenceMatchesNodes'
    BY <2>1 DEF Inv, ApprovedHasItem, EvidenceOfRows, EdgeEvidenceMatchesNodes
  <2>4. ActiveNodeHasSupport'
    BY <2>1 DEF Inv, ActiveNodeHasSupport, NodeSupport
  <2>5. ReleasedNodeIsInert'
    BY <2>1 DEF Inv, ReleasedNodeIsInert, Merged
  <2>6. KeysUnique'
    BY <2>1 DEF KeysUnique
  <2> QED
    BY <2>2, <2>3, <2>4, <2>5, <2>6 DEF Inv
<1> QED
  BY <1>1, <1>2, <1>3, <1>4, <1>5 DEF Next

LEMMA SpecInv == Spec => [](Inv /\ KeysUnique)
  BY InitInv, NextInv, PTL DEF Spec

----------------------------------------------------------------------------
\* The tables keep their types and UNIQUE(scope, node_type, canonical_key).
THEOREM TypeCorrect == Spec => [](TypeOK /\ KeysUnique)
<1>1. Inv => TypeOK
  BY DEF Inv
<1> QED
  BY <1>1, SpecInv, PTL

\* However approvals, lifecycle changes, corrections and merges follow each
\* other: a node that is shown has an active memory behind it, edge evidence
\* agrees with node evidence, and nothing leads to a merged node.
THEOREM GraphSafe == Spec => []ShownIsSupported
<1>1. Inv => ShownIsSupported
  BY DEF Inv, ShownIsSupported
<1> QED
  BY <1>1, SpecInv, PTL

\* No writer shows a hidden node again.
LEMMA HiddenStep ==
    ASSUME Inv, [Next]_vars, NEW n \in Node, node[n].status = "inactive"
    PROVE  node'[n].status = "inactive"
<1>1. node[n] \in NodeRow
  BY DEF Inv, TypeOK
<1>2. ASSUME NEW m \in Mem, NEW E \in SUBSET Entity, Activate(m, E)
      PROVE  node'[n].status = "inactive"
  <2>1. node'[n] \in {node[n], UpsertNode(n, text[m])}
    BY <1>2 DEF Activate
  <2>2. UpsertNode(n, text[m]).status = "inactive"
    BY <1>1 DEF UpsertNode, NodeRow
  <2> QED
    BY <2>1, <2>2
<1>3. ASSUME NEW m \in Mem, Deactivate(m) PROVE node'[n].status = "inactive"
  BY <1>3, DeactivateNodes
<1>4. ASSUME NEW m \in Mem, NEW t \in Text, Correct(m, t) PROVE node'[n].status = "inactive"
  BY <1>1, <1>4 DEF Correct, NodeRow
<1>5. ASSUME NEW losers \in SUBSET EntityNode, Consolidate(losers)
      PROVE  node'[n].status = "inactive"
  <2>1. PICK into : node'[n] = MergedNode(n, losers, into)
    BY <1>5 DEF Consolidate
  <2> QED
    BY <1>1, <2>1 DEF MergedNode, NodeRow
<1>6. CASE UNCHANGED vars
  BY <1>6 DEF vars
<1> QED
  BY <1>2, <1>3, <1>4, <1>5, <1>6 DEF Next

\* A node that a deletion or a merge hid stays hidden.
THEOREM HiddenSafe == Spec => HiddenNodeStaysHidden
<1>1. Inv /\ [Next]_vars
        => [\A n \in Node : node[n].status = "inactive" => node'[n].status = "inactive"]_vars
  BY HiddenStep
<1> QED
  BY <1>1, SpecInv, PTL DEF Spec, HiddenNodeStaysHidden

----------------------------------------------------------------------------
\* Without corrections every writer keeps blobs to what active memories say.
LEMMA BlobStep ==
    ASSUME Inv, [Next]_vars, corrections' = 0, BlobsUntilCorrection
    PROVE  BlobIsOfActiveMemories'
<1> SUFFICES ASSUME NEW n \in Node, node'[n].status = "active", NEW x \in node'[n].blob
             PROVE  \E y \in Mem : <<n, y>> \in nodeEv' /\ mem'[y] = "active" /\ text'[y] = x
  BY DEF BlobIsOfActiveMemories, NodeSupport
<1>0. corrections = 0
  <2>1. corrections \in Nat
    BY BoundAssumption DEF Inv, TypeOK
  <2>2. ASSUME NEW m \in Mem, NEW t \in Text, Correct(m, t) PROVE FALSE
    <3>1. corrections' = corrections + 1
      BY <2>2 DEF Correct
    <3> QED
      BY <2>1, <3>1
  <2>3. corrections' = corrections
    BY <2>2 DEF Next, Activate, Deactivate, Consolidate, vars
  <2> QED
    BY <2>3
<1>1. /\ \A k \in Node : node[k] \in NodeRow
      /\ mem \in [Mem -> RowStatus]
  BY DEF Inv, TypeOK
<1>2. ASSUME NEW k \in Node, node[k].status = "active", NEW z \in node[k].blob
      PROVE  \E y \in Mem : <<k, y>> \in nodeEv /\ mem[y] = "active" /\ text[y] = z
  BY <1>0, <1>2 DEF BlobsUntilCorrection, BlobIsOfActiveMemories, NodeSupport
<1>3. ASSUME NEW m \in Mem, NEW E \in SUBSET Entity, Activate(m, E)
      PROVE  \E y \in Mem : <<n, y>> \in nodeEv' /\ mem'[y] = "active" /\ text'[y] = x
  <2> DEFINE touched == {UpsertTarget(m, e) : e \in E} \cup {UpsertTarget(m, Item)}
  <2>1. /\ node'[n] = IF n \in touched THEN UpsertNode(n, text[m]) ELSE node[n]
        /\ n \in touched => <<n, m>> \in nodeEv'
        /\ nodeEv \subseteq nodeEv'
        /\ mem' = [mem EXCEPT ![m] = "active"]
        /\ mem[m] = "none"
        /\ text' = text
    BY <1>3 DEF Activate
  <2>2. CASE n \in touched /\ x = text[m]
    BY <1>1, <2>1, <2>2
  <2>3. CASE ~(n \in touched /\ x = text[m])
    <3>1. node[n].status = "active" /\ x \in node[n].blob
      BY <1>1, <2>1, <2>3 DEF UpsertNode, NodeRow
    <3> QED
      BY <1>1, <1>2, <2>1, <3>1
  <2> QED
    BY <2>2, <2>3
<1>4. ASSUME NEW m \in Mem, Deactivate(m)
      PROVE  \E y \in Mem : <<n, y>> \in nodeEv' /\ mem'[y] = "active" /\ text'[y] = x
  <2> DEFINE after == [mem EXCEPT ![m] = "inactive"]
  <2>1. /\ mem' = after
        /\ node'[n] = IF <<n, m>> \in nodeEv THEN RefreshedNode(n, after) ELSE node[n]
        /\ nodeEv' = nodeEv /\ text' = text
    BY <1>4 DEF Deactivate
  <2>2. CASE <<n, m>> \notin nodeEv
    <3>1. PICK y \in Mem : <<n, y>> \in nodeEv /\ mem[y] = "active" /\ text[y] = x
      BY <1>2, <2>1, <2>2
    <3> QED
      BY <1>1, <2>1, <2>2, <3>1
  <2>3. CASE <<n, m>> \in nodeEv
    <3>1. NodeSupport(n, after) # {}
      BY <1>1, <2>1, <2>3 DEF RefreshedNode, NodeRow
    <3>2. x \in {text[y] : y \in NodeSupport(n, after)}
      BY <1>1, <2>1, <2>3, <3>1 DEF RefreshedNode, NodeRow
    <3> QED
      BY <2>1, <3>2 DEF NodeSupport
  <2> QED
    BY <2>2, <2>3
<1>5. ASSUME NEW m \in Mem, NEW t \in Text, Correct(m, t) PROVE FALSE
  <2>1. corrections' = corrections + 1
    BY <1>5 DEF Correct
  <2> QED
    BY <1>0, <2>1
<1>6. ASSUME NEW losers \in SUBSET EntityNode, Consolidate(losers)
      PROVE  \E y \in Mem : <<n, y>> \in nodeEv' /\ mem'[y] = "active" /\ text'[y] = x
  <2>1. PICK into \in [EntityNode -> EntityNode] :
             /\ \A k \in EntityNode : k \notin losers => into[k] = k
             /\ \A k \in losers : into[k] \notin losers /\ Twins(k, into[k])
             /\ node' = [k \in Node |-> MergedNode(k, losers, into)]
             /\ edge' = MovedEdges(into)
             /\ nodeEv' = MovedNodeEvidence(into)
             /\ edgeEv' = MovedEdgeEvidence(into)
             /\ UNCHANGED <<mem, text, corrections>>
    BY <1>6, ConsolidateShape
  <2>2. node'[n] = MergedNode(n, losers, into)
    BY <2>1
  <2>3. n \notin losers
    BY <1>1, <2>2 DEF MergedNode, NodeRow
  <2>4. PICK k \in Node : /\ node[k].status = "active" /\ x \in node[k].blob
                          /\ \/ k = n
                             \/ k \in losers /\ into[k] = n
    <3>1. node[n].status = "active"
      BY <1>1, <2>2, <2>3 DEF MergedNode, NodeRow
    <3>2. x \in node[n].blob \/ \E k \in losers : into[k] = n /\ x \in node[k].blob
      BY <1>1, <2>2, <2>3 DEF MergedNode, NodeRow
    <3>3. \A k \in losers : k \in Node /\ node[k].status = "active"
      BY <2>1 DEF Twins, Node
    <3> QED
      BY <3>1, <3>2, <3>3
  <2>5. PICK y \in Mem : <<k, y>> \in nodeEv /\ mem[y] = "active" /\ text[y] = x
    BY <1>2, <2>4
  <2>6. <<n, y>> \in nodeEv'
    <3>1. n = IF k \in EntityNode THEN into[k] ELSE k
      BY <2>1, <2>3, <2>4
    <3> QED
      BY <2>1, <2>5, <3>1 DEF MovedNodeEvidence
  <2> QED
    BY <2>1, <2>5, <2>6
<1>7. CASE UNCHANGED vars
  BY <1>2, <1>7 DEF vars
<1> QED
  BY <1>3, <1>4, <1>5, <1>6, <1>7 DEF Next

\* Until something is corrected, a shown node says only what the active memories
\* behind it say.
THEOREM BlobSafe == Spec => []BlobsUntilCorrection
<1>1. Init => BlobsUntilCorrection
  BY DEF Init, BlobsUntilCorrection, BlobIsOfActiveMemories, NoRow
<1>2. Inv /\ [Next]_vars /\ BlobsUntilCorrection => BlobsUntilCorrection'
  BY BlobStep DEF BlobsUntilCorrection
<1> QED
  BY <1>1, <1>2, SpecInv, PTL DEF Spec

----------------------------------------------------------------------------
\* A merged node stays merged: nothing writes a key into it ...
LEMMA MergedStays ==
    ASSUME Inv, [Next]_vars, NEW n \in Node, Merged(n)
    PROVE  Merged(n)'
<1>1. /\ node[n] \in NodeRow
      /\ \A m \in Mem : <<n, m>> \notin nodeEv
  BY DEF Inv, TypeOK, ReleasedNodeIsInert, Merged
<1>2. ASSUME NEW m \in Mem, NEW E \in SUBSET Entity, Activate(m, E)
      PROVE  Merged(n)'
  BY <1>1, <1>2 DEF Activate, UpsertNode, NodeRow, Merged
<1>3. ASSUME NEW m \in Mem, Deactivate(m)
      PROVE  Merged(n)'
  BY <1>1, <1>3 DEF Deactivate, Merged
<1>4. ASSUME NEW m \in Mem, NEW t \in Text, Correct(m, t)
      PROVE  Merged(n)'
  BY <1>1, <1>4 DEF Correct, Corrected, Merged
<1>5. ASSUME NEW losers \in SUBSET EntityNode, Consolidate(losers)
      PROVE  Merged(n)'
  BY <1>1, <1>5 DEF Consolidate, MergedNode, NodeRow, Merged
<1>6. CASE UNCHANGED vars
  BY <1>6 DEF vars, Merged
<1> QED
  BY <1>2, <1>3, <1>4, <1>5, <1>6 DEF Next

\* ... and every other writer keeps an active edge supported.
LEMMA EdgeStep ==
    ASSUME Inv, [Next]_vars, (\A n \in Node : ~Merged(n))', EdgesUntilMerge
    PROVE  ActiveEdgeHasSupport'
<1> SUFFICES ASSUME NEW l \in Link, edge'[l] = "active"
             PROVE  \E y \in Mem : <<l, y>> \in edgeEv' /\ mem'[y] = "active"
  BY DEF ActiveEdgeHasSupport, EdgeSupport
<1>1. edge[l] = "active" => \E y \in Mem : <<l, y>> \in edgeEv /\ mem[y] = "active"
  BY MergedStays DEF EdgesUntilMerge, ActiveEdgeHasSupport, EdgeSupport
<1>2. mem \in [Mem -> RowStatus]
  BY DEF Inv, TypeOK
<1>3. ASSUME NEW m \in Mem, NEW E \in SUBSET Entity, Activate(m, E)
      PROVE  \E y \in Mem : <<l, y>> \in edgeEv' /\ mem'[y] = "active"
  <2> DEFINE new == {UpsertTarget(m, Item)} \X {UpsertTarget(m, e) : e \in E}
  <2>1. /\ edge'[l] = IF l \in new THEN "active" ELSE edge[l]
        /\ edgeEv' = edgeEv \cup (new \X {m})
        /\ mem' = [mem EXCEPT ![m] = "active"]
    BY <1>3 DEF Activate
  <2>2. CASE l \in new
    BY <1>2, <2>1, <2>2
  <2>3. CASE l \notin new
    BY <1>1, <1>2, <2>1, <2>3
  <2> QED
    BY <2>2, <2>3
<1>4. ASSUME NEW m \in Mem, Deactivate(m)
      PROVE  \E y \in Mem : <<l, y>> \in edgeEv' /\ mem'[y] = "active"
  <2> DEFINE after == [mem EXCEPT ![m] = "inactive"]
  <2>1. /\ mem' = after /\ edgeEv' = edgeEv
        /\ edge'[l] = IF <<l, m>> \in edgeEv THEN RefreshedEdge(l, after) ELSE edge[l]
    BY <1>4 DEF Deactivate
  <2>2. CASE <<l, m>> \in edgeEv
    BY <2>1, <2>2 DEF RefreshedEdge, EdgeSupport
  <2>3. CASE <<l, m>> \notin edgeEv
    BY <1>1, <1>2, <2>1, <2>3
  <2> QED
    BY <2>2, <2>3
<1>5. ASSUME NEW m \in Mem, NEW t \in Text, Correct(m, t)
      PROVE  \E y \in Mem : <<l, y>> \in edgeEv' /\ mem'[y] = "active"
  BY <1>1, <1>5 DEF Correct
<1>6. ASSUME NEW losers \in SUBSET EntityNode, Consolidate(losers) PROVE FALSE
  <2>1. PICK n \in losers : n \in Node /\ node'[n] = MergedNode(n, losers,
             [k \in EntityNode |->
                IF k \in losers THEN CHOOSE j \in Winners(k, losers) : TRUE ELSE k])
    BY <1>6 DEF Consolidate, Node
  <2>2. node[n] \in NodeRow
    BY <2>1 DEF Inv, TypeOK
  <2> QED
    BY <2>1, <2>2 DEF MergedNode, NodeRow, Merged
<1>7. CASE UNCHANGED vars
  BY <1>1, <1>7 DEF vars
<1> QED
  BY <1>3, <1>4, <1>5, <1>6, <1>7 DEF Next

\* Until something is merged, an edge that is shown has an active memory behind it.
THEOREM EdgeSafe == Spec => []EdgesUntilMerge
<1>1. Init => EdgesUntilMerge
  BY DEF Init, EdgesUntilMerge, ActiveEdgeHasSupport
<1>2. Inv /\ [Next]_vars /\ EdgesUntilMerge => EdgesUntilMerge'
  BY EdgeStep DEF EdgesUntilMerge
<1> QED
  BY <1>1, <1>2, SpecInv, PTL DEF Spec

\* Both: before corrections and merges, what is shown is what active memories say.
THEOREM CurrentSafe == Spec => []ShownIsCurrent
<1>1. BlobsUntilCorrection /\ EdgesUntilMerge => ShownIsCurrent
  BY DEF ShownIsCurrent
<1> QED
  BY <1>1, BlobSafe, EdgeSafe, PTL
=============================================================================
