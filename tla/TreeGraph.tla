----------------------------- MODULE TreeGraph -----------------------------
(***************************************************************************)
(* The passive tree as the renderer draws it: the transform of upstream's  *)
(* tree.json (tree-transform.ts), the transform of the runner's            *)
(* tree.getData response (build-session.ts), which follows the same rules  *)
(* in a file of its own, and the walk that previews a path to a node.      *)
(***************************************************************************)
EXTENDS Collections, FiniteSetsExt, SequencesExt

CONSTANTS
  NodeIds,    \* ids of the nodes of the tree
  StrayId,    \* an id connections and allocations mention and no node has
  Wirings,    \* the connections of each node, one function per tree
  Starts      \* the allocated sets the trees are loaded with

ASSUME TreeAssumption ==
  /\ NodeIds # {} /\ IsFiniteSet(NodeIds) /\ NodeIds \subseteq Nat
  /\ StrayId \in Nat \ NodeIds
  /\ Wirings \subseteq [NodeIds -> SUBSET (NodeIds \cup {StrayId})]
  /\ Starts \subseteq SUBSET (NodeIds \cup {StrayId})

VARIABLES
  treeRaw,     \* the tree.json last transformed, or none yet
  treeGraph,   \* what buildTreeGraph made of it
  treeView,    \* what treeResponseToGraph made of the runner's response for it
  treePreview  \* the last previewPath: its target and its answer

treeVars == <<treeRaw, treeGraph, treeView, treePreview>>

NoTree == [none |-> TRUE]
NoPath == <<>>  \* null: a path that is shown has a node

(* Layout constants: two groups, orbit 0 of radius 0 and orbit 1 of radius 10   *)
(* with four slots; a slot's angle is kept as its <<sine, cosine>>.             *)
Groups == <<[x |-> 0, y |-> 0], [x |-> 40, y |-> 30]>>
OrbitRadii == <<0, 10>>
OrbitAngles == <<<< <<0, 1>> >>, << <<0, 1>>, <<1, 0>>, <<0, -1>>, <<-1, 0>> >> >>

Misplaced == [throws |-> TRUE]

(* group counts from 1, orbit and orbitIndex from 0. *)
nodeCoord(node) ==
  IF \/ node.group \notin DOMAIN Groups
     \/ node.orbit + 1 \notin DOMAIN OrbitAngles
     \/ node.orbitIndex + 1 \notin DOMAIN OrbitAngles[node.orbit + 1]
    THEN Misplaced
    ELSE LET angle  == OrbitAngles[node.orbit + 1][node.orbitIndex + 1]
             radius == OrbitRadii[node.orbit + 1]
         IN [x |-> Groups[node.group].x + angle[1] * radius,
             y |-> Groups[node.group].y - angle[2] * radius]

Priority == <<"jewel-socket", "keystone", "notable", "mastery">>

(* The first of a node's flags in upstream's order. *)
classify(flags) ==
  LET set == Filter(Priority, LAMBDA kind : kind \in flags)
  IN IF set = <<>> THEN "small" ELSE Head(set)

kindOf(type) ==
  CASE type = "Socket"   -> "jewel-socket"
    [] type = "Keystone" -> "keystone"
    [] type = "Notable"  -> "notable"
    [] type = "Mastery"  -> "mastery"
    [] OTHER             -> "small"

(* The connections as undirected edges a < b: each pair once, no edge from a    *)
(* node to itself or to an id outside the graph.                                *)
Edges(connections) ==
  {<<Min({p[1], p[2]}), Max({p[1], p[2]})>> :
     p \in {q \in NodeIds \X NodeIds : q[2] \in connections[q[1]] /\ q[1] # q[2]}}

Bounds(points) ==
  LET xs == {p.x : p \in points}
      ys == {p.y : p \in points}
  IN [minX |-> Min(xs), minY |-> Min(ys), maxX |-> Max(xs), maxY |-> Max(ys)]

(* One node outside its group's layout fails the whole transform. *)
buildTreeGraph(raw) ==
  LET coord == [n \in NodeIds |-> nodeCoord(raw.nodes[n])]
  IN IF \E n \in NodeIds : coord[n] = Misplaced THEN Misplaced
     ELSE [nodeIndex |-> [n \in NodeIds |-> [x |-> coord[n].x, y |-> coord[n].y,
                                             kind |-> classify(raw.nodes[n].flags)]],
           edges |-> Edges([n \in NodeIds |-> raw.nodes[n].connections]),
           bounds |-> Bounds({coord[n] : n \in NodeIds})]

(* Bug: a connection to an id outside the graph is kept. *)
treeResponseToGraphDangling(response) ==
  [nodeIndex |-> [n \in NodeIds |-> [x |-> response[n].x, y |-> response[n].y,
                                     kind |-> kindOf(response[n].type)]],
   edges |-> UNION {{<<Min({a, b}), Max({a, b})>> : b \in response[a].connections \ {a}}
                    : a \in NodeIds},
   bounds |-> Bounds({response[n] : n \in NodeIds})]

(* The runner has the coordinates and the type already. *)
treeResponseToGraph(response) ==
  LET known(a) == {b \in response[a].connections : b # a /\ b \in DOMAIN response}
  IN [nodeIndex |-> [n \in DOMAIN response |->
                       [x |-> response[n].x, y |-> response[n].y, kind |-> kindOf(response[n].type)]],
      edges |-> UNION {{<<Min({a, b}), Max({a, b})>> : b \in known(a)} : a \in DOMAIN response},
      bounds |-> IF response = <<>> THEN [minX |-> 0, minY |-> 0, maxX |-> 0, maxY |-> 0]
                 ELSE Bounds({response[n] : n \in DOMAIN response})]

-----------------------------------------------------------------------------
Neighbours(edges, n) ==
  {m \in NodeIds : <<m, n>> \in edges \/ <<n, m>> \in edges}

(* The walk of previewPath, a whole layer at a time: the nodes seen after k     *)
(* layers.                                                                      *)
Visited(edges, allocated) ==
  LET seen[k \in 0..Cardinality(NodeIds)] ==
        IF k = 0 THEN allocated
        ELSE seen[k - 1] \cup UNION {Neighbours(edges, n) : n \in seen[k - 1]}
  IN seen

(* Bug: the walk grows from one allocated node only. *)
previewPathSingleSource(graph, allocated, target) ==
  LET from == CHOOSE a \in allocated : TRUE
      seen == Visited(graph.edges, {from})
      path[k \in 0..Cardinality(NodeIds)] ==
        [n \in seen[k] |->
           IF k = 0 \/ n \in allocated THEN <<>>
           ELSE IF n \in seen[k - 1] THEN path[k - 1][n]
           ELSE Append(path[k - 1][CHOOSE m \in seen[k - 1] : m \in Neighbours(graph.edges, n)], n)]
  IN IF target \notin DOMAIN graph.nodeIndex \/ target \in allocated \/ allocated = {} THEN NoPath
     ELSE IF target \notin seen[Cardinality(NodeIds)] THEN NoPath
     ELSE path[Cardinality(NodeIds)][target]

(* The new nodes on a way to each node seen after k layers; a node is reached   *)
(* from one of the layer before, which of them the order of the edges decides.  *)
PathsTo(edges, allocated) ==
  LET seen == Visited(edges, allocated)
      path[k \in 0..Cardinality(NodeIds)] ==
        [n \in seen[k] |->
           IF k = 0 THEN <<>>
           ELSE IF n \in seen[k - 1] THEN path[k - 1][n]
           ELSE Append(path[k - 1][CHOOSE m \in seen[k - 1] : m \in Neighbours(edges, n)], n)]
  IN path

(* None to a node that is not in the graph, is allocated or cannot be reached.  *)
previewPath(graph, allocated, target) ==
  LET last == Cardinality(NodeIds)
  IN IF \/ target \notin DOMAIN graph.nodeIndex \/ target \in allocated \/ allocated = {}
        \/ target \notin Visited(graph.edges, allocated)[last]
       THEN NoPath
       ELSE PathsTo(graph.edges, allocated)[last][target]

-----------------------------------------------------------------------------
(* A node of tree.json: notable and keystone when its id is even. *)
RawNode(n, connections, group) ==
  [group |-> group, orbit |-> IF n = 3 THEN 0 ELSE 1, orbitIndex |-> IF n = 3 THEN 0 ELSE (n % 4),
   flags |-> IF n % 2 = 0 THEN {"notable", "keystone"} ELSE {}, connections |-> connections]

(* The runner's node: upstream's coordinates and type. *)
Served(raw) ==
  [n \in NodeIds |->
     [x |-> nodeCoord(raw.nodes[n]).x, y |-> nodeCoord(raw.nodes[n]).y,
      type |-> IF n % 2 = 0 THEN "Keystone" ELSE "Normal", connections |-> raw.nodes[n].connections]]

TreeInit == treeRaw = NoTree /\ treeGraph = NoTree /\ treeView = NoTree /\ treePreview = NoTree

(* A tree is loaded, from the file and from the runner; the least id belongs to *)
(* the given group, which need not exist.                                       *)
LoadTree(wiring, allocated, group) ==
  LET raw == [nodes |-> [n \in NodeIds |->
                RawNode(n, wiring[n], IF n = Min(NodeIds) THEN group ELSE 1)],
              allocated |-> allocated]
  IN /\ treeRaw = NoTree
     /\ treeRaw' = raw
     /\ treeGraph' = buildTreeGraph(raw)
     /\ treeView' = IF buildTreeGraph(raw) = Misplaced THEN Misplaced ELSE treeResponseToGraph(Served(raw))
     /\ UNCHANGED treePreview

Preview(target) ==
  /\ treeView \notin {NoTree, Misplaced}
  /\ treePreview' = [target |-> target, path |-> previewPath(treeView, treeRaw.allocated, target)]
  /\ UNCHANGED <<treeRaw, treeGraph, treeView>>

TreeNext ==
  \/ \E wiring \in Wirings, allocated \in Starts, group \in {1, 2, 9} : LoadTree(wiring, allocated, group)
  \/ \E target \in NodeIds \cup {StrayId} : Preview(target)

TreeSpec == TreeInit /\ [][TreeNext]_treeVars

-----------------------------------------------------------------------------
(* The two transforms, which follow one rule in two files, draw the same tree.  *)
TransformsAgree == treeView \notin {NoTree, Misplaced} => treeView = treeGraph

(* Every way from an allocated node to n over the edges, without going back. *)
Ways(edges, allocated, n) ==
  {w \in UNION {[1..k -> NodeIds] : k \in 1..Cardinality(NodeIds)} :
     /\ w[Len(w)] = n
     /\ ToSet(w) \cap allocated = {}
     /\ \E a \in allocated : w[1] \in Neighbours(edges, a)
     /\ \A i \in 1..(Len(w) - 1) : w[i + 1] \in Neighbours(edges, w[i])}

(* The path shown on hover is a shortest one: it starts beside the allocated    *)
(* nodes, follows edges, ends at the target and takes as few new nodes as any;  *)
(* none is shown exactly when no way leads there.                               *)
PreviewIsAShortestWay ==
  treePreview # NoTree =>
    LET edges == treeView.edges
        ways  == Ways(edges, treeRaw.allocated, treePreview.target)
    IN IF treePreview.path = NoPath THEN ways = {} \/ treePreview.target \notin NodeIds
       ELSE treePreview.path \in ways /\ \A w \in ways : Len(treePreview.path) <= Len(w)
=============================================================================
