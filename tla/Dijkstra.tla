------------------------------ MODULE Dijkstra ------------------------------
(***************************************************************************)
(* Shortest paths over a binary heap (src/graph.c): dijkstra pushes a node *)
(* anew each time its distance falls and leaves the old entry where it is, *)
(* and the heap compares the entries by the distances of the moment.       *)
(***************************************************************************)
EXTENDS Integers, Sequences, FiniteSetsExt, Functions

CONSTANTS
  Size,      \* number of nodes, 0 to Size - 1 (SIZE)
  Graphs,    \* the matrices to search; a positive entry is an edge's length
  MaxDist    \* the distance of a node not reached yet (MAX_DIST)

Node == 0 .. Size - 1

\* No path is as long as MaxDist: the edges of the test are at most 10 long, its
\* MAX_DIST is 1024.
ASSUME DijkstraAssumption ==
  /\ Size \in Nat \ {0, 1}
  /\ MaxDist \in Nat \ {0}
  /\ Graphs \subseteq [Node -> [Node -> Int]]
  /\ \A g \in Graphs : \A m, n \in Node : g[m][n] * (Size - 1) < MaxDist

s_id == 0
t_id == Size - 1

VARIABLES
  graph,
  array,     \* the heap from its entry 1 on: ids of nodes
  visited,
  dist,
  result,    \* searching, found, exhausted, or failed on the assertion
  fallen     \* history: the distance of a node in the heap has fallen

vars == <<graph, array, visited, dist, result, fallen>>

-----------------------------------------------------------------------------
\* The heap.

\* The positions from ind up to where a new entry, pushed at the end, stops: the
\* entries on its way move down.
Rise(a, d, node) ==
  LET way[ind \in 1 .. Len(a) + 1] ==
        IF ind > 1 /\ d[a[ind \div 2]] > d[node]
        THEN {ind} \cup way[ind \div 2] ELSE {ind}
  IN  way

\* Mutation: the new entry stays at the end.
push_graph_last(a, d, node) == IF d[node] >= 0 THEN Append(a, node) ELSE a

\* A full heap takes no more.
push_graph(a, d, node) ==
  IF Len(a) = Size * Size THEN a
  ELSE LET way == Rise(a, d, node)[Len(a) + 1]
       IN  [k \in 1 .. Len(a) + 1 |->
              IF k = Min(way) THEN node ELSE IF k \in way THEN a[k \div 2] ELSE a[k]]

\* The smaller child of i, the left one of two equal ones.
Child(a, d, i) ==
  IF 2 * i < Len(a) /\ d[a[2 * i + 1]] < d[a[2 * i]] THEN 2 * i + 1 ELSE 2 * i

\* The positions from i down to where the entry last, which fills the hole at the
\* root of the heap a, stops: the entries on its way move up.
Sink(a, d, last) ==
  LET way[i \in DOMAIN a] ==
        IF i <= Len(a) \div 2 /\ d[a[Child(a, d, i)]] < d[last]
        THEN {i} \cup way[Child(a, d, i)] ELSE {i}
  IN  way

\* The heap left when last has found its place.
Refilled(a, d, last) ==
  LET way == Sink(a, d, last)[1]
  IN  [k \in DOMAIN a |->
         IF k = Max(way) THEN last ELSE IF k \in way THEN a[Child(a, d, k)] ELSE a[k]]

\* Mutation: the size goes down by two.
pop_graph_short(a, d) ==
  LET left == SubSeq(a, 1, Len(a) - 2)
  IN  IF left = <<>> THEN left ELSE Refilled(left, d, a[Len(a)])

\* What pop_graph leaves; it returns a[1].
pop_graph(a, d) ==
  LET left == SubSeq(a, 1, Len(a) - 1)
  IN  IF left = <<>> THEN left ELSE Refilled(left, d, a[Len(a)])

-----------------------------------------------------------------------------
Init ==
  /\ graph \in Graphs
  /\ array = <<s_id>>
  /\ visited = {}
  /\ dist = [n \in Node |-> IF n = s_id THEN 0 ELSE MaxDist]
  /\ result = "searching"
  /\ fallen = FALSE

Top == array[1]

\* Mutation: an entry that is no edge is followed.
ShortensNoEdge(n, i) ==
  /\ i \notin visited \cup {n}
  /\ dist[n] + graph[n][i] < dist[i]

\* The edge from n to i shortens the way to i, a node not visited.
Shortens(n, i) ==
  /\ graph[n][i] > 0
  /\ i \notin visited \cup {n}
  /\ dist[n] + graph[n][i] < dist[i]

\* The distances when the nodes up to i have been checked.
Relaxed(n, i) ==
  [k \in Node |-> IF k <= i /\ Shortens(n, k) THEN dist[n] + graph[n][k] ELSE dist[k]]

\* The heap when the nodes before i have been checked: each neighbour is pushed
\* with the distances of that moment.
Pushed(n, left) ==
  LET upto[i \in 0 .. Size] ==
        IF i = 0 THEN left
        ELSE IF Shortens(n, i - 1)
             THEN push_graph(upto[i - 1], Relaxed(n, i - 1), i - 1)
             ELSE upto[i - 1]
  IN  upto

PushNeighbors(n, left) == Pushed(n, left)[Size]

\* An iteration of the while loop.
Search == result = "searching" /\ array # <<>>

Found ==
  /\ Search /\ Top \notin visited /\ Top = t_id
  /\ visited' = visited \cup {Top}
  /\ array' = pop_graph(array, dist)
  /\ result' = "found"
  /\ UNCHANGED <<graph, dist, fallen>>

Expand ==
  /\ Search /\ Top \notin visited /\ Top # t_id
  /\ visited' = visited \cup {Top}
  /\ dist' = Relaxed(Top, Size - 1)
  /\ array' = PushNeighbors(Top, pop_graph(array, dist))
  /\ fallen' = (fallen \/ \E i \in Range(array) : Shortens(Top, i))
  /\ UNCHANGED <<graph, result>>

\* assert(visited[node->id] == 0).
AssertFails ==
  /\ Search /\ Top \in visited
  /\ result' = "failed"
  /\ UNCHANGED <<graph, array, visited, dist, fallen>>

\* return -1.
Exhausted ==
  /\ result = "searching" /\ array = <<>>
  /\ result' = "exhausted"
  /\ UNCHANGED <<graph, array, visited, dist, fallen>>

Next == Found \/ Expand \/ AssertFails \/ Exhausted

Spec == Init /\ [][Next]_vars

-----------------------------------------------------------------------------
\* The distance of each node over one more edge than in d.
OneMoreEdge(d) ==
  [n \in Node |->
     Min({d[n]} \cup {d[m] + graph[m][n] : m \in {m \in Node : graph[m][n] > 0}})]

\* The lengths of the shortest paths of k edges or less.
ShortestWithin ==
  LET within[k \in 0 .. Size - 1] ==
        IF k = 0 THEN [n \in Node |-> IF n = s_id THEN 0 ELSE MaxDist]
        ELSE OneMoreEdge(within[k - 1])
  IN  within

\* The lengths of the shortest paths: the definition to compare with.
Shortest == ShortestWithin[Size - 1]

TypeOK ==
  /\ array \in Seq(Node) /\ Len(array) <= Size * Size
  /\ visited \subseteq Node
  /\ dist \in [Node -> 0 .. MaxDist]
  /\ result \in {"searching", "found", "exhausted", "failed"}
  /\ fallen \in BOOLEAN

\* A distance is never below the length of a shortest path, whatever entries
\* the heap holds twice and however stale their order.
NeverTooShort == \A n \in Node : dist[n] >= Shortest[n]

\* The search ends with -1 only when there is no path, although a full heap
\* drops a node silently.
ExhaustedOnlyIfUnreachable ==
  result = "exhausted" => Shortest[t_id] = MaxDist

\* As long as no distance has fallen of a node that was in the heap, the search
\* is right: the nearest node is taken first, none is taken twice, and the
\* distance found is the shortest.
RightUnlessFallen ==
  ~fallen =>
    /\ \A k \in DOMAIN array : dist[Top] <= dist[array[k]]
    /\ result # "failed"
    /\ result = "found" => dist[t_id] = Shortest[t_id]

\* The heap never gives out a node twice: the assertion of the loop.  (It fails
\* when a node's distance has fallen after it was pushed.)
NoNodeTwice == result # "failed"

\* What the caller prints as the shortest distance is it.  (It is not always.)
FoundIsShortest == result = "found" => dist[t_id] = Shortest[t_id]
=============================================================================
