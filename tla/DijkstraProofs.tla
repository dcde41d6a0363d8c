--------------------------- MODULE DijkstraProofs ---------------------------
(***************************************************************************)
(* Proofs about the shortest paths of src/graph.c: for any number of       *)
(* nodes, any graphs and any lengths.                                      *)
(***************************************************************************)
EXTENDS Dijkstra, FiniteSetTheorems, RecursionLemmas, TLAPS

(***************************************************************************)
(* Arithmetic of positions in the heap.                                    *)
(***************************************************************************)

LEMMA Halves ==
  ASSUME NEW k \in Nat, k >= 2
  PROVE  /\ k \div 2 \in Nat /\ 1 <= k \div 2 /\ k \div 2 < k
         /\ k = 2 * (k \div 2) \/ k = 2 * (k \div 2) + 1
  BY SMTT(30)

LEMMA HalfOfDouble ==
  ASSUME NEW k \in Nat
  PROVE  (2 * k) \div 2 = k /\ (2 * k + 1) \div 2 = k
  BY SMTT(30)

LEMMA HalvesMonotone ==
  ASSUME NEW j \in Nat, NEW k \in Nat, j <= k
  PROVE  j \div 2 <= k \div 2
  BY SMTT(30)

(***************************************************************************)
(* The way of a new entry up the heap.                                     *)
(***************************************************************************)

\* The new entry passes the parent of ind.
Passes(a, d, node, ind) == ind > 1 /\ d[a[ind \div 2]] > d[node]

LEMMA RiseEquation ==
  ASSUME NEW a, NEW d, NEW node, Len(a) \in Nat
  PROVE  \A ind \in 1 .. Len(a) + 1 : \A k :
           k \in Rise(a, d, node)[ind] <=>
             k = ind \/ (Passes(a, d, node, ind) /\ k \in Rise(a, d, node)[ind \div 2])
<1> DEFINE S == 1 .. Len(a) + 1
           V == SUBSET S
           m == [x \in S |-> x]
           passes(x) == Passes(a, d, node, x)
           G == [x \in S |-> [h \in [S -> V] |->
                   IF passes(x) THEN {x} \cup h[x \div 2] ELSE {x}]]
<1>1. m \in [S -> Nat]
  OBVIOUS
<1>2. \A x \in S : passes(x) => x \div 2 \in S /\ m[x \div 2] < m[x]
  BY Halves DEF Passes
<1> HIDE DEF passes, m
<1>3. \A x \in S : \A h \in [S -> V] :
        G[x][h] = IF passes(x) THEN {x} \cup h[x \div 2] ELSE {x}
  <2> HIDE DEF V
  <2> QED
    OBVIOUS
<1> HIDE DEF G
<1>4. \A x \in S : \A h \in [S -> V] : G[x][h] \in V
  BY <1>2, <1>3
<1> HIDE DEF S, V
<1>5. \A x \in S : \A g, h \in [S -> V] :
        (\A y \in S : m[y] < m[x] => g[y] = h[y]) => G[x][g] = G[x][h]
  <2>1. TAKE x \in S
  <2>2. TAKE g, h \in [S -> V]
  <2>3. HAVE \A y \in S : m[y] < m[x] => g[y] = h[y]
  <2>4. passes(x) => g[x \div 2] = h[x \div 2]
    BY <1>2, <2>3
  <2> QED
    BY <1>3, <2>4
<1>6. V # {}
  BY DEF V
<1>7. PICK f \in [S -> V] : \A x \in S : f[x] = G[x][f]
  <2>1. Recursive(S, m, V, G)
    BY <1>1, <1>4, <1>5, <1>6 DEF Recursive
  <2> QED
    BY <2>1, RecursionExists
<1>8. f = [x \in S |-> IF passes(x) THEN {x} \cup f[x \div 2] ELSE {x}]
  BY <1>3, <1>7
<1> DEFINE W == Rise(a, d, node)
<1>9. W = [x \in S |-> IF passes(x) THEN {x} \cup W[x \div 2] ELSE {x}]
  BY <1>8 DEF Rise, S, passes, Passes
<1> HIDE DEF W
<1>10. \A x \in S : \A k : k \in W[x] <=> k = x \/ (passes(x) /\ k \in W[x \div 2])
  <2>1. TAKE x \in S
  <2>2. CASE passes(x)
    BY <1>9, <2>2
  <2>3. CASE ~passes(x)
    BY <1>9, <2>3
  <2> QED
    BY <2>2, <2>3
<1> QED
  BY <1>10 DEF S, W, passes

\* A way w from ind up to top: it takes each position to its parent, as long as
\* the node there is farther than the new one.
IsRise(a, d, node, ind, w, top) ==
  /\ w \subseteq 1 .. ind /\ ind \in w
  /\ top \in w /\ \A k \in w : top <= k
  /\ \A k \in w \ {ind} : \E j \in w : j > k /\ j \div 2 = k
  /\ \A j, k \in w : j < k => j <= k \div 2
  /\ \A k \in w \ {top} : k > 1 /\ k \div 2 \in w /\ d[a[k \div 2]] > d[node]
  /\ top > 1 => ~(d[a[top \div 2]] > d[node])

LEMMA RiseIsRise ==
  ASSUME NEW a, NEW d, NEW node, Len(a) \in Nat, NEW ind \in 1 .. Len(a) + 1
  PROVE  \E top : IsRise(a, d, node, ind, Rise(a, d, node)[ind], top)
<1> DEFINE S == 1 .. Len(a) + 1
           m == [x \in S |-> x]
           W == Rise(a, d, node)
           P == {x \in S : \E top : IsRise(a, d, node, x, W[x], top)}
           passes(x) == Passes(a, d, node, x)
<1>1. m \in [S -> Nat] /\ ind \in S
  OBVIOUS
<1>2. \A x \in S : \A k : k \in W[x] <=> k = x \/ (passes(x) /\ k \in W[x \div 2])
  BY RiseEquation
<1> HIDE DEF passes, W
<1>3. ASSUME NEW x \in S, \A y \in S : m[y] < m[x] => y \in P
      PROVE  x \in P
  <2>1. CASE ~passes(x)
    <3>1. W[x] = {x}
      BY <1>2, <2>1
    <3>2. IsRise(a, d, node, x, {x}, x)
      BY <2>1 DEF IsRise, Passes, passes
    <3> QED
      BY <3>1, <3>2
  <2>2. CASE passes(x)
    <3> DEFINE p == x \div 2
               w == W[p]
    <3>1. p \in S /\ m[p] < m[x] /\ p < x /\ x \in Nat /\ p \in Nat
      BY <2>2, Halves DEF Passes, passes
    <3>2. PICK top : IsRise(a, d, node, p, w, top)
      BY <1>3, <3>1
    <3>3. W[x] = {x} \cup w
      BY <1>2, <2>2
    <3>4. /\ w \subseteq 1 .. p /\ p \in w /\ top \in w
          /\ \A k \in w : k < x /\ k <= p
      BY <3>1, <3>2 DEF IsRise
    <3> HIDE DEF w, p
    <3>5. IsRise(a, d, node, x, {x} \cup w, top)
      <4>1. {x} \cup w \subseteq 1 .. x
        BY <3>1, <3>4
      <4>2. \A k \in {x} \cup w : top <= k
        <5>1. /\ \A k \in w : top <= k
              /\ top \in Nat /\ top <= x
          BY <3>1, <3>2, <3>4 DEF IsRise
        <5> QED
          BY <5>1
      <4>3. \A k \in ({x} \cup w) \ {x} : \E j \in {x} \cup w : j > k /\ j \div 2 = k
        BY <3>1, <3>2, <3>4 DEF IsRise, p
      <4>4. \A j, k \in {x} \cup w : j < k => j <= k \div 2
        BY <3>1, <3>2, <3>4 DEF IsRise, p
      <4>5. \A k \in ({x} \cup w) \ {top} :
              k > 1 /\ k \div 2 \in {x} \cup w /\ d[a[k \div 2]] > d[node]
        BY <2>2, <3>1, <3>2, <3>4 DEF IsRise, p, Passes, passes
      <4> QED
        BY <3>2, <3>4, <4>1, <4>2, <4>3, <4>4, <4>5 DEF IsRise
    <3> QED
      BY <3>3, <3>5
  <2> QED
    BY <2>1, <2>2
<1> HIDE DEF P, m, S
<1>4. S \subseteq P
  BY <1>1, <1>3, MeasureInduction, ZenonT(60)
<1> QED
  BY <1>1, <1>4 DEF P, W

\* No node is nearer than its parent in the heap.
HeapOrdered(a, d) == \A k \in 2 .. Len(a) : d[a[k \div 2]] <= d[a[k]]

\* b is a with node at the position top of its way, the nodes on it moved down.
IsPushed(a, node, way, top, b) ==
  /\ b = [k \in 1 .. Len(a) + 1 |-> b[k]]
  /\ top \in 1 .. Len(a) + 1 /\ b[top] = node
  /\ \A k \in way \ {top} : k \div 2 \in 1 .. Len(a) /\ b[k] = a[k \div 2]
  /\ \A k \in (1 .. Len(a) + 1) \ way : k \in 1 .. Len(a) /\ b[k] = a[k]

LEMMA PushEntries ==
  ASSUME NEW a \in Seq(Node), NEW d, NEW node \in Node, Len(a) # Size * Size
  PROVE  \E way, top : /\ IsRise(a, d, node, Len(a) + 1, way, top)
                       /\ IsPushed(a, node, way, top, push_graph(a, d, node))
<1> DEFINE way == Rise(a, d, node)[Len(a) + 1]
           b == push_graph(a, d, node)
<1>1. Len(a) \in Nat /\ Len(a) + 1 \in 1 .. Len(a) + 1
  OBVIOUS
<1>2. PICK top : IsRise(a, d, node, Len(a) + 1, way, top)
  BY <1>1, RiseIsRise
<1>3. Min(way) = top
  <2> HIDE DEF way
  <2>1. way \subseteq Nat /\ way # {} /\ top \in way /\ \A k \in way : top <= k
    BY <1>1, <1>2 DEF IsRise
  <2>2. Min(way) \in Nat /\ top \in Nat /\ Min(way) <= top /\ top <= Min(way)
    BY <2>1, MinOf
  <2> QED
    BY <2>2
<1>4. b = [k \in 1 .. Len(a) + 1 |->
             IF k = top THEN node ELSE IF k \in way THEN a[k \div 2] ELSE a[k]]
  BY <1>3 DEF push_graph
<1> HIDE DEF way, b
<1>5. way \subseteq 1 .. Len(a) + 1 /\ top \in way
  BY <1>2 DEF IsRise
<1>6. IsPushed(a, node, way, top, b)
  <2>1. b = [k \in 1 .. Len(a) + 1 |-> b[k]] /\ b[top] = node
    BY <1>4, <1>5
  <2>2. ASSUME NEW k \in way \ {top}
        PROVE  k \div 2 \in 1 .. Len(a) /\ b[k] = a[k \div 2]
    <3>1. k \in Nat /\ k >= 2 /\ k <= Len(a) + 1
      BY <1>1, <1>2, <1>5 DEF IsRise
    <3>2. k \div 2 \in 1 .. Len(a)
      BY <1>1, <3>1, Halves
    <3> QED
      BY <1>4, <1>5, <3>2
  <2>3. ASSUME NEW k \in (1 .. Len(a) + 1) \ way
        PROVE  k \in 1 .. Len(a) /\ b[k] = a[k]
    <3>1. k # Len(a) + 1
      BY <1>2 DEF IsRise
    <3> QED
      BY <1>1, <1>4, <1>5, <3>1
  <2> QED
    BY <1>5, <2>1, <2>2, <2>3 DEF IsPushed
<1> QED
  BY <1>2, <1>6 DEF b

LEMMA PushLength ==
  ASSUME NEW a \in Seq(Node), NEW d, NEW node \in Node, Len(a) # Size * Size
  PROVE  /\ push_graph(a, d, node) \in Seq(Node)
         /\ Len(push_graph(a, d, node)) = Len(a) + 1
<1> DEFINE b == push_graph(a, d, node)
<1>1. PICK way, top : /\ IsRise(a, d, node, Len(a) + 1, way, top)
                      /\ IsPushed(a, node, way, top, b)
  BY PushEntries
<1>2. Len(a) \in Nat /\ a \in [1 .. Len(a) -> Node]
  OBVIOUS
<1> HIDE DEF b
<1>3. ASSUME NEW k \in 1 .. Len(a) + 1 PROVE b[k] \in Node
  <2>1. CASE k = top
    BY <1>1, <2>1 DEF IsRise, IsPushed
  <2>2. CASE k # top /\ k \in way
    <3>1. k \div 2 \in 1 .. Len(a) /\ b[k] = a[k \div 2]
      BY <1>1, <2>2 DEF IsPushed
    <3> QED
      BY <1>2, <3>1
  <2>3. CASE k # top /\ k \notin way
    <3>1. k \in 1 .. Len(a) /\ b[k] = a[k]
      BY <1>1, <2>3 DEF IsPushed
    <3> QED
      BY <1>2, <3>1
  <2> QED
    BY <2>1, <2>2, <2>3
<1>4. b \in [1 .. Len(a) + 1 -> Node]
  BY <1>1, <1>3 DEF IsRise, IsPushed
<1>5. b \in Seq(Node) /\ Len(b) = Len(a) + 1
  BY <1>2, <1>4
<1> QED
  BY <1>5 DEF b

\* No entry is lost.
LEMMA PushRange ==
  ASSUME NEW a \in Seq(Node), NEW d, NEW node \in Node, Len(a) # Size * Size
  PROVE  Range(push_graph(a, d, node)) = Range(a) \cup {node}
<1> DEFINE b == push_graph(a, d, node)
<1>1. PICK way, top : /\ IsRise(a, d, node, Len(a) + 1, way, top)
                      /\ IsPushed(a, node, way, top, b)
  BY PushEntries
<1>2. Len(a) \in Nat /\ a \in [1 .. Len(a) -> Node] /\ DOMAIN b = 1 .. Len(a) + 1
      /\ DOMAIN a = 1 .. Len(a)
  BY <1>1 DEF IsPushed
<1> HIDE DEF b
<1>3. ASSUME NEW k \in 1 .. Len(a) + 1 PROVE b[k] \in Range(a) \cup {node}
  <2>1. CASE k = top
    BY <1>1, <2>1 DEF IsRise, IsPushed
  <2>2. CASE k # top /\ k \in way
    <3>1. k \div 2 \in 1 .. Len(a) /\ b[k] = a[k \div 2]
      BY <1>1, <2>2 DEF IsPushed
    <3> QED
      BY <1>2, <3>1 DEF Range
  <2>3. CASE k # top /\ k \notin way
    <3>1. k \in 1 .. Len(a) /\ b[k] = a[k]
      BY <1>1, <2>3 DEF IsPushed
    <3> QED
      BY <1>2, <3>1 DEF Range
  <2> QED
    BY <2>1, <2>2, <2>3
<1>4. ASSUME NEW k \in 1 .. Len(a) PROVE a[k] \in Range(b)
  <2>1. CASE k \in way
    <3>1. PICK j \in way : j > k /\ j \div 2 = k
      BY <1>1, <1>2, <2>1 DEF IsRise, IsPushed
    <3>2. j \in 1 .. Len(a) + 1 /\ j # top
      BY <1>1, <1>2, <2>1, <3>1 DEF IsRise, IsPushed
    <3>3. b[j] = a[k]
      BY <1>1, <3>1, <3>2 DEF IsRise, IsPushed
    <3> QED
      BY <1>2, <3>2, <3>3 DEF Range
  <2>2. CASE k \notin way
    <3>1. k # top /\ k \in 1 .. Len(a) + 1
      BY <1>1, <1>2, <2>2 DEF IsRise, IsPushed
    <3>2. b[k] = a[k]
      BY <1>1, <2>2, <3>1 DEF IsRise, IsPushed
    <3> QED
      BY <1>2, <3>1, <3>2 DEF Range
  <2> QED
    BY <2>1, <2>2
<1>5. node \in Range(b)
  <2>1. top \in 1 .. Len(a) + 1 /\ b[top] = node
    BY <1>1, <1>2 DEF IsRise, IsPushed
  <2> QED
    BY <1>2, <2>1 DEF Range
<1>6. Range(b) \subseteq Range(a) \cup {node}
  BY <1>2, <1>3 DEF Range
<1>7. Range(a) \subseteq Range(b)
  BY <1>2, <1>4 DEF Range
<1>8. Range(b) = Range(a) \cup {node}
  BY <1>5, <1>6, <1>7
<1> QED
  BY <1>8 DEF b

\* A node pushed that is not in the heap is in it once.
LEMMA PushInjective ==
  ASSUME NEW a \in Seq(Node), NEW d, NEW node \in Node, Len(a) # Size * Size,
         IsInjective(a), node \notin Range(a)
  PROVE  IsInjective(push_graph(a, d, node))
<1> DEFINE b == push_graph(a, d, node)
<1>1. PICK way, top : /\ IsRise(a, d, node, Len(a) + 1, way, top)
                      /\ IsPushed(a, node, way, top, b)
  BY PushEntries
<1>2. Len(a) \in Nat /\ a \in [1 .. Len(a) -> Node] /\ DOMAIN b = 1 .. Len(a) + 1
      /\ DOMAIN a = 1 .. Len(a)
  BY <1>1 DEF IsPushed
<1> HIDE DEF b
<1> DEFINE from(k) == IF k \in way THEN k \div 2 ELSE k
<1>3. ASSUME NEW k \in 1 .. Len(a) + 1, k # top
      PROVE  from(k) \in 1 .. Len(a) /\ b[k] = a[from(k)] /\ b[k] # node
  <2>1. CASE k \in way
    <3>1. k \div 2 \in 1 .. Len(a) /\ b[k] = a[k \div 2]
      BY <1>1, <1>3, <2>1 DEF IsPushed
    <3> QED
      BY <1>2, <2>1, <3>1 DEF Range
  <2>2. CASE k \notin way
    <3>1. k \in 1 .. Len(a) /\ b[k] = a[k]
      BY <1>1, <1>3, <2>2 DEF IsPushed
    <3> QED
      BY <1>2, <2>2, <3>1 DEF Range
  <2> QED
    BY <2>1, <2>2
<1>4. ASSUME NEW j \in 1 .. Len(a) + 1, NEW k \in 1 .. Len(a) + 1, j # top, k # top,
             from(j) = from(k)
      PROVE  j = k
  <2>1. CASE j \in way /\ k \in way
    <3>1. j > 1 /\ k > 1 /\ j \div 2 < j /\ k \div 2 < k /\ j \div 2 \in Nat /\ k \div 2 \in Nat
      BY <1>1, <1>4, <2>1, Halves DEF IsRise, IsPushed
    <3>2. (j < k => j <= k \div 2) /\ (k < j => k <= j \div 2)
      BY <1>1, <2>1 DEF IsRise, IsPushed
    <3>3. j \div 2 = k \div 2
      BY <1>4, <2>1
    <3> QED
      BY <3>1, <3>2, <3>3
  <2>2. ASSUME NEW x \in way, NEW y \in 1 .. Len(a) + 1, y \notin way, x # top
        PROVE  from(x) # from(y)
    <3>1. x \div 2 \in way
      BY <1>1, <2>2 DEF IsRise, IsPushed
    <3> QED
      BY <2>2, <3>1
  <2> HIDE DEF from
  <2>3. CASE j \in way /\ k \notin way
    BY <1>4, <2>2, <2>3
  <2>4. CASE j \notin way /\ k \in way
    BY <1>4, <2>2, <2>4
  <2>5. CASE j \notin way /\ k \notin way
    BY <1>4, <2>5 DEF from
  <2> QED
    BY <2>1, <2>3, <2>4, <2>5
<1>5. b[top] = node /\ top \in 1 .. Len(a) + 1
  BY <1>1, <1>2 DEF IsRise, IsPushed
<1>6. \A j, k \in 1 .. Len(a) : a[j] = a[k] => j = k
  BY <1>2 DEF IsInjective
<1>7. ASSUME NEW j \in 1 .. Len(a) + 1, NEW k \in 1 .. Len(a) + 1, b[j] = b[k]
      PROVE  j = k
  <2> HIDE DEF from
  <2>1. CASE j = top \/ k = top
    BY <1>3, <1>5, <1>7, <2>1
  <2>2. CASE j # top /\ k # top
    <3>1. from(j) = from(k)
      BY <1>3, <1>6, <1>7, <2>2
    <3> QED
      BY <1>4, <2>2, <3>1
  <2> QED
    BY <2>1, <2>2
<1>8. IsInjective(b)
  BY <1>2, <1>7 DEF IsInjective
<1> QED
  BY <1>8 DEF b

\* Pushing keeps the heap in order.
LEMMA PushOrdered ==
  ASSUME NEW a \in Seq(Node), NEW d \in [Node -> Int], NEW node \in Node,
         Len(a) # Size * Size, HeapOrdered(a, d)
  PROVE  HeapOrdered(push_graph(a, d, node), d)
<1> DEFINE b == push_graph(a, d, node)
<1>1. PICK way, top : /\ IsRise(a, d, node, Len(a) + 1, way, top)
                      /\ IsPushed(a, node, way, top, b)
  BY PushEntries
<1>2. Len(a) \in Nat /\ a \in [1 .. Len(a) -> Node] /\ Len(b) = Len(a) + 1
      /\ b \in [1 .. Len(a) + 1 -> Node]
  BY PushLength
<1> HIDE DEF b
<1>3. \A k \in 1 .. Len(a) : d[a[k]] \in Int
  BY <1>2
<1>4. \A k \in 2 .. Len(a) : d[a[k \div 2]] <= d[a[k]]
  BY DEF HeapOrdered
<1>5. ASSUME NEW k \in 1 .. Len(a), k \in way \ {top}
      PROVE  k \div 2 \in 1 .. Len(a) /\ d[b[k]] <= d[a[k]]
  <2>1. k \in 2 .. Len(a) /\ b[k] = a[k \div 2] /\ k \div 2 \in 1 .. Len(a)
    <3>1. k > 1
      BY <1>1, <1>5 DEF IsRise
    <3>2. b[k] = a[k \div 2] /\ k \div 2 \in 1 .. Len(a)
      BY <1>1, <1>5 DEF IsPushed
    <3> QED
      BY <1>2, <3>1, <3>2
  <2> QED
    BY <1>2, <1>4, <2>1
\* Where the new entry stops it is nearer than what was there.
<1>6. top \in 1 .. Len(a) => d[node] <= d[a[top]]
  <2>1. SUFFICES ASSUME top \in 1 .. Len(a) PROVE d[node] <= d[a[top]]
    OBVIOUS
  <2>2. PICK j \in way : j > top /\ j \div 2 = top
    BY <1>1, <1>2, <2>1 DEF IsRise
  <2>3. d[a[top]] > d[node]
    BY <1>1, <2>1, <2>2 DEF IsRise
  <2> QED
    BY <1>3, <2>1, <2>3
\* An entry of the old heap is no nearer than the new one in its place.
<1>7. ASSUME NEW k \in 1 .. Len(a) PROVE d[b[k]] <= d[a[k]]
  <2>1. CASE k = top
    BY <1>1, <1>6, <2>1 DEF IsPushed
  <2>2. CASE k \in way \ {top}
    BY <1>5, <2>2
  <2>3. CASE k \notin way
    BY <1>1, <1>2, <1>3, <2>3 DEF IsPushed
  <2> QED
    BY <2>1, <2>2, <2>3
<1>8. ASSUME NEW k \in 2 .. Len(a) + 1 PROVE d[b[k \div 2]] <= d[b[k]]
  <2> DEFINE p == k \div 2
  <2>1. p \in 1 .. Len(a) /\ p < k
    BY <1>2, Halves
  <2>2. b[p] \in Node /\ b[k] \in Node /\ a[p] \in Node
    BY <1>2, <2>1
  <2>3. CASE k = top
    <3>1. p \notin way
      BY <1>1, <1>2, <2>1, <2>3 DEF IsRise
    <3>2. b[p] = a[p] /\ b[k] = node
      BY <1>1, <2>1, <2>3, <3>1 DEF IsPushed
    <3>3. ~(d[a[p]] > d[node])
      BY <1>1, <2>3 DEF IsRise
    <3> QED
      BY <2>2, <3>2, <3>3
  <2>4. CASE k \in way \ {top}
    <3>1. b[k] = a[p]
      BY <1>1, <2>4 DEF IsPushed
    <3> QED
      BY <1>7, <2>1, <3>1
  <2>5. CASE k \notin way
    <3>1. k \in 1 .. Len(a) /\ b[k] = a[k]
      BY <1>1, <2>5 DEF IsPushed
    <3>2. d[a[p]] <= d[a[k]] /\ d[b[p]] <= d[a[p]]
      BY <1>4, <1>7, <2>1, <3>1
    <3> QED
      BY <2>2, <3>1, <3>2
  <2> QED
    BY <2>3, <2>4, <2>5
<1> QED
  BY <1>2, <1>8 DEF HeapOrdered, b

(***************************************************************************)
(* The way of the last entry down the heap.                                *)
(***************************************************************************)

LEMMA ChildIsChild ==
  ASSUME NEW a, NEW d, Len(a) \in Nat, NEW i \in 1 .. Len(a), i <= Len(a) \div 2
  PROVE  /\ Child(a, d, i) \in 1 .. Len(a)
         /\ Child(a, d, i) > i
         /\ Child(a, d, i) \div 2 = i
<1>1. Child(a, d, i) = 2 * i \/ (Child(a, d, i) = 2 * i + 1 /\ 2 * i < Len(a))
  BY DEF Child
<1>2. 2 * i <= Len(a)
  BY SMTT(30)
<1> QED
  BY <1>1, <1>2, HalfOfDouble

\* It is the nearer of the two.
LEMMA ChildIsNearer ==
  ASSUME NEW a \in Seq(Node), NEW d \in [Node -> Int], NEW k \in 2 .. Len(a)
  PROVE  d[a[Child(a, d, k \div 2)]] <= d[a[k]]
<1> DEFINE i == k \div 2
<1>1. i \in Nat /\ i >= 1 /\ (k = 2 * i \/ k = 2 * i + 1) /\ Len(a) \in Nat
  BY Halves
<1>2. \A j \in 1 .. Len(a) : d[a[j]] \in Int
  OBVIOUS
<1> HIDE DEF i
<1>3. CASE k = 2 * i + 1
  <2>1. 2 * i < Len(a) /\ 2 * i \in 1 .. Len(a) /\ d[a[2 * i]] \in Int /\ d[a[k]] \in Int
    BY <1>1, <1>2, <1>3
  <2> QED
    BY <1>3, <2>1 DEF Child, i
<1>4. CASE k = 2 * i
  <2>1. d[a[k]] \in Int /\ (k < Len(a) => d[a[k + 1]] \in Int)
    BY <1>1, <1>2
  <2> QED
    BY <1>4, <2>1 DEF Child, i
<1> QED
  BY <1>1, <1>3, <1>4

\* The child of i is nearer than the last entry.
Falls(a, d, last, i) == i <= Len(a) \div 2 /\ d[a[Child(a, d, i)]] < d[last]

LEMMA SinkEquation ==
  ASSUME NEW a, NEW d, NEW last, Len(a) \in Nat, DOMAIN a = 1 .. Len(a)
  PROVE  \A i \in 1 .. Len(a) : \A k :
           k \in Sink(a, d, last)[i] <=>
             k = i \/ (Falls(a, d, last, i) /\ k \in Sink(a, d, last)[Child(a, d, i)])
<1> DEFINE S == 1 .. Len(a)
           V == SUBSET S
           m == [x \in S |-> Len(a) - x]
           falls(x) == Falls(a, d, last, x)
           G == [x \in S |-> [h \in [S -> V] |->
                   IF falls(x) THEN {x} \cup h[Child(a, d, x)] ELSE {x}]]
<1>1. m \in [S -> Nat]
  <2>1. \A x \in S : Len(a) - x \in Nat
    OBVIOUS
  <2> QED
    BY <2>1
<1>2. \A x \in S : falls(x) => Child(a, d, x) \in S /\ m[Child(a, d, x)] < m[x]
  <2>1. \A x \in S : falls(x) => Child(a, d, x) \in S /\ Child(a, d, x) > x
    BY ChildIsChild DEF Falls
  <2> HIDE DEF falls
  <2> QED
    BY <2>1
<1> HIDE DEF falls, m
<1>3. \A x \in S : \A h \in [S -> V] :
        G[x][h] = IF falls(x) THEN {x} \cup h[Child(a, d, x)] ELSE {x}
  <2> HIDE DEF V
  <2> QED
    OBVIOUS
<1> HIDE DEF G
<1>4. \A x \in S : \A h \in [S -> V] : G[x][h] \in V
  BY <1>2, <1>3
<1> HIDE DEF S, V
<1>5. \A x \in S : \A g, h \in [S -> V] :
        (\A y \in S : m[y] < m[x] => g[y] = h[y]) => G[x][g] = G[x][h]
  <2>1. TAKE x \in S
  <2>2. TAKE g, h \in [S -> V]
  <2>3. HAVE \A y \in S : m[y] < m[x] => g[y] = h[y]
  <2>4. falls(x) => g[Child(a, d, x)] = h[Child(a, d, x)]
    BY <1>2, <2>3
  <2> QED
    BY <1>3, <2>4, ZenonT(60)
<1>6. V # {}
  BY DEF V
<1>7. PICK f \in [S -> V] : \A x \in S : f[x] = G[x][f]
  <2>1. Recursive(S, m, V, G)
    BY <1>1, <1>4, <1>5, <1>6 DEF Recursive
  <2> QED
    BY <2>1, RecursionExists
<1>8. f = [x \in S |-> IF falls(x) THEN {x} \cup f[Child(a, d, x)] ELSE {x}]
  BY <1>3, <1>7
<1> DEFINE W == Sink(a, d, last)
<1>9. W = [x \in S |-> IF falls(x) THEN {x} \cup W[Child(a, d, x)] ELSE {x}]
  BY <1>8 DEF Sink, S, falls, Falls
<1> HIDE DEF W
<1>10. \A x \in S : \A k : k \in W[x] <=> k = x \/ (falls(x) /\ k \in W[Child(a, d, x)])
  <2>1. TAKE x \in S
  <2>2. CASE falls(x)
    BY <1>9, <2>2
  <2>3. CASE ~falls(x)
    BY <1>9, <2>3
  <2> QED
    BY <2>2, <2>3
<1> QED
  BY <1>10 DEF S, W, falls

\* A way w from i down to bottom: it takes each position to its nearer child, as
\* long as that is nearer than the last entry.
IsSink(a, d, last, i, w, bottom) ==
  /\ w \subseteq i .. Len(a) /\ i \in w
  /\ bottom \in w /\ \A k \in w : k <= bottom
  /\ \A k \in w \ {bottom} : Falls(a, d, last, k) /\ Child(a, d, k) \in w
  /\ ~Falls(a, d, last, bottom)
  /\ \A k \in w \ {i} : k \div 2 \in w \ {bottom} /\ Child(a, d, k \div 2) = k

LEMMA SinkIsSink ==
  ASSUME NEW a, NEW d, NEW last, Len(a) \in Nat, DOMAIN a = 1 .. Len(a), NEW i \in 1 .. Len(a)
  PROVE  \E bottom : IsSink(a, d, last, i, Sink(a, d, last)[i], bottom)
<1> DEFINE S == 1 .. Len(a)
           m == [x \in S |-> Len(a) - x]
           W == Sink(a, d, last)
           P == {x \in S : \E bottom : IsSink(a, d, last, x, W[x], bottom)}
           falls(x) == Falls(a, d, last, x)
<1>1. m \in [S -> Nat] /\ i \in S
  <2>1. \A x \in S : Len(a) - x \in Nat
    OBVIOUS
  <2> QED
    BY <2>1
<1>2. \A x \in S : \A k : k \in W[x] <=> k = x \/ (falls(x) /\ k \in W[Child(a, d, x)])
  BY SinkEquation
<1> HIDE DEF falls, W
<1>3. ASSUME NEW x \in S, \A y \in S : m[y] < m[x] => y \in P
      PROVE  x \in P
  <2>1. CASE ~falls(x)
    <3>1. W[x] = {x}
      BY <1>2, <2>1
    <3>2. IsSink(a, d, last, x, {x}, x)
      BY <2>1 DEF IsSink, falls
    <3> QED
      BY <3>1, <3>2
  <2>2. CASE falls(x)
    <3> DEFINE c == Child(a, d, x)
               w == W[c]
    <3>1. c \in S /\ c > x /\ c \div 2 = x /\ x \in Nat /\ c \in Nat
      BY <2>2, ChildIsChild DEF Falls, falls
    <3>2. PICK bottom : IsSink(a, d, last, c, w, bottom)
      <4>1. m[c] < m[x]
        BY <3>1
      <4> QED
        BY <1>3, <3>1, <4>1
    <3>3. W[x] = {x} \cup w
      BY <1>2, <2>2
    <3>4. /\ w \subseteq c .. Len(a) /\ c \in w /\ bottom \in w
          /\ bottom \in Nat /\ c <= bottom
          /\ \A k \in w : x < k /\ k <= bottom
      BY <3>1, <3>2 DEF IsSink
    <3> HIDE DEF w, c
    <3>5. IsSink(a, d, last, x, {x} \cup w, bottom)
      <4>1. {x} \cup w \subseteq x .. Len(a)
        BY <3>1, <3>4
      <4>2. \A k \in {x} \cup w : k <= bottom
        BY <3>1, <3>4
      <4>3. \A k \in ({x} \cup w) \ {bottom} :
              Falls(a, d, last, k) /\ Child(a, d, k) \in {x} \cup w
        BY <2>2, <3>2, <3>4 DEF IsSink, c, falls
      <4>4. ~Falls(a, d, last, bottom)
        BY <3>2 DEF IsSink
      <4>5. ASSUME NEW k \in ({x} \cup w) \ {x}
            PROVE  k \div 2 \in ({x} \cup w) \ {bottom} /\ Child(a, d, k \div 2) = k
        <5>1. CASE k = c
          <6>1. x # bottom
            BY <3>1, <3>4
          <6> QED
            BY <3>1, <5>1, <6>1 DEF c
        <5>2. CASE k # c
          BY <3>2, <5>2 DEF IsSink
        <5> QED
          BY <5>1, <5>2
      <4> QED
        BY <3>4, <4>1, <4>2, <4>3, <4>4, <4>5 DEF IsSink
    <3> QED
      BY <3>3, <3>5
  <2> QED
    BY <2>1, <2>2
<1> HIDE DEF P, m, S
<1>4. S \subseteq P
  BY <1>1, <1>3, MeasureInduction, ZenonT(60)
<1> QED
  BY <1>1, <1>4 DEF P, W

\* b is a with last at the position bottom of its way, the nodes on it moved up.
IsRefilled(a, d, last, way, bottom, b) ==
  /\ b = [k \in 1 .. Len(a) |-> b[k]]
  /\ bottom \in 1 .. Len(a) /\ b[bottom] = last
  /\ \A k \in way \ {bottom} :
       Child(a, d, k) \in 2 .. Len(a) /\ b[k] = a[Child(a, d, k)]
  /\ \A k \in (1 .. Len(a)) \ way : b[k] = a[k]

LEMMA RefilledEntries ==
  ASSUME NEW a \in Seq(Node), a # <<>>, NEW d, NEW last \in Node
  PROVE  \E way, bottom : /\ IsSink(a, d, last, 1, way, bottom)
                          /\ IsRefilled(a, d, last, way, bottom, Refilled(a, d, last))
<1> DEFINE way == Sink(a, d, last)[1]
           b == Refilled(a, d, last)
<1>1. Len(a) \in Nat /\ 1 \in 1 .. Len(a) /\ DOMAIN a = 1 .. Len(a)
  OBVIOUS
<1>2. PICK bottom : IsSink(a, d, last, 1, way, bottom)
  BY <1>1, SinkIsSink
<1>3. Max(way) = bottom
  <2> HIDE DEF way
  <2>1. way \subseteq 1 .. Len(a) /\ way # {} /\ bottom \in way /\ \A k \in way : k <= bottom
    BY <1>1, <1>2 DEF IsSink
  <2>5. way \subseteq 0 .. Len(a)
    BY <1>1, <2>1
  <2>2. Max(way) \in way /\ bottom <= Max(way)
    BY <1>1, <2>1, <2>5, MaxOf
  <2>3. Max(way) \in 1 .. Len(a) /\ bottom \in 1 .. Len(a)
    BY <2>1, <2>2
  <2>4. Max(way) <= bottom
    BY <2>1, <2>2
  <2> QED
    BY <2>2, <2>3, <2>4
<1>4. b = [k \in 1 .. Len(a) |->
             IF k = bottom THEN last ELSE IF k \in way THEN a[Child(a, d, k)] ELSE a[k]]
  BY <1>1, <1>3 DEF Refilled
<1> HIDE DEF way, b
<1>5. way \subseteq 1 .. Len(a) /\ bottom \in way
  BY <1>2 DEF IsSink
<1>6. IsRefilled(a, d, last, way, bottom, b)
  <2>1. b = [k \in 1 .. Len(a) |-> b[k]] /\ b[bottom] = last
    BY <1>4, <1>5
  <2>2. ASSUME NEW k \in way \ {bottom}
        PROVE  Child(a, d, k) \in 2 .. Len(a) /\ b[k] = a[Child(a, d, k)]
    <3>1. k \in 1 .. Len(a) /\ k <= Len(a) \div 2
      BY <1>2, <1>5 DEF IsSink, Falls
    <3>2. Child(a, d, k) \in 2 .. Len(a)
      BY <1>1, <3>1, ChildIsChild
    <3> QED
      BY <1>4, <1>5, <3>2
  <2>3. ASSUME NEW k \in (1 .. Len(a)) \ way PROVE b[k] = a[k]
    BY <1>4, <1>5
  <2> QED
    BY <1>5, <2>1, <2>2, <2>3 DEF IsRefilled
<1> QED
  BY <1>2, <1>6 DEF b

LEMMA RefilledLength ==
  ASSUME NEW a \in Seq(Node), a # <<>>, NEW d, NEW last \in Node
  PROVE  Refilled(a, d, last) \in Seq(Node) /\ Len(Refilled(a, d, last)) = Len(a)
<1> DEFINE b == Refilled(a, d, last)
<1>1. PICK way, bottom : /\ IsSink(a, d, last, 1, way, bottom)
                         /\ IsRefilled(a, d, last, way, bottom, b)
  BY RefilledEntries
<1>2. Len(a) \in Nat /\ a \in [1 .. Len(a) -> Node]
  OBVIOUS
<1> HIDE DEF b
<1>3. ASSUME NEW k \in 1 .. Len(a) PROVE b[k] \in Node
  <2>1. CASE k = bottom
    BY <1>1, <2>1 DEF IsRefilled
  <2>2. CASE k \in way \ {bottom}
    <3>1. Child(a, d, k) \in 2 .. Len(a) /\ b[k] = a[Child(a, d, k)]
      BY <1>1, <2>2 DEF IsRefilled
    <3> QED
      BY <1>2, <3>1
  <2>3. CASE k # bottom /\ k \notin way
    BY <1>1, <1>2, <2>3 DEF IsRefilled
  <2> QED
    BY <2>1, <2>2, <2>3
<1>4. b \in [1 .. Len(a) -> Node]
  BY <1>1, <1>3 DEF IsRefilled
<1>5. b \in Seq(Node) /\ Len(b) = Len(a)
  BY <1>2, <1>4
<1> QED
  BY <1>5 DEF b

\* Where each entry comes from: from(k) is a position after the first, or, for
\* the last entry, the one behind the heap.
LEMMA RefilledRange ==
  ASSUME NEW a \in Seq(Node), a # <<>>, NEW d, NEW last \in Node
  PROVE  Range(Refilled(a, d, last)) \cup {a[1]} = Range(a) \cup {last}
<1> DEFINE b == Refilled(a, d, last)
<1>1. PICK way, bottom : /\ IsSink(a, d, last, 1, way, bottom)
                         /\ IsRefilled(a, d, last, way, bottom, b)
  BY RefilledEntries
<1>2. Len(a) \in Nat /\ a \in [1 .. Len(a) -> Node] /\ DOMAIN b = 1 .. Len(a)
      /\ DOMAIN a = 1 .. Len(a) /\ 1 \in 1 .. Len(a)
  BY <1>1 DEF IsRefilled
<1> HIDE DEF b
<1>3. ASSUME NEW k \in 1 .. Len(a) PROVE b[k] \in Range(a) \cup {last}
  <2>1. CASE k = bottom
    BY <1>1, <2>1 DEF IsRefilled
  <2>2. CASE k \in way \ {bottom}
    <3>1. Child(a, d, k) \in 2 .. Len(a) /\ b[k] = a[Child(a, d, k)]
      BY <1>1, <2>2 DEF IsRefilled
    <3>2. Child(a, d, k) \in 1 .. Len(a)
      BY <1>2, <3>1
    <3> QED
      BY <1>2, <3>1, <3>2 DEF Range
  <2>3. CASE k # bottom /\ k \notin way
    <3>1. b[k] = a[k]
      BY <1>1, <2>3 DEF IsRefilled
    <3> QED
      BY <1>2, <3>1 DEF Range
  <2> QED
    BY <2>1, <2>2, <2>3
<1>4. ASSUME NEW k \in 1 .. Len(a) PROVE a[k] \in Range(b) \cup {a[1]}
  <2>1. CASE k = 1
    BY <2>1
  <2>2. CASE k # 1 /\ k \in way
    <3>1. k \div 2 \in way \ {bottom} /\ Child(a, d, k \div 2) = k
      BY <1>1, <2>2 DEF IsSink
    <3>2. k \div 2 \in 1 .. Len(a)
      BY <1>1, <3>1 DEF IsSink
    <3>3. b[k \div 2] = a[k]
      BY <1>1, <3>1 DEF IsRefilled
    <3> QED
      BY <1>2, <3>2, <3>3 DEF Range
  <2>3. CASE k # 1 /\ k \notin way
    <3>1. b[k] = a[k]
      BY <1>1, <2>3 DEF IsRefilled
    <3> QED
      BY <1>2, <3>1 DEF Range
  <2> QED
    BY <2>1, <2>2, <2>3
<1>5. last \in Range(b)
  <2>1. bottom \in 1 .. Len(a) /\ b[bottom] = last
    BY <1>1 DEF IsRefilled
  <2> QED
    BY <1>2, <2>1 DEF Range
<1>6. Range(b) \subseteq Range(a) \cup {last}
  BY <1>2, <1>3 DEF Range
<1>7. Range(a) \subseteq Range(b) \cup {a[1]}
  BY <1>2, <1>4 DEF Range
<1>8. a[1] \in Range(a)
  BY <1>2 DEF Range
<1>9. Range(b) \cup {a[1]} = Range(a) \cup {last}
  BY <1>5, <1>6, <1>7, <1>8
<1> QED
  BY <1>9 DEF b

\* When no node is in the heap twice, none is afterwards, and the first is not
\* in it any more.
LEMMA RefilledInjective ==
  ASSUME NEW a \in Seq(Node), a # <<>>, NEW d, NEW last \in Node,
         IsInjective(a), last \notin Range(a)
  PROVE  /\ IsInjective(Refilled(a, d, last))
         /\ a[1] \notin Range(Refilled(a, d, last))
<1> DEFINE b == Refilled(a, d, last)
<1>1. PICK way, bottom : /\ IsSink(a, d, last, 1, way, bottom)
                         /\ IsRefilled(a, d, last, way, bottom, b)
  BY RefilledEntries
<1>2. Len(a) \in Nat /\ a \in [1 .. Len(a) -> Node] /\ DOMAIN b = 1 .. Len(a)
      /\ DOMAIN a = 1 .. Len(a) /\ 1 \in 1 .. Len(a)
  BY <1>1 DEF IsRefilled
<1> HIDE DEF b
<1> DEFINE from(k) == IF k \in way THEN Child(a, d, k) ELSE k
<1>3. ASSUME NEW k \in 1 .. Len(a), k # bottom
      PROVE  from(k) \in 2 .. Len(a) /\ b[k] = a[from(k)] /\ b[k] # last
  <2>1. CASE k \in way
    <3>1. Child(a, d, k) \in 2 .. Len(a) /\ b[k] = a[Child(a, d, k)]
      BY <1>1, <1>3, <2>1 DEF IsRefilled
    <3> QED
      BY <1>2, <2>1, <3>1 DEF Range
  <2>2. CASE k \notin way
    <3>1. k # 1
      BY <1>1, <2>2 DEF IsSink
    <3>2. k \in 2 .. Len(a) /\ b[k] = a[k]
      BY <1>1, <1>2, <2>2, <3>1 DEF IsRefilled
    <3> QED
      BY <1>2, <2>2, <3>2 DEF Range
  <2> QED
    BY <2>1, <2>2
<1>4. ASSUME NEW j \in 1 .. Len(a), NEW k \in 1 .. Len(a), j # bottom, k # bottom,
             from(j) = from(k)
      PROVE  j = k
  <2>1. \A x \in way \ {bottom} : Child(a, d, x) \div 2 = x /\ Child(a, d, x) \in way
    <3>1. \A x \in way \ {bottom} : x \in 1 .. Len(a) /\ x <= Len(a) \div 2 /\ Child(a, d, x) \in way
      BY <1>1 DEF IsSink, Falls
    <3> QED
      BY <1>2, <3>1, ChildIsChild
  <2>2. CASE j \in way /\ k \in way
    BY <1>4, <2>1, <2>2
  <2>3. CASE j \in way /\ k \notin way
    BY <1>4, <2>1, <2>3
  <2>4. CASE j \notin way /\ k \in way
    BY <1>4, <2>1, <2>4
  <2>5. CASE j \notin way /\ k \notin way
    BY <1>4, <2>5
  <2> QED
    BY <2>2, <2>3, <2>4, <2>5
<1>5. b[bottom] = last /\ bottom \in 1 .. Len(a)
  BY <1>1 DEF IsRefilled
<1>6. \A j, k \in 1 .. Len(a) : a[j] = a[k] => j = k
  BY <1>2 DEF IsInjective
<1> HIDE DEF from
<1>7. ASSUME NEW j \in 1 .. Len(a), NEW k \in 1 .. Len(a), b[j] = b[k]
      PROVE  j = k
  <2>1. CASE j = bottom \/ k = bottom
    BY <1>3, <1>5, <1>7, <2>1
  <2>2. CASE j # bottom /\ k # bottom
    <3>1. from(j) \in 1 .. Len(a) /\ from(k) \in 1 .. Len(a) /\ a[from(j)] = a[from(k)]
      BY <1>3, <1>7, <2>2
    <3>2. from(j) = from(k)
      BY <1>6, <3>1
    <3> QED
      BY <1>4, <2>2, <3>2
  <2> QED
    BY <2>1, <2>2
<1>8. ASSUME NEW k \in 1 .. Len(a) PROVE b[k] # a[1]
  <2>1. CASE k = bottom
    BY <1>2, <1>5, <2>1 DEF Range
  <2>2. CASE k # bottom
    <3>1. from(k) \in 1 .. Len(a) /\ from(k) # 1 /\ b[k] = a[from(k)]
      BY <1>3, <2>2
    <3> QED
      BY <1>2, <1>6, <3>1
  <2> QED
    BY <2>1, <2>2
<1>9. IsInjective(b) /\ a[1] \notin Range(b)
  BY <1>2, <1>7, <1>8 DEF IsInjective, Range
<1> QED
  BY <1>9 DEF b

\* The heap stays in order.
LEMMA RefilledOrdered ==
  ASSUME NEW a \in Seq(Node), a # <<>>, NEW d \in [Node -> Int], NEW last \in Node,
         HeapOrdered(a, d)
  PROVE  HeapOrdered(Refilled(a, d, last), d)
<1> DEFINE b == Refilled(a, d, last)
<1>1. PICK way, bottom : /\ IsSink(a, d, last, 1, way, bottom)
                         /\ IsRefilled(a, d, last, way, bottom, b)
  BY RefilledEntries
<1>2. Len(a) \in Nat /\ a \in [1 .. Len(a) -> Node] /\ Len(b) = Len(a)
      /\ b \in [1 .. Len(a) -> Node]
  BY RefilledLength
<1> HIDE DEF b
<1>3. \A k \in 1 .. Len(a) : d[a[k]] \in Int /\ d[b[k]] \in Int
  BY <1>2
<1>4. \A k \in 2 .. Len(a) : d[a[k \div 2]] <= d[a[k]]
  BY DEF HeapOrdered
<1>5. ASSUME NEW k \in 2 .. Len(a) PROVE d[b[k \div 2]] <= d[b[k]]
  <2> DEFINE p == k \div 2
             c == Child(a, d, p)
  <2>1. p \in 1 .. Len(a) /\ p < k /\ p <= Len(a) \div 2
    BY <1>2, Halves, HalvesMonotone
  <2>2. c \in 2 .. Len(a) /\ d[a[c]] <= d[a[k]] /\ c \div 2 = p
    <3>1. c \in 1 .. Len(a) /\ c > p /\ c \div 2 = p
      BY <1>2, <2>1, ChildIsChild
    <3>2. d[a[c]] <= d[a[k]]
      BY ChildIsNearer
    <3> HIDE DEF c, p
    <3> QED
      BY <1>2, <2>1, <3>1, <3>2
  <2>3. k \in way => p \in way \ {bottom} /\ c = k
    BY <1>1 DEF IsSink
  <2> HIDE DEF p, c
  <2>4. CASE p \notin way
    <3>1. b[p] = a[p] /\ b[k] = a[k]
      BY <1>1, <2>1, <2>3, <2>4 DEF IsRefilled
    <3> QED
      BY <1>4, <3>1 DEF p
  <2>5. CASE p = bottom
    <3>1. b[p] = last /\ b[k] = a[k]
      BY <1>1, <2>3, <2>5 DEF IsRefilled
    <3>2. ~(d[a[c]] < d[last])
      BY <1>1, <2>1, <2>5 DEF IsSink, Falls, c
    <3>3. d[last] \in Int /\ d[a[c]] \in Int /\ d[a[k]] \in Int
      BY <1>3, <2>2
    <3> QED
      BY <2>2, <3>1, <3>2, <3>3 DEF p
  <2>6. CASE p \in way \ {bottom}
    <3>1. b[p] = a[c] /\ d[a[c]] < d[last] /\ c \in way
      BY <1>1, <2>6 DEF IsSink, IsRefilled, Falls, c
    <3>2. CASE k = c /\ k = bottom
      <4>1. b[k] = last
        BY <1>1, <3>2 DEF IsRefilled
      <4> QED
        BY <1>3, <2>2, <3>1, <4>1 DEF p
    <3>3. CASE k = c /\ k # bottom
      <4> DEFINE e == Child(a, d, k)
      <4>1. e \in 2 .. Len(a) /\ b[k] = a[e] /\ k <= Len(a) \div 2
        BY <1>1, <3>1, <3>3 DEF IsSink, IsRefilled, Falls
      <4>2. e \div 2 = k
        BY <1>2, <4>1, ChildIsChild
      <4> HIDE DEF e
      <4>3. d[a[k]] <= d[a[e]]
        BY <1>4, <4>1, <4>2
      <4> QED
        BY <3>1, <3>3, <4>1, <4>3 DEF p
    <3>4. CASE k # c
      <4>1. b[k] = a[k]
        BY <1>1, <2>3, <3>4 DEF IsRefilled
      <4> QED
        BY <2>2, <3>1, <4>1 DEF p
    <3> QED
      BY <3>2, <3>3, <3>4
  <2> QED
    BY <2>4, <2>5, <2>6
<1> QED
  BY <1>2, <1>5 DEF HeapOrdered, b

LEMMA Before ==
  ASSUME NEW n \in Nat
  PROVE  \A k : k \in 1 .. n - 1 <=> k \in 1 .. n /\ k # n
  OBVIOUS

\* What pop_graph leaves: a heap in order of all nodes but the first.
LEMMA PopHeap ==
  ASSUME NEW a \in Seq(Node), a # <<>>, NEW d \in [Node -> Int]
  PROVE  /\ pop_graph(a, d) \in Seq(Node)
         /\ Len(pop_graph(a, d)) = Len(a) - 1
         /\ Range(a) = Range(pop_graph(a, d)) \cup {a[1]}
         /\ HeapOrdered(a, d) => HeapOrdered(pop_graph(a, d), d)
         /\ IsInjective(a) =>
              IsInjective(pop_graph(a, d)) /\ a[1] \notin Range(pop_graph(a, d))
<1> DEFINE left == SubSeq(a, 1, Len(a) - 1)
           last == a[Len(a)]
           b == pop_graph(a, d)
<1>1. /\ Len(a) \in Nat /\ Len(a) >= 1
      /\ a \in [1 .. Len(a) -> Node] /\ DOMAIN a = 1 .. Len(a)
  OBVIOUS
<1>2. /\ left \in Seq(Node) /\ Len(left) = Len(a) - 1 /\ DOMAIN left = 1 .. Len(a) - 1
      /\ \A k \in 1 .. Len(a) - 1 : left[k] = a[k]
  BY <1>1
<1>3. last \in Node
  BY <1>1
<1>4. b = IF left = <<>> THEN left ELSE Refilled(left, d, last)
  BY DEF pop_graph
<1> HIDE DEF left, b
<1>5. Range(a) = Range(left) \cup {last}
  <2>1. ASSUME NEW k \in 1 .. Len(a) PROVE a[k] \in Range(left) \cup {last}
    <3>1. CASE k = Len(a)
      BY <3>1
    <3>2. CASE k # Len(a)
      <4>1. k \in 1 .. Len(a) - 1
        BY <1>1, <3>2, Before
      <4> QED
        BY <1>2, <4>1 DEF Range
    <3> QED
      BY <3>1, <3>2
  <2>2. ASSUME NEW k \in 1 .. Len(a) - 1 PROVE left[k] \in Range(a)
    <3>1. k \in 1 .. Len(a)
      BY <1>1
    <3> QED
      BY <1>1, <1>2, <3>1 DEF Range
  <2>3. last \in Range(a)
    BY <1>1 DEF Range
  <2> QED
    BY <1>1, <1>2, <2>1, <2>2, <2>3 DEF Range
<1>6. CASE left = <<>>
  <2>1. Len(a) = 1 /\ b = <<>> /\ last = a[1]
    <3>1. Len(left) = 0
      BY <1>6
    <3>2. Len(a) = 1
      BY <1>1, <1>2, <3>1
    <3> QED
      BY <1>4, <1>6, <3>2
  <2>2. Range(left) = {}
    BY <1>6 DEF Range
  <2>3. Range(a) = {a[1]} /\ Range(b) = {}
    BY <1>5, <1>6, <2>1, <2>2
  <2>4. b \in Seq(Node) /\ Len(b) = 0 /\ HeapOrdered(b, d) /\ IsInjective(b)
    BY <2>1 DEF HeapOrdered, IsInjective
  <2> QED
    BY <2>1, <2>3, <2>4 DEF b
<1>7. CASE left # <<>>
  <2>1. Len(a) - 1 >= 1 /\ left[1] = a[1] /\ b = Refilled(left, d, last)
    BY <1>1, <1>2, <1>4, <1>7
  <2>2. b \in Seq(Node) /\ Len(b) = Len(a) - 1
    BY <1>2, <1>3, <1>7, <2>1, RefilledLength
  <2>3. Range(b) \cup {a[1]} = Range(a)
    BY <1>2, <1>3, <1>5, <1>7, <2>1, RefilledRange, SMTT(30)
  <2>4. HeapOrdered(a, d) => HeapOrdered(b, d)
    <3>1. SUFFICES ASSUME HeapOrdered(a, d) PROVE HeapOrdered(b, d)
      OBVIOUS
    <3>2. HeapOrdered(left, d)
      <4>1. ASSUME NEW k \in 2 .. Len(a) - 1 PROVE d[left[k \div 2]] <= d[left[k]]
        <5>1. k \div 2 \in 1 .. Len(a) - 1 /\ k \in 1 .. Len(a) - 1 /\ k \in 2 .. Len(a)
          BY <1>1, Halves
        <5>2. d[a[k \div 2]] <= d[a[k]]
          BY <3>1, <5>1 DEF HeapOrdered
        <5> QED
          BY <1>2, <5>1, <5>2
      <4> QED
        BY <1>2, <4>1 DEF HeapOrdered
    <3> QED
      BY <1>2, <1>3, <1>7, <2>1, <3>2, RefilledOrdered
  <2>5. IsInjective(a) => IsInjective(b) /\ a[1] \notin Range(b)
    <3>1. SUFFICES ASSUME IsInjective(a) PROVE IsInjective(b) /\ a[1] \notin Range(b)
      OBVIOUS
    <3>2. \A j, k \in 1 .. Len(a) : a[j] = a[k] => j = k
      BY <1>1, <3>1 DEF IsInjective
    <3>3. \A k \in 1 .. Len(a) - 1 : k \in 1 .. Len(a) /\ k # Len(a)
      BY <1>1, Before
    <3>4. IsInjective(left)
      BY <1>2, <3>2, <3>3 DEF IsInjective
    <3>5. last \notin Range(left)
      <4>1. ASSUME NEW k \in 1 .. Len(a) - 1 PROVE left[k] # last
        <5>1. Len(a) \in 1 .. Len(a)
          BY <1>1
        <5>2. k \in 1 .. Len(a) /\ k # Len(a)
          BY <3>3
        <5>3. left[k] = a[k]
          BY <1>2
        <5> QED
          BY <3>2, <5>1, <5>2, <5>3
      <4> QED
        BY <1>2, <4>1 DEF Range
    <3> QED
      BY <1>2, <1>3, <1>7, <2>1, <3>4, <3>5, RefilledInjective
  <2> QED
    BY <2>2, <2>3, <2>4, <2>5 DEF b
<1> QED
  BY <1>6, <1>7

\* In a heap in order the first node is the nearest.
LEMMA TopIsNearest ==
  ASSUME NEW a \in Seq(Node), NEW d \in [Node -> Int], HeapOrdered(a, d)
  PROVE  \A k \in 1 .. Len(a) : d[a[1]] <= d[a[k]]
<1> DEFINE S == 1 .. Len(a)
           m == [k \in S |-> k]
           P == {k \in S : d[a[1]] <= d[a[k]]}
<1>1. m \in [S -> Nat] /\ \A k \in S : d[a[k]] \in Int
  OBVIOUS
<1>2. ASSUME NEW k \in S, \A j \in S : m[j] < m[k] => j \in P
      PROVE  k \in P
  <2>1. CASE k = 1
    BY <1>1, <2>1
  <2>2. CASE k # 1
    <3>1. k \div 2 \in S /\ m[k \div 2] < m[k] /\ k \in 2 .. Len(a)
      BY <2>2, Halves
    <3>2. d[a[1]] <= d[a[k \div 2]]
      BY <1>2, <3>1
    <3>3. d[a[k \div 2]] <= d[a[k]]
      BY <3>1 DEF HeapOrdered
    <3>4. d[a[1]] \in Int
      BY <1>1, <3>1
    <3> QED
      BY <1>1, <3>1, <3>2, <3>3, <3>4
  <2> QED
    BY <2>1, <2>2
<1> HIDE DEF P, m, S
<1>3. S \subseteq P
  BY <1>1, <1>2, MeasureInduction
<1> QED
  BY <1>3 DEF P, S

\* The order rests on the distances of the nodes in the heap alone.
LEMMA OrderedAgree ==
  ASSUME NEW a \in Seq(Node), NEW d, NEW e, HeapOrdered(a, d),
         \A n \in Range(a) : d[n] = e[n]
  PROVE  HeapOrdered(a, e)
<1>1. ASSUME NEW k \in 2 .. Len(a) PROVE e[a[k \div 2]] <= e[a[k]]
  <2>1. k \div 2 \in DOMAIN a /\ k \in DOMAIN a
    BY Halves
  <2>2. d[a[k \div 2]] = e[a[k \div 2]] /\ d[a[k]] = e[a[k]]
    BY <2>1 DEF Range
  <2> QED
    BY <2>2 DEF HeapOrdered
<1> QED
  BY <1>1 DEF HeapOrdered

(***************************************************************************)
(* The neighbours of an expanded node are pushed.                          *)
(***************************************************************************)

GraphOK == graph \in [Node -> [Node -> Int]]

LEMMA RelaxedType ==
  ASSUME GraphOK, dist \in [Node -> Int], NEW n \in Node, NEW i
  PROVE  Relaxed(n, i) \in [Node -> Int]
  BY DEF Relaxed, GraphOK

LEMMA PushType ==
  ASSUME NEW a \in Seq(Node), NEW d, NEW node \in Node
  PROVE  push_graph(a, d, node) \in Seq(Node)
<1>1. CASE Len(a) = Size * Size
  BY <1>1 DEF push_graph
<1>2. CASE Len(a) # Size * Size
  BY <1>2, PushLength
<1> QED
  BY <1>1, <1>2

LEMMA PushedEquation ==
  ASSUME NEW n \in Node, NEW left \in Seq(Node)
  PROVE  /\ Pushed(n, left)[0] = left
         /\ \A j \in Node :
              /\ Shortens(n, j) =>
                   Pushed(n, left)[j + 1] = push_graph(Pushed(n, left)[j], Relaxed(n, j), j)
              /\ ~Shortens(n, j) => Pushed(n, left)[j + 1] = Pushed(n, left)[j]
<1> DEFINE S == 0 .. Size
           V == Seq(Node)
           m == [i \in S |-> i]
           push(i, h) == push_graph(h, Relaxed(n, i - 1), i - 1)
           shortens(i) == Shortens(n, i - 1)
           G == [i \in S |-> [h \in [S -> V] |->
                   IF i = 0 THEN left
                   ELSE IF shortens(i) THEN push(i, h[i - 1]) ELSE h[i - 1]]]
<1>1. m \in [S -> Nat] /\ Size \in Nat
  BY DijkstraAssumption
<1>2. \A i \in S : i # 0 => i - 1 \in S /\ m[i - 1] < m[i] /\ i - 1 \in Node
  BY <1>1 DEF Node
<1>3. \A i \in S : \A h \in V : i # 0 => push(i, h) \in V
  BY <1>2, PushType
<1>4. left \in V
  OBVIOUS
<1> HIDE DEF push, m, V, shortens
<1>5. \A i \in S : \A h \in [S -> V] :
        G[i][h] = IF i = 0 THEN left
                  ELSE IF shortens(i) THEN push(i, h[i - 1]) ELSE h[i - 1]
  OBVIOUS
<1> HIDE DEF G, S
<1>6. \A i \in S : \A h \in [S -> V] : G[i][h] \in V
  BY <1>2, <1>3, <1>4, <1>5
<1>7. \A i \in S : \A g, h \in [S -> V] :
        (\A j \in S : m[j] < m[i] => g[j] = h[j]) => G[i][g] = G[i][h]
  <2>1. TAKE i \in S
  <2>2. TAKE g, h \in [S -> V]
  <2>3. HAVE \A j \in S : m[j] < m[i] => g[j] = h[j]
  <2>4. i # 0 => g[i - 1] = h[i - 1]
    BY <1>2, <2>3
  <2> QED
    BY <1>5, <2>4
<1>8. PICK f \in [S -> V] : \A i \in S : f[i] = G[i][f]
  <2>1. Recursive(S, m, V, G)
    BY <1>1, <1>4, <1>6, <1>7 DEF Recursive
  <2> QED
    BY <2>1, RecursionExists
<1>9. f = [i \in S |-> IF i = 0 THEN left
                       ELSE IF shortens(i) THEN push(i, f[i - 1]) ELSE f[i - 1]]
  BY <1>5, <1>8
<1> DEFINE H == Pushed(n, left)
<1>10. H = [i \in S |-> IF i = 0 THEN left
                        ELSE IF shortens(i) THEN push(i, H[i - 1]) ELSE H[i - 1]]
  BY <1>9 DEF Pushed, S, shortens, push
<1> HIDE DEF H
<1>11. H[0] = left
  BY <1>1, <1>10 DEF S
<1>12. ASSUME NEW j \in Node
       PROVE  /\ Shortens(n, j) => H[j + 1] = push_graph(H[j], Relaxed(n, j), j)
              /\ ~Shortens(n, j) => H[j + 1] = H[j]
  <2> DEFINE i == j + 1
  <2>1. i \in S /\ i # 0 /\ i - 1 = j
    BY <1>1 DEF Node, S
  <2> HIDE DEF i
  <2>2. /\ shortens(i) => H[i] = push(i, H[i - 1])
        /\ ~shortens(i) => H[i] = H[i - 1]
    BY <1>10, <2>1
  <2> QED
    BY <2>1, <2>2 DEF shortens, push, i
<1> QED
  BY <1>11, <1>12 DEF H

\* The neighbours of n before i that are pushed.
Nearer(n, i) == {j \in Node : j < i /\ Shortens(n, j)}

\* With room for all of them the heap has what was left in it and them.
LEMMA PushedRange ==
  ASSUME GraphOK, dist \in [Node -> Int], NEW n \in Node, NEW left \in Seq(Node),
         Len(left) + Size <= Size * Size, NEW i \in 0 .. Size
  PROVE  /\ Pushed(n, left)[i] \in Seq(Node)
         /\ Len(Pushed(n, left)[i]) <= Len(left) + i
         /\ Range(Pushed(n, left)[i]) = Range(left) \cup Nearer(n, i)
<1> DEFINE H == Pushed(n, left)
           Q(k) == /\ H[k] \in Seq(Node)
                   /\ Len(H[k]) <= Len(left) + k
                   /\ Range(H[k]) = Range(left) \cup Nearer(n, k)
           P == {k \in Nat : k <= Size => Q(k)}
<1>1. Size \in Nat /\ Len(left) \in Nat
  BY DijkstraAssumption
<1>2. 0 \in P
  <2>1. H[0] = left
    BY PushedEquation
  <2>2. Nearer(n, 0) = {}
    BY DEF Nearer, Node
  <2> HIDE DEF H
  <2>3. Q(0)
    BY <1>1, <2>1, <2>2
  <2> QED
    BY <2>3
<1>3. ASSUME NEW k \in Nat, k \in P PROVE k + 1 \in P
  <2>1. SUFFICES ASSUME k + 1 <= Size PROVE Q(k + 1)
    OBVIOUS
  <2>2. k \in Node /\ Q(k)
    BY <1>1, <1>3, <2>1 DEF Node
  <2>3. /\ Shortens(n, k) => H[k + 1] = push_graph(H[k], Relaxed(n, k), k)
        /\ ~Shortens(n, k) => H[k + 1] = H[k]
    BY <2>2, PushedEquation
  <2>4. \A j \in Node : j < k + 1 <=> j < k \/ j = k
    BY <1>1 DEF Node
  <2> HIDE DEF H
  <2>5. CASE Shortens(n, k)
    <3>1. Len(H[k]) # Size * Size
      <4>1. Len(H[k]) < Len(left) + Size /\ Size * Size \in Nat
        BY <1>1, <2>1, <2>2
      <4> QED
        BY <1>1, <2>2, <4>1
    <3>2. H[k + 1] \in Seq(Node) /\ Len(H[k + 1]) = Len(H[k]) + 1
      BY <2>2, <2>3, <2>5, <3>1, PushLength, ZenonT(60)
    <3>3. Range(H[k + 1]) = Range(H[k]) \cup {k}
      BY <2>2, <2>3, <2>5, <3>1, PushRange
    <3>4. Nearer(n, k + 1) = Nearer(n, k) \cup {k}
      BY <2>2, <2>4, <2>5 DEF Nearer
    <3>5. Len(H[k + 1]) <= Len(left) + (k + 1)
      BY <1>1, <2>2, <3>2
    <3> QED
      BY <2>2, <3>2, <3>3, <3>4, <3>5
  <2>6. CASE ~Shortens(n, k)
    <3>1. Nearer(n, k + 1) = Nearer(n, k)
      BY <2>2, <2>4, <2>6 DEF Nearer
    <3> QED
      BY <1>1, <2>2, <2>3, <2>6, <3>1
  <2> QED
    BY <2>5, <2>6
<1> HIDE DEF P, Q
<1>4. Nat \subseteq P
  BY <1>2, <1>3, Induction
<1>5. Q(i)
  <2>1. i \in Nat /\ i <= Size
    BY <1>1
  <2> QED
    BY <1>4, <2>1 DEF P
<1> QED
  BY <1>5 DEF Q

\* When none of them is in the heap before, each is in it once and the heap is
\* in order of the new distances.
LEMMA PushedOrdered ==
  ASSUME GraphOK, dist \in [Node -> Int], NEW n \in Node, NEW left \in Seq(Node),
         Len(left) + Size <= Size * Size, NEW i \in 0 .. Size,
         \A j \in Range(left) : ~Shortens(n, j),
         IsInjective(left), HeapOrdered(left, dist)
  PROVE  /\ IsInjective(Pushed(n, left)[i])
         /\ HeapOrdered(Pushed(n, left)[i], Relaxed(n, Size - 1))
<1> DEFINE H == Pushed(n, left)
           new == Relaxed(n, Size - 1)
           Q(k) == IsInjective(H[k]) /\ HeapOrdered(H[k], new)
           P == {k \in Nat : k <= Size => Q(k)}
<1>1. Size \in Nat /\ Len(left) \in Nat /\ \A j \in Node : j \in Nat /\ j <= Size - 1
  BY DijkstraAssumption DEF Node
<1>2. \A j \in Node : ~Shortens(n, j) => \A k \in Nat : Relaxed(n, k)[j] = dist[j]
  BY DEF Relaxed
<1>3. \A j \in Node : \A k \in Nat : j <= k => Relaxed(n, k)[j] = new[j]
  BY <1>1 DEF Relaxed
<1>4. Range(left) \subseteq Node
  BY DEF Range
<1>5. Size - 1 \in Nat
  BY DijkstraAssumption
<1> HIDE DEF new
<1>6. 0 \in P
  <2>1. H[0] = left
    BY PushedEquation
  <2>2. \A j \in Range(left) : dist[j] = new[j]
    BY <1>2, <1>4, <1>5 DEF new
  <2>3. HeapOrdered(left, new)
    BY <2>2, OrderedAgree
  <2> HIDE DEF H
  <2> QED
    BY <2>1, <2>3
<1>7. ASSUME NEW k \in Nat, k \in P PROVE k + 1 \in P
  <2>1. SUFFICES ASSUME k + 1 <= Size PROVE Q(k + 1)
    OBVIOUS
  <2>2. k \in Node /\ Q(k) /\ k \in 0 .. Size
    BY <1>1, <1>7, <2>1 DEF Node
  <2>3. /\ Shortens(n, k) => H[k + 1] = push_graph(H[k], Relaxed(n, k), k)
        /\ ~Shortens(n, k) => H[k + 1] = H[k]
    BY <2>2, PushedEquation
  <2>4. /\ H[k] \in Seq(Node)
        /\ Len(H[k]) <= Len(left) + k
        /\ Range(H[k]) = Range(left) \cup Nearer(n, k)
    BY <2>2, PushedRange
  <2> HIDE DEF H
  <2>5. CASE Shortens(n, k)
    <3> DEFINE d == Relaxed(n, k)
               b == push_graph(H[k], d, k)
    <3>1. Len(H[k]) # Size * Size
      <4>1. Len(H[k]) < Len(left) + Size /\ Size * Size \in Nat
        BY <1>1, <2>1, <2>4
      <4> QED
        BY <1>1, <2>4, <4>1
    <3>2. k \notin Range(H[k])
      <4>1. k \notin Nearer(n, k)
        BY <2>2 DEF Nearer
      <4> QED
        BY <2>4, <2>5, <4>1
    <3>3. IsInjective(b)
      BY <2>2, <2>4, <3>1, <3>2, PushInjective
    <3>4. d \in [Node -> Int]
      BY RelaxedType
    <3>5. \A j \in Range(H[k]) : new[j] = d[j]
      <4>1. TAKE j \in Range(H[k])
      <4>2. CASE j \in Range(left)
        BY <1>2, <1>4, <1>5, <4>2 DEF new
      <4>3. CASE j \in Nearer(n, k)
        <5>1. j \in Node /\ j <= k
          BY <1>1, <4>3 DEF Nearer
        <5> QED
          BY <1>3, <5>1
      <4> QED
        BY <2>4, <4>2, <4>3
    <3>6. d[k] = new[k]
      BY <1>3, <2>2
    <3> HIDE DEF d
    <3>7. HeapOrdered(H[k], d)
      BY <2>2, <2>4, <3>5, OrderedAgree
    <3>8. HeapOrdered(b, d)
      BY <2>2, <2>4, <3>1, <3>4, <3>7, PushOrdered
    <3>9. b \in Seq(Node) /\ Range(b) = Range(H[k]) \cup {k}
      BY <2>2, <2>4, <3>1, PushLength, PushRange
    <3> HIDE DEF b
    <3>10. HeapOrdered(b, new)
      BY <3>5, <3>6, <3>8, <3>9, OrderedAgree
    <3> QED
      BY <2>3, <2>5, <3>3, <3>10 DEF b, d
  <2>6. CASE ~Shortens(n, k)
    BY <2>2, <2>3, <2>6
  <2> QED
    BY <2>5, <2>6
<1> HIDE DEF P, Q
<1>8. Nat \subseteq P
  BY <1>6, <1>7, Induction
<1>9. Q(i)
  <2>1. i \in Nat /\ i <= Size
    BY <1>1
  <2> QED
    BY <1>8, <2>1 DEF P
<1> QED
  BY <1>9 DEF Q, new

(***************************************************************************)
(* The lengths of the shortest paths.                                      *)
(***************************************************************************)

LEMMA OneMoreEdgeIsLeast ==
  ASSUME GraphOK, NEW d \in [Node -> 0 .. MaxDist]
  PROVE  /\ OneMoreEdge(d) \in [Node -> 0 .. MaxDist]
         /\ \A n \in Node :
              /\ OneMoreEdge(d)[n] <= d[n]
              /\ \A m \in Node : graph[m][n] > 0 => OneMoreEdge(d)[n] <= d[m] + graph[m][n]
              /\ \/ OneMoreEdge(d)[n] = d[n]
                 \/ \E m \in Node : graph[m][n] > 0 /\ OneMoreEdge(d)[n] = d[m] + graph[m][n]
<1> DEFINE over(n) == {d[m] + graph[m][n] : m \in {m \in Node : graph[m][n] > 0}}
           O == OneMoreEdge(d)
<1>1. MaxDist \in Nat
  BY DijkstraAssumption
<1>2. \A m, n \in Node : graph[m][n] \in Int /\ d[n] \in 0 .. MaxDist
  BY DEF GraphOK
<1>3. \A n \in Node : O[n] = Min({d[n]} \cup over(n))
  BY DEF OneMoreEdge
<1>4. ASSUME NEW n \in Node
      PROVE  /\ O[n] \in {d[n]} \cup over(n)
             /\ \A x \in {d[n]} \cup over(n) : O[n] <= x
  <2>1. \A m \in Node : graph[m][n] > 0 => d[m] + graph[m][n] \in Nat
    BY <1>1, <1>2
  <2>2. {d[n]} \cup over(n) \subseteq Nat
    BY <1>1, <1>2, <2>1
  <2> HIDE DEF over
  <2> QED
    BY <1>3, <2>2, MinOf
<1> HIDE DEF O
<1>5. ASSUME NEW n \in Node
      PROVE  /\ O[n] <= d[n]
             /\ \A m \in Node : graph[m][n] > 0 => O[n] <= d[m] + graph[m][n]
             /\ \/ O[n] = d[n]
                \/ \E m \in Node : graph[m][n] > 0 /\ O[n] = d[m] + graph[m][n]
  <2>1. O[n] <= d[n]
    BY <1>4
  <2>2. \A m \in Node : graph[m][n] > 0 => O[n] <= d[m] + graph[m][n]
    BY <1>4, ZenonT(60)
  <2>3. \/ O[n] = d[n]
        \/ \E m \in Node : graph[m][n] > 0 /\ O[n] = d[m] + graph[m][n]
    BY <1>4
  <2> QED
    BY <2>1, <2>2, <2>3
<1>6. ASSUME NEW n \in Node PROVE O[n] \in 0 .. MaxDist
  BY <1>1, <1>2, <1>5
<1>7. O \in [Node -> 0 .. MaxDist]
  BY <1>6 DEF O, OneMoreEdge
<1> QED
  BY <1>5, <1>7 DEF O

LEMMA WithinEquation ==
  ASSUME GraphOK
  PROVE  /\ \A k \in 0 .. Size - 1 : ShortestWithin[k] \in [Node -> 0 .. MaxDist]
         /\ \A n \in Node : ShortestWithin[0][n] = IF n = s_id THEN 0 ELSE MaxDist
         /\ \A k \in 1 .. Size - 1 : ShortestWithin[k] = OneMoreEdge(ShortestWithin[k - 1])
<1> DEFINE S == 0 .. Size - 1
           V == [Node -> 0 .. MaxDist]
           m == [k \in S |-> k]
           first == [n \in Node |-> IF n = s_id THEN 0 ELSE MaxDist]
           G == [k \in S |-> [h \in [S -> V] |->
                   IF k = 0 THEN first ELSE OneMoreEdge(h[k - 1])]]
<1>1. m \in [S -> Nat] /\ Size - 1 \in Nat /\ MaxDist \in Nat
  BY DijkstraAssumption
<1>2. \A k \in S : k # 0 => k - 1 \in S /\ m[k - 1] < m[k]
  BY <1>1
<1>3. first \in V
  BY <1>1
<1>4. \A d \in V : OneMoreEdge(d) \in V
  BY OneMoreEdgeIsLeast
<1> HIDE DEF V, m
<1>5. \A k \in S : \A h \in [S -> V] :
        G[k][h] = IF k = 0 THEN first ELSE OneMoreEdge(h[k - 1])
  OBVIOUS
<1> HIDE DEF G, first, S
<1>6. \A k \in S : \A h \in [S -> V] : G[k][h] \in V
  BY <1>2, <1>3, <1>4, <1>5
<1>7. \A k \in S : \A g, h \in [S -> V] :
        (\A j \in S : m[j] < m[k] => g[j] = h[j]) => G[k][g] = G[k][h]
  <2>1. TAKE k \in S
  <2>2. TAKE g, h \in [S -> V]
  <2>3. HAVE \A j \in S : m[j] < m[k] => g[j] = h[j]
  <2>4. k # 0 => g[k - 1] = h[k - 1]
    BY <1>2, <2>3
  <2> QED
    BY <1>5, <2>4
<1>8. PICK f \in [S -> V] : \A k \in S : f[k] = G[k][f]
  <2>1. Recursive(S, m, V, G)
    BY <1>1, <1>3, <1>6, <1>7 DEF Recursive
  <2> QED
    BY <2>1, RecursionExists
<1>9. f = [k \in S |-> IF k = 0 THEN first ELSE OneMoreEdge(f[k - 1])]
  BY <1>5, <1>8
<1> DEFINE W == ShortestWithin
<1>10. W = [k \in S |-> IF k = 0 THEN first ELSE OneMoreEdge(W[k - 1])]
  BY <1>9 DEF ShortestWithin, S, first
<1> HIDE DEF W
<1>11. W[0] = first
  BY <1>1, <1>10 DEF S
<1>12. \A k \in S : k # 0 => W[k] = OneMoreEdge(W[k - 1])
  BY <1>10
<1> DEFINE P == {k \in S : W[k] \in V}
<1>13. ASSUME NEW k \in S, \A j \in S : m[j] < m[k] => j \in P PROVE k \in P
  BY <1>2, <1>3, <1>4, <1>11, <1>12, <1>13
<1> HIDE DEF P
<1>14. S \subseteq P
  BY <1>1, <1>13, MeasureInduction
<1>15. \A k \in S : W[k] \in V
  BY <1>14 DEF P
<1>16. \A k \in 1 .. Size - 1 : k \in S /\ k # 0
  BY <1>1 DEF S
<1>17. \A n \in Node : first[n] = IF n = s_id THEN 0 ELSE MaxDist
  BY DEF first
<1> QED
  BY <1>11, <1>12, <1>15, <1>16, <1>17 DEF W, V, S

(***************************************************************************)
(* The inductive invariant.                                                *)
(***************************************************************************)

\* The nodes expanded so far, and how many they are: after so many steps all
\* paths of as many edges are taken into account.
Expanded == visited \ {t_id}
Steps == Cardinality(Expanded)

\* No edge is longer.
Longest == (MaxDist - 1) \div (Size - 1)

Reached == visited \cup Range(array)

\* Each expanded node has pushed Size nodes at most: the heap is never full.
RoomLeft == Len(array) <= 1 + Steps * Size

AboveShortest == \A n \in Node : dist[n] >= ShortestWithin[Steps][n]

\* What an expanded node has an edge to is reached, and only that; the nodes
\* reached are nearer than MaxDist.
ReachedInv ==
  /\ s_id \in Reached /\ dist[s_id] = 0
  /\ \A m \in Expanded : \A n \in Node : graph[m][n] > 0 => n \in Reached
  /\ \A n \in Node \ Reached : dist[n] = MaxDist
  /\ \A n \in Reached : dist[n] <= Steps * Longest

ResultInv ==
  /\ result # "found" => t_id \notin visited
  /\ result = "exhausted" => array = <<>>

\* As long as no distance of a node in the heap has fallen: what is visited is
\* nearer than what is in the heap, and its edges shorten no way.
OrderedInv ==
  /\ HeapOrdered(array, dist)
  /\ IsInjective(array)
  /\ Range(array) \cap visited = {}
  /\ \A m \in visited : \A n \in Range(array) : dist[m] <= dist[n]
  /\ \A m \in Expanded : \A n \in Node : graph[m][n] > 0 => dist[n] <= dist[m] + graph[m][n]
  /\ result # "failed"
  /\ result = "found" => dist[t_id] = Shortest[t_id]

Inv ==
  /\ TypeOK
  /\ graph \in Graphs
  /\ RoomLeft
  /\ AboveShortest
  /\ ReachedInv
  /\ ResultInv
  /\ ~fallen => OrderedInv

LEMMA Nodes ==
  /\ Size \in Nat /\ Size - 1 \in Nat \ {0} /\ MaxDist \in Nat \ {0}
  /\ s_id \in Node /\ t_id \in Node /\ s_id # t_id
  /\ Node \subseteq Nat
  /\ IsFiniteSet(Node \ {t_id}) /\ Cardinality(Node \ {t_id}) = Size - 1
<1>1. Size \in Nat /\ Size >= 2 /\ MaxDist \in Nat \ {0}
  BY DijkstraAssumption
<1>2. Node \ {t_id} = 0 .. Size - 2
  BY <1>1 DEF Node, t_id
<1>3. IsFiniteSet(0 .. Size - 2) /\ Cardinality(0 .. Size - 2) = Size - 1
  BY <1>1, FS_Interval
<1>4. IsFiniteSet(Node \ {t_id}) /\ Cardinality(Node \ {t_id}) = Size - 1
  BY <1>2, <1>3
<1>5. s_id \in Node /\ t_id \in Node /\ s_id # t_id /\ Node \subseteq Nat
  BY <1>1 DEF Node, s_id, t_id
<1> QED
  BY <1>1, <1>4, <1>5

LEMMA StepsBound ==
  ASSUME visited \subseteq Node
  PROVE  IsFiniteSet(Expanded) /\ Steps \in 0 .. Size - 1
<1>1. Expanded \subseteq Node \ {t_id}
  BY DEF Expanded
<1>2. IsFiniteSet(Expanded) /\ Cardinality(Expanded) <= Size - 1
  BY <1>1, Nodes, FS_Subset, ZenonT(60)
<1>3. Cardinality(Expanded) \in Nat
  BY <1>2, FS_CardinalityType
<1> QED
  BY <1>2, <1>3, Nodes DEF Steps

LEMMA OneStepMore ==
  ASSUME visited \subseteq Node, NEW n \in Node \ {t_id}, n \notin visited
  PROVE  /\ (visited \cup {n}) \ {t_id} = Expanded \cup {n}
         /\ Cardinality((visited \cup {n}) \ {t_id}) = Steps + 1
         /\ Steps \in Nat /\ Steps + 1 <= Size - 1
<1>1. (visited \cup {n}) \ {t_id} = Expanded \cup {n}
  BY DEF Expanded
<1>2. IsFiniteSet(Expanded) /\ Steps \in 0 .. Size - 1 /\ n \notin Expanded
  BY StepsBound DEF Expanded
<1>3. Cardinality(Expanded \cup {n}) = Steps + 1
  BY <1>2, FS_AddElement DEF Steps
<1>4. Expanded \cup {n} \subseteq Node \ {t_id}
  BY DEF Expanded
<1>5. Cardinality(Expanded \cup {n}) <= Size - 1
  BY <1>4, Nodes, FS_Subset
<1> QED
  BY <1>1, <1>2, <1>3, <1>5, Nodes

LEMMA LongestIsLongest ==
  ASSUME graph \in Graphs
  PROVE  /\ Longest \in Nat
         /\ \A m, n \in Node : graph[m][n] \in Int /\ graph[m][n] <= Longest
         /\ \A k \in 0 .. Size - 1 : k * Longest \in Nat /\ k * Longest < MaxDist
                                     /\ (k + 1) * Longest = k * Longest + Longest
<1> DEFINE e == Size - 1
<1>1. e \in Nat /\ e >= 1 /\ MaxDist \in Nat /\ MaxDist >= 1
  BY Nodes
<1>2. GraphOK
  BY DijkstraAssumption DEF GraphOK
<1>3. \A m, n \in Node : graph[m][n] \in Int /\ graph[m][n] * e < MaxDist
  BY <1>2, DijkstraAssumption DEF GraphOK
<1>4. Longest = (MaxDist - 1) \div e
  BY DEF Longest
<1> HIDE DEF e
<1>5. /\ Longest \in Nat
      /\ Longest * e <= MaxDist - 1
      /\ MaxDist - 1 < Longest * e + e
  BY <1>1, <1>4, SMTT(30)
<1>6. ASSUME NEW g \in Int, g * e < MaxDist PROVE g <= Longest
  <2>1. SUFFICES ASSUME g >= Longest + 1 PROVE FALSE
    BY <1>5
  <2>2. g * e >= (Longest + 1) * e
    BY <1>1, <1>5, <2>1, SMTT(30)
  <2>3. (Longest + 1) * e = Longest * e + e
    BY <1>1, <1>5, SMTT(30)
  <2> QED
    BY <1>1, <1>5, <1>6, <2>2, <2>3, SMTT(30)
<1>7. ASSUME NEW k \in 0 .. e
      PROVE  /\ k * Longest \in Nat /\ k * Longest < MaxDist
             /\ (k + 1) * Longest = k * Longest + Longest
  <2>1. k * Longest \in Nat /\ k * Longest <= e * Longest
    BY <1>1, <1>5, SMTT(30)
  <2>2. (k + 1) * Longest = k * Longest + Longest
    BY <1>1, <1>5, SMTT(30)
  <2>3. e * Longest = Longest * e /\ Longest * e \in Nat
    BY <1>1, <1>5, SMTT(30)
  <2> QED
    BY <1>1, <1>5, <2>1, <2>2, <2>3
<1> QED
  BY <1>3, <1>5, <1>6, <1>7 DEF e

(***************************************************************************)
(* What the actions do.                                                    *)
(***************************************************************************)

LEMMA Types ==
  ASSUME Inv
  PROVE  /\ GraphOK
         /\ array \in Seq(Node) /\ Len(array) \in Nat /\ DOMAIN array = 1 .. Len(array)
         /\ visited \subseteq Node
         /\ dist \in [Node -> 0 .. MaxDist] /\ dist \in [Node -> Int]
         /\ Range(array) \subseteq Node
<1>1. TypeOK /\ graph \in Graphs
  BY DEF Inv
<1>2. GraphOK
  BY <1>1, DijkstraAssumption DEF GraphOK
<1>3. array \in Seq(Node) /\ visited \subseteq Node /\ dist \in [Node -> 0 .. MaxDist]
  BY <1>1 DEF TypeOK
<1>4. MaxDist \in Nat
  BY Nodes
<1>5. dist \in [Node -> Int]
  BY <1>3, <1>4
<1>6. Range(array) \subseteq Node
  BY <1>3 DEF Range
<1> QED
  BY <1>2, <1>3, <1>5, <1>6

\* The node popped, and the heap left when it has been.
LEMMA Popped ==
  ASSUME Inv, Search
  PROVE  /\ Top \in Node /\ Top \in Range(array)
         /\ pop_graph(array, dist) \in Seq(Node)
         /\ Len(pop_graph(array, dist)) = Len(array) - 1
         /\ Range(array) = Range(pop_graph(array, dist)) \cup {Top}
         /\ OrderedInv => /\ HeapOrdered(pop_graph(array, dist), dist)
                          /\ IsInjective(pop_graph(array, dist))
                          /\ Top \notin Range(pop_graph(array, dist))
                          /\ \A n \in Range(array) : dist[Top] <= dist[n]
<1>1. array \in Seq(Node) /\ array # <<>> /\ dist \in [Node -> Int]
      /\ DOMAIN array = 1 .. Len(array)
  BY Types DEF Search
<1>2. 1 \in DOMAIN array
  BY <1>1
<1>3. Top \in Node /\ Top \in Range(array)
  BY <1>1, <1>2 DEF Top, Range
<1>4. ASSUME OrderedInv PROVE \A n \in Range(array) : dist[Top] <= dist[n]
  <2>1. \A k \in 1 .. Len(array) : dist[Top] <= dist[array[k]]
    BY <1>1, <1>4, TopIsNearest DEF OrderedInv, Top
  <2> QED
    BY <1>1, <2>1 DEF Range
<1> QED
  BY <1>1, <1>3, <1>4, PopHeap DEF OrderedInv, Top

\* What it is to expand a node.
LEMMA Expanding ==
  ASSUME Inv, Expand, NEW left, left = pop_graph(array, dist)
  PROVE  /\ Top \in Node \ {t_id} /\ Top \notin visited
         /\ GraphOK' /\ graph' = graph
         /\ Expanded' = Expanded \cup {Top}
         /\ Steps' = Steps + 1 /\ Steps \in Nat /\ Steps + 1 <= Size - 1
         /\ \A i \in Node : ~Shortens(Top, i) => dist'[i] = dist[i]
         /\ \A i \in Node : Shortens(Top, i) =>
              /\ graph[Top][i] > 0 /\ i \notin visited \cup {Top}
              /\ dist'[i] = dist[Top] + graph[Top][i] /\ dist'[i] < dist[i]
         /\ dist' \in [Node -> 0 .. MaxDist]
         /\ Len(left) + Size <= Size * Size
         /\ array' \in Seq(Node) /\ Len(array') <= Len(array) + Size - 1
         /\ Range(array') = Range(left) \cup {i \in Node : Shortens(Top, i)}
<1>1. Search /\ Top \notin visited /\ Top # t_id /\ visited' = visited \cup {Top}
      /\ dist' = Relaxed(Top, Size - 1) /\ array' = Pushed(Top, left)[Size] /\ graph' = graph
  BY DEF Expand, PushNeighbors
<1>2. GraphOK /\ visited \subseteq Node /\ Len(array) \in Nat
      /\ dist \in [Node -> 0 .. MaxDist] /\ dist \in [Node -> Int]
  BY Types
<1>3. Top \in Node /\ left \in Seq(Node) /\ Len(left) = Len(array) - 1
  BY <1>1, Popped
<1>4. Size \in Nat /\ Size >= 2 /\ MaxDist \in Nat
      /\ \A i \in Node : i \in Nat /\ i <= Size - 1
  BY Nodes DEF Node
<1>5. /\ Expanded' = Expanded \cup {Top}
      /\ Steps' = Steps + 1 /\ Steps \in Nat /\ Steps + 1 <= Size - 1
  BY <1>1, <1>2, <1>3, OneStepMore DEF Expanded, Steps
<1>6. \A i \in Node : dist'[i] = IF Shortens(Top, i) THEN dist[Top] + graph[Top][i] ELSE dist[i]
  BY <1>1, <1>4 DEF Relaxed
<1>7. ASSUME NEW i \in Node, Shortens(Top, i)
      PROVE  /\ graph[Top][i] > 0 /\ i \notin visited \cup {Top}
             /\ dist'[i] = dist[Top] + graph[Top][i] /\ dist'[i] < dist[i]
  BY <1>6, <1>7 DEF Shortens
<1>8. ASSUME NEW i \in Node PROVE dist'[i] \in 0 .. MaxDist
  <2>1. dist[Top] \in 0 .. MaxDist /\ dist[i] \in 0 .. MaxDist /\ graph[Top][i] \in Int
    BY <1>2, <1>3 DEF GraphOK
  <2> QED
    BY <1>4, <1>6, <1>7, <2>1
<1>9. dist' \in [Node -> 0 .. MaxDist]
  BY <1>1, <1>8 DEF Relaxed
<1>10. Len(left) + Size <= Size * Size
  <2>1. Len(array) <= 1 + Steps * Size
    BY DEF Inv, RoomLeft
  <2>2. Steps * Size + Size <= (Size - 1) * Size
    BY <1>4, <1>5, SMTT(30)
  <2>3. (Size - 1) * Size = Size * Size - Size /\ Steps * Size \in Nat /\ Size * Size \in Nat
    BY <1>4, <1>5, SMTT(30)
  <2> QED
    BY <1>2, <1>3, <1>4, <2>1, <2>2, <2>3
<1>11. Size \in 0 .. Size
  BY <1>4
<1>12. /\ array' \in Seq(Node)
       /\ Len(array') <= Len(left) + Size
       /\ Range(array') = Range(left) \cup Nearer(Top, Size)
  BY <1>1, <1>2, <1>3, <1>10, <1>11, PushedRange
<1>13. Nearer(Top, Size) = {i \in Node : Shortens(Top, i)}
  BY <1>4 DEF Nearer
<1>14. GraphOK'
  BY <1>1, <1>2 DEF GraphOK
<1>15. Len(array') <= Len(array) + Size - 1
  <2>1. Len(array') \in Nat
    BY <1>12
  <2> QED
    BY <1>2, <1>3, <1>4, <1>12, <2>1
<1> QED
  BY <1>1, <1>3, <1>5, <1>6, <1>7, <1>9, <1>10, <1>12, <1>13, <1>14, <1>15

LEMMA Finding ==
  ASSUME Inv, Found, NEW left, left = pop_graph(array, dist)
  PROVE  /\ Top = t_id /\ t_id \notin visited /\ visited' = visited \cup {t_id}
         /\ array' = left /\ left \in Seq(Node) /\ Len(left) = Len(array) - 1
         /\ Range(array) = Range(left) \cup {t_id}
         /\ Expanded' = Expanded /\ Steps' = Steps /\ Reached' = Reached
         /\ dist' = dist /\ graph' = graph /\ fallen' = fallen /\ result' = "found"
<1>1. /\ Search /\ Top = t_id /\ t_id \notin visited /\ visited' = visited \cup {t_id}
      /\ array' = left /\ dist' = dist /\ graph' = graph /\ fallen' = fallen
      /\ result' = "found"
  BY DEF Found
<1>2. left \in Seq(Node) /\ Len(left) = Len(array) - 1 /\ Range(array) = Range(left) \cup {t_id}
  BY <1>1, Popped
<1>3. Expanded' = Expanded
  BY <1>1 DEF Expanded
<1>4. Steps' = Steps
  BY <1>3 DEF Steps
<1>5. Reached' = Reached
  BY <1>1, <1>2 DEF Reached
<1> QED
  BY <1>1, <1>2, <1>3, <1>4, <1>5

\* A way that ends, or fails, changes nothing else.
LEMMA Ending ==
  ASSUME AssertFails \/ Exhausted
  PROVE  UNCHANGED <<graph, array, visited, dist, fallen>>
  BY DEF AssertFails, Exhausted

(***************************************************************************)
(* Each part of the invariant is kept.                                     *)
(***************************************************************************)

LEMMA TypeKept ==
  ASSUME Inv, Next
  PROVE  TypeOK' /\ (graph \in Graphs)'
<1>1. /\ array \in Seq(Node) /\ Len(array) <= Size * Size /\ visited \subseteq Node
      /\ dist \in [Node -> 0 .. MaxDist] /\ fallen \in BOOLEAN
      /\ result \in {"searching", "found", "exhausted", "failed"} /\ graph \in Graphs
  BY DEF Inv, TypeOK
<1>2. Size \in Nat /\ Size * Size \in Nat /\ t_id \in Node /\ Len(array) \in Nat
  BY <1>1, Nodes, SMTT(30)
<1>3. CASE Found
  <2> DEFINE left == pop_graph(array, dist)
  <2>1. /\ visited' = visited \cup {t_id} /\ array' = left /\ left \in Seq(Node)
        /\ Len(left) = Len(array) - 1
        /\ dist' = dist /\ graph' = graph /\ fallen' = fallen /\ result' = "found"
    BY <1>3, Finding
  <2> HIDE DEF left
  <2>2. Len(array') <= Size * Size
    BY <1>1, <1>2, <2>1
  <2> QED
    BY <1>1, <1>2, <2>1, <2>2 DEF TypeOK
<1>4. CASE Expand
  <2> DEFINE left == pop_graph(array, dist)
  <2>1. /\ Top \in Node /\ dist' \in [Node -> 0 .. MaxDist] /\ array' \in Seq(Node)
        /\ graph' = graph
        /\ Len(array') <= Len(array) + Size - 1 /\ Len(left) + Size <= Size * Size
    BY <1>4, Expanding
  <2>2. Len(left) = Len(array) - 1
    BY <1>4, Popped DEF Expand
  <2>3. visited' \subseteq Node /\ result' = result /\ fallen' \in BOOLEAN
    BY <1>1, <1>4, <2>1 DEF Expand
  <2> HIDE DEF left
  <2>4. Len(array') <= Size * Size
    <3>1. Len(array') \in Nat
      BY <2>1
    <3> QED
      BY <1>2, <2>1, <2>2, <3>1
  <2> QED
    BY <1>1, <2>1, <2>3, <2>4 DEF TypeOK
<1>5. CASE AssertFails
  BY <1>1, <1>5 DEF AssertFails, TypeOK
<1>6. CASE Exhausted
  BY <1>1, <1>6 DEF Exhausted, TypeOK
<1> QED
  BY <1>3, <1>4, <1>5, <1>6 DEF Next

LEMMA RoomKept ==
  ASSUME Inv, Next
  PROVE  RoomLeft'
<1>1. Len(array) <= 1 + Steps * Size /\ Len(array) \in Nat /\ Size \in Nat /\ visited \subseteq Node
  BY Types, Nodes DEF Inv, RoomLeft
<1>2. Steps \in Nat
  BY <1>1, StepsBound, Nodes
<1>3. Steps * Size \in Nat /\ (Steps + 1) * Size = Steps * Size + Size
  BY <1>1, <1>2, SMTT(30)
<1>4. CASE Found
  <2>1. Len(array') = Len(array) - 1 /\ Steps' = Steps
    BY <1>4, Finding
  <2> QED
    BY <1>1, <1>3, <2>1 DEF RoomLeft
<1>5. CASE Expand
  <2>1. array' \in Seq(Node) /\ Len(array') <= Len(array) + Size - 1 /\ Steps' = Steps + 1
    BY <1>5, Expanding
  <2>2. Len(array') \in Nat
    BY <2>1
  <2>3. Len(array') <= 1 + (Steps + 1) * Size
    BY <1>1, <1>3, <2>1, <2>2
  <2> QED
    BY <2>1, <2>3 DEF RoomLeft
<1>6. CASE AssertFails \/ Exhausted
  <2>1. array' = array /\ visited' = visited
    BY <1>6, Ending
  <2> QED
    BY <1>1, <2>1 DEF RoomLeft, Steps, Expanded
<1> QED
  BY <1>4, <1>5, <1>6 DEF Next

LEMMA AboveKept ==
  ASSUME Inv, Next
  PROVE  AboveShortest'
<1> DEFINE W == ShortestWithin
<1>1. GraphOK /\ visited \subseteq Node /\ dist \in [Node -> 0 .. MaxDist] /\ MaxDist \in Nat
  BY Types, Nodes
<1>2. \A n \in Node : dist[n] >= W[Steps][n]
  BY DEF Inv, AboveShortest
<1>3. Steps \in 0 .. Size - 1 /\ \A k \in 0 .. Size - 1 : W[k] \in [Node -> 0 .. MaxDist]
  BY <1>1, StepsBound, WithinEquation
<1>4. graph' = graph => ShortestWithin' = W
  BY DEF ShortestWithin, OneMoreEdge
<1>5. CASE Found
  <2>1. dist' = dist /\ graph' = graph /\ Steps' = Steps
    BY <1>5, Finding
  <2> QED
    BY <1>2, <1>4, <2>1 DEF AboveShortest
<1>6. CASE Expand
  <2>1. /\ Top \in Node /\ graph' = graph
        /\ Steps' = Steps + 1 /\ Steps \in Nat /\ Steps + 1 <= Size - 1
        /\ \A i \in Node : ~Shortens(Top, i) => dist'[i] = dist[i]
        /\ \A i \in Node : Shortens(Top, i) =>
              graph[Top][i] > 0 /\ dist'[i] = dist[Top] + graph[Top][i]
    BY <1>6, Expanding
  <2>2. Steps + 1 \in 1 .. Size - 1 /\ Steps + 1 \in 0 .. Size - 1 /\ (Steps + 1) - 1 = Steps
    BY <2>1, Nodes
  <2>3. W[Steps + 1] = OneMoreEdge(W[Steps])
    BY <1>1, <2>2, WithinEquation
  <2> HIDE DEF W
  <2>4. \A n \in Node : /\ W[Steps + 1][n] <= W[Steps][n]
                        /\ \A m \in Node : graph[m][n] > 0 =>
                             W[Steps + 1][n] <= W[Steps][m] + graph[m][n]
    BY <1>1, <1>3, <2>3, OneMoreEdgeIsLeast
  <2>5. ASSUME NEW n \in Node PROVE dist'[n] >= W[Steps + 1][n]
    <3>1. /\ dist[n] \in Int /\ dist[Top] \in Int /\ graph[Top][n] \in Int
          /\ W[Steps][n] \in Int /\ W[Steps][Top] \in Int /\ W[Steps + 1][n] \in Int
      BY <1>1, <1>3, <2>1, <2>2 DEF GraphOK
    <3>2. dist[n] >= W[Steps][n] /\ dist[Top] >= W[Steps][Top]
      BY <1>2, <2>1
    <3>3. CASE ~Shortens(Top, n)
      BY <2>1, <2>4, <3>1, <3>2, <3>3
    <3>4. CASE Shortens(Top, n)
      BY <2>1, <2>4, <3>1, <3>2, <3>4
    <3> QED
      BY <3>3, <3>4
  <2> QED
    BY <1>4, <2>1, <2>5 DEF AboveShortest, W
<1>7. CASE AssertFails \/ Exhausted
  <2>1. dist' = dist /\ graph' = graph /\ visited' = visited
    BY <1>7, Ending
  <2>2. Steps' = Steps
    BY <2>1 DEF Steps, Expanded
  <2> QED
    BY <1>2, <1>4, <2>1, <2>2 DEF AboveShortest
<1> QED
  BY <1>5, <1>6, <1>7 DEF Next

LEMMA ReachedKept ==
  ASSUME Inv, Next
  PROVE  ReachedInv'
<1>1. /\ s_id \in Reached /\ dist[s_id] = 0
      /\ \A m \in Expanded : \A n \in Node : graph[m][n] > 0 => n \in Reached
      /\ \A n \in Node \ Reached : dist[n] = MaxDist
      /\ \A n \in Reached : dist[n] <= Steps * Longest
  BY DEF Inv, ReachedInv
<1>2. /\ graph \in Graphs /\ visited \subseteq Node /\ dist \in [Node -> 0 .. MaxDist]
      /\ MaxDist \in Nat /\ Size - 1 \in Nat /\ Reached \subseteq Node
  BY Types, Nodes DEF Inv, Reached
<1>3. CASE Found
  <2>1. dist' = dist /\ graph' = graph /\ Steps' = Steps /\ Expanded' = Expanded /\ Reached' = Reached
    BY <1>3, Finding
  <2> QED
    BY <1>1, <2>1 DEF ReachedInv, Longest
<1>4. CASE Expand
  <2> DEFINE left == pop_graph(array, dist)
             Near == {i \in Node : Shortens(Top, i)}
             L == Longest
  <2>1. /\ Top \in Node /\ Top \notin visited /\ graph' = graph
        /\ Expanded' = Expanded \cup {Top}
        /\ Steps' = Steps + 1 /\ Steps \in Nat /\ Steps + 1 <= Size - 1
        /\ \A i \in Node : ~Shortens(Top, i) => dist'[i] = dist[i]
        /\ \A i \in Node : Shortens(Top, i) => dist'[i] = dist[Top] + graph[Top][i]
        /\ Range(array') = Range(left) \cup Near
    BY <1>4, Expanding
  <2>2. /\ Top \in Range(array) /\ Range(array) = Range(left) \cup {Top}
        /\ visited' = visited \cup {Top}
    BY <1>4, Popped DEF Expand
  <2>3. Reached' = Reached \cup Near
    BY <2>1, <2>2 DEF Reached
  <2>4. /\ L \in Nat /\ \A m, n \in Node : graph[m][n] \in Int /\ graph[m][n] <= L
        /\ Steps * L \in Nat /\ (Steps + 1) * L \in Nat
        /\ (Steps + 1) * L = Steps * L + L /\ (Steps + 1) * L < MaxDist
    <3>1. Steps \in 0 .. Size - 1 /\ Steps + 1 \in 0 .. Size - 1
      BY <1>2, <2>1
    <3> QED
      BY <1>2, <3>1, LongestIsLongest
  <2> HIDE DEF L, left
  <2>5. dist[Top] <= Steps * L /\ dist[Top] \in Nat
    BY <1>1, <1>2, <2>1, <2>2 DEF Reached, L
  <2>6. ASSUME NEW n \in Node, graph[Top][n] > 0, n \notin Reached PROVE Shortens(Top, n)
    <3>1. n \notin visited \cup {Top} /\ dist[n] = MaxDist
      BY <1>1, <2>2, <2>6 DEF Reached
    <3>2. dist[Top] + graph[Top][n] < MaxDist
      BY <1>2, <2>1, <2>4, <2>5
    <3> QED
      BY <2>6, <3>1, <3>2 DEF Shortens
  <2>7. \A m \in Expanded' : \A n \in Node : graph'[m][n] > 0 => n \in Reached'
    BY <1>1, <2>1, <2>3, <2>6
  <2>8. \A n \in Node \ Reached' : dist'[n] = MaxDist
    BY <1>1, <2>1, <2>3
  <2>9. ASSUME NEW n \in Reached' PROVE dist'[n] <= (Steps + 1) * L
    <3>1. n \in Node
      BY <1>2, <2>3
    <3>2. CASE Shortens(Top, n)
      <4>1. dist'[n] = dist[Top] + graph[Top][n] /\ graph[Top][n] \in Int /\ graph[Top][n] <= L
        BY <2>1, <2>4, <3>1, <3>2
      <4> QED
        BY <2>4, <2>5, <4>1
    <3>3. CASE ~Shortens(Top, n)
      <4>1. n \in Reached /\ dist'[n] = dist[n]
        BY <2>1, <2>3, <3>1, <3>3
      <4>2. dist[n] <= Steps * L /\ dist[n] \in Nat
        BY <1>1, <1>2, <3>1, <4>1 DEF L
      <4> QED
        BY <2>4, <4>1, <4>2
    <3> QED
      BY <3>2, <3>3
  <2>10. s_id \in Reached' /\ dist'[s_id] = 0
    <3>1. s_id \in Node
      BY Nodes
    <3>2. ~Shortens(Top, s_id)
      BY <1>1, <2>1, <2>4, <2>5, <3>1 DEF Shortens
    <3> QED
      BY <1>1, <2>1, <2>3, <3>1, <3>2
  <2>11. Longest' = L
    BY DEF Longest, L
  <2> QED
    BY <2>1, <2>7, <2>8, <2>9, <2>10, <2>11 DEF ReachedInv
<1>5. CASE AssertFails \/ Exhausted
  <2>1. UNCHANGED <<graph, array, visited, dist>>
    BY <1>5, Ending
  <2>2. Expanded' = Expanded /\ Reached' = Reached
    BY <2>1 DEF Expanded, Reached
  <2>3. Steps' = Steps
    BY <2>2 DEF Steps
  <2> QED
    BY <1>1, <2>1, <2>2, <2>3 DEF ReachedInv, Longest
<1> QED
  BY <1>3, <1>4, <1>5 DEF Next

LEMMA ResultKept ==
  ASSUME Inv, Next
  PROVE  ResultInv'
<1>1. result # "found" => t_id \notin visited
  BY DEF Inv, ResultInv
<1>2. CASE Found
  BY <1>2 DEF Found, ResultInv
<1>3. CASE Expand
  BY <1>1, <1>3 DEF Expand, Search, ResultInv, t_id
<1>4. CASE AssertFails
  BY <1>1, <1>4 DEF AssertFails, Search, ResultInv, t_id
<1>5. CASE Exhausted
  BY <1>1, <1>5 DEF Exhausted, ResultInv, t_id
<1> QED
  BY <1>2, <1>3, <1>4, <1>5 DEF Next

\* The shortest paths of more edges are no longer.
LEMMA WithinFalls ==
  ASSUME GraphOK, NEW j \in 0 .. Size - 1, NEW n \in Node
  PROVE  Shortest[n] <= ShortestWithin[j][n]
<1> DEFINE W == ShortestWithin
           P == {k \in Nat : j + k <= Size - 1 => W[j + k][n] <= W[j][n]}
<1>1. Size - 1 \in Nat /\ MaxDist \in Nat
  BY Nodes
<1>2. \A k \in 0 .. Size - 1 : W[k] \in [Node -> 0 .. MaxDist]
  BY WithinEquation
<1>3. \A k \in 1 .. Size - 1 : W[k] = OneMoreEdge(W[k - 1])
  BY WithinEquation
<1> HIDE DEF W
<1>4. \A k \in 0 .. Size - 1 : W[k][n] \in Int
  BY <1>1, <1>2
<1>5. 0 \in P
  BY <1>4
<1>6. ASSUME NEW k \in Nat, k \in P PROVE k + 1 \in P
  <2>1. SUFFICES ASSUME j + (k + 1) <= Size - 1
                 PROVE  W[j + (k + 1)][n] <= W[j][n]
    OBVIOUS
  <2> DEFINE i == j + (k + 1)
  <2>2. i \in 1 .. Size - 1 /\ i - 1 = j + k /\ j + k <= Size - 1
        /\ i \in 0 .. Size - 1 /\ i - 1 \in 0 .. Size - 1
    BY <1>1, <2>1
  <2> HIDE DEF i
  <2>3. W[i][n] <= W[i - 1][n]
    BY <1>2, <1>3, <2>2, OneMoreEdgeIsLeast
  <2>4. W[i - 1][n] <= W[j][n]
    BY <1>6, <2>2
  <2>5. W[i][n] <= W[j][n]
    BY <1>4, <2>2, <2>3, <2>4
  <2> QED
    BY <2>5 DEF i
<1> HIDE DEF P
<1>7. Nat \subseteq P
  BY <1>5, <1>6, Induction
<1>8. (Size - 1) - j \in Nat /\ j + ((Size - 1) - j) = Size - 1
  BY <1>1
<1>9. W[Size - 1][n] <= W[j][n]
  <2>1. (Size - 1) - j \in P
    BY <1>7, <1>8
  <2> QED
    BY <1>1, <1>8, <2>1 DEF P
<1> QED
  BY <1>9 DEF W, Shortest

LEMMA NeverBelow ==
  ASSUME Inv
  PROVE  NeverTooShort
<1>1. GraphOK /\ visited \subseteq Node /\ dist \in [Node -> Int] /\ Size - 1 \in Nat
      /\ MaxDist \in Nat
  BY Types, Nodes
<1>2. Steps \in 0 .. Size - 1 /\ Size - 1 \in 0 .. Size - 1
  BY <1>1, StepsBound
<1>3. /\ ShortestWithin[Steps] \in [Node -> 0 .. MaxDist]
      /\ Shortest \in [Node -> 0 .. MaxDist]
  BY <1>1, <1>2, WithinEquation DEF Shortest
<1>4. ASSUME NEW n \in Node PROVE dist[n] >= Shortest[n]
  <2>1. dist[n] >= ShortestWithin[Steps][n]
    BY DEF Inv, AboveShortest
  <2>2. Shortest[n] <= ShortestWithin[Steps][n]
    BY <1>1, <1>2, WithinFalls
  <2>3. dist[n] \in Int /\ ShortestWithin[Steps][n] \in Int /\ Shortest[n] \in Int
    BY <1>1, <1>3
  <2> QED
    BY <2>1, <2>2, <2>3
<1> QED
  BY <1>4 DEF NeverTooShort

\* When the target is the nearest in the heap its distance is the shortest: a
\* path to it leaves the visited nodes over a node of the heap.
LEMMA FoundShortest ==
  ASSUME Inv, OrderedInv, Search, Top = t_id, t_id \notin visited
  PROVE  dist[t_id] = Shortest[t_id]
<1> DEFINE W == ShortestWithin
           P == {k \in Nat : k <= Size - 1 =>
                   \A n \in Node : W[k][n] >= dist[n] \/ W[k][n] >= dist[Top]}
<1>1. /\ GraphOK /\ visited \subseteq Node /\ dist \in [Node -> 0 .. MaxDist]
      /\ dist \in [Node -> Int] /\ MaxDist \in Nat /\ Size - 1 \in Nat
      /\ s_id \in Node /\ t_id \in Node
  BY Types, Nodes
<1>2. \A n \in Range(array) : dist[Top] <= dist[n]
  BY Popped
<1>3. \A n \in Node : \A m \in Node : graph[m][n] \in Int
  BY <1>1 DEF GraphOK
<1>4. \A k \in 0 .. Size - 1 : \A n \in Node : W[k][n] \in Int
  <2>1. \A k \in 0 .. Size - 1 : W[k] \in [Node -> 0 .. MaxDist]
    BY <1>1, WithinEquation
  <2> HIDE DEF W
  <2> QED
    BY <1>1, <2>1
\* A node not visited is no nearer than the target.
<1>5. \A n \in Node \ visited : dist[n] >= dist[Top]
  <2>1. TAKE n \in Node \ visited
  <2>2. dist[Top] \in 0 .. MaxDist /\ dist[n] \in 0 .. MaxDist
    BY <1>1, Popped
  <2>3. CASE n \in Range(array)
    BY <1>2, <2>2, <2>3
  <2>4. CASE n \notin Range(array)
    <3>1. dist[n] = MaxDist
      BY <2>4 DEF Inv, ReachedInv, Reached
    <3> QED
      BY <1>1, <2>2, <3>1
  <2> QED
    BY <2>3, <2>4
<1>6. 0 \in P
  <2>1. ASSUME NEW n \in Node PROVE W[0][n] >= dist[n] \/ W[0][n] >= dist[Top]
    <3>1. W[0][n] = IF n = s_id THEN 0 ELSE MaxDist
      BY <1>1, WithinEquation
    <3>2. dist[s_id] = 0 /\ dist[n] \in 0 .. MaxDist
      BY <1>1 DEF Inv, ReachedInv
    <3> HIDE DEF W
    <3> QED
      BY <1>1, <3>1, <3>2
  <2> HIDE DEF W
  <2> QED
    BY <2>1
<1>7. ASSUME NEW k \in Nat, k \in P PROVE k + 1 \in P
  <2>1. SUFFICES ASSUME k + 1 <= Size - 1, NEW n \in Node
                 PROVE  W[k + 1][n] >= dist[n] \/ W[k + 1][n] >= dist[Top]
    OBVIOUS
  <2>2. k \in 0 .. Size - 1 /\ k + 1 \in 1 .. Size - 1 /\ k + 1 \in 0 .. Size - 1 /\ (k + 1) - 1 = k
    BY <1>1, <2>1
  <2>3. \A j \in Node : W[k][j] >= dist[j] \/ W[k][j] >= dist[Top]
    BY <1>1, <1>7, <2>2
  <2>4. W[k + 1] = OneMoreEdge(W[k]) /\ W[k] \in [Node -> 0 .. MaxDist]
    BY <1>1, <2>2, WithinEquation
  <2> HIDE DEF W
  <2>5. \/ W[k + 1][n] = W[k][n]
        \/ \E m \in Node : graph[m][n] > 0 /\ W[k + 1][n] = W[k][m] + graph[m][n]
    BY <1>1, <2>4, OneMoreEdgeIsLeast
  <2>6. CASE W[k + 1][n] = W[k][n]
    BY <2>3, <2>6
  <2>7. ASSUME NEW m \in Node, graph[m][n] > 0, W[k + 1][n] = W[k][m] + graph[m][n]
        PROVE  W[k + 1][n] >= dist[n] \/ W[k + 1][n] >= dist[Top]
    <3>1. /\ W[k][m] \in Int /\ graph[m][n] \in Int /\ dist[m] \in Int /\ dist[n] \in Int
          /\ dist[Top] \in Int
      BY <1>1, <1>3, <1>4, <2>2, Popped
    <3>2. CASE W[k][m] >= dist[Top]
      BY <2>7, <3>1, <3>2
    <3>3. CASE m \in visited /\ W[k][m] >= dist[m]
      <4>1. m \in Expanded
        BY <3>3 DEF Expanded
      <4>2. dist[n] <= dist[m] + graph[m][n]
        BY <2>7, <4>1 DEF OrderedInv
      <4> QED
        BY <2>7, <3>1, <3>3, <4>2
    <3>4. CASE m \notin visited /\ W[k][m] >= dist[m]
      <4>1. dist[m] >= dist[Top]
        BY <1>5, <3>4
      <4> QED
        BY <2>7, <3>1, <3>4, <4>1
    <3> QED
      BY <2>3, <3>2, <3>3, <3>4
  <2> QED
    BY <2>5, <2>6, <2>7
<1> HIDE DEF P
<1>8. Nat \subseteq P
  BY <1>6, <1>7, Induction
<1>9. W[Size - 1][t_id] >= dist[t_id]
  <2>1. Size - 1 \in P
    BY <1>1, <1>8
  <2> QED
    BY <1>1, <2>1 DEF P
<1>10. dist[t_id] >= W[Size - 1][t_id]
  BY <1>1, NeverBelow DEF NeverTooShort, Shortest
<1>11. W[Size - 1][t_id] \in Int /\ dist[t_id] \in Int
  <2>1. Size - 1 \in 0 .. Size - 1
    BY <1>1
  <2> QED
    BY <1>1, <1>4, <2>1
<1> HIDE DEF W
<1>12. dist[t_id] = W[Size - 1][t_id]
  BY <1>9, <1>10, <1>11
<1> QED
  BY <1>12 DEF Shortest, W

\* When the heap is empty every node a path leads to has been visited.
LEMMA NothingReachedLeft ==
  ASSUME Inv, result = "exhausted"
  PROVE  Shortest[t_id] = MaxDist
<1> DEFINE W == ShortestWithin
           P == {k \in Nat : k <= Size - 1 =>
                   \A n \in Node : W[k][n] < MaxDist => n \in Expanded}
<1>1. /\ GraphOK /\ MaxDist \in Nat /\ Size - 1 \in Nat /\ s_id \in Node /\ t_id \in Node
      /\ s_id # t_id
  BY Types, Nodes
<1>2. array = <<>> /\ t_id \notin visited
  BY DEF Inv, ResultInv
<1>3. Range(array) = {}
  BY <1>2 DEF Range
<1>4. Reached = Expanded
  BY <1>2, <1>3 DEF Reached, Expanded
<1>5. /\ s_id \in Expanded
      /\ \A m \in Expanded : \A n \in Node : graph[m][n] > 0 => n \in Expanded
  BY <1>4 DEF Inv, ReachedInv
<1>6. \A m, n \in Node : graph[m][n] \in Int
  BY <1>1 DEF GraphOK
<1>7. 0 \in P
  <2>1. \A n \in Node : W[0][n] = IF n = s_id THEN 0 ELSE MaxDist
    BY <1>1, WithinEquation
  <2> HIDE DEF W
  <2> QED
    BY <1>1, <1>5, <2>1
<1>8. ASSUME NEW k \in Nat, k \in P PROVE k + 1 \in P
  <2>1. SUFFICES ASSUME k + 1 <= Size - 1, NEW n \in Node, W[k + 1][n] < MaxDist
                 PROVE  n \in Expanded
    OBVIOUS
  <2>2. k \in 0 .. Size - 1 /\ k + 1 \in 1 .. Size - 1 /\ (k + 1) - 1 = k
    BY <1>1, <2>1
  <2>3. \A j \in Node : W[k][j] < MaxDist => j \in Expanded
    BY <1>1, <1>8, <2>2
  <2>4. W[k + 1] = OneMoreEdge(W[k]) /\ W[k] \in [Node -> 0 .. MaxDist]
    BY <1>1, <2>2, WithinEquation
  <2> HIDE DEF W
  <2>5. \/ W[k + 1][n] = W[k][n]
        \/ \E m \in Node : graph[m][n] > 0 /\ W[k + 1][n] = W[k][m] + graph[m][n]
    BY <1>1, <2>4, OneMoreEdgeIsLeast
  <2>6. CASE W[k + 1][n] = W[k][n]
    BY <2>1, <2>3, <2>6
  <2>7. ASSUME NEW m \in Node, graph[m][n] > 0, W[k + 1][n] = W[k][m] + graph[m][n]
        PROVE  n \in Expanded
    <3>1. W[k][m] \in Int /\ graph[m][n] \in Int
      BY <1>1, <1>6, <2>4
    <3>2. W[k][m] < MaxDist
      BY <1>1, <2>1, <2>7, <3>1
    <3> QED
      BY <1>5, <2>3, <2>7, <3>2
  <2> QED
    BY <2>5, <2>6, <2>7
<1> HIDE DEF P
<1>9. Nat \subseteq P
  BY <1>7, <1>8, Induction
<1>10. ~(W[Size - 1][t_id] < MaxDist)
  <2>1. Size - 1 \in P /\ t_id \notin Expanded
    BY <1>1, <1>2, <1>9 DEF Expanded
  <2> QED
    BY <1>1, <2>1 DEF P
<1>11. W[Size - 1][t_id] \in 0 .. MaxDist
  <2>1. Size - 1 \in 0 .. Size - 1
    BY <1>1
  <2>2. W[Size - 1] \in [Node -> 0 .. MaxDist]
    BY <1>1, <2>1, WithinEquation
  <2> HIDE DEF W
  <2> QED
    BY <1>1, <2>2
<1> HIDE DEF W
<1>12. W[Size - 1][t_id] = MaxDist
  BY <1>1, <1>10, <1>11
<1> QED
  BY <1>12 DEF Shortest, W

LEMMA OrderedFound ==
  ASSUME Inv, OrderedInv, Found
  PROVE  OrderedInv'
<1> DEFINE left == pop_graph(array, dist)
<1>1. /\ Top = t_id /\ t_id \notin visited /\ visited' = visited \cup {t_id}
      /\ array' = left /\ Range(array) = Range(left) \cup {t_id}
      /\ Expanded' = Expanded /\ dist' = dist /\ graph' = graph /\ result' = "found"
  BY Finding
<1>2. Search
  BY DEF Found
<1>3. /\ HeapOrdered(left, dist) /\ IsInjective(left) /\ Top \notin Range(left)
      /\ \A n \in Range(array) : dist[Top] <= dist[n]
  BY <1>2, Popped
<1>4. dist[t_id] = Shortest[t_id]
  BY <1>1, <1>2, FoundShortest
<1>5. Shortest' = Shortest
  BY <1>1 DEF Shortest, ShortestWithin, OneMoreEdge
<1> HIDE DEF left
<1>6. HeapOrdered(array', dist') /\ IsInjective(array')
  BY <1>1, <1>3
<1>7. Range(array') \cap visited' = {}
  BY <1>1, <1>3 DEF OrderedInv
<1>8. \A m \in visited' : \A n \in Range(array') : dist'[m] <= dist'[n]
  BY <1>1, <1>3 DEF OrderedInv
<1>9. \A m \in Expanded' : \A n \in Node : graph'[m][n] > 0 => dist'[n] <= dist'[m] + graph'[m][n]
  BY <1>1 DEF OrderedInv
<1>10. dist'[t_id] = Shortest'[t_id]
  BY <1>1, <1>4, <1>5
<1> QED
  BY <1>1, <1>6, <1>7, <1>8, <1>9, <1>10 DEF OrderedInv, HeapOrdered, IsInjective, t_id

LEMMA OrderedExpand ==
  ASSUME Inv, OrderedInv, Expand, ~fallen'
  PROVE  OrderedInv'
<1> DEFINE left == pop_graph(array, dist)
           Near == {i \in Node : Shortens(Top, i)}
<1>1. /\ Top \in Node /\ Top # t_id /\ Top \notin visited /\ graph' = graph
      /\ Expanded' = Expanded \cup {Top}
      /\ \A i \in Node : ~Shortens(Top, i) => dist'[i] = dist[i]
      /\ \A i \in Near :
            /\ graph[Top][i] > 0 /\ i \notin visited \cup {Top}
            /\ dist'[i] = dist[Top] + graph[Top][i] /\ dist'[i] < dist[i]
      /\ Len(left) + Size <= Size * Size
      /\ dist' \in [Node -> 0 .. MaxDist]
      /\ Range(array') = Range(left) \cup Near
  BY Expanding
<1>2. /\ Search /\ visited' = visited \cup {Top} /\ result' = result
      /\ dist' = Relaxed(Top, Size - 1) /\ array' = Pushed(Top, left)[Size]
      /\ \A i \in Range(array) : ~Shortens(Top, i)
  BY DEF Expand, PushNeighbors
<1>3. /\ HeapOrdered(left, dist) /\ IsInjective(left) /\ Top \notin Range(left)
      /\ left \in Seq(Node) /\ Range(array) = Range(left) \cup {Top}
      /\ \A n \in Range(array) : dist[Top] <= dist[n]
  BY <1>2, Popped
<1>4. /\ GraphOK /\ visited \subseteq Node /\ dist \in [Node -> Int] /\ MaxDist \in Nat
      /\ Size \in Nat /\ Size \in 0 .. Size /\ Range(array) \subseteq Node
  BY Types, Nodes
<1> HIDE DEF left
<1>5. HeapOrdered(array', dist') /\ IsInjective(array')
  <2>1. \A j \in Range(left) : ~Shortens(Top, j)
    BY <1>2, <1>3
  <2> QED
    BY <1>1, <1>2, <1>3, <1>4, <2>1, PushedOrdered
<1>6. Range(array') \cap visited' = {}
  BY <1>1, <1>2, <1>3 DEF OrderedInv
<1>7. \A i \in visited \cup Range(array) : dist'[i] = dist[i]
  <2>1. \A i \in visited : i \in Node /\ i \notin Near
    BY <1>1, <1>4
  <2>2. \A i \in Range(array) : i \in Node /\ ~Shortens(Top, i)
    BY <1>2, <1>4
  <2> QED
    BY <1>1, <2>1, <2>2
<1>8. \A n \in Node \ {Top} : graph[Top][n] \in Int /\ dist[n] \in Int /\ dist[Top] \in Int
  BY <1>1, <1>4 DEF GraphOK
<1>9. \A m \in visited' : dist'[m] = dist[m] /\ dist[m] <= dist[Top] /\ dist[m] \in Int
  <2>1. \A m \in visited : dist[m] <= dist[Top]
    BY <1>2, Popped DEF OrderedInv
  <2>2. dist[Top] \in Int /\ dist[Top] <= dist[Top] /\ Top \in Range(array)
    BY <1>1, <1>3, <1>4
  <2> QED
    BY <1>2, <1>4, <1>7, <2>1, <2>2
<1>10. ASSUME NEW m \in visited', NEW n \in Range(array') PROVE dist'[m] <= dist'[n]
  <2>1. dist[Top] \in Int /\ n \in Node /\ dist[n] \in Int
    BY <1>1, <1>3, <1>4
  <2>2. CASE n \in Near
    <3>1. dist'[n] = dist[Top] + graph[Top][n] /\ graph[Top][n] > 0 /\ graph[Top][n] \in Int
      BY <1>1, <1>8, <2>2
    <3> QED
      BY <1>9, <2>1, <3>1
  <2>3. CASE n \in Range(left)
    <3>1. dist'[n] = dist[n] /\ dist[Top] <= dist[n]
      BY <1>3, <1>7, <2>3
    <3> QED
      BY <1>9, <2>1, <3>1
  <2> QED
    BY <1>1, <2>2, <2>3
<1>11. ASSUME NEW m \in Expanded', NEW n \in Node, graph'[m][n] > 0
       PROVE  dist'[n] <= dist'[m] + graph'[m][n]
  <2>1. /\ graph[m][n] \in Int /\ graph[m][n] > 0 /\ graph' = graph /\ m \in Node
        /\ dist[n] \in Int /\ dist[m] \in Int /\ dist'[n] \in Int /\ dist[Top] \in Int
        /\ m \in visited' /\ dist'[m] = dist[m]
    <3>1. m \in visited'
      BY <1>1, <1>2 DEF Expanded
    <3>2. m \in Node /\ graph[m][n] > 0 /\ dist'[m] = dist[m]
      BY <1>1, <1>2, <1>4, <1>9, <1>11, <3>1
    <3> QED
      BY <1>1, <1>4, <3>1, <3>2 DEF GraphOK
  <2>2. dist'[n] <= dist[n]
    <3>1. CASE n \in Near
      BY <1>1, <2>1, <3>1
    <3>2. CASE n \notin Near
      BY <1>1, <2>1, <3>2
    <3> QED
      BY <3>1, <3>2
  <2>3. CASE m \in Expanded
    <3>1. dist[n] <= dist[m] + graph[m][n]
      BY <2>1, <2>3 DEF OrderedInv
    <3> QED
      BY <2>1, <2>2, <3>1
  <2>4. CASE m = Top
    <3>1. CASE n \in Near
      BY <1>1, <2>1, <2>4, <3>1
    <3>2. CASE n \in visited \cup {Top}
      <4>1. dist[n] <= dist[Top]
        BY <1>2, <1>9, <3>2
      <4> QED
        BY <2>1, <2>2, <2>4, <4>1
    <3>3. CASE n \notin Near /\ n \notin visited \cup {Top}
      <4>1. ~(dist[Top] + graph[Top][n] < dist[n])
        BY <2>1, <2>4, <3>3 DEF Shortens
      <4> QED
        BY <2>1, <2>2, <2>4, <4>1
    <3> QED
      BY <3>1, <3>2, <3>3
  <2> QED
    BY <1>1, <2>3, <2>4
<1>12. result' = "searching"
  BY <1>2 DEF Search
<1> QED
  BY <1>5, <1>6, <1>10, <1>11, <1>12 DEF OrderedInv

LEMMA OrderedKept ==
  ASSUME Inv, Next, ~fallen'
  PROVE  OrderedInv'
<1>1. ~fallen
  BY DEF Next, Found, Expand, AssertFails, Exhausted
<1>2. OrderedInv
  BY <1>1 DEF Inv
<1>3. CASE Found
  BY <1>2, <1>3, OrderedFound
<1>4. CASE Expand
  BY <1>2, <1>4, OrderedExpand
<1>5. ~AssertFails
  <2>1. SUFFICES ASSUME AssertFails PROVE FALSE
    OBVIOUS
  <2>2. Top \in Range(array) /\ Top \in visited
    BY <2>1, Popped DEF AssertFails
  <2> QED
    BY <1>2, <2>2 DEF OrderedInv
<1>6. CASE Exhausted
  <2>1. UNCHANGED <<graph, array, visited, dist>> /\ result' = "exhausted"
    BY <1>6 DEF Exhausted
  <2>2. Expanded' = Expanded
    BY <2>1 DEF Expanded
  <2> QED
    BY <1>2, <2>1, <2>2 DEF OrderedInv, HeapOrdered
<1> QED
  BY <1>3, <1>4, <1>5, <1>6 DEF Next

LEMMA InitInv ==
  Init => Inv
<1>1. SUFFICES ASSUME Init PROVE Inv
  OBVIOUS
<1>2. /\ graph \in Graphs /\ array = <<s_id>> /\ visited = {}
      /\ dist = [n \in Node |-> IF n = s_id THEN 0 ELSE MaxDist]
      /\ result = "searching" /\ fallen = FALSE
  BY <1>1 DEF Init
<1>3. Expanded = {} /\ Steps = 0
  BY <1>2, FS_EmptySet DEF Expanded, Steps
<1>4. /\ Size \in Nat /\ Size - 1 \in Nat \ {0} /\ MaxDist \in Nat \ {0} /\ s_id \in Node
      /\ t_id \in Node
  BY Nodes
<1>5. Range(array) = {s_id} /\ Len(array) = 1 /\ array \in Seq(Node)
      /\ DOMAIN array = {1} /\ array[1] = s_id
  BY <1>2, <1>4 DEF Range
<1>6. dist[s_id] = 0 /\ \A n \in Node \ {s_id} : dist[n] = MaxDist
  BY <1>2, <1>4
<1>7. TypeOK
  <2>1. dist \in [Node -> 0 .. MaxDist]
    BY <1>2, <1>4
  <2>2. 1 <= Size * Size
    BY <1>4, SMTT(30)
  <2> QED
    BY <1>2, <1>5, <2>1, <2>2 DEF TypeOK
<1>8. RoomLeft
  BY <1>3, <1>4, <1>5 DEF RoomLeft
<1>9. AboveShortest
  <2>1. GraphOK
    BY <1>2, DijkstraAssumption DEF GraphOK
  <2>2. \A n \in Node : ShortestWithin[0][n] = IF n = s_id THEN 0 ELSE MaxDist
    BY <2>1, WithinEquation
  <2>3. \A n \in Node : dist[n] = ShortestWithin[0][n]
    BY <1>2, <2>2
  <2>4. \A n \in Node : dist[n] \in Int
    BY <1>2, <1>4
  <2> QED
    BY <1>3, <2>3, <2>4 DEF AboveShortest
<1>10. ReachedInv
  <2>1. Reached = {s_id}
    BY <1>2, <1>5 DEF Reached
  <2>2. Longest \in Nat
    BY <1>2, LongestIsLongest
  <2> QED
    BY <1>3, <1>6, <2>1, <2>2 DEF ReachedInv
<1>11. ResultInv
  BY <1>2 DEF ResultInv
<1>12. OrderedInv
  BY <1>2, <1>3, <1>5 DEF OrderedInv, HeapOrdered, IsInjective
<1> QED
  BY <1>2, <1>7, <1>8, <1>9, <1>10, <1>11, <1>12 DEF Inv

LEMMA NextInv ==
  Inv /\ [Next]_vars => Inv'
<1>1. SUFFICES ASSUME Inv, [Next]_vars PROVE Inv'
  OBVIOUS
<1>2. CASE Next
  <2>1. TypeOK' /\ (graph \in Graphs)' /\ RoomLeft' /\ AboveShortest' /\ ReachedInv' /\ ResultInv'
    BY <1>1, <1>2, TypeKept, RoomKept, AboveKept, ReachedKept, ResultKept
  <2>2. (~fallen => OrderedInv)'
    BY <1>1, <1>2, OrderedKept
  <2> QED
    BY <2>1, <2>2 DEF Inv
<1>3. CASE UNCHANGED vars
  <2>1. UNCHANGED <<graph, array, visited, dist, result, fallen>>
    BY <1>3 DEF vars
  <2>2. Expanded' = Expanded /\ Reached' = Reached /\ Longest' = Longest
    BY <2>1 DEF Expanded, Reached, Longest
  <2>3. Steps' = Steps
    BY <2>2 DEF Steps
  <2>4. ShortestWithin' = ShortestWithin
    BY <2>1 DEF ShortestWithin, OneMoreEdge
  <2>5. Shortest' = Shortest
    BY <2>4 DEF Shortest
  <2>6. TypeOK' /\ (graph \in Graphs)' /\ RoomLeft' /\ ResultInv'
    BY <1>1, <2>1, <2>3 DEF Inv, TypeOK, RoomLeft, ResultInv, t_id
  <2>7. AboveShortest'
    BY <1>1, <2>1, <2>3, <2>4 DEF Inv, AboveShortest
  <2>8. ReachedInv'
    BY <1>1, <2>1, <2>2, <2>3 DEF Inv, ReachedInv
  <2>9. (~fallen => OrderedInv)'
    BY <1>1, <2>1, <2>2, <2>5 DEF Inv, OrderedInv, HeapOrdered
  <2> QED
    BY <2>6, <2>7, <2>8, <2>9 DEF Inv
<1> QED
  BY <1>1, <1>2, <1>3

(***************************************************************************)
(* The theorems.                                                           *)
(***************************************************************************)

\* The inductive invariant of the search.
THEOREM Invariance ==
  Spec => []Inv
<1> QED
  BY InitInv, NextInv, PTL DEF Spec

\* The heap stays in its array of size * size entries, and every distance
\* between 0 and MaxDist (src/graph.c:20-42, 111-142).
THEOREM TypeCorrect ==
  Spec => []TypeOK
<1>1. Inv => TypeOK
  BY DEF Inv
<1> QED
  BY <1>1, Invariance, PTL

\* No distance is ever below the length of a shortest path, whatever entries
\* the heap holds twice and however stale their order (src/graph.c:114-123).
THEOREM DistancesNeverTooShort ==
  Spec => []NeverTooShort
<1> QED
  BY NeverBelow, Invariance, PTL

\* dijkstra returns -1 only when there is no path (src/graph.c:143-145).
THEOREM ExhaustedOnlyWithoutPath ==
  Spec => []ExhaustedOnlyIfUnreachable
<1>1. ASSUME Inv PROVE ExhaustedOnlyIfUnreachable
  <2>1. SUFFICES ASSUME result = "exhausted" PROVE Shortest[t_id] = MaxDist
    BY DEF ExhaustedOnlyIfUnreachable
  <2> QED
    BY <1>1, <2>1, NothingReachedLeft
<1> QED
  BY <1>1, Invariance, PTL

\* As long as no distance of a node in the heap has fallen, the nearest node is
\* popped first and once, and the distance returned is the shortest
\* (src/graph.c:44-74, 100-109).
THEOREM SearchRightUnlessFallen ==
  Spec => []RightUnlessFallen
<1>1. ASSUME Inv PROVE RightUnlessFallen
  <2>1. SUFFICES ASSUME ~fallen
                 PROVE  /\ \A k \in DOMAIN array : dist[Top] <= dist[array[k]]
                        /\ result # "failed"
                        /\ result = "found" => dist[t_id] = Shortest[t_id]
    BY DEF RightUnlessFallen
  <2>2. OrderedInv
    BY <1>1, <2>1 DEF Inv
  <2>3. array \in Seq(Node) /\ dist \in [Node -> Int] /\ DOMAIN array = 1 .. Len(array)
    BY <1>1, Types
  <2>4. \A k \in DOMAIN array : dist[Top] <= dist[array[k]]
    BY <2>2, <2>3, TopIsNearest DEF OrderedInv, Top
  <2> QED
    BY <2>2, <2>4 DEF OrderedInv
<1> QED
  BY <1>1, Invariance, PTL
=============================================================================
