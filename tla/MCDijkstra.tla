----------------------------- MODULE MCDijkstra -----------------------------
(***************************************************************************)
(* Graphs for TLC.  An edge into the source, out of the target or from a   *)
(* node to itself is never looked at with effect, and is left out.         *)
(***************************************************************************)
EXTENDS Dijkstra

Edges == {e \in Node \X Node : e[2] # s_id /\ e[1] # t_id /\ e[1] # e[2]}

Matrix(length) ==
  [m \in Node |-> [n \in Node |->
     IF <<m, n>> \in Edges THEN length[<<m, n>>] ELSE IF m = n THEN 0 ELSE -1]]

\* Lengths of the edges from the source, and of two edges that make a detour
\* over 1 and 2 the shorter way.
Detour(length, edge) ==
  [e \in Edges |-> IF e[1] = s_id THEN length[e[2]]
                   ELSE IF e \in {<<1, 2>>, <<2, t_id>>} THEN edge[e] ELSE -1]
Detours ==
  {Matrix(Detour(length, edge)) :
     length \in [Node \ {s_id} -> {1, 5}],
     edge \in [{<<1, 2>>, <<2, t_id>>} -> {-1, 1}]}

SmallGraphs == {Matrix(length) : length \in [Edges -> {-1, 1, 2, 5}]}
=============================================================================
