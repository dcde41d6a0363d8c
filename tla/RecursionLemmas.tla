-------------------------- MODULE RecursionLemmas --------------------------
(***************************************************************************)
(* Induction and recursion without an operator for a parameter: the set of *)
(* the numbers that have a property stands for the property, and a         *)
(* function of functions for the body of a recursive definition.           *)
(***************************************************************************)
EXTENDS Integers, FiniteSetsExt, WellFoundedInduction, TLAPS

LEMMA LeastOne ==
  ASSUME NEW T, T \subseteq Nat, T # {}
  PROVE  \E x \in T : \A y \in T : x <= y
<1> DEFINE R == {ss \in Nat \X Nat : ss[1] < ss[2]}
<1>1. IsWellFoundedOn(R, Nat)
  BY NatLessThanWellFounded DEF OpToRel
<1> HIDE DEF R
<1>2. PICK x \in T : \A y \in T : <<y, x>> \notin R
  BY <1>1, WFMin
<1>3. ASSUME NEW y \in T PROVE x <= y
  <2>1. x \in Nat /\ y \in Nat
    OBVIOUS
  <2>2. <<y, x>> \in Nat \X Nat /\ <<y, x>>[1] = y /\ <<y, x>>[2] = x
    BY <2>1
  <2>3. ~(<<y, x>>[1] < <<y, x>>[2])
    <3>1. SUFFICES ASSUME <<y, x>>[1] < <<y, x>>[2] PROVE FALSE
      OBVIOUS
    <3>2. <<y, x>> \in R
      BY <2>2, <3>1 DEF R
    <3> QED
      BY <1>2, <3>2
  <2> QED
    BY <2>1, <2>2, <2>3
<1> QED
  BY <1>3

LEMMA MinOf ==
  ASSUME NEW T, T \subseteq Nat, T # {}
  PROVE  Min(T) \in T /\ \A x \in T : Min(T) <= x
  BY LeastOne DEF Min

LEMMA MaxOf ==
  ASSUME NEW T, NEW n \in Nat, T \subseteq 0 .. n, T # {}
  PROVE  Max(T) \in T /\ \A x \in T : x <= Max(T)
<1> DEFINE R == {n - x : x \in T}
<1>1. R \subseteq Nat /\ R # {}
  <2>1. \A x \in T : n - x \in Nat
    OBVIOUS
  <2> QED
    BY <2>1
<1>2. PICK r \in R : \A y \in R : r <= y
  BY <1>1, LeastOne
<1>3. PICK x \in T : r = n - x
  BY <1>2
<1>4. \A y \in T : y <= x
  <2>1. TAKE y \in T
  <2>2. n - x <= n - y
    BY <1>2, <1>3
  <2> QED
    BY <2>2
<1> QED
  BY <1>3, <1>4 DEF Max

\* Induction from n to n + 1, P the set of the numbers it has been shown for.
LEMMA Induction ==
  ASSUME NEW P, 0 \in P, \A n \in Nat : n \in P => n + 1 \in P
  PROVE  Nat \subseteq P
<1> DEFINE T == Nat \ P
<1>1. SUFFICES ASSUME T # {} PROVE FALSE
  OBVIOUS
<1>2. PICK x \in T : \A y \in T : x <= y
  BY <1>1, LeastOne
<1>3. x # 0 /\ x - 1 \in Nat /\ ~(x <= x - 1) /\ (x - 1) + 1 = x
  BY <1>2
<1>4. x - 1 \in P
  BY <1>2, <1>3
<1> QED
  BY <1>2, <1>3, <1>4

\* Induction over the values of a measure m: P is the set of the elements it
\* has been shown for.
LEMMA MeasureInduction ==
  ASSUME NEW S, NEW m \in [S -> Nat], NEW P,
         \A x \in S : (\A y \in S : m[y] < m[x] => y \in P) => x \in P
  PROVE  S \subseteq P
<1> DEFINE T == {m[x] : x \in S \ P}
<1>1. SUFFICES ASSUME S \ P # {} PROVE FALSE
  OBVIOUS
<1>2. T \subseteq Nat /\ T # {}
  BY <1>1
<1>3. PICK k \in T : \A j \in T : k <= j
  BY <1>2, LeastOne
<1>4. PICK x \in S \ P : m[x] = k
  BY <1>3
<1>5. ASSUME NEW y \in S, m[y] < m[x] PROVE y \in P
  <2>1. SUFFICES ASSUME y \notin P PROVE FALSE
    OBVIOUS
  <2>2. m[y] \in T
    BY <2>1
  <2> QED
    BY <1>3, <1>4, <1>5, <2>2, SMTT(30)
<1> QED
  BY <1>4, <1>5

\* The body G of a definition over S, of an x and the function defined: its value
\* is always in V and rests on what the function is below x.
Recursive(S, m, V, G) ==
  /\ m \in [S -> Nat]
  /\ V # {}
  /\ \A x \in S : \A h \in [S -> V] : G[x][h] \in V
  /\ \A x \in S : \A g, h \in [S -> V] :
       (\A y \in S : m[y] < m[x] => g[y] = h[y]) => G[x][g] = G[x][h]

\* Such a definition defines a function.
LEMMA RecursionExists ==
  ASSUME NEW S, NEW m, NEW V, NEW G, Recursive(S, m, V, G)
  PROVE  \E f \in [S -> V] : \A x \in S : f[x] = G[x][f]
<1>0. /\ m \in [S -> Nat]
      /\ V # {}
      /\ \A x \in S : \A h \in [S -> V] : G[x][h] \in V
      /\ \A x \in S : \A g, h \in [S -> V] :
           (\A y \in S : m[y] < m[x] => g[y] = h[y]) => G[x][g] = G[x][h]
  BY DEF Recursive
<1> DEFINE Upto(k)  == {x \in S : m[x] < k}
           Solves(f, k) == f \in [S -> V] /\ \A x \in Upto(k) : f[x] = G[x][f]
           P == {k \in Nat : \E f : Solves(f, k)}
           Sol(k) == CHOOSE f : Solves(f, k)
<1>1. ASSUME NEW j \in Nat, NEW k \in Nat, NEW f, Solves(f, j), NEW g, Solves(g, k)
      PROVE  \A x \in Upto(j) \cap Upto(k) : f[x] = g[x]
  <2> DEFINE Q == {x \in S : x \in Upto(j) \cap Upto(k) => f[x] = g[x]}
  <2>1. ASSUME NEW x \in S, \A y \in S : m[y] < m[x] => y \in Q
        PROVE  x \in Q
    <3>1. SUFFICES ASSUME x \in Upto(j) \cap Upto(k) PROVE f[x] = g[x]
      BY <1>0
    <3>2. \A y \in S : m[y] < m[x] => f[y] = g[y]
      BY <1>0, <2>1, <3>1
    <3> QED
      BY <1>0, <1>1, <3>1, <3>2
  <2> HIDE DEF Q
  <2>2. S \subseteq Q
    BY <1>0, <2>1, MeasureInduction
  <2> QED
    BY <1>0, <2>2 DEF Q
<1>2. 0 \in P
  <2>1. PICK v : v \in V
    BY <1>0
  <2>2. Solves([x \in S |-> v], 0)
    BY <1>0, <2>1
  <2> QED
    BY <1>0, <2>2
<1>3. ASSUME NEW k \in Nat, k \in P PROVE k + 1 \in P
  <2>1. PICK f : Solves(f, k)
    BY <1>0, <1>3
  <2> DEFINE g == [x \in S |-> G[x][f]]
  <2>2. g \in [S -> V]
    BY <1>0, <2>1
  <2>3. ASSUME NEW x \in Upto(k + 1) PROVE g[x] = G[x][g]
    <3>1. \A y \in S : m[y] < m[x] => g[y] = f[y]
      BY <1>0, <2>1
    <3>2. x \in S /\ g[x] = G[x][f]
      BY <1>0
    <3> HIDE DEF g
    <3> QED
      BY <1>0, <2>1, <2>2, <3>1, <3>2
  <2>4. Solves(g, k + 1)
    BY <1>0, <2>2, <2>3
  <2> HIDE DEF g, Solves
  <2> QED
    BY <1>0, <2>4
<1>4. Nat \subseteq P
  <2> HIDE DEF P
  <2> QED
    BY <1>0, <1>2, <1>3, Induction
<1>5. \A k \in Nat : Solves(Sol(k), k)
  <2> HIDE DEF Solves
  <2> QED
    BY <1>0, <1>4
<1> DEFINE s(x) == Sol(m[x] + 1)
           F == [x \in S |-> s(x)[x]]
<1> HIDE DEF Sol
<1>6. \A x \in S : m[x] + 1 \in Nat /\ x \in Upto(m[x] + 1) /\ Solves(s(x), m[x] + 1)
  <2> HIDE DEF Solves
  <2>1. \A x \in S : m[x] + 1 \in Nat /\ x \in Upto(m[x] + 1)
    BY <1>0
  <2> QED
    BY <1>0, <1>5, <2>1
<1>7. F \in [S -> V]
  BY <1>0, <1>6
<1>8. ASSUME NEW x \in S, NEW y \in S, m[y] < m[x] PROVE s(x)[y] = F[y]
  <2>1. y \in Upto(m[x] + 1) /\ y \in Upto(m[y] + 1)
    BY <1>0, <1>8
  <2>2. m[x] + 1 \in Nat /\ m[y] + 1 \in Nat /\ Solves(s(x), m[x] + 1) /\ Solves(s(y), m[y] + 1)
    BY <1>0, <1>6
  <2> HIDE DEF Solves, s, Upto
  <2>3. s(x)[y] = s(y)[y]
    BY <1>0, <1>1, <2>1, <2>2
  <2> QED
    BY <1>0, <2>3
<1>9. ASSUME NEW x \in S PROVE F[x] = G[x][F]
  <2>1. s(x) \in [S -> V] /\ s(x)[x] = G[x][s(x)]
    BY <1>0, <1>6
  <2>2. F[x] = s(x)[x]
    BY <1>0
  <2> HIDE DEF F, s
  <2> QED
    BY <1>0, <1>7, <1>8, <2>1, <2>2
<1> HIDE DEF F
<1> QED
  BY <1>0, <1>7, <1>9
=============================================================================
