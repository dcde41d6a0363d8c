---------------------------- MODULE IntakeProofs ----------------------------
(***************************************************************************)
(* Proofs about what happens to the bytes of browsers (recv_BROW of        *)
(* src/http_parser.c with all it calls): for any number of connections,    *)
(* any streams of requests, any segments and any size of rbuf.             *)
(***************************************************************************)
EXTENDS RequestProofs, FiniteSetTheorems, SequenceTheorems

(***************************************************************************)
(* The search for a CRLFCRLF.                                              *)
(***************************************************************************)

\* E are the offsets from p on at which a CRLFCRLF ends that strstr finds.
IsEnds(s, p, E) ==
  /\ E \subseteq p .. Len(s)
  /\ \A i \in p .. Len(s) :
       i \in E <=> /\ i >= p + 2 /\ s[i] = CRLF /\ s[i - 1] = CRLF
                   /\ i - 1 \notin E

LEMMA EndsEquation ==
  ASSUME NEW s, Len(s) \in Nat, NEW p \in Nat
  PROVE  IsEnds(s, p, CRLF2Ends(s, p))
<1> DEFINE S == p .. Len(s)
           m == [i \in S |-> i]
           Ends(f) == f = [i \in S |-> i >= p + 2 /\ s[i] = CRLF /\ s[i - 1] = CRLF /\ ~f[i - 1]]
           G == [i \in S |-> [f \in [S -> BOOLEAN] |->
                   i >= p + 2 /\ s[i] = CRLF /\ s[i - 1] = CRLF /\ ~f[i - 1]]]
           ends == CHOOSE f : Ends(f)
<1>1. Recursive(S, m, BOOLEAN, G)
  <2>1. m \in [S -> Nat]
    OBVIOUS
  <2>2. \A i \in S : \A h \in [S -> BOOLEAN] : G[i][h] \in BOOLEAN
    OBVIOUS
  <2>3. ASSUME NEW i \in S, NEW g \in [S -> BOOLEAN], NEW h \in [S -> BOOLEAN],
               \A j \in S : m[j] < m[i] => g[j] = h[j]
        PROVE  G[i][g] = G[i][h]
    <3>1. i >= p + 2 => g[i - 1] = h[i - 1]
      <4>1. i >= p + 2 => i - 1 \in S /\ m[i - 1] < m[i]
        OBVIOUS
      <4> QED
        BY <2>3, <4>1
    <3> QED
      BY <3>1
  <2> HIDE DEF G, m
  <2> QED
    BY <2>1, <2>2, <2>3 DEF Recursive
<1>2. PICK f \in [S -> BOOLEAN] : \A i \in S : f[i] = G[i][f]
  <2> HIDE DEF G, m, S
  <2> QED
    BY <1>1, RecursionExists
<1>3. Ends(f)
  <2>1. \A i \in S : f[i] = (i >= p + 2 /\ s[i] = CRLF /\ s[i - 1] = CRLF /\ ~f[i - 1])
    BY <1>2
  <2> QED
    BY <2>1
<1>4. Ends(ends)
  <2> HIDE DEF Ends
  <2> QED
    BY <1>3
<1>5. CRLF2Ends(s, p) = {i \in S : ends[i]}
  BY DEF CRLF2Ends
<1>6. \A i \in S : ends[i] <=> i >= p + 2 /\ s[i] = CRLF /\ s[i - 1] = CRLF /\ ~ends[i - 1]
  <2> HIDE DEF ends
  <2> QED
    BY <1>4
<1> HIDE DEF ends
<1>7. \A i \in S : i >= p + 2 => i - 1 \in S
  OBVIOUS
<1> QED
  BY <1>5, <1>6, <1>7 DEF IsEnds

\* They are the only ones: two such sets would differ at a least offset first.
LEMMA EndsUnique ==
  ASSUME NEW s, Len(s) \in Nat, NEW p \in Nat, NEW E, IsEnds(s, p, E)
  PROVE  E = CRLF2Ends(s, p)
<1> DEFINE F == CRLF2Ends(s, p)
           T == {i \in p .. Len(s) : ~(i \in E <=> i \in F)}
<1>1. IsEnds(s, p, F)
  BY EndsEquation
<1> HIDE DEF F
<1>2. ASSUME T # {} PROVE FALSE
  <2>1. T \subseteq Nat
    OBVIOUS
  <2>2. PICK i \in T : \A j \in T : i <= j
    BY <1>2, <2>1, LeastOne
  <2>3. i >= p + 2 => i - 1 \in p .. Len(s) /\ i - 1 \notin T
    BY <2>2
  <2>4. i \in E <=> i \in F
    BY <1>1, <2>2, <2>3 DEF IsEnds
  <2> QED
    BY <2>2, <2>4
<1> QED
  BY <1>1, <1>2 DEF IsEnds, F

\* What is received later does not change where requests end before it.
LEMMA EndsOfPart ==
  ASSUME NEW s, Len(s) \in Nat, NEW u, Len(u) \in Nat, Len(u) <= Len(s),
         \A i \in 1 .. Len(u) : u[i] = s[i], NEW p \in Nat
  PROVE  CRLF2Ends(u, p) = {i \in CRLF2Ends(s, p) : i <= Len(u)}
<1> DEFINE E == CRLF2Ends(s, p)
           F == {i \in E : i <= Len(u)}
<1>1. IsEnds(s, p, E)
  BY EndsEquation
<1> HIDE DEF E
<1>2. IsEnds(u, p, F)
  <2>1. E \subseteq p .. Len(s) /\ F \subseteq E
    BY <1>1 DEF IsEnds
  <2>2. F \subseteq p .. Len(u)
    <3> SUFFICES ASSUME NEW i \in F PROVE i \in p .. Len(u)
      OBVIOUS
    <3> QED
      BY <2>1
  <2>3. ASSUME NEW i \in p .. Len(u)
        PROVE  i \in F <=> i >= p + 2 /\ u[i] = CRLF /\ u[i - 1] = CRLF /\ i - 1 \notin F
    <3>1. i \in p .. Len(s) /\ (i \in E <=> i \in F) /\ (i - 1 \in E <=> i - 1 \in F)
      BY <2>3
    <3>2. i >= p + 2 => u[i] = s[i] /\ u[i - 1] = s[i - 1]
      BY <2>3
    <3> HIDE DEF F
    <3> QED
      BY <1>1, <3>1, <3>2 DEF IsEnds
  <2> HIDE DEF F
  <2> QED
    BY <2>2, <2>3 DEF IsEnds
<1> HIDE DEF F
<1>3. F = CRLF2Ends(u, p)
  BY <1>2, EndsUnique
<1> QED
  BY <1>3 DEF E, F

\* Where the search has got to, it may stop and go on.
LEMMA EndsBehind ==
  ASSUME NEW s, Len(s) \in Nat, NEW p \in Nat, NEW e \in CRLF2Ends(s, p) \cup {p}
  PROVE  CRLF2Ends(s, e) = {i \in CRLF2Ends(s, p) : i > e}
<1> DEFINE E == CRLF2Ends(s, p)
           F == {i \in E : i > e}
<1>1. IsEnds(s, p, E)
  BY EndsEquation
<1> HIDE DEF E
<1>2. e \in Nat /\ e >= p /\ E \subseteq Nat
  BY <1>1 DEF IsEnds, E
<1>3. IsEnds(s, e, F)
  <2>1. ASSUME NEW i \in e .. Len(s)
        PROVE  i \in F <=> /\ i >= e + 2 /\ s[i] = CRLF /\ s[i - 1] = CRLF
                           /\ i - 1 \notin F
    <3>1. i \in p .. Len(s) /\ (i = e + 1 => i - 1 = e) /\ i \in Nat
      BY <1>2
    <3>2. i \in E <=> /\ i >= p + 2 /\ s[i] = CRLF /\ s[i - 1] = CRLF /\ i - 1 \notin E
      BY <1>1, <3>1 DEF IsEnds
    <3>3. CASE i = e
      BY <1>2, <3>3
    <3>4. CASE i = e + 1
      <4>1. e \in E \/ e = p
        BY DEF E
      <4>2. i \notin E
        BY <1>2, <3>2, <3>4, <4>1
      <4> QED
        BY <1>2, <3>4, <4>2
    <3>5. CASE i >= e + 2
      <4>1. i - 1 > e /\ i >= p + 2 /\ i > e
        BY <1>2, <3>5
      <4> QED
        BY <3>2, <3>5, <4>1
    <3> QED
      BY <1>2, <3>1, <3>3, <3>4, <3>5
  <2>2. F \subseteq e .. Len(s)
    <3>1. E \subseteq p .. Len(s)
      BY <1>1 DEF IsEnds
    <3> SUFFICES ASSUME NEW i \in F PROVE i \in e .. Len(s)
      OBVIOUS
    <3> QED
      BY <1>2, <3>1
  <2> QED
    BY <2>1, <2>2 DEF IsEnds
<1> HIDE DEF F
<1>4. F = CRLF2Ends(s, e)
  BY <1>2, <1>3, EndsUnique
<1> QED
  BY <1>4 DEF E, F

\* Of no text, and as a set.
LEMMA EndsFinite ==
  ASSUME NEW s, Len(s) \in Nat, NEW p \in Nat
  PROVE  /\ CRLF2Ends(s, p) \subseteq p + 2 .. Len(s)
         /\ IsFiniteSet(CRLF2Ends(s, p))
         /\ Cardinality(CRLF2Ends(s, p)) \in 0 .. Len(s)
<1> DEFINE E == CRLF2Ends(s, p)
<1>1. IsEnds(s, p, E)
  BY EndsEquation
<1> HIDE DEF E
<1>2. E \subseteq p + 2 .. Len(s) /\ E \subseteq 1 .. Len(s)
  BY <1>1 DEF IsEnds
<1>3. IsFiniteSet(1 .. Len(s)) /\ Cardinality(1 .. Len(s)) = Len(s)
  <2>1. 0 \in Int /\ 1 \in Int /\ Len(s) \in Int /\ (1 <= Len(s) <=> Len(s) # 0)
    OBVIOUS
  <2>2. /\ IsFiniteSet(1 .. Len(s))
        /\ Cardinality(1 .. Len(s)) = IF 1 > Len(s) THEN 0 ELSE Len(s) - 1 + 1
    BY <2>1, FS_Interval
  <2> QED
    BY <2>2
<1>4. IsFiniteSet(E) /\ Cardinality(E) <= Len(s) /\ Cardinality(E) \in Nat
  BY <1>2, <1>3, FS_Subset, FS_CardinalityType
<1> QED
  BY <1>2, <1>4 DEF E

(***************************************************************************)
(* The i-th of a set of numbers.                                           *)
(***************************************************************************)

Rank(E, e) == Cardinality({j \in E : j <= e})

LEMMA RankType ==
  ASSUME NEW E, E \subseteq Nat, IsFiniteSet(E)
  PROVE  /\ \A e \in E : Rank(E, e) \in 1 .. Cardinality(E)
         /\ \A e, f \in E : e < f => Rank(E, e) < Rank(E, f)
         /\ Cardinality(E) \in Nat
<1> DEFINE B(e) == {j \in E : j <= e}
<1>1. \A e \in E : /\ IsFiniteSet(B(e)) /\ Cardinality(B(e)) \in Nat
                   /\ Cardinality(B(e)) <= Cardinality(E)
                   /\ Cardinality(E) \in Nat
  BY FS_Subset, FS_CardinalityType
<1>2. ASSUME NEW e \in E, NEW f \in E, e < f PROVE Cardinality(B(e)) < Cardinality(B(f))
  <2>1. B(e) \subseteq B(f) /\ B(e) # B(f)
    <3>1. f \in B(f) /\ f \notin B(e)
      BY <1>2
    <3>2. e \in Nat /\ f \in Nat /\ \A j \in E : j \in Nat
      OBVIOUS
    <3>3. \A j \in E : j <= e => j <= f
      BY <1>2, <3>2
    <3>4. B(e) \subseteq B(f)
      BY <3>3
    <3> QED
      BY <3>1, <3>4
  <2> HIDE DEF B
  <2> QED
    BY <1>1, <2>1, FS_Subset
<1>3. \A e \in E : Cardinality(B(e)) # 0
  <2>1. \A e \in E : e \in B(e)
    OBVIOUS
  <2> HIDE DEF B
  <2> QED
    BY <1>1, <2>1, FS_EmptySet
<1>4. Cardinality(E) \in Nat
  BY FS_CardinalityType
<1> HIDE DEF B
<1>5. \A e \in E : Cardinality(B(e)) \in 1 .. Cardinality(E)
  BY <1>1, <1>3
<1> QED
  BY <1>2, <1>4, <1>5 DEF B, Rank

\* There is one of each rank: ranks are as many as the numbers.
LEMMA RankExists ==
  ASSUME NEW E, E \subseteq Nat, IsFiniteSet(E), NEW i \in 1 .. Cardinality(E)
  PROVE  \E e \in E : Rank(E, e) = i
<1> DEFINE f == [e \in E |-> Rank(E, e)]
           n == Cardinality(E)
<1>1. /\ \A e \in E : Rank(E, e) \in 1 .. n
      /\ \A e, g \in E : e < g => Rank(E, e) < Rank(E, g)
      /\ n \in Nat
  BY RankType
<1>2. f \in Injection(E, 1 .. n)
  <2>1. f \in [E -> 1 .. n]
    BY <1>1
  <2>2. \A e, g \in E : f[e] = f[g] => e = g
    <3> SUFFICES ASSUME NEW e \in E, NEW g \in E, e # g PROVE f[e] # f[g]
      OBVIOUS
    <3>1. e < g \/ g < e
      OBVIOUS
    <3>2. Rank(E, e) \in Nat /\ Rank(E, g) \in Nat
      BY <1>1
    <3> QED
      BY <1>1, <3>1, <3>2
  <2> QED
    BY <2>1, <2>2 DEF Injection, IsInjective
<1>3. IsFiniteSet(1 .. n) /\ Cardinality(1 .. n) = n
  BY <1>1, FS_Interval
<1> HIDE DEF f
<1>4. f \in Surjection(E, 1 .. n)
  BY <1>2, <1>3, FS_Injection
<1>5. \E e \in E : f[e] = i
  BY <1>4 DEF Surjection
<1> QED
  BY <1>5 DEF f

\* Ends of requests behind rbuf_head, and where the i-th is.
Ends(b) == CRLF2Ends(b.rbuf, b.rbuf_head)

HasText(b) == Len(b.rbuf) \in Nat /\ b.rbuf_head \in Nat

LEMMA ReqEndRank ==
  ASSUME NEW b, HasText(b)
  PROVE  /\ Ends(b) \subseteq Nat /\ IsFiniteSet(Ends(b)) /\ Cardinality(Ends(b)) \in Nat
         /\ ReqEnd(b, 0) = b.rbuf_head
         /\ \A e \in Ends(b) : e > b.rbuf_head /\ Rank(Ends(b), e) \in 1 .. Cardinality(Ends(b))
         /\ \A i \in 1 .. Cardinality(Ends(b)) :
              ReqEnd(b, i) \in Ends(b) /\ Rank(Ends(b), ReqEnd(b, i)) = i
         /\ \A i, j \in 0 .. Cardinality(Ends(b)) :
              i < j => ReqEnd(b, i) < ReqEnd(b, j)
<1> DEFINE E == Ends(b)
<1>1. /\ E \subseteq Nat /\ IsFiniteSet(E) /\ Cardinality(E) \in Nat
      /\ \A e \in E : e > b.rbuf_head
  <2>1. /\ E \subseteq b.rbuf_head + 2 .. Len(b.rbuf)
        /\ IsFiniteSet(E) /\ Cardinality(E) \in 0 .. Len(b.rbuf)
    BY EndsFinite DEF HasText, Ends
  <2> HIDE DEF E
  <2> QED
    BY <2>1 DEF HasText
<1>2. /\ \A e \in E : Rank(E, e) \in 1 .. Cardinality(E)
      /\ \A e, f \in E : e < f => Rank(E, e) < Rank(E, f)
  <2> HIDE DEF E
  <2> QED
    BY <1>1, RankType
<1>3. ReqEnd(b, 0) = b.rbuf_head
  BY DEF ReqEnd
<1>4. ASSUME NEW i \in 1 .. Cardinality(E)
      PROVE  ReqEnd(b, i) \in E /\ Rank(E, ReqEnd(b, i)) = i
  <2>1. i # 0
    BY <1>1
  <2>2. ReqEnd(b, i) = CHOOSE e \in E : Rank(E, e) = i
    BY <2>1 DEF ReqEnd, Rank, Ends
  <2> HIDE DEF E
  <2>3. \E e \in E : Rank(E, e) = i
    BY <1>1, RankExists
  <2> QED
    BY <2>2, <2>3
<1>5. ASSUME NEW i \in 0 .. Cardinality(E), NEW j \in 0 .. Cardinality(E), i < j
      PROVE  ReqEnd(b, i) < ReqEnd(b, j)
  <2> HIDE DEF E
  <2>1. j \in 1 .. Cardinality(E)
    BY <1>1, <1>5
  <2>2. CASE i = 0
    BY <1>1, <1>3, <1>4, <2>1, <2>2
  <2>3. CASE i # 0
    <3>1. i \in 1 .. Cardinality(E)
      BY <2>3
    <3> DEFINE x == ReqEnd(b, i)
               y == ReqEnd(b, j)
    <3>2. x \in E /\ y \in E /\ Rank(E, x) = i /\ Rank(E, y) = j
      BY <1>4, <2>1, <3>1
    <3> HIDE DEF x, y
    <3>3. x \in Nat /\ y \in Nat /\ i \in Nat /\ j \in Nat
      BY <1>1, <3>2
    <3>4. x # y /\ ~(y < x)
      BY <1>2, <1>5, <3>2, <3>3
    <3>5. x < y
      BY <3>3, <3>4
    <3> QED
      BY <3>5 DEF x, y
  <2> QED
    BY <2>2, <2>3
<1> QED
  BY <1>1, <1>2, <1>3, <1>4, <1>5

\* The next end behind the i-th is the one of number i + 1.
LEMMA NextReqEnd ==
  ASSUME NEW b, HasText(b), NEW i \in 0 .. Cardinality(Ends(b)),
         NEW x \in Ends(b), x > ReqEnd(b, i),
         \A y \in Ends(b) : y > ReqEnd(b, i) => y >= x
  PROVE  i + 1 \in 1 .. Cardinality(Ends(b)) /\ ReqEnd(b, i + 1) = x
<1> DEFINE E == Ends(b)
           n == Cardinality(E)
           k == Rank(E, x)
<1>1. /\ E \subseteq Nat /\ IsFiniteSet(E) /\ n \in Nat
      /\ \A e \in E : Rank(E, e) \in 1 .. n
      /\ \A j \in 1 .. n : ReqEnd(b, j) \in E /\ Rank(E, ReqEnd(b, j)) = j
      /\ \A g, h \in 0 .. n : g < h => ReqEnd(b, g) < ReqEnd(b, h)
      /\ ReqEnd(b, 0) = b.rbuf_head
  BY ReqEndRank
<1>2. \A e, f \in E : e < f => Rank(E, e) < Rank(E, f)
  <2> HIDE DEF E
  <2> QED
    BY <1>1, RankType
<1>3. ReqEnd(b, k) = x /\ k \in 1 .. n
  <2>1. k \in 1 .. n
    BY <1>1
  <2>2. ReqEnd(b, k) \in E /\ Rank(E, ReqEnd(b, k)) = k
    BY <1>1, <2>1
  <2> DEFINE y == ReqEnd(b, k)
  <2> HIDE DEF y, E
  <2>3. y \in Nat /\ x \in Nat /\ k \in Nat /\ n \in Nat
    BY <1>1, <2>1, <2>2 DEF y, E
  <2>4. ~(x < y) /\ ~(y < x)
    BY <1>2, <2>1, <2>2, <2>3 DEF y, E
  <2> QED
    BY <2>1, <2>3, <2>4 DEF y
<1> HIDE DEF k
<1>4. i < k
  <2>1. CASE i = 0
    BY <1>1, <1>3, <2>1
  <2>2. CASE i > 0
    <3>1. i \in 1 .. n /\ ReqEnd(b, i) \in E
      BY <1>1, <2>2
    <3>2. ~(k < i) /\ k # i
      <4>1. k < i => ReqEnd(b, k) < ReqEnd(b, i)
        BY <1>1, <1>3, <3>1
      <4>2. ReqEnd(b, i) \in Nat /\ x \in Nat
        BY <1>1, <3>1
      <4> QED
        BY <1>3, <4>1, <4>2
    <3> QED
      BY <1>1, <1>3, <3>1, <3>2
  <2> QED
    BY <1>1, <2>1, <2>2
<1>5. ~(i + 1 < k)
  <2> SUFFICES ASSUME i + 1 < k PROVE FALSE
    OBVIOUS
  <2>1. i + 1 \in 1 .. n /\ i + 1 \in 0 .. n /\ i \in 0 .. n /\ k \in 0 .. n /\ i < i + 1
    BY <1>1, <1>3
  <2>2. ReqEnd(b, i + 1) \in E /\ ReqEnd(b, i) < ReqEnd(b, i + 1) /\ ReqEnd(b, i + 1) < x
    BY <1>1, <1>3, <2>1
  <2>3. ReqEnd(b, i + 1) \in Nat /\ x \in Nat
    BY <1>1, <2>2
  <2>4. ReqEnd(b, i) \in Nat
    BY <1>1, <2>1 DEF HasText
  <2> QED
    BY <2>2, <2>3, <2>4
<1>6. i + 1 = k
  BY <1>1, <1>3, <1>4, <1>5
<1> QED
  BY <1>3, <1>6

\* Behind the last end there is no other.
LEMMA NoReqEnd ==
  ASSUME NEW b, HasText(b), NEW i \in 0 .. Cardinality(Ends(b)),
         \A y \in Ends(b) : ~(y > ReqEnd(b, i))
  PROVE  i = Cardinality(Ends(b))
<1> DEFINE n == Cardinality(Ends(b))
<1>1. /\ n \in Nat
      /\ \A j \in 1 .. n : ReqEnd(b, j) \in Ends(b)
      /\ \A g, h \in 0 .. n : g < h => ReqEnd(b, g) < ReqEnd(b, h)
      /\ Ends(b) \subseteq Nat /\ ReqEnd(b, 0) = b.rbuf_head
  BY ReqEndRank
<1>2. SUFFICES ASSUME i # n PROVE FALSE
  OBVIOUS
<1>3. i + 1 \in 1 .. n /\ i + 1 \in 0 .. n /\ i < i + 1
  BY <1>1, <1>2
<1>4. ReqEnd(b, i + 1) \in Ends(b) /\ ReqEnd(b, i) < ReqEnd(b, i + 1)
  BY <1>1, <1>3
<1>5. ReqEnd(b, i + 1) \in Nat /\ ReqEnd(b, i) \in Nat
  BY <1>1, <1>3 DEF HasText
<1> QED
  BY <1>4, <1>5

(***************************************************************************)
(* Text.                                                                   *)
(***************************************************************************)

LEMMA Appended ==
  ASSUME NEW T, NEW a \in Seq(T), NEW b \in Seq(T)
  PROVE  /\ a \o b \in Seq(T) /\ Len(a \o b) = Len(a) + Len(b)
         /\ Len(a) \in Nat /\ Len(b) \in Nat
         /\ \A k \in 1 .. Len(a) : (a \o b)[k] = a[k]
         /\ \A k \in 1 .. Len(b) : (a \o b)[Len(a) + k] = b[k]
  OBVIOUS

\* FlattenSeq appends one sequence after the other.
LEMMA FlattenIs ==
  ASSUME NEW T, NEW ss \in Seq(Seq(T)), Len(ss) # 0
  PROVE  \E F \in [1 .. Len(ss) -> Seq(T)] :
           /\ F[1] = ss[1]
           /\ \A i \in 2 .. Len(ss) : F[i] = F[i - 1] \o ss[i]
           /\ FlattenSeq(ss) = F[Len(ss)]
<1> DEFINE S == 1 .. Len(ss)
           V == Seq(T)
           m == [i \in S |-> i]
           Flat(f) == f = [i \in S |-> IF i = 1 THEN ss[i] ELSE f[i - 1] \o ss[i]]
           G == [i \in S |-> [f \in [S -> V] |-> IF i = 1 THEN ss[i] ELSE f[i - 1] \o ss[i]]]
           flatten == CHOOSE f : Flat(f)
<1>1. Recursive(S, m, V, G)
  <2>1. m \in [S -> Nat] /\ V # {}
    <3>1. <<>> \in V
      OBVIOUS
    <3> QED
      BY <3>1
  <2>2. \A i \in S : \A h \in [S -> V] : G[i][h] \in V
    <3> SUFFICES ASSUME NEW i \in S, NEW h \in [S -> V] PROVE G[i][h] \in V
      OBVIOUS
    <3>1. ss[i] \in V /\ (i # 1 => i - 1 \in S)
      OBVIOUS
    <3>4. i # 1 => h[i - 1] \in V
      BY <3>1
    <3>2. G[i][h] = IF i = 1 THEN ss[i] ELSE h[i - 1] \o ss[i]
      OBVIOUS
    <3> HIDE DEF G
    <3> QED
      BY <3>1, <3>2, <3>4
  <2>3. ASSUME NEW i \in S, NEW g \in [S -> V], NEW h \in [S -> V],
               \A j \in S : m[j] < m[i] => g[j] = h[j]
        PROVE  G[i][g] = G[i][h]
    <3>1. i # 1 => i - 1 \in S /\ m[i - 1] < m[i]
      OBVIOUS
    <3>2. i # 1 => g[i - 1] = h[i - 1]
      BY <2>3, <3>1
    <3> QED
      BY <3>2
  <2> HIDE DEF G, m, V
  <2> QED
    BY <2>1, <2>2, <2>3 DEF Recursive
<1>2. PICK f \in [S -> V] : \A i \in S : f[i] = G[i][f]
  <2> HIDE DEF G, m, S, V
  <2> QED
    BY <1>1, RecursionExists
<1>3. Flat(f)
  <2>1. \A i \in S : f[i] = IF i = 1 THEN ss[i] ELSE f[i - 1] \o ss[i]
    BY <1>2
  <2> QED
    BY <2>1
<1>4. Flat(flatten)
  <2> HIDE DEF Flat
  <2> QED
    BY <1>3
<1>5. FlattenSeq(ss) = flatten[Len(ss)]
  BY DEF FlattenSeq
<1> HIDE DEF flatten
<1> DEFINE P == {n \in Nat : n + 1 \in S => flatten[n + 1] \in V}
<1>6. \A i \in S : flatten[i] = IF i = 1 THEN ss[i] ELSE flatten[i - 1] \o ss[i]
  BY <1>4
<1>7. Nat \subseteq P
  <2>1. 0 \in P
    BY <1>6
  <2>2. ASSUME NEW n \in Nat, n \in P PROVE n + 1 \in P
    <3> SUFFICES ASSUME (n + 1) + 1 \in S PROVE flatten[(n + 1) + 1] \in V
      OBVIOUS
    <3>1. n + 1 \in S /\ (n + 1) + 1 # 1 /\ ((n + 1) + 1) - 1 = n + 1
      OBVIOUS
    <3>2. flatten[(n + 1) + 1] = flatten[n + 1] \o ss[(n + 1) + 1]
      BY <1>6, <3>1
    <3>3. flatten[n + 1] \in V /\ ss[(n + 1) + 1] \in V
      BY <2>2, <3>1
    <3> QED
      BY <3>2, <3>3
  <2> HIDE DEF P
  <2> QED
    BY <2>1, <2>2, Induction
<1>8. \A i \in S : flatten[i] \in V
  <2> SUFFICES ASSUME NEW i \in S PROVE flatten[i] \in V
    OBVIOUS
  <2>1. i - 1 \in Nat /\ (i - 1) + 1 = i
    OBVIOUS
  <2> QED
    BY <1>7, <2>1
<1>9. flatten \in [S -> V]
  BY <1>4, <1>8
<1> HIDE DEF Flat
<1>10. flatten[1] = ss[1] /\ \A i \in 2 .. Len(ss) : flatten[i] = flatten[i - 1] \o ss[i]
  <2>1. 1 \in S /\ \A i \in 2 .. Len(ss) : i \in S /\ i # 1
    OBVIOUS
  <2> HIDE DEF S
  <2> QED
    BY <1>6, <2>1
<1> QED
  BY <1>5, <1>9, <1>10

\* Each of the sequences is found at its offset.
PartsAt(ss, t, O) ==
  /\ O \in [0 .. Len(ss) -> Nat]
  /\ O[0] = 0 /\ O[Len(ss)] = Len(t)
  /\ \A i \in 1 .. Len(ss) :
       /\ O[i] = O[i - 1] + Len(ss[i])
       /\ \A k \in 1 .. Len(ss[i]) : t[O[i - 1] + k] = ss[i][k]

LEMMA FlattenParts ==
  ASSUME NEW T, NEW ss \in Seq(Seq(T)), Len(ss) # 0
  PROVE  /\ FlattenSeq(ss) \in Seq(T)
         /\ \E O : PartsAt(ss, FlattenSeq(ss), O)
<1> DEFINE L == Len(ss)
<1>1. PICK F \in [1 .. L -> Seq(T)] :
           /\ F[1] = ss[1]
           /\ \A i \in 2 .. L : F[i] = F[i - 1] \o ss[i]
           /\ FlattenSeq(ss) = F[L]
  BY FlattenIs
<1>2. L \in Nat \ {0} /\ \A i \in 1 .. L : ss[i] \in Seq(T)
  OBVIOUS
<1> DEFINE O == [i \in 0 .. L |-> IF i = 0 THEN 0 ELSE Len(F[i])]
           Has(n, i) == \A k \in 1 .. Len(ss[i]) : F[n][O[i - 1] + k] = ss[i][k]
           P == {n \in Nat : n + 1 \in 1 .. L =>
                   \A i \in 1 .. n + 1 : Has(n + 1, i)}
<1> HIDE DEF L
<1>3. /\ O \in [0 .. L -> Nat] /\ O[0] = 0 /\ O[L] = Len(F[L])
      /\ \A i \in 1 .. L : O[i] = Len(F[i])
  BY <1>1, <1>2
<1> HIDE DEF O
<1>9. \A i \in 1 .. L : /\ F[i] \in Seq(T) /\ Len(F[i]) \in Nat /\ Len(ss[i]) \in Nat
                        /\ O[i] \in Nat /\ O[i - 1] \in Nat
  BY <1>1, <1>2, <1>3
<1>4. \A i \in 1 .. L : O[i] = O[i - 1] + Len(ss[i])
  <2> SUFFICES ASSUME NEW i \in 1 .. L PROVE O[i] = O[i - 1] + Len(ss[i])
    OBVIOUS
  <2>1. CASE i = 1
    BY <1>1, <1>2, <1>3, <2>1
  <2>2. CASE i # 1
    <3>0. i \in 2 .. L /\ i - 1 \in 1 .. L
      BY <1>2, <2>2
    <3>1. F[i] = F[i - 1] \o ss[i] /\ F[i - 1] \in Seq(T) /\ ss[i] \in Seq(T)
      BY <1>1, <1>2, <3>0
    <3>2. Len(F[i]) = Len(F[i - 1]) + Len(ss[i])
      BY <3>1
    <3> QED
      BY <1>3, <3>0, <3>2
  <2> QED
    BY <2>1, <2>2
<1>5. Nat \subseteq P
  <2>1. 0 \in P
    BY <1>1, <1>2, <1>3
  <2>2. ASSUME NEW n \in Nat, n \in P PROVE n + 1 \in P
    <3> DEFINE j == (n + 1) + 1
    <3>0. SUFFICES ASSUME j \in 1 .. L PROVE \A i \in 1 .. j : Has(j, i)
      OBVIOUS
    <3> SUFFICES ASSUME NEW i \in 1 .. j, NEW k \in 1 .. Len(ss[i])
                 PROVE  F[j][O[i - 1] + k] = ss[i][k]
      OBVIOUS
    <3>1. /\ n + 1 \in 1 .. L /\ j \in 2 .. L /\ j - 1 = n + 1
          /\ i \in 1 .. L /\ i - 1 \in 0 .. L /\ i - 1 \in 0 .. n + 1
      BY <1>2, <3>0
    <3>2. F[j] = F[n + 1] \o ss[j] /\ F[n + 1] \in Seq(T) /\ ss[j] \in Seq(T)
      <4>1. F[j] = F[j - 1] \o ss[j]
        BY <1>1, <3>1
      <4>2. j \in 1 .. L
        BY <3>0
      <4> HIDE DEF j
      <4> QED
        BY <1>9, <1>2, <3>1, <4>1, <4>2
    <3>3. O[n + 1] = Len(F[n + 1]) /\ O[i - 1] \in Nat /\ Len(ss[i]) \in Nat
      BY <1>2, <1>3, <3>1
    <3>4. CASE i = j
      <4>1. i - 1 = n + 1 /\ k \in Nat /\ k >= 1
        BY <3>1, <3>3, <3>4
      <4>2. O[i - 1] = Len(F[n + 1])
        BY <3>3, <4>1
      <4>3. (F[n + 1] \o ss[j])[Len(F[n + 1]) + k] = ss[j][k]
        <5>1. k \in 1 .. Len(ss[j])
          BY <3>4
        <5> HIDE DEF j
        <5> DEFINE a == F[n + 1]
                   b == ss[j]
        <5>2. a \in Seq(T) /\ b \in Seq(T)
          BY <3>2
        <5> HIDE DEF a, b
        <5>3. \A q \in 1 .. Len(b) : (a \o b)[Len(a) + q] = b[q]
          BY <5>2, Appended
        <5> QED
          BY <5>1, <5>3 DEF a, b
      <4> QED
        BY <3>2, <3>4, <4>2, <4>3
    <3>5. CASE i # j
      <4>1. i \in 1 .. n + 1
        BY <3>5
      <4>2. F[n + 1][O[i - 1] + k] = ss[i][k]
        BY <2>2, <3>1, <4>1
      <4>3. O[i - 1] + k \in 1 .. Len(F[n + 1])
        <5>1. O[i] = O[i - 1] + Len(ss[i]) /\ O[i] \in Nat
          BY <1>4, <1>9, <3>1
        <5>2. O[i] <= O[n + 1]
          <6> DEFINE Q == {d \in Nat : i + d \in 0 .. L => O[i] <= O[i + d]}
          <6>1. 0 \in Q
            BY <5>1
          <6>2. ASSUME NEW d \in Nat, d \in Q PROVE d + 1 \in Q
            <7> SUFFICES ASSUME i + (d + 1) \in 0 .. L PROVE O[i] <= O[i + (d + 1)]
              OBVIOUS
            <7>1. i + d \in 0 .. L /\ i + (d + 1) \in 1 .. L /\ (i + (d + 1)) - 1 = i + d
              BY <1>2, <3>1
            <7>2. O[i + (d + 1)] = O[i + d] + Len(ss[i + (d + 1)])
              BY <1>4, <7>1
            <7>3. O[i] <= O[i + d]
              BY <6>2, <7>1
            <7>4. Len(ss[i + (d + 1)]) \in Nat /\ O[i + d] \in Nat /\ O[i] \in Nat
              <8>1. Len(ss[i + (d + 1)]) \in Nat
                BY <1>2, <1>3, <7>1
              <8>2. O[i + d] \in Nat
                BY <1>2, <1>3, <7>1
              <8> QED
                BY <5>1, <8>1, <8>2
            <7> HIDE DEF O
            <7> QED
              BY <7>2, <7>3, <7>4
          <6> HIDE DEF Q
          <6>3. Nat \subseteq Q
            BY <6>1, <6>2, Induction
          <6>4. (n + 1) - i \in Nat /\ i + ((n + 1) - i) = n + 1
            BY <4>1
          <6>5. (n + 1) - i \in Q
            BY <6>3, <6>4
          <6>6. n + 1 \in 0 .. L
            BY <3>1
          <6> QED
            BY <6>4, <6>5, <6>6 DEF Q
        <5>3. k \in 1 .. Len(ss[i]) /\ Len(ss[i]) \in Nat /\ O[i - 1] \in Nat
          BY <3>3
        <5>4. O[i - 1] + k \in 1 .. O[n + 1]
          <6>1. O[n + 1] \in Nat
            BY <1>9, <3>1
          <6>2. k \in Nat /\ k >= 1 /\ k <= Len(ss[i])
            BY <5>3
          <6>3. O[i - 1] + k <= O[i] /\ O[i - 1] + k >= 1 /\ O[i - 1] + k \in Nat
            <7>1. O[i - 1] \in Nat /\ O[i] = O[i - 1] + Len(ss[i]) /\ Len(ss[i]) \in Nat
              BY <5>1, <5>3
            <7> HIDE DEF O
            <7> QED
              BY <6>2, <7>1
          <6> QED
            BY <5>1, <5>2, <6>1, <6>3
        <5> QED
          BY <3>3, <5>4
      <4>4. (F[n + 1] \o ss[j])[O[i - 1] + k] = F[n + 1][O[i - 1] + k]
        <5> HIDE DEF j
        <5> QED
          BY <3>2, <4>3, Appended, ZenonT(60)
      <4> QED
        BY <3>2, <4>2, <4>4
    <3> QED
      BY <3>4, <3>5
  <2> HIDE DEF P
  <2> QED
    BY <2>1, <2>2, Induction
<1>6. \A i \in 1 .. L : Has(L, i)
  <2>1. L - 1 \in Nat /\ (L - 1) + 1 = L /\ L \in 1 .. L
    BY <1>2
  <2>2. L - 1 \in P
    BY <1>5, <2>1
  <2> HIDE DEF Has
  <2> QED
    BY <2>1, <2>2
<1>7. PartsAt(ss, F[L], O)
  <2> HIDE DEF O
  <2> QED
    BY <1>3, <1>4, <1>6 DEF PartsAt, L
<1>8. F[L] \in Seq(T)
  BY <1>2
<1> QED
  BY <1>1, <1>7, <1>8

\* How far the header of a request goes, its CRLFCRLF included.
Size(r) == IF HasHeaders(r) THEN 5 ELSE 3

LEMMA RequestIs ==
  ASSUME NEW r \in Request
  PROVE  /\ r.method \in {"GET", "POST"} /\ r.rate \in Nat /\ r.alive \in BOOLEAN
         /\ r.file \in {"page", "f4m", "nolist", "chunk", "seg"}
         /\ r.body \in Seq([t : {"crlf", "body"}]) /\ r.body \in Seq(Token)
         /\ r.cont_len = Len(r.body) /\ r.cont_len \in Nat
         /\ r.method = "GET" => r.body = <<>>
<1>1. /\ r.method \in {"GET", "POST"} /\ r.rate \in Nat /\ r.alive \in BOOLEAN
      /\ r.file \in {"page", "f4m", "nolist", "chunk", "seg"}
      /\ r.body \in Seq([t : {"crlf", "body"}])
      /\ r.cont_len = Len(r.body) /\ r.cont_len \in Nat
      /\ r.method = "GET" => r.body = <<>>
  BY DEF Request
<1>2. [t : {"crlf", "body"}] \subseteq Token
  BY DEF Token
<1>3. r.body \in Seq(Token)
  BY <1>1, <1>2, SeqMonotonic
<1> QED
  BY <1>1, <1>3

LEMMA TokensAre ==
  /\ CRLF \in Token /\ CRLF.t = "crlf"
  /\ \A r \in Request :
       /\ Line(r) \in Token /\ Line(r) # CRLF /\ Line(r).t = "line"
       /\ Line(r).method = r.method /\ Line(r).file = r.file /\ Line(r).rate = r.rate
       /\ Headers(r) \in Token /\ Headers(r) # CRLF /\ Headers(r).t = "headers"
       /\ Headers(r).cont_len = r.cont_len /\ Headers(r).alive = r.alive
       /\ \A k \in 1 .. Len(r.body) : r.body[k].t \in {"crlf", "body"}
<1>1. CRLF \in Token /\ CRLF.t = "crlf"
  BY DEF CRLF, Token
<1>2. ASSUME NEW r \in Request
      PROVE  /\ Line(r) \in Token /\ Line(r) # CRLF /\ Line(r).t = "line"
             /\ Line(r).method = r.method /\ Line(r).file = r.file /\ Line(r).rate = r.rate
  BY RequestIs DEF Line, CRLF, Token
<1>3. ASSUME NEW r \in Request
      PROVE  /\ Headers(r) \in Token /\ Headers(r) # CRLF /\ Headers(r).t = "headers"
             /\ Headers(r).cont_len = r.cont_len /\ Headers(r).alive = r.alive
  BY RequestIs DEF Headers, CRLF, Token
<1>4. ASSUME NEW r \in Request, NEW k \in 1 .. Len(r.body)
      PROVE  r.body[k].t \in {"crlf", "body"}
  <2>1. r.body \in Seq([t : {"crlf", "body"}])
    BY RequestIs
  <2>2. r.body[k] \in [t : {"crlf", "body"}]
    BY <2>1, ElementOfSeq
  <2> QED
    BY <2>2
<1> QED
  BY <1>1, <1>2, <1>3, <1>4

\* Short texts put together.
LEMMA Join2 ==
  ASSUME NEW T, NEW a \in T, NEW b \in T, NEW c \in T
  PROVE  <<a, b>> \o <<>> \o <<c>> = <<a, b, c>>
<1> DEFINE x == <<a, b>>
           y == <<c>>
           z == <<a, b, c>>
<1>1. x \in Seq(T) /\ y \in Seq(T) /\ z \in Seq(T)
  OBVIOUS
<1>2. /\ Len(x) = 2 /\ x[1] = a /\ x[2] = b
      /\ Len(y) = 1 /\ y[1] = c
      /\ Len(z) = 3 /\ z[1] = a /\ z[2] = b /\ z[3] = c
  OBVIOUS
<1> HIDE DEF x, y, z
<1>3. x \o <<>> = x
  BY <1>1, ConcatEmptySeq
<1>4. /\ x \o y \in Seq(T) /\ Len(x \o y) = Len(x) + Len(y)
      /\ \A k \in 1 .. Len(x) : (x \o y)[k] = x[k]
      /\ \A k \in 1 .. Len(y) : (x \o y)[Len(x) + k] = y[k]
  BY <1>1, Appended
<1>5. /\ Len(x \o y) = Len(z) /\ (x \o y)[1] = z[1] /\ (x \o y)[2] = z[2]
      /\ (x \o y)[3] = z[3]
  <2>1. Len(x \o y) = Len(z) /\ (x \o y)[1] = x[1] /\ (x \o y)[2] = x[2]
    BY <1>2, <1>4
  <2>2. (x \o y)[Len(x) + 1] = y[1]
    BY <1>2, <1>4
  <2> QED
    BY <1>2, <2>1, <2>2
<1>6. \A k \in 1 .. Len(x \o y) : (x \o y)[k] = z[k]
  BY <1>2, <1>5
<1>7. x \o y = z
  BY <1>1, <1>4, <1>5, <1>6, SeqEqual
<1> QED
  BY <1>3, <1>7 DEF x, y, z

LEMMA Join3 ==
  ASSUME NEW T, NEW a \in T, NEW b \in T, NEW c \in T, NEW d \in T, NEW e \in T
  PROVE  <<a, b>> \o <<c, d>> \o <<e>> = <<a, b, c, d, e>>
<1> DEFINE x == <<a, b>>
           y == <<c, d>>
           z == <<e>>
           w == <<a, b, c, d, e>>
           u == x \o y
<1>1. x \in Seq(T) /\ y \in Seq(T) /\ z \in Seq(T) /\ w \in Seq(T)
  OBVIOUS
<1>2. /\ Len(x) = 2 /\ x[1] = a /\ x[2] = b
      /\ Len(y) = 2 /\ y[1] = c /\ y[2] = d
      /\ Len(z) = 1 /\ z[1] = e
      /\ Len(w) = 5 /\ w[1] = a /\ w[2] = b /\ w[3] = c /\ w[4] = d /\ w[5] = e
  OBVIOUS
<1> HIDE DEF x, y, z, w
<1>4. /\ u \in Seq(T) /\ Len(u) = Len(x) + Len(y)
      /\ \A k \in 1 .. Len(x) : u[k] = x[k]
      /\ \A k \in 1 .. Len(y) : u[Len(x) + k] = y[k]
  BY <1>1, Appended
<1> HIDE DEF u
<1>5. Len(u) = 4 /\ u[1] = a /\ u[2] = b /\ u[3] = c /\ u[4] = d
  <2>1. Len(u) = 4 /\ u[1] = x[1] /\ u[2] = x[2]
    BY <1>2, <1>4
  <2>2. u[Len(x) + 1] = y[1] /\ u[Len(x) + 2] = y[2]
    BY <1>2, <1>4
  <2> QED
    BY <1>2, <2>1, <2>2
<1>6. u \in Seq(T)
  BY <1>4
<1> DEFINE v == u \o z
<1>7. /\ v \in Seq(T) /\ Len(v) = Len(u) + Len(z)
      /\ \A k \in 1 .. Len(u) : v[k] = u[k]
      /\ \A k \in 1 .. Len(z) : v[Len(u) + k] = z[k]
  BY <1>1, <1>6, Appended
<1> HIDE DEF v
<1>8. Len(v) = Len(w) /\ v[1] = w[1] /\ v[2] = w[2] /\ v[3] = w[3] /\ v[4] = w[4] /\ v[5] = w[5]
  <2>1. Len(v) = 5 /\ v[1] = u[1] /\ v[2] = u[2] /\ v[3] = u[3] /\ v[4] = u[4]
    BY <1>2, <1>5, <1>7
  <2>2. v[Len(u) + 1] = z[1]
    BY <1>2, <1>7
  <2> QED
    BY <1>2, <1>5, <2>1, <2>2
<1>9. \A k \in 1 .. Len(v) : v[k] = w[k]
  BY <1>2, <1>8
<1>10. v = w
  <2>1. v \in Seq(T) /\ Len(v) = Len(w)
    BY <1>7, <1>8
  <2> QED
    BY <1>1, <1>9, <2>1, SeqEqual
<1> QED
  BY <1>10 DEF x, y, z, w, u, v

\* The text of a request, token by token.
HeaderText(r) ==
  IF HasHeaders(r) THEN <<Line(r), CRLF, Headers(r), CRLF, CRLF>> ELSE <<Line(r), CRLF, CRLF>>

LEMMA TextIs ==
  ASSUME NEW r \in Request
  PROVE  /\ Text(r) \in Seq(Token) /\ Size(r) \in {3, 5}
         /\ Len(Text(r)) = Size(r) + Len(r.body) /\ Len(r.body) \in Nat
         /\ Text(r)[1] = Line(r) /\ Text(r)[2] = CRLF
         /\ IF HasHeaders(r)
            THEN Size(r) = 5 /\ Text(r)[3] = Headers(r) /\ Text(r)[4] = CRLF /\ Text(r)[5] = CRLF
            ELSE Size(r) = 3 /\ Text(r)[3] = CRLF
         /\ \A k \in 1 .. Len(r.body) : Text(r)[Size(r) + k] = r.body[k]
<1>1. CRLF \in Token /\ Line(r) \in Token /\ Headers(r) \in Token
  BY TokensAre
<1> DEFINE h == HeaderText(r)
           body == r.body
<1>2. body \in Seq(Token)
  BY RequestIs
<1>3. Text(r) = h \o body
  <2>1. <<Line(r), CRLF>> \o <<>> \o <<CRLF>> = <<Line(r), CRLF, CRLF>>
    BY <1>1, Join2
  <2>2. <<Line(r), CRLF>> \o <<Headers(r), CRLF>> \o <<CRLF>>
          = <<Line(r), CRLF, Headers(r), CRLF, CRLF>>
    BY <1>1, Join3
  <2> QED
    BY <2>1, <2>2 DEF Text, HeaderText
<1>4. /\ h[1] = Line(r) /\ h[2] = CRLF /\ Len(h) = Size(r)
      /\ IF HasHeaders(r)
         THEN Size(r) = 5 /\ h[3] = Headers(r) /\ h[4] = CRLF /\ h[5] = CRLF
         ELSE Size(r) = 3 /\ h[3] = CRLF
  BY DEF HeaderText, Size
<1>5. h \in Seq(Token)
  BY <1>1 DEF HeaderText
<1> HIDE DEF h, body
<1>6. /\ h \o body \in Seq(Token) /\ Len(h \o body) = Len(h) + Len(body) /\ Len(body) \in Nat
      /\ \A k \in 1 .. Len(h) : (h \o body)[k] = h[k]
      /\ \A k \in 1 .. Len(body) : (h \o body)[Len(h) + k] = body[k]
  BY <1>2, <1>5, Appended
<1>7. /\ Text(r)[1] = h[1] /\ Text(r)[2] = h[2] /\ Text(r)[3] = h[3]
      /\ HasHeaders(r) => Text(r)[4] = h[4] /\ Text(r)[5] = h[5]
  BY <1>3, <1>4, <1>6
<1> QED
  BY <1>3, <1>4, <1>6, <1>7 DEF body

\* The first CRLFCRLF behind the offset of a request is the end of its header.
LEMMA FirstEnd ==
  ASSUME NEW s, Len(s) \in Nat, NEW r \in Request, NEW o \in Nat,
         \A k \in 1 .. Size(r) : o + k <= Len(s) => s[o + k] = Text(r)[k]
  PROVE  /\ \A i \in CRLF2Ends(s, o) : i >= o + Size(r)
         /\ Len(s) >= o + Size(r) => o + Size(r) \in CRLF2Ends(s, o)
<1> DEFINE E == CRLF2Ends(s, o)
<1>1. IsEnds(s, o, E)
  BY EndsEquation
<1> HIDE DEF E
<1>2. Line(r) # CRLF /\ Headers(r) # CRLF
  BY TokensAre
<1>3. Text(r)[1] # CRLF /\ Text(r)[2] = CRLF
  BY <1>2, TextIs
<1>4. o \notin E /\ o + 1 \notin E
  BY <1>1 DEF IsEnds
<1>5. o + 2 \notin E
  <2>1. 1 \in 1 .. Size(r)
    BY TextIs
  <2>2. o + 1 <= Len(s) => s[o + 1] # CRLF
    BY <1>3, <2>1
  <2>3. (o + 2) - 1 = o + 1 /\ (o + 2 <= Len(s) => o + 1 <= Len(s))
    OBVIOUS
  <2> QED
    BY <1>1, <2>2, <2>3 DEF IsEnds
<1>6. E \subseteq o .. Len(s)
  BY <1>1 DEF IsEnds
<1>7. CASE ~HasHeaders(r)
  <2>1. Size(r) = 3 /\ Text(r)[3] = CRLF
    BY <1>7, TextIs
  <2>2. \A i \in E : i >= o + 3
    BY <1>4, <1>5, <1>6
  <2>3. Len(s) >= o + 3 => o + 3 \in E
    <3> SUFFICES ASSUME Len(s) >= o + 3 PROVE o + 3 \in E
      OBVIOUS
    <3>1. s[o + 2] = CRLF /\ s[o + 3] = CRLF
      BY <1>3, <2>1
    <3>2. (o + 3) - 1 = o + 2 /\ o + 3 \in o .. Len(s) /\ o + 3 >= o + 2
      OBVIOUS
    <3> QED
      BY <1>1, <1>5, <3>1, <3>2 DEF IsEnds
  <2> QED
    BY <2>1, <2>2, <2>3 DEF E
<1>8. CASE HasHeaders(r)
  <2>1. /\ Size(r) = 5 /\ Text(r)[3] # CRLF /\ Text(r)[4] = CRLF /\ Text(r)[5] = CRLF
    BY <1>2, <1>8, TextIs
  <2>2. o + 3 \notin E /\ o + 4 \notin E
    <3>1. o + 3 <= Len(s) => s[o + 3] # CRLF
      BY <2>1
    <3>2. o + 3 \notin E
      BY <1>1, <1>6, <3>1 DEF IsEnds
    <3>3. (o + 4) - 1 = o + 3 /\ (o + 4 <= Len(s) => o + 3 <= Len(s))
      OBVIOUS
    <3>4. o + 4 \notin E
      BY <1>1, <1>6, <3>1, <3>3 DEF IsEnds
    <3> QED
      BY <3>2, <3>4
  <2>3. \A i \in E : i >= o + 5
    BY <1>4, <1>5, <1>6, <2>2
  <2>4. Len(s) >= o + 5 => o + 5 \in E
    <3> SUFFICES ASSUME Len(s) >= o + 5 PROVE o + 5 \in E
      OBVIOUS
    <3>1. s[o + 4] = CRLF /\ s[o + 5] = CRLF
      BY <2>1
    <3>2. (o + 5) - 1 = o + 4 /\ o + 5 \in o .. Len(s) /\ o + 5 >= o + 2
      OBVIOUS
    <3> QED
      BY <1>1, <2>2, <3>1, <3>2 DEF IsEnds
  <2> QED
    BY <2>1, <2>3, <2>4 DEF E
<1> QED
  BY <1>7, <1>8

\* The requests q of a stream, the texts of them, and their offsets in the text t.
Texts(q) == [i \in 1 .. Len(q) |-> Text(q[i])]

Streamed(q, t, O) ==
  /\ q \in Seq(Request) /\ Len(q) \in Nat \ {0}
  /\ \A i \in 1 .. Len(q) : q[i] \in Request
  /\ t \in Seq(Token)
  /\ O \in [0 .. Len(q) -> Nat] /\ O[0] = 0 /\ O[Len(q)] = Len(t)
  /\ \A i \in 1 .. Len(q) :
       /\ O[i] = O[i - 1] + Len(Text(q[i])) /\ O[i] <= Len(t)
       /\ \A k \in 1 .. Len(Text(q[i])) : t[O[i - 1] + k] = Text(q[i])[k]

LEMMA StreamIs ==
  ASSUME NEW c \in Conns, stream[c] \in Seq(Request) \ {<<>>}
  PROVE  \E O : Streamed(stream[c], StreamText(c), O)
<1> DEFINE q == stream[c]
           ss == Texts(q)
           n == Len(q)
<1>1. /\ q \in Seq(Request) /\ n \in Nat \ {0} /\ \A i \in 1 .. n : q[i] \in Request
  OBVIOUS
<1>2. /\ \A i \in 1 .. n : ss[i] = Text(q[i]) /\ ss[i] \in Seq(Token)
      /\ Len(ss) = n
  BY <1>1, TextIs DEF Texts
<1>3. ss \in Seq(Seq(Token))
  <2>1. ss \in [1 .. n -> Seq(Token)]
    BY <1>2 DEF Texts
  <2> HIDE DEF ss, n
  <2> QED
    BY <1>1, <2>1
<1>4. StreamText(c) = FlattenSeq(ss)
  BY DEF StreamText, Texts
<1> DEFINE t == FlattenSeq(ss)
<1> HIDE DEF ss
<1>5. t \in Seq(Token) /\ \E O : PartsAt(ss, t, O)
  <2>1. Len(ss) # 0
    BY <1>1, <1>2
  <2> QED
    BY <1>3, <2>1, FlattenParts
<1> HIDE DEF t
<1>6. PICK O : PartsAt(ss, t, O)
  BY <1>5
<1>7. /\ O \in [0 .. n -> Nat] /\ O[0] = 0 /\ O[n] = Len(t)
      /\ \A i \in 1 .. n :
           /\ O[i] = O[i - 1] + Len(Text(q[i]))
           /\ \A k \in 1 .. Len(Text(q[i])) : t[O[i - 1] + k] = Text(q[i])[k]
  BY <1>2, <1>6 DEF PartsAt
<1>8. ASSUME NEW i \in 1 .. n PROVE O[i] <= Len(t)
  <2> DEFINE Q == {d \in Nat : i + d \in 1 .. n => O[i] <= O[i + d]}
  <2> HIDE DEF n, q
  <2>0. /\ i \in Nat /\ i >= 1 /\ n \in Nat
        /\ \A j \in 1 .. n : Len(Text(q[j])) \in Nat /\ O[j] \in Nat /\ O[j - 1] \in Nat
    <3>1. i \in Nat /\ i >= 1 /\ n \in Nat
      BY <1>1
    <3>2. \A j \in 1 .. n : Len(Text(q[j])) \in Nat
      BY <1>2
    <3>3. \A j \in 1 .. n : O[j] \in Nat /\ O[j - 1] \in Nat
      <4>1. \A j \in 1 .. n : j \in 0 .. n /\ j - 1 \in 0 .. n
        BY <1>1
      <4> QED
        BY <1>7, <4>1
    <3> QED
      BY <3>1, <3>2, <3>3
  <2>1. 0 \in Q
    BY <2>0
  <2>2. ASSUME NEW d \in Nat, d \in Q PROVE d + 1 \in Q
    <3> SUFFICES ASSUME i + (d + 1) \in 1 .. n PROVE O[i] <= O[i + (d + 1)]
      OBVIOUS
    <3>1. i + d \in 1 .. n /\ (i + (d + 1)) - 1 = i + d
      BY <2>0
    <3>2. O[i + (d + 1)] = O[i + d] + Len(Text(q[i + (d + 1)]))
      BY <1>7, <3>1
    <3>3. O[i] <= O[i + d]
      BY <2>2, <3>1
    <3>4. Len(Text(q[i + (d + 1)])) \in Nat /\ O[i + d] \in Nat /\ O[i] \in Nat
      BY <2>0, <3>1
    <3> QED
      BY <3>2, <3>3, <3>4
  <2> HIDE DEF Q
  <2>3. Nat \subseteq Q
    BY <2>1, <2>2, Induction
  <2>4. n - i \in Nat /\ i + (n - i) = n /\ n \in 1 .. n
    BY <2>0
  <2>5. n - i \in Q
    BY <2>3, <2>4
  <2>6. O[i] <= O[n]
    BY <2>4, <2>5 DEF Q
  <2> QED
    BY <1>7, <2>6
<1>9. Streamed(q, t, O)
  BY <1>1, <1>5, <1>7, <1>8 DEF Streamed
<1> QED
  BY <1>4, <1>9 DEF t

(***************************************************************************)
(* Where requests end in what has been received of a stream.               *)
(***************************************************************************)

\* s is the first m tokens of a stream.
Received1(q, t, O, m, s) ==
  /\ Streamed(q, t, O)
  /\ m \in Nat /\ m <= Len(t)
  /\ s \in Seq(Token) /\ Len(s) = m
  /\ \A k \in 1 .. m : s[k] = t[k]

LEMMA PartIs ==
  ASSUME NEW q, NEW t, NEW O, Streamed(q, t, O), NEW m \in 0 .. Len(t)
  PROVE  Received1(q, t, O, m, SubSeq(t, 1, m))
<1>1. t \in Seq(Token) /\ Len(t) \in Nat
  BY DEF Streamed
<1>2. \A i \in 1 .. m : t[i] \in Token
  BY <1>1, ElementOfSeq
<1>3. m \in Nat /\ m <= Len(t) /\ m \in Int
  BY <1>1
<1>4. /\ SubSeq(t, 1, m) \in Seq(Token)
      /\ Len(SubSeq(t, 1, m)) = IF 1 <= m THEN m - 1 + 1 ELSE 0
      /\ \A i \in 1 .. m - 1 + 1 : SubSeq(t, 1, m)[i] = t[1 + i - 1]
  BY <1>2, <1>3, SubSeqProperties
<1>5. /\ (IF 1 <= m THEN m - 1 + 1 ELSE 0) = m /\ m - 1 + 1 = m
      /\ \A i \in 1 .. m : 1 + i - 1 = i
  BY <1>3
<1> QED
  BY <1>3, <1>4, <1>5 DEF Received1

LEMMA ReceivedFacts ==
  ASSUME NEW q, NEW t, NEW O, NEW m, NEW s, Received1(q, t, O, m, s)
  PROVE  /\ Len(q) \in Nat \ {0} /\ Len(t) \in Nat /\ m \in Nat /\ m <= Len(t)
         /\ s \in Seq(Token) /\ Len(s) = m /\ \A k \in 1 .. m : s[k] = t[k]
         /\ O[0] = 0 /\ O[Len(q)] = Len(t)
         /\ \A i \in 0 .. Len(q) : O[i] \in Nat
         /\ \A i \in 1 .. Len(q) :
              /\ q[i] \in Request /\ i - 1 \in 0 .. Len(q)
              /\ O[i] = O[i - 1] + Len(Text(q[i])) /\ O[i] <= Len(t)
              /\ \A k \in 1 .. Len(Text(q[i])) : t[O[i - 1] + k] = Text(q[i])[k]
         /\ CRLF2Ends(s, 0) \subseteq 2 .. m
<1>1. /\ Len(q) \in Nat \ {0} /\ m \in Nat /\ m <= Len(t) /\ t \in Seq(Token)
      /\ s \in Seq(Token) /\ Len(s) = m /\ \A k \in 1 .. m : s[k] = t[k]
      /\ O \in [0 .. Len(q) -> Nat] /\ O[0] = 0 /\ O[Len(q)] = Len(t)
      /\ \A i \in 1 .. Len(q) :
           /\ q[i] \in Request
           /\ O[i] = O[i - 1] + Len(Text(q[i])) /\ O[i] <= Len(t)
           /\ \A k \in 1 .. Len(Text(q[i])) : t[O[i - 1] + k] = Text(q[i])[k]
  BY DEF Received1, Streamed
<1>2. \A i \in 0 .. Len(q) : O[i] \in Nat
  BY <1>1
<1>3. \A i \in 1 .. Len(q) : i - 1 \in 0 .. Len(q)
  BY <1>1
<1>4. Len(t) \in Nat
  BY <1>1
<1>5. CRLF2Ends(s, 0) \subseteq 0 + 2 .. Len(s)
  <2>1. Len(s) \in Nat
    BY <1>1
  <2> QED
    BY <2>1, EndsFinite
<1>6. CRLF2Ends(s, 0) \subseteq 2 .. m
  BY <1>1, <1>5
<1> QED
  BY <1>1, <1>2, <1>3, <1>4, <1>6

\* The same of one request.
LEMMA ReceivedAt ==
  ASSUME NEW q, NEW t, NEW O, NEW m, NEW s, Received1(q, t, O, m, s),
         NEW i \in 1 .. Len(q)
  PROVE  /\ q[i] \in Request /\ O[i - 1] \in Nat
         /\ Len(s) = m /\ m \in Nat /\ m <= Len(t)
         /\ \A k \in 1 .. m : s[k] = t[k]
         /\ \A k \in 1 .. Len(Text(q[i])) : t[O[i - 1] + k] = Text(q[i])[k]
         /\ \A e \in CRLF2Ends(s, 0) : e \in Nat
<1>1. /\ Len(s) = m /\ m \in Nat /\ m <= Len(t)
      /\ \A k \in 1 .. m : s[k] = t[k]
      /\ \A j \in 0 .. Len(q) : O[j] \in Nat
      /\ \A j \in 1 .. Len(q) :
           /\ q[j] \in Request /\ j - 1 \in 0 .. Len(q)
           /\ \A k \in 1 .. Len(Text(q[j])) : t[O[j - 1] + k] = Text(q[j])[k]
      /\ CRLF2Ends(s, 0) \subseteq 2 .. m
  BY ReceivedFacts, SMTT(30)
<1>2. /\ q[i] \in Request /\ i - 1 \in 0 .. Len(q)
      /\ \A k \in 1 .. Len(Text(q[i])) : t[O[i - 1] + k] = Text(q[i])[k]
  BY <1>1
<1>3. O[i - 1] \in Nat
  BY <1>1, <1>2
<1>4. \A e \in CRLF2Ends(s, 0) : e \in Nat
  BY <1>1
<1> QED
  BY <1>1, <1>2, <1>3, <1>4

\* The next end behind the start of a request is that of its header, if it has come.
LEMMA HeaderEnd ==
  ASSUME NEW q, NEW t, NEW O, NEW m, NEW s, Received1(q, t, O, m, s),
         NEW i \in 1 .. Len(q), O[i - 1] \in CRLF2Ends(s, 0) \cup {0}
  PROVE  /\ \A e \in CRLF2Ends(s, 0) : e > O[i - 1] => e >= O[i - 1] + Size(q[i])
         /\ m >= O[i - 1] + Size(q[i]) => O[i - 1] + Size(q[i]) \in CRLF2Ends(s, 0)
<1> DEFINE o == O[i - 1]
           r == q[i]
<1>1. /\ r \in Request /\ o \in Nat /\ Len(s) = m /\ m \in Nat /\ m <= Len(t)
      /\ \A k \in 1 .. m : s[k] = t[k]
      /\ \A k \in 1 .. Len(Text(r)) : t[o + k] = Text(r)[k]
      /\ \A e \in CRLF2Ends(s, 0) : e \in Nat
  BY ReceivedAt, SMTT(30)
<1> HIDE DEF o, r
<1>2. Size(r) \in 1 .. Len(Text(r)) /\ Size(r) \in Nat
  <2>1. r \in Request
    BY <1>1
  <2>2. /\ Size(r) \in {3, 5} /\ Len(Text(r)) = Size(r) + Len(r.body)
        /\ Len(r.body) \in Nat
    BY <2>1, TextIs
  <2> QED
    BY <2>2
<1>3. \A k \in 1 .. Size(r) : o + k <= Len(s) => s[o + k] = Text(r)[k]
  <2> SUFFICES ASSUME NEW k \in 1 .. Size(r), o + k <= Len(s) PROVE s[o + k] = Text(r)[k]
    OBVIOUS
  <2>1. k \in 1 .. Len(Text(r)) /\ o + k \in 1 .. m
    BY <1>1, <1>2, TextIs
  <2> QED
    BY <1>1, <2>1
<1>4. /\ \A e \in CRLF2Ends(s, o) : e >= o + Size(r)
      /\ Len(s) >= o + Size(r) => o + Size(r) \in CRLF2Ends(s, o)
  BY <1>1, <1>3, FirstEnd
<1>5. CRLF2Ends(s, o) = {e \in CRLF2Ends(s, 0) : e > o}
  BY <1>1, EndsBehind DEF o
<1> QED
  BY <1>1, <1>4, <1>5 DEF o, r

\* No request before the k-th has a body.
Bodiless(q, k) == \A i \in 1 .. Len(q) : i < k => q[i].body = <<>>

\* The k-th end is that of the k-th header.
EndsAt(q, O, b, k) ==
  /\ k <= Len(q) /\ ReqEnd(b, k - 1) = O[k - 1]
  /\ ReqEnd(b, k) = O[k - 1] + Size(q[k])
  /\ O[k - 1] \in Ends(b) \cup {0}

\* It is, as long as no request has a body.
LEMMA ReqEnds ==
  ASSUME NEW q, NEW t, NEW O, NEW m, NEW b, Received1(q, t, O, m, b.rbuf), b.rbuf_head = 0,
         NEW k \in 1 .. Cardinality(Ends(b)),
         Bodiless(q, k)
  PROVE  EndsAt(q, O, b, k)
<1> DEFINE N == Cardinality(Ends(b))
           E == Ends(b)
<1>1. HasText(b) /\ E = CRLF2Ends(b.rbuf, 0)
  BY DEF Received1, HasText, Ends
<1>2. /\ E \subseteq Nat /\ N \in Nat /\ ReqEnd(b, 0) = 0
      /\ \A e \in E : e > 0
      /\ \A i \in 1 .. N : ReqEnd(b, i) \in E
      /\ \A i, j \in 0 .. N : i < j => ReqEnd(b, i) < ReqEnd(b, j)
  BY <1>1, ReqEndRank
<1>4. /\ Len(q) \in Nat \ {0} /\ O[0] = 0 /\ O[Len(q)] = Len(t) /\ m <= Len(t)
      /\ m \in Nat /\ Len(t) \in Nat
      /\ \A i \in 1 .. Len(q) : q[i] \in Request /\ O[i] = O[i - 1] + Len(Text(q[i]))
      /\ \A i \in 0 .. Len(q) : O[i] \in Nat
  BY ReceivedFacts
<1>3. \A e \in E : e \in Nat /\ e <= m
  <2>1. E \subseteq 2 .. m
    BY <1>1, ReceivedFacts
  <2> QED
    BY <1>4, <2>1
<1> DEFINE Bodies(j) == \A i \in 1 .. Len(q) : i < j => q[i].body = <<>>
           Is(j) == /\ j <= Len(q) /\ ReqEnd(b, j - 1) = O[j - 1]
                    /\ ReqEnd(b, j) = O[j - 1] + Size(q[j])
                    /\ O[j - 1] \in Ends(b) \cup {0}
           P == {n \in Nat : n + 1 \in 1 .. N /\ Bodies(n + 1) => Is(n + 1)}
<1> HIDE DEF E, N
\* One step of the way, from the end of one text to the end of the next header.
<1>5. ASSUME NEW j \in 1 .. N, j <= Len(q) + 1, ReqEnd(b, j - 1) = O[j - 1],
             O[j - 1] \in E \cup {0}
      PROVE  Is(j)
  <2>1. j - 1 \in 0 .. N /\ j \in 0 .. N /\ j - 1 < j /\ j - 1 + 1 = j /\ j - 1 \in 0 .. Len(q)
    BY <1>2, <1>4, <1>5
  <2>2. ReqEnd(b, j) \in E /\ ReqEnd(b, j) > O[j - 1]
    <3>1. ReqEnd(b, j - 1) < ReqEnd(b, j)
      BY <1>2, <2>1
    <3>2. ReqEnd(b, j) \in Nat /\ O[j - 1] \in Nat
      BY <1>2, <1>4, <2>1
    <3> QED
      BY <1>2, <1>5, <3>1, <3>2
  <2>3. j <= Len(q)
    <3> SUFFICES ASSUME j = Len(q) + 1 PROVE FALSE
      BY <1>4, <1>5
    <3>1. O[j - 1] = Len(t)
      BY <1>4
    <3>2. ReqEnd(b, j) <= m /\ ReqEnd(b, j) \in Nat
      BY <1>2, <1>3, <1>4, <2>2
    <3> QED
      BY <1>4, <2>2, <3>1, <3>2
  <2>4. j \in 1 .. Len(q) /\ O[j - 1] \in Nat
    BY <1>4, <2>1, <2>3
  <2> DEFINE x == O[j - 1] + Size(q[j])
  <2>5. /\ \A e \in E : e > O[j - 1] => e >= x
        /\ m >= x => x \in E
    BY <1>1, <1>5, <2>4, HeaderEnd DEF E
  <2>6. Size(q[j]) \in {3, 5}
    BY <1>4, <2>4, TextIs
  <2>7. x \in E /\ x > O[j - 1]
    <3>1. ReqEnd(b, j) >= x /\ ReqEnd(b, j) <= m /\ ReqEnd(b, j) \in Nat
      BY <1>2, <1>3, <1>4, <2>2, <2>5
    <3>2. x \in Nat /\ x > O[j - 1]
      BY <2>4, <2>6
    <3>3. m >= x
      BY <1>4, <3>1, <3>2
    <3> QED
      BY <2>5, <3>2, <3>3
  <2> HIDE DEF x
  <2>8. ReqEnd(b, j - 1 + 1) = x
    BY <1>1, <1>5, <2>1, <2>5, <2>7, NextReqEnd DEF E, N
  <2> QED
    BY <1>5, <2>1, <2>3, <2>8 DEF x, E
<1>6. Nat \subseteq P
  <2> HIDE DEF Is
  <2>1. 0 \in P
    <3>1. 0 + 1 = 1 /\ 1 - 1 = 0
      OBVIOUS
    <3> SUFFICES ASSUME 1 \in 1 .. N PROVE Is(1)
      BY <3>1
    <3> QED
      BY <1>2, <1>4, <1>5, <3>1
  <2>2. ASSUME NEW n \in Nat, n \in P PROVE n + 1 \in P
    <3> DEFINE j == n + 1
    <3> SUFFICES ASSUME j + 1 \in 1 .. N, Bodies(j + 1) PROVE Is(j + 1)
      OBVIOUS
    <3>1. j \in 1 .. N /\ j \in Nat
      BY <1>2
    <3>2. Bodies(j)
      <4>1. \A i \in 1 .. Len(q) : i < j => i < j + 1
        BY <1>4, <3>1
      <4> HIDE DEF j
      <4> QED
        BY <4>1
    <3>3. Is(j)
      BY <2>2, <3>1, <3>2
    <3>4. j \in 1 .. Len(q) /\ q[j] \in Request /\ q[j].body = <<>>
      BY <1>4, <3>1, <3>3 DEF Is
    <3>5. Len(Text(q[j])) = Size(q[j])
      <4>1. Len(q[j].body) = 0
        BY <3>4
      <4>2. Size(q[j]) \in {3, 5}
        BY <3>4, TextIs
      <4> QED
        BY <3>4, <4>1, <4>2, TextIs
    <3>6. ReqEnd(b, j) = O[j] /\ ReqEnd(b, j) \in E
      BY <1>2, <1>4, <3>1, <3>3, <3>4, <3>5 DEF Is
    <3>7. (j + 1) - 1 = j /\ j + 1 <= Len(q) + 1
      BY <1>4, <3>1, <3>4
    <3> QED
      BY <1>5, <3>6, <3>7
  <2> HIDE DEF P
  <2> QED
    BY <2>1, <2>2, Induction
<1>7. k \in 1 .. N
  BY DEF N
<1>8. k - 1 \in P /\ k - 1 + 1 = k
  BY <1>2, <1>6, <1>7
<1> HIDE DEF Is
<1>9. Is(k)
  BY <1>7, <1>8 DEF Bodiless
<1> QED
  BY <1>9 DEF Is, EndsAt

\* parse_request_line and parse_request_headers find what was sent.
LEMMA HeaderIs ==
  ASSUME NEW q, NEW t, NEW O, NEW m, NEW s, Received1(q, t, O, m, s),
         NEW i \in 1 .. Len(q), O[i - 1] + Size(q[i]) <= m
  PROVE  /\ Method(s, O[i - 1]) = q[i].method
         /\ ContLen(s, O[i - 1], O[i - 1] + Size(q[i])) = q[i].cont_len
<1> DEFINE o == O[i - 1]
           r == q[i]
           to == o + Size(r)
           h == {k \in o + 1 .. Len(s) : s[k].t = "headers"}
<1>1. /\ r \in Request /\ o \in Nat /\ Len(s) = m /\ m \in Nat /\ m <= Len(t)
      /\ \A k \in 1 .. m : s[k] = t[k]
      /\ \A k \in 1 .. Len(Text(r)) : t[o + k] = Text(r)[k]
  BY ReceivedAt, SMTT(30)
<1>2. /\ Size(r) \in {3, 5} /\ Len(Text(r)) = Size(r) + Len(r.body) /\ Len(r.body) \in Nat
      /\ Text(r)[1] = Line(r) /\ Text(r)[2] = CRLF
      /\ IF HasHeaders(r)
         THEN Size(r) = 5 /\ Text(r)[3] = Headers(r) /\ Text(r)[4] = CRLF /\ Text(r)[5] = CRLF
         ELSE Size(r) = 3 /\ Text(r)[3] = CRLF
  BY <1>1, TextIs
<1>3. /\ Line(r).t = "line" /\ Line(r).method = r.method /\ CRLF.t = "crlf"
      /\ Headers(r).t = "headers" /\ Headers(r).cont_len = r.cont_len
  BY <1>1, TokensAre
<1>4. Size(r) \in Nat /\ to \in Nat /\ to <= m
  <2>1. to <= m
    OBVIOUS
  <2> HIDE DEF o, r
  <2>2. Size(r) \in Nat
    BY <1>2
  <2> QED
    BY <1>1, <2>1, <2>2
<1> HIDE DEF o, r
<1>5. \A k \in 1 .. Size(r) : s[o + k] = Text(r)[k] /\ o + k \in o + 1 .. Len(s)
  <2> SUFFICES ASSUME NEW k \in 1 .. Size(r)
               PROVE  s[o + k] = Text(r)[k] /\ o + k \in o + 1 .. Len(s)
    OBVIOUS
  <2>0. k \in Nat /\ k >= 1 /\ k <= Size(r)
    BY <1>4
  <2>1. k \in 1 .. Len(Text(r)) /\ o + k \in 1 .. m /\ o + k \in o + 1 .. m
    <3>1. k \in 1 .. Len(Text(r))
      BY <1>2, <1>4, <2>0
    <3>2. o + k <= m
      BY <1>1, <1>4, <2>0
    <3> QED
      BY <1>1, <2>0, <3>1, <3>2
  <2> QED
    BY <1>1, <2>1
<1>6. s[o + 1] = Line(r) /\ s[o + 2] = CRLF /\ s[o + 3] = Text(r)[3]
  <2>1. 1 \in 1 .. Size(r) /\ 2 \in 1 .. Size(r) /\ 3 \in 1 .. Size(r)
    BY <1>2
  <2>2. s[o + 1] = Text(r)[1] /\ s[o + 2] = Text(r)[2] /\ s[o + 3] = Text(r)[3]
    BY <1>5, <2>1
  <2> QED
    BY <1>2, <2>2
<1>7. Method(s, o) = r.method
  BY <1>3, <1>6 DEF Method
<1>8. h \subseteq Nat /\ \A k \in h : k > o
  BY <1>1
<1>9. CASE HasHeaders(r)
  <2>1. o + 3 \in h /\ s[o + 3].cont_len = r.cont_len /\ to = o + 5
    <3>1. Size(r) = 5 /\ Text(r)[3] = Headers(r)
      BY <1>2, <1>9
    <3>2. o + 3 \in o + 1 .. Len(s)
      <4>1. 3 \in 1 .. Size(r)
        BY <3>1
      <4> QED
        BY <1>5, <4>1
    <3>3. s[o + 3] = Headers(r)
      BY <1>6, <3>1
    <3> QED
      BY <1>3, <3>1, <3>2, <3>3
  <2>2. o + 1 \notin h /\ o + 2 \notin h
    BY <1>3, <1>6
  <2> HIDE DEF h
  <2>3. Min(h) \in h /\ Min(h) <= o + 3
    BY <1>8, <2>1, MinOf
  <2>4. Min(h) = o + 3
    <3> DEFINE x == Min(h)
    <3>1. x \in h /\ x <= o + 3 /\ x \in Nat /\ x > o
      BY <1>8, <2>3
    <3> HIDE DEF x
    <3>2. x # o + 1 /\ x # o + 2
      BY <2>2, <3>1
    <3>3. x = o + 3
      BY <1>1, <3>1, <3>2
    <3> QED
      BY <3>3 DEF x
  <2>5. h # {} /\ Min(h) < to
    BY <1>1, <2>1, <2>4
  <2> HIDE DEF to
  <2>6. ContLen(s, o, to) = r.cont_len
    BY <2>1, <2>4, <2>5 DEF ContLen, h
  <2> QED
    BY <1>7, <2>6 DEF o, r, to
<1>10. CASE ~HasHeaders(r)
  <2>1. o + 1 \notin h /\ o + 2 \notin h /\ o + 3 \notin h /\ to = o + 3
    BY <1>2, <1>3, <1>6, <1>10
  <2> HIDE DEF h
  <2>2. ASSUME NEW k \in h PROVE ~(k < to)
    <3>1. k \in Nat /\ k > o /\ k # o + 1 /\ k # o + 2 /\ k # o + 3
      BY <1>8, <2>1
    <3> QED
      BY <1>1, <2>1, <3>1
  <2>3. ~(h # {} /\ Min(h) < to)
    BY <1>8, <2>2, MinOf
  <2>4. r.cont_len = 0
    BY <1>10 DEF HasHeaders
  <2> HIDE DEF to
  <2>5. ContLen(s, o, to) = 0
    BY <2>3 DEF ContLen, h
  <2> QED
    BY <1>7, <2>4, <2>5 DEF o, r, to
<1> QED
  BY <1>9, <1>10

(***************************************************************************)
(* From a segment to the queue.                                            *)
(***************************************************************************)

LEMMA MaxIs ==
  ASSUME NEW S, NEW x \in S, S \subseteq Nat, \A y \in S : y <= x
  PROVE  Max(S) = x
<1>1. x \in Nat /\ \A y \in S : y \in Nat
  OBVIOUS
<1>2. x \in S /\ \A y \in S : x >= y
  BY <1>1
<1>3. Max(S) \in S /\ \A y \in S : Max(S) >= y
  BY <1>2 DEF Max
<1>4. Max(S) \in Nat /\ Max(S) >= x /\ x >= Max(S)
  BY <1>1, <1>2, <1>3
<1> QED
  BY <1>1, <1>4

\* How far counting has got in s.
LastEnd(s) == Max(CRLF2Ends(s, 0) \cup {0})

LEMMA LastEndIs ==
  ASSUME NEW s, Len(s) \in Nat
  PROVE  /\ LastEnd(s) \in CRLF2Ends(s, 0) \cup {0}
         /\ \A i \in CRLF2Ends(s, 0) : i <= LastEnd(s)
         /\ LastEnd(s) \in 0 .. Len(s)
         /\ CRLF2Ends(s, 0) \subseteq Nat
<1> DEFINE E == CRLF2Ends(s, 0)
           S == E \cup {0}
<1>1. E \subseteq 0 + 2 .. Len(s)
  BY EndsFinite
<1> HIDE DEF E
<1>2. S \subseteq 0 .. Len(s) /\ S # {} /\ E \subseteq Nat
  BY <1>1
<1>3. Max(S) \in S /\ \A x \in S : x <= Max(S)
  <2> HIDE DEF S
  <2> QED
    BY <1>2, MaxOf
<1>4. Max(S) \in 0 .. Len(s)
  BY <1>2, <1>3
<1> QED
  BY <1>2, <1>3, <1>4 DEF E, LastEnd

\* The fields of a struct buf.  (The provers see an updated record by its
\* fields, so what a buf is like is said of each of them.)
Fields ==
  { "rbuf", "rbuf_size", "rbuf_head", "parse_p", "rbuf_req_count",
    "req_fully_received", "http_reqs", "req_queue", "http_req_p", "http_reply_p",
    "res_fully_sent", "buf", "bitrate", "chunk_name" }

\* What parsing leaves alone until there is a request.
Untouched(b) ==
  /\ DOMAIN b = Fields /\ b.rbuf_head = 0
  /\ b.http_reqs = <<>> /\ b.req_queue = <<>>
  /\ b.http_req_p = 0 /\ b.http_reply_p = 0 /\ b.res_fully_sent = TRUE
  /\ b.buf = NONE /\ b.bitrate = 0 /\ b.chunk_name = NONE

\* A struct buf that holds s, all of it counted and nothing taken out.
Holds(b, s) ==
  /\ Untouched(b)
  /\ b.rbuf = s /\ b.rbuf_size = Len(s) /\ b.parse_p = LastEnd(s)
  /\ b.rbuf_req_count = Cardinality(CRLF2Ends(s, 0))

\* While a request is being received.
Collected(b, s) ==
  /\ Holds(b, s)
  /\ b.req_fully_received \in BOOLEAN
  /\ b.req_fully_received <=> s = <<>>

\* The ends in s and those behind the last of them are the ends in s \o u.
LEMMA CountsMore ==
  ASSUME NEW s \in Seq(Token), NEW u \in Seq(Token)
  PROVE  /\ Cardinality(CRLF2Ends(s, 0)) + Cardinality(CRLF2Ends(s \o u, LastEnd(s)))
              = Cardinality(CRLF2Ends(s \o u, 0))
         /\ Max(CRLF2Ends(s \o u, LastEnd(s)) \cup {LastEnd(s)}) = LastEnd(s \o u)
<1> DEFINE w == s \o u
           E == CRLF2Ends(s, 0)
           F == CRLF2Ends(w, 0)
           p == LastEnd(s)
           M == CRLF2Ends(w, p)
<1>1. /\ w \in Seq(Token) /\ Len(w) = Len(s) + Len(u) /\ Len(s) \in Nat /\ Len(u) \in Nat
      /\ \A k \in 1 .. Len(s) : w[k] = s[k]
  BY Appended
<1>2. Len(w) \in Nat /\ Len(s) <= Len(w) /\ \A k \in 1 .. Len(s) : s[k] = w[k]
  BY <1>1
<1> HIDE DEF w
<1>3. E = {i \in F : i <= Len(s)}
  BY <1>1, <1>2, EndsOfPart
<1>4. /\ p \in E \cup {0} /\ (\A i \in E : i <= p) /\ p \in 0 .. Len(s)
      /\ LastEnd(w) \in F \cup {0} /\ (\A i \in F : i <= LastEnd(w)) /\ F \subseteq Nat
  BY <1>1, <1>2, LastEndIs
<1>5. p \in F \cup {0} /\ p \in Nat
  BY <1>3, <1>4
<1>6. M = {i \in F : i > p}
  BY <1>2, <1>5, EndsBehind
<1>7. IsFiniteSet(F) /\ IsFiniteSet(E) /\ IsFiniteSet(M)
  BY <1>1, <1>2, <1>5, EndsFinite
<1>7a. LastEnd(w) \in Nat /\ p <= LastEnd(w)
  <2>1. LastEnd(w) \in 0 .. Len(w)
    BY <1>2, LastEndIs
  <2>2. LastEnd(w) \in Nat
    BY <1>2, <2>1
  <2>3. \A i \in F : i <= LastEnd(w)
    BY <1>2, LastEndIs
  <2> HIDE DEF p, F
  <2>4. p = 0 => p <= LastEnd(w)
    BY <2>2
  <2> QED
    BY <1>5, <2>2, <2>3, <2>4
<1> HIDE DEF E, F, M, p
<1>8. E \cup M = F /\ E \cap M = {}
  <2>1. \A i \in F : i \in Nat /\ (i <= p => i <= Len(s)) /\ (i <= p \/ i > p)
    BY <1>1, <1>4
  <2>2. \A i \in F : i \in E \/ i \in M
    BY <1>3, <1>6, <2>1
  <2>3. \A i \in E : i \in F /\ i \notin M
    BY <1>3, <1>4, <1>5, <1>6
  <2>4. \A i \in M : i \in F
    BY <1>6
  <2> QED
    BY <2>2, <2>3, <2>4
<1>9. Cardinality(E) + Cardinality(M) = Cardinality(F)
  <2>1. Cardinality(E \cup M) = Cardinality(E) + Cardinality(M) - Cardinality(E \cap M)
    BY <1>7, FS_Union
  <2>2. Cardinality(E \cap M) = 0
    BY <1>8, FS_EmptySet
  <2>3. Cardinality(E) \in Nat /\ Cardinality(M) \in Nat
    BY <1>7, FS_CardinalityType
  <2>4. Cardinality(E \cup M) = Cardinality(F)
    BY <1>8
  <2> QED
    BY <2>1, <2>2, <2>3, <2>4
<1>10. Max(M \cup {p}) = LastEnd(w)
  <2>1. M \cup {p} \subseteq Nat
    BY <1>4, <1>5, <1>6
  <2>2. LastEnd(w) \in M \cup {p}
    <3>2. LastEnd(w) = p \/ LastEnd(w) > p
      BY <1>5, <1>7a
    <3>3. LastEnd(w) > p => LastEnd(w) \in F
      BY <1>4, <1>5
    <3> QED
      BY <1>6, <3>2, <3>3
  <2>3. \A y \in M \cup {p} : y <= LastEnd(w)
    <3>1. p <= LastEnd(w)
      BY <1>7a
    <3> QED
      BY <1>4, <1>6, <3>1
  <2> QED
    BY <2>1, <2>2, <2>3, MaxIs
<1> QED
  BY <1>9, <1>10 DEF E, F, M, p, w

\* Counting goes on where it stopped and finds what it would find from the start.
LEMMA CountsOn ==
  ASSUME NEW s \in Seq(Token), NEW u \in Seq(Token), NEW b, Untouched(b),
         b.rbuf = s \o u, b.rbuf_size = Len(s \o u), b.parse_p = LastEnd(s),
         b.rbuf_req_count = Cardinality(CRLF2Ends(s, 0))
  PROVE  Holds(count_requests(b), s \o u)
<1> DEFINE w == s \o u
           n == Cardinality(CRLF2Ends(w, 0))
           p == LastEnd(w)
           r == [b EXCEPT !.rbuf_req_count = n, !.parse_p = p]
<1>1. /\ b.rbuf_req_count + Cardinality(CRLF2Ends(b.rbuf, b.parse_p)) = n
      /\ Max(CRLF2Ends(b.rbuf, b.parse_p) \cup {b.parse_p}) = p
  BY CountsMore
<1> HIDE DEF n, p, w
<1>2. count_requests(b) = r
  BY <1>1 DEF count_requests
<1>3. Untouched(r) /\ r.rbuf = w /\ r.rbuf_size = Len(w)
  BY DEF Untouched, Fields, w
<1>4. r.parse_p = p /\ r.rbuf_req_count = n
  BY DEF Untouched, Fields
<1> QED
  BY <1>2, <1>3, <1>4 DEF Holds, w, n, p

\* recv_request puts a segment behind what is being received, emptied or not.
LEMMA EmptiedIs ==
  ASSUME NEW s \in Seq(Token), NEW b, Collected(b, s), NEW e, e = Emptied(b)
  PROVE  /\ Untouched(e) /\ e.rbuf = s /\ e.rbuf_size = Len(s) /\ e.parse_p = LastEnd(s)
         /\ e.rbuf_req_count = Cardinality(CRLF2Ends(s, 0))
         /\ e.req_fully_received = b.req_fully_received
<1>1. Len(s) \in Nat /\ LastEnd(s) \in 0 .. Len(s)
  BY LastEndIs
<1>2. s = <<>> => LastEnd(s) = 0
  BY <1>1
<1>3. CASE s # <<>>
  <2>1. e = b
    BY <1>3 DEF Collected, Emptied
  <2> QED
    BY <2>1 DEF Collected, Holds
<1>4. CASE s = <<>>
  <2>1. e = [b EXCEPT !.rbuf = <<>>, !.rbuf_size = 0, !.rbuf_head = 0, !.parse_p = 0]
    BY <1>4 DEF Collected, Emptied, reset_rbuf
  <2>2. Untouched(b) /\ b.rbuf_req_count = Cardinality(CRLF2Ends(s, 0))
    BY DEF Collected, Holds
  <2>3. e.rbuf = <<>> /\ e.rbuf_size = 0 /\ e.parse_p = 0
    BY <2>1, <2>2 DEF Untouched, Fields
  <2>4. /\ Untouched(e) /\ e.rbuf_req_count = b.rbuf_req_count
        /\ e.req_fully_received = b.req_fully_received
    BY <2>1, <2>2 DEF Untouched, Fields
  <2>5. Len(<<>>) = 0
    OBVIOUS
  <2> QED
    BY <1>2, <1>4, <2>2, <2>3, <2>4, <2>5
<1> QED
  BY <1>3, <1>4

LEMMA RecvIs ==
  ASSUME NEW s \in Seq(Token), NEW u \in Seq(Token), NEW b, Collected(b, s)
  PROVE  LET r == recv_request(b, u)
         IN  /\ Untouched(r) /\ r.rbuf = s \o u /\ r.rbuf_size = Len(s \o u)
             /\ r.parse_p = LastEnd(s) /\ r.rbuf_req_count = Cardinality(CRLF2Ends(s, 0))
             /\ r.req_fully_received = b.req_fully_received
             /\ Emptied(b).rbuf_size = Len(s)
<1> DEFINE e == Emptied(b)
           r == recv_request(b, u)
<1>1. Len(s) \in Nat /\ Len(s \o u) = Len(s) + Len(u)
  OBVIOUS
<1>2. /\ Untouched(e) /\ e.rbuf = s /\ e.rbuf_size = Len(s) /\ e.parse_p = LastEnd(s)
      /\ e.rbuf_req_count = Cardinality(CRLF2Ends(s, 0))
      /\ e.req_fully_received = b.req_fully_received
  BY EmptiedIs
<1> HIDE DEF e
<1>3. r = [e EXCEPT !.rbuf = @ \o u, !.rbuf_size = @ + Len(u)]
  BY DEF recv_request, e
<1> HIDE DEF r
<1>4. r.rbuf = e.rbuf \o u /\ r.rbuf_size = e.rbuf_size + Len(u)
  BY <1>2, <1>3 DEF Untouched, Fields
<1>5. /\ Untouched(r) /\ r.parse_p = e.parse_p /\ r.rbuf_req_count = e.rbuf_req_count
      /\ r.req_fully_received = e.req_fully_received
  BY <1>2, <1>3 DEF Untouched, Fields
<1> QED
  BY <1>1, <1>2, <1>4, <1>5 DEF e, r

\* All that has come is counted.
LEMMA RecvCounts ==
  ASSUME NEW s \in Seq(Token), NEW u \in Seq(Token), NEW b, Collected(b, s)
  PROVE  LET d == count_requests(recv_request(b, u))
         IN  Holds(d, s \o u) /\ d.req_fully_received \in BOOLEAN
<1> DEFINE r == recv_request(b, u)
           d == count_requests(r)
<1>1. /\ Untouched(r) /\ r.rbuf = s \o u /\ r.rbuf_size = Len(s \o u)
      /\ r.parse_p = LastEnd(s) /\ r.rbuf_req_count = Cardinality(CRLF2Ends(s, 0))
      /\ r.req_fully_received = b.req_fully_received
  BY RecvIs
<1> HIDE DEF r
<1>2. Holds(d, s \o u)
  BY <1>1, CountsOn
<1>3. d.req_fully_received = r.req_fully_received
  BY <1>1 DEF count_requests, Untouched, Fields
<1> QED
  BY <1>1, <1>2, <1>3 DEF Collected, r

\* What parse_request finds a request to be.
Parsed == [ method   : {"GET", "POST", "method_not_found"},
            cont_len : Nat, orig_req : Seq(Token) \cup {NONE} ]

LEMMA CountedIs ==
  ASSUME NEW d, NEW s \in Seq(Token), Holds(d, s), NEW i \in 1 .. Cardinality(Ends(d))
  PROVE  /\ Counted(d, i) \in Parsed /\ Counted(d, i).orig_req \in Seq(Token)
         /\ ReqEnd(d, i - 1) \in 0 .. Len(s) /\ ReqEnd(d, i) \in 1 .. Len(s)
         /\ ReqEnd(d, i - 1) < ReqEnd(d, i)
         /\ Counted(d, i).method = Method(s, ReqEnd(d, i - 1))
         /\ Counted(d, i).cont_len = ContLen(s, ReqEnd(d, i - 1), ReqEnd(d, i))
         /\ Counted(d, i).orig_req = SubSeq(s, ReqEnd(d, i - 1) + 1, ReqEnd(d, i))
<1> DEFINE from == ReqEnd(d, i - 1)
           to == ReqEnd(d, i)
           n == Cardinality(Ends(d))
<1>1. /\ HasText(d) /\ d.rbuf = s /\ d.rbuf_head = 0 /\ Len(s) \in Nat
      /\ Ends(d) = CRLF2Ends(s, 0)
  BY DEF Holds, Untouched, HasText, Ends
<1>2. Ends(d) \subseteq 0 + 2 .. Len(s)
  BY <1>1, EndsFinite
<1>3. /\ n \in Nat /\ ReqEnd(d, 0) = 0
      /\ \A k \in 1 .. n : ReqEnd(d, k) \in Ends(d)
      /\ \A j, k \in 0 .. n : j < k => ReqEnd(d, j) < ReqEnd(d, k)
  BY <1>1, ReqEndRank
<1>4. i - 1 \in 0 .. n /\ i \in 0 .. n /\ i - 1 < i /\ (i - 1 = 0 \/ i - 1 \in 1 .. n)
  BY <1>3
<1>5. to \in 1 .. Len(s) /\ from \in 0 .. Len(s) /\ from < to
  <2>1. to \in Ends(d) /\ from < to /\ (from = 0 \/ from \in Ends(d))
    BY <1>3, <1>4
  <2> HIDE DEF from, to
  <2> QED
    BY <1>1, <1>2, <2>1
<1>6. /\ Counted(d, i).method = Method(s, from)
      /\ Counted(d, i).cont_len = ContLen(s, from, to)
      /\ Counted(d, i).orig_req = SubSeq(s, from + 1, to)
      /\ Counted(d, i) = [ method |-> Method(s, from), cont_len |-> ContLen(s, from, to),
                           orig_req |-> SubSeq(s, from + 1, to) ]
  BY <1>1 DEF Counted, http_req
<1> HIDE DEF from, to
<1>7. \A k \in 1 .. Len(s) : s[k] \in Token
  OBVIOUS
<1>8. Method(s, from) \in {"GET", "POST", "method_not_found"}
  <2>1. s[from + 1] \in Token
    BY <1>1, <1>5, <1>7
  <2> QED
    BY <2>1 DEF Method, Token
<1>9. ContLen(s, from, to) \in Nat
  <2> DEFINE h == {k \in from + 1 .. Len(s) : s[k].t = "headers"}
  <2>1. \A k \in h : s[k].cont_len \in Nat
    <3> SUFFICES ASSUME NEW k \in h PROVE s[k].cont_len \in Nat
      OBVIOUS
    <3>1. s[k] \in Token /\ s[k].t = "headers"
      BY <1>1, <1>5, <1>7
    <3> QED
      BY <3>1 DEF Token
  <2>2. h \subseteq Nat
    BY <1>5
  <2> HIDE DEF h
  <2>3. h # {} => s[Min(h)].cont_len \in Nat
    BY <2>1, <2>2, MinOf
  <2> QED
    BY <2>3 DEF ContLen, h
<1>10. SubSeq(s, from + 1, to) \in Seq(Token)
  BY <1>1, <1>5
<1> QED
  BY <1>5, <1>6, <1>8, <1>9, <1>10 DEF Parsed, from, to

\* parse_counted, for n requests that are whole.
Enqueued(d, n) ==
  LET old == Len(d.http_reqs)
  IN  [d EXCEPT
         !.rbuf_req_count     = @ - n,
         !.rbuf_head          = ReqEnd(d, n),
         !.req_fully_received = Short(d) = {},
         !.http_reqs          = @ \o [i \in 1 .. n |-> Counted(d, i)],
         !.req_queue          = req_enqueue(@, [i \in 1 .. n |-> old + i]),
         !.http_req_p         = IF Short(d) = {} THEN old + n ELSE 0,
         !.buf                = IF \E i \in 1 .. n : NoLength(Counted(d, i))
                                THEN "MSG411" ELSE @]

\* r is d once n requests have gone into the queue.
Queued(d, n, r) ==
  /\ DOMAIN r = Fields
  /\ r.rbuf = d.rbuf /\ r.rbuf_size = d.rbuf_size /\ r.parse_p = d.parse_p
  /\ r.rbuf_req_count = d.rbuf_req_count - n /\ r.rbuf_head = ReqEnd(d, n)
  /\ r.req_fully_received \in BOOLEAN /\ (r.req_fully_received <=> Short(d) = {})
  /\ r.http_reqs \in Seq(Parsed) /\ Len(r.http_reqs) = n
  /\ \A i \in 1 .. n : r.http_reqs[i] = Counted(d, i)
  /\ r.req_queue \in Seq(Nat) /\ Len(r.req_queue) = n
  /\ \A i \in 1 .. n : r.req_queue[i] = i
  /\ r.http_req_p = (IF Short(d) = {} THEN n ELSE 0)
  /\ r.http_reply_p = 0 /\ r.res_fully_sent = TRUE
  /\ r.buf \in {NONE, "MSG411"} /\ r.bitrate = 0 /\ r.chunk_name = NONE
  /\ n = 0 => r.buf = NONE

LEMMA EnqueuedIs ==
  ASSUME NEW d, Untouched(d), NEW n \in Nat, NEW r, r = Enqueued(d, n),
         \A i \in 1 .. n : Counted(d, i) \in Parsed
  PROVE  Queued(d, n, r)
<1> DEFINE H == [i \in 1 .. n |-> Counted(d, i)]
           Q == [i \in 1 .. n |-> 0 + i]
           B == \E i \in 1 .. n : NoLength(Counted(d, i))
<1>1. /\ DOMAIN d = Fields /\ d.http_reqs = <<>> /\ d.req_queue = <<>>
      /\ Len(d.http_reqs) = 0 /\ d.http_reply_p = 0 /\ d.res_fully_sent = TRUE
      /\ d.buf = NONE /\ d.bitrate = 0 /\ d.chunk_name = NONE
  BY DEF Untouched
<1>2. H \in Seq(Parsed) /\ Len(H) = n /\ \A i \in 1 .. n : H[i] = Counted(d, i)
  OBVIOUS
<1>3. Q \in Seq(Nat) /\ Len(Q) = n /\ \A i \in 1 .. n : Q[i] = i
  OBVIOUS
<1>4. n = 0 => ~B
  OBVIOUS
<1> HIDE DEF H, Q, B
<1>5. Enqueued(d, n) = [d EXCEPT !.rbuf_req_count = @ - n, !.rbuf_head = ReqEnd(d, n),
                                 !.req_fully_received = Short(d) = {},
                                 !.http_reqs = <<>> \o H, !.req_queue = <<>> \o Q,
                                 !.http_req_p = IF Short(d) = {} THEN 0 + n ELSE 0,
                                 !.buf = IF B THEN "MSG411" ELSE NONE]
  BY <1>1 DEF Enqueued, req_enqueue, H, Q, B
<1>6. <<>> \o H = H /\ <<>> \o Q = Q /\ 0 + n = n
  BY <1>2, <1>3
<1>7. /\ DOMAIN r = Fields
      /\ r.rbuf = d.rbuf /\ r.rbuf_size = d.rbuf_size /\ r.parse_p = d.parse_p
      /\ r.http_reply_p = 0 /\ r.res_fully_sent = TRUE
      /\ r.bitrate = 0 /\ r.chunk_name = NONE
  BY <1>1, <1>5 DEF Fields
<1>8. r.rbuf_req_count = d.rbuf_req_count - n /\ r.rbuf_head = ReqEnd(d, n)
  BY <1>1, <1>5 DEF Fields
<1>9. r.req_fully_received = (Short(d) = {})
  BY <1>1, <1>5 DEF Fields
<1>10. r.http_reqs = H /\ r.req_queue = Q
  BY <1>1, <1>5, <1>6 DEF Fields
<1>11. /\ r.http_req_p = (IF Short(d) = {} THEN n ELSE 0)
       /\ r.buf = (IF B THEN "MSG411" ELSE NONE)
  BY <1>1, <1>5, <1>6 DEF Fields
<1> QED
  BY <1>2, <1>3, <1>4, <1>7, <1>8, <1>9, <1>10, <1>11 DEF Queued

\* The queue stays empty as long as the first request is short.
LEMMA NothingQueued ==
  ASSUME NEW d, NEW s \in Seq(Token), Holds(d, s), d.req_fully_received \in BOOLEAN,
         s # <<>>, Cardinality(Ends(d)) = 0 \/ 1 \in Short(d)
  PROVE  Collected(IF d.rbuf_req_count = 0 THEN nothing_parsed(d) ELSE parse_counted(d), s)
<1> DEFINE n == Cardinality(Ends(d))
<1>1. /\ HasText(d) /\ d.rbuf = s /\ Untouched(d) /\ d.rbuf_head = 0
      /\ Ends(d) = CRLF2Ends(s, 0) /\ d.rbuf_req_count = n
      /\ d.rbuf_size = Len(s) /\ d.parse_p = LastEnd(s)
  BY DEF Holds, Untouched, HasText, Ends
<1>2. n \in Nat /\ ReqEnd(d, 0) = 0
  BY <1>1, ReqEndRank
<1> HIDE DEF n
<1>3. CASE d.rbuf_req_count = 0
  <2> DEFINE r == nothing_parsed(d)
  <2>1. r = [d EXCEPT !.req_fully_received = FALSE]
    BY DEF nothing_parsed
  <2> HIDE DEF r
  <2>2. /\ Untouched(r) /\ r.rbuf = s /\ r.rbuf_size = Len(s) /\ r.parse_p = LastEnd(s)
        /\ r.rbuf_req_count = n /\ r.req_fully_received = FALSE
    BY <1>1, <2>1 DEF Untouched, Fields
  <2>3. Collected(r, s)
    BY <1>1, <2>2 DEF Collected, Holds, n
  <2> QED
    BY <1>3, <2>3 DEF r
<1>4. CASE d.rbuf_req_count # 0
  <2> DEFINE r == parse_counted(d)
  <2>1. 1 \in Short(d) /\ Short(d) \subseteq Nat
    BY <1>1, <1>2, <1>4 DEF Short, n
  <2>2. Min(Short(d)) = 1 /\ Short(d) # {}
    <3>1. Min(Short(d)) \in Short(d) /\ Min(Short(d)) <= 1
      BY <2>1, MinOf
    <3>2. Min(Short(d)) \in 1 .. d.rbuf_req_count
      BY <3>1 DEF Short
    <3> QED
      BY <1>1, <1>2, <2>1, <3>1, <3>2
  <2>3. r = Enqueued(d, 0)
    <3>1. (IF Short(d) = {} THEN d.rbuf_req_count ELSE Min(Short(d)) - 1) = 0
      BY <2>2
    <3> QED
      BY <3>1 DEF parse_counted, Enqueued
  <2>4. \A i \in 1 .. 0 : Counted(d, i) \in Parsed
    OBVIOUS
  <2> HIDE DEF r
  <2>5. Queued(d, 0, r)
    <3> DEFINE z == 0
    <3>1. z \in Nat /\ r = Enqueued(d, z) /\ Untouched(d)
      BY <1>1, <2>3
    <3>2. \A i \in 1 .. z : Counted(d, i) \in Parsed
      BY <2>4
    <3> HIDE DEF z
    <3>3. Queued(d, z, r)
      BY <3>1, <3>2, EnqueuedIs
    <3> QED
      BY <3>3 DEF z
  <2>6. r.http_reqs = <<>> /\ r.req_queue = <<>>
    BY <2>5 DEF Queued
  <2>7. d.rbuf_req_count - 0 = n
    BY <1>1, <1>2
  <2>8. Untouched(r) /\ r.rbuf_req_count = n /\ r.req_fully_received = FALSE
    BY <1>2, <2>2, <2>5, <2>6, <2>7 DEF Untouched, Queued
  <2>9. Collected(r, s)
    BY <1>1, <2>5, <2>8 DEF Collected, Holds, Queued, n
  <2> QED
    BY <1>4, <2>9 DEF r
<1> QED
  BY <1>3, <1>4

\* As many requests are queued as are whole, one at least when the first is.
Whole(d, i) == FullyReceived(d, Counted(d, i), ReqEnd(d, i))

LEMMA SomeQueued ==
  ASSUME NEW d, NEW s \in Seq(Token), Holds(d, s),
         Cardinality(Ends(d)) # 0, 1 \notin Short(d)
  PROVE  /\ d.rbuf_req_count # 0
         /\ \E n \in 1 .. Cardinality(Ends(d)) :
              /\ Queued(d, n, parse_counted(d))
              /\ \A i \in 1 .. n : Whole(d, i)
              /\ Short(d) = {} => n = Cardinality(Ends(d))
<1> DEFINE N == Cardinality(Ends(d))
           n == IF Short(d) = {} THEN N ELSE Min(Short(d)) - 1
           r == parse_counted(d)
<1>1. /\ HasText(d) /\ Untouched(d) /\ d.rbuf_req_count = N
  BY DEF Holds, Untouched, HasText, Ends
<1>2. N \in Nat /\ N # 0
  BY <1>1, ReqEndRank
<1>3. Short(d) = {i \in 1 .. N : ~Whole(d, i)}
  BY <1>1 DEF Short, Whole
<1>4. \A i \in 1 .. N : Counted(d, i) \in Parsed
  BY CountedIs
<1> HIDE DEF N
<1>5. n \in 1 .. N /\ \A i \in 1 .. n : i \notin Short(d)
  <2>1. CASE Short(d) = {}
    BY <1>2, <2>1
  <2>2. CASE Short(d) # {}
    <3>1. Short(d) \subseteq Nat /\ Short(d) \subseteq 1 .. N
      BY <1>2, <1>3
    <3>2. Min(Short(d)) \in Short(d) /\ \A x \in Short(d) : Min(Short(d)) <= x
      BY <2>2, <3>1, MinOf
    <3> DEFINE m == Min(Short(d))
    <3>3. m \in 1 .. N /\ m # 1 /\ n = m - 1 /\ \A x \in Short(d) : m <= x
      BY <2>2, <3>1, <3>2
    <3> HIDE DEF m, n
    <3> QED
      BY <1>2, <3>1, <3>3
  <2> QED
    BY <2>1, <2>2
<1>6. r = Enqueued(d, n)
  BY <1>1 DEF parse_counted, Enqueued
<1> HIDE DEF n, r
<1>7. \A i \in 1 .. n : i \in 1 .. N
  BY <1>2, <1>5
<1>8. Queued(d, n, r)
  BY <1>1, <1>2, <1>4, <1>5, <1>6, <1>7, EnqueuedIs
<1>9. \A i \in 1 .. n : Whole(d, i)
  BY <1>3, <1>5, <1>7
<1>10. Short(d) = {} => n = N
  BY DEF n
<1> QED
  BY <1>1, <1>2, <1>5, <1>8, <1>9, <1>10 DEF N, r

\* What recv_BROW has once a segment has been parsed: all that has come, until the
\* first request is whole.
Waiting(d) == Cardinality(Ends(d)) = 0 \/ 1 \in Short(d)

ParsedTo(w, r) ==
  \E d :
    /\ Holds(d, w)
    /\ Waiting(d) => Collected(r, w)
    /\ ~Waiting(d) => \E n \in 1 .. Cardinality(Ends(d)) :
                        /\ Queued(d, n, r)
                        /\ Short(d) = {} => n = Cardinality(Ends(d))

LEMMA ParseIs ==
  ASSUME NEW s \in Seq(Token), NEW u \in Seq(Token), u # <<>>, NEW b, Collected(b, s),
         NEW r, r = parse_request(recv_request(b, u))
  PROVE  ParsedTo(s \o u, r)
<1> DEFINE d == count_requests(recv_request(b, u))
           w == s \o u
<1>1. Holds(d, w) /\ d.req_fully_received \in BOOLEAN
  BY RecvCounts
<1>2. r = IF d.rbuf_req_count = 0 THEN nothing_parsed(d) ELSE parse_counted(d)
  BY DEF parse_request
<1>3. w \in Seq(Token) /\ w # <<>>
  OBVIOUS
<1> HIDE DEF d, w
<1>4. Waiting(d) => Collected(r, w)
  BY <1>1, <1>2, <1>3, NothingQueued DEF Waiting
<1>5. ASSUME ~Waiting(d)
      PROVE  \E n \in 1 .. Cardinality(Ends(d)) :
               /\ Queued(d, n, r)
               /\ Short(d) = {} => n = Cardinality(Ends(d))
  <2>1. d.rbuf_req_count # 0
    BY <1>1, <1>3, <1>5, SomeQueued DEF Waiting
  <2>2. r = parse_counted(d)
    BY <1>2, <2>1
  <2> QED
    BY <1>1, <1>3, <1>5, <2>2, SomeQueued DEF Waiting
<1> QED
  BY <1>1, <1>4, <1>5 DEF w, ParsedTo

\* The first request is parsed for what was sent, and waited for as long as it
\* has not come whole, its body included.
LEMMA FirstCounted ==
  ASSUME NEW q, NEW t, NEW O, NEW m, NEW s, Received1(q, t, O, m, s),
         NEW d, Holds(d, s), Cardinality(Ends(d)) # 0
  PROVE  /\ 1 \in 1 .. Cardinality(Ends(d))
         /\ ReqEnd(d, 0) = 0 /\ ReqEnd(d, 1) = Size(q[1]) /\ Size(q[1]) <= m
         /\ Counted(d, 1).method = q[1].method
         /\ Counted(d, 1).cont_len = q[1].cont_len
<1> DEFINE N == Cardinality(Ends(d))
<1>1. /\ HasText(d) /\ d.rbuf = s /\ d.rbuf_head = 0 /\ s \in Seq(Token) /\ Len(s) = m
      /\ Len(q) \in Nat \ {0} /\ O[0] = 0 /\ q[1] \in Request /\ m \in Nat
  BY ReceivedFacts DEF Holds, Untouched, HasText
<1>2. N \in Nat
  BY <1>1, ReqEndRank
<1>3. 1 \in 1 .. N /\ 1 - 1 = 0 /\ 1 \in 1 .. Len(q)
  BY <1>1, <1>2
<1>4. Size(q[1]) \in {3, 5}
  BY <1>1, TextIs
<1>5. ReqEnd(d, 0) = 0 /\ ReqEnd(d, 1) = Size(q[1])
  <2>1. \A i \in 1 .. Len(q) : i < 1 => q[i].body = <<>>
    BY <1>1
  <2>2. Received1(q, t, O, m, d.rbuf)
    BY <1>1
  <2>3. ReqEnd(d, 1 - 1) = O[1 - 1] /\ ReqEnd(d, 1) = O[1 - 1] + Size(q[1])
    <3>1. EndsAt(q, O, d, 1)
      BY <1>1, <1>3, <2>1, <2>2, ReqEnds DEF N, Bodiless
    <3> QED
      BY <3>1 DEF EndsAt
  <2> QED
    BY <1>1, <1>3, <1>4, <2>3
<1>6. /\ ReqEnd(d, 1) \in 1 .. Len(s)
      /\ Counted(d, 1).method = Method(s, ReqEnd(d, 1 - 1))
      /\ Counted(d, 1).cont_len = ContLen(s, ReqEnd(d, 1 - 1), ReqEnd(d, 1))
  BY <1>1, <1>3, CountedIs DEF N
<1>7. Size(q[1]) <= m
  BY <1>1, <1>4, <1>5, <1>6
<1>8. O[1 - 1] = 0 /\ O[1 - 1] + Size(q[1]) = Size(q[1])
  BY <1>1, <1>3, <1>4
<1>9. /\ Method(s, O[1 - 1]) = q[1].method
      /\ ContLen(s, O[1 - 1], O[1 - 1] + Size(q[1])) = q[1].cont_len
  BY <1>3, <1>7, <1>8, HeaderIs
<1> QED
  BY <1>3, <1>5, <1>6, <1>7, <1>8, <1>9 DEF N

LEMMA WaitsForFirst ==
  ASSUME NEW q, NEW t, NEW O, NEW m, NEW s, Received1(q, t, O, m, s),
         NEW d, Holds(d, s)
  PROVE  Waiting(d) <=> m < Len(Text(q[1]))
<1> DEFINE N == Cardinality(Ends(d))
           z == Size(q[1])
           l == Len(q[1].body)
<1>1. /\ HasText(d) /\ d.rbuf = s /\ d.rbuf_head = 0 /\ d.rbuf_size = m /\ Len(s) = m
      /\ Len(q) \in Nat \ {0} /\ O[0] = 0 /\ q[1] \in Request /\ m \in Nat
      /\ Ends(d) = CRLF2Ends(s, 0) /\ d.rbuf_req_count = N
  BY ReceivedFacts DEF Holds, Untouched, HasText, Ends
<1>2. z \in {3, 5} /\ Len(Text(q[1])) = z + l /\ l \in Nat /\ q[1].cont_len = l
  BY <1>1, TextIs, RequestIs
<1>3. CASE N = 0
  <2>1. Ends(d) = {}
    BY <1>1, <1>3, ReqEndRank, FS_EmptySet
  <2>2. 1 \in 1 .. Len(q) /\ 1 - 1 = 0
    BY <1>1
  <2>3. m >= O[1 - 1] + Size(q[1]) => O[1 - 1] + Size(q[1]) \in CRLF2Ends(s, 0)
    <3>1. O[1 - 1] \in CRLF2Ends(s, 0) \cup {0}
      BY <1>1, <2>2
    <3> QED
      BY <2>2, <3>1, HeaderEnd
  <2>4. ~(m >= 0 + z)
    BY <1>1, <2>1, <2>2, <2>3
  <2> HIDE DEF z, l
  <2>5. m < Len(Text(q[1]))
    BY <1>1, <1>2, <2>4
  <2> QED
    BY <1>3, <2>5 DEF Waiting
<1>4. CASE N # 0
  <2>1. /\ 1 \in 1 .. N /\ ReqEnd(d, 1) = z /\ z <= m
        /\ Counted(d, 1).method = q[1].method /\ Counted(d, 1).cont_len = l
    BY <1>2, <1>4, FirstCounted
  <2>2. Waiting(d) <=> ~Whole(d, 1)
    BY <1>1, <1>4, <2>1 DEF Waiting, Short, Whole
  <2>3. Whole(d, 1) <=> q[1].method # "POST" \/ (q[1].method = "POST" /\ l = 0) \/ m - z >= l
    BY <1>1, <2>1 DEF Whole, FullyReceived, NoLength
  <2>4. q[1].method # "POST" => l = 0
    BY <1>1, RequestIs
  <2> HIDE DEF z, l
  <2>5. l = 0 => m - z >= l
    BY <1>1, <1>2, <2>1
  <2>6. m - z >= l <=> ~(m < z + l)
    BY <1>1, <1>2
  <2> QED
    BY <1>2, <2>2, <2>3, <2>4, <2>5, <2>6
<1> QED
  BY <1>3, <1>4

(***************************************************************************)
(* The rewriting of a request.                                             *)
(***************************************************************************)

\* i is the first place of s that is in K, 0 if there is none.
FirstOf(i, s, K) ==
  \/ i = 0 /\ \A k \in 1 .. Len(s) : s[k] \notin K
  \/ i \in 1 .. Len(s) /\ s[i] \in K /\ \A k \in 1 .. Len(s) : s[k] \in K => i <= k

IsVod(k) == k.t = "line" /\ k.file \in {"f4m", "nolist", "chunk"}
IsSeg(k) == k.t = "line" /\ k.file \in {"chunk", "seg"}
IsF4m(k) == k.t = "line" /\ k.file = "f4m"
IsAlive(k) == k.t = "headers" /\ k.alive

Vods   == {k \in Token : IsVod(k)}
Segs   == {k \in Token : IsSeg(k)}
F4ms   == {k \in Token : IsF4m(k)}
Alives == {k \in Token : IsAlive(k)}

\* What strstr returns.
LEMMA FoundIs ==
  ASSUME NEW s \in Seq(Token)
  PROVE  /\ FirstOf(Vod(s), s, Vods) /\ FirstOf(Seg(s), s, Segs)
         /\ FirstOf(F4m(s), s, F4ms) /\ FirstOf(KeepAlive(s), s, Alives)
<1>1. Len(s) \in Nat /\ \A k \in 1 .. Len(s) : s[k] \in Token /\ k \in Nat
  OBVIOUS
<1>2. ASSUME NEW K, NEW i, NEW P, P = {k \in 1 .. Len(s) : s[k] \in K},
             i = IF P # {} THEN Min(P) ELSE 0
      PROVE  FirstOf(i, s, K)
  <2>1. P \subseteq Nat
    BY <1>1, <1>2
  <2>2. CASE P = {}
    BY <1>2, <2>2 DEF FirstOf
  <2>3. CASE P # {}
    <3>1. i \in P /\ \A j \in P : i <= j
      BY <1>2, <2>1, <2>3, MinOf
    <3> QED
      BY <1>2, <3>1 DEF FirstOf
  <2> QED
    BY <2>2, <2>3
<1>3. FirstOf(Vod(s), s, Vods)
  <2> DEFINE P == {k \in 1 .. Len(s) : s[k].t = "line" /\ s[k].file \in {"f4m", "nolist", "chunk"}}
  <2>1. P = {k \in 1 .. Len(s) : s[k] \in Vods}
    BY <1>1 DEF Vods, IsVod
  <2>2. Vod(s) = IF P # {} THEN Min(P) ELSE 0
    BY DEF Vod, SelectInSeq
  <2> HIDE DEF P
  <2> QED
    BY <1>2, <2>1, <2>2
<1>4. FirstOf(Seg(s), s, Segs)
  <2> DEFINE P == {k \in 1 .. Len(s) : s[k].t = "line" /\ s[k].file \in {"chunk", "seg"}}
  <2>1. P = {k \in 1 .. Len(s) : s[k] \in Segs}
    BY <1>1 DEF Segs, IsSeg
  <2>2. Seg(s) = IF P # {} THEN Min(P) ELSE 0
    BY DEF Seg, SelectInSeq
  <2> HIDE DEF P
  <2> QED
    BY <1>2, <2>1, <2>2
<1>5. FirstOf(F4m(s), s, F4ms)
  <2> DEFINE P == {k \in 1 .. Len(s) : s[k].t = "line" /\ s[k].file = "f4m"}
  <2>1. P = {k \in 1 .. Len(s) : s[k] \in F4ms}
    BY <1>1 DEF F4ms, IsF4m
  <2>2. F4m(s) = IF P # {} THEN Min(P) ELSE 0
    BY DEF F4m, SelectInSeq
  <2> HIDE DEF P
  <2> QED
    BY <1>2, <2>1, <2>2
<1>6. FirstOf(KeepAlive(s), s, Alives)
  <2> DEFINE P == {k \in 1 .. Len(s) : s[k].t = "headers" /\ s[k].alive}
  <2>1. P = {k \in 1 .. Len(s) : s[k] \in Alives}
    BY <1>1 DEF Alives, IsAlive
  <2>2. KeepAlive(s) = IF P # {} THEN Min(P) ELSE 0
    BY DEF KeepAlive, SelectInSeq
  <2> HIDE DEF P
  <2> QED
    BY <1>2, <2>1, <2>2
<1> QED
  BY <1>3, <1>4, <1>5, <1>6

\* A request has been taken out of the queue.
Serving(b) ==
  /\ DOMAIN b = Fields
  /\ b.rbuf \in Seq(Token)
  /\ b.http_reqs \in Seq(Parsed)
  /\ \A k \in 1 .. Len(b.http_reqs) : b.http_reqs[k].orig_req \in Seq(Token)
  /\ b.http_reply_p = 1 /\ 1 \in 1 .. Len(b.http_reqs)
  /\ b.http_req_p \in 1 .. Len(b.http_reqs)
  /\ b.bitrate \in Nat /\ b.chunk_name \in Token \cup {NONE}

\* Nothing changes from b to d but texts, bitrate and chunk_name.
Same(b, d) ==
  /\ d.rbuf = b.rbuf /\ d.rbuf_size = b.rbuf_size /\ d.rbuf_head = b.rbuf_head
  /\ d.parse_p = b.parse_p /\ d.rbuf_req_count = b.rbuf_req_count
  /\ d.req_fully_received = b.req_fully_received /\ d.req_queue = b.req_queue
  /\ d.http_req_p = b.http_req_p /\ d.http_reply_p = b.http_reply_p
  /\ d.res_fully_sent = b.res_fully_sent /\ d.buf = b.buf
  /\ Len(d.http_reqs) = Len(b.http_reqs)
  /\ \A k \in 1 .. Len(b.http_reqs) :
       /\ d.http_reqs[k].method = b.http_reqs[k].method
       /\ d.http_reqs[k].cont_len = b.http_reqs[k].cont_len

LEMMA SameChain ==
  ASSUME NEW b, NEW d, NEW e, Same(b, d), Same(d, e)
  PROVE  Same(b, e)
  BY DEF Same

\* The text of the p-th request is exchanged for o.
WithText(b, p, o) == [b EXCEPT !.http_reqs[p].orig_req = o]

LEMMA Retexted ==
  ASSUME NEW b, Serving(b), NEW p \in 1 .. Len(b.http_reqs), NEW o \in Seq(Token),
         NEW d, d = WithText(b, p, o)
  PROVE  /\ Serving(d) /\ Same(b, d)
         /\ d.http_reqs[p].orig_req = o
         /\ d.bitrate = b.bitrate /\ d.chunk_name = b.chunk_name
<1> DEFINE R == b.http_reqs
           x == [R[p] EXCEPT !.orig_req = o]
           H == [R EXCEPT ![p] = x]
<1>1. /\ DOMAIN b = Fields /\ R \in Seq(Parsed) /\ Len(R) \in Nat
      /\ \A k \in 1 .. Len(R) : R[k] \in Parsed /\ R[k].orig_req \in Seq(Token)
  BY DEF Serving
<1>2. d = [b EXCEPT !.http_reqs = H]
  BY DEF WithText
<1>3. /\ d.http_reqs = H /\ DOMAIN d = Fields
      /\ d.rbuf = b.rbuf /\ d.rbuf_size = b.rbuf_size /\ d.rbuf_head = b.rbuf_head
      /\ d.parse_p = b.parse_p /\ d.rbuf_req_count = b.rbuf_req_count
      /\ d.req_fully_received = b.req_fully_received /\ d.req_queue = b.req_queue
      /\ d.http_req_p = b.http_req_p /\ d.http_reply_p = b.http_reply_p
      /\ d.res_fully_sent = b.res_fully_sent /\ d.buf = b.buf
      /\ d.bitrate = b.bitrate /\ d.chunk_name = b.chunk_name
  BY <1>1, <1>2 DEF Fields
<1>4. /\ x \in Parsed /\ x.orig_req = o
      /\ x.method = R[p].method /\ x.cont_len = R[p].cont_len
  <2>1. R[p] \in Parsed
    BY <1>1
  <2> QED
    BY <2>1 DEF Parsed
<1> HIDE DEF x
<1>5. /\ H \in Seq(Parsed) /\ Len(H) = Len(R) /\ H[p] = x
      /\ \A k \in 1 .. Len(R) : k # p => H[k] = R[k]
  BY <1>1, <1>4
<1> HIDE DEF H, R
<1>6. \A k \in 1 .. Len(R) :
        /\ H[k].method = R[k].method /\ H[k].cont_len = R[k].cont_len
        /\ H[k].orig_req \in Seq(Token)
  <2> SUFFICES ASSUME NEW k \in 1 .. Len(R)
               PROVE  /\ H[k].method = R[k].method /\ H[k].cont_len = R[k].cont_len
                      /\ H[k].orig_req \in Seq(Token)
    OBVIOUS
  <2>1. CASE k = p
    BY <1>4, <1>5, <2>1
  <2>2. CASE k # p
    BY <1>1, <1>5, <2>2
  <2> QED
    BY <2>1, <2>2
<1>7. Same(b, d)
  BY <1>3, <1>5, <1>6 DEF Same, R
<1>8. Serving(d)
  BY <1>3, <1>5, <1>6 DEF Serving, R
<1> QED
  BY <1>3, <1>4, <1>5, <1>7, <1>8

\* Tokens stay tokens when they are rewritten.
LEMMA TokensRewritten ==
  /\ \A k \in F4ms : [k EXCEPT !.file = "nolist"] \in Vods
  /\ \A k \in Vods, r \in Nat : [k EXCEPT !.file = "chunk", !.rate = r] \in Vods
  /\ \A k \in Alives : [k EXCEPT !.alive = FALSE] \in Token
  /\ \A k \in Vods : k \in Token /\ k.rate \in Nat
<1> DEFINE L == [ t : {"line"}, method : {"GET", "POST"}, rate : Nat,
                  file : {"page", "f4m", "nolist", "chunk", "seg"} ]
           H == [t : {"headers"}, cont_len : Nat, alive : BOOLEAN]
<1>1. \A k \in Vods : k \in L /\ k \in Token
  BY DEF Vods, IsVod, Token
<1>2. \A k \in F4ms : k \in L
  BY DEF F4ms, IsF4m, Token
<1>3. \A k \in Alives : k \in H
  BY DEF Alives, IsAlive, Token
<1>4. \A k \in L : k.file \in {"f4m", "nolist", "chunk"} => k \in Vods
  BY DEF Vods, IsVod, Token
<1>5. \A k \in H : k \in Token
  BY DEF Token
<1>6. ASSUME NEW k \in F4ms PROVE [k EXCEPT !.file = "nolist"] \in Vods
  <2>1. k \in L
    BY <1>2
  <2>2. [k EXCEPT !.file = "nolist"] \in L /\ [k EXCEPT !.file = "nolist"].file = "nolist"
    BY <2>1
  <2> HIDE DEF L
  <2> QED
    BY <1>4, <2>2
<1>7. ASSUME NEW k \in Vods, NEW r \in Nat
      PROVE  [k EXCEPT !.file = "chunk", !.rate = r] \in Vods
  <2>1. k \in L
    BY <1>1
  <2>2. /\ [k EXCEPT !.file = "chunk", !.rate = r] \in L
        /\ [k EXCEPT !.file = "chunk", !.rate = r].file = "chunk"
    BY <2>1
  <2> HIDE DEF L
  <2> QED
    BY <1>4, <2>2
<1>8. ASSUME NEW k \in Alives PROVE [k EXCEPT !.alive = FALSE] \in Token
  <2>1. k \in H
    BY <1>3
  <2>2. [k EXCEPT !.alive = FALSE] \in H
    BY <2>1
  <2> HIDE DEF H
  <2> QED
    BY <1>5, <2>2
<1>9. \A k \in Vods : k \in Token /\ k.rate \in Nat
  BY <1>1
<1> QED
  BY <1>6, <1>7, <1>8, <1>9

\* A text with "Seg" in it has "/vod/" in it.
Named(o) == Seg(o) # 0 => Vod(o) # 0

LEMMA VodNames ==
  ASSUME NEW o \in Seq(Token), NEW k \in 1 .. Len(o), o[k] \in Vods
  PROVE  Named(o)
<1>1. FirstOf(Vod(o), o, Vods) /\ Len(o) \in Nat
  BY FoundIs
<1>2. Vod(o) # 0
  BY <1>1 DEF FirstOf
<1> QED
  BY <1>2 DEF Named

NolistText(s) == [s EXCEPT ![F4m(s)].file = "nolist"]

LEMMA NolistIs ==
  ASSUME NEW b, Serving(b), Named(LastParsed(b)), NEW d, d = return_nolist(b)
  PROVE  /\ Serving(d) /\ Same(b, d) /\ Named(LastParsed(d))
         /\ d.bitrate = b.bitrate /\ d.chunk_name = b.chunk_name
         /\ F4m(b.rbuf) = 0 => d = b
         /\ F4m(b.rbuf) # 0 => d.http_reqs[1].orig_req = NolistText(b.rbuf)
<1> DEFINE s == b.rbuf
           i == F4m(s)
<1>1. /\ s \in Seq(Token) /\ b.http_reply_p = 1 /\ 1 \in 1 .. Len(b.http_reqs)
      /\ b.http_req_p \in 1 .. Len(b.http_reqs)
  BY DEF Serving
<1>2. FirstOf(i, s, F4ms) /\ Len(s) \in Nat
  BY <1>1, FoundIs
<1>3. CASE i = 0
  <2>1. d = b
    BY <1>3 DEF return_nolist
  <2> QED
    BY <1>3, <2>1 DEF Same
<1>4. CASE i # 0
  <2> DEFINE k == [s[i] EXCEPT !.file = "nolist"]
             o == [s EXCEPT ![i] = k]
  <2>1. i \in 1 .. Len(s) /\ s[i] \in F4ms
    BY <1>2, <1>4 DEF FirstOf
  <2>2. k \in Vods /\ k \in Token
    BY <2>1, TokensRewritten
  <2> HIDE DEF k, i, s
  <2>3. o \in Seq(Token) /\ Len(o) = Len(s) /\ o[i] = k
    BY <1>1, <1>2, <2>1, <2>2
  <2>4. NolistText(s) = o
    BY DEF NolistText, k, i
  <2>5. d = WithText(b, 1, o)
    BY <1>1, <1>4, <2>4 DEF return_nolist, NolistText, WithText, s, i
  <2> HIDE DEF o
  <2>6. /\ Serving(d) /\ Same(b, d) /\ d.http_reqs[1].orig_req = o
        /\ d.bitrate = b.bitrate /\ d.chunk_name = b.chunk_name
    BY <1>1, <2>3, <2>5, Retexted
  <2>7. Named(o)
    BY <2>1, <2>2, <2>3, VodNames
  <2>8. Named(LastParsed(d))
    <3>1. CASE b.http_req_p = 1
      <4>1. LastParsed(d) = o
        BY <2>6, <3>1 DEF LastParsed, Same
      <4> QED
        BY <2>7, <4>1
    <3>2. CASE b.http_req_p # 1
      <4>1. d.http_req_p = b.http_req_p
        BY <2>6 DEF Same
      <4>2. d.http_reqs[b.http_req_p] = b.http_reqs[b.http_req_p]
        BY <1>1, <2>5, <3>2 DEF Serving, Fields, WithText
      <4> QED
        BY <4>1, <4>2 DEF LastParsed
    <3> QED
      BY <3>1, <3>2
  <2> QED
    BY <1>4, <2>4, <2>6, <2>8 DEF s, i
<1> QED
  BY <1>3, <1>4

Ordered(s) == Seg(s) # 0 => Vod(s) # 0 /\ Vod(s) <= Seg(s)

ChunkAt(k, r) == [k EXCEPT !.file = "chunk", !.rate = r]

RateText(s, r) ==
  SubSeq(s, 1, Vod(s) - 1) \o <<ChunkAt(s[Vod(s)], r)>> \o SubSeq(s, Seg(s) + 1, Len(s))

LEMMA RateTextIs ==
  ASSUME NEW s \in Seq(Token), Seg(s) # 0, Ordered(s), NEW r \in Nat
  PROVE  /\ RateText(s, r) \in Seq(Token) /\ Vod(s) \in 1 .. Len(s)
         /\ s[Vod(s)].rate \in Nat /\ ChunkAt(s[Vod(s)], r) \in Vods
         /\ Len(RateText(s, r)) = Vod(s) + (Len(s) - Seg(s))
         /\ RateText(s, r)[Vod(s)] = ChunkAt(s[Vod(s)], r)
         /\ \A k \in 1 .. Len(s) - Seg(s) : RateText(s, r)[Vod(s) + k] = s[Seg(s) + k]
<1> DEFINE i == Vod(s)
           j == Seg(s)
           c == ChunkAt(s[i], r)
           a == SubSeq(s, 1, i - 1)
           e == SubSeq(s, j + 1, Len(s))
<1>1. FirstOf(i, s, Vods) /\ FirstOf(j, s, Segs) /\ Len(s) \in Nat
  BY FoundIs
<1>2. i \in 1 .. Len(s) /\ s[i] \in Vods /\ j \in 1 .. Len(s) /\ i <= j
  BY <1>1 DEF FirstOf, Ordered
<1>3. c \in Vods /\ c \in Token /\ s[i].rate \in Nat
  BY <1>2, TokensRewritten DEF ChunkAt
<1>4. RateText(s, r) = a \o <<c>> \o e
  BY DEF RateText
<1> HIDE DEF i, j, c
<1>5. a \in Seq(Token) /\ Len(a) = i - 1
  BY <1>1, <1>2
<1>6. e \in Seq(Token) /\ Len(e) = Len(s) - j /\ \A k \in 1 .. Len(s) - j : e[k] = s[j + k]
  <2>1. j + 1 \in 1 .. Len(s) + 1 /\ Len(s) \in 0 .. Len(s)
    BY <1>1, <1>2
  <2>2. e \in Seq(Token)
    BY <1>1, <2>1
  <2>3. Len(e) = Len(s) - j
    BY <1>1, <1>2
  <2>4. ASSUME NEW k \in 1 .. Len(s) - j PROVE e[k] = s[j + k]
    <3>1. k \in 1 .. Len(e) /\ (j + 1) + k - 1 = j + k
      BY <1>1, <1>2, <2>3
    <3>2. k \in 1 .. Len(s) - (j + 1) + 1
      BY <1>1, <1>2
    <3>3. SubSeq(s, j + 1, Len(s))[k] = s[(j + 1) + k - 1]
      BY <1>1, <1>2, <3>2
    <3> QED
      BY <3>1, <3>3
  <2> QED
    BY <2>2, <2>3, <2>4
<1> HIDE DEF a, e
<1> DEFINE b == a \o <<c>>
<1>7. <<c>> \in Seq(Token) /\ Len(<<c>>) = 1 /\ <<c>>[1] = c
  BY <1>3
<1>8. b \in Seq(Token) /\ Len(b) = Len(a) + 1 /\ b[Len(a) + 1] = c
  BY <1>3, <1>5
<1>9. Len(b) = i /\ b[i] = c
  BY <1>1, <1>2, <1>5, <1>8
<1> HIDE DEF b
<1> DEFINE o == b \o e
<1>10. /\ o \in Seq(Token) /\ Len(o) = Len(b) + Len(e)
       /\ \A k \in 1 .. Len(b) : o[k] = b[k]
       /\ \A k \in 1 .. Len(e) : o[Len(b) + k] = e[k]
  <2>1. b \in Seq(Token) /\ e \in Seq(Token)
    BY <1>6, <1>8
  <2> QED
    BY <2>1
<1>11. RateText(s, r) = o
  BY <1>4 DEF b, o
<1> HIDE DEF o
<1>12. o \in Seq(Token) /\ Len(o) = i + (Len(s) - j) /\ o[i] = c
  BY <1>2, <1>6, <1>9, <1>10
<1>13. \A k \in 1 .. Len(s) - j : o[i + k] = s[j + k]
  BY <1>6, <1>9, <1>10
<1> QED
  BY <1>2, <1>3, <1>11, <1>12, <1>13 DEF i, j, c

LEMMA RateIs ==
  ASSUME NEW b, Serving(b), Named(LastParsed(b)), Ordered(b.rbuf), new_rate \in Nat,
         NEW d, d = change_rate(b)
  PROVE  /\ Serving(d) /\ Same(b, d) /\ Named(LastParsed(d))
         /\ d.chunk_name = b.chunk_name
         /\ Seg(b.rbuf) = 0 => d = b
         /\ Seg(b.rbuf) # 0 /\ avg_tput = 0 =>
              /\ d.http_reqs = b.http_reqs
              /\ d.bitrate = (IF Vod(b.rbuf) = Seg(b.rbuf) THEN b.rbuf[Vod(b.rbuf)].rate ELSE 0)
         /\ Seg(b.rbuf) # 0 /\ avg_tput # 0 =>
              /\ d.http_reqs[1].orig_req = RateText(b.rbuf, new_rate)
              /\ d.bitrate = new_rate
<1> DEFINE s == b.rbuf
           i == Vod(s)
           j == Seg(s)
<1>1. /\ s \in Seq(Token) /\ b.http_reply_p = 1 /\ 1 \in 1 .. Len(b.http_reqs)
      /\ b.http_req_p \in 1 .. Len(b.http_reqs)
  BY DEF Serving
<1>2. CASE j = 0
  <2>1. d = b
    BY <1>2 DEF change_rate
  <2> QED
    BY <1>2, <2>1 DEF Same
<1>3. CASE j # 0 /\ avg_tput = 0
  <2> DEFINE r == IF i = j THEN s[i].rate ELSE 0
  <2>1. r \in Nat
    BY <1>1, <1>3, RateTextIs
  <2>2. d = [b EXCEPT !.bitrate = r]
    BY <1>3 DEF change_rate
  <2> HIDE DEF r
  <2>3. d.bitrate = r /\ d.http_reqs = b.http_reqs /\ d.http_req_p = b.http_req_p
    BY <2>2 DEF Serving, Fields
  <2>4. Serving(d)
    BY <2>1, <2>2 DEF Serving, Fields
  <2>5. Same(b, d) /\ d.chunk_name = b.chunk_name
    BY <2>2 DEF Serving, Fields, Same
  <2> QED
    BY <1>3, <2>3, <2>4, <2>5 DEF r, LastParsed
<1>4. CASE j # 0 /\ avg_tput # 0
  <2> DEFINE e == [b EXCEPT !.bitrate = new_rate]
             o == RateText(s, new_rate)
  <2>1. /\ o \in Seq(Token) /\ i \in 1 .. Len(s) /\ o[i] = ChunkAt(s[i], new_rate)
        /\ ChunkAt(s[i], new_rate) \in Vods /\ Len(o) = i + (Len(s) - j) /\ Len(s) \in Nat
        /\ j \in 1 .. Len(s)
    <3>1. FirstOf(j, s, Segs) /\ Len(s) \in Nat
      BY <1>1, FoundIs
    <3>2. j \in 1 .. Len(s)
      BY <1>4, <3>1 DEF FirstOf
    <3> QED
      BY <1>1, <1>4, <3>1, <3>2, RateTextIs
  <2>2. Named(o)
    <3> HIDE DEF o, i, j, s
    <3>1. i \in 1 .. Len(o)
      BY <2>1
    <3> QED
      BY <2>1, <3>1, VodNames
  <2>3. d = [b EXCEPT !.bitrate = new_rate, !.http_reqs[1].orig_req = o]
    BY <1>1, <1>4 DEF change_rate, RateText, ChunkAt
  <2> HIDE DEF o
  <2>4. d = [e EXCEPT !.http_reqs[1].orig_req = o]
    BY <2>3
  <2>5. /\ e.bitrate = new_rate /\ e.http_reqs = b.http_reqs
        /\ e.http_req_p = b.http_req_p /\ e.chunk_name = b.chunk_name
    BY DEF Serving, Fields
  <2>6. Serving(e)
    BY DEF Serving, Fields
  <2>7. Same(b, e)
    BY DEF Serving, Fields, Same
  <2> HIDE DEF e
  <2>8. /\ Serving(d) /\ Same(e, d) /\ d.http_reqs[1].orig_req = o
        /\ d.bitrate = e.bitrate /\ d.chunk_name = e.chunk_name
    <3>1. 1 \in 1 .. Len(e.http_reqs) /\ d = WithText(e, 1, o)
      BY <1>1, <2>4, <2>5 DEF WithText
    <3> QED
      BY <2>1, <2>6, <3>1, Retexted
  <2>9. Named(LastParsed(d))
    <3>1. CASE b.http_req_p = 1
      <4>1. LastParsed(d) = o
        BY <2>5, <2>8, <3>1 DEF LastParsed, Same
      <4> QED
        BY <2>2, <4>1
    <3>2. CASE b.http_req_p # 1
      <4>1. d.http_req_p = b.http_req_p
        BY <2>5, <2>8 DEF Same
      <4>2. d.http_reqs[b.http_req_p] = b.http_reqs[b.http_req_p]
        <5>1. d.http_reqs = [e.http_reqs EXCEPT ![1].orig_req = o]
          BY <2>4, <2>6 DEF Serving, Fields
        <5> QED
          BY <1>1, <2>5, <3>2, <5>1 DEF Serving
      <4> QED
        BY <4>1, <4>2 DEF LastParsed
    <3> QED
      BY <3>1, <3>2
  <2>10. Same(b, d)
    BY <2>7, <2>8, SameChain
  <2> QED
    BY <1>4, <2>5, <2>8, <2>9, <2>10 DEF o
<1> QED
  BY <1>2, <1>3, <1>4

LEMMA NameIs ==
  ASSUME NEW b, Serving(b), Named(LastParsed(b)), NEW d, d = log_chunkname(b)
  PROVE  /\ Serving(d) /\ Same(b, d)
         /\ d.http_reqs = b.http_reqs /\ d.bitrate = b.bitrate
         /\ Seg(LastParsed(b)) = 0 => d = b
         /\ Seg(LastParsed(b)) # 0 => d.chunk_name = LastParsed(b)[Vod(LastParsed(b))]
<1> DEFINE o == LastParsed(b)
           k == o[Vod(o)]
<1>1. o \in Seq(Token)
  BY DEF Serving, LastParsed
<1>2. CASE Seg(o) = 0
  <2>1. d = b
    BY <1>2 DEF log_chunkname
  <2> QED
    BY <1>2, <2>1 DEF Same
<1>3. CASE Seg(o) # 0
  <2>1. k \in Token
    <3>1. FirstOf(Vod(o), o, Vods) /\ Vod(o) # 0
      BY <1>1, <1>3, FoundIs DEF Named
    <3>2. k \in Vods
      BY <3>1 DEF FirstOf
    <3> QED
      BY <3>2, TokensRewritten
  <2>2. d = [b EXCEPT !.chunk_name = k]
    BY <1>3 DEF log_chunkname
  <2> HIDE DEF k
  <2>3. d.chunk_name = k /\ d.http_reqs = b.http_reqs /\ d.bitrate = b.bitrate
    BY <2>2 DEF Serving, Fields
  <2>4. Serving(d)
    BY <2>1, <2>2 DEF Serving, Fields
  <2>5. Same(b, d)
    BY <2>2 DEF Serving, Fields, Same
  <2> QED
    BY <1>3, <2>3, <2>4, <2>5 DEF k
<1> QED
  BY <1>2, <1>3

CloseText(o) == [o EXCEPT ![KeepAlive(o)].alive = FALSE]

LEMMA CloseIs ==
  ASSUME NEW b, Serving(b), NEW d, d = switch_to_close(b)
  PROVE  /\ Serving(d) /\ Same(b, d)
         /\ d.bitrate = b.bitrate /\ d.chunk_name = b.chunk_name
         /\ KeepAlive(LastParsed(b)) = 0 => d = b
         /\ KeepAlive(LastParsed(b)) # 0 =>
              d.http_reqs[b.http_req_p].orig_req = CloseText(LastParsed(b))
<1> DEFINE o == LastParsed(b)
           i == KeepAlive(o)
           p == b.http_req_p
<1>1. o \in Seq(Token) /\ p \in 1 .. Len(b.http_reqs) /\ o = b.http_reqs[p].orig_req
  BY DEF Serving, LastParsed
<1>2. CASE i = 0
  <2>1. d = b
    BY <1>2 DEF switch_to_close
  <2> QED
    BY <1>2, <2>1 DEF Same
<1>3. CASE i # 0
  <2>1. d = [b EXCEPT !.http_reqs[p].orig_req[i].alive = FALSE]
    BY <1>3 DEF switch_to_close
  <2> HIDE DEF i, p
  <2> DEFINE k == [o[i] EXCEPT !.alive = FALSE]
             e == [o EXCEPT ![i] = k]
  <2>2. i \in 1 .. Len(o) /\ o[i] \in Alives /\ Len(o) \in Nat
    <3>1. FirstOf(i, o, Alives)
      BY <1>1, FoundIs DEF i
    <3> QED
      BY <1>1, <1>3, <3>1 DEF FirstOf
  <2>3. k \in Token
    BY <2>2, TokensRewritten
  <2>4. d = WithText(b, p, e)
    BY <1>1, <2>1 DEF WithText
  <2> HIDE DEF k, o
  <2>5. e \in Seq(Token)
    BY <1>1, <2>2, <2>3
  <2>6. CloseText(o) = e
    BY DEF CloseText, k, i
  <2> HIDE DEF e
  <2>7. /\ Serving(d) /\ Same(b, d) /\ d.http_reqs[p].orig_req = e
        /\ d.bitrate = b.bitrate /\ d.chunk_name = b.chunk_name
    BY <1>1, <2>4, <2>5, Retexted
  <2> QED
    BY <1>3, <2>6, <2>7 DEF o, i, p
<1> QED
  BY <1>2, <1>3

\* d is b once the first of n requests is taken out of the queue.
Dequeued(d0, s, n, b, d) ==
  /\ Serving(d) /\ d.http_reqs = b.http_reqs /\ d.http_req_p = n
  /\ d.rbuf = s /\ d.rbuf_size = Len(s) /\ d.rbuf_head = ReqEnd(d0, n)
  /\ d.parse_p = LastEnd(s) /\ d.rbuf_req_count = Cardinality(Ends(d0)) - n
  /\ d.req_fully_received \in BOOLEAN /\ d.res_fully_sent = FALSE
  /\ d.req_queue \in Seq(Nat) /\ Len(d.req_queue) = n - 1
  /\ \A i \in 1 .. n - 1 : d.req_queue[i] = i + 1
  /\ d.buf \in {NONE, "MSG411"} /\ d.bitrate = 0 /\ d.chunk_name = NONE

LEMMA DequeueIs ==
  ASSUME NEW d0, NEW s \in Seq(Token), Holds(d0, s),
         NEW n \in 1 .. Cardinality(Ends(d0)), NEW b, Queued(d0, n, b),
         Short(d0) = {}, NEW d, d = dequeue_request(b)
  PROVE  Dequeued(d0, s, n, b, d)
<1> DEFINE N == Cardinality(Ends(d0))
<1>1. /\ HasText(d0) /\ d0.rbuf = s /\ d0.rbuf_size = Len(s) /\ d0.parse_p = LastEnd(s)
      /\ d0.rbuf_req_count = N
  BY DEF Holds, Untouched, HasText, Ends
<1>2. N \in Nat /\ n \in Nat /\ n # 0
  <2>1. N \in Nat
    BY <1>1, ReqEndRank
  <2> QED
    BY <2>1
<1>3. /\ DOMAIN b = Fields
      /\ b.rbuf = s /\ b.rbuf_size = Len(s) /\ b.parse_p = LastEnd(s)
      /\ b.rbuf_req_count = N - n /\ b.rbuf_head = ReqEnd(d0, n)
      /\ b.req_fully_received \in BOOLEAN
      /\ b.http_reqs \in Seq(Parsed) /\ Len(b.http_reqs) = n
      /\ \A i \in 1 .. n : b.http_reqs[i] = Counted(d0, i)
      /\ b.req_queue \in Seq(Nat) /\ Len(b.req_queue) = n
      /\ \A i \in 1 .. n : b.req_queue[i] = i
      /\ b.http_req_p = n /\ b.res_fully_sent = TRUE
      /\ b.buf \in {NONE, "MSG411"} /\ b.bitrate = 0 /\ b.chunk_name = NONE
  BY <1>1 DEF Queued
<1> DEFINE q == b.req_queue
<1>4. Head(q) = 1 /\ q # <<>>
  <2>1. Head(q) = q[1]
    BY <1>2, <1>3
  <2>2. 1 \in 1 .. n
    BY <1>2
  <2> QED
    BY <1>3, <2>1, <2>2
<1>5. /\ Tail(q) \in Seq(Nat) /\ Len(Tail(q)) = n - 1
      /\ \A i \in 1 .. n - 1 : Tail(q)[i] = i + 1
  <2>1. q \in Seq(Nat) /\ Len(q) = n /\ \A i \in 1 .. n : q[i] = i
    BY <1>3
  <2> HIDE DEF q
  <2>2. Tail(q) \in Seq(Nat) /\ Len(Tail(q)) = n - 1
    BY <1>2, <1>4, <2>1
  <2>3. ASSUME NEW i \in 1 .. n - 1 PROVE Tail(q)[i] = i + 1
    <3>1. i + 1 \in 1 .. n
      BY <1>2
    <3>2. Tail(q)[i] = q[i + 1]
      BY <1>2, <1>4, <2>1
    <3> QED
      BY <2>1, <3>1, <3>2
  <2> QED
    BY <2>2, <2>3
<1>6. d = [b EXCEPT !.http_reply_p = 1, !.req_queue = Tail(q), !.res_fully_sent = FALSE]
  BY <1>3, <1>4 DEF dequeue_request
<1>7. /\ DOMAIN d = Fields
      /\ d.rbuf = b.rbuf /\ d.rbuf_size = b.rbuf_size /\ d.rbuf_head = b.rbuf_head
      /\ d.parse_p = b.parse_p /\ d.rbuf_req_count = b.rbuf_req_count
      /\ d.req_fully_received = b.req_fully_received
      /\ d.http_reqs = b.http_reqs /\ d.http_req_p = b.http_req_p
      /\ d.buf = b.buf /\ d.bitrate = b.bitrate /\ d.chunk_name = b.chunk_name
  BY <1>3, <1>6 DEF Fields
<1>8. d.http_reply_p = 1 /\ d.req_queue = Tail(q) /\ d.res_fully_sent = FALSE
  BY <1>3, <1>6 DEF Fields
<1>9. \A k \in 1 .. Len(b.http_reqs) : b.http_reqs[k].orig_req \in Seq(Token)
  <2> SUFFICES ASSUME NEW k \in 1 .. n PROVE b.http_reqs[k].orig_req \in Seq(Token)
    BY <1>3
  <2>1. k \in 1 .. N
    BY <1>2
  <2>2. Counted(d0, k).orig_req \in Seq(Token)
    BY <2>1, CountedIs
  <2> QED
    BY <1>3, <2>2
<1>10. Serving(d)
  <2>1. 1 \in 1 .. n /\ n \in 1 .. n /\ 0 \in Nat
    BY <1>2
  <2> QED
    BY <1>3, <1>7, <1>8, <1>9, <2>1 DEF Serving
<1> QED
  BY <1>3, <1>5, <1>7, <1>8, <1>10 DEF Dequeued

\* The last request parsed is there and has a name when the process survives.
LEMMA SurvivesIs ==
  ASSUME NEW d0, NEW s \in Seq(Token), Holds(d0, s),
         NEW n \in 1 .. Cardinality(Ends(d0)), NEW b, Queued(d0, n, b), ~Kills(b),
         NEW d, d = dequeue_request(b)
  PROVE  /\ Short(d0) = {} /\ Ordered(s) /\ Named(LastParsed(d))
         /\ Serving(d) /\ d.http_reqs = b.http_reqs /\ d.http_req_p = n /\ d.rbuf = s
         /\ d.bitrate = 0 /\ d.chunk_name = NONE
<1>1. Short(d0) = {}
  <2>1. b.http_req_p # 0
    BY DEF Kills
  <2> QED
    BY <2>1 DEF Queued
<1>2. /\ Serving(d) /\ d.http_reqs = b.http_reqs /\ d.http_req_p = n /\ d.rbuf = s
      /\ d.bitrate = 0 /\ d.chunk_name = NONE
  <2>1. Dequeued(d0, s, n, b, d)
    BY <1>1, DequeueIs
  <2> QED
    BY <2>1 DEF Dequeued
<1>3. b.rbuf = s /\ b.http_req_p = n
  BY <1>1 DEF Queued, Holds
<1>4. Named(LastParsed(d))
  <2>1. LastParsed(d) = LastParsed(b)
    BY <1>2, <1>3 DEF LastParsed
  <2> QED
    BY <2>1 DEF Kills, Named
<1>5. Ordered(s)
  <2>1. Seg(s) # 0 => ~(Vod(s) = 0) /\ ~(Seg(s) < Vod(s))
    BY <1>3 DEF Kills
  <2>2. FirstOf(Vod(s), s, Vods) /\ FirstOf(Seg(s), s, Segs) /\ Len(s) \in Nat
    BY FoundIs
  <2>3. Vod(s) \in Nat /\ Seg(s) \in Nat
    BY <2>2 DEF FirstOf
  <2> QED
    BY <2>1, <2>3 DEF Ordered
<1> QED
  BY <1>1, <1>2, <1>4, <1>5

\* However a request is rewritten, it is only its text that changes.
LEMMA PrepareIs ==
  ASSUME NEW d0, NEW s \in Seq(Token), Holds(d0, s),
         NEW n \in 1 .. Cardinality(Ends(d0)), NEW b, Queued(d0, n, b), ~Kills(b),
         new_rate \in Nat, NEW d, d = prepare_request(b)
  PROVE  Serving(d) /\ Same(dequeue_request(b), d)
<1> DEFINE b1 == dequeue_request(b)
           b2 == return_nolist(b1)
           b3 == change_rate(b2)
           b4 == log_chunkname(b3)
<1>1. Serving(b1) /\ Named(LastParsed(b1)) /\ Ordered(s) /\ b1.rbuf = s
  BY SurvivesIs
<1>2. d = switch_to_close(b4)
  BY DEF prepare_request
<1> HIDE DEF b1
<1>3. Serving(b2) /\ Same(b1, b2) /\ Named(LastParsed(b2))
  BY <1>1, NolistIs
<1> HIDE DEF b2
<1>4. Ordered(b2.rbuf)
  BY <1>1, <1>3 DEF Same
<1>5. Serving(b3) /\ Same(b2, b3) /\ Named(LastParsed(b3))
  BY <1>3, <1>4, RateIs
<1> HIDE DEF b3
<1>6. Serving(b4) /\ Same(b3, b4)
  BY <1>5, NameIs
<1> HIDE DEF b4
<1>7. Serving(d) /\ Same(b4, d)
  BY <1>2, <1>6, CloseIs
<1> QED
  BY <1>3, <1>5, <1>6, <1>7, SameChain DEF b1

\* The requests counted are those between rbuf_head and parse_p.
CountOK(b) ==
  b.rbuf_req_count = Cardinality({i \in CRLF2Ends(b.rbuf, b.rbuf_head) : i <= b.parse_p})

\* Before there is a request.
LEMMA UntouchedOK ==
  ASSUME IntakeAssumption, NEW s \in Seq(Token), Len(s) <= BUF_SIZE, NEW b, Untouched(b),
         b.rbuf = s, b.rbuf_size \in -1 .. BUF_SIZE, b.parse_p = LastEnd(s),
         b.rbuf_req_count = Cardinality(CRLF2Ends(s, 0)), b.req_fully_received \in BOOLEAN
  PROVE  BufOK(b) /\ CountOK(b)
<1>1. Len(s) \in Nat /\ BUF_SIZE \in Nat
  BY DEF IntakeAssumption
<1>2. /\ LastEnd(s) \in 0 .. Len(s) /\ \A i \in CRLF2Ends(s, 0) : i <= LastEnd(s)
      /\ Cardinality(CRLF2Ends(s, 0)) \in 0 .. Len(s)
  BY <1>1, LastEndIs, EndsFinite
<1>3. BufOK(b)
  <2>1. /\ b.rbuf_head = 0 /\ b.http_reqs = <<>> /\ b.req_queue = <<>>
        /\ b.http_req_p = 0 /\ b.http_reply_p = 0 /\ b.res_fully_sent = TRUE
        /\ b.buf = NONE /\ b.bitrate = 0 /\ b.chunk_name = NONE
    BY DEF Untouched
  <2>2. b.rbuf_req_count \in 0 .. BUF_SIZE
    BY <1>1, <1>2
  <2>3. 0 <= b.rbuf_head /\ b.rbuf_head <= b.parse_p /\ b.parse_p <= Len(b.rbuf)
    BY <1>1, <1>2, <2>1
  <2>4. {b.http_req_p, b.http_reply_p} \subseteq 0 .. Len(b.http_reqs)
    BY <2>1
  <2>5. <<>> \in Seq(Parsed) /\ <<>> \in Seq(1 .. Len(b.http_reqs)) /\ 0 \in Nat
    OBVIOUS
  <2>6. b.http_reqs \in Seq(Parsed) /\ b.req_queue \in Seq(1 .. Len(b.http_reqs))
    BY <2>1, <2>5
  <2>7. /\ b.bitrate \in Nat /\ b.chunk_name \in Token \cup {NONE}
        /\ b.buf \in {NONE, "MSG411"} /\ b.res_fully_sent \in BOOLEAN
    <3>1. b.bitrate \in Nat
      BY <2>1
    <3>2. b.res_fully_sent \in BOOLEAN
      BY <2>1
    <3>3. b.chunk_name \in Token \cup {NONE} /\ b.buf \in {NONE, "MSG411"}
      BY <2>1
    <3> QED
      BY <3>1, <3>2, <3>3
  <2> QED
    BY <2>2, <2>3, <2>4, <2>6, <2>7 DEF BufOK, Parsed
<1>4. CountOK(b)
  <2>1. {i \in CRLF2Ends(s, 0) : i <= LastEnd(s)} = CRLF2Ends(s, 0)
    BY <1>2
  <2>2. b.rbuf_head = 0
    BY DEF Untouched
  <2> QED
    BY <2>1, <2>2 DEF CountOK
<1> QED
  BY <1>3, <1>4

\* Once one is handed over.
LEMMA ServingOK ==
  ASSUME IntakeAssumption, NEW d0, NEW s \in Seq(Token), Holds(d0, s), Len(s) <= BUF_SIZE,
         NEW n \in 1 .. Cardinality(Ends(d0)), n = Cardinality(Ends(d0)), NEW b,
         Queued(d0, n, b), Short(d0) = {},
         NEW d, Serving(d), Same(dequeue_request(b), d)
  PROVE  BufOK(d) /\ CountOK(d)
<1> DEFINE N == Cardinality(Ends(d0))
           E == CRLF2Ends(s, 0)
<1>1. /\ HasText(d0) /\ Ends(d0) = E /\ Len(s) \in Nat /\ BUF_SIZE \in Nat
  BY DEF Holds, Untouched, HasText, Ends, IntakeAssumption
<1>2. /\ E \subseteq Nat /\ IsFiniteSet(E) /\ N \in Nat
      /\ \A i \in 1 .. N : ReqEnd(d0, i) \in E /\ Rank(E, ReqEnd(d0, i)) = i
  BY <1>1, ReqEndRank
<1>3. /\ LastEnd(s) \in 0 .. Len(s) /\ \A i \in E : i <= LastEnd(s)
  BY <1>1, LastEndIs
<1> HIDE DEF E, N
<1>4. ReqEnd(d0, n) \in E /\ Rank(E, ReqEnd(d0, n)) = N
  BY <1>2 DEF N
<1>5. \A i \in E : ~(i > ReqEnd(d0, n))
  <2> DEFINE x == ReqEnd(d0, n)
  <2> HIDE DEF x
  <2>1. x \in E /\ Rank(E, x) = N
    BY <1>4 DEF x
  <2> SUFFICES ASSUME NEW i \in E, i > x PROVE FALSE
    BY DEF x
  <2>2. Rank(E, x) < Rank(E, i) /\ Rank(E, i) \in 1 .. Cardinality(E)
    <3>1. x < i
      BY <1>2, <2>1
    <3> QED
      BY <1>2, <2>1, <3>1, RankType
  <2>3. Cardinality(E) = N
    BY <1>1 DEF N
  <2> QED
    BY <1>2, <2>1, <2>2, <2>3
<1>6. /\ d.rbuf = s /\ d.rbuf_size = Len(s) /\ d.rbuf_head = ReqEnd(d0, n)
      /\ d.parse_p = LastEnd(s) /\ d.rbuf_req_count = N - n
      /\ d.req_fully_received \in BOOLEAN /\ d.res_fully_sent = FALSE
      /\ d.req_queue \in Seq(Nat) /\ Len(d.req_queue) = n - 1
      /\ \A i \in 1 .. n - 1 : d.req_queue[i] = i + 1
      /\ d.buf \in {NONE, "MSG411"} /\ Len(d.http_reqs) = n
  <2> DEFINE b1 == dequeue_request(b)
  <2>1. /\ b1.http_reqs = b.http_reqs
        /\ b1.rbuf = s /\ b1.rbuf_size = Len(s) /\ b1.rbuf_head = ReqEnd(d0, n)
        /\ b1.parse_p = LastEnd(s) /\ b1.rbuf_req_count = Cardinality(Ends(d0)) - n
        /\ b1.req_fully_received \in BOOLEAN /\ b1.res_fully_sent = FALSE
        /\ b1.req_queue \in Seq(Nat) /\ Len(b1.req_queue) = n - 1
        /\ \A i \in 1 .. n - 1 : b1.req_queue[i] = i + 1
        /\ b1.buf \in {NONE, "MSG411"}
    <3>1. Dequeued(d0, s, n, b, b1)
      BY DequeueIs
    <3> HIDE DEF b1
    <3> QED
      BY <3>1 DEF Dequeued
  <2>2. Len(b.http_reqs) = n
    BY DEF Queued
  <2> HIDE DEF b1
  <2>3. Same(b1, d)
    BY DEF b1
  <2> QED
    BY <2>1, <2>2, <2>3 DEF Same, N
<1>7. N = n /\ n \in Nat /\ n # 0 /\ N <= Len(s)
  <2>1. N = n
    BY DEF N
  <2>2. Cardinality(CRLF2Ends(s, 0)) \in 0 .. Len(s)
    BY <1>1, EndsFinite
  <2>3. n # 0
    BY <1>2, <2>1 DEF N
  <2>4. N \in 0 .. Len(s)
    BY <1>1, <2>2 DEF N, E
  <2> QED
    BY <1>1, <1>2, <2>1, <2>3, <2>4
<1>8. d.rbuf_req_count = 0
  BY <1>6, <1>7
<1>9. CountOK(d)
  <2>1. CRLF2Ends(s, ReqEnd(d0, n)) = {i \in E : i > ReqEnd(d0, n)}
    BY <1>1, <1>4, EndsBehind DEF E
  <2>2. {i \in CRLF2Ends(s, ReqEnd(d0, n)) : i <= LastEnd(s)} = {}
    BY <1>5, <2>1
  <2>3. Cardinality({}) = 0
    BY FS_EmptySet
  <2> QED
    BY <1>6, <1>8, <2>2, <2>3 DEF CountOK
<1>10. BufOK(d)
  <2>1. /\ d.rbuf \in Seq(Token) /\ d.http_reqs \in Seq(Parsed) /\ d.http_reply_p = 1
        /\ d.http_req_p \in 1 .. n /\ d.bitrate \in Nat /\ d.chunk_name \in Token \cup {NONE}
        /\ 1 \in 1 .. n
    BY <1>6 DEF Serving
  <2>2. d.rbuf_size \in -1 .. BUF_SIZE /\ Len(d.rbuf) <= BUF_SIZE
    BY <1>1, <1>6
  <2>3. 0 <= d.rbuf_head /\ d.rbuf_head <= d.parse_p /\ d.parse_p <= Len(d.rbuf)
    <3> DEFINE x == ReqEnd(d0, n)
    <3>1. x \in Nat /\ x <= LastEnd(s)
      BY <1>2, <1>3, <1>4
    <3> HIDE DEF x
    <3>2. LastEnd(s) \in Nat /\ LastEnd(s) <= Len(s)
      BY <1>1, <1>3
    <3>3. d.rbuf_head = x /\ d.parse_p = LastEnd(s) /\ Len(d.rbuf) = Len(s)
      BY <1>6 DEF x
    <3> QED
      BY <3>1, <3>2, <3>3
  <2>4. d.rbuf_req_count \in 0 .. BUF_SIZE
    BY <1>1, <1>8
  <2>5. d.req_queue \in Seq(1 .. n)
    <3> DEFINE q == d.req_queue
    <3>1. q \in Seq(Nat) /\ Len(q) = n - 1 /\ \A i \in 1 .. n - 1 : q[i] = i + 1
      BY <1>6
    <3> HIDE DEF q
    <3>2. \A i \in 1 .. Len(q) : q[i] \in 1 .. n
      BY <1>7, <3>1
    <3>3. q \in Seq(1 .. n)
      BY <3>1, <3>2
    <3> QED
      BY <3>3 DEF q
  <2>6. {d.http_req_p, d.http_reply_p} \subseteq 0 .. Len(d.http_reqs)
    BY <1>6, <1>7, <2>1
  <2>7. d.http_reqs \in Seq([ method : {"GET", "POST", "method_not_found"},
                              cont_len : Nat, orig_req : Seq(Token) \cup {NONE} ])
    BY <2>1 DEF Parsed
  <2>8. d.req_queue \in Seq(1 .. Len(d.http_reqs))
    BY <1>6, <2>5
  <2>9. d.req_fully_received \in BOOLEAN /\ d.res_fully_sent \in BOOLEAN /\ d.buf \in {NONE, "MSG411"}
    BY <1>6
  <2> QED
    BY <2>1, <2>2, <2>3, <2>4, <2>6, <2>7, <2>8, <2>9 DEF BufOK
<1> QED
  BY <1>9, <1>10

(***************************************************************************)
(* What a connection has when its request is handed over.                  *)
(***************************************************************************)

\* The requests q of a stream are parsed and queued in order.
InOrder(q, b) ==
  /\ b.http_reply_p = 1
  /\ b.req_queue = [i \in 1 .. Len(b.http_reqs) - 1 |-> i + 1]
  /\ \A k \in 1 .. Len(b.http_reqs) :
       (\A i \in 1 .. Min({k - 1, Len(q)}) : q[i].body = <<>>) =>
         /\ k <= Len(q)
         /\ b.http_reqs[k].method = q[k].method
         /\ b.http_reqs[k].cont_len = q[k].cont_len

LEMMA InOrderIs ==
  ASSUME NEW q, NEW t, NEW O, NEW m, NEW s, Received1(q, t, O, m, s),
         NEW d0, Holds(d0, s), NEW n \in 1 .. Cardinality(Ends(d0)), NEW b,
         Queued(d0, n, b), Short(d0) = {},
         NEW d, Serving(d), Same(dequeue_request(b), d)
  PROVE  InOrder(q, d)
<1> DEFINE N == Cardinality(Ends(d0))
           b1 == dequeue_request(b)
<1>1. /\ HasText(d0) /\ d0.rbuf = s /\ d0.rbuf_head = 0 /\ s \in Seq(Token) /\ Len(s) = m
      /\ Len(q) \in Nat \ {0} /\ m \in Nat
  BY ReceivedFacts DEF Holds, Untouched, HasText
<1>2. N \in Nat /\ n \in Nat /\ n # 0 /\ n <= N
  <2>1. N \in Nat
    BY <1>1, ReqEndRank
  <2> QED
    BY <2>1
<1>3. Dequeued(d0, s, n, b, b1)
  BY <1>1, DequeueIs
<1>4. Same(b1, d)
  OBVIOUS
<1> HIDE DEF b1, N
<1>5. Len(b.http_reqs) = n /\ \A i \in 1 .. n : b.http_reqs[i] = Counted(d0, i)
  BY DEF Queued
<1>6. /\ d.http_reply_p = 1 /\ Len(d.http_reqs) = n
      /\ d.req_queue \in Seq(Nat) /\ Len(d.req_queue) = n - 1
      /\ \A i \in 1 .. n - 1 : d.req_queue[i] = i + 1
      /\ \A i \in 1 .. n : /\ d.http_reqs[i].method = Counted(d0, i).method
                           /\ d.http_reqs[i].cont_len = Counted(d0, i).cont_len
  BY <1>3, <1>4, <1>5 DEF Dequeued, Same, Serving
<1>7. d.req_queue = [i \in 1 .. n - 1 |-> i + 1]
  <2> DEFINE r == d.req_queue
  <2>1. r \in Seq(Nat) /\ Len(r) = n - 1 /\ \A i \in 1 .. n - 1 : r[i] = i + 1
    BY <1>6
  <2> HIDE DEF r
  <2>2. r = [i \in 1 .. Len(r) |-> r[i]]
    BY <2>1
  <2>3. r = [i \in 1 .. n - 1 |-> r[i]]
    BY <2>1, <2>2
  <2>4. r = [i \in 1 .. n - 1 |-> i + 1]
    BY <2>1, <2>3
  <2> QED
    BY <2>4 DEF r
<1>8. ASSUME NEW k \in 1 .. n, \A i \in 1 .. Min({k - 1, Len(q)}) : q[i].body = <<>>
      PROVE  /\ k <= Len(q)
             /\ d.http_reqs[k].method = q[k].method
             /\ d.http_reqs[k].cont_len = q[k].cont_len
  <2>1. k \in 1 .. N /\ k \in Nat /\ k - 1 \in Nat
    BY <1>2
  <2>2. Bodiless(q, k)
    <3> SUFFICES ASSUME NEW i \in 1 .. Len(q), i < k PROVE i \in 1 .. Min({k - 1, Len(q)})
      BY <1>8 DEF Bodiless
    <3> DEFINE S == {k - 1, Len(q)}
    <3>1. S \subseteq Nat /\ S # {} /\ \A x \in S : i <= x
      BY <1>1, <2>1
    <3> HIDE DEF S
    <3>2. Min(S) \in S /\ Min(S) \in Nat
      BY <3>1, MinOf
    <3>3. i <= Min(S) /\ i \in Nat /\ 1 <= i
      BY <1>1, <3>1, <3>2
    <3> QED
      BY <3>2, <3>3 DEF S
  <2>3. EndsAt(q, O, d0, k)
    BY <1>1, <2>1, <2>2, ReqEnds DEF N
  <2>4. /\ ReqEnd(d0, k) \in 1 .. Len(s)
        /\ Counted(d0, k).method = Method(s, ReqEnd(d0, k - 1))
        /\ Counted(d0, k).cont_len = ContLen(s, ReqEnd(d0, k - 1), ReqEnd(d0, k))
    BY <1>1, <2>1, CountedIs DEF N
  <2>5. /\ k \in 1 .. Len(q) /\ ReqEnd(d0, k - 1) = O[k - 1]
        /\ ReqEnd(d0, k) = O[k - 1] + Size(q[k])
    BY <1>1, <2>1, <2>3 DEF EndsAt
  <2>6. O[k - 1] + Size(q[k]) <= m
    BY <1>1, <2>4, <2>5
  <2>7. /\ Method(s, O[k - 1]) = q[k].method
        /\ ContLen(s, O[k - 1], O[k - 1] + Size(q[k])) = q[k].cont_len
    BY <2>5, <2>6, HeaderIs
  <2> QED
    BY <1>6, <2>4, <2>5, <2>7
<1> QED
  BY <1>6, <1>7, <1>8 DEF InOrder

\* A text with one request line, the first of its tokens.
OneLine(o) ==
  /\ o \in Seq(Token) /\ Len(o) # 0
  /\ o[1].t = "line"
  /\ \A k \in 2 .. Len(o) : o[k].t # "line"

LEMMA OneLineIs ==
  ASSUME NEW o, OneLine(o)
  PROVE  /\ Vod(o) = (IF o[1].file \in {"f4m", "nolist", "chunk"} THEN 1 ELSE 0)
         /\ Seg(o) = (IF o[1].file \in {"chunk", "seg"} THEN 1 ELSE 0)
         /\ F4m(o) = (IF o[1].file = "f4m" THEN 1 ELSE 0)
<1>1. /\ o \in Seq(Token) /\ Len(o) \in Nat /\ Len(o) # 0
      /\ \A k \in 1 .. Len(o) : o[k] \in Token /\ (k # 1 => o[k].t # "line")
      /\ o[1].t = "line" /\ 1 \in 1 .. Len(o)
  BY DEF OneLine
<1>2. FirstOf(Vod(o), o, Vods) /\ FirstOf(Seg(o), o, Segs) /\ FirstOf(F4m(o), o, F4ms)
  BY <1>1, FoundIs
<1>3. ASSUME NEW K, \A k \in K : k.t = "line", NEW i, FirstOf(i, o, K)
      PROVE  i = IF o[1] \in K THEN 1 ELSE 0
  <2>1. \A k \in 1 .. Len(o) : o[k] \in K => k = 1
    BY <1>1, <1>3
  <2>2. i \in Nat
    BY <1>1, <1>3 DEF FirstOf
  <2>3. CASE o[1] \in K
    BY <1>1, <1>3, <2>1, <2>3 DEF FirstOf
  <2>4. CASE o[1] \notin K
    BY <1>1, <1>3, <2>1, <2>4 DEF FirstOf
  <2> QED
    BY <2>3, <2>4
<1>4. Vod(o) = IF o[1] \in Vods THEN 1 ELSE 0
  BY <1>2, <1>3 DEF Vods, IsVod
<1>5. Seg(o) = IF o[1] \in Segs THEN 1 ELSE 0
  BY <1>2, <1>3 DEF Segs, IsSeg
<1>6. F4m(o) = IF o[1] \in F4ms THEN 1 ELSE 0
  BY <1>2, <1>3 DEF F4ms, IsF4m
<1>7. o[1] \in Vods <=> o[1].file \in {"f4m", "nolist", "chunk"}
  BY <1>1 DEF Vods, IsVod
<1>8. o[1] \in Segs <=> o[1].file \in {"chunk", "seg"}
  BY <1>1 DEF Segs, IsSeg
<1>9. o[1] \in F4ms <=> o[1].file = "f4m"
  BY <1>1 DEF F4ms, IsF4m
<1> QED
  BY <1>4, <1>5, <1>6, <1>7, <1>8, <1>9

\* What a browser that does not pipeline has sent so far.
LEMMA SingleIs ==
  ASSUME NEW q, NEW t, NEW O, NEW m, NEW s, Received1(q, t, O, m, s), Len(q) = 1, m # 0
  PROVE  /\ OneLine(s) /\ s[1] = Line(q[1]) /\ Len(s) = m /\ m \in Nat
         /\ q[1] \in Request /\ m <= Len(Text(q[1]))
         /\ \A k \in 1 .. m : s[k] = Text(q[1])[k]
         /\ \A k \in 1 .. m : s[k].t = "headers" =>
              k = 3 /\ HasHeaders(q[1]) /\ s[k] = Headers(q[1])
<1> DEFINE r == q[1]
           x == Text(r)
           z == Size(r)
<1>1. /\ s \in Seq(Token) /\ Len(s) = m /\ m \in Nat /\ m <= Len(t) /\ Len(t) \in Nat
      /\ \A k \in 1 .. m : s[k] = t[k]
      /\ O[0] = 0 /\ O[1] = Len(t) /\ r \in Request /\ O[1] = O[0] + Len(x)
      /\ \A k \in 1 .. Len(x) : t[O[0] + k] = x[k]
  <2>1. 1 \in 1 .. Len(q) /\ 1 - 1 = 0
    OBVIOUS
  <2> QED
    BY <2>1, ReceivedFacts
<1>2. /\ x \in Seq(Token) /\ z \in {3, 5} /\ Len(x) = z + Len(r.body) /\ Len(r.body) \in Nat
      /\ x[1] = Line(r) /\ x[2] = CRLF
      /\ IF HasHeaders(r)
         THEN z = 5 /\ x[3] = Headers(r) /\ x[4] = CRLF /\ x[5] = CRLF
         ELSE z = 3 /\ x[3] = CRLF
      /\ \A k \in 1 .. Len(r.body) : x[z + k] = r.body[k]
  BY <1>1, TextIs
<1>3. /\ Line(r) \in Token /\ Line(r).t = "line" /\ Headers(r).t = "headers" /\ CRLF.t = "crlf"
      /\ \A k \in 1 .. Len(r.body) : r.body[k].t \in {"crlf", "body"}
  BY <1>1, TokensAre
<1> HIDE DEF x, z, r
<1>4. m <= Len(x) /\ \A k \in 1 .. m : s[k] = x[k]
  <2>1. Len(x) = Len(t) /\ Len(x) \in Nat
    BY <1>1, <1>2
  <2>2. ASSUME NEW k \in 1 .. m PROVE s[k] = x[k]
    <3>1. k \in 1 .. Len(x) /\ O[0] + k = k
      BY <1>1, <2>1
    <3> QED
      BY <1>1, <3>1
  <2> QED
    BY <1>1, <2>1, <2>2
<1>5. ASSUME NEW k \in 1 .. Len(x)
      PROVE  /\ k # 1 => x[k].t # "line"
             /\ x[k].t = "headers" => k = 3 /\ HasHeaders(r) /\ x[k] = Headers(r)
  <2>1. CASE k <= z
    <3>1. k \in {1, 2, 3, 4, 5} /\ (z = 3 => k \in {1, 2, 3})
      BY <1>2, <2>1
    <3> QED
      BY <1>2, <1>3, <3>1
  <2>2. CASE ~(k <= z)
    <3>1. k - z \in 1 .. Len(r.body) /\ z + (k - z) = k
      BY <1>2, <2>2
    <3>2. x[k] = r.body[k - z]
      BY <1>2, <3>1
    <3>3. x[k].t \in {"crlf", "body"}
      BY <1>3, <3>1, <3>2
    <3> QED
      BY <1>2, <2>2, <3>3
  <2> QED
    BY <2>1, <2>2
<1>6. \A k \in 1 .. m : k \in 1 .. Len(x)
  BY <1>1, <1>2, <1>4
<1>7. 1 \in 1 .. m
  BY <1>1
<1>8. s[1] = Line(r) /\ s[1].t = "line"
  BY <1>2, <1>3, <1>4, <1>7
<1>9. \A k \in 2 .. Len(s) : s[k].t # "line"
  <2> SUFFICES ASSUME NEW k \in 2 .. m PROVE s[k].t # "line"
    BY <1>1
  <2>1. k \in 1 .. m /\ k # 1
    BY <1>1
  <2> QED
    BY <1>4, <1>5, <1>6, <2>1
<1>10. OneLine(s)
  BY <1>1, <1>8, <1>9 DEF OneLine
<1>11. \A k \in 1 .. m : s[k].t = "headers" => k = 3 /\ HasHeaders(r) /\ s[k] = Headers(r)
  BY <1>4, <1>5, <1>6
<1> QED
  BY <1>1, <1>4, <1>8, <1>10, <1>11 DEF x, r

\* A chunk is asked for at the rate the browser chose before there is an average,
\* and at the one that the walk over the array gives from then on.
Rated(q, b) ==
  Len(q) = 1 /\ q[1].file = "chunk" =>
    b.bitrate = IF avg_tput = 0 THEN q[1].rate ELSE new_rate

LEMMA RatedIs ==
  ASSUME NEW q, NEW t, NEW O, NEW m, NEW s, Received1(q, t, O, m, s), m # 0,
         NEW d0, Holds(d0, s), NEW n \in 1 .. Cardinality(Ends(d0)), NEW b,
         Queued(d0, n, b), ~Kills(b), new_rate \in Nat, NEW d, d = prepare_request(b)
  PROVE  Rated(q, d)
<1> SUFFICES ASSUME Len(q) = 1, q[1].file = "chunk"
             PROVE  d.bitrate = IF avg_tput = 0 THEN q[1].rate ELSE new_rate
  BY DEF Rated
<1> DEFINE b1 == dequeue_request(b)
           b2 == return_nolist(b1)
           b3 == change_rate(b2)
           b4 == log_chunkname(b3)
<1>1. s \in Seq(Token)
  BY ReceivedFacts
<1>2. Serving(b1) /\ Named(LastParsed(b1)) /\ Ordered(s) /\ b1.rbuf = s
  BY <1>1, SurvivesIs
<1>3. d = switch_to_close(b4)
  BY DEF prepare_request
<1>4. OneLine(s) /\ s[1] = Line(q[1]) /\ q[1] \in Request
  BY SingleIs
<1>5. s[1].file = "chunk" /\ s[1].rate = q[1].rate
  BY <1>4, TokensAre
<1>6. Vod(s) = 1 /\ Seg(s) = 1 /\ F4m(s) = 0
  BY <1>4, <1>5, OneLineIs
<1> HIDE DEF b1
<1>7. b2 = b1
  BY <1>2, <1>6, NolistIs
<1> HIDE DEF b2
<1>8. /\ Serving(b3) /\ Named(LastParsed(b3))
      /\ b3.bitrate = IF avg_tput = 0 THEN q[1].rate ELSE new_rate
  <2>1. Serving(b2) /\ Named(LastParsed(b2)) /\ b2.rbuf = s
    BY <1>2, <1>7
  <2>2. /\ Serving(b3) /\ Named(LastParsed(b3))
        /\ Seg(b2.rbuf) # 0 /\ avg_tput = 0 =>
             b3.bitrate = (IF Vod(b2.rbuf) = Seg(b2.rbuf) THEN b2.rbuf[Vod(b2.rbuf)].rate ELSE 0)
        /\ Seg(b2.rbuf) # 0 /\ avg_tput # 0 => b3.bitrate = new_rate
    BY <1>2, <2>1, RateIs
  <2> HIDE DEF b3
  <2> QED
    BY <1>5, <1>6, <2>1, <2>2
<1> HIDE DEF b3
<1>9. Serving(b4) /\ b4.bitrate = b3.bitrate
  BY <1>8, NameIs
<1> HIDE DEF b4
<1>10. d.bitrate = b4.bitrate
  BY <1>3, <1>9, CloseIs
<1> QED
  BY <1>8, <1>9, <1>10

\* A token as it is sent on, and a whole request.
SentToken(k, rate) ==
  CASE k.t = "headers" -> [k EXCEPT !.alive = FALSE]
    [] k.t = "line" /\ k.file = "f4m" -> [k EXCEPT !.file = "nolist"]
    [] k.t = "line" /\ k.file = "chunk" -> [k EXCEPT !.rate = rate]
    [] OTHER -> k

SentText(r, rate) == [i \in DOMAIN Text(r) |-> SentToken(Text(r)[i], rate)]

\* The request is sent on as it should be, and logged as it is sent.
AsAsked(q, b) ==
  Len(q) = 1 /\ q[1].body = <<>> =>
    LET sent == b.http_reqs[b.http_reply_p].orig_req
    IN  /\ sent = SentText(q[1], b.bitrate)
        /\ IF q[1].file = "chunk"
           THEN b.chunk_name = sent[1] /\ b.bitrate = sent[1].rate
           ELSE b.chunk_name = NONE

\* A browser that does not pipeline has one request in the queue, all it has sent.
LEMMA OneQueued ==
  ASSUME NEW q, NEW t, NEW O, NEW m, NEW s, Received1(q, t, O, m, s),
         Len(q) = 1, q[1].body = <<>>, ~(m < Len(Text(q[1]))),
         NEW d0, Holds(d0, s), NEW n \in 1 .. Cardinality(Ends(d0))
  PROVE  /\ n = 1 /\ m = Len(Text(q[1])) /\ m # 0
         /\ Counted(d0, 1).orig_req = s
<1> DEFINE N == Cardinality(Ends(d0))
           z == Size(q[1])
<1>1. /\ HasText(d0) /\ d0.rbuf = s /\ d0.rbuf_head = 0 /\ s \in Seq(Token) /\ Len(s) = m
      /\ m \in Nat /\ q[1] \in Request /\ 1 \in 1 .. Len(q)
  <2>1. 1 \in 1 .. Len(q)
    OBVIOUS
  <2> QED
    BY <2>1, ReceivedFacts DEF Holds, Untouched, HasText
<1>2. z \in {3, 5} /\ Len(Text(q[1])) = z
  <2>1. Len(q[1].body) = 0
    OBVIOUS
  <2>2. z \in {3, 5} /\ Len(Text(q[1])) = z + Len(q[1].body)
    BY <1>1, TextIs
  <2> HIDE DEF z
  <2> QED
    BY <2>1, <2>2
<1>3. m # 0
  BY <1>1, <1>2
<1>4. m <= Len(Text(q[1]))
  BY <1>3, SingleIs
<1>5. m = z
  <2> HIDE DEF z
  <2> QED
    BY <1>1, <1>2, <1>4
<1>6. N \in Nat
  BY <1>1, ReqEndRank
<1>7. n = 1
  <2> SUFFICES ASSUME n # 1 PROVE FALSE
    OBVIOUS
  <2>1. 2 \in 1 .. N
    BY <1>6
  <2>2. Bodiless(q, 2)
    BY DEF Bodiless
  <2>3. EndsAt(q, O, d0, 2)
    BY <1>1, <2>1, <2>2, ReqEnds DEF N
  <2> QED
    BY <2>3 DEF EndsAt
<1>8. ReqEnd(d0, 0) = 0 /\ ReqEnd(d0, 1) = z /\ 1 \in 1 .. N
  <2>1. N # 0
    BY <1>6
  <2> QED
    BY <2>1, FirstCounted
<1>9. Counted(d0, 1).orig_req = SubSeq(s, 0 + 1, z)
  <2>1. Counted(d0, 1).orig_req = SubSeq(s, ReqEnd(d0, 1 - 1) + 1, ReqEnd(d0, 1))
    BY <1>1, <1>8, CountedIs, SMTT(30) DEF N
  <2>2. 1 - 1 = 0
    OBVIOUS
  <2> QED
    BY <1>8, <2>1, <2>2
<1>10. SubSeq(s, 1, m) = s
  BY <1>1
<1>11. 0 + 1 = 1
  OBVIOUS
<1> QED
  BY <1>2, <1>3, <1>5, <1>7, <1>9, <1>10, <1>11

LEMMA SentIs ==
  ASSUME NEW q, NEW t, NEW O, NEW m, NEW s, Received1(q, t, O, m, s),
         ~(m < Len(Text(q[1]))),
         NEW d0, Holds(d0, s), NEW n \in 1 .. Cardinality(Ends(d0)), NEW b,
         Queued(d0, n, b), ~Kills(b), new_rate \in Nat, NEW d, d = prepare_request(b)
  PROVE  AsAsked(q, d)
<1> SUFFICES ASSUME Len(q) = 1, q[1].body = <<>>
             PROVE  LET sent == d.http_reqs[d.http_reply_p].orig_req
                    IN  /\ sent = SentText(q[1], d.bitrate)
                        /\ IF q[1].file = "chunk"
                           THEN d.chunk_name = sent[1] /\ d.bitrate = sent[1].rate
                           ELSE d.chunk_name = NONE
  BY DEF AsAsked
<1> DEFINE r == q[1]
           b1 == dequeue_request(b)
           b2 == return_nolist(b1)
           b3 == change_rate(b2)
           b4 == log_chunkname(b3)
           T(x) == x.http_reqs[1].orig_req
<1>1. n = 1 /\ m = Len(Text(r)) /\ m # 0 /\ Counted(d0, 1).orig_req = s
  BY OneQueued
<1>2. s \in Seq(Token) /\ Len(s) = m /\ m \in Nat /\ 1 \in 1 .. m
  BY <1>1, ReceivedFacts
<1>3. /\ OneLine(s) /\ s[1] = Line(r) /\ r \in Request
      /\ \A k \in 1 .. m : s[k] = Text(r)[k]
      /\ \A k \in 1 .. m : s[k].t = "headers" => k = 3 /\ HasHeaders(r) /\ s[k] = Headers(r)
  BY <1>1, SingleIs
<1>4. /\ s[1].t = "line" /\ s[1].file = r.file /\ s[1].rate = r.rate /\ r.rate \in Nat
      /\ s[1] \in Token
      /\ r.file \in {"page", "f4m", "nolist", "chunk", "seg"}
  BY <1>3, TokensAre, RequestIs
<1>5. /\ Serving(b1) /\ Named(LastParsed(b1)) /\ Ordered(s) /\ b1.rbuf = s
      /\ b1.http_req_p = 1 /\ T(b1) = s /\ b1.bitrate = 0 /\ b1.chunk_name = NONE
  <2>1. /\ Serving(b1) /\ Named(LastParsed(b1)) /\ Ordered(s) /\ b1.rbuf = s
        /\ b1.http_reqs = b.http_reqs /\ b1.http_req_p = n
        /\ b1.bitrate = 0 /\ b1.chunk_name = NONE
    BY <1>2, SurvivesIs
  <2>2. b.http_reqs[1] = Counted(d0, 1)
    BY <1>1 DEF Queued
  <2> HIDE DEF b1
  <2> QED
    BY <1>1, <2>1, <2>2
<1> HIDE DEF b1
<1>6. /\ Vod(s) = (IF s[1].file \in {"f4m", "nolist", "chunk"} THEN 1 ELSE 0)
      /\ Seg(s) = (IF s[1].file \in {"chunk", "seg"} THEN 1 ELSE 0)
      /\ F4m(s) = (IF s[1].file = "f4m" THEN 1 ELSE 0)
  BY <1>3, OneLineIs
<1>7. r.file # "seg"
  <2> SUFFICES ASSUME r.file = "seg" PROVE FALSE
    OBVIOUS
  <2>1. Vod(s) = 0 /\ Seg(s) = 1
    BY <1>4, <1>6
  <2> QED
    BY <1>5, <2>1 DEF Ordered
\* The manifest.
<1>8. /\ Serving(b2) /\ Named(LastParsed(b2)) /\ b2.rbuf = s /\ b2.http_req_p = 1
      /\ b2.bitrate = 0 /\ b2.chunk_name = NONE
      /\ T(b2) = IF r.file = "f4m" THEN [s EXCEPT ![1] = [s[1] EXCEPT !.file = "nolist"]] ELSE s
  <2>1. /\ Serving(b2) /\ Same(b1, b2) /\ Named(LastParsed(b2))
        /\ b2.bitrate = b1.bitrate /\ b2.chunk_name = b1.chunk_name
        /\ F4m(b1.rbuf) = 0 => b2 = b1
        /\ F4m(b1.rbuf) # 0 => b2.http_reqs[1].orig_req = NolistText(b1.rbuf)
    BY <1>5, NolistIs
  <2> HIDE DEF b2
  <2>2. b2.rbuf = s /\ b2.http_req_p = 1
    BY <1>5, <2>1 DEF Same
  <2>3. CASE r.file = "f4m"
    <3>1. F4m(s) = 1
      BY <1>4, <1>6, <2>3
    <3>2. T(b2) = NolistText(s)
      BY <1>5, <2>1, <3>1
    <3>3. NolistText(s) = [s EXCEPT ![1] = [s[1] EXCEPT !.file = "nolist"]]
      BY <1>2, <3>1 DEF NolistText
    <3> QED
      BY <1>5, <2>1, <2>2, <2>3, <3>2, <3>3
  <2>4. CASE r.file # "f4m"
    <3>1. F4m(s) = 0
      BY <1>4, <1>6, <2>4
    <3> QED
      BY <1>5, <2>1, <2>2, <2>4, <3>1
  <2> QED
    BY <2>3, <2>4
<1> HIDE DEF b2
\* The bitrate.
<1>9. /\ Serving(b3) /\ Named(LastParsed(b3)) /\ b3.http_req_p = 1 /\ b3.chunk_name = NONE
      /\ r.file # "chunk" => T(b3) = T(b2)
      /\ r.file = "chunk" => /\ T(b3) \in Seq(Token) /\ Len(T(b3)) = m
                             /\ T(b3)[1] = ChunkAt(s[1], b3.bitrate)
                             /\ \A k \in 2 .. m : T(b3)[k] = s[k]
  <2>1. /\ Serving(b3) /\ Same(b2, b3) /\ Named(LastParsed(b3))
        /\ b3.chunk_name = b2.chunk_name
        /\ Seg(b2.rbuf) = 0 => b3 = b2
        /\ Seg(b2.rbuf) # 0 /\ avg_tput = 0 =>
             /\ b3.http_reqs = b2.http_reqs
             /\ b3.bitrate = (IF Vod(b2.rbuf) = Seg(b2.rbuf)
                              THEN b2.rbuf[Vod(b2.rbuf)].rate ELSE 0)
        /\ Seg(b2.rbuf) # 0 /\ avg_tput # 0 =>
             /\ b3.http_reqs[1].orig_req = RateText(b2.rbuf, new_rate)
             /\ b3.bitrate = new_rate
    BY <1>5, <1>8, RateIs
  <2> HIDE DEF b3
  <2>2. b3.http_req_p = 1 /\ b3.chunk_name = NONE
    BY <1>8, <2>1 DEF Same
  <2>3. CASE r.file # "chunk"
    <3>1. Seg(s) = 0
      BY <1>4, <1>6, <1>7, <2>3
    <3>2. b3 = b2
      BY <1>8, <2>1, <3>1
    <3> QED
      BY <2>1, <2>2, <2>3, <3>2
  <2>4. CASE r.file = "chunk"
    <3>1. Vod(s) = 1 /\ Seg(s) = 1
      BY <1>4, <1>6, <2>4
    <3>2. CASE avg_tput = 0
      <4>1. b3.http_reqs = b2.http_reqs /\ b3.bitrate = s[1].rate
        BY <1>8, <2>1, <3>1, <3>2
      <4>2. T(b3) = s
        BY <1>8, <2>4, <4>1
      <4>3. ChunkAt(s[1], s[1].rate) = s[1]
        <5>1. [s[1] EXCEPT !.file = "chunk"] = s[1]
          BY <1>4, <2>4 DEF Token
        <5>2. [s[1] EXCEPT !.rate = s[1].rate] = s[1]
          BY <1>4 DEF Token
        <5>3. ChunkAt(s[1], s[1].rate)
                = [[s[1] EXCEPT !.file = "chunk"] EXCEPT !.rate = s[1].rate]
          BY DEF ChunkAt
        <5> QED
          BY <5>1, <5>2, <5>3
      <4>4. \A k \in 2 .. m : T(b3)[k] = s[k]
        BY <4>2
      <4>5. T(b3)[1] = ChunkAt(s[1], b3.bitrate)
        BY <4>1, <4>2, <4>3
      <4>6. T(b3) \in Seq(Token) /\ Len(T(b3)) = m
        BY <1>2, <4>2
      <4> QED
        BY <2>1, <2>2, <2>4, <4>4, <4>5, <4>6
    <3>3. CASE avg_tput # 0
      <4> DEFINE x == RateText(s, new_rate)
      <4>1. T(b3) = x /\ b3.bitrate = new_rate
        BY <1>8, <2>1, <3>1, <3>3
      <4>2. /\ x \in Seq(Token) /\ Len(x) = Vod(s) + (Len(s) - Seg(s))
            /\ x[Vod(s)] = ChunkAt(s[Vod(s)], new_rate)
            /\ \A k \in 1 .. Len(s) - Seg(s) : x[Vod(s) + k] = s[Seg(s) + k]
        <5>1. Seg(s) # 0
          BY <3>1
        <5> QED
          BY <1>2, <1>5, <5>1, RateTextIs
      <4> HIDE DEF x
      <4>3. Len(x) = m /\ x[1] = ChunkAt(s[1], new_rate)
        BY <1>2, <3>1, <4>2
      <4>4. ASSUME NEW k \in 2 .. m PROVE x[k] = s[k]
        <5>1. k - 1 \in 1 .. Len(s) - Seg(s) /\ 1 + (k - 1) = k
          BY <1>2, <3>1
        <5>2. x[1 + (k - 1)] = s[1 + (k - 1)]
          BY <3>1, <4>2, <5>1
        <5> QED
          BY <5>1, <5>2
      <4> QED
        BY <2>1, <2>2, <2>4, <4>1, <4>2, <4>3, <4>4
    <3> QED
      BY <3>2, <3>3
  <2> QED
    BY <2>3, <2>4
<1> HIDE DEF b3
\* What the text is then, and what is logged of it.
<1> DEFINE o == T(b3)
<1>10. /\ o \in Seq(Token) /\ Len(o) = m /\ (\A k \in 2 .. m : o[k] = s[k])
       /\ o[1] = CASE r.file = "f4m" -> [s[1] EXCEPT !.file = "nolist"]
                   [] r.file = "chunk" -> ChunkAt(s[1], b3.bitrate)
                   [] OTHER -> s[1]
  <2>1. CASE r.file = "chunk"
    BY <1>9, <2>1
  <2>2. CASE r.file = "f4m"
    <3> DEFINE k1 == [s[1] EXCEPT !.file = "nolist"]
    <3>1. o = [s EXCEPT ![1] = k1]
      BY <1>8, <1>9, <2>2
    <3>2. k1 \in Token
      BY <1>4 DEF Token
    <3> HIDE DEF k1, o
    <3>3. o \in Seq(Token) /\ Len(o) = m /\ (\A k \in 2 .. m : o[k] = s[k]) /\ o[1] = k1
      BY <1>2, <3>1, <3>2
    <3> QED
      BY <2>2, <3>3 DEF k1
  <2>3. CASE r.file \notin {"chunk", "f4m"}
    <3>1. o = s
      BY <1>8, <1>9, <2>3
    <3> HIDE DEF o
    <3> QED
      BY <1>2, <2>3, <3>1
  <2> QED
    BY <2>1, <2>2, <2>3
<1>11. OneLine(o) /\ (Seg(o) # 0 <=> r.file = "chunk") /\ (r.file = "chunk" => Vod(o) = 1)
  <2>1. /\ o[1].t = "line"
        /\ o[1].file = IF r.file = "f4m" THEN "nolist" ELSE r.file
    <3>1. CASE r.file = "f4m"
      <4>1. o[1] = [s[1] EXCEPT !.file = "nolist"]
        BY <1>10, <3>1
      <4> HIDE DEF o
      <4> QED
        BY <1>4, <3>1, <4>1 DEF Token
    <3>2. CASE r.file = "chunk"
      <4>1. o[1] = ChunkAt(s[1], b3.bitrate)
        BY <1>10, <3>2
      <4> HIDE DEF o
      <4> QED
        BY <1>4, <3>2, <4>1 DEF Token, ChunkAt
    <3>3. CASE r.file \notin {"f4m", "chunk"}
      <4>1. o[1] = s[1]
        BY <1>10, <3>3
      <4> QED
        BY <1>4, <3>3, <4>1
    <3> QED
      BY <3>1, <3>2, <3>3
  <2>2. \A k \in 2 .. Len(o) : o[k].t # "line"
    BY <1>2, <1>3, <1>10 DEF OneLine
  <2> HIDE DEF o
  <2>3. OneLine(o)
    BY <1>1, <1>10, <2>1, <2>2 DEF OneLine
  <2>4. /\ Vod(o) = (IF o[1].file \in {"f4m", "nolist", "chunk"} THEN 1 ELSE 0)
        /\ Seg(o) = (IF o[1].file \in {"chunk", "seg"} THEN 1 ELSE 0)
    BY <2>3, OneLineIs
  <2> QED
    BY <1>7, <2>1, <2>3, <2>4
<1>12. /\ Serving(b4) /\ b4.http_req_p = 1 /\ T(b4) = o /\ b4.bitrate = b3.bitrate
       /\ b4.chunk_name = IF r.file = "chunk" THEN o[1] ELSE NONE
  <2>1. LastParsed(b3) = o
    BY <1>9 DEF LastParsed
  <2>2. /\ Serving(b4) /\ Same(b3, b4) /\ b4.http_reqs = b3.http_reqs /\ b4.bitrate = b3.bitrate
        /\ Seg(LastParsed(b3)) = 0 => b4 = b3
        /\ Seg(LastParsed(b3)) # 0 =>
             b4.chunk_name = LastParsed(b3)[Vod(LastParsed(b3))]
    BY <1>9, NameIs
  <2> HIDE DEF b4, o
  <2>3. b4.http_req_p = 1
    BY <1>9, <2>2 DEF Same
  <2>4. b4.chunk_name = IF r.file = "chunk" THEN o[1] ELSE NONE
    BY <1>9, <1>11, <2>1, <2>2
  <2>5. T(b4) = o
    BY <2>2 DEF o
  <2> QED
    BY <2>2, <2>3, <2>4, <2>5
<1> HIDE DEF b4
<1>13. /\ d.http_reply_p = 1 /\ d.bitrate = b3.bitrate /\ d.chunk_name = b4.chunk_name
       /\ T(d) = IF KeepAlive(o) = 0 THEN o ELSE CloseText(o)
  <2>1. LastParsed(b4) = o
    BY <1>12 DEF LastParsed
  <2>2. d = switch_to_close(b4)
    BY DEF prepare_request, b1, b2, b3, b4
  <2>3. /\ Serving(d) /\ d.bitrate = b4.bitrate /\ d.chunk_name = b4.chunk_name
        /\ KeepAlive(LastParsed(b4)) = 0 => d = b4
        /\ KeepAlive(LastParsed(b4)) # 0 =>
             d.http_reqs[b4.http_req_p].orig_req = CloseText(LastParsed(b4))
    BY <1>12, <2>2, CloseIs
  <2> HIDE DEF o
  <2>4. d.http_reply_p = 1
    BY <2>3 DEF Serving
  <2>5. T(d) = IF KeepAlive(o) = 0 THEN o ELSE CloseText(o)
    BY <1>12, <2>1, <2>3
  <2> QED
    BY <1>12, <2>3, <2>4, <2>5
\* The connection.
<1> DEFINE x == T(d)
<1>14. x \in Seq(Token) /\ Len(x) = m /\ x[1] = o[1]
       /\ \A k \in 2 .. m : x[k] = SentToken(s[k], d.bitrate)
  <2> HIDE DEF o
  <2>1. FirstOf(KeepAlive(o), o, Alives)
    BY <1>10, FoundIs
  <2>2. \A k \in 1 .. m : o[k] \in Alives => k = 3 /\ s[3] = Headers(r)
    <3> SUFFICES ASSUME NEW k \in 1 .. m, o[k] \in Alives PROVE k = 3 /\ s[3] = Headers(r)
      OBVIOUS
    <3>1. o[k].t = "headers"
      BY DEF Alives, IsAlive
    <3>2. k # 1
      BY <1>11, <3>1 DEF OneLine
    <3>3. o[k] = s[k]
      BY <1>2, <1>10, <3>2
    <3> QED
      BY <1>3, <3>1, <3>3
  <2>3. \A k \in 2 .. m : s[k] \in Token /\ s[k].t # "line" /\ o[k] = s[k] /\ k \in 1 .. m
    BY <1>2, <1>3, <1>10 DEF OneLine
  <2>4. CASE KeepAlive(o) = 0
    <3>1. x = o
      BY <1>13, <2>4
    <3>2. \A k \in 1 .. m : o[k] \notin Alives
      BY <1>10, <2>1, <2>4 DEF FirstOf
    <3>3. ASSUME NEW k \in 2 .. m PROVE s[k] = SentToken(s[k], d.bitrate)
      <4>1. s[k] \in Token /\ s[k].t # "line" /\ s[k] \notin Alives
        BY <2>3, <3>2
      <4>2. CASE s[k].t = "headers"
        <5>1. s[k] \in [t : {"headers"}, cont_len : Nat, alive : BOOLEAN]
          BY <4>1, <4>2 DEF Token
        <5>2. ~s[k].alive
          BY <4>1, <4>2 DEF Alives, IsAlive
        <5>3. s[k].alive = FALSE
          BY <5>1, <5>2
        <5>4. [s[k] EXCEPT !.alive = FALSE] = s[k]
          BY <5>1, <5>3
        <5> QED
          BY <4>2, <5>4 DEF SentToken
      <4>3. CASE s[k].t # "headers"
        BY <4>1, <4>3 DEF SentToken
      <4> QED
        BY <4>2, <4>3
    <3> HIDE DEF x
    <3>4. \A k \in 2 .. m : x[k] = SentToken(s[k], d.bitrate)
      BY <2>3, <3>1, <3>3
    <3> QED
      BY <1>10, <3>1, <3>4
  <2>5. CASE KeepAlive(o) # 0
    <3>1. KeepAlive(o) \in 1 .. m /\ o[KeepAlive(o)] \in Alives
      BY <1>10, <2>1, <2>5 DEF FirstOf
    <3>2. KeepAlive(o) = 3 /\ 3 \in 1 .. m /\ o[3] \in Alives /\ s[3] = Headers(r)
      BY <2>2, <3>1
    <3> DEFINE k3 == [o[3] EXCEPT !.alive = FALSE]
    <3>3. x = [o EXCEPT ![3] = k3]
      BY <1>13, <2>5, <3>2 DEF CloseText
    <3>4. k3 \in Token
      BY <3>2, TokensRewritten
    <3>5. k3 = SentToken(s[3], d.bitrate)
      <4>1. o[3] = s[3] /\ s[3].t = "headers"
        <5>1. 3 \in 2 .. m
          BY <1>2, <3>2
        <5>2. o[3] = s[3]
          BY <1>10, <5>1
        <5> QED
          BY <3>2, <5>2 DEF Alives, IsAlive
      <4> QED
        BY <4>1 DEF SentToken
    <3> HIDE DEF x, k3
    <3>6. x \in Seq(Token) /\ Len(x) = m /\ x[3] = k3 /\ x[1] = o[1]
          /\ \A k \in 2 .. m : k # 3 => x[k] = o[k]
      BY <1>2, <1>10, <3>2, <3>3, <3>4
    <3>7. ASSUME NEW k \in 2 .. m, k # 3 PROVE x[k] = SentToken(s[k], d.bitrate)
      <4>1. x[k] = s[k] /\ s[k].t # "line"
        BY <2>3, <3>6, <3>7
      <4>2. s[k].t # "headers"
        BY <1>3, <2>3, <3>7
      <4> QED
        BY <4>1, <4>2 DEF SentToken
    <3> QED
      BY <3>5, <3>6, <3>7
  <2> QED
    BY <2>4, <2>5
<1>15. x[1] = SentToken(s[1], d.bitrate)
  <2> HIDE DEF x, o
  <2>1. CASE r.file = "f4m"
    BY <1>4, <1>10, <1>14, <2>1 DEF SentToken
  <2>2. CASE r.file = "chunk"
    <3>1. [s[1] EXCEPT !.file = "chunk"] = s[1]
      BY <1>4, <2>2 DEF Token
    <3>2. ChunkAt(s[1], d.bitrate)
            = [[s[1] EXCEPT !.file = "chunk"] EXCEPT !.rate = d.bitrate]
      BY DEF ChunkAt
    <3>3. x[1] = ChunkAt(s[1], d.bitrate)
      BY <1>10, <1>13, <1>14, <2>2
    <3>4. SentToken(s[1], d.bitrate) = [s[1] EXCEPT !.rate = d.bitrate]
      BY <1>4, <2>2 DEF SentToken
    <3> QED
      BY <3>1, <3>2, <3>3, <3>4
  <2>3. CASE r.file \notin {"f4m", "chunk"}
    <3>1. x[1] = s[1]
      BY <1>10, <1>14, <2>3
    <3> QED
      BY <1>4, <2>3, <3>1 DEF SentToken
  <2> QED
    BY <2>1, <2>2, <2>3
<1>16. x = SentText(r, d.bitrate)
  <2> HIDE DEF x, o, r
  <2>1. \A k \in 1 .. m : x[k] = SentToken(s[k], d.bitrate)
    <3> SUFFICES ASSUME NEW k \in 1 .. m PROVE x[k] = SentToken(s[k], d.bitrate)
      OBVIOUS
    <3>1. k = 1 \/ k \in 2 .. m
      BY <1>2
    <3> QED
      BY <1>14, <1>15, <3>1
  <2>2. \A k \in 1 .. m : x[k] = SentToken(Text(r)[k], d.bitrate)
    BY <1>3, <2>1
  <2>3. DOMAIN Text(r) = 1 .. m
    <3>1. Text(r) \in Seq(Token)
      BY <1>3, TextIs
    <3> QED
      BY <1>1, <3>1
  <2>4. x = [k \in 1 .. m |-> x[k]]
    BY <1>14
  <2>5. x = [k \in 1 .. m |-> SentToken(Text(r)[k], d.bitrate)]
    BY <2>2, <2>4
  <2> QED
    BY <2>3, <2>5 DEF SentText
<1>17. ASSUME r.file = "chunk" PROVE d.chunk_name = x[1] /\ d.bitrate = x[1].rate
  <2>1. d.chunk_name = x[1]
    BY <1>12, <1>13, <1>14, <1>17
  <2>2. x[1] = ChunkAt(s[1], d.bitrate)
    BY <1>10, <1>13, <1>14, <1>17
  <2> HIDE DEF x
  <2>3. ChunkAt(s[1], d.bitrate).rate = d.bitrate
    BY <1>4, <1>17 DEF ChunkAt, Token
  <2> QED
    BY <2>1, <2>2, <2>3
<1>18. r.file # "chunk" => d.chunk_name = NONE
  BY <1>12, <1>13
<1>19. d.http_reqs[d.http_reply_p].orig_req = x
  BY <1>13
<1> HIDE DEF x
<1> QED
  BY <1>16, <1>17, <1>18, <1>19

\* The process survives a browser that does not pipeline and asks for no name with
\* "Seg" in it, whatever is in the body.
LEMMA SingleSurvives ==
  ASSUME StreamsAssumption,
         NEW q, NEW t, NEW O, NEW m, NEW s, Received1(q, t, O, m, s),
         Len(q) = 1, q[1].file # "seg", m # 0,
         NEW d0, Holds(d0, s), ~Waiting(d0), NEW n \in 1 .. Cardinality(Ends(d0)),
         NEW b, Queued(d0, n, b)
  PROVE  ~Kills(b) /\ ~MayKill(b)
<1> DEFINE N == Cardinality(Ends(d0))
           E == CRLF2Ends(s, 0)
           r == q[1]
           z == Size(r)
<1>1. /\ HasText(d0) /\ d0.rbuf = s /\ d0.rbuf_head = 0 /\ s \in Seq(Token) /\ Len(s) = m
      /\ m \in Nat /\ Ends(d0) = E /\ d0.rbuf_req_count = N
      /\ O[0] = 0 /\ 1 - 1 = 0 /\ 1 \in 1 .. Len(q)
  <2>1. 1 \in 1 .. Len(q)
    OBVIOUS
  <2> QED
    BY <2>1, ReceivedFacts DEF Holds, Untouched, HasText, Ends
<1>2. /\ OneLine(s) /\ s[1] = Line(r) /\ r \in Request /\ m <= Len(Text(r))
  BY SingleIs
<1>3. s[1].t = "line" /\ s[1].file = r.file /\ s[1] \in Token
  BY <1>2, TokensAre
<1>4. /\ Seg(s) # 0 => Seg(s) = 1 /\ Vod(s) = 1
  BY <1>2, <1>3, OneLineIs
<1>5. \A k \in 1 .. m : k # 1 => s[k].t # "line"
  BY <1>1, <1>2 DEF OneLine
<1>6. N \in Nat /\ E \subseteq Nat
  BY <1>1, ReqEndRank
<1>7. \A i \in E : i >= 2 /\ i <= m
  <2>1. E \subseteq 0 + 2 .. Len(s)
    BY <1>1, EndsFinite
  <2> HIDE DEF E
  <2> QED
    BY <1>1, <2>1
<1> HIDE DEF E, N, z
\* Whatever ends in the body begins no request of its own.
<1>8. Short(d0) = {}
  <2> SUFFICES ASSUME NEW i \in 1 .. N, i \in Short(d0) PROVE FALSE
    BY <1>1 DEF Short
  <2>1. i # 1
    BY DEF Waiting
  <2>2. ReqEnd(d0, i - 1) > 0 /\ ReqEnd(d0, i - 1) \in 0 .. Len(s)
        /\ ReqEnd(d0, i) \in 1 .. Len(s) /\ ReqEnd(d0, i - 1) < ReqEnd(d0, i)
        /\ Counted(d0, i).method = Method(s, ReqEnd(d0, i - 1))
    <3>1. 0 \in 0 .. N /\ i - 1 \in 0 .. N /\ 0 < i - 1 /\ ReqEnd(d0, 0) = 0
      BY <1>1, <1>6, <2>1, ReqEndRank
    <3>2. ReqEnd(d0, 0) < ReqEnd(d0, i - 1)
      BY <1>1, <3>1, ReqEndRank DEF N
    <3>3. /\ ReqEnd(d0, i - 1) \in 0 .. Len(s) /\ ReqEnd(d0, i) \in 1 .. Len(s)
          /\ ReqEnd(d0, i - 1) < ReqEnd(d0, i)
          /\ Counted(d0, i).method = Method(s, ReqEnd(d0, i - 1))
      BY <1>1, CountedIs DEF N
    <3> QED
      BY <1>1, <3>1, <3>2, <3>3
  <2> DEFINE from == ReqEnd(d0, i - 1)
  <2>3. from + 1 \in 1 .. m /\ from + 1 # 1
    <3> HIDE DEF from
    <3>1. from > 0 /\ from \in 0 .. Len(s) /\ ReqEnd(d0, i) \in 1 .. Len(s) /\ from < ReqEnd(d0, i)
      BY <2>2 DEF from
    <3> QED
      BY <1>1, <3>1
  <2>4. Method(s, from) = "method_not_found"
    BY <1>5, <2>3 DEF Method
  <2>5. FullyReceived(d0, Counted(d0, i), ReqEnd(d0, i))
    BY <2>2, <2>4 DEF FullyReceived
  <2> QED
    BY <2>5 DEF Short
<1>9. b.http_req_p = n /\ n \in 1 .. N /\ b.rbuf = s /\ LastParsed(b) = Counted(d0, n).orig_req
  <2>1. b.http_req_p = n /\ b.http_reqs[n] = Counted(d0, n) /\ b.rbuf = s
    BY <1>1, <1>6, <1>8 DEF Queued, N
  <2> QED
    BY <2>1 DEF LastParsed, N
<1> DEFINE o == LastParsed(b)
           from == ReqEnd(d0, n - 1)
           to == ReqEnd(d0, n)
<1>10. /\ o \in Seq(Token) /\ o = SubSeq(s, from + 1, to)
       /\ from \in 0 .. Len(s) /\ to \in 1 .. Len(s) /\ from < to
  BY <1>1, <1>9, CountedIs DEF N
<1>11. Seg(o) # 0 => Vod(o) # 0
  <2> HIDE DEF o, from, to
  <2> SUFFICES ASSUME Seg(o) # 0 PROVE Named(o)
    BY DEF Named
  <2> DEFINE k == Seg(o)
  <2>1. k \in 1 .. Len(o) /\ o[k] \in Segs
    BY <1>10, FoundIs DEF FirstOf
  <2> HIDE DEF k
  <2>2. Len(o) = to - from /\ o[k] = s[from + k] /\ from + k \in 1 .. m
    <3>1. Len(o) = to - from
      BY <1>1, <1>10
    <3>2. k \in 1 .. to - from /\ from \in Nat /\ to \in Nat /\ to <= Len(s) /\ Len(s) \in Nat
      BY <1>1, <1>10, <2>1, <3>1
    <3>3. from + k \in 1 .. m
      BY <1>1, <3>2
    <3>4. SubSeq(s, from + 1, to)[k] = s[from + 1 + k - 1] /\ from + 1 + k - 1 = from + k
      BY <1>1, <3>2
    <3> QED
      BY <1>10, <3>1, <3>3, <3>4
  <2>3. from + k = 1
    BY <1>5, <2>1, <2>2 DEF Segs, IsSeg
  <2>4. o[k] = s[1]
    BY <2>2, <2>3
  <2>5. s[1] \in Vods
    BY <1>3, <2>1, <2>4 DEF Segs, IsSeg, Vods, IsVod
  <2> QED
    BY <1>10, <2>1, <2>4, <2>5, VodNames
<1>12. ~Kills(b)
  <2>1. n # 0
    BY <1>6, <1>9
  <2>2. o # NONE
    BY <1>10 DEF StreamsAssumption
  <2>3. ~(Seg(b.rbuf) # 0 /\ (Vod(b.rbuf) = 0 \/ Seg(b.rbuf) < Vod(b.rbuf)))
    BY <1>4, <1>9
  <2> QED
    BY <1>9, <1>11, <2>1, <2>2, <2>3 DEF Kills
<1>13. ~Overrun(s)
  <2> SUFFICES ASSUME NEW f \in E \cup {0}, NEW g \in E,
                      f < g, ~\E e \in E : f < e /\ e < g,
                      Method(s, f) = "POST",
                      ContLen(s, f, g) \in 1 .. Len(s) - g - 1
               PROVE  FALSE
    BY DEF Overrun, E
  <2>1. f = 0
    <3>1. f \in Nat /\ g \in Nat /\ g <= m
      <4>1. g \in Nat /\ g <= m
        BY <1>6, <1>7
      <4>2. f = 0 \/ f \in Nat
        BY <1>6
      <4> QED
        BY <4>1, <4>2
    <3>2. f + 1 \in 1 .. m
      BY <1>1, <3>1
    <3>3. s[f + 1].t = "line"
      BY DEF Method
    <3> QED
      BY <1>5, <3>1, <3>2, <3>3
  <2>2. z \in {3, 5} /\ Len(Text(r)) = z + Len(r.body) /\ Len(r.body) \in Nat
        /\ r.cont_len = Len(r.body)
    BY <1>2, TextIs, RequestIs DEF z
  <2>3. O[1 - 1] = 0 /\ O[1 - 1] + Size(q[1]) = z
    BY <1>1, <2>2 DEF z
  <2>4. /\ \A e \in E : e > O[1 - 1] => e >= O[1 - 1] + Size(q[1])
        /\ m >= O[1 - 1] + Size(q[1]) => O[1 - 1] + Size(q[1]) \in E
    <3>1. O[1 - 1] \in CRLF2Ends(s, 0) \cup {0}
      BY <2>3
    <3> QED
      BY <1>1, <3>1, HeaderEnd, SMTT(30) DEF E
  <2>5. g >= z /\ (m >= z => z \in E) /\ g <= m /\ g \in Nat
    <3>1. g \in Nat /\ g >= 2 /\ g <= m
      BY <1>6, <1>7
    <3>2. g > O[1 - 1]
      BY <2>3, <3>1
    <3> QED
      BY <2>3, <2>4, <3>1, <3>2
  <2>6. g = z
    <3>1. z \in E /\ f < z
      BY <1>1, <2>1, <2>2, <2>5
    <3> QED
      BY <2>2, <2>5, <3>1
  <2>7. ContLen(s, f, g) = r.cont_len
    <3>1. O[1 - 1] + Size(q[1]) <= m
      BY <2>3, <2>5, <2>6
    <3>2. ContLen(s, O[1 - 1], O[1 - 1] + Size(q[1])) = q[1].cont_len
      BY <1>1, <3>1, HeaderIs
    <3> QED
      BY <2>1, <2>3, <2>6, <3>2
  <2> HIDE DEF r
  <2> QED
    BY <1>1, <1>2, <2>2, <2>5, <2>6, <2>7
<1>14. ~MayKill(b)
  BY <1>4, <1>9, <1>13 DEF MayKill
<1> QED
  BY <1>12, <1>14

(***************************************************************************)
(* The inductive invariant.                                                *)
(***************************************************************************)

\* b holds what has come of the requests q, m tokens of the text t, and the first
\* request is not whole.
PartOf(q, t, m, b) ==
  /\ Collected(b, SubSeq(t, 1, m))
  /\ m <= BUF_SIZE /\ m < Len(Text(q[1]))

\* A rate is as it should be for the average avg it was chosen at.
Best(q, b, avg, offered) ==
  Len(q) = 1 /\ q[1].file = "chunk" /\ offered # {} =>
    IF avg = 0 THEN b.bitrate = q[1].rate ELSE b.bitrate \in offered

BestOf(q, b, avg, offered) ==
  Len(q) = 1 /\ q[1].file = "chunk" /\ offered # {} /\ avg # 0 =>
    LET within == {r \in offered : 3 * r <= 2 * avg}
    IN  b.bitrate = IF within = {} THEN Min(offered) ELSE Max(within)

InvConn(c) ==
  /\ stream[c] \in Streams[c]
  /\ taken[c] \in 0 .. Len(StreamText(c))
  /\ stage[c] \in {"reading", "handed", "refused", "dropped", "replied"}
  /\ rate_at[c] \in Nat
  /\ BufOK(bufs[c]) /\ CountOK(bufs[c])
  /\ up /\ stage[c] = "reading" => PartOf(stream[c], StreamText(c), taken[c], bufs[c])
  /\ stage[c] = "refused" => Len(Text(stream[c][1])) > BUF_SIZE
  /\ Taken(c) => /\ taken[c] >= Len(Text(stream[c][1]))
                 /\ InOrder(stream[c], bufs[c]) /\ AsAsked(stream[c], bufs[c])
                 /\ Best(stream[c], bufs[c], rate_at[c], Offered)
                 /\ Ascending => BestOf(stream[c], bufs[c], rate_at[c], Offered)

\* All variables are functions of connections.
InvFunctions ==
  /\ DOMAIN taken = Conns /\ DOMAIN stage = Conns
  /\ DOMAIN bufs = Conns /\ DOMAIN rate_at = Conns

InvUp == up \in BOOLEAN /\ DiesOnlyOfOddText

IntakeInv ==
  /\ RateInv /\ InvFunctions /\ InvUp
  /\ manifest \in Manifests \cup {<<>>}
  /\ \A c \in Conns : InvConn(c)
  /\ all_rates = NONE => \A c \in Conns : ~Taken(c)

LEMMA StreamOf ==
  ASSUME StreamsAssumption, NEW c \in Conns, stream[c] \in Streams[c]
  PROVE  /\ stream[c] \in Seq(Request) \ {<<>>} /\ stream[c][1] \in Request
         /\ StreamText(c) \in Seq(Token) /\ Len(StreamText(c)) \in Nat
         /\ \E O : Streamed(stream[c], StreamText(c), O)
<1>1. stream[c] \in Seq(Request) \ {<<>>}
  BY DEF StreamsAssumption
<1>2. PICK O : Streamed(stream[c], StreamText(c), O)
  BY <1>1, StreamIs
<1>3. stream[c][1] \in Request
  <2> DEFINE q == stream[c]
  <2>1. q \in Seq(Request) /\ q # <<>>
    BY <1>1
  <2> HIDE DEF q
  <2>2. q[1] \in Request
    BY <2>1
  <2> QED
    BY <2>2 DEF q
<1>4. StreamText(c) \in Seq(Token)
  BY <1>2 DEF Streamed
<1>5. Len(StreamText(c)) \in Nat
  <2> DEFINE t == StreamText(c)
  <2>1. t \in Seq(Token)
    BY <1>4
  <2> HIDE DEF t
  <2>2. Len(t) \in Nat
    BY <2>1
  <2> QED
    BY <2>2 DEF t
<1> QED
  BY <1>1, <1>2, <1>3, <1>4, <1>5

\* Parts of a text, one behind the other.
LEMMA PartsJoin ==
  ASSUME NEW t \in Seq(Token), NEW m \in Nat, NEW n \in Nat, n # 0, m + n <= Len(t)
  PROVE  /\ SubSeq(t, 1, m) \in Seq(Token) /\ Len(SubSeq(t, 1, m)) = m
         /\ SubSeq(t, m + 1, m + n) \in Seq(Token) /\ SubSeq(t, m + 1, m + n) # <<>>
         /\ SubSeq(t, 1, m) \o SubSeq(t, m + 1, m + n) = SubSeq(t, 1, m + n)
<1> DEFINE a == SubSeq(t, 1, m)
           b == SubSeq(t, m + 1, m + n)
           w == SubSeq(t, 1, m + n)
<1>1. Len(t) \in Nat /\ m <= Len(t)
  OBVIOUS
<1>2. a \in Seq(Token) /\ Len(a) = m /\ \A k \in 1 .. m : a[k] = t[k]
  BY <1>1
<1>3. w \in Seq(Token) /\ Len(w) = m + n /\ \A k \in 1 .. m + n : w[k] = t[k]
  BY <1>1
<1>4. b \in Seq(Token) /\ Len(b) = n
  BY <1>1
<1>5. ASSUME NEW k \in 1 .. n PROVE b[k] = t[m + k]
  <2>1. k \in 1 .. (m + n) - (m + 1) + 1
    OBVIOUS
  <2>2. b[k] = t[m + 1 + k - 1]
    BY <1>1, <2>1
  <2>3. m + 1 + k - 1 = m + k
    OBVIOUS
  <2> QED
    BY <2>2, <2>3
<1>6. b # <<>>
  BY <1>4
<1> HIDE DEF a, b, w
<1> DEFINE v == a \o b
<1>7. v \in Seq(Token) /\ Len(v) = m + n
      /\ (\A k \in 1 .. m : v[k] = a[k]) /\ (\A k \in 1 .. n : v[m + k] = b[k])
  <2>1. a \in Seq(Token) /\ b \in Seq(Token)
    BY <1>2, <1>4
  <2>2. /\ v \in Seq(Token) /\ Len(v) = Len(a) + Len(b)
        /\ \A k \in 1 .. Len(a) : v[k] = a[k]
        /\ \A k \in 1 .. Len(b) : v[Len(a) + k] = b[k]
    BY <2>1, Appended
  <2>3. Len(a) = m /\ Len(b) = n
    BY <1>2, <1>4
  <2> HIDE DEF v
  <2> QED
    BY <2>2, <2>3
<1> HIDE DEF v
<1>8. \A k \in 1 .. m + n : v[k] = w[k]
  <2> SUFFICES ASSUME NEW k \in 1 .. m + n PROVE v[k] = w[k]
    OBVIOUS
  <2>1. CASE k <= m
    BY <1>2, <1>3, <1>7, <2>1
  <2>2. CASE ~(k <= m)
    <3>1. k - m \in 1 .. n /\ m + (k - m) = k
      BY <2>2
    <3>2. v[k] = b[k - m] /\ b[k - m] = t[m + (k - m)]
      BY <1>5, <1>7, <3>1
    <3> QED
      BY <1>3, <3>1, <3>2
  <2> QED
    BY <2>1, <2>2
<1>9. a \o b = w
  <2>1. v = w
    BY <1>3, <1>7, <1>8
  <2> QED
    BY <2>1 DEF v
<1> QED
  BY <1>2, <1>4, <1>6, <1>9 DEF a, b, w

\* What a segment makes of a connection.
LEMMA SegmentIs ==
  ASSUME StreamsAssumption, IntakeAssumption, NEW c \in Conns, InvConn(c),
         NEW n \in 1 .. BUF_SIZE, Segment(c, n), NEW r, r = Received(c, n),
         NEW m, m = taken[c] + n, NEW w, w = SubSeq(StreamText(c), 1, m)
  PROVE  /\ m \in Nat /\ m # 0 /\ m <= BUF_SIZE /\ m <= Len(StreamText(c))
         /\ \E O : Received1(stream[c], StreamText(c), O, m, w)
         /\ r.req_queue = <<>> => m < Len(Text(stream[c][1])) /\ Collected(r, w)
         /\ r.req_queue # <<>> =>
              /\ ~(m < Len(Text(stream[c][1])))
              /\ \E d : /\ Holds(d, w) /\ ~Waiting(d)
                        /\ \E k \in 1 .. Cardinality(Ends(d)) :
                             /\ Queued(d, k, r)
                             /\ Short(d) = {} => k = Cardinality(Ends(d))
<1> DEFINE q == stream[c]
           t == StreamText(c)
           l == taken[c]
           b == bufs[c]
           s == SubSeq(t, 1, l)
           u == SubSeq(t, l + 1, l + n)
<1>1. /\ t \in Seq(Token) /\ Len(t) \in Nat /\ \E O : Streamed(q, t, O)
  BY StreamOf DEF InvConn
<1>2. PICK O : Streamed(q, t, O)
  BY <1>1
<1>3. l \in Nat /\ n \in Nat /\ n # 0 /\ BUF_SIZE \in Nat
  BY <1>1 DEF InvConn, IntakeAssumption
<1>4. Collected(b, s)
  BY DEF InvConn, Segment, Reading, PartOf
<1>5. n <= FreeSize(b) /\ n <= Len(t) - l
  BY DEF Segment
<1>6. r = parse_request(recv_request(b, u))
  BY DEF Received
<1> HIDE DEF t, b, q, l
<1>7. m = l + n /\ l + n <= Len(t) /\ m \in Nat /\ m # 0 /\ m \in 0 .. Len(t)
  BY <1>1, <1>3, <1>5 DEF l
<1>8. s \in Seq(Token) /\ Len(s) = l /\ u \in Seq(Token) /\ u # <<>> /\ s \o u = w
  <2>1. w = SubSeq(t, 1, l + n)
    BY <1>7 DEF t
  <2>2. /\ s \in Seq(Token) /\ Len(s) = l /\ u \in Seq(Token) /\ u # <<>>
        /\ s \o u = SubSeq(t, 1, l + n)
    <3>1. t \in Seq(Token) /\ l \in Nat /\ n \in Nat /\ n # 0 /\ l + n <= Len(t)
      BY <1>1, <1>3, <1>7
    <3> QED
      BY <3>1, PartsJoin, SMTT(30)
  <2> QED
    BY <2>1, <2>2
<1>9. Received1(q, t, O, m, w)
  BY <1>2, <1>7, PartIs DEF t
<1> HIDE DEF s, u
<1>10. m <= BUF_SIZE
  <2>1. Emptied(b).rbuf_size = Len(s)
    BY <1>4, <1>8, RecvIs
  <2>2. FreeSize(b) = BUF_SIZE - l
    BY <1>8, <2>1 DEF FreeSize
  <2> QED
    BY <1>3, <1>5, <1>7, <2>2
<1>11. PICK d :
         /\ Holds(d, w)
         /\ Waiting(d) => Collected(r, w)
         /\ ~Waiting(d) => \E k \in 1 .. Cardinality(Ends(d)) :
                             /\ Queued(d, k, r)
                             /\ Short(d) = {} => k = Cardinality(Ends(d))
  <2>1. ParsedTo(s \o u, r)
    BY <1>4, <1>6, <1>8, ParseIs
  <2>2. ParsedTo(w, r)
    BY <1>8, <2>1
  <2> QED
    BY <2>2 DEF ParsedTo
<1>12. Waiting(d) <=> m < Len(Text(q[1]))
  BY <1>9, <1>11, WaitsForFirst
<1>13. Waiting(d) => r.req_queue = <<>>
  BY <1>11 DEF Collected, Holds, Untouched
<1>14. ~Waiting(d) => r.req_queue # <<>>
  <2> SUFFICES ASSUME ~Waiting(d) PROVE r.req_queue # <<>>
    OBVIOUS
  <2>1. PICK k \in 1 .. Cardinality(Ends(d)) : Queued(d, k, r)
    BY <1>11
  <2>2. Cardinality(Ends(d)) \in Nat
    <3>1. HasText(d)
      <4>1. d.rbuf = w /\ d.rbuf_head = 0
        BY <1>11 DEF Holds, Untouched
      <4>2. Len(w) \in Nat
        BY <1>7, <1>9, ReceivedFacts
      <4> QED
        BY <4>1, <4>2 DEF HasText
    <3> QED
      BY <3>1, ReqEndRank
  <2>3. k # 0 /\ Len(r.req_queue) = k
    BY <2>1, <2>2 DEF Queued
  <2>4. Len(<<>>) = 0
    OBVIOUS
  <2> QED
    BY <2>3, <2>4
<1>15. r.req_queue = <<>> => m < Len(Text(q[1])) /\ Collected(r, w)
  BY <1>11, <1>12, <1>14
<1>16. r.req_queue # <<>> =>
         /\ ~(m < Len(Text(q[1])))
         /\ \E e : /\ Holds(e, w) /\ ~Waiting(e)
                   /\ \E k \in 1 .. Cardinality(Ends(e)) :
                        /\ Queued(e, k, r)
                        /\ Short(e) = {} => k = Cardinality(Ends(e))
  <2> SUFFICES ASSUME r.req_queue # <<>>
               PROVE  /\ ~(m < Len(Text(q[1])))
                      /\ \E e : /\ Holds(e, w) /\ ~Waiting(e)
                                /\ \E k \in 1 .. Cardinality(Ends(e)) :
                                     /\ Queued(e, k, r)
                                     /\ Short(e) = {} => k = Cardinality(Ends(e))
    OBVIOUS
  <2>1. ~Waiting(d)
    BY <1>13
  <2> QED
    BY <1>11, <1>12, <2>1
<1>17. m <= Len(t)
  BY <1>7
<1> QED
  BY <1>7, <1>9, <1>10, <1>15, <1>16, <1>17 DEF q, t

(***************************************************************************)
(* The rate.                                                               *)
(***************************************************************************)

LEMMA RateIsNat ==
  ASSUME RateAssumption, RateInv, all_rates # NONE
  PROVE  new_rate \in Nat
<1>1. all_rates \in [Slots -> Nat] /\ RatesTerminated
  BY RatesMade DEF RateInv
<1>2. Stop \in Slots
  BY <1>1, StopIsFirst DEF Stops
<1>3. CASE Stop = 0
  BY <1>1, <1>2, <1>3 DEF new_rate
<1>4. CASE Stop # 0
  <2>1. Stop - 1 \in Slots
    BY <1>2, <1>4 DEF Slots, RateAssumption
  <2> QED
    BY <1>1, <1>4, <2>1 DEF new_rate
<1> QED
  BY <1>3, <1>4

LEMMA MinIs ==
  ASSUME NEW S, NEW x \in S, S \subseteq Nat, \A y \in S : x <= y
  PROVE  Min(S) = x
<1>1. x \in Nat /\ \A y \in S : y \in Nat
  OBVIOUS
<1>2. Min(S) \in S /\ \A y \in S : Min(S) <= y
  BY DEF Min
<1>3. Min(S) \in Nat /\ Min(S) <= x /\ x <= Min(S)
  BY <1>1, <1>2
<1> QED
  BY <1>1, <1>3

\* What the walk chooses is the best there is.
BestRate(offered, rate, avg) ==
  LET within == {r \in offered : 3 * r <= 2 * avg}
  IN  rate = IF within = {} THEN Min(offered) ELSE Max(within)

WalkedTo(offered, rate, avg) ==
  LET within == {r \in offered : 3 * r <= 2 * avg}
  IN  \/ rate \in within /\ \A r \in within : r <= rate
      \/ within = {} /\ \A r \in offered : rate <= r

LEMMA BestIs ==
  ASSUME NEW offered, offered \subseteq Nat, NEW rate \in offered, NEW avg,
         WalkedTo(offered, rate, avg)
  PROVE  BestRate(offered, rate, avg)
<1> DEFINE within == {r \in offered : 3 * r <= 2 * avg}
<1>1. within \subseteq Nat
  OBVIOUS
<1>2. \/ rate \in within /\ \A r \in within : r <= rate
      \/ within = {} /\ \A r \in offered : rate <= r
  BY DEF WalkedTo
<1> HIDE DEF within
<1>3. CASE rate \in within /\ \A r \in within : r <= rate
  <2>1. Max(within) = rate
    BY <1>1, <1>3, MaxIs
  <2> QED
    BY <1>3, <2>1 DEF within, BestRate
<1>4. CASE within = {} /\ \A r \in offered : rate <= r
  <2>1. Min(offered) = rate
    BY <1>4, MinIs
  <2> QED
    BY <1>4, <2>1 DEF within, BestRate
<1> QED
  BY <1>2, <1>3, <1>4

LEMMA RatedIsBest ==
  ASSUME RateAssumption, RateInv, all_rates # NONE, NEW q, NEW b, Rated(q, b)
  PROVE  /\ Best(q, b, avg_tput, Offered)
         /\ Ascending => BestOf(q, b, avg_tput, Offered)
<1>1. /\ all_rates \in [Slots -> Nat] /\ RatesTerminated /\ avg_tput \in Nat
  BY RatesMade DEF RateInv
<1>2. Offered \subseteq Nat
  BY <1>1 DEF Offered
<1>3. ASSUME Len(q) = 1, q[1].file = "chunk"
      PROVE  b.bitrate = IF avg_tput = 0 THEN q[1].rate ELSE new_rate
  BY <1>3 DEF Rated
<1>4. Offered # {} => Chosen(new_rate)
  BY <1>1, WalkChooses
<1>5. Best(q, b, avg_tput, Offered)
  BY <1>3, <1>4 DEF Best, Chosen
<1>6. ASSUME Ascending, Offered # {}
      PROVE  BestRate(Offered, new_rate, avg_tput)
  <2>1. Chosen(new_rate)
    BY <1>4, <1>6
  <2>2. new_rate \in Offered
    BY <2>1 DEF Chosen
  <2>3. WalkedTo(Offered, new_rate, avg_tput)
    BY <1>6, <2>1, <2>2 DEF Chosen, Affordable, WalkedTo
  <2> QED
    BY <1>2, <2>2, <2>3, BestIs
<1>7. Ascending => BestOf(q, b, avg_tput, Offered)
  BY <1>3, <1>6 DEF BestOf, BestRate
<1> QED
  BY <1>5, <1>7

(***************************************************************************)
(* It holds at first, and what does not touch a connection keeps it.       *)
(***************************************************************************)

LEMMA InitBufIs == Collected(InitBuf, <<>>)
<1> DEFINE s == <<>>
<1>1. s \in Seq(Token) /\ Len(s) = 0
  OBVIOUS
<1>2. LastEnd(s) \in 0 .. Len(s) /\ CRLF2Ends(s, 0) \subseteq 0 + 2 .. Len(s)
  BY <1>1, LastEndIs, EndsFinite
<1>3. LastEnd(s) = 0 /\ CRLF2Ends(s, 0) = {}
  BY <1>1, <1>2
<1>4. Cardinality({}) = 0
  BY FS_EmptySet
<1>5. Untouched(InitBuf)
  BY DEF Untouched, InitBuf, Fields
<1>6. /\ InitBuf.rbuf = s /\ InitBuf.rbuf_size = 0 /\ InitBuf.parse_p = 0
      /\ InitBuf.rbuf_req_count = 0 /\ InitBuf.req_fully_received = TRUE
  BY DEF InitBuf
<1>7. Untouched(InitBuf) /\ InitBuf.req_fully_received \in BOOLEAN
      /\ (InitBuf.req_fully_received <=> s = <<>>)
  BY <1>5, <1>6
<1> HIDE DEF s
<1>8. Collected(InitBuf, s)
  BY <1>1, <1>3, <1>4, <1>6, <1>7 DEF Collected, Holds
<1> QED
  BY <1>8 DEF s

\* A buf that has collected s is in order.
LEMMA CollectedOK ==
  ASSUME IntakeAssumption, NEW s \in Seq(Token), Len(s) <= BUF_SIZE, NEW b, Collected(b, s)
  PROVE  BufOK(b) /\ CountOK(b)
<1>1. Untouched(b) /\ b.rbuf = s /\ b.rbuf_size = Len(s) /\ b.parse_p = LastEnd(s)
      /\ b.rbuf_req_count = Cardinality(CRLF2Ends(s, 0)) /\ b.req_fully_received \in BOOLEAN
  BY DEF Collected, Holds
<1>2. Len(s) \in -1 .. BUF_SIZE
  BY DEF IntakeAssumption
<1> QED
  BY <1>1, <1>2, UntouchedOK

LEMMA IntakeInit ==
  ASSUME RateAssumption, IntakeAssumption, StreamsAssumption, Init
  PROVE  IntakeInv
<1>1. RateInv /\ all_rates = NONE /\ manifest \in Manifests
  BY RateInvInit DEF Init, RateInit
<1>2. InvFunctions
  BY DEF Init, InvFunctions
<1>3. InvUp
  BY <1>1 DEF Init, InvUp, DiesOnlyOfOddText
<1>4. \A c \in Conns : stage[c] = "reading"
  BY DEF Init
<1>5. ASSUME NEW c \in Conns PROVE InvConn(c)
  <2>1. /\ stream[c] \in Streams[c] /\ taken[c] = 0 /\ stage[c] = "reading"
        /\ bufs[c] = InitBuf /\ rate_at[c] = 0
    BY DEF Init
  <2>2. StreamText(c) \in Seq(Token) /\ Len(StreamText(c)) \in Nat /\ stream[c][1] \in Request
    BY <2>1, StreamOf
  <2>3. SubSeq(StreamText(c), 1, 0) = <<>>
    BY <2>2
  <2>4. <<>> \in Seq(Token) /\ Len(<<>>) = 0 /\ 0 <= BUF_SIZE
    BY DEF IntakeAssumption
  <2>5. BufOK(InitBuf) /\ CountOK(InitBuf)
    BY <2>4, InitBufIs, CollectedOK
  <2>6. 0 < Len(Text(stream[c][1]))
    BY <2>2, TextIs
  <2>7. PartOf(stream[c], StreamText(c), taken[c], bufs[c])
    BY <2>1, <2>3, <2>4, <2>6, InitBufIs DEF PartOf
  <2>8. ~Taken(c)
    BY <2>1 DEF Taken
  <2>9. taken[c] \in 0 .. Len(StreamText(c))
    BY <2>1, <2>2
  <2> QED
    BY <2>1, <2>5, <2>7, <2>8, <2>9 DEF InvConn
<1> QED
  BY <1>1, <1>2, <1>3, <1>4, <1>5 DEF IntakeInv, Taken

LEMMA RatesKept ==
  ASSUME all_rates' = all_rates
  PROVE  Offered' = Offered /\ (Ascending' <=> Ascending)
<1>1. Offered' = Offered
  BY DEF Offered, Listed
<1>2. Ascending' <=> Ascending
  BY DEF Ascending, Listed
<1> QED
  BY <1>1, <1>2

LEMMA StreamKept ==
  ASSUME stream' = stream, NEW c
  PROVE  StreamText(c)' = StreamText(c)
BY DEF StreamText

LEMMA ConnKept ==
  ASSUME NEW c \in Conns, InvConn(c), stream' = stream, all_rates' = all_rates \/ ~Taken(c),
         up' => up, taken'[c] = taken[c], stage'[c] = stage[c], bufs'[c] = bufs[c],
         rate_at'[c] = rate_at[c]
  PROVE  InvConn(c)' /\ (Taken(c)' <=> Taken(c))
<1>1. StreamText(c)' = StreamText(c)
  BY StreamKept
<1>2. Taken(c)' <=> Taken(c)
  BY DEF Taken
<1>3. Taken(c) => Offered' = Offered /\ (Ascending' <=> Ascending)
  BY RatesKept
<1>4. /\ stream[c]' \in Streams[c] /\ taken[c]' \in 0 .. Len(StreamText(c)')
      /\ stage[c]' \in {"reading", "handed", "refused", "dropped", "replied"}
      /\ rate_at[c]' \in Nat /\ BufOK(bufs[c]') /\ CountOK(bufs[c]')
  BY <1>1 DEF InvConn
<1>5. up' /\ stage[c]' = "reading"
        => PartOf(stream[c]', StreamText(c)', taken[c]', bufs[c]')
  BY <1>1 DEF InvConn
<1>6. stage[c]' = "refused" => Len(Text(stream[c]'[1])) > BUF_SIZE
  BY DEF InvConn
<1>7. Taken(c)' => /\ taken[c]' >= Len(Text(stream[c]'[1]))
                   /\ InOrder(stream[c]', bufs[c]') /\ AsAsked(stream[c]', bufs[c]')
                   /\ Best(stream[c]', bufs[c]', rate_at[c]', Offered')
                   /\ Ascending' => BestOf(stream[c]', bufs[c]', rate_at[c]', Offered')
  BY <1>2, <1>3 DEF InvConn
<1> QED
  BY <1>2, <1>4, <1>5, <1>6, <1>7 DEF InvConn

\* A step at one connection, once the loop runs.
LEMMA OneMoves ==
  ASSUME IntakeInv, RateInv', InvFunctions', InvUp', stream' = stream,
         UNCHANGED manifest_vars, all_rates # NONE, up' => up,
         NEW c \in Conns, InvConn(c)',
         \A d \in Conns : d # c => /\ taken'[d] = taken[d] /\ stage'[d] = stage[d]
                                   /\ bufs'[d] = bufs[d] /\ rate_at'[d] = rate_at[d]
  PROVE  IntakeInv'
<1>1. all_rates' = all_rates /\ manifest' = manifest
  BY DEF manifest_vars
<1>2. ASSUME NEW d \in Conns PROVE InvConn(d)'
  <2>1. CASE d = c
    BY <2>1
  <2>2. CASE d # c
    BY <1>1, <2>2, ConnKept DEF IntakeInv
  <2> QED
    BY <2>1, <2>2
<1>3. manifest' \in Manifests \cup {<<>>} /\ all_rates' # NONE
  BY <1>1 DEF IntakeInv
<1> QED
  BY <1>2, <1>3 DEF IntakeInv

LEMMA UpKept ==
  ASSUME InvUp, up' = up, stream' = stream, all_rates' = all_rates
  PROVE  InvUp'
<1>1. ASSUME NEW c PROVE Single(c)' = Single(c) /\ Asked(c)' = Asked(c)
  BY DEF Single, Asked
<1>2. DiesOnlyOfOddText' <=> DiesOnlyOfOddText
  BY <1>1 DEF DiesOnlyOfOddText
<1> QED
  BY <1>2 DEF InvUp

(***************************************************************************)
(* Every step keeps it.                                                    *)
(***************************************************************************)

LEMMA StartStep ==
  ASSUME IntakeInv, RateInv', Start
  PROVE  IntakeInv'
<1>1. /\ up /\ up' = up /\ stream' = stream /\ taken' = taken /\ stage' = stage
      /\ bufs' = bufs /\ rate_at' = rate_at /\ all_rates = NONE
      /\ manifest' = manifest \/ manifest' = <<>>
  BY DEF Start, Starting, RecvManifest, GotManifest
<1>2. InvFunctions'
  BY <1>1 DEF IntakeInv, InvFunctions
<1>3. InvUp'
  BY <1>1 DEF IntakeInv, InvUp, DiesOnlyOfOddText
<1>4. \A c \in Conns : InvConn(c)' /\ ~Taken(c)'
  BY <1>1, ConnKept DEF IntakeInv
<1>5. manifest' \in Manifests \cup {<<>>}
  BY <1>1 DEF IntakeInv
<1> QED
  BY <1>2, <1>3, <1>4, <1>5 DEF IntakeInv

LEMMA StartFailsStep ==
  ASSUME IntakeInv, RateInv', StartFails
  PROVE  IntakeInv'
<1>1. /\ up' = FALSE /\ stream' = stream /\ taken' = taken /\ stage' = stage
      /\ bufs' = bufs /\ rate_at' = rate_at /\ all_rates = NONE /\ all_rates' = all_rates
      /\ manifest' = manifest
  BY DEF StartFails, Starting, rate_vars, manifest_vars
<1>2. InvFunctions'
  BY <1>1 DEF IntakeInv, InvFunctions
<1>3. InvUp'
  BY <1>1 DEF IntakeInv, InvUp, DiesOnlyOfOddText
<1>4. \A c \in Conns : InvConn(c)' /\ ~Taken(c)'
  BY <1>1, ConnKept DEF IntakeInv
<1>5. manifest' \in Manifests \cup {<<>>}
  BY <1>1 DEF IntakeInv
<1> QED
  BY <1>2, <1>3, <1>4, <1>5 DEF IntakeInv

\* What a step at c changes of the others: nothing.
LEMMA OthersAre ==
  ASSUME InvFunctions, NEW c \in Conns, NEW d \in Conns, d # c, NEW x
  PROVE  /\ [taken EXCEPT ![c] = x][d] = taken[d] /\ [stage EXCEPT ![c] = x][d] = stage[d]
         /\ [bufs EXCEPT ![c] = x][d] = bufs[d] /\ [rate_at EXCEPT ![c] = x][d] = rate_at[d]
BY DEF InvFunctions

LEMMA PartStep ==
  ASSUME StreamsAssumption, IntakeAssumption, IntakeInv, RateInv',
         NEW c \in Conns, NEW n \in 1 .. BUF_SIZE, RecvPart(c, n)
  PROVE  IntakeInv'
<1> DEFINE m == taken[c] + n
           r == Received(c, n)
           w == SubSeq(StreamText(c), 1, m)
<1>1. /\ Segment(c, n) /\ r.req_queue = <<>> /\ Reading(c) /\ stage[c] = "reading" /\ up
      /\ all_rates # NONE /\ InvConn(c) /\ InvFunctions
  BY DEF RecvPart, Segment, Reading, IntakeInv
<1>2. /\ taken' = [taken EXCEPT ![c] = m] /\ bufs' = [bufs EXCEPT ![c] = r]
      /\ up' = up /\ stream' = stream /\ stage' = stage /\ rate_at' = rate_at
      /\ all_rates' = all_rates /\ UNCHANGED manifest_vars
  BY DEF RecvPart, Segment, rate_vars, manifest_vars
<1>3. /\ m \in Nat /\ m # 0 /\ m <= BUF_SIZE /\ m <= Len(StreamText(c))
      /\ \E O : Received1(stream[c], StreamText(c), O, m, w)
      /\ m < Len(Text(stream[c][1])) /\ Collected(r, w)
  BY <1>1, SegmentIs
<1> HIDE DEF m, r, w
<1>4. w \in Seq(Token) /\ Len(w) <= BUF_SIZE
  BY <1>3, ReceivedFacts
<1>5. BufOK(r) /\ CountOK(r)
  BY <1>3, <1>4, CollectedOK
<1>6. PartOf(stream[c], StreamText(c), m, r)
  BY <1>3 DEF PartOf, w
<1>7. /\ taken'[c] = m /\ bufs'[c] = r /\ stage'[c] = "reading" /\ rate_at'[c] = rate_at[c]
      /\ stream'[c] = stream[c] /\ StreamText(c)' = StreamText(c)
  BY <1>1, <1>2, StreamKept DEF InvFunctions
<1>8. InvConn(c)'
  <2>1. m \in 0 .. Len(StreamText(c))
    BY <1>1, <1>3, StreamOf DEF InvConn
  <2>2. ~Taken(c)'
    BY <1>7 DEF Taken
  <2>3. stream[c] \in Streams[c] /\ rate_at[c] \in Nat
    BY <1>1 DEF InvConn
  <2> QED
    BY <1>5, <1>6, <1>7, <2>1, <2>2, <2>3 DEF InvConn
<1>9. InvFunctions'
  BY <1>1, <1>2 DEF InvFunctions
<1>10. InvUp'
  BY <1>2, UpKept DEF IntakeInv
<1>11. \A d \in Conns : d # c => /\ taken'[d] = taken[d] /\ stage'[d] = stage[d]
                                /\ bufs'[d] = bufs[d] /\ rate_at'[d] = rate_at[d]
  BY <1>1, <1>2, OthersAre
<1> QED
  BY <1>1, <1>2, <1>8, <1>9, <1>10, <1>11, OneMoves

LEMMA RequestStep ==
  ASSUME RateAssumption, StreamsAssumption, IntakeAssumption, IntakeInv, RateInv',
         NEW c \in Conns, NEW n \in 1 .. BUF_SIZE, RecvRequest(c, n)
  PROVE  IntakeInv'
<1> DEFINE m == taken[c] + n
           r == Received(c, n)
           b == prepare_request(r)
           w == SubSeq(StreamText(c), 1, m)
           q == stream[c]
<1>1. /\ Segment(c, n) /\ r.req_queue # <<>> /\ ~Kills(r) /\ stage[c] = "reading" /\ up
      /\ all_rates # NONE /\ InvConn(c) /\ InvFunctions /\ RateInv
  BY DEF RecvRequest, Segment, Reading, IntakeInv
<1>2. /\ taken' = [taken EXCEPT ![c] = m] /\ bufs' = [bufs EXCEPT ![c] = b]
      /\ stage' = [stage EXCEPT ![c] = "handed"] /\ rate_at' = [rate_at EXCEPT ![c] = avg_tput]
      /\ up' = up /\ stream' = stream /\ all_rates' = all_rates /\ UNCHANGED manifest_vars
  BY DEF RecvRequest, Segment, rate_vars, manifest_vars
<1>3. /\ m \in Nat /\ m # 0 /\ m <= BUF_SIZE /\ m <= Len(StreamText(c))
      /\ \E O : Received1(q, StreamText(c), O, m, w)
      /\ ~(m < Len(Text(q[1])))
      /\ \E d : /\ Holds(d, w) /\ ~Waiting(d)
                /\ \E k \in 1 .. Cardinality(Ends(d)) :
                     /\ Queued(d, k, r)
                     /\ Short(d) = {} => k = Cardinality(Ends(d))
  BY <1>1, SegmentIs
<1>4. new_rate \in Nat
  BY <1>1, RateIsNat
<1> HIDE DEF m, r, w
<1>5. PICK O : Received1(q, StreamText(c), O, m, w)
  BY <1>3
<1>6. w \in Seq(Token) /\ Len(w) <= BUF_SIZE
  BY <1>3, <1>5, ReceivedFacts
<1>7. PICK d : /\ Holds(d, w) /\ ~Waiting(d)
               /\ \E k \in 1 .. Cardinality(Ends(d)) :
                    Queued(d, k, r) /\ (Short(d) = {} => k = Cardinality(Ends(d)))
  BY <1>3
<1>8. PICK k \in 1 .. Cardinality(Ends(d)) :
         Queued(d, k, r) /\ (Short(d) = {} => k = Cardinality(Ends(d)))
  BY <1>7
<1>9. Short(d) = {}
  BY <1>1, <1>6, <1>7, <1>8, SurvivesIs
<1>10. Serving(b) /\ Same(dequeue_request(r), b)
  BY <1>1, <1>4, <1>6, <1>7, <1>8, PrepareIs
<1>11. AsAsked(q, b)
  BY <1>1, <1>3, <1>4, <1>5, <1>7, <1>8, SentIs
<1>12. Rated(q, b)
  BY <1>1, <1>3, <1>4, <1>5, <1>7, <1>8, RatedIs
<1> HIDE DEF b
<1>13. BufOK(b) /\ CountOK(b)
  <2>1. k = Cardinality(Ends(d))
    BY <1>8, <1>9
  <2> QED
    BY <1>6, <1>7, <1>8, <1>9, <1>10, <2>1, ServingOK
<1>14. InOrder(q, b)
  BY <1>5, <1>7, <1>8, <1>9, <1>10, InOrderIs
<1>15. Best(q, b, avg_tput, Offered) /\ (Ascending => BestOf(q, b, avg_tput, Offered))
  BY <1>1, <1>12, RatedIsBest
<1>16. /\ taken'[c] = m /\ bufs'[c] = b /\ stage'[c] = "handed" /\ rate_at'[c] = avg_tput
       /\ stream'[c] = q /\ StreamText(c)' = StreamText(c)
  BY <1>1, <1>2, StreamKept DEF InvFunctions
<1>17. Offered' = Offered /\ (Ascending' <=> Ascending)
  BY <1>2, RatesKept
<1>18. InvConn(c)'
  <2>1. m \in 0 .. Len(StreamText(c))
    BY <1>1, <1>3, StreamOf DEF InvConn
  <2>2. m >= Len(Text(q[1]))
    <3>1. q[1] \in Request
      BY <1>1, StreamOf DEF InvConn
    <3>2. Len(Text(q[1])) \in Nat
      BY <3>1, TextIs
    <3> HIDE DEF q
    <3> QED
      BY <1>3, <3>2
  <2>3. q \in Streams[c]
    BY <1>1 DEF InvConn
  <2>4. avg_tput \in Nat
    BY <1>1 DEF RateInv
  <2>5. /\ stream[c]' \in Streams[c] /\ taken[c]' \in 0 .. Len(StreamText(c)')
        /\ stage[c]' = "handed" /\ rate_at[c]' \in Nat /\ BufOK(bufs[c]') /\ CountOK(bufs[c]')
    BY <1>13, <1>16, <2>1, <2>3, <2>4
  <2>6. /\ taken[c]' >= Len(Text(stream[c]'[1]))
        /\ InOrder(stream[c]', bufs[c]') /\ AsAsked(stream[c]', bufs[c]')
        /\ Best(stream[c]', bufs[c]', rate_at[c]', Offered')
        /\ Ascending' => BestOf(stream[c]', bufs[c]', rate_at[c]', Offered')
    BY <1>11, <1>14, <1>15, <1>16, <1>17, <2>2
  <2> QED
    BY <2>5, <2>6 DEF InvConn
<1>19. InvFunctions'
  BY <1>1, <1>2 DEF InvFunctions
<1>20. InvUp'
  BY <1>2, UpKept DEF IntakeInv
<1>21. \A e \in Conns : e # c => /\ taken'[e] = taken[e] /\ stage'[e] = stage[e]
                                /\ bufs'[e] = bufs[e] /\ rate_at'[e] = rate_at[e]
  BY <1>1, <1>2, OthersAre
<1> QED
  BY <1>1, <1>2, <1>18, <1>19, <1>20, <1>21, OneMoves

LEMMA DiesStep ==
  ASSUME StreamsAssumption, IntakeAssumption, IntakeInv, RateInv',
         NEW c \in Conns, NEW n \in 1 .. BUF_SIZE, RecvDies(c, n)
  PROVE  IntakeInv'
<1> DEFINE m == taken[c] + n
           r == Received(c, n)
           w == SubSeq(StreamText(c), 1, m)
           q == stream[c]
<1>0. Kills(r) \/ MayKill(r)
  BY DEF RecvDies
<1>1. /\ Segment(c, n) /\ r.req_queue # <<>>
      /\ stage[c] = "reading" /\ up /\ all_rates # NONE /\ InvConn(c) /\ InvFunctions
  BY DEF RecvDies, Segment, Reading, IntakeInv
<1>2. /\ taken' = [taken EXCEPT ![c] = m] /\ bufs' = bufs /\ up' = FALSE
      /\ stream' = stream /\ stage' = stage /\ rate_at' = rate_at
      /\ all_rates' = all_rates /\ UNCHANGED manifest_vars
  BY DEF RecvDies, Segment, rate_vars, manifest_vars
<1>3. /\ m \in Nat /\ m # 0 /\ m <= BUF_SIZE /\ m <= Len(StreamText(c))
      /\ \E O : Received1(q, StreamText(c), O, m, w)
      /\ ~(m < Len(Text(q[1])))
      /\ \E d : /\ Holds(d, w) /\ ~Waiting(d)
                /\ \E k \in 1 .. Cardinality(Ends(d)) :
                     /\ Queued(d, k, r)
                     /\ Short(d) = {} => k = Cardinality(Ends(d))
  BY <1>1, SegmentIs
<1> HIDE DEF m, r, w
<1>4. Len(q) # 1 \/ q[1].file = "seg"
  <2>1. PICK O : Received1(q, StreamText(c), O, m, w)
    BY <1>3
  <2>2. PICK d : /\ Holds(d, w) /\ ~Waiting(d)
                 /\ \E k \in 1 .. Cardinality(Ends(d)) : Queued(d, k, r)
    BY <1>3
  <2>3. PICK k \in 1 .. Cardinality(Ends(d)) : Queued(d, k, r)
    BY <2>2
  <2> HIDE DEF q
  <2>4. Len(q) = 1 /\ q[1].file # "seg" => ~Kills(r) /\ ~MayKill(r)
    BY <1>3, <2>1, <2>2, <2>3, SingleSurvives
  <2> QED
    BY <1>0, <2>4
<1>5. InvUp'
  BY <1>2, <1>4 DEF InvUp, DiesOnlyOfOddText, Single, Asked
<1>6. /\ taken'[c] = m /\ bufs'[c] = bufs[c] /\ stage'[c] = "reading"
      /\ rate_at'[c] = rate_at[c] /\ stream'[c] = q /\ StreamText(c)' = StreamText(c)
  BY <1>1, <1>2, StreamKept DEF InvFunctions
<1>7. InvConn(c)'
  <2>1. m \in 0 .. Len(StreamText(c))
    BY <1>1, <1>3, StreamOf DEF InvConn
  <2>2. ~Taken(c)'
    BY <1>6 DEF Taken
  <2>3. q \in Streams[c] /\ rate_at[c] \in Nat /\ BufOK(bufs[c]) /\ CountOK(bufs[c])
    BY <1>1 DEF InvConn
  <2> QED
    BY <1>2, <1>6, <2>1, <2>2, <2>3 DEF InvConn
<1>8. InvFunctions'
  BY <1>1, <1>2 DEF InvFunctions
<1>9. \A e \in Conns : e # c => /\ taken'[e] = taken[e] /\ stage'[e] = stage[e]
                               /\ bufs'[e] = bufs[e] /\ rate_at'[e] = rate_at[e]
  BY <1>1, <1>2, OthersAre
<1> QED
  BY <1>1, <1>2, <1>5, <1>7, <1>8, <1>9, OneMoves

LEMMA FullStep ==
  ASSUME StreamsAssumption, IntakeAssumption, IntakeInv, RateInv',
         NEW c \in Conns, RecvFull(c)
  PROVE  IntakeInv'
<1> DEFINE s == SubSeq(StreamText(c), 1, taken[c])
           b == bufs[c]
           e == Emptied(b)
           q == stream[c]
<1>1. /\ FreeSize(b) = 0 /\ stage[c] = "reading" /\ up
      /\ all_rates # NONE /\ InvConn(c) /\ InvFunctions
  BY DEF RecvFull, Reading, IntakeInv
<1>2. /\ bufs' = [bufs EXCEPT ![c] = e] /\ stage' = [stage EXCEPT ![c] = "refused"]
      /\ up' = up /\ stream' = stream /\ taken' = taken /\ rate_at' = rate_at
      /\ all_rates' = all_rates /\ UNCHANGED manifest_vars
  BY DEF RecvFull, rate_vars, manifest_vars
<1>3. /\ StreamText(c) \in Seq(Token) /\ Len(StreamText(c)) \in Nat
      /\ taken[c] \in 0 .. Len(StreamText(c)) /\ q[1] \in Request
  BY <1>1, StreamOf DEF InvConn
<1>4. PartOf(q, StreamText(c), taken[c], b)
  BY <1>1 DEF InvConn
<1>5. s \in Seq(Token) /\ Len(s) = taken[c]
  <2> DEFINE t == StreamText(c)
  <2> HIDE DEF t
  <2>1. taken[c] \in Nat /\ taken[c] <= Len(t) /\ t \in Seq(Token) /\ Len(t) \in Nat
    BY <1>3 DEF t
  <2>2. SubSeq(t, 1, taken[c]) \in Seq(Token) /\ Len(SubSeq(t, 1, taken[c])) = taken[c]
    BY <2>1
  <2> QED
    BY <2>2 DEF t
<1>6. Collected(b, s) /\ taken[c] <= BUF_SIZE /\ taken[c] < Len(Text(q[1]))
  BY <1>4 DEF PartOf
<1> HIDE DEF s
<1>7. /\ Untouched(e) /\ e.rbuf = s /\ e.rbuf_size = Len(s) /\ e.parse_p = LastEnd(s)
      /\ e.rbuf_req_count = Cardinality(CRLF2Ends(s, 0))
      /\ e.req_fully_received = b.req_fully_received
  BY <1>5, <1>6, EmptiedIs
<1>8. BufOK(e) /\ CountOK(e)
  <2>1. b.req_fully_received \in BOOLEAN
    BY <1>6 DEF Collected
  <2>2. Len(s) \in -1 .. BUF_SIZE /\ Len(s) <= BUF_SIZE
    BY <1>3, <1>5, <1>6 DEF IntakeAssumption
  <2> HIDE DEF e
  <2> QED
    BY <1>5, <1>7, <2>1, <2>2, UntouchedOK
<1>9. Len(Text(q[1])) > BUF_SIZE
  <2>1. BUF_SIZE = taken[c]
    <3>1. FreeSize(b) = BUF_SIZE - taken[c]
      BY <1>5, <1>7 DEF FreeSize
    <3> QED
      BY <1>1, <1>3, <3>1 DEF IntakeAssumption
  <2>2. Len(Text(q[1])) \in Nat
    BY <1>3, TextIs
  <2> HIDE DEF q
  <2> QED
    BY <1>3, <1>6, <2>1, <2>2
<1> HIDE DEF e
<1>10. /\ taken'[c] = taken[c] /\ bufs'[c] = e /\ stage'[c] = "refused"
       /\ rate_at'[c] = rate_at[c] /\ stream'[c] = q /\ StreamText(c)' = StreamText(c)
  BY <1>1, <1>2, StreamKept DEF InvFunctions
<1>11. InvConn(c)'
  <2>1. ~Taken(c)'
    BY <1>10 DEF Taken
  <2>2. q \in Streams[c] /\ rate_at[c] \in Nat
    BY <1>1 DEF InvConn
  <2> QED
    BY <1>3, <1>8, <1>9, <1>10, <2>1, <2>2 DEF InvConn
<1>12. InvFunctions'
  BY <1>1, <1>2 DEF InvFunctions
<1>13. InvUp'
  BY <1>2, UpKept DEF IntakeInv
<1>14. \A d \in Conns : d # c => /\ taken'[d] = taken[d] /\ stage'[d] = stage[d]
                                /\ bufs'[d] = bufs[d] /\ rate_at'[d] = rate_at[d]
  BY <1>1, <1>2, OthersAre
<1> QED
  BY <1>1, <1>2, <1>11, <1>12, <1>13, <1>14, OneMoves

LEMMA NothingStep ==
  ASSUME StreamsAssumption, IntakeAssumption, IntakeInv, RateInv',
         NEW c \in Conns, RecvNothing(c)
  PROVE  IntakeInv'
<1> DEFINE s == SubSeq(StreamText(c), 1, taken[c])
           b == bufs[c]
           e == Emptied(b)
           q == stream[c]
<1>1. /\ FreeSize(b) # 0 /\ stage[c] = "reading" /\ up
      /\ all_rates # NONE /\ InvConn(c) /\ InvFunctions
  BY DEF RecvNothing, Reading, IntakeInv
<1>2. PICK readbytes \in {0, -1} :
         bufs' = [bufs EXCEPT ![c] = recv_nothing(b, readbytes)]
  BY DEF RecvNothing
<1> DEFINE f == recv_nothing(b, readbytes)
<1>3. /\ bufs' = [bufs EXCEPT ![c] = f] /\ stage' = [stage EXCEPT ![c] = "dropped"]
      /\ up' = up /\ stream' = stream /\ taken' = taken /\ rate_at' = rate_at
      /\ all_rates' = all_rates /\ UNCHANGED manifest_vars
  BY <1>1, <1>2 DEF RecvNothing, rate_vars, manifest_vars
<1>4. /\ StreamText(c) \in Seq(Token) /\ Len(StreamText(c)) \in Nat
      /\ taken[c] \in 0 .. Len(StreamText(c))
  BY <1>1, StreamOf DEF InvConn
<1>5. PartOf(q, StreamText(c), taken[c], b)
  BY <1>1 DEF InvConn
<1>6. s \in Seq(Token) /\ Len(s) = taken[c]
  <2> DEFINE t == StreamText(c)
  <2> HIDE DEF t
  <2>1. taken[c] \in Nat /\ taken[c] <= Len(t) /\ t \in Seq(Token) /\ Len(t) \in Nat
    BY <1>4 DEF t
  <2>2. SubSeq(t, 1, taken[c]) \in Seq(Token) /\ Len(SubSeq(t, 1, taken[c])) = taken[c]
    BY <2>1
  <2> QED
    BY <2>2 DEF t
<1>7. Collected(b, s) /\ taken[c] <= BUF_SIZE
  BY <1>5 DEF PartOf
<1> HIDE DEF s
<1>8. /\ Untouched(e) /\ e.rbuf = s /\ e.rbuf_size = Len(s) /\ e.parse_p = LastEnd(s)
      /\ e.rbuf_req_count = Cardinality(CRLF2Ends(s, 0))
      /\ e.req_fully_received = b.req_fully_received
  BY <1>6, <1>7, EmptiedIs
<1>8a. f = [e EXCEPT !.rbuf_size = e.rbuf_size + readbytes]
  BY DEF recv_nothing
<1> HIDE DEF e, f
<1>9. /\ Untouched(f) /\ f.rbuf = s /\ f.rbuf_size = Len(s) + readbytes
      /\ f.parse_p = LastEnd(s) /\ f.rbuf_req_count = Cardinality(CRLF2Ends(s, 0))
      /\ f.req_fully_received = b.req_fully_received
  BY <1>8, <1>8a DEF Untouched, Fields
<1>10. BufOK(f) /\ CountOK(f)
  <2>1. f.req_fully_received \in BOOLEAN
    BY <1>7, <1>9 DEF Collected
  <2>2. f.rbuf_size \in -1 .. BUF_SIZE /\ Len(s) <= BUF_SIZE
    BY <1>4, <1>6, <1>7, <1>9 DEF IntakeAssumption
  <2> QED
    BY <1>6, <1>9, <2>1, <2>2, UntouchedOK
<1>11. /\ taken'[c] = taken[c] /\ bufs'[c] = f /\ stage'[c] = "dropped"
       /\ rate_at'[c] = rate_at[c] /\ stream'[c] = q /\ StreamText(c)' = StreamText(c)
  BY <1>1, <1>3, StreamKept DEF InvFunctions
<1>12. InvConn(c)'
  <2>1. ~Taken(c)'
    BY <1>11 DEF Taken
  <2>2. q \in Streams[c] /\ rate_at[c] \in Nat
    BY <1>1 DEF InvConn
  <2> QED
    BY <1>4, <1>10, <1>11, <2>1, <2>2 DEF InvConn
<1>13. InvFunctions'
  BY <1>1, <1>3 DEF InvFunctions
<1>14. InvUp'
  BY <1>3, UpKept DEF IntakeInv
<1>15. \A d \in Conns : d # c => /\ taken'[d] = taken[d] /\ stage'[d] = stage[d]
                                /\ bufs'[d] = bufs[d] /\ rate_at'[d] = rate_at[d]
  BY <1>1, <1>3, OthersAre
<1> QED
  BY <1>1, <1>3, <1>12, <1>13, <1>14, <1>15, OneMoves

LEMMA RepliedStep ==
  ASSUME IntakeInv, RateInv', NEW c \in Conns, Replied(c)
  PROVE  IntakeInv'
<1>1. /\ stage[c] = "handed" /\ up /\ all_rates # NONE /\ InvConn(c) /\ InvFunctions
      /\ Taken(c)
  BY DEF Replied, IntakeInv, Taken
<1>2. /\ stage' = [stage EXCEPT ![c] = "replied"] /\ up' = up /\ stream' = stream
      /\ taken' = taken /\ bufs' = bufs /\ rate_at' = rate_at
      /\ all_rates' = all_rates /\ UNCHANGED manifest_vars
  BY DEF Replied, manifest_vars
<1>3. /\ taken'[c] = taken[c] /\ bufs'[c] = bufs[c] /\ stage'[c] = "replied"
      /\ rate_at'[c] = rate_at[c] /\ stream'[c] = stream[c] /\ StreamText(c)' = StreamText(c)
  BY <1>1, <1>2, StreamKept DEF InvFunctions
<1>4. Offered' = Offered /\ (Ascending' <=> Ascending)
  BY <1>2, RatesKept
<1>5. InvConn(c)'
  <2>1. /\ stream[c]' \in Streams[c] /\ taken[c]' \in 0 .. Len(StreamText(c)')
        /\ stage[c]' = "replied" /\ rate_at[c]' \in Nat /\ BufOK(bufs[c]') /\ CountOK(bufs[c]')
    BY <1>1, <1>3 DEF InvConn
  <2>2. /\ taken[c]' >= Len(Text(stream[c]'[1]))
        /\ InOrder(stream[c]', bufs[c]') /\ AsAsked(stream[c]', bufs[c]')
        /\ Best(stream[c]', bufs[c]', rate_at[c]', Offered')
        /\ Ascending' => BestOf(stream[c]', bufs[c]', rate_at[c]', Offered')
    BY <1>1, <1>3, <1>4 DEF InvConn
  <2> QED
    BY <2>1, <2>2 DEF InvConn
<1>6. InvFunctions'
  BY <1>1, <1>2 DEF InvFunctions
<1>7. InvUp'
  BY <1>2, UpKept DEF IntakeInv
<1>8. \A d \in Conns : d # c => /\ taken'[d] = taken[d] /\ stage'[d] = stage[d]
                               /\ bufs'[d] = bufs[d] /\ rate_at'[d] = rate_at[d]
  BY <1>1, <1>2, OthersAre
<1> QED
  BY <1>1, <1>2, <1>5, <1>6, <1>7, <1>8, OneMoves

LEMMA IntakeStep ==
  ASSUME RateAssumption, IntakeAssumption, StreamsAssumption, IntakeInv, [Next]_vars
  PROVE  IntakeInv'
<1>1. RateInv'
  BY RateInvStep DEF IntakeInv
<1>2. CASE Start
  BY <1>1, <1>2, StartStep
<1>3. CASE StartFails
  BY <1>1, <1>3, StartFailsStep
<1>4. ASSUME NEW c \in Conns, NEW n \in 1 .. BUF_SIZE, RecvPart(c, n) PROVE IntakeInv'
  BY <1>1, <1>4, PartStep
<1>5. ASSUME NEW c \in Conns, NEW n \in 1 .. BUF_SIZE, RecvRequest(c, n) PROVE IntakeInv'
  BY <1>1, <1>5, RequestStep
<1>6. ASSUME NEW c \in Conns, NEW n \in 1 .. BUF_SIZE, RecvDies(c, n) PROVE IntakeInv'
  BY <1>1, <1>6, DiesStep
<1>7. ASSUME NEW c \in Conns, RecvFull(c) PROVE IntakeInv'
  BY <1>1, <1>7, FullStep
<1>8. ASSUME NEW c \in Conns, RecvNothing(c) PROVE IntakeInv'
  BY <1>1, <1>8, NothingStep
<1>9. ASSUME NEW c \in Conns, Replied(c) PROVE IntakeInv'
  BY <1>1, <1>9, RepliedStep
<1>10. CASE UNCHANGED vars
  <2>1. /\ up' = up /\ stream' = stream /\ taken' = taken /\ stage' = stage /\ bufs' = bufs
        /\ rate_at' = rate_at /\ all_rates' = all_rates /\ manifest' = manifest
    BY <1>10 DEF vars, rate_vars, manifest_vars
  <2>2. \A c \in Conns : InvConn(c)' /\ (Taken(c)' <=> Taken(c))
    BY <2>1, ConnKept DEF IntakeInv
  <2>3. InvUp' /\ InvFunctions'
    BY <2>1, UpKept DEF IntakeInv, InvFunctions
  <2> QED
    BY <1>1, <2>1, <2>2, <2>3 DEF IntakeInv
<1> QED
  BY <1>2, <1>3, <1>4, <1>5, <1>6, <1>7, <1>8, <1>9, <1>10 DEF Next

\* What the bytes received so far make of every connection's struct buf, from
\* recv_request to the request prepare_request leaves, holds at any time.
THEOREM IntakeInvariance == Spec => []IntakeInv
<1>1. Init => IntakeInv
  BY IntakeInit, RateAssumption, IntakeAssumption, StreamsAssumption
<1>2. IntakeInv /\ [Next]_vars => IntakeInv'
  BY IntakeStep, RateAssumption, IntakeAssumption, StreamsAssumption
<1> QED
  BY <1>1, <1>2, PTL DEF Spec

(***************************************************************************)
(* The log.                                                                *)
(***************************************************************************)

\* The mean logging makes of a throughput and the average before it.
Mean(t, v) == (AlphaNum * t + (AlphaDen - AlphaNum) * v) \div AlphaDen

\* The average is what the lines of the log make of it, and not 0 once there is
\* one: logging does not take a later throughput for the first.
InvAverage ==
  /\ \A i \in 1 .. Len(log) : log[i].tput \in Nat \ {0}
  /\ avg_tput = IF log = <<>> THEN 0 ELSE log[Len(log)].avg_tput
  /\ log # <<>> => avg_tput # 0
  /\ \A i \in 1 .. Len(log) :
       log[i].avg_tput = IF i = 1 THEN log[i].tput ELSE Mean(log[i].tput, log[i - 1].avg_tput)

\* The clients with a line are those whose chunk has been replied to.
HasLine(c) == stage[c] = "replied" /\ bufs[c].chunk_name # NONE
InvLines(c) ==
  /\ \A i, j \in LinesOf(c) : i = j
  /\ LinesOf(c) # {} <=> HasLine(c)

CountInv == InvAverage /\ \A c \in Conns : InvLines(c)

LEMMA CountInit == ASSUME Init PROVE CountInv
<1>1. /\ log = <<>> /\ avg_tput = 0 /\ Len(log) = 0 /\ DOMAIN log = {}
      /\ stage = [c \in Conns |-> "reading"]
  BY DEF Init, RateInit
<1>2. InvAverage
  BY <1>1 DEF InvAverage
<1>3. ASSUME NEW c \in Conns PROVE InvLines(c)
  BY <1>1 DEF InvLines, LinesOf, HasLine
<1> QED
  BY <1>2, <1>3 DEF CountInv

\* A step that leaves the log and who has been replied to alone.
LEMMA CountKept ==
  ASSUME CountInv, UNCHANGED <<log, avg_tput>>,
         \A c \in Conns : HasLine(c)' <=> HasLine(c)
  PROVE  CountInv'
  BY DEF CountInv, InvAverage, InvLines, LinesOf, Mean

\* A chunk's line goes behind the others, with the average made of the last.
LEMMA AverageGrows ==
  ASSUME RateAssumption, IntakeAssumption, RateInv, RateInv', InvAverage,
         NEW e, NEW tput \in Tputs, log' = Append(log, e), e.tput = tput,
         e.avg_tput = Average(tput), avg_tput' = Average(tput)
  PROVE  InvAverage'
<1>1. tput \in Nat \ {0}
  BY DEF IntakeAssumption
<1>2. /\ Len(log) \in Nat /\ Len(log') = Len(log) + 1
      /\ log'[Len(log) + 1] = e
      /\ \A i \in 1 .. Len(log) : log'[i] = log[i]
      /\ log' # <<>>
  <2>1. PICK S : log \in Seq(S)
    BY DEF RateInv, InvLog
  <2>2. /\ Len(log) \in Nat /\ Len(log') = Len(log) + 1
        /\ log'[Len(log) + 1] = e
        /\ \A i \in 1 .. Len(log) : log'[i] = log[i]
    BY <2>1, AppendKeeps
  <2>3. Append(log, e) # <<>>
    BY <2>1
  <2> QED
    BY <2>2, <2>3
<1>3. /\ Len(log') \in 1 .. Len(log')
      /\ \A i \in 1 .. Len(log') : i \in 1 .. Len(log) \/ i = Len(log')
      /\ \A i \in 1 .. Len(log) : i # 1 => i - 1 \in 1 .. Len(log)
      /\ Len(log) # 0 => Len(log) \in 1 .. Len(log) /\ Len(log') # 1 /\ Len(log') - 1 = Len(log)
      /\ Len(log) = 0 => Len(log') = 1
  BY <1>2
<1>4. \A i \in 1 .. Len(log') : log'[i].tput \in Nat \ {0}
  BY <1>1, <1>2, <1>3 DEF InvAverage
<1>5. avg_tput' # 0
  <2>1. PICK i \in 1 .. Len(log') : log'[i].tput <= avg_tput'
    BY <1>2 DEF RateInv, AverageWithinMeasured
  <2>2. avg_tput' \in Nat
    BY DEF RateInv
  <2>3. log'[i].tput \in Nat \ {0}
    BY <1>4
  <2> QED
    BY <2>1, <2>2, <2>3
<1>6. avg_tput' = log'[Len(log')].avg_tput
  BY <1>2
<1>7. ASSUME NEW i \in 1 .. Len(log')
      PROVE  log'[i].avg_tput =
               IF i = 1 THEN log'[i].tput ELSE Mean(log'[i].tput, log'[i - 1].avg_tput)
  <2>1. CASE i \in 1 .. Len(log)
    <3>1. log'[i] = log[i]
      BY <1>2, <2>1
    <3>2. i # 1 => log'[i - 1] = log[i - 1]
      BY <1>2, <1>3, <2>1
    <3> QED
      BY <2>1, <3>1, <3>2 DEF InvAverage
  <2>2. CASE i = Len(log') /\ Len(log) = 0
    <3>1. log = <<>>
      <4>1. PICK S : log \in Seq(S)
        BY DEF RateInv, InvLog
      <4> QED
        BY <2>2, <4>1
    <3>2. avg_tput = 0 /\ i = 1
      BY <1>3, <2>2, <3>1 DEF InvAverage
    <3>3. log'[i] = e /\ Average(tput) = tput
      BY <1>2, <2>2, <3>2 DEF Average
    <3> QED
      BY <3>2, <3>3
  <2>3. CASE i = Len(log') /\ Len(log) # 0
    <3>1. log # <<>>
      BY <2>3
    <3>2. avg_tput # 0 /\ avg_tput = log[Len(log)].avg_tput
      BY <3>1 DEF InvAverage
    <3>3. log'[i] = e /\ i # 1 /\ log'[i - 1] = log[Len(log)]
      BY <1>2, <1>3, <2>3
    <3>4. Average(tput) = Mean(tput, avg_tput)
      BY <3>2 DEF Average, Mean
    <3> QED
      BY <3>2, <3>3, <3>4
  <2> QED
    BY <1>3, <2>1, <2>2, <2>3
<1>8. \A t, v : Mean(t, v)' = Mean(t, v)
  BY DEF Mean
<1> QED
  BY <1>2, <1>4, <1>5, <1>6, <1>7 DEF InvAverage, Mean

\* It is the first line of its client and changes no other client's.
LEMMA LinesGrow ==
  ASSUME RateInv, NEW c \in Conns, \A d \in Conns : InvLines(d), ~HasLine(c),
         NEW e, log' = Append(log, e), e.client_ip = c,
         HasLine(c)', \A d \in Conns : d # c => (HasLine(d)' <=> HasLine(d))
  PROVE  \A d \in Conns : InvLines(d)'
<1>1. /\ DOMAIN log = 1 .. Len(log) /\ DOMAIN log' = 1 .. Len(log) + 1 /\ Len(log) \in Nat
      /\ log'[Len(log) + 1] = e
      /\ \A i \in 1 .. Len(log) : log'[i] = log[i]
  <2>1. PICK S : log \in Seq(S)
    BY DEF RateInv, InvLog
  <2>2. /\ log' \in Seq(S \cup {e}) /\ Len(log) \in Nat /\ Len(log') = Len(log) + 1
        /\ log'[Len(log) + 1] = e
        /\ \A i \in 1 .. Len(log) : log'[i] = log[i]
    BY <2>1, AppendKeeps
  <2>3. DOMAIN log = 1 .. Len(log)
    BY <2>1
  <2>4. DOMAIN log' = 1 .. Len(log')
    BY <2>2
  <2> QED
    BY <2>2, <2>3, <2>4
<1>2. LinesOf(c) = {}
  BY DEF InvLines
<1>3. LinesOf(c)' = {Len(log) + 1}
  BY <1>1, <1>2 DEF LinesOf
<1>4. ASSUME NEW d \in Conns, d # c PROVE LinesOf(d)' = LinesOf(d)
  BY <1>1, <1>4 DEF LinesOf
<1>5. InvLines(c)'
  BY <1>3 DEF InvLines
<1>6. ASSUME NEW d \in Conns, d # c PROVE InvLines(d)'
  BY <1>4, <1>6 DEF InvLines
<1> QED
  BY <1>5, <1>6

LEMMA CountReplied ==
  ASSUME RateAssumption, IntakeAssumption, IntakeInv, IntakeInv', CountInv,
         NEW c \in Conns, Replied(c)
  PROVE  CountInv'
<1>1. PICK tput \in Tputs : Logging(c, tput)
  BY DEF Replied
<1>2. /\ stage' = [stage EXCEPT ![c] = "replied"] /\ bufs' = bufs
      /\ stage[c] = "handed" /\ DOMAIN stage = Conns
  BY DEF Replied, IntakeInv, InvFunctions
<1>3. /\ ~HasLine(c) /\ (HasLine(c)' <=> bufs[c].chunk_name # NONE)
      /\ \A d \in Conns : d # c => (HasLine(d)' <=> HasLine(d))
  BY <1>2 DEF HasLine
<1>4. CASE bufs[c].chunk_name = NONE
  <2>1. UNCHANGED <<log, avg_tput>>
    BY <1>1, <1>4 DEF Logging
  <2> QED
    BY <1>3, <1>4, <2>1, CountKept
<1>5. CASE bufs[c].chunk_name # NONE
  <2> DEFINE e == LogLine(c, tput)
  <2>1. /\ avg_tput' = Average(tput) /\ log' = Append(log, e)
        /\ e.tput = tput /\ e.avg_tput = Average(tput) /\ e.client_ip = c
    BY <1>1, <1>5 DEF Logging, LogLine
  <2> HIDE DEF e
  <2>2. RateInv /\ RateInv' /\ InvAverage /\ \A d \in Conns : InvLines(d)
    BY DEF IntakeInv, CountInv
  <2>3. InvAverage'
    BY <2>1, <2>2, AverageGrows
  <2>4. \A d \in Conns : InvLines(d)'
    BY <1>3, <1>5, <2>1, <2>2, LinesGrow
  <2> QED
    BY <2>3, <2>4 DEF CountInv
<1> QED
  BY <1>4, <1>5

LEMMA CountStep ==
  ASSUME RateAssumption, IntakeAssumption, IntakeInv, IntakeInv', CountInv, [Next]_vars
  PROVE  CountInv'
<1>1. ASSUME UNCHANGED <<log, avg_tput, stage, bufs>> PROVE CountInv'
  BY <1>1, CountKept DEF HasLine
<1>2. CASE Start \/ StartFails \/ UNCHANGED vars
  BY <1>1, <1>2
  DEF Start, RecvManifest, GotManifest, StartFails, vars, rate_vars
<1>3. ASSUME NEW c \in Conns,
             \/ \E n \in 1 .. BUF_SIZE : RecvPart(c, n) \/ RecvRequest(c, n) \/ RecvDies(c, n)
             \/ RecvFull(c) \/ RecvNothing(c)
      PROVE  CountInv'
  <2>1. UNCHANGED <<log, avg_tput>>
    BY <1>3 DEF RecvPart, RecvRequest, RecvDies, RecvFull, RecvNothing, rate_vars
  <2>2. stage[c] = "reading"
    BY <1>3 DEF RecvPart, RecvRequest, RecvDies, RecvFull, RecvNothing, Segment, Reading
  <2>3. \/ UNCHANGED stage
        \/ \E x \in {"handed", "refused", "dropped"} : stage' = [stage EXCEPT ![c] = x]
    BY <1>3 DEF RecvPart, RecvRequest, RecvDies, RecvFull, RecvNothing
  <2>4. \/ UNCHANGED bufs
        \/ \E y : bufs' = [bufs EXCEPT ![c] = y]
    BY <1>3 DEF RecvPart, RecvRequest, RecvDies, RecvFull, RecvNothing
  <2>5. DOMAIN stage = Conns /\ DOMAIN bufs = Conns
    BY DEF IntakeInv, InvFunctions
  <2>6. stage'[c] # "replied"
    BY <2>2, <2>3, <2>5
  <2>7. \A d \in Conns : d # c => stage'[d] = stage[d] /\ bufs'[d] = bufs[d]
    BY <2>3, <2>4, <2>5
  <2>8. \A d \in Conns : HasLine(d)' <=> HasLine(d)
    BY <2>2, <2>6, <2>7 DEF HasLine
  <2> QED
    BY <2>1, <2>8, CountKept
<1> QED
  BY <1>2, <1>3, CountReplied DEF Next

(***************************************************************************)
(* What follows from it.                                                   *)
(***************************************************************************)

\* Every struct buf stays of its kind: rbuf (what recv_request receives into)
\* never holds more than BUF_SIZE, the pointers into it stay in order, the queue
\* names only requests that were parsed; and the globals are of theirs.
THEOREM IntakeTypeCorrect == Spec => []TypeOK
<1>1. ASSUME IntakeInv PROVE TypeOK
  <2>1. RateInv /\ up \in BOOLEAN /\ manifest \in Manifests \cup {<<>>}
    BY <1>1 DEF IntakeInv, InvUp
  <2>2. /\ received \in 0 .. 2 * Len(manifest) /\ avg_tput \in Nat
        /\ all_rates \in [Slots -> Nat] \cup {NONE}
    BY <2>1 DEF RateInv, InvRates
  <2>3. \A c \in Conns :
          /\ stream[c] \in Streams[c] /\ taken[c] \in 0 .. Len(StreamText(c))
          /\ stage[c] \in {"reading", "handed", "refused", "dropped", "replied"}
          /\ rate_at[c] \in Nat /\ BufOK(bufs[c])
    BY <1>1 DEF IntakeInv, InvConn
  <2> QED
    BY <2>1, <2>2, <2>3 DEF TypeOK
<1> QED
  BY <1>1, IntakeInvariance, PTL

\* While a request is being received, rbuf holds all that recv_request has got of
\* the connection, in order, for any cut into segments.
THEOREM SegmentsJoined == Spec => []PartsJoined
<1>1. ASSUME IntakeInv PROVE PartsJoined
  <2> SUFFICES ASSUME up, NEW c \in Conns, stage[c] = "reading"
               PROVE  bufs[c].rbuf = SubSeq(StreamText(c), 1, taken[c])
    BY DEF PartsJoined
  <2>1. PartOf(stream[c], StreamText(c), taken[c], bufs[c])
    BY <1>1 DEF IntakeInv, InvConn
  <2> QED
    BY <2>1 DEF PartOf, Collected, Holds
<1> QED
  BY <1>1, IntakeInvariance, PTL

\* rbuf_req_count is the number of CRLFCRLFs between rbuf_head and parse_p
\* whatever was received, counted and parsed before: the second loop of
\* parse_request never runs past the last one.
THEOREM CountsKeepStep == Spec => []CountInStep
<1>1. ASSUME IntakeInv PROVE CountInStep
  BY <1>1 DEF IntakeInv, InvConn, CountOK, CountInStep
<1> QED
  BY <1>1, IntakeInvariance, PTL

\* recv_BROW returns 1 with the segment that completes the first request, the body of a
\* POST included, and not before.
THEOREM HandedOnTime == Spec => []HandedWhenWhole
<1>1. ASSUME IntakeInv PROVE HandedWhenWhole
  <2> SUFFICES ASSUME NEW c \in Conns
               PROVE  /\ stage[c] = "reading" /\ up => taken[c] < RequestEnd(c)
                      /\ Taken(c) => taken[c] >= RequestEnd(c)
    BY DEF HandedWhenWhole
  <2>1. RequestEnd(c) = Len(Text(stream[c][1]))
    BY DEF RequestEnd, Asked
  <2>2. InvConn(c)
    BY <1>1 DEF IntakeInv
  <2> QED
    BY <2>1, <2>2 DEF InvConn, PartOf
<1> QED
  BY <1>1, IntakeInvariance, PTL

\* parse_request queues the requests of a segment in the order they were sent
\* in, and dequeue_request takes the first.
THEOREM QueueKeepsOrder == Spec => []QueuedInOrder
<1>1. ASSUME IntakeInv PROVE QueuedInOrder
  BY <1>1 DEF IntakeInv, InvConn, InOrder, QueuedInOrder
<1> QED
  BY <1>1, IntakeInvariance, PTL

\* recv_request sends MSG503 back only for a request longer than rbuf.
THEOREM RefusedForLength == Spec => []RefusedOnlyTooLong
<1>1. ASSUME IntakeInv PROVE RefusedOnlyTooLong
  BY <1>1 DEF IntakeInv, InvConn, RefusedOnlyTooLong, RequestEnd, Asked
<1> QED
  BY <1>1, IntakeInvariance, PTL

\* return_nolist, change_rate and switch_to_close, each of which writes a text
\* of its own, leave a request with the rewritings of all three.
THEOREM SentAsRewritten == Spec => []SentIsAsked
<1>1. ASSUME IntakeInv PROVE SentIsAsked
  <2> SUFFICES ASSUME NEW c \in Conns, Taken(c), Single(c), Asked(c).body = <<>>
               PROVE  Sent(c) = Rewritten(c)
    BY DEF SentIsAsked
  <2>1. AsAsked(stream[c], bufs[c])
    BY <1>1 DEF IntakeInv, InvConn
  <2>2. Sent(c) = SentText(stream[c][1], bufs[c].bitrate)
    BY <2>1 DEF AsAsked, Single, Asked, Sent
  <2>3. Rewritten(c) = SentText(stream[c][1], bufs[c].bitrate)
    BY DEF Rewritten, SentText, SentToken, Asked
  <2> QED
    BY <2>2, <2>3
<1> QED
  BY <1>1, IntakeInvariance, PTL

\* The chunk and the bitrate logging writes down are those of the request that
\* was sent, though log_chunkname and change_rate read different copies of it.
THEOREM LoggedAsSent == Spec => []LoggedIsSent
<1>1. ASSUME IntakeInv PROVE LoggedIsSent
  BY <1>1 DEF IntakeInv, InvConn, AsAsked, LoggedIsSent, Single, Asked, Sent
<1> QED
  BY <1>1, IntakeInvariance, PTL

\* Each client's chunk moves the average that all share once, a page or manifest
\* never: the average is what the log's lines make of it, and these are one for
\* each client whose chunk's reply is through.
THEOREM EachChunkCounts == Spec => []ChunksCountOnce
<1>1. Init => CountInv
  BY CountInit
<1>2. IntakeInv /\ IntakeInv' /\ CountInv /\ [Next]_vars => CountInv'
  BY CountStep, RateAssumption, IntakeAssumption
<1>3. ASSUME IntakeInv, CountInv PROVE ChunksCountOnce
  <2>1. DOMAIN log = 1 .. Len(log)
    BY <1>3 DEF IntakeInv, RateInv, InvLog
  <2>2. InvAverage /\ \A c \in Conns : InvLines(c) /\ InvConn(c)
    BY <1>3 DEF IntakeInv, CountInv
  <2>3. ASSUME NEW c \in Conns, Single(c), Asked(c).body = <<>>, stage[c] = "replied"
        PROVE  bufs[c].chunk_name # NONE <=> Asked(c).file = "chunk"
    <3>1. AsAsked(stream[c], bufs[c]) /\ stream[c][1] \in Request
      BY <2>2, <2>3, StreamOf, StreamsAssumption DEF InvConn, Taken
    <3>2. /\ Asked(c).file = "chunk" => bufs[c].chunk_name = Rewritten(c)[1]
          /\ Asked(c).file # "chunk" => bufs[c].chunk_name = NONE
      <4>1. Rewritten(c) = SentText(stream[c][1], bufs[c].bitrate)
        BY DEF Rewritten, SentText, SentToken, Asked
      <4> QED
        BY <2>3, <3>1, <4>1 DEF AsAsked, Single, Asked
    <3>3. Asked(c).file = "chunk" => Rewritten(c)[1] \in Token
      <4> DEFINE r == Asked(c)
      <4>1. r \in Request /\ r = stream[c][1]
        BY <3>1 DEF Asked
      <4>2. 1 \in DOMAIN Text(r) /\ Text(r)[1] = Line(r)
        BY <4>1, TextIs
      <4>3. r.rate \in Nat /\ r.method \in {"GET", "POST"} /\ bufs[c].bitrate \in Nat
        BY <2>2, <4>1 DEF Request, InvConn, BufOK
      <4>4. r.file = "chunk" =>
              Rewritten(c)[1] = [Line(r) EXCEPT !.rate = bufs[c].bitrate]
        BY <4>2 DEF Rewritten, Line
      <4> QED
        BY <4>3, <4>4 DEF Line, Token
    <3> QED
      BY <3>2, <3>3, StreamsAssumption DEF StreamsAssumption
  <2> QED
    BY <2>1, <2>2, <2>3 DEF ChunksCountOnce, InvAverage, InvLines, HasLine, Mean
<1> QED
  BY <1>1, <1>2, <1>3, IntakeInvariance, PTL DEF Spec

\* Neither an assertion of log_chunkname or change_rate nor a copy that is too
\* long ends the process, unless a browser asks for a page with "Seg" in its name or
\* sends a second request behind the first.
THEOREM Survives == Spec => []DiesOnlyOfOddText
<1>1. IntakeInv => DiesOnlyOfOddText
  BY DEF IntakeInv, InvUp
<1> QED
  BY <1>1, IntakeInvariance, PTL

\* The bitrate change_rate puts into a request is the browser's own before the
\* first measurement and then the best one on offer for the average.
THEOREM RateChosenIsBest == Spec => []RateIsBestOffer
<1>1. ASSUME IntakeInv PROVE RateIsBestOffer
  <2> SUFFICES ASSUME NEW c \in Conns, Taken(c), Single(c), Asked(c).file = "chunk",
                      Offered # {}
               PROVE  IF rate_at[c] = 0
                      THEN bufs[c].bitrate = Asked(c).rate
                      ELSE LET within == {r \in Offered : 3 * r <= 2 * rate_at[c]}
                           IN  /\ bufs[c].bitrate \in Offered
                               /\ Ascending => bufs[c].bitrate =
                                    IF within = {} THEN Min(Offered) ELSE Max(within)
    BY DEF RateIsBestOffer
  <2>1. /\ Best(stream[c], bufs[c], rate_at[c], Offered)
        /\ Ascending => BestOf(stream[c], bufs[c], rate_at[c], Offered)
    BY <1>1 DEF IntakeInv, InvConn
  <2>2. Len(stream[c]) = 1 /\ stream[c][1].file = "chunk" /\ Asked(c) = stream[c][1]
    BY DEF Single, Asked
  <2>3. IF rate_at[c] = 0 THEN bufs[c].bitrate = Asked(c).rate
                          ELSE bufs[c].bitrate \in Offered
    BY <2>1, <2>2 DEF Best
  <2>4. ASSUME rate_at[c] # 0, Ascending
        PROVE  LET within == {r \in Offered : 3 * r <= 2 * rate_at[c]}
               IN  bufs[c].bitrate = IF within = {} THEN Min(Offered) ELSE Max(within)
    BY <2>1, <2>2, <2>4 DEF BestOf
  <2> QED
    BY <2>3, <2>4
<1> QED
  BY <1>1, IntakeInvariance, PTL
=============================================================================
