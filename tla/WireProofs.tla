----------------------------- MODULE WireProofs -----------------------------
(***************************************************************************)
(* Proofs about the messages of src/dns_lib.c: whatever names, addresses   *)
(* and numbers of queries there are, what is written is what is read.      *)
(***************************************************************************)
EXTENDS DnsWire, RecursionLemmas, SequenceTheorems, TLAPS

\* The length of a label that make_question takes.
Fitting == 1 .. 63

\* A name that make_question takes and that its reader finds again.
Proper(name) ==
  /\ name \in Seq(Char)
  /\ \A p1 \in LabelStarts(name) : LabelEnd(name, p1) - p1 \in Fitting

\* What is written of it, octet by octet: its characters, one place further, and
\* lengths in front and for the dots.
Coded(name) ==
  [k \in 1 .. Len(name) + 1 |->
     IF k \in LabelStarts(name) THEN LabelEnd(name, k) - k ELSE name[k - 1]]

(***************************************************************************)
(* Characters, octets and numbers.                                         *)
(***************************************************************************)

LEMMA CharIs == \A x : x \in Char <=> x \in Int /\ 1 <= x /\ x <= 127
<1> DEFINE lo == 1
           hi == 127
<1>1. lo \in Int /\ hi \in Int
  OBVIOUS
<1>2. Char = lo .. hi
  BY DEF Char
<1> HIDE DEF lo, hi
<1>3. \A x : x \in Char <=> x \in Int /\ lo <= x /\ x <= hi
  BY <1>1, <1>2
<1> QED
  BY <1>3 DEF lo, hi

LEMMA OctetIs == \A x : x \in Octet <=> x \in Int /\ 0 <= x /\ x <= 255
<1> DEFINE lo == 0
           hi == 255
<1>1. lo \in Int /\ hi \in Int
  OBVIOUS
<1>2. Octet = lo .. hi
  BY DEF Octet
<1> HIDE DEF lo, hi
<1>3. \A x : x \in Octet <=> x \in Int /\ lo <= x /\ x <= hi
  BY <1>1, <1>2
<1> QED
  BY <1>3 DEF lo, hi

LEMMA WordIs == \A x : x \in Word <=> x \in Int /\ 0 <= x /\ x <= 65535
<1> DEFINE lo == 0
           hi == 65535
<1>1. lo \in Int /\ hi \in Int
  OBVIOUS
<1>2. Word = lo .. hi
  BY DEF Word
<1> HIDE DEF lo, hi
<1>3. \A x : x \in Word <=> x \in Int /\ lo <= x /\ x <= hi
  BY <1>1, <1>2
<1> QED
  BY <1>3 DEF lo, hi

LEMMA FittingIs == \A x : x \in Fitting <=> x \in Int /\ 1 <= x /\ x <= 63
<1> DEFINE lo == 1
           hi == 63
<1>1. lo \in Int /\ hi \in Int
  OBVIOUS
<1>2. Fitting = lo .. hi
  BY DEF Fitting
<1> HIDE DEF lo, hi
<1>3. \A x : x \in Fitting <=> x \in Int /\ lo <= x /\ x <= hi
  BY <1>1, <1>2
<1> QED
  BY <1>3 DEF lo, hi

(***************************************************************************)
(* Sequences.                                                              *)
(***************************************************************************)

\* Two sequences, one after the other.
LEMMA Joined ==
  ASSUME NEW T, NEW a \in Seq(T), NEW b \in Seq(T)
  PROVE  /\ a \o b \in Seq(T) /\ Len(a \o b) = Len(a) + Len(b)
         /\ Len(a) \in Nat /\ Len(b) \in Nat
         /\ \A k \in 1 .. Len(a) : (a \o b)[k] = a[k]
         /\ \A k \in 1 .. Len(b) : (a \o b)[Len(a) + k] = b[k]
  OBVIOUS

\* A piece of a sequence.
LEMMA Piece ==
  ASSUME NEW T, NEW s \in Seq(T), NEW i \in Nat \ {0}, NEW j \in Nat,
         j <= Len(s), i <= j + 1
  PROVE  /\ SubSeq(s, i, j) \in Seq(T) /\ Len(SubSeq(s, i, j)) = (j + 1) - i
         /\ \A k \in 1 .. (j + 1) - i : SubSeq(s, i, j)[k] = s[(i + k) - 1]
<1>1. \A k \in i .. j : s[k] \in T
  OBVIOUS
<1>2. /\ SubSeq(s, i, j) \in Seq(T)
      /\ Len(SubSeq(s, i, j)) = IF i <= j THEN j - i + 1 ELSE 0
      /\ \A k \in 1 .. j - i + 1 : SubSeq(s, i, j)[k] = s[i + k - 1]
  BY <1>1, SubSeqProperties
<1>3. (IF i <= j THEN j - i + 1 ELSE 0) = (j + 1) - i /\ j - i + 1 = (j + 1) - i
  OBVIOUS
<1> QED
  BY <1>2, <1>3

\* A function on the first numbers is a sequence.
LEMMA FunctionSeq ==
  ASSUME NEW T, NEW n \in Nat, NEW f \in [1 .. n -> T]
  PROVE  f \in Seq(T) /\ Len(f) = n
  OBVIOUS

\* Sequences of the same length and elements are the same.
LEMMA SameSeq ==
  ASSUME NEW T, NEW s \in Seq(T), NEW t \in Seq(T), Len(s) = Len(t),
         \A k \in 1 .. Len(s) : s[k] = t[k]
  PROVE  s = t
  BY SeqEqual

(***************************************************************************)
(* Where labels begin and end.                                             *)
(***************************************************************************)

\* A label ends at the next dot, or behind the name.
LEMMA LabelEndIs ==
  ASSUME NEW name \in Seq(Char), NEW p1 \in 1 .. Len(name) + 1
  PROVE  /\ LabelEnd(name, p1) \in p1 .. Len(name) + 1
         /\ LabelEnd(name, p1) = Len(name) + 1 \/ name[LabelEnd(name, p1)] = DOT
         /\ \A k \in p1 .. LabelEnd(name, p1) - 1 : name[k] # DOT
<1> DEFINE n == Len(name)
           T == {p2 \in p1 .. n + 1 : p2 = n + 1 \/ name[p2] = DOT}
           Ends(p2) == /\ p2 = n + 1 \/ name[p2] = DOT
                       /\ \A k \in p1 .. p2 - 1 : name[k] # DOT
<1>1. n \in Nat /\ T \subseteq Nat /\ n + 1 \in T
  OBVIOUS
<1>2. PICK p2 \in T : \A k \in T : p2 <= k
  <2> HIDE DEF T, n
  <2> QED
    BY <1>1, LeastOne
<1>3. \A k \in p1 .. p2 - 1 : name[k] # DOT
  <2> SUFFICES ASSUME NEW k \in p1 .. p2 - 1, name[k] = DOT PROVE FALSE
    OBVIOUS
  <2>1. p2 \in p1 .. n + 1 /\ k \in p1 .. n + 1 /\ k < p2
    BY <1>1, <1>2
  <2>2. k \in T
    BY <2>1
  <2> HIDE DEF T
  <2> QED
    BY <1>1, <1>2, <2>1, <2>2
<1>4. p2 \in p1 .. n + 1 /\ Ends(p2)
  BY <1>2, <1>3
<1>5. LabelEnd(name, p1) = CHOOSE x \in p1 .. n + 1 : Ends(x)
  BY DEF LabelEnd
<1> HIDE DEF Ends
<1>6. LabelEnd(name, p1) \in p1 .. n + 1 /\ Ends(LabelEnd(name, p1))
  BY <1>4, <1>5
<1> QED
  BY <1>6 DEF Ends

\* The labels of a proper name: none has a dot in it, and the next begins behind
\* the dot that ends this one.
LEMMA LabelIs ==
  ASSUME NEW name, Proper(name), NEW p1 \in LabelStarts(name)
  PROVE  /\ Len(name) \in Nat \ {0} /\ p1 \in 1 .. Len(name)
         /\ LabelEnd(name, p1) \in p1 + 1 .. Len(name) + 1
         /\ Len8(name, p1) = LabelEnd(name, p1) - p1
         /\ \A k \in p1 + 1 .. LabelEnd(name, p1) : k \notin LabelStarts(name)
         /\ LabelEnd(name, p1) <= Len(name) =>
              /\ LabelEnd(name, p1) + 1 \in LabelStarts(name)
              /\ LabelEnd(name, p1) < Len(name)
<1> DEFINE n == Len(name)
           p2 == LabelEnd(name, p1)
<1>1. /\ name \in Seq(Char) /\ n \in Nat /\ DOMAIN name = 1 .. n
      /\ \A p \in LabelStarts(name) : LabelEnd(name, p) - p \in Fitting
  BY DEF Proper
<1>2. \A p \in LabelStarts(name) : p \in 1 .. n + 1
  BY <1>1 DEF LabelStarts
<1>3. /\ p2 \in p1 .. n + 1
      /\ p2 = n + 1 \/ name[p2] = DOT
      /\ \A k \in p1 .. p2 - 1 : name[k] # DOT
  BY <1>1, <1>2, LabelEndIs
<1>4. p1 \in Nat /\ p2 \in Nat /\ p2 - p1 \in Fitting
  BY <1>1, <1>2, <1>3
<1>5. p1 \in 1 .. n /\ p2 \in p1 + 1 .. n + 1 /\ n # 0
  <2>1. p1 \in 1 .. n + 1 /\ p2 \in p1 .. n + 1
    BY <1>2, <1>3
  <2> HIDE DEF n, p2
  <2> QED
    BY <1>1, <1>4, <2>1, FittingIs
<1>6. Len8(name, p1) = p2 - p1
  <2> DEFINE l == p2 - p1
  <2>1. l \in Fitting
    BY <1>4
  <2> HIDE DEF l
  <2>2. l % 256 = l
    BY <2>1, FittingIs
  <2> QED
    BY <2>2 DEF l, Len8
<1> HIDE DEF p2, n
<1>7. ASSUME NEW k \in p1 + 1 .. p2 PROVE k \notin LabelStarts(name)
  <2> SUFFICES ASSUME k \in LabelStarts(name) PROVE FALSE
    OBVIOUS
  <2>1. k \in Nat /\ k - 1 \in p1 .. p2 - 1 /\ k # 1
    BY <1>4, <1>5
  <2>2. PICK j \in DOMAIN name : name[j] = DOT /\ k = j + 1
    BY <2>1 DEF LabelStarts
  <2>3. j = k - 1
    BY <1>1, <2>1, <2>2
  <2> QED
    BY <1>3, <2>1, <2>2, <2>3
<1>8. ASSUME p2 <= n PROVE p2 + 1 \in LabelStarts(name) /\ p2 < n
  <2>1. name[p2] = DOT /\ p2 \in 1 .. n
    BY <1>1, <1>3, <1>4, <1>5, <1>8
  <2>2. p2 + 1 \in LabelStarts(name)
    BY <1>1, <2>1 DEF LabelStarts
  <2>3. LabelEnd(name, p2 + 1) - (p2 + 1) \in Fitting
    BY <1>1, <2>2
  <2>4. p2 + 1 \in 1 .. n + 1 /\ LabelEnd(name, p2 + 1) \in p2 + 1 .. n + 1
    BY <1>1, <1>2, <2>2, LabelEndIs DEF n
  <2> DEFINE e == LabelEnd(name, p2 + 1)
  <2> HIDE DEF e
  <2>5. e - (p2 + 1) \in Fitting /\ e \in p2 + 1 .. n + 1
    BY <2>3, <2>4 DEF e
  <2>6. p2 < n
    BY <1>1, <1>4, <2>5, FittingIs
  <2> QED
    BY <2>2, <2>6
<1> QED
  BY <1>1, <1>5, <1>6, <1>7, <1>8 DEF n, p2

(***************************************************************************)
(* Names, written.                                                         *)
(***************************************************************************)

\* The recursive definition of Labels defines a function: the label ends at p1
\* or behind it, so that what follows is computed for a later place.
LEMMA LabelsEquation ==
  ASSUME NEW name \in Seq(Char), NEW p1 \in 1 .. Len(name) + 1
  PROVE  Labels(name)[p1] =
           <<Len8(name, p1)>> \o SubSeq(name, p1, p1 + Len8(name, p1) - 1)
             \o IF LabelEnd(name, p1) <= Len(name)
                THEN Labels(name)[LabelEnd(name, p1) + 1] ELSE <<>>
<1> DEFINE n == Len(name)
           S == 1 .. n + 1
           R == {name[j] : j \in Int} \cup Octet
           V == Seq(R)
           m == [p \in S |-> (n + 1) - p]
           end(p) == LabelEnd(name, p)
           first(p) == <<Len8(name, p)>> \o SubSeq(name, p, p + Len8(name, p) - 1)
           G == [p \in S |-> [h \in [S -> V] |->
                   first(p) \o IF end(p) <= n THEN h[end(p) + 1] ELSE <<>>]]
<1>1. n \in Nat /\ m \in [S -> Nat]
  OBVIOUS
<1>2. \A p \in S : end(p) \in p .. n + 1
  BY LabelEndIs
<1>3. \A p \in S : first(p) \in V
  <2> SUFFICES ASSUME NEW p \in S PROVE first(p) \in V
    OBVIOUS
  <2>1. Len8(name, p) \in Octet
    <3> DEFINE l == end(p) - p
    <3>1. l \in Nat
      BY <1>1, <1>2
    <3> HIDE DEF l
    <3>2. l % 256 \in Octet
      BY <3>1, OctetIs
    <3> QED
      BY <3>2 DEF l, Len8
  <2> DEFINE q == p + Len8(name, p) - 1
             s == SubSeq(name, p, q)
             f == <<Len8(name, p)>>
  <2>2. p \in Int /\ q \in Int
    <3>1. Len8(name, p) \in Int
      <4>1. \A x \in Octet : x \in Int
        BY OctetIs
      <4> QED
        BY <2>1, <4>1
    <3>2. p \in Int
      <4> HIDE DEF n
      <4> QED
        BY <1>1
    <3> QED
      BY <3>1, <3>2
  <2> HIDE DEF q
  <2>3. \A k \in p .. q : name[k] \in R
    OBVIOUS
  <2>4. s \in V
    <3> HIDE DEF R
    <3> QED
      BY <2>2, <2>3, SubSeqProperties
  <2>5. Len8(name, p) \in R
    BY <2>1
  <2>6. f \in V
    <3> HIDE DEF R
    <3> QED
      BY <2>5
  <2> HIDE DEF f, s, R
  <2>7. f \o s \in V
    BY <2>4, <2>6
  <2> QED
    BY <2>7 DEF f, s, q
<1>4. <<>> \in V
  <2> HIDE DEF R
  <2> QED
    OBVIOUS
<1>5. \A v, w \in V : v \o w \in V
  <2> HIDE DEF R
  <2> QED
    OBVIOUS
<1>6. \A p \in S : end(p) <= n => end(p) + 1 \in S /\ m[end(p) + 1] < m[p]
  <2> SUFFICES ASSUME NEW p \in S, end(p) <= n PROVE end(p) + 1 \in S /\ m[end(p) + 1] < m[p]
    OBVIOUS
  <2>1. end(p) \in p .. n + 1
    BY <1>2
  <2> HIDE DEF end, n
  <2>2. end(p) + 1 \in S /\ (n + 1) - (end(p) + 1) < (n + 1) - p
    BY <1>1, <2>1
  <2> QED
    BY <2>2
<1> HIDE DEF V, R, m, end, first
<1>7. \A p \in S : \A h \in [S -> V] :
        G[p][h] = first(p) \o IF end(p) <= n THEN h[end(p) + 1] ELSE <<>>
  OBVIOUS
<1> HIDE DEF G, S, n
<1>8. \A p \in S : \A h \in [S -> V] : G[p][h] \in V
  <2> SUFFICES ASSUME NEW p \in S, NEW h \in [S -> V] PROVE G[p][h] \in V
    OBVIOUS
  <2>1. (IF end(p) <= n THEN h[end(p) + 1] ELSE <<>>) \in V
    BY <1>4, <1>6
  <2> QED
    BY <1>3, <1>5, <1>7, <2>1
<1>9. \A p \in S : \A g, h \in [S -> V] :
        (\A j \in S : m[j] < m[p] => g[j] = h[j]) => G[p][g] = G[p][h]
  <2>1. TAKE p \in S
  <2>2. TAKE g, h \in [S -> V]
  <2>3. HAVE \A j \in S : m[j] < m[p] => g[j] = h[j]
  <2>4. end(p) <= n => g[end(p) + 1] = h[end(p) + 1]
    BY <1>6, <2>3
  <2> QED
    BY <1>7, <2>4
<1>10. PICK f \in [S -> V] : \A p \in S : f[p] = G[p][f]
  <2>1. Recursive(S, m, V, G)
    BY <1>1, <1>4, <1>8, <1>9 DEF Recursive
  <2> QED
    BY <2>1, RecursionExists
<1>11. f = [p \in S |-> first(p) \o IF end(p) <= n THEN f[end(p) + 1] ELSE <<>>]
  BY <1>7, <1>10
<1> DEFINE H == Labels(name)
<1>12. H = [p \in S |-> first(p) \o IF end(p) <= n THEN H[end(p) + 1] ELSE <<>>]
  BY <1>11 DEF Labels, S, first, end, n
<1> HIDE DEF H
<1>13. p1 \in S
  BY DEF S, n
<1>14. H[p1] = first(p1) \o IF end(p1) <= n THEN H[end(p1) + 1] ELSE <<>>
  BY <1>12, <1>13
<1> QED
  BY <1>14 DEF H, first, end, n

\* What is written of a name are octets, and none of them is zero.
LEMMA CodedType ==
  ASSUME NEW name, Proper(name)
  PROVE  /\ Coded(name) \in Seq(Octet) /\ Len(Coded(name)) = Len(name) + 1
         /\ Len(name) \in Nat \ {0}
         /\ \A k \in 1 .. Len(name) + 1 : Coded(name)[k] \in Char
         /\ \A k \in LabelStarts(name) : Coded(name)[k] = LabelEnd(name, k) - k
         /\ \A k \in (1 .. Len(name) + 1) \ LabelStarts(name) : Coded(name)[k] = name[k - 1]
<1> DEFINE n == Len(name)
           C == Coded(name)
<1>1. name \in Seq(Char) /\ n \in Nat /\ \A k \in 1 .. n : name[k] \in Char
  <2>1. name \in Seq(Char)
    BY DEF Proper
  <2>2. n \in Nat
    BY <2>1
  <2>3. \A k \in 1 .. n : name[k] \in Char
    BY <2>1, ElementOfSeq
  <2> QED
    BY <2>1, <2>2, <2>3
<1>2. 1 \in LabelStarts(name) /\ n # 0
  <2>1. 1 \in LabelStarts(name)
    BY DEF LabelStarts
  <2> QED
    BY <2>1, LabelIs
<1>3. C = [k \in 1 .. n + 1 |->
             IF k \in LabelStarts(name) THEN LabelEnd(name, k) - k ELSE name[k - 1]]
  BY DEF Coded
<1> HIDE DEF n, C
<1>4. \A k \in LabelStarts(name) : k \in 1 .. n + 1 /\ C[k] = LabelEnd(name, k) - k
  <2> SUFFICES ASSUME NEW k \in LabelStarts(name)
               PROVE  k \in 1 .. n + 1 /\ C[k] = LabelEnd(name, k) - k
    OBVIOUS
  <2>1. k \in 1 .. n
    BY LabelIs DEF n
  <2>2. k \in 1 .. n + 1
    BY <1>1, <2>1
  <2> QED
    BY <1>3, <2>2
<1>5. \A k \in (1 .. n + 1) \ LabelStarts(name) : C[k] = name[k - 1]
  BY <1>3
<1>6. ASSUME NEW k \in 1 .. n + 1 PROVE C[k] \in Char
  <2>1. CASE k \in LabelStarts(name)
    <3>1. C[k] = LabelEnd(name, k) - k
      BY <1>4, <2>1
    <3>2. LabelEnd(name, k) - k \in Fitting
      BY <2>1 DEF Proper
    <3>3. \A x \in Fitting : x \in Char
      BY CharIs, FittingIs
    <3> QED
      BY <3>1, <3>2, <3>3
  <2>2. CASE k \notin LabelStarts(name)
    <3>1. k - 1 \in 1 .. n
      BY <1>1, <1>2, <2>2
    <3> QED
      BY <1>1, <1>5, <2>2, <3>1
  <2> QED
    BY <2>1, <2>2
<1>7. C \in Seq(Octet) /\ Len(C) = n + 1
  <2>1. \A x \in Char : x \in Octet
    BY OctetIs, CharIs
  <2>2. C \in [1 .. n + 1 -> Octet] /\ n + 1 \in Nat
    <3>1. \A k \in 1 .. n + 1 : C[k] \in Octet
      BY <1>6, <2>1
    <3>2. C = [k \in 1 .. n + 1 |-> C[k]]
      BY <1>3
    <3> QED
      BY <1>1, <3>1, <3>2
  <2> QED
    BY <2>2
<1> QED
  BY <1>1, <1>2, <1>4, <1>5, <1>6, <1>7 DEF n, C

\* The loop of make_question writes each label where it belongs, whatever is
\* written behind it.
LEMMA LabelsAre ==
  ASSUME NEW name, Proper(name)
  PROVE  Labels(name)[1] = Coded(name)
<1> DEFINE n == Len(name)
           C == Coded(name)
           S == 1 .. n + 1
           m == [p \in S |-> (n + 1) - p]
           F == Labels(name)
           Written(p) == /\ F[p] \in Seq(Octet) /\ Len(F[p]) = (n + 2) - p
                         /\ \A j \in 1 .. (n + 2) - p : F[p][j] = C[(p + j) - 1]
           P == {p \in S : p \in LabelStarts(name) => Written(p)}
<1>1. /\ name \in Seq(Char) /\ n \in Nat \ {0}
      /\ C \in Seq(Octet) /\ Len(C) = n + 1
      /\ \A k \in LabelStarts(name) : C[k] = LabelEnd(name, k) - k
      /\ \A k \in (1 .. n + 1) \ LabelStarts(name) : C[k] = name[k - 1]
  BY CodedType DEF Proper
<1>2. m \in [S -> Nat]
  OBVIOUS
<1>3. ASSUME NEW p \in S, \A y \in S : m[y] < m[p] => y \in P, p \in LabelStarts(name)
      PROVE  Written(p)
  <2> DEFINE p2 == LabelEnd(name, p)
             l  == p2 - p
             a  == <<l>>
             b  == SubSeq(name, p, p2 - 1)
             c  == IF p2 <= n THEN F[p2 + 1] ELSE <<>>
  <2>1. /\ p \in 1 .. n /\ p2 \in p + 1 .. n + 1 /\ Len8(name, p) = l
        /\ \A k \in p + 1 .. p2 : k \notin LabelStarts(name)
        /\ p2 <= n => p2 + 1 \in LabelStarts(name) /\ p2 < n
    BY <1>3, LabelIs
  <2>2. l \in Nat /\ p \in Nat /\ p2 \in Nat /\ p + l - 1 = p2 - 1 /\ l \in Octet
    <3>1. l \in Fitting
      BY <1>3 DEF Proper
    <3> HIDE DEF p2
    <3> HIDE DEF n
    <3> QED
      BY <2>1, <3>1, <1>1, OctetIs, FittingIs
  <2>3. F[p] = a \o b \o c
    <3>1. F[p] = <<Len8(name, p)>> \o SubSeq(name, p, p + Len8(name, p) - 1) \o c
      BY <1>1, LabelsEquation
    <3> HIDE DEF c, F
    <3> QED
      BY <2>1, <2>2, <3>1
  <2> HIDE DEF F
  <2>4. a \in Seq(Octet) /\ Len(a) = 1 /\ a[1] = l
    <3> HIDE DEF l
    <3> QED
      BY <2>2
  <2>5. /\ b \in Seq(Octet) /\ Len(b) = l
        /\ \A k \in 1 .. l : b[k] = name[(p + k) - 1]
    <3>1. name \in Seq(Octet)
      <4>1. Char \subseteq Octet
        BY OctetIs, CharIs
      <4> QED
        BY <1>1, <4>1, SeqMonotonic
    <3>2. /\ p \in Nat \ {0} /\ p2 - 1 \in Nat /\ p2 - 1 <= Len(name) /\ p <= (p2 - 1) + 1
          /\ ((p2 - 1) + 1) - p = l
      <4> HIDE DEF p2
      <4> QED
        BY <1>1, <2>1
    <3> HIDE DEF p2, l
    <3> QED
      BY <3>1, <3>2, Piece DEF b
  <2>6. /\ c \in Seq(Octet) /\ Len(c) = (n + 1) - p2
        /\ \A k \in 1 .. (n + 1) - p2 : c[k] = C[p2 + k]
    <3>1. CASE p2 <= n
      <4>1. p2 + 1 \in S /\ (n + 1) - (p2 + 1) < (n + 1) - p
        <5> HIDE DEF p2, n
        <5> QED
          BY <1>1, <2>1, <3>1
      <4>2. p2 + 1 \in P
        <5> HIDE DEF P, p2
        <5> QED
          BY <1>3, <4>1
      <4>3. Written(p2 + 1)
        <5> HIDE DEF Written, p2
        <5> QED
          BY <2>1, <3>1, <4>2
      <4>4. /\ c = F[p2 + 1] /\ (n + 2) - (p2 + 1) = (n + 1) - p2
            /\ \A k \in Nat : ((p2 + 1) + k) - 1 = p2 + k
        <5> HIDE DEF p2, n
        <5> QED
          BY <1>1, <2>2, <3>1
      <4> HIDE DEF p2, n, c, C
      <4> QED
        BY <4>3, <4>4
    <3>2. CASE ~(p2 <= n)
      <4>1. p2 = n + 1 /\ (n + 1) - p2 = 0
        <5> HIDE DEF p2, n
        <5> QED
          BY <1>1, <2>1, <3>2
      <4> HIDE DEF p2, n
      <4> QED
        BY <3>2, <4>1
    <3> QED
      BY <3>1, <3>2
  <2> HIDE DEF a, b, c, C, n, p2
  <2>7. /\ a \o b \in Seq(Octet) /\ Len(a \o b) = 1 + l
        /\ (a \o b)[1] = l
        /\ \A k \in 1 .. l : (a \o b)[1 + k] = name[(p + k) - 1]
    <3> HIDE DEF l
    <3>1. /\ a \o b \in Seq(Octet) /\ Len(a \o b) = Len(a) + Len(b)
          /\ \A k \in 1 .. Len(a) : (a \o b)[k] = a[k]
          /\ \A k \in 1 .. Len(b) : (a \o b)[Len(a) + k] = b[k]
      <4>1. a \in Seq(Octet) /\ b \in Seq(Octet)
        BY <2>4, <2>5
      <4> QED
        BY <4>1, Joined
    <3> QED
      BY <2>4, <2>5, <3>1
  <2> DEFINE ab == a \o b
  <2> HIDE DEF ab
  <2>8. /\ ab \o c \in Seq(Octet) /\ Len(ab \o c) = (1 + l) + ((n + 1) - p2)
        /\ \A k \in 1 .. 1 + l : (ab \o c)[k] = ab[k]
        /\ \A k \in 1 .. (n + 1) - p2 : (ab \o c)[(1 + l) + k] = C[p2 + k]
    <3>1. ab \in Seq(Octet) /\ Len(ab) = 1 + l
      BY <2>7 DEF ab
    <3> HIDE DEF l
    <3>2. /\ ab \o c \in Seq(Octet) /\ Len(ab \o c) = Len(ab) + Len(c)
          /\ \A k \in 1 .. Len(ab) : (ab \o c)[k] = ab[k]
          /\ \A k \in 1 .. Len(c) : (ab \o c)[Len(ab) + k] = c[k]
      <4>1. ab \in Seq(Octet) /\ c \in Seq(Octet)
        BY <2>6, <3>1
      <4> QED
        BY <4>1, Joined
    <3> QED
      BY <2>6, <3>1, <3>2
  <2>9. F[p] = ab \o c
    BY <2>3 DEF ab
  <2>10. (1 + l) + ((n + 1) - p2) = (n + 2) - p
    BY <1>1, <2>1, <2>2
  <2>11. ASSUME NEW j \in 1 .. (n + 2) - p PROVE F[p][j] = C[(p + j) - 1]
    <3>1. j \in Nat /\ j >= 1 /\ j <= (n + 2) - p
      BY <1>1, <2>2
    <3>2. CASE j = 1
      <4>1. F[p][j] = l /\ (p + j) - 1 = p
        BY <2>2, <2>7, <2>8, <2>9, <3>2 DEF ab
      <4>2. C[p] = l
        BY <1>1, <1>3 DEF p2
      <4> QED
        BY <4>1, <4>2
    <3>3. CASE j \in 2 .. 1 + l
      <4> DEFINE k == j - 1
      <4>1. k \in 1 .. l /\ 1 + k = j /\ j \in 1 .. 1 + l
        BY <2>2, <3>3
      <4>2. (ab \o c)[j] = ab[j] /\ ab[1 + k] = name[(p + k) - 1]
        <5> HIDE DEF k
        <5> QED
          BY <2>7, <2>8, <4>1 DEF ab
      <4> DEFINE i == p + k
      <4>3. i \in p + 1 .. p2 /\ i \in 1 .. n + 1 /\ (p + j) - 1 = i
        BY <1>1, <2>1, <2>2, <4>1
      <4> HIDE DEF i
      <4>4. C[i] = name[i - 1]
        BY <1>1, <2>1, <4>3
      <4> HIDE DEF k
      <4> QED
        BY <2>9, <4>1, <4>2, <4>3, <4>4 DEF i
    <3>4. CASE j > 1 + l
      <4> DEFINE k == j - (1 + l)
      <4>1. k \in 1 .. (n + 1) - p2 /\ (1 + l) + k = j /\ p2 + k = (p + j) - 1
        BY <1>1, <2>1, <2>2, <2>10, <3>1, <3>4
      <4> HIDE DEF k, l
      <4>2. (ab \o c)[j] = C[p2 + k]
        BY <2>8, <4>1
      <4> QED
        BY <2>9, <4>1, <4>2
    <3> QED
      BY <2>2, <3>1, <3>2, <3>3, <3>4
  <2> QED
    BY <2>8, <2>9, <2>10, <2>11
<1>4. S \subseteq P
  <2>1. \A x \in S : (\A y \in S : m[y] < m[x] => y \in P) => x \in P
    <3> HIDE DEF m, Written, S
    <3> QED
      BY <1>3
  <2> HIDE DEF P, m, S
  <2> QED
    BY <1>2, <2>1, MeasureInduction, ZenonT(60)
<1>5. Written(1)
  <2>1. 1 \in LabelStarts(name) /\ 1 \in S
    BY <1>1 DEF LabelStarts
  <2> HIDE DEF Written, S
  <2> QED
    BY <1>4, <2>1
<1>6. (n + 2) - 1 = n + 1 /\ \A j \in 1 .. n + 1 : (1 + j) - 1 = j
  <2> HIDE DEF n
  <2> QED
    BY <1>1
<1> HIDE DEF F, C, n
<1>7. /\ F[1] \in Seq(Octet) /\ Len(F[1]) = Len(C)
      /\ \A j \in 1 .. Len(F[1]) : F[1][j] = C[j]
  BY <1>1, <1>5, <1>6
<1>8. F[1] = C
  BY <1>1, <1>7, SameSeq
<1> QED
  BY <1>8 DEF F, C

(***************************************************************************)
(* Names, recovered.                                                       *)
(***************************************************************************)

\* The recursive definition of Dotted defines a function: each length takes the
\* loop further.
LEMMA DottedEquation ==
  ASSUME NEW Q \in Seq(Char), NEW q0 \in 0 .. Len(Q) - 1
  PROVE  Dotted(Q)[q0] =
           <<DOT>> \o SubSeq(Q, q0 + 2, q0 + 1 + Q[q0 + 1])
             \o IF q0 + 1 + Q[q0 + 1] < Len(Q) - 1
                THEN Dotted(Q)[q0 + 1 + Q[q0 + 1]] ELSE <<>>
<1> DEFINE n == Len(Q)
           S == 0 .. n - 1
           R == {Q[j] : j \in Int} \cup {DOT}
           V == Seq(R)
           m == [q \in S |-> n - q]
           next(q) == q + 1 + Q[q + 1]
           first(q) == <<DOT>> \o SubSeq(Q, q + 2, next(q))
           G == [q \in S |-> [h \in [S -> V] |->
                   first(q) \o IF next(q) < n - 1 THEN h[next(q)] ELSE <<>>]]
<1>1. n \in Nat
  OBVIOUS
<1>2. m \in [S -> Nat]
  <2> HIDE DEF n
  <2> QED
    BY <1>1
<1>3. \A q \in S : Q[q + 1] \in Char /\ next(q) \in Nat /\ next(q) > q
  <2> SUFFICES ASSUME NEW q \in S PROVE Q[q + 1] \in Char /\ next(q) \in Nat /\ next(q) > q
    OBVIOUS
  <2>1. q \in Nat /\ q + 1 \in 1 .. n
    <3> HIDE DEF n
    <3> QED
      BY <1>1
  <2>2. Q[q + 1] \in Char
    BY <2>1, ElementOfSeq
  <2> DEFINE x == Q[q + 1]
  <2> HIDE DEF x
  <2>3. x \in Char
    BY <2>2 DEF x
  <2>4. q + 1 + x \in Nat /\ q + 1 + x > q
    BY <2>1, <2>3, CharIs
  <2> QED
    BY <2>3, <2>4 DEF x
<1>4. \A q \in S : first(q) \in V
  <2> SUFFICES ASSUME NEW q \in S PROVE first(q) \in V
    OBVIOUS
  <2> DEFINE e == next(q)
             s == SubSeq(Q, q + 2, e)
             f == <<DOT>>
  <2>1. q + 2 \in Int /\ e \in Int
    <3>1. q \in Nat /\ e \in Nat
      <4>1. q \in Nat
        <5> HIDE DEF n
        <5> QED
          BY <1>1
      <4>2. e \in Nat
        BY <1>3
      <4> QED
        BY <4>1, <4>2
    <3> HIDE DEF e
    <3> QED
      BY <3>1
  <2> HIDE DEF e
  <2>2. \A k \in q + 2 .. e : Q[k] \in R
    OBVIOUS
  <2>3. DOT \in R
    OBVIOUS
  <2> HIDE DEF R
  <2>4. s \in V
    BY <2>1, <2>2, SubSeqProperties
  <2>5. f \in V
    BY <2>3
  <2> HIDE DEF f, s
  <2>6. f \o s \in V
    BY <2>4, <2>5
  <2> QED
    BY <2>6 DEF f, s, e
<1>5. <<>> \in V
  <2> HIDE DEF R
  <2> QED
    OBVIOUS
<1>6. \A v, w \in V : v \o w \in V
  <2> HIDE DEF R
  <2> QED
    OBVIOUS
<1>7. \A q \in S : next(q) < n - 1 => next(q) \in S /\ m[next(q)] < m[q]
  <2> SUFFICES ASSUME NEW q \in S, next(q) < n - 1 PROVE next(q) \in S /\ m[next(q)] < m[q]
    OBVIOUS
  <2>1. next(q) \in Nat /\ next(q) > q
    BY <1>3
  <2> HIDE DEF next, n
  <2>2. next(q) \in S /\ n - next(q) < n - q
    BY <1>1, <2>1
  <2> QED
    BY <2>2
<1> HIDE DEF V, R, m, next, first
<1>8. \A q \in S : \A h \in [S -> V] :
        G[q][h] = first(q) \o IF next(q) < n - 1 THEN h[next(q)] ELSE <<>>
  OBVIOUS
<1> HIDE DEF G, S, n
<1>9. \A q \in S : \A h \in [S -> V] : G[q][h] \in V
  <2> SUFFICES ASSUME NEW q \in S, NEW h \in [S -> V] PROVE G[q][h] \in V
    OBVIOUS
  <2>1. (IF next(q) < n - 1 THEN h[next(q)] ELSE <<>>) \in V
    BY <1>5, <1>7
  <2> QED
    BY <1>4, <1>6, <1>8, <2>1
<1>10. \A q \in S : \A g, h \in [S -> V] :
        (\A j \in S : m[j] < m[q] => g[j] = h[j]) => G[q][g] = G[q][h]
  <2>1. TAKE q \in S
  <2>2. TAKE g, h \in [S -> V]
  <2>3. HAVE \A j \in S : m[j] < m[q] => g[j] = h[j]
  <2>4. next(q) < n - 1 => g[next(q)] = h[next(q)]
    BY <1>7, <2>3
  <2> QED
    BY <1>8, <2>4
<1>11. PICK f \in [S -> V] : \A q \in S : f[q] = G[q][f]
  <2>1. Recursive(S, m, V, G)
    BY <1>2, <1>5, <1>9, <1>10 DEF Recursive
  <2> QED
    BY <2>1, RecursionExists
<1>12. f = [q \in S |-> first(q) \o IF next(q) < n - 1 THEN f[next(q)] ELSE <<>>]
  BY <1>8, <1>11
<1> DEFINE H == Dotted(Q)
<1>13. H = [q \in S |-> first(q) \o IF next(q) < n - 1 THEN H[next(q)] ELSE <<>>]
  BY <1>12 DEF Dotted, S, first, next, n
<1> HIDE DEF H
<1>14. q0 \in S
  BY DEF S, n
<1>15. H[q0] = first(q0) \o IF next(q0) < n - 1 THEN H[next(q0)] ELSE <<>>
  BY <1>13, <1>14
<1> QED
  BY <1>15 DEF H, first, next, n

\* The loop of recover_node puts each label back, and dots between them.
LEMMA DottedAre ==
  ASSUME NEW name, Proper(name)
  PROVE  /\ Dotted(Coded(name))[0] \in Seq(Char)
         /\ Len(Dotted(Coded(name))[0]) = Len(name) + 1
         /\ \A j \in 2 .. Len(name) + 1 : Dotted(Coded(name))[0][j] = name[j - 1]
<1> DEFINE n == Len(name)
           C == Coded(name)
           S == 0 .. n
           m == [q \in S |-> n - q]
           F == Dotted(C)
           Back(q) == /\ F[q] \in Seq(Char) /\ Len(F[q]) = (n + 1) - q
                      /\ F[q][1] = DOT
                      /\ \A j \in 2 .. (n + 1) - q : F[q][j] = name[(q + j) - 1]
           P == {q \in S : q + 1 \in LabelStarts(name) => Back(q)}
<1>1. /\ name \in Seq(Char) /\ n \in Nat \ {0}
      /\ C \in Seq(Octet) /\ Len(C) = n + 1
      /\ \A k \in 1 .. n + 1 : C[k] \in Char
      /\ \A k \in LabelStarts(name) : C[k] = LabelEnd(name, k) - k
      /\ \A k \in (1 .. n + 1) \ LabelStarts(name) : C[k] = name[k - 1]
  BY CodedType DEF Proper
<1>2. C \in Seq(Char)
  <2> HIDE DEF C, n
  <2>1. C \in [1 .. n + 1 -> Char] /\ n + 1 \in Nat
    BY <1>1
  <2> QED
    BY <2>1, FunctionSeq
<1>3. m \in [S -> Nat]
  <2> HIDE DEF n
  <2> QED
    BY <1>1
<1>4. ASSUME NEW q \in S, \A y \in S : m[y] < m[q] => y \in P, q + 1 \in LabelStarts(name)
      PROVE  Back(q)
  <2> DEFINE p  == q + 1
             p2 == LabelEnd(name, p)
             l  == p2 - p
             a  == <<DOT>>
             b  == SubSeq(C, q + 2, p2)
             c  == IF p2 < n THEN F[p2] ELSE <<>>
  <2>1. /\ p \in 1 .. n /\ p2 \in p + 1 .. n + 1
        /\ \A k \in p + 1 .. p2 : k \notin LabelStarts(name)
        /\ p2 <= n => p2 + 1 \in LabelStarts(name) /\ p2 < n
    BY <1>4, LabelIs
  <2>2. /\ p \in Nat /\ p2 \in Nat /\ q \in Nat /\ l \in Nat /\ q \in 0 .. n
        /\ q + 1 + l = p2 /\ p = q + 1
    <3>1. q \in Nat /\ q \in 0 .. n
      <4> HIDE DEF n
      <4> QED
        BY <1>1
    <3>2. p \in Nat
      BY <3>1
    <3>3. p2 \in Nat /\ l \in Nat
      <4> HIDE DEF p2, n
      <4> HIDE DEF p
      <4> QED
        BY <1>1, <2>1, <3>2
    <3> HIDE DEF p2
    <3> QED
      BY <3>1, <3>2, <3>3
  <2>3. C[q + 1] = l
    BY <1>1, <1>4
  <2>4. F[q] = a \o b \o c
    <3> HIDE DEF C
    <3>1. q \in 0 .. Len(C) - 1 /\ Len(C) - 1 = n
      <4> HIDE DEF n
      <4> QED
        BY <1>1, <2>2
    <3>2. F[q] = <<DOT>> \o SubSeq(C, q + 2, q + 1 + C[q + 1])
                   \o IF q + 1 + C[q + 1] < Len(C) - 1 THEN F[q + 1 + C[q + 1]] ELSE <<>>
      BY <1>2, <3>1, DottedEquation
    <3> HIDE DEF F, p2, n
    <3> QED
      BY <2>2, <2>3, <3>1, <3>2
  <2> HIDE DEF F
  <2>5. a \in Seq(Char) /\ Len(a) = 1 /\ a[1] = DOT
    <3>1. DOT \in Char
      BY CharIs DEF DOT
    <3> QED
      BY <3>1
  <2>6. /\ b \in Seq(Char) /\ Len(b) = l
        /\ \A k \in 1 .. l : b[k] = C[p + k]
    <3>1. /\ q + 2 \in Nat \ {0} /\ p2 <= Len(C) /\ q + 2 <= p2 + 1
          /\ (p2 + 1) - (q + 2) = l
      <4> HIDE DEF p2, n, C
      <4> QED
        BY <1>1, <2>1, <2>2
    <3>2. \A k \in Nat : ((q + 2) + k) - 1 = p + k
      BY <2>2
    <3> DEFINE i == q + 2
    <3>3. b = SubSeq(C, i, p2)
      OBVIOUS
    <3> HIDE DEF p2, l, C, p, b, i
    <3>4. /\ i \in Nat \ {0} /\ p2 \in Nat /\ p2 <= Len(C) /\ i <= p2 + 1
          /\ (p2 + 1) - i = l
      BY <2>2, <3>1 DEF i
    <3>5. /\ b \in Seq(Char) /\ Len(b) = (p2 + 1) - i
          /\ \A k \in 1 .. (p2 + 1) - i : b[k] = C[(i + k) - 1]
      BY <1>2, <3>3, <3>4, Piece
    <3>6. \A k \in 1 .. l : (i + k) - 1 = p + k
      BY <3>2 DEF i
    <3> QED
      BY <3>4, <3>5, <3>6
  <2>7. \A k \in 1 .. l : b[k] = name[(p + k) - 1]
    <3> SUFFICES ASSUME NEW k \in 1 .. l PROVE b[k] = name[(p + k) - 1]
      OBVIOUS
    <3> DEFINE i == p + k
    <3>1. i \in p + 1 .. p2 /\ i \in 1 .. n + 1
      <4> HIDE DEF p2, n
      <4> QED
        BY <1>1, <2>1, <2>2
    <3>2. b[k] = C[i]
      <4> HIDE DEF b, l
      <4> QED
        BY <2>6
    <3> HIDE DEF i, C, b, p2
    <3>3. C[i] = name[i - 1]
      BY <1>1, <2>1, <3>1
    <3> QED
      BY <3>2, <3>3 DEF i
  <2>8. /\ c \in Seq(Char) /\ Len(c) = (n + 1) - p2
        /\ \A k \in 1 .. (n + 1) - p2 : c[k] = name[(p2 + k) - 1]
    <3>1. CASE p2 < n
      <4>1. p2 \in S /\ n - p2 < n - q
        <5> HIDE DEF p2, n
        <5> QED
          BY <1>1, <2>1, <2>2, <3>1
      <4>2. p2 \in P
        <5> HIDE DEF P, p2
        <5> QED
          BY <1>4, <4>1
      <4>3. Back(p2)
        <5>1. p2 + 1 \in LabelStarts(name)
          <6> HIDE DEF p2, n
          <6> QED
            BY <1>1, <2>1, <2>2, <3>1
        <5> HIDE DEF Back, p2
        <5> QED
          BY <4>2, <5>1
      <4>4. name[p2] = DOT
        <5>1. p \in 1 .. n + 1 /\ p2 # n + 1
          <6> HIDE DEF p2, n
          <6> QED
            BY <1>1, <2>1, <2>2, <3>1
        <5> QED
          BY <1>1, <5>1, LabelEndIs
      <4>5. c = F[p2]
        BY <3>1
      <4> HIDE DEF p2, n, c, C
      <4>6. c \in Seq(Char) /\ Len(c) = (n + 1) - p2
        BY <4>3, <4>5
      <4>7. ASSUME NEW k \in 1 .. (n + 1) - p2 PROVE c[k] = name[(p2 + k) - 1]
        <5>1. CASE k = 1
          <6>1. (p2 + k) - 1 = p2
            BY <2>2, <5>1
          <6> QED
            BY <4>3, <4>4, <4>5, <5>1, <6>1
        <5>2. CASE k # 1
          <6>1. k \in 2 .. (n + 1) - p2
            BY <5>2
          <6> QED
            BY <4>3, <4>5, <6>1
        <5> QED
          BY <5>1, <5>2
      <4> QED
        BY <4>6, <4>7
    <3>2. CASE ~(p2 < n)
      <4>1. p2 = n + 1 /\ (n + 1) - p2 = 0
        <5> HIDE DEF p2, n
        <5> QED
          BY <1>1, <2>1, <2>2, <3>2
      <4> HIDE DEF p2, n
      <4> QED
        BY <3>2, <4>1
    <3> QED
      BY <3>1, <3>2
  <2> HIDE DEF a, b, c, C, n, p2
  <2> DEFINE ab == a \o b
  <2>9. /\ ab \in Seq(Char) /\ Len(ab) = 1 + l
        /\ ab[1] = DOT
        /\ \A k \in 1 .. l : ab[1 + k] = name[(p + k) - 1]
    <3> HIDE DEF l, p
    <3>1. /\ a \o b \in Seq(Char) /\ Len(a \o b) = Len(a) + Len(b)
          /\ \A k \in 1 .. Len(a) : (a \o b)[k] = a[k]
          /\ \A k \in 1 .. Len(b) : (a \o b)[Len(a) + k] = b[k]
      <4>1. a \in Seq(Char) /\ b \in Seq(Char)
        BY <2>5, <2>6
      <4> QED
        BY <4>1, Joined
    <3> QED
      BY <2>5, <2>6, <2>7, <3>1
  <2>10. F[q] = ab \o c
    BY <2>4
  <2> HIDE DEF ab
  <2>11. /\ ab \o c \in Seq(Char) /\ Len(ab \o c) = (1 + l) + ((n + 1) - p2)
         /\ \A k \in 1 .. 1 + l : (ab \o c)[k] = ab[k]
         /\ \A k \in 1 .. (n + 1) - p2 : (ab \o c)[(1 + l) + k] = name[(p2 + k) - 1]
    <3> HIDE DEF l
    <3>1. /\ ab \o c \in Seq(Char) /\ Len(ab \o c) = Len(ab) + Len(c)
          /\ \A k \in 1 .. Len(ab) : (ab \o c)[k] = ab[k]
          /\ \A k \in 1 .. Len(c) : (ab \o c)[Len(ab) + k] = c[k]
      <4>1. ab \in Seq(Char) /\ c \in Seq(Char)
        BY <2>8, <2>9
      <4> QED
        BY <4>1, Joined
    <3> QED
      BY <2>8, <2>9, <3>1
  <2>12. (1 + l) + ((n + 1) - p2) = (n + 1) - q
    BY <1>1, <2>1, <2>2
  <2>13. ASSUME NEW j \in 2 .. (n + 1) - q PROVE F[q][j] = name[(q + j) - 1]
    <3>1. CASE j <= 1 + l
      <4> DEFINE k == j - 1
      <4>1. k \in 1 .. l /\ 1 + k = j /\ j \in 1 .. 1 + l /\ (p + k) - 1 = (q + j) - 1
        BY <1>1, <2>2, <3>1
      <4> HIDE DEF k, p
      <4> QED
        BY <2>9, <2>10, <2>11, <4>1
    <3>2. CASE j > 1 + l
      <4> DEFINE k == j - (1 + l)
      <4>1. k \in 1 .. (n + 1) - p2 /\ (1 + l) + k = j /\ (p2 + k) - 1 = (q + j) - 1
        BY <1>1, <2>1, <2>2, <2>12, <3>2
      <4> HIDE DEF k, l
      <4> QED
        BY <2>10, <2>11, <4>1
    <3>3. j \in Nat /\ 1 + l \in Nat
      BY <2>2
    <3> HIDE DEF l
    <3> QED
      BY <3>1, <3>2, <3>3
  <2>14. F[q][1] = DOT
    <3>1. 1 \in 1 .. 1 + l
      BY <2>2
    <3> HIDE DEF l
    <3> QED
      BY <2>9, <2>10, <2>11, <3>1
  <2> QED
    BY <2>10, <2>11, <2>12, <2>13, <2>14
<1>5. S \subseteq P
  <2>1. \A x \in S : (\A y \in S : m[y] < m[x] => y \in P) => x \in P
    <3> HIDE DEF m, Back, S
    <3> QED
      BY <1>4
  <2> HIDE DEF P, m, S
  <2> QED
    BY <1>3, <2>1, MeasureInduction, ZenonT(60)
<1>6. Back(0)
  <2>1. 0 + 1 \in LabelStarts(name) /\ 0 \in S
    <3> HIDE DEF n
    <3> QED
      BY <1>1 DEF LabelStarts
  <2> HIDE DEF Back, S
  <2> QED
    BY <1>5, <2>1
<1>7. (n + 1) - 0 = n + 1 /\ \A j \in 2 .. n + 1 : (0 + j) - 1 = j - 1
  <2> HIDE DEF n
  <2> QED
    BY <1>1
<1> HIDE DEF F, C, n
<1>8. /\ F[0] \in Seq(Char) /\ Len(F[0]) = n + 1
      /\ \A j \in 2 .. n + 1 : F[0][j] = name[j - 1]
  BY <1>6, <1>7
<1> QED
  BY <1>8 DEF F, C, n

\* recover_node gives back the name that was written.
LEMMA RecoverIs ==
  ASSUME NEW name, Proper(name)
  PROVE  recover_node(Coded(name)) = name
<1> DEFINE n == Len(name)
           s == Dotted(Coded(name))[0]
           r == SubSeq(s, 2, n + 1)
<1>1. /\ name \in Seq(Char) /\ n \in Nat \ {0} /\ Len(Coded(name)) = n + 1
  BY CodedType DEF Proper
<1>2. /\ s \in Seq(Char) /\ Len(s) = n + 1
      /\ \A j \in 2 .. n + 1 : s[j] = name[j - 1]
  BY DottedAre
<1>3. recover_node(Coded(name)) = r
  BY <1>1 DEF recover_node
<1> HIDE DEF s, n
<1>4. r \in Seq(Char) /\ Len(r) = n /\ \A k \in 1 .. n : r[k] = s[(2 + k) - 1]
  <2>1. /\ 2 \in Nat \ {0} /\ n + 1 \in Nat /\ n + 1 <= Len(s) /\ 2 <= (n + 1) + 1
        /\ ((n + 1) + 1) - 2 = n
    BY <1>1, <1>2
  <2> DEFINE i == 2
             j == n + 1
  <2>2. r = SubSeq(s, i, j)
    OBVIOUS
  <2> HIDE DEF r
  <2>3. i \in Nat \ {0} /\ j \in Nat /\ j <= Len(s) /\ i <= j + 1
    BY <2>1
  <2> HIDE DEF i, j
  <2>4. /\ r \in Seq(Char) /\ Len(r) = (j + 1) - i
        /\ \A k \in 1 .. (j + 1) - i : r[k] = s[(i + k) - 1]
    BY <1>2, <2>2, <2>3, Piece
  <2> QED
    BY <2>1, <2>4 DEF i, j
<1> HIDE DEF r
<1>5. ASSUME NEW k \in 1 .. n PROVE r[k] = name[k]
  <2> DEFINE j == (2 + k) - 1
  <2>1. j \in 2 .. n + 1 /\ j - 1 = k
    BY <1>1
  <2> HIDE DEF j
  <2>2. s[j] = name[k]
    BY <1>2, <2>1
  <2> QED
    BY <1>4, <2>2 DEF j
<1>6. r = name
  BY <1>1, <1>4, <1>5, SameSeq DEF n
<1> QED
  BY <1>3, <1>6

(***************************************************************************)
(* Messages, written.                                                      *)
(***************************************************************************)

\* The number v is written at offset i, its high octet first.
OctetsAt(s, i, v) == i + 2 <= Len(s) /\ s[i + 1] = v \div 256 /\ s[i + 2] = v % 256

LEMMA OctetsAre ==
  ASSUME NEW v \in Word
  PROVE  /\ Octets(v) \in Seq(Octet) /\ Len(Octets(v)) = 2
         /\ OctetsAt(Octets(v), 0, v)
         /\ Value(v \div 256, v % 256) = v
<1> DEFINE h == v \div 256
           l == v % 256
<1>1. h \in Octet /\ l \in Octet /\ 256 * h + l = v
  BY WordIs, OctetIs
<1> HIDE DEF h, l
<1>2. <<h, l>> \in Seq(Octet) /\ Len(<<h, l>>) = 2 /\ <<h, l>>[1] = h /\ <<h, l>>[2] = l
  BY <1>1
<1> QED
  BY <1>1, <1>2 DEF h, l, Octets, OctetsAt, Value

\* What is written in either of two sequences is in the two of them, at its
\* offset or further by the length of the first.
LEMMA JoinedAt ==
  ASSUME NEW a \in Seq(Octet), NEW b \in Seq(Octet)
  PROVE  /\ a \o b \in Seq(Octet) /\ Len(a \o b) = Len(a) + Len(b)
         /\ \A i \in Nat : \A v : OctetsAt(a, i, v) => OctetsAt(a \o b, i, v)
         /\ \A i \in Nat : \A v : OctetsAt(b, i, v) => OctetsAt(a \o b, Len(a) + i, v)
<1> DEFINE ab == a \o b
<1>1. /\ ab \in Seq(Octet) /\ Len(ab) = Len(a) + Len(b)
      /\ Len(a) \in Nat /\ Len(b) \in Nat
      /\ \A k \in 1 .. Len(a) : ab[k] = a[k]
      /\ \A k \in 1 .. Len(b) : ab[Len(a) + k] = b[k]
  BY Joined
<1> HIDE DEF ab
<1>2. ASSUME NEW i \in Nat, NEW v, OctetsAt(a, i, v) PROVE OctetsAt(ab, i, v)
  <2>1. i + 1 \in 1 .. Len(a) /\ i + 2 \in 1 .. Len(a) /\ i + 2 <= Len(ab)
    BY <1>1, <1>2 DEF OctetsAt
  <2> QED
    BY <1>1, <1>2, <2>1 DEF OctetsAt
<1>3. ASSUME NEW i \in Nat, NEW v, OctetsAt(b, i, v) PROVE OctetsAt(ab, Len(a) + i, v)
  <2>1. /\ i + 1 \in 1 .. Len(b) /\ i + 2 \in 1 .. Len(b)
        /\ (Len(a) + i) + 2 <= Len(ab)
        /\ (Len(a) + i) + 1 = Len(a) + (i + 1) /\ (Len(a) + i) + 2 = Len(a) + (i + 2)
    BY <1>1, <1>3 DEF OctetsAt
  <2>2. ab[Len(a) + (i + 1)] = b[i + 1] /\ ab[Len(a) + (i + 2)] = b[i + 2]
    BY <1>1, <2>1
  <2> QED
    BY <1>3, <2>1, <2>2 DEF OctetsAt
<1> QED
  BY <1>1, <1>2, <1>3 DEF ab

\* One more number behind a sequence.
LEMMA OneMoreAt ==
  ASSUME NEW s \in Seq(Octet), NEW v \in Word
  PROVE  /\ s \o Octets(v) \in Seq(Octet) /\ Len(s \o Octets(v)) = Len(s) + 2
         /\ Len(s) \in Nat
         /\ \A i \in Nat : \A w : OctetsAt(s, i, w) => OctetsAt(s \o Octets(v), i, w)
         /\ OctetsAt(s \o Octets(v), Len(s), v)
         /\ \A k \in 1 .. Len(s) : (s \o Octets(v))[k] = s[k]
<1> DEFINE o == Octets(v)
<1>1. o \in Seq(Octet) /\ Len(o) = 2 /\ OctetsAt(o, 0, v)
  BY OctetsAre
<1> HIDE DEF o
<1>2. /\ s \o o \in Seq(Octet) /\ Len(s \o o) = Len(s) + Len(o)
      /\ \A i \in Nat : \A w : OctetsAt(s, i, w) => OctetsAt(s \o o, i, w)
      /\ \A i \in Nat : \A w : OctetsAt(o, i, w) => OctetsAt(s \o o, Len(s) + i, w)
  BY <1>1, JoinedAt
<1>3. Len(s) \in Nat /\ \A k \in 1 .. Len(s) : (s \o o)[k] = s[k]
  BY <1>1, Joined
<1>4. 0 \in Nat /\ Len(s) + 0 = Len(s)
  BY <1>3
<1>5. OctetsAt(s \o o, Len(s), v)
  BY <1>1, <1>2, <1>4
<1> QED
  BY <1>1, <1>2, <1>3, <1>5 DEF o

LEMMA SmallWords ==
  0 \in Word /\ 1 \in Word /\ 4 \in Word /\ QR + AA \in Word /\ C00C \in Word
  BY WordIs DEF QR, AA, C00C

LEMMA HeadIs ==
  ASSUME NEW id \in Word, NEW flags \in Word, NEW an \in Word
  PROVE  /\ make_head(id, flags, an) \in Seq(Octet) /\ Len(make_head(id, flags, an)) = 12
         /\ OctetsAt(make_head(id, flags, an), 0, id)
         /\ OctetsAt(make_head(id, flags, an), 2, flags)
         /\ OctetsAt(make_head(id, flags, an), 6, an)
<1> DEFINE s1 == Octets(id)
           s2 == s1 \o Octets(flags)
           s3 == s2 \o Octets(1)
           s4 == s3 \o Octets(an)
           s5 == s4 \o Octets(0)
           s6 == s5 \o Octets(0)
<1>1. s1 \in Seq(Octet) /\ Len(s1) = 2 /\ OctetsAt(s1, 0, id)
  BY OctetsAre
<1>7. make_head(id, flags, an) = s6
  BY DEF make_head
<1> HIDE DEF s1
<1>2. /\ s2 \in Seq(Octet) /\ Len(s2) = 4
      /\ OctetsAt(s2, 0, id)
      /\ OctetsAt(s2, 2, flags)
  <2>0. s1 \in Seq(Octet) /\ flags \in Word
    BY <1>1, SmallWords
  <2>1. /\ s2 \in Seq(Octet) /\ Len(s2) = Len(s1) + 2
        /\ OctetsAt(s2, Len(s1), flags)
        /\ \A i \in Nat : \A w : OctetsAt(s1, i, w) => OctetsAt(s2, i, w)
    BY <2>0, OneMoreAt
  <2> HIDE DEF s2
  <2> QED
    BY <1>1, <2>1
<1> HIDE DEF s2
<1>3. /\ s3 \in Seq(Octet) /\ Len(s3) = 6
      /\ OctetsAt(s3, 0, id)
      /\ OctetsAt(s3, 2, flags)
  <2>0. s2 \in Seq(Octet) /\ 1 \in Word
    BY <1>2, SmallWords
  <2>1. /\ s3 \in Seq(Octet) /\ Len(s3) = Len(s2) + 2
        /\ OctetsAt(s3, Len(s2), 1)
        /\ \A i \in Nat : \A w : OctetsAt(s2, i, w) => OctetsAt(s3, i, w)
    BY <2>0, OneMoreAt
  <2> HIDE DEF s3
  <2> QED
    BY <1>2, <2>1
<1> HIDE DEF s3
<1>4. /\ s4 \in Seq(Octet) /\ Len(s4) = 8
      /\ OctetsAt(s4, 0, id)
      /\ OctetsAt(s4, 2, flags)
      /\ OctetsAt(s4, 6, an)
  <2>0. s3 \in Seq(Octet) /\ an \in Word
    BY <1>3, SmallWords
  <2>1. /\ s4 \in Seq(Octet) /\ Len(s4) = Len(s3) + 2
        /\ OctetsAt(s4, Len(s3), an)
        /\ \A i \in Nat : \A w : OctetsAt(s3, i, w) => OctetsAt(s4, i, w)
    BY <2>0, OneMoreAt
  <2> HIDE DEF s4
  <2> QED
    BY <1>3, <2>1
<1> HIDE DEF s4
<1>5. /\ s5 \in Seq(Octet) /\ Len(s5) = 10
      /\ OctetsAt(s5, 0, id)
      /\ OctetsAt(s5, 2, flags)
      /\ OctetsAt(s5, 6, an)
  <2>0. s4 \in Seq(Octet) /\ 0 \in Word
    BY <1>4, SmallWords
  <2>1. /\ s5 \in Seq(Octet) /\ Len(s5) = Len(s4) + 2
        /\ OctetsAt(s5, Len(s4), 0)
        /\ \A i \in Nat : \A w : OctetsAt(s4, i, w) => OctetsAt(s5, i, w)
    BY <2>0, OneMoreAt
  <2> HIDE DEF s5
  <2> QED
    BY <1>4, <2>1
<1> HIDE DEF s5
<1>6. /\ s6 \in Seq(Octet) /\ Len(s6) = 12
      /\ OctetsAt(s6, 0, id)
      /\ OctetsAt(s6, 2, flags)
      /\ OctetsAt(s6, 6, an)
  <2>0. s5 \in Seq(Octet) /\ 0 \in Word
    BY <1>5, SmallWords
  <2>1. /\ s6 \in Seq(Octet) /\ Len(s6) = Len(s5) + 2
        /\ OctetsAt(s6, Len(s5), 0)
        /\ \A i \in Nat : \A w : OctetsAt(s5, i, w) => OctetsAt(s6, i, w)
    BY <2>0, OneMoreAt
  <2> HIDE DEF s6
  <2> QED
    BY <1>5, <2>1
<1> HIDE DEF s6
<1> QED
  BY <1>6, <1>7

LEMMA QuestionIs ==
  ASSUME NEW name, Proper(name)
  PROVE  /\ make_question(name) \in Seq(Octet) /\ Len(make_question(name)) = Len(name) + 6
         /\ \A k \in 1 .. Len(name) + 1 : make_question(name)[k] = Coded(name)[k]
         /\ make_question(name)[Len(name) + 2] = 0
         /\ OctetsAt(make_question(name), Len(name) + 2, 1)
         /\ OctetsAt(make_question(name), Len(name) + 4, 1)
<1> DEFINE n  == Len(name)
           C  == Coded(name)
           s1 == Append(C, 0)
           s2 == s1 \o Octets(1)
           s3 == s2 \o Octets(1)
<1>0. 0 \in Octet /\ 1 \in Word
  BY OctetIs, WordIs
<1>1. C \in Seq(Octet) /\ Len(C) = n + 1 /\ n \in Nat
  BY CodedType
<1>2. make_question(name) = s3
  BY LabelsAre DEF make_question, QName, QTYPE, QCLASS
<1> HIDE DEF C, n
<1>3. /\ s1 \in Seq(Octet) /\ Len(s1) = n + 2 /\ s1[n + 2] = 0
      /\ \A k \in 1 .. n + 1 : s1[k] = C[k]
  <2>1. /\ s1 \in Seq(Octet) /\ Len(s1) = Len(C) + 1
        /\ \A k \in 1 .. Len(C) : s1[k] = C[k]
        /\ s1[Len(C) + 1] = 0
    BY <1>0, <1>1, AppendProperties
  <2>2. Len(C) + 1 = n + 2
    BY <1>1
  <2> HIDE DEF s1
  <2> QED
    BY <1>1, <2>1, <2>2
<1> HIDE DEF s1
<1>4. /\ s2 \in Seq(Octet) /\ Len(s2) = n + 4 /\ OctetsAt(s2, n + 2, 1)
      /\ \A k \in 1 .. n + 2 : s2[k] = s1[k]
  <2>1. /\ s2 \in Seq(Octet) /\ Len(s2) = Len(s1) + 2 /\ OctetsAt(s2, Len(s1), 1)
        /\ \A k \in 1 .. Len(s1) : s2[k] = s1[k]
    BY <1>0, <1>3, OneMoreAt
  <2> HIDE DEF s2
  <2> QED
    BY <1>1, <1>3, <2>1
<1> HIDE DEF s2
<1>5. /\ s3 \in Seq(Octet) /\ Len(s3) = n + 6 /\ OctetsAt(s3, n + 2, 1)
      /\ OctetsAt(s3, n + 4, 1)
      /\ \A k \in 1 .. n + 4 : s3[k] = s2[k]
  <2>1. /\ s3 \in Seq(Octet) /\ Len(s3) = Len(s2) + 2 /\ OctetsAt(s3, Len(s2), 1)
        /\ \A i \in Nat : \A w : OctetsAt(s2, i, w) => OctetsAt(s3, i, w)
        /\ \A k \in 1 .. Len(s2) : s3[k] = s2[k]
    BY <1>0, <1>4, OneMoreAt
  <2> HIDE DEF s3
  <2>2. n + 2 \in Nat /\ (n + 4) + 2 = n + 6
    BY <1>1
  <2> QED
    BY <1>4, <2>1, <2>2
<1> HIDE DEF s3
<1>6. \A k \in 1 .. n + 2 : s3[k] = s1[k]
  <2> SUFFICES ASSUME NEW k \in 1 .. n + 2 PROVE s3[k] = s1[k]
    OBVIOUS
  <2>1. k \in 1 .. n + 4
    BY <1>1
  <2> QED
    BY <1>4, <1>5, <2>1
<1>7. s3[n + 2] = 0 /\ \A k \in 1 .. n + 1 : s3[k] = C[k]
  <2>1. n + 2 \in 1 .. n + 2 /\ \A k \in 1 .. n + 1 : k \in 1 .. n + 2
    BY <1>1
  <2> QED
    BY <1>3, <1>6, <2>1
<1> QED
  BY <1>2, <1>5, <1>7 DEF n, C

LEMMA AnswerIs ==
  ASSUME NEW rdata \in Seq(Octet), Len(rdata) \in Word
  PROVE  /\ make_answer(rdata) \in Seq(Octet) /\ Len(make_answer(rdata)) = 12 + Len(rdata)
         /\ OctetsAt(make_answer(rdata), 0, C00C)
         /\ OctetsAt(make_answer(rdata), 2, 1)
         /\ OctetsAt(make_answer(rdata), 4, 1)
         /\ OctetsAt(make_answer(rdata), 10, Len(rdata))
         /\ \A k \in 1 .. Len(rdata) : make_answer(rdata)[12 + k] = rdata[k]
<1> DEFINE l  == Len(rdata)
           s1 == Octets(C00C)
           s2 == s1 \o Octets(1)
           s3 == s2 \o Octets(1)
           s4 == s3 \o Octets(0)
           s5 == s4 \o Octets(0)
           s6 == s5 \o Octets(l)
           s7 == s6 \o rdata
<1>1. s1 \in Seq(Octet) /\ Len(s1) = 2 /\ OctetsAt(s1, 0, C00C)
  BY SmallWords, OctetsAre
<1>8. make_answer(rdata) = s7
  BY DEF make_answer
<1> HIDE DEF s1
<1>2. /\ s2 \in Seq(Octet) /\ Len(s2) = 4
      /\ OctetsAt(s2, 0, C00C)
      /\ OctetsAt(s2, 2, 1)
  <2>0. s1 \in Seq(Octet) /\ 1 \in Word
    BY <1>1, SmallWords
  <2>1. /\ s2 \in Seq(Octet) /\ Len(s2) = Len(s1) + 2
        /\ OctetsAt(s2, Len(s1), 1)
        /\ \A i \in Nat : \A w : OctetsAt(s1, i, w) => OctetsAt(s2, i, w)
    BY <2>0, OneMoreAt
  <2> HIDE DEF s2
  <2> QED
    BY <1>1, <2>1
<1> HIDE DEF s2
<1>3. /\ s3 \in Seq(Octet) /\ Len(s3) = 6
      /\ OctetsAt(s3, 0, C00C)
      /\ OctetsAt(s3, 2, 1)
      /\ OctetsAt(s3, 4, 1)
  <2>0. s2 \in Seq(Octet) /\ 1 \in Word
    BY <1>2, SmallWords
  <2>1. /\ s3 \in Seq(Octet) /\ Len(s3) = Len(s2) + 2
        /\ OctetsAt(s3, Len(s2), 1)
        /\ \A i \in Nat : \A w : OctetsAt(s2, i, w) => OctetsAt(s3, i, w)
    BY <2>0, OneMoreAt
  <2> HIDE DEF s3
  <2> QED
    BY <1>2, <2>1
<1> HIDE DEF s3
<1>4. /\ s4 \in Seq(Octet) /\ Len(s4) = 8
      /\ OctetsAt(s4, 0, C00C)
      /\ OctetsAt(s4, 2, 1)
      /\ OctetsAt(s4, 4, 1)
  <2>0. s3 \in Seq(Octet) /\ 0 \in Word
    BY <1>3, SmallWords
  <2>1. /\ s4 \in Seq(Octet) /\ Len(s4) = Len(s3) + 2
        /\ OctetsAt(s4, Len(s3), 0)
        /\ \A i \in Nat : \A w : OctetsAt(s3, i, w) => OctetsAt(s4, i, w)
    BY <2>0, OneMoreAt
  <2> HIDE DEF s4
  <2> QED
    BY <1>3, <2>1
<1> HIDE DEF s4
<1>5. /\ s5 \in Seq(Octet) /\ Len(s5) = 10
      /\ OctetsAt(s5, 0, C00C)
      /\ OctetsAt(s5, 2, 1)
      /\ OctetsAt(s5, 4, 1)
  <2>0. s4 \in Seq(Octet) /\ 0 \in Word
    BY <1>4, SmallWords
  <2>1. /\ s5 \in Seq(Octet) /\ Len(s5) = Len(s4) + 2
        /\ OctetsAt(s5, Len(s4), 0)
        /\ \A i \in Nat : \A w : OctetsAt(s4, i, w) => OctetsAt(s5, i, w)
    BY <2>0, OneMoreAt
  <2> HIDE DEF s5
  <2> QED
    BY <1>4, <2>1
<1> HIDE DEF s5
<1>l. l \in Word
  OBVIOUS
<1> HIDE DEF l
<1>6. /\ s6 \in Seq(Octet) /\ Len(s6) = 12
      /\ OctetsAt(s6, 0, C00C)
      /\ OctetsAt(s6, 2, 1)
      /\ OctetsAt(s6, 4, 1)
      /\ OctetsAt(s6, 10, l)
  <2>0. s5 \in Seq(Octet) /\ l \in Word
    BY <1>5, <1>l
  <2>1. /\ s6 \in Seq(Octet) /\ Len(s6) = Len(s5) + 2
        /\ OctetsAt(s6, Len(s5), l)
        /\ \A i \in Nat : \A w : OctetsAt(s5, i, w) => OctetsAt(s6, i, w)
    BY <2>0, OneMoreAt
  <2> HIDE DEF s6
  <2> QED
    BY <1>5, <2>1
<1> HIDE DEF s6
<1>7. /\ s7 \in Seq(Octet) /\ Len(s7) = 12 + Len(rdata)
      /\ \A i \in Nat : \A v : OctetsAt(s6, i, v) => OctetsAt(s7, i, v)
      /\ \A k \in 1 .. Len(rdata) : s7[12 + k] = rdata[k]
  <2>1. s6 \in Seq(Octet) /\ rdata \in Seq(Octet) /\ Len(s6) = 12
    BY <1>6
  <2>2. /\ s7 \in Seq(Octet) /\ Len(s7) = Len(s6) + Len(rdata)
        /\ \A i \in Nat : \A v : OctetsAt(s6, i, v) => OctetsAt(s7, i, v)
    BY <2>1, JoinedAt
  <2>3. \A k \in 1 .. Len(rdata) : s7[Len(s6) + k] = rdata[k]
    <3>1. s6 \in Seq(Octet) /\ rdata \in Seq(Octet)
      BY <2>1
    <3> QED
      BY <3>1, Joined
  <2> HIDE DEF s7
  <2> QED
    BY <2>1, <2>2, <2>3
<1> HIDE DEF s7
<1>9. /\ OctetsAt(s7, 0, C00C) /\ OctetsAt(s7, 2, 1) /\ OctetsAt(s7, 4, 1)
      /\ OctetsAt(s7, 10, l)
  BY <1>6, <1>7
<1> QED
  BY <1>7, <1>8, <1>9 DEF l

(***************************************************************************)
(* Messages, read.                                                         *)
(***************************************************************************)

\* A query or a reply.
Message(id, flags, an, name, rdata) ==
  make_head(id, flags, an) \o make_question(name) \o make_answer(rdata)

\* The header and the question.
LEMMA FrontIs ==
  ASSUME NEW id \in Word, NEW flags \in Word, NEW an \in Word, NEW name, Proper(name),
         NEW s, s = make_head(id, flags, an) \o make_question(name)
  PROVE  /\ s \in Seq(Octet) /\ Len(name) \in Nat /\ Len(s) = Len(name) + 18
         /\ OctetsAt(s, 0, id) /\ OctetsAt(s, 2, flags) /\ OctetsAt(s, 6, an)
         /\ \A k \in 1 .. Len(name) + 1 : s[12 + k] = Coded(name)[k]
         /\ s[Len(name) + 14] = 0
         /\ OctetsAt(s, Len(name) + 14, 1) /\ OctetsAt(s, Len(name) + 16, 1)
<1> DEFINE n == Len(name)
           C == Coded(name)
           h == make_head(id, flags, an)
           q == make_question(name)
<1>1. /\ h \in Seq(Octet) /\ Len(h) = 12
      /\ OctetsAt(h, 0, id) /\ OctetsAt(h, 2, flags) /\ OctetsAt(h, 6, an)
  BY HeadIs
<1>2. /\ q \in Seq(Octet) /\ Len(q) = n + 6
      /\ \A k \in 1 .. n + 1 : q[k] = C[k]
      /\ q[n + 2] = 0
      /\ OctetsAt(q, n + 2, 1) /\ OctetsAt(q, n + 4, 1)
  BY QuestionIs
<1>3. n \in Nat
  BY CodedType
<1>4. s = h \o q
  OBVIOUS
<1> HIDE DEF n, C, h, q
<1>5. h \in Seq(Octet) /\ q \in Seq(Octet)
  BY <1>1, <1>2
<1>6. /\ s \in Seq(Octet) /\ Len(s) = Len(h) + Len(q)
      /\ \A i \in Nat : \A v : OctetsAt(h, i, v) => OctetsAt(s, i, v)
      /\ \A i \in Nat : \A v : OctetsAt(q, i, v) => OctetsAt(s, Len(h) + i, v)
  BY <1>4, <1>5, JoinedAt
<1>7. \A k \in 1 .. Len(q) : s[Len(h) + k] = q[k]
  BY <1>4, <1>5, Joined
<1>8. Len(s) = n + 18
  BY <1>1, <1>2, <1>3, <1>6
<1>9. OctetsAt(s, 0, id) /\ OctetsAt(s, 2, flags) /\ OctetsAt(s, 6, an)
  BY <1>1, <1>6
<1>10. \A k \in 1 .. n + 1 : s[12 + k] = C[k]
  <2> SUFFICES ASSUME NEW k \in 1 .. n + 1 PROVE s[12 + k] = C[k]
    OBVIOUS
  <2>1. k \in 1 .. n + 6
    BY <1>3
  <2> QED
    BY <1>1, <1>2, <1>7, <2>1
<1>11. s[n + 14] = 0
  <2>1. n + 2 \in 1 .. n + 6 /\ 12 + (n + 2) = n + 14
    BY <1>3
  <2>2. s[12 + (n + 2)] = q[n + 2]
    BY <1>1, <1>2, <1>7, <2>1
  <2> QED
    BY <1>2, <2>1, <2>2
<1>12. OctetsAt(s, n + 14, 1) /\ OctetsAt(s, n + 16, 1)
  <2>1. /\ n + 2 \in Nat /\ 12 + (n + 2) = n + 14
        /\ n + 4 \in Nat /\ 12 + (n + 4) = n + 16
    BY <1>3
  <2>2. OctetsAt(s, 12 + (n + 2), 1) /\ OctetsAt(s, 12 + (n + 4), 1)
    BY <1>1, <1>2, <1>6, <2>1
  <2> QED
    BY <2>1, <2>2
<1> QED
  BY <1>3, <1>6, <1>8, <1>9, <1>10, <1>11, <1>12 DEF n, C

\* Where everything is in it.
Layout(dns, id, flags, an, name, rdata) ==
  /\ dns \in Seq(Octet) /\ Len(name) \in Nat
  /\ Len(dns) = Len(name) + 30 + Len(rdata)
  /\ OctetsAt(dns, 0, id) /\ OctetsAt(dns, 2, flags) /\ OctetsAt(dns, 6, an)
  /\ \A k \in 1 .. Len(name) + 1 : dns[12 + k] = Coded(name)[k]
  /\ dns[Len(name) + 14] = 0
  /\ OctetsAt(dns, Len(name) + 14, 1) /\ OctetsAt(dns, Len(name) + 16, 1)
  /\ OctetsAt(dns, Len(name) + 18, C00C)
  /\ OctetsAt(dns, Len(name) + 20, 1) /\ OctetsAt(dns, Len(name) + 22, 1)
  /\ OctetsAt(dns, Len(name) + 28, Len(rdata))
  /\ \A k \in 1 .. Len(rdata) : dns[(Len(name) + 30) + k] = rdata[k]

\* The whole message.
LEMMA MessageIs ==
  ASSUME NEW id \in Word, NEW flags \in Word, NEW an \in Word, NEW name, Proper(name),
         NEW rdata \in Seq(Octet), Len(rdata) \in Word,
         NEW dns, dns = Message(id, flags, an, name, rdata)
  PROVE  Layout(dns, id, flags, an, name, rdata)
<1> DEFINE n == Len(name)
           C == Coded(name)
           l == Len(rdata)
           s == make_head(id, flags, an) \o make_question(name)
           r == make_answer(rdata)
<1>1. /\ s \in Seq(Octet) /\ n \in Nat /\ Len(s) = n + 18
      /\ OctetsAt(s, 0, id) /\ OctetsAt(s, 2, flags) /\ OctetsAt(s, 6, an)
      /\ \A k \in 1 .. n + 1 : s[12 + k] = C[k]
      /\ s[n + 14] = 0
      /\ OctetsAt(s, n + 14, 1) /\ OctetsAt(s, n + 16, 1)
  BY FrontIs
<1>2. /\ r \in Seq(Octet) /\ Len(r) = 12 + l
      /\ OctetsAt(r, 0, C00C) /\ OctetsAt(r, 2, 1) /\ OctetsAt(r, 4, 1)
      /\ OctetsAt(r, 10, l)
      /\ \A k \in 1 .. l : r[12 + k] = rdata[k]
  BY AnswerIs
<1>3. l \in Nat /\ dns = s \o r
  BY DEF Message
<1> HIDE DEF n, C, l, s, r
<1>4. s \in Seq(Octet) /\ r \in Seq(Octet)
  BY <1>1, <1>2
<1>5. /\ dns \in Seq(Octet) /\ Len(dns) = Len(s) + Len(r)
      /\ \A i \in Nat : \A v : OctetsAt(s, i, v) => OctetsAt(dns, i, v)
      /\ \A i \in Nat : \A v : OctetsAt(r, i, v) => OctetsAt(dns, Len(s) + i, v)
  BY <1>3, <1>4, JoinedAt
<1>6. /\ \A k \in 1 .. Len(s) : dns[k] = s[k]
      /\ \A k \in 1 .. Len(r) : dns[Len(s) + k] = r[k]
  BY <1>3, <1>4, Joined
<1>7. Len(dns) = n + 30 + l
  BY <1>1, <1>2, <1>3, <1>5
<1>8. /\ OctetsAt(dns, 0, id) /\ OctetsAt(dns, 2, flags) /\ OctetsAt(dns, 6, an)
      /\ OctetsAt(dns, n + 14, 1) /\ OctetsAt(dns, n + 16, 1)
  <2>1. n + 14 \in Nat /\ n + 16 \in Nat
    BY <1>1
  <2> QED
    BY <1>1, <1>5, <2>1
<1>9. \A k \in 1 .. n + 1 : dns[12 + k] = C[k]
  <2> SUFFICES ASSUME NEW k \in 1 .. n + 1 PROVE dns[12 + k] = C[k]
    OBVIOUS
  <2>1. 12 + k \in 1 .. n + 18
    BY <1>1
  <2> QED
    BY <1>1, <1>6, <2>1
<1>10. dns[n + 14] = 0
  <2>1. n + 14 \in 1 .. n + 18
    BY <1>1
  <2> QED
    BY <1>1, <1>6, <2>1
<1>11. /\ OctetsAt(dns, n + 18, C00C) /\ OctetsAt(dns, n + 20, 1)
       /\ OctetsAt(dns, n + 22, 1) /\ OctetsAt(dns, n + 28, l)
  <2>1. /\ (n + 18) + 0 = n + 18 /\ (n + 18) + 2 = n + 20
        /\ (n + 18) + 4 = n + 22 /\ (n + 18) + 10 = n + 28
    BY <1>1
  <2>2. /\ OctetsAt(dns, (n + 18) + 0, C00C) /\ OctetsAt(dns, (n + 18) + 2, 1)
        /\ OctetsAt(dns, (n + 18) + 4, 1) /\ OctetsAt(dns, (n + 18) + 10, l)
    <3>1. /\ \A v : OctetsAt(r, 0, v) => OctetsAt(dns, (n + 18) + 0, v)
          /\ \A v : OctetsAt(r, 2, v) => OctetsAt(dns, (n + 18) + 2, v)
          /\ \A v : OctetsAt(r, 4, v) => OctetsAt(dns, (n + 18) + 4, v)
          /\ \A v : OctetsAt(r, 10, v) => OctetsAt(dns, (n + 18) + 10, v)
      BY <1>1, <1>5
    <3> QED
      BY <1>2, <3>1
  <2> QED
    BY <2>1, <2>2
<1>12. \A k \in 1 .. l : dns[(n + 30) + k] = rdata[k]
  <2> SUFFICES ASSUME NEW k \in 1 .. l PROVE dns[(n + 30) + k] = rdata[k]
    OBVIOUS
  <2>1. 12 + k \in 1 .. 12 + l /\ (n + 18) + (12 + k) = (n + 30) + k
    BY <1>1, <1>3
  <2>2. dns[(n + 18) + (12 + k)] = r[12 + k]
    BY <1>1, <1>2, <1>6, <2>1
  <2> QED
    BY <1>2, <2>1, <2>2
<1> QED
  BY <1>1, <1>5, <1>7, <1>8, <1>9, <1>10, <1>11, <1>12 DEF n, C, l, Layout

\* What is written at an offset is what is read there.
LEMMA Read2Is ==
  ASSUME NEW s \in Seq(Octet), NEW i \in Nat, NEW v \in Word, OctetsAt(s, i, v)
  PROVE  Read2(s, i) = v
<1>1. Value(v \div 256, v % 256) = v
  BY OctetsAre
<1>2. /\ i < Len(s) /\ i + 1 < Len(s) /\ (i + 1) + 1 = i + 2
      /\ s[i + 1] = v \div 256 /\ s[i + 2] = v % 256
  BY DEF OctetsAt
<1>3. At(s, i) = s[i + 1] /\ At(s, i + 1) = s[i + 2]
  BY <1>2 DEF At
<1> QED
  BY <1>1, <1>2, <1>3 DEF Read2

\* The first zero behind the header is where the name was ended.
LEMMA NameEndIs ==
  ASSUME NEW id \in Word, NEW flags \in Word, NEW an \in Word, NEW name, Proper(name),
         NEW rdata \in Seq(Octet), Len(rdata) \in Word,
         NEW dns, dns = Message(id, flags, an, name, rdata)
  PROVE  NameEnd(dns) = Len(name) + 13
<1> DEFINE n == Len(name)
           C == Coded(name)
           l == Len(rdata)
           e == n + 13
           End(i) == At(dns, i) = 0 /\ \A j \in 12 .. i - 1 : At(dns, j) # 0
<1>1. /\ n \in Nat /\ l \in Nat /\ Len(dns) = n + 30 + l
      /\ \A k \in 1 .. n + 1 : dns[12 + k] = C[k]
      /\ dns[n + 14] = 0
  <2>1. Layout(dns, id, flags, an, name, rdata)
    BY MessageIs
  <2> QED
    BY <2>1 DEF Layout
<1>2. \A k \in 1 .. n + 1 : C[k] # 0
  <2>1. \A k \in 1 .. n + 1 : C[k] \in Char
    BY CodedType
  <2> HIDE DEF C, n
  <2>2. \A c \in Char : c # 0
    BY CharIs
  <2> QED
    BY <2>1, <2>2
<1> HIDE DEF n, C, l
<1>3. At(dns, e) = 0
  BY <1>1 DEF At
<1>4. ASSUME NEW j \in 12 .. e - 1 PROVE At(dns, j) # 0
  <2> DEFINE k == j - 11
  <2>1. k \in 1 .. n + 1 /\ 12 + k = j + 1 /\ j < Len(dns)
    BY <1>1
  <2> HIDE DEF k
  <2>2. dns[j + 1] = C[k]
    BY <1>1, <2>1
  <2> QED
    BY <1>2, <2>1, <2>2 DEF At
<1>5. e \in 12 .. Len(dns) /\ End(e)
  BY <1>1, <1>3, <1>4
<1>6. ASSUME NEW i \in 12 .. Len(dns), End(i) PROVE i = e
  <2>1. ~(i < e)
    <3>1. i < e => i \in 12 .. e - 1
      BY <1>1
    <3> HIDE DEF e
    <3> QED
      BY <1>4, <1>6, <3>1
  <2>2. ~(e < i)
    <3>1. e < i => e \in 12 .. i - 1
      BY <1>1
    <3> HIDE DEF e
    <3> QED
      BY <1>3, <1>6, <3>1
  <2> QED
    BY <1>1, <2>1, <2>2
<1>7. NameEnd(dns) = CHOOSE i \in 12 .. Len(dns) : End(i)
  BY DEF NameEnd
<1> HIDE DEF End, e
<1>8. NameEnd(dns) \in 12 .. Len(dns) /\ End(NameEnd(dns))
  BY <1>5, <1>7
<1>9. NameEnd(dns) = e
  BY <1>6, <1>8
<1> QED
  BY <1>9 DEF e, n

\* What parse_dns finds in a message.
Parsed(dns, id, flags, an, name, rdata) ==
  LET q == parse_dns(dns)
  IN  /\ q.msg_id = id /\ q.QR = flags \div QR /\ q.ANCOUNT = an
      /\ q.QNAME = Coded(name) /\ q.QTYPE = 1 /\ q.QCLASS = 1
      /\ q.NAME = C00C /\ q.TYPE = 1 /\ q.CLASS = 1
      /\ q.RDLENGTH = Len(rdata)
      /\ Len(rdata) = 0 => q.RDATA = <<0, 0, 0, 0>>
      /\ Len(rdata) = 4 => q.RDATA = rdata

\* Everything that depends on a message is read from it as it was written.
LEMMA ParseIs ==
  ASSUME NEW id \in Word, NEW flags \in Word, NEW an \in Word, NEW name, Proper(name),
         NEW rdata \in Seq(Octet), Len(rdata) \in Word,
         NEW dns, dns = Message(id, flags, an, name, rdata)
  PROVE  Parsed(dns, id, flags, an, name, rdata)
<1>b. Layout(dns, id, flags, an, name, rdata)
  BY MessageIs
<1>a. rdata \in Seq(Octet) /\ \A k \in 1 .. Len(rdata) : rdata[k] \in Octet
  OBVIOUS
<1> DEFINE n == Len(name)
           C == Coded(name)
           l == Len(rdata)
           p == NameEnd(dns) + 1
           sub == SubSeq(dns, 13, p - 1)
           rd == IF Read2(dns, p + 14) = 0 THEN <<0, 0, 0, 0>>
                 ELSE [k \in 1 .. 4 |-> At(dns, p + 15 + k)]
<1>1. /\ dns \in Seq(Octet) /\ n \in Nat /\ Len(dns) = n + 30 + l
      /\ OctetsAt(dns, 0, id) /\ OctetsAt(dns, 2, flags) /\ OctetsAt(dns, 6, an)
      /\ \A k \in 1 .. n + 1 : dns[12 + k] = C[k]
      /\ OctetsAt(dns, n + 14, 1) /\ OctetsAt(dns, n + 16, 1)
      /\ OctetsAt(dns, n + 18, C00C) /\ OctetsAt(dns, n + 20, 1) /\ OctetsAt(dns, n + 22, 1)
      /\ OctetsAt(dns, n + 28, l)
      /\ \A k \in 1 .. l : dns[(n + 30) + k] = rdata[k]
  BY <1>b DEF Layout
<1>2. NameEnd(dns) = n + 13
  BY NameEndIs
<1>3. C \in Seq(Octet) /\ Len(C) = n + 1 /\ l \in Word /\ l \in Nat /\ l = Len(rdata)
  BY CodedType
<1>4. p = n + 14
  <2> HIDE DEF n
  <2> QED
    BY <1>1, <1>2
<1>5. parse_dns(dns) =
        [ msg_id   |-> Read2(dns, 0),
          QR       |-> Read2(dns, 2) \div QR,
          ANCOUNT  |-> Read2(dns, 6),
          QNAME    |-> sub,
          QTYPE    |-> Read2(dns, p),
          QCLASS   |-> Read2(dns, p + 2),
          NAME     |-> Read2(dns, p + 4),
          TYPE     |-> Read2(dns, p + 6),
          CLASS    |-> Read2(dns, p + 8),
          RDLENGTH |-> Read2(dns, p + 14),
          RDATA    |-> rd ]
  BY DEF parse_dns
<1> HIDE DEF n, C, l, p
<1>6. /\ Read2(dns, 0) = id /\ Read2(dns, 2) = flags /\ Read2(dns, 6) = an
      /\ Read2(dns, p) = 1 /\ Read2(dns, p + 2) = 1 /\ Read2(dns, p + 4) = C00C
      /\ Read2(dns, p + 6) = 1 /\ Read2(dns, p + 8) = 1 /\ Read2(dns, p + 14) = l
  <2>1. /\ p \in Nat /\ p + 2 \in Nat /\ p + 4 \in Nat /\ p + 6 \in Nat /\ p + 8 \in Nat
        /\ p + 14 \in Nat
        /\ p + 2 = n + 16 /\ p + 4 = n + 18 /\ p + 6 = n + 20 /\ p + 8 = n + 22
        /\ p + 14 = n + 28
    BY <1>1, <1>4
  <2>2. /\ OctetsAt(dns, p, 1) /\ OctetsAt(dns, p + 2, 1) /\ OctetsAt(dns, p + 4, C00C)
        /\ OctetsAt(dns, p + 6, 1) /\ OctetsAt(dns, p + 8, 1) /\ OctetsAt(dns, p + 14, l)
    BY <1>1, <1>4, <2>1
  <2>3. \A i \in Nat : \A v \in Word : OctetsAt(dns, i, v) => Read2(dns, i) = v
    <3>1. dns \in Seq(Octet)
      BY <1>1
    <3> QED
      BY <3>1, Read2Is
  <2>4. Read2(dns, 0) = id /\ Read2(dns, 2) = flags /\ Read2(dns, 6) = an
    BY <1>1, <2>3
  <2>5. /\ Read2(dns, p) = 1 /\ Read2(dns, p + 2) = 1 /\ Read2(dns, p + 4) = C00C
        /\ Read2(dns, p + 6) = 1 /\ Read2(dns, p + 8) = 1
    BY <2>1, <2>2, <2>3, SmallWords
  <2>6. Read2(dns, p + 14) = l
    BY <1>3, <2>1, <2>2, <2>3
  <2> QED
    BY <2>4, <2>5, <2>6
<1>7. SubSeq(dns, 13, p - 1) = C
  <2> DEFINE i == 13
             j == p - 1
             s == SubSeq(dns, i, j)
  <2>1. /\ i \in Nat \ {0} /\ j \in Nat /\ j <= Len(dns) /\ i <= j + 1
        /\ (j + 1) - i = n + 1
    BY <1>1, <1>3, <1>4
  <2>2. \A k \in 1 .. n + 1 : (i + k) - 1 = 12 + k
    BY <1>1
  <2> HIDE DEF i, j
  <2>3. /\ s \in Seq(Octet) /\ Len(s) = (j + 1) - i
        /\ \A k \in 1 .. (j + 1) - i : s[k] = dns[(i + k) - 1]
    BY <1>1, <2>1, Piece
  <2> HIDE DEF s
  <2>4. Len(s) = n + 1 /\ \A k \in 1 .. n + 1 : s[k] = dns[(i + k) - 1]
    BY <2>1, <2>3
  <2>a. \A k \in 1 .. n + 1 : s[k] = C[k]
    <3> SUFFICES ASSUME NEW k \in 1 .. n + 1 PROVE s[k] = C[k]
      OBVIOUS
    <3>1. s[k] = dns[12 + k]
      BY <2>2, <2>4
    <3> QED
      BY <1>1, <3>1
  <2>5. s = C
    BY <1>3, <2>3, <2>4, <2>a, SameSeq
  <2> QED
    BY <2>5 DEF s, i, j
<1>8. l = 4 => [k \in 1 .. 4 |-> At(dns, p + 15 + k)] = rdata
  <2>0. SUFFICES ASSUME l = 4 PROVE [k \in 1 .. 4 |-> At(dns, p + 15 + k)] = rdata
    OBVIOUS
  <2> DEFINE f == [k \in 1 .. 4 |-> At(dns, p + 15 + k)]
  <2>1. Len(rdata) = 4 /\ \A k \in 1 .. 4 : rdata[k] \in Octet
    BY <1>a, <1>3, <2>0
  <2>2. ASSUME NEW k \in 1 .. 4 PROVE At(dns, p + 15 + k) = rdata[k]
    <3>a. k \in Nat /\ k <= l /\ k \in 1 .. l
      BY <2>0
    <3>b. n \in Nat /\ p = n + 14 /\ Len(dns) = n + 30 + l /\ l \in Nat
      BY <1>1, <1>3, <1>4
    <3>1. p + 15 + k < Len(dns) /\ p + 15 + k + 1 = (n + 30) + k /\ k \in 1 .. l
      BY <3>a, <3>b
    <3>c. \A j \in 1 .. l : dns[(n + 30) + j] = rdata[j]
      BY <1>1
    <3>d. dns[(n + 30) + k] = rdata[k]
      BY <3>a, <3>c
    <3>2. dns[p + 15 + k + 1] = rdata[k]
      BY <3>1, <3>d
    <3> QED
      BY <3>1, <3>2 DEF At
  <2>3. f \in [1 .. 4 -> Octet]
    BY <2>1, <2>2
  <2>4. \A k \in 1 .. 4 : f[k] = rdata[k]
    BY <2>2
  <2> HIDE DEF f
  <2>5. f \in Seq(Octet) /\ Len(f) = 4
    BY <2>3, FunctionSeq
  <2>6. f = rdata
    BY <1>a, <2>1, <2>4, <2>5, SameSeq
  <2> QED
    BY <2>6 DEF f
<1>9. sub = C /\ (l = 0 => rd = <<0, 0, 0, 0>>) /\ (l = 4 => rd = rdata)
  BY <1>6, <1>7, <1>8
<1> HIDE DEF sub, rd
<1> DEFINE q == parse_dns(dns)
<1>10. /\ q.msg_id = id /\ q.QR = flags \div QR /\ q.ANCOUNT = an
       /\ q.QNAME = C /\ q.QTYPE = 1 /\ q.QCLASS = 1
       /\ q.NAME = C00C /\ q.TYPE = 1 /\ q.CLASS = 1 /\ q.RDLENGTH = l
       /\ q.RDATA = rd
  BY <1>5, <1>6, <1>9
<1> HIDE DEF q
<1>11. /\ q.msg_id = id /\ q.QR = flags \div QR /\ q.ANCOUNT = an
       /\ q.QNAME = C /\ q.QTYPE = 1 /\ q.QCLASS = 1
       /\ q.NAME = C00C /\ q.TYPE = 1 /\ q.CLASS = 1 /\ q.RDLENGTH = l
       /\ l = 0 => q.RDATA = <<0, 0, 0, 0>>
       /\ l = 4 => q.RDATA = rdata
  BY <1>9, <1>10
<1> QED
  BY <1>11 DEF l, C, q, Parsed

(***************************************************************************)
(* The names and the addresses there are.                                  *)
(***************************************************************************)

\* Of the names, the assertions of make_question let the proper ones pass.
LEMMA FittingProper ==
  ASSUME NEW name \in Names, LabelsFit(name)
  PROVE  Proper(name)
<1>1. name \in Seq(Char)
  BY DnsWireAssumption
<1>2. ASSUME NEW p1 \in LabelStarts(name) PROVE LabelEnd(name, p1) - p1 \in Fitting
  <2> DEFINE l == LabelEnd(name, p1) - p1
  <2>1. l \in Octet /\ l # 0
    BY NamesAssumption
  <2>2. l % 256 <= 63
    BY DEF LabelsFit, Len8
  <2> HIDE DEF l
  <2>3. l \in Fitting
    BY <2>1, <2>2, OctetIs, FittingIs
  <2> QED
    BY <2>3 DEF l
<1> QED
  BY <1>1, <1>2 DEF Proper

\* An address is four octets, and not the one that stands for none.
LEMMA IpIs ==
  ASSUME NEW a \in Ips
  PROVE  a \in Seq(Octet) /\ Len(a) = 4 /\ a \in Address /\ a # <<0, 0, 0, 0>>
<1>1. a \in Address /\ a # <<0, 0, 0, 0>>
  BY DnsWireAssumption
<1>2. a \in [1 .. 4 -> Octet] /\ 4 \in Nat
  BY <1>1 DEF Address
<1>3. a \in Seq(Octet) /\ Len(a) = 4
  BY <1>2, FunctionSeq
<1> QED
  BY <1>1, <1>3

\* A query and what parse_dns finds in it.
LEMMA QueryIs ==
  ASSUME NEW id \in Word, NEW name, Proper(name),
         NEW dns, dns = make_dns_query(id, name)
  PROVE  LET q == parse_dns(dns)
         IN  /\ dns \in Seq(Octet) /\ dns = Message(id, 0, 0, name, <<>>)
             /\ Layout(dns, id, 0, 0, name, <<>>)
             /\ q.msg_id = id /\ q.QR = 0 /\ q.ANCOUNT = 0
             /\ q.QNAME = Coded(name) /\ q.QTYPE = 1 /\ q.QCLASS = 1
             /\ q.NAME = C00C /\ q.TYPE = 1 /\ q.CLASS = 1 /\ q.RDLENGTH = 0
<1> DEFINE e == <<>>
           z == 0
           q == parse_dns(dns)
<1>1. e \in Seq(Octet) /\ Len(e) = 0
  OBVIOUS
<1>2. Len(e) \in Word /\ z \in Word
  BY <1>1, SmallWords
<1>3. dns = Message(id, z, z, name, e)
  BY DEF make_dns_query, Message
<1>4. z \div QR = 0 /\ z = 0
  BY DEF QR
<1> HIDE DEF e, z
<1>5. Layout(dns, id, z, z, name, e)
  BY <1>1, <1>2, <1>3, MessageIs
<1>6. Parsed(dns, id, z, z, name, e)
  BY <1>1, <1>2, <1>3, ParseIs
<1>7. dns \in Seq(Octet)
  BY <1>5 DEF Layout
<1>8. /\ q.msg_id = id /\ q.QR = z \div QR /\ q.ANCOUNT = z
      /\ q.QNAME = Coded(name) /\ q.QTYPE = 1 /\ q.QCLASS = 1
      /\ q.NAME = C00C /\ q.TYPE = 1 /\ q.CLASS = 1 /\ q.RDLENGTH = Len(e)
  BY <1>6 DEF Parsed
<1> HIDE DEF q
<1> QED
  BY <1>1, <1>3, <1>4, <1>5, <1>7, <1>8 DEF e, z, q

\* The reply to a query asks what the query asked, and parse_dns finds the
\* address in it.
LEMMA ReplyIs ==
  ASSUME NEW id \in Word, NEW name, Proper(name), NEW a \in Ips,
         NEW dns, dns = make_dns_reply(parse_dns(make_dns_query(id, name)), a)
  PROVE  /\ dns \in Seq(Octet)
         /\ Layout(dns, id, QR + AA, 1, name, a)
         /\ parse_dns(dns).RDATA = a
<1>1. a \in Seq(Octet) /\ Len(a) = 4
  BY IpIs
<1>2. Len(a) \in Word
  BY <1>1, SmallWords
<1> DEFINE q == parse_dns(make_dns_query(id, name))
<1>3. q.msg_id = id /\ q.QNAME = Coded(name)
  BY QueryIs
<1> HIDE DEF q
<1>4. dns = make_head(q.msg_id, QR + AA, 1) \o make_question(recover_node(q.QNAME))
              \o make_answer(a)
  BY DEF make_dns_reply, q
<1>5. recover_node(q.QNAME) = name
  BY <1>3, RecoverIs
<1> DEFINE f == QR + AA
           k == 1
<1>6. dns = Message(id, f, k, name, a)
  BY <1>3, <1>4, <1>5 DEF Message
<1>f. f \in Word /\ k \in Word
  BY SmallWords
<1> HIDE DEF f, k
<1>7. Layout(dns, id, f, k, name, a)
  BY <1>1, <1>2, <1>f, <1>6, MessageIs
<1>8. parse_dns(dns).RDATA = a
  <2>1. Parsed(dns, id, f, k, name, a)
    BY <1>1, <1>2, <1>f, <1>6, ParseIs
  <2> QED
    BY <1>1, <2>1 DEF Parsed
<1>9. dns \in Seq(Octet)
  BY <1>7 DEF Layout
<1> QED
  BY <1>1, <1>7, <1>8, <1>9 DEF f, k

\* The same places of two sequences.
LEMMA SamePiece ==
  ASSUME NEW T, NEW s \in Seq(T), NEW t \in Seq(T), NEW i \in Nat \ {0}, NEW j \in Nat,
         j <= Len(s), j <= Len(t), i <= j + 1, \A k \in i .. j : s[k] = t[k]
  PROVE  SubSeq(s, i, j) = SubSeq(t, i, j)
<1> DEFINE a == SubSeq(s, i, j)
           b == SubSeq(t, i, j)
<1>1. /\ a \in Seq(T) /\ Len(a) = (j + 1) - i
      /\ \A k \in 1 .. (j + 1) - i : a[k] = s[(i + k) - 1]
  BY Piece
<1>2. /\ b \in Seq(T) /\ Len(b) = (j + 1) - i
      /\ \A k \in 1 .. (j + 1) - i : b[k] = t[(i + k) - 1]
  BY Piece
<1> HIDE DEF a, b
<1>3. ASSUME NEW k \in 1 .. (j + 1) - i PROVE a[k] = b[k]
  <2>1. (i + k) - 1 \in i .. j
    OBVIOUS
  <2> QED
    BY <1>1, <1>2, <2>1
<1>4. a = b
  BY <1>1, <1>2, <1>3, SameSeq
<1> QED
  BY <1>4 DEF a, b

\* A query and its reply have the number and the question in common.
LEMMA CommonIs ==
  ASSUME NEW id \in Word, NEW name, Proper(name),
         NEW q, Layout(q, id, 0, 0, name, <<>>),
         NEW a, NEW r, Layout(r, id, QR + AA, 1, name, a), Len(a) = 4
  PROVE  /\ SubSeq(r, 1, 2) = SubSeq(q, 1, 2)
         /\ SubSeq(r, 13, Len(q) - 12) = SubSeq(q, 13, Len(q) - 12)
<1> DEFINE n == Len(name)
           C == Coded(name)
<1>1. /\ q \in Seq(Octet) /\ n \in Nat /\ Len(q) = n + 30 + Len(<<>>)
      /\ OctetsAt(q, 0, id)
      /\ \A k \in 1 .. n + 1 : q[12 + k] = C[k]
      /\ q[n + 14] = 0 /\ OctetsAt(q, n + 14, 1) /\ OctetsAt(q, n + 16, 1)
  BY DEF Layout
<1>2. /\ r \in Seq(Octet) /\ Len(r) = n + 30 + Len(a)
      /\ OctetsAt(r, 0, id)
      /\ \A k \in 1 .. n + 1 : r[12 + k] = C[k]
      /\ r[n + 14] = 0 /\ OctetsAt(r, n + 14, 1) /\ OctetsAt(r, n + 16, 1)
  BY DEF Layout
<1> HIDE DEF n, C
<1>3. Len(q) = n + 30 /\ Len(r) = n + 34
  BY <1>1, <1>2
<1>4. SubSeq(r, 1, 2) = SubSeq(q, 1, 2)
  <2> DEFINE i == 1
             j == 2
  <2>1. /\ i \in Nat \ {0} /\ j \in Nat /\ j <= Len(r) /\ j <= Len(q) /\ i <= j + 1
        /\ \A k \in i .. j : k = 1 \/ k = 2
    BY <1>1, <1>3
  <2>2. q[1] = r[1] /\ q[2] = r[2]
    BY <1>1, <1>2 DEF OctetsAt
  <2>3. \A k \in i .. j : r[k] = q[k]
    BY <2>1, <2>2
  <2> HIDE DEF i, j
  <2>4. SubSeq(r, i, j) = SubSeq(q, i, j)
    BY <1>1, <1>2, <2>1, <2>3, SamePiece
  <2> QED
    BY <2>4 DEF i, j
<1>5. SubSeq(r, 13, Len(q) - 12) = SubSeq(q, 13, Len(q) - 12)
  <2> DEFINE i == 13
             j == Len(q) - 12
  <2>1. /\ i \in Nat \ {0} /\ j \in Nat /\ j <= Len(r) /\ j <= Len(q) /\ i <= j + 1
        /\ j = n + 18
    BY <1>1, <1>3
  <2>2. ASSUME NEW k \in i .. j PROVE r[k] = q[k]
    <3>1. CASE k <= n + 13
      <4> DEFINE m == k - 12
      <4>1. m \in 1 .. n + 1 /\ 12 + m = k
        BY <1>1, <2>1, <3>1
      <4> HIDE DEF m
      <4>2. q[12 + m] = C[m] /\ r[12 + m] = C[m]
        BY <1>1, <1>2, <4>1
      <4> QED
        BY <4>1, <4>2
    <3>2. CASE k > n + 13
      <4>1. \/ k = n + 14 \/ k = (n + 14) + 1 \/ k = (n + 14) + 2
            \/ k = (n + 16) + 1 \/ k = (n + 16) + 2
        BY <1>1, <2>1, <3>2
      <4>2. /\ q[(n + 14) + 1] = r[(n + 14) + 1] /\ q[(n + 14) + 2] = r[(n + 14) + 2]
            /\ q[(n + 16) + 1] = r[(n + 16) + 1] /\ q[(n + 16) + 2] = r[(n + 16) + 2]
        BY <1>1, <1>2 DEF OctetsAt
      <4> QED
        BY <1>1, <1>2, <4>1, <4>2
    <3> QED
      BY <1>1, <2>1, <3>1, <3>2
  <2> HIDE DEF i, j
  <2>3. SubSeq(r, i, j) = SubSeq(q, i, j)
    BY <1>1, <1>2, <2>1, <2>2, SamePiece
  <2> QED
    BY <2>3 DEF i, j
<1> QED
  BY <1>4, <1>5

(***************************************************************************)
(* A lookup.                                                               *)
(***************************************************************************)

\* The datagrams are what make_dns_query and make_dns_reply made of the name and
\* the address.
Asked ==
  stage \in {"asking", "answered"} =>
    /\ node \in Names /\ LabelsFit(node)
    /\ query = make_dns_query(msg_id, node)

Answered ==
  stage = "answered" =>
    /\ ip \in Ips
    /\ reply = make_dns_reply(parse_dns(query), ip)

\* TypeOK, its sets named.
Stages     == {"idle", "asking", "answered", "exited"}
SomeNode   == Names \cup {<<>>}
SomeIp     == Ips \cup {<<>>}
Datagram   == Seq(Octet)
SomeResult == Address \cup {<<>>}

Typed ==
  /\ stage \in Stages
  /\ msg_id \in Word
  /\ node \in SomeNode
  /\ ip \in SomeIp
  /\ query \in Datagram
  /\ reply \in Datagram
  /\ sin_addr \in SomeResult

WireInv == Typed /\ Asked /\ Answered /\ AddressArrives

LEMMA IdStep ==
  ASSUME NEW id \in Word
  PROVE  NextId(id) \in Word
<1> DEFINE x == (id + 1) % 65536
<1>1. id + 1 \in Int
  BY WordIs
<1>2. x \in Int /\ 0 <= x /\ x <= 65535
  BY <1>1
<1> HIDE DEF x
<1>3. x \in Word
  BY <1>2, WordIs
<1> QED
  BY <1>3 DEF x, NextId

LEMMA IdsAre == ASSUME NEW id \in Ids PROVE id \in Word
  BY DnsWireAssumption

LEMMA Sorts ==
  /\ "idle" \in Stages /\ "asking" \in Stages /\ "answered" \in Stages
  /\ "exited" \in Stages
  /\ \A name \in Names : name \in SomeNode
  /\ \A a \in Ips : a \in SomeIp
  /\ \A a \in Address : a \in SomeResult
  /\ <<>> \in SomeNode /\ <<>> \in SomeIp /\ <<>> \in Datagram /\ <<>> \in SomeResult
<1>1. /\ "idle" \in Stages /\ "asking" \in Stages /\ "answered" \in Stages
      /\ "exited" \in Stages
  BY DEF Stages
<1>2. <<>> \in SomeNode /\ \A name \in Names : name \in SomeNode
  BY DEF SomeNode
<1>3. <<>> \in SomeIp /\ \A a \in Ips : a \in SomeIp
  BY DEF SomeIp
<1>4. <<>> \in SomeResult /\ \A a \in Address : a \in SomeResult
  BY DEF SomeResult
<1>5. <<>> \in Datagram
  BY DEF Datagram
<1> QED
  BY <1>1, <1>2, <1>3, <1>4, <1>5

LEMMA WireInit == Init => WireInv
<1> SUFFICES ASSUME Init PROVE WireInv
  OBVIOUS
<1>1. stage = "idle" /\ msg_id \in Ids
  BY DEF Init
<1>2. node = <<>> /\ ip = <<>> /\ query = <<>> /\ reply = <<>> /\ sin_addr = <<>>
  BY DEF Init
<1>3. msg_id \in Word
  BY <1>1, IdsAre
<1>4. Typed
  BY <1>1, <1>2, <1>3, Sorts DEF Typed
<1>5. Asked /\ Answered /\ AddressArrives
  BY <1>1, <1>2 DEF Asked, Answered, AddressArrives
<1> QED
  BY <1>4, <1>5 DEF WireInv

LEMMA WireMakeQuery == WireInv /\ MakeQuery => WireInv'
<1> SUFFICES ASSUME WireInv, MakeQuery PROVE WireInv'
  OBVIOUS
<1> DEFINE id == NextId(msg_id)
<1>1. PICK name \in Names :
        LabelsFit(name) /\ node' = name /\ query' = make_dns_query(id, name)
  BY DEF MakeQuery
<1>2. /\ msg_id' = id /\ stage' = "asking"
      /\ ip' = ip /\ reply' = reply /\ sin_addr' = sin_addr
  BY DEF MakeQuery
<1>3. id \in Word
  BY IdStep DEF WireInv, Typed
<1> HIDE DEF id
<1>4. query' \in Datagram
  <2>1. Proper(name)
    BY <1>1, FittingProper
  <2>2. query' \in Seq(Octet)
    BY <1>1, <1>3, <2>1, QueryIs
  <2> QED
    BY <2>2 DEF Datagram
<1>5. Typed'
  BY <1>1, <1>2, <1>3, <1>4, Sorts DEF WireInv, Typed
<1>6. Asked'
  BY <1>1, <1>2 DEF Asked
<1>7. Answered' /\ AddressArrives'
  BY <1>2 DEF Answered, AddressArrives
<1> QED
  BY <1>5, <1>6, <1>7 DEF WireInv

LEMMA WireMakeQueryAborts == WireInv /\ MakeQueryAborts => WireInv'
<1> SUFFICES ASSUME WireInv, MakeQueryAborts PROVE WireInv'
  OBVIOUS
<1> DEFINE id == NextId(msg_id)
<1>1. PICK name \in Names : ~LabelsFit(name) /\ node' = name
  BY DEF MakeQueryAborts
<1>2. /\ msg_id' = id /\ stage' = "exited"
      /\ ip' = ip /\ query' = query /\ reply' = reply /\ sin_addr' = sin_addr
  BY DEF MakeQueryAborts
<1>3. id \in Word
  BY IdStep DEF WireInv, Typed
<1> HIDE DEF id
<1>4. Typed'
  BY <1>1, <1>2, <1>3, Sorts DEF WireInv, Typed
<1>5. Asked' /\ Answered' /\ AddressArrives'
  BY <1>1, <1>2 DEF Asked, Answered, AddressArrives
<1> QED
  BY <1>4, <1>5 DEF WireInv

\* What the invariant says of the query, and of the reply that is made of it.
LEMMA AskedIs ==
  ASSUME WireInv, stage \in {"asking", "answered"}
  PROVE  /\ msg_id \in Word /\ node \in Names /\ Proper(node)
         /\ query = make_dns_query(msg_id, node)
<1>1. msg_id \in Word
  BY DEF WireInv, Typed
<1>2. node \in Names /\ LabelsFit(node) /\ query = make_dns_query(msg_id, node)
  BY DEF WireInv, Asked
<1>3. Proper(node)
  BY <1>2, FittingProper
<1> QED
  BY <1>1, <1>2, <1>3

LEMMA WireMakeReply == WireInv /\ MakeReply => WireInv'
<1> SUFFICES ASSUME WireInv, MakeReply PROVE WireInv'
  OBVIOUS
<1>1. /\ stage = "asking" /\ stage' = "answered"
      /\ msg_id' = msg_id /\ node' = node /\ query' = query /\ sin_addr' = sin_addr
  BY DEF MakeReply
<1>2. PICK a \in Ips : ip' = a /\ reply' = make_dns_reply(parse_dns(query), a)
  BY DEF MakeReply
<1>3. reply' \in Datagram
  <2>1. msg_id \in Word /\ Proper(node) /\ query = make_dns_query(msg_id, node)
    BY <1>1, AskedIs
  <2>2. reply' \in Seq(Octet)
    BY <1>2, <2>1, ReplyIs
  <2> QED
    BY <2>2 DEF Datagram
<1>4. Typed'
  BY <1>1, <1>2, <1>3, Sorts DEF WireInv, Typed
<1>5. Asked'
  BY <1>1 DEF WireInv, Asked
<1>6. Answered' /\ AddressArrives'
  BY <1>1, <1>2 DEF Answered, AddressArrives
<1> QED
  BY <1>4, <1>5, <1>6 DEF WireInv

\* What the invariant says of a state in which the reply is on its way.
LEMMA AnsweredIs ==
  ASSUME WireInv, stage = "answered"
  PROVE  /\ ip \in Ips /\ parse_dns(reply).RDATA = ip
         /\ SubSeq(reply, 1, 2) = SubSeq(query, 1, 2)
         /\ SubSeq(reply, 13, Len(query) - 12) = SubSeq(query, 13, Len(query) - 12)
         /\ recover_node(parse_dns(query).QNAME) = node
<1>1. /\ msg_id \in Word /\ Proper(node)
      /\ query = make_dns_query(msg_id, node)
  BY AskedIs
<1>2. ip \in Ips /\ reply = make_dns_reply(parse_dns(query), ip)
  BY DEF WireInv, Answered
<1>3. /\ Layout(query, msg_id, 0, 0, node, <<>>)
      /\ parse_dns(query).QNAME = Coded(node)
  BY <1>1, QueryIs
<1>4. Layout(reply, msg_id, QR + AA, 1, node, ip) /\ parse_dns(reply).RDATA = ip
  BY <1>1, <1>2, ReplyIs
<1>5. Len(ip) = 4
  BY <1>2, IpIs
<1>6. /\ SubSeq(reply, 1, 2) = SubSeq(query, 1, 2)
      /\ SubSeq(reply, 13, Len(query) - 12) = SubSeq(query, 13, Len(query) - 12)
  BY <1>1, <1>3, <1>4, <1>5, CommonIs
<1>7. recover_node(Coded(node)) = node
  BY <1>1, RecoverIs
<1> QED
  BY <1>2, <1>3, <1>4, <1>6, <1>7

LEMMA WireParseReply == WireInv /\ ParseReply => WireInv'
<1> SUFFICES ASSUME WireInv, ParseReply PROVE WireInv'
  OBVIOUS
<1>1. /\ stage = "answered" /\ sin_addr' = parse_dns(reply).RDATA
      /\ stage' = IF sin_addr' = <<0, 0, 0, 0>> THEN "exited" ELSE "idle"
      /\ msg_id' = msg_id /\ node' = node /\ ip' = ip /\ query' = query /\ reply' = reply
  BY DEF ParseReply
<1>2. ip \in Ips /\ sin_addr' = ip
  BY <1>1, AnsweredIs
<1>3. ip # <<0, 0, 0, 0>> /\ ip \in Address
  BY <1>2, IpIs
<1>4. stage' = "idle"
  BY <1>1, <1>2, <1>3
<1>5. Typed'
  BY <1>1, <1>2, <1>3, <1>4, Sorts DEF WireInv, Typed
<1>6. Asked' /\ Answered'
  BY <1>4 DEF Asked, Answered
<1>7. AddressArrives'
  BY <1>1, <1>2, <1>4 DEF AddressArrives
<1> QED
  BY <1>5, <1>6, <1>7 DEF WireInv

LEMMA WireStutter == WireInv /\ UNCHANGED vars => WireInv'
  BY DEF WireInv, Typed, Asked, Answered, AddressArrives, vars

\* The invariant holds of every lookup, one after the other.
THEOREM WireInvariant == Spec => []WireInv
<1>1. WireInv /\ [Next]_vars => WireInv'
  BY WireMakeQuery, WireMakeQueryAborts, WireMakeReply, WireParseReply, WireStutter DEF Next
<1> QED
  BY WireInit, <1>1, PTL DEF Spec

\* The numbers of queries stay within their two octets (uint16_t), everything put
\* in a datagram by make_head, make_question and make_answer is an octet, and what
\* resolve returns is an address of four.
THEOREM WireTypeCorrect == Spec => []TypeOK
<1>1. WireInv => TypeOK
  BY DEF WireInv, Typed, TypeOK, Stages, SomeNode, SomeIp, Datagram, SomeResult
<1> QED
  BY WireInvariant, <1>1, PTL

\* parse_dns finds in a query, behind a name of any labels, the number that
\* make_dns_query gave it, the type and class of the question and the fields of
\* the empty answer.
THEOREM QueriesParse == Spec => []QueryParses
<1>1. WireInv => QueryParses
  <2> SUFFICES ASSUME WireInv, stage \in {"asking", "answered"}
               PROVE  LET q == parse_dns(query)
                      IN  /\ q.msg_id = msg_id /\ q.QR = 0 /\ q.ANCOUNT = 0
                          /\ q.QTYPE = 1 /\ q.QCLASS = 1
                          /\ q.NAME = C00C /\ q.TYPE = 1 /\ q.CLASS = 1
                          /\ q.RDLENGTH = 0
    BY DEF QueryParses, QTYPE, QCLASS
  <2>1. /\ msg_id \in Word /\ Proper(node)
        /\ query = make_dns_query(msg_id, node)
    BY AskedIs
  <2> QED
    BY <2>1, QueryIs
<1> QED
  BY WireInvariant, <1>1, PTL

\* The reply has the number and the question of the query, octet for octet, and
\* the name recover_node made of its labels is the one that was looked up.
THEOREM QuestionsEchoed == Spec => []QuestionEchoed
<1>1. WireInv => QuestionEchoed
  BY AnsweredIs DEF QuestionEchoed
<1> QED
  BY WireInvariant, <1>1, PTL

\* resolve returns the address the nameserver picked, whatever the name and the
\* address, and only a label too long for its length octet ends a lookup.
THEOREM AddressesArrive == Spec => []AddressArrives
<1>1. WireInv => AddressArrives
  BY DEF WireInv
<1> QED
  BY WireInvariant, <1>1, PTL
=============================================================================
