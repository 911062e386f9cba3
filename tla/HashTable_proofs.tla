-------------------------- MODULE HashTable_proofs ---------------------------
(***************************************************************************)
(* The hash table, for every finite set of keys, every tuning that         *)
(* check_tuning lets pass and every sequence of calls: until a rehash      *)
(* strays, the cells are linked once and none is lost, the counters are    *)
(* right, and the table is the set KeySet describes.                       *)
(***************************************************************************)
EXTENDS HashTable, SequenceTheorems, FiniteSetTheorems, WellFoundedInduction, TLAPS

-----------------------------------------------------------------------------
(* Cells, and the chains they form.                                         *)

\* A set of natural numbers has a least one, and what holds of 0 and of n + 1 with n of all.
LEMMA LeastOne ==
  ASSUME NEW T, T \subseteq Nat, T # {}
  PROVE  \E n \in T : \A m \in T : n <= m
<1> DEFINE R == OpToRel(<, Nat)
<1>1. IsWellFoundedOn(R, Nat)
  BY NatLessThanWellFounded, Zenon
<1> HIDE DEF R
<1>2. PICK n \in T : \A m \in T : ~(<<m, n>> \in R)
  BY <1>1, WFMin
<1>3. \A m \in T : ~(m < n)
  BY <1>2, Zenon DEF R, OpToRel
<1> QED
  BY <1>3

\* What holds of 0, and of n + 1 with n, holds of every number.
LEMMA UpFromZero ==
  ASSUME NEW S, 0 \in S, \A n \in Nat : n \in S => n + 1 \in S
  PROVE  Nat \subseteq S
<1> DEFINE T == {n \in Nat : n \notin S}
<1> SUFFICES ASSUME T # {} PROVE FALSE
  OBVIOUS
<1>0. T \subseteq Nat
  OBVIOUS
<1>1. PICK n \in T : \A m \in T : n <= m
  BY <1>0, LeastOne
<1>2. n # 0 /\ n - 1 \in Nat /\ ~(n <= n - 1) /\ (n - 1) + 1 = n
  OBVIOUS
<1>3. n - 1 \in S
  BY <1>1, <1>2
<1> QED
  BY <1>2, <1>3

\* The free list is owner -1, bucket b owner b.  N gives the next cell, F the first one of an
\* owner; own says in whose chain a live cell is, and rank falls along the chains.
Owners(n) == -1 .. n - 1

Heap(N, F, L, n, own, rank, R) ==
  /\ n \in Nat /\ L \subseteq Cells /\ R \in Nat
  /\ N \in [Cells -> Cells \cup {NULL}]
  /\ F \in [Owners(n) -> Cells \cup {NULL}]
  /\ own \in [Cells -> Owners(n)] /\ rank \in [Cells -> 0 .. R]
  /\ \A o \in Owners(n) : F[o] # NULL => F[o] \in L /\ own[F[o]] = o
  /\ \A c \in L : N[c] # NULL => N[c] \in L /\ own[N[c]] = own[c] /\ rank[N[c]] < rank[c] /\ N[c] # F[own[c]]
  /\ \A c, d \in L : N[c] = N[d] => N[c] = NULL \/ c = d
  /\ \A c \in L : c = F[own[c]] \/ \E d \in L : N[d] = c

\* A cell that is not live goes in front of a chain.
LEMMA HeapPush ==
  ASSUME NEW N, NEW F, NEW L, NEW n, NEW own, NEW rank, NEW R, Heap(N, F, L, n, own, rank, R),
         NEW o \in Owners(n), NEW c \in Cells, c \notin L
  PROVE  Heap([N EXCEPT ![c] = F[o]], [F EXCEPT ![o] = c], L \cup {c}, n,
              [own EXCEPT ![c] = o], [rank EXCEPT ![c] = R + 1], R + 1)
<1> DEFINE M == [N EXCEPT ![c] = F[o]]
           G == [F EXCEPT ![o] = c]
           K == L \cup {c}
           w == [own EXCEPT ![c] = o]
           r == [rank EXCEPT ![c] = R + 1]
<1>1. /\ n \in Nat /\ L \subseteq Cells /\ R \in Nat
      /\ N \in [Cells -> Cells \cup {NULL}] /\ F \in [Owners(n) -> Cells \cup {NULL}]
      /\ own \in [Cells -> Owners(n)] /\ rank \in [Cells -> 0 .. R]
  BY DEF Heap
<1>2. /\ M \in [Cells -> Cells \cup {NULL}] /\ M[c] = F[o] /\ \A d \in L : M[d] = N[d]
      /\ G \in [Owners(n) -> Cells \cup {NULL}] /\ G[o] = c /\ \A q \in Owners(n) : q # o => G[q] = F[q]
      /\ w \in [Cells -> Owners(n)] /\ w[c] = o /\ \A d \in L : w[d] = own[d]
  BY <1>1
<1>3. /\ r \in [Cells -> 0 .. R + 1] /\ r[c] = R + 1 /\ \A d \in L : r[d] = rank[d] /\ r[d] < R + 1
  <2>1. R + 1 \in 0 .. R + 1 /\ \A d \in Cells : rank[d] \in 0 .. R /\ rank[d] \in 0 .. R + 1 /\ rank[d] < R + 1
    BY <1>1
  <2> QED
    BY <1>1, <2>1
<1>4. c # NULL /\ NULL \notin L /\ \A d \in L : d # c
  BY DEF Cells, NULL, Heap
<1>5. /\ \A q \in Owners(n) : F[q] # NULL => F[q] \in L /\ own[F[q]] = q
      /\ \A d \in L : N[d] # NULL => N[d] \in L /\ own[N[d]] = own[d] /\ rank[N[d]] < rank[d] /\ N[d] # F[own[d]]
      /\ \A d, e \in L : N[d] = N[e] => N[d] = NULL \/ d = e
      /\ \A d \in L : d = F[own[d]] \/ \E e \in L : N[e] = d
  BY DEF Heap
<1> HIDE DEF M, G, w, r
<1>6. \A q \in Owners(n) : G[q] # NULL => G[q] \in K /\ w[G[q]] = q
  BY <1>2, <1>5
<1>7. ASSUME NEW d \in K, M[d] # NULL
      PROVE  M[d] \in K /\ w[M[d]] = w[d] /\ r[M[d]] < r[d] /\ M[d] # G[w[d]]
  <2>1. CASE d = c
    BY <1>2, <1>3, <1>4, <1>5, <1>7, <2>1
  <2>2. CASE d \in L
    <3>1. M[d] = N[d] /\ N[d] \in L /\ own[N[d]] = own[d] /\ rank[N[d]] < rank[d] /\ N[d] # F[own[d]]
      BY <1>2, <1>5, <1>7, <2>2
    <3>2. own[d] \in Owners(n)
      BY <1>1, <2>2
    <3> QED
      BY <1>2, <1>3, <1>4, <2>2, <3>1, <3>2
  <2> QED
    BY <2>1, <2>2
<1>8. ASSUME NEW d \in K, NEW e \in K, M[d] = M[e], M[d] # NULL PROVE d = e
  <2>1. ASSUME NEW x \in L PROVE M[x] # NULL => M[x] # M[c]
    BY <1>1, <1>2, <1>5, <2>1
  <2> QED
    BY <1>2, <1>5, <1>8, <2>1
<1>9. ASSUME NEW d \in K PROVE d = G[w[d]] \/ \E e \in K : M[e] = d
  <2>1. CASE d = c
    BY <1>2, <2>1
  <2>2. CASE d \in L /\ d = F[own[d]]
    <3>1. CASE own[d] = o
      BY <1>2, <2>2, <3>1
    <3>2. CASE own[d] # o
      <4>1. own[d] \in Owners(n)
        BY <1>1, <2>2
      <4> QED
        BY <1>2, <2>2, <3>2, <4>1
    <3> QED
      BY <3>1, <3>2
  <2>3. CASE d \in L /\ d # F[own[d]]
    <3>1. PICK e \in L : N[e] = d
      BY <1>5, <2>3
    <3> QED
      BY <1>2, <3>1
  <2> QED
    BY <2>1, <2>2, <2>3
<1>10. K \subseteq Cells /\ R + 1 \in Nat
  BY <1>1
<1> QED
  BY <1>1, <1>2, <1>3, <1>6, <1>7, <1>8, <1>9, <1>10 DEF Heap, M, G, w, r

\* The first cell of a chain is taken out.
LEMMA HeapPop ==
  ASSUME NEW N, NEW F, NEW L, NEW n, NEW own, NEW rank, NEW R, Heap(N, F, L, n, own, rank, R),
         NEW o \in Owners(n), F[o] # NULL
  PROVE  Heap(N, [F EXCEPT ![o] = N[F[o]]], L \ {F[o]}, n, own, rank, R)
<1> DEFINE c == F[o]
           G == [F EXCEPT ![o] = N[c]]
           K == L \ {c}
<1>1. /\ n \in Nat /\ L \subseteq Cells /\ R \in Nat
      /\ N \in [Cells -> Cells \cup {NULL}] /\ F \in [Owners(n) -> Cells \cup {NULL}]
      /\ own \in [Cells -> Owners(n)] /\ rank \in [Cells -> 0 .. R]
  BY DEF Heap
<1>5. /\ \A q \in Owners(n) : F[q] # NULL => F[q] \in L /\ own[F[q]] = q
      /\ \A d \in L : N[d] # NULL => N[d] \in L /\ own[N[d]] = own[d] /\ rank[N[d]] < rank[d] /\ N[d] # F[own[d]]
      /\ \A d, e \in L : N[d] = N[e] => N[d] = NULL \/ d = e
      /\ \A d \in L : d = F[own[d]] \/ \E e \in L : N[e] = d
  BY DEF Heap
<1>2. /\ c \in L /\ own[c] = o /\ c \in Cells /\ N[c] # c
      /\ G \in [Owners(n) -> Cells \cup {NULL}] /\ G[o] = N[c] /\ \A q \in Owners(n) : q # o => G[q] = F[q]
  <2>1. c \in L /\ own[c] = o /\ c \in Cells
    BY <1>1, <1>5
  <2>2. N[c] # c
    BY <1>5, <2>1
  <2> QED
    BY <1>1, <2>1, <2>2
<1>3. c = F[o]
  OBVIOUS
<1> HIDE DEF G, c
<1>6. ASSUME NEW q \in Owners(n), G[q] # NULL PROVE G[q] \in K /\ own[G[q]] = q
  <2>1. CASE q = o
    BY <1>2, <1>5, <1>6, <2>1
  <2>2. CASE q # o
    BY <1>2, <1>5, <1>6, <2>2
  <2> QED
    BY <2>1, <2>2
<1>7. ASSUME NEW d \in K, N[d] # NULL
      PROVE  N[d] \in K /\ own[N[d]] = own[d] /\ rank[N[d]] < rank[d] /\ N[d] # G[own[d]]
  <2>1. N[d] \in L /\ own[N[d]] = own[d] /\ rank[N[d]] < rank[d] /\ N[d] # F[own[d]] /\ own[d] \in Owners(n)
    BY <1>1, <1>5, <1>7
  <2>2. N[d] # c
    BY <1>2, <1>3, <2>1
  <2>3. N[d] # G[own[d]]
    <3>1. CASE own[d] = o
      BY <1>2, <1>5, <1>7, <2>1, <3>1
    <3>2. CASE own[d] # o
      BY <1>2, <2>1, <3>2
    <3> QED
      BY <3>1, <3>2
  <2> QED
    BY <2>1, <2>2, <2>3
<1>9. ASSUME NEW d \in K PROVE d = G[own[d]] \/ \E e \in K : N[e] = d
  <2>1. CASE d = F[own[d]]
    <3>1. own[d] # o /\ own[d] \in Owners(n)
      BY <1>1, <1>3, <2>1
    <3> QED
      BY <1>2, <2>1, <3>1
  <2>2. CASE d # F[own[d]]
    <3>1. PICK e \in L : N[e] = d
      BY <1>5, <2>2
    <3>2. d # NULL
      BY <1>1 DEF Cells, NULL
    <3>3. CASE e = c
      BY <1>2, <1>5, <3>1, <3>2, <3>3
    <3>4. CASE e # c
      BY <3>1, <3>4
    <3> QED
      BY <3>3, <3>4
  <2> QED
    BY <2>1, <2>2
<1>10. Heap(N, G, K, n, own, rank, R)
  BY <1>1, <1>2, <1>5, <1>6, <1>7, <1>9 DEF Heap
<1> QED
  BY <1>10 DEF G, c

\* A later cell of a chain is taken out.
LEMMA HeapCut ==
  ASSUME NEW N, NEW F, NEW L, NEW n, NEW own, NEW rank, NEW R, Heap(N, F, L, n, own, rank, R),
         NEW b \in L, N[b] # NULL
  PROVE  Heap([N EXCEPT ![b] = N[N[b]]], F, L \ {N[b]}, n, own, rank, R)
<1> DEFINE c == N[b]
           M == [N EXCEPT ![b] = N[c]]
           K == L \ {c}
<1>1. /\ n \in Nat /\ L \subseteq Cells /\ R \in Nat
      /\ N \in [Cells -> Cells \cup {NULL}] /\ F \in [Owners(n) -> Cells \cup {NULL}]
      /\ own \in [Cells -> Owners(n)] /\ rank \in [Cells -> 0 .. R]
  BY DEF Heap
<1>5. /\ \A q \in Owners(n) : F[q] # NULL => F[q] \in L /\ own[F[q]] = q
      /\ \A d \in L : N[d] # NULL => N[d] \in L /\ own[N[d]] = own[d] /\ rank[N[d]] < rank[d] /\ N[d] # F[own[d]]
      /\ \A d, e \in L : N[d] = N[e] => N[d] = NULL \/ d = e
      /\ \A d \in L : d = F[own[d]] \/ \E e \in L : N[e] = d
  BY DEF Heap
<1>20. \A d \in L : rank[d] \in Int /\ d \in Cells /\ own[d] \in Owners(n) /\ d # NULL
  BY <1>1 DEF Cells, NULL
<1>2. /\ c \in L /\ own[c] = own[b] /\ c # b /\ N[c] # c /\ c # F[own[b]] /\ rank[c] < rank[b]
      /\ M \in [Cells -> Cells \cup {NULL}] /\ M[b] = N[c] /\ \A d \in L : d # b => M[d] = N[d]
  <2>1. c \in L /\ own[c] = own[b] /\ rank[c] < rank[b] /\ c # F[own[b]]
    BY <1>5
  <2>2. c # b
    BY <1>20, <2>1
  <2>3. N[c] # c
    BY <1>5, <1>20, <2>1
  <2> QED
    BY <1>1, <2>1, <2>2, <2>3
<1>3. c = N[b]
  OBVIOUS
<1> HIDE DEF M, c
<1>6. ASSUME NEW q \in Owners(n), F[q] # NULL PROVE F[q] \in K /\ own[F[q]] = q
  BY <1>2, <1>5, <1>6
<1>7. ASSUME NEW d \in K, M[d] # NULL
      PROVE  M[d] \in K /\ own[M[d]] = own[d] /\ rank[M[d]] < rank[d] /\ M[d] # F[own[d]]
  <2>1. CASE d = b
    <3>1. N[c] \in L /\ own[N[c]] = own[c] /\ rank[N[c]] < rank[c] /\ N[c] # F[own[c]]
      BY <1>2, <1>5, <1>7, <2>1
    <3> QED
      BY <1>2, <1>20, <2>1, <3>1
  <2>2. CASE d # b
    <3>1. M[d] = N[d] /\ N[d] \in L /\ own[N[d]] = own[d] /\ rank[N[d]] < rank[d] /\ N[d] # F[own[d]]
      BY <1>2, <1>5, <1>7, <2>2
    <3>2. N[d] # c
      BY <1>2, <1>3, <1>5, <1>20, <2>2
    <3> QED
      BY <3>1, <3>2
  <2> QED
    BY <2>1, <2>2
<1>8. ASSUME NEW d \in K, NEW e \in K, M[d] = M[e], M[d] # NULL PROVE d = e
  <2>1. ASSUME NEW x \in K, x # b, M[x] = M[b], M[x] # NULL PROVE FALSE
    BY <1>2, <1>5, <2>1
  <2> QED
    BY <1>2, <1>5, <1>8, <2>1
<1>9. ASSUME NEW d \in K PROVE d = F[own[d]] \/ \E e \in K : M[e] = d
  <2>1. SUFFICES ASSUME d # F[own[d]] PROVE \E e \in K : M[e] = d
    OBVIOUS
  <2>2. PICK e \in L : N[e] = d
    BY <1>5, <2>1
  <2>3. CASE e = c
    BY <1>2, <2>2, <2>3
  <2>4. CASE e # c
    <3>1. e # b
      BY <1>3, <2>2
    <3> QED
      BY <1>2, <2>2, <2>4, <3>1
  <2> QED
    BY <2>3, <2>4
<1>10. Heap(M, F, K, n, own, rank, R)
  BY <1>1, <1>2, <1>6, <1>7, <1>8, <1>9 DEF Heap
<1> QED
  BY <1>10 DEF M, c

\* What holds the first cell of an owner and follows the links holds all its cells.
LEMMA HeapReach ==
  ASSUME NEW N, NEW F, NEW L, NEW n, NEW own, NEW rank, NEW R, Heap(N, F, L, n, own, rank, R),
         NEW o \in Owners(n), NEW S, F[o] # NULL => F[o] \in S,
         \A c \in L : own[c] = o /\ c \in S /\ N[c] # NULL => N[c] \in S
  PROVE  \A c \in L : own[c] = o => c \in S
<1> DEFINE U == {c \in L : own[c] = o /\ c \notin S}
           W == {k \in Nat : \E c \in U : k = R - rank[c]}
<1> SUFFICES ASSUME U # {} PROVE FALSE
  OBVIOUS
<1>1. L \subseteq Cells /\ R \in Nat /\ rank \in [Cells -> 0 .. R] /\ \A c \in L : c # NULL
  BY DEF Heap, Cells, NULL
<1>2. \A c \in U : R - rank[c] \in W
  BY <1>1
<1>3. W # {} /\ W \subseteq Nat
  BY <1>2
<1>4. PICK k \in W : \A m \in W : k <= m
  BY <1>3, LeastOne
<1>5. PICK c \in U : k = R - rank[c]
  BY <1>4
<1>6. c # F[own[c]]
  BY <1>1
<1>7. PICK d \in L : N[d] = c
  BY <1>6 DEF Heap
<1>8. own[d] = o /\ rank[c] < rank[d]
  BY <1>1, <1>7 DEF Heap
<1>9. d \in U
  BY <1>1, <1>7, <1>8
<1>10. k <= R - rank[d] /\ rank[d] \in 0 .. R /\ rank[c] \in 0 .. R
  BY <1>1, <1>2, <1>4, <1>9
<1> QED
  BY <1>1, <1>5, <1>8, <1>10

Pointers == Cells \cup {NULL}
Steps(w, m, cell) ==
  w = [left \in 0 .. m |-> [c \in Pointers |-> IF left = 0 \/ c = NULL THEN <<>> ELSE <<c>> \o w[left - 1][cell[c].next]]]

\* What each step of the walk gives.
LEMMA StepsAre ==
  ASSUME NEW cell, NEW w, NEW m \in Nat, Steps(w, m, cell)
  PROVE  \A left \in 0 .. m, c \in Pointers :
           w[left][c] = IF left = 0 \/ c = NULL THEN <<>> ELSE <<c>> \o w[left - 1][cell[c].next]
<1> TAKE left \in 0 .. m, c \in Pointers
<1>1. w[left] = [d \in Pointers |-> IF left = 0 \/ d = NULL THEN <<>> ELSE <<d>> \o w[left - 1][cell[d].next]]
  BY DEF Steps
<1> QED
  BY <1>1

\* The walk is defined for any number of steps.
LEMMA StepsExist == ASSUME NEW cell, NEW m \in Nat PROVE \E w : Steps(w, m, cell)
<1> DEFINE I == {k \in Nat : \E w : Steps(w, k, cell)}
           After(f, left) == [c \in Pointers |-> IF left = 0 \/ c = NULL THEN <<>> ELSE <<c>> \o f[cell[c].next]]
<1>0. \A w, k : Steps(w, k, cell) <=> w = [left \in 0 .. k |-> After(w[left - 1], left)]
  BY DEF Steps
<1> HIDE DEF After
<1>1. 0 \in I
  <2> DEFINE w == [left \in 0 .. 0 |-> After(<<>>, 0)]
  <2>1. \A f : After(f, 0) = After(<<>>, 0)
    BY DEF After
  <2>2. w = [left \in 0 .. 0 |-> After(w[left - 1], left)]
    BY <2>1
  <2> HIDE DEF w
  <2> QED
    BY <1>0, <2>2
<1>2. ASSUME NEW k \in Nat, k \in I PROVE k + 1 \in I
  <2>1. PICK w : Steps(w, k, cell)
    BY <1>2
  <2>2. w = [left \in 0 .. k |-> After(w[left - 1], left)]
    BY <1>0, <2>1
  <2> DEFINE v == [left \in 0 .. k + 1 |-> IF left = k + 1 THEN After(w[k], k + 1) ELSE w[left]]
  <2>3. /\ \A left \in 0 .. k : v[left] = w[left]
        /\ v[k + 1] = After(w[k], k + 1)
        /\ v = [left \in 0 .. k + 1 |-> v[left]]
    OBVIOUS
  <2> HIDE DEF v
  <2>4. ASSUME NEW left \in 0 .. k + 1 PROVE v[left] = After(v[left - 1], left)
    <3>1. CASE left = k + 1
      <4>1. left - 1 = k /\ k \in 0 .. k
        BY <3>1
      <4> QED
        BY <2>3, <3>1, <4>1
    <3>2. CASE left # k + 1 /\ left # 0
      <4>1. left \in 0 .. k /\ left - 1 \in 0 .. k
        BY <3>2
      <4>2. w[left] = After(w[left - 1], left)
        BY <2>2, <4>1
      <4> QED
        BY <2>3, <4>1, <4>2
    <3>3. CASE left = 0
      <4>1. w[0] = After(w[0 - 1], 0) /\ 0 \in 0 .. k
        BY <2>2
      <4>2. \A f, g : After(f, 0) = After(g, 0)
        BY DEF After
      <4> QED
        BY <2>3, <3>3, <4>1, <4>2
    <3> QED
      BY <3>1, <3>2, <3>3
  <2>5. v = [left \in 0 .. k + 1 |-> After(v[left - 1], left)]
    BY <2>3, <2>4
  <2>6. Steps(v, k + 1, cell)
    BY <1>0, <2>5
  <2> QED
    BY <2>6
<1> HIDE DEF I
<1>3. m \in I
  BY <1>1, <1>2, UpFromZero
<1> QED
  BY <1>3 DEF I

\* What a walk of at most m cells from c finds.
Path(s, c, m, N, L, own, rank) ==
  /\ s \in Seq(L) /\ Len(s) <= m
  /\ c = NULL => s = <<>>
  /\ c # NULL /\ m # 0 => Len(s) # 0 /\ s[1] = c
  /\ \A i \in 1 .. Len(s) : own[s[i]] = own[c] /\ rank[s[i]] <= rank[c]
  /\ \A i, j \in 1 .. Len(s) : i < j => rank[s[j]] < rank[s[i]]
  /\ \A i \in 1 .. Len(s) : i < Len(s) => N[s[i]] = s[i + 1]
  /\ Len(s) = m \/ (Len(s) # 0 => N[s[Len(s)]] = NULL)

\* A sequence with one element in front.
LEMMA Prepended ==
  ASSUME NEW S, NEW s \in Seq(S), NEW c \in S
  PROVE  /\ <<c>> \o s \in Seq(S) /\ Len(s) \in Nat /\ Len(<<c>> \o s) = Len(s) + 1 /\ (<<c>> \o s)[1] = c
         /\ \A i \in 2 .. Len(s) + 1 : (<<c>> \o s)[i] = s[i - 1] /\ i - 1 \in 1 .. Len(s) /\ s[i - 1] \in S
<1>1. <<c>> \in Seq(S) /\ Len(<<c>>) = 1 /\ <<c>>[1] = c /\ Len(s) \in Nat
  OBVIOUS
<1> DEFINE u == <<c>>
<1>2. /\ u \o s \in Seq(S) /\ Len(u \o s) = Len(u) + Len(s)
      /\ \A i \in 1 .. Len(u) + Len(s) : (u \o s)[i] = IF i <= Len(u) THEN u[i] ELSE s[i - Len(u)]
  BY <1>1, ConcatProperties
<1> HIDE DEF u
<1>3. \A i \in 2 .. Len(s) + 1 : i \in 1 .. 1 + Len(s) /\ ~(i <= 1) /\ i - 1 \in 1 .. Len(s) /\ s[i - 1] \in S
  BY <1>1
<1> QED
  BY <1>1, <1>2, <1>3 DEF u

\* The walk from a cell is the cell and the walk from the next one.
LEMMA PathGrows ==
  ASSUME NEW N, NEW F, NEW L, NEW n, NEW own, NEW rank, NEW R, Heap(N, F, L, n, own, rank, R),
         NEW c \in L, NEW m \in Nat, NEW s, Path(s, N[c], m, N, L, own, rank)
  PROVE  Path(<<c>> \o s, c, m + 1, N, L, own, rank)
<1> DEFINE u == <<c>> \o s
           k == Len(s)
<1>1. /\ u \in Seq(L) /\ k \in Nat /\ Len(u) = k + 1 /\ u[1] = c
      /\ \A i \in 2 .. k + 1 : u[i] = s[i - 1] /\ i - 1 \in 1 .. k /\ s[i - 1] \in L
  BY Prepended DEF Path
<1>2. \A d \in L : rank[d] \in Nat /\ d # NULL
  BY DEF Heap, Cells, NULL
<1> HIDE DEF u
<1>3. /\ N[c] = NULL => k = 0
      /\ N[c] # NULL => own[N[c]] = own[c] /\ rank[N[c]] < rank[c] /\ N[c] \in L
  BY <1>1 DEF Path, Heap
<1>4. ASSUME NEW i \in 2 .. k + 1 PROVE own[u[i]] = own[c] /\ rank[u[i]] < rank[c]
  <2>1. i - 1 \in 1 .. k /\ u[i] = s[i - 1] /\ k # 0 /\ s[i - 1] \in L
    BY <1>1
  <2>2. own[s[i - 1]] = own[N[c]] /\ rank[s[i - 1]] <= rank[N[c]]
    BY <2>1 DEF Path
  <2> QED
    BY <1>2, <1>3, <2>1, <2>2
<1>5. \A i \in 1 .. k + 1 : i = 1 \/ i \in 2 .. k + 1
  BY <1>1
<1>6. \A i \in 1 .. k + 1 : own[u[i]] = own[c] /\ rank[u[i]] <= rank[c]
  <2> TAKE i \in 1 .. k + 1
  <2>1. rank[c] <= rank[c]
    BY <1>2
  <2>2. i # 1 => rank[u[i]] \in Nat /\ rank[c] \in Nat
    BY <1>1, <1>2, <1>5
  <2> QED
    BY <1>1, <1>4, <1>5, <2>1, <2>2
<1>7. ASSUME NEW i \in 1 .. k + 1, NEW j \in 1 .. k + 1, i < j PROVE rank[u[j]] < rank[u[i]]
  <2>1. j \in 2 .. k + 1
    BY <1>1, <1>7
  <2>2. CASE i = 1
    BY <1>1, <1>4, <2>1, <2>2
  <2>3. CASE i # 1
    <3>1. i \in 2 .. k + 1 /\ i - 1 < j - 1 /\ i - 1 \in 1 .. k /\ j - 1 \in 1 .. k /\ u[i] = s[i - 1] /\ u[j] = s[j - 1]
      BY <1>1, <1>5, <1>7, <2>1, <2>3
    <3> QED
      BY <3>1 DEF Path
  <2> QED
    BY <2>2, <2>3
<1>8. ASSUME NEW i \in 1 .. k + 1, i < k + 1 PROVE N[u[i]] = u[i + 1]
  <2>1. i + 1 \in 2 .. k + 1 /\ (i + 1) - 1 = i /\ u[i + 1] = s[i] /\ k # 0
    BY <1>1, <1>8
  <2>1a. k <= m
    BY DEF Path
  <2>2. CASE i = 1
    <3>1. N[c] # NULL
      BY <1>3, <2>1
    <3>2. m # 0
      BY <1>1, <2>1, <2>1a DEF Path
    <3>2a. s[1] = N[c]
      BY <3>1, <3>2 DEF Path
    <3> QED
      BY <1>1, <2>1, <2>2, <3>2a
  <2>3. CASE i # 1
    <3>1. i \in 2 .. k + 1 /\ i - 1 \in 1 .. k /\ i - 1 < k /\ u[i] = s[i - 1] /\ (i - 1) + 1 = i
      BY <1>1, <1>5, <1>8, <2>3
    <3>2. N[s[i - 1]] = s[(i - 1) + 1]
      BY <3>1 DEF Path
    <3> QED
      BY <2>1, <3>1, <3>2
  <2> QED
    BY <2>2, <2>3
<1>9. k + 1 = m + 1 \/ N[u[k + 1]] = NULL
  <2>1. CASE k = m
    BY <2>1
  <2>2. CASE k # m /\ k # 0
    <3>1. N[s[k]] = NULL
      BY <2>2 DEF Path
    <3>2. k + 1 \in 2 .. k + 1 /\ (k + 1) - 1 = k
      BY <1>1, <2>2
    <3> QED
      BY <1>1, <3>1, <3>2
  <2>3. CASE k # m /\ k = 0
    <3>1. N[c] = NULL
      BY <2>3 DEF Path
    <3> QED
      BY <1>1, <2>3, <3>1
  <2> QED
    BY <2>1, <2>2, <2>3
<1>10. c # NULL /\ k + 1 <= m + 1
  BY <1>1, <1>2 DEF Path
<1> QED
  BY <1>1, <1>6, <1>7, <1>8, <1>9, <1>10 DEF Path, u

Nexts(cell) == [c \in Cells |-> cell[c].next]

\* CellsFrom is the walk of ChunkCells steps.
LEMMA CellsFromWalks ==
  ASSUME NEW cell
  PROVE  \E w : Steps(w, ChunkCells, cell) /\ \A p : CellsFrom(cell, p) = w[ChunkCells][p]
<1> DEFINE v == CHOOSE w : Steps(w, ChunkCells, cell)
<1>1. \A p : CellsFrom(cell, p) = v[ChunkCells][p]
  BY DEF CellsFrom, Steps, Pointers
<1>2. Steps(v, ChunkCells, cell)
  BY HashAssumption, StepsExist
<1> HIDE DEF v
<1> QED
  BY <1>1, <1>2

\* ChunkCells steps find a chain to its end: they are as many as there are cells, and rank falls.
LEMMA CellsFromPath ==
  ASSUME NEW cell, NEW F, NEW L, NEW n, NEW own, NEW rank, NEW R, Heap(Nexts(cell), F, L, n, own, rank, R),
         NEW p \in L \cup {NULL}
  PROVE  Path(CellsFrom(cell, p), p, ChunkCells, Nexts(cell), L, own, rank)
<1> DEFINE N == Nexts(cell)
           C == ChunkCells
<1>1. C \in Nat
  BY HashAssumption
<1>2. PICK w : Steps(w, C, cell) /\ \A q : CellsFrom(cell, q) = w[C][q]
  BY CellsFromWalks
<1>3. CellsFrom(cell, p) = w[C][p]
  BY <1>2
<1> HIDE DEF C
<1>4. \A left \in 0 .. C, c \in Pointers :
          w[left][c] = IF left = 0 \/ c = NULL THEN <<>> ELSE <<c>> \o w[left - 1][cell[c].next]
  <2> TAKE left \in 0 .. C, c \in Pointers
  <2> QED
    BY <1>1, <1>2, StepsAre
<1>5. L \subseteq Cells /\ \A c \in L : N[c] = cell[c].next /\ N[c] \in L \cup {NULL} /\ c # NULL
  <2>1. L \subseteq Cells /\ N = [c \in Cells |-> cell[c].next] /\ NULL \notin Cells
    BY DEF Heap, Cells, NULL, Nexts
  <2>2. \A c \in L : N[c] \in L \cup {NULL}
    BY DEF Heap
  <2> HIDE DEF N
  <2> QED
    BY <2>1, <2>2
<1> DEFINE I == {k \in Nat : k <= C => \A c \in L \cup {NULL} : Path(w[k][c], c, k, N, L, own, rank)}
<1> HIDE DEF N
<1>6. \A k \in Nat : \A c : (c = NULL \/ k = 0) => Path(<<>>, c, k, N, L, own, rank)
  BY DEF Path
<1>7. 0 \in I
  <2>1. ASSUME NEW c \in L \cup {NULL} PROVE w[0][c] = <<>>
    <3>1. c \in Pointers /\ 0 \in 0 .. C
      BY <1>1, <1>5 DEF Pointers
    <3> QED
      BY <1>4, <3>1
  <2> QED
    BY <1>6, <2>1
<1>8. ASSUME NEW k \in Nat, k \in I PROVE k + 1 \in I
  <2> SUFFICES ASSUME k + 1 <= C, NEW c \in L \cup {NULL} PROVE Path(w[k + 1][c], c, k + 1, N, L, own, rank)
    OBVIOUS
  <2>1. k + 1 \in 0 .. C /\ k + 1 # 0 /\ (k + 1) - 1 = k /\ k <= C /\ c \in Pointers
    BY <1>1, <1>5 DEF Pointers
  <2>2. w[k + 1][c] = IF c = NULL THEN <<>> ELSE <<c>> \o w[k][cell[c].next]
    BY <1>4, <2>1
  <2>3. CASE c = NULL
    BY <1>6, <2>2, <2>3
  <2>4. CASE c # NULL
    <3>1. c \in L /\ N[c] = cell[c].next /\ N[c] \in L \cup {NULL}
      BY <1>5, <2>4
    <3>2. Path(w[k][N[c]], N[c], k, N, L, own, rank)
      BY <1>8, <2>1, <3>1
    <3>3. Heap(N, F, L, n, own, rank, R)
      BY DEF N
    <3>4. Path(<<c>> \o w[k][N[c]], c, k + 1, N, L, own, rank)
      BY <3>1, <3>2, <3>3, PathGrows
    <3> QED
      BY <2>2, <2>4, <3>1, <3>4
  <2> QED
    BY <2>3, <2>4
<1> HIDE DEF I
<1>9. C \in I
  BY <1>1, <1>7, <1>8, UpFromZero
<1>10. Path(w[C][p], p, C, N, L, own, rank)
  BY <1>1, <1>9 DEF I
<1> QED
  BY <1>3, <1>10 DEF N, C

\* The chain of an owner: its cells, each once, from the first to the one that ends it.
Chain(s, o, N, F, L, own) ==
  /\ s \in Seq(L)
  /\ Len(s) = 0 <=> F[o] = NULL
  /\ Len(s) # 0 => s[1] = F[o] /\ N[s[Len(s)]] = NULL
  /\ \A i \in 1 .. Len(s) : own[s[i]] = o
  /\ \A i \in 1 .. Len(s) : i < Len(s) => N[s[i]] = s[i + 1]
  /\ \A i, j \in 1 .. Len(s) : s[i] = s[j] => i = j
  /\ \A c \in L : own[c] = o => \E i \in 1 .. Len(s) : s[i] = c

\* CellsFrom finds the chain of any owner.
LEMMA ChainIs ==
  ASSUME NEW cell, NEW F, NEW L, NEW n, NEW own, NEW rank, NEW R, Heap(Nexts(cell), F, L, n, own, rank, R),
         NEW o \in Owners(n)
  PROVE  Chain(CellsFrom(cell, F[o]), o, Nexts(cell), F, L, own)
<1> DEFINE s == CellsFrom(cell, F[o])
           N == Nexts(cell)
           C == ChunkCells
<1>1. C \in Nat /\ Heap(N, F, L, n, own, rank, R)
  BY HashAssumption
<1>2. F[o] \in L \cup {NULL} /\ (F[o] # NULL => own[F[o]] = o) /\ L \subseteq Cells /\ \A c \in L : rank[c] \in Nat /\ c # NULL
  BY DEF Heap, Cells, NULL
<1>3. Path(s, F[o], C, N, L, own, rank)
  BY <1>2, CellsFromPath
<1> HIDE DEF s, N
<1>4. s \in Seq(L) /\ Len(s) \in Nat /\ (F[o] = NULL => Len(s) = 0) /\ \A i \in 1 .. Len(s) : s[i] \in L
  BY <1>3 DEF Path
<1>5. ASSUME NEW i \in 1 .. Len(s), NEW j \in 1 .. Len(s), s[i] = s[j] PROVE i = j
  <2>1. \A x, y \in 1 .. Len(s) : x < y => rank[s[y]] < rank[s[x]]
    BY <1>3 DEF Path
  <2>2. rank[s[i]] \in Nat
    BY <1>2, <1>4
  <2> QED
    BY <1>4, <1>5, <2>1, <2>2
<1>6. F[o] # NULL => Len(s) # 0 /\ s[1] = F[o]
  <2> SUFFICES ASSUME F[o] # NULL PROVE Len(s) # 0 /\ s[1] = F[o]
    OBVIOUS
  <2>1. F[o] \in Cells
    BY <1>2
  <2>2. C # 0
    BY <2>1 DEF Cells
  <2> QED
    BY <1>3, <2>2 DEF Path
<1>7. Len(s) # 0 => N[s[Len(s)]] = NULL
  <2> SUFFICES ASSUME Len(s) # 0, N[s[Len(s)]] # NULL PROVE FALSE
    OBVIOUS
  <2>1. Len(s) = C /\ s[C] \in L /\ C \in 1 .. C
    BY <1>3, <1>4 DEF Path
  <2> DEFINE e == N[s[C]]
  <2>2. e \in L /\ rank[e] < rank[s[C]]
    BY <1>1, <2>1 DEF Heap
  <2> DEFINE g == [i \in 1 .. C + 1 |-> IF i = C + 1 THEN e ELSE s[i]]
  <2>3. g \in [1 .. C + 1 -> Cells]
    BY <1>1, <1>2, <1>4, <2>1, <2>2
  <2>4. \A i \in 1 .. C : s[i] # e
    <3> TAKE i \in 1 .. C
    <3>1. i = C \/ rank[s[C]] < rank[s[i]]
      BY <1>3, <2>1 DEF Path
    <3>2. rank[e] \in Nat /\ rank[s[i]] \in Nat /\ rank[s[C]] \in Nat
      BY <1>2, <1>4, <2>1, <2>2
    <3> QED
      BY <2>2, <3>1, <3>2
  <2>5. /\ g[C + 1] = e /\ \A i \in 1 .. C : g[i] = s[i]
    BY <1>1
  <2> HIDE DEF g, e
  <2>6. IsFiniteSet(1 .. C + 1) /\ Cardinality(1 .. C + 1) = C + 1 /\ IsFiniteSet(Cells) /\ Cardinality(Cells) = C
    <3>1. C + 1 \in Int /\ C \in Int /\ 1 \in Int /\ ~(1 > C + 1) /\ (C + 1) - 1 + 1 = C + 1
      BY <1>1
    <3>2. IsFiniteSet(1 .. C + 1) /\ Cardinality(1 .. C + 1) = C + 1
      BY <3>1, FS_Interval
    <3>3. IsFiniteSet(1 .. C) /\ Cardinality(1 .. C) = IF 1 > C THEN 0 ELSE C - 1 + 1
      BY <3>1, FS_Interval
    <3> QED
      BY <1>1, <3>2, <3>3 DEF Cells
  <2>7. C < C + 1
    BY <1>1
  <2>8. PICK x \in 1 .. C + 1, y \in 1 .. C + 1 : x # y /\ g[x] = g[y]
    <3> DEFINE S == 1 .. C + 1
    <3>1. g \in [S -> Cells] /\ IsFiniteSet(S) /\ Cardinality(Cells) < Cardinality(S)
      BY <2>3, <2>6, <2>7
    <3> HIDE DEF S
    <3>2. \E x, y \in S : x # y /\ g[x] = g[y]
      BY <2>6, <3>1, FS_PigeonHole
    <3> QED
      BY <3>2 DEF S
  <2>9. \A i \in 1 .. C + 1 : i = C + 1 \/ i \in 1 .. C
    BY <1>1
  <2> QED
    BY <1>5, <2>1, <2>4, <2>5, <2>8, <2>9
<1>8. ASSUME NEW i \in 1 .. Len(s) PROVE own[s[i]] = o
  <2>1. F[o] # NULL
    BY <1>4
  <2> QED
    BY <1>2, <1>3, <2>1 DEF Path
<1> DEFINE S == {s[i] : i \in 1 .. Len(s)}
<1>9. F[o] # NULL => F[o] \in S
  <2>1. F[o] # NULL => 1 \in 1 .. Len(s)
    BY <1>4, <1>6
  <2> QED
    BY <1>6, <2>1
<1>10. ASSUME NEW c \in L, own[c] = o, c \in S, N[c] # NULL PROVE N[c] \in S
  <2>1. PICK i \in 1 .. Len(s) : c = s[i]
    BY <1>10
  <2>2. i < Len(s)
    BY <1>4, <1>7, <1>10, <2>1
  <2>3. i + 1 \in 1 .. Len(s) /\ N[c] = s[i + 1]
    BY <1>3, <1>4, <2>1, <2>2 DEF Path
  <2> QED
    BY <2>3
<1> HIDE DEF S
<1>11. \A c \in L : own[c] = o => c \in S
  BY <1>1, <1>9, <1>10, HeapReach
<1> QED
  BY <1>3, <1>4, <1>5, <1>6, <1>7, <1>8, <1>11 DEF S, s, N, Chain, Path

-----------------------------------------------------------------------------
(* What a table holds, as functions of its cells and buckets.               *)

\* What heads H and cells D hold, K altogether, each where its hash says and once; the cells
\* of P are still to be moved, and hold others.
Content(D, H, F, n, L, P, K, own) ==
  /\ D \in [Cells -> Keys \cup {NULL}] /\ H \in [0 .. n - 1 -> Keys \cup {NULL}]
  /\ L \cap P = {} /\ P \subseteq Cells /\ K \subseteq Keys
  /\ \A b \in 0 .. n - 1 : IF H[b] = NULL THEN F[b] = NULL ELSE H[b] % n = b
  /\ \A c \in L : own[c] # -1 => D[c] # NULL /\ D[c] % n = own[c] /\ D[c] # H[own[c]]
  /\ \A c, d \in L : own[c] # -1 /\ own[d] # -1 /\ D[c] = D[d] => c = d
  /\ \A c, d \in P : D[c] = D[d] => c = d
  /\ \A c \in P : D[c] \in Keys \ K
  /\ \A k \in Keys : k \in K <=> (\E b \in 0 .. n - 1 : H[b] = k) \/ \E c \in L : own[c] # -1 /\ D[c] = k

Whole(N, F, D, H, n, L, P, K, own, rank, R) ==
  /\ Heap(N, F, L, n, own, rank, R)
  /\ Content(D, H, F, n, L, P, K, own)
  /\ n # 0

\* The types of the parts.
LEMMA WholeHas ==
  ASSUME NEW N, NEW F, NEW D, NEW H, NEW n, NEW L, NEW P, NEW K, NEW own, NEW rank, NEW R,
         Whole(N, F, D, H, n, L, P, K, own, rank, R)
  PROVE  /\ n \in Nat /\ n # 0 /\ L \subseteq Cells /\ own \in [Cells -> Owners(n)] /\ F \in [Owners(n) -> Cells \cup {NULL}]
         /\ N \in [Cells -> Cells \cup {NULL}] /\ rank \in [Cells -> 0 .. R] /\ R \in Nat
         /\ -1 \in Owners(n) /\ 0 .. n - 1 \subseteq Owners(n) /\ -1 \notin 0 .. n - 1 /\ NULL \notin Cells /\ NULL \notin Keys
         /\ \A o \in Owners(n) : o = -1 \/ o \in 0 .. n - 1
         /\ D \in [Cells -> Keys \cup {NULL}] /\ H \in [0 .. n - 1 -> Keys \cup {NULL}]
         /\ L \cap P = {} /\ P \subseteq Cells /\ K \subseteq Keys
         /\ \A o \in Owners(n) : F[o] # NULL => F[o] \in L /\ own[F[o]] = o
         /\ \A k \in Keys : k % n \in 0 .. n - 1
<1>1. /\ n \in Nat /\ n # 0 /\ L \subseteq Cells /\ own \in [Cells -> Owners(n)] /\ F \in [Owners(n) -> Cells \cup {NULL}]
      /\ N \in [Cells -> Cells \cup {NULL}] /\ rank \in [Cells -> 0 .. R] /\ R \in Nat
      /\ \A o \in Owners(n) : F[o] # NULL => F[o] \in L /\ own[F[o]] = o
  BY DEF Whole, Heap
<1>2. /\ D \in [Cells -> Keys \cup {NULL}] /\ H \in [0 .. n - 1 -> Keys \cup {NULL}]
      /\ L \cap P = {} /\ P \subseteq Cells /\ K \subseteq Keys
  BY DEF Whole, Content
<1>3. /\ -1 \in Owners(n) /\ 0 .. n - 1 \subseteq Owners(n) /\ -1 \notin 0 .. n - 1
      /\ \A o \in Owners(n) : o = -1 \/ o \in 0 .. n - 1
  BY <1>1 DEF Owners
<1>4. NULL \notin Cells /\ NULL \notin Keys /\ Keys \subseteq Nat
  BY HashAssumption DEF Cells, NULL
<1>5. \A k \in Nat : k % n \in 0 .. n - 1
  BY <1>1
<1> QED
  BY <1>1, <1>2, <1>3, <1>4, <1>5

\* A cell in hand is linked in front of the chain of a bucket.
LEMMA WholeLink ==
  ASSUME NEW N, NEW F, NEW D, NEW H, NEW n, NEW L, NEW P, NEW K, NEW own, NEW rank, NEW R,
         Whole(N, F, D, H, n, L, P, K, own, rank, R),
         NEW c \in Cells, c \notin L, c \notin P, NEW b \in 0 .. n - 1, H[b] # NULL,
         D[c] \in Keys, D[c] \notin K, D[c] % n = b, \A d \in P : D[d] # D[c]
  PROVE  Whole([N EXCEPT ![c] = F[b]], [F EXCEPT ![b] = c], D, H, n, L \cup {c}, P, K \cup {D[c]},
               [own EXCEPT ![c] = b], [rank EXCEPT ![c] = R + 1], R + 1)
<1> DEFINE w == [own EXCEPT ![c] = b]
           G == [F EXCEPT ![b] = c]
           M == L \cup {c}
           J == K \cup {D[c]}
<1>1. /\ n \in Nat /\ n # 0 /\ L \subseteq Cells /\ own \in [Cells -> Owners(n)] /\ F \in [Owners(n) -> Cells \cup {NULL}]
      /\ b \in Owners(n) /\ b # -1 /\ D \in [Cells -> Keys \cup {NULL}] /\ H \in [0 .. n - 1 -> Keys \cup {NULL}]
      /\ L \cap P = {} /\ P \subseteq Cells /\ K \subseteq Keys /\ NULL \notin Keys /\ 0 .. n - 1 \subseteq Owners(n)
  BY WholeHas
<1>2. Heap([N EXCEPT ![c] = F[b]], G, M, n, w, [rank EXCEPT ![c] = R + 1], R + 1)
  BY <1>1, HeapPush DEF Whole
<1>3. w[c] = b /\ \A d \in L : w[d] = own[d]
  BY <1>1
<1>4. \A q \in 0 .. n - 1 : q # b => G[q] = F[q]
  BY <1>1
<1> HIDE DEF w, G
<1>5. Content(D, H, F, n, L, P, K, own)
  BY DEF Whole
<1>6. \A q \in 0 .. n - 1 : IF H[q] = NULL THEN G[q] = NULL ELSE H[q] % n = q
  <2>1. \A q \in 0 .. n - 1 : IF H[q] = NULL THEN F[q] = NULL ELSE H[q] % n = q
    BY <1>5 DEF Content
  <2> QED
    BY <1>4, <2>1
<1>7. \A k \in Keys : k \in K <=> (\E q \in 0 .. n - 1 : H[q] = k) \/ \E d \in L : own[d] # -1 /\ D[d] = k
  BY <1>5 DEF Content
<1>8. D[c] # NULL /\ D[c] # H[b]
  BY <1>1, <1>7
<1>9. \A d \in M : w[d] # -1 => D[d] # NULL /\ D[d] % n = w[d] /\ D[d] # H[w[d]]
  <2>1. \A d \in L : own[d] # -1 => D[d] # NULL /\ D[d] % n = own[d] /\ D[d] # H[own[d]]
    BY <1>5 DEF Content
  <2> QED
    BY <1>3, <1>8, <2>1
<1>10. \A d, e \in M : w[d] # -1 /\ w[e] # -1 /\ D[d] = D[e] => d = e
  <2>1. \A d, e \in L : own[d] # -1 /\ own[e] # -1 /\ D[d] = D[e] => d = e
    BY <1>5 DEF Content
  <2>2. \A d \in L : own[d] # -1 => D[d] # D[c]
    BY <1>7
  <2> QED
    BY <1>3, <2>1, <2>2
<1>11. \A d \in P : D[d] \in Keys \ J
  BY <1>5 DEF Content
<1>12. \A k \in Keys : k \in J <=> (\E q \in 0 .. n - 1 : H[q] = k) \/ \E d \in M : w[d] # -1 /\ D[d] = k
  <2> TAKE k \in Keys
  <2>1. ASSUME k \in J PROVE (\E q \in 0 .. n - 1 : H[q] = k) \/ \E d \in M : w[d] # -1 /\ D[d] = k
    <3>1. CASE k = D[c]
      BY <1>1, <1>3, <3>1
    <3>2. CASE k \in K
      BY <1>3, <1>7, <3>2
    <3> QED
      BY <2>1, <3>1, <3>2
  <2>2. ASSUME NEW d \in M, w[d] # -1, D[d] = k PROVE k \in J
    BY <1>3, <1>7, <2>2
  <2>3. ASSUME NEW q \in 0 .. n - 1, H[q] = k PROVE k \in J
    BY <1>7, <2>3
  <2> QED
    BY <2>1, <2>2, <2>3
<1>13. /\ M \cap P = {} /\ J \subseteq Keys /\ \A d, e \in P : D[d] = D[e] => d = e
  BY <1>1, <1>5 DEF Content
<1>14. Content(D, H, G, n, M, P, J, w)
  BY <1>1, <1>6, <1>9, <1>10, <1>11, <1>12, <1>13 DEF Content
<1> QED
  BY <1>1, <1>2, <1>14 DEF Whole, w, G

\* A cell in hand is freed.
LEMMA WholeFree ==
  ASSUME NEW N, NEW F, NEW D, NEW H, NEW n, NEW L, NEW P, NEW K, NEW own, NEW rank, NEW R,
         Whole(N, F, D, H, n, L, P, K, own, rank, R),
         NEW c \in Cells, c \notin L, c \notin P
  PROVE  Whole([N EXCEPT ![c] = F[-1]], [F EXCEPT ![-1] = c], [D EXCEPT ![c] = NULL], H, n, L \cup {c}, P, K,
               [own EXCEPT ![c] = -1], [rank EXCEPT ![c] = R + 1], R + 1)
<1> DEFINE w == [own EXCEPT ![c] = -1]
           G == [F EXCEPT ![-1] = c]
           E == [D EXCEPT ![c] = NULL]
           M == L \cup {c}
<1>1. /\ n \in Nat /\ n # 0 /\ L \subseteq Cells /\ own \in [Cells -> Owners(n)] /\ F \in [Owners(n) -> Cells \cup {NULL}]
      /\ -1 \in Owners(n) /\ D \in [Cells -> Keys \cup {NULL}] /\ H \in [0 .. n - 1 -> Keys \cup {NULL}]
      /\ L \cap P = {} /\ P \subseteq Cells /\ K \subseteq Keys /\ -1 \notin 0 .. n - 1 /\ 0 .. n - 1 \subseteq Owners(n)
  BY WholeHas
<1>2. Heap([N EXCEPT ![c] = F[-1]], G, M, n, w, [rank EXCEPT ![c] = R + 1], R + 1)
  BY <1>1, HeapPush DEF Whole
<1>3. w[c] = -1 /\ \A d \in L : w[d] = own[d] /\ E[d] = D[d]
  BY <1>1
<1>4. \A q \in 0 .. n - 1 : G[q] = F[q]
  BY <1>1
<1>4a. E \in [Cells -> Keys \cup {NULL}] /\ \A d \in P : E[d] = D[d]
  BY <1>1
<1> HIDE DEF w, G, E
<1>5. Content(D, H, F, n, L, P, K, own)
  BY DEF Whole
<1>6. \A q \in 0 .. n - 1 : IF H[q] = NULL THEN G[q] = NULL ELSE H[q] % n = q
  BY <1>4, <1>5 DEF Content
<1>7. \A k \in Keys : k \in K <=> (\E q \in 0 .. n - 1 : H[q] = k) \/ \E d \in L : own[d] # -1 /\ D[d] = k
  BY <1>5 DEF Content
<1>9. \A d \in M : w[d] # -1 => E[d] # NULL /\ E[d] % n = w[d] /\ E[d] # H[w[d]]
  <2>1. \A d \in L : own[d] # -1 => D[d] # NULL /\ D[d] % n = own[d] /\ D[d] # H[own[d]]
    BY <1>5 DEF Content
  <2> QED
    BY <1>3, <2>1
<1>10. \A d, e \in M : w[d] # -1 /\ w[e] # -1 /\ E[d] = E[e] => d = e
  <2>1. \A d, e \in L : own[d] # -1 /\ own[e] # -1 /\ D[d] = D[e] => d = e
    BY <1>5 DEF Content
  <2> QED
    BY <1>3, <2>1
<1>11. /\ \A d \in P : E[d] \in Keys \ K
       /\ \A d, e \in P : E[d] = E[e] => d = e
  <2>1. /\ \A d \in P : D[d] \in Keys \ K
        /\ \A d, e \in P : D[d] = D[e] => d = e
    BY <1>5 DEF Content
  <2> QED
    BY <1>4a, <2>1
<1>12. \A k \in Keys : k \in K <=> (\E q \in 0 .. n - 1 : H[q] = k) \/ \E d \in M : w[d] # -1 /\ E[d] = k
  <2> TAKE k \in Keys
  <2>1. (\E d \in M : w[d] # -1 /\ E[d] = k) <=> \E d \in L : own[d] # -1 /\ D[d] = k
    BY <1>3
  <2> QED
    BY <1>7, <2>1
<1>13. M \cap P = {}
  BY <1>1
<1>14. Content(E, H, G, n, M, P, K, w)
  BY <1>1, <1>4a, <1>6, <1>9, <1>10, <1>11, <1>12, <1>13 DEF Content
<1> QED
  BY <1>1, <1>2, <1>14 DEF Whole, w, G, E

\* A free cell is taken.
LEMMA WholeTake ==
  ASSUME NEW N, NEW F, NEW D, NEW H, NEW n, NEW L, NEW P, NEW K, NEW own, NEW rank, NEW R,
         Whole(N, F, D, H, n, L, P, K, own, rank, R), F[-1] # NULL
  PROVE  /\ Whole(N, [F EXCEPT ![-1] = N[F[-1]]], D, H, n, L \ {F[-1]}, P, K, own, rank, R)
         /\ F[-1] \in L
<1> DEFINE c == F[-1]
           G == [F EXCEPT ![-1] = N[c]]
           M == L \ {c}
<1>1. /\ n \in Nat /\ n # 0 /\ L \subseteq Cells /\ own \in [Cells -> Owners(n)] /\ F \in [Owners(n) -> Cells \cup {NULL}]
      /\ -1 \in Owners(n) /\ D \in [Cells -> Keys \cup {NULL}] /\ H \in [0 .. n - 1 -> Keys \cup {NULL}]
      /\ L \cap P = {} /\ P \subseteq Cells /\ K \subseteq Keys /\ -1 \notin 0 .. n - 1 /\ 0 .. n - 1 \subseteq Owners(n)
      /\ c \in L /\ own[c] = -1
  BY WholeHas
<1>2. Heap(N, G, M, n, own, rank, R)
  BY <1>1, HeapPop DEF Whole
<1>4. \A q \in 0 .. n - 1 : G[q] = F[q]
  BY <1>1
<1> HIDE DEF c, G
<1>5. Content(D, H, F, n, L, P, K, own)
  BY DEF Whole
<1>6. \A q \in 0 .. n - 1 : IF H[q] = NULL THEN G[q] = NULL ELSE H[q] % n = q
  BY <1>4, <1>5 DEF Content
<1>12. \A k \in Keys : k \in K <=> (\E q \in 0 .. n - 1 : H[q] = k) \/ \E d \in M : own[d] # -1 /\ D[d] = k
  <2> TAKE k \in Keys
  <2>1. (\E d \in M : own[d] # -1 /\ D[d] = k) <=> \E d \in L : own[d] # -1 /\ D[d] = k
    BY <1>1
  <2> QED
    BY <1>5, <2>1 DEF Content
<1>14. Content(D, H, G, n, M, P, K, own)
  BY <1>1, <1>5, <1>6, <1>12 DEF Content
<1> QED
  BY <1>1, <1>2, <1>14 DEF Whole, c, G

\* A cell of a bucket's chain is taken out, the first one or a later one.
LEMMA ContentLess ==
  ASSUME NEW N, NEW F, NEW D, NEW H, NEW n, NEW L, NEW P, NEW K, NEW own, NEW rank, NEW R,
         Whole(N, F, D, H, n, L, P, K, own, rank, R), NEW c \in L, own[c] # -1,
         NEW G, \A b \in 0 .. n - 1 : F[b] = NULL => G[b] = NULL
  PROVE  Content(D, H, G, n, L \ {c}, P, K \ {D[c]}, own)
<1> DEFINE M == L \ {c}
           J == K \ {D[c]}
<1>1. /\ n \in Nat /\ n # 0 /\ L \subseteq Cells /\ own \in [Cells -> Owners(n)]
      /\ D \in [Cells -> Keys \cup {NULL}] /\ H \in [0 .. n - 1 -> Keys \cup {NULL}]
      /\ L \cap P = {} /\ P \subseteq Cells /\ K \subseteq Keys /\ 0 .. n - 1 \subseteq Owners(n)
      /\ \A o \in Owners(n) : o = -1 \/ o \in 0 .. n - 1
  BY WholeHas
<1>5. Content(D, H, F, n, L, P, K, own)
  BY DEF Whole
<1>6. \A q \in 0 .. n - 1 : IF H[q] = NULL THEN G[q] = NULL ELSE H[q] % n = q
  BY <1>5 DEF Content
<1>7. own[c] \in 0 .. n - 1 /\ D[c] # NULL /\ D[c] % n = own[c] /\ D[c] # H[own[c]]
  BY <1>1, <1>5 DEF Content
<1>8. \A q \in 0 .. n - 1 : H[q] # D[c]
  BY <1>6, <1>7
<1>9. \A d \in M : own[d] # -1 => D[d] # D[c]
  BY <1>5 DEF Content
<1>12. \A k \in Keys : k \in J <=> (\E q \in 0 .. n - 1 : H[q] = k) \/ \E d \in M : own[d] # -1 /\ D[d] = k
  <2> TAKE k \in Keys
  <2>1. k \in K <=> (\E q \in 0 .. n - 1 : H[q] = k) \/ \E d \in L : own[d] # -1 /\ D[d] = k
    BY <1>5 DEF Content
  <2>2. CASE k = D[c]
    BY <1>8, <1>9, <2>2
  <2>3. CASE k # D[c]
    BY <2>1, <2>3
  <2> QED
    BY <2>2, <2>3
<1>13. \A d \in P : D[d] \in Keys \ J
  BY <1>5 DEF Content
<1> QED
  BY <1>1, <1>5, <1>6, <1>12, <1>13 DEF Content

\* A cell of a bucket is taken out of its chain, at the front or further on.
LEMMA WholeUnlink ==
  ASSUME NEW N, NEW F, NEW D, NEW H, NEW n, NEW L, NEW P, NEW K, NEW own, NEW rank, NEW R,
         Whole(N, F, D, H, n, L, P, K, own, rank, R)
  PROVE  /\ \A b \in 0 .. n - 1 : F[b] # NULL =>
              Whole(N, [F EXCEPT ![b] = N[F[b]]], D, H, n, L \ {F[b]}, P, K \ {D[F[b]]}, own, rank, R)
         /\ \A c \in L : N[c] # NULL /\ own[c] # -1 =>
              Whole([N EXCEPT ![c] = N[N[c]]], F, D, H, n, L \ {N[c]}, P, K \ {D[N[c]]}, own, rank, R)
<1>1. /\ n # 0 /\ -1 \notin 0 .. n - 1 /\ 0 .. n - 1 \subseteq Owners(n) /\ F \in [Owners(n) -> Cells \cup {NULL}]
      /\ \A o \in Owners(n) : F[o] # NULL => F[o] \in L /\ own[F[o]] = o
  BY WholeHas
<1>2. Heap(N, F, L, n, own, rank, R)
  BY DEF Whole
<1>3. ASSUME NEW b \in 0 .. n - 1, F[b] # NULL
      PROVE  Whole(N, [F EXCEPT ![b] = N[F[b]]], D, H, n, L \ {F[b]}, P, K \ {D[F[b]]}, own, rank, R)
  <2> DEFINE G == [F EXCEPT ![b] = N[F[b]]]
  <2>1. b \in Owners(n) /\ F[b] \in L /\ own[F[b]] # -1
    BY <1>1, <1>3
  <2>2. Heap(N, G, L \ {F[b]}, n, own, rank, R)
    BY <1>2, <1>3, <2>1, HeapPop
  <2>3. \A q \in 0 .. n - 1 : F[q] = NULL => G[q] = NULL
    BY <1>1, <1>3
  <2> HIDE DEF G
  <2>4. Content(D, H, G, n, L \ {F[b]}, P, K \ {D[F[b]]}, own)
    BY <2>1, <2>3, ContentLess, ZenonT(60)
  <2> QED
    BY <1>1, <2>2, <2>4 DEF Whole, G
<1>4. ASSUME NEW c \in L, N[c] # NULL, own[c] # -1
      PROVE  Whole([N EXCEPT ![c] = N[N[c]]], F, D, H, n, L \ {N[c]}, P, K \ {D[N[c]]}, own, rank, R)
  <2>1. N[c] \in L /\ own[N[c]] = own[c]
    BY <1>2, <1>4 DEF Heap
  <2>2. Heap([N EXCEPT ![c] = N[N[c]]], F, L \ {N[c]}, n, own, rank, R)
    BY <1>2, <1>4, HeapCut
  <2>3. Content(D, H, F, n, L \ {N[c]}, P, K \ {D[N[c]]}, own)
    BY <1>4, <2>1, ContentLess
  <2> QED
    BY <1>1, <2>2, <2>3 DEF Whole
<1> QED
  BY <1>3, <1>4

\* A head gets another entry, or none if nothing follows.
LEMMA WholeHead ==
  ASSUME NEW N, NEW F, NEW D, NEW H, NEW n, NEW L, NEW P, NEW K, NEW own, NEW rank, NEW R,
         Whole(N, F, D, H, n, L, P, K, own, rank, R), NEW b \in 0 .. n - 1, NEW k \in Keys \cup {NULL},
         k = NULL => F[b] = NULL,
         k # NULL => k \notin K /\ k % n = b /\ \A d \in P : D[d] # k
  PROVE  Whole(N, F, D, [H EXCEPT ![b] = k], n, L, P, (K \ {H[b]}) \cup ({k} \ {NULL}), own, rank, R)
<1> DEFINE I == [H EXCEPT ![b] = k]
           J == (K \ {H[b]}) \cup ({k} \ {NULL})
<1>1. /\ n \in Nat /\ n # 0 /\ L \subseteq Cells /\ own \in [Cells -> Owners(n)]
      /\ D \in [Cells -> Keys \cup {NULL}] /\ H \in [0 .. n - 1 -> Keys \cup {NULL}]
      /\ L \cap P = {} /\ P \subseteq Cells /\ K \subseteq Keys /\ 0 .. n - 1 \subseteq Owners(n) /\ NULL \notin Keys
      /\ \A o \in Owners(n) : o = -1 \/ o \in 0 .. n - 1
  BY WholeHas
<1>2. /\ I \in [0 .. n - 1 -> Keys \cup {NULL}] /\ I[b] = k /\ \A q \in 0 .. n - 1 : q # b => I[q] = H[q]
  BY <1>1
<1> HIDE DEF I
<1>5. Content(D, H, F, n, L, P, K, own)
  BY DEF Whole
<1>6. \A q \in 0 .. n - 1 : IF H[q] = NULL THEN F[q] = NULL ELSE H[q] % n = q
  BY <1>5 DEF Content
<1>7. \A q \in 0 .. n - 1 : IF I[q] = NULL THEN F[q] = NULL ELSE I[q] % n = q
  BY <1>2, <1>6
<1>8. \A x \in Keys : x \in K <=> (\E q \in 0 .. n - 1 : H[q] = x) \/ \E d \in L : own[d] # -1 /\ D[d] = x
  BY <1>5 DEF Content
<1>9. \A d \in L : own[d] # -1 => D[d] # NULL /\ D[d] % n = own[d] /\ D[d] # H[own[d]] /\ own[d] \in 0 .. n - 1 /\ D[d] \in Keys
  BY <1>1, <1>5 DEF Content
<1>10. \A d \in L : own[d] # -1 => D[d] # k /\ D[d] # H[b]
  <2> TAKE d \in L
  <2>1. own[d] # -1 => D[d] # k
    BY <1>8, <1>9
  <2>2. own[d] # -1 => D[d] # H[b]
    BY <1>6, <1>9
  <2> QED
    BY <2>1, <2>2
<1>11. \A d \in L : own[d] # -1 => D[d] # NULL /\ D[d] % n = own[d] /\ D[d] # I[own[d]]
  BY <1>2, <1>9, <1>10
<1>12. \A x \in Keys : x \in J <=> (\E q \in 0 .. n - 1 : I[q] = x) \/ \E d \in L : own[d] # -1 /\ D[d] = x
  <2> TAKE x \in Keys
  <2>1. CASE x = k
    BY <1>1, <1>2, <2>1
  <2>2. CASE x # k
    <3>1. x \in J <=> x \in K /\ x # H[b]
      BY <2>2
    <3>2. CASE x = H[b]
      <4>1. \A q \in 0 .. n - 1 : I[q] # x
        <5> TAKE q \in 0 .. n - 1
        <5>1. q = b => I[q] # x
          BY <1>2, <2>2
        <5>2. q # b => I[q] = H[q] /\ H[q] # H[b]
          BY <1>1, <1>2, <1>6, <3>2
        <5> QED
          BY <3>2, <5>1, <5>2
      <4> QED
        BY <1>10, <3>1, <3>2, <4>1
    <3>3. CASE x # H[b]
      <4>1. (\E q \in 0 .. n - 1 : H[q] = x) <=> \E q \in 0 .. n - 1 : I[q] = x
        BY <1>2, <2>2, <3>3
      <4> QED
        BY <1>8, <3>1, <3>3, <4>1
    <3> QED
      BY <3>2, <3>3
  <2> QED
    BY <2>1, <2>2
<1>13. J \subseteq Keys /\ (\A d \in P : D[d] \in Keys \ J)
  <2>1. \A d \in P : D[d] \in Keys \ K
    BY <1>5 DEF Content
  <2> QED
    BY <1>1, <2>1
<1>14. Content(D, I, F, n, L, P, J, own)
  BY <1>1, <1>2, <1>5, <1>7, <1>11, <1>12, <1>13 DEF Content
<1> QED
  BY <1>1, <1>14 DEF Whole, I

\* A cell in hand gets an entry; a cell to be moved is taken in hand.
LEMMA WholeData ==
  ASSUME NEW N, NEW F, NEW D, NEW H, NEW n, NEW L, NEW P, NEW K, NEW own, NEW rank, NEW R,
         Whole(N, F, D, H, n, L, P, K, own, rank, R)
  PROVE  /\ \A c \in Cells, k \in Keys : c \notin L /\ c \notin P =>
              Whole(N, F, [D EXCEPT ![c] = k], H, n, L, P, K, own, rank, R)
         /\ \A c \in P : Whole(N, F, D, H, n, L, P \ {c}, K, own, rank, R)
<1>1. /\ L \subseteq Cells /\ P \subseteq Cells /\ D \in [Cells -> Keys \cup {NULL}]
  BY WholeHas
<1>2. Content(D, H, F, n, L, P, K, own)
  BY DEF Whole
<1>3. ASSUME NEW c \in Cells, NEW k \in Keys, c \notin L, c \notin P
      PROVE  Whole(N, F, [D EXCEPT ![c] = k], H, n, L, P, K, own, rank, R)
  <2> DEFINE E == [D EXCEPT ![c] = k]
  <2>1. /\ E \in [Cells -> Keys \cup {NULL}]
        /\ \A d \in L : E[d] = D[d]
        /\ \A d \in P : E[d] = D[d]
    BY <1>1, <1>3
  <2> HIDE DEF E
  <2>2. \A x \in Keys : (\E d \in L : own[d] # -1 /\ E[d] = x) <=> \E d \in L : own[d] # -1 /\ D[d] = x
    BY <2>1
  <2>3. Content(E, H, F, n, L, P, K, own)
    BY <1>2, <2>1, <2>2 DEF Content
  <2> QED
    BY <2>3 DEF Whole, E
<1>4. ASSUME NEW c \in P PROVE Whole(N, F, D, H, n, L, P \ {c}, K, own, rank, R)
  <2>1. Content(D, H, F, n, L, P \ {c}, K, own)
    BY <1>2 DEF Content
  <2> QED
    BY <2>1 DEF Whole
<1> QED
  BY <1>3, <1>4

\* An owner whose chain is empty has no cell.
LEMMA WholeEmpty ==
  ASSUME NEW N, NEW F, NEW D, NEW H, NEW n, NEW L, NEW P, NEW K, NEW own, NEW rank, NEW R,
         Whole(N, F, D, H, n, L, P, K, own, rank, R), NEW o \in Owners(n), F[o] = NULL
  PROVE  \A c \in L : own[c] # o
<1>1. Heap(N, F, L, n, own, rank, R)
  BY DEF Whole
<1> DEFINE S == {}
<1>2. (F[o] # NULL => F[o] \in S) /\ \A c \in L : own[c] = o /\ c \in S /\ N[c] # NULL => N[c] \in S
  OBVIOUS
<1> HIDE DEF S
<1>3. \A c \in L : own[c] = o => c \in S
  BY <1>1, <1>2, HeapReach
<1> QED
  BY <1>3 DEF S

\* When no cell is free, each holds a key of its own, and there is a cell for another.
LEMMA Room ==
  ASSUME NEW N, NEW F, NEW D, NEW H, NEW n, NEW L, NEW P, NEW K, NEW own, NEW rank, NEW R,
         Whole(N, F, D, H, n, L, P, K, own, rank, R), F[-1] = NULL,
         NEW top \in Nat \ {0}, L \cup P = 1 .. top - 1, NEW k \in Keys \ K, \A d \in P : D[d] # k
  PROVE  top <= ChunkCells
<1> DEFINE A == 1 .. top - 1
           B == Keys \ {k}
           f == [c \in A |-> D[c]]
<1>1. /\ -1 \in Owners(n) /\ \A c \in L : own[c] # -1
  BY WholeHas, WholeEmpty
<1>2. Content(D, H, F, n, L, P, K, own)
  BY DEF Whole
<1>3. K \subseteq Keys /\ L \subseteq Cells /\ D \in [Cells -> Keys \cup {NULL}]
  BY WholeHas
<1>4. \A c \in L : D[c] \in K
  BY <1>1, <1>2, <1>3 DEF Content
<1>5. \A c \in P : D[c] \in Keys \ K
  BY <1>2 DEF Content
<1>6. f \in [A -> B]
  <2>1. \A c \in A : D[c] \in B
    BY <1>3, <1>4, <1>5
  <2> HIDE DEF A, B
  <2> QED
    BY <2>1
<1>7. \A c, d \in A : f[c] = f[d] => c = d
  <2>1. /\ \A c, d \in L : D[c] = D[d] => c = d
        /\ \A c, d \in P : D[c] = D[d] => c = d
    BY <1>1, <1>2 DEF Content
  <2>2. \A c \in L, d \in P : D[c] # D[d]
    BY <1>4, <1>5
  <2>3. \A c \in A : (c \in L \/ c \in P) /\ f[c] = D[c]
    OBVIOUS
  <2> HIDE DEF f, A
  <2> TAKE c, d \in A
  <2>4. CASE c \in L /\ d \in L
    BY <2>1, <2>3, <2>4
  <2>5. CASE c \in P /\ d \in P
    BY <2>1, <2>3, <2>5
  <2>6. CASE c \in L /\ d \in P
    BY <2>2, <2>3, <2>6
  <2>7. CASE c \in P /\ d \in L
    BY <2>2, <2>3, <2>7
  <2> QED
    BY <2>3, <2>4, <2>5, <2>6, <2>7
<1>8. IsFiniteSet(Keys) /\ Cardinality(Keys) <= ChunkCells /\ ChunkCells \in Nat /\ Cardinality(Keys) \in Nat
  BY HashAssumption, FS_CardinalityType
<1>9. IsFiniteSet(B) /\ Cardinality(B) = Cardinality(Keys) - 1
  BY <1>8, FS_RemoveElement
<1>10. f \in Injection(A, B)
  <2> HIDE DEF f, A, B
  <2> QED
    BY <1>6, <1>7 DEF Injection, IsInjective
<1>11. Cardinality(A) <= Cardinality(B)
  <2> HIDE DEF f, A, B
  <2> QED
    BY <1>9, <1>10, FS_Injection
<1>12. Cardinality(A) = top - 1
  <2>1. 1 \in Int /\ top - 1 \in Int /\ (IF 1 > top - 1 THEN 0 ELSE (top - 1) - 1 + 1) = top - 1
    OBVIOUS
  <2> QED
    BY <2>1, FS_Interval
<1> QED
  BY <1>8, <1>9, <1>11, <1>12

\* A new table of another size: the free cells stay, all others are to be moved.
LEMMA WholeRestart ==
  ASSUME NEW N, NEW F, NEW D, NEW H, NEW n, NEW L, NEW K, NEW own, NEW rank, NEW R,
         Whole(N, F, D, H, n, L, {}, K, own, rank, R), NEW size \in Nat \ {0}
  PROVE  Whole(N, [o \in Owners(size) |-> IF o = -1 THEN F[-1] ELSE NULL], D, [b \in 0 .. size - 1 |-> NULL], size,
               {c \in L : own[c] = -1}, {c \in L : own[c] # -1}, {}, [c \in Cells |-> -1], rank, R)
<1> DEFINE G == [o \in Owners(size) |-> IF o = -1 THEN F[-1] ELSE NULL]
           I == [b \in 0 .. size - 1 |-> NULL]
           M == {c \in L : own[c] = -1}
           P == {c \in L : own[c] # -1}
           w == [c \in Cells |-> -1]
<1>1. /\ n \in Nat /\ L \subseteq Cells /\ R \in Nat
      /\ N \in [Cells -> Cells \cup {NULL}] /\ F \in [Owners(n) -> Cells \cup {NULL}]
      /\ own \in [Cells -> Owners(n)] /\ rank \in [Cells -> 0 .. R]
      /\ \A o \in Owners(n) : F[o] # NULL => F[o] \in L /\ own[F[o]] = o
      /\ -1 \in Owners(n) /\ NULL \notin Cells /\ D \in [Cells -> Keys \cup {NULL}] /\ NULL \notin Keys
  BY WholeHas
<1>2. Content(D, H, F, n, L, {}, K, own) /\ Heap(N, F, L, n, own, rank, R)
  BY DEF Whole
<1>3. -1 \in Owners(size) /\ 0 .. size - 1 \subseteq Owners(size) /\ \A b \in 0 .. size - 1 : b # -1
  BY DEF Owners
<1>4. /\ G \in [Owners(size) -> Cells \cup {NULL}] /\ G[-1] = F[-1] /\ \A o \in Owners(size) : o # -1 => G[o] = NULL
      /\ w \in [Cells -> Owners(size)] /\ \A c \in Cells : w[c] = -1
      /\ I \in [0 .. size - 1 -> Keys \cup {NULL}] /\ \A b \in 0 .. size - 1 : I[b] = NULL
      /\ M \subseteq L /\ P \subseteq L /\ M \cap P = {} /\ \A c \in L : (c \in M <=> own[c] = -1) /\ (c \in P <=> own[c] # -1)
  BY <1>1, <1>3
<1> HIDE DEF G, I, M, P, w
<1>5. \A o \in Owners(size) : G[o] # NULL => G[o] \in M /\ w[G[o]] = o
  BY <1>1, <1>4
<1>6. \A c \in M : N[c] # NULL => N[c] \in M /\ w[N[c]] = w[c] /\ rank[N[c]] < rank[c] /\ N[c] # G[w[c]]
  <2> TAKE c \in M
  <2>1. N[c] # NULL => N[c] \in L /\ own[N[c]] = own[c] /\ rank[N[c]] < rank[c] /\ N[c] # F[own[c]]
    BY <1>2, <1>4 DEF Heap
  <2> QED
    BY <1>1, <1>4, <2>1
<1>7. \A c, d \in M : N[c] = N[d] => N[c] = NULL \/ c = d
  BY <1>2, <1>4 DEF Heap
<1>8. \A c \in M : c = G[w[c]] \/ \E d \in M : N[d] = c
  <2> TAKE c \in M
  <2>1. c \in L /\ own[c] = -1 /\ c # NULL /\ w[c] = -1
    BY <1>1, <1>4
  <2>2. CASE c = F[-1]
    BY <1>4, <2>1, <2>2
  <2>3. CASE c # F[-1]
    <3>1. PICK d \in L : N[d] = c
      BY <1>2, <2>1, <2>3 DEF Heap
    <3>2. own[d] = -1
      BY <1>2, <2>1, <3>1 DEF Heap
    <3> QED
      BY <1>4, <3>1, <3>2
  <2> QED
    BY <2>2, <2>3
<1>9. M \subseteq Cells /\ P \subseteq Cells
  BY <1>1, <1>4
<1>10. Heap(N, G, M, size, w, rank, R)
  BY <1>1, <1>4, <1>5, <1>6, <1>7, <1>8, <1>9 DEF Heap
<1>11. \A c \in P : D[c] \in Keys \ {}
  BY <1>1, <1>2, <1>4 DEF Content
<1>12. \A c, d \in P : D[c] = D[d] => c = d
  BY <1>2, <1>4 DEF Content
<1>13. \A b \in 0 .. size - 1 : IF I[b] = NULL THEN G[b] = NULL ELSE I[b] % size = b
  BY <1>3, <1>4
<1>14. \A k \in Keys : k \in {} <=> (\E b \in 0 .. size - 1 : I[b] = k) \/ \E c \in M : w[c] # -1 /\ D[c] = k
  BY <1>1, <1>4, <1>9
<1>15. \A c \in M : w[c] = -1
  BY <1>4, <1>9
<1>16. Content(D, I, G, size, M, P, {}, w)
  BY <1>1, <1>4, <1>9, <1>11, <1>12, <1>13, <1>14, <1>15 DEF Content
<1> QED
  BY <1>10, <1>16 DEF Whole, G, I, M, P, w

-----------------------------------------------------------------------------
\* The table as functions of its cells and buckets.
Datas(cell) == [c \in Cells |-> cell[c].data]
Heads(bucket, n) == [b \in 0 .. n - 1 |-> bucket[b].data]
Firsts(bucket, n, free) == [o \in Owners(n) |-> IF o = -1 THEN free ELSE bucket[o].next]

EntryOf(k, p) == [data |-> k, next |-> p]

\* An entry is its two fields.
LEMMA EntryIs ==
  /\ \A e \in Entry : e = EntryOf(e.data, e.next) /\ e.data \in Keys \cup {NULL} /\ e.next \in Pointers
  /\ \A k \in Keys \cup {NULL}, p \in Pointers : EntryOf(k, p) \in Entry
  /\ \A k, p : EntryOf(k, p).data = k /\ EntryOf(k, p).next = p
BY DEF Entry, EntryOf, Pointers

Upd(f, x, e) == [f EXCEPT ![x] = e]

\* An update changes one value.
LEMMA UpdIs ==
  ASSUME NEW f, NEW x \in DOMAIN f, NEW e
  PROVE  Upd(f, x, e)[x] = e /\ \A y \in DOMAIN f : y # x => Upd(f, x, e)[y] = f[y]
BY DEF Upd

\* An update with the value that is there changes nothing.
LEMMA UpdSame ==
  ASSUME NEW f, f = [y \in DOMAIN f |-> f[y]], NEW x, x \in DOMAIN f
  PROVE  Upd(f, x, f[x]) = f
BY DEF Upd

\* What a cell that is set does to the data and the links of the cells.
LEMMA CellSet ==
  ASSUME NEW cell, NEW c, NEW k, NEW p, cell \in [Cells -> Entry] /\ c \in Cells /\ k \in Keys \cup {NULL} /\ p \in Pointers
  PROVE  /\ Upd(cell, c, EntryOf(k, p)) \in [Cells -> Entry]
         /\ Nexts(Upd(cell, c, EntryOf(k, p))) = Upd(Nexts(cell), c, p)
         /\ Datas(Upd(cell, c, EntryOf(k, p))) = Upd(Datas(cell), c, k)
         /\ Datas(cell)[c] = cell[c].data /\ Nexts(cell)[c] = cell[c].next
         /\ Upd(cell, c, EntryOf(k, p))[c] = EntryOf(k, p)
         /\ \A d \in Cells : d # c => Upd(cell, c, EntryOf(k, p))[d] = cell[d]
<1>1. PICK new : new = Upd(cell, c, EntryOf(k, p))
  OBVIOUS
<1>2. new \in [Cells -> Entry] /\ new[c] = EntryOf(k, p) /\ \A d \in Cells : d # c => new[d] = cell[d]
  BY <1>1, EntryIs DEF Upd
<1>3. new[c].data = k /\ new[c].next = p
  BY <1>2, EntryIs
<1>4. Nexts(new) = [Nexts(cell) EXCEPT ![c] = p]
  BY <1>2, <1>3 DEF Nexts
<1>5. Datas(new) = [Datas(cell) EXCEPT ![c] = k]
  BY <1>2, <1>3 DEF Datas
<1>6. Datas(cell)[c] = cell[c].data /\ Nexts(cell)[c] = cell[c].next
  BY DEF Datas, Nexts
<1>7. Nexts(new) = Upd(Nexts(cell), c, p) /\ Datas(new) = Upd(Datas(cell), c, k)
  BY <1>4, <1>5 DEF Upd
<1> QED
  BY <1>1, <1>2, <1>6, <1>7

Settable(bucket, n, b, k, p) ==
  n \in Nat /\ bucket \in [0 .. n - 1 -> Entry] /\ b \in 0 .. n - 1 /\ k \in Keys \cup {NULL} /\ p \in Pointers

\* What a bucket that is set does to the heads.
LEMMA BucketSet ==
  ASSUME NEW n, NEW bucket, NEW b, NEW k, NEW p, Settable(bucket, n, b, k, p)
  PROVE  /\ Upd(bucket, b, EntryOf(k, p)) \in [0 .. n - 1 -> Entry]
         /\ Heads(Upd(bucket, b, EntryOf(k, p)), n) = Upd(Heads(bucket, n), b, k)
         /\ Upd(bucket, b, EntryOf(k, p))[b] = EntryOf(k, p)
         /\ \A d \in 0 .. n - 1 : d # b => Upd(bucket, b, EntryOf(k, p))[d] = bucket[d]
<1>0. n \in Nat /\ bucket \in [0 .. n - 1 -> Entry] /\ b \in 0 .. n - 1 /\ k \in Keys \cup {NULL} /\ p \in Pointers
  BY DEF Settable
<1>1. PICK new : new = Upd(bucket, b, EntryOf(k, p))
  OBVIOUS
<1>2. new \in [0 .. n - 1 -> Entry] /\ new[b] = EntryOf(k, p) /\ \A d \in 0 .. n - 1 : d # b => new[d] = bucket[d]
  BY <1>0, <1>1, EntryIs DEF Upd
<1>3. new[b].data = k /\ new[b].next = p
  BY <1>2, EntryIs
<1>4. Heads(new, n) = [Heads(bucket, n) EXCEPT ![b] = k]
  BY <1>0, <1>2, <1>3 DEF Heads
<1>6. Heads(new, n) = Upd(Heads(bucket, n), b, k)
  BY <1>4 DEF Upd
<1> QED
  BY <1>1, <1>2, <1>6

\* What a bucket that is set does to the fronts of the chains.
LEMMA FirstsSet ==
  ASSUME NEW n, NEW bucket, NEW free, NEW b, NEW k, NEW p, Settable(bucket, n, b, k, p)
  PROVE  Firsts(Upd(bucket, b, EntryOf(k, p)), n, free) = Upd(Firsts(bucket, n, free), b, p)
<1>1. b \in Owners(n) /\ b # -1 /\ \A o \in Owners(n) : o # -1 => o \in 0 .. n - 1
  BY DEF Owners, Settable
<1>2. PICK new : new = Upd(bucket, b, EntryOf(k, p))
  OBVIOUS
<1>3. new \in [0 .. n - 1 -> Entry] /\ new[b] = EntryOf(k, p) /\ \A d \in 0 .. n - 1 : d # b => new[d] = bucket[d]
  BY <1>2, BucketSet
<1>4. new[b].next = p
  BY <1>3, EntryIs
<1>5. Firsts(new, n, free) = [Firsts(bucket, n, free) EXCEPT ![b] = p]
  BY <1>1, <1>3, <1>4 DEF Firsts
<1> QED
  BY <1>2, <1>5 DEF Upd

\* What a list of free cells that is set does to the fronts of the chains.
LEMMA FreeSet ==
  ASSUME NEW n \in Nat, NEW bucket, NEW free, NEW p
  PROVE  Firsts(bucket, n, p) = Upd(Firsts(bucket, n, free), -1, p) /\ Firsts(bucket, n, free)[-1] = free
<1>1. -1 \in Owners(n)
  BY DEF Owners
<1>2. Firsts(bucket, n, p) = [Firsts(bucket, n, free) EXCEPT ![-1] = p] /\ Firsts(bucket, n, free)[-1] = free
  BY <1>1 DEF Firsts
<1> QED
  BY <1>2 DEF Upd

\* The table's steps, with Upd.
LEMMA PutLink ==
  ASSUME NEW N, NEW F, NEW D, NEW H, NEW n, NEW L, NEW P, NEW K, NEW own, NEW rank, NEW R,
         Whole(N, F, D, H, n, L, P, K, own, rank, R),
         NEW c \in Cells, c \notin L, c \notin P, NEW b \in 0 .. n - 1, H[b] # NULL,
         D[c] \in Keys, D[c] \notin K, D[c] % n = b, \A d \in P : D[d] # D[c]
  PROVE  \E o, r, S : Whole(Upd(N, c, F[b]), Upd(F, b, c), D, H, n, L \cup {c}, P, K \cup {D[c]}, o, r, S)
<1>1. Whole([N EXCEPT ![c] = F[b]], [F EXCEPT ![b] = c], D, H, n, L \cup {c}, P, K \cup {D[c]},
            [own EXCEPT ![c] = b], [rank EXCEPT ![c] = R + 1], R + 1)
  BY WholeLink
<1> QED
  BY <1>1 DEF Upd

\* free_entry, on the parts.
LEMMA PutFree ==
  ASSUME NEW N, NEW F, NEW D, NEW H, NEW n, NEW L, NEW P, NEW K, NEW own, NEW rank, NEW R,
         Whole(N, F, D, H, n, L, P, K, own, rank, R),
         NEW c \in Cells, c \notin L, c \notin P
  PROVE  \E o, r, S : Whole(Upd(N, c, F[-1]), Upd(F, -1, c), Upd(D, c, NULL), H, n, L \cup {c}, P, K, o, r, S)
<1>1. Whole([N EXCEPT ![c] = F[-1]], [F EXCEPT ![-1] = c], [D EXCEPT ![c] = NULL], H, n, L \cup {c}, P, K,
            [own EXCEPT ![c] = -1], [rank EXCEPT ![c] = R + 1], R + 1)
  BY WholeFree
<1> QED
  BY <1>1 DEF Upd

\* The recycling half of allocate_entry, on the parts.
LEMMA PutTake ==
  ASSUME NEW N, NEW F, NEW D, NEW H, NEW n, NEW L, NEW P, NEW K, NEW own, NEW rank, NEW R,
         Whole(N, F, D, H, n, L, P, K, own, rank, R), F[-1] # NULL
  PROVE  Whole(N, Upd(F, -1, N[F[-1]]), D, H, n, L \ {F[-1]}, P, K, own, rank, R) /\ F[-1] \in L
<1>1. /\ Whole(N, [F EXCEPT ![-1] = N[F[-1]]], D, H, n, L \ {F[-1]}, P, K, own, rank, R)
      /\ F[-1] \in L
  BY WholeTake
<1> QED
  BY <1>1 DEF Upd

\* The removal of the first cell of a bucket, on the parts.
LEMMA PutUnlinkFirst ==
  ASSUME NEW N, NEW F, NEW D, NEW H, NEW n, NEW L, NEW P, NEW K, NEW own, NEW rank, NEW R,
         Whole(N, F, D, H, n, L, P, K, own, rank, R), NEW b \in 0 .. n - 1, F[b] # NULL
  PROVE  Whole(N, Upd(F, b, N[F[b]]), D, H, n, L \ {F[b]}, P, K \ {D[F[b]]}, own, rank, R)
<1>1. Whole(N, [F EXCEPT ![b] = N[F[b]]], D, H, n, L \ {F[b]}, P, K \ {D[F[b]]}, own, rank, R)
  BY WholeUnlink
<1> QED
  BY <1>1 DEF Upd

\* The removal of a later cell of a bucket, on the parts.
LEMMA PutUnlinkLater ==
  ASSUME NEW N, NEW F, NEW D, NEW H, NEW n, NEW L, NEW P, NEW K, NEW own, NEW rank, NEW R,
         Whole(N, F, D, H, n, L, P, K, own, rank, R), NEW c \in L, N[c] # NULL, own[c] # -1
  PROVE  Whole(Upd(N, c, N[N[c]]), F, D, H, n, L \ {N[c]}, P, K \ {D[N[c]]}, own, rank, R)
<1>1. Whole([N EXCEPT ![c] = N[N[c]]], F, D, H, n, L \ {N[c]}, P, K \ {D[N[c]]}, own, rank, R)
  BY WholeUnlink
<1> QED
  BY <1>1 DEF Upd

\* A head that is set, on the parts.
LEMMA PutHead ==
  ASSUME NEW N, NEW F, NEW D, NEW H, NEW n, NEW L, NEW P, NEW K, NEW own, NEW rank, NEW R,
         Whole(N, F, D, H, n, L, P, K, own, rank, R), NEW b \in 0 .. n - 1, NEW k \in Keys \cup {NULL},
         k = NULL => F[b] = NULL,
         k # NULL => k \notin K /\ k % n = b /\ \A d \in P : D[d] # k
  PROVE  Whole(N, F, D, Upd(H, b, k), n, L, P, (K \ {H[b]}) \cup ({k} \ {NULL}), own, rank, R)
<1>1. Whole(N, F, D, [H EXCEPT ![b] = k], n, L, P, (K \ {H[b]}) \cup ({k} \ {NULL}), own, rank, R)
  BY WholeHead
<1> QED
  BY <1>1 DEF Upd

\* A cell in hand that gets an entry, on the parts.
LEMMA PutData ==
  ASSUME NEW N, NEW F, NEW D, NEW H, NEW n, NEW L, NEW P, NEW K, NEW own, NEW rank, NEW R,
         Whole(N, F, D, H, n, L, P, K, own, rank, R), NEW c \in Cells, NEW k \in Keys, c \notin L, c \notin P
  PROVE  Whole(N, F, Upd(D, c, k), H, n, L, P, K, own, rank, R)
<1>1. Whole(N, F, [D EXCEPT ![c] = k], H, n, L, P, K, own, rank, R)
  BY WholeData
<1> QED
  BY <1>1 DEF Upd

\* Its fields.
TableOf(bucket, n, used, entries, free, top, cell) ==
  [bucket |-> bucket, n_buckets |-> n, n_buckets_used |-> used, n_entries |-> entries,
   free_entry_list |-> free, entry_stack |-> top, cell |-> cell]

IsTable(t) == t = TableOf(t.bucket, t.n_buckets, t.n_buckets_used, t.n_entries, t.free_entry_list, t.entry_stack, t.cell)

Table(t) ==
  /\ IsTable(t)
  /\ t.n_buckets \in Nat \ {0} /\ t.bucket \in [0 .. t.n_buckets - 1 -> Entry] /\ t.cell \in [Cells -> Entry]
  /\ t.free_entry_list \in Pointers

Used(t) == {b \in 0 .. t.n_buckets - 1 : t.bucket[b].data # NULL}

\* Table t holds K, and the cells of P are to be moved.
Linked(t, L, P, K, own, rank, R) ==
  Whole(Nexts(t.cell), Firsts(t.bucket, t.n_buckets, t.free_entry_list), Datas(t.cell),
        Heads(t.bucket, t.n_buckets), t.n_buckets, L, P, K, own, rank, R)
Holds(t, L, P, K) == Table(t) /\ \E own, rank, R : Linked(t, L, P, K, own, rank, R)

\* All cells so far are in a chain, free or to be moved.
Full(t, P, K) ==
  /\ t.entry_stack \in 1 .. ChunkCells + 1 /\ P \subseteq 1 .. t.entry_stack - 1
  /\ Holds(t, (1 .. t.entry_stack - 1) \ P, P, K)

\* What no step on cells and buckets changes but an insertion, a removal or a resizing.
SameCounts(t, u) == u.n_buckets = t.n_buckets /\ u.n_buckets_used = t.n_buckets_used /\ u.n_entries = t.n_entries

\* How the fields of a table are set.
LEMMA FieldsAre ==
  ASSUME NEW bucket, NEW n, NEW used, NEW entries, NEW free, NEW top, NEW cell, NEW t,
         t = TableOf(bucket, n, used, entries, free, top, cell)
  PROVE  /\ t.bucket = bucket /\ t.n_buckets = n /\ t.n_buckets_used = used /\ t.n_entries = entries
         /\ t.free_entry_list = free /\ t.entry_stack = top /\ t.cell = cell
         /\ IsTable(t)
BY DEF TableOf, IsTable

With(t, bucket, free, cell) == TableOf(bucket, t.n_buckets, t.n_buckets_used, t.n_entries, free, t.entry_stack, cell)

SetBucket(t, x) == [t EXCEPT !.bucket = x]
SetCell(t, x)   == [t EXCEPT !.cell = x]
SetFree(t, x)   == [t EXCEPT !.free_entry_list = x]
SetUsed(t, x)   == [t EXCEPT !.n_buckets_used = x]
SetSize(t, x)   == [t EXCEPT !.n_buckets = x]
SetCount(t, x)  == [t EXCEPT !.n_entries = x]
SetTop(t, x)    == [t EXCEPT !.entry_stack = x]
HeadSet(t, b, x)    == [t EXCEPT !.bucket[b].data = x]
FirstSet(t, b, x)   == [t EXCEPT !.bucket[b].next = x]
NextSet(t, c, x)    == [t EXCEPT !.cell[c].next = x]
LinkSet(t, b, c, x) == [t EXCEPT !.cell[c].next = x, !.bucket[b].next = c]
NewSet(t, b, c, x)  == [t EXCEPT !.cell[c] = x, !.bucket[b].next = c]
Taken(t)            == [t EXCEPT !.free_entry_list = t.cell[@].next]
SetData(f, x, z) == [f EXCEPT ![x].data = z]
SetNext(f, x, z) == [f EXCEPT ![x].next = z]

\* Setting one field of a table leaves the others.
LEMMA SetField ==
  ASSUME NEW bucket, NEW n, NEW used, NEW entries, NEW free, NEW top, NEW cell, NEW x
  PROVE  /\ SetBucket(TableOf(bucket, n, used, entries, free, top, cell), x) = TableOf(x, n, used, entries, free, top, cell)
         /\ SetSize(TableOf(bucket, n, used, entries, free, top, cell), x) = TableOf(bucket, x, used, entries, free, top, cell)
         /\ SetUsed(TableOf(bucket, n, used, entries, free, top, cell), x) = TableOf(bucket, n, x, entries, free, top, cell)
         /\ SetCount(TableOf(bucket, n, used, entries, free, top, cell), x) = TableOf(bucket, n, used, x, free, top, cell)
         /\ SetFree(TableOf(bucket, n, used, entries, free, top, cell), x) = TableOf(bucket, n, used, entries, x, top, cell)
         /\ SetTop(TableOf(bucket, n, used, entries, free, top, cell), x) = TableOf(bucket, n, used, entries, free, x, cell)
         /\ SetCell(TableOf(bucket, n, used, entries, free, top, cell), x) = TableOf(bucket, n, used, entries, free, top, x)
BY DEF TableOf, SetBucket, SetSize, SetUsed, SetCount, SetFree, SetTop, SetCell

\* The same, of any table.
LEMMA Sets ==
  ASSUME NEW t, IsTable(t), NEW x
  PROVE  /\ SetBucket(t, x) = With(t, x, t.free_entry_list, t.cell)
         /\ SetCell(t, x) = With(t, t.bucket, t.free_entry_list, x)
         /\ SetFree(t, x) = With(t, t.bucket, x, t.cell)
         /\ SetSize(t, x) = TableOf(t.bucket, x, t.n_buckets_used, t.n_entries, t.free_entry_list, t.entry_stack, t.cell)
         /\ SetUsed(t, x) = TableOf(t.bucket, t.n_buckets, x, t.n_entries, t.free_entry_list, t.entry_stack, t.cell)
         /\ SetCount(t, x) = TableOf(t.bucket, t.n_buckets, t.n_buckets_used, x, t.free_entry_list, t.entry_stack, t.cell)
         /\ SetTop(t, x) = TableOf(t.bucket, t.n_buckets, t.n_buckets_used, t.n_entries, t.free_entry_list, x, t.cell)
<1>1. t = TableOf(t.bucket, t.n_buckets, t.n_buckets_used, t.n_entries, t.free_entry_list, t.entry_stack, t.cell)
  BY DEF IsTable
<1> QED
  BY <1>1, SetField DEF With

\* The fields of a table made from another.
LEMMA WithIs ==
  ASSUME NEW t, NEW u, NEW bucket, NEW free, NEW cell, u = With(t, bucket, free, cell)
  PROVE  /\ u.bucket = bucket /\ SameCounts(t, u) /\ u.free_entry_list = free /\ u.entry_stack = t.entry_stack /\ u.cell = cell
         /\ IsTable(u)
BY FieldsAre DEF With, SameCounts

\* Two fields set one after the other.
LEMMA WithTwice ==
  ASSUME NEW t, NEW bucket, NEW free, NEW cell, NEW x
  PROVE  /\ SetBucket(With(t, bucket, free, cell), x) = With(t, x, free, cell)
         /\ SetCell(With(t, bucket, free, cell), x) = With(t, bucket, free, x)
         /\ SetFree(With(t, bucket, free, cell), x) = With(t, bucket, x, cell)
BY SetField DEF With

\* One field of an entry is set.
LEMMA EntrySet ==
  ASSUME NEW S, NEW f \in [S -> Entry], NEW x \in S, NEW z
  PROVE  /\ SetData(f, x, z) = Upd(f, x, EntryOf(z, f[x].next))
         /\ SetNext(f, x, z) = Upd(f, x, EntryOf(f[x].data, z))
         /\ f[x] = EntryOf(f[x].data, f[x].next) /\ f[x].data \in Keys \cup {NULL} /\ f[x].next \in Pointers
<1>1. PICK e : e = f[x]
  OBVIOUS
<1>2. e \in Entry
  BY <1>1
<1>3. PICK k, p : e = EntryOf(k, p) /\ k \in Keys \cup {NULL} /\ p \in Pointers
  BY <1>2, EntryIs
<1>4. e.data = k /\ e.next = p
  BY <1>3, EntryIs
<1>5. [e EXCEPT !.data = z] = EntryOf(z, p) /\ [e EXCEPT !.next = z] = EntryOf(k, z)
  BY <1>3 DEF EntryOf
<1>6. /\ SetData(f, x, z) = [f EXCEPT ![x] = [f[x] EXCEPT !.data = z]]
      /\ SetNext(f, x, z) = [f EXCEPT ![x] = [f[x] EXCEPT !.next = z]]
  BY DEF SetData, SetNext
<1>7. SetData(f, x, z) = [f EXCEPT ![x] = EntryOf(z, p)] /\ SetNext(f, x, z) = [f EXCEPT ![x] = EntryOf(k, z)]
  BY <1>1, <1>5, <1>6
<1> QED
  BY <1>1, <1>3, <1>4, <1>7 DEF Upd

\* A head that is set.
LEMMA BucketDataIs ==
  ASSUME NEW t, Table(t), NEW b \in 0 .. t.n_buckets - 1, NEW x
  PROVE  HeadSet(t, b, x) = With(t, Upd(t.bucket, b, EntryOf(x, t.bucket[b].next)), t.free_entry_list, t.cell)
<1>1. HeadSet(t, b, x) = SetBucket(t, SetData(t.bucket, b, x))
  BY DEF HeadSet, SetBucket, SetData
<1>2. PICK v : v = SetData(t.bucket, b, x)
  OBVIOUS
<1>3. IsTable(t) /\ t.bucket \in [0 .. t.n_buckets - 1 -> Entry]
  BY DEF Table
<1>4. v = Upd(t.bucket, b, EntryOf(x, t.bucket[b].next))
  BY <1>2, <1>3, EntrySet, ZenonT(60)
<1> QED
  BY <1>1, <1>2, <1>3, <1>4, Sets

\* The front of a bucket's chain that is set.
LEMMA BucketNextIs ==
  ASSUME NEW t, Table(t), NEW b \in 0 .. t.n_buckets - 1, NEW x
  PROVE  FirstSet(t, b, x) = With(t, Upd(t.bucket, b, EntryOf(t.bucket[b].data, x)), t.free_entry_list, t.cell)
<1>1. FirstSet(t, b, x) = SetBucket(t, SetNext(t.bucket, b, x))
  BY DEF FirstSet, SetBucket, SetNext
<1>2. PICK v : v = SetNext(t.bucket, b, x)
  OBVIOUS
<1>3. IsTable(t) /\ t.bucket \in [0 .. t.n_buckets - 1 -> Entry]
  BY DEF Table
<1>4. v = Upd(t.bucket, b, EntryOf(t.bucket[b].data, x))
  BY <1>2, <1>3, EntrySet, ZenonT(60)
<1> QED
  BY <1>1, <1>2, <1>3, <1>4, Sets

\* A bucket's own entry that is set.
LEMMA BucketEntryIs ==
  ASSUME NEW t, Table(t), NEW b \in 0 .. t.n_buckets - 1, NEW x, NEW u, u = [t EXCEPT !.bucket[b] = x]
  PROVE  u = With(t, Upd(t.bucket, b, x), t.free_entry_list, t.cell)
<1>1. u = SetBucket(t, Upd(t.bucket, b, x))
  BY DEF SetBucket, Upd
<1>2. IsTable(t)
  BY DEF Table
<1> QED
  BY <1>1, <1>2, Sets

\* The link of a cell that is set.
LEMMA CellNextIs ==
  ASSUME NEW t, Table(t), NEW c \in Cells, NEW x
  PROVE  NextSet(t, c, x) = With(t, t.bucket, t.free_entry_list, Upd(t.cell, c, EntryOf(t.cell[c].data, x)))
<1>1. NextSet(t, c, x) = SetCell(t, SetNext(t.cell, c, x))
  BY DEF NextSet, SetCell, SetNext
<1>2. PICK v : v = SetNext(t.cell, c, x)
  OBVIOUS
<1>3. IsTable(t) /\ t.cell \in [Cells -> Entry]
  BY DEF Table
<1>4. v = Upd(t.cell, c, EntryOf(t.cell[c].data, x))
  BY <1>2, <1>3, EntrySet
<1> QED
  BY <1>1, <1>2, <1>3, <1>4, Sets

\* A cell that is linked in front of a chain.
LEMMA LinkIs ==
  ASSUME NEW t, Table(t), NEW b \in 0 .. t.n_buckets - 1, NEW c \in Cells, NEW x
  PROVE  LinkSet(t, b, c, x) = With(t, Upd(t.bucket, b, EntryOf(t.bucket[b].data, c)), t.free_entry_list,
                  Upd(t.cell, c, EntryOf(t.cell[c].data, x)))
<1>1. PICK v : v = SetCell(t, SetNext(t.cell, c, x))
  OBVIOUS
<1>2. v = [t EXCEPT !.cell[c].next = x]
  BY <1>1 DEF SetCell, SetNext
<1>3. v = With(t, t.bucket, t.free_entry_list, Upd(t.cell, c, EntryOf(t.cell[c].data, x)))
  BY <1>2, CellNextIs DEF NextSet
<1>4. v.bucket = t.bucket
  BY <1>3, WithIs
<1>5. LinkSet(t, b, c, x) = [v EXCEPT !.bucket[b].next = c]
  BY <1>2 DEF LinkSet
<1>6. LinkSet(t, b, c, x) = SetBucket(v, SetNext(v.bucket, b, c))
  BY <1>5 DEF SetBucket, SetNext
<1>7. PICK w : w = SetNext(v.bucket, b, c)
  OBVIOUS
<1>8. w = Upd(t.bucket, b, EntryOf(t.bucket[b].data, c))
  BY <1>4, <1>7, EntrySet DEF Table
<1> QED
  BY <1>3, <1>6, <1>7, <1>8, WithTwice

\* A cell that is filled and linked in front of a chain.
LEMMA NewLinkIs ==
  ASSUME NEW t, Table(t), NEW b \in 0 .. t.n_buckets - 1, NEW c \in Cells, NEW x
  PROVE  NewSet(t, b, c, x) = With(t, Upd(t.bucket, b, EntryOf(t.bucket[b].data, c)), t.free_entry_list, Upd(t.cell, c, x))
<1>1. PICK v : v = SetCell(t, Upd(t.cell, c, x))
  OBVIOUS
<1>2. v = [t EXCEPT !.cell[c] = x]
  BY <1>1 DEF SetCell, Upd
<1>3. v = With(t, t.bucket, t.free_entry_list, Upd(t.cell, c, x))
  BY <1>1, Sets DEF Table
<1>4. v.bucket = t.bucket
  BY <1>3, WithIs
<1>5. NewSet(t, b, c, x) = [v EXCEPT !.bucket[b].next = c]
  BY <1>2 DEF NewSet
<1>6. NewSet(t, b, c, x) = SetBucket(v, SetNext(v.bucket, b, c))
  BY <1>5 DEF SetBucket, SetNext
<1>7. PICK w : w = SetNext(v.bucket, b, c)
  OBVIOUS
<1>8. w = Upd(t.bucket, b, EntryOf(t.bucket[b].data, c))
  BY <1>4, <1>7, EntrySet DEF Table
<1> QED
  BY <1>3, <1>6, <1>7, <1>8, WithTwice

\* free_entry, as an update.
LEMMA FreeIs ==
  ASSUME NEW t, Table(t), NEW c \in Cells
  PROVE  free_entry(t, c) = With(t, t.bucket, c, Upd(t.cell, c, EntryOf(NULL, t.free_entry_list)))
<1>1. PICK x : x = EntryOf(NULL, t.free_entry_list)
  OBVIOUS
<1>2. PICK v : v = SetCell(t, Upd(t.cell, c, x))
  OBVIOUS
<1>3. v = [t EXCEPT !.cell[c] = x]
  BY <1>2 DEF SetCell, Upd
<1>4. free_entry(t, c) = [t EXCEPT !.cell[c] = x, !.free_entry_list = c]
  BY <1>1 DEF free_entry, EntryOf
<1>5. free_entry(t, c) = SetFree(v, c)
  BY <1>3, <1>4 DEF SetFree
<1>6. v = With(t, t.bucket, t.free_entry_list, Upd(t.cell, c, x))
  BY <1>2, Sets DEF Table
<1> QED
  BY <1>1, <1>5, <1>6, WithTwice

-----------------------------------------------------------------------------
(* The steps of the functions of hash-common.h, each on a table that holds K.*)

\* What changes t no further than its cells, the heads and the list of free cells.
Near(t, u) == SameCounts(t, u) /\ u.entry_stack = t.entry_stack /\ Table(u)

\* Bucket b of n is the one of entry k.
Fits(k, n, b) == k % n = b

\* Only cell c may differ.
CellsKept(t, u, c) == \A d \in Cells : d # c => u.cell[d] = t.cell[d]

\* No cell still to be moved has entry k.
Apart(t, P, k) == \A d \in P : t.cell[d].data # k

\* The types of a table that holds K.
LEMMA HoldsTypes ==
  ASSUME NEW t, NEW L, NEW P, NEW K, Holds(t, L, P, K)
  PROVE  /\ Table(t) /\ L \subseteq Cells /\ P \subseteq Cells /\ L \cap P = {} /\ K \subseteq Keys
         /\ \A b \in 0 .. t.n_buckets - 1 : t.bucket[b] \in Entry
         /\ \A c \in Cells : t.cell[c] \in Entry
<1>1. PICK own, rank, R : Linked(t, L, P, K, own, rank, R)
  BY DEF Holds
<1>2. L \subseteq Cells /\ P \subseteq Cells /\ L \cap P = {} /\ K \subseteq Keys
  BY <1>1, WholeHas DEF Linked
<1> QED
  BY <1>2 DEF Holds, Table

\* The parts of a table that holds K.
Parts(t, N, F, D, H, n) ==
  /\ N = Nexts(t.cell) /\ F = Firsts(t.bucket, n, t.free_entry_list) /\ D = Datas(t.cell)
  /\ H = Heads(t.bucket, n) /\ n = t.n_buckets

\* A table that holds K, in parts.
LEMMA HoldsParts ==
  ASSUME NEW t, NEW L, NEW P, NEW K, Holds(t, L, P, K)
  PROVE  \E N, F, D, H, n, own, rank, R :
           /\ Parts(t, N, F, D, H, n) /\ Whole(N, F, D, H, n, L, P, K, own, rank, R)
           /\ IsTable(t) /\ Table(t) /\ n \in Nat \ {0} /\ t.bucket \in [0 .. n - 1 -> Entry] /\ t.cell \in [Cells -> Entry]
           /\ t.free_entry_list \in Pointers
           /\ \A c \in Cells : D[c] = t.cell[c].data /\ N[c] = t.cell[c].next
           /\ \A b \in 0 .. n - 1 : H[b] = t.bucket[b].data /\ F[b] = t.bucket[b].next
           /\ F[-1] = t.free_entry_list
<1>1. PICK own, rank, R : Linked(t, L, P, K, own, rank, R)
  BY DEF Holds
<1>2. PICK N, F, D, H, n : n = t.n_buckets /\ Parts(t, N, F, D, H, n)
  BY DEF Parts
<1>3. Whole(N, F, D, H, n, L, P, K, own, rank, R)
  BY <1>1, <1>2 DEF Linked, Parts
<1>4. /\ IsTable(t) /\ Table(t) /\ n \in Nat \ {0} /\ t.bucket \in [0 .. n - 1 -> Entry] /\ t.cell \in [Cells -> Entry]
      /\ t.free_entry_list \in Pointers
  BY <1>2 DEF Holds, Table
<1>5. \A c \in Cells : D[c] = t.cell[c].data /\ N[c] = t.cell[c].next
  BY <1>2 DEF Parts, Datas, Nexts
<1>6. \A b \in 0 .. n - 1 : b \in Owners(n) /\ b # -1
  BY <1>4 DEF Owners
<1>7. -1 \in Owners(n)
  BY <1>4 DEF Owners
<1>8. \A b \in 0 .. n - 1 : H[b] = t.bucket[b].data /\ F[b] = t.bucket[b].next
  BY <1>2, <1>6 DEF Parts, Heads, Firsts
<1>9. F[-1] = t.free_entry_list
  BY <1>2, <1>7 DEF Parts, Firsts
<1> QED
  BY <1>2, <1>3, <1>4, <1>5, <1>8, <1>9

Linkage(bucket, n, free, cell, L, P, K) ==
  \E own, rank, R :
    Whole(Nexts(cell), Firsts(bucket, n, free), Datas(cell), Heads(bucket, n), n, L, P, K, own, rank, R)

\* A table made from t by setting its cells, heads and free cells.
LEMMA HoldsWith ==
  ASSUME NEW t, Table(t), NEW bucket, NEW free, NEW cell, NEW u, u = With(t, bucket, free, cell),
         bucket \in [0 .. t.n_buckets - 1 -> Entry], free \in Pointers, cell \in [Cells -> Entry],
         NEW L, NEW P, NEW K, Linkage(bucket, t.n_buckets, free, cell, L, P, K)
  PROVE  /\ Holds(u, L, P, K) /\ Near(t, u)
         /\ u.bucket = bucket /\ u.free_entry_list = free /\ u.cell = cell
<1>1. /\ u.bucket = bucket /\ SameCounts(t, u) /\ u.free_entry_list = free /\ u.entry_stack = t.entry_stack /\ u.cell = cell
      /\ IsTable(u)
  BY WithIs
<1>2. Table(u)
  BY <1>1 DEF Table, SameCounts
<1>3. \E own, rank, R : Linked(u, L, P, K, own, rank, R)
  BY <1>1 DEF Linkage, Linked, SameCounts
<1> QED
  BY <1>1, <1>2, <1>3 DEF Holds, Near

\* free_entry keeps what a table holds; the cell is live again.
LEMMA HoldsFree ==
  ASSUME NEW t, NEW L, NEW P, NEW K, Holds(t, L, P, K), NEW c \in Cells, c \notin L, c \notin P
  PROVE  /\ Holds(free_entry(t, c), L \cup {c}, P, K) /\ Near(t, free_entry(t, c))
         /\ free_entry(t, c).bucket = t.bucket
         /\ CellsKept(t, free_entry(t, c), c)
<1>1. PICK N, F, D, H, n, own, rank, R :
           /\ Parts(t, N, F, D, H, n) /\ Whole(N, F, D, H, n, L, P, K, own, rank, R)
           /\ IsTable(t) /\ Table(t) /\ n \in Nat \ {0} /\ t.bucket \in [0 .. n - 1 -> Entry] /\ t.cell \in [Cells -> Entry]
           /\ t.free_entry_list \in Pointers
           /\ F[-1] = t.free_entry_list
  BY HoldsParts
<1>2. PICK o, r, S : Whole(Upd(N, c, F[-1]), Upd(F, -1, c), Upd(D, c, NULL), H, n, L \cup {c}, P, K, o, r, S)
  BY <1>1, PutFree
<1>3. Firsts(t.bucket, n, c) = Upd(F, -1, c)
  BY <1>1, FreeSet DEF Parts
<1>4. PICK p, cell : p = t.free_entry_list /\ cell = Upd(t.cell, c, EntryOf(NULL, p))
  OBVIOUS
<1>5. /\ cell \in [Cells -> Entry] /\ Nexts(cell) = Upd(N, c, p) /\ Datas(cell) = Upd(D, c, NULL)
      /\ \A d \in Cells : d # c => cell[d] = t.cell[d]
  <2>1. t.cell \in [Cells -> Entry] /\ p \in Pointers /\ NULL \in Keys \cup {NULL}
    BY <1>1, <1>4
  <2>2. /\ cell \in [Cells -> Entry] /\ Nexts(cell) = Upd(Nexts(t.cell), c, p) /\ Datas(cell) = Upd(Datas(t.cell), c, NULL)
        /\ \A d \in Cells : d # c => cell[d] = t.cell[d]
    BY <1>4, <2>1, CellSet
  <2> QED
    BY <1>1, <2>2 DEF Parts
<1>6. free_entry(t, c) = With(t, t.bucket, c, cell)
  BY <1>1, <1>4, FreeIs
<1>7. c \in Pointers /\ H = Heads(t.bucket, n) /\ n = t.n_buckets
  BY <1>1 DEF Pointers, Parts
<1>7a. Linkage(t.bucket, n, c, cell, L \cup {c}, P, K)
  <2>1. F[-1] = p
    BY <1>1, <1>4
  <2>2. Nexts(cell) = Upd(N, c, F[-1])
    BY <1>5, <2>1
  <2> QED
    BY <1>2, <1>3, <1>5, <1>7, <2>2 DEF Linkage
<1>8. /\ Holds(free_entry(t, c), L \cup {c}, P, K) /\ Near(t, free_entry(t, c))
      /\ free_entry(t, c).bucket = t.bucket /\ free_entry(t, c).cell = cell
  <2>1. Table(t) /\ t.bucket \in [0 .. t.n_buckets - 1 -> Entry] /\ Linkage(t.bucket, t.n_buckets, c, cell, L \cup {c}, P, K)
    BY <1>1, <1>7, <1>7a
  <2> QED
    BY <1>5, <1>6, <1>7, <2>1, HoldsWith
<1> QED
  BY <1>5, <1>8 DEF CellsKept

\* allocate_entry takes the first free cell in hand, and the table holds what it held.
LEMMA HoldsTake ==
  ASSUME NEW t, NEW L, NEW P, NEW K, Holds(t, L, P, K), t.free_entry_list # NULL
  PROVE  /\ t.free_entry_list \in L /\ Holds(Taken(t), L \ {t.free_entry_list}, P, K) /\ Near(t, Taken(t))
         /\ Taken(t).bucket = t.bucket /\ Taken(t).cell = t.cell
<1>0. PICK u : u = Taken(t)
  OBVIOUS
<1>1. PICK N, F, D, H, n, own, rank, R :
           /\ Parts(t, N, F, D, H, n) /\ Whole(N, F, D, H, n, L, P, K, own, rank, R)
           /\ IsTable(t) /\ Table(t) /\ n \in Nat \ {0} /\ t.bucket \in [0 .. n - 1 -> Entry] /\ t.cell \in [Cells -> Entry]
           /\ t.free_entry_list \in Pointers
           /\ \A c \in Cells : N[c] = t.cell[c].next
           /\ F[-1] = t.free_entry_list
  BY HoldsParts
<1>2. PICK c, p : c = t.free_entry_list /\ p = t.cell[c].next
  OBVIOUS
<1>3. c \in Cells /\ N[c] = p /\ p \in Pointers
  BY <1>1, <1>2, EntryIs DEF Pointers
<1>4. Whole(N, Upd(F, -1, p), D, H, n, L \ {c}, P, K, own, rank, R) /\ c \in L
  <2>1. Whole(N, F, D, H, n, L, P, K, own, rank, R) /\ F[-1] = c /\ c # NULL
    BY <1>1, <1>2
  <2>2. Whole(N, Upd(F, -1, N[F[-1]]), D, H, n, L \ {F[-1]}, P, K, own, rank, R) /\ F[-1] \in L
    BY <2>1, PutTake
  <2> QED
    BY <1>3, <2>1, <2>2
<1>5. Firsts(t.bucket, n, p) = Upd(F, -1, p)
  BY <1>1, FreeSet DEF Parts
<1>6. u = SetFree(t, p)
  BY <1>0, <1>2 DEF SetFree, Taken
<1>7. u = With(t, t.bucket, p, t.cell)
  BY <1>1, <1>6, Sets
<1>8. N = Nexts(t.cell) /\ D = Datas(t.cell) /\ H = Heads(t.bucket, n) /\ n = t.n_buckets
  BY <1>1 DEF Parts
<1>9. /\ Holds(u, L \ {c}, P, K) /\ Near(t, u)
      /\ u.bucket = t.bucket /\ u.cell = t.cell
  <2>1. Linkage(t.bucket, n, p, t.cell, L \ {c}, P, K)
    BY <1>4, <1>5, <1>8 DEF Linkage
  <2>2. /\ Table(t) /\ t.bucket \in [0 .. t.n_buckets - 1 -> Entry] /\ t.cell \in [Cells -> Entry] /\ p \in Pointers
        /\ Linkage(t.bucket, t.n_buckets, p, t.cell, L \ {c}, P, K)
    BY <1>1, <1>3, <1>8, <2>1
  <2> QED
    BY <1>7, <2>2, HoldsWith
<1> QED
  BY <1>0, <1>2, <1>4, <1>9

\* A head that is set: its old entry goes and the new one comes.
LEMMA HoldsHead ==
  ASSUME NEW t, NEW L, NEW P, NEW K, Holds(t, L, P, K), NEW b \in 0 .. t.n_buckets - 1, NEW k \in Keys \cup {NULL},
         k = NULL => t.bucket[b].next = NULL,
         k # NULL => k \notin K /\ Fits(k, t.n_buckets, b) /\ \A d \in P : t.cell[d].data # k
  PROVE  /\ Holds(HeadSet(t, b, k), L, P, (K \ {t.bucket[b].data}) \cup ({k} \ {NULL})) /\ Near(t, HeadSet(t, b, k))
         /\ HeadSet(t, b, k).cell = t.cell /\ HeadSet(t, b, k).bucket = Upd(t.bucket, b, EntryOf(k, t.bucket[b].next))
         /\ HeadSet(t, b, k).free_entry_list = t.free_entry_list
<1>0. PICK u : u = HeadSet(t, b, k)
  OBVIOUS
<1>1. PICK N, F, D, H, n, own, rank, R :
           /\ Parts(t, N, F, D, H, n) /\ Whole(N, F, D, H, n, L, P, K, own, rank, R)
           /\ IsTable(t) /\ Table(t) /\ n \in Nat \ {0} /\ t.bucket \in [0 .. n - 1 -> Entry] /\ t.cell \in [Cells -> Entry]
           /\ t.free_entry_list \in Pointers
           /\ \A c \in Cells : D[c] = t.cell[c].data
           /\ \A a \in 0 .. n - 1 : H[a] = t.bucket[a].data /\ F[a] = t.bucket[a].next
  BY HoldsParts
<1>2. N = Nexts(t.cell) /\ F = Firsts(t.bucket, n, t.free_entry_list) /\ D = Datas(t.cell) /\ H = Heads(t.bucket, n)
      /\ n = t.n_buckets /\ b \in 0 .. n - 1
  BY <1>1 DEF Parts
<1>3. PICK p, h, bucket : p = t.bucket[b].next /\ h = t.bucket[b].data /\ bucket = Upd(t.bucket, b, EntryOf(k, p))
  OBVIOUS
<1>4. p \in Pointers /\ H[b] = h /\ F[b] = p
  BY <1>1, <1>2, <1>3, EntryIs
<1>5. /\ bucket \in [0 .. n - 1 -> Entry] /\ Heads(bucket, n) = Upd(H, b, k)
      /\ Firsts(bucket, n, t.free_entry_list) = Upd(F, b, p)
  <2>1. n \in Nat /\ t.bucket \in [0 .. n - 1 -> Entry] /\ b \in 0 .. n - 1
    BY <1>1, <1>2
  <2>2. Settable(t.bucket, n, b, k, p)
    BY <1>4, <2>1 DEF Settable
  <2>3. Upd(t.bucket, b, EntryOf(k, p)) \in [0 .. n - 1 -> Entry]
    BY <2>2, BucketSet
  <2>4. Heads(Upd(t.bucket, b, EntryOf(k, p)), n) = Upd(Heads(t.bucket, n), b, k)
    BY <2>2, BucketSet
  <2>5. Firsts(Upd(t.bucket, b, EntryOf(k, p)), n, t.free_entry_list) = Upd(Firsts(t.bucket, n, t.free_entry_list), b, p)
    BY <2>2, FirstsSet
  <2> QED
    BY <1>2, <1>3, <2>3, <2>4, <2>5
<1>6. Upd(F, b, p) = F
  <2>1. Whole(N, F, D, H, n, L, P, K, own, rank, R)
    BY <1>1
  <2>2. F \in [Owners(n) -> Cells \cup {NULL}] /\ 0 .. n - 1 \subseteq Owners(n)
    BY <2>1, WholeHas
  <2>3. b \in Owners(n) /\ F[b] = p
    BY <1>2, <1>4, <2>2
  <2> QED
    BY <2>2, <2>3, UpdSame
<1>7. u = With(t, bucket, t.free_entry_list, t.cell)
  BY <1>0, <1>1, <1>3, BucketDataIs
<1>8. Whole(N, F, D, Upd(H, b, k), n, L, P, (K \ {h}) \cup ({k} \ {NULL}), own, rank, R)
  <2>1. \A d \in P : D[d] = t.cell[d].data
    BY <1>1, HoldsTypes
  <2>2. /\ k = NULL => F[b] = NULL
        /\ k # NULL => k \notin K /\ k % n = b /\ \A d \in P : D[d] # k
    BY <1>2, <1>3, <1>4, <2>1 DEF Fits
  <2> QED
    BY <1>1, <1>2, <1>4, <2>2, PutHead
<1>9. /\ Holds(u, L, P, (K \ {h}) \cup ({k} \ {NULL})) /\ Near(t, u)
      /\ u.bucket = bucket /\ u.free_entry_list = t.free_entry_list /\ u.cell = t.cell
  <2>1. Linkage(bucket, n, t.free_entry_list, t.cell, L, P, (K \ {h}) \cup ({k} \ {NULL}))
    BY <1>2, <1>5, <1>6, <1>8 DEF Linkage
  <2>2. /\ Table(t) /\ bucket \in [0 .. t.n_buckets - 1 -> Entry] /\ t.cell \in [Cells -> Entry] /\ t.free_entry_list \in Pointers
        /\ Linkage(bucket, t.n_buckets, t.free_entry_list, t.cell, L, P, (K \ {h}) \cup ({k} \ {NULL}))
    BY <1>1, <1>2, <1>5, <2>1
  <2> QED
    BY <1>7, <2>2, HoldsWith
<1> QED
  BY <1>0, <1>3, <1>9

\* Cell c is in hand with entry k, which is not in t yet and belongs to bucket b.
Linking(t, L, P, K, c, b, k) ==
  /\ Holds(t, L, P, K) /\ c \in Cells /\ c \notin L /\ c \notin P /\ k = t.cell[c].data
  /\ b \in 0 .. t.n_buckets - 1 /\ t.bucket[b].data # NULL /\ t.cell[c].data \in Keys \ K
  /\ Fits(t.cell[c].data, t.n_buckets, b) /\ \A d \in P : t.cell[d].data # t.cell[c].data

Joined(t, b, c) == LinkSet(t, b, c, t.bucket[b].next)

\* A cell in hand goes in front of the chain of bucket b.
LEMMA HoldsJoined ==
  ASSUME NEW t, NEW L, NEW P, NEW K, NEW c, NEW b, NEW key, Linking(t, L, P, K, c, b, key)
  PROVE  /\ Holds(Joined(t, b, c), L \cup {c}, P, K \cup {key}) /\ Near(t, Joined(t, b, c))
         /\ Joined(t, b, c).bucket = Upd(t.bucket, b, EntryOf(t.bucket[b].data, c))
         /\ CellsKept(t, Joined(t, b, c), c)
<1>00. /\ Holds(t, L, P, K) /\ c \in Cells /\ c \notin L /\ c \notin P /\ key = t.cell[c].data
       /\ b \in 0 .. t.n_buckets - 1 /\ t.bucket[b].data # NULL /\ t.cell[c].data \in Keys \ K
       /\ Fits(t.cell[c].data, t.n_buckets, b) /\ \A d \in P : t.cell[d].data # t.cell[c].data
  BY DEF Linking
<1> USE <1>00
<1>0. PICK u : u = LinkSet(t, b, c, t.bucket[b].next)
  OBVIOUS
<1>1. PICK N, F, D, H, n, own, rank, R :
           /\ Parts(t, N, F, D, H, n) /\ Whole(N, F, D, H, n, L, P, K, own, rank, R)
           /\ IsTable(t) /\ Table(t) /\ n \in Nat \ {0} /\ t.bucket \in [0 .. n - 1 -> Entry] /\ t.cell \in [Cells -> Entry]
           /\ t.free_entry_list \in Pointers
           /\ \A a \in Cells : D[a] = t.cell[a].data
           /\ \A a \in 0 .. n - 1 : H[a] = t.bucket[a].data /\ F[a] = t.bucket[a].next
  BY HoldsParts
<1>2. N = Nexts(t.cell) /\ F = Firsts(t.bucket, n, t.free_entry_list) /\ D = Datas(t.cell) /\ H = Heads(t.bucket, n)
      /\ n = t.n_buckets /\ b \in 0 .. n - 1
  BY <1>1 DEF Parts
<1>3. PICK p, h, k, bucket, cell : /\ p = t.bucket[b].next /\ h = t.bucket[b].data /\ k = t.cell[c].data
                                   /\ bucket = Upd(t.bucket, b, EntryOf(h, c)) /\ cell = Upd(t.cell, c, EntryOf(k, p))
  OBVIOUS
<1>4. p \in Pointers /\ H[b] = h /\ F[b] = p /\ D[c] = k /\ h \in Keys \cup {NULL} /\ k \in Keys \cup {NULL} /\ c \in Pointers
  <2>1. t.bucket[b] \in Entry /\ t.cell[c] \in Entry
    BY <1>1, <1>2
  <2> QED
    BY <1>1, <1>2, <1>3, <2>1, EntryIs DEF Pointers
<1>5. /\ bucket \in [0 .. n - 1 -> Entry] /\ Heads(bucket, n) = Upd(H, b, h)
      /\ Firsts(bucket, n, t.free_entry_list) = Upd(F, b, c)
  <2>1. n \in Nat /\ t.bucket \in [0 .. n - 1 -> Entry]
    BY <1>1
  <2>5. Settable(t.bucket, n, b, h, c)
    BY <1>2, <1>4, <2>1 DEF Settable
  <2>2. Upd(t.bucket, b, EntryOf(h, c)) \in [0 .. n - 1 -> Entry]
    BY <2>5, BucketSet
  <2>3. Heads(Upd(t.bucket, b, EntryOf(h, c)), n) = Upd(Heads(t.bucket, n), b, h)
    BY <2>5, BucketSet
  <2>4. Firsts(Upd(t.bucket, b, EntryOf(h, c)), n, t.free_entry_list) = Upd(Firsts(t.bucket, n, t.free_entry_list), b, c)
    BY <2>5, FirstsSet
  <2> QED
    BY <1>2, <1>3, <2>2, <2>3, <2>4
<1>5a. cell \in [Cells -> Entry] /\ Nexts(cell) = Upd(N, c, p) /\ Datas(cell) = Upd(D, c, k)
  <2>1. t.cell \in [Cells -> Entry]
    BY <1>1
  <2> QED
    BY <1>2, <1>3, <1>4, <2>1, CellSet
<1>6. Upd(H, b, h) = H /\ Upd(D, c, k) = D
  <2>1. Whole(N, F, D, H, n, L, P, K, own, rank, R)
    BY <1>1
  <2>2. H \in [0 .. n - 1 -> Keys \cup {NULL}] /\ D \in [Cells -> Keys \cup {NULL}]
    BY <2>1, WholeHas
  <2>3. Upd(H, b, H[b]) = H
    BY <1>2, <2>2, UpdSame
  <2>4. Upd(D, c, D[c]) = D
    BY <2>2, UpdSame
  <2> QED
    BY <1>4, <2>3, <2>4
<1>7. u = With(t, bucket, t.free_entry_list, cell)
  BY <1>0, <1>1, <1>3, LinkIs
<1>8. PICK o, r, S : Whole(Upd(N, c, F[b]), Upd(F, b, c), D, H, n, L \cup {c}, P, K \cup {D[c]}, o, r, S)
  <2>1. \A d \in P : D[d] = t.cell[d].data
    BY <1>1, HoldsTypes
  <2>2. /\ H[b] # NULL /\ D[c] \in Keys /\ D[c] \notin K /\ D[c] % n = b /\ \A d \in P : D[d] # D[c]
    BY <1>2, <1>3, <1>4, <2>1 DEF Fits
  <2>3. Whole(N, F, D, H, n, L, P, K, own, rank, R) /\ b \in 0 .. n - 1
    BY <1>1, <1>2
  <2> QED
    BY <2>2, <2>3, PutLink
<1>9. /\ Holds(u, L \cup {c}, P, K \cup {k}) /\ Near(t, u)
      /\ u.bucket = bucket /\ u.free_entry_list = t.free_entry_list /\ u.cell = cell
  <2>1. Linkage(bucket, n, t.free_entry_list, cell, L \cup {c}, P, K \cup {k})
    BY <1>4, <1>5, <1>5a, <1>6, <1>8 DEF Linkage
  <2>2. /\ Table(t) /\ bucket \in [0 .. t.n_buckets - 1 -> Entry] /\ t.free_entry_list \in Pointers
        /\ Linkage(bucket, t.n_buckets, t.free_entry_list, cell, L \cup {c}, P, K \cup {k})
    BY <1>1, <1>2, <1>5, <2>1
  <2> QED
    BY <1>5a, <1>7, <2>2, HoldsWith
<1>10. \A d \in Cells : d # c => cell[d] = t.cell[d]
  <2>1. DOMAIN t.cell = Cells
    BY <1>1
  <2> QED
    BY <1>3, <2>1, UpdIs
<1> QED
  BY <1>0, <1>3, <1>9, <1>10 DEF Joined, CellsKept

\* Entry k, not in t yet, goes in front of b's chain in cell c, which is in hand.
Placing(t, L, P, K, c, b, k) ==
  /\ Holds(t, L, P, K) /\ c \in Cells /\ c \notin L /\ c \notin P
  /\ b \in 0 .. t.n_buckets - 1 /\ t.bucket[b].data # NULL /\ k \in Keys \ K
  /\ Fits(k, t.n_buckets, b) /\ \A d \in P : t.cell[d].data # k

Placed(t, b, c, k) == NewSet(t, b, c, EntryOf(k, t.bucket[b].next))

\* A cell in hand gets an entry and goes in front of the chain of bucket b.
LEMMA HoldsPlaced ==
  ASSUME NEW t, NEW L, NEW P, NEW K, NEW c, NEW b, NEW k, Placing(t, L, P, K, c, b, k)
  PROVE  /\ Holds(Placed(t, b, c, k), L \cup {c}, P, K \cup {k}) /\ Near(t, Placed(t, b, c, k))
         /\ Placed(t, b, c, k).bucket = Upd(t.bucket, b, EntryOf(t.bucket[b].data, c))
         /\ CellsKept(t, Placed(t, b, c, k), c)
<1>00. /\ Holds(t, L, P, K) /\ c \in Cells /\ c \notin L /\ c \notin P
       /\ b \in 0 .. t.n_buckets - 1 /\ t.bucket[b].data # NULL /\ k \in Keys \ K
       /\ Fits(k, t.n_buckets, b) /\ \A d \in P : t.cell[d].data # k
  BY DEF Placing
<1> USE <1>00
<1>0. PICK u : u = NewSet(t, b, c, EntryOf(k, t.bucket[b].next))
  OBVIOUS
<1>1. PICK N, F, D, H, n, own, rank, R :
           /\ Parts(t, N, F, D, H, n) /\ Whole(N, F, D, H, n, L, P, K, own, rank, R)
           /\ IsTable(t) /\ Table(t) /\ n \in Nat \ {0} /\ t.bucket \in [0 .. n - 1 -> Entry] /\ t.cell \in [Cells -> Entry]
           /\ t.free_entry_list \in Pointers
           /\ \A a \in Cells : D[a] = t.cell[a].data
           /\ \A a \in 0 .. n - 1 : H[a] = t.bucket[a].data /\ F[a] = t.bucket[a].next
  BY HoldsParts
<1>2. N = Nexts(t.cell) /\ F = Firsts(t.bucket, n, t.free_entry_list) /\ D = Datas(t.cell) /\ H = Heads(t.bucket, n)
      /\ n = t.n_buckets /\ b \in 0 .. n - 1
  BY <1>1 DEF Parts
<1>3. PICK p, h, bucket, cell : /\ p = t.bucket[b].next /\ h = t.bucket[b].data
                                /\ bucket = Upd(t.bucket, b, EntryOf(h, c)) /\ cell = Upd(t.cell, c, EntryOf(k, p))
  OBVIOUS
<1>4. p \in Pointers /\ H[b] = h /\ F[b] = p /\ h \in Keys \cup {NULL} /\ c \in Pointers
  <2>1. t.bucket[b] \in Entry
    BY <1>1, <1>2
  <2> QED
    BY <1>1, <1>2, <1>3, <2>1, EntryIs DEF Pointers
<1>5. /\ bucket \in [0 .. n - 1 -> Entry] /\ Heads(bucket, n) = Upd(H, b, h)
      /\ Firsts(bucket, n, t.free_entry_list) = Upd(F, b, c)
  <2>1. n \in Nat /\ t.bucket \in [0 .. n - 1 -> Entry]
    BY <1>1
  <2>5. Settable(t.bucket, n, b, h, c)
    BY <1>2, <1>4, <2>1 DEF Settable
  <2>2. Upd(t.bucket, b, EntryOf(h, c)) \in [0 .. n - 1 -> Entry]
    BY <2>5, BucketSet
  <2>3. Heads(Upd(t.bucket, b, EntryOf(h, c)), n) = Upd(Heads(t.bucket, n), b, h)
    BY <2>5, BucketSet
  <2>4. Firsts(Upd(t.bucket, b, EntryOf(h, c)), n, t.free_entry_list) = Upd(Firsts(t.bucket, n, t.free_entry_list), b, c)
    BY <2>5, FirstsSet
  <2> QED
    BY <1>2, <1>3, <2>2, <2>3, <2>4
<1>5a. /\ cell \in [Cells -> Entry] /\ Nexts(cell) = Upd(N, c, p) /\ Datas(cell) = Upd(D, c, k)
       /\ \A d \in Cells : d # c => cell[d] = t.cell[d]
  <2>1. t.cell \in [Cells -> Entry] /\ k \in Keys \cup {NULL}
    BY <1>1
  <2> QED
    BY <1>2, <1>3, <1>4, <2>1, CellSet
<1>5b. /\ Whole(N, F, D, H, n, L, P, K, own, rank, R)
       /\ H \in [0 .. n - 1 -> Keys \cup {NULL}] /\ D \in [Cells -> Keys \cup {NULL}]
  <2>1. Whole(N, F, D, H, n, L, P, K, own, rank, R)
    BY <1>1
  <2> QED
    BY <2>1, WholeHas
<1>6. Upd(H, b, h) = H
  <2>2. H \in [0 .. n - 1 -> Keys \cup {NULL}] /\ b \in 0 .. n - 1
    BY <1>2, <1>5b
  <2>3. Upd(H, b, H[b]) = H
    BY <2>2, UpdSame
  <2> QED
    BY <1>4, <2>3
<1>7. u = With(t, bucket, t.free_entry_list, cell)
  BY <1>0, <1>1, <1>3, NewLinkIs
<1>8. PICK E : E = Upd(D, c, k)
  OBVIOUS
<1>8a. Whole(N, F, E, H, n, L, P, K, own, rank, R)
  BY <1>5b, <1>8, PutData
<1>8b. E[c] = k /\ \A d \in Cells : d # c => E[d] = D[d]
  <2>1. D \in [Cells -> Keys \cup {NULL}] /\ k \in Keys \cup {NULL}
    BY <1>5b
  <2> QED
    BY <1>8, <2>1, UpdIs
<1>8c. PICK o, r, S : Whole(Upd(N, c, F[b]), Upd(F, b, c), E, H, n, L \cup {c}, P, K \cup {E[c]}, o, r, S)
  <2>1. \A d \in P : d \in Cells /\ d # c /\ D[d] = t.cell[d].data
    BY <1>1, HoldsTypes
  <2>2. /\ H[b] # NULL /\ E[c] \in Keys /\ E[c] \notin K /\ E[c] % n = b /\ \A d \in P : E[d] # E[c]
    BY <1>2, <1>3, <1>4, <1>8b, <2>1 DEF Fits
  <2> QED
    BY <1>8a, <1>2, <2>2, PutLink
<1>9. /\ Holds(u, L \cup {c}, P, K \cup {k}) /\ Near(t, u)
      /\ u.bucket = bucket /\ u.free_entry_list = t.free_entry_list /\ u.cell = cell
  <2>1. Linkage(bucket, n, t.free_entry_list, cell, L \cup {c}, P, K \cup {k})
    BY <1>4, <1>5, <1>5a, <1>6, <1>8, <1>8b, <1>8c DEF Linkage
  <2>2. /\ Table(t) /\ bucket \in [0 .. t.n_buckets - 1 -> Entry] /\ t.free_entry_list \in Pointers
        /\ Linkage(bucket, t.n_buckets, t.free_entry_list, cell, L \cup {c}, P, K \cup {k})
    BY <1>1, <1>2, <1>5, <2>1
  <2> QED
    BY <1>5a, <1>7, <2>2, HoldsWith
<1> QED
  BY <1>0, <1>3, <1>5a, <1>9 DEF Placed, CellsKept

\* A cell to be moved is taken in hand.
LEMMA HoldsInHand ==
  ASSUME NEW t, NEW L, NEW P, NEW K, Holds(t, L, P, K), NEW c \in P
  PROVE  /\ Holds(t, L, P \ {c}, K) /\ t.cell[c].data \in Keys \ K
         /\ Apart(t, P \ {c}, t.cell[c].data)
<1>1. PICK own, rank, R : Linked(t, L, P, K, own, rank, R)
  BY DEF Holds
<1>2. Linked(t, L, P \ {c}, K, own, rank, R)
  BY <1>1, WholeData DEF Linked
<1>3. P \subseteq Cells
  BY HoldsTypes
<1>4. /\ \A d \in P : Datas(t.cell)[d] \in Keys \ K
      /\ \A d, e \in P : Datas(t.cell)[d] = Datas(t.cell)[e] => d = e
  BY <1>1 DEF Linked, Whole, Content
<1>5. \A d \in P : Datas(t.cell)[d] = t.cell[d].data
  BY <1>3 DEF Datas
<1> QED
  BY <1>2, <1>4, <1>5 DEF Holds, Apart

\* The cell at the front of a bucket's chain: an entry of the table, and not the head's.
LEMMA FirstIs ==
  ASSUME NEW t, NEW L, NEW P, NEW K, Holds(t, L, P, K), NEW b \in 0 .. t.n_buckets - 1, t.bucket[b].next # NULL,
         NEW c, c = t.bucket[b].next, NEW k, k = t.cell[c].data
  PROVE  c \in L /\ c \in Cells /\ k \in K /\ Fits(k, t.n_buckets, b) /\ k # t.bucket[b].data /\ t.bucket[b].data # NULL
<1>1. PICK N, F, D, H, n, own, rank, R :
           /\ Parts(t, N, F, D, H, n) /\ Whole(N, F, D, H, n, L, P, K, own, rank, R)
           /\ \A a \in Cells : D[a] = t.cell[a].data
           /\ \A a \in 0 .. n - 1 : H[a] = t.bucket[a].data /\ F[a] = t.bucket[a].next
  BY HoldsParts
<1>2. n = t.n_buckets /\ b \in 0 .. n - 1 /\ F[b] = c /\ H[b] = t.bucket[b].data /\ c # NULL
  BY <1>1 DEF Parts
<1>3. Whole(N, F, D, H, n, L, P, K, own, rank, R)
  BY <1>1
<1>4. /\ \A o \in Owners(n) : F[o] # NULL => F[o] \in L /\ own[F[o]] = o
      /\ 0 .. n - 1 \subseteq Owners(n) /\ -1 \notin 0 .. n - 1 /\ L \subseteq Cells /\ D \in [Cells -> Keys \cup {NULL}]
  BY <1>3, WholeHas
<1>5. c \in L /\ own[c] = b /\ b # -1 /\ c \in Cells
  BY <1>2, <1>4
<1>6. D[c] = k
  BY <1>1, <1>5
<1>7. /\ \A d \in L : own[d] # -1 => D[d] # NULL /\ D[d] % n = own[d] /\ D[d] # H[own[d]]
      /\ \A j \in Keys : j \in K <=> (\E a \in 0 .. n - 1 : H[a] = j) \/ \E d \in L : own[d] # -1 /\ D[d] = j
      /\ \A a \in 0 .. n - 1 : IF H[a] = NULL THEN F[a] = NULL ELSE H[a] % n = a
  BY <1>3 DEF Whole, Content
<1>8. k # NULL /\ k % n = b /\ k # H[b] /\ k \in Keys
  BY <1>4, <1>5, <1>6, <1>7
<1>9. k \in K
  BY <1>5, <1>6, <1>7, <1>8
<1>10. H[b] # NULL
  BY <1>2, <1>7
<1> QED
  BY <1>2, <1>5, <1>8, <1>9, <1>10 DEF Fits

\* Cell c is the first of b's chain, with k in it and p behind it.
IsFirst(t, b, c, p, k) ==
  b \in 0 .. t.n_buckets - 1 /\ c = t.bucket[b].next /\ c # NULL /\ p = t.cell[c].next /\ k = t.cell[c].data

\* The first cell of a chain is taken out.
LEMMA HoldsUnlinkFirst ==
  ASSUME NEW t, NEW L, NEW P, NEW K, Holds(t, L, P, K), NEW b, NEW c, NEW p, NEW k, IsFirst(t, b, c, p, k)
  PROVE  /\ Holds(FirstSet(t, b, p), L \ {c}, P, K \ {k}) /\ Near(t, FirstSet(t, b, p))
         /\ FirstSet(t, b, p).bucket = Upd(t.bucket, b, EntryOf(t.bucket[b].data, p))
         /\ FirstSet(t, b, p).cell = t.cell
<1>00. b \in 0 .. t.n_buckets - 1 /\ c = t.bucket[b].next /\ t.bucket[b].next # NULL /\ p = t.cell[c].next /\ k = t.cell[c].data
  BY DEF IsFirst
<1>0. c \in L /\ c \in Cells
  BY <1>00, FirstIs
<1>1. PICK N, F, D, H, n, own, rank, R :
           /\ Parts(t, N, F, D, H, n) /\ Whole(N, F, D, H, n, L, P, K, own, rank, R)
           /\ IsTable(t) /\ Table(t) /\ n \in Nat \ {0} /\ t.bucket \in [0 .. n - 1 -> Entry] /\ t.cell \in [Cells -> Entry]
           /\ t.free_entry_list \in Pointers
           /\ \A a \in Cells : D[a] = t.cell[a].data /\ N[a] = t.cell[a].next
           /\ \A a \in 0 .. n - 1 : H[a] = t.bucket[a].data /\ F[a] = t.bucket[a].next
  BY HoldsParts
<1>2. N = Nexts(t.cell) /\ F = Firsts(t.bucket, n, t.free_entry_list) /\ D = Datas(t.cell) /\ H = Heads(t.bucket, n)
      /\ n = t.n_buckets /\ b \in 0 .. n - 1
  BY <1>00, <1>1 DEF Parts
<1>3. PICK h, bucket : h = t.bucket[b].data /\ bucket = Upd(t.bucket, b, EntryOf(h, p))
  OBVIOUS
<1>4. p \in Pointers /\ H[b] = h /\ F[b] = c /\ D[c] = k /\ N[c] = p /\ h \in Keys \cup {NULL} /\ c # NULL
  <2>1. t.bucket[b] \in Entry /\ t.cell[c] \in Entry
    BY <1>0, <1>1, <1>2
  <2> QED
    BY <1>00, <1>0, <1>1, <1>2, <1>3, <2>1, EntryIs
<1>5. /\ bucket \in [0 .. n - 1 -> Entry] /\ Heads(bucket, n) = Upd(H, b, h)
      /\ Firsts(bucket, n, t.free_entry_list) = Upd(F, b, p)
  <2>1. n \in Nat /\ t.bucket \in [0 .. n - 1 -> Entry]
    BY <1>1
  <2>5. Settable(t.bucket, n, b, h, p)
    BY <1>2, <1>4, <2>1 DEF Settable
  <2>2. Upd(t.bucket, b, EntryOf(h, p)) \in [0 .. n - 1 -> Entry]
    BY <2>5, BucketSet
  <2>3. Heads(Upd(t.bucket, b, EntryOf(h, p)), n) = Upd(Heads(t.bucket, n), b, h)
    BY <2>5, BucketSet
  <2>4. Firsts(Upd(t.bucket, b, EntryOf(h, p)), n, t.free_entry_list) = Upd(Firsts(t.bucket, n, t.free_entry_list), b, p)
    BY <2>5, FirstsSet
  <2> QED
    BY <1>2, <1>3, <2>2, <2>3, <2>4
<1>6. Upd(H, b, h) = H
  <2>1. Whole(N, F, D, H, n, L, P, K, own, rank, R)
    BY <1>1
  <2>2. H \in [0 .. n - 1 -> Keys \cup {NULL}]
    BY <2>1, WholeHas
  <2>3. Upd(H, b, H[b]) = H
    BY <1>2, <2>2, UpdSame
  <2> QED
    BY <1>4, <2>3
<1>7. FirstSet(t, b, p) = With(t, bucket, t.free_entry_list, t.cell)
  BY <1>00, <1>1, <1>3, BucketNextIs
<1>8. Whole(N, Upd(F, b, p), D, H, n, L \ {c}, P, K \ {k}, own, rank, R)
  <2>1. Whole(N, F, D, H, n, L, P, K, own, rank, R) /\ F[b] # NULL
    BY <1>1, <1>4
  <2>2. Whole(N, Upd(F, b, N[F[b]]), D, H, n, L \ {F[b]}, P, K \ {D[F[b]]}, own, rank, R)
    BY <1>2, <2>1, PutUnlinkFirst
  <2> QED
    BY <1>4, <2>2
<1>9. /\ Holds(FirstSet(t, b, p), L \ {c}, P, K \ {k}) /\ Near(t, FirstSet(t, b, p))
      /\ FirstSet(t, b, p).bucket = bucket /\ FirstSet(t, b, p).cell = t.cell
  <2>1. Linkage(bucket, n, t.free_entry_list, t.cell, L \ {c}, P, K \ {k})
    BY <1>2, <1>5, <1>6, <1>8 DEF Linkage
  <2>2. /\ Table(t) /\ bucket \in [0 .. t.n_buckets - 1 -> Entry] /\ t.cell \in [Cells -> Entry] /\ t.free_entry_list \in Pointers
        /\ Linkage(bucket, t.n_buckets, t.free_entry_list, t.cell, L \ {c}, P, K \ {k})
    BY <1>1, <1>2, <1>5, <2>1
  <2> QED
    BY <1>7, <2>2, HoldsWith
<1> QED
  BY <1>3, <1>9

\* A bucket's chain as the walk finds it.
LEMMA OverflowIs ==
  ASSUME NEW t, NEW L, NEW P, NEW K, Holds(t, L, P, K), NEW b \in 0 .. t.n_buckets - 1,
         NEW s, s = Overflow(t, b)
  PROVE  /\ s \in Seq(L) /\ DOMAIN s = 1 .. Len(s) /\ Len(s) \in Nat
         /\ Len(s) = 0 <=> t.bucket[b].next = NULL
         /\ Len(s) # 0 => s[1] = t.bucket[b].next
         /\ \A i \in 1 .. Len(s) : i < Len(s) => t.cell[s[i]].next = s[i + 1]
         /\ \A i, j \in 1 .. Len(s) : s[i] = s[j] => i = j
         /\ \A i \in 1 .. Len(s) : t.cell[s[i]].data \in K /\ Fits(t.cell[s[i]].data, t.n_buckets, b)
         /\ \A i, j \in 1 .. Len(s) : t.cell[s[i]].data = t.cell[s[j]].data => i = j
         /\ \A i \in 1 .. Len(s) : t.cell[s[i]].data # t.bucket[b].data
         /\ \A k \in K : Fits(k, t.n_buckets, b) => k = t.bucket[b].data \/ \E i \in 1 .. Len(s) : t.cell[s[i]].data = k
         /\ t.bucket[b].data = NULL => Len(s) = 0
         /\ t.bucket[b].data # NULL => t.bucket[b].data \in K /\ Fits(t.bucket[b].data, t.n_buckets, b)
<1>1. PICK N, F, D, H, n, own, rank, R :
           /\ Parts(t, N, F, D, H, n) /\ Whole(N, F, D, H, n, L, P, K, own, rank, R)
           /\ n \in Nat \ {0}
           /\ \A a \in Cells : D[a] = t.cell[a].data /\ N[a] = t.cell[a].next
           /\ \A a \in 0 .. n - 1 : H[a] = t.bucket[a].data /\ F[a] = t.bucket[a].next
  BY HoldsParts
<1>2. N = Nexts(t.cell) /\ n = t.n_buckets /\ b \in 0 .. n - 1 /\ F[b] = t.bucket[b].next /\ H[b] = t.bucket[b].data
  BY <1>1 DEF Parts
<1>3. Whole(N, F, D, H, n, L, P, K, own, rank, R)
  BY <1>1
<1>4. /\ 0 .. n - 1 \subseteq Owners(n) /\ -1 \notin 0 .. n - 1 /\ L \subseteq Cells /\ D \in [Cells -> Keys \cup {NULL}]
      /\ K \subseteq Keys /\ NULL \notin Keys /\ H \in [0 .. n - 1 -> Keys \cup {NULL}]
  BY <1>3, WholeHas
<1>5. Heap(Nexts(t.cell), F, L, n, own, rank, R) /\ b \in Owners(n)
  BY <1>2, <1>3, <1>4 DEF Whole
<1>6. Chain(CellsFrom(t.cell, F[b]), b, Nexts(t.cell), F, L, own)
  BY <1>5, ChainIs
<1>7. Chain(s, b, N, F, L, own)
  BY <1>2, <1>6 DEF Overflow
<1>8. /\ s \in Seq(L)
      /\ Len(s) = 0 <=> F[b] = NULL
      /\ Len(s) # 0 => s[1] = F[b]
      /\ \A i \in 1 .. Len(s) : own[s[i]] = b
      /\ \A i \in 1 .. Len(s) : i < Len(s) => N[s[i]] = s[i + 1]
      /\ \A i, j \in 1 .. Len(s) : s[i] = s[j] => i = j
      /\ \A c \in L : own[c] = b => \E i \in 1 .. Len(s) : s[i] = c
  BY <1>7 DEF Chain
<1>9. DOMAIN s = 1 .. Len(s) /\ Len(s) \in Nat /\ \A i \in 1 .. Len(s) : s[i] \in L
  BY <1>8
<1>10. \A i \in 1 .. Len(s) : s[i] \in Cells /\ D[s[i]] = t.cell[s[i]].data /\ N[s[i]] = t.cell[s[i]].next
  BY <1>1, <1>4, <1>9
<1>11. /\ \A d \in L : own[d] # -1 => D[d] # NULL /\ D[d] % n = own[d] /\ D[d] # H[own[d]]
       /\ \A j \in Keys : j \in K <=> (\E a \in 0 .. n - 1 : H[a] = j) \/ \E d \in L : own[d] # -1 /\ D[d] = j
       /\ \A c, d \in L : own[c] # -1 /\ own[d] # -1 /\ D[c] = D[d] => c = d
       /\ \A a \in 0 .. n - 1 : IF H[a] = NULL THEN F[a] = NULL ELSE H[a] % n = a
  BY <1>3 DEF Whole, Content
<1>12. b # -1
  BY <1>2, <1>4
<1>13. \A i \in 1 .. Len(s) : D[s[i]] # NULL /\ D[s[i]] % n = b /\ D[s[i]] # H[b] /\ D[s[i]] \in Keys
  BY <1>4, <1>8, <1>9, <1>10, <1>11, <1>12
<1>14. \A i \in 1 .. Len(s) : D[s[i]] \in K
  BY <1>8, <1>9, <1>11, <1>12, <1>13
<1>15. \A i, j \in 1 .. Len(s) : D[s[i]] = D[s[j]] => i = j
  BY <1>8, <1>9, <1>11, <1>12
<1>16. ASSUME NEW k \in K, k % n = b PROVE k = H[b] \/ \E i \in 1 .. Len(s) : D[s[i]] = k
  <2>1. CASE \E a \in 0 .. n - 1 : H[a] = k
    <3>1. PICK a \in 0 .. n - 1 : H[a] = k
      BY <2>1
    <3>2. H[a] # NULL
      BY <1>4, <3>1
    <3>3. a = b
      BY <1>11, <1>16, <3>1, <3>2
    <3> QED
      BY <3>1, <3>3
  <2>2. CASE \E d \in L : own[d] # -1 /\ D[d] = k
    <3>1. PICK d \in L : own[d] # -1 /\ D[d] = k
      BY <2>2
    <3>2. own[d] = b
      BY <1>11, <1>16, <3>1
    <3> QED
      BY <1>8, <3>1, <3>2
  <2> QED
    BY <1>4, <1>11, <2>1, <2>2
<1>17. H[b] = NULL => Len(s) = 0
  BY <1>2, <1>8, <1>11
<1>18. H[b] # NULL => H[b] \in K /\ H[b] % n = b
  <2>1. H[b] \in Keys \cup {NULL}
    BY <1>2, <1>4
  <2> QED
    BY <1>2, <1>11, <2>1
<1> QED
  BY <1>2, <1>8, <1>9, <1>10, <1>13, <1>14, <1>15, <1>16, <1>17, <1>18, SMTT(30) DEF Fits

\* Tables with the same fields are the same.
LEMMA SameTables ==
  ASSUME NEW t, NEW u, IsTable(t), IsTable(u), SameCounts(t, u), u.entry_stack = t.entry_stack,
         u.bucket = t.bucket, u.cell = t.cell, u.free_entry_list = t.free_entry_list
  PROVE  u = t
BY DEF IsTable, SameCounts

\* The second of two updates of a value counts.
LEMMA UpdTwice ==
  ASSUME NEW f, NEW x, NEW y, NEW z
  PROVE  Upd(Upd(f, x, y), x, z) = Upd(f, x, z)
BY DEF Upd

\* Cell c is a later one of b's chain, with k in it, p behind it and d before it.
IsLater(t, b, c, d, p, k) ==
  \E i \in 2 .. Len(Overflow(t, b)) :
    c = Overflow(t, b)[i] /\ d = Overflow(t, b)[i - 1] /\ p = t.cell[c].next /\ k = t.cell[c].data

\* A later cell of a chain is taken out.
LEMMA HoldsUnlinkLater ==
  ASSUME NEW t, NEW L, NEW P, NEW K, Holds(t, L, P, K), NEW b \in 0 .. t.n_buckets - 1,
         NEW c, NEW d, NEW p, NEW k, IsLater(t, b, c, d, p, k)
  PROVE  /\ Holds(NextSet(t, d, p), L \ {c}, P, K \ {k}) /\ Near(t, NextSet(t, d, p))
         /\ NextSet(t, d, p).bucket = t.bucket
<1>0. PICK s, i : s = Overflow(t, b) /\ i \in 2 .. Len(s) /\ c = s[i] /\ d = s[i - 1] /\ p = t.cell[c].next /\ k = t.cell[c].data
  BY DEF IsLater
<1>1. PICK N, F, D, H, n, own, rank, R :
           /\ Parts(t, N, F, D, H, n) /\ Whole(N, F, D, H, n, L, P, K, own, rank, R)
           /\ IsTable(t) /\ Table(t) /\ n \in Nat \ {0} /\ t.bucket \in [0 .. n - 1 -> Entry] /\ t.cell \in [Cells -> Entry]
           /\ t.free_entry_list \in Pointers
           /\ \A a \in Cells : D[a] = t.cell[a].data /\ N[a] = t.cell[a].next
           /\ \A a \in 0 .. n - 1 : H[a] = t.bucket[a].data /\ F[a] = t.bucket[a].next
  BY HoldsParts
<1>2. N = Nexts(t.cell) /\ F = Firsts(t.bucket, n, t.free_entry_list) /\ D = Datas(t.cell) /\ H = Heads(t.bucket, n)
      /\ n = t.n_buckets /\ b \in 0 .. n - 1 /\ F[b] = t.bucket[b].next
  BY <1>1 DEF Parts
<1>3. Whole(N, F, D, H, n, L, P, K, own, rank, R)
  BY <1>1
<1>4. 0 .. n - 1 \subseteq Owners(n) /\ -1 \notin 0 .. n - 1 /\ L \subseteq Cells /\ D \in [Cells -> Keys \cup {NULL}] /\ NULL \notin Cells
  BY <1>3, WholeHas
<1>5. Chain(s, b, N, F, L, own)
  <2>1. Heap(Nexts(t.cell), F, L, n, own, rank, R) /\ b \in Owners(n)
    BY <1>2, <1>3, <1>4 DEF Whole
  <2>2. Chain(CellsFrom(t.cell, F[b]), b, Nexts(t.cell), F, L, own)
    BY <2>1, ChainIs
  <2> QED
    BY <1>0, <1>2, <2>2 DEF Overflow
<1>6. d \in L /\ c \in L /\ N[d] = c /\ own[d] = b
  <2>1. /\ s \in Seq(L)
        /\ \A j \in 1 .. Len(s) : own[s[j]] = b
        /\ \A j \in 1 .. Len(s) : j < Len(s) => N[s[j]] = s[j + 1]
    BY <1>5 DEF Chain
  <2>2. Len(s) \in Nat /\ \A j \in 1 .. Len(s) : s[j] \in L
    BY <2>1
  <2>3. i - 1 \in 1 .. Len(s) /\ i \in 1 .. Len(s) /\ i - 1 < Len(s) /\ (i - 1) + 1 = i
    BY <1>0, <2>2
  <2> QED
    BY <1>0, <2>1, <2>2, <2>3
<1>7. d \in Cells /\ c \in Cells /\ c # NULL /\ own[d] # -1
  BY <1>2, <1>4, <1>6
<1>8. PICK e, cell : e = t.cell[d].data /\ cell = Upd(t.cell, d, EntryOf(e, p))
  OBVIOUS
<1>9. p \in Pointers /\ e \in Keys \cup {NULL} /\ D[d] = e /\ D[c] = k /\ N[c] = p
  <2>1. t.cell[d] \in Entry /\ t.cell[c] \in Entry
    BY <1>1, <1>7
  <2> QED
    BY <1>0, <1>1, <1>7, <1>8, <2>1, EntryIs
<1>10. cell \in [Cells -> Entry] /\ Nexts(cell) = Upd(N, d, p) /\ Datas(cell) = Upd(D, d, e)
  <2>1. t.cell \in [Cells -> Entry]
    BY <1>1
  <2> QED
    BY <1>2, <1>7, <1>8, <1>9, <2>1, CellSet
<1>11. Upd(D, d, e) = D
  <2>1. D = [x \in DOMAIN D |-> D[x]] /\ d \in DOMAIN D
    BY <1>4, <1>7
  <2> QED
    BY <1>9, <2>1, UpdSame
<1>12. Whole(Upd(N, d, p), F, D, H, n, L \ {c}, P, K \ {k}, own, rank, R)
  <2>1. Whole(Upd(N, d, N[N[d]]), F, D, H, n, L \ {N[d]}, P, K \ {D[N[d]]}, own, rank, R)
    BY <1>3, <1>6, <1>7, PutUnlinkLater
  <2> QED
    BY <1>6, <1>9, <2>1
<1>13. NextSet(t, d, p) = With(t, t.bucket, t.free_entry_list, cell)
  BY <1>1, <1>7, <1>8, CellNextIs
<1>14. Linkage(t.bucket, n, t.free_entry_list, cell, L \ {c}, P, K \ {k})
  BY <1>2, <1>10, <1>11, <1>12 DEF Linkage
<1>15. /\ Table(t) /\ t.bucket \in [0 .. t.n_buckets - 1 -> Entry] /\ t.free_entry_list \in Pointers
       /\ Linkage(t.bucket, t.n_buckets, t.free_entry_list, cell, L \ {c}, P, K \ {k})
  BY <1>1, <1>2, <1>14
<1>16. cell \in [Cells -> Entry]
  BY <1>10
<1>17. Holds(NextSet(t, d, p), L \ {c}, P, K \ {k}) /\ Near(t, NextSet(t, d, p))
  BY <1>13, <1>15, <1>16, HoldsWith
<1>18. NextSet(t, d, p).bucket = t.bucket
  BY <1>13, <1>15, <1>16, HoldsWith
<1> QED
  BY <1>17, <1>18

\* Only bucket b may differ.
Elsewhere(t, u, b) == \A a \in 0 .. t.n_buckets - 1 : a # b => u.bucket[a] = t.bucket[a]

\* The entry in a bucket's head is deleted.
LEMMA HoldsHeadDeleted ==
  ASSUME NEW t, NEW L, NEW P, NEW K, Holds(t, L, P, K), NEW b \in 0 .. t.n_buckets - 1,
         NEW k, k = t.bucket[b].data, k # NULL
  PROVE  /\ Holds(HeadDeleted(t, b), L, P, K \ {k}) /\ Near(t, HeadDeleted(t, b))
         /\ Elsewhere(t, HeadDeleted(t, b), b)
<1>1. /\ Table(t) /\ L \subseteq Cells /\ P \subseteq Cells /\ L \cap P = {} /\ K \subseteq Keys
  BY HoldsTypes
<1>2. t.bucket \in [0 .. t.n_buckets - 1 -> Entry] /\ t.n_buckets \in Nat /\ t.bucket[b] \in Entry /\ DOMAIN t.bucket = 0 .. t.n_buckets - 1
  BY <1>1 DEF Table
<1>3. CASE t.bucket[b].next = NULL
  <2>1. HeadDeleted(t, b) = HeadSet(t, b, NULL)
    BY <1>3 DEF HeadDeleted, HeadSet
  <2>2. PICK u : u = HeadSet(t, b, NULL)
    OBVIOUS
  <2>3. /\ Holds(u, L, P, (K \ {t.bucket[b].data}) \cup ({NULL} \ {NULL})) /\ Near(t, u)
        /\ u.bucket = Upd(t.bucket, b, EntryOf(NULL, t.bucket[b].next))
    BY <1>3, <2>2, HoldsHead
  <2>4. (K \ {t.bucket[b].data}) \cup ({NULL} \ {NULL}) = K \ {k}
    OBVIOUS
  <2>5. \A a \in 0 .. t.n_buckets - 1 : a # b => u.bucket[a] = t.bucket[a]
    BY <1>2, <2>3, UpdIs
  <2> QED
    BY <2>1, <2>2, <2>3, <2>4, <2>5 DEF Elsewhere
<1>4. CASE t.bucket[b].next # NULL
  <2>1. PICK c, p, e : c = t.bucket[b].next /\ p = t.cell[c].next /\ e = t.cell[c].data
    OBVIOUS
  <2>2. c \in L /\ c \in Cells /\ e \in K /\ Fits(e, t.n_buckets, b) /\ e # k
    BY <1>4, <2>1, FirstIs
  <2>3. PICK u : u = FirstSet(t, b, p)
    OBVIOUS
  <2>4. /\ Holds(u, L \ {c}, P, K \ {e}) /\ Near(t, u)
        /\ u.bucket = Upd(t.bucket, b, EntryOf(k, p)) /\ u.cell = t.cell
    <3>1. IsFirst(t, b, c, p, e)
      BY <1>4, <2>1 DEF IsFirst
    <3>2. /\ Holds(FirstSet(t, b, p), L \ {c}, P, K \ {e}) /\ Near(t, FirstSet(t, b, p))
          /\ FirstSet(t, b, p).bucket = Upd(t.bucket, b, EntryOf(t.bucket[b].data, p))
          /\ FirstSet(t, b, p).cell = t.cell
      BY <3>1, HoldsUnlinkFirst
    <3> QED
      BY <2>3, <3>2
  <2>5. u.n_buckets = t.n_buckets
    BY <2>4 DEF Near, SameCounts
  <2>6. p \in Pointers /\ e \in Keys /\ k \in Keys \cup {NULL} /\ t.cell[c] = EntryOf(e, p)
    <3>1. t.cell[c] \in Entry
      BY <2>2, HoldsTypes
    <3> QED
      BY <1>1, <1>2, <2>1, <2>2, <3>1, EntryIs
  <2>7. u.bucket[b] = EntryOf(k, p) /\ \A a \in 0 .. t.n_buckets - 1 : a # b => u.bucket[a] = t.bucket[a]
    BY <1>2, <2>4, UpdIs
  <2>8. u.bucket[b].data = k /\ u.bucket[b].next = p
    BY <2>7, EntryIs
  <2>9. \A d \in P : u.cell[d].data # e
    <3>1. TAKE d \in P
    <3>2. t.cell[d].data \in Keys \ K
      BY HoldsInHand
    <3> QED
      BY <2>2, <2>4, <3>2
  <2>10. PICK v : v = HeadSet(u, b, e)
    OBVIOUS
  <2>11. /\ Holds(v, L \ {c}, P, ((K \ {e}) \ {k}) \cup ({e} \ {NULL})) /\ Near(u, v)
         /\ v.cell = t.cell /\ v.bucket = Upd(u.bucket, b, EntryOf(e, p))
         /\ v.free_entry_list = u.free_entry_list
    <3>1. b \in 0 .. u.n_buckets - 1 /\ e \in Keys \cup {NULL} /\ e # NULL /\ e \notin K \ {e} /\ Fits(e, u.n_buckets, b)
      BY <2>2, <2>5, <2>6, HashAssumption DEF NULL
    <3>2. /\ Holds(v, L \ {c}, P, ((K \ {e}) \ {u.bucket[b].data}) \cup ({e} \ {NULL})) /\ Near(u, v)
          /\ v.cell = u.cell /\ v.bucket = Upd(u.bucket, b, EntryOf(e, u.bucket[b].next))
          /\ v.free_entry_list = u.free_entry_list
      BY <2>4, <2>9, <2>10, <3>1, HoldsHead
    <3> QED
      BY <2>4, <2>8, <3>2
  <2>12. ((K \ {e}) \ {k}) \cup ({e} \ {NULL}) = K \ {k}
    BY <1>1, <2>2, HashAssumption DEF NULL
  <2>13. v.bucket = Upd(t.bucket, b, t.cell[c])
    BY <2>4, <2>6, <2>11, UpdTwice
  <2>14. u.free_entry_list = t.free_entry_list
    BY <1>1, <2>3, BucketNextIs, WithIs
  <2>15. PICK w : w = [t EXCEPT !.bucket[b] = t.cell[c]]
    OBVIOUS
  <2>16. w = With(t, Upd(t.bucket, b, t.cell[c]), t.free_entry_list, t.cell)
    BY <1>1, <2>15, BucketEntryIs
  <2>17. /\ w.bucket = v.bucket /\ w.free_entry_list = v.free_entry_list /\ w.cell = v.cell
         /\ SameCounts(v, w) /\ w.entry_stack = v.entry_stack /\ IsTable(w) /\ IsTable(v)
    <3>1. /\ w.bucket = Upd(t.bucket, b, t.cell[c]) /\ SameCounts(t, w) /\ w.free_entry_list = t.free_entry_list
          /\ w.entry_stack = t.entry_stack /\ w.cell = t.cell /\ IsTable(w)
      BY <2>16, WithIs
    <3> QED
      BY <2>4, <2>11, <2>13, <2>14, <3>1 DEF Near, SameCounts, Table
  <2>18. w = v
    BY <2>17, SameTables
  <2>19. HeadDeleted(t, b) = free_entry(v, c)
    BY <1>4, <2>1, <2>15, <2>18 DEF HeadDeleted
  <2>20. /\ Holds(free_entry(v, c), (L \ {c}) \cup {c}, P, K \ {k}) /\ Near(v, free_entry(v, c))
         /\ free_entry(v, c).bucket = v.bucket
    <3>1. c \in Cells /\ c \notin L \ {c} /\ c \notin P /\ Holds(v, L \ {c}, P, K \ {k})
      BY <1>1, <2>2, <2>11, <2>12
    <3> QED
      BY <3>1, HoldsFree
  <2>21. (L \ {c}) \cup {c} = L
    BY <2>2
  <2>22. Near(t, free_entry(v, c))
    BY <2>4, <2>11, <2>20 DEF Near, SameCounts
  <2>23. \A a \in 0 .. t.n_buckets - 1 : a # b => v.bucket[a] = t.bucket[a]
    BY <1>2, <2>13, UpdIs
  <2> QED
    BY <2>19, <2>20, <2>21, <2>22, <2>23 DEF Elsewhere
<1> QED
  BY <1>3, <1>4

\* The entry in a cell of a bucket's chain is deleted.
LEMMA HoldsOverflowDeleted ==
  ASSUME NEW t, NEW L, NEW P, NEW K, Holds(t, L, P, K), NEW b \in 0 .. t.n_buckets - 1,
         NEW k \in K, Fits(k, t.n_buckets, b), k # t.bucket[b].data
  PROVE  /\ Holds(OverflowDeleted(t, b, k), L, P, K \ {k}) /\ Near(t, OverflowDeleted(t, b, k))
         /\ Elsewhere(t, OverflowDeleted(t, b, k), b)
         /\ OverflowDeleted(t, b, k).bucket[b].data = t.bucket[b].data
<1>1. /\ Table(t) /\ L \subseteq Cells /\ P \subseteq Cells /\ L \cap P = {} /\ K \subseteq Keys
  BY HoldsTypes
<1>2. t.bucket \in [0 .. t.n_buckets - 1 -> Entry] /\ t.n_buckets \in Nat /\ t.bucket[b] \in Entry /\ DOMAIN t.bucket = 0 .. t.n_buckets - 1
  BY <1>1 DEF Table
<1>3. PICK s : s = Overflow(t, b)
  OBVIOUS
<1>4. /\ s \in Seq(L) /\ DOMAIN s = 1 .. Len(s) /\ Len(s) \in Nat
      /\ Len(s) = 0 <=> t.bucket[b].next = NULL
      /\ Len(s) # 0 => s[1] = t.bucket[b].next
      /\ \A j \in K : Fits(j, t.n_buckets, b) => j = t.bucket[b].data \/ \E i \in 1 .. Len(s) : t.cell[s[i]].data = j
  BY <1>3, OverflowIs
<1>5. PICK i : i = CHOOSE j \in DOMAIN Overflow(t, b) : t.cell[Overflow(t, b)[j]].data = k
  OBVIOUS
<1>6. i \in 1 .. Len(s) /\ t.cell[s[i]].data = k
  BY <1>3, <1>4, <1>5
<1>7. PICK c, p : c = s[i] /\ p = t.cell[c].next
  OBVIOUS
<1>8. c \in L /\ c \in Cells /\ c \notin P /\ c \notin L \ {c} /\ (L \ {c}) \cup {c} = L
  <2>1. \A j \in 1 .. Len(s) : s[j] \in L
    BY <1>4
  <2> QED
    BY <1>1, <1>6, <1>7, <2>1
<1>9. PICK u : u = IF i = 1 THEN FirstSet(t, b, p) ELSE NextSet(t, s[i - 1], p)
  OBVIOUS
<1>10. OverflowDeleted(t, b, k) = free_entry(u, c)
  <2>1. OverflowDeleted(t, b, k) =
          free_entry(IF i = 1 THEN [t EXCEPT !.bucket[b].next = t.cell[Overflow(t, b)[i]].next]
                     ELSE [t EXCEPT !.cell[Overflow(t, b)[i - 1]].next = t.cell[Overflow(t, b)[i]].next], Overflow(t, b)[i])
    BY <1>5 DEF OverflowDeleted
  <2>2. OverflowDeleted(t, b, k) =
          free_entry(IF i = 1 THEN FirstSet(t, b, t.cell[Overflow(t, b)[i]].next)
                     ELSE NextSet(t, Overflow(t, b)[i - 1], t.cell[Overflow(t, b)[i]].next), Overflow(t, b)[i])
    BY <2>1 DEF FirstSet, NextSet
  <2> QED
    BY <1>3, <1>7, <1>9, <2>2
<1>11. /\ Holds(u, L \ {c}, P, K \ {k}) /\ Near(t, u)
       /\ \A a \in 0 .. t.n_buckets - 1 : a # b => u.bucket[a] = t.bucket[a]
       /\ u.bucket[b].data = t.bucket[b].data
  <2>1. CASE i = 1
    <3>1. c = t.bucket[b].next /\ t.bucket[b].next # NULL /\ k = t.cell[c].data
      BY <1>4, <1>6, <1>7, <2>1
    <3>2. u = FirstSet(t, b, p)
      BY <1>9, <2>1
    <3>5. IsFirst(t, b, c, p, k)
      BY <1>7, <3>1 DEF IsFirst
    <3>6. /\ Holds(FirstSet(t, b, p), L \ {c}, P, K \ {k}) /\ Near(t, FirstSet(t, b, p))
          /\ FirstSet(t, b, p).bucket = Upd(t.bucket, b, EntryOf(t.bucket[b].data, p))
      BY <3>5, HoldsUnlinkFirst
    <3>3. /\ Holds(u, L \ {c}, P, K \ {k}) /\ Near(t, u)
          /\ u.bucket = Upd(t.bucket, b, EntryOf(t.bucket[b].data, p))
      BY <3>2, <3>6
    <3>4. u.bucket[b] = EntryOf(t.bucket[b].data, p) /\ \A a \in 0 .. t.n_buckets - 1 : a # b => u.bucket[a] = t.bucket[a]
      BY <1>2, <3>3, UpdIs
    <3> QED
      BY <3>3, <3>4, EntryIs
  <2>2. CASE i # 1
    <3>1. i \in 2 .. Len(s)
      BY <1>4, <1>6, <2>2
    <3>2. u = NextSet(t, s[i - 1], p)
      BY <1>9, <2>2
    <3>3. PICK d : d = s[i - 1]
      OBVIOUS
    <3>4. /\ Holds(NextSet(t, d, p), L \ {c}, P, K \ {k}) /\ Near(t, NextSet(t, d, p))
          /\ NextSet(t, d, p).bucket = t.bucket
      <4>1. IsLater(t, b, c, d, p, k)
        BY <1>3, <1>6, <1>7, <3>1, <3>3 DEF IsLater
      <4> QED
        BY <4>1, HoldsUnlinkLater
    <3> QED
      BY <3>2, <3>3, <3>4
  <2> QED
    BY <2>1, <2>2
<1>12. /\ Holds(free_entry(u, c), (L \ {c}) \cup {c}, P, K \ {k}) /\ Near(u, free_entry(u, c))
       /\ free_entry(u, c).bucket = u.bucket
  BY <1>8, <1>11, HoldsFree
<1>13. Near(t, free_entry(u, c))
  BY <1>11, <1>12 DEF Near, SameCounts
<1> QED
  BY <1>8, <1>10, <1>11, <1>12, <1>13 DEF Elsewhere

-----------------------------------------------------------------------------
(* Lookups.                                                                 *)

\* The counters and the end of the stack play no part in what a table holds.
LEMMA HoldsSame ==
  ASSUME NEW t, NEW u, NEW L, NEW P, NEW K, Holds(t, L, P, K), IsTable(u), u.bucket = t.bucket, u.n_buckets = t.n_buckets,
         u.free_entry_list = t.free_entry_list, u.cell = t.cell
  PROVE  Holds(u, L, P, K)
BY DEF Holds, Table, Linked

\* The counters and the end of the stack play no part in what a table holds.
LEMMA HoldsCounts ==
  ASSUME NEW t, NEW L, NEW P, NEW K, Holds(t, L, P, K), NEW x
  PROVE  /\ Holds(SetUsed(t, x), L, P, K)
         /\ SetUsed(t, x).bucket = t.bucket /\ SetUsed(t, x).n_buckets = t.n_buckets /\ SetUsed(t, x).n_buckets_used = x
         /\ SetUsed(t, x).n_entries = t.n_entries /\ SetUsed(t, x).entry_stack = t.entry_stack
         /\ SetUsed(t, x).cell = t.cell
         /\ Holds(SetCount(t, x), L, P, K)
         /\ SetCount(t, x).bucket = t.bucket /\ SetCount(t, x).n_buckets = t.n_buckets
         /\ SetCount(t, x).n_buckets_used = t.n_buckets_used
         /\ SetCount(t, x).n_entries = x /\ SetCount(t, x).entry_stack = t.entry_stack
         /\ Holds(SetTop(t, x), L, P, K)
         /\ SetTop(t, x).bucket = t.bucket /\ SetTop(t, x).n_buckets = t.n_buckets
         /\ SetTop(t, x).n_buckets_used = t.n_buckets_used /\ SetTop(t, x).cell = t.cell
         /\ SetTop(t, x).n_entries = t.n_entries /\ SetTop(t, x).entry_stack = x
         /\ SetTop(t, x).free_entry_list = t.free_entry_list
<1>1. IsTable(t)
  BY DEF Holds, Table
<1>2. PICK u : u = SetUsed(t, x)
  OBVIOUS
<1>3. /\ u.bucket = t.bucket /\ u.n_buckets = t.n_buckets /\ u.n_buckets_used = x /\ u.n_entries = t.n_entries
      /\ u.free_entry_list = t.free_entry_list /\ u.entry_stack = t.entry_stack /\ u.cell = t.cell /\ IsTable(u)
  BY <1>1, <1>2, Sets, FieldsAre
<1>4. Holds(u, L, P, K)
  BY <1>3, HoldsSame
<1>5. PICK v : v = SetCount(t, x)
  OBVIOUS
<1>6. /\ v.bucket = t.bucket /\ v.n_buckets = t.n_buckets /\ v.n_buckets_used = t.n_buckets_used /\ v.n_entries = x
      /\ v.free_entry_list = t.free_entry_list /\ v.entry_stack = t.entry_stack /\ v.cell = t.cell /\ IsTable(v)
  BY <1>1, <1>5, Sets, FieldsAre
<1>7. Holds(v, L, P, K)
  BY <1>6, HoldsSame
<1>8. PICK w : w = SetTop(t, x)
  OBVIOUS
<1>9. /\ w.bucket = t.bucket /\ w.n_buckets = t.n_buckets /\ w.n_buckets_used = t.n_buckets_used /\ w.n_entries = t.n_entries
      /\ w.free_entry_list = t.free_entry_list /\ w.entry_stack = x /\ w.cell = t.cell /\ IsTable(w)
  BY <1>1, <1>8, Sets, FieldsAre
<1>10. Holds(w, L, P, K)
  BY <1>9, HoldsSame
<1> QED
  BY <1>2, <1>3, <1>4, <1>5, <1>6, <1>7, <1>8, <1>9, <1>10

\* The bucket a key belongs to.
LEMMA HashIs ==
  ASSUME NEW t, Table(t), NEW k \in Keys
  PROVE  safe_hasher(t, k) \in 0 .. t.n_buckets - 1 /\ Fits(k, t.n_buckets, safe_hasher(t, k))
<1>1. k \in Nat /\ t.n_buckets \in Nat \ {0}
  BY HashAssumption DEF Table
<1>2. \A i \in Nat, n \in Nat \ {0} : i % n \in 0 .. n - 1
  OBVIOUS
<1>3. k % t.n_buckets \in 0 .. t.n_buckets - 1
  BY <1>1, <1>2
<1> QED
  BY <1>3 DEF safe_hasher, Fits

\* A key belongs to one bucket.
LEMMA FitsOne ==
  ASSUME NEW k, NEW n, NEW a, NEW b, Fits(k, n, a), Fits(k, n, b)
  PROVE  a = b
BY DEF Fits

\* What a walk along a bucket compares with: the members of the set that belong there, once each.
LEMMA EntriesAre ==
  ASSUME NEW t, NEW L, NEW P, NEW K, Holds(t, L, P, K), NEW b \in 0 .. t.n_buckets - 1, NEW e, e = Entries(t, b)
  PROVE  /\ e \in Seq(K) /\ \A i, j \in 1 .. Len(e) : e[i] = e[j] => i = j
         /\ \A k \in K : Fits(k, t.n_buckets, b) <=> \E i \in 1 .. Len(e) : e[i] = k
<1>1. PICK s, h : s = Overflow(t, b) /\ h = t.bucket[b].data
  OBVIOUS
<1>2. /\ DOMAIN s = 1 .. Len(s) /\ Len(s) \in Nat
      /\ \A i \in 1 .. Len(s) : t.cell[s[i]].data \in K /\ Fits(t.cell[s[i]].data, t.n_buckets, b)
      /\ \A i, j \in 1 .. Len(s) : t.cell[s[i]].data = t.cell[s[j]].data => i = j
      /\ \A i \in 1 .. Len(s) : t.cell[s[i]].data # h
      /\ \A k \in K : Fits(k, t.n_buckets, b) => k = h \/ \E i \in 1 .. Len(s) : t.cell[s[i]].data = k
      /\ h = NULL => Len(s) = 0
      /\ h # NULL => h \in K /\ Fits(h, t.n_buckets, b)
  BY <1>1, OverflowIs, SMTT(30)
<1>3. K \subseteq Keys /\ NULL \notin Keys
  BY HoldsTypes, HashAssumption DEF NULL
<1>4. CASE h = NULL
  <2>1. e = <<>>
    BY <1>1, <1>4 DEF Entries
  <2> QED
    BY <1>2, <1>3, <1>4, <2>1
<1>5. CASE h # NULL
  <2> DEFINE d == [i \in 1 .. Len(s) |-> t.cell[s[i]].data]
  <2>1. e = <<h>> \o d
    BY <1>1, <1>2, <1>5 DEF Entries
  <2>2. d \in Seq(K) /\ Len(d) = Len(s) /\ \A i \in 1 .. Len(s) : d[i] = t.cell[s[i]].data
    BY <1>2
  <2> HIDE DEF d
  <2>3. /\ e \in Seq(K) /\ Len(e) = Len(s) + 1 /\ e[1] = h
        /\ \A i \in 1 .. Len(s) : e[i + 1] = d[i]
    BY <1>2, <1>5, <2>1, <2>2
  <2>4. \A i \in 2 .. Len(e) : i - 1 \in 1 .. Len(s) /\ e[i] = d[i - 1]
    <3> TAKE i \in 2 .. Len(e)
    <3>1. i - 1 \in 1 .. Len(s) /\ (i - 1) + 1 = i
      BY <1>2, <2>3
    <3> QED
      BY <2>3, <3>1
  <2>5. \A i \in 1 .. Len(e) : i = 1 \/ i \in 2 .. Len(e)
    OBVIOUS
  <2>8. \A i \in 2 .. Len(e) : e[i] # h /\ Fits(e[i], t.n_buckets, b)
    <3> TAKE i \in 2 .. Len(e)
    <3>1. i - 1 \in 1 .. Len(s) /\ e[i] = t.cell[s[i - 1]].data
      BY <2>2, <2>4
    <3> QED
      BY <1>2, <3>1
  <2>6. ASSUME NEW i \in 1 .. Len(e), NEW j \in 1 .. Len(e), e[i] = e[j] PROVE i = j
    <3>1. CASE i = 1 \/ j = 1
      BY <2>3, <2>5, <2>6, <2>8, <3>1
    <3>2. CASE i # 1 /\ j # 1
      <4>1. d[i - 1] = d[j - 1] /\ i - 1 \in 1 .. Len(s) /\ j - 1 \in 1 .. Len(s)
        BY <2>4, <2>5, <2>6, <3>2
      <4>2. i - 1 = j - 1
        BY <1>2, <2>2, <4>1
      <4> QED
        BY <4>2
    <3> QED
      BY <3>1, <3>2
  <2>7. ASSUME NEW k \in K PROVE Fits(k, t.n_buckets, b) <=> \E i \in 1 .. Len(e) : e[i] = k
    <3>1. ASSUME Fits(k, t.n_buckets, b) PROVE \E i \in 1 .. Len(e) : e[i] = k
      <4>1. CASE k = h
        BY <1>2, <2>3, <4>1
      <4>2. CASE k # h
        <5>1. PICK i \in 1 .. Len(s) : d[i] = k
          BY <1>2, <2>2, <3>1, <4>2
        <5>2. i + 1 \in 1 .. Len(e)
          BY <1>2, <2>3, <5>1
        <5> QED
          BY <2>3, <5>1, <5>2
      <4> QED
        BY <4>1, <4>2
    <3>2. ASSUME NEW i \in 1 .. Len(e), e[i] = k PROVE Fits(k, t.n_buckets, b)
      BY <1>2, <1>5, <2>3, <2>5, <2>8, <3>2
    <3> QED
      BY <3>1, <3>2
  <2> QED
    BY <2>3, <2>6, <2>7
<1> QED
  BY <1>4, <1>5

\* hash_find_entry finds the members and nothing else.
LEMMA HasIs ==
  ASSUME NEW t, NEW L, NEW P, NEW K, Holds(t, L, P, K), NEW k \in Keys
  PROVE  Has(t, k) <=> k \in K
<1>1. PICK b, e : b = safe_hasher(t, k) /\ e = Entries(t, b)
  OBVIOUS
<1>2. b \in 0 .. t.n_buckets - 1 /\ Fits(k, t.n_buckets, b)
  BY <1>1, HoldsTypes, HashIs
<1>3. /\ e \in Seq(K)
      /\ \A j \in K : Fits(j, t.n_buckets, b) <=> \E i \in 1 .. Len(e) : e[i] = j
  BY <1>1, <1>2, EntriesAre
<1>4. Has(t, k) <=> \E i \in DOMAIN e : e[i] = k
  BY <1>1 DEF Has, ToSet
<1>5. DOMAIN e = 1 .. Len(e) /\ \A i \in 1 .. Len(e) : e[i] \in K
  BY <1>3
<1> QED
  BY <1>2, <1>3, <1>4, <1>5

-----------------------------------------------------------------------------
(* The count of used buckets, deletion and insertion.                       *)

Tally(t) == t.n_buckets_used = Cardinality(Used(t))

\* The used buckets are at most all of them.
LEMMA UsedIs ==
  ASSUME NEW t, NEW n, n = t.n_buckets, n \in Nat
  PROVE  /\ IsFiniteSet(Used(t)) /\ Cardinality(Used(t)) \in 0 .. n
         /\ \A b : b \in Used(t) <=> b \in 0 .. n - 1 /\ t.bucket[b].data # NULL
<1>1. IsFiniteSet(0 .. n - 1) /\ Cardinality(0 .. n - 1) = n
  <2>1. 0 \in Int /\ n - 1 \in Int /\ (IF 0 > n - 1 THEN 0 ELSE (n - 1) - 0 + 1) = n
    OBVIOUS
  <2> QED
    BY <2>1, FS_Interval
<1>2. Used(t) \subseteq 0 .. n - 1
  BY DEF Used
<1>3. IsFiniteSet(Used(t)) /\ Cardinality(Used(t)) <= n /\ Cardinality(Used(t)) \in Nat
  BY <1>1, <1>2, FS_Subset, FS_CardinalityType
<1> QED
  BY <1>3 DEF Used

\* One bucket's head changes.
LEMMA UsedChanges ==
  ASSUME NEW t, NEW u, NEW b \in 0 .. t.n_buckets - 1, t.n_buckets \in Nat, u.n_buckets = t.n_buckets,
         \A a \in 0 .. t.n_buckets - 1 : a # b => u.bucket[a].data = t.bucket[a].data
  PROVE  /\ (u.bucket[b].data = NULL <=> t.bucket[b].data = NULL) => Used(u) = Used(t)
         /\ u.bucket[b].data # NULL /\ t.bucket[b].data = NULL => Cardinality(Used(u)) = Cardinality(Used(t)) + 1
         /\ u.bucket[b].data = NULL /\ t.bucket[b].data # NULL => Cardinality(Used(u)) = Cardinality(Used(t)) - 1
<1>1. /\ IsFiniteSet(Used(t)) /\ Cardinality(Used(t)) \in Nat
      /\ \A a : a \in Used(t) <=> a \in 0 .. t.n_buckets - 1 /\ t.bucket[a].data # NULL
      /\ \A a : a \in Used(u) <=> a \in 0 .. t.n_buckets - 1 /\ u.bucket[a].data # NULL
  BY UsedIs
<1>2. (u.bucket[b].data = NULL <=> t.bucket[b].data = NULL) => Used(u) = Used(t)
  BY <1>1
<1>3. ASSUME u.bucket[b].data # NULL, t.bucket[b].data = NULL PROVE Cardinality(Used(u)) = Cardinality(Used(t)) + 1
  <2>1. Used(u) = Used(t) \cup {b} /\ b \notin Used(t)
    BY <1>1, <1>3
  <2>2. PICK S : S = Used(t)
    OBVIOUS
  <2>3. Cardinality(S \cup {b}) = Cardinality(S) + 1
    BY <1>1, <2>1, <2>2, FS_AddElement
  <2> QED
    BY <2>1, <2>2, <2>3
<1>4. ASSUME u.bucket[b].data = NULL, t.bucket[b].data # NULL PROVE Cardinality(Used(u)) = Cardinality(Used(t)) - 1
  <2>1. Used(u) = Used(t) \ {b} /\ b \in Used(t)
    BY <1>1, <1>4
  <2> QED
    BY <1>1, <2>1, FS_RemoveElement
<1> QED
  BY <1>2, <1>3, <1>4

\* A member's bucket is used.
LEMMA MemberUses ==
  ASSUME NEW t, NEW L, NEW P, NEW K, Holds(t, L, P, K), NEW k \in K, NEW b \in 0 .. t.n_buckets - 1, Fits(k, t.n_buckets, b)
  PROVE  t.bucket[b].data # NULL
<1>1. PICK s : s = Overflow(t, b)
  OBVIOUS
<1>2. /\ Len(s) \in Nat
      /\ \A j \in K : Fits(j, t.n_buckets, b) => j = t.bucket[b].data \/ \E i \in 1 .. Len(s) : t.cell[s[i]].data = j
      /\ t.bucket[b].data = NULL => Len(s) = 0
  BY <1>1, OverflowIs
<1>3. k # NULL
  BY HoldsTypes, HashAssumption DEF NULL
<1> QED
  BY <1>2, <1>3

\* hash_find_entry with DELETE takes out the member and no other.
LEMMA HoldsDeleted ==
  ASSUME NEW t, NEW L, NEW P, NEW K, Holds(t, L, P, K), NEW k \in K, NEW b, b = safe_hasher(t, k)
  PROVE  /\ Holds(Deleted(t, k), L, P, K \ {k}) /\ Near(t, Deleted(t, k)) /\ b \in 0 .. t.n_buckets - 1
         /\ t.bucket[b].data # NULL
         /\ Elsewhere(t, Deleted(t, k), b)
<1>1. k \in Keys /\ k # NULL
  BY HoldsTypes, HashAssumption DEF NULL
<1>2. b \in 0 .. t.n_buckets - 1 /\ Fits(k, t.n_buckets, b)
  BY <1>1, HoldsTypes, HashIs
<1>3. t.bucket[b].data # NULL
  BY <1>2, MemberUses
<1>4. CASE t.bucket[b].data = k
  <2>1. Deleted(t, k) = HeadDeleted(t, b)
    BY <1>4 DEF Deleted
  <2>2. /\ Holds(HeadDeleted(t, b), L, P, K \ {k}) /\ Near(t, HeadDeleted(t, b))
        /\ Elsewhere(t, HeadDeleted(t, b), b)
    BY <1>1, <1>2, <1>4, HoldsHeadDeleted
  <2> QED
    BY <1>2, <1>3, <2>1, <2>2
<1>5. CASE t.bucket[b].data # k
  <2>1. Deleted(t, k) = OverflowDeleted(t, b, k)
    BY <1>5 DEF Deleted
  <2>2. k # t.bucket[b].data
    BY <1>5
  <2>3. Holds(OverflowDeleted(t, b, k), L, P, K \ {k}) /\ Near(t, OverflowDeleted(t, b, k))
    BY <1>2, <2>2, HoldsOverflowDeleted
  <2>4. Elsewhere(t, OverflowDeleted(t, b, k), b)
    BY <1>2, <2>2, HoldsOverflowDeleted
  <2> QED
    BY <1>2, <1>3, <2>1, <2>3, <2>4
<1> QED
  BY <1>4, <1>5

\* What no step of a transfer changes.
Kept(t, u, P) ==
  /\ u.n_buckets = t.n_buckets /\ u.n_entries = t.n_entries /\ (Tally(t) => Tally(u))
  /\ \A d \in P : u.cell[d].data = t.cell[d].data

\* The cells that are in a chain or free.
Live(t, P) == (1 .. t.entry_stack - 1) \ P

\* What Full says of the cells and the table.
LEMMA FullIs ==
  ASSUME NEW t, NEW P, NEW K, Full(t, P, K)
  PROVE  /\ Holds(t, Live(t, P), P, K) /\ t.entry_stack \in Nat \ {0} /\ Live(t, P) \cup P = 1 .. t.entry_stack - 1
         /\ Table(t) /\ t.n_buckets \in Nat \ {0} /\ t.free_entry_list \in Pointers /\ DOMAIN t.bucket = 0 .. t.n_buckets - 1
<1>1. Holds(t, Live(t, P), P, K) /\ t.entry_stack \in Nat \ {0} /\ Live(t, P) \cup P = 1 .. t.entry_stack - 1
  <2>1. t.entry_stack \in 1 .. ChunkCells + 1 /\ P \subseteq 1 .. t.entry_stack - 1 /\ ChunkCells \in Nat
    BY HashAssumption DEF Full
  <2>2. Holds(t, Live(t, P), P, K)
    BY DEF Full, Live
  <2>3. Live(t, P) \cup P = 1 .. t.entry_stack - 1
    BY <2>1 DEF Live
  <2> QED
    BY <2>1, <2>2, <2>3
<1>2. Table(t)
  BY <1>1, HoldsTypes
<1> QED
  BY <1>1, <1>2 DEF Table

\* A head takes an entry.
LEMMA HeadFilledIs ==
  ASSUME NEW t, NEW L, NEW P, NEW K, Holds(t, L, P, K), NEW b \in 0 .. t.n_buckets - 1, t.bucket[b].data = NULL,
         NEW k \in Keys \ K, Apart(t, P, k), Fits(k, t.n_buckets, b)
  PROVE  /\ Holds(HeadFilled(t, b, k), L, P, K \cup {k}) /\ Kept(t, HeadFilled(t, b, k), P)
         /\ HeadFilled(t, b, k).entry_stack = t.entry_stack
<1>1. PICK u, x : u = HeadSet(t, b, k) /\ x = t.n_buckets_used + 1
  OBVIOUS
<1>2. HeadFilled(t, b, k) = SetUsed(u, x)
  BY <1>1 DEF HeadFilled, SetUsed, HeadSet
<1>3. k \in Keys \cup {NULL} /\ k # NULL /\ NULL \notin K
  BY HoldsTypes, HashAssumption DEF NULL
<1>4. \A d \in P : t.cell[d].data # k
  BY DEF Apart
<1>5. /\ Holds(u, L, P, (K \ {t.bucket[b].data}) \cup ({k} \ {NULL})) /\ Near(t, u)
      /\ u.cell = t.cell /\ u.bucket = Upd(t.bucket, b, EntryOf(k, t.bucket[b].next))
  BY <1>1, <1>3, <1>4, HoldsHead
<1>6. (K \ {t.bucket[b].data}) \cup ({k} \ {NULL}) = K \cup {k}
  BY <1>3
<1>7. Holds(u, L, P, K \cup {k})
  BY <1>5, <1>6
<1>8. /\ Holds(SetUsed(u, x), L, P, K \cup {k})
      /\ SetUsed(u, x).bucket = u.bucket /\ SetUsed(u, x).n_buckets = u.n_buckets /\ SetUsed(u, x).n_buckets_used = x
      /\ SetUsed(u, x).n_entries = u.n_entries /\ SetUsed(u, x).entry_stack = u.entry_stack
      /\ SetUsed(u, x).cell = u.cell
  BY <1>7, HoldsCounts
<1>9. PICK v : v = SetUsed(u, x)
  OBVIOUS
<1>10. /\ v.n_buckets = t.n_buckets /\ v.n_entries = t.n_entries /\ v.entry_stack = t.entry_stack
       /\ v.n_buckets_used = t.n_buckets_used + 1 /\ v.bucket = u.bucket
       /\ \A d \in P : v.cell[d].data = t.cell[d].data
  BY <1>1, <1>5, <1>8, <1>9 DEF Near, SameCounts
<1>11. DOMAIN t.bucket = 0 .. t.n_buckets - 1 /\ t.n_buckets \in Nat
  BY HoldsTypes DEF Table
<1>12. v.bucket[b] = EntryOf(k, t.bucket[b].next) /\ \A a \in 0 .. t.n_buckets - 1 : a # b => v.bucket[a].data = t.bucket[a].data
  BY <1>5, <1>10, <1>11, UpdIs
<1>13. v.bucket[b].data # NULL
  BY <1>3, <1>12, EntryIs
<1>14. Cardinality(Used(v)) = Cardinality(Used(t)) + 1
  BY <1>10, <1>11, <1>12, <1>13, UsedChanges
<1>15. Kept(t, v, P)
  BY <1>10, <1>14 DEF Kept, Tally
<1> QED
  BY <1>2, <1>8, <1>9, <1>10, <1>15

\* An entry goes in, in a head, in a free cell or in one off the stack.
LEMMA PutIs ==
  ASSUME NEW t, NEW P, NEW K, Full(t, P, K), NEW k \in Keys \ K, Apart(t, P, k)
  PROVE  Full(Put(t, k), P, K \cup {k}) /\ Kept(t, Put(t, k), P)
<1>1. PICK b, c, L : b = safe_hasher(t, k) /\ c = NewCell(t) /\ L = Live(t, P)
  OBVIOUS
<1>2. /\ Holds(t, L, P, K) /\ t.entry_stack \in Nat \ {0} /\ L \cup P = 1 .. t.entry_stack - 1
      /\ Table(t) /\ t.n_buckets \in Nat \ {0} /\ t.free_entry_list \in Pointers
  BY <1>1, FullIs
<1>3. b \in 0 .. t.n_buckets - 1 /\ Fits(k, t.n_buckets, b)
  BY <1>1, <1>2, HashIs
<1>4. L \subseteq Cells /\ P \subseteq Cells /\ L \cap P = {}
  BY <1>2, HoldsTypes
<1>5. CASE t.bucket[b].data = NULL
  <2>1. Put(t, k) = HeadFilled(t, b, k)
    BY <1>1, <1>5 DEF Put
  <2>2. /\ Holds(HeadFilled(t, b, k), L, P, K \cup {k}) /\ Kept(t, HeadFilled(t, b, k), P)
        /\ HeadFilled(t, b, k).entry_stack = t.entry_stack
    BY <1>2, <1>3, <1>5, HeadFilledIs
  <2> QED
    BY <1>1, <2>1, <2>2 DEF Full, Live
<1>6. CASE t.bucket[b].data # NULL
  <2>1. PICK u : u = WithoutNewCell(t)
    OBVIOUS
  <2>2. /\ Holds(u, L \ {c}, P, K) /\ c \in Cells /\ c \notin P /\ u.bucket = t.bucket /\ u.cell = t.cell
        /\ u.n_buckets = t.n_buckets /\ u.n_entries = t.n_entries /\ u.n_buckets_used = t.n_buckets_used
        /\ u.entry_stack \in 1 .. ChunkCells + 1 /\ (L \ {c}) \cup {c} = (1 .. u.entry_stack - 1) \ P /\ P \subseteq 1 .. u.entry_stack - 1
    <3>1. CASE t.free_entry_list # NULL
      <4>1. u = Taken(t) /\ c = t.free_entry_list
        BY <1>1, <2>1, <3>1 DEF WithoutNewCell, Taken, NewCell, Recycles
      <4>2. /\ t.free_entry_list \in L /\ Holds(Taken(t), L \ {t.free_entry_list}, P, K) /\ Near(t, Taken(t))
            /\ Taken(t).bucket = t.bucket /\ Taken(t).cell = t.cell
        BY <1>2, <3>1, HoldsTake
      <4>3. c \in L /\ Holds(u, L \ {c}, P, K) /\ Near(t, u) /\ u.bucket = t.bucket /\ u.cell = t.cell
        BY <4>1, <4>2
      <4>4. u.n_buckets = t.n_buckets /\ u.n_entries = t.n_entries /\ u.n_buckets_used = t.n_buckets_used /\ u.entry_stack = t.entry_stack
        BY <4>3 DEF Near, SameCounts
      <4> QED
        BY <1>1, <1>4, <4>3, <4>4 DEF Full, Live
    <3>2. CASE t.free_entry_list = NULL
      <4>1. u = SetTop(t, t.entry_stack + 1) /\ c = t.entry_stack
        BY <1>1, <2>1, <3>2 DEF WithoutNewCell, SetTop, NewCell, Recycles
      <4>2. t.entry_stack <= ChunkCells
        <5>1. PICK N, F, D, H, n, own, rank, R :
                Parts(t, N, F, D, H, n) /\ Whole(N, F, D, H, n, L, P, K, own, rank, R) /\ F[-1] = t.free_entry_list
                /\ \A d \in Cells : D[d] = t.cell[d].data
          BY <1>2, HoldsParts
        <5>2. \A d \in P : D[d] # k
          BY <1>4, <5>1 DEF Apart
        <5> QED
          BY <1>2, <3>2, <5>1, <5>2, Room
      <4>3. /\ Holds(SetTop(t, c + 1), L, P, K)
            /\ SetTop(t, c + 1).bucket = t.bucket /\ SetTop(t, c + 1).n_buckets = t.n_buckets
            /\ SetTop(t, c + 1).n_buckets_used = t.n_buckets_used /\ SetTop(t, c + 1).cell = t.cell
            /\ SetTop(t, c + 1).n_entries = t.n_entries /\ SetTop(t, c + 1).entry_stack = c + 1
        BY <1>2, HoldsCounts
      <4>4. c \in Cells /\ c \notin L /\ c \notin P /\ L \ {c} = L
        <5>1. c \in Nat \ {0} /\ c <= ChunkCells /\ c \notin 1 .. c - 1 /\ L \cup P = 1 .. c - 1
          BY <1>2, <4>1, <4>2
        <5>2. c \in Cells
          BY <5>1, HashAssumption DEF Cells
        <5> QED
          BY <5>1, <5>2
      <4>5. c + 1 \in 1 .. ChunkCells + 1 /\ L \cup {c} = (1 .. (c + 1) - 1) \ P /\ P \subseteq 1 .. (c + 1) - 1
        <5>1. c \in Nat \ {0} /\ c <= ChunkCells /\ ChunkCells \in Nat /\ L \cup P = 1 .. c - 1 /\ 1 .. (c + 1) - 1 = (1 .. c - 1) \cup {c}
          BY <1>2, <4>1, <4>2, HashAssumption
        <5> QED
          BY <1>4, <4>4, <5>1
      <4> QED
        BY <4>1, <4>3, <4>4, <4>5
    <3> QED
      BY <3>1, <3>2
  <2>3. PICK v : v = NewSet(u, b, c, EntryOf(k, u.bucket[b].next))
    OBVIOUS
  <2>4. Put(t, k) = v
    <3>1. Put(t, k) = [WithoutNewCell(t) EXCEPT !.cell[c] = [data |-> k, next |-> t.bucket[b].next], !.bucket[b].next = c]
      BY <1>1, <1>6 DEF Put
    <3>2. Put(t, k) = NewSet(u, b, c, EntryOf(k, t.bucket[b].next))
      BY <2>1, <3>1 DEF NewSet, EntryOf
    <3> QED
      BY <2>2, <2>3, <3>2
  <2>5. /\ Holds(v, (L \ {c}) \cup {c}, P, K \cup {k}) /\ Near(u, v)
        /\ v.bucket = Upd(u.bucket, b, EntryOf(u.bucket[b].data, c))
        /\ \A d \in Cells : d # c => v.cell[d] = u.cell[d]
    <3>0. PICK M, h, p : M = L \ {c} /\ h = u.bucket[b].data /\ p = u.bucket[b].next
      OBVIOUS
    <3>1. /\ Holds(u, M, P, K) /\ c \in Cells /\ c \notin M /\ c \notin P /\ b \in 0 .. u.n_buckets - 1
          /\ u.bucket[b].data # NULL /\ k \in Keys \ K /\ Fits(k, u.n_buckets, b)
          /\ \A d \in P : u.cell[d].data # k
      BY <1>3, <1>6, <2>2, <3>0 DEF Apart
    <3>2. Placing(u, M, P, K, c, b, k)
      BY <3>1 DEF Placing
    <3>3. /\ Holds(Placed(u, b, c, k), M \cup {c}, P, K \cup {k}) /\ Near(u, Placed(u, b, c, k))
          /\ Placed(u, b, c, k).bucket = Upd(u.bucket, b, EntryOf(u.bucket[b].data, c))
          /\ CellsKept(u, Placed(u, b, c, k), c)
      BY <3>2, HoldsPlaced
    <3> QED
      BY <2>3, <3>0, <3>3 DEF Placed, CellsKept
  <2>6. v.n_buckets = t.n_buckets /\ v.n_entries = t.n_entries /\ v.n_buckets_used = t.n_buckets_used /\ v.entry_stack = u.entry_stack
    BY <2>2, <2>5 DEF Near, SameCounts
  <2>7. Used(v) = Used(t)
    <3>1. DOMAIN t.bucket = 0 .. t.n_buckets - 1 /\ t.n_buckets \in Nat
      BY <1>2 DEF Table
    <3>2. v.bucket[b] = EntryOf(t.bucket[b].data, c) /\ \A a \in 0 .. t.n_buckets - 1 : a # b => v.bucket[a] = t.bucket[a]
      BY <1>3, <2>2, <2>5, <3>1, UpdIs
    <3>3. v.bucket[b].data = t.bucket[b].data
      BY <3>2, EntryIs
    <3> QED
      BY <1>3, <2>6, <3>1, <3>2, <3>3, UsedChanges
  <2>8. \A d \in P : v.cell[d].data = t.cell[d].data
    BY <1>4, <2>2, <2>5
  <2>9. Kept(t, v, P)
    BY <2>6, <2>7, <2>8 DEF Kept, Tally
  <2>10. Full(v, P, K \cup {k})
    BY <2>2, <2>5, <2>6 DEF Full
  <2> QED
    BY <2>4, <2>9, <2>10
<1> QED
  BY <1>5, <1>6

\* The entries of the cells of Q are as they were.
DatasKept(t, u, Q) == \A d \in Q : u.cell[d].data = t.cell[d].data

\* When one cell changes, the entries of the others stay.
LEMMA OthersKept ==
  ASSUME NEW t, NEW u, NEW c, NEW Q, CellsKept(t, u, c), Q \subseteq Cells, c \notin Q
  PROVE  DatasKept(t, u, Q)
BY DEF CellsKept, DatasKept

\* An overflow cell is moved: into a chain, or emptied into a head and freed.
LEMMA CellMovedIs ==
  ASSUME NEW t, NEW P, NEW K, Full(t, P, K), NEW c \in P, NEW k, k = t.cell[c].data
  PROVE  Full(CellMoved(t, c), P \ {c}, K \cup {k}) /\ Kept(t, CellMoved(t, c), P \ {c})
<1>1. PICK b, L, Q : b = safe_hasher(t, k) /\ L = Live(t, P) /\ Q = P \ {c}
  OBVIOUS
<1>2. /\ Holds(t, L, P, K) /\ t.entry_stack \in Nat \ {0} /\ L \cup P = 1 .. t.entry_stack - 1
      /\ Table(t) /\ t.n_buckets \in Nat \ {0}
      /\ t.entry_stack \in 1 .. ChunkCells + 1 /\ P \subseteq 1 .. t.entry_stack - 1
  BY <1>1, FullIs DEF Full
<1>3. L \subseteq Cells /\ P \subseteq Cells /\ L \cap P = {}
  BY <1>2, HoldsTypes
<1>4. c \in Cells /\ c \notin L /\ c \notin Q /\ Q \subseteq Cells /\ L \cup {c} = (1 .. t.entry_stack - 1) \ Q
      /\ Q \subseteq 1 .. t.entry_stack - 1
  BY <1>1, <1>2, <1>3
<1>5. Holds(t, L, Q, K) /\ k \in Keys \ K
  BY <1>1, <1>2, HoldsInHand
<1>6. Apart(t, Q, k)
  BY <1>1, <1>2, HoldsInHand
<1>7. b \in 0 .. t.n_buckets - 1 /\ Fits(k, t.n_buckets, b)
  BY <1>1, <1>2, <1>5, HashIs
<1>8. CASE t.bucket[b].data # NULL
  <2>1. PICK u : u = Joined(t, b, c)
    OBVIOUS
  <2>2. CellMoved(t, c) = u
    BY <1>1, <1>8, <2>1 DEF CellMoved, Joined, LinkSet
  <2>3. Linking(t, L, Q, K, c, b, k)
    BY <1>4, <1>5, <1>6, <1>7, <1>8 DEF Linking, Apart
  <2>4. /\ Holds(u, L \cup {c}, Q, K \cup {k}) /\ Near(t, u)
        /\ u.bucket = Upd(t.bucket, b, EntryOf(t.bucket[b].data, c))
        /\ CellsKept(t, u, c)
    <3>1. /\ Holds(Joined(t, b, c), L \cup {c}, Q, K \cup {k}) /\ Near(t, Joined(t, b, c))
          /\ Joined(t, b, c).bucket = Upd(t.bucket, b, EntryOf(t.bucket[b].data, c))
          /\ CellsKept(t, Joined(t, b, c), c)
      BY <2>3, HoldsJoined, ZenonT(60)
    <3> QED
      BY <2>1, <3>1
  <2>5. u.n_buckets = t.n_buckets /\ u.n_entries = t.n_entries /\ u.n_buckets_used = t.n_buckets_used /\ u.entry_stack = t.entry_stack
    BY <2>4 DEF Near, SameCounts
  <2>6. Used(u) = Used(t)
    <3>1. DOMAIN t.bucket = 0 .. t.n_buckets - 1 /\ t.n_buckets \in Nat
      BY <1>2 DEF Table
    <3>2. u.bucket[b] = EntryOf(t.bucket[b].data, c) /\ \A a \in 0 .. t.n_buckets - 1 : a # b => u.bucket[a] = t.bucket[a]
      BY <1>7, <2>4, <3>1, UpdIs
    <3>3. u.bucket[b].data = t.bucket[b].data
      BY <3>2, EntryIs
    <3> QED
      BY <1>7, <2>5, <3>1, <3>2, <3>3, UsedChanges
  <2>7. DatasKept(t, u, Q)
    BY <1>4, <2>4, OthersKept
  <2>8. Kept(t, u, Q)
    BY <2>5, <2>6, <2>7 DEF Kept, Tally, DatasKept
  <2>9. Full(u, Q, K \cup {k})
    BY <1>2, <1>4, <2>4, <2>5 DEF Full
  <2> QED
    BY <1>1, <2>2, <2>8, <2>9
<1>9. CASE t.bucket[b].data = NULL
  <2>1. PICK u, v : u = HeadFilled(t, b, k) /\ v = free_entry(u, c)
    OBVIOUS
  <2>2. CellMoved(t, c) = v
    BY <1>1, <1>9, <2>1 DEF CellMoved
  <2>4. Holds(u, L, Q, K \cup {k}) /\ Kept(t, u, Q) /\ u.entry_stack = t.entry_stack
    <3>1. /\ Holds(HeadFilled(t, b, k), L, Q, K \cup {k}) /\ Kept(t, HeadFilled(t, b, k), Q)
          /\ HeadFilled(t, b, k).entry_stack = t.entry_stack
      BY <1>5, <1>6, <1>7, <1>9, HeadFilledIs
    <3> QED
      BY <2>1, <3>1
  <2>5. /\ Holds(v, L \cup {c}, Q, K \cup {k}) /\ Near(u, v) /\ v.bucket = u.bucket
    BY <1>4, <2>1, <2>4, HoldsFree
  <2>6. CellsKept(u, v, c)
    BY <1>4, <2>1, <2>4, HoldsFree
  <2>7. DatasKept(u, v, Q)
    BY <1>4, <2>6, OthersKept
  <2>8. v.n_buckets = u.n_buckets /\ v.n_entries = u.n_entries /\ v.n_buckets_used = u.n_buckets_used /\ v.entry_stack = u.entry_stack
    BY <2>5 DEF Near, SameCounts
  <2>9. Used(v) = Used(u)
    BY <2>5, <2>8 DEF Used
  <2>10. Kept(t, v, Q)
    BY <2>4, <2>7, <2>8, <2>9 DEF Kept, Tally, DatasKept
  <2>11. Full(v, Q, K \cup {k})
    BY <1>2, <1>4, <2>4, <2>5, <2>8 DEF Full
  <2> QED
    BY <1>1, <2>2, <2>10, <2>11
<1> QED
  BY <1>8, <1>9

-----------------------------------------------------------------------------
(* Transfers.                                                               *)

\* The three recursions over the entries of a sequence: the cells of a chain are moved (kind 1),
\* the buckets of a table (2), sequences are joined (3).
After(kind, arg, prev, i) ==
  IF kind = 1 THEN CellMoved(prev, arg[i])
  ELSE IF kind = 2 THEN BucketMoved(prev, arg, i - 1)
  ELSE prev \o arg[i]

Iterates(f, low, m, kind, arg, base) ==
  f = [i \in low .. m |-> IF i = low THEN base ELSE After(kind, arg, f[i - 1], i)]

\* What such a recursion gives.
LEMMA IteratesAre ==
  ASSUME NEW f, NEW low \in Nat, NEW m \in Nat, low <= m, NEW kind, NEW arg, NEW base,
         Iterates(f, low, m, kind, arg, base)
  PROVE  f[low] = base /\ \A i \in low + 1 .. m : f[i] = After(kind, arg, f[i - 1], i)
<1>1. low \in low .. m /\ \A i \in low + 1 .. m : i \in low .. m /\ i # low
  OBVIOUS
<1>2. \A i \in low .. m : f[i] = IF i = low THEN base ELSE After(kind, arg, f[i - 1], i)
  BY DEF Iterates
<1> QED
  BY <1>1, <1>2

\* Such a recursion is defined.
LEMMA IteratesExist ==
  ASSUME NEW low \in Nat, NEW m \in Nat, low <= m, NEW kind, NEW arg, NEW base
  PROVE  \E f : Iterates(f, low, m, kind, arg, base)
<1> DEFINE I == {k \in Nat : \E f : Iterates(f, low, low + k, kind, arg, base)}
<1>1. 0 \in I
  <2> DEFINE f == [i \in low .. low + 0 |-> base]
  <2>1. \A i \in low .. low + 0 : i = low
    OBVIOUS
  <2>2. f = [i \in low .. low + 0 |-> IF i = low THEN base ELSE After(kind, arg, f[i - 1], i)]
    BY <2>1
  <2> HIDE DEF f
  <2>3. Iterates(f, low, low + 0, kind, arg, base)
    BY <2>2 DEF Iterates
  <2> QED
    BY <2>3
<1>2. ASSUME NEW k \in Nat, k \in I PROVE k + 1 \in I
  <2>1. PICK f : Iterates(f, low, low + k, kind, arg, base)
    BY <1>2
  <2>2. f[low] = base /\ \A i \in low + 1 .. low + k : f[i] = After(kind, arg, f[i - 1], i)
    BY <2>1, IteratesAre
  <2>3. PICK x, n : x = After(kind, arg, f[low + k], low + (k + 1)) /\ n = low + k
    OBVIOUS
  <2> DEFINE g == [i \in low .. n + 1 |-> IF i = n + 1 THEN x ELSE f[i]]
  <2>4. n \in Nat /\ low <= n /\ low + (k + 1) = n + 1
    BY <2>3
  <2>5. /\ g = [i \in low .. n + 1 |-> g[i]] /\ g[n + 1] = x
        /\ \A i \in low .. n : g[i] = f[i]
    BY <2>4
  <2> HIDE DEF g
  <2>6. ASSUME NEW i \in low .. n + 1 PROVE g[i] = IF i = low THEN base ELSE After(kind, arg, g[i - 1], i)
    <3>1. CASE i = low
      BY <2>2, <2>4, <2>5, <3>1
    <3>2. CASE i = n + 1
      <4>0. i - 1 = n /\ n \in low .. n /\ i # low
        BY <2>4, <3>2
      <4>1. i - 1 = n /\ i # low /\ g[n] = f[n]
        BY <2>5, <4>0
      <4>2. low + k = n /\ low + (k + 1) = i /\ g[i - 1] = f[n]
        BY <2>3, <2>4, <3>2, <4>1
      <4>3. x = After(kind, arg, g[i - 1], i)
        BY <2>3, <4>2
      <4> QED
        BY <2>5, <3>2, <4>1, <4>3
    <3>3. CASE i # low /\ i # n + 1
      <4>1. i \in low + 1 .. n /\ i \in low .. n /\ i - 1 \in low .. n
        BY <2>4, <3>3
      <4>2. f[i] = After(kind, arg, f[i - 1], i)
        BY <2>2, <2>3, <4>1
      <4> QED
        BY <2>5, <3>3, <4>1, <4>2
    <3> QED
      BY <3>1, <3>2, <3>3
  <2>7. g = [i \in low .. n + 1 |-> IF i = low THEN base ELSE After(kind, arg, g[i - 1], i)]
    BY <2>5, <2>6
  <2>8. Iterates(g, low, low + (k + 1), kind, arg, base)
    BY <2>4, <2>7 DEF Iterates
  <2> QED
    BY <2>8
<1> HIDE DEF I
<1>3. m - low \in Nat /\ low + (m - low) = m
  OBVIOUS
<1>4. m - low \in I
  BY <1>1, <1>2, <1>3, UpFromZero
<1> QED
  BY <1>3, <1>4 DEF I

\* The cells of a chain moved one after the other.
Moves(f, chain, dst) ==
  f = [i \in 0 .. Len(chain) |-> IF i = 0 THEN dst ELSE CellMoved(f[i - 1], chain[i])]

MovedBy(f, dst, s) == f[0] = dst /\ \A i \in 1 .. Len(s) : f[i] = CellMoved(f[i - 1], s[i])

\* BucketMoved by its recursion over the chain.
LEMMA BucketMovedIs ==
  ASSUME NEW dst, NEW src, NEW b, Len(Overflow(src, b)) \in Nat
  PROVE  /\ src.bucket[b].data = NULL => BucketMoved(dst, src, b) = dst
         /\ src.bucket[b].data # NULL =>
              \E f : /\ MovedBy(f, dst, Overflow(src, b))
                     /\ BucketMoved(dst, src, b) = Put(f[Len(Overflow(src, b))], src.bucket[b].data)
<1>0. PICK s : s = Overflow(src, b) /\ Len(s) \in Nat
  OBVIOUS
<1> DEFINE v == CHOOSE f : Moves(f, Overflow(src, b), dst)
<1>1. src.bucket[b].data # NULL => BucketMoved(dst, src, b) = Put(v[Len(Overflow(src, b))], src.bucket[b].data)
  BY DEF BucketMoved, Moves
<1>2. src.bucket[b].data = NULL => BucketMoved(dst, src, b) = dst
  BY DEF BucketMoved
<1>3. PICK f : Iterates(f, 0, Len(s), 1, s, dst)
  BY <1>0, IteratesExist
<1>4. Moves(f, Overflow(src, b), dst)
  BY <1>0, <1>3 DEF Iterates, After, Moves
<1>5. Moves(v, s, dst)
  BY <1>0, <1>4
<1> HIDE DEF v
<1>6. Iterates(v, 0, Len(s), 1, s, dst)
  BY <1>5 DEF Iterates, After, Moves
<1>7. v[0] = dst /\ \A i \in 1 .. Len(s) : v[i] = After(1, s, v[i - 1], i)
  <2>1. v[0] = dst /\ \A i \in 0 + 1 .. Len(s) : v[i] = After(1, s, v[i - 1], i)
    BY <1>0, <1>6, IteratesAre
  <2> QED
    BY <2>1
<1>8. \A i \in 1 .. Len(s) : v[i] = CellMoved(v[i - 1], s[i])
  BY <1>7 DEF After
<1> QED
  BY <1>0, <1>1, <1>2, <1>7, <1>8 DEF MovedBy

\* The buckets of a table moved one after the other.
Transfers(f, src, dst) ==
  f = [b \in 0 .. src.n_buckets |-> IF b = 0 THEN dst ELSE BucketMoved(f[b - 1], src, b - 1)]

\* transfer_entries by its recursion over the buckets.
LEMMA TransferIs ==
  ASSUME NEW dst, NEW src, NEW n \in Nat, n = src.n_buckets
  PROVE  \E f : /\ f[0] = dst /\ \A b \in 1 .. n : f[b] = BucketMoved(f[b - 1], src, b - 1)
                /\ transfer_entries(dst, src) = f[n]
<1> DEFINE v == CHOOSE f : Transfers(f, src, dst)
<1>1. transfer_entries(dst, src) = v[src.n_buckets]
  BY DEF transfer_entries, Transfers
<1>2. PICK f : Iterates(f, 0, n, 2, src, dst)
  BY IteratesExist
<1>3. Transfers(f, src, dst)
  BY <1>2 DEF Iterates, After, Transfers
<1>4. Transfers(v, src, dst)
  BY <1>3
<1> HIDE DEF v
<1>5. Iterates(v, 0, n, 2, src, dst)
  BY <1>4 DEF Iterates, After, Transfers
<1>6. v[0] = dst /\ \A b \in 1 .. n : v[b] = After(2, src, v[b - 1], b)
  <2>1. v[0] = dst /\ \A b \in 0 + 1 .. n : v[b] = After(2, src, v[b - 1], b)
    BY <1>5, IteratesAre
  <2> QED
    BY <2>1
<1>7. \A b \in 1 .. n : v[b] = BucketMoved(v[b - 1], src, b - 1)
  BY <1>6 DEF After
<1> QED
  BY <1>1, <1>6, <1>7

\* Which chain each cell of L is in; -1 is the list of free cells.
Owned(t, L, own) ==
  /\ \A c \in L : own[c] \in -1 .. t.n_buckets - 1
  /\ \A b \in 0 .. t.n_buckets - 1, c \in L : own[c] = b <=> \E i \in 1 .. Len(Overflow(t, b)) : Overflow(t, b)[i] = c
  /\ \A c \in L : own[c] = -1 <=> \E i \in 1 .. Len(FreeCells(t)) : FreeCells(t)[i] = c
  /\ FreeCells(t) \in Seq(L)
  /\ \A i, j \in 1 .. Len(FreeCells(t)) : FreeCells(t)[i] = FreeCells(t)[j] => i = j

\* The free cells, and those in a bucket's chain.
CellsFree(L, own) == {c \in L : own[c] = -1}
CellsBound(L, own) == {c \in L : own[c] # -1}

\* Every cell of L is in one chain, and all but the free ones wait when the table gets new buckets.
LEMMA ChainsAre ==
  ASSUME NEW t, NEW L, NEW K, Holds(t, L, {}, K), NEW size \in Nat \ {0}
  PROVE  \E own : /\ Owned(t, L, own)
                  /\ Holds(NewTable(t, size), CellsFree(L, own), CellsBound(L, own), {})
<1>1. PICK N, F, D, H, n, own, rank, R :
           /\ Parts(t, N, F, D, H, n) /\ Whole(N, F, D, H, n, L, {}, K, own, rank, R)
           /\ IsTable(t) /\ Table(t) /\ n \in Nat \ {0} /\ t.cell \in [Cells -> Entry]
           /\ t.free_entry_list \in Pointers
           /\ \A a \in 0 .. n - 1 : H[a] = t.bucket[a].data /\ F[a] = t.bucket[a].next
           /\ F[-1] = t.free_entry_list
  BY HoldsParts
<1>2. N = Nexts(t.cell) /\ D = Datas(t.cell) /\ n = t.n_buckets
  BY <1>1 DEF Parts
<1>3. Whole(N, F, D, H, n, L, {}, K, own, rank, R)
  BY <1>1
<1>4. /\ 0 .. n - 1 \subseteq Owners(n) /\ -1 \in Owners(n) /\ -1 \notin 0 .. n - 1 /\ L \subseteq Cells
      /\ own \in [Cells -> Owners(n)]
  BY <1>3, WholeHas
<1>5. Heap(Nexts(t.cell), F, L, n, own, rank, R)
  BY <1>2, <1>3 DEF Whole
<1>6. \A b \in 0 .. n - 1 : Chain(Overflow(t, b), b, N, F, L, own)
  <2> TAKE b \in 0 .. n - 1
  <2>1. b \in Owners(n)
    BY <1>4
  <2>2. Chain(CellsFrom(t.cell, F[b]), b, Nexts(t.cell), F, L, own)
    BY <1>5, <2>1, ChainIs
  <2> QED
    BY <1>1, <1>2, <2>2 DEF Overflow
<1>7. Chain(FreeCells(t), -1, N, F, L, own)
  <2>1. Chain(CellsFrom(t.cell, F[-1]), -1, Nexts(t.cell), F, L, own)
    BY <1>4, <1>5, ChainIs
  <2> QED
    BY <1>1, <1>2, <2>1 DEF FreeCells
<1>8. Owned(t, L, own)
  <2>1. \A c \in L : own[c] \in -1 .. t.n_buckets - 1
    BY <1>2, <1>4 DEF Owners
  <2>2. ASSUME NEW b \in 0 .. t.n_buckets - 1, NEW c \in L
        PROVE  own[c] = b <=> \E i \in 1 .. Len(Overflow(t, b)) : Overflow(t, b)[i] = c
    <3>1. Chain(Overflow(t, b), b, N, F, L, own)
      BY <1>2, <1>6
    <3> QED
      BY <3>1 DEF Chain
  <2>3. \A c \in L : own[c] = -1 <=> \E i \in 1 .. Len(FreeCells(t)) : FreeCells(t)[i] = c
    BY <1>7 DEF Chain
  <2>4. /\ FreeCells(t) \in Seq(L)
        /\ \A i, j \in 1 .. Len(FreeCells(t)) : FreeCells(t)[i] = FreeCells(t)[j] => i = j
    BY <1>7 DEF Chain
  <2> QED
    BY <2>1, <2>2, <2>3, <2>4 DEF Owned
<1>9. PICK bucket, u : bucket = [b \in 0 .. size - 1 |-> EmptyEntry] /\ u = NewTable(t, size)
  OBVIOUS
<1>10. /\ u.bucket = bucket /\ u.n_buckets = size /\ u.cell = t.cell /\ u.free_entry_list = t.free_entry_list /\ IsTable(u)
  <2>1. u = TableOf(bucket, size, 0, t.n_entries, t.free_entry_list, t.entry_stack, t.cell)
    <3>1. PICK v, w : v = SetBucket(t, bucket) /\ w = SetSize(v, size)
      OBVIOUS
    <3>2. u = SetUsed(w, 0)
      BY <1>9, <3>1 DEF NewTable, SetBucket, SetSize, SetUsed
    <3>3. v = TableOf(bucket, t.n_buckets, t.n_buckets_used, t.n_entries, t.free_entry_list, t.entry_stack, t.cell)
      BY <1>1, <3>1, Sets DEF With
    <3>4. w = TableOf(bucket, size, t.n_buckets_used, t.n_entries, t.free_entry_list, t.entry_stack, t.cell)
      BY <3>1, <3>3, SetField
    <3> QED
      BY <3>2, <3>4, SetField
  <2> QED
    BY <2>1, FieldsAre
<1>11. EmptyEntry \in Entry /\ EmptyEntry.data = NULL /\ EmptyEntry.next = NULL
  BY DEF EmptyEntry, Entry
<1>12. /\ bucket \in [0 .. size - 1 -> Entry]
       /\ Heads(bucket, size) = [b \in 0 .. size - 1 |-> NULL]
       /\ Firsts(bucket, size, t.free_entry_list) = [o \in Owners(size) |-> IF o = -1 THEN F[-1] ELSE NULL]
  <2>1. bucket \in [0 .. size - 1 -> Entry] /\ \A b \in 0 .. size - 1 : bucket[b] = EmptyEntry
    BY <1>9, <1>11
  <2>2. Heads(bucket, size) = [b \in 0 .. size - 1 |-> NULL]
    BY <1>11, <2>1 DEF Heads
  <2>3. \A o \in Owners(size) : o # -1 => o \in 0 .. size - 1
    BY DEF Owners
  <2>4. Firsts(bucket, size, t.free_entry_list) = [o \in Owners(size) |-> IF o = -1 THEN F[-1] ELSE NULL]
    BY <1>1, <1>11, <2>1, <2>3 DEF Firsts
  <2> QED
    BY <2>1, <2>2, <2>4
<1>13. Whole(N, [o \in Owners(size) |-> IF o = -1 THEN F[-1] ELSE NULL], D, [b \in 0 .. size - 1 |-> NULL], size,
             {c \in L : own[c] = -1}, {c \in L : own[c] # -1}, {}, [c \in Cells |-> -1], rank, R)
  BY <1>3, WholeRestart
<1>14. Table(u)
  BY <1>1, <1>10, <1>12 DEF Table
<1>15. Holds(u, {c \in L : own[c] = -1}, {c \in L : own[c] # -1}, {})
  <2>1. Linked(u, {c \in L : own[c] = -1}, {c \in L : own[c] # -1}, {}, [c \in Cells |-> -1], rank, R)
    BY <1>2, <1>10, <1>12, <1>13 DEF Linked
  <2> QED
    BY <1>14, <2>1 DEF Holds
<1> QED
  BY <1>8, <1>9, <1>15 DEF CellsFree, CellsBound

\* A new table of size buckets that has taken the entries of K from src; the cells of P are next.
Stage(dst, src, size, P, K) ==
  /\ Full(dst, P, K) /\ Tally(dst) /\ dst.n_buckets = size /\ dst.n_entries = src.n_entries
  /\ \A d \in P : dst.cell[d].data = src.cell[d].data

\* A transfer goes on with a cell.
LEMMA StageCell ==
  ASSUME NEW dst, NEW src, NEW size, NEW P, NEW K, Stage(dst, src, size, P, K), NEW c \in P
  PROVE  Stage(CellMoved(dst, c), src, size, P \ {c}, K \cup {src.cell[c].data})
<1>1. PICK k, u : k = src.cell[c].data /\ u = CellMoved(dst, c)
  OBVIOUS
<1>2. Full(dst, P, K) /\ k = dst.cell[c].data
  BY <1>1 DEF Stage
<1>3. Full(u, P \ {c}, K \cup {k}) /\ Kept(dst, u, P \ {c})
  BY <1>1, <1>2, CellMovedIs
<1> QED
  BY <1>1, <1>3 DEF Stage, Kept

\* A transfer goes on with a head.
LEMMA StagePut ==
  ASSUME NEW dst, NEW src, NEW size, NEW P, NEW K, Stage(dst, src, size, P, K), NEW k \in Keys \ K, Apart(src, P, k)
  PROVE  Stage(Put(dst, k), src, size, P, K \cup {k})
<1>1. PICK u : u = Put(dst, k)
  OBVIOUS
<1>2. Full(dst, P, K) /\ Apart(dst, P, k)
  BY DEF Stage, Apart
<1>3. Full(u, P, K \cup {k}) /\ Kept(dst, u, P)
  BY <1>1, <1>2, PutIs
<1> QED
  BY <1>1, <1>3 DEF Stage, Kept

\* The cells in the chains of bucket b and later ones, and the members that hash before b.
CellsAfter(L, own, b) == {c \in L : own[c] >= b}
KeysBefore(K, n, b) == {k \in K : \E a \in 0 .. b - 1 : Fits(k, n, a)}

\* Bucket b of table src, which holds K in the chains own tells.
Source(src, L, K, own, n, b) ==
  Holds(src, L, {}, K) /\ Owned(src, L, own) /\ n = src.n_buckets /\ b \in 0 .. n - 1

\* A bucket is moved.
LEMMA BucketStage ==
  ASSUME NEW src, NEW L, NEW K, NEW own, NEW n, NEW b, Source(src, L, K, own, n, b),
         NEW dst, NEW size, Stage(dst, src, size, CellsAfter(L, own, b), KeysBefore(K, n, b))
  PROVE  Stage(BucketMoved(dst, src, b), src, size, CellsAfter(L, own, b + 1), KeysBefore(K, n, b + 1))
<1>0. Holds(src, L, {}, K) /\ Owned(src, L, own) /\ n = src.n_buckets /\ b \in 0 .. n - 1
  BY DEF Source
<1> USE <1>0
<1>1. n \in Nat \ {0} /\ L \subseteq Cells /\ K \subseteq Keys /\ b \in Nat
  <2>1. Table(src) /\ L \subseteq Cells /\ K \subseteq Keys
    BY HoldsTypes
  <2> QED
    BY <2>1 DEF Table
<1>2. PICK s, h : s = Overflow(src, b) /\ h = src.bucket[b].data
  OBVIOUS
<1>3. /\ DOMAIN s = 1 .. Len(s) /\ Len(s) \in Nat
      /\ \A i, j \in 1 .. Len(s) : s[i] = s[j] => i = j
      /\ \A i \in 1 .. Len(s) : src.cell[s[i]].data \in K /\ Fits(src.cell[s[i]].data, n, b)
      /\ \A i \in 1 .. Len(s) : src.cell[s[i]].data # h
      /\ \A k \in K : Fits(k, n, b) => k = h \/ \E i \in 1 .. Len(s) : src.cell[s[i]].data = k
      /\ h = NULL => Len(s) = 0
      /\ h # NULL => h \in K /\ Fits(h, n, b)
      /\ s \in Seq(L)
  BY <1>2, OverflowIs, SMTT(30)
<1>4. /\ \A c \in L : own[c] \in Int
      /\ \A c \in L : own[c] = b <=> \E i \in 1 .. Len(s) : s[i] = c
      /\ \A a \in 0 .. n - 1, c \in L : own[c] = a <=> \E i \in 1 .. Len(Overflow(src, a)) : Overflow(src, a)[i] = c
      /\ \A c \in L : own[c] <= n - 1
  BY <1>1, <1>2, SMTT(30) DEF Owned
<1>5. \A i \in 1 .. Len(s) : s[i] \in L
  BY <1>3
<1>6. \A c \in L : own[c] >= b + 1 <=> own[c] >= b /\ own[c] # b
  BY <1>1, <1>4
<1>7. \A k \in K : k \in KeysBefore(K, n, b + 1) <=> k \in KeysBefore(K, n, b) \/ Fits(k, n, b)
  <2>1. 0 .. (b + 1) - 1 = (0 .. b - 1) \cup {b}
    BY <1>1
  <2> QED
    BY <2>1 DEF KeysBefore
<1>8. \A k \in K : k \in KeysBefore(K, n, b) => ~Fits(k, n, b)
  BY <1>1, FitsOne DEF KeysBefore
<1>9. CASE h = NULL
  <2>1. BucketMoved(dst, src, b) = dst
    <3>1. Len(Overflow(src, b)) \in Nat /\ src.bucket[b].data = NULL
      BY <1>2, <1>3, <1>9
    <3> QED
      BY <3>1, BucketMovedIs
  <2>2. Len(s) = 0 /\ \A k \in K : ~Fits(k, n, b)
    <3>1. \A k \in K : k # NULL
      BY <1>1, HashAssumption DEF NULL
    <3> QED
      BY <1>3, <1>9, <3>1
  <2>3. CellsAfter(L, own, b + 1) = CellsAfter(L, own, b)
    BY <1>4, <1>6, <2>2 DEF CellsAfter
  <2>4. KeysBefore(K, n, b + 1) = KeysBefore(K, n, b)
    BY <1>7, <2>2 DEF KeysBefore
  <2> QED
    BY <2>1, <2>3, <2>4
<1>10. CASE h # NULL
  <2>1. PICK f : /\ f[0] = dst /\ \A i \in 1 .. Len(s) : f[i] = CellMoved(f[i - 1], s[i])
                 /\ BucketMoved(dst, src, b) = Put(f[Len(s)], h)
    <3>1. Len(Overflow(src, b)) \in Nat /\ src.bucket[b].data # NULL
      BY <1>2, <1>3, <1>10
    <3>2. PICK f : MovedBy(f, dst, Overflow(src, b)) /\ BucketMoved(dst, src, b) = Put(f[Len(Overflow(src, b))], src.bucket[b].data)
      BY <3>1, BucketMovedIs
    <3> QED
      BY <1>2, <3>2 DEF MovedBy
  <2>2. PICK A, B : A = CellsAfter(L, own, b) /\ B = KeysBefore(K, n, b)
    OBVIOUS
  <2> DEFINE Done(i) == {s[j] : j \in 1 .. i}
             Had(i) == {src.cell[s[j]].data : j \in 1 .. i}
             I == {i \in Nat : i <= Len(s) => Stage(f[i], src, size, A \ Done(i), B \cup Had(i))}
  <2>3. 0 \in I
    <3>1. A \ Done(0) = A /\ B \cup Had(0) = B
      OBVIOUS
    <3>2. Stage(f[0], src, size, A, B)
      BY <2>1, <2>2
    <3> QED
      BY <3>1, <3>2
  <2>4. ASSUME NEW i \in Nat, i \in I PROVE i + 1 \in I
    <3> SUFFICES ASSUME i + 1 <= Len(s) PROVE Stage(f[i + 1], src, size, A \ Done(i + 1), B \cup Had(i + 1))
      OBVIOUS
    <3>1. i + 1 \in 1 .. Len(s) /\ (i + 1) - 1 = i /\ i <= Len(s) /\ 1 .. i + 1 = (1 .. i) \cup {i + 1} /\ 1 .. i \subseteq 1 .. Len(s) /\ i + 1 \notin 1 .. i
      BY <1>3
    <3>2. PICK c : c = s[i + 1]
      OBVIOUS
    <3>3. Stage(f[i], src, size, A \ Done(i), B \cup Had(i))
      BY <2>4, <3>1
    <3>4. c \in A \ Done(i)
      <4>1. c \in L /\ own[c] = b
        BY <1>4, <1>5, <3>1, <3>2
      <4>2. c \in A
        BY <1>1, <2>2, <4>1 DEF CellsAfter
      <4>3. c \notin Done(i)
        BY <1>3, <3>1, <3>2
      <4> QED
        BY <4>2, <4>3
    <3>5. A \ Done(i + 1) = (A \ Done(i)) \ {c} /\ B \cup Had(i + 1) = (B \cup Had(i)) \cup {src.cell[c].data}
      BY <3>1, <3>2
    <3>6. f[i + 1] = CellMoved(f[i], c)
      BY <2>1, <3>1, <3>2
    <3> HIDE DEF Done, Had
    <3>7. Stage(CellMoved(f[i], c), src, size, (A \ Done(i)) \ {c}, (B \cup Had(i)) \cup {src.cell[c].data})
      BY <3>3, <3>4, StageCell
    <3> QED
      BY <3>5, <3>6, <3>7
  <2>5. Len(s) \in I
    <3> HIDE DEF I
    <3> QED
      BY <1>3, <2>3, <2>4, UpFromZero
  <2>6. PICK C, J, u : C = A \ Done(Len(s)) /\ J = B \cup Had(Len(s)) /\ u = f[Len(s)]
    OBVIOUS
  <2>7. Stage(u, src, size, C, J)
    BY <1>3, <2>5, <2>6
  <2>8. C = CellsAfter(L, own, b + 1)
    <3>1. \A c \in L : c \in Done(Len(s)) <=> own[c] = b
      BY <1>4
    <3>2. \A c : c \in C <=> c \in L /\ own[c] >= b /\ own[c] # b
      BY <2>2, <2>6, <3>1 DEF CellsAfter
    <3> QED
      BY <1>6, <3>2 DEF CellsAfter
  <2>9. J \cup {h} = KeysBefore(K, n, b + 1)
    <3>1. \A k : k \in J <=> k \in B \/ \E j \in 1 .. Len(s) : src.cell[s[j]].data = k
      BY <2>6
    <3>2. \A k \in K : (k = h \/ \E j \in 1 .. Len(s) : src.cell[s[j]].data = k) <=> Fits(k, n, b)
      BY <1>3, <1>10
    <3>3. J \cup {h} \subseteq K
      BY <1>3, <1>10, <2>2, <3>1 DEF KeysBefore
    <3>4. \A k \in K : k \in J \cup {h} <=> k \in KeysBefore(K, n, b + 1)
      BY <1>7, <2>2, <3>1, <3>2
    <3> QED
      BY <3>3, <3>4 DEF KeysBefore
  <2>10. h \in Keys \ J
    <3>1. h \in K /\ Fits(h, n, b)
      BY <1>3, <1>10
    <3>2. h \notin B
      BY <1>8, <2>2, <3>1
    <3>3. h \notin Had(Len(s))
      BY <1>3
    <3> QED
      BY <1>1, <2>6, <3>1, <3>2, <3>3
  <2>11. Apart(src, C, h)
    <3> SUFFICES ASSUME NEW d \in C PROVE src.cell[d].data # h
      BY DEF Apart
    <3>1. d \in L /\ own[d] >= b + 1 /\ own[d] <= n - 1 /\ own[d] \in Int
      BY <1>4, <2>8 DEF CellsAfter
    <3>2. PICK a, z : a = own[d] /\ z = Overflow(src, a)
      OBVIOUS
    <3>3. a \in 0 .. n - 1 /\ a # b
      BY <1>1, <3>1, <3>2
    <3>4. PICK i \in 1 .. Len(z) : z[i] = d
      BY <1>4, <3>1, <3>2, <3>3
    <3>5. \A j \in 1 .. Len(z) : Fits(src.cell[z[j]].data, n, a)
      BY <3>2, <3>3, OverflowIs
    <3>6. Fits(src.cell[d].data, n, a) /\ Fits(h, n, b)
      BY <1>3, <1>10, <3>4, <3>5
    <3> QED
      BY <3>3, <3>6, FitsOne
  <2>12. Stage(Put(u, h), src, size, C, J \cup {h})
    BY <2>7, <2>10, <2>11, StagePut
  <2> QED
    BY <2>1, <2>6, <2>8, <2>9, <2>12
<1> QED
  BY <1>9, <1>10

-----------------------------------------------------------------------------
(* What the walks over a whole table list.                                  *)

\* Sequence s has the elements of X, each once.
Lists(s, X) ==
  /\ s \in Seq(X)
  /\ \A i, j \in 1 .. Len(s) : s[i] = s[j] => i = j
  /\ \A x \in X : \E i \in 1 .. Len(s) : s[i] = x

\* The length, the set and the injectivity of such a sequence.
LEMMA ListsIs ==
  ASSUME NEW s, NEW X, Lists(s, X)
  PROVE  IsInjective(s) /\ ToSet(s) = X /\ Len(s) = Cardinality(X) /\ IsFiniteSet(X)
<1>1. /\ s \in Seq(X) /\ DOMAIN s = 1 .. Len(s) /\ Len(s) \in Nat
      /\ \A i, j \in 1 .. Len(s) : s[i] = s[j] => i = j
      /\ \A x \in X : \E i \in 1 .. Len(s) : s[i] = x
      /\ \A i \in 1 .. Len(s) : s[i] \in X
  BY DEF Lists
<1>2. IsInjective(s)
  BY <1>1 DEF IsInjective
<1>3. ToSet(s) = X
  BY <1>1 DEF ToSet
<1>4. s \in [1 .. Len(s) -> X]
  BY <1>1
<1>5. s \in Bijection(1 .. Len(s), X)
  BY <1>1, <1>2, <1>4 DEF Bijection, Injection, Surjection
<1>6. Cardinality(1 .. Len(s)) = Len(s) /\ IsFiniteSet(1 .. Len(s))
  <2>1. 1 \in Int /\ Len(s) \in Int /\ (IF 1 > Len(s) THEN 0 ELSE Len(s) - 1 + 1) = Len(s)
    BY <1>1
  <2> QED
    BY <2>1, FS_Interval
<1>7. ExistsBijection(1 .. Len(s), X)
  BY <1>5 DEF ExistsBijection
<1> QED
  BY <1>2, <1>3, <1>6, <1>7, FS_Bijection

\* Two such sequences with nothing in common, joined.
LEMMA ListsConcat ==
  ASSUME NEW s, NEW X, Lists(s, X), NEW r, NEW Y, Lists(r, Y), X \cap Y = {}
  PROVE  Lists(s \o r, X \cup Y)
<1>1. /\ s \in Seq(X) /\ Len(s) \in Nat
      /\ \A i, j \in 1 .. Len(s) : s[i] = s[j] => i = j
      /\ \A x \in X : \E i \in 1 .. Len(s) : s[i] = x
      /\ \A i \in 1 .. Len(s) : s[i] \in X
  BY DEF Lists
<1>2. /\ r \in Seq(Y) /\ Len(r) \in Nat
      /\ \A i, j \in 1 .. Len(r) : r[i] = r[j] => i = j
      /\ \A x \in Y : \E i \in 1 .. Len(r) : r[i] = x
      /\ \A i \in 1 .. Len(r) : r[i] \in Y
  BY DEF Lists
<1>3. PICK u : u = s \o r
  OBVIOUS
<1>4. /\ u \in Seq(X \cup Y) /\ Len(u) = Len(s) + Len(r)
      /\ \A i \in 1 .. Len(u) : u[i] = IF i <= Len(s) THEN s[i] ELSE r[i - Len(s)]
  <2>1. s \in Seq(X \cup Y) /\ r \in Seq(X \cup Y)
    BY <1>1, <1>2, SeqMonotonic
  <2> QED
    BY <1>3, <2>1, ConcatProperties
<1>5. \A i \in 1 .. Len(u) : \/ i \in 1 .. Len(s) /\ u[i] = s[i] /\ u[i] \in X
                             \/ ~(i <= Len(s)) /\ i - Len(s) \in 1 .. Len(r) /\ u[i] = r[i - Len(s)] /\ u[i] \in Y
  <2> TAKE i \in 1 .. Len(u)
  <2>1. CASE i <= Len(s)
    <3>1. i \in 1 .. Len(s)
      BY <1>1, <1>4, <2>1
    <3> QED
      BY <1>1, <1>4, <2>1, <3>1
  <2>2. CASE ~(i <= Len(s))
    <3>1. i - Len(s) \in 1 .. Len(r)
      BY <1>1, <1>2, <1>4, <2>2
    <3> QED
      BY <1>2, <1>4, <2>2, <3>1
  <2> QED
    BY <2>1, <2>2
<1>6. ASSUME NEW i \in 1 .. Len(u), NEW j \in 1 .. Len(u), u[i] = u[j] PROVE i = j
  <2>1. CASE i \in 1 .. Len(s) /\ u[i] = s[i] /\ u[i] \in X
    <3>1. j \in 1 .. Len(s) /\ u[j] = s[j]
      BY <1>5, <1>6, <2>1
    <3> QED
      BY <1>1, <1>6, <2>1, <3>1
  <2>2. CASE ~(i <= Len(s)) /\ i - Len(s) \in 1 .. Len(r) /\ u[i] = r[i - Len(s)] /\ u[i] \in Y
    <3>1. j - Len(s) \in 1 .. Len(r) /\ u[j] = r[j - Len(s)]
      BY <1>5, <1>6, <2>2
    <3>2. i - Len(s) = j - Len(s)
      BY <1>2, <1>6, <2>2, <3>1
    <3> QED
      BY <1>1, <3>2
  <2> QED
    BY <1>5, <2>1, <2>2
<1>7. ASSUME NEW x \in X \cup Y PROVE \E i \in 1 .. Len(u) : u[i] = x
  <2>1. CASE x \in X
    <3>1. PICK i \in 1 .. Len(s) : s[i] = x
      BY <1>1, <2>1
    <3>2. i \in 1 .. Len(u) /\ i <= Len(s)
      BY <1>1, <1>2, <1>4
    <3> QED
      BY <1>4, <3>1, <3>2
  <2>2. CASE x \in Y
    <3>1. PICK i \in 1 .. Len(r) : r[i] = x
      BY <1>2, <2>2
    <3>2. PICK a, b, k : a = Len(s) /\ b = Len(r) /\ k = i + a /\ a \in Nat /\ b \in Nat /\ Len(u) = a + b /\ i \in 1 .. b
      BY <1>1, <1>2, <1>4
    <3>3. k \in 1 .. Len(u) /\ ~(k <= Len(s)) /\ k - Len(s) = i
      BY <3>2
    <3>4. u[k] = r[i]
      BY <1>4, <3>3
    <3> QED
      BY <3>1, <3>3, <3>4
  <2> QED
    BY <2>1, <2>2
<1> QED
  BY <1>3, <1>4, <1>6, <1>7 DEF Lists

\* FlattenSeq goes through its sequences in order.
Flattens(f, seqs) == f = [i \in 1 .. Len(seqs) |-> IF i = 1 THEN seqs[i] ELSE f[i - 1] \o seqs[i]]

\* The n sets X share nothing and make up Y; sequence by sequence, seqs has their elements.
Parted(X, n, Y) ==
  /\ \A i, j \in 1 .. n : i # j => X[i] \cap X[j] = {}
  /\ \A i \in 1 .. n : X[i] \subseteq Y
  /\ \A y \in Y : \E i \in 1 .. n : y \in X[i]
AllList(seqs, X, n) == Len(seqs) = n /\ \A i \in 1 .. n : Lists(seqs[i], X[i])

\* Any number of them, joined.
LEMMA FlattenLists ==
  ASSUME NEW seqs, NEW n \in Nat \ {0}, NEW X, NEW Y, AllList(seqs, X, n), Parted(X, n, Y)
  PROVE  Lists(FlattenSeq(seqs), Y)
<1>00. /\ Len(seqs) = n /\ \A i \in 1 .. n : Lists(seqs[i], X[i])
       /\ \A i, j \in 1 .. n : i # j => X[i] \cap X[j] = {}
       /\ \A i \in 1 .. n : X[i] \subseteq Y
       /\ \A y \in Y : \E i \in 1 .. n : y \in X[i]
  BY DEF AllList, Parted
<1>01. Len(seqs) = n
  BY <1>00
<1> DEFINE v == CHOOSE f : Flattens(f, seqs)
<1>1. FlattenSeq(seqs) = v[Len(seqs)]
  BY <1>01 DEF FlattenSeq, Flattens
<1>0. \A p, i : After(3, seqs, p, i) = p \o seqs[i]
  BY DEF After
<1>0a. \A f, i : (IF i = 1 THEN seqs[i] ELSE f[i - 1] \o seqs[i]) = (IF i = 1 THEN seqs[1] ELSE After(3, seqs, f[i - 1], i))
  BY <1>0
<1>0b. \A f : Flattens(f, seqs) <=> Iterates(f, 1, n, 3, seqs, seqs[1])
  BY <1>0a, <1>01, ZenonT(60) DEF Flattens, Iterates
<1> USE <1>00
<1>2. PICK g : Iterates(g, 1, n, 3, seqs, seqs[1])
  <2>1. 1 \in Nat /\ n \in Nat /\ 1 <= n
    OBVIOUS
  <2> QED
    BY <2>1, IteratesExist
<1>3. Flattens(g, seqs)
  BY <1>0b, <1>2
<1>4. Flattens(v, seqs)
  BY <1>3
<1> HIDE DEF v
<1>5. Iterates(v, 1, n, 3, seqs, seqs[1])
  BY <1>0b, <1>4
<1>6. v[1] = seqs[1] /\ \A i \in 2 .. n : v[i] = v[i - 1] \o seqs[i]
  <2>1. v[1] = seqs[1] /\ \A i \in 1 + 1 .. n : v[i] = After(3, seqs, v[i - 1], i)
    <3>1. 1 \in Nat /\ n \in Nat /\ 1 <= n
      OBVIOUS
    <3> QED
      BY <1>5, <3>1, IteratesAre
  <2>2. ASSUME NEW i \in 2 .. n PROVE v[i] = v[i - 1] \o seqs[i]
    <3>1. i \in 1 + 1 .. n
      OBVIOUS
    <3>2. v[i] = After(3, seqs, v[i - 1], i)
      BY <2>1, <3>1
    <3> QED
      BY <1>0, <3>2
  <2> QED
    BY <2>1, <2>2
<1> DEFINE U(i) == UNION {X[j] : j \in 1 .. i}
           I == {i \in Nat : \A m \in 1 .. n : m = i + 1 => Lists(v[m], U(m))}
<1>7. 0 \in I
  <2>1. U(1) = X[1]
    BY 1 .. 1 = {1}
  <2> HIDE DEF U
  <2> QED
    BY <1>6, <2>1
<1>8. ASSUME NEW i \in Nat, i \in I PROVE i + 1 \in I
  <2> SUFFICES ASSUME NEW k \in 1 .. n, k = (i + 1) + 1 PROVE Lists(v[k], U(k))
    OBVIOUS
  <2>1. PICK m : m = i + 1
    OBVIOUS
  <2>2. m \in 1 .. n /\ k = m + 1 /\ k - 1 = m
    BY <2>1
  <2>3. Lists(v[m], U(m))
    BY <1>8, <2>1, <2>2
  <2>4. k \in 2 .. n /\ 1 .. k = (1 .. m) \cup {k} /\ 1 .. m \subseteq 1 .. n /\ k \notin 1 .. m
    BY <2>2
  <2>5. v[k] = v[m] \o seqs[k] /\ Lists(seqs[k], X[k])
    BY <1>6, <2>2, <2>4
  <2>6. U(k) = U(m) \cup X[k]
    BY <2>4
  <2>7. U(m) \cap X[k] = {}
    BY <2>4
  <2> HIDE DEF U
  <2> QED
    BY <2>3, <2>5, <2>6, <2>7, ListsConcat
<1>9. n - 1 \in I
  <2> HIDE DEF I
  <2> QED
    BY <1>7, <1>8, UpFromZero
<1>10. Lists(v[n], U(n))
  <2>1. (n - 1) + 1 = n /\ n \in 1 .. n
    OBVIOUS
  <2> QED
    BY <1>9, <2>1
<1>11. U(n) = Y
  OBVIOUS
<1> HIDE DEF U
<1> QED
  BY <1>1, <1>10, <1>11

\* A sequence of the elements of a set.
LEMMA SeqIn ==
  ASSUME NEW S, NEW s \in Seq(S), NEW T, \A i \in 1 .. Len(s) : s[i] \in T
  PROVE  s \in Seq(T)
<1>1. s \in [1 .. Len(s) -> S] /\ Len(s) \in Nat
  OBVIOUS
<1>2. s \in [1 .. Len(s) -> T]
  BY <1>1
<1> QED
  BY <1>1, <1>2, SeqDef

\* The entries of the table, bucket by bucket, are its members.
LEMMA AllEntriesAre ==
  ASSUME NEW t, NEW L, NEW P, NEW K, Holds(t, L, P, K)
  PROVE  Lists(AllEntries(t), K)
<1>1. PICK n : n = t.n_buckets /\ n \in Nat \ {0} /\ K \subseteq Keys /\ Table(t)
  <2>1. Table(t) /\ K \subseteq Keys
    BY HoldsTypes
  <2> QED
    BY <2>1 DEF Table
<1> DEFINE seqs == [i \in 1 .. n |-> Entries(t, i - 1)]
           X == [i \in 1 .. n |-> {k \in K : Fits(k, n, i - 1)}]
<1>2. AllEntries(t) = FlattenSeq(seqs)
  BY <1>1 DEF AllEntries
<1>3. Len(seqs) = n /\ \A i \in 1 .. n : seqs[i] = Entries(t, i - 1) /\ X[i] = {k \in K : Fits(k, n, i - 1)}
  BY <1>1
<1> HIDE DEF seqs, X
<1>4. ASSUME NEW i \in 1 .. n PROVE Lists(seqs[i], X[i])
  <2>1. PICK b, e : b = i - 1 /\ e = Entries(t, b)
    OBVIOUS
  <2>2. b \in 0 .. t.n_buckets - 1
    BY <1>1, <2>1
  <2>3. /\ e \in Seq(K) /\ \A j, m \in 1 .. Len(e) : e[j] = e[m] => j = m
        /\ \A k \in K : Fits(k, n, b) <=> \E j \in 1 .. Len(e) : e[j] = k
    BY <1>1, <2>1, <2>2, EntriesAre
  <2>4. seqs[i] = e /\ X[i] = {k \in K : Fits(k, n, b)}
    BY <1>3, <2>1
  <2>5. Len(e) \in Nat /\ DOMAIN e = 1 .. Len(e) /\ \A j \in 1 .. Len(e) : e[j] \in X[i]
    BY <2>3, <2>4
  <2>6. e \in Seq(X[i])
    BY <2>3, <2>5, SeqIn
  <2>7. \A k \in X[i] : \E j \in 1 .. Len(e) : e[j] = k
    BY <2>3, <2>4
  <2> QED
    BY <2>3, <2>4, <2>6, <2>7 DEF Lists
<1>5. ASSUME NEW i \in 1 .. n, NEW j \in 1 .. n, i # j PROVE X[i] \cap X[j] = {}
  <2> SUFFICES ASSUME NEW k \in K, Fits(k, n, i - 1), Fits(k, n, j - 1) PROVE FALSE
    BY <1>3
  <2>1. i - 1 = j - 1
    BY FitsOne
  <2> QED
    BY <1>5, <2>1
<1>6. Parted(X, n, K)
  <2>1. ASSUME NEW k \in K PROVE \E i \in 1 .. n : k \in X[i]
    <3>1. PICK b : b = safe_hasher(t, k)
      OBVIOUS
    <3>2. b \in 0 .. n - 1 /\ Fits(k, n, b)
      BY <1>1, <3>1, HashIs
    <3>3. b + 1 \in 1 .. n /\ (b + 1) - 1 = b
      BY <1>1, <3>2
    <3> QED
      BY <1>3, <3>2, <3>3
  <2>2. \A i \in 1 .. n : X[i] \subseteq K
    BY <1>3
  <2> QED
    BY <1>5, <2>1, <2>2 DEF Parted
<1>7. Lists(FlattenSeq(seqs), K)
  <2>1. AllList(seqs, X, n)
    BY <1>3, <1>4 DEF AllList
  <2> QED
    BY <1>1, <1>6, <2>1, FlattenLists
<1> QED
  BY <1>2, <1>7

CellsInUseOf(t) == FlattenSeq([i \in 1 .. t.n_buckets |-> Overflow(t, i - 1)]) \o FreeCells(t)

\* The cells of the table, chain by chain and then the free ones.
LEMMA CellsInUseAre ==
  ASSUME NEW t, NEW L, NEW K, Holds(t, L, {}, K)
  PROVE  Lists(CellsInUseOf(t), L)
<1>1. PICK n : n = t.n_buckets /\ n \in Nat \ {0}
  <2>1. Table(t)
    BY HoldsTypes
  <2> QED
    BY <2>1 DEF Table
<1>2. PICK own : Owned(t, L, own)
  <2>1. 1 \in Nat \ {0}
    OBVIOUS
  <2> QED
    BY <2>1, ChainsAre
<1> DEFINE seqs == [i \in 1 .. n |-> Overflow(t, i - 1)]
           X == [i \in 1 .. n |-> {c \in L : own[c] = i - 1}]
<1>3. CellsInUseOf(t) = FlattenSeq(seqs) \o FreeCells(t)
  BY <1>1 DEF CellsInUseOf
<1>4. Len(seqs) = n /\ \A i \in 1 .. n : seqs[i] = Overflow(t, i - 1) /\ X[i] = {c \in L : own[c] = i - 1}
  BY <1>1
<1> HIDE DEF seqs, X
<1>5. ASSUME NEW i \in 1 .. n PROVE Lists(seqs[i], X[i])
  <2>1. PICK b, s : b = i - 1 /\ s = Overflow(t, b)
    OBVIOUS
  <2>2. b \in 0 .. t.n_buckets - 1
    BY <1>1, <2>1
  <2>3. /\ s \in Seq(L) /\ \A j, m \in 1 .. Len(s) : s[j] = s[m] => j = m
    BY <2>1, <2>2, OverflowIs
  <2>4. \A c \in L : own[c] = b <=> \E j \in 1 .. Len(s) : s[j] = c
    BY <1>2, <2>1, <2>2, SMTT(30) DEF Owned
  <2>5. seqs[i] = s /\ X[i] = {c \in L : own[c] = b}
    BY <1>4, <2>1
  <2>6. Len(s) \in Nat /\ DOMAIN s = 1 .. Len(s) /\ \A j \in 1 .. Len(s) : s[j] \in X[i]
    BY <2>3, <2>4, <2>5
  <2>7. s \in Seq(X[i])
    BY <2>3, <2>6, SeqIn
  <2>8. \A c \in X[i] : \E j \in 1 .. Len(s) : s[j] = c
    BY <2>4, <2>5
  <2> QED
    BY <2>3, <2>5, <2>7, <2>8 DEF Lists
<1>6. ASSUME NEW i \in 1 .. n, NEW j \in 1 .. n, i # j PROVE X[i] \cap X[j] = {}
  BY <1>4, <1>6
<1>7. PICK A, B : A = {c \in L : own[c] # -1} /\ B = {c \in L : own[c] = -1}
  OBVIOUS
<1>8. Parted(X, n, A)
  <2>1. ASSUME NEW c \in L, own[c] # -1 PROVE \E i \in 1 .. n : c \in X[i]
    <3>1. PICK b : b = own[c]
      OBVIOUS
    <3>2. b \in -1 .. n - 1 /\ b # -1
      BY <1>1, <1>2, <2>1, <3>1 DEF Owned
    <3>3. b + 1 \in 1 .. n /\ (b + 1) - 1 = b
      BY <1>1, <3>2
    <3> QED
      BY <1>4, <3>1, <3>3
  <2>2. \A i \in 1 .. n : \A c \in X[i] : c \in L /\ own[c] # -1
    BY <1>4
  <2>3. \A i \in 1 .. n : X[i] \subseteq A
    BY <1>7, <2>2
  <2>4. \A c \in A : \E i \in 1 .. n : c \in X[i]
    BY <1>7, <2>1
  <2> QED
    BY <1>6, <2>3, <2>4 DEF Parted
<1>9. Lists(FlattenSeq(seqs), A)
  <2>1. AllList(seqs, X, n)
    BY <1>4, <1>5 DEF AllList
  <2> QED
    BY <1>1, <1>8, <2>1, FlattenLists
<1>10. Lists(FreeCells(t), B)
  <2>1. PICK z : z = FreeCells(t)
    OBVIOUS
  <2>2. /\ \A c \in L : own[c] = -1 <=> \E i \in 1 .. Len(z) : z[i] = c
        /\ z \in Seq(L)
        /\ \A i, j \in 1 .. Len(z) : z[i] = z[j] => i = j
    BY <1>2, <2>1 DEF Owned
  <2>3. Len(z) \in Nat /\ DOMAIN z = 1 .. Len(z) /\ \A j \in 1 .. Len(z) : z[j] \in B
    BY <1>7, <2>2
  <2>4. z \in Seq(B)
    BY <2>2, <2>3, SeqIn
  <2>5. \A c \in B : \E j \in 1 .. Len(z) : z[j] = c
    BY <1>7, <2>2
  <2> QED
    BY <2>1, <2>2, <2>4, <2>5 DEF Lists
<1>11. A \cap B = {} /\ A \cup B = L
  BY <1>7
<1>12. Lists(FlattenSeq(seqs) \o FreeCells(t), A \cup B)
  BY <1>9, <1>10, <1>11, ListsConcat
<1> QED
  BY <1>3, <1>11, <1>12

-----------------------------------------------------------------------------
(* Rehashes.                                                                *)

\* Table sizes are positive.
LEMMA NextPrimeIs ==
  ASSUME NEW candidate \in Nat
  PROVE  next_prime(candidate) \in Nat \ {0}
<1>1. PICK start : start = IF candidate < SmallestCandidate THEN SmallestCandidate ELSE candidate
  OBVIOUS
<1>2. PICK odd : odd = IF start % 2 = 0 THEN start + 1 ELSE start
  OBVIOUS
<1>3. PICK S : S = {2 * odd + 1} \cup {p \in odd .. 2 * odd : p % 2 = 1 /\ is_prime(p)}
  OBVIOUS
<1>4. next_prime(candidate) = Min(S)
  BY <1>1, <1>2, <1>3 DEF next_prime
<1>5. odd \in Nat \ {0}
  BY <1>1, <1>2, HashAssumption
<1>6. S \subseteq Nat \ {0} /\ S # {}
  BY <1>3, <1>5
<1>7. \E x \in S : \A y \in S : x <= y
  BY <1>6, LeastOne
<1>8. Min(S) \in S
  BY <1>7 DEF Min
<1> QED
  BY <1>4, <1>6, <1>8

\* compute_bucket_size never gives 0.
LEMMA SizeIs == \A candidate \in Nat : compute_bucket_size(candidate) \in Nat \ {0}
<1> TAKE candidate \in Nat
<1>1. \A x \in Nat, y \in Nat \ {0} : x \div y \in Nat
  OBVIOUS
<1>2. GrowthThreshold \in Nat \ {0} /\ 10 * candidate \in Nat
  BY HashAssumption
<1>3. (10 * candidate) \div GrowthThreshold \in Nat
  BY <1>1, <1>2
<1> QED
  BY <1>3, NextPrimeIs DEF compute_bucket_size

\* Nor does it when a table grows or shrinks.
LEMMA ResizedIs ==
  ASSUME NEW n \in Nat, NEW factor \in Nat
  PROVE  Resized(n, factor) \in Nat \ {0}
<1>1. \A x, y \in Nat : x * y \in Nat
  OBVIOUS
<1>2. (n * factor) * GrowthThreshold \in Nat
  BY <1>1, HashAssumption
<1>3. \A x \in Nat : x \div 10000 \in Nat
  OBVIOUS
<1>4. (n * factor * GrowthThreshold) \div 10000 \in Nat
  BY <1>2, <1>3
<1> QED
  BY <1>4, SizeIs DEF Resized

\* A new table has empty buckets.
LEMMA NewTableIs ==
  ASSUME NEW t, IsTable(t), NEW size \in Nat \ {0}
  PROVE  /\ NewTable(t, size).n_buckets = size /\ NewTable(t, size).entry_stack = t.entry_stack
         /\ NewTable(t, size).n_entries = t.n_entries /\ NewTable(t, size).cell = t.cell
         /\ Tally(NewTable(t, size))
<1>1. PICK bucket, u, v, w : /\ bucket = [b \in 0 .. size - 1 |-> EmptyEntry] /\ u = NewTable(t, size)
                             /\ v = SetBucket(t, bucket) /\ w = SetSize(v, size)
  OBVIOUS
<1>2. u = SetUsed(w, 0)
  BY <1>1 DEF NewTable, SetBucket, SetSize, SetUsed
<1>3. v = TableOf(bucket, t.n_buckets, t.n_buckets_used, t.n_entries, t.free_entry_list, t.entry_stack, t.cell)
  BY <1>1, Sets DEF With
<1>4. w = TableOf(bucket, size, t.n_buckets_used, t.n_entries, t.free_entry_list, t.entry_stack, t.cell)
  BY <1>1, <1>3, SetField
<1>5. u = TableOf(bucket, size, 0, t.n_entries, t.free_entry_list, t.entry_stack, t.cell)
  BY <1>2, <1>4, SetField
<1>6. /\ u.bucket = bucket /\ u.n_buckets = size /\ u.n_buckets_used = 0 /\ u.n_entries = t.n_entries
      /\ u.entry_stack = t.entry_stack /\ u.cell = t.cell
  BY <1>5, FieldsAre
<1>7. EmptyEntry.data = NULL /\ \A b \in 0 .. size - 1 : bucket[b] = EmptyEntry
  BY <1>1 DEF EmptyEntry
<1>8. Used(u) = {}
  BY <1>6, <1>7 DEF Used
<1>9. Cardinality({}) = 0
  BY FS_EmptySet
<1> QED
  BY <1>1, <1>6, <1>8, <1>9 DEF Tally

\* transfer_entries moves every member.
LEMMA TransferStage ==
  ASSUME NEW t, NEW K, Full(t, {}, K), NEW size \in Nat \ {0}
  PROVE  Stage(transfer_entries(NewTable(t, size), t), t, size, {}, K)
<1>1. PICK L, n, dst : L = Live(t, {}) /\ n = t.n_buckets /\ dst = NewTable(t, size)
  OBVIOUS
<1>2. Holds(t, L, {}, K) /\ t.entry_stack \in Nat \ {0} /\ L = 1 .. t.entry_stack - 1 /\ Table(t) /\ n \in Nat \ {0}
      /\ t.entry_stack \in 1 .. ChunkCells + 1
  <2>1. Holds(t, L, {}, K) /\ t.entry_stack \in Nat \ {0} /\ L \cup {} = 1 .. t.entry_stack - 1 /\ Table(t) /\ n \in Nat \ {0}
    BY <1>1, FullIs
  <2> QED
    BY <2>1 DEF Full
<1>3. PICK own : Owned(t, L, own) /\ Holds(dst, CellsFree(L, own), CellsBound(L, own), {})
  BY <1>1, <1>2, ChainsAre
<1>4. IsTable(t)
  BY <1>2 DEF Table
<1>5. dst.n_buckets = size /\ dst.entry_stack = t.entry_stack /\ dst.n_entries = t.n_entries /\ dst.cell = t.cell /\ Tally(dst)
  BY <1>1, <1>4, NewTableIs
<1>6. \A c \in L : own[c] \in -1 .. n - 1
  BY <1>1, <1>3 DEF Owned
<1>7. PICK P : P = CellsBound(L, own)
  OBVIOUS
<1>8. /\ CellsAfter(L, own, 0) = P /\ CellsAfter(L, own, n) = {}
      /\ CellsFree(L, own) = (1 .. t.entry_stack - 1) \ P /\ P \subseteq 1 .. t.entry_stack - 1
  <2>1. \A c \in L : (own[c] >= 0 <=> own[c] # -1) /\ ~(own[c] >= n)
    BY <1>2, <1>6
  <2> QED
    BY <1>2, <1>7, <2>1 DEF CellsAfter, CellsFree, CellsBound
<1>9. KeysBefore(K, n, 0) = {} /\ KeysBefore(K, n, n) = K
  <2>1. 0 .. 0 - 1 = {}
    OBVIOUS
  <2>2. \A k \in K : \E a \in 0 .. n - 1 : Fits(k, n, a)
    <3> TAKE k \in K
    <3>1. k \in Keys
      BY <1>2, HoldsTypes
    <3> QED
      BY <1>1, <1>2, <3>1, HashIs
  <2> QED
    BY <2>1, <2>2 DEF KeysBefore
<1>10. Stage(dst, t, size, CellsAfter(L, own, 0), KeysBefore(K, n, 0))
  <2>1. Full(dst, P, {})
    BY <1>2, <1>3, <1>5, <1>7, <1>8 DEF Full
  <2>2. Stage(dst, t, size, P, {})
    BY <1>5, <2>1 DEF Stage
  <2> QED
    BY <1>8, <1>9, <2>2
<1>11. PICK f : /\ f[0] = dst /\ \A b \in 1 .. n : f[b] = BucketMoved(f[b - 1], t, b - 1)
                /\ transfer_entries(dst, t) = f[n]
  <2>1. n \in Nat
    BY <1>2
  <2> QED
    BY <1>1, <2>1, TransferIs
<1> DEFINE I == {b \in Nat : b <= n => Stage(f[b], t, size, CellsAfter(L, own, b), KeysBefore(K, n, b))}
<1>12. 0 \in I
  BY <1>10, <1>11
<1>13. ASSUME NEW b \in Nat, b \in I PROVE b + 1 \in I
  <2> SUFFICES ASSUME b + 1 <= n PROVE Stage(f[b + 1], t, size, CellsAfter(L, own, b + 1), KeysBefore(K, n, b + 1))
    OBVIOUS
  <2>1. b \in 0 .. n - 1 /\ b + 1 \in 1 .. n /\ (b + 1) - 1 = b /\ b <= n
    BY <1>2
  <2>2. Stage(f[b], t, size, CellsAfter(L, own, b), KeysBefore(K, n, b))
    BY <1>13, <2>1
  <2>3. f[b + 1] = BucketMoved(f[b], t, b)
    BY <1>11, <2>1
  <2> QED
    <3>1. Source(t, L, K, own, n, b)
      BY <1>1, <1>2, <1>3, <2>1 DEF Source
    <3> QED
      BY <2>2, <2>3, <3>1, BucketStage
<1>14. n \in I
  <2> HIDE DEF I
  <2> QED
    BY <1>2, <1>12, <1>13, UpFromZero
<1>15. Stage(f[n], t, size, CellsAfter(L, own, n), KeysBefore(K, n, n))
  BY <1>2, <1>14
<1> QED
  BY <1>1, <1>8, <1>9, <1>11, <1>15

-----------------------------------------------------------------------------
\* A table that holds K, counted right.
Sound(t, K) == Full(t, {}, K) /\ Tally(t) /\ t.n_entries = Cardinality(K)

\* A rehash that takes no cell from its copy of the stack keeps the table sound.
LEMMA SoundRehash ==
  ASSUME NEW t, NEW K, Sound(t, K), NEW size \in Nat \ {0}, ~Strays(t, size)
  PROVE  Sound(Rehashed(t, size), K)
<1>1. CASE size = t.n_buckets
  BY <1>1 DEF Rehashed
<1>2. CASE size # t.n_buckets
  <2>1. PICK u : u = transfer_entries(NewTable(t, size), t)
    OBVIOUS
  <2>2. Stage(u, t, size, {}, K)
    BY <2>1, TransferStage DEF Sound
  <2>3. u.entry_stack = t.entry_stack
    BY <1>2, <2>1 DEF Strays
  <2>4. Rehashed(t, size) = SetTop(u, u.entry_stack)
    BY <1>2, <2>1, <2>3 DEF Rehashed, hash_rehash, SetTop
  <2>5. IsTable(u)
    <3>1. Full(u, {}, K)
      BY <2>2 DEF Stage
    <3> QED
      BY <3>1, FullIs DEF Table
  <2>6. SetTop(u, u.entry_stack) = u
    <3>1. SetTop(u, u.entry_stack) = TableOf(u.bucket, u.n_buckets, u.n_buckets_used, u.n_entries, u.free_entry_list, u.entry_stack, u.cell)
      BY <2>5, Sets
    <3> QED
      BY <2>5, <3>1 DEF IsTable
  <2> QED
    BY <2>2, <2>4, <2>6 DEF Stage, Sound
<1> QED
  BY <1>1, <1>2

-----------------------------------------------------------------------------
(* Insertions and removals of a sound table.                                *)

\* What a sound table is, in the terms of the invariants.
LEMMA SoundIs ==
  ASSUME NEW t, NEW K, Sound(t, K)
  PROVE  /\ Holds(t, Live(t, {}), {}, K) /\ Live(t, {}) = 1 .. t.entry_stack - 1 /\ t.entry_stack \in 1 .. ChunkCells + 1
         /\ Table(t) /\ t.n_buckets \in Nat \ {0} /\ K \subseteq Keys /\ IsFiniteSet(K) /\ Cardinality(K) \in Nat
         /\ \A k \in Keys : Has(t, k) <=> k \in K
<1>1. PICK L : L = Live(t, {})
  OBVIOUS
<1>2. Full(t, {}, K)
  BY DEF Sound
<1>3. Holds(t, L, {}, K) /\ L \cup {} = 1 .. t.entry_stack - 1 /\ Table(t) /\ t.n_buckets \in Nat \ {0}
  BY <1>1, <1>2, FullIs
<1>4. t.entry_stack \in 1 .. ChunkCells + 1
  BY <1>2 DEF Full
<1>5. K \subseteq Keys
  BY <1>3, HoldsTypes
<1>6. IsFiniteSet(K) /\ Cardinality(K) \in Nat
  BY <1>5, HashAssumption, FS_Subset, FS_CardinalityType, ZenonT(60)
<1>7. \A k \in Keys : Has(t, k) <=> k \in K
  BY <1>3, HasIs
<1> QED
  BY <1>1, <1>3, <1>4, <1>5, <1>6, <1>7

\* An insertion into a sound table, once the table is large enough.
LEMMA SoundPut ==
  ASSUME NEW t, NEW K, Sound(t, K), NEW k \in Keys \ K
  PROVE  Sound([Put(t, k) EXCEPT !.n_entries = @ + 1], K \cup {k})
<1>1. PICK u, v : u = Put(t, k) /\ v = SetCount(u, u.n_entries + 1)
  OBVIOUS
<1>2. [Put(t, k) EXCEPT !.n_entries = @ + 1] = v
  BY <1>1 DEF SetCount
<1>3. Full(t, {}, K) /\ Tally(t) /\ t.n_entries = Cardinality(K) /\ IsFiniteSet(K) /\ Cardinality(K) \in Nat
  BY SoundIs DEF Sound
<1>4. Apart(t, {}, k)
  BY DEF Apart
<1>5. Full(u, {}, K \cup {k}) /\ Kept(t, u, {})
  BY <1>1, <1>3, <1>4, PutIs
<1>6. PICK L : L = Live(u, {})
  OBVIOUS
<1>7. Holds(u, L, {}, K \cup {k})
  BY <1>5, <1>6, FullIs
<1>8. /\ Holds(v, L, {}, K \cup {k})
      /\ v.bucket = u.bucket /\ v.n_buckets = u.n_buckets /\ v.n_buckets_used = u.n_buckets_used
      /\ v.n_entries = u.n_entries + 1 /\ v.entry_stack = u.entry_stack
  BY <1>1, <1>7, HoldsCounts
<1>9. Full(v, {}, K \cup {k})
  BY <1>5, <1>6, <1>8 DEF Full, Live
<1>10. Tally(v)
  <2>1. Used(v) = Used(u)
    BY <1>8 DEF Used
  <2> QED
    BY <1>3, <1>5, <1>8, <2>1 DEF Kept, Tally
<1>11. Cardinality(K \cup {k}) = Cardinality(K) + 1
  BY <1>3, FS_AddElement
<1> QED
  BY <1>2, <1>3, <1>5, <1>8, <1>9, <1>10, <1>11 DEF Sound, Kept

\* A removal from a sound table, before it may shrink.
LEMMA SoundRemove ==
  ASSUME NEW t, NEW K, Sound(t, K), NEW k \in K, NEW d, d = [Deleted(t, k) EXCEPT !.n_entries = @ - 1]
  PROVE  Sound(IF d.bucket[safe_hasher(d, k)].data = NULL THEN [d EXCEPT !.n_buckets_used = @ - 1] ELSE d, K \ {k})
<1>1. PICK u, b, L, M : u = Deleted(t, k) /\ b = safe_hasher(t, k) /\ L = Live(t, {}) /\ M = K \ {k}
  OBVIOUS
<1>2. PICK x : x = u.n_entries - 1
  OBVIOUS
<1>3. /\ Full(t, {}, K) /\ Tally(t) /\ t.n_entries = Cardinality(K) /\ IsFiniteSet(K) /\ Cardinality(K) \in Nat
      /\ Holds(t, L, {}, K) /\ t.n_buckets \in Nat /\ L = 1 .. t.entry_stack - 1 /\ t.entry_stack \in 1 .. ChunkCells + 1
  BY <1>1, SoundIs DEF Sound
<1>4. /\ Holds(u, L, {}, M) /\ Near(t, u) /\ b \in 0 .. t.n_buckets - 1 /\ t.bucket[b].data # NULL
      /\ Elsewhere(t, u, b)
  BY <1>1, <1>3, HoldsDeleted
<1>5. /\ Holds(d, L, {}, M) /\ d.bucket = u.bucket /\ d.n_buckets = u.n_buckets /\ d.n_buckets_used = u.n_buckets_used
      /\ d.n_entries = u.n_entries - 1 /\ d.entry_stack = u.entry_stack
  <2>1. d = SetCount(u, x)
    BY <1>1, <1>2 DEF SetCount
  <2>2. PICK e : e = SetCount(u, x)
    OBVIOUS
  <2>3. /\ Holds(e, L, {}, M) /\ e.bucket = u.bucket /\ e.n_buckets = u.n_buckets /\ e.n_buckets_used = u.n_buckets_used
        /\ e.n_entries = x /\ e.entry_stack = u.entry_stack
    BY <1>4, <2>2, HoldsCounts
  <2> QED
    BY <1>2, <2>1, <2>2, <2>3
<1>6. /\ d.n_buckets = t.n_buckets /\ d.n_buckets_used = t.n_buckets_used /\ d.n_entries = t.n_entries - 1 /\ d.entry_stack = t.entry_stack
      /\ \A a \in 0 .. t.n_buckets - 1 : a # b => d.bucket[a].data = t.bucket[a].data
  BY <1>4, <1>5 DEF Near, SameCounts, Elsewhere
<1>7. safe_hasher(d, k) = b
  BY <1>1, <1>6 DEF safe_hasher
<1>8. d.n_entries = Cardinality(M)
  <2>1. Cardinality(K \ {k}) = Cardinality(K) - 1
    BY <1>3, FS_RemoveElement
  <2> QED
    BY <1>1, <1>3, <1>6, <2>1
<1>9. CASE d.bucket[b].data = NULL
  <2>0. PICK y : y = d.n_buckets_used - 1
    OBVIOUS
  <2>1. PICK v : v = SetUsed(d, y)
    OBVIOUS
  <2>2. v = [d EXCEPT !.n_buckets_used = @ - 1]
    BY <2>0, <2>1 DEF SetUsed
  <2>3. /\ Holds(v, L, {}, M) /\ v.bucket = d.bucket /\ v.n_buckets = d.n_buckets /\ v.n_buckets_used = y
        /\ v.n_entries = d.n_entries /\ v.entry_stack = d.entry_stack
    <3>1. PICK e : e = d
      OBVIOUS
    <3>2. Holds(e, L, {}, M)
      BY <1>5, <3>1
    <3>3. PICK w : w = SetUsed(e, y)
      OBVIOUS
    <3>4. /\ Holds(w, L, {}, M) /\ w.bucket = e.bucket /\ w.n_buckets = e.n_buckets /\ w.n_buckets_used = y
          /\ w.n_entries = e.n_entries /\ w.entry_stack = e.entry_stack
      BY <3>2, <3>3, HoldsCounts
    <3> QED
      BY <2>1, <3>1, <3>3, <3>4
  <2>4. Cardinality(Used(d)) = Cardinality(Used(t)) - 1
    BY <1>3, <1>4, <1>6, <1>9, UsedChanges
  <2>5. Used(v) = Used(d)
    BY <2>3 DEF Used
  <2>6. Sound(v, M)
    BY <1>3, <1>6, <1>8, <2>0, <2>3, <2>4, <2>5 DEF Sound, Full, Tally
  <2> QED
    BY <1>1, <1>7, <1>9, <2>2, <2>6
<1>10. CASE d.bucket[b].data # NULL
  <2>1. Used(d) = Used(t)
    BY <1>3, <1>4, <1>6, <1>10, UsedChanges
  <2>2. Sound(d, M)
    BY <1>3, <1>5, <1>6, <1>8, <2>1 DEF Sound, Full, Tally
  <2> QED
    BY <1>1, <1>7, <1>10, <2>2
<1> QED
  BY <1>9, <1>10

-----------------------------------------------------------------------------
(* The table from hash_initialize to hash_free.                             *)

\* hash_initialize makes a sound, empty table.
LEMMA InitSound ==
  ASSUME HtInit
  PROVE  Sound(table, {})
<1>1. PICK n, bucket, cell : /\ n = compute_bucket_size(0) /\ bucket = [b \in 0 .. n - 1 |-> EmptyEntry]
                             /\ cell = [c \in Cells |-> EmptyEntry]
  OBVIOUS
<1>2. table = TableOf(bucket, n, 0, 0, NULL, 1, cell)
  BY <1>1 DEF HtInit, TableOf
<1>3. n \in Nat \ {0}
  BY <1>1, SizeIs
<1>4. PICK t : t = table
  OBVIOUS
<1>5. /\ t.bucket = bucket /\ t.n_buckets = n /\ t.n_buckets_used = 0 /\ t.n_entries = 0
      /\ t.free_entry_list = NULL /\ t.entry_stack = 1 /\ t.cell = cell /\ IsTable(t)
  BY <1>2, <1>4, FieldsAre
<1>6. EmptyEntry \in Entry /\ EmptyEntry.data = NULL /\ EmptyEntry.next = NULL
  BY DEF EmptyEntry, Entry
<1>7. /\ bucket \in [0 .. n - 1 -> Entry] /\ \A b \in 0 .. n - 1 : bucket[b] = EmptyEntry
      /\ cell \in [Cells -> Entry] /\ \A c \in Cells : cell[c] = EmptyEntry
  BY <1>1, <1>6
<1>8. Table(t)
  BY <1>3, <1>5, <1>7 DEF Table, Pointers
<1>9. PICK N, F, D, H : /\ N = Nexts(t.cell) /\ F = Firsts(t.bucket, t.n_buckets, t.free_entry_list) /\ D = Datas(t.cell)
                        /\ H = Heads(t.bucket, t.n_buckets)
  OBVIOUS
<1>10. N = [c \in Cells |-> NULL] /\ D = [c \in Cells |-> NULL]
  BY <1>5, <1>6, <1>7, <1>9 DEF Nexts, Datas
<1>11. H = [b \in 0 .. n - 1 |-> NULL]
  BY <1>5, <1>6, <1>7, <1>9 DEF Heads
<1>12. F = [o \in Owners(n) |-> NULL]
  <2>1. \A o \in Owners(n) : o # -1 => o \in 0 .. n - 1
    BY <1>3 DEF Owners
  <2> QED
    BY <1>5, <1>6, <1>7, <1>9, <2>1 DEF Firsts
<1>13. PICK own, rank : own = [c \in Cells |-> -1] /\ rank = [c \in Cells |-> 0]
  OBVIOUS
<1>14. Heap(N, F, {}, n, own, rank, 0)
  <2>1. -1 \in Owners(n)
    BY <1>3 DEF Owners
  <2>2. N \in [Cells -> Cells \cup {NULL}] /\ F \in [Owners(n) -> Cells \cup {NULL}]
    BY <1>10, <1>12
  <2>3. own \in [Cells -> Owners(n)] /\ rank \in [Cells -> 0 .. 0]
    BY <1>13, <2>1
  <2>4. \A o \in Owners(n) : F[o] = NULL
    BY <1>12
  <2> QED
    BY <1>3, <2>2, <2>3, <2>4 DEF Heap
<1>15. Content(D, H, F, n, {}, {}, {}, own)
  <2>1. D \in [Cells -> Keys \cup {NULL}] /\ H \in [0 .. n - 1 -> Keys \cup {NULL}]
    BY <1>10, <1>11
  <2>2. \A b \in 0 .. n - 1 : H[b] = NULL /\ F[b] = NULL
    <3>1. \A b \in 0 .. n - 1 : b \in Owners(n)
      BY <1>3 DEF Owners
    <3> QED
      BY <1>11, <1>12, <3>1
  <2>3. NULL \notin Keys
    BY HashAssumption DEF NULL
  <2> QED
    BY <2>1, <2>2, <2>3 DEF Content
<1>16. Holds(t, {}, {}, {})
  BY <1>3, <1>5, <1>8, <1>9, <1>14, <1>15 DEF Holds, Linked, Whole
<1>17. Full(t, {}, {})
  <2>1. (1 .. t.entry_stack - 1) \ {} = {} /\ t.entry_stack \in 1 .. ChunkCells + 1
    BY <1>5, HashAssumption
  <2> QED
    BY <1>16, <2>1 DEF Full
<1>18. Used(t) = {}
  BY <1>5, <1>6, <1>7 DEF Used
<1> QED
  BY <1>4, <1>5, <1>17, <1>18, FS_EmptySet DEF Sound, Tally

\* hash_find_entry finds just the members of a sound table.
LEMMA FoundAre ==
  ASSUME NEW t, NEW K, Sound(t, K)
  PROVE  {k \in Keys : Has(t, k)} = K
BY SoundIs

\* What a call does to the set of members, and what it returns.
SetStep(K, M) ==
  \/ \E k \in Keys :
       /\ freed' = freed
       /\ \/ k \in K /\ M = K /\ ht_ret' \in {"present", "found"}
          \/ k \notin K /\ M = K /\ ht_ret' \in {"failed", "absent", "missing"}
          \/ k \notin K /\ M = K \cup {k} /\ ht_ret' = "inserted"
          \/ k \in K /\ M = K \ {k} /\ ht_ret' = "removed"
  \/ freed' \in Seq(Keys) /\ ToSet(freed') = K /\ M = K /\ ht_ret' = "freed"

\* hash_insert keeps the table sound, and adds the key when it says so.
LEMMA InsertSound ==
  ASSUME NEW K, Sound(table, K), NEW k \in Keys, hash_insert(k), ~strayed'
  PROVE  ~strayed /\ \E M : Sound(table', M) /\ SetStep(K, M)
<1>1. Has(table, k) <=> k \in K
  BY SoundIs
<1>2. CASE InsertPresent(k)
  BY <1>1, <1>2 DEF InsertPresent, HtReturns, SetStep
<1>3. CASE InsertFails(k)
  BY <1>1, <1>3 DEF InsertFails, HtReturns, SetStep
<1>4. CASE InsertNew(k)
  <2>1. PICK size, t : /\ size = Resized(table.n_buckets, GrowthFactor)
                       /\ t = IF TooFull(table) THEN Rehashed(table, size) ELSE table
    OBVIOUS
  <2>2. /\ k \notin K /\ table' = [Put(t, k) EXCEPT !.n_entries = @ + 1]
        /\ strayed' = (strayed \/ (TooFull(table) /\ Strays(table, size)))
        /\ ht_ret' = "inserted" /\ freed' = freed
    BY <1>1, <1>4, <2>1 DEF InsertNew, HtReturns
  <2>3. ~strayed /\ (TooFull(table) => ~Strays(table, size))
    BY <2>2
  <2>4. size \in Nat \ {0}
    <3>1. table.n_buckets \in Nat /\ GrowthFactor \in Nat
      BY SoundIs, HashAssumption
    <3> QED
      BY <2>1, <3>1, ResizedIs
  <2>5. Sound(t, K)
    BY <2>1, <2>3, <2>4, SoundRehash
  <2>6. Sound(table', K \cup {k})
    BY <2>2, <2>5, SoundPut
  <2> QED
    BY <2>2, <2>3, <2>6 DEF SetStep
<1> QED
  BY <1>2, <1>3, <1>4 DEF hash_insert

\* hash_remove keeps the table sound, with or without a rehash, and takes the key out when it says so.
LEMMA RemoveSound ==
  ASSUME NEW K, Sound(table, K), NEW k \in Keys, hash_remove(k), ~strayed'
  PROVE  ~strayed /\ \E M : Sound(table', M) /\ SetStep(K, M)
<1>1. Has(table, k) <=> k \in K
  BY SoundIs
<1>2. CASE RemoveAbsent(k)
  BY <1>1, <1>2 DEF RemoveAbsent, HtReturns, SetStep
<1>3. CASE RemovePresent(k)
  <2>1. PICK d, t, size : /\ d = [Deleted(table, k) EXCEPT !.n_entries = @ - 1]
                          /\ t = IF d.bucket[safe_hasher(d, k)].data = NULL THEN [d EXCEPT !.n_buckets_used = @ - 1] ELSE d
                          /\ size = Resized(t.n_buckets, ShrinkFactor)
    OBVIOUS
  <2>2. /\ k \in K /\ ht_ret' = "removed" /\ freed' = freed
        /\ \/ table' = t /\ strayed' = strayed
           \/ table' = Rehashed(t, size) /\ strayed' = (strayed \/ Strays(t, size))
    BY <1>1, <1>3, <2>1 DEF RemovePresent, HtReturns
  <2>3. Sound(t, K \ {k})
    BY <2>1, <2>2, SoundRemove
  <2>4. size \in Nat \ {0}
    <3>1. t.n_buckets \in Nat /\ ShrinkFactor \in Nat
      BY <2>3, SoundIs, HashAssumption
    <3> QED
      BY <2>1, <3>1, ResizedIs
  <2>5. CASE table' = t /\ strayed' = strayed
    BY <2>2, <2>3, <2>5 DEF SetStep
  <2>6. CASE table' = Rehashed(t, size) /\ strayed' = (strayed \/ Strays(t, size))
    <3>1. ~strayed /\ ~Strays(t, size)
      BY <2>6
    <3>2. Sound(table', K \ {k})
      BY <2>3, <2>4, <2>6, <3>1, SoundRehash
    <3> QED
      BY <2>2, <3>1, <3>2 DEF SetStep
  <2> QED
    BY <2>2, <2>5, <2>6
<1> QED
  BY <1>2, <1>3 DEF hash_remove

\* Every call that does not stray keeps the table sound, and does to the set of its members what it returns.
LEMMA NextSound ==
  ASSUME NEW K, Sound(table, K), HtNext, ~strayed'
  PROVE  ~strayed /\ Usable /\ \E M : Sound(table', M) /\ SetStep(K, M)
<1>1. Usable
  BY DEF HtNext, hash_free, hash_insert, hash_remove, hash_lookup
<1>2. CASE hash_free
  <2>1. Lists(AllEntries(table), K) /\ K \subseteq Keys
    BY SoundIs, AllEntriesAre
  <2>2. freed' = AllEntries(table) /\ ht_ret' = "freed" /\ table' = table /\ strayed' = strayed
    BY <1>2 DEF hash_free, HandedToFreer
  <2>3. ToSet(freed') = K /\ freed' \in Seq(K)
    BY <2>1, <2>2, ListsIs DEF Lists
  <2>4. freed' \in Seq(Keys)
    BY <2>1, <2>3, SeqMonotonic
  <2> QED
    BY <1>1, <2>2, <2>3, <2>4 DEF SetStep
<1>3. CASE \E k \in Keys : hash_insert(k)
  BY <1>1, <1>3, InsertSound
<1>4. CASE \E k \in Keys : hash_remove(k)
  BY <1>1, <1>4, RemoveSound
<1>5. CASE \E k \in Keys : hash_lookup(k)
  <2>1. PICK k \in Keys : hash_lookup(k)
    BY <1>5
  <2>2. Has(table, k) <=> k \in K
    BY SoundIs
  <2> QED
    BY <1>1, <2>1, <2>2 DEF hash_lookup, HtReturns, SetStep
<1> QED
  BY <1>2, <1>3, <1>4, <1>5 DEF HtNext

\* The table is sound for some set of members, until it strays.
HtInv == strayed \in BOOLEAN /\ (~strayed => freed \in Seq(Keys) /\ \E K : Sound(table, K))

\* The inductive invariant holds at the start.
LEMMA HtInitInv == HtInit => HtInv
<1> SUFFICES ASSUME HtInit PROVE HtInv
  OBVIOUS
<1>1. Sound(table, {})
  BY InitSound
<1>2. freed = <<>> /\ strayed = FALSE
  BY DEF HtInit
<1>3. freed \in Seq(Keys)
  <2>1. <<>> \in Seq(Keys)
    OBVIOUS
  <2> QED
    BY <1>2, <2>1
<1>4. strayed \in BOOLEAN
  BY <1>2
<1> QED
  BY <1>1, <1>3, <1>4 DEF HtInv

\* A table that has strayed stays so.
LEMMA StrayedStep ==
  ASSUME HtNext
  PROVE  (strayed => strayed') /\ (strayed \in BOOLEAN => strayed' \in BOOLEAN)
<1>1. CASE \E k \in Keys : InsertNew(k)
  BY <1>1 DEF InsertNew
<1>2. CASE \E k \in Keys : RemovePresent(k)
  <2>1. PICK k \in Keys : RemovePresent(k)
    BY <1>2
  <2>2. strayed' = strayed \/ \E t, size : strayed' = (strayed \/ Strays(t, size))
    BY <2>1 DEF RemovePresent
  <2>3. CASE strayed' = strayed
    BY <2>3
  <2>4. CASE \E t, size : strayed' = (strayed \/ Strays(t, size))
    <3>1. PICK t, size : strayed' = (strayed \/ Strays(t, size))
      BY <2>4
    <3>2. strayed => strayed'
      BY <3>1
    <3>3. strayed' \in BOOLEAN
      BY <3>1
    <3> QED
      BY <3>2, <3>3
  <2> QED
    BY <2>2, <2>3, <2>4
<1>3. CASE strayed' = strayed
  BY <1>3
<1>4. (\E k \in Keys : InsertNew(k)) \/ (\E k \in Keys : RemovePresent(k)) \/ strayed' = strayed
  BY DEF HtNext, hash_free, hash_insert, hash_remove, hash_lookup, InsertPresent, InsertFails, RemoveAbsent
<1> QED
  BY <1>1, <1>2, <1>3, <1>4

\* Every call keeps it.
LEMMA HtStepInv == HtInv /\ [HtNext]_htvars => HtInv'
<1> SUFFICES ASSUME HtInv, [HtNext]_htvars PROVE HtInv'
  OBVIOUS
<1>1. CASE UNCHANGED htvars
  BY <1>1 DEF HtInv, htvars
<1>2. CASE HtNext
  <2>1. strayed' \in BOOLEAN
    BY <1>2, StrayedStep DEF HtInv
  <2>2. ASSUME ~strayed' PROVE freed' \in Seq(Keys) /\ \E M : Sound(table', M)
    <3>1. strayed => strayed'
      BY <1>2, StrayedStep
    <3>2. PICK K : Sound(table, K) /\ freed \in Seq(Keys)
      BY <2>2, <3>1 DEF HtInv
    <3>3. PICK M : Sound(table', M) /\ SetStep(K, M)
      BY <1>2, <2>2, <3>2, NextSound
    <3> QED
      BY <3>2, <3>3 DEF SetStep
  <2> QED
    BY <2>1, <2>2 DEF HtInv
<1> QED
  BY <1>1, <1>2

\* A sound table is what the runs check it to be.
LEMMA SoundCells ==
  ASSUME NEW K, Sound(table, K), freed \in Seq(Keys), strayed \in BOOLEAN
  PROVE  CellsSound
<1>1. PICK t, L, n : t = table /\ L = 1 .. t.entry_stack - 1 /\ n = t.n_buckets
  OBVIOUS
<1>2. /\ Holds(t, L, {}, K) /\ t.entry_stack \in 1 .. ChunkCells + 1
      /\ Table(t) /\ n \in Nat \ {0} /\ K \subseteq Keys /\ IsFiniteSet(K) /\ Cardinality(K) \in Nat
      /\ Tally(t) /\ t.n_entries = Cardinality(K)
  BY <1>1, SoundIs DEF Sound
<1>3. HtTypeOK
  <2>1. Cardinality(Used(t)) \in 0 .. n
    BY <1>1, <1>2, UsedIs
  <2>2. Cardinality(K) \in 0 .. Cardinality(Keys)
    <3>1. Cardinality(K) <= Cardinality(Keys) /\ Cardinality(Keys) \in Nat
      BY <1>2, HashAssumption, FS_Subset, FS_CardinalityType, ZenonT(60)
    <3> QED
      BY <1>2, <3>1
  <2> QED
    BY <1>1, <1>2, <2>1, <2>2 DEF HtTypeOK, Table, Tally, Buckets, Pointers
<1>4. Lists(CellsInUse, L)
  <2>1. Lists(CellsInUseOf(t), L)
    BY <1>2, CellsInUseAre
  <2> QED
    BY <1>1, <2>1 DEF CellsInUse, CellsInUseOf
<1>5. Lists(HtContents, K)
  <2>1. Lists(AllEntries(t), K)
    BY <1>2, AllEntriesAre
  <2> QED
    BY <1>1, <2>1 DEF HtContents
<1>6. ASSUME NEW b \in Buckets
      PROVE  /\ table.bucket[b].data = NULL => table.bucket[b].next = NULL
             /\ \A k \in ToSet(Entries(table, b)) : safe_hasher(table, k) = b
  <2>1. b \in 0 .. t.n_buckets - 1
    BY <1>1 DEF Buckets
  <2>2. PICK s, e : s = Overflow(t, b) /\ e = Entries(t, b)
    OBVIOUS
  <2>3. /\ Len(s) = 0 <=> t.bucket[b].next = NULL
        /\ t.bucket[b].data = NULL => Len(s) = 0
    BY <1>2, <2>1, <2>2, OverflowIs
  <2>4. /\ e \in Seq(K)
        /\ \A k \in K : Fits(k, t.n_buckets, b) <=> \E i \in 1 .. Len(e) : e[i] = k
    BY <1>2, <2>1, <2>2, EntriesAre
  <2>5. ASSUME NEW k \in ToSet(e) PROVE safe_hasher(t, k) = b
    <3>1. PICK i \in 1 .. Len(e) : e[i] = k
      BY <2>4 DEF ToSet
    <3>2. k \in K
      BY <2>4, <3>1
    <3>3. Fits(k, t.n_buckets, b)
      BY <2>4, <3>1, <3>2
    <3> QED
      BY <3>3 DEF Fits, safe_hasher
  <2> QED
    BY <1>1, <2>2, <2>3, <2>5
<1>7. WellFormed
  <2>1. IsInjective(CellsInUse) /\ IsInjective(HtContents) /\ Len(HtContents) = Cardinality(K)
    BY <1>4, <1>5, ListsIs
  <2>2. table.n_entries = Len(HtContents)
    BY <1>1, <1>2, <2>1
  <2>3. table.n_buckets_used = Cardinality({b \in Buckets : table.bucket[b].data # NULL})
    BY <1>1, <1>2 DEF Tally, Used, Buckets
  <2> QED
    BY <1>6, <2>1, <2>2, <2>3 DEF WellFormed
<1>8. NoCellLost
  BY <1>1, <1>4, ListsIs DEF NoCellLost
<1> QED
  BY <1>3, <1>7, <1>8 DEF CellsSound

\* Until a rehash strays, the table's cells are typed, linked once, counted right and none is lost.
THEOREM CellsAreSound == HtSpec => [](~strayed => CellsSound)
<1>1. HtInv => (~strayed => CellsSound)
  BY SoundCells DEF HtInv
<1> QED
  BY <1>1, HtInitInv, HtStepInv, PTL DEF HtSpec

\* hash_initialize gives the empty set.
LEMMA SetCallInit == HtInit => AsSet!KeySetInit
<1> SUFFICES ASSUME HtInit PROVE AsSet!KeySetInit
  OBVIOUS
<1>1. Members = {}
  BY InitSound, FoundAre DEF Members, HtInit
<1>2. ToSet(freed) = {}
  BY DEF HtInit, ToSet
<1> QED
  BY <1>1, <1>2 DEF AsSet!KeySetInit, HtInit

\* Every call is a call of KeySet, or changes nothing it speaks of.
LEMMA SetCallStep == HtInv /\ NotStrayed' /\ [HtNext]_htvars => [AsSet!KeySetNext]_(AsSet!setvars)
<1> SUFFICES ASSUME HtInv, ~strayed', [HtNext]_htvars PROVE [AsSet!KeySetNext]_(AsSet!setvars)
  BY DEF NotStrayed
<1>1. CASE UNCHANGED htvars
  BY <1>1 DEF htvars, Members, AsSet!setvars
<1>2. CASE HtNext
  <2>1. strayed => strayed'
    BY <1>2, StrayedStep
  <2>2. PICK K : Sound(table, K)
    BY <2>1 DEF HtInv
  <2>3. PICK M : Sound(table', M) /\ SetStep(K, M) /\ Usable
    BY <1>2, <2>2, NextSound
  <2>4. Members = K
    BY <2>2, <2>3, FoundAre DEF Members, Usable
  <2>5. Members' = IF ht_ret' = "freed" THEN {} ELSE M
    <3>1. {k \in Keys : Has(table', k)} = M
      BY <2>3, FoundAre
    <3> QED
      BY <3>1 DEF Members
  <2>6. CASE \E k \in Keys :
               /\ freed' = freed
               /\ \/ k \in K /\ M = K /\ ht_ret' \in {"present", "found"}
                  \/ k \notin K /\ M = K /\ ht_ret' \in {"failed", "absent", "missing"}
                  \/ k \notin K /\ M = K \cup {k} /\ ht_ret' = "inserted"
                  \/ k \in K /\ M = K \ {k} /\ ht_ret' = "removed"
    <3>1. PICK k \in Keys :
               /\ freed' = freed
               /\ \/ k \in K /\ M = K /\ ht_ret' \in {"present", "found"}
                  \/ k \notin K /\ M = K /\ ht_ret' \in {"failed", "absent", "missing"}
                  \/ k \notin K /\ M = K \cup {k} /\ ht_ret' = "inserted"
                  \/ k \in K /\ M = K \ {k} /\ ht_ret' = "removed"
      BY <2>6
    <3>2. Members' = M
      BY <2>5, <3>1
    <3>3. AsSet!Insert(k) \/ AsSet!Remove(k) \/ AsSet!Lookup(k)
      <4>1. CASE ht_ret' \in {"present", "failed", "inserted"}
        BY <2>4, <3>1, <3>2, <4>1 DEF AsSet!Insert
      <4>2. CASE ht_ret' \in {"absent", "removed"}
        BY <2>4, <3>1, <3>2, <4>2 DEF AsSet!Remove
      <4>3. CASE ht_ret' \in {"found", "missing"}
        BY <2>4, <3>1, <3>2, <4>3 DEF AsSet!Lookup
      <4> QED
        BY <3>1, <4>1, <4>2, <4>3
    <3> QED
      BY <3>3 DEF AsSet!KeySetNext
  <2>7. CASE freed' \in Seq(Keys) /\ ToSet(freed') = K /\ M = K /\ ht_ret' = "freed"
    <3>1. AsSet!Free
      BY <2>4, <2>5, <2>7 DEF AsSet!Free
    <3> QED
      BY <3>1 DEF AsSet!KeySetNext
  <2> QED
    BY <2>3, <2>6, <2>7 DEF SetStep
<1> QED
  BY <1>1, <1>2

\* As long as no rehash strays, the table behaves as the set KeySet describes.
THEOREM TableIsASet == HtSpec /\ []NotStrayed => ImplementsSet
<1>1. HtInv /\ NotStrayed' /\ [HtNext]_htvars => [AsSet!KeySetNext]_(AsSet!setvars)
  BY SetCallStep
<1> QED
  BY <1>1, SetCallInit, HtInitInv, HtStepInv, PTL DEF HtSpec, ImplementsSet, AsSet!KeySetSpec
=============================================================================
