---------------------------- MODULE Getopt_proofs ----------------------------
(***************************************************************************)
(* Getopt: for every vector of arguments, every option string and set of   *)
(* long options and every number of scans, a scan leaves the arguments     *)
(* permuted, none lost, each kind in order, with nothing that looks like   *)
(* an option behind optind; and a scan that starts again returns what the  *)
(* first one did.                                                          *)
(***************************************************************************)
EXTENDS Getopt, SequenceTheorems, WellFoundedInduction, TLAPS

------------------------------------------------------------------------------
(***************************************************************************)
(* exchange: passes of swaps that rotate two adjacent segments.            *)
(***************************************************************************)
\* Induction, for sets: what holds of 0 and of n + 1 with n holds of every number.
LEMMA UpFromZero ==
  ASSUME NEW S, 0 \in S, \A n \in Nat : n \in S => n + 1 \in S
  PROVE  Nat \subseteq S
<1> DEFINE T == {n \in Nat : n \notin S}
<1> SUFFICES ASSUME T # {} PROVE FALSE
  OBVIOUS
<1> DEFINE R == OpToRel(<, Nat)
<1>1. IsWellFoundedOn(R, Nat)
  BY NatLessThanWellFounded, Zenon
<1> HIDE DEF R
<1>2. PICK n \in T : \A m \in T : ~(<<m, n>> \in R)
  <2>1. T \subseteq Nat
    OBVIOUS
  <2> HIDE DEF T
  <2> QED
    BY <1>1, <2>1, WFMin
<1>3. \A m \in T : ~(m < n)
  BY <1>2, Zenon DEF R, OpToRel
<1>4. n # 0 /\ n - 1 \in Nat /\ n - 1 < n /\ (n - 1) + 1 = n
  OBVIOUS
<1>5. n - 1 \in S
  BY <1>3, <1>4
<1> QED
  BY <1>4, <1>5

Rotated(a, b, m, t) ==
  [i \in DOMAIN a |-> IF i \in b .. b + (t - m) - 1 THEN a[i + (m - b)]
                      ELSE IF i \in b + (t - m) .. t - 1 THEN a[i - (t - m)] ELSE a[i]]

\* The arguments' numbers by their places.
Array(a, n) == a = [i \in 1 .. n |-> a[i]]
Segments(n, b, m, t) == 1 <= b /\ b <= m /\ m <= t /\ t <= n + 1
Between(s, n, m) ==
  /\ s = [argv |-> s.argv, bottom |-> s.bottom, top |-> s.top] /\ Array(s.argv, n)
  /\ s.bottom \in Nat /\ s.top \in Nat /\ Segments(n, s.bottom, m, s.top)

\* A pass that moves the shorter, lower segment to the far end leaves the rest to rotate.
LEMMA LowRotates ==
  ASSUME NEW n \in Nat, NEW a, Array(a, n), NEW b \in Nat, NEW m \in Nat, NEW t \in Nat, Segments(n, b, m, t),
         b < m, t - m > m - b
  PROVE  /\ Array(Swap(a, b, t - (m - b), m - b), n)
         /\ Segments(n, b, m, t - (m - b))
         /\ Rotated(Swap(a, b, t - (m - b), m - b), b, m, t - (m - b)) = Rotated(a, b, m, t)
<1> DEFINE c == Swap(a, b, t - (m - b), m - b)
           u == t - (m - b)
<1>0. DOMAIN a = 1 .. n
  BY DEF Array
<1>1. DOMAIN c = 1 .. n /\ Array(c, n)
  BY <1>0 DEF Swap, Array
<1>2. \A i \in 1 .. n : c[i] = IF i \in b .. b + (m - b) - 1 THEN a[i - b + u]
                               ELSE IF i \in u .. u + (m - b) - 1 THEN a[i - u + b] ELSE a[i]
  BY <1>0 DEF Swap
<1>3. u \in Nat /\ m < u /\ u < t
  BY DEF Segments
<1>4. Segments(n, b, m, u)
  BY <1>3 DEF Segments
<1>5. ASSUME NEW i \in 1 .. n PROVE Rotated(c, b, m, u)[i] = Rotated(a, b, m, t)[i]
  <2>1. Rotated(a, b, m, t)[i] = IF i \in b .. b + (t - m) - 1 THEN a[i + (m - b)]
                                 ELSE IF i \in b + (t - m) .. t - 1 THEN a[i - (t - m)] ELSE a[i]
    BY <1>0 DEF Rotated
  <2>2. Rotated(c, b, m, u)[i] = IF i \in b .. b + (u - m) - 1 THEN c[i + (m - b)]
                                 ELSE IF i \in b + (u - m) .. u - 1 THEN c[i - (u - m)] ELSE c[i]
    BY <1>1 DEF Rotated
  <2> HIDE DEF c
  <2>3. CASE i < b \/ i >= t
    <3>1. /\ i \notin b .. b + (t - m) - 1 /\ i \notin b + (t - m) .. t - 1
          /\ i \notin b .. b + (u - m) - 1 /\ i \notin b + (u - m) .. u - 1
          /\ i \notin b .. b + (m - b) - 1 /\ i \notin u .. u + (m - b) - 1
      BY <1>3, <2>3 DEF Segments
    <3>2. c[i] = a[i]
      BY <1>2, <3>1
    <3> QED
      BY <2>1, <2>2, <3>1, <3>2
  <2>4. CASE b <= i /\ i < b + (u - m)
    <3>1. i + (m - b) \in 1 .. n /\ i + (m - b) >= m /\ i + (m - b) < u
      BY <1>3, <2>4 DEF Segments
    <3>2. c[i + (m - b)] = a[i + (m - b)]
      BY <1>2, <3>1
    <3> QED
      BY <2>1, <2>2, <2>4, <3>2 DEF Segments
  <2>5. CASE b + (u - m) <= i /\ i < u
    <3>1. i - (u - m) \in 1 .. n /\ i - (u - m) >= b /\ i - (u - m) < m /\ i - (u - m) - b + u = i + (m - b)
      BY <1>3, <2>5 DEF Segments
    <3>2. c[i - (u - m)] = a[i + (m - b)]
      BY <1>2, <3>1
    <3> QED
      BY <2>1, <2>2, <2>5, <3>2 DEF Segments
  <2>6. CASE u <= i /\ i < t
    <3>1. i \notin b .. b + (m - b) - 1 /\ i \in u .. u + (m - b) - 1 /\ i - u + b = i - (t - m)
      BY <1>3, <2>6 DEF Segments
    <3>2. c[i] = a[i - (t - m)]
      BY <1>2, <3>1
    <3>3. /\ i \notin b .. b + (t - m) - 1 /\ i \in b + (t - m) .. t - 1
          /\ i \notin b .. b + (u - m) - 1 /\ i \notin b + (u - m) .. u - 1
      BY <1>3, <2>6 DEF Segments
    <3> QED
      BY <2>1, <2>2, <3>2, <3>3
  <2> QED
    BY <1>3, <2>3, <2>4, <2>5, <2>6 DEF Segments
<1>6. Rotated(c, b, m, u) = Rotated(a, b, m, t)
  BY <1>0, <1>1, <1>5 DEF Rotated
<1> QED
  BY <1>1, <1>4, <1>6

\* So does one that moves the shorter, upper segment down.
LEMMA HighRotates ==
  ASSUME NEW n \in Nat, NEW a, Array(a, n), NEW b \in Nat, NEW m \in Nat, NEW t \in Nat, Segments(n, b, m, t),
         m < t, t - m <= m - b
  PROVE  /\ Array(Swap(a, b, m, t - m), n)
         /\ Segments(n, b + (t - m), m, t)
         /\ Rotated(Swap(a, b, m, t - m), b + (t - m), m, t) = Rotated(a, b, m, t)
<1> DEFINE c == Swap(a, b, m, t - m)
           v == b + (t - m)
<1>0. DOMAIN a = 1 .. n
  BY DEF Array
<1>1. DOMAIN c = 1 .. n /\ Array(c, n)
  BY <1>0 DEF Swap, Array
<1>2. \A i \in 1 .. n : c[i] = IF i \in b .. b + (t - m) - 1 THEN a[i - b + m]
                               ELSE IF i \in m .. m + (t - m) - 1 THEN a[i - m + b] ELSE a[i]
  BY <1>0 DEF Swap
<1>3. v \in Nat /\ b < v /\ v <= m
  BY DEF Segments
<1>4. Segments(n, v, m, t)
  BY <1>3 DEF Segments
<1>5. ASSUME NEW i \in 1 .. n PROVE Rotated(c, v, m, t)[i] = Rotated(a, b, m, t)[i]
  <2>1. Rotated(a, b, m, t)[i] = IF i \in b .. b + (t - m) - 1 THEN a[i + (m - b)]
                                 ELSE IF i \in b + (t - m) .. t - 1 THEN a[i - (t - m)] ELSE a[i]
    BY <1>0 DEF Rotated
  <2>2. Rotated(c, v, m, t)[i] = IF i \in v .. v + (t - m) - 1 THEN c[i + (m - v)]
                                 ELSE IF i \in v + (t - m) .. t - 1 THEN c[i - (t - m)] ELSE c[i]
    BY <1>1 DEF Rotated
  <2> HIDE DEF c
  <2>3. CASE i < b \/ i >= t
    <3>1. /\ i \notin b .. b + (t - m) - 1 /\ i \notin b + (t - m) .. t - 1
          /\ i \notin v .. v + (t - m) - 1 /\ i \notin v + (t - m) .. t - 1
          /\ i \notin m .. m + (t - m) - 1
      BY <1>3, <2>3 DEF Segments
    <3>2. c[i] = a[i]
      BY <1>2, <3>1
    <3> QED
      BY <2>1, <2>2, <3>1, <3>2
  <2>4. CASE b <= i /\ i < v
    <3>1. c[i] = a[i + (m - b)]
      <4>1. i - b + m = i + (m - b) /\ i \in b .. b + (t - m) - 1
        BY <1>3, <2>4
      <4> QED
        BY <1>2, <4>1
    <3>2. /\ i \in b .. b + (t - m) - 1 /\ i \notin v .. v + (t - m) - 1 /\ i \notin v + (t - m) .. t - 1
      BY <1>3, <2>4 DEF Segments
    <3> QED
      BY <2>1, <2>2, <3>1, <3>2
  <2>5. CASE v <= i /\ i < v + (t - m)
    <3>1. i + (m - v) \in 1 .. n /\ i + (m - v) >= m /\ i + (m - v) < t /\ i + (m - v) - m + b = i - (t - m)
      BY <1>3, <2>5 DEF Segments
    <3>2. i + (m - v) \notin b .. b + (t - m) - 1 /\ i + (m - v) \in m .. m + (t - m) - 1
      BY <1>3, <3>1
    <3>3. c[i + (m - v)] = a[i - (t - m)]
      BY <1>2, <3>1, <3>2
    <3>4. i \in v .. v + (t - m) - 1 /\ i \notin b .. b + (t - m) - 1 /\ i \in b + (t - m) .. t - 1
      BY <1>3, <2>5 DEF Segments
    <3> QED
      BY <2>1, <2>2, <3>3, <3>4
  <2>6. CASE v + (t - m) <= i /\ i < t
    <3>1. i - (t - m) \in 1 .. n /\ i - (t - m) >= v /\ i - (t - m) < m
      BY <1>3, <2>6 DEF Segments
    <3>2. i - (t - m) \notin b .. b + (t - m) - 1 /\ i - (t - m) \notin m .. m + (t - m) - 1
      BY <1>3, <3>1
    <3>3. c[i - (t - m)] = a[i - (t - m)]
      BY <1>2, <3>1, <3>2
    <3>4. /\ i \notin v .. v + (t - m) - 1 /\ i \in v + (t - m) .. t - 1
          /\ i \notin b .. b + (t - m) - 1 /\ i \in b + (t - m) .. t - 1
      BY <1>3, <2>6 DEF Segments
    <3> QED
      BY <2>1, <2>2, <3>3, <3>4
  <2> QED
    BY <1>3, <2>3, <2>4, <2>5, <2>6 DEF Segments
<1>6. Rotated(c, v, m, t) = Rotated(a, b, m, t)
  BY <1>0, <1>1, <1>5 DEF Rotated
<1> QED
  BY <1>1, <1>4, <1>6

\* A pass of exchange leaves what is left to rotate, and less of it.
LEMMA PassRotates ==
  ASSUME NEW n \in Nat, NEW m \in Nat, NEW s, Between(s, n, m)
  PROVE  LET p == Pass(s, m) IN
         /\ Between(p, n, m) /\ Rotated(p.argv, p.bottom, m, p.top) = Rotated(s.argv, s.bottom, m, s.top)
         /\ p.top - p.bottom <= s.top - s.bottom
         /\ s.bottom < m /\ m < s.top => p.top - p.bottom < s.top - s.bottom
<1> DEFINE a == s.argv
           b == s.bottom
           t == s.top
           p == Pass(s, m)
<1>0. /\ s = [argv |-> a, bottom |-> b, top |-> t] /\ Array(a, n)
      /\ b \in Nat /\ t \in Nat /\ Segments(n, b, m, t) /\ b <= m /\ m <= t
  BY DEF Between, Segments
<1> HIDE DEF a, b, t
<1>1. CASE t - m <= 0 \/ m - b <= 0
  <2>1. p = s
    BY <1>1 DEF Pass, a, b, t
  <2> QED
    BY <1>0, <1>1, <2>1 DEF a, b, t
<1>2. CASE m - b > 0 /\ t - m > m - b
  <2>1. p = [s EXCEPT !.argv = Swap(@, b, t - (m - b), m - b), !.top = @ - (m - b)]
    BY <1>0, <1>2 DEF Pass, a, b, t
  <2>2. p = [argv |-> Swap(a, b, t - (m - b), m - b), bottom |-> b, top |-> t - (m - b)]
    BY <1>0, <2>1
  <2>3. p.argv = Swap(a, b, t - (m - b), m - b) /\ p.bottom = b /\ p.top = t - (m - b)
    BY <2>2
  <2>4. t - (m - b) \in Nat /\ t - (m - b) < t
    BY <1>0, <1>2
  <2> HIDE DEF p
  <2>5. Rotated(p.argv, p.bottom, m, p.top) = Rotated(a, b, m, t) /\ Array(p.argv, n)
          /\ Segments(n, p.bottom, m, p.top)
    BY <1>0, <1>2, <2>3, LowRotates
  <2> QED
    BY <1>0, <2>2, <2>3, <2>4, <2>5 DEF Between, p, a, b, t
<1>3. CASE t - m > 0 /\ ~(t - m > m - b)
  <2>1. p = [s EXCEPT !.argv = Swap(@, b, m, t - m), !.bottom = @ + (t - m)]
    BY <1>0, <1>3 DEF Pass, a, b, t
  <2>2. p = [argv |-> Swap(a, b, m, t - m), bottom |-> b + (t - m), top |-> t]
    BY <1>0, <2>1
  <2>3. p.argv = Swap(a, b, m, t - m) /\ p.bottom = b + (t - m) /\ p.top = t
    BY <2>2
  <2>4. b + (t - m) \in Nat /\ b + (t - m) > b
    BY <1>0, <1>3
  <2> HIDE DEF p
  <2>5. Rotated(p.argv, p.bottom, m, p.top) = Rotated(a, b, m, t) /\ Array(p.argv, n)
          /\ Segments(n, p.bottom, m, p.top)
    <3>1. m < t /\ t - m <= m - b
      BY <1>0, <1>3
    <3> QED
      BY <1>0, <2>3, <3>1, HighRotates
  <2> QED
    BY <1>0, <2>2, <2>3, <2>4, <2>5 DEF Between, p, a, b, t
<1> QED
  BY <1>0, <1>1, <1>2, <1>3

Passes(f, k, start, m) == f = [j \in 0 .. k |-> IF j = 0 THEN start ELSE Pass(f[j - 1], m)]

\* The recursive function of Swaps is one: its passes can be made one after the other.
LEMMA PassesExist == ASSUME NEW start, NEW m, NEW n \in Nat PROVE \E f : Passes(f, n, start, m)
<1> DEFINE I == {k \in Nat : \E f : Passes(f, k, start, m)}
<1>1. 0 \in I
  <2> DEFINE f == [j \in 0 .. 0 |-> start]
  <2>1. f[0] = start /\ f = [j \in 0 .. 0 |-> IF j = 0 THEN start ELSE Pass(f[j - 1], m)]
    OBVIOUS
  <2> HIDE DEF f
  <2> QED
    BY <2>1 DEF Passes
<1>2. ASSUME NEW k \in Nat, k \in I PROVE k + 1 \in I
  <2>1. PICK f : Passes(f, k, start, m)
    BY <1>2
  <2> DEFINE g == [j \in 0 .. k + 1 |-> IF j = k + 1 THEN Pass(f[k], m) ELSE f[j]]
  <2>2. \A j \in 0 .. k : f[j] = IF j = 0 THEN start ELSE Pass(f[j - 1], m)
    BY <2>1 DEF Passes
  <2>3. \A j \in 0 .. k + 1 : g[j] = IF j = 0 THEN start ELSE Pass(g[j - 1], m)
    <3>1. \A j \in 0 .. k : g[j] = f[j]
      OBVIOUS
    <3>2. g[k + 1] = Pass(f[k], m)
      OBVIOUS
    <3> HIDE DEF g
    <3>3. ASSUME NEW j \in 0 .. k + 1 PROVE g[j] = IF j = 0 THEN start ELSE Pass(g[j - 1], m)
      <4>1. CASE j = k + 1
        <5>1. j # 0 /\ j - 1 = k /\ k \in 0 .. k
          BY <4>1
        <5> QED
          BY <3>1, <3>2, <4>1, <5>1
      <4>2. CASE j # k + 1
        <5>1. j \in 0 .. k /\ (j # 0 => j - 1 \in 0 .. k)
          BY <4>2
        <5> QED
          BY <2>2, <3>1, <5>1
      <4> QED
        BY <4>1, <4>2
    <3> QED
      BY <3>3
  <2>4. g = [j \in 0 .. k + 1 |-> IF j = 0 THEN start ELSE Pass(g[j - 1], m)]
    <3>1. g = [j \in 0 .. k + 1 |-> g[j]]
      OBVIOUS
    <3> HIDE DEF g
    <3> QED
      BY <2>3, <3>1
  <2> HIDE DEF g
  <2> QED
    BY <2>4 DEF Passes
<1> HIDE DEF I
<1>3. n \in I
  BY <1>1, <1>2, UpFromZero
<1> QED
  BY <1>3 DEF I

\* exchange (getopt-common.h:140-187) rotates the two segments, however long they are.
LEMMA SwapsRotate ==
  ASSUME NEW n \in Nat, NEW a, Array(a, n), NEW b \in Nat, NEW m \in Nat, NEW t \in Nat, Segments(n, b, m, t)
  PROVE  Swaps(a, b, m, t) = Rotated(a, b, m, t)
<1> DEFINE start == [argv |-> a, bottom |-> b, top |-> t]
           f == CHOOSE g : Passes(g, t - b, start, m)
           N == t - b
<1>1. N \in Nat /\ b <= t
  BY DEF Segments
<1>2. Passes(f, N, start, m)
  BY <1>1, PassesExist
<1>3. Swaps(a, b, m, t) = f[N].argv
  BY DEF Swaps, Passes
<1> HIDE DEF f, N
<1>4. Between(start, n, m) /\ start.argv = a /\ start.bottom = b /\ start.top = t
  BY DEF Between
<1> HIDE DEF start
<1>5. \A j \in 0 .. N : f[j] = IF j = 0 THEN start ELSE Pass(f[j - 1], m)
  BY <1>2 DEF Passes
<1> DEFINE Good(s, k) == /\ Between(s, n, m) /\ Rotated(s.argv, s.bottom, m, s.top) = Rotated(a, b, m, t)
                         /\ s.top - s.bottom <= N - k \/ s.top = m \/ s.bottom = m
           I == {k \in Nat : k <= N => Good(f[k], k)}
<1>6. 0 \in I
  BY <1>1, <1>4, <1>5 DEF N
<1>7. ASSUME NEW k \in Nat, k \in I PROVE k + 1 \in I
  <2> SUFFICES ASSUME k + 1 <= N PROVE Good(f[k + 1], k + 1)
    OBVIOUS
  <2> DEFINE s == f[k]
             p == Pass(s, m)
  <2>1. k <= N /\ k + 1 \in 0 .. N /\ k + 1 # 0 /\ (k + 1) - 1 = k
    BY <1>1
  <2>2. f[k + 1] = p
    BY <1>5, <2>1
  <2>3. Good(s, k)
    BY <1>7, <2>1
  <2> HIDE DEF s, I
  <2>4. /\ Between(p, n, m) /\ Rotated(p.argv, p.bottom, m, p.top) = Rotated(s.argv, s.bottom, m, s.top)
        /\ p.top - p.bottom <= s.top - s.bottom
        /\ s.bottom < m /\ m < s.top => p.top - p.bottom < s.top - s.bottom
    BY <2>3, PassRotates
  <2>5. CASE s.bottom < m /\ m < s.top
    <3>1. s.top - s.bottom <= N - k
      BY <2>3, <2>5 DEF Between
    <3>2. p.top - p.bottom <= N - (k + 1)
      BY <1>1, <2>3, <2>4, <2>5, <3>1 DEF Between
    <3> QED
      BY <2>2, <2>3, <2>4, <3>2
  <2>6. CASE ~(s.bottom < m /\ m < s.top)
    <3>1. s.bottom = m \/ s.top = m
      BY <2>3, <2>6 DEF Between, Segments
    <3>2. p = s
      BY <2>3, <3>1 DEF Pass, Between
    <3> QED
      BY <2>2, <2>3, <3>1, <3>2
  <2> QED
    BY <2>5, <2>6
<1>8. Good(f[N], N)
  <2> HIDE DEF I
  <2>1. N \in I /\ N <= N
    BY <1>1, <1>6, <1>7, UpFromZero
  <2> QED
    BY <2>1 DEF I
<1> DEFINE s == f[N]
<1>9. Rotated(s.argv, s.bottom, m, s.top) = s.argv
  <2>0. /\ s = [argv |-> s.argv, bottom |-> s.bottom, top |-> s.top] /\ Array(s.argv, n)
        /\ s.bottom \in Nat /\ s.top \in Nat /\ Segments(n, s.bottom, m, s.top)
    BY <1>8 DEF Between
  <2>1. s.bottom = m \/ s.top = m
    BY <1>1, <1>8, <2>0 DEF Segments
  <2> DEFINE c == s.argv
             v == s.bottom
             u == s.top
  <2> HIDE DEF c, v, u
  <2>2. ASSUME NEW i \in 1 .. n PROVE Rotated(c, v, m, u)[i] = c[i]
    <3>1. Rotated(c, v, m, u)[i] = IF i \in v .. v + (u - m) - 1 THEN c[i + (m - v)]
                                   ELSE IF i \in v + (u - m) .. u - 1 THEN c[i - (u - m)] ELSE c[i]
      BY <2>0 DEF Rotated, c, v, u, Array
    <3>2. v \in Nat /\ u \in Nat /\ (v = m \/ u = m)
      BY <2>0, <2>1 DEF v, u
    <3>3. CASE v = m
      <4>1. i + (m - v) = i
        BY <3>2, <3>3
      <4>2. v + (u - m) = u
        BY <3>2, <3>3
      <4> QED
        BY <3>1, <3>2, <4>1, <4>2
    <3>4. CASE u = m
      <4>1. i - (u - m) = i /\ v + (u - m) - 1 < v
        BY <3>2, <3>4
      <4> QED
        BY <3>1, <3>2, <4>1
    <3> QED
      BY <3>2, <3>3, <3>4
  <2>3. DOMAIN Rotated(c, v, m, u) = 1 .. n /\ c = [i \in 1 .. n |-> c[i]]
    BY <2>0 DEF Rotated, c, Array
  <2> QED
    BY <2>2, <2>3 DEF Rotated, c, v, u
<1> QED
  BY <1>3, <1>8, <1>9

------------------------------------------------------------------------------
(***************************************************************************)
(* Where a call leaves optind and the letters of the current word.  A call *)
(* that does not end the scan moves these two and nothing else (Took);     *)
(* what it does depends on the arguments that it takes (Alike), not on     *)
(* what stands elsewhere.                                                  *)
(***************************************************************************)
IsData(d) ==
  /\ d = [words |-> d.words, spec |-> d.spec, argv |-> d.argv, optind |-> d.optind, nextchar |-> d.nextchar,
          first |-> d.first, last |-> d.last, ordering |-> d.ordering, initialized |-> d.initialized]
  /\ d.words \in Seq(Seq(STRING)) /\ Len(d.words) \in Nat /\ d.spec \in GoSpecs /\ Array(d.argv, Len(d.words))
  /\ \A i \in 1 .. Len(d.words) : d.argv[i] \in 1 .. Len(d.words)
  /\ d.optind \in Nat /\ d.first \in Nat /\ d.last \in Nat

\* d after its option has been read up to argument o and letters x.
Moved(d, o, x) ==
  [words |-> d.words, spec |-> d.spec, argv |-> d.argv, optind |-> o, nextchar |-> x,
   first |-> d.first, last |-> d.last, ordering |-> d.ordering, initialized |-> d.initialized]

\* The call that leaves r took k arguments and leaves letters y.
Took(r, d, k, y) == r = Returns(Moved(d, d.optind + k, y), r.code, r.arg)

\* What a call sees of d and e in k arguments is the same.
Alike(d, e, k) ==
  /\ IsData(d) /\ IsData(e) /\ e.words = d.words /\ e.spec = d.spec /\ e.ordering = d.ordering
  /\ \A i \in 0 .. k - 1 : /\ d.optind + i <= Len(d.words) /\ e.optind + i <= Len(d.words)
                           /\ e.argv[e.optind + i] = d.argv[d.optind + i]

Trouble == {"?", ":"}

\* What a move leaves alone.
LEMMA MovedFields ==
  ASSUME NEW d, NEW o, NEW x
  PROVE  /\ Moved(d, o, x).words = d.words /\ Moved(d, o, x).spec = d.spec /\ Moved(d, o, x).argv = d.argv
         /\ Moved(d, o, x).optind = o /\ Moved(d, o, x).nextchar = x /\ Moved(d, o, x).first = d.first
         /\ Moved(d, o, x).last = d.last /\ Moved(d, o, x).ordering = d.ordering
         /\ Moved(d, o, x).initialized = d.initialized
  BY DEF Moved

\* What Returns puts together.
LEMMA ReturnsFields ==
  ASSUME NEW d, NEW code, NEW arg
  PROVE  Returns(d, code, arg).data = d /\ Returns(d, code, arg).code = code /\ Returns(d, code, arg).arg = arg
  BY DEF Returns

\* A moved record is such a record.
LEMMA MovedTyped ==
  ASSUME NEW d, IsData(d), NEW o \in Nat, NEW x
  PROVE  IsData(Moved(d, o, x))
  BY MovedFields DEF IsData, Moved

\* The second of two moves counts.
LEMMA MovedTwice ==
  ASSUME NEW d, NEW o, NEW x, NEW p, NEW y
  PROVE  Moved(Moved(d, o, x), p, y) = Moved(d, p, y)
  BY DEF Moved

\* The assignments of the code are such moves.
LEMMA MovedBoth ==
  ASSUME NEW d, IsData(d), NEW x, NEW o
  PROVE  [d EXCEPT !.nextchar = x, !.optind = o] = Moved(d, o, x)
<1>1. [d EXCEPT !.nextchar = x, !.optind = o] = [[d EXCEPT !.nextchar = x] EXCEPT !.optind = o]
  OBVIOUS
<1>2. [d EXCEPT !.nextchar = x] = Moved(d, d.optind, x)
  BY DEF IsData, Moved
<1>3. [Moved(d, d.optind, x) EXCEPT !.optind = o] = Moved(d, o, x)
  BY DEF Moved
<1> QED
  BY <1>1, <1>2, <1>3

\* The assignments that end a word or an option's argument are such moves.
LEMMA MovedByExcept ==
  ASSUME NEW d, IsData(d)
  PROVE  /\ [d EXCEPT !.nextchar = Null, !.optind = @ + 1] = Moved(d, d.optind + 1, Null)
         /\ [d EXCEPT !.optind = @ + 1, !.nextchar = Null] = Moved(d, d.optind + 1, Null)
         /\ [d EXCEPT !.nextchar = Null] = Moved(d, d.optind, Null)
<1>1. [d EXCEPT !.nextchar = Null, !.optind = @ + 1] = [d EXCEPT !.nextchar = Null, !.optind = d.optind + 1]
  BY DEF IsData
<1>2. [d EXCEPT !.optind = @ + 1, !.nextchar = Null] = [d EXCEPT !.nextchar = Null, !.optind = d.optind + 1]
  BY DEF IsData
<1>3. [d EXCEPT !.nextchar = Null] = Moved(d, d.optind, Null)
  BY DEF IsData, Moved
<1> QED
  BY <1>1, <1>2, <1>3, MovedBoth

\* An assignment to optind alone is one.
LEMMA OptindMoved ==
  ASSUME NEW d, IsData(d), NEW o
  PROVE  [d EXCEPT !.optind = o] = Moved(d, o, d.nextchar)
  BY DEF IsData, Moved

\* The cases of process_long_option.
LongFound(spec, text) == Candidates([spec |-> spec], NameOf(text))
LongOf(spec, text) == spec.long[Min(LongFound(spec, text))]
LongAmbiguous(spec, text, long_only) ==
  LongFound(spec, text) # {} /\ Ambiguous([spec |-> spec], LongFound(spec, text), long_only)
LongValue(text) == SubSeq(text, Len(NameOf(text)) + 2, Len(text))
LongCode(spec, text) == IF LongOf(spec, text).flag THEN "0" ELSE LongOf(spec, text).val
IsShort(d, text, long_only) ==
  /\ LongFound(d.spec, text) = {} /\ long_only
  /\ Word(d, d.optind)[2] # "-" /\ text[1] \in DOMAIN d.spec.short

\* process_long_option, case by case (getopt-common.h:221-446).
LEMMA LongCases ==
  ASSUME NEW d, IsData(d), NEW text, NEW long_only
  PROVE  LET r == process_long_option(d, text, long_only)
             e == Moved(d, d.optind + 1, Null)
             option == LongOf(d.spec, text) IN
         /\ LongAmbiguous(d.spec, text, long_only) => r = Refused(d)
         /\ IsShort(d, text, long_only) => r = Returns(d, "short", Null)
         /\ LongFound(d.spec, text) = {} /\ ~IsShort(d, text, long_only) => r = Refused(d)
         /\ LongFound(d.spec, text) # {} /\ ~LongAmbiguous(d.spec, text, long_only) =>
              r = IF NameOf(text) # text
                  THEN IF option.has_arg = "no" THEN Returns(e, "?", Null)
                       ELSE Returns(e, LongCode(d.spec, text), LongValue(text))
                  ELSE IF option.has_arg # "required" THEN Returns(e, LongCode(d.spec, text), Null)
                  ELSE IF e.optind = argc(d) THEN Returns(e, Missing(d), Null)
                  ELSE Returns(Moved(d, d.optind + 2, Null), LongCode(d.spec, text), Word(d, d.optind + 1))
<1>1. Candidates(d, NameOf(text)) = LongFound(d.spec, text)
  BY DEF LongFound, Candidates, Exact, Partial
<1>2. Ambiguous(d, LongFound(d.spec, text), long_only) =
            Ambiguous([spec |-> d.spec], LongFound(d.spec, text), long_only)
  BY DEF Ambiguous
<1>3. [d EXCEPT !.optind = @ + 1, !.nextchar = Null] = Moved(d, d.optind + 1, Null)
  BY MovedByExcept
<1> DEFINE e == Moved(d, d.optind + 1, Null)
<1>4. [e EXCEPT !.optind = @ + 1] = Moved(d, d.optind + 2, Null)
  <2>1. (d.optind + 1) + 1 = d.optind + 2
    BY DEF IsData
  <2> QED
    BY <2>1 DEF Moved
<1>5. Word(e, e.optind) = Word(d, d.optind + 1) /\ e.optind = d.optind + 1
  BY DEF Moved, Word
<1> DEFINE name == NameOf(text)
           found == LongFound(d.spec, text)
           option == d.spec.long[Min(found)]
           value == SubSeq(text, Len(name) + 2, Len(text))
           code == IF option.flag THEN "0" ELSE option.val
           amb == found # {} /\ Ambiguous(d, found, long_only)
           short == long_only /\ Word(d, d.optind)[2] # "-" /\ text[1] \in DOMAIN d.spec.short
           rest == IF name # text
                   THEN IF option.has_arg = "no" THEN Returns(e, "?", Null) ELSE Returns(e, code, value)
                   ELSE IF option.has_arg # "required" THEN Returns(e, code, Null)
                   ELSE IF e.optind = argc(d) THEN Returns(e, Missing(d), Null)
                   ELSE Returns([e EXCEPT !.optind = @ + 1], code, Word(e, e.optind))
           r == process_long_option(d, text, long_only)
<1>6. r = CASE amb -> Refused(d)
            [] found = {} /\ short -> Returns(d, "short", Null)
            [] found = {} /\ ~short -> Refused(d)
            [] OTHER -> rest
  <2> DEFINE found0 == Candidates(d, name)
             e0 == [d EXCEPT !.optind = @ + 1, !.nextchar = Null]
             option0 == d.spec.long[Min(found0)]
             code0 == IF option0.flag THEN "0" ELSE option0.val
  <2>1. r = CASE found0 # {} /\ Ambiguous(d, found0, long_only) -> Refused(d)
              [] found0 = {} /\ long_only /\ Word(d, d.optind)[2] # "-"
                   /\ text[1] \in DOMAIN d.spec.short -> Returns(d, "short", Null)
              [] found0 = {} /\ ~(long_only /\ Word(d, d.optind)[2] # "-"
                   /\ text[1] \in DOMAIN d.spec.short) -> Refused(d)
              [] OTHER ->
                   IF name # text
                   THEN IF option0.has_arg = "no" THEN Returns(e0, "?", Null) ELSE Returns(e0, code0, value)
                   ELSE IF option0.has_arg # "required" THEN Returns(e0, code0, Null)
                   ELSE IF e0.optind = argc(d) THEN Returns(e0, Missing(d), Null)
                   ELSE Returns([e0 EXCEPT !.optind = @ + 1], code0, Word(e0, e0.optind))
    BY Zenon DEF process_long_option
  <2>2. found0 = found /\ e0 = e
    BY <1>1, <1>3
  <2> HIDE DEF found0, e0, e, found, r
  <2> QED
    BY <2>1, <2>2, Zenon
<1>7. amb <=> LongAmbiguous(d.spec, text, long_only)
  BY <1>2 DEF LongAmbiguous
<1>8. found = {} /\ short <=> IsShort(d, text, long_only)
  BY DEF IsShort
<1>9. option = LongOf(d.spec, text) /\ value = LongValue(text) /\ code = LongCode(d.spec, text)
  BY DEF LongOf, LongValue, LongCode
<1>10. amb => found # {}
  OBVIOUS
<1> HIDE DEF r, amb, found, short, option, value, code
<1>11. (amb => r = Refused(d)) /\ (found = {} /\ short => r = Returns(d, "short", Null))
       /\ (found = {} /\ ~short => r = Refused(d)) /\ (found # {} /\ ~amb => r = rest)
  <2> HIDE DEF rest
  <2> QED
    BY <1>6, <1>10
<1>12. rest = IF name # text
              THEN IF option.has_arg = "no" THEN Returns(e, "?", Null) ELSE Returns(e, code, value)
              ELSE IF option.has_arg # "required" THEN Returns(e, code, Null)
              ELSE IF e.optind = argc(d) THEN Returns(e, Missing(d), Null)
              ELSE Returns(Moved(d, d.optind + 2, Null), code, Word(d, d.optind + 1))
  BY <1>4, <1>5
<1> HIDE DEF rest, e
<1> QED
  BY <1>7, <1>8, <1>9, <1>11, <1>12 DEF r, e, found

\* A long option that is refused takes its word.
LEMMA RefusedTakes ==
  ASSUME NEW d, IsData(d)
  PROVE  Refused(d) = Returns(Moved(d, d.optind + 1, Null), "?", Null)
  BY MovedByExcept DEF Refused

\* What the least element of a set of numbers is.
LEMMA LeastOf ==
  ASSUME NEW S, S \subseteq Nat, S # {}
  PROVE  Min(S) \in S /\ \A x \in S : Min(S) <= x
<1> DEFINE R == OpToRel(<, Nat)
<1>1. IsWellFoundedOn(R, Nat)
  BY NatLessThanWellFounded, Zenon
<1> HIDE DEF R
<1>2. PICK n \in S : \A m \in S : ~(<<m, n>> \in R)
  BY <1>1, WFMin
<1>3. \A m \in S : ~(m < n)
  BY <1>2, Zenon DEF R, OpToRel
<1>4. \A x \in S : n <= x
  BY <1>3
<1> QED
  BY <1>4 DEF Min

\* The value of a long option that is found is never mistaken for an end.
LEMMA FoundLong ==
  ASSUME NEW spec \in GoSpecs, NEW text, LongFound(spec, text) # {}
  PROVE  LongCode(spec, text) \notin {"-1", "short"}
<1> DEFINE S == LongFound(spec, text)
<1>1. DOMAIN spec.long \subseteq Nat /\ \A i \in DOMAIN spec.long : spec.long[i].val \notin {"-1", "short"}
  BY GoAssumption
<1>2. Exact([spec |-> spec], NameOf(text)) \subseteq DOMAIN spec.long
        /\ Partial([spec |-> spec], NameOf(text)) \subseteq DOMAIN spec.long
  BY DEF Exact, Partial
<1>3. S \subseteq DOMAIN spec.long
  <2> DEFINE E == Exact([spec |-> spec], NameOf(text))
  <2>1. E # {} => Min(E) \in E
    BY <1>1, <1>2, LeastOf
  <2> HIDE DEF E
  <2>2. S = IF E # {} THEN {Min(E)} ELSE Partial([spec |-> spec], NameOf(text))
    BY DEF LongFound, Candidates, E
  <2> QED
    BY <1>2, <2>1, <2>2 DEF E
<1>4. Min(S) \in DOMAIN spec.long
  <2> HIDE DEF S
  <2>1. S # {}
    BY DEF S
  <2> QED
    BY <1>1, <1>3, <2>1, LeastOf
<1>5. LongOf(spec, text).val \notin {"-1", "short"}
  BY <1>1, <1>4 DEF LongOf
<1> QED
  BY <1>5 DEF LongCode

\* process_long_option takes one argument, or two if the option needs the next.
LEMMA LongTakes ==
  ASSUME NEW d, IsData(d), d.optind <= Len(d.words), NEW text, NEW long_only
  PROVE  LET r == process_long_option(d, text, long_only) IN
         \/ r = Returns(d, "short", Null) /\ IsShort(d, text, long_only)
         \/ r.code \notin {"-1", "short"} /\ Took(r, d, 1, Null)
         \/ d.optind + 1 <= Len(d.words) /\ r.code \notin {"-1", "short"} /\ Took(r, d, 2, Null)
<1> DEFINE r == process_long_option(d, text, long_only)
           e == Moved(d, d.optind + 1, Null)
           f == Moved(d, d.optind + 2, Null)
<1>1. \A code, arg : LET q == Returns(e, code, arg) IN Took(q, d, 1, Null) /\ q.code = code
  BY DEF Took, Returns
<1>2. \A code, arg : LET q == Returns(f, code, arg) IN Took(q, d, 2, Null) /\ q.code = code
  BY DEF Took, Returns
<1>3. Missing(d) \notin {"-1", "short"}
  BY DEF Missing
<1>4. d.spec \in GoSpecs
  BY DEF IsData
<1>5. e.optind # argc(d) => d.optind + 1 <= Len(d.words)
  BY MovedFields DEF argc, IsData
<1>6. Refused(d) = Returns(e, "?", Null)
  BY RefusedTakes
<1>7. LongFound(d.spec, text) # {} => LongCode(d.spec, text) \notin {"-1", "short"}
  BY <1>4, FoundLong
<1>8. LongAmbiguous(d.spec, text, long_only) => LongFound(d.spec, text) # {}
  BY DEF LongAmbiguous
<1> DEFINE option == LongOf(d.spec, text)
<1>9. /\ LongAmbiguous(d.spec, text, long_only) => r = Refused(d)
      /\ IsShort(d, text, long_only) => r = Returns(d, "short", Null)
      /\ LongFound(d.spec, text) = {} /\ ~IsShort(d, text, long_only) => r = Refused(d)
      /\ LongFound(d.spec, text) # {} /\ ~LongAmbiguous(d.spec, text, long_only) =>
           r = IF NameOf(text) # text
               THEN IF option.has_arg = "no" THEN Returns(e, "?", Null)
                    ELSE Returns(e, LongCode(d.spec, text), LongValue(text))
               ELSE IF option.has_arg # "required" THEN Returns(e, LongCode(d.spec, text), Null)
               ELSE IF e.optind = argc(d) THEN Returns(e, Missing(d), Null)
               ELSE Returns(f, LongCode(d.spec, text), Word(d, d.optind + 1))
  BY LongCases
<1> HIDE DEF r, e, f, option
<1>10. CASE LongAmbiguous(d.spec, text, long_only) \/ LongFound(d.spec, text) = {}
  BY <1>10, <1>1, <1>6, <1>8, <1>9 DEF r
<1>11. CASE LongFound(d.spec, text) # {} /\ ~LongAmbiguous(d.spec, text, long_only)
  BY <1>11, <1>1, <1>2, <1>3, <1>5, <1>7, <1>9 DEF r
<1> QED
  BY <1>10, <1>11

\* It does the same wherever it sees the same.
LEMMA LongLocal ==
  ASSUME NEW d, NEW e, NEW text, NEW long_only, NEW k \in 1 .. 2, Alike(d, e, k), d.optind <= Len(d.words),
         LET r == process_long_option(d, text, long_only)
         IN  r.code \notin Trouble \cup {"short"} /\ Took(r, d, k, Null)
  PROVE  LET r == process_long_option(d, text, long_only)
         IN  process_long_option(e, text, long_only) = Returns(Moved(e, e.optind + k, Null), r.code, r.arg)
<1> DEFINE r == process_long_option(d, text, long_only)
           q == process_long_option(e, text, long_only)
           option == LongOf(d.spec, text)
           code == LongCode(d.spec, text)
<1>1. IsData(d) /\ IsData(e) /\ e.spec = d.spec /\ e.words = d.words
  BY DEF Alike
<1>2. Word(e, e.optind) = Word(d, d.optind)
  <2>1. 0 \in 0 .. k - 1 /\ d.optind + 0 = d.optind /\ e.optind + 0 = e.optind
    BY <1>1 DEF IsData
  <2> QED
    BY <1>1, <2>1 DEF Alike, Word
<1>3. IsShort(e, text, long_only) <=> IsShort(d, text, long_only)
  BY <1>1, <1>2 DEF IsShort
<1>4. r.code \notin Trouble \cup {"short"} /\ Took(r, d, k, Null)
  OBVIOUS
<1>5. Refused(d).code = "?" /\ Returns(d, "short", Null).code = "short" /\ Missing(d) \in Trouble
  BY DEF Refused, Returns, Missing, Trouble
<1>6. LongFound(d.spec, text) # {} /\ ~LongAmbiguous(d.spec, text, long_only)
  BY <1>1, <1>4, <1>5, LongCases DEF Trouble
<1> DEFINE Known(x) ==
      IF NameOf(text) # text
      THEN IF option.has_arg = "no" THEN Returns(Moved(x, x.optind + 1, Null), "?", Null)
           ELSE Returns(Moved(x, x.optind + 1, Null), code, LongValue(text))
      ELSE IF option.has_arg # "required" THEN Returns(Moved(x, x.optind + 1, Null), code, Null)
      ELSE IF Moved(x, x.optind + 1, Null).optind = argc(x) THEN Returns(Moved(x, x.optind + 1, Null), Missing(x), Null)
      ELSE Returns(Moved(x, x.optind + 2, Null), code, Word(x, x.optind + 1))
<1>7. r = Known(d)
  BY <1>1, <1>6, LongCases
<1>8. q = Known(e)
  <2>1. LongFound(e.spec, text) # {} /\ ~LongAmbiguous(e.spec, text, long_only)
    BY <1>1, <1>6
  <2>2. q = IF NameOf(text) # text
            THEN IF LongOf(e.spec, text).has_arg = "no" THEN Returns(Moved(e, e.optind + 1, Null), "?", Null)
                 ELSE Returns(Moved(e, e.optind + 1, Null), LongCode(e.spec, text), LongValue(text))
            ELSE IF LongOf(e.spec, text).has_arg # "required" THEN Returns(Moved(e, e.optind + 1, Null), LongCode(e.spec, text), Null)
            ELSE IF Moved(e, e.optind + 1, Null).optind = argc(e) THEN Returns(Moved(e, e.optind + 1, Null), Missing(e), Null)
            ELSE Returns(Moved(e, e.optind + 2, Null), LongCode(e.spec, text), Word(e, e.optind + 1))
    BY <1>1, <2>1, LongCases
  <2> QED
    BY <1>1, <2>2
<1> HIDE DEF option, code, r, q
<1>9. d.optind \in Nat /\ e.optind \in Nat /\ Len(d.words) \in Nat
  BY <1>1 DEF IsData
<1>10. CASE NameOf(text) # text \/ option.has_arg # "required"
  <2>1. PICK c, a : r = Returns(Moved(d, d.optind + 1, Null), c, a)
          /\ q = Returns(Moved(e, e.optind + 1, Null), c, a)
    BY <1>7, <1>8, <1>10
  <2>2. r.data.optind = d.optind + 1 /\ r.code = c /\ r.arg = a
    BY <2>1, ReturnsFields, MovedFields
  <2>3. r.data.optind = d.optind + k
    <3>1. r.data = Moved(d, d.optind + k, Null)
      BY <1>4, ReturnsFields DEF Took
    <3> QED
      BY <3>1, MovedFields
  <2>4. k = 1
    BY <1>9, <2>2, <2>3
  <2> QED
    BY <2>1, <2>2, <2>4 DEF r, q
<1>11. CASE ~(NameOf(text) # text \/ option.has_arg # "required")
  <2>1. d.optind + 1 # argc(d)
    BY <1>4, <1>5, <1>7, <1>11, MovedFields, ReturnsFields
  <2>2. r = Returns(Moved(d, d.optind + 2, Null), code, Word(d, d.optind + 1))
    BY <1>7, <1>11, <2>1, MovedFields
  <2>3. r.data.optind = d.optind + 2 /\ r.code = code /\ r.arg = Word(d, d.optind + 1)
    BY <2>2, ReturnsFields, MovedFields
  <2>4. r.data.optind = d.optind + k
    <3>1. r.data = Moved(d, d.optind + k, Null)
      BY <1>4, ReturnsFields DEF Took
    <3> QED
      BY <3>1, MovedFields
  <2>5. k = 2
    BY <1>9, <2>3, <2>4
  <2>6. e.optind + 1 <= Len(d.words) /\ e.argv[e.optind + 1] = d.argv[d.optind + 1]
    BY <2>5 DEF Alike
  <2>7. Word(e, e.optind + 1) = Word(d, d.optind + 1) /\ e.optind + 1 # argc(e)
    BY <1>1, <1>9, <2>6 DEF Word, argc
  <2>8. q = Returns(Moved(e, e.optind + 2, Null), code, Word(e, e.optind + 1))
    BY <1>8, <1>11, <2>7, MovedFields
  <2> QED
    BY <2>3, <2>5, <2>7, <2>8 DEF r, q
<1> QED
  BY <1>10, <1>11

------------------------------------------------------------------------------
(***************************************************************************)
(* Short options.                                                          *)
(***************************************************************************)
\* The cases of a short option.
Spent(text) == Tail(text) = <<>>
After(d, text) == Moved(d, IF Spent(text) THEN d.optind + 1 ELSE d.optind, Tail(text))
KindOf(spec, c) == IF spec.short[c] = "W" /\ ~spec.longs THEN "no" ELSE spec.short[c]
Argument(d, text) == IF Spent(text) THEN Word(d, d.optind + 1) ELSE Tail(text)

\* The next letter, case by case (getopt-common.h:590-682).
LEMMA ShortCases ==
  ASSUME NEW d, IsData(d), NEW text
  PROVE  LET r == ShortOption(d, text)
             c == text[1]
             e == After(d, text)
             kind == KindOf(d.spec, c)
             known == c \in DOMAIN d.spec.short
             lacks == known /\ kind \in {"required", "W"} /\ Spent(text) /\ e.optind = argc(d) IN
         /\ ~known => r = Returns(e, "?", Null)
         /\ lacks => r = Returns(Moved(d, e.optind, Null), Missing(d), Null)
         /\ known /\ ~lacks =>
              /\ kind = "W" => r = process_long_option(e, Argument(d, text), FALSE)
              /\ kind \in {"required", "optional"} /\ ~Spent(text) =>
                   r = Returns(Moved(d, d.optind + 1, Null), c, Tail(text))
              /\ kind = "required" /\ Spent(text) =>
                   r = Returns(Moved(d, d.optind + 2, Null), c, Word(d, d.optind + 1))
              /\ kind \notin {"W", "required"} /\ ~(kind = "optional" /\ ~Spent(text)) =>
                   r = Returns(e, c, Null)
<1> DEFINE r == ShortOption(d, text)
           c == text[1]
           rest == Tail(text)
           e0 == [d EXCEPT !.nextchar = rest, !.optind = IF rest = <<>> THEN @ + 1 ELSE @]
           e == After(d, text)
           taken0 == [e0 EXCEPT !.nextchar = Null, !.optind = @ + 1]
           taken == Moved(d, e.optind + 1, Null)
           kind == KindOf(d.spec, c)
           known == c \in DOMAIN d.spec.short
           last == Spent(text)
<1>1. e0 = e
  <2>1. e0 = [d EXCEPT !.nextchar = rest, !.optind = IF rest = <<>> THEN d.optind + 1 ELSE d.optind]
    BY DEF IsData
  <2> DEFINE o == IF rest = <<>> THEN d.optind + 1 ELSE d.optind
  <2>2. [d EXCEPT !.nextchar = rest, !.optind = o] = Moved(d, o, rest)
    <3> HIDE DEF o, rest
    <3> QED
      BY MovedBoth
  <2> QED
    BY <2>1, <2>2 DEF After, Spent
<1>2. IsData(e)
  <2>1. d.optind \in Nat
    BY DEF IsData
  <2> QED
    BY <2>1, MovedTyped DEF After
<1>3. taken0 = taken
  <2>1. [e EXCEPT !.nextchar = Null, !.optind = @ + 1] = Moved(e, e.optind + 1, Null)
    <3> HIDE DEF e
    <3> QED
      BY <1>2, MovedByExcept
  <2>2. Moved(e, e.optind + 1, Null) = taken
    BY MovedTwice DEF After
  <2> QED
    BY <1>1, <2>1, <2>2
<1>4. [e EXCEPT !.nextchar = Null] = Moved(d, e.optind, Null)
  <2>1. [e EXCEPT !.nextchar = Null] = Moved(e, e.optind, Null)
    <3> HIDE DEF e
    <3> QED
      BY <1>2, MovedByExcept
  <2> QED
    BY <2>1, MovedTwice DEF After
<1>5. e.optind = (IF last THEN d.optind + 1 ELSE d.optind) /\ d.optind \in Nat
  BY MovedFields DEF After, IsData
<1>6. Word(e, e.optind) = Word(d, e.optind)
  BY DEF Word, After, Moved
<1>7. r = CASE ~known -> Returns(e, "?", Null)
            [] known /\ kind \in {"required", "W"} /\ last /\ e.optind = argc(d) ->
                 Returns(Moved(d, e.optind, Null), Missing(d), Null)
            [] OTHER ->
                 IF kind = "W" THEN process_long_option(e, IF last THEN Word(d, e.optind) ELSE rest, FALSE)
                 ELSE IF kind \in {"required", "optional"} /\ ~last THEN Returns(taken, c, rest)
                 ELSE IF kind = "required" THEN Returns(taken, c, Word(d, e.optind))
                 ELSE Returns(e, c, Null)
  <2>1. r = CASE c \notin DOMAIN d.spec.short -> Returns(e0, "?", Null)
              [] c \in DOMAIN d.spec.short /\ kind \in {"required", "W"} /\ rest = <<>>
                /\ e0.optind = argc(d) ->
                   Returns([e0 EXCEPT !.nextchar = Null], Missing(d), Null)
              [] OTHER ->
                   IF kind = "W"
                   THEN process_long_option(e0, IF rest = <<>> THEN Word(e0, e0.optind) ELSE rest, FALSE)
                   ELSE IF kind \in {"required", "optional"} /\ rest # <<>> THEN Returns(taken0, c, rest)
                   ELSE IF kind = "required" THEN Returns(taken0, c, Word(e0, e0.optind))
                   ELSE Returns(e0, c, Null)
    BY Zenon DEF ShortOption, KindOf
  <2>2. last <=> rest = <<>>
    BY DEF Spent
  <2> HIDE DEF e0, e, taken0, taken, r, kind, last, rest
  <2> QED
    BY <1>1, <1>3, <1>4, <1>6, <2>1, <2>2, Zenon
<1>8. /\ last => e.optind + 1 = d.optind + 2 /\ taken = Moved(d, d.optind + 2, Null)
         /\ Word(d, e.optind) = Word(d, d.optind + 1)
      /\ ~last => taken = Moved(d, d.optind + 1, Null)
  BY <1>5
<1>9. Argument(d, text) = IF last THEN Word(d, e.optind) ELSE rest
  BY <1>5 DEF Argument
<1> DEFINE lacks == known /\ kind \in {"required", "W"} /\ last /\ e.optind = argc(d)
<1> HIDE DEF e, kind, known, last, taken, rest, c, r
<1>10. /\ ~known => r = Returns(e, "?", Null)
       /\ lacks => r = Returns(Moved(d, e.optind, Null), Missing(d), Null)
       /\ known /\ ~lacks =>
              /\ kind = "W" => r = process_long_option(e, Argument(d, text), FALSE)
              /\ kind \in {"required", "optional"} /\ ~last =>
                   r = Returns(Moved(d, d.optind + 1, Null), c, rest)
              /\ kind = "required" /\ last =>
                   r = Returns(Moved(d, d.optind + 2, Null), c, Word(d, d.optind + 1))
              /\ kind \notin {"W", "required"} /\ ~(kind = "optional" /\ ~last) => r = Returns(e, c, Null)
  BY <1>7, <1>8, <1>9
<1> QED
  BY <1>10 DEF e, kind, known, last, rest, c, r

\* A call that does not end the scan takes up to three arguments; if none, letters are left.
Takes(r, d, k, y) ==
  /\ Took(r, d, k, y) /\ r.code # "-1" /\ k \in 0 .. 3 /\ d.optind + k <= Len(d.words) + 1
  /\ k = 0 <=> y # Null
Seen(k) == IF k = 0 THEN 1 ELSE k

\* A letter takes its argument, or stays within the word.
LEMMA ShortTakes ==
  ASSUME NEW d, IsData(d), d.optind <= Len(d.words), NEW text
  PROVE  \E k, y : Takes(ShortOption(d, text), d, k, y)
<1> DEFINE r == ShortOption(d, text)
           c == text[1]
           e == After(d, text)
           kind == KindOf(d.spec, c)
           known == c \in DOMAIN d.spec.short
           last == Spent(text)
           lacks == known /\ kind \in {"required", "W"} /\ last /\ e.optind = argc(d)
<1>1. ASSUME NEW k \in 0 .. 3, NEW y, NEW code, NEW arg, code # "-1", d.optind + k <= Len(d.words) + 1,
             k = 0 <=> y # Null,
             r = Returns(Moved(d, d.optind + k, y), code, arg)
      PROVE  \E j, z : Takes(r, d, j, z)
  <2> HIDE DEF r
  <2>1. r.code = code /\ r.arg = arg
    BY <1>1, ReturnsFields
  <2>2. Takes(r, d, k, y)
    BY <1>1, <2>1 DEF Takes, Took
  <2> QED
    BY <2>2
<1>2. d.optind \in Nat /\ Len(d.words) \in Nat /\ d.spec \in GoSpecs
  BY DEF IsData
<1>3. e = Moved(d, e.optind, Tail(text)) /\ e.optind = (IF last THEN d.optind + 1 ELSE d.optind)
        /\ (last <=> Tail(text) = Null)
  BY MovedFields DEF After, Spent, Null
<1>4. known => c # "-1"
  BY <1>2, GoAssumption
<1>5. Missing(d) # "-1"
  BY DEF Missing
<1>6. /\ ~known => r = Returns(e, "?", Null)
      /\ lacks => r = Returns(Moved(d, e.optind, Null), Missing(d), Null)
      /\ known /\ ~lacks =>
              /\ kind = "W" => r = process_long_option(e, Argument(d, text), FALSE)
              /\ kind \in {"required", "optional"} /\ ~last =>
                   r = Returns(Moved(d, d.optind + 1, Null), c, Tail(text))
              /\ kind = "required" /\ last =>
                   r = Returns(Moved(d, d.optind + 2, Null), c, Word(d, d.optind + 1))
              /\ kind \notin {"W", "required"} /\ ~(kind = "optional" /\ ~last) => r = Returns(e, c, Null)
  BY ShortCases
<1>7. lacks => last
  OBVIOUS
<1>8. known /\ ~lacks /\ kind \in {"W", "required"} /\ last => d.optind + 1 <= Len(d.words)
  BY <1>2, <1>3 DEF argc
<1> DEFINE rest == Tail(text)
<1> HIDE DEF r, c, e, kind, known, last, lacks, rest
<1> DEFINE m == IF last THEN 1 ELSE 0
<1>9. /\ m \in 0 .. 3 /\ e = Moved(d, d.optind + m, rest) /\ (m = 0 <=> rest # Null) /\ e.optind = d.optind + m
      /\ d.optind + m <= Len(d.words) + 1
  <2>1. CASE last
    <3>1. e.optind = d.optind + 1
      BY <1>3, <2>1
    <3> QED
      BY <1>2, <1>3, <2>1, <3>1 DEF rest
  <2>2. CASE ~last
    <3>1. e.optind = d.optind + 0
      BY <1>2, <1>3, <2>2
    <3> QED
      BY <1>2, <1>3, <2>2, <3>1 DEF rest
  <2> QED
    BY <2>1, <2>2
<1>10. CASE ~known \/ (known /\ ~lacks /\ kind \notin {"W", "required"} /\ ~(kind = "optional" /\ ~last))
  <2>1. CASE ~known
    <3>1. r = Returns(Moved(d, d.optind + m, rest), "?", Null)
      BY <1>6, <1>9, <2>1
    <3> HIDE DEF m
    <3> QED
      BY <1>1, <1>9, <3>1 DEF r
  <2>2. CASE known /\ ~lacks /\ kind \notin {"W", "required"} /\ ~(kind = "optional" /\ ~last)
    <3>1. r = Returns(Moved(d, d.optind + m, rest), c, Null)
      BY <1>6, <1>9, <2>2
    <3> HIDE DEF m
    <3> QED
      BY <1>1, <1>4, <1>9, <2>2, <3>1 DEF r
  <2> QED
    BY <1>10, <2>1, <2>2
<1>11. CASE lacks
  <2>1. r = Returns(Moved(d, d.optind + 1, Null), Missing(d), Null)
    BY <1>3, <1>6, <1>7, <1>11
  <2> QED
    BY <1>1, <1>2, <1>5, <2>1 DEF r
<1>12. CASE known /\ ~lacks /\ kind \in {"required", "optional"} /\ ~last
  <2>1. r = Returns(Moved(d, d.optind + 1, Null), c, rest)
    BY <1>6, <1>12 DEF rest
  <2> QED
    BY <1>1, <1>2, <1>4, <1>12, <2>1 DEF r
<1>13. CASE known /\ ~lacks /\ kind = "required" /\ last
  <2>1. r = Returns(Moved(d, d.optind + 2, Null), c, Word(d, d.optind + 1))
    BY <1>6, <1>13
  <2> QED
    BY <1>1, <1>2, <1>4, <1>8, <1>13, <2>1 DEF r
<1>14. CASE known /\ ~lacks /\ kind = "W"
  <2>1. r = process_long_option(e, Argument(d, text), FALSE)
    BY <1>6, <1>14
  <2>2. IsData(e) /\ e.words = d.words
    BY <1>2, <1>9, MovedTyped, MovedFields
  <2>3. e.optind <= Len(e.words) /\ e.optind \in Nat
    BY <1>2, <1>8, <1>9, <1>14, <2>2
  <2>4. ~IsShort(e, Argument(d, text), FALSE)
    BY DEF IsShort
  <2>5. PICK j \in 1 .. 2 : r.code \notin {"-1", "short"} /\ Took(r, e, j, Null)
          /\ e.optind + j <= Len(d.words) + 1
    <3>1. \/ r.code \notin {"-1", "short"} /\ Took(r, e, 1, Null)
          \/ e.optind + 1 <= Len(e.words) /\ r.code \notin {"-1", "short"} /\ Took(r, e, 2, Null)
      BY <2>1, <2>2, <2>3, <2>4, LongTakes
    <3> QED
      BY <1>2, <2>2, <2>3, <3>1
  <2>6. r = Returns(Moved(d, d.optind + (m + j), Null), r.code, r.arg)
    <3>1. e.optind + j = d.optind + (m + j)
      BY <1>2, <1>9
    <3>2. Moved(e, e.optind + j, Null) = Moved(d, e.optind + j, Null)
      BY <1>9, MovedTwice
    <3> QED
      BY <2>5, <3>1, <3>2 DEF Took
  <2>7. m + j \in 0 .. 3 /\ m + j # 0 /\ d.optind + (m + j) <= Len(d.words) + 1
    BY <1>2, <1>9, <2>5
  <2> HIDE DEF m
  <2> QED
    BY <1>1, <2>5, <2>6, <2>7 DEF r
<1> QED
  BY <1>10, <1>11, <1>12, <1>13, <1>14

\* It does the same wherever it sees the same.
LEMMA ShortLocal ==
  ASSUME NEW d, NEW e, NEW text, NEW k, NEW y, Alike(d, e, Seen(k)), d.optind <= Len(d.words),
         Takes(ShortOption(d, text), d, k, y), ShortOption(d, text).code \notin Trouble
  PROVE  ShortOption(e, text) = Returns(Moved(e, e.optind + k, y), ShortOption(d, text).code, ShortOption(d, text).arg)
<1> DEFINE r == ShortOption(d, text)
           q == ShortOption(e, text)
           c == text[1]
           kind == KindOf(d.spec, c)
           known == c \in DOMAIN d.spec.short
           last == Spent(text)
           Lacks(x) == known /\ kind \in {"required", "W"} /\ last /\ After(x, text).optind = argc(x)
           rest == Tail(text)
           Known(x, s) ==
              /\ ~known => s = Returns(After(x, text), "?", Null)
              /\ Lacks(x) => s = Returns(Moved(x, After(x, text).optind, Null), Missing(x), Null)
              /\ known /\ ~Lacks(x) =>
                   /\ kind = "W" => s = process_long_option(After(x, text), Argument(x, text), FALSE)
                   /\ kind \in {"required", "optional"} /\ ~last =>
                        s = Returns(Moved(x, x.optind + 1, Null), c, rest)
                   /\ kind = "required" /\ last =>
                        s = Returns(Moved(x, x.optind + 2, Null), c, Word(x, x.optind + 1))
                   /\ kind \notin {"W", "required"} /\ ~(kind = "optional" /\ ~last) =>
                        s = Returns(After(x, text), c, Null)
<1>1. IsData(d) /\ IsData(e) /\ e.spec = d.spec /\ e.words = d.words
  BY DEF Alike
<1>2. Known(d, r) /\ Known(e, q)
  <2>1. Known(d, r)
    BY <1>1, ShortCases
  <2>2. Known(e, q)
    BY <1>1, ShortCases
  <2> QED
    BY <2>1, <2>2
<1>3. d.optind \in Nat /\ e.optind \in Nat /\ Len(d.words) \in Nat
  BY <1>1 DEF IsData
<1>4. k \in 0 .. 3 /\ r = Returns(Moved(d, d.optind + k, y), r.code, r.arg) /\ r.code \notin Trouble
  BY DEF Takes, Took
<1>5. Missing(d) \in Trouble /\ "?" \in Trouble
  BY DEF Missing, Trouble
<1>6. known /\ ~Lacks(d)
  <2>1. \A x : Returns(x, "?", Null).code = "?" /\ Returns(x, Missing(d), Null).code = Missing(d)
    BY ReturnsFields
  <2> HIDE DEF r, q, known, Lacks
  <2> QED
    BY <1>2, <1>4, <1>5, <2>1
<1>7. ASSUME NEW j \in 0 .. 3, NEW z, NEW code, NEW a, r = Returns(Moved(d, d.optind + j, z), code, a)
      PROVE  k = j /\ y = z /\ r.code = code /\ r.arg = a
  <2> HIDE DEF r
  <2>1. r.data = Moved(d, d.optind + k, y) /\ r.data = Moved(d, d.optind + j, z) /\ r.code = code /\ r.arg = a
    BY <1>4, <1>7, ReturnsFields
  <2>2. d.optind + k = d.optind + j /\ y = z
    BY <2>1, MovedFields
  <2> QED
    BY <1>3, <1>4, <2>1, <2>2
<1>8. \A x : After(x, text).optind = IF last THEN x.optind + 1 ELSE x.optind
  BY MovedFields DEF After
<1>9. \A x : After(x, text) = Moved(x, After(x, text).optind, rest)
  BY MovedFields DEF After
<1> DEFINE m == IF last THEN 1 ELSE 0
<1>10. m \in 0 .. 3 /\ After(d, text).optind = d.optind + m /\ After(e, text).optind = e.optind + m
  BY <1>3, <1>8
<1> HIDE DEF r, q, kind, known, last, c, m, rest
<1>11. CASE kind \notin {"W", "required"} /\ ~(kind = "optional" /\ ~last)
  <2>1. r = Returns(Moved(d, d.optind + m, rest), c, Null)
    BY <1>2, <1>6, <1>9, <1>10, <1>11
  <2>2. k = m /\ y = rest /\ r.code = c /\ r.arg = Null
    BY <1>7, <1>10, <2>1
  <2>3. ~Lacks(e)
    BY <1>11
  <2>4. q = Returns(Moved(e, e.optind + m, rest), c, Null)
    BY <1>2, <1>6, <1>9, <1>10, <1>11, <2>3
  <2> QED
    BY <2>2, <2>4 DEF r, q
<1>12. CASE kind \in {"required", "optional"} /\ ~last
  <2>1. r = Returns(Moved(d, d.optind + 1, Null), c, rest)
    BY <1>2, <1>6, <1>12
  <2>2. k = 1 /\ y = Null /\ r.code = c /\ r.arg = rest
    BY <1>7, <2>1
  <2>3. q = Returns(Moved(e, e.optind + 1, Null), c, rest)
    BY <1>2, <1>6, <1>12
  <2> QED
    BY <2>2, <2>3 DEF r, q
<1>13. CASE kind = "required" /\ last
  <2>1. r = Returns(Moved(d, d.optind + 2, Null), c, Word(d, d.optind + 1))
    BY <1>2, <1>6, <1>13
  <2>2. k = 2 /\ y = Null /\ r.code = c /\ r.arg = Word(d, d.optind + 1)
    BY <1>7, <2>1
  <2>3. e.optind + 1 <= Len(d.words) /\ e.argv[e.optind + 1] = d.argv[d.optind + 1]
    BY <2>2 DEF Alike, Seen
  <2>4. ~Lacks(e) /\ Word(e, e.optind + 1) = Word(d, d.optind + 1)
    BY <1>1, <1>3, <1>8, <1>13, <2>3 DEF argc, Word
  <2>5. q = Returns(Moved(e, e.optind + 2, Null), c, Word(e, e.optind + 1))
    BY <1>2, <1>6, <1>13, <2>4
  <2> QED
    BY <2>2, <2>4, <2>5 DEF r, q
<1>14. CASE kind = "W"
  <2> DEFINE x == After(d, text)
             w == After(e, text)
             t == Argument(d, text)
  <2>1. r = process_long_option(x, t, FALSE)
    BY <1>2, <1>6, <1>14
  <2>2. IsData(x) /\ x.words = d.words /\ x.spec = d.spec /\ x.argv = d.argv /\ x.ordering = d.ordering
    BY <1>1, <1>3, <1>9, <1>10, MovedTyped, MovedFields
  <2>3. IsData(w) /\ w.words = e.words /\ w.spec = e.spec /\ w.argv = e.argv /\ w.ordering = e.ordering
    BY <1>1, <1>3, <1>9, <1>10, MovedTyped, MovedFields
  <2>4. x.optind = d.optind + m /\ w.optind = e.optind + m /\ x.optind <= Len(x.words)
    <3>1. last => x.optind # argc(d)
      BY <1>6, <1>14
    <3> QED
      BY <1>3, <1>8, <1>10, <2>2, <3>1 DEF argc, m
  <2>5. ~IsShort(x, t, FALSE)
    BY DEF IsShort
  <2> HIDE DEF x, w, t
  <2>6. PICK j \in 1 .. 2 : r.code \notin {"-1", "short"} /\ Took(r, x, j, Null)
    <3>1. \/ r.code \notin {"-1", "short"} /\ Took(r, x, 1, Null)
          \/ r.code \notin {"-1", "short"} /\ Took(r, x, 2, Null)
      BY <2>1, <2>2, <2>4, <2>5, LongTakes
    <3> QED
      BY <3>1
  <2>7. r = Returns(Moved(d, d.optind + (m + j), Null), r.code, r.arg)
    <3>1. x.optind + j = d.optind + (m + j)
      BY <1>3, <1>10, <2>4
    <3>2. Moved(x, x.optind + j, Null) = Moved(d, x.optind + j, Null)
      BY <1>9, MovedTwice DEF x
    <3> QED
      BY <2>6, <3>1, <3>2 DEF Took
  <2>8. k = m + j /\ y = Null /\ Seen(k) = m + j
    <3>1. m + j \in 0 .. 3 /\ m + j # 0
      BY <1>10, <2>6 DEF m
    <3> QED
      BY <1>7, <2>7, <3>1 DEF Seen
  <2>9. Alike(x, w, j)
    <3>1. ASSUME NEW i \in 0 .. j - 1
          PROVE  x.optind + i <= Len(x.words) /\ w.optind + i <= Len(x.words)
            /\ w.argv[w.optind + i] = x.argv[x.optind + i]
      <4>1. m + i \in 0 .. (m + j) - 1 /\ x.optind + i = d.optind + (m + i) /\ w.optind + i = e.optind + (m + i)
        BY <1>3, <1>10, <2>4
      <4> QED
        BY <2>2, <2>3, <2>8, <4>1 DEF Alike
    <3> QED
      BY <1>1, <2>2, <2>3, <3>1 DEF Alike
  <2>9a. r.code \notin Trouble \cup {"short"}
    BY <1>4, <2>6
  <2>10. process_long_option(w, t, FALSE) = Returns(Moved(w, w.optind + j, Null), r.code, r.arg)
    <3> DEFINE no == FALSE
    <3>1. r = process_long_option(x, t, no)
      BY <2>1
    <3> HIDE DEF no
    <3>2. LET s == process_long_option(x, t, no)
          IN  s.code \notin Trouble \cup {"short"} /\ Took(s, x, j, Null)
      BY <2>6, <2>9a, <3>1
    <3>3. LET s == process_long_option(x, t, no)
          IN  process_long_option(w, t, no) = Returns(Moved(w, w.optind + j, Null), s.code, s.arg)
      BY <2>4, <2>9, <3>2, LongLocal
    <3> QED
      BY <3>1, <3>3 DEF no
  <2>11. Moved(w, w.optind + j, Null) = Moved(e, e.optind + k, Null)
    <3>1. w.optind + j = e.optind + k
      BY <1>3, <1>10, <2>4, <2>8
    <3> QED
      BY <1>9, <3>1, MovedTwice DEF w
  <2>12. last => e.optind + 1 <= Len(d.words) /\ e.argv[e.optind + 1] = d.argv[d.optind + 1]
    <3>1. last => 1 \in 0 .. Seen(k) - 1
      BY <2>6, <2>8 DEF m
    <3> QED
      BY <3>1 DEF Alike
  <2>13. ~Lacks(e) /\ Argument(e, text) = t
    BY <1>1, <1>3, <1>8, <2>12 DEF argc, Word, Argument, t, last, rest
  <2>14. q = process_long_option(w, t, FALSE)
    BY <1>2, <1>6, <1>14, <2>13 DEF w
  <2> QED
    BY <2>8, <2>10, <2>11, <2>14 DEF r, q
<1> QED
  <2>1. kind = "W" \/ (kind = "required" /\ last) \/ (kind \in {"required", "optional"} /\ ~last)
        \/ (kind \notin {"W", "required"} /\ ~(kind = "optional" /\ ~last))
    OBVIOUS
  <2> QED
    BY <1>11, <1>12, <1>13, <1>14, <2>1

------------------------------------------------------------------------------
(***************************************************************************)
(* A word that starts a call.                                              *)
(***************************************************************************)
\* The cases of a new argument that ends nothing.
Plain(d) == NONOPTION_P(Word(d, d.optind))
MayBeLong(d) ==
  LET word == Word(d, d.optind) text == Tail(word) IN
  d.spec.longOnly /\ (Len(word) > 2 \/ text[1] \notin DOMAIN d.spec.short)

\* The cases of a word that starts a call: a non-option, a long option, a letter.
LEMMA NewCases ==
  ASSUME NEW d, IsData(d), d.optind <= Len(d.words), d.nextchar = Null
  PROVE  LET r == NewWord(d)
             word == Word(d, d.optind)
             text == Tail(word)
             asLong == process_long_option(d, text, TRUE) IN
         /\ Plain(d) /\ d.ordering # "REQUIRE_ORDER" => r = Returns(Moved(d, d.optind + 1, Null), "1", word)
         /\ ~Plain(d) =>
              /\ ~d.spec.longs => r = ShortOption(d, text)
              /\ d.spec.longs /\ text[1] = "-" => r = process_long_option(d, Tail(text), d.spec.longOnly)
              /\ d.spec.longs /\ text[1] # "-" =>
                   r = IF MayBeLong(d) /\ asLong.code # "short" THEN asLong ELSE ShortOption(d, text)
<1> DEFINE r == NewWord(d)
           word == Word(d, d.optind)
           text == Tail(word)
           asLong == process_long_option(d, text, TRUE)
           end == Returns([d EXCEPT !.optind = IF d.first # d.last THEN d.first ELSE @], "-1", Null)
           over == d.optind = argc(d)
           long == process_long_option(d, Tail(text), d.spec.longOnly)
           short == ShortOption(d, text)
           next0 == Returns([d EXCEPT !.optind = @ + 1], "1", word)
<1>1. ~over
  BY DEF argc, IsData
<1>2. [d EXCEPT !.optind = @ + 1] = Moved(d, d.optind + 1, Null)
  <2> DEFINE o == d.optind + 1
  <2>1. [d EXCEPT !.optind = @ + 1] = [d EXCEPT !.optind = o]
    BY DEF IsData
  <2> HIDE DEF o
  <2>2. [d EXCEPT !.optind = o] = Moved(d, o, Null)
    BY OptindMoved
  <2> QED
    BY <2>1, <2>2 DEF o
<1>3. r = CASE over -> end
            [] ~over /\ NONOPTION_P(word) -> IF d.ordering = "REQUIRE_ORDER" THEN Returns(d, "-1", Null) ELSE next0
            [] OTHER ->
                 IF ~d.spec.longs THEN short
                 ELSE IF text[1] = "-" THEN long
                 ELSE IF d.spec.longOnly /\ (Len(word) > 2 \/ text[1] \notin DOMAIN d.spec.short)
                         /\ asLong.code # "short" THEN asLong
                 ELSE short
  BY Zenon DEF NewWord
<1>4. NONOPTION_P(word) <=> Plain(d)
  BY DEF Plain
<1>5. (d.spec.longOnly /\ (Len(word) > 2 \/ text[1] \notin DOMAIN d.spec.short) /\ asLong.code # "short")
        <=> (MayBeLong(d) /\ asLong.code # "short")
  BY DEF MayBeLong
<1>6. next0 = Returns(Moved(d, d.optind + 1, Null), "1", word)
  BY <1>2
<1> HIDE DEF r, word, text, asLong, end, over, long, short, next0
<1>7. /\ Plain(d) /\ d.ordering # "REQUIRE_ORDER" => r = next0
      /\ ~Plain(d) =>
           /\ ~d.spec.longs => r = short
           /\ d.spec.longs /\ text[1] = "-" => r = long
           /\ d.spec.longs /\ text[1] # "-" =>
                r = IF MayBeLong(d) /\ asLong.code # "short" THEN asLong ELSE short
  BY <1>1, <1>3, <1>4, <1>5
<1> QED
  BY <1>6, <1>7 DEF r, word, text, asLong, long, short

\* The second character of an option word is the first of what follows the dash.
LEMMA OptionWord ==
  ASSUME NEW d, IsData(d), 1 <= d.optind, d.optind <= Len(d.words), ~Plain(d)
  PROVE  Word(d, d.optind)[2] = Tail(Word(d, d.optind))[1]
<1> DEFINE word == Word(d, d.optind)
<1>1. d.optind \in 1 .. Len(d.words)
  BY DEF IsData
<1>2. d.argv[d.optind] \in 1 .. Len(d.words)
  BY <1>1 DEF IsData
<1>3. word \in Seq(STRING)
  BY <1>2 DEF IsData, Word
<1>4. Len(word) >= 2
  BY <1>3 DEF Plain, NONOPTION_P
<1> HIDE DEF word
<1> QED
  BY <1>3, <1>4 DEF word

\* A long option is taken as such unless it may be a short one.
LEMMA LongOne ==
  ASSUME NEW d, IsData(d), d.optind <= Len(d.words), NEW text, NEW long_only,
         process_long_option(d, text, long_only).code # "short" \/ Word(d, d.optind)[2] = "-"
  PROVE  LET r == process_long_option(d, text, long_only) IN
         r.code \notin {"-1", "short"} /\ \E k \in 1 .. 2 : Took(r, d, k, Null) /\ Takes(r, d, k, Null)
<1> DEFINE r == process_long_option(d, text, long_only)
<1>1. r # Returns(d, "short", Null) \/ ~IsShort(d, text, long_only)
  BY ReturnsFields DEF IsShort
<1>2. \/ r.code \notin {"-1", "short"} /\ Took(r, d, 1, Null)
      \/ d.optind + 1 <= Len(d.words) /\ r.code \notin {"-1", "short"} /\ Took(r, d, 2, Null)
  BY <1>1, LongTakes
<1>3. d.optind \in Nat /\ Len(d.words) \in Nat
  BY DEF IsData
<1> HIDE DEF r
<1>4. PICK k \in 1 .. 2 : r.code \notin {"-1", "short"} /\ Took(r, d, k, Null)
        /\ d.optind + k <= Len(d.words) + 1
  BY <1>2, <1>3
<1>5. Takes(r, d, k, Null)
  BY <1>4 DEF Takes
<1> QED
  BY <1>4, <1>5 DEF r

\* A new word takes one argument, two, or three ("-W name value"), or leaves letters.
LEMMA NewTakes ==
  ASSUME NEW d, IsData(d), 1 <= d.optind, d.optind <= Len(d.words), d.nextchar = Null,
         ~(Plain(d) /\ d.ordering = "REQUIRE_ORDER")
  PROVE  \E k, y : Takes(NewWord(d), d, k, y)
<1> DEFINE r == NewWord(d)
           word == Word(d, d.optind)
           text == Tail(word)
           yes == TRUE
           asLong == process_long_option(d, text, yes)
<1>1. /\ Plain(d) /\ d.ordering # "REQUIRE_ORDER" => r = Returns(Moved(d, d.optind + 1, Null), "1", word)
      /\ ~Plain(d) =>
           /\ ~d.spec.longs => r = ShortOption(d, text)
           /\ d.spec.longs /\ text[1] = "-" => r = process_long_option(d, Tail(text), d.spec.longOnly)
           /\ d.spec.longs /\ text[1] # "-" =>
                r = IF MayBeLong(d) /\ asLong.code # "short" THEN asLong ELSE ShortOption(d, text)
  BY NewCases
<1>2. ~Plain(d) => word[2] = text[1]
  BY OptionWord
<1> HIDE DEF r, word, text, asLong, yes
<1>3. d.optind \in Nat /\ Len(d.words) \in Nat
  BY DEF IsData
<1>4. CASE Plain(d)
  <2>1. r = Returns(Moved(d, d.optind + 1, Null), "1", word)
    BY <1>1, <1>4
  <2>2. r.code = "1" /\ r.arg = word
    BY <2>1, ReturnsFields
  <2>3. Took(r, d, 1, Null)
    BY <2>1, <2>2 DEF Took
  <2>4. Takes(r, d, 1, Null)
    BY <1>3, <2>2, <2>3 DEF Takes
  <2> QED
    BY <2>4 DEF r
<1>5. CASE ~Plain(d) /\ d.spec.longs /\ text[1] = "-"
  <2>1. Word(d, d.optind)[2] = "-"
    BY <1>2, <1>5 DEF word
  <2>2. \E k \in 1 .. 2 : Takes(process_long_option(d, Tail(text), d.spec.longOnly), d, k, Null)
    BY <2>1, LongOne
  <2> QED
    BY <1>1, <1>5, <2>2 DEF r
<1>6. CASE ~Plain(d) /\ d.spec.longs /\ text[1] # "-" /\ MayBeLong(d) /\ asLong.code # "short"
  <2>1. \E k \in 1 .. 2 : Takes(asLong, d, k, Null)
    BY <1>6, LongOne DEF asLong
  <2> QED
    BY <1>1, <1>6, <2>1 DEF r
<1>7. CASE r = ShortOption(d, text)
  BY <1>7, ShortTakes DEF r
<1> QED
  BY <1>1, <1>4, <1>5, <1>6, <1>7

\* It does the same wherever it sees the same.
LEMMA NewLocal ==
  ASSUME NEW d, NEW e, NEW k, NEW y, Alike(d, e, Seen(k)), 1 <= d.optind, d.optind <= Len(d.words),
         1 <= e.optind,
         d.nextchar = Null, e.nextchar = Null, ~(Plain(d) /\ d.ordering = "REQUIRE_ORDER"),
         Takes(NewWord(d), d, k, y), NewWord(d).code \notin Trouble
  PROVE  NewWord(e) = Returns(Moved(e, e.optind + k, y), NewWord(d).code, NewWord(d).arg)
<1> DEFINE r == NewWord(d)
           q == NewWord(e)
           word == Word(d, d.optind)
           text == Tail(word)
           yes == TRUE
           Known(x, s) ==
             /\ Plain(d) /\ d.ordering # "REQUIRE_ORDER" => s = Returns(Moved(x, x.optind + 1, Null), "1", word)
             /\ ~Plain(d) =>
                  /\ ~d.spec.longs => s = ShortOption(x, text)
                  /\ d.spec.longs /\ text[1] = "-" => s = process_long_option(x, Tail(text), d.spec.longOnly)
                  /\ d.spec.longs /\ text[1] # "-" =>
                       s = IF MayBeLong(d) /\ process_long_option(x, text, yes).code # "short"
                           THEN process_long_option(x, text, yes) ELSE ShortOption(x, text)
<1>1. IsData(d) /\ IsData(e) /\ e.spec = d.spec /\ e.words = d.words /\ e.ordering = d.ordering
  BY DEF Alike
<1>2. d.optind \in Nat /\ e.optind \in Nat /\ Len(d.words) \in Nat
  BY <1>1 DEF IsData
<1>3. k \in 0 .. 3 /\ Took(r, d, k, y) /\ r.code \notin Trouble
  BY DEF Takes
<1>4. 1 <= Seen(k) /\ 0 \in 0 .. Seen(k) - 1 /\ Seen(k) \in Nat
  BY <1>3 DEF Seen
<1>5. e.optind <= Len(d.words) /\ Word(e, e.optind) = word
  <2>1. d.optind + 0 = d.optind /\ e.optind + 0 = e.optind
    BY <1>2
  <2> QED
    BY <1>1, <1>4, <2>1 DEF Alike, Word
<1>6. Known(d, r) /\ Known(e, q)
  <2>1. Known(d, r)
    BY <1>1, NewCases
  <2>2. (Plain(e) <=> Plain(d)) /\ (MayBeLong(e) <=> MayBeLong(d))
    BY <1>1, <1>5 DEF Plain, MayBeLong
  <2>3. LET w == Word(e, e.optind) t == Tail(w) asLong == process_long_option(e, t, TRUE) IN
        /\ Plain(e) /\ e.ordering # "REQUIRE_ORDER" => q = Returns(Moved(e, e.optind + 1, Null), "1", w)
        /\ ~Plain(e) =>
              /\ ~e.spec.longs => q = ShortOption(e, t)
              /\ e.spec.longs /\ t[1] = "-" => q = process_long_option(e, Tail(t), e.spec.longOnly)
              /\ e.spec.longs /\ t[1] # "-" =>
                   q = IF MayBeLong(e) /\ asLong.code # "short" THEN asLong ELSE ShortOption(e, t)
    BY <1>1, <1>5, NewCases
  <2> HIDE DEF r, q, word
  <2> QED
    BY <1>1, <1>5, <2>1, <2>2, <2>3
<1>7. ~Plain(d) => word[2] = text[1]
  BY <1>1, OptionWord
<1> DEFINE aD == process_long_option(d, text, yes)
           aE == process_long_option(e, text, yes)
<1> HIDE DEF r, q, word, text, yes
<1>8. ASSUME NEW j \in 1 .. 3, NEW z, Took(r, d, j, z)
      PROVE  k = j /\ y = z
  <2>1. r.data = Moved(d, d.optind + k, y) /\ r.data = Moved(d, d.optind + j, z)
    BY <1>3, <1>8, ReturnsFields DEF Took
  <2>2. d.optind + k = d.optind + j /\ y = z
    BY <2>1, MovedFields
  <2> QED
    BY <1>2, <1>3, <2>2
<1>9. ASSUME NEW t, NEW long_only, r = process_long_option(d, t, long_only),
             r.code # "short" \/ Word(d, d.optind)[2] = "-"
      PROVE  process_long_option(e, t, long_only) = Returns(Moved(e, e.optind + k, y), r.code, r.arg)
  <2>1. PICK j \in 1 .. 2 : r.code \notin {"-1", "short"} /\ Took(r, d, j, Null)
    BY <1>1, <1>9, LongOne
  <2>2. k = j /\ y = Null /\ Seen(k) = k /\ k \in 1 .. 2
    BY <1>8, <2>1 DEF Seen
  <2>3. LET s == process_long_option(d, t, long_only)
        IN  s.code \notin Trouble \cup {"short"} /\ Took(s, d, k, Null)
    BY <1>3, <1>9, <2>1, <2>2
  <2>4. Alike(d, e, k)
    BY <2>2
  <2> QED
    BY <1>9, <2>2, <2>3, <2>4, LongLocal
<1>10. CASE Plain(d)
  <2>1. r = Returns(Moved(d, d.optind + 1, Null), "1", word)
          /\ q = Returns(Moved(e, e.optind + 1, Null), "1", word)
    BY <1>6, <1>10
  <2>2. r.code = "1" /\ r.arg = word
    BY <2>1, ReturnsFields
  <2>3. Took(r, d, 1, Null)
    BY <2>1, <2>2 DEF Took
  <2>4. k = 1 /\ y = Null
    BY <1>8, <2>3
  <2> QED
    BY <2>1, <2>2, <2>4 DEF r, q
<1>11. CASE ~Plain(d) /\ d.spec.longs /\ text[1] = "-"
  <2>1. r = process_long_option(d, Tail(text), d.spec.longOnly)
          /\ q = process_long_option(e, Tail(text), d.spec.longOnly)
    BY <1>6, <1>11
  <2>2. Word(d, d.optind)[2] = "-"
    BY <1>7, <1>11 DEF word
  <2> QED
    BY <1>9, <2>1, <2>2 DEF r, q
<1>12. ASSUME r = ShortOption(d, text)
       PROVE  ShortOption(e, text) = Returns(Moved(e, e.optind + k, y), r.code, r.arg)
  BY <1>12, ShortLocal DEF r
<1>13. CASE ~Plain(d) /\ ~d.spec.longs
  <2>1. r = ShortOption(d, text) /\ q = ShortOption(e, text)
    BY <1>6, <1>13
  <2> QED
    BY <1>12, <2>1 DEF r, q
<1>14. CASE ~Plain(d) /\ d.spec.longs /\ text[1] # "-" /\ MayBeLong(d) /\ aD.code # "short"
  <2>1. r = aD
    BY <1>6, <1>14
  <2>2. aE = Returns(Moved(e, e.optind + k, y), r.code, r.arg)
    BY <1>9, <1>14, <2>1
  <2>3. aE.code # "short"
    BY <1>14, <2>1, <2>2, ReturnsFields
  <2>4. q = aE
    BY <1>6, <1>14, <2>3
  <2> QED
    BY <2>2, <2>4 DEF r, q
<1>15. CASE ~Plain(d) /\ d.spec.longs /\ text[1] # "-" /\ ~(MayBeLong(d) /\ aD.code # "short")
  <2>1. r = ShortOption(d, text)
    BY <1>6, <1>15
  <2>2. MayBeLong(d) => aE.code = "short"
    <3> SUFFICES ASSUME MayBeLong(d) PROVE aE.code = "short"
      OBVIOUS
    <3>1. aD.code = "short"
      BY <1>15
    <3>2. IsShort(d, text, yes)
      BY <1>1, <3>1, LongTakes DEF aD
    <3>3. IsShort(e, text, yes)
      BY <1>1, <1>5, <3>2 DEF IsShort, word
    <3>4. aE = Returns(e, "short", Null)
      BY <1>1, <3>3, LongCases
    <3> QED
      BY <3>4, ReturnsFields
  <2>3. q = ShortOption(e, text)
    BY <1>6, <1>15, <2>2
  <2> QED
    BY <1>12, <2>1, <2>3 DEF r, q
<1> QED
  BY <1>10, <1>11, <1>13, <1>14, <1>15

------------------------------------------------------------------------------
(***************************************************************************)
(* Permuting.  A state between two calls of a scan is Ready: what was      *)
(* skipped lies from first to last, and the next option will move down to  *)
(* Place.                                                                  *)
(***************************************************************************)
\* d with the arguments placed anew.
Placed(d, argv, f, l, o) ==
  [words |-> d.words, spec |-> d.spec, argv |-> argv, optind |-> o, nextchar |-> d.nextchar,
   first |-> f, last |-> l, ordering |-> d.ordering, initialized |-> d.initialized]

\* Between two calls of a scan.
Ready(d) ==
  /\ IsData(d) /\ d.initialized = TRUE /\ d.ordering = Ordering(d.spec)
  /\ 1 <= d.first /\ d.first <= d.last /\ d.last <= d.optind /\ d.optind <= Len(d.words) + 1
  /\ d.nextchar # Null => d.optind <= Len(d.words)
  /\ d.ordering # "PERMUTE" => d.first = 1 /\ d.last = 1

\* Where the next option will stand when the non-options have moved away.
Place(d) == d.first + (d.optind - d.last)

\* What a placement leaves alone.
LEMMA PlacedFields ==
  ASSUME NEW d, NEW argv, NEW f, NEW l, NEW o
  PROVE  LET p == Placed(d, argv, f, l, o) IN
         /\ p.words = d.words /\ p.spec = d.spec /\ p.argv = argv /\ p.optind = o /\ p.nextchar = d.nextchar
         /\ p.first = f /\ p.last = l /\ p.ordering = d.ordering /\ p.initialized = d.initialized
  BY DEF Placed

\* The assignments of the code as placements.
LEMMA FirstPlaced ==
  ASSUME NEW d, IsData(d), NEW f
  PROVE  [d EXCEPT !.first = f] = Placed(d, d.argv, f, d.last, d.optind)
  BY DEF IsData, Placed

\* An assignment to optind is one.
LEMMA OptindPlaced ==
  ASSUME NEW d, IsData(d), NEW o
  PROVE  [d EXCEPT !.optind = o] = Placed(d, d.argv, d.first, d.last, o)
  BY DEF IsData, Placed

\* Those to optind and last_nonopt are one, in either order.
LEMMA OptindLastPlaced ==
  ASSUME NEW d, IsData(d), NEW o, NEW l
  PROVE  [d EXCEPT !.optind = o, !.last = l] = Placed(d, d.argv, d.first, l, o)
<1>1. [d EXCEPT !.optind = o, !.last = l] = [[d EXCEPT !.optind = o] EXCEPT !.last = l]
  OBVIOUS
<1>2. [d EXCEPT !.optind = o] = Placed(d, d.argv, d.first, d.last, o)
  BY DEF IsData, Placed
<1>3. [Placed(d, d.argv, d.first, d.last, o) EXCEPT !.last = l] = Placed(d, d.argv, d.first, l, o)
  BY DEF Placed
<1> QED
  BY <1>1, <1>2, <1>3

\* The other order.
LEMMA LastOptindPlaced ==
  ASSUME NEW d, IsData(d), NEW l, NEW o
  PROVE  [d EXCEPT !.last = l, !.optind = o] = Placed(d, d.argv, d.first, l, o)
<1>1. [d EXCEPT !.last = l, !.optind = o] = [[d EXCEPT !.last = l] EXCEPT !.optind = o]
  OBVIOUS
<1>2. [d EXCEPT !.last = l] = Placed(d, d.argv, d.first, l, d.optind)
  BY DEF IsData, Placed
<1>3. [Placed(d, d.argv, d.first, l, d.optind) EXCEPT !.optind = o] = Placed(d, d.argv, d.first, l, o)
  BY DEF Placed
<1> QED
  BY <1>1, <1>2, <1>3

\* Those of exchange are one.
LEMMA BlocksPlaced ==
  ASSUME NEW d, IsData(d), NEW argv, NEW f, NEW l
  PROVE  [d EXCEPT !.argv = argv, !.first = f, !.last = l] = Placed(d, argv, f, l, d.optind)
<1>1. [d EXCEPT !.argv = argv, !.first = f, !.last = l] =
            [[[d EXCEPT !.argv = argv] EXCEPT !.first = f] EXCEPT !.last = l]
  OBVIOUS
<1>2. [d EXCEPT !.argv = argv] = Placed(d, argv, d.first, d.last, d.optind)
  BY DEF IsData, Placed
<1>3. [Placed(d, argv, d.first, d.last, d.optind) EXCEPT !.first = f] = Placed(d, argv, f, d.last, d.optind)
  BY DEF Placed
<1>4. [Placed(d, argv, f, d.last, d.optind) EXCEPT !.last = l] = Placed(d, argv, f, l, d.optind)
  BY DEF Placed
<1> QED
  BY <1>1, <1>2, <1>3, <1>4

\* The second of two placements counts.
LEMMA PlacedTwice ==
  ASSUME NEW d, NEW a, NEW f, NEW l, NEW o, NEW b, NEW g, NEW m, NEW p
  PROVE  Placed(Placed(d, a, f, l, o), b, g, m, p) = Placed(d, b, g, m, p)
  BY DEF Placed

\* What a rotation moves where.
LEMMA RotatedAt ==
  ASSUME NEW n \in Nat, NEW a, Array(a, n), NEW b \in Nat, NEW m \in Nat, NEW t \in Nat, Segments(n, b, m, t)
  PROVE  LET r == Rotated(a, b, m, t) IN
         /\ Array(r, n)
         /\ \A i \in 1 .. b - 1 : r[i] = a[i]
         /\ \A i \in b .. b + (t - m) - 1 : i \in 1 .. n /\ i + (m - b) \in m .. t - 1 /\ r[i] = a[i + (m - b)]
         /\ \A i \in b + (t - m) .. t - 1 : i \in 1 .. n /\ i - (t - m) \in b .. m - 1 /\ r[i] = a[i - (t - m)]
         /\ \A i \in t .. n : r[i] = a[i]
<1> DEFINE r == Rotated(a, b, m, t)
<1>1. DOMAIN a = 1 .. n
  BY DEF Array
<1>2. Array(r, n)
  BY <1>1 DEF Rotated, Array
<1>3. \A i \in 1 .. n : r[i] = IF i \in b .. b + (t - m) - 1 THEN a[i + (m - b)]
                               ELSE IF i \in b + (t - m) .. t - 1 THEN a[i - (t - m)] ELSE a[i]
  BY <1>1 DEF Rotated
<1> HIDE DEF r
<1>4. ASSUME NEW i \in 1 .. b - 1 PROVE r[i] = a[i]
  <2>1. i \in 1 .. n /\ i \notin b .. b + (t - m) - 1 /\ i \notin b + (t - m) .. t - 1
    BY DEF Segments
  <2> QED
    BY <1>3, <2>1
<1>5. ASSUME NEW i \in t .. n PROVE r[i] = a[i]
  <2>1. i \in 1 .. n /\ i \notin b .. b + (t - m) - 1 /\ i \notin b + (t - m) .. t - 1
    BY DEF Segments
  <2> QED
    BY <1>3, <2>1
<1>6. ASSUME NEW i \in b .. b + (t - m) - 1
      PROVE i \in 1 .. n /\ i + (m - b) \in m .. t - 1 /\ r[i] = a[i + (m - b)]
  <2>1. i \in 1 .. n /\ i + (m - b) \in m .. t - 1
    BY DEF Segments
  <2> QED
    BY <1>3, <2>1
<1>7. ASSUME NEW i \in b + (t - m) .. t - 1
      PROVE i \in 1 .. n /\ i - (t - m) \in b .. m - 1 /\ r[i] = a[i - (t - m)]
  <2>1. i \in 1 .. n /\ i - (t - m) \in b .. m - 1 /\ i \notin b .. b + (t - m) - 1
    BY DEF Segments
  <2> QED
    BY <1>3, <2>1
<1> QED
  BY <1>2, <1>4, <1>5, <1>6, <1>7 DEF r

\* If a segment is empty, nothing moves.
LEMMA RotatesNothing ==
  ASSUME NEW n \in Nat, NEW a, Array(a, n), NEW b \in Nat, NEW m \in Nat, NEW t \in Nat,
         Segments(n, b, m, t), b = m \/ m = t
  PROVE  Rotated(a, b, m, t) = a
<1> DEFINE r == Rotated(a, b, m, t)
<1>1. /\ Array(r, n)
      /\ \A i \in 1 .. b - 1 : r[i] = a[i]
      /\ \A i \in b .. b + (t - m) - 1 : r[i] = a[i + (m - b)]
      /\ \A i \in b + (t - m) .. t - 1 : r[i] = a[i - (t - m)]
      /\ \A i \in t .. n : r[i] = a[i]
  BY RotatedAt
<1> HIDE DEF r
<1>2. ASSUME NEW i \in 1 .. n PROVE r[i] = a[i]
  <2>1. CASE i \in 1 .. b - 1 \/ i \in t .. n
    BY <1>1, <2>1
  <2>2. CASE b = m /\ i \in b .. t - 1
    <3>1. i \in b .. b + (t - m) - 1 /\ i + (m - b) = i
      BY <2>2
    <3> QED
      BY <1>1, <3>1
  <2>3. CASE m = t /\ i \in b .. t - 1
    <3>1. i \in b + (t - m) .. t - 1 /\ i - (t - m) = i
      BY <2>3
    <3> QED
      BY <1>1, <3>1
  <2> QED
    BY <2>1, <2>2, <2>3 DEF Segments
<1> QED
  BY <1>1, <1>2 DEF Array, r

\* A rotation leaves arguments in every place.
LEMMA PlacedTyped ==
  ASSUME NEW d, IsData(d), NEW b \in Nat, NEW m \in Nat, NEW t \in Nat, Segments(Len(d.words), b, m, t),
         NEW f \in Nat, NEW l \in Nat, NEW o \in Nat
  PROVE  IsData(Placed(d, Rotated(d.argv, b, m, t), f, l, o))
<1> DEFINE r == Rotated(d.argv, b, m, t)
           n == Len(d.words)
           p == Placed(d, r, f, l, o)
<1>1. n \in Nat /\ Array(d.argv, n) /\ \A i \in 1 .. n : d.argv[i] \in 1 .. n
  BY DEF IsData
<1>2. /\ Array(r, n)
      /\ \A i \in 1 .. b - 1 : r[i] = d.argv[i]
      /\ \A i \in b .. b + (t - m) - 1 : i \in 1 .. n /\ i + (m - b) \in m .. t - 1
         /\ r[i] = d.argv[i + (m - b)]
      /\ \A i \in b + (t - m) .. t - 1 : i \in 1 .. n /\ i - (t - m) \in b .. m - 1
         /\ r[i] = d.argv[i - (t - m)]
      /\ \A i \in t .. n : r[i] = d.argv[i]
  <2> DEFINE a == d.argv
  <2>1. n \in Nat /\ Array(a, n) /\ Segments(n, b, m, t) /\ r = Rotated(a, b, m, t)
    BY <1>1
  <2> HIDE DEF a, n, r
  <2>2. LET q == Rotated(a, b, m, t) IN
        /\ Array(q, n)
        /\ \A i \in 1 .. b - 1 : q[i] = a[i]
        /\ \A i \in b .. b + (t - m) - 1 : i \in 1 .. n /\ i + (m - b) \in m .. t - 1 /\ q[i] = a[i + (m - b)]
        /\ \A i \in b + (t - m) .. t - 1 : i \in 1 .. n /\ i - (t - m) \in b .. m - 1 /\ q[i] = a[i - (t - m)]
        /\ \A i \in t .. n : q[i] = a[i]
    BY <2>1, RotatedAt
  <2> QED
    BY <2>1, <2>2 DEF a
<1> HIDE DEF r
<1>3. ASSUME NEW i \in 1 .. n PROVE r[i] \in 1 .. n
  <2>1. CASE i \in 1 .. b - 1 \/ i \in t .. n
    BY <1>1, <1>2, <2>1
  <2>2. CASE i \in b .. b + (t - m) - 1
    <3>1. i + (m - b) \in 1 .. n
      BY <1>1, <2>2 DEF Segments
    <3> QED
      BY <1>1, <1>2, <2>2, <3>1
  <2>3. CASE i \in b + (t - m) .. t - 1
    <3>1. i - (t - m) \in 1 .. n
      BY <1>1, <2>3 DEF Segments
    <3> QED
      BY <1>1, <1>2, <2>3, <3>1
  <2> QED
    BY <1>1, <2>1, <2>2, <2>3
<1>4. p = [words |-> p.words, spec |-> p.spec, argv |-> p.argv, optind |-> p.optind, nextchar |-> p.nextchar,
           first |-> p.first, last |-> p.last, ordering |-> p.ordering, initialized |-> p.initialized]
  BY DEF Placed
<1>5. /\ p.words = d.words /\ p.spec = d.spec /\ p.argv = r /\ p.optind = o /\ p.first = f /\ p.last = l
  BY PlacedFields
<1> HIDE DEF p
<1>6. IsData(p)
  BY <1>2, <1>3, <1>4, <1>5 DEF IsData
<1> QED
  BY <1>6 DEF p, r

\* exchange as a placement.
LEMMA Exchanged ==
  ASSUME NEW d, IsData(d), Segments(Len(d.words), d.first, d.last, d.optind)
  PROVE  exchange(d) = Placed(d, Rotated(d.argv, d.first, d.last, d.optind), Place(d), d.optind, d.optind)
<1> DEFINE a == Swaps(d.argv, d.first, d.last, d.optind)
           f == d.first + (d.optind - d.last)
           l == d.optind
<1>1. exchange(d) = [d EXCEPT !.argv = a, !.first = @ + (d.optind - d.last), !.last = d.optind]
  BY DEF exchange
<1>2. [d EXCEPT !.argv = a, !.first = @ + (d.optind - d.last), !.last = d.optind] =
            [d EXCEPT !.argv = a, !.first = f, !.last = l]
  BY DEF IsData
<1>3. a = Rotated(d.argv, d.first, d.last, d.optind)
  BY SwapsRotate DEF IsData
<1> HIDE DEF a, f, l
<1>4. [d EXCEPT !.argv = a, !.first = f, !.last = l] = Placed(d, a, f, l, d.optind)
  BY BlocksPlaced
<1> QED
  BY <1>1, <1>2, <1>3, <1>4 DEF f, l, Place

\* The segments of a state between two calls.
LEMMA ReadySegments ==
  ASSUME NEW d, Ready(d)
  PROVE  /\ IsData(d) /\ Segments(Len(d.words), d.first, d.last, d.optind) /\ Array(d.argv, Len(d.words))
         /\ Len(d.words) \in Nat /\ d.first \in Nat /\ d.last \in Nat /\ d.optind \in Nat
         /\ Place(d) \in Nat /\ d.first <= Place(d) /\ Place(d) <= d.optind
         /\ 1 <= d.first /\ d.first <= d.last /\ d.last <= d.optind /\ d.optind <= Len(d.words) + 1
         /\ 1 <= d.optind /\ 1 <= Place(d) /\ d.nextchar # Null => d.optind <= Len(d.words)
  BY DEF Ready, IsData, Segments, Place

\* Where the scan goes on: the options so far stand together.
LEMMA GatheredForm ==
  ASSUME NEW d, Ready(d)
  PROVE  \E l \in Nat : Gathered(d) = Placed(d, Rotated(d.argv, d.first, d.last, d.optind), Place(d), l, d.optind)
<1> DEFINE r == Rotated(d.argv, d.first, d.last, d.optind)
           o == d.optind
<1>1. /\ IsData(d) /\ Segments(Len(d.words), d.first, d.last, d.optind) /\ Array(d.argv, Len(d.words))
      /\ Len(d.words) \in Nat /\ d.first \in Nat /\ d.last \in Nat /\ d.optind \in Nat
  BY ReadySegments
<1>2. CASE d.first # d.last /\ d.last # d.optind
  <2>1. Gathered(d) = exchange(d)
    BY <1>2 DEF Gathered
  <2> QED
    BY <1>1, <2>1, Exchanged
<1>3. CASE d.first = d.last /\ d.last # d.optind
  <2>1. Gathered(d) = [d EXCEPT !.first = o]
    BY <1>3 DEF Gathered
  <2>2. r = d.argv
    BY <1>1, <1>3, RotatesNothing
  <2>3. o = Place(d)
    BY <1>1, <1>3 DEF Place
  <2> HIDE DEF o, r
  <2>4. [d EXCEPT !.first = o] = Placed(d, d.argv, o, d.last, d.optind)
    BY <1>1, FirstPlaced
  <2> QED
    BY <1>1, <2>1, <2>2, <2>3, <2>4 DEF r
<1>4. CASE d.last = d.optind
  <2>1. Gathered(d) = d
    BY <1>4 DEF Gathered
  <2>2. r = d.argv
    BY <1>1, <1>4, RotatesNothing
  <2>3. d.first = Place(d)
    BY <1>1, <1>4 DEF Place
  <2>4. d = Placed(d, d.argv, d.first, d.last, d.optind)
    BY <1>1 DEF IsData, Placed
  <2> QED
    BY <1>1, <2>1, <2>2, <2>3, <2>4
<1> QED
  BY <1>2, <1>3, <1>4

\* Skipping non-options (getopt-common.h:486-503).
LEMMA PermutedForm ==
  ASSUME NEW d, Ready(d), d.ordering = "PERMUTE"
  PROVE  \E next \in Nat :
           /\ d.optind <= next /\ next <= Len(d.words) + 1
           /\ Permuted(d) = Placed(d, Rotated(d.argv, d.first, d.last, d.optind), Place(d), next, next)
           /\ \A i \in d.optind .. next - 1 : NONOPTION_P(Word(d, i))
           /\ next <= Len(d.words) => ~NONOPTION_P(Word(d, next))
<1> DEFINE r == Rotated(d.argv, d.first, d.last, d.optind)
           n == Len(d.words)
           e == Gathered(d)
           S == {argc(d)} \cup {i \in e.optind .. argc(d) - 1 : ~NONOPTION_P(Word(e, i))}
           next == Min(S)
<1>1. /\ IsData(d) /\ Segments(n, d.first, d.last, d.optind) /\ Array(d.argv, n)
      /\ n \in Nat /\ d.first \in Nat /\ d.last \in Nat /\ d.optind \in Nat /\ Place(d) \in Nat
  BY ReadySegments
<1>2. PICK l \in Nat : e = Placed(d, r, Place(d), l, d.optind)
  BY GatheredForm
<1>3. e.optind = d.optind /\ e.words = d.words /\ e.argv = r /\ e.first = Place(d)
  BY <1>2, PlacedFields
<1>4. IsData(e)
  BY <1>1, <1>2, PlacedTyped
<1>5. \A i \in d.optind .. n : Word(e, i) = Word(d, i)
  <2>1. \A i \in d.optind .. n : r[i] = d.argv[i]
    BY <1>1, RotatedAt
  <2> HIDE DEF r, e
  <2> QED
    BY <1>3, <2>1 DEF Word
<1>6. Permuted(d) = [e EXCEPT !.optind = next, !.last = next]
  BY DEF Permuted
<1>7. argc(d) = n + 1
  BY DEF argc
<1> HIDE DEF e
<1>8. S = {n + 1} \cup {i \in d.optind .. n : ~NONOPTION_P(Word(d, i))}
  <2>1. S = {n + 1} \cup {i \in d.optind .. n : ~NONOPTION_P(Word(e, i))}
    BY <1>1, <1>3, <1>7
  <2> QED
    BY <1>5, <2>1
<1>9. S \subseteq Nat /\ S # {} /\ n + 1 \in S
  BY <1>1, <1>8
<1>10. next \in S /\ \A x \in S : next <= x
  <2> HIDE DEF S
  <2> QED
    BY <1>9, LeastOf
<1>11. Permuted(d) = Placed(d, r, Place(d), next, next)
  <2> HIDE DEF next, r
  <2>1. [e EXCEPT !.optind = next, !.last = next] = Placed(e, e.argv, e.first, next, next)
    BY <1>4, OptindLastPlaced
  <2>2. Placed(e, e.argv, e.first, next, next) = Placed(d, r, Place(d), next, next)
    BY <1>2, <1>3, PlacedTwice
  <2> QED
    BY <1>6, <2>1, <2>2
<1> HIDE DEF next
<1>12. next \in Nat /\ d.optind <= next /\ next <= n + 1
  BY <1>1, <1>8, <1>9, <1>10, <1>1 DEF Ready
<1>13. ASSUME NEW i \in d.optind .. next - 1 PROVE NONOPTION_P(Word(d, i))
  <2>1. i \in d.optind .. n /\ i < next
    BY <1>1, <1>12
  <2>2. i \notin S
    <3> HIDE DEF S
    <3> QED
      BY <1>1, <1>10, <1>12, <2>1
  <2> QED
    BY <1>8, <2>1, <2>2
<1>14. next <= n => ~NONOPTION_P(Word(d, next))
  BY <1>1, <1>8, <1>10
<1> HIDE DEF r
<1> QED
  BY <1>11, <1>12, <1>13, <1>14 DEF r

\* What is so found, in whatever ordering.
LEMMA Finding ==
  ASSUME NEW d, Ready(d), d.nextchar = Null
  PROVE  LET g == Permuted(d) IN
         /\ Ready(g) /\ g.nextchar = Null /\ g.words = d.words /\ g.spec = d.spec /\ g.ordering = d.ordering
         /\ Place(g) = Place(d) /\ d.optind <= g.optind
         /\ d.ordering # "PERMUTE" => g = d
         /\ d.ordering = "PERMUTE" =>
              /\ g = Placed(d, Rotated(d.argv, d.first, d.last, d.optind), Place(d), g.optind, g.optind)
              /\ \A i \in d.optind .. g.optind - 1 : NONOPTION_P(Word(d, i))
              /\ g.optind <= Len(d.words) => ~Plain(g)
<1> DEFINE n == Len(d.words)
           r == Rotated(d.argv, d.first, d.last, d.optind)
<1>1. /\ IsData(d) /\ Segments(n, d.first, d.last, d.optind) /\ Array(d.argv, n)
      /\ n \in Nat /\ d.first \in Nat /\ d.last \in Nat /\ d.optind \in Nat
      /\ Place(d) \in Nat /\ d.first <= Place(d) /\ Place(d) <= d.optind
  BY ReadySegments
<1>2. CASE d.ordering # "PERMUTE"
  <2>1. Permuted(d) = d
    BY <1>2 DEF Permuted
  <2> QED
    BY <1>1, <1>2, <2>1
<1>3. CASE d.ordering = "PERMUTE"
  <2>1. PICK next \in Nat :
           /\ d.optind <= next /\ next <= n + 1
           /\ Permuted(d) = Placed(d, r, Place(d), next, next)
           /\ \A i \in d.optind .. next - 1 : NONOPTION_P(Word(d, i))
           /\ next <= n => ~NONOPTION_P(Word(d, next))
    BY <1>3, PermutedForm
  <2> DEFINE g == Permuted(d)
  <2>2. /\ g.words = d.words /\ g.spec = d.spec /\ g.argv = r /\ g.optind = next /\ g.nextchar = d.nextchar
        /\ g.first = Place(d) /\ g.last = next /\ g.ordering = d.ordering /\ g.initialized = d.initialized
    <3> HIDE DEF r
    <3> QED
      BY <2>1, PlacedFields
  <2>3. IsData(g)
    BY <1>1, <2>1, PlacedTyped
  <2>4. next <= n => Word(g, next) = Word(d, next)
    <3>1. \A i \in d.optind .. n : r[i] = d.argv[i]
      BY <1>1, RotatedAt
    <3> HIDE DEF r, g
    <3> QED
      BY <1>1, <2>1, <2>2, <3>1 DEF Word
  <2>5. g = Placed(d, r, Place(d), g.optind, g.optind)
    <3> HIDE DEF r
    <3> QED
      BY <2>1, <2>2
  <2> HIDE DEF g, r
  <2>6. Ready(g)
    <3>1. d.initialized = TRUE /\ d.ordering = Ordering(d.spec) /\ 1 <= d.first
      BY DEF Ready
    <3>2. g.initialized = TRUE /\ g.ordering = Ordering(g.spec) /\ g.ordering = "PERMUTE" /\ g.nextchar = Null
      BY <1>3, <2>2, <3>1
    <3>3. 1 <= g.first /\ g.first <= g.last /\ g.last <= g.optind /\ g.optind <= Len(g.words) + 1
      BY <1>1, <2>1, <2>2, <3>1
    <3> QED
      BY <2>3, <3>2, <3>3 DEF Ready
  <2>7. Place(g) = Place(d)
    BY <1>1, <2>1, <2>2 DEF Place
  <2>8. g.optind <= n => ~Plain(g)
    BY <2>1, <2>2, <2>4 DEF Plain
  <2> QED
    BY <1>3, <2>1, <2>2, <2>5, <2>6, <2>7, <2>8 DEF g, r
<1> QED
  BY <1>2, <1>3

\* "--" ends the options and joins them.
Dashes == <<"-", "-">>
AtDashes(d) == d.optind <= Len(d.words) /\ Word(d, d.optind) = Dashes

\* At "--" the skipped non-options go behind it, and the scan is over.
LEMMA DashesForm ==
  ASSUME NEW d, Ready(d), AtDashes(d)
  PROVE  EndOfOptions(d) = Placed(d, Rotated(d.argv, d.first, d.last, d.optind + 1), Place(d) + 1, Len(d.words) + 1, Len(d.words) + 1)
<1> DEFINE n == Len(d.words)
           o == d.optind + 1
           e == [d EXCEPT !.optind = @ + 1]
           f == CASE e.first # e.last /\ e.last # e.optind -> exchange(e)
                  [] e.first = e.last -> [e EXCEPT !.first = e.optind]
                  [] OTHER -> e
           r == Rotated(d.argv, d.first, d.last, o)
           c == argc(d)
<1>1. /\ IsData(d) /\ Segments(n, d.first, d.last, d.optind) /\ Array(d.argv, n)
      /\ n \in Nat /\ d.first \in Nat /\ d.last \in Nat /\ d.optind \in Nat
  BY ReadySegments
<1>2. o \in Nat /\ Segments(n, d.first, d.last, o) /\ d.last < o /\ c = n + 1 /\ d.optind # c
  BY <1>1 DEF Segments, AtDashes, argc
<1>3. e = Placed(d, d.argv, d.first, d.last, o)
  <2>1. e = [d EXCEPT !.optind = o]
    BY <1>1 DEF IsData
  <2> HIDE DEF o
  <2> QED
    BY <1>1, <2>1, OptindPlaced
<1>4. EndOfOptions(d) = [f EXCEPT !.last = c, !.optind = c]
  BY <1>2, Zenon DEF EndOfOptions, AtDashes, Dashes
<1> HIDE DEF o, e, c
<1>5. /\ e.words = d.words /\ e.argv = d.argv /\ e.first = d.first /\ e.last = d.last /\ e.optind = o
  BY <1>3, PlacedFields
<1>6. IsData(e)
  <2>1. Rotated(d.argv, d.first, d.first, d.first) = d.argv /\ Segments(n, d.first, d.first, d.first)
    <3>1. Segments(n, d.first, d.first, d.first)
      BY <1>1 DEF Segments
    <3> QED
      BY <1>1, <3>1, RotatesNothing
  <2>2. IsData(Placed(d, Rotated(d.argv, d.first, d.first, d.first), d.first, d.last, o))
    BY <1>1, <1>2, <2>1, PlacedTyped
  <2> QED
    BY <1>3, <2>1, <2>2
<1>7. IsData(f) /\ \E l \in Nat : f = Placed(d, r, d.first + (o - d.last), l, o)
  <2>1. IsData(Placed(d, r, d.first + (o - d.last), o, o))
          /\ IsData(Placed(d, r, d.first + (o - d.last), d.last, o))
    <3>1. d.first + (o - d.last) \in Nat
      BY <1>1, <1>2
    <3> QED
      BY <1>1, <1>2, <3>1, PlacedTyped
  <2>2. CASE d.first # d.last
    <3>1. f = exchange(e)
      BY <1>1, <1>2, <1>5, <2>2
    <3>2. exchange(e) = Placed(e, Rotated(e.argv, e.first, e.last, e.optind), Place(e), e.optind, e.optind)
      BY <1>2, <1>5, <1>6, Exchanged
    <3>3. exchange(e) = Placed(e, r, d.first + (o - d.last), o, o)
      BY <1>5, <3>2 DEF Place
    <3>4. Placed(e, r, d.first + (o - d.last), o, o) = Placed(d, r, d.first + (o - d.last), o, o)
      BY <1>3, PlacedTwice
    <3> QED
      BY <1>2, <2>1, <3>1, <3>3, <3>4
  <2>3. CASE d.first = d.last
    <3>1. f = [e EXCEPT !.first = o]
      BY <1>5, <2>3
    <3>2. [e EXCEPT !.first = o] = Placed(e, e.argv, o, e.last, e.optind)
      BY <1>6, FirstPlaced
    <3>3. Placed(e, e.argv, o, e.last, e.optind) = Placed(d, d.argv, o, d.last, o)
      BY <1>3, <1>5, PlacedTwice
    <3>4. r = d.argv
      BY <1>1, <1>2, <2>3, RotatesNothing
    <3>5. o = d.first + (o - d.last)
      BY <1>1, <1>2, <2>3
    <3>6. f = Placed(d, r, d.first + (o - d.last), d.last, o)
      BY <3>1, <3>2, <3>3, <3>4, <3>5
    <3> QED
      BY <1>1, <2>1, <3>6
  <2> QED
    BY <2>2, <2>3
<1> HIDE DEF f
<1>8. PICK l \in Nat : f = Placed(d, r, d.first + (o - d.last), l, o)
  BY <1>7
<1>9. [f EXCEPT !.last = c, !.optind = c] = Placed(f, f.argv, f.first, c, c)
  BY <1>7, LastOptindPlaced
<1>10. Placed(f, f.argv, f.first, c, c) = Placed(d, r, d.first + (o - d.last), c, c)
  <2> HIDE DEF r
  <2>1. f.argv = r /\ f.first = d.first + (o - d.last)
    BY <1>8, PlacedFields
  <2> QED
    BY <1>8, <2>1, PlacedTwice
<1>11. d.first + (o - d.last) = Place(d) + 1
  BY <1>1 DEF Place, o
<1> QED
  BY <1>2, <1>4, <1>9, <1>10, <1>11 DEF o

\* Elsewhere the check for it changes nothing.
LEMMA NoDashes ==
  ASSUME NEW d, Ready(d), ~AtDashes(d)
  PROVE  EndOfOptions(d) = d
<1>1. Len(d.words) \in Nat /\ d.optind \in Nat /\ d.optind <= Len(d.words) + 1
  BY ReadySegments DEF Ready
<1>2. d.optind = argc(d) \/ Word(d, d.optind) # Dashes
  BY <1>1 DEF AtDashes, argc
<1> QED
  BY <1>2, Zenon DEF EndOfOptions, Dashes

------------------------------------------------------------------------------
(***************************************************************************)
(* How a scan starts, what a call does, and how a scan ends.               *)
(***************************************************************************)
LEMMA LastFirstPlaced ==
  ASSUME NEW d, IsData(d), NEW l, NEW f
  PROVE  [d EXCEPT !.last = l, !.first = f] = Placed(d, d.argv, f, l, d.optind)
<1>1. [d EXCEPT !.last = l, !.first = f] = [[d EXCEPT !.last = l] EXCEPT !.first = f]
  OBVIOUS
<1>2. [d EXCEPT !.last = l] = Placed(d, d.argv, d.first, l, d.optind)
  BY DEF IsData, Placed
<1>3. [Placed(d, d.argv, d.first, l, d.optind) EXCEPT !.first = f] = Placed(d, d.argv, f, l, d.optind)
  BY DEF Placed
<1> QED
  BY <1>1, <1>2, <1>3

\* A caller's optind (getopt-common.h:479-484).
LEMMA RationalForm ==
  ASSUME NEW d, IsData(d)
  PROVE  Rational(d) = Placed(d, d.argv, IF d.first > d.optind THEN d.optind ELSE d.first,
                              IF d.last > d.optind THEN d.optind ELSE d.last, d.optind)
<1> DEFINE f == IF d.first > d.optind THEN d.optind ELSE d.first
           l == IF d.last > d.optind THEN d.optind ELSE d.last
<1>1. Rational(d) = [d EXCEPT !.last = l, !.first = f]
  BY DEF Rational, IsData
<1> HIDE DEF f, l
<1>2. [d EXCEPT !.last = l, !.first = f] = Placed(d, d.argv, f, l, d.optind)
  BY LastFirstPlaced
<1> QED
  BY <1>1, <1>2 DEF f, l

\* Between two calls nothing needs to be put right first.
LEMMA Called ==
  ASSUME NEW d, Ready(d)
  PROVE  getopt_internal_r(d) = IF d.nextchar # Null THEN ShortOption(d, d.nextchar)
                                ELSE NewWord(EndOfOptions(Permuted(d)))
<1>1. IsData(d) /\ d.first <= d.optind /\ d.last <= d.optind /\ d.first \in Nat /\ d.last \in Nat
        /\ d.optind \in Nat
  <2>1. d.first <= d.last /\ d.last <= d.optind
    BY DEF Ready
  <2> QED
    BY <2>1, ReadySegments
<1>2. Rational(d) = d
  <2>1. d = Placed(d, d.argv, d.first, d.last, d.optind)
    BY <1>1 DEF IsData, Placed
  <2>2. ~(d.first > d.optind) /\ ~(d.last > d.optind)
    BY <1>1
  <2> QED
    BY <1>1, <2>1, <2>2, RationalForm
<1>3. d.optind # 0 /\ d.initialized
  BY <1>1 DEF Ready
<1> DEFINE e == IF d.optind = 0 \/ ~d.initialized THEN getopt_initialize(d) ELSE d
<1>4. getopt_internal_r(d) = IF e.nextchar # <<>> THEN ShortOption(e, e.nextchar)
                             ELSE NewWord(EndOfOptions(Permuted(Rational(e))))
  BY Zenon DEF getopt_internal_r
<1>5. e = d
  BY <1>3
<1> HIDE DEF e
<1> QED
  BY <1>2, <1>4, <1>5 DEF Null

\* The end of the arguments (getopt-common.h:524-533).
LEMMA OverForm ==
  ASSUME NEW d, IsData(d), d.optind = Len(d.words) + 1
  PROVE  NewWord(d) = Returns(Placed(d, d.argv, d.first, d.last, IF d.first # d.last THEN d.first ELSE d.optind), "-1", Null)
<1> DEFINE o == IF d.first # d.last THEN d.first ELSE d.optind
           over == d.optind = argc(d)
           end == Returns([d EXCEPT !.optind = IF d.first # d.last THEN d.first ELSE @], "-1", Null)
           word == Word(d, d.optind)
           text == Tail(word)
           asLong == process_long_option(d, text, TRUE)
           other == IF ~d.spec.longs THEN ShortOption(d, text)
                    ELSE IF text[1] = "-" THEN process_long_option(d, Tail(text), d.spec.longOnly)
                    ELSE IF d.spec.longOnly /\ (Len(word) > 2 \/ text[1] \notin DOMAIN d.spec.short)
                            /\ asLong.code # "short" THEN asLong
                    ELSE ShortOption(d, text)
           plain == IF d.ordering = "REQUIRE_ORDER" THEN Returns(d, "-1", Null)
                    ELSE Returns([d EXCEPT !.optind = @ + 1], "1", word)
           skip == NONOPTION_P(word)
<1>1. NewWord(d) = CASE over -> end [] ~over /\ skip -> plain [] OTHER -> other
  BY Zenon DEF NewWord
<1>2. over
  BY DEF argc
<1> HIDE DEF over, end, plain, other, skip
<1>3. NewWord(d) = end
  BY <1>1, <1>2
<1>4. [d EXCEPT !.optind = IF d.first # d.last THEN d.first ELSE @] = [d EXCEPT !.optind = o]
  BY DEF IsData
<1> HIDE DEF o
<1>5. [d EXCEPT !.optind = o] = Placed(d, d.argv, d.first, d.last, o)
  BY OptindPlaced
<1> QED
  BY <1>3, <1>4, <1>5 DEF end, o

\* A non-option where the order counts (getopt-common.h:535-540).
LEMMA StopForm ==
  ASSUME NEW d, IsData(d), d.optind <= Len(d.words), Plain(d), d.ordering = "REQUIRE_ORDER"
  PROVE  NewWord(d) = Returns(d, "-1", Null)
<1> DEFINE over == d.optind = argc(d)
           end == Returns([d EXCEPT !.optind = IF d.first # d.last THEN d.first ELSE @], "-1", Null)
           word == Word(d, d.optind)
           text == Tail(word)
           asLong == process_long_option(d, text, TRUE)
           other == IF ~d.spec.longs THEN ShortOption(d, text)
                    ELSE IF text[1] = "-" THEN process_long_option(d, Tail(text), d.spec.longOnly)
                    ELSE IF d.spec.longOnly /\ (Len(word) > 2 \/ text[1] \notin DOMAIN d.spec.short)
                            /\ asLong.code # "short" THEN asLong
                    ELSE ShortOption(d, text)
           plain == IF d.ordering = "REQUIRE_ORDER" THEN Returns(d, "-1", Null)
                    ELSE Returns([d EXCEPT !.optind = @ + 1], "1", word)
           skip == NONOPTION_P(word)
<1>1. NewWord(d) = CASE over -> end [] ~over /\ skip -> plain [] OTHER -> other
  BY Zenon DEF NewWord
<1>2. ~over /\ skip /\ plain = Returns(d, "-1", Null)
  BY DEF argc, IsData, Plain
<1> HIDE DEF over, end, plain, other, skip
<1> QED
  BY <1>1, <1>2

\* How a scan ends, or goes on.
LEMMA CallCases ==
  ASSUME NEW d, Ready(d), d.nextchar = Null
  PROVE  LET g == Permuted(d)
             n == Len(d.words)
             r == getopt_internal_r(d) IN
         /\ AtDashes(g) =>
              r = Returns(Placed(g, Rotated(g.argv, g.first, g.last, g.optind + 1), Place(d) + 1, n + 1, Place(d) + 1), "-1", Null)
         /\ g.optind = n + 1 => r = Returns(Placed(g, g.argv, g.first, g.last, Place(d)), "-1", Null)
         /\ g.optind <= n /\ ~AtDashes(g) /\ Plain(g) /\ g.ordering = "REQUIRE_ORDER" =>
              r = Returns(g, "-1", Null)
         /\ g.optind <= n /\ ~AtDashes(g) => r = NewWord(g)
<1> DEFINE g == Permuted(d)
           n == Len(d.words)
           r == getopt_internal_r(d)
<1>1. /\ Ready(g) /\ g.nextchar = Null /\ g.words = d.words /\ Place(g) = Place(d)
      /\ d.ordering # "PERMUTE" => g = d
      /\ d.ordering = "PERMUTE" => g.optind = g.last
  <2>1. /\ Ready(g) /\ g.nextchar = Null /\ g.words = d.words /\ Place(g) = Place(d)
        /\ d.ordering # "PERMUTE" => g = d
        /\ d.ordering = "PERMUTE" =>
             g = Placed(d, Rotated(d.argv, d.first, d.last, d.optind), Place(d), g.optind, g.optind)
    BY Finding
  <2>2. d.ordering = "PERMUTE" => g.optind = g.last
    <3> DEFINE a == Rotated(d.argv, d.first, d.last, d.optind) o == g.optind f == Place(d)
    <3>1. Placed(d, a, f, o, o).last = o
      BY PlacedFields
    <3> QED
      BY <2>1, <3>1
  <2> QED
    BY <2>1, <2>2
<1>2. r = NewWord(EndOfOptions(g))
  BY Called
<1> HIDE DEF g, r
<1>3. /\ IsData(g) /\ Segments(n, g.first, g.last, g.optind)
      /\ n \in Nat /\ g.first \in Nat /\ g.last \in Nat /\ g.optind \in Nat /\ Place(g) \in Nat
         /\ Place(g) <= g.optind
  BY <1>1, ReadySegments
<1>4. ASSUME AtDashes(g)
      PROVE  r = Returns(Placed(g, Rotated(g.argv, g.first, g.last, g.optind + 1), Place(d) + 1, n + 1, Place(d) + 1), "-1", Null)
  <2> DEFINE a == Rotated(g.argv, g.first, g.last, g.optind + 1)
             p == Place(d) + 1
             e == Placed(g, a, p, n + 1, n + 1)
  <2>1. EndOfOptions(g) = e
    BY <1>1, <1>4, DashesForm
  <2>2. Segments(n, g.first, g.last, g.optind + 1) /\ g.optind + 1 \in Nat /\ p \in Nat /\ n + 1 \in Nat
    BY <1>1, <1>3, <1>4 DEF Segments, AtDashes
  <2>3. IsData(e)
    BY <1>1, <1>3, <2>2, PlacedTyped
  <2> HIDE DEF a, p
  <2>4. e.words = d.words /\ e.optind = n + 1 /\ e.first = p /\ e.last = n + 1 /\ e.argv = a
    BY <1>1, PlacedFields
  <2> HIDE DEF e
  <2>5. NewWord(e) = Returns(Placed(e, a, p, n + 1, IF p # n + 1 THEN p ELSE n + 1), "-1", Null)
    BY <2>3, <2>4, OverForm
  <2>6. NewWord(e) = Returns(Placed(e, a, p, n + 1, p), "-1", Null)
    BY <2>5
  <2>7. Placed(e, a, p, n + 1, p) = Placed(g, a, p, n + 1, p)
    BY PlacedTwice DEF e
  <2> QED
    BY <1>2, <2>1, <2>6, <2>7 DEF a, p
<1>5. ASSUME g.optind = n + 1 PROVE r = Returns(Placed(g, g.argv, g.first, g.last, Place(d)), "-1", Null)
  <2>1. ~AtDashes(g)
    BY <1>1, <1>3, <1>5 DEF AtDashes
  <2>2. EndOfOptions(g) = g
    BY <1>1, <2>1, NoDashes
  <2>3. NewWord(g) = Returns(Placed(g, g.argv, g.first, g.last, IF g.first # g.last THEN g.first ELSE g.optind), "-1", Null)
    BY <1>1, <1>3, <1>5, OverForm
  <2>4. (IF g.first # g.last THEN g.first ELSE g.optind) = Place(d)
    <3>1. d.ordering # "PERMUTE" => g.first = 1 /\ g.last = 1
      BY <1>1 DEF Ready
    <3> QED
      BY <1>1, <1>3, <3>1 DEF Place
  <2> QED
    BY <1>2, <2>2, <2>3, <2>4
<1>6. ASSUME g.optind <= n, ~AtDashes(g) PROVE r = NewWord(g)
  BY <1>1, <1>2, <1>6, NoDashes
<1>7. ASSUME g.optind <= n, ~AtDashes(g), Plain(g), g.ordering = "REQUIRE_ORDER"
      PROVE r = Returns(g, "-1", Null)
  BY <1>1, <1>3, <1>6, <1>7, StopForm
<1> QED
  BY <1>4, <1>5, <1>6, <1>7 DEF g, r

\* Where a scan starts: before the first one, and when optind has been set to 0 or 1.
AtStart(d) ==
  /\ IsData(d) /\ d.optind \in {0, 1} /\ d.initialized \in BOOLEAN
  /\ d.initialized => d.nextchar = Null /\ 1 <= d.first /\ 1 <= d.last /\ d.ordering = Ordering(d.spec)
Fresh(d) ==
  [words |-> d.words, spec |-> d.spec, argv |-> d.argv, optind |-> 1, nextchar |-> Null,
   first |-> 1, last |-> 1, ordering |-> Ordering(d.spec), initialized |-> TRUE]

\* After the initialisation a scan stands at the first argument and has skipped nothing.
LEMMA FreshReady ==
  ASSUME NEW d, IsData(d)
  PROVE  /\ Ready(Fresh(d)) /\ Fresh(d).words = d.words /\ Fresh(d).spec = d.spec /\ Fresh(d).argv = d.argv
         /\ Fresh(d).optind = 1 /\ Fresh(d).nextchar = Null /\ Fresh(d).first = 1 /\ Fresh(d).last = 1
<1> DEFINE e == Fresh(d)
<1>1. /\ e.words = d.words /\ e.spec = d.spec /\ e.argv = d.argv /\ e.optind = 1 /\ e.nextchar = Null
      /\ e.first = 1 /\ e.last = 1 /\ e.ordering = Ordering(d.spec) /\ e.initialized = TRUE
  BY DEF Fresh
<1>2. e = [words |-> e.words, spec |-> e.spec, argv |-> e.argv, optind |-> e.optind, nextchar |-> e.nextchar,
           first |-> e.first, last |-> e.last, ordering |-> e.ordering, initialized |-> e.initialized]
  BY DEF Fresh
<1> HIDE DEF e
<1>3. IsData(e)
  BY <1>1, <1>2 DEF IsData
<1>4. 1 <= Len(d.words) + 1
  BY DEF IsData
<1>5. Ready(e)
  BY <1>1, <1>3, <1>4 DEF Ready
<1> QED
  BY <1>1, <1>5 DEF e

\* _getopt_initialize forgets all but the arguments.
LEMMA Initialises ==
  ASSUME NEW d, IsData(d), d.optind \in {0, 1}
  PROVE  getopt_initialize(d) = Fresh(d)
<1> DEFINE start == IF d.optind = 0 THEN 1 ELSE d.optind
           o == Ordering(d.spec)
<1>1. start = 1
  OBVIOUS
<1>2. getopt_initialize(d) = [d EXCEPT !.optind = start, !.first = start, !.last = start, !.nextchar = <<>>,
                                       !.initialized = TRUE, !.ordering = o]
  BY Zenon DEF getopt_initialize
<1> HIDE DEF start, o
<1> DEFINE yes == TRUE
           null == <<>>
<1> HIDE DEF yes, null
<1>3. [d EXCEPT !.optind = start, !.first = start, !.last = start, !.nextchar = null, !.initialized = yes, !.ordering = o]
      = [[[[[[d EXCEPT !.optind = start] EXCEPT !.first = start] EXCEPT !.last = start] EXCEPT !.nextchar = null]
           EXCEPT !.initialized = yes] EXCEPT !.ordering = o]
  OBVIOUS
<1> DEFINE R(p, q, f, l, g, i) ==
             [words |-> d.words, spec |-> d.spec, argv |-> d.argv, optind |-> p, nextchar |-> q, first |-> f, last |-> l,
              ordering |-> g, initialized |-> i]
<1> DEFINE d1 == [d EXCEPT !.optind = start]
           d2 == [d1 EXCEPT !.first = start]
           d3 == [d2 EXCEPT !.last = start]
           d4 == [d3 EXCEPT !.nextchar = null]
           d5 == [d4 EXCEPT !.initialized = yes]
           d6 == [d5 EXCEPT !.ordering = o]
<1>3a. getopt_initialize(d) = d6
  BY <1>2, <1>3 DEF yes, null
<1> HIDE DEF d1, d2, d3, d4, d5, d6
<1>4. d = R(d.optind, d.nextchar, d.first, d.last, d.ordering, d.initialized)
  BY DEF IsData
<1>5. [d EXCEPT !.optind = start] = R(start, d.nextchar, d.first, d.last, d.ordering, d.initialized)
  <2>1. [R(d.optind, d.nextchar, d.first, d.last, d.ordering, d.initialized) EXCEPT !.optind = start] =
              R(start, d.nextchar, d.first, d.last, d.ordering, d.initialized)
    OBVIOUS
  <2> HIDE DEF R
  <2> QED
    BY <1>4, <2>1
<1>6. [d1 EXCEPT !.first = start] = R(start, d.nextchar, start, d.last, d.ordering, d.initialized)
  <2>1. [R(start, d.nextchar, d.first, d.last, d.ordering, d.initialized) EXCEPT !.first = start] =
              R(start, d.nextchar, start, d.last, d.ordering, d.initialized)
    OBVIOUS
  <2> HIDE DEF R
  <2> QED
    BY <1>5, <2>1 DEF d1
<1>7. [d2 EXCEPT !.last = start] = R(start, d.nextchar, start, start, d.ordering, d.initialized)
  <2>1. [R(start, d.nextchar, start, d.last, d.ordering, d.initialized) EXCEPT !.last = start] =
              R(start, d.nextchar, start, start, d.ordering, d.initialized)
    OBVIOUS
  <2> HIDE DEF R
  <2> QED
    BY <1>6, <2>1 DEF d2
<1>8. [d3 EXCEPT !.nextchar = null] = R(start, null, start, start, d.ordering, d.initialized)
  <2>1. [R(start, d.nextchar, start, start, d.ordering, d.initialized) EXCEPT !.nextchar = null] =
              R(start, null, start, start, d.ordering, d.initialized)
    OBVIOUS
  <2> HIDE DEF R
  <2> QED
    BY <1>7, <2>1 DEF d3
<1>9. [d4 EXCEPT !.initialized = yes] = R(start, null, start, start, d.ordering, yes)
  <2>1. [R(start, null, start, start, d.ordering, d.initialized) EXCEPT !.initialized = yes] =
              R(start, null, start, start, d.ordering, yes)
    OBVIOUS
  <2> HIDE DEF R
  <2> QED
    BY <1>8, <2>1 DEF d4
<1>10. [d5 EXCEPT !.ordering = o] = R(start, null, start, start, o, yes)
  <2>1. [R(start, null, start, start, d.ordering, yes) EXCEPT !.ordering = o] =
              R(start, null, start, start, o, yes)
    OBVIOUS
  <2> HIDE DEF R
  <2> QED
    BY <1>9, <2>1 DEF d5
<1>11. getopt_initialize(d) = R(start, null, start, start, o, yes)
  <2> HIDE DEF R
  <2> QED
    BY <1>3a, <1>10 DEF d6
<1> QED
  BY <1>1, <1>11 DEF Fresh, o, yes, null, Null

\* Set to 0 or to 1, optind starts the same scan.
LEMMA StartsFresh ==
  ASSUME NEW d, AtStart(d)
  PROVE  getopt_internal_r(d) = getopt_internal_r(Fresh(d))
<1> DEFINE f == Fresh(d)
           e == IF d.optind = 0 \/ ~d.initialized THEN getopt_initialize(d) ELSE d
<1>1. Ready(f) /\ f.nextchar = Null
  BY FreshReady DEF AtStart
<1>2. getopt_internal_r(f) = NewWord(EndOfOptions(Permuted(f)))
  BY <1>1, Called
<1>3. getopt_internal_r(d) = IF e.nextchar # <<>> THEN ShortOption(e, e.nextchar)
                             ELSE NewWord(EndOfOptions(Permuted(Rational(e))))
  BY Zenon DEF getopt_internal_r
<1> HIDE DEF f
<1>4. CASE d.optind = 0 \/ ~d.initialized
  <2>1. e = f
    BY <1>4, Initialises DEF AtStart, f
  <2>2. Rational(f) = f
    <3>1. IsData(f) /\ f.optind = 1 /\ f.first = 1 /\ f.last = 1
      BY FreshReady DEF AtStart, f, Ready
    <3>2. f = Placed(f, f.argv, f.first, f.last, f.optind)
      BY <3>1 DEF IsData, Placed
    <3>3. Rational(f) = Placed(f, f.argv, f.first, f.last, f.optind)
      BY <3>1, RationalForm
    <3> QED
      BY <3>2, <3>3
  <2> HIDE DEF e
  <2> QED
    BY <1>1, <1>2, <1>3, <2>1, <2>2 DEF Null, f
<1>5. CASE ~(d.optind = 0 \/ ~d.initialized)
  <2>1. e = d
    BY <1>5
  <2>2. d.optind = 1 /\ d.nextchar = Null /\ 1 <= d.first /\ 1 <= d.last /\ IsData(d)
          /\ d.ordering = Ordering(d.spec)
        /\ d.initialized = TRUE
    BY <1>5 DEF AtStart
  <2>3. Rational(d) = f
    <3>1. Rational(d) = Placed(d, d.argv, 1, 1, 1)
      <4>1. (IF d.first > d.optind THEN d.optind ELSE d.first) = 1
              /\ (IF d.last > d.optind THEN d.optind ELSE d.last) = 1
        BY <2>2 DEF IsData
      <4>2. Rational(d) = Placed(d, d.argv, IF d.first > d.optind THEN d.optind ELSE d.first,
                              IF d.last > d.optind THEN d.optind ELSE d.last, d.optind)
        BY <2>2, RationalForm
      <4> QED
        BY <2>2, <4>1, <4>2
    <3>2. Placed(d, d.argv, 1, 1, 1) = f
      BY <2>2 DEF Placed, Fresh, f
    <3> QED
      BY <3>1, <3>2
  <2> HIDE DEF e
  <2> QED
    BY <1>2, <1>3, <2>1, <2>2, <2>3 DEF Null, f
<1> QED
  BY <1>4, <1>5

------------------------------------------------------------------------------
(***************************************************************************)
(* The first scan, on arguments that were never permuted: the options that *)
(* were taken, then the non-options that were skipped, then the rest, each *)
(* in order.  Order tells how the arguments will stand when no more is     *)
(* skipped.                                                                *)
(***************************************************************************)
Grows(a, lo, hi) == \A i, j \in lo .. hi : i < j => a[i] < a[j]

\* The options before f, the non-options from there to l, each in order, the rest untouched.
Blocks(a, n, f, l) ==
  /\ \A i \in l .. n : a[i] = i
  /\ \A i \in 1 .. l - 1 : a[i] \in 1 .. l - 1
  /\ Grows(a, 1, f - 1) /\ Grows(a, f, l - 1)
  /\ \A v \in 1 .. n : \E i \in 1 .. n : a[i] = v

\* exchange joins the options it has found to those before, each kind in order.
LEMMA BlocksRotate ==
  ASSUME NEW n \in Nat, NEW a, Array(a, n), NEW f \in Nat, NEW l \in Nat, NEW t \in Nat,
         Segments(n, f, l, t), Blocks(a, n, f, l)
  PROVE  Blocks(Rotated(a, f, l, t), n, f + (t - l), t)
<1> DEFINE r == Rotated(a, f, l, t)
           g == f + (t - l)
<1>1. /\ \A i \in 1 .. f - 1 : r[i] = a[i]
      /\ \A i \in f .. f + (t - l) - 1 : i \in 1 .. n /\ i + (l - f) \in l .. t - 1 /\ r[i] = a[i + (l - f)]
      /\ \A i \in f + (t - l) .. t - 1 : i \in 1 .. n /\ i - (t - l) \in f .. l - 1 /\ r[i] = a[i - (t - l)]
      /\ \A i \in t .. n : r[i] = a[i]
  <2> HIDE DEF r
  <2>1. r = Rotated(a, f, l, t)
    BY DEF r
  <2>2. \A i \in 1 .. f - 1 : r[i] = a[i]
    BY <2>1, RotatedAt
  <2>3. \A i \in f .. f + (t - l) - 1 : i \in 1 .. n /\ i + (l - f) \in l .. t - 1 /\ r[i] = a[i + (l - f)]
    BY <2>1, RotatedAt
  <2>4. \A i \in f + (t - l) .. t - 1 : i \in 1 .. n /\ i - (t - l) \in f .. l - 1 /\ r[i] = a[i - (t - l)]
    BY <2>1, RotatedAt
  <2>5. \A i \in t .. n : r[i] = a[i]
    BY <2>1, RotatedAt
  <2> QED
    BY <2>2, <2>3, <2>4, <2>5
<1>2. 1 <= f /\ f <= l /\ l <= t /\ t <= n + 1
  BY DEF Segments
<1>3. /\ \A i \in l .. n : a[i] = i
      /\ \A i \in 1 .. l - 1 : a[i] \in 1 .. l - 1
      /\ \A i, j \in 1 .. f - 1 : i < j => a[i] < a[j]
      /\ \A i, j \in f .. l - 1 : i < j => a[i] < a[j]
  BY DEF Blocks, Grows
<1> HIDE DEF r
<1>4. \A i \in f .. g - 1 : r[i] = i + (l - f)
  BY <1>1, <1>2, <1>3
<1>5. g \in Nat /\ f <= g /\ g <= t
  BY <1>2
<1>6. \A i \in t .. n : r[i] = i
  BY <1>1, <1>2, <1>3
<1>7. ASSUME NEW i \in 1 .. t - 1 PROVE r[i] \in 1 .. t - 1
  <2>1. CASE i < f
    <3>1. i \in 1 .. f - 1 /\ i \in 1 .. l - 1
      BY <1>2, <2>1
    <3> QED
      BY <1>1, <1>2, <1>3, <3>1
  <2>2. CASE f <= i /\ i < g
    <3>1. i \in f .. g - 1 /\ i + (l - f) \in 1 .. t - 1
      BY <1>2, <1>5, <2>2
    <3> QED
      BY <1>4, <3>1
  <2>3. CASE g <= i
    <3>1. i \in f + (t - l) .. t - 1
      BY <1>5, <2>3
    <3>2. i - (t - l) \in 1 .. l - 1
      BY <1>2, <3>1
    <3>3. r[i] \in 1 .. l - 1
      BY <1>1, <1>3, <3>1, <3>2
    <3> QED
      BY <1>2, <3>3
  <2> QED
    BY <1>5, <2>1, <2>2, <2>3
<1>8. Grows(r, 1, g - 1)
  <2> SUFFICES ASSUME NEW i \in 1 .. g - 1, NEW j \in 1 .. g - 1, i < j PROVE r[i] < r[j]
    BY DEF Grows
  <2>1. CASE j < f
    <3>1. i \in 1 .. f - 1 /\ j \in 1 .. f - 1
      BY <2>1
    <3> QED
      BY <1>1, <1>3, <3>1
  <2>2. CASE f <= j
    <3>1. j \in f .. g - 1 /\ r[j] = j + (l - f)
      BY <1>4, <1>5, <2>2
    <3>2. CASE i < f
      <4>1. i \in 1 .. f - 1 /\ i \in 1 .. l - 1
        BY <1>2, <3>2
      <4>2. r[i] \in 1 .. l - 1
        BY <1>1, <1>3, <4>1
      <4> QED
        BY <1>2, <2>2, <3>1, <4>2
    <3>3. CASE f <= i
      <4>1. i \in f .. g - 1 /\ r[i] = i + (l - f)
        BY <1>4, <1>5, <3>3
      <4> QED
        BY <1>2, <3>1, <4>1
    <3> QED
      BY <3>2, <3>3
  <2> QED
    BY <1>2, <2>1, <2>2
<1>9. Grows(r, g, t - 1)
  <2> SUFFICES ASSUME NEW i \in g .. t - 1, NEW j \in g .. t - 1, i < j PROVE r[i] < r[j]
    BY DEF Grows
  <2>1. /\ i - (t - l) \in f .. l - 1 /\ r[i] = a[i - (t - l)]
        /\ j - (t - l) \in f .. l - 1 /\ r[j] = a[j - (t - l)]
    BY <1>1
  <2>2. i - (t - l) < j - (t - l)
    BY <1>2, <1>5
  <2> QED
    BY <1>3, <2>1, <2>2
<1>10. ASSUME NEW v \in 1 .. n PROVE \E i \in 1 .. n : r[i] = v
  <2>1. PICK k \in 1 .. n : a[k] = v
    BY DEF Blocks
  <2>2. CASE k < f \/ k >= t
    BY <1>1, <2>1, <2>2
  <2>3. CASE f <= k /\ k < l
    <3>1. k + (t - l) \in f + (t - l) .. t - 1 /\ (k + (t - l)) - (t - l) = k
      BY <1>2, <2>3
    <3> QED
      BY <1>1, <2>1, <3>1
  <2>4. CASE l <= k /\ k < t
    <3>1. k - (l - f) \in f .. f + (t - l) - 1 /\ (k - (l - f)) + (l - f) = k
      BY <1>2, <2>4
    <3> QED
      BY <1>1, <2>1, <3>1
  <2> QED
    BY <1>2, <2>2, <2>3, <2>4
<1> QED
  BY <1>6, <1>7, <1>8, <1>9, <1>10 DEF Blocks, r

\* The non-options that follow join those skipped.
LEMMA BlocksGrow ==
  ASSUME NEW n \in Nat, NEW a, NEW f \in Nat, NEW l \in Nat, NEW t \in Nat, Segments(n, f, l, t),
         Blocks(a, n, f, l)
  PROVE  Blocks(a, n, f, t)
<1>1. 1 <= f /\ f <= l /\ l <= t /\ t <= n + 1
  BY DEF Segments
<1>2. \A i \in l .. n : a[i] = i
  BY DEF Blocks
<1>3. \A i \in 1 .. l - 1 : a[i] \in 1 .. l - 1
  BY DEF Blocks
<1>4. \A i \in t .. n : a[i] = i
  BY <1>1, <1>2
<1>5. ASSUME NEW i \in 1 .. t - 1 PROVE a[i] \in 1 .. t - 1
  <2>1. CASE i < l
    <3>1. a[i] \in 1 .. l - 1
      BY <1>3, <2>1
    <3> QED
      BY <1>1, <3>1
  <2>2. CASE l <= i
    <3>1. a[i] = i
      BY <1>1, <1>2, <2>2
    <3> QED
      BY <3>1
  <2> QED
    BY <2>1, <2>2
<1>6. ASSUME NEW i \in f .. t - 1, NEW j \in f .. t - 1, i < j PROVE a[i] < a[j]
  <2>1. CASE j < l
    <3>1. i \in f .. l - 1 /\ j \in f .. l - 1
      BY <1>6, <2>1
    <3> QED
      BY <1>6, <3>1 DEF Blocks, Grows
  <2>2. CASE l <= j
    <3>1. a[j] = j
      BY <1>1, <1>2, <2>2
    <3>2. CASE i < l
      <4>1. a[i] \in 1 .. l - 1
        BY <1>1, <1>3, <3>2
      <4> QED
        BY <2>2, <3>1, <4>1
    <3>3. CASE l <= i
      <4>1. a[i] = i
        BY <1>1, <1>2, <3>3
      <4> QED
        BY <1>6, <3>1, <4>1
    <3> QED
      BY <3>2, <3>3
  <2> QED
    BY <2>1, <2>2
<1> QED
  BY <1>4, <1>5, <1>6 DEF Blocks, Grows

\* Between two calls of the first scan.
Scanning(d) ==
  /\ Ready(d) /\ Blocks(d.argv, Len(d.words), d.first, d.last)
  /\ \A i \in d.first .. d.last - 1 : NONOPTION_P(Word(d, i))

\* The arguments as a scan takes them, the non-options left out.
Order(d) == [q \in Nat |-> IF q < d.first THEN d.argv[q] ELSE d.last + (q - d.first)]

\* And where it puts the options.
LEMMA RotatedOrder ==
  ASSUME NEW n \in Nat, NEW a, Array(a, n), NEW f \in Nat, NEW l \in Nat, NEW t \in Nat,
         Segments(n, f, l, t), Blocks(a, n, f, l),
         NEW q \in 1 .. f + (t - l) - 1
  PROVE  Rotated(a, f, l, t)[q] = IF q < f THEN a[q] ELSE l + (q - f)
<1> DEFINE r == Rotated(a, f, l, t)
<1>1. /\ \A i \in 1 .. f - 1 : r[i] = a[i]
      /\ \A i \in f .. f + (t - l) - 1 : i \in 1 .. n /\ i + (l - f) \in l .. t - 1 /\ r[i] = a[i + (l - f)]
  BY RotatedAt
<1>2. 1 <= f /\ f <= l /\ l <= t /\ t <= n + 1
  BY DEF Segments
<1>3. \A i \in l .. n : a[i] = i
  BY DEF Blocks
<1> HIDE DEF r
<1>4. CASE q < f
  <2>1. q \in 1 .. f - 1
    BY <1>4
  <2> QED
    BY <1>1, <1>4, <2>1 DEF r
<1>5. CASE f <= q
  <2>1. q \in f .. f + (t - l) - 1 /\ q + (l - f) = l + (q - f) /\ l + (q - f) \in l .. n
    BY <1>2, <1>5
  <2>2. r[q] = l + (q - f)
    BY <1>1, <1>3, <2>1
  <2> QED
    BY <1>2, <1>5, <2>2 DEF r
<1> QED
  BY <1>4, <1>5

\* Looking for the next option keeps all this, and the order of what has been taken.
LEMMA FindingScans ==
  ASSUME NEW d, Scanning(d), d.nextchar = Null
  PROVE  LET g == Permuted(d) IN Scanning(g) /\ \A q \in 1 .. Place(d) - 1 : Order(g)[q] = Order(d)[q]
<1> DEFINE g == Permuted(d)
           n == Len(d.words)
           r == Rotated(d.argv, d.first, d.last, d.optind)
           o == g.optind
<1>1. Ready(d) /\ Blocks(d.argv, n, d.first, d.last) /\ \A i \in d.first .. d.last - 1 : NONOPTION_P(Word(d, i))
  BY DEF Scanning
<1>2. /\ IsData(d) /\ Segments(n, d.first, d.last, d.optind) /\ Array(d.argv, n)
      /\ n \in Nat /\ d.first \in Nat /\ d.last \in Nat /\ d.optind \in Nat
      /\ Place(d) \in Nat /\ d.first <= Place(d) /\ Place(d) <= d.optind
  BY <1>1, ReadySegments
<1>3. /\ Ready(g) /\ g.words = d.words /\ Place(g) = Place(d) /\ d.optind <= o
      /\ d.ordering # "PERMUTE" => g = d
      /\ d.ordering = "PERMUTE" =>
           /\ g = Placed(d, r, Place(d), o, o)
           /\ \A i \in d.optind .. o - 1 : NONOPTION_P(Word(d, i))
  BY <1>1, Finding
<1>4. o \in Nat /\ o <= n + 1
  BY <1>3, ReadySegments DEF Ready
<1>5. CASE d.ordering # "PERMUTE"
  <2>1. g = d
    BY <1>3, <1>5
  <2> HIDE DEF g
  <2> QED
    BY <2>1 DEF g
<1>6. CASE d.ordering = "PERMUTE"
  <2>1. /\ g = Placed(d, r, Place(d), o, o)
        /\ \A i \in d.optind .. o - 1 : NONOPTION_P(Word(d, i))
    BY <1>3, <1>6
  <2> HIDE DEF r, o, g
  <2>2. g.argv = r /\ g.first = Place(d) /\ g.last = o /\ g.words = d.words
    BY <2>1, PlacedFields
  <2>3. Blocks(r, n, Place(d), d.optind)
    BY <1>1, <1>2, BlocksRotate DEF r, Place
  <2>4. Segments(n, Place(d), d.optind, o)
    BY <1>1, <1>2, <1>3, <1>4 DEF Segments, Ready, o
  <2>5. Blocks(r, n, Place(d), o)
    BY <1>2, <1>4, <2>3, <2>4, BlocksGrow
  <2>6. /\ \A i \in d.first + (d.optind - d.last) .. d.optind - 1 :
              i - (d.optind - d.last) \in d.first .. d.last - 1 /\ r[i] = d.argv[i - (d.optind - d.last)]
        /\ \A i \in d.optind .. n : r[i] = d.argv[i]
    <3> DEFINE a == d.argv f == d.first l == d.last t == d.optind
    <3>1. r = Rotated(a, f, l, t) /\ n \in Nat /\ Array(a, n) /\ f \in Nat /\ l \in Nat /\ t \in Nat
            /\ Segments(n, f, l, t)
      BY <1>2 DEF r
    <3> HIDE DEF a, f, l, t, n
    <3>2. \A i \in f + (t - l) .. t - 1 : i \in 1 .. n /\ i - (t - l) \in f .. l - 1 /\ r[i] = a[i - (t - l)]
      BY <3>1, RotatedAt
    <3>3. \A i \in t .. n : r[i] = a[i]
      BY <3>1, RotatedAt
    <3> QED
      BY <3>2, <3>3 DEF a, f, l, t, n
  <2>7. ASSUME NEW i \in Place(d) .. o - 1 PROVE NONOPTION_P(d.words[r[i]])
    <3>1. CASE i < d.optind
      <4>1. i \in d.first + (d.optind - d.last) .. d.optind - 1
        BY <1>2, <3>1 DEF Place
      <4>2. r[i] = d.argv[i - (d.optind - d.last)] /\ NONOPTION_P(Word(d, i - (d.optind - d.last)))
        BY <1>1, <2>6, <4>1
      <4> QED
        BY <4>2 DEF Word
    <3>2. CASE d.optind <= i
      <4>1. i \in d.optind .. o - 1 /\ i \in d.optind .. n
        BY <1>2, <1>4, <3>2
      <4> QED
        BY <2>1, <2>6, <4>1 DEF Word
    <3> QED
      BY <1>2, <3>1, <3>2
  <2>8. Scanning(g)
    BY <1>3, <2>2, <2>5, <2>7 DEF Scanning, Word, g
  <2>9. ASSUME NEW q \in 1 .. Place(d) - 1 PROVE Order(g)[q] = Order(d)[q]
    <3>1. q \in Nat /\ q < g.first /\ q \in 1 .. d.first + (d.optind - d.last) - 1
      BY <1>2, <2>2 DEF Place
    <3>2. Order(g)[q] = r[q]
      BY <2>2, <3>1 DEF Order
    <3>3. r[q] = IF q < d.first THEN d.argv[q] ELSE d.last + (q - d.first)
      <4> DEFINE a == d.argv f == d.first l == d.last t == d.optind
      <4>1. /\ r = Rotated(a, f, l, t) /\ n \in Nat /\ Array(a, n) /\ f \in Nat /\ l \in Nat /\ t \in Nat
            /\ Segments(n, f, l, t) /\ Blocks(a, n, f, l) /\ q \in 1 .. f + (t - l) - 1
        BY <1>1, <1>2, <3>1 DEF r
      <4> HIDE DEF a, f, l, t, n
      <4>2. r[q] = IF q < f THEN a[q] ELSE l + (q - f)
        BY <4>1, RotatedOrder
      <4> QED
        BY <4>2 DEF a, f, l
    <3> QED
      BY <3>1, <3>2, <3>3 DEF Order
  <2> QED
    BY <2>8, <2>9 DEF g
<1> QED
  BY <1>5, <1>6

\* It holds at first.
LEMMA FreshScans ==
  ASSUME NEW d, IsData(d), d.argv = [i \in DOMAIN d.words |-> i]
  PROVE  Scanning(Fresh(d))
<1> DEFINE e == Fresh(d)
           n == Len(d.words)
<1>1. Ready(e) /\ e.argv = d.argv /\ e.words = d.words /\ e.first = 1 /\ e.last = 1
  BY FreshReady
<1>2. n \in Nat /\ DOMAIN d.words = 1 .. n
  BY DEF IsData
<1>3. \A i \in 1 .. n : d.argv[i] = i
  BY <1>2
<1>4. Blocks(d.argv, n, 1, 1)
  <2>1. \A v \in 1 .. n : \E i \in 1 .. n : d.argv[i] = v
    BY <1>3
  <2>2. Grows(d.argv, 1, 1 - 1)
    BY DEF Grows
  <2>3. \A i \in 1 .. 1 - 1 : FALSE
    OBVIOUS
  <2> QED
    BY <1>3, <2>1, <2>2, <2>3 DEF Blocks
<1> HIDE DEF e
<1>5. Scanning(e)
  <2>1. \A i \in 1 .. 1 - 1 : FALSE
    OBVIOUS
  <2> QED
    BY <1>1, <1>4, <2>1 DEF Scanning
<1> QED
  BY <1>5 DEF e

------------------------------------------------------------------------------
(***************************************************************************)
(* One call in two scans.  In the first scan the next option is found      *)
(* behind the non-options; in a later one it stands at its Place.  Leads   *)
(* says what the call does there, in any such state: the same result, and  *)
(* on to the next place.                                                   *)
(***************************************************************************)
\* A call that takes arguments leaves a state to call again from.
LEMMA MovedReady ==
  ASSUME NEW d, Ready(d), NEW o \in Nat, d.optind <= o, o <= Len(d.words) + 1, NEW y,
         y # Null => o <= Len(d.words)
  PROVE  Ready(Moved(d, o, y))
<1> DEFINE e == Moved(d, o, y)
<1>1. /\ e.words = d.words /\ e.spec = d.spec /\ e.argv = d.argv /\ e.optind = o /\ e.nextchar = y
      /\ e.first = d.first /\ e.last = d.last /\ e.ordering = d.ordering /\ e.initialized = d.initialized
  BY MovedFields
<1>2. IsData(e)
  BY MovedTyped DEF Ready
<1> HIDE DEF e
<1>3. /\ d.initialized = TRUE /\ d.ordering = Ordering(d.spec) /\ 1 <= d.first /\ d.first <= d.last
         /\ d.last <= d.optind
      /\ d.ordering # "PERMUTE" => d.first = 1 /\ d.last = 1
  BY DEF Ready
<1>4. d.first \in Nat /\ d.last \in Nat /\ d.optind \in Nat /\ Len(d.words) \in Nat
  BY ReadySegments
<1>5. e.initialized = TRUE /\ e.ordering = Ordering(e.spec)
        /\ (e.ordering # "PERMUTE" => e.first = 1 /\ e.last = 1)
  BY <1>1, <1>3
<1>6. 1 <= e.first /\ e.first <= e.last /\ e.last <= e.optind /\ e.optind <= Len(e.words) + 1
  BY <1>1, <1>3, <1>4
<1>7. e.nextchar # Null => e.optind <= Len(e.words)
  BY <1>1
<1>8. Ready(e)
  BY <1>2, <1>5, <1>6, <1>7 DEF Ready
<1> QED
  BY <1>8 DEF e

\* In the first scan too.
LEMMA MovedScans ==
  ASSUME NEW d, Scanning(d), NEW o \in Nat, d.optind <= o, o <= Len(d.words) + 1, NEW y,
         y # Null => o <= Len(d.words)
  PROVE  /\ Scanning(Moved(d, o, y)) /\ Place(Moved(d, o, y)) = Place(d) + (o - d.optind)
         /\ Order(Moved(d, o, y)) = Order(d)
<1> DEFINE e == Moved(d, o, y)
<1>1. /\ e.words = d.words /\ e.argv = d.argv /\ e.optind = o /\ e.first = d.first /\ e.last = d.last
  BY MovedFields
<1>2. Ready(d) /\ d.first \in Nat /\ d.last \in Nat /\ d.optind \in Nat
  BY ReadySegments DEF Scanning
<1>3. Ready(e)
  BY <1>2, MovedReady
<1> HIDE DEF e
<1>4. Scanning(e)
  BY <1>1, <1>3 DEF Scanning, Word
<1>5. Place(e) = Place(d) + (o - d.optind)
  BY <1>1, <1>2 DEF Place
<1>6. Order(e) = Order(d)
  BY <1>1 DEF Order
<1> QED
  BY <1>4, <1>5, <1>6 DEF e

Upto(p, q) == IF q = p THEN p + 1 ELSE q

\* A call at place p with letters x left, over the arguments in order O, returns res and
\* leaves place q and letters y: wherever the non-options stand.
Leads(words, spec, O, p, x, q, y, res) ==
  \A e : /\ Ready(e) /\ e.words = words /\ e.spec = spec /\ e.first = e.last /\ e.optind = p /\ e.nextchar = x
         /\ \A i \in p .. Upto(p, q) - 1 : i <= Len(words) /\ e.argv[i] = O[i]
         => LET r == getopt_internal_r(e) IN
            /\ r.code = res[1] /\ r.arg = res[2]
            /\ Ready(r.data) /\ r.data.first = r.data.last /\ r.data.optind = q /\ r.data.nextchar = y
            /\ r.data.argv = e.argv /\ r.data.words = words /\ r.data.spec = spec

\* The words that a call takes in the first scan are those that it finds in order.
LEMMA PlacesTaken ==
  ASSUME NEW f \in Nat, NEW l \in Nat, NEW o \in Nat, NEW p \in Nat, NEW n \in Nat, NEW s \in Nat,
         NEW k \in 0 .. 3,
         f <= p, l <= o, p = f + (o - l), 1 <= s, k <= s, o + s <= n + 1
  PROVE  /\ \A i \in 0 .. s - 1 :
              /\ p + i \in p .. (p + s) - 1 /\ p + i \in Nat /\ ~(p + i < f)
              /\ l + ((p + i) - f) = o + i /\ o + i \in l .. n
         /\ p + (s - 1) <= n => p + k <= n + 1 /\ p <= n
  OBVIOUS

\* So a later state that has them there sees the same.
LEMMA OrderAlike ==
  ASSUME NEW d, Scanning(d), d.optind <= Len(d.words), NEW k \in 0 .. 3, d.optind + k <= Len(d.words) + 1,
         NEW e, Ready(e), e.words = d.words, e.spec = d.spec, e.optind = Place(d),
         \A i \in Place(d) .. Upto(Place(d), Place(d) + k) - 1 : i <= Len(d.words) /\ e.argv[i] = Order(d)[i]
  PROVE  Alike(d, e, Seen(k)) /\ Place(d) + k <= Len(d.words) + 1 /\ Place(d) <= Len(d.words)
<1> DEFINE p == Place(d)
           n == Len(d.words)
<1>1. Ready(d) /\ IsData(d) /\ IsData(e) /\ e.ordering = d.ordering
  BY ReadySegments DEF Scanning, Ready
<1>2. d.first \in Nat /\ d.last \in Nat /\ d.optind \in Nat /\ n \in Nat /\ p \in Nat /\ d.first <= p
        /\ p <= d.optind
      /\ d.last <= d.optind /\ p = d.first + (d.optind - d.last)
  <2>1. p = d.first + (d.optind - d.last)
    BY DEF Place
  <2> QED
    BY <1>1, <2>1, ReadySegments
<1>3. Upto(p, p + k) = p + Seen(k) /\ Seen(k) \in Nat /\ 1 <= Seen(k) /\ k <= Seen(k)
        /\ d.optind + Seen(k) <= n + 1
  BY <1>2 DEF Upto, Seen
<1>4. \A i \in d.last .. n : d.argv[i] = i
  BY DEF Scanning, Blocks
<1>5. (\A j \in p .. Upto(p, p + k) - 1 : j <= n /\ e.argv[j] = Order(d)[j]) /\ e.optind = p
  OBVIOUS
<1> DEFINE s == Seen(k)
<1>6. /\ \A i \in 0 .. s - 1 :
            /\ p + i \in p .. (p + s) - 1 /\ p + i \in Nat /\ ~(p + i < d.first)
            /\ d.last + ((p + i) - d.first) = d.optind + i /\ d.optind + i \in d.last .. n
      /\ p + (s - 1) <= n => p + k <= n + 1 /\ p <= n
  <2> DEFINE f == d.first l == d.last o == d.optind
  <2>1. /\ f \in Nat /\ l \in Nat /\ o \in Nat /\ p \in Nat /\ n \in Nat /\ s \in Nat /\ k \in 0 .. 3
        /\ f <= p /\ l <= o /\ p = f + (o - l) /\ 1 <= s /\ k <= s /\ o + s <= n + 1
    BY <1>2, <1>3
  <2> HIDE DEF p, n, s, f, l, o
  <2>2. /\ \A i \in 0 .. s - 1 :
              /\ p + i \in p .. (p + s) - 1 /\ p + i \in Nat /\ ~(p + i < f)
              /\ l + ((p + i) - f) = o + i /\ o + i \in l .. n
        /\ p + (s - 1) <= n => p + k <= n + 1 /\ p <= n
    BY ONLY <2>1, PlacesTaken
  <2> QED
    BY <2>2 DEF f, l, o
<1>7. ASSUME NEW i \in 0 .. s - 1
      PROVE  d.optind + i <= n /\ e.optind + i <= n /\ e.argv[e.optind + i] = d.argv[d.optind + i]
  <2> HIDE DEF p, n, s
  <2>1. p + i \in p .. Upto(p, p + k) - 1 /\ p + i \in Nat /\ ~(p + i < d.first)
    BY <1>3, <1>6 DEF s
  <2>2. p + i <= n /\ e.argv[p + i] = d.last + ((p + i) - d.first)
    BY <1>5, <2>1 DEF Order
  <2>3. d.last + ((p + i) - d.first) = d.optind + i /\ d.optind + i \in d.last .. n
    BY <1>6
  <2>4. d.argv[d.optind + i] = d.optind + i /\ d.optind + i <= n
    <3> DEFINE x == d.optind + i
    <3>1. x \in d.last .. n /\ n \in Nat /\ d.last \in Nat
      BY <1>2, <2>3
    <3> HIDE DEF x
    <3>2. d.argv[x] = x /\ x <= n
      BY ONLY <1>4, <3>1
    <3> QED
      BY <3>2 DEF x
  <2> QED
    BY <1>5, <2>2, <2>3, <2>4
<1>8. Alike(d, e, Seen(k))
  BY <1>1, <1>7 DEF Alike
<1>9. p + (s - 1) <= n
  <2>1. s - 1 \in 0 .. s - 1
    BY <1>3
  <2> HIDE DEF p, n, s
  <2> QED
    BY <1>5, <1>7, <2>1
<1> HIDE DEF s
<1> QED
  BY <1>6, <1>8, <1>9

\* A call in the midst of an argument.
LEMMA MidStep ==
  ASSUME NEW d, Scanning(d), d.nextchar # Null
  PROVE  LET r == getopt_internal_r(d) IN
         \E k, y :
           /\ Takes(r, d, k, y) /\ d.optind <= Len(d.words)
           /\ r.code \notin Trouble =>
                Leads(d.words, d.spec, Order(d), Place(d), d.nextchar, Place(d) + k, y, <<r.code, r.arg>>)
<1> DEFINE r == getopt_internal_r(d)
           p == Place(d)
           x == d.nextchar
<1>1. Ready(d) /\ IsData(d) /\ d.optind <= Len(d.words)
  BY DEF Scanning, Ready
<1>2. r = ShortOption(d, x)
  BY <1>1, Called
<1> HIDE DEF r
<1>3. PICK k, y : Takes(r, d, k, y)
  BY <1>1, <1>2, ShortTakes
<1>4. k \in 0 .. 3 /\ d.optind + k <= Len(d.words) + 1 /\ (k = 0 <=> y # Null)
  BY <1>3 DEF Takes
<1>5. p \in Nat
  BY <1>1, ReadySegments
<1>6. ASSUME r.code \notin Trouble,
             NEW e, Ready(e), e.words = d.words, e.spec = d.spec, e.first = e.last, e.optind = p,
             e.nextchar = x,
             \A i \in p .. Upto(p, p + k) - 1 : i <= Len(d.words) /\ e.argv[i] = Order(d)[i]
      PROVE  LET s == getopt_internal_r(e) IN
             /\ s.code = r.code /\ s.arg = r.arg
             /\ Ready(s.data) /\ s.data.first = s.data.last /\ s.data.optind = p + k /\ s.data.nextchar = y
             /\ s.data.argv = e.argv /\ s.data.words = d.words /\ s.data.spec = d.spec
  <2> DEFINE s == getopt_internal_r(e)
             m == Moved(e, e.optind + k, y)
  <2>1. Alike(d, e, Seen(k)) /\ p + k <= Len(d.words) + 1 /\ p <= Len(d.words)
    BY <1>1, <1>4, <1>6, OrderAlike
  <2>2. s = ShortOption(e, x)
    BY <1>6, Called
  <2>3. ShortOption(e, x) = Returns(m, r.code, r.arg)
    BY <1>1, <1>2, <1>3, <1>6, <2>1, ShortLocal
  <2>4. s.code = r.code /\ s.arg = r.arg /\ s.data = m
    BY <2>2, <2>3, ReturnsFields
  <2>5. /\ m.words = e.words /\ m.spec = e.spec /\ m.argv = e.argv /\ m.optind = p + k /\ m.nextchar = y
        /\ m.first = e.first /\ m.last = e.last
    BY <1>6, MovedFields
  <2>6. Ready(m)
    <3>1. p + k \in Nat /\ e.optind <= p + k /\ p + k <= Len(e.words) + 1 /\ (y # Null => p + k <= Len(e.words))
      BY <1>4, <1>5, <1>6, <2>1
    <3> QED
      BY <1>6, <3>1, MovedReady
  <2> HIDE DEF s, m
  <2>7. /\ s.code = r.code /\ s.arg = r.arg
        /\ Ready(s.data) /\ s.data.first = s.data.last /\ s.data.optind = p + k /\ s.data.nextchar = y
        /\ s.data.argv = e.argv /\ s.data.words = d.words /\ s.data.spec = d.spec
    BY <1>6, <2>4, <2>5, <2>6
  <2> QED
    BY <2>7 DEF s
<1> DEFINE res == <<r.code, r.arg>>
<1>7. res[1] = r.code /\ res[2] = r.arg
  OBVIOUS
<1> HIDE DEF res
<1>8. r.code \notin Trouble => Leads(d.words, d.spec, Order(d), p, x, p + k, y, res)
  BY <1>6, <1>7 DEF Leads
<1> QED
  BY <1>1, <1>3, <1>8 DEF r, res

\* A call at a new argument that does not end the scan.
LEMMA NewStep ==
  ASSUME NEW d, Scanning(d), d.nextchar = Null, Permuted(d).optind <= Len(d.words), ~AtDashes(Permuted(d)),
         ~(Plain(Permuted(d)) /\ Permuted(d).ordering = "REQUIRE_ORDER")
  PROVE  LET r == getopt_internal_r(d) g == Permuted(d) IN
         \E k, y :
           /\ Takes(r, g, k, y)
           /\ r.code \notin Trouble =>
                Leads(d.words, d.spec, Order(g), Place(d), Null, Place(d) + k, y, <<r.code, r.arg>>)
<1> DEFINE r == getopt_internal_r(d)
           g == Permuted(d)
           p == Place(d)
           n == Len(d.words)
<1>1. Ready(d) /\ Scanning(g)
  BY FindingScans DEF Scanning
<1>2. /\ Ready(g) /\ g.nextchar = Null /\ g.words = d.words /\ g.spec = d.spec
         /\ g.ordering = d.ordering /\ Place(g) = p
      /\ d.ordering = "PERMUTE" => ~Plain(g)
  BY <1>1, Finding
<1>3. r = NewWord(g)
  BY <1>1, CallCases
<1>4. g.optind <= n /\ ~AtDashes(g) /\ ~(Plain(g) /\ g.ordering = "REQUIRE_ORDER")
  OBVIOUS
<1> HIDE DEF r, g
<1>5. IsData(g) /\ 1 <= g.optind /\ g.optind \in Nat /\ p \in Nat /\ n \in Nat
  BY <1>1, <1>2, ReadySegments
<1>6. PICK k, y : Takes(r, g, k, y)
  BY <1>2, <1>3, <1>4, <1>5, NewTakes
<1>7. k \in 0 .. 3 /\ g.optind + k <= n + 1 /\ (k = 0 <=> y # Null)
  BY <1>2, <1>6 DEF Takes
<1>8. ASSUME r.code \notin Trouble,
             NEW e, Ready(e), e.words = d.words, e.spec = d.spec, e.first = e.last, e.optind = p,
             e.nextchar = Null,
             \A i \in p .. Upto(p, p + k) - 1 : i <= n /\ e.argv[i] = Order(g)[i]
      PROVE  LET s == getopt_internal_r(e) IN
             /\ s.code = r.code /\ s.arg = r.arg
             /\ Ready(s.data) /\ s.data.first = s.data.last /\ s.data.optind = p + k /\ s.data.nextchar = y
             /\ s.data.argv = e.argv /\ s.data.words = d.words /\ s.data.spec = d.spec
  <2> DEFINE s == getopt_internal_r(e)
             h == Permuted(e)
             m == Moved(h, h.optind + k, y)
  <2>1. Alike(g, e, Seen(k)) /\ p + k <= n + 1 /\ p <= n
    BY <1>1, <1>2, <1>4, <1>7, <1>8, OrderAlike
  <2>2. Word(e, p) = Word(g, g.optind)
    <3>1. 0 \in 0 .. Seen(k) - 1 /\ p + 0 = p /\ g.optind + 0 = g.optind
      BY <1>5, <1>7 DEF Seen
    <3>2. e.argv[p] = g.argv[g.optind]
      BY <1>8, <2>1, <3>1 DEF Alike
    <3> QED
      BY <1>2, <1>8, <3>2 DEF Word
  <2>3. e.ordering = d.ordering
    BY <1>1, <1>8 DEF Ready
  <2>4. /\ Ready(h) /\ h.nextchar = Null /\ h.words = d.words /\ h.spec = d.spec /\ h.ordering = d.ordering
        /\ d.ordering # "PERMUTE" => h = e
        /\ d.ordering = "PERMUTE" =>
             /\ h = Placed(e, Rotated(e.argv, e.first, e.last, e.optind), Place(e), h.optind, h.optind)
             /\ \A i \in e.optind .. h.optind - 1 : NONOPTION_P(Word(e, i))
        /\ p <= h.optind
    BY <1>8, <2>3, Finding
  <2> HIDE DEF h
  <2>5. h.optind = p /\ h.argv = e.argv /\ h.first = h.last
    <3>1. CASE d.ordering # "PERMUTE"
      BY <1>8, <2>4, <3>1
    <3>2. CASE d.ordering = "PERMUTE"
      <4>1. ~NONOPTION_P(Word(e, p))
        BY <1>2, <1>4, <2>2, <3>2 DEF Plain
      <4>2. h.optind \in Nat
        BY <2>4, ReadySegments
      <4>3. h.optind = p
        BY <1>5, <1>8, <2>4, <3>2, <4>1, <4>2
      <4>4. e.first = e.last /\ e.first \in Nat /\ IsData(e) /\ Array(e.argv, n)
              /\ Segments(n, e.first, e.last, e.optind)
            /\ e.optind \in Nat
        BY <1>8, ReadySegments
      <4>5. Rotated(e.argv, e.first, e.last, e.optind) = e.argv
        BY <1>5, <4>4, RotatesNothing
      <4>6. Place(e) = p
        BY <1>5, <1>8, <4>4 DEF Place
      <4>7. h = Placed(e, e.argv, p, p, p)
        BY <2>4, <3>2, <4>3, <4>5, <4>6
      <4> QED
        BY <4>3, <4>7, PlacedFields
    <3> QED
      BY <3>1, <3>2
  <2>6. ~AtDashes(h)
    <3>1. Word(h, h.optind) = Word(g, g.optind)
      BY <2>2, <2>4, <2>5, <1>8 DEF Word
    <3> QED
      BY <1>2, <1>4, <2>4, <3>1 DEF AtDashes
  <2>7. s = NewWord(h)
    BY <1>8, <2>1, <2>5, <2>6, CallCases DEF h
  <2>8. Alike(g, h, Seen(k))
    BY <1>2, <1>8, <2>1, <2>4, <2>5 DEF Alike, Ready
  <2>9. 1 <= h.optind /\ h.optind \in Nat
    BY <2>4, ReadySegments
  <2>10. NewWord(h) = Returns(m, r.code, r.arg)
    <3>1. NewWord(g).code \notin Trouble /\ Takes(NewWord(g), g, k, y) /\ g.optind <= Len(g.words)
      BY <1>2, <1>3, <1>4, <1>6, <1>8
    <3> QED
      BY <1>2, <1>3, <1>4, <1>5, <2>4, <2>8, <2>9, <3>1, NewLocal
  <2>11. s.code = r.code /\ s.arg = r.arg /\ s.data = m
    BY <2>7, <2>10, ReturnsFields
  <2>12. /\ m.words = h.words /\ m.spec = h.spec /\ m.argv = h.argv /\ m.optind = p + k /\ m.nextchar = y
         /\ m.first = h.first /\ m.last = h.last
    BY <2>5, MovedFields
  <2>13. Ready(m)
    <3>1. p + k \in Nat /\ h.optind <= p + k /\ p + k <= Len(h.words) + 1 /\ (y # Null => p + k <= Len(h.words))
      BY <1>5, <1>7, <2>1, <2>4, <2>5
    <3> QED
      BY <2>4, <2>5, <3>1, MovedReady
  <2> HIDE DEF s, m
  <2>14. /\ s.code = r.code /\ s.arg = r.arg
         /\ Ready(s.data) /\ s.data.first = s.data.last /\ s.data.optind = p + k /\ s.data.nextchar = y
         /\ s.data.argv = e.argv /\ s.data.words = d.words /\ s.data.spec = d.spec
    BY <2>4, <2>5, <2>11, <2>12, <2>13
  <2> QED
    BY <2>14 DEF s
<1> DEFINE res == <<r.code, r.arg>>
<1>9. res[1] = r.code /\ res[2] = r.arg
  OBVIOUS
<1> HIDE DEF res
<1>10. r.code \notin Trouble => Leads(d.words, d.spec, Order(g), p, Null, p + k, y, res)
  BY <1>8, <1>9 DEF Leads
<1> QED
  BY <1>6, <1>10 DEF r, g, res

------------------------------------------------------------------------------
(***************************************************************************)
(* The end of a scan, and of every scan after it.                          *)
(***************************************************************************)
\* After a scan.
Rest(d) ==
  /\ IsData(d) /\ d.initialized = TRUE /\ d.ordering = Ordering(d.spec) /\ d.nextchar = Null
  /\ 1 <= d.first /\ 1 <= d.last

\* What may look like an option among the arguments that a scan passed over.
Passed(d, v) ==
  \E k \in 1 .. v - 1 :
    d.words[k] = Dashes \/ (Ordering(d.spec) = "REQUIRE_ORDER" /\ NONOPTION_P(d.words[k]))
Sorted(d, m) ==
  /\ m \in 1 .. Len(d.words) + 1
  /\ \A v \in 1 .. Len(d.words) : \E i \in 1 .. Len(d.words) : d.argv[i] = v
  /\ Grows(d.argv, 1, m - 1) /\ Grows(d.argv, m, Len(d.words))
  /\ \A i \in m .. Len(d.words) : NONOPTION_P(Word(d, i)) \/ Passed(d, d.argv[i])

\* A scan that has come to place p, the arguments being in order A, ends with optind = m.
Closes(words, spec, A, p, m) ==
  \A e : /\ Ready(e) /\ e.words = words /\ e.spec = spec /\ e.argv = A
         /\ e.first = e.last /\ e.optind = p /\ e.nextchar = Null
         => LET r == getopt_internal_r(e) IN
            /\ r.code = "-1" /\ r.arg = Null /\ Rest(r.data) /\ r.data.optind = m
            /\ r.data.argv = A /\ r.data.words = words /\ r.data.spec = spec

Ended(d, r) ==
  /\ r.code = "-1" /\ r.arg = Null /\ Rest(r.data) /\ r.data.words = d.words /\ r.data.spec = d.spec
  /\ Sorted(r.data, r.data.optind)
  /\ \A q \in 1 .. Place(d) - 1 : r.data.argv[q] = Order(d)[q]
  /\ Closes(d.words, d.spec, r.data.argv, Place(d), r.data.optind)

\* A later scan finds the options together.
LEMMA Again ==
  ASSUME NEW e, Ready(e), e.first = e.last, e.nextchar = Null
  PROVE  LET h == Permuted(e) p == e.optind IN
         /\ Ready(h) /\ h.nextchar = Null /\ h.words = e.words /\ h.spec = e.spec /\ h.ordering = e.ordering
         /\ h.argv = e.argv /\ Place(h) = p /\ Place(e) = p /\ p <= h.optind
         /\ e.ordering # "PERMUTE" => h = e
         /\ e.ordering = "PERMUTE" =>
              /\ h.first = p /\ h.last = h.optind
              /\ \A i \in p .. h.optind - 1 : NONOPTION_P(Word(e, i))
              /\ h.optind <= Len(e.words) => ~NONOPTION_P(Word(e, h.optind))
<1> DEFINE h == Permuted(e)
           p == e.optind
           o == h.optind
<1>1. /\ Ready(h) /\ h.nextchar = Null /\ h.words = e.words /\ h.spec = e.spec /\ h.ordering = e.ordering
      /\ Place(h) = Place(e) /\ p <= o
      /\ e.ordering # "PERMUTE" => h = e
      /\ e.ordering = "PERMUTE" =>
           /\ h = Placed(e, Rotated(e.argv, e.first, e.last, e.optind), Place(e), o, o)
           /\ \A i \in p .. o - 1 : NONOPTION_P(Word(e, i))
           /\ o <= Len(e.words) => ~Plain(h)
  BY Finding
<1>2. /\ e.first \in Nat /\ p \in Nat /\ Array(e.argv, Len(e.words))
         /\ Segments(Len(e.words), e.first, e.last, p)
      /\ Len(e.words) \in Nat /\ e.last \in Nat
  BY ReadySegments
<1>3. Rotated(e.argv, e.first, e.last, e.optind) = e.argv
  BY <1>2, RotatesNothing
<1>4. Place(e) = p
  BY <1>2 DEF Place
<1> HIDE DEF h, p, o
<1>5. e.ordering = "PERMUTE" => h.argv = e.argv /\ h.first = p /\ h.last = o
  BY <1>1, <1>3, <1>4, PlacedFields
<1>6. h.argv = e.argv
  BY <1>1, <1>5
<1>7. e.ordering = "PERMUTE" /\ o <= Len(e.words) => ~NONOPTION_P(Word(e, o))
  BY <1>1, <1>6 DEF Plain, Word, o
<1> QED
  BY <1>1, <1>4, <1>5, <1>6, <1>7 DEF h, p, o

\* The end of the arguments ends a scan.
LEMMA OverReached ==
  ASSUME NEW d, Scanning(d), d.nextchar = Null, Permuted(d).optind = Len(d.words) + 1
  PROVE  Ended(d, getopt_internal_r(d))
<1> DEFINE g == Permuted(d)
           r == getopt_internal_r(d)
           n == Len(d.words)
           P == Place(d)
           c == Placed(g, g.argv, g.first, g.last, P)
<1>1. Ready(d) /\ Scanning(g) /\ \A q \in 1 .. P - 1 : Order(g)[q] = Order(d)[q]
  BY FindingScans DEF Scanning
<1>2. /\ Ready(g) /\ g.nextchar = Null /\ g.words = d.words /\ g.spec = d.spec
         /\ g.ordering = d.ordering /\ Place(g) = P
      /\ d.ordering # "PERMUTE" => g = d
      /\ d.ordering = "PERMUTE" =>
           g = Placed(d, Rotated(d.argv, d.first, d.last, d.optind), Place(d), g.optind, g.optind)
  BY <1>1, Finding
<1>3. g.optind = n + 1 /\ r = Returns(c, "-1", Null)
  BY <1>1, CallCases
<1>4. d.ordering = "PERMUTE" => g.first = P /\ g.last = n + 1
  BY <1>2, <1>3, PlacedFields
<1> HIDE DEF r, g, P
<1>5. /\ c.words = d.words /\ c.spec = d.spec /\ c.argv = g.argv /\ c.optind = P /\ c.nextchar = Null
      /\ c.first = g.first /\ c.last = g.last /\ c.ordering = g.ordering /\ c.initialized = g.initialized
  BY <1>2, PlacedFields
<1> HIDE DEF c
<1>6. r.data = c /\ r.code = "-1" /\ r.arg = Null
  BY <1>3, ReturnsFields
<1>7. /\ IsData(g) /\ Segments(n, g.first, g.last, g.optind) /\ Array(g.argv, n) /\ n \in Nat
         /\ g.first \in Nat /\ g.last \in Nat
      /\ 1 <= g.first /\ g.first <= g.last /\ g.last <= g.optind /\ P \in Nat /\ 1 <= P /\ P <= n + 1
         /\ g.optind \in Nat
  BY <1>2, <1>3, ReadySegments
<1>8. d.ordering # "PERMUTE" => g.first = 1 /\ g.last = 1 /\ P = n + 1
  <2>1. d.ordering # "PERMUTE" => g.first = 1 /\ g.last = 1
    BY <1>2 DEF Ready
  <2> QED
    BY <1>2, <1>3, <1>7, <2>1 DEF Place
<1>9. /\ Blocks(g.argv, n, g.first, g.last) /\ \A i \in g.first .. g.last - 1 : NONOPTION_P(Word(g, i))
  BY <1>1, <1>2 DEF Scanning
<1>10. Blocks(g.argv, n, g.first, n + 1)
  <2>1. Segments(n, g.first, g.last, n + 1)
    BY <1>3, <1>7
  <2> QED
    BY <1>7, <1>9, <2>1, BlocksGrow
<1>11. Rest(c)
  <2>1. Rotated(g.argv, g.first, g.first, g.first) = g.argv /\ Segments(n, g.first, g.first, g.first)
    <3>1. Segments(n, g.first, g.first, g.first)
      BY <1>7 DEF Segments
    <3> QED
      BY <1>7, <3>1, RotatesNothing
  <2>2. IsData(Placed(g, Rotated(g.argv, g.first, g.first, g.first), g.first, g.last, P))
    BY <1>2, <1>7, <2>1, PlacedTyped
  <2>3. IsData(c)
    BY <2>1, <2>2 DEF c
  <2>4. g.initialized = TRUE /\ g.ordering = Ordering(g.spec)
    BY <1>2 DEF Ready
  <2>5. 1 <= c.first /\ 1 <= c.last
    BY <1>5, <1>7
  <2> QED
    BY <1>2, <1>5, <2>3, <2>4, <2>5 DEF Rest
<1>12. Grows(g.argv, 1, P - 1) /\ Grows(g.argv, P, n) /\ \A i \in P .. n : NONOPTION_P(Word(g, i))
  <2>1. CASE d.ordering = "PERMUTE"
    <3>1. g.first = P /\ g.last - 1 = n /\ (n + 1) - 1 = n
      BY <1>4, <1>7, <2>1
    <3> QED
      BY <1>9, <1>10, <3>1 DEF Blocks
  <2>2. CASE d.ordering # "PERMUTE"
    <3>1. g.first = 1 /\ P = n + 1 /\ P - 1 = n /\ (n + 1) - 1 = n /\ ~(\E i \in P .. n : TRUE)
      BY <1>7, <1>8, <2>2
    <3>2. Grows(g.argv, P, n)
      BY <3>1 DEF Grows
    <3> QED
      BY <1>10, <3>1, <3>2 DEF Blocks
  <2> QED
    BY <2>1, <2>2
<1>13. Sorted(c, P)
  <2>1. P \in 1 .. n + 1
    BY <1>7
  <2>2. \A v \in 1 .. n : \E i \in 1 .. n : g.argv[i] = v
    BY <1>9 DEF Blocks
  <2>3. \A i : Word(c, i) = Word(g, i)
    BY <1>2, <1>5 DEF Word
  <2> QED
    BY <1>5, <1>12, <2>1, <2>2, <2>3 DEF Sorted
<1>14. ASSUME NEW q \in 1 .. P - 1 PROVE c.argv[q] = Order(d)[q]
  <2>0. q \in Nat
    BY <1>7
  <2>1. CASE d.ordering = "PERMUTE"
    <3>1. q < g.first
      BY <1>4, <1>7, <2>1
    <3>2. Order(g)[q] = g.argv[q]
      BY <2>0, <3>1 DEF Order
    <3> QED
      BY <1>1, <1>5, <3>2
  <2>2. CASE d.ordering # "PERMUTE"
    <3>1. ~(q < g.first) /\ q \in g.last .. n /\ g.last + (q - g.first) = q
      BY <1>7, <1>8, <2>2
    <3>2. Order(g)[q] = q
      BY <2>0, <3>1 DEF Order
    <3>3. g.argv[q] = q
      BY <1>9, <3>1 DEF Blocks
    <3> QED
      BY <1>1, <1>5, <3>2, <3>3
  <2> QED
    BY <2>1, <2>2
<1>15. ASSUME NEW e, Ready(e), e.words = d.words, e.spec = d.spec, e.argv = g.argv,
              e.first = e.last, e.optind = P, e.nextchar = Null
       PROVE  LET s == getopt_internal_r(e) IN
              /\ s.code = "-1" /\ s.arg = Null /\ Rest(s.data) /\ s.data.optind = P
              /\ s.data.argv = g.argv /\ s.data.words = d.words /\ s.data.spec = d.spec
  <2> DEFINE s == getopt_internal_r(e)
             h == Permuted(e)
             b == Placed(h, h.argv, h.first, h.last, P)
  <2>1. e.ordering = d.ordering
    BY <1>1, <1>15 DEF Ready
  <2>2. /\ Ready(h) /\ h.nextchar = Null /\ h.words = d.words /\ h.spec = d.spec
        /\ h.argv = g.argv /\ Place(h) = P /\ Place(e) = P /\ P <= h.optind
        /\ d.ordering # "PERMUTE" => h = e
        /\ d.ordering = "PERMUTE" => (h.optind <= n => ~NONOPTION_P(Word(e, h.optind)))
    BY <1>15, <2>1, Again
  <2> HIDE DEF h
  <2>3. /\ IsData(h) /\ h.optind \in Nat /\ h.optind <= n + 1 /\ h.first \in Nat /\ h.last \in Nat
           /\ 1 <= h.first /\ 1 <= h.last
        /\ Segments(n, h.first, h.last, h.optind) /\ h.first <= n + 1
    BY <1>7, <2>2, ReadySegments
  <2>4. h.optind = n + 1
    <3>1. CASE d.ordering = "PERMUTE"
      <4>1. \A i \in P .. n : NONOPTION_P(Word(e, i))
        BY <1>2, <1>12, <1>15 DEF Word
      <4> QED
        BY <1>7, <2>2, <2>3, <3>1, <4>1
    <3>2. CASE d.ordering # "PERMUTE"
      BY <1>8, <1>15, <2>2, <3>2
    <3> QED
      BY <3>1, <3>2
  <2>5. s = Returns(b, "-1", Null)
    BY <1>15, <2>2, <2>4, CallCases DEF h
  <2>6. /\ b.words = d.words /\ b.spec = d.spec /\ b.argv = g.argv /\ b.optind = P /\ b.nextchar = Null
        /\ b.first = h.first /\ b.last = h.last /\ b.ordering = h.ordering /\ b.initialized = h.initialized
    BY <2>2, PlacedFields
  <2>7. Rest(b)
    <3>1. Rotated(h.argv, h.first, h.first, h.first) = h.argv /\ Segments(n, h.first, h.first, h.first)
      <4>1. Segments(n, h.first, h.first, h.first)
        BY <1>7, <2>3 DEF Segments
      <4> QED
        BY <1>7, <2>2, <2>3, <4>1, RotatesNothing
    <3>2. IsData(Placed(h, Rotated(h.argv, h.first, h.first, h.first), h.first, h.last, P))
      BY <1>7, <2>2, <2>3, <3>1, PlacedTyped
    <3>3. IsData(b)
      BY <3>1, <3>2
    <3>4. h.initialized = TRUE /\ h.ordering = Ordering(h.spec)
      BY <2>2 DEF Ready
    <3> HIDE DEF b
    <3> QED
      BY <2>2, <2>3, <2>6, <3>3, <3>4 DEF Rest
  <2> HIDE DEF b, s
  <2>8. s.code = "-1" /\ s.arg = Null /\ s.data = b
    BY <2>5, ReturnsFields
  <2> QED
    BY <2>6, <2>7, <2>8 DEF s
<1>16. Closes(d.words, d.spec, g.argv, P, P)
  BY <1>15 DEF Closes
<1>17. Ended(d, r)
  BY <1>5, <1>6, <1>11, <1>13, <1>14, <1>16 DEF Ended, P
<1> QED
  BY <1>17 DEF r

\* "--" is no non-option.
LEMMA DashesAreNone == ~NONOPTION_P(Dashes)
<1>1. Len(Dashes) = 2 /\ Dashes[1] = "-"
  BY DEF Dashes
<1> QED
  BY <1>1 DEF NONOPTION_P

\* "--" ends it.
LEMMA DashesReached ==
  ASSUME NEW d, Scanning(d), d.nextchar = Null, AtDashes(Permuted(d))
  PROVE  Ended(d, getopt_internal_r(d))
<1> DEFINE g == Permuted(d)
           r == getopt_internal_r(d)
           n == Len(d.words)
           P == Place(d)
           o == g.optind
           f == g.first
           l == g.last
           a == g.argv
           A == Rotated(a, f, l, o + 1)
           c == Placed(g, A, P + 1, n + 1, P + 1)
<1>1. Ready(d) /\ Scanning(g) /\ \A q \in 1 .. P - 1 : Order(g)[q] = Order(d)[q]
  BY FindingScans DEF Scanning
<1>2. /\ Ready(g) /\ g.nextchar = Null /\ g.words = d.words /\ g.spec = d.spec
         /\ g.ordering = d.ordering /\ Place(g) = P
  BY <1>1, Finding
<1>3. AtDashes(g) /\ r = Returns(c, "-1", Null)
  BY <1>1, CallCases
<1> HIDE DEF r, g
<1>4. /\ IsData(g) /\ Array(a, n) /\ n \in Nat /\ f \in Nat /\ l \in Nat /\ o \in Nat /\ P \in Nat
      /\ 1 <= f /\ f <= l /\ l <= o /\ o <= n /\ 1 <= P /\ P <= o /\ P = f + (o - l)
  <2>1. o <= n /\ P = f + (o - l)
    BY <1>2, <1>3 DEF AtDashes, Place
  <2> QED
    BY <1>2, <2>1, ReadySegments
<1>5. Segments(n, f, l, o + 1) /\ o + 1 \in Nat /\ P + 1 \in Nat /\ n + 1 \in Nat /\ f + ((o + 1) - l) = P + 1
  <2>1. 1 <= f /\ f <= l /\ l <= o + 1 /\ o + 1 <= n + 1
    BY <1>4
  <2>2. f + ((o + 1) - l) = P + 1 /\ o + 1 \in Nat /\ P + 1 \in Nat /\ n + 1 \in Nat
    <3> HIDE DEF f, l, o, n, P
    <3> QED
      BY <1>4
  <2> QED
    BY <2>1, <2>2 DEF Segments
<1>6. Blocks(a, n, f, l) /\ \A i \in f .. l - 1 : NONOPTION_P(Word(g, i))
  BY <1>1, <1>2 DEF Scanning
<1>7. /\ Array(A, n)
      /\ \A i \in P + 1 .. o : i - ((o + 1) - l) \in f .. l - 1 /\ A[i] = a[i - ((o + 1) - l)]
      /\ \A i \in o + 1 .. n : A[i] = a[i]
  <2>1. /\ Array(A, n)
        /\ \A i \in f + ((o + 1) - l) .. (o + 1) - 1 : i - ((o + 1) - l) \in f .. l - 1
           /\ A[i] = a[i - ((o + 1) - l)]
        /\ \A i \in o + 1 .. n : A[i] = a[i]
    <3> DEFINE t == o + 1
    <3>1. t \in Nat /\ Segments(n, f, l, t)
      BY <1>5
    <3>2. A = Rotated(a, f, l, t)
      OBVIOUS
    <3> HIDE DEF t, A, a, f, l, n, o, P
    <3>3. /\ Array(A, n)
          /\ \A i \in f + (t - l) .. t - 1 : i - (t - l) \in f .. l - 1 /\ A[i] = a[i - (t - l)]
          /\ \A i \in t .. n : A[i] = a[i]
      BY <1>4, <3>1, <3>2, RotatedAt
    <3> QED
      BY <3>3 DEF t
  <2>2. (o + 1) - 1 = o
    BY <1>4
  <2> QED
    BY <1>5, <2>1, <2>2
<1>8. Blocks(A, n, P + 1, o + 1)
  <2>1. Blocks(A, n, f + ((o + 1) - l), o + 1)
    BY <1>4, <1>5, <1>6, BlocksRotate
  <2> QED
    BY <1>5, <2>1
<1>9. Blocks(A, n, P + 1, n + 1)
  <2>1. Segments(n, P + 1, o + 1, n + 1) /\ P + 1 \in Nat /\ n + 1 \in Nat
    BY <1>4 DEF Segments
  <2> QED
    BY <1>4, <1>5, <1>8, <2>1, BlocksGrow
<1>10. ASSUME NEW q \in 1 .. P PROVE A[q] = IF q < f THEN a[q] ELSE l + (q - f)
  <2>1. q \in 1 .. f + ((o + 1) - l) - 1
    BY <1>4
  <2> DEFINE t == o + 1
  <2>2. t \in Nat /\ Segments(n, f, l, t) /\ A = Rotated(a, f, l, t) /\ q \in 1 .. f + (t - l) - 1
    BY <1>5, <2>1
  <2> HIDE DEF t, A, a, f, l, n, o, P
  <2> QED
    BY <1>4, <1>6, <2>2, RotatedOrder
<1>11. A[P] = o /\ a[o] = o /\ d.words[o] = Dashes
  <2>1. P \in 1 .. P /\ ~(P < f) /\ l + (P - f) = o /\ o \in l .. n
    BY <1>4
  <2>2. a[o] = o
    BY <1>6, <2>1 DEF Blocks
  <2>3. Word(g, o) = Dashes
    BY <1>3 DEF AtDashes
  <2> QED
    BY <1>2, <1>10, <2>1, <2>2, <2>3 DEF Word
<1>12. /\ c.words = d.words /\ c.spec = d.spec /\ c.argv = A /\ c.optind = P + 1 /\ c.nextchar = Null
       /\ c.first = P + 1 /\ c.last = n + 1 /\ c.ordering = g.ordering /\ c.initialized = g.initialized
  BY <1>2, PlacedFields
<1>13. r.data = c /\ r.code = "-1" /\ r.arg = Null
  BY <1>3, ReturnsFields
<1>14. Rest(c)
  <2>1. IsData(c)
    <3> DEFINE t == o + 1 p == P + 1 m == n + 1
    <3>1. t \in Nat /\ p \in Nat /\ m \in Nat /\ Segments(Len(g.words), f, l, t)
      BY <1>2, <1>5
    <3> HIDE DEF t, p, m
    <3>2. IsData(Placed(g, Rotated(g.argv, f, l, t), p, m, p))
      BY <1>4, <3>1, PlacedTyped
    <3> QED
      BY <3>2 DEF t, p, m
  <2>2. g.initialized = TRUE /\ g.ordering = Ordering(g.spec)
    BY <1>2 DEF Ready
  <2>3. 1 <= c.first /\ 1 <= c.last
    BY <1>4, <1>12
  <2> HIDE DEF c
  <2> QED
    BY <1>2, <1>12, <2>1, <2>2, <2>3 DEF Rest
<1> HIDE DEF c
<1>15. ASSUME NEW i \in P + 1 .. n PROVE NONOPTION_P(Word(c, i)) \/ Passed(c, A[i])
  <2>1. CASE i <= o
    <3>1. i \in P + 1 .. o
      BY <1>4, <2>1
    <3>2. i - ((o + 1) - l) \in f .. l - 1 /\ A[i] = a[i - ((o + 1) - l)]
      BY <1>7, <3>1
    <3>3. NONOPTION_P(Word(g, i - ((o + 1) - l)))
      BY <1>6, <3>2
    <3> QED
      BY <1>2, <1>12, <3>2, <3>3 DEF Word
  <2>2. CASE ~(i <= o)
    <3>1. i \in o + 1 .. n /\ i \in l .. n
      BY <1>4, <2>2
    <3>2. A[i] = i
      BY <1>6, <1>7, <3>1 DEF Blocks
    <3>3. o \in 1 .. i - 1
      BY <1>4, <3>1
    <3> QED
      BY <1>11, <1>12, <3>2, <3>3 DEF Passed
  <2> QED
    BY <2>1, <2>2
<1>16. Sorted(c, P + 1)
  <2>1. P + 1 \in 1 .. n + 1 /\ (P + 1) - 1 = P /\ (n + 1) - 1 = n
    BY <1>4
  <2>2. \A v \in 1 .. n : \E i \in 1 .. n : A[i] = v
    BY <1>9 DEF Blocks
  <2>3. Grows(A, 1, (P + 1) - 1) /\ Grows(A, P + 1, n)
    BY <1>9, <2>1 DEF Blocks
  <2> HIDE DEF A
  <2> QED
    BY <1>12, <1>15, <2>1, <2>2, <2>3 DEF Sorted
<1>17. ASSUME NEW q \in 1 .. P - 1 PROVE c.argv[q] = Order(d)[q]
  <2>1. q \in Nat /\ q \in 1 .. P
    BY <1>4
  <2> QED
    BY <1>1, <1>10, <1>12, <2>1 DEF Order
<1>18. ASSUME NEW e, Ready(e), e.words = d.words, e.spec = d.spec, e.argv = A,
              e.first = e.last, e.optind = P, e.nextchar = Null
       PROVE  LET s == getopt_internal_r(e) IN
              /\ s.code = "-1" /\ s.arg = Null /\ Rest(s.data) /\ s.data.optind = P + 1
              /\ s.data.argv = A /\ s.data.words = d.words /\ s.data.spec = d.spec
  <2> DEFINE s == getopt_internal_r(e)
             h == Permuted(e)
             b == Placed(h, Rotated(h.argv, h.first, h.last, h.optind + 1), P + 1, n + 1, P + 1)
  <2>1. e.ordering = d.ordering
    BY <1>1, <1>18 DEF Ready
  <2>2. /\ Ready(h) /\ h.nextchar = Null /\ h.words = d.words /\ h.spec = d.spec
        /\ h.argv = A /\ Place(h) = P /\ Place(e) = P /\ P <= h.optind
        /\ d.ordering # "PERMUTE" => h = e
        /\ d.ordering = "PERMUTE" =>
             /\ h.first = P /\ h.last = h.optind
             /\ \A i \in P .. h.optind - 1 : NONOPTION_P(Word(e, i))
    BY <1>18, <2>1, Again
  <2> HIDE DEF h
  <2>3. Word(e, P) = Dashes
    BY <1>11, <1>18 DEF Word
  <2>4. h.optind \in Nat /\ IsData(h) /\ h.first \in Nat /\ h.last \in Nat
    BY <2>2, ReadySegments
  <2>5. h.optind = P /\ h.first = h.last
    <3>1. CASE d.ordering = "PERMUTE"
      <4>1. ~(P \in P .. h.optind - 1)
        BY <2>2, <2>3, <3>1, DashesAreNone
      <4>2. h.optind = P
        BY <1>4, <2>2, <2>4, <4>1
      <4> QED
        BY <2>2, <3>1, <4>2
    <3>2. CASE d.ordering # "PERMUTE"
      BY <1>18, <2>2, <3>2
    <3> QED
      BY <3>1, <3>2
  <2>6. AtDashes(h)
    BY <1>4, <1>18, <2>2, <2>3, <2>5 DEF AtDashes, Word
  <2>7. s = Returns(b, "-1", Null)
    BY <1>18, <2>2, <2>6, CallCases DEF h
  <2>8. Segments(n, h.first, h.last, h.optind + 1) /\ h.optind + 1 \in Nat
    <3>1. h.first <= h.last /\ h.last <= h.optind /\ 1 <= h.first
      BY <2>2, ReadySegments
    <3> QED
      BY <1>4, <2>4, <2>5, <3>1 DEF Segments
  <2>9. Rotated(h.argv, h.first, h.last, h.optind + 1) = A
    BY <1>4, <1>7, <2>2, <2>4, <2>5, <2>8, RotatesNothing
  <2>10. /\ b.words = d.words /\ b.spec = d.spec /\ b.argv = A /\ b.optind = P + 1 /\ b.nextchar = Null
         /\ b.first = P + 1 /\ b.last = n + 1 /\ b.ordering = h.ordering /\ b.initialized = h.initialized
    BY <2>2, <2>9, PlacedFields
  <2>11. Rest(b)
    <3>1. IsData(b)
      <4> DEFINE t == h.optind + 1 p == P + 1 m == n + 1
      <4>1. t \in Nat /\ p \in Nat /\ m \in Nat /\ Segments(Len(h.words), h.first, h.last, t)
        BY <1>5, <2>2, <2>8
      <4> HIDE DEF t, p, m
      <4>2. IsData(Placed(h, Rotated(h.argv, h.first, h.last, t), p, m, p))
        BY <2>4, <4>1, PlacedTyped
      <4> QED
        BY <4>2 DEF t, p, m
    <3>2. h.initialized = TRUE /\ h.ordering = Ordering(h.spec)
      BY <2>2 DEF Ready
    <3> HIDE DEF b
    <3>3. 1 <= b.first /\ 1 <= b.last
      BY <1>4, <2>10
    <3> QED
      BY <2>2, <2>10, <3>1, <3>2, <3>3 DEF Rest
  <2> HIDE DEF b, s
  <2>12. s.code = "-1" /\ s.arg = Null /\ s.data = b
    BY <2>7, ReturnsFields
  <2> QED
    BY <2>10, <2>11, <2>12 DEF s
<1> HIDE DEF A
<1>19. Closes(d.words, d.spec, A, P, P + 1)
  BY <1>18 DEF Closes
<1>20. Ended(d, r)
  BY <1>12, <1>13, <1>14, <1>16, <1>17, <1>19 DEF Ended, P
<1> QED
  BY <1>20 DEF r

\* Where the order counts, a non-option ends the scan.
LEMMA StopReached ==
  ASSUME NEW d, Scanning(d), d.nextchar = Null, Permuted(d).optind <= Len(d.words), ~AtDashes(Permuted(d)),
         Plain(Permuted(d)), Permuted(d).ordering = "REQUIRE_ORDER"
  PROVE  Ended(d, getopt_internal_r(d))
<1> DEFINE r == getopt_internal_r(d)
           n == Len(d.words)
           P == d.optind
<1>1. Ready(d) /\ Permuted(d).ordering = d.ordering /\ (d.ordering # "PERMUTE" => Permuted(d) = d)
  BY Finding DEF Scanning
<1>2. Permuted(d) = d /\ d.ordering = "REQUIRE_ORDER" /\ Plain(d) /\ ~AtDashes(d) /\ P <= n
  BY <1>1
<1>3. r = Returns(d, "-1", Null)
  BY <1>1, <1>2, CallCases
<1>4. /\ IsData(d) /\ n \in Nat /\ P \in Nat /\ 1 <= P /\ Array(d.argv, n)
  BY <1>1, ReadySegments
<1>5. d.first = 1 /\ d.last = 1 /\ d.initialized = TRUE /\ d.ordering = Ordering(d.spec)
  BY <1>1, <1>2 DEF Ready
<1>6. Place(d) = P
  BY <1>4, <1>5 DEF Place
<1>7. \A i \in 1 .. n : d.argv[i] = i
  BY <1>5 DEF Scanning, Blocks
<1>8. r.data = d /\ r.code = "-1" /\ r.arg = Null
  BY <1>3, ReturnsFields
<1>9. Rest(d)
  BY <1>4, <1>5 DEF Rest
<1>10. P \in 1 .. n /\ NONOPTION_P(d.words[P])
  <2>1. P \in 1 .. n
    BY <1>2, <1>4
  <2> QED
    BY <1>2, <1>7, <2>1 DEF Plain, Word
<1>11. ASSUME NEW i \in P .. n PROVE NONOPTION_P(Word(d, i)) \/ Passed(d, d.argv[i])
  <2>1. CASE i = P
    <3>1. NONOPTION_P(Word(d, i))
      BY <1>7, <1>10, <2>1 DEF Word
    <3> QED
      BY <3>1
  <2>2. CASE i # P
    <3>1. P \in 1 .. i - 1 /\ i \in 1 .. n
      BY <1>4, <2>2
    <3> QED
      BY <1>2, <1>5, <1>7, <1>10, <3>1 DEF Passed
  <2> QED
    BY <2>1, <2>2
<1>12. Sorted(d, P)
  <2>1. P \in 1 .. n + 1
    BY <1>2, <1>4
  <2>2. \A v \in 1 .. n : \E i \in 1 .. n : d.argv[i] = v
    BY <1>7
  <2>3. Grows(d.argv, 1, P - 1)
    <3>1. \A i \in 1 .. P - 1 : i \in 1 .. n
      BY <1>4, <1>10
    <3> QED
      BY <1>7, <3>1 DEF Grows
  <2>4. Grows(d.argv, P, n)
    <3>1. \A i \in P .. n : i \in 1 .. n
      BY <1>4
    <3> QED
      BY <1>7, <3>1 DEF Grows
  <2> QED
    BY <1>11, <2>1, <2>2, <2>3, <2>4 DEF Sorted
<1>13. ASSUME NEW q \in 1 .. P - 1 PROVE d.argv[q] = Order(d)[q]
  <2>1. q \in 1 .. n /\ q \in Nat /\ ~(q < 1) /\ 1 + (q - 1) = q
    BY <1>4, <1>10
  <2> QED
    BY <1>5, <1>7, <2>1 DEF Order
<1>14. ASSUME NEW e, Ready(e), e.words = d.words, e.spec = d.spec, e.argv = d.argv,
              e.first = e.last, e.optind = P, e.nextchar = Null
       PROVE  LET s == getopt_internal_r(e) IN
              /\ s.code = "-1" /\ s.arg = Null /\ Rest(s.data) /\ s.data.optind = P
              /\ s.data.argv = d.argv /\ s.data.words = d.words /\ s.data.spec = d.spec
  <2> DEFINE s == getopt_internal_r(e)
  <2>1. e.ordering = "REQUIRE_ORDER"
    BY <1>2, <1>5, <1>14 DEF Ready
  <2>2. Permuted(e) = e
    BY <1>14, <2>1, Again
  <2>3. e.optind <= Len(e.words) /\ Plain(e) /\ ~AtDashes(e)
    BY <1>2, <1>14 DEF Plain, AtDashes, Word
  <2>4. s = Returns(e, "-1", Null)
    BY <1>14, <2>1, <2>2, <2>3, CallCases
  <2>5. Rest(e)
    <3>1. 1 <= e.first /\ 1 <= e.last /\ e.initialized = TRUE /\ e.ordering = Ordering(e.spec) /\ IsData(e)
      BY <1>14, ReadySegments DEF Ready
    <3> QED
      BY <1>14, <3>1 DEF Rest
  <2> HIDE DEF s
  <2>6. s.code = "-1" /\ s.arg = Null /\ s.data = e
    BY <2>4, ReturnsFields
  <2> QED
    BY <1>14, <2>5, <2>6 DEF s
<1>15. Closes(d.words, d.spec, d.argv, P, P)
  BY <1>14 DEF Closes
<1>16. Ended(d, r)
  BY <1>6, <1>8, <1>9, <1>12, <1>13, <1>15 DEF Ended
<1> QED
  BY <1>16

------------------------------------------------------------------------------
(***************************************************************************)
(* A scan is a chain of such calls.                                        *)
(***************************************************************************)
\* The first K results of a scan: where each call of it starts, and that it leads to the next.
Pair(e) == e = <<e[1], e[2]>>
Follows(words, spec, O, reach, results, K, P, X) ==
  /\ P[0] = 1 /\ X[0] = Null
  /\ \A k \in 0 .. K - 1 :
       /\ P[k] \in Nat /\ 1 <= P[k] /\ Upto(P[k], P[k + 1]) \in Nat /\ Upto(P[k], P[k + 1]) <= reach
       /\ Pair(results[k + 1]) /\ results[k + 1][1] # "-1"
       /\ Leads(words, spec, O, P[k], X[k], P[k + 1], X[k + 1], results[k + 1])
Traced(words, spec, O, reach, results, K, p, x) ==
  \E P, X : Follows(words, spec, O, reach, results, K, P, X) /\ P[K] = p /\ X[K] = x

\* The places that the calls so far have looked at end here.
Reach(d) == IF d.nextchar = Null THEN Place(d) ELSE Place(d) + 1
Trace(d, results, K) == Traced(d.words, d.spec, Order(d), Reach(d), results, K, Place(d), d.nextchar)

\* Only the arguments that the call sees matter.
LEMMA LeadsAlike ==
  ASSUME NEW words, NEW spec, NEW O, NEW p, NEW x, NEW q, NEW y, NEW res,
         Leads(words, spec, O, p, x, q, y, res),
         NEW Q, \A i \in p .. Upto(p, q) - 1 : Q[i] = O[i]
  PROVE  Leads(words, spec, Q, p, x, q, y, res)
<1>1. ASSUME NEW e, \A i \in p .. Upto(p, q) - 1 : i <= Len(words) /\ e.argv[i] = Q[i]
      PROVE  \A i \in p .. Upto(p, q) - 1 : i <= Len(words) /\ e.argv[i] = O[i]
  BY <1>1
<1> QED
  BY <1>1, Zenon DEF Leads

\* One more call.
LEMMA TracedMore ==
  ASSUME NEW words, NEW spec, NEW O, NEW reach \in Nat, NEW results, NEW K \in Nat, NEW p, NEW x,
         Traced(words, spec, O, reach, results, K, p, x),
         NEW Q, \A i \in 1 .. reach - 1 : Q[i] = O[i],
         NEW more, \A k \in 1 .. K : more[k] = results[k],
         p \in Nat, 1 <= p, NEW q \in Nat, NEW y, NEW far \in Nat, reach <= far, Upto(p, q) <= far,
         Pair(more[K + 1]), more[K + 1][1] # "-1",
         Leads(words, spec, Q, p, x, q, y, more[K + 1])
  PROVE  Traced(words, spec, Q, far, more, K + 1, q, y)
<1>1. PICK P, X : Follows(words, spec, O, reach, results, K, P, X) /\ P[K] = p /\ X[K] = x
  BY DEF Traced
<1> DEFINE L == K + 1
           P2 == [k \in 0 .. L |-> IF k = L THEN q ELSE P[k]]
           X2 == [k \in 0 .. L |-> IF k = L THEN y ELSE X[k]]
<1>2. /\ L \in Nat /\ L - 1 = K /\ L \in 0 .. L /\ 0 \in 0 .. L /\ K \in 0 .. L /\ L # K /\ L # 0
      /\ \A k \in 0 .. K - 1 : k \in 0 .. L /\ k # L /\ k + 1 \in 0 .. L /\ k + 1 # L /\ k + 1 \in 1 .. K
      /\ \A k \in 0 .. L - 1 : k \in 0 .. K - 1 \/ k = K
  OBVIOUS
<1>3. P2[L] = q /\ X2[L] = y /\ P2[0] = P[0] /\ X2[0] = X[0] /\ P2[K] = p /\ X2[K] = x
  BY <1>1, <1>2
<1>4. \A k \in 0 .. K - 1 : P2[k] = P[k] /\ X2[k] = X[k] /\ P2[k + 1] = P[k + 1] /\ X2[k + 1] = X[k + 1]
  BY <1>2
<1>5. Upto(p, q) \in Nat
  BY DEF Upto
<1>6. P[0] = 1 /\ X[0] = Null
  BY <1>1 DEF Follows
<1> HIDE DEF P2, X2
<1>7. ASSUME NEW k \in 0 .. L - 1
      PROVE  /\ P2[k] \in Nat /\ 1 <= P2[k] /\ Upto(P2[k], P2[k + 1]) \in Nat /\ Upto(P2[k], P2[k + 1]) <= far
             /\ Pair(more[k + 1]) /\ more[k + 1][1] # "-1"
             /\ Leads(words, spec, Q, P2[k], X2[k], P2[k + 1], X2[k + 1], more[k + 1])
  <2>1. CASE k \in 0 .. K - 1
    <3>1. /\ P[k] \in Nat /\ 1 <= P[k] /\ Upto(P[k], P[k + 1]) \in Nat /\ Upto(P[k], P[k + 1]) <= reach
          /\ Pair(results[k + 1]) /\ results[k + 1][1] # "-1"
          /\ Leads(words, spec, O, P[k], X[k], P[k + 1], X[k + 1], results[k + 1])
      BY <1>1, <2>1 DEF Follows
    <3>2. more[k + 1] = results[k + 1]
      BY <1>2, <2>1
    <3>3. \A i \in P[k] .. Upto(P[k], P[k + 1]) - 1 : Q[i] = O[i]
      BY <3>1
    <3>4. Leads(words, spec, Q, P[k], X[k], P[k + 1], X[k + 1], results[k + 1])
      BY <3>1, <3>3, LeadsAlike
    <3>5. Upto(P[k], P[k + 1]) <= far
      BY <3>1
    <3> QED
      BY <1>4, <2>1, <3>1, <3>2, <3>4, <3>5
  <2>2. CASE k = K
    BY <1>2, <1>3, <1>5, <2>2
  <2> QED
    BY <1>2, <2>1, <2>2
<1>8. Follows(words, spec, Q, far, more, L, P2, X2)
  BY <1>3, <1>6, <1>7 DEF Follows
<1> QED
  BY <1>3, <1>8 DEF Traced

\* The chain of no calls.
LEMMA TracedStart ==
  ASSUME NEW words, NEW spec, NEW O, NEW reach, NEW results
  PROVE  Traced(words, spec, O, reach, results, 0, 1, Null)
<1> DEFINE P == [k \in {0} |-> 1]
           X == [k \in {0} |-> Null]
<1>1. P[0] = 1 /\ X[0] = Null /\ ~(\E k \in 0 .. 0 - 1 : TRUE)
  OBVIOUS
<1> HIDE DEF P, X
<1> QED
  BY <1>1 DEF Traced, Follows

\* The order that another state has, as far as the calls so far have looked.
LEMMA TracedAlike ==
  ASSUME NEW words, NEW spec, NEW O, NEW reach \in Nat, NEW results, NEW K \in Nat, NEW p, NEW x,
         Traced(words, spec, O, reach, results, K, p, x),
         NEW Q, \A i \in 1 .. reach - 1 : Q[i] = O[i],
         NEW more, \A k \in 1 .. K : more[k] = results[k]
  PROVE  Traced(words, spec, Q, reach, more, K, p, x)
<1>1. PICK P, X : Follows(words, spec, O, reach, results, K, P, X) /\ P[K] = p /\ X[K] = x
  BY DEF Traced
<1>2. ASSUME NEW k \in 0 .. K - 1
      PROVE  /\ P[k] \in Nat /\ 1 <= P[k] /\ Upto(P[k], P[k + 1]) \in Nat /\ Upto(P[k], P[k + 1]) <= reach
             /\ Pair(more[k + 1]) /\ more[k + 1][1] # "-1"
             /\ Leads(words, spec, Q, P[k], X[k], P[k + 1], X[k + 1], more[k + 1])
  <2>1. /\ P[k] \in Nat /\ 1 <= P[k] /\ Upto(P[k], P[k + 1]) \in Nat /\ Upto(P[k], P[k + 1]) <= reach
        /\ Pair(results[k + 1]) /\ results[k + 1][1] # "-1"
        /\ Leads(words, spec, O, P[k], X[k], P[k + 1], X[k + 1], results[k + 1])
    BY <1>1 DEF Follows
  <2>2. more[k + 1] = results[k + 1]
    <3>1. k + 1 \in 1 .. K
      OBVIOUS
    <3> QED
      BY <3>1
  <2>3. \A i \in P[k] .. Upto(P[k], P[k + 1]) - 1 : Q[i] = O[i]
    BY <2>1
  <2>4. Leads(words, spec, Q, P[k], X[k], P[k + 1], X[k + 1], results[k + 1])
    BY <2>1, <2>3, LeadsAlike
  <2> QED
    BY <2>1, <2>2, <2>4
<1>3. Follows(words, spec, Q, reach, more, K, P, X)
  BY <1>1, <1>2 DEF Follows
<1> QED
  BY <1>1, <1>3 DEF Traced

\* A complete scan: K calls lead to a place where the next one ends it, with optind = m.
Completes(words, spec, A, m, results, K, p, P, X) ==
  /\ p \in Nat /\ p <= Len(words) + 1
  /\ Follows(words, spec, A, p, results, K, P, X) /\ P[K] = p /\ X[K] = Null
  /\ Pair(results[K + 1]) /\ results[K + 1][1] = "-1" /\ results[K + 1][2] = Null
  /\ Closes(words, spec, A, p, m)
Finished(words, spec, A, m, results, K) ==
  \E p, P, X : Completes(words, spec, A, m, results, K, p, P, X)

\* A call of the first scan that does not end it.
Continues(d, r) ==
  /\ r.code # "-1" /\ Scanning(r.data) /\ r.data.words = d.words /\ r.data.spec = d.spec
  /\ r.code \notin Trouble =>
       \A results, more :
         \A K \in Nat :
           /\ Trace(d, results, K) /\ (\A k \in 1 .. K : more[k] = results[k])
           /\ Pair(more[K + 1]) /\ more[K + 1][1] = r.code /\ more[K + 1][2] = r.arg
           => Trace(r.data, more, K + 1)

\* Only the code and the argument of a result matter.
LEMMA LeadsSame ==
  ASSUME NEW words, NEW spec, NEW O, NEW p, NEW x, NEW q, NEW y, NEW res, NEW to,
         Leads(words, spec, O, p, x, q, y, res), to[1] = res[1], to[2] = res[2]
  PROVE  Leads(words, spec, O, p, x, q, y, to)
  BY Zenon DEF Leads

\* The step from g, where the call of d reads on.
LEMMA StepContinues ==
  ASSUME NEW d, Scanning(d), NEW g, Scanning(g), NEW r, NEW k, NEW y, Takes(r, g, k, y),
         g.optind <= Len(d.words),
         g.words = d.words, g.spec = d.spec, Place(g) = Place(d),
         \A q \in 1 .. Reach(d) - 1 : Order(g)[q] = Order(d)[q],
         r.code \notin Trouble =>
           Leads(d.words, d.spec, Order(g), Place(d), d.nextchar, Place(d) + k, y, <<r.code, r.arg>>)
  PROVE  Continues(d, r)
<1> DEFINE m == Moved(g, g.optind + k, y)
           p == Place(d)
           res == <<r.code, r.arg>>
<1>1. r = Returns(m, r.code, r.arg) /\ r.code # "-1" /\ k \in 0 .. 3 /\ g.optind + k <= Len(g.words) + 1
        /\ (k = 0 <=> y # Null)
  BY DEF Takes, Took
<1>2. r.data = m
  BY <1>1, ReturnsFields
<1>3. p \in Nat /\ 1 <= p /\ g.optind \in Nat /\ Len(g.words) \in Nat
  BY ReadySegments DEF Scanning
<1>4. Scanning(m) /\ Place(m) = p + k /\ Order(m) = Order(g)
  <2> DEFINE o == g.optind + k
  <2>1. o \in Nat /\ g.optind <= o /\ o <= Len(g.words) + 1 /\ o - g.optind = k
    BY <1>1, <1>3
  <2>2. y # Null => o <= Len(g.words)
    BY <1>1, <1>3
  <2> HIDE DEF o
  <2>3. Scanning(Moved(g, o, y)) /\ Place(Moved(g, o, y)) = Place(g) + (o - g.optind)
          /\ Order(Moved(g, o, y)) = Order(g)
    BY <2>1, <2>2, MovedScans
  <2> QED
    BY <2>1, <2>3 DEF o
<1>5. m.words = d.words /\ m.spec = d.spec /\ m.nextchar = y
  BY MovedFields
<1> HIDE DEF m
<1>6. Reach(d) \in Nat /\ Reach(m) \in Nat /\ Reach(d) <= Reach(m) /\ Upto(p, p + k) <= Reach(m)
  <2>1. Reach(d) \in Nat /\ Reach(d) <= p + 1
    BY <1>3 DEF Reach
  <2>2. CASE k = 0
    <3>1. y # Null /\ p + k = p
      BY <1>1, <1>3, <2>2
    <3>2. Reach(m) = p + 1 /\ Upto(p, p + k) = p + 1
      BY <1>4, <1>5, <3>1 DEF Reach, Upto
    <3> QED
      BY <1>3, <2>1, <3>2
  <2>3. CASE k # 0
    <3>1. y = Null /\ p + k # p /\ p + 1 <= p + k /\ p + k \in Nat
      BY <1>1, <1>3, <2>3
    <3>2. Reach(m) = p + k /\ Upto(p, p + k) = p + k
      BY <1>4, <1>5, <3>1 DEF Reach, Upto
    <3> QED
      BY <1>3, <2>1, <3>1, <3>2
  <2> QED
    BY <2>2, <2>3
<1>7. res[1] = r.code /\ res[2] = r.arg
  OBVIOUS
<1>8. r.code \notin Trouble => Leads(d.words, d.spec, Order(g), p, d.nextchar, p + k, y, res)
  OBVIOUS
<1> HIDE DEF res
<1>9. ASSUME r.code \notin Trouble, NEW results, NEW more, NEW K \in Nat, Trace(d, results, K),
             \A j \in 1 .. K : more[j] = results[j],
             Pair(more[K + 1]), more[K + 1][1] = r.code, more[K + 1][2] = r.arg
      PROVE  Trace(m, more, K + 1)
  <2> DEFINE to == more[K + 1]
             q == p + k
             far == Reach(m)
  <2>1. Pair(to) /\ to[1] = r.code /\ to[2] = r.arg /\ to[1] # "-1" /\ to[1] = res[1] /\ to[2] = res[2]
    BY <1>1, <1>7, <1>9
  <2>2. q \in Nat
    BY <1>1, <1>3
  <2>3. Leads(d.words, d.spec, Order(g), p, d.nextchar, q, y, res)
    BY <1>8, <1>9
  <2>4. Leads(d.words, d.spec, Order(g), p, d.nextchar, q, y, to)
    <3> HIDE DEF to, q, p
    <3> QED
      BY <2>1, <2>3, LeadsSame
  <2>5. Traced(d.words, d.spec, Order(d), Reach(d), results, K, p, d.nextchar)
    BY <1>9 DEF Trace
  <2>6. Traced(d.words, d.spec, Order(g), far, more, K + 1, q, y)
    <3> DEFINE O == Order(d) Q == Order(g) reach == Reach(d) x == d.nextchar
    <3>1. /\ Traced(d.words, d.spec, O, reach, results, K, p, x) /\ reach \in Nat /\ far \in Nat /\ reach <= far
          /\ Upto(p, q) <= far /\ Leads(d.words, d.spec, Q, p, x, q, y, more[K + 1])
          /\ Pair(more[K + 1]) /\ more[K + 1][1] # "-1"
          /\ \A i \in 1 .. reach - 1 : Q[i] = O[i]
          /\ p \in Nat /\ 1 <= p /\ q \in Nat
      BY <1>3, <1>6, <2>1, <2>2, <2>4, <2>5
    <3> HIDE DEF O, Q, reach, x, q, p, far, to
    <3>2. Traced(d.words, d.spec, Q, far, more, K + 1, q, y)
      BY <1>9, <3>1, TracedMore
    <3> QED
      BY <3>2 DEF Q
  <2> QED
    BY <1>4, <1>5, <2>6 DEF Trace
<1> QED
  BY <1>1, <1>2, <1>4, <1>5, <1>9 DEF Continues

\* A call of the first scan.
LEMMA FirstCall ==
  ASSUME NEW d, Scanning(d)
  PROVE  LET r == getopt_internal_r(d) IN Continues(d, r) \/ (d.nextchar = Null /\ Ended(d, r))
<1> DEFINE r == getopt_internal_r(d)
           g == Permuted(d)
           p == Place(d)
<1>1. CASE d.nextchar # Null
  <2>1. PICK k, y :
           /\ Takes(r, d, k, y) /\ d.optind <= Len(d.words)
           /\ r.code \notin Trouble =>
                Leads(d.words, d.spec, Order(d), Place(d), d.nextchar, Place(d) + k, y, <<r.code, r.arg>>)
    BY <1>1, MidStep
  <2> HIDE DEF r
  <2>2. Continues(d, r)
    BY <2>1, StepContinues
  <2> QED
    BY <2>2 DEF r
<1>2. CASE d.nextchar = Null
  <2>1. CASE AtDashes(g)
    BY <1>2, <2>1, DashesReached
  <2>2. CASE g.optind = Len(d.words) + 1
    BY <1>2, <2>2, OverReached
  <2>3. CASE g.optind <= Len(d.words) /\ ~AtDashes(g) /\ Plain(g) /\ g.ordering = "REQUIRE_ORDER"
    BY <1>2, <2>3, StopReached
  <2>4. CASE g.optind <= Len(d.words) /\ ~AtDashes(g) /\ ~(Plain(g) /\ g.ordering = "REQUIRE_ORDER")
    <3>1. PICK k, y :
             /\ Takes(r, g, k, y)
             /\ r.code \notin Trouble =>
                  Leads(d.words, d.spec, Order(g), Place(d), Null, Place(d) + k, y, <<r.code, r.arg>>)
      BY <1>2, <2>4, NewStep
    <3>2. /\ Scanning(g) /\ Ready(d) /\ \A q \in 1 .. Place(d) - 1 : Order(g)[q] = Order(d)[q]
      BY <1>2, FindingScans DEF Scanning
    <3>3. g.words = d.words /\ g.spec = d.spec /\ Place(g) = Place(d)
      BY <1>2, <3>2, Finding
    <3>4. Reach(d) = Place(d)
      BY <1>2 DEF Reach
    <3>5. g.optind <= Len(d.words)
      BY <2>4
    <3> HIDE DEF r, g
    <3>6. Continues(d, r)
      BY <1>2, <3>1, <3>2, <3>3, <3>4, <3>5, StepContinues
    <3> QED
      BY <3>6 DEF r
  <2>5. g.optind = Len(d.words) + 1 \/ g.optind <= Len(d.words)
    <3>1. Ready(d)
      BY DEF Scanning
    <3>2. Ready(g) /\ g.words = d.words
      BY <1>2, <3>1, Finding
    <3> HIDE DEF g
    <3> QED
      BY <3>2, ReadySegments
  <2> QED
    BY <2>1, <2>2, <2>3, <2>4, <2>5
<1> QED
  BY <1>1, <1>2

\* What a first scan without trouble leaves is complete.
LEMMA EndsFinished ==
  ASSUME NEW d, Scanning(d), d.nextchar = Null, NEW r, Ended(d, r), NEW results, NEW K \in Nat,
         Trace(d, results, K),
         NEW more, \A k \in 1 .. K : more[k] = results[k],
         Pair(more[K + 1]), more[K + 1][1] = r.code, more[K + 1][2] = r.arg
  PROVE  Finished(d.words, d.spec, r.data.argv, r.data.optind, more, K)
<1> DEFINE p == Place(d)
           A == r.data.argv
           O == Order(d)
<1>1. Ready(d) /\ p \in Nat /\ p <= Len(d.words) + 1
  <2>1. Ready(d)
    BY DEF Scanning
  <2> QED
    BY <2>1, ReadySegments
<1>2. Reach(d) = p
  BY DEF Reach
<1>3. Traced(d.words, d.spec, O, p, results, K, p, Null)
  BY <1>2 DEF Trace
<1>4. /\ r.code = "-1" /\ r.arg = Null /\ (\A q \in 1 .. p - 1 : A[q] = O[q])
      /\ Closes(d.words, d.spec, A, p, r.data.optind)
  BY DEF Ended
<1> HIDE DEF p, A, O
<1>5. Traced(d.words, d.spec, A, p, more, K, p, Null)
  BY <1>1, <1>3, <1>4, TracedAlike
<1>6. PICK P, X : Follows(d.words, d.spec, A, p, more, K, P, X) /\ P[K] = p /\ X[K] = Null
  BY <1>5 DEF Traced
<1>7. Completes(d.words, d.spec, A, r.data.optind, more, K, p, P, X)
  BY <1>1, <1>4, <1>6 DEF Completes
<1> QED
  BY <1>7 DEF Finished, A

\* Between two calls of a later scan: it repeats the first one.
Repeats(d, m, first, K, k) ==
  /\ Ready(d) /\ d.first = d.last /\ k \in 0 .. K
  /\ \E p, P, X : Completes(d.words, d.spec, d.argv, m, first, K, p, P, X) /\ d.optind = P[k]
     /\ d.nextchar = X[k]

\* A call of a later scan returns what the first scan's did, and permutes nothing.
LEMMA LaterCall ==
  ASSUME NEW d, NEW m, NEW first, NEW K \in Nat, NEW k, Repeats(d, m, first, K, k)
  PROVE  LET r == getopt_internal_r(d) IN
         /\ r.data.words = d.words /\ r.data.spec = d.spec /\ r.data.argv = d.argv
         /\ r.code = first[k + 1][1] /\ r.arg = first[k + 1][2] /\ Pair(first[k + 1])
         /\ (r.code = "-1" <=> k = K)
         /\ k = K => Rest(r.data) /\ r.data.optind = m
         /\ k # K => Repeats(r.data, m, first, K, k + 1)
<1> DEFINE r == getopt_internal_r(d)
           n == Len(d.words)
<1>1. PICK p, P, X : Completes(d.words, d.spec, d.argv, m, first, K, p, P, X) /\ d.optind = P[k]
        /\ d.nextchar = X[k]
  BY DEF Repeats
<1>2. Ready(d) /\ d.first = d.last /\ k \in 0 .. K
  BY DEF Repeats
<1>3. /\ p \in Nat /\ p <= n + 1 /\ Follows(d.words, d.spec, d.argv, p, first, K, P, X) /\ P[K] = p
         /\ X[K] = Null
      /\ Pair(first[K + 1]) /\ first[K + 1][1] = "-1" /\ first[K + 1][2] = Null
         /\ Closes(d.words, d.spec, d.argv, p, m)
  BY <1>1 DEF Completes
<1>4. CASE k = K
  <2>1. /\ r.code = "-1" /\ r.arg = Null /\ Rest(r.data) /\ r.data.optind = m
        /\ r.data.argv = d.argv /\ r.data.words = d.words /\ r.data.spec = d.spec
    <3>1. d.optind = p /\ d.nextchar = Null
      BY <1>1, <1>3, <1>4
    <3> QED
      BY <1>2, <1>3, <3>1 DEF Closes
  <2> HIDE DEF r
  <2>2. /\ r.code = first[k + 1][1] /\ r.arg = first[k + 1][2] /\ Pair(first[k + 1])
    BY <1>3, <1>4, <2>1
  <2>3. /\ r.data.words = d.words /\ r.data.spec = d.spec /\ r.data.argv = d.argv
        /\ r.code = first[k + 1][1] /\ r.arg = first[k + 1][2] /\ Pair(first[k + 1])
        /\ (r.code = "-1" <=> k = K)
        /\ k = K => Rest(r.data) /\ r.data.optind = m
        /\ k # K => Repeats(r.data, m, first, K, k + 1)
    BY <1>4, <2>1, <2>2
  <2> QED
    BY <2>3 DEF r
<1>5. CASE k # K
  <2>1. k \in 0 .. K - 1 /\ k + 1 \in 0 .. K
    BY <1>2, <1>5
  <2>2. /\ P[k] \in Nat /\ 1 <= P[k] /\ Upto(P[k], P[k + 1]) \in Nat /\ Upto(P[k], P[k + 1]) <= p
        /\ Pair(first[k + 1]) /\ first[k + 1][1] # "-1"
        /\ Leads(d.words, d.spec, d.argv, P[k], X[k], P[k + 1], X[k + 1], first[k + 1])
    BY <1>3, <2>1 DEF Follows
  <2>3. n \in Nat
    BY <1>2, ReadySegments
  <2>4. \A i \in P[k] .. Upto(P[k], P[k + 1]) - 1 : i <= n /\ d.argv[i] = d.argv[i]
    BY <1>3, <2>2, <2>3
  <2>5. /\ r.code = first[k + 1][1] /\ r.arg = first[k + 1][2]
        /\ Ready(r.data) /\ r.data.first = r.data.last /\ r.data.optind = P[k + 1] /\ r.data.nextchar = X[k + 1]
        /\ r.data.argv = d.argv /\ r.data.words = d.words /\ r.data.spec = d.spec
    BY <1>1, <1>2, <2>2, <2>4 DEF Leads
  <2> HIDE DEF r
  <2>6. Repeats(r.data, m, first, K, k + 1)
    BY <1>1, <2>1, <2>5 DEF Repeats
  <2>7. /\ r.data.words = d.words /\ r.data.spec = d.spec /\ r.data.argv = d.argv
        /\ r.code = first[k + 1][1] /\ r.arg = first[k + 1][2] /\ Pair(first[k + 1])
        /\ (r.code = "-1" <=> k = K)
        /\ k = K => Rest(r.data) /\ r.data.optind = m
        /\ k # K => Repeats(r.data, m, first, K, k + 1)
    BY <1>5, <2>2, <2>5, <2>6
  <2> QED
    BY <2>7 DEF r
<1> QED
  BY <1>4, <1>5

------------------------------------------------------------------------------
(***************************************************************************)
(* The scans of a program.  Along the first one the chain grows; a later   *)
(* one follows it, call by call.                                           *)
(***************************************************************************)
IsSeq(s) == \E S : s \in Seq(S)

\* Sequences of results, whatever they are made of.
LEMMA AppendIs ==
  ASSUME NEW s, IsSeq(s), NEW e
  PROVE  LET t == Append(s, e) IN
         /\ IsSeq(t) /\ Len(s) \in Nat /\ Len(t) = Len(s) + 1 /\ (\A k \in 1 .. Len(s) : t[k] = s[k])
            /\ t[Len(s) + 1] = e
         /\ DOMAIN s = 1 .. Len(s) /\ DOMAIN t = 1 .. Len(s) + 1
<1>1. PICK S : s \in Seq(S)
  BY DEF IsSeq
<1> DEFINE T == S \cup {e}
<1>2. s \in Seq(T) /\ e \in T
  BY <1>1
<1> HIDE DEF T
<1> DEFINE t == Append(s, e)
<1>3. /\ t \in Seq(T) /\ Len(t) = Len(s) + 1 /\ (\A k \in 1 .. Len(s) : t[k] = s[k]) /\ t[Len(s) + 1] = e
  BY <1>2, AppendProperties
<1> HIDE DEF t
<1>4. Len(s) \in Nat /\ DOMAIN s = 1 .. Len(s) /\ DOMAIN t = 1 .. Len(s) + 1
  BY <1>1, <1>3
<1>5. IsSeq(t)
  BY <1>3 DEF IsSeq
<1> QED
  BY <1>3, <1>4, <1>5 DEF t

\* No results.
LEMMA EmptyIs == IsSeq(<<>>) /\ Len(<<>>) = 0 /\ ~Lacked(<<>>) /\ ~(\E k \in 1 .. 0 : TRUE)
<1>1. <<>> \in Seq({})
  OBVIOUS
<1>2. Len(<<>>) = 0 /\ DOMAIN <<>> = {} /\ ~(\E k \in 1 .. 0 : TRUE)
  OBVIOUS
<1> QED
  BY <1>1, <1>2 DEF IsSeq, Lacked

\* A sequence is empty if it has no elements.
LEMMA EmptyOnly ==
  ASSUME NEW s, IsSeq(s)
  PROVE  Len(s) \in Nat /\ (s = <<>> <=> Len(s) = 0)
<1>1. PICK S : s \in Seq(S)
  BY DEF IsSeq
<1> QED
  BY <1>1, EmptySeq

\* Sequences are the same if their elements are.
LEMMA SameSeq ==
  ASSUME NEW s, IsSeq(s), NEW t, IsSeq(t), Len(s) = Len(t), \A k \in 1 .. Len(s) : s[k] = t[k]
  PROVE  s = t
<1>1. PICK S : s \in Seq(S)
  BY DEF IsSeq
<1>2. PICK T : t \in Seq(T)
  BY DEF IsSeq
<1>3. s = [k \in 1 .. Len(s) |-> s[k]]
  BY <1>1
<1>4. t = [k \in 1 .. Len(t) |-> t[k]]
  BY <1>2
<1> QED
  BY <1>3, <1>4

\* One more result adds its own trouble.
LEMMA LackedMore ==
  ASSUME NEW results, NEW L \in Nat, DOMAIN results = 1 .. L, NEW more, DOMAIN more = 1 .. L + 1,
         \A k \in 1 .. L : more[k] = results[k]
  PROVE  Lacked(more) <=> Lacked(results) \/ more[L + 1][1] \in Trouble
<1>1. \A k : k \in 1 .. L + 1 <=> (k \in 1 .. L \/ k = L + 1)
  OBVIOUS
<1> QED
  BY <1>1 DEF Lacked, Trouble

\* The state from which the next call reads on, after k calls of a scan.
Current(d, k) == IF k = 0 THEN Fresh(d) ELSE d

FirstOn(d, results, L) ==
  /\ L = 0 => AtStart(d)
  /\ Scanning(Current(d, L)) /\ (~Lacked(results) => Trace(Current(d, L), results, L))
FirstOver(d, results, L) ==
  /\ Rest(d) /\ Sorted(d, d.optind)
  /\ ~Lacked(results) => \E K \in Nat : L = K + 1 /\ Finished(d.words, d.spec, d.argv, d.optind, results, K)
LaterOn(d, m, results, L, first, K) ==
  /\ L = 0 => AtStart(d)
  /\ Repeats(Current(d, L), m, first, K, L) /\ \A k \in 1 .. L : results[k] = first[k]
LaterOver(d, m, results, first) == Rest(d) /\ d.optind = m /\ results = first
LaterGoes(d, results, L, first) ==
  \E m : \E K \in Nat :
    /\ Sorted(d, m) /\ Len(first) = K + 1 /\ IsSeq(first) /\ Finished(d.words, d.spec, d.argv, m, first, K)
    /\ LaterOn(d, m, results, L, first, K)
LaterEnds(d, results, first) ==
  \E m : \E K \in Nat :
    /\ Sorted(d, m) /\ Len(first) = K + 1 /\ IsSeq(first) /\ Finished(d.words, d.spec, d.argv, m, first, K)
    /\ LaterOver(d, m, results, first)

GoShape(d, done, results, scans) ==
  /\ IsSeq(results) /\ IsSeq(scans) /\ done \in BOOLEAN
  /\ Len(scans) = 0 => /\ done => FirstOver(d, results, Len(results))
                       /\ ~done => FirstOn(d, results, Len(results))
  /\ Len(scans) # 0 /\ ~Lacked(scans[1]) =>
       /\ done => LaterEnds(d, results, scans[1])
       /\ ~done => LaterGoes(d, results, Len(results), scans[1])

\* A call at the start of a scan does what one after the initialisation does.
LEMMA CurrentCalled ==
  ASSUME NEW d, NEW k, k = 0 => AtStart(d)
  PROVE  /\ getopt_internal_r(d) = getopt_internal_r(Current(d, k))
         /\ Current(d, k).words = d.words /\ Current(d, k).spec = d.spec /\ Current(d, k).argv = d.argv
<1>1. CASE k = 0
  <2>1. IsData(d)
    BY <1>1 DEF AtStart
  <2> QED
    BY <1>1, <2>1, StartsFresh, FreshReady DEF Current
<1>2. CASE k # 0
  BY <1>2 DEF Current
<1> QED
  BY <1>1, <1>2

\* Sorted is about the arguments and the options only.
LEMMA SortedAlike ==
  ASSUME NEW d, NEW m, Sorted(d, m), NEW e, e.words = d.words, e.spec = d.spec, e.argv = d.argv
  PROVE  Sorted(e, m)
  BY DEF Sorted, Passed, Word

\* getopt in the first scan.
LEMMA FirstKept ==
  ASSUME NEW d, NEW results, NEW L \in Nat, FirstOn(d, results, L), DOMAIN results = 1 .. L,
         NEW r, r = getopt_internal_r(d),
         NEW more, DOMAIN more = 1 .. L + 1, \A k \in 1 .. L : more[k] = results[k],
         Pair(more[L + 1]), more[L + 1][1] = r.code, more[L + 1][2] = r.arg
  PROVE  /\ r.code = "-1" => FirstOver(r.data, more, L + 1)
         /\ r.code # "-1" => FirstOn(r.data, more, L + 1)
<1> DEFINE c == Current(d, L)
           M == L + 1
<1>1. (L = 0 => AtStart(d)) /\ Scanning(c) /\ (~Lacked(results) => Trace(c, results, L))
  BY DEF FirstOn
<1>2. r = getopt_internal_r(c)
  BY <1>1, CurrentCalled
<1> HIDE DEF c
<1>3. Continues(c, r) \/ (c.nextchar = Null /\ Ended(c, r))
  BY <1>1, <1>2, FirstCall
<1>4. Lacked(more) <=> Lacked(results) \/ r.code \in Trouble
  BY LackedMore
<1>5. CASE Continues(c, r)
  <2>1. r.code # "-1" /\ Scanning(r.data)
    BY <1>5 DEF Continues
  <2>2. ~Lacked(more) => Trace(r.data, more, M)
    BY <1>1, <1>4, <1>5 DEF Continues
  <2>3. M # 0 /\ Current(r.data, M) = r.data
    BY DEF Current
  <2> HIDE DEF M
  <2>4. FirstOn(r.data, more, M)
    BY <2>1, <2>2, <2>3 DEF FirstOn
  <2> QED
    BY <2>1, <2>4 DEF M
<1>6. CASE c.nextchar = Null /\ Ended(c, r)
  <2>1. r.code = "-1" /\ Rest(r.data) /\ r.data.words = c.words /\ r.data.spec = c.spec
          /\ Sorted(r.data, r.data.optind)
    BY <1>6 DEF Ended
  <2>2. ~Lacked(more) => Finished(r.data.words, r.data.spec, r.data.argv, r.data.optind, more, L)
    <3>1. SUFFICES ASSUME ~Lacked(more) PROVE Finished(c.words, c.spec, r.data.argv, r.data.optind, more, L)
      BY <2>1
    <3>2. Trace(c, results, L)
      BY <1>1, <1>4, <3>1
    <3> QED
      BY <1>1, <1>6, <3>2, EndsFinished
  <2>3. FirstOver(r.data, more, M)
    BY <2>1, <2>2 DEF FirstOver
  <2> QED
    BY <2>1, <2>3
<1> QED
  BY <1>3, <1>5, <1>6

\* getopt in a later scan.
LEMMA LaterKept ==
  ASSUME NEW d, NEW results, NEW L \in Nat, NEW first, LaterGoes(d, results, L, first),
         NEW r, r = getopt_internal_r(d),
         NEW more, IsSeq(more), Len(more) = L + 1, \A k \in 1 .. L : more[k] = results[k],
         Pair(more[L + 1]), more[L + 1][1] = r.code, more[L + 1][2] = r.arg
  PROVE  /\ r.code = "-1" => LaterEnds(r.data, more, first)
         /\ r.code # "-1" => LaterGoes(r.data, more, L + 1, first)
<1> DEFINE c == Current(d, L)
           M == L + 1
<1>1. PICK m : \E K \in Nat :
         /\ Sorted(d, m) /\ Len(first) = K + 1 /\ IsSeq(first) /\ Finished(d.words, d.spec, d.argv, m, first, K)
         /\ LaterOn(d, m, results, L, first, K)
  BY DEF LaterGoes
<1>2. PICK K \in Nat :
         /\ Sorted(d, m) /\ Len(first) = K + 1 /\ IsSeq(first) /\ Finished(d.words, d.spec, d.argv, m, first, K)
         /\ LaterOn(d, m, results, L, first, K)
  BY <1>1
<1>3. (L = 0 => AtStart(d)) /\ Repeats(c, m, first, K, L) /\ \A k \in 1 .. L : results[k] = first[k]
  BY <1>2 DEF LaterOn
<1>4. r = getopt_internal_r(c) /\ c.words = d.words /\ c.spec = d.spec /\ c.argv = d.argv
  BY <1>3, CurrentCalled
<1> HIDE DEF c
<1>5. /\ r.data.words = c.words /\ r.data.spec = c.spec /\ r.data.argv = c.argv
      /\ r.code = first[M][1] /\ r.arg = first[M][2] /\ Pair(first[M])
      /\ (r.code = "-1" <=> L = K)
      /\ L = K => Rest(r.data) /\ r.data.optind = m
      /\ L # K => Repeats(r.data, m, first, K, M)
  BY <1>3, <1>4, LaterCall
<1>6. Sorted(r.data, m) /\ Finished(r.data.words, r.data.spec, r.data.argv, m, first, K)
  <2>1. r.data.words = d.words /\ r.data.spec = d.spec /\ r.data.argv = d.argv
    BY <1>4, <1>5
  <2>2. Sorted(r.data, m)
    BY <1>2, <2>1, SortedAlike
  <2> QED
    BY <1>2, <2>1, <2>2
<1>7. \A k \in 1 .. M : more[k] = first[k]
  <2>1. more[M] = first[M]
    BY <1>5 DEF Pair
  <2>2. \A k \in 1 .. M : k \in 1 .. L \/ k = M
    OBVIOUS
  <2> QED
    BY <1>3, <2>1, <2>2
<1>8. ASSUME r.code = "-1" PROVE LaterEnds(r.data, more, first)
  <2>1. L = K
    BY <1>5, <1>8
  <2>2. more = first
    BY <1>2, <1>7, <2>1, SameSeq
  <2>3. LaterOver(r.data, m, more, first)
    BY <1>5, <2>1, <2>2 DEF LaterOver
  <2> QED
    BY <1>2, <1>6, <2>3 DEF LaterEnds
<1>9. ASSUME r.code # "-1" PROVE LaterGoes(r.data, more, M, first)
  <2>1. L # K
    BY <1>5, <1>9
  <2>2. M # 0 /\ Current(r.data, M) = r.data
    BY DEF Current
  <2> HIDE DEF M
  <2>3. LaterOn(r.data, m, more, M, first, K)
    BY <1>5, <1>7, <2>1, <2>2 DEF LaterOn
  <2> QED
    BY <1>2, <1>6, <2>3 DEF LaterGoes
<1> QED
  BY <1>8, <1>9

\* A caller that starts again.
LEMMA Rewound ==
  ASSUME NEW d, Rest(d), NEW start \in {0, 1}, NEW e, e = [d EXCEPT !.optind = start]
  PROVE  AtStart(e) /\ e.words = d.words /\ e.spec = d.spec /\ e.argv = d.argv
<1>1. IsData(d) /\ d.initialized = TRUE /\ d.ordering = Ordering(d.spec) /\ d.nextchar = Null
        /\ 1 <= d.first /\ 1 <= d.last
  BY DEF Rest
<1>2. e = Moved(d, start, d.nextchar) /\ start \in Nat
  BY <1>1, OptindMoved
<1>3. /\ IsData(e) /\ e.words = d.words /\ e.spec = d.spec /\ e.argv = d.argv /\ e.optind = start
         /\ e.nextchar = d.nextchar
      /\ e.first = d.first /\ e.last = d.last /\ e.ordering = d.ordering /\ e.initialized = d.initialized
  BY <1>1, <1>2, MovedFields, MovedTyped
<1>4. e.optind \in {0, 1}
  BY <1>3
<1>5. e.initialized \in BOOLEAN
  BY <1>1, <1>3
<1>6. e.nextchar = Null /\ 1 <= e.first /\ 1 <= e.last /\ e.ordering = Ordering(e.spec)
  BY <1>1, <1>3
<1>7. AtStart(e)
  BY <1>3, <1>4, <1>5, <1>6 DEF AtStart
<1> QED
  BY <1>3, <1>7

\* A scan that starts again is at the beginning of the first one's chain.
LEMMA Restarts ==
  ASSUME NEW e, AtStart(e), NEW m, Sorted(e, m), NEW K \in Nat, NEW first, IsSeq(first), Len(first) = K + 1,
         Finished(e.words, e.spec, e.argv, m, first, K), NEW results, NEW L, L = 0
  PROVE  LaterGoes(e, results, L, first)
<1> DEFINE c == Fresh(e)
<1>1. /\ Ready(c) /\ c.words = e.words /\ c.spec = e.spec /\ c.argv = e.argv
      /\ c.optind = 1 /\ c.nextchar = Null /\ c.first = 1 /\ c.last = 1
  <2>1. IsData(e)
    BY DEF AtStart
  <2> QED
    BY <2>1, FreshReady
<1>2. Current(e, L) = c
  BY DEF Current
<1> HIDE DEF c
<1>3. PICK p, P, X : Completes(e.words, e.spec, e.argv, m, first, K, p, P, X)
  BY DEF Finished
<1>4. P[0] = 1 /\ X[0] = Null
  BY <1>3 DEF Completes, Follows
<1>5. Repeats(c, m, first, K, L)
  <2>1. L \in 0 .. K
    OBVIOUS
  <2> QED
    BY <1>1, <1>3, <1>4, <2>1 DEF Repeats
<1>6. LaterOn(e, m, results, L, first, K)
  <2>1. \A k \in 1 .. L : FALSE
    OBVIOUS
  <2> QED
    BY <1>2, <1>5, <2>1 DEF LaterOn
<1> QED
  BY <1>6 DEF LaterGoes

\* A call keeps the shape of the scans.
LEMMA ShapeCalled ==
  ASSUME NEW d, NEW done, ~done, NEW results, NEW scans, GoShape(d, done, results, scans),
         NEW r, r = getopt_internal_r(d), NEW over, over = (r.code = "-1"),
         NEW more, more = Append(results, <<r.code, r.arg>>)
  PROVE  GoShape(r.data, over, more, scans)
<1> DEFINE L == Len(results)
           e == <<r.code, r.arg>>
<1>1. IsSeq(results) /\ IsSeq(scans) /\ done = FALSE
  BY DEF GoShape
<1>2. /\ IsSeq(more) /\ L \in Nat /\ Len(more) = L + 1 /\ (\A k \in 1 .. L : more[k] = results[k])
         /\ more[L + 1] = e
      /\ DOMAIN results = 1 .. L /\ DOMAIN more = 1 .. L + 1
  BY <1>1, AppendIs
<1>3. e[1] = r.code /\ e[2] = r.arg
  OBVIOUS
<1>4. Pair(e)
  BY <1>3 DEF Pair
<1> HIDE DEF e, L
<1>5. over \in BOOLEAN /\ (over <=> r.code = "-1")
  OBVIOUS
<1>8. Pair(more[L + 1]) /\ more[L + 1][1] = r.code /\ more[L + 1][2] = r.arg
  BY <1>2, <1>3, <1>4
<1>6. ASSUME Len(scans) = 0
      PROVE  (over => FirstOver(r.data, more, L + 1)) /\ (~over => FirstOn(r.data, more, L + 1))
  <2>1. FirstOn(d, results, L)
    BY <1>1, <1>6 DEF GoShape, L
  <2> QED
    BY ONLY r = getopt_internal_r(d), <1>2, <1>5, <1>8, <2>1, FirstKept
<1>7. ASSUME Len(scans) # 0, ~Lacked(scans[1])
      PROVE  /\ over => LaterEnds(r.data, more, scans[1])
             /\ ~over => LaterGoes(r.data, more, L + 1, scans[1])
  <2> DEFINE f == scans[1]
  <2>1. LaterGoes(d, results, L, f)
    BY <1>1, <1>7 DEF GoShape, L
  <2> HIDE DEF f
  <2>2. (over => LaterEnds(r.data, more, f)) /\ (~over => LaterGoes(r.data, more, L + 1, f))
    BY ONLY r = getopt_internal_r(d), <1>1, <1>2, <1>5, <1>8, <2>1, LaterKept
  <2> QED
    BY <2>2 DEF f
<1> QED
  BY <1>1, <1>2, <1>5, <1>6, <1>7 DEF GoShape

\* So does starting again.
LEMMA ShapeRewound ==
  ASSUME NEW d, NEW done, done, NEW results, NEW scans, GoShape(d, done, results, scans),
         NEW start \in {0, 1}, NEW e, e = [d EXCEPT !.optind = start], NEW over, over = FALSE,
         NEW none, none = <<>>, NEW more, more = Append(scans, results)
  PROVE  GoShape(e, over, none, more)
<1>1. IsSeq(results) /\ IsSeq(scans) /\ done = TRUE
  BY DEF GoShape
<1>2. /\ IsSeq(more) /\ Len(scans) \in Nat /\ Len(more) = Len(scans) + 1
      /\ (\A k \in 1 .. Len(scans) : more[k] = scans[k]) /\ more[Len(scans) + 1] = results
  BY <1>1, AppendIs
<1>3. IsSeq(none) /\ Len(none) = 0
  BY EmptyIs
<1>4. Len(more) # 0
  BY <1>2
<1>5. ASSUME ~Lacked(more[1]) PROVE LaterGoes(e, none, Len(none), more[1])
  <2>1. CASE Len(scans) = 0
    <3>1. more[1] = results
      BY <1>2, <2>1
    <3>2. FirstOver(d, results, Len(results))
      BY <1>1, <2>1 DEF GoShape
    <3>3. Rest(d) /\ Sorted(d, d.optind)
      BY <3>2 DEF FirstOver
    <3>4. PICK K \in Nat : Len(results) = K + 1 /\ Finished(d.words, d.spec, d.argv, d.optind, results, K)
      BY <1>5, <3>1, <3>2 DEF FirstOver
    <3>5. AtStart(e) /\ e.words = d.words /\ e.spec = d.spec /\ e.argv = d.argv
      BY <3>3, Rewound
    <3>6. Sorted(e, d.optind)
      BY <3>3, <3>5, SortedAlike
    <3> DEFINE m == d.optind
               w == e.words
               f == more[1]
    <3>7. Sorted(e, m) /\ Finished(e.words, e.spec, e.argv, m, f, K) /\ IsSeq(f) /\ Len(f) = K + 1
      BY <1>1, <3>1, <3>4, <3>5, <3>6
    <3> HIDE DEF m, w, f
    <3>8. LaterGoes(e, none, Len(none), f)
      BY <1>3, <3>5, <3>7, Restarts
    <3> QED
      BY <3>8 DEF f
  <2>2. CASE Len(scans) # 0
    <3>1. 1 \in 1 .. Len(scans)
      BY <1>2, <2>2
    <3>2. more[1] = scans[1]
      BY <1>2, <3>1
    <3> DEFINE f == scans[1]
    <3>3. LaterEnds(d, results, f)
      BY <1>1, <1>5, <2>2, <3>2 DEF GoShape
    <3> HIDE DEF f
    <3>4. PICK m : \E K \in Nat :
             /\ Sorted(d, m) /\ Len(f) = K + 1 /\ IsSeq(f) /\ Finished(d.words, d.spec, d.argv, m, f, K)
             /\ LaterOver(d, m, results, f)
      BY <3>3 DEF LaterEnds
    <3>5. PICK K \in Nat :
             /\ Sorted(d, m) /\ Len(f) = K + 1 /\ IsSeq(f) /\ Finished(d.words, d.spec, d.argv, m, f, K)
             /\ LaterOver(d, m, results, f)
      BY <3>4
    <3>6. Rest(d)
      BY <3>5 DEF LaterOver
    <3>7. AtStart(e) /\ e.words = d.words /\ e.spec = d.spec /\ e.argv = d.argv
      BY <3>6, Rewound
    <3>8. Sorted(e, m)
      BY <3>5, <3>7, SortedAlike
    <3>9. Finished(e.words, e.spec, e.argv, m, f, K)
      BY <3>5, <3>7
    <3>10. LaterGoes(e, none, Len(none), f)
      BY <1>3, <3>5, <3>7, <3>8, <3>9, Restarts
    <3> QED
      BY <3>2, <3>10 DEF f
  <2> QED
    BY <2>1, <2>2
<1>6. over \in BOOLEAN
  OBVIOUS
<1> QED
  BY <1>2, <1>3, <1>4, <1>5, <1>6 DEF GoShape

GoIInv == GoShape(go_data, go_done, go_results, go_first)

\* The program starts with the arguments as given and no results.
LEMMA GoStarts == GoInit => GoIInv
<1> SUFFICES ASSUME GoInit PROVE GoIInv
  OBVIOUS
<1>1. PICK words \in GoArgvs, spec \in GoSpecs :
         go_data = [words |-> words, spec |-> spec, argv |-> [i \in DOMAIN words |-> i],
                    optind |-> 1, nextchar |-> <<>>, first |-> 0, last |-> 0,
                    ordering |-> "PERMUTE", initialized |-> FALSE]
  BY DEF GoInit
<1>2. words \in Seq(Seq(STRING))
  BY GoAssumption
<1>3. Len(words) \in Nat /\ DOMAIN words = 1 .. Len(words)
  BY <1>2
<1> DEFINE d == go_data
           n == Len(words)
<1>4. /\ d.words = words /\ d.spec = spec /\ d.argv = [i \in DOMAIN words |-> i] /\ d.optind = 1
         /\ d.nextchar = <<>>
      /\ d.first = 0 /\ d.last = 0 /\ d.ordering = "PERMUTE" /\ d.initialized = FALSE
  BY <1>1
<1>5. d = [words |-> d.words, spec |-> d.spec, argv |-> d.argv, optind |-> d.optind, nextchar |-> d.nextchar,
           first |-> d.first, last |-> d.last, ordering |-> d.ordering, initialized |-> d.initialized]
  BY <1>1
<1>6. Array(d.argv, n) /\ \A i \in 1 .. n : d.argv[i] \in 1 .. n
  <2> DEFINE a == [i \in 1 .. n |-> i]
  <2>1. d.argv = a
    BY <1>3, <1>4
  <2>2. a = [i \in 1 .. n |-> a[i]] /\ \A i \in 1 .. n : a[i] \in 1 .. n
    OBVIOUS
  <2> HIDE DEF a
  <2> QED
    BY <2>1, <2>2 DEF Array
<1> HIDE DEF d
<1>7. IsData(d)
  BY <1>2, <1>3, <1>4, <1>5, <1>6 DEF IsData
<1>8. AtStart(d)
  <2>1. d.optind \in {0, 1} /\ d.initialized \in BOOLEAN /\ ~d.initialized
    BY <1>4
  <2> QED
    BY <1>7, <2>1 DEF AtStart
<1>9. Scanning(Fresh(d))
  BY <1>4, <1>7, FreshScans
<1> DEFINE c == Fresh(d)
           s == <<>>
<1>10. c.nextchar = Null /\ Place(c) = 1
  <2>1. c.optind = 1 /\ c.nextchar = Null /\ c.first = 1 /\ c.last = 1
    BY <1>7, FreshReady
  <2> QED
    BY <2>1 DEF Place
<1> HIDE DEF c
<1>11. Trace(c, s, 0)
  BY <1>10, TracedStart DEF Trace
<1>12. IsSeq(s) /\ Len(s) = 0
  BY EmptyIs
<1> HIDE DEF s
<1>13. FirstOn(d, s, 0)
  BY <1>8, <1>9, <1>11 DEF FirstOn, Current, c
<1>14. go_done = FALSE /\ go_results = s /\ go_first = s
  BY DEF GoInit, s
<1>15. GoShape(d, go_done, s, s)
  BY <1>12, <1>13, <1>14 DEF GoShape
<1> QED
  BY <1>14, <1>15 DEF GoIInv, d

\* The invariant is inductive.
LEMMA GoKept == GoIInv /\ [GoNext]_govars => GoIInv'
<1> SUFFICES ASSUME GoIInv, [GoNext]_govars PROVE GoIInv'
  OBVIOUS
<1>1. CASE getopt
  <2> DEFINE r == getopt_internal_r(go_data)
  <2>1. /\ ~go_done /\ go_data' = r.data /\ go_done' = (r.code = "-1")
        /\ go_results' = Append(go_results, <<r.code, r.arg>>) /\ go_first' = go_first
    BY <1>1 DEF getopt
  <2>2. GoShape(go_data, go_done, go_results, go_first)
    BY DEF GoIInv
  <2> DEFINE over == go_done'
             more == go_results'
  <2>3. over = (r.code = "-1") /\ more = Append(go_results, <<r.code, r.arg>>) /\ r = getopt_internal_r(go_data)
    BY <2>1
  <2> HIDE DEF r, over, more
  <2>4. GoShape(r.data, over, more, go_first)
    BY <2>1, <2>2, <2>3, ShapeCalled
  <2> QED
    BY <2>1, <2>4 DEF GoIInv, over, more
<1>2. CASE Rewind
  <2>1. PICK start \in {0, 1} : go_data' = [go_data EXCEPT !.optind = start]
    BY <1>2 DEF Rewind
  <2>2. go_done /\ go_done' = FALSE /\ go_results' = <<>> /\ go_first' = Append(go_first, go_results)
    BY <1>2 DEF Rewind
  <2>3. GoShape(go_data, go_done, go_results, go_first)
    BY DEF GoIInv
  <2> DEFINE over == go_done'
             none == go_results'
             more == go_first'
             e == go_data'
  <2>4. e = [go_data EXCEPT !.optind = start] /\ over = FALSE /\ none = <<>>
          /\ more = Append(go_first, go_results)
    BY <2>1, <2>2
  <2> HIDE DEF over, none, more, e
  <2>5. GoShape(e, over, none, more)
    BY <2>2, <2>3, <2>4, ShapeRewound
  <2> QED
    BY <2>5 DEF GoIInv, over, none, more, e
<1>3. CASE UNCHANGED govars
  BY <1>3 DEF GoIInv, govars
<1> QED
  BY <1>1, <1>2, <1>3 DEF GoNext

\* A stretch that grows, as a sequence of its own.
LEMMA GrowsIncreases ==
  ASSUME NEW a, NEW lo \in Nat, NEW hi \in Int, Grows(a, lo, hi), \A i \in lo .. hi : a[i] \in Nat
  PROVE  Increasing(SubSeq(a, lo, hi))
<1> DEFINE s == SubSeq(a, lo, hi)
<1>1. /\ s \in Seq(Nat) /\ Len(s) = IF lo <= hi THEN hi - lo + 1 ELSE 0
      /\ \A i \in 1 .. hi - lo + 1 : s[i] = a[lo + i - 1]
  BY SubSeqProperties
<1>2. DOMAIN s = 1 .. Len(s)
  BY <1>1
<1> HIDE DEF s
<1>3. ASSUME NEW i \in DOMAIN s, NEW j \in DOMAIN s, i < j PROVE s[i] < s[j]
  <2>1. lo <= hi /\ i \in 1 .. hi - lo + 1 /\ j \in 1 .. hi - lo + 1
    BY <1>1, <1>2
  <2>2. lo + i - 1 \in lo .. hi /\ lo + j - 1 \in lo .. hi /\ lo + i - 1 < lo + j - 1
    BY <1>3, <2>1
  <2> QED
    BY <1>1, <2>1, <2>2 DEF Grows
<1>4. Increasing(s)
  BY <1>3 DEF Increasing
<1> QED
  BY <1>4 DEF s

\* What a scan leaves is what GoSorted asks for.
LEMMA SortedIs ==
  ASSUME Rest(go_data), Sorted(go_data, go_data.optind)
  PROVE  /\ {go_argv[i] : i \in DOMAIN go_argv} = DOMAIN go_words
         /\ go_data.optind \in 1 .. argc(go_data)
         /\ Increasing(SubSeq(go_argv, 1, go_data.optind - 1))
         /\ Increasing(SubSeq(go_argv, go_data.optind, argc(go_data) - 1))
         /\ \A i \in go_data.optind .. argc(go_data) - 1 :
              NONOPTION_P(go_words[go_argv[i]]) \/ Escaped(go_argv[i])
<1> DEFINE d == go_data
           n == Len(d.words)
           a == d.argv
           o == d.optind
<1>1. /\ IsData(d) /\ d.ordering = Ordering(d.spec) /\ o \in 1 .. n + 1
      /\ \A v \in 1 .. n : \E i \in 1 .. n : a[i] = v
      /\ Grows(a, 1, o - 1) /\ Grows(a, o, n)
      /\ \A i \in o .. n : NONOPTION_P(Word(d, i)) \/ Passed(d, a[i])
  BY DEF Rest, Sorted
<1>2. n \in Nat /\ DOMAIN d.words = 1 .. n /\ DOMAIN a = 1 .. n /\ (\A i \in 1 .. n : a[i] \in 1 .. n)
        /\ o \in Nat
  BY <1>1 DEF IsData, Array
<1>3. argc(d) = n + 1 /\ argc(d) - 1 = n
  BY <1>2 DEF argc
<1> HIDE DEF d
<1>4. {a[i] : i \in DOMAIN a} = DOMAIN d.words
  BY <1>1, <1>2
<1>5. Increasing(SubSeq(a, 1, o - 1))
  <2> DEFINE lo == 1 hi == o - 1
  <2>1. lo \in Nat /\ hi \in Int /\ Grows(a, lo, hi)
    BY <1>1, <1>2
  <2>2. ASSUME NEW i \in lo .. hi PROVE a[i] \in Nat
    <3>1. i \in 1 .. n
      <4> HIDE DEF n, o
      <4> QED
        BY <1>1, <1>2
    <3> QED
      BY <1>2, <3>1
  <2> HIDE DEF lo, hi, a
  <2>3. Increasing(SubSeq(a, lo, hi))
    BY <2>1, <2>2, GrowsIncreases
  <2> QED
    BY <2>3 DEF lo, hi
<1>6. Increasing(SubSeq(a, o, n))
  <2>1. o \in Nat /\ n \in Int /\ Grows(a, o, n) /\ \A i \in o .. n : a[i] \in Nat
    BY <1>1, <1>2
  <2> HIDE DEF o, n, a
  <2> QED
    BY <2>1, GrowsIncreases
<1>7. ASSUME NEW i \in o .. n PROVE NONOPTION_P(d.words[a[i]]) \/ Escaped(a[i])
  <2>1. CASE Passed(d, a[i])
    <3>1. PICK k \in 1 .. a[i] - 1 :
             d.words[k] = Dashes \/ (Ordering(d.spec) = "REQUIRE_ORDER" /\ NONOPTION_P(d.words[k]))
      BY <2>1 DEF Passed
    <3>2. go_words = d.words /\ go_data = d
      BY DEF go_words, d
    <3> QED
      BY <1>1, <3>1, <3>2 DEF Escaped, Dashes
  <2>2. CASE NONOPTION_P(Word(d, i))
    BY <2>2 DEF Word
  <2> QED
    BY <1>1, <2>1, <2>2
<1> QED
  BY <1>1, <1>3, <1>4, <1>5, <1>6, <1>7 DEF go_argv, go_words, d

\* What the shape says at the end of a scan.
LEMMA ShapeSound == GoIInv => GoSound
<1> SUFFICES ASSUME GoIInv PROVE GoSound
  OBVIOUS
<1>1. GoShape(go_data, go_done, go_results, go_first)
  BY DEF GoIInv
<1>2. Len(go_first) \in Nat /\ (go_first = <<>> <=> Len(go_first) = 0)
  BY <1>1, EmptyOnly DEF GoShape
<1>3. ASSUME go_done, Rescannable PROVE Rest(go_data) /\ Sorted(go_data, go_data.optind)
  <2>1. CASE go_first = <<>>
    <3>1. FirstOver(go_data, go_results, Len(go_results))
      BY <1>1, <1>2, <1>3, <2>1 DEF GoShape
    <3> QED
      BY <3>1 DEF FirstOver
  <2>2. CASE go_first # <<>>
    <3>1. LaterEnds(go_data, go_results, go_first[1])
      BY <1>1, <1>2, <1>3, <2>2 DEF GoShape, Rescannable
    <3>2. PICK m : Sorted(go_data, m) /\ LaterOver(go_data, m, go_results, go_first[1])
      BY <3>1 DEF LaterEnds
    <3> QED
      BY <3>2 DEF LaterOver
  <2> QED
    BY <2>1, <2>2
<1>4. ASSUME go_done, go_first # <<>>, Rescannable PROVE go_results = go_first[1]
  <2>1. LaterEnds(go_data, go_results, go_first[1])
    BY <1>1, <1>2, <1>4 DEF GoShape, Rescannable
  <2>2. PICK m : LaterOver(go_data, m, go_results, go_first[1])
    BY <2>1 DEF LaterEnds
  <2> QED
    BY <2>2 DEF LaterOver
<1>5. GoSorted
  BY <1>3, SortedIs DEF GoSorted
<1>6. GoRescan
  BY <1>4 DEF GoRescan
<1> QED
  BY <1>5, <1>6 DEF GoSound

(***************************************************************************)
(* GoSound, for every argument vector, option string and number of scans:  *)
(* what getopt leaves in argv and optind when it returns -1 is the         *)
(* promised permutation, and a second scan, from optind = 0 or 1, returns  *)
(* what the first returned unless that one met an option that it refused   *)
(* or that lacks its argument (_getopt_internal_r, getopt-common.h,        *)
(* 452-682).                                                               *)
(***************************************************************************)
THEOREM GetoptIsSound == GoSpec => []GoSound
<1>1. GoInit => GoIInv
  BY GoStarts
<1>2. GoIInv /\ [GoNext]_govars => GoIInv'
  BY GoKept
<1>3. GoIInv => GoSound
  BY ShapeSound
<1> QED
  BY <1>1, <1>2, <1>3, PTL DEF GoSpec
==============================================================================
