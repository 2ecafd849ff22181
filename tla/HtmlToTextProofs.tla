-------------------------- MODULE HtmlToTextProofs --------------------------
(***************************************************************************)
(* What the output files hold after any number of runs, aborts and kills,  *)
(* for every folder and every bound; then, that only duplicates are        *)
(* dropped from a page, that in its final order it has the texts that are  *)
(* left, for every cluster tree, and that its groups stand in order.       *)
(*                                                                         *)
(* First, what sorting, the removal of duplicates and serializing do with  *)
(* the texts of a page.  Those functions of PageText are recursive: that   *)
(* such a definition defines something, and what holds of all its values,  *)
(* rests on the least element of a set of numbers.                         *)
(*                                                                         *)
(* Last, what running a command returns.                                   *)
(***************************************************************************)
EXTENDS HtmlToText, SystemCommand, FiniteSetTheorems, SequenceTheorems, TLAPS

\* A set of numbers that is not empty has a least one.
LEMMA Least ==
  ASSUME NEW S, S \subseteq Nat, S # {}
  PROVE  \E k \in S : \A m \in S : k <= m
<1> DEFINE R == {p \in Nat \X Nat : p[1] < p[2]}
<1>1. R = OpToRel(<, Nat)
  BY DEF OpToRel
<1>2. IsWellFoundedOn(R, Nat)
  BY <1>1, NatLessThanWellFounded
<1>3. PICK k \in S : \A m \in S : ~(<<m, k>> \in R)
  BY <1>2, WFMin, Zenon
<1>4. \A m \in S : m \in Nat /\ k \in Nat /\ (m < k => <<m, k>> \in R)
  OBVIOUS
<1>5. \A m \in S : ~(m < k)
  BY <1>3, <1>4, Zenon
<1> QED
  BY <1>4, <1>5

\* Induction on a set: what has 0, and every successor, has every number.
LEMMA Induct ==
  ASSUME NEW S, 0 \in S, \A k \in Nat : k \in S => k + 1 \in S
  PROVE  Nat \subseteq S
<1> SUFFICES ASSUME Nat \ S # {} PROVE FALSE
  OBVIOUS
<1>1. PICK k \in Nat \ S : \A m \in Nat \ S : k <= m
  BY Least, Zenon
<1>2. k - 1 \in Nat /\ k - 1 \in S
  BY <1>1
<1> QED
  BY <1>1, <1>2

\* A recursive definition on D with values in S: F gives the value at a point from
\* those at points of lower rank.
Descends(D, S, F, rank, N) ==
  /\ rank \in [D -> Nat]
  /\ N \in Nat
  /\ \A x \in D : rank[x] < N
  /\ F \in [D \X [D -> S] -> S]
  /\ \A x \in D, f, g \in [D -> S] :
       (\A y \in D : rank[y] < rank[x] => f[y] = g[y]) => F[<<x, f>>] = F[<<x, g>>]

\* Some function on D is the one F defines.
Solvable(D, S, F) == \E f \in [D -> S] : \A x \in D : f[x] = F[<<x, f>>]

\* Such a definition defines something.
LEMMA Recursion ==
  ASSUME NEW D, NEW S, NEW F, NEW rank, NEW N, S # {}, Descends(D, S, F, rank, N)
  PROVE  Solvable(D, S, F)
<1> USE DEF Descends
<1> DEFINE Upto(m, f) == \A x \in D : rank[x] < m => f[x] = F[<<x, f>>]
           P == {m \in Nat : \E f \in [D -> S] : Upto(m, f)}
<1>1. 0 \in P
  <2> PICK s \in S : TRUE
    OBVIOUS
  <2>1. [x \in D |-> s] \in [D -> S] /\ Upto(0, [x \in D |-> s])
    OBVIOUS
  <2> HIDE DEF Upto
  <2> QED
    BY <2>1
<1>2. ASSUME NEW m \in Nat, m \in P PROVE m + 1 \in P
  <2>1. PICK f \in [D -> S] : Upto(m, f)
    BY <1>2
  <2> DEFINE g == [x \in D |-> F[<<x, f>>]]
  <2>2. g \in [D -> S]
    OBVIOUS
  <2>3. \A x \in D : rank[x] < m => g[x] = f[x]
    BY <2>1
  <2>4. ASSUME NEW x \in D, rank[x] < m + 1 PROVE g[x] = F[<<x, g>>]
    <3>1. \A y \in D : rank[y] < rank[x] => rank[y] < m
      BY <2>4
    <3>2. F[<<x, f>>] = F[<<x, g>>]
      BY <2>2, <2>3, <3>1
    <3> QED
      BY <3>2
  <2>5. Upto(m + 1, g)
    BY <2>4
  <2> HIDE DEF Upto, g
  <2> QED
    BY <2>2, <2>5
<1>3. N \in P
  <2> HIDE DEF P
  <2> QED
    BY <1>1, <1>2, Induct
<1>4. PICK f \in [D -> S] : Upto(N, f)
  BY <1>3
<1>5. \A x \in D : f[x] = F[<<x, f>>]
  BY <1>4
<1> QED
  BY <1>5 DEF Solvable

\* Induction between two bounds.
LEMMA InductFrom ==
  ASSUME NEW lo \in Nat, NEW hi \in Nat, NEW S, lo \in S,
         \A k \in lo + 1 .. hi : k - 1 \in S => k \in S
  PROVE  \A k \in lo .. hi : k \in S
<1> DEFINE P == {j \in Nat : lo + j > hi \/ lo + j \in S}
<1>1. 0 \in P
  OBVIOUS
<1>2. \A j \in Nat : j \in P => j + 1 \in P
  <2> SUFFICES ASSUME NEW j \in Nat, j \in P PROVE j + 1 \in P
    OBVIOUS
  <2>1. CASE lo + (j + 1) > hi
    BY <2>1
  <2>2. CASE lo + (j + 1) <= hi
    <3>1. lo + j \in S /\ lo + (j + 1) \in lo + 1 .. hi /\ (lo + (j + 1)) - 1 = lo + j
      BY <2>2
    <3>2. lo + (j + 1) \in S
      BY <3>1
    <3> QED
      BY <3>2
  <2> QED
    BY <2>1, <2>2
<1> HIDE DEF P
<1>3. Nat \subseteq P
  BY <1>1, <1>2, Induct
<1> SUFFICES ASSUME NEW k \in lo .. hi PROVE k \in S
  OBVIOUS
<1>4. k - lo \in Nat /\ lo + (k - lo) = k /\ ~(k > hi)
  OBVIOUS
<1>5. k - lo \in P
  BY <1>3, <1>4
<1>6. lo + (k - lo) \in S
  BY <1>4, <1>5 DEF P
<1> QED
  BY <1>4, <1>6

\* A definition by steps: from base at lo, G gives the value at k from that at k - 1.
Stepped(f, lo, hi, base, G) ==
  f = [k \in lo .. hi |-> IF k = lo THEN base ELSE G[<<k, f[k - 1]>>]]

\* A definition by steps defines something.
LEMMA Steps ==
  ASSUME NEW lo \in Nat, NEW hi \in Nat, NEW S, NEW base \in S,
         NEW G \in [(lo + 1 .. hi) \X S -> S]
  PROVE  \E f \in [lo .. hi -> S] :
           Stepped(f, lo, hi, base, G)
<1> DEFINE D == lo .. hi
           Body(k, f) == IF k = lo THEN base ELSE G[<<k, f[k - 1]>>]
           F == [q \in D \X [D -> S] |-> Body(q[1], q[2])]
           rank == [k \in D |-> k]
<1>1. rank \in [D -> Nat] /\ (\A k \in D : rank[k] < hi + 1) /\ hi + 1 \in Nat
  OBVIOUS
<1>2. F \in [D \X [D -> S] -> S]
  <2> SUFFICES ASSUME NEW k \in D, NEW f \in [D -> S] PROVE Body(k, f) \in S
    OBVIOUS
  <2>1. CASE k = lo
    BY <2>1
  <2>2. CASE k # lo
    <3>1. k \in lo + 1 .. hi /\ k - 1 \in D
      BY <2>2
    <3>2. <<k, f[k - 1]>> \in (lo + 1 .. hi) \X S
      BY <3>1
    <3> QED
      BY <2>2, <3>2
  <2> QED
    BY <2>1, <2>2
<1>3. \A k \in D, f, g \in [D -> S] :
        (\A j \in D : rank[j] < rank[k] => f[j] = g[j]) => F[<<k, f>>] = F[<<k, g>>]
  <2> SUFFICES ASSUME NEW k \in D, NEW f \in [D -> S], NEW g \in [D -> S],
                      \A j \in D : rank[j] < rank[k] => f[j] = g[j]
               PROVE  F[<<k, f>>] = F[<<k, g>>]
    OBVIOUS
  <2>1. \A j \in D : j < k => f[j] = g[j]
    OBVIOUS
  <2>2. F[<<k, f>>] = Body(k, f) /\ F[<<k, g>>] = Body(k, g)
    OBVIOUS
  <2> HIDE DEF F, rank
  <2>3. CASE k # lo
    <3>1. k - 1 \in D /\ k - 1 < k
      BY <2>3
    <3> QED
      BY <2>3, <2>1, <2>2, <3>1
  <2> QED
    BY <2>3, <2>2
<1>4. \A k \in D, f \in [D -> S] : F[<<k, f>>] = Body(k, f)
  OBVIOUS
<1> HIDE DEF D, F, rank
<1>5. Descends(D, S, F, rank, hi + 1)
  BY <1>1, <1>2, <1>3, Zenon DEF Descends
<1>6. Solvable(D, S, F)
  BY <1>5, Recursion
<1>7. PICK f \in [D -> S] : \A k \in D : f[k] = F[<<k, f>>]
  BY <1>6 DEF Solvable
<1>8. \A k \in D : f[k] = Body(k, f)
  BY <1>4, <1>7
<1> HIDE DEF Body
<1>9. f = [k \in D |-> Body(k, f)]
  BY <1>8
<1> QED
  BY <1>9 DEF D, Body, Stepped

\* A recursive definition on 1 .. m: F gives the value at h from those below.
Falls(m, S, F) ==
  /\ m \in Nat /\ S # {}
  /\ F \in [(1 .. m) \X [1 .. m -> S] -> S]
  /\ \A h \in 1 .. m, f, g \in [1 .. m -> S] :
       (\A j \in 1 .. h - 1 : f[j] = g[j]) => F[<<h, f>>] = F[<<h, g>>]

\* Such a definition defines something.
LEMMA Descent ==
  ASSUME NEW m, NEW S, NEW F, Falls(m, S, F)
  PROVE  Solvable(1 .. m, S, F)
<1> DEFINE D == 1 .. m
           rank == [h \in D |-> h]
<1>1. m \in Nat /\ S # {}
  BY DEF Falls
<1>2. rank \in [D -> Nat] /\ (\A h \in D : rank[h] < m + 1) /\ m + 1 \in Nat
  BY <1>1
<1>3. \A h \in D, f, g \in [D -> S] :
        (\A j \in D : rank[j] < rank[h] => f[j] = g[j]) => F[<<h, f>>] = F[<<h, g>>]
  <2> SUFFICES ASSUME NEW h \in D, NEW f \in [D -> S], NEW g \in [D -> S],
                      \A j \in D : rank[j] < rank[h] => f[j] = g[j]
               PROVE  F[<<h, f>>] = F[<<h, g>>]
    OBVIOUS
  <2>1. \A j \in 1 .. h - 1 : j \in D /\ rank[j] < rank[h]
    BY <1>1
  <2>2. \A j \in 1 .. h - 1 : f[j] = g[j]
    BY <2>1
  <2> HIDE DEF rank
  <2> QED
    BY <2>2 DEF Falls
<1>4. F \in [D \X [D -> S] -> S]
  BY DEF Falls
<1> HIDE DEF D, rank
<1>5. Descends(D, S, F, rank, m + 1)
  BY <1>2, <1>3, <1>4, Zenon DEF Descends
<1>6. Solvable(D, S, F)
  BY <1>1, <1>5, Recursion
<1> QED
  BY <1>6 DEF D

-----------------------------------------------------------------------------
\* The sequence s has each element of S once.
Lists(s, S) ==
  /\ s \in Seq(S)
  /\ \A x \in S : \E i \in 1 .. Len(s) : s[i] = x
  /\ \A i, j \in 1 .. Len(s) : s[i] = s[j] => i = j

\* Concatenation, by its elements.
LEMMA Concat ==
  ASSUME NEW S, NEW s \in Seq(S), NEW t \in Seq(S)
  PROVE  /\ s \o t \in Seq(S)
         /\ Len(s \o t) = Len(s) + Len(t)
         /\ \A i \in 1 .. Len(s) : (s \o t)[i] = s[i]
         /\ \A i \in 1 .. Len(t) : (s \o t)[Len(s) + i] = t[i]
<1>1. s \o t \in Seq(S) /\ Len(s \o t) = Len(s) + Len(t)
  OBVIOUS
<1>2. \A i \in 1 .. Len(s) : (s \o t)[i] = s[i]
  OBVIOUS
<1>3. ASSUME NEW i \in 1 .. Len(t) PROVE (s \o t)[Len(s) + i] = t[i]
  OBVIOUS
<1> QED
  BY <1>1, <1>2, <1>3

\* Inserting, by its elements.
LEMMA InsertedAt ==
  ASSUME NEW S, NEW s \in Seq(S), NEW e \in S, NEW p \in 1 .. Len(s) + 1
  PROVE  /\ InsertAt(s, p, e) \in Seq(S)
         /\ Len(InsertAt(s, p, e)) = Len(s) + 1
         /\ \A i \in 1 .. p - 1 : InsertAt(s, p, e)[i] = s[i]
         /\ InsertAt(s, p, e)[p] = e
         /\ \A i \in p .. Len(s) : InsertAt(s, p, e)[i + 1] = s[i]
<1> DEFINE a == SubSeq(s, 1, p - 1)
           b == SubSeq(s, p, Len(s))
           ae == a \o <<e>>
           t == ae \o b
<1>1. a \in Seq(S) /\ Len(a) = p - 1
  OBVIOUS
<1>2. \A i \in 1 .. p - 1 : a[i] = s[i]
  OBVIOUS
<1>3. b \in Seq(S) /\ Len(b) = Len(s) - p + 1
  OBVIOUS
<1>4. \A i \in p .. Len(s) : i - p + 1 \in 1 .. Len(b) /\ b[i - p + 1] = s[i]
  OBVIOUS
<1> HIDE DEF a, b
<1>5. ae \in Seq(S) /\ Len(ae) = p /\ ae[p] = e
  BY <1>1
<1>6. \A i \in 1 .. p - 1 : ae[i] = s[i]
  BY <1>1, <1>2
<1> HIDE DEF ae
<1>7. t \in Seq(S) /\ Len(t) = Len(s) + 1
  BY <1>3, <1>5
<1>8. \A i \in 1 .. p : t[i] = ae[i]
  BY <1>3, <1>5
<1>9. \A i \in 1 .. Len(b) : t[p + i] = b[i]
  BY <1>3, <1>5
<1>10. \A i \in p .. Len(s) : t[i + 1] = s[i]
  <2> TAKE i \in p .. Len(s)
  <2>1. p + (i - p + 1) = i + 1
    OBVIOUS
  <2> QED
    BY <1>4, <1>9, <2>1
<1>11. t = InsertAt(s, p, e)
  BY DEF InsertAt, a, b, ae
<1> HIDE DEF t
<1> QED
  BY <1>5, <1>6, <1>7, <1>8, <1>10, <1>11
\* Inserting an element a list lacks.
LEMMA InsertedLists ==
  ASSUME NEW S, NEW s, Lists(s, S), NEW e, e \notin S, NEW p \in 1 .. Len(s) + 1
  PROVE  Lists(InsertAt(s, p, e), S \cup {e})
<1> DEFINE T == S \cup {e}
           t == InsertAt(s, p, e)
           n == Len(s)
<1>1. s \in Seq(T) /\ e \in T
  BY SeqMonotonic DEF Lists
<1>2. n \in Nat /\ p \in 1 .. n + 1
  BY DEF Lists
<1> HIDE DEF T
<1>3. /\ t \in Seq(T)
      /\ Len(t) = n + 1
      /\ \A i \in 1 .. p - 1 : t[i] = s[i]
      /\ t[p] = e
      /\ \A i \in p .. n : t[i + 1] = s[i]
  BY <1>1, InsertedAt
<1>4. /\ t \in Seq(S \cup {e})
      /\ Len(t) = n + 1
      /\ \A i \in 1 .. p - 1 : t[i] = s[i]
      /\ t[p] = e
      /\ \A i \in p .. n : t[i + 1] = s[i]
  BY <1>3 DEF T
<1> HIDE DEF t, n
<1> USE <1>2
<1>5. \A i \in 1 .. n + 1 :
        \/ i \in 1 .. p - 1 /\ t[i] = s[i]
        \/ i = p /\ t[i] = e
        \/ \E k \in p .. n : i = k + 1 /\ t[i] = s[k]
  <2> TAKE i \in 1 .. n + 1
  <2>1. CASE i < p
    BY <1>4, <2>1
  <2>2. CASE i > p
    <3>1. i - 1 \in p .. n /\ i = (i - 1) + 1
      BY <2>2
    <3> QED
      BY <1>4, <3>1
  <2> QED
    BY <1>4, <2>1, <2>2
<1>6. /\ \A k \in 1 .. n : s[k] \in S /\ s[k] # e
      /\ \A k, l \in 1 .. n : s[k] = s[l] => k = l
      /\ \A x \in S : \E k \in 1 .. n : s[k] = x
  BY DEF Lists, n
<1>7. \A x \in S \cup {e} : \E i \in 1 .. n + 1 : t[i] = x
  <2> TAKE x \in S \cup {e}
  <2>1. CASE x = e
    BY <1>4, <2>1
  <2>2. CASE x \in S
    <3>1. PICK k \in 1 .. n : s[k] = x
      BY <1>6, <2>2
    <3>2. CASE k < p
      BY <1>4, <3>1, <3>2
    <3>3. CASE k >= p
      <4>1. t[k + 1] = x /\ k + 1 \in 1 .. n + 1
        BY <1>4, <3>1, <3>3
      <4> QED
        BY <4>1
    <3> QED
      BY <3>2, <3>3
  <2> QED
    BY <2>1, <2>2
<1>8. \A i, j \in 1 .. n + 1 : t[i] = t[j] => i = j
  <2> SUFFICES ASSUME NEW i \in 1 .. n + 1, NEW j \in 1 .. n + 1, t[i] = t[j] PROVE i = j
    OBVIOUS
  <2> DEFINE old(h) == IF h < p THEN h ELSE h - 1
  <2>1. \A h \in 1 .. n + 1 : h # p => old(h) \in 1 .. n /\ t[h] = s[old(h)]
    BY <1>5
  <2>2. \A h \in 1 .. n + 1 : h # p => t[h] # e
    BY <1>6, <2>1
  <2>3. CASE i # p /\ j # p
    <3>1. old(i) \in 1 .. n /\ old(j) \in 1 .. n /\ s[old(i)] = s[old(j)]
      BY <2>1, <2>3
    <3>2. old(i) = old(j)
      <4> HIDE DEF old
      <4> QED
        BY <1>6, <3>1
    <3> QED
      BY <2>3, <3>2
  <2> QED
    BY <1>4, <2>2, <2>3
<1> QED
  BY <1>4, <1>7, <1>8 DEF Lists, t

\* A function on 1 .. n is a sequence.
LEMMA FunctionSeq ==
  ASSUME NEW S, NEW n \in Nat, NEW s \in [1 .. n -> S]
  PROVE  s \in Seq(S) /\ Len(s) = n
  OBVIOUS

\* The list of no element.
LEMMA EmptyLists == Lists(<<>>, {})
  BY DEF Lists

\* The list of one element.
LEMMA SingleLists ==
  ASSUME NEW e
  PROVE  Lists(<<e>>, {e})
  BY DEF Lists

\* Of two lists with nothing in common.
LEMMA ConcatLists ==
  ASSUME NEW X, NEW Y, NEW s, NEW t, Lists(s, X), Lists(t, Y), X \cap Y = {}
  PROVE  Lists(s \o t, X \cup Y)
<1> DEFINE Z == X \cup Y
           m == Len(s)
           n == Len(t)
           u == s \o t
<1>1. s \in Seq(Z) /\ t \in Seq(Z)
  BY SeqMonotonic DEF Lists
<1>2. m \in Nat /\ n \in Nat
  BY <1>1
<1> HIDE DEF Z
<1>3. /\ u \in Seq(Z) /\ Len(u) = m + n
      /\ \A i \in 1 .. m : u[i] = s[i]
      /\ \A i \in 1 .. n : u[m + i] = t[i]
  BY <1>1, Concat
<1>4. /\ \A x \in X : \E i \in 1 .. m : s[i] = x
      /\ \A i \in 1 .. m : s[i] \in X
      /\ \A i, j \in 1 .. m : s[i] = s[j] => i = j
  <2>1. \A i \in 1 .. m : s[i] \in X
    BY DEF Lists
  <2>2. /\ \A x \in X : \E i \in 1 .. m : s[i] = x
        /\ \A i, j \in 1 .. m : s[i] = s[j] => i = j
    BY Zenon DEF Lists
  <2> QED
    BY <2>1, <2>2
<1>5. /\ \A x \in Y : \E i \in 1 .. n : t[i] = x
      /\ \A i \in 1 .. n : t[i] \in Y
      /\ \A i, j \in 1 .. n : t[i] = t[j] => i = j
  <2>1. \A i \in 1 .. n : t[i] \in Y
    BY DEF Lists
  <2>2. /\ \A x \in Y : \E i \in 1 .. n : t[i] = x
        /\ \A i, j \in 1 .. n : t[i] = t[j] => i = j
    BY Zenon DEF Lists
  <2> QED
    BY <2>1, <2>2
<1> HIDE DEF u, m, n
<1>6. \A i \in 1 .. m + n : i \in 1 .. m \/ (i - m \in 1 .. n /\ m + (i - m) = i)
  BY <1>2
<1>7. \A i \in 1 .. m + n : \/ i \in 1 .. m /\ u[i] = s[i] /\ u[i] \in X
                            \/ i - m \in 1 .. n /\ u[i] = t[i - m] /\ u[i] \in Y
  <2> TAKE i \in 1 .. m + n
  <2>1. CASE i \in 1 .. m
    BY <1>3, <1>4, <2>1
  <2>2. CASE i - m \in 1 .. n /\ m + (i - m) = i
    <3>1. u[m + (i - m)] = t[i - m]
      BY <1>3, <2>2
    <3> QED
      BY <1>5, <2>2, <3>1
  <2> QED
    BY <1>6, <2>1, <2>2
<1>8. \A i, j \in 1 .. m + n : u[i] = u[j] => i = j
  <2> SUFFICES ASSUME NEW i \in 1 .. m + n, NEW j \in 1 .. m + n, u[i] = u[j]
               PROVE  i = j
    OBVIOUS
  <2>1. CASE i \in 1 .. m /\ u[i] = s[i] /\ u[i] \in X
    <3>1. j \in 1 .. m /\ u[j] = s[j]
      BY <1>7, <2>1
    <3> QED
      BY <1>4, <2>1, <3>1
  <2>2. CASE i - m \in 1 .. n /\ u[i] = t[i - m] /\ u[i] \in Y
    <3>1. j - m \in 1 .. n /\ u[j] = t[j - m]
      BY <1>7, <2>2
    <3>2. i - m = j - m
      BY <1>5, <2>2, <3>1
    <3> QED
      BY <1>2, <3>2
  <2> QED
    BY <1>7, <2>1, <2>2
<1>9. \A z \in Z : \E i \in 1 .. m + n : u[i] = z
  <2> TAKE z \in Z
  <2>1. CASE z \in X
    <3>1. PICK i \in 1 .. m : s[i] = z
      BY <1>4, <2>1
    <3>2. i \in 1 .. m + n
      BY <1>2
    <3> QED
      BY <1>3, <3>1, <3>2
  <2>2. CASE z \in Y
    <3>1. PICK i \in 1 .. n : t[i] = z
      BY <1>5, <2>2
    <3>2. m + i \in 1 .. m + n
      BY <1>2
    <3> QED
      BY <1>3, <3>1, <3>2
  <2> QED
    BY <2>1, <2>2 DEF Z
<1> QED
  BY <1>3, <1>8, <1>9 DEF Lists, Z, u

\* Of one more element.
LEMMA AppendLists ==
  ASSUME NEW X, NEW s, Lists(s, X), NEW e, e \notin X
  PROVE  Lists(Append(s, e), X \cup {e})
<1>1. Append(s, e) = s \o <<e>>
  BY DEF Lists
<1>2. Lists(<<e>>, {e}) /\ X \cap {e} = {}
  BY SingleLists
<1> QED
  BY <1>1, <1>2, ConcatLists

\* The first k elements of a list.
First(c, k) == {c[i] : i \in 1 .. k}

\* A prefix lists the first elements, forwards or backwards.
LEMMA PrefixLists ==
  ASSUME NEW X, NEW c, Lists(c, X), NEW k \in 0 .. Len(c)
  PROVE  /\ Lists(SubSeq(c, 1, k), First(c, k))
         /\ Len(SubSeq(c, 1, k)) = k
         /\ Lists(Reverse(SubSeq(c, 1, k)), First(c, k))
         /\ Len(Reverse(SubSeq(c, 1, k))) = k
<1> DEFINE P == First(c, k)
           s == SubSeq(c, 1, k)
           r == Reverse(s)
<1>1. c \in Seq(X) /\ k \in Nat
  BY DEF Lists
<1>2. Len(s) = k /\ \A i \in 1 .. k : s[i] = c[i]
  BY <1>1
<1>3. s = [i \in 1 .. k |-> c[i]]
  BY <1>1, <1>2
<1>4. [i \in 1 .. k |-> c[i]] \in Seq(P)
  <2>1. \A i \in 1 .. k : c[i] \in P
    BY DEF First
  <2> HIDE DEF P
  <2> QED
    BY <1>1, <2>1
<1>5. k \in Nat /\ s \in Seq(P) /\ Len(s) = k /\ \A i \in 1 .. k : s[i] = c[i]
  <2>1. s \in Seq(P)
    BY <1>3, <1>4, Zenon
  <2> HIDE DEF s, P
  <2> QED
    BY <1>1, <1>2, <2>1
<1>6. \A i, j \in 1 .. k : c[i] = c[j] => i = j
  <2>1. \A i \in 1 .. k : i \in 1 .. Len(c)
    BY <1>1
  <2> QED
    BY <2>1 DEF Lists
<1>7. \A x \in P : \E i \in 1 .. k : c[i] = x
  BY DEF First
<1> HIDE DEF P, s
<1>8. Lists(s, P)
  BY <1>5, <1>6, <1>7 DEF Lists
<1>9. r \in Seq(P) /\ Len(r) = k /\ \A i \in 1 .. k : r[i] = c[k - i + 1]
  BY <1>5 DEF Reverse
<1>10. \A i, j \in 1 .. k : r[i] = r[j] => i = j
  <2> TAKE i, j \in 1 .. k
  <2>1. k - i + 1 \in 1 .. k /\ k - j + 1 \in 1 .. k
    BY <1>5
  <2>2. r[i] = r[j] => k - i + 1 = k - j + 1
    BY <1>6, <1>9, <2>1
  <2> QED
    BY <1>5, <2>2
<1>11. \A x \in P : \E i \in 1 .. k : r[i] = x
  <2> TAKE x \in P
  <2>1. PICK i \in 1 .. k : c[i] = x
    BY <1>7
  <2>2. k - i + 1 \in 1 .. k /\ k - (k - i + 1) + 1 = i
    BY <1>5
  <2> QED
    BY <1>9, <2>1, <2>2
<1> HIDE DEF r
<1>12. Lists(r, P)
  BY <1>9, <1>10, <1>11 DEF Lists
<1> QED
  BY <1>5, <1>8, <1>9, <1>12 DEF P, s, r

\* Each element comes after the ones before it.
LEMMA FirstNext ==
  ASSUME NEW X, NEW c, Lists(c, X), NEW k \in 1 .. Len(c)
  PROVE  /\ First(c, k) = First(c, k - 1) \cup {c[k]}
         /\ c[k] \notin First(c, k - 1)
<1>1. k \in Nat /\ Len(c) \in Nat /\ \A i, j \in 1 .. Len(c) : c[i] = c[j] => i = j
  BY DEF Lists
<1> QED
  BY <1>1 DEF First

\* The first none, and all.
LEMMA FirstAll ==
  ASSUME NEW X, NEW c, Lists(c, X)
  PROVE  First(c, 0) = {} /\ First(c, Len(c)) = X
  BY DEF First, Lists

-----------------------------------------------------------------------------
\* What the binary search for the place of a text computes.
Searches(search, s, n, text) ==
  \A p \in (0 .. n) \X (0 .. n) :
    LET mid == (p[1] + p[2]) \div 2
    IN  search[p] = IF p[1] >= p[2] THEN p[1] + 1
                    ELSE IF Before(text, s[mid + 1]) THEN search[<<p[1], mid>>]
                                                     ELSE search[<<mid + 1, p[2]>>]

\* The middle of a range splits it.
LEMMA Middle ==
  ASSUME NEW l \in Nat, NEW r \in Nat, l < r
  PROVE  (l + r) \div 2 \in Nat /\ l <= (l + r) \div 2 /\ (l + r) \div 2 < r
OBVIOUS

\* Binary search is well defined.
LEMMA PlaceSearches ==
  ASSUME NEW s, NEW n \in Nat, Len(s) = n, NEW text
  PROVE  \E search : Place(s, text) = search[<<0, n>>] /\ Searches(search, s, n, text)
<1> DEFINE D == (0 .. n) \X (0 .. n)
           mid(p) == (p[1] + p[2]) \div 2
           Body(p, f) == IF p[1] >= p[2] THEN p[1] + 1
                         ELSE IF Before(text, s[mid(p) + 1]) THEN f[<<p[1], mid(p)>>]
                                                             ELSE f[<<mid(p) + 1, p[2]>>]
           Def(f) == f = [p \in D |-> Body(p, f)]
           rank == [p \in D |-> IF p[1] >= p[2] THEN 0 ELSE p[2] - p[1]]
<1>1. ASSUME NEW p \in D, p[1] < p[2]
      PROVE  /\ <<p[1], mid(p)>> \in D /\ rank[<<p[1], mid(p)>>] < rank[p]
             /\ <<mid(p) + 1, p[2]>> \in D /\ rank[<<mid(p) + 1, p[2]>>] < rank[p]
  <2> PICK l \in 0 .. n, r \in 0 .. n : p = <<l, r>>
    OBVIOUS
  <2> PICK m \in Int : m = (l + r) \div 2 /\ l <= m /\ m < r
    BY <1>1
  <2>1. <<l, m>> \in D /\ <<m + 1, r>> \in D
    BY <1>1
  <2>2. rank[p] = r - l /\ rank[<<l, m>>] <= m - l /\ rank[<<m + 1, r>>] <= r - m - 1
    BY <1>1, <2>1
  <2> QED
    BY <2>1, <2>2
<1>2. \A p \in D : ~(p[1] >= p[2]) => p[1] < p[2]
  OBVIOUS
<1>3. \E f \in [D -> Nat] : Def(f)
  <2> DEFINE F == [q \in D \X [D -> Nat] |-> Body(q[1], q[2])]
  <2>1. rank \in [D -> Nat] /\ \A p \in D : rank[p] < n + 1
    OBVIOUS
  <2>2. ASSUME NEW p \in D, NEW f \in [D -> Nat] PROVE Body(p, f) \in Nat
    <3>1. CASE p[1] >= p[2]
      BY <3>1
    <3>2. CASE ~(p[1] >= p[2])
      <4>1. <<p[1], mid(p)>> \in D /\ <<mid(p) + 1, p[2]>> \in D
        BY <1>1, <1>2, <3>2
      <4> HIDE DEF D, rank, mid
      <4>2. f[<<p[1], mid(p)>>] \in Nat /\ f[<<mid(p) + 1, p[2]>>] \in Nat
        BY <4>1
      <4> QED
        BY <3>2, <4>2
    <3> QED
      BY <3>1, <3>2
  <2>3. F \in [D \X [D -> Nat] -> Nat]
    <3> HIDE DEF Body, D
    <3> QED
      BY <2>2
  <2>4. ASSUME NEW p \in D, NEW f \in [D -> Nat], NEW g \in [D -> Nat],
               \A y \in D : rank[y] < rank[p] => f[y] = g[y]
        PROVE  F[<<p, f>>] = F[<<p, g>>]
    <3>1. CASE p[1] >= p[2]
      <4> QED BY <3>1
    <3>2. CASE ~(p[1] >= p[2])
      <4> HIDE DEF D, rank, mid
      <4>1. /\ f[<<p[1], mid(p)>>] = g[<<p[1], mid(p)>>]
            /\ f[<<mid(p) + 1, p[2]>>] = g[<<mid(p) + 1, p[2]>>]
        BY <1>1, <1>2, <2>4, <3>2
      <4> QED BY <3>2, <4>1
    <3> QED
      BY <3>1, <3>2
  <2>5. n + 1 \in Nat /\ Nat # {}
    OBVIOUS
  <2>6. \A p \in D, f, g \in [D -> Nat] :
          (\A y \in D : rank[y] < rank[p] => f[y] = g[y]) => F[<<p, f>>] = F[<<p, g>>]
    BY <2>4
  <2> HIDE DEF F, D, rank
  <2>7. Descends(D, Nat, F, rank, n + 1)
    BY <2>1, <2>3, <2>5, <2>6, Zenon DEF Descends
  <2>8. Solvable(D, Nat, F)
    BY <2>5, <2>7, Recursion
  <2>9. PICK f \in [D -> Nat] : \A p \in D : f[p] = F[<<p, f>>]
    BY <2>8 DEF Solvable
  <2>10. \A p \in D : F[<<p, f>>] = Body(p, f)
    BY DEF F
  <2> HIDE DEF Body
  <2> QED
    BY <2>9, <2>10
<1> PICK search : search = CHOOSE f : Def(f)
  OBVIOUS
<1>4. Def(search)
  <2> HIDE DEF Def
  <2> QED
    BY <1>3
<1>5. Place(s, text) = search[<<0, n>>]
  BY <1>4, Zenon DEF Place
<1>6. \A p \in D : search[p] = Body(p, search)
  <2> HIDE DEF D, Body
  <2> QED
    BY <1>4
<1>7. Searches(search, s, n, text)
  BY <1>6 DEF Searches
<1> QED
  BY <1>5, <1>7

\* The texts of s that the given one comes before are its last ones.
Splits(s, n, text) ==
  \A i, j \in 1 .. n : i < j /\ Before(text, s[i]) => Before(text, s[j])

\* Binary search always finds a place, whatever the comparison says; in a sorted
\* sequence it is after the texts that the given one does not precede.
LEMMA PlaceFound ==
  ASSUME NEW s, NEW n \in Nat, Len(s) = n, NEW text
  PROVE  /\ Place(s, text) \in 1 .. n + 1
         /\ Splits(s, n, text) =>
              \A i \in 1 .. n : Before(text, s[i]) <=> Place(s, text) <= i
<1> DEFINE B(i) == Before(text, s[i])
           Around(l, r) == (\A i \in 1 .. l : ~B(i)) /\ (\A i \in r + 1 .. n : B(i))
           Found(p) == p \in 1 .. n + 1 /\ \A i \in 1 .. n : B(i) <=> p <= i
           splits == Splits(s, n, text)
<1>1. PICK search : Place(s, text) = search[<<0, n>>] /\ Searches(search, s, n, text)
  BY PlaceSearches
<1>2. ASSUME NEW l \in 0 .. n, NEW r \in 0 .. n
      PROVE  LET m == (l + r) \div 2
             IN  search[<<l, r>>] = IF l >= r THEN l + 1
                                    ELSE IF B(m + 1) THEN search[<<l, m>>]
                                                     ELSE search[<<m + 1, r>>]
  <2>1. <<l, r>> \in (0 .. n) \X (0 .. n) /\ <<l, r>>[1] = l /\ <<l, r>>[2] = r
    OBVIOUS
  <2> HIDE DEF B
  <2> QED
    BY <1>1, <2>1 DEF Searches, B
<1> HIDE DEF B
<1> DEFINE Ok(l, r) == l <= r =>
             /\ search[<<l, r>>] \in 1 .. n + 1
             /\ splits /\ Around(l, r) => Found(search[<<l, r>>])
           P == {k \in Nat : \A l, r \in 0 .. n : r - l < k => Ok(l, r)}
<1>3. 0 \in P
  OBVIOUS
<1>4. ASSUME NEW k \in Nat, k \in P PROVE k + 1 \in P
  <2> SUFFICES \A l, r \in 0 .. n : r - l < k + 1 => Ok(l, r)
    <3> HIDE DEF Ok
    <3> QED OBVIOUS
  <2> SUFFICES ASSUME NEW l \in 0 .. n, NEW r \in 0 .. n, r - l < k + 1, l <= r
               PROVE  /\ search[<<l, r>>] \in 1 .. n + 1
                      /\ splits /\ Around(l, r) => Found(search[<<l, r>>])
    OBVIOUS
  <2>1. CASE l = r
    <3>1. search[<<l, r>>] = l + 1
      BY <1>2, <2>1
    <3>2. l + 1 \in 1 .. n + 1
      OBVIOUS
    <3>3. ASSUME Around(l, r) PROVE Found(l + 1)
      <4>1. \A i \in 1 .. n : i \in 1 .. l \/ i \in r + 1 .. n
        BY <2>1
      <4> QED
        BY <2>1, <3>2, <3>3, <4>1
    <3> HIDE DEF Around, Found
    <3> QED
      BY <3>1, <3>2, <3>3
  <2>2. CASE l < r
    <3> PICK m \in Nat : m = (l + r) \div 2 /\ l <= m /\ m < r
      BY <2>2, Middle
    <3>1. /\ m \in 0 .. n /\ m + 1 \in 0 .. n /\ m + 1 \in 1 .. n
          /\ m - l < k /\ r - (m + 1) < k /\ m + 1 <= r
      OBVIOUS
    <3>2. Ok(l, m) /\ Ok(m + 1, r)
      <4> HIDE DEF Ok
      <4> QED
        BY <1>4, <3>1
    <3>3. search[<<l, r>>] = IF B(m + 1) THEN search[<<l, m>>] ELSE search[<<m + 1, r>>]
      BY <1>2, <2>2
    <3>4. ASSUME B(m + 1), splits, Around(l, r) PROVE Around(l, m)
      <4>1. \A i \in m + 1 .. n : i \in 1 .. n /\ (i = m + 1 \/ m + 1 < i)
        BY <3>1
      <4>2. \A i \in m + 1 .. n : B(i)
        BY <3>1, <3>4, <4>1 DEF Splits, B
      <4> QED
        BY <3>4, <4>2
    <3>5. ASSUME ~B(m + 1), splits, Around(l, r) PROVE Around(m + 1, r)
      <4>1. \A i \in 1 .. m + 1 : i \in 1 .. n /\ (i = m + 1 \/ i < m + 1)
        BY <3>1
      <4>2. \A i \in 1 .. m + 1 : ~B(i)
        BY <3>1, <3>5, <4>1 DEF Splits, B
      <4> QED
        BY <3>5, <4>2
    <3> HIDE DEF Around, Found, splits
    <3>6. CASE B(m + 1)
      BY <3>2, <3>3, <3>4, <3>6
    <3>7. CASE ~B(m + 1)
      BY <3>1, <3>2, <3>3, <3>5, <3>7
    <3> QED
      BY <3>6, <3>7
  <2> QED
    BY <2>1, <2>2
<1>5. n + 1 \in P
  <2> HIDE DEF P
  <2> QED
    BY <1>3, <1>4, Induct
<1>6. Ok(0, n)
  <2> HIDE DEF Ok
  <2> QED
    BY <1>5
<1>7. Around(0, n)
  OBVIOUS
<1> QED
  BY <1>1, <1>6, <1>7 DEF B

\* The comparison is an order of the texts in X, up to duplicates.
Ordering(X) ==
  \A r, s, t \in X :
    /\ Before(r, s) /\ Before(s, t) => Before(r, t)
    /\ ~Before(r, s) /\ ~Before(s, t) => ~Before(r, t)
    /\ ~(Before(r, s) /\ Before(s, r))
    /\ Duplicate(r, s) <=> ~Before(r, s) /\ ~Before(s, r)

\* A relation on X, and n elements of it each related to the next.
Chain(f, n, X, R) ==
  /\ \A i \in 1 .. n : f[i] \in X
  /\ \A a, b, c \in X : <<a, b>> \in R /\ <<b, c>> \in R => <<a, c>> \in R
  /\ \A k \in 2 .. n : <<f[k - 1], f[k]>> \in R

\* Elements related each to the next are related each to all after it.
LEMMA Linked ==
  ASSUME NEW X, NEW R, NEW n \in Nat, NEW f, Chain(f, n, X, R)
  PROVE  \A i, j \in 1 .. n : i < j => <<f[i], f[j]>> \in R
<1> USE DEF Chain
<1> DEFINE P == {k \in Nat : \A i \in 1 .. n : i < k /\ k <= n => <<f[i], f[k]>> \in R}
<1>1. 0 \in P
  OBVIOUS
<1>2. ASSUME NEW k \in Nat, k \in P PROVE k + 1 \in P
  <2> SUFFICES ASSUME NEW i \in 1 .. n, i < k + 1, k + 1 <= n
               PROVE  <<f[i], f[k + 1]>> \in R
    OBVIOUS
  <2>1. k + 1 \in 2 .. n /\ (k + 1) - 1 = k /\ k \in 1 .. n /\ k + 1 \in 1 .. n
    OBVIOUS
  <2>2. <<f[k], f[k + 1]>> \in R
    BY <2>1
  <2>3. CASE i = k
    BY <2>2, <2>3
  <2>4. CASE i < k
    <3>1. <<f[i], f[k]>> \in R
      BY <1>2, <2>1, <2>4
    <3>2. f[i] \in X /\ f[k] \in X /\ f[k + 1] \in X
      BY <2>1
    <3> QED
      BY <2>2, <3>1, <3>2
  <2> QED
    BY <2>3, <2>4
<1>3. Nat \subseteq P
  <2> HIDE DEF P
  <2> QED
    BY <1>1, <1>2, Induct
<1> QED
  BY <1>3

\* The run s at the start of c: the first n texts, or the same backwards.
RunOf(s, c, n) ==
  \/ /\ \A k \in 1 .. n : s[k] = c[k]
     /\ \A k \in 2 .. n : ~Before(c[k], c[k - 1])
  \/ /\ \A k \in 1 .. n : s[k] = c[n - k + 1]
     /\ \A k \in 2 .. n : Before(c[k], c[k - 1])

\* The run at the start lists the first texts.
LEMMA InitialRunLists ==
  ASSUME NEW X, NEW c, Lists(c, X), Len(c) > 0
  PROVE  \E n \in 1 .. Len(c) : /\ Lists(InitialRun(c), First(c, n))
                                /\ Len(InitialRun(c)) = n
                                /\ RunOf(InitialRun(c), c, n)
<1> DEFINE descends == Len(c) > 1 /\ Before(c[2], c[1])
           fits(k) == Before(c[k], c[k - 1]) = descends
           OK(n) == (\A k \in 2 .. n : fits(k)) /\ (n < Len(c) => ~fits(n + 1))
           runLen == CHOOSE n \in 1 .. Len(c) : OK(n)
           head == SubSeq(c, 1, runLen)
<1>1. Len(c) \in Nat
  BY DEF Lists
<1>2. InitialRun(c) = IF descends THEN Reverse(head) ELSE head
  BY DEF InitialRun
<1>3. \E n \in 1 .. Len(c) : OK(n)
  <2> HIDE DEF fits
  <2> DEFINE B == {n \in 1 .. Len(c) : n < Len(c) => ~fits(n + 1)}
  <2>1. B \subseteq Nat /\ Len(c) \in B
    BY <1>1
  <2>2. PICK n \in B : \A m \in B : n <= m
    BY <2>1, Least
  <2>3. n \in 1 .. Len(c) /\ (n < Len(c) => ~fits(n + 1))
    OBVIOUS
  <2>4. ASSUME NEW k \in 2 .. n PROVE fits(k)
    <3>1. k - 1 \in 1 .. Len(c) /\ k - 1 \notin B /\ (k - 1) + 1 = k
      BY <1>1, <2>2, <2>3
    <3> QED
      BY <3>1
  <2> QED
    BY <2>3, <2>4
<1> HIDE DEF OK
<1>4. runLen \in 1 .. Len(c) /\ OK(runLen)
  BY <1>3
<1> HIDE DEF runLen
<1>5. \A k \in 2 .. runLen : Before(c[k], c[k - 1]) <=> descends
  BY <1>4 DEF OK
<1> HIDE DEF descends
<1>6. runLen \in 0 .. Len(c) /\ runLen \in Nat
  BY <1>4
<1>7. /\ Lists(head, First(c, runLen)) /\ Len(head) = runLen
      /\ Lists(Reverse(head), First(c, runLen)) /\ Len(Reverse(head)) = runLen
  BY <1>6, PrefixLists
<1>8. \A k \in 1 .. runLen : head[k] = c[k]
  BY <1>6 DEF Lists
<1> HIDE DEF head
<1>9. \A k \in 1 .. runLen : Reverse(head)[k] = c[runLen - k + 1]
  <2> TAKE k \in 1 .. runLen
  <2>1. runLen - k + 1 \in 1 .. runLen
    BY <1>6
  <2>2. Reverse(head)[k] = head[runLen - k + 1]
    BY <1>7 DEF Reverse
  <2> QED
    BY <1>8, <2>1, <2>2
<1>10. CASE descends
  BY <1>2, <1>4, <1>7, <1>5, <1>9, <1>10 DEF RunOf
<1>11. CASE ~descends
  BY <1>2, <1>4, <1>7, <1>5, <1>8, <1>11 DEF RunOf
<1> QED
  BY <1>10, <1>11

\* Where the comparison is an order, the run is in it.
LEMMA InitialRunOrdered ==
  ASSUME NEW X, NEW c \in Seq(X), Ordering(X), NEW n \in 1 .. Len(c),
         NEW s \in Seq(X), Len(s) = n, RunOf(s, c, n)
  PROVE  InReadingOrder(s)
<1>1. n \in Nat /\ DOMAIN s = 1 .. n /\ (\A i \in 1 .. n : c[i] \in X /\ s[i] \in X)
  OBVIOUS
<1>2. CASE /\ \A k \in 1 .. n : s[k] = c[k]
           /\ \A k \in 2 .. n : ~Before(c[k], c[k - 1])
  <2> DEFINE R == {p \in X \X X : ~Before(p[2], p[1])}
  <2>1. \A a, b, d \in X : <<a, b>> \in R /\ <<b, d>> \in R => <<a, d>> \in R
    BY DEF Ordering
  <2>2. \A k \in 2 .. n : k - 1 \in 1 .. n /\ k \in 1 .. n
    BY <1>1
  <2>3. \A k \in 2 .. n : <<c[k - 1], c[k]>> \in R
    BY <1>1, <1>2, <2>2
  <2> HIDE DEF R
  <2>4. Chain(c, n, X, R)
    BY <1>1, <2>1, <2>3 DEF Chain
  <2>5. \A i, j \in 1 .. n : i < j => <<c[i], c[j]>> \in R
    BY <1>1, <2>4, Linked
  <2> QED
    BY <1>1, <1>2, <2>5 DEF R, InReadingOrder
<1>3. CASE /\ \A k \in 1 .. n : s[k] = c[n - k + 1]
           /\ \A k \in 2 .. n : Before(c[k], c[k - 1])
  <2> DEFINE R == {p \in X \X X : Before(p[2], p[1])}
  <2>1. \A a, b, d \in X : <<a, b>> \in R /\ <<b, d>> \in R => <<a, d>> \in R
    BY DEF Ordering
  <2>2. \A k \in 2 .. n : k - 1 \in 1 .. n /\ k \in 1 .. n
    BY <1>1
  <2>3. \A k \in 2 .. n : <<c[k - 1], c[k]>> \in R
    BY <1>1, <1>3, <2>2
  <2> HIDE DEF R
  <2>4. Chain(c, n, X, R)
    BY <1>1, <2>1, <2>3 DEF Chain
  <2>5. \A i, j \in 1 .. n : i < j => <<c[i], c[j]>> \in R
    BY <1>1, <2>4, Linked
  <2>6. ASSUME NEW i \in 1 .. n, NEW j \in 1 .. n, i < j PROVE ~Before(s[j], s[i])
    <3>1. n - j + 1 \in 1 .. n /\ n - i + 1 \in 1 .. n /\ n - j + 1 < n - i + 1
      BY <1>1, <2>6
    <3>2. Before(c[n - i + 1], c[n - j + 1])
      BY <2>5, <3>1 DEF R
    <3>3. Before(s[i], s[j]) /\ s[i] \in X /\ s[j] \in X
      BY <1>1, <1>3, <3>2
    <3> QED
      BY <3>3 DEF Ordering
  <2> QED
    BY <1>1, <2>6 DEF InReadingOrder
<1> QED
  BY <1>2, <1>3 DEF RunOf

\* So is a text inserted where binary search finds its place.
LEMMA InsertedOrdered ==
  ASSUME NEW X, Ordering(X), NEW s \in Seq(X), InReadingOrder(s), NEW e \in X
  PROVE  InReadingOrder(InsertAt(s, Place(s, e), e))
<1> DEFINE n == Len(s)
           p == Place(s, e)
           t == InsertAt(s, p, e)
<1>1. n \in Nat /\ \A i \in 1 .. n : s[i] \in X
  OBVIOUS
<1>2. \A i, j \in 1 .. n : i < j => ~Before(s[j], s[i])
  BY <1>1 DEF InReadingOrder
<1>3. Splits(s, n, e)
  BY <1>1, <1>2 DEF Splits, Ordering
<1>4. p \in 1 .. n + 1 /\ \A i \in 1 .. n : Before(e, s[i]) <=> p <= i
  BY <1>1, <1>3, PlaceFound
<1>5. p \in 1 .. Len(s) + 1
  BY <1>4
<1> HIDE DEF p
<1>6. /\ t \in Seq(X)
      /\ Len(t) = n + 1
      /\ \A i \in 1 .. p - 1 : t[i] = s[i]
      /\ t[p] = e
      /\ \A i \in p .. n : t[i + 1] = s[i]
  <2>1. s \in Seq(X) /\ e \in X
    OBVIOUS
  <2> QED
    BY <1>5, <2>1, InsertedAt
<1> HIDE DEF t, n
<1>7. \A i \in 1 .. n + 1 :
        \/ i \in 1 .. n /\ i < p /\ t[i] = s[i]
        \/ i = p /\ t[i] = e
        \/ i > p /\ i - 1 \in 1 .. n /\ t[i] = s[i - 1]
  <2> TAKE i \in 1 .. n + 1
  <2>1. CASE i < p
    BY <1>1, <1>4, <1>6, <2>1
  <2>2. CASE i > p
    <3>1. i - 1 \in p .. n /\ i - 1 \in 1 .. n /\ i = (i - 1) + 1
      BY <1>1, <1>4, <2>2
    <3>2. t[(i - 1) + 1] = s[i - 1]
      BY <1>6, <3>1
    <3> QED
      BY <2>2, <3>1, <3>2
  <2> QED
    BY <1>1, <1>4, <1>6, <2>1, <2>2
<1>8. \A i \in 1 .. n : (i < p => ~Before(e, s[i])) /\ (p <= i => ~Before(s[i], e))
  BY <1>1, <1>4 DEF Ordering
<1>9. ASSUME NEW i \in 1 .. n + 1, NEW j \in 1 .. n + 1, i < j PROVE ~Before(t[j], t[i])
  <2>1. CASE i < p /\ i \in 1 .. n /\ t[i] = s[i]
    <3>1. CASE j < p /\ j \in 1 .. n /\ t[j] = s[j]
      BY <1>2, <1>9, <2>1, <3>1
    <3>2. CASE j = p /\ t[j] = e
      BY <1>8, <2>1, <3>2
    <3>3. CASE j > p /\ j - 1 \in 1 .. n /\ t[j] = s[j - 1]
      <4>1. i < j - 1
        BY <1>4, <2>1, <3>3
      <4> QED
        BY <1>2, <2>1, <3>3, <4>1
    <3> QED
      BY <1>7, <3>1, <3>2, <3>3
  <2>2. CASE i = p /\ t[i] = e
    <3>1. j - 1 \in 1 .. n /\ t[j] = s[j - 1] /\ p <= j - 1
      BY <1>4, <1>7, <1>9, <2>2
    <3> QED
      BY <1>8, <2>2, <3>1
  <2>3. CASE i > p /\ i - 1 \in 1 .. n /\ t[i] = s[i - 1]
    <3>1. j - 1 \in 1 .. n /\ t[j] = s[j - 1] /\ i - 1 < j - 1
      BY <1>4, <1>7, <1>9, <2>3
    <3> QED
      BY <1>2, <2>3, <3>1
  <2> QED
    BY <1>7, <2>1, <2>2, <2>3
<1>10. InReadingOrder(t)
  BY <1>6, <1>9 DEF InReadingOrder
<1> QED
  BY <1>10 DEF t, p

\* How sorting proceeds: after the run at the start, one text after the other.
Inserted(sorted, c) ==
  /\ sorted[Len(InitialRun(c))] = InitialRun(c)
  /\ \A k \in Len(InitialRun(c)) + 1 .. Len(c) :
       sorted[k] = InsertAt(sorted[k - 1], Place(sorted[k - 1], c[k]), c[k])

\* Sorting is well defined.
LEMMA SortedSteps ==
  ASSUME NEW X, NEW c, Lists(c, X), c # <<>>
  PROVE  \E sorted : Sorted(c) = sorted[Len(c)] /\ Inserted(sorted, c)
<1>1. c \in Seq(X) /\ Len(c) \in Nat /\ Len(c) > 0
  BY DEF Lists
<1> DEFINE head == InitialRun(c)
           lo == Len(head)
           hi == Len(c)
           insert(k, s) == InsertAt(s, Place(s, c[k]), c[k])
           Def(f) == f = [k \in lo .. hi |-> IF k = lo THEN head ELSE insert(k, f[k - 1])]
           G == [q \in (lo + 1 .. hi) \X Seq(X) |-> insert(q[1], q[2])]
<1>2. lo \in 1 .. hi /\ Lists(head, First(c, lo))
  BY <1>1, InitialRunLists
<1>3. head \in Seq(X)
  <2>1. First(c, lo) \subseteq X
    BY <1>1, <1>2 DEF First
  <2> QED
    BY <1>2, <2>1, SeqMonotonic DEF Lists
<1> DEFINE sorted == CHOOSE f : Def(f)
<1>4. Sorted(c) = sorted[hi]
  BY Zenon DEF Sorted
<1> HIDE DEF head, lo
<1>5. lo \in Nat /\ hi \in Nat
  BY <1>1, <1>2
<1>6. \A k \in lo + 1 .. hi, s \in Seq(X) : insert(k, s) \in Seq(X)
  <2> TAKE k \in lo + 1 .. hi, s \in Seq(X)
  <2>1. c[k] \in X
    BY <1>1, <1>5
  <2>2. Len(s) \in Nat
    OBVIOUS
  <2>3. Place(s, c[k]) \in 1 .. Len(s) + 1
    BY <2>2, PlaceFound
  <2> QED
    BY <2>1, <2>3, InsertedAt
<1> HIDE DEF hi
<1>7. G \in [(lo + 1 .. hi) \X Seq(X) -> Seq(X)]
  <2> HIDE DEF insert
  <2> QED
    BY <1>6
<1>8. \A k \in lo + 1 .. hi, s \in Seq(X) : G[<<k, s>>] = insert(k, s)
  <2> HIDE DEF insert
  <2> QED
    OBVIOUS
<1> HIDE DEF G
<1>9. PICK f \in [lo .. hi -> Seq(X)] :
        Stepped(f, lo, hi, head, G)
  BY <1>3, <1>5, <1>7, Steps
<1>10. Def(f)
  <2> HIDE DEF insert
  <2>1. ASSUME NEW k \in lo .. hi, k # lo PROVE G[<<k, f[k - 1]>>] = insert(k, f[k - 1])
    <3>1. k \in lo + 1 .. hi /\ k - 1 \in lo .. hi
      BY <1>5, <2>1
    <3> QED
      BY <1>8, <3>1
  <2> QED
    BY <1>9, <2>1 DEF Stepped
<1>11. Def(sorted)
  <2> HIDE DEF Def
  <2> QED
    BY <1>10
<1> HIDE DEF sorted
<1>12. /\ sorted[lo] = head
       /\ \A k \in lo + 1 .. hi : sorted[k] = insert(k, sorted[k - 1])
  <2> HIDE DEF insert
  <2>1. lo \in lo .. hi
    BY <1>2, <1>5
  <2> QED
    BY <1>5, <1>11, <2>1
<1>13. Inserted(sorted, c)
  BY <1>12 DEF Inserted, head, lo, hi
<1> QED
  BY <1>4, <1>13 DEF hi

\* Sorting loses and repeats nothing; where the comparison is an order, it leaves the
\* texts in that order.
LEMMA SortedLists ==
  ASSUME NEW X, NEW c, Lists(c, X)
  PROVE  Lists(Sorted(c), X) /\ (Ordering(X) => InReadingOrder(Sorted(c)))
<1>1. CASE c = <<>>
  <2>1. Sorted(c) = <<>>
    BY <1>1 DEF Sorted
  <2> QED
    BY <1>1, <2>1 DEF InReadingOrder
<1>2. CASE c # <<>>
  <2>1. c \in Seq(X) /\ Len(c) \in Nat /\ Len(c) > 0
    BY <1>2 DEF Lists
  <2> DEFINE lo == Len(InitialRun(c))
             hi == Len(c)
  <2>2. lo \in 1 .. hi /\ Lists(InitialRun(c), First(c, lo)) /\ RunOf(InitialRun(c), c, lo)
    BY <2>1, InitialRunLists
  <2>3. PICK sorted : Sorted(c) = sorted[hi] /\ Inserted(sorted, c)
    BY <1>2, SortedSteps
  <2>4. /\ sorted[lo] = InitialRun(c)
        /\ \A k \in lo + 1 .. hi :
             sorted[k] = InsertAt(sorted[k - 1], Place(sorted[k - 1], c[k]), c[k])
    BY <2>3 DEF Inserted
  <2>5. lo \in Nat /\ hi \in Nat
    BY <2>1, <2>2
  <2>6. \A k \in 1 .. hi : First(c, k) \subseteq X
    BY <2>1 DEF First
  <2>7. ASSUME Ordering(X) PROVE InReadingOrder(InitialRun(c))
    <3>1. First(c, lo) \subseteq X
      BY <2>2, <2>6
    <3>2. InitialRun(c) \in Seq(X)
      BY <2>2, <3>1, SeqMonotonic DEF Lists
    <3> QED
      BY <2>1, <2>2, <2>7, <3>2, InitialRunOrdered
  <2> HIDE DEF lo, hi
  <2> DEFINE P == {k \in lo .. hi : /\ Lists(sorted[k], First(c, k))
                                    /\ Ordering(X) => InReadingOrder(sorted[k])}
  <2>8. lo \in P
    BY <2>2, <2>4, <2>5, <2>7
  <2>9. ASSUME NEW k \in lo + 1 .. hi, k - 1 \in P PROVE k \in P
    <3> DEFINE s == sorted[k - 1]
    <3>1. k \in 1 .. hi /\ k - 1 \in 1 .. hi /\ k \in lo .. hi
      BY <2>2, <2>5
    <3>2. /\ First(c, k) = First(c, k - 1) \cup {c[k]}
          /\ c[k] \notin First(c, k - 1)
          /\ First(c, k - 1) \subseteq X
      BY <2>6, <3>1, FirstNext DEF hi
    <3>3. Lists(s, First(c, k - 1))
      BY <2>9
    <3>4. s \in Seq(X) /\ Len(s) \in Nat
      BY <3>2, <3>3, SeqMonotonic DEF Lists
    <3>5. Place(s, c[k]) \in 1 .. Len(s) + 1
      BY <3>4, PlaceFound
    <3>6. sorted[k] = InsertAt(s, Place(s, c[k]), c[k])
      BY <2>4
    <3> HIDE DEF s
    <3>7. Lists(sorted[k], First(c, k))
      BY <3>2, <3>3, <3>5, <3>6, InsertedLists
    <3>8. ASSUME Ordering(X) PROVE InReadingOrder(sorted[k])
      <4>1. InReadingOrder(s)
        BY <2>9, <3>8 DEF s
      <4>2. c[k] \in X
        BY <2>1, <3>1 DEF hi
      <4> QED
        BY <3>4, <3>6, <3>8, <4>1, <4>2, InsertedOrdered
    <3> QED
      BY <3>1, <3>7, <3>8
  <2>10. hi \in P
    <3> HIDE DEF P
    <3>1. hi \in lo .. hi
      BY <2>2, <2>5
    <3> QED
      BY <2>5, <2>8, <2>9, <3>1, InductFrom
  <2> QED
    BY <2>3, <2>10, FirstAll DEF hi
<1> QED
  BY <1>1, <1>2

\* The texts of w are those of the first n of c whose number is not in ids, in their
\* order.
Kept(w, c, n, ids) ==
  /\ \A i \in 1 .. Len(w) : \E a \in 1 .. n : w[i] = c[a] /\ c[a].id \notin ids
  /\ \A a \in 1 .. n : c[a].id \notin ids => \E i \in 1 .. Len(w) : w[i] = c[a]
  /\ \A i, j \in 1 .. Len(w) : i < j =>
       \E a, b \in 1 .. n : a < b /\ w[i] = c[a] /\ w[j] = c[b]

\* One more text left out, and one kept.
LEMMA KeptNext ==
  ASSUME NEW X, NEW c \in Seq(X), NEW n \in Nat, n + 1 <= Len(c), NEW ids,
         NEW w \in Seq(X), Kept(w, c, n, ids)
  PROVE  Kept(IF c[n + 1].id \in ids THEN w ELSE Append(w, c[n + 1]), c, n + 1, ids)
<1> DEFINE e == c[n + 1]
           m == Len(w)
           v == Append(w, e)
<1>1. \A a \in 1 .. n : a \in 1 .. n + 1 /\ a < n + 1
  OBVIOUS
<1>2. \A a \in 1 .. n + 1 : a \in 1 .. n \/ a = n + 1
  OBVIOUS
<1>3. n + 1 \in 1 .. n + 1 /\ e \in X /\ m \in Nat
  OBVIOUS
<1>4. v \in Seq(X) /\ Len(v) = m + 1 /\ (\A i \in 1 .. m : v[i] = w[i]) /\ v[m + 1] = e
  BY <1>3
<1> HIDE DEF m, v
<1>5. CASE e.id \in ids
  <2>1. Kept(w, c, n + 1, ids)
    BY <1>1, <1>2, <1>3, <1>5 DEF Kept
  <2> QED
    BY <1>5, <2>1
<1>6. CASE e.id \notin ids
  <2> HIDE DEF e
  <2>1. \A i \in 1 .. m : \E a \in 1 .. n : w[i] = c[a] /\ c[a].id \notin ids
    BY DEF Kept, m
  <2>2. \A a \in 1 .. n : c[a].id \notin ids => \E i \in 1 .. m : w[i] = c[a]
    BY DEF Kept, m
  <2>3. \A i, j \in 1 .. m : i < j => \E a, b \in 1 .. n : a < b /\ w[i] = c[a] /\ w[j] = c[b]
    BY DEF Kept, m
  <2>4. \A i \in 1 .. m + 1 : i \in 1 .. m \/ i = m + 1
    BY <1>3
  <2>5. \A i \in 1 .. m : i \in 1 .. m + 1 /\ i < m + 1 /\ ~(m + 1 < i)
    BY <1>3
  <2>6. m + 1 \in 1 .. m + 1 /\ c[n + 1] = e
    BY <1>3 DEF e
  <2>7. ASSUME NEW i \in 1 .. m + 1
        PROVE  \E a \in 1 .. n + 1 : v[i] = c[a] /\ c[a].id \notin ids
    <3>1. CASE i = m + 1
      <4>1. v[i] = c[n + 1] /\ c[n + 1].id \notin ids
        BY <1>4, <1>6, <2>6, <3>1
      <4> QED
        BY <1>3, <4>1
    <3>2. CASE i \in 1 .. m
      <4>1. PICK a \in 1 .. n : w[i] = c[a] /\ c[a].id \notin ids
        BY <2>1, <3>2
      <4>2. a \in 1 .. n + 1 /\ v[i] = c[a]
        BY <1>1, <1>4, <3>2, <4>1
      <4> QED
        BY <4>1, <4>2
    <3> QED
      BY <2>4, <3>1, <3>2
  <2>8. \A a \in 1 .. n + 1 : c[a].id \notin ids => \E i \in 1 .. m + 1 : v[i] = c[a]
    BY <1>2, <1>4, <2>2, <2>5, <2>6
  <2>9. ASSUME NEW i \in 1 .. m + 1, NEW j \in 1 .. m + 1, i < j
        PROVE  \E a, b \in 1 .. n + 1 : a < b /\ v[i] = c[a] /\ v[j] = c[b]
    <3>1. i \in 1 .. m
      BY <1>3, <2>9
    <3>2. CASE j = m + 1
      <4>1. PICK a \in 1 .. n : w[i] = c[a]
        BY <2>1, <3>1
      <4>2. v[i] = c[a] /\ v[j] = c[n + 1] /\ a < n + 1 /\ a \in 1 .. n + 1
        BY <1>1, <1>4, <2>6, <3>1, <3>2, <4>1
      <4> QED
        BY <1>3, <4>2
    <3>3. CASE j \in 1 .. m
      <4>1. PICK a \in 1 .. n, b \in 1 .. n : a < b /\ w[i] = c[a] /\ w[j] = c[b]
        BY <2>3, <2>9, <3>1, <3>3
      <4>2. v[i] = c[a] /\ v[j] = c[b] /\ a \in 1 .. n + 1 /\ b \in 1 .. n + 1
        BY <1>1, <1>4, <3>1, <3>3, <4>1
      <4> QED
        BY <4>1, <4>2
    <3> QED
      BY <2>4, <3>2, <3>3
  <2>10. Len(v) = m + 1
    BY <1>4
  <2>11. \A i, j \in 1 .. Len(v) : i < j =>
           \E a, b \in 1 .. n + 1 : a < b /\ v[i] = c[a] /\ v[j] = c[b]
    BY <2>9, <2>10
  <2>12. \A i \in 1 .. Len(v) : \E a \in 1 .. n + 1 : v[i] = c[a] /\ c[a].id \notin ids
    BY <2>7, <2>10
  <2>13. \A a \in 1 .. n + 1 : c[a].id \notin ids => \E i \in 1 .. Len(v) : v[i] = c[a]
    BY <2>8, <2>10
  <2>14. Kept(v, c, n + 1, ids)
    BY <2>11, <2>12, <2>13, Zenon DEF Kept
  <2> QED
    BY <1>6, <2>14 DEF v, e
<1> QED
  BY <1>5, <1>6

\* What leaving texts out leaves.
LEMMA WithoutKept ==
  ASSUME NEW X, NEW c \in Seq(X), NEW ids
  PROVE  Without(c, ids) \in Seq(X) /\ Kept(Without(c, ids), c, Len(c), ids)
<1> DEFINE n == Len(c)
           keep(k, s) == IF c[k].id \in ids THEN s ELSE Append(s, c[k])
           Def(f) == f = [k \in 0 .. n |-> IF k = 0 THEN <<>> ELSE keep(k, f[k - 1])]
           kept == CHOOSE f : Def(f)
           G == [q \in (1 .. n) \X Seq(X) |-> keep(q[1], q[2])]
<1>1. n \in Nat
  OBVIOUS
<1>2. Without(c, ids) = kept[n]
  BY Zenon DEF Without
<1>3. \A k \in 1 .. n, s \in Seq(X) : keep(k, s) \in Seq(X)
  <2> TAKE k \in 1 .. n, s \in Seq(X)
  <2>1. c[k] \in X
    OBVIOUS
  <2> QED
    BY <2>1
<1> HIDE DEF n
<1>4. \E f : Def(f)
  <2> HIDE DEF keep
  <2>1. G \in [(0 + 1 .. n) \X Seq(X) -> Seq(X)]
    BY <1>3
  <2>2. \A k \in 1 .. n, s \in Seq(X) : G[<<k, s>>] = keep(k, s)
    OBVIOUS
  <2> HIDE DEF G
  <2>3. <<>> \in Seq(X) /\ 0 \in Nat
    OBVIOUS
  <2>4. PICK f \in [0 .. n -> Seq(X)] :
          Stepped(f, 0, n, <<>>, G)
    BY <1>1, <2>1, <2>3, Steps
  <2>5. ASSUME NEW k \in 0 .. n, k # 0 PROVE G[<<k, f[k - 1]>>] = keep(k, f[k - 1])
    <3>1. k \in 1 .. n /\ k - 1 \in 0 .. n
      BY <1>1, <2>5
    <3> QED
      BY <2>2, <3>1
  <2>6. Def(f)
    BY <2>4, <2>5 DEF Stepped
  <2> HIDE DEF Def
  <2> QED
    BY <2>6
<1>5. Def(kept)
  <2> HIDE DEF Def
  <2> QED
    BY <1>4
<1> HIDE DEF kept
<1>6. kept[0] = <<>> /\ \A k \in 1 .. n : kept[k] = keep(k, kept[k - 1])
  <2> HIDE DEF keep
  <2> QED
    BY <1>1, <1>5
<1> DEFINE P == {k \in 0 .. n : kept[k] \in Seq(X) /\ Kept(kept[k], c, k, ids)}
<1>7. 0 \in P
  <2>1. Kept(<<>>, c, 0, ids) /\ <<>> \in Seq(X)
    BY DEF Kept
  <2>2. 0 \in 0 .. n
    BY <1>1
  <2> QED
    BY <1>6, <2>1, <2>2
<1>8. ASSUME NEW k \in 1 .. n, k - 1 \in P PROVE k \in P
  <2>1. k - 1 \in Nat /\ (k - 1) + 1 = k /\ k <= Len(c) /\ k \in 0 .. n
    BY <1>1 DEF n
  <2>2. kept[k] = keep(k, kept[k - 1]) /\ kept[k - 1] \in Seq(X)
    BY <1>6, <1>8
  <2>3. Kept(kept[k - 1], c, k - 1, ids)
    BY <1>8
  <2>4. Kept(keep(k, kept[k - 1]), c, k, ids)
    BY <2>1, <2>2, <2>3, KeptNext
  <2>5. keep(k, kept[k - 1]) \in Seq(X)
    BY <1>3, <2>2
  <2> HIDE DEF keep
  <2> QED
    BY <2>1, <2>2, <2>4, <2>5
<1>9. n \in P
  <2> HIDE DEF P
  <2>1. n \in 0 .. n /\ \A k \in 0 + 1 .. n : k - 1 \in P => k \in P
    BY <1>1, <1>8
  <2> QED
    BY <1>1, <1>7, <2>1, InductFrom
<1> QED
  BY <1>2, <1>9 DEF n

\* Leaving texts out repeats none.
LEMMA WithoutLists ==
  ASSUME NEW X, NEW c, Lists(c, X), NEW ids
  PROVE  Lists(Without(c, ids), {x \in X : x.id \notin ids})
<1> DEFINE w == Without(c, ids)
           Y == {x \in X : x.id \notin ids}
           n == Len(c)
           m == Len(w)
<1>1. c \in Seq(X) /\ n \in Nat /\ \A a, b \in 1 .. n : c[a] = c[b] => a = b
  BY DEF Lists
<1>2. w \in Seq(X) /\ Kept(w, c, n, ids)
  BY <1>1, WithoutKept
<1>3. \A x \in X : \E a \in 1 .. n : c[a] = x
  BY DEF Lists
<1> HIDE DEF w, n
<1>4. \A i \in 1 .. m : w[i] \in Y
  <2> TAKE i \in 1 .. m
  <2>1. PICK a \in 1 .. n : w[i] = c[a] /\ c[a].id \notin ids
    BY <1>2 DEF Kept
  <2>2. w[i] \in X
    BY <1>2
  <2> QED
    BY <2>1, <2>2
<1>5. m \in Nat /\ w = [i \in 1 .. m |-> w[i]]
  BY <1>2
<1>6. w \in Seq(Y)
  <2> HIDE DEF Y, m
  <2>1. w \in [1 .. m -> Y]
    BY <1>4, <1>5
  <2> QED
    BY <1>5, <2>1, FunctionSeq
<1>7. \A y \in Y : \E i \in 1 .. m : w[i] = y
  <2> TAKE y \in Y
  <2>1. PICK a \in 1 .. n : c[a] = y
    BY <1>3
  <2>2. c[a].id \notin ids
    BY <2>1
  <2> QED
    BY <1>2, <2>1, <2>2 DEF Kept
<1>8. \A i, j \in 1 .. m : i < j => w[i] # w[j]
  <2> TAKE i, j \in 1 .. m
  <2> HAVE i < j
  <2>1. PICK a \in 1 .. n, b \in 1 .. n : a < b /\ w[i] = c[a] /\ w[j] = c[b]
    BY <1>2 DEF Kept
  <2> QED
    BY <1>1, <2>1
<1>9. \A i, j \in 1 .. m : w[i] = w[j] => i = j
  <2> TAKE i, j \in 1 .. m
  <2>1. i < j \/ j < i \/ i = j
    BY <1>5
  <2> QED
    BY <1>8, <2>1
<1> HIDE DEF Y, m
<1>10. Lists(w, Y)
  BY <1>6, <1>7, <1>9 DEF Lists, m
<1> QED
  BY <1>10 DEF w, Y

-----------------------------------------------------------------------------
\* What a list lists.
LEMMA ListsToSet ==
  ASSUME NEW X, NEW s, Lists(s, X)
  PROVE  ToSet(s) = X
<1>1. DOMAIN s = 1 .. Len(s) /\ \A i \in 1 .. Len(s) : s[i] \in X
  BY DEF Lists
<1>2. \A x \in X : \E i \in 1 .. Len(s) : s[i] = x
  BY DEF Lists
<1> QED
  BY <1>1, <1>2 DEF ToSet

\* What a list is, point by point.
LEMMA Listed ==
  ASSUME NEW X, NEW c, Lists(c, X)
  PROVE  /\ Len(c) \in Nat /\ DOMAIN c = 1 .. Len(c)
         /\ \A i \in 1 .. Len(c) : c[i] \in X
         /\ \A x \in X : \E i \in 1 .. Len(c) : c[i] = x
         /\ c # <<>> <=> Len(c) # 0
<1>1. c \in Seq(X)
  BY DEF Lists
<1>2. \A x \in X : \E i \in 1 .. Len(c) : c[i] = x
  BY DEF Lists
<1> QED
  BY <1>1, <1>2

\* Groups of texts that have no text in common and between them list Y.
Groups(gs, Y) ==
  /\ gs \in Seq(Seq(Y))
  /\ \A i \in 1 .. Len(gs) : gs[i] # <<>> /\ Lists(gs[i], ToSet(gs[i]))
  /\ \A i, j \in 1 .. Len(gs) : i # j => ToSet(gs[i]) \cap ToSet(gs[j]) = {}
  /\ \A y \in Y : \E i \in 1 .. Len(gs) : y \in ToSet(gs[i])

\* Groups are sequences.
LEMMA GroupsWithin ==
  ASSUME NEW gs, NEW Y, Groups(gs, Y)
  PROVE  /\ gs \in Seq(Seq(Y)) /\ Len(gs) \in Nat
         /\ \A i \in 1 .. Len(gs) : gs[i] \in Seq(Y)
<1>1. gs \in Seq(Seq(Y))
  BY DEF Groups
<1> DEFINE S == Seq(Y)
<1>2. gs \in Seq(S)
  BY <1>1
<1> HIDE DEF S
<1>3. Len(gs) \in Nat /\ \A i \in 1 .. Len(gs) : gs[i] \in S
  BY <1>2
<1> QED
  BY <1>1, <1>3 DEF S

\* No group.
LEMMA NoGroups == Groups(<<>>, {})
  BY DEF Groups

\* One group of all.
LEMMA OneGroup ==
  ASSUME NEW Y, NEW s, Lists(s, Y), s # <<>>
  PROVE  Groups(<< s >>, Y)
<1>1. ToSet(s) = Y /\ s \in Seq(Y)
  BY ListsToSet DEF Lists
<1>2. << s >> \in Seq(Seq(Y)) /\ Len(<< s >>) = 1 /\ << s >>[1] = s
  BY <1>1
<1> DEFINE gs == << s >>
<1> HIDE DEF gs
<1>3. gs \in Seq(Seq(Y)) /\ Len(gs) = 1 /\ gs[1] = s
  BY <1>2 DEF gs
<1>4. \A i \in 1 .. Len(gs) : i = 1
  BY <1>3
<1>5. 1 \in 1 .. Len(gs)
  BY <1>3
<1>6. Groups(gs, Y)
  BY <1>1, <1>3, <1>4, <1>5 DEF Groups
<1> QED
  BY <1>6 DEF gs

\* What a sequence has.
LEMMA ToSetWithin ==
  ASSUME NEW X, NEW s \in Seq(X)
  PROVE  ToSet(s) \subseteq X
  BY DEF ToSet

\* Groups of two sets with nothing in common.
LEMMA ConcatGroups ==
  ASSUME NEW X, NEW Y, NEW s, NEW t, Groups(s, X), Groups(t, Y), X \cap Y = {}
  PROVE  Groups(s \o t, X \cup Y)
<1> DEFINE Z == X \cup Y
           m == Len(s)
           n == Len(t)
           u == s \o t
           Good(g) == g # <<>> /\ Lists(g, ToSet(g))
<1>1. s \in Seq(Seq(Z)) /\ t \in Seq(Seq(Z))
  <2>1. Seq(X) \subseteq Seq(Z) /\ Seq(Y) \subseteq Seq(Z)
    BY SeqMonotonic
  <2> QED
    BY <2>1, SeqMonotonic DEF Groups
<1>2. m \in Nat /\ n \in Nat
  BY <1>1
<1>3. /\ u \in Seq(Seq(Z)) /\ Len(u) = m + n
      /\ \A i \in 1 .. m : u[i] = s[i]
      /\ \A i \in 1 .. n : u[m + i] = t[i]
  <2> DEFINE S == Seq(Z)
  <2>1. s \in Seq(S) /\ t \in Seq(S)
    BY <1>1
  <2> HIDE DEF S
  <2>2. /\ s \o t \in Seq(S)
        /\ Len(s \o t) = Len(s) + Len(t)
        /\ \A i \in 1 .. Len(s) : (s \o t)[i] = s[i]
        /\ \A i \in 1 .. Len(t) : (s \o t)[Len(s) + i] = t[i]
    BY <2>1, Concat
  <2> QED
    BY <2>2 DEF S
<1>4. /\ \A i \in 1 .. m : s[i] \in Seq(X) /\ Good(s[i])
      /\ \A i, j \in 1 .. m : i # j => ToSet(s[i]) \cap ToSet(s[j]) = {}
      /\ \A x \in X : \E i \in 1 .. m : x \in ToSet(s[i])
  <2>1. \A i \in 1 .. m : s[i] \in Seq(X)
    BY GroupsWithin
  <2> QED
    BY <2>1, Zenon DEF Groups
<1>5. /\ \A i \in 1 .. n : t[i] \in Seq(Y) /\ Good(t[i])
      /\ \A i, j \in 1 .. n : i # j => ToSet(t[i]) \cap ToSet(t[j]) = {}
      /\ \A y \in Y : \E i \in 1 .. n : y \in ToSet(t[i])
  <2>1. \A i \in 1 .. n : t[i] \in Seq(Y)
    BY GroupsWithin
  <2> QED
    BY <2>1, Zenon DEF Groups
<1> HIDE DEF u, m, n, Good
<1>6. \A i \in 1 .. m : ToSet(s[i]) \subseteq X
  BY <1>4, ToSetWithin
<1>7. \A i \in 1 .. n : ToSet(t[i]) \subseteq Y
  BY <1>5, ToSetWithin
<1> DEFINE OfS(i) == i \in 1 .. m /\ u[i] = s[i]
           OfT(i) == i - m \in 1 .. n /\ u[i] = t[i - m]
<1>8. \A i \in 1 .. m + n : OfS(i) \/ OfT(i)
  <2> TAKE i \in 1 .. m + n
  <2>1. CASE i \in 1 .. m
    BY <1>3, <2>1
  <2>2. CASE i \notin 1 .. m
    <3>1. i - m \in 1 .. n /\ m + (i - m) = i
      BY <1>2, <2>2
    <3>2. u[m + (i - m)] = t[i - m]
      BY <1>3, <3>1
    <3> QED
      BY <3>1, <3>2
  <2> QED
    BY <2>1, <2>2
<1>9. \A i \in 1 .. m + n : Good(u[i])
  BY <1>4, <1>5, <1>8
<1>10. ASSUME NEW i \in 1 .. m + n, NEW j \in 1 .. m + n, i # j
       PROVE  ToSet(u[i]) \cap ToSet(u[j]) = {}
  <2>1. CASE OfS(i) /\ OfS(j)
    <3>1. ToSet(s[i]) \cap ToSet(s[j]) = {}
      BY <1>4, <1>10, <2>1
    <3> QED
      BY <2>1, <3>1
  <2>2. CASE OfT(i) /\ OfT(j)
    <3>1. i - m # j - m
      BY <1>2, <1>10
    <3>2. ToSet(t[i - m]) \cap ToSet(t[j - m]) = {}
      BY <1>5, <2>2, <3>1
    <3> QED
      BY <2>2, <3>2
  <2>3. CASE OfS(i) /\ OfT(j)
    <3>1. ToSet(s[i]) \subseteq X /\ ToSet(t[j - m]) \subseteq Y
      BY <1>6, <1>7, <2>3
    <3> QED
      BY <2>3, <3>1
  <2>4. CASE OfT(i) /\ OfS(j)
    <3>1. ToSet(s[j]) \subseteq X /\ ToSet(t[i - m]) \subseteq Y
      BY <1>6, <1>7, <2>4
    <3> QED
      BY <2>4, <3>1
  <2> HIDE DEF OfS, OfT
  <2> QED
    BY <1>8, <2>1, <2>2, <2>3, <2>4
<1>11. ASSUME NEW z \in Z PROVE \E i \in 1 .. m + n : z \in ToSet(u[i])
  <2>1. CASE z \in X
    <3>1. PICK i \in 1 .. m : z \in ToSet(s[i])
      BY <1>4, <2>1
    <3>2. i \in 1 .. m + n /\ u[i] = s[i]
      BY <1>2, <1>3
    <3> QED
      BY <3>1, <3>2
  <2>2. CASE z \in Y
    <3>1. PICK i \in 1 .. n : z \in ToSet(t[i])
      BY <1>5, <2>2
    <3>2. m + i \in 1 .. m + n /\ u[m + i] = t[i]
      BY <1>2, <1>3
    <3> QED
      BY <3>1, <3>2
  <2> QED
    BY <2>1, <2>2
<1>12. u \in Seq(Seq(Z)) /\ Len(u) = m + n
  BY <1>3
<1> HIDE DEF Z
<1>13. Groups(u, Z)
  BY <1>9, <1>10, <1>11, <1>12 DEF Groups, Good
<1> QED
  BY <1>13 DEF u, Z

\* A list is as long as its set is large.
LEMMA ListsLen ==
  ASSUME NEW X, NEW s, Lists(s, X)
  PROVE  IsFiniteSet(X) /\ Cardinality(X) = Len(s)
<1> DEFINE n == Len(s)
<1>1. n \in Nat /\ s \in [1 .. n -> X]
  BY DEF Lists
<1>2. /\ \A x \in X : \E i \in 1 .. n : s[i] = x
      /\ \A i, j \in 1 .. n : s[i] = s[j] => i = j
  BY DEF Lists
<1> HIDE DEF n
<1>3. s \in Bijection(1 .. n, X)
  BY <1>1, <1>2 DEF Bijection, Injection, Surjection, IsInjective
<1>4. ExistsBijection(1 .. n, X)
  BY <1>3 DEF ExistsBijection
<1>5. IsFiniteSet(1 .. n) /\ Cardinality(1 .. n) = n
  BY <1>1, FS_Interval
<1> QED
  BY <1>4, <1>5, FS_Bijection DEF n

\* What writing groups one after the other comes to.
Flattened(f, gs) ==
  /\ f[1] = gs[1]
  /\ \A i \in 2 .. Len(gs) : f[i] = f[i - 1] \o gs[i]

\* It is well defined.
LEMMA FlattenSteps ==
  ASSUME NEW Y, NEW gs, Groups(gs, Y), Len(gs) # 0
  PROVE  \E f : FlattenSeq(gs) = f[Len(gs)] /\ Flattened(f, gs)
<1> DEFINE n == Len(gs)
           S == Seq(Y)
           Def(f) == f = [i \in 1 .. n |-> IF i = 1 THEN gs[i] ELSE f[i - 1] \o gs[i]]
           flatten == CHOOSE f : Def(f)
<1>1. n \in Nat /\ n # 0 /\ \A i \in 1 .. n : gs[i] \in S
  BY GroupsWithin
<1>2. FlattenSeq(gs) = flatten[n]
  BY <1>1, Zenon DEF FlattenSeq
<1> HIDE DEF n
<1>3. \A i \in 1 .. n, s \in S : s \o gs[i] \in S
  BY <1>1
<1> HIDE DEF S
<1> DEFINE G == [q \in (1 + 1 .. n) \X S |-> q[2] \o gs[q[1]]]
<1>4. G \in [(1 + 1 .. n) \X S -> S]
  <2>1. \A i \in 1 + 1 .. n : i \in 1 .. n
    BY <1>1
  <2>2. \A i \in 1 + 1 .. n, s \in S : s \o gs[i] \in S
    BY <1>3, <2>1
  <2> QED
    BY <2>2
<1>5. \A i \in 1 + 1 .. n, s \in S : G[<<i, s>>] = s \o gs[i]
  OBVIOUS
<1> HIDE DEF G
<1>6. 1 \in Nat /\ 1 \in 1 .. n /\ gs[1] \in S
  BY <1>1
<1>7. PICK f \in [1 .. n -> S] : Stepped(f, 1, n, gs[1], G)
  BY <1>1, <1>4, <1>6, Steps
<1>8. ASSUME NEW i \in 1 .. n, i # 1 PROVE G[<<i, f[i - 1]>>] = f[i - 1] \o gs[i]
  <2>1. i \in 1 + 1 .. n /\ i - 1 \in 1 .. n
    BY <1>1, <1>8
  <2> QED
    BY <1>5, <2>1
<1>9. Def(f)
  BY <1>7, <1>8 DEF Stepped
<1>10. Def(flatten)
  <2> HIDE DEF Def
  <2> QED
    BY <1>9
<1> HIDE DEF flatten
<1>11. flatten[1] = gs[1] /\ \A i \in 2 .. n : flatten[i] = flatten[i - 1] \o gs[i]
  <2>1. \A i \in 2 .. n : i \in 1 .. n /\ i # 1
    BY <1>1
  <2> DEFINE cat(s, i) == s \o gs[i]
  <2>2. flatten = [i \in 1 .. n |-> IF i = 1 THEN gs[i] ELSE cat(flatten[i - 1], i)]
    BY <1>10
  <2> HIDE DEF cat
  <2>3. flatten[1] = gs[1] /\ \A i \in 2 .. n : flatten[i] = cat(flatten[i - 1], i)
    BY <1>6, <2>1, <2>2
  <2> QED
    BY <2>3 DEF cat
<1>12. Flattened(flatten, gs)
  BY <1>11 DEF Flattened, n
<1> HIDE DEF Flattened
<1> QED
  BY <1>2, <1>12 DEF n

\* Written one after the other, groups list what they list between them.
LEMMA FlattenLists ==
  ASSUME NEW Y, NEW gs, Groups(gs, Y)
  PROVE  Lists(FlattenSeq(gs), Y)
<1> DEFINE n == Len(gs)
<1>1. n \in Nat /\ \A i \in 1 .. n : gs[i] \in Seq(Y)
  BY GroupsWithin
<1>2. /\ \A i \in 1 .. n : Lists(gs[i], ToSet(gs[i]))
      /\ \A i, j \in 1 .. n : i # j => ToSet(gs[i]) \cap ToSet(gs[j]) = {}
      /\ \A y \in Y : \E i \in 1 .. n : y \in ToSet(gs[i])
  BY Zenon DEF Groups
<1>3. CASE n = 0
  <2>1. gs = <<>>
    BY <1>3, GroupsWithin
  <2>2. Y = {}
    BY <1>2, <1>3
  <2>3. FlattenSeq(gs) = <<>>
    BY <2>1 DEF FlattenSeq
  <2> QED
    BY <2>2, <2>3, EmptyLists
<1>4. CASE n # 0
  <2>1. PICK f : FlattenSeq(gs) = f[n] /\ Flattened(f, gs)
    BY <1>4, FlattenSteps
  <2>2. f[1] = gs[1] /\ \A i \in 1 + 1 .. n : f[i] = f[i - 1] \o gs[i]
    <3>1. 1 + 1 .. n = 2 .. n
      OBVIOUS
    <3> QED
      BY <2>1, <3>1, Zenon DEF Flattened
  <2> HIDE DEF n
  <2> DEFINE Upto(k) == UNION {ToSet(gs[i]) : i \in 1 .. k}
             P == {k \in 1 .. n : Lists(f[k], Upto(k))}
  <2>3. 1 \in Nat /\ 1 \in 1 .. n
    BY <1>1, <1>4
  <2>4. 1 \in P
    <3>1. 1 .. 1 = {1}
      OBVIOUS
    <3>2. Upto(1) = ToSet(gs[1])
      BY <3>1
    <3> HIDE DEF Upto
    <3> QED
      BY <1>2, <2>2, <2>3, <3>2
  <2>5. ASSUME NEW k \in 1 + 1 .. n, k - 1 \in P PROVE k \in P
    <3>1. k \in 1 .. n /\ 1 .. k = (1 .. k - 1) \cup {k} /\ \A i \in 1 .. k - 1 : i \in 1 .. n /\ i # k
      BY <1>1
    <3>2. Upto(k) = Upto(k - 1) \cup ToSet(gs[k])
      BY <3>1
    <3>3. Upto(k - 1) \cap ToSet(gs[k]) = {}
      <4>1. \A i \in 1 .. k - 1 : ToSet(gs[i]) \cap ToSet(gs[k]) = {}
        BY <1>2, <3>1, Zenon
      <4> QED
        BY <4>1
    <3> HIDE DEF Upto
    <3>4. Lists(f[k - 1], Upto(k - 1)) /\ Lists(gs[k], ToSet(gs[k]))
      BY <1>2, <2>5, <3>1
    <3>5. Lists(f[k - 1] \o gs[k], Upto(k - 1) \cup ToSet(gs[k]))
      BY <3>3, <3>4, ConcatLists
    <3> QED
      BY <2>2, <3>1, <3>2, <3>5
  <2>6. n \in P
    <3> HIDE DEF P
    <3>1. n \in 1 .. n
      BY <1>1, <1>4
    <3> QED
      BY <1>1, <2>3, <2>4, <2>5, <3>1, InductFrom
  <2>7. Upto(n) = Y
    <3>1. \A i \in 1 .. n : ToSet(gs[i]) \subseteq Y
      BY <1>1, ToSetWithin
    <3> QED
      BY <1>2, <3>1
  <2> HIDE DEF Upto
  <2> QED
    BY <2>1, <2>6, <2>7 DEF n
<1> QED
  BY <1>3, <1>4

\* The sequence c is the first n groups of hs, one after the other: its i-th element is
\* at place o[i] of group b[i].
Blocks(c, hs, n, b, o) ==
  /\ \A i \in 1 .. Len(c) : /\ b[i] \in 1 .. n
                            /\ o[i] \in 1 .. Len(hs[b[i]])
                            /\ c[i] = hs[b[i]][o[i]]
  /\ \A i, j \in 1 .. Len(c) : i < j => b[i] < b[j] \/ (b[i] = b[j] /\ o[i] < o[j])
  /\ \A i \in 1 .. Len(c) : o[i] # 1 => i > 1 /\ b[i - 1] = b[i]

\* With one group more.
LEMMA BlocksNext ==
  ASSUME NEW Y, NEW c \in Seq(Y), NEW hs, NEW k \in Nat \ {0}, hs[k] \in Seq(Y),
         NEW b, NEW o, Blocks(c, hs, k - 1, b, o)
  PROVE  \E b2, o2 : Blocks(c \o hs[k], hs, k, b2, o2)
<1> DEFINE m == Len(c)
           l == Len(hs[k])
           u == c \o hs[k]
           b2 == [i \in 1 .. m + l |-> IF i <= m THEN b[i] ELSE k]
           o2 == [i \in 1 .. m + l |-> IF i <= m THEN o[i] ELSE i - m]
<1>1. /\ m \in Nat /\ l \in Nat /\ Len(u) = m + l
      /\ \A i \in 1 .. m : u[i] = c[i]
      /\ \A i \in 1 .. l : u[m + i] = hs[k][i]
  BY Concat
<1>2. \A i \in 1 .. m : /\ i \in 1 .. m + l /\ i <= m
                        /\ b2[i] = b[i] /\ o2[i] = o[i]
  BY <1>1
<1>3. \A i \in 1 .. m + l : i > m => b2[i] = k /\ o2[i] = i - m
  BY <1>1
<1>4. /\ \A i \in 1 .. m : /\ b[i] \in 1 .. k - 1
                           /\ o[i] \in 1 .. Len(hs[b[i]])
                           /\ c[i] = hs[b[i]][o[i]]
      /\ \A i, j \in 1 .. m : i < j => b[i] < b[j] \/ (b[i] = b[j] /\ o[i] < o[j])
      /\ \A i \in 1 .. m : o[i] # 1 => i > 1 /\ b[i - 1] = b[i]
  BY DEF Blocks
<1>5. \A i \in 1 .. m + l : i \in 1 .. m \/ (i > m /\ i - m \in 1 .. l /\ m + (i - m) = i)
  BY <1>1
<1>6. l = Len(hs[k])
  OBVIOUS
<1> HIDE DEF m, l, u, b2, o2
<1>7. ASSUME NEW i \in 1 .. m + l
      PROVE  b2[i] \in 1 .. k /\ o2[i] \in 1 .. Len(hs[b2[i]]) /\ u[i] = hs[b2[i]][o2[i]]
  <2>1. CASE i \in 1 .. m
    <3>1. b2[i] = b[i] /\ o2[i] = o[i] /\ u[i] = c[i] /\ b[i] \in 1 .. k - 1
      BY <1>1, <1>2, <1>4, <2>1
    <3>2. b[i] \in 1 .. k
      BY <3>1
    <3> QED
      BY <1>4, <2>1, <3>1, <3>2
  <2>2. CASE i > m /\ i - m \in 1 .. l /\ m + (i - m) = i
    <3>1. b2[i] = k /\ o2[i] = i - m
      BY <1>3, <2>2
    <3>2. u[m + (i - m)] = hs[k][i - m]
      BY <1>1, <2>2
    <3> QED
      BY <1>6, <2>2, <3>1, <3>2
  <2> QED
    BY <1>5, <2>1, <2>2
<1>8. ASSUME NEW i \in 1 .. m + l, NEW j \in 1 .. m + l, i < j
      PROVE  b2[i] < b2[j] \/ (b2[i] = b2[j] /\ o2[i] < o2[j])
  <2>1. CASE j <= m
    <3>1. i \in 1 .. m /\ j \in 1 .. m
      BY <1>1, <1>8, <2>1
    <3> QED
      BY <1>2, <1>4, <1>8, <3>1
  <2>2. CASE i <= m /\ j > m
    <3>1. i \in 1 .. m
      BY <1>1, <2>2
    <3>2. b2[i] \in 1 .. k - 1 /\ b2[j] = k
      BY <1>2, <1>3, <1>4, <2>2, <3>1
    <3> QED
      BY <3>2
  <2>3. CASE i > m
    <3>1. b2[i] = k /\ b2[j] = k /\ o2[i] = i - m /\ o2[j] = j - m
      BY <1>1, <1>3, <1>8, <2>3
    <3> QED
      BY <1>1, <1>8, <3>1
  <2> QED
    BY <1>1, <2>1, <2>2, <2>3
<1>9. ASSUME NEW i \in 1 .. m + l, o2[i] # 1 PROVE i > 1 /\ b2[i - 1] = b2[i]
  <2>1. CASE i <= m
    <3>1. i \in 1 .. m
      BY <1>1, <2>1
    <3>2. o[i] # 1 /\ b2[i] = b[i]
      BY <1>2, <1>9, <3>1
    <3>3. i > 1 /\ b[i - 1] = b[i]
      BY <1>4, <3>1, <3>2
    <3>4. i - 1 \in 1 .. m
      BY <1>1, <3>1, <3>3
    <3> QED
      BY <1>2, <3>3, <3>4, <3>2
  <2>2. CASE i > m
    <3>1. o2[i] = i - m /\ b2[i] = k
      BY <1>3, <2>2
    <3>2. i - m # 1 /\ i - 1 > m /\ i - 1 \in 1 .. m + l
      BY <1>1, <1>9, <2>2, <3>1
    <3>3. b2[i - 1] = k
      BY <1>3, <3>2
    <3> QED
      BY <1>1, <3>1, <3>2, <3>3
  <2> QED
    BY <1>1, <2>1, <2>2
<1>10. Blocks(u, hs, k, b2, o2)
  BY <1>1, <1>7, <1>8, <1>9 DEF Blocks
<1> QED
  BY <1>10 DEF u

\* Written one after the other, groups are blocks.
LEMMA FlattenBlocks ==
  ASSUME NEW Y, NEW gs, Groups(gs, Y)
  PROVE  \E b, o : Blocks(FlattenSeq(gs), gs, Len(gs), b, o)
<1> DEFINE n == Len(gs)
<1>1. n \in Nat /\ \A i \in 1 .. n : gs[i] \in Seq(Y)
  BY GroupsWithin
<1>2. \A b, o : Blocks(<<>>, gs, 0, b, o)
  BY DEF Blocks
<1>3. CASE n = 0
  <2>1. gs = <<>>
    BY <1>3, GroupsWithin
  <2>2. FlattenSeq(gs) = <<>>
    BY <2>1 DEF FlattenSeq
  <2> QED
    BY <1>2, <1>3, <2>2
<1>4. CASE n # 0
  <2>1. PICK f : FlattenSeq(gs) = f[n] /\ Flattened(f, gs)
    BY <1>4, FlattenSteps
  <2>2. f[1] = gs[1] /\ \A i \in 1 + 1 .. n : f[i] = f[i - 1] \o gs[i]
    <3>1. 1 + 1 .. n = 2 .. n
      OBVIOUS
    <3> QED
      BY <2>1, <3>1, Zenon DEF Flattened
  <2> DEFINE Fine(k) == f[k] \in Seq(Y) /\ \E b, o : Blocks(f[k], gs, k, b, o)
             P == {k \in 1 .. n : Fine(k)}
  <2> HIDE DEF n
  <2>3. 1 \in Nat /\ 1 \in 1 .. n /\ 1 - 1 = 0 /\ 1 \in Nat \ {0}
    BY <1>1, <1>4
  <2>4. 1 \in P
    <3>1. gs[1] \in Seq(Y) /\ <<>> \in Seq(Y) /\ <<>> \o gs[1] = gs[1]
      BY <1>1, <2>3
    <3>2. Blocks(<<>>, gs, 1 - 1, <<>>, <<>>)
      BY <1>2, <2>3
    <3>3. \E b, o : Blocks(<<>> \o gs[1], gs, 1, b, o)
      BY <2>3, <3>1, <3>2, BlocksNext
    <3>4. Fine(1)
      BY <2>2, <3>1, <3>3
    <3> HIDE DEF Fine
    <3> QED
      BY <2>3, <3>4
  <2>5. ASSUME NEW k \in 1 + 1 .. n, k - 1 \in P PROVE k \in P
    <3>1. k \in 1 .. n /\ k \in Nat \ {0} /\ gs[k] \in Seq(Y)
      BY <1>1
    <3>2. Fine(k - 1)
      <4> HIDE DEF Fine
      <4> QED
        BY <2>5
    <3>3. PICK b, o : Blocks(f[k - 1], gs, k - 1, b, o)
      BY <3>2
    <3>4. f[k - 1] \in Seq(Y)
      BY <3>2
    <3>5. f[k] = f[k - 1] \o gs[k]
      BY <2>2
    <3>6. f[k] \in Seq(Y)
      BY <3>1, <3>4, <3>5
    <3>7. \E b2, o2 : Blocks(f[k - 1] \o gs[k], gs, k, b2, o2)
      BY <3>1, <3>3, <3>4, BlocksNext
    <3>8. Fine(k)
      BY <3>5, <3>6, <3>7
    <3> HIDE DEF Fine
    <3> QED
      BY <3>1, <3>8
  <2>6. n \in P
    <3> HIDE DEF P
    <3>1. n \in 1 .. n
      BY <1>1, <1>4
    <3> QED
      BY <1>1, <2>3, <2>4, <2>5, <3>1, InductFrom
  <2>7. Fine(n)
    <3> HIDE DEF Fine
    <3> QED
      BY <2>6
  <2> QED
    BY <2>1, <2>7 DEF n
<1> QED
  BY <1>3, <1>4

\* The groups gs in the order at, each with its texts in another order.
Reordered(hs, gs, n, at) ==
  /\ n = Len(gs)
  /\ at \in [1 .. n -> 1 .. n]
  /\ \A i, j \in 1 .. n : at[i] = at[j] => i = j
  /\ \A g \in 1 .. n : \E i \in 1 .. n : at[i] = g
  /\ hs = [i \in 1 .. n |-> hs[i]]
  /\ \A i \in 1 .. n : Lists(hs[i], ToSet(gs[at[i]])) /\ hs[i] # <<>>

\* They list the same.
LEMMA GroupsReordered ==
  ASSUME NEW Y, NEW gs, Groups(gs, Y), NEW n, NEW at, NEW hs, Reordered(hs, gs, n, at)
  PROVE  Groups(hs, Y)
<1>1. /\ at \in [1 .. n -> 1 .. n]
      /\ \A i, j \in 1 .. n : at[i] = at[j] => i = j
      /\ \A g \in 1 .. n : \E i \in 1 .. n : at[i] = g
      /\ \A i \in 1 .. n : Lists(hs[i], ToSet(gs[at[i]])) /\ hs[i] # <<>>
  BY DEF Reordered
<1>2. hs = [i \in 1 .. n |-> hs[i]]
  BY DEF Reordered
<1>3. n \in Nat /\ \A i \in 1 .. n : gs[i] \in Seq(Y)
  BY GroupsWithin DEF Reordered
<1>4. /\ \A i, j \in 1 .. n : i # j => ToSet(gs[i]) \cap ToSet(gs[j]) = {}
      /\ \A y \in Y : \E i \in 1 .. n : y \in ToSet(gs[i])
  <2>1. n = Len(gs)
    BY DEF Reordered
  <2> QED
    BY <2>1 DEF Groups
<1>5. \A i \in 1 .. n : ToSet(hs[i]) = ToSet(gs[at[i]])
  BY <1>1, ListsToSet
<1>6. \A i \in 1 .. n : ToSet(gs[i]) \subseteq Y
  BY <1>3, ToSetWithin
<1>7. \A i \in 1 .. n : hs[i] \in Seq(Y)
  <2> TAKE i \in 1 .. n
  <2>1. at[i] \in 1 .. n
    BY <1>1
  <2>2. ToSet(gs[at[i]]) \subseteq Y
    BY <1>6, <2>1
  <2> QED
    BY <1>1, <2>2, SeqMonotonic DEF Lists
<1>8. hs \in Seq(Seq(Y)) /\ Len(hs) = n
  <2> DEFINE S == Seq(Y)
  <2>1. \A i \in 1 .. n : hs[i] \in S
    BY <1>7
  <2> HIDE DEF S
  <2>2. hs \in [1 .. n -> S]
    BY <1>2, <2>1, Zenon
  <2>3. n \in Nat
    BY <1>3
  <2>4. hs \in Seq(S) /\ Len(hs) = n
    BY <2>2, <2>3, FunctionSeq
  <2> QED
    BY <2>4 DEF S
<1>9. ASSUME NEW i \in 1 .. n, NEW j \in 1 .. n, i # j
      PROVE  ToSet(hs[i]) \cap ToSet(hs[j]) = {}
  <2>1. at[i] # at[j] /\ at[i] \in 1 .. n /\ at[j] \in 1 .. n
    BY <1>1, <1>9
  <2>2. ToSet(gs[at[i]]) \cap ToSet(gs[at[j]]) = {}
    BY <1>4, <2>1, Zenon
  <2>3. ToSet(hs[i]) = ToSet(gs[at[i]]) /\ ToSet(hs[j]) = ToSet(gs[at[j]])
    BY <1>5
  <2> QED
    BY <2>2, <2>3, Zenon
<1>10. ASSUME NEW y \in Y PROVE \E i \in 1 .. n : y \in ToSet(hs[i])
  <2>1. PICK g \in 1 .. n : y \in ToSet(gs[g])
    BY <1>4
  <2>2. PICK i \in 1 .. n : at[i] = g
    BY <1>1
  <2> QED
    BY <1>5, <2>1, <2>2
<1>11. \A i \in 1 .. n : hs[i] # <<>> /\ Lists(hs[i], ToSet(hs[i]))
  BY <1>1, <1>5
<1> QED
  BY <1>8, <1>9, <1>10, <1>11, Zenon DEF Groups

\* No two texts in X are duplicates, and the comparison is an order of them.
Strict(X) ==
  /\ Ordering(X)
  /\ \A s, t \in X : s # t => Before(s, t) \/ Before(t, s)

\* So it is of fewer texts.
LEMMA StrictWithin ==
  ASSUME NEW X, Strict(X), NEW Y, Y \subseteq X
  PROVE  Strict(Y)
  BY DEF Strict, Ordering

\* Such texts have one that comes first in every list of them in reading order.
LEMMA SameFirst ==
  ASSUME NEW X, Strict(X), NEW s, NEW t, Lists(s, X), Lists(t, X), s # <<>>,
         InReadingOrder(s), InReadingOrder(t)
  PROVE  s[1] = t[1]
<1>1. Len(s) # 0 /\ Len(s) \in Nat
  BY Listed
<1>2. /\ DOMAIN s = 1 .. Len(s) /\ DOMAIN t = 1 .. Len(t) /\ Len(t) \in Nat
      /\ \A x \in X : \E i \in 1 .. Len(s) : s[i] = x
      /\ \A x \in X : \E i \in 1 .. Len(t) : t[i] = x
      /\ \A i \in 1 .. Len(s) : s[i] \in X
      /\ \A i \in 1 .. Len(t) : t[i] \in X
  BY Listed
<1>3. 1 \in 1 .. Len(s) /\ s[1] \in X
  BY <1>1, <1>2
<1>4. PICK j \in 1 .. Len(t) : t[j] = s[1]
  BY <1>2, <1>3
<1>5. 1 \in 1 .. Len(t) /\ t[1] \in X
  BY <1>2, <1>4
<1>6. PICK i \in 1 .. Len(s) : s[i] = t[1]
  BY <1>2, <1>5
<1>7. CASE i = 1 \/ j = 1
  BY <1>4, <1>6, <1>7
<1>8. CASE 1 < i /\ 1 < j
  <2>1. ~Before(s[i], s[1])
    BY <1>2, <1>3, <1>8 DEF InReadingOrder
  <2>2. ~Before(t[j], t[1])
    BY <1>2, <1>5, <1>8 DEF InReadingOrder
  <2> QED
    BY <1>3, <1>4, <1>5, <1>6, <2>1, <2>2 DEF Strict
<1> QED
  BY <1>1, <1>2, <1>7, <1>8

\* The comparison looks at the places only.
LEMMA BeforePlaces ==
  ASSUME NEW s, NEW t, NEW u, NEW v,
         s.x = u.x, s.y = u.y, t.x = v.x, t.y = v.y
  PROVE  (Before(s, t) <=> Before(u, v)) /\ (Duplicate(s, t) <=> Duplicate(u, v))
  BY DEF Before, Duplicate, compareTo

\* Groups each in reading order, and in that of their first texts.
Ranked(hs, n) ==
  /\ \A k \in 1 .. n : InReadingOrder(hs[k])
  /\ \A k, l \in 1 .. n : k < l => Before(hs[k][1], hs[l][1])

\* The final order is that of the groups, each sorted, in another order; on a page with
\* an order, that of their first texts.
LEMMA SerializeGroups ==
  ASSUME NEW Y, NEW gs, Groups(gs, Y)
  PROVE  \E hs, at : /\ serialize(gs) = FlattenSeq(hs)
                     /\ Reordered(hs, gs, Len(gs), at)
                     /\ Strict(Y) => Ranked(hs, Len(gs))
<1> DEFINE n == Len(gs)
           sorted == [g \in DOMAIN gs |-> Sorted(gs[g])]
           index == calculatePrimaryNodesAsIndexNodes(sorted)
           indexNodes == Sorted(index)
           hs == [k \in DOMAIN gs |-> Sorted(sorted[indexNodes[k].id])]
           T == {index[g] : g \in 1 .. n}
<1>1. n \in Nat /\ DOMAIN gs = 1 .. n /\ \A g \in 1 .. n : gs[g] \in Seq(Y)
  BY GroupsWithin
<1>2. /\ \A g \in 1 .. n : gs[g] # <<>> /\ Lists(gs[g], ToSet(gs[g]))
      /\ \A g, h \in 1 .. n : g # h => ToSet(gs[g]) \cap ToSet(gs[h]) = {}
  BY Zenon DEF Groups
<1>3. serialize(gs) = FlattenSeq(hs)
  BY Zenon DEF serialize
<1> HIDE DEF n
<1>4. \A g \in 1 .. n : /\ Lists(Sorted(gs[g]), ToSet(gs[g]))
                        /\ Lists(Sorted(Sorted(gs[g])), ToSet(gs[g]))
  BY <1>2, SortedLists
<1>5. \A c, X : Lists(c, X) => Len(c) \in Nat /\ (c # <<>> <=> Len(c) # 0)
  BY Listed
<1>6. \A g \in 1 .. n : Sorted(gs[g]) # <<>> /\ Sorted(Sorted(gs[g])) # <<>>
  <2> TAKE g \in 1 .. n
  <2>1. /\ Cardinality(ToSet(gs[g])) = Len(gs[g])
        /\ Cardinality(ToSet(gs[g])) = Len(Sorted(gs[g]))
        /\ Cardinality(ToSet(gs[g])) = Len(Sorted(Sorted(gs[g])))
    BY <1>2, <1>4, ListsLen
  <2> QED
    BY <1>2, <1>4, <1>5, <2>1
<1>7. \A g \in 1 .. n : sorted[g] = Sorted(gs[g])
  BY <1>1
<1>8. DOMAIN sorted = 1 .. n
  BY <1>1
<1> HIDE DEF sorted
<1>9. /\ index = [g \in 1 .. n |-> index[g]]
      /\ \A g \in 1 .. n : /\ index[g].id = g
                           /\ index[g].x = sorted[g][1].x
                           /\ index[g].y = sorted[g][1].y
  BY <1>8 DEF calculatePrimaryNodesAsIndexNodes
<1> HIDE DEF index
<1>10. Lists(index, T)
  <2>1. \A g \in 1 .. n : index[g] \in T
    OBVIOUS
  <2>2. \A x \in T : \E g \in 1 .. n : index[g] = x
    OBVIOUS
  <2> HIDE DEF T
  <2>3. index \in [1 .. n -> T]
    BY <1>9, <2>1, Zenon
  <2>4. index \in Seq(T) /\ Len(index) = n
    BY <1>1, <2>3
  <2>5. \A i, j \in 1 .. n : index[i] = index[j] => i = j
    BY <1>9
  <2> QED
    BY <2>2, <2>4, <2>5, Zenon DEF Lists
<1>11. Len(index) = n
  BY <1>1, <1>9
<1>12. Lists(indexNodes, T) /\ Len(indexNodes) = n
  <2>1. Lists(indexNodes, T)
    BY <1>10, SortedLists
  <2> QED
    BY <1>10, <1>11, <2>1, ListsLen
<1> DEFINE at == [k \in 1 .. n |-> indexNodes[k].id]
<1>13. Ordering(T) => InReadingOrder(indexNodes)
  BY <1>10, SortedLists
<1> HIDE DEF indexNodes
<1>14. \A k \in 1 .. n : \E g \in 1 .. n : indexNodes[k] = index[g] /\ indexNodes[k].id = g
  BY <1>9, <1>12 DEF Lists
<1>15. at \in [1 .. n -> 1 .. n] /\ \A k \in 1 .. n : indexNodes[k] = index[at[k]]
  BY <1>14
<1>16. \A i, j \in 1 .. n : at[i] = at[j] => i = j
  <2> TAKE i, j \in 1 .. n
  <2>1. at[i] = at[j] => indexNodes[i] = indexNodes[j]
    BY <1>14
  <2> QED
    BY <1>12, <2>1 DEF Lists
<1>17. \A g \in 1 .. n : \E k \in 1 .. n : at[k] = g
  <2> TAKE g \in 1 .. n
  <2>1. PICK k \in 1 .. n : indexNodes[k] = index[g]
    <3>1. index[g] \in T
      OBVIOUS
    <3> QED
      BY <1>12, <3>1 DEF Lists
  <2> QED
    BY <1>9, <2>1
<1>18. DOMAIN hs = 1 .. n /\ hs = [k \in 1 .. n |-> hs[k]]
  BY <1>1
<1>19. \A k \in 1 .. n : hs[k] = Sorted(Sorted(gs[at[k]]))
  <2> TAKE k \in 1 .. n
  <2>1. at[k] \in 1 .. n /\ at[k] = indexNodes[k].id
    BY <1>15
  <2> HIDE DEF at
  <2> QED
    BY <1>1, <1>7, <2>1
<1> HIDE DEF hs, at
<1>20. \A k \in 1 .. n : Lists(hs[k], ToSet(gs[at[k]])) /\ hs[k] # <<>>
  BY <1>4, <1>6, <1>15, <1>19
<1>21. Reordered(hs, gs, n, at)
  <2>1. n = Len(gs)
    BY DEF n
  <2> QED
    BY <1>15, <1>16, <1>17, <1>18, <1>20, <2>1, Zenon DEF Reordered
<1>22. ASSUME Strict(Y) PROVE Ranked(hs, n)
  <2> DEFINE f == [g \in 1 .. n |-> sorted[g][1]]
  <2>1. \A g \in 1 .. n : ToSet(gs[g]) \subseteq Y
    BY <1>1, ToSetWithin
  <2>2. \A g \in 1 .. n : Strict(ToSet(gs[g])) /\ Ordering(ToSet(gs[g]))
    BY <1>22, <2>1, StrictWithin DEF Strict
  <2>3. \A g \in 1 .. n : /\ InReadingOrder(Sorted(gs[g]))
                          /\ InReadingOrder(Sorted(Sorted(gs[g])))
    BY <1>2, <1>4, <2>2, SortedLists
  <2>4. \A g \in 1 .. n : Sorted(Sorted(gs[g]))[1] = f[g]
    <3> TAKE g \in 1 .. n
    <3>1. Sorted(gs[g])[1] = Sorted(Sorted(gs[g]))[1]
      BY <1>4, <1>6, <2>2, <2>3, SameFirst
    <3> QED
      BY <1>7, <3>1
  <2>5. \A g \in 1 .. n : f[g] \in ToSet(gs[g]) /\ f[g] \in Y
    <3> TAKE g \in 1 .. n
    <3>1. 1 \in 1 .. Len(Sorted(gs[g]))
      BY <1>4, <1>6, <1>5
    <3>2. Sorted(gs[g])[1] \in ToSet(gs[g])
      BY <1>4, <3>1 DEF Lists
    <3> QED
      BY <1>7, <2>1, <3>2
  <2>6. \A g \in 1 .. n : index[g].x = f[g].x /\ index[g].y = f[g].y
    BY <1>9
  <2> HIDE DEF f
  <2>7. \A g, h \in 1 .. n : /\ Before(index[g], index[h]) <=> Before(f[g], f[h])
                             /\ Duplicate(index[g], index[h]) <=> Duplicate(f[g], f[h])
    BY <2>6, BeforePlaces
  <2>8. \A r, s, t \in Y :
          /\ Before(r, s) /\ Before(s, t) => Before(r, t)
          /\ ~Before(r, s) /\ ~Before(s, t) => ~Before(r, t)
          /\ ~(Before(r, s) /\ Before(s, r))
          /\ Duplicate(r, s) <=> ~Before(r, s) /\ ~Before(s, r)
    BY <1>22 DEF Strict, Ordering
  <2>9. Ordering(T)
    <3>1. ASSUME NEW g \in 1 .. n, NEW h \in 1 .. n, NEW i \in 1 .. n
          PROVE  LET r == index[g]
                     s == index[h]
                     t == index[i]
                 IN  /\ Before(r, s) /\ Before(s, t) => Before(r, t)
                     /\ ~Before(r, s) /\ ~Before(s, t) => ~Before(r, t)
                     /\ ~(Before(r, s) /\ Before(s, r))
                     /\ Duplicate(r, s) <=> ~Before(r, s) /\ ~Before(s, r)
      BY <2>5, <2>7, <2>8
    <3>2. \A r \in T : \E g \in 1 .. n : r = index[g]
      OBVIOUS
    <3> HIDE DEF T
    <3> QED
      BY <3>1, <3>2 DEF Ordering
  <2>10. \A k \in 1 .. n : InReadingOrder(hs[k]) /\ hs[k][1] = f[at[k]]
    BY <1>15, <1>19, <2>3, <2>4
  <2>11. ASSUME NEW k \in 1 .. n, NEW l \in 1 .. n, k < l PROVE Before(hs[k][1], hs[l][1])
    <3>1. DOMAIN indexNodes = 1 .. n
      BY <1>12 DEF Lists
    <3>2. ~Before(indexNodes[l], indexNodes[k])
      BY <1>13, <2>9, <2>11, <3>1 DEF InReadingOrder
    <3>3. at[k] \in 1 .. n /\ at[l] \in 1 .. n /\ k # l
      BY <1>15, <2>11
    <3>4. ~Before(f[at[l]], f[at[k]])
      BY <1>15, <2>7, <3>2, <3>3
    <3>5. f[at[k]] # f[at[l]]
      <4>1. at[k] # at[l]
        BY <1>16, <3>3
      <4> QED
        BY <1>2, <2>5, <3>3, <4>1
    <3>6. f[at[k]] \in Y /\ f[at[l]] \in Y
      BY <2>5, <3>3
    <3>7. Before(f[at[k]], f[at[l]])
      BY <1>22, <3>4, <3>5, <3>6 DEF Strict
    <3> QED
      BY <2>10, <3>7
  <2> QED
    BY <2>10, <2>11 DEF Ranked
<1> QED
  BY <1>3, <1>21, <1>22 DEF n

\* The page in its final order has the texts of the groups, each once.
LEMMA SerializeLists ==
  ASSUME NEW Y, NEW gs, Groups(gs, Y)
  PROVE  Lists(serialize(gs), Y)
<1>1. PICK hs, at : serialize(gs) = FlattenSeq(hs) /\ Reordered(hs, gs, Len(gs), at)
  BY SerializeGroups
<1>2. Groups(hs, Y)
  BY <1>1, GroupsReordered
<1> QED
  BY <1>1, <1>2, FlattenLists

-----------------------------------------------------------------------------

Inside == {"open", "prepared", "tree", "serialized"}

\* While its writer is open a file is neither complete nor damaged; without a writer it
\* is one of those that could not be opened.
Walking ==
  stage \in Inside =>
    IF writer THEN file \notin complete \cup damaged ELSE file \in unopened

IInv == TypeOK /\ OutputOfOneRun /\ NoGaps /\ Walking

\* What OutputOfOneRun says of one file: it holds o, of n pages of run r.
OneRun(o, r, n, closed, failed) ==
  /\ \A k \in DOMAIN o : o[k] \in {r} \X (1 .. n)
  /\ ~failed => \E m \in 0 .. n : o = Written(r, m) /\ (closed => m = n)

-----------------------------------------------------------------------------

LEMMA WrittenIsSeq ==
  ASSUME NEW r, NEW n \in Nat
  PROVE  /\ Written(r, n) \in Seq({<<r, k>> : k \in 1 .. n})
         /\ Len(Written(r, n)) = n
         /\ \A k \in 1 .. n : Written(r, n)[k] = <<r, k>>
  BY DEF Written

LEMMA WrittenNone == ASSUME NEW r PROVE Written(r, 0) = <<>>
  BY DEF Written

\* Writing the next page.
LEMMA WrittenNext ==
  ASSUME NEW r, NEW n \in Nat
  PROVE  Append(Written(r, n), <<r, n + 1>>) = Written(r, n + 1)
<1>1. Written(r, n) \in Seq({<<r, k>> : k \in 1 .. n}) /\ Len(Written(r, n)) = n
  BY WrittenIsSeq
<1>2. \A k \in 1 .. n + 1 : Append(Written(r, n), <<r, n + 1>>)[k] = <<r, k>>
  BY <1>1 DEF Written
<1>3. DOMAIN Append(Written(r, n), <<r, n + 1>>) = 1 .. n + 1
  BY <1>1
<1> QED BY <1>1, <1>2, <1>3 DEF Written

\* What of it is flushed when the process ends.
LEMMA WrittenFlushed ==
  ASSUME NEW r, NEW n \in Nat, NEW flushed \in Prefixes(Written(r, n))
  PROVE  \E k \in 0 .. n : flushed = Written(r, k)
<1>1. Len(Written(r, n)) = n BY WrittenIsSeq
<1>2. PICK k \in 0 .. n : flushed = SubSeq(Written(r, n), 1, k)
  BY <1>1 DEF Prefixes
<1>3. SubSeq(Written(r, n), 1, k) = Written(r, k)
  BY <1>1 DEF Written
<1> QED BY <1>2, <1>3

\* The first pages of a run, all of them if the file is closed.
LEMMA OneRunWritten ==
  ASSUME NEW r, NEW n \in Nat, NEW m \in 0 .. n, NEW closed, closed => m = n, NEW failed
  PROVE  OneRun(Written(r, m), r, n, closed, failed)
<1>1. DOMAIN Written(r, m) = 1 .. m /\ 1 .. m \subseteq 1 .. n
  BY DEF Written
<1>2. \A k \in 1 .. m : Written(r, m)[k] = <<r, k>>
  BY DEF Written
<1>3. ASSUME NEW k \in DOMAIN Written(r, m) PROVE Written(r, m)[k] \in {r} \X (1 .. n)
  <2>1. k \in 1 .. m /\ k \in 1 .. n
    BY <1>1
  <2>2. Written(r, m)[k] = <<r, k>>
    BY <1>2, <2>1
  <2> QED
    BY <2>1, <2>2
<1> QED
  BY <1>3 DEF OneRun

\* What a writer that fails leaves are pages it was given.
LEMMA OneRunDamaged ==
  ASSUME NEW n \in Nat, NEW m \in Nat, m <= n, NEW pieces \in Pieces(m), NEW closed
  PROVE  OneRun(pieces, run, n, closed, TRUE)
<1>1. PICK l \in 0 .. m : pieces \in [1 .. l -> {run} \X (1 .. m)]
  BY DEF Pieces
<1>2. 1 .. m \subseteq 1 .. n
  OBVIOUS
<1> QED
  BY <1>1, <1>2 DEF OneRun

\* A step that changes one file, and leaves in it pages of one run.
LEMMA OneFileChanged ==
  ASSUME IInv, file \in 1 .. Files, run' = run,
         \A f \in 1 .. Files : f # file =>
           /\ out'[f] = out[f] /\ pages'[f] = pages[f]
           /\ (f \in complete' <=> f \in complete) /\ (f \in damaged' <=> f \in damaged),
         \E r \in 1 .. run :
           OneRun(out'[file], r, pages'[file], file \in complete', file \in damaged')
  PROVE  OutputOfOneRun'
<1>1. ASSUME NEW f \in 1 .. Files
      PROVE  \E r \in 1 .. run : OneRun(out'[f], r, pages'[f], f \in complete', f \in damaged')
  <2>1. CASE f = file
    BY <2>1
  <2>2. CASE f # file
    <3>1. PICK r \in 1 .. run : OneRun(out[f], r, pages[f], f \in complete, f \in damaged)
      BY DEF IInv, OutputOfOneRun, OneRun
    <3>2. OneRun(out'[f], r, pages'[f], f \in complete', f \in damaged')
      BY <2>2, <3>1 DEF OneRun
    <3> QED
      BY <3>2
  <2> QED
    BY <2>1, <2>2
<1> QED
  BY <1>1 DEF OutputOfOneRun, OneRun

\* The file at hand while it is being processed.
LEMMA AtWork ==
  ASSUME TypeOK, stage \in Inside
  PROVE  /\ file \in 1 .. Files
         /\ page - 1 \in Nat /\ page - 1 <= length /\ length \in Nat
         /\ writer => buffer = Written(run, page - 1) /\ pages[file] = length
<1>1. page \in Nat \ {0} /\ length \in Nat /\ page <= length + 1
  BY DEF TypeOK, Inside
<1>2. file \in 1 .. Files + 1 /\ file <= Files
  BY DEF TypeOK, Inside
<1>3. file \in 1 .. Files
  BY <1>2, FilesAssumption
<1>4. writer => buffer = Written(run, page - 1) /\ pages[file] = length
  BY DEF TypeOK, Inside
<1> QED BY <1>1, <1>3, <1>4
-----------------------------------------------------------------------------

LEMMA InitInv == ASSUME Init PROVE IInv
<1>1. \A f \in 1 .. Files : out[f] = Written(1, 0)
  BY WrittenNone DEF Init
<1>2. TypeOK
  <2>1. pages \in [1 .. Files -> Nat] /\ DOMAIN out = 1 .. Files /\ file \in 1 .. Files + 1
    BY FilesAssumption DEF Init
  <2>2. complete \cup damaged \cup unopened \subseteq 1 .. Files
    BY DEF Init
  <2>3. /\ stage = "walk" /\ run = 1 /\ page = 1 /\ length = 0 /\ fresh = TRUE
        /\ writer = FALSE /\ buffer = <<>>
    BY DEF Init
  <2>4. /\ run \in Nat \ {0} /\ page \in Nat \ {0} /\ length \in Nat
        /\ stage \in {"walk"} /\ {"walk"} \subseteq Stages
        /\ stage \notin {"open", "prepared", "tree", "serialized"}
    BY <2>3 DEF Stages
  <2>5. stage \in Stages /\ fresh \in BOOLEAN /\ writer \in BOOLEAN /\ ~writer
    BY <2>3, <2>4
  <2>6. stage \notin {"prepared", "tree", "serialized"}
    BY <2>4
  <2> QED
    BY <2>1, <2>2, <2>3, <2>4, <2>5, <2>6, Zenon DEF TypeOK
<1>3. OutputOfOneRun
  <2> SUFFICES ASSUME NEW f \in 1 .. Files
               PROVE  \E r \in 1 .. run :
                        OneRun(out[f], r, pages[f], f \in complete, f \in damaged)
    BY DEF OutputOfOneRun, OneRun
  <2>1. 1 \in 1 .. run /\ 0 \in 0 .. pages[f] /\ pages[f] \in Nat /\ f \notin complete
    BY DEF Init
  <2>2. OneRun(Written(1, 0), 1, pages[f], f \in complete, f \in damaged)
    BY <2>1, OneRunWritten
  <2> QED BY <1>1, <2>1, <2>2
<1>4. NoGaps /\ Walking
  BY DEF Init, NoGaps, Walking, Inside
<1> QED BY <1>2, <1>3, <1>4 DEF IInv

\* Opening the output: it is emptied, left as it was, or both of no use without a writer.
LEMMA StepOpen ==
  ASSUME IInv, NEW n \in 0 .. MaxPages, Open(n)
  PROVE  IInv'
<1> USE FilesAssumption, BoundsAssumption DEF Stages, Inside
<1>1. /\ n \in Nat /\ file \in 1 .. Files /\ page' = 1 /\ length' = n /\ run' = run
      /\ file' = file /\ stage = "walk" /\ stage' = "open" /\ fresh' = fresh
      /\ writer = FALSE /\ buffer = <<>>
  BY DEF Open, IInv, TypeOK, document
<1>2. buffer' = <<>> /\ Written(run, 0) = <<>>
  BY <1>1, WrittenNone DEF Open, OpenWriter, Emptied
<1>3. /\ \/ Emptied(n)
         \/ ~writer' /\ UNCHANGED disk
      /\ IF writer' THEN Emptied(n) /\ unopened' = unopened
                    ELSE unopened' = unopened \cup {file}
  BY <1>1 DEF Open, OpenWriter
<1>4. writer' \in BOOLEAN
  BY <1>1 DEF Open, OpenWriter
<1>5. CASE Emptied(n)
  <2>1. /\ out' = [out EXCEPT ![file] = <<>>] /\ pages' = [pages EXCEPT ![file] = n]
        /\ complete' = complete \ {file} /\ damaged' = damaged \ {file}
    BY <1>5 DEF Emptied
  <2>2. /\ out'[file] = <<>> /\ pages'[file] = n
        /\ \A f \in 1 .. Files : f # file => out'[f] = out[f] /\ pages'[f] = pages[f]
    BY <1>1, <2>1 DEF IInv, TypeOK
  <2>3. OutputOfOneRun'
    <3>1. OneRun(out'[file], run, pages'[file], file \in complete', file \in damaged')
      <4>1. file \notin complete' /\ 0 \in 0 .. n
        BY <1>1, <2>1
      <4>2. OneRun(Written(run, 0), run, n, file \in complete', file \in damaged')
        BY <1>1, <4>1, OneRunWritten
      <4> QED
        BY <1>2, <2>2, <4>2
    <3>2. run \in 1 .. run
      BY DEF IInv, TypeOK
    <3> QED
      BY <1>1, <2>1, <2>2, <3>1, <3>2, OneFileChanged
  <2>4. TypeOK'
    <3>1. /\ DOMAIN out' = 1 .. Files /\ pages' \in [1 .. Files -> Nat]
          /\ complete' \cup damaged' \cup unopened' \subseteq 1 .. Files
      BY <1>1, <1>3, <2>1 DEF IInv, TypeOK
    <3>2. IF writer' THEN buffer' = Written(run', page' - 1) /\ pages'[file'] = length'
                     ELSE buffer' = <<>>
      BY <1>1, <1>2, <2>2
    <3> QED
      BY <1>1, <1>4, <3>1, <3>2 DEF IInv, TypeOK
  <2>5. NoGaps' /\ Walking'
    BY <1>1, <1>3, <2>1, <2>2 DEF IInv, NoGaps, Walking, TypeOK
  <2> QED BY <2>3, <2>4, <2>5 DEF IInv
<1>6. CASE ~writer' /\ UNCHANGED disk
  <2>1. UNCHANGED <<out, pages, complete, damaged>> /\ unopened' = unopened \cup {file}
    BY <1>3, <1>6 DEF disk
  <2>2. TypeOK'
    <3>1. /\ page' \in Nat \ {0} /\ length' \in Nat /\ page' <= length' + 1
          /\ file' <= Files /\ stage' \in Stages
          /\ stage' \notin {"prepared", "tree", "serialized", "walk", "done", "aborted"}
      BY <1>1
    <3>2. complete' \cup damaged' \cup unopened' \subseteq 1 .. Files
      BY <1>1, <2>1 DEF IInv, TypeOK
    <3> HIDE DEF Stages, Inside
    <3>3. /\ run' \in Nat \ {0} /\ file' \in 1 .. Files + 1 /\ pages' \in [1 .. Files -> Nat]
          /\ fresh' \in BOOLEAN /\ DOMAIN out' = 1 .. Files
      BY <1>1, <2>1, Zenon DEF IInv, TypeOK
    <3>4. /\ stage' \notin {"prepared", "tree", "serialized"}
          /\ stage' \notin {"walk", "done", "aborted"}
      BY <3>1
    <3> QED
      BY <1>2, <1>4, <1>6, <3>1, <3>2, <3>3, <3>4, Zenon DEF TypeOK
  <2>3. OutputOfOneRun'
    BY <1>1, <2>1 DEF IInv, OutputOfOneRun
  <2>4. NoGaps'
    BY <1>1, <2>1 DEF IInv, NoGaps
  <2>5. Walking'
    BY <1>6, <1>1, <2>1 DEF Walking
  <2> QED BY <2>2, <2>3, <2>4, <2>5 DEF IInv
<1> QED
  BY <1>3, <1>5, <1>6

\* The writer is given up: what it leaves are pages it was given.
LEMMA StepAbort ==
  ASSUME IInv, Abort
  PROVE  IInv'
<1> USE FilesAssumption DEF Stages, Inside
<1>1. /\ stage' = "aborted" /\ writer' = FALSE /\ buffer' = <<>> /\ fresh' = TRUE
      /\ UNCHANGED <<run, file, length, page, pages, complete, unopened>>
  BY DEF Abort, NoDocument, input
<1>2. CASE ~writer
  <2>1. UNCHANGED <<out, damaged>>
    BY <1>2 DEF Abort
  <2>2. OutputOfOneRun'
    BY <1>1, <2>1 DEF IInv, OutputOfOneRun
  <2>3. NoGaps'
    BY <1>1, <2>1 DEF IInv, NoGaps
  <2>4. Walking' /\ TypeOK'
    BY <1>1, <2>1 DEF IInv, TypeOK, Walking
  <2> QED
    BY <2>2, <2>3, <2>4 DEF IInv
<1>3. CASE writer
  <2>1. stage \in Inside
    BY <1>3 DEF IInv, TypeOK
  <2>2. /\ buffer = Written(run, page - 1) /\ page - 1 \in Nat
        /\ file \in 1 .. Files /\ page - 1 <= pages[file] /\ pages[file] \in Nat
        /\ file \notin complete
    BY <1>3, <2>1, AtWork DEF IInv, Walking
  <2>3. PICK o : out' = [out EXCEPT ![file] = o] /\
                 \/ o \in Prefixes(buffer) /\ damaged' = damaged
                 \/ o \in Pieces(page - 1) /\ damaged' = damaged \cup {file}
    BY <1>3 DEF Abort, Damaged
  <2>4. out'[file] = o /\ \A f \in 1 .. Files : f # file => out'[f] = out[f]
    BY <2>2, <2>3 DEF IInv, TypeOK
  <2>5. run \in 1 .. run
    BY DEF IInv, TypeOK
  <2>6. OneRun(o, run, pages[file], file \in complete, file \in damaged')
    <3>1. CASE o \in Prefixes(buffer)
      <4>1. PICK k \in 0 .. page - 1 : o = Written(run, k)
        BY <2>2, <3>1, WrittenFlushed
      <4>2. k \in 0 .. pages[file]
        BY <2>2
      <4> QED
        BY <2>2, <4>1, <4>2, OneRunWritten
    <3>2. CASE o \in Pieces(page - 1) /\ damaged' = damaged \cup {file}
      <4>1. OneRun(o, run, pages[file], file \in complete, TRUE)
        BY <2>2, <3>2, OneRunDamaged
      <4>2. file \in damaged'
        BY <3>2
      <4> QED
        BY <4>1, <4>2 DEF OneRun
    <3> QED
      BY <2>3, <3>1, <3>2
  <2>7. OutputOfOneRun'
    BY <1>1, <2>2, <2>3, <2>4, <2>5, <2>6, OneFileChanged
  <2>8. TypeOK'
    <3>1. DOMAIN out' = 1 .. Files /\ damaged' \subseteq 1 .. Files
      BY <2>2, <2>3 DEF IInv, TypeOK
    <3> QED
      BY <1>1, <3>1 DEF IInv, TypeOK
  <2>9. NoGaps' /\ Walking'
    <3>1. damaged \subseteq damaged'
      BY <2>3
    <3>2. \A f \in 1 .. file - 1 : f \in 1 .. Files /\ f # file
      BY <2>2
    <3> QED
      BY <1>1, <2>4, <3>1, <3>2 DEF IInv, NoGaps, Walking
  <2> QED BY <2>7, <2>8, <2>9 DEF IInv
<1> QED
  BY <1>2, <1>3

\* Closing the output: all pages are written, or the writer fails unnoticed.
LEMMA StepClose ==
  ASSUME IInv, Close
  PROVE  IInv'
<1> USE FilesAssumption DEF Stages, Inside
<1>1. /\ stage' = "walk" /\ file' = file + 1 /\ writer' = FALSE /\ buffer' = <<>>
      /\ UNCHANGED <<run, length, page, fresh, pages, unopened>>
      /\ stage = "open" /\ page > length
  BY DEF Close, document
<1>2. /\ file \in 1 .. Files /\ page - 1 = length /\ length \in Nat
      /\ writer => buffer = Written(run, length) /\ pages[file] = length
  <2>1. page \in Nat /\ length \in Nat
    BY DEF IInv, TypeOK
  <2>2. /\ file \in 1 .. Files /\ page - 1 <= length
        /\ writer => buffer = Written(run, page - 1) /\ pages[file] = length
    BY <1>1, AtWork DEF IInv
  <2>3. page - 1 = length
    BY <1>1, <2>1, <2>2
  <2> QED
    BY <2>1, <2>2, <2>3
<1>3. run \in 1 .. run
  BY DEF IInv, TypeOK
<1>4. 1 .. file' - 1 = (1 .. file - 1) \cup {file}
  BY <1>1, <1>2
<1>5. \A f \in 1 .. file - 1 : f \in 1 .. Files /\ f # file
  BY <1>2
<1>6. file' \in 1 .. Files + 1
  BY <1>1, <1>2
<1>7. CASE ~writer
  <2>1. UNCHANGED <<out, complete, damaged>> /\ file \in unopened
    BY <1>1, <1>7 DEF Close, IInv, Walking
  <2>2. OutputOfOneRun'
    BY <1>1, <2>1 DEF IInv, OutputOfOneRun
  <2>3. TypeOK'
    BY <1>1, <1>6, <2>1 DEF IInv, TypeOK
  <2>4. NoGaps' /\ Walking'
    BY <1>1, <1>4, <2>1 DEF IInv, NoGaps, Walking
  <2> QED
    BY <2>2, <2>3, <2>4 DEF IInv
<1>8. CASE writer
  <2>1. PICK o : /\ out' = [out EXCEPT ![file] = o]
                 /\ \/ o = buffer /\ complete' = complete \cup {file} /\ damaged' = damaged
                    \/ /\ o \in Pieces(page - 1) /\ complete' = complete
                       /\ damaged' = damaged \cup {file}
    BY <1>8 DEF Close, Damaged
  <2>2. out'[file] = o /\ \A f \in 1 .. Files : f # file => out'[f] = out[f]
    BY <1>2, <2>1 DEF IInv, TypeOK
  <2>3. pages[file] = length /\ buffer = Written(run, length)
    BY <1>2, <1>8
  <2>4. OneRun(o, run, pages[file], file \in complete', file \in damaged')
    <3>1. CASE o = buffer
      <4>1. length \in 0 .. length
        BY <1>2
      <4>2. OneRun(Written(run, length), run, length, file \in complete', file \in damaged')
        BY <1>2, <4>1, OneRunWritten
      <4> QED
        BY <2>3, <3>1, <4>2
    <3>2. CASE o \in Pieces(page - 1) /\ damaged' = damaged \cup {file}
      <4>1. o \in Pieces(length) /\ length <= length
        BY <1>2, <3>2
      <4>2. OneRun(o, run, length, file \in complete', TRUE)
        BY <1>2, <4>1, OneRunDamaged
      <4>3. file \in damaged'
        BY <3>2
      <4> QED
        BY <2>3, <4>2, <4>3 DEF OneRun
    <3> QED
      BY <2>1, <3>1, <3>2
  <2>5. OutputOfOneRun'
    BY <1>1, <1>2, <1>3, <2>1, <2>2, <2>4, OneFileChanged
  <2>6. TypeOK'
    <3>1. DOMAIN out' = 1 .. Files /\ complete' \cup damaged' \subseteq 1 .. Files
      BY <1>2, <2>1 DEF IInv, TypeOK
    <3> QED
      BY <1>1, <1>6, <3>1 DEF IInv, TypeOK
  <2>7. NoGaps' /\ Walking'
    <3>1. file \in damaged' \/ out'[file] = Written(run, pages[file])
      BY <2>1, <2>2, <2>3
    <3>2. damaged \subseteq damaged'
      BY <2>1
    <3> QED
      BY <1>1, <1>4, <1>5, <2>2, <3>1, <3>2 DEF IInv, NoGaps, Walking
  <2> QED
    BY <2>5, <2>6, <2>7 DEF IInv
<1> QED
  BY <1>7, <1>8

\* The next page is given to the writer, if there is one.
LEMMA StepWrite ==
  ASSUME IInv, WritePage
  PROVE  IInv'
<1> USE DEF Stages, Inside
<1>1. /\ stage = "serialized" /\ stage' = "open" /\ page' = page + 1 /\ fresh' = TRUE
      /\ buffer' = IF writer THEN Append(buffer, <<run, page>>) ELSE buffer
      /\ UNCHANGED <<run, file, length, writer, out, pages, complete, damaged, unopened>>
  BY DEF WritePage, NoDocument, input, disk
<1>2. page \in Nat \ {0} /\ length \in Nat /\ page <= length
  BY <1>1 DEF IInv, TypeOK
<1>3. IF writer THEN buffer' = Written(run, page) /\ pages[file] = length ELSE buffer' = <<>>
  <2>1. CASE writer
    <3>1. buffer = Written(run, page - 1) /\ pages[file] = length
      BY <1>1, <2>1 DEF IInv, TypeOK
    <3>2. page - 1 \in Nat /\ page = (page - 1) + 1
      BY <1>2
    <3>3. Append(Written(run, page - 1), <<run, (page - 1) + 1>>) = Written(run, (page - 1) + 1)
      BY <3>2, WrittenNext
    <3> QED
      BY <1>1, <2>1, <3>1, <3>2, <3>3
  <2>2. CASE ~writer
    BY <1>1, <2>2 DEF IInv, TypeOK
  <2> QED
    BY <2>1, <2>2
<1>4. page' - 1 = page /\ page' \in Nat \ {0} /\ page' <= length + 1
  BY <1>1, <1>2
<1>5. TypeOK'
  BY <1>1, <1>3, <1>4 DEF IInv, TypeOK
<1>6. OutputOfOneRun' /\ NoGaps' /\ Walking'
  BY <1>1 DEF IInv, OutputOfOneRun, NoGaps, Walking
<1> QED BY <1>5, <1>6 DEF IInv

\* The files that were passed are as they were.
LEMMA FilesKeep ==
  ASSUME OutputOfOneRun, NoGaps, UNCHANGED <<run, file, out, pages, complete, damaged, unopened>>
  PROVE  OutputOfOneRun' /\ NoGaps'
<1>1. OutputOfOneRun'
  BY DEF OutputOfOneRun
<1>2. NoGaps'
  BY DEF NoGaps
<1> QED
  BY <1>1, <1>2

LEMMA StepInv == ASSUME IInv, [Next]_vars PROVE IInv'
<1> USE DEF Stages, Inside
<1>1. ASSUME NEW positions, PreparePage(positions) PROVE IInv'
  <2>1. /\ stage = "open" /\ page <= length /\ stage' = "prepared"
        /\ UNCHANGED <<run, file, length, writer, page, fresh, buffer, out, pages, complete,
                       damaged, unopened>>
    BY <1>1 DEF PreparePage, input, disk
  <2>2. OutputOfOneRun' /\ NoGaps'
    BY <2>1, FilesKeep DEF IInv
  <2>3. TypeOK' /\ Walking'
    BY <2>1 DEF IInv, TypeOK, Walking
  <2> QED BY <2>2, <2>3 DEF IInv
<1>2. ASSUME NEW tree, Cluster(tree) \/ ClusterFails(tree) PROVE IInv'
  <2>1. /\ stage = "prepared" /\ stage' = "tree" /\ fresh' \in BOOLEAN
        /\ UNCHANGED <<run, file, length, writer, page, buffer, out, pages, complete,
                       damaged, unopened>>
    BY <1>2 DEF Cluster, ClusterFails, input, disk
  <2>2. OutputOfOneRun' /\ NoGaps'
    BY <2>1, FilesKeep DEF IInv
  <2>3. TypeOK' /\ Walking'
    BY <2>1 DEF IInv, TypeOK, Walking
  <2> QED BY <2>2, <2>3 DEF IInv
<1>3. CASE Serialize
  <2>1. CASE Readable(gtr, content)
    <3>1. /\ stage = "tree" /\ stage' = "serialized"
          /\ UNCHANGED <<run, file, length, writer, page, fresh, buffer, out, pages, complete,
                         damaged, unopened>>
      BY <1>3, <2>1 DEF Serialize, input, disk
    <3>2. OutputOfOneRun' /\ NoGaps'
      BY <3>1, FilesKeep DEF IInv
    <3>3. TypeOK' /\ Walking'
      BY <3>1 DEF IInv, TypeOK, Walking
    <3> QED BY <3>2, <3>3 DEF IInv
  <2>2. CASE ~Readable(gtr, content)
    BY <1>3, <2>2, StepAbort DEF Serialize
  <2> QED BY <2>1, <2>2
<1>4. CASE Finish
  <2>1. /\ stage = "walk" /\ stage' = "done"
        /\ UNCHANGED <<run, file, length, writer, page, fresh, buffer, out, pages, complete,
                       damaged, unopened>>
    BY <1>4 DEF Finish, input, document, disk
  <2> QED BY <2>1 DEF IInv, TypeOK, OutputOfOneRun, NoGaps, Walking
<1>5. CASE Rerun
  <2>1. /\ stage \in {"done", "aborted"} /\ stage' = "walk" /\ run' = run + 1 /\ file' = 1
        /\ unopened' = {}
        /\ UNCHANGED <<length, writer, page, fresh, buffer, out, pages, complete, damaged>>
    BY <1>5 DEF Rerun, document, disk
  <2>2. TypeOK'
    BY <2>1, FilesAssumption DEF IInv, TypeOK
  <2>3. NoGaps' /\ Walking'
    BY <2>1 DEF NoGaps, Walking
  <2>4. OutputOfOneRun'
    <3>1. 1 .. run \subseteq 1 .. run'
      BY <2>1 DEF IInv, TypeOK
    <3> QED
      BY <2>1, <3>1 DEF IInv, OutputOfOneRun
  <2> QED BY <2>2, <2>4, <2>3 DEF IInv
<1>6. CASE UNCHANGED vars
  BY <1>6 DEF IInv, TypeOK, OutputOfOneRun, NoGaps, Walking, vars, input, document, disk
<1>7. CASE OpenFails \/ PrepareFails \/ Kill
  BY <1>7, StepAbort DEF OpenFails, PrepareFails, Kill
<1> QED
  BY <1>1, <1>2, <1>3, <1>4, <1>5, <1>6, <1>7, StepOpen, StepClose, StepWrite DEF Next

LEMMA Safety == Spec => []IInv
  BY InitInv, StepInv, PTL DEF Spec

\* Inside a file its writer, if it could be opened, was given the pages before the one at
\* hand, and outside there is none.
THEOREM TypeCorrect == Spec => []TypeOK
  BY Safety, PTL DEF IInv

\* After any sequence of runs, aborted or not, and whatever output could not be opened or
\* written, an output file holds pages of one run; unless its writer failed they are the
\* first ones, and all of them if it was closed (ContentFileWriter).
THEOREM OutputsNeverMix == Spec => []OutputOfOneRun
  BY Safety, PTL DEF IInv

\* A run passes a file without all of its pages, and nothing else, in the output only if
\* the output could not be opened or written: an exception ends the run instead of
\* skipping the file (FolderWalker.recurseDirectory).
THEOREM WalkLeavesNoGaps == Spec => []NoGaps
  BY Safety, PTL DEF IInv
-----------------------------------------------------------------------------

\* Children and joins of a cluster tree.
Child == [leaf : BOOLEAN, index : Nat]
Join == [left : Child, right : Child, close : BOOLEAN]

\* The leaves and nodes without a parent after the first k joins of a tree.
Standing(tree, n, k) ==
  ({Leaf(i) : i \in 0 .. n - 1} \cup {Node(h) : h \in 1 .. k})
    \ UNION {{tree[h].left, tree[h].right} : h \in 1 .. k}

\* A tree in which each join takes two of those that stand.
Forest(tree, n) ==
  /\ tree \in Seq(Join)
  /\ \A h \in 1 .. Len(tree) : /\ tree[h].left # tree[h].right
                               /\ tree[h].left \in Standing(tree, n, h - 1)
                               /\ tree[h].right \in Standing(tree, n, h - 1)

\* A join more keeps a tree one.
LEMMA GrownForest ==
  ASSUME NEW n \in Nat, NEW tree \in Seq(Join), NEW next \in Grown(tree, n)
  PROVE  /\ next \in Seq(Join)
         /\ Len(next) = Len(tree) + 1
         /\ Forest(tree, n) => Forest(next, n)
<1> DEFINE m == Len(tree)
           free == Orphans(tree, n)
<1>1. PICK join \in [left : free, right : free, close : BOOLEAN] :
        join.left # join.right /\ next = Append(tree, join)
  BY DEF Grown
<1>2. m \in Nat /\ DOMAIN tree = 1 .. m
  OBVIOUS
<1>3. free = Standing(tree, n, m)
  <2> HIDE DEF m
  <2> QED
    BY <1>2, Zenon DEF Orphans, Standing
<1>4. free \subseteq Child
  <2>1. free \subseteq {Leaf(i) : i \in 0 .. n - 1} \cup {Node(h) : h \in 1 .. m}
    BY <1>3 DEF Standing
  <2>2. \A i \in 0 .. n - 1 : Leaf(i) \in Child
    BY DEF Leaf, Child
  <2>3. \A h \in 1 .. m : Node(h) \in Child
    BY <1>2 DEF Node, Child
  <2> HIDE DEF m, free
  <2> QED
    BY <2>1, <2>2, <2>3
<1> HIDE DEF free, m
<1>5. join \in Join /\ join.left \in free /\ join.right \in free
  BY <1>1, <1>4 DEF Join
<1>6. /\ next \in Seq(Join) /\ Len(next) = m + 1
      /\ \A h \in 1 .. m : next[h] = tree[h]
      /\ next[m + 1] = join
  BY <1>1, <1>2, <1>5 DEF m
<1>7. \A k \in 0 .. m : Standing(next, n, k) = Standing(tree, n, k)
  <2> TAKE k \in 0 .. m
  <2>1. \A h \in 1 .. k : next[h] = tree[h]
    BY <1>2, <1>6
  <2> QED
    BY <2>1 DEF Standing
<1>8. ASSUME Forest(tree, n) PROVE Forest(next, n)
  <2> SUFFICES ASSUME NEW h \in 1 .. m + 1
               PROVE  /\ next[h].left # next[h].right
                      /\ next[h].left \in Standing(next, n, h - 1)
                      /\ next[h].right \in Standing(next, n, h - 1)
    BY <1>6 DEF Forest
  <2>1. CASE h = m + 1
    <3>1. h - 1 = m /\ m \in 0 .. m
      BY <1>2, <2>1
    <3> QED
      BY <1>1, <1>3, <1>5, <1>6, <1>7, <2>1, <3>1
  <2>2. CASE h # m + 1
    <3>1. h \in 1 .. m /\ h - 1 \in 0 .. m
      BY <1>2, <2>2
    <3>2. /\ tree[h].left # tree[h].right
          /\ tree[h].left \in Standing(tree, n, h - 1)
          /\ tree[h].right \in Standing(tree, n, h - 1)
      BY <1>8, <3>1 DEF Forest, m
    <3> QED
      BY <1>6, <1>7, <3>1, <3>2
  <2> QED
    BY <2>1, <2>2
<1> QED
  BY <1>6, <1>8 DEF m

\* The trees the cluster program writes.
LEMMA TreesForest ==
  ASSUME NEW n \in Nat, NEW tree \in Trees(n)
  PROVE  Forest(tree, n) /\ Len(tree) = n - 1 /\ n > 0
<1> DEFINE S == SUBSET Seq(Join)
           grow(k, T) == UNION {Grown(t, n) : t \in T}
           none == {<<>>}
           Def(f) == f = [k \in 0 .. n |-> IF k = 0 THEN none ELSE grow(k, f[k - 1])]
           size == CHOOSE f : Def(f)
           G == [q \in (1 .. n) \X S |-> grow(q[1], q[2])]
<1>1. n # 0 /\ tree \in size[n - 1]
  BY Zenon DEF Trees
<1>2. \A k \in 1 .. n, T \in S : grow(k, T) \in S
  BY GrownForest
<1>3. none \in S /\ 0 \in Nat
  OBVIOUS
<1> HIDE DEF S, grow, none
<1>4. \E f : Def(f)
  <2>1. G \in [(0 + 1 .. n) \X S -> S]
    BY <1>2
  <2>2. \A k \in 1 .. n, s \in S : G[<<k, s>>] = grow(k, s)
    OBVIOUS
  <2> HIDE DEF G
  <2>3. PICK f \in [0 .. n -> S] : Stepped(f, 0, n, none, G)
    BY <1>3, <2>1, Steps
  <2>4. ASSUME NEW k \in 0 .. n, k # 0 PROVE G[<<k, f[k - 1]>>] = grow(k, f[k - 1])
    <3>1. k \in 1 .. n /\ k - 1 \in 0 .. n
      BY <2>4
    <3> QED
      BY <2>2, <3>1
  <2>5. Def(f)
    BY <2>3, <2>4 DEF Stepped
  <2> HIDE DEF Def
  <2> QED
    BY <2>5
<1>5. Def(size)
  <2> HIDE DEF Def
  <2> QED
    BY <1>4
<1> HIDE DEF size
<1>6. size[0] = none /\ \A k \in 1 .. n : size[k] = grow(k, size[k - 1])
  BY <1>5
<1> DEFINE P == {k \in 0 .. n : \A t \in size[k] : Forest(t, n) /\ Len(t) = k}
<1>7. 0 \in P
  <2>1. <<>> \in Seq(Join) /\ Len(<<>>) = 0
    OBVIOUS
  <2>2. Forest(<<>>, n)
    BY <2>1 DEF Forest
  <2> QED
    BY <1>6, <2>1, <2>2 DEF none
<1>8. ASSUME NEW k \in 1 .. n, k - 1 \in P PROVE k \in P
  <2> SUFFICES ASSUME NEW t \in size[k] PROVE Forest(t, n) /\ Len(t) = k
    OBVIOUS
  <2>1. PICK s \in size[k - 1] : t \in Grown(s, n)
    BY <1>6 DEF grow
  <2>2. Forest(s, n) /\ Len(s) = k - 1 /\ s \in Seq(Join)
    BY <1>8, <2>1 DEF Forest
  <2> QED
    BY <2>1, <2>2, GrownForest
<1>9. \A k \in 0 .. n : k \in P
  <2> HIDE DEF P
  <2>1. \A k \in 0 + 1 .. n : k - 1 \in P => k \in P
    BY <1>8
  <2> QED
    BY <1>7, <2>1, InductFrom
<1>10. n - 1 \in P
  <2> HIDE DEF P
  <2>1. n - 1 \in 0 .. n
    BY <1>1
  <2> QED
    BY <1>9, <2>1
<1> QED
  BY <1>1, <1>10
-----------------------------------------------------------------------------

\* What a join takes and leaves.
Joins(l, r, before, node, after) ==
  /\ l \in before /\ r \in before /\ l # r
  /\ node \notin before
  /\ after = (before \ {l, r}) \cup {node}

\* A child of the k-th join: a leaf or an earlier node.
Earlier(c, n, k) ==
  \/ c.leaf = TRUE /\ \E i \in 0 .. n - 1 : c = Leaf(i)
  \/ c.leaf = FALSE /\ \E h \in 1 .. k - 1 : c = Node(h)

\* Every join of a tree does so, of leaves and earlier nodes.
LEMMA StandingNext ==
  ASSUME NEW n \in Nat, NEW tree, Forest(tree, n), NEW k \in 1 .. Len(tree)
  PROVE  /\ Joins(tree[k].left, tree[k].right, Standing(tree, n, k - 1), Node(k),
                  Standing(tree, n, k))
         /\ Earlier(tree[k].left, n, k) /\ Earlier(tree[k].right, n, k)
<1>1. Len(tree) \in Nat /\ k \in Nat
  BY DEF Forest
<1> DEFINE L == {Leaf(i) : i \in 0 .. n - 1}
           N(j) == {Node(h) : h \in 1 .. j}
           K(j) == UNION {{tree[h].left, tree[h].right} : h \in 1 .. j}
<1>2. \A j : Standing(tree, n, j) = (L \cup N(j)) \ K(j)
  BY DEF Standing
<1>3. N(k) = N(k - 1) \cup {Node(k)}
  BY <1>1
<1>4. K(k) = K(k - 1) \cup {tree[k].left, tree[k].right}
  <2>1. 1 .. k = (1 .. k - 1) \cup {k}
    BY <1>1
  <2> QED
    BY <2>1
<1>5. Node(k) \notin L /\ \A h \in 1 .. k - 1 : Node(k) # Node(h)
  <2>1. \A i : Leaf(i).leaf = TRUE /\ Node(i).leaf = FALSE /\ Node(i).index = i
    BY DEF Leaf, Node
  <2>2. ASSUME NEW h \in 1 .. k - 1, Node(k) = Node(h) PROVE FALSE
    <3>1. Node(k).index = Node(h).index
      BY <2>2
    <3> QED
      BY <1>1, <2>1, <3>1
  <2>3. \A i \in 0 .. n - 1 : Node(k) # Leaf(i)
    BY <2>1
  <2> QED
    BY <2>2, <2>3
<1>6. Node(k) \notin N(k - 1)
  BY <1>5
<1>7. \A h \in 1 .. k : /\ tree[h].left \in L \cup N(k - 1)
                        /\ tree[h].right \in L \cup N(k - 1)
  <2> TAKE h \in 1 .. k
  <2>1. h \in 1 .. Len(tree) /\ h - 1 <= k - 1
    BY <1>1
  <2>2. N(h - 1) \subseteq N(k - 1)
    BY <1>1, <2>1
  <2> HIDE DEF L, N, K
  <2>3. tree[h].left \in L \cup N(h - 1) /\ tree[h].right \in L \cup N(h - 1)
    BY <1>2, <2>1 DEF Forest
  <2> QED
    BY <2>2, <2>3
<1>8. Node(k) \notin K(k)
  <2> HIDE DEF L, N
  <2> QED
    BY <1>5, <1>6, <1>7
<1>9. \A c \in {tree[k].left, tree[k].right} :
        \/ c.leaf = TRUE /\ \E i \in 0 .. n - 1 : c = Leaf(i)
        \/ c.leaf = FALSE /\ \E h \in 1 .. k - 1 : c = Node(h)
  <2> TAKE c \in {tree[k].left, tree[k].right}
  <2>1. c \in L \/ c \in N(k - 1)
    <3> HIDE DEF L, N
    <3> QED
      BY <1>1, <1>7
  <2> QED
    BY <2>1 DEF Leaf, Node
<1> HIDE DEF L, N, K
<1>10. Standing(tree, n, k) =
         (Standing(tree, n, k - 1) \ {tree[k].left, tree[k].right}) \cup {Node(k)}
  BY <1>2, <1>3, <1>4, <1>8
<1>11. Node(k) \notin Standing(tree, n, k - 1)
  BY <1>2, <1>5, <1>6
<1>12. /\ tree[k].left \in Standing(tree, n, k - 1)
       /\ tree[k].right \in Standing(tree, n, k - 1)
       /\ tree[k].left # tree[k].right
  BY DEF Forest
<1>13. /\ tree[k].left \in {tree[k].left, tree[k].right}
       /\ tree[k].right \in {tree[k].left, tree[k].right}
  OBVIOUS
<1>14. Earlier(tree[k].left, n, k) /\ Earlier(tree[k].right, n, k)
  BY <1>9, <1>13, Zenon DEF Earlier
<1>15. Joins(tree[k].left, tree[k].right, Standing(tree, n, k - 1), Node(k),
             Standing(tree, n, k))
  BY <1>10, <1>11, <1>12, Zenon DEF Joins
<1> QED
  BY <1>14, <1>15

\* Each join leaves one fewer.
LEMMA StandingSize ==
  ASSUME NEW n \in Nat, NEW tree, Forest(tree, n), NEW k \in 0 .. Len(tree)
  PROVE  IsFiniteSet(Standing(tree, n, k)) /\ Cardinality(Standing(tree, n, k)) = n - k
<1> DEFINE m == Len(tree)
           P == {j \in 0 .. m : /\ IsFiniteSet(Standing(tree, n, j))
                                /\ Cardinality(Standing(tree, n, j)) = n - j}
<1>1. m \in Nat
  BY DEF Forest
<1>2. 0 \in P
  <2> DEFINE f == [i \in 0 .. n - 1 |-> Leaf(i)]
             L == {Leaf(i) : i \in 0 .. n - 1}
  <2>1. Standing(tree, n, 0) = L
    BY DEF Standing
  <2>2. ExistsBijection(0 .. n - 1, L)
    <3>1. f \in Bijection(0 .. n - 1, L)
      BY DEF Bijection, Injection, Surjection, IsInjective, Leaf
    <3> QED
      BY <3>1 DEF ExistsBijection
  <2>3. IsFiniteSet(0 .. n - 1) /\ Cardinality(0 .. n - 1) = n
    BY FS_Interval
  <2> HIDE DEF L
  <2>4. IsFiniteSet(L) /\ Cardinality(L) = n
    BY <2>2, <2>3, FS_Bijection
  <2> QED
    BY <1>1, <2>1, <2>4
<1>3. ASSUME NEW j \in 1 .. m, j - 1 \in P PROVE j \in P
  <2> DEFINE A == Standing(tree, n, j - 1)
             l == tree[j].left
             r == tree[j].right
  <2>1. /\ Standing(tree, n, j) = (A \ {l, r}) \cup {Node(j)}
        /\ Node(j) \notin A /\ l \in A /\ r \in A /\ l # r
    <3>1. j \in 1 .. Len(tree)
      OBVIOUS
    <3> HIDE DEF m, P
    <3>2. Joins(l, r, A, Node(j), Standing(tree, n, j))
      BY <3>1, StandingNext
    <3> QED
      BY <3>2, Zenon DEF Joins
  <2>2. IsFiniteSet(A) /\ Cardinality(A) = n - (j - 1)
    BY <1>3
  <2> HIDE DEF A, l, r
  <2>3. (A \ {l, r}) = (A \ {l}) \ {r} /\ r \in A \ {l} /\ Node(j) \notin A \ {l, r}
    BY <2>1
  <2>4. IsFiniteSet(A \ {l}) /\ Cardinality(A \ {l}) = n - (j - 1) - 1
    BY <2>1, <2>2, FS_RemoveElement
  <2> DEFINE B == A \ {l}
  <2>5. IsFiniteSet(B) /\ Cardinality(B) = n - (j - 1) - 1 /\ r \in B
    BY <2>3, <2>4
  <2> HIDE DEF B
  <2>6. IsFiniteSet(B \ {r}) /\ Cardinality(B \ {r}) = n - (j - 1) - 1 - 1
    BY <2>5, FS_RemoveElement
  <2>7. /\ IsFiniteSet((A \ {l}) \ {r})
        /\ Cardinality((A \ {l}) \ {r}) = n - (j - 1) - 1 - 1
    BY <2>6 DEF B
  <2>8. /\ IsFiniteSet(Standing(tree, n, j))
        /\ Cardinality(Standing(tree, n, j)) = n - (j - 1) - 1 - 1 + 1
    BY <2>1, <2>3, <2>7, FS_AddElement
  <2> QED
    BY <1>1, <2>8
<1>4. \A j \in 0 .. m : j \in P
  <2> HIDE DEF P
  <2>1. \A j \in 0 + 1 .. m : j - 1 \in P => j \in P
    BY <1>3
  <2> QED
    BY <1>1, <1>2, <2>1, InductFrom
<1> QED
  BY <1>4

\* In the end the root alone stands.
LEMMA RootStands ==
  ASSUME NEW n \in Nat, n > 1, NEW tree, Forest(tree, n), Len(tree) = n - 1
  PROVE  Standing(tree, n, n - 1) = {Node(n - 1)}
<1> DEFINE A == Standing(tree, n, n - 1)
<1>1. n - 1 \in 0 .. Len(tree) /\ n - 1 \in 1 .. Len(tree) /\ n - (n - 1) = 1
  OBVIOUS
<1>2. IsFiniteSet(A) /\ Cardinality(A) = 1
  <2>1. IsFiniteSet(A) /\ Cardinality(A) = n - (n - 1)
    BY <1>1, StandingSize
  <2> QED
    BY <1>1, <2>1
<1>3. Node(n - 1) \in A
  <2>1. PICK k \in 1 .. Len(tree) : k = n - 1
    BY <1>1
  <2>2. Joins(tree[k].left, tree[k].right, Standing(tree, n, k - 1), Node(k),
              Standing(tree, n, k))
    BY StandingNext
  <2>3. Node(k) \in Standing(tree, n, k)
    BY <2>2 DEF Joins
  <2> QED
    BY <2>1, <2>3
<1> HIDE DEF A
<1>4. \E x : A = {x}
  BY <1>2, FS_Singleton
<1> QED
  BY <1>3, <1>4 DEF A

\* So a tree that can be read has no more leaves than the page has texts.
LEMMA LeavesRead ==
  ASSUME NEW n \in Nat, n > 1, NEW tree, Forest(tree, n), Len(tree) = n - 1,
         NEW texts, Len(texts) \in Nat, Readable(tree, texts)
  PROVE  n <= Len(texts)
<1>1. Leaf(n - 1) \notin Standing(tree, n, n - 1)
  BY RootStands DEF Leaf, Node
<1>2. PICK h \in 1 .. n - 1 : Leaf(n - 1) \in {tree[h].left, tree[h].right}
  <2>1. Leaf(n - 1) \in {Leaf(i) : i \in 0 .. n - 1}
    OBVIOUS
  <2> QED
    BY <1>1, <2>1 DEF Standing
<1>3. h \in DOMAIN tree
  BY DEF Forest
<1>4. Leaf(n - 1).leaf /\ Leaf(n - 1).index = n - 1
  BY DEF Leaf
<1>5. n - 1 < Len(texts)
  BY <1>2, <1>3, <1>4 DEF Readable
<1> QED
  BY <1>5

-----------------------------------------------------------------------------
\* What a subtree with the texts Y comes to: a group for its parent to join, or groups.
Held(r, Y) ==
  \/ r.groups = <<>> /\ r.points # <<>> /\ Lists(r.points, Y)
  \/ r.points = <<>> /\ Groups(r.groups, Y)

\* The value recurseTree gives a join of two subtrees.
Merged(close, left, right) ==
  IF close /\ left.points # <<>> /\ right.points # <<>>
  THEN [groups |-> <<>>, points |-> left.points \o right.points]
  ELSE [groups |-> Unjoined(left, right), points |-> <<>>]

\* The groups of a subtree, and the group it would be, share its texts.
LEMMA HeldParts ==
  ASSUME NEW r, NEW Y, Held(r, Y)
  PROVE  \E A, B \in SUBSET Y : /\ A \cup B = Y /\ A \cap B = {}
                                /\ Groups(r.groups, A) /\ Groups(Group(r.points), B)
<1>1. CASE r.groups = <<>> /\ r.points # <<>> /\ Lists(r.points, Y)
  <2>1. Groups(r.groups, {})
    BY <1>1, NoGroups
  <2>2. Groups(Group(r.points), Y)
    BY <1>1, OneGroup DEF Group
  <2> QED
    BY <2>1, <2>2
<1>2. CASE r.points = <<>> /\ Groups(r.groups, Y)
  <2>1. Groups(Group(r.points), {})
    BY <1>2, NoGroups DEF Group
  <2> QED
    BY <1>2, <2>1
<1> QED
  BY <1>1, <1>2 DEF Held

\* Joining two subtrees, closed or not, neither loses nor repeats a text.
LEMMA MergedHeld ==
  ASSUME NEW close, NEW l, NEW r, NEW Y, NEW Z, Held(l, Y), Held(r, Z), Y \cap Z = {}
  PROVE  Held(Merged(close, l, r), Y \cup Z)
<1>1. CASE close /\ l.points # <<>> /\ r.points # <<>>
  <2>1. Lists(l.points, Y) /\ Lists(r.points, Z)
    BY <1>1 DEF Held
  <2>2. Lists(l.points \o r.points, Y \cup Z)
    BY <2>1, ConcatLists
  <2>3. l.points \o r.points # <<>>
    <3>1. /\ l.points \in Seq(Y \cup Z) /\ r.points \in Seq(Y \cup Z)
      BY <2>1, SeqMonotonic DEF Lists
    <3> QED
      BY <1>1, <3>1
  <2> QED
    BY <1>1, <2>2, <2>3 DEF Merged, Held
<1>2. CASE ~(close /\ l.points # <<>> /\ r.points # <<>>)
  <2>1. PICK A \in SUBSET Y, B \in SUBSET Y :
          /\ A \cup B = Y /\ A \cap B = {}
          /\ Groups(l.groups, A) /\ Groups(Group(l.points), B)
    BY HeldParts
  <2>2. PICK C \in SUBSET Z, D \in SUBSET Z :
          /\ C \cup D = Z /\ C \cap D = {}
          /\ Groups(r.groups, C) /\ Groups(Group(r.points), D)
    BY HeldParts
  <2>3. /\ A \cap C = {} /\ (A \cup C) \cap B = {} /\ ((A \cup C) \cup B) \cap D = {}
        /\ ((A \cup C) \cup B) \cup D = Y \cup Z
    BY <2>1, <2>2
  <2>4. Groups(l.groups \o r.groups, A \cup C)
    BY <2>1, <2>2, <2>3, ConcatGroups
  <2>5. Groups((l.groups \o r.groups) \o Group(l.points), (A \cup C) \cup B)
    BY <2>1, <2>3, <2>4, ConcatGroups
  <2>6. Groups(((l.groups \o r.groups) \o Group(l.points)) \o Group(r.points),
               ((A \cup C) \cup B) \cup D)
    BY <2>2, <2>3, <2>5, ConcatGroups
  <2>7. Groups(Unjoined(l, r), Y \cup Z)
    BY <2>3, <2>6, Zenon DEF Unjoined
  <2> QED
    BY <1>2, <2>7 DEF Merged, Held
<1> QED
  BY <1>1, <1>2

\* The child of a join, as recurseTree sees it.
ChildOf(res, c, texts) ==
  IF c.leaf THEN [groups |-> <<>>, points |-> << texts[c.index + 1] >>]
            ELSE res[c.index]

\* The value of node h, from those of its children.
MergedAt(tree, res, texts, h) ==
  Merged(tree[h].close, ChildOf(res, tree[h].left, texts),
                        ChildOf(res, tree[h].right, texts))

\* The type of these values.
Result(X) == [groups : Seq(Seq(X)), points : Seq(X)]

\* What a join comes to is typed.
LEMMA MergedResult ==
  ASSUME NEW X, NEW close, NEW l \in Result(X), NEW r \in Result(X)
  PROVE  Merged(close, l, r) \in Result(X)
<1> DEFINE S == Seq(X)
<1>1. /\ l.groups \in Seq(S) /\ r.groups \in Seq(S)
      /\ l.points \in S /\ r.points \in S
  BY DEF Result
<1>2. l.points \o r.points \in S /\ <<>> \in S
  BY <1>1
<1> HIDE DEF S
<1>3. \A p \in S : Group(p) \in Seq(S)
  BY DEF Group
<1>4. Group(l.points) \in Seq(S) /\ Group(r.points) \in Seq(S)
  BY <1>1, <1>3
<1>5. Unjoined(l, r) \in Seq(S)
  BY <1>1, <1>4 DEF Unjoined
<1>6. <<>> \in Seq(S)
  OBVIOUS
<1>7. Merged(close, l, r) \in [groups : Seq(S), points : S]
  BY <1>2, <1>5, <1>6 DEF Merged
<1> QED
  BY <1>7 DEF S, Result

\* A child is a leaf or an earlier node.
LEMMA EarlierCases ==
  ASSUME NEW c, NEW n \in Nat, NEW h \in Nat, Earlier(c, n, h)
  PROVE  \/ c.leaf = TRUE /\ c.index \in 0 .. n - 1
         \/ c.leaf = FALSE /\ c.index \in 1 .. h - 1
  BY DEF Earlier, Leaf, Node

\* What recurseTree returns is defined.
LEMMA SubtreesDefined ==
  ASSUME NEW n \in Nat, NEW tree, Forest(tree, n), NEW X, NEW texts \in Seq(X),
         n <= Len(texts)
  PROVE  \A h \in 1 .. Len(tree) :
           Subtrees(tree, texts)[h] = MergedAt(tree, Subtrees(tree, texts), texts, h)
<1> DEFINE m == Len(tree)
           S == Result(X)
           D == 1 .. m
           Def(f) == f = [h \in DOMAIN tree |-> MergedAt(tree, f, texts, h)]
           F == [q \in D \X [D -> S] |-> MergedAt(tree, q[2], texts, q[1])]
<1>1. m \in Nat /\ DOMAIN tree = D
  BY DEF Forest
<1>2. Subtrees(tree, texts) = CHOOSE f : Def(f)
  BY Zenon DEF Subtrees, MergedAt, Merged, ChildOf
<1>3. ASSUME NEW h \in D, NEW f \in [D -> S], NEW c, Earlier(c, n, h)
      PROVE  ChildOf(f, c, texts) \in S
  <2>1. h \in Nat
    BY <1>1
  <2>2. CASE c.leaf = TRUE /\ c.index \in 0 .. n - 1
    <3>1. c.index + 1 \in 1 .. Len(texts)
      BY <2>2
    <3>2. texts[c.index + 1] \in X
      BY <3>1
    <3>3. << texts[c.index + 1] >> \in Seq(X) /\ <<>> \in Seq(Seq(X))
      BY <3>2
    <3> QED
      BY <2>2, <3>3 DEF ChildOf, Result
  <2>3. CASE c.leaf = FALSE /\ c.index \in 1 .. h - 1
    <3>1. c.index \in D
      BY <1>1, <2>3
    <3> QED
      BY <2>3, <3>1 DEF ChildOf
  <2> QED
    BY <1>3, <2>1, <2>2, <2>3, EarlierCases
<1>4. ASSUME NEW h \in D, NEW f, NEW g, NEW c, Earlier(c, n, h),
             \A j \in 1 .. h - 1 : f[j] = g[j]
      PROVE  ChildOf(f, c, texts) = ChildOf(g, c, texts)
  <2>1. h \in Nat
    BY <1>1
  <2>2. CASE c.leaf = TRUE /\ c.index \in 0 .. n - 1
    BY <2>2 DEF ChildOf
  <2>3. CASE c.leaf = FALSE /\ c.index \in 1 .. h - 1
    BY <1>4, <2>3 DEF ChildOf
  <2> QED
    BY <1>4, <2>1, <2>2, <2>3, EarlierCases
<1>5. ASSUME NEW h \in D
      PROVE  Earlier(tree[h].left, n, h) /\ Earlier(tree[h].right, n, h)
  BY StandingNext
<1> HIDE DEF D, S
<1>6. \A h \in D, f \in [D -> S] : MergedAt(tree, f, texts, h) \in S
  <2> TAKE h \in D, f \in [D -> S]
  <2>1. /\ ChildOf(f, tree[h].left, texts) \in S
        /\ ChildOf(f, tree[h].right, texts) \in S
    BY <1>3, <1>5
  <2> QED
    BY <2>1, MergedResult DEF MergedAt, S
<1>7. \A h \in D, f, g \in [D -> S] :
        (\A j \in 1 .. h - 1 : f[j] = g[j]) =>
          MergedAt(tree, f, texts, h) = MergedAt(tree, g, texts, h)
  <2> SUFFICES ASSUME NEW h \in D, NEW f \in [D -> S], NEW g \in [D -> S],
                      \A j \in 1 .. h - 1 : f[j] = g[j]
               PROVE  MergedAt(tree, f, texts, h) = MergedAt(tree, g, texts, h)
    OBVIOUS
  <2>1. /\ ChildOf(f, tree[h].left, texts) = ChildOf(g, tree[h].left, texts)
        /\ ChildOf(f, tree[h].right, texts) = ChildOf(g, tree[h].right, texts)
    BY <1>4, <1>5
  <2> QED
    BY <2>1 DEF MergedAt
<1>8. F \in [D \X [D -> S] -> S]
  BY <1>6
<1>9. \A h \in D, f \in [D -> S] : F[<<h, f>>] = MergedAt(tree, f, texts, h)
  OBVIOUS
<1> HIDE DEF F
<1>10. \A h \in D, f, g \in [D -> S] :
         (\A j \in 1 .. h - 1 : f[j] = g[j]) => F[<<h, f>>] = F[<<h, g>>]
  BY <1>7, <1>9
<1>11. S # {}
  <2>1. [groups |-> <<>>, points |-> <<>>] \in S
    BY DEF S, Result
  <2> QED
    BY <2>1
<1> HIDE DEF m
<1>12. PICK f \in [D -> S] : \A h \in D : f[h] = F[<<h, f>>]
  <2>1. Falls(m, S, F)
    BY <1>1, <1>8, <1>10, <1>11, Zenon DEF Falls, D
  <2>2. Solvable(D, S, F)
    BY <2>1, Descent DEF D
  <2> QED
    BY <2>2 DEF Solvable
<1>13. Def(f)
  <2>1. \A h \in D : f[h] = MergedAt(tree, f, texts, h)
    BY <1>9, <1>12
  <2> QED
    BY <1>1, <2>1
<1> DEFINE sub == CHOOSE g : Def(g)
<1>14. Def(sub)
  <2> HIDE DEF Def
  <2> QED
    BY <1>13
<1> HIDE DEF sub
<1>15. \A h \in D : sub[h] = MergedAt(tree, sub, texts, h)
  BY <1>1, <1>14
<1> QED
  BY <1>2, <1>15 DEF sub, D, m

\* Closed is defined.
LEMMA ClosedDefined ==
  ASSUME NEW n \in Nat, NEW tree, Forest(tree, n)
  PROVE  \A h \in 1 .. Len(tree) :
           Closed(tree)[h] = (/\ tree[h].close
                              /\ \A c \in {tree[h].left, tree[h].right} :
                                   ~c.leaf => Closed(tree)[c.index])
<1> DEFINE m == Len(tree)
           D == 1 .. m
           Body(h, f) == /\ tree[h].close
                         /\ \A c \in {tree[h].left, tree[h].right} :
                              ~c.leaf => f[c.index]
           Def(f) == f = [h \in DOMAIN tree |-> Body(h, f)]
           F == [q \in D \X [D -> BOOLEAN] |-> Body(q[1], q[2])]
<1>1. m \in Nat /\ DOMAIN tree = D
  BY DEF Forest
<1>2. Closed(tree) = CHOOSE f : Def(f)
  BY Zenon DEF Closed
<1>3. ASSUME NEW h \in D
      PROVE  Earlier(tree[h].left, n, h) /\ Earlier(tree[h].right, n, h)
  BY StandingNext
<1>4. \A h \in D, f, g \in [D -> BOOLEAN] :
        (\A j \in 1 .. h - 1 : f[j] = g[j]) => Body(h, f) = Body(h, g)
  <2> SUFFICES ASSUME NEW h \in D, NEW f \in [D -> BOOLEAN], NEW g \in [D -> BOOLEAN],
                      \A j \in 1 .. h - 1 : f[j] = g[j]
               PROVE  Body(h, f) = Body(h, g)
    OBVIOUS
  <2>1. \A c \in {tree[h].left, tree[h].right} : ~c.leaf => c.index \in 1 .. h - 1
    <3>1. h \in Nat
      BY <1>1
    <3> QED
      BY <1>3, <3>1, EarlierCases
  <2> QED
    BY <2>1
<1>5. \A h \in D : \A f : Body(h, f) \in BOOLEAN
  OBVIOUS
<1> HIDE DEF Body, D, m
<1>6. F \in [D \X [D -> BOOLEAN] -> BOOLEAN]
  BY <1>5
<1>7. \A h \in D, f \in [D -> BOOLEAN] : F[<<h, f>>] = Body(h, f)
  OBVIOUS
<1> HIDE DEF F
<1>8. \A h \in D, f, g \in [D -> BOOLEAN] :
        (\A j \in 1 .. h - 1 : f[j] = g[j]) => F[<<h, f>>] = F[<<h, g>>]
  BY <1>4, <1>7
<1>9. PICK f \in [D -> BOOLEAN] : \A h \in D : f[h] = F[<<h, f>>]
  <2>1. Falls(m, BOOLEAN, F)
    <3>1. BOOLEAN # {}
      OBVIOUS
    <3> QED
      BY <1>1, <1>6, <1>8, <3>1, Zenon DEF Falls, D
  <2>2. Solvable(D, BOOLEAN, F)
    BY <2>1, Descent DEF D
  <2> QED
    BY <2>2 DEF Solvable
<1>10. Def(f)
  <2>1. \A h \in D : f[h] = Body(h, f)
    BY <1>7, <1>9
  <2> QED
    BY <1>1, <2>1
<1> DEFINE closed == CHOOSE g : Def(g)
<1>11. Def(closed)
  <2> HIDE DEF Def
  <2> QED
    BY <1>10
<1> HIDE DEF closed
<1>12. \A h \in D : closed[h] = Body(h, closed)
  BY <1>1, <1>11
<1>13. Closed(tree) = closed
  BY <1>2 DEF closed
<1>14. \A h \in D : Closed(tree)[h] = Body(h, Closed(tree))
  BY <1>12, <1>13
<1> QED
  BY <1>14, Zenon DEF D, m, Body

\* The numbers of the texts under a child.
Under(leaves, c) == IF c.leaf THEN {c.index} ELSE leaves[c.index]

\* Leaves is defined.
LEMMA LeavesDefined ==
  ASSUME NEW n \in Nat, NEW tree, Forest(tree, n)
  PROVE  \A h \in 1 .. Len(tree) :
           Leaves(tree)[h] = Under(Leaves(tree), tree[h].left)
                               \cup Under(Leaves(tree), tree[h].right)
<1> DEFINE m == Len(tree)
           D == 1 .. m
           S == SUBSET (0 .. n - 1)
           Body(h, f) == UNION {IF c.leaf THEN {c.index} ELSE f[c.index] :
                                  c \in {tree[h].left, tree[h].right}}
           Def(f) == f = [h \in DOMAIN tree |-> Body(h, f)]
           F == [q \in D \X [D -> S] |-> Body(q[1], q[2])]
<1>1. m \in Nat /\ DOMAIN tree = D
  BY DEF Forest
<1>2. Leaves(tree) = CHOOSE f : Def(f)
  BY Zenon DEF Leaves
<1>3. \A f : \A h \in D : Body(h, f) = Under(f, tree[h].left) \cup Under(f, tree[h].right)
  BY DEF Under
<1>4. ASSUME NEW h \in D, NEW c \in {tree[h].left, tree[h].right}
      PROVE  \/ c.leaf = TRUE /\ c.index \in 0 .. n - 1
             \/ c.leaf = FALSE /\ c.index \in 1 .. h - 1 /\ c.index \in D
  <2>1. Earlier(tree[h].left, n, h) /\ Earlier(tree[h].right, n, h) /\ h \in Nat
    BY <1>1, StandingNext
  <2>2. \/ c.leaf = TRUE /\ c.index \in 0 .. n - 1
        \/ c.leaf = FALSE /\ c.index \in 1 .. h - 1
    BY <2>1, EarlierCases
  <2>3. \A j \in 1 .. h - 1 : j \in D
    BY <1>1
  <2> QED
    BY <2>2, <2>3
<1> HIDE DEF Body, D, m
<1>5. \A h \in D, f, g \in [D -> S] :
        (\A j \in 1 .. h - 1 : f[j] = g[j]) => Body(h, f) = Body(h, g)
  <2> SUFFICES ASSUME NEW h \in D, NEW f \in [D -> S], NEW g \in [D -> S],
                      \A j \in 1 .. h - 1 : f[j] = g[j]
               PROVE  Body(h, f) = Body(h, g)
    OBVIOUS
  <2>1. /\ Under(f, tree[h].left) = Under(g, tree[h].left)
        /\ Under(f, tree[h].right) = Under(g, tree[h].right)
    BY <1>4 DEF Under
  <2> QED
    BY <1>3, <2>1
<1>6. \A h \in D, f \in [D -> S] : Body(h, f) \in S
  <2> TAKE h \in D, f \in [D -> S]
  <2>1. Under(f, tree[h].left) \in S /\ Under(f, tree[h].right) \in S
    BY <1>4 DEF Under
  <2> QED
    BY <1>3, <2>1
<1> HIDE DEF S
<1>7. F \in [D \X [D -> S] -> S]
  BY <1>6
<1>8. \A h \in D, f \in [D -> S] : F[<<h, f>>] = Body(h, f)
  OBVIOUS
<1> HIDE DEF F
<1>9. \A h \in D, f, g \in [D -> S] :
        (\A j \in 1 .. h - 1 : f[j] = g[j]) => F[<<h, f>>] = F[<<h, g>>]
  BY <1>5, <1>8
<1>10. PICK f \in [D -> S] : \A h \in D : f[h] = F[<<h, f>>]
  <2>1. Falls(m, S, F)
    <3>1. S # {}
      BY DEF S
    <3> QED
      BY <1>1, <1>7, <1>9, <3>1, Zenon DEF Falls, D
  <2>2. Solvable(D, S, F)
    BY <2>1, Descent DEF D
  <2> QED
    BY <2>2 DEF Solvable
<1>11. Def(f)
  <2>1. \A h \in D : f[h] = Body(h, f)
    BY <1>8, <1>10
  <2> QED
    BY <1>1, <2>1
<1> DEFINE leaves == CHOOSE g : Def(g)
<1>12. Def(leaves)
  <2> HIDE DEF Def
  <2> QED
    BY <1>11
<1> HIDE DEF leaves
<1>13. \A h \in D : leaves[h] = Body(h, leaves)
  BY <1>1, <1>12
<1>14. Leaves(tree) = leaves
  BY <1>2 DEF leaves
<1>15. \A h \in D : leaves[h] = Under(leaves, tree[h].left) \cup Under(leaves, tree[h].right)
  BY <1>3, <1>13
<1> QED
  BY <1>14, <1>15 DEF D, m

\* The texts under a child.
TextsOf(tree, texts, c) == {texts[i + 1] : i \in Under(Leaves(tree), c)}

\* Those under a node are those under its children.
LEMMA TextsOfNode ==
  ASSUME NEW n \in Nat, NEW tree, Forest(tree, n), NEW texts
  PROVE  /\ \A i : TextsOf(tree, texts, Leaf(i)) = {texts[i + 1]}
         /\ \A h : TextsOf(tree, texts, Node(h)) = {texts[i + 1] : i \in Leaves(tree)[h]}
         /\ \A h \in 1 .. Len(tree) :
              TextsOf(tree, texts, Node(h)) = TextsOf(tree, texts, tree[h].left)
                                                \cup TextsOf(tree, texts, tree[h].right)
<1> DEFINE leaves == Leaves(tree)
<1>1. \A i : Under(leaves, Leaf(i)) = {i}
  BY DEF Under, Leaf
<1>2. \A h : Under(leaves, Node(h)) = leaves[h]
  BY DEF Under, Node
<1>3. \A h \in 1 .. Len(tree) :
        leaves[h] = Under(leaves, tree[h].left) \cup Under(leaves, tree[h].right)
  BY LeavesDefined
<1> HIDE DEF leaves
<1>4. \A i : {texts[j + 1] : j \in Under(leaves, Leaf(i))} = {texts[i + 1]}
  BY <1>1
<1>5. \A h \in 1 .. Len(tree) :
        {texts[i + 1] : i \in Under(leaves, Node(h))} =
          {texts[i + 1] : i \in Under(leaves, tree[h].left)}
            \cup {texts[i + 1] : i \in Under(leaves, tree[h].right)}
  BY <1>2, <1>3
<1> QED
  BY <1>2, <1>4, <1>5 DEF TextsOf, leaves

\* The texts under what stands after k joins: no two have one in common, and between
\* them they have all of the leaves.
Shares(U, O, X) ==
  /\ U \in [O -> SUBSET X]
  /\ \A o, p \in O : o # p => U[o] \cap U[p] = {}
  /\ \A x \in X : \E o \in O : x \in U[o]

\* A join shares on what its children had.
LEMMA SharesNext ==
  ASSUME NEW U, NEW O, NEW X, Shares(U, O, X), NEW l, NEW r, NEW node, NEW after,
         Joins(l, r, O, node, after)
  PROVE  Shares([o \in after |-> IF o = node THEN U[l] \cup U[r] ELSE U[o]], after, X)
<1> DEFINE V == [o \in after |-> IF o = node THEN U[l] \cup U[r] ELSE U[o]]
<1>1. /\ l \in O /\ r \in O /\ l # r /\ node \notin O
      /\ after = (O \ {l, r}) \cup {node}
  BY DEF Joins
<1>2. /\ U \in [O -> SUBSET X]
      /\ \A o, p \in O : o # p => U[o] \cap U[p] = {}
      /\ \A x \in X : \E o \in O : x \in U[o]
  BY DEF Shares
<1>3. /\ node \in after /\ V[node] = U[l] \cup U[r]
      /\ \A o \in after : o # node => /\ V[o] = U[o] /\ o \in O /\ o # l /\ o # r
  BY <1>1
<1>4. V \in [after -> SUBSET X]
  BY <1>1, <1>2
<1> HIDE DEF V
<1>5. ASSUME NEW o \in after, NEW p \in after, o # p PROVE V[o] \cap V[p] = {}
  <2>1. CASE o # node /\ p # node
    BY <1>2, <1>3, <1>5, <2>1
  <2>2. CASE o = node
    <3>1. U[l] \cap U[p] = {} /\ U[r] \cap U[p] = {} /\ V[p] = U[p]
      BY <1>1, <1>2, <1>3, <1>5, <2>2
    <3> QED
      BY <1>3, <2>2, <3>1
  <2>3. CASE p = node
    <3>1. U[l] \cap U[o] = {} /\ U[r] \cap U[o] = {} /\ V[o] = U[o]
      BY <1>1, <1>2, <1>3, <1>5, <2>3
    <3> QED
      BY <1>3, <2>3, <3>1
  <2> QED
    BY <2>1, <2>2, <2>3
<1>6. ASSUME NEW x \in X PROVE \E o \in after : x \in V[o]
  <2>1. PICK o \in O : x \in U[o]
    BY <1>2
  <2>2. CASE o = l \/ o = r
    BY <1>3, <2>1, <2>2
  <2>3. CASE o # l /\ o # r
    <3>1. o \in after /\ o # node
      BY <1>1, <2>3
    <3> QED
      BY <1>3, <2>1, <3>1
  <2> QED
    BY <2>2, <2>3
<1>7. Shares(V, after, X)
  BY <1>4, <1>5, <1>6 DEF Shares
<1> QED
  BY <1>7 DEF V

\* A leaf holds its text.
LEMMA LeafHeld ==
  ASSUME NEW x
  PROVE  Held([groups |-> <<>>, points |-> << x >>], {x})
<1> DEFINE r == [groups |-> <<>>, points |-> << x >>]
<1>1. r.groups = <<>> /\ r.points = << x >> /\ << x >> # <<>>
  OBVIOUS
<1>2. Lists(<< x >>, {x})
  BY SingleLists
<1> HIDE DEF r
<1>3. Held(r, {x})
  BY <1>1, <1>2 DEF Held
<1> QED
  BY <1>3 DEF r

\* At the root a whole tree comes to the texts of all its leaves, and every node to
\* those under it.
LEMMA SubtreesHeld ==
  ASSUME NEW n \in Nat, n > 1, NEW tree, Forest(tree, n), Len(tree) = n - 1,
         NEW X, NEW texts, Lists(texts, X), n <= Len(texts)
  PROVE  /\ Held(Subtrees(tree, texts)[Len(tree)], First(texts, n))
         /\ \A h \in 1 .. Len(tree) :
              Held(Subtrees(tree, texts)[h], TextsOf(tree, texts, Node(h)))
<1> DEFINE m == Len(tree)
           res == Subtrees(tree, texts)
           Y == First(texts, n)
           O(k) == Standing(tree, n, k)
           Sub(c) == ChildOf(res, c, texts)
           T(c) == TextsOf(tree, texts, c)
<1>1. m \in Nat /\ texts \in Seq(X) /\ Len(texts) \in Nat
  BY DEF Lists
<1>2. \A h \in 1 .. m : res[h] = Merged(tree[h].close, Sub(tree[h].left), Sub(tree[h].right))
  <2>1. \A h \in 1 .. m : res[h] = MergedAt(tree, res, texts, h)
    BY <1>1, SubtreesDefined
  <2> QED
    BY <2>1 DEF MergedAt
<1>3. \A h \in 1 .. m : Sub(Node(h)) = res[h]
  BY DEF ChildOf, Node
<1>4. \A i \in 0 .. n - 1 :
        /\ i + 1 \in 1 .. Len(texts)
        /\ Sub(Leaf(i)) = [groups |-> <<>>, points |-> << texts[i + 1] >>]
  BY <1>1 DEF ChildOf, Leaf
<1>5. /\ \A i : T(Leaf(i)) = {texts[i + 1]}
       /\ \A h \in 1 .. m : T(Node(h)) = T(tree[h].left) \cup T(tree[h].right)
  BY TextsOfNode
<1> HIDE DEF res, m, T
<1> DEFINE Family(k) == \E U : /\ Shares(U, O(k), Y)
                               /\ \A o \in O(k) : Held(Sub(o), U[o]) /\ U[o] = T(o)
           P == {k \in 0 .. m : Family(k)}
<1>6. 0 \in P
  <2> DEFINE V == [o \in O(0) |-> {texts[o.index + 1]}]
  <2>1. O(0) = {Leaf(i) : i \in 0 .. n - 1}
    BY DEF Standing
  <2>2. \A i \in 0 .. n - 1 : Leaf(i) \in O(0) /\ V[Leaf(i)] = {texts[i + 1]}
    BY <2>1 DEF Leaf
  <2>3. \A i, j \in 0 .. n - 1 : i # j => texts[i + 1] # texts[j + 1]
    <3> TAKE i, j \in 0 .. n - 1
    <3>1. i + 1 \in 1 .. Len(texts) /\ j + 1 \in 1 .. Len(texts)
      BY <1>4
    <3>2. texts[i + 1] = texts[j + 1] => i + 1 = j + 1
      BY <3>1 DEF Lists
    <3> QED
      BY <3>2
  <2>4. \A i \in 0 .. n - 1 : texts[i + 1] \in Y
    <3> TAKE i \in 0 .. n - 1
    <3>1. i + 1 \in 1 .. n
      OBVIOUS
    <3> QED
      BY <3>1 DEF First
  <2>5. \A y \in Y : \E i \in 0 .. n - 1 : y = texts[i + 1]
    <3> TAKE y \in Y
    <3>1. PICK j \in 1 .. n : y = texts[j]
      BY DEF First
    <3>2. j - 1 \in 0 .. n - 1 /\ (j - 1) + 1 = j
      OBVIOUS
    <3> QED
      BY <3>1, <3>2
  <2>6. DOMAIN V = O(0) /\ V = [o \in O(0) |-> V[o]]
    OBVIOUS
  <2> HIDE DEF V, Y, O
  <2>7. V \in [O(0) -> SUBSET Y]
    <3>1. \A o \in O(0) : V[o] \in SUBSET Y
      BY <2>1, <2>2, <2>4
    <3> QED
      BY <2>6, <3>1
  <2>8. \A o, p \in O(0) : o # p => V[o] \cap V[p] = {}
    BY <2>1, <2>2, <2>3
  <2>9. \A y \in Y : \E o \in O(0) : y \in V[o]
    BY <2>2, <2>5
  <2>10. \A i \in 0 .. n - 1 : Held(Sub(Leaf(i)), V[Leaf(i)])
    <3> TAKE i \in 0 .. n - 1
    <3>1. Held([groups |-> <<>>, points |-> << texts[i + 1] >>], {texts[i + 1]})
      BY LeafHeld
    <3> HIDE DEF Sub
    <3> QED
      BY <1>4, <2>2, <3>1
  <2>11. \A o \in O(0) : Held(Sub(o), V[o]) /\ V[o] = T(o)
    <3> HIDE DEF Sub
    <3> QED
      BY <1>5, <2>1, <2>2, <2>10
  <2>12. Shares(V, O(0), Y)
    BY <2>7, <2>8, <2>9, Zenon DEF Shares
  <2> HIDE DEF Sub
  <2>13. Family(0)
    BY <2>11, <2>12
  <2> QED
    BY <1>1, <2>13
<1>7. ASSUME NEW k \in 1 .. m, k - 1 \in P PROVE k \in P
  <2> DEFINE l == tree[k].left
             r == tree[k].right
  <2>1. Joins(l, r, O(k - 1), Node(k), O(k))
    BY StandingNext DEF m
  <2>2. PICK U : /\ Shares(U, O(k - 1), Y)
                 /\ \A o \in O(k - 1) : Held(Sub(o), U[o]) /\ U[o] = T(o)
    BY <1>7
  <2> DEFINE V == [o \in O(k) |-> IF o = Node(k) THEN U[l] \cup U[r] ELSE U[o]]
  <2> HIDE DEF l, r, O, Y
  <2>3. Shares(V, O(k), Y)
    BY <2>1, <2>2, SharesNext
  <2>4. /\ l \in O(k - 1) /\ r \in O(k - 1) /\ l # r
        /\ O(k) = (O(k - 1) \ {l, r}) \cup {Node(k)}
    BY <2>1 DEF Joins
  <2>5. U[l] \cap U[r] = {}
    BY <2>2, <2>4 DEF Shares
  <2>6. Held(res[k], U[l] \cup U[r])
    <3> HIDE DEF Sub
    <3>1. res[k] = Merged(tree[k].close, Sub(l), Sub(r))
      BY <1>2 DEF l, r
    <3>2. Held(Sub(l), U[l]) /\ Held(Sub(r), U[r])
      BY <2>2, <2>4
    <3> QED
      BY <2>5, <3>1, <3>2, MergedHeld
  <2>7. ASSUME NEW o \in O(k) PROVE Held(Sub(o), V[o]) /\ V[o] = T(o)
    <3>1. CASE o = Node(k)
      <4>1. Sub(o) = res[k] /\ V[o] = U[l] \cup U[r]
        BY <1>3, <3>1
      <4>2. T(o) = T(l) \cup T(r)
        BY <1>5, <3>1 DEF l, r
      <4>3. U[l] = T(l) /\ U[r] = T(r)
        BY <2>2, <2>4
      <4> QED
        BY <2>6, <4>1, <4>2, <4>3
    <3>2. CASE o # Node(k)
      <4>1. o \in O(k - 1) /\ V[o] = U[o]
        BY <2>4, <3>2
      <4> QED
        BY <2>2, <4>1
    <3> QED
      BY <3>1, <3>2
  <2> HIDE DEF V, Sub
  <2>8. Family(k)
    BY <2>3, <2>7
  <2> QED
    BY <1>1, <2>8
<1>8. \A k \in 0 .. m : k \in P
  <2> HIDE DEF P
  <2>1. \A k \in 0 + 1 .. m : k - 1 \in P => k \in P
    BY <1>7
  <2> QED
    BY <1>1, <1>6, <2>1, InductFrom
<1>9. m = n - 1 /\ m \in 0 .. m /\ m \in 1 .. m
  BY <1>1 DEF m
<1>10. O(m) = {Node(m)}
  BY <1>9, RootStands DEF m
<1>11. PICK U : /\ Shares(U, O(m), Y)
                /\ \A o \in O(m) : Held(Sub(o), U[o]) /\ U[o] = T(o)
  <2>1. m \in P
    BY <1>8, <1>9
  <2> QED
    BY <2>1
<1>12. U[Node(m)] = Y
  <2>1. U \in [O(m) -> SUBSET Y] /\ \A y \in Y : \E p \in O(m) : y \in U[p]
    BY <1>11 DEF Shares
  <2> HIDE DEF O, Y
  <2>2. U[Node(m)] \in SUBSET Y
    BY <1>10, <2>1
  <2>3. \A y \in Y : y \in U[Node(m)]
    BY <1>10, <2>1
  <2> QED
    BY <2>2, <2>3
<1>13. Held(res[m], Y)
  BY <1>3, <1>9, <1>10, <1>11, <1>12
<1>14. ASSUME NEW h \in 1 .. m PROVE Held(res[h], T(Node(h)))
  <2>1. PICK V : /\ Shares(V, O(h), Y)
                 /\ \A o \in O(h) : Held(Sub(o), V[o]) /\ V[o] = T(o)
    <3>1. h \in 0 .. m
      BY <1>1
    <3>2. h \in P
      BY <1>8, <3>1
    <3> QED
      BY <3>2
  <2>2. Node(h) \in O(h)
    <3>1. Joins(tree[h].left, tree[h].right, O(h - 1), Node(h), O(h))
      BY StandingNext DEF m
    <3> QED
      BY <3>1 DEF Joins
  <2> HIDE DEF Sub, O
  <2>3. Held(Sub(Node(h)), T(Node(h)))
    BY <2>1, <2>2
  <2> QED
    BY <1>3, <2>3
<1> QED
  BY <1>13, <1>14 DEF res, m, T

\* A join returns texts just when it is close and both its children do.
LEMMA MergedPoints ==
  ASSUME NEW close, NEW l, NEW r, NEW Y, NEW Z, Held(l, Y), Held(r, Z)
  PROVE  Merged(close, l, r).points # <<>> <=> close /\ l.points # <<>> /\ r.points # <<>>
<1>1. CASE close /\ l.points # <<>> /\ r.points # <<>>
  <2>1. l.points \in Seq(Y \cup Z) /\ r.points \in Seq(Y \cup Z)
    <3>1. l.points \in Seq(Y) /\ r.points \in Seq(Z)
      BY <1>1 DEF Held, Lists
    <3> QED
      BY <3>1, SeqMonotonic
  <2>2. l.points \o r.points # <<>>
    BY <1>1, <2>1
  <2> QED
    BY <1>1, <2>2 DEF Merged
<1>2. CASE ~(close /\ l.points # <<>> /\ r.points # <<>>)
  BY <1>2 DEF Merged
<1> QED
  BY <1>1, <1>2

\* A subtree is closed just when it returns its texts.
LEMMA ClosedPoints ==
  ASSUME NEW n \in Nat, n > 1, NEW tree, Forest(tree, n), Len(tree) = n - 1,
         NEW X, NEW texts, Lists(texts, X), n <= Len(texts)
  PROVE  \A h \in 1 .. Len(tree) :
           Closed(tree)[h] <=> Subtrees(tree, texts)[h].points # <<>>
<1> DEFINE m == Len(tree)
           res == Subtrees(tree, texts)
           closed == Closed(tree)
           Sub(c) == ChildOf(res, c, texts)
           Agree(h) == closed[h] <=> res[h].points # <<>>
           P == {k \in Nat : \A h \in 1 .. m : h <= k => Agree(h)}
<1>1. m \in Nat /\ texts \in Seq(X) /\ tree \in Seq(Join)
  BY DEF Lists, Forest
<1>2. \A h \in 1 .. m : res[h] = Merged(tree[h].close, Sub(tree[h].left), Sub(tree[h].right))
  <2>1. \A h \in 1 .. m : res[h] = MergedAt(tree, res, texts, h)
    BY <1>1, SubtreesDefined
  <2> QED
    BY <2>1 DEF MergedAt
<1>3. \A h \in 1 .. m : \E Z : Held(res[h], Z)
  BY SubtreesHeld
<1>4. \A h \in 1 .. m :
        closed[h] = (/\ tree[h].close
                     /\ \A c \in {tree[h].left, tree[h].right} : ~c.leaf => closed[c.index])
  BY ClosedDefined
<1>5. ASSUME NEW h \in 1 .. m
      PROVE  Earlier(tree[h].left, n, h) /\ Earlier(tree[h].right, n, h)
  BY StandingNext
<1> HIDE DEF m, res, closed
<1>6. 0 \in P
  OBVIOUS
<1>7. ASSUME NEW k \in Nat, k \in P PROVE k + 1 \in P
  <2> SUFFICES ASSUME NEW h \in 1 .. m, h = k + 1 PROVE Agree(h)
    <3>1. \A j \in 1 .. m : j <= k + 1 => j <= k \/ j = k + 1
      BY <1>1
    <3> QED
      BY <1>7, <3>1
  <2> DEFINE l == tree[h].left
             r == tree[h].right
  <2>1. h \in Nat
    BY <1>1
  <2>2. ASSUME NEW c, Earlier(c, n, h)
        PROVE  /\ \E Z : Held(Sub(c), Z)
               /\ Sub(c).points # <<>> <=> (~c.leaf => closed[c.index])
    <3>1. CASE c.leaf = TRUE /\ c.index \in 0 .. n - 1
      <4> DEFINE x == texts[c.index + 1]
      <4>1. Sub(c) = [groups |-> <<>>, points |-> << x >>]
        BY <3>1 DEF ChildOf
      <4> HIDE DEF x, Sub
      <4>2. Held(Sub(c), {x})
        BY <4>1, LeafHeld
      <4>3. Sub(c).points # <<>>
        BY <4>1
      <4> QED
        BY <3>1, <4>2, <4>3
    <3>2. CASE c.leaf = FALSE /\ c.index \in 1 .. h - 1
      <4>1. c.index \in 1 .. m /\ c.index <= k
        BY <1>1, <3>2
      <4>2. Sub(c) = res[c.index]
        BY <3>2 DEF ChildOf
      <4> HIDE DEF Sub
      <4>3. Agree(c.index)
        BY <1>7, <4>1
      <4>4. \E Z : Held(Sub(c), Z)
        BY <1>3, <4>1, <4>2
      <4> QED
        BY <3>2, <4>2, <4>3, <4>4
    <3> QED
      BY <2>1, <2>2, <3>1, <3>2, EarlierCases
  <2>3. Earlier(l, n, h) /\ Earlier(r, n, h)
    BY <1>5
  <2>4. res[h] = Merged(tree[h].close, Sub(l), Sub(r))
    BY <1>2
  <2>5. closed[h] <=> tree[h].close /\ (~l.leaf => closed[l.index])
                                    /\ (~r.leaf => closed[r.index])
    <3> DEFINE all == \A c \in {l, r} : ~c.leaf => closed[c.index]
    <3>1. all <=> (~l.leaf => closed[l.index]) /\ (~r.leaf => closed[r.index])
      <4> HIDE DEF l, r
      <4> QED
        BY Zenon
    <3>2. closed[h] = (tree[h].close /\ all)
      BY <1>4, Zenon
    <3> HIDE DEF all
    <3> QED
      BY <3>1, <3>2
  <2> HIDE DEF l, r, Sub
  <2>6. PICK Y : Held(Sub(l), Y)
    BY <2>2, <2>3
  <2>7. PICK Z : Held(Sub(r), Z)
    BY <2>2, <2>3
  <2>8. /\ Sub(l).points # <<>> <=> (~l.leaf => closed[l.index])
        /\ Sub(r).points # <<>> <=> (~r.leaf => closed[r.index])
    BY <2>2, <2>3
  <2>9. res[h].points # <<>> <=>
          tree[h].close /\ Sub(l).points # <<>> /\ Sub(r).points # <<>>
    BY <2>4, <2>6, <2>7, MergedPoints
  <2> QED
    BY <2>5, <2>8, <2>9
<1>8. Nat \subseteq P
  <2> HIDE DEF P
  <2> QED
    BY <1>6, <1>7, Induct
<1>9. \A h \in 1 .. m : Agree(h)
  <2> TAKE h \in 1 .. m
  <2>1. h \in Nat /\ h <= h
    BY <1>1
  <2>2. h \in P
    BY <1>8, <2>1
  <2> HIDE DEF Agree
  <2> QED
    BY <2>1, <2>2
<1> QED
  BY <1>9 DEF m, res, closed

\* The groups of a whole tree: all its leaves, or nothing when it is closed.
LEMMA ParseGroups ==
  ASSUME NEW n \in Nat, n > 1, NEW tree, Forest(tree, n), Len(tree) = n - 1,
         NEW X, NEW texts, Lists(texts, X), n <= Len(texts)
  PROVE  Groups(parseGTR(tree, texts),
                IF Closed(tree)[Len(tree)] THEN {} ELSE First(texts, n))
<1> DEFINE m == Len(tree)
           res == Subtrees(tree, texts)
           Y == First(texts, n)
<1>1. m \in 1 .. m
  OBVIOUS
<1>2. Closed(tree)[m] <=> res[m].points # <<>>
  BY <1>1, ClosedPoints
<1>3. Held(res[m], Y)
  BY SubtreesHeld
<1>4. parseGTR(tree, texts) = res[m].groups
  BY DEF parseGTR
<1> HIDE DEF res, m, Y
<1>5. CASE res[m].points # <<>>
  <2>1. res[m].groups = <<>>
    BY <1>3, <1>5 DEF Held
  <2> QED
    BY <1>2, <1>4, <1>5, <2>1, NoGroups DEF m
<1>6. CASE res[m].points = <<>>
  <2>1. Groups(res[m].groups, Y)
    BY <1>3, <1>6 DEF Held
  <2> QED
    BY <1>2, <1>4, <1>6, <2>1 DEF m, Y
<1> QED
  BY <1>5, <1>6

\* What the groups in gs have.
Sets(gs) == {ToSet(gs[i]) : i \in 1 .. Len(gs)}

\* The groups of two sequences of them.
LEMMA ConcatSets ==
  ASSUME NEW S, NEW s \in Seq(S), NEW t \in Seq(S)
  PROVE  Sets(s \o t) = Sets(s) \cup Sets(t)
<1> DEFINE m == Len(s)
           n == Len(t)
           u == s \o t
<1>1. /\ m \in Nat /\ n \in Nat /\ Len(u) = m + n
      /\ \A i \in 1 .. m : u[i] = s[i]
      /\ \A i \in 1 .. n : u[m + i] = t[i]
  BY Concat
<1> HIDE DEF m, n, u
<1>2. \A i \in 1 .. m + n : \/ i \in 1 .. m /\ u[i] = s[i]
                            \/ i - m \in 1 .. n /\ u[i] = t[i - m]
  <2> TAKE i \in 1 .. m + n
  <2>1. CASE i <= m
    BY <1>1, <2>1
  <2>2. CASE i > m
    <3>1. i - m \in 1 .. n /\ m + (i - m) = i
      BY <1>1, <2>2
    <3> QED
      BY <1>1, <3>1
  <2> QED
    BY <1>1, <2>1, <2>2
<1>3. \A i \in 1 .. m : i \in 1 .. m + n
  BY <1>1
<1>4. \A i \in 1 .. n : m + i \in 1 .. m + n
  BY <1>1
<1>5. {ToSet(u[i]) : i \in 1 .. m + n} \subseteq
        {ToSet(s[i]) : i \in 1 .. m} \cup {ToSet(t[i]) : i \in 1 .. n}
  BY <1>2
<1>6. {ToSet(s[i]) : i \in 1 .. m} \subseteq {ToSet(u[i]) : i \in 1 .. m + n}
  BY <1>1, <1>3
<1>7. {ToSet(t[i]) : i \in 1 .. n} \subseteq {ToSet(u[i]) : i \in 1 .. m + n}
  BY <1>1, <1>4
<1>8. {ToSet(u[i]) : i \in 1 .. m + n} =
        {ToSet(s[i]) : i \in 1 .. m} \cup {ToSet(t[i]) : i \in 1 .. n}
  BY <1>5, <1>6, <1>7, Zenon
<1> QED
  BY <1>1, <1>8 DEF Sets, m, n, u

\* No group, and one.
LEMMA FewSets ==
  /\ Sets(<<>>) = {}
  /\ \A s : Sets(<< s >>) = {ToSet(s)}
<1>1. Sets(<<>>) = {}
  BY DEF Sets
<1>2. ASSUME NEW s PROVE Sets(<< s >>) = {ToSet(s)}
  <2> DEFINE gs == << s >>
  <2>1. Len(gs) = 1 /\ gs[1] = s /\ 1 .. 1 = {1}
    OBVIOUS
  <2> HIDE DEF gs
  <2>2. Sets(gs) = {ToSet(s)}
    BY <2>1 DEF Sets
  <2> QED
    BY <2>2 DEF gs
<1> QED
  BY <1>1, <1>2

\* The groups of a subtree, and the one it would be.
Parts(r) == Sets(r.groups) \cup Sets(Group(r.points))

\* A subtree that holds Y is one group, or has groups.
LEMMA HeldSets ==
  ASSUME NEW r, NEW Y, Held(r, Y)
  PROVE  /\ r.points # <<>> => Parts(r) = {Y}
         /\ r.points = <<>> => Parts(r) = Sets(r.groups)
         /\ \A p \in Parts(r) : p \subseteq Y
         /\ r.groups \in Seq(Seq(Y)) /\ Group(r.points) \in Seq(Seq(Y))
<1>1. CASE r.groups = <<>> /\ r.points # <<>> /\ Lists(r.points, Y)
  <2>1. Parts(r) = {ToSet(r.points)}
    BY <1>1, FewSets DEF Parts, Group
  <2>2. ToSet(r.points) = Y
    BY <1>1, ListsToSet
  <2>3. << r.points >> \in Seq(Seq(Y)) /\ <<>> \in Seq(Seq(Y))
    BY <1>1 DEF Lists
  <2> QED
    BY <1>1, <2>1, <2>2, <2>3 DEF Group
<1>2. CASE r.points = <<>> /\ Groups(r.groups, Y)
  <2>1. Parts(r) = Sets(r.groups)
    BY <1>2, FewSets DEF Parts, Group
  <2>2. r.groups \in Seq(Seq(Y)) /\ \A i \in 1 .. Len(r.groups) : r.groups[i] \in Seq(Y)
    BY <1>2, GroupsWithin
  <2>3. \A p \in Sets(r.groups) : p \subseteq Y
    BY <2>2, ToSetWithin DEF Sets
  <2>4. <<>> \in Seq(Seq(Y))
    OBVIOUS
  <2> QED
    BY <1>2, <2>1, <2>2, <2>3, <2>4 DEF Group
<1> QED
  BY <1>1, <1>2 DEF Held

\* A join of two subtrees makes one group of them, or keeps theirs.
LEMMA MergedParts ==
  ASSUME NEW close, NEW l, NEW r, NEW Y, NEW Z, Held(l, Y), Held(r, Z)
  PROVE  Parts(Merged(close, l, r)) =
           IF close /\ l.points # <<>> /\ r.points # <<>> THEN {Y \cup Z}
                                                          ELSE Parts(l) \cup Parts(r)
<1>1. CASE close /\ l.points # <<>> /\ r.points # <<>>
  <2>1. Lists(l.points, Y) /\ Lists(r.points, Z)
    BY <1>1 DEF Held
  <2> DEFINE p == l.points \o r.points
  <2>2. p # <<>> /\ ToSet(p) = Y \cup Z
    <3>1. l.points \in Seq(Y \cup Z) /\ r.points \in Seq(Y \cup Z)
      BY <2>1, SeqMonotonic DEF Lists
    <3>2. p # <<>>
      BY <1>1, <3>1
    <3>3. ToSet(l.points) = Y /\ ToSet(r.points) = Z
      BY <2>1, ListsToSet
    <3>4. Range(p) = Range(l.points) \cup Range(r.points)
      BY <3>1, RangeConcatenation
    <3> QED
      BY <3>2, <3>3, <3>4 DEF ToSet, Range
  <2>3. Merged(close, l, r) = [groups |-> <<>>, points |-> p]
    BY <1>1 DEF Merged
  <2> HIDE DEF p
  <2>4. Parts(Merged(close, l, r)) = {ToSet(p)}
    <3>1. Group(p) = << p >>
      BY <2>2 DEF Group
    <3>2. Sets(Group(p)) = {ToSet(p)}
      BY <3>1, FewSets
    <3>3. Parts([groups |-> <<>>, points |-> p]) = Sets(<<>>) \cup Sets(Group(p))
      BY DEF Parts
    <3> QED
      BY <2>3, <3>2, <3>3, FewSets
  <2> QED
    BY <1>1, <2>2, <2>4
<1>2. CASE ~(close /\ l.points # <<>> /\ r.points # <<>>)
  <2> DEFINE X == Y \cup Z
             S == Seq(X)
             gl == Group(l.points)
             gr == Group(r.points)
  <2>1. l.groups \in Seq(S) /\ r.groups \in Seq(S) /\ gl \in Seq(S) /\ gr \in Seq(S)
    <3>1. Seq(Y) \subseteq S /\ Seq(Z) \subseteq S
      BY SeqMonotonic
    <3>2. Seq(Seq(Y)) \subseteq Seq(S) /\ Seq(Seq(Z)) \subseteq Seq(S)
      BY <3>1, SeqMonotonic
    <3> QED
      BY <3>2, HeldSets
  <2> HIDE DEF S, gl, gr
  <2>2. /\ l.groups \o r.groups \in Seq(S)
        /\ (l.groups \o r.groups) \o gl \in Seq(S)
    BY <2>1
  <2>3. Unjoined(l, r) = ((l.groups \o r.groups) \o gl) \o gr
    BY DEF Unjoined, gl, gr
  <2>4. Sets(Unjoined(l, r)) = ((Sets(l.groups) \cup Sets(r.groups)) \cup Sets(gl)) \cup Sets(gr)
    <3>1. \A s, t \in Seq(S) : Sets(s \o t) = Sets(s) \cup Sets(t)
      BY ConcatSets, Zenon
    <3>2. Sets(l.groups \o r.groups) = Sets(l.groups) \cup Sets(r.groups)
      BY <2>1, <3>1, Zenon
    <3>3. Sets((l.groups \o r.groups) \o gl) = Sets(l.groups \o r.groups) \cup Sets(gl)
      BY <2>1, <2>2, <3>1, Zenon
    <3>4. Sets(((l.groups \o r.groups) \o gl) \o gr)
            = Sets((l.groups \o r.groups) \o gl) \cup Sets(gr)
      BY <2>1, <2>2, <3>1, Zenon
    <3> QED
      BY <2>3, <3>2, <3>3, <3>4
  <2>5. Merged(close, l, r) = [groups |-> Unjoined(l, r), points |-> <<>>]
    BY <1>2 DEF Merged
  <2>6. Parts(Merged(close, l, r)) = Sets(Unjoined(l, r)) \cup Sets(<<>>)
    BY <2>5 DEF Parts, Group
  <2>7. Parts(Merged(close, l, r)) = Parts(l) \cup Parts(r)
    BY <2>4, <2>6, FewSets DEF Parts, gl, gr
  <2> QED
    BY <1>2, <2>7
<1> QED
  BY <1>1, <1>2

\* Each group is one text or those of a closed node, and each closed node is within one.
Gathered(gs, tree, texts) ==
  /\ \A p \in Sets(gs) :
       \/ \E x : p = {x}
       \/ \E j \in 1 .. Len(tree) : Closed(tree)[j] /\ p = TextsOf(tree, texts, Node(j))
  /\ \A j \in 1 .. Len(tree) : Closed(tree)[j] =>
       \E p \in Sets(gs) : TextsOf(tree, texts, Node(j)) \subseteq p

\* So are the groups of a tree that is not closed as a whole.
LEMMA ParseGathers ==
  ASSUME NEW n \in Nat, n > 1, NEW tree, Forest(tree, n), Len(tree) = n - 1,
         NEW X, NEW texts, Lists(texts, X), n <= Len(texts), ~Closed(tree)[Len(tree)]
  PROVE  Gathered(parseGTR(tree, texts), tree, texts)
<1> DEFINE m == Len(tree)
           res == Subtrees(tree, texts)
           closed == Closed(tree)
           O(k) == Standing(tree, n, k)
           Sub(c) == ChildOf(res, c, texts)
           T(c) == TextsOf(tree, texts, c)
           l(h) == tree[h].left
           r(h) == tree[h].right
<1>1. m \in Nat /\ m = n - 1 /\ texts \in Seq(X)
  BY DEF Lists, Forest
<1>2. \A h \in 1 .. m : res[h] = Merged(tree[h].close, Sub(l(h)), Sub(r(h)))
  <2>1. \A h \in 1 .. m : res[h] = MergedAt(tree, res, texts, h)
    BY <1>1, SubtreesDefined
  <2> QED
    BY <2>1 DEF MergedAt
<1>3. \A h \in 1 .. m : Held(res[h], T(Node(h)))
  BY SubtreesHeld
<1>4. \A h \in 1 .. m : closed[h] <=> res[h].points # <<>>
  BY ClosedPoints
<1>5. /\ \A i : T(Leaf(i)) = {texts[i + 1]}
      /\ \A h \in 1 .. m : T(Node(h)) = T(l(h)) \cup T(r(h))
  BY TextsOfNode
<1>6. \A h \in 1 .. m : /\ Joins(l(h), r(h), O(h - 1), Node(h), O(h))
                        /\ Earlier(l(h), n, h) /\ Earlier(r(h), n, h)
  BY StandingNext
<1>7. /\ \A i : Sub(Leaf(i)) = [groups |-> <<>>, points |-> << texts[i + 1] >>]
      /\ \A h : Sub(Node(h)) = res[h]
  BY DEF ChildOf, Leaf, Node
<1>8. parseGTR(tree, texts) = res[m].groups /\ ~closed[m] /\ O(m) = {Node(m)}
  BY RootStands DEF parseGTR
<1> HIDE DEF m, res, closed, O, Sub, T, l, r
<1>9. \A i : Held(Sub(Leaf(i)), T(Leaf(i)))
  BY <1>5, <1>7, LeafHeld
<1>10. \A h \in 1 .. m : Held(Sub(Node(h)), T(Node(h)))
  BY <1>3, <1>7
<1>11. ASSUME NEW h \in 1 .. m, NEW c, Earlier(c, n, h)
       PROVE  \/ \E i : c = Leaf(i)
              \/ \E j \in 1 .. m : j < h /\ c = Node(j)
  <2>1. \A j \in 1 .. h - 1 : j \in 1 .. m /\ j < h
    BY <1>1
  <2> QED
    BY <1>11, <2>1 DEF Earlier
<1>12. \A h \in 1 .. m : Held(Sub(l(h)), T(l(h))) /\ Held(Sub(r(h)), T(r(h)))
  BY <1>6, <1>9, <1>10, <1>11
<1>13. \A h \in 1 .. m : /\ closed[h] => Parts(res[h]) = {T(Node(h))}
                         /\ ~closed[h] => Parts(res[h]) = Parts(Sub(l(h))) \cup Parts(Sub(r(h)))
  <2> TAKE h \in 1 .. m
  <2>1. Held(res[h], T(Node(h))) /\ (closed[h] <=> res[h].points # <<>>)
    BY <1>3, <1>4
  <2>2. Held(Sub(l(h)), T(l(h))) /\ Held(Sub(r(h)), T(r(h)))
    BY <1>12
  <2>3. res[h] = Merged(tree[h].close, Sub(l(h)), Sub(r(h)))
    BY <1>2
  <2>4. ASSUME closed[h] PROVE Parts(res[h]) = {T(Node(h))}
    BY <2>1, <2>4, HeldSets
  <2>5. ASSUME ~closed[h] PROVE Parts(res[h]) = Parts(Sub(l(h))) \cup Parts(Sub(r(h)))
    <3>1. ~(tree[h].close /\ Sub(l(h)).points # <<>> /\ Sub(r(h)).points # <<>>)
      BY <2>1, <2>2, <2>3, <2>5, MergedPoints
    <3> QED
      BY <2>2, <2>3, <3>1, MergedParts
  <2> QED
    BY <2>4, <2>5
<1> DEFINE Lone(p) == \E x : p = {x}
           Whole(p) == \E j \in 1 .. m : closed[j] /\ p = T(Node(j))
           Fine(h) == \A p \in Parts(res[h]) : Lone(p) \/ Whole(p)
           P == {k \in Nat : \A h \in 1 .. m : h <= k => Fine(h)}
<1>14. \A i : \A p \in Parts(Sub(Leaf(i))) : Lone(p)
  <2> TAKE i
  <2>1. Sub(Leaf(i)).points # <<>>
    BY <1>7
  <2>2. Parts(Sub(Leaf(i))) = {T(Leaf(i))}
    BY <1>9, <2>1, HeldSets
  <2> QED
    BY <1>5, <2>2
<1>15. 0 \in P
  OBVIOUS
<1>16. ASSUME NEW k \in Nat, k \in P PROVE k + 1 \in P
  <2> SUFFICES ASSUME NEW h \in 1 .. m, h = k + 1 PROVE Fine(h)
    <3>1. \A j \in 1 .. m : j <= k + 1 => j <= k \/ j = k + 1
      BY <1>1
    <3> HIDE DEF Fine
    <3> QED
      BY <1>16, <3>1
  <2> HIDE DEF Lone, Whole
  <2>1. ASSUME NEW c, Earlier(c, n, h), NEW p \in Parts(Sub(c)) PROVE Lone(p) \/ Whole(p)
    <3>1. CASE \E i : c = Leaf(i)
      BY <1>14, <2>1, <3>1
    <3>2. CASE \E j \in 1 .. m : j < h /\ c = Node(j)
      <4>1. PICK j \in 1 .. m : j < h /\ c = Node(j)
        BY <3>2
      <4>2. j <= k
        BY <1>1, <4>1
      <4>3. Fine(j)
        BY <1>16, <4>2
      <4> QED
        BY <1>7, <2>1, <4>1, <4>3
    <3> QED
      BY <1>11, <2>1, <3>1, <3>2
  <2>2. CASE closed[h]
    BY <1>13, <2>2 DEF Whole
  <2>3. CASE ~closed[h]
    BY <1>6, <1>13, <2>1, <2>3
  <2> QED
    BY <2>2, <2>3
<1>17. m \in P
  <2> HIDE DEF P
  <2>1. Nat \subseteq P
    BY <1>15, <1>16, Induct
  <2> QED
    BY <1>1, <2>1
<1> DEFINE Among(j, k) == \E o \in O(k) : \E p \in Parts(Sub(o)) : T(Node(j)) \subseteq p
           Q == {k \in 0 .. m : \A j \in 1 .. k : closed[j] => Among(j, k)}
<1>18. 0 \in Q
  BY <1>1
<1>19. ASSUME NEW k \in 1 .. m, k - 1 \in Q PROVE k \in Q
  <2>1. Joins(l(k), r(k), O(k - 1), Node(k), O(k))
    BY <1>6
  <2>2. Node(k) \in O(k) /\ \A o \in O(k - 1) : o = l(k) \/ o = r(k) \/ o \in O(k)
    BY <2>1 DEF Joins
  <2>3. Sub(Node(k)) = res[k]
    BY <1>7
  <2>4. ASSUME closed[k] PROVE Among(k, k)
    <3>1. T(Node(k)) \in Parts(Sub(Node(k)))
      BY <1>13, <2>3, <2>4
    <3> QED
      BY <2>2, <3>1
  <2>5. ASSUME NEW j \in 1 .. k - 1, closed[j] PROVE Among(j, k)
    <3>1. Among(j, k - 1)
      <4> HIDE DEF Among
      <4> QED
        BY <1>19, <2>5
    <3>2. PICK o \in O(k - 1) : \E p \in Parts(Sub(o)) : T(Node(j)) \subseteq p
      BY <3>1
    <3>3. PICK p \in Parts(Sub(o)) : T(Node(j)) \subseteq p
      BY <3>2
    <3>4. CASE o \in O(k)
      BY <3>3, <3>4
    <3>5. CASE o \in {l(k), r(k)} /\ closed[k]
      <4>1. Held(Sub(o), T(o))
        BY <1>12, <3>5
      <4>2. p \subseteq T(o)
        BY <4>1, HeldSets
      <4>3. T(Node(j)) \subseteq T(Node(k))
        BY <1>5, <3>3, <3>5, <4>2
      <4>4. T(Node(k)) \in Parts(Sub(Node(k)))
        BY <1>13, <2>3, <3>5
      <4> QED
        BY <2>2, <4>3, <4>4
    <3>6. CASE o \in {l(k), r(k)} /\ ~closed[k]
      <4>1. p \in Parts(Sub(Node(k)))
        BY <1>13, <2>3, <3>6
      <4> QED
        BY <2>2, <3>3, <4>1
    <3> QED
      BY <2>2, <3>4, <3>5, <3>6
  <2>6. \A j \in 1 .. k : j = k \/ j \in 1 .. k - 1
    BY <1>1
  <2>7. k \in 0 .. m
    BY <1>1
  <2> HIDE DEF Among
  <2> QED
    BY <2>4, <2>5, <2>6, <2>7
<1>20. m \in Q
  <2> HIDE DEF Q
  <2>1. \A k \in 0 + 1 .. m : k - 1 \in Q => k \in Q
    BY <1>19
  <2>2. m \in 0 .. m
    BY <1>1
  <2> QED
    BY <1>1, <1>18, <2>1, <2>2, InductFrom
<1>21. m \in 1 .. m
  BY <1>1
<1>22. Sets(parseGTR(tree, texts)) = Parts(res[m])
  <2>1. Held(res[m], T(Node(m))) /\ res[m].points = <<>>
    BY <1>3, <1>4, <1>8, <1>21
  <2> QED
    BY <1>8, <2>1, HeldSets
<1>23. \A p \in Parts(res[m]) : Lone(p) \/ Whole(p)
  <2>1. m <= m
    BY <1>1
  <2> HIDE DEF Lone, Whole
  <2> QED
    BY <1>17, <1>21, <2>1
<1>24. \A j \in 1 .. m : closed[j] => \E p \in Parts(res[m]) : T(Node(j)) \subseteq p
  BY <1>7, <1>8, <1>20
<1> QED
  BY <1>22, <1>23, <1>24 DEF Gathered, m, closed, T

-----------------------------------------------------------------------------
\* The numbers of texts that are a duplicate of an earlier one, among them those of all
\* that duplicate their neighbour.
Marks(ids, c, n) ==
  /\ \A x \in ids : \E a, b \in 1 .. n : a < b /\ Duplicate(c[a], c[b]) /\ x = c[b].id
  /\ \A b \in 2 .. n : Duplicate(c[b - 1], c[b]) => c[b].id \in ids

\* Fewer rows of the same length hold fewer places.
LEMMA Rows ==
  ASSUME NEW n \in Nat, NEW i \in 1 .. n + 2
  PROVE  (n + 2 - i) * (n + 3) \in Nat /\ (n + 2 - i) * (n + 3) <= (n + 1) * (n + 3)
<1>1. \A a, c \in Nat : a * c \in Nat
  OBVIOUS
<1>2. n + 2 - i \in Nat /\ i - 1 \in Nat /\ n + 3 \in Nat /\ n + 1 = (n + 2 - i) + (i - 1)
  OBVIOUS
<1>3. \A a, b, c \in Nat : (a + b) * c = a * c + b * c
  OBVIOUS
<1>4. (n + 1) * (n + 3) = (n + 2 - i) * (n + 3) + (i - 1) * (n + 3)
  BY <1>2, <1>3
<1>5. (n + 2 - i) * (n + 3) \in Nat /\ (i - 1) * (n + 3) \in Nat
  BY <1>1, <1>2
<1> QED
  BY <1>4, <1>5

\* The removal of duplicates is well defined, and leaves such texts out.
LEMMA DuplicatesMarked ==
  ASSUME NEW X, NEW c \in Seq(X)
  PROVE  \E ids : removeDuplicates(c) = Without(c, ids) /\ Marks(ids, c, Len(c))
<1> DEFINE n == Len(c)
           D == (1 .. n + 1) \X (1 .. n + 2)
           S == SUBSET {c[b].id : b \in 1 .. n}
           Body(p, f) == IF p[1] > n \/ p[2] > n THEN {}
                         ELSE IF Duplicate(c[p[1]], c[p[2]])
                              THEN {c[p[2]].id} \cup f[<<p[1], p[2] + 1>>]
                              ELSE f[<<p[1] + 1, p[1] + 2>>]
           Def(f) == f = [p \in D |-> Body(p, f)]
           row == [i \in 1 .. n + 2 |-> (n + 2 - i) * (n + 3)]
           rank == [p \in D |-> row[p[1]] + (n + 2 - p[2])]
           marked == CHOOSE f : Def(f)
<1>1. n \in Nat
  OBVIOUS
<1>2. removeDuplicates(c) = Without(c, marked[<<1, 2>>])
  BY Zenon DEF removeDuplicates
<1> HIDE DEF n
<1>3. row \in [1 .. n + 2 -> Nat]
  BY <1>1
<1>4. \A i \in 1 .. n + 1 : row[i] = row[i + 1] + (n + 3)
  BY <1>1
<1>5. \A i \in 1 .. n + 2 : row[i] <= row[1]
  <2> TAKE i \in 1 .. n + 2
  <2>1. row[i] = (n + 2 - i) * (n + 3) /\ row[1] = (n + 1) * (n + 3)
    BY <1>1
  <2>2. (n + 2 - i) * (n + 3) <= (n + 1) * (n + 3)
    BY <1>1, Rows
  <2> QED
    BY <2>1, <2>2
<1> HIDE DEF row
<1>6. ASSUME NEW p \in D, p[1] <= n, p[2] <= n
      PROVE  /\ <<p[1], p[2] + 1>> \in D /\ rank[<<p[1], p[2] + 1>>] < rank[p]
             /\ <<p[1] + 1, p[1] + 2>> \in D /\ rank[<<p[1] + 1, p[1] + 2>>] < rank[p]
  <2> PICK i \in 1 .. n + 1, j \in 1 .. n + 2 : p = <<i, j>>
    BY <1>1
  <2>1. i <= n /\ j <= n /\ i + 1 \in 1 .. n + 1 /\ j + 1 \in 1 .. n + 2 /\ i + 2 \in 1 .. n + 2
    BY <1>1, <1>6
  <2>2. <<i, j + 1>> \in D /\ <<i + 1, i + 2>> \in D
    BY <2>1
  <2>3. /\ rank[p] = row[i] + (n + 2 - j)
        /\ rank[<<i, j + 1>>] = row[i] + (n + 2 - (j + 1))
        /\ rank[<<i + 1, i + 2>>] = row[i + 1] + (n + 2 - (i + 2))
    BY <2>2
  <2>4. row[i] = row[i + 1] + (n + 3) /\ row[i] \in Nat /\ row[i + 1] \in Nat
    BY <1>1, <1>3, <1>4, <2>1
  <2> HIDE DEF D, rank
  <2>5. \A a \in Nat : /\ a + (n + 2 - (j + 1)) < a + (n + 2 - j)
                       /\ a + (n + 2 - (i + 2)) < a + (n + 3) + (n + 2 - j)
    BY <1>1, <2>1
  <2>6. rank[<<i, j + 1>>] < rank[p] /\ rank[<<i + 1, i + 2>>] < rank[p]
    BY <2>3, <2>4, <2>5
  <2> QED
    BY <2>2, <2>6
<1>7. rank \in [D -> Nat] /\ row[1] + n + 2 \in Nat /\ \A p \in D : rank[p] < row[1] + n + 2
  <2>1. ASSUME NEW i \in 1 .. n + 1, NEW j \in 1 .. n + 2
        PROVE  row[i] + (n + 2 - j) \in Nat /\ row[i] + (n + 2 - j) < row[1] + n + 2
    <3>1. i \in 1 .. n + 2 /\ 1 \in 1 .. n + 2
      BY <1>1
    <3>2. row[i] \in Nat /\ row[1] \in Nat /\ row[i] <= row[1]
      BY <1>3, <1>5, <3>1
    <3> QED
      BY <1>1, <3>2
  <2>2. row[1] \in Nat
    BY <1>1, <1>3
  <2>3. \A p \in D : p[1] \in 1 .. n + 1 /\ p[2] \in 1 .. n + 2
    OBVIOUS
  <2>4. \A p \in D : row[p[1]] + (n + 2 - p[2]) \in Nat
                   /\ row[p[1]] + (n + 2 - p[2]) < row[1] + n + 2
    BY <2>1, <2>3
  <2> HIDE DEF D
  <2> QED
    BY <1>1, <2>2, <2>4
<1>8. \E f : Def(f)
  <2> DEFINE F == [q \in D \X [D -> S] |-> Body(q[1], q[2])]
  <2>1. \A p \in D : p[1] \in Int /\ p[2] \in Int /\
          (~(p[1] > n \/ p[2] > n) => p[1] <= n /\ p[2] <= n /\ p[2] \in 1 .. n)
    BY <1>1
  <2>2. ASSUME NEW p \in D, NEW f \in [D -> S] PROVE Body(p, f) \in S
    <3>1. CASE p[1] > n \/ p[2] > n
      BY <3>1
    <3>2. CASE ~(p[1] > n \/ p[2] > n)
      <4>1. <<p[1], p[2] + 1>> \in D /\ <<p[1] + 1, p[1] + 2>> \in D /\ p[2] \in 1 .. n
        BY <1>6, <2>1, <3>2
      <4>2. {c[p[2]].id} \in S
        BY <4>1
      <4> HIDE DEF D, rank
      <4>3. f[<<p[1], p[2] + 1>>] \in S /\ f[<<p[1] + 1, p[1] + 2>>] \in S
        BY <4>1
      <4> QED
        BY <3>2, <4>3, <4>2
    <3> QED
      BY <3>1, <3>2
  <2>3. F \in [D \X [D -> S] -> S]
    <3> HIDE DEF Body, D, S
    <3> QED
      BY <2>2
  <2>4. ASSUME NEW p \in D, NEW f \in [D -> S], NEW g \in [D -> S],
               \A y \in D : rank[y] < rank[p] => f[y] = g[y]
        PROVE  Body(p, f) = Body(p, g)
    <3>1. CASE p[1] > n \/ p[2] > n
      BY <3>1
    <3>2. CASE ~(p[1] > n \/ p[2] > n)
      <4>1. p[1] <= n /\ p[2] <= n
        BY <2>1, <3>2
      <4> HIDE DEF D, rank
      <4>2. /\ f[<<p[1], p[2] + 1>>] = g[<<p[1], p[2] + 1>>]
            /\ f[<<p[1] + 1, p[1] + 2>>] = g[<<p[1] + 1, p[1] + 2>>]
        BY <1>6, <2>4, <4>1
      <4> QED BY <3>2, <4>2
    <3> QED
      BY <3>1, <3>2
  <2>5. \A p \in D, f \in [D -> S] : F[<<p, f>>] = Body(p, f)
    <3> HIDE DEF Body, D, S
    <3> QED
      OBVIOUS
  <2>6. S # {}
    OBVIOUS
  <2>7. \A p \in D, f, g \in [D -> S] :
          (\A y \in D : rank[y] < rank[p] => f[y] = g[y]) => F[<<p, f>>] = F[<<p, g>>]
    <3> HIDE DEF Body, D, S, rank, F
    <3> QED
      BY <2>4, <2>5
  <2> HIDE DEF F, D, S, rank
  <2>8. Descends(D, S, F, rank, row[1] + n + 2)
    BY <1>7, <2>3, <2>7, Zenon DEF Descends
  <2>9. Solvable(D, S, F)
    BY <2>6, <2>8, Recursion
  <2>10. PICK f \in [D -> S] : \A p \in D : f[p] = F[<<p, f>>]
    BY <2>9 DEF Solvable
  <2> HIDE DEF Body
  <2>11. f = [p \in D |-> Body(p, f)]
    BY <2>5, <2>10
  <2> QED
    BY <2>11
<1>9. Def(marked)
  <2> HIDE DEF Def
  <2> QED
    BY <1>8
<1> HIDE DEF marked
<1>10. \A p \in D : marked[p] = Body(p, marked)
  <2> HIDE DEF D, Body
  <2> QED
    BY <1>9
<1> DEFINE Late(x) == \E a, b \in 1 .. n : a < b /\ Duplicate(c[a], c[b]) /\ x = c[b].id
           Next2(b) == Duplicate(c[b - 1], c[b])
           Ok(l, r) == l < r =>
                         /\ \A x \in marked[<<l, r>>] : Late(x)
                         /\ \A b \in 2 .. n : r <= b /\ Next2(b) => c[b].id \in marked[<<l, r>>]
           P == {k \in Nat : \A l \in 1 .. n + 1, r \in 1 .. n + 2 :
                               rank[<<l, r>>] < k => Ok(l, r)}
<1>11. 0 \in P
  <2>1. \A l \in 1 .. n + 1, r \in 1 .. n + 2 : <<l, r>> \in D
    OBVIOUS
  <2> HIDE DEF D, rank
  <2>2. \A l \in 1 .. n + 1, r \in 1 .. n + 2 : rank[<<l, r>>] \in Nat
    BY <1>7, <2>1
  <2> HIDE DEF Ok
  <2> QED
    BY <2>2
<1>12. ASSUME NEW k \in Nat, k \in P PROVE k + 1 \in P
  <2> SUFFICES ASSUME NEW i \in 1 .. n + 1, NEW j \in 1 .. n + 2, rank[<<i, j>>] < k + 1
               PROVE  Ok(i, j)
    <3> HIDE DEF Ok, rank
    <3> QED
      OBVIOUS
  <2> SUFFICES ASSUME i < j
               PROVE  /\ \A x \in marked[<<i, j>>] : Late(x)
                      /\ \A b \in 2 .. n : j <= b /\ Next2(b) => c[b].id \in marked[<<i, j>>]
    OBVIOUS
  <2> DEFINE p == <<i, j>>
  <2>1. p \in D /\ p[1] = i /\ p[2] = j /\ i \in Int /\ j \in Int
    BY <1>1
  <2>2. marked[p] = IF i > n \/ j > n THEN {}
                    ELSE IF Duplicate(c[i], c[j])
                         THEN {c[j].id} \cup marked[<<i, j + 1>>]
                         ELSE marked[<<i + 1, i + 2>>]
    BY <1>10, <2>1
  <2>3. CASE i > n \/ j > n
    <3>1. marked[p] = {} /\ j > n
      BY <1>1, <2>1, <2>2, <2>3
    <3>2. \A b \in 2 .. n : ~(j <= b)
      BY <1>1, <2>1, <3>1
    <3> QED
      BY <3>1, <3>2
  <2>4. CASE ~(i > n \/ j > n)
    <3>1. i <= n /\ j <= n /\ i \in 1 .. n /\ j \in 1 .. n
      BY <1>1, <2>1, <2>4
    <3>2. /\ <<i, j + 1>> \in D /\ rank[<<i, j + 1>>] < rank[p]
          /\ <<i + 1, i + 2>> \in D /\ rank[<<i + 1, i + 2>>] < rank[p]
      BY <1>6, <2>1, <3>1
    <3>3. rank[p] \in Nat /\ rank[<<i, j + 1>>] \in Nat /\ rank[<<i + 1, i + 2>>] \in Nat
      <4> HIDE DEF D, rank
      <4> QED
        BY <1>7, <2>1, <3>2
    <3>4. rank[<<i, j + 1>>] < k /\ rank[<<i + 1, i + 2>>] < k
      <4> HIDE DEF D, rank
      <4>1. PICK a, b, d \in Nat :
              a = rank[p] /\ b = rank[<<i, j + 1>>] /\ d = rank[<<i + 1, i + 2>>]
        BY <3>3
      <4>2. b < a /\ d < a
        BY <3>2, <4>1
      <4> QED
        BY <4>1, <4>2
    <3>5. Ok(i, j + 1) /\ Ok(i + 1, i + 2)
      <4>1. /\ j + 1 \in 1 .. n + 2
            /\ i + 1 \in 1 .. n + 1 /\ i + 2 \in 1 .. n + 2
        BY <1>1, <3>1
      <4> HIDE DEF Ok, D, rank
      <4> QED
        BY <1>12, <3>4, <4>1
    <3>6. CASE Duplicate(c[i], c[j])
      <4>1. marked[p] = {c[j].id} \cup marked[<<i, j + 1>>]
        BY <2>2, <2>4, <3>6
      <4>2. Late(c[j].id)
        BY <3>1, <3>6
      <4>3. i < j + 1
        BY <2>1
      <4>4. \A x \in marked[<<i, j + 1>>] : Late(x)
        <5> HIDE DEF Late, Next2
        <5> QED
          BY <3>5, <4>3
      <4>5. \A b \in 2 .. n : j + 1 <= b /\ Next2(b) => c[b].id \in marked[<<i, j + 1>>]
        <5> HIDE DEF Late, Next2
        <5> QED
          BY <3>5, <4>3
      <4> HIDE DEF Late, Next2, p
      <4>6. \A b \in 2 .. n : j <= b => b = j \/ j + 1 <= b
        BY <2>1
      <4>7. \A x \in marked[p] : Late(x)
        BY <4>1, <4>2, <4>4
      <4>8. \A b \in 2 .. n : j <= b /\ Next2(b) => c[b].id \in marked[p]
        BY <4>1, <4>5, <4>6
      <4> QED
        BY <4>7, <4>8 DEF p
    <3>7. CASE ~Duplicate(c[i], c[j])
      <4>1. marked[p] = marked[<<i + 1, i + 2>>]
        BY <2>2, <2>4, <3>7
      <4>2. i + 1 < i + 2
        BY <2>1
      <4>3. \A x \in marked[<<i + 1, i + 2>>] : Late(x)
        <5> HIDE DEF Late, Next2
        <5> QED
          BY <3>5, <4>2
      <4>4. \A b \in 2 .. n : i + 2 <= b /\ Next2(b) => c[b].id \in marked[<<i + 1, i + 2>>]
        <5> HIDE DEF Late, Next2
        <5> QED
          BY <3>5, <4>2
      <4>5. \A b \in 2 .. n : j <= b => i + 2 <= b \/ (b = j /\ b - 1 = i)
        BY <2>1
      <4>6. \A b \in 2 .. n : b = j /\ b - 1 = i => ~Next2(b)
        BY <3>7
      <4> HIDE DEF Late, Next2, p
      <4>7. \A b \in 2 .. n : j <= b /\ Next2(b) => c[b].id \in marked[p]
        BY <4>1, <4>4, <4>5, <4>6
      <4> QED
        BY <4>1, <4>3, <4>7 DEF p
    <3> QED
      BY <3>6, <3>7
  <2> QED
    BY <2>3, <2>4
<1>13. Nat \subseteq P
  <2> HIDE DEF P
  <2> QED
    BY <1>11, <1>12, Induct
<1>14. Ok(1, 2)
  <2>1. <<1, 2>> \in D
    BY <1>1
  <2> HIDE DEF Ok, D, rank
  <2>2. row[1] + n + 2 \in P /\ rank[<<1, 2>>] < row[1] + n + 2
    BY <1>7, <1>13, <2>1
  <2>3. 1 \in 1 .. n + 1 /\ 2 \in 1 .. n + 2
    BY <1>1
  <2> QED
    BY <2>2, <2>3
<1>15. Marks(marked[<<1, 2>>], c, n)
  <2> DEFINE ids == marked[<<1, 2>>]
  <2>1. (\A x \in ids : Late(x)) /\ \A b \in 2 .. n : Next2(b) => c[b].id \in ids
    <3> HIDE DEF Late, Next2
    <3> QED
      BY <1>14
  <2> HIDE DEF ids
  <2>2. Marks(ids, c, n)
    BY <2>1 DEF Marks
  <2> QED
    BY <2>2 DEF ids
<1> QED
  BY <1>2, <1>15 DEF n

\* The opposite of a sign.
LEMMA Opposite ==
  \A z \in Int : (z = 0 => -z = 0) /\ (z = -1 => -z = 1) /\ (z = 1 => -z = -1)
OBVIOUS

\* What the comparison tells of two coordinates.
LEMMA Compared ==
  ASSUME NEW s, NEW t, s.x \in Int, s.y \in Int, t.x \in Int, t.y \in Int
  PROVE  /\ Before(s, t) <=> \/ s.y - t.y > Tolerance
                             \/ Near(s.y, t.y) /\ t.x - s.x > Tolerance
         /\ Duplicate(s, t) <=> Near(s.y, t.y) /\ Near(s.x, t.x)
<1>1. Tolerance \in Nat
  BY ToleranceAssumption
<1> DEFINE a == s.y - t.y
           b == s.x - t.x
<1>2. a \in Int /\ b \in Int /\ t.x - s.x = -b
  OBVIOUS
<1>3. /\ Before(s, t) <=> (LET down == -Sign(a) IN IF down = 0 THEN Sign(b) ELSE down) < 0
      /\ Duplicate(s, t) <=> (LET down == -Sign(a) IN IF down = 0 THEN Sign(b) ELSE down) = 0
  BY DEF Before, Duplicate, compareTo
<1>4. Near(s.y, t.y) <=> Sign(a) = 0
  BY DEF Near
<1>5. Near(s.x, t.x) <=> Sign(b) = 0
  BY DEF Near
<1> HIDE DEF a, b
<1>6. Sign(a) = (IF a > Tolerance THEN 1 ELSE IF a < -Tolerance THEN -1 ELSE 0)
  BY DEF Sign
<1>7. Sign(b) = (IF b > Tolerance THEN 1 ELSE IF b < -Tolerance THEN -1 ELSE 0)
  BY DEF Sign
<1>8. /\ Before(s, t) <=> a > Tolerance \/ (Sign(a) = 0 /\ -b > Tolerance)
      /\ Duplicate(s, t) <=> Sign(a) = 0 /\ Sign(b) = 0
  <2> DEFINE u == Sign(a)
             v == Sign(b)
             d == IF -u = 0 THEN v ELSE -u
  <2>1. (Before(s, t) <=> d < 0) /\ (Duplicate(s, t) <=> d = 0)
    BY <1>3
  <2>2. u = (IF a > Tolerance THEN 1 ELSE IF a < -Tolerance THEN -1 ELSE 0)
    BY <1>6
  <2>3. v = (IF b > Tolerance THEN 1 ELSE IF b < -Tolerance THEN -1 ELSE 0)
    BY <1>7
  <2> HIDE DEF u, v
  <2>4. /\ d < 0 <=> a > Tolerance \/ (u = 0 /\ -b > Tolerance)
        /\ d = 0 <=> u = 0 /\ v = 0
    <3>1. a \in Int /\ b \in Int /\ Tolerance \in Int /\ -Tolerance \in Int /\ -b \in Int
      BY <1>1, <1>2
    <3>2. u \in Int /\ v \in Int
      BY <2>2, <2>3
    <3>3. CASE a > Tolerance
      <4>1. u = 1 /\ d = -1
        BY <2>2, <3>3
      <4> QED
        BY <3>3, <4>1
    <3>4. CASE ~(a > Tolerance) /\ a < -Tolerance
      <4>1. u = -1
        BY <2>2, <3>4
      <4>2. -u = 1
        BY <3>2, <4>1, Opposite, Zenon
      <4>3. u = -1 /\ d = 1
        BY <4>1, <4>2
      <4> QED
        BY <3>4, <4>3
    <3>5. CASE ~(a > Tolerance) /\ ~(a < -Tolerance)
      <4>1. u = 0
        BY <2>2, <3>5
      <4>2. -u = 0
        BY <3>2, <4>1, Opposite, Zenon
      <4>3. u = 0 /\ d = v
        BY <4>1, <4>2
      <4>4. v < 0 <=> -b > Tolerance
        BY <1>1, <2>3, <3>1
      <4> HIDE DEF d
      <4> QED
        BY <3>5, <4>3, <4>4
    <3> QED
      BY <3>3, <3>4, <3>5
  <2> HIDE DEF d
  <2> QED
    BY <2>1, <2>4 DEF u, v
<1> QED
  BY <1>2, <1>4, <1>5, <1>8 DEF a

\* Coordinates, any two the same or well apart.
Classes(a, b, c) ==
  /\ a \in Int /\ b \in Int /\ c \in Int
  /\ Near(a, b) /\ Near(b, c) => Near(a, c)
  /\ Near(b, a) /\ Near(a, c) => Near(b, c)
  /\ Near(a, c) /\ Near(c, b) => Near(a, b)

\* Being near, and being well apart, of three such coordinates.
LEMMA Apart ==
  ASSUME NEW a, NEW b, NEW c, Classes(a, b, c)
  PROVE  /\ Near(a, a) /\ (Near(a, b) <=> Near(b, a))
         /\ a - b > Tolerance <=> ~Near(a, b) /\ ~(b - a > Tolerance)
         /\ Near(a, b) /\ Near(b, c) => Near(a, c)
         /\ a - b > Tolerance /\ b - c > Tolerance => a - c > Tolerance
         /\ a - b > Tolerance /\ Near(b, c) => a - c > Tolerance
         /\ Near(a, b) /\ b - c > Tolerance => a - c > Tolerance
<1>1. Tolerance \in Nat
  BY ToleranceAssumption
<1>2. a \in Int /\ b \in Int /\ c \in Int
  BY DEF Classes
<1>3. \A d, e \in Int : Near(d, e) <=> ~(d - e > Tolerance) /\ ~(e - d > Tolerance)
  BY <1>1 DEF Near, Sign
<1>4. /\ Near(a, b) /\ Near(b, c) => Near(a, c)
      /\ Near(b, a) /\ Near(a, c) => Near(b, c)
      /\ Near(a, c) /\ Near(c, b) => Near(a, b)
  BY DEF Classes
<1> QED
  BY <1>1, <1>2, <1>3, <1>4

\* On a well spaced page the comparison is an order.
LEMMA SpacedOrdering ==
  ASSUME NEW texts, WellSpaced(texts),
         \A t \in ToSet(texts) : t.x \in Int /\ t.y \in Int
  PROVE  Ordering(ToSet(texts))
<1> DEFINE X == ToSet(texts)
<1>1. \A t \in X : t.x \in Int /\ t.y \in Int
  OBVIOUS
<1>2. \A r, s, t \in X :
        /\ Near(r.x, s.x) /\ Near(s.x, t.x) => Near(r.x, t.x)
        /\ Near(r.y, s.y) /\ Near(s.y, t.y) => Near(r.y, t.y)
  BY DEF WellSpaced
<1> HIDE DEF X
<1>3. \A r, s, t \in X : Classes(r.x, s.x, t.x) /\ Classes(r.y, s.y, t.y)
  BY <1>1, <1>2 DEF Classes
<1> DEFINE Far(a, b) == a - b > Tolerance
<1>4. ASSUME NEW r \in X, NEW s \in X
      PROVE  /\ Before(r, s) <=> Far(r.y, s.y) \/ (Near(r.y, s.y) /\ Far(s.x, r.x))
             /\ Duplicate(r, s) <=> Near(r.y, s.y) /\ Near(r.x, s.x)
  BY <1>1, Compared
<1>5. ASSUME NEW r \in X, NEW s \in X, NEW t \in X
      PROVE  /\ Near(r.x, r.x) /\ (Near(r.x, s.x) <=> Near(s.x, r.x))
             /\ Far(r.x, s.x) <=> ~Near(r.x, s.x) /\ ~Far(s.x, r.x)
             /\ Near(r.x, s.x) /\ Near(s.x, t.x) => Near(r.x, t.x)
             /\ Far(r.x, s.x) /\ Far(s.x, t.x) => Far(r.x, t.x)
             /\ Far(r.x, s.x) /\ Near(s.x, t.x) => Far(r.x, t.x)
             /\ Near(r.x, s.x) /\ Far(s.x, t.x) => Far(r.x, t.x)
  BY <1>3, Apart
<1>6. ASSUME NEW r \in X, NEW s \in X, NEW t \in X
      PROVE  /\ Near(r.y, r.y) /\ (Near(r.y, s.y) <=> Near(s.y, r.y))
             /\ Far(r.y, s.y) <=> ~Near(r.y, s.y) /\ ~Far(s.y, r.y)
             /\ Near(r.y, s.y) /\ Near(s.y, t.y) => Near(r.y, t.y)
             /\ Far(r.y, s.y) /\ Far(s.y, t.y) => Far(r.y, t.y)
             /\ Far(r.y, s.y) /\ Near(s.y, t.y) => Far(r.y, t.y)
             /\ Near(r.y, s.y) /\ Far(s.y, t.y) => Far(r.y, t.y)
  BY <1>3, Apart
<1> HIDE DEF Far
<1>7. ASSUME NEW r \in X, NEW s \in X, NEW t \in X
      PROVE  /\ Before(r, s) /\ Before(s, t) => Before(r, t)
             /\ ~(Before(r, s) /\ Before(s, r))
             /\ Duplicate(r, s) <=> ~Before(r, s) /\ ~Before(s, r)
  BY <1>4, <1>5, <1>6
<1>8. ASSUME NEW r \in X, NEW s \in X, NEW t \in X, ~Before(r, s), ~Before(s, t)
      PROVE  ~Before(r, t)
  BY <1>4, <1>5, <1>6, <1>8
<1>9. Ordering(X)
  BY <1>7, <1>8 DEF Ordering
<1> QED
  BY <1>9 DEF X

\* Texts that duplicate each other do so either way round, and each duplicates itself.
LEMMA DuplicateEitherWay ==
  ASSUME NEW s, NEW t, s.x \in Int, s.y \in Int, t.x \in Int, t.y \in Int
  PROVE  Duplicate(s, s) /\ (Duplicate(s, t) <=> Duplicate(t, s))
<1>1. Tolerance \in Nat
  BY ToleranceAssumption
<1>2. \A a, b \in Int : Near(a, a) /\ (Near(a, b) <=> Near(b, a))
  BY <1>1 DEF Near, Sign
<1>3. /\ Duplicate(s, s) <=> Near(s.y, s.y) /\ Near(s.x, s.x)
      /\ Duplicate(s, t) <=> Near(s.y, t.y) /\ Near(s.x, t.x)
      /\ Duplicate(t, s) <=> Near(t.y, s.y) /\ Near(t.x, s.x)
  BY Compared
<1> QED
  BY <1>2, <1>3

\* The texts of a page as parsed: each has its own number, and whole coordinates.
Parsed(texts, X) ==
  /\ Lists(texts, X)
  /\ \A s, t \in X : s.id = t.id => s = t
  /\ \A t \in X : t.x \in Int /\ t.y \in Int

\* What n steps between duplicates in X reach from t.
Chains(steps, X, t, n) ==
  /\ steps[0] = {t}
  /\ \A k \in 1 .. n : steps[k] = {s \in X : \E r \in steps[k - 1] : Duplicate(r, s)}

\* A chain of duplicates is well defined.
LEMMA ChainSteps ==
  ASSUME NEW texts, NEW t, NEW n \in Nat, Len(texts) = n
  PROVE  \E steps : ChainedTo(texts, t) = steps[n] /\ Chains(steps, ToSet(texts), t, n)
<1> DEFINE X == ToSet(texts)
           S == SUBSET (X \cup {t})
           next(R) == {s \in X : \E r \in R : Duplicate(r, s)}
           Def(f) == f = [k \in 0 .. n |-> IF k = 0 THEN {t} ELSE next(f[k - 1])]
           steps == CHOOSE f : Def(f)
           G == [q \in (1 .. n) \X S |-> next(q[2])]
<1>1. ChainedTo(texts, t) = steps[n]
  BY Zenon DEF ChainedTo
<1>2. \A R : next(R) \in S
  OBVIOUS
<1>3. {t} \in S
  OBVIOUS
<1> HIDE DEF X, S, next
<1>4. \E f : Def(f)
  <2>1. G \in [(0 + 1 .. n) \X S -> S]
    BY <1>2
  <2>2. \A k \in 1 .. n, R \in S : G[<<k, R>>] = next(R)
    OBVIOUS
  <2> HIDE DEF G
  <2>3. PICK f \in [0 .. n -> S] : Stepped(f, 0, n, {t}, G)
    BY <1>3, <2>1, Steps
  <2>4. ASSUME NEW k \in 0 .. n, k # 0 PROVE G[<<k, f[k - 1]>>] = next(f[k - 1])
    <3>1. k \in 1 .. n /\ k - 1 \in 0 .. n
      BY <2>4
    <3> QED
      BY <2>2, <3>1
  <2>5. Def(f)
    BY <2>3, <2>4 DEF Stepped
  <2> HIDE DEF Def
  <2> QED
    BY <2>5
<1>5. Def(steps)
  <2> HIDE DEF Def
  <2> QED
    BY <1>4
<1> HIDE DEF steps
<1>6. steps[0] = {t} /\ \A k \in 1 .. n : steps[k] = next(steps[k - 1])
  <2>1. n \in Nat /\ 0 \in 0 .. n /\ \A k \in 1 .. n : k \in 0 .. n /\ k # 0
    OBVIOUS
  <2>2. \A k \in 0 .. n : steps[k] = IF k = 0 THEN {t} ELSE next(steps[k - 1])
    BY <1>5
  <2> QED
    BY <2>1, <2>2
<1> QED
  BY <1>1, <1>6 DEF next, X, Chains

\* Every text not kept duplicates an earlier one.
FromEarlier(c, n, kept) ==
  \A j \in 1 .. n : c[j] \in kept \/ \E i \in 1 .. n : i < j /\ Duplicate(c[i], c[j])

\* From every text a chain of duplicates leads to one that is kept.
LEMMA ChainKept ==
  ASSUME NEW X, NEW texts, Parsed(texts, X), NEW c, Lists(c, X),
         NEW kept \in SUBSET X, FromEarlier(c, Len(c), kept), NEW t \in X
  PROVE  ChainedTo(texts, t) \cap kept # {}
<1> DEFINE n == Len(c)
<1>1. /\ n \in Nat /\ (\A i \in 1 .. n : c[i] \in X)
      /\ \A x \in X : \E i \in 1 .. n : c[i] = x
  BY DEF Lists
<1>2. Lists(texts, X) /\ \A x \in X : x.x \in Int /\ x.y \in Int
  BY DEF Parsed
<1>3. ToSet(texts) = X
  BY <1>2, ListsToSet
<1>4. Len(texts) = n
  <2>1. Cardinality(X) = Len(texts) /\ Cardinality(X) = n
    BY <1>2, ListsLen
  <2> QED
    BY <2>1
<1>5. \A i, j \in 1 .. n : /\ Duplicate(c[i], c[i])
                           /\ Duplicate(c[i], c[j]) <=> Duplicate(c[j], c[i])
  BY <1>1, <1>2, DuplicateEitherWay
<1>6. \A x \in X : Duplicate(x, x)
  BY <1>2, DuplicateEitherWay
<1>7. \A j \in 1 .. n : c[j] \in kept \/ \E i \in 1 .. n : i < j /\ Duplicate(c[i], c[j])
  BY DEF FromEarlier
<1> HIDE DEF n
<1>8. PICK steps : ChainedTo(texts, t) = steps[n] /\ Chains(steps, X, t, n)
  <2>1. \E steps : ChainedTo(texts, t) = steps[n] /\ Chains(steps, ToSet(texts), t, n)
    BY <1>1, <1>4, ChainSteps
  <2> QED
    BY <1>3, <2>1
<1> DEFINE Reached(k) == \/ \E s \in kept : s \in steps[k]
                         \/ \E j \in 1 .. n : j <= n - k /\ c[j] \in steps[k]
           P == {k \in 0 .. n : Reached(k)}
<1>9. 0 \in P
  <2>1. PICK j \in 1 .. n : c[j] = t
    BY <1>1
  <2>2. j <= n - 0 /\ c[j] \in steps[0] /\ 0 \in 0 .. n
    BY <1>1, <1>8, <2>1 DEF Chains
  <2> QED
    BY <2>2
<1>10. ASSUME NEW k \in 1 .. n, k - 1 \in P PROVE k \in P
  <2>1. k \in 0 .. n /\ k \in Int
    BY <1>1
  <2>2. \A s \in X, r \in steps[k - 1] : Duplicate(r, s) => s \in steps[k]
    BY <1>8 DEF Chains
  <2>3. CASE \E s \in kept : s \in steps[k - 1]
    <3>1. PICK s \in kept : s \in steps[k - 1]
      BY <2>3
    <3>2. s \in X /\ Duplicate(s, s)
      BY <1>6
    <3>3. s \in steps[k]
      BY <2>2, <3>1, <3>2
    <3> QED
      BY <2>1, <3>3
  <2>4. CASE \E j \in 1 .. n : j <= n - (k - 1) /\ c[j] \in steps[k - 1]
    <3>1. PICK j \in 1 .. n : j <= n - (k - 1) /\ c[j] \in steps[k - 1]
      BY <2>4
    <3>2. CASE c[j] \in kept
      BY <2>3, <3>1, <3>2
    <3>3. CASE \E i \in 1 .. n : i < j /\ Duplicate(c[i], c[j])
      <4>1. PICK i \in 1 .. n : i < j /\ Duplicate(c[i], c[j])
        BY <3>3
      <4>2. c[i] \in X /\ Duplicate(c[j], c[i])
        BY <1>1, <1>5, <4>1
      <4>3. c[i] \in steps[k]
        BY <2>2, <3>1, <4>2
      <4>4. i <= n - k
        BY <1>1, <2>1, <3>1, <4>1
      <4>5. Reached(k)
        BY <4>3, <4>4
      <4> QED
        BY <2>1, <4>5
    <3> QED
      BY <1>7, <3>2, <3>3
  <2>5. Reached(k - 1)
    BY <1>10
  <2> QED
    BY <2>3, <2>4, <2>5
<1>11. n \in P
  <2> HIDE DEF P
  <2>1. n \in 0 .. n /\ \A k \in 0 + 1 .. n : k - 1 \in P => k \in P
    BY <1>1, <1>10
  <2> QED
    BY <1>1, <1>9, <2>1, InductFrom
<1>12. ~\E j \in 1 .. n : j <= n - n
  BY <1>1
<1>13. \E s \in kept : s \in steps[n]
  BY <1>11, <1>12
<1> QED
  BY <1>8, <1>13

\* Where the comparison is an order and the texts are in it, those left do not
\* duplicate each other.
LEMMA LeftDistinct ==
  ASSUME NEW X, Ordering(X), NEW c, Lists(c, X), InReadingOrder(c),
         \A s, t \in X : s.id = t.id => s = t,
         NEW ids, Marks(ids, c, Len(c)), NEW w, Kept(w, c, Len(c), ids)
  PROVE  \A i, j \in 1 .. Len(w) : i < j => /\ ~Before(w[j], w[i])
                                            /\ ~Duplicate(w[i], w[j])
<1> DEFINE n == Len(c)
<1>1. n \in Nat /\ DOMAIN c = 1 .. n /\ \A i \in 1 .. n : c[i] \in X
  BY DEF Lists
<1>2. \A a, b \in 1 .. n : a < b => ~Before(c[b], c[a])
  BY <1>1 DEF InReadingOrder
<1>3. SUFFICES ASSUME NEW i \in 1 .. Len(w), NEW j \in 1 .. Len(w), i < j
               PROVE  ~Before(w[j], w[i]) /\ ~Duplicate(w[i], w[j])
  OBVIOUS
<1>4. PICK a \in 1 .. n, b \in 1 .. n : a < b /\ w[i] = c[a] /\ w[j] = c[b]
  BY <1>3 DEF Kept
<1>5. PICK b2 \in 1 .. n : w[j] = c[b2] /\ c[b2].id \notin ids
  BY DEF Kept
<1>6. c[b].id \notin ids
  BY <1>4, <1>5
<1>7. ASSUME Duplicate(c[a], c[b]) PROVE FALSE
  <2>1. b \in 2 .. n /\ b - 1 \in 1 .. n /\ a <= b - 1 /\ b - 1 < b
    BY <1>1, <1>4
  <2>2. ~Before(c[b], c[b - 1])
    BY <1>2, <2>1
  <2>3. c[a] \in X /\ c[b] \in X /\ c[b - 1] \in X
    BY <1>1, <2>1
  <2>4. ~Before(c[a], c[b])
    BY <1>7, <2>3 DEF Ordering
  <2>5. ~Before(c[b - 1], c[b])
    <3>1. CASE a = b - 1
      BY <2>4, <3>1
    <3>2. CASE a # b - 1
      <4>1. a < b - 1
        BY <1>1, <2>1, <3>2
      <4>2. ~Before(c[b - 1], c[a])
        BY <1>2, <2>1, <4>1
      <4> QED
        BY <2>3, <2>4, <4>2 DEF Ordering
    <3> QED
      BY <3>1, <3>2
  <2>6. Duplicate(c[b - 1], c[b])
    BY <2>2, <2>3, <2>5 DEF Ordering
  <2> QED
    BY <1>6, <2>1, <2>6 DEF Marks
<1> QED
  BY <1>2, <1>4, <1>7

\* What preparing a page leaves of it.
LEMMA PreparedDropped ==
  ASSUME NEW X, NEW texts, Parsed(texts, X)
  PROVE  /\ \A t \in X : ChainedTo(texts, t) \cap ToSet(prepared(texts)) # {}
         /\ WellSpaced(texts) =>
              /\ InReadingOrder(prepared(texts))
              /\ \A i, j \in DOMAIN prepared(texts) :
                   i # j => ~Duplicate(prepared(texts)[i], prepared(texts)[j])
<1> DEFINE c == Sorted(texts)
           w == prepared(texts)
           n == Len(c)
<1>1. /\ Lists(texts, X) /\ (\A t \in X : t.x \in Int /\ t.y \in Int)
      /\ \A s, t \in X : s.id = t.id => s = t
  BY DEF Parsed
<1>2. Lists(c, X) /\ (Ordering(X) => InReadingOrder(c)) /\ ToSet(texts) = X
  BY <1>1, SortedLists, ListsToSet
<1>3. /\ c \in Seq(X) /\ n \in Nat /\ (\A i \in 1 .. n : c[i] \in X)
      /\ \A i, j \in 1 .. n : c[i] = c[j] => i = j
  BY <1>2 DEF Lists
<1> HIDE DEF c
<1>4. PICK ids : removeDuplicates(c) = Without(c, ids) /\ Marks(ids, c, n)
  BY <1>3, DuplicatesMarked
<1>5. w = Without(c, ids)
  BY <1>4 DEF prepared, c
<1> HIDE DEF w
<1>6. w \in Seq(X) /\ Kept(w, c, n, ids)
  BY <1>3, <1>5, WithoutKept
<1>7. Len(w) \in Nat /\ DOMAIN w = 1 .. Len(w) /\ (\A i \in 1 .. Len(w) : w[i] \in X)
  BY <1>6
<1>8. ToSet(w) = {w[i] : i \in 1 .. Len(w)} /\ ToSet(w) \in SUBSET X
  BY <1>7 DEF ToSet
<1>9. ASSUME NEW j \in 1 .. n
      PROVE  c[j] \in ToSet(w) \/ \E i \in 1 .. n : i < j /\ Duplicate(c[i], c[j])
  <2>1. CASE c[j].id \notin ids
    <3>1. PICK i \in 1 .. Len(w) : w[i] = c[j]
      BY <1>6, <2>1 DEF Kept
    <3> QED
      BY <1>8, <3>1
  <2>2. CASE c[j].id \in ids
    <3>1. PICK a \in 1 .. n, b \in 1 .. n : a < b /\ Duplicate(c[a], c[b]) /\ c[j].id = c[b].id
      BY <1>4, <2>2 DEF Marks
    <3>2. c[j] = c[b]
      BY <1>1, <1>3, <3>1
    <3>3. b = j
      BY <1>3, <3>2
    <3> QED
      BY <3>1, <3>3
  <2> QED
    BY <2>1, <2>2
<1>10. FromEarlier(c, Len(c), ToSet(w))
  BY <1>9 DEF FromEarlier
<1>11. \A t \in X : ChainedTo(texts, t) \cap ToSet(w) # {}
  BY <1>2, <1>8, <1>10, ChainKept
<1>12. ASSUME WellSpaced(texts)
       PROVE  /\ InReadingOrder(w)
              /\ \A i, j \in DOMAIN w : i # j => ~Duplicate(w[i], w[j])
  <2>1. Ordering(X)
    BY <1>1, <1>2, <1>12, SpacedOrdering
  <2>2. \A i, j \in 1 .. Len(w) : i < j => ~Before(w[j], w[i]) /\ ~Duplicate(w[i], w[j])
    BY <1>1, <1>2, <1>4, <1>6, <2>1, LeftDistinct
  <2>3. \A i, j \in 1 .. Len(w) : Duplicate(w[i], w[j]) <=> Duplicate(w[j], w[i])
    BY <1>1, <1>7, DuplicateEitherWay
  <2>4. \A i, j \in 1 .. Len(w) : i # j => i < j \/ j < i
    BY <1>7
  <2> QED
    BY <1>7, <2>2, <2>3, <2>4 DEF InReadingOrder
<1> QED
  BY <1>11, <1>12 DEF w

\* The texts of a page as they are parsed.
LEMMA TextsParsed ==
  ASSUME NEW positions \in PageInputs
  PROVE  Parsed(Texts(positions), ToSet(Texts(positions)))
<1> DEFINE c == Texts(positions)
           X == {c[i] : i \in DOMAIN positions}
<1>1. positions \in Seq(Int \X Int)
  BY LayoutsAssumption DEF PageInputs
<1>2. PICK n \in Nat : positions \in [1 .. n -> Int \X Int]
  <2>1. Len(positions) \in Nat /\ positions \in [1 .. Len(positions) -> Int \X Int]
    BY <1>1
  <2> QED
    BY <2>1
<1>3. /\ c = [i \in 1 .. n |-> c[i]]
      /\ \A i \in 1 .. n : /\ c[i].id = i /\ c[i] \in X
                           /\ c[i].x \in Int /\ c[i].y \in Int
  BY <1>2 DEF Texts
<1>4. \A x \in X : \E i \in 1 .. n : c[i] = x
  BY <1>2
<1> HIDE DEF c, X
<1>5. c \in [1 .. n -> X]
  BY <1>3, Zenon
<1>6. c \in Seq(X) /\ Len(c) = n
  BY <1>5, FunctionSeq
<1>7. \A i, j \in 1 .. n : c[i] = c[j] => i = j
  BY <1>3
<1>8. Lists(c, X)
  BY <1>4, <1>6, <1>7 DEF Lists
<1>9. ToSet(c) = X
  BY <1>8, ListsToSet
<1>10. Parsed(c, X)
  BY <1>3, <1>4, <1>8 DEF Parsed
<1> QED
  BY <1>9, <1>10 DEF c

\* Only preparing a page prepares one.
LEMMA StepDropped == ASSUME DuplicatesDropped, [Next]_vars PROVE DuplicatesDropped'
<1>1. ASSUME stage' # "prepared" PROVE DuplicatesDropped'
  BY <1>1 DEF DuplicatesDropped
<1>2. ASSUME NEW n \in 0 .. MaxPages, Open(n) PROVE DuplicatesDropped'
  BY <1>1, <1>2 DEF Open
<1>3. ASSUME Abort PROVE DuplicatesDropped'
  BY <1>1, <1>3 DEF Abort
<1>4. ASSUME NEW positions \in PageInputs, PreparePage(positions) PROVE DuplicatesDropped'
  <2>1. original' = Texts(positions) /\ content' = prepared(original')
    BY <1>4 DEF PreparePage
  <2>2. Parsed(original', ToSet(original'))
    BY <2>1, TextsParsed
  <2>3. /\ \A t \in ToSet(original') : ChainedTo(original', t) \cap ToSet(content') # {}
        /\ WellSpaced(original') =>
             /\ InReadingOrder(content')
             /\ \A i, j \in DOMAIN content' : i # j => ~Duplicate(content'[i], content'[j])
    BY <2>1, <2>2, PreparedDropped
  <2> QED
    BY <2>3 DEF DuplicatesDropped
<1>5. ASSUME NEW tree \in Trees(Len(content)), Cluster(tree) PROVE DuplicatesDropped'
  BY <1>1, <1>5 DEF Cluster
<1>6. ASSUME NEW n \in 1 .. OldTexts, NEW tree \in Trees(n), ClusterFails(tree)
      PROVE  DuplicatesDropped'
  BY <1>1, <1>6 DEF ClusterFails
<1>7. ASSUME Serialize PROVE DuplicatesDropped'
  BY <1>1, <1>3, <1>7 DEF Serialize
<1>8. ASSUME WritePage \/ Close \/ Finish \/ Rerun PROVE DuplicatesDropped'
  BY <1>1, <1>8 DEF WritePage, Close, Finish, Rerun
<1>9. CASE UNCHANGED vars
  BY <1>9 DEF vars, document, DuplicatesDropped
<1> QED
  BY <1>2, <1>3, <1>4, <1>5, <1>6, <1>7, <1>8, <1>9 DEF Next, OpenFails, PrepareFails, Kill

\* A text is dropped as a duplicate only if a chain of duplicates leads to one that stays,
\* for pages of any length; on a well spaced page exactly one of each class stays, in
\* reading order (Page.sortTextAndRemoveDuplicateContent).
THEOREM OnlyDuplicatesDropped == Spec => []DuplicatesDropped
<1>1. Init => DuplicatesDropped
  BY DEF Init, DuplicatesDropped
<1>2. DuplicatesDropped /\ [Next]_vars => DuplicatesDropped'
  BY StepDropped
<1> QED
  BY <1>1, <1>2, PTL DEF Spec

-----------------------------------------------------------------------------
\* Two texts belong together.
Together(tree, texts, s, t) ==
  \/ s = t
  \/ \E h \in 1 .. Len(tree) : Closed(tree)[h] /\ {s, t} \subseteq TextsOf(tree, texts, Node(h))

\* The texts of c are in blocks, counted by b, of those that belong together; o[i] is the
\* place of c[i] in its own.
Settled(c, b, o, tree, texts) ==
  /\ Len(c) \in Nat /\ DOMAIN c = 1 .. Len(c)
  /\ \A i \in 1 .. Len(c) : b[i] \in Nat
  /\ \A i, j \in 1 .. Len(c) : i < j => b[i] <= b[j]
  /\ \A i, j \in 1 .. Len(c) : Together(tree, texts, c[i], c[j]) <=> b[i] = b[j]
  /\ \A i \in 1 .. Len(c) : o[i] # 1 => i > 1 /\ b[i - 1] = b[i]

\* Within a block, and from the first of one to the first of another, texts are in order.
InBlockOrder(c, b, o) ==
  \A i, j \in 1 .. Len(c) :
    i < j /\ (b[i] = b[j] \/ (o[i] = 1 /\ o[j] = 1)) => Before(c[i], c[j])

\* So is the final order of groups that are those of a tree.
LEMMA SerializeSettles ==
  ASSUME NEW Y, NEW gs, Groups(gs, Y), NEW tree, NEW texts, Gathered(gs, tree, texts)
  PROVE  \E b, o : /\ Settled(serialize(gs), b, o, tree, texts)
                   /\ Strict(Y) => InBlockOrder(serialize(gs), b, o)
<1> DEFINE n == Len(gs)
           c == serialize(gs)
           T(h) == TextsOf(tree, texts, Node(h))
<1>1. PICK hs, at : /\ c = FlattenSeq(hs)
                    /\ Reordered(hs, gs, n, at)
                    /\ Strict(Y) => Ranked(hs, n)
  BY SerializeGroups
<1>2. Groups(hs, Y)
  BY <1>1, GroupsReordered
<1>3. n \in Nat /\ Len(hs) = n /\ hs \in Seq(Seq(Y))
  <2>1. n \in Nat /\ hs \in Seq(Seq(Y)) /\ Len(hs) \in Nat
    BY <1>2, GroupsWithin
  <2>2. hs = [i \in 1 .. n |-> hs[i]]
    BY <1>1 DEF Reordered
  <2>3. DOMAIN hs = 1 .. n
    BY <2>2
  <2>4. DOMAIN hs = 1 .. Len(hs)
    BY <2>1
  <2> QED
    BY <2>1, <2>3, <2>4
<1>4. PICK b, o : Blocks(c, hs, n, b, o)
  BY <1>1, <1>2, <1>3, FlattenBlocks
<1> HIDE DEF c, n, T
<1>5. /\ \A i \in 1 .. Len(c) : /\ b[i] \in 1 .. n
                                /\ o[i] \in 1 .. Len(hs[b[i]])
                                /\ c[i] = hs[b[i]][o[i]]
      /\ \A i, j \in 1 .. Len(c) : i < j => b[i] < b[j] \/ (b[i] = b[j] /\ o[i] < o[j])
      /\ \A i \in 1 .. Len(c) : o[i] # 1 => i > 1 /\ b[i - 1] = b[i]
  BY <1>4 DEF Blocks
<1>6. /\ at \in [1 .. n -> 1 .. n]
      /\ \A g \in 1 .. n : \E k \in 1 .. n : at[k] = g
      /\ \A k \in 1 .. n : Lists(hs[k], ToSet(gs[at[k]]))
  BY <1>1, Zenon DEF Reordered
<1>7. \A k \in 1 .. n : ToSet(hs[k]) = ToSet(gs[at[k]]) /\ Lists(hs[k], ToSet(hs[k]))
  BY <1>6, ListsToSet
<1>8. \A k, l \in 1 .. n : k # l => ToSet(hs[k]) \cap ToSet(hs[l]) = {}
  BY <1>2, <1>3 DEF Groups
<1>9. \A i \in 1 .. Len(c) : c[i] \in ToSet(hs[b[i]])
  BY <1>5, <1>7, Listed
<1>10. \A i \in 1 .. Len(c), k \in 1 .. n : c[i] \in ToSet(hs[k]) => b[i] = k
  BY <1>5, <1>8, <1>9
<1>11. /\ \A k \in 1 .. n :
            \/ \E x : ToSet(hs[k]) = {x}
            \/ \E h \in 1 .. Len(tree) : Closed(tree)[h] /\ ToSet(hs[k]) = T(h)
       /\ \A h \in 1 .. Len(tree) : Closed(tree)[h] =>
            \E k \in 1 .. n : T(h) \subseteq ToSet(hs[k])
  <2>1. /\ \A p \in Sets(gs) : \/ \E x : p = {x}
                               \/ \E h \in 1 .. Len(tree) : Closed(tree)[h] /\ p = T(h)
        /\ \A h \in 1 .. Len(tree) : Closed(tree)[h] => \E p \in Sets(gs) : T(h) \subseteq p
    BY Zenon DEF Gathered, T
  <2>2. \A k \in 1 .. n : ToSet(hs[k]) \in Sets(gs)
    BY <1>6, <1>7 DEF Sets, n
  <2>3. \A p \in Sets(gs) : \E k \in 1 .. n : p = ToSet(hs[k])
    <3> TAKE p \in Sets(gs)
    <3>1. PICK g \in 1 .. n : p = ToSet(gs[g])
      BY DEF Sets, n
    <3>2. PICK k \in 1 .. n : at[k] = g
      BY <1>6
    <3> QED
      BY <1>7, <3>1, <3>2
  <2>4. ASSUME NEW h \in 1 .. Len(tree), Closed(tree)[h]
        PROVE  \E k \in 1 .. n : T(h) \subseteq ToSet(hs[k])
    <3>1. PICK p \in Sets(gs) : T(h) \subseteq p
      BY <2>1, <2>4
    <3> QED
      BY <2>3, <3>1
  <2> QED
    BY <2>1, <2>2, <2>4
<1>12. ASSUME NEW i \in 1 .. Len(c), NEW j \in 1 .. Len(c)
       PROVE  Together(tree, texts, c[i], c[j]) <=> b[i] = b[j]
  <2>1. ASSUME b[i] = b[j] PROVE Together(tree, texts, c[i], c[j])
    <3>1. /\ b[i] \in 1 .. n
          /\ c[i] \in ToSet(hs[b[i]]) /\ c[j] \in ToSet(hs[b[i]])
      BY <1>5, <1>9, <2>1
    <3>2. CASE \E x : ToSet(hs[b[i]]) = {x}
      BY <3>1, <3>2 DEF Together
    <3>3. CASE \E h \in 1 .. Len(tree) : Closed(tree)[h] /\ ToSet(hs[b[i]]) = T(h)
      BY <3>1, <3>3 DEF Together, T
    <3> QED
      BY <1>11, <3>1, <3>2, <3>3
  <2>2. CASE c[i] = c[j]
    <3>1. b[j] \in 1 .. n /\ c[i] \in ToSet(hs[b[j]])
      BY <1>5, <1>9, <2>2
    <3>2. b[i] = b[j]
      BY <1>10, <3>1
    <3> QED
      BY <2>1, <3>2
  <2>3. ASSUME NEW h \in 1 .. Len(tree), Closed(tree)[h], {c[i], c[j]} \subseteq T(h)
        PROVE  b[i] = b[j]
    <3>1. PICK k \in 1 .. n : T(h) \subseteq ToSet(hs[k])
      BY <1>11, <2>3
    <3>2. c[i] \in ToSet(hs[k]) /\ c[j] \in ToSet(hs[k])
      BY <2>3, <3>1
    <3> QED
      BY <1>10, <3>2
  <2>4. CASE c[i] # c[j] /\ Together(tree, texts, c[i], c[j])
    <3>1. \E h \in 1 .. Len(tree) : Closed(tree)[h] /\ {c[i], c[j]} \subseteq T(h)
      BY <2>4, Zenon DEF Together, T
    <3> QED
      BY <2>3, <2>4, <3>1
  <2> QED
    BY <2>1, <2>2, <2>4
<1>13. \A i, j \in 1 .. Len(c) : i < j => b[i] <= b[j]
  BY <1>5
<1>14. Len(c) \in Nat /\ DOMAIN c = 1 .. Len(c)
  BY SerializeLists, Listed DEF c
<1>15. Settled(c, b, o, tree, texts)
  BY <1>5, <1>12, <1>13, <1>14 DEF Settled
<1>16. ASSUME Strict(Y) PROVE InBlockOrder(c, b, o)
  <2>1. /\ \A k \in 1 .. n : InReadingOrder(hs[k])
        /\ \A k, l \in 1 .. n : k < l => Before(hs[k][1], hs[l][1])
    BY <1>1, <1>16 DEF Ranked
  <2> SUFFICES ASSUME NEW i \in 1 .. Len(c), NEW j \in 1 .. Len(c), i < j,
                      b[i] = b[j] \/ (o[i] = 1 /\ o[j] = 1)
               PROVE  Before(c[i], c[j])
    BY DEF InBlockOrder
  <2>2. CASE b[i] = b[j]
    <3> DEFINE k == b[i]
               s == hs[k]
    <3>1. /\ k \in 1 .. n /\ o[i] \in 1 .. Len(s) /\ o[j] \in 1 .. Len(s) /\ o[i] < o[j]
          /\ c[i] = s[o[i]] /\ c[j] = s[o[j]]
      BY <1>5, <2>2
    <3>2. Lists(s, ToSet(s)) /\ InReadingOrder(s) /\ ToSet(s) \subseteq Y
      <4>1. s \in Seq(Y)
        BY <1>2, <1>3, <3>1, GroupsWithin
      <4> QED
        BY <1>7, <2>1, <3>1, <4>1, ToSetWithin
    <3> HIDE DEF s
    <3>3. /\ DOMAIN s = 1 .. Len(s) /\ \A a \in 1 .. Len(s) : s[a] \in Y
          /\ \A a, d \in 1 .. Len(s) : s[a] = s[d] => a = d
      <4>1. \A a, d \in 1 .. Len(s) : s[a] = s[d] => a = d
        BY <3>2 DEF Lists
      <4> QED
        BY <3>2, <4>1, Listed
    <3>4. ~Before(s[o[j]], s[o[i]])
      BY <3>1, <3>2, <3>3 DEF InReadingOrder
    <3>5. s[o[i]] # s[o[j]] /\ s[o[i]] \in Y /\ s[o[j]] \in Y
      <4>1. o[i] # o[j]
        BY <3>1
      <4> QED
        BY <3>1, <3>3, <4>1
    <3> QED
      BY <1>16, <3>1, <3>4, <3>5 DEF Strict
  <2>3. CASE b[i] # b[j] /\ o[i] = 1 /\ o[j] = 1
    <3>1. b[i] < b[j] /\ b[i] \in 1 .. n /\ b[j] \in 1 .. n
      BY <1>5, <2>3
    <3>2. Before(hs[b[i]][1], hs[b[j]][1])
      BY <2>1, <3>1
    <3> QED
      BY <1>5, <2>3, <3>2
  <2> QED
    BY <2>2, <2>3
<1> QED
  BY <1>15, <1>16 DEF c

\* A prepared page has no text twice, and none that was not on the page.
LEMMA PreparedLists ==
  ASSUME NEW X, NEW texts, Parsed(texts, X)
  PROVE  /\ Lists(prepared(texts), ToSet(prepared(texts)))
         /\ ToSet(prepared(texts)) \subseteq X
<1>1. Lists(texts, X)
  BY DEF Parsed
<1>2. Lists(Sorted(texts), X)
  BY <1>1, SortedLists
<1>3. PICK ids : removeDuplicates(Sorted(texts)) = Without(Sorted(texts), ids)
  BY Zenon DEF removeDuplicates
<1>4. prepared(texts) = Without(Sorted(texts), ids)
  BY <1>3 DEF prepared
<1>5. \E Y : Lists(Without(Sorted(texts), ids), Y)
  BY <1>2, WithoutLists, Zenon
<1>6. Sorted(texts) \in Seq(X)
  BY <1>2 DEF Lists
<1>7. prepared(texts) \in Seq(X)
  BY <1>4, <1>6, WithoutKept
<1> QED
  BY <1>4, <1>5, <1>7, ListsToSet, ToSetWithin

\* On a well spaced page the comparison is a strict order of what is left.
LEMMA PreparedStrict ==
  ASSUME NEW texts, Parsed(texts, ToSet(texts)), WellSpaced(texts)
  PROVE  Strict(ToSet(prepared(texts)))
<1> DEFINE X == ToSet(texts)
           w == prepared(texts)
<1>1. Ordering(X)
  BY SpacedOrdering DEF Parsed
<1>2. Lists(w, ToSet(w)) /\ ToSet(w) \subseteq X
  BY PreparedLists
<1>3. \A i, j \in DOMAIN w : i # j => ~Duplicate(w[i], w[j])
  BY PreparedDropped
<1> HIDE DEF X, w
<1>4. ASSUME NEW s \in ToSet(w), NEW t \in ToSet(w), s # t
      PROVE  Before(s, t) \/ Before(t, s)
  <2>1. PICK i \in 1 .. Len(w), j \in 1 .. Len(w) : w[i] = s /\ w[j] = t
    BY <1>2, Listed
  <2>2. DOMAIN w = 1 .. Len(w) /\ i # j
    BY <1>2, <1>4, <2>1, Listed
  <2>3. ~Duplicate(s, t)
    BY <1>3, <2>1, <2>2
  <2>4. s \in X /\ t \in X
    BY <1>2
  <2> QED
    BY <1>1, <2>3, <2>4 DEF Ordering
<1>5. Ordering(ToSet(w))
  BY <1>1, <1>2 DEF Ordering
<1>6. Strict(ToSet(w))
  BY <1>4, <1>5 DEF Strict
<1> QED
  BY <1>6 DEF w

\* In the final order the texts of a group stand together, in order if they have one.
LEMMA SerializedSettles ==
  ASSUME NEW kept, Lists(kept, ToSet(kept)), NEW tree, tree \in Trees(Len(tree) + 1),
         Len(tree) \in Nat, Readable(tree, kept), Len(kept) = Len(tree) + 1
  PROVE  \E b, o : LET final == serialize(parseGTR(tree, kept))
                   IN  /\ Settled(final, b, o, tree, kept)
                       /\ Strict(ToSet(kept)) => InBlockOrder(final, b, o)
<1> DEFINE n == Len(tree) + 1
           X == ToSet(kept)
           final == serialize(parseGTR(tree, kept))
<1>1. n \in Nat /\ Len(tree) = n - 1 /\ Len(kept) \in Nat /\ n <= Len(kept) /\ Lists(kept, X)
  OBVIOUS
<1>2. Forest(tree, n)
  BY <1>1, TreesForest
<1>3. n > 1
  <2>1. tree # <<>> /\ tree \in Seq(Join)
    BY <1>2 DEF Readable, Forest
  <2>2. Len(tree) # 0
    BY <2>1
  <2> QED
    BY <1>1, <2>2
<1> HIDE DEF n
<1>4. CASE Closed(tree)[Len(tree)]
  <2>1. Groups(parseGTR(tree, kept), {})
    BY <1>1, <1>2, <1>3, <1>4, ParseGroups
  <2>2. Lists(final, {})
    BY <2>1, SerializeLists
  <2>3. Len(final) \in Nat /\ DOMAIN final = 1 .. Len(final) /\ \A i \in 1 .. Len(final) : FALSE
    BY <2>2, Listed
  <2> HIDE DEF final
  <2>4. Settled(final, <<>>, <<>>, tree, kept) /\ InBlockOrder(final, <<>>, <<>>)
    BY <2>3 DEF Settled, InBlockOrder
  <2> QED
    BY <2>4 DEF final
<1>5. CASE ~Closed(tree)[Len(tree)]
  <2>1. Gathered(parseGTR(tree, kept), tree, kept)
    BY <1>1, <1>2, <1>3, <1>5, ParseGathers
  <2>2. Groups(parseGTR(tree, kept), First(kept, n))
    BY <1>1, <1>2, <1>3, <1>5, ParseGroups
  <2>3. First(kept, n) = X
    BY <1>1, FirstAll DEF n
  <2> QED
    BY <2>1, <2>2, <2>3, SerializeSettles
<1> QED
  BY <1>4, <1>5

\* What GroupsInOrder says of the final order c of the texts left on a page.
Grouped(c, texts, tree) ==
  LET kept == prepared(texts)
      together(s, t) ==
        \/ s = t
        \/ \E h \in DOMAIN tree :
             /\ Closed(tree)[h]
             /\ {s, t} \subseteq {kept[i + 1] : i \in Leaves(tree)[h]}
      first(i) == i = 1 \/ ~together(c[i - 1], c[i])
  IN  /\ \A i, j, k \in DOMAIN c :
           i < j /\ j < k /\ together(c[i], c[k]) => together(c[i], c[j])
      /\ WellSpaced(texts) =>
           \A i, j \in DOMAIN c :
             /\ i < j
             /\ together(c[i], c[j]) \/ (first(i) /\ first(j))
             => Before(c[i], c[j])

\* Settled texts are grouped.
LEMMA SettledGrouped ==
  ASSUME NEW n \in Nat, NEW tree, Forest(tree, n), NEW c, NEW b, NEW o, NEW texts,
         Settled(c, b, o, tree, prepared(texts)), WellSpaced(texts) => InBlockOrder(c, b, o)
  PROVE  Grouped(c, texts, tree)
<1> DEFINE kept == prepared(texts)
           together(s, t) ==
             \/ s = t
             \/ \E h \in DOMAIN tree :
                  /\ Closed(tree)[h]
                  /\ {s, t} \subseteq {kept[i + 1] : i \in Leaves(tree)[h]}
           first(i) == i = 1 \/ ~together(c[i - 1], c[i])
           m == Len(c)
<1> HIDE DEF kept
<1>1. \A s, t : together(s, t) <=> Together(tree, kept, s, t)
  <2>1. \A h : TextsOf(tree, kept, Node(h)) = {kept[i + 1] : i \in Leaves(tree)[h]}
    BY TextsOfNode
  <2>2. DOMAIN tree = 1 .. Len(tree)
    BY DEF Forest
  <2> QED
    BY <2>1, <2>2 DEF Together
<1>2. /\ m \in Nat /\ DOMAIN c = 1 .. m
      /\ \A i \in 1 .. m : b[i] \in Nat
      /\ \A i, j \in 1 .. m : i < j => b[i] <= b[j]
      /\ \A i, j \in 1 .. m : Together(tree, kept, c[i], c[j]) <=> b[i] = b[j]
      /\ \A i \in 1 .. m : o[i] # 1 => i > 1 /\ b[i - 1] = b[i]
  BY DEF Settled, kept
<1> HIDE DEF together, m
<1>3. \A i, j \in 1 .. m : together(c[i], c[j]) <=> b[i] = b[j]
  BY <1>1, <1>2
<1>4. ASSUME NEW i \in 1 .. m, NEW j \in 1 .. m, NEW k \in 1 .. m,
             i < j, j < k, together(c[i], c[k])
      PROVE  together(c[i], c[j])
  <2>1. b[i] \in Nat /\ b[j] \in Nat /\ b[i] <= b[j] /\ b[j] <= b[k] /\ b[i] = b[k]
    BY <1>2, <1>3, <1>4
  <2>2. b[i] = b[j]
    BY <2>1
  <2> QED
    BY <1>3, <2>2
<1>5. ASSUME NEW i \in 1 .. m, first(i) PROVE o[i] = 1
  <2>1. CASE i > 1 /\ b[i - 1] = b[i]
    <3>1. i - 1 \in 1 .. m /\ i # 1
      BY <1>2, <2>1
    <3>2. together(c[i - 1], c[i])
      BY <1>3, <2>1, <3>1
    <3> QED
      BY <1>5, <3>1, <3>2
  <2> QED
    BY <1>2, <2>1
<1>6. ASSUME WellSpaced(texts), NEW i \in 1 .. m, NEW j \in 1 .. m, i < j,
             together(c[i], c[j]) \/ (first(i) /\ first(j))
      PROVE  Before(c[i], c[j])
  <2>1. b[i] = b[j] \/ (o[i] = 1 /\ o[j] = 1)
    BY <1>3, <1>5, <1>6
  <2>2. InBlockOrder(c, b, o)
    BY <1>6
  <2> QED
    BY <1>6, <2>1, <2>2 DEF InBlockOrder, m
<1>7. /\ \A i, j, k \in DOMAIN c :
           i < j /\ j < k /\ together(c[i], c[k]) => together(c[i], c[j])
      /\ WellSpaced(texts) =>
           \A i, j \in DOMAIN c :
             /\ i < j
             /\ together(c[i], c[j]) \/ (first(i) /\ first(j))
             => Before(c[i], c[j])
  BY <1>2, <1>4, <1>6
<1> HIDE DEF first
<1> QED
  BY <1>7, Zenon DEF Grouped, together, kept, first

\* The page at hand is one as parsed; the tree is one the cluster program can have
\* written, for the texts left of it if it is fresh.
Arranged ==
  /\ stage \in {"prepared", "tree", "serialized"} => Parsed(original, ToSet(original))
  /\ stage \in {"prepared", "tree"} => content = prepared(original)
  /\ stage = "tree" => /\ gtr \in Trees(Len(gtr) + 1) /\ Len(gtr) \in Nat
                       /\ fresh => Len(content) = Len(gtr) + 1

\* The inductive invariant for the texts of a page.
PageInv == Arranged /\ PageWhole

\* What the final order has of the texts before.
LEMMA SerializedWhole ==
  ASSUME NEW kept, Lists(kept, ToSet(kept)), NEW tree, tree \in Trees(Len(tree) + 1),
         Len(tree) \in Nat, Readable(tree, kept)
  PROVE  LET final == serialize(parseGTR(tree, kept))
         IN  /\ Cardinality(ToSet(final)) = Len(final)
             /\ ToSet(final) \subseteq ToSet(kept)
             /\ Len(kept) = Len(tree) + 1 =>
                  ToSet(final) = IF Closed(tree)[Len(tree)] THEN {} ELSE ToSet(kept)
<1> DEFINE n == Len(tree) + 1
           X == ToSet(kept)
           Z == IF Closed(tree)[Len(tree)] THEN {} ELSE First(kept, n)
           final == serialize(parseGTR(tree, kept))
<1>1. n \in Nat /\ Len(tree) = n - 1 /\ Len(kept) \in Nat /\ kept \in Seq(X)
  BY DEF Lists
<1>2. Forest(tree, n)
  BY <1>1, TreesForest
<1>3. n > 1
  <2>1. tree # <<>> /\ tree \in Seq(Join)
    BY <1>2 DEF Readable, Forest
  <2>2. Len(tree) # 0
    BY <2>1
  <2> QED
    BY <1>1, <2>2
<1> HIDE DEF n, X
<1>4. n <= Len(kept)
  BY <1>1, <1>2, <1>3, LeavesRead
<1>5. Lists(kept, X)
  BY DEF X
<1>6. Groups(parseGTR(tree, kept), Z)
  BY <1>1, <1>2, <1>3, <1>4, <1>5, ParseGroups
<1> HIDE DEF Z
<1>7. Lists(final, Z)
  BY <1>6, SerializeLists
<1> HIDE DEF final
<1>8. ToSet(final) = Z /\ Cardinality(Z) = Len(final)
  BY <1>7, ListsToSet, ListsLen
<1>9. First(kept, n) \subseteq X
  BY <1>1, <1>4 DEF First
<1>10. Z \subseteq X
  BY <1>9 DEF Z
<1>11. First(kept, Len(kept)) = X
  BY <1>5, FirstAll
<1>12. Len(kept) = n => Z = IF Closed(tree)[Len(tree)] THEN {} ELSE X
  BY <1>11 DEF Z
<1> QED
  BY <1>8, <1>10, <1>12 DEF n, X, final

\* Nothing is at hand at the start.
LEMMA InitPage == ASSUME Init PROVE PageInv
  BY DEF Init, PageInv, Arranged, PageWhole

\* Every step keeps the texts of the page whole.
LEMMA StepPage == ASSUME PageInv, [Next]_vars PROVE PageInv'
<1>1. ASSUME stage' \notin {"prepared", "tree", "serialized"} PROVE PageInv'
  BY <1>1 DEF PageInv, Arranged, PageWhole
<1>2. ASSUME NEW n \in 0 .. MaxPages, Open(n) PROVE PageInv'
  BY <1>1, <1>2 DEF Open
<1>3. ASSUME Abort PROVE PageInv'
  BY <1>1, <1>3 DEF Abort
<1>4. ASSUME NEW positions \in PageInputs, PreparePage(positions) PROVE PageInv'
  <2>1. stage' = "prepared" /\ original' = Texts(positions) /\ content' = prepared(original')
    BY <1>4 DEF PreparePage
  <2>2. Parsed(original', ToSet(original'))
    BY <2>1, TextsParsed
  <2> QED
    BY <2>1, <2>2 DEF PageInv, Arranged, PageWhole
<1>5. ASSUME stage = "prepared", stage' = "tree", UNCHANGED <<original, content>>,
             NEW n \in Nat, NEW tree \in Trees(n), gtr' = tree, fresh' => n = Len(content)
      PROVE  PageInv'
  <2>1. Len(tree) = n - 1 /\ n > 0
    BY <1>5, TreesForest
  <2>2. Len(tree) + 1 = n /\ Len(tree) \in Nat
    BY <2>1
  <2> QED
    BY <1>5, <2>2 DEF PageInv, Arranged, PageWhole
<1>6. ASSUME NEW tree \in Trees(Len(content)), Cluster(tree) PROVE PageInv'
  <2>1. /\ stage = "prepared" /\ content = prepared(original)
        /\ Parsed(original, ToSet(original))
    BY <1>6 DEF Cluster, PageInv, Arranged
  <2>2. Len(content) \in Nat
    <3>1. Lists(content, ToSet(content))
      BY <2>1, PreparedLists
    <3> QED
      BY <3>1 DEF Lists
  <2> QED
    BY <1>5, <1>6, <2>1, <2>2 DEF Cluster
<1>7. ASSUME NEW n \in 1 .. OldTexts, NEW tree \in Trees(n), ClusterFails(tree)
      PROVE  PageInv'
  <2>1. n \in Nat
    BY BoundsAssumption
  <2> QED
    BY <1>5, <1>7, <2>1 DEF ClusterFails
<1>8. ASSUME Serialize PROVE PageInv'
  <2>1. CASE ~Readable(gtr, content)
    BY <1>3, <1>8, <2>1 DEF Serialize
  <2>2. CASE Readable(gtr, content)
    <3>1. /\ stage = "tree" /\ stage' = "serialized"
          /\ content' = serialize(parseGTR(gtr, content))
          /\ UNCHANGED <<original, gtr, fresh>>
      BY <1>8, <2>2 DEF Serialize
    <3>2. /\ content = prepared(original) /\ Parsed(original, ToSet(original))
          /\ gtr \in Trees(Len(gtr) + 1) /\ Len(gtr) \in Nat
          /\ fresh => Len(content) = Len(gtr) + 1
      BY <3>1 DEF PageInv, Arranged
    <3>3. Lists(content, ToSet(content))
      BY <3>2, PreparedLists
    <3>4. /\ Cardinality(ToSet(content')) = Len(content')
          /\ ToSet(content') \subseteq ToSet(content)
          /\ fresh => ToSet(content') = IF Closed(gtr)[Len(gtr)] THEN {} ELSE ToSet(content)
      BY <2>2, <3>1, <3>2, <3>3, SerializedWhole
    <3>5. PageWhole'
      BY <3>1, <3>2, <3>4 DEF PageWhole
    <3>6. Arranged'
      BY <3>1, <3>2 DEF Arranged
    <3> QED
      BY <3>5, <3>6 DEF PageInv
  <2> QED
    BY <2>1, <2>2
<1>9. CASE WritePage
  BY <1>1, <1>9 DEF WritePage
<1>10. CASE Close
  BY <1>1, <1>10 DEF Close
<1>11. CASE Finish
  BY <1>1, <1>11 DEF Finish
<1>12. CASE Rerun
  BY <1>1, <1>12 DEF Rerun
<1>13. CASE UNCHANGED vars
  BY <1>13 DEF vars, document, PageInv, Arranged, PageWhole
<1> QED
  BY <1>2, <1>3, <1>4, <1>6, <1>7, <1>8, <1>9, <1>10, <1>11, <1>12, <1>13
     DEF Next, OpenFails, PrepareFails, Kill

\* The texts of a page are what they were throughout.
LEMMA PageKept == Spec => []PageInv
<1>1. Init => PageInv
  BY InitPage
<1>2. PageInv /\ [Next]_vars => PageInv'
  BY StepPage
<1> QED
  BY <1>1, <1>2, PTL DEF Spec

\* Putting a page in its final order loses and repeats none of its texts, whatever their
\* places and whatever tree is read - but a fresh tree that is one close group loses them
\* all (parseGTR and serializePageUsingHierarchical).
THEOREM WholePages == Spec => []PageWhole
<1>1. PageInv => PageWhole
  BY DEF PageInv
<1> QED
  BY <1>1, PageKept, PTL

\* Only serializing a page puts its groups in order.
LEMMA StepGroups ==
  ASSUME PageInv, GroupsInOrder, [Next]_vars
  PROVE  GroupsInOrder'
<1>1. ASSUME stage' # "serialized" PROVE GroupsInOrder'
  BY <1>1 DEF GroupsInOrder
<1>2. ASSUME NEW n \in 0 .. MaxPages, Open(n) PROVE GroupsInOrder'
  BY <1>1, <1>2 DEF Open
<1>3. ASSUME Abort PROVE GroupsInOrder'
  BY <1>1, <1>3 DEF Abort
<1>4. ASSUME NEW positions \in PageInputs, PreparePage(positions) PROVE GroupsInOrder'
  BY <1>1, <1>4 DEF PreparePage
<1>5. ASSUME NEW tree \in Trees(Len(content)), Cluster(tree) PROVE GroupsInOrder'
  BY <1>1, <1>5 DEF Cluster
<1>6. ASSUME NEW n \in 1 .. OldTexts, NEW tree \in Trees(n), ClusterFails(tree)
      PROVE  GroupsInOrder'
  BY <1>1, <1>6 DEF ClusterFails
<1>7. ASSUME Serialize PROVE GroupsInOrder'
  <2>1. CASE ~Readable(gtr, content)
    BY <1>3, <1>7, <2>1 DEF Serialize
  <2>2. CASE ~fresh /\ Readable(gtr, content)
    BY <1>7, <2>2 DEF Serialize, GroupsInOrder
  <2>3. CASE fresh /\ Readable(gtr, content)
    <3> DEFINE n == Len(gtr) + 1
               kept == prepared(original)
    <3>1. stage = "tree" /\ content' = serialize(parseGTR(gtr, content))
          /\ UNCHANGED <<original, gtr, fresh>>
      BY <1>7, <2>3 DEF Serialize
    <3>2. /\ content = kept /\ Parsed(original, ToSet(original))
          /\ gtr \in Trees(n) /\ Len(gtr) \in Nat
          /\ Len(kept) = n
      BY <2>3, <3>1 DEF PageInv, Arranged
    <3>3. Lists(kept, ToSet(kept))
      BY <3>2, PreparedLists
    <3>4. PICK b, o : /\ Settled(content', b, o, gtr, kept)
                      /\ Strict(ToSet(kept)) => InBlockOrder(content', b, o)
      BY <2>3, <3>1, <3>2, <3>3, SerializedSettles
    <3>5. WellSpaced(original) => InBlockOrder(content', b, o)
      BY <3>2, <3>4, PreparedStrict
    <3>6. Forest(gtr, n) /\ n \in Nat
      BY <3>2, TreesForest
    <3> HIDE DEF n
    <3>7. Grouped(content', original, gtr)
      BY <3>4, <3>5, <3>6, SettledGrouped
    <3>8. Grouped(content', original', gtr')
      BY <3>1, <3>7
    <3> QED
      BY <3>8 DEF Grouped, GroupsInOrder
  <2> QED
    BY <2>1, <2>2, <2>3
<1>8. ASSUME WritePage \/ Close \/ Finish \/ Rerun PROVE GroupsInOrder'
  BY <1>1, <1>8 DEF WritePage, Close, Finish, Rerun
<1>9. CASE UNCHANGED vars
  BY <1>9 DEF vars, document, GroupsInOrder
<1> QED
  BY <1>2, <1>3, <1>4, <1>5, <1>6, <1>7, <1>8, <1>9 DEF Next, OpenFails, PrepareFails, Kill

\* In the final order the texts of a close group stand next to each other, for every page
\* and every tree made for it; on a well spaced page each group is in reading order, and
\* the groups are in that of their first texts (the index nodes of PageCluster and the
\* sorts around them).
THEOREM GroupsStandInOrder == Spec => []GroupsInOrder
<1>1. Init => GroupsInOrder
  BY DEF Init, GroupsInOrder
<1>2. PageInv /\ GroupsInOrder /\ [Next]_vars => GroupsInOrder'
  BY StepGroups
<1> QED
  BY <1>1, <1>2, PageKept, PTL DEF Spec

-----------------------------------------------------------------------------
(* The commands that the program runs, and waits for, to convert a folder  *)
(* and to cluster a page.                                                  *)

\* A child that has ended has printed everything, the program reads only after that,
\* and it takes nothing from the child's errors.
CommandProgress ==
  /\ child = "exited" => \A s \in Streams : toWrite[s] = 0
  /\ parent \in {"reading", "returned"} => child = "exited"
  /\ parent = "returned" => pipe["stdout"] = 0
  /\ parent \notin {"reading", "returned"} => output = 0

CommandInv == CommandTypeOK /\ CommandProgress /\ ReadsOnlyWhatFits

\* Nothing has been printed before the command is started.
LEMMA CommandStarts == ASSUME CommandInit PROVE CommandInv
  BY CapacityAssumption, MaxOutputAssumption
     DEF CommandInit, CommandInv, CommandTypeOK, CommandProgress, ReadsOnlyWhatFits, Streams

\* No step of the child or of the program loses any of it.
LEMMA CommandStep == ASSUME CommandInv, [CommandNext]_commandVars PROVE CommandInv'
<1> USE CapacityAssumption DEF Streams
<1>1. CASE Exec
  BY <1>1 DEF CommandInv, CommandTypeOK, CommandProgress, ReadsOnlyWhatFits, Exec
<1>2. ASSUME NEW s \in Streams, NEW n \in 1 .. Capacity, Write(s, n)
      PROVE  CommandInv'
  <2>1. CommandTypeOK'
    BY <1>2 DEF CommandInv, CommandTypeOK, Write
  <2>2. CommandProgress' /\ ReadsOnlyWhatFits'
    BY <1>2 DEF CommandInv, CommandTypeOK, CommandProgress, ReadsOnlyWhatFits, Write
  <2> QED
    BY <2>1, <2>2 DEF CommandInv
<1>3. CASE Exit
  BY <1>3 DEF CommandInv, CommandTypeOK, CommandProgress, ReadsOnlyWhatFits, Exit
<1>4. CASE WaitFor
  <2>1. CommandTypeOK' /\ CommandProgress'
    BY <1>4 DEF CommandInv, CommandTypeOK, CommandProgress, WaitFor
  <2>2. \A s \in Streams : total[s] <= Capacity
    BY <1>4 DEF CommandInv, CommandTypeOK, CommandProgress, WaitFor
  <2> QED
    BY <1>4, <2>1, <2>2 DEF CommandInv, ReadsOnlyWhatFits, WaitFor
<1>5. ASSUME NEW n \in 1 .. Capacity, ReadLines(n) PROVE CommandInv'
  BY <1>5 DEF CommandInv, CommandTypeOK, CommandProgress, ReadsOnlyWhatFits, ReadLines
<1>6. CASE Return
  BY <1>6 DEF CommandInv, CommandTypeOK, CommandProgress, ReadsOnlyWhatFits, Return
<1>7. CASE UNCHANGED commandVars
  BY <1>7 DEF CommandInv, CommandTypeOK, CommandProgress, ReadsOnlyWhatFits, commandVars
<1> QED
  BY <1>1, <1>2, <1>3, <1>4, <1>5, <1>6, <1>7 DEF CommandNext, ChildStep, Emit, ParentStep

\* All three hold throughout.
LEMMA CommandSafety == CommandSpec => []CommandInv
  BY CommandStarts, CommandStep, PTL DEF CommandSpec

\* Nothing the child prints is lost between it, the pipes and the program
\* (Util.runSystemCommand).
THEOREM CommandTypeCorrect == CommandSpec => []CommandTypeOK
  BY CommandSafety, PTL DEF CommandInv

\* Reading starts only if each stream by itself fits its pipe: waitFor comes before
\* the first read.
THEOREM CommandOnlyWhatFits == CommandSpec => []ReadsOnlyWhatFits
  BY CommandSafety, PTL DEF CommandInv

\* What is returned is all the child printed.
THEOREM CommandWholeOutput == CommandSpec => []OutputWhole
<1>1. CommandInv => OutputWhole
  BY DEF CommandInv, CommandTypeOK, CommandProgress, OutputWhole, Streams
<1> QED
  BY <1>1, CommandSafety, PTL
=============================================================================
