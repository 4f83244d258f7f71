------------------------------ MODULE DataLemmas -------------------------------
(***************************************************************************)
(* Lemmas about numbers and sequences, for any contents.                   *)
(*                                                                         *)
(* Induction has a form in which it can be cited: the property is a set,   *)
(* and the step of a recursion is a function.  What a recursive function   *)
(* of the models computes is proved with these.                            *)
(***************************************************************************)
EXTENDS Naturals, SequencesExt, FiniteSetTheorems, SequenceTheorems, WellFoundedInduction, TLAPS

\* A set of numbers has a least one.
LEMMA LeastNumber ==
  ASSUME NEW T \in SUBSET Nat, T # {}
  PROVE  \E x \in T : \A y \in T : x <= y
<1>1. \E x \in T : \A y \in T : <<y, x>> \notin OpToRel(<, Nat)
  BY NatLessThanWellFounded, WFMin
<1>2. PICK x \in T : \A y \in T : <<y, x>> \notin OpToRel(<, Nat)
  BY <1>1
<1>3. x \in T /\ \A y \in T : ~(y < x)
  BY <1>2 DEF OpToRel
<1>4. QED
  BY <1>3

\* A set of numbers below a bound has a greatest one.
LEMMA GreatestNumber ==
  ASSUME NEW k \in Nat, NEW T \in SUBSET (1 .. k), T # {}
  PROVE  /\ Max(T) \in T /\ \A y \in T : y <= Max(T)
         /\ k \in T => Max(T) = k
<1> DEFINE below == {k - y : y \in T}
<1>1. below \in SUBSET Nat /\ below # {}
  OBVIOUS
<1> HIDE DEF below
<1>2. PICK d \in below : \A e \in below : d <= e
  BY <1>1, LeastNumber
<1>3. PICK x \in T : d = k - x
  BY <1>2 DEF below
<1>4. ASSUME NEW y \in T PROVE x >= y
  <2>1. k - y \in below
    BY DEF below
  <2>2. k - x <= k - y
    BY <1>2, <1>3, <2>1
  <2>3. QED BY <2>2
<1>5. Max(T) \in T /\ \A y \in T : Max(T) >= y
  BY <1>4 DEF Max
<1> DEFINE m == Max(T)
<1>6. m \in 1 .. k /\ \A y \in T : y \in 1 .. k /\ m >= y
  BY <1>5
<1> HIDE DEF m
<1>7. (\A y \in T : y <= m) /\ (k \in T => m = k)
  BY <1>6
<1>8. QED BY <1>5, <1>7 DEF m

\* What holds at the first index of a sequence, and at the next one wherever it
\* holds, holds at all.
LEMMA IndexInduction ==
  ASSUME NEW n \in Nat, NEW G, 0 \in G, \A k \in 1 .. n : k - 1 \in G => k \in G
  PROVE  0 .. n \subseteq G
<1> DEFINE bad == {k \in 0 .. n : k \notin G}
<1>1. SUFFICES ASSUME bad # {} PROVE FALSE
  OBVIOUS
<1>2. bad \in SUBSET Nat
  OBVIOUS
<1>3. PICK k \in bad : \A y \in bad : k <= y
  BY <1>1, <1>2, LeastNumber
<1>4. k \in 1 .. n /\ k - 1 \in 0 .. n /\ k - 1 \notin bad
  BY <1>3
<1>5. QED
  BY <1>3, <1>4

\* f is what a recursion over the indexes of a sequence goes through.
Iterates(f, n, base, step) == f[0] = base /\ \A i \in 1 .. n : f[i] = step[<<i, f[i - 1]>>]

\* There is such a function for every step: the recursion defines something.
LEMMA Iteration ==
  ASSUME NEW S, NEW n \in Nat, NEW base \in S, NEW step \in [(1 .. n) \X S -> S]
  PROVE  \E f \in [0 .. n -> S] : Iterates(f, n, base, step)
<1> USE DEF Iterates
<1> DEFINE G == {k \in 0 .. n : \E f \in [0 .. k -> S] : Iterates(f, k, base, step)}
<1>1. 0 \in G
  <2> DEFINE f == [i \in 0 .. 0 |-> base]
  <2>1. f \in [0 .. 0 -> S] /\ Iterates(f, 0, base, step)
    OBVIOUS
  <2> HIDE DEF f
  <2>2. QED BY <2>1
<1>2. ASSUME NEW k \in 1 .. n, k - 1 \in G PROVE k \in G
  <2>1. PICK f \in [0 .. (k - 1) -> S] : Iterates(f, k - 1, base, step)
    BY <1>2
  <2> DEFINE g == [i \in 0 .. k |-> IF i = k THEN step[<<k, f[k - 1]>>] ELSE f[i]]
  <2>2. \A i \in 0 .. (k - 1) : i \in 0 .. k /\ i # k /\ g[i] = f[i]
    OBVIOUS
  <2>3. <<k, f[k - 1]>> \in (1 .. n) \X S
    OBVIOUS
  <2>4. g \in [0 .. k -> S]
    BY <2>3
  <2>5. g[k] = step[<<k, f[k - 1]>>] /\ g[k - 1] = f[k - 1]
    BY <2>2
  <2> HIDE DEF g
  <2>6. Iterates(g, k, base, step)
    <3>1. g[0] = base
      BY <2>1, <2>2
    <3>2. ASSUME NEW i \in 1 .. (k - 1) PROVE g[i] = step[<<i, g[i - 1]>>]
      <4>1. i \in 0 .. (k - 1) /\ i - 1 \in 0 .. (k - 1)
        OBVIOUS
      <4>2. g[i] = f[i] /\ g[i - 1] = f[i - 1]
        BY <4>1, <2>2
      <4>3. QED BY <4>2, <2>1
    <3>3. g[k] = step[<<k, g[k - 1]>>]
      BY <2>5
    <3>4. \A i \in 1 .. k : i = k \/ i \in 1 .. (k - 1)
      OBVIOUS
    <3>5. QED BY <3>1, <3>2, <3>3, <3>4
  <2>7. QED BY <2>4, <2>6
<1>3. 0 .. n \subseteq G
  <2> HIDE DEF G
  <2>1. QED BY <1>1, <1>2, IndexInduction
<1>4. n \in G
  BY <1>3
<1>5. QED
  BY <1>4
\* Counting who comes before gives everybody a number of its own.
LEMMA Ranking ==
  ASSUME NEW S, IsFiniteSet(S), NEW before \in [S -> SUBSET S],
         \A i \in S : i \notin before[i],
         \A i, j \in S : i \in before[j] => before[i] \subseteq before[j],
         \A i, j \in S : i = j \/ i \in before[j] \/ j \in before[i]
  PROVE  LET rank(i) == 1 + Cardinality(before[i])
         IN  /\ \A i \in S : rank(i) \in 1 .. Cardinality(S)
             /\ \A i, j \in S : rank(i) = rank(j) => i = j
             /\ \A r \in 1 .. Cardinality(S) : \E i \in S : rank(i) = r
<1> DEFINE n == Cardinality(S)
           rank(i) == 1 + Cardinality(before[i])
           f == [i \in S |-> rank(i)]
<1>1. n \in Nat
  BY FS_CardinalityType
<1>2. ASSUME NEW i \in S PROVE /\ IsFiniteSet(before[i])
                               /\ Cardinality(before[i]) \in Nat
                               /\ rank(i) \in 1 .. n
  <2>1. IsFiniteSet(before[i]) /\ Cardinality(before[i]) <= n
    BY FS_Subset
  <2>2. Cardinality(before[i]) # n
    <3>1. S # before[i]
      OBVIOUS
    <3>2. QED BY <3>1, FS_Subset
  <2>3. Cardinality(before[i]) \in Nat
    BY <2>1, FS_CardinalityType
  <2>4. QED BY <1>1, <2>1, <2>2, <2>3
<1>3. ASSUME NEW i \in S, NEW j \in S, i \in before[j] PROVE rank(i) # rank(j)
  <2>1. before[i] \in SUBSET before[j] /\ before[i] # before[j]
    BY <1>3
  <2>2. IsFiniteSet(before[j])
    BY <1>2
  <2>3. Cardinality(before[i]) # Cardinality(before[j])
    BY <2>1, <2>2, FS_Subset
  <2>4. QED BY <2>3, <1>2
<1>4. \A i, j \in S : rank(i) = rank(j) => i = j
  BY <1>3
<1>5. f \in Injection(S, 1 .. n)
  BY <1>2, <1>4, FS_Interval DEF Injection, IsInjective
<1>6. IsFiniteSet(1 .. n) /\ Cardinality(1 .. n) = n
  BY <1>1, FS_Interval
<1>7. f \in Surjection(S, 1 .. n)
  <2> HIDE DEF f, n
  <2>1. QED BY <1>5, <1>6, FS_Injection DEF n
<1>8. \A r \in 1 .. n : \E i \in S : f[i] = r
  BY <1>7 DEF Surjection
<1>9. QED
  BY <1>2, <1>4, <1>8

-------------------------------------------------------------------------------
(* The order of a walk *)

\* A walk visits a path before another that it is a beginning of or that goes on later:
\* at the first place where they differ it ends or has the name of the lower rank.
Sooner(rank, p, q, i) ==
  /\ i \in 1 .. Len(q)
  /\ \A j \in 1 .. i - 1 : j <= Len(p) /\ p[j] = q[j]
  /\ i = Len(p) + 1 \/ (i <= Len(p) /\ rank[p[i]] < rank[q[i]])

VisitedSooner(rank, p, q) == \E i \in Nat : Sooner(rank, p, q, i)

\* That is the order in which the code visits paths (VisitedBefore in Tree).
LEMMA SoonerIs ==
  ASSUME NEW N, NEW rank, NEW p \in Seq(N), NEW q \in Seq(N)
  PROVE  VisitedSooner(rank, p, q) <=>
           \/ p # q /\ Len(p) <= Len(q) /\ SubSeq(q, 1, Len(p)) = p
           \/ \E i \in 1 .. Len(p) :
                i <= Len(q) /\ SubSeq(p, 1, i - 1) = SubSeq(q, 1, i - 1) /\ rank[p[i]] < rank[q[i]]
<1>1. Len(p) \in Nat /\ Len(q) \in Nat
  OBVIOUS
<1>2. ASSUME p # q, Len(p) <= Len(q), SubSeq(q, 1, Len(p)) = p PROVE Sooner(rank, p, q, Len(p) + 1)
  <2>1. p # q /\ Len(p) <= Len(q) /\ SubSeq(q, 1, Len(p)) = p
    BY <1>2
  <2>2. \A j \in 1 .. Len(p) : SubSeq(q, 1, Len(p))[j] = q[j]
    BY <2>1
  <2>3. Len(p) # Len(q)
    <3>1. ASSUME Len(p) = Len(q) PROVE p = q
      BY <2>1, <2>2, <3>1, SeqEqual
    <3>2. QED BY <2>1, <3>1
  <2>4. QED BY <1>1, <2>1, <2>2, <2>3 DEF Sooner
<1>3. ASSUME NEW i \in 1 .. Len(p), i <= Len(q), SubSeq(p, 1, i - 1) = SubSeq(q, 1, i - 1), rank[p[i]] < rank[q[i]]
      PROVE  Sooner(rank, p, q, i)
  <2>1. \A j \in 1 .. i - 1 : SubSeq(p, 1, i - 1)[j] = p[j] /\ SubSeq(q, 1, i - 1)[j] = q[j]
    BY <1>3
  <2>2. \A j \in 1 .. i - 1 : p[j] = q[j] /\ j <= Len(p)
    BY <1>1, <1>3, <2>1
  <2>3. QED BY <1>1, <1>3, <2>2 DEF Sooner
<1>4. ASSUME NEW i \in Nat, Sooner(rank, p, q, i), i = Len(p) + 1
      PROVE  p # q /\ Len(p) <= Len(q) /\ SubSeq(q, 1, Len(p)) = p
  <2>1. Len(p) < Len(q) /\ \A j \in 1 .. Len(p) : p[j] = q[j]
    BY <1>1, <1>4 DEF Sooner
  <2>2. SubSeq(q, 1, Len(p)) \in Seq(N) /\ Len(SubSeq(q, 1, Len(p))) = Len(p)
        /\ \A j \in 1 .. Len(p) : SubSeq(q, 1, Len(p))[j] = q[j]
    BY <1>1, <2>1
  <2>3. SubSeq(q, 1, Len(p)) = p
    BY <2>1, <2>2, SeqEqual
  <2>4. QED BY <1>1, <2>1, <2>3
<1>5. ASSUME NEW i \in Nat, Sooner(rank, p, q, i), i # Len(p) + 1
      PROVE  /\ i \in 1 .. Len(p) /\ i <= Len(q) /\ rank[p[i]] < rank[q[i]]
             /\ SubSeq(p, 1, i - 1) = SubSeq(q, 1, i - 1)
  <2>1. /\ i \in 1 .. Len(p) /\ i <= Len(q) /\ rank[p[i]] < rank[q[i]]
        /\ \A j \in 1 .. i - 1 : p[j] = q[j]
    BY <1>1, <1>5 DEF Sooner
  <2> DEFINE a == SubSeq(p, 1, i - 1)
             b == SubSeq(q, 1, i - 1)
  <2>2. a \in Seq(N) /\ b \in Seq(N) /\ Len(a) = i - 1 /\ Len(b) = i - 1
        /\ \A j \in 1 .. i - 1 : a[j] = p[j] /\ b[j] = q[j]
    BY <1>1, <2>1
  <2>3. a = b
    <3> HIDE DEF a, b
    <3>1. QED BY <2>1, <2>2, SeqEqual
  <2>4. QED BY <2>1, <2>3
<1>6. QED BY <1>1, <1>2, <1>3, <1>4, <1>5 DEF VisitedSooner

\* What is visited before a path.
VisitOrder(before, rank, S) == before = [q \in S |-> {r \in S : VisitedSooner(rank, r, q)}]

\* It visits each path once, one after the other, if no two names have the same rank.
LEMMA SoonerOrders ==
  ASSUME NEW N, NEW rank, \A m \in N : rank[m] \in Nat, \A m, o \in N : rank[m] = rank[o] => m = o,
         NEW S \in SUBSET Seq(N), NEW before, VisitOrder(before, rank, S)
  PROVE  /\ before \in [S -> SUBSET S]
         /\ \A q \in S : q \notin before[q]
         /\ \A p, q \in S : p \in before[q] => before[p] \subseteq before[q]
         /\ \A p, q \in S : p = q \/ p \in before[q] \/ q \in before[p]
<1>1. \A q \in S : q \in Seq(N) /\ Len(q) \in Nat /\ \A i \in 1 .. Len(q) : q[i] \in N
  <2>1. ASSUME NEW q \in S PROVE q \in Seq(N) /\ Len(q) \in Nat /\ \A i \in 1 .. Len(q) : q[i] \in N
    <3>1. q \in Seq(N)
      OBVIOUS
    <3>2. QED BY <3>1, ElementOfSeq
  <2>2. QED BY <2>1
<1>2. \A p, q \in S : p \in before[q] <=> \E i \in Nat : Sooner(rank, p, q, i)
  BY DEF VisitOrder, VisitedSooner
<1>3. before \in [S -> SUBSET S]
  BY DEF VisitOrder
<1>4. ASSUME NEW q \in S PROVE q \notin before[q]
  <2>1. ASSUME NEW i \in Nat, Sooner(rank, q, q, i) PROVE FALSE
    <3>1. i \in 1 .. Len(q) /\ rank[q[i]] < rank[q[i]]
      BY <1>1, <2>1 DEF Sooner
    <3>2. rank[q[i]] \in Nat
      BY <1>1, <1>2, <3>1
    <3>3. QED BY <3>1, <3>2
  <2>2. QED BY <1>2, <2>1
<1>5. ASSUME NEW p \in S, NEW q \in S, p \in before[q] PROVE before[p] \subseteq before[q]
  <2>1. SUFFICES ASSUME NEW o \in S, o \in before[p] PROVE o \in before[q]
    BY <1>3
  <2>2. PICK i \in Nat : Sooner(rank, o, p, i)
    BY <1>2, <2>1
  <2>3. PICK k \in Nat : Sooner(rank, p, q, k)
    BY <1>2, <1>5
  <2>4. Len(o) \in Nat /\ Len(p) \in Nat /\ Len(q) \in Nat
    BY <1>1
  <2>5. CASE i < k
    <3>1. i <= Len(q) /\ \A j \in 1 .. i : j \in 1 .. k - 1 /\ p[j] = q[j]
      BY <2>2, <2>3, <2>4, <2>5 DEF Sooner
    <3>2. Sooner(rank, o, q, i)
      BY <2>2, <2>4, <3>1 DEF Sooner
    <3>3. QED BY <1>2, <3>2
  <2>6. CASE k < i
    <3>1. k <= Len(p) /\ \A j \in 1 .. k : j <= Len(o) /\ o[j] = p[j]
      BY <2>2, <2>3, <2>4, <2>6 DEF Sooner
    <3>2. k \in 1 .. Len(q) /\ k <= Len(o) /\ rank[o[k]] < rank[q[k]]
      BY <2>3, <2>4, <3>1 DEF Sooner
    <3>3. \A j \in 1 .. k - 1 : j <= Len(o) /\ o[j] = q[j]
      BY <2>3, <2>4, <3>1 DEF Sooner
    <3>4. Sooner(rank, o, q, k)
      BY <3>2, <3>3 DEF Sooner
    <3>5. QED BY <1>2, <3>4
  <2>7. CASE i = k
    <3>1. i \in 1 .. Len(p) /\ i \in 1 .. Len(q) /\ rank[p[i]] < rank[q[i]]
      BY <2>2, <2>3, <2>4, <2>7 DEF Sooner
    <3>2. i <= Len(o) => rank[o[i]] \in Nat
      BY <1>1, <1>2, <2>2, <2>4, <3>1
    <3>3. rank[p[i]] \in Nat /\ rank[q[i]] \in Nat
      BY <1>1, <1>2, <3>1
    <3>4. i = Len(o) + 1 \/ (i <= Len(o) /\ rank[o[i]] < rank[q[i]])
      BY <2>2, <2>4, <3>1, <3>2, <3>3 DEF Sooner
    <3>5. \A j \in 1 .. i - 1 : j <= Len(o) /\ o[j] = q[j]
      BY <2>2, <2>3, <2>7 DEF Sooner
    <3>6. Sooner(rank, o, q, i)
      BY <3>1, <3>4, <3>5 DEF Sooner
    <3>7. QED BY <1>2, <3>6
  <2>8. QED BY <2>5, <2>6, <2>7
<1>6. ASSUME NEW p \in S, NEW q \in S, p # q PROVE p \in before[q] \/ q \in before[p]
  <2> DEFINE Differ(i) == i > Len(p) \/ i > Len(q) \/ p[i] # q[i]
             T == {i \in Nat \ {0} : Differ(i)}
  <2>1. Len(p) \in Nat /\ Len(q) \in Nat
    BY <1>1
  <2>2. Len(p) + 1 \in T
    BY <2>1
  <2>3. PICK i \in T : \A j \in T : i <= j
    BY <2>2, LeastNumber
  <2>4. \A j \in 1 .. i - 1 : j <= Len(p) /\ j <= Len(q) /\ p[j] = q[j]
    BY <2>1, <2>3
  <2>5. i \in Nat \ {0} /\ Differ(i)
    BY <2>3
  <2>6. CASE i > Len(p) /\ i > Len(q)
    <3>1. Len(p) = Len(q) /\ \A j \in 1 .. Len(p) : p[j] = q[j]
      BY <2>1, <2>4, <2>5, <2>6
    <3>2. p \in Seq(N) /\ q \in Seq(N)
      BY <1>1
    <3>3. p = q
      BY <3>1, <3>2, SeqEqual
    <3>4. QED BY <1>6, <3>3
  <2>7. CASE i > Len(p) /\ i <= Len(q)
    <3>1. Sooner(rank, p, q, i)
      BY <2>1, <2>4, <2>5, <2>7 DEF Sooner
    <3>2. QED BY <1>2, <2>5, <3>1
  <2>8. CASE i <= Len(p) /\ i > Len(q)
    <3>1. Sooner(rank, q, p, i)
      BY <2>1, <2>4, <2>5, <2>8 DEF Sooner
    <3>2. QED BY <1>2, <2>5, <3>1
  <2>9. CASE i <= Len(p) /\ i <= Len(q)
    <3>1. p[i] # q[i] /\ p[i] \in N /\ q[i] \in N
      BY <1>1, <2>1, <2>5, <2>9
    <3>2. rank[p[i]] \in Nat /\ rank[q[i]] \in Nat /\ rank[p[i]] # rank[q[i]]
      BY <1>2, <3>1
    <3>3. Sooner(rank, p, q, i) \/ Sooner(rank, q, p, i)
      BY <2>1, <2>4, <2>5, <2>9, <3>2 DEF Sooner
    <3>4. QED BY <1>2, <2>5, <3>3
  <2>10. QED BY <2>1, <2>5, <2>6, <2>7, <2>8, <2>9
<1>7. QED BY <1>3, <1>4, <1>5, <1>6

\* A list by the number of those before.
ListedBy(s, before, S, n) ==
  /\ DOMAIN s = 1 .. n /\ s = [i \in DOMAIN s |-> s[i]]
  /\ \A i \in 1 .. n : (\E x \in S : Cardinality(before[x]) = i - 1)
                       => s[i] \in S /\ Cardinality(before[s[i]]) = i - 1

\* It has everybody once, after those before.
LEMMA Numbering ==
  ASSUME NEW S, IsFiniteSet(S), NEW before \in [S -> SUBSET S],
         \A x \in S : x \notin before[x],
         \A x, y \in S : x \in before[y] => before[x] \subseteq before[y],
         \A x, y \in S : x = y \/ x \in before[y] \/ y \in before[x],
         NEW n, n = Cardinality(S),
         NEW s, ListedBy(s, before, S, n)
  PROVE  /\ n \in Nat /\ s \in Seq(S) /\ Len(s) = n /\ DOMAIN s = 1 .. n
         /\ \A x \in S : \E i \in 1 .. n : s[i] = x
         /\ \A i, j \in 1 .. n : s[i] \in S /\ (i < j <=> s[i] \in before[s[j]]) /\ (s[i] = s[j] => i = j)
<1>1. n \in Nat
  BY FS_CardinalityType
<1>2. /\ \A x \in S : 1 + Cardinality(before[x]) \in 1 .. n
      /\ \A x, y \in S : 1 + Cardinality(before[x]) = 1 + Cardinality(before[y]) => x = y
      /\ \A r \in 1 .. n : \E x \in S : 1 + Cardinality(before[x]) = r
  BY Ranking
<1>3. \A x \in S : IsFiniteSet(before[x]) /\ Cardinality(before[x]) \in Nat
  <2>1. ASSUME NEW x \in S PROVE IsFiniteSet(before[x])
    BY FS_Subset
  <2>2. QED BY <2>1, FS_CardinalityType
<1>4. ASSUME NEW i \in 1 .. n PROVE s[i] \in S /\ Cardinality(before[s[i]]) = i - 1
  <2>1. PICK x \in S : 1 + Cardinality(before[x]) = i
    BY <1>2
  <2>2. Cardinality(before[x]) = i - 1
    BY <1>3, <2>1
  <2>3. QED BY <2>2 DEF ListedBy
<1>5. s \in [1 .. n -> S]
  BY <1>4 DEF ListedBy
<1>6. DOMAIN s = 1 .. n /\ s \in Seq(S) /\ Len(s) = n
  <2>1. ASSUME NEW f \in [1 .. n -> S] PROVE DOMAIN f = 1 .. n /\ f \in Seq(S) /\ Len(f) = n
    BY <1>1
  <2>2. QED BY <1>5, <2>1
<1>7. ASSUME NEW x \in S PROVE \E i \in 1 .. n : s[i] = x
  <2>1. PICK i \in 1 .. n : 1 + Cardinality(before[x]) = i
    BY <1>2
  <2>2. Cardinality(before[s[i]]) = i - 1 /\ s[i] \in S
    BY <1>4
  <2>3. 1 + Cardinality(before[s[i]]) = 1 + Cardinality(before[x])
    BY <1>3, <2>1, <2>2
  <2>4. s[i] = x
    BY <1>2, <2>2, <2>3
  <2>5. QED BY <2>4
<1>8. ASSUME NEW i \in 1 .. n, NEW j \in 1 .. n, s[i] \in before[s[j]] PROVE i < j
  <2>1. s[i] \in S /\ s[j] \in S /\ Cardinality(before[s[i]]) = i - 1 /\ Cardinality(before[s[j]]) = j - 1
    BY <1>4
  <2>2. before[s[i]] \in SUBSET before[s[j]] /\ IsFiniteSet(before[s[j]]) /\ s[i] \notin before[s[i]]
    BY <1>3, <1>8, <2>1
  <2>3. Cardinality(before[s[i]]) <= Cardinality(before[s[j]])
    BY <2>2, FS_Subset
  <2>4. s[i] # s[j]
    BY <1>8, <2>1
  <2>5. i # j
    BY <2>4
  <2>6. QED BY <1>1, <2>1, <2>3, <2>5
<1>9. ASSUME NEW i \in 1 .. n, NEW j \in 1 .. n, i < j PROVE s[i] \in before[s[j]]
  <2>1. s[i] \in S /\ s[j] \in S /\ Cardinality(before[s[i]]) = i - 1 /\ Cardinality(before[s[j]]) = j - 1
    BY <1>4
  <2>2. s[i] # s[j]
    BY <1>9, <2>1
  <2>3. ~(s[j] \in before[s[i]])
    BY <1>1, <1>8, <1>9
  <2>4. QED BY <2>1, <2>2, <2>3
<1>10. ASSUME NEW i \in 1 .. n, NEW j \in 1 .. n, s[i] = s[j] PROVE i = j
  <2>1. Cardinality(before[s[i]]) = i - 1 /\ Cardinality(before[s[j]]) = j - 1
    BY <1>4
  <2>2. QED BY <1>1, <1>10, <2>1
<1>11. ASSUME NEW i \in 1 .. n, NEW j \in 1 .. n
       PROVE  s[i] \in S /\ (i < j <=> s[i] \in before[s[j]]) /\ (s[i] = s[j] => i = j)
  BY <1>4, <1>8, <1>9, <1>10
<1>12. QED BY <1>1, <1>6, <1>7, <1>11

-------------------------------------------------------------------------------
(* What is in a sequence *)

\* A function on 1 .. n is a sequence of what it takes.
LEMMA SequenceOfRange ==
  ASSUME NEW f, NEW n \in Nat, DOMAIN f = 1 .. n, f = [i \in DOMAIN f |-> f[i]]
  PROVE  f \in Seq(Range(f))
<1>1. f \in [1 .. n -> Range(f)]
  BY DEF Range
<1>2. QED BY <1>1

\* What is in a sequence with one more element.
LEMMA AppendedSet ==
  ASSUME NEW X, NEW s \in Seq(X), NEW x \in X
  PROVE  Append(s, x) \in Seq(X) /\ ToSet(Append(s, x)) = ToSet(s) \cup {x}
<1> DEFINE a == Append(s, x)
<1>1. a \in Seq(X) /\ Len(a) = Len(s) + 1 /\ a[Len(s) + 1] = x /\ \A i \in 1 .. Len(s) : a[i] = s[i]
  OBVIOUS
<1>2. DOMAIN a = 1 .. Len(s) + 1 /\ DOMAIN s = 1 .. Len(s) /\ Len(s) \in Nat
  BY <1>1
<1> HIDE DEF a
<1>3. {a[i] : i \in DOMAIN a} = {s[i] : i \in DOMAIN s} \cup {x}
  BY <1>1, <1>2
<1>4. QED
  BY <1>1, <1>3 DEF a, ToSet

\* A reversed sequence has the same elements.
LEMMA ReversedSet ==
  ASSUME NEW X, NEW s \in Seq(X)
  PROVE  Reverse(s) \in Seq(X) /\ ToSet(Reverse(s)) = ToSet(s)
<1> DEFINE n == Len(s)
           r == [i \in 1 .. n |-> s[(n - i) + 1]]
<1>1. n \in Nat /\ DOMAIN s = 1 .. n /\ s \in [1 .. n -> X]
  OBVIOUS
<1> HIDE DEF n
<1>2. \A i \in 1 .. n : (n - i) + 1 \in 1 .. n /\ (n - ((n - i) + 1)) + 1 = i
  BY <1>1
<1>3. r \in [1 .. n -> X] /\ \A i \in 1 .. n : r[i] = s[(n - i) + 1] /\ s[i] = r[(n - i) + 1]
  BY <1>1, <1>2
<1> HIDE DEF r
<1>4. {r[i] : i \in 1 .. n} = {s[i] : i \in 1 .. n}
  BY <1>2, <1>3
<1>5. DOMAIN r = 1 .. n /\ r \in Seq(X)
  BY <1>1, <1>3
<1>6. Reverse(s) = r
  BY DEF Reverse, r, n
<1>7. QED
  BY <1>1, <1>4, <1>5, <1>6 DEF ToSet

\* What is in two sequences, one after the other.
LEMMA ConcatenatedSet ==
  ASSUME NEW X, NEW s \in Seq(X), NEW t \in Seq(X)
  PROVE  s \o t \in Seq(X) /\ ToSet(s \o t) = ToSet(s) \cup ToSet(t)
<1> DEFINE c == s \o t
<1>1. /\ c \in Seq(X) /\ Len(c) = Len(s) + Len(t)
      /\ \A i \in 1 .. Len(s) : c[i] = s[i]
      /\ \A i \in 1 .. Len(t) : c[Len(s) + i] = t[i]
  OBVIOUS
<1>2. Len(s) \in Nat /\ Len(t) \in Nat /\ DOMAIN s = 1 .. Len(s) /\ DOMAIN t = 1 .. Len(t)
  OBVIOUS
<1>3. DOMAIN c = 1 .. Len(s) + Len(t)
  BY <1>1
<1> HIDE DEF c
<1>4. \A i \in DOMAIN c : i \in DOMAIN s \/ (i - Len(s) \in DOMAIN t /\ i = Len(s) + (i - Len(s)))
  BY <1>2, <1>3
<1>5. \A i \in DOMAIN t : Len(s) + i \in DOMAIN c
  BY <1>2, <1>3
<1>6. DOMAIN s \subseteq DOMAIN c
  BY <1>2, <1>3
<1>7. {c[i] : i \in DOMAIN c} = {s[i] : i \in DOMAIN s} \cup {t[i] : i \in DOMAIN t}
  <2>1. ASSUME NEW i \in DOMAIN c PROVE c[i] \in {s[j] : j \in DOMAIN s} \cup {t[j] : j \in DOMAIN t}
    BY <1>1, <1>2, <1>4
  <2>2. ASSUME NEW j \in DOMAIN s PROVE s[j] \in {c[i] : i \in DOMAIN c}
    BY <1>1, <1>2, <1>6
  <2>3. ASSUME NEW j \in DOMAIN t PROVE t[j] \in {c[i] : i \in DOMAIN c}
    <3>1. t[j] = c[Len(s) + j]
      BY <1>1, <1>2
    <3>2. QED BY <3>1, <1>5
  <2>4. QED BY <2>1, <2>2, <2>3
<1>8. QED
  BY <1>1, <1>7 DEF c, ToSet

\* What is in a sequence is its last element or before it.
LEMMA LastAndRest ==
  ASSUME NEW X, NEW s \in Seq(X), s # <<>>
  PROVE  /\ Len(s) \in Nat \ {0} /\ s[Len(s)] \in X
         /\ SubSeq(s, 1, Len(s) - 1) \in Seq(X)
         /\ ToSet(s) = ToSet(SubSeq(s, 1, Len(s) - 1)) \cup {s[Len(s)]}
<1> DEFINE r == SubSeq(s, 1, Len(s) - 1)
<1>1. Len(s) \in Nat \ {0} /\ DOMAIN s = 1 .. Len(s) /\ s[Len(s)] \in X
  OBVIOUS
<1>2. r = [i \in 1 .. Len(s) - 1 |-> s[i]] /\ r \in Seq(X)
  BY <1>1
<1> HIDE DEF r
<1>3. {s[i] : i \in DOMAIN s} = {r[i] : i \in DOMAIN r} \cup {s[Len(s)]}
  BY <1>1, <1>2
<1>4. QED
  BY <1>1, <1>2, <1>3 DEF r, ToSet

\* What follows on the beginning of a sequence makes the beginning longer.
LEMMA BeginningGrows ==
  ASSUME NEW X, NEW s \in Seq(X), NEW b \in 0 .. Len(s), NEW a \in 0 .. b
  PROVE  /\ Len(SubSeq(s, a + 1, b)) = b - a
         /\ SubSeq(s, a + 1, b) = <<>> <=> a = b
         /\ SubSeq(s, 1, a) \o SubSeq(s, a + 1, b) = SubSeq(s, 1, b)
         /\ \A k \in 0 .. b - a : SubSeq(SubSeq(s, a + 1, b), 1, k) = SubSeq(s, a + 1, a + k)
         /\ SubSeq(s, 1, Len(s)) = s /\ SubSeq(s, 1, 0) = <<>>
<1>1. a \in Nat /\ b \in Nat /\ Len(s) \in Nat /\ b <= Len(s) /\ a <= b
  OBVIOUS
<1>2. SubSeq(s, a + 1, b) \in Seq(X) /\ Len(SubSeq(s, a + 1, b)) = b - a
  BY <1>1
<1>3. SubSeq(s, a + 1, b) = <<>> <=> a = b
  BY <1>1, <1>2
<1>4. SubSeq(s, 1, a) \o SubSeq(s, a + 1, b) = SubSeq(s, 1, b)
  BY <1>1
<1>5. ASSUME NEW k \in 0 .. b - a
      PROVE  SubSeq(SubSeq(s, a + 1, b), 1, k) = SubSeq(s, a + 1, a + k)
  BY <1>1
<1>6. SubSeq(s, 1, Len(s)) = s /\ SubSeq(s, 1, 0) = <<>>
  BY <1>1
<1>7. QED BY <1>2, <1>3, <1>4, <1>5, <1>6

\* What FlattenSeq goes through.
Flattens(f, seqs) ==
  /\ f[0] = <<>>
  /\ \A i \in 1 .. Len(seqs) : f[i] = f[i - 1] \o seqs[i]
  /\ FlattenSeq(seqs) = f[Len(seqs)]

\* FlattenSeq is that recursion.
LEMMA Flattening ==
  ASSUME NEW X, NEW seqs \in Seq(Seq(X))
  PROVE  \E f \in [0 .. Len(seqs) -> Seq(X)] : Flattens(f, seqs)
<1> DEFINE n == Len(seqs)
           Is(f) == f = [i \in 1 .. n |-> IF i = 1 THEN seqs[i] ELSE f[i - 1] \o seqs[i]]
           step == [z \in (1 .. n) \X Seq(X) |-> z[2] \o seqs[z[1]]]
<1>1. n \in Nat /\ DOMAIN seqs = 1 .. n /\ \A i \in 1 .. n : seqs[i] \in Seq(X)
  OBVIOUS
<1>2. step \in [(1 .. n) \X Seq(X) -> Seq(X)] /\ <<>> \in Seq(X)
  BY <1>1
<1>3. \A i \in 1 .. n, s \in Seq(X) : step[<<i, s>>] = s \o seqs[i]
  OBVIOUS
<1>4. n # 0 => FlattenSeq(seqs) = (CHOOSE f : Is(f))[n]
  BY DEF FlattenSeq
<1>5. n = 0 => FlattenSeq(seqs) = <<>>
  BY DEF FlattenSeq
<1> HIDE DEF n, step
<1>6. PICK f \in [0 .. n -> Seq(X)] : Iterates(f, n, <<>>, step)
  BY <1>1, <1>2, Iteration
<1>7. f[0] = <<>> /\ \A i \in 1 .. n : f[i - 1] \in Seq(X) /\ f[i] = f[i - 1] \o seqs[i]
  <2>1. \A i \in 1 .. n : i - 1 \in 0 .. n
    BY <1>1
  <2>2. QED BY <1>3, <1>6, <2>1 DEF Iterates
<1> DEFINE g == [i \in 1 .. n |-> f[i]]
           h == [i \in 1 .. n |-> IF i = 1 THEN seqs[i] ELSE g[i - 1] \o seqs[i]]
<1>8. ASSUME NEW i \in 1 .. n PROVE g[i] = h[i]
  <2>1. f[i] = f[i - 1] \o seqs[i]
    BY <1>7
  <2>2. CASE i # 1
    <3>1. i - 1 \in 1 .. n
      BY <1>1, <2>2
    <3>2. QED BY <2>1, <2>2, <3>1
  <2>3. CASE i = 1
    <3>1. f[i - 1] = <<>>
      BY <1>7, <2>3
    <3>2. f[i] = seqs[i]
      BY <1>1, <2>1, <3>1, ConcatEmptySeq
    <3>3. QED BY <2>3, <3>2
  <2>4. QED BY <2>2, <2>3
<1>9. Is(g)
  BY <1>8
<1> HIDE DEF g, h
<1>10. PICK k : Is(k) /\ (n # 0 => FlattenSeq(seqs) = k[n])
  BY <1>4, <1>9
<1> DEFINE G == {i \in 0 .. n : i # 0 => k[i] = f[i]}
<1>11. 0 \in G
  BY <1>1
<1>12. ASSUME NEW i \in 1 .. n, i - 1 \in G PROVE i \in G
  <2>1. k[i] = IF i = 1 THEN seqs[i] ELSE k[i - 1] \o seqs[i]
    BY <1>10
  <2>2. f[i] = f[i - 1] \o seqs[i]
    BY <1>7
  <2>3. i \in 0 .. n
    BY <1>1
  <2>4. f[i] = f[i - 1] \o seqs[i] /\ i \in 0 .. n
    BY <2>2, <2>3
  <2>5. CASE i # 1
    <3>1. k[i - 1] = f[i - 1]
      BY <1>1, <1>12, <2>5
    <3>2. k[i] = k[i - 1] \o seqs[i]
      BY <2>1, <2>5
    <3>3. k[i] = f[i]
      BY <2>4, <3>1, <3>2
    <3>4. QED BY <2>4, <3>3
  <2>6. CASE i = 1
    <3>1. f[i - 1] = <<>>
      BY <1>7, <2>6
    <3>2. f[i] = seqs[i]
      BY <1>1, <2>4, <3>1, ConcatEmptySeq
    <3>3. k[i] = seqs[i]
      BY <2>1, <2>6
    <3>4. QED BY <2>4, <3>2, <3>3
  <2>7. QED BY <2>5, <2>6
<1>13. n \in G
  <2> HIDE DEF G
  <2>1. 0 .. n \subseteq G
    BY <1>1, <1>11, <1>12, IndexInduction
  <2>2. QED BY <1>1, <2>1
<1>14. FlattenSeq(seqs) = f[n]
  BY <1>5, <1>7, <1>10, <1>13
<1>15. QED BY <1>6, <1>7, <1>14 DEF Flattens, n

\* A flattened sequence of sequences is a sequence.
LEMMA FlattenedSeq ==
  ASSUME NEW X, NEW seqs \in Seq(Seq(X))
  PROVE  FlattenSeq(seqs) \in Seq(X)
<1>1. PICK f \in [0 .. Len(seqs) -> Seq(X)] : Flattens(f, seqs)
  BY Flattening
<1>2. Len(seqs) \in 0 .. Len(seqs)
  OBVIOUS
<1>3. QED BY <1>1, <1>2 DEF Flattens

\* One sequence more at the end of those that are flattened.
LEMMA FlattenedAppend ==
  ASSUME NEW X, NEW seqs \in Seq(Seq(X)), NEW s \in Seq(X)
  PROVE  /\ FlattenSeq(seqs) \in Seq(X)
         /\ FlattenSeq(Append(seqs, s)) = FlattenSeq(seqs) \o s
<1> DEFINE n == Len(seqs)
           more == Append(seqs, s)
<1>1. /\ n \in Nat /\ more \in Seq(Seq(X)) /\ Len(more) = n + 1 /\ more[n + 1] = s
      /\ \A i \in 1 .. n : more[i] = seqs[i]
  OBVIOUS
<1> HIDE DEF more
<1>2. PICK f \in [0 .. n -> Seq(X)] : Flattens(f, seqs)
  BY Flattening
<1>3. PICK g \in [0 .. n + 1 -> Seq(X)] : Flattens(g, more)
  BY <1>1, Flattening
<1> HIDE DEF n
<1> DEFINE G == {i \in 0 .. n : f[i] = g[i]}
<1>4. 0 \in G
  BY <1>1, <1>2, <1>3 DEF Flattens
<1>5. ASSUME NEW i \in 1 .. n, i - 1 \in G PROVE i \in G
  <2>1. i \in 1 .. Len(seqs) /\ i \in 1 .. Len(more) /\ i \in 0 .. n
    BY <1>1 DEF n
  <2>2. f[i] = f[i - 1] \o seqs[i] /\ g[i] = g[i - 1] \o more[i]
    BY <1>2, <1>3, <2>1 DEF Flattens
  <2>3. f[i - 1] = g[i - 1] /\ more[i] = seqs[i]
    BY <1>1, <1>5
  <2>4. QED BY <2>1, <2>2, <2>3
<1>6. f[n] = g[n]
  <2> HIDE DEF G
  <2>1. 0 .. n \subseteq G
    BY <1>1, <1>4, <1>5, IndexInduction
  <2>2. n \in G
    BY <1>1, <2>1
  <2>3. QED BY <2>2 DEF G
<1>7. g[n + 1] = g[n] \o s
  <2>1. n + 1 \in 1 .. Len(more) /\ (n + 1) - 1 = n
    BY <1>1
  <2>2. QED BY <1>1, <1>3, <2>1 DEF Flattens
<1>8. QED BY <1>1, <1>2, <1>3, <1>6, <1>7 DEF Flattens, n, more

\* The first sequence comes first.
LEMMA FlattenedHead ==
  ASSUME NEW X, NEW seqs \in Seq(Seq(X)), seqs # <<>>
  PROVE  FlattenSeq(seqs) = Head(seqs) \o FlattenSeq(Tail(seqs))
<1>1. \A a, b, c \in Seq(X) : (a \o b) \o c = a \o (b \o c)
  BY Z3T(30)
<1> DEFINE n == Len(seqs)
           rest == Tail(seqs)
           s == Head(seqs)
<1>2. /\ n \in Nat \ {0} /\ rest \in Seq(Seq(X)) /\ Len(rest) = n - 1 /\ s \in Seq(X)
      /\ s = seqs[1] /\ \A i \in 1 .. n - 1 : rest[i] = seqs[i + 1]
  OBVIOUS
<1> HIDE DEF rest, s
<1>3. PICK f \in [0 .. n -> Seq(X)] : Flattens(f, seqs)
  BY Flattening
<1>4. PICK g \in [0 .. n - 1 -> Seq(X)] : Flattens(g, rest)
  BY <1>2, Flattening
<1> DEFINE m == n - 1
           G == {i \in 0 .. m : f[i + 1] = s \o g[i]}
<1>5. m \in Nat /\ g \in [0 .. m -> Seq(X)] /\ n = m + 1
  BY <1>2, <1>4
<1>6. 0 \in G
  <2>1. 1 \in 1 .. n /\ 1 - 1 = 0
    BY <1>2
  <2>2. f[1] = f[0] \o seqs[1] /\ f[0] = <<>>
    BY <1>3, <2>1 DEF Flattens
  <2>3. g[0] = <<>> /\ <<>> \o s = s /\ s \o <<>> = s
    BY <1>2, <1>4 DEF Flattens
  <2>4. QED BY <1>2, <1>5, <2>3, <2>2
<1>7. ASSUME NEW i \in 1 .. m, i - 1 \in G PROVE i \in G
  <2>1. i + 1 \in 1 .. n /\ (i + 1) - 1 = i /\ i \in 1 .. Len(rest) /\ (i - 1) + 1 = i /\ i - 1 \in 0 .. m
    BY <1>2, <1>5
  <2>2. f[i + 1] = f[i] \o seqs[i + 1] /\ g[i] = g[i - 1] \o rest[i]
    BY <1>3, <1>4, <2>1 DEF Flattens
  <2>3. f[i] = s \o g[i - 1] /\ rest[i] = seqs[i + 1]
    BY <1>2, <1>5, <1>7, <2>1
  <2>4. g[i - 1] \in Seq(X) /\ rest[i] \in Seq(X)
    <3>1. i \in 1 .. n - 1 /\ i + 1 \in DOMAIN seqs
      BY <1>2, <2>1
    <3>2. rest[i] = seqs[i + 1] /\ seqs[i + 1] \in Seq(X)
      BY <1>2, <3>1, ElementOfSeq
    <3>3. QED BY <1>5, <2>1, <3>2
  <2>5. (s \o g[i - 1]) \o rest[i] = s \o (g[i - 1] \o rest[i])
    BY <1>2, <1>1, <2>4
  <2>6. f[i + 1] = s \o g[i]
    BY <2>2, <2>3, <2>5
  <2>7. QED BY <2>6
<1>8. m \in G
  <2> HIDE DEF G, m
  <2>1. 0 .. m \subseteq G
    BY <1>5, <1>6, <1>7, IndexInduction
  <2>2. QED BY <1>5, <2>1
<1>9. f[m + 1] = s \o g[m]
  BY <1>8
<1>10. f[n] = FlattenSeq(seqs) /\ g[m] = FlattenSeq(rest)
  BY <1>2, <1>3, <1>4 DEF Flattens
<1> HIDE DEF m
<1>11. QED BY <1>5, <1>9, <1>10 DEF rest, s
===============================================================================
