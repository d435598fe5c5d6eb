------------------------------ MODULE VmProofs ------------------------------
(***************************************************************************)
(* User memory, for any number of processes and pages: every page of       *)
(* kalloc's has one use, also while programs are being loaded, and the     *)
(* pages of a process are those from low to sz (MemoryAgrees); growth maps *)
(* no page twice (GrowthNeverRemaps).                                      *)
(*                                                                         *)
(* The inductive invariant VmInv adds to MemoryAgree what the steps need:  *)
(* a page has one use within its process too, an UNUSED slot has no page,  *)
(* nobody but a running process is in exec, low is above 0 and not above   *)
(* sz, and the image that exec builds is mapped up to its size.            *)
(***************************************************************************)
EXTENDS Vm, FiniteSetTheorems, TLAPS

-----------------------------------------------------------------------------
\* A finite set of numbers is in order: the number of smaller members is a
\* bijection to 0..(n - 1).
Rank(S) == [x \in S |-> Cardinality({y \in S : y < x})]

LEMMA RankBijection ==
  ASSUME NEW S \in SUBSET Int, IsFiniteSet(S)
  PROVE  Rank(S) \in Injection(S, 0..(Cardinality(S) - 1)) /\ Rank(S) \in Surjection(S, 0..(Cardinality(S) - 1))
<1> DEFINE B(x) == {y \in S : y < x}
           n    == Cardinality(S)
<1>1. n \in Nat
  BY FS_CardinalityType
<1>2. ASSUME NEW x \in S PROVE IsFiniteSet(B(x)) /\ Cardinality(B(x)) \in Nat /\ Cardinality(B(x)) < n
  <2>1. B(x) \in SUBSET S /\ B(x) # S
    OBVIOUS
  <2> QED
    BY <1>1, <2>1, FS_Subset, FS_CardinalityType
<1>3. ASSUME NEW x \in S, NEW y \in S, x < y PROVE Cardinality(B(x)) < Cardinality(B(y))
  <2>1. B(x) \in SUBSET B(y) /\ B(x) # B(y)
    <3>1. \A z \in S : z < x => z < y
      BY <1>3
    <3>2. x \in B(y) /\ x \notin B(x)
      BY <1>3
    <3> QED
      BY <3>1, <3>2, Zenon
  <2> HIDE DEF B
  <2> QED
    BY <1>2, <2>1, FS_Subset
<1>4. Rank(S) \in [S -> 0..(n - 1)]
  BY <1>1, <1>2 DEF Rank
<1>5. ASSUME NEW x \in S, NEW y \in S, Rank(S)[x] = Rank(S)[y] PROVE x = y
  <2>1. Cardinality(B(x)) = Cardinality(B(y))
    BY <1>5, Zenon DEF Rank
  <2> HIDE DEF B
  <2>2. x \in Int /\ y \in Int
    OBVIOUS
  <2> QED
    BY <1>2, <1>3, <2>1, <2>2
<1>6. Rank(S) \in Injection(S, 0..(n - 1))
  BY <1>4, <1>5, Zenon DEF Injection, IsInjective
<1>7. IsFiniteSet(0..(n - 1)) /\ Cardinality(0..(n - 1)) = n
  <2> HIDE DEF n
  <2>1. 0 \in Int /\ n - 1 \in Int /\ (IF 0 > n - 1 THEN 0 ELSE n - 1 - 0 + 1) = n
    BY <1>1
  <2> QED
    BY <2>1, FS_Interval, Zenon
<1> DEFINE I == 0..(n - 1)
<1>8. Rank(S) \in Injection(S, I) /\ IsFiniteSet(I) /\ Cardinality(I) = Cardinality(S)
  BY <1>6, <1>7, Zenon
<1> HIDE DEF I
<1>9. Rank(S) \in Surjection(S, I)
  BY <1>8, FS_Injection, Zenon
<1> QED
  BY <1>6, <1>9, Zenon DEF I

\* kalloc: the first n pages of the free set are n pages of it.
LEMMA LowestCount ==
  ASSUME NEW f \in SUBSET Int, IsFiniteSet(f), NEW n \in Nat, n <= Cardinality(f)
  PROVE  Lowest(f, n) \in SUBSET f /\ IsFiniteSet(Lowest(f, n)) /\ Cardinality(Lowest(f, n)) = n
<1> DEFINE L == Lowest(f, n)
           r == [x \in L |-> Rank(f)[x]]
<1>0. L \in SUBSET f /\ IsFiniteSet(L)
  <2>1. L \in SUBSET f
    BY Zenon DEF Lowest
  <2> QED
    BY <2>1, FS_Subset, Zenon
<1>1. Cardinality(f) \in Nat
  BY FS_CardinalityType
<1>2. ASSUME NEW g \in f PROVE Cardinality({h \in f : h <= g}) = Rank(f)[g] + 1
  <2> DEFINE A == {h \in f : h < g}
  <2>1. IsFiniteSet(A) /\ g \notin A
    BY FS_Subset
  <2>2. {h \in f : h <= g} = A \cup {g}
    <3>1. \A h \in f : h <= g <=> (h < g \/ h = g)
      OBVIOUS
    <3> QED
      BY <3>1, Zenon
  <2> QED
    BY <2>1, <2>2, FS_AddElement DEF Rank
<1>3. Rank(f) \in Injection(f, 0..(Cardinality(f) - 1)) /\ Rank(f) \in Surjection(f, 0..(Cardinality(f) - 1))
  BY RankBijection
<1>4. \A g \in f : Rank(f)[g] \in Nat /\ (g \in L <=> Rank(f)[g] < n)
  <2> TAKE g \in f
  <2>1. Rank(f)[g] \in 0..(Cardinality(f) - 1)
    BY <1>3, Zenon DEF Injection
  <2>2. g \in L <=> Cardinality({h \in f : h <= g}) <= n
    BY Zenon DEF Lowest
  <2>3. g \in L <=> Rank(f)[g] + 1 <= n
    BY <1>2, <2>2, Zenon
  <2> HIDE DEF L
  <2> QED
    BY <1>1, <2>1, <2>3
<1>5. r \in [L -> 0..(n - 1)]
  <2>1. ASSUME NEW x \in L PROVE Rank(f)[x] \in 0..(n - 1)
    <3>1. Rank(f)[x] \in Nat /\ Rank(f)[x] < n
      BY <1>0, <1>4, Zenon
    <3> QED
      BY <3>1
  <2> QED
    BY <2>1, Zenon
<1>6. \A x, y \in L : r[x] = r[y] => x = y
  BY <1>0, <1>3, Zenon DEF Injection, IsInjective
<1>7. \A k \in 0..(n - 1) : \E x \in L : r[x] = k
  <2> TAKE k \in 0..(n - 1)
  <2>1. k \in 0..(Cardinality(f) - 1) /\ k < n
    BY <1>1
  <2>2. PICK x \in f : Rank(f)[x] = k
    BY <1>3, <2>1, Zenon DEF Surjection
  <2> QED
    BY <1>4, <2>1, <2>2, Zenon
<1>8. r \in Injection(L, 0..(n - 1)) /\ r \in Surjection(L, 0..(n - 1))
  BY <1>5, <1>6, <1>7, Zenon DEF Injection, IsInjective, Surjection
<1>9. IsFiniteSet(0..(n - 1)) /\ Cardinality(0..(n - 1)) = n
  <2>1. 0 \in Int /\ n - 1 \in Int /\ (IF 0 > n - 1 THEN 0 ELSE n - 1 - 0 + 1) = n
    OBVIOUS
  <2> QED
    BY <2>1, FS_Interval, Zenon
<1> DEFINE I == 0..(n - 1)
<1>10. r \in Injection(L, I) /\ r \in Surjection(L, I) /\ IsFiniteSet(I) /\ Cardinality(I) = n
  BY <1>8, <1>9, Zenon
<1> HIDE DEF I, L, r
<1>11. Cardinality(L) = Cardinality(I)
  BY <1>10, FS_Injection, Zenon
<1> QED
  BY <1>0, <1>10, <1>11, Zenon DEF L

\* The pages are handed out to the page numbers one by one, and all of them.
LEMMA AssignBijection ==
  ASSUME NEW N \in SUBSET Int, IsFiniteSet(N), NEW G \in SUBSET Int, IsFiniteSet(G), Cardinality(N) = Cardinality(G)
  PROVE  /\ Assign(N, G) \in [N -> G] /\ IsInjective(Assign(N, G))
         /\ Range(Assign(N, G)) = G
<1> DEFINE a == Assign(N, G)
           c == Cardinality(N) - 1
<1>1. /\ Rank(N) \in Injection(N, 0..c) /\ Rank(N) \in Surjection(N, 0..c)
      /\ Rank(G) \in Injection(G, 0..c) /\ Rank(G) \in Surjection(G, 0..c)
  BY RankBijection
<1>2. ASSUME NEW n \in N PROVE a[n] \in G /\ Rank(G)[a[n]] = Rank(N)[n]
  <2>1. Rank(N)[n] \in 0..c
    BY <1>1, Zenon DEF Injection
  <2>2. \E g \in G : Rank(G)[g] = Rank(N)[n]
    BY <1>1, <2>1, Zenon DEF Surjection
  <2>3. a[n] = CHOOSE g \in G : Cardinality({h \in G : h < g}) = Cardinality({m \in N : m < n})
    BY Zenon DEF Assign
  <2>4. \E g \in G : Cardinality({h \in G : h < g}) = Cardinality({m \in N : m < n})
    BY <2>2, Zenon DEF Rank
  <2>5. a[n] \in G /\ Cardinality({h \in G : h < a[n]}) = Cardinality({m \in N : m < n})
    BY <2>3, <2>4, Zenon
  <2> QED
    BY <2>5, Zenon DEF Rank
<1>3. a \in [N -> G]
  BY <1>2, Zenon DEF Assign
<1>4. IsInjective(a)
  BY <1>1, <1>2, <1>3, Zenon DEF IsInjective, Injection
<1>5. \A g \in G : \E n \in N : a[n] = g
  <2> TAKE g \in G
  <2>1. Rank(G)[g] \in 0..c
    BY <1>1, Zenon DEF Injection
  <2>2. PICK n \in N : Rank(N)[n] = Rank(G)[g]
    BY <1>1, <2>1, Zenon DEF Surjection
  <2> QED
    BY <1>1, <1>2, <2>2, Zenon DEF Injection, IsInjective
<1> QED
  BY <1>3, <1>4, <1>5, Zenon DEF Range

\* kalloc returns a page of the free set.
LEMMA MinIn ==
  ASSUME NEW S \in SUBSET Int, IsFiniteSet(S), S # {}
  PROVE  Min(S) \in S
<1>1. Cardinality(S) \in Nat /\ Cardinality(S) # 0
  BY FS_CardinalityType, FS_EmptySet
<1>2. 0 \in 0..(Cardinality(S) - 1)
  BY <1>1
<1>3. PICK x \in S : Rank(S)[x] = 0
  BY <1>2, RankBijection, Zenon DEF Surjection
<1>4. {y \in S : y < x} = {}
  <2>1. IsFiniteSet({y \in S : y < x}) /\ Cardinality({y \in S : y < x}) = 0
    BY <1>3, FS_Subset DEF Rank
  <2> QED
    BY <2>1, FS_EmptySet
<1>5. \A y \in S : x <= y
  BY <1>4
<1> QED
  BY <1>5, Zenon DEF Min

-----------------------------------------------------------------------------
\* Page numbers and sizes.
LEMMA SpanFacts ==
  ASSUME VmConstants, NEW lo \in Nat, NEW hi \in Nat
  PROVE  /\ Span(lo, hi) \in SUBSET Nat /\ IsFiniteSet(Span(lo, hi))
         /\ \A n \in Span(lo, hi) : n * PGSIZE >= lo /\ n * PGSIZE < hi
         /\ \A n \in Nat : n * PGSIZE < hi /\ n \notin Span(lo, hi) => n * PGSIZE < lo
<1>1. PGSIZE \in Nat /\ PGSIZE > 0
  BY DEF VmConstants
<1> DEFINE c == (lo + PGSIZE - 1) \div PGSIZE
           h == hi \div PGSIZE
<1>2. c \in Nat /\ c * PGSIZE >= lo /\ (c - 1) * PGSIZE < lo
  BY <1>1
<1>3. PGROUNDUP(lo) \div PGSIZE = c
  BY <1>1 DEF PGROUNDUP
<1>4. h \in Nat /\ \A n \in Nat : n * PGSIZE < hi => n <= h
  BY <1>1
<1>5. Span(lo, hi) = {n \in c..h : n * PGSIZE < hi}
  BY <1>3, Zenon DEF Span
<1> HIDE DEF c, h
<1>6. Span(lo, hi) \in SUBSET Nat
  BY <1>2, <1>4, <1>5
<1>7. IsFiniteSet(Span(lo, hi))
  <2>1. IsFiniteSet(c..h)
    BY <1>2, <1>4, FS_Interval
  <2> QED
    BY <1>5, <2>1, FS_Subset, Zenon
<1>8. ASSUME NEW n \in Span(lo, hi) PROVE n * PGSIZE >= lo /\ n * PGSIZE < hi
  <2>1. n \in Nat /\ n >= c
    BY <1>2, <1>4, <1>5
  <2>2. n * PGSIZE >= c * PGSIZE
    BY <1>1, <1>2, <2>1
  <2>3. n * PGSIZE \in Nat /\ c * PGSIZE \in Nat
    BY <1>1, <1>2, <2>1
  <2> QED
    BY <1>2, <1>5, <2>2, <2>3
<1>9. ASSUME NEW n \in Nat, n * PGSIZE < hi, n \notin Span(lo, hi) PROVE n * PGSIZE < lo
  <2>1. n <= h
    BY <1>4, <1>9, Zenon
  <2>2. n <= c - 1
    BY <1>2, <1>4, <1>5, <1>9, <2>1
  <2>3. n * PGSIZE <= (c - 1) * PGSIZE
    BY <1>1, <1>2, <2>2
  <2>4. n * PGSIZE \in Int /\ (c - 1) * PGSIZE \in Int
    BY <1>1, <1>2
  <2> QED
    BY <1>2, <2>3, <2>4
<1> QED
  BY <1>6, <1>7, <1>8, <1>9

\* A page number lies in a span when its address does.
LEMMA InSpan ==
  ASSUME VmConstants, NEW lo \in Nat, NEW hi \in Nat
  PROVE  \A n : n \in Span(lo, hi) <=> n \in Nat /\ n * PGSIZE >= lo /\ n * PGSIZE < hi
<1>1. \A n \in Nat : n * PGSIZE >= lo => ~(n * PGSIZE < lo)
  <2> TAKE n \in Nat
  <2>1. n * PGSIZE \in Nat
    BY DEF VmConstants
  <2> QED
    BY <2>1
<1> QED
  BY <1>1, SpanFacts, Zenon

\* Sizes between others: growth adds the pages between, a shrink removes them,
\* and a shrink to 0 leaves none.
LEMMA SpanParts ==
  ASSUME VmConstants, NEW a \in Nat, NEW b \in Nat, NEW c \in Nat
  PROVE  /\ a <= b /\ b <= c => Span(a, c) = Span(a, b) \cup Span(b, c)
         /\ b <= c => Span(a, c) \ Span(b, c) = Span(IF b < a THEN b ELSE a, b)
         /\ Span(a, c) \ Span(0, c) = Span(c, c)
         /\ Span(a, b) \cap Span(b, c) = {}
<1> DEFINE At(n) == n * PGSIZE
           m == IF b < a THEN b ELSE a
<1>1. \A n \in Nat : At(n) \in Nat
  BY DEF VmConstants
<1>2. m \in Nat /\ 0 \in Nat
  OBVIOUS
<1>3. \A lo, hi \in Nat : \A n : n \in Span(lo, hi) <=> n \in Nat /\ At(n) >= lo /\ At(n) < hi
  BY InSpan, Zenon
<1> HIDE DEF At
<1>4. ASSUME NEW n \in Nat
      PROVE  /\ a <= b /\ b <= c => (At(n) >= a /\ At(n) < c <=> (At(n) >= a /\ At(n) < b) \/ (At(n) >= b /\ At(n) < c))
             /\ b <= c => (At(n) >= a /\ At(n) < c /\ ~(At(n) >= b /\ At(n) < c) <=> At(n) >= m /\ At(n) < b)
             /\ At(n) >= a /\ At(n) < c /\ ~(At(n) >= 0 /\ At(n) < c) <=> At(n) >= c /\ At(n) < c
             /\ ~(At(n) >= a /\ At(n) < b /\ At(n) >= b /\ At(n) < c)
  BY <1>1
<1> HIDE DEF m
<1>5. ASSUME a <= b, b <= c PROVE Span(a, c) = Span(a, b) \cup Span(b, c)
  BY <1>3, <1>4, <1>5, Zenon
<1>6. ASSUME b <= c PROVE Span(a, c) \ Span(b, c) = Span(m, b)
  BY <1>2, <1>3, <1>4, <1>6, Zenon
<1>7. Span(a, c) \ Span(0, c) = Span(c, c)
  BY <1>2, <1>3, <1>4, Zenon
<1>8. Span(a, b) \cap Span(b, c) = {}
  BY <1>3, <1>4, Zenon
<1> QED
  BY <1>5, <1>6, <1>7, <1>8, Zenon DEF m

\* Growth adds the pages between, and no page lies between a size and itself.
LEMMA SpanJoin ==
  ASSUME VmConstants, NEW a \in Nat, NEW b \in Nat, NEW c \in Nat, a <= b, b <= c
  PROVE  Span(a, c) = Span(a, b) \cup Span(b, c) /\ Span(c, c) = {}
<1>1. a <= b /\ b <= c => Span(a, c) = Span(a, b) \cup Span(b, c)
  BY SpanParts
<1>2. Span(c, c) \cap Span(c, c) = {}
  BY SpanParts
<1> QED
  BY <1>1, <1>2, Zenon

-----------------------------------------------------------------------------
\* The tables on the way to a page have numbers of their own, below zero.
LEMMA WalkFacts ==
  ASSUME VmConstants, NEW n \in Nat
  PROVE  Walk(n) \in SUBSET Int /\ Walk(n) \cap Nat = {} /\ IsFiniteSet(Walk(n))
<1>1. FANOUT \in Nat /\ FANOUT > 0
  BY DEF VmConstants
<1>2. \A m \in Nat : m \div FANOUT \in Nat
  BY <1>1
<1> DEFINE pt  == n \div FANOUT
           pd  == pt \div FANOUT
           pdp == pd \div FANOUT
<1>3. pt \in Nat /\ pd \in Nat /\ pdp \in Nat
  BY <1>2, Zenon
<1> DEFINE t1 == -2 - 3 * pt
           t2 == -3 - 3 * pd
           t3 == -4 - 3 * pdp
<1>4. Walk(n) = {-1, t1, t2, t3}
  BY Zenon DEF Walk
<1> HIDE DEF pt, pd, pdp
<1>5. \A t \in {-1, t1, t2, t3} : t \in Int /\ t \notin Nat
  BY <1>3
<1> HIDE DEF t1, t2, t3
<1>6. IsFiniteSet({-1} \cup {t1}) /\ IsFiniteSet({t2} \cup {t3})
  BY FS_Singleton, FS_Union, Zenon
<1>7. IsFiniteSet(({-1} \cup {t1}) \cup ({t2} \cup {t3}))
  BY <1>6, FS_Union, Zenon
<1>8. ({-1} \cup {t1}) \cup ({t2} \cup {t3}) = {-1, t1, t2, t3}
  BY Zenon
<1> QED
  BY <1>4, <1>5, <1>7, <1>8, Zenon

\* What mappages takes for the pages N: themselves and finitely many tables.
LEMMA NeedsFacts ==
  ASSUME VmConstants, NEW N \in SUBSET Nat, IsFiniteSet(N)
  PROVE  Needs(N) \in SUBSET Int /\ Needs(N) \cap Nat = N /\ IsFiniteSet(Needs(N))
<1> DEFINE W == {Walk(n) : n \in N}
           w == [n \in N |-> Walk(n)]
<1>1. \A n \in N : Walk(n) \in SUBSET Int /\ Walk(n) \cap Nat = {} /\ IsFiniteSet(Walk(n))
  BY WalkFacts
<1>2. w \in Surjection(N, W)
  BY Zenon DEF Surjection
<1>3. IsFiniteSet(W)
  <2> HIDE DEF w, W
  <2> QED
    BY <1>2, FS_Surjection, Zenon
<1>4. \A T \in W : IsFiniteSet(T)
  BY <1>1, Zenon
<1>5. IsFiniteSet(UNION W)
  <2> HIDE DEF W
  <2> QED
    BY <1>3, <1>4, FS_UNION, Zenon
<1>6. \A x \in UNION W : x \in Int /\ x \notin Nat
  <2> TAKE x \in UNION W
  <2>1. PICK n \in N : x \in Walk(n)
    OBVIOUS
  <2>2. Walk(n) \in SUBSET Int /\ Walk(n) \cap Nat = {}
    BY <1>1, Zenon
  <2> HIDE DEF W
  <2> QED
    BY <2>1, <2>2
<1>7. Needs(N) = N \cup UNION W
  BY Zenon DEF Needs
<1> DEFINE U == UNION W
<1> HIDE DEF U
<1>8. IsFiniteSet(N \cup U)
  BY <1>5, FS_Union, Zenon DEF U
<1>9. \A x \in U : x \in Int /\ x \notin Nat
  BY <1>6, Zenon DEF U
<1>10. Needs(N) = N \cup U
  BY <1>7, Zenon DEF U
<1>11. Needs(N) \in SUBSET Int /\ Needs(N) \cap Nat = N
  <2>1. \A x \in N : x \in Nat /\ x \in Int
    OBVIOUS
  <2>2. \A x \in Needs(N) : x \in Int
    BY <1>9, <1>10, <2>1, Zenon
  <2>3. \A x : x \in Needs(N) /\ x \in Nat <=> x \in N
    BY <1>9, <1>10, <2>1, Zenon
  <2> QED
    BY <2>2, <2>3, Zenon
<1> QED
  BY <1>8, <1>10, <1>11, Zenon

\* kalloc hands out pages that were free, each once.
LEMMA FreshFacts ==
  ASSUME VmConstants, NEW f \in SUBSET Pages, NEW N \in SUBSET Int, IsFiniteSet(N), Enough(f, N)
  PROVE  Fresh(f, N) \in [N -> f] /\ IsInjective(Fresh(f, N)) /\ Range(Fresh(f, N)) \subseteq f
<1> DEFINE c == Cardinality(N)
           G == Lowest(f, c)
<1>1. IsFiniteSet(f) /\ f \in SUBSET Int
  <2>1. NPages \in Nat
    BY DEF VmConstants
  <2>2. Pages \in SUBSET Int /\ IsFiniteSet(Pages)
    BY <2>1, FS_Interval DEF Pages
  <2> QED
    BY <2>2, FS_Subset, Zenon
<1>2. c \in Nat /\ c <= Cardinality(f)
  BY FS_CardinalityType, Zenon DEF Enough
<1>3. G \in SUBSET f /\ IsFiniteSet(G) /\ Cardinality(G) = c
  <2> HIDE DEF c
  <2> QED
    BY <1>1, <1>2, LowestCount, Zenon
<1>4. Fresh(f, N) = Assign(N, G)
  BY Zenon DEF Fresh
<1> HIDE DEF G
<1>5. Assign(N, G) \in [N -> G] /\ IsInjective(Assign(N, G)) /\ Range(Assign(N, G)) = G
  <2>1. G \in SUBSET Int /\ Cardinality(N) = Cardinality(G)
    BY <1>1, <1>3, Zenon
  <2> QED
    BY <1>3, <2>1, AssignBijection, Zenon
<1>6. Assign(N, G) \in [N -> f]
  BY <1>3, <1>5, Zenon
<1> QED
  BY <1>3, <1>4, <1>5, <1>6, Zenon

\* Two maps of different page numbers to different pages.
LEMMA Joined ==
  ASSUME NEW M, NEW S, M \in [DOMAIN M -> S], IsInjective(M),
         NEW a, a \in [DOMAIN a -> S], IsInjective(a),
         DOMAIN M \cap DOMAIN a = {}, Range(M) \cap Range(a) = {}
  PROVE  /\ With(M, a) \in [DOMAIN M \cup DOMAIN a -> S] /\ IsInjective(With(M, a))
         /\ Range(With(M, a)) = Range(M) \cup Range(a)
<1> DEFINE j == With(M, a)
<1>1. j = [x \in DOMAIN M \cup DOMAIN a |-> IF x \in DOMAIN M THEN M[x] ELSE a[x]]
  BY Zenon DEF With
<1> HIDE DEF j
<1>2. DOMAIN j = DOMAIN M \cup DOMAIN a
  BY <1>1, Zenon
<1>3. /\ \A x \in DOMAIN M : j[x] = M[x] /\ M[x] \in Range(M)
      /\ \A x \in DOMAIN a : j[x] = a[x] /\ a[x] \in Range(a)
  BY <1>1, Zenon DEF Range
<1>4. j \in [DOMAIN M \cup DOMAIN a -> S]
  BY <1>1, Zenon
<1>5. ASSUME NEW x \in DOMAIN j, NEW y \in DOMAIN j, j[x] = j[y] PROVE x = y
  <2>1. CASE x \in DOMAIN M /\ y \in DOMAIN M
    BY <1>3, <1>5, <2>1, Zenon DEF IsInjective
  <2>2. CASE x \in DOMAIN a /\ y \in DOMAIN a
    BY <1>3, <1>5, <2>2, Zenon DEF IsInjective
  <2>3. CASE x \in DOMAIN M /\ y \in DOMAIN a
    BY <1>3, <1>5, <2>3, Zenon
  <2>4. CASE x \in DOMAIN a /\ y \in DOMAIN M
    BY <1>3, <1>5, <2>4, Zenon
  <2> QED
    BY <1>2, <2>1, <2>2, <2>3, <2>4, Zenon
<1>6. IsInjective(j)
  BY <1>5, Zenon DEF IsInjective
<1>7. Range(j) = Range(M) \cup Range(a)
  BY <1>2, <1>3, Zenon DEF Range
<1> QED
  BY <1>4, <1>6, <1>7, Zenon DEF j

-----------------------------------------------------------------------------
\* An address space: numbers of pages and tables, each with a page of its own.
Space(M) == M \in [DOMAIN M -> Pages] /\ DOMAIN M \in SUBSET Int /\ IsInjective(M)

\* The stack, the address space and the image of one process share no page.
SlotOK(k, M, I) == /\ k \in Pages \cup {0} /\ Space(M) /\ Space(I)
                   /\ k \notin Range(M) /\ k \notin Range(I) /\ Range(M) \cap Range(I) = {}
\* The pages it holds.
Holds(k, M, I) == ({k} \ {0}) \cup Range(M) \cup Range(I)

\* The processes and the free list share the pages out among themselves.
Shared == /\ \A p \in Slots : SlotOK(kstack[p], map[p], img[p])
          /\ \A p, q \in Slots : p # q => Holds(kstack[p], map[p], img[p]) \cap Holds(kstack[q], map[q], img[q]) = {}
          /\ free \in SUBSET Pages
          /\ \A g \in Pages : g \in free <=> \A p \in Slots : g \notin Holds(kstack[p], map[p], img[p])

\* What one process has mapped fits its state and its sizes.
Booked(st, k, M, z, l, I, iz) ==
  /\ st = "UNUSED" => k = 0 /\ DOMAIN M = {}
  /\ st # "UNUSED" => k # 0
  /\ st # "LIVE" => DOMAIN I = {}
  /\ st = "LIVE" => 0 < l /\ l <= z /\ DOMAIN M \cap Nat = Span(l, z)
  /\ DOMAIN I # {} => PGSIZE <= iz /\ DOMAIN I \cap Nat = Span(PGSIZE, iz)

\* The inductive invariant.
VmInv ==
  /\ Shared
  /\ kstack = [p \in Slots |-> kstack[p]] /\ map = [p \in Slots |-> map[p]] /\ img = [p \in Slots |-> img[p]]
  /\ sz = [p \in Slots |-> sz[p]] /\ low = [p \in Slots |-> low[p]] /\ imgsz = [p \in Slots |-> imgsz[p]]
  /\ state = [p \in Slots |-> state[p]]
  /\ \A p \in Slots : /\ sz[p] \in Nat /\ low[p] \in Nat /\ imgsz[p] \in Nat
                      /\ Booked(state[p], kstack[p], map[p], sz[p], low[p], img[p], imgsz[p])

\* A step that changes one process and trades pages with the free list.
LEMMA Trade ==
  ASSUME Shared, NEW p \in Slots,
         \A q \in Slots : q # p => kstack'[q] = kstack[q] /\ map'[q] = map[q] /\ img'[q] = img[q],
         SlotOK(kstack'[p], map'[p], img'[p]),
         NEW A, A = Holds(kstack[p], map[p], img[p]),
         NEW B, B = Holds(kstack'[p], map'[p], img'[p]),
         B \cap free' = {}, B \cup free' = A \cup free
  PROVE  Shared'
<1> DEFINE H(q) == Holds(kstack[q], map[q], img[q])
<1>1. \A q \in Slots : q # p => Holds(kstack'[q], map'[q], img'[q]) = H(q)
  BY Zenon
<1>2. \A q \in Slots : H(q) \subseteq Pages
  BY DEF Shared, SlotOK, Space, Holds, Range
<1>3. B \subseteq Pages
  BY DEF SlotOK, Space, Holds, Range
<1>4. \A q \in Slots : q # p => SlotOK(kstack'[q], map'[q], img'[q])
  BY Zenon DEF Shared
<1>5. /\ \A q, r \in Slots : q # r => H(q) \cap H(r) = {}
      /\ free \in SUBSET Pages
      /\ \A g \in Pages : g \in free <=> \A q \in Slots : g \notin H(q)
  BY Zenon DEF Shared
<1>6. free' \in SUBSET Pages
  <2>1. A \subseteq Pages
    BY <1>2, Zenon
  <2> QED
    BY <1>5, <2>1, Zenon
<1> HIDE DEF H
<1>7. ASSUME NEW q \in Slots, q # p PROVE H(q) \cap B = {}
  <2>1. H(q) \cap (A \cup free) = {}
    BY <1>2, <1>5, <1>7, Zenon DEF H
  <2> QED
    BY <2>1, Zenon
<1>8. \A g \in Pages : g \in free' <=> (g \notin B /\ \A q \in Slots : q # p => g \notin H(q))
  <2> TAKE g \in Pages
  <2>1. g \in A \cup free <=> \A q \in Slots : q # p => g \notin H(q)
    <3>1. g \in A <=> g \in H(p)
      BY Zenon DEF H
    <3> QED
      BY <1>5, <3>1, Zenon
  <2> QED
    BY <2>1, Zenon
<1> DEFINE J(q) == Holds(kstack'[q], map'[q], img'[q])
<1>j. J(p) = B /\ \A q \in Slots : q # p => J(q) = H(q)
  BY <1>1, Zenon
<1> HIDE DEF J
<1>9. \A q, r \in Slots : q # r => J(q) \cap J(r) = {}
  <2> TAKE q, r \in Slots
  <2>1. CASE q = p
    BY <1>7, <1>j, <2>1, Zenon
  <2>2. CASE r = p
    BY <1>7, <1>j, <2>2, Zenon
  <2>3. CASE q # p /\ r # p
    BY <1>5, <1>j, <2>3, Zenon
  <2> QED
    BY <2>1, <2>2, <2>3, Zenon
<1>10. \A g \in Pages : g \in free' <=> \A q \in Slots : g \notin J(q)
  <2> TAKE g \in Pages
  <2>1. ASSUME \A q \in Slots : g \notin J(q) PROVE g \notin B /\ \A q \in Slots : q # p => g \notin H(q)
    BY <1>j, <2>1, Zenon
  <2>2. ASSUME g \notin B, \A q \in Slots : q # p => g \notin H(q), NEW q \in Slots PROVE g \notin J(q)
    BY <1>j, <2>2, Zenon
  <2> QED
    BY <1>8, <2>1, <2>2, Zenon
<1> QED
  BY <1>4, <1>6, <1>9, <1>10, Zenon DEF Shared, J

\* A step of one process keeps the invariant when what it leaves the process
\* with is in order and the pages balance.
LEMMA OneChanges ==
  ASSUME VmInv, NEW p \in Slots,
         NEW st, NEW k, NEW M, NEW z \in Nat, NEW l \in Nat, NEW I, NEW iz \in Nat,
         kstack' = [kstack EXCEPT ![p] = k], map' = [map EXCEPT ![p] = M], img' = [img EXCEPT ![p] = I],
         sz' = [sz EXCEPT ![p] = z], low' = [low EXCEPT ![p] = l], imgsz' = [imgsz EXCEPT ![p] = iz],
         state' = [state EXCEPT ![p] = st],
         SlotOK(k, M, I), Booked(st, k, M, z, l, I, iz),
         Holds(k, M, I) \cap free' = {},
         Holds(k, M, I) \cup free' = Holds(kstack[p], map[p], img[p]) \cup free
  PROVE  VmInv'
<1>1. /\ Shared
      /\ kstack = [q \in Slots |-> kstack[q]] /\ map = [q \in Slots |-> map[q]] /\ img = [q \in Slots |-> img[q]]
      /\ sz = [q \in Slots |-> sz[q]] /\ low = [q \in Slots |-> low[q]] /\ imgsz = [q \in Slots |-> imgsz[q]]
      /\ state = [q \in Slots |-> state[q]]
  BY Zenon DEF VmInv
<1>2. /\ kstack' = [q \in Slots |-> kstack'[q]] /\ map' = [q \in Slots |-> map'[q]] /\ img' = [q \in Slots |-> img'[q]]
      /\ sz' = [q \in Slots |-> sz'[q]] /\ low' = [q \in Slots |-> low'[q]] /\ imgsz' = [q \in Slots |-> imgsz'[q]]
      /\ state' = [q \in Slots |-> state'[q]]
  BY <1>1, Zenon
<1>3. /\ kstack'[p] = k /\ map'[p] = M /\ img'[p] = I /\ sz'[p] = z /\ low'[p] = l /\ imgsz'[p] = iz /\ state'[p] = st
      /\ \A q \in Slots : q # p => /\ kstack'[q] = kstack[q] /\ map'[q] = map[q] /\ img'[q] = img[q] /\ sz'[q] = sz[q]
                                   /\ low'[q] = low[q] /\ imgsz'[q] = imgsz[q] /\ state'[q] = state[q]
  BY <1>1, Zenon
<1>4. Shared'
  BY <1>1, <1>3, Trade, Zenon
<1>5. ASSUME NEW q \in Slots
      PROVE  /\ sz'[q] \in Nat /\ low'[q] \in Nat /\ imgsz'[q] \in Nat
             /\ Booked(state'[q], kstack'[q], map'[q], sz'[q], low'[q], img'[q], imgsz'[q])
  <2>1. CASE q = p
    BY <1>3, <2>1, Zenon
  <2>2. CASE q # p
    <3>1. /\ sz[q] \in Nat /\ low[q] \in Nat /\ imgsz[q] \in Nat
          /\ Booked(state[q], kstack[q], map[q], sz[q], low[q], img[q], imgsz[q])
      BY Zenon DEF VmInv
    <3> QED
      BY <1>3, <2>2, <3>1, Zenon
  <2> QED
    BY <2>1, <2>2, Zenon
<1> QED
  BY <1>2, <1>4, <1>5, Zenon DEF VmInv

\* What the invariant says of one process.
LEMMA OneHas ==
  ASSUME VmConstants, VmInv, NEW p \in Slots
  PROVE  /\ kstack = [kstack EXCEPT ![p] = kstack[p]] /\ map = [map EXCEPT ![p] = map[p]]
         /\ img = [img EXCEPT ![p] = img[p]] /\ sz = [sz EXCEPT ![p] = sz[p]] /\ low = [low EXCEPT ![p] = low[p]]
         /\ imgsz = [imgsz EXCEPT ![p] = imgsz[p]] /\ state = [state EXCEPT ![p] = state[p]]
         /\ sz[p] \in Nat /\ low[p] \in Nat /\ imgsz[p] \in Nat
         /\ SlotOK(kstack[p], map[p], img[p])
         /\ Booked(state[p], kstack[p], map[p], sz[p], low[p], img[p], imgsz[p])
         /\ Holds(kstack[p], map[p], img[p]) \cap free = {}
         /\ free \in SUBSET Pages /\ free \in SUBSET Int /\ IsFiniteSet(free) /\ 0 \notin Pages
<1>1. NPages \in Nat
  BY DEF VmConstants
<1>2. Pages \in SUBSET Int /\ IsFiniteSet(Pages) /\ 0 \notin Pages
  BY <1>1, FS_Interval DEF Pages
<1>3. Shared
  BY Zenon DEF VmInv
<1>4. free \in SUBSET Pages /\ SlotOK(kstack[p], map[p], img[p])
  BY <1>3, Zenon DEF Shared
<1>5. IsFiniteSet(free) /\ free \in SUBSET Int
  BY <1>2, <1>4, FS_Subset, Zenon
<1>6. Holds(kstack[p], map[p], img[p]) \cap free = {}
  <2> DEFINE H == Holds(kstack[p], map[p], img[p])
  <2>1. \A g \in Pages : g \in free => g \notin H
    BY <1>3, Zenon DEF Shared
  <2> HIDE DEF H
  <2>2. H \cap free = {}
    BY <1>4, <2>1, Zenon
  <2> QED
    BY <2>2, Zenon DEF H
<1>7. /\ sz[p] \in Nat /\ low[p] \in Nat /\ imgsz[p] \in Nat
      /\ Booked(state[p], kstack[p], map[p], sz[p], low[p], img[p], imgsz[p])
  BY Zenon DEF VmInv
<1>8. /\ kstack = [kstack EXCEPT ![p] = kstack[p]] /\ map = [map EXCEPT ![p] = map[p]]
      /\ img = [img EXCEPT ![p] = img[p]] /\ sz = [sz EXCEPT ![p] = sz[p]] /\ low = [low EXCEPT ![p] = low[p]]
      /\ imgsz = [imgsz EXCEPT ![p] = imgsz[p]] /\ state = [state EXCEPT ![p] = state[p]]
  BY Zenon DEF VmInv
<1> QED
  BY <1>2, <1>4, <1>5, <1>6, <1>7, <1>8, Zenon

\* An address space M that shares nothing with the free pages, and what it is
\* with the pages N that allocuvm takes from them.
Apart(M, f) == Space(M) /\ f \in SUBSET Pages /\ Range(M) \cap f = {}
Larger(M, f, N) == LET a == Fresh(f, More(M, N))
                       j == With(M, a)
                   IN /\ Space(j) /\ Range(j) = Range(M) \cup Range(a) /\ Range(a) \subseteq f
                      /\ DOMAIN j \cap Nat = (DOMAIN M \cap Nat) \cup N /\ DOMAIN M \subseteq DOMAIN j

\* allocuvm: an address space with pages that were free at more numbers.
LEMMA Grown ==
  ASSUME VmConstants, NEW M, NEW f, Apart(M, f), NEW N \in SUBSET Nat, IsFiniteSet(N), Enough(f, More(M, N))
  PROVE  Larger(M, f, N)
<1> USE DEF Apart
<1> DEFINE D == More(M, N)
           a == Fresh(f, D)
           j == With(M, a)
<1>1. Needs(N) \in SUBSET Int /\ Needs(N) \cap Nat = N /\ IsFiniteSet(Needs(N))
  BY NeedsFacts
<1>2. D = Needs(N) \ DOMAIN M
  BY Zenon DEF More
<1>3. D \in SUBSET Int /\ IsFiniteSet(D)
  BY <1>1, <1>2, FS_Subset, Zenon
<1> HIDE DEF D
<1>4. Enough(f, D)
  BY Zenon DEF D
<1>5. a \in [D -> f] /\ IsInjective(a) /\ Range(a) \subseteq f
  <2>1. Fresh(f, D) \in [D -> f] /\ IsInjective(Fresh(f, D)) /\ Range(Fresh(f, D)) \subseteq f
    BY <1>3, <1>4, FreshFacts
  <2> QED
    BY <2>1, Zenon
<1> HIDE DEF a
<1>6. DOMAIN a = D /\ a \in [DOMAIN a -> Pages]
  BY <1>5, Zenon
<1>7. DOMAIN M \cap DOMAIN a = {} /\ Range(M) \cap Range(a) = {}
  BY <1>2, <1>5, <1>6, Zenon
<1>8. M \in [DOMAIN M -> Pages] /\ IsInjective(M) /\ DOMAIN M \in SUBSET Int
  BY Zenon DEF Space
<1>9. j \in [DOMAIN M \cup DOMAIN a -> Pages] /\ IsInjective(j) /\ Range(j) = Range(M) \cup Range(a)
  BY <1>5, <1>6, <1>7, <1>8, Joined, Zenon
<1>10. DOMAIN j = DOMAIN M \cup D
  BY <1>6, <1>9, Zenon
<1> HIDE DEF j
<1>11. Space(j)
  <2>1. j \in [DOMAIN j -> Pages] /\ DOMAIN j \in SUBSET Int
    BY <1>3, <1>6, <1>8, <1>9, <1>10, Zenon
  <2> QED
    BY <1>9, <2>1, Zenon DEF Space
<1>12. DOMAIN j \cap Nat = (DOMAIN M \cap Nat) \cup N
  BY <1>1, <1>2, <1>10, Zenon
<1> QED
  BY <1>5, <1>9, <1>10, <1>11, <1>12, Zenon DEF D, a, j, Larger

\* An address space with nothing in it.
LEMMA Nothing ==
  ASSUME NEW M, DOMAIN M = {}, Space(M) \/ M = <<>>
  PROVE  Space(M) /\ Range(M) = {} /\ DOMAIN M \cap Nat = {}
<1>1. DOMAIN <<>> = {} /\ <<>> \in [{} -> Pages]
  OBVIOUS
<1>2. {} \in SUBSET Int
  OBVIOUS
<1> QED
  BY <1>1, <1>2, Zenon DEF Space, Range, IsInjective

\* The numbers a new address space needs: the root, and what its pages need.
LEMMA RootFacts ==
  ASSUME VmConstants, NEW N \in SUBSET Nat, IsFiniteSet(N)
  PROVE  /\ Root \in SUBSET Int /\ IsFiniteSet(Root) /\ Root \cap Nat = {} /\ Root # {}
         /\ Root \cup Needs(N) \in SUBSET Int /\ IsFiniteSet(Root \cup Needs(N)) /\ (Root \cup Needs(N)) \cap Nat = N
<1>1. Root \in SUBSET Int /\ Root \cap Nat = {} /\ Root # {}
  BY DEF Root
<1>2. IsFiniteSet(Root)
  BY FS_Singleton, Zenon DEF Root
<1>3. Needs(N) \in SUBSET Int /\ Needs(N) \cap Nat = N /\ IsFiniteSet(Needs(N))
  BY NeedsFacts
<1>4. IsFiniteSet(Root \cup Needs(N))
  BY <1>2, <1>3, FS_Union, Zenon
<1> DEFINE R == Root
           D == Needs(N)
<1> HIDE DEF R, D
<1>5. R \cup D \in SUBSET Int /\ (R \cup D) \cap Nat = N
  BY <1>1, <1>3, Zenon DEF R, D
<1> QED
  BY <1>1, <1>2, <1>4, <1>5, Zenon DEF R, D

\* copyuvm copies the pages from the first one, when there is one.
LEMMA ForkSpan ==
  ASSUME VmConstants, NEW z \in Nat
  PROVE  Span(PGSIZE, z) = Span(IF z < PGSIZE THEN z ELSE PGSIZE, z)
<1>1. PGSIZE \in Nat /\ z <= z
  BY DEF VmConstants
<1>2. Span(PGSIZE, z) \ Span(z, z) = Span(IF z < PGSIZE THEN z ELSE PGSIZE, z) /\ Span(z, z) \cap Span(z, z) = {}
  BY <1>1, SpanParts
<1> QED
  BY <1>2, Zenon

-----------------------------------------------------------------------------
\* fork gives the child pages that were free, or panics.
LEMMA ForkStep ==
  ASSUME VmConstants, VmInv, NEW p \in Slots, NEW q \in Slots, Fork(p, q)
  PROVE  VmInv' \/ UNCHANGED memory
<1> DEFINE N == Span(PGSIZE, sz[p])
           k == Min(free)
           f == free \ {k}
           D == Root \cup Needs(N)
           a == Fresh(f, D)
           l == IF sz[p] < PGSIZE THEN sz[p] ELSE PGSIZE
<1>1. CASE free = {} \/ ~Enough(f, D) \/ ~(N \subseteq DOMAIN map[p])
  BY <1>1, Zenon DEF Fork, Panic
<1>2. CASE /\ free # {} /\ Enough(f, D)
           /\ kstack' = [kstack EXCEPT ![q] = k] /\ map' = [map EXCEPT ![q] = a]
           /\ free' = free \ ({k} \cup Range(a))
           /\ sz' = [sz EXCEPT ![q] = sz[p]] /\ low' = [low EXCEPT ![q] = l]
           /\ state' = [state EXCEPT ![q] = "LIVE"] /\ img' = img /\ imgsz' = imgsz
  <2>0. "LIVE" # "UNUSED" /\ state[p] = "LIVE" /\ state[q] = "UNUSED"
    BY Zenon DEF Fork, Runs
  <2>1. /\ sz[p] \in Nat /\ low[p] \in Nat /\ 0 < low[p] /\ low[p] <= sz[p]
        /\ free \in SUBSET Pages /\ free \in SUBSET Int /\ IsFiniteSet(free) /\ 0 \notin Pages
    BY <2>0, OneHas, Zenon DEF Booked
  <2>2. /\ kstack[q] = 0 /\ DOMAIN map[q] = {} /\ DOMAIN img[q] = {} /\ imgsz[q] \in Nat
        /\ img = [img EXCEPT ![q] = img[q]] /\ imgsz = [imgsz EXCEPT ![q] = imgsz[q]]
        /\ Space(map[q]) /\ Space(img[q])
    <3>1. Booked(state[q], kstack[q], map[q], sz[q], low[q], img[q], imgsz[q]) /\ SlotOK(kstack[q], map[q], img[q])
      BY OneHas, Zenon
    <3> QED
      BY <2>0, <3>1, OneHas, Zenon DEF Booked, SlotOK
  <2>3. Range(map[q]) = {} /\ Range(img[q]) = {}
    BY <2>2, Nothing, Zenon
  <2>4. PGSIZE \in Nat /\ PGSIZE > 0
    BY DEF VmConstants
  <2>5. l \in Nat /\ 0 < l /\ l <= sz[p]
    BY <2>1, <2>4
  <2>6. N \in SUBSET Nat /\ IsFiniteSet(N) /\ N = Span(l, sz[p])
    BY <2>1, <2>4, SpanFacts, ForkSpan, Zenon
  <2> HIDE DEF N, l
  <2>7. D \in SUBSET Int /\ IsFiniteSet(D) /\ D \cap Nat = N
    BY <2>6, RootFacts, Zenon
  <2>8. k \in free
    BY <1>2, <2>1, MinIn, Zenon
  <2> HIDE DEF k, D
  <2>9. a \in [D -> f] /\ IsInjective(a) /\ Range(a) \subseteq f
    <3>1. f \in SUBSET Pages
      BY <2>1, Zenon
    <3> HIDE DEF f
    <3> QED
      BY <1>2, <2>7, <3>1, FreshFacts, Zenon
  <2> HIDE DEF a
  <2>10. DOMAIN a = D /\ Space(a)
    <3>1. DOMAIN a = D
      BY <2>9, Zenon
    <3>2. a \in [DOMAIN a -> Pages]
      BY <2>1, <2>9, <3>1, Zenon
    <3> QED
      BY <2>7, <2>9, <3>1, <3>2, Zenon DEF Space
  <2>11. SlotOK(k, a, img[q])
    BY <2>1, <2>2, <2>3, <2>8, <2>9, <2>10, Zenon DEF SlotOK
  <2>12. Booked("LIVE", k, a, sz[p], l, img[q], imgsz[q])
    <3>1. k # 0
      BY <2>1, <2>8, Zenon
    <3> QED
      BY <2>0, <2>2, <2>5, <2>6, <2>7, <2>10, <3>1, Zenon DEF Booked
  <2>13. Holds(k, a, img[q]) = {k} \cup Range(a) /\ Holds(kstack[q], map[q], img[q]) = {}
    <3>1. k # 0
      BY <2>1, <2>8, Zenon
    <3> QED
      BY <2>2, <2>3, <3>1, Zenon DEF Holds
  <2> DEFINE B == {k} \cup Range(a)
  <2>14. B \cap free' = {} /\ B \cup free' = {} \cup free
    <3>1. B \subseteq free /\ free' = free \ B
      BY <1>2, <2>8, <2>9, Zenon
    <3> HIDE DEF B
    <3> QED
      BY <3>1, Zenon
  <2>15. /\ Holds(k, a, img[q]) \cap free' = {}
         /\ Holds(k, a, img[q]) \cup free' = Holds(kstack[q], map[q], img[q]) \cup free
    BY <2>13, <2>14, Zenon
  <2>16. img' = [img EXCEPT ![q] = img[q]] /\ imgsz' = [imgsz EXCEPT ![q] = imgsz[q]]
    BY <1>2, <2>2, Zenon
  <2>17. VmInv'
    BY <1>2, <2>1, <2>2, <2>5, <2>11, <2>12, <2>15, <2>16, OneChanges, Zenon
  <2> QED
    BY <2>17, Zenon
<1> QED
  BY <1>1, <1>2, Zenon DEF Fork

\* exit leaves the memory to wait().
LEMMA ExitStep ==
  ASSUME VmConstants, VmInv, NEW p \in Slots, Exit(p)
  PROVE  VmInv'
<1> DEFINE H == Holds(kstack[p], map[p], img[p])
<1>1. /\ state' = [state EXCEPT ![p] = "ZOMBIE"] /\ state[p] = "LIVE" /\ DOMAIN img[p] = {}
      /\ free' = free /\ kstack' = kstack /\ map' = map /\ sz' = sz /\ low' = low /\ img' = img /\ imgsz' = imgsz
  BY Zenon DEF Exit, Runs, InExec
<1>2. "ZOMBIE" # "UNUSED" /\ "ZOMBIE" # "LIVE" /\ "LIVE" # "UNUSED"
  OBVIOUS
<1>3. /\ kstack' = [kstack EXCEPT ![p] = kstack[p]] /\ map' = [map EXCEPT ![p] = map[p]]
      /\ img' = [img EXCEPT ![p] = img[p]] /\ sz' = [sz EXCEPT ![p] = sz[p]] /\ low' = [low EXCEPT ![p] = low[p]]
      /\ imgsz' = [imgsz EXCEPT ![p] = imgsz[p]]
      /\ sz[p] \in Nat /\ low[p] \in Nat /\ imgsz[p] \in Nat
      /\ SlotOK(kstack[p], map[p], img[p]) /\ state' = [state EXCEPT ![p] = "ZOMBIE"]
  BY <1>1, OneHas, Zenon
<1>4. Booked("ZOMBIE", kstack[p], map[p], sz[p], low[p], img[p], imgsz[p])
  <2>1. Booked(state[p], kstack[p], map[p], sz[p], low[p], img[p], imgsz[p])
    BY OneHas, Zenon
  <2> QED
    BY <1>1, <1>2, <2>1, Zenon DEF Booked
<1>5. H \cap free' = {} /\ H \cup free' = H \cup free
  <2>1. H \cap free = {}
    BY OneHas, Zenon
  <2> HIDE DEF H
  <2> QED
    BY <1>1, <2>1, Zenon
<1> QED
  BY <1>3, <1>4, <1>5, OneChanges, Zenon

\* wait() frees the stack, the tables and the pages of the zombie, all of them its own.
LEMMA ReapStep ==
  ASSUME VmConstants, VmInv, NEW q \in Slots, Reap(q)
  PROVE  VmInv'
<1> DEFINE k == kstack[q]
           M == map[q]
<1>1. /\ free' = free \cup {k} \cup Range(M)
      /\ kstack' = [kstack EXCEPT ![q] = 0] /\ map' = [map EXCEPT ![q] = <<>>]
      /\ state' = [state EXCEPT ![q] = "UNUSED"] /\ state[q] = "ZOMBIE"
      /\ sz' = sz /\ low' = low /\ img' = img /\ imgsz' = imgsz
  BY Zenon DEF Reap, Freevm
<1>2. "ZOMBIE" # "UNUSED" /\ "ZOMBIE" # "LIVE" /\ "LIVE" # "UNUSED" /\ DOMAIN <<>> = {}
  OBVIOUS
<1>3. /\ img' = [img EXCEPT ![q] = img[q]] /\ sz' = [sz EXCEPT ![q] = sz[q]] /\ low' = [low EXCEPT ![q] = low[q]]
      /\ imgsz' = [imgsz EXCEPT ![q] = imgsz[q]]
      /\ sz[q] \in Nat /\ low[q] \in Nat /\ imgsz[q] \in Nat /\ 0 \notin Pages
      /\ SlotOK(k, M, img[q])
  BY <1>1, OneHas, Zenon
<1>4. Booked(state[q], k, M, sz[q], low[q], img[q], imgsz[q])
  BY OneHas, Zenon
<1>5. k # 0 /\ DOMAIN img[q] = {}
  BY <1>1, <1>2, <1>4, Zenon DEF Booked
<1>6. Booked("UNUSED", 0, <<>>, sz[q], low[q], img[q], imgsz[q])
  BY <1>2, <1>5, Zenon DEF Booked
<1>7. Range(<<>>) = {} /\ Space(<<>>) /\ Space(img[q]) /\ Range(img[q]) = {}
  BY <1>2, <1>3, <1>5, Nothing, Zenon DEF SlotOK
<1>8. SlotOK(0, <<>>, img[q]) /\ Holds(0, <<>>, img[q]) = {}
  BY <1>7, Zenon DEF SlotOK, Holds
<1>9. Holds(k, M, img[q]) = {k} \cup Range(M)
  BY <1>5, <1>7, Zenon DEF Holds
<1>10. {} \cap free' = {} /\ {} \cup free' = ({k} \cup Range(M)) \cup free
  BY <1>1, Zenon
<1>11. /\ Holds(0, <<>>, img[q]) \cap free' = {}
       /\ Holds(0, <<>>, img[q]) \cup free' = Holds(k, M, img[q]) \cup free
  BY <1>8, <1>9, <1>10, Zenon
<1>12. /\ kstack' = [kstack EXCEPT ![q] = 0] /\ map' = [map EXCEPT ![q] = <<>>] /\ SlotOK(0, <<>>, img[q])
       /\ state' = [state EXCEPT ![q] = "UNUSED"]
  BY <1>1, <1>8, Zenon
<1> QED
  BY <1>3, <1>6, <1>11, <1>12, OneChanges, Zenon

\* allocuvm maps free pages from the size up, or panics.
LEMMA AllocStep ==
  ASSUME VmConstants, VmInv, NEW p \in Slots, state[p] = "LIVE", NEW new \in Nat, sz[p] <= new, Allocuvm(p, new)
  PROVE  VmInv' \/ UNCHANGED memory
<1> DEFINE k == kstack[p]
           M == map[p]
           I == img[p]
           N == Span(sz[p], new)
           a == Fresh(free, More(M, N))
           j == With(M, a)
<1>1. CASE ~Enough(free, More(M, N))
  BY <1>1, Zenon DEF Allocuvm, Panic
<1>2. CASE /\ Enough(free, More(M, N))
           /\ map' = [map EXCEPT ![p] = j] /\ free' = free \ Range(a) /\ sz' = [sz EXCEPT ![p] = new]
           /\ kstack' = kstack /\ low' = low /\ img' = img /\ imgsz' = imgsz /\ state' = state
  <2>1. /\ kstack' = [kstack EXCEPT ![p] = k] /\ img' = [img EXCEPT ![p] = I] /\ low' = [low EXCEPT ![p] = low[p]]
        /\ imgsz' = [imgsz EXCEPT ![p] = imgsz[p]] /\ state' = [state EXCEPT ![p] = "LIVE"]
        /\ map' = [map EXCEPT ![p] = j] /\ sz' = [sz EXCEPT ![p] = new]
    BY <1>2, OneHas, Zenon
  <2>2. /\ sz[p] \in Nat /\ low[p] \in Nat /\ imgsz[p] \in Nat
        /\ SlotOK(k, M, I) /\ Booked("LIVE", k, M, sz[p], low[p], I, imgsz[p])
        /\ Holds(k, M, I) \cap free = {} /\ free \in SUBSET Pages
    BY OneHas, Zenon
  <2>3. N \in SUBSET Nat /\ IsFiniteSet(N)
    BY <2>2, SpanFacts, Zenon
  <2>4. Space(M) /\ Range(M) \cap free = {} /\ Range(M) \subseteq Holds(k, M, I)
    BY <2>2, Zenon DEF SlotOK, Holds
  <2>5. /\ Space(j) /\ Range(j) = Range(M) \cup Range(a) /\ Range(a) \subseteq free
        /\ DOMAIN j \cap Nat = (DOMAIN M \cap Nat) \cup N
    <3>1. Enough(free, More(M, N)) /\ Apart(M, free)
      BY <1>2, <2>2, <2>4, Zenon DEF Apart
    <3> HIDE DEF M, N
    <3>2. Larger(M, free, N)
      BY <2>3, <3>1, Grown, Zenon
    <3> QED
      BY <3>2, Zenon DEF Larger
  <2>6. 0 < low[p] /\ low[p] <= sz[p] /\ DOMAIN M \cap Nat = Span(low[p], sz[p]) /\ k # 0
    <3>1. "LIVE" # "UNUSED"
      OBVIOUS
    <3> QED
      BY <2>2, <3>1, Zenon DEF Booked
  <2>7. DOMAIN j \cap Nat = Span(low[p], new) /\ low[p] <= new
    <3>1. low[p] <= new
      BY <2>2, <2>6
    <3>2. Span(low[p], new) = Span(low[p], sz[p]) \cup N
      BY <2>2, <2>6, SpanJoin, Zenon
    <3> QED
      BY <2>5, <2>6, <3>1, <3>2, Zenon
  <2> HIDE DEF j, a, N
  <2>8. Booked("LIVE", k, j, new, low[p], I, imgsz[p])
    BY <2>2, <2>6, <2>7, Zenon DEF Booked
  <2> DEFINE H == Holds(k, M, I)
             R == Range(a)
  <2>9. k \notin R /\ Range(I) \cap R = {}
    <3>1. k \in H /\ Range(I) \subseteq H
      BY <2>6, Zenon DEF Holds
    <3> HIDE DEF H, R
    <3> QED
      BY <2>2, <2>5, <3>1, Zenon DEF H, R
  <2>10. SlotOK(k, j, I)
    BY <2>2, <2>5, <2>9, Zenon DEF SlotOK
  <2>11. Holds(k, j, I) = H \cup R
    BY <2>5, Zenon DEF Holds
  <2>12. (H \cup R) \cap free' = {} /\ (H \cup R) \cup free' = H \cup free
    <3>1. H \cap free = {} /\ R \subseteq free /\ free' = free \ R
      BY <1>2, <2>2, <2>5, Zenon
    <3> HIDE DEF H, R
    <3> QED
      BY <3>1, Zenon
  <2>13. Holds(k, j, I) \cap free' = {} /\ Holds(k, j, I) \cup free' = Holds(kstack[p], map[p], img[p]) \cup free
    BY <2>11, <2>12, Zenon
  <2>14. sz[p] \in Nat /\ low[p] \in Nat /\ imgsz[p] \in Nat
    BY <2>2, Zenon
  <2>15. VmInv'
    BY <2>1, <2>8, <2>10, <2>13, <2>14, OneChanges, Zenon
  <2> QED
    BY <2>15, Zenon
<1> QED
  BY <1>1, <1>2, Zenon DEF Allocuvm

\* An address space without some of its pages.
LEMMA Cut ==
  ASSUME NEW M, Space(M), NEW N \in SUBSET DOMAIN M
  PROVE  LET R == Restrict(M, DOMAIN M \ N)
             F == {M[n] : n \in N}
         IN Space(R) /\ DOMAIN R = DOMAIN M \ N /\ F \subseteq Range(M) /\ Range(R) = Range(M) \ F
<1> DEFINE R == Restrict(M, DOMAIN M \ N)
           F == {M[n] : n \in N}
<1>1. R = [n \in DOMAIN M \ N |-> M[n]]
  BY Zenon DEF Restrict
<1>2. DOMAIN R = DOMAIN M \ N /\ \A n \in DOMAIN R : R[n] = M[n]
  BY <1>1, Zenon
<1> HIDE DEF R
<1>3. Space(R)
  <2>1. R \in [DOMAIN R -> Pages] /\ DOMAIN R \in SUBSET Int
    BY <1>1, <1>2, Zenon DEF Space
  <2>2. IsInjective(R)
    BY <1>2, Zenon DEF Space, IsInjective
  <2> QED
    BY <2>1, <2>2, Zenon DEF Space
<1>4. F \subseteq Range(M)
  BY Zenon DEF Range
<1>5. ASSUME NEW n \in DOMAIN R PROVE R[n] \in Range(M) /\ R[n] \notin F
  <2>1. n \in DOMAIN M /\ n \notin N /\ R[n] = M[n]
    BY <1>2, <1>5, Zenon
  <2> QED
    BY <2>1, Zenon DEF Space, IsInjective, Range
<1>6. ASSUME NEW n \in DOMAIN M, M[n] \notin F PROVE M[n] \in Range(R)
  <2>1. n \in DOMAIN R
    BY <1>2, <1>6, Zenon
  <2> QED
    BY <1>2, <2>1, Zenon DEF Range
<1>7. Range(R) = Range(M) \ F
  <2>1. Range(R) = {R[n] : n \in DOMAIN R} /\ Range(M) = {M[n] : n \in DOMAIN M}
    BY Zenon DEF Range
  <2>2. \A g \in Range(R) : g \in Range(M) \ F
    BY <1>5, <2>1, Zenon
  <2>3. \A g \in Range(M) : g \notin F => g \in Range(R)
    BY <1>6, <2>1, Zenon
  <2> QED
    BY <2>2, <2>3, Zenon
<1> QED
  BY <1>2, <1>3, <1>4, <1>7, Zenon DEF R

\* deallocuvm frees the pages it unmaps, once each; after a shrink to 0 there
\* are none, and the size is what it was.
LEMMA DeallocStep ==
  ASSUME VmConstants, VmInv, NEW p \in Slots, state[p] = "LIVE", NEW new \in Nat, new <= sz[p], Deallocuvm(p, new)
  PROVE  VmInv'
<1> DEFINE k == kstack[p]
           M == map[p]
           I == img[p]
           S == Span(new, sz[p])
           N == S \cap DOMAIN M
           R == Restrict(M, DOMAIN M \ N)
           F == {M[n] : n \in N}
           z == IF new = 0 THEN sz[p] ELSE new
           l == IF new = 0 THEN sz[p] ELSE IF new < low[p] THEN new ELSE low[p]
<1>1. /\ free' = free \cup F /\ map' = [map EXCEPT ![p] = R]
      /\ sz' = [sz EXCEPT ![p] = z] /\ low' = [low EXCEPT ![p] = l]
      /\ kstack' = kstack /\ img' = img /\ imgsz' = imgsz /\ state' = state
  BY Zenon DEF Deallocuvm
<1>2. /\ kstack' = [kstack EXCEPT ![p] = k] /\ img' = [img EXCEPT ![p] = I] /\ map' = [map EXCEPT ![p] = R]
      /\ sz' = [sz EXCEPT ![p] = z] /\ low' = [low EXCEPT ![p] = l]
      /\ imgsz' = [imgsz EXCEPT ![p] = imgsz[p]] /\ state' = [state EXCEPT ![p] = "LIVE"]
  BY <1>1, OneHas, Zenon
<1>3. /\ sz[p] \in Nat /\ low[p] \in Nat /\ imgsz[p] \in Nat
      /\ SlotOK(k, M, I) /\ Booked("LIVE", k, M, sz[p], low[p], I, imgsz[p])
      /\ Holds(k, M, I) \cap free = {}
  BY OneHas, Zenon
<1>4. 0 < low[p] /\ low[p] <= sz[p] /\ DOMAIN M \cap Nat = Span(low[p], sz[p]) /\ k # 0
  <2>1. "LIVE" # "UNUSED"
    OBVIOUS
  <2> QED
    BY <1>3, <2>1, Zenon DEF Booked
<1>5. z \in Nat /\ l \in Nat /\ 0 < l /\ l <= z
  BY <1>3, <1>4
<1>6. Space(R) /\ DOMAIN R = DOMAIN M \ N /\ F \subseteq Range(M) /\ Range(R) = Range(M) \ F
  <2>1. Space(M) /\ N \in SUBSET DOMAIN M
    BY <1>3, Zenon DEF SlotOK
  <2> HIDE DEF M, N
  <2> QED
    BY <2>1, Cut, Zenon
<1>7. DOMAIN R \cap Nat = Span(l, z)
  <2>1. DOMAIN R \cap Nat = Span(low[p], sz[p]) \ S
    <3>1. DOMAIN R \cap Nat = (DOMAIN M \cap Nat) \ S
      <4>1. DOMAIN R = DOMAIN M \ N /\ N = S \cap DOMAIN M
        BY <1>6, Zenon
      <4> HIDE DEF R, M, N, S
      <4> QED
        BY <4>1, Zenon
    <3> QED
      BY <1>4, <3>1, Zenon
  <2>2. CASE new = 0
    <3>1. Span(low[p], sz[p]) \ Span(0, sz[p]) = Span(sz[p], sz[p])
      BY <1>3, SpanParts
    <3> QED
      BY <2>1, <2>2, <3>1, Zenon
  <2>3. CASE new # 0
    <3>1. Span(low[p], sz[p]) \ Span(new, sz[p]) = Span(IF new < low[p] THEN new ELSE low[p], new)
      BY <1>3, SpanParts
    <3> QED
      BY <2>1, <2>3, <3>1, Zenon
  <2> QED
    BY <2>2, <2>3, Zenon
<1> HIDE DEF z, l, R, F, N
<1>8. Booked("LIVE", k, R, z, l, I, imgsz[p])
  BY <1>3, <1>4, <1>5, <1>7, Zenon DEF Booked
<1>9. SlotOK(k, R, I)
  BY <1>3, <1>6, Zenon DEF SlotOK
<1> DEFINE H == Holds(k, M, I)
<1>10. F \subseteq H /\ Holds(k, R, I) = H \ F
  BY <1>3, <1>6, Zenon DEF Holds, SlotOK
<1>11. (H \ F) \cap free' = {} /\ (H \ F) \cup free' = H \cup free
  <2>1. H \cap free = {} /\ free' = free \cup F
    BY <1>1, <1>3, Zenon
  <2> HIDE DEF H
  <2> QED
    BY <1>10, <2>1, Zenon
<1>12. Holds(k, R, I) \cap free' = {} /\ Holds(k, R, I) \cup free' = Holds(kstack[p], map[p], img[p]) \cup free
  BY <1>10, <1>11, Zenon
<1>13. imgsz[p] \in Nat
  BY <1>3, Zenon
<1> QED
  BY <1>2, <1>5, <1>8, <1>9, <1>12, <1>13, OneChanges, Zenon

\* sbrk, whatever the upper half of its argument holds.
LEMMA SbrkStep ==
  ASSUME VmConstants, VmInv, NEW p \in Slots, NEW n \in Deltas, Sbrk(p, n)
  PROVE  VmInv' \/ UNCHANGED memory
<1>1. state[p] = "LIVE" /\ sz[p] \in Nat
  BY OneHas, Zenon DEF Sbrk, Runs
<1>2. n \in Int /\ UINT \in Nat
  BY DEF Deltas, VmConstants
<1>3. PICK w \in Widened(n) : \/ w > 0 /\ Allocuvm(p, sz[p] + w)
                              \/ w < 0 /\ sz[p] + w >= 0 /\ Deallocuvm(p, sz[p] + w)
                              \/ w < 0 /\ sz[p] + w < 0 /\ UNCHANGED vars
  BY Zenon DEF Sbrk
<1>4. w \in Int
  BY <1>2 DEF Widened
<1>5. CASE w > 0 /\ Allocuvm(p, sz[p] + w)
  <2>1. sz[p] + w \in Nat /\ sz[p] <= sz[p] + w
    BY <1>1, <1>4, <1>5
  <2> QED
    BY <1>1, <1>5, <2>1, AllocStep, Zenon
<1>6. CASE w < 0 /\ sz[p] + w >= 0 /\ Deallocuvm(p, sz[p] + w)
  <2>1. sz[p] + w \in Nat /\ sz[p] + w <= sz[p]
    BY <1>1, <1>4, <1>6
  <2> QED
    BY <1>1, <1>6, <2>1, DeallocStep, Zenon
<1>7. CASE UNCHANGED vars
  BY <1>7, Zenon DEF vars
<1> QED
  BY <1>3, <1>5, <1>6, <1>7, Zenon

-----------------------------------------------------------------------------
\* exec starts a new address space with a page that was free, or panics.
LEMMA BeginStep ==
  ASSUME VmConstants, VmInv, NEW p \in Slots, ExecBegin(p)
  PROVE  VmInv' \/ UNCHANGED memory
<1> DEFINE k == kstack[p]
           M == map[p]
           I == img[p]
           a == Fresh(free, Root)
<1>1. CASE ~Enough(free, Root)
  BY <1>1, Zenon DEF ExecBegin, Panic
<1>2. CASE /\ Enough(free, Root)
           /\ img' = [img EXCEPT ![p] = a] /\ imgsz' = [imgsz EXCEPT ![p] = PGSIZE] /\ free' = free \ Range(a)
           /\ kstack' = kstack /\ map' = map /\ sz' = sz /\ low' = low /\ state' = state
  <2>0. state[p] = "LIVE" /\ DOMAIN I = {} /\ "LIVE" # "UNUSED"
    BY Zenon DEF ExecBegin, Runs, InExec
  <2>1. /\ kstack' = [kstack EXCEPT ![p] = k] /\ map' = [map EXCEPT ![p] = M] /\ low' = [low EXCEPT ![p] = low[p]]
        /\ sz' = [sz EXCEPT ![p] = sz[p]] /\ state' = [state EXCEPT ![p] = "LIVE"]
        /\ img' = [img EXCEPT ![p] = a] /\ imgsz' = [imgsz EXCEPT ![p] = PGSIZE]
    BY <1>2, <2>0, OneHas, Zenon
  <2>2. /\ sz[p] \in Nat /\ low[p] \in Nat
        /\ SlotOK(k, M, I) /\ Booked("LIVE", k, M, sz[p], low[p], I, imgsz[p])
        /\ Holds(k, M, I) \cap free = {} /\ free \in SUBSET Pages
    BY <2>0, OneHas, Zenon
  <2>3. PGSIZE \in Nat /\ PGSIZE <= PGSIZE
    BY DEF VmConstants
  <2>4. Root \in SUBSET Int /\ IsFiniteSet(Root) /\ Root \cap Nat = {}
    <3>1. {} \in SUBSET Nat /\ IsFiniteSet({})
      BY FS_EmptySet
    <3> QED
      BY <3>1, RootFacts, Zenon
  <2>5. a \in [Root -> free] /\ IsInjective(a) /\ Range(a) \subseteq free
    BY <1>2, <2>2, <2>4, FreshFacts, Zenon
  <2> HIDE DEF a
  <2>6. DOMAIN a = Root /\ Space(a)
    <3>1. DOMAIN a = Root
      BY <2>5, Zenon
    <3>2. a \in [DOMAIN a -> Pages]
      BY <2>2, <2>5, <3>1, Zenon
    <3> QED
      BY <2>4, <2>5, <3>1, <3>2, Zenon DEF Space
  <2>7. DOMAIN a \cap Nat = Span(PGSIZE, PGSIZE)
    <3>1. Span(PGSIZE, PGSIZE) = {}
      BY <2>3, SpanJoin, Zenon
    <3> QED
      BY <2>4, <2>6, <3>1, Zenon
  <2>8. Booked("LIVE", k, M, sz[p], low[p], a, PGSIZE)
    BY <2>0, <2>2, <2>3, <2>7, Zenon DEF Booked
  <2>9. Range(I) = {} /\ k # 0
    <3>1. Space(I) /\ k # 0
      BY <2>0, <2>2, Zenon DEF SlotOK, Booked
    <3> QED
      BY <2>0, <3>1, Nothing, Zenon
  <2> DEFINE H == Holds(k, M, I)
             R == Range(a)
  <2>10. H = {k} \cup Range(M) /\ Holds(k, M, a) = H \cup R
    BY <2>9, Zenon DEF Holds
  <2>11. SlotOK(k, M, a)
    <3>1. {k} \cup Range(M) \subseteq H /\ H \cap R = {}
      BY <2>2, <2>5, <2>10, Zenon
    <3>2. k \notin R /\ Range(M) \cap R = {}
      BY <3>1, Zenon
    <3> QED
      BY <2>2, <2>6, <3>2, Zenon DEF SlotOK
  <2>12. (H \cup R) \cap free' = {} /\ (H \cup R) \cup free' = H \cup free
    <3>1. H \cap free = {} /\ R \subseteq free /\ free' = free \ R
      BY <1>2, <2>2, <2>5, Zenon
    <3> HIDE DEF H, R
    <3> QED
      BY <3>1, Zenon
  <2>13. Holds(k, M, a) \cap free' = {} /\ Holds(k, M, a) \cup free' = Holds(kstack[p], map[p], img[p]) \cup free
    BY <2>10, <2>12, Zenon
  <2>14. sz[p] \in Nat /\ low[p] \in Nat /\ PGSIZE \in Nat
    BY <2>2, <2>3, Zenon
  <2>15. VmInv'
    BY <2>1, <2>8, <2>11, <2>13, <2>14, OneChanges, Zenon
  <2> QED
    BY <2>15, Zenon
<1> QED
  BY <1>1, <1>2, Zenon DEF ExecBegin

\* What exec has built, with the pages up to new.
LargerImage(p, new) ==
  LET a == Fresh(free, More(img[p], Span(imgsz[p], new)))
      j == With(img[p], a)
  IN /\ Space(j) /\ Range(j) = Range(img[p]) \cup Range(a) /\ Range(a) \subseteq free
     /\ DOMAIN j \cap Nat = Span(PGSIZE, new) /\ PGSIZE <= new

\* The image that exec builds grows by free pages, up to the new size.
LEMMA ImageGrows ==
  ASSUME VmConstants, VmInv, NEW p \in Slots, InExec(p), NEW new \in Nat, imgsz[p] <= new,
         Enough(free, More(img[p], Span(imgsz[p], new)))
  PROVE  LargerImage(p, new)
<1> DEFINE k == kstack[p]
           M == map[p]
           I == img[p]
           N == Span(imgsz[p], new)
           a == Fresh(free, More(I, N))
           j == With(I, a)
<1>1. /\ imgsz[p] \in Nat /\ SlotOK(k, M, I) /\ Booked(state[p], k, M, sz[p], low[p], I, imgsz[p])
      /\ Holds(k, M, I) \cap free = {} /\ free \in SUBSET Pages
  BY OneHas, Zenon
<1>2. DOMAIN I # {} /\ PGSIZE <= imgsz[p] /\ DOMAIN I \cap Nat = Span(PGSIZE, imgsz[p])
  BY <1>1, Zenon DEF InExec, Booked
<1>3. N \in SUBSET Nat /\ IsFiniteSet(N)
  BY <1>1, SpanFacts, Zenon
<1>4. Apart(I, free)
  <2>1. Range(I) \subseteq Holds(k, M, I) /\ Space(I)
    BY <1>1, Zenon DEF Holds, SlotOK
  <2> QED
    BY <1>1, <2>1, Zenon DEF Apart
<1>5. Larger(I, free, N)
  <2>1. Enough(free, More(I, N))
    BY Zenon
  <2> HIDE DEF I, N
  <2> QED
    BY <1>3, <1>4, <2>1, Grown, Zenon
<1>6. /\ Space(j) /\ Range(j) = Range(I) \cup Range(a) /\ Range(a) \subseteq free
      /\ DOMAIN j \cap Nat = (DOMAIN I \cap Nat) \cup N /\ DOMAIN I \subseteq DOMAIN j
  BY <1>5, Zenon DEF Larger
<1> HIDE DEF j
<1>8. PGSIZE \in Nat
  BY DEF VmConstants
<1>9. PGSIZE <= new
  BY <1>1, <1>2, <1>8
<1>10. DOMAIN j \cap Nat = Span(PGSIZE, new)
  <2>1. Span(PGSIZE, new) = Span(PGSIZE, imgsz[p]) \cup N
    BY <1>1, <1>2, <1>8, SpanJoin, Zenon
  <2> QED
    BY <1>2, <1>6, <2>1, Zenon
<1> QED
  BY <1>6, <1>9, <1>10, Zenon DEF j, LargerImage

\* allocuvm in exec adds to the image pages that were free, or panics.
LEMMA LoadStep ==
  ASSUME VmConstants, VmInv, NEW p \in Slots, NEW i \in Images, ExecLoad(p, i)
  PROVE  VmInv' \/ UNCHANGED memory
<1> DEFINE k == kstack[p]
           M == map[p]
           I == img[p]
           N == Span(imgsz[p], i)
           a == Fresh(free, More(I, N))
           j == With(I, a)
<1>1. CASE ~Enough(free, More(I, N))
  BY <1>1, Zenon DEF ExecLoad, Panic
<1>2. CASE /\ Enough(free, More(I, N))
           /\ img' = [img EXCEPT ![p] = j] /\ imgsz' = [imgsz EXCEPT ![p] = i] /\ free' = free \ Range(a)
           /\ kstack' = kstack /\ map' = map /\ sz' = sz /\ low' = low /\ state' = state
  <2>0. state[p] = "LIVE" /\ InExec(p) /\ i > imgsz[p] /\ "LIVE" # "UNUSED"
    BY Zenon DEF ExecLoad
  <2>1. /\ kstack' = [kstack EXCEPT ![p] = k] /\ map' = [map EXCEPT ![p] = M] /\ low' = [low EXCEPT ![p] = low[p]]
        /\ sz' = [sz EXCEPT ![p] = sz[p]] /\ state' = [state EXCEPT ![p] = "LIVE"]
        /\ img' = [img EXCEPT ![p] = j] /\ imgsz' = [imgsz EXCEPT ![p] = i]
    BY <1>2, <2>0, OneHas, Zenon
  <2>2. /\ sz[p] \in Nat /\ low[p] \in Nat /\ imgsz[p] \in Nat
        /\ SlotOK(k, M, I) /\ Booked("LIVE", k, M, sz[p], low[p], I, imgsz[p])
        /\ Holds(k, M, I) \cap free = {} /\ free \in SUBSET Pages
    BY <2>0, OneHas, Zenon
  <2>3. i \in Nat /\ imgsz[p] <= i
    <3>1. i \in Nat
      BY DEF VmConstants
    <3> QED
      BY <2>0, <2>2, <3>1
  <2>4. /\ Space(j) /\ Range(j) = Range(I) \cup Range(a) /\ Range(a) \subseteq free
        /\ DOMAIN j \cap Nat = Span(PGSIZE, i) /\ PGSIZE <= i
    <3>1. Enough(free, More(img[p], Span(imgsz[p], i)))
      BY <1>2, Zenon
    <3>2. LargerImage(p, i)
      BY <2>0, <2>3, <3>1, ImageGrows, Zenon
    <3> QED
      BY <3>2, Zenon DEF LargerImage
  <2> HIDE DEF j, a
  <2>5. Booked("LIVE", k, M, sz[p], low[p], j, i)
    BY <2>0, <2>2, <2>4, Zenon DEF Booked
  <2> DEFINE H == Holds(k, M, I)
             R == Range(a)
  <2>6. k # 0 /\ k \in H /\ Range(M) \subseteq H
    <3>1. k # 0
      BY <2>0, <2>2, Zenon DEF Booked
    <3> QED
      BY <3>1, Zenon DEF Holds
  <2>7. Holds(k, M, j) = H \cup R
    BY <2>4, Zenon DEF Holds
  <2>8. SlotOK(k, M, j)
    <3>1. k \notin R /\ Range(M) \cap R = {}
      <4>1. H \cap free = {} /\ R \subseteq free
        BY <2>2, <2>4, Zenon
      <4> HIDE DEF H, R
      <4> QED
        BY <2>6, <4>1, Zenon
    <3> QED
      BY <2>2, <2>4, <3>1, Zenon DEF SlotOK
  <2>9. (H \cup R) \cap free' = {} /\ (H \cup R) \cup free' = H \cup free
    <3>1. H \cap free = {} /\ R \subseteq free /\ free' = free \ R
      BY <1>2, <2>2, <2>4, Zenon
    <3> HIDE DEF H, R
    <3> QED
      BY <3>1, Zenon
  <2>10. Holds(k, M, j) \cap free' = {} /\ Holds(k, M, j) \cup free' = Holds(kstack[p], map[p], img[p]) \cup free
    BY <2>7, <2>9, Zenon
  <2>11. sz[p] \in Nat /\ low[p] \in Nat
    BY <2>2, Zenon
  <2>12. VmInv'
    BY <2>1, <2>3, <2>5, <2>8, <2>10, <2>11, OneChanges, Zenon
  <2> QED
    BY <2>12, Zenon
<1> QED
  BY <1>1, <1>2, Zenon DEF ExecLoad

\* goto_bad frees the image, all of it its own.
LEMMA BadStep ==
  ASSUME VmConstants, VmInv, NEW p \in Slots, ExecBad(p)
  PROVE  VmInv'
<1> DEFINE k == kstack[p]
           M == map[p]
           I == img[p]
<1>1. /\ free' = free \cup Range(I) /\ img' = [img EXCEPT ![p] = <<>>] /\ imgsz' = [imgsz EXCEPT ![p] = 0]
      /\ kstack' = kstack /\ map' = map /\ sz' = sz /\ low' = low /\ state' = state /\ state[p] = "LIVE"
  BY Zenon DEF ExecBad, Freevm
<1>2. /\ kstack' = [kstack EXCEPT ![p] = k] /\ map' = [map EXCEPT ![p] = M] /\ low' = [low EXCEPT ![p] = low[p]]
      /\ sz' = [sz EXCEPT ![p] = sz[p]] /\ state' = [state EXCEPT ![p] = "LIVE"]
      /\ img' = [img EXCEPT ![p] = <<>>] /\ imgsz' = [imgsz EXCEPT ![p] = 0]
      /\ sz[p] \in Nat /\ low[p] \in Nat
  BY <1>1, OneHas, Zenon
<1>3. /\ SlotOK(k, M, I) /\ Booked("LIVE", k, M, sz[p], low[p], I, imgsz[p])
      /\ Holds(k, M, I) \cap free = {}
  BY <1>1, OneHas, Zenon
<1>4. Space(<<>>) /\ Range(<<>>) = {} /\ DOMAIN <<>> = {} /\ 0 \in Nat
  <2>1. DOMAIN <<>> = {} /\ 0 \in Nat
    OBVIOUS
  <2> QED
    BY <2>1, Nothing, Zenon
<1>5. SlotOK(k, M, <<>>) /\ Booked("LIVE", k, M, sz[p], low[p], <<>>, 0)
  BY <1>3, <1>4, Zenon DEF SlotOK, Booked
<1> DEFINE H == Holds(k, M, <<>>)
           R == Range(I)
<1>6. Holds(k, M, I) = H \cup R /\ H \cap R = {}
  BY <1>3, <1>4, Zenon DEF Holds, SlotOK
<1>7. H \cap free' = {} /\ H \cup free' = (H \cup R) \cup free
  <2>1. (H \cup R) \cap free = {} /\ free' = free \cup R /\ H \cap R = {}
    BY <1>1, <1>3, <1>6, Zenon
  <2> HIDE DEF H, R
  <2> QED
    BY <2>1, Zenon
<1>8. Holds(k, M, <<>>) \cap free' = {} /\ Holds(k, M, <<>>) \cup free' = Holds(kstack[p], map[p], img[p]) \cup free
  BY <1>6, <1>7, Zenon
<1> QED
  BY <1>2, <1>4, <1>5, <1>8, OneChanges, Zenon

\* The stack goes above what exec has loaded.
LEMMA TopAbove ==
  ASSUME VmConstants, VmInv, NEW p \in Slots
  PROVE  Top(p) \in Nat /\ imgsz[p] <= Top(p)
<1>1. PGSIZE \in Nat /\ PGSIZE > 0
  BY DEF VmConstants
<1>2. imgsz[p] \in Nat
  BY OneHas, Zenon
<1> QED
  BY <1>1, <1>2 DEF Top, PGROUNDUP

\* The rest of exec: the process trades its address space for the image, or
\* loses the image, or the kernel panics.
LEMMA EndStep ==
  ASSUME VmConstants, VmInv, NEW p \in Slots, NEW copy, ExecEnd(p, copy)
  PROVE  VmInv' \/ UNCHANGED memory
<1> DEFINE k == kstack[p]
           M == map[p]
           I == img[p]
           N == Span(imgsz[p], Top(p))
           a == Fresh(free, More(I, N))
           j == With(I, a)
<1>1. CASE ~Enough(free, More(I, N))
  BY <1>1, Zenon DEF ExecEnd, Panic
<1>2. CASE /\ Enough(free, More(I, N))
           /\ free' = (free \ Range(a)) \cup Freevm(IF copy = "fits" THEN M ELSE j)
           /\ map' = [map EXCEPT ![p] = IF copy = "fits" THEN j ELSE M]
           /\ sz' = [sz EXCEPT ![p] = IF copy = "fits" THEN Top(p) ELSE sz[p]]
           /\ low' = [low EXCEPT ![p] = IF copy = "fits" THEN PGSIZE ELSE low[p]]
           /\ img' = [img EXCEPT ![p] = <<>>] /\ imgsz' = [imgsz EXCEPT ![p] = 0]
           /\ kstack' = kstack /\ state' = state
  <2>0. state[p] = "LIVE" /\ InExec(p) /\ "LIVE" # "UNUSED"
    BY Zenon DEF ExecEnd
  <2>1. /\ kstack' = [kstack EXCEPT ![p] = k] /\ state' = [state EXCEPT ![p] = "LIVE"]
        /\ img' = [img EXCEPT ![p] = <<>>] /\ imgsz' = [imgsz EXCEPT ![p] = 0]
    BY <1>2, <2>0, OneHas, Zenon
  <2>2. /\ sz[p] \in Nat /\ low[p] \in Nat /\ imgsz[p] \in Nat
        /\ SlotOK(k, M, I) /\ Booked("LIVE", k, M, sz[p], low[p], I, imgsz[p])
        /\ Holds(k, M, I) \cap free = {} /\ free \in SUBSET Pages
    BY <2>0, OneHas, Zenon
  <2>3. /\ Space(j) /\ Range(j) = Range(I) \cup Range(a) /\ Range(a) \subseteq free
        /\ DOMAIN j \cap Nat = Span(PGSIZE, Top(p)) /\ PGSIZE <= Top(p)
    <3>1. Enough(free, More(img[p], Span(imgsz[p], Top(p)))) /\ Top(p) \in Nat /\ imgsz[p] <= Top(p)
      BY <1>2, TopAbove, Zenon
    <3>2. LargerImage(p, Top(p))
      BY <2>0, <3>1, ImageGrows, Zenon
    <3> QED
      BY <3>2, Zenon DEF LargerImage
  <2> HIDE DEF j, a
  <2>4. k # 0 /\ PGSIZE \in Nat /\ 0 < PGSIZE /\ Top(p) \in Nat /\ 0 \in Nat
    <3>1. k # 0
      BY <2>0, <2>2, Zenon DEF Booked
    <3>2. PGSIZE \in Nat /\ 0 < PGSIZE
      BY DEF VmConstants
    <3> QED
      BY <3>1, <3>2, TopAbove, Zenon
  <2>5. Space(<<>>) /\ Range(<<>>) = {} /\ DOMAIN <<>> = {}
    <3>1. DOMAIN <<>> = {}
      OBVIOUS
    <3> QED
      BY <3>1, Nothing, Zenon
  <2> DEFINE K == {k}
             m == Range(M)
             i == Range(I)
             r == Range(a)
  <2>6. /\ Holds(k, M, I) = K \cup m \cup i /\ Holds(k, M, <<>>) = K \cup m /\ Holds(k, j, <<>>) = K \cup i \cup r
        /\ K \cap m = {} /\ K \cap i = {} /\ m \cap i = {}
    <3>1. k \notin m /\ k \notin i /\ m \cap i = {}
      BY <2>2, Zenon DEF SlotOK
    <3> QED
      BY <2>3, <2>4, <2>5, <3>1, Zenon DEF Holds
  <2>7. r \subseteq free /\ (K \cup m \cup i) \cap free = {} /\ Range(j) = i \cup r
    BY <2>2, <2>3, <2>6, Zenon
  <2>8. SlotOK(k, M, <<>>)
    BY <2>2, <2>5, Zenon DEF SlotOK
  <2>9. SlotOK(k, j, <<>>)
    <3>1. k \notin Range(j)
      BY <2>6, <2>7, Zenon
    <3>2. k \in Pages \cup {0}
      BY <2>2, Zenon DEF SlotOK
    <3> QED
      BY <2>3, <2>5, <3>1, <3>2, Zenon DEF SlotOK
  <2>10. CASE copy = "fits"
    <3>1. free' = (free \ r) \cup m
      BY <1>2, <2>10, Zenon DEF Freevm
    <3>2. map' = [map EXCEPT ![p] = j] /\ sz' = [sz EXCEPT ![p] = Top(p)] /\ low' = [low EXCEPT ![p] = PGSIZE]
      BY <1>2, <2>10, Zenon
    <3>3. Booked("LIVE", k, j, Top(p), PGSIZE, <<>>, 0)
      BY <2>0, <2>3, <2>4, <2>5, Zenon DEF Booked
    <3>4. (K \cup i \cup r) \cap free' = {} /\ (K \cup i \cup r) \cup free' = (K \cup m \cup i) \cup free
      <4> HIDE DEF K, m, i, r
      <4> QED
        BY <2>6, <2>7, <3>1, Zenon
    <3>5. Holds(k, j, <<>>) \cap free' = {} /\ Holds(k, j, <<>>) \cup free' = Holds(kstack[p], map[p], img[p]) \cup free
      BY <2>6, <3>4, Zenon
    <3>6. VmInv'
      BY <2>1, <2>4, <2>9, <3>2, <3>3, <3>5, OneChanges, Zenon
    <3> QED
      BY <3>6, Zenon
  <2>11. CASE copy # "fits"
    <3>1. free' = (free \ r) \cup (i \cup r)
      BY <1>2, <2>7, <2>11, Zenon DEF Freevm
    <3>2. map' = [map EXCEPT ![p] = M] /\ sz' = [sz EXCEPT ![p] = sz[p]] /\ low' = [low EXCEPT ![p] = low[p]]
      BY <1>2, <2>11, Zenon
    <3>3. Booked("LIVE", k, M, sz[p], low[p], <<>>, 0) /\ sz[p] \in Nat /\ low[p] \in Nat
      BY <2>2, <2>5, Zenon DEF Booked
    <3>4. (K \cup m) \cap free' = {} /\ (K \cup m) \cup free' = (K \cup m \cup i) \cup free
      <4> HIDE DEF K, m, i, r
      <4> QED
        BY <2>6, <2>7, <3>1, Zenon
    <3>5. Holds(k, M, <<>>) \cap free' = {} /\ Holds(k, M, <<>>) \cup free' = Holds(kstack[p], map[p], img[p]) \cup free
      BY <2>6, <3>4, Zenon
    <3>6. VmInv'
      BY <2>1, <2>4, <2>8, <3>2, <3>3, <3>5, OneChanges, Zenon
    <3> QED
      BY <3>6, Zenon
  <2> QED
    BY <2>10, <2>11, Zenon
<1> QED
  BY <1>1, <1>2, Zenon DEF ExecEnd

-----------------------------------------------------------------------------
\* The first process has one page, at PGSIZE.
LEMMA FirstPage ==
  ASSUME VmConstants
  PROVE  Span(PGSIZE, 2 * PGSIZE) = {1} /\ 2 * PGSIZE \in Nat /\ PGSIZE \in Nat /\ 0 < PGSIZE /\ PGSIZE <= 2 * PGSIZE
<1>1. PGSIZE \in Nat /\ 0 < PGSIZE
  BY DEF VmConstants
<1>2. 2 * PGSIZE \in Nat /\ PGSIZE <= 2 * PGSIZE
  BY <1>1
<1>3. \A n \in Nat : n * PGSIZE >= PGSIZE /\ n * PGSIZE < 2 * PGSIZE <=> n = 1
  <2> TAKE n \in Nat
  <2>1. CASE n = 0
    BY <1>1, <2>1
  <2>2. CASE n = 1
    BY <1>1, <2>2
  <2>3. CASE n >= 2
    <3>1. n * PGSIZE >= 2 * PGSIZE
      BY <1>1, <2>3
    <3>2. n * PGSIZE \in Nat
      BY <1>1
    <3> QED
      BY <1>2, <2>3, <3>1, <3>2
  <2> QED
    BY <2>1, <2>2, <2>3
<1>4. \A n : n \in Span(PGSIZE, 2 * PGSIZE) <=> n \in Nat /\ n * PGSIZE >= PGSIZE /\ n * PGSIZE < 2 * PGSIZE
  BY <1>1, <1>2, InSpan, Zenon
<1>5. 1 \in Nat
  OBVIOUS
<1>6. \A n : n \in Span(PGSIZE, 2 * PGSIZE) <=> n = 1
  BY <1>3, <1>4, <1>5, Zenon
<1> QED
  BY <1>1, <1>2, <1>6, Zenon

\* userinit takes five pages besides the stack.
LEMMA FirstNeeds ==
  ASSUME VmConstants
  PROVE  /\ Needs({1}) \in SUBSET Int /\ IsFiniteSet(Needs({1})) /\ Needs({1}) \cap Nat = {1}
         /\ Enough(Pages \ {1}, Needs({1}))
<1>1. {1} \in SUBSET Nat /\ IsFiniteSet({1})
  <2>1. {1} \in SUBSET Nat
    OBVIOUS
  <2> QED
    BY <2>1, FS_Singleton, Zenon
<1>2. Needs({1}) \in SUBSET Int /\ IsFiniteSet(Needs({1})) /\ Needs({1}) \cap Nat = {1}
  BY <1>1, NeedsFacts, Zenon
<1>3. NPages \in Nat /\ NPages >= 6
  BY DEF VmConstants
<1>4. 1 \in Pages /\ IsFiniteSet(Pages) /\ Cardinality(Pages) = NPages
  BY <1>3, FS_Interval DEF Pages
<1>5. Cardinality(Pages \ {1}) = NPages - 1
  BY <1>4, FS_RemoveElement, Zenon
<1> DEFINE pt  == 1 \div FANOUT
           pd  == pt \div FANOUT
           t1 == -2 - 3 * pt
           t2 == -3 - 3 * pd
           t3 == -4 - 3 * (pd \div FANOUT)
<1>6. Needs({1}) = {1, -1, t1, t2, t3}
  <2>1. Walk(1) = {-1, t1, t2, t3}
    BY Zenon DEF Walk
  <2>2. Needs({1}) = {1} \cup Walk(1)
    BY Zenon DEF Needs
  <2> HIDE DEF t1, t2, t3
  <2> QED
    BY <2>1, <2>2, Zenon
<1> HIDE DEF t1, t2, t3
<1>7. \A x, S : IsFiniteSet(S) => /\ IsFiniteSet(S \cup {x}) /\ Cardinality(S \cup {x}) \in Nat /\ Cardinality(S) \in Nat
                                  /\ Cardinality(S \cup {x}) <= Cardinality(S) + 1
  <2> SUFFICES ASSUME NEW x, NEW S, IsFiniteSet(S)
               PROVE  /\ IsFiniteSet(S \cup {x}) /\ Cardinality(S \cup {x}) \in Nat /\ Cardinality(S) \in Nat
                      /\ Cardinality(S \cup {x}) <= Cardinality(S) + 1
    BY Zenon
  <2>1. Cardinality(S) \in Nat
    BY FS_CardinalityType, Zenon
  <2>2. CASE x \in S
    <3>1. S \cup {x} = S
      BY <2>2, Zenon
    <3> QED
      BY <2>1, <3>1
  <2>3. CASE x \notin S
    <3>1. IsFiniteSet(S \cup {x}) /\ Cardinality(S \cup {x}) = Cardinality(S) + 1
      BY <2>3, FS_AddElement, Zenon
    <3> QED
      BY <2>1, <3>1
  <2> QED
    BY <2>2, <2>3, Zenon
<1> DEFINE S1 == {1} \cup {-1}
           S2 == S1 \cup {t1}
           S3 == S2 \cup {t2}
           S4 == S3 \cup {t3}
<1>8. IsFiniteSet({1}) /\ Cardinality({1}) = 1
  BY FS_Singleton, Zenon
<1>9. IsFiniteSet(S1) /\ Cardinality(S1) \in Nat /\ Cardinality(S1) <= Cardinality({1}) + 1
  BY <1>7, <1>8, Zenon
<1> HIDE DEF S1
<1>10. IsFiniteSet(S2) /\ Cardinality(S2) \in Nat /\ Cardinality(S2) <= Cardinality(S1) + 1
  BY <1>7, <1>9, Zenon
<1> HIDE DEF S2
<1>11. IsFiniteSet(S3) /\ Cardinality(S3) \in Nat /\ Cardinality(S3) <= Cardinality(S2) + 1
  BY <1>7, <1>10, Zenon
<1> HIDE DEF S3
<1>12. Cardinality(S4) \in Nat /\ Cardinality(S4) <= Cardinality(S3) + 1
  BY <1>7, <1>11, Zenon
<1> HIDE DEF S4
<1>13. S4 = Needs({1})
  BY <1>6, Zenon DEF S1, S2, S3, S4
<1>14. Cardinality(S4) <= 5
  BY <1>8, <1>9, <1>10, <1>11, <1>12
<1>15. Cardinality(S4) <= NPages - 1
  BY <1>3, <1>12, <1>14
<1> QED
  BY <1>2, <1>5, <1>13, <1>15, Zenon DEF Enough

\* userinit sets up one process out of free pages.
LEMMA InitVm ==
  ASSUME VmConstants, Init
  PROVE  VmInv
<1> DEFINE f == Pages \ {1}
           a == Fresh(f, Needs({1}))
<1>1. /\ kstack = [p \in Slots |-> IF p = INITPROC THEN 1 ELSE 0]
      /\ map = [p \in Slots |-> IF p = INITPROC THEN a ELSE <<>>]
      /\ free = Pages \ ({1} \cup Range(a))
      /\ sz = [p \in Slots |-> IF p = INITPROC THEN 2 * PGSIZE ELSE 0]
      /\ low = [p \in Slots |-> PGSIZE]
      /\ img = [p \in Slots |-> <<>>] /\ imgsz = [p \in Slots |-> 0]
      /\ state = [p \in Slots |-> IF p = INITPROC THEN "LIVE" ELSE "UNUSED"]
  BY Zenon DEF Init
<1>2. INITPROC \in Slots /\ NPages \in Nat /\ NPages >= 6
  BY DEF VmConstants
<1>3. 1 \in Pages /\ 0 \notin Pages /\ 1 # 0 /\ "LIVE" # "UNUSED" /\ 0 \in Nat
  <2>1. 1 \in Pages /\ 0 \notin Pages
    BY <1>2 DEF Pages
  <2>2. 1 # 0 /\ "LIVE" # "UNUSED" /\ 0 \in Nat
    OBVIOUS
  <2> QED
    BY <2>1, <2>2, Zenon
<1>4. a \in [Needs({1}) -> f] /\ IsInjective(a) /\ Range(a) \subseteq f
  <2>1. f \in SUBSET Pages
    BY Zenon
  <2> HIDE DEF f
  <2>2. Needs({1}) \in SUBSET Int /\ IsFiniteSet(Needs({1})) /\ Enough(f, Needs({1}))
    BY FirstNeeds, Zenon DEF f
  <2> QED
    BY <2>1, <2>2, FreshFacts, Zenon
<1> HIDE DEF a
<1>5. Space(a) /\ DOMAIN a \cap Nat = {1} /\ 1 \notin Range(a)
  <2>1. DOMAIN a = Needs({1})
    BY <1>4, Zenon
  <2>2. a \in [DOMAIN a -> Pages]
    BY <1>4, <2>1, Zenon
  <2>3. Needs({1}) \in SUBSET Int /\ Needs({1}) \cap Nat = {1}
    BY FirstNeeds, Zenon
  <2> QED
    BY <1>4, <2>1, <2>2, <2>3, Zenon DEF Space
<1>6. Space(<<>>) /\ Range(<<>>) = {} /\ DOMAIN <<>> = {}
  <2>1. DOMAIN <<>> = {}
    OBVIOUS
  <2> QED
    BY <2>1, Nothing, Zenon
<1>7. SlotOK(1, a, <<>>) /\ SlotOK(0, <<>>, <<>>)
  BY <1>3, <1>5, <1>6, Zenon DEF SlotOK
<1>8. Holds(1, a, <<>>) = {1} \cup Range(a) /\ Holds(0, <<>>, <<>>) = {}
  BY <1>3, <1>6, Zenon DEF Holds
<1>9. /\ kstack[INITPROC] = 1 /\ map[INITPROC] = a /\ img[INITPROC] = <<>> /\ sz[INITPROC] = 2 * PGSIZE
      /\ low[INITPROC] = PGSIZE /\ imgsz[INITPROC] = 0 /\ state[INITPROC] = "LIVE"
      /\ \A p \in Slots : p # INITPROC => /\ kstack[p] = 0 /\ map[p] = <<>> /\ img[p] = <<>> /\ sz[p] = 0
                                          /\ low[p] = PGSIZE /\ imgsz[p] = 0 /\ state[p] = "UNUSED"
  BY <1>1, <1>2, Zenon
<1>10. Shared
  <2> DEFINE H(p) == Holds(kstack[p], map[p], img[p])
  <2>1. \A p \in Slots : SlotOK(kstack[p], map[p], img[p])
    BY <1>7, <1>9, Zenon
  <2>2. H(INITPROC) = {1} \cup Range(a) /\ \A p \in Slots : p # INITPROC => H(p) = {}
    BY <1>8, <1>9, Zenon
  <2> HIDE DEF H
  <2>3. ASSUME NEW g \in Pages PROVE g \in free <=> \A p \in Slots : g \notin H(p)
    <3>1. g \in free <=> g \notin {1} \cup Range(a)
      BY <1>1, Zenon
    <3> QED
      BY <1>2, <2>2, <3>1, Zenon
  <2>4. \A p, q \in Slots : p # q => H(p) \cap H(q) = {}
    BY <2>2, Zenon
  <2>5. free \in SUBSET Pages
    BY <1>1, Zenon
  <2> QED
    BY <2>1, <2>3, <2>4, <2>5, Zenon DEF Shared, H
<1>11. /\ Booked("LIVE", 1, a, 2 * PGSIZE, PGSIZE, <<>>, 0)
       /\ Booked("UNUSED", 0, <<>>, 0, PGSIZE, <<>>, 0)
  BY <1>3, <1>5, <1>6, FirstPage, Zenon DEF Booked
<1>12. ASSUME NEW p \in Slots
       PROVE  /\ sz[p] \in Nat /\ low[p] \in Nat /\ imgsz[p] \in Nat
              /\ Booked(state[p], kstack[p], map[p], sz[p], low[p], img[p], imgsz[p])
  <2>1. CASE p = INITPROC
    BY <1>3, <1>9, <1>11, <2>1, FirstPage, Zenon
  <2>2. CASE p # INITPROC
    BY <1>3, <1>9, <1>11, <2>2, FirstPage, Zenon
  <2> QED
    BY <2>1, <2>2, Zenon
<1>13. /\ kstack = [p \in Slots |-> kstack[p]] /\ map = [p \in Slots |-> map[p]] /\ img = [p \in Slots |-> img[p]]
       /\ sz = [p \in Slots |-> sz[p]] /\ low = [p \in Slots |-> low[p]] /\ imgsz = [p \in Slots |-> imgsz[p]]
       /\ state = [p \in Slots |-> state[p]]
  BY <1>1, Zenon
<1> QED
  BY <1>10, <1>12, <1>13, Zenon DEF VmInv

\* Every step keeps the invariant.
LEMMA NextVm ==
  ASSUME VmConstants, VmInv, [Next]_vars
  PROVE  VmInv'
<1>1. ASSUME UNCHANGED memory PROVE VmInv'
  <2>1. /\ free' = free /\ kstack' = kstack /\ map' = map /\ sz' = sz /\ low' = low /\ img' = img /\ imgsz' = imgsz
        /\ state' = state
    BY <1>1, Zenon DEF memory
  <2>2. Shared'
    BY <2>1, Zenon DEF VmInv, Shared
  <2> QED
    BY <2>1, <2>2, Zenon DEF VmInv
<1>2. ASSUME NEW p \in Slots, NEW q \in Slots, Fork(p, q) PROVE VmInv'
  BY <1>1, <1>2, ForkStep, Zenon
<1>3. ASSUME NEW p \in Slots, NEW n \in Deltas, Sbrk(p, n) PROVE VmInv'
  BY <1>1, <1>3, SbrkStep, Zenon
<1>4. ASSUME NEW p \in Slots, ExecBegin(p) PROVE VmInv'
  BY <1>1, <1>4, BeginStep, Zenon
<1>5. ASSUME NEW p \in Slots, NEW i \in Images, ExecLoad(p, i) PROVE VmInv'
  BY <1>1, <1>5, LoadStep, Zenon
<1>6. ASSUME NEW p \in Slots, NEW copy, ExecEnd(p, copy) PROVE VmInv'
  BY <1>1, <1>6, EndStep, Zenon
<1>7. ASSUME Halted \/ UNCHANGED vars PROVE VmInv'
  BY <1>1, <1>7, Zenon DEF Halted, vars
<1> QED
  BY <1>2, <1>3, <1>4, <1>5, <1>6, <1>7, ExitStep, ReapStep, BadStep, Zenon DEF Next

-----------------------------------------------------------------------------
\* The pages of an address space are as many as its numbers.
LEMMA SpaceCount ==
  ASSUME VmConstants, NEW M, Space(M)
  PROVE  IsFiniteSet(Range(M)) /\ Cardinality(Range(M)) = Cardinality(DOMAIN M)
<1> DEFINE D == DOMAIN M
           R == Range(M)
<1>1. IsFiniteSet(Pages)
  <2>1. NPages \in Nat
    BY DEF VmConstants
  <2> QED
    BY <2>1, FS_Interval DEF Pages
<1>2. R \subseteq Pages
  BY Zenon DEF Space, Range
<1>3. IsFiniteSet(R)
  BY <1>1, <1>2, FS_Subset, Zenon
<1>4. M \in Bijection(D, R)
  BY Zenon DEF Space, IsInjective, Range, Bijection, Injection, Surjection
<1> HIDE DEF D, R
<1>5. IsFiniteSet(D)
  BY <1>3, <1>4, FS_Injection, Zenon DEF Bijection
<1>6. ExistsBijection(D, R)
  BY <1>4, Zenon DEF ExistsBijection
<1>7. Cardinality(R) = Cardinality(D)
  BY <1>5, <1>6, FS_Bijection, Zenon
<1> QED
  BY <1>3, <1>7, Zenon DEF D, R

\* The sizes of two sets that share nothing add up.
LEMMA Disjoint ==
  ASSUME NEW S, NEW T, IsFiniteSet(S), IsFiniteSet(T), S \cap T = {}
  PROVE  IsFiniteSet(S \cup T) /\ Cardinality(S \cup T) = Cardinality(S) + Cardinality(T)
<1>1. IsFiniteSet(S \cup T) /\ Cardinality(S \cup T) = Cardinality(S) + Cardinality(T) - Cardinality(S \cap T)
  BY FS_Union, Zenon
<1>2. Cardinality(S) \in Nat /\ Cardinality(T) \in Nat /\ Cardinality({}) = 0
  BY FS_CardinalityType, FS_EmptySet, Zenon
<1>3. Cardinality(S \cap T) = 0
  BY <1>2, Zenon
<1> QED
  BY <1>1, <1>2, <1>3

\* The invariant says that the pages are conserved; the last part counts them.
LEMMA Conserved ==
  ASSUME VmConstants, VmInv
  PROVE  PagesConserved
<1> DEFINE H(p) == Holds(kstack[p], map[p], img[p])
<1>1. Shared
  BY Zenon DEF VmInv
<1>2. \A p \in Slots : Owned(p) = H(p)
  BY Zenon DEF Owned, Holds
<1>3. /\ \A p, q \in Slots : p # q => H(p) \cap H(q) = {}
      /\ free \in SUBSET Pages
      /\ \A g \in Pages : g \in free <=> \A p \in Slots : g \notin H(p)
  BY <1>1, Zenon DEF Shared
<1> HIDE DEF H
<1>4. free = Pages \ UNION {Owned(p) : p \in Slots}
  <2>1. \A g \in Pages : g \in free <=> \A p \in Slots : g \notin Owned(p)
    BY <1>2, <1>3, Zenon
  <2>2. free \in SUBSET Pages
    BY <1>3, Zenon
  <2> DEFINE U == UNION {Owned(p) : p \in Slots}
  <2>3. \A g : g \in U <=> \E p \in Slots : g \in Owned(p)
    BY Zenon
  <2> HIDE DEF U
  <2>4. \A g \in Pages : g \in free <=> g \notin U
    BY <2>1, <2>3, Zenon
  <2>5. free = Pages \ U
    BY <2>2, <2>4, Zenon
  <2> QED
    BY <2>5, Zenon DEF U
<1>5. \A p, q \in Slots : p # q => Owned(p) \cap Owned(q) = {}
  BY <1>2, <1>3, Zenon
<1>6. ASSUME NEW p \in Slots
      PROVE  Cardinality(Owned(p)) = Cardinality({kstack[p]} \ {0}) + Cardinality(DOMAIN map[p]) + Cardinality(DOMAIN img[p])
  <2> DEFINE K == {kstack[p]} \ {0}
             M == Range(map[p])
             I == Range(img[p])
  <2>1. SlotOK(kstack[p], map[p], img[p])
    BY <1>1, Zenon DEF Shared
  <2>2. IsFiniteSet(K)
    <3>1. IsFiniteSet({kstack[p]})
      BY FS_Singleton, Zenon
    <3>2. K \in SUBSET {kstack[p]}
      BY Zenon
    <3> QED
      BY <3>1, <3>2, FS_Subset, Zenon
  <2>3. /\ IsFiniteSet(M) /\ Cardinality(M) = Cardinality(DOMAIN map[p])
        /\ IsFiniteSet(I) /\ Cardinality(I) = Cardinality(DOMAIN img[p])
    BY <2>1, SpaceCount, Zenon DEF SlotOK
  <2>4. K \cap M = {} /\ (K \cup M) \cap I = {}
    BY <2>1, Zenon DEF SlotOK
  <2>5. Owned(p) = (K \cup M) \cup I
    BY Zenon DEF Owned
  <2> HIDE DEF K, M, I
  <2>6. IsFiniteSet(K \cup M) /\ Cardinality(K \cup M) = Cardinality(K) + Cardinality(M)
    BY <2>2, <2>3, <2>4, Disjoint, Zenon
  <2>7. Cardinality((K \cup M) \cup I) = Cardinality(K \cup M) + Cardinality(I)
    BY <2>3, <2>4, <2>6, Disjoint, Zenon
  <2>8. Cardinality(Owned(p)) = Cardinality(K) + Cardinality(DOMAIN map[p]) + Cardinality(DOMAIN img[p])
    BY <2>3, <2>5, <2>6, <2>7, Zenon
  <2> QED
    BY <2>8, Zenon DEF K
<1> QED
  BY <1>4, <1>5, <1>6, Zenon DEF PagesConserved

\* After any sequence of fork, exec (also a failing one, and several at once),
\* exit, wait and sbrk, every page is free or has one use in one process, so
\* that kalloc and freevm neither leak a page nor hand it out twice; and the
\* pages of a process are those between low and sz.
THEOREM MemoryAgrees ==
  ASSUME VmConstants
  PROVE  Spec => []MemoryAgree
<1>1. Init => VmInv
  BY InitVm
<1>2. VmInv /\ [Next]_vars => VmInv'
  BY NextVm
<1>3. ASSUME VmInv PROVE MemoryAgree
  <2>1. PagesConserved
    BY <1>3, Conserved, Zenon
  <2>2. SzMapped
    <3>1. ASSUME NEW p \in Slots PROVE state[p] = "LIVE" => DOMAIN map[p] \cap Nat = Span(low[p], sz[p])
      <4>1. Booked(state[p], kstack[p], map[p], sz[p], low[p], img[p], imgsz[p])
        BY <1>3, Zenon DEF VmInv
      <4> QED
        BY <4>1, Zenon DEF Booked
    <3> QED
      BY <3>1, Zenon DEF SzMapped
  <2> QED
    BY <2>1, <2>2, Zenon DEF MemoryAgree
<1> QED
  BY <1>1, <1>2, <1>3, PTL DEF Spec

\* mappages: nothing is mapped where a running process, or the program it
\* loads, would grow, so panic("remap") is out of reach.
NeverRemaps == \A p \in Slots, new \in Nat :
  /\ state[p] = "LIVE" => Span(sz[p], new) \cap DOMAIN map[p] = {}
  /\ InExec(p) => Span(imgsz[p], new) \cap DOMAIN img[p] = {}

\* allocuvm never reaches mappages' panic("remap"), from sbrk or from exec, even
\* after a shrink to zero that growproc took for a failure.
THEOREM GrowthNeverRemaps ==
  ASSUME VmConstants
  PROVE  Spec => []NeverRemaps
<1>1. Init => VmInv
  BY InitVm
<1>2. VmInv /\ [Next]_vars => VmInv'
  BY NextVm
<1>3. ASSUME VmInv PROVE NeverRemaps
  <2>1. ASSUME NEW p \in Slots, NEW new \in Nat
        PROVE  /\ state[p] = "LIVE" => Span(sz[p], new) \cap DOMAIN map[p] = {}
               /\ InExec(p) => Span(imgsz[p], new) \cap DOMAIN img[p] = {}
    <3>1. /\ sz[p] \in Nat /\ low[p] \in Nat /\ imgsz[p] \in Nat /\ PGSIZE \in Nat
          /\ Booked(state[p], kstack[p], map[p], sz[p], low[p], img[p], imgsz[p])
      <4>1. PGSIZE \in Nat
        BY DEF VmConstants
      <4> QED
        BY <1>3, <4>1, Zenon DEF VmInv
    <3>2. /\ Span(low[p], sz[p]) \cap Span(sz[p], new) = {}
          /\ Span(PGSIZE, imgsz[p]) \cap Span(imgsz[p], new) = {}
      BY <3>1, SpanParts
    <3>3. Span(sz[p], new) \in SUBSET Nat /\ Span(imgsz[p], new) \in SUBSET Nat
      BY <3>1, SpanFacts, Zenon
    <3>4. state[p] = "LIVE" => DOMAIN map[p] \cap Nat = Span(low[p], sz[p])
      BY <3>1, Zenon DEF Booked
    <3>5. InExec(p) => DOMAIN img[p] \cap Nat = Span(PGSIZE, imgsz[p])
      BY <3>1, Zenon DEF Booked, InExec
    <3> QED
      BY <3>2, <3>3, <3>4, <3>5, Zenon
  <2> QED
    BY <2>1, Zenon DEF NeverRemaps
<1> QED
  BY <1>1, <1>2, <1>3, PTL DEF Spec
=============================================================================
