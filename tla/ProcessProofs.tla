---------------------------- MODULE ProcessProofs ----------------------------
(***************************************************************************)
(* The heap of a user program (Malloc.tla), for any size of it and any     *)
(* sequence of malloc and free; and the process table (ProcTable.tla), for *)
(* every number of slots and every sequence of system calls and            *)
(* interrupts.                                                             *)
(*                                                                         *)
(* The inductive invariant of the heap, MallocInv, says HeapSound by the   *)
(* addresses, and where in the list the loop under way is.  Joining two    *)
(* blocks side by side, cutting one in two, growing the heap, linking and  *)
(* unlinking are lemmas of their own.                                      *)
(***************************************************************************)
EXTENDS ProcTable, Malloc, WellFoundedInduction, TLAPS

\* The blocks B, of the sizes sz, lie side by side from FIRST to k.
Tiled(B, sz, k) ==
  /\ \A a \in B : a \in Nat /\ FIRST <= a /\ sz[a] \in Nat /\ 1 <= sz[a] /\ a + sz[a] <= k
  /\ \A a, b \in B : a < b => a + sz[a] <= b
  /\ \A u \in FIRST..(k - 1) : \E a \in B : a <= u /\ u < a + sz[a]

\* Following nx goes up through L, and from its last member back to BASE.
Ring(L, nx) ==
  /\ BASE \in L
  /\ \A a \in L : a \in Nat /\ nx[a] \in L /\ (a < nx[a] \/ nx[a] = BASE)
  /\ \A a, b \in L : a < b => a < nx[a] /\ nx[a] <= b

\* The blocks of L that touch are q and r, if any.
Touching(L, sz, q, r) == \A a, b \in L \ {BASE} : a + sz[a] = b => a = q /\ b = r

\* No two blocks of L touch.
Apart(L, sz) == \A a, b \in L \ {BASE} : a + sz[a] # b

\* The sizes s are those of sz but that a has taken the block b above it; that
\* a has lost its last n units; that there is a block of n units at k.
Joins(B, sz, s, a, b) ==
  {a, b} \subseteq B /\ a + sz[a] = b /\ s[a] = sz[a] + sz[b] /\ \A x \in B \ {a, b} : s[x] = sz[x]

Cuts(B, sz, s, a, n) ==
  /\ a \in B /\ 1 <= n /\ n < sz[a] /\ s[a] = sz[a] - n /\ s[a + sz[a] - n] = n
  /\ \A x \in B \ {a} : s[x] = sz[x]

Grows(B, sz, s, k, n) ==
  FIRST <= k /\ 1 <= n /\ s[k] = n /\ \A x \in B : s[x] = sz[x]

\* The links m are those of nx but that b comes after p, or does no more.
Links(L, nx, m, p, b) ==
  /\ p \in L /\ b \notin L /\ p < b /\ (b < nx[p] \/ nx[p] <= p)
  /\ m[b] = nx[p] /\ m[p] = b /\ \A x \in L \ {p} : m[x] = nx[x]

Unlinks(L, nx, m, p, b) ==
  /\ {p, b} \subseteq L /\ b # BASE /\ nx[p] = b
  /\ m[p] = nx[b] /\ \A x \in L \ {p, b} : m[x] = nx[x]

\* Two blocks side by side become one.
LEMMA TilesJoin ==
  ASSUME NEW B, NEW sz, NEW s, NEW k \in Nat, NEW a, NEW b, Tiled(B, sz, k), Joins(B, sz, s, a, b)
  PROVE  Tiled(B \ {b}, s, k)
<1> USE DEF Joins
<1>1. \A x \in B : x \in Nat /\ FIRST <= x /\ sz[x] \in Nat /\ 1 <= sz[x] /\ x + sz[x] <= k
  BY Zenon DEF Tiled
<1>2. \A x, y \in B : x < y => x + sz[x] <= y
  BY Zenon DEF Tiled
<1>3. \A x \in B \ {b} : x \in Nat /\ FIRST <= x /\ s[x] \in Nat /\ 1 <= s[x] /\ x + s[x] <= k
  BY <1>1 DEF FIRST
<1>4. \A x, y \in B \ {b} : x < y => x + s[x] <= y
  <2>1. TAKE x, y \in B \ {b}
  <2>2. HAVE x < y
  <2>3. CASE x = a
    <3>1. b \in Nat /\ y \in Nat /\ sz[a] \in Nat /\ sz[b] \in Nat /\ a \in Nat
      BY <1>1, Zenon
    <3>2. a + sz[a] <= y
      BY <1>2, <2>2, <2>3, Zenon
    <3>3. b < y
      BY <3>1, <3>2
    <3>4. b + sz[b] <= y
      BY <3>3, <1>2, Zenon
    <3> QED BY <3>1, <3>4, <2>3
  <2>4. CASE x # a
    BY <1>1, <1>2, <2>2, <2>4, Zenon
  <2> QED BY <2>3, <2>4, Zenon
<1>5. \A u \in FIRST..(k - 1) : \E x \in B \ {b} : x <= u /\ u < x + s[x]
  <2>1. TAKE u \in FIRST..(k - 1)
  <2>2. PICK x \in B : x <= u /\ u < x + sz[x]
    BY Zenon DEF Tiled
  <2>3. a \in B \ {b}
    BY <1>1
  <2>4. CASE x = b \/ x = a
    BY <1>1, <2>2, <2>3, <2>4 DEF FIRST
  <2>5. CASE x # b /\ x # a
    BY <1>1, <2>2, <2>5, Zenon
  <2> QED BY <2>4, <2>5, Zenon
<1> QED BY <1>3, <1>4, <1>5, Zenon DEF Tiled

\* A block is cut in two, the tail of n units being new.
LEMMA TilesSplit ==
  ASSUME NEW B, NEW sz, NEW s, NEW k \in Nat, NEW a, NEW n \in Nat, Tiled(B, sz, k), Cuts(B, sz, s, a, n)
  PROVE  Tiled(B \cup {a + sz[a] - n}, s, k)
<1> USE DEF Cuts
<1> DEFINE q == a + sz[a] - n
<1>1. \A x \in B : x \in Nat /\ FIRST <= x /\ sz[x] \in Nat /\ 1 <= sz[x] /\ x + sz[x] <= k
  BY Zenon DEF Tiled
<1>2. \A x, y \in B : x < y => x + sz[x] <= y
  BY Zenon DEF Tiled
<1>3. q \in Nat /\ a < q /\ q + n = a + sz[a] /\ a + s[a] = q /\ s[a] \in Nat /\ 1 <= s[a]
  BY <1>1 DEF FIRST
<1>4. q \notin B
  BY <1>1, <1>2, <1>3
<1>5. s[q] = n
  OBVIOUS
<1> HIDE DEF q
<1>6. \A x \in B \cup {q} : x \in Nat /\ FIRST <= x /\ s[x] \in Nat /\ 1 <= s[x] /\ x + s[x] <= k
  BY <1>1, <1>3, <1>5 DEF FIRST
<1>7. \A x, y \in B \cup {q} : x < y => x + s[x] <= y
  <2>1. TAKE x, y \in B \cup {q}
  <2>2. HAVE x < y
  <2>3. CASE x = q
    <3>1. y \in B /\ a < y
      BY <1>1, <1>3, <2>2, <2>3
    <3>2. a + sz[a] <= y
      BY <3>1, <1>2, Zenon
    <3> QED BY <3>2, <1>3, <1>5, <2>3, Zenon
  <2>4. CASE x = a
    <3>1. CASE y = q
      BY <3>1, <2>4, <1>3
    <3>2. CASE y \in B
      BY <3>2, <2>4, <2>2, <1>1, <1>2, <1>3
    <3> QED BY <3>1, <3>2, Zenon
  <2>5. CASE x \in B /\ x # a
    <3>1. CASE y = q
      <4>1. x < a
        <5>1. ~(a < x)
          BY <1>1, <1>2, <1>3, <2>2, <2>5, <3>1
        <5> QED BY <5>1, <2>5, <1>1
      <4> QED BY <4>1, <3>1, <2>5, <1>1, <1>2, <1>3
    <3>2. CASE y \in B
      BY <3>2, <2>2, <2>5, <1>2, Zenon
    <3> QED BY <3>1, <3>2, Zenon
  <2> QED BY <2>3, <2>4, <2>5, Zenon
<1>8. \A u \in FIRST..(k - 1) : \E x \in B \cup {q} : x <= u /\ u < x + s[x]
  <2>1. TAKE u \in FIRST..(k - 1)
  <2>2. PICK x \in B : x <= u /\ u < x + sz[x]
    BY Zenon DEF Tiled
  <2>3. CASE x = a
    <3>1. (a <= u /\ u < a + s[a]) \/ (q <= u /\ u < q + s[q])
      BY <2>2, <2>3, <1>1, <1>3, <1>5 DEF FIRST
    <3> QED BY <3>1, Zenon
  <2>4. CASE x # a
    BY <2>2, <2>4, Zenon
  <2> QED BY <2>3, <2>4, Zenon
<1>9. Tiled(B \cup {q}, s, k)
  BY <1>6, <1>7, <1>8, Zenon DEF Tiled
<1> QED BY <1>9, Zenon DEF q

\* sbrk: a new block at the end of the heap.
LEMMA TilesGrow ==
  ASSUME NEW B, NEW sz, NEW s, NEW k \in Nat, NEW n \in Nat, Tiled(B, sz, k), Grows(B, sz, s, k, n)
  PROVE  Tiled(B \cup {k}, s, k + n)
<1> USE DEF Grows
<1>1. \A x \in B : x \in Nat /\ FIRST <= x /\ sz[x] \in Nat /\ 1 <= sz[x] /\ x + sz[x] <= k
  BY Zenon DEF Tiled
<1>2. \A x, y \in B : x < y => x + sz[x] <= y
  BY Zenon DEF Tiled
<1>3. k \notin B
  BY <1>1
<1>4. \A x \in B \cup {k} : x \in Nat /\ FIRST <= x /\ s[x] \in Nat /\ 1 <= s[x] /\ x + s[x] <= k + n
  BY <1>1
<1>5. \A x, y \in B \cup {k} : x < y => x + s[x] <= y
  BY <1>1, <1>2
<1>6. \A u \in FIRST..(k + n - 1) : \E x \in B \cup {k} : x <= u /\ u < x + s[x]
  <2>1. TAKE u \in FIRST..(k + n - 1)
  <2>2. CASE k <= u
    BY <2>2 DEF FIRST
  <2>3. CASE u < k
    <3>1. u \in FIRST..(k - 1)
      BY <2>3 DEF FIRST
    <3>2. PICK x \in B : x <= u /\ u < x + sz[x]
      BY <3>1, Zenon DEF Tiled
    <3> QED BY <3>2, Zenon
  <2> QED BY <2>2, <2>3 DEF FIRST
<1> QED BY <1>3, <1>4, <1>5, <1>6 DEF Tiled

\* A block is linked in between p and the block after it.
LEMMA RingInsert ==
  ASSUME NEW L, NEW nx, NEW m, NEW p, NEW b \in Nat, Ring(L, nx), Links(L, nx, m, p, b)
  PROVE  Ring(L \cup {b}, m)
<1> USE DEF Links
<1>1. BASE \in L /\ \A a \in L : a \in Nat /\ nx[a] \in L /\ (a < nx[a] \/ nx[a] = BASE)
  BY Zenon DEF Ring
<1>2. \A a, c \in L : a < c => a < nx[a] /\ nx[a] <= c
  BY Zenon DEF Ring
<1>3. \A a \in L \cup {b} : a \in Nat /\ m[a] \in L \cup {b} /\ (a < m[a] \/ m[a] = BASE)
  BY <1>1 DEF BASE
<1>4. \A a, c \in L \cup {b} : a < c => a < m[a] /\ m[a] <= c
  <2>1. TAKE a, c \in L \cup {b}
  <2>2. HAVE a < c
  <2>3. CASE a = b
    <3>1. c \in L /\ p < c
      BY <1>1, <2>2, <2>3
    <3>2. p < nx[p] /\ nx[p] <= c
      BY <3>1, <1>2, Zenon
    <3>3. b < nx[p]
      BY <3>2, <1>1
    <3> QED BY <3>2, <3>3, <2>3, Zenon
  <2>4. CASE a = p
    <3>1. CASE c = b
      BY <3>1, <2>4, <1>1
    <3>2. CASE c \in L
      <4>1. p < nx[p] /\ nx[p] <= c
        BY <3>2, <2>2, <2>4, <1>2, Zenon
      <4>2. c \in Nat /\ nx[p] \in Nat /\ p \in Nat
        BY <3>2, <1>1, Zenon
      <4> QED BY <4>1, <4>2, <2>4
    <3> QED BY <3>1, <3>2, Zenon
  <2>5. CASE a \in L /\ a # p
    <3>1. CASE c = b
      <4>1. a \in Nat /\ p \in Nat /\ nx[p] \in Nat /\ nx[a] \in Nat
        BY <1>1, <2>5, Zenon
      <4>2. ~(p < a)
        <5>1. SUFFICES ASSUME p < a PROVE FALSE
          OBVIOUS
        <5>2. p < nx[p] /\ nx[p] <= a
          BY <5>1, <1>2, <2>5, Zenon
        <5> QED BY <5>2, <4>1, <2>2, <3>1
      <4>3. a < p
        BY <4>1, <4>2, <2>5
      <4>4. a < nx[a] /\ nx[a] <= p
        BY <4>3, <1>2, <2>5, Zenon
      <4>5. m[a] = nx[a]
        BY <2>5, Zenon
      <4> QED BY <4>1, <4>4, <4>5, <3>1
    <3>2. CASE c \in L
      BY <3>2, <2>2, <2>5, <1>2, Zenon
    <3> QED BY <3>1, <3>2, Zenon
  <2> QED BY <2>3, <2>4, <2>5, Zenon
<1> QED BY <1>1, <1>3, <1>4, Zenon DEF Ring

\* The block after p is unlinked.
LEMMA RingRemove ==
  ASSUME NEW L, NEW nx, NEW m, NEW p, NEW b, Ring(L, nx), Unlinks(L, nx, m, p, b)
  PROVE  Ring(L \ {b}, m) /\ p < b
<1> USE DEF Unlinks
<1>1. BASE \in L /\ \A a \in L : a \in Nat /\ nx[a] \in L /\ (a < nx[a] \/ nx[a] = BASE)
  BY Zenon DEF Ring
<1>2. \A a, c \in L : a < c => a < nx[a] /\ nx[a] <= c
  BY Zenon DEF Ring
<1>3. p < b /\ p # b /\ nx[b] # b
  BY <1>1 DEF BASE
<1>4. \A a \in L \ {p, b} : nx[a] # b
  <2>1. SUFFICES ASSUME NEW a \in L \ {p, b}, nx[a] = b PROVE FALSE
    OBVIOUS
  <2>2. a < b
    BY <2>1, <1>1, Zenon
  <2>3. a < p \/ p < a
    BY <1>1
  <2> QED BY <2>1, <2>2, <2>3, <1>1, <1>2, <1>3
<1>5. \A a \in L \ {b} : a \in Nat /\ m[a] \in L \ {b} /\ (a < m[a] \/ m[a] = BASE)
  <2>1. TAKE a \in L \ {b}
  <2>2. CASE a = p
    <3>1. nx[b] \in L \ {b} /\ (b < nx[b] \/ nx[b] = BASE) /\ nx[b] \in Nat /\ p \in Nat /\ b \in Nat
      BY <1>1, <1>3, Zenon
    <3> QED BY <3>1, <2>2, <1>3
  <2>3. CASE a # p
    BY <2>3, <1>1, <1>4, Zenon
  <2> QED BY <2>2, <2>3, Zenon
<1>6. \A a, c \in L \ {b} : a < c => a < m[a] /\ m[a] <= c
  <2>1. TAKE a, c \in L \ {b}
  <2>2. HAVE a < c
  <2>3. CASE a = p
    <3>1. b < c
      BY <2>2, <2>3, <1>1, <1>2
    <3>2. b < nx[b] /\ nx[b] <= c
      BY <3>1, <1>2, Zenon
    <3> QED BY <3>2, <2>3, <1>1, <1>3
  <2>4. CASE a # p
    BY <2>2, <2>4, <1>2, Zenon
  <2> QED BY <2>3, <2>4, Zenon
<1> QED BY <1>1, <1>3, <1>5, <1>6, Zenon DEF Ring

\* A heap up to k of the free blocks L, linked by nx, and of other blocks V.
HeapOK(L, V, sz, nx, k) ==
  Ring(L, nx) /\ Tiled((L \ {BASE}) \cup V, sz, k) /\ Apart(L, sz) /\ L \cap V = {}

\* The same, but that q may touch r.
NearlyOK(L, V, sz, nx, k, q, r) ==
  Ring(L, nx) /\ Tiled((L \ {BASE}) \cup V, sz, k) /\ Touching(L, sz, q, r) /\ L \cap V = {}

SameHeaders(L, V, sz, nx, s, m) ==
  (\A x \in L : m[x] = nx[x]) /\ \A x \in (L \ {BASE}) \cup V : s[x] = sz[x]

\* Only the headers of the blocks matter.
LEMMA HeapOKOnBlocks ==
  ASSUME NEW L, NEW V, NEW sz, NEW nx, NEW s, NEW m, NEW k \in Nat, HeapOK(L, V, sz, nx, k),
         SameHeaders(L, V, sz, nx, s, m)
  PROVE  HeapOK(L, V, s, m, k)
<1> USE DEF SameHeaders
<1>1. Ring(L, m)
  BY Zenon DEF HeapOK, Ring
<1>2. Tiled((L \ {BASE}) \cup V, s, k)
  <2> DEFINE B == (L \ {BASE}) \cup V
  <2>1. Tiled(B, sz, k) /\ \A x \in B : s[x] = sz[x]
    BY Zenon DEF HeapOK
  <2> HIDE DEF B
  <2>2. Tiled(B, s, k)
    BY <2>1, Zenon DEF Tiled
  <2> QED BY <2>2, Zenon DEF B
<1>3. Apart(L, s)
  BY Zenon DEF HeapOK, Apart
<1> QED BY <1>1, <1>2, <1>3, Zenon DEF HeapOK

\* A block linked in after p touches p or the block after it, if any.
LEMMA TouchInsert ==
  ASSUME NEW L, NEW B, NEW sz, NEW nx, NEW k \in Nat, NEW p \in L, NEW b \in B, Ring(L, nx),
         Tiled(B, sz, k), Apart(L, sz), L \ {BASE} \subseteq B, b \notin L, p < b,
         b < nx[p] \/ nx[p] <= p,
         NEW a \in (L \cup {b}) \ {BASE}, NEW c \in (L \cup {b}) \ {BASE}, a + sz[a] = c
  PROVE  (a = p /\ c = b) \/ (a = b /\ c = nx[p])
<1>1. \A x \in B : x \in Nat /\ FIRST <= x /\ sz[x] \in Nat /\ 1 <= sz[x] /\ x + sz[x] <= k
  BY Zenon DEF Tiled
<1>2. \A x, y \in B : x < y => x + sz[x] <= y
  BY Zenon DEF Tiled
<1>3. BASE \in L /\ \A x \in L : x \in Nat /\ nx[x] \in L /\ (x < nx[x] \/ nx[x] = BASE)
  BY Zenon DEF Ring
<1>4. \A x, y \in L : x < y => x < nx[x] /\ nx[x] <= y
  BY Zenon DEF Ring
<1>5. a \in B /\ c \in B /\ a \in Nat /\ c \in Nat /\ a < c
  <2>1. a \in B /\ c \in B
    OBVIOUS
  <2> QED BY <2>1, <1>1
<1>6. a \notin L \/ c \notin L
  BY Zenon DEF Apart
<1>7. CASE c = b
  <2>1. a \in L
    BY <1>5, <1>7
  <2>2. ~(p < a)
    <3>1. SUFFICES ASSUME p < a PROVE FALSE
      OBVIOUS
    <3>2. p < nx[p] /\ nx[p] <= a
      BY <3>1, <1>4, <2>1, Zenon
    <3>3. p \in Nat /\ nx[p] \in Nat /\ b \in Nat
      BY <1>3, <1>1, Zenon
    <3> QED BY <3>2, <3>3, <1>5, <1>7
  <2>3. ~(a < p)
    <3>1. SUFFICES ASSUME a < p PROVE FALSE
      OBVIOUS
    <3>2. p # BASE /\ p \in B
      BY <3>1, <1>5, <1>3 DEF BASE
    <3>3. a + sz[a] <= p
      BY <3>1, <3>2, <1>5, <1>2, Zenon
    <3> QED BY <3>3, <1>7, <1>3, <1>5
  <2>4. a = p
    BY <2>2, <2>3, <1>3, <1>5
  <2> QED BY <2>4, <1>7, Zenon
<1>8. CASE a = b
  <2>1. c \in L /\ p < c
    BY <1>5, <1>8, <1>3
  <2>2. p < nx[p] /\ nx[p] <= c /\ nx[p] \in Nat
    BY <2>1, <1>4, <1>3, Zenon
  <2>3. b < nx[p]
    BY <2>2, <1>3
  <2>4. nx[p] \in B
    <3>1. nx[p] # BASE
      BY <2>3, <1>1 DEF BASE
    <3> QED BY <3>1, <1>3, Zenon
  <2>5. b + sz[b] <= nx[p]
    BY <2>3, <2>4, <1>2, Zenon
  <2>6. c = nx[p]
    BY <2>2, <2>5, <1>5, <1>8
  <2> QED BY <2>6, <1>8, Zenon
<1> QED BY <1>6, <1>7, <1>8, Zenon

\* b is linked in after p, and joined with the next block if they touch.
JoinsUpper(L, V, sz, nx, p, b, K, s, m) ==
  /\ p \in L /\ b \notin V /\ p < b /\ (b < nx[p] \/ nx[p] <= p)
  /\ IF b + sz[b] = nx[p]
     THEN K = (L \cup {b}) \ {nx[p]} /\ s[b] = sz[b] + sz[nx[p]] /\ m[b] = nx[nx[p]]
     ELSE K = L \cup {b} /\ s[b] = sz[b] /\ m[b] = nx[p]
  /\ m[p] = b
  /\ \A x \in L \ {p} : m[x] = nx[x]
  /\ \A x \in L \cup V : s[x] = sz[x]

\* free, first half: b is linked in and joined with the block above it.
LEMMA UpperOK ==
  ASSUME NEW L, NEW V, NEW sz, NEW nx, NEW k \in Nat, NEW p, NEW b \in Nat, NEW K, NEW s, NEW m,
         HeapOK(L, V \cup {b}, sz, nx, k), JoinsUpper(L, V, sz, nx, p, b, K, s, m)
  PROVE  NearlyOK(K, V, s, m, k, p, b)
<1> USE DEF JoinsUpper
<1> DEFINE B == (L \ {BASE}) \cup V \cup {b}
           g == [x \in L \cup {b} |-> IF x = b THEN nx[p] ELSE IF x = p THEN b ELSE nx[x]]
<1>1. Ring(L, nx) /\ Tiled(B, sz, k) /\ Apart(L, sz) /\ L \cap V = {} /\ b \notin L /\ b \in B
      /\ L \ {BASE} \subseteq B
  <2>1. (L \ {BASE}) \cup (V \cup {b}) = B
    OBVIOUS
  <2> QED BY <2>1, Zenon DEF HeapOK
<1>2. b # BASE /\ BASE \in L /\ BASE \notin V
  BY <1>1, Zenon DEF Ring
<1>3. ((L \cup {b}) \ {BASE}) \cup V = B
  BY <1>2, Zenon
<1>4. g[b] = nx[p] /\ g[p] = b /\ \A x \in L \ {p} : g[x] = nx[x]
  BY <1>1, Zenon
<1> HIDE DEF g
<1>5. Ring(L \cup {b}, g)
  <2>1. Links(L, nx, g, p, b)
    BY <1>1, <1>4, Zenon DEF Links
  <2> QED BY <2>1, <1>1, RingInsert, Zenon
<1>6. \A x, y \in (L \cup {b}) \ {BASE} : x + sz[x] = y => (x = p /\ y = b) \/ (x = b /\ y = nx[p])
  <2> HIDE DEF B
  <2> QED BY <1>1, TouchInsert
<1>7. CASE b + sz[b] # nx[p]
  <2>1. K = L \cup {b} /\ s[b] = sz[b] /\ m[b] = nx[p]
    BY <1>7, Zenon
  <2>2. \A x \in K : m[x] = g[x]
    BY <2>1, <1>4, Zenon
  <2>3. Ring(K, m)
    BY <1>5, <2>1, <2>2 DEF Ring
  <2>4. \A x \in B : s[x] = sz[x]
    BY <2>1, Zenon
  <2>5. Tiled(B, s, k)
    <3> HIDE DEF B
    <3> QED BY <1>1, <2>4, Zenon DEF Tiled
  <2>6. Touching(K, s, p, b)
    <3>1. SUFFICES ASSUME NEW x \in K \ {BASE}, NEW y \in K \ {BASE}, x + s[x] = y PROVE x = p /\ y = b
      BY Zenon DEF Touching
    <3>2. s[x] = sz[x]
      BY <2>1, Zenon
    <3> QED BY <3>1, <3>2, <1>6, <1>7, <2>1
  <2>7. K \cap V = {}
    BY <1>1, <2>1, Zenon
  <2> QED BY <2>1, <2>3, <2>5, <2>6, <2>7, <1>3, Zenon DEF NearlyOK
<1>8. CASE b + sz[b] = nx[p]
  <2> DEFINE n == nx[p]
  <2>1. K = (L \cup {b}) \ {n} /\ s[b] = sz[b] + sz[n] /\ m[b] = nx[n]
    BY <1>8, Zenon
  <2>2. n \in L /\ n # BASE /\ n # p /\ n # b /\ b \in Nat /\ sz[b] \in Nat /\ n \in Nat
    <3>1. n \in L /\ n \in Nat /\ p \in Nat
      BY <1>1, Zenon DEF Ring
    <3>2. sz[b] \in Nat /\ FIRST <= b
      BY <1>1, Zenon DEF Tiled
    <3> QED BY <3>1, <3>2, <1>1, <1>8 DEF BASE, FIRST
  <2>3. g[b] = n /\ g[n] = nx[n]
    BY <1>4, <2>2, Zenon
  <2> HIDE DEF n
  <2>4. m[b] = g[n] /\ \A x \in (L \cup {b}) \ {b, n} : m[x] = g[x]
    BY <2>1, <2>2, <2>3, <1>4
  <2>5. Ring((L \cup {b}) \ {n}, m)
    <3> DEFINE M == L \cup {b}
    <3>1. b \in M /\ n \in M /\ Ring(M, g) /\ \A x \in M \ {b, n} : m[x] = g[x]
      BY <1>5, <2>2, <2>4, Zenon
    <3> HIDE DEF M
    <3>2. Unlinks(M, g, m, b, n)
      BY <3>1, <2>2, <2>3, <2>4, Zenon DEF Unlinks
    <3>3. Ring(M \ {n}, m)
      BY <3>1, <3>2, RingRemove, Zenon
    <3> QED BY <3>3, Zenon DEF M
  <2>6. b \in B /\ n \in B /\ \A x \in B \ {b, n} : s[x] = sz[x]
    BY <2>2, Zenon
  <2>7. b + sz[b] = n
    BY <1>8, Zenon DEF n
  <2>8. Tiled(B \ {n}, s, k)
    <3> HIDE DEF B
    <3>1. Joins(B, sz, s, b, n)
      BY <2>1, <2>6, <2>7, Zenon DEF Joins
    <3> QED BY <3>1, <1>1, TilesJoin, Zenon
  <2>9. (K \ {BASE}) \cup V = B \ {n}
    <3>1. n \notin V
      BY <2>2, <1>1, Zenon
    <3> QED BY <3>1, <1>3, <2>1, Zenon
  <2>10. Touching(K, s, p, b)
    <3>1. SUFFICES ASSUME NEW x \in K \ {BASE}, NEW y \in K \ {BASE}, x + s[x] = y PROVE x = p /\ y = b
      BY Zenon DEF Touching
    <3>2. x \in (L \cup {b}) \ {BASE} /\ y \in (L \cup {b}) \ {BASE} /\ y # n /\ x # n
      BY <2>1, Zenon
    <3>3. CASE x = b
      <4>1. sz[n] \in Nat
        BY <1>1, <2>6, Zenon DEF Tiled
      <4>2. n + sz[n] = y
        BY <4>1, <3>1, <3>3, <2>1, <2>2, <2>7
      <4>3. n \in (L \cup {b}) \ {BASE}
        BY <2>2, Zenon
      <4> QED BY <4>2, <4>3, <3>2, <1>6, <2>2, Zenon
    <3>4. CASE x # b
      <4>1. s[x] = sz[x]
        BY <3>2, <3>4, Zenon
      <4> QED BY <4>1, <3>1, <3>2, <3>4, <1>6, Zenon
    <3> QED BY <3>3, <3>4, Zenon
  <2>11. K \cap V = {}
    BY <1>1, <2>1, Zenon
  <2> QED BY <2>1, <2>5, <2>8, <2>9, <2>10, <2>11, Zenon DEF NearlyOK
<1> QED BY <1>7, <1>8, Zenon

\* The block p of the list is joined with the next one, b, if they touch.
JoinsLower(L, V, sz, nx, p, b, K, s, m) ==
  /\ p \in L /\ b \in L /\ p < b /\ nx[p] = b /\ sz[BASE] = 0
  /\ IF p + sz[p] = b
     THEN K = L \ {b} /\ s[p] = sz[p] + sz[b] /\ m[p] = nx[b]
     ELSE K = L /\ s[p] = sz[p] /\ m[p] = b /\ s[b] = sz[b] /\ m[b] = nx[b]
  /\ \A x \in L \ {p, b} : m[x] = nx[x]
  /\ \A x \in (L \ {p, b}) \cup V : s[x] = sz[x]

\* free, second half: b is joined with the block below it.
LEMMA LowerOK ==
  ASSUME NEW L, NEW V, NEW sz, NEW nx, NEW k \in Nat, NEW p, NEW b, NEW K, NEW s, NEW m,
         NearlyOK(L, V, sz, nx, k, p, b), JoinsLower(L, V, sz, nx, p, b, K, s, m)
  PROVE  HeapOK(K, V, s, m, k)
<1> USE DEF JoinsLower
<1> DEFINE B == (L \ {BASE}) \cup V
<1>1. Ring(L, nx) /\ Tiled(B, sz, k) /\ Touching(L, sz, p, b) /\ L \cap V = {}
  BY Zenon DEF NearlyOK
<1>2. p \in Nat /\ b \in Nat /\ BASE \in L /\ b # BASE /\ b # p
  BY <1>1 DEF Ring, BASE
<1>3. CASE p + sz[p] # b
  <2>1. K = L /\ (\A x \in L : m[x] = nx[x]) /\ \A x \in B : s[x] = sz[x]
    BY <1>3, Zenon
  <2>2. Apart(L, sz)
    BY <1>1, <1>3, Zenon DEF Touching, Apart
  <2>3. HeapOK(L, V, sz, nx, k)
    BY <1>1, <2>2, Zenon DEF HeapOK
  <2>4. SameHeaders(L, V, sz, nx, s, m)
    BY <2>1, Zenon DEF SameHeaders
  <2> QED BY <2>1, <2>3, <2>4, HeapOKOnBlocks, Zenon
<1>4. CASE p + sz[p] = b
  <2>1. K = L \ {b} /\ s[p] = sz[p] + sz[b] /\ m[p] = nx[b]
    BY <1>4, Zenon
  <2>2. p # BASE
    BY <1>2, <1>4 DEF BASE
  <2>3. Ring(K, m)
    <3>1. Unlinks(L, nx, m, p, b)
      BY <1>2, <2>1, Zenon DEF Unlinks
    <3> QED BY <3>1, <1>1, <2>1, RingRemove, Zenon
  <2>4. p \in B /\ b \in B /\ (\A x \in B \ {p, b} : s[x] = sz[x]) /\ (K \ {BASE}) \cup V = B \ {b}
    BY <1>1, <1>2, <2>1, <2>2, Zenon
  <2>5. Tiled(B \ {b}, s, k)
    <3> HIDE DEF B
    <3>1. Joins(B, sz, s, p, b)
      BY <1>4, <2>1, <2>4, Zenon DEF Joins
    <3> QED BY <3>1, <1>1, TilesJoin, Zenon
  <2>6. Apart(K, s)
    <3>1. SUFFICES ASSUME NEW x \in K \ {BASE}, NEW y \in K \ {BASE}, x + s[x] = y PROVE FALSE
      BY Zenon DEF Apart
    <3>2. x \in L \ {BASE} /\ y \in L \ {BASE} /\ x # b /\ y # b
      BY <2>1, Zenon
    <3>3. CASE x = p
      <4>1. sz[p] \in Nat /\ sz[b] \in Nat
        BY <1>1, <2>4, Zenon DEF Tiled
      <4>2. b + sz[b] = y
        BY <4>1, <3>1, <3>3, <1>2, <1>4, <2>1
      <4> QED BY <4>2, <3>2, <1>1, <1>2, Zenon DEF Touching
    <3>4. CASE x # p
      <4>1. s[x] = sz[x]
        BY <3>2, <3>4, Zenon
      <4> QED BY <4>1, <3>1, <3>2, <3>4, <1>1, Zenon DEF Touching
    <3> QED BY <3>3, <3>4, Zenon
  <2> QED BY <1>1, <2>1, <2>3, <2>4, <2>5, <2>6, Zenon DEF HeapOK
<1> QED BY <1>3, <1>4, Zenon

-----------------------------------------------------------------------------
Pointers == Addrs \cup {NULL}

Heaps == [freep : Pointers, next : [Addrs -> Pointers], size : [Addrs -> Nat], brk : Nat,
          list : SUBSET Addrs, live : SUBSET Addrs]

Calls == [at : {"none", "malloc", "free"}, nunits : Nat, prevp : Pointers, p : Pointers, bp : Pointers]

MallocTypeOK ==
  /\ heap \in Heaps
  /\ call \in Calls

\* The inductive invariant: before the first malloc there is nothing; after it
\* the free list and the other blocks make up the heap, and the loop under way
\* is at a block of the list.
MallocInv ==
  /\ MallocTypeOK
  /\ heap.brk \in FIRST..(FIRST + HEAPMAX)
  /\ heap.freep = NULL => heap.list = {} /\ heap.live = {} /\ heap.brk = FIRST /\ call.at = "none"
  /\ heap.freep # NULL => /\ heap.freep \in heap.list /\ heap.size[BASE] = 0
                          /\ HeapOK(heap.list, heap.live \cup Hand, heap.size, heap.next, heap.brk)
                          /\ Hand \cap heap.live = {}
  /\ call.at = "malloc" => call.prevp \in heap.list /\ call.p = heap.next[call.prevp] /\ 1 <= call.nunits
  /\ call.at = "free" => call.p \in heap.list /\ call.bp \in Addrs

\* Addresses are numbers, and NULL is none of them.
LEMMA Addresses ==
  Addrs \subseteq Nat /\ BASE \in Addrs /\ NULL \notin Addrs
  /\ \A a \in Int : FIRST <= a /\ a < FIRST + HEAPMAX => a \in Addrs
BY HeapConstants DEF Addrs, BASE, FIRST, NULL

\* The invariant says what HeapSound says.
LEMMA HeapBlocks ==
  ASSUME MallocInv, heap.freep # NULL
  PROVE  HeapSound
<1> DEFINE sz == heap.size
           L == heap.list
           V == heap.live \cup Hand
           k == heap.brk
           B == (L \ {BASE}) \cup V
<1>1. Ring(L, heap.next) /\ Tiled(B, sz, k) /\ Apart(L, sz) /\ L \cap V = {} /\ heap.freep \in L
      /\ k \in Nat /\ Hand \cap heap.live = {}
  BY Zenon DEF MallocInv, HeapOK, MallocTypeOK, Heaps
<1>2. {BASE, heap.freep} \subseteq heap.list
  BY <1>1, Zenon DEF Ring
<1>3. Circular
  <2>1. SUFFICES ASSUME NEW a \in L
                 PROVE  LET above == {b \in L : b > a}
                        IN IF above = {} THEN heap.next[a] = BASE
                           ELSE heap.next[a] \in above /\ \A b \in above : heap.next[a] <= b
    BY Zenon DEF Circular
  <2>2. a \in Nat /\ heap.next[a] \in L /\ (a < heap.next[a] \/ heap.next[a] = BASE)
        /\ heap.next[a] \in Nat /\ \A b \in L : b \in Nat /\ (a < b => a < heap.next[a] /\ heap.next[a] <= b)
    BY <1>1, Zenon DEF Ring
  <2> HIDE DEF L
  <2> QED BY <2>2, Zenon
<1>4. FreeList \cap heap.live = {} /\ Hand \cap (FreeList \cup heap.live) = {}
  BY <1>1, Zenon DEF FreeList
<1>5. Blocks = B
  BY Zenon DEF Blocks, FreeList
<1>6. UNION {Extent(a) : a \in B} = FIRST..(k - 1)
  <2>1. \A a \in B : Extent(a) = a..(a + sz[a] - 1)
    BY Zenon DEF Extent
  <2>2. \A a \in B : a \in Nat /\ FIRST <= a /\ sz[a] \in Nat /\ 1 <= sz[a] /\ a + sz[a] <= k
    BY <1>1, Zenon DEF Tiled
  <2>3. \A u \in FIRST..(k - 1) : \E a \in B : a <= u /\ u < a + sz[a]
    BY <1>1, Zenon DEF Tiled
  <2> HIDE DEF B, sz, k
  <2>4. ASSUME NEW a \in B, NEW u \in Extent(a) PROVE u \in FIRST..(k - 1)
    BY <2>1, <2>2, <1>1 DEF FIRST
  <2>5. ASSUME NEW u \in FIRST..(k - 1) PROVE \E a \in B : u \in Extent(a)
    <3>1. PICK a \in B : a <= u /\ u < a + sz[a]
      BY <2>3, Zenon
    <3>2. u \in a..(a + sz[a] - 1)
      BY <3>1, <2>2, <1>1 DEF FIRST
    <3> QED BY <3>2, <2>1, Zenon
  <2> QED BY <2>4, <2>5, Zenon
<1>7. \A a, b \in B : a # b => Extent(a) \cap Extent(b) = {}
  <2>1. TAKE a, b \in B
  <2>2. HAVE a # b
  <2>3. /\ a \in Nat /\ b \in Nat /\ sz[a] \in Nat /\ sz[b] \in Nat
        /\ (a < b => a + sz[a] <= b) /\ (b < a => b + sz[b] <= a)
    <3> HIDE DEF B, sz, k
    <3> QED BY <1>1, Zenon DEF Tiled
  <2>4. Extent(a) = a..(a + sz[a] - 1) /\ Extent(b) = b..(b + sz[b] - 1)
    BY Zenon DEF Extent
  <2> HIDE DEF B, sz
  <2> QED BY <2>2, <2>3, <2>4, SMTT(30)
<1>8. \A a, b \in FreeList : a + heap.size[a] # b
  BY <1>1, Zenon DEF FreeList, Apart
<1> QED BY <1>2, <1>3, <1>4, <1>5, <1>6, <1>7, <1>8, Zenon DEF HeapSound

\* u is what Upper makes of h, w what Lower makes of it, c what Clean does.
Uppered(h, b, p, u) ==
  /\ u \in Heaps /\ u.brk = h.brk /\ u.live = h.live
  /\ \A x \in Addrs \ {b} : u.next[x] = h.next[x] /\ u.size[x] = h.size[x]
  /\ IF b + h.size[b] = h.next[p]
     THEN /\ u.size[b] = h.size[b] + h.size[h.next[p]] /\ u.next[b] = h.next[h.next[p]]
          /\ u.list = h.list \ {h.next[p]}
     ELSE u.size[b] = h.size[b] /\ u.next[b] = h.next[p] /\ u.list = h.list

Lowered(h, b, p, w) ==
  /\ w \in Heaps /\ w.brk = h.brk /\ w.live = h.live
  /\ \A x \in Addrs \ {p} : w.next[x] = h.next[x] /\ w.size[x] = h.size[x]
  /\ IF p + h.size[p] = b
     THEN w.size[p] = h.size[p] + h.size[b] /\ w.next[p] = h.next[b] /\ w.list = h.list
     ELSE w.size[p] = h.size[p] /\ w.next[p] = b /\ w.list = h.list \cup {b}

Cleaned(h, c) ==
  /\ c \in Heaps /\ c.freep = h.freep /\ c.brk = h.brk /\ c.live = h.live /\ c.list = h.list
  /\ \A x \in h.list : c.next[x] = h.next[x]
  /\ \A x \in h.list \cup h.live : c.size[x] = h.size[x]

\* The first half of free, field by field.
LEMMA UpperFields ==
  ASSUME NEW h \in Heaps, NEW b \in Addrs, NEW p \in Addrs, h.next[p] \in Addrs
  PROVE  Uppered(h, b, p, Upper(h, b, p))
<1> DEFINE n == h.next[p]
           e == h.size[b] + h.size[n]
           u == Upper(h, b, p)
<1>1. n \in Addrs /\ h.size[b] \in Nat /\ h.size[n] \in Nat /\ h.next[n] \in Pointers /\ n \in Pointers
  BY Zenon DEF Heaps, Pointers
<1>2. e \in Nat
  BY <1>1
<1>3. CASE b + h.size[b] = n
  <2>1. u = [h EXCEPT !.size[b] = e, !.next[b] = h.next[n], !.list = h.list \ {n}]
    BY <1>3, Zenon DEF Upper
  <2> HIDE DEF u, e, n
  <2>2. u \in Heaps
    BY <2>1, <1>1, <1>2, Zenon DEF Heaps
  <2>3. /\ u.freep = h.freep /\ u.brk = h.brk /\ u.live = h.live /\ u.list = h.list \ {n}
        /\ u.size = [h.size EXCEPT ![b] = e] /\ u.next = [h.next EXCEPT ![b] = h.next[n]]
    BY <2>1, Zenon DEF Heaps
  <2>4. h.size \in [Addrs -> Nat] /\ h.next \in [Addrs -> Pointers]
    BY Zenon DEF Heaps
  <2>5. /\ u.size[b] = e /\ u.next[b] = h.next[n]
        /\ \A x \in Addrs \ {b} : u.next[x] = h.next[x] /\ u.size[x] = h.size[x]
    BY <2>3, <2>4, Zenon
  <2> QED BY <1>3, <2>2, <2>3, <2>5, Zenon DEF u, e, n, Uppered
<1>4. CASE b + h.size[b] # n
  <2>1. u = [h EXCEPT !.next[b] = n]
    BY <1>4, Zenon DEF Upper
  <2> HIDE DEF u, n
  <2>2. u \in Heaps
    BY <2>1, <1>1, Zenon DEF Heaps
  <2>3. /\ u.freep = h.freep /\ u.brk = h.brk /\ u.live = h.live /\ u.list = h.list
        /\ u.size = h.size /\ u.next = [h.next EXCEPT ![b] = n]
    BY <2>1, Zenon DEF Heaps
  <2>4. h.next \in [Addrs -> Pointers]
    BY Zenon DEF Heaps
  <2>5. u.next[b] = n /\ \A x \in Addrs \ {b} : u.next[x] = h.next[x] /\ u.size[x] = h.size[x]
    BY <2>3, <2>4, Zenon
  <2> QED BY <1>4, <2>2, <2>3, <2>5, Zenon DEF u, n, Uppered
<1> QED BY <1>3, <1>4, Zenon

\* The second half of free, field by field.
LEMMA LowerFields ==
  ASSUME NEW h \in Heaps, NEW b \in Addrs, NEW p \in Addrs, p # b
  PROVE  Lowered(h, b, p, Lower(h, b, p))
<1> DEFINE e == h.size[p] + h.size[b]
           w == Lower(h, b, p)
<1>1. h.size[b] \in Nat /\ h.size[p] \in Nat /\ h.next[b] \in Pointers /\ b \in Pointers
  BY Zenon DEF Heaps, Pointers
<1>2. e \in Nat
  BY <1>1
<1>3. CASE p + h.size[p] = b
  <2>1. w = [h EXCEPT !.size[p] = e, !.next[p] = h.next[b]]
    BY <1>3, Zenon DEF Lower
  <2> HIDE DEF w, e
  <2>2. w \in Heaps
    BY <2>1, <1>1, <1>2, Zenon DEF Heaps
  <2>3. /\ w.freep = h.freep /\ w.brk = h.brk /\ w.live = h.live /\ w.list = h.list
        /\ w.size = [h.size EXCEPT ![p] = e] /\ w.next = [h.next EXCEPT ![p] = h.next[b]]
    BY <2>1, Zenon DEF Heaps
  <2>4. h.size \in [Addrs -> Nat] /\ h.next \in [Addrs -> Pointers]
    BY Zenon DEF Heaps
  <2>5. /\ w.size[p] = e /\ w.next[p] = h.next[b]
        /\ \A x \in Addrs \ {p} : w.next[x] = h.next[x] /\ w.size[x] = h.size[x]
    BY <2>3, <2>4, Zenon
  <2> QED BY <1>3, <2>2, <2>3, <2>5, Zenon DEF w, e, Lowered
<1>4. CASE p + h.size[p] # b
  <2>1. w = [h EXCEPT !.next[p] = b, !.list = h.list \cup {b}]
    BY <1>4, Zenon DEF Lower
  <2> HIDE DEF w
  <2>2. w \in Heaps
    BY <2>1, <1>1, Zenon DEF Heaps
  <2>3. /\ w.freep = h.freep /\ w.brk = h.brk /\ w.live = h.live /\ w.list = h.list \cup {b}
        /\ w.size = h.size /\ w.next = [h.next EXCEPT ![p] = b]
    BY <2>1, Zenon DEF Heaps
  <2>4. h.next \in [Addrs -> Pointers]
    BY Zenon DEF Heaps
  <2>5. w.next[p] = b /\ \A x \in Addrs \ {p} : w.next[x] = h.next[x] /\ w.size[x] = h.size[x]
    BY <2>3, <2>4, Zenon
  <2> QED BY <1>4, <2>2, <2>3, <2>5, Zenon DEF w, Lowered
<1> QED BY <1>3, <1>4, Zenon

\* Clearing headers leaves the blocks alone.
LEMMA CleanFields ==
  ASSUME NEW h \in Heaps
  PROVE  Cleaned(h, Clean(h))
<1> DEFINE c == Clean(h)
           f == [a \in Addrs |-> IF a \in h.list THEN h.next[a] ELSE NULL]
           g == [a \in Addrs |-> IF a \in h.list \cup h.live THEN h.size[a] ELSE 0]
<1>1. c = [h EXCEPT !.next = f, !.size = g]
  BY Zenon DEF Clean
<1>2. h.list \subseteq Addrs /\ h.live \subseteq Addrs /\ f \in [Addrs -> Pointers] /\ g \in [Addrs -> Nat]
  BY Zenon DEF Heaps, Pointers
<1>3. (\A x \in h.list : f[x] = h.next[x]) /\ \A x \in h.list \cup h.live : g[x] = h.size[x]
  BY <1>2, Zenon
<1> HIDE DEF f, g, c
<1>4. c \in Heaps
  BY <1>1, <1>2, Zenon DEF Heaps
<1>5. /\ c.freep = h.freep /\ c.brk = h.brk /\ c.live = h.live /\ c.list = h.list
      /\ c.next = f /\ c.size = g
  BY <1>1, Zenon DEF Heaps
<1> QED BY <1>3, <1>4, <1>5, Zenon DEF c, Cleaned

\* What the invariant says while free is at p with the block b in hand.
LEMMA FreeUnderWay ==
  ASSUME MallocInv, call.at = "free"
  PROVE  /\ heap \in Heaps /\ call.p \in heap.list /\ call.bp \in Addrs /\ heap.brk \in Nat
         /\ heap.list \subseteq Addrs /\ heap.live \subseteq Addrs /\ call.nunits \in Nat
         /\ heap.freep # NULL /\ heap.freep \in heap.list /\ heap.size[BASE] = 0
         /\ HeapOK(heap.list, heap.live \cup {call.bp}, heap.size, heap.next, heap.brk)
         /\ call.bp \notin heap.live /\ call.bp \notin heap.list
         /\ Ring(heap.list, heap.next) /\ heap.next[call.p] \in heap.list
<1>1. Hand = {call.bp}
  BY Zenon DEF Hand
<1>2. heap \in Heaps /\ call.p \in heap.list /\ call.bp \in Addrs /\ heap.freep # NULL /\ call.nunits \in Nat
  BY Zenon DEF MallocInv, MallocTypeOK, Calls
<1>3. heap.list \subseteq Addrs /\ heap.live \subseteq Addrs /\ heap.brk \in Nat
  BY <1>2, Zenon DEF Heaps
<1>4. /\ heap.freep \in heap.list /\ heap.size[BASE] = 0
      /\ HeapOK(heap.list, heap.live \cup {call.bp}, heap.size, heap.next, heap.brk)
      /\ call.bp \notin heap.live
  BY <1>1, <1>2, Zenon DEF MallocInv
<1>5. Ring(heap.list, heap.next) /\ call.bp \notin heap.list
  BY <1>4, Zenon DEF HeapOK
<1>6. heap.next[call.p] \in heap.list
  BY <1>2, <1>5, Zenon DEF Ring
<1> QED BY <1>2, <1>3, <1>4, <1>5, <1>6, Zenon

\* A turn of the loop in free.
LEMMA FreeLoopInv == ASSUME MallocInv, FreeLoop PROVE MallocInv'
<1>1. call.at = "free" /\ call' = [call EXCEPT !.p = heap.next[call.p]] /\ heap' = heap
  BY Zenon DEF FreeLoop
<1>2. heap.next[call.p] \in heap.list /\ heap.list \subseteq Addrs
  BY <1>1, FreeUnderWay, Zenon
<1>3. call \in Calls
  BY Zenon DEF MallocInv, MallocTypeOK
<1>4. call'.at = "free" /\ call'.p = heap.next[call.p] /\ call'.bp = call.bp
  BY <1>1, <1>3, Zenon DEF Calls
<1>5. MallocTypeOK'
  BY <1>1, <1>2, <1>3, Zenon DEF MallocInv, MallocTypeOK, Pointers, Calls
<1>6. Hand' = Hand
  BY <1>1, <1>4, Zenon DEF Hand
<1> QED BY <1>1, <1>2, <1>4, <1>5, <1>6, Zenon DEF MallocInv

\* free puts the block into the list.
LEMMA FreeLinksInv == ASSUME MallocInv, FreeLinks PROVE MallocInv'
<1> DEFINE p == call.p
           b == call.bp
           n == heap.next[p]
           u == Upper(heap, b, p)
           w == Lower(u, b, p)
           z == [w EXCEPT !.freep = p]
           m == [x \in Addrs |-> IF x = p THEN b ELSE u.next[x]]
           K == u.list \cup {b}
<1>1. call.at = "free" /\ Place(heap, b, p) /\ heap' = Clean(z)
      /\ call' = IF call.nunits = 0 THEN NoCall
                 ELSE [call EXCEPT !.at = "malloc", !.prevp = p, !.p = heap'.next[p], !.bp = NULL]
  BY Zenon DEF FreeLinks
<1>2. /\ heap \in Heaps /\ p \in heap.list /\ b \in Addrs /\ heap.brk \in Nat
      /\ heap.list \subseteq Addrs /\ heap.live \subseteq Addrs /\ call.nunits \in Nat
      /\ heap.size[BASE] = 0 /\ HeapOK(heap.list, heap.live \cup {b}, heap.size, heap.next, heap.brk)
      /\ b \notin heap.live /\ b \notin heap.list /\ Ring(heap.list, heap.next) /\ n \in heap.list
  BY <1>1, FreeUnderWay, Zenon
<1>3. Addrs \subseteq Nat /\ p \in Addrs /\ n \in Addrs /\ BASE \in Addrs /\ NULL \notin Addrs /\ p # b
  BY <1>2, Addresses, Zenon
<1>4. p < b /\ (b < n \/ n <= p)
  <2>1. p \in Nat /\ n \in Nat /\ b \in Nat
    BY <1>3, <1>2, Zenon
  <2>2. p < n \/ n = BASE
    BY <1>2, Zenon DEF Ring
  <2> QED BY <2>1, <2>2, <1>1 DEF Place, BASE
<1>5. /\ u \in Heaps /\ u.brk = heap.brk /\ u.live = heap.live
      /\ \A x \in Addrs \ {b} : u.next[x] = heap.next[x] /\ u.size[x] = heap.size[x]
      /\ IF b + heap.size[b] = n
         THEN /\ u.size[b] = heap.size[b] + heap.size[n] /\ u.next[b] = heap.next[n]
              /\ u.list = heap.list \ {n}
         ELSE u.size[b] = heap.size[b] /\ u.next[b] = n /\ u.list = heap.list
  <2>1. Uppered(heap, b, p, u)
    BY <1>2, <1>3, UpperFields, Zenon
  <2> QED BY <2>1, Zenon DEF Uppered
<1> HIDE DEF u
<1>6. /\ w \in Heaps /\ w.brk = u.brk /\ w.live = u.live
      /\ \A x \in Addrs \ {p} : w.next[x] = u.next[x] /\ w.size[x] = u.size[x]
      /\ IF p + u.size[p] = b
         THEN w.size[p] = u.size[p] + u.size[b] /\ w.next[p] = u.next[b] /\ w.list = u.list
         ELSE w.size[p] = u.size[p] /\ w.next[p] = b /\ w.list = u.list \cup {b}
  <2>1. Lowered(u, b, p, w)
    BY <1>2, <1>3, <1>5, LowerFields, Zenon
  <2> QED BY <2>1, Zenon DEF Lowered
<1> HIDE DEF w
<1>7. z \in Heaps /\ z.freep = p /\ z.brk = w.brk /\ z.live = w.live /\ z.list = w.list
      /\ z.next = w.next /\ z.size = w.size
  <2>1. p \in Pointers
    BY <1>3, Zenon DEF Pointers
  <2>2. z \in Heaps
    BY <2>1, <1>6, Zenon DEF Heaps
  <2> QED BY <2>2, <1>6, Zenon DEF Heaps
<1> HIDE DEF z
<1>8. /\ heap' \in Heaps /\ heap'.freep = p /\ heap'.brk = heap.brk /\ heap'.live = heap.live
      /\ heap'.list = w.list
      /\ \A x \in w.list : heap'.next[x] = w.next[x]
      /\ \A x \in w.list \cup heap.live : heap'.size[x] = w.size[x]
  <2>1. Cleaned(z, heap')
    BY <1>1, <1>7, CleanFields, Zenon
  <2> QED BY <2>1, <1>5, <1>6, <1>7 DEF Cleaned
<1>9. NearlyOK(K, heap.live, u.size, m, heap.brk, p, b)
  <2>1. IF b + heap.size[b] = n
        THEN K = (heap.list \cup {b}) \ {n} /\ u.size[b] = heap.size[b] + heap.size[n] /\ m[b] = heap.next[n]
        ELSE K = heap.list \cup {b} /\ u.size[b] = heap.size[b] /\ m[b] = n
    BY <1>2, <1>3, <1>5, Zenon
  <2>2. m[p] = b /\ \A x \in heap.list \ {p} : m[x] = heap.next[x]
    BY <1>2, <1>3, <1>5, Zenon
  <2>3. \A x \in heap.list \cup heap.live : u.size[x] = heap.size[x]
    BY <1>2, <1>5, Zenon
  <2> HIDE DEF m, K, n
  <2>4. b \in Nat /\ (b < heap.next[p] \/ heap.next[p] <= p) /\ n = heap.next[p]
    BY <1>2, <1>3, <1>4, Zenon DEF n
  <2>5. JoinsUpper(heap.list, heap.live, heap.size, heap.next, p, b, K, u.size, m)
    BY <1>2, <1>4, <2>1, <2>2, <2>3, <2>4, Zenon DEF JoinsUpper
  <2> QED BY <1>2, <2>4, <2>5, UpperOK, Zenon
<1>10. p \in u.list /\ u.list \subseteq heap.list /\ BASE # b
  <2>1. p \in Nat /\ n \in Nat /\ b \in Nat /\ heap.size[b] \in Nat
    BY <1>2, <1>3, Zenon DEF Heaps
  <2>2. CASE b + heap.size[b] = n
    BY <2>1, <2>2, <1>2, <1>4, <1>5 DEF Ring
  <2>3. CASE b + heap.size[b] # n
    BY <2>3, <1>2, <1>5, Zenon DEF Ring
  <2> QED BY <2>2, <2>3, Zenon
<1>11. HeapOK(w.list, heap.live, w.size, w.next, heap.brk)
  <2>1. p \in K /\ b \in K /\ b \notin u.list /\ K \subseteq Addrs /\ BASE # b
    BY <1>2, <1>10, Zenon
  <2>2. u.size[BASE] = 0
    BY <1>2, <1>3, <1>5, <2>1, Zenon
  <2>3. m[p] = b /\ m[b] = u.next[b] /\ \A x \in K \ {p} : m[x] = u.next[x]
    BY <1>2, <1>3, <2>1, Zenon
  <2>4. IF p + u.size[p] = b
        THEN w.list = K \ {b} /\ w.size[p] = u.size[p] + u.size[b] /\ w.next[p] = m[b]
        ELSE w.list = K /\ w.size[p] = u.size[p] /\ w.next[p] = b /\ w.size[b] = u.size[b] /\ w.next[b] = m[b]
    BY <1>2, <1>3, <1>6, <2>1, <2>3, Zenon
  <2>5. \A x \in K \ {p, b} : w.next[x] = m[x]
    BY <1>6, <2>1, <2>3, Zenon
  <2>6. \A x \in (K \ {p, b}) \cup heap.live : w.size[x] = u.size[x]
    <3>1. p \notin heap.live
      BY <1>2, Zenon DEF HeapOK
    <3> QED BY <3>1, <1>2, <1>6, <2>1, Zenon
  <2> HIDE DEF m, K, p, b
  <2>7. JoinsLower(K, heap.live, u.size, m, p, b, w.list, w.size, w.next)
    BY <1>4, <2>1, <2>2, <2>3, <2>4, <2>5, <2>6, Zenon DEF JoinsLower
  <2>8. heap.brk \in Nat
    BY <1>2, Zenon
  <2> QED BY <1>9, <2>7, <2>8, LowerOK, Zenon
<1>12. HeapOK(heap'.list, heap'.live, heap'.size, heap'.next, heap'.brk)
  <2>1. \A x \in (w.list \ {BASE}) \cup heap.live : heap'.size[x] = w.size[x]
    BY <1>8, Zenon
  <2>2. SameHeaders(w.list, heap.live, w.size, w.next, heap'.size, heap'.next)
    BY <2>1, <1>8, Zenon DEF SameHeaders
  <2>3. HeapOK(w.list, heap.live, heap'.size, heap'.next, heap.brk)
    BY <1>2, <1>11, <2>2, HeapOKOnBlocks, Zenon
  <2> QED BY <2>3, <1>8, Zenon
<1>13. p \in w.list /\ BASE \in w.list /\ heap'.size[BASE] = 0
  <2>1. p \in w.list
    BY <1>6, <1>10, Zenon
  <2>2. BASE \in w.list
    BY <1>11, Zenon DEF HeapOK, Ring
  <2>3. BASE # b
    BY <1>2, Zenon DEF Ring
  <2>4. u.size[BASE] = 0
    BY <1>2, <1>3, <1>5, <2>3, Zenon
  <2>5. w.size[BASE] = 0
    <3>1. CASE p # BASE
      BY <3>1, <2>4, <1>3, <1>6, Zenon
    <3>2. CASE p = BASE
      BY <3>2, <2>3, <2>4, <1>6 DEF BASE
    <3> QED BY <3>1, <3>2, Zenon
  <2> QED BY <2>1, <2>2, <2>5, <1>8, Zenon
<1>14. call'.at \in {"none", "malloc"} /\ MallocTypeOK'
       /\ (call'.at = "malloc" => call'.prevp = p /\ call'.p = heap'.next[p] /\ 1 <= call'.nunits)
  <2>1. call \in Calls
    BY Zenon DEF MallocInv, MallocTypeOK
  <2>2. heap'.next[p] \in Pointers /\ p \in Pointers /\ NULL \in Pointers
    BY <1>3, <1>8, Zenon DEF Heaps, Pointers
  <2>3. CASE call.nunits = 0
    <3>1. call' = NoCall
      BY <2>3, <1>1, Zenon
    <3> QED BY <3>1, <2>2, <1>8, Zenon DEF NoCall, MallocTypeOK, Calls
  <2>4. CASE call.nunits # 0
    <3>1. call' = [call EXCEPT !.at = "malloc", !.prevp = p, !.p = heap'.next[p], !.bp = NULL]
      BY <2>4, <1>1, Zenon
    <3>2. call'.at = "malloc" /\ call'.prevp = p /\ call'.p = heap'.next[p] /\ call'.nunits = call.nunits
      BY <3>1, <2>1, Zenon DEF Calls
    <3>3. 1 <= call'.nunits
      BY <3>2, <2>4, <1>2
    <3>4. MallocTypeOK'
      BY <3>1, <2>1, <2>2, <1>8, Zenon DEF MallocTypeOK, Calls
    <3> QED BY <3>2, <3>3, <3>4, Zenon
  <2> QED BY <2>3, <2>4, Zenon
<1>15. Hand' = {}
  BY <1>14, Zenon DEF Hand
<1>16. heap'.live \cup Hand' = heap'.live
  BY <1>15, Zenon
<1>17. heap'.brk \in FIRST..(FIRST + HEAPMAX)
  BY <1>8, Zenon DEF MallocInv
<1>18. heap'.freep # NULL
  BY <1>3, <1>8, Zenon
<1> HIDE DEF p, b
<1> QED BY <1>8, <1>12, <1>13, <1>14, <1>15, <1>16, <1>17, <1>18, Zenon DEF MallocInv

\* free takes a block from the client.
LEMMA FreeCallInv == ASSUME MallocInv, NEW a \in heap.live, FreeCall(a) PROVE MallocInv'
<1>1. call.at = "none" /\ heap' = [heap EXCEPT !.live = heap.live \ {a}]
      /\ call' = [NoCall EXCEPT !.at = "free", !.p = heap.freep, !.bp = a]
  BY Zenon DEF FreeCall
<1>2. heap \in Heaps /\ a \in Addrs /\ heap.freep \in Pointers /\ heap.freep # NULL /\ heap.freep \in heap.list
  BY Zenon DEF MallocInv, MallocTypeOK, Heaps
<1>3. heap' \in Heaps
  BY <1>1, <1>2, Zenon DEF Heaps
<1>4. heap'.live = heap.live \ {a} /\ heap'.freep = heap.freep /\ heap'.next = heap.next
      /\ heap'.size = heap.size /\ heap'.brk = heap.brk /\ heap'.list = heap.list
  BY <1>1, <1>2, Zenon DEF Heaps
<1>5. call'.at = "free" /\ call'.p = heap.freep /\ call'.bp = a
  BY <1>1, Zenon DEF NoCall
<1>6. call' \in Calls
  BY <1>1, <1>2, Zenon DEF NoCall, Calls, Pointers
<1>7. Hand = {} /\ Hand' = {a}
  BY <1>1, <1>5, Zenon DEF Hand
<1>8. heap'.live \cup Hand' = heap.live \cup Hand /\ Hand' \cap heap'.live = {}
  BY <1>4, <1>7, Zenon
<1>9. MallocTypeOK'
  BY <1>3, <1>6, Zenon DEF MallocTypeOK
<1> QED BY <1>1, <1>2, <1>4, <1>5, <1>8, <1>9, Zenon DEF MallocInv

\* malloc asks for one unit at least.
LEMMA UnitsPositive == ASSUME NEW n \in Nat PROVE Units(n) \in Nat /\ 1 <= Units(n)
<1>1. HEADER_SIZE \in Nat /\ 1 <= HEADER_SIZE
  BY HeapConstants
<1>2. n + HEADER_SIZE - 1 \in Nat
  BY <1>1
<1>3. (n + HEADER_SIZE - 1) \div HEADER_SIZE \in Nat
  <2> DEFINE m == n + HEADER_SIZE - 1
  <2>1. m \in Nat
    BY <1>2, Zenon
  <2> HIDE DEF m
  <2>2. m \div HEADER_SIZE \in Nat
    BY <2>1, <1>1
  <2> QED BY <2>2, Zenon DEF m
<1> HIDE DEF Units
<1> QED BY <1>3 DEF Units

\* malloc starts, the first call with an empty list.
LEMMA MallocCallInv == ASSUME MallocInv, NEW n \in Bytes, MallocCall(n) PROVE MallocInv'
<1>1. /\ call.at = "none"
      /\ heap' = IF heap.freep # NULL THEN heap
                 ELSE [heap EXCEPT !.next[BASE] = BASE, !.size[BASE] = 0, !.freep = BASE, !.list = {BASE}]
      /\ call' = [NoCall EXCEPT !.at = "malloc", !.nunits = Units(n), !.prevp = heap'.freep,
                                !.p = heap'.next[heap'.freep]]
  BY Zenon DEF MallocCall
<1>2. Units(n) \in Nat /\ 1 <= Units(n)
  BY HeapConstants, UnitsPositive, Zenon
<1>3. heap \in Heaps /\ BASE \in Addrs /\ NULL \notin Addrs /\ BASE \in Pointers
  BY Addresses, Zenon DEF MallocInv, MallocTypeOK, Pointers
<1>4. call'.at = "malloc" /\ call'.prevp = heap'.freep /\ call'.p = heap'.next[heap'.freep] /\ call'.nunits = Units(n)
  BY <1>1, Zenon DEF NoCall
<1>5. Hand = {} /\ Hand' = {}
  BY <1>1, <1>4, Zenon DEF Hand
<1>6. heap' \in Heaps /\ heap'.freep \in heap'.list /\ heap'.freep # NULL /\ heap'.size[BASE] = 0
      /\ HeapOK(heap'.list, heap'.live, heap'.size, heap'.next, heap'.brk) /\ heap'.brk = heap.brk
  <2>1. CASE heap.freep # NULL
    <3>1. heap' = heap
      BY <2>1, <1>1, Zenon
    <3>2. heap.live \cup Hand = heap.live
      BY <1>5, Zenon
    <3> QED BY <3>1, <3>2, <2>1, <1>3, Zenon DEF MallocInv
  <2>2. CASE heap.freep = NULL
    <3>1. heap' = [heap EXCEPT !.next[BASE] = BASE, !.size[BASE] = 0, !.freep = BASE, !.list = {BASE}]
      BY <2>2, <1>1, Zenon
    <3>2. heap' \in Heaps
      BY <3>1, <1>3, Zenon DEF Heaps
    <3>3. heap'.freep = BASE /\ heap'.list = {BASE} /\ heap'.live = heap.live /\ heap'.brk = heap.brk
          /\ heap'.next = [heap.next EXCEPT ![BASE] = BASE] /\ heap'.size = [heap.size EXCEPT ![BASE] = 0]
      BY <3>1, <1>3, Zenon DEF Heaps
    <3>4. heap.live = {} /\ heap.brk = FIRST
      BY <2>2, Zenon DEF MallocInv
    <3>5. heap'.next[BASE] = BASE /\ heap'.size[BASE] = 0
      BY <3>3, <1>3, Zenon DEF Heaps
    <3>6. Ring({BASE}, heap'.next)
      BY <3>5 DEF Ring, BASE
    <3>7. Tiled(({BASE} \ {BASE}) \cup {}, heap'.size, FIRST)
      BY DEF Tiled, FIRST
    <3>8. Apart({BASE}, heap'.size)
      BY Zenon DEF Apart
    <3>9. BASE # NULL
      BY DEF BASE, NULL
    <3>10. HeapOK({BASE}, {}, heap'.size, heap'.next, FIRST)
      BY <3>6, <3>7, <3>8, Zenon DEF HeapOK
    <3> QED BY <3>2, <3>3, <3>4, <3>5, <3>9, <3>10, Zenon
  <2> QED BY <2>1, <2>2, Zenon
<1>7. call' \in Calls
  <2>1. heap'.freep \in Addrs
    BY <1>6, Zenon DEF Heaps
  <2>2. heap'.freep \in Pointers /\ heap'.next[heap'.freep] \in Pointers /\ NULL \in Pointers
    BY <2>1, <1>6, Zenon DEF Heaps, Pointers
  <2> QED BY <2>2, <1>1, <1>2, Zenon DEF NoCall, Calls
<1>8. MallocTypeOK'
  BY <1>6, <1>7, Zenon DEF MallocTypeOK
<1>9. heap'.live \cup Hand' = heap'.live /\ Hand' \cap heap'.live = {}
  BY <1>5, Zenon
<1>10. heap'.brk \in FIRST..(FIRST + HEAPMAX)
  BY <1>6, Zenon DEF MallocInv
<1> QED BY <1>2, <1>4, <1>6, <1>8, <1>9, <1>10, Zenon DEF MallocInv

\* What the invariant says while malloc is at p, which prevp links to.
LEMMA MallocUnderWay ==
  ASSUME MallocInv, call.at = "malloc"
  PROVE  /\ heap \in Heaps /\ call \in Calls /\ call.nunits \in Nat /\ 1 <= call.nunits
         /\ call.prevp \in heap.list /\ call.p = heap.next[call.prevp] /\ call.p \in heap.list
         /\ heap.freep # NULL /\ heap.freep \in heap.list /\ heap.size[BASE] = 0 /\ heap.brk \in Nat
         /\ heap.list \subseteq Addrs /\ heap.live \subseteq Addrs /\ Hand = {}
         /\ HeapOK(heap.list, heap.live, heap.size, heap.next, heap.brk) /\ Ring(heap.list, heap.next)
<1>1. Hand = {} /\ heap.live \cup Hand = heap.live
  BY Zenon DEF Hand
<1>2. heap \in Heaps /\ call \in Calls /\ heap.freep # NULL /\ call.prevp \in heap.list
      /\ call.p = heap.next[call.prevp] /\ 1 <= call.nunits
  BY Zenon DEF MallocInv, MallocTypeOK
<1>3. heap.list \subseteq Addrs /\ heap.live \subseteq Addrs /\ heap.brk \in Nat /\ call.nunits \in Nat
  BY <1>2, Zenon DEF Heaps, Calls
<1>4. heap.freep \in heap.list /\ heap.size[BASE] = 0
      /\ HeapOK(heap.list, heap.live, heap.size, heap.next, heap.brk)
  BY <1>1, <1>2, Zenon DEF MallocInv
<1>5. Ring(heap.list, heap.next)
  BY <1>4, Zenon DEF HeapOK
<1>6. call.p \in heap.list
  BY <1>2, <1>5, Zenon DEF Ring
<1> QED BY <1>1, <1>2, <1>3, <1>4, <1>5, <1>6, Zenon

\* A turn of the loop in malloc.
LEMMA MallocLoopInv == ASSUME MallocInv, MallocLoop PROVE MallocInv'
<1>1. call.at = "malloc" /\ call' = [call EXCEPT !.prevp = call.p, !.p = heap.next[call.p]] /\ heap' = heap
  BY Zenon DEF MallocLoop
<1>2. call \in Calls /\ call.p \in heap.list /\ heap.list \subseteq Addrs /\ heap \in Heaps /\ 1 <= call.nunits
  BY <1>1, MallocUnderWay, Zenon
<1>3. call'.at = "malloc" /\ call'.prevp = call.p /\ call'.p = heap.next[call.p] /\ call'.nunits = call.nunits
  BY <1>1, <1>2, Zenon DEF Calls
<1>4. call.p \in Pointers /\ heap.next[call.p] \in Pointers
  BY <1>2, Zenon DEF Heaps, Pointers
<1>5. call' \in Calls
  BY <1>1, <1>2, <1>4, Zenon DEF Calls
<1>6. MallocTypeOK' /\ Hand' = Hand
  BY <1>1, <1>2, <1>3, <1>5, Zenon DEF MallocTypeOK, Hand
<1> QED BY <1>1, <1>2, <1>3, <1>6, Zenon DEF MallocInv

\* morecore gets a block for free, or malloc returns null.
LEMMA MorecoreInv == ASSUME MallocInv, Morecore PROVE MallocInv'
<1> DEFINE k == heap.brk
           n == Core(call.nunits)
<1>1. /\ call.at = "malloc"
      /\ IF CanGrow(heap, call.nunits)
         THEN /\ heap' = [heap EXCEPT !.brk = k + n, !.size[k] = n]
              /\ call' = [call EXCEPT !.at = "free", !.p = heap.freep, !.bp = k, !.prevp = NULL]
         ELSE call' = NoCall /\ heap' = heap
  BY Zenon DEF Morecore
<1>2. /\ heap \in Heaps /\ call \in Calls /\ call.nunits \in Nat /\ 1 <= call.nunits
      /\ heap.freep # NULL /\ heap.freep \in heap.list /\ heap.size[BASE] = 0 /\ heap.brk \in Nat
      /\ heap.list \subseteq Addrs /\ heap.live \subseteq Addrs /\ Hand = {}
      /\ HeapOK(heap.list, heap.live, heap.size, heap.next, heap.brk)
  BY <1>1, MallocUnderWay, Zenon
<1>3. NULL \in Pointers /\ heap.freep \in Pointers /\ BASE \in Addrs
  BY <1>2, Addresses, Zenon DEF Pointers
<1>4. CASE ~CanGrow(heap, call.nunits)
  <2>1. call' = NoCall /\ heap' = heap
    BY <1>1, <1>4, Zenon
  <2>2. call'.at = "none" /\ call' \in Calls
    BY <2>1, <1>3, Zenon DEF NoCall, Calls
  <2>3. MallocTypeOK' /\ Hand' = Hand
    BY <2>1, <2>2, <1>2, Zenon DEF MallocTypeOK, Hand
  <2> QED BY <2>1, <2>2, <2>3, <1>2, Zenon DEF MallocInv
<1>5. CASE CanGrow(heap, call.nunits)
  <2>1. /\ heap' = [heap EXCEPT !.brk = k + n, !.size[k] = n]
        /\ call' = [call EXCEPT !.at = "free", !.p = heap.freep, !.bp = k, !.prevp = NULL]
    BY <1>1, <1>5, Zenon
  <2>2. n \in Nat /\ 1 <= n /\ k - FIRST + n <= HEAPMAX /\ FIRST <= k /\ k \in Nat
    BY <1>2, <1>5, HeapConstants DEF Core, CanGrow, MallocInv, FIRST
  <2>3. k \in Addrs /\ k + n \in FIRST..(FIRST + HEAPMAX) /\ k # BASE
    BY <2>2, HeapConstants, Addresses DEF FIRST, BASE
  <2> HIDE DEF n, k
  <2>4. heap' \in Heaps
    <3>1. k + n \in Nat /\ [heap.size EXCEPT ![k] = n] \in [Addrs -> Nat]
      BY <2>2, <2>3, <1>2 DEF Heaps
    <3> DEFINE e == k + n
               f == [heap.size EXCEPT ![k] = n]
    <3>2. heap' = [heap EXCEPT !.brk = e, !.size = f] /\ e \in Nat /\ f \in [Addrs -> Nat]
      BY <2>1, <3>1, Zenon
    <3> HIDE DEF e, f
    <3> QED BY <3>2, <1>2, Zenon DEF Heaps
  <2>5. heap'.brk = k + n /\ heap'.size = [heap.size EXCEPT ![k] = n] /\ heap'.next = heap.next
        /\ heap'.list = heap.list /\ heap'.live = heap.live /\ heap'.freep = heap.freep
    BY <2>1, <1>2, Zenon DEF Heaps
  <2>6. heap.size \in [Addrs -> Nat]
    BY <1>2, Zenon DEF Heaps
  <2>7. heap'.size[k] = n /\ \A x \in Addrs \ {k} : heap'.size[x] = heap.size[x]
    BY <2>3, <2>5, <2>6, Zenon
  <2>8. call'.at = "free" /\ call'.p = heap.freep /\ call'.bp = k
    BY <2>1, <1>2, Zenon DEF Calls
  <2>9. k \in Pointers
    BY <2>3, Zenon DEF Pointers
  <2>10. call' \in Calls
    BY <2>1, <2>9, <1>2, <1>3, Zenon DEF Calls
  <2>11. Hand' = {k}
    BY <2>8, Zenon DEF Hand
  <2>12. Tiled(((heap.list \ {BASE}) \cup heap.live) \cup {k}, heap'.size, k + n)
         /\ k \notin (heap.list \ {BASE}) \cup heap.live
    <3> DEFINE B == (heap.list \ {BASE}) \cup heap.live
    <3>1. Tiled(B, heap.size, k) /\ B \subseteq Addrs
      BY <1>2, Zenon DEF HeapOK, k
    <3> HIDE DEF B
    <3>2. k \notin B
      BY <3>1, <2>2 DEF Tiled
    <3>3. \A x \in B : heap'.size[x] = heap.size[x]
      BY <3>1, <3>2, <2>7, Zenon
    <3>4. Grows(B, heap.size, heap'.size, k, n)
      BY <3>3, <2>2, <2>7, Zenon DEF Grows
    <3>5. Tiled(B \cup {k}, heap'.size, k + n)
      BY <3>1, <3>4, <2>2, TilesGrow, Zenon
    <3> QED BY <3>2, <3>5, Zenon DEF B
  <2>13. HeapOK(heap'.list, heap'.live \cup Hand', heap'.size, heap'.next, heap'.brk)
    <3>1. Ring(heap.list, heap.next) /\ Apart(heap.list, heap.size) /\ heap.list \cap heap.live = {}
      BY <1>2, Zenon DEF HeapOK
    <3>2. k \notin heap.list /\ k \notin heap.live
      BY <2>3, <2>12, Zenon
    <3>3. Apart(heap.list, heap'.size)
      BY <3>1, <3>2, <2>7, <1>2, Zenon DEF Apart
    <3>4. (heap.list \ {BASE}) \cup (heap.live \cup {k}) = ((heap.list \ {BASE}) \cup heap.live) \cup {k}
      OBVIOUS
    <3>5. Tiled((heap.list \ {BASE}) \cup (heap.live \cup {k}), heap'.size, k + n)
      BY <3>4, <2>12, Zenon
    <3>6. heap.list \cap (heap.live \cup {k}) = {}
      BY <3>1, <3>2, Zenon
    <3>7. HeapOK(heap.list, heap.live \cup {k}, heap'.size, heap.next, k + n)
      BY <3>1, <3>3, <3>5, <3>6, Zenon DEF HeapOK
    <3> QED BY <3>7, <2>5, <2>11, Zenon
  <2>14. heap'.size[BASE] = 0
    BY <2>3, <2>7, <1>2, <1>3, Zenon
  <2>15. Hand' \cap heap'.live = {}
    BY <2>5, <2>11, <2>12, Zenon
  <2>16. MallocTypeOK'
    BY <2>4, <2>10, Zenon DEF MallocTypeOK
  <2>17. heap'.brk \in FIRST..(FIRST + HEAPMAX) /\ heap'.freep # NULL /\ heap'.freep \in heap'.list
    BY <2>3, <2>5, <1>2, Zenon
  <2> QED BY <2>3, <2>5, <2>8, <2>13, <2>14, <2>15, <2>16, <2>17, Zenon DEF MallocInv
<1> QED BY <1>4, <1>5, Zenon

\* malloc hands out block p, or the tail of it.
LEMMA FitsInv == ASSUME MallocInv, Fits PROVE MallocInv'
<1> DEFINE p == call.p
           r == call.prevp
           n == call.nunits
           L == heap.list
           V == heap.live
           sz == heap.size
           nx == heap.next
           k == heap.brk
           q == p + sz[p] - n
           t == Taken(heap, r, p, n)
           B == (L \ {BASE}) \cup V
<1>1. call.at = "malloc" /\ n <= sz[p] /\ heap' = Clean(t) /\ call' = NoCall
  BY MallocUnderWay, Zenon DEF Fits, Heaps
<1>2. /\ heap \in Heaps /\ n \in Nat /\ 1 <= n /\ r \in L /\ p = nx[r] /\ p \in L
      /\ heap.freep # NULL /\ sz[BASE] = 0 /\ k \in Nat /\ L \subseteq Addrs /\ V \subseteq Addrs
      /\ Ring(L, nx) /\ Tiled(B, sz, k) /\ Apart(L, sz) /\ L \cap V = {} /\ k <= FIRST + HEAPMAX
  BY <1>1, MallocUnderWay, SMTT(30) DEF HeapOK, MallocInv
<1>3. p # BASE /\ p \in B /\ p \in Addrs /\ r \in Addrs /\ BASE \in L /\ B \subseteq Addrs /\ NULL \notin Addrs
  <2>1. p # BASE
    BY <1>1, <1>2
  <2> QED BY <2>1, <1>2, Addresses, Zenon DEF Ring
<1>4. sz \in [Addrs -> Nat] /\ nx \in [Addrs -> Pointers] /\ sz[p] \in Nat /\ nx[p] \in L /\ r \in Pointers
  BY <1>2, <1>3, Zenon DEF Heaps, Ring, Pointers
<1>5. t \in Heaps /\ t.freep = r /\ t.brk = k /\ r \in t.list /\ t.size[BASE] = 0 /\ BASE \in t.list
      /\ HeapOK(t.list, t.live, t.size, t.next, k)
  <2>1. CASE sz[p] = n
    <3>1. t = [heap EXCEPT !.next[r] = nx[p], !.freep = r, !.list = L \ {p}, !.live = V \cup {p}]
      BY <2>1, Zenon DEF Taken
    <3> HIDE DEF t, p, r, n
    <3>2. nx[p] \in Pointers
      BY <1>2, <1>4, Zenon DEF Pointers
    <3>3. t \in Heaps
      BY <3>1, <3>2, <1>2, <1>3, <1>4, Zenon DEF Heaps
    <3>4. t.freep = r /\ t.brk = k /\ t.list = L \ {p} /\ t.live = V \cup {p} /\ t.size = sz
          /\ t.next = [nx EXCEPT ![r] = nx[p]]
      BY <3>1, <1>2, Zenon DEF Heaps
    <3> HIDE DEF L, V, sz, nx, k
    <3>5. t.next[r] = nx[p] /\ \A x \in L \ {r, p} : t.next[x] = nx[x]
      BY <3>4, <1>2, <1>3, <1>4, Zenon
    <3>6. Ring(L \ {p}, t.next) /\ r < p
      <4>1. Unlinks(L, nx, t.next, r, p)
        BY <3>5, <1>2, <1>3, Zenon DEF Unlinks
      <4> QED BY <4>1, <1>2, RingRemove, Zenon
    <3>7. r # p
      BY <3>6, <1>3, Addresses
    <3>8. ((L \ {p}) \ {BASE}) \cup (V \cup {p}) = B
      BY <1>3, Zenon
    <3>9. Apart(L \ {p}, sz)
      BY <1>2, Zenon DEF Apart
    <3>10. (L \ {p}) \cap (V \cup {p}) = {}
      BY <1>2, Zenon
    <3>11. HeapOK(L \ {p}, V \cup {p}, sz, t.next, k)
      BY <3>6, <3>8, <3>9, <3>10, <1>2, Zenon DEF HeapOK
    <3> QED BY <3>3, <3>4, <3>7, <3>11, <1>2, <1>3, Zenon
  <2>2. CASE sz[p] # n
    <3>1. t = [heap EXCEPT !.size = [sz EXCEPT ![p] = sz[p] - n, ![q] = n], !.freep = r, !.live = V \cup {q}]
      BY <2>2, Zenon DEF Taken
    <3>2. n < sz[p]
      BY <1>1, <1>2, <1>4, <2>2
    <3>3. p \in Nat /\ sz[p] - n \in Nat /\ p < q /\ q \in Nat
      <4>1. p \in Nat /\ sz[p] \in Nat /\ n \in Nat
        BY <1>2, <1>3, <1>4, Addresses, Zenon
      <4> HIDE DEF p, sz, n
      <4> QED BY <4>1, <3>2
    <3>4. p + sz[p] <= k /\ FIRST <= p
      <4> HIDE DEF B, p, sz, k
      <4> QED BY <1>2, <1>3, Zenon DEF Tiled
    <3>5. q \in Addrs
      <4>1. q < FIRST + HEAPMAX /\ FIRST <= q
        BY <3>2, <3>3, <3>4, <1>2, <1>4, HeapConstants, SMTT(30) DEF FIRST
      <4> QED BY <4>1, <3>3, Addresses
    <3> HIDE DEF t, p, r, n
    <3>6. q = p + sz[p] - n /\ q # p
      BY <3>3
    <3> HIDE DEF q
    <3> DEFINE s == [sz EXCEPT ![p] = sz[p] - n, ![q] = n]
    <3>7. s \in [Addrs -> Nat]
      BY <3>3, <3>5, <1>2, <1>3, <1>4, Zenon
    <3>8. s[p] = sz[p] - n /\ s[q] = n /\ \A x \in Addrs \ {p, q} : s[x] = sz[x]
      BY <3>5, <3>6, <1>3, <1>4, Zenon
    <3>9. t = [heap EXCEPT !.size = s, !.freep = r, !.live = V \cup {q}]
      BY <3>1, Zenon
    <3> HIDE DEF s
    <3>10. t \in Heaps
      BY <3>5, <3>7, <3>9, <1>2, <1>4, Zenon DEF Heaps
    <3>11. t.freep = r /\ t.brk = k /\ t.list = L /\ t.live = V \cup {q} /\ t.size = s /\ t.next = nx
      BY <3>9, <1>2, Zenon DEF Heaps
    <3> HIDE DEF L, V, sz, nx, k
    <3>12. Tiled(B \cup {q}, s, k) /\ q \notin B
      <4> HIDE DEF B
      <4>1. q \notin B
        <5>1. \A x \in B : x \in Nat /\ (p < x => p + sz[p] <= x)
          BY <1>2, <1>3, Zenon DEF Tiled
        <5> QED BY <5>1, <3>3, <3>6, <1>2, <1>4
      <4>2. \A x \in B \ {p} : s[x] = sz[x]
        BY <4>1, <3>8, <1>3, Zenon
      <4>3. s[p + sz[p] - n] = n
        BY <3>6, <3>8, Zenon
      <4>4. Cuts(B, sz, s, p, n)
        BY <4>2, <4>3, <3>2, <3>8, <1>2, <1>3, Zenon DEF Cuts
      <4>5. Tiled(B \cup {q}, s, k)
        BY <4>4, <3>6, <1>2, TilesSplit, Zenon
      <4> QED BY <4>1, <4>5, Zenon
    <3>13. (L \ {BASE}) \cup (V \cup {q}) = B \cup {q}
      OBVIOUS
    <3>14. q # BASE /\ q \notin L
      BY <3>3, <3>12, <1>3 DEF BASE
    <3>15. Apart(L, s)
      <4>1. SUFFICES ASSUME NEW x \in L \ {BASE}, NEW y \in L \ {BASE}, x + s[x] = y PROVE FALSE
        BY Zenon DEF Apart
      <4>2. CASE x = p
        BY <4>1, <4>2, <3>3, <3>6, <3>8, <3>14, <1>2, <1>4, Zenon
      <4>3. CASE x # p
        <5>1. s[x] = sz[x]
          BY <4>3, <3>8, <3>14, <1>2, Zenon
        <5> QED BY <5>1, <4>1, <1>2, Zenon DEF Apart
      <4> QED BY <4>2, <4>3, Zenon
    <3>16. s[BASE] = 0
      BY <3>8, <3>14, <1>2, <1>3, Zenon
    <3>17. L \cap (V \cup {q}) = {}
      BY <3>14, <1>2, Zenon
    <3>18. HeapOK(L, V \cup {q}, s, nx, k)
      BY <3>12, <3>13, <3>15, <3>17, <1>2, Zenon DEF HeapOK
    <3> QED BY <3>10, <3>11, <3>16, <3>18, <1>2, <1>3, Zenon
  <2> QED BY <2>1, <2>2, Zenon
<1> HIDE DEF t
<1>6. /\ heap' \in Heaps /\ heap'.freep = r /\ heap'.brk = k /\ heap'.live = t.live /\ heap'.list = t.list
      /\ \A x \in t.list : heap'.next[x] = t.next[x]
      /\ \A x \in t.list \cup t.live : heap'.size[x] = t.size[x]
  <2>1. Cleaned(t, heap')
    BY <1>1, <1>5, CleanFields, Zenon
  <2> QED BY <2>1, <1>5, Zenon DEF Cleaned
<1>7. HeapOK(heap'.list, heap'.live, heap'.size, heap'.next, heap'.brk)
  <2>1. \A x \in (t.list \ {BASE}) \cup t.live : heap'.size[x] = t.size[x]
    BY <1>6, Zenon
  <2>2. SameHeaders(t.list, t.live, t.size, t.next, heap'.size, heap'.next)
    BY <2>1, <1>6, Zenon DEF SameHeaders
  <2>3. HeapOK(t.list, t.live, heap'.size, heap'.next, k)
    BY <1>2, <1>5, <2>2, HeapOKOnBlocks, Zenon
  <2> QED BY <2>3, <1>6, Zenon
<1>8. heap'.size[BASE] = 0 /\ heap'.freep \in heap'.list
  BY <1>5, <1>6, Zenon
<1>9. heap'.freep # NULL
  BY <1>3, <1>6, Zenon
<1>10. call'.at = "none" /\ call' \in Calls
  BY <1>1, Zenon DEF NoCall, Calls, Pointers
<1>11. MallocTypeOK' /\ Hand' = {}
  BY <1>6, <1>10, Zenon DEF MallocTypeOK, Hand
<1>12. heap'.live \cup Hand' = heap'.live /\ Hand' \cap heap'.live = {}
  BY <1>11, Zenon
<1>13. heap'.brk \in FIRST..(FIRST + HEAPMAX)
  BY <1>6, Zenon DEF MallocInv
<1> QED BY <1>7, <1>8, <1>9, <1>10, <1>11, <1>12, <1>13, Zenon DEF MallocInv

\* Before the first call.
LEMMA MallocInitInv == ASSUME MallocInit PROVE MallocInv
<1>1. heap = [freep |-> NULL, next |-> [a \in Addrs |-> NULL], size |-> [a \in Addrs |-> 0],
              brk |-> FIRST, list |-> {}, live |-> {}] /\ call = NoCall
  BY Zenon DEF MallocInit
<1>2. heap \in Heaps /\ call \in Calls
  BY <1>1, Zenon DEF Heaps, Calls, NoCall, Pointers, FIRST
<1>3. heap.freep = NULL /\ heap.list = {} /\ heap.live = {} /\ heap.brk = FIRST /\ call.at = "none"
  BY <1>1, Zenon DEF NoCall
<1>4. heap.brk \in FIRST..(FIRST + HEAPMAX)
  BY <1>3, HeapConstants DEF FIRST
<1> QED BY <1>2, <1>3, <1>4, Zenon DEF MallocInv, MallocTypeOK

\* malloc and free of ulib: whatever the client asks for and in whatever order
\* it frees, every unit of the heap belongs to exactly one block, and the free
\* list holds in the order of addresses the free blocks, no two of which touch.
THEOREM HeapIsSound == MallocSpec => []HeapSound
<1>1. MallocInit => MallocInv
  BY MallocInitInv, Zenon
<1>2. MallocInv /\ [MallocNext]_heapVars => MallocInv'
  <2>1. SUFFICES ASSUME MallocInv, [MallocNext]_heapVars PROVE MallocInv'
    OBVIOUS
  <2>2. ASSUME NEW n \in Bytes, MallocCall(n) PROVE MallocInv'
    BY <2>1, <2>2, MallocCallInv, Zenon
  <2>3. ASSUME NEW a \in heap.live, FreeCall(a) PROVE MallocInv'
    BY <2>1, <2>3, FreeCallInv, Zenon
  <2>4. CASE Fits
    BY <2>1, <2>4, FitsInv, Zenon
  <2>5. CASE MallocLoop
    BY <2>1, <2>5, MallocLoopInv, Zenon
  <2>6. CASE Morecore
    BY <2>1, <2>6, MorecoreInv, Zenon
  <2>7. CASE FreeLoop
    BY <2>1, <2>7, FreeLoopInv, Zenon
  <2>8. CASE FreeLinks
    BY <2>1, <2>8, FreeLinksInv, Zenon
  <2>9. CASE UNCHANGED heapVars
    BY <2>1, <2>9, Zenon DEF heapVars, MallocInv, MallocTypeOK, Hand
  <2> QED BY <2>1, <2>2, <2>3, <2>4, <2>5, <2>6, <2>7, <2>8, <2>9, Zenon DEF MallocNext
<1>3. MallocInv => HeapSound
  <2>1. CASE heap.freep = NULL
    BY <2>1, Zenon DEF HeapSound
  <2>2. CASE heap.freep # NULL
    BY <2>2, HeapBlocks, Zenon
  <2> QED BY <2>1, <2>2, Zenon
<1> QED BY <1>1, <1>2, <1>3, PTL DEF MallocSpec

-----------------------------------------------------------------------------
USE ProcConstants DEF ProcConstants

\* The first process never dies and has no parent; nobody is its own parent.
TreeInv == /\ state[INITPROC] \notin {"UNUSED", "ZOMBIE"}
           /\ parent[INITPROC] = NoProc
           /\ at[INITPROC] # "exit"
           /\ \A s \in Slots : parent[s] # s

\* Where a process sleeps in wait() is where exit looks for it.
ChanInv == \A p \in Slots : (state[p] = "SLEEPING" /\ at[p] = "wait") => chan[p] = p

IInv == TypeOK /\ OneRunning /\ PidsUnique /\ ParentAlive /\ WaiterNotMissed /\ TreeInv /\ ChanInv

LEMMA SlotFacts == /\ INITPROC \in Slots /\ NoProc \notin Slots /\ Slots \subseteq Nat
                   /\ DEV \notin Slots /\ DEV # NoProc
BY DEF INITPROC, NoProc, DEV, Slots

\* The first match of a scan over the table exists.
LEMMA LowestIn ==
  ASSUME NEW S, S \subseteq Slots, S # {}
  PROVE  Lowest(S) \in S
<1>1. S \subseteq Nat
  BY SlotFacts, Zenon
<1> DEFINE Less == {ss \in Nat \X Nat : ss[1] < ss[2]}
<1>0. IsWellFoundedOn(Less, Nat)
  BY NatLessThanWellFounded, Zenon DEF OpToRel
<1> HIDE DEF Less
<1>2. \E x \in S : \A y \in S : ~(<<y, x>> \in Less)
  BY <1>0, <1>1, WFMin, Zenon
<1>3. \E x \in S : \A y \in S : x <= y
  <2>1. \A x, y \in Nat : <<y, x>> \in Less <=> y < x
    BY Zenon DEF Less
  <2>2. PICK x \in S : \A y \in S : ~(<<y, x>> \in Less)
    BY <1>2, Zenon
  <2>3. \A y \in S : x <= y
    <3> SUFFICES ASSUME NEW y \in S PROVE x <= y
      OBVIOUS
    <3>1. x \in Nat /\ y \in Nat
      BY <1>1, Zenon
    <3>2. ~(y < x)
      BY <2>1, <2>2, <3>1, Zenon
    <3> QED
      BY <3>1, <3>2
  <2> QED
    BY <2>3, Zenon
<1> QED
  BY <1>3, Zenon DEF Lowest

LEMMA Wakeup1Keeps ==
  ASSUME NEW st \in [Slots -> States], NEW c, chan \in [Slots -> Chans]
  PROVE  /\ Wakeup1(st, c) \in [Slots -> States]
         /\ \A q \in Slots : \A l \in {"UNUSED", "RUNNING", "ZOMBIE"} : Wakeup1(st, c)[q] = l <=> st[q] = l
         /\ \A q \in Slots : Wakeup1(st, c)[q] = "SLEEPING" => st[q] = "SLEEPING" /\ chan[q] # c
BY Zenon DEF Wakeup1, States

LEMMA InitIInv == Init => IInv
<1> SUFFICES ASSUME Init PROVE IInv
  OBVIOUS
<1>1. TypeOK
  <2>1. halted \in BOOLEAN
    BY Zenon DEF Init
  <2>2. state \in [Slots -> States] /\ at \in [Slots -> Places] /\ pid \in [Slots -> Nat]
    BY Zenon DEF Init, States, Places
  <2> QED
    BY <2>1, <2>2, SlotFacts DEF Init, TypeOK, Chans
<1>2. Live = {INITPROC}
  BY SlotFacts, Zenon DEF Init, Live
<1>3. PidsUnique /\ ParentAlive
  BY <1>2, SlotFacts DEF Init, PidsUnique, ParentAlive
<1>4. OneRunning /\ WaiterNotMissed /\ ChanInv
  BY SlotFacts, Zenon DEF Init, OneRunning, WaiterNotMissed, ChanInv
<1>5. TreeInv
  BY SlotFacts, Zenon DEF Init, TreeInv
<1> QED
  BY <1>1, <1>3, <1>4, <1>5, Zenon DEF IInv

-----------------------------------------------------------------------------
\* fork: the new process gets a fresh pid and a running parent.
LEMMA ForkStep ==
  ASSUME IInv, NEW p \in Slots, Fork(p)
  PROVE  IInv'
<1> DEFINE np == Lowest(Unused)
<1>1. np \in Slots /\ state[np] = "UNUSED"
  BY LowestIn, Zenon DEF Fork, Unused
<1> HIDE DEF np
<1>2. /\ state' = [state EXCEPT ![np] = "RUNNABLE"]
      /\ pid' = [pid EXCEPT ![np] = nextpid]
      /\ parent' = [parent EXCEPT ![np] = p]
      /\ at' = [at EXCEPT ![np] = "user"]
      /\ nextpid' = nextpid + 1
      /\ UNCHANGED <<killed, chan, cur, scan, skipped, halted>>
      /\ cur = p
  BY Zenon DEF Fork, Runs, cpu, np
<1>3. state[p] = "RUNNING" /\ p # np
  BY <1>1, <1>2, Zenon DEF IInv, OneRunning
<1>4. TypeOK'
  <2>1. state' \in [Slots -> States] /\ at' \in [Slots -> Places]
    BY <1>1, <1>2, Zenon DEF IInv, TypeOK, States, Places
  <2>2. pid' \in [Slots -> Nat] /\ parent' \in [Slots -> Slots \cup {NoProc}] /\ nextpid' \in Nat \ {0}
    BY <1>1, <1>2 DEF IInv, TypeOK
  <2> QED
    BY <1>2, <2>1, <2>2, Zenon DEF IInv, TypeOK
<1>5. \A s \in Slots : /\ state'[s] = IF s = np THEN "RUNNABLE" ELSE state[s]
                       /\ pid'[s] = IF s = np THEN nextpid ELSE pid[s]
                       /\ parent'[s] = IF s = np THEN p ELSE parent[s]
                       /\ at'[s] = IF s = np THEN "user" ELSE at[s]
  BY <1>1, <1>2, Zenon DEF IInv, TypeOK
<1>6. OneRunning'
  BY <1>1, <1>2, <1>3, <1>5 DEF IInv, OneRunning
<1>7. Live' = Live \cup {np} /\ np \notin Live /\ p \in Live
  BY <1>1, <1>3, <1>5 DEF Live
<1>8. PidsUnique'
  <2>1. \A s \in Live : pid[s] \in 1..(nextpid - 1)
    BY Zenon DEF IInv, PidsUnique
  <2> QED
    BY <1>1, <1>2, <1>5, <1>7, <2>1 DEF IInv, PidsUnique, TypeOK, Live
<1>9. \A s \in Slots : parent[s] # np
  BY <1>1, <1>7, SlotFacts, Zenon DEF IInv, ParentAlive, TreeInv
<1>10. ParentAlive'
  BY <1>1, <1>3, <1>5, <1>7 DEF IInv, ParentAlive, Live
<1>11. WaiterNotMissed' /\ ChanInv'
  <2>1. \A q \in Slots : Zombies(q)' \subseteq Zombies(q)
    BY <1>1, <1>5, Zenon DEF Zombies, Kids
  <2> QED
    BY <1>2, <1>5, <2>1, SMTT(30) DEF IInv, WaiterNotMissed, ChanInv
<1>12. TreeInv'
  BY <1>1, <1>3, <1>5, SlotFacts DEF IInv, TreeInv
<1> QED
  BY <1>4, <1>6, <1>8, <1>10, <1>11, <1>12, Zenon DEF IInv

\* The critical section of exit: whoever may be waiting for the new zombie, or
\* for one it leaves behind, is woken.
LEMMA ExitStep ==
  ASSUME IInv, NEW p \in Slots, ExitLocked(p)
  PROVE  IInv'
<1>1. /\ cur = p /\ at[p] = "exit"
      /\ state' = [ExitWakes(p) EXCEPT ![p] = "ZOMBIE"]
      /\ parent' = Reparented(p)
      /\ cur' = NoProc
      /\ UNCHANGED <<pid, killed, chan, at, nextpid, scan, skipped, halted>>
  BY Zenon DEF ExitLocked, Runs, Sched
<1>2. state[p] = "RUNNING" /\ p # INITPROC
  BY <1>1, Zenon DEF IInv, OneRunning, TreeInv
<1>3. state \in [Slots -> States] /\ chan \in [Slots -> Chans]
  BY Zenon DEF IInv, TypeOK
<1>4. /\ ExitWakes(p) \in [Slots -> States]
      /\ \A q \in Slots : \A l \in {"UNUSED", "RUNNING", "ZOMBIE"} : ExitWakes(p)[q] = l <=> state[q] = l
      /\ \A q \in Slots : ExitWakes(p)[q] = "SLEEPING" =>
                            /\ state[q] = "SLEEPING" /\ chan[q] # parent[p]
                            /\ Zombies(p) # {} => chan[q] # INITPROC
  <2> DEFINE st == Wakeup1(state, parent[p])
  <2>1. /\ st \in [Slots -> States]
        /\ \A q \in Slots : \A l \in {"UNUSED", "RUNNING", "ZOMBIE"} : st[q] = l <=> state[q] = l
        /\ \A q \in Slots : st[q] = "SLEEPING" => state[q] = "SLEEPING" /\ chan[q] # parent[p]
    BY <1>3, Wakeup1Keeps
  <2>2. ExitWakes(p) = IF Zombies(p) = {} THEN st ELSE Wakeup1(st, INITPROC)
    BY Zenon DEF ExitWakes
  <2> HIDE DEF st
  <2>3. /\ Wakeup1(st, INITPROC) \in [Slots -> States]
        /\ \A q \in Slots : \A l \in {"UNUSED", "RUNNING", "ZOMBIE"} :
              Wakeup1(st, INITPROC)[q] = l <=> st[q] = l
        /\ \A q \in Slots : Wakeup1(st, INITPROC)[q] = "SLEEPING" =>
                              st[q] = "SLEEPING" /\ chan[q] # INITPROC
    BY <1>3, <2>1, Wakeup1Keeps, Zenon
  <2>4. CASE Zombies(p) = {}
    BY <2>1, <2>2, <2>4
  <2>5. CASE Zombies(p) # {}
    BY <2>1, <2>2, <2>3, <2>5
  <2> QED
    BY <2>4, <2>5, Zenon
<1>5. \A q \in Slots : /\ state'[q] = IF q = p THEN "ZOMBIE" ELSE ExitWakes(p)[q]
                       /\ parent'[q] = IF parent[q] = p THEN INITPROC ELSE parent[q]
  BY <1>1, <1>4, Zenon DEF Reparented
<1>6. TypeOK'
  <2>1. state' \in [Slots -> States]
    BY <1>1, <1>4, Zenon DEF States
  <2>2. parent' \in [Slots -> Slots \cup {NoProc}]
    BY <1>1, SlotFacts, Zenon DEF Reparented, IInv, TypeOK
  <2> QED
    BY <1>1, <2>1, <2>2, Zenon DEF IInv, TypeOK
<1>7. OneRunning'
  BY <1>1, <1>2, <1>4, <1>5, SlotFacts DEF IInv, OneRunning
<1>8. Live' = Live
  BY <1>2, <1>4, <1>5 DEF Live
<1>9. PidsUnique'
  BY <1>1, <1>8, Zenon DEF IInv, PidsUnique
<1>10. ParentAlive'
  <2>1. \A s \in Live \ {INITPROC} : parent'[s] \in Live /\ state'[parent'[s]] # "ZOMBIE"
    <3> SUFFICES ASSUME NEW s \in Live, s # INITPROC
                 PROVE  parent'[s] \in Live /\ state'[parent'[s]] # "ZOMBIE"
      OBVIOUS
    <3>1. parent[s] \in Live /\ parent[s] \in Slots /\ state[parent[s]] # "ZOMBIE" /\ s \in Slots
      BY Zenon DEF IInv, ParentAlive, Live
    <3>2. INITPROC \in Live /\ INITPROC \in Slots /\ state[INITPROC] # "ZOMBIE"
      BY SlotFacts, Zenon DEF IInv, TreeInv, Live
    <3>3. CASE parent[s] = p
      BY <1>2, <1>4, <1>5, <3>1, <3>2, <3>3
    <3>4. CASE parent[s] # p
      BY <1>4, <1>5, <3>1, <3>4
    <3> QED
      BY <3>3, <3>4, Zenon
  <2>2. \A s \in Slots \ Live : parent'[s] = NoProc
    BY <1>5, SlotFacts DEF IInv, ParentAlive
  <2> QED
    BY <1>8, <2>1, <2>2, Zenon DEF ParentAlive
<1>11. WaiterNotMissed'
  <2> SUFFICES ASSUME NEW q \in Slots, state'[q] = "SLEEPING", at'[q] = "wait",
                      NEW c \in Slots, parent'[c] = q, state'[c] = "ZOMBIE"
               PROVE  FALSE
    BY Zenon DEF WaiterNotMissed, Zombies, Kids
  <2>1. q # p /\ ExitWakes(p)[q] = "SLEEPING"
    BY <1>5, Zenon
  <2>2. state[q] = "SLEEPING" /\ at[q] = "wait" /\ chan[q] = q /\ q # parent[p]
    BY <1>1, <1>4, <2>1 DEF IInv, ChanInv
  <2>3. c # p
    BY <1>5, <2>2, SlotFacts, Zenon DEF IInv, TreeInv
  <2>4. state[c] = "ZOMBIE"
    BY <1>4, <1>5, <2>3
  <2>5. CASE parent[c] = p
    <3>1. Zombies(p) # {} /\ q = INITPROC
      BY <1>5, <2>4, <2>5, Zenon DEF Zombies, Kids
    <3> QED
      BY <1>4, <2>1, <2>2, <3>1, Zenon
  <2>6. CASE parent[c] # p
    <3>1. c \in Zombies(q)
      BY <1>5, <2>4, <2>6, Zenon DEF Zombies, Kids
    <3> QED
      BY <2>2, <3>1, Zenon DEF IInv, WaiterNotMissed
  <2> QED
    BY <2>5, <2>6, Zenon
<1>12. ChanInv'
  BY <1>1, <1>4, <1>5, Zenon DEF IInv, ChanInv
<1>13. TreeInv'
  <2>1. \A s \in Slots : parent'[s] # s
    BY <1>2, <1>5, SlotFacts DEF IInv, TreeInv
  <2> QED
    BY <1>1, <1>2, <1>4, <1>5, <2>1, SlotFacts DEF IInv, TreeInv
<1> QED
  BY <1>6, <1>7, <1>9, <1>10, <1>11, <1>12, <1>13, Zenon DEF IInv

\* wait frees a dead child, which has no children left.
LEMMA ReapStep ==
  ASSUME IInv, NEW p \in Slots, cur = p, NEW c \in Zombies(p), Reap(p, c)
  PROVE  IInv'
<1>1. c \in Slots /\ parent[c] = p /\ state[c] = "ZOMBIE" /\ c # INITPROC
  BY Zenon DEF Zombies, Kids, IInv, TreeInv
<1>2. state[p] = "RUNNING" /\ c # p
  BY <1>1, Zenon DEF IInv, OneRunning
<1>3. /\ state' = [state EXCEPT ![c] = "UNUSED"]
      /\ pid' = [pid EXCEPT ![c] = 0]
      /\ parent' = [parent EXCEPT ![c] = NoProc]
      /\ killed' = [killed EXCEPT ![c] = 0]
      /\ at' = [at EXCEPT ![p] = "user"]
      /\ UNCHANGED <<chan, nextpid, cur, scan, skipped, halted>>
  BY Zenon DEF Reap, cpu
<1>4. \A s \in Slots : /\ state'[s] = (IF s = c THEN "UNUSED" ELSE state[s])
                       /\ pid'[s] = (IF s = c THEN 0 ELSE pid[s])
                       /\ parent'[s] = (IF s = c THEN NoProc ELSE parent[s])
                       /\ chan'[s] = chan[s]
                       /\ at'[s] = (IF s = p THEN "user" ELSE at[s])
  BY <1>1, <1>3, Zenon DEF IInv, TypeOK
<1>5. TypeOK'
  <2>1. state' \in [Slots -> States] /\ at' \in [Slots -> Places]
    BY <1>1, <1>3, Zenon DEF IInv, TypeOK, States, Places
  <2>2. pid' \in [Slots -> Nat] /\ parent' \in [Slots -> Slots \cup {NoProc}]
    BY <1>1, <1>3, Zenon DEF IInv, TypeOK
  <2>3. killed' \in [Slots -> {0, 1}] /\ chan' \in [Slots -> Chans]
    BY <1>1, <1>3, Zenon DEF IInv, TypeOK, Chans
  <2> QED
    BY <1>3, <2>1, <2>2, <2>3, Zenon DEF IInv, TypeOK
<1>6. OneRunning'
  BY <1>1, <1>2, <1>3, <1>4 DEF IInv, OneRunning
<1>7. Live' = Live \ {c}
  BY <1>1, <1>4 DEF Live
<1>8. PidsUnique'
  BY <1>3, <1>4, <1>7 DEF IInv, PidsUnique, Live
<1>9. ParentAlive'
  <2>1. \A s \in Live' \ {INITPROC} : parent'[s] \in Live' /\ state'[parent'[s]] # "ZOMBIE"
    <3> SUFFICES ASSUME NEW s \in Live', s # INITPROC
                 PROVE  parent'[s] \in Live' /\ state'[parent'[s]] # "ZOMBIE"
      OBVIOUS
    <3>1. s \in Live /\ s # c /\ s \in Slots
      BY <1>7, Zenon DEF Live
    <3>2. parent[s] \in Live /\ state[parent[s]] # "ZOMBIE" /\ parent[s] \in Slots /\ parent[s] # c
      BY <1>1, <3>1, Zenon DEF IInv, ParentAlive, Live
    <3> QED
      BY <1>4, <1>7, <3>1, <3>2, SMTT(30)
  <2>2. \A s \in Slots \ Live' : parent'[s] = NoProc
    BY <1>1, <1>4, <1>7, Zenon DEF IInv, ParentAlive
  <2> QED
    BY <2>1, <2>2, Zenon DEF ParentAlive
<1>10. WaiterNotMissed' /\ ChanInv'
  <2>1. \A q \in Slots : Zombies(q)' \subseteq Zombies(q)
    BY <1>1, <1>4, SlotFacts, Zenon DEF Zombies, Kids
  <2> QED
    BY <1>2, <1>4, <2>1, SMTT(30) DEF IInv, WaiterNotMissed, ChanInv
<1>11. TreeInv'
  BY <1>1, <1>4, SlotFacts DEF IInv, TreeInv
<1> QED
  BY <1>5, <1>6, <1>8, <1>9, <1>10, <1>11, Zenon DEF IInv

\* The other steps leave the tree of processes alone: they neither make a
\* process nor end one, and put nobody to sleep in wait() with a dead child.
LEMMA TreeKept ==
  ASSUME IInv, TypeOK', OneRunning', UNCHANGED <<pid, parent, nextpid>>,
         \A s \in Slots : \A l \in {"UNUSED", "ZOMBIE"} : state'[s] = l <=> state[s] = l,
         at'[INITPROC] # "exit",
         \A s \in Slots : (state'[s] = "SLEEPING" /\ at'[s] = "wait")
                             => chan'[s] = s /\ Zombies(s) = {}
  PROVE  IInv'
<1>1. Live' = Live
  BY Zenon DEF Live
<1>2. PidsUnique'
  BY <1>1 DEF IInv, PidsUnique
<1>3. ParentAlive'
  BY <1>1, Zenon DEF IInv, ParentAlive, Live
<1>4. \A q \in Slots : Zombies(q)' = Zombies(q)
  BY DEF Zombies, Kids
<1>5. WaiterNotMissed' /\ ChanInv'
  BY <1>4, Zenon DEF WaiterNotMissed, ChanInv
<1>6. TreeInv'
  BY SlotFacts, Zenon DEF IInv, TreeInv
<1> QED
  BY <1>2, <1>3, <1>5, <1>6, Zenon DEF IInv

\* The process on the CPU moves to another place and keeps running.
LEMMA PlaceStep ==
  ASSUME IInv, NEW p \in Slots, cur = p, NEW l \in Places, at' = [at EXCEPT ![p] = l],
         l = "exit" => p # INITPROC,
         UNCHANGED <<state, pid, parent, killed, chan, nextpid, cpu>>
  PROVE  IInv'
<1>1. state[p] = "RUNNING"
  BY Zenon DEF IInv, OneRunning
<1>2. chan' \in [Slots -> Chans]
  BY Zenon DEF IInv, TypeOK, Chans
<1>3. at' \in [Slots -> Places]
  BY Zenon DEF IInv, TypeOK
<1>4. TypeOK'
  BY <1>2, <1>3, Zenon DEF IInv, TypeOK, cpu
<1>5. OneRunning'
  BY Zenon DEF IInv, OneRunning, cpu
<1>6. at'[INITPROC] # "exit"
  BY SlotFacts DEF IInv, TreeInv, TypeOK
<1>7. \A s \in Slots : (state'[s] = "SLEEPING" /\ at'[s] = "wait") => chan'[s] = s /\ Zombies(s) = {}
  BY <1>1, Zenon DEF IInv, WaiterNotMissed, ChanInv, TypeOK
<1> QED
  BY <1>4, <1>5, <1>6, <1>7, TreeKept, Zenon

\* The process on the CPU goes to sleep.
LEMMA SleepStep ==
  ASSUME IInv, NEW p \in Slots, cur = p, NEW c \in Chans, NEW l \in Places, Sleep(p, c, l),
         l = "exit" => at[p] = "exit",
         l = "wait" => c = p /\ Zombies(p) = {},
         UNCHANGED <<pid, parent, killed, nextpid>>
  PROVE  IInv'
<1>1. /\ state' = [state EXCEPT ![p] = "SLEEPING"] /\ at' = [at EXCEPT ![p] = l]
      /\ chan' = [chan EXCEPT ![p] = c] /\ cur' = NoProc
      /\ UNCHANGED <<scan, skipped, halted>>
  BY Zenon DEF Sleep, Sched
<1>2. state[p] = "RUNNING"
  BY Zenon DEF IInv, OneRunning
<1>3. TypeOK'
  <2>1. state' \in [Slots -> States] /\ at' \in [Slots -> Places] /\ chan' \in [Slots -> Chans]
    BY <1>1, Zenon DEF IInv, TypeOK, States
  <2> QED
    BY <1>1, <2>1, Zenon DEF IInv, TypeOK
<1>4. OneRunning'
  BY <1>1, SlotFacts, Zenon DEF IInv, OneRunning, TypeOK
<1>5. at'[INITPROC] # "exit"
  BY <1>1, SlotFacts, Zenon DEF IInv, TreeInv, TypeOK
<1>6. \A s \in Slots : (state'[s] = "SLEEPING" /\ at'[s] = "wait") => chan'[s] = s /\ Zombies(s) = {}
  BY <1>1, Zenon DEF IInv, WaiterNotMissed, ChanInv, TypeOK
<1>7. \A s \in Slots : \A k \in {"UNUSED", "ZOMBIE"} : state'[s] = k <=> state[s] = k
  BY <1>1, <1>2, Zenon DEF IInv, TypeOK
<1> QED
  BY <1>3, <1>4, <1>5, <1>6, <1>7, TreeKept, Zenon

\* Steps that only make sleepers runnable, or hand the CPU over.
LEMMA StatusStep ==
  ASSUME IInv, UNCHANGED <<pid, parent, at, nextpid>>,
         chan' \in [Slots -> Chans], \A s \in Slots : state'[s] = "SLEEPING" => chan'[s] = chan[s],
         killed' \in [Slots -> {0, 1}], state' \in [Slots -> States],
         \A s \in Slots : \A l \in {"UNUSED", "ZOMBIE"} : state'[s] = l <=> state[s] = l,
         \A s \in Slots : state'[s] = "SLEEPING" => state[s] = "SLEEPING",
         cur' \in Slots \cup {NoProc}, OneRunning',
         scan' \in 0..NPROC, skipped' \in Nat, halted' \in BOOLEAN
  PROVE  IInv'
<1>1. TypeOK'
  BY Zenon DEF IInv, TypeOK
<1>2. at'[INITPROC] # "exit"
  BY Zenon DEF IInv, TreeInv
<1>3. \A s \in Slots : (state'[s] = "SLEEPING" /\ at'[s] = "wait") => chan'[s] = s /\ Zombies(s) = {}
  BY Zenon DEF IInv, WaiterNotMissed, ChanInv
<1> QED
  BY <1>1, <1>2, <1>3, TreeKept, Zenon

LEMMA NextIInv == IInv /\ [Next]_vars => IInv'
<1> SUFFICES ASSUME IInv, [Next]_vars PROVE IInv'
  OBVIOUS
<1>0. TypeOK
  BY Zenon DEF IInv
<1>t. /\ state \in [Slots -> States] /\ killed \in [Slots -> {0, 1}] /\ chan \in [Slots -> Chans]
      /\ cur \in Slots \cup {NoProc} /\ scan \in 0..NPROC /\ skipped \in Nat
  BY <1>0, Zenon DEF TypeOK
<1>h. halted \in BOOLEAN
  BY <1>0, Zenon DEF TypeOK
<1>p. {"user", "io", "exit", "wait"} = Places
  BY Zenon DEF Places
<1>1. ASSUME NEW p \in Slots, Fork(p) PROVE IInv'
  BY <1>1, ForkStep, Zenon
<1>2. ASSUME NEW p \in Slots, Exit(p) PROVE IInv'
  <2>1. cur = p /\ at' = [at EXCEPT ![p] = "exit"] /\ p # INITPROC
        /\ UNCHANGED <<state, pid, parent, killed, chan, nextpid, cpu>>
    BY <1>2, Zenon DEF Exit, Runs
  <2> QED
    BY <1>p, <2>1, PlaceStep, Zenon
<1>3. ASSUME NEW p \in Slots, ExitLocked(p) PROVE IInv'
  BY <1>3, ExitStep, Zenon
<1>4. ASSUME NEW p \in Slots, Wait(p) PROVE IInv'
  <2>0. cur = p
    BY <1>4, Zenon DEF Wait, Runs
  <2>1. CASE Zombies(p) # {}
    <3>1. Lowest(Zombies(p)) \in Zombies(p)
      BY <2>1, LowestIn, Zenon DEF Zombies, Kids
    <3>2. Reap(p, Lowest(Zombies(p)))
      BY <1>4, <2>1, Zenon DEF Wait
    <3> QED
      BY <2>0, <3>1, <3>2, ReapStep, Zenon
  <2>2. CASE Zombies(p) = {} /\ (Kids(p) = {} \/ killed[p] # 0)
    <3>1. at' = [at EXCEPT ![p] = "user"] /\ UNCHANGED <<state, pid, parent, killed, chan, nextpid, cpu>>
      BY <1>4, <2>2, Zenon DEF Wait
    <3> QED
      BY <1>p, <2>0, <3>1, PlaceStep, Zenon
  <2>3. CASE Zombies(p) = {} /\ ~(Kids(p) = {} \/ killed[p] # 0)
    <3>1. Sleep(p, p, "wait") /\ UNCHANGED <<pid, parent, killed, nextpid>>
      BY <1>4, <2>3, Zenon DEF Wait
    <3> QED
      BY <1>p, <2>0, <2>3, <3>1, SleepStep, Zenon DEF Chans
  <2> QED
    BY <2>1, <2>2, <2>3, Zenon
<1>5. ASSUME NEW p \in Slots, SleepOn(p) PROVE IInv'
  <2>1. cur = p /\ UNCHANGED <<pid, parent, killed, nextpid>>
        /\ Sleep(p, DEV, IF at[p] = "exit" THEN "exit" ELSE "io")
    BY <1>5, Zenon DEF SleepOn, Runs
  <2>2. CASE at[p] = "exit"
    BY <1>p, <2>1, <2>2, SleepStep, Zenon DEF Chans
  <2>3. CASE at[p] # "exit"
    BY <1>p, <2>1, <2>3, SleepStep, Zenon DEF Chans
  <2> QED
    BY <2>2, <2>3, Zenon
<1>6. ASSUME NEW p \in Slots, IoDone(p) PROVE IInv'
  <2>1. cur = p /\ at' = [at EXCEPT ![p] = "user"]
        /\ UNCHANGED <<state, pid, parent, killed, chan, nextpid, cpu>>
    BY <1>6, Zenon DEF IoDone, Runs
  <2> QED
    BY <1>p, <2>1, PlaceStep, Zenon
<1>7. ASSUME NEW p \in Slots, Yield(p) PROVE IInv'
  <2>1. cur = p /\ state' = [state EXCEPT ![p] = "RUNNABLE"] /\ cur' = NoProc
        /\ UNCHANGED <<pid, parent, killed, chan, at, nextpid, scan, skipped, halted>>
    BY <1>7, Zenon DEF Yield, Runs, Sched
  <2>2. state[p] = "RUNNING"
    BY <2>1, Zenon DEF IInv, OneRunning
  <2>3. OneRunning'
    BY <1>t, <2>1, SlotFacts, Zenon DEF IInv, OneRunning
  <2>4. state' \in [Slots -> States]
    BY <1>t, <2>1, Zenon DEF States
  <2>5. \A s \in Slots : \A l \in {"UNUSED", "ZOMBIE", "SLEEPING"} : state'[s] = l <=> state[s] = l
    BY <1>t, <2>1, <2>2, Zenon
  <2> QED
    BY <1>t, <1>h, <2>1, <2>3, <2>4, <2>5, StatusStep, Zenon
<1>8. ASSUME NEW p \in Slots, NEW k \in KillPids, Kill(p, k) PROVE IInv'
  <2>1. PICK t \in Slots :
             /\ killed' = [killed EXCEPT ![t] = 1]
             /\ state' = [state EXCEPT ![t] = IF state[t] = "SLEEPING" THEN "RUNNABLE" ELSE state[t]]
    BY <1>8, Zenon DEF Kill, Rouse
  <2>2. UNCHANGED <<pid, parent, chan, at, nextpid, cur, scan, skipped, halted>>
    BY <1>8, Zenon DEF Kill, cpu
  <2>3. state' \in [Slots -> States] /\ killed' \in [Slots -> {0, 1}]
    BY <1>t, <2>1, Zenon DEF States
  <2>4. \A s \in Slots : /\ \A l \in {"UNUSED", "ZOMBIE", "RUNNING"} : state'[s] = l <=> state[s] = l
                         /\ state'[s] = "SLEEPING" => state[s] = "SLEEPING"
    BY <1>t, <2>1, Zenon
  <2>5. OneRunning'
    BY <2>2, <2>4, Zenon DEF IInv, OneRunning
  <2> QED
    BY <1>t, <1>h, <2>2, <2>3, <2>4, <2>5, StatusStep, Zenon
<1>9. ASSUME Interrupt PROVE IInv'
  <2>1. state' = Wakeup1(state, DEV) /\ halted' \in BOOLEAN
        /\ UNCHANGED <<pid, parent, killed, chan, at, nextpid, cur, scan, skipped>>
    BY <1>9, Zenon DEF Interrupt
  <2>2. /\ state' \in [Slots -> States]
        /\ \A q \in Slots : \A l \in {"UNUSED", "RUNNING", "ZOMBIE"} : state'[q] = l <=> state[q] = l
        /\ \A q \in Slots : state'[q] = "SLEEPING" => state[q] = "SLEEPING"
    BY <1>t, <2>1, Wakeup1Keeps
  <2>3. OneRunning'
    BY <2>1, <2>2, Zenon DEF IInv, OneRunning
  <2> QED
    BY <1>t, <2>1, <2>2, <2>3, StatusStep, Zenon
<1>10. ASSUME Schedule PROVE IInv'
  <2>1. cur = NoProc /\ scan \in Slots /\ scan' = scan + 1 /\ scan' \in 0..NPROC
        /\ UNCHANGED <<pid, parent, killed, at, nextpid, halted>>
    BY <1>10, <1>t DEF Schedule, After, Slots
  <2>2. CASE state[scan] = "RUNNABLE"
    <3>1. state' = [state EXCEPT ![scan] = "RUNNING"] /\ cur' = scan /\ skipped' = 0
          /\ chan' = [chan EXCEPT ![scan] = NoProc]
      BY <1>10, <2>2, Zenon DEF Schedule, Awake
    <3>5. chan' \in [Slots -> Chans] /\ \A s \in Slots : state'[s] = "SLEEPING" => chan'[s] = chan[s]
      <4>1. state'[scan] = "RUNNING"
        BY <1>t, <2>1, <3>1, Zenon
      <4> QED
        BY <1>t, <2>1, <3>1, <4>1, Zenon DEF Chans
    <3>2. OneRunning'
      BY <1>t, <2>1, <3>1, SlotFacts, Zenon DEF IInv, OneRunning
    <3>3. state' \in [Slots -> States]
      BY <1>t, <3>1, Zenon DEF States
    <3>4. \A s \in Slots : \A l \in {"UNUSED", "ZOMBIE", "SLEEPING"} : state'[s] = l <=> state[s] = l
      BY <1>t, <2>1, <2>2, <3>1, Zenon
    <3> QED
      BY <1>t, <1>h, <2>1, <3>1, <3>2, <3>3, <3>4, <3>5, StatusStep, Zenon
  <2>3. CASE state[scan] # "RUNNABLE"
    <3>1. skipped' = skipped + 1 /\ UNCHANGED <<state, chan, cur>>
      BY <1>10, <2>3, Zenon DEF Schedule
    <3>2. OneRunning'
      BY <3>1, Zenon DEF IInv, OneRunning
    <3> QED
      BY <1>t, <1>h, <2>1, <3>1, <3>2, StatusStep
  <2> QED
    BY <2>2, <2>3, Zenon
<1>11. ASSUME EndPass PROVE IInv'
  <2>1. UNCHANGED <<state, pid, parent, killed, chan, at, nextpid, cur>>
    BY <1>11, Zenon DEF EndPass, table
  <2>2. scan' \in 0..NPROC /\ skipped' \in Nat
    BY <1>11, <1>t DEF EndPass
  <2>3. halted' \in BOOLEAN
    BY <1>11, <1>h, Zenon DEF EndPass
  <2>4. OneRunning'
    BY <2>1, Zenon DEF IInv, OneRunning
  <2> QED
    BY <1>t, <2>1, <2>2, <2>3, <2>4, StatusStep, Zenon
<1>12. ASSUME UNCHANGED vars PROVE IInv'
  <2>1. OneRunning'
    BY <1>12, Zenon DEF vars, IInv, OneRunning
  <2> QED
    BY <1>t, <1>h, <1>12, <2>1, StatusStep, Zenon DEF vars
<1> QED
  BY <1>1, <1>2, <1>3, <1>4, <1>5, <1>6, <1>7, <1>8, <1>9, <1>10, <1>11, <1>12, Zenon DEF Next, Process

LEMMA AlwaysIInv == Spec => []IInv
BY InitIInv, NextIInv, PTL DEF Spec

\* Every field of the table keeps its type.
THEOREM ProcTypeCorrect == Spec => []TypeOK
<1>1. IInv => TypeOK
  BY Zenon DEF IInv
<1> QED
  BY <1>1, AlwaysIInv, PTL

\* fork, exit and wait keep the tree of processes: pids are unique, and every
\* process but init has a parent that can still wait for it.
THEOREM ProcessTree == Spec => [](PidsUnique /\ ParentAlive)
<1>1. IInv => PidsUnique /\ ParentAlive
  BY Zenon DEF IInv
<1> QED
  BY <1>1, AlwaysIInv, PTL

\* exit() and wait() never miss each other, whatever else sleeps, is killed or
\* is inherited by init in between.
THEOREM NoMissedExit == Spec => []WaiterNotMissed
<1>1. IInv => WaiterNotMissed
  BY Zenon DEF IInv
<1> QED
  BY <1>1, AlwaysIInv, PTL

\* fork, exit, wait and kill keep the family tree: pids identify processes,
\* every process has a parent that can wait for it, and no parent sleeps over
\* a child that is dead.
THEOREM FamilyIsKept == Spec => []FamilyKept
<1>1. IInv => FamilyKept
  BY Zenon DEF IInv, FamilyKept
<1> QED
  BY <1>1, AlwaysIInv, PTL

\* sched() and scheduler() keep the table and the CPU in step.
THEOREM CpuRunsOne == Spec => []OneRunning
<1>1. IInv => OneRunning
  BY Zenon DEF IInv
<1> QED
  BY <1>1, AlwaysIInv, PTL

\* What a step may do to the slot of a dead process.
StaysDead == \A s \in Slots : state[s] = "ZOMBIE" =>
               \/ state'[s] = "ZOMBIE"
               \/ state'[s] = "UNUSED" /\ cur = parent[s]

LEMMA DeadStep ==
  ASSUME IInv, [Next]_vars
  PROVE  StaysDead
<1>0. /\ state \in [Slots -> States] /\ chan \in [Slots -> Chans]
      /\ \A p \in Slots : cur = p => state[p] = "RUNNING"
  BY Zenon DEF IInv, TypeOK, OneRunning
<1>1. ASSUME NEW p \in Slots, Fork(p) PROVE StaysDead
  <2>1. Lowest(Unused) \in Slots /\ state[Lowest(Unused)] = "UNUSED"
    BY <1>1, LowestIn, Zenon DEF Fork, Unused
  <2> QED
    BY <1>0, <1>1, <2>1, Zenon DEF Fork, StaysDead
<1>2. ASSUME NEW p \in Slots, ExitLocked(p) PROVE StaysDead
  <2>1. state' = [ExitWakes(p) EXCEPT ![p] = "ZOMBIE"]
    BY <1>2, Zenon DEF ExitLocked
  <2>2. ExitWakes(p) \in [Slots -> States] /\ \A s \in Slots : state[s] = "ZOMBIE" => ExitWakes(p)[s] = "ZOMBIE"
    <3> DEFINE st == Wakeup1(state, parent[p])
    <3>1. st \in [Slots -> States] /\ \A s \in Slots : state[s] = "ZOMBIE" => st[s] = "ZOMBIE"
      BY <1>0, Wakeup1Keeps
    <3>2. ExitWakes(p) \in {st, Wakeup1(st, INITPROC)}
      BY Zenon DEF ExitWakes
    <3> HIDE DEF st
    <3>3. /\ Wakeup1(st, INITPROC) \in [Slots -> States]
          /\ \A s \in Slots : st[s] = "ZOMBIE" => Wakeup1(st, INITPROC)[s] = "ZOMBIE"
      BY <1>0, <3>1, Wakeup1Keeps
    <3> QED
      BY <3>1, <3>2, <3>3, Zenon
  <2> QED
    BY <2>1, <2>2, Zenon DEF StaysDead
<1>3. ASSUME NEW p \in Slots, Wait(p) PROVE StaysDead
  <2>1. CASE Zombies(p) # {} /\ Reap(p, Lowest(Zombies(p)))
    <3>1. Lowest(Zombies(p)) \in Zombies(p)
      BY <2>1, LowestIn, Zenon DEF Zombies, Kids
    <3>2. parent[Lowest(Zombies(p))] = cur
      BY <1>3, <3>1, Zenon DEF Wait, Runs, Zombies, Kids
    <3> QED
      BY <1>0, <2>1, <3>2, Zenon DEF Reap, StaysDead
  <2>2. CASE UNCHANGED state
    BY <2>2, Zenon DEF StaysDead
  <2>3. CASE Sleep(p, p, "wait")
    BY <1>0, <1>3, <2>3, Zenon DEF Wait, Runs, Sleep, StaysDead
  <2> QED
    BY <1>3, <2>1, <2>2, <2>3, Zenon DEF Wait
<1>4. ASSUME NEW p \in Slots, SleepOn(p) PROVE StaysDead
  BY <1>0, <1>4, Zenon DEF SleepOn, Runs, Sleep, StaysDead
<1>5. ASSUME NEW p \in Slots, Yield(p) PROVE StaysDead
  BY <1>0, <1>5, Zenon DEF Yield, Runs, StaysDead
<1>6. ASSUME NEW p \in Slots, NEW k, Kill(p, k) PROVE StaysDead
  <2>1. PICK t \in Slots :
             state' = [state EXCEPT ![t] = IF state[t] = "SLEEPING" THEN "RUNNABLE" ELSE state[t]]
    BY <1>6, Zenon DEF Kill, Rouse
  <2> QED
    BY <1>0, <2>1, Zenon DEF StaysDead
<1>7. ASSUME Interrupt PROVE StaysDead
  BY <1>0, <1>7, Wakeup1Keeps DEF Interrupt, StaysDead
<1>8. ASSUME Schedule PROVE StaysDead
  BY <1>0, <1>8, Zenon DEF Schedule, StaysDead
<1>9. ASSUME UNCHANGED state PROVE StaysDead
  BY <1>9, Zenon DEF StaysDead
<1> QED
  BY <1>1, <1>2, <1>3, <1>4, <1>5, <1>6, <1>7, <1>8, <1>9, Zenon DEF Next, Process, Exit, IoDone, EndPass, table, vars

\* wakeup, kill and the scheduler never revive a process that has exited, and
\* only wait() in its parent frees its slot.
THEOREM DeadStaysDead == Spec => DeadStayDead
<1>1. IInv /\ [Next]_vars => [StaysDead]_vars
  BY DeadStep, Zenon
<1> QED
  BY <1>1, AlwaysIInv, PTL DEF Spec, DeadStayDead, StaysDead
=============================================================================
