--------------------------- MODULE FileTableProofs ---------------------------
(***************************************************************************)
(* Proofs about the open files of FileTable.tla, for every number of       *)
(* processes, files, descriptors and pages.                                *)
(***************************************************************************)
EXTENDS FileTable, FiniteSetTheorems, WellFoundedInduction, TLAPS

\* A set of numbers has a lowest one.
LEMMA MinIn ==
  ASSUME NEW S \in SUBSET Nat, S # {}
  PROVE  Min(S) \in S /\ \A y \in S : Min(S) <= y
<1> DEFINE R == OpToRel(<, Nat)
<1>1. IsWellFoundedOn(R, Nat)
  BY NatLessThanWellFounded, Zenon
<1>2. \A x, y \in Nat : x < y => <<x, y>> \in R
  BY DEF OpToRel
<1> HIDE DEF R
<1>3. PICK b \in S : \A c \in S : ~ (<<c, b>> \in R)
  BY <1>1, WFMin, Zenon
<1>4. \A c \in S : b <= c
  <2> SUFFICES ASSUME NEW c \in S PROVE b <= c
    OBVIOUS
  <2>1. c \in Nat /\ b \in Nat
    OBVIOUS
  <2>2. ~ (c < b)
    BY <1>2, <1>3, <2>1, Zenon
  <2> QED
    BY <2>1, <2>2
<1> QED
  BY <1>4, Zenon DEF Min

\* Induction, for a set of numbers.
LEMMA Induction ==
  ASSUME NEW S \in SUBSET Nat, 0 \in S, \A n \in S : n + 1 \in S
  PROVE  Nat \subseteq S
<1> SUFFICES ASSUME Nat \ S # {} PROVE FALSE
  BY Zenon
<1> DEFINE m == Min(Nat \ S)
<1>1. m \in Nat \ S /\ \A y \in Nat \ S : m <= y
  BY MinIn, Zenon
<1> HIDE DEF m
<1>2. m - 1 \in Nat /\ (m - 1) + 1 = m /\ ~(m <= m - 1)
  BY <1>1
<1>3. m - 1 \in S
  BY <1>1, <1>2, Zenon
<1> QED
  BY <1>1, <1>2, <1>3

\* The loops of fork and exit do what their recursive functions say.
LEMMA ForkLoop ==
  ASSUME FileConstants, NEW s, NEW p, NEW q
  PROVE  \E a : /\ a[0] = s /\ a[NOFILE] = ForkFiles(s, p, q)
                /\ \A n \in 0..NOFILE : n + 1 <= NOFILE => a[n + 1] = DupFd(a[n], p, q, n)
<1> DEFINE Loop(m, g) == g = [n \in 0..m |-> IF n = 0 THEN s ELSE DupFd(g[n - 1], p, q, n - 1)]
           S == {m \in Nat : \E g : Loop(m, g)}
           F == CHOOSE g : Loop(NOFILE, g)
<1>1. NOFILE \in Nat
  BY DEF FileConstants
<1>2. 0 \in S
  <2>1. Loop(0, [n \in 0..0 |-> s])
    OBVIOUS
  <2> QED
    BY <2>1, Zenon
<1>3. ASSUME NEW m \in S PROVE m + 1 \in S
  <2>1. PICK g : Loop(m, g)
    BY <1>3, Zenon
  <2> DEFINE h == [n \in 0..(m + 1) |-> IF n = 0 THEN s ELSE DupFd(g[n - 1], p, q, n - 1)]
  <2>2. \A n \in 0..m : h[n] = g[n]
    BY <2>1
  <2>3. \A n \in 0..(m + 1) : n # 0 => n - 1 \in 0..m
    OBVIOUS
  <2>4. \A n \in 0..(m + 1) : (IF n = 0 THEN s ELSE DupFd(g[n - 1], p, q, n - 1))
                              = (IF n = 0 THEN s ELSE DupFd(h[n - 1], p, q, n - 1))
    <3> HIDE DEF h
    <3> QED
      BY <2>2, <2>3, Zenon
  <2>5. Loop(m + 1, h)
    BY <2>4, Zenon
  <2>6. m + 1 \in Nat
    BY <1>3
  <2> HIDE DEF Loop
  <2> QED
    BY <2>5, <2>6, Zenon
<1>4. \E g : Loop(NOFILE, g)
  <2> HIDE DEF Loop
  <2> QED
    BY <1>1, <1>2, <1>3, Induction, Zenon
<1>5. Loop(NOFILE, F)
  <2> HIDE DEF Loop
  <2> QED
    BY <1>4, Zenon
<1>6. ForkFiles(s, p, q) = F[NOFILE]
  BY Zenon DEF ForkFiles
<1> HIDE DEF F
<1> QED
  BY <1>1, <1>5, <1>6

LEMMA ExitLoop ==
  ASSUME FileConstants, NEW s, NEW p
  PROVE  \E a : /\ a[0] = s /\ a[NOFILE] = ExitFiles(s, p)
                /\ \A n \in 0..NOFILE : n + 1 <= NOFILE => a[n + 1] = CloseFd(a[n], p, n)
<1> DEFINE Loop(m, g) == g = [n \in 0..m |-> IF n = 0 THEN s ELSE CloseFd(g[n - 1], p, n - 1)]
           S == {m \in Nat : \E g : Loop(m, g)}
           F == CHOOSE g : Loop(NOFILE, g)
<1>1. NOFILE \in Nat
  BY DEF FileConstants
<1>2. 0 \in S
  <2>1. Loop(0, [n \in 0..0 |-> s])
    OBVIOUS
  <2> QED
    BY <2>1, Zenon
<1>3. ASSUME NEW m \in S PROVE m + 1 \in S
  <2>1. PICK g : Loop(m, g)
    BY <1>3, Zenon
  <2> DEFINE h == [n \in 0..(m + 1) |-> IF n = 0 THEN s ELSE CloseFd(g[n - 1], p, n - 1)]
  <2>2. \A n \in 0..m : h[n] = g[n]
    BY <2>1
  <2>3. \A n \in 0..(m + 1) : n # 0 => n - 1 \in 0..m
    OBVIOUS
  <2>4. \A n \in 0..(m + 1) : (IF n = 0 THEN s ELSE CloseFd(g[n - 1], p, n - 1))
                              = (IF n = 0 THEN s ELSE CloseFd(h[n - 1], p, n - 1))
    <3> HIDE DEF h
    <3> QED
      BY <2>2, <2>3, Zenon
  <2>5. Loop(m + 1, h)
    BY <2>4, Zenon
  <2>6. m + 1 \in Nat
    BY <1>3
  <2> HIDE DEF Loop
  <2> QED
    BY <2>5, <2>6, Zenon
<1>4. \E g : Loop(NOFILE, g)
  <2> HIDE DEF Loop
  <2> QED
    BY <1>1, <1>2, <1>3, Induction, Zenon
<1>5. Loop(NOFILE, F)
  <2> HIDE DEF Loop
  <2> QED
    BY <1>4, Zenon
<1>6. ExitFiles(s, p) = F[NOFILE]
  BY Zenon DEF ExitFiles
<1> HIDE DEF F
<1> QED
  BY <1>1, <1>5, <1>6

-----------------------------------------------------------------------------
\* The descriptors that name file f.
Users(s, f) == {x \in Procs \X Fds : s.ofile[x[1]][x[2]] = f}

\* The counts, with e[f] references to f that a handler has in its hands.
Counted(s, e) == \A f \in Files : s.ref_[f] = Cardinality(Users(s, f)) + e[f]

\* An end of a pipe is open for exactly one file.
Wired(s) ==
  /\ \A f \in Files : /\ s.ftype[f] = "Pipe" <=> s.pipe[f] # NULL
                      /\ s.ref_[f] = 0 => s.pipe[f] = NULL
  /\ \A f, h \in Files : s.pipe[f] # NULL /\ s.pipe[f] = s.pipe[h] /\ s.writable[f] = s.writable[h] => f = h
  /\ \A g \in Pages : /\ s.readopen[g] <=> \E f \in Files : s.pipe[f] = g /\ ~s.writable[f]
                      /\ s.writeopen[g] <=> \E f \in Files : s.pipe[f] = g /\ s.writable[f]

\* A page without a pipe is on the free list, once.
On(l, x)  == \E i \in 1..Len(l) : l[i] = x
Once(l)   == \A i, j \in 1..Len(l) : l[i] = l[j] => i = j
Listed(s) == /\ Once(s.freelist)
             /\ \A g \in Pages : On(s.freelist, g) <=> ~s.readopen[g] /\ ~s.writeopen[g]

Sound(s, e) == s \in Tables /\ e \in [Files -> Int] /\ Counted(s, e) /\ Wired(s) /\ Listed(s)

LEMMA UsersFinite ==
  ASSUME FileConstants, NEW s, NEW f
  PROVE  IsFiniteSet(Users(s, f)) /\ Cardinality(Users(s, f)) \in Nat
<1>1. IsFiniteSet(Fds)
  BY FS_Interval DEF Fds, FileConstants
<1>2. IsFiniteSet(Procs \X Fds)
  BY <1>1, FS_Product, Zenon DEF FileConstants
<1>3. Users(s, f) \subseteq Procs \X Fds
  BY Zenon DEF Users
<1> QED
  BY <1>2, <1>3, FS_Subset, FS_CardinalityType, Zenon

LEMMA RemoveOne ==
  ASSUME NEW S, IsFiniteSet(S), NEW x \in S
  PROVE  Cardinality(S \ {x}) = Cardinality(S) - 1
BY FS_RemoveElement, Zenon

\* A descriptor is set or cleared.
LEMMA SetFd ==
  ASSUME FileConstants, NEW s \in Tables, NEW p \in Procs, NEW d \in Fds,
         NEW f \in Files \cup {NULL}, f # s.ofile[p][d]
  PROVE  LET u == [s EXCEPT !.ofile[p][d] = f]
         IN /\ u \in Tables
            /\ u.ref_ = s.ref_ /\ u.ftype = s.ftype /\ u.pipe = s.pipe /\ u.writable = s.writable
            /\ u.readopen = s.readopen /\ u.writeopen = s.writeopen /\ u.freelist = s.freelist
            /\ u.ofile = [s.ofile EXCEPT ![p] = [s.ofile[p] EXCEPT ![d] = f]]
            /\ \A h \in Files : Cardinality(Users(u, h)) = Cardinality(Users(s, h))
                  + (IF h = f THEN 1 ELSE IF h = s.ofile[p][d] THEN -1 ELSE 0)
<1> DEFINE u == [s EXCEPT !.ofile[p][d] = f]
           o == s.ofile[p][d]
<1>1. /\ u.ref_ = s.ref_ /\ u.ftype = s.ftype /\ u.pipe = s.pipe /\ u.writable = s.writable
      /\ u.readopen = s.readopen /\ u.writeopen = s.writeopen /\ u.freelist = s.freelist
      /\ u.ofile = [s.ofile EXCEPT ![p] = [s.ofile[p] EXCEPT ![d] = f]]
      /\ s.ofile \in [Procs -> [Fds -> Files \cup {NULL}]]
  BY DEF Tables
<1>2. u \in Tables
  BY Zenon DEF Tables
<1>3. \A x \in Procs \X Fds : x[1] \in Procs /\ x[2] \in Fds /\ x = <<x[1], x[2]>>
                              /\ u.ofile[x[1]][x[2]] = IF x = <<p, d>> THEN f ELSE s.ofile[x[1]][x[2]]
  BY <1>1
<1> HIDE DEF u
<1>4. ASSUME NEW h \in Files
      PROVE  Cardinality(Users(u, h)) = Cardinality(Users(s, h)) + (IF h = f THEN 1 ELSE IF h = o THEN -1 ELSE 0)
  <2>1. <<p, d>> \in Procs \X Fds /\ f # o
    BY Zenon
  <2>2. CASE h = f
    <3>1. Users(u, h) = Users(s, h) \cup {<<p, d>>} /\ <<p, d>> \notin Users(s, h)
      BY <1>3, <2>1, <2>2 DEF Users
    <3>2. Cardinality(Users(u, h)) = Cardinality(Users(s, h)) + 1
      BY <3>1, UsersFinite, FS_AddElement, Zenon
    <3> QED
      BY <2>2, <3>2, Zenon
  <2>3. CASE h # f /\ h = o
    <3>1. Users(u, h) = Users(s, h) \ {<<p, d>>} /\ <<p, d>> \in Users(s, h)
      BY <1>3, <2>1, <2>3 DEF Users
    <3>2. Cardinality(Users(u, h)) = Cardinality(Users(s, h)) - 1
      BY <3>1, UsersFinite, RemoveOne, Zenon
    <3>3. Cardinality(Users(s, h)) \in Nat
      BY UsersFinite, Zenon
    <3> QED
      BY <2>3, <3>2, <3>3
  <2>4. CASE h # f /\ h # o
    <3>1. Users(u, h) = Users(s, h)
      BY <1>3, <2>1, <2>4 DEF Users
    <3> QED
      BY <2>4, <3>1, UsersFinite
  <2> QED
    BY <2>2, <2>3, <2>4
<1> QED
  BY <1>1, <1>2, <1>4, Zenon DEF u

Plus(e, f, k) == [e EXCEPT ![f] = @ + k]

LEMMA PlusFacts ==
  ASSUME NEW e \in [Files -> Int], NEW f \in Files, NEW k \in Int
  PROVE  /\ Plus(e, f, k) \in [Files -> Int]
         /\ \A h \in Files : Plus(e, f, k)[h] = e[h] + (IF h = f THEN k ELSE 0)
BY DEF Plus

\* A handler puts a reference it has into a free descriptor.
LEMMA GiveFd ==
  ASSUME FileConstants, NEW s, NEW e, Sound(s, e), NEW p \in Procs, NEW d \in Fds,
         s.ofile[p][d] = NULL, NEW f \in Files
  PROVE  Sound([s EXCEPT !.ofile[p][d] = f], Plus(e, f, -1))
<1> DEFINE u == [s EXCEPT !.ofile[p][d] = f]
<1>1. f # NULL /\ \A h \in Files : h # NULL
  BY DEF Files, NULL
<1>2. s \in Tables /\ e \in [Files -> Int] /\ -1 \in Int
  BY DEF Sound
<1>3. /\ u \in Tables
      /\ u.ref_ = s.ref_ /\ u.ftype = s.ftype /\ u.pipe = s.pipe /\ u.writable = s.writable
      /\ u.readopen = s.readopen /\ u.writeopen = s.writeopen /\ u.freelist = s.freelist
      /\ \A h \in Files : Cardinality(Users(u, h)) = Cardinality(Users(s, h)) + (IF h = f THEN 1 ELSE 0)
  BY <1>1, <1>2, SetFd
<1> HIDE DEF u
<1>4. /\ Plus(e, f, -1) \in [Files -> Int]
      /\ \A h \in Files : Plus(e, f, -1)[h] = e[h] + (IF h = f THEN -1 ELSE 0)
  BY <1>2, PlusFacts, Zenon
<1>5. Counted(u, Plus(e, f, -1))
  <2> SUFFICES ASSUME NEW h \in Files
               PROVE  u.ref_[h] = Cardinality(Users(u, h)) + Plus(e, f, -1)[h]
    BY Zenon DEF Counted
  <2>1. s.ref_[h] = Cardinality(Users(s, h)) + e[h] /\ e[h] \in Int
    BY <1>2, Zenon DEF Sound, Counted
  <2>2. Cardinality(Users(s, h)) \in Nat
    BY UsersFinite, Zenon
  <2> QED
    BY <1>3, <1>4, <2>1, <2>2
<1>6. Wired(u) /\ Listed(u)
  BY <1>3 DEF Sound, Wired, Listed
<1> QED
  BY <1>3, <1>4, <1>5, <1>6, Zenon DEF Sound, u

\* A handler takes the reference of a descriptor.
LEMMA TakeFd ==
  ASSUME FileConstants, NEW s, NEW e, Sound(s, e), NEW p \in Procs, NEW d \in Fds,
         s.ofile[p][d] # NULL
  PROVE  Sound([s EXCEPT !.ofile[p][d] = NULL], Plus(e, s.ofile[p][d], 1))
<1> DEFINE u == [s EXCEPT !.ofile[p][d] = NULL]
           f == s.ofile[p][d]
<1>2. s \in Tables /\ e \in [Files -> Int] /\ 1 \in Int /\ NULL \in Files \cup {NULL} /\ NULL # f
  BY DEF Sound
<1>1. f \in Files /\ \A h \in Files : h # NULL
  BY <1>2 DEF Files, NULL, Tables
<1>3. /\ u \in Tables
      /\ u.ref_ = s.ref_ /\ u.ftype = s.ftype /\ u.pipe = s.pipe /\ u.writable = s.writable
      /\ u.readopen = s.readopen /\ u.writeopen = s.writeopen /\ u.freelist = s.freelist
      /\ \A h \in Files : Cardinality(Users(u, h)) = Cardinality(Users(s, h)) + (IF h = f THEN -1 ELSE 0)
  BY <1>1, <1>2, SetFd, SMTT(30)
<1> HIDE DEF u, f
<1>4. /\ Plus(e, f, 1) \in [Files -> Int]
      /\ \A h \in Files : Plus(e, f, 1)[h] = e[h] + (IF h = f THEN 1 ELSE 0)
  BY <1>1, <1>2, PlusFacts
<1>5. Counted(u, Plus(e, f, 1))
  <2> SUFFICES ASSUME NEW h \in Files
               PROVE  u.ref_[h] = Cardinality(Users(u, h)) + Plus(e, f, 1)[h]
    BY Zenon DEF Counted
  <2>1. s.ref_[h] = Cardinality(Users(s, h)) + e[h] /\ e[h] \in Int
    BY <1>2, Zenon DEF Sound, Counted
  <2>2. Cardinality(Users(s, h)) \in Nat
    BY UsersFinite, Zenon
  <2> QED
    BY <1>3, <1>4, <2>1, <2>2
<1>6. Wired(u) /\ Listed(u)
  BY <1>3 DEF Sound, Wired, Listed
<1> QED
  BY <1>3, <1>4, <1>5, <1>6, Zenon DEF Sound, u, f

\* What fileclose and pipeclose leave of the tables.
LEMMA ShutFields ==
  ASSUME FileConstants, NEW s \in Tables, NEW g \in Pages, NEW w \in BOOLEAN
  PROVE  LET r == Pipeclose(s, g, w)
         IN /\ r \in Tables
            /\ r.ref_ = s.ref_ /\ r.ftype = s.ftype /\ r.pipe = s.pipe /\ r.writable = s.writable
            /\ r.ofile = s.ofile
            /\ r.readopen = IF w THEN s.readopen ELSE [s.readopen EXCEPT ![g] = FALSE]
            /\ r.writeopen = IF w THEN [s.writeopen EXCEPT ![g] = FALSE] ELSE s.writeopen
            /\ r.freelist = IF ~r.readopen[g] /\ ~r.writeopen[g] THEN <<g>> \o s.freelist ELSE s.freelist
<1> DEFINE u == IF w THEN [s EXCEPT !.writeopen[g] = FALSE] ELSE [s EXCEPT !.readopen[g] = FALSE]
           v == [u EXCEPT !.freelist = <<g>> \o @]
<1>1. /\ u \in Tables
      /\ u.ref_ = s.ref_ /\ u.ftype = s.ftype /\ u.pipe = s.pipe /\ u.writable = s.writable
      /\ u.ofile = s.ofile /\ u.freelist = s.freelist
      /\ u.readopen = IF w THEN s.readopen ELSE [s.readopen EXCEPT ![g] = FALSE]
      /\ u.writeopen = IF w THEN [s.writeopen EXCEPT ![g] = FALSE] ELSE s.writeopen
  <2>1. CASE w
    BY <2>1, Zenon DEF Tables
  <2>2. CASE ~w
    BY <2>2, Zenon DEF Tables
  <2> QED
    BY <2>1, <2>2, Zenon
<1>2. Pipeclose(s, g, w) = IF ~u.readopen[g] /\ ~u.writeopen[g] THEN v ELSE u
  BY Zenon DEF Pipeclose, Kfree
<1> HIDE DEF u
<1>3. <<g>> \o u.freelist \in Seq(Pages)
  BY <1>1 DEF Tables
<1>4. /\ v \in Tables
      /\ v.ref_ = u.ref_ /\ v.ftype = u.ftype /\ v.pipe = u.pipe /\ v.writable = u.writable
      /\ v.ofile = u.ofile /\ v.freelist = <<g>> \o u.freelist
      /\ v.readopen = u.readopen /\ v.writeopen = u.writeopen
  BY <1>1, <1>3, Zenon DEF Tables
<1> HIDE DEF v
<1> QED
  BY <1>1, <1>2, <1>4, Zenon

LEMMA CloseFields ==
  ASSUME FileConstants, NEW s \in Tables, NEW f \in Files, s.ref_[f] > 0,
         s.ftype[f] = "Pipe" <=> s.pipe[f] # NULL
  PROVE  LET r == Fileclose(s, f)
             g == s.pipe[f]
             last == s.ref_[f] = 1
             shut == last /\ g # NULL
         IN /\ r \in Tables
            /\ r.ref_ = [s.ref_ EXCEPT ![f] = @ - 1]
            /\ r.writable = s.writable /\ r.ofile = s.ofile
            /\ r.ftype = IF last THEN [s.ftype EXCEPT ![f] = "None"] ELSE s.ftype
            /\ r.pipe = IF last THEN [s.pipe EXCEPT ![f] = NULL] ELSE s.pipe
            /\ r.readopen = IF shut /\ ~s.writable[f] THEN [s.readopen EXCEPT ![g] = FALSE] ELSE s.readopen
            /\ r.writeopen = IF shut /\ s.writable[f] THEN [s.writeopen EXCEPT ![g] = FALSE] ELSE s.writeopen
            /\ r.freelist = IF shut /\ ~r.readopen[g] /\ ~r.writeopen[g] THEN <<g>> \o s.freelist ELSE s.freelist
<1> DEFINE u == [s EXCEPT !.ref_[f] = @ - 1]
           c == [u EXCEPT !.ftype[f] = "None", !.pipe[f] = NULL]
           g == s.pipe[f]
           w == s.writable[f]
<1>0. s.ref_[f] \in Nat /\ s.ref_[f] - 1 \in Nat /\ g \in Pages \cup {NULL} /\ w \in BOOLEAN
  BY DEF Tables
<1>1. /\ u \in Tables
      /\ u.ref_ = [s.ref_ EXCEPT ![f] = @ - 1] /\ u.ref_[f] = s.ref_[f] - 1
      /\ u.ftype = s.ftype /\ u.pipe = s.pipe /\ u.writable = s.writable
      /\ u.ofile = s.ofile /\ u.freelist = s.freelist
      /\ u.readopen = s.readopen /\ u.writeopen = s.writeopen
  BY <1>0, Zenon DEF Tables
<1>2. Fileclose(s, f) = IF u.ref_[f] > 0 THEN u
                        ELSE IF s.ftype[f] = "Pipe" THEN Pipeclose(c, g, w) ELSE c
  BY Zenon DEF Fileclose
<1> HIDE DEF u
<1>3. /\ c \in Tables
      /\ c.ref_ = u.ref_ /\ c.ftype = [u.ftype EXCEPT ![f] = "None"] /\ c.pipe = [u.pipe EXCEPT ![f] = NULL]
      /\ c.writable = u.writable /\ c.ofile = u.ofile /\ c.freelist = u.freelist
      /\ c.readopen = u.readopen /\ c.writeopen = u.writeopen
  BY <1>1, Zenon DEF Tables
<1> HIDE DEF c
<1>4. u.ref_[f] > 0 <=> s.ref_[f] # 1
  BY <1>0, <1>1
<1>5. CASE s.ref_[f] # 1
  BY <1>1, <1>2, <1>4, <1>5, Zenon
<1>6. CASE s.ref_[f] = 1 /\ g = NULL
  BY <1>1, <1>2, <1>3, <1>4, <1>6, Zenon
<1>7. CASE s.ref_[f] = 1 /\ g # NULL
  <2>1. g \in Pages /\ Fileclose(s, f) = Pipeclose(c, g, w)
    BY <1>0, <1>2, <1>4, <1>7, Zenon
  <2> HIDE DEF g, w
  <2> DEFINE r == Pipeclose(c, g, w)
  <2>2. /\ r \in Tables
        /\ r.ref_ = c.ref_ /\ r.ftype = c.ftype /\ r.pipe = c.pipe /\ r.writable = c.writable
        /\ r.ofile = c.ofile
        /\ r.readopen = IF w THEN c.readopen ELSE [c.readopen EXCEPT ![g] = FALSE]
        /\ r.writeopen = IF w THEN [c.writeopen EXCEPT ![g] = FALSE] ELSE c.writeopen
        /\ r.freelist = IF ~r.readopen[g] /\ ~r.writeopen[g] THEN <<g>> \o c.freelist ELSE c.freelist
    BY <1>0, <1>3, <2>1, ShutFields, SMTT(30)
  <2> HIDE DEF r
  <2> QED
    BY <1>1, <1>3, <1>7, <2>1, <2>2, SMTT(30) DEF g, w, r
<1> QED
  BY <1>5, <1>6, <1>7, Zenon

\* The free list's two operations.
Push(g, l) == <<g>> \o l

LEMMA Pushed ==
  ASSUME NEW l \in Seq(Pages), NEW g \in Pages
  PROVE  /\ Len(l) \in Nat /\ 1 \in 1..Len(Push(g, l)) /\ Push(g, l)[1] = g
         /\ \A i \in 1..Len(l) : i + 1 \in 1..Len(Push(g, l)) /\ Push(g, l)[i + 1] = l[i]
         /\ \A i \in 1..Len(Push(g, l)) : i # 1 => i - 1 \in 1..Len(l) /\ Push(g, l)[i] = l[i - 1]
<1>1. /\ Len(l) \in Nat /\ Len(Push(g, l)) = Len(l) + 1 /\ Push(g, l)[1] = g
      /\ \A i \in 1..Len(l) : Push(g, l)[i + 1] = l[i]
  BY DEF Push
<1>2. \A i \in 1..Len(Push(g, l)) : i # 1 => i - 1 \in 1..Len(l) /\ Push(g, l)[i] = l[i - 1]
  BY DEF Push
<1>3. 1 \in 1..Len(Push(g, l)) /\ \A i \in 1..Len(l) : i + 1 \in 1..Len(Push(g, l))
  BY <1>1
<1> QED
  BY <1>1, <1>2, <1>3, Zenon

LEMMA PushedOn ==
  ASSUME NEW l \in Seq(Pages), NEW g \in Pages, NEW x
  PROVE  On(Push(g, l), x) <=> x = g \/ On(l, x)
<1>1. ASSUME NEW i \in 1..Len(Push(g, l)), Push(g, l)[i] = x
      PROVE  x = g \/ On(l, x)
  <2>1. /\ Push(g, l)[1] = g
        /\ i # 1 => i - 1 \in 1..Len(l) /\ Push(g, l)[i] = l[i - 1]
    BY Pushed, ZenonT(30)
  <2> QED
    BY <1>1, <2>1, Zenon DEF On
<1>2. ASSUME NEW i \in 1..Len(l), l[i] = x
      PROVE  On(Push(g, l), x)
  <2>1. i + 1 \in 1..Len(Push(g, l)) /\ Push(g, l)[i + 1] = l[i]
    BY Pushed, ZenonT(30)
  <2> QED
    BY <1>2, <2>1, Zenon DEF On
<1>3. 1 \in 1..Len(Push(g, l)) /\ Push(g, l)[1] = g
  BY Pushed, Zenon
<1> QED
  BY <1>1, <1>2, <1>3, Zenon DEF On

LEMMA PushedOnce ==
  ASSUME NEW l \in Seq(Pages), NEW g \in Pages, ~On(l, g), Once(l)
  PROVE  Once(Push(g, l))
<1> SUFFICES ASSUME NEW i \in 1..Len(Push(g, l)), NEW j \in 1..Len(Push(g, l)), Push(g, l)[i] = Push(g, l)[j]
             PROVE  i = j
  BY Zenon DEF Once
<1>0. /\ Len(l) \in Nat /\ Push(g, l)[1] = g
      /\ i # 1 => i - 1 \in 1..Len(l) /\ Push(g, l)[i] = l[i - 1]
      /\ j # 1 => j - 1 \in 1..Len(l) /\ Push(g, l)[j] = l[j - 1]
  <2>1. /\ Len(l) \in Nat /\ Push(g, l)[1] = g
        /\ \A k \in 1..Len(Push(g, l)) : k # 1 => k - 1 \in 1..Len(l) /\ Push(g, l)[k] = l[k - 1]
    BY Pushed, ZenonT(40)
  <2> QED
    BY <2>1, Zenon
<1>1. CASE i = 1 \/ j = 1
  <2>1. i # 1 => Push(g, l)[i] # g
    BY <1>0, Zenon DEF On
  <2>2. j # 1 => Push(g, l)[j] # g
    BY <1>0, Zenon DEF On
  <2> QED
    BY <1>0, <1>1, <2>1, <2>2, Zenon
<1>2. CASE i # 1 /\ j # 1
  <2>1. i - 1 = j - 1
    BY <1>0, <1>2, Zenon DEF Once
  <2> QED
    BY <1>0, <2>1
<1> QED
  BY <1>1, <1>2, Zenon

LEMMA Popped ==
  ASSUME NEW l \in Seq(Pages), l # << >>, Once(l)
  PROVE  /\ Tail(l) \in Seq(Pages) /\ Head(l) \in Pages /\ On(l, Head(l))
         /\ Once(Tail(l)) /\ \A x : On(Tail(l), x) <=> x # Head(l) /\ On(l, x)
<1> DEFINE r == Tail(l)
<1>1. /\ Len(l) \in Nat /\ Len(l) # 0 /\ Len(r) = Len(l) - 1 /\ r \in Seq(Pages) /\ Head(l) = l[1] /\ l[1] \in Pages
      /\ \A i \in 1..Len(r) : r[i] = l[i + 1]
  OBVIOUS
<1>2. \A i \in 1..Len(l) : i # 1 => i - 1 \in 1..Len(r) /\ r[i - 1] = l[i]
  BY <1>1
<1>3. 1 \in 1..Len(l) /\ \A i \in 1..Len(r) : i + 1 \in 1..Len(l) /\ i + 1 # 1
  BY <1>1
<1> HIDE DEF r
<1>4. ASSUME NEW x PROVE On(r, x) <=> x # Head(l) /\ On(l, x)
  <2>1. ASSUME NEW i \in 1..Len(r), r[i] = x
        PROVE  x # Head(l) /\ On(l, x)
    BY <1>1, <1>3, <2>1, Zenon DEF On, Once
  <2>2. ASSUME NEW i \in 1..Len(l), l[i] = x, x # Head(l)
        PROVE  On(r, x)
    BY <1>1, <1>2, <2>2, Zenon DEF On
  <2> QED
    BY <2>1, <2>2, Zenon DEF On
<1>5. ASSUME NEW i \in 1..Len(r), NEW j \in 1..Len(r), r[i] = r[j]
      PROVE  i = j
  <2>1. i + 1 = j + 1
    BY <1>1, <1>3, <1>5, Zenon DEF Once
  <2> QED
    BY <1>1, <2>1
<1>6. On(l, Head(l)) /\ Once(r)
  BY <1>1, <1>3, <1>5, Zenon DEF On, Once
<1> QED
  BY <1>1, <1>4, <1>6, Zenon DEF r

\* What counts references does not look at anything else.
LEMMA CountRef ==
  ASSUME FileConstants, NEW s \in Tables, NEW e \in [Files -> Int], Counted(s, e),
         NEW r, NEW f \in Files, NEW k \in Int,
         r.ofile = s.ofile, r.ref_ = [s.ref_ EXCEPT ![f] = @ + k]
  PROVE  Counted(r, Plus(e, f, k)) /\ Plus(e, f, k) \in [Files -> Int]
<1>1. /\ Plus(e, f, k) \in [Files -> Int]
      /\ \A h \in Files : Plus(e, f, k)[h] = e[h] + (IF h = f THEN k ELSE 0)
  BY PlusFacts, ZenonT(30)
<1> SUFFICES ASSUME NEW h \in Files
             PROVE  r.ref_[h] = Cardinality(Users(r, h)) + Plus(e, f, k)[h]
  BY <1>1, Zenon DEF Counted
<1>2. Users(r, h) = Users(s, h)
  BY Zenon DEF Users
<1>3. s.ref_[h] = Cardinality(Users(s, h)) + e[h] /\ e[h] \in Int /\ Cardinality(Users(s, h)) \in Nat
  BY UsersFinite, Zenon DEF Counted
<1>4. s.ref_ \in [Files -> Nat]
  BY DEF Tables
<1>5. r.ref_[h] = s.ref_[h] + (IF h = f THEN k ELSE 0)
  BY <1>4
<1> QED
  BY <1>1, <1>2, <1>3, <1>5

\* fileclose of a reference in hand.
LEMMA CloseRef ==
  ASSUME FileConstants, NEW s, NEW e, Sound(s, e), NEW f \in Files, s.ref_[f] > 0
  PROVE  /\ Sound(Fileclose(s, f), Plus(e, f, -1))
         /\ Fileclose(s, f).ofile = s.ofile
<1> DEFINE r == Fileclose(s, f)
           g == s.pipe[f]
           last == s.ref_[f] = 1
           shut == last /\ g # NULL
<1>0. s \in Tables /\ e \in [Files -> Int] /\ Counted(s, e) /\ Wired(s) /\ Listed(s)
  BY Zenon DEF Sound
<1>1. s.ftype[f] = "Pipe" <=> s.pipe[f] # NULL
  BY <1>0, Zenon DEF Wired
<1>2. /\ r \in Tables
      /\ r.ref_ = [s.ref_ EXCEPT ![f] = @ - 1]
      /\ r.writable = s.writable /\ r.ofile = s.ofile
      /\ r.ftype = IF last THEN [s.ftype EXCEPT ![f] = "None"] ELSE s.ftype
      /\ r.pipe = IF last THEN [s.pipe EXCEPT ![f] = NULL] ELSE s.pipe
      /\ r.readopen = IF shut /\ ~s.writable[f] THEN [s.readopen EXCEPT ![g] = FALSE] ELSE s.readopen
      /\ r.writeopen = IF shut /\ s.writable[f] THEN [s.writeopen EXCEPT ![g] = FALSE] ELSE s.writeopen
      /\ r.freelist = IF shut /\ ~r.readopen[g] /\ ~r.writeopen[g] THEN <<g>> \o s.freelist ELSE s.freelist
  <2>1. s \in Tables
    BY <1>0, Zenon
  <2> HIDE DEF r
  <2> QED
    BY <1>1, <2>1, CloseFields, Zenon DEF r
<1> HIDE DEF r, g, last, shut
<1>7. (last <=> s.ref_[f] = 1) /\ (shut <=> last /\ g # NULL) /\ g = s.pipe[f]
  BY Zenon DEF g, last, shut
<1>3. /\ s.ref_ \in [Files -> Nat] /\ s.ftype \in [Files -> {"None", "Pipe"}]
      /\ s.pipe \in [Files -> Pages \cup {NULL}] /\ s.writable \in [Files -> BOOLEAN]
      /\ s.readopen \in [Pages -> BOOLEAN] /\ s.writeopen \in [Pages -> BOOLEAN]
      /\ s.freelist \in Seq(Pages) /\ NULL \notin Pages
  BY <1>0, Zenon DEF Tables, FileConstants
<1>4. Counted(r, Plus(e, f, -1)) /\ Plus(e, f, -1) \in [Files -> Int]
  <2>1. s.ref_[f] - 1 = s.ref_[f] + (-1) /\ -1 \in Int
    BY <1>3
  <2>2. r.ref_ = [s.ref_ EXCEPT ![f] = @ + (-1)]
    BY <1>2, <2>1, Zenon
  <2> QED
    BY <1>0, <1>2, <2>1, <2>2, CountRef, SMTT(30)
<1>5. Wired(r)
  <2>1. CASE ~last
    <3>1. r.ref_[f] # 0
      BY <1>2, <1>3, <1>7, <2>1
    <3>2. \A h \in Files : h # f => r.ref_[h] = s.ref_[h]
      BY <1>2, <1>3
    <3>3. /\ r.ftype = s.ftype /\ r.pipe = s.pipe /\ r.writable = s.writable
          /\ r.readopen = s.readopen /\ r.writeopen = s.writeopen
      BY <1>2, <1>7, <2>1, Zenon
    <3> QED
      BY <1>0, <3>1, <3>2, <3>3 DEF Wired
  <2>2. CASE last
    <3>1. /\ r.pipe[f] = NULL /\ r.ftype[f] = "None"
          /\ \A h \in Files : h # f => r.pipe[h] = s.pipe[h] /\ r.ftype[h] = s.ftype[h] /\ r.ref_[h] = s.ref_[h]
      BY <1>2, <1>3, <2>2
    <3>2. \A x \in Pages : /\ r.readopen[x] <=> s.readopen[x] /\ ~(x = g /\ ~s.writable[f])
                           /\ r.writeopen[x] <=> s.writeopen[x] /\ ~(x = g /\ s.writable[f])
      BY <1>2, <1>3, <1>7, <2>2
    <3>3. \A h \in Files : /\ r.ftype[h] = "Pipe" <=> r.pipe[h] # NULL
                           /\ r.ref_[h] = 0 => r.pipe[h] = NULL
      BY <1>0, <3>1 DEF Wired
    <3>4. \A h, k \in Files : r.pipe[h] # NULL /\ r.pipe[h] = r.pipe[k] /\ r.writable[h] = r.writable[k] => h = k
      BY <1>0, <1>2, <3>1 DEF Wired
    <3>5. ASSUME NEW x \in Pages
          PROVE  /\ r.readopen[x] <=> \E h \in Files : r.pipe[h] = x /\ ~r.writable[h]
                 /\ r.writeopen[x] <=> \E h \in Files : r.pipe[h] = x /\ r.writable[h]
      <4>1. \A h \in Files : r.pipe[h] = x <=> s.pipe[h] = x /\ h # f
        BY <1>3, <3>1
      <4>2. /\ s.readopen[x] <=> \E h \in Files : s.pipe[h] = x /\ ~s.writable[h]
            /\ s.writeopen[x] <=> \E h \in Files : s.pipe[h] = x /\ s.writable[h]
        BY <1>0 DEF Wired
      <4>3. \A h \in Files : s.pipe[h] = x /\ s.pipe[f] = x /\ (s.writable[h] <=> s.writable[f]) => h = f
        BY <1>0, <1>3, SMTT(30) DEF Wired
      <4>4. s.pipe[f] = x <=> x = g
        BY <1>7
      <4>5. r.readopen[x] <=> \E h \in Files : r.pipe[h] = x /\ ~r.writable[h]
        BY <1>2, <1>3, <3>2, <4>1, <4>2, <4>3, <4>4
      <4>6. r.writeopen[x] <=> \E h \in Files : r.pipe[h] = x /\ r.writable[h]
        BY <1>2, <1>3, <3>2, <4>1, <4>2, <4>3, <4>4, SMTT(30)
      <4> QED
        BY <4>5, <4>6
    <3> QED
      BY <3>3, <3>4, <3>5, Zenon DEF Wired
  <2> QED
    BY <2>1, <2>2
<1>6. Listed(r)
  <2>1. \A x \in Pages : /\ r.readopen[x] <=> s.readopen[x] /\ ~(shut /\ x = g /\ ~s.writable[f])
                         /\ r.writeopen[x] <=> s.writeopen[x] /\ ~(shut /\ x = g /\ s.writable[f])
    BY <1>2, <1>3, <1>7
  <2>2. shut => g \in Pages /\ (s.readopen[g] \/ s.writeopen[g])
    BY <1>0, <1>3, <1>7 DEF Wired
  <2>3. CASE shut /\ ~r.readopen[g] /\ ~r.writeopen[g]
    <3>0. g \in Pages /\ s.freelist \in Seq(Pages)
      BY <1>3, <2>2, <2>3, Zenon
    <3>1. r.freelist = Push(g, s.freelist)
      BY <1>2, <2>3, Zenon DEF Push
    <3>2. ~On(s.freelist, g)
      BY <1>0, <2>2, <2>3, Zenon DEF Listed
    <3>3. Once(r.freelist)
      BY <1>0, <3>0, <3>1, <3>2, PushedOnce, Zenon DEF Listed
    <3>4. ASSUME NEW x \in Pages PROVE On(r.freelist, x) <=> x = g \/ On(s.freelist, x)
      BY <3>0, <3>1, PushedOn, ZenonT(40)
    <3> QED
      BY <1>0, <2>1, <2>3, <3>3, <3>4 DEF Listed
  <2>4. CASE ~(shut /\ ~r.readopen[g] /\ ~r.writeopen[g])
    <3>1. r.freelist = s.freelist
      BY <1>2, <2>4, Zenon
    <3>2. \A x \in Pages : ~r.readopen[x] /\ ~r.writeopen[x] <=> ~s.readopen[x] /\ ~s.writeopen[x]
      BY <2>1, <2>2, <2>4
    <3> QED
      BY <1>0, <3>1, <3>2, Zenon DEF Listed
  <2> QED
    BY <2>3, <2>4
<1> QED
  BY <1>2, <1>4, <1>5, <1>6, Zenon DEF Sound, r

\* filedup, and filealloc of a free entry: one more reference in hand.
LEMMA UpRef ==
  ASSUME FileConstants, NEW s, NEW e, Sound(s, e), NEW f \in Files
  PROVE  /\ Sound(Filedup(s, f), Plus(e, f, 1))
         /\ Filedup(s, f).ref_ = [s.ref_ EXCEPT ![f] = @ + 1]
         /\ Filedup(s, f).pipe = s.pipe /\ Filedup(s, f).ofile = s.ofile
         /\ Filedup(s, f).freelist = s.freelist
<1> DEFINE x == s.ref_[f] + 1
           r == [s EXCEPT !.ref_[f] = x]
<1>0. s \in Tables /\ e \in [Files -> Int] /\ Counted(s, e) /\ Wired(s) /\ Listed(s)
  BY Zenon DEF Sound
<1>1. s.ref_ \in [Files -> Nat]
  BY <1>0, Zenon DEF Tables
<1>2. x \in Nat /\ x # 0 /\ 1 \in Int
  BY <1>1
<1>3. /\ r \in Tables
      /\ r.ref_ = [s.ref_ EXCEPT ![f] = x] /\ r.ftype = s.ftype /\ r.pipe = s.pipe
      /\ r.writable = s.writable /\ r.ofile = s.ofile
      /\ r.readopen = s.readopen /\ r.writeopen = s.writeopen /\ r.freelist = s.freelist
  BY <1>0, <1>2, Zenon DEF Tables
<1> HIDE DEF r
<1>4. r.ref_ = [s.ref_ EXCEPT ![f] = @ + 1]
  BY <1>3, Zenon
<1>5. Counted(r, Plus(e, f, 1)) /\ Plus(e, f, 1) \in [Files -> Int]
  BY <1>0, <1>2, <1>3, <1>4, CountRef, Zenon
<1>6. \A h \in Files : r.ref_[h] = 0 => s.ref_[h] = 0
  BY <1>1, <1>2, <1>3
<1>7. Wired(r)
  BY <1>0, <1>3, <1>6 DEF Wired
<1>8. Listed(r)
  BY <1>0, <1>3, Zenon DEF Listed
<1>9. r = Filedup(s, f)
  BY Zenon DEF Filedup, r
<1> QED
  BY <1>0, <1>3, <1>4, <1>5, <1>7, <1>8, <1>9, Zenon DEF Sound

LEMMA NextFree ==
  ASSUME NEW s
  PROVE  /\ NextFile(s) = NULL <=> Free(s) = {}
         /\ NextFile(s) # NULL => NextFile(s) \in Files /\ s.ref_[NextFile(s)] = 0
<1>1. Free(s) \in SUBSET Nat /\ NULL \notin Free(s)
  BY DEF Free, Files, NULL
<1>2. Free(s) # {} => Min(Free(s)) \in Free(s)
  BY <1>1, MinIn, Zenon
<1> QED
  BY <1>1, <1>2, Zenon DEF NextFile, Free

LEMMA AllocIsDup ==
  ASSUME NEW s, NextFile(s) # NULL
  PROVE  Filealloc(s) = Filedup(s, NextFile(s))
<1>1. s.ref_[NextFile(s)] = 0 /\ 0 + 1 = 1
  BY NextFree
<1> QED
  BY <1>1, Zenon DEF Filealloc, Filedup

LEMMA NextFd ==
  ASSUME NEW s, NEW p, FreeFds(s, p) # {}
  PROVE  Min(FreeFds(s, p)) \in Fds /\ s.ofile[p][Min(FreeFds(s, p))] = NULL
<1>1. FreeFds(s, p) \in SUBSET Nat
  BY DEF FreeFds, Fds
<1>2. Min(FreeFds(s, p)) \in FreeFds(s, p)
  BY <1>1, MinIn, Zenon
<1> QED
  BY <1>2, Zenon DEF FreeFds

\* pipealloc with two entries and a page.
Piped(s, f, h, g) ==
  Wire(Wire([s EXCEPT !.freelist = Tail(@), !.readopen[g] = TRUE, !.writeopen[g] = TRUE], f, FALSE, g), h, TRUE, g)

LEMMA WireSound ==
  ASSUME FileConstants, NEW s, NEW e, Sound(s, e), NEW f \in Files, NEW h \in Files, f # h,
         s.ref_[f] # 0, s.ref_[h] # 0, s.pipe[f] = NULL, s.pipe[h] = NULL,
         s.freelist # << >>, NEW g, g = Head(s.freelist)
  PROVE  Sound(Piped(s, f, h, g), e) /\ Piped(s, f, h, g).ofile = s.ofile
<1> DEFINE u == [s EXCEPT !.freelist = Tail(@), !.readopen[g] = TRUE, !.writeopen[g] = TRUE]
           v == Wire(u, f, FALSE, g)
           r == Wire(v, h, TRUE, g)
<1>0. s \in Tables /\ e \in [Files -> Int] /\ Counted(s, e) /\ Wired(s) /\ Listed(s)
  BY Zenon DEF Sound
<1>1. /\ s.ref_ \in [Files -> Nat] /\ s.ftype \in [Files -> {"None", "Pipe"}]
      /\ s.pipe \in [Files -> Pages \cup {NULL}] /\ s.writable \in [Files -> BOOLEAN]
      /\ s.readopen \in [Pages -> BOOLEAN] /\ s.writeopen \in [Pages -> BOOLEAN]
      /\ s.freelist \in Seq(Pages) /\ NULL \notin Pages
  BY <1>0, Zenon DEF Tables, FileConstants
<1>2. /\ Tail(s.freelist) \in Seq(Pages) /\ g \in Pages /\ On(s.freelist, g) /\ Once(Tail(s.freelist))
      /\ \A x : On(Tail(s.freelist), x) <=> x # g /\ On(s.freelist, x)
  BY <1>0, <1>1, Popped, Zenon DEF Listed
<1>3. /\ u \in Tables
      /\ u.ref_ = s.ref_ /\ u.ftype = s.ftype /\ u.pipe = s.pipe /\ u.writable = s.writable /\ u.ofile = s.ofile
      /\ u.readopen = [s.readopen EXCEPT ![g] = TRUE] /\ u.writeopen = [s.writeopen EXCEPT ![g] = TRUE]
      /\ u.freelist = Tail(s.freelist)
  BY <1>0, <1>2, Zenon DEF Tables
<1> HIDE DEF u
<1>4. /\ v \in Tables
      /\ v.ref_ = u.ref_ /\ v.ofile = u.ofile /\ v.readopen = u.readopen /\ v.writeopen = u.writeopen
      /\ v.freelist = u.freelist
      /\ v.ftype = [u.ftype EXCEPT ![f] = "Pipe"] /\ v.writable = [u.writable EXCEPT ![f] = FALSE]
      /\ v.pipe = [u.pipe EXCEPT ![f] = g]
  BY <1>2, <1>3, Zenon DEF Tables, Wire
<1> HIDE DEF v
<1>5. /\ r \in Tables
      /\ r.ref_ = v.ref_ /\ r.ofile = v.ofile /\ r.readopen = v.readopen /\ r.writeopen = v.writeopen
      /\ r.freelist = v.freelist
      /\ r.ftype = [v.ftype EXCEPT ![h] = "Pipe"] /\ r.writable = [v.writable EXCEPT ![h] = TRUE]
      /\ r.pipe = [v.pipe EXCEPT ![h] = g]
  BY <1>2, <1>4, Zenon DEF Tables, Wire
<1> HIDE DEF r
<1>6. r.ref_ = s.ref_ /\ r.ofile = s.ofile /\ r.freelist = Tail(s.freelist)
  BY <1>3, <1>4, <1>5, Zenon
<1>7. /\ r.pipe[f] = g /\ r.pipe[h] = g /\ r.ftype[f] = "Pipe" /\ r.ftype[h] = "Pipe"
      /\ ~r.writable[f] /\ r.writable[h]
      /\ \A k \in Files : k # f /\ k # h => /\ r.pipe[k] = s.pipe[k] /\ r.ftype[k] = s.ftype[k]
                                            /\ r.writable[k] = s.writable[k]
  BY <1>1, <1>3, <1>4, <1>5
<1>8. \A x \in Pages : /\ r.readopen[x] <=> s.readopen[x] \/ x = g
                       /\ r.writeopen[x] <=> s.writeopen[x] \/ x = g
  BY <1>1, <1>2, <1>3, <1>4, <1>5
<1>9. ~s.readopen[g] /\ ~s.writeopen[g]
  BY <1>0, <1>2, Zenon DEF Listed
<1>10. \A k \in Files : s.pipe[k] # g
  BY <1>0, <1>1, <1>2, <1>9, SMTT(30) DEF Wired
<1>11. Counted(r, e)
  BY <1>0, <1>6, ZenonT(40) DEF Counted, Users
<1>12. Listed(r)
  BY <1>0, <1>2, <1>6, <1>8, Zenon DEF Listed
<1>13. Wired(r)
  <2>1. \A k \in Files : /\ r.ftype[k] = "Pipe" <=> r.pipe[k] # NULL
                         /\ r.ref_[k] = 0 => r.pipe[k] = NULL
    <3> SUFFICES ASSUME NEW k \in Files
                 PROVE  (r.ftype[k] = "Pipe" <=> r.pipe[k] # NULL) /\ (r.ref_[k] = 0 => r.pipe[k] = NULL)
      BY Zenon
    <3>1. (s.ftype[k] = "Pipe" <=> s.pipe[k] # NULL) /\ (s.ref_[k] = 0 => s.pipe[k] = NULL)
      BY <1>0, Zenon DEF Wired
    <3>2. g # NULL
      BY <1>1, <1>2, Zenon
    <3> QED
      BY <1>6, <1>7, <3>1, <3>2, Zenon
  <2>2. ASSUME NEW j \in Files, NEW k \in Files, r.pipe[j] # NULL, r.pipe[j] = r.pipe[k], r.writable[j] = r.writable[k]
        PROVE  j = k
    <3>1. CASE j \in {f, h} \/ k \in {f, h}
      BY <1>7, <1>10, <2>2, <3>1
    <3>2. CASE j \notin {f, h} /\ k \notin {f, h}
      BY <1>0, <1>7, <2>2, <3>2 DEF Wired
    <3> QED
      BY <3>1, <3>2, Zenon
  <2>3. ASSUME NEW x \in Pages
        PROVE  /\ r.readopen[x] <=> \E k \in Files : r.pipe[k] = x /\ ~r.writable[k]
               /\ r.writeopen[x] <=> \E k \in Files : r.pipe[k] = x /\ r.writable[k]
    <3>1. CASE x = g
      BY <1>7, <1>8, <3>1, Zenon
    <3>2. CASE x # g
      <4>1. \A k \in Files : r.pipe[k] = x <=> s.pipe[k] = x
        BY <1>1, <1>7, <3>2, SMTT(30)
      <4>2. \A k \in Files : r.pipe[k] = x => r.writable[k] = s.writable[k]
        BY <1>7, <3>2, Zenon
      <4>3. /\ s.readopen[x] <=> \E k \in Files : s.pipe[k] = x /\ ~s.writable[k]
            /\ s.writeopen[x] <=> \E k \in Files : s.pipe[k] = x /\ s.writable[k]
        BY <1>0, Zenon DEF Wired
      <4> QED
        BY <1>8, <3>2, <4>1, <4>2, <4>3, Zenon
    <3> QED
      BY <3>1, <3>2, Zenon
  <2> QED
    BY <2>1, <2>2, <2>3, Zenon DEF Wired
<1>14. r = Piped(s, f, h, g)
  BY Zenon DEF Piped, r, v, u
<1> QED
  BY <1>0, <1>5, <1>6, <1>11, <1>12, <1>13, <1>14, Zenon DEF Sound

Zero == [f \in Files |-> 0]

LEMMA PlusComm ==
  ASSUME NEW e \in [Files -> Int], NEW f \in Files, NEW h \in Files, NEW j \in Int, NEW k \in Int
  PROVE  Plus(Plus(e, f, j), h, k) = Plus(Plus(e, h, k), f, j)
<1>1. Plus(e, f, j) \in [Files -> Int] /\ Plus(e, h, k) \in [Files -> Int]
  BY PlusFacts, Zenon
<1>2. /\ Plus(Plus(e, f, j), h, k) \in [Files -> Int]
      /\ Plus(Plus(e, h, k), f, j) \in [Files -> Int]
  BY <1>1, PlusFacts, Zenon
<1>3. \A x \in Files : Plus(Plus(e, f, j), h, k)[x] = Plus(Plus(e, h, k), f, j)[x]
  BY DEF Plus
<1> QED
  BY <1>2, <1>3

LEMMA PlusBack ==
  ASSUME NEW e \in [Files -> Int], NEW f \in Files
  PROVE  Plus(Plus(e, f, 1), f, -1) = e /\ Plus(Plus(e, f, -1), f, 1) = e
<1>1. 1 \in Int /\ -1 \in Int
  OBVIOUS
<1>2. Plus(e, f, 1) \in [Files -> Int] /\ Plus(e, f, -1) \in [Files -> Int]
  BY <1>1, PlusFacts, Zenon
<1>3. Plus(Plus(e, f, 1), f, -1) \in [Files -> Int] /\ Plus(Plus(e, f, -1), f, 1) \in [Files -> Int]
  BY <1>1, <1>2, PlusFacts, Zenon
<1>4. \A x \in Files : Plus(Plus(e, f, 1), f, -1)[x] = e[x] /\ Plus(Plus(e, f, -1), f, 1)[x] = e[x]
  BY DEF Plus
<1> QED
  BY <1>3, <1>4

LEMMA Held ==
  ASSUME FileConstants, NEW s, NEW e, Sound(s, e), NEW f \in Files, e[f] > 0
  PROVE  s.ref_[f] > 0
<1>1. s.ref_[f] = Cardinality(Users(s, f)) + e[f] /\ e[f] \in Int /\ Cardinality(Users(s, f)) \in Nat
  BY UsersFinite, Zenon DEF Sound, Counted
<1> QED
  BY <1>1

\* Two free entries are two.
LEMMA TwoFree ==
  ASSUME FileConstants, NEW s, NEW f \in Free(s), NEW h \in Free(s), f # h
  PROVE  Cardinality(Free(s)) >= 2
<1>1. IsFiniteSet(Files)
  BY FS_Interval DEF Files, FileConstants
<1>2. IsFiniteSet(Free(s))
  BY <1>1, FS_Subset, Zenon DEF Free
<1>3. Cardinality({f, h}) = 2
  <2>1. IsFiniteSet({f}) /\ Cardinality({f}) = 1
    BY FS_Singleton, Zenon
  <2>2. Cardinality({f} \cup {h}) = Cardinality({f}) + 1
    BY <2>1, FS_AddElement, Zenon
  <2>3. {f} \cup {h} = {f, h}
    BY Zenon
  <2> QED
    BY <2>1, <2>2, <2>3
<1>4. Cardinality({f, h}) <= Cardinality(Free(s)) /\ Cardinality(Free(s)) \in Nat
  BY <1>2, FS_Subset, FS_CardinalityType, Zenon
<1> QED
  BY <1>3, <1>4

LEMMA PipeallocSound ==
  ASSUME FileConstants, NEW s, Sound(s, Zero), ~(Cardinality(Free(s)) >= 2 /\ s.freelist = << >>)
  PROVE  LET r == Pipealloc(s)
         IN /\ r.s.ofile = s.ofile
            /\ ~r.ok => Sound(r.s, Zero)
            /\ r.ok => r.rf \in Files /\ r.wf \in Files /\ r.rf # r.wf
                       /\ Sound(r.s, Plus(Plus(Zero, r.rf, 1), r.wf, 1))
<1> DEFINE f0 == NextFile(s)
           s0 == Filealloc(s)
           f1 == NextFile(s0)
           s1 == Filealloc(s0)
           g  == Head(s.freelist)
           w  == Piped(s1, f0, f1, g)
<1>0. Pipealloc(s) = IF f0 = NULL THEN [ok |-> FALSE, s |-> s]
                     ELSE IF f1 = NULL THEN [ok |-> FALSE, s |-> Fileclose(s0, f0)]
                     ELSE [ok |-> TRUE, s |-> w, rf |-> f0, wf |-> f1]
  BY Zenon DEF Pipealloc, Piped
<1>00. Zero \in [Files -> Int] /\ \A f \in Files : Zero[f] = 0
  BY DEF Zero
<1> HIDE DEF w
<1>1. CASE f0 = NULL
  <2>1. Pipealloc(s) = [ok |-> FALSE, s |-> s]
    BY <1>0, <1>1, Zenon
  <2> QED
    BY <2>1
<1>2. CASE f0 # NULL
  <2>1. f0 \in Files /\ s.ref_[f0] = 0
    BY <1>2, NextFree, Zenon
  <2>2. s0 = Filedup(s, f0)
    BY <1>2, AllocIsDup, Zenon
  <2> DEFINE e0 == Plus(Zero, f0, 1)
  <2>3. /\ Sound(s0, e0) /\ s0.ref_ = [s.ref_ EXCEPT ![f0] = @ + 1]
        /\ s0.pipe = s.pipe /\ s0.ofile = s.ofile /\ s0.freelist = s.freelist
    <3> HIDE DEF f0, s0, e0
    <3> QED
      BY <2>1, <2>2, UpRef, Zenon DEF e0
  <2>4. e0 \in [Files -> Int] /\ e0[f0] > 0
    <3> HIDE DEF f0
    <3>1. e0 \in [Files -> Int] /\ e0[f0] = Zero[f0] + 1
      BY <1>00, <2>1, PlusFacts
    <3> QED
      BY <1>00, <2>1, <3>1
  <2> HIDE DEF s0
  <2>5. CASE f1 = NULL
    <3>1. s0.ref_[f0] > 0
      BY <2>1, <2>3, <2>4, Held, Zenon
    <3>2. Sound(Fileclose(s0, f0), Plus(e0, f0, -1)) /\ Fileclose(s0, f0).ofile = s0.ofile
      BY <2>1, <2>3, <3>1, CloseRef, Zenon
    <3>3. Plus(e0, f0, -1) = Zero
      <4> HIDE DEF f0
      <4> QED
        BY <1>00, <2>1, PlusBack, Zenon
    <3> QED
      <4>1. Pipealloc(s) = [ok |-> FALSE, s |-> Fileclose(s0, f0)]
        BY <1>0, <1>2, <2>5, Zenon
      <4>2. Sound(Fileclose(s0, f0), Zero) /\ Fileclose(s0, f0).ofile = s.ofile
        BY <2>3, <3>2, <3>3, Zenon
      <4>3. Pipealloc(s).ok = FALSE /\ Pipealloc(s).s = Fileclose(s0, f0)
        BY <4>1
      <4> QED
        BY <4>2, <4>3, Zenon
  <2>6. CASE f1 # NULL
    <3>1. f1 \in Files /\ s0.ref_[f1] = 0
      BY <2>6, NextFree, Zenon
    <3>2. f1 # f0 /\ s.ref_[f1] = 0
      <4>1. s.ref_ \in [Files -> Nat]
        BY Zenon DEF Sound, Tables
      <4> HIDE DEF f0, f1
      <4> QED
        BY <2>1, <2>3, <3>1, <4>1
    <3>3. s1 = Filedup(s0, f1)
      BY <2>6, AllocIsDup, Zenon
    <3> DEFINE e1 == Plus(e0, f1, 1)
    <3>4. /\ Sound(s1, e1)
          /\ s1.pipe = s.pipe /\ s1.ofile = s.ofile /\ s1.freelist = s.freelist
      <4> HIDE DEF f1, s1, e1, e0
      <4>1. /\ Sound(s1, e1)
            /\ s1.pipe = s0.pipe /\ s1.ofile = s0.ofile /\ s1.freelist = s0.freelist
        BY <2>3, <3>1, <3>3, UpRef, ZenonT(30) DEF e1
      <4> QED
        BY <2>3, <4>1, Zenon
    <3>5. e1[f0] > 0 /\ e1[f1] > 0
      <4> HIDE DEF f0, f1, e0
      <4>1. e1[f1] = e0[f1] + 1
        BY <2>4, <3>1, PlusFacts
      <4>2. e1[f0] = e0[f0]
        BY <2>1, <2>4, <3>1, <3>2, PlusFacts
      <4>3. e0[f1] = Zero[f1]
        BY <1>00, <2>1, <3>1, <3>2, PlusFacts DEF e0
      <4> QED
        BY <1>00, <2>1, <2>4, <3>1, <4>1, <4>2, <4>3
    <3> HIDE DEF s1
    <3>6. s1.ref_[f0] # 0 /\ s1.ref_[f1] # 0
      <4>1. s1.ref_[f0] > 0 /\ s1.ref_[f1] > 0
        BY <2>1, <3>1, <3>4, <3>5, Held, Zenon
      <4> QED
        BY <4>1
    <3>7. s1.pipe[f0] = NULL /\ s1.pipe[f1] = NULL
      <4>1. Wired(s)
        BY Zenon DEF Sound
      <4> HIDE DEF f0, f1
      <4> QED
        BY <2>1, <3>1, <3>2, <3>4, <4>1 DEF Wired
    <3>8. s1.freelist # << >>
      <4>1. f0 \in Free(s) /\ f1 \in Free(s)
        BY <2>1, <3>1, <3>2, Zenon DEF Free
      <4> HIDE DEF f0, f1
      <4>2. Cardinality(Free(s)) >= 2
        BY <3>2, <4>1, TwoFree, Zenon
      <4> QED
        BY <3>4, <4>2, Zenon
    <3>9. g = Head(s1.freelist)
      BY <3>4, Zenon
    <3>10. Sound(w, e1) /\ w.ofile = s1.ofile
      <4> HIDE DEF f0, f1, g, e1
      <4> QED
        BY <2>1, <3>1, <3>2, <3>4, <3>6, <3>7, <3>8, <3>9, WireSound DEF w
    <3>11. Pipealloc(s) = [ok |-> TRUE, s |-> w, rf |-> f0, wf |-> f1]
      BY <1>0, <1>2, <2>6, Zenon
    <3> HIDE DEF f0, f1
    <3> QED
      BY <2>1, <3>1, <3>2, <3>4, <3>10, <3>11
  <2> QED
    BY <2>5, <2>6, Zenon
<1> QED
  BY <1>1, <1>2, Zenon

\* What the descriptors of other processes are does not change.
Others(r, s, p) == \A q \in Procs : q # p => r.ofile[q] = s.ofile[q]

PutFd(s, p, d, x) == [s EXCEPT !.ofile[p][d] = x]

LEMMA SetOthers ==
  ASSUME NEW s \in Tables, NEW p \in Procs, NEW d \in Fds, NEW x
  PROVE  /\ Others(PutFd(s, p, d, x), s, p)
         /\ PutFd(s, p, d, x).ofile[p][d] = x
         /\ \A c \in Fds : c # d => PutFd(s, p, d, x).ofile[p][c] = s.ofile[p][c]
<1>1. PutFd(s, p, d, x).ofile = [s.ofile EXCEPT ![p][d] = x]
  BY Zenon DEF Tables, PutFd
<1>2. s.ofile \in [Procs -> [Fds -> Files \cup {NULL}]]
  BY Zenon DEF Tables
<1> QED
  BY <1>1, <1>2, Zenon DEF Others

LEMMA TwoHeld ==
  ASSUME NEW f \in Files, NEW h \in Files, f # h
  PROVE  Plus(Plus(Zero, f, 1), h, 1)[f] > 0 /\ Plus(Zero, h, 1)[h] > 0
BY DEF Plus, Zero

\* pipe(2) leaves the counts right, whether it succeeds or not.
LEMMA PipeCallSound ==
  ASSUME FileConstants, NEW s, Sound(s, Zero), NEW p \in Procs,
         ~(Cardinality(Free(s)) >= 2 /\ s.freelist = << >>)
  PROVE  Sound(PipeCall(s, p), Zero) /\ Others(PipeCall(s, p), s, p)
<1> DEFINE r  == Pipealloc(s)
           u0 == Fdalloc(r.s, p, r.rf)
           d0 == Min(FreeFds(r.s, p))
           d1 == Min(FreeFds(u0, p))
           u1 == Fdalloc(u0, p, r.wf)
           v  == [u0 EXCEPT !.ofile[p][d0] = NULL]
           e0 == Plus(Zero, r.rf, 1)
           e1 == Plus(e0, r.wf, 1)
<1>0. PipeCall(s, p) = IF ~r.ok THEN r.s
                       ELSE IF FreeFds(r.s, p) = {} THEN Fileclose(Fileclose(r.s, r.rf), r.wf)
                       ELSE IF FreeFds(u0, p) = {} THEN Fileclose(Fileclose(v, r.rf), r.wf)
                       ELSE u1
  BY Zenon DEF PipeCall
<1>1. /\ r.s.ofile = s.ofile /\ (~r.ok => Sound(r.s, Zero))
      /\ r.ok => r.rf \in Files /\ r.wf \in Files /\ r.rf # r.wf /\ Sound(r.s, e1)
  BY PipeallocSound, Zenon
<1>00. Zero \in [Files -> Int] /\ (\A f \in Files : Zero[f] = 0) /\ 1 \in Int /\ -1 \in Int
  BY DEF Zero
<1> HIDE DEF r
<1>2. CASE ~r.ok
  <2>1. Others(r.s, s, p)
    BY <1>1, Zenon DEF Others
  <2> QED
    BY <1>0, <1>1, <1>2, <2>1, Zenon
<1>3. CASE r.ok
  <2>1. r.rf \in Files /\ r.wf \in Files /\ r.rf # r.wf /\ Sound(r.s, e1)
    BY <1>1, <1>3, Zenon
  <2> DEFINE w0 == Plus(Zero, r.wf, 1)
  <2>2. /\ e0 \in [Files -> Int] /\ e1 \in [Files -> Int] /\ w0 \in [Files -> Int]
        /\ e1 = Plus(w0, r.rf, 1) /\ Plus(e1, r.rf, -1) = w0 /\ Plus(w0, r.wf, -1) = Zero
    <3>1. e0 \in [Files -> Int] /\ w0 \in [Files -> Int]
      BY <1>00, <2>1, PlusFacts, Zenon
    <3>2. e1 \in [Files -> Int] /\ e1 = Plus(w0, r.rf, 1)
      <4>1. e1 \in [Files -> Int]
        <5> HIDE DEF e0
        <5> QED
          BY <1>00, <2>1, <3>1, PlusFacts, Zenon
      <4>2. e1 = Plus(w0, r.rf, 1)
        BY <1>00, <2>1, PlusComm, ZenonT(30)
      <4> QED
        BY <4>1, <4>2, Zenon
    <3>3. Plus(Plus(w0, r.rf, 1), r.rf, -1) = w0
      BY <2>1, <3>1, PlusBack, Zenon
    <3>4. Plus(w0, r.wf, -1) = Zero
      BY <1>00, <2>1, PlusBack, Zenon
    <3> HIDE DEF e0, w0
    <3> QED
      BY <3>1, <3>2, <3>3, <3>4, Zenon
  <2>3. w0[r.wf] > 0 /\ e1[r.rf] > 0
    BY <2>1, TwoHeld, Zenon
  <2> HIDE DEF e0, e1, w0
  \* Both references are given back.
  <2>5. ASSUME NEW x, Sound(x, e1)
        PROVE  /\ Sound(Fileclose(Fileclose(x, r.rf), r.wf), Zero)
               /\ Fileclose(Fileclose(x, r.rf), r.wf).ofile = x.ofile
    <3>1. x.ref_[r.rf] > 0
      BY <2>1, <2>3, <2>5, Held, Zenon
    <3>2. Sound(Fileclose(x, r.rf), w0) /\ Fileclose(x, r.rf).ofile = x.ofile
      BY <2>1, <2>2, <2>5, <3>1, CloseRef
    <3>3. Fileclose(x, r.rf).ref_[r.wf] > 0
      BY <2>1, <2>3, <3>2, Held, Zenon
    <3> QED
      BY <2>1, <2>2, <3>2, <3>3, CloseRef
  <2>6. CASE FreeFds(r.s, p) = {}
    <3>1. PipeCall(s, p) = Fileclose(Fileclose(r.s, r.rf), r.wf)
      BY <1>0, <1>3, <2>6, Zenon
    <3>2. Sound(PipeCall(s, p), Zero) /\ PipeCall(s, p).ofile = s.ofile
      BY <1>1, <2>1, <2>5, <3>1, Zenon
    <3> QED
      BY <3>2, Zenon DEF Others
  <2>7. CASE FreeFds(r.s, p) # {}
    <3>1. d0 \in Fds /\ r.s.ofile[p][d0] = NULL /\ u0 = [r.s EXCEPT !.ofile[p][d0] = r.rf]
      BY <2>7, NextFd, Zenon DEF Fdalloc
    <3> HIDE DEF d0, u0
    <3>2. Sound(u0, w0)
      <4>1. Sound([r.s EXCEPT !.ofile[p][d0] = r.rf], Plus(e1, r.rf, -1))
        BY <2>1, <3>1, GiveFd, Zenon
      <4> QED
        BY <2>2, <3>1, <4>1, Zenon
    <3>3. r.s \in Tables
      BY <2>1, Zenon DEF Sound
    <3>4. Others(u0, r.s, p) /\ u0.ofile[p][d0] = r.rf
      <4>1. u0 = PutFd(r.s, p, d0, r.rf)
        BY <3>1, Zenon DEF PutFd
      <4>2. d0 \in Fds
        BY <3>1, Zenon
      <4>3. Others(PutFd(r.s, p, d0, r.rf), r.s, p)
        BY <3>3, <4>2, SetOthers, Zenon
      <4>4. PutFd(r.s, p, d0, r.rf).ofile[p][d0] = r.rf
        BY <3>3, <4>2, SetOthers
      <4> QED
        BY <4>1, <4>3, <4>4, Zenon
    <3>5. r.rf # NULL
      BY <2>1 DEF Files, NULL
    <3>6. CASE FreeFds(u0, p) = {}
      <4>1. Sound(v, e1)
        <5>1. Sound(v, Plus(w0, u0.ofile[p][d0], 1))
          BY <3>1, <3>2, <3>4, <3>5, TakeFd, Zenon
        <5> QED
          BY <2>2, <3>4, <5>1, Zenon
      <4>2. u0 \in Tables
        BY <3>2, Zenon DEF Sound
      <4>3. Others(v, u0, p)
        BY <3>1, <4>2, SetOthers, Zenon DEF PutFd
      <4>4. PipeCall(s, p) = Fileclose(Fileclose(v, r.rf), r.wf)
        BY <1>0, <1>3, <2>7, <3>6, Zenon
      <4> HIDE DEF v
      <4>5. Sound(PipeCall(s, p), Zero) /\ PipeCall(s, p).ofile = v.ofile
        BY <2>5, <4>1, <4>4, Zenon
      <4> QED
        BY <1>1, <3>4, <4>3, <4>5, Zenon DEF Others
    <3>7. CASE FreeFds(u0, p) # {}
      <4>1. d1 \in Fds /\ u0.ofile[p][d1] = NULL /\ u1 = [u0 EXCEPT !.ofile[p][d1] = r.wf]
        BY <3>7, NextFd, Zenon DEF Fdalloc
      <4> HIDE DEF d1, u1
      <4>2. Sound(u1, Zero)
        BY <2>1, <2>2, <3>2, <4>1, GiveFd, SMTT(30)
      <4>3. u0 \in Tables
        BY <3>2, Zenon DEF Sound
      <4>4. Others(u1, u0, p)
        BY <4>1, <4>3, SetOthers, Zenon DEF PutFd
      <4>5. PipeCall(s, p) = u1
        BY <1>0, <1>3, <2>7, <3>7, Zenon
      <4> QED
        BY <1>1, <3>4, <4>2, <4>4, <4>5, Zenon DEF Others
    <3> QED
      BY <3>6, <3>7, Zenon
  <2> QED
    BY <2>6, <2>7, Zenon
<1> QED
  BY <1>2, <1>3, Zenon

LEMMA ZeroFacts == Zero \in [Files -> Int] /\ (\A f \in Files : Zero[f] = 0) /\ 1 \in Int /\ -1 \in Int
BY DEF Zero

\* A file that a descriptor names has a reference.
LEMMA Named ==
  ASSUME FileConstants, NEW s, Sound(s, Zero), NEW p \in Procs, NEW d \in Fds, s.ofile[p][d] # NULL
  PROVE  s.ofile[p][d] \in Files /\ s.ref_[s.ofile[p][d]] > 0
<1> DEFINE f == s.ofile[p][d]
<1>1. f \in Files
  BY DEF Sound, Tables
<1>2. <<p, d>> \in Users(s, f)
  BY DEF Users
<1> HIDE DEF f
<1>3. Cardinality(Users(s, f)) # 0 /\ Cardinality(Users(s, f)) \in Nat
  <2>1. IsFiniteSet(Users(s, f)) /\ Cardinality(Users(s, f)) \in Nat
    BY UsersFinite, Zenon
  <2>2. Users(s, f) # {}
    BY <1>2, Zenon
  <2> QED
    BY <2>1, <2>2, FS_EmptySet, Zenon
<1>4. s.ref_[f] = Cardinality(Users(s, f)) + 0
  BY <1>1, ZeroFacts, Zenon DEF Sound, Counted
<1> QED
  BY <1>1, <1>3, <1>4 DEF f

\* One turn of fork's loop.
LEMMA DupFdSound ==
  ASSUME FileConstants, NEW s, Sound(s, Zero), NEW p \in Procs, NEW q \in Procs, NEW d \in Fds,
         s.ofile[q][d] = NULL
  PROVE  /\ Sound(DupFd(s, p, q, d), Zero) /\ Others(DupFd(s, p, q, d), s, q)
         /\ \A c \in Fds : c # d => DupFd(s, p, q, d).ofile[q][c] = s.ofile[q][c]
<1> DEFINE f == s.ofile[p][d]
           x == Filedup(s, f)
<1>1. CASE f = NULL
  BY <1>1, Zenon DEF DupFd, Others
<1>2. CASE f # NULL
  <2>1. f \in Files
    BY <1>2, Named, Zenon
  <2>2. DupFd(s, p, q, d) = PutFd(x, q, d, f)
    BY <1>2, Zenon DEF DupFd, PutFd
  <2> HIDE DEF f
  <2>3. Sound(x, Plus(Zero, f, 1)) /\ x.ofile = s.ofile
    BY <2>1, UpRef, Zenon
  <2> HIDE DEF x
  <2>4. Plus(Plus(Zero, f, 1), f, -1) = Zero
    BY <2>1, ZeroFacts, PlusBack, Zenon
  <2>5. Sound(PutFd(x, q, d, f), Plus(Plus(Zero, f, 1), f, -1))
    BY <2>1, <2>3, GiveFd, Zenon DEF PutFd
  <2>6. x \in Tables
    BY <2>3, Zenon DEF Sound
  <2>7. Others(PutFd(x, q, d, f), x, q)
    BY <2>6, SetOthers, Zenon
  <2>8. \A c \in Fds : c # d => PutFd(x, q, d, f).ofile[q][c] = x.ofile[q][c]
    BY <2>6, SetOthers
  <2> QED
    BY <2>2, <2>3, <2>4, <2>5, <2>7, <2>8, Zenon DEF Others
<1> QED
  BY <1>1, <1>2, Zenon

\* One turn of exit's loop.
LEMMA CloseFdSound ==
  ASSUME FileConstants, NEW s, Sound(s, Zero), NEW p \in Procs, NEW d \in Fds
  PROVE  /\ Sound(CloseFd(s, p, d), Zero) /\ Others(CloseFd(s, p, d), s, p)
         /\ CloseFd(s, p, d).ofile[p][d] = NULL
         /\ \A c \in Fds : c # d => CloseFd(s, p, d).ofile[p][c] = s.ofile[p][c]
<1> DEFINE f == s.ofile[p][d]
           x == Fileclose(s, f)
<1>1. CASE f = NULL
  BY <1>1, Zenon DEF CloseFd, Others
<1>2. CASE f # NULL
  <2>1. f \in Files /\ s.ref_[f] > 0
    BY <1>2, Named, Zenon
  <2>2. CloseFd(s, p, d) = PutFd(x, p, d, NULL)
    BY <1>2, Zenon DEF CloseFd, PutFd
  <2>3. x.ofile = s.ofile => x.ofile[p][d] = f
    BY Zenon
  <2> HIDE DEF f
  <2>4. Sound(x, Plus(Zero, f, -1)) /\ x.ofile = s.ofile
    BY <2>1, CloseRef, Zenon
  <2> HIDE DEF x
  <2>5. Plus(Plus(Zero, f, -1), f, 1) = Zero
    BY <2>1, ZeroFacts, PlusBack, Zenon
  <2>6. x.ofile[p][d] = f
    BY <2>3, <2>4, Zenon
  <2>7. Sound(PutFd(x, p, d, NULL), Plus(Plus(Zero, f, -1), x.ofile[p][d], 1))
    BY <1>2, <2>4, <2>6, TakeFd, Zenon DEF PutFd
  <2>8. x \in Tables
    BY <2>4, Zenon DEF Sound
  <2>9. Others(PutFd(x, p, d, NULL), x, p)
    BY <2>8, SetOthers, Zenon
  <2>10. PutFd(x, p, d, NULL).ofile[p][d] = NULL /\ \A c \in Fds : c # d => PutFd(x, p, d, NULL).ofile[p][c] = x.ofile[p][c]
    BY <2>8, SetOthers
  <2> QED
    BY <2>2, <2>4, <2>5, <2>6, <2>7, <2>9, <2>10, Zenon DEF Others
<1> QED
  BY <1>1, <1>2, Zenon

\* The loops: fork gives the child the parent's files, exit leaves none.
LEMMA ForkSound ==
  ASSUME FileConstants, NEW s, Sound(s, Zero), NEW p \in Procs, NEW q \in Procs,
         \A c \in Fds : s.ofile[q][c] = NULL
  PROVE  Sound(ForkFiles(s, p, q), Zero) /\ Others(ForkFiles(s, p, q), s, q)
<1>1. PICK a : /\ a[0] = s /\ a[NOFILE] = ForkFiles(s, p, q)
               /\ \A n \in 0..NOFILE : n + 1 <= NOFILE => a[n + 1] = DupFd(a[n], p, q, n)
  BY ForkLoop
<1> DEFINE Good(n) == /\ Sound(a[n], Zero) /\ Others(a[n], s, q)
                      /\ \A c \in Fds : c >= n => a[n].ofile[q][c] = NULL
           S == {n \in Nat : n <= NOFILE => Good(n)}
<1>2. NOFILE \in Nat
  BY DEF FileConstants
<1>3. 0 \in S
  BY <1>1, Zenon DEF Others
<1>4. ASSUME NEW n \in S PROVE n + 1 \in S
  <2> SUFFICES ASSUME n + 1 <= NOFILE PROVE Good(n + 1)
    OBVIOUS
  <2>1. n \in Nat /\ n <= NOFILE /\ n \in 0..NOFILE /\ n \in Fds /\ n >= n
    BY <1>2 DEF Fds
  <2>2. Good(n) /\ a[n + 1] = DupFd(a[n], p, q, n)
    BY <1>1, <1>4, <2>1, Zenon
  <2>3. /\ Sound(a[n + 1], Zero) /\ Others(a[n + 1], a[n], q)
        /\ \A c \in Fds : c # n => a[n + 1].ofile[q][c] = a[n].ofile[q][c]
    <3>1. Sound(a[n], Zero) /\ a[n].ofile[q][n] = NULL
      BY <2>1, <2>2, Zenon
    <3> DEFINE z == a[n]
    <3> HIDE DEF z
    <3>2. Sound(z, Zero) /\ z.ofile[q][n] = NULL /\ a[n + 1] = DupFd(z, p, q, n)
      BY <2>2, <3>1, Zenon DEF z
    <3>3. /\ Sound(DupFd(z, p, q, n), Zero) /\ Others(DupFd(z, p, q, n), z, q)
          /\ \A c \in Fds : c # n => DupFd(z, p, q, n).ofile[q][c] = z.ofile[q][c]
      BY <2>1, <3>2, DupFdSound
    <3> QED
      BY <3>2, <3>3 DEF z
  <2>4. \A c \in Fds : c >= n + 1 => c >= n /\ c # n
    BY <2>1 DEF Fds
  <2> QED
    BY <2>2, <2>3, <2>4, Zenon DEF Others
<1>5. NOFILE \in S /\ NOFILE <= NOFILE
  <2> HIDE DEF S
  <2>1. S \in SUBSET Nat
    BY Zenon DEF S
  <2> QED
    BY <1>2, <1>3, <1>4, <2>1, Induction
<1> QED
  BY <1>1, <1>5, Zenon

LEMMA ExitSound ==
  ASSUME FileConstants, NEW s, Sound(s, Zero), NEW p \in Procs
  PROVE  /\ Sound(ExitFiles(s, p), Zero) /\ Others(ExitFiles(s, p), s, p)
         /\ \A c \in Fds : ExitFiles(s, p).ofile[p][c] = NULL
<1>1. PICK a : /\ a[0] = s /\ a[NOFILE] = ExitFiles(s, p)
               /\ \A n \in 0..NOFILE : n + 1 <= NOFILE => a[n + 1] = CloseFd(a[n], p, n)
  BY ExitLoop
<1> DEFINE Good(n) == /\ Sound(a[n], Zero) /\ Others(a[n], s, p)
                      /\ \A c \in Fds : c < n => a[n].ofile[p][c] = NULL
           S == {n \in Nat : n <= NOFILE => Good(n)}
<1>2. NOFILE \in Nat
  BY DEF FileConstants
<1>3. 0 \in S
  <2>1. \A c \in Fds : ~(c < 0)
    BY <1>2 DEF Fds
  <2> QED
    BY <1>1, <2>1, Zenon DEF Others
<1>4. ASSUME NEW n \in S PROVE n + 1 \in S
  <2> SUFFICES ASSUME n + 1 <= NOFILE PROVE Good(n + 1)
    OBVIOUS
  <2>1. n \in Nat /\ n <= NOFILE /\ n \in 0..NOFILE /\ n \in Fds
    BY <1>2 DEF Fds
  <2>2. Good(n) /\ a[n + 1] = CloseFd(a[n], p, n)
    BY <1>1, <1>4, <2>1, Zenon
  <2>3. /\ Sound(a[n + 1], Zero) /\ Others(a[n + 1], a[n], p) /\ a[n + 1].ofile[p][n] = NULL
        /\ \A c \in Fds : c # n => a[n + 1].ofile[p][c] = a[n].ofile[p][c]
    <3> DEFINE z == a[n]
    <3> HIDE DEF z
    <3>1. Sound(z, Zero) /\ a[n + 1] = CloseFd(z, p, n)
      BY <2>2, Zenon DEF z
    <3>2. /\ Sound(CloseFd(z, p, n), Zero) /\ Others(CloseFd(z, p, n), z, p) /\ CloseFd(z, p, n).ofile[p][n] = NULL
          /\ \A c \in Fds : c # n => CloseFd(z, p, n).ofile[p][c] = z.ofile[p][c]
      BY <2>1, <3>1, CloseFdSound
    <3> QED
      BY <3>1, <3>2 DEF z
  <2>4. \A c \in Fds : c < n + 1 => c < n \/ c = n
    BY <2>1 DEF Fds
  <2> QED
    BY <2>2, <2>3, <2>4, Zenon DEF Others
<1>5. NOFILE \in S /\ NOFILE <= NOFILE
  <2> HIDE DEF S
  <2>1. S \in SUBSET Nat
    BY Zenon DEF S
  <2> QED
    BY <1>2, <1>3, <1>4, <2>1, Induction
<1>6. \A c \in Fds : c < NOFILE
  BY <1>2 DEF Fds
<1> QED
  BY <1>1, <1>5, <1>6, Zenon

-----------------------------------------------------------------------------
\* The inductive invariant: between two calls nobody has a reference in hand,
\* and a slot without a process has no files.
FInv == /\ TypeOK /\ Sound(t, Zero)
        /\ \A q \in Procs \ alive : \A d \in Fds : t.ofile[q][d] = NULL

\* kinit's list holds every page, once.
LEMMA AllListed ==
  ASSUME FileConstants
  PROVE  /\ Kinit \in Seq(Pages) /\ Once(Kinit)
         /\ \A g \in Pages : On(Kinit, g)
<1> DEFINE n == Cardinality(Pages)
           l == Kinit
<1>1. IsFiniteSet(Pages) /\ n \in Nat /\ ExistsBijection(1..n, Pages)
  BY FS_CardinalityType, Zenon DEF FileConstants
<1>2. \E f \in [1..n -> Pages] : IsInjective(f)
  BY <1>1, Zenon DEF ExistsBijection, Bijection, Injection
<1>3. l \in [1..n -> Pages] /\ IsInjective(l)
  BY <1>2, Zenon DEF Kinit
<1> HIDE DEF l
<1>4. IsFiniteSet(1..n) /\ Cardinality(1..n) = n
  BY <1>1, FS_Interval
<1>5. l \in Injection(1..n, Pages)
  BY <1>3, Zenon DEF Injection
<1>6. l \in Surjection(1..n, Pages)
  BY <1>1, <1>4, <1>5, FS_Injection, Zenon
<1>7. l \in Seq(Pages) /\ Len(l) = n
  BY <1>1, <1>3
<1>8. Once(l)
  BY <1>3, <1>7, Zenon DEF Once, IsInjective
<1>9. \A g \in Pages : On(l, g)
  BY <1>6, <1>7, Zenon DEF On, Surjection
<1> QED
  BY <1>7, <1>8, <1>9, Zenon DEF l

LEMMA InitSound ==
  ASSUME FileConstants, Init
  PROVE  FInv
<1>1. /\ t.ref_ = [f \in Files |-> 0] /\ t.ftype = [f \in Files |-> "None"]
      /\ t.pipe = [f \in Files |-> NULL] /\ t.writable = [f \in Files |-> FALSE]
      /\ t.ofile = [p \in Procs |-> [d \in Fds |-> NULL]]
      /\ t.readopen = [g \in Pages |-> FALSE] /\ t.writeopen = [g \in Pages |-> FALSE]
      /\ t.freelist = Kinit
  BY DEF Init
<1>2. Kinit \in Seq(Pages) /\ Once(Kinit) /\ \A g \in Pages : On(Kinit, g)
  BY AllListed, Zenon
<1>3. t \in Tables
  <2> HIDE DEF Files
  <2>1. 0 \in Nat
    OBVIOUS
  <2> QED
    BY <1>2, <2>1, Zenon DEF Init, Tables
<1>4. TypeOK
  BY <1>3, Zenon DEF Init, TypeOK, FileConstants
<1>5. Listed(t)
  BY <1>1, <1>2, Zenon DEF Listed
<1>6. Wired(t)
  <2>1. NULL \notin Pages /\ "None" # "Pipe"
    BY Zenon DEF FileConstants
  <2> QED
    BY <1>1, <2>1 DEF Wired
<1>7. Counted(t, Zero)
  <2> SUFFICES ASSUME NEW f \in Files PROVE t.ref_[f] = Cardinality(Users(t, f)) + Zero[f]
    BY Zenon DEF Counted
  <2>1. f # NULL
    BY DEF Files, NULL
  <2>2. Users(t, f) = {}
    BY <1>1, <2>1 DEF Users
  <2>3. Cardinality(Users(t, f)) = 0
    BY <2>2, FS_EmptySet, Zenon
  <2> QED
    BY <1>1, <2>3, ZeroFacts
<1>8. \A q \in Procs \ alive : \A d \in Fds : t.ofile[q][d] = NULL
  BY <1>1
<1> QED
  BY <1>3, <1>4, <1>5, <1>6, <1>7, <1>8, ZeroFacts, Zenon DEF FInv, Sound

\* The calls.
LEMMA DupSound ==
  ASSUME FileConstants, NEW s, Sound(s, Zero), NEW p \in Procs, NEW d \in Fds, s.ofile[p][d] # NULL,
         FreeFds(s, p) # {}
  PROVE  LET r == Filedup(Fdalloc(s, p, s.ofile[p][d]), s.ofile[p][d])
         IN Sound(r, Zero) /\ Others(r, s, p)
<1> DEFINE f == s.ofile[p][d]
           c == Min(FreeFds(s, p))
           x == PutFd(s, p, c, f)
<1>1. f \in Files
  BY Named, Zenon
<1>2. c \in Fds /\ s.ofile[p][c] = NULL
  BY NextFd, Zenon
<1>3. Fdalloc(s, p, f) = x
  BY Zenon DEF Fdalloc, PutFd
<1> HIDE DEF f, c
<1>4. Sound(x, Plus(Zero, f, -1))
  BY <1>1, <1>2, GiveFd, Zenon DEF PutFd
<1>5. s \in Tables
  BY Zenon DEF Sound
<1>6. Others(x, s, p)
  BY <1>2, <1>5, SetOthers, Zenon
<1> HIDE DEF x
<1>7. Sound(Filedup(x, f), Plus(Plus(Zero, f, -1), f, 1)) /\ Filedup(x, f).ofile = x.ofile
  BY <1>1, <1>4, UpRef, Zenon
<1>8. Plus(Plus(Zero, f, -1), f, 1) = Zero
  BY <1>1, ZeroFacts, PlusBack, Zenon
<1>9. Sound(Filedup(x, f), Zero) /\ Others(Filedup(x, f), s, p)
  BY <1>6, <1>7, <1>8, Zenon DEF Others
<1> QED
  BY <1>3, <1>9, Zenon DEF f

LEMMA CloseSound ==
  ASSUME FileConstants, NEW s, Sound(s, Zero), NEW p \in Procs, NEW d \in Fds, s.ofile[p][d] # NULL
  PROVE  LET r == Fileclose([s EXCEPT !.ofile[p][d] = NULL], s.ofile[p][d])
         IN Sound(r, Zero) /\ Others(r, s, p)
<1> DEFINE f == s.ofile[p][d]
           x == PutFd(s, p, d, NULL)
<1>1. f \in Files
  BY Named, Zenon
<1>2. Sound(x, Plus(Zero, f, 1))
  BY TakeFd, Zenon DEF PutFd
<1>3. s \in Tables
  BY Zenon DEF Sound
<1>4. Others(x, s, p)
  BY <1>3, SetOthers, Zenon
<1>5. Fileclose(x, f) = Fileclose([s EXCEPT !.ofile[p][d] = NULL], s.ofile[p][d])
  BY Zenon DEF PutFd
<1> HIDE DEF f, x
<1>6. Plus(Zero, f, 1)[f] > 0
  BY <1>1 DEF Plus, Zero
<1>7. x.ref_[f] > 0
  BY <1>1, <1>2, <1>6, Held, Zenon
<1>8. Sound(Fileclose(x, f), Plus(Plus(Zero, f, 1), f, -1)) /\ Fileclose(x, f).ofile = x.ofile
  BY <1>1, <1>2, <1>7, CloseRef, Zenon
<1>9. Plus(Plus(Zero, f, 1), f, -1) = Zero
  BY <1>1, ZeroFacts, PlusBack, Zenon
<1>10. Sound(Fileclose(x, f), Zero) /\ Others(Fileclose(x, f), s, p)
  BY <1>4, <1>8, <1>9, Zenon DEF Others
<1> QED
  BY <1>5, <1>10, Zenon

\* A call of one process keeps the other slots' descriptors.
LEMMA SlotsKept ==
  ASSUME FInv, NEW p \in Procs, Others(t', t, p), NEW a, alive \ {p} \subseteq a, p \in a \/ \A d \in Fds : t'.ofile[p][d] = NULL
  PROVE  \A q \in Procs \ a : \A d \in Fds : t'.ofile[q][d] = NULL
<1> SUFFICES ASSUME NEW q \in Procs \ a, NEW d \in Fds PROVE t'.ofile[q][d] = NULL
  BY Zenon
<1>1. CASE q = p
  BY <1>1, Zenon
<1>2. CASE q # p
  <2>1. q \notin alive /\ t'.ofile[q] = t.ofile[q]
    BY <1>2, Zenon DEF Others
  <2> QED
    BY <2>1, Zenon DEF FInv
<1> QED
  BY <1>1, <1>2, Zenon

LEMMA StepSound ==
  ASSUME FileConstants, FInv, [Next]_vars
  PROVE  FInv'
<1>0. TypeOK /\ Sound(t, Zero) /\ t \in Tables /\ alive \in SUBSET Procs /\ panicked \in BOOLEAN
  BY Zenon DEF FInv, TypeOK
\* What is left to show of a call of p.
<1>1. ASSUME NEW p \in Procs, Sound(t', Zero), Others(t', t, p), alive' \in SUBSET Procs, panicked' \in BOOLEAN,
             alive \ {p} \subseteq alive', p \in alive' \/ \A d \in Fds : t'.ofile[p][d] = NULL
      PROVE  FInv'
  <2>1. \A q \in Procs \ alive' : \A d \in Fds : t'.ofile[q][d] = NULL
    BY <1>1, SlotsKept, Zenon
  <2>2. TypeOK'
    BY <1>1, Zenon DEF TypeOK, Sound
  <2> QED
    BY <1>1, <2>1, <2>2, Zenon DEF FInv
<1>2. ASSUME UNCHANGED t, UNCHANGED alive, panicked' \in BOOLEAN PROVE FInv'
  BY <1>0, <1>2, Zenon DEF FInv, TypeOK
<1>3. ASSUME NEW p \in Procs, SysPipe(p) PROVE FInv'
  <2>1. CASE Cardinality(Free(t)) >= 2 /\ t.freelist = << >>
    BY <1>2, <1>3, <2>1, Zenon DEF SysPipe, Panic
  <2>2. CASE ~(Cardinality(Free(t)) >= 2 /\ t.freelist = << >>)
    <3>1. t' = PipeCall(t, p) /\ alive' = alive /\ panicked' = panicked /\ p \in alive
      BY <1>3, <2>2, Zenon DEF SysPipe
    <3>2. Sound(t', Zero) /\ Others(t', t, p)
      BY <1>0, <2>2, <3>1, PipeCallSound, Zenon
    <3> QED
      BY <1>0, <1>1, <3>1, <3>2, Zenon
  <2> QED
    BY <2>1, <2>2, Zenon
<1>4. ASSUME NEW p \in Procs, NEW d \in Fds, SysDup(p, d) PROVE FInv'
  <2>1. p \in alive /\ alive' = alive /\ panicked' = panicked /\ t.ofile[p][d] # NULL
    BY <1>4, Zenon DEF SysDup
  <2>2. CASE FreeFds(t, p) = {}
    BY <1>0, <1>2, <1>4, <2>1, <2>2, Zenon DEF SysDup
  <2>3. CASE FreeFds(t, p) # {}
    <3>1. t' = Filedup(Fdalloc(t, p, t.ofile[p][d]), t.ofile[p][d])
      BY <1>4, <2>3, Zenon DEF SysDup
    <3>2. Sound(t', Zero) /\ Others(t', t, p)
      BY <1>0, <2>1, <2>3, <3>1, DupSound, Zenon
    <3> QED
      BY <1>0, <1>1, <2>1, <3>2, Zenon
  <2> QED
    BY <2>2, <2>3, Zenon
<1>5. ASSUME NEW p \in Procs, NEW d \in Fds, SysClose(p, d) PROVE FInv'
  <2>1. /\ p \in alive /\ alive' = alive /\ panicked' = panicked /\ t.ofile[p][d] # NULL
        /\ t' = Fileclose([t EXCEPT !.ofile[p][d] = NULL], t.ofile[p][d])
    BY <1>5, Zenon DEF SysClose
  <2>2. Sound(t', Zero) /\ Others(t', t, p)
    BY <1>0, <2>1, CloseSound, Zenon
  <2> QED
    BY <1>0, <1>1, <2>1, <2>2, Zenon
<1>6. ASSUME NEW p \in Procs, NEW q \in Procs, Fork(p, q) PROVE FInv'
  <2>1. t' = ForkFiles(t, p, q) /\ q \notin alive /\ alive' = alive \cup {q} /\ panicked' = panicked
    BY <1>6, Zenon DEF Fork
  <2>2. \A d \in Fds : t.ofile[q][d] = NULL
    BY <2>1, Zenon DEF FInv
  <2>3. Sound(t', Zero) /\ Others(t', t, q)
    BY <1>0, <2>1, <2>2, ForkSound, Zenon
  <2>4. alive' \in SUBSET Procs /\ panicked' \in BOOLEAN /\ alive \ {q} \subseteq alive' /\ q \in alive'
    BY <1>0, <2>1, Zenon
  <2> QED
    BY <1>1, <2>3, <2>4, Zenon
<1>7. ASSUME NEW p \in Procs, Exit(p) PROVE FInv'
  <2>1. CASE p = INITPROC
    BY <1>2, <1>7, <2>1, Zenon DEF Exit, Panic
  <2>2. CASE p # INITPROC
    <3>1. t' = ExitFiles(t, p) /\ alive' = alive \ {p} /\ panicked' = panicked
      BY <1>7, <2>2, Zenon DEF Exit
    <3>2. Sound(t', Zero) /\ Others(t', t, p) /\ \A d \in Fds : t'.ofile[p][d] = NULL
      BY <1>0, <3>1, ExitSound
    <3>3. alive' \in SUBSET Procs /\ panicked' \in BOOLEAN /\ alive \ {p} \subseteq alive'
      BY <1>0, <3>1, Zenon
    <3> QED
      BY <1>1, <3>2, <3>3, Zenon
  <2> QED
    BY <2>1, <2>2, Zenon
<1>8. CASE UNCHANGED vars
  BY <1>0, <1>2, <1>8, Zenon DEF vars
<1> QED
  BY <1>3, <1>4, <1>5, <1>6, <1>7, <1>8, Zenon DEF Next, Halted

\* What the invariant says of references, ends and pages.
LEMMA SoundAgrees ==
  ASSUME FileConstants, FInv
  PROVE  FilesAgree
<1>0. t \in Tables /\ Counted(t, Zero) /\ Wired(t) /\ Listed(t)
  BY Zenon DEF FInv, Sound
<1>1. RefsMatch
  <2> SUFFICES ASSUME NEW f \in Files PROVE t.ref_[f] = Cardinality(Users(t, f))
    BY Zenon DEF RefsMatch, Users
  <2>1. t.ref_[f] = Cardinality(Users(t, f)) + 0
    BY <1>0, ZeroFacts, Zenon DEF Counted
  <2> QED
    BY <2>1, UsersFinite
<1>2. EndsMatch
  <2>1. \A f \in Files : t.pipe[f] # NULL => t.ref_[f] > 0
    BY <1>0 DEF Wired, Tables
  <2>2. NULL \notin Pages
    BY Zenon DEF FileConstants
  <2>3. \A f \in Files : \A g \in Pages : t.pipe[f] = g => t.ref_[f] > 0
    BY <2>1, <2>2, Zenon
  <2> QED
    BY <1>0, <2>3, Zenon DEF Wired, EndsMatch
<1>3. PagesConserved
  <2> SUFFICES ASSUME NEW g \in Pages
               PROVE  Cardinality({i \in 1..Len(t.freelist) : t.freelist[i] = g})
                        = IF t.readopen[g] \/ t.writeopen[g] THEN 0 ELSE 1
    BY Zenon DEF PagesConserved
  <2> DEFINE I == {i \in 1..Len(t.freelist) : t.freelist[i] = g}
  <2>1. CASE t.readopen[g] \/ t.writeopen[g]
    <3>1. I = {}
      BY <1>0, <2>1, Zenon DEF Listed, On
    <3> QED
      BY <2>1, <3>1, FS_EmptySet, Zenon
  <2>2. CASE ~(t.readopen[g] \/ t.writeopen[g])
    <3>1. PICK i \in 1..Len(t.freelist) : t.freelist[i] = g
      BY <1>0, <2>2, Zenon DEF Listed, On
    <3>2. I = {i}
      BY <1>0, <3>1, Zenon DEF Listed, Once
    <3> QED
      BY <2>2, <3>2, FS_Singleton, Zenon
  <2> QED
    BY <2>1, <2>2, Zenon
<1> QED
  BY <1>1, <1>2, <1>3, Zenon DEF FilesAgree

\* Through every sequence of pipe, dup, close, fork and exit, on any number of
\* processes, files, descriptors and pages, the reference count of a file is
\* the number of descriptors that name it, an end of a pipe is open exactly
\* as long as a file refers to it, and every page is in a pipe or on the free
\* list, once (filedup, fileclose, pipealloc with its cleanup, pipeclose,
\* sys_pipe, sys_dup, sys_close and the loops of fork and exit).
THEOREM FilesCounted ==
  ASSUME FileConstants
  PROVE  Spec => []FilesAgree
<1>1. Init => FInv
  BY InitSound, Zenon
<1>2. FInv /\ [Next]_vars => FInv'
  BY StepSound, Zenon
<1>3. FInv => FilesAgree
  BY SoundAgrees, Zenon
<1> QED
  BY <1>1, <1>2, <1>3, PTL DEF Spec
=============================================================================
