--------------------------- MODULE FileWriteProofs ---------------------------
(***************************************************************************)
(* Proofs about filewrite() of FileWrite.tla, for every number of writers, *)
(* every size of blocks, inode and log, and any requests that fit on the   *)
(* disk: what one chunk puts into the log, that balloc finds its blocks,   *)
(* and that the writers use the log as Log.tla lets operations use it.     *)
(***************************************************************************)
EXTENDS FileWrite, FiniteSetTheorems, WellFoundedInduction, TLAPS

\* A set of block numbers has a lowest one.
LEMMA LowestIn ==
  ASSUME NEW S \in SUBSET Nat, S # {}
  PROVE  Lowest(S) \in S
<1> DEFINE R == OpToRel(<, Nat)
<1>1. IsWellFoundedOn(R, Nat)
  BY NatLessThanWellFounded, Zenon
<1>2. \A x, y \in Nat : x < y => <<x, y>> \in R
  BY DEF OpToRel
<1> HIDE DEF R
<1>3. PICK b \in S : \A c \in S : ~ (<<c, b>> \in R)
  BY <1>1, WFMin, Zenon
<1>4. \A c \in S : b <= c
  <2> SUFFICES ASSUME NEW c \in S PROVE b <= c
    OBVIOUS
  <2>1. c \in Nat /\ b \in Nat
    OBVIOUS
  <2>2. ~ (c < b)
    BY <1>2, <1>3, <2>1, Zenon
  <2> QED
    BY <2>1, <2>2
<1> QED
  BY <1>4, Zenon DEF Lowest

\* A set grows by at most the element that is added.
LEMMA AddBound ==
  ASSUME NEW S, NEW x, IsFiniteSet(S)
  PROVE  /\ IsFiniteSet(S \cup {x})
         /\ Cardinality(S) \in Nat /\ Cardinality(S \cup {x}) \in Nat
         /\ Cardinality(S \cup {x}) <= Cardinality(S) + 1
<1>1. /\ IsFiniteSet(S \cup {x})
      /\ Cardinality(S \cup {x}) = IF x \in S THEN Cardinality(S) ELSE Cardinality(S) + 1
  BY FS_AddElement, Zenon
<1>2. Cardinality(S) \in Nat
  BY FS_CardinalityType
<1> QED
  BY <1>1, <1>2

\* The blocks of data that one chunk can fill, and those that a file can have.
Room  == (LOGSIZE - 4) \div 2
Quota == (Cardinality(DataBlocks) \div Cardinality(Procs)) - 2

FileTypeOK == /\ pc \in [Procs -> Pcs] /\ wrote \in [Procs -> SUBSET Blocks]
              /\ used \in SUBSET DataBlocks
              /\ addrs \in [Procs -> [Bns -> Blocks \cup {0}]]
              /\ ind \in [Procs -> Blocks \cup {0}]
              /\ off \in [Procs -> Nat] /\ left \in [Procs -> Nat] /\ chunk \in [Procs -> Nat]
              /\ todo \in [Procs -> Seq(Blocks)]

\* What is asked for fits in the file.
QuotaInv == \A p \in Procs : /\ chunk[p] <= left[p]
                             /\ left[p] > 0 => off[p] + left[p] <= Quota * BSIZE

\* A block in use is the indirect block or a block of data of some file.
Slot(p, j) == IF j = Quota THEN ind[p] ELSE addrs[p][j]
UsedInv    == \A b \in used : \E p \in Procs, j \in 0..Quota : b = Slot(p, j)

\* The blocks of data among those the operation has logged or is about to.
Elems(s)  == {s[i] : i \in 1..Len(s)}
DataOf(p) == (wrote[p] \cup Elems(todo[p])) \ ({Bitmap, InodeBlock} \cup ({ind[p]} \ {0}))

\* After k blocks the chunk is written, or the rest of it starts a block and
\* is less than the room that is left.
After(k, p) == \/ chunk[p] = 0
               \/ k = 0 /\ chunk[p] <= Room * BSIZE
               \/ k > 0 /\ off[p] % BSIZE = 0 /\ chunk[p] < (Room + 1 - k) * BSIZE

ChunkInv(p) == /\ pc[p] # "op" => todo[p] = <<>>
               /\ pc[p] = "op" => \E k \in 0..(Room + 1) : Cardinality(DataOf(p)) <= k /\ After(k, p)

FileInv == FileTypeOK /\ QuotaInv /\ UsedInv /\ \A p \in Procs : ChunkInv(p)

USE LogConstants DEF LogConstants
USE FileConstants DEF FileConstants

\* filewrite's chunk is a whole number of blocks.
LEMMA RoomFacts == Room \in Nat /\ MaxChunk = Room * BSIZE /\ MaxChunk \div BSIZE = Room
<1>1. Room \in Nat
  BY DEF Room
<1>2. LOGSIZE - 1 - 1 - 2 = LOGSIZE - 4
  OBVIOUS
<1>3. MaxChunk = Room * BSIZE
  BY <1>2 DEF MaxChunk, Room
<1>4. ASSUME NEW n \in Nat, NEW d \in Nat \ {0} PROVE (n * d) \div d = n
  BY <1>4
<1> QED
  BY <1>1, <1>3, <1>4, Zenon

\* A file has blocks only at its indices.
LEMMA QuotaFacts ==
  ASSUME NEW p \in Procs
  PROVE  /\ Cardinality(DataBlocks) \in Nat /\ IsFiniteSet(DataBlocks)
         /\ Cardinality(Procs) \in Nat \ {0}
         /\ Quota \in Int /\ Cardinality(Procs) * (Quota + 1) <= Cardinality(DataBlocks) - 1
         /\ Quota <= Cardinality(DataBlocks)
<1>1. Cardinality(DataBlocks) \in Nat /\ IsFiniteSet(DataBlocks)
  BY FS_Subset, FS_CardinalityType, Zenon
<1>2. Cardinality(Procs) \in Nat \ {0}
  BY FS_CardinalityType, FS_EmptySet
<1>3. ASSUME NEW d \in Nat, NEW n \in Nat \ {0}
      PROVE  /\ (d \div n) \in Nat /\ n * (d \div n) <= d /\ d \div n <= d
             /\ n * ((d \div n) - 2 + 1) <= d - 1
  <2>1. (d \div n) \in Nat /\ n * (d \div n) <= d /\ d \div n <= d
    BY <1>3
  <2> DEFINE q == d \div n
  <2>2. q \in Nat /\ n * q <= d
    BY <2>1
  <2> HIDE DEF q
  <2>3. n * (q - 2 + 1) = n * q - n
    BY <2>2
  <2>4. n * (q - 2 + 1) <= d - 1
    BY <2>2, <2>3
  <2> QED
    BY <2>1, <2>4, Zenon DEF q
<1>4. /\ Quota \in Int /\ Quota <= Cardinality(DataBlocks)
      /\ Cardinality(Procs) * (Quota + 1) <= Cardinality(DataBlocks) - 1
  <2> DEFINE D == Cardinality(DataBlocks)
             N == Cardinality(Procs)
  <2>1. D \in Nat /\ N \in Nat \ {0} /\ Quota = (D \div N) - 2
    BY <1>1, <1>2 DEF Quota
  <2> HIDE DEF D, N
  <2>2. (D \div N) \in Nat /\ D \div N <= D /\ N * ((D \div N) - 2 + 1) <= D - 1
    BY <1>3, <2>1, Zenon
  <2>3. Quota \in Int /\ Quota <= D /\ N * (Quota + 1) <= D - 1
    BY <2>1, <2>2
  <2> QED
    BY <2>3, Zenon DEF D, N
<1> QED
  BY <1>1, <1>2, <1>4

\* While a slot of some file is empty, two blocks are free.
LEMMA EnoughFree ==
  ASSUME FileTypeOK, UsedInv, NEW p \in Procs, NEW j \in 0..Quota, Slot(p, j) = 0
  PROVE  /\ Free \in SUBSET DataBlocks /\ IsFiniteSet(Free)
         /\ Cardinality(Free) \in Nat /\ Cardinality(Free) >= 2
<1> DEFINE A == Procs \X (0..Quota)
           S == A \ {<<p, j>>}
           f == [s \in S |-> Slot(s[1], s[2])]
           T == {f[s] : s \in S}
           D == Cardinality(DataBlocks)
           N == Cardinality(Procs)
<1>1. /\ D \in Nat /\ IsFiniteSet(DataBlocks) /\ N \in Nat \ {0}
      /\ Quota \in Nat /\ N * (Quota + 1) <= D - 1
  BY QuotaFacts
<1>2. IsFiniteSet(A) /\ Cardinality(A) = N * (Quota + 1)
  <2>1. IsFiniteSet(0..Quota) /\ Cardinality(0..Quota) = Quota + 1
    <3>1. 0 \in Int /\ Quota \in Int /\ ~(0 > Quota) /\ Quota - 0 + 1 = Quota + 1
      BY <1>1
    <3> QED
      BY <3>1, FS_Interval, Zenon
  <2> QED
    BY <2>1, FS_Product, Zenon
<1>3. IsFiniteSet(S) /\ Cardinality(S) = N * (Quota + 1) - 1
  <2>1. <<p, j>> \in A
    OBVIOUS
  <2> HIDE DEF A
  <2>2. IsFiniteSet(S) /\ Cardinality(S) = Cardinality(A) - 1
    BY <1>2, <2>1, FS_RemoveElement, Zenon
  <2> QED
    BY <1>2, <2>2
<1>4. IsFiniteSet(T) /\ Cardinality(T) <= N * (Quota + 1) - 1 /\ Cardinality(T) \in Nat
  <2>1. f \in Surjection(S, T)
    BY Zenon DEF Surjection
  <2> HIDE DEF S, T, f
  <2> QED
    BY <1>3, <2>1, FS_Surjection, FS_CardinalityType
<1>5. used \in SUBSET T
  <2> SUFFICES ASSUME NEW b \in used PROVE b \in T
    OBVIOUS
  <2>1. PICK q \in Procs, i \in 0..Quota : b = Slot(q, i)
    BY DEF UsedInv
  <2>2. b # 0
    BY DEF FileTypeOK
  <2>3. <<q, i>> \in S
    BY <2>1, <2>2
  <2>4. f[<<q, i>>] = b
    BY <2>1, <2>3, Zenon
  <2> QED
    BY <2>3, <2>4, Zenon
<1> HIDE DEF A, S, T, f
<1>6. IsFiniteSet(used) /\ Cardinality(used) \in Nat /\ Cardinality(used) <= N * (Quota + 1) - 1
  BY <1>4, <1>5, FS_Subset, FS_CardinalityType, <1>1
<1>7. Free \in SUBSET DataBlocks /\ IsFiniteSet(Free) /\ Cardinality(Free) \in Nat
  BY <1>1, FS_Subset, FS_CardinalityType, Zenon DEF Free
<1>8. D = Cardinality(Free) + Cardinality(used)
  <2>1. Free \cup used = DataBlocks /\ Free \cap used = {}
    BY Zenon DEF Free, FileTypeOK
  <2>2. Cardinality(Free \cup used) = Cardinality(Free) + Cardinality(used) - Cardinality(Free \cap used)
    BY <1>6, <1>7, FS_Union
  <2>3. Cardinality(Free \cap used) = 0
    BY <2>1, FS_EmptySet, Zenon
  <2>4. Cardinality(DataBlocks) = Cardinality(Free) + Cardinality(used) - 0
    BY <2>1, <2>2, <2>3, Zenon
  <2> QED
    BY <1>6, <1>7, <2>4
<1> HIDE DEF D, N
<1>9. N * (Quota + 1) \in Int
  BY <1>1
<1> QED
  BY <1>1, <1>6, <1>7, <1>8, <1>9

\* Joining two lists of log_writes.
LEMMA ConcatElems ==
  ASSUME NEW s \in Seq(Blocks), NEW t \in Seq(Blocks)
  PROVE  s \o t \in Seq(Blocks) /\ Elems(s \o t) = Elems(s) \cup Elems(t)
<1>1. s \o t \in Seq(Blocks) /\ Len(s \o t) = Len(s) + Len(t) /\ Len(s) \in Nat /\ Len(t) \in Nat
  OBVIOUS
<1>2. \A i \in 1..Len(s) : (s \o t)[i] = s[i]
  OBVIOUS
<1>3. \A i \in 1..Len(t) : (s \o t)[Len(s) + i] = t[i] /\ Len(s) + i \in 1..(Len(s) + Len(t))
  OBVIOUS
<1>4. \A i \in 1..(Len(s) + Len(t)) : i \in 1..Len(s) \/ (i - Len(s) \in 1..Len(t) /\ (s \o t)[i] = t[i - Len(s)])
  OBVIOUS
<1>5. \A x \in Elems(s \o t) : x \in Elems(s) \/ x \in Elems(t)
  BY <1>1, <1>2, <1>4, ZenonT(30) DEF Elems
<1>6. \A x \in Elems(s) : x \in Elems(s \o t)
  <2>1. \A i \in 1..Len(s) : i \in 1..Len(s \o t)
    BY <1>1
  <2> QED
    BY <2>1, <1>2, Zenon DEF Elems
<1>7. \A x \in Elems(t) : x \in Elems(s \o t)
  BY <1>1, <1>3, Zenon DEF Elems
<1> QED
  BY <1>1, <1>5, <1>6, <1>7, Zenon

\* The blocks in a list of log_writes.
LEMMA ElemsFacts ==
  /\ Elems(<<>>) = {}
  /\ \A a : Elems(<<a>>) = {a}
  /\ \A a, b : Elems(<<a, b>>) = {a, b}
  /\ \A s \in Seq(Blocks) : s # <<>> => /\ Head(s) \in Blocks /\ Tail(s) \in Seq(Blocks)
                                        /\ Elems(s) = {Head(s)} \cup Elems(Tail(s))
  /\ \A s \in Seq(Blocks) : Elems(s) \in SUBSET Blocks
<1>1. Elems(<<>>) = {} /\ (\A a : Elems(<<a>>) = {a}) /\ (\A a, b : Elems(<<a, b>>) = {a, b})
  BY DEF Elems
<1>2. ASSUME NEW s \in Seq(Blocks), s # <<>>
      PROVE  Head(s) \in Blocks /\ Tail(s) \in Seq(Blocks) /\ Elems(s) = {Head(s)} \cup Elems(Tail(s))
  <2> DEFINE h == Head(s)
             t == Tail(s)
  <2>1. Len(s) \in Nat \ {0} /\ h = s[1] /\ s[1] \in Blocks /\ t \in Seq(Blocks) /\ Len(t) = Len(s) - 1
    BY <1>2
  <2>2. \A i \in 1..(Len(s) - 1) : t[i] = s[i + 1]
    BY <1>2
  <2> HIDE DEF h, t
  <2>3. \A i \in 1..Len(s) : i = 1 \/ (i - 1 \in 1..Len(t) /\ s[i] = t[i - 1])
    BY <2>1, <2>2
  <2>4. \A i \in 1..Len(t) : i + 1 \in 1..Len(s) /\ t[i] = s[i + 1]
    BY <2>1, <2>2
  <2>5. 1 \in 1..Len(s)
    BY <2>1
  <2>6. \A x \in Elems(s) : x = h \/ x \in Elems(t)
    <3> SUFFICES ASSUME NEW x \in Elems(s) PROVE x = h \/ x \in Elems(t)
      OBVIOUS
    <3>1. PICK i \in 1..Len(s) : x = s[i]
      BY DEF Elems
    <3>2. \A k \in 1..Len(t) : t[k] \in Elems(t)
      BY DEF Elems
    <3> QED
      BY <2>1, <2>3, <3>1, <3>2, Zenon
  <2>7. h \in Elems(s) /\ \A x \in Elems(t) : x \in Elems(s)
    BY <2>1, <2>4, <2>5, Zenon DEF Elems
  <2>8. h \in Blocks /\ t \in Seq(Blocks) /\ Elems(s) = {h} \cup Elems(t)
    BY <2>1, <2>6, <2>7, Zenon
  <2> QED
    BY <2>8 DEF h, t
<1>3. \A s \in Seq(Blocks) : Elems(s) \in SUBSET Blocks
  BY DEF Elems
<1> QED
  BY <1>1, <1>2, <1>3, Zenon

\* bmap finds a block for every index, allocates only what the file lacks, and
\* logs only the free map, the block and the indirect block.
LEMMA BmapFacts ==
  ASSUME FileTypeOK, UsedInv, NEW p \in Procs, NEW bn \in 0..(Quota - 1), bn \in Bns
  PROVE  /\ ~(Need(p, bn) > Cardinality(Free))
         /\ Bmap(p, bn).block \in Blocks
         /\ addrs[p][bn] # 0 => Bmap(p, bn).block = addrs[p][bn]
         /\ Bmap(p, bn).indirect # 0 => /\ Bmap(p, bn).indirect \in Blocks
                                        /\ ind[p] # 0 => Bmap(p, bn).indirect = ind[p]
         /\ Bmap(p, bn).new \in SUBSET DataBlocks
         /\ \A b \in Bmap(p, bn).new : b = Bmap(p, bn).block \/ b = Bmap(p, bn).indirect
         /\ Bmap(p, bn).logs \in Seq(Blocks)
         /\ Elems(Bmap(p, bn).logs) \subseteq {Bitmap, Bmap(p, bn).block} \cup ({Bmap(p, bn).indirect} \ {0})
<1> DEFINE direct == bn < NDIRECT
           i      == IF direct THEN 0 ELSE IF ind[p] = 0 THEN Lowest(Free) ELSE ind[p]
           newi   == IF ~direct /\ ind[p] = 0 THEN {i} ELSE {}
           b      == IF addrs[p][bn] = 0 THEN Lowest(Free \ newi) ELSE addrs[p][bn]
           newb   == IF addrs[p][bn] = 0 THEN {b} ELSE {}
           L1     == IF newi # {} THEN <<Bitmap, i>> ELSE <<>>
           L2     == IF newb # {} THEN <<Bitmap, b>> ELSE <<>>
           L3     == IF newb # {} /\ ~direct THEN <<i>> ELSE <<>>
<1>1. /\ Bmap(p, bn).block = b /\ Bmap(p, bn).indirect = i /\ Bmap(p, bn).new = newi \cup newb
      /\ Bmap(p, bn).logs = L1 \o L2 \o L3
  BY Zenon DEF Bmap
<1>2. /\ addrs[p][bn] \in Blocks \cup {0} /\ ind[p] \in Blocks \cup {0} /\ Bitmap \in Blocks
      /\ bn \in Nat /\ Quota \in Nat /\ bn # Quota /\ bn \in 0..Quota /\ Quota \in 0..Quota
  BY QuotaFacts DEF FileTypeOK
<1>3. ASSUME addrs[p][bn] = 0 \/ ind[p] = 0
      PROVE  /\ Free \in SUBSET DataBlocks /\ IsFiniteSet(Free)
             /\ Cardinality(Free) \in Nat /\ Cardinality(Free) >= 2
  <2>1. addrs[p][bn] = Slot(p, bn) /\ ind[p] = Slot(p, Quota)
    BY <1>2, Zenon DEF Slot
  <2> QED
    BY <1>2, <1>3, <2>1, EnoughFree, Zenon
<1>4. ~(Need(p, bn) > Cardinality(Free))
  <2>1. CASE addrs[p][bn] = 0 \/ ind[p] = 0
    BY <1>3, <2>1 DEF Need
  <2>2. CASE ~(addrs[p][bn] = 0 \/ ind[p] = 0)
    <3>1. Need(p, bn) = 0
      BY <2>2 DEF Need
    <3>2. Cardinality(Free) \in Nat
      BY QuotaFacts, FS_Subset, FS_CardinalityType, Zenon DEF Free
    <3> QED
      BY <3>1, <3>2
  <2> QED
    BY <2>1, <2>2, Zenon
<1>5. ~direct => i \in Blocks /\ i # 0 /\ (ind[p] # 0 => i = ind[p]) /\ (ind[p] = 0 => i \in Free)
  <2>1. CASE ind[p] = 0
    <3>1. Free \in SUBSET Nat /\ Free # {} /\ 0 \notin Free /\ Free \in SUBSET Blocks
      <4>1. Free # {}
        BY <1>3, <2>1, FS_EmptySet
      <4>2. Free \in SUBSET DataBlocks
        BY <1>3, <2>1, Zenon
      <4> QED
        BY <4>1, <4>2, Zenon
    <3> QED
      BY <2>1, <3>1, LowestIn, Zenon
  <2>2. CASE ind[p] # 0
    BY <1>2, <2>2, Zenon
  <2> QED
    BY <2>1, <2>2, Zenon
<1>6. b \in Blocks /\ (addrs[p][bn] # 0 => b = addrs[p][bn]) /\ (addrs[p][bn] = 0 => b \in Free)
  <2>1. CASE addrs[p][bn] = 0
    <3>1. Free \in SUBSET Nat /\ Free \in SUBSET Blocks
      BY <1>3, <2>1, Zenon
    <3>2. Free \ newi # {}
      <4>1. \A x : Free # {x}
        <5>1. Cardinality(Free) # 1
          BY <1>3, <2>1
        <5> QED
          BY <5>1, FS_Singleton, Zenon
      <4>2. Free # {}
        BY <1>3, <2>1, FS_EmptySet
      <4> QED
        BY <4>1, <4>2, Zenon
    <3> HIDE DEF newi
    <3> QED
      BY <2>1, <3>1, <3>2, LowestIn, Zenon
  <2>2. CASE addrs[p][bn] # 0
    BY <1>2, <2>2, Zenon
  <2> QED
    BY <2>1, <2>2, Zenon
<1>7. newi \cup newb \in SUBSET DataBlocks /\ \A x \in newi \cup newb : x = b \/ x = i
  BY <1>5, <1>6, Zenon DEF Free
<1>8. direct => i = 0
  OBVIOUS
<1>9. L1 \in Seq(Blocks) /\ Elems(L1) \subseteq {Bitmap} \cup ({i} \ {0})
  BY <1>2, <1>5, ElemsFacts
<1>10. L2 \in Seq(Blocks) /\ Elems(L2) \subseteq {Bitmap, b}
  <2>1. <<>> \in Seq(Blocks) /\ <<Bitmap, b>> \in Seq(Blocks)
    BY <1>2, <1>6
  <2> HIDE DEF b
  <2> QED
    BY <2>1, ElemsFacts
<1>11. L3 \in Seq(Blocks) /\ Elems(L3) \subseteq {i} \ {0}
  BY <1>2, <1>5, ElemsFacts
<1>12. i # 0 => i \in Blocks /\ (ind[p] # 0 => i = ind[p])
  BY <1>5, <1>8, Zenon
<1> HIDE DEF direct, i, newi, b, newb, L1, L2, L3
<1>13. L1 \o L2 \o L3 \in Seq(Blocks) /\ Elems(L1 \o L2 \o L3) = Elems(L1) \cup Elems(L2) \cup Elems(L3)
  <2>1. L1 \o L2 \in Seq(Blocks) /\ Elems(L1 \o L2) = Elems(L1) \cup Elems(L2)
    BY <1>9, <1>10, ConcatElems, Zenon
  <2> QED
    BY <1>11, <2>1, ConcatElems, Zenon
<1> QED
  BY <1>1, <1>4, <1>6, <1>7, <1>9, <1>10, <1>11, <1>12, <1>13

\* A process that the step leaves alone.
LEMMA LeftAlone ==
  ASSUME NEW p \in Procs, ChunkInv(p), pc'[p] = "op" <=> pc[p] = "op", wrote'[p] = wrote[p],
         todo'[p] = todo[p], ind'[p] = ind[p], off'[p] = off[p], chunk'[p] = chunk[p]
  PROVE  ChunkInv(p)'
BY Zenon DEF ChunkInv, DataOf, After

\* The arithmetic of writei: the block an offset lies in, and the bytes that go there.
LEMMA BlockOf ==
  ASSUME NEW n \in Nat, NEW q \in Int, n < q * BSIZE
  PROVE  n \div BSIZE \in 0..(q - 1)
<1> DEFINE d == n \div BSIZE
           m == n % BSIZE
<1>1. d \in Nat /\ m \in Nat /\ n = BSIZE * d + m
  OBVIOUS
<1> HIDE DEF d, m
<1>2. d < q
  <2> SUFFICES ASSUME d >= q PROVE FALSE
    BY <1>1
  <2>1. BSIZE * d >= BSIZE * q
    BY <1>1
  <2> QED
    BY <1>1, <2>1
<1> QED
  BY <1>1, <1>2 DEF d

\* writei stops at the end of a block or of the chunk.
LEMMA BytesInBlock ==
  ASSUME NEW n \in Nat, NEW c \in Nat \ {0}
  PROVE  LET m == Smaller(c, BSIZE - (n % BSIZE))
         IN  /\ m \in 1..c
             /\ m # c => (n + m) % BSIZE = 0
             /\ m # c /\ n % BSIZE = 0 => m = BSIZE
<1> DEFINE r == n % BSIZE
           d == n \div BSIZE
           m == Smaller(c, BSIZE - r)
<1>1. r \in 0..(BSIZE - 1) /\ d \in Nat /\ n = BSIZE * d + r
  OBVIOUS
<1>2. ASSUME NEW k \in Nat PROVE (BSIZE * k) % BSIZE = 0
  BY <1>2
<1> HIDE DEF r, d
<1>3. m \in 1..c /\ (m # c => m = BSIZE - r) /\ (m # c /\ r = 0 => m = BSIZE)
  BY <1>1 DEF Smaller
<1>4. m # c => n + m = BSIZE * (d + 1)
  BY <1>1, <1>3
<1>5. m # c => (n + m) % BSIZE = 0
  BY <1>1, <1>2, <1>4
<1> QED
  BY <1>3, <1>5, Zenon DEF r

\* One more block of a chunk: the room for it was there.
LEMMA RoomStep ==
  ASSUME NEW k \in 0..(Room + 1), NEW c \in Nat \ {0}, NEW n \in Nat, NEW m \in 1..c,
         \/ k = 0 /\ c <= Room * BSIZE
         \/ k > 0 /\ n % BSIZE = 0 /\ c < (Room + 1 - k) * BSIZE,
         m # c => (n + m) % BSIZE = 0,
         m # c /\ n % BSIZE = 0 => m = BSIZE
  PROVE  /\ k + 1 \in 0..(Room + 1)
         /\ \/ c - m = 0
            \/ (n + m) % BSIZE = 0 /\ c - m < (Room + 1 - (k + 1)) * BSIZE
<1>1. Room \in Nat
  BY RoomFacts, Zenon
<1>2. k + 1 \in 0..(Room + 1)
  <2>1. CASE k = 0
    BY <1>1, <2>1
  <2>2. CASE k > 0
    <3> SUFFICES ASSUME k = Room + 1 PROVE FALSE
      BY <1>1
    <3>1. (Room + 1 - k) * BSIZE = 0
      BY <1>1
    <3> QED
      BY <2>2, <3>1
  <2> QED
    BY <2>1, <2>2, Zenon
<1>3. (Room + 1 - (k + 1)) * BSIZE = (Room + 1 - k) * BSIZE - BSIZE
  BY <1>1
<1>4. ASSUME m # c PROVE c - m < (Room + 1 - (k + 1)) * BSIZE
  <2>1. CASE k = 0
    <3>1. (Room + 1 - (k + 1)) * BSIZE = Room * BSIZE
      BY <1>1, <2>1
    <3>2. Room * BSIZE \in Int
      BY <1>1
    <3> QED
      BY <2>1, <3>1, <3>2
  <2>2. CASE k > 0
    <3>1. (Room + 1 - k) * BSIZE \in Int
      BY <1>1
    <3> QED
      BY <1>3, <1>4, <2>2, <3>1
  <2> QED
    BY <2>1, <2>2, Zenon
<1> QED
  BY <1>2, <1>4

\* The next bytes of a write go to a block that the file may have.
LEMMA NextIndex ==
  ASSUME FileInv, NEW p \in Procs, chunk[p] > 0
  PROVE  /\ off[p] \div BSIZE \in 0..(Quota - 1) /\ off[p] \div BSIZE \in Bns /\ Quota \in Nat
         /\ off[p] \in Nat /\ chunk[p] \in Nat \ {0} /\ left[p] \in Nat /\ chunk[p] <= left[p]
         /\ off[p] + left[p] <= Quota * BSIZE
<1> DEFINE bn == off[p] \div BSIZE
<1>1. off[p] \in Nat /\ chunk[p] \in Nat /\ left[p] \in Nat
  BY Zenon DEF FileInv, FileTypeOK
<1>2. chunk[p] <= left[p] /\ off[p] + left[p] <= Quota * BSIZE
  BY <1>1 DEF FileInv, QuotaInv
<1>3. Quota \in Int /\ Quota <= Cardinality(DataBlocks) /\ Cardinality(DataBlocks) \in Nat
  BY QuotaFacts, Zenon
<1>4. Quota * BSIZE \in Int
  BY <1>3
<1>5. off[p] < Quota * BSIZE
  BY <1>1, <1>2, <1>4
<1>6. bn \in 0..(Quota - 1)
  BY <1>1, <1>3, <1>5, BlockOf, Zenon
<1>7. bn \in Bns /\ Quota \in Nat
  <2> HIDE DEF bn
  <2> QED
    BY <1>3, <1>6 DEF Bns
<1> QED
  BY <1>1, <1>2, <1>6, <1>7

\* An iteration of writei never runs out of blocks, and keeps the books.
LEMMA WriteBlockStep ==
  ASSUME FileInv, NEW p \in Procs, WriteBlock(p)
  PROVE  FileInv' /\ UNCHANGED vars
<1> DEFINE bn == off[p] \div BSIZE
           m  == Smaller(chunk[p], BSIZE - (off[p] % BSIZE))
           r  == Bmap(p, bn)
           L  == r.logs \o <<r.block>> \o (IF chunk[p] = m THEN <<InodeBlock>> ELSE <<>>)
<1>1. /\ FileTypeOK /\ QuotaInv /\ UsedInv /\ (\A q \in Procs : ChunkInv(q))
      /\ pc[p] = "op" /\ todo[p] = <<>>
      /\ off[p] \in Nat /\ chunk[p] \in Nat \ {0} /\ left[p] \in Nat /\ chunk[p] <= left[p]
      /\ off[p] + left[p] <= Quota * BSIZE
  <2>1. FileTypeOK /\ QuotaInv /\ UsedInv /\ \A q \in Procs : ChunkInv(q)
    BY Zenon DEF FileInv
  <2>2. pc[p] = "op" /\ todo[p] = <<>> /\ chunk[p] > 0
    BY Zenon DEF WriteBlock
  <2> QED
    BY <2>1, <2>2, NextIndex, Zenon
<1>2. bn \in 0..(Quota - 1) /\ bn \in Bns /\ Quota \in Nat
  BY <1>1, NextIndex
<1>3. /\ m \in 1..chunk[p]
      /\ m # chunk[p] => (off[p] + m) % BSIZE = 0
      /\ m # chunk[p] /\ off[p] % BSIZE = 0 => m = BSIZE
  BY <1>1, BytesInBlock, Zenon
<1> HIDE DEF bn
<1>4. /\ ~(Need(p, bn) > Cardinality(Free))
      /\ r.block \in Blocks
      /\ addrs[p][bn] # 0 => r.block = addrs[p][bn]
      /\ r.indirect # 0 => r.indirect \in Blocks /\ (ind[p] # 0 => r.indirect = ind[p])
      /\ r.new \in SUBSET DataBlocks
      /\ \A b \in r.new : b = r.block \/ b = r.indirect
      /\ r.logs \in Seq(Blocks)
      /\ Elems(r.logs) \subseteq {Bitmap, r.block} \cup ({r.indirect} \ {0})
  BY <1>1, <1>2, BmapFacts, Zenon
<1>5. /\ todo' = [todo EXCEPT ![p] = L]
      /\ used' = used \cup r.new
      /\ addrs' = [addrs EXCEPT ![p][bn] = r.block]
      /\ ind' = IF r.indirect = 0 THEN ind ELSE [ind EXCEPT ![p] = r.indirect]
      /\ off' = [off EXCEPT ![p] = @ + m]
      /\ chunk' = [chunk EXCEPT ![p] = @ - m]
      /\ left' = [left EXCEPT ![p] = @ - m]
      /\ UNCHANGED vars
  BY <1>4, Zenon DEF WriteBlock, bn
<1>6. pc' = pc /\ wrote' = wrote
  BY <1>5, Zenon DEF vars
<1>7. L \in Seq(Blocks) /\ Elems(L) \subseteq {Bitmap, InodeBlock, r.block} \cup ({r.indirect} \ {0})
  <2> DEFINE e == IF chunk[p] = m THEN <<InodeBlock>> ELSE <<>>
             s == r.logs \o <<r.block>>
  <2>1. <<r.block>> \in Seq(Blocks) /\ Elems(<<r.block>>) = {r.block}
    BY <1>4, ElemsFacts, SMTT(30)
  <2>2. e \in Seq(Blocks) /\ Elems(e) \subseteq {InodeBlock}
    BY ElemsFacts
  <2> HIDE DEF r, e
  <2>3. s \in Seq(Blocks) /\ Elems(s) = Elems(r.logs) \cup {r.block}
    BY <1>4, <2>1, ConcatElems, Zenon
  <2> HIDE DEF s
  <2>4. s \o e \in Seq(Blocks) /\ Elems(s \o e) = Elems(s) \cup Elems(e)
    BY <2>2, <2>3, ConcatElems, Zenon
  <2>5. L = s \o e
    BY Zenon DEF s, e
  <2> HIDE DEF L
  <2> QED
    BY <1>4, <2>2, <2>3, <2>4, <2>5, Zenon
<1> HIDE DEF m, r, L
<1>8. FileTypeOK'
  <2>1. used' \in SUBSET DataBlocks /\ addrs' \in [Procs -> [Bns -> Blocks \cup {0}]]
    BY <1>1, <1>2, <1>4, <1>5, Zenon DEF FileTypeOK
  <2>2. ind' \in [Procs -> Blocks \cup {0}]
    BY <1>1, <1>4, <1>5, Zenon DEF FileTypeOK
  <2>3. off' \in [Procs -> Nat] /\ left' \in [Procs -> Nat] /\ chunk' \in [Procs -> Nat]
    BY <1>1, <1>3, <1>5, SMTT(30) DEF FileTypeOK
  <2>4. todo' \in [Procs -> Seq(Blocks)]
    BY <1>1, <1>5, <1>7, Zenon DEF FileTypeOK
  <2> QED
    BY <1>1, <1>6, <2>1, <2>2, <2>3, <2>4, Zenon DEF FileTypeOK
<1>9. QuotaInv'
  <2> SUFFICES ASSUME NEW q \in Procs
               PROVE  /\ chunk'[q] <= left'[q]
                      /\ left'[q] > 0 => off'[q] + left'[q] <= Quota * BSIZE
    BY Zenon DEF QuotaInv
  <2>0. Quota * BSIZE \in Int
    BY <1>2
  <2>1. CASE q = p
    <3>1. off'[p] = off[p] + m /\ chunk'[p] = chunk[p] - m /\ left'[p] = left[p] - m
      BY <1>1, <1>5, Zenon DEF FileTypeOK
    <3> QED
      BY <1>1, <1>3, <2>0, <2>1, <3>1, SMTT(30)
  <2>2. CASE q # p
    <3>1. off'[q] = off[q] /\ chunk'[q] = chunk[q] /\ left'[q] = left[q]
      BY <1>1, <1>5, <2>2, Zenon DEF FileTypeOK
    <3> QED
      BY <1>1, <3>1, Zenon DEF QuotaInv
  <2> QED
    BY <2>1, <2>2, Zenon
<1>10. UsedInv'
  <2> SUFFICES ASSUME NEW b \in used' PROVE \E q \in Procs, j \in 0..Quota : b = Slot(q, j)'
    BY Zenon DEF UsedInv
  <2>1. /\ addrs'[p][bn] = r.block
        /\ \A q \in Procs, j \in Bns : (q # p \/ j # bn) => addrs'[q][j] = addrs[q][j]
    BY <1>1, <1>2, <1>5, Zenon DEF FileTypeOK
  <2>2. /\ r.indirect # 0 => ind'[p] = r.indirect
        /\ ind[p] # 0 => ind'[p] = ind[p]
        /\ \A q \in Procs : q # p => ind'[q] = ind[q]
    BY <1>1, <1>4, <1>5, Zenon DEF FileTypeOK
  <2>3. Quota \in 0..Quota /\ bn \in 0..Quota /\ bn # Quota /\ (0..Quota) \in SUBSET Bns
    <3>1. Quota <= Cardinality(DataBlocks) /\ Cardinality(DataBlocks) \in Nat
      BY QuotaFacts, Zenon
    <3> QED
      BY <1>2, <3>1 DEF Bns
  <2>4. b # 0
    BY <1>8, Zenon DEF FileTypeOK
  <2>5. CASE b \in used
    <3>1. PICK q \in Procs, j \in 0..Quota : b = Slot(q, j)
      BY <1>1, <2>5, Zenon DEF UsedInv
    <3>2. b = Slot(q, j)'
      BY <1>4, <2>1, <2>2, <2>3, <2>4, <3>1, Zenon DEF Slot
    <3> QED
      BY <3>2, Zenon
  <2>6. CASE b \in r.new
    <3>0. PICK j \in 0..Quota : j = bn
      BY <2>3, Zenon
    <3>1. b = r.block => b = Slot(p, j)'
      BY <2>1, <2>3, <3>0, Zenon DEF Slot
    <3>2. b = r.indirect => b = Slot(p, Quota)'
      BY <2>2, <2>4, Zenon DEF Slot
    <3> QED
      BY <1>4, <2>3, <2>6, <3>1, <3>2, Zenon
  <2> QED
    BY <1>5, <2>5, <2>6, Zenon
<1>11. ASSUME NEW q \in Procs PROVE ChunkInv(q)'
  <2>1. CASE q # p
    <3>1. todo'[q] = todo[q] /\ ind'[q] = ind[q] /\ off'[q] = off[q] /\ chunk'[q] = chunk[q]
      BY <1>1, <1>5, <2>1, Zenon DEF FileTypeOK
    <3> QED
      BY <1>1, <1>6, <3>1, LeftAlone, Zenon
  <2>2. CASE q = p
    <3>1. PICK k \in 0..(Room + 1) : Cardinality(DataOf(p)) <= k /\ After(k, p)
      BY <1>1, Zenon DEF ChunkInv
    <3>2. /\ off'[p] = off[p] + m /\ chunk'[p] = chunk[p] - m /\ todo'[p] = L
          /\ r.indirect # 0 => ind'[p] = r.indirect
          /\ ind[p] # 0 => ind'[p] = ind[p]
      BY <1>1, <1>4, <1>5, Zenon DEF FileTypeOK
    <3>3. Room \in Nat
      BY RoomFacts, Zenon
    <3>4. k + 1 \in 0..(Room + 1) /\ After(k + 1, p)'
      <4>1. \/ k = 0 /\ chunk[p] <= Room * BSIZE
            \/ k > 0 /\ off[p] % BSIZE = 0 /\ chunk[p] < (Room + 1 - k) * BSIZE
        BY <1>1, <3>1, Zenon DEF After
      <4>2. /\ k + 1 \in 0..(Room + 1)
            /\ \/ chunk[p] - m = 0
               \/ (off[p] + m) % BSIZE = 0 /\ chunk[p] - m < (Room + 1 - (k + 1)) * BSIZE
        BY <1>1, <1>3, <4>1, RoomStep, Zenon
      <4>3. k + 1 > 0
        BY <3>1
      <4> QED
        BY <3>2, <4>2, <4>3, Zenon DEF After
    <3>5. DataOf(p)' \subseteq DataOf(p) \cup {r.block}
      <4>1. Elems(<<>>) = {}
        BY ElemsFacts, Zenon
      <4>2. DataOf(p) = wrote[p] \ ({Bitmap, InodeBlock} \cup ({ind[p]} \ {0}))
        BY <1>1, <4>1, Zenon DEF DataOf
      <4>3. DataOf(p)' = (wrote[p] \cup Elems(L)) \ ({Bitmap, InodeBlock} \cup ({ind'[p]} \ {0}))
        BY <1>6, <3>2, Zenon DEF DataOf
      <4> QED
        BY <1>7, <3>2, <4>2, <4>3, Zenon
    <3>6. IsFiniteSet(DataOf(p)) /\ Cardinality(DataOf(p)) \in Nat
      <4>1. DataOf(p) \in SUBSET Blocks
        BY <1>1, ElemsFacts, Zenon DEF DataOf, FileTypeOK
      <4> QED
        BY <4>1, FS_Subset, FS_CardinalityType, Zenon
    <3>7. Cardinality(DataOf(p)') <= k + 1
      <4> DEFINE S == DataOf(p)
                 T == DataOf(p)'
      <4>1. T \in SUBSET (S \cup {r.block}) /\ IsFiniteSet(S) /\ Cardinality(S) \in Nat /\ Cardinality(S) <= k
        BY <3>1, <3>5, <3>6, Zenon
      <4> HIDE DEF S, T
      <4>2. IsFiniteSet(S \cup {r.block}) /\ Cardinality(S \cup {r.block}) <= Cardinality(S) + 1
        BY <4>1, AddBound, Zenon
      <4>3. Cardinality(T) <= Cardinality(S \cup {r.block}) /\ IsFiniteSet(T)
        BY <4>1, <4>2, FS_Subset, Zenon
      <4>4. Cardinality(T) \in Nat /\ Cardinality(S \cup {r.block}) \in Nat
        BY <4>2, <4>3, FS_CardinalityType, Zenon
      <4>5. Cardinality(T) <= k + 1
        BY <4>1, <4>2, <4>3, <4>4
      <4> QED
        BY <4>5, Zenon DEF T
    <3> QED
      BY <1>1, <1>6, <2>2, <3>4, <3>7, Zenon DEF ChunkInv
  <2> QED
    BY <2>1, <2>2, Zenon
<1> QED
  BY <1>5, <1>8, <1>9, <1>10, <1>11, Zenon DEF FileInv

\* A step of the log that opens and closes no operation.
LEMMA LogStep ==
  ASSUME FileInv, pc' \in [Procs -> Pcs], wrote' = wrote, UNCHANGED fvars,
         \A p \in Procs : pc'[p] = "op" <=> pc[p] = "op"
  PROVE  FileInv'
<1>1. UNCHANGED <<used, addrs, ind, off, left, chunk, todo>>
  BY Zenon DEF fvars
<1>2. FileTypeOK' /\ QuotaInv'
  BY <1>1, Zenon DEF FileInv, FileTypeOK, QuotaInv
<1>3. UsedInv'
  BY <1>1 DEF FileInv, UsedInv, Slot
<1>4. ASSUME NEW p \in Procs PROVE ChunkInv(p)'
  BY <1>1, LeftAlone, Zenon DEF FileInv
<1> QED
  BY <1>2, <1>3, <1>4, Zenon DEF FileInv

\* The steps of a write, one by one: the call.
LEMMA FilewriteStep ==
  ASSUME FileInv, NEW p \in Procs, NEW n \in Requests, Fits(n), Filewrite(p, n)
  PROVE  FileInv'
<1>1. /\ left' = [left EXCEPT ![p] = n] /\ left[p] = 0
      /\ UNCHANGED <<pc, wrote, used, addrs, ind, off, chunk, todo>>
  BY Zenon DEF Filewrite, vars
<1>2. FileTypeOK'
  BY <1>1, Zenon DEF FileInv, FileTypeOK
<1>3. UsedInv'
  BY <1>1 DEF FileInv, UsedInv, Slot
<1>4. ASSUME NEW q \in Procs PROVE ChunkInv(q)'
  BY <1>1, LeftAlone, Zenon DEF FileInv
<1>5. off[p] + n <= Quota * BSIZE
  <2> DEFINE d == Cardinality(DataBlocks) \div Cardinality(Procs)
  <2>1. off[p] + n <= d * BSIZE - 2 * BSIZE
    BY Zenon DEF Fits
  <2>2. Quota = d - 2 /\ d \in Int
    BY QuotaFacts DEF Quota
  <2> HIDE DEF d
  <2>3. Quota * BSIZE = d * BSIZE - 2 * BSIZE
    BY <2>2
  <2> QED
    BY <2>1, <2>3, Zenon
<1>6. QuotaInv'
  <2> SUFFICES ASSUME NEW q \in Procs
               PROVE  /\ chunk'[q] <= left'[q]
                      /\ left'[q] > 0 => off'[q] + left'[q] <= Quota * BSIZE
    BY Zenon DEF QuotaInv
  <2>1. off \in [Procs -> Nat] /\ left \in [Procs -> Nat] /\ chunk \in [Procs -> Nat] /\ n \in Nat
    BY Zenon DEF FileInv, FileTypeOK
  <2>2. chunk[q] <= left[q] /\ (left[q] > 0 => off[q] + left[q] <= Quota * BSIZE)
    BY Zenon DEF FileInv, QuotaInv
  <2>3. CASE q = p
    BY <1>1, <1>5, <2>1, <2>2, <2>3
  <2>4. CASE q # p
    BY <1>1, <2>1, <2>2, <2>4, Zenon
  <2> QED
    BY <2>3, <2>4, Zenon
<1> QED
  BY <1>2, <1>3, <1>4, <1>6, Zenon DEF FileInv

\* begin_op sleeps, or starts an operation that has written nothing.
LEMMA ChunkStep ==
  ASSUME FileInv, NEW p \in Procs, Chunk(p)
  PROVE  FileInv'
<1>1. /\ UNCHANGED <<used, addrs, ind, off, left, todo>> /\ left[p] > 0
      /\ chunk' = IF pc'[p] = "op" THEN [chunk EXCEPT ![p] = Smaller(left[p], MaxChunk)] ELSE chunk
  BY Zenon DEF Chunk
<1>2. /\ pc[p] # "op"
      /\ \/ pc' = [pc EXCEPT ![p] = "asleep"] /\ wrote' = wrote
         \/ pc' = [pc EXCEPT ![p] = "op"] /\ wrote' = [wrote EXCEPT ![p] = {}]
  BY Zenon DEF Chunk, BeginOp, Goto
<1>3. /\ FileTypeOK /\ QuotaInv /\ UsedInv /\ (\A q \in Procs : ChunkInv(q))
      /\ todo[p] = <<>>
  BY <1>2, Zenon DEF FileInv, ChunkInv
<1>4. CASE pc' = [pc EXCEPT ![p] = "asleep"] /\ wrote' = wrote
  <2>1. pc'[p] # "op" /\ pc' \in [Procs -> Pcs] /\ \A q \in Procs : pc'[q] = "op" <=> pc[q] = "op"
    BY <1>2, <1>3, <1>4, Zenon DEF FileTypeOK, Pcs
  <2>2. UNCHANGED fvars
    BY <1>1, <2>1, Zenon DEF fvars
  <2> QED
    BY <1>4, <2>1, <2>2, LogStep, Zenon
<1>5. CASE pc' = [pc EXCEPT ![p] = "op"] /\ wrote' = [wrote EXCEPT ![p] = {}]
  <2> DEFINE c == Smaller(left[p], MaxChunk)
  <2>1. /\ pc'[p] = "op" /\ pc' \in [Procs -> Pcs] /\ \A q \in Procs : q # p => pc'[q] = pc[q]
    BY <1>3, <1>5, Zenon DEF FileTypeOK, Pcs
  <2>2. chunk' = [chunk EXCEPT ![p] = c]
    BY <1>1, <2>1, Zenon
  <2>3. Room \in Nat /\ Room * BSIZE \in Nat /\ MaxChunk = Room * BSIZE
    <3>1. Room \in Nat
      BY RoomFacts, Zenon
    <3> QED
      BY <3>1, RoomFacts
  <2>4. c \in Nat /\ c <= left[p] /\ c <= Room * BSIZE
    BY <1>3, <2>3 DEF FileTypeOK, Smaller
  <2> HIDE DEF c
  <2>5. FileTypeOK'
    BY <1>1, <1>3, <1>5, <2>1, <2>2, <2>4, SMTT(30) DEF FileTypeOK
  <2>6. QuotaInv'
    BY <1>1, <1>3, <2>2, <2>4, Zenon DEF FileTypeOK, QuotaInv
  <2>7. UsedInv'
    BY <1>1, <1>3 DEF UsedInv, Slot
  <2>8. ASSUME NEW q \in Procs PROVE ChunkInv(q)'
    <3>1. CASE q # p
      <4>1. pc'[q] = pc[q] /\ wrote'[q] = wrote[q] /\ chunk'[q] = chunk[q]
        BY <1>3, <1>5, <2>1, <2>2, <3>1, Zenon DEF FileTypeOK
      <4> QED
        BY <1>1, <1>3, <4>1, LeftAlone, Zenon
    <3>2. CASE q = p
      <4>1. wrote'[p] = {} /\ todo'[p] = <<>> /\ chunk'[p] = c
        BY <1>1, <1>3, <1>5, <2>2, Zenon DEF FileTypeOK
      <4>2. DataOf(p)' = {}
        BY <4>1, ElemsFacts, Zenon DEF DataOf
      <4>3. Cardinality(DataOf(p)') = 0
        BY <4>2, FS_EmptySet, Zenon
      <4>4. 0 \in 0..(Room + 1) /\ 0 <= 0
        BY <2>3
      <4>5. After(0, p)'
        BY <2>4, <4>1, Zenon DEF After
      <4> QED
        BY <2>1, <3>2, <4>3, <4>4, <4>5, Zenon DEF ChunkInv
    <3> QED
      BY <3>1, <3>2
  <2> QED
    BY <2>5, <2>6, <2>7, <2>8, Zenon DEF FileInv
<1> QED
  BY <1>2, <1>4, <1>5, Zenon

\* log_write takes the next block from the list.
LEMMA LogBlockStep ==
  ASSUME FileInv, NEW p \in Procs, LogBlock(p)
  PROVE  FileInv'
<1>1. /\ FileTypeOK /\ QuotaInv /\ UsedInv /\ (\A q \in Procs : ChunkInv(q))
      /\ UNCHANGED <<used, addrs, ind, off, left, chunk>>
      /\ todo' = [todo EXCEPT ![p] = Tail(todo[p])]
      /\ pc[p] = "op" /\ todo[p] # <<>>
  BY Zenon DEF FileInv, LogBlock
<1>2. /\ pc' = pc
      /\ wrote' = wrote \/ wrote' = [wrote EXCEPT ![p] = @ \cup {Head(todo[p])}]
  BY Zenon DEF LogBlock, LogWrite, Panic
<1>3. /\ Head(todo[p]) \in Blocks /\ Tail(todo[p]) \in Seq(Blocks)
      /\ Elems(todo[p]) = {Head(todo[p])} \cup Elems(Tail(todo[p]))
      /\ Elems(todo[p]) \in SUBSET Blocks
  BY <1>1, ElemsFacts, Zenon DEF FileTypeOK
<1> DEFINE h == Head(todo[p])
           t == Tail(todo[p])
<1> HIDE DEF h, t
<1>4. todo'[p] = t /\ \A q \in Procs : q # p => todo'[q] = todo[q]
  BY <1>1, Zenon DEF FileTypeOK, t
<1>5. (wrote'[p] = wrote[p] \/ wrote'[p] = wrote[p] \cup {h}) /\ \A q \in Procs : q # p => wrote'[q] = wrote[q]
  BY <1>1, <1>2, Zenon DEF FileTypeOK, h
<1>6. FileTypeOK'
  <2>1. todo' \in [Procs -> Seq(Blocks)]
    <3>1. todo \in [Procs -> Seq(Blocks)] /\ t \in Seq(Blocks) /\ todo' = [todo EXCEPT ![p] = t]
      BY <1>1, <1>3, Zenon DEF FileTypeOK, t
    <3> QED
      BY <3>1, Zenon
  <2>2. wrote' \in [Procs -> SUBSET Blocks]
    <3>1. /\ wrote \in [Procs -> SUBSET Blocks] /\ h \in Blocks
          /\ wrote' = wrote \/ wrote' = [wrote EXCEPT ![p] = @ \cup {h}]
      BY <1>1, <1>2, <1>3, Zenon DEF FileTypeOK, h
    <3> QED
      BY <3>1
  <2> QED
    BY <1>1, <1>2, <2>1, <2>2, Zenon DEF FileTypeOK
<1>7. QuotaInv' /\ UsedInv'
  BY <1>1 DEF QuotaInv, UsedInv, Slot
<1>8. ASSUME NEW q \in Procs PROVE ChunkInv(q)'
  <2>1. CASE q # p
    BY <1>1, <1>2, <1>4, <1>5, <2>1, LeftAlone, Zenon
  <2>2. CASE q = p
    <3>1. PICK k \in 0..(Room + 1) : Cardinality(DataOf(p)) <= k /\ After(k, p)
      BY <1>1, Zenon DEF ChunkInv
    <3>2. After(k, p)'
      BY <1>1, <3>1, Zenon DEF After
    <3>3. DataOf(p)' \in SUBSET DataOf(p) /\ DataOf(p) \in SUBSET Blocks
      <4>1. Elems(todo[p]) = {h} \cup Elems(t)
        BY <1>3, Zenon DEF h, t
      <4>2. DataOf(p)' = (wrote'[p] \cup Elems(t)) \ ({Bitmap, InodeBlock} \cup ({ind[p]} \ {0}))
        BY <1>1, <1>4, Zenon DEF DataOf
      <4>3. DataOf(p) \in SUBSET Blocks
        BY <1>1, <1>3, Zenon DEF DataOf, FileTypeOK
      <4> QED
        BY <1>5, <4>1, <4>2, <4>3, Zenon DEF DataOf
    <3>4. Cardinality(DataOf(p)') <= k
      <4> DEFINE S == DataOf(p)
                 T == DataOf(p)'
      <4>1. T \in SUBSET S /\ S \in SUBSET Blocks /\ Cardinality(S) <= k
        BY <3>1, <3>3, Zenon
      <4> HIDE DEF S, T
      <4>2. IsFiniteSet(S)
        BY <4>1, FS_Subset, Zenon
      <4>3. IsFiniteSet(T) /\ Cardinality(T) <= Cardinality(S)
        BY <4>1, <4>2, FS_Subset, Zenon
      <4>4. Cardinality(S) \in Nat /\ Cardinality(T) \in Nat
        BY <4>2, <4>3, FS_CardinalityType, Zenon
      <4>5. Cardinality(T) <= k
        BY <4>1, <4>3, <4>4
      <4> QED
        BY <4>5, Zenon DEF T
    <3> QED
      BY <1>1, <1>2, <2>2, <3>2, <3>4, Zenon DEF ChunkInv
  <2> QED
    BY <2>1, <2>2
<1> QED
  BY <1>6, <1>7, <1>8, Zenon DEF FileInv

\* end_op closes an operation that has nothing left to log.
LEMMA EndChunkStep ==
  ASSUME FileInv, NEW p \in Procs, EndChunk(p)
  PROVE  FileInv'
<1>1. UNCHANGED fvars /\ todo[p] = <<>> /\ pc[p] = "op" /\ wrote' = wrote /\ pc \in [Procs -> Pcs]
  BY Zenon DEF EndChunk, EndOp, Panic, FileInv, FileTypeOK
<1>2. CASE pc' = pc
  BY <1>1, <1>2, LogStep, Zenon
<1>3. CASE \/ pc' = Wakeup([pc EXCEPT ![p] = "idle"])
           \/ pc' = [pc EXCEPT ![p] = IF lh = <<>> THEN "done" ELSE "write_log"]
  <2>1. /\ pc' \in [Procs -> Pcs] /\ pc'[p] # "op"
        /\ \A q \in Procs : q # p => (pc'[q] = "op" <=> pc[q] = "op")
    BY <1>1, <1>3, Zenon DEF Wakeup, Pcs, CommitSteps
  <2>2. UNCHANGED <<used, addrs, ind, off, left, chunk, todo>>
    BY <1>1, Zenon DEF fvars
  <2>3. FileTypeOK' /\ QuotaInv'
    BY <1>1, <2>1, <2>2, Zenon DEF FileInv, FileTypeOK, QuotaInv
  <2>4. UsedInv'
    BY <2>2 DEF FileInv, UsedInv, Slot
  <2>5. ASSUME NEW q \in Procs PROVE ChunkInv(q)'
    <3>1. CASE q # p
      BY <1>1, <2>1, <2>2, <3>1, LeftAlone, Zenon DEF FileInv
    <3>2. CASE q = p
      BY <1>1, <2>1, <2>2, <3>2, Zenon DEF ChunkInv
    <3> QED
      BY <3>1, <3>2
  <2> QED
    BY <2>3, <2>4, <2>5, Zenon DEF FileInv
<1> QED
  BY <1>2, <1>3, Zenon DEF EndChunk, EndOp, Panic

\* commit() is nobody's operation.
LEMMA CommitStepStep ==
  ASSUME FileInv, NEW p \in Procs, CommitStep(p)
  PROVE  FileInv'
<1>1. /\ UNCHANGED fvars /\ wrote' = wrote /\ pc[p] # "op" /\ pc \in [Procs -> Pcs]
  BY Zenon DEF CommitStep, WriteLog, WriteHead, InstallTrans, ClearLog, EndCommit, FileInv, FileTypeOK
<1>2. \/ pc' = pc
      \/ pc' = Wakeup([pc EXCEPT ![p] = "idle"])
      \/ \E l \in CommitSteps : pc' = [pc EXCEPT ![p] = l]
  BY Zenon DEF CommitStep, WriteLog, WriteHead, InstallTrans, ClearLog, EndCommit, Goto, CommitSteps
<1>3. pc' \in [Procs -> Pcs] /\ \A q \in Procs : pc'[q] = "op" <=> pc[q] = "op"
  BY <1>1, <1>2, Zenon DEF Wakeup, Pcs, CommitSteps
<1> QED
  BY <1>1, <1>3, LogStep, Zenon

\* Nothing is written or allocated at boot.
LEMMA InitFile == FInit => FileInv
<1> SUFFICES ASSUME FInit PROVE FileInv
  OBVIOUS
<1>1. /\ pc = [p \in Procs |-> "idle"] /\ wrote = [p \in Procs |-> {}] /\ used = {}
      /\ addrs = [p \in Procs |-> [bn \in Bns |-> 0]] /\ ind = [p \in Procs |-> 0]
      /\ off = [p \in Procs |-> 0] /\ left = [p \in Procs |-> 0] /\ chunk = [p \in Procs |-> 0]
      /\ todo = [p \in Procs |-> <<>>]
  BY Zenon DEF FInit, Init
<1>2. FileTypeOK
  BY <1>1 DEF FileTypeOK, Pcs
<1>3. QuotaInv /\ UsedInv /\ \A p \in Procs : ChunkInv(p)
  BY <1>1 DEF QuotaInv, UsedInv, ChunkInv
<1> QED
  BY <1>2, <1>3, Zenon DEF FileInv

\* Every step keeps the books, and is a step that Log.tla allows.
LEMMA NextFile ==
  ASSUME FileInv, [FNext]_allvars
  PROVE  FileInv' /\ [Next]_vars
<1>1. ASSUME NEW p \in Procs, NEW n \in Requests, Fits(n), Filewrite(p, n) PROVE FileInv' /\ [Next]_vars
  BY <1>1, FilewriteStep, Zenon DEF Filewrite
<1>2. ASSUME NEW p \in Procs, Chunk(p) PROVE FileInv' /\ [Next]_vars
  BY <1>2, ChunkStep, Zenon DEF Chunk, Next, ProcStep
<1>3. ASSUME NEW p \in Procs, WriteBlock(p) PROVE FileInv' /\ [Next]_vars
  BY <1>3, WriteBlockStep, Zenon
<1>4. ASSUME NEW p \in Procs, LogBlock(p) PROVE FileInv' /\ [Next]_vars
  <2>1. Head(todo[p]) \in Blocks
    BY <1>4, ElemsFacts, Zenon DEF FileInv, FileTypeOK, LogBlock
  <2> QED
    BY <1>4, <2>1, LogBlockStep, Zenon DEF LogBlock, Next
<1>5. ASSUME NEW p \in Procs, EndChunk(p) PROVE FileInv' /\ [Next]_vars
  BY <1>5, EndChunkStep, Zenon DEF EndChunk, Next, ProcStep
<1>6. ASSUME NEW p \in Procs, CommitStep(p) PROVE FileInv' /\ [Next]_vars
  BY <1>6, CommitStepStep, Zenon DEF CommitStep, Next, ProcStep
<1>7. ASSUME Recovery, UNCHANGED fvars PROVE FileInv' /\ [Next]_vars
  <2>1. pc' = pc /\ wrote' = wrote
    BY <1>7, Zenon DEF Recovery, ReadHead, RecoverInstall, RecoverClear
  <2>2. pc' \in [Procs -> Pcs] /\ \A q \in Procs : pc'[q] = "op" <=> pc[q] = "op"
    BY <2>1, Zenon DEF FileInv, FileTypeOK
  <2> QED
    BY <1>7, <2>1, <2>2, LogStep, Zenon DEF Next
<1>8. ASSUME UNCHANGED allvars PROVE FileInv' /\ [Next]_vars
  <2>1. UNCHANGED vars /\ UNCHANGED fvars
    BY <1>8, Zenon DEF allvars
  <2>2. pc' = pc /\ wrote' = wrote
    BY <2>1, Zenon DEF vars
  <2>3. pc' \in [Procs -> Pcs] /\ \A q \in Procs : pc'[q] = "op" <=> pc[q] = "op"
    BY <2>2 DEF FileInv, FileTypeOK
  <2> QED
    BY <2>1, <2>2, <2>3, LogStep, Zenon
<1> QED
  BY <1>1, <1>2, <1>3, <1>4, <1>5, <1>6, <1>7, <1>8, Zenon DEF FNext

\* Blocks of data, the free map, the inode and the indirect block: no others.
LEMMA FileInvBound == FileInv => ChunkBound
<1> SUFFICES ASSUME FileInv, NEW p \in Procs, pc[p] = "op"
             PROVE  Cardinality(wrote[p]) <= MaxChunk \div BSIZE + 1 + 3
  BY Zenon DEF ChunkBound
<1> DEFINE D == DataOf(p)
           E == {Bitmap, InodeBlock, ind[p]}
           w == wrote[p]
<1>1. PICK k \in 0..(Room + 1) : Cardinality(D) <= k
  BY Zenon DEF FileInv, ChunkInv
<1>2. D \in SUBSET Blocks /\ w \in SUBSET (D \cup E)
  <2>1. wrote[p] \in SUBSET Blocks /\ Elems(todo[p]) \in SUBSET Blocks
    BY ElemsFacts, Zenon DEF FileInv, FileTypeOK
  <2> QED
    BY <2>1, Zenon DEF DataOf
<1>3. IsFiniteSet(E) /\ Cardinality(E) \in Nat /\ Cardinality(E) <= 3
  <2>1. IsFiniteSet({Bitmap}) /\ Cardinality({Bitmap}) = 1
    BY FS_Singleton, Zenon
  <2>2. IsFiniteSet({Bitmap} \cup {InodeBlock}) /\ Cardinality({Bitmap} \cup {InodeBlock}) <= 2
    <3>1. IsFiniteSet({Bitmap} \cup {InodeBlock}) /\ Cardinality({Bitmap} \cup {InodeBlock}) \in Nat
          /\ Cardinality({Bitmap} \cup {InodeBlock}) <= Cardinality({Bitmap}) + 1
      BY <2>1, AddBound, Zenon
    <3> QED
      BY <2>1, <3>1
  <2> DEFINE B2 == {Bitmap} \cup {InodeBlock}
  <2>3. IsFiniteSet(B2) /\ Cardinality(B2) \in Nat /\ Cardinality(B2) <= 2
    BY <2>2, FS_CardinalityType, Zenon
  <2>4. E = B2 \cup {ind[p]}
    OBVIOUS
  <2> HIDE DEF B2, E
  <2>5. IsFiniteSet(E) /\ Cardinality(E) <= 3
    <3>1. IsFiniteSet(E) /\ Cardinality(E) \in Nat /\ Cardinality(E) <= Cardinality(B2) + 1
      BY <2>3, <2>4, AddBound, Zenon
    <3> QED
      BY <2>3, <3>1
  <2> QED
    BY <2>5, FS_CardinalityType, Zenon
<1> HIDE DEF D, E
<1>4. IsFiniteSet(D) /\ Cardinality(D) \in Nat
  BY <1>2, FS_Subset, FS_CardinalityType, Zenon
<1>5. IsFiniteSet(D \cup E) /\ Cardinality(D \cup E) <= Cardinality(D) + Cardinality(E)
  <2>1. /\ IsFiniteSet(D \cup E)
        /\ Cardinality(D \cup E) = Cardinality(D) + Cardinality(E) - Cardinality(D \cap E)
    BY <1>3, <1>4, FS_Union, Zenon
  <2>2. Cardinality(D \cap E) \in Nat
    BY <1>4, FS_Subset, FS_CardinalityType, Zenon
  <2> QED
    BY <1>3, <1>4, <2>1, <2>2
<1>6. Cardinality(w) <= Cardinality(D \cup E) /\ IsFiniteSet(w)
  BY <1>2, <1>5, FS_Subset, Zenon
<1>7. Cardinality(w) \in Nat /\ Cardinality(D \cup E) \in Nat
  BY <1>5, <1>6, FS_CardinalityType, Zenon
<1>8. Room \in Nat /\ MaxChunk \div BSIZE = Room
  BY RoomFacts, Zenon
<1> QED
  BY <1>1, <1>3, <1>4, <1>5, <1>6, <1>7, <1>8

\* The books are kept for ever.
LEMMA AlwaysFile == FSpec => []FileInv
<1>1. FileInv /\ [FNext]_allvars => FileInv'
  BY NextFile, Zenon
<1> QED
  BY <1>1, InitFile, PTL DEF FSpec

\* filewrite's estimate of what a chunk may modify is right, whatever the offset
\* it starts at: its blocks of data, one more for a start inside a block, the
\* free map, the inode and the indirect block.
THEOREM ChunkFitsItsBound == FSpec => []ChunkBound
BY AlwaysFile, FileInvBound, PTL

\* While what is asked for fits on the disk, balloc finds the blocks that the
\* next iteration of writei needs.
BallocFinds == \A p \in Procs : chunk[p] > 0 => Need(p, off[p] \div BSIZE) <= Cardinality(Free)

\* The panic of balloc is out of reach: the indirect block and the blocks of
\* data of all files together are fewer than the disk has.
THEOREM BallocNeverPanics == FSpec => []BallocFinds
<1>1. ASSUME FileInv, NEW p \in Procs, chunk[p] > 0
      PROVE  Need(p, off[p] \div BSIZE) <= Cardinality(Free)
  <2>1. ~(Need(p, off[p] \div BSIZE) > Cardinality(Free))
    BY <1>1, NextIndex, BmapFacts, Zenon DEF FileInv
  <2>2. Cardinality(Free) \in Nat
    BY QuotaFacts, FS_Subset, FS_CardinalityType, Zenon DEF Free
  <2>3. Need(p, off[p] \div BSIZE) \in Nat
    <3>1. \A A, B \in BOOLEAN : (IF A THEN 1 ELSE 0) + (IF B THEN 1 ELSE 0) \in Nat
      OBVIOUS
    <3> QED
      BY <3>1, Zenon DEF Need
  <2> QED
    BY <2>1, <2>2, <2>3
<1>2. FileInv => BallocFinds
  BY <1>1, Zenon DEF BallocFinds
<1> QED
  BY <1>2, AlwaysFile, PTL

\* Concurrent writes use the log as Log.tla lets operations use it: FileWrite
\* implements Log, with everything it adds hidden.
THEOREM WritesUseTheLog == FSpec => Spec
<1>1. FInit => Init
  BY Zenon DEF FInit
<1>2. FileInv /\ [FNext]_allvars => [Next]_vars
  BY NextFile, Zenon
<1> QED
  BY <1>1, <1>2, AlwaysFile, PTL DEF FSpec, Spec
=============================================================================
