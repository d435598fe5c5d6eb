-------------------------- MODULE BufferCacheProofs --------------------------
(***************************************************************************)
(* What is proved of the buffer cache of BufferCache.tla for every number  *)
(* of processes, blocks and buffers: the inductive invariant; one buffer   *)
(* per block, reference counts that count the users, sleepers that will be *)
(* woken; and, step by step, the refinement of BlockStore.tla.             *)
(***************************************************************************)
EXTENDS BufferCache, FiniteSetTheorems, TLAPS

Waits == {"lock", "asleep", "put"}   \* with a pointer to a buffer it has not locked
Doing == Window \cup {"io", "woken"} \* in iderw, for a buffer it has locked
Fresh == {"first", "behind"}         \* before its request is linked
Sent  == {"linked", "drowsy", "io"}  \* after that, until it is served

Locked(p) == {b \in Bufs : lock[b] = p}
Users(b)  == {p \in Procs : b \in refs[p]}

\* The buffers with B_VALID, and those with B_DIRTY.
Valid == {b \in Bufs : valid[b]}
Dirty == {b \in Bufs : dirty[b]}

\* The processes can be counted.
CountsRight == \A S \in SUBSET Procs :
  /\ Cardinality(S) \in Nat /\ (Cardinality(S) = 0 <=> S = {})
  /\ \A p \in Procs \ S : Cardinality(S \cup {p}) = Cardinality(S) + 1
  /\ \A p \in S : Cardinality(S \ {p}) = Cardinality(S) - 1

\* The pointers of a process are the buffers it has locked, and the one it is
\* about to lock or has just unlocked.
PtrInv == \A p \in Procs :
  /\ pc[p] # "run" => want[p] \in Bufs
  /\ pc[p] \in Waits => lock[want[p]] # p /\ refs[p] = Locked(p) \cup {want[p]}
  /\ pc[p] \notin Waits => refs[p] = Locked(p)
  /\ pc[p] \in Doing => lock[want[p]] = p

\* A request belongs to the one process that made it.
Queued   == {queue[i] : i \in 1..Len(queue)}
Distinct == \A i, j \in 1..Len(queue) : queue[i] = queue[j] => i = j

QueueInv == /\ Distinct /\ Queued \subseteq Bufs
            /\ \A b \in Queued : lock[b] \in Procs /\ pc[lock[b]] \in Sent /\ want[lock[b]] = b

\* What the flags of a buffer say: of its block, of its contents, and of the
\* process that has it.
FlagInv ==
  /\ \A b \in Bufs : b \in Valid \/ refcnt[b] # 0 => blockno[b] \in Blocks
  /\ Dirty \subseteq Valid /\ failed \subseteq Valid \ Dirty
  /\ \A b \in Valid \ (Dirty \cup failed) : data[b] = disk[blockno[b]]
  /\ \A b \in Bufs \ Valid : lock[b] \in Procs => pc[lock[b]] \in Doing /\ want[lock[b]] = b
  /\ \A p \in Procs : pc[p] = "woken" => want[p] \in Valid \ Dirty
  /\ \A p \in Procs : pc[p] \in Fresh => want[p] \notin Valid \ Dirty
  /\ Queued \cap (Valid \ Dirty) = {}

IInv == CountsRight /\ TypeOK /\ OneCopy /\ RefCounted /\ PtrInv /\ QueueInv /\ FlagInv

-----------------------------------------------------------------------------
\* The reference count of a buffer follows its users.
LEMMA CountMore ==
  ASSUME CountsRight, NEW S \in SUBSET Procs, NEW p \in Procs, p \notin S
  PROVE  Cardinality(S) \in Nat /\ Cardinality(S \cup {p}) = Cardinality(S) + 1
BY DEF CountsRight

LEMMA CountLess ==
  ASSUME CountsRight, NEW S \in SUBSET Procs, NEW p \in S
  PROVE  Cardinality(S) \in Nat /\ Cardinality(S) > 0 /\ Cardinality(S \ {p}) = Cardinality(S) - 1
<1>1. Cardinality(S) \in Nat /\ Cardinality(S) # 0 /\ Cardinality(S \ {p}) = Cardinality(S) - 1
  BY DEF CountsRight
<1> QED
  BY <1>1

LEMMA CountNone ==
  ASSUME CountsRight, NEW S \in SUBSET Procs
  PROVE  Cardinality(S) = 0 <=> S = {}
BY DEF CountsRight

LEMMA CountOne ==
  ASSUME CountsRight, NEW p \in Procs
  PROVE  Cardinality({p}) = 1
<1>1. Cardinality({} \cup {p}) = Cardinality({}) + 1 /\ Cardinality({}) = 0
  BY CountMore, CountNone, Zenon
<1>2. {} \cup {p} = {p}
  OBVIOUS
<1> QED
  BY <1>1, <1>2

LEMMA InitIInv == Init /\ CountsRight => IInv
<1> SUFFICES ASSUME Init, CountsRight PROVE IInv
  OBVIOUS
<1>1. TypeOK
  <2>1. valid \in [Bufs -> BOOLEAN] /\ dirty \in [Bufs -> BOOLEAN] /\ panicked \in BOOLEAN
    BY Zenon DEF Init
  <2>2. lru \in [Bufs -> Bufs]
    BY CacheConstants DEF Init, Bufs
  <2> QED
    BY <2>1, <2>2, CacheConstants DEF Init, TypeOK, Pcs
<1>a. Queued = {} /\ Distinct
  BY DEF Init, Queued, Distinct
<1>2. OneCopy /\ QueueInv
  BY <1>a DEF Init, OneCopy, QueueInv
<1>3. RefCounted
  <2>1. \A b \in Bufs : {p \in Procs : b \in refs[p]} = {}
    BY DEF Init
  <2> QED
    BY <2>1, CountNone DEF Init, RefCounted
<1>4. PtrInv
  BY CacheConstants DEF Init, PtrInv, Waits, Doing, Window, Locked
<1>5. FlagInv
  BY <1>a, CacheConstants DEF Init, FlagInv, Valid, Dirty, Fresh
<1> QED
  BY <1>1, <1>2, <1>3, <1>4, <1>5 DEF IInv

\* A buffer that somebody has locked or has a pointer to is in use.
LEMMA InUse ==
  ASSUME IInv, NEW b \in Bufs
  PROVE  /\ refcnt[b] = Cardinality(Users(b)) /\ Users(b) \in SUBSET Procs
         /\ \A p \in Procs : lock[b] = p => b \in refs[p]
         /\ \A p \in Procs : b \in refs[p] => refcnt[b] # 0 /\ blockno[b] \in Blocks
         /\ refcnt[b] = 0 => lock[b] = Nobody /\ \A p \in Procs : b \notin refs[p]
<1>1. refcnt[b] = Cardinality(Users(b)) /\ Users(b) \in SUBSET Procs
  BY Zenon DEF IInv, RefCounted, Users
<1>2. \A p \in Procs : lock[b] = p => b \in refs[p]
  BY DEF IInv, PtrInv, Locked
<1>3. \A p \in Procs : b \in refs[p] => refcnt[b] # 0
  <2>1. CountsRight
    BY DEF IInv
  <2> QED
    BY <1>1, <2>1, CountNone DEF Users
<1>4. \A p \in Procs : b \in refs[p] => blockno[b] \in Blocks
  BY <1>3 DEF IInv, FlagInv
<1>5. lock[b] \in Procs \cup {Nobody}
  BY DEF IInv, TypeOK
<1> QED
  BY <1>1, <1>2, <1>3, <1>4, <1>5, Zenon

LEMMA AppendFacts ==
  ASSUME NEW s \in Seq(Bufs), NEW b \in Bufs, NEW t, t = Append(s, b)
  PROVE  /\ t \in Seq(Bufs) /\ Len(t) = Len(s) + 1 /\ Len(s) \in Nat
         /\ t[Len(s) + 1] = b
         /\ \A i \in 1..Len(s) : t[i] = s[i]
         /\ \A i \in 1..Len(t) : i \in 1..Len(s) \/ i = Len(s) + 1
OBVIOUS

\* iderw links a request.
LEMMA LinkQueue ==
  ASSUME IInv, NEW p \in Procs, NEW b \in Bufs, pc[p] \in Fresh, want[p] = b, lock[b] = p,
         queue' = Append(queue, b), pc' = At(p, "linked"), UNCHANGED <<lock, want>>
  PROVE  /\ QueueInv' /\ queue' \in Seq(Bufs)
         /\ Queued' = Queued \cup {b}
<1>1. queue \in Seq(Bufs) /\ pc \in [Procs -> Pcs]
  BY Zenon DEF IInv, TypeOK
<1>2. /\ queue' \in Seq(Bufs) /\ Len(queue') = Len(queue) + 1 /\ Len(queue) \in Nat
      /\ queue'[Len(queue) + 1] = b
      /\ \A i \in 1..Len(queue) : queue'[i] = queue[i]
      /\ \A i \in 1..Len(queue') : i \in 1..Len(queue) \/ i = Len(queue) + 1
  BY <1>1, AppendFacts
<1>3. \A q \in Procs : pc'[q] = IF q = p THEN "linked" ELSE pc[q]
  BY <1>1, Zenon DEF At
<1>4. \A q \in Procs : pc[q] \in Sent => pc'[q] \in Sent
  BY <1>3, Zenon DEF Sent
<1>5. pc'[p] \in Sent /\ pc[p] \notin Sent
  BY <1>3, Zenon DEF Sent, Fresh
<1>6. Queued' = Queued \cup {b}
  BY <1>2 DEF Queued
<1>8. \A c \in Queued : /\ c \in Bufs /\ c # b
                       /\ lock[c] \in Procs /\ pc[lock[c]] \in Sent /\ want[lock[c]] = c
  BY <1>5, Zenon DEF IInv, QueueInv
<1>7. Distinct'
  <2>1. \A i \in 1..Len(queue) : queue'[i] # b
    BY <1>2, <1>8 DEF Queued
  <2>2. \A i, j \in 1..Len(queue) : queue'[i] = queue'[j] => i = j
    BY <1>2 DEF IInv, QueueInv, Distinct
  <2>3. ASSUME NEW i \in 1..Len(queue'), NEW j \in 1..Len(queue'), queue'[i] = queue'[j] PROVE i = j
    <3>1. i \in 1..Len(queue) \/ (i = Len(queue) + 1 /\ queue'[i] = b)
      BY <1>2, Zenon
    <3>2. j \in 1..Len(queue) \/ (j = Len(queue) + 1 /\ queue'[j] = b)
      BY <1>2, Zenon
    <3> QED
      BY <2>1, <2>2, <2>3, <3>1, <3>2, Zenon
  <2> QED
    BY <2>3, Zenon DEF Distinct
<1>9. \A c \in Queued' : c \in Bufs /\ lock'[c] \in Procs /\ pc'[lock'[c]] \in Sent /\ want'[lock'[c]] = c
  BY <1>4, <1>5, <1>6, <1>8, Zenon
<1>10. QueueInv'
  BY <1>7, <1>9, Zenon DEF QueueInv
<1> QED
  BY <1>2, <1>6, <1>10, Zenon

\* Steps that keep the requests, and the flags and contents of the buffers.
IoKept == \A q \in Procs :
  /\ pc[q] \in Sent /\ want[q] \notin Valid \ Dirty => pc'[q] \in Sent /\ want'[q] = want[q]
  /\ pc[q] \in Doing /\ want[q] \notin Valid => pc'[q] \in Doing /\ want'[q] = want[q]
  /\ pc'[q] = "woken" => pc[q] = "woken" /\ want'[q] = want[q]

NoneEnters == \A q \in Procs : pc'[q] \in Fresh => pc[q] \in Fresh /\ want'[q] = want[q]

LEMMA QueueKept ==
  ASSUME IInv, queue' = queue, IoKept, \A c \in Queued : lock'[c] = lock[c]
  PROVE  QueueInv' /\ Queued' = Queued
<1>1. Queued' = Queued /\ Distinct' = Distinct
  BY Zenon DEF Queued, Distinct
<1>2. Distinct /\ Queued \subseteq Bufs
  BY DEF IInv, QueueInv
<1>3. \A b \in Queued : /\ lock[b] \in Procs /\ pc[lock[b]] \in Sent /\ want[lock[b]] = b
                        /\ b \notin Valid \ Dirty
  BY Zenon DEF IInv, QueueInv, FlagInv
<1>4. \A b \in Queued : lock'[b] \in Procs /\ pc'[lock'[b]] \in Sent /\ want'[lock'[b]] = b
  BY <1>3, Zenon DEF IoKept
<1> QED
  BY <1>1, <1>2, <1>4, Zenon DEF QueueInv

LEMMA FlagKept ==
  ASSUME IInv, UNCHANGED <<blockno, data, disk, failed>>,
         Valid' = Valid, Dirty' = Dirty, Queued' = Queued, IoKept, NoneEnters,
         \A c \in Bufs : refcnt'[c] # 0 => blockno[c] \in Blocks,
         \A c \in Bufs \ Valid : lock'[c] \in Procs => lock'[c] = lock[c]
  PROVE  FlagInv'
<1>0. FlagInv
  BY DEF IInv
<1>1. \A c \in Bufs : c \in Valid' \/ refcnt'[c] # 0 => blockno'[c] \in Blocks
  BY <1>0, Zenon DEF FlagInv
<1>2. /\ Dirty' \subseteq Valid' /\ failed' \subseteq Valid' \ Dirty'
      /\ Queued' \cap (Valid' \ Dirty') = {}
  BY <1>0, Zenon DEF FlagInv
<1>3. \A c \in Valid' \ (Dirty' \cup failed') : data'[c] = disk'[blockno'[c]]
  BY <1>0, Zenon DEF FlagInv
<1>4. ASSUME NEW c \in Bufs \ Valid', lock'[c] \in Procs
      PROVE  pc'[lock'[c]] \in Doing /\ want'[lock'[c]] = c
  <2>1. c \in Bufs \ Valid /\ lock'[c] = lock[c] /\ lock[c] \in Procs
    BY <1>4, Zenon
  <2>2. pc[lock[c]] \in Doing /\ want[lock[c]] = c
    BY <1>0, <2>1, Zenon DEF FlagInv
  <2> QED
    BY <2>1, <2>2, Zenon DEF IoKept
<1>5. \A q \in Procs : pc'[q] = "woken" => want'[q] \in Valid' \ Dirty'
  BY <1>0, Zenon DEF FlagInv, IoKept
<1>6. \A q \in Procs : pc'[q] \in Fresh => want'[q] \notin Valid' \ Dirty'
  BY <1>0, Zenon DEF FlagInv, NoneEnters
<1> QED
  BY <1>1, <1>2, <1>3, <1>4, <1>5, <1>6, Zenon DEF FlagInv

\* The two ways of get(): it finds the block, or recycles a buffer.
Handed(p, b) == /\ pc[p] = "run" /\ pc' = At(p, "lock")
                /\ want' = [want EXCEPT ![p] = b]
                /\ refs' = [refs EXCEPT ![p] = @ \cup {b}]
                /\ UNCHANGED <<lock, data, lru, queue, disk, missed, panicked>>

Hit(p, k, b) == /\ Handed(p, b) /\ Nests(p, k) /\ Caches(b, k)
                /\ refcnt' = [refcnt EXCEPT ![b] = @ + 1]
                /\ UNCHANGED <<blockno, valid, dirty, failed>>

Miss(p, k, b) == /\ Handed(p, b) /\ Free(b) /\ \A c \in Bufs : ~Caches(c, k)
                 /\ blockno' = [blockno EXCEPT ![b] = k]
                 /\ valid' = [valid EXCEPT ![b] = FALSE]
                 /\ dirty' = [dirty EXCEPT ![b] = FALSE]
                 /\ refcnt' = [refcnt EXCEPT ![b] = 1]
                 /\ failed' = failed \ {b}

LEMMA GetCases ==
  ASSUME NEW p \in Procs, NEW k \in Blocks, Get(p, k)
  PROVE  Panic \/ \E b \in Bufs : Hit(p, k, b) \/ Miss(p, k, b)
<1>1. CASE Panic
  BY <1>1
<1>2. CASE ~Panic
  <2>1. PICK b \in Bufs :
          /\ \/ /\ Caches(b, k)
                /\ refcnt' = [refcnt EXCEPT ![b] = @ + 1]
                /\ UNCHANGED <<blockno, valid, dirty, failed>>
             \/ /\ \A c \in Bufs : ~Caches(c, k)
                /\ Victim(b)
                /\ blockno' = [blockno EXCEPT ![b] = k]
                /\ valid' = [valid EXCEPT ![b] = FALSE]
                /\ dirty' = [dirty EXCEPT ![b] = FALSE]
                /\ refcnt' = [refcnt EXCEPT ![b] = 1]
                /\ failed' = failed \ {b}
          /\ pc' = At(p, "lock")
          /\ want' = [want EXCEPT ![p] = b]
          /\ refs' = [refs EXCEPT ![p] = @ \cup {b}]
          /\ UNCHANGED <<lock, data, lru, queue, disk, missed, panicked>>
    BY <1>2, Zenon DEF Get
  <2>2. pc[p] = "run" /\ Nests(p, k)
    BY Zenon DEF Get
  <2>3. Handed(p, b)
    BY <2>1, <2>2 DEF Handed
  <2>4. Victim(b) => Free(b)
    BY Zenon DEF Victim
  <2> QED
    BY <2>1, <2>2, <2>3, <2>4, Zenon DEF Hit, Miss
<1> QED
  BY <1>1, <1>2

\* What a process that is handed a buffer changes.
LEMMA HandedFacts ==
  ASSUME IInv, NEW p \in Procs, NEW b \in Bufs, Handed(p, b), lock[b] # p
  PROVE  /\ pc[p] = "run" /\ lock' = lock /\ queue' = queue /\ data' = data /\ disk' = disk
         /\ \A q \in Procs : /\ pc'[q] = IF q = p THEN "lock" ELSE pc[q]
                             /\ want'[q] = IF q = p THEN b ELSE want[q]
                             /\ refs'[q] = IF q = p THEN refs[q] \cup {b} ELSE refs[q]
         /\ b \notin refs[p] /\ PtrInv' /\ QueueInv' /\ Queued' = Queued /\ IoKept /\ NoneEnters
<1>1. pc \in [Procs -> Pcs] /\ want \in [Procs -> Bufs \cup {NoBuf}] /\ refs \in [Procs -> SUBSET Bufs]
  BY Zenon DEF IInv, TypeOK
<1>2. pc[p] = "run" /\ lock' = lock /\ queue' = queue /\ data' = data /\ disk' = disk
  BY DEF Handed
<1>3. \A q \in Procs : /\ pc'[q] = IF q = p THEN "lock" ELSE pc[q]
                       /\ want'[q] = IF q = p THEN b ELSE want[q]
                       /\ refs'[q] = IF q = p THEN refs[q] \cup {b} ELSE refs[q]
  BY <1>1, Zenon DEF Handed, At
<1>4. b \notin refs[p] /\ refs[p] = Locked(p)
  BY <1>2 DEF IInv, PtrInv, Locked, Waits
<1>5. PtrInv'
  <2>1. \A q \in Procs : Locked(q)' = Locked(q)
    BY <1>2, Zenon DEF Locked
  <2>2. \A q \in Procs \ {p} : pc'[q] = pc[q] /\ want'[q] = want[q] /\ refs'[q] = refs[q]
    BY <1>3, Zenon
  <2>3. pc'[p] = "lock" /\ want'[p] = b /\ refs'[p] = Locked(p) \cup {b}
    BY <1>3, <1>4, Zenon
  <2> QED
    BY <1>2, <2>1, <2>2, <2>3 DEF IInv, PtrInv, Waits, Doing, Window
<1>6. IoKept /\ NoneEnters
  BY <1>2, <1>3, Zenon DEF IoKept, NoneEnters, Sent, Doing, Window, Fresh
<1>7. QueueInv' /\ Queued' = Queued
  BY <1>2, <1>6, QueueKept, Zenon
<1> QED
  BY <1>2, <1>3, <1>4, <1>5, <1>6, <1>7, Zenon

\* get() finds the block.
LEMMA HitStep ==
  ASSUME IInv, NEW p \in Procs, NEW k \in Blocks, NEW b \in Bufs, Hit(p, k, b)
  PROVE  IInv'
<1>0. CountsRight
  BY Zenon DEF IInv
<1>1. TypeOK
  BY DEF IInv
<1>2. TypeOK'
  <2>1. refcnt' \in [Bufs -> Nat] /\ pc' \in [Procs -> Pcs] /\ want' \in [Procs -> Bufs \cup {NoBuf}]
    BY <1>1 DEF TypeOK, At, Pcs, Hit, Handed
  <2>2. refs' \in [Procs -> SUBSET Bufs]
    BY <1>1, Zenon DEF TypeOK, Hit, Handed
  <2> QED
    BY <1>1, <2>1, <2>2, Zenon DEF TypeOK, Hit, Handed
<1>3. lock[b] # p /\ Handed(p, b) /\ blockno[b] = k /\ UNCHANGED <<blockno, valid, dirty, failed>>
  BY CacheConstants, Zenon DEF Nests, Caches, Hit
<1>4. /\ lock' = lock /\ queue' = queue /\ data' = data /\ disk' = disk /\ b \notin refs[p]
      /\ \A q \in Procs : refs'[q] = IF q = p THEN refs[q] \cup {b} ELSE refs[q]
      /\ \A q \in Procs : pc[q] \in Doing => pc'[q] = pc[q] /\ want'[q] = want[q]
      /\ \A q \in Procs : pc'[q] \in Doing => pc'[q] = pc[q] /\ want'[q] = want[q]
  BY <1>3, HandedFacts, ZenonT(40) DEF Doing, Window
<1>5. \A c \in Bufs : refcnt'[c] = IF c = b THEN refcnt[c] + 1 ELSE refcnt[c]
  BY <1>1, Zenon DEF TypeOK, Hit
<1>6. OneCopy'
  BY <1>3, Zenon DEF IInv, OneCopy
<1>7. RefCounted'
  <2> SUFFICES ASSUME NEW c \in Bufs PROVE refcnt'[c] = Cardinality({q \in Procs : c \in refs'[q]})
    BY Zenon DEF RefCounted
  <2>1. refcnt[c] = Cardinality(Users(c)) /\ Users(c) \in SUBSET Procs
    BY InUse, Zenon
  <2>2. CASE c = b
    <3>1. {q \in Procs : c \in refs'[q]} = Users(c) \cup {p} /\ p \notin Users(c)
      BY <1>4, <2>2, Zenon DEF Users
    <3> QED
      BY <1>5, <2>1, <2>2, <3>1, <1>0, CountMore, Zenon
  <2>3. CASE c # b
    <3>1. {q \in Procs : c \in refs'[q]} = Users(c)
      BY <1>4, <2>3, Zenon DEF Users
    <3> QED
      BY <1>5, <2>1, <2>3, <3>1, Zenon
  <2> QED
    BY <2>2, <2>3, Zenon
<1>8. PtrInv' /\ QueueInv' /\ Queued' = Queued /\ IoKept /\ NoneEnters
  BY <1>3, HandedFacts, Zenon
<1>9. FlagInv'
  <2>1. Valid' = Valid /\ Dirty' = Dirty
    BY <1>3, Zenon DEF Valid, Dirty
  <2>2. \A c \in Bufs : refcnt'[c] # 0 => blockno[c] \in Blocks
    BY <1>3, <1>5, Zenon DEF IInv, FlagInv
  <2> QED
    BY <1>3, <1>4, <1>8, <2>1, <2>2, FlagKept, Zenon
<1> QED
  BY <1>2, <1>6, <1>7, <1>8, <1>9, Zenon DEF IInv

\* get() recycles a buffer that nobody uses.
LEMMA MissStep ==
  ASSUME IInv, NEW p \in Procs, NEW k \in Blocks, NEW b \in Bufs, Miss(p, k, b)
  PROVE  IInv'
<1>0. CountsRight
  BY Zenon DEF IInv
<1>1. TypeOK
  BY DEF IInv
<1>2. TypeOK'
  <2>1. /\ refcnt' \in [Bufs -> Nat] /\ pc' \in [Procs -> Pcs] /\ want' \in [Procs -> Bufs \cup {NoBuf}]
        /\ blockno' \in [Bufs -> Blocks \cup {NoBlock}] /\ failed' \in SUBSET Bufs
    BY <1>1, Zenon DEF TypeOK, At, Pcs, Miss, Handed
  <2>2. refs' \in [Procs -> SUBSET Bufs]
    BY <1>1, Zenon DEF TypeOK, Miss, Handed
  <2>3. valid' \in [Bufs -> BOOLEAN] /\ dirty' \in [Bufs -> BOOLEAN]
    BY <1>1, Zenon DEF TypeOK, Miss
  <2> QED
    BY <1>1, <2>1, <2>2, <2>3, Zenon DEF TypeOK, Miss, Handed
<1>3. Handed(p, b) /\ refcnt[b] = 0 /\ failed' = failed \ {b} /\ \A c \in Bufs : blockno[c] # k
  BY DEF Miss, Free, Caches
<1>a. lock[b] = Nobody /\ \A q \in Procs : b \notin refs[q] /\ lock[b] # q
  BY <1>3, InUse, CacheConstants, Zenon
<1>4. /\ lock' = lock /\ queue' = queue /\ data' = data /\ disk' = disk
      /\ \A q \in Procs : refs'[q] = IF q = p THEN refs[q] \cup {b} ELSE refs[q]
      /\ \A q \in Procs : pc[q] \in Doing => pc'[q] = pc[q] /\ want'[q] = want[q]
      /\ \A q \in Procs : pc'[q] \in Doing => pc'[q] = pc[q] /\ want'[q] = want[q]
  <2>1. Handed(p, b) /\ lock[b] # p
    BY <1>3, <1>a, Zenon
  <2>2. /\ pc[p] = "run" /\ lock' = lock /\ queue' = queue /\ data' = data /\ disk' = disk
        /\ \A q \in Procs : /\ pc'[q] = IF q = p THEN "lock" ELSE pc[q]
                            /\ want'[q] = IF q = p THEN b ELSE want[q]
                            /\ refs'[q] = IF q = p THEN refs[q] \cup {b} ELSE refs[q]
    BY <2>1, HandedFacts, Zenon
  <2> QED
    BY <2>2, Zenon DEF Doing, Window
<1>5. \A c \in Bufs : /\ refcnt'[c] = IF c = b THEN 1 ELSE refcnt[c]
                      /\ blockno'[c] = IF c = b THEN k ELSE blockno[c]
  BY <1>1, Zenon DEF TypeOK, Miss
<1>6. OneCopy'
  BY <1>3, <1>5, Zenon DEF IInv, OneCopy
<1>7. RefCounted'
  <2> SUFFICES ASSUME NEW c \in Bufs PROVE refcnt'[c] = Cardinality({q \in Procs : c \in refs'[q]})
    BY Zenon DEF RefCounted
  <2>1. CASE c = b
    <3>1. {q \in Procs : c \in refs'[q]} = {p}
      BY <1>a, <1>4, <2>1, Zenon
    <3> QED
      BY <1>5, <2>1, <3>1, <1>0, CountOne, Zenon
  <2>2. CASE c # b
    <3>1. {q \in Procs : c \in refs'[q]} = Users(c)
      BY <1>4, <2>2, Zenon DEF Users
    <3>2. refcnt[c] = Cardinality(Users(c))
      BY InUse, Zenon
    <3> QED
      BY <1>5, <2>2, <3>1, <3>2, Zenon
  <2> QED
    BY <2>1, <2>2
<1>8. PtrInv' /\ QueueInv' /\ Queued' = Queued /\ NoneEnters
  BY <1>3, <1>a, HandedFacts, Zenon
<1>9. FlagInv'
  <2>1. Valid' = Valid \ {b} /\ Dirty' = Dirty \ {b}
    BY <1>1, Zenon DEF Valid, Dirty, TypeOK, Miss
  <2>2. b \notin Queued
    BY <1>a, CacheConstants, Zenon DEF IInv, QueueInv
  <2>3. \A c \in Bufs : c \in Valid' \/ refcnt'[c] # 0 => blockno'[c] \in Blocks
    BY <1>5, <2>1, Zenon DEF IInv, FlagInv
  <2>4. \A c \in Valid' \ (Dirty' \cup failed') : data'[c] = disk'[blockno'[c]]
    BY <1>3, <1>4, <1>5, <2>1 DEF IInv, FlagInv, Valid
  <2>5. \A c \in Bufs \ Valid' : lock'[c] \in Procs => pc'[lock'[c]] \in Doing /\ want'[lock'[c]] = c
    BY <1>a, <1>4, <2>1, Zenon DEF IInv, FlagInv
  <2>9. \A q \in Procs : pc'[q] \in Fresh => want'[q] \notin Valid' \ Dirty'
    <3>1. \A q \in Procs : pc[q] \in Fresh => want[q] # b
      BY <1>a DEF IInv, PtrInv, Doing, Window, Fresh
    <3> QED
      BY <1>8, <2>1, <3>1, Zenon DEF IInv, FlagInv, NoneEnters
  <2>6. \A q \in Procs : pc'[q] = "woken" => want'[q] \in Valid' \ Dirty'
    <3>1. \A q \in Procs : pc[q] = "woken" => want[q] # b
      BY <1>a DEF IInv, PtrInv, Doing
    <3> QED
      BY <1>4, <2>1, <3>1, Zenon DEF IInv, FlagInv, Doing
  <2>7. Dirty' \subseteq Valid' /\ failed' \subseteq Valid' \ Dirty'
    BY <1>3, <2>1, Zenon DEF IInv, FlagInv
  <2>8. Queued' \cap (Valid' \ Dirty') = {}
    BY <1>8, <2>1, <2>2, Zenon DEF IInv, FlagInv
  <2> QED
    BY <2>3, <2>4, <2>5, <2>6, <2>7, <2>8, <2>9, Zenon DEF FlagInv
<1> QED
  BY <1>2, <1>6, <1>7, <1>8, <1>9, Zenon DEF IInv

\* acquiresleep: wait, take the lock of a buffer that has been read, or take it
\* and read the buffer.
Blocked(p) == /\ pc[p] = "lock" /\ pc' = At(p, "asleep") /\ lock[want[p]] # Nobody
              /\ UNCHANGED <<bufs, queue, disk, want, refs, failed, missed, panicked>>

Took(p, b) == /\ pc[p] = "lock" /\ b = want[p] /\ lock[b] = Nobody
              /\ lock' = [lock EXCEPT ![b] = p]
              /\ UNCHANGED <<blockno, valid, dirty, refcnt, data, lru, queue, disk, refs, failed, panicked>>

LEMMA AcquireCases ==
  ASSUME NEW p \in Procs, AcquireSleep(p)
  PROVE  \/ Blocked(p)
         \/ Took(p, want[p]) /\ valid[want[p]] /\ Run(p) /\ UNCHANGED missed
         \/ Took(p, want[p]) /\ ~valid[want[p]] /\ Iderw(p, want[p])
BY Zenon DEF AcquireSleep, Blocked, Took, Busy, bufs

LEMMA BlockedStep ==
  ASSUME IInv, NEW p \in Procs, Blocked(p)
  PROVE  IInv'
<1>1. TypeOK
  BY Zenon DEF IInv
<1>2. /\ pc[p] = "lock" /\ UNCHANGED <<blockno, refcnt, lock, data, lru, queue, disk, want, refs, failed>>
      /\ UNCHANGED <<valid, dirty, missed, panicked>> /\ pc' = [pc EXCEPT ![p] = "asleep"]
  BY DEF Blocked, bufs, At
<1>3. pc' \in [Procs -> Pcs] /\ \A q \in Procs : pc'[q] = IF q = p THEN "asleep" ELSE pc[q]
  BY <1>1, <1>2, Zenon DEF TypeOK, Pcs
<1>4. TypeOK'
  BY <1>1, <1>2, <1>3, Zenon DEF TypeOK
<1>5. OneCopy' /\ RefCounted'
  BY <1>2, Zenon DEF IInv, OneCopy, RefCounted
<1>6. PtrInv'
  BY <1>2, <1>3, Zenon DEF IInv, PtrInv, Locked, Waits, Doing, Window
<1>7. IoKept /\ NoneEnters
  BY <1>2, <1>3, Zenon DEF IoKept, NoneEnters, Sent, Doing, Window, Fresh
<1>8. QueueInv' /\ Queued' = Queued
  BY <1>2, <1>7, QueueKept, Zenon
<1>9. Valid' = Valid /\ Dirty' = Dirty /\ \A c \in Bufs : refcnt'[c] # 0 => blockno[c] \in Blocks
  BY <1>2, Zenon DEF Valid, Dirty, IInv, FlagInv
<1>10. FlagInv'
  BY <1>2, <1>7, <1>8, <1>9, FlagKept, Zenon
<1> QED
  BY <1>4, <1>5, <1>6, <1>8, <1>10, Zenon DEF IInv

\* What a process that takes the lock changes.
LEMMA TookFacts ==
  ASSUME IInv, NEW p \in Procs, NEW b, Took(p, b)
  PROVE  /\ b \in Bufs /\ want[p] = b /\ pc[p] = "lock"
         /\ lock' \in [Bufs -> Procs \cup {Nobody}]
         /\ \A c \in Bufs : lock'[c] = IF c = b THEN p ELSE lock[c]
         /\ \A q \in Procs \ {p} : Locked(q)' = Locked(q)
         /\ refs[p] = Locked(p)'
         /\ \A q \in Procs : lock[b] # q
         /\ UNCHANGED <<blockno, refcnt, data, lru, queue, disk, refs, failed>>
         /\ UNCHANGED <<valid, dirty, panicked>>
         /\ OneCopy' /\ RefCounted' /\ Valid' = Valid /\ Dirty' = Dirty
<1>1. want[p] = b /\ pc[p] = "lock" /\ lock[b] = Nobody /\ lock' = [lock EXCEPT ![b] = p]
  BY Zenon DEF Took
<1>2. b \in Bufs /\ refs[p] = Locked(p) \cup {b}
  BY <1>1, Zenon DEF IInv, PtrInv, Waits
<1>3. lock \in [Bufs -> Procs \cup {Nobody}]
  BY Zenon DEF IInv, TypeOK
<1>4. /\ lock' \in [Bufs -> Procs \cup {Nobody}]
      /\ \A c \in Bufs : lock'[c] = IF c = b THEN p ELSE lock[c]
  BY <1>1, <1>2, <1>3
<1>5. \A q \in Procs : lock[b] # q
  BY <1>1, CacheConstants, Zenon
<1>6. (\A q \in Procs \ {p} : Locked(q)' = Locked(q)) /\ Locked(p)' = Locked(p) \cup {b}
  BY <1>2, <1>4, <1>5, Zenon DEF Locked
<1>7. /\ UNCHANGED <<blockno, refcnt, data, lru, queue, disk, refs, failed>>
      /\ UNCHANGED <<valid, dirty, panicked>>
  BY Zenon DEF Took
<1>8. OneCopy' /\ RefCounted'
  BY <1>7, Zenon DEF IInv, OneCopy, RefCounted
<1>9. Valid' = Valid /\ Dirty' = Dirty
  BY <1>7, Zenon DEF Valid, Dirty
<1> QED
  BY <1>1, <1>2, <1>4, <1>5, <1>6, <1>7, <1>8, <1>9, Zenon

LEMMA TookRunStep ==
  ASSUME IInv, NEW p \in Procs, NEW b, Took(p, b), valid[b], Run(p), UNCHANGED missed
  PROVE  IInv'
<1>1. TypeOK
  BY DEF IInv
<1>2. /\ b \in Bufs /\ want[p] = b /\ pc[p] = "lock" /\ lock' \in [Bufs -> Procs \cup {Nobody}]
      /\ \A c \in Bufs : lock'[c] = IF c = b THEN p ELSE lock[c]
      /\ \A q \in Procs \ {p} : Locked(q)' = Locked(q)
      /\ refs[p] = Locked(p)' /\ \A q \in Procs : lock[b] # q
      /\ UNCHANGED <<blockno, refcnt, data, lru, queue, disk, refs, failed>>
      /\ UNCHANGED <<valid, dirty, panicked>>
      /\ OneCopy' /\ RefCounted' /\ Valid' = Valid /\ Dirty' = Dirty
  BY TookFacts
<1>3. /\ pc' \in [Procs -> Pcs] /\ want' \in [Procs -> Bufs \cup {NoBuf}]
      /\ \A q \in Procs : /\ pc'[q] = IF q = p THEN "run" ELSE pc[q]
                          /\ want'[q] = IF q = p THEN NoBuf ELSE want[q]
  BY <1>1, Zenon DEF TypeOK, Pcs, Run, At
<1>4. TypeOK'
  BY <1>1, <1>2, <1>3, Zenon DEF TypeOK
<1>5. \A q \in Procs \ {p} : pc'[q] = pc[q] /\ want'[q] = want[q] /\ refs'[q] = refs[q]
  BY <1>2, <1>3, Zenon
<1>6. PtrInv'
  BY <1>2, <1>3, <1>5 DEF IInv, PtrInv, Waits, Doing, Window
<1>7. IoKept /\ NoneEnters
  BY <1>2, <1>3, Zenon DEF IoKept, NoneEnters, Sent, Doing, Window, Fresh
<1>8. b \notin Queued /\ Queued \subseteq Bufs
  BY <1>2, Zenon DEF IInv, QueueInv
<1>9. QueueInv' /\ Queued' = Queued
  BY <1>2, <1>7, <1>8, QueueKept, Zenon
<1>10. b \in Valid /\ \A c \in Bufs : refcnt'[c] # 0 => blockno[c] \in Blocks
  BY <1>2, Zenon DEF Valid, IInv, FlagInv
<1>11. FlagInv'
  <2>1. \A c \in Bufs \ Valid : lock'[c] = lock[c]
    BY <1>2, <1>10, Zenon
  <2> QED
    BY <1>2, <1>7, <1>9, <1>10, <2>1, FlagKept, Zenon
<1> QED
  BY <1>2, <1>4, <1>6, <1>9, <1>11, Zenon DEF IInv

\* A process enters iderw.
LEMMA EnterFacts ==
  ASSUME TypeOK, NEW p \in Procs, NEW b \in Bufs, Iderw(p, b)
  PROVE  /\ pc' \in [Procs -> Pcs] /\ want' \in [Procs -> Bufs \cup {NoBuf}] /\ missed' \in SUBSET Procs
         /\ pc'[p] \in Fresh /\ want'[p] = b
         /\ \A q \in Procs \ {p} : pc'[q] = pc[q] /\ want'[q] = want[q]
<1>1. PICK l \in Fresh : pc' = [pc EXCEPT ![p] = l]
  BY Zenon DEF Iderw, At, Fresh
<1>2. l \in Pcs
  BY Zenon DEF Fresh, Pcs, Window
<1> QED
  BY <1>1, <1>2, Zenon DEF Iderw, TypeOK

LEMMA TookReadStep ==
  ASSUME IInv, NEW p \in Procs, NEW b, Took(p, b), ~valid[b], Iderw(p, b)
  PROVE  IInv'
<1>1. TypeOK
  BY Zenon DEF IInv
<1>2. /\ b \in Bufs /\ want[p] = b /\ pc[p] = "lock" /\ lock' \in [Bufs -> Procs \cup {Nobody}]
      /\ \A c \in Bufs : lock'[c] = IF c = b THEN p ELSE lock[c]
      /\ \A q \in Procs \ {p} : Locked(q)' = Locked(q)
      /\ refs[p] = Locked(p)' /\ \A q \in Procs : lock[b] # q
      /\ UNCHANGED <<blockno, refcnt, data, lru, queue, disk, refs, failed>>
      /\ UNCHANGED <<valid, dirty, panicked>>
      /\ OneCopy' /\ RefCounted' /\ Valid' = Valid /\ Dirty' = Dirty
  BY TookFacts
<1>3. b \notin Queued /\ Queued \subseteq Bufs
  BY <1>2, Zenon DEF IInv, QueueInv
<1>4. /\ pc' \in [Procs -> Pcs] /\ want' \in [Procs -> Bufs \cup {NoBuf}] /\ missed' \in SUBSET Procs
      /\ pc'[p] \in Fresh /\ want'[p] = b
      /\ \A q \in Procs \ {p} : pc'[q] = pc[q] /\ want'[q] = want[q]
  BY <1>1, <1>2, EnterFacts, Zenon
<1>5. TypeOK'
  BY <1>1, <1>2, <1>4, Zenon DEF TypeOK
<1>6. \A q \in Procs \ {p} : pc'[q] = pc[q] /\ want'[q] = want[q] /\ refs'[q] = refs[q]
  BY <1>2, <1>4, Zenon
<1>7. PtrInv'
  <2>1. pc'[p] \in Fresh /\ want'[p] = b /\ lock'[b] = p /\ refs'[p] = Locked(p)'
    BY <1>2, <1>4, Zenon
  <2>2. \A q \in Procs \ {p}, c \in Bufs : lock'[c] = q <=> lock[c] = q
    BY <1>2, Zenon
  <2>3. PtrInv
    BY Zenon DEF IInv
  <2> QED
    BY <1>2, <1>6, <2>1, <2>2, <2>3 DEF PtrInv, Waits, Doing, Window, Fresh
<1>8. IoKept
  BY <1>2, <1>4, Zenon DEF IoKept, Sent, Doing, Window, Fresh
<1>9. QueueInv' /\ Queued' = Queued
  <2>1. \A c \in Queued : lock'[c] = lock[c]
    BY <1>2, <1>3, Zenon
  <2> QED
    BY <1>2, <1>8, <2>1, QueueKept, Zenon
<1>10. FlagInv'
  <2>0. FlagInv
    BY Zenon DEF IInv
  <2>1. b \notin Valid
    BY Zenon DEF Valid
  <2>a. pc'[p] \in Doing
    BY <1>4, Zenon DEF Doing, Window, Fresh
  <2>2. ASSUME NEW c \in Bufs \ Valid', lock'[c] \in Procs
        PROVE  pc'[lock'[c]] \in Doing /\ want'[lock'[c]] = c
    <3>1. CASE c = b
      BY <1>2, <1>4, <2>a, <3>1, Zenon
    <3>2. CASE c # b
      <4>1. c \in Bufs \ Valid /\ lock'[c] = lock[c] /\ lock[c] \in Procs
        BY <1>2, <2>2, <3>2, Zenon
      <4>2. pc[lock[c]] \in Doing /\ want[lock[c]] = c
        BY <2>0, <4>1, Zenon DEF FlagInv
      <4> QED
        BY <1>8, <4>1, <4>2, Zenon DEF IoKept
    <3> QED
      BY <3>1, <3>2, Zenon
  <2>3. ASSUME NEW q \in Procs, pc'[q] \in Fresh PROVE want'[q] \notin Valid' \ Dirty'
    <3>1. CASE q = p
      BY <1>2, <1>4, <2>1, <3>1, Zenon
    <3>2. CASE q # p
      <4>1. pc[q] \in Fresh /\ want'[q] = want[q]
        BY <1>4, <2>3, <3>2, Zenon
      <4> QED
        BY <1>2, <2>0, <4>1, Zenon DEF FlagInv
    <3> QED
      BY <3>1, <3>2, Zenon
  <2>4. Queued' \cap (Valid' \ Dirty') = {}
    BY <1>2, <1>9, <2>0, Zenon DEF FlagInv
  <2>5. \A q \in Procs : pc'[q] = "woken" => want'[q] \in Valid' \ Dirty'
    BY <1>2, <1>8, <2>0, Zenon DEF FlagInv, IoKept
  <2>6. \A c \in Bufs : c \in Valid' \/ refcnt'[c] # 0 => blockno'[c] \in Blocks
    BY <1>2, <2>0, Zenon DEF FlagInv
  <2>7. \A c \in Valid' \ (Dirty' \cup failed') : data'[c] = disk'[blockno'[c]]
    BY <1>2, <2>0, Zenon DEF FlagInv
  <2>8. Dirty' \subseteq Valid' /\ failed' \subseteq Valid' \ Dirty'
    BY <1>2, <2>0, Zenon DEF FlagInv
  <2> QED
    BY <2>2, <2>3, <2>4, <2>5, <2>6, <2>7, <2>8, Zenon DEF FlagInv
<1> QED
  BY <1>2, <1>5, <1>7, <1>9, <1>10, Zenon DEF IInv

\* A step inside iderw that moves only the process itself, from one place of
\* iderw to another.
LEMMA MoveStep ==
  ASSUME IInv, NEW p \in Procs, NEW l \in Sent, pc[p] \in Doing, pc' = At(p, l),
         UNCHANGED <<blockno, refcnt, lock, data, lru, disk, want, refs, failed, missed>>,
         UNCHANGED <<valid, dirty, panicked>>,
         QueueInv', queue' \in Seq(Bufs), Queued' \cap (Valid \ Dirty) = {}
  PROVE  IInv'
<1>1. TypeOK /\ FlagInv
  BY Zenon DEF IInv
<1>a. l \in Pcs
  BY Zenon DEF Sent, Pcs, Window
<1>2. pc' \in [Procs -> Pcs] /\ \A q \in Procs : pc'[q] = IF q = p THEN l ELSE pc[q]
  BY <1>1, <1>a, Zenon DEF TypeOK, At
<1>3. TypeOK'
  BY <1>1, <1>2, Zenon DEF TypeOK
<1>4. OneCopy' /\ RefCounted'
  BY Zenon DEF IInv, OneCopy, RefCounted
<1>5. (\A q \in Procs : Locked(q)' = Locked(q)) /\ Valid' = Valid /\ Dirty' = Dirty
  BY Zenon DEF Locked, Valid, Dirty
<1>6. l \in Doing /\ l \notin Waits /\ l # "run" /\ pc[p] \notin Waits /\ pc[p] # "run" /\ l # "woken" /\ l \notin Fresh
  BY Zenon DEF Sent, Doing, Window, Waits, Fresh
<1>7. PtrInv'
  <2>1. \A q \in Procs : /\ pc'[q] \in Waits <=> pc[q] \in Waits
                         /\ pc'[q] \in Doing <=> pc[q] \in Doing
                         /\ pc'[q] # "run" => pc[q] # "run"
    BY <1>2, <1>6, Zenon
  <2> QED
    BY <1>5, <2>1, Zenon DEF IInv, PtrInv
<1>8. FlagInv'
  <2>1. \A c \in Bufs : c \in Valid' \/ refcnt'[c] # 0 => blockno'[c] \in Blocks
    BY <1>1, <1>5, Zenon DEF FlagInv
  <2>2. /\ Dirty' \subseteq Valid' /\ failed' \subseteq Valid' \ Dirty'
        /\ Queued' \cap (Valid' \ Dirty') = {}
    BY <1>1, <1>5, Zenon DEF FlagInv
  <2>3. \A c \in Valid' \ (Dirty' \cup failed') : data'[c] = disk'[blockno'[c]]
    BY <1>1, <1>5, Zenon DEF FlagInv
  <2>4. \A c \in Bufs \ Valid' : lock'[c] \in Procs => pc'[lock'[c]] \in Doing /\ want'[lock'[c]] = c
    BY <1>1, <1>2, <1>5, <1>6, Zenon DEF FlagInv
  <2>5. \A q \in Procs : pc'[q] = "woken" => want'[q] \in Valid' \ Dirty'
    BY <1>1, <1>2, <1>5, <1>6, Zenon DEF FlagInv
  <2>6. \A q \in Procs : pc'[q] \in Fresh => want'[q] \notin Valid' \ Dirty'
    BY <1>1, <1>2, <1>5, <1>6, Zenon DEF FlagInv
  <2> QED
    BY <2>1, <2>2, <2>3, <2>4, <2>5, <2>6, Zenon DEF FlagInv
<1> QED
  BY <1>3, <1>4, <1>7, <1>8, Zenon DEF IInv

\* The same when the queue stays as it is.
LEMMA StayStep ==
  ASSUME IInv, NEW p \in Procs, NEW l \in Sent, pc[p] \in Doing, pc' = At(p, l),
         pc[p] # "woken", UNCHANGED <<bufs, queue, disk, want, refs, failed, missed, panicked>>
  PROVE  IInv'
<1>1. /\ UNCHANGED <<blockno, refcnt, lock, data, lru, disk, want, refs, failed, missed>>
      /\ UNCHANGED <<valid, dirty, panicked>> /\ queue' = queue
  BY Zenon DEF bufs
<1>2. \A q \in Procs : pc'[q] = IF q = p THEN l ELSE pc[q]
  BY Zenon DEF IInv, TypeOK, At
<1>3. l \in Doing /\ l # "woken"
  BY Zenon DEF Sent, Doing, Window
<1>4. IoKept
  BY <1>1, <1>2, <1>3, Zenon DEF IoKept
<1>5. QueueInv' /\ Queued' = Queued
  BY <1>1, <1>4, QueueKept, Zenon
<1>6. queue' \in Seq(Bufs) /\ Queued' \cap (Valid \ Dirty) = {}
  BY <1>1, <1>5, Zenon DEF IInv, TypeOK, FlagInv
<1> QED
  BY <1>1, <1>5, <1>6, MoveStep, Zenon

LEMMA LinkStep ==
  ASSUME IInv, NEW p \in Procs, Link(p)
  PROVE  IInv'
<1>1. /\ pc[p] \in Fresh /\ pc' = At(p, "linked")
      /\ UNCHANGED <<bufs, disk, want, refs, failed, missed, panicked>>
      /\ queue' = queue \/ queue' = Append(queue, want[p])
  BY Zenon DEF Link, Fresh
<1>2. "linked" \in Sent /\ pc[p] \in Doing /\ pc[p] # "woken" /\ pc[p] # "run"
  BY <1>1, Zenon DEF Sent, Doing, Window, Fresh
<1>3. want[p] \in Bufs /\ lock[want[p]] = p /\ want[p] \notin Valid \ Dirty
  BY <1>1, <1>2, Zenon DEF IInv, PtrInv, FlagInv
<1>4. CASE queue' = queue
  BY <1>1, <1>2, <1>4, StayStep, Zenon
<1>5. CASE queue' = Append(queue, want[p])
  <2>1. /\ UNCHANGED <<blockno, refcnt, lock, data, lru, disk, want, refs, failed, missed>>
        /\ UNCHANGED <<valid, dirty, panicked>>
    BY <1>1, Zenon DEF bufs
  <2>2. QueueInv' /\ queue' \in Seq(Bufs) /\ Queued' = Queued \cup {want[p]}
    BY <1>1, <1>3, <1>5, <2>1, LinkQueue, Zenon
  <2>a. Queued \cap (Valid \ Dirty) = {}
    BY Zenon DEF IInv, FlagInv
  <2>3. Queued' \cap (Valid \ Dirty) = {}
    BY <1>3, <2>a, <2>2
  <2> QED
    BY <1>1, <1>2, <2>1, <2>2, <2>3, MoveStep, Zenon
<1> QED
  BY <1>1, <1>4, <1>5, Zenon

LEMMA SleepStep ==
  ASSUME IInv, NEW p \in Procs, Sleep(p)
  PROVE  IInv'
<1>1. "io" \in Sent /\ pc[p] \in Doing /\ pc[p] # "woken"
  BY Zenon DEF Sleep, Sent, Doing, Window
<1> QED
  BY <1>1, StayStep, Zenon DEF Sleep

\* The loop of iderw: a process that was woken finds its request served.
LEMMA CheckStep ==
  ASSUME IInv, NEW p \in Procs, Check(p)
  PROVE  IInv'
<1>1. TypeOK /\ FlagInv
  BY Zenon DEF IInv
<1>2. /\ pc[p] \in {"linked", "woken"}
      /\ UNCHANGED <<bufs, queue, disk, refs, failed, missed, panicked>>
      /\ UNCHANGED <<blockno, refcnt, lock, data, lru, queue, disk, refs, failed, missed>>
      /\ UNCHANGED <<valid, dirty, panicked>>
  BY Zenon DEF Check, bufs
<1>3. want[p] \in Bufs /\ pc[p] \in Doing /\ "drowsy" \in Sent
  BY <1>2, Zenon DEF IInv, PtrInv, Doing, Window, Sent
<1>4. CASE ~(valid[want[p]] /\ ~dirty[want[p]])
  <2>1. pc[p] # "woken"
    BY <1>1, <1>4, Zenon DEF FlagInv, Valid, Dirty
  <2>2. pc' = At(p, "drowsy") /\ UNCHANGED want
    BY <1>4, Zenon DEF Check
  <2> QED
    BY <1>2, <1>3, <2>1, <2>2, StayStep, Zenon
<1>5. CASE valid[want[p]] /\ ~dirty[want[p]]
  <2>0. want[p] \in Valid \ Dirty
    BY <1>3, <1>5, Zenon DEF Valid, Dirty
  <2>1. /\ pc' \in [Procs -> Pcs] /\ want' \in [Procs -> Bufs \cup {NoBuf}]
        /\ \A q \in Procs : /\ pc'[q] = IF q = p THEN "run" ELSE pc[q]
                            /\ want'[q] = IF q = p THEN NoBuf ELSE want[q]
    BY <1>1, <1>5, Zenon DEF TypeOK, Pcs, Check, Run, At
  <2>2. TypeOK'
    BY <1>1, <1>2, <2>1, Zenon DEF TypeOK
  <2>3. OneCopy' /\ RefCounted'
    BY <1>2, Zenon DEF IInv, OneCopy, RefCounted
  <2>4. (\A q \in Procs : Locked(q)' = Locked(q)) /\ Valid' = Valid /\ Dirty' = Dirty
    BY <1>2, Zenon DEF Locked, Valid, Dirty
  <2>5. PtrInv'
    BY <1>2, <1>3, <2>1, <2>4 DEF IInv, PtrInv, Waits, Doing, Window
  <2>6. IoKept /\ NoneEnters
    BY <2>0, <2>1, Zenon DEF IoKept, NoneEnters, Fresh
  <2>7. QueueInv' /\ Queued' = Queued
    BY <1>2, <2>6, QueueKept, Zenon
  <2>8. \A c \in Bufs : refcnt'[c] # 0 => blockno[c] \in Blocks
    BY <1>1, <1>2, Zenon DEF FlagInv
  <2>9. FlagInv'
    BY <1>2, <2>4, <2>6, <2>7, <2>8, FlagKept, Zenon
  <2> QED
    BY <2>2, <2>3, <2>5, <2>7, <2>9, Zenon DEF IInv
<1> QED
  BY <1>4, <1>5, Zenon

\* A running process has read the buffers it has locked, and waits for none.
LEMMA HasLocked ==
  ASSUME IInv, NEW p \in Procs, NEW b \in Bufs, pc[p] = "run", lock[b] = p
  PROVE  /\ b \in Valid /\ blockno[b] \in Blocks
         /\ b \notin Queued
         /\ \A q \in Procs : pc[q] \in Doing => want[q] # b
<1>1. b \in Valid
  BY Zenon DEF IInv, FlagInv, Doing, Window
<1>2. b \notin Queued
  BY Zenon DEF IInv, QueueInv, Sent
<1>3. \A q \in Procs : pc[q] \in Doing => want[q] # b
  BY Zenon DEF IInv, PtrInv, Doing, Window
<1>4. blockno[b] \in Blocks
  BY <1>1, Zenon DEF IInv, FlagInv
<1> QED
  BY <1>1, <1>2, <1>3, <1>4, Zenon

LEMMA LogWriteStep ==
  ASSUME IInv, NEW p \in Procs, NEW b \in Bufs, NEW v \in Values, LogWrite(p, b, v)
  PROVE  IInv'
<1>1. TypeOK
  BY Zenon DEF IInv
<1>2. /\ pc[p] = "run" /\ lock[b] = p /\ failed' = failed \ {b}
      /\ UNCHANGED <<blockno, refcnt, lock, lru, queue, disk, pc, want, refs, missed>>
      /\ UNCHANGED <<valid, panicked>>
  BY Zenon DEF LogWrite
<1>3. /\ data' \in [Bufs -> Values] /\ dirty' \in [Bufs -> BOOLEAN]
      /\ \A c \in Bufs : c # b => data'[c] = data[c]
      /\ Valid' = Valid /\ Dirty' = Dirty \cup {b}
  BY <1>1, Zenon DEF TypeOK, LogWrite, Valid, Dirty
<1>4. TypeOK'
  BY <1>1, <1>2, <1>3, Zenon DEF TypeOK
<1>5. OneCopy' /\ RefCounted' /\ PtrInv' /\ QueueInv'
  <2>a. OneCopy' /\ RefCounted' /\ \A q \in Procs : Locked(q)' = Locked(q)
    BY <1>2, Zenon DEF IInv, OneCopy, RefCounted, Locked
  <2>1. PtrInv'
    BY <1>2, <2>a DEF IInv, PtrInv
  <2>2. IoKept
    BY <1>2, Zenon DEF IoKept
  <2> QED
    BY <1>2, <2>a, <2>1, <2>2, QueueKept, Zenon
<1>6. FlagInv'
  <2>1. b \in Valid /\ b \notin Queued /\ \A q \in Procs : pc[q] \in Doing => want[q] # b
    BY <1>2, HasLocked, Zenon
  <2>2. \A c \in Bufs : c \in Valid' \/ refcnt'[c] # 0 => blockno'[c] \in Blocks
    BY <1>2, <1>3, Zenon DEF IInv, FlagInv
  <2>3. Dirty' \subseteq Valid' /\ failed' \subseteq Valid' \ Dirty' /\ Queued' \cap (Valid' \ Dirty') = {}
    BY <1>2, <1>3, <2>1 DEF IInv, FlagInv, Queued
  <2>4. \A c \in Valid' \ (Dirty' \cup failed') : data'[c] = disk'[blockno'[c]]
    BY <1>2, <1>3, SMTT(30) DEF IInv, FlagInv, Valid
  <2>5. \A c \in Bufs \ Valid' : lock'[c] \in Procs => pc'[lock'[c]] \in Doing /\ want'[lock'[c]] = c
    BY <1>2, <1>3, Zenon DEF IInv, FlagInv
  <2>6. \A q \in Procs : pc'[q] = "woken" => want'[q] \in Valid' \ Dirty'
    BY <1>2, <1>3, <2>1, Zenon DEF IInv, FlagInv, Doing
  <2>7. \A q \in Procs : pc'[q] \in Fresh => want'[q] \notin Valid' \ Dirty'
    BY <1>2, <1>3, Zenon DEF IInv, FlagInv
  <2> QED
    BY <2>2, <2>3, <2>4, <2>5, <2>6, <2>7, Zenon DEF FlagInv
<1> QED
  BY <1>4, <1>5, <1>6, Zenon DEF IInv

LEMMA BwriteStep ==
  ASSUME IInv, NEW p \in Procs, NEW b \in Bufs, NEW v \in Values, Bwrite(p, b, v)
  PROVE  IInv'
<1>1. TypeOK
  BY Zenon DEF IInv
<1>2. /\ pc[p] = "run" /\ lock[b] = p /\ failed' = failed \ {b} /\ Iderw(p, b)
      /\ UNCHANGED <<blockno, refcnt, lock, lru, queue, disk, refs>>
      /\ UNCHANGED <<valid, panicked>>
  BY Zenon DEF Bwrite
<1>3. /\ data' \in [Bufs -> Values] /\ dirty' \in [Bufs -> BOOLEAN]
      /\ \A c \in Bufs : c # b => data'[c] = data[c]
      /\ Valid' = Valid /\ Dirty' = Dirty \cup {b}
  BY <1>1, Zenon DEF TypeOK, Bwrite, Valid, Dirty
<1>4. b \in Valid /\ b \notin Queued /\ \A q \in Procs : pc[q] \in Doing => want[q] # b
  BY <1>2, HasLocked, Zenon
<1>5. /\ pc' \in [Procs -> Pcs] /\ want' \in [Procs -> Bufs \cup {NoBuf}] /\ missed' \in SUBSET Procs
      /\ pc'[p] \in Fresh /\ want'[p] = b
      /\ \A q \in Procs \ {p} : pc'[q] = pc[q] /\ want'[q] = want[q]
  BY <1>1, <1>2, EnterFacts, Zenon
<1>6. TypeOK'
  BY <1>1, <1>2, <1>3, <1>5, Zenon DEF TypeOK
<1>7. OneCopy' /\ RefCounted' /\ \A q \in Procs : Locked(q)' = Locked(q)
  BY <1>2, Zenon DEF IInv, OneCopy, RefCounted, Locked
<1>8. PtrInv'
  BY <1>2, <1>5, <1>7 DEF IInv, PtrInv, Waits, Doing, Window, Fresh
<1>9. IoKept
  BY <1>2, <1>5, Zenon DEF IoKept, Sent, Doing, Window, Fresh
<1>10. QueueInv' /\ Queued' = Queued
  BY <1>2, <1>9, QueueKept, Zenon
<1>11. FlagInv'
  <2>0. FlagInv
    BY Zenon DEF IInv
  <2>1. \A q \in Procs : pc'[q] \in Fresh => want'[q] \notin Valid' \ Dirty'
    BY <1>3, <1>5, <2>0, Zenon DEF FlagInv
  <2>2. \A q \in Procs : pc'[q] = "woken" => want'[q] \in Valid' \ Dirty'
    BY <1>3, <1>4, <1>9, <2>0, Zenon DEF FlagInv, IoKept, Doing
  <2>3. Queued' \cap (Valid' \ Dirty') = {}
    BY <1>3, <1>10, <2>0, Zenon DEF FlagInv
  <2>4. \A c \in Valid' \ (Dirty' \cup failed') : data'[c] = disk'[blockno'[c]]
    BY <1>2, <1>3, SMTT(30) DEF IInv, FlagInv, Valid
  <2>5. ASSUME NEW c \in Bufs \ Valid', lock'[c] \in Procs
        PROVE  pc'[lock'[c]] \in Doing /\ want'[lock'[c]] = c
    <3>1. c \in Bufs \ Valid /\ lock'[c] = lock[c] /\ lock[c] \in Procs
      BY <1>2, <1>3, <2>5, Zenon
    <3>2. pc[lock[c]] \in Doing /\ want[lock[c]] = c
      BY <2>0, <3>1, Zenon DEF FlagInv
    <3> QED
      BY <1>9, <3>1, <3>2, Zenon DEF IoKept
  <2>6. \A c \in Bufs : c \in Valid' \/ refcnt'[c] # 0 => blockno'[c] \in Blocks
    BY <1>2, <1>3, <2>0, Zenon DEF FlagInv
  <2>7. Dirty' \subseteq Valid' /\ failed' \subseteq Valid' \ Dirty'
    BY <1>2, <1>3, <1>4, <2>0, Zenon DEF FlagInv
  <2> QED
    BY <2>1, <2>2, <2>3, <2>4, <2>5, <2>6, <2>7, Zenon DEF FlagInv
<1> QED
  BY <1>6, <1>7, <1>8, <1>10, <1>11, Zenon DEF IInv

LEMMA BrelseStep ==
  ASSUME IInv, NEW p \in Procs, NEW b \in Bufs, Brelse(p, b)
  PROVE  IInv'
<1>1. TypeOK
  BY Zenon DEF IInv
<1>2. /\ pc[p] = "run" /\ lock[b] = p
      /\ UNCHANGED <<blockno, refcnt, data, lru, queue, disk, refs, failed, missed>>
      /\ UNCHANGED <<valid, dirty, panicked>>
  BY Zenon DEF Brelse
<1>3. /\ lock' \in [Bufs -> Procs \cup {Nobody}] /\ want' \in [Procs -> Bufs \cup {NoBuf}]
      /\ \A c \in Bufs : lock'[c] = IF c = b THEN Nobody ELSE lock[c]
      /\ \A q \in Procs : want'[q] = IF q = p THEN b ELSE want[q]
  BY <1>1, Zenon DEF TypeOK, Brelse
<1>4. /\ pc' \in [Procs -> Pcs]
      /\ \A q \in Procs : pc'[q] = IF q = p THEN "put"
                                   ELSE IF pc[q] = "asleep" /\ want[q] = b THEN "lock" ELSE pc[q]
  <2> DEFINE f == [pc EXCEPT ![p] = "put"]
  <2>1. f \in [Procs -> Pcs] /\ \A q \in Procs : f[q] = IF q = p THEN "put" ELSE pc[q]
    BY <1>1, Zenon DEF TypeOK, Pcs
  <2>2. pc' = [q \in Procs |-> IF f[q] = "asleep" /\ want[q] = b THEN "lock" ELSE f[q]]
    BY Zenon DEF Brelse, Wake, At
  <2> HIDE DEF f
  <2> QED
    BY <2>1, <2>2, Zenon DEF Pcs
<1>5. TypeOK'
  BY <1>1, <1>2, <1>3, <1>4, Zenon DEF TypeOK
<1>6. OneCopy' /\ RefCounted' /\ Valid' = Valid /\ Dirty' = Dirty
  BY <1>2, Zenon DEF IInv, OneCopy, RefCounted, Valid, Dirty
<1>n. Nobody \notin Procs
  BY CacheConstants, Zenon
<1>7. /\ \A q \in Procs \ {p} : Locked(q)' = Locked(q)
      /\ Locked(p) = Locked(p)' \cup {b}
  <2>1. ASSUME NEW q \in Procs \ {p} PROVE Locked(q)' = Locked(q)
    BY <1>2, <1>3, <1>n, ZenonT(40) DEF Locked
  <2>2. Locked(p) = Locked(p)' \cup {b}
    BY <1>2, <1>3, <1>n, Zenon DEF Locked
  <2> QED
    BY <2>1, <2>2, Zenon
<1>8. PtrInv'
  <2>1. pc'[p] = "put" /\ want'[p] = b /\ lock'[b] # p /\ refs'[p] = Locked(p)' \cup {b}
    <3>1. refs[p] = Locked(p)
      BY <1>2, Zenon DEF IInv, PtrInv, Waits
    <3> QED
      BY <1>2, <1>3, <1>4, <1>7, <1>n, <3>1, Zenon
  <2>2. ASSUME NEW q \in Procs \ {p}
        PROVE  /\ pc'[q] \in Waits <=> pc[q] \in Waits
               /\ pc'[q] \in Doing <=> pc[q] \in Doing
               /\ pc'[q] # "run" <=> pc[q] # "run"
               /\ want'[q] = want[q] /\ refs'[q] = refs[q]
    BY <1>2, <1>3, <1>4, Zenon DEF Waits, Doing, Window
  <2>3. ASSUME NEW q \in Procs \ {p}, NEW c \in Bufs PROVE lock'[c] = q <=> lock[c] = q
    BY <1>2, <1>3, <2>3, <1>n, Zenon
  <2>4. ASSUME NEW q \in Procs \ {p}
        PROVE  /\ pc'[q] # "run" => want'[q] \in Bufs
               /\ pc'[q] \in Waits => lock'[want'[q]] # q /\ refs'[q] = Locked(q)' \cup {want'[q]}
               /\ pc'[q] \notin Waits => refs'[q] = Locked(q)'
               /\ pc'[q] \in Doing => lock'[want'[q]] = q
    <3>1. /\ pc[q] # "run" => want[q] \in Bufs
          /\ pc[q] \in Waits => lock[want[q]] # q /\ refs[q] = Locked(q) \cup {want[q]}
          /\ pc[q] \notin Waits => refs[q] = Locked(q)
          /\ pc[q] \in Doing => lock[want[q]] = q
          /\ pc[q] \in Waits \cup Doing => pc[q] # "run"
      BY Zenon DEF IInv, PtrInv, Waits, Doing, Window
    <3>2. Locked(q)' = Locked(q) /\ want'[q] = want[q] /\ refs'[q] = refs[q]
      BY <1>7, <2>2, Zenon
    <3>3. pc'[q] # "run" => want'[q] \in Bufs
      BY <2>2, <3>1, <3>2, Zenon
    <3>4. pc'[q] \in Waits => lock'[want'[q]] # q /\ refs'[q] = Locked(q)' \cup {want'[q]}
      BY <2>2, <2>3, <3>1, <3>2, Zenon
    <3>5. pc'[q] \notin Waits => refs'[q] = Locked(q)'
      BY <2>2, <3>1, <3>2, Zenon
    <3>6. pc'[q] \in Doing => lock'[want'[q]] = q
      BY <2>2, <2>3, <3>1, <3>2
    <3> QED
      BY <3>3, <3>4, <3>5, <3>6, Zenon
  <2> QED
    BY <2>1, <2>4, Zenon DEF PtrInv, Waits, Doing, Window
<1>9. IoKept /\ NoneEnters
  BY <1>2, <1>3, <1>4, Zenon DEF IoKept, NoneEnters, Sent, Doing, Window, Fresh
<1>10. QueueInv' /\ Queued' = Queued
  <2>1. b \notin Queued /\ Queued \subseteq Bufs
    BY <1>2, HasLocked, Zenon DEF IInv, QueueInv
  <2>2. \A c \in Queued : lock'[c] = lock[c]
    BY <1>3, <2>1, Zenon
  <2> QED
    BY <1>2, <1>9, <2>2, QueueKept, Zenon
<1>11. FlagInv'
  <2>1. \A c \in Bufs : lock'[c] \in Procs => lock'[c] = lock[c]
    BY <1>3, CacheConstants, Zenon
  <2>2. \A c \in Bufs : refcnt'[c] # 0 => blockno[c] \in Blocks
    BY <1>2, Zenon DEF IInv, FlagInv
  <2> QED
    BY <1>2, <1>6, <1>9, <1>10, <2>1, <2>2, FlagKept, Zenon
<1> QED
  BY <1>5, <1>6, <1>8, <1>10, <1>11, Zenon DEF IInv

LEMMA UnrefStep ==
  ASSUME IInv, NEW p \in Procs, Unref(p)
  PROVE  IInv'
<1> DEFINE b == want[p]
<1>0. CountsRight
  BY Zenon DEF IInv
<1>1. TypeOK
  BY DEF IInv
<1>2. /\ pc[p] = "put" /\ refcnt' = [refcnt EXCEPT ![b] = @ - 1]
      /\ lru' = (IF refcnt[b] = 1 THEN ToFront(b) ELSE lru)
      /\ refs' = [refs EXCEPT ![p] = @ \ {b}] /\ Run(p)
      /\ UNCHANGED <<blockno, lock, data, queue, disk, failed, missed>>
      /\ UNCHANGED <<valid, dirty, panicked>>
  BY Zenon DEF Unref
<1>3. b \in Bufs /\ lock[b] # p /\ refs[p] = Locked(p) \cup {b}
  BY <1>2, Zenon DEF IInv, PtrInv, Waits
<1> HIDE DEF b
<1>4. /\ pc' \in [Procs -> Pcs] /\ want' \in [Procs -> Bufs \cup {NoBuf}] /\ refs' \in [Procs -> SUBSET Bufs]
      /\ \A q \in Procs : /\ pc'[q] = IF q = p THEN "run" ELSE pc[q]
                          /\ want'[q] = IF q = p THEN NoBuf ELSE want[q]
                          /\ refs'[q] = IF q = p THEN refs[q] \ {b} ELSE refs[q]
  BY <1>1, <1>2, Zenon DEF TypeOK, Pcs, Run, At
<1>5. \A c \in Bufs : refcnt'[c] = IF c = b THEN refcnt[c] - 1 ELSE refcnt[c]
  BY <1>1, <1>2, <1>3, Zenon DEF TypeOK
<1>6. \A c \in Bufs : refcnt'[c] = Cardinality({q \in Procs : c \in refs'[q]}) /\ refcnt'[c] \in Nat
  <2> SUFFICES ASSUME NEW c \in Bufs
               PROVE  refcnt'[c] = Cardinality({q \in Procs : c \in refs'[q]}) /\ refcnt'[c] \in Nat
    OBVIOUS
  <2>1. refcnt[c] = Cardinality(Users(c)) /\ Users(c) \in SUBSET Procs /\ refcnt[c] \in Nat
    BY <1>1, InUse, Zenon DEF TypeOK
  <2>2. CASE c = b
    <3>1. {q \in Procs : c \in refs'[q]} = Users(c) \ {p} /\ p \in Users(c)
      BY <1>3, <1>4, <2>2, Zenon DEF Users
    <3> QED
      BY <1>5, <2>1, <2>2, <3>1, <1>0, CountLess
  <2>3. CASE c # b
    <3>1. {q \in Procs : c \in refs'[q]} = Users(c)
      BY <1>4, <2>3, Zenon DEF Users
    <3> QED
      BY <1>5, <2>1, <2>3, <3>1, Zenon
  <2> QED
    BY <2>2, <2>3, Zenon
<1>7. TypeOK'
  <2>1. refcnt' \in [Bufs -> Nat]
    BY <1>1, <1>2, <1>6, Zenon DEF TypeOK
  <2>2. lru' \in [Bufs -> Bufs]
    <3>1. lru \in [Bufs -> Bufs]
      BY <1>1, Zenon DEF TypeOK
    <3>2. \A i \in Bufs : i # 1 => i - 1 \in Bufs
      BY CacheConstants DEF Bufs
    <3>3. ToFront(b) \in [Bufs -> Bufs]
      BY <1>3, <3>1, <3>2, Zenon DEF ToFront
    <3> QED
      BY <1>2, <3>1, <3>3, Zenon
  <2> QED
    BY <1>1, <1>2, <1>4, <2>1, <2>2, Zenon DEF TypeOK
<1>8. OneCopy' /\ RefCounted' /\ Valid' = Valid /\ Dirty' = Dirty
  BY <1>2, <1>6, Zenon DEF IInv, OneCopy, RefCounted, Valid, Dirty
<1>9. PtrInv'
  <2>1. \A q \in Procs : Locked(q)' = Locked(q)
    BY <1>2, Zenon DEF Locked
  <2>2. pc'[p] = "run" /\ refs'[p] = Locked(p)'
    BY <1>3, <1>4, <2>1, Zenon DEF Locked
  <2>3. \A q \in Procs \ {p} : pc'[q] = pc[q] /\ want'[q] = want[q] /\ refs'[q] = refs[q]
    BY <1>4, Zenon
  <2>4. lock' = lock
    BY <1>2, Zenon
  <2> QED
    BY <2>1, <2>2, <2>3, <2>4 DEF IInv, PtrInv, Waits, Doing, Window
<1>10. IoKept /\ NoneEnters
  BY <1>2, <1>4, Zenon DEF IoKept, NoneEnters, Sent, Doing, Window, Fresh
<1>11. QueueInv' /\ Queued' = Queued
  BY <1>2, <1>10, QueueKept, Zenon
<1>12. FlagInv'
  <2>1. \A c \in Bufs : refcnt'[c] # 0 => refcnt[c] # 0
    <3>1. \A c \in Bufs : refcnt[c] \in Nat
      BY <1>1, Zenon DEF TypeOK
    <3>2. \A c \in Bufs : refcnt'[c] \in Nat
      BY <1>6, Zenon
    <3> QED
      BY <1>3, <1>5, <3>1, <3>2
  <2>2. \A c \in Bufs : refcnt'[c] # 0 => blockno[c] \in Blocks
    BY <2>1, Zenon DEF IInv, FlagInv
  <2> QED
    BY <1>2, <1>8, <1>10, <1>11, <2>2, FlagKept, Zenon
<1> QED
  BY <1>7, <1>8, <1>9, <1>11, <1>12, Zenon DEF IInv

LEMMA TailFacts ==
  ASSUME NEW s \in Seq(Bufs), s # <<>>, NEW t, t = Tail(s)
  PROVE  /\ t \in Seq(Bufs) /\ Len(t) = Len(s) - 1 /\ Len(s) \in Nat /\ Len(s) > 0
         /\ Head(s) = s[1] /\ 1 \in 1..Len(s) /\ s[1] \in Bufs
         /\ \A i \in 1..Len(t) : t[i] = s[i + 1] /\ i + 1 \in 1..Len(s) /\ i + 1 # 1
OBVIOUS

\* The request that the interrupt ends, and its process.
LEMMA Served ==
  ASSUME IInv, IdeIntr
  PROVE  \E b \in Bufs, p \in Procs :
           /\ b = Head(queue) /\ lock[b] = p /\ pc[p] \in Sent /\ want[p] = b
           /\ b \in refs[p] /\ blockno[b] \in Blocks /\ b \notin Valid \ Dirty
           /\ \A q \in Procs : (pc[q] \in Doing /\ want[q] = b) => q = p
           /\ queue' \in Seq(Bufs)
           /\ Queued' = Queued \ {b} /\ Distinct'
<1>1. queue \in Seq(Bufs) /\ queue # <<>> /\ queue' = Tail(queue)
  BY Zenon DEF IInv, TypeOK, IdeIntr
<1>2. /\ queue' \in Seq(Bufs) /\ Len(queue') = Len(queue) - 1 /\ Len(queue) \in Nat /\ Len(queue) > 0
      /\ Head(queue) = queue[1] /\ 1 \in 1..Len(queue) /\ queue[1] \in Bufs
      /\ \A i \in 1..Len(queue') : queue'[i] = queue[i + 1] /\ i + 1 \in 1..Len(queue) /\ i + 1 # 1
  BY <1>1, TailFacts, Zenon
<1> DEFINE b == queue[1]
           p == lock[b]
<1>a. b \in Queued
  BY <1>2, Zenon DEF Queued
<1>3. p \in Procs /\ pc[p] \in Sent /\ want[p] = b /\ b \notin Valid \ Dirty
  BY <1>a, Zenon DEF IInv, QueueInv, FlagInv
<1>4. b \in refs[p] /\ blockno[b] \in Blocks
  BY <1>2, <1>3, InUse, Zenon
<1>5. \A q \in Procs : (pc[q] \in Doing /\ want[q] = b) => q = p
  BY Zenon DEF IInv, PtrInv
<1>6. \A i, j \in 1..Len(queue) : queue[i] = queue[j] => i = j
  BY Zenon DEF IInv, QueueInv, Distinct
<1>7. Queued' = Queued \ {b}
  <2>1. \A i \in 1..Len(queue') : queue'[i] \in Queued \ {b}
    BY <1>2, <1>6, Zenon DEF Queued
  <2>2. \A i \in 1..Len(queue) : i # 1 => i - 1 \in 1..Len(queue') /\ queue'[i - 1] = queue[i]
    BY <1>2
  <2>3. \A c \in Queued \ {b} : c \in Queued'
    BY <2>2 DEF Queued
  <2>4. Queued' \subseteq Queued \ {b}
    BY <2>1, Zenon DEF Queued
  <2> QED
    BY <2>3, <2>4, Zenon
<1>8. Distinct'
  <2>1. \A i, j \in 1..Len(queue') : queue'[i] = queue'[j] => i = j
    BY <1>2, <1>6
  <2> QED
    BY <2>1, Zenon DEF Distinct
<1> QED
  BY <1>2, <1>3, <1>4, <1>5, <1>7, <1>8, Zenon

LEMMA IdeIntrStep ==
  ASSUME IInv, IdeIntr
  PROVE  IInv'
<1>1. TypeOK
  BY Zenon DEF IInv
<1>2. PICK b \in Bufs, p \in Procs :
           /\ b = Head(queue) /\ lock[b] = p /\ pc[p] \in Sent /\ want[p] = b
           /\ b \in refs[p] /\ blockno[b] \in Blocks /\ b \notin Valid \ Dirty
           /\ \A q \in Procs : (pc[q] \in Doing /\ want[q] = b) => q = p
           /\ queue' \in Seq(Bufs)
           /\ Queued' = Queued \ {b} /\ Distinct'
  BY Served, Zenon
<1>3. /\ valid' = [valid EXCEPT ![b] = TRUE] /\ dirty' = [dirty EXCEPT ![b] = FALSE]
      /\ pc' = Wake(pc, "io", "woken", b)
      /\ UNCHANGED <<blockno, refcnt, lock, lru, want, refs>> /\ UNCHANGED panicked
      /\ missed' \in SUBSET Procs
      /\ \/ /\ dirty[b] /\ disk' = [disk EXCEPT ![blockno[b]] = data[b]]
            /\ UNCHANGED <<data, failed>>
         \/ /\ ~dirty[b] /\ data' = [data EXCEPT ![b] = disk[blockno[b]]]
            /\ UNCHANGED <<disk, failed>>
         \/ /\ failed' = failed \cup {b}
            /\ UNCHANGED <<disk, data>>
  BY <1>1, <1>2, Zenon DEF IdeIntr, TypeOK
<1>4. /\ pc' \in [Procs -> Pcs]
      /\ \A q \in Procs : pc'[q] = IF pc[q] = "io" /\ want[q] = b THEN "woken" ELSE pc[q]
  BY <1>1, <1>3, Zenon DEF TypeOK, Wake, Pcs
<1>5. /\ valid' \in [Bufs -> BOOLEAN] /\ dirty' \in [Bufs -> BOOLEAN]
      /\ Valid' = Valid \cup {b} /\ Dirty' = Dirty \ {b}
  BY <1>1, <1>3, Zenon DEF TypeOK, Valid, Dirty
<1>6. /\ data' \in [Bufs -> Values] /\ disk' \in [Blocks -> Values] /\ failed' \in SUBSET Bufs
      /\ failed \subseteq failed' /\ failed' \subseteq failed \cup {b}
      /\ b \notin failed' => data'[b] = disk'[blockno[b]]
      /\ \A c \in Bufs : c # b => data'[c] = data[c]
      /\ \A k \in Blocks : k # blockno[b] => disk'[k] = disk[k]
  <2>1. /\ data \in [Bufs -> Values] /\ disk \in [Blocks -> Values] /\ failed \in SUBSET Bufs
        /\ data[b] \in Values /\ disk[blockno[b]] \in Values
    BY <1>1, <1>2, Zenon DEF TypeOK
  <2>2. CASE dirty[b] /\ disk' = [disk EXCEPT ![blockno[b]] = data[b]] /\ UNCHANGED <<data, failed>>
    BY <1>2, <2>1, <2>2, Zenon
  <2>3. CASE ~dirty[b] /\ data' = [data EXCEPT ![b] = disk[blockno[b]]] /\ UNCHANGED <<disk, failed>>
    BY <1>2, <2>1, <2>3, Zenon
  <2>4. CASE failed' = failed \cup {b} /\ UNCHANGED <<disk, data>>
    BY <1>2, <2>1, <2>4, Zenon
  <2> QED
    BY <1>3, <2>2, <2>3, <2>4, Zenon
<1>7. TypeOK'
  BY <1>1, <1>2, <1>3, <1>4, <1>5, <1>6, Zenon DEF TypeOK
<1>8. OneCopy' /\ RefCounted' /\ \A q \in Procs : Locked(q)' = Locked(q)
  BY <1>3, Zenon DEF IInv, OneCopy, RefCounted, Locked
<1>9. PtrInv'
  <2>1. \A q \in Procs : /\ pc'[q] \in Waits <=> pc[q] \in Waits
                         /\ pc'[q] \in Doing <=> pc[q] \in Doing
                         /\ pc'[q] # "run" => pc[q] # "run"
    BY <1>4, Zenon DEF Waits, Doing, Window
  <2> QED
    BY <1>3, <1>8, <2>1, Zenon DEF IInv, PtrInv
<1>10. \A q \in Procs : /\ (pc[q] \in Sent /\ want[q] # b) => pc'[q] \in Sent
                        /\ pc[q] \in Doing => pc'[q] \in Doing
                        /\ pc'[q] \in Fresh => pc[q] \in Fresh /\ want[q] # b
  <2>1. \A q \in Procs : pc[q] \in Fresh => want[q] # b
    <3>1. \A q \in Procs : pc[q] \in Fresh => pc[q] \in Doing /\ pc[q] \notin Sent
      BY Zenon DEF Fresh, Sent, Doing, Window
    <3> QED
      BY <1>2, <3>1, Zenon
  <2> QED
    BY <1>4, <2>1, Zenon DEF Sent, Doing, Window, Fresh
<1>11. QueueInv'
  <2>1. \A c \in Queued : c \in Bufs /\ lock[c] \in Procs /\ pc[lock[c]] \in Sent /\ want[lock[c]] = c
    BY Zenon DEF IInv, QueueInv
  <2>2. ASSUME NEW c \in Queued'
        PROVE  c \in Bufs /\ lock'[c] \in Procs /\ pc'[lock'[c]] \in Sent /\ want'[lock'[c]] = c
    <3>1. c \in Queued /\ c # b /\ lock' = lock /\ want' = want
      BY <1>2, <1>3, Zenon
    <3>2. c \in Bufs /\ lock[c] \in Procs /\ pc[lock[c]] \in Sent /\ want[lock[c]] = c
      BY <2>1, <3>1, Zenon
    <3>3. pc'[lock[c]] \in Sent
      <4>1. (pc[lock[c]] \in Sent /\ want[lock[c]] # b) => pc'[lock[c]] \in Sent
        BY <1>10, <3>2, Zenon
      <4> QED
        BY <3>1, <3>2, <4>1, Zenon
    <3>4. lock'[c] = lock[c] /\ want'[lock[c]] = want[lock[c]]
      BY <3>1, Zenon
    <3> QED
      BY <3>2, <3>3, <3>4, Zenon
  <2> QED
    BY <1>2, <2>2, Zenon DEF QueueInv
<1>12. FlagInv'
  <2>1. \A c \in Bufs : c \in Valid' \/ refcnt'[c] # 0 => blockno'[c] \in Blocks
    BY <1>2, <1>3, <1>5, Zenon DEF IInv, FlagInv
  <2>2. Dirty' \subseteq Valid' /\ failed' \subseteq Valid' \ Dirty'
    BY <1>5, <1>6, Zenon DEF IInv, FlagInv
  <2>3. \A c \in Valid' \ (Dirty' \cup failed') : data'[c] = disk'[blockno'[c]]
    <3> SUFFICES ASSUME NEW c \in Valid' \ (Dirty' \cup failed') PROVE data'[c] = disk'[blockno'[c]]
      OBVIOUS
    <3>1. CASE c = b
      BY <1>3, <1>6, <3>1, Zenon
    <3>2. CASE c # b
      <4>1. c \in Bufs /\ c \in Valid \ (Dirty \cup failed)
        BY <1>5, <1>6, <3>2, Zenon DEF Valid
      <4>2. blockno[c] \in Blocks /\ data[c] = disk[blockno[c]]
        BY <4>1, Zenon DEF IInv, FlagInv
      <4>3. blockno[c] # blockno[b]
        BY <1>2, <3>2, <4>1, <4>2, CacheConstants, Zenon DEF IInv, OneCopy
      <4> QED
        BY <1>3, <1>6, <3>2, <4>1, <4>2, <4>3, Zenon
    <3> QED
      BY <3>1, <3>2, Zenon
  <2>4. ASSUME NEW c \in Bufs \ Valid', lock'[c] \in Procs
        PROVE  pc'[lock'[c]] \in Doing /\ want'[lock'[c]] = c
    <3>1. c \in Bufs \ Valid /\ lock' = lock /\ want' = want /\ lock[c] \in Procs
      BY <1>3, <1>5, <2>4, Zenon
    <3>2. pc[lock[c]] \in Doing /\ want[lock[c]] = c
      BY <3>1, Zenon DEF IInv, FlagInv
    <3>3. pc'[lock[c]] \in Doing
      <4>1. pc[lock[c]] \in Doing => pc'[lock[c]] \in Doing
        BY <1>10, <3>1, Zenon
      <4> QED
        BY <3>2, <4>1, Zenon
    <3>4. lock'[c] = lock[c] /\ want'[lock[c]] = want[lock[c]]
      BY <3>1, Zenon
    <3> QED
      BY <3>2, <3>3, <3>4, Zenon
  <2>5. \A q \in Procs : pc'[q] = "woken" => want'[q] \in Valid' \ Dirty'
    BY <1>3, <1>4, <1>5, Zenon DEF IInv, FlagInv
  <2>7. ASSUME NEW q \in Procs, pc'[q] \in Fresh PROVE want'[q] \notin Valid' \ Dirty'
    <3>0. want' = want
      BY <1>3, Zenon
    <3>3. pc'[q] \in Fresh => pc[q] \in Fresh /\ want[q] # b
      BY <1>10, Zenon
    <3>1. pc[q] \in Fresh /\ want[q] # b /\ want' = want
      BY <2>7, <3>0, <3>3, Zenon
    <3>2. want[q] \notin Valid \ Dirty
      BY <3>1, Zenon DEF IInv, FlagInv
    <3> QED
      BY <1>5, <3>1, <3>2, Zenon
  <2>6. Queued' \cap (Valid' \ Dirty') = {}
    BY <1>2, <1>5, Zenon DEF IInv, FlagInv
  <2> QED
    BY <2>1, <2>2, <2>3, <2>4, <2>5, <2>6, <2>7, Zenon DEF FlagInv
<1> QED
  BY <1>7, <1>8, <1>9, <1>11, <1>12, Zenon DEF IInv

LEMMA StillStep ==
  ASSUME IInv, UNCHANGED <<blockno, refcnt, lock, data, lru, queue, disk, pc, want, refs, failed, missed>>,
         UNCHANGED <<valid, dirty>>, panicked' \in BOOLEAN
  PROVE  IInv'
<1>1. TypeOK'
  BY Zenon DEF IInv, TypeOK
<1>2. Valid' = Valid /\ Dirty' = Dirty /\ \A q \in Procs : Locked(q)' = Locked(q)
  BY Zenon DEF Valid, Dirty, Locked
<1>3. OneCopy' /\ RefCounted' /\ PtrInv'
  BY <1>2 DEF IInv, OneCopy, RefCounted, PtrInv
<1>4. IoKept /\ NoneEnters /\ \A c \in Bufs : refcnt'[c] # 0 => blockno[c] \in Blocks
  BY Zenon DEF IoKept, NoneEnters, IInv, FlagInv
<1>5. QueueInv' /\ Queued' = Queued
  BY <1>4, QueueKept, Zenon
<1>6. FlagInv'
  BY <1>2, <1>4, <1>5, FlagKept, Zenon
<1> QED
  BY <1>1, <1>3, <1>5, <1>6, Zenon DEF IInv

LEMMA NextIInv == IInv /\ [Next]_vars => IInv'
<1> SUFFICES ASSUME IInv, [Next]_vars PROVE IInv'
  OBVIOUS
<1>1. ASSUME NEW p \in Procs, NEW k \in Blocks, Get(p, k) PROVE IInv'
  <2>1. CASE Panic
    <3>1. panicked' \in BOOLEAN
      BY <2>1, Zenon DEF Panic
    <3> QED
      BY <2>1, <3>1, StillStep, Zenon DEF Panic, bufs
  <2> QED
    BY <1>1, <2>1, GetCases, HitStep, MissStep, Zenon
<1>2. ASSUME NEW p \in Procs, AcquireSleep(p) PROVE IInv'
  BY <1>2, AcquireCases, BlockedStep, TookRunStep, TookReadStep, Zenon
<1>3. CASE UNCHANGED vars
  <2>1. panicked' \in BOOLEAN
    BY <1>3, Zenon DEF vars, IInv, TypeOK
  <2> QED
    BY <1>3, <2>1, StillStep, Zenon DEF vars, bufs
<1> QED
  BY <1>1, <1>2, <1>3, LinkStep, CheckStep, SleepStep, LogWriteStep, BwriteStep, BrelseStep, UnrefStep, IdeIntrStep, Zenon
  DEF Next, Progress, Halted

LEMMA AlwaysIInv == Spec /\ CountsRight => []IInv
BY InitIInv, NextIInv, PTL DEF Spec

-----------------------------------------------------------------------------
\* What the callers of the cache see of every block.
ViewIs ==
  /\ Content = [k \in Blocks |-> Content[k]] /\ Owner = [k \in Blocks |-> Owner[k]]
  /\ \A b \in Valid : Content[blockno[b]] = data[b] /\ Owner[blockno[b]] = lock[b]
  /\ \A k \in Blocks : (\A b \in Valid : blockno[b] # k) => Content[k] = disk[k] /\ Owner[k] = Nobody

LEMMA ViewLemma == IInv => ViewIs
<1> SUFFICES ASSUME IInv PROVE ViewIs
  OBVIOUS
<1>1. Content = [k \in Blocks |-> Content[k]] /\ Owner = [k \in Blocks |-> Owner[k]]
  BY Zenon DEF Content, Owner
<1>2. ASSUME NEW b \in Valid PROVE Content[blockno[b]] = data[b] /\ Owner[blockno[b]] = lock[b]
  <2>1. b \in Bufs /\ valid[b] /\ blockno[b] \in Blocks
    BY <1>2, Zenon DEF Valid, IInv, FlagInv
  <2>2. Holds(b, blockno[b]) /\ \A c \in Bufs : Holds(c, blockno[b]) => c = b
    BY <2>1, CacheConstants, Zenon DEF Holds, IInv, OneCopy
  <2>3. (CHOOSE c \in Bufs : Holds(c, blockno[b])) = b
    BY <2>1, <2>2, Zenon
  <2> QED
    BY <2>1, <2>2, <2>3, Zenon DEF Content, Owner
<1>3. ASSUME NEW k \in Blocks, \A b \in Valid : blockno[b] # k PROVE Content[k] = disk[k] /\ Owner[k] = Nobody
  <2>1. \A b \in Bufs : ~Holds(b, k)
    BY <1>3, Zenon DEF Holds, Valid
  <2> QED
    BY <2>1, Zenon DEF Content, Owner
<1> QED
  BY <1>1, <1>2, <1>3, Zenon DEF ViewIs

LEMMA ViewNext == IInv' => ViewIs'
BY ViewLemma, PTL

\* Steps that callers do not see.
LEMMA SameView ==
  ASSUME UNCHANGED <<blockno, valid, data, lock, disk, failed>>
  PROVE  UNCHANGED <<Content, Owner, Lost>>
BY Zenon DEF Content, Owner, Lost, Holds

LEMMA SameContent ==
  ASSUME UNCHANGED <<blockno, valid, data, disk>>
  PROVE  Content' = Content
BY Zenon DEF Content, Holds

\* The block of a buffer that has been read is seen through that buffer alone.
LEMMA OwnerChange ==
  ASSUME IInv, IInv', NEW b \in Valid, blockno' = blockno, Valid' = Valid,
         \A c \in Bufs : c # b => lock'[c] = lock[c]
  PROVE  Owner' = [Owner EXCEPT ![blockno[b]] = lock'[b]] /\ Owner[blockno[b]] = lock[b] /\ blockno[b] \in Blocks
<1>1. ViewIs /\ ViewIs'
  BY ViewLemma, ViewNext, Zenon
<1>2. b \in Bufs /\ blockno[b] \in Blocks /\ Valid \subseteq Bufs
  BY Zenon DEF Valid, IInv, FlagInv
<1>3. \A c \in Valid : blockno[c] = blockno[b] => c = b
  BY <1>2, CacheConstants, Zenon DEF IInv, OneCopy
<1>4. ASSUME NEW k \in Blocks PROVE Owner'[k] = IF k = blockno[b] THEN lock'[b] ELSE Owner[k]
  <2>1. CASE \E c \in Valid : blockno[c] = k
    BY <1>1, <1>2, <1>3, <2>1 DEF ViewIs
  <2>2. CASE \A c \in Valid : blockno[c] # k
    BY <1>1, <2>2 DEF ViewIs
  <2> QED
    BY <2>1, <2>2, Zenon
<1>5. Owner' = [k \in Blocks |-> Owner'[k]] /\ Owner = [k \in Blocks |-> Owner[k]]
  BY <1>1, Zenon DEF ViewIs
<1>6. Owner[blockno[b]] = lock[b]
  BY <1>1, Zenon DEF ViewIs
<1> QED
  BY <1>2, <1>4, <1>5, <1>6, Zenon

LEMMA ContentChange ==
  ASSUME IInv, IInv', NEW b \in Valid, UNCHANGED <<blockno, disk>>, Valid' = Valid,
         \A c \in Bufs : c # b => data'[c] = data[c]
  PROVE  Content' = [Content EXCEPT ![blockno[b]] = data'[b]]
<1>1. ViewIs /\ ViewIs'
  BY ViewLemma, ViewNext, Zenon
<1>2. b \in Bufs /\ blockno[b] \in Blocks /\ Valid \subseteq Bufs
  BY Zenon DEF Valid, IInv, FlagInv
<1>3. \A c \in Valid : blockno[c] = blockno[b] => c = b
  BY <1>2, CacheConstants, Zenon DEF IInv, OneCopy
<1>4. ASSUME NEW k \in Blocks PROVE Content'[k] = IF k = blockno[b] THEN data'[b] ELSE Content[k]
  <2>1. CASE \E c \in Valid : blockno[c] = k
    BY <1>1, <1>2, <1>3, <2>1 DEF ViewIs
  <2>2. CASE \A c \in Valid : blockno[c] # k
    BY <1>1, <2>2 DEF ViewIs
  <2> QED
    BY <2>1, <2>2, Zenon
<1>5. Content' = [k \in Blocks |-> Content'[k]] /\ Content = [k \in Blocks |-> Content[k]]
  BY <1>1, Zenon DEF ViewIs
<1> QED
  BY <1>2, <1>4, <1>5, Zenon

\* A buffer that leaves failed takes its block out of Lost.
LEMMA LostLess ==
  ASSUME IInv, NEW b \in Valid, failed' = failed \ {b}, blockno' = blockno
  PROVE  Lost' = Lost \ {blockno[b]}
<1>1. b \in Bufs /\ blockno[b] \in Blocks /\ failed \subseteq Bufs
  BY Zenon DEF Valid, IInv, FlagInv, TypeOK
<1>2. \A c \in failed : blockno[c] = blockno[b] => c = b
  BY <1>1, CacheConstants, Zenon DEF IInv, OneCopy
<1> QED
  BY <1>2, Zenon DEF Lost

\* Storing a block.
LEMMA StoreRefines ==
  ASSUME IInv, IInv', NEW p \in Procs, NEW b \in Bufs, NEW v \in Values,
         LogWrite(p, b, v) \/ Bwrite(p, b, v)
  PROVE  Store!StoreNext
<1>1. /\ pc[p] = "run" /\ lock[b] = p /\ failed' = failed \ {b} /\ data' = [data EXCEPT ![b] = v]
      /\ UNCHANGED <<blockno, lock, disk>> /\ UNCHANGED valid
  BY Zenon DEF LogWrite, Bwrite
<1>2. b \in Valid /\ blockno[b] \in Blocks
  BY <1>1, HasLocked, Zenon
<1>3. data'[b] = v /\ \A c \in Bufs : c # b => data'[c] = data[c]
  BY <1>1, Zenon DEF IInv, TypeOK
<1>4. Valid' = Valid
  BY <1>1, Zenon DEF Valid
<1>5. Content' = [Content EXCEPT ![blockno[b]] = v]
  BY <1>1, <1>2, <1>3, <1>4, ContentChange, Zenon
<1>6. Owner[blockno[b]] = p
  BY <1>1, <1>2, ViewLemma, Zenon DEF ViewIs
<1>7. Owner' = Owner
  BY <1>1, Zenon DEF Owner, Holds
<1>8. Lost' = Lost \ {blockno[b]}
  BY <1>1, <1>2, LostLess, Zenon
<1>9. Store!Store(p, blockno[b], v)
  BY <1>5, <1>6, <1>7, <1>8, Zenon DEF Store!Store
<1> QED
  BY <1>2, <1>9, Zenon DEF Store!StoreNext

\* Taking and giving back a block that has been read.
LEMMA TookRefines ==
  ASSUME IInv, IInv', NEW p \in Procs, NEW b, Took(p, b), valid[b]
  PROVE  Store!StoreNext
<1>1. /\ b \in Bufs /\ \A c \in Bufs : lock'[c] = IF c = b THEN p ELSE lock[c]
      /\ UNCHANGED <<blockno, data, disk, failed>> /\ UNCHANGED valid /\ Valid' = Valid
  BY TookFacts
<1>2. lock[b] = Nobody
  BY Zenon DEF Took
<1>3. b \in Valid
  BY <1>1, Zenon DEF Valid
<1>4. Owner' = [Owner EXCEPT ![blockno[b]] = p] /\ Owner[blockno[b]] = Nobody /\ blockno[b] \in Blocks
  BY <1>1, <1>2, <1>3, OwnerChange, Zenon
<1>5. Content' = Content /\ Lost' = Lost
  BY <1>1, SameContent, Zenon DEF Lost
<1>6. Store!Acquire(p, blockno[b])
  BY <1>4, <1>5, Zenon DEF Store!Acquire
<1> QED
  BY <1>4, <1>6, Zenon DEF Store!StoreNext

LEMMA BrelseRefines ==
  ASSUME IInv, IInv', NEW p \in Procs, NEW b \in Bufs, Brelse(p, b)
  PROVE  Store!StoreNext
<1>1. /\ pc[p] = "run" /\ lock[b] = p /\ lock' = [lock EXCEPT ![b] = Nobody]
      /\ UNCHANGED <<blockno, data, disk, failed>> /\ UNCHANGED valid
  BY Zenon DEF Brelse
<1>2. b \in Valid
  BY <1>1, HasLocked, Zenon
<1>3. Valid' = Valid /\ lock'[b] = Nobody /\ \A c \in Bufs : c # b => lock'[c] = lock[c]
  BY <1>1, Zenon DEF Valid, IInv, TypeOK
<1>4. Owner' = [Owner EXCEPT ![blockno[b]] = Nobody] /\ Owner[blockno[b]] = p /\ blockno[b] \in Blocks
  BY <1>1, <1>2, <1>3, OwnerChange, Zenon
<1>5. Content' = Content /\ Lost' = Lost
  BY <1>1, SameContent, Zenon DEF Lost
<1>6. Store!Release(p, blockno[b])
  BY <1>4, <1>5, Zenon DEF Store!Release
<1> QED
  BY <1>4, <1>6, Zenon DEF Store!StoreNext

\* A lock on a buffer that is still to be read is not seen.
LEMMA TookReadHidden ==
  ASSUME IInv, IInv', NEW p \in Procs, NEW b, Took(p, b), ~valid[b]
  PROVE  UNCHANGED <<Content, Owner, Lost>>
<1>1. /\ b \in Bufs /\ \A c \in Bufs : lock'[c] = IF c = b THEN p ELSE lock[c]
      /\ UNCHANGED <<blockno, data, disk, failed>> /\ UNCHANGED valid /\ Valid' = Valid
  BY TookFacts
<1>2. b \notin Valid /\ Valid \subseteq Bufs
  BY Zenon DEF Valid
<1>3. ViewIs /\ ViewIs'
  BY ViewLemma, ViewNext, Zenon
<1>4. ASSUME NEW k \in Blocks PROVE Owner'[k] = Owner[k]
  <2>1. CASE \E c \in Valid : blockno[c] = k
    <3>1. PICK c \in Valid : blockno[c] = k
      BY <2>1, Zenon
    <3>2. Owner[blockno[c]] = lock[c] /\ Owner'[blockno'[c]] = lock'[c]
      BY <1>1, <1>3, <3>1, Zenon DEF ViewIs
    <3> QED
      BY <1>1, <1>2, <3>1, <3>2, Zenon
  <2>2. CASE \A c \in Valid : blockno[c] # k
    BY <1>1, <1>3, <2>2 DEF ViewIs
  <2> QED
    BY <2>1, <2>2, Zenon
<1>5. Owner' = Owner
  BY <1>3, <1>4, Zenon DEF ViewIs
<1>6. Content' = Content /\ Lost' = Lost
  BY <1>1, SameContent, Zenon DEF Lost
<1> QED
  BY <1>5, <1>6, Zenon

\* Recycling a buffer is not seen, unless it drops what a failed read left.
LEMMA MissRefines ==
  ASSUME IInv, IInv', NEW p \in Procs, NEW k \in Blocks, NEW b \in Bufs, Miss(p, k, b)
  PROVE  Store!StoreNext \/ UNCHANGED <<Content, Owner, Lost>>
<1> DEFINE o == blockno[b]
<1>1. /\ refcnt[b] = 0 /\ ~dirty[b] /\ failed' = failed \ {b} /\ \A c \in Bufs : blockno[c] # k
      /\ UNCHANGED <<lock, data, disk>>
      /\ blockno' = [blockno EXCEPT ![b] = k] /\ valid' = [valid EXCEPT ![b] = FALSE]
  BY Zenon DEF Miss, Handed, Free, Caches
<1>2. Valid' = Valid \ {b} /\ Valid \subseteq Bufs /\ failed \subseteq Valid /\ b \notin Dirty
  BY <1>1, SMTT(30) DEF Valid, Dirty, IInv, TypeOK, FlagInv
<1>3. \A c \in Bufs : c # b => blockno'[c] = blockno[c]
  BY <1>1, Zenon DEF IInv, TypeOK
<1>4. lock[b] = Nobody
  BY <1>1, InUse, Zenon
<1>5. ViewIs /\ ViewIs'
  BY ViewLemma, ViewNext, Zenon
<1>6. \A c \in Valid : c # b /\ b \in Valid => blockno[c] # o
  <2>a. FlagInv
    BY Zenon DEF IInv
  <2>1. \A c \in Valid : c \in Bufs /\ blockno[c] \in Blocks
    BY <1>2, <2>a, Zenon DEF FlagInv
  <2>2. \A c, d \in Bufs : c # d /\ blockno[c] \in Blocks => blockno[c] # blockno[d]
    BY CacheConstants, Zenon DEF IInv, OneCopy
  <2> QED
    BY <2>1, <2>2, Zenon
<1>7. ASSUME NEW j \in Blocks, b \notin Valid \/ j # o PROVE Content'[j] = Content[j] /\ Owner'[j] = Owner[j]
  <2>1. CASE \E c \in Valid' : blockno'[c] = j
    <3>1. PICK c \in Valid' : blockno'[c] = j
      BY <2>1, Zenon
    <3>2. c \in Valid /\ c # b /\ blockno[c] = j
      BY <1>2, <1>3, <3>1, Zenon
    <3>3. Content[blockno[c]] = data[c] /\ Owner[blockno[c]] = lock[c]
      BY <1>5, <3>2, Zenon DEF ViewIs
    <3>4. Content'[blockno'[c]] = data'[c] /\ Owner'[blockno'[c]] = lock'[c]
      BY <1>5, <3>1, Zenon DEF ViewIs
    <3> QED
      BY <1>1, <3>1, <3>2, <3>3, <3>4, Zenon
  <2>2. CASE \A c \in Valid' : blockno'[c] # j
    <3>1. \A c \in Valid : blockno[c] # j
      BY <1>2, <1>3, <1>7, <2>2, Zenon
    <3>2. Content[j] = disk[j] /\ Owner[j] = Nobody
      BY <1>5, <3>1, Zenon DEF ViewIs
    <3>3. Content'[j] = disk'[j] /\ Owner'[j] = Nobody
      BY <1>5, <2>2, Zenon DEF ViewIs
    <3> QED
      BY <1>1, <3>2, <3>3, Zenon
  <2> QED
    BY <2>1, <2>2, Zenon
<1>8. ASSUME b \in Valid
      PROVE  o \in Blocks /\ Content'[o] = disk[o] /\ Owner'[o] = Nobody /\ Content[o] = data[b] /\ Owner[o] = Nobody
  <2>1. o \in Blocks
    BY <1>8, Zenon DEF IInv, FlagInv
  <2>2. \A c \in Valid' : blockno'[c] # o
    BY <1>2, <1>3, <1>6, <1>8, Zenon
  <2>3. Content'[o] = disk'[o] /\ Owner'[o] = Nobody
    BY <1>5, <2>1, <2>2, Zenon DEF ViewIs
  <2>4. Content[o] = data[b] /\ Owner[o] = lock[b]
    BY <1>5, <1>8, Zenon DEF ViewIs
  <2> QED
    BY <1>1, <1>4, <2>1, <2>3, <2>4, Zenon
<1>9. /\ Content = [j \in Blocks |-> Content[j]] /\ Owner = [j \in Blocks |-> Owner[j]]
      /\ Content' = [j \in Blocks |-> Content'[j]] /\ Owner' = [j \in Blocks |-> Owner'[j]]
  BY <1>5, Zenon DEF ViewIs
<1> HIDE DEF o
<1>10. Owner' = Owner
  BY <1>7, <1>8, <1>9
<1>11. CASE b \in failed
  <2>1. Content' = [Content EXCEPT ![o] = disk[o]]
    BY <1>2, <1>7, <1>8, <1>9, <1>11, Zenon
  <2>2. Lost' = Lost \ {o} /\ o \in Lost
    <3>1. \A c \in failed : c # b => blockno'[c] = blockno[c] /\ blockno[c] # o
      BY <1>2, <1>3, <1>6, <1>11, Zenon
    <3> QED
      BY <1>1, <1>11, <3>1, Zenon DEF Lost, o
  <2>3. disk[o] \in Values /\ o \in Blocks /\ Owner[o] = Nobody
    BY <1>2, <1>8, <1>11, Zenon DEF IInv, TypeOK
  <2>4. Store!Forget(o, disk[o])
    BY <1>10, <2>1, <2>2, <2>3, SMTT(20) DEF Store!Forget
  <2> QED
    BY <2>3, <2>4, Zenon DEF Store!StoreNext
<1>12. CASE b \notin failed
  <2>1. b \in Valid => data[b] = disk[o]
    BY <1>2, <1>12, Zenon DEF IInv, FlagInv, o
  <2>2. Content' = Content
    BY <1>7, <1>8, <1>9, <2>1
  <2>3. Lost' = Lost
    BY <1>1, <1>2, <1>3, <1>12, Zenon DEF Lost
  <2> QED
    BY <1>10, <2>2, <2>3, Zenon
<1> QED
  BY <1>11, <1>12, Zenon

\* The interrupt: a buffer that was written is seen as before; one that was read
\* comes into the hands of the process that waits for it.
LEMMA IdeIntrRefines ==
  ASSUME IInv, IInv', IdeIntr
  PROVE  Store!StoreNext \/ UNCHANGED <<Content, Owner, Lost>>
<1>1. PICK b \in Bufs, p \in Procs :
           /\ b = Head(queue) /\ lock[b] = p /\ blockno[b] \in Blocks /\ b \notin Valid \ Dirty
  BY Served, Zenon
<1> DEFINE k == blockno[b]
<1>2. /\ valid' = [valid EXCEPT ![b] = TRUE] /\ UNCHANGED <<blockno, lock>>
      /\ \/ /\ dirty[b] /\ disk' = [disk EXCEPT ![k] = data[b]]
            /\ UNCHANGED <<data, failed>>
         \/ /\ ~dirty[b] /\ data' = [data EXCEPT ![b] = disk[k]]
            /\ UNCHANGED <<disk, failed>>
         \/ /\ failed' = failed \cup {b}
            /\ UNCHANGED <<disk, data>>
  BY <1>1, Zenon DEF IdeIntr
<1>3. Valid' = Valid \cup {b} /\ Valid \subseteq Bufs
  BY <1>2 DEF Valid, IInv, TypeOK
<1>4. \A c \in Bufs : blockno[c] = k => c = b
  BY <1>1, CacheConstants, Zenon DEF IInv, OneCopy
<1>5. ViewIs /\ ViewIs'
  BY ViewLemma, ViewNext, Zenon
<1>6. /\ Content = [j \in Blocks |-> Content[j]] /\ Owner = [j \in Blocks |-> Owner[j]]
      /\ Content' = [j \in Blocks |-> Content'[j]] /\ Owner' = [j \in Blocks |-> Owner'[j]]
  BY <1>5, Zenon DEF ViewIs
<1>7. data[b] \in Values /\ disk[k] \in Values /\ data \in [Bufs -> Values] /\ disk \in [Blocks -> Values]
  BY <1>1, Zenon DEF IInv, TypeOK
<1>8. Content'[k] = data'[b] /\ Owner'[k] = p
  <2>1. b \in Valid' /\ blockno'[b] = k /\ lock'[b] = p
    BY <1>1, <1>2, <1>3, Zenon
  <2> QED
    BY <1>5, <2>1, Zenon DEF ViewIs
<1> HIDE DEF k
<1>9. (\A c \in Bufs : c # b => data'[c] = data[c]) /\ (\A j \in Blocks : j # k => disk'[j] = disk[j])
  <2>1. CASE disk' = [disk EXCEPT ![k] = data[b]] /\ data' = data
    BY <1>7, <2>1, Zenon
  <2>2. CASE data' = [data EXCEPT ![b] = disk[k]] /\ disk' = disk
    BY <1>7, <2>2, Zenon
  <2> QED
    BY <1>2, <2>1, <2>2, Zenon
<1>10. ASSUME NEW j \in Blocks, j # k PROVE Content'[j] = Content[j] /\ Owner'[j] = Owner[j]
  <2>1. CASE \E c \in Valid : blockno[c] = j
    <3>1. PICK c \in Valid : blockno[c] = j
      BY <2>1, Zenon
    <3>2. c # b /\ c \in Valid' /\ c \in Bufs
      BY <1>3, <1>10, <3>1, Zenon DEF k
    <3>3. Content[blockno[c]] = data[c] /\ Owner[blockno[c]] = lock[c]
      BY <1>5, <3>1, Zenon DEF ViewIs
    <3>4. Content'[blockno'[c]] = data'[c] /\ Owner'[blockno'[c]] = lock'[c]
      BY <1>5, <3>2, Zenon DEF ViewIs
    <3> QED
      BY <1>2, <1>9, <3>1, <3>2, <3>3, <3>4, Zenon
  <2>2. CASE \A c \in Valid : blockno[c] # j
    <3>1. \A c \in Valid' : blockno'[c] # j
      BY <1>2, <1>3, <1>10, <2>2, Zenon DEF k
    <3>2. Content[j] = disk[j] /\ Owner[j] = Nobody
      BY <1>5, <2>2, Zenon DEF ViewIs
    <3>3. Content'[j] = disk'[j] /\ Owner'[j] = Nobody
      BY <1>5, <3>1, Zenon DEF ViewIs
    <3> QED
      BY <1>9, <1>10, <3>2, <3>3, Zenon
  <2> QED
    BY <2>1, <2>2, Zenon
<1>11. k \in Blocks
  BY <1>1, Zenon DEF k
<1>12. CASE dirty[b] /\ data' = data
  <2>1. b \in Valid
    BY <1>12, Zenon DEF IInv, FlagInv, Dirty
  <2>2. Content[k] = data[b] /\ Owner[k] = p
    BY <1>1, <1>5, <2>1, Zenon DEF ViewIs, k
  <2>3. Content' = Content /\ Owner' = Owner
    BY <1>6, <1>8, <1>10, <1>12, <2>2
  <2>4. CASE failed' = failed
    <3>1. Lost' = Lost
      BY <1>2, <2>4, Zenon DEF Lost
    <3> QED
      BY <2>3, <3>1, Zenon
  <2>5. CASE failed' = failed \cup {b}
    <3>1. Lost' = Lost \cup {k}
      BY <1>2, <2>5, Zenon DEF Lost, k
    <3>2. Store!FailedWrite(p, k)
      BY <2>2, <2>3, <3>1, Zenon DEF Store!FailedWrite
    <3> QED
      BY <1>11, <3>2, Zenon DEF Store!StoreNext
  <2> QED
    BY <1>2, <2>4, <2>5, Zenon
<1>13. ASSUME ~dirty[b] PROVE Content[k] = disk[k] /\ Owner[k] = Nobody
  <2>1. b \notin Valid
    BY <1>1, <1>13, Zenon DEF Dirty
  <2>2. \A c \in Valid : blockno[c] # k
    BY <1>3, <1>4, <2>1, Zenon
  <2> QED
    BY <1>5, <1>11, <2>2, Zenon DEF ViewIs
<1>14. ~dirty[b] => Owner' = [Owner EXCEPT ![k] = p]
  BY <1>6, <1>8, <1>10, <1>11, Zenon
<1>15. CASE ~dirty[b] /\ data' = [data EXCEPT ![b] = disk[k]] /\ failed' = failed
  <2>1. data'[b] = disk[k]
    BY <1>7, <1>15, Zenon
  <2>2. Content' = Content
    BY <1>6, <1>8, <1>10, <1>13, <1>15, <2>1
  <2>3. Lost' = Lost
    BY <1>2, <1>15, Zenon DEF Lost
  <2>4. Store!Acquire(p, k)
    BY <1>13, <1>14, <1>15, <2>2, <2>3, Zenon DEF Store!Acquire
  <2> QED
    BY <1>11, <2>4, Zenon DEF Store!StoreNext
<1>16. CASE ~dirty[b] /\ data' = data /\ failed' = failed \cup {b}
  <2>1. Content' = [Content EXCEPT ![k] = data[b]]
    BY <1>6, <1>8, <1>10, <1>11, <1>16, Zenon
  <2>2. Lost' = Lost \cup {k}
    BY <1>2, <1>16, Zenon DEF Lost, k
  <2>3. Store!FailedRead(p, k, data[b])
    BY <1>13, <1>14, <1>16, <2>1, <2>2, Zenon DEF Store!FailedRead
  <2> QED
    BY <1>7, <1>11, <2>3, Zenon DEF Store!StoreNext
<1> QED
  BY <1>2, <1>12, <1>15, <1>16, Zenon DEF k

-----------------------------------------------------------------------------
\* What a process sleeps for, or is about to sleep for, is still to come.
WakeInv == \A p \in Procs :
  /\ pc[p] = "asleep" => lock[want[p]] # Nobody
  /\ pc[p] = "behind" => p \in missed \/ queue # <<>>
  /\ pc[p] \in Sent => p \in missed \/ want[p] \in Queued

WakeFor(p) == /\ pc[p] = "asleep" => lock[want[p]] # Nobody
              /\ pc[p] = "behind" => p \in missed \/ queue # <<>>
              /\ pc[p] \in Sent => p \in missed \/ want[p] \in Queued

\* A step of p that takes nothing from the others.
LEMMA WakeKept ==
  ASSUME IInv, WakeInv, NEW p \in Procs, WakeFor(p)',
         Queued \subseteq Queued', queue # <<>> => queue' # <<>>,
         \A q \in Procs \ {p} : pc'[q] = pc[q] /\ want'[q] = want[q] /\ (q \in missed => q \in missed'),
         \A c \in Bufs : lock[c] # Nobody => lock'[c] # Nobody
  PROVE  WakeInv'
<1> SUFFICES ASSUME NEW q \in Procs PROVE WakeFor(q)'
  BY Zenon DEF WakeInv, WakeFor
<1>1. CASE q = p
  BY <1>1
<1>2. CASE q # p
  <2>1. pc'[q] = pc[q] /\ want'[q] = want[q] /\ (q \in missed => q \in missed')
    BY <1>2, Zenon
  <2>2. /\ pc[q] = "asleep" => lock[want[q]] # Nobody /\ want[q] \in Bufs
        /\ pc[q] = "behind" => q \in missed \/ queue # <<>>
        /\ pc[q] \in Sent => q \in missed \/ want[q] \in Queued
    <3>1. pc[q] = "asleep" => want[q] \in Bufs
      BY Zenon DEF IInv, PtrInv
    <3> QED
      BY <3>1, Zenon DEF WakeInv
  <2> QED
    BY <2>1, <2>2, Zenon DEF WakeFor
<1> QED
  BY <1>1, <1>2, Zenon

\* iderw has found the end of the queue.
LEMMA EnterWakes ==
  ASSUME TypeOK, NEW p \in Procs, NEW b \in Bufs, Iderw(p, b), queue' = queue
  PROVE  /\ WakeFor(p)'
         /\ \A q \in Procs \ {p} : pc'[q] = pc[q] /\ want'[q] = want[q] /\ (q \in missed => q \in missed')
<1>1. pc'[p] = (IF queue = <<>> THEN "first" ELSE "behind") /\ missed' = missed \ {p}
  BY Zenon DEF Iderw, At, TypeOK
<1>2. pc'[p] # "asleep" /\ pc'[p] \notin Sent /\ (pc'[p] = "behind" => queue' # <<>>)
  <2>1. CASE queue = <<>>
    BY <1>1, <2>1, Zenon DEF Sent
  <2>2. CASE queue # <<>>
    BY <1>1, <2>2, Zenon DEF Sent
  <2> QED
    BY <2>1, <2>2, Zenon
<1>3. WakeFor(p)'
  BY <1>2, Zenon DEF WakeFor
<1>4. \A q \in Procs \ {p} : pc'[q] = pc[q] /\ want'[q] = want[q] /\ (q \in missed => q \in missed')
  BY <1>1, EnterFacts, Zenon
<1> QED
  BY <1>3, <1>4, Zenon

LEMMA LinkWakes ==
  ASSUME IInv, WakeInv, NEW p \in Procs, Link(p)
  PROVE  WakeInv'
<1>1. /\ pc[p] \in Fresh /\ pc' = At(p, "linked") /\ UNCHANGED <<lock, want, missed>>
      /\ queue' = IF pc[p] = "behind" /\ queue = <<>> THEN queue ELSE Append(queue, want[p])
  BY Zenon DEF Link, Fresh, bufs
<1>2. \A q \in Procs : pc'[q] = IF q = p THEN "linked" ELSE pc[q]
  BY <1>1, Zenon DEF IInv, TypeOK, At
<1>3. pc[p] \in Doing /\ pc[p] # "run"
  BY <1>1, Zenon DEF Fresh, Doing, Window
<1>4. want[p] \in Bufs /\ lock[want[p]] = p
  BY <1>3, Zenon DEF IInv, PtrInv
<1>5. CASE pc[p] = "behind" /\ queue = <<>>
  <2>1. p \in missed'
    BY <1>1, <1>5, Zenon DEF WakeInv
  <2>2. queue' = queue
    BY <1>1, <1>5, Zenon
  <2>3. Queued' = Queued
    BY <2>2, Zenon DEF Queued
  <2>4. WakeFor(p)'
    BY <1>2, <2>1, Zenon DEF WakeFor
  <2> QED
    BY <1>1, <1>2, <2>2, <2>3, <2>4, WakeKept, Zenon
<1>6. CASE ~(pc[p] = "behind" /\ queue = <<>>)
  <2>1. queue' = Append(queue, want[p])
    BY <1>1, <1>6, Zenon
  <2>2. Queued' = Queued \cup {want[p]}
    BY <1>1, <1>4, <2>1, LinkQueue, Zenon
  <2>3. queue' # <<>>
    <3>1. queue \in Seq(Bufs)
      BY Zenon DEF IInv, TypeOK
    <3> QED
      BY <1>4, <2>1, <3>1
  <2>4. WakeFor(p)'
    BY <1>1, <1>2, <2>2, Zenon DEF WakeFor
  <2> QED
    BY <1>1, <1>2, <2>2, <2>3, <2>4, WakeKept, Zenon
<1> QED
  BY <1>5, <1>6, Zenon

\* The interrupt wakes whom it serves, and marks whom it comes upon.
LEMMA IdeIntrWakes ==
  ASSUME IInv, WakeInv, IdeIntr
  PROVE  WakeInv'
<1>1. PICK b \in Bufs : b = Head(queue) /\ Queued' = Queued \ {b}
  BY Served, Zenon
<1>2. /\ pc' = Wake(pc, "io", "woken", b) /\ UNCHANGED <<lock, want>>
      /\ missed' = missed \cup {p \in Procs : pc[p] \in Window}
  BY <1>1, Zenon DEF IdeIntr
<1> SUFFICES ASSUME NEW q \in Procs PROVE WakeFor(q)'
  BY Zenon DEF WakeInv, WakeFor
<1>3. pc'[q] = IF pc[q] = "io" /\ want[q] = b THEN "woken" ELSE pc[q]
  BY <1>2, Zenon DEF Wake
<1>4. pc'[q] = "asleep" => lock'[want'[q]] # Nobody
  BY <1>2, <1>3, Zenon DEF WakeInv
<1>5. pc'[q] = "behind" => q \in missed'
  BY <1>2, <1>3, Zenon DEF Window
<1>6. ASSUME pc'[q] \in Sent PROVE q \in missed' \/ want'[q] \in Queued'
  <2>1. pc[q] = pc'[q] /\ (pc[q] = "io" => want[q] # b)
    BY <1>3, <1>6, Zenon DEF Sent
  <2>2. pc[q] = "io" \/ pc[q] \in Window
    BY <1>6, <2>1, Zenon DEF Sent, Window
  <2>3. CASE pc[q] \in Window
    BY <1>2, <2>3, Zenon
  <2>4. CASE pc[q] = "io"
    BY <1>1, <1>2, <2>1, <2>4, Zenon DEF WakeInv, Sent
  <2> QED
    BY <2>2, <2>3, <2>4, Zenon
<1> QED
  BY <1>4, <1>5, <1>6, Zenon DEF WakeFor

LEMMA NextWakeInv == IInv /\ WakeInv /\ [Next]_vars => WakeInv'
<1> SUFFICES ASSUME IInv, WakeInv, [Next]_vars PROVE WakeInv'
  BY Zenon
<1>t. TypeOK /\ pc \in [Procs -> Pcs] /\ want \in [Procs -> Bufs \cup {NoBuf}] /\ lock \in [Bufs -> Procs \cup {Nobody}]
  BY Zenon DEF IInv, TypeOK
<1>n. Nobody \notin Procs
  BY CacheConstants, Zenon
<1>q. ASSUME queue' = queue PROVE Queued' = Queued
  BY <1>q, Zenon DEF Queued
<1>0. ASSUME UNCHANGED <<lock, queue, pc, want, missed>> PROVE WakeInv'
  BY <1>0, <1>q, Zenon DEF WakeInv
<1>1. ASSUME NEW p \in Procs, NEW l \in {"run", "lock", "put"}, pc' = At(p, l), UNCHANGED <<queue, missed>>,
             \A q \in Procs \ {p} : want'[q] = want[q],
             \A c \in Bufs : lock[c] # Nobody => lock'[c] # Nobody
      PROVE  WakeInv'
  <2>1. pc'[p] = l /\ \A q \in Procs \ {p} : pc'[q] = pc[q]
    BY <1>t, <1>1, Zenon DEF At
  <2>2. WakeFor(p)'
    BY <1>1, <2>1, Zenon DEF WakeFor, Sent
  <2> QED
    BY <1>1, <1>q, <2>1, <2>2, WakeKept, Zenon
<1>2. ASSUME NEW p \in Procs, NEW k \in Blocks, Get(p, k) PROVE WakeInv'
  <2>1. Panic => WakeInv'
    BY <1>0, Zenon DEF Panic, bufs
  <2>2. ASSUME NEW b \in Bufs, Handed(p, b) PROVE WakeInv'
    BY <1>t, <1>1, <2>2, Zenon DEF Handed
  <2> QED
    BY <1>2, <2>1, <2>2, GetCases, Zenon DEF Hit, Miss
<1>3. ASSUME NEW p \in Procs, AcquireSleep(p) PROVE WakeInv'
  <2>1. CASE Blocked(p)
    <3>1. pc' = At(p, "asleep") /\ UNCHANGED <<lock, queue, want, missed>> /\ lock[want[p]] # Nobody
      BY <2>1, Zenon DEF Blocked, bufs
    <3>2. pc'[p] = "asleep" /\ \A q \in Procs \ {p} : pc'[q] = pc[q]
      BY <1>t, <3>1, Zenon DEF At
    <3>3. WakeFor(p)'
      BY <3>1, <3>2, Zenon DEF WakeFor, Sent
    <3> QED
      BY <1>q, <3>1, <3>2, <3>3, WakeKept, Zenon
  <2>2. ASSUME Took(p, want[p])
        PROVE  /\ queue' = queue /\ want[p] \in Bufs
               /\ \A c \in Bufs : lock[c] # Nobody => lock'[c] # Nobody
    <3>1. queue' = queue /\ want[p] \in Bufs /\ \A c \in Bufs : lock'[c] = IF c = want[p] THEN p ELSE lock[c]
      BY <2>2, TookFacts, Zenon
    <3> QED
      BY <1>n, <3>1, Zenon
  <2>3. CASE Took(p, want[p]) /\ Run(p) /\ UNCHANGED missed
    BY <1>t, <1>1, <2>2, <2>3, Zenon DEF Run
  <2>4. CASE Took(p, want[p]) /\ Iderw(p, want[p])
    <3>1. queue' = queue /\ want[p] \in Bufs
      BY <2>2, <2>4, Zenon
    <3>2. /\ WakeFor(p)'
          /\ \A q \in Procs \ {p} : pc'[q] = pc[q] /\ want'[q] = want[q] /\ (q \in missed => q \in missed')
      BY <1>t, <2>4, <3>1, EnterWakes, Zenon
    <3> QED
      BY <1>q, <2>2, <2>4, <3>1, <3>2, WakeKept, Zenon
  <2> QED
    BY <1>3, <2>1, <2>3, <2>4, AcquireCases, Zenon
<1>4. ASSUME NEW p \in Procs, Check(p) \/ Sleep(p) PROVE WakeInv'
  <2>1. UNCHANGED <<lock, queue, missed>>
    BY <1>4, Zenon DEF Check, Sleep, bufs
  <2>2. CASE Check(p) /\ Run(p)
    BY <1>t, <1>1, <2>1, <2>2, Zenon DEF Run
  <2>3. ASSUME NEW l \in {"drowsy", "io"}, pc' = At(p, l), UNCHANGED want, pc[p] \in Sent PROVE WakeInv'
    <3>1. pc'[p] = l /\ \A q \in Procs \ {p} : pc'[q] = pc[q]
      BY <1>t, <2>3, Zenon DEF At
    <3>2. p \in missed \/ want[p] \in Queued
      BY <2>3, Zenon DEF WakeInv
    <3>3. WakeFor(p)'
      BY <1>q, <2>1, <2>3, <3>1, <3>2, Zenon DEF WakeFor
    <3> QED
      BY <1>q, <2>1, <2>3, <3>1, <3>3, WakeKept, Zenon
  <2>4. CASE Check(p) /\ ~Run(p)
    <3>1. pc[p] \in {"linked", "woken"} /\ pc' = At(p, "drowsy") /\ UNCHANGED want
          /\ ~(valid[want[p]] /\ ~dirty[want[p]])
      BY <2>4, Zenon DEF Check
    <3>2. pc[p] # "woken"
      BY <3>1, Zenon DEF IInv, FlagInv, Valid, Dirty
    <3>3. pc[p] \in Sent
      BY <3>1, <3>2, Zenon DEF Sent
    <3> QED
      BY <2>3, <3>1, <3>3, Zenon
  <2>5. CASE Sleep(p)
    BY <2>3, <2>5, Zenon DEF Sleep, Sent
  <2> QED
    BY <1>4, <2>2, <2>4, <2>5, Zenon
<1>5. ASSUME NEW p \in Procs, NEW b \in Bufs, NEW v \in Values, LogWrite(p, b, v) \/ Bwrite(p, b, v)
      PROVE  WakeInv'
  <2>1. CASE LogWrite(p, b, v)
    BY <1>0, <2>1, Zenon DEF LogWrite
  <2>2. CASE Bwrite(p, b, v)
    <3>1. Iderw(p, b) /\ UNCHANGED <<lock, queue>>
      BY <2>2, Zenon DEF Bwrite
    <3>2. /\ WakeFor(p)'
          /\ \A q \in Procs \ {p} : pc'[q] = pc[q] /\ want'[q] = want[q] /\ (q \in missed => q \in missed')
      BY <1>t, <3>1, EnterWakes, Zenon
    <3> QED
      BY <1>q, <3>1, <3>2, WakeKept, Zenon
  <2> QED
    BY <1>5, <2>1, <2>2, Zenon
<1>6. ASSUME NEW p \in Procs, NEW b \in Bufs, Brelse(p, b) PROVE WakeInv'
  <2>1. /\ UNCHANGED <<queue, missed>> /\ want' = [want EXCEPT ![p] = b] /\ lock' = [lock EXCEPT ![b] = Nobody]
        /\ pc' = Wake(At(p, "put"), "asleep", "lock", b)
    BY <1>6, Zenon DEF Brelse
  <2>2. ASSUME NEW q \in Procs PROVE WakeFor(q)'
    <3>1. pc'[q] = IF q = p THEN "put" ELSE IF pc[q] = "asleep" /\ want[q] = b THEN "lock" ELSE pc[q]
      BY <1>t, <2>1, Zenon DEF Wake, At
    <3>2. CASE q = p
      BY <3>1, <3>2, Zenon DEF WakeFor, Sent
    <3>3. CASE q # p
      <4>1. want'[q] = want[q]
        BY <1>t, <2>1, <3>3, Zenon
      <4>2. pc'[q] = "asleep" => lock'[want'[q]] # Nobody
        <5>1. pc'[q] = "asleep" => pc[q] = "asleep" /\ want[q] # b
          BY <3>1, <3>3, Zenon
        <5>2. pc[q] = "asleep" => want[q] \in Bufs /\ lock[want[q]] # Nobody
          BY Zenon DEF WakeInv, IInv, PtrInv
        <5> QED
          BY <1>t, <2>1, <4>1, <5>1, <5>2, Zenon
      <4>3. /\ pc'[q] = "behind" => pc[q] = "behind"
            /\ pc'[q] \in Sent => pc[q] \in Sent
        BY <3>1, <3>3, Zenon DEF Sent
      <4> QED
        BY <1>q, <2>1, <4>1, <4>2, <4>3, Zenon DEF WakeFor, WakeInv
    <3> QED
      BY <3>2, <3>3, Zenon
  <2> QED
    BY <2>2, Zenon DEF WakeInv, WakeFor
<1>7. ASSUME NEW p \in Procs, Unref(p) PROVE WakeInv'
  BY <1>t, <1>1, <1>7, Zenon DEF Unref, Run
<1>9. CASE UNCHANGED vars
  BY <1>0, <1>9, Zenon DEF vars, bufs
<1> QED
  BY <1>2, <1>3, <1>4, <1>5, <1>6, <1>7, <1>9, LinkWakes, IdeIntrWakes, Zenon DEF Next, Progress, Halted

-----------------------------------------------------------------------------
\* Users are counted right, because there are finitely many processes.
LEMMA Counts == CountsRight
<1> SUFFICES ASSUME NEW S \in SUBSET Procs
             PROVE  /\ Cardinality(S) \in Nat /\ (Cardinality(S) = 0 <=> S = {})
                    /\ \A p \in Procs \ S : Cardinality(S \cup {p}) = Cardinality(S) + 1
                    /\ \A p \in S : Cardinality(S \ {p}) = Cardinality(S) - 1
  BY Zenon DEF CountsRight
<1>1. IsFiniteSet(S)
  BY CacheConstants, FS_Subset, Zenon
<1>2. Cardinality(S) \in Nat /\ (Cardinality(S) = 0 <=> S = {})
  BY <1>1, FS_CardinalityType, FS_EmptySet, Zenon
<1>3. \A p \in Procs \ S : Cardinality(S \cup {p}) = Cardinality(S) + 1
  BY <1>1, FS_AddElement, Zenon
<1>4. \A p \in S : Cardinality(S \ {p}) = Cardinality(S) - 1
  BY <1>1, FS_RemoveElement, Zenon
<1> QED
  BY <1>2, <1>3, <1>4, Zenon

\* get() never gives one block two buffers, whatever is recycled meanwhile.
THEOREM OneBufferPerBlock == Spec => []OneCopy
BY AlwaysIInv, Counts, PTL DEF IInv

\* refcnt counts the pointers to a buffer, so a buffer get() recycles has no
\* user.
THEOREM CountIsUsers == Spec => []RefCounted
BY AlwaysIInv, Counts, PTL DEF IInv

\* Who sleeps in acquiresleep sleeps for a lock that somebody has, and who sleeps
\* in iderw for a request that the disk has still to serve, unless an interrupt
\* came while the process was on its way to sleep.
THEOREM SleepersAreWoken == Spec => []NoLostWakeup
<1>1. Init => WakeInv
  BY Zenon DEF Init, WakeInv, Sent
<1>2. WakeInv => NoLostWakeup
  BY Zenon DEF WakeInv, NoLostWakeup, Sent, Queued
<1> QED
  BY <1>1, <1>2, NextWakeInv, AlwaysIInv, Counts, PTL DEF Spec

\* The buffer cache implements a store in which every block is one variable with
\* one owner: recycling, pinning, write-back and the order of the disk's requests
\* cannot be seen, and a request that fails costs no block but its own.
THEOREM CacheImplementsStore == Spec => ImplementsStore
<1>1. ASSUME Init PROVE Store!StoreInit
  <2>1. \A b \in Bufs, k \in Blocks : ~Holds(b, k)
    BY <1>1, CacheConstants, Zenon DEF Init, Holds
  <2>2. Content = [k \in Blocks |-> disk[k]] /\ Owner = [k \in Blocks |-> Nobody]
    BY <2>1, Zenon DEF Content, Owner
  <2>3. disk \in [Blocks -> Values] /\ Lost = {}
    BY <1>1, CacheConstants, Zenon DEF Init, Lost
  <2> QED
    BY <2>2, <2>3, Zenon DEF Store!StoreInit
<1>2. ASSUME IInv, IInv', [Next]_vars
      PROVE  Store!StoreNext \/ UNCHANGED <<Content, Owner, Lost>>
  <2>1. ASSUME NEW p \in Procs, NEW k \in Blocks, Get(p, k)
        PROVE  Store!StoreNext \/ UNCHANGED <<Content, Owner, Lost>>
    <3>1. CASE Panic
      BY <3>1, SameView, Zenon DEF Panic, bufs
    <3>2. ASSUME NEW b \in Bufs, Hit(p, k, b) PROVE UNCHANGED <<Content, Owner, Lost>>
      BY <3>2, SameView, Zenon DEF Hit, Handed
    <3> QED
      BY <1>2, <2>1, <3>1, <3>2, GetCases, MissRefines, Zenon
  <2>2. ASSUME NEW p \in Procs, AcquireSleep(p)
        PROVE  Store!StoreNext \/ UNCHANGED <<Content, Owner, Lost>>
    <3>1. Blocked(p) => UNCHANGED <<Content, Owner, Lost>>
      BY SameView, Zenon DEF Blocked, bufs
    <3> QED
      BY <1>2, <2>2, <3>1, AcquireCases, TookRefines, TookReadHidden, Zenon
  <2>3. ASSUME NEW p \in Procs, Link(p) \/ Check(p) \/ Sleep(p) \/ Unref(p)
        PROVE  UNCHANGED <<Content, Owner, Lost>>
    BY <2>3, SameView, Zenon DEF Link, Check, Sleep, Unref, bufs
  <2>4. CASE UNCHANGED vars
    BY <2>4, SameView, Zenon DEF vars, bufs
  <2> QED
    BY <1>2, <2>1, <2>2, <2>3, <2>4, StoreRefines, BrelseRefines, IdeIntrRefines, Zenon
    DEF Next, Progress, Halted
<1>3. ASSUME IInv, IInv', [Next]_vars PROVE [Store!StoreStep]_(Store!svars)
  BY <1>2, <1>3, Zenon DEF Store!StoreStep, Store!svars
<1> QED
  BY <1>1, <1>3, AlwaysIInv, Counts, PTL DEF Spec, ImplementsStore, Store!StoreSpec
=============================================================================
