----------------------------- MODULE BufferCache -----------------------------
(***************************************************************************)
(* The buffer cache of crates/fs/src/bio.rs over the request queue of      *)
(* crates/drivers/src/ide.rs, with the sleep locks of                      *)
(* crates/sync/src/sleeplock.rs.                                           *)
(*                                                                         *)
(* A step is one critical section.  A process that has nothing to do with  *)
(* the cache is at "run"; refs[p] are the buffers it holds pointers to and *)
(* lock[b] = p says it has locked b.                                       *)
(*                                                                         *)
(* IDE_LOCK locks nothing.  While a process is inside iderw no other runs, *)
(* but a process that has slept before runs with interrupts on, so that    *)
(* ideintr may come between any two steps of iderw.                        *)
(***************************************************************************)
EXTENDS Naturals, Sequences, FiniteSets

CONSTANTS Procs, Blocks, Values,
          NBUF,        \* buffers of the cache
          Zero,        \* a block of zeroes
          Nobody,      \* an unlocked buffer
          NoBlock      \* a buffer that has no block yet

Bufs  == 1..NBUF
NoBuf == 0

ASSUME CacheConstants == /\ NBUF \in Nat \ {0}
                         /\ IsFiniteSet(Procs)
                         /\ Nobody \notin Procs /\ NoBlock \notin Blocks
                         /\ Zero \in Values

VARIABLES blockno, valid, dirty, refcnt, lock, data,  \* the buffers
          lru,       \* the list of buffers, most recently used first
          queue,     \* the requests of the disk; the first is under way
          disk,      \* what the disk holds
          pc, want,  \* where a process is, and for which buffer
          refs,      \* the buffers a process has pointers to
          failed,    \* history: buffers that differ from the disk, which failed
          missed,    \* history: processes in iderw that ideintr came upon
          panicked

bufs == <<blockno, valid, dirty, refcnt, lock, data, lru>>
vars == <<bufs, queue, disk, pc, want, refs, failed, missed, panicked>>

\* In iderw and awake: the end of the queue has been looked for, in an empty
\* queue or behind the last request; the buffer is linked; the flags have been
\* seen, and sleep() comes next.
Window == {"first", "behind", "linked", "drowsy"}

Pcs == {"run", "lock", "asleep", "io", "woken", "put"} \cup Window

TypeOK == /\ blockno \in [Bufs -> Blocks \cup {NoBlock}]
          /\ valid \in [Bufs -> BOOLEAN] /\ dirty \in [Bufs -> BOOLEAN]
          /\ refcnt \in [Bufs -> Nat]
          /\ lock \in [Bufs -> Procs \cup {Nobody}]
          /\ data \in [Bufs -> Values]
          /\ lru \in [Bufs -> Bufs]
          /\ queue \in Seq(Bufs)
          /\ disk \in [Blocks -> Values]
          /\ pc \in [Procs -> Pcs] /\ want \in [Procs -> Bufs \cup {NoBuf}]
          /\ refs \in [Procs -> SUBSET Bufs]
          /\ failed \in SUBSET Bufs /\ missed \in SUBSET Procs
          /\ panicked \in BOOLEAN

-----------------------------------------------------------------------------

\* p runs: the kernel has not stopped, and nobody else is inside iderw.
Runs(p) == ~panicked /\ \A q \in Procs \ {p} : pc[q] \notin Window

\* A caller asks for no block that it has, and has at most two at a time: the log
\* a block and its copy, bmap and itrunc an indirect block and another.
Nests(p, k) == LET mine == {b \in Bufs : lock[b] = p}
               IN Cardinality(mine) <= 1 /\ \A b \in mine : blockno[b] # k

\* Variant: a buffer that is still being read is not found.
CachesValid(b, k) == blockno[b] = k /\ valid[b]

\* get() finds block k in the cache.
Caches(b, k) == blockno[b] = k

\* Variants: get() takes a buffer that is referenced; one that is dirty.
FreeReferenced(b) == ~dirty[b]
FreeDirty(b) == refcnt[b] = 0

\* The buffer at the tail-most place of the list that is unused and clean.
Free(b)   == refcnt[b] = 0 /\ ~dirty[b]
Victim(b) == \E i \in Bufs : lru[i] = b /\ Free(b) /\ \A j \in Bufs : j > i => ~Free(lru[j])

ToFront(b) == [i \in Bufs |-> IF i = 1 THEN b
                              ELSE IF \E j \in Bufs : j >= i /\ lru[j] = b THEN lru[i - 1]
                              ELSE lru[i]]

At(p, l) == [pc EXCEPT ![p] = l]
Run(p)   == pc' = At(p, "run") /\ want' = [want EXCEPT ![p] = NoBuf]

Wake(f, l, m, b) == [p \in Procs |-> IF f[p] = l /\ want[p] = b THEN m ELSE f[p]]

Panic == panicked' = TRUE /\ UNCHANGED <<bufs, queue, disk, pc, want, refs, failed, missed>>

\* iderw: its first half finds the end of the queue.
Iderw(p, b) == /\ pc' = At(p, IF queue = <<>> THEN "first" ELSE "behind")
               /\ want' = [want EXCEPT ![p] = b]
               /\ missed' = missed \ {p}

-----------------------------------------------------------------------------
\* bread, in get(): find the block, or recycle a buffer for it.
Get(p, k) ==
  /\ Runs(p) /\ pc[p] = "run"
  /\ Nests(p, k)
  /\ \/ \E b \in Bufs :
          /\ \/ /\ Caches(b, k)
                /\ refcnt' = [refcnt EXCEPT ![b] = @ + 1]
                /\ UNCHANGED <<blockno, valid, dirty, failed>>
             \/ /\ \A c \in Bufs : ~Caches(c, k)
                /\ Victim(b)
                /\ blockno' = [blockno EXCEPT ![b] = k]
                /\ valid' = [valid EXCEPT ![b] = FALSE]
                /\ dirty' = [dirty EXCEPT ![b] = FALSE]
                /\ refcnt' = [refcnt EXCEPT ![b] = 1]
                /\ failed' = failed \ {b}
          /\ pc' = At(p, "lock")
          /\ want' = [want EXCEPT ![p] = b]
          /\ refs' = [refs EXCEPT ![p] = @ \cup {b}]
          /\ UNCHANGED <<lock, data, lru, queue, disk, missed, panicked>>
     \/ /\ \A c \in Bufs : ~Caches(c, k) /\ ~Free(c)
        /\ Panic

\* The sleep lock of the buffer is taken.
Busy(b) == lock[b] # Nobody

\* acquiresleep, then read() checks that the buffer is valid.
AcquireSleep(p) ==
  /\ Runs(p) /\ pc[p] = "lock"
  /\ LET b == want[p] IN
     \/ /\ Busy(b)
        /\ pc' = At(p, "asleep")
        /\ UNCHANGED <<lock, want, missed>>
     \/ /\ ~Busy(b)
        /\ lock' = [lock EXCEPT ![b] = p]
        /\ IF valid[b] THEN Run(p) /\ UNCHANGED missed ELSE Iderw(p, b)
  /\ UNCHANGED <<blockno, valid, dirty, refcnt, data, lru, queue, disk, refs, failed, panicked>>

\* Variant: the buffer is linked into an empty queue only.
LinkFirst(p) ==
  /\ Runs(p) /\ pc[p] \in {"first", "behind"}
  /\ queue' = IF pc[p] = "first" THEN Append(queue, want[p]) ELSE queue
  /\ pc' = At(p, "linked")
  /\ UNCHANGED <<bufs, disk, want, refs, failed, missed, panicked>>

\* iderw links the buffer, behind a request that may be done by now: then the
\* queue stays empty.  The first request is started at once.
Link(p) ==
  /\ Runs(p) /\ pc[p] \in {"first", "behind"}
  /\ queue' = IF pc[p] = "behind" /\ queue = <<>> THEN queue ELSE Append(queue, want[p])
  /\ pc' = At(p, "linked")
  /\ UNCHANGED <<bufs, disk, want, refs, failed, missed, panicked>>

\* The condition of iderw's loop, before and after every sleep().
Check(p) ==
  /\ Runs(p) /\ pc[p] \in {"linked", "woken"}
  /\ IF valid[want[p]] /\ ~dirty[want[p]] THEN Run(p) ELSE pc' = At(p, "drowsy") /\ UNCHANGED want
  /\ UNCHANGED <<bufs, queue, disk, refs, failed, missed, panicked>>

Sleep(p) ==
  /\ Runs(p) /\ pc[p] = "drowsy"
  /\ pc' = At(p, "io")
  /\ UNCHANGED <<bufs, queue, disk, want, refs, failed, missed, panicked>>

\* The caller changes the block and calls log_write, which pins it.
LogWrite(p, b, v) ==
  /\ Runs(p) /\ pc[p] = "run" /\ lock[b] = p
  /\ data' = [data EXCEPT ![b] = v]
  /\ dirty' = [dirty EXCEPT ![b] = TRUE]
  /\ failed' = failed \ {b}
  /\ UNCHANGED <<blockno, valid, refcnt, lock, lru, queue, disk, pc, want, refs, missed, panicked>>

\* The log changes the block and calls bwrite.
Bwrite(p, b, v) ==
  /\ Runs(p) /\ pc[p] = "run" /\ lock[b] = p
  /\ data' = [data EXCEPT ![b] = v]
  /\ dirty' = [dirty EXCEPT ![b] = TRUE]
  /\ failed' = failed \ {b}
  /\ Iderw(p, b)
  /\ UNCHANGED <<blockno, valid, refcnt, lock, lru, queue, disk, refs, panicked>>

\* brelse: releasesleep, and then the reference is dropped.
Brelse(p, b) ==
  /\ Runs(p) /\ pc[p] = "run" /\ lock[b] = p
  /\ lock' = [lock EXCEPT ![b] = Nobody]
  /\ pc' = Wake(At(p, "put"), "asleep", "lock", b)
  /\ want' = [want EXCEPT ![p] = b]
  /\ UNCHANGED <<blockno, valid, dirty, refcnt, data, lru, queue, disk, refs, failed, missed, panicked>>

Unref(p) ==
  /\ Runs(p) /\ pc[p] = "put"
  /\ LET b == want[p] IN
     /\ refcnt' = [refcnt EXCEPT ![b] = @ - 1]
     /\ lru' = IF refcnt[b] = 1 THEN ToFront(b) ELSE lru
     /\ refs' = [refs EXCEPT ![p] = @ \ {b}]
  /\ Run(p)
  /\ UNCHANGED <<blockno, valid, dirty, lock, data, queue, disk, failed, missed, panicked>>

\* ideintr: the first request is done, or has failed; a failed read leaves the
\* data alone, and a write is never asked how it went.
IdeIntr ==
  /\ ~panicked /\ queue # <<>>
  /\ LET b == Head(queue) IN
     /\ \/ /\ dirty[b]
           /\ disk' = [disk EXCEPT ![blockno[b]] = data[b]]
           /\ UNCHANGED <<data, failed>>
        \/ /\ ~dirty[b]
           /\ data' = [data EXCEPT ![b] = disk[blockno[b]]]
           /\ UNCHANGED <<disk, failed>>
        \/ /\ failed' = failed \cup {b}
           /\ UNCHANGED <<disk, data>>
     /\ valid' = [valid EXCEPT ![b] = TRUE]
     /\ dirty' = [dirty EXCEPT ![b] = FALSE]
     /\ pc' = Wake(pc, "io", "woken", b)
  /\ queue' = Tail(queue)
  /\ missed' = missed \cup {p \in Procs : pc[p] \in Window}
  /\ UNCHANGED <<blockno, refcnt, lock, lru, want, refs, panicked>>

\* panic!() stops the kernel for good.
Halted == panicked /\ UNCHANGED vars

-----------------------------------------------------------------------------
\* binit() pushes every buffer at the head of the list.  The disk is blank; what
\* else may be on it, processes can write.
Init == /\ blockno = [b \in Bufs |-> NoBlock]
        /\ valid = [b \in Bufs |-> FALSE] /\ dirty = [b \in Bufs |-> FALSE]
        /\ refcnt = [b \in Bufs |-> 0]
        /\ lock = [b \in Bufs |-> Nobody]
        /\ data = [b \in Bufs |-> Zero] /\ disk = [k \in Blocks |-> Zero]
        /\ lru = [i \in Bufs |-> NBUF + 1 - i]
        /\ queue = <<>>
        /\ pc = [p \in Procs |-> "run"] /\ want = [p \in Procs |-> NoBuf]
        /\ refs = [p \in Procs |-> {}]
        /\ failed = {} /\ missed = {}
        /\ panicked = FALSE

Progress(p) == AcquireSleep(p) \/ Link(p) \/ Check(p) \/ Sleep(p) \/ Unref(p)

Next == \/ \E p \in Procs : \/ \E k \in Blocks : Get(p, k)
                            \/ Progress(p)
                            \/ \E b \in Bufs, v \in Values : LogWrite(p, b, v) \/ Bwrite(p, b, v)
                            \/ \E b \in Bufs : Brelse(p, b)
        \/ IdeIntr
        \/ Halted

Spec == Init /\ [][Next]_vars

-----------------------------------------------------------------------------
\* The buffer whose copy of block k counts, if it has been read; the process that
\* has the block; and the blocks whose buffer and disk differ for good.
Holds(b, k) == blockno[b] = k /\ valid[b]

Content == [k \in Blocks |-> IF \E b \in Bufs : Holds(b, k)
                             THEN data[CHOOSE b \in Bufs : Holds(b, k)]
                             ELSE disk[k]]
Owner   == [k \in Blocks |-> IF \E b \in Bufs : Holds(b, k)
                             THEN lock[CHOOSE b \in Bufs : Holds(b, k)]
                             ELSE Nobody]
Lost    == {blockno[b] : b \in failed}

\* Through recycling, pinning and queued I/O, every block behaves as one
\* variable that only the process that locked it changes: bread returns what was
\* last stored, unless the disk failed to read or to write it.
Store == INSTANCE BlockStore WITH content <- Content, owner <- Owner, lost <- Lost
ImplementsStore == Store!StoreSpec

\* get() never gives one block two buffers.
OneCopy == \A b, c \in Bufs : (blockno[b] = blockno[c] /\ blockno[b] # NoBlock) => b = c

\* refcnt counts the processes with a pointer, so get() never recycles a buffer
\* somebody uses.
RefCounted == \A b \in Bufs : refcnt[b] = Cardinality({p \in Procs : b \in refs[p]})

\* A process sleeps only for what is still to come: the lock of a buffer that is
\* locked, or a request that is in the queue.  The exception is iderw when the
\* interrupt comes upon it: then nobody may be left to wake the process.
NoLostWakeup ==
  \A p \in Procs : /\ pc[p] = "asleep" => lock[want[p]] # Nobody
                   /\ pc[p] = "io" => p \in missed \/ \E i \in 1..Len(queue) : queue[i] = want[p]
=============================================================================
