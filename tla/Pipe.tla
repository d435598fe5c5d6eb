-------------------------------- MODULE Pipe --------------------------------
(***************************************************************************)
(* One pipe of crates/fs/src/pipe.rs: pipewrite, piperead and pipeclose by *)
(* several processes, with sleep, wakeup and kill.                         *)
(*                                                                         *)
(* A process keeps pipe.lock from the moment it enters the pipe until it   *)
(* sleeps or returns; lock is the process inside.  Every byte is a step.   *)
(***************************************************************************)
EXTENDS Naturals, Sequences, FiniteSets

CONSTANTS Procs,     \* processes that hold ends of the pipe
          Bytes,     \* what a byte may be
          Lengths,   \* lengths passed to read() and write()
          PIPESIZE,  \* bytes of the ring
          UINTMAX,   \* the largest value of a counter (2^32 - 1)
          MaxBytes,  \* bound on the bytes written
          Nobody     \* the lock is free

ASSUME PipeConstants == /\ PIPESIZE \in Nat \ {0}
                        /\ UINTMAX \in Nat /\ MaxBytes \in Nat
                        /\ Lengths \subseteq Nat
                        /\ Nobody \notin Procs

VARIABLES data,       \* the ring
          nread,      \* bytes read so far
          nwrite,     \* bytes written so far
          readopen, writeopen,
          freed,      \* the page went back to kalloc
          lock,       \* the process inside the pipe, or Nobody
          pc,         \* where a process is in pipewrite or piperead
          left,       \* bytes its call still has to move
          got,        \* bytes its call has moved
          ends,       \* the ends a process holds open
          killed,     \* processes that were killed
          panicked    \* an arithmetic overflow stopped the kernel

vars == <<data, nread, nwrite, readopen, writeopen, freed, lock, pc, left, got, ends, killed, panicked>>

Pcs == {"idle", "write", "wsleep", "read", "copy", "rsleep"}

TypeOK == /\ data \in [0..(PIPESIZE - 1) -> Bytes]
          /\ nread \in 0..UINTMAX /\ nwrite \in 0..UINTMAX
          /\ readopen \in BOOLEAN /\ writeopen \in BOOLEAN /\ freed \in BOOLEAN
          /\ lock \in Procs \cup {Nobody}
          /\ pc \in [Procs -> Pcs]
          /\ left \in [Procs -> Nat] /\ got \in [Procs -> Nat]
          /\ ends \in [Procs -> SUBSET {"r", "w"}]
          /\ killed \in SUBSET Procs
          /\ panicked \in BOOLEAN

-----------------------------------------------------------------------------
IsEmpty == nread = nwrite

\* Variant: the test for a full ring is off by one.
IsFullLate == nwrite = nread + PIPESIZE + 1

IsFull  == nwrite = nread + PIPESIZE

\* The build checks additions: is_full adds PIPESIZE to nread, and a byte adds
\* one to its counter.
FullOverflows  == nread + PIPESIZE > UINTMAX

WriteOverflows == FullOverflows \/ (~IsFull /\ nwrite = UINTMAX)

Inside(p, l) == ~panicked /\ lock \in {p, Nobody} /\ pc[p] = l

\* Variants: the wakeup is missing; the reader does not test again after it.
WakeReadersMissing(f) == f
WakeReadersOnce(f) == [p \in Procs |-> IF f[p] = "rsleep" THEN "copy" ELSE f[p]]
WakeWritersMissing(f) == f

\* wakeup on &nread or &nwrite, for the processes in f.
WakeReaders(f) == [p \in Procs |-> IF f[p] = "rsleep" THEN "read" ELSE f[p]]
WakeWriters(f) == [p \in Procs |-> IF f[p] = "wsleep" THEN "write" ELSE f[p]]

At(p, l) == [pc EXCEPT ![p] = l]

Panic == panicked' = TRUE
         /\ UNCHANGED <<data, nread, nwrite, readopen, writeopen, freed, lock, pc, left, got, ends, killed>>

\* The call returns, and the lock is released.
Return(p, f) ==
  /\ pc' = f
  /\ lock' = Nobody
  /\ left' = [left EXCEPT ![p] = 0]
  /\ got' = [got EXCEPT ![p] = 0]

\* sleep() releases the lock.
Sleep(f) == pc' = f /\ lock' = Nobody /\ UNCHANGED <<left, got>>

Ring    == <<data, nread, nwrite>>
Holders == <<readopen, writeopen, freed, ends, killed, panicked>>

-----------------------------------------------------------------------------
\* write(fd, buf, n) or read(fd, buf, n) on the pipe.
Enter(p, n) ==
  /\ ~panicked /\ pc[p] = "idle"
  /\ \/ "w" \in ends[p] /\ nwrite + n <= MaxBytes /\ pc' = At(p, "write")
     \/ "r" \in ends[p] /\ pc' = At(p, "read")
  /\ left' = [left EXCEPT ![p] = n]
  /\ got' = [got EXCEPT ![p] = 0]
  /\ UNCHANGED <<Ring, Holders, lock>>

\* pipewrite, one byte.
WriteByte(p, b) ==
  /\ Inside(p, "write") /\ left[p] > 0 /\ ~IsFull /\ ~WriteOverflows
  /\ data' = [data EXCEPT ![nwrite % PIPESIZE] = b]
  /\ nwrite' = nwrite + 1
  /\ left' = [left EXCEPT ![p] = @ - 1]
  /\ got' = [got EXCEPT ![p] = @ + 1]
  /\ lock' = p
  /\ UNCHANGED <<nread, pc, Holders>>

\* The pipe is full: fail without a reader or when killed, else sleep.
WriteFull(p) ==
  /\ Inside(p, "write") /\ left[p] > 0 /\ IsFull /\ ~WriteOverflows
  /\ IF ~readopen \/ p \in killed THEN Return(p, At(p, "idle"))
                                  ELSE Sleep(WakeReaders(At(p, "wsleep")))
  /\ UNCHANGED <<Ring, Holders>>

WriteDone(p) ==
  /\ Inside(p, "write") /\ left[p] = 0
  /\ Return(p, WakeReaders(At(p, "idle")))
  /\ UNCHANGED <<Ring, Holders>>

WriteTraps(p) == Inside(p, "write") /\ left[p] > 0 /\ WriteOverflows /\ Panic

\* piperead: wait for a byte, or for the last writer to leave.
ReadWait(p) ==
  /\ Inside(p, "read")
  /\ \/ /\ IsEmpty /\ writeopen
        /\ IF p \in killed THEN Return(p, At(p, "idle")) ELSE Sleep(At(p, "rsleep"))
     \/ /\ ~(IsEmpty /\ writeopen)
        /\ pc' = At(p, "copy")
        /\ lock' = p
        /\ UNCHANGED <<left, got>>
  /\ UNCHANGED <<Ring, Holders>>

ReadByte(p) ==
  /\ Inside(p, "copy") /\ left[p] > 0 /\ ~IsEmpty
  /\ nread' = nread + 1
  /\ left' = [left EXCEPT ![p] = @ - 1]
  /\ got' = [got EXCEPT ![p] = @ + 1]
  /\ UNCHANGED <<data, nwrite, lock, pc, Holders>>

ReadDone(p) ==
  /\ Inside(p, "copy") /\ (left[p] = 0 \/ IsEmpty)
  /\ Return(p, WakeWriters(At(p, "idle")))
  /\ UNCHANGED <<Ring, Holders>>

\* Variant: pipeclose frees the page as soon as one end is closed.
CloseFreesEarly(p, e) ==
  /\ ~panicked /\ lock = Nobody /\ pc[p] = "idle" /\ e \in ends[p]
  /\ ends' = [ends EXCEPT ![p] = @ \ {e}]
  /\ LET last == \A q \in Procs \ {p} : e \notin ends[q]
     IN /\ writeopen' = (writeopen /\ ~(last /\ e = "w"))
        /\ readopen' = (readopen /\ ~(last /\ e = "r"))
        /\ pc' = IF ~last THEN pc ELSE IF e = "w" THEN WakeReaders(pc) ELSE WakeWriters(pc)
  /\ freed' = (~readopen' \/ ~writeopen')
  /\ UNCHANGED <<Ring, lock, left, got, killed, panicked>>

\* close(fd): the last descriptor of an end calls pipeclose, which wakes the
\* other end and frees the page when both are closed.
Close(p, e) ==
  /\ ~panicked /\ lock = Nobody /\ pc[p] = "idle" /\ e \in ends[p]
  /\ ends' = [ends EXCEPT ![p] = @ \ {e}]
  /\ LET last == \A q \in Procs \ {p} : e \notin ends[q]
     IN /\ writeopen' = (writeopen /\ ~(last /\ e = "w"))
        /\ readopen' = (readopen /\ ~(last /\ e = "r"))
        /\ pc' = IF ~last THEN pc ELSE IF e = "w" THEN WakeReaders(pc) ELSE WakeWriters(pc)
  /\ freed' = (~readopen' /\ ~writeopen')
  /\ UNCHANGED <<Ring, lock, left, got, killed, panicked>>

\* kill(pid of p): a sleeper runs again and finds killed set.
Kill(p) ==
  /\ ~panicked /\ lock = Nobody /\ p \notin killed
  /\ killed' = killed \cup {p}
  /\ pc' = IF pc[p] = "rsleep" THEN At(p, "read")
           ELSE IF pc[p] = "wsleep" THEN At(p, "write") ELSE pc
  /\ UNCHANGED <<Ring, readopen, writeopen, freed, lock, left, got, ends, panicked>>

-----------------------------------------------------------------------------
\* pipe(), then fork: every process holds both ends.
Init == /\ \E b \in Bytes : data = [i \in 0..(PIPESIZE - 1) |-> b]
        /\ nread = 0 /\ nwrite = 0
        /\ readopen = TRUE /\ writeopen = TRUE /\ freed = FALSE
        /\ lock = Nobody
        /\ pc = [p \in Procs |-> "idle"]
        /\ left = [p \in Procs |-> 0] /\ got = [p \in Procs |-> 0]
        /\ ends = [p \in Procs |-> {"r", "w"}]
        /\ killed = {}
        /\ panicked = FALSE

Step(p) == \/ \E b \in Bytes : WriteByte(p, b)
           \/ WriteFull(p) \/ WriteDone(p) \/ WriteTraps(p)
           \/ ReadWait(p) \/ ReadByte(p) \/ ReadDone(p)

Next == \E p \in Procs : \/ \E n \in Lengths : Enter(p, n)
                         \/ Step(p)
                         \/ \E e \in {"r", "w"} : Close(p, e)
                         \/ Kill(p)

Spec == Init /\ [][Next]_vars

\* A process that is awake inside the pipe is scheduled again.
FairSpec == Spec /\ \A p \in Procs : SF_vars(Step(p))

-----------------------------------------------------------------------------
\* The bytes in flight, oldest first.
InFlight == [i \in 1..(nwrite - nread) |-> data[(nread + i - 1) % PIPESIZE]]

\* The ring with its two counters is a queue of at most PIPESIZE bytes.
Queue == INSTANCE Fifo WITH Capacity <- PIPESIZE, queue <- InFlight
ImplementsFifo == Queue!FifoSpec

\* No wakeup is missed: with nobody inside, a reader sleeps only while a writer
\* is left and, as long as nobody was killed, on an empty pipe; a writer only on
\* a full pipe with a reader left; and nobody sleeps through a kill.
WakeupNotMissed ==
  (lock = Nobody /\ ~panicked) =>
     \A p \in Procs : /\ pc[p] = "rsleep" => writeopen /\ p \notin killed /\ (killed = {} => IsEmpty)
                      /\ pc[p] = "wsleep" => readopen /\ p \notin killed /\ IsFull

\* Readers and writers never wait for each other.
NoStandoff == lock = Nobody => ~\E p, q \in Procs : pc[p] = "rsleep" /\ pc[q] = "wsleep"

\* piperead blocks only if the pipe is empty.
BlocksIfEmpty == \A p \in Procs : (lock = Nobody /\ pc[p] = "rsleep") => IsEmpty

\* pipeclose frees the page only when no process can still be inside the pipe.
NoUseAfterFree == freed => \A p \in Procs : pc[p] = "idle"

\* read() for at least one byte returns 0 only at the end of file: the pipe is
\* empty and every write end is closed, also when several readers compete for
\* the bytes.
ZeroMeansEof ==
  [][\A p \in Procs : (pc[p] = "copy" /\ pc'[p] = "idle" /\ left[p] > 0 /\ got[p] = 0)
                        => IsEmpty /\ ~writeopen]_vars

\* Closing the last descriptor of an end releases whoever is in the pipe at
\* the other: a reader returns once no write end is left, and a writer once no
\* read end is, unless the kernel has stopped.
CloseReleases ==
  \A p \in Procs :
    /\ (~writeopen /\ pc[p] \in {"read", "rsleep", "copy"}) ~> (pc[p] = "idle" \/ panicked)
    /\ (~readopen /\ pc[p] \in {"write", "wsleep"}) ~> (pc[p] = "idle" \/ panicked)

\* The counters wrap: no number of bytes through the pipe stops the kernel.
CountersWrap == ~panicked

\* pipewrite reports success only while the read end is open.
WriteNeedsReader ==
  [][\A p \in Procs : (pc[p] = "write" /\ pc'[p] = "idle" /\ left[p] = 0) => readopen]_vars
=============================================================================
