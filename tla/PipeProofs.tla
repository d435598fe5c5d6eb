----------------------------- MODULE PipeProofs -----------------------------
(***************************************************************************)
(* Two rings of bytes: the pipe of Pipe.tla, for every number of           *)
(* processes, every size of the ring and every width of the counters, and  *)
(* the console of Terminal.tla, with its line editor between keyboard and  *)
(* screen, for any keys, buffer and screen.                                *)
(***************************************************************************)
EXTENDS Pipe, Terminal, Integers, SequenceTheorems, TLAPS

Writing == {"write", "wsleep"}
Reading == {"read", "copy", "rsleep"}

\* Who is inside, and with which ends open.
HolderInv == /\ \A p \in Procs : lock = p => pc[p] \in {"write", "copy"}
             /\ \A p \in Procs : pc[p] = "copy" => lock = p
             /\ \A p \in Procs : pc[p] \in Writing => "w" \in ends[p]
             /\ \A p \in Procs : pc[p] \in Reading => "r" \in ends[p]
             /\ \A p \in Procs : ("w" \in ends[p] => writeopen) /\ ("r" \in ends[p] => readopen)
             /\ freed => ~readopen /\ ~writeopen

\* The counters follow each other at most one ring apart.
RingInv == nread <= nwrite /\ nwrite <= nread + PIPESIZE

\* A process with a byte to move sleeps only for a good reason; the other kind
\* of process may be about to change that while it is inside.
SleepInv == \A p \in Procs :
  /\ pc[p] = "rsleep" => writeopen /\ p \notin killed
  /\ pc[p] = "wsleep" => readopen /\ p \notin killed
  /\ (pc[p] = "rsleep" /\ killed = {} /\ \A q \in Procs : lock = q => pc[q] = "copy") => IsEmpty
  /\ (pc[p] = "wsleep" /\ \A q \in Procs : lock = q => pc[q] = "write") => IsFull

\* A reader that has nothing yet saw a byte, or the end of file.
ReadInv == \A p \in Procs : (pc[p] = "copy" /\ got[p] = 0) => ~(IsEmpty /\ writeopen)

IInv == TypeOK /\ HolderInv /\ RingInv /\ SleepInv /\ ReadInv

-----------------------------------------------------------------------------
LEMMA WakeFacts ==
  ASSUME NEW f \in [Procs -> Pcs]
  PROVE  /\ WakeReaders(f) \in [Procs -> Pcs] /\ WakeWriters(f) \in [Procs -> Pcs]
         /\ \A p \in Procs : WakeReaders(f)[p] = IF f[p] = "rsleep" THEN "read" ELSE f[p]
         /\ \A p \in Procs : WakeWriters(f)[p] = IF f[p] = "wsleep" THEN "write" ELSE f[p]
BY DEF WakeReaders, WakeWriters, Pcs

LEMMA InitIInv == Init => IInv
<1> SUFFICES ASSUME Init PROVE IInv
  OBVIOUS
<1>1. TypeOK
  <2>1. /\ data \in [0..(PIPESIZE - 1) -> Bytes] /\ nread \in 0..UINTMAX /\ nwrite \in 0..UINTMAX
        /\ lock \in Procs \cup {Nobody} /\ pc \in [Procs -> Pcs]
        /\ left \in [Procs -> Nat] /\ got \in [Procs -> Nat]
        /\ ends \in [Procs -> SUBSET {"r", "w"}] /\ killed \in SUBSET Procs
    BY PipeConstants DEF Init, Pcs
  <2>2. readopen \in BOOLEAN /\ writeopen \in BOOLEAN /\ freed \in BOOLEAN /\ panicked \in BOOLEAN
    BY Zenon DEF Init
  <2> QED
    BY <2>1, <2>2 DEF TypeOK
<1>2. HolderInv
  <2>1. \A p \in Procs : pc[p] = "idle" /\ lock # p
    BY PipeConstants DEF Init
  <2> QED
    BY <2>1 DEF Init, HolderInv, Writing, Reading
<1>3. RingInv /\ SleepInv /\ ReadInv
  BY PipeConstants DEF Init, RingInv, SleepInv, ReadInv
<1> QED
  BY <1>1, <1>2, <1>3 DEF IInv

\* A system call enters the pipe.
LEMMA EnterStep ==
  ASSUME IInv, NEW p \in Procs, NEW n \in Lengths, Enter(p, n)
  PROVE  IInv'
<1>1. /\ pc[p] = "idle" /\ n \in Nat
      /\ left' = [left EXCEPT ![p] = n] /\ got' = [got EXCEPT ![p] = 0]
      /\ UNCHANGED <<data, nread, nwrite, lock, ends, killed>>
      /\ UNCHANGED <<readopen, writeopen, freed, panicked>>
  BY PipeConstants DEF Enter, Ring, Holders
<1>2. TypeOK
  BY DEF IInv
<1>3. PICK l \in {"write", "read"} : /\ pc' = [pc EXCEPT ![p] = l]
                                     /\ l = "write" => "w" \in ends[p]
                                     /\ l = "read" => "r" \in ends[p]
  BY DEF Enter, At
<1>4. pc' \in [Procs -> Pcs] /\ pc \in [Procs -> Pcs]
  BY <1>2, <1>3 DEF TypeOK, Pcs
<1>5. TypeOK'
  BY <1>1, <1>2, <1>4, Zenon DEF TypeOK
<1>6. lock # p
  BY <1>1, Zenon DEF IInv, HolderInv
<1>7. \A q \in Procs : pc'[q] = IF q = p THEN l ELSE pc[q]
  BY <1>3, <1>4
<1>8. HolderInv'
  BY <1>1, <1>3, <1>6, <1>7 DEF IInv, HolderInv, Writing, Reading
<1>9. SleepInv' /\ RingInv'
  BY <1>1, <1>6, <1>7, Zenon DEF IInv, SleepInv, RingInv, IsEmpty, IsFull
<1>10. ReadInv'
  BY <1>1, <1>2, <1>7, Zenon DEF IInv, ReadInv, IsEmpty, TypeOK
<1> QED
  BY <1>5, <1>8, <1>9, <1>10 DEF IInv

LEMMA WriteByteStep ==
  ASSUME IInv, NEW p \in Procs, NEW b \in Bytes, WriteByte(p, b)
  PROVE  IInv'
<1>1. /\ pc[p] = "write" /\ lock \in {p, Nobody} /\ ~IsFull /\ nwrite # UINTMAX /\ left[p] > 0
      /\ data' = [data EXCEPT ![nwrite % PIPESIZE] = b]
      /\ nwrite' = nwrite + 1 /\ nread' = nread
      /\ left' = [left EXCEPT ![p] = @ - 1] /\ got' = [got EXCEPT ![p] = @ + 1]
      /\ lock' = p
      /\ UNCHANGED <<pc, ends, killed>>
      /\ UNCHANGED <<readopen, writeopen, freed, panicked>>
  BY Zenon DEF WriteByte, Inside, WriteOverflows, Holders
<1>2. TypeOK
  BY DEF IInv
<1>3. TypeOK'
  <2>1. nwrite' \in 0..UINTMAX /\ data' \in [0..(PIPESIZE - 1) -> Bytes]
    BY <1>1, <1>2, PipeConstants DEF TypeOK
  <2>2. left' \in [Procs -> Nat] /\ got' \in [Procs -> Nat]
    BY <1>1, <1>2 DEF TypeOK
  <2> QED
    BY <1>1, <1>2, <2>1, <2>2, Zenon DEF TypeOK
<1>a. \A q \in Procs : pc[q] \notin {"copy", "wsleep"}
  BY <1>1, PipeConstants, Zenon DEF IInv, HolderInv, SleepInv
<1>4. HolderInv'
  BY <1>1, <1>a, Zenon DEF IInv, HolderInv, Writing, Reading
<1>5. RingInv'
  BY <1>1, <1>2, PipeConstants DEF IInv, RingInv, IsFull, TypeOK
<1>6. SleepInv'
  BY <1>1, <1>a, Zenon DEF IInv, SleepInv
<1>7. ReadInv'
  BY <1>1, <1>2, <1>a, Zenon DEF IInv, ReadInv, TypeOK
<1> QED
  BY <1>3, <1>4, <1>5, <1>6, <1>7 DEF IInv

\* Steps that leave the ring and the descriptors alone.
LEMMA MoveStep ==
  ASSUME IInv, UNCHANGED <<data, nread, nwrite, ends, killed>>,
         UNCHANGED <<readopen, writeopen, freed, panicked>>,
         pc' \in [Procs -> Pcs], lock' \in Procs \cup {Nobody},
         left' \in [Procs -> Nat], got' \in [Procs -> Nat],
         \A q \in Procs : /\ pc'[q] \in Writing => pc[q] \in Writing
                          /\ pc'[q] \in Reading => pc[q] \in Reading
                          /\ lock' = q => pc'[q] \in {"write", "copy"}
                          /\ pc'[q] = "copy" => lock' = q,
         SleepInv', ReadInv'
  PROVE  IInv'
<1>1. TypeOK'
  BY Zenon DEF IInv, TypeOK
<1>2. HolderInv'
  BY DEF IInv, HolderInv
<1>3. RingInv'
  BY DEF IInv, RingInv
<1> QED
  BY <1>1, <1>2, <1>3, Zenon DEF IInv

\* A process inside in pipewrite excludes the others.
LEMMA Inside1 ==
  ASSUME IInv, NEW p \in Procs, NEW l, Inside(p, l)
  PROVE  /\ pc[p] = l /\ pc \in [Procs -> Pcs]
         /\ l = "write" => \A q \in Procs : pc[q] # "copy" /\ (lock = q => q = p)
         /\ l = "read" => lock = Nobody /\ \A q \in Procs : pc[q] # "copy"
         /\ l = "copy" => lock = p
         /\ \A q \in Procs : Nobody # q
BY PipeConstants DEF IInv, TypeOK, HolderInv, Inside

LEMMA WriteFullStep ==
  ASSUME IInv, NEW p \in Procs, WriteFull(p)
  PROVE  IInv'
<1>1. /\ pc[p] = "write" /\ IsFull /\ pc \in [Procs -> Pcs]
      /\ \A q \in Procs : pc[q] # "copy" /\ (lock = q => q = p) /\ Nobody # q
      /\ UNCHANGED <<data, nread, nwrite, ends, killed>>
      /\ UNCHANGED <<readopen, writeopen, freed, panicked>>
  BY Inside1 DEF WriteFull, Ring, Holders
<1>2. left \in [Procs -> Nat] /\ got \in [Procs -> Nat]
  BY DEF IInv, TypeOK
<1>3. CASE ~readopen \/ p \in killed
  <2>1. /\ pc' = [pc EXCEPT ![p] = "idle"] /\ lock' = Nobody
        /\ left' = [left EXCEPT ![p] = 0] /\ got' = [got EXCEPT ![p] = 0]
    BY <1>3, Zenon DEF WriteFull, Return, At
  <2>2. pc' \in [Procs -> Pcs] /\ \A q \in Procs : pc'[q] = IF q = p THEN "idle" ELSE pc[q]
    BY <1>1, <2>1 DEF Pcs
  <2>3. left' \in [Procs -> Nat] /\ got' \in [Procs -> Nat]
    BY <1>2, <2>1
  <2>4. SleepInv'
    <3>1. killed = {} => \A q \in Procs : pc[q] # "rsleep"
      BY <1>3, Zenon DEF IInv, HolderInv, Reading
    <3> QED
      BY <1>1, <2>1, <2>2, <3>1, Zenon DEF IInv, SleepInv, IsFull
  <2>5. ReadInv'
    BY <1>1, <1>2, <2>1, <2>2, Zenon DEF IInv, ReadInv, IsEmpty
  <2> QED
    BY <1>1, <2>1, <2>2, <2>3, <2>4, <2>5, MoveStep, Zenon DEF Writing, Reading
<1>4. CASE ~(~readopen \/ p \in killed)
  <2> DEFINE f == [pc EXCEPT ![p] = "wsleep"]
  <2>1. pc' = WakeReaders(f) /\ lock' = Nobody /\ UNCHANGED <<left, got>>
    BY <1>4, Zenon DEF WriteFull, Sleep, At
  <2>2. f \in [Procs -> Pcs] /\ \A q \in Procs : f[q] = IF q = p THEN "wsleep" ELSE pc[q]
    BY <1>1 DEF Pcs
  <2> HIDE DEF f
  <2>3. /\ pc' \in [Procs -> Pcs]
        /\ \A q \in Procs : pc'[q] = IF f[q] = "rsleep" THEN "read" ELSE f[q]
    BY <2>1, <2>2, WakeFacts
  <2>4. SleepInv'
    BY <1>1, <1>4, <2>1, <2>2, <2>3, Zenon DEF IInv, SleepInv, IsFull
  <2>5. ReadInv'
    BY <1>1, <2>1, <2>2, <2>3, Zenon DEF IInv, ReadInv, IsEmpty
  <2> QED
    BY <1>1, <1>2, <2>1, <2>2, <2>3, <2>4, <2>5, MoveStep, Zenon DEF Writing, Reading
<1> QED
  BY <1>3, <1>4

LEMMA WriteDoneStep ==
  ASSUME IInv, NEW p \in Procs, WriteDone(p)
  PROVE  IInv'
<1> DEFINE f == [pc EXCEPT ![p] = "idle"]
<1>1. /\ pc[p] = "write" /\ pc \in [Procs -> Pcs]
      /\ \A q \in Procs : pc[q] # "copy" /\ (lock = q => q = p) /\ Nobody # q
      /\ pc' = WakeReaders(f) /\ lock' = Nobody
      /\ left' = [left EXCEPT ![p] = 0] /\ got' = [got EXCEPT ![p] = 0]
      /\ UNCHANGED <<data, nread, nwrite, ends, killed>>
      /\ UNCHANGED <<readopen, writeopen, freed, panicked>>
  BY Inside1, Zenon DEF WriteDone, Return, At, Ring, Holders
<1>2. left' \in [Procs -> Nat] /\ got' \in [Procs -> Nat] /\ left \in [Procs -> Nat]
  BY <1>1, Zenon DEF IInv, TypeOK
<1>3. f \in [Procs -> Pcs] /\ \A q \in Procs : f[q] = IF q = p THEN "idle" ELSE pc[q]
  BY <1>1 DEF Pcs
<1> HIDE DEF f
<1>4. pc' \in [Procs -> Pcs] /\ \A q \in Procs : pc'[q] = IF f[q] = "rsleep" THEN "read" ELSE f[q]
  BY <1>1, <1>3, WakeFacts, Zenon
<1>5. SleepInv'
  BY <1>1, <1>3, <1>4 DEF IInv, SleepInv, IsFull
<1>6. ReadInv'
  BY <1>1, <1>2, <1>3, <1>4 DEF IInv, ReadInv, IsEmpty
<1> QED
  BY <1>1, <1>2, <1>3, <1>4, <1>5, <1>6, MoveStep, Zenon DEF Writing, Reading

LEMMA ReadWaitStep ==
  ASSUME IInv, NEW p \in Procs, ReadWait(p)
  PROVE  IInv'
<1>1. /\ pc[p] = "read" /\ pc \in [Procs -> Pcs] /\ lock = Nobody
      /\ \A q \in Procs : pc[q] # "copy" /\ Nobody # q
      /\ UNCHANGED <<data, nread, nwrite, ends, killed>>
      /\ UNCHANGED <<readopen, writeopen, freed, panicked>>
  BY Inside1, Zenon DEF ReadWait, Ring, Holders
<1>2. left \in [Procs -> Nat] /\ got \in [Procs -> Nat]
  BY DEF IInv, TypeOK
<1>3. CASE IsEmpty /\ writeopen /\ p \in killed
  <2>1. /\ pc' = [pc EXCEPT ![p] = "idle"] /\ lock' = Nobody
        /\ left' = [left EXCEPT ![p] = 0] /\ got' = [got EXCEPT ![p] = 0]
    BY <1>3, Zenon DEF ReadWait, Return, At
  <2>2. pc' \in [Procs -> Pcs] /\ \A q \in Procs : pc'[q] = IF q = p THEN "idle" ELSE pc[q]
    BY <1>1, <2>1, Zenon DEF Pcs
  <2>3. left' \in [Procs -> Nat] /\ got' \in [Procs -> Nat]
    BY <1>2, <2>1
  <2>4. SleepInv'
    BY <1>1, <2>1, <2>2, Zenon DEF IInv, SleepInv, IsFull, IsEmpty
  <2>5. ReadInv'
    BY <1>1, <1>2, <2>1, <2>2, Zenon DEF IInv, ReadInv, IsEmpty
  <2> QED
    BY <1>1, <2>1, <2>2, <2>3, <2>4, <2>5, MoveStep, Zenon DEF Writing, Reading
<1>4. CASE IsEmpty /\ writeopen /\ p \notin killed
  <2>1. pc' = [pc EXCEPT ![p] = "rsleep"] /\ lock' = Nobody /\ UNCHANGED <<left, got>>
    BY <1>4, Zenon DEF ReadWait, Sleep, At
  <2>2. pc' \in [Procs -> Pcs] /\ \A q \in Procs : pc'[q] = IF q = p THEN "rsleep" ELSE pc[q]
    BY <1>1, <2>1, Zenon DEF Pcs
  <2>3. SleepInv'
    BY <1>1, <1>4, <2>1, <2>2, Zenon DEF IInv, SleepInv, IsFull, IsEmpty
  <2>4. ReadInv'
    BY <1>1, <2>1, <2>2, Zenon DEF IInv, ReadInv, IsEmpty
  <2> QED
    BY <1>1, <1>2, <2>1, <2>2, <2>3, <2>4, MoveStep, Zenon DEF Writing, Reading
<1>5. CASE ~(IsEmpty /\ writeopen)
  <2>1. pc' = [pc EXCEPT ![p] = "copy"] /\ lock' = p /\ UNCHANGED <<left, got>>
    BY <1>5, Zenon DEF ReadWait, At
  <2>2. pc' \in [Procs -> Pcs] /\ \A q \in Procs : pc'[q] = IF q = p THEN "copy" ELSE pc[q]
    BY <1>1, <2>1, Zenon DEF Pcs
  <2>3. SleepInv'
    BY <1>1, <2>1, <2>2, Zenon DEF IInv, SleepInv, IsFull, IsEmpty
  <2>4. ReadInv'
    BY <1>1, <1>5, <2>1, <2>2, Zenon DEF IInv, ReadInv, IsEmpty
  <2> QED
    BY <1>1, <1>2, <2>1, <2>2, <2>3, <2>4, MoveStep, Zenon DEF Writing, Reading
<1> QED
  BY <1>3, <1>4, <1>5, Zenon

LEMMA ReadByteStep ==
  ASSUME IInv, NEW p \in Procs, ReadByte(p)
  PROVE  IInv'
<1>1. /\ pc[p] = "copy" /\ lock = p /\ ~IsEmpty /\ left[p] > 0
      /\ nread' = nread + 1
      /\ left' = [left EXCEPT ![p] = @ - 1] /\ got' = [got EXCEPT ![p] = @ + 1]
      /\ UNCHANGED <<data, nwrite, lock, pc, ends, killed>>
      /\ UNCHANGED <<readopen, writeopen, freed, panicked>>
  BY Inside1, Zenon DEF ReadByte, Inside, Holders
<1>2. TypeOK
  BY DEF IInv
<1>3. TypeOK'
  <2>1. nread' \in 0..UINTMAX
    BY <1>1, <1>2, PipeConstants DEF TypeOK, IInv, RingInv, IsEmpty
  <2>2. left' \in [Procs -> Nat] /\ got' \in [Procs -> Nat]
    BY <1>1, <1>2 DEF TypeOK
  <2> QED
    BY <1>1, <1>2, <2>1, <2>2, Zenon DEF TypeOK
<1>4. HolderInv'
  BY <1>1, Zenon DEF IInv, HolderInv, Writing, Reading
<1>5. RingInv'
  BY <1>1, <1>2, PipeConstants DEF IInv, RingInv, IsEmpty, TypeOK
<1>6. SleepInv'
  BY <1>1, Zenon DEF IInv, SleepInv
<1>7. ReadInv'
  <2>1. \A q \in Procs : pc[q] = "copy" => q = p
    BY <1>1, Zenon DEF IInv, HolderInv
  <2>2. got'[p] # 0
    BY <1>1, <1>2 DEF TypeOK
  <2> QED
    BY <1>1, <1>2, <2>1, <2>2, Zenon DEF IInv, ReadInv, TypeOK
<1> QED
  BY <1>3, <1>4, <1>5, <1>6, <1>7, Zenon DEF IInv

LEMMA ReadDoneStep ==
  ASSUME IInv, NEW p \in Procs, ReadDone(p)
  PROVE  IInv'
<1> DEFINE f == [pc EXCEPT ![p] = "idle"]
<1>1. /\ pc[p] = "copy" /\ lock = p /\ pc \in [Procs -> Pcs]
      /\ pc' = WakeWriters(f) /\ lock' = Nobody
      /\ left' = [left EXCEPT ![p] = 0] /\ got' = [got EXCEPT ![p] = 0]
      /\ UNCHANGED <<data, nread, nwrite, ends, killed>>
      /\ UNCHANGED <<readopen, writeopen, freed, panicked>>
      /\ \A q \in Procs : Nobody # q
  BY Inside1, Zenon DEF ReadDone, Return, At, Ring, Holders
<1>2. left' \in [Procs -> Nat] /\ got' \in [Procs -> Nat] /\ left \in [Procs -> Nat]
  BY <1>1, Zenon DEF IInv, TypeOK
<1>3. f \in [Procs -> Pcs] /\ \A q \in Procs : f[q] = IF q = p THEN "idle" ELSE pc[q]
  BY <1>1, Zenon DEF Pcs
<1> HIDE DEF f
<1>4. pc' \in [Procs -> Pcs] /\ \A q \in Procs : pc'[q] = IF f[q] = "wsleep" THEN "write" ELSE f[q]
  BY <1>1, <1>3, WakeFacts, Zenon
<1>5. \A q \in Procs : pc[q] = "copy" => q = p
  BY <1>1, Zenon DEF IInv, HolderInv
<1>6. SleepInv'
  BY <1>1, <1>3, <1>4, Zenon DEF IInv, SleepInv, IsEmpty
<1>7. ReadInv'
  BY <1>1, <1>2, <1>3, <1>4, <1>5, Zenon DEF IInv, ReadInv, IsEmpty
<1> QED
  BY <1>1, <1>2, <1>3, <1>4, <1>5, <1>6, <1>7, MoveStep, Zenon DEF Writing, Reading

LEMMA KillStep ==
  ASSUME IInv, NEW p \in Procs, Kill(p)
  PROVE  IInv'
<1>1. /\ lock = Nobody /\ lock' = lock /\ killed' = killed \cup {p}
      /\ pc' = IF pc[p] = "rsleep" THEN [pc EXCEPT ![p] = "read"]
               ELSE IF pc[p] = "wsleep" THEN [pc EXCEPT ![p] = "write"] ELSE pc
      /\ UNCHANGED <<data, nread, nwrite, left, got, ends>>
      /\ UNCHANGED <<readopen, writeopen, freed, panicked>>
  BY Zenon DEF Kill, Ring, At
<1>2. TypeOK /\ \A q \in Procs : Nobody # q
  BY PipeConstants DEF IInv
<1>3. /\ pc' \in [Procs -> Pcs]
      /\ \A q \in Procs : pc'[q] = IF q = p /\ pc[p] = "rsleep" THEN "read"
                                   ELSE IF q = p /\ pc[p] = "wsleep" THEN "write" ELSE pc[q]
  BY <1>1, <1>2, Zenon DEF TypeOK, Pcs
<1>4. TypeOK'
  BY <1>1, <1>2, <1>3, Zenon DEF TypeOK
<1>5. HolderInv'
  BY <1>1, <1>2, <1>3 DEF IInv, HolderInv, Writing, Reading
<1>6. RingInv' /\ ReadInv'
  BY <1>1, <1>3, Zenon DEF IInv, RingInv, ReadInv, IsEmpty
<1>7. SleepInv'
  BY <1>1, <1>2, <1>3, Zenon DEF IInv, SleepInv, IsFull
<1> QED
  BY <1>4, <1>5, <1>6, <1>7, Zenon DEF IInv

LEMMA CloseStep ==
  ASSUME IInv, NEW p \in Procs, NEW e \in {"r", "w"}, Close(p, e)
  PROVE  IInv'
<1> DEFINE lastEnd == \A q \in Procs \ {p} : e \notin ends[q]
<1>1. /\ lock = Nobody /\ lock' = lock /\ pc[p] = "idle" /\ e \in ends[p]
      /\ ends' = [ends EXCEPT ![p] = @ \ {e}]
      /\ pc' = IF ~lastEnd THEN pc ELSE IF e = "w" THEN WakeReaders(pc) ELSE WakeWriters(pc)
      /\ UNCHANGED <<data, nread, nwrite, left, got, killed>>
  BY Zenon DEF Close, Ring
<1>2. /\ writeopen' = (writeopen /\ ~(lastEnd /\ e = "w"))
      /\ readopen' = (readopen /\ ~(lastEnd /\ e = "r"))
      /\ freed' = (~readopen' /\ ~writeopen')
      /\ panicked' = panicked
  BY Zenon DEF Close
<1>3. TypeOK /\ \A q \in Procs : Nobody # q
  BY PipeConstants DEF IInv
<1>4. /\ pc' \in [Procs -> Pcs]
      /\ \A q \in Procs : pc'[q] = IF lastEnd /\ e = "w" /\ pc[q] = "rsleep" THEN "read"
                                   ELSE IF lastEnd /\ e = "r" /\ pc[q] = "wsleep" THEN "write" ELSE pc[q]
  <2>1. pc \in [Procs -> Pcs]
    BY <1>3, Zenon DEF TypeOK
  <2> QED
    BY <1>1, <2>1, WakeFacts, Zenon
<1>5. \A q \in Procs : ends'[q] = IF q = p THEN ends[q] \ {e} ELSE ends[q]
  BY <1>1, <1>3, Zenon DEF TypeOK
<1>6. TypeOK'
  <2>1. ends' \in [Procs -> SUBSET {"r", "w"}]
    BY <1>1, <1>3, Zenon DEF TypeOK
  <2>2. writeopen' \in BOOLEAN /\ readopen' \in BOOLEAN /\ freed' \in BOOLEAN /\ panicked' \in BOOLEAN
    BY <1>2, <1>3, Zenon DEF TypeOK
  <2> QED
    BY <1>1, <1>3, <1>4, <2>1, <2>2, Zenon DEF TypeOK
<1>7. HolderInv'
  <2>1. \A q \in Procs : ("w" \in ends'[q] => writeopen') /\ ("r" \in ends'[q] => readopen')
    BY <1>2, <1>5, Zenon DEF IInv, HolderInv
  <2>2. freed' => ~readopen' /\ ~writeopen'
    BY <1>2, Zenon
  <2>3. \A q \in Procs : /\ lock' = q => pc'[q] \in {"write", "copy"}
                         /\ pc'[q] = "copy" => lock' = q
    BY <1>1, <1>3, <1>4, Zenon DEF IInv, HolderInv
  <2>4. \A q \in Procs : (pc'[q] \in Writing => "w" \in ends'[q]) /\ (pc'[q] \in Reading => "r" \in ends'[q])
    BY <1>1, <1>4, <1>5 DEF IInv, HolderInv, Writing, Reading
  <2> QED
    BY <2>1, <2>2, <2>3, <2>4, Zenon DEF HolderInv
<1>8. RingInv'
  BY <1>1, Zenon DEF IInv, RingInv
<1>9. SleepInv'
  <2>1. \A q \in Procs : /\ pc'[q] = "rsleep" => writeopen' /\ q \notin killed
                         /\ pc'[q] = "wsleep" => readopen' /\ q \notin killed
    BY <1>2, <1>4, Zenon DEF IInv, SleepInv
  <2> QED
    BY <1>1, <1>3, <1>4, <2>1 DEF IInv, SleepInv, IsEmpty, IsFull
<1>10. ReadInv'
  <2>1. \A q \in Procs : pc'[q] # "copy"
    BY <1>1, <1>3, <1>4, Zenon DEF IInv, HolderInv
  <2> QED
    BY <1>1, <1>4, <2>1, Zenon DEF IInv, ReadInv
<1> QED
  BY <1>6, <1>7, <1>8, <1>9, <1>10, Zenon DEF IInv

LEMMA StillStep ==
  ASSUME IInv, UNCHANGED <<data, nread, nwrite, lock, pc, left, got, ends, killed>>,
         UNCHANGED <<readopen, writeopen, freed>>, panicked' \in BOOLEAN
  PROVE  IInv'
<1>1. TypeOK'
  BY Zenon DEF IInv, TypeOK
<1>2. HolderInv' /\ RingInv' /\ SleepInv' /\ ReadInv'
  BY Zenon DEF IInv, HolderInv, RingInv, SleepInv, ReadInv, IsEmpty, IsFull
<1> QED
  BY <1>1, <1>2, Zenon DEF IInv

LEMMA NextIInv == IInv /\ [Next]_vars => IInv'
<1> SUFFICES ASSUME IInv, [Next]_vars PROVE IInv'
  OBVIOUS
<1>1. ASSUME NEW p \in Procs, WriteTraps(p) PROVE IInv'
  <2>1. panicked' \in BOOLEAN
    BY <1>1, Zenon DEF WriteTraps, Panic
  <2> QED
    BY <1>1, <2>1, StillStep, Zenon DEF WriteTraps, Panic
<1>2. CASE UNCHANGED vars
  <2>1. panicked' \in BOOLEAN
    BY <1>2, Zenon DEF IInv, TypeOK, vars
  <2> QED
    BY <1>2, <2>1, StillStep, Zenon DEF vars
<1> QED
  BY <1>1, <1>2, EnterStep, WriteByteStep, WriteFullStep, WriteDoneStep, ReadWaitStep,
     ReadByteStep, ReadDoneStep, CloseStep, KillStep DEF Next, Step

LEMMA AlwaysIInv == Spec => []IInv
BY InitIInv, NextIInv, PTL DEF Spec

\* pipeclose frees the page of the pipe only when no process is inside, also
\* asleep: whoever is inside holds an end open.
THEOREM PageOutlivesUsers == Spec => []NoUseAfterFree
<1>1. IInv => NoUseAfterFree
  BY Zenon DEF IInv, TypeOK, Pcs, HolderInv, NoUseAfterFree, Writing, Reading
<1> QED
  BY <1>1, AlwaysIInv, PTL

\* Nobody sleeps in the pipe when what they wait for is there, the other end is
\* gone, or they were killed.
THEOREM SleepersHaveReason == Spec => []WakeupNotMissed
<1>1. ASSUME IInv PROVE WakeupNotMissed
  BY <1>1, PipeConstants, Zenon DEF IInv, HolderInv, SleepInv, WakeupNotMissed, Writing, Reading
<1> QED
  BY <1>1, AlwaysIInv, PTL

\* read() for at least one byte returns 0 only at the end of file: a reader that
\* got nothing saw a byte or the last writer gone when it left the wait, and has
\* kept the lock.
THEOREM ZeroIsEof == Spec => ZeroMeansEof
<1> DEFINE EofStep == \A p \in Procs : (pc[p] = "copy" /\ pc'[p] = "idle" /\ left[p] > 0 /\ got[p] = 0)
                                           => IsEmpty /\ ~writeopen
<1>1. ASSUME IInv, [Next]_vars, NEW p \in Procs, pc[p] = "copy", pc'[p] = "idle", left[p] > 0, got[p] = 0
      PROVE  IsEmpty /\ ~writeopen
  <2>1. pc \in [Procs -> Pcs] /\ lock = p /\ p # Nobody
    BY <1>1, PipeConstants, Zenon DEF IInv, TypeOK, HolderInv
  <2>2. ~(IsEmpty /\ writeopen) /\ left[p] # 0
    BY <1>1 DEF IInv, ReadInv, TypeOK
  <2>3. PICK q \in Procs : \/ \E n \in Lengths : Enter(q, n)
                           \/ Step(q)
                           \/ \E e \in {"r", "w"} : Close(q, e)
                           \/ Kill(q)
    BY <1>1, Zenon DEF Next, vars
  <2>4. CASE \E n \in Lengths : Enter(q, n)
    BY <1>1, <2>1, <2>4, Zenon DEF Enter, At
  <2>5. CASE \E e \in {"r", "w"} : Close(q, e)
    BY <2>1, <2>5, Zenon DEF Close
  <2>6. CASE Kill(q)
    BY <2>1, <2>6, Zenon DEF Kill
  <2>7. CASE Step(q)
    <3>1. q = p
      BY <2>1, <2>7, Zenon DEF Step, WriteByte, WriteFull, WriteDone, WriteTraps, ReadWait, ReadByte, ReadDone, Inside
    <3>2. ReadByte(p) \/ ReadDone(p)
      BY <1>1, <2>7, <3>1, Zenon DEF Step, WriteByte, WriteFull, WriteDone, WriteTraps, ReadWait, Inside
    <3>3. ReadDone(p)
      BY <1>1, <3>2, Zenon DEF ReadByte
    <3> QED
      BY <2>2, <3>3, Zenon DEF ReadDone
  <2> QED
    BY <2>3, <2>4, <2>5, <2>6, <2>7
<1>2. IInv /\ [Next]_vars => EofStep
  BY <1>1, Zenon
<1>3. IInv /\ [Next]_vars => [EofStep]_vars
  BY <1>2, Zenon
<1> QED
  BY <1>3, AlwaysIInv, PTL DEF Spec, ZeroMeansEof

-----------------------------------------------------------------------------
LEMMA DivFact ==
  ASSUME NEW a \in Nat, NEW d \in Nat \ {0}
  PROVE  a \div d \in Int /\ a % d \in 0..(d - 1) /\ a = d * (a \div d) + (a % d)
OBVIOUS

LEMMA Multiple ==
  ASSUME NEW d \in Nat \ {0}, NEW k \in Int
  PROVE  d * k >= d \/ d * k <= 0
<1>1. CASE k >= 1
  BY <1>1
<1>2. CASE k <= 0
  BY <1>2
<1> QED
  BY <1>1, <1>2

LEMMA Distribute ==
  ASSUME NEW d \in Int, NEW k \in Int, NEW l \in Int
  PROVE  d * k - d * l = d * (k - l)
OBVIOUS

\* Two counts less than one ring apart are in different places of the ring.
LEMMA PlacesDiffer ==
  ASSUME NEW a \in Nat, NEW b \in Nat, NEW d \in Nat \ {0}, a < b, b < a + d
  PROVE  a % d # b % d
<1> SUFFICES ASSUME a % d = b % d PROVE FALSE
  OBVIOUS
<1> DEFINE k == b \div d
           l == a \div d
           r == a % d
<1>1. k \in Int /\ l \in Int /\ r \in Int /\ b = d * k + r /\ a = d * l + r
  BY DivFact
<1> HIDE DEF k, l, r
<1>2. d * (k - l) >= d \/ d * (k - l) <= 0
  BY <1>1, Multiple
<1>3. d * k - d * l = d * (k - l)
  BY <1>1, Distribute
<1> DEFINE x == d * k
           y == d * l
<1>4. x \in Int /\ y \in Int /\ b = x + r /\ a = y + r /\ (x - y >= d \/ x - y <= 0)
  BY <1>1, <1>2, <1>3
<1> HIDE DEF x, y
<1> QED
  BY <1>1, <1>4

\* The bytes between two counts of the ring are a sequence.
LEMMA BetweenIsSeq ==
  ASSUME NEW d \in [0..(PIPESIZE - 1) -> Bytes], NEW r \in Nat, NEW w \in Nat, r <= w,
         NEW s, s = [i \in 1..(w - r) |-> d[(r + i - 1) % PIPESIZE]]
  PROVE  /\ s \in Seq(Bytes) /\ Len(s) = w - r
         /\ \A i \in 1..(w - r) : s[i] = d[(r + i - 1) % PIPESIZE]
<1>1. w - r \in Nat
  OBVIOUS
<1>2. ASSUME NEW i \in 1..(w - r) PROVE d[(r + i - 1) % PIPESIZE] \in Bytes
  <2>1. r + i - 1 \in Nat
    BY <1>1
  <2>2. (r + i - 1) % PIPESIZE \in 0..(PIPESIZE - 1)
    BY <2>1, DivFact, PipeConstants, Zenon
  <2> QED
    BY <2>2, Zenon
<1>3. s \in [1..(w - r) -> Bytes]
  BY <1>2, Zenon
<1> QED
  BY <1>1, <1>3

\* A byte written joins the queue at its end.
LEMMA WriteBytePuts ==
  ASSUME IInv, IInv', NEW p \in Procs, NEW b \in Bytes, WriteByte(p, b)
  PROVE  Queue!Put(b)
<1> DEFINE n == nwrite - nread
<1>1. /\ ~IsFull /\ data' = [data EXCEPT ![nwrite % PIPESIZE] = b]
      /\ nwrite' = nwrite + 1 /\ nread' = nread
  BY Zenon DEF WriteByte
<1>2. n \in Nat /\ nread \in Nat /\ nwrite \in Nat /\ nread <= nwrite /\ n < PIPESIZE /\ data \in [0..(PIPESIZE - 1) -> Bytes]
  BY <1>1, PipeConstants DEF IInv, TypeOK, RingInv, IsFull
<1>3. /\ InFlight \in Seq(Bytes) /\ Len(InFlight) = n
      /\ \A i \in 1..n : InFlight[i] = data[(nread + i - 1) % PIPESIZE]
  BY <1>2, BetweenIsSeq, Zenon DEF InFlight
<1>4. /\ InFlight' \in Seq(Bytes) /\ Len(InFlight') = n + 1
      /\ \A i \in 1..(n + 1) : InFlight'[i] = data'[(nread + i - 1) % PIPESIZE]
  <2>1. /\ InFlight' \in Seq(Bytes) /\ Len(InFlight') = nwrite' - nread'
        /\ \A i \in 1..(nwrite' - nread') : InFlight'[i] = data'[(nread' + i - 1) % PIPESIZE]
    <3>1. /\ data' \in [0..(PIPESIZE - 1) -> Bytes] /\ nread' \in Nat /\ nwrite' \in Nat
          /\ nread' <= nwrite'
      BY PipeConstants DEF IInv, TypeOK, RingInv
    <3>2. InFlight' = [i \in 1..(nwrite' - nread') |-> data'[(nread' + i - 1) % PIPESIZE]]
      BY DEF InFlight
    <3> HIDE DEF InFlight
    <3> QED
      BY <3>1, <3>2, BetweenIsSeq, Zenon
  <2>2. nwrite' - nread' = n + 1
    BY <1>1, <1>2
  <2> QED
    BY <1>1, <2>1, <2>2, Zenon
<1>5. nwrite % PIPESIZE \in 0..(PIPESIZE - 1)
  BY <1>2, DivFact, PipeConstants, Zenon
<1>6. InFlight'[n + 1] = b
  <2>1. nread + (n + 1) - 1 = nwrite /\ n + 1 \in 1..(n + 1)
    BY <1>2
  <2>2. InFlight'[n + 1] = data'[nwrite % PIPESIZE]
    BY <1>4, <2>1, Zenon
  <2> QED
    BY <1>1, <1>2, <1>5, <2>2, Zenon
<1>7. ASSUME NEW i \in 1..n PROVE InFlight'[i] = InFlight[i]
  <2>1. nread + i - 1 \in Nat /\ nread + i - 1 < nwrite /\ nwrite < (nread + i - 1) + PIPESIZE /\ i \in 1..(n + 1)
    BY <1>2, <1>7, PipeConstants
  <2>2. (nread + i - 1) % PIPESIZE # nwrite % PIPESIZE
    BY <1>2, <2>1, PlacesDiffer, PipeConstants, Zenon
  <2>3. (nread + i - 1) % PIPESIZE \in 0..(PIPESIZE - 1)
    BY <2>1, DivFact, PipeConstants, Zenon
  <2>4. data'[(nread + i - 1) % PIPESIZE] = data[(nread + i - 1) % PIPESIZE]
    BY <1>1, <1>2, <2>2, <2>3, Zenon
  <2> QED
    BY <1>3, <1>4, <2>1, <2>4, Zenon
<1> HIDE DEF n
<1>8. InFlight' = Append(InFlight, b)
  BY <1>2, <1>3, <1>4, <1>6, <1>7, AppendProperties, SeqEqual
<1> QED
  BY <1>2, <1>3, <1>8, Zenon DEF Queue!Put

\* A byte read leaves it at its front.
LEMMA ReadByteGets ==
  ASSUME IInv, IInv', NEW p \in Procs, ReadByte(p)
  PROVE  Queue!Get
<1> DEFINE n == nwrite - nread
<1>1. ~IsEmpty /\ nread' = nread + 1 /\ nwrite' = nwrite /\ data' = data
  BY Zenon DEF ReadByte
<1>2. n \in Nat /\ nread \in Nat /\ nwrite \in Nat /\ nread <= nwrite /\ n > 0 /\ data \in [0..(PIPESIZE - 1) -> Bytes]
  BY <1>1, PipeConstants DEF IInv, TypeOK, RingInv, IsEmpty
<1>3. /\ InFlight \in Seq(Bytes) /\ Len(InFlight) = n
      /\ \A i \in 1..n : InFlight[i] = data[(nread + i - 1) % PIPESIZE]
  BY <1>2, BetweenIsSeq, Zenon DEF InFlight
<1>4. /\ InFlight' \in Seq(Bytes) /\ Len(InFlight') = n - 1
      /\ \A i \in 1..(n - 1) : InFlight'[i] = data[(nread + 1 + i - 1) % PIPESIZE]
  <2>1. /\ InFlight' \in Seq(Bytes) /\ Len(InFlight') = nwrite' - nread'
        /\ \A i \in 1..(nwrite' - nread') : InFlight'[i] = data'[(nread' + i - 1) % PIPESIZE]
    <3>1. /\ data' \in [0..(PIPESIZE - 1) -> Bytes] /\ nread' \in Nat /\ nwrite' \in Nat
          /\ nread' <= nwrite'
      BY PipeConstants DEF IInv, TypeOK, RingInv
    <3>2. InFlight' = [i \in 1..(nwrite' - nread') |-> data'[(nread' + i - 1) % PIPESIZE]]
      BY Zenon DEF InFlight
    <3> HIDE DEF InFlight
    <3> QED
      BY <3>1, <3>2, BetweenIsSeq, Zenon
  <2>2. nwrite' - nread' = n - 1
    BY <1>1, <1>2
  <2> QED
    BY <1>1, <2>1, <2>2, Zenon
<1>5. ASSUME NEW i \in 1..(n - 1) PROVE InFlight'[i] = InFlight[i + 1]
  <2>1. i + 1 \in 1..n /\ nread + 1 + i - 1 = nread + (i + 1) - 1
    BY <1>2, <1>5
  <2>2. InFlight'[i] = data[(nread + 1 + i - 1) % PIPESIZE]
    BY <1>4, <1>5, Zenon
  <2>3. InFlight[i + 1] = data[(nread + (i + 1) - 1) % PIPESIZE]
    BY <1>3, <2>1, Zenon
  <2> QED
    BY <2>1, <2>2, <2>3, Zenon
<1> HIDE DEF n
<1>6. InFlight # <<>>
  BY <1>2, <1>3
<1>7. InFlight' = Tail(InFlight)
  BY <1>2, <1>3, <1>4, <1>5, <1>6, HeadTailProperties, SeqEqual
<1> QED
  BY <1>6, <1>7, Zenon DEF Queue!Get

\* The ring and its two counters behave as a first-in first-out queue of at
\* most PIPESIZE bytes: no byte is lost, repeated, reordered or overwritten,
\* however reads and writes of several processes interleave.
THEOREM RingIsFifo == Spec => ImplementsFifo
<1>1. ASSUME Init PROVE Queue!FifoInit
  <2>1. InFlight = [i \in 1..0 |-> data[(nread + i - 1) % PIPESIZE]]
    BY <1>1 DEF Init, InFlight
  <2> QED
    BY <2>1 DEF Queue!FifoInit
<1>2. ASSUME IInv, IInv', [Next]_vars PROVE [Queue!FifoNext]_InFlight
  <2>1. CASE UNCHANGED <<data, nread, nwrite>>
    BY <2>1, Zenon DEF InFlight
  <2>2. ASSUME NEW p \in Procs, NEW b \in Bytes, WriteByte(p, b) PROVE Queue!FifoNext
    BY <1>2, <2>2, WriteBytePuts, Zenon DEF Queue!FifoNext
  <2>3. ASSUME NEW p \in Procs, ReadByte(p) PROVE Queue!FifoNext
    BY <1>2, <2>3, ReadByteGets, Zenon DEF Queue!FifoNext
  <2>4. ASSUME NEW p \in Procs, Step(p), ~ReadByte(p), \A b \in Bytes : ~WriteByte(p, b)
        PROVE  UNCHANGED <<data, nread, nwrite>>
    BY <2>4, Zenon DEF Step, WriteFull, WriteDone, WriteTraps, ReadWait, ReadDone, Panic, Ring
  <2>5. ASSUME NEW p \in Procs, (\E n \in Lengths : Enter(p, n)) \/ (\E e \in {"r", "w"} : Close(p, e)) \/ Kill(p)
        PROVE  UNCHANGED <<data, nread, nwrite>>
    BY <2>5, Zenon DEF Enter, Close, Kill, Ring
  <2>6. UNCHANGED vars => UNCHANGED <<data, nread, nwrite>>
    BY Zenon DEF vars
  <2> QED
    BY <1>2, <2>1, <2>2, <2>3, <2>4, <2>5, <2>6, Zenon DEF Next
<1> QED
  BY <1>1, <1>2, AlwaysIInv, PTL DEF Spec, ImplementsFifo, Queue!FifoSpec

-----------------------------------------------------------------------------
\* The shift state after a byte, and after the bytes that are still to be read.
After(s, d) == IF d = \hE0 THEN s \cup {"E0ESC"}
               ELSE IF d >= 128 THEN Released(s, d)
               ELSE Pressed(s, IF "E0ESC" \in s THEN d + 128 ELSE d)
Read(s, d)  == IF d = 0 THEN s ELSE After(s, d)

Exact(s)    == "E0ESC" \notin s /\ \A m \in {"SHIFT", "CTL"} : m \in s <=> last[m]
ShiftInv    == last = [m \in {"SHIFT", "CTL"} |-> last[m]] /\ Exact(Read(Read(term.shift, port), half))

\* The codes of the tables, and no escape among them.
LEMMA ShiftCodes ==
  ASSUME NEW d
  PROVE  SHIFTCODE(d) \subseteq {"SHIFT", "CTL", "ALT"} /\ TOGGLECODE(d) \subseteq {"CAPSLOCK"}
BY DEF SHIFTCODE, TOGGLECODE

\* A key goes down or up when no escape is pending, and no other modifier moves.
LEMMA PressedShift ==
  ASSUME NEW s, NEW d
  PROVE  /\ "E0ESC" \notin Pressed(s, d)
         /\ \A m \in {"SHIFT", "CTL"} : m \in Pressed(s, d) <=> (m \in s \/ m \in SHIFTCODE(d))
BY ShiftCodes, Zenon DEF Pressed

\* Likewise for a key that goes up, whose code e the escape says how to read.
LEMMA ReleasedShift ==
  ASSUME NEW s, NEW d, NEW e, e = (IF "E0ESC" \in s THEN d ELSE d - 128)
  PROVE  /\ "E0ESC" \notin Released(s, d)
         /\ \A m \in {"SHIFT", "CTL"} : m \in Released(s, d) <=> (m \in s /\ m \notin SHIFTCODE(e))
BY Zenon DEF Released

\* A key puts one byte or two on their way; once they have been read, the
\* modifier it carries is what it has to be.
LEMMA KeyEventShift ==
  ASSUME ShiftInv, NEW key \in Keys, NEW up \in BOOLEAN, KeyEvent(key, up)
  PROVE  ShiftInv'
<1>1. /\ half = 0 /\ port = 0 /\ term' = term
      /\ last' = [m \in DOMAIN last |-> IF m \in Modifier(key) THEN ~up ELSE last[m]]
  BY Zenon DEF KeyEvent
<1>2. DOMAIN last = {"SHIFT", "CTL"}
  BY Zenon DEF ShiftInv
<1>3. Exact(term.shift)
  BY <1>1, Zenon DEF ShiftInv, Read
<1>4. /\ last' = [m \in {"SHIFT", "CTL"} |-> last'[m]]
      /\ \A m \in {"SHIFT", "CTL"} : last'[m] = IF m \in Modifier(key) THEN ~up ELSE last[m]
  BY <1>1, <1>2, Zenon
<1> DEFINE s == term.shift
           f == Read(Read(s, port'), half')
<1>a. ASSUME up = TRUE, "E0ESC" \notin f, \A m \in {"SHIFT", "CTL"} : m \in f <=> (m \in s /\ m \notin Modifier(key))
      PROVE  ShiftInv'
  <2>1. \A m \in {"SHIFT", "CTL"} : m \in f <=> last'[m]
    BY <1>3, <1>4, <1>a, Zenon DEF Exact
  <2> QED
    BY <1>1, <1>4, <1>a, <2>1, Zenon DEF Exact, ShiftInv
<1>b. ASSUME up = FALSE, "E0ESC" \notin f, \A m \in {"SHIFT", "CTL"} : m \in f <=> (m \in s \/ m \in Modifier(key))
      PROVE  ShiftInv'
  <2>1. \A m \in {"SHIFT", "CTL"} : m \in f <=> last'[m]
    BY <1>3, <1>4, <1>b, Zenon DEF Exact
  <2> QED
    BY <1>1, <1>4, <1>b, <2>1, Zenon DEF Exact, ShiftInv
<1>5. CASE key \in 1..127
  <2>1. (key % 256) = key /\ ~(key >= 256) /\ key # \h60
    BY <1>5, TermConstants
  <2>2. port' = key + (IF up THEN 128 ELSE 0) /\ half' = 0
    BY <2>1 DEF KeyEvent
  <2>3. Modifier(key) = SHIFTCODE(key)
    BY <2>1 DEF Modifier
  <2>4. CASE up = TRUE
    <3>1. f = Released(s, key + 128)
      BY <1>5, <2>1, <2>2, <2>4 DEF Read, After
    <3>2. key = IF "E0ESC" \in s THEN key + 128 ELSE (key + 128) - 128
      BY <1>3, <1>5 DEF Exact
    <3>3. /\ "E0ESC" \notin f
          /\ \A m \in {"SHIFT", "CTL"} : m \in f <=> (m \in s /\ m \notin Modifier(key))
      BY <2>3, <3>1, <3>2, ReleasedShift
    <3> QED
      BY <1>a, <2>4, <3>3, Zenon
  <2>5. CASE up = FALSE
    <3>1. f = Pressed(s, key)
      BY <1>3, <1>5, <2>1, <2>2, <2>5 DEF Read, After, Exact
    <3>2. /\ "E0ESC" \notin f
          /\ \A m \in {"SHIFT", "CTL"} : m \in f <=> (m \in s \/ m \in Modifier(key))
      BY <2>3, <3>1, PressedShift
    <3> QED
      BY <1>b, <2>5, <3>2, Zenon
  <2> QED
    BY <2>4, <2>5, Zenon
<1>6. CASE key \in 257..383
  <2>1. (key % 256) = key - 256 /\ key >= 256 /\ key # \h160
    BY <1>6, TermConstants
  <2>2. half' = key - 256 + (IF up THEN 128 ELSE 0) /\ port' = \hE0
    BY <2>1 DEF KeyEvent
  <2>3. Modifier(key) = SHIFTCODE(key - 128)
    BY <2>1 DEF Modifier
  <2> DEFINE t == s \cup {"E0ESC"}
  <2>4. Read(s, port') = t
    BY <2>2 DEF Read, After
  <2>5. CASE up = TRUE
    <3>1. f = Released(t, key - 128)
      BY <1>6, <2>1, <2>2, <2>4, <2>5 DEF Read, After
    <3>2. key - 128 = (IF "E0ESC" \in t THEN key - 128 ELSE (key - 128) - 128)
      OBVIOUS
    <3>3. /\ "E0ESC" \notin f
          /\ \A m \in {"SHIFT", "CTL"} : m \in f <=> (m \in s /\ m \notin Modifier(key))
      BY <2>3, <3>1, <3>2, ReleasedShift
    <3> QED
      BY <1>a, <2>5, <3>3, Zenon
  <2>6. CASE up = FALSE
    <3>1. f = Pressed(t, key - 128)
      BY <1>6, <2>1, <2>2, <2>4, <2>6 DEF Read, After
    <3>2. /\ "E0ESC" \notin f
          /\ \A m \in {"SHIFT", "CTL"} : m \in f <=> (m \in s \/ m \in Modifier(key))
      BY <2>3, <3>1, PressedShift
    <3> QED
      BY <1>b, <2>6, <3>2, Zenon
  <2> QED
    BY <2>5, <2>6, Zenon
<1> QED
  BY <1>5, <1>6, TermConstants

-----------------------------------------------------------------------------
\* What the terminal is while it runs: nobody moves r, and the buffer is full
\* before the indices wrap.
Room  == ROWS * COLS
Chars == {" ", "x", "d", "D", "^D", "nl", "bs", "up", "no"}
Flags == {"SHIFT", "CTL", "ALT", "CAPSLOCK", "E0ESC"}
Terminals == [shift : SUBSET Flags, buf : [0..(INPUT_BUF_SIZE - 1) -> Chars], r : {0},
              w : 0..INPUT_BUF_SIZE, e : 0..INPUT_BUF_SIZE, crt : [Cells -> Chars], pos : 0..(Room - 1)]
Sound(t) == /\ t \in Terminals
            /\ t.w <= t.e
            /\ \A i \in Cells : i >= t.pos => t.crt[i] = Blank
Shown(t) == \A k \in 1..(t.e - t.w) : k <= t.pos => t.crt[t.pos - k] = t.buf[t.e - k]

\* An index below the size of the buffer is its own remainder.
LEMMA Unwrapped ==
  ASSUME NEW n \in Nat, NEW i \in 0..(n - 1)
  PROVE  i % n = i
OBVIOUS

\* The geometry of the screen: rows times columns, the row below, and a
\* newline that stays within them.
LEMMA Grid ==
  /\ COLS \in Nat \ {0} /\ Room \in Nat /\ COLS <= Room
  /\ Cells = 0..(Room + COLS - 1) /\ (ROWS - 1) * COLS = Room - COLS
  /\ \A p \in Nat : p \div COLS >= ROWS <=> p >= Room
  /\ \A p \in 0..(Room - 1) : p + (COLS - (p % COLS)) \in 1..Room
<1>1. COLS \in Nat /\ COLS > 0 /\ ROWS \in Nat /\ ROWS > 0
  BY TermConstants
<1>2. Room \in Nat /\ COLS <= Room
  BY <1>1 DEF Room
<1>3. COLS * (ROWS + 1) = Room + COLS /\ (ROWS - 1) * COLS = Room - COLS
  BY <1>1 DEF Room
<1>4. ASSUME NEW p \in Nat PROVE p \div COLS >= ROWS <=> p >= Room
  BY <1>1 DEF Room
<1>5. ASSUME NEW p \in 0..(Room - 1) PROVE p + (COLS - (p % COLS)) \in 1..Room
  <2> DEFINE q == p \div COLS
             m == p % COLS
  <2>1. p \in Nat /\ p < Room
    BY <1>2
  <2>2. q \in Nat /\ m \in 0..(COLS - 1) /\ p = q * COLS + m
    <3>1. q \in Nat /\ m \in 0..(COLS - 1) /\ p = COLS * q + m
      BY <1>1, <2>1
    <3> QED
      BY <1>1, <3>1
  <2>0. ~(q >= ROWS)
    <3>1. ~(p >= Room)
      BY <1>2, <2>1
    <3> QED
      BY <1>4, <2>1, <3>1, Zenon
  <2> HIDE DEF q, m
  <2>3. q < ROWS
    BY <1>1, <2>0, <2>2
  <2>4. (q + 1) * COLS <= ROWS * COLS
    BY <1>1, <2>2, <2>3
  <2>5. p + (COLS - m) = (q + 1) * COLS
    BY <1>1, <2>2
  <2>6. p + (COLS - m) <= Room
    BY <2>4, <2>5, Zenon DEF Room
  <2> QED
    BY <1>1, <1>2, <2>1, <2>2, <2>6 DEF m
<1> QED
  BY <1>1, <1>2, <1>3, <1>4, <1>5 DEF Cells

\* What cgaputc does to the screen; it leaves the rest alone.
Put(t, c, u) ==
  /\ u \in Terminals
  /\ u.shift = t.shift /\ u.buf = t.buf /\ u.r = t.r /\ u.w = t.w /\ u.e = t.e
  /\ \A i \in Cells : i >= u.pos => u.crt[i] = Blank
  /\ c = "bs" => /\ u.pos = IF t.pos > 0 THEN t.pos - 1 ELSE 0
                 /\ \A i \in 0..(u.pos - 1) : u.crt[i] = t.crt[i]
  /\ c \notin {"nl", "bs"} =>
       /\ u.pos <= t.pos + 1
       /\ \A k \in 1..u.pos : u.crt[u.pos - k] = IF k = 1 THEN c ELSE t.crt[t.pos - (k - 1)]

\* cgaputc does that.
LEMMA Cgaputc ==
  ASSUME NEW t, Sound(t), NEW c \in Chars, NEW u, u = cgaputc(t, c)
  PROVE  Put(t, c, u)
<1> DEFINE cur  == CASE c = "nl" -> t.pos + (COLS - (t.pos % COLS))
                     [] c = "bs" -> IF t.pos > 0 THEN t.pos - 1 ELSE 0
                     [] OTHER    -> t.pos + 1
           crt  == IF c \in {"nl", "bs"} THEN t.crt ELSE [t.crt EXCEPT ![t.pos] = c]
           full == cur \div COLS >= ROWS
           new  == IF full THEN cur - COLS ELSE cur
           scr  == [i \in Cells |-> IF i = new THEN Blank
                                    ELSE IF full /\ i < (ROWS - 1) * COLS /\ i < new THEN crt[i + COLS]
                                    ELSE IF full /\ i \in new..(ROWS * COLS - 1) THEN Blank ELSE crt[i]]
<1>1. COLS \in Nat \ {0} /\ Room \in Nat /\ COLS <= Room /\ Cells = 0..(Room + COLS - 1)
  BY Grid, Zenon
<1>2. t.pos \in 0..(Room - 1) /\ t.crt \in [Cells -> Chars]
  BY Zenon DEF Sound, Terminals
<1>3. cur \in 0..Room
  <2>1. CASE c = "nl"
    BY <1>1, <1>2, <2>1, Grid
  <2>2. CASE c # "nl"
    BY <1>1, <1>2, <2>2, SMTT(30)
  <2> QED
    BY <2>1, <2>2, Zenon
<1>6. crt \in [Cells -> Chars]
  BY <1>1, <1>2, Zenon
<1>7. u = [t EXCEPT !.pos = new, !.crt = scr]
  BY Zenon DEF cgaputc
<1> HIDE DEF cur, crt
<1>4. full <=> cur = Room
  <2>1. cur \in Nat /\ (cur >= Room <=> cur = Room)
    BY <1>1, <1>3
  <2> QED
    BY <2>1, Grid, Zenon
<1> HIDE DEF full
<1>5. new \in 0..(Room - 1) /\ new = IF cur = Room THEN Room - COLS ELSE cur
  BY <1>1, <1>3, <1>4
<1> HIDE DEF new
<1>8. scr = [i \in Cells |-> IF i = new THEN Blank
                             ELSE IF cur = Room /\ i < Room - COLS THEN crt[i + COLS]
                             ELSE IF cur = Room /\ i <= Room - 1 THEN Blank ELSE crt[i]]
  <2> SUFFICES ASSUME NEW i \in Cells, i # new
               PROVE  (IF full /\ i < (ROWS - 1) * COLS /\ i < new THEN crt[i + COLS]
                       ELSE IF full /\ i \in new..(ROWS * COLS - 1) THEN Blank ELSE crt[i])
                    = (IF cur = Room /\ i < Room - COLS THEN crt[i + COLS]
                       ELSE IF cur = Room /\ i <= Room - 1 THEN Blank ELSE crt[i])
    BY Zenon
  <2>1. CASE cur = Room
    <3>1. new = Room - COLS /\ full
      BY <1>4, <1>5, <2>1, Zenon
    <3>2. i \in Nat /\ (i < new <=> ~(i >= new))
      BY <1>1, <1>5
    <3>3. (ROWS - 1) * COLS = new /\ ROWS * COLS = Room
      BY <3>1, Grid, Zenon DEF Room
    <3>4. i \in new..(Room - 1) <=> (i >= new /\ i <= Room - 1)
      BY <1>1, <1>5, <3>2
    <3> QED
      BY <2>1, <3>1, <3>2, <3>3, <3>4, Zenon
  <2>2. CASE cur # Room
    BY <1>4, <2>2, Zenon
  <2> QED
    BY <2>1, <2>2, Zenon
<1> HIDE DEF scr
<1>9. scr \in [Cells -> Chars]
  <2>1. Blank \in Chars
    BY Zenon DEF Blank, Chars
  <2>2. ASSUME NEW i \in Cells, i < Room - COLS PROVE i + COLS \in Cells
    BY <1>1, <2>2
  <2> QED
    BY <1>6, <1>8, <2>1, <2>2, Zenon
<1>s. ASSUME NEW i \in Cells
      PROVE  scr[i] = IF i = new THEN Blank
                      ELSE IF cur = Room /\ i < Room - COLS THEN crt[i + COLS]
                      ELSE IF cur = Room /\ i <= Room - 1 THEN Blank ELSE crt[i]
  BY <1>8, Zenon
<1>10. u.pos = new /\ u.crt = scr /\ u \in Terminals
  <2>1. t \in Terminals
    BY Zenon DEF Sound
  <2>2. u = [shift |-> t.shift, buf |-> t.buf, r |-> t.r, w |-> t.w, e |-> t.e, crt |-> scr, pos |-> new]
    BY <1>7, <2>1, Zenon DEF Terminals
  <2> QED
    BY <1>5, <1>9, <2>1, <2>2 DEF Terminals
<1>11. u.shift = t.shift /\ u.buf = t.buf /\ u.r = t.r /\ u.w = t.w /\ u.e = t.e
  BY <1>7, Zenon DEF Sound, Terminals
<1>12. ASSUME NEW i \in Cells, i >= new PROVE scr[i] = Blank
  <2>0. i \in Nat
    BY <1>1
  <2>1. i >= t.pos => t.crt[i] = Blank
    BY Zenon DEF Sound
  <2>2. CASE c = "nl"
    <3>1. cur > t.pos /\ crt = t.crt
      BY <1>1, <1>2, <2>2, Grid, SMTT(30) DEF cur, crt
    <3>2. i >= cur => t.crt[i] = Blank
      BY <1>2, <1>3, <2>0, <2>1, <3>1
    <3> QED
      BY <1>1, <1>3, <1>5, <1>s, <1>12, <2>0, <3>1, <3>2
  <2>3. CASE c = "bs"
    <3>1. cur \in {t.pos, t.pos - 1} /\ cur < Room /\ crt = t.crt
      BY <1>1, <1>2, <2>3 DEF cur, crt
    <3>2. i > cur => t.crt[i] = Blank
      BY <1>2, <1>3, <2>0, <2>1, <3>1
    <3> QED
      BY <1>1, <1>3, <1>5, <1>s, <1>12, <2>0, <3>1, <3>2
  <2>4. CASE c \notin {"nl", "bs"}
    <3>1. cur = t.pos + 1 /\ crt = [t.crt EXCEPT ![t.pos] = c]
      BY <2>4 DEF cur, crt
    <3>2. i >= cur => crt[i] = t.crt[i] /\ t.crt[i] = Blank
      BY <1>2, <1>3, <2>0, <2>1, <3>1
    <3> QED
      BY <1>1, <1>3, <1>5, <1>s, <1>12, <2>0, <3>2
  <2> QED
    BY <2>2, <2>3, <2>4, Zenon
<1>13. ASSUME c = "bs"
       PROVE  /\ new = IF t.pos > 0 THEN t.pos - 1 ELSE 0
              /\ \A i \in 0..(new - 1) : scr[i] = t.crt[i]
  BY <1>1, <1>2, <1>5, <1>8, <1>13, SMTT(30) DEF crt, cur
<1>14. ASSUME c \notin {"nl", "bs"}, NEW k \in 1..new
       PROVE  scr[new - k] = IF k = 1 THEN c ELSE t.crt[t.pos - (k - 1)]
  <2>1. cur = t.pos + 1 /\ crt = [t.crt EXCEPT ![t.pos] = c]
    BY <1>14, Zenon DEF crt, cur
  <2>2. cur - k \in Cells /\ new - k \in Cells /\ new - k # new
    BY <1>1, <1>2, <1>3, <1>5, <1>14
  <2>3. scr[new - k] = crt[cur - k]
    <3>1. CASE cur = Room
      <4>1. new = Room - COLS /\ new - k < Room - COLS /\ new - k + COLS = cur - k
        BY <1>1, <1>5, <1>14, <3>1
      <4> QED
        BY <1>s, <2>2, <3>1, <4>1, Zenon
    <3>2. CASE cur # Room
      BY <1>5, <1>s, <2>2, <3>2, Zenon
    <3> QED
      BY <3>1, <3>2, Zenon
  <2>4. crt[cur - k] = IF cur - k = t.pos THEN c ELSE t.crt[cur - k]
    BY <1>2, <2>1, <2>2, Zenon
  <2>5. cur - k = t.pos - (k - 1) /\ (k = 1 <=> cur - k = t.pos)
    BY <1>1, <1>2, <1>5, <1>14, <2>1, SMTT(30)
  <2> QED
    BY <2>3, <2>4, <2>5, Zenon
<1>15. c \notin {"nl", "bs"} => new <= t.pos + 1
  BY <1>1, <1>2, <1>5 DEF cur
<1> QED
  BY <1>10, <1>11, <1>12, <1>13, <1>14, <1>15, Zenon DEF Put

\* One character of the keyboard: the line stays before the cursor, and what
\* has been handed over stays as it is.
LEMMA Consoleintr ==
  ASSUME NEW t, Sound(t), NEW c \in Chars, NEW u, u = consoleintr(t, c)
  PROVE  /\ Sound(u) /\ u.shift = t.shift
         /\ u.w >= t.w /\ (u.w # t.w => u.e = u.w)
         /\ \A i \in 0..(t.w - 1) : u.buf[i] = t.buf[i]
         /\ Shown(t) => Shown(u)
<1>1. t \in Terminals /\ t.w <= t.e
  BY Zenon DEF Sound
<1>2. t.w \in 0..INPUT_BUF_SIZE /\ t.e \in 0..INPUT_BUF_SIZE /\ t.r = 0 /\ INPUT_BUF_SIZE \in Nat /\ INPUT_BUF_SIZE > 0
  BY <1>1, TermConstants DEF Terminals
<1>3. CASE u = t
  BY <1>2, <1>3
<1>4. CASE c = "bs" /\ t.e # t.w
  <2> DEFINE v == [t EXCEPT !.e = @ - 1]
  <2>1. /\ v.shift = t.shift /\ v.buf = t.buf /\ v.r = t.r /\ v.w = t.w /\ v.crt = t.crt /\ v.pos = t.pos
        /\ v.e = t.e - 1
    BY <1>1, Zenon DEF Terminals
  <2>2. v \in Terminals
    BY <1>1, <1>2, <1>4, SMTT(30) DEF Terminals
  <2>3. Sound(v)
    <3>1. v.w <= v.e
      BY <1>1, <1>2, <1>4, <2>1
    <3> QED
      BY <2>1, <2>2, <3>1, Zenon DEF Sound
  <2>4. u = cgaputc(v, c)
    BY <1>4, Zenon DEF consoleintr, Erase
  <2> HIDE DEF v
  <2>5. /\ Sound(u)
        /\ u.shift = t.shift /\ u.buf = t.buf /\ u.w = t.w /\ u.e = t.e - 1
        /\ u.pos = IF t.pos > 0 THEN t.pos - 1 ELSE 0
        /\ \A i \in 0..(u.pos - 1) : u.crt[i] = t.crt[i]
    BY <1>4, <2>1, <2>3, <2>4, Cgaputc DEF Sound, Put
  <2>6. ASSUME Shown(t) PROVE Shown(u)
    <3> SUFFICES ASSUME NEW k \in 1..(u.e - u.w), k <= u.pos
                 PROVE  u.crt[u.pos - k] = u.buf[u.e - k]
      BY Zenon DEF Shown
    <3>1. t.pos \in Nat
      BY <1>1, Grid DEF Terminals
    <3>2. k + 1 \in 1..(t.e - t.w) /\ k + 1 <= t.pos /\ u.pos - k \in 0..(u.pos - 1)
          /\ u.pos - k = t.pos - (k + 1) /\ u.e - k = t.e - (k + 1)
      BY <1>2, <2>5, <3>1
    <3> QED
      BY <2>5, <2>6, <3>2, Zenon DEF Shown
  <2> QED
    BY <1>2, <2>5, <2>6
<1>5. CASE c # "bs" /\ u # t
  <2>1. c \notin {"no", "^C", "bs"} /\ ~(t.e - t.r >= INPUT_BUF_SIZE)
    BY <1>5, Zenon DEF consoleintr
  <2>2. t.e % INPUT_BUF_SIZE = t.e /\ t.e < INPUT_BUF_SIZE
    BY <1>2, <2>1
  <2> DEFINE v == [t EXCEPT !.buf[t.e % INPUT_BUF_SIZE] = c, !.e = @ + 1]
             x == cgaputc(v, c)
  <2>3. /\ v.shift = t.shift /\ v.r = t.r /\ v.w = t.w /\ v.crt = t.crt /\ v.pos = t.pos
        /\ v.buf = [t.buf EXCEPT ![t.e] = c] /\ v.e = t.e + 1
    BY <1>1, <2>2, Zenon DEF Terminals
  <2>4. v \in Terminals
    <3>1. v = [shift |-> t.shift, buf |-> [t.buf EXCEPT ![t.e] = c], r |-> t.r, w |-> t.w, e |-> t.e + 1,
               crt |-> t.crt, pos |-> t.pos]
      <4> DEFINE b == [t.buf EXCEPT ![t.e] = c]
      <4>1. v = [t EXCEPT !.buf = b, !.e = t.e + 1]
        BY <2>2, Zenon
      <4> HIDE DEF b, v
      <4>2. v = [shift |-> t.shift, buf |-> b, r |-> t.r, w |-> t.w, e |-> t.e + 1, crt |-> t.crt, pos |-> t.pos]
        BY <1>1, <4>1, Zenon DEF Terminals
      <4> QED
        BY <4>2, Zenon DEF b
    <3>2. [t.buf EXCEPT ![t.e] = c] \in [0..(INPUT_BUF_SIZE - 1) -> Chars] /\ t.e + 1 \in 0..INPUT_BUF_SIZE
      <4>1. t.buf \in [0..(INPUT_BUF_SIZE - 1) -> Chars]
        BY <1>1, Zenon DEF Terminals
      <4> QED
        BY <1>2, <2>2, <4>1, SMTT(30)
    <3> QED
      BY <1>1, <3>1, <3>2, Zenon DEF Terminals
  <2>5. Sound(v)
    <3>1. v.w <= v.e
      BY <1>1, <1>2, <2>3
    <3> QED
      BY <2>3, <2>4, <3>1, Zenon DEF Sound
  <2>6. u = IF c \in {"nl", "^D"} \/ x.e = x.r + INPUT_BUF_SIZE THEN [x EXCEPT !.w = x.e] ELSE x
    BY <1>5, <2>1, Zenon DEF consoleintr
  <2> HIDE DEF v
  <2>0. Put(v, c, x)
    BY <2>5, Cgaputc, Zenon
  <2>7. /\ x \in Terminals
        /\ x.shift = t.shift /\ x.buf = [t.buf EXCEPT ![t.e] = c] /\ x.w = t.w /\ x.e = t.e + 1 /\ x.r = 0
        /\ \A i \in Cells : i >= x.pos => x.crt[i] = Blank
        /\ c # "nl" => /\ x.pos <= t.pos + 1
                       /\ \A k \in 1..x.pos : x.crt[x.pos - k] = IF k = 1 THEN c ELSE t.crt[t.pos - (k - 1)]
    <3>1. /\ x \in Terminals
          /\ x.shift = v.shift /\ x.buf = v.buf /\ x.r = v.r /\ x.w = v.w /\ x.e = v.e
          /\ \A i \in Cells : i >= x.pos => x.crt[i] = Blank
      BY <2>0, Zenon DEF Put
    <3>2. c # "nl" => /\ x.pos <= v.pos + 1
                      /\ \A k \in 1..x.pos : x.crt[x.pos - k] = IF k = 1 THEN c ELSE v.crt[v.pos - (k - 1)]
      <4>1. c # "nl" => c \notin {"nl", "bs"}
        BY <1>5, Zenon
      <4> QED
        BY <2>0, <4>1, Zenon DEF Put
    <3> HIDE DEF x
    <3> QED
      BY <1>2, <2>3, <3>1, <3>2, ZenonT(30)
  <2> HIDE DEF x
  <2>8. \A i \in 0..(t.w - 1) : x.buf[i] = t.buf[i]
    BY <1>1, <1>2, <2>2, <2>7, SMTT(30) DEF Terminals
  <2>9. CASE u = [x EXCEPT !.w = x.e]
    <3>1. u = [shift |-> x.shift, buf |-> x.buf, r |-> x.r, w |-> x.e, e |-> x.e, crt |-> x.crt, pos |-> x.pos]
      BY <2>7, <2>9, ZenonT(40) DEF Terminals
    <3>2. Sound(u)
      <4>1. u \in Terminals
        <5>1. x \in Terminals
          BY <2>7, Zenon
        <5> QED
          BY <3>1, <5>1 DEF Terminals
      <4>2. u.w = x.e /\ u.e = x.e /\ u.pos = x.pos /\ u.crt = x.crt /\ x.e = t.e + 1
        <5>1. x.e = t.e + 1
          BY <2>7, Zenon
        <5> QED
          BY <3>1, <5>1
      <4>3. u.w <= u.e
        BY <1>2, <4>2
      <4> QED
        BY <2>7, <4>1, <4>2, <4>3, Zenon DEF Sound
    <3>3. Shown(u)
      BY <1>2, <2>7, <3>1 DEF Shown
    <3>4. u.shift = t.shift /\ u.buf = x.buf /\ u.w = t.e + 1 /\ u.e = t.e + 1
      <4>1. u.shift = x.shift /\ u.buf = x.buf /\ u.w = x.e /\ u.e = x.e
        BY <3>1
      <4> QED
        BY <2>7, <4>1, Zenon
    <3>5. u.w >= t.w
      BY <1>1, <1>2, <3>4
    <3> QED
      BY <2>8, <3>2, <3>3, <3>4, <3>5, Zenon
  <2>10. CASE u = x /\ c # "nl"
    <3>0. u.w = t.w /\ u.e = t.e + 1 /\ u.pos <= t.pos + 1 /\ t.pos \in Nat /\ u.pos \in Nat
      <4>1. t.pos \in Nat /\ x.pos \in Nat
        BY <1>1, <2>7, Grid DEF Terminals
      <4> QED
        BY <2>7, <2>10, <4>1, Zenon
    <3>1. Sound(u)
      <4>1. u.w <= u.e
        BY <1>1, <1>2, <3>0
      <4> QED
        BY <2>7, <2>10, <4>1, Zenon DEF Sound
    <3>2. ASSUME Shown(t) PROVE Shown(u)
      <4> SUFFICES ASSUME NEW k \in 1..(u.e - u.w), k <= u.pos
                   PROVE  u.crt[u.pos - k] = u.buf[u.e - k]
        BY Zenon DEF Shown
      <4>1. k \in 1..u.pos
        BY <1>2, <3>0
      <4>2. u.crt[u.pos - k] = IF k = 1 THEN c ELSE t.crt[t.pos - (k - 1)]
        BY <2>7, <2>10, <4>1, Zenon
      <4>3. u.e - k = t.e - (k - 1) /\ u.e - k \in 0..(INPUT_BUF_SIZE - 1) /\ (k = 1 <=> u.e - k = t.e)
        BY <1>2, <2>2, <3>0
      <4>4. u.buf[u.e - k] = IF k = 1 THEN c ELSE t.buf[t.e - (k - 1)]
        <5>1. t.buf \in [0..(INPUT_BUF_SIZE - 1) -> Chars] /\ u.buf = [t.buf EXCEPT ![t.e] = c]
          BY <1>1, <2>7, <2>10, Zenon DEF Terminals
        <5> QED
          BY <4>3, <5>1, Zenon
      <4>5. k # 1 => k - 1 \in 1..(t.e - t.w) /\ k - 1 <= t.pos
        BY <1>2, <3>0
      <4> QED
        BY <3>2, <4>2, <4>4, <4>5, Zenon DEF Shown
    <3>3. u.w >= t.w
      BY <1>2, <3>0
    <3> QED
      BY <2>7, <2>8, <2>10, <3>0, <3>1, <3>2, <3>3, Zenon
  <2> QED
    BY <2>6, <2>9, <2>10, Zenon
<1>6. CASE c = "bs" /\ t.e = t.w
  BY <1>3, <1>6, Zenon DEF consoleintr, Erase
<1> QED
  BY <1>3, <1>4, <1>5, <1>6, Zenon

\* What the maps of kbd.rs yield.
LEMMA CharInChars ==
  ASSUME NEW s, NEW d
  PROVE  Char(s, d) \in Chars
<1>1. NORMALMAP(d) \in Chars
  BY Zenon DEF NORMALMAP, Chars
<1>2. SHIFTMAP(d) \in Chars /\ CTLMAP(d) \in Chars
  BY <1>1, Zenon DEF SHIFTMAP, CTLMAP, Chars
<1> QED
  BY <1>1, <1>2, ZenonT(40) DEF Char, Chars

\* One byte of the keyboard, a character or not.
LEMMA Kbdgetc ==
  ASSUME NEW t, Sound(t), NEW byte, NEW u, u = kbdgetc(t, byte)
  PROVE  /\ Sound(u) /\ u.shift = After(t.shift, byte)
         /\ u.w >= t.w /\ (u.w # t.w => u.e = u.w)
         /\ \A i \in 0..(t.w - 1) : u.buf[i] = t.buf[i]
         /\ Shown(t) => Shown(u)
<1> DEFINE d == IF "E0ESC" \in t.shift THEN byte + 128 ELSE byte
           new == After(t.shift, byte)
           v == [t EXCEPT !.shift = new]
<1>1. t \in Terminals
  BY Zenon DEF Sound
<1>2. new \in SUBSET Flags
  <2>1. t.shift \subseteq Flags
    BY <1>1, Zenon DEF Terminals
  <2>2. Released(t.shift, byte) \subseteq Flags
    BY <2>1, Zenon DEF Released
  <2>3. Pressed(t.shift, d) \subseteq Flags
    BY <2>1, ShiftCodes DEF Pressed, Flags
  <2>4. t.shift \cup {"E0ESC"} \subseteq Flags
    BY <2>1, Zenon DEF Flags
  <2> QED
    BY <2>2, <2>3, <2>4, Zenon DEF After
<1>3. u = IF byte = \hE0 \/ byte >= 128 THEN v ELSE consoleintr(v, Char(new, d))
  BY DEF kbdgetc, After
<1> HIDE DEF new, d
<1>v. v = [t EXCEPT !.shift = new]
  OBVIOUS
<1> HIDE DEF v
<1>4. v = [shift |-> new, buf |-> t.buf, r |-> t.r, w |-> t.w, e |-> t.e, crt |-> t.crt, pos |-> t.pos]
  BY <1>1, <1>v, Zenon DEF Terminals
<1>5. v.shift = new /\ v.buf = t.buf /\ v.w = t.w /\ v.e = t.e /\ v.crt = t.crt /\ v.pos = t.pos
  BY <1>4, Zenon
<1>6. v \in Terminals
  BY <1>1, <1>2, <1>4, Zenon DEF Terminals
<1>7. Sound(v) /\ (Shown(t) => Shown(v))
  BY <1>5, <1>6, Zenon DEF Sound, Shown
<1>8. t.w >= t.w
  BY <1>1, TermConstants DEF Terminals
<1>9. CASE u = v
  BY <1>5, <1>7, <1>8, <1>9, Zenon DEF new
<1>10. CASE u = consoleintr(v, Char(new, d))
  <2>1. /\ Sound(u) /\ u.shift = v.shift
        /\ u.w >= v.w /\ (u.w # v.w => u.e = u.w)
        /\ \A i \in 0..(v.w - 1) : u.buf[i] = v.buf[i]
        /\ Shown(v) => Shown(u)
    BY <1>7, <1>10, CharInChars, Consoleintr, Zenon
  <2> QED
    BY <1>5, <1>7, <2>1, Zenon DEF new
<1> QED
  BY <1>3, <1>9, <1>10, Zenon

-----------------------------------------------------------------------------
\* A screen that is torn, and no longer followed, is as sound as any.
LEMMA Followed ==
  ASSUME NEW t, Sound(t), NEW lost \in BOOLEAN, NEW u, u = Follow(t, lost)
  PROVE  /\ Sound(u)
         /\ u.shift = t.shift /\ u.buf = t.buf /\ u.w = t.w /\ u.e = t.e
         /\ ~lost => u = t
<1>1. CASE ~lost
  BY <1>1, Zenon DEF Follow
<1>2. CASE lost
  <2> DEFINE empty == [i \in Cells |-> Blank]
  <2>1. t \in Terminals /\ t.w <= t.e
    BY Zenon DEF Sound
  <2>2. u = [t EXCEPT !.pos = 0, !.crt = empty]
    BY <1>2, Zenon DEF Follow
  <2>3. empty \in [Cells -> Chars] /\ \A i \in Cells : empty[i] = Blank
    BY Zenon DEF Blank, Chars
  <2> HIDE DEF empty
  <2>4. u = [shift |-> t.shift, buf |-> t.buf, r |-> t.r, w |-> t.w, e |-> t.e, crt |-> empty, pos |-> 0]
    BY <2>1, <2>2, Zenon DEF Terminals
  <2>5. 0 \in 0..(Room - 1)
    BY Grid
  <2>6. u \in Terminals
    <3>1. t \in Terminals /\ empty \in [Cells -> Chars]
      BY <2>1, <2>3, Zenon
    <3> QED
      BY <2>4, <2>5, <3>1 DEF Terminals
  <2>7. u.shift = t.shift /\ u.buf = t.buf /\ u.w = t.w /\ u.e = t.e /\ u.crt = empty
    BY <2>4
  <2> QED
    BY <1>2, <2>1, <2>3, <2>6, <2>7, Zenon DEF Sound
<1> QED
  BY <1>1, <1>2, Zenon

\* The inductive invariant: the state is sound, the bytes under way lead to the
\* right modifiers, and the line is shown unless the screen is torn or a program
\* wrote into it.
TermInv == /\ Sound(term) /\ ShiftInv
           /\ torn \in BOOLEAN /\ mixed \in BOOLEAN /\ out \in {"none", "x", "nl"}
           /\ torn \/ mixed \/ Shown(term)

\* The terminal starts with an empty line on an empty screen.
LEMMA InitTerm == TermInit => TermInv
<1> SUFFICES ASSUME TermInit PROVE TermInv
  OBVIOUS
<1>1. /\ term.shift = {} /\ term.w = 0 /\ term.e = 0 /\ term.pos = 0
      /\ term.crt = [i \in Cells |-> Blank] /\ term.buf = [i \in 0..(INPUT_BUF_SIZE - 1) |-> Blank]
  BY Zenon DEF TermInit
<1>2. term \in Terminals
  <2>1. Blank \in Chars /\ 0 \in 0..INPUT_BUF_SIZE /\ 0 \in 0..(Room - 1)
    BY Grid, TermConstants DEF Blank, Chars
  <2>2. {} \in SUBSET Flags /\ 0 \in {0} /\ [i \in Cells |-> Blank] \in [Cells -> Chars]
        /\ [i \in 0..(INPUT_BUF_SIZE - 1) |-> Blank] \in [0..(INPUT_BUF_SIZE - 1) -> Chars]
    BY <2>1, Zenon
  <2> QED
    BY <2>1, <2>2, Zenon DEF TermInit, Terminals
<1>3. Sound(term) /\ Shown(term)
  BY <1>1, <1>2 DEF Sound, Shown
<1>4. ShiftInv
  BY <1>1, Zenon DEF TermInit, ShiftInv, Read, Exact
<1> QED
  BY <1>3, <1>4, Zenon DEF TermInv, TermInit

\* What a step keeps besides the invariant.
Kept == /\ term'.w >= term.w
        /\ \A i \in 0..(term.w - 1) : term'.buf[i] = term.buf[i]

\* Every step, interrupts and writes of programs alike, keeps the invariant.
LEMMA NextTerm ==
  ASSUME TermInv, [TermNext]_termVars
  PROVE  TermInv' /\ Kept
<1>1. /\ Sound(term) /\ ShiftInv
      /\ torn \in BOOLEAN /\ mixed \in BOOLEAN /\ out \in {"none", "x", "nl"}
      /\ torn \/ mixed \/ Shown(term)
  BY Zenon DEF TermInv
<1>2. term.w >= term.w /\ term.w <= term.e
  BY <1>1, TermConstants DEF Sound, Terminals
<1>3. ASSUME term' = term, out' = out, torn' = torn, mixed' = mixed, ShiftInv' PROVE TermInv' /\ Kept
  BY <1>1, <1>2, <1>3, Zenon DEF TermInv, Kept, Sound, Shown
<1>4. ASSUME NEW key \in Keys, NEW up \in BOOLEAN, KeyEvent(key, up) PROVE TermInv' /\ Kept
  BY <1>1, <1>3, <1>4, KeyEventShift, Zenon DEF KeyEvent
<1>5. CASE SecondByte
  BY <1>1, <1>3, <1>5, Zenon DEF SecondByte, ShiftInv, Read, Exact
<1>6. CASE Kbdintr
  <2> DEFINE t == kbdgetc(term, port)
  <2>0. /\ torn' = (torn \/ (out # "none" /\ t.e # term.e)) /\ term' = Follow(t, torn')
        /\ mixed' = (mixed /\ term'.w = term.w) /\ out' = out
    BY <1>6, Zenon DEF Kbdintr
  <2>1. /\ Sound(t) /\ t.shift = After(term.shift, port)
        /\ t.w >= term.w /\ (t.w # term.w => t.e = t.w)
        /\ \A i \in 0..(term.w - 1) : t.buf[i] = term.buf[i]
        /\ Shown(term) => Shown(t)
    BY <1>1, Kbdgetc
  <2> HIDE DEF t
  <2>2. torn' \in BOOLEAN /\ mixed' \in BOOLEAN /\ (torn => torn')
    BY <1>1, <2>0, Zenon
  <2>3. /\ Sound(term')
        /\ term'.shift = t.shift /\ term'.buf = t.buf /\ term'.w = t.w /\ term'.e = t.e
        /\ ~torn' => term' = t
    <3>1. Sound(t) /\ torn' \in BOOLEAN /\ term' = Follow(t, torn')
      BY <2>0, <2>1, <2>2, Zenon
    <3> QED
      BY <3>1, Followed, Zenon
  <2>4. ShiftInv'
    BY <1>1, <1>6, <2>1, <2>3, Zenon DEF Kbdintr, ShiftInv, Read, Exact
  <2>5. t.e = t.w => Shown(t)
    BY <2>1 DEF Shown, Sound, Terminals
  <2>6. ~torn' /\ ~mixed' => Shown(t)
    <3>1. CASE t.w = term.w
      BY <1>1, <2>0, <2>1, <2>2, <2>3, <3>1, Zenon
    <3>2. CASE t.w # term.w
      BY <2>1, <2>5, <3>2, Zenon
    <3> QED
      BY <3>1, <3>2, Zenon
  <2>7. ~torn' /\ ~mixed' => Shown(term)'
    BY <2>3, <2>6, Zenon DEF Shown
  <2> QED
    BY <1>1, <2>0, <2>1, <2>2, <2>3, <2>4, <2>7, Zenon DEF TermInv, Kept
<1>7. ASSUME NEW c \in {"x", "nl"}, Consolewrite(c) PROVE TermInv' /\ Kept
  <2>1. /\ torn' = (torn \/ out # "none") /\ term' = Follow(term, torn')
        /\ out' = c /\ mixed' = mixed
    BY <1>7, Zenon DEF Consolewrite
  <2>2. torn' \in BOOLEAN /\ (torn => torn') /\ c \in {"none", "x", "nl"}
    BY <1>1, <2>1, Zenon
  <2>3. /\ Sound(term')
        /\ term'.shift = term.shift /\ term'.buf = term.buf /\ term'.w = term.w /\ term'.e = term.e
        /\ ~torn' => term' = term
    <3>1. Sound(term) /\ torn' \in BOOLEAN /\ term' = Follow(term, torn')
      BY <1>1, <2>1, <2>2, Zenon
    <3> QED
      BY <3>1, Followed, Zenon
  <2>4. ShiftInv'
    BY <1>1, <1>7, <2>3, Zenon DEF Consolewrite, ShiftInv, Read, Exact
  <2>5. torn' \/ mixed' \/ Shown(term)'
    BY <1>1, <2>1, <2>2, <2>3, Zenon DEF Shown
  <2> QED
    BY <1>1, <1>2, <2>1, <2>2, <2>3, <2>4, <2>5, Zenon DEF TermInv, Kept
<1>9. CASE Written
  <2> DEFINE t == cgaputc(term, out)
  <2>0. /\ out \in Chars /\ term' = Follow(t, torn) /\ torn' = torn
        /\ mixed' = (mixed \/ term.e # term.w) /\ out' = "none"
    BY <1>1, <1>9, Zenon DEF Written, Chars
  <2>1. /\ t \in Terminals
        /\ t.shift = term.shift /\ t.buf = term.buf /\ t.w = term.w /\ t.e = term.e
        /\ \A i \in Cells : i >= t.pos => t.crt[i] = Blank
    BY <1>1, <2>0, Cgaputc DEF Put
  <2> HIDE DEF t
  <2>2. Sound(t)
    BY <1>2, <2>1, Zenon DEF Sound
  <2>3. /\ Sound(term')
        /\ term'.shift = term.shift /\ term'.buf = term.buf /\ term'.w = term.w /\ term'.e = term.e
    <3>0. Sound(t) /\ torn \in BOOLEAN /\ term' = Follow(t, torn)
      BY <1>1, <2>0, <2>2, Zenon
    <3>1. /\ Sound(term')
          /\ term'.shift = t.shift /\ term'.buf = t.buf /\ term'.w = t.w /\ term'.e = t.e
      BY <3>0, Followed, Zenon
    <3> QED
      BY <2>1, <3>1, Zenon
  <2>4. ShiftInv'
    BY <1>1, <1>9, <2>3, Zenon DEF Written, ShiftInv, Read, Exact
  <2>5. term'.e = term'.w => Shown(term)'
    BY <2>3, TermConstants DEF Shown, Sound, Terminals
  <2>6. mixed' \in BOOLEAN /\ (mixed' \/ Shown(term)')
    BY <1>1, <2>0, <2>3, <2>5, Zenon
  <2> QED
    BY <1>1, <1>2, <2>0, <2>3, <2>4, <2>6, Zenon DEF TermInv, Kept
<1>8. CASE UNCHANGED termVars
  BY <1>1, <1>3, <1>8, Zenon DEF termVars, ShiftInv, Exact
<1> QED
  BY <1>4, <1>5, <1>6, <1>7, <1>8, <1>9, Zenon DEF TermNext

\* The invariant is enough for what the runs check.
LEMMA TermInvShows ==
  TermInv => ModifiersExact /\ EditShown
<1> SUFFICES ASSUME TermInv PROVE ModifiersExact /\ EditShown
  OBVIOUS
<1>1. Sound(term) /\ ShiftInv /\ (torn \/ mixed \/ Shown(term))
  BY Zenon DEF TermInv
<1>2. ModifiersExact
  <2>1. DOMAIN last = {"SHIFT", "CTL"}
    BY <1>1, Zenon DEF ShiftInv
  <2> QED
    BY <1>1, <2>1, Zenon DEF ModifiersExact, ShiftInv, Read, Exact
<1>3. /\ term.w \in Nat /\ term.e \in Nat /\ term.e <= INPUT_BUF_SIZE /\ INPUT_BUF_SIZE \in Nat \ {0}
      /\ term.pos < Room
  <2>1. term.w \in 0..INPUT_BUF_SIZE /\ term.e \in 0..INPUT_BUF_SIZE /\ term.pos \in 0..(Room - 1)
    BY <1>1, Zenon DEF Sound, Terminals
  <2>2. Room \in Nat
    BY Grid, Zenon
  <2> QED
    BY <2>1, <2>2, TermConstants
<1>4. ASSUME ~torn, ~mixed, NEW k \in 1..(term.e - term.w), k <= term.pos
      PROVE  term.crt[term.pos - k] = term.buf[(term.e - k) % INPUT_BUF_SIZE]
  <2>0. term.e - k \in 0..(INPUT_BUF_SIZE - 1)
    BY <1>3
  <2>1. (term.e - k) % INPUT_BUF_SIZE = term.e - k
    <3>1. INPUT_BUF_SIZE \in Nat
      BY TermConstants, ZenonT(40)
    <3> QED
      BY <2>0, <3>1, Unwrapped, Zenon
  <2> QED
    BY <1>1, <1>4, <2>1, Zenon DEF Shown
<1> QED
  BY <1>1, <1>2, <1>3, <1>4, Zenon DEF EditShown, Room, Sound

\* Whatever keys are pressed and released in whatever order, and wherever an
\* interrupt falls between the two bytes of one: SHIFT and CTL are on exactly
\* when the last key of that kind to move went down.
THEOREM ModifiersNeverStick == TermSpec => []ModifiersExact
<1> QED
  BY InitTerm, NextTerm, TermInvShows, PTL DEF TermSpec

\* For any buffer and any screen, as long as neither a key nor another program
\* fell into the middle of a program's character: the line being edited is what
\* stands before the cursor, and behind it the screen is empty.
THEOREM LineIsOnScreen == TermSpec => []EditShown
<1> QED
  BY InitTerm, NextTerm, TermInvShows, PTL DEF TermSpec

\* Kept, in the words of CommittedKept.
LEMMA KeptIsKept ==
  ASSUME TermInv, Kept
  PROVE  /\ term'.w >= term.w
         /\ \A i \in term.r..(term.w - 1) : term'.buf[i % INPUT_BUF_SIZE] = term.buf[i % INPUT_BUF_SIZE]
<1>1. term.r = 0 /\ term.w \in Nat /\ term.w <= INPUT_BUF_SIZE /\ INPUT_BUF_SIZE \in Nat \ {0}
  BY TermConstants DEF TermInv, Sound, Terminals
<1>2. \A i \in 0..(term.w - 1) : i % INPUT_BUF_SIZE = i
  BY <1>1
<1> QED
  BY <1>1, <1>2, Zenon DEF Kept

\* Editing never reaches back into a line that has been handed over.
THEOREM HandedOverStays == TermSpec => CommittedKept
<1>1. TermInv /\ [TermNext]_termVars =>
        [/\ term'.w >= term.w
         /\ \A i \in term.r..(term.w - 1) : term'.buf[i % INPUT_BUF_SIZE] = term.buf[i % INPUT_BUF_SIZE]]_termVars
  BY NextTerm, KeptIsKept, Zenon
<1> QED
  BY InitTerm, NextTerm, <1>1, PTL DEF TermSpec, CommittedKept
=============================================================================
