---------------------------- MODULE KernelProofs ----------------------------
(***************************************************************************)
(* The masking of interrupts around locks (Interrupts.tla), for any number *)
(* of threads, and the ways into and out of the kernel with swtch between  *)
(* its stacks (Switch.tla), for any processes, vectors and nesting.        *)
(***************************************************************************)
EXTENDS Interrupts, Switch, TLAPS

\* The locks a thread has at the k-th operation of path c: two; one; ptable.lock.
\* A thread that does not run is where it called sched(), or at its start.
Two(c, k)       == k = 3 /\ c \in {"wakeup", "sleep"}
One(c, k)       == \/ k = 1 /\ c = "forkret"
                   \/ k = 2 /\ c \in {"lock", "wakeup", "wait", "sleep"}
                   \/ k = 3 /\ c = "wait"
                   \/ k = 4 /\ c \in {"wakeup", "sleep"}
                   \/ k \in {5, 7} /\ c = "sleep"
InPtable(c, k)  == \/ k = 1 /\ c = "forkret"
                   \/ k = 2 /\ c = "wait"
                   \/ k = 3 /\ c \in {"wakeup", "wait", "sleep"}
                   \/ k \in {4, 5} /\ c = "sleep"
Suspended(c, k) == \/ k = 1 /\ c = "forkret"
                   \/ k = 3 /\ c = "wait"
                   \/ k = 5 /\ c = "sleep"

Depth(c, k) == IF Two(c, k) THEN 2 ELSE IF One(c, k) THEN 1 ELSE 0
Paths       == {"user", "forkret", "lock", "wakeup", "wait", "sleep"}

\* No call is iderw, whose sleep() releases a lock that nobody acquired.
Matched == CallsKnown /\ "iderw" \notin Calls

\* The nesting count and ptable.lock are what the running thread's place on its
\* path says, or the scheduler's; a thread that does not run holds ptable.lock
\* alone, which the scheduler has taken over.
IntrInv ==
  /\ IntrTypeOK
  /\ \A p \in Threads : pos[p] <= Len(Script(call[p])) + 1
  /\ ~intrPanicked =>
       /\ CLI_DEPTH > 0 => ~FL_IF
       /\ cpu = Scheduler => /\ ptable <=> spos = "scan"
                             /\ CLI_DEPTH = IF spos = "scan" THEN 1 ELSE 0
       /\ cpu \in Threads => /\ spos = "scan"
                             /\ ptable <=> InPtable(call[cpu], pos[cpu])
                             /\ CLI_DEPTH = Depth(call[cpu], pos[cpu])
       /\ \A p \in Threads : p # cpu => Suspended(call[p], pos[p])

\* What an operation does to a thread's place.
Place(c, k) ==
  /\ Len(Script(c)) \in 0..7
  /\ k > Len(Script(c)) => Depth(c, k) = 0 /\ ~InPtable(c, k)
  /\ k <= Len(Script(c)) =>
       \/ /\ Script(c)[k] = Acq("lk") /\ Depth(c, k + 1) = Depth(c, k) + 1
          /\ InPtable(c, k + 1) <=> InPtable(c, k)
       \/ /\ Script(c)[k] = Acq("pt") /\ Depth(c, k + 1) = Depth(c, k) + 1
          /\ InPtable(c, k + 1)
       \/ /\ Script(c)[k] = Rel("lk") /\ Depth(c, k) = Depth(c, k + 1) + 1
          /\ InPtable(c, k + 1) <=> InPtable(c, k)
       \/ /\ Script(c)[k] = Rel("pt") /\ Depth(c, k) = Depth(c, k + 1) + 1
          /\ ~InPtable(c, k + 1)
       \/ Script(c)[k] = SCHED /\ Depth(c, k) = 1 /\ InPtable(c, k) /\ Suspended(c, k + 1)

\* The operations of the paths are told apart.
LEMMA Differ ==
  /\ \A l, m : Acq(l) # Rel(m) /\ Acq(l) # SCHED /\ Rel(l) # SCHED
  /\ \A l, m : (Acq(l) = Acq(m) => l = m) /\ (Rel(l) = Rel(m) => l = m)
<1>1. \A l, m : Acq(l)[1] = "acquire" /\ Rel(m)[1] = "release" /\ Acq(l)[2] = l /\ Rel(m)[2] = m /\ SCHED[1] = "sched"
  BY DEF Acq, Rel, SCHED
<1> QED
  BY <1>1

\* Each operation of each path moves the depth and ptable.lock as Place says.
LEMMA Places ==
  ASSUME NEW c \in Paths, NEW k \in 1..8
  PROVE  Place(c, k)
<1>1. CASE c = "user"
  <2>1. Script(c) = <<>>
    BY <1>1 DEF Script
  <2>2. /\ Len(Script(c)) = 0
    BY <2>1
  <2> QED
    BY <1>1, <2>2 DEF Place, Depth, Two, One, InPtable, Suspended
<1>2. CASE c = "forkret"
  <2>1. Script(c) = <<Rel("pt")>>
    BY <1>2 DEF Script
  <2>2. /\ Len(Script(c)) = 1
        /\ k <= 1 => \/ k = 1 /\ Script(c)[k] = Rel("pt")
    BY <2>1
  <2>3. CASE k > 1
    <3>1. Depth(c, k) = 0 /\ ~InPtable(c, k)
      BY <1>2, <2>3 DEF Depth, Two, One, InPtable
    <3> QED
      BY <2>2, <2>3, <3>1 DEF Place
  <2>4. CASE k = 1
    BY <1>2, <2>2, <2>4 DEF Place, Depth, Two, One, InPtable, Suspended
  <2> QED
    BY <2>3, <2>4
<1>3. CASE c = "lock"
  <2>1. Script(c) = <<Acq("lk"), Rel("lk")>>
    BY <1>3 DEF Script
  <2>2. /\ Len(Script(c)) = 2
        /\ k <= 2 => \/ k = 1 /\ Script(c)[k] = Acq("lk")
                     \/ k = 2 /\ Script(c)[k] = Rel("lk")
    BY <2>1
  <2>3. CASE k > 2
    <3>1. Depth(c, k) = 0 /\ ~InPtable(c, k)
      BY <1>3, <2>3 DEF Depth, Two, One, InPtable
    <3> QED
      BY <2>2, <2>3, <3>1 DEF Place
  <2>4. CASE k = 1
    BY <1>3, <2>2, <2>4 DEF Place, Depth, Two, One, InPtable, Suspended
  <2>5. CASE k = 2
    BY <1>3, <2>2, <2>5 DEF Place, Depth, Two, One, InPtable, Suspended
  <2> QED
    BY <2>3, <2>4, <2>5
<1>4. CASE c = "wakeup"
  <2>1. Script(c) = <<Acq("lk"), Acq("pt"), Rel("pt"), Rel("lk")>>
    BY <1>4 DEF Script
  <2>2. /\ Len(Script(c)) = 4
        /\ k <= 4 => \/ k = 1 /\ Script(c)[k] = Acq("lk")
                     \/ k = 2 /\ Script(c)[k] = Acq("pt")
                     \/ k = 3 /\ Script(c)[k] = Rel("pt")
                     \/ k = 4 /\ Script(c)[k] = Rel("lk")
    BY <2>1
  <2>3. CASE k > 4
    <3>1. Depth(c, k) = 0 /\ ~InPtable(c, k)
      BY <1>4, <2>3 DEF Depth, Two, One, InPtable
    <3> QED
      BY <2>2, <2>3, <3>1 DEF Place
  <2>4. CASE k = 1
    BY <1>4, <2>2, <2>4 DEF Place, Depth, Two, One, InPtable, Suspended
  <2>5. CASE k = 2
    BY <1>4, <2>2, <2>5 DEF Place, Depth, Two, One, InPtable, Suspended
  <2>6. CASE k = 3
    BY <1>4, <2>2, <2>6 DEF Place, Depth, Two, One, InPtable, Suspended
  <2>7. CASE k = 4
    BY <1>4, <2>2, <2>7 DEF Place, Depth, Two, One, InPtable, Suspended
  <2> QED
    BY <2>3, <2>4, <2>5, <2>6, <2>7
<1>5. CASE c = "wait"
  <2>1. Script(c) = <<Acq("pt"), SCHED, Rel("pt")>>
    BY <1>5 DEF Script
  <2>2. /\ Len(Script(c)) = 3
        /\ k <= 3 => \/ k = 1 /\ Script(c)[k] = Acq("pt")
                     \/ k = 2 /\ Script(c)[k] = SCHED
                     \/ k = 3 /\ Script(c)[k] = Rel("pt")
    BY <2>1
  <2>3. CASE k > 3
    <3>1. Depth(c, k) = 0 /\ ~InPtable(c, k)
      BY <1>5, <2>3 DEF Depth, Two, One, InPtable
    <3> QED
      BY <2>2, <2>3, <3>1 DEF Place
  <2>4. CASE k = 1
    BY <1>5, <2>2, <2>4 DEF Place, Depth, Two, One, InPtable, Suspended
  <2>5. CASE k = 2
    BY <1>5, <2>2, <2>5 DEF Place, Depth, Two, One, InPtable, Suspended
  <2>6. CASE k = 3
    BY <1>5, <2>2, <2>6 DEF Place, Depth, Two, One, InPtable, Suspended
  <2> QED
    BY <2>3, <2>4, <2>5, <2>6
<1>6. CASE c = "sleep"
  <2>1. Script(c) = <<Acq("lk"), Acq("pt"), Rel("lk"), SCHED, Rel("pt"), Acq("lk"), Rel("lk")>>
    BY <1>6 DEF Script
  <2>2. /\ Len(Script(c)) = 7
        /\ k <= 7 => \/ k = 1 /\ Script(c)[k] = Acq("lk")
                     \/ k = 2 /\ Script(c)[k] = Acq("pt")
                     \/ k = 3 /\ Script(c)[k] = Rel("lk")
                     \/ k = 4 /\ Script(c)[k] = SCHED
                     \/ k = 5 /\ Script(c)[k] = Rel("pt")
                     \/ k = 6 /\ Script(c)[k] = Acq("lk")
                     \/ k = 7 /\ Script(c)[k] = Rel("lk")
    BY <2>1
  <2>3. CASE k > 7
    <3>1. Depth(c, k) = 0 /\ ~InPtable(c, k)
      BY <1>6, <2>3 DEF Depth, Two, One, InPtable
    <3> QED
      BY <2>2, <2>3, <3>1 DEF Place
  <2>4. CASE k = 1
    BY <1>6, <2>2, <2>4 DEF Place, Depth, Two, One, InPtable, Suspended
  <2>5. CASE k = 2
    BY <1>6, <2>2, <2>5 DEF Place, Depth, Two, One, InPtable, Suspended
  <2>6. CASE k = 3
    BY <1>6, <2>2, <2>6 DEF Place, Depth, Two, One, InPtable, Suspended
  <2>7. CASE k = 4
    BY <1>6, <2>2, <2>7 DEF Place, Depth, Two, One, InPtable, Suspended
  <2>8. CASE k = 5
    BY <1>6, <2>2, <2>8 DEF Place, Depth, Two, One, InPtable, Suspended
  <2>9. CASE k = 6
    BY <1>6, <2>2, <2>9 DEF Place, Depth, Two, One, InPtable, Suspended
  <2>10. CASE k = 7
    BY <1>6, <2>2, <2>10 DEF Place, Depth, Two, One, InPtable, Suspended
  <2> QED
    BY <2>3, <2>4, <2>5, <2>6, <2>7, <2>8, <2>9, <2>10
<1> QED
  BY <1>1, <1>2, <1>3, <1>4, <1>5, <1>6 DEF Paths

\* A system call starts with no lock, and a suspended thread has ptable.lock.
LEMMA Starts ==
  ASSUME NEW c, c # "forkret"
  PROVE  Depth(c, 1) = 0 /\ ~InPtable(c, 1)
BY DEF Depth, Two, One, InPtable

LEMMA Resumes ==
  ASSUME NEW c, NEW k, Suspended(c, k)
  PROVE  Depth(c, k) = 1 /\ InPtable(c, k)
BY DEF Suspended, Depth, Two, One, InPtable

\* What the invariant says of the thread that runs.
LEMMA Running ==
  ASSUME Matched, IntrInv, NEW p \in Threads, cpu = p, ~intrPanicked
  PROVE  /\ call[p] \in Paths /\ pos[p] \in 1..8 /\ Place(call[p], pos[p])
         /\ spos = "scan" /\ (ptable <=> InPtable(call[p], pos[p])) /\ CLI_DEPTH = Depth(call[p], pos[p])
         /\ CLI_DEPTH \in Nat /\ (CLI_DEPTH > 0 => ~FL_IF) /\ p # Scheduler
         /\ \A q \in Threads : q # p => Suspended(call[q], pos[q])
<1>1. call[p] \in Paths /\ pos[p] \in 1..8
  BY Zenon DEF Matched, CallsKnown, IntrInv, IntrTypeOK, Paths
<1>2. Place(call[p], pos[p])
  BY <1>1, Places
<1> QED
  BY <1>1, <1>2, Zenon DEF Matched, CallsKnown, IntrInv, IntrTypeOK

\* A thread goes on, and the others stay where they are.
LEMMA GoesOn ==
  ASSUME Matched, IntrInv, IntrTypeOK', NEW p \in Threads, cpu = p, ~intrPanicked,
         UNCHANGED <<cpu, spos, intrPanicked>>,
         \A q \in Threads : q # p => call'[q] = call[q] /\ pos'[q] = pos[q],
         pos'[p] <= Len(Script(call'[p])) + 1,
         CLI_DEPTH' > 0 => ~FL_IF',
         ptable' <=> InPtable(call'[p], pos'[p]),
         CLI_DEPTH' = Depth(call'[p], pos'[p])
  PROVE  IntrInv'
BY Running DEF IntrInv

\* acquire() and release() by the thread that runs.
LEMMA LockStep ==
  ASSUME Matched, IntrInv, NEW p \in Threads, NEW lk \in {"lk", "pt", "ide"}, Lock(p, lk) \/ Unlock(p, lk)
  PROVE  IntrInv'
<1>1. /\ ~intrPanicked /\ cpu = p /\ pos[p] <= Len(Script(call[p]))
      /\ Script(call[p])[pos[p]] = Acq(lk) \/ Script(call[p])[pos[p]] = Rel(lk)
      /\ Step(p) /\ UNCHANGED <<cpu, state, intrPanicked>>
  BY DEF Lock, Unlock, Doing
<1>2. /\ Place(call[p], pos[p]) /\ pos[p] \in 1..8 /\ spos = "scan"
      /\ ptable <=> InPtable(call[p], pos[p])
      /\ CLI_DEPTH = Depth(call[p], pos[p]) /\ CLI_DEPTH \in Nat /\ (CLI_DEPTH > 0 => ~FL_IF)
  BY <1>1, Running
<1>3. /\ call' = call /\ pos' \in [Threads -> 1..8] /\ pos'[p] = pos[p] + 1
      /\ \A q \in Threads : q # p => pos'[q] = pos[q]
  BY <1>1, <1>2, SMTT(30) DEF Step, Place, IntrInv, IntrTypeOK
<1>6. /\ pos'[p] <= Len(Script(call'[p])) + 1
      /\ \A q \in Threads : q # p => call'[q] = call[q] /\ pos'[q] = pos[q]
  BY <1>1, <1>2, <1>3 DEF Place
<1>4. CASE Lock(p, lk)
  <2>1. Script(call[p])[pos[p]] = Acq(lk)
    BY <1>4 DEF Lock, Doing
  <2>2. Depth(call[p], pos[p] + 1) = Depth(call[p], pos[p]) + 1
        /\ (InPtable(call[p], pos[p] + 1) <=> InPtable(call[p], pos[p]) \/ lk = "pt")
    BY <1>1, <1>2, <2>1, Differ DEF Place
  <2>3. /\ CLI_DEPTH' = CLI_DEPTH + 1 /\ FL_IF' = FALSE /\ INT_ENABLED' \in BOOLEAN
        /\ ptable' = (ptable \/ lk = "pt")
    BY <1>4 DEF Lock, Acquire, Pushcli, IntrInv, IntrTypeOK
  <2>4. CLI_DEPTH' \in Nat /\ CLI_DEPTH' = Depth(call'[p], pos'[p])
    BY <1>2, <1>3, <2>2, <2>3
  <2>5. FL_IF' \in BOOLEAN /\ ~FL_IF' /\ ptable' \in BOOLEAN /\ (ptable' <=> InPtable(call'[p], pos'[p]))
    BY <1>2, <1>3, <2>2, <2>3, Zenon
  <2>6. IntrTypeOK'
    BY <1>1, <1>3, <2>3, <2>4, <2>5, Zenon DEF IntrInv, IntrTypeOK, Step
  <2> QED
    BY <1>1, <1>6, <2>4, <2>5, <2>6, GoesOn, Zenon DEF Step
<1>5. CASE Unlock(p, lk)
  <2>1. Script(call[p])[pos[p]] = Rel(lk)
    BY <1>5 DEF Unlock, Doing
  <2>2. Depth(call[p], pos[p]) = Depth(call[p], pos[p] + 1) + 1
        /\ (InPtable(call[p], pos[p] + 1) <=> InPtable(call[p], pos[p]) /\ lk # "pt")
    BY <1>1, <1>2, <2>1, Differ, Zenon DEF Place
  <2>3. /\ CLI_DEPTH' = CLI_DEPTH - 1 /\ FL_IF' = (FL_IF \/ (CLI_DEPTH' = 0 /\ INT_ENABLED))
        /\ INT_ENABLED' = INT_ENABLED /\ ptable' = (ptable /\ lk # "pt")
    BY <1>5, Zenon DEF Unlock, Release, Popcli
  <2>a. Depth(call[p], pos[p] + 1) \in Nat
    BY DEF Depth
  <2>4. CLI_DEPTH' \in Nat /\ CLI_DEPTH' = Depth(call'[p], pos'[p]) /\ CLI_DEPTH > 0
    BY <1>2, <1>3, <2>2, <2>3, <2>a
  <2>5. /\ FL_IF' \in BOOLEAN /\ ptable' \in BOOLEAN /\ (ptable' <=> InPtable(call'[p], pos'[p]))
        /\ CLI_DEPTH' # 0 => ~FL_IF'
    BY <1>2, <1>3, <2>2, <2>3, <2>4, Zenon
  <2>6. IntrTypeOK'
    BY <1>1, <1>3, <2>3, <2>4, <2>5, Zenon DEF IntrInv, IntrTypeOK, Step
  <2>7. CLI_DEPTH' > 0 => CLI_DEPTH' # 0
    OBVIOUS
  <2> QED
    BY <1>1, <1>6, <2>4, <2>5, <2>6, <2>7, GoesOn, Zenon DEF Step
<1> QED
  BY <1>4, <1>5

\* Syscall, sysret, and from one path of the kernel to the next.
LEMMA PathStep ==
  ASSUME Matched, IntrInv, NEW p \in Threads,
         Sysret(p) \/ \E c \in Calls : Syscall(p, c) \/ Continue(p, c)
  PROVE  IntrInv'
<1>1. /\ ~intrPanicked /\ cpu = p
      /\ call[p] = "user" \/ pos[p] > Len(Script(call[p]))
      /\ UNCHANGED <<CLI_DEPTH, INT_ENABLED, ncli, ptable, cpu, spos, state, intrPanicked>>
      /\ FL_IF' \in BOOLEAN
  BY Zenon DEF Sysret, Syscall, Continue, Returned, IntrInv, IntrTypeOK
<1>2. PICK c \in Calls \cup {"user"} : call' = [call EXCEPT ![p] = c] /\ pos' = [pos EXCEPT ![p] = 1]
  BY Zenon DEF Sysret, Syscall, Continue
<1>3. c # "forkret" /\ c \in Paths
  BY DEF Matched, CallsKnown, Paths
<1>4. CLI_DEPTH = 0 /\ ~ptable
  <2>1. /\ Place(call[p], pos[p]) /\ CLI_DEPTH = Depth(call[p], pos[p])
        /\ ptable <=> InPtable(call[p], pos[p])
    BY <1>1, Running, Zenon
  <2>2. call[p] = "user" => Depth(call[p], pos[p]) = 0 /\ ~InPtable(call[p], pos[p])
    BY DEF Depth, Two, One, InPtable
  <2> QED
    BY <1>1, <2>1, <2>2, Zenon DEF Place
<1>5. /\ call' \in [Threads -> Calls \cup {"user", "forkret"}] /\ pos' \in [Threads -> 1..8]
      /\ call'[p] = c /\ pos'[p] = 1
      /\ \A q \in Threads : q # p => call'[q] = call[q] /\ pos'[q] = pos[q]
  BY <1>2 DEF IntrInv, IntrTypeOK
<1>6. IntrTypeOK'
  BY <1>1, <1>5, Zenon DEF IntrInv, IntrTypeOK
<1>7. 1 <= Len(Script(c)) + 1
  <2>1. 1 \in 1..8
    OBVIOUS
  <2>2. Len(Script(c)) \in 0..7
    BY <1>3, <2>1, Places DEF Place
  <2> QED
    BY <2>2
<1>8. Depth(c, 1) = 0 /\ ~InPtable(c, 1) /\ ~(CLI_DEPTH' > 0)
  BY <1>1, <1>3, <1>4, Starts
<1> QED
  BY <1>1, <1>4, <1>5, <1>6, <1>7, <1>8, GoesOn, Zenon

\* The scheduler's own steps, and the switch to a process.
LEMMA SchedulerStep ==
  ASSUME Matched, IntrInv, Sti \/ BeginPass \/ EndPass
  PROVE  IntrInv'
<1>1. /\ ~intrPanicked /\ cpu = Scheduler /\ Scheduler \notin Threads
      /\ UNCHANGED <<ncli, cpu, state, call, pos, intrPanicked>>
  BY Zenon DEF Sti, BeginPass, EndPass, Matched, CallsKnown
<1>2. /\ spos' \in {"sti", "acquire", "scan"} /\ CLI_DEPTH' = (IF spos' = "scan" THEN 1 ELSE 0)
      /\ FL_IF' \in BOOLEAN /\ INT_ENABLED' \in BOOLEAN /\ ptable' \in BOOLEAN
      /\ ptable' <=> spos' = "scan"
      /\ spos' = "scan" => ~FL_IF'
  <2>0. FL_IF \in BOOLEAN /\ INT_ENABLED \in BOOLEAN /\ ptable \in BOOLEAN
    BY Zenon DEF IntrInv, IntrTypeOK
  <2>1. CASE Sti
    <3>1. CLI_DEPTH = 0 /\ ~ptable
      BY <2>1 DEF IntrInv, Sti
    <3>2. FL_IF' \in BOOLEAN /\ INT_ENABLED' \in BOOLEAN /\ ptable' \in BOOLEAN
      BY <2>0, <2>1, <3>1, Zenon DEF Sti
    <3>3. spos' = "acquire" /\ CLI_DEPTH' = 0 /\ ~ptable'
      BY <2>1, <3>1, Zenon DEF Sti
    <3> QED
      BY <3>2, <3>3
  <2>2. CASE BeginPass
    <3>1. CLI_DEPTH = 0 /\ ~ptable
      BY <2>2 DEF IntrInv, BeginPass
    <3>2. FL_IF' \in BOOLEAN /\ INT_ENABLED' \in BOOLEAN /\ ptable' \in BOOLEAN
      BY <2>0, <2>2, <3>1, Zenon DEF BeginPass, Acquire, Pushcli
    <3>3. spos' = "scan" /\ CLI_DEPTH' = 0 + 1 /\ ptable' /\ ~FL_IF'
      BY <2>2, <3>1, Zenon DEF BeginPass, Acquire, Pushcli
    <3> QED
      BY <3>2, <3>3
  <2>3. CASE EndPass
    <3>1. CLI_DEPTH = 1
      BY <2>3 DEF IntrInv, EndPass
    <3>2. FL_IF' \in BOOLEAN /\ INT_ENABLED' \in BOOLEAN /\ ptable' \in BOOLEAN
      BY <2>0, <2>3, <3>1, Zenon DEF EndPass, Release, Popcli
    <3>3. spos' = "sti" /\ CLI_DEPTH' = 1 - 1 /\ ~ptable'
      BY <2>3, <3>1, Zenon DEF EndPass, Release, Popcli
    <3> QED
      BY <3>2, <3>3
  <2> QED
    BY <2>1, <2>2, <2>3
<1>3. CLI_DEPTH' \in Nat /\ (CLI_DEPTH' > 0 => ~FL_IF')
  BY <1>2
<1>4. IntrTypeOK'
  BY <1>1, <1>2, <1>3, Zenon DEF IntrInv, IntrTypeOK
<1>5. \A q \in Threads : q # cpu => Suspended(call[q], pos[q])
  BY <1>1, Zenon DEF IntrInv
<1> QED
  BY <1>1, <1>2, <1>3, <1>4, <1>5, Zenon DEF IntrInv

\* swtch to a thread, which goes on where it called sched().
LEMMA DispatchStep ==
  ASSUME Matched, IntrInv, NEW p \in Threads, Dispatch(p)
  PROVE  IntrInv'
<1>1. /\ ~intrPanicked /\ cpu = Scheduler /\ Scheduler \notin Threads /\ spos = "scan" /\ cpu' = p
      /\ UNCHANGED <<FL_IF, CLI_DEPTH, INT_ENABLED, ncli, ptable, spos, call, pos, intrPanicked>>
  BY Zenon DEF Dispatch, Matched, CallsKnown
<1>2. \A q \in Threads : Suspended(call[q], pos[q])
  BY <1>1, Zenon DEF IntrInv
<1>3. Depth(call[p], pos[p]) = 1 /\ InPtable(call[p], pos[p])
  BY <1>2, Resumes, Zenon
<1>4. CLI_DEPTH = 1 /\ ptable /\ (CLI_DEPTH > 0 => ~FL_IF)
  BY <1>1, Zenon DEF IntrInv
<1>5. state' \in [Threads -> {"RUNNABLE", "RUNNING", "SLEEPING"}]
  BY DEF Dispatch, IntrInv, IntrTypeOK
<1>6. IntrTypeOK'
  BY <1>1, <1>5, Zenon DEF IntrInv, IntrTypeOK
<1> QED
  BY <1>1, <1>2, <1>3, <1>4, <1>6, Zenon DEF IntrInv

\* sched() switches to the scheduler, or panics.
LEMMA SchedStep ==
  ASSUME Matched, IntrInv, NEW p \in Threads, Sched(p)
  PROVE  IntrInv'
<1>1. /\ ~intrPanicked /\ cpu = p /\ pos[p] <= Len(Script(call[p])) /\ Script(call[p])[pos[p]] = SCHED
      /\ UNCHANGED <<FL_IF, CLI_DEPTH, INT_ENABLED, ptable>>
  BY Zenon DEF Sched, Doing
<1>2. state' \in [Threads -> {"RUNNABLE", "RUNNING", "SLEEPING"}]
  BY DEF Sched, IntrInv, IntrTypeOK
<1>3. /\ Place(call[p], pos[p]) /\ pos[p] \in 1..8 /\ spos = "scan"
      /\ ptable <=> InPtable(call[p], pos[p])
      /\ CLI_DEPTH = Depth(call[p], pos[p]) /\ (CLI_DEPTH > 0 => ~FL_IF)
      /\ p # Scheduler /\ \A q \in Threads : q # p => Suspended(call[q], pos[q])
  BY <1>1, Running, Zenon
<1>4. Depth(call[p], pos[p]) = 1 /\ InPtable(call[p], pos[p]) /\ Suspended(call[p], pos[p] + 1)
  BY <1>1, <1>3, Differ, Zenon DEF Place
<1>5. CASE cpu' = Scheduler /\ Step(p) /\ UNCHANGED intrPanicked
  <2>1. /\ call' = call /\ pos' \in [Threads -> 1..8] /\ pos'[p] = pos[p] + 1
        /\ UNCHANGED <<ncli, spos>> /\ \A q \in Threads : q # p => pos'[q] = pos[q]
    BY <1>1, <1>3, <1>5, SMTT(30) DEF Step, Place, IntrInv, IntrTypeOK
  <2>2. IntrTypeOK'
    BY <1>1, <1>2, <1>5, <2>1, Zenon DEF IntrInv, IntrTypeOK
  <2>3. \A q \in Threads : pos'[q] <= Len(Script(call'[q])) + 1
    BY <1>1, <1>3, <2>1, SMTT(30) DEF IntrInv, Place
  <2>4. \A q \in Threads : Suspended(call'[q], pos'[q])
    BY <1>3, <1>4, <2>1, Zenon
  <2>5. cpu' \notin Threads
    BY <1>5, Zenon DEF Matched, CallsKnown
  <2> QED
    BY <1>1, <1>3, <1>4, <1>5, <2>1, <2>2, <2>3, <2>4, <2>5, Zenon DEF IntrInv
<1>6. CASE intrPanicked' = TRUE /\ UNCHANGED <<cpu, pos, ncli, spos, call>>
  BY <1>1, <1>2, <1>6, Zenon DEF IntrInv, IntrTypeOK
<1> QED
  BY <1>5, <1>6, Zenon DEF Sched

\* An interrupt finds no lock taken.
LEMMA InterruptStep ==
  ASSUME Matched, IntrInv, Interrupt
  PROVE  IntrInv'
<1>1. /\ ~intrPanicked /\ FL_IF /\ ptable' = FALSE /\ INT_ENABLED' = (CLI_DEPTH # 0 /\ INT_ENABLED)
      /\ UNCHANGED <<FL_IF, CLI_DEPTH, ncli, cpu, spos, call, pos, intrPanicked>>
  BY Zenon DEF Interrupt
<1>2. state' \in [Threads -> {"RUNNABLE", "RUNNING", "SLEEPING"}]
  BY DEF Interrupt, IntrInv, IntrTypeOK
<1>3. ~(CLI_DEPTH > 0) /\ CLI_DEPTH \in Nat
  BY <1>1, Zenon DEF IntrInv, IntrTypeOK
<1>4. ~ptable
  <2>1. CASE cpu = Scheduler
    BY <1>1, <1>3, <2>1 DEF IntrInv
  <2>2. CASE cpu \in Threads
    <3>1. /\ Place(call[cpu], pos[cpu]) /\ CLI_DEPTH = Depth(call[cpu], pos[cpu])
          /\ ptable <=> InPtable(call[cpu], pos[cpu])
      BY <1>1, <2>2, Running, Zenon
    <3>2. InPtable(call[cpu], pos[cpu]) => Depth(call[cpu], pos[cpu]) > 0
      BY DEF InPtable, Depth, Two, One
    <3> QED
      BY <1>3, <3>1, <3>2, Zenon
  <2> QED
    BY <2>1, <2>2, Zenon DEF IntrInv, IntrTypeOK
<1>5. IntrTypeOK'
  BY <1>1, <1>2, Zenon DEF IntrInv, IntrTypeOK
<1> QED
  BY <1>1, <1>4, <1>5, Zenon DEF IntrInv

\* Every step keeps the invariant, it holds at the start, and it is enough.
LEMMA NextIntr == Matched /\ IntrInv /\ [IntrNext]_intrVars => IntrInv'
<1> SUFFICES ASSUME Matched, IntrInv, [IntrNext]_intrVars PROVE IntrInv'
  BY Zenon
<1>1. CASE UNCHANGED intrVars
  BY <1>1, Zenon DEF intrVars, IntrInv, IntrTypeOK
<1> QED
  BY <1>1, LockStep, PathStep, SchedulerStep, DispatchStep, SchedStep, InterruptStep, Zenon
  DEF IntrNext, IntrHalted

LEMMA InitIntr == Matched /\ IntrInit => IntrInv
<1> SUFFICES ASSUME Matched, IntrInit PROVE IntrInv
  BY Zenon
<1>1. IntrTypeOK
  <2>1. FL_IF \in BOOLEAN /\ INT_ENABLED \in BOOLEAN /\ ptable \in BOOLEAN /\ intrPanicked \in BOOLEAN
    BY Zenon DEF IntrInit
  <2> QED
    BY <2>1 DEF IntrInit, IntrTypeOK
<1>2. \A p \in Threads : Suspended(call[p], pos[p])
  BY Zenon DEF IntrInit, Suspended
<1>3. \A p \in Threads : pos[p] <= Len(Script(call[p])) + 1
  <2>1. 1 \in 1..8 /\ "forkret" \in Paths
    BY DEF Paths
  <2>2. Len(Script("forkret")) \in 0..7
    BY <2>1, Places DEF Place
  <2>3. \A p \in Threads : call[p] = "forkret" /\ pos[p] = 1
    BY Zenon DEF IntrInit
  <2>4. 1 <= Len(Script("forkret")) + 1
    BY <2>2
  <2> QED
    BY <2>3, <2>4, Zenon
<1>4. cpu \notin Threads /\ cpu = Scheduler /\ spos # "scan" /\ CLI_DEPTH = 0 /\ ~ptable
  BY DEF IntrInit, Matched, CallsKnown
<1> QED
  BY <1>1, <1>2, <1>3, <1>4 DEF IntrInv

LEMMA IntrMasks == Matched /\ IntrInv => Masking
<1> SUFFICES ASSUME Matched, IntrInv PROVE Masking
  BY Zenon
<1>1. MaskedWhileLocked
  <2> SUFFICES ASSUME ~intrPanicked PROVE MaskedWhileLocked
    BY Zenon DEF MaskedWhileLocked
  <2>1. CLI_DEPTH \in Nat /\ (CLI_DEPTH > 0 => ~FL_IF) /\ cpu \in Threads \cup {Scheduler}
    BY Zenon DEF IntrInv, IntrTypeOK
  <2>2. cpu = Scheduler => CLI_DEPTH = (IF spos = "scan" THEN 1 ELSE 0) /\ (ptable => CLI_DEPTH = 1)
    BY Zenon DEF IntrInv
  <2>3. ASSUME NEW p \in Threads, cpu = p
        PROVE  (ptable => CLI_DEPTH > 0) /\ (call[p] = "user" => CLI_DEPTH = 0)
    <3>1. CLI_DEPTH = Depth(call[p], pos[p]) /\ (ptable <=> InPtable(call[p], pos[p]))
      BY <2>3, Running, Zenon
    <3>2. /\ InPtable(call[p], pos[p]) => Depth(call[p], pos[p]) > 0
          /\ call[p] = "user" => Depth(call[p], pos[p]) = 0
      BY DEF InPtable, Depth, Two, One
    <3> QED
      BY <3>1, <3>2, Zenon
  <2>4. ptable => CLI_DEPTH > 0
    BY <2>1, <2>2, <2>3
  <2> QED
    BY <2>1, <2>2, <2>3, <2>4 DEF MaskedWhileLocked
<1>2. SchedMasked
  <2> SUFFICES ASSUME NEW p \in Threads, Doing(p, SCHED) PROVE ptable /\ CLI_DEPTH = 1 /\ ~FL_IF
    BY Zenon DEF SchedMasked
  <2>1. ~intrPanicked /\ cpu = p /\ pos[p] <= Len(Script(call[p])) /\ Script(call[p])[pos[p]] = SCHED
    BY Zenon DEF Doing
  <2>2. /\ Place(call[p], pos[p]) /\ (ptable <=> InPtable(call[p], pos[p]))
        /\ CLI_DEPTH = Depth(call[p], pos[p]) /\ (CLI_DEPTH > 0 => ~FL_IF)
    BY <2>1, Running, Zenon
  <2>3. Depth(call[p], pos[p]) = 1 /\ InPtable(call[p], pos[p])
    BY <2>1, <2>2, Differ, Zenon DEF Place
  <2>4. 1 > 0
    OBVIOUS
  <2> QED
    BY <2>2, <2>3, <2>4, Zenon
<1> QED
  BY <1>1, <1>2, Zenon DEF Masking

\* On every path but iderw's, for any number of threads: no interrupt handler
\* runs inside a critical section, the nesting count returns to zero, and
\* sched() is entered with ptable.lock alone and interrupts masked.
THEOREM HandlersStayOut ==
  ASSUME Matched PROVE IntrSpec => []Masking
<1>1. IntrInit => IntrInv
  BY InitIntr
<1>2. IntrInv /\ [IntrNext]_intrVars => IntrInv'
  BY NextIntr
<1>3. IntrInv => Masking
  BY IntrMasks
<1> QED
  BY <1>1, <1>2, <1>3, PTL DEF IntrSpec

-----------------------------------------------------------------------------
\* The five words that iretq pops.
Iret == <<"rip", "cs", "rflags", "rsp", "ss">>

\* The order in which trapret pops, alltraps pushes and iretq pops is that of
\* struct trapframe.
LEMMA Tables ==
  /\ Len(trapframe) = 22 /\ Len(TrapRet) = 15 /\ Len(AllTraps) = 15
  /\ \A i \in 1..15 : TrapRet[i] = trapframe[i] /\ AllTraps[16 - i] = trapframe[i]
  /\ \A i \in 1..5 : Iret[i] = trapframe[17 + i]
<1>1. Len(trapframe) = 22 /\ Len(TrapRet) = 15 /\ Len(AllTraps) = 15
  BY DEF trapframe, TrapRet, AllTraps
<1>2. \A i \in 1..15 : TrapRet[i] = trapframe[i]
  BY DEF trapframe, TrapRet
<1>3. \A i \in 1..15 : AllTraps[16 - i] = trapframe[i]
  BY DEF trapframe, AllTraps
<1>4. \A i \in 1..5 : Iret[i] = trapframe[17 + i]
  BY DEF trapframe, Iret
<1> QED
  BY <1>1, <1>2, <1>3, <1>4

LEMMA TableTurned == \A i \in 1..15 : AllTraps[15 + 1 - i] = trapframe[i]
<1>1. \A i \in 1..15 : 15 + 1 - i = 16 - i
  OBVIOUS
<1> QED
  BY <1>1, Tables, Zenon

\* No register is twice in the trapframe.
LEMMA Injective ==
  /\ \A i, j \in 1..22 : trapframe[i] = trapframe[j] => i = j
<1>1. \A i, j \in 1..22 : trapframe[i] = trapframe[j] => i = j
  BY DEF trapframe
<1> QED
  BY <1>1, Zenon

\* The stack q is t with the words of a, or with the registers names, on top.
Joined(q, a, t) ==
  /\ Len(q) = Len(a) + Len(t)
  /\ \A i \in 1..Len(a) : q[i] = a[i]
  /\ \A k \in 1..Len(t) : q[Len(a) + k] = t[k]
OnTop(q, names, r, s) ==
  /\ Len(q) = Len(names) + Len(s)
  /\ \A i \in 1..Len(names) : q[i] = r[names[Len(names) + 1 - i]]
  /\ \A k \in 1..Len(s) : q[Len(names) + k] = s[k]

\* A concatenation, word by word.
LEMMA Concat ==
  ASSUME NEW S, NEW s \in Seq(S), NEW t \in Seq(S)
  PROVE  s \o t \in Seq(S) /\ Joined(s \o t, s, t)
<1>1. s \o t \in Seq(S) /\ Len(s \o t) = Len(s) + Len(t)
  OBVIOUS
<1>2. \A i \in 1..Len(s) : (s \o t)[i] = s[i]
  OBVIOUS
<1>3. \A k \in 1..Len(t) : (s \o t)[Len(s) + k] = t[k]
  OBVIOUS
<1> QED
  BY <1>1, <1>2, <1>3, Zenon DEF Joined

\* What a row of pushes leaves on the stack.
LEMMA Pushed ==
  ASSUME NEW S, NEW N, NEW names \in Seq(N), NEW r, NEW s \in Seq(S),
         \A i \in 1..Len(names) : r[names[i]] \in S
  PROVE  Push(names, r, s) \in Seq(S) /\ OnTop(Push(names, r, s), names, r, s)
<1> DEFINE q == [i \in 1..Len(names) |-> r[names[Len(names) + 1 - i]]]
<1>1. \A i \in 1..Len(names) : Len(names) + 1 - i \in 1..Len(names)
  OBVIOUS
<1>2. q \in Seq(S) /\ Len(q) = Len(names)
  BY <1>1
<1>3. \A i \in 1..Len(names) : q[i] = r[names[Len(names) + 1 - i]]
  OBVIOUS
<1> HIDE DEF q
<1>4. Push(names, r, s) = q \o s
  BY DEF Push, q
<1>5. q \o s \in Seq(S) /\ Joined(q \o s, q, s)
  BY <1>2, Concat
<1> QED
  BY <1>2, <1>3, <1>4, <1>5, Zenon DEF Joined, OnTop

\* The registers q are r with the uppermost words of s in those of names.
OffTop(q, names, r, s) ==
  /\ q = [x \in Regs |-> q[x]]
  /\ \A i \in 1..Len(names) : q[names[i]] = s[i]
  /\ \A x \in Regs : x \notin Range(names) => q[x] = r[x]
Distinct(names) == \A i, j \in 1..Len(names) : names[i] = names[j] => i = j

\* What a row of pops leaves in the registers.
LEMMA PoppedReg ==
  ASSUME NEW names \in Seq(Regs), NEW r, NEW s, Distinct(names)
  PROVE  OffTop(Pop(names, r, s), names, r, s)
<1>1. ASSUME NEW i \in 1..Len(names)
      PROVE  Pop(names, r, s)[names[i]] = s[i]
  <2>1. names[i] \in Range(names) /\ names[i] \in Regs
    BY DEF Range
  <2>2. (CHOOSE j \in 1..Len(names) : names[j] = names[i]) = i
    BY DEF Distinct
  <2> QED
    BY <2>1, <2>2, Zenon DEF Pop
<1>2. \A x \in Regs : x \notin Range(names) => Pop(names, r, s)[x] = r[x]
  BY Zenon DEF Pop
<1>3. Pop(names, r, s) = [x \in Regs |-> Pop(names, r, s)[x]]
  BY DEF Pop
<1> QED
  BY <1>1, <1>2, <1>3, Zenon DEF OffTop

\* The registers are the fields of the trapframe but trapno and err.
LEMMA RegNames ==
  /\ GPRs = {trapframe[i] : i \in 1..15}
  /\ \A x \in Regs : \E i \in 1..22 : i \notin {16, 17} /\ x = trapframe[i]
  /\ \A i \in 1..22 : i \notin {16, 17} => trapframe[i] \in Regs
  /\ CalleeSaved \subseteq GPRs
<1>1. GPRs = {trapframe[i] : i \in 1..15}
  <2>1. DOMAIN AllTraps = 1..15
    BY DEF AllTraps
  <2>2. \A i \in 1..15 : 16 - i \in 1..15 /\ AllTraps[i] = trapframe[16 - i] /\ AllTraps[16 - i] = trapframe[i]
    BY DEF AllTraps, trapframe
  <2> QED
    BY <2>1, <2>2 DEF GPRs, Range
<1>2. \A x \in Regs : \E i \in 1..22 : i \notin {16, 17} /\ x = trapframe[i]
  <2>1. /\ trapframe[18] = "rip" /\ trapframe[19] = "cs" /\ trapframe[20] = "rflags"
        /\ trapframe[21] = "rsp" /\ trapframe[22] = "ss"
    BY DEF trapframe
  <2>2. \A x \in Regs : x \in GPRs \/ \E i \in 18..22 : x = trapframe[i]
    BY <2>1 DEF Regs
  <2> QED
    BY <1>1, <2>2
<1>3. \A i \in 1..22 : i \notin {16, 17} => trapframe[i] \in Regs
  BY <1>1 DEF Regs, trapframe
<1>4. CalleeSaved \subseteq GPRs
  BY <1>1 DEF CalleeSaved, trapframe
<1> QED
  BY <1>1, <1>2, <1>3, <1>4, Zenon

\* trapret and iretq pop different registers, each once.
LEMMA NamesDistinct ==
  /\ TrapRet \in Seq(Regs) /\ Distinct(TrapRet)
  /\ Iret \in Seq(Regs) /\ Len(Iret) = 5 /\ Distinct(Iret)
  /\ \A i \in 1..15 : trapframe[i] \notin Range(Iret) /\ trapframe[i] \in Regs
<1>1. \A i \in 1..15 : trapframe[i] \in Regs
  BY RegNames
<1>2. TrapRet \in Seq(Regs)
  <2>1. \A i \in 1..15 : TrapRet[i] \in Regs
    BY <1>1, Tables
  <2> QED
    BY <2>1 DEF TrapRet
<1>3. Iret \in Seq(Regs) /\ Len(Iret) = 5 /\ DOMAIN Iret = 1..5
  BY DEF Iret, Regs
<1>4. Distinct(TrapRet)
  BY Tables, Injective DEF Distinct
<1>5. Distinct(Iret)
  <2>1. \A i, j \in 1..5 : Iret[i] = Iret[j] => i = j
    BY DEF Iret
  <2> QED
    BY <1>3, <2>1, Zenon DEF Distinct
<1>6. \A i \in 1..15, j \in 1..5 : trapframe[i] # Iret[j]
  BY Tables, Injective
<1>7. \A i \in 1..15 : trapframe[i] \notin Range(Iret)
  BY <1>3, <1>6, Zenon DEF Range
<1> QED
  BY <1>1, <1>2, <1>3, <1>4, <1>5, <1>7, Zenon

-----------------------------------------------------------------------------
Kinds == {"zero", "pc", "user", "kernel", "trap", "result", "image", "init"}
Names == Regs \cup {"zero", "trapno", "err", "sched", "forkret", "syscall_trapret"}
Words == Kinds \X Names \X Nat

\* Field i of the n-th frame from the bottom of a stack.
Field(s, n, i) == s[Len(s) - 22 * n + i]

\* The frame at the bottom of the stack s, the first of the entries e, is that
\* of a system call and has the program's state w, where sysretq makes rip and
\* rflags of rcx and r11.
Bottom(s, e, w) ==
  /\ e[1] = SYSCALL
  /\ \A i \in (1..15) \cup {21} : Field(s, 1, i) = w[trapframe[i]]
  /\ w["rip"] = w["rcx"] /\ w["rflags"] = w["r11"]

\* The n-th frame holds the registers that the code of the kernel it
\* interrupted must find again.
Above(p, s, n) ==
  \A i \in 1..15 : trapframe[i] \in CalleeSaved => Field(s, n, i) = Kernel(p, n - 1)[trapframe[i]]

\* The frames on the stack s of p.
Frames(p, s, e, w) ==
  /\ Len(e) > 0 => Bottom(s, e, w)
  /\ \A n \in 2..Len(e) : e[n] # SYSCALL /\ Above(p, s, n)
  /\ w["cs"] = Selector("cs") /\ w["ss"] = Selector("ss")

\* What swtch left on top of the stack s: the registers of code of the kernel
\* for p at nesting n, or what allocproc wrote.
Saved(p, s, n) ==
  /\ Len(s) >= 8
  /\ \/ s[8] = Pc("syscall_trapret") /\ p # 0
     \/ /\ s[8] = Pc("sched")
        /\ \A i \in 1..7 : SwtchPop[i] \in CalleeSaved => s[i] = Kernel(p, n)[SwtchPop[i]]

SwType ==
  /\ regs \in [Regs -> Words]
  /\ stack \in [Procs \cup {0} -> Seq(Words)]
  /\ alive \subseteq Procs /\ cur \in alive \cup {0}
  /\ at \in {"user", "kernel", "sysret", "scheduler"}
  /\ entry \in [Procs -> Seq(Nat)]
  /\ want \in [Procs -> [Regs -> Words]]

SwInv ==
  /\ SwType
  /\ \A p \in alive : Frames(p, stack[p], entry[p], want[p])
  /\ \A p \in alive \ {cur} : /\ entry[p] = <<SYSCALL>>
                              /\ Len(stack[p]) = 30 /\ Saved(p, stack[p], 1)
  /\ IF cur = 0 THEN stack[0] = <<>>
     ELSE /\ Len(stack[0]) = 8 /\ Saved(0, stack[0], 0)
          /\ Len(stack[cur]) = 22 * Len(entry[cur])
  /\ at = "scheduler" <=> cur = 0
  /\ at = "user"   => entry[cur] = <<>> /\ regs = want[cur]
  /\ at = "sysret" => entry[cur] = <<SYSCALL>>
  /\ at = "kernel" => entry[cur] # <<>>
  /\ SwitchPreserves

-----------------------------------------------------------------------------
\* Stacks with the same fields have the same frames.
LEMMA FramesKept ==
  ASSUME NEW p, NEW s, NEW t, NEW e \in Seq(Nat), NEW w, Frames(p, s, e, w),
         \A n \in 1..Len(e) : \A i \in 1..22 : Field(t, n, i) = Field(s, n, i)
  PROVE  Frames(p, t, e, w)
<1>1. Len(e) > 0 => 1 \in 1..Len(e)
  OBVIOUS
<1>2. Len(e) > 0 => \A i \in 1..22 : Field(t, 1, i) = Field(s, 1, i)
  BY <1>1, Zenon
<1>3. \A i \in (1..15) \cup {21} : i \in 1..22
  OBVIOUS
<1>4. Len(e) > 0 => Bottom(t, e, w)
  BY <1>2, <1>3, Zenon DEF Frames, Bottom
<1>5. \A n \in 2..Len(e) : n \in 1..Len(e)
  OBVIOUS
<1>6. ASSUME NEW n \in 2..Len(e) PROVE Above(p, t, n)
  <2>1. Above(p, s, n) /\ \A i \in 1..15 : Field(t, n, i) = Field(s, n, i)
    BY <1>3, <1>5, Zenon DEF Frames
  <2> QED
    BY <2>1, Zenon DEF Above
<1> QED
  BY <1>4, <1>6, Zenon DEF Frames

\* The words that the code writes are words.
LEMMA WordsAre ==
  /\ Zero \in Words
  /\ \A x \in Names : Pc(x) \in Words /\ Selector(x) \in Words
  /\ \A k \in Kinds, x \in Names, n \in Nat : Word(k, x, n) \in Words
<1>1. \A k \in Kinds, x \in Names, n \in Nat : Word(k, x, n) \in Words
  BY Zenon DEF Word, Words
<1>2. 0 \in Nat
  OBVIOUS
<1>3. Zero \in Words
  BY <1>1, <1>2, Zenon DEF Zero, Kinds, Names
<1>4. \A x \in Names : Pc(x) \in Words /\ Selector(x) \in Words
  BY <1>1, <1>2, Zenon DEF Pc, Selector, Kinds
<1> QED
  BY <1>1, <1>3, <1>4, Zenon

\* The stack after an interrupt: the processor's words, those of the vector,
\* alltraps.
OnTrap(v, r, s) ==
  LET hw == Push(<<"ss", "rsp", "rflags", "cs", "rip">>, r, s)
  IN Push(AllTraps, r, VectorWords(v) \o hw)

\* What an interrupt pushes, field by field: the processor's part, the vector's and
\* alltraps'.
LEMMA TrapPushes ==
  ASSUME NEW v \in Nat, NEW r \in [Regs -> Words], NEW s \in Seq(Words)
  PROVE  /\ OnTrap(v, r, s) \in Seq(Words) /\ Len(OnTrap(v, r, s)) = 22 + Len(s)
         /\ \A i \in 1..15 : OnTrap(v, r, s)[i] = r[trapframe[i]]
         /\ \A k \in 1..Len(s) : OnTrap(v, r, s)[22 + k] = s[k]
<1> DEFINE five == <<"ss", "rsp", "rflags", "cs", "rip">>
           hw   == Push(five, r, s)
           top  == VectorWords(v)
           m    == top \o hw
<1>0. five \in Seq(Regs) /\ Len(five) = 5
  BY DEF Regs
<1>2. \A i \in 1..5 : r[five[i]] \in Words
  <2>1. \A i \in 1..5 : five[i] \in Regs
    BY DEF Regs
  <2> QED
    BY <2>1
<1> HIDE DEF five
<1>3. hw \in Seq(Words) /\ OnTop(hw, five, r, s)
  BY <1>0, <1>2, Pushed, Zenon
<1>5. Len(hw) = 5 + Len(s) /\ \A k \in 1..Len(s) : hw[5 + k] = s[k]
  BY <1>0, <1>3, Zenon DEF OnTop
<1>6. top \in Seq(Words) /\ Len(top) = 2
  <2>1. Word("trap", "trapno", v) \in Words /\ Zero \in Words
    BY WordsAre, Zenon DEF Kinds, Names
  <2> QED
    BY <2>1 DEF VectorWords
<1> HIDE DEF hw, top
<1>7. m \in Seq(Words) /\ Joined(m, top, hw)
  BY <1>3, <1>6, Concat, Zenon
<1>8. Len(m) = 2 + Len(hw)
  BY <1>6, <1>7, Zenon DEF Joined
<1>9. \A i \in 1..Len(hw) : m[2 + i] = hw[i]
  BY <1>6, <1>7, Zenon DEF Joined
<1> HIDE DEF m
<1>10. AllTraps \in Seq(Regs) /\ \A i \in 1..15 : r[AllTraps[i]] \in Words
  <2>1. \A i \in 1..15 : AllTraps[i] \in Regs
    BY DEF AllTraps, GPRs, Regs, Range
  <2>2. AllTraps \in Seq(Regs)
    BY <2>1 DEF AllTraps
  <2> QED
    BY <2>1, <2>2, Zenon
<1> DEFINE q == Push(AllTraps, r, m)
<1>11. OnTrap(v, r, s) = q
  BY DEF OnTrap, m, top, hw, five
<1>12. q \in Seq(Words) /\ OnTop(q, AllTraps, r, m)
  BY <1>7, <1>10, Pushed, Tables, Zenon
<1>13. \A i \in 1..15 : q[i] = r[AllTraps[15 + 1 - i]]
  BY <1>12, Tables, Zenon DEF OnTop
<1>14. Len(q) = 15 + Len(m) /\ \A k \in 1..Len(m) : q[15 + k] = m[k]
  BY <1>12, Tables, Zenon DEF OnTop
<1>15. Len(s) \in Nat /\ Len(hw) = 5 + Len(s) /\ Len(m) = 7 + Len(s)
  BY <1>5, <1>8
<1> HIDE DEF q
<1>16. \A i \in 1..15 : q[i] = r[trapframe[i]]
  <2>1. \A i \in 1..15 : AllTraps[15 + 1 - i] = trapframe[i]
    BY TableTurned, Zenon
  <2> QED
    BY <1>13, <2>1, Zenon
<1>19. \A k \in 1..Len(s) : q[22 + k] = s[k]
  <2> TAKE k \in 1..Len(s)
  <2>1. 7 + k \in 1..Len(m) /\ 5 + k \in 1..Len(hw)
    BY <1>15
  <2>2. q[15 + (7 + k)] = m[7 + k] /\ m[2 + (5 + k)] = hw[5 + k] /\ hw[5 + k] = s[k]
    BY <1>5, <1>9, <1>14, <2>1, Zenon
  <2>3. 22 + k = 15 + (7 + k) /\ 7 + k = 2 + (5 + k)
    BY <1>15
  <2> QED
    BY <2>2, <2>3, Zenon
<1>20. Len(q) = 22 + Len(s)
  BY <1>14, <1>15
<1> QED
  BY <1>11, <1>12, <1>16, <1>19, <1>20, Zenon

\* An interrupt puts its frame above those there were, which stay.
LEMMA TrapFrames ==
  ASSUME NEW p, NEW v \in Nat, v # SYSCALL, NEW r \in [Regs -> Words], NEW s \in Seq(Words),
         NEW e \in Seq(Nat), NEW w, Len(s) = 22 * Len(e), Frames(p, s, e, w),
         Len(e) > 0, \A x \in CalleeSaved : r[x] = Kernel(p, Len(e))[x]
  PROVE  Frames(p, OnTrap(v, r, s), Append(e, v), w)
<1> DEFINE q  == OnTrap(v, r, s)
           d  == Len(e)
           e2 == Append(e, v)
<1>1. Len(e2) = d + 1 /\ e2[d + 1] = v /\ d \in Nat
  OBVIOUS
<1>2. \A n \in 1..d : e2[n] = e[n]
  OBVIOUS
<1>3. Len(q) = 22 + Len(s)
  BY TrapPushes, Zenon
<1>4. \A i \in 1..15 : q[i] = r[trapframe[i]]
  BY TrapPushes, Zenon
<1>5. \A k \in 1..Len(s) : q[22 + k] = s[k]
  BY TrapPushes, Zenon
<1> HIDE DEF q, e2
<1>6. ASSUME NEW n \in 1..d, NEW i \in 1..22 PROVE Field(q, n, i) = Field(s, n, i)
  <2> DEFINE k == Len(s) - 22 * n + i
  <2>1. k \in 1..Len(s) /\ Len(q) - 22 * n + i = 22 + k
    BY <1>3
  <2> HIDE DEF k
  <2>2. q[22 + k] = s[k]
    BY <1>5, <2>1, Zenon
  <2> QED
    BY <2>1, <2>2, Zenon DEF Field, k
<1>7. \A i \in 1..22 : Field(q, d + 1, i) = q[i]
  <2>1. \A i \in 1..22 : Len(q) - 22 * (d + 1) + i = i
    BY <1>1, <1>3
  <2> QED
    BY <2>1, Zenon DEF Field
<1>8. Frames(p, q, e, w)
  BY <1>6, FramesKept
<1>9. Bottom(q, e2, w)
  <2>1. e2[1] = e[1]
    BY <1>2
  <2> QED
    BY <1>8, <2>1, Zenon DEF Frames, Bottom
<1>10. ASSUME NEW n \in 2..Len(e2) PROVE e2[n] # SYSCALL /\ Above(p, q, n)
  <2>1. CASE n \in 2..d
    <3>1. n \in 1..d
      BY <2>1
    <3> QED
      BY <1>2, <1>8, <2>1, <3>1, Zenon DEF Frames
  <2>2. CASE n = d + 1 /\ d > 0
    <3>1. \A i \in 1..15 : Field(q, n, i) = r[trapframe[i]]
      <4>1. \A i \in 1..15 : i \in 1..22
        OBVIOUS
      <4> QED
        BY <1>4, <1>7, <2>2, <4>1, Zenon
    <3>2. n - 1 = d
      BY <1>1, <2>2
    <3>3. Above(p, q, n)
      BY <2>2, <3>1, <3>2, Zenon DEF Above
    <3> QED
      BY <1>1, <2>2, <3>3, Zenon
  <2>3. n \in 2..d \/ (n = d + 1 /\ d > 0)
    BY <1>1
  <2> QED
    BY <2>1, <2>2, <2>3, Zenon
<1> QED
  BY <1>8, <1>9, <1>10, Zenon DEF Frames, q, e2

\* What is left of the stack s without its n uppermost words.
Below(t, s, n) == Len(t) = Len(s) - n /\ \A k \in 1..Len(t) : t[k] = s[n + k]

\* What is left of a stack when n words are popped.
LEMMA Dropped ==
  ASSUME NEW S, NEW s \in Seq(S), NEW n \in 0..Len(s)
  PROVE  Drop(s, n) \in Seq(S) /\ Below(Drop(s, n), s, n)
<1>1. Drop(s, n) \in Seq(S) /\ Len(Drop(s, n)) = Len(s) - n
  BY DEF Drop
<1>2. ASSUME NEW k \in 1..(Len(s) - n) PROVE Drop(s, n)[k] = s[n + k]
  BY DEF Drop
<1> QED
  BY <1>1, <1>2 DEF Below

\* The registers, and the stack, after trapret and iretq.
Unframed(r, s) == Pop(Iret, Pop(TrapRet, r, s), Drop(s, 17))
Rest(s)        == Drop(Drop(s, 17), 5)

\* What trapret and iretq pop, from the topmost frame.
LEMMA TrapPops ==
  ASSUME NEW r \in [Regs -> Words], NEW s \in Seq(Words), Len(s) >= 22
  PROVE  /\ Unframed(r, s) \in [Regs -> Words]
         /\ \A i \in 1..22 : i \notin {16, 17} => Unframed(r, s)[trapframe[i]] = s[i]
<1> DEFINE r1 == Pop(TrapRet, r, s)
           s1 == Drop(s, 17)
           q  == Pop(Iret, r1, s1)
<1>1. Len(s) \in Nat /\ Below(s1, s, 17)
  BY Dropped
<1>2. \A i \in 1..5 : s1[i] = s[17 + i]
  <2>1. \A i \in 1..5 : i \in 1..Len(s1)
    BY <1>1 DEF Below
  <2> QED
    BY <1>1, <2>1, Zenon DEF Below
<1> HIDE DEF s1
<1>3. OffTop(r1, TrapRet, r, s) /\ OffTop(q, Iret, r1, s1)
  BY NamesDistinct, PoppedReg, Zenon
<1> HIDE DEF r1, q
<1>4. ASSUME NEW i \in 1..22, i \notin {16, 17} PROVE q[trapframe[i]] = s[i]
  <2>1. CASE i \in 1..15
    <3>1. q[trapframe[i]] = r1[trapframe[i]]
      BY <1>3, <2>1, NamesDistinct, Zenon DEF OffTop
    <3>2. trapframe[i] = TrapRet[i] /\ i \in 1..Len(TrapRet)
      BY <2>1, Tables, Zenon
    <3> QED
      BY <1>3, <3>1, <3>2, Zenon DEF OffTop
  <2>2. CASE i - 17 \in 1..5
    <3>1. 17 + (i - 17) = i
      OBVIOUS
    <3>2. trapframe[i] = Iret[i - 17] /\ i - 17 \in 1..Len(Iret)
      BY <2>2, <3>1, Tables, NamesDistinct, ZenonT(40)
    <3> DEFINE j == i - 17
    <3> HIDE DEF j
    <3>4. trapframe[i] = Iret[j] /\ j \in 1..Len(Iret) /\ j \in 1..5
      BY <2>2, <3>2, Zenon DEF j
    <3>5. q[Iret[j]] = s1[j]
      BY <1>3, <3>4, Zenon DEF OffTop
    <3>6. s1[j] = s[17 + j]
      BY <1>2, <3>4, Zenon
    <3>3. q[trapframe[i]] = s1[i - 17] /\ s1[i - 17] = s[17 + (i - 17)]
      BY <3>4, <3>5, <3>6, Zenon DEF j
    <3> QED
      BY <3>1, <3>3, Zenon
  <2>3. i \in 1..15 \/ i - 17 \in 1..5
    BY <1>4
  <2> QED
    BY <2>1, <2>2, <2>3, Zenon
<1>5. q \in [Regs -> Words]
  <2>1. \A i \in 1..22 : s[i] \in Words
    BY <1>1
  <2>2. ASSUME NEW x \in Regs PROVE q[x] \in Words
    <3>1. PICK i \in 1..22 : i \notin {16, 17} /\ x = trapframe[i]
      BY RegNames, Zenon
    <3> QED
      BY <1>4, <2>1, <3>1, Zenon
  <2>3. q = [x \in Regs |-> q[x]]
    BY <1>3, Zenon DEF OffTop
  <2>4. [x \in Regs |-> q[x]] \in [Regs -> Words]
    BY <2>2, Zenon
  <2> QED
    BY <2>3, <2>4, Zenon
<1> QED
  BY <1>4, <1>5, Zenon DEF Unframed, s1, r1, q

\* The entries without the last one.
LEMMA FrontIs ==
  ASSUME NEW S, NEW e \in Seq(S), Len(e) > 0
  PROVE  SubSeq(e, 1, Len(e) - 1) \in Seq(S) /\ Len(SubSeq(e, 1, Len(e) - 1)) = Len(e) - 1
<1>1. Len(e) - 1 \in Nat /\ Len(e) - 1 <= Len(e)
  OBVIOUS
<1>2. ASSUME NEW m \in Nat, m <= Len(e) PROVE SubSeq(e, 1, m) \in Seq(S) /\ Len(SubSeq(e, 1, m)) = m
  <2>1. Len(SubSeq(e, 1, m)) = m
    BY <1>2
  <2>2. SubSeq(e, 1, m) \in Seq(S)
    BY <1>2
  <2> QED
    BY <2>1, <2>2
<1> QED
  BY <1>1, <1>2, Zenon

\* The frames below the topmost one stay when it is popped.
LEMMA FrontKeeps ==
  ASSUME NEW S, NEW e \in Seq(S), NEW n \in 1..(Len(e) - 1)
  PROVE  SubSeq(e, 1, Len(e) - 1)[n] = e[n]
  OBVIOUS

\* The registers r have what code of the kernel for p at nesting n left there.
Restored(r, p, n) == \A x \in CalleeSaved : r[x] = Kernel(p, n)[x]

\* What trapret does for p with the registers r, stack s, entries e, and state
\* w of the program.
TrapretSound(p, r, s, e, w) ==
  /\ Rest(s) \in Seq(Words) /\ Len(Rest(s)) = 22 * (Len(e) - 1)
  /\ Frames(p, Rest(s), SubSeq(e, 1, Len(e) - 1), w)
  /\ Len(e) > 1 /\ Restored(Unframed(r, s), p, Len(e) - 1)

LEMMA OneOrMore == \A n \in Nat : n > 0 /\ n # 1 => n > 1
  OBVIOUS

\* trapret gives the registers of the topmost frame to the one it interrupted.
LEMMA TrapretFrames ==
  ASSUME NEW p, NEW r \in [Regs -> Words], NEW s \in Seq(Words), NEW e \in Seq(Nat),
         NEW w \in [Regs -> Words], Len(e) > 0, Len(s) = 22 * Len(e), Frames(p, s, e, w),
         e[Len(e)] # SYSCALL
  PROVE  TrapretSound(p, r, s, e, w)
<1> DEFINE d  == Len(e)
           e2 == SubSeq(e, 1, d - 1)
           s1 == Drop(s, 17)
           t  == Drop(s1, 5)
           q  == Unframed(r, s)
<1>0. d \in Nat /\ Len(s) \in Nat
  OBVIOUS
<1>1. e2 \in Seq(Nat) /\ Len(e2) = d - 1 /\ d \in Nat /\ Len(s) \in Nat /\ Len(s) >= 22
  <2>1. e2 \in Seq(Nat) /\ Len(e2) = d - 1
    BY FrontIs, Zenon
  <2>2. Len(s) >= 22
    BY <1>0
  <2> QED
    BY <1>0, <2>1, <2>2, Zenon
<1>2. \A n \in 1..(d - 1) : e2[n] = e[n]
  BY FrontKeeps, Zenon
<1>3. s1 \in Seq(Words) /\ Below(s1, s, 17)
  BY Dropped
<1> HIDE DEF s1
<1>4. t \in Seq(Words) /\ Below(t, s1, 5)
  <2>1. 5 \in 0..Len(s1)
    BY <1>1, <1>3 DEF Below
  <2> QED
    BY <1>3, <2>1, Dropped, Zenon
<1> HIDE DEF t, e2, q
<1>5. Len(t) = Len(s) - 22 /\ Len(t) = 22 * (d - 1)
  BY <1>1, <1>3, <1>4 DEF Below
<1>6. \A k \in 1..Len(t) : t[k] = s[22 + k]
  <2> TAKE k \in 1..Len(t)
  <2>1. 5 + k \in 1..Len(s1)
    BY <1>1, <1>3, <1>5 DEF Below
  <2>2. t[k] = s1[5 + k] /\ s1[5 + k] = s[17 + (5 + k)]
    BY <1>3, <1>4, <2>1, Zenon DEF Below
  <2>3. 17 + (5 + k) = 22 + k
    OBVIOUS
  <2> QED
    BY <2>2, <2>3, Zenon
<1>7. Frames(p, t, e2, w)
  <2>1. ASSUME NEW n \in 1..Len(e2), NEW i \in 1..22 PROVE Field(t, n, i) = Field(s, n, i)
    <3> DEFINE k == Len(t) - 22 * n + i
    <3>1. k \in 1..Len(t) /\ Len(s) - 22 * n + i = 22 + k
      BY <1>1, <1>5, SMTT(30)
    <3> HIDE DEF k
    <3>2. t[k] = s[22 + k]
      BY <1>6, <3>1, Zenon
    <3> QED
      BY <3>1, <3>2, Zenon DEF Field, k
  <2>2. (Len(e2) > 0 => e2[1] = e[1]) /\ \A n \in 2..Len(e2) : e2[n] = e[n] /\ n \in 2..Len(e)
    BY <1>1, <1>2
  <2>3. Frames(p, s, e2, w)
    BY <2>2, Zenon DEF Frames, Bottom
  <2> QED
    BY <1>1, <2>1, <2>3, FramesKept, Zenon
<1>8. \A i \in 1..22 : i \notin {16, 17} => q[trapframe[i]] = s[i]
  BY <1>1, TrapPops, Zenon DEF q
<1>9. \A i \in 1..22 : Field(s, d, i) = s[i]
  <2>1. \A i \in 1..22 : Len(s) - 22 * d + i = i
    BY <1>1
  <2> QED
    BY <2>1, Zenon DEF Field
<1>10. q \in [Regs -> Words]
  BY <1>1, TrapPops, Zenon DEF q
<1>11. d > 1
  <2>1. Bottom(s, e, w)
    BY Zenon DEF Frames
  <2>2. e[1] = SYSCALL
    BY <2>1, Zenon DEF Bottom
  <2>3. d # 1
    BY <2>2, Zenon
  <2> QED
    BY <1>0, <2>3, OneOrMore, Zenon
<1>12. ASSUME NEW x \in CalleeSaved PROVE q[x] = Kernel(p, d - 1)[x]
  <2>1. PICK i \in 1..15 : x = trapframe[i]
    BY RegNames
  <2>2. q[x] = Field(s, d, i)
    <3>1. i \in 1..22 /\ i \notin {16, 17}
      OBVIOUS
    <3> QED
      BY <1>8, <1>9, <2>1, <3>1, Zenon
  <2>3. d \in 2..Len(e)
    BY <1>1, <1>11
  <2>4. Above(p, s, d)
    BY <2>3, Zenon DEF Frames
  <2> QED
    BY <2>1, <2>2, <2>4, Zenon DEF Above
<1>13. Restored(q, p, Len(e) - 1)
  BY <1>12, Zenon DEF Restored
<1> QED
  BY <1>4, <1>5, <1>7, <1>11, <1>13, Zenon DEF TrapretSound, Rest, t, s1, e2, q

\* The stack that syscall_entry builds from the registers r.
OnSyscall(r) == Push(AllTraps, r, <<Zero, Zero, r["rcx"], Zero, r["r11"], r["rsp"], Zero>>)

\* One entry, by a system call.
LEMMA OneEntry == <<SYSCALL>> \in Seq(Nat) /\ Len(<<SYSCALL>>) = 1 /\ <<SYSCALL>>[1] = SYSCALL
  BY DEF SYSCALL

\* One frame, of a system call.
CallFrame(s, w) ==
  /\ \A i \in (1..15) \cup {21} : Field(s, 1, i) = w[trapframe[i]]
  /\ w["rip"] = w["rcx"] /\ w["rflags"] = w["r11"]
  /\ w["cs"] = Selector("cs") /\ w["ss"] = Selector("ss")

\* With one entry, by a system call, there is one frame.
LEMMA OneFrame ==
  ASSUME NEW p, NEW s, NEW w
  PROVE  Frames(p, s, <<SYSCALL>>, w) <=> CallFrame(s, w)
<1>1. Bottom(s, <<SYSCALL>>, w) <=> /\ \A i \in (1..15) \cup {21} : Field(s, 1, i) = w[trapframe[i]]
                                    /\ w["rip"] = w["rcx"] /\ w["rflags"] = w["r11"]
  BY OneEntry, Zenon DEF Bottom
<1>2. 2..Len(<<SYSCALL>>) = {} /\ Len(<<SYSCALL>>) > 0
  BY OneEntry
<1> QED
  BY <1>1, <1>2, Zenon DEF Frames, CallFrame

\* The fields of a stack with one frame are its words.
LEMMA FieldsOf22 ==
  ASSUME NEW s, Len(s) = 22
  PROVE  \A i \in 1..22 : Field(s, 1, i) = s[i]
<1>1. \A i \in 1..22 : Len(s) - 22 * 1 + i = i
  OBVIOUS
<1> QED
  BY <1>1, Zenon DEF Field

\* syscall_entry pushes a frame with the program's registers.
LEMMA SyscallFrames ==
  ASSUME NEW p, NEW r \in [Regs -> Words], r["rip"] = r["rcx"], r["rflags"] = r["r11"],
         r["cs"] = Selector("cs"), r["ss"] = Selector("ss")
  PROVE  /\ OnSyscall(r) \in Seq(Words) /\ Len(OnSyscall(r)) = 22
         /\ Frames(p, OnSyscall(r), <<SYSCALL>>, r)
<1> DEFINE m == <<Zero, Zero, r["rcx"], Zero, r["r11"], r["rsp"], Zero>>
           q == OnSyscall(r)
<1>1. m \in Seq(Words) /\ Len(m) = 7 /\ m[6] = r["rsp"]
  <2>1. r["rcx"] \in Words /\ r["r11"] \in Words /\ r["rsp"] \in Words /\ Zero \in Words
    <3>1. "rcx" \in Regs /\ "r11" \in Regs /\ "rsp" \in Regs
      BY DEF Regs, GPRs, Range, AllTraps
    <3> QED
      BY <3>1, WordsAre, Zenon
  <2> QED
    BY <2>1
<1> HIDE DEF m
<1>2. AllTraps \in Seq(Regs) /\ \A i \in 1..15 : r[AllTraps[i]] \in Words
  <2>1. \A i \in 1..15 : AllTraps[i] \in Regs
    BY DEF AllTraps, GPRs, Regs, Range
  <2>2. AllTraps \in Seq(Regs)
    BY <2>1 DEF AllTraps
  <2> QED
    BY <2>1, <2>2, Zenon
<1>3. q \in Seq(Words) /\ OnTop(q, AllTraps, r, m)
  BY <1>1, <1>2, Pushed, Tables, Zenon DEF OnSyscall, m
<1> HIDE DEF q
<1>4. Len(q) = 15 + 7 /\ \A i \in 1..15 : q[i] = r[AllTraps[15 + 1 - i]]
  BY <1>1, <1>3, Tables, ZenonT(40) DEF OnTop
<1>5. \A k \in 1..7 : q[15 + k] = m[k]
  BY <1>1, <1>3, Tables, Zenon DEF OnTop
<1>6. \A i \in 1..15 : q[i] = r[trapframe[i]]
  <2>1. \A i \in 1..15 : AllTraps[15 + 1 - i] = trapframe[i]
    BY TableTurned, Zenon
  <2> QED
    BY <1>4, <2>1, Zenon
<1>7. q[21] = r[trapframe[21]]
  <2>1. trapframe[21] = "rsp" /\ 15 + 6 = 21 /\ 6 \in 1..7
    BY DEF trapframe
  <2> QED
    BY <1>1, <1>5, <2>1, Zenon
<1>8. Len(q) = 22
  BY <1>4
<1>9. \A i \in (1..15) \cup {21} : Field(q, 1, i) = r[trapframe[i]]
  <2>1. \A i \in (1..15) \cup {21} : i \in 1..22
    OBVIOUS
  <2>2. \A i \in (1..15) \cup {21} : Field(q, 1, i) = q[i]
    BY <1>8, <2>1, FieldsOf22, Zenon
  <2> QED
    BY <1>6, <1>7, <2>2, Zenon
<1> QED
  <2>1. CallFrame(q, r)
    BY <1>9, Zenon DEF CallFrame
  <2> QED
    BY <1>3, <1>8, <2>1, OneFrame, Zenon DEF q

\* The registers after syscall_trapret and sysretq.
Sysretted(r, s) ==
  LET q == Pop(TrapRet, r, s)
      t == Drop(s, Len(TrapRet) + 5)
  IN [q EXCEPT !["rsp"] = t[1], !["rip"] = q["rcx"], !["rflags"] = q["r11"],
               !["cs"] = Selector("cs"), !["ss"] = Selector("ss")]

\* syscall_trapret and sysretq pop the program's registers.
LEMMA SysretRegs ==
  ASSUME NEW p, NEW r, NEW s \in Seq(Words), Len(s) = 22, NEW w \in [Regs -> Words],
         Frames(p, s, <<SYSCALL>>, w)
  PROVE  Sysretted(r, s) = w
<1> DEFINE q == Pop(TrapRet, r, s)
           t == Drop(s, Len(TrapRet) + 5)
<1>1. OffTop(q, TrapRet, r, s)
  BY NamesDistinct, PoppedReg, Zenon
<1>2. t[1] = s[21]
  <2>1. Len(TrapRet) + 5 = 20 /\ 20 \in 0..Len(s)
    BY Tables
  <2>2. Below(t, s, 20)
    BY <2>1, Dropped, Zenon
  <2>3. Len(t) = Len(s) - 20
    BY <2>2, Zenon DEF Below
  <2> HIDE DEF t
  <2>4. 1 \in 1..Len(t) /\ 20 + 1 = 21
    BY <2>3
  <2> QED
    BY <2>2, <2>4, Zenon DEF Below
<1>3. Sysretted(r, s) = [q EXCEPT !["rsp"] = t[1], !["rip"] = q["rcx"], !["rflags"] = q["r11"],
                                  !["cs"] = Selector("cs"), !["ss"] = Selector("ss")]
  BY Zenon DEF Sysretted
<1> HIDE DEF q, t
<1>0. CallFrame(s, w)
  BY OneFrame, Zenon
<1>4. \A i \in (1..15) \cup {21} : s[i] = w[trapframe[i]]
  <2>1. \A i \in (1..15) \cup {21} : i \in 1..22
    OBVIOUS
  <2>2. \A i \in 1..22 : Field(s, 1, i) = s[i]
    BY FieldsOf22, Zenon
  <2> QED
    BY <1>0, <2>1, <2>2, Zenon DEF CallFrame
<1>5. \A x \in GPRs : q[x] = w[x]
  <2> TAKE x \in GPRs
  <2>1. PICK i \in 1..15 : x = trapframe[i]
    BY RegNames
  <2>2. i \in 1..Len(TrapRet) /\ x = TrapRet[i] /\ i \in (1..15) \cup {21}
    BY <2>1, Tables, Zenon
  <2>3. q[TrapRet[i]] = s[i]
    BY <1>1, <2>2, Zenon DEF OffTop
  <2>4. s[i] = w[trapframe[i]]
    BY <1>4, <2>2, Zenon
  <2> QED
    BY <2>1, <2>2, <2>3, <2>4, Zenon
<1>6. t[1] = w["rsp"]
  <2>1. trapframe[21] = "rsp"
    BY DEF trapframe
  <2> QED
    BY <1>2, <1>4, <2>1, Zenon
<1>7. q["rcx"] = w["rip"] /\ q["r11"] = w["rflags"]
  <2>1. "rcx" \in GPRs /\ "r11" \in GPRs
    BY DEF GPRs, AllTraps, Range
  <2> QED
    BY <1>0, <1>5, <2>1, Zenon DEF CallFrame
<1>8. /\ q = [x \in Regs |-> q[x]]
      /\ w["cs"] = Selector("cs") /\ w["ss"] = Selector("ss")
  BY <1>0, <1>1, Zenon DEF OffTop, CallFrame
<1>9. \A x \in Regs : x \in GPRs \/ x \in {"rip", "cs", "rflags", "rsp", "ss"}
  BY Zenon DEF Regs
<1>10. \A x \in GPRs : x \notin {"rip", "cs", "rflags", "rsp", "ss"}
  BY DEF GPRs, AllTraps, Range
<1> QED
  BY <1>3, <1>5, <1>6, <1>7, <1>8, <1>9, <1>10, Zenon

\* The fields of the registers are fields.
LEMMA FrameIndex ==
  \A i \in (1..15) \cup {21} : i \in 1..22 /\ i \notin {16, 17} /\ (i = 1 \/ i \in 2..22)
  OBVIOUS

\* The words of a stack are words.
LEMMA WordIn ==
  ASSUME NEW S, NEW s \in Seq(S)
  PROVE  \A i \in 1..Len(s) : s[i] \in S
  OBVIOUS

WithWord(s, i, u) == [s EXCEPT ![i] = u]

\* A stack with one word overwritten.
LEMMA WordSet ==
  ASSUME NEW S, NEW s \in Seq(S), NEW i \in 1..Len(s), NEW u \in S
  PROVE  WithWord(s, i, u) \in {t \in Seq(S) : Len(t) = Len(s)}
<1>1. DOMAIN [s EXCEPT ![i] = u] = 1..Len(s)
  OBVIOUS
<1>2. [s EXCEPT ![i] = u] \in [1..Len(s) -> S]
  OBVIOUS
<1>3. [s EXCEPT ![i] = u] \in Seq(S)
  BY <1>2
<1>4. Len(s) \in Nat
  OBVIOUS
<1> QED
  BY <1>1, <1>3, <1>4 DEF WithWord

\* Where p->tf has its i-th field.
LEMMA TfAt ==
  ASSUME NEW p, NEW i \in 1..22
  PROVE  TfIndex(p, trapframe[i]) = Len(stack[p]) - 22 + i
<1>1. (CHOOSE j \in 1..22 : trapframe[j] = trapframe[i]) = i
  BY Injective, Zenon
<1> QED
  BY <1>1, Tables, Zenon DEF TfIndex

\* p->tf is the frame at the bottom of the stack.
LEMMA TfIs ==
  ASSUME NEW p, NEW i \in 1..22
  PROVE  Tf(p, trapframe[i]) = Field(stack[p], 1, i)
<1>1. 22 * 1 = 22
  OBVIOUS
<1> QED
  BY <1>1, TfAt, Zenon DEF Tf, Field

\* The frame with another rax.
RaxSound(p, s, w, u) ==
  /\ [s EXCEPT ![1] = u] \in Seq(Words) /\ Len([s EXCEPT ![1] = u]) = 22
  /\ [w EXCEPT !["rax"] = u] \in [Regs -> Words]
  /\ Frames(p, [s EXCEPT ![1] = u], <<SYSCALL>>, [w EXCEPT !["rax"] = u])

\* Writing tf->rax changes the program's rax and nothing else.
LEMMA RaxFrames ==
  ASSUME NEW p, NEW s \in Seq(Words), Len(s) = 22, NEW w \in [Regs -> Words],
         Frames(p, s, <<SYSCALL>>, w), NEW u \in Words
  PROVE  RaxSound(p, s, w, u)
<1> DEFINE t  == [s EXCEPT ![1] = u]
           w2 == [w EXCEPT !["rax"] = u]
<1>1. t \in Seq(Words) /\ Len(t) = 22 /\ t[1] = u
  <2>1. 1 \in 1..Len(s)
    OBVIOUS
  <2>2. t \in Seq(Words) /\ Len(t) = Len(s)
    <3>1. WithWord(s, 1, u) \in {y \in Seq(Words) : Len(y) = Len(s)}
      BY <2>1, WordSet, Zenon
    <3> QED
      BY <3>1, Zenon DEF WithWord
  <2>3. t[1] = u
    BY <2>1
  <2> QED
    BY <2>2, <2>3, Zenon
<1>2. \A i \in 2..22 : t[i] = s[i]
  OBVIOUS
<1>3. trapframe[1] = "rax" /\ \A i \in 2..22 : trapframe[i] # "rax"
  BY DEF trapframe
<1>4. "rax" \in Regs
  BY DEF Regs, GPRs, Range, AllTraps
<1>5. w2 \in [Regs -> Words] /\ w2["rax"] = u /\ \A x \in Regs : x # "rax" => w2[x] = w[x]
  BY <1>4, Zenon
<1> HIDE DEF t, w2
<1>6. CallFrame(s, w)
  BY OneFrame, Zenon
<1>7. ASSUME NEW i \in (1..15) \cup {21} PROVE Field(t, 1, i) = w2[trapframe[i]]
  <2>1. i \in 1..22 /\ i \notin {16, 17} /\ (i = 1 \/ i \in 2..22)
    BY FrameIndex, Zenon
  <2>2. Field(t, 1, i) = t[i] /\ Field(s, 1, i) = s[i]
    BY <1>1, <2>1, FieldsOf22, Zenon
  <2>3. CASE i = 1
    BY <1>1, <1>3, <1>5, <2>2, <2>3, Zenon
  <2>4. CASE i \in 2..22
    <3>1. trapframe[i] \in Regs /\ trapframe[i] # "rax"
      BY <1>3, <2>1, <2>4, RegNames, Zenon
    <3>2. w2[trapframe[i]] = w[trapframe[i]]
      BY <1>5, <3>1, Zenon
    <3> QED
      BY <1>2, <1>6, <2>2, <2>4, <3>2, Zenon DEF CallFrame
  <2> QED
    BY <2>1, <2>3, <2>4, Zenon
<1>8. \A x \in {"rip", "rcx", "rflags", "r11", "cs", "ss"} : x \in Regs /\ x # "rax"
  BY DEF Regs, GPRs, Range, AllTraps
<1>9. CallFrame(t, w2)
  BY <1>5, <1>6, <1>7, <1>8, Zenon DEF CallFrame
<1> QED
  BY <1>1, <1>5, <1>9, OneFrame, Zenon DEF RaxSound, t, w2

\* The frame with the fields of an image.
Image == {"rdi", "rsi", "rip", "rcx", "rsp"}
Loaded(p) == [f \in Image |-> Word("image", IF f = "rcx" THEN "rip" ELSE f, p)]

ExecSound(p, t, w) ==
  t \in Seq(Words) /\ Len(t) = 22 /\ w \in [Regs -> Words] /\ Frames(p, t, <<SYSCALL>>, w)

\* exec changes what it writes to the frame and nothing else.
LEMMA ExecFrames ==
  ASSUME NEW p \in Nat, NEW s \in Seq(Words), Len(s) = 22, NEW w \in [Regs -> Words],
         Frames(p, s, <<SYSCALL>>, w), NEW t, DOMAIN t = 1..22, t = [i \in 1..22 |-> t[i]],
         \A i \in 1..22 : t[i] = IF trapframe[i] \in Image THEN Loaded(p)[trapframe[i]] ELSE s[i],
         NEW w2, w2 = [x \in Regs |-> IF x \in Image THEN Loaded(p)[x] ELSE w[x]]
  PROVE  ExecSound(p, t, w2)
<1>1. Image \subseteq Regs
  BY DEF Image, Regs, GPRs, Range, AllTraps
<1>2. \A x \in Image : Loaded(p)[x] \in Words
  <2> TAKE x \in Image
  <2>1. Loaded(p)[x] = Word("image", IF x = "rcx" THEN "rip" ELSE x, p)
    BY Zenon DEF Loaded
  <2>2. "image" \in Kinds /\ x \in Names /\ "rip" \in Names
    <3>1. "rip" \in Regs /\ "image" \in Kinds
      BY Zenon DEF Kinds, Regs
    <3> QED
      BY <1>1, <3>1, Zenon DEF Names
  <2>3. \A y \in Names : Word("image", y, p) \in Words
    BY <2>2, WordsAre, Zenon
  <2>4. (IF x = "rcx" THEN "rip" ELSE x) \in Names
    BY <2>2, Zenon
  <2> QED
    BY <2>1, <2>3, <2>4, Zenon
<1>3. \A i \in 1..22 : t[i] \in Words
  <2>1. \A i \in 1..22 : s[i] \in Words
    BY WordIn, Zenon
  <2> QED
    BY <1>2, <2>1, Zenon
<1>4. t \in Seq(Words) /\ Len(t) = 22
  BY <1>3
<1>5. w2 \in [Regs -> Words]
  BY <1>2
<1>6. CallFrame(s, w)
  BY OneFrame, Zenon
<1>7. ASSUME NEW i \in (1..15) \cup {21} PROVE Field(t, 1, i) = w2[trapframe[i]]
  <2>1. i \in 1..22 /\ i \notin {16, 17}
    BY FrameIndex, Zenon
  <2>2. Field(t, 1, i) = t[i] /\ Field(s, 1, i) = s[i]
    BY <1>4, <2>1, FieldsOf22, ZenonT(40)
  <2>3. trapframe[i] \in Regs
    BY <2>1, RegNames, Zenon
  <2>4. s[i] = w[trapframe[i]]
    BY <1>6, <2>2, Zenon DEF CallFrame
  <2> QED
    BY <2>1, <2>2, <2>3, <2>4, Zenon
<1>8. \A x \in {"rip", "rcx", "rflags", "r11", "cs", "ss"} : x \in Regs
  BY DEF Regs, GPRs, Range, AllTraps
<1>9. w2["rip"] = w2["rcx"]
  <2>1. w2["rip"] = Loaded(p)["rip"] /\ w2["rcx"] = Loaded(p)["rcx"]
    BY <1>8, Zenon DEF Image
  <2>2. Loaded(p)["rip"] = Loaded(p)["rcx"]
    BY Zenon DEF Loaded, Image
  <2> QED
    BY <2>1, <2>2, Zenon
<1>10. \A x \in {"rflags", "r11", "cs", "ss"} : w2[x] = w[x]
  <2>1. \A x \in {"rflags", "r11", "cs", "ss"} : x \notin Image
    BY Zenon DEF Image
  <2> QED
    BY <1>8, <2>1
<1>11. CallFrame(t, w2)
  BY <1>6, <1>7, <1>9, <1>10, Zenon DEF CallFrame
<1> QED
  BY <1>4, <1>5, <1>11, OneFrame, Zenon DEF ExecSound

-----------------------------------------------------------------------------
\* Eight words above one frame, for a process that does not run.
LEMMA Raised ==
  ASSUME NEW q, NEW s, Len(q) = 30, Len(s) = 22, \A k \in 1..22 : q[8 + k] = s[k]
  PROVE  \A i \in 1..22 : Field(q, 1, i) = Field(s, 1, i)
<1>1. \A i \in 1..22 : Len(q) - 22 * 1 + i = 8 + i
  OBVIOUS
<1>2. \A i \in 1..22 : Field(s, 1, i) = s[i]
  BY FieldsOf22, Zenon
<1> TAKE i \in 1..22
<1>3. Field(q, 1, i) = q[8 + i]
  BY <1>1, Zenon DEF Field
<1> QED
  BY <1>2, <1>3, Zenon

\* The frame of a system call depends on its fields alone.
LEMMA SameCall ==
  ASSUME NEW p, NEW q, NEW s, NEW w, \A i \in 1..22 : Field(q, 1, i) = Field(s, 1, i)
  PROVE  Frames(p, q, <<SYSCALL>>, w) <=> Frames(p, s, <<SYSCALL>>, w)
<1>1. CallFrame(q, w) <=> CallFrame(s, w)
  BY FrameIndex, Zenon DEF CallFrame
<1> QED
  BY <1>1, OneFrame, Zenon

NewStackSound(p, tf, w) ==
  /\ NewStack(tf) \in Seq(Words) /\ Len(NewStack(tf)) = 30
  /\ Saved(p, NewStack(tf), 1)
  /\ Frames(p, NewStack(tf), <<SYSCALL>>, w)

\* allocproc's stack: a context to switch to, above a copy of the frame.
LEMMA NewStackIs ==
  ASSUME NEW p, p # 0, NEW tf \in Seq(Words), Len(tf) = 22, NEW w, Frames(p, tf, <<SYSCALL>>, w)
  PROVE  NewStackSound(p, tf, w)
<1> DEFINE c == [i \in 1..Len(Context) |-> IF Context[i] = "rip" THEN Pc("forkret") ELSE Zero]
           m == c \o <<Pc("syscall_trapret")>>
           q == NewStack(tf)
<1>1. Len(Context) = 7
  BY DEF Context
<1>2. Zero \in Words /\ Pc("forkret") \in Words /\ Pc("syscall_trapret") \in Words
  BY WordsAre, Zenon DEF Names
<1>3. c \in Seq(Words) /\ Len(c) = 7
  BY <1>1, <1>2
<1> HIDE DEF c
<1>4. <<Pc("syscall_trapret")>> \in Seq(Words) /\ Len(<<Pc("syscall_trapret")>>) = 1
  BY <1>2
<1>5. m \in Seq(Words) /\ Joined(m, c, <<Pc("syscall_trapret")>>)
  BY <1>3, <1>4, Concat, Zenon
<1> HIDE DEF m
<1>6. q = m \o tf
  BY DEF NewStack, m, c
<1>7. m \o tf \in Seq(Words) /\ Joined(m \o tf, m, tf)
  BY <1>5, Concat, Zenon
<1> HIDE DEF q
<1>8. Len(m) = 8 /\ m[8] = Pc("syscall_trapret")
  <2>1. Len(m) = 7 + 1
    BY <1>3, <1>4, <1>5, Zenon DEF Joined
  <2>2. 1 \in 1..1 /\ 7 + 1 = 8
    OBVIOUS
  <2>3. m[7 + 1] = <<Pc("syscall_trapret")>>[1]
    BY <1>3, <1>4, <1>5, <2>2, Zenon DEF Joined
  <2> QED
    BY <2>1, <2>2, <2>3
<1>9. q \in Seq(Words) /\ Joined(q, m, tf)
  BY <1>6, <1>7, Zenon
<1>10. Len(q) = 8 + 22 /\ q[8] = m[8] /\ \A k \in 1..22 : q[8 + k] = tf[k]
  <2>1. 8 \in 1..8
    OBVIOUS
  <2> QED
    BY <1>8, <1>9, <2>1, Zenon DEF Joined
<1>11. Len(q) = 30 /\ Len(q) >= 8
  BY <1>10
<1>12. \A i \in 1..22 : Field(q, 1, i) = Field(tf, 1, i)
  BY <1>10, <1>11, Raised, Zenon
<1>13. Frames(p, q, <<SYSCALL>>, w)
  BY <1>12, SameCall, Zenon
<1>14. Saved(p, q, 1)
  BY <1>8, <1>10, <1>11, Zenon DEF Saved
<1> QED
  BY <1>9, <1>11, <1>13, <1>14, Zenon DEF NewStackSound, q

\* What swtch leaves on the stack s it leaves.
Parked(r, s) == Push(SwtchPush, r, <<Pc("sched")>> \o s)

\* swtch pops what it pushes, and the registers a call preserves are there.
LEMMA SwtchNames ==
  /\ SwtchPush \in Seq(Regs) /\ Len(SwtchPush) = 7
  /\ SwtchPop \in Seq(Regs) /\ Len(SwtchPop) = 7 /\ Distinct(SwtchPop)
  /\ \A i \in 1..7 : SwtchPush[7 + 1 - i] = SwtchPop[i] /\ SwtchPush[i] \in Regs /\ SwtchPop[i] \in Regs
  /\ \A x \in CalleeSaved : \E i \in 1..7 : x = SwtchPop[i]
<1>1. \A i \in 1..7 : SwtchPush[i] \in Regs
  BY DEF SwtchPush, Regs, GPRs, Range, AllTraps
<1>2. \A i \in 1..7 : SwtchPush[7 + 1 - i] = SwtchPop[i]
  BY DEF SwtchPush, SwtchPop
<1>3. \A i \in 1..7 : SwtchPop[i] \in Regs
  BY DEF SwtchPop, Regs, GPRs, Range, AllTraps
<1>4. SwtchPush \in Seq(Regs) /\ Len(SwtchPush) = 7
  BY <1>1 DEF SwtchPush
<1>5. SwtchPop \in Seq(Regs) /\ Len(SwtchPop) = 7
  BY <1>3 DEF SwtchPop
<1>6. \A i, j \in 1..7 : SwtchPop[i] = SwtchPop[j] => i = j
  BY DEF SwtchPop
<1>7. Distinct(SwtchPop)
  BY <1>5, <1>6, Zenon DEF Distinct
<1>8. \A x \in CalleeSaved : \E i \in 1..7 : x = SwtchPop[i]
  <2>1. /\ SwtchPop[1] = "r15" /\ SwtchPop[2] = "r14" /\ SwtchPop[3] = "r13" /\ SwtchPop[4] = "r12"
        /\ SwtchPop[6] = "rbx" /\ SwtchPop[7] = "rbp"
    BY DEF SwtchPop
  <2>2. {1, 2, 3, 4, 6, 7} \subseteq 1..7
    OBVIOUS
  <2> QED
    BY <2>1, <2>2 DEF CalleeSaved
<1> QED
  BY <1>1, <1>2, <1>3, <1>4, <1>5, <1>7, <1>8, Zenon

\* The stack that swtch leaves: the context and the return address on top.
LEMMA ParkedIs ==
  ASSUME NEW r \in [Regs -> Words], NEW s \in Seq(Words)
  PROVE  /\ Parked(r, s) \in Seq(Words) /\ Len(Parked(r, s)) = 8 + Len(s)
         /\ \A i \in 1..7 : Parked(r, s)[i] = r[SwtchPop[i]]
         /\ Parked(r, s)[8] = Pc("sched")
         /\ \A k \in 1..Len(s) : Parked(r, s)[8 + k] = s[k]
<1> DEFINE m == <<Pc("sched")>> \o s
           q == Parked(r, s)
<1>1. <<Pc("sched")>> \in Seq(Words) /\ Len(<<Pc("sched")>>) = 1 /\ <<Pc("sched")>>[1] = Pc("sched")
  <2>1. Pc("sched") \in Words
    BY WordsAre, Zenon DEF Names
  <2> QED
    BY <2>1
<1>2. m \in Seq(Words) /\ Joined(m, <<Pc("sched")>>, s)
  BY <1>1, Concat, Zenon
<1> HIDE DEF m
<1>3. Len(m) = 1 + Len(s) /\ (\A i \in 1..1 : m[i] = <<Pc("sched")>>[i]) /\ (\A k \in 1..Len(s) : m[1 + k] = s[k])
  BY <1>1, <1>2, Zenon DEF Joined
<1>4. \A i \in 1..7 : r[SwtchPush[i]] \in Words
  BY SwtchNames, Zenon
<1>5. q \in Seq(Words) /\ OnTop(q, SwtchPush, r, m)
  BY <1>2, <1>4, SwtchNames, Pushed, Zenon DEF Parked, m
<1> HIDE DEF q
<1>6. /\ Len(q) = 7 + Len(m) /\ (\A i \in 1..7 : q[i] = r[SwtchPush[7 + 1 - i]])
      /\ \A k \in 1..Len(m) : q[7 + k] = m[k]
  BY <1>5, SwtchNames, Zenon DEF OnTop
<1>7. Len(s) \in Nat
  OBVIOUS
<1>8. Len(q) = 8 + Len(s)
  BY <1>3, <1>6, <1>7
<1>9. q[8] = Pc("sched")
  <2>1. 1 \in 1..Len(m) /\ 1 \in 1..1 /\ 7 + 1 = 8
    BY <1>3, <1>7
  <2> QED
    BY <1>1, <1>3, <1>6, <2>1, ZenonT(40)
<1>10. \A k \in 1..Len(s) : q[8 + k] = s[k]
  <2> TAKE k \in 1..Len(s)
  <2>1. 1 + k \in 1..Len(m) /\ 7 + (1 + k) = 8 + k
    BY <1>3, <1>7
  <2> QED
    BY <1>3, <1>6, <2>1, ZenonT(40)
<1>11. \A i \in 1..7 : q[i] = r[SwtchPop[i]]
  BY <1>6, SwtchNames, Zenon
<1> QED
  BY <1>5, <1>8, <1>9, <1>10, <1>11, Zenon DEF q

\* What swtch leaves of the stack s it switches to.
Left(s) == Tail(Drop(s, 7))

\* A stack without its topmost word.
LEMMA TailIs ==
  ASSUME NEW S, NEW s \in Seq(S), Len(s) > 0
  PROVE  Tail(s) \in Seq(S) /\ Below(Tail(s), s, 1)
<1>1. Tail(s) \in Seq(S) /\ Len(Tail(s)) = Len(s) - 1
  OBVIOUS
<1>2. ASSUME NEW k \in 1..(Len(s) - 1) PROVE Tail(s)[k] = s[k + 1]
  OBVIOUS
<1>3. \A k \in 1..(Len(s) - 1) : k + 1 = 1 + k
  OBVIOUS
<1> QED
  BY <1>1, <1>2, <1>3, Zenon DEF Below

\* The stack that swtch goes on with.
LEMMA LeftIs ==
  ASSUME NEW s \in Seq(Words), Len(s) >= 8
  PROVE  /\ Left(s) \in Seq(Words) /\ Len(Left(s)) = Len(s) - 8
         /\ \A k \in 1..(Len(s) - 8) : Left(s)[k] = s[8 + k]
         /\ Drop(s, 7)[1] = s[8]
<1> DEFINE d == Drop(s, 7)
<1>1. Len(s) \in Nat /\ 7 \in 0..Len(s)
  OBVIOUS
<1>2. d \in Seq(Words) /\ Below(d, s, 7)
  BY <1>1, Dropped, Zenon
<1> HIDE DEF d
<1>3. Len(d) = Len(s) - 7 /\ \A k \in 1..Len(d) : d[k] = s[7 + k]
  BY <1>2, Zenon DEF Below
<1>4. Len(d) > 0 /\ 1 \in 1..Len(d) /\ 7 + 1 = 8
  BY <1>1, <1>3
<1>5. Tail(d) \in Seq(Words) /\ Below(Tail(d), d, 1)
  BY <1>2, <1>4, TailIs, Zenon
<1>6. Len(Tail(d)) = Len(d) - 1 /\ \A k \in 1..Len(Tail(d)) : Tail(d)[k] = d[1 + k]
  BY <1>5, Zenon DEF Below
<1> DEFINE t == Tail(d)
<1> HIDE DEF t
<1>7. Len(t) = Len(s) - 8
  BY <1>1, <1>3, <1>6 DEF t
<1>8. \A k \in 1..(Len(s) - 8) : t[k] = s[8 + k]
  <2> TAKE k \in 1..(Len(s) - 8)
  <2>1. k \in 1..Len(t) /\ 1 + k \in 1..Len(d) /\ 7 + (1 + k) = 8 + k
    BY <1>1, <1>3, <1>7
  <2>2. t[k] = d[1 + k] /\ d[1 + k] = s[7 + (1 + k)]
    BY <1>3, <1>6, <2>1, Zenon DEF t
  <2> QED
    BY <2>1, <2>2, Zenon
<1>9. d[1] = s[8]
  BY <1>3, <1>4, Zenon
<1> QED
  BY <1>5, <1>7, <1>8, <1>9, Zenon DEF Left, d, t

-----------------------------------------------------------------------------
\* A step of the process on the CPU that leaves the CPU to it.
LEMMA CurStep ==
  ASSUME SwitchConstants, SwInv, cur # 0, UNCHANGED <<cur, alive>>,
         NEW s2 \in Seq(Words), NEW e2 \in Seq(Nat), NEW w2 \in [Regs -> Words],
         stack' = [stack EXCEPT ![cur] = s2], entry' = [entry EXCEPT ![cur] = e2],
         want' = [want EXCEPT ![cur] = w2],
         Len(s2) = 22 * Len(e2), Frames(cur, s2, e2, w2),
         regs' \in [Regs -> Words], at' \in {"user", "kernel", "sysret"},
         at' = "user" => e2 = <<>> /\ regs' = w2,
         at' = "sysret" => e2 = <<SYSCALL>>,
         at' = "kernel" => /\ e2 # <<>>
                           /\ \A x \in CalleeSaved : regs'[x] = Kernel(cur, Len(e2))[x]
  PROVE  SwInv'
<1>1. cur \in alive /\ cur \in Procs /\ 0 \notin Procs /\ alive \subseteq Procs
  BY DEF SwInv, SwType, SwitchConstants
<1>2. /\ stack'[cur] = s2 /\ \A p \in Procs \cup {0} : p # cur => stack'[p] = stack[p]
      /\ stack' \in [Procs \cup {0} -> Seq(Words)]
  BY <1>1, Zenon DEF SwInv, SwType
<1>3. /\ entry'[cur] = e2 /\ \A p \in Procs : p # cur => entry'[p] = entry[p]
      /\ entry' \in [Procs -> Seq(Nat)]
  BY <1>1, Zenon DEF SwInv, SwType
<1>4. /\ want'[cur] = w2 /\ \A p \in Procs : p # cur => want'[p] = want[p]
      /\ want' \in [Procs -> [Regs -> Words]]
  BY <1>1, Zenon DEF SwInv, SwType
<1>5. SwType'
  BY <1>2, <1>3, <1>4, Zenon DEF SwInv, SwType
<1>6. ASSUME NEW p \in alive PROVE Frames(p, stack'[p], entry'[p], want'[p])
  <2>1. CASE p = cur
    BY <1>2, <1>3, <1>4, <2>1, Zenon
  <2>2. CASE p # cur
    BY <1>1, <1>2, <1>3, <1>4, <2>2, Zenon DEF SwInv
  <2> QED
    BY <2>1, <2>2, Zenon
<1>7. ASSUME NEW p \in alive \ {cur}
      PROVE  entry'[p] = <<SYSCALL>> /\ Len(stack'[p]) = 30 /\ Saved(p, stack'[p], 1)
  <2>1. stack'[p] = stack[p] /\ entry'[p] = entry[p]
    BY <1>1, <1>2, <1>3, Zenon
  <2> QED
    BY <2>1, Zenon DEF SwInv
<1>8. Len(stack'[0]) = 8 /\ Saved(0, stack'[0], 0) /\ Len(stack'[cur]) = 22 * Len(entry'[cur])
  <2>1. stack'[0] = stack[0]
    BY <1>1, <1>2, Zenon
  <2> QED
    BY <1>2, <1>3, <2>1, Zenon DEF SwInv
<1>9. SwitchPreserves'
  BY <1>3, SMTT(30) DEF SwitchPreserves
<1> QED
  BY <1>2, <1>3, <1>4, <1>5, <1>6, <1>7, <1>8, <1>9, Zenon DEF SwInv

\* The type of registers, for the kernel's and the program's.
LEMMA RegsOf ==
  /\ \A p \in Nat, n \in Nat : Kernel(p, n) \in [Regs -> Words]
  /\ \A p \in Nat, k \in Nat : User(p, k) \in [Regs -> Words]
  /\ \A p, k : User(p, k)["cs"] = Selector("cs") /\ User(p, k)["ss"] = Selector("ss")
<1>1. \A x \in Regs : x \in Names
  BY Zenon DEF Names
<1>2. "kernel" \in Kinds /\ "user" \in Kinds
  BY Zenon DEF Kinds
<1>3. ASSUME NEW p \in Nat, NEW n \in Nat PROVE Kernel(p, n) \in [Regs -> Words]
  <2>1. 10 * p + n \in Nat
    OBVIOUS
  <2>2. \A x \in Regs : Word("kernel", x, 10 * p + n) \in Words
    BY <1>1, <1>2, <2>1, WordsAre, Zenon
  <2> QED
    BY <2>2, Zenon DEF Kernel
<1>4. ASSUME NEW p \in Nat, NEW k \in Nat PROVE User(p, k) \in [Regs -> Words]
  <2>1. 10 * p + k \in Nat
    OBVIOUS
  <2>2. \A x \in Regs : Word("user", x, 10 * p + k) \in Words /\ Selector(x) \in Words
    BY <1>1, <1>2, <2>1, WordsAre, Zenon
  <2> QED
    BY <2>2, Zenon DEF User
<1>5. ASSUME NEW p, NEW k PROVE User(p, k)["cs"] = Selector("cs") /\ User(p, k)["ss"] = Selector("ss")
  <2>1. "cs" \in Regs /\ "ss" \in Regs
    BY Zenon DEF Regs
  <2> QED
    BY <2>1, Zenon DEF User
<1> QED
  BY <1>3, <1>4, <1>5, Zenon

\* The process on the CPU, when it is there.
LEMMA OnCpu ==
  ASSUME SwitchConstants, SwInv, at # "scheduler"
  PROVE  /\ cur # 0 /\ cur \in alive /\ cur \in Procs /\ cur \in Nat
         /\ stack[cur] \in Seq(Words) /\ entry[cur] \in Seq(Nat) /\ want[cur] \in [Regs -> Words]
         /\ regs \in [Regs -> Words]
         /\ Len(stack[cur]) = 22 * Len(entry[cur])
         /\ Frames(cur, stack[cur], entry[cur], want[cur])
         /\ stack = [stack EXCEPT ![cur] = stack[cur]]
         /\ entry = [entry EXCEPT ![cur] = entry[cur]]
         /\ want = [want EXCEPT ![cur] = want[cur]]
<1>1. cur # 0
  BY Zenon DEF SwInv
<1>2. cur \in alive /\ cur \in Procs /\ cur \in Nat
  BY <1>1 DEF SwInv, SwType, SwitchConstants
<1>3. stack[cur] \in Seq(Words) /\ entry[cur] \in Seq(Nat) /\ want[cur] \in [Regs -> Words] /\ regs \in [Regs -> Words]
  BY <1>2 DEF SwInv, SwType
<1>4. /\ Len(stack[cur]) = 22 * Len(entry[cur])
      /\ Frames(cur, stack[cur], entry[cur], want[cur])
  BY <1>1, <1>2, Zenon DEF SwInv
<1>5. /\ stack = [stack EXCEPT ![cur] = stack[cur]]
      /\ entry = [entry EXCEPT ![cur] = entry[cur]]
      /\ want = [want EXCEPT ![cur] = want[cur]]
  BY <1>2, Zenon DEF SwInv, SwType
<1> QED
  BY <1>1, <1>2, <1>3, <1>4, <1>5, Zenon

\* When there is no entry to the kernel.
LEMMA EmptyEntry == \A e \in Seq(Nat) : /\ e = <<>> <=> Len(e) = 0
                                        /\ e # <<>> <=> Len(e) > 0
  OBVIOUS

\* One entry more.
LEMMA AppendIs ==
  ASSUME NEW e \in Seq(Nat), NEW v \in Nat
  PROVE  Append(e, v) \in Seq(Nat) /\ Len(Append(e, v)) = Len(e) + 1 /\ Append(e, v) # <<>>
<1>1. Append(e, v) \in Seq(Nat) /\ Len(Append(e, v)) = Len(e) + 1
  OBVIOUS
<1>2. Len(e) + 1 > 0
  OBVIOUS
<1> QED
  BY <1>1, <1>2, EmptyEntry

\* The program runs.
LEMMA UserRunsStep ==
  ASSUME SwitchConstants, SwInv, UserRuns PROVE SwInv'
<1>1. at = "user" /\ at' = "user" /\ at # "scheduler"
  BY Zenon DEF UserRuns
<1>2. PICK k \in {0, 1} : regs' = User(cur, k) /\ want' = [want EXCEPT ![cur] = User(cur, k)]
  BY Zenon DEF UserRuns
<1>3. User(cur, k) \in [Regs -> Words]
  <2>1. k \in Nat
    OBVIOUS
  <2> QED
    BY <1>1, <2>1, OnCpu, RegsOf, Zenon
<1>4. entry[cur] = <<>> /\ Len(entry[cur]) = 0 /\ 2..Len(entry[cur]) = {} /\ ~(Len(entry[cur]) > 0)
  <2>1. entry[cur] = <<>>
    BY <1>1, SMTT(30) DEF SwInv
  <2> QED
    BY <2>1
<1>5. Frames(cur, stack[cur], entry[cur], User(cur, k))
  BY <1>4, RegsOf, Zenon DEF Frames
<1>6. /\ stack' = [stack EXCEPT ![cur] = stack[cur]] /\ entry' = [entry EXCEPT ![cur] = entry[cur]]
      /\ UNCHANGED <<cur, alive>>
  BY <1>1, OnCpu, Zenon DEF UserRuns
<1> QED
  BY <1>1, <1>2, <1>3, <1>4, <1>5, <1>6, OnCpu, CurStep, Zenon

\* An interrupt of the kernel.
LEMMA TrapStep ==
  ASSUME SwitchConstants, SwInv, NEW v \in Vectors, Trap(v) PROVE SwInv'
<1>1. at = "kernel" /\ at' = "kernel" /\ at # "scheduler"
  BY Zenon DEF Trap
<1>2. v \in Nat /\ v # SYSCALL
  BY DEF SwitchConstants, SYSCALL
<1> DEFINE s2 == OnTrap(v, regs, stack[cur])
           e2 == Append(entry[cur], v)
<1>3. stack' = [stack EXCEPT ![cur] = s2] /\ entry' = [entry EXCEPT ![cur] = e2]
  BY DEF Trap, OnTrap
<1>4. want' = [want EXCEPT ![cur] = want[cur]] /\ UNCHANGED <<cur, alive>>
  BY <1>1, OnCpu DEF Trap
<1>5. entry[cur] \in Seq(Nat) /\ Len(entry[cur]) \in Nat
  BY <1>1, OnCpu
<1>6. e2 \in Seq(Nat) /\ Len(e2) = Len(entry[cur]) + 1 /\ e2 # <<>>
  BY <1>2, <1>5, AppendIs, Zenon
<1>7. s2 \in Seq(Words) /\ Len(s2) = 22 + Len(stack[cur])
  <2>1. stack[cur] \in Seq(Words) /\ regs \in [Regs -> Words]
    BY <1>1, OnCpu, Zenon
  <2> QED
    BY <1>2, <2>1, TrapPushes, ZenonT(40)
<1>8. Len(entry[cur]) > 0 /\ \A x \in CalleeSaved : regs[x] = Kernel(cur, Len(entry[cur]))[x]
  <2>1. entry[cur] # <<>> /\ SwitchPreserves /\ cur # 0
    BY <1>1, Zenon DEF SwInv
  <2>2. Len(entry[cur]) > 0
    BY <1>5, <2>1, EmptyEntry, Zenon
  <2> QED
    BY <1>1, <2>1, <2>2, Zenon DEF SwitchPreserves
<1>9. Frames(cur, s2, e2, want[cur])
  BY <1>1, <1>2, <1>8, OnCpu, TrapFrames, Zenon
<1>10. regs' = Kernel(cur, Len(e2)) /\ regs' \in [Regs -> Words]
  <2>1. regs' = Kernel(cur, Len(entry[cur]) + 1)
    BY Zenon DEF Trap
  <2>2. Len(entry[cur]) + 1 \in Nat
    BY <1>5
  <2> QED
    BY <1>1, <1>6, <2>1, <2>2, OnCpu, RegsOf, Zenon
<1> HIDE DEF s2, e2
<1>11. Len(s2) = 22 * Len(e2)
  <2>1. Len(stack[cur]) = 22 * Len(entry[cur])
    BY <1>1, OnCpu, Zenon
  <2> QED
    BY <1>5, <1>6, <1>7, <2>1
<1> QED
  BY <1>1, <1>3, <1>4, <1>6, <1>7, <1>9, <1>10, <1>11, OnCpu, CurStep, Zenon

\* The way back through trapret.
LEMMA TrapretStep ==
  ASSUME SwitchConstants, SwInv, Trapret PROVE SwInv'
<1>1. at = "kernel" /\ at # "scheduler" /\ entry[cur] # <<>> /\ entry[cur][Len(entry[cur])] # SYSCALL
  BY Zenon DEF Trapret
<1> DEFINE s  == stack[cur]
           e  == entry[cur]
           w  == want[cur]
           s2 == Rest(s)
           e2 == SubSeq(e, 1, Len(e) - 1)
<1>2. /\ s \in Seq(Words) /\ e \in Seq(Nat) /\ w \in [Regs -> Words] /\ regs \in [Regs -> Words]
      /\ Len(s) = 22 * Len(e) /\ Frames(cur, s, e, w)
  BY <1>1, OnCpu, Zenon
<1>3. Len(e) > 0 /\ Len(e) \in Nat
  BY <1>1, <1>2, EmptyEntry
<1>4. stack' = [stack EXCEPT ![cur] = s2] /\ regs' = Unframed(regs, s)
  <2>1. Len(TrapRet) + 2 = 17
    BY Tables
  <2> QED
    BY <2>1, Zenon DEF Trapret, Rest, Unframed, Iret
<1>5. entry' = [entry EXCEPT ![cur] = e2] /\ at' = at
  BY Zenon DEF Trapret
<1>6. want' = [want EXCEPT ![cur] = w] /\ UNCHANGED <<cur, alive>>
  BY <1>1, OnCpu, Zenon DEF Trapret
<1> HIDE DEF s, e, w
<1>7. /\ s2 \in Seq(Words) /\ Len(s2) = 22 * (Len(e) - 1)
      /\ Frames(cur, s2, e2, w)
      /\ Len(e) > 1 /\ Restored(Unframed(regs, s), cur, Len(e) - 1)
  <2>1. e[Len(e)] # SYSCALL
    BY <1>1, Zenon DEF e
  <2> QED
    <3>1. TrapretSound(cur, regs, s, e, w)
      BY <1>2, <1>3, <2>1, TrapretFrames, Zenon
    <3> QED
      BY <3>1, Zenon DEF TrapretSound
<1>8. e2 \in Seq(Nat) /\ Len(e2) = Len(e) - 1
  BY <1>2, <1>3, FrontIs, Zenon
<1>9. Unframed(regs, s) \in [Regs -> Words]
  <2>1. Len(s) >= 22
    BY <1>2, <1>3
  <2> QED
    BY <1>2, <2>1, TrapPops, Zenon
<1> HIDE DEF s2, e2
<1>10. Len(s2) = 22 * Len(e2)
  BY <1>7, <1>8, Zenon
<1>11. at' = "kernel" /\ e2 # <<>>
  <2>1. Len(e2) > 0
    BY <1>3, <1>7, <1>8
  <2> QED
    BY <1>1, <1>5, <1>8, <2>1, EmptyEntry, Zenon
<1>12. \A x \in CalleeSaved : regs'[x] = Kernel(cur, Len(e2))[x]
  BY <1>4, <1>7, <1>8, Zenon DEF Restored
<1> QED
  BY <1>1, <1>2, <1>4, <1>5, <1>6, <1>7, <1>8, <1>9, <1>10, <1>11, <1>12, OnCpu, CurStep, Zenon

\* A system call.
LEMMA SyscallEntryStep ==
  ASSUME SwitchConstants, SwInv, SyscallEntry PROVE SwInv'
<1>1. at = "user" /\ at' = "kernel" /\ at # "scheduler"
  BY Zenon DEF SyscallEntry
<1> DEFINE r  == [regs EXCEPT !["rcx"] = regs["rip"], !["r11"] = regs["rflags"]]
<1>2. /\ stack' = [stack EXCEPT ![cur] = OnSyscall(r)] /\ want' = [want EXCEPT ![cur] = r]
      /\ entry' = [entry EXCEPT ![cur] = <<SYSCALL>>] /\ regs' = Kernel(cur, 1)
      /\ UNCHANGED <<cur, alive>>
  BY Zenon DEF SyscallEntry, OnSyscall
<1>3. regs \in [Regs -> Words] /\ regs["cs"] = Selector("cs") /\ regs["ss"] = Selector("ss")
  <2>1. regs \in [Regs -> Words] /\ regs = want[cur] /\ Frames(cur, stack[cur], entry[cur], want[cur])
    BY <1>1, OnCpu, Zenon DEF SwInv
  <2> QED
    BY <2>1, Zenon DEF Frames
<1>4. \A x \in {"rip", "rcx", "rflags", "r11", "cs", "ss"} : x \in Regs
  BY DEF Regs, GPRs, Range, AllTraps
<1>5. /\ r \in [Regs -> Words] /\ r["rip"] = r["rcx"] /\ r["rflags"] = r["r11"]
      /\ r["cs"] = Selector("cs") /\ r["ss"] = Selector("ss")
  BY <1>3, <1>4
<1> HIDE DEF r
<1>6. /\ OnSyscall(r) \in Seq(Words) /\ Len(OnSyscall(r)) = 22
      /\ Frames(cur, OnSyscall(r), <<SYSCALL>>, r)
  BY <1>5, SyscallFrames, Zenon
<1>7. Kernel(cur, 1) \in [Regs -> Words]
  <2>1. 1 \in Nat
    OBVIOUS
  <2> QED
    BY <1>1, <2>1, OnCpu, RegsOf, Zenon
<1>8. Len(OnSyscall(r)) = 22 * Len(<<SYSCALL>>) /\ <<SYSCALL>> # <<>>
  BY <1>6, OneEntry
<1>9. \A x \in CalleeSaved : regs'[x] = Kernel(cur, Len(<<SYSCALL>>))[x]
  BY <1>2, OneEntry, Zenon
<1> QED
  BY <1>1, <1>2, <1>5, <1>6, <1>7, <1>8, <1>9, OneEntry, OnCpu, CurStep, Zenon

\* The process on the CPU, in a system call with nothing above its frame.
LEMMA InCall ==
  ASSUME SwitchConstants, SwInv, at # "scheduler", entry[cur] = <<SYSCALL>>
  PROVE  Len(stack[cur]) = 22 /\ Frames(cur, stack[cur], <<SYSCALL>>, want[cur])
<1>1. Len(stack[cur]) = 22 * Len(<<SYSCALL>>) /\ Frames(cur, stack[cur], <<SYSCALL>>, want[cur])
  BY OnCpu, Zenon
<1> QED
  BY <1>1, OneEntry

\* syscall() writes the result to tf->rax.
LEMMA SyscallReturnsStep ==
  ASSUME SwitchConstants, SwInv, SyscallReturns PROVE SwInv'
<1>1. /\ at = "kernel" /\ at # "scheduler" /\ at' = "sysret" /\ entry[cur] = <<SYSCALL>>
      /\ regs' = regs /\ cur' = cur /\ alive' = alive /\ entry' = entry
  BY Zenon DEF SyscallReturns, InSyscall
<1> DEFINE u  == Word("result", "rax", cur)
           s2 == [stack[cur] EXCEPT ![1] = u]
           w2 == [want[cur] EXCEPT !["rax"] = u]
<1>2. Len(stack[cur]) = 22 /\ Frames(cur, stack[cur], <<SYSCALL>>, want[cur])
  BY <1>1, InCall, Zenon
<1>3. TfIndex(cur, "rax") = 1
  <2>1. "rax" = trapframe[1] /\ 1 \in 1..22 /\ 22 - 22 + 1 = 1
    BY DEF trapframe
  <2> QED
    BY <1>2, <2>1, TfAt, Zenon
<1>4. stack' = [stack EXCEPT ![cur] = s2]
  BY <1>3, Zenon DEF SyscallReturns, SetTf
<1>5. want' = [want EXCEPT ![cur] = w2]
  BY Zenon DEF SyscallReturns
<1>6. u \in Words
  <2>1. "result" \in Kinds /\ "rax" \in Names
    BY DEF Kinds, Names, Regs, GPRs, Range, AllTraps
  <2> QED
    BY <1>1, <2>1, OnCpu, WordsAre, Zenon
<1>7. stack[cur] \in Seq(Words) /\ want[cur] \in [Regs -> Words]
  BY <1>1, OnCpu, Zenon
<1> HIDE DEF u
<1>8. s2 \in Seq(Words) /\ Len(s2) = 22 /\ w2 \in [Regs -> Words] /\ Frames(cur, s2, <<SYSCALL>>, w2)
  <2>1. RaxSound(cur, stack[cur], want[cur], u)
    BY <1>2, <1>6, <1>7, RaxFrames, Zenon
  <2> QED
    BY <2>1, Zenon DEF RaxSound
<1> HIDE DEF s2, w2
<1>9. entry' = [entry EXCEPT ![cur] = <<SYSCALL>>]
  BY <1>1, OnCpu, Zenon
<1>10. Len(s2) = 22 * Len(<<SYSCALL>>)
  BY <1>8, OneEntry
<1> QED
  BY <1>1, <1>4, <1>5, <1>8, <1>9, <1>10, OneEntry, OnCpu, CurStep, Zenon

\* The way back through syscall_trapret.
LEMMA SyscallTrapretStep ==
  ASSUME SwitchConstants, SwInv, SyscallTrapret PROVE SwInv'
<1>1. at = "sysret" /\ at # "scheduler" /\ at' = "user"
  BY Zenon DEF SyscallTrapret
<1>2. entry[cur] = <<SYSCALL>>
  BY <1>1 DEF SwInv
<1>3. Len(stack[cur]) = 22 /\ Frames(cur, stack[cur], <<SYSCALL>>, want[cur])
  BY <1>1, <1>2, InCall, Zenon
<1>4. regs' = Sysretted(regs, stack[cur])
  BY Zenon DEF SyscallTrapret, Sysretted
<1>5. stack[cur] \in Seq(Words) /\ want[cur] \in [Regs -> Words] /\ want = [want EXCEPT ![cur] = want[cur]]
  BY <1>1, OnCpu, Zenon
<1>6. regs' = want[cur]
  <2>1. Sysretted(regs, stack[cur]) = want[cur]
    BY <1>3, <1>5, SysretRegs
  <2> QED
    BY <1>4, <2>1, Zenon
<1>7. /\ stack' = [stack EXCEPT ![cur] = <<>>] /\ entry' = [entry EXCEPT ![cur] = <<>>]
      /\ want' = [want EXCEPT ![cur] = want[cur]] /\ UNCHANGED <<cur, alive>>
  BY <1>5, Zenon DEF SyscallTrapret
<1>8. <<>> \in Seq(Words) /\ <<>> \in Seq(Nat) /\ Len(<<>>) = 22 * Len(<<>>) /\ 2..Len(<<>>) = {} /\ ~(Len(<<>>) > 0)
  OBVIOUS
<1>9. Frames(cur, <<>>, <<>>, want[cur])
  BY <1>3, <1>8, Zenon DEF Frames
<1> QED
  BY <1>1, <1>5, <1>6, <1>7, <1>8, <1>9, OnCpu, CurStep, Zenon

\* exec, in a system call.
LEMMA ExecStep ==
  ASSUME SwitchConstants, SwInv, Exec PROVE SwInv'
<1>1. /\ at = "kernel" /\ at # "scheduler" /\ at' = "kernel" /\ entry[cur] = <<SYSCALL>>
      /\ regs' = regs /\ cur' = cur /\ alive' = alive /\ entry' = entry
  BY SMTT(30) DEF Exec, InSyscall
<1>2. Len(stack[cur]) = 22 /\ Frames(cur, stack[cur], <<SYSCALL>>, want[cur])
  BY <1>1, InCall, Zenon
<1>3. /\ stack[cur] \in Seq(Words) /\ want[cur] \in [Regs -> Words] /\ regs \in [Regs -> Words]
      /\ cur \in Nat /\ cur # 0
  BY <1>1, OnCpu, Zenon
<1>4. DOMAIN stack[cur] = 1..22
  BY <1>2, <1>3
<1> DEFINE new == Loaded(cur)
           t   == [i \in 1..22 |-> IF \E f \in Image : TfIndex(cur, f) = i
                                   THEN new[CHOOSE f \in Image : TfIndex(cur, f) = i] ELSE stack[cur][i]]
           w2  == [x \in Regs |-> IF x \in Image THEN new[x] ELSE want[cur][x]]
<1>5. new = [f \in {"rdi", "rsi", "rip", "rcx", "rsp"} |->
               Word("image", IF f = "rcx" THEN "rip" ELSE f, cur)] /\ DOMAIN new = Image
  BY Zenon DEF Loaded, Image
<1>6. stack' = [stack EXCEPT ![cur] = t] /\ want' = [want EXCEPT ![cur] = w2]
  <2> DEFINE T(n, d, e) == [i \in d |-> IF \E f \in e : TfIndex(cur, f) = i
                                        THEN n[CHOOSE f \in e : TfIndex(cur, f) = i] ELSE stack[cur][i]]
             W(n, e)    == [x \in Regs |-> IF x \in e THEN n[x] ELSE want[cur][x]]
             m          == [f \in {"rdi", "rsi", "rip", "rcx", "rsp"} |->
                              Word("image", IF f = "rcx" THEN "rip" ELSE f, cur)]
  <2>1. stack' = [stack EXCEPT ![cur] = T(m, DOMAIN stack[cur], DOMAIN m)]
    BY Zenon DEF Exec
  <2>2. want' = [want EXCEPT ![cur] = W(m, DOMAIN m)]
    BY Zenon DEF Exec
  <2>3. m = new /\ DOMAIN m = Image
    BY <1>5, Zenon
  <2>4. t = T(new, 1..22, Image) /\ w2 = W(new, Image)
    BY Zenon
  <2> HIDE DEF T, W, m, new, t, w2
  <2> QED
    BY <1>4, <2>1, <2>2, <2>3, <2>4, Zenon
<1>7. ASSUME NEW i \in 1..22
      PROVE  t[i] = IF trapframe[i] \in Image THEN new[trapframe[i]] ELSE stack[cur][i]
  <2>1. \A f \in Image : \E j \in 1..22 : f = trapframe[j]
    <3>1. /\ trapframe[7] = "rdi" /\ trapframe[6] = "rsi" /\ trapframe[18] = "rip" /\ trapframe[3] = "rcx"
          /\ trapframe[21] = "rsp"
      BY Zenon DEF trapframe
    <3>2. {7, 6, 18, 3, 21} \subseteq 1..22
      OBVIOUS
    <3> QED
      BY <3>1, <3>2, Zenon DEF Image
  <2>2. \A j \in 1..22 : TfIndex(cur, trapframe[j]) = j
    <3>1. \A j \in 1..22 : TfIndex(cur, trapframe[j]) = Len(stack[cur]) - 22 + j
      BY TfAt, Zenon
    <3> QED
      BY <1>2, <3>1
  <2>3. ASSUME NEW f \in Image PROVE TfIndex(cur, f) = i <=> f = trapframe[i]
    <3>1. PICK j \in 1..22 : f = trapframe[j]
      BY <2>1, Zenon
    <3>2. TfIndex(cur, f) = j /\ TfIndex(cur, trapframe[i]) = i
      BY <2>2, <3>1, Zenon
    <3> QED
      BY <3>1, <3>2, Zenon
  <2>4. CASE trapframe[i] \in Image
    <3>1. (CHOOSE f \in Image : TfIndex(cur, f) = i) = trapframe[i]
      BY <2>3, <2>4
    <3> QED
      BY <2>3, <2>4, <3>1, Zenon
  <2>5. CASE trapframe[i] \notin Image
    BY <2>3, <2>5, Zenon
  <2> QED
    BY <2>4, <2>5, Zenon
<1>8. DOMAIN t = 1..22 /\ t = [i \in 1..22 |-> t[i]]
  BY Zenon
<1> HIDE DEF t, w2, new
<1>9. t \in Seq(Words) /\ Len(t) = 22 /\ w2 \in [Regs -> Words] /\ Frames(cur, t, <<SYSCALL>>, w2)
  <2>1. \A i \in 1..22 : t[i] = IF trapframe[i] \in Image THEN Loaded(cur)[trapframe[i]] ELSE stack[cur][i]
    BY <1>7, Zenon DEF new
  <2>2. w2 = [x \in Regs |-> IF x \in Image THEN Loaded(cur)[x] ELSE want[cur][x]]
    BY Zenon DEF new, w2
  <2>3. ExecSound(cur, t, w2)
    BY <1>2, <1>3, <1>8, <2>1, <2>2, ExecFrames, ZenonT(40)
  <2> QED
    BY <2>3, Zenon DEF ExecSound
<1>10. entry' = [entry EXCEPT ![cur] = <<SYSCALL>>]
  BY <1>1, OnCpu, Zenon
<1>11. Len(t) = 22 * Len(<<SYSCALL>>) /\ <<SYSCALL>> # <<>>
  BY <1>9, OneEntry
<1>12. \A x \in CalleeSaved : regs'[x] = Kernel(cur, Len(<<SYSCALL>>))[x]
  BY <1>1, <1>3, OneEntry, Zenon DEF SwInv, SwitchPreserves
<1> QED
  BY <1>1, <1>3, <1>6, <1>9, <1>10, <1>11, <1>12, OneEntry, OnCpu, CurStep, Zenon

\* fork, in a system call.
LEMMA ForkStep ==
  ASSUME SwitchConstants, SwInv, NEW c \in Procs, Fork(c) PROVE SwInv'
<1>1. /\ at = "kernel" /\ at # "scheduler" /\ entry[cur] = <<SYSCALL>> /\ c \notin alive
      /\ regs' = regs /\ cur' = cur /\ at' = at /\ alive' = alive \cup {c}
  BY Zenon DEF Fork, InSyscall
<1>2. Len(stack[cur]) = 22 /\ Frames(cur, stack[cur], <<SYSCALL>>, want[cur])
  BY <1>1, InCall, Zenon
<1>3. /\ stack[cur] \in Seq(Words) /\ want[cur] \in [Regs -> Words] /\ cur \in alive /\ cur # 0
      /\ c # cur /\ c # 0 /\ alive \subseteq Procs /\ 0 \notin Procs
  BY <1>1, OnCpu, Zenon DEF SwitchConstants, SwInv, SwType
<1> DEFINE tf == [stack[cur] EXCEPT ![1] = Zero]
           w2 == [want[cur] EXCEPT !["rax"] = Zero]
           s2 == NewStack(tf)
<1>4. SubSeq(stack[cur], Len(stack[cur]) - Len(trapframe) + 1, Len(stack[cur])) = stack[cur]
  <2>1. Len(stack[cur]) - Len(trapframe) + 1 = 1
    BY <1>2, Tables
  <2>2. SubSeq(stack[cur], 1, Len(stack[cur])) = stack[cur]
    BY <1>3
  <2> QED
    BY <2>1, <2>2, Zenon
<1>5. /\ stack' = [stack EXCEPT ![c] = s2] /\ entry' = [entry EXCEPT ![c] = <<SYSCALL>>]
      /\ want' = [want EXCEPT ![c] = w2]
  BY <1>4, Zenon DEF Fork
<1>6. RaxSound(cur, stack[cur], want[cur], Zero)
  BY <1>2, <1>3, RaxFrames, WordsAre, Zenon
<1>7. tf \in Seq(Words) /\ Len(tf) = 22 /\ w2 \in [Regs -> Words] /\ Frames(cur, tf, <<SYSCALL>>, w2)
  BY <1>6, Zenon DEF RaxSound
<1> HIDE DEF tf, w2
<1>8. Frames(c, tf, <<SYSCALL>>, w2)
  BY <1>7, OneFrame, Zenon
<1>9. NewStackSound(c, tf, w2)
  BY <1>3, <1>7, <1>8, NewStackIs, Zenon
<1>10. /\ s2 \in Seq(Words) /\ Len(s2) = 30 /\ Saved(c, s2, 1)
       /\ Frames(c, s2, <<SYSCALL>>, w2)
  BY <1>9, Zenon DEF NewStackSound
<1> HIDE DEF s2
<1>11. /\ stack'[c] = s2 /\ \A p \in Procs \cup {0} : p # c => stack'[p] = stack[p]
       /\ stack' \in [Procs \cup {0} -> Seq(Words)]
  BY <1>5, <1>10, Zenon DEF SwInv, SwType
<1>12. /\ entry'[c] = <<SYSCALL>> /\ \A p \in Procs : p # c => entry'[p] = entry[p]
       /\ entry' \in [Procs -> Seq(Nat)]
  BY <1>5, OneEntry, Zenon DEF SwInv, SwType
<1>13. /\ want'[c] = w2 /\ \A p \in Procs : p # c => want'[p] = want[p]
       /\ want' \in [Procs -> [Regs -> Words]]
  BY <1>5, <1>7, Zenon DEF SwInv, SwType
<1>14. SwType'
  BY <1>1, <1>3, <1>11, <1>12, <1>13, SMTT(30) DEF SwInv, SwType
<1>15. ASSUME NEW p \in alive PROVE stack'[p] = stack[p] /\ entry'[p] = entry[p] /\ want'[p] = want[p]
  <2>1. p \in Procs /\ p \in Procs \cup {0} /\ p # c
    BY <1>1, <1>3, Zenon
  <2> QED
    BY <1>11, <1>12, <1>13, <2>1, Zenon
<1>16. ASSUME NEW p \in alive' PROVE Frames(p, stack'[p], entry'[p], want'[p])
  <2>1. CASE p = c
    BY <1>10, <1>11, <1>12, <1>13, <2>1, Zenon
  <2>2. CASE p \in alive
    <3>1. Frames(p, stack[p], entry[p], want[p])
      BY <2>2, Zenon DEF SwInv
    <3> QED
      BY <1>15, <2>2, <3>1, Zenon
  <2> QED
    BY <1>1, <2>1, <2>2, Zenon
<1>17. ASSUME NEW p \in alive' \ {cur'}
       PROVE  entry'[p] = <<SYSCALL>> /\ Len(stack'[p]) = 30 /\ Saved(p, stack'[p], 1)
  <2>1. CASE p = c
    BY <1>10, <1>11, <1>12, <2>1, Zenon
  <2>2. CASE p \in alive
    <3>1. p # cur
      BY <1>1, Zenon
    <3>2. entry[p] = <<SYSCALL>> /\ Len(stack[p]) = 30 /\ Saved(p, stack[p], 1)
      BY <2>2, <3>1, Zenon DEF SwInv
    <3> QED
      BY <1>15, <2>2, <3>2, Zenon
  <2> QED
    BY <1>1, <2>1, <2>2, Zenon
<1>18. stack'[0] = stack[0] /\ stack'[cur] = stack[cur] /\ entry'[cur] = entry[cur] /\ want'[cur] = want[cur]
  BY <1>3, <1>11, <1>15, Zenon
<1>19. Len(stack'[0]) = 8 /\ Saved(0, stack'[0], 0) /\ Len(stack'[cur]) = 22 * Len(entry'[cur])
  BY <1>3, <1>18, Zenon DEF SwInv
<1>20. SwitchPreserves'
  BY <1>1, <1>18, Zenon DEF SwInv, SwitchPreserves
<1> QED
  BY <1>1, <1>3, <1>14, <1>16, <1>17, <1>18, <1>19, <1>20, Zenon DEF SwInv

Resumed(r, s) == Pop(SwtchPop, r, s)
ResumeSound(p, r, s, n) ==
  /\ Resumed(r, s) \in [Regs -> Words]
  /\ s[8] = Pc("sched") => Restored(Resumed(r, s), p, n)

\* What swtch pops off the stack it switches to.
LEMMA ResumeIs ==
  ASSUME NEW p, NEW r \in [Regs -> Words], NEW s \in Seq(Words), NEW n, Len(s) >= 8, Saved(p, s, n)
  PROVE  ResumeSound(p, r, s, n)
<1> DEFINE q == Resumed(r, s)
<1>1. OffTop(q, SwtchPop, r, s)
  BY SwtchNames, PoppedReg, Zenon DEF Resumed
<1> HIDE DEF q
<1>2. \A i \in 1..7 : q[SwtchPop[i]] = s[i]
  BY <1>1, SwtchNames, Zenon DEF OffTop
<1>3. \A i \in 1..7 : s[i] \in Words
  OBVIOUS
<1>4. q = [x \in Regs |-> q[x]] /\ \A x \in Regs : x \notin Range(SwtchPop) => q[x] = r[x]
  BY <1>1, Zenon DEF OffTop
<1>5. \A x \in Range(SwtchPop) : \E i \in 1..7 : x = SwtchPop[i]
  <2>1. DOMAIN SwtchPop = 1..7
    BY SwtchNames
  <2> QED
    BY <2>1, Zenon DEF Range
<1>6. \A x \in Regs : q[x] \in Words
  <2> TAKE x \in Regs
  <2>1. x \notin Range(SwtchPop) => q[x] = r[x] /\ r[x] \in Words
    BY <1>4
  <2>2. ASSUME x \in Range(SwtchPop) PROVE q[x] \in Words
    <3>1. PICK i \in 1..7 : x = SwtchPop[i]
      BY <1>5, <2>2, Zenon
    <3> QED
      BY <1>2, <1>3, <3>1, Zenon
  <2> QED
    BY <2>1, <2>2, Zenon
<1>7. q \in [Regs -> Words]
  BY <1>4, <1>6
<1>8. ASSUME s[8] = Pc("sched") PROVE Restored(q, p, n)
  <2>1. Pc("sched") # Pc("syscall_trapret")
    BY DEF Pc, Word
  <2>2. \A i \in 1..7 : SwtchPop[i] \in CalleeSaved => s[i] = Kernel(p, n)[SwtchPop[i]]
    BY <1>8, <2>1, Zenon DEF Saved
  <2>3. ASSUME NEW x \in CalleeSaved PROVE q[x] = Kernel(p, n)[x]
    <3>1. PICK i \in 1..7 : x = SwtchPop[i]
      BY SwtchNames, Zenon
    <3> QED
      BY <1>2, <2>2, <3>1, Zenon
  <2> QED
    BY <2>3, Zenon DEF Restored
<1> QED
  BY <1>7, <1>8, Zenon DEF q, ResumeSound

\* swtch from a to b: a's stack is parked, b's is left as it was before.
SwtchedTo(a, b) ==
  /\ stack' = [stack EXCEPT ![a] = Parked(regs, stack[a]), ![b] = Left(stack[b])]
  /\ regs' = Resumed(regs, stack[b]) /\ regs' \in [Regs -> Words]
  /\ cur' = b /\ alive' = alive /\ entry' = entry /\ want' = want
  /\ at' = IF b = 0 THEN "scheduler" ELSE IF stack[b][8] = Pc("sched") THEN "kernel" ELSE "sysret"
  /\ stack[b][8] = Pc("sched") => Restored(regs', b, IF b = 0 THEN 0 ELSE 1)
  /\ b = 0 => stack[b][8] = Pc("sched")

\* swtch to a stack with a saved context.
LEMMA SwtchIs ==
  ASSUME NEW a, NEW b, Swtch(a, b), regs \in [Regs -> Words], stack[b] \in Seq(Words), Len(stack[b]) >= 8,
         Saved(b, stack[b], IF b = 0 THEN 0 ELSE 1)
  PROVE  SwtchedTo(a, b)
<1>1. Drop(stack[b], 7)[1] = stack[b][8]
  BY LeftIs, Zenon
<1>2. stack[b][8] # Pc("forkret") /\ (b = 0 => stack[b][8] = Pc("sched"))
  <2>1. Pc("sched") # Pc("forkret") /\ Pc("syscall_trapret") # Pc("forkret")
    BY DEF Pc, Word
  <2> QED
    BY <2>1, Zenon DEF Saved
<1>3. ResumeSound(b, regs, stack[b], IF b = 0 THEN 0 ELSE 1)
  BY ResumeIs, Zenon
<1>4. /\ regs' = Resumed(regs, stack[b]) /\ cur' = b /\ alive' = alive /\ entry' = entry /\ want' = want
  BY Zenon DEF Swtch, Resumed
<1>5. at' = IF b = 0 THEN "scheduler" ELSE IF stack[b][8] = Pc("sched") THEN "kernel" ELSE "sysret"
  BY <1>1, SwtchNames, Zenon DEF Swtch
<1>6. stack' = [stack EXCEPT ![a] = Parked(regs, stack[a]), ![b] = Left(stack[b])]
  BY <1>1, <1>2, SwtchNames, Zenon DEF Swtch, Parked, Left
<1> QED
  BY <1>2, <1>3, <1>4, <1>5, <1>6, Zenon DEF SwtchedTo, ResumeSound

\* sched() switches to the scheduler.
LEMMA SwtchOutStep ==
  ASSUME SwitchConstants, SwInv, SchedSwtch PROVE SwInv'
<1>1. at = "kernel" /\ at # "scheduler" /\ entry[cur] = <<SYSCALL>> /\ Swtch(cur, 0)
  BY Zenon DEF SchedSwtch, InSyscall
<1>2. Len(stack[cur]) = 22 /\ Frames(cur, stack[cur], <<SYSCALL>>, want[cur])
  BY <1>1, InCall, Zenon
<1>3. /\ stack[cur] \in Seq(Words) /\ regs \in [Regs -> Words] /\ cur # 0 /\ cur \in alive
      /\ cur \in Procs \cup {0} /\ 0 \in Procs \cup {0} /\ alive \subseteq Procs /\ 0 \notin Procs
  BY <1>1, OnCpu, Zenon DEF SwitchConstants, SwInv, SwType
<1>4. stack[0] \in Seq(Words) /\ Len(stack[0]) = 8 /\ Saved(0, stack[0], 0)
  BY <1>3, Zenon DEF SwInv, SwType
<1>5. Len(stack[0]) >= 8 /\ Len(stack[0]) - 8 = 0
  BY <1>4
<1>6. SwtchedTo(cur, 0)
  BY <1>1, <1>3, <1>4, <1>5, SwtchIs, Zenon
<1>7. /\ regs' \in [Regs -> Words] /\ cur' = 0 /\ alive' = alive /\ entry' = entry /\ want' = want
      /\ at' = "scheduler" /\ Restored(regs', 0, 0)
  BY <1>6, Zenon DEF SwtchedTo
<1> DEFINE q == Parked(regs, stack[cur])
<1>8. /\ q \in Seq(Words) /\ Len(q) = 8 + Len(stack[cur]) /\ q[8] = Pc("sched")
      /\ (\A i \in 1..7 : q[i] = regs[SwtchPop[i]]) /\ \A k \in 1..Len(stack[cur]) : q[8 + k] = stack[cur][k]
  BY <1>3, ParkedIs, ZenonT(40)
<1>9. Left(stack[0]) \in Seq(Words) /\ Left(stack[0]) = <<>>
  <2>1. Left(stack[0]) \in Seq(Words) /\ Len(Left(stack[0])) = 0
    BY <1>4, <1>5, LeftIs, Zenon
  <2> QED
    BY <2>1
<1> HIDE DEF q
<1>10. stack' = [stack EXCEPT ![cur] = q, ![0] = Left(stack[0])]
  BY <1>6, Zenon DEF SwtchedTo, q
<1>11. /\ stack'[cur] = q /\ stack'[0] = <<>> /\ (\A p \in Procs : p # cur => stack'[p] = stack[p])
       /\ stack' \in [Procs \cup {0} -> Seq(Words)]
  BY <1>3, <1>8, <1>9, <1>10, Zenon DEF SwInv, SwType
<1>12. Len(q) = 30 /\ Len(q) >= 8
  BY <1>2, <1>8, SMTT(30)
<1>13. Saved(cur, q, 1)
  <2>1. \A x \in CalleeSaved : regs[x] = Kernel(cur, 1)[x]
    BY <1>1, <1>3, OneEntry, Zenon DEF SwInv, SwitchPreserves
  <2> QED
    BY <1>8, <1>12, <2>1, Zenon DEF Saved
<1>14. Frames(cur, q, <<SYSCALL>>, want[cur])
  <2> DEFINE s == stack[cur]
  <2>1. Len(q) = 30 /\ Len(s) = 22 /\ \A k \in 1..22 : q[8 + k] = s[k]
    BY <1>2, <1>8, <1>12, Zenon
  <2> HIDE DEF s
  <2>3. \A i \in 1..22 : Field(q, 1, i) = Field(s, 1, i)
    BY <2>1, Raised, Zenon
  <2>2. \A i \in 1..22 : Field(q, 1, i) = Field(stack[cur], 1, i)
    BY <2>3, Zenon DEF s
  <2> QED
    BY <1>2, <2>2, SameCall, Zenon
<1>15. SwType'
  BY <1>3, <1>7, <1>11, Zenon DEF SwInv, SwType
<1>16. ASSUME NEW p \in alive'
       PROVE  /\ Frames(p, stack'[p], entry'[p], want'[p])
              /\ entry'[p] = <<SYSCALL>> /\ Len(stack'[p]) = 30 /\ Saved(p, stack'[p], 1)
  <2>1. CASE p = cur
    BY <1>1, <1>7, <1>11, <1>12, <1>13, <1>14, <2>1, Zenon
  <2>2. CASE p # cur
    <3>1. p \in alive /\ p \in Procs
      BY <1>3, <1>7, Zenon
    <3>2. /\ Frames(p, stack[p], entry[p], want[p])
          /\ entry[p] = <<SYSCALL>> /\ Len(stack[p]) = 30 /\ Saved(p, stack[p], 1)
      BY <2>2, <3>1, Zenon DEF SwInv
    <3> QED
      BY <1>7, <1>11, <2>2, <3>1, <3>2, Zenon
  <2> QED
    BY <2>1, <2>2, Zenon
<1>17. SwitchPreserves'
  BY <1>7, Zenon DEF SwitchPreserves, Restored
<1> QED
  BY <1>7, <1>11, <1>15, <1>16, <1>17, Zenon DEF SwInv

\* The scheduler switches to a process.
LEMMA RunStep ==
  ASSUME SwitchConstants, SwInv, NEW p \in Procs, Run(p) PROVE SwInv'
<1>1. at = "scheduler" /\ p \in alive /\ Swtch(0, p)
  BY Zenon DEF Run
<1>2. /\ cur = 0 /\ stack[0] = <<>> /\ p # 0 /\ regs \in [Regs -> Words] /\ stack[p] \in Seq(Words)
      /\ alive \subseteq Procs /\ 0 \notin Procs /\ entry[p] = <<SYSCALL>> /\ Len(stack[p]) = 30
      /\ Saved(p, stack[p], 1) /\ Frames(p, stack[p], <<SYSCALL>>, want[p])
  <2>1. /\ cur = 0 /\ p # 0 /\ regs \in [Regs -> Words] /\ alive \subseteq Procs /\ 0 \notin Procs
        /\ stack \in [Procs \cup {0} -> Seq(Words)]
    BY <1>1, Zenon DEF SwitchConstants, SwInv, SwType
  <2>2. p \in alive \ {cur} /\ p \in Procs \cup {0}
    BY <1>1, <2>1, Zenon
  <2>3. stack[p] \in Seq(Words)
    BY <2>1, <2>2, Zenon
  <2> QED
    BY <2>1, <2>2, <2>3, Zenon DEF SwInv
<1>3. Len(stack[p]) >= 8 /\ Len(stack[p]) - 8 = 22
  BY <1>2
<1>4. SwtchedTo(0, p)
  BY <1>1, <1>2, <1>3, SwtchIs, Zenon
<1>5. /\ regs' \in [Regs -> Words] /\ cur' = p /\ alive' = alive /\ entry' = entry /\ want' = want
      /\ at' = IF stack[p][8] = Pc("sched") THEN "kernel" ELSE "sysret"
      /\ stack[p][8] = Pc("sched") => Restored(regs', p, 1)
  BY <1>2, <1>4, Zenon DEF SwtchedTo
<1> DEFINE q == Parked(regs, stack[0])
           t == Left(stack[p])
<1>6. stack[0] \in Seq(Words) /\ Len(stack[0]) = 0 /\ regs \in [Regs -> Words]
  BY <1>2
<1>7. /\ q \in Seq(Words) /\ Len(q) = 8 + Len(stack[0]) /\ q[8] = Pc("sched")
      /\ \A i \in 1..7 : q[i] = regs[SwtchPop[i]]
  BY <1>6, ParkedIs, Zenon
<1>8. /\ t \in Seq(Words) /\ Len(t) = Len(stack[p]) - 8 /\ \A k \in 1..(Len(stack[p]) - 8) : t[k] = stack[p][8 + k]
  BY <1>2, <1>3, LeftIs, Zenon
<1> HIDE DEF q, t
<1>9. stack' = [stack EXCEPT ![0] = q, ![p] = t]
  BY <1>4, Zenon DEF SwtchedTo, q, t
<1>10. /\ stack'[0] = q /\ stack'[p] = t /\ (\A o \in Procs : o # p => stack'[o] = stack[o])
       /\ stack' \in [Procs \cup {0} -> Seq(Words)]
  BY <1>2, <1>7, <1>8, <1>9, Zenon DEF SwInv, SwType
<1>11. Len(q) = 8 /\ Len(q) >= 8 /\ Len(t) = 22 /\ \A k \in 1..22 : stack[p][8 + k] = t[k]
  <2>1. Len(q) = 8 + 0 /\ Len(t) = 22
    BY <1>3, <1>6, <1>7, <1>8, Zenon
  <2>2. \A k \in 1..22 : stack[p][8 + k] = t[k]
    BY <1>3, <1>8, Zenon
  <2> QED
    BY <2>1, <2>2
<1>12. Saved(0, q, 0)
  <2>1. \A x \in CalleeSaved : regs[x] = Kernel(0, 0)[x]
    BY <1>1, <1>2, Zenon DEF SwInv, SwitchPreserves
  <2> QED
    BY <1>7, <1>11, <2>1, Zenon DEF Saved
<1>13. Frames(p, t, <<SYSCALL>>, want[p])
  <2> DEFINE s == stack[p]
  <2>1. Len(s) = 30 /\ Len(t) = 22 /\ \A k \in 1..22 : s[8 + k] = t[k]
    BY <1>2, <1>11, Zenon
  <2> HIDE DEF s
  <2>2. \A i \in 1..22 : Field(s, 1, i) = Field(t, 1, i)
    BY <2>1, Raised, Zenon
  <2>3. \A i \in 1..22 : Field(stack[p], 1, i) = Field(t, 1, i)
    BY <2>2, Zenon DEF s
  <2> QED
    BY <1>2, <2>3, SameCall, Zenon
<1>14. SwType'
  BY <1>1, <1>2, <1>5, <1>10, Zenon DEF SwInv, SwType
<1>15. ASSUME NEW o \in alive'
       PROVE  /\ Frames(o, stack'[o], entry'[o], want'[o])
              /\ o # p => entry'[o] = <<SYSCALL>> /\ Len(stack'[o]) = 30 /\ Saved(o, stack'[o], 1)
  <2>1. CASE o = p
    BY <1>2, <1>5, <1>10, <1>13, <2>1, Zenon
  <2>2. CASE o # p
    <3>1. o \in alive /\ o \in Procs /\ o # cur
      BY <1>2, <1>5, Zenon
    <3>2. /\ Frames(o, stack[o], entry[o], want[o])
          /\ entry[o] = <<SYSCALL>> /\ Len(stack[o]) = 30 /\ Saved(o, stack[o], 1)
      BY <3>1, Zenon DEF SwInv
    <3> QED
      BY <1>5, <1>10, <2>2, <3>1, <3>2, Zenon
  <2> QED
    BY <2>1, <2>2, Zenon
<1>16. entry'[p] = <<SYSCALL>> /\ Len(entry'[p]) = 1 /\ entry'[p] # <<>> /\ Len(stack'[p]) = 22 * Len(entry'[p])
  <2>1. entry'[p] = <<SYSCALL>> /\ Len(stack'[p]) = 22 /\ <<SYSCALL>> # <<>>
    BY <1>2, <1>5, <1>10, <1>11, Zenon
  <2>2. Len(entry'[p]) = 1
    BY <2>1, OneEntry, Zenon
  <2>3. Len(stack'[p]) = 22 * Len(entry'[p])
    BY <2>1, <2>2
  <2> QED
    BY <2>1, <2>2, <2>3, Zenon
<1>17. SwitchPreserves'
  <2>1. at' \in {"kernel", "scheduler"} => stack[p][8] = Pc("sched")
    BY <1>5, Zenon
  <2> QED
    BY <1>2, <1>5, <1>16, <2>1, Zenon DEF SwitchPreserves, Restored
<1> QED
  BY <1>2, <1>5, <1>10, <1>11, <1>12, <1>14, <1>15, <1>16, <1>17, Zenon DEF SwInv

\* userinit's process, and the scheduler.
LEMMA InitSw ==
  ASSUME SwitchConstants, Init PROVE SwInv
<1> DEFINE first == First
           tf == FirstFrame
           w  == [first EXCEPT !["rip"] = first["rcx"], !["rflags"] = first["r11"]]
           none == [x \in Regs |-> Zero]
<1>1. {"r11", "rcx", "rsp", "cs", "ss", "rip", "rflags"} \subseteq Regs
  BY DEF Regs, GPRs, AllTraps, Range
<1>2. /\ first["r11"] = Word("init", "rflags", 0) /\ first["rcx"] = Word("init", "rip", 0)
      /\ first["rsp"] = Word("init", "rsp", 0) /\ first["cs"] = Selector("cs") /\ first["ss"] = Selector("ss")
      /\ \A x \in Regs : x \notin {"r11", "rcx", "rsp", "cs", "ss"} => first[x] = Zero
  BY <1>1 DEF First
<1>3. /\ Word("init", "rflags", 0) \in Words /\ Word("init", "rip", 0) \in Words /\ Word("init", "rsp", 0) \in Words
      /\ Selector("cs") \in Words /\ Selector("ss") \in Words /\ Zero \in Words
  <2>1. 0 \in Nat /\ "init" \in Kinds
    BY Zenon DEF Kinds
  <2>2. "rflags" \in Names /\ "rip" \in Names /\ "rsp" \in Names /\ "cs" \in Names /\ "ss" \in Names
    BY <1>1, Zenon DEF Names
  <2> QED
    BY <2>1, <2>2, WordsAre, Zenon
<1>4. first = [x \in Regs |-> first[x]]
  BY Zenon DEF First
<1>5. stack = [p \in Procs \cup {0} |-> IF p = 1 THEN NewStack(tf) ELSE <<>>]
  BY Zenon DEF Init, FirstStack
<1>6. /\ want = [p \in Procs |-> IF p = 1 THEN w ELSE none]
      /\ entry = [p \in Procs |-> IF p = 1 THEN <<SYSCALL>> ELSE <<>>]
      /\ regs = Kernel(0, 0) /\ cur = 0 /\ at = "scheduler" /\ alive = {1}
  BY Zenon DEF Init, FirstWant, FirstEntry
<1>0. tf = [i \in 1..22 |-> IF trapframe[i] \in {"r11", "rcx", "rsp"} THEN first[trapframe[i]] ELSE Zero]
  BY Tables, Zenon DEF FirstFrame
<1> HIDE DEF first, tf
<1>7. \A x \in Regs : first[x] \in Words
  <2> TAKE x \in Regs
  <2>1. CASE x \in {"r11", "rcx", "rsp", "cs", "ss"}
    BY <1>2, <1>3, <2>1, Zenon
  <2>2. CASE x \notin {"r11", "rcx", "rsp", "cs", "ss"}
    BY <1>2, <1>3, <2>2, Zenon
  <2> QED
    BY <2>1, <2>2, Zenon
<1>8. first \in [Regs -> Words]
  BY <1>4, <1>7, Zenon
<1>9. /\ w \in [Regs -> Words] /\ w["rip"] = first["rcx"] /\ w["rflags"] = first["r11"]
      /\ \A x \in Regs : x \notin {"rip", "rflags"} => w[x] = first[x]
  BY <1>1, <1>8, Zenon
<1>10. tf \in Seq(Words) /\ Len(tf) = 22
  <2>1. \A i \in 1..22 : tf[i] \in Words
    BY <1>0, <1>1, <1>3, <1>7, Zenon
  <2>2. tf = [i \in 1..22 |-> tf[i]]
    BY <1>0, Zenon
  <2> QED
    BY <2>1, <2>2
<1>11. ASSUME NEW i \in (1..15) \cup {21} PROVE tf[i] = w[trapframe[i]]
  <2>1. i \in 1..22 /\ i \notin {16, 17}
    OBVIOUS
  <2>2. trapframe[i] \in Regs
    BY <2>1, RegNames, Zenon
  <2>3. trapframe[i] \notin {"rip", "rflags", "cs", "ss"}
    BY DEF trapframe
  <2>4. w[trapframe[i]] = first[trapframe[i]]
    BY <1>9, <2>2, <2>3, Zenon
  <2>5. trapframe[i] \notin {"r11", "rcx", "rsp"} => first[trapframe[i]] = Zero
    BY <1>2, <2>2, <2>3, Zenon
  <2> HIDE DEF w
  <2> QED
    BY <1>0, <2>1, <2>4, <2>5, Zenon
<1> HIDE DEF w
<1>12. CallFrame(tf, w) 
  <2>1. \A i \in (1..15) \cup {21} : Field(tf, 1, i) = tf[i]
    <3>1. \A i \in (1..15) \cup {21} : i \in 1..22
      OBVIOUS
    <3> QED
      BY <1>10, <3>1, FieldsOf22, Zenon
  <2>2. w["rcx"] = first["rcx"] /\ w["r11"] = first["r11"] /\ w["cs"] = Selector("cs") /\ w["ss"] = Selector("ss")
    BY <1>1, <1>2, <1>9, Zenon
  <2> QED
    BY <1>9, <1>11, <2>1, <2>2, Zenon DEF CallFrame
<1>13. NewStackSound(1, tf, w)
  <2>1. Frames(1, tf, <<SYSCALL>>, w)
    BY <1>12, OneFrame, Zenon
  <2>2. 1 # 0
    OBVIOUS
  <2> QED
    BY <1>9, <1>10, <2>1, <2>2, NewStackIs, Zenon
<1> DEFINE s1 == NewStack(tf)
<1>14. s1 \in Seq(Words) /\ Len(s1) = 30 /\ Saved(1, s1, 1) /\ Frames(1, s1, <<SYSCALL>>, w)
  BY <1>13, Zenon DEF NewStackSound
<1> HIDE DEF s1
<1>15. 0 \notin Procs /\ 1 \in Procs /\ 0 # 1 /\ 0 \in Nat /\ <<>> \in Seq(Words) /\ <<>> \in Seq(Nat)
  BY DEF SwitchConstants
<1>16. stack = [p \in Procs \cup {0} |-> IF p = 1 THEN s1 ELSE <<>>]
  BY <1>5, Zenon DEF s1
<1>17. stack \in [Procs \cup {0} -> Seq(Words)] /\ stack[1] = s1 /\ stack[0] = <<>>
  BY <1>14, <1>15, <1>16, Zenon
<1>18. none \in [Regs -> Words]
  BY <1>3, Zenon
<1> HIDE DEF none
<1>19. want \in [Procs -> [Regs -> Words]] /\ want[1] = w
  BY <1>6, <1>9, <1>15, <1>18, Zenon
<1>20. entry \in [Procs -> Seq(Nat)] /\ entry[1] = <<SYSCALL>>
  BY <1>6, <1>15, OneEntry, Zenon
<1>21. Kernel(0, 0) \in [Regs -> Words]
  <2>1. "kernel" \in Kinds /\ 10 * 0 + 0 \in Nat /\ \A x \in Regs : x \in Names
    BY DEF Kinds, Names
  <2>2. \A x \in Regs : Word("kernel", x, 10 * 0 + 0) \in Words
    BY <2>1, WordsAre, Zenon
  <2> QED
    BY <2>2, Zenon DEF Kernel
<1>22. SwType
  BY <1>6, <1>15, <1>17, <1>19, <1>20, <1>21, Zenon DEF SwType
<1>23. SwitchPreserves
  BY <1>6, Zenon DEF SwitchPreserves
<1> QED
  BY <1>6, <1>14, <1>15, <1>17, <1>19, <1>20, <1>22, <1>23 DEF SwInv

\* The machine starts over.
LEMMA ResetStep == Reset => Init'
  BY Zenon DEF Reset, Init

\* Every step but that keeps the inductive invariant.
LEMMA NextSw ==
  ASSUME SwitchConstants, SwInv, [Next]_vars, ~Reset PROVE SwInv'
<1>1. CASE UNCHANGED vars
  BY <1>1, Zenon DEF vars, SwInv, SwType, SwitchPreserves
<1>2. CASE Next
  BY <1>2, UserRunsStep, TrapStep, TrapretStep, SyscallEntryStep, SyscallReturnsStep, SyscallTrapretStep,
     ExecStep, ForkStep, SwtchOutStep, RunStep, Zenon DEF Next
<1> QED
  BY <1>1, <1>2, Zenon

\* The inductive invariant holds for ever.
LEMMA SwInvHolds ==
  ASSUME SwitchConstants PROVE Spec => []SwInv
<1>1. Init => SwInv
  BY InitSw, Zenon
<1>2. SwInv /\ [Next]_vars /\ ~Reset => SwInv'
  BY NextSw
<1>3. Reset => Init'
  BY ResetStep
<1> QED
  BY <1>1, <1>2, <1>3, PTL DEF Spec

\* It says what the trapframe is.
LEMMA InvFrames ==
  ASSUME SwitchConstants, SwInv PROVE FrameIsUser
<1> SUFFICES ASSUME NEW p \in alive, entry[p] # <<>>
             PROVE  /\ \A x \in GPRs \cup {"rsp"} : Tf(p, x) = want[p][x]
                    /\ Tf(p, "rcx") = want[p]["rip"] /\ Tf(p, "r11") = want[p]["rflags"]
  BY Zenon DEF FrameIsUser
<1> DEFINE e == entry[p]
<1>1. e \in Seq(Nat) /\ Frames(p, stack[p], e, want[p])
  BY Zenon DEF SwInv, SwType
<1> HIDE DEF e
<1>2. e # <<>>
  BY Zenon DEF e
<1>3. Len(e) > 0
  BY <1>1, <1>2, EmptyEntry, Zenon
<1>4. Bottom(stack[p], e, want[p])
  BY <1>1, <1>3, Zenon DEF Frames
<1>5. \A i \in 1..22 : Tf(p, trapframe[i]) = Field(stack[p], 1, i)
  BY TfIs, Zenon
<1>6. ASSUME NEW x \in GPRs \cup {"rsp"} PROVE Tf(p, x) = want[p][x]
  <2>1. trapframe[21] = "rsp"
    BY Zenon DEF trapframe
  <2>2. PICK i \in (1..15) \cup {21} : x = trapframe[i]
    BY <2>1, RegNames, Zenon
  <2>3. i \in 1..22
    OBVIOUS
  <2> QED
    BY <1>4, <1>5, <2>2, <2>3, Zenon DEF Bottom
<1>7. Tf(p, "rcx") = want[p]["rip"] /\ Tf(p, "r11") = want[p]["rflags"]
  <2>1. "rcx" \in GPRs /\ "r11" \in GPRs
    <3>1. AllTraps[13] = "rcx" /\ AllTraps[5] = "r11"
      BY Zenon DEF AllTraps
    <3>2. 13 \in DOMAIN AllTraps /\ 5 \in DOMAIN AllTraps
      BY DEF AllTraps
    <3> QED
      BY <3>1, <3>2, Zenon DEF GPRs, Range
  <2> QED
    BY <1>4, <1>6, <2>1, Zenon DEF Bottom
<1> QED
  BY <1>6, <1>7, Zenon DEF e

\* Whatever interrupts of the kernel, forks, execs and turns of other processes
\* come in between, sysretq gives a program the registers it had, and swtch
\* and trapret give code of the kernel those a call preserves.
THEOREM RegistersAreRestored ==
  ASSUME SwitchConstants PROVE Spec => []RegistersRestored
<1>1. SwInv => RegistersRestored
  BY Zenon DEF SwInv, RegistersRestored, UserRestored
<1> QED
  BY <1>1, SwInvHolds, PTL

\* p->tf, read with the fields of struct trapframe, is the state of p's program
\* from its entry to the kernel until it returns.
THEOREM FrameIsTheUsers ==
  ASSUME SwitchConstants PROVE Spec => []FrameIsUser
<1>1. SwInv => FrameIsUser
  BY InvFrames, Zenon
<1> QED
  BY <1>1, SwInvHolds, PTL
=============================================================================
