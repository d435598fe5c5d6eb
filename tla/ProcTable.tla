------------------------------ MODULE ProcTable ------------------------------
(***************************************************************************)
(* The process table of crates/proc/src/proc.rs: fork, exit, wait, kill,   *)
(* sleep, wakeup, yield and the scheduler.                                 *)
(*                                                                         *)
(* There is one CPU and the kernel does not preempt: a process runs until  *)
(* it calls sched(), and what runs between two calls of sched() is one     *)
(* step.  Interrupt handlers call wakeup; they run when no spinlock is     *)
(* held, also between the passes of the scheduler over the table.          *)
(***************************************************************************)
EXTENDS Naturals, FiniteSets

CONSTANTS NPROC,     \* param: slots of the table
          MaxPid,    \* bound on the pids handed out
          KillPids   \* pids that processes pass to kill()

ASSUME ProcConstants == NPROC \in Nat \ {0} /\ MaxPid \in Nat \ {0} /\ KillPids \subseteq Nat

Slots    == 0..(NPROC - 1)
INITPROC == 0           \* userinit takes the first slot
NoProc   == NPROC       \* the null pointer
DEV      == NPROC + 1   \* any channel that is not a process: a buffer, the log, a pipe
Chans    == Slots \cup {NoProc, DEV}

VARIABLES state,    \* proc.state
          pid,      \* proc.pid
          parent,   \* proc.parent
          killed,   \* proc.killed
          chan,     \* proc.chan
          at,       \* where in the kernel the process continues when it runs
          nextpid,  \* NEXTPID
          cur,      \* the process the CPU runs, NoProc inside scheduler()
          scan,     \* loop index of scheduler(); NPROC between two passes
          skipped,  \* scheduler()'s count of slots passed over
          halted    \* the CPU waits in hlt

table == <<state, pid, parent, killed, chan, at, nextpid>>
cpu   == <<cur, scan, skipped, halted>>
vars  == <<state, pid, parent, killed, chan, at, nextpid, cur, scan, skipped, halted>>

States == {"UNUSED", "SLEEPING", "RUNNABLE", "RUNNING", "ZOMBIE"}
Places == {"user", "wait", "io", "exit"}

TypeOK == /\ state \in [Slots -> States]
          /\ pid \in [Slots -> Nat]
          /\ parent \in [Slots -> Slots \cup {NoProc}]
          /\ killed \in [Slots -> {0, 1}]
          /\ chan \in [Slots -> Chans]
          /\ at \in [Slots -> Places]
          /\ nextpid \in Nat \ {0}
          /\ cur \in Slots \cup {NoProc}
          /\ scan \in 0..NPROC
          /\ skipped \in Nat
          /\ halted \in BOOLEAN

-----------------------------------------------------------------------------
Lowest(S) == CHOOSE s \in S : \A t \in S : s <= t

Kids(p)    == {c \in Slots : parent[c] = p}
Zombies(p) == {c \in Kids(p) : state[c] = "ZOMBIE"}
Unused     == {s \in Slots : state[s] = "UNUSED"}

\* wakeup1: the processes asleep on channel c become runnable.
Wakeup1(st, c) ==
  [q \in Slots |-> IF st[q] = "SLEEPING" /\ chan[q] = c THEN "RUNNABLE" ELSE st[q]]

\* The process runs in the kernel or, with at = "user", its program.
Runs(p, places) == cur = p /\ at[p] \in places

\* sched(): the CPU goes back to the loop of scheduler().
Sched == cur' = NoProc /\ UNCHANGED <<scan, skipped, halted>>

\* sleep_proc by process p, which continues at place l once it runs again.
Sleep(p, c, l) ==
  /\ chan' = [chan EXCEPT ![p] = c]
  /\ state' = [state EXCEPT ![p] = "SLEEPING"]
  /\ at' = [at EXCEPT ![p] = l]
  /\ Sched

\* sleep_proc goes on when sched() returns; only who sleeps has a channel.
Awake(p) == [chan EXCEPT ![p] = NoProc]

-----------------------------------------------------------------------------
\* fork with allocproc; with no UNUSED slot it returns -1 and changes nothing.
\* Neither of them assigns killed.
Fork(p) ==
  /\ Runs(p, {"user"}) /\ Unused # {} /\ nextpid <= MaxPid
  /\ LET np == Lowest(Unused)
     IN /\ state' = [state EXCEPT ![np] = "RUNNABLE"]
        /\ pid' = [pid EXCEPT ![np] = nextpid]
        /\ parent' = [parent EXCEPT ![np] = p]
        /\ at' = [at EXCEPT ![np] = "user"]
  /\ nextpid' = nextpid + 1
  /\ UNCHANGED <<killed, chan, cpu>>

\* exit up to its critical section: files are closed and cwd is released, which
\* may sleep.  The first process never exits ("init exiting").
Exit(p) ==
  /\ Runs(p, {"user"}) /\ p # INITPROC
  /\ at' = [at EXCEPT ![p] = "exit"]
  /\ UNCHANGED <<state, pid, parent, killed, chan, nextpid, cpu>>

\* Variant: init is not told of the zombies it inherits.
ExitWakesParentOnly(p) == Wakeup1(state, parent[p])

\* Variant: exit wakes nobody.
ExitWakesNobody(p) == state

\* The parent is woken, or with a zombie to inherit also init.
ExitWakes(p) ==
  LET st == Wakeup1(state, parent[p])
  IN IF Zombies(p) = {} THEN st ELSE Wakeup1(st, INITPROC)

\* Variant: children keep their dead parent.
ReparentedNone(p) == parent

\* Abandoned children go to init.
Reparented(p) == [c \in Slots |-> IF parent[c] = p THEN INITPROC ELSE parent[c]]

\* The critical section of exit.
ExitLocked(p) ==
  /\ Runs(p, {"exit"})
  /\ state' = [ExitWakes(p) EXCEPT ![p] = "ZOMBIE"]
  /\ parent' = Reparented(p)
  /\ Sched
  /\ UNCHANGED <<pid, killed, chan, at, nextpid>>

\* wait frees the slot of a dead child.
Reap(p, c) ==
  /\ state' = [state EXCEPT ![c] = "UNUSED"]
  /\ pid' = [pid EXCEPT ![c] = 0]
  /\ parent' = [parent EXCEPT ![c] = NoProc]
  /\ killed' = [killed EXCEPT ![c] = 0]
  /\ at' = [at EXCEPT ![p] = "user"]
  /\ UNCHANGED <<chan, nextpid, cpu>>

\* One round of wait's loop.
Wait(p) ==
  /\ Runs(p, {"user", "wait"})
  /\ \/ /\ Zombies(p) # {}
        /\ Reap(p, Lowest(Zombies(p)))
     \/ /\ Zombies(p) = {} /\ (Kids(p) = {} \/ killed[p] # 0)
        /\ at' = [at EXCEPT ![p] = "user"]
        /\ UNCHANGED <<state, pid, parent, killed, chan, nextpid, cpu>>
     \/ /\ Zombies(p) = {} /\ Kids(p) # {} /\ killed[p] = 0
        /\ Sleep(p, p, "wait")
        /\ UNCHANGED <<pid, parent, killed, nextpid>>

\* A system call, or exit while it closes files, sleeps for an event.
SleepOn(p) ==
  /\ Runs(p, {"user", "io", "exit"})
  /\ Sleep(p, DEV, IF at[p] = "exit" THEN "exit" ELSE "io")
  /\ UNCHANGED <<pid, parent, killed, nextpid>>

\* The event it slept for has come: the system call returns.
IoDone(p) ==
  /\ Runs(p, {"io"})
  /\ at' = [at EXCEPT ![p] = "user"]
  /\ UNCHANGED <<state, pid, parent, killed, chan, nextpid, cpu>>

\* yield_proc.
Yield(p) ==
  /\ Runs(p, {"user"})
  /\ state' = [state EXCEPT ![p] = "RUNNABLE"]
  /\ Sched
  /\ UNCHANGED <<pid, parent, killed, chan, at, nextpid>>

\* Variant: kill wakes its target without looking at the state.
RouseAnyState(t) == "RUNNABLE"

\* kill wakes a process that sleeps.
Rouse(t) == IF state[t] = "SLEEPING" THEN "RUNNABLE" ELSE state[t]

\* kill: the first slot with that pid, whatever its state.
Kill(p, k) ==
  /\ Runs(p, {"user"})
  /\ \E t \in Slots :
       /\ pid[t] = k /\ \A s \in Slots : s < t => pid[s] # k
       /\ killed' = [killed EXCEPT ![t] = 1]
       /\ state' = [state EXCEPT ![t] = Rouse(t)]
  /\ UNCHANGED <<pid, parent, chan, at, nextpid, cpu>>

\* A device or timer interrupt: wakeup(chan), and hlt returns.
Interrupt ==
  /\ cur # NoProc \/ scan = NPROC
  /\ state' = Wakeup1(state, DEV)
  /\ halted' = FALSE
  /\ UNCHANGED <<pid, parent, killed, chan, at, nextpid, cur, scan, skipped>>

\* Variant: the loop over the table skips every other slot.
AfterSkips(i) == IF i + 2 < NPROC THEN i + 2 ELSE NPROC

\* scheduler() looks at one slot.
After(i) == i + 1

Schedule ==
  /\ cur = NoProc /\ scan < NPROC
  /\ IF state[scan] = "RUNNABLE"
       THEN /\ state' = [state EXCEPT ![scan] = "RUNNING"]
            /\ cur' = scan
            /\ skipped' = 0
            /\ chan' = Awake(scan)
       ELSE skipped' = skipped + 1 /\ UNCHANGED <<state, chan, cur>>
  /\ scan' = After(scan)
  /\ UNCHANGED <<pid, parent, killed, at, nextpid, halted>>

\* The end of a pass: the lock is released, and after a pass that found
\* nothing to run the CPU halts until the next interrupt.
EndPass ==
  /\ cur = NoProc /\ scan = NPROC /\ ~halted
  /\ IF skipped > NPROC THEN halted' = TRUE /\ skipped' = 0 /\ UNCHANGED scan
                        ELSE scan' = 0 /\ UNCHANGED <<halted, skipped>>
  /\ UNCHANGED <<table, cur>>

-----------------------------------------------------------------------------
\* userinit has made the first process; the table was zeroed.
Init == /\ state = [s \in Slots |-> IF s = INITPROC THEN "RUNNABLE" ELSE "UNUSED"]
        /\ pid = [s \in Slots |-> IF s = INITPROC THEN 1 ELSE 0]
        /\ parent = [s \in Slots |-> NoProc]
        /\ killed = [s \in Slots |-> 0]
        /\ chan = [s \in Slots |-> NoProc]
        /\ at = [s \in Slots |-> "user"]
        /\ nextpid = 2
        /\ cur = NoProc
        /\ scan = NPROC
        /\ skipped = 0
        /\ halted = FALSE

Process(p) == \/ Fork(p) \/ Exit(p) \/ ExitLocked(p) \/ Wait(p) \/ SleepOn(p)
              \/ IoDone(p) \/ Yield(p) \/ \E k \in KillPids : Kill(p, k)

Next == \/ \E p \in Slots : Process(p)
        \/ Interrupt \/ Schedule \/ EndPass

Spec == Init /\ [][Next]_vars

\* The scheduler runs, interrupts come, a process on the CPU leaves it or ends,
\* closing files and waiting for a device come to an end, and init calls wait
\* again and again (user/src/init.rs).
Fairness == /\ WF_vars(Schedule) /\ WF_vars(EndPass) /\ SF_vars(Interrupt)
            /\ SF_vars(Wait(INITPROC))
            /\ \A p \in Slots : /\ WF_vars(Exit(p) \/ (at[p] = "wait" /\ Wait(p)))
                                /\ SF_vars(ExitLocked(p) \/ IoDone(p))

FairSpec == Spec /\ Fairness

-----------------------------------------------------------------------------
Live == {s \in Slots : state[s] # "UNUSED"}

\* pids identify processes: fork gives a fresh one, wait erases it, and kill
\* and wait find at most one process by it.
PidsUnique ==
  /\ \A s \in Live : pid[s] \in 1..(nextpid - 1)
  /\ \A s, t \in Live : pid[s] = pid[t] => s = t

\* No orphans: every process but the first has a parent that has not exited,
\* so that somebody can wait() for it; a free slot is nobody's child.
ParentAlive ==
  /\ \A s \in Live \ {INITPROC} : parent[s] \in Live /\ state[parent[s]] # "ZOMBIE"
  /\ \A s \in Slots \ Live : parent[s] = NoProc

\* exit and wait do not miss each other: a process asleep in wait() has no
\* child that is already dead.
WaiterNotMissed ==
  \A p \in Slots : (state[p] = "SLEEPING" /\ at[p] = "wait") => Zombies(p) = {}

\* The three together: the family tree of the processes is kept.
FamilyKept == PidsUnique /\ ParentAlive /\ WaiterNotMissed

\* The CPU runs the process the table says is RUNNING, and no other.
OneRunning == \A p \in Slots : state[p] = "RUNNING" <=> cur = p

\* Neither kill nor wakeup revives a dead process, and only its parent frees
\* its slot.
DeadStayDead ==
  [][\A s \in Slots : state[s] = "ZOMBIE" =>
        \/ state'[s] = "ZOMBIE"
        \/ state'[s] = "UNUSED" /\ cur = parent[s]]_vars

\* A zombie whose parent is init is reaped, also one init inherited.
OrphanReaped ==
  \A s \in Slots : (state[s] = "ZOMBIE" /\ parent[s] = INITPROC) ~> state[s] = "UNUSED"

\* The scheduler reaches every runnable process.
RunnableRuns == \A s \in Slots : state[s] = "RUNNABLE" ~> state[s] = "RUNNING"

\* kill affects only the process with the given pid: a process is not born killed.
BornAlive ==
  [][\A s \in Slots : (state[s] = "UNUSED" /\ state'[s] # "UNUSED") => killed'[s] = 0]_vars

\* A process that was killed comes to an end.
KilledDies == \A s \in Slots \ {INITPROC} : killed[s] = 1 ~> (killed[s] = 0 \/ state[s] = "ZOMBIE")
=============================================================================
