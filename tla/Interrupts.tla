------------------------------ MODULE Interrupts ------------------------------
(***************************************************************************)
(* Interrupt masking on the one CPU: pushcli, popcli, acquire and release  *)
(* of kernel/src/glue.rs, under the scheduler, sched() and sleep() of      *)
(* crates/proc/src/proc.rs and the interrupt gates of                      *)
(* crates/arch/src/traps.rs.                                               *)
(*                                                                         *)
(* Every call of acquire, release or sched is a step, and an interrupt may *)
(* come between any two while FL_IF is set.                                *)
(***************************************************************************)
EXTENDS Integers, Sequences

CONSTANTS Threads, Scheduler, Calls

VARIABLES FL_IF,       \* the interrupt flag of the processor
          CLI_DEPTH, INT_ENABLED,
          ncli,        \* the ncli that sched() reads through my_cpu()
          ptable,      \* ptable.lock.locked
          cpu,         \* whose stack the processor is on
          spos,        \* where scheduler() is in its loop
          state,       \* of every process: RUNNABLE, RUNNING or SLEEPING
          call, pos,   \* the call a process is in, and its next operation there
          intrPanicked

intrVars == <<FL_IF, CLI_DEPTH, INT_ENABLED, ncli, ptable, cpu, spos, state, call, pos, intrPanicked>>

\* What the kernel paths do to the locks.  "lk" is any spinlock, "pt" is
\* ptable.lock, and "ide" is the IDE_LOCK that sleep() gets from iderw, whose
\* own acquire() is empty.
Acq(lk) == <<"acquire", lk>>
Rel(lk) == <<"release", lk>>
SCHED   == <<"sched", "pt">>

Script(c) ==
  CASE c = "user"    -> <<>>
    [] c = "forkret" -> <<Rel("pt")>>
    [] c = "lock"    -> <<Acq("lk"), Rel("lk")>>
    [] c = "wakeup"  -> <<Acq("lk"), Acq("pt"), Rel("pt"), Rel("lk")>>
    [] c = "wait"    -> <<Acq("pt"), SCHED, Rel("pt")>>
    [] c = "sleep"   -> <<Acq("lk"), Acq("pt"), Rel("lk"), SCHED, Rel("pt"), Acq("lk"), Rel("lk")>>
    [] c = "iderw"   -> <<Acq("pt"), Rel("ide"), SCHED, Rel("pt"), Acq("ide")>>

CallsKnown == Calls \subseteq {"lock", "wakeup", "wait", "sleep", "iderw"} /\ Scheduler \notin Threads

IntrTypeOK == /\ FL_IF \in BOOLEAN /\ CLI_DEPTH \in Nat /\ INT_ENABLED \in BOOLEAN
              /\ ncli \in {0, 1} /\ ptable \in BOOLEAN
              /\ cpu \in Threads \cup {Scheduler}
              /\ spos \in {"sti", "acquire", "scan"}
              /\ state \in [Threads -> {"RUNNABLE", "RUNNING", "SLEEPING"}]
              /\ call \in [Threads -> Calls \cup {"user", "forkret"}]
              /\ pos \in [Threads -> 1..8]
              /\ intrPanicked \in BOOLEAN

-----------------------------------------------------------------------------
Pushcli == /\ INT_ENABLED' = (IF CLI_DEPTH = 0 THEN FL_IF ELSE INT_ENABLED)
           /\ FL_IF' = FALSE
           /\ CLI_DEPTH' = CLI_DEPTH + 1

\* Variant: popcli unmasks interrupts at any depth.
PopcliEager == /\ CLI_DEPTH' = CLI_DEPTH - 1
               /\ FL_IF' = (FL_IF \/ INT_ENABLED)
               /\ UNCHANGED INT_ENABLED

Popcli == /\ CLI_DEPTH' = CLI_DEPTH - 1
          /\ FL_IF' = (FL_IF \/ (CLI_DEPTH' = 0 /\ INT_ENABLED))
          /\ UNCHANGED INT_ENABLED

\* acquire() never waits: it masks interrupts and sets locked.
Acquire(lk) == Pushcli /\ ptable' = (ptable \/ lk = "pt")
Release(lk) == Popcli /\ ptable' = (ptable /\ lk # "pt")

-----------------------------------------------------------------------------
\* scheduler(): sti, take ptable.lock, run processes, release it.
Sti == /\ ~intrPanicked /\ cpu = Scheduler /\ spos = "sti"
       /\ FL_IF' = TRUE
       /\ spos' = "acquire"
       /\ UNCHANGED <<CLI_DEPTH, INT_ENABLED, ncli, ptable, cpu, state, call, pos, intrPanicked>>

BeginPass == /\ ~intrPanicked /\ cpu = Scheduler /\ spos = "acquire"
             /\ Acquire("pt")
             /\ spos' = "scan"
             /\ UNCHANGED <<ncli, cpu, state, call, pos, intrPanicked>>

EndPass == /\ ~intrPanicked /\ cpu = Scheduler /\ spos = "scan"
           /\ Release("pt")
           /\ spos' = "sti"
           /\ UNCHANGED <<ncli, cpu, state, call, pos, intrPanicked>>

\* swtch to a runnable process, which goes on where it called sched().
Dispatch(p) == /\ ~intrPanicked /\ cpu = Scheduler /\ spos = "scan" /\ state[p] = "RUNNABLE"
               /\ state' = [state EXCEPT ![p] = "RUNNING"]
               /\ cpu' = p
               /\ UNCHANGED <<FL_IF, CLI_DEPTH, INT_ENABLED, ncli, ptable, spos, call, pos, intrPanicked>>

\* The syscall instruction masks interrupts (MSR_SFMASK), sysret unmasks them.
Syscall(p, c) == /\ ~intrPanicked /\ cpu = p /\ call[p] = "user"
                 /\ call' = [call EXCEPT ![p] = c]
                 /\ pos' = [pos EXCEPT ![p] = 1]
                 /\ FL_IF' = FALSE
                 /\ UNCHANGED <<CLI_DEPTH, INT_ENABLED, ncli, ptable, cpu, spos, state, intrPanicked>>

Returned(p) == ~intrPanicked /\ cpu = p /\ call[p] # "user" /\ pos[p] > Len(Script(call[p]))

\* A system call, or the start of the first process, goes on to its next path.
Continue(p, c) == /\ Returned(p)
                  /\ call' = [call EXCEPT ![p] = c]
                  /\ pos' = [pos EXCEPT ![p] = 1]
                  /\ UNCHANGED <<FL_IF, CLI_DEPTH, INT_ENABLED, ncli, ptable, cpu, spos, state, intrPanicked>>

Sysret(p) == /\ Returned(p)
             /\ call' = [call EXCEPT ![p] = "user"]
             /\ pos' = [pos EXCEPT ![p] = 1]
             /\ FL_IF' = TRUE
             /\ UNCHANGED <<CLI_DEPTH, INT_ENABLED, ncli, ptable, cpu, spos, state, intrPanicked>>

\* The next operation of a process in the kernel.
Doing(p, op) == ~intrPanicked /\ cpu = p /\ pos[p] <= Len(Script(call[p])) /\ Script(call[p])[pos[p]] = op
Step(p)      == pos' = [pos EXCEPT ![p] = @ + 1] /\ UNCHANGED <<ncli, spos, call>>

Lock(p, lk)   == Doing(p, Acq(lk)) /\ Acquire(lk) /\ Step(p) /\ UNCHANGED <<cpu, state, intrPanicked>>
Unlock(p, lk) == Doing(p, Rel(lk)) /\ Release(lk) /\ Step(p) /\ UNCHANGED <<cpu, state, intrPanicked>>

\* sched(): its checks, and the switch to the scheduler.  The caller has set its
\* state to SLEEPING.
SchedOk == ptable /\ ncli = 1 /\ ~FL_IF

Sched(p) == /\ Doing(p, SCHED)
            /\ state' = [state EXCEPT ![p] = "SLEEPING"]
            /\ \/ SchedOk /\ cpu' = Scheduler /\ Step(p) /\ UNCHANGED intrPanicked
               \/ ~SchedOk /\ intrPanicked' = TRUE /\ UNCHANGED <<cpu, pos, ncli, spos, call>>
            /\ UNCHANGED <<FL_IF, CLI_DEPTH, INT_ENABLED, ptable>>

\* An interrupt gate clears FL_IF; trap() takes and releases a lock around
\* wakeup(), which takes and releases ptable.lock; iret restores FL_IF.
Interrupt == /\ ~intrPanicked /\ FL_IF
             /\ INT_ENABLED' = (CLI_DEPTH # 0 /\ INT_ENABLED)
             /\ ptable' = FALSE
             /\ \/ \E p \in Threads : /\ state[p] = "SLEEPING"
                                    /\ state' = [state EXCEPT ![p] = "RUNNABLE"]
                \/ UNCHANGED state
             /\ UNCHANGED <<FL_IF, CLI_DEPTH, ncli, cpu, spos, call, pos, intrPanicked>>

\* panic!() stops the kernel for good.
IntrHalted == intrPanicked /\ UNCHANGED intrVars

-----------------------------------------------------------------------------
\* seginit() zeroes the page that my_cpu() reads its pointer from and nobody
\* stores one there, so what sched() finds in ncli is arbitrary.
IntrInit == /\ FL_IF = FALSE /\ CLI_DEPTH = 0 /\ INT_ENABLED = FALSE
            /\ ncli \in {0, 1}
            /\ ptable = FALSE
            /\ cpu = Scheduler /\ spos = "sti"
            /\ state = [p \in Threads |-> "RUNNABLE"]
            /\ call = [p \in Threads |-> "forkret"] /\ pos = [p \in Threads |-> 1]
            /\ intrPanicked = FALSE

IntrNext == \/ Sti \/ BeginPass \/ EndPass \/ Interrupt \/ IntrHalted
            \/ \E p \in Threads : \/ Dispatch(p) \/ Sysret(p) \/ Sched(p)
                                \/ \E c \in Calls : Syscall(p, c) \/ Continue(p, c)
                                \/ \E lk \in {"lk", "pt", "ide"} : Lock(p, lk) \/ Unlock(p, lk)

IntrSpec == IntrInit /\ [][IntrNext]_intrVars

-----------------------------------------------------------------------------
\* No interrupt handler runs inside a critical section, and the nesting count is
\* back at zero whenever user code or the scheduler's idle part runs.
MaskedWhileLocked ==
  ~intrPanicked => /\ CLI_DEPTH >= 0
                   /\ CLI_DEPTH > 0 => ~FL_IF
                   /\ ptable => CLI_DEPTH > 0
                   /\ (cpu = Scheduler) => CLI_DEPTH = (IF spos = "scan" THEN 1 ELSE 0)
                   /\ \A p \in Threads : (cpu = p /\ call[p] = "user") => CLI_DEPTH = 0

\* A process that calls sched() holds ptable.lock and no other lock, with
\* interrupts masked: no wakeup can come between its last check and the switch.
SchedMasked == \A p \in Threads : Doing(p, SCHED) => ptable /\ CLI_DEPTH = 1 /\ ~FL_IF

\* No handler runs inside a critical section, and sched() is entered with one
\* lock held and interrupts masked.
Masking == MaskedWhileLocked /\ SchedMasked

\* Once sleep() holds ptable.lock, no wakeup can be missed: interrupts stay
\* masked until the process is off the processor.
NoWakeupWindow == \A p \in Threads : Doing(p, SCHED) => ~FL_IF

\* sched() enters the scheduler when its caller holds only ptable.lock and has
\* changed its state.
SchedEnters ==
  [][\A p \in Threads : (Doing(p, SCHED) /\ ptable /\ CLI_DEPTH = 1 /\ ~FL_IF /\ state' # state) => ~intrPanicked']_intrVars
=============================================================================
