------------------------------- MODULE Switch -------------------------------
(***************************************************************************)
(* The assembly between a user program and the kernel, and between two     *)
(* processes: vectors.S, alltraps, trapret, syscall_entry and              *)
(* syscall_trapret of trapasm.S, swtch.S, and the stack that allocproc,    *)
(* userinit and fork of proc.rs lay out for a process that has not run.    *)
(*                                                                         *)
(* A stack is a sequence of words, its top first, and a word says which    *)
(* register of whom it holds, so that a word that comes back into another  *)
(* register, or to another process, shows.  One CPU; the checks of sched() *)
(* and the locks are left to Interrupts.tla and ProcTable.tla.             *)
(***************************************************************************)
EXTENDS Naturals, Sequences, Functions

CONSTANTS Procs,    \* 1..n; the stack 0 is that of the scheduler
          Vectors,  \* the interrupts that happen
          MaxNest   \* frames on one kernel stack

SwitchConstants ==
  /\ Procs \subseteq Nat \ {0} /\ 1 \in Procs
  /\ Vectors \subseteq 32..255 /\ MaxNest \in Nat

VARIABLES regs,     \* the registers of the CPU
          stack,
          cur,      \* the process on the CPU, 0 for the scheduler
          at,       \* "user", "kernel", "sysret" or "scheduler"
          alive,    \* processes that exist
          entry,    \* how the frames on a kernel stack came there
          want,     \* what the program of a process has to find in its registers
          started   \* processes that have been through forkret

vars == <<regs, stack, cur, at, alive, entry, want, started>>

Word(kind, name, n) == <<kind, name, n>>
Zero == Word("zero", "zero", 0)
Pc(name) == Word("pc", name, 0)
Selector(x) == Word("user", x, 0)     \* cs and ss of a program
SYSCALL == 256                        \* the entry that is no vector

-----------------------------------------------------------------------------
\* What the assembly pushes and pops, and what the structures call it.
\* Variant: the frame is pushed with rsi and rdi exchanged.
AllTrapsSwapped == <<"r15", "r14", "r13", "r12", "r11", "r10", "r9", "r8",
                     "rsi", "rdi", "rbp", "rdx", "rcx", "rbx", "rax">>
AllTraps == <<"r15", "r14", "r13", "r12", "r11", "r10", "r9", "r8",
              "rdi", "rsi", "rbp", "rdx", "rcx", "rbx", "rax">>
\* Variant: the frame is popped with rsi and rdi exchanged.
TrapRetSwapped == <<"rax", "rbx", "rcx", "rdx", "rbp", "rdi", "rsi", "r8",
                    "r9", "r10", "r11", "r12", "r13", "r14", "r15">>
TrapRet  == <<"rax", "rbx", "rcx", "rdx", "rbp", "rsi", "rdi", "r8",
              "r9", "r10", "r11", "r12", "r13", "r14", "r15">>
SwtchPush == <<"rbp", "rbx", "r11", "r12", "r13", "r14", "r15">>
SwtchPop  == <<"r15", "r14", "r13", "r12", "r11", "rbx", "rbp">>
trapframe == <<"rax", "rbx", "rcx", "rdx", "rbp", "rsi", "rdi", "r8", "r9", "r10", "r11",
               "r12", "r13", "r14", "r15", "trapno", "err", "rip", "cs", "rflags", "rsp", "ss">>
Context   == <<"r15", "r14", "r13", "r12", "rbx", "rbp", "rip">>

GPRs == Range(AllTraps)
Regs == GPRs \cup {"rip", "cs", "rflags", "rsp", "ss"}
CalleeSaved == {"rbx", "rbp", "r12", "r13", "r14", "r15"}

Push(names, r, s) == [i \in 1..Len(names) |-> r[names[Len(names) + 1 - i]]] \o s
Pop(names, r, s)  == [x \in Regs |-> IF x \in Range(names)
                                     THEN s[CHOOSE i \in 1..Len(names) : names[i] = x] ELSE r[x]]
Drop(s, n) == SubSeq(s, n + 1, Len(s))

\* Field f of the frame at the bottom of p's stack, where p->tf points.
TfIndex(p, f) == Len(stack[p]) - Len(trapframe) + (CHOOSE i \in 1..Len(trapframe) : trapframe[i] = f)
Tf(p, f) == stack[p][TfIndex(p, f)]

\* What the program of p, and the code of the kernel working for p at nesting
\* n, have in their registers.
User(p, k)   == [x \in Regs |-> IF x \in {"cs", "ss"} THEN Selector(x) ELSE Word("user", x, 10 * p + k)]
Kernel(p, n) == [x \in Regs |-> Word("kernel", x, 10 * p + n)]

-----------------------------------------------------------------------------
\* vectors.S: an interrupt comes without an error code, and its vector pushes
\* a zero in its place; then the number.
VectorWords(v) == <<Word("trap", "trapno", v), Zero>>

\* The program goes on, and all its registers change.
UserRuns ==
  /\ at = "user"
  /\ \E k \in {0, 1} : regs' = User(cur, k) /\ want' = [want EXCEPT ![cur] = User(cur, k)]
  /\ UNCHANGED <<stack, cur, at, alive, entry, started>>

\* An interrupt of the kernel, up to the call of trap().  A fault there is a
\* panic.
Trap(v) ==
  /\ at = "kernel" /\ Len(entry[cur]) < MaxNest
  /\ LET hw == Push(<<"ss", "rsp", "rflags", "cs", "rip">>, regs, stack[cur])
     IN stack' = [stack EXCEPT ![cur] = Push(AllTraps, regs, VectorWords(v) \o hw)]
  /\ entry' = [entry EXCEPT ![cur] = Append(@, v)]
  /\ regs' = Kernel(cur, Len(entry[cur]) + 1)
  /\ UNCHANGED <<cur, at, alive, want, started>>

\* trap() has returned: trapret, and iretq.
Trapret ==
  /\ at = "kernel" /\ entry[cur] # <<>> /\ entry[cur][Len(entry[cur])] # SYSCALL
  /\ LET s == Drop(stack[cur], Len(TrapRet) + 2)
     IN /\ regs' = Pop(<<"rip", "cs", "rflags", "rsp", "ss">>, Pop(TrapRet, regs, stack[cur]), s)
        /\ stack' = [stack EXCEPT ![cur] = Drop(s, 5)]
  /\ entry' = [entry EXCEPT ![cur] = SubSeq(@, 1, Len(@) - 1)]
  /\ UNCHANGED <<cur, at, alive, want, started>>

\* The syscall instruction keeps rip in rcx and rflags in r11; syscall_entry
\* finds the kernel stack and builds the frame, up to the call of syscall().
SyscallEntry ==
  /\ at = "user"
  /\ LET r == [regs EXCEPT !["rcx"] = regs["rip"], !["r11"] = regs["rflags"]]
     IN /\ stack' = [stack EXCEPT ![cur] =
             Push(AllTraps, r, <<Zero, Zero, r["rcx"], Zero, r["r11"], r["rsp"], Zero>>)]
        /\ want' = [want EXCEPT ![cur] = r]
  /\ entry' = [entry EXCEPT ![cur] = <<SYSCALL>>]
  /\ regs' = Kernel(cur, 1)
  /\ at' = "kernel"
  /\ UNCHANGED <<cur, alive, started>>

InSyscall == at = "kernel" /\ entry[cur] = <<SYSCALL>>

\* syscall() stores the result and returns to syscall_trapret.
SetTf(p, f, w) == [stack[p] EXCEPT ![TfIndex(p, f)] = w]
SyscallReturns ==
  /\ InSyscall
  /\ LET w == Word("result", "rax", cur)
     IN /\ stack' = [stack EXCEPT ![cur] = SetTf(cur, "rax", w)]
        /\ want' = [want EXCEPT ![cur]["rax"] = w]
  /\ at' = "sysret"
  /\ UNCHANGED <<regs, cur, alive, entry, started>>

\* syscall_trapret, and sysretq: rip comes from rcx, rflags from r11.
SyscallTrapret ==
  /\ at = "sysret"
  /\ LET r == Pop(TrapRet, regs, stack[cur])
         s == Drop(stack[cur], Len(TrapRet) + 5)
     IN regs' = [r EXCEPT !["rsp"] = s[1], !["rip"] = r["rcx"], !["rflags"] = r["r11"],
                          !["cs"] = Selector("cs"), !["ss"] = Selector("ss")]
  /\ stack' = [stack EXCEPT ![cur] = <<>>]
  /\ entry' = [entry EXCEPT ![cur] = <<>>]
  /\ at' = "user"
  /\ UNCHANGED <<cur, alive, want, started>>

\* exec: the frame gets the entry point, the arguments and the new stack.
Exec ==
  /\ InSyscall
  /\ LET new == [f \in {"rdi", "rsi", "rip", "rcx", "rsp"} |->
                   Word("image", IF f = "rcx" THEN "rip" ELSE f, cur)]
     IN /\ stack' = [stack EXCEPT ![cur] = [i \in DOMAIN @ |->
             IF \E f \in DOMAIN new : TfIndex(cur, f) = i
             THEN new[CHOOSE f \in DOMAIN new : TfIndex(cur, f) = i] ELSE @[i]]]
        /\ want' = [want EXCEPT ![cur] = [x \in Regs |-> IF x \in DOMAIN new THEN new[x] ELSE @[x]]]
  /\ UNCHANGED <<regs, cur, at, alive, entry, started>>

-----------------------------------------------------------------------------
\* allocproc: the context, the return address of forkret, and the frame.
NewStack(tf) ==
  [i \in 1..Len(Context) |-> IF Context[i] = "rip" THEN Pc("forkret") ELSE Zero]
  \o <<Pc("syscall_trapret")>> \o tf

\* fork: the child gets a copy of the frame, with 0 for the result.
Fork(c) ==
  /\ InSyscall /\ c \notin alive
  /\ alive' = alive \cup {c}
  /\ LET tf == SubSeq(stack[cur], Len(stack[cur]) - Len(trapframe) + 1, Len(stack[cur]))
     IN stack' = [stack EXCEPT ![c] = NewStack([tf EXCEPT ![1] = Zero])]
  /\ entry' = [entry EXCEPT ![c] = <<SYSCALL>>]
  /\ want' = [want EXCEPT ![c] = [want[cur] EXCEPT !["rax"] = Zero]]
  /\ UNCHANGED <<regs, cur, at, started>>

\* swtch from the stack of a to that of b: what is pushed on the one, and
\* what is left of the other.
Swtch(a, b) ==
  LET left == Push(SwtchPush, regs, <<Pc("sched")>> \o stack[a])
      ret  == Drop(stack[b], Len(SwtchPop))
  IN /\ regs' = Pop(SwtchPop, regs, stack[b])
     /\ stack' = [stack EXCEPT ![a] = left, ![b] = IF ret[1] = Pc("forkret") THEN Drop(ret, 2) ELSE Tail(ret)]
     /\ cur' = b
     /\ started' = IF ret[1] = Pc("forkret") THEN started \cup {b} ELSE started
     /\ at' = IF b = 0 THEN "scheduler" ELSE IF ret[1] = Pc("sched") THEN "kernel" ELSE "sysret"
     /\ UNCHANGED <<alive, entry, want>>

\* sched(), for sleep and yield_proc, and the scheduler's choice.
SchedSwtch == InSyscall /\ Swtch(cur, 0)
Run(p)     == at = "scheduler" /\ p \in alive /\ Swtch(0, p)

-----------------------------------------------------------------------------
\* userinit has made the first process: its registers, and its stack.
First == [x \in Regs |-> CASE x = "r11" -> Word("init", "rflags", 0)
                           [] x = "rcx" -> Word("init", "rip", 0)
                           [] x = "rsp" -> Word("init", "rsp", 0)
                           [] x \in {"cs", "ss"} -> Selector(x)
                           [] OTHER -> Zero]
FirstFrame == [i \in 1..Len(trapframe) |->
                 IF trapframe[i] \in {"r11", "rcx", "rsp"} THEN First[trapframe[i]] ELSE Zero]
FirstStack == [p \in Procs \cup {0} |-> IF p = 1 THEN NewStack(FirstFrame) ELSE <<>>]
FirstWant  == [p \in Procs |-> IF p = 1 THEN [First EXCEPT !["rip"] = First["rcx"], !["rflags"] = First["r11"]]
                               ELSE [x \in Regs |-> Zero]]
FirstEntry == [p \in Procs |-> IF p = 1 THEN <<SYSCALL>> ELSE <<>>]

\* The scheduler starts.
Init ==
  /\ stack = FirstStack /\ want = FirstWant /\ entry = FirstEntry
  /\ regs = Kernel(0, 0)
  /\ cur = 0 /\ at = "scheduler" /\ alive = {1}
  /\ started = {}

\* A trap or an interrupt of a program: the processor takes the stack for it
\* from rsp0 of the task state segment, which seginit leaves 0 and the stub
\* of switchuvm never sets.  No page lies below address 0, so the frame
\* cannot be pushed, nor that of the double fault; the machine starts over.
Reset ==
  /\ at = "user"
  /\ stack' = FirstStack /\ want' = FirstWant /\ entry' = FirstEntry
  /\ regs' = Kernel(0, 0)
  /\ cur' = 0 /\ at' = "scheduler" /\ alive' = {1}
  /\ started' = {}

Next == \/ Reset \/ UserRuns \/ Trapret \/ SyscallEntry \/ SyscallReturns \/ SyscallTrapret \/ Exec
        \/ SchedSwtch
        \/ \E v \in Vectors : Trap(v)
        \/ \E p \in Procs : Fork(p) \/ Run(p)

Spec == Init /\ [][Next]_vars

-----------------------------------------------------------------------------
\* A program finds its registers as they were when it entered the kernel,
\* whatever came in between - interrupts of the kernel, forks, an exec, turns
\* of the other processes; a system call changes its result, rcx and r11, and
\* an exec what it has to.
UserRestored == at = "user" => regs = want[cur]

\* p->tf, read with the fields of struct trapframe, is the program's state
\* from the system call until the return, running or not, with interrupts
\* above it on the stack or none: system calls find their arguments, fork
\* copies the right thing, and sysretq will find rip and rflags.
FrameIsUser ==
  \A p \in alive : entry[p] # <<>> =>
    /\ \A x \in GPRs \cup {"rsp"} : Tf(p, x) = want[p][x]
    /\ Tf(p, "rcx") = want[p]["rip"] /\ Tf(p, "r11") = want[p]["rflags"]

\* Code of the kernel, and the scheduler, find the registers a call has to
\* preserve as they left them, over interrupts and over swtch.
SwitchPreserves ==
  at \in {"kernel", "scheduler"} =>
    \A x \in CalleeSaved :
      regs[x] = Kernel(cur, IF cur = 0 THEN 0 ELSE Len(entry[cur]))[x]

\* Both: nobody, in user mode or in the kernel, loses a register.
RegistersRestored == UserRestored /\ SwitchPreserves

\* "Set up new context to start executing at forkret, which returns to
\* trapret" (proc.rs:168): a process has been through forkret before it gets
\* to its program.
StartsAtForkret == at = "user" => cur \in started
=============================================================================
